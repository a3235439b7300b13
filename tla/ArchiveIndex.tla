---------------------------- MODULE ArchiveIndex ----------------------------
(***************************************************************************)
(* The index of the library: the rows of archive_model_index               *)
(* (app/services/archive_model_index.py), filled by whoever changed a      *)
(* meta.json, the snapshot that each process keeps of them (catalog.py),   *)
(* and the repair of rows that disagree with their files                   *)
(* (archive_model_index_rebuild.py), run by a thread of the worker.        *)
(*                                                                         *)
(* A row disagrees when the size or the time of its meta.json is not the   *)
(* stored one.  That is looked at when a process reads its snapshot anew:  *)
(* after a change of the marker in the database that every writer renews,  *)
(* or, in the worker, after its memory was released.  The process then     *)
(* asks for a repair, by overwriting the status document.                  *)
(*                                                                         *)
(* A version of a meta.json is its signature, 0 for a directory that is    *)
(* not there.  Of a row only the signature is kept: what it shows was read *)
(* from the file a moment before, and nothing compares it.  force is never *)
(* asked for by this program and left out; so are the progress reports,    *)
(* which the result overwrites.                                            *)
(***************************************************************************)
EXTENDS Naturals, FiniteSets

CONSTANTS
    Indexed,    \* the models of the library
    Versions,   \* a bound: writes of a meta.json
    IndexFails  \* a bound: failures of the database, deaths of the worker

ASSUME IndexAssumption == Versions \in Nat \ {0} /\ IndexFails \in Nat

VARIABLES
    file,       \* file[m]: the version of its meta.json
    written,    \* the versions written so far
    row,        \* row[m]: its row, with the signature that was stored
    complete,   \* the marker of a complete index
    snapshot,   \* snapshot[p]: none (or dirty), current, or older than the marker
    change,     \* change[a]: the row that actor a is about to write
    request,    \* request[p]: the rows process p has found to disagree, asking for a repair
    repairs,    \* the status document
    thread,     \* the thread of the repair
    indexFails  \* failures left

indexVars == <<file, written, row, complete, snapshot, change, request, repairs, thread, indexFails>>

Process == {"api", "worker"}
Actor == Process \cup {"repair"}

NoUpdate == [at |-> "no", model |-> CHOOSE m \in Indexed : TRUE, early |-> FALSE]
NoRow == [there |-> FALSE, sig |-> 0]
Idle == [at |-> "none", left |-> {}, failed |-> FALSE]
NoRepair == [running |-> FALSE, dirs |-> {}, print |-> [m \in Indexed |-> 0], failed |-> FALSE, wait |-> FALSE]

\* An empty library, or one whose index is complete.
IndexInit ==
    /\ complete \in BOOLEAN
    /\ written = IF complete THEN 1 ELSE 0
    /\ file = [m \in Indexed |-> written]
    /\ row = [m \in Indexed |-> IF complete THEN [there |-> TRUE, sig |-> 1] ELSE NoRow]
    /\ snapshot = [p \in Process |-> "none"]
    /\ change = [a \in Actor |-> NoUpdate]
    /\ request = [p \in Process |-> {}]
    /\ repairs = NoRepair /\ thread = Idle /\ indexFails = IndexFails

-----------------------------------------------------------------------------
(* The marker and the snapshots                                            *)

\* _write_archive_snapshot_marker: every snapshot is of an earlier marker now.
Outdated == [p \in Process |-> IF snapshot[p] = "current" THEN "old" ELSE snapshot[p]]
\* invalidate_archive_snapshot in process p
Invalidated(p) == [Outdated EXCEPT ![p] = "none"]
Owner(a) == IF a = "repair" THEN "worker" ELSE a
\* Process p holds the lock of its snapshot while it reads and asks for a repair.
Unlocked(p) == request[p] = {}

\* A process that reads its snapshot anew: another thread of it that compares the
\* marker it read before finds a different one.
Rebuilt(p) ==
    /\ snapshot' = [snapshot EXCEPT ![p] = "current"]
    /\ change' = [a \in Actor |-> IF Owner(a) = p THEN [change[a] EXCEPT !.early = FALSE] ELSE change[a]]

\* load_archive_model_index: the rows whose files have changed or gone.
Disagrees(m) == row[m].there /\ row[m].sig # file[m]
Disagreeing == {m \in Indexed : Disagrees(m)}
PrintOf(dirs) == [m \in Indexed |-> IF m \in dirs THEN file[m] ELSE 0]

\* _request_archive_model_index_rebuild: not beside a repair, and not for 300 s
\* after a failed one of the same rows and files.
TriedAlready(dirs) == repairs.failed /\ repairs.print = PrintOf(dirs)           \* mutant
TriedJustNow(dirs) == repairs.failed /\ repairs.wait /\ repairs.print = PrintOf(dirs)
Refused(dirs) == repairs.running \/ TriedJustNow(dirs)

\* get_archive_snapshot and _build_archive_snapshot
ReadSnapshot(p) ==
    /\ Unlocked(p) /\ snapshot[p] # "current" /\ Rebuilt(p)
    /\ request' = IF complete /\ Disagreeing # {} /\ ~ Refused(Disagreeing)
                  THEN [request EXCEPT ![p] = Disagreeing] ELSE request
    /\ UNCHANGED <<file, written, row, complete, repairs, thread, indexFails>>
AskAgain(p) ==                                                              \* mutant
    /\ request[p] # {} /\ request' = [request EXCEPT ![p] = {}]
    /\ repairs' = [repairs EXCEPT !.running = TRUE, !.dirs = request[p], !.print = PrintOf(request[p])]
    /\ UNCHANGED <<file, written, row, complete, snapshot, change, thread, indexFails>>
AskForRepair(p) ==
    /\ request[p] # {} /\ request' = [request EXCEPT ![p] = {}]
    /\ repairs' = [NoRepair EXCEPT !.running = TRUE, !.dirs = request[p], !.print = PrintOf(request[p])]
    /\ UNCHANGED <<file, written, row, complete, snapshot, change, thread, indexFails>>
\* release_catalog_memory: the worker's maintenance, the organizer and the refresh.
ReleaseMemory ==
    /\ Unlocked("worker") /\ snapshot["worker"] # "none"
    /\ snapshot' = [snapshot EXCEPT !["worker"] = "none"]
    /\ UNCHANGED <<file, written, row, complete, change, request, repairs, thread, indexFails>>

-----------------------------------------------------------------------------
(* A model changes: its meta.json is written, read and put into the index. *)

UpdateIs(a, place) == change[a].at = place
DatabaseFails == indexFails > 0 /\ indexFails' = indexFails - 1

WriteMetaJson(p, m) ==
    /\ UpdateIs(p, "no") /\ written < Versions
    /\ written' = written + 1 /\ file' = [file EXCEPT ![m] = written + 1]
    /\ change' = [change EXCEPT ![p] = [NoUpdate EXCEPT !.at = "read", !.model = m]]
    /\ UNCHANGED <<row, complete, snapshot, request, repairs, thread, indexFails>>

\* upsert_archive_snapshot_model: the model is read from its file, then the marker;
\* without a file the caller invalidates the snapshot instead.
ReadModel(p) ==
    /\ UpdateIs(p, "read") /\ Unlocked(p)
    /\ IF file[change[p].model] = 0
       THEN change' = [change EXCEPT ![p] = NoUpdate] /\ snapshot' = Invalidated(p)
       ELSE /\ change' = [change EXCEPT ![p].at = "row",
                                        ![p].early = snapshot[p] = "current"]
            /\ UNCHANGED snapshot
    /\ UNCHANGED <<file, written, row, complete, request, repairs, thread, indexFails>>

\* upsert_archive_model_index: the signature is taken when the row is written.
StoreRow(a) ==
    row' = [row EXCEPT ![change[a].model] = [there |-> TRUE, sig |-> file[change[a].model]]]
UpsertRow(p) ==
    /\ UpdateIs(p, "row") /\ change' = [change EXCEPT ![p].at = "patch"]
    /\ \/ StoreRow(p) /\ UNCHANGED indexFails
       \/ DatabaseFails /\ UNCHANGED row
    /\ UNCHANGED <<file, written, complete, snapshot, request, repairs, thread>>
\* The snapshot is changed in place and the marker renewed, unless the snapshot is
\* dirty, or of another marker than the one read: then it is invalidated.
PatchSnapshot(p) ==
    /\ UpdateIs(p, "patch") /\ Unlocked(p)
    /\ change' = [change EXCEPT ![p] = NoUpdate]
    /\ snapshot' = IF change[p].early /\ snapshot[p] # "none"
                   THEN [Outdated EXCEPT ![p] = "current"] ELSE Invalidated(p)
    /\ UNCHANGED <<file, written, row, complete, request, repairs, thread, indexFails>>

\* delete_archived_models: the directory, then the row, then the marker.
DeleteModel(m) ==
    /\ UpdateIs("api", "no") /\ file[m] > 0
    /\ file' = [file EXCEPT ![m] = 0]
    /\ change' = [change EXCEPT !["api"] = [NoUpdate EXCEPT !.at = "delete", !.model = m]]
    /\ UNCHANGED <<written, row, complete, snapshot, request, repairs, thread, indexFails>>
DeleteRow ==
    /\ UpdateIs("api", "delete") /\ Unlocked("api")
    /\ change' = [change EXCEPT !["api"] = NoUpdate]
    /\ \/ row' = [row EXCEPT ![change["api"].model] = NoRow] /\ UNCHANGED indexFails
       \/ DatabaseFails /\ UNCHANGED row
    /\ snapshot' = Invalidated("api")
    /\ UNCHANGED <<file, written, complete, request, repairs, thread>>

-----------------------------------------------------------------------------
(* The repair and the rebuild                                              *)

\* main: at its start the worker asks for a whole rebuild, unless the index is
\* complete or the last rebuild ended with files it could not read.
RequestRebuild ==
    /\ thread = Idle /\ ~ repairs.running /\ ~ complete /\ ~ repairs.failed
    /\ repairs' = [NoRepair EXCEPT !.running = TRUE]
    /\ UNCHANGED <<file, written, row, complete, snapshot, change, request, thread, indexFails>>

\* The loop starts a thread for a status that is running; run_archive_model_index_rebuild.
StartRepair ==
    /\ thread = Idle /\ repairs.running
    /\ thread' = [Idle EXCEPT !.at = IF repairs.dirs # {} THEN "repair" ELSE "rebuild",
                              !.left = IF repairs.dirs # {} THEN repairs.dirs
                                       ELSE {m \in Indexed : ~ complete /\ file[m] > 0}]
    /\ UNCHANGED <<file, written, row, complete, snapshot, change, request, repairs, indexFails>>

Handled(m, ok) == thread' = [thread EXCEPT !.left = @ \ {m}, !.failed = @ \/ ~ ok]

\* A row without a file is deleted, which fails when there is no row.
RepairGone(m) ==
    /\ thread.at = "repair" /\ m \in thread.left /\ UpdateIs("repair", "no") /\ file[m] = 0
    /\ \/ row' = [row EXCEPT ![m] = NoRow] /\ Handled(m, row[m].there) /\ UNCHANGED indexFails
       \/ DatabaseFails /\ Handled(m, FALSE) /\ UNCHANGED row
    /\ UNCHANGED <<file, written, complete, snapshot, change, request, repairs>>
\* _normalize_model, then upsert_archive_model_index; a file that has just gone cannot be read.
RepairRead(m) ==
    /\ m \in thread.left /\ UpdateIs("repair", "no") /\ file[m] > 0
    /\ change' = [change EXCEPT !["repair"] = [NoUpdate EXCEPT !.at = "row", !.model = m]]
    /\ UNCHANGED <<file, written, row, complete, snapshot, request, repairs, thread, indexFails>>
RepairUnreadable(m) ==
    /\ thread.at = "rebuild" /\ m \in thread.left /\ UpdateIs("repair", "no") /\ file[m] = 0
    /\ Handled(m, FALSE)
    /\ UNCHANGED <<file, written, row, complete, snapshot, change, request, repairs, indexFails>>
RepairWrites ==
    /\ UpdateIs("repair", "row") /\ change' = [change EXCEPT !["repair"] = NoUpdate]
    /\ \/ StoreRow("repair") /\ Handled(change["repair"].model, TRUE) /\ UNCHANGED indexFails
       \/ DatabaseFails /\ Handled(change["repair"].model, FALSE) /\ UNCHANGED row
    /\ UNCHANGED <<file, written, complete, snapshot, request, repairs>>

\* The end: the marker of a complete index, the snapshot, and the result.
RepairDone ==
    /\ thread.at \in {"repair", "rebuild"} /\ thread.left = {} /\ UpdateIs("repair", "no")
    /\ Unlocked("worker")
    /\ complete' = IF thread.at = "rebuild" /\ ~ complete THEN ~ thread.failed ELSE complete
    /\ snapshot' = Invalidated("worker")
    /\ thread' = [thread EXCEPT !.at = IF @ = "repair" THEN "report" ELSE "rebuilt"]
    /\ UNCHANGED <<file, written, row, change, request, repairs, indexFails>>
ReportRepair ==
    /\ thread.at \in {"report", "rebuilt"} /\ thread' = Idle
    /\ \/ /\ repairs' = [repairs EXCEPT !.running = FALSE, !.failed = thread.failed,
                                        !.wait = thread.failed /\ thread.at = "report"]
          /\ UNCHANGED indexFails
       \/ DatabaseFails /\ UNCHANGED repairs        \* the thread dies, the status stays running
    /\ UNCHANGED <<file, written, row, complete, snapshot, change, request>>
RetryPasses ==
    /\ repairs.wait /\ repairs' = [repairs EXCEPT !.wait = FALSE]
    /\ UNCHANGED <<file, written, row, complete, snapshot, change, request, thread, indexFails>>

\* The worker dies and is started again: what it had in its memory is gone.
IndexWorkerDies ==
    /\ DatabaseFails
    /\ thread' = Idle /\ request' = [request EXCEPT !["worker"] = {}]
    /\ change' = [a \in Actor |-> IF Owner(a) = "worker" THEN NoUpdate ELSE change[a]]
    /\ snapshot' = [snapshot EXCEPT !["worker"] = "none"]
    /\ UNCHANGED <<file, written, row, complete, repairs>>

-----------------------------------------------------------------------------
RepairStep ==
    \/ StartRepair \/ RepairWrites \/ RepairDone \/ ReportRepair
    \/ \E m \in Indexed : RepairGone(m) \/ RepairRead(m) \/ RepairUnreadable(m)
IndexNext ==
    \/ \E p \in Process : ReadSnapshot(p) \/ AskForRepair(p) \/ ReadModel(p) \/ UpsertRow(p) \/ PatchSnapshot(p)
    \/ \E p \in Process, m \in Indexed : WriteMetaJson(p, m)
    \/ (\E m \in Indexed : DeleteModel(m)) \/ DeleteRow
    \/ ReleaseMemory \/ RequestRebuild \/ RepairStep \/ RetryPasses \/ IndexWorkerDies

IndexSpec == IndexInit /\ [][IndexNext]_indexVars

\* The worker's loop starts the repair, which goes on; its maintenance releases the
\* snapshot, and its scheduled scans and refreshes read it again; 300 s pass.
IndexFair ==
    /\ WF_indexVars(RepairStep) /\ WF_indexVars(RetryPasses) /\ WF_indexVars(ReleaseMemory)
    /\ WF_indexVars(ReadSnapshot("worker")) /\ WF_indexVars(AskForRepair("worker"))
IndexFairSpec == IndexSpec /\ IndexFair

-----------------------------------------------------------------------------
\* Every variable has its type; a repair that was asked for is not yet a failed one.
IndexTypeOK ==
    /\ written \in 0 .. Versions /\ file \in [Indexed -> 0 .. written]
    /\ row \in [Indexed -> [there : BOOLEAN, sig : 0 .. Versions]]
    /\ complete \in BOOLEAN
    /\ snapshot \in [Process -> {"none", "current", "old"}]
    /\ \A a \in Actor : /\ change[a].at \in {"no", "read", "row", "patch", "delete"}
                        /\ change[a].at # "no" => change[a].model \in Indexed
    /\ request \in [Process -> SUBSET Indexed]
    /\ repairs.running => ~ repairs.failed /\ ~ repairs.wait
    /\ repairs.dirs \subseteq Indexed /\ thread.left \subseteq Indexed
    /\ indexFails \in 0 .. IndexFails

(***************************************************************************)
(* test_archive_model_index.py:709, model_catalog.md:6: a row that does    *)
(* not agree with its meta.json is repaired, or the file is changed again, *)
(* whatever fails, dies or asks for a repair at the same time.             *)
(***************************************************************************)
IndexCatchesUp == \A m \in Indexed : []<>(~ (complete /\ Disagrees(m)))
=============================================================================
