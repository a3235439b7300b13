----------------------------- MODULE LocalImport ----------------------------
(***************************************************************************)
(* The import of local files (app/services/local_organizer.py,             *)
(* local_organizer_worker.py, local_import_upload.py,                      *)
(* local_import_cleanup.py).  3MF files and packages (folders, archives)   *)
(* lie in the import folder.  The daemon runs one cycle after the other:   *)
(* it queues what it finds, packages first, and starts one worker process  *)
(* for one item; it polls the worker, stops it when it takes too long, and *)
(* settles the task of a worker that died.                                 *)
(*                                                                         *)
(* The files hold the same configuration (somebody downloaded it twice),   *)
(* every package its own.  A daemon that dies leaves its worker behind,    *)
(* beside the worker the next daemon starts.  Left out: the reading of     *)
(* 3MF files and archives, models deleted by the user, files of different  *)
(* configurations that belong to one model, packages that hold only 3MF    *)
(* files (they are split and come back as files).                          *)
(***************************************************************************)
EXTENDS Naturals

CONSTANTS
    Files,      \* 3MF files
    Packages,   \* folders and archives
    Moved,      \* the items whose source leaves the folder once they are imported
    Troubles      \* a bound: failures, deaths, timeouts, restarts, cleared histories

ASSUME ImportAssumption ==
    /\ Files \cap Packages = {} /\ Files \cup Packages # {} /\ Moved \subseteq Files \cup Packages
    /\ Troubles \in Nat

VARIABLES
    source,     \* source[i]: where the item lies
    task,       \* task[i]: the status of its newest task
    library,    \* the items whose model has its meta.json in the library
    index,      \* the cached index of the library: absent, or with or without the files' configuration
    staging,    \* the packages with a staging directory
    worker,     \* worker[1] belongs to the daemon, worker[2] outlived its daemon
    troubles    \* troubles left

importVars == <<source, task, library, index, staging, worker, troubles>>

Item == Files \cup Packages
Slot == {1, 2}
NoWorker == [at |-> "off", item |-> CHOOSE i \in Item : TRUE]
FileSteps == {"check", "skip", "copy", "meta", "forget", "show", "unlink", "done", "remember"}
PackageSteps == {"lock", "import", "write", "reveal", "aside"}
Working(w) == worker[w].at \in FileSteps \cup PackageSteps
ORGANIZER_TERMINAL_STATUSES == {"success", "skipped"}

ImportInit ==
    /\ source = [i \in Item |-> "away"] /\ task = [i \in Item |-> "none"]
    /\ library = {} /\ index = "absent" /\ staging = {}
    /\ worker = [w \in Slot |-> NoWorker] /\ troubles = Troubles

Trouble == troubles > 0 /\ troubles' = troubles - 1
InFolder(i) == source[i] = "folder"
At(w, place) == worker[w].at = place
Goes(w, place) == worker' = [worker EXCEPT ![w].at = place]
(* The process ends; the daemon learns it when it polls.                   *)
Exits(w) == IF w = 1 THEN Goes(w, "exited") ELSE worker' = [worker EXCEPT ![2] = NoWorker]
Marked(i, status) == [task EXCEPT ![i] = status]
Aside(i) == IF i \in Moved /\ InFolder(i) THEN [source EXCEPT ![i] = "aside"] ELSE source
Files_ == <<source, library, index, staging>>

(* An item is put into the folder, or uploaded into it; the placeholder    *)
(* task of an upload steers nothing and counts as none.                    *)
Arrive(i) ==
    /\ source[i] = "away" /\ source' = [source EXCEPT ![i] = "folder"]
    /\ UNCHANGED <<task, library, index, staging, worker, troubles>>

-----------------------------------------------------------------------------
(***************************************************************************)
(* The daemon.                                                             *)
(***************************************************************************)
(* _queue_local_package_candidates: a package with a task is left alone,   *)
(* but one that failed is queued again, unless its retry is blocked.       *)
Requeued == {p \in Packages : InFolder(p) /\ task[p] \in {"none", "failed"}}
(* _sync_candidate_queue: every other file is queued, and one is started.  *)
OnlyFresh == {f \in Files : InFolder(f) /\ task[f] \in {"none", "queued", "failed"}}
Actionable == {f \in Files : InFolder(f) /\ task[f] \notin ORGANIZER_TERMINAL_STATUSES}
Spawn(i, step) == worker' = [worker EXCEPT ![1] = [at |-> step, item |-> i]]

SpawnPackageWorker ==
    /\ At(1, "off")
    /\ \E p \in Packages :
         \/ /\ task[p] \in {"queued", "running"}
            /\ Spawn(p, "lock") /\ UNCHANGED <<task, staging>>
         \/ /\ \A q \in Packages : task[q] # "queued"
            /\ p \in Requeued
            /\ task' = [q \in Item |-> IF q \in Requeued THEN "queued" ELSE task[q]]
            /\ staging' = staging \cup Requeued
            /\ Spawn(p, "lock")
    /\ UNCHANGED <<source, library, index, troubles>>

SyncCandidates ==
    /\ At(1, "off") /\ Requeued = {} /\ \A p \in Packages : task[p] # "queued"
    /\ source' = [i \in Item |-> IF i \in Files /\ task[i] \in ORGANIZER_TERMINAL_STATUSES
                                 THEN Aside(i)[i] ELSE source[i]]
    /\ task' = [i \in Item |->
                  IF i \in Actionable THEN "queued"
                  ELSE IF i \in Files /\ task[i] = "queued" THEN "none" ELSE task[i]]
    /\ IF Actionable = {} THEN UNCHANGED worker
       ELSE \E f \in Actionable : Spawn(f, "check")
    /\ UNCHANGED <<library, index, staging, troubles>>

(* _poll_worker and _recover_stale_running_task: the worker has ended.     *)
Recovered(i) ==
    IF task[i] # "running" THEN task[i]
    ELSE IF i \in Packages THEN "blocked" ELSE IF InFolder(i) THEN "queued" ELSE "failed"
PollWorker ==
    /\ At(1, "exited") /\ worker' = [worker EXCEPT ![1] = NoWorker]
    /\ LET i == worker[1].item IN task' = Marked(i, Recovered(i))
    /\ UNCHANGED <<Files_, troubles>>
(* The worker takes longer than ORGANIZER_WORKER_TIMEOUT_SECONDS.          *)
StopWorker ==
    /\ Working(1) /\ Trouble /\ worker' = [worker EXCEPT ![1] = NoWorker]
    /\ LET i == worker[1].item IN
         task' = Marked(i, IF i \in Packages THEN "blocked" ELSE "failed")
    /\ UNCHANGED Files_

(* cleanup_expired_import_staging: a directory nobody works in (the lock)  *)
(* and no unfinished task needs.                                           *)
Held(p) == \E w \in Slot : worker[w].item = p /\ worker[w].at \in PackageSteps \ {"lock", "aside"}
CleanupStaging(p) ==
    /\ p \in staging /\ ~ Held(p) /\ task[p] \notin {"queued", "running"}
    /\ staging' = staging \ {p}
    /\ UNCHANGED <<source, task, library, index, worker, troubles>>
(* The cached index is dropped after ORGANIZER_LIBRARY_INDEX_CACHE_TTL_SECONDS. *)
ExpireIndex ==
    /\ index # "absent" /\ index' = "absent"
    /\ UNCHANGED <<source, task, library, staging, worker, troubles>>

-----------------------------------------------------------------------------
(***************************************************************************)
(* A worker with a file: process_candidate and _organize_file.             *)
(***************************************************************************)
Fails(w) == task' = Marked(worker[w].item, "failed") /\ Exits(w)
Loaded == IF index # "absent" THEN index
          ELSE IF Files \cap library # {} THEN "with" ELSE "without"

Check(w, f) ==
    /\ At(w, "check")
    /\ \/ /\ ~ InFolder(f) /\ Exits(w) /\ UNCHANGED <<source, task, index>>
       \/ /\ InFolder(f) /\ index' = Loaded
          /\ \/ /\ task[f] \in ORGANIZER_TERMINAL_STATUSES
                /\ source' = Aside(f) /\ Exits(w) /\ UNCHANGED task
             \/ /\ task[f] \notin ORGANIZER_TERMINAL_STATUSES /\ Loaded = "with"
                /\ source' = Aside(f) /\ Goes(w, "skip") /\ UNCHANGED task
             \/ /\ task[f] \notin ORGANIZER_TERMINAL_STATUSES /\ Loaded = "without"
                /\ task' = Marked(f, "running") /\ Goes(w, "copy") /\ UNCHANGED source
    /\ UNCHANGED <<library, staging, troubles>>
(* _handle_duplicate_file, after the source has been moved aside.          *)
Skip(w, f) ==
    /\ At(w, "skip") /\ task' = Marked(f, "skipped") /\ Exits(w)
    /\ UNCHANGED <<Files_, troubles>>
(* The file is copied to the model's directory: the source stays.          *)
CopyMoves(f) == [source EXCEPT ![f] = "gone"]
SourceAfterCopy(f) == source
Copy(w, f) ==
    /\ At(w, "copy")
    /\ \/ /\ InFolder(f)
          /\ source' = SourceAfterCopy(f) /\ task' = Marked(f, "running")
          /\ Goes(w, "meta") /\ UNCHANGED troubles
       \/ /\ IF InFolder(f) THEN Trouble ELSE UNCHANGED troubles
          /\ Fails(w) /\ UNCHANGED source
    /\ UNCHANGED <<library, index, staging>>
\* The meta.json of a new model is written, or that of a model it belongs to.
Catalogued(i) == library' = library \cup {i}
WriteMeta(w, f) ==
    /\ At(w, "meta")
    /\ \/ Catalogued(f) /\ Goes(w, "forget") /\ UNCHANGED <<task, troubles>>
       \/ Trouble /\ Fails(w) /\ UNCHANGED library
    /\ UNCHANGED <<source, index, staging>>
ForgetIndex(w, f) ==
    /\ At(w, "forget") /\ index' = "absent" /\ Goes(w, "show")
    /\ UNCHANGED <<source, task, library, staging, troubles>>
(* The snapshot of the catalog must show the model, or the import fails.   *)
Show(w, f) ==
    /\ At(w, "show")
    /\ \/ Goes(w, "unlink") /\ UNCHANGED <<task, troubles>>
       \/ Trouble /\ Fails(w)
    /\ UNCHANGED Files_
Unlink(w, f) ==
    /\ At(w, "unlink") /\ Goes(w, "done")
    /\ source' = IF f \in Moved /\ InFolder(f) THEN [source EXCEPT ![f] = "gone"] ELSE source
    /\ UNCHANGED <<task, library, index, staging, troubles>>
Done(w, f) ==
    /\ At(w, "done") /\ task' = Marked(f, "success") /\ Goes(w, "remember")
    /\ UNCHANGED <<Files_, troubles>>
RememberIndex(w, f) ==
    /\ At(w, "remember") /\ index' = "with" /\ Exits(w)
    /\ UNCHANGED <<source, task, library, staging, troubles>>
FileStep(w, f) ==
    \/ Check(w, f) \/ Skip(w, f) \/ Copy(w, f) \/ WriteMeta(w, f) \/ ForgetIndex(w, f)
    \/ Show(w, f) \/ Unlink(w, f) \/ Done(w, f) \/ RememberIndex(w, f)

-----------------------------------------------------------------------------
(***************************************************************************)
(* A worker with a package: _process_package_import_task and               *)
(* _run_package_import_from_staging.                                       *)
(***************************************************************************)
Lock(w, p) ==
    /\ At(w, "lock")
    /\ \/ /\ task[p] \notin {"queued", "running"} /\ Exits(w) /\ UNCHANGED task
       \/ /\ task[p] \in {"queued", "running"} /\ p \in staging /\ ~ Held(p)
          /\ task' = Marked(p, "running") /\ Goes(w, "import")
       \/ task[p] \in {"queued", "running"} /\ p \notin staging /\ Fails(w)
    /\ UNCHANGED <<Files_, troubles>>
\* The package is copied to its staging directory, if it is still in the folder.
Staged(p) == InFolder(p)
\* Its model files are compared with those of all models.
HasDuplicates(p) == p \in library
Import(w, p) ==
    /\ At(w, "import")
    /\ \/ /\ Staged(p) /\ ~ HasDuplicates(p)
          /\ task' = Marked(p, "running") /\ Goes(w, "write")
          /\ UNCHANGED <<staging, troubles>>
       \/ /\ Staged(p) /\ HasDuplicates(p)
          /\ task' = Marked(p, "skipped") /\ staging' = staging \ {p} /\ Goes(w, "aside")
          /\ UNCHANGED troubles
       \/ /\ IF Staged(p) THEN Trouble ELSE UNCHANGED troubles
          /\ Fails(w) /\ UNCHANGED staging
    /\ UNCHANGED <<source, library, index>>
Write(w, p) ==
    /\ At(w, "write")
    /\ \/ Catalogued(p) /\ Goes(w, "reveal") /\ UNCHANGED <<task, troubles>>
       \/ Trouble /\ Fails(w) /\ UNCHANGED library
    /\ UNCHANGED <<source, index, staging>>
Reveal(w, p) ==
    /\ At(w, "reveal") /\ index' = "absent"
    /\ \/ task' = Marked(p, "success") /\ staging' = staging \ {p} /\ Goes(w, "aside")
          /\ UNCHANGED troubles
       \/ Trouble /\ Fails(w) /\ UNCHANGED staging
    /\ UNCHANGED <<source, library>>
(* _cleanup_finished_package_source                                        *)
MoveAside(w, p) ==
    /\ At(w, "aside") /\ source' = Aside(p) /\ Exits(w)
    /\ UNCHANGED <<task, library, index, staging, troubles>>
PackageStep(w, p) ==
    Lock(w, p) \/ Import(w, p) \/ Write(w, p) \/ Reveal(w, p) \/ MoveAside(w, p)

WorkerStep(w) == Working(w) /\ LET i == worker[w].item IN FileStep(w, i) \/ PackageStep(w, i)

-----------------------------------------------------------------------------
WorkerDies(w) == Working(w) /\ Trouble /\ Exits(w) /\ UNCHANGED <<Files_, task>>
DaemonDies ==
    /\ Trouble /\ worker[2] = NoWorker
    /\ worker' = [worker EXCEPT ![1] = NoWorker, ![2] = IF Working(1) THEN worker[1] ELSE NoWorker]
    /\ UNCHANGED <<Files_, task>>
Restart ==
    /\ Trouble /\ worker' = [w \in Slot |-> NoWorker] /\ UNCHANGED <<Files_, task>>
(* clear_organize_tasks                                                    *)
ClearTasks ==
    /\ Trouble /\ task' = [i \in Item |-> "none"] /\ UNCHANGED <<Files_, worker>>

Daemon == SpawnPackageWorker \/ SyncCandidates \/ PollWorker
ImportNext ==
    \/ Daemon \/ StopWorker \/ ExpireIndex
    \/ \E i \in Item : Arrive(i) \/ CleanupStaging(i)
    \/ \E w \in Slot : WorkerStep(w) \/ WorkerDies(w)
    \/ DaemonDies \/ Restart \/ ClearTasks

ImportSpec == ImportInit /\ [][ImportNext]_importVars
(* The daemon's loop wakes every few seconds; a worker is a process that   *)
(* runs until it is stopped or dies.                                       *)
ImportFair ==
    /\ WF_importVars(Daemon)
    /\ \A w \in Slot : WF_importVars(WorkerStep(w))
ImportFairSpec == ImportSpec /\ ImportFair

-----------------------------------------------------------------------------
(* Every variable has its type.                                            *)
ImportTypeOK ==
    /\ source \in [Item -> {"away", "folder", "aside", "gone"}]
    /\ task \in [Item -> {"none", "queued", "running", "failed", "blocked", "success", "skipped"}]
    /\ library \subseteq Item /\ index \in {"absent", "with", "without"}
    /\ staging \subseteq Packages /\ troubles \in 0..Troubles
    /\ worker \in [Slot -> [at : {"off", "exited"} \cup FileSteps \cup PackageSteps, item : Item]]

(* A source that is gone has left its content in the library: whatever     *)
(* dies, is stopped, restarted or runs beside another worker               *)
(* (local_organizer.py: the copy is published by a rename, the source is   *)
(* removed only after the metadata).                                       *)
SameContent(i) == IF i \in Files THEN Files ELSE {i}
NothingLost == \A i \in Item : source[i] = "gone" => SameContent(i) \cap library # {}

(* Whatever lies in the folder is dealt with: it leaves the folder, or its *)
(* task ends for good (imported, skipped, or blocked with a message for    *)
(* the user), when no item is broken (run_once).                           *)
Settled(i) == ~ InFolder(i) \/ task[i] \in ORGANIZER_TERMINAL_STATUSES \cup {"blocked"}
ImportEnds == \A i \in Item : []<>Settled(i)
=============================================================================
