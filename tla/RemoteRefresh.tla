--------------------------- MODULE RemoteRefresh ---------------------------
(***************************************************************************)
(* The refresh of archived models from their source                        *)
(* (app/services/remote_refresh.py and source_refresh.py).  One thread of  *)
(* the worker wakes up, takes over a batch that was interrupted or put     *)
(* off, or starts a new one that is due or asked for.  A batch writes the  *)
(* models it is for into a manifest, hands them to a pool, and appends a   *)
(* record to a result file for each model that ended.  When the archive    *)
(* queue gets work the batch hands out nothing more and is put off.        *)
(*                                                                         *)
(* The API is another process.  It asks for a refresh by a mark in the     *)
(* stored state, and does not know what the worker is doing.  The worker   *)
(* dies at any point.                                                      *)
(***************************************************************************)
EXTENDS Naturals, FiniteSets

CONSTANTS
    Refreshable,    \* the models that can be refreshed
    Pool,           \* how many are refreshed at a time
    Mishaps         \* a bound: deaths, exceptions, lost manifests

ASSUME RefreshAssumption == Pool \in Nat \ {0} /\ Mishaps \in Nat

VARIABLES
    refresh,    \* remote_refresh_state: what the database keeps
    batchFiles, \* the manifest and the records of the batch of active_run
    round,      \* the worker's thread: where it is, and _batch_running
    demand,     \* what goes on around: the setting, the archive queue, mishaps left
    fetched     \* how often each model of the batch was fetched

refreshVars == <<refresh, batchFiles, round, demand, fetched>>

RunStatus == {"none", "running", "resuming", "interrupted", "deferred", "completed"}
Resumable == {"running", "resuming", "interrupted", "deferred"}
Sleeping == [at |-> "sleeping", flag |-> FALSE, asked |-> FALSE, picked |-> {}, flying |-> {}, landed |-> {}, off |-> FALSE]

RefreshInit ==
    /\ refresh = [running |-> FALSE, run |-> "none", manual |-> FALSE, due |-> FALSE]
    /\ batchFiles = [manifest |-> {}, intact |-> TRUE, records |-> {}]
    /\ round = Sleeping
    /\ demand = [enabled |-> TRUE, busy |-> FALSE, mishaps |-> Mishaps]
    /\ fetched = [k \in Refreshable |-> 0]

RoundIs(place) == round.at = place
Patch(state) == refresh' = state /\ UNCHANGED <<batchFiles, demand, fetched>>

-----------------------------------------------------------------------------
(***************************************************************************)
(* The API's process: trigger_manual_refresh with background_enabled       *)
(* false.  _ensure_state takes a run of the worker for a stale one, as     *)
(* this process runs none, and the patch stores that nothing is running.   *)
(***************************************************************************)
TriggerManualRefresh ==
    /\ ~ refresh.manual
    /\ Patch([refresh EXCEPT !.running = FALSE, !.manual = TRUE, !.due = @ /\ ~ demand.enabled])
    /\ UNCHANGED round
SaveRemoteRefresh ==
    /\ demand' = [demand EXCEPT !.enabled = ~ @]
    /\ refresh' = [refresh EXCEPT !.due = FALSE]
    /\ UNCHANGED <<batchFiles, round, fetched>>
TimePasses ==
    /\ ~ refresh.due
    /\ Patch([refresh EXCEPT !.due = TRUE]) /\ UNCHANGED round
QueueChanges ==
    /\ demand' = [demand EXCEPT !.busy = ~ @]
    /\ UNCHANGED <<refresh, batchFiles, round, fetched>>

-----------------------------------------------------------------------------
Scheduled == demand.enabled                                         \* mutant
Wanted == demand.enabled \/ refresh.manual
\* _tick: _ensure_state clears what a dead process left and reads the mark.
WakeUp ==
    /\ RoundIs("sleeping") /\ ~ round.flag
    /\ Patch([refresh EXCEPT !.running = FALSE, !.due = @ /\ ~ refresh.running])
    /\ round' = [round EXCEPT !.at = IF Wanted THEN "tick" ELSE "sleeping",
                              !.asked = refresh.manual]

PutOff ==
    /\ RoundIs("tick") /\ refresh.run \in Resumable /\ demand.busy
    /\ Patch([refresh EXCEPT !.running = FALSE, !.run = "deferred", !.due = FALSE])
    /\ round' = Sleeping

(***************************************************************************)
(* _resume_active_run_if_possible: the models of the manifest without a    *)
(* record, or the end of the batch when there are none.  Called from the   *)
(* loop it does not set _batch_running.                                    *)
(***************************************************************************)
Remaining == batchFiles.manifest \ batchFiles.records
Resume ==
    /\ RoundIs("tick") /\ ~ demand.busy
    /\ refresh.run \in Resumable /\ batchFiles.intact
    /\ Patch([refresh EXCEPT !.running = TRUE, !.run = "resuming"])
    /\ round' = [round EXCEPT !.at = IF Remaining = {} THEN "finalize" ELSE "begin",
                              !.picked = Remaining]
Finalize ==
    /\ RoundIs("finalize")
    /\ Patch([refresh EXCEPT !.running = FALSE, !.run = "completed", !.due = FALSE])
    /\ round' = Sleeping
ManifestMissing ==
    /\ RoundIs("tick") /\ ~ demand.busy
    /\ refresh.run \in Resumable /\ ~ batchFiles.intact
    /\ Patch([refresh EXCEPT !.running = FALSE, !.run = "interrupted"])
    /\ round' = [round EXCEPT !.at = "new"]
NothingToResume ==
    /\ RoundIs("tick") /\ refresh.run \notin Resumable
    /\ round' = [round EXCEPT !.at = "new"]
    /\ UNCHANGED <<refresh, batchFiles, demand, fetched>>

\* A new batch, when it is due or asked for.
NotDue ==
    /\ RoundIs("new") /\ ~ round.asked /\ ~ refresh.due
    /\ round' = Sleeping /\ UNCHANGED <<refresh, batchFiles, demand, fetched>>
PutOffNew ==
    /\ RoundIs("new") /\ (round.asked \/ refresh.due) /\ demand.busy
    /\ Patch([refresh EXCEPT !.running = FALSE, !.due = FALSE])
    /\ round' = Sleeping
PickCandidates ==
    /\ RoundIs("new") /\ (round.asked \/ refresh.due) /\ ~ demand.busy
    /\ \E models \in SUBSET Refreshable :
          round' = [round EXCEPT !.at = "create", !.flag = TRUE, !.picked = models]
    /\ UNCHANGED <<refresh, batchFiles, demand, fetched>>

-----------------------------------------------------------------------------
(***************************************************************************)
(* _run_batch.  The manifest and the state of a new batch are written, the *)
(* pool is filled; each time models have ended their records are appended, *)
(* the archive queue is looked at and the pool is filled again.            *)
(***************************************************************************)
Fill(models, flying) ==
    {more \in SUBSET models : Cardinality(more \cup flying) <= Pool
                              /\ (more = models \/ Cardinality(more \cup flying) = Pool)}
Create ==
    /\ RoundIs("create")
    /\ batchFiles' = [manifest |-> round.picked, intact |-> TRUE, records |-> {}]
    /\ refresh' = [running |-> round.picked # {}, manual |-> FALSE, due |-> FALSE,
                   run |-> IF round.picked = {} THEN "completed" ELSE "running"]
    /\ fetched' = [k \in Refreshable |-> 0]
    /\ IF round.picked = {} THEN round' = Sleeping
       ELSE \E more \in Fill(round.picked, {}) :
               round' = [round EXCEPT !.at = "run", !.picked = @ \ more, !.flying = more]
    /\ UNCHANGED demand
Begin ==
    /\ RoundIs("begin")
    /\ Patch([refresh EXCEPT !.running = TRUE, !.run = "running", !.manual = FALSE])
    /\ \E more \in Fill(round.picked, {}) :
          round' = [round EXCEPT !.at = "run", !.picked = @ \ more, !.flying = more]

\* _refresh_one: the model and its index are written; its future is done.
RefreshOne(k) ==
    /\ RoundIs("run") /\ k \in round.flying
    /\ round' = [round EXCEPT !.flying = @ \ {k}, !.landed = @ \cup {k}]
    /\ fetched' = [fetched EXCEPT ![k] = @ + 1]
    /\ UNCHANGED <<refresh, batchFiles, demand>>
Consume(done) ==
    /\ RoundIs("run") /\ done # {} /\ done \subseteq round.landed
    /\ batchFiles' = [batchFiles EXCEPT !.records = @ \cup done]
    /\ LET landed == round.landed \ done
           off == round.off \/ demand.busy
           out == round.flying \cup landed
       IN \E more \in IF off THEN {{}} ELSE Fill(round.picked, out) :
             round' = [round EXCEPT !.landed = landed, !.off = off,
                                    !.picked = @ \ more, !.flying = @ \cup more]
    /\ UNCHANGED <<refresh, demand, fetched>>
AlwaysDone(off) == "completed"                                      \* mutant
Outcome(off) == IF off THEN "deferred" ELSE "completed"
Finish ==
    /\ RoundIs("run") /\ round.flying \cup round.landed = {}
    /\ Patch([refresh EXCEPT !.running = FALSE, !.run = Outcome(round.off), !.due = FALSE])
    /\ round' = Sleeping

-----------------------------------------------------------------------------
(***************************************************************************)
(* The worker dies, or ends itself because of the memory it uses, and is   *)
(* started again.                                                          *)
(***************************************************************************)
Mishap == demand.mishaps > 0 /\ demand' = [demand EXCEPT !.mishaps = @ - 1]
RefresherDies ==
    /\ Mishap
    /\ round' = Sleeping
    /\ UNCHANGED <<refresh, batchFiles, fetched>>
\* An exception ends the batch once the models in the pool have ended, whose
\* records are not appended.
BatchBreaks ==
    /\ Mishap /\ RoundIs("run")
    /\ refresh' = [refresh EXCEPT !.running = FALSE]
    /\ fetched' = [k \in Refreshable |-> fetched[k] + IF k \in round.flying THEN 1 ELSE 0]
    /\ round' = Sleeping
    /\ UNCHANGED batchFiles
LoseManifest ==
    /\ Mishap /\ round.at \notin {"begin", "run", "finalize"}
    /\ batchFiles' = [batchFiles EXCEPT !.intact = FALSE]
    /\ UNCHANGED <<refresh, round, fetched>>

Tick ==
    \/ WakeUp \/ PutOff \/ Resume \/ Finalize \/ ManifestMissing \/ NothingToResume
    \/ NotDue \/ PutOffNew \/ PickCandidates \/ Create \/ Begin \/ Finish
RunBatch == (\E k \in Refreshable : RefreshOne(k)) \/ \E done \in SUBSET Refreshable : Consume(done)
RefreshNext ==
    \/ TriggerManualRefresh \/ SaveRemoteRefresh \/ TimePasses \/ QueueChanges
    \/ Tick \/ RunBatch
    \/ RefresherDies \/ BatchBreaks \/ LoseManifest
RefreshSpec == RefreshInit /\ [][RefreshNext]_refreshVars

\* The thread goes on, and so does the pool.
RefreshFair == WF_refreshVars(Tick) /\ WF_refreshVars(RunBatch)
RefreshFairSpec == RefreshSpec /\ RefreshFair

-----------------------------------------------------------------------------
RefreshTypeOK ==
    /\ refresh \in [running : BOOLEAN, run : RunStatus, manual : BOOLEAN, due : BOOLEAN]
    /\ batchFiles.manifest \subseteq Refreshable /\ batchFiles.records \subseteq batchFiles.manifest
    /\ batchFiles.intact \in BOOLEAN
    /\ round.picked \cup round.flying \cup round.landed \subseteq Refreshable
    /\ demand.mishaps \in 0..Mishaps
    /\ fetched \in [Refreshable -> 0..(Mishaps + 1)]

(***************************************************************************)
(* A batch is reported as completed only when each model of its manifest   *)
(* has a record, and each was fetched once, and once more at most for each *)
(* death of the worker, however often it was put off, resumed and broken   *)
(* off.                                                                    *)
(***************************************************************************)
RefreshedAll ==
    /\ refresh.run = "completed" => batchFiles.manifest \subseteq batchFiles.records
    /\ \A k \in Refreshable : fetched[k] <= 1 + (Mishaps - demand.mishaps)

(***************************************************************************)
(* A refresh that a user asks for is taken up once the archive queue is    *)
(* left at rest, whatever was interrupted before, and also when the        *)
(* schedule is switched off.                                               *)
(***************************************************************************)
RequestServed == <>[](~ demand.busy) => []<>(~ refresh.manual)
=============================================================================
