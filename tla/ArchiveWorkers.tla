-------------------------- MODULE ArchiveWorkers --------------------------
(***************************************************************************)
(* The threads of ArchiveTaskManager (app/services/archive_worker.py) that *)
(* run the archive queue, composed with the queue itself (ArchiveQueue),   *)
(* the 3MF gate of one platform (app/services/account_health.py) and the   *)
(* worker process, which may die at any moment and starts again.           *)
(*                                                                         *)
(* A thread leases a task, keeps what it read of it (its instances, its    *)
(* attempt count) while the pipeline runs, and ends with a row of separate *)
(* transactions: the gate, the tasks that wait for it, recent_failures,    *)
(* the follow-up task, the completion.  Other threads, the maintenance of  *)
(* the main loop and the API come in between any two of them.              *)
(*                                                                         *)
(* The pipeline itself is what it reports: progress, an end with its       *)
(* result, or an exception.  Batch tasks are left to a module of their     *)
(* own; the daily limit and the browser's session, which only keep tasks   *)
(* waiting, are left out; and of the two platforms there is one.           *)
(***************************************************************************)
EXTENDS ArchiveQueue

CONSTANTS
    Worker,         \* threads of the worker process
    Nobody,         \* the task of an idle thread
    IdleTicks,      \* _job_idle_timeout_seconds: a silent pipeline is killed
    Tries,          \* MAX_ARCHIVE_TRANSIENT_REQUEUE_ATTEMPTS
    Disturbances    \* a bound: crashes, verifications and logins in a behaviour

ASSUME WorkerAssumption == /\ Nobody \notin Task /\ "fixed" \in Notes
                           /\ IdleTicks \in Nat /\ Tries \in Nat \ {0}
                           /\ Disturbances \in Nat

VARIABLES
    worker,     \* worker[w]: the job thread w is at
    boot,       \* the worker process: "down", "recovering" or "up"
    gate,       \* three_mf_gate: "open", "closed", or "checking" (unknown, cookie_updated)
    helper,     \* a background thread that changed the gate and has yet to resume tasks
    left        \* disturbances left

managerVars == <<worker, boot, gate, helper, left>>
allVars == <<active, queued, failures, ahead, item, managerVars>>

(***************************************************************************)
(* Where a thread is between two transactions.  "run": the pipeline runs.  *)
(* "verified", "partial", "blocked": it ended, with every file, with some  *)
(* of them, or with a failure that closes the gate.  Then "pause" or       *)
(* "resume", "clear", "stage" and "complete", one transaction each.        *)
(* "broken": an exception that is not retried.                             *)
(***************************************************************************)
Places == {"idle", "run", "verified", "partial", "blocked", "pause", "resume", "clear", "stage",
           "complete", "broken"}
Job == [task  : Task \cup {Nobody},
        at    : Places,
        scope : SUBSET Instance,      \* meta.instance_ids as leased
        tries : 0..AttemptCap,        \* attempt_count as leased
        probe : BOOLEAN,              \* meta.browser_session_recovery as leased
        gone  : BOOLEAN,              \* MakerWorld no longer has the model
        age   : 0..IdleTicks]         \* ticks since the pipeline's last message
Idle == [task |-> Nobody, at |-> "idle", scope |-> {}, tries |-> 0, probe |-> FALSE,
         gone |-> FALSE, age |-> 0]

ThreeMfOnly(t) == Kind[t] \in {"three_mf", "retry"}
GateOpen == gate \in {"open", "checking"}
Up == boot = "up"
At(w, place) == Up /\ worker[w].at = place
MoveTo(w, place) == worker' = [worker EXCEPT ![w].at = place]
Stop(w) == worker' = [worker EXCEPT ![w] = Idle]
Disturb == left > 0 /\ left' = left - 1

\* An operation of the store, or nothing where it finds nothing to do.
IfAny(found, Operation) == IF found THEN Operation ELSE UNCHANGED vars

-----------------------------------------------------------------------------
\* _next_executable_task: the first task that is queued, past its retry_at and
\* not held back by the gate.
Executable(t) ==
    /\ t \in queued /\ item[t].status = "queued" /\ item[t].retry = 0
    /\ ~ (Kind[t] = "batch" /\ item[t].expects)
    /\ ThreeMfOnly(t) /\ ~ item[t].probe => GateOpen
NewestExecutable(t) ==                                              \* mutant
    Executable(t) /\ \A u \in queued : <<t, u>> \in ahead => ~ Executable(u)
NextExecutable(t) ==
    Executable(t) /\ \A u \in queued : <<u, t>> \in ahead => ~ Executable(u)

WorkersInit ==
    /\ Init
    /\ worker = [w \in Worker |-> Idle]
    /\ boot = "down" /\ gate = "open" /\ helper = "none" /\ left = Disturbances

(***************************************************************************)
(* submit, retry_missing_3mf and submit_three_mf_download end in           *)
(* enqueue_archive_task; the API may call them while the worker is down.   *)
(* A task id is not given twice: one a thread still holds is not fresh.    *)
(***************************************************************************)
Fresh(t) == \A w \in Worker : worker[w].task # t
Enqueue(t, scope, probe) ==
    Fresh(t) /\ (EnqueueNew(t, scope, probe) \/ EnqueueMerge(t, scope))

Submit(t, scope) ==
    /\ Kind[t] # "batch"
    /\ Kind[t] = "single" => scope = {}
    /\ Enqueue(t, scope, FALSE)
    /\ UNCHANGED managerVars

\* _run_loop: lease_next_archive_task with _next_executable_task as selector.
LeaseNext(w) ==
    /\ At(w, "idle")
    /\ \E t \in queued :
         /\ NextExecutable(t)
         /\ Lease(t)
         /\ worker' = [worker EXCEPT ![w] =
               [Idle EXCEPT !.task = t, !.at = "run", !.scope = item[t].scope,
                            !.tries = item'[t].attempts, !.probe = item[t].probe]]
    /\ UNCHANGED <<boot, gate, helper, left>>

\* progress_callback
Progress(w) ==
    /\ At(w, "run")
    /\ LET t == worker[w].task IN IfAny(t \in active, UpdateActive(t, FALSE, FALSE))
    /\ worker' = [worker EXCEPT ![w].age = 0]
    /\ UNCHANGED <<boot, gate, helper, left>>

(***************************************************************************)
(* The pipeline ends.  A full archive reports "finished" in its last       *)
(* progress message, which update_active_task writes; a 3MF run does not.  *)
(* Only a 3MF run can verify the gate or find it closed: "verified" when   *)
(* it got every file, "partial" when it got one of several.                *)
(***************************************************************************)
PipelineEnds(w, place) ==
    /\ At(w, "run")
    /\ LET t == worker[w].task
       IN /\ place # "clear" => ThreeMfOnly(t)
          /\ IfAny(t \in active, UpdateActive(t, Kind[t] = "single", FALSE))
    /\ worker' = [worker EXCEPT ![w] = [@ EXCEPT !.at = place, !.age = 0]]
    /\ UNCHANGED <<boot, gate, helper, left>>

\* _complete_terminal_not_found_task, entered
NotFound(w) ==
    /\ At(w, "run") /\ Kind[worker[w].task] = "retry"
    /\ worker' = [worker EXCEPT ![w] = [@ EXCEPT !.at = "clear", !.gone = TRUE]]
    /\ UNCHANGED <<vars, boot, gate, helper, left>>

\* _sync_account_health_for_archive_result
OpenGate(w) ==
    /\ \/ /\ At(w, "verified")
          /\ gate' = IF Kind[worker[w].task] = "retry" \/ worker[w].probe THEN "open" ELSE gate
          /\ MoveTo(w, "resume")
       \/ At(w, "partial") /\ gate' = "open" /\ MoveTo(w, "clear")
    /\ UNCHANGED <<vars, boot, helper, left>>

CloseGate(w) ==
    /\ At(w, "blocked")
    /\ gate' = "closed"
    /\ MoveTo(w, "pause")
    /\ UNCHANGED <<vars, boot, helper, left>>

\* _pause_three_mf_retry_tasks_for_gate.  The message is the one of a browser
\* confirmation ("fixed") or of another failure.
PauseWaiting(w, note) ==
    /\ At(w, "pause")
    /\ LET waiting == {t \in queued : item[t].status = "queued" /\ ThreeMfOnly(t)}
       IN IfAny(waiting # {}, Pause(waiting, note))
    /\ MoveTo(w, "clear")
    /\ UNCHANGED <<boot, gate, helper, left>>

\* _resume_paused_missing_3mf_retry_tasks_for_platform: one task, the first.
Resumable == {t \in queued : ThreeMfOnly(t) /\ (VerificationPaused(t) \/ DailyPaused(t))}
FirstOf(S) == {t \in S : \A u \in S : <<u, t>> \notin ahead}
ResumeAll == IfAny(Resumable # {}, Resume(Resumable, TRUE))         \* mutant
ResumeOne == IfAny(Resumable # {}, Resume(FirstOf(Resumable), TRUE))

ResumeNext(w) ==
    /\ At(w, "resume")
    /\ ResumeOne
    /\ IF worker[w].gone THEN Stop(w) ELSE MoveTo(w, "clear")
    /\ UNCHANGED <<boot, gate, helper, left>>

\* remove_recent_failures_for_model
ClearModelFailures(w) ==
    /\ At(w, "clear")
    /\ LET t == worker[w].task
           found == {f \in failures : ModelOf[f] = ModelOf[t]}
       IN /\ IfAny(found # {}, RemoveFailures(found))
          /\ MoveTo(w, IF Kind[t] = "single" THEN "stage" ELSE "complete")
    /\ UNCHANGED <<boot, gate, helper, left>>

\* _enqueue_three_mf_stage_task_from_result, for a model that has instances.
EnqueueStage(w, t) ==
    /\ At(w, "stage")
    /\ Kind[t] = "three_mf" /\ ModelOf[t] = ModelOf[worker[w].task]
    /\ Enqueue(t, Instance, FALSE)
    /\ MoveTo(w, "complete")
    /\ UNCHANGED <<boot, gate, helper, left>>

NoStage(w) ==
    /\ At(w, "stage") /\ MoveTo(w, "complete")
    /\ UNCHANGED <<vars, boot, gate, helper, left>>

CompleteTask(w) ==
    /\ At(w, "complete")
    /\ LET t == worker[w].task IN IfAny(t \in active, Complete(t))
    /\ IF worker[w].gone /\ worker[w].probe THEN MoveTo(w, "resume") ELSE Stop(w)
    /\ UNCHANGED <<boot, gate, helper, left>>

(***************************************************************************)
(* An exception ends the run: the pipeline's, the kill of a pipeline that  *)
(* was silent for too long, or one of the steps that follow it.  A passing *)
(* failure is retried later while tries are left, as the thread counted    *)
(* them when it leased the task; any other one fails the task.             *)
(***************************************************************************)
RetryLater(w) ==
    /\ \E place \in {"run", "clear", "stage"} : At(w, place)
    /\ worker[w].tries < Tries
    /\ LET t == worker[w].task IN IfAny(t \in active, Requeue(t, RetryTicks))
    /\ Stop(w)
    /\ UNCHANGED <<boot, gate, helper, left>>

\* _sync_account_health_for_archive_exception
Break(w) ==
    /\ \E place \in {"run", "clear", "stage"} : At(w, place)
    /\ gate' \in {gate, "closed", IF gate = "checking" THEN "open" ELSE gate}
    /\ MoveTo(w, "broken")
    /\ UNCHANGED <<vars, boot, helper, left>>

FailTask(w) ==
    /\ At(w, "broken")
    /\ LET t == worker[w].task
       IN IF t \in Live THEN Fail(t) ELSE IfAny(Listed # {}, FailUnknown)
    /\ Stop(w)
    /\ UNCHANGED <<boot, gate, helper, left>>

-----------------------------------------------------------------------------
\* The worker process dies; its threads and their pipelines die with it.
Crash ==
    /\ boot # "down" /\ Disturb
    /\ boot' = "down" /\ worker' = [w \in Worker |-> Idle]
    /\ helper' = IF helper = "recover" THEN "none" ELSE helper
    /\ UNCHANGED <<vars, gate>>

RecoverNothing ==                                                   \* mutant
    /\ boot = "down" /\ boot' = "recovering"
    /\ UNCHANGED <<vars, worker, gate, helper, left>>

RecoverByDropping ==                                                \* mutant
    /\ boot = "down" /\ boot' = "recovering"
    /\ active' = {} /\ ahead' = Without(active)
    /\ item' = [t \in Task |-> IF t \in active THEN Blank ELSE item[t]]
    /\ UNCHANGED <<queued, failures, worker, gate, helper, left>>

\* resume_pending_tasks: two transactions before the first thread starts.
Recover ==
    /\ boot = "down" /\ RequeueActive /\ boot' = "recovering"
    /\ UNCHANGED <<worker, gate, helper, left>>

RepairAtStart ==
    /\ boot = "recovering" /\ IfAny(queued # {}, Repair) /\ boot' = "up"
    /\ UNCHANGED <<worker, gate, helper, left>>

(***************************************************************************)
(* ensure_worker_for_pending, called by the main loop all the time, and    *)
(* the repair button of the API.                                           *)
(***************************************************************************)
Maintain ==
    /\ \/ Up /\ Live # {} /\ RepairLists
       \/ Up /\ active # {} /\ RefreshLeases
       \/ Listed # {} /\ Repair
    /\ UNCHANGED managerVars

ResumeWhenOpen ==                                                   \* mutant
    /\ Up /\ gate = "open"
    /\ LET confirmed == {t \in Resumable : item[t].note = "fixed"}
       IN confirmed # {} /\ Resume(FirstOf(confirmed), FALSE)
    /\ UNCHANGED managerVars

\* _resume_browser_confirmation_tasks_when_gate_open
ResumeConfirmed ==
    /\ Up /\ GateOpen
    /\ LET confirmed == {t \in Resumable : item[t].note = "fixed"}
       IN confirmed # {} /\ Resume(FirstOf(confirmed), FALSE)
    /\ UNCHANGED managerVars

(***************************************************************************)
(* The user verifies in the browser and presses the button, or a new login *)
(* is found; each writes the gate first and leaves the tasks to a thread   *)
(* of its own.                                                             *)
(***************************************************************************)
Verified ==
    /\ helper = "none" /\ Disturb
    /\ gate' = "open" /\ helper' = "verify"
    /\ UNCHANGED <<vars, worker, boot>>

LoginFound ==
    /\ helper = "none" /\ Disturb
    /\ gate' = "checking"
    /\ helper' = IF gate = "closed" /\ Up THEN "recover" ELSE "none"
    /\ UNCHANGED <<vars, worker, boot>>

\* retry_verification_missing_3mf: one paused task, or else the blocked model.
\* _recover_browser_session_for_three_mf_gate: the blocked model.
HelperResumes ==
    /\ helper = "verify" /\ Resumable # {} /\ ResumeOne
    /\ helper' = "none"
    /\ UNCHANGED <<worker, boot, gate, left>>

HelperRetries(t) ==
    /\ helper = "recover" \/ (helper = "verify" /\ Resumable = {})
    /\ Kind[t] = "retry"
    /\ \/ ResumeBrowserRecovery(t)
       \/ /\ \A u \in queued : Kind[u] = "retry" => ModelOf[u] # ModelOf[t]
          /\ Enqueue(t, {}, TRUE)
    /\ helper' = "none"
    /\ UNCHANGED <<worker, boot, gate, left>>

HelperFindsNothing ==
    /\ helper = "recover" \/ (helper = "verify" /\ Resumable = {})
    /\ helper' = "none"
    /\ UNCHANGED <<vars, worker, boot, gate, left>>

\* _sync_account_health_from_online_account_test after a new login.
AccountTested ==
    /\ gate = "checking" /\ gate' \in {"open", "closed"}
    /\ UNCHANGED <<vars, worker, boot, helper, left>>

TickUnwatched ==                                                    \* mutant
    /\ Tick
    /\ worker' = [w \in Worker |-> IF worker[w].at = "idle" THEN Idle
                                   ELSE [worker[w] EXCEPT !.age = @ + 1]]
    /\ UNCHANGED <<boot, gate, helper, left>>

\* Time passes while no thread is past its timeout: a silent pipeline is killed.
TickWorkers ==
    /\ \A w \in Worker : worker[w].at # "idle" => worker[w].age < IdleTicks
    /\ Tick
    /\ worker' = [w \in Worker |-> IF worker[w].at = "idle" THEN Idle
                                   ELSE [worker[w] EXCEPT !.age = @ + 1]]
    /\ UNCHANGED <<boot, gate, helper, left>>

-----------------------------------------------------------------------------
RunStep(w) ==
    \/ Progress(w) \/ RetryLater(w) \/ Break(w) \/ NotFound(w)
    \/ \E place \in {"verified", "partial", "blocked", "clear"} : PipelineEnds(w, place)
EndStep(w) ==
    \/ OpenGate(w) \/ CloseGate(w) \/ ResumeNext(w) \/ ClearModelFailures(w)
    \/ \E note \in {"fixed", "other"} : PauseWaiting(w, note)
    \/ \E t \in Task : EnqueueStage(w, t)
    \/ NoStage(w) \/ CompleteTask(w) \/ FailTask(w)
HelperStep == HelperResumes \/ HelperFindsNothing \/ \E t \in Task : HelperRetries(t)

WorkersNext ==
    \/ \E t \in Task, scope \in SUBSET Instance : Submit(t, scope)
    \/ \E w \in Worker : LeaseNext(w) \/ RunStep(w) \/ EndStep(w)
    \/ Crash \/ Recover \/ RepairAtStart \/ Maintain \/ ResumeConfirmed
    \/ Verified \/ LoginFound \/ HelperStep \/ AccountTested \/ TickWorkers

WorkersSpec == WorkersInit /\ [][WorkersNext]_allVars

-----------------------------------------------------------------------------
(***************************************************************************)
(* Properties.                                                             *)
(***************************************************************************)

\* Every variable of the manager has its type.
WorkersTypeOK == /\ worker \in [Worker -> Job]
                 /\ boot \in {"down", "recovering", "up"}
                 /\ gate \in {"open", "closed", "checking"}
                 /\ helper \in {"none", "verify", "recover"}
                 /\ left \in 0..Disturbances

(***************************************************************************)
(* A pipeline runs for a task that is still "active", and no other thread  *)
(* holds that task: neither the repair of expired leases nor a failure of  *)
(* another task, which wipes the leases, hands work that is being done to  *)
(* a second thread.  And once the process is up every active task has a    *)
(* thread: no crash, retry or failure leaves one that nobody runs or ends. *)
(***************************************************************************)
Attended == Up => \A t \in active : \E w \in Worker : worker[w].task = t
OneRunner ==
    /\ Attended
    /\ \A v, w \in Worker :
          /\ worker[w].at = "run" => worker[w].task \in active
          /\ worker[v].task = worker[w].task /\ v # w => worker[v].task = Nobody

\* The threads, the API, the helpers and the maintenance, with every crash in
\* between, use the store by its operations: what ArchiveQueue promises to any
\* client holds here.
ImplementsQueue == Spec

\* Paused tasks are released one by one: a login, a verification, a probe that
\* succeeds or a restart of the worker never lets the whole line loose.
Paused == {t \in queued : item[t].status = "paused"}
OneByOne ==
    [][Cardinality({t \in Paused \cap Live' : item'[t].status # "paused"}) <= 1]_allVars

(***************************************************************************)
(* Fairness: a thread goes on with its transactions, a pipeline ends at    *)
(* last (it works through finitely many files, and is killed when silent), *)
(* an idle thread leases what it may, a background thread does its step, a *)
(* dead process is started again, the main loop does its maintenance, and  *)
(* time passes.  Nothing is assumed of users, failures or crashes.         *)
(***************************************************************************)
RunEnds(w) ==
    /\ At(w, "run")
    /\ \/ RetryLater(w) \/ Break(w) \/ NotFound(w)
       \/ \E place \in {"verified", "partial", "blocked", "clear"} : PipelineEnds(w, place)

Fairness ==
    /\ \A w \in Worker : /\ WF_allVars(LeaseNext(w))
                         /\ WF_allVars(RunEnds(w))
                         /\ WF_allVars(EndStep(w))
    /\ WF_allVars(Recover) /\ WF_allVars(RepairAtStart) /\ WF_allVars(ResumeConfirmed)
    /\ WF_allVars(HelperStep) /\ WF_allVars(TickWorkers)

FairSpec == WorkersSpec /\ Fairness

\* A queued task the gate does not hold back is taken up at last (or paused, when
\* it is a 3MF task): neither retries nor restarts nor new tasks starve it.
Waits(t) == t \in queued /\ item[t].status = "queued"
Served == \A t \in Task : Waits(t) /\ (Kind[t] = "single" \/ item[t].probe) ~> ~ Waits(t)

\* A task that waits for a confirmation in the browser is released while the gate
\* is not closed, however many wait and whatever becomes of the others.
Confirming(t) == t \in Paused /\ item[t].note = "fixed" /\ ThreeMfOnly(t)
ConfirmedReleased == \A t \in Task : []<>(~ (Confirming(t) /\ GateOpen))

\* "Merged into the retry in the queue": a retry that is completed has tried every
\* instance merged into it, unless MakerWorld no longer has the model.
InstancesTried ==
    [][\A w \in Worker :
         LET job == worker[w]
         IN /\ job.at = "complete" /\ ~ job.gone /\ job.scope # {} /\ Kind[job.task] = "retry"
            /\ job.task \in active \ Listed' /\ Up'
            => item[job.task].scope \subseteq job.scope]_allVars

=============================================================================
