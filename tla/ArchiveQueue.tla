--------------------------- MODULE ArchiveQueue ---------------------------
(***************************************************************************)
(* The archive queue of TaskStateStore (app/services/task_state.py): the   *)
(* lists "active", "queued" and "recent_failures" of one JSON document,    *)
(* and every operation the store offers on them.  _update_archive_queue    *)
(* runs each operation under a thread lock and a file lock and writes the  *)
(* whole document at its end, so an operation is one action here.          *)
(*                                                                         *)
(* The next-state relation is the most general client of the store: any    *)
(* operation may be called at any moment with any argument the store takes.*)
(* What holds here holds whatever the managers above do, as long as they   *)
(* use these operations only.                                              *)
(*                                                                         *)
(* A list is the set of its tasks; "ahead" holds the pairs <<t, u>> of     *)
(* tasks of one list with t nearer to its front than u.  A time stamp is   *)
(* the number of ticks left before it passes (or gone since it was taken), *)
(* so no clock appears.                                                    *)
(***************************************************************************)
EXTENDS Naturals, FiniteSets

CONSTANTS
    Task,          \* task ids (uuid4 in the code, so never equal by chance)
    Model,         \* MakerWorld models, and for a batch task its page
    Instance,      \* print profiles of a model: meta.instance_ids
    Kind,          \* Kind[t]: which sort of task t is
    ModelOf,       \* ModelOf[t]: the model or page t is about
    LeaseTicks,    \* DEFAULT_LEASE_SECONDS, and the span of recent progress
    RetryTicks,    \* the longest delay a requeued task may be given
    MaxAttempts,   \* DEFAULT_MAX_ATTEMPTS of repair_archive_queue
    AttemptCap,    \* attempt_count is counted no further than this
    FailureCap,    \* recent_failures keeps so many items (20 in the code)
    Notes          \* the wordings of messages that are told apart

Kinds == {"single", "three_mf", "retry", "batch"}

ASSUME KindAssumption == Kind \in [Task -> Kinds] /\ ModelOf \in [Task -> Model]
ASSUME TickAssumption == LeaseTicks \in Nat \ {0} /\ RetryTicks \in Nat
ASSUME AttemptAssumption == /\ MaxAttempts \in Nat \ {0}
                            /\ AttemptCap \in Nat
                            /\ MaxAttempts <= AttemptCap
ASSUME CapAssumption == FailureCap \in Nat \ {0}
ASSUME NoteAssumption == "other" \in Notes /\ Notes \subseteq {"other", "fixed", "daily"}

VARIABLES
    active,        \* payload["active"]: leased tasks and tracked batch parents
    queued,        \* payload["queued"]
    failures,      \* payload["recent_failures"]
    ahead,         \* the order of the three lists
    item           \* item[t]: the fields of task t

vars == <<active, queued, failures, ahead, item>>

(***************************************************************************)
(* The fields the operations read.  "note" stands for the message text,    *)
(* which two predicates of the store match: "fixed" is one of the messages *)
(* resume_verification_paused_archive_tasks knows, "daily" names the daily *)
(* download limit.  "done" is a message and progress of a finished run,    *)
(* "expects" is meta.batch_expected_items, "probe" is                      *)
(* meta.browser_session_recovery.  Lease and idle are read of active tasks *)
(* only and stay 0 elsewhere.                                              *)
(***************************************************************************)
Statuses == {"none", "queued", "running", "waiting_children", "paused", "failed"}

Item == [status   : Statuses,
         attempts : 0..AttemptCap,     \* attempt_count
         lease    : 0..LeaseTicks,     \* ticks left of lease_expires_at, 0: past or ""
         idle     : 0..LeaseTicks,     \* ticks since the last progress or update
         retry    : 0..RetryTicks,     \* ticks left of retry_at, 0: past or ""
         blocked  : BOOLEAN,           \* blocked_reason = "needs_verification"
         note     : Notes,
         probe    : BOOLEAN,
         done     : BOOLEAN,
         expects  : BOOLEAN,
         scope    : SUBSET Instance]

Blank == [status |-> "none", attempts |-> 0, lease |-> 0, idle |-> 0, retry |-> 0,
          blocked |-> FALSE, note |-> "other", probe |-> FALSE, done |-> FALSE,
          expects |-> FALSE, scope |-> {}]

Live == active \cup queued
Listed == Live \cup failures

\* _archive_task_identity_key: what makes two tasks the same work.
KeyWith(t, scope) ==
    <<Kind[t], ModelOf[t], IF Kind[t] = "three_mf" THEN scope ELSE {}>>
Key(t) == KeyWith(t, item[t].scope)

\* The same with failure=True: a failure is told apart by its instances.
FailureKey(t) ==
    IF Kind[t] # "batch" /\ item[t].scope # {}
    THEN <<"failure", ModelOf[t], item[t].scope>>
    ELSE Key(t)

\* The entries of recent_failures that t's failure, or its next try, replaces.
SameFailure(t) == {f \in failures : FailureKey(f) = FailureKey(t)}

\* _is_completed_archive_running_snapshot
DoneMessage(t) == item[t].done                                      \* mutant
Completed(t) == item[t].status = "running" /\ item[t].done
\* is_lease_expired and not _has_recent_archive_progress
LeaseExpired(t) == item[t].lease = 0
RecentProgress(t) == item[t].idle < LeaseTicks

\* The status of a task in "active": _normalize_archive_runtime_item makes a
\* running parent with expected items a waiting one.
LeasedStatus(expects) == IF expects THEN "waiting_children" ELSE "leased"  \* mutant
ActiveStatus(expects) == IF expects THEN "waiting_children" ELSE "running"

Within(S) == {p \in ahead : p[1] \in S /\ p[2] \in S}
Without(S) == {p \in ahead : p[1] \notin S /\ p[2] \notin S}

\* The later of two items with one key, which _dedupe_archive_items drops.
Repeated(list) == {t \in list : \E u \in list : <<u, t>> \in ahead /\ Key(u) = Key(t)}
RepeatedFailures ==
    {t \in failures : \E u \in failures : <<u, t>> \in ahead /\ FailureKey(u) = FailureKey(t)}

\* _merge_archive_task_instance_scope of every task of S with t's key into t.
OtherScope(t, S) ==                                                 \* mutant
    UNION {item[u].scope : u \in {v \in S \ {t} : Key(v) = Key(t)}}
MergedScope(t, S) ==
    item[t].scope \cup UNION {item[u].scope : u \in {v \in S : Key(v) = Key(t)}}

\* recent_failures[:20]
NewestButOne(list, order) ==                                        \* mutant
    {t \in list : Cardinality({u \in list : <<u, t>> \in order}) < FailureCap - 1}
Newest(list, order) ==
    {t \in list : Cardinality({u \in list : <<u, t>> \in order}) < FailureCap}

Leased(i) == [i EXCEPT !.status = ActiveStatus(i.expects),
                       !.attempts = IF @ < AttemptCap THEN @ + 1 ELSE @,
                       !.lease = LeaseTicks, !.idle = 0, !.retry = 0]
Renewed(i) == [i EXCEPT !.lease = LeaseTicks, !.idle = 0]

-----------------------------------------------------------------------------
Init == /\ active = {} /\ queued = {} /\ failures = {} /\ ahead = {}
        /\ item = [t \in Task |-> Blank]

(***************************************************************************)
(* enqueue_archive_tasks with one item.  A task whose key is active or     *)
(* queued is not added: its instances go to the task that is there.  A     *)
(* batch names no instances and is no probe.                               *)
(***************************************************************************)
EnqueueBesideActive(t, scope, probe) ==                             \* mutant
    /\ t \notin Listed
    /\ \A e \in queued : Key(e) # KeyWith(t, scope)
    /\ queued' = queued \cup {t}
    /\ ahead' = ahead \cup (queued \X {t})
    /\ item' = [item EXCEPT ![t] = [Blank EXCEPT !.status = "queued",
                                                 !.probe = probe, !.scope = scope]]
    /\ UNCHANGED <<active, failures>>

EnqueueNew(t, scope, probe) ==
    /\ t \notin Listed /\ (Kind[t] = "batch" => scope = {} /\ ~ probe)
    /\ \A e \in Live : Key(e) # KeyWith(t, scope)
    /\ queued' = queued \cup {t}
    /\ ahead' = ahead \cup (queued \X {t})
    /\ item' = [item EXCEPT ![t] = [Blank EXCEPT !.status = "queued",
                                                 !.probe = probe, !.scope = scope]]
    /\ UNCHANGED <<active, failures>>

EnqueueMerge(t, scope) ==
    /\ t \notin Listed
    /\ \E e \in Live :
         /\ Key(e) = KeyWith(t, scope)
         /\ \A f \in Live : Key(f) = Key(e) /\ f # e =>
              \/ <<e, f>> \in ahead
              \/ e \in active /\ f \in queued
         /\ ~ scope \subseteq item[e].scope
         /\ item' = [item EXCEPT ![e] = [item[e] EXCEPT !.scope = @ \cup scope, !.idle = 0]]
    /\ UNCHANGED <<active, queued, failures, ahead>>

\* lease_next_archive_task with a selector that picks t.
Lease(t) ==
    /\ t \in queued
    /\ queued' = queued \ {t}
    /\ active' = active \cup {t}
    /\ ahead' = Without({t}) \cup (active \X {t})
    /\ item' = [item EXCEPT ![t] = Leased(@)]
    /\ UNCHANGED failures

\* start_archive_task of a task that is already active: it moves to the end.
Restart(t) ==
    /\ t \in active
    /\ ahead' = Without({t}) \cup ((active \ {t}) \X {t})
    /\ item' = [item EXCEPT ![t] = [Renewed(@) EXCEPT !.status = ActiveStatus(item[t].expects)]]
    /\ UNCHANGED <<active, queued, failures>>

UpdateWithoutHeartbeat(t, done, expects) ==                         \* mutant
    /\ t \in active
    /\ expects => Kind[t] = "batch"
    /\ item' = [item EXCEPT ![t] = [@ EXCEPT !.done = done]]
    /\ UNCHANGED <<active, queued, failures, ahead>>

\* update_active_task: progress, message and meta change, the lease is renewed.
\* Only the batch runner writes meta.batch_expected_items, and never clears it.
UpdateActive(t, done, expects) ==
    /\ t \in active
    /\ expects => Kind[t] = "batch"
    /\ LET expecting == item[t].expects \/ expects
       IN item' = [item EXCEPT ![t] = [Renewed(@) EXCEPT !.done = done,
                                                         !.expects = expecting,
                                                         !.status = ActiveStatus(expecting)]]
    /\ UNCHANGED <<active, queued, failures, ahead>>

\* complete_archive_task
Complete(t) ==
    /\ t \in active
    /\ active' = active \ {t}
    /\ ahead' = Without({t})
    /\ item' = [item EXCEPT ![t] = Blank]
    /\ UNCHANGED <<queued, failures>>

(***************************************************************************)
(* refresh_recent_active_archive_leases: a task whose run reported its end *)
(* leaves, one with an expired lease that progressed lately keeps it.      *)
(***************************************************************************)
Renewable(t) == item[t].status = "running" /\ LeaseExpired(t) /\ RecentProgress(t)

RefreshLeases ==
    LET finalized == {t \in active : Completed(t)}
    IN /\ active' = active \ finalized
       /\ ahead' = Without(finalized)
       /\ item' = [t \in Task |-> IF t \in finalized THEN Blank
                                  ELSE IF t \in active /\ Renewable(t)
                                  THEN Renewed(item[t]) ELSE item[t]]
       /\ UNCHANGED <<queued, failures>>

(***************************************************************************)
(* fail_archive_task.  The other items of the document are rebuilt by      *)
(* _normalize_task_item, which knows none of the runtime fields; the save  *)
(* gives a running item one attempt back.                                  *)
(***************************************************************************)
StrippedToDefault(i) == [i EXCEPT !.status = "queued", !.attempts = 0,   \* mutant
                                  !.lease = 0, !.retry = 0, !.blocked = FALSE]
Stripped(i) == [i EXCEPT !.attempts = IF i.status = "running" THEN 1 ELSE 0,
                         !.lease = 0, !.retry = 0, !.blocked = FALSE]

Fail(t) ==
    /\ t \in Live
    /\ LET kept == failures \ SameFailure(t)
           order == Within(kept) \cup ({t} \X kept)
           newest == Newest(kept \cup {t}, order)
       IN /\ active' = active \ {t}
          /\ queued' = queued \ {t}
          /\ failures' = newest
          /\ ahead' = Within(active') \cup Within(queued')
                        \cup (order \cap (newest \X newest))
          /\ item' = [u \in Task |->
                IF u = t THEN [Stripped(item[t]) EXCEPT !.status = "failed", !.attempts = 0,
                                           !.idle = 0, !.done = FALSE, !.note = "other"]
                ELSE IF u \in Live \cup newest THEN Stripped(item[u])
                ELSE Blank]

\* fail_archive_task of a task the document no longer holds: nothing fails, but
\* every item is rebuilt all the same.
FailUnknown ==
    /\ Listed # {}
    /\ item' = [u \in Task |-> IF u \in Listed THEN Stripped(item[u]) ELSE item[u]]
    /\ UNCHANGED <<active, queued, failures, ahead>>

(***************************************************************************)
(* requeue_archive_task: a failed run goes to the end of the queue, to be  *)
(* retried after a delay.                                                  *)
(***************************************************************************)
Requeue(t, retry) ==
    /\ t \in active
    /\ LET dropped == {u \in queued : Key(u) = Key(t)} \cup SameFailure(t)
       IN /\ active' = active \ {t}
          /\ queued' = (queued \ dropped) \cup {t}
          /\ failures' = failures \ dropped
          /\ ahead' = Without(dropped \cup {t}) \cup ((queued \ dropped) \X {t})
          /\ item' = [u \in Task |->
                IF u = t THEN [item[t] EXCEPT !.status = "queued", !.retry = retry, !.lease = 0,
                                              !.idle = 0, !.done = FALSE, !.note = "other"]
                ELSE IF u \in dropped THEN Blank
                ELSE item[u]]

(***************************************************************************)
(* requeue_active_tasks, called once when a worker process starts: what    *)
(* the previous process was running is queued again, at the front; a batch *)
(* parent that waits for its children is not.                              *)
(***************************************************************************)
RequeueActive ==
    LET finalized == {t \in active : Completed(t)}
        tracking == {t \in active : item[t].status = "waiting_children"}
        rest == active \ (finalized \cup tracking)
        kept == queued \ Repeated(queued)
        recovered == {t \in rest :
            \A u \in kept \cup {v \in rest : <<v, t>> \in ahead} : Key(u) # Key(t)}
    IN /\ active' = tracking
       /\ queued' = recovered \cup kept
       /\ ahead' = Within(tracking) \cup Within(recovered) \cup Within(kept)
                     \cup Within(failures) \cup (recovered \X kept)
       /\ item' = [t \in Task |->
             IF t \in tracking THEN [item[t] EXCEPT !.idle = 0]
             ELSE IF t \in recovered
             THEN [item[t] EXCEPT !.status = "queued", !.lease = 0, !.idle = 0,
                                  !.done = FALSE, !.note = "other", !.scope = MergedScope(t, rest)]
             ELSE IF t \in kept
             THEN [item[t] EXCEPT !.scope = MergedScope(t, queued \cup rest)]
             ELSE IF t \in failures THEN item[t]
             ELSE Blank]
       /\ UNCHANGED failures

(***************************************************************************)
(* repair_archive_queue.  With repair_active = FALSE (the worker's regular *)
(* maintenance) it only drops repeated items.                              *)
(***************************************************************************)
RepairLists ==
    LET kept == queued \ Repeated(queued)
        unique == failures \ RepeatedFailures
        newest == Newest(unique, Within(unique))
    IN /\ queued' = kept
       /\ failures' = newest
       /\ ahead' = Within(active) \cup Within(kept) \cup Within(newest)
       /\ item' = [t \in Task |->
             IF t \in kept THEN [item[t] EXCEPT !.scope = MergedScope(t, queued)]
             ELSE IF t \in active \cup newest THEN item[t]
             ELSE Blank]
       /\ UNCHANGED active

\* With repair_active = TRUE: a running task whose lease is past and that made
\* no progress goes to the front of the queue while it has attempts left, and
\* fails when it has none.
Repair ==
    LET finalized == {t \in active : Completed(t)}
        stale == {t \in active : item[t].status = "running" /\ LeaseExpired(t)
                                  /\ ~ RecentProgress(t)} \ finalized
        exhausted == {t \in stale : item[t].attempts >= MaxAttempts}
        kept == queued \ Repeated(queued)
        requeued == {t \in stale \ exhausted :
            \A u \in kept \cup {v \in stale \ exhausted : <<v, t>> \in ahead} : Key(u) # Key(t)}
        failed == {t \in exhausted :
            \A u \in exhausted : <<t, u>> \in ahead => FailureKey(u) # FailureKey(t)}
        unique == {f \in failures \ RepeatedFailures :
            \A t \in exhausted : f \notin SameFailure(t)}
        backwards == {<<p[2], p[1]>> : p \in ahead}
        order == Within(unique) \cup (backwards \cap (failed \X failed)) \cup (failed \X unique)
        newest == Newest(failed \cup unique, order)
    IN /\ active' = active \ (finalized \cup stale)
       /\ queued' = requeued \cup kept
       /\ failures' = newest
       /\ ahead' = Within(active') \cup Within(kept) \cup (requeued \X kept)
                     \cup (backwards \cap (requeued \X requeued))
                     \cup (order \cap (newest \X newest))
       /\ item' = [t \in Task |->
             IF t \in kept THEN [item[t] EXCEPT !.scope = MergedScope(t, queued)]
             ELSE IF t \in requeued THEN [item[t] EXCEPT !.status = "queued", !.lease = 0,
                                             !.idle = 0, !.note = "other", !.done = FALSE]
             ELSE IF t \in failed \cap newest THEN [item[t] EXCEPT !.status = "failed",
                                             !.lease = 0, !.idle = 0, !.note = "other",
                                             !.done = FALSE]
             ELSE IF t \in active' THEN IF Renewable(t) THEN Renewed(item[t]) ELSE item[t]
             ELSE IF t \in newest THEN item[t]
             ELSE Blank]

(***************************************************************************)
(* pause_verification_archive_tasks: the selected queued tasks wait for a  *)
(* verification by the user.  The caller words the message.                *)
(***************************************************************************)
Pause(S, note) ==
    /\ S # {} /\ S \subseteq {t \in queued : item[t].status = "queued"}
    /\ item' = [t \in Task |-> IF t \in S THEN [item[t] EXCEPT !.status = "paused",
                                    !.blocked = TRUE, !.note = note]
                               ELSE item[t]]
    /\ UNCHANGED <<active, queued, failures, ahead>>

\* resume_verification_paused_archive_tasks: which paused tasks it takes.
DailyPaused(t) == item[t].status = "paused" /\ item[t].note = "daily"
VerificationPaused(t) == /\ item[t].status = "paused"
                         /\ ~ DailyPaused(t)
                         /\ item[t].blocked \/ item[t].note = "fixed"

\* Every caller marks the tasks it resumes as probes; a limit of one is the
\* case of a set of one.
Resume(S, includeDaily) ==
    /\ S # {}
    /\ S \subseteq {t \in queued : VerificationPaused(t) \/ (includeDaily /\ DailyPaused(t))}
    /\ item' = [t \in Task |-> IF t \in S THEN [item[t] EXCEPT !.status = "queued",
                                    !.blocked = FALSE, !.note = "other", !.probe = TRUE]
                               ELSE item[t]]
    /\ UNCHANGED <<active, queued, failures, ahead>>

\* resume_browser_session_recovery_task: the first missing-3MF retry of a model
\* goes to the front of the queue as the probe of its platform.
ResumeBrowserRecovery(t) ==
    /\ t \in queued /\ Kind[t] = "retry"
    /\ \A u \in queued : <<u, t>> \in ahead => Kind[u] # "retry" \/ ModelOf[u] # ModelOf[t]
    /\ ahead' = Without({t}) \cup ({t} \X (queued \ {t}))
    /\ item' = [item EXCEPT ![t] = [@ EXCEPT !.status = "queued", !.blocked = FALSE,
                                             !.note = "other", !.probe = TRUE]]
    /\ UNCHANGED <<active, queued, failures>>

\* remove_recent_failures_for_model looks for the model id anywhere in url,
\* title and id, so it takes the failures of m and may take others;
\* clear_archive_recent_failures takes all.
RemoveFailures(S) ==
    /\ S # {} /\ S \subseteq failures
    /\ \E m \in Model : {f \in failures : ModelOf[f] = m} \subseteq S
    /\ failures' = failures \ S
    /\ ahead' = Without(S)
    /\ item' = [t \in Task |-> IF t \in S THEN Blank
                               ELSE IF t \in failures THEN Stripped(item[t]) ELSE item[t]]
    /\ UNCHANGED <<active, queued>>

ClearFailures ==
    /\ failures # {}
    /\ failures' = {}
    /\ ahead' = Without(failures)
    /\ item' = [t \in Task |-> IF t \in failures THEN Blank ELSE item[t]]
    /\ UNCHANGED <<active, queued>>

\* One tick of the clock the time stamps are compared with.
Tick ==
    /\ item' = [t \in Task |-> [item[t] EXCEPT
          !.lease = IF @ > 0 THEN @ - 1 ELSE 0,
          !.retry = IF @ > 0 THEN @ - 1 ELSE 0,
          !.idle = IF t \in active /\ @ < LeaseTicks THEN @ + 1 ELSE @]]
    /\ UNCHANGED <<active, queued, failures, ahead>>

-----------------------------------------------------------------------------
Next ==
    \/ \E t \in Task, scope \in SUBSET Instance, probe \in BOOLEAN :
          EnqueueNew(t, scope, probe) \/ EnqueueMerge(t, scope)
    \/ \E t \in Task : Lease(t) \/ Restart(t) \/ Complete(t) \/ Fail(t)
    \/ \E t \in Task, done, expects \in BOOLEAN : UpdateActive(t, done, expects)
    \/ \E t \in Task, retry \in 0..RetryTicks : Requeue(t, retry)
    \/ \E t \in Task : ResumeBrowserRecovery(t)
    \/ \E S \in SUBSET Task, note \in Notes : Pause(S, note)
    \/ \E S \in SUBSET Task, daily \in BOOLEAN : Resume(S, daily)
    \/ \E S \in SUBSET Task : RemoveFailures(S)
    \/ RefreshLeases \/ RequeueActive \/ RepairLists \/ Repair \/ ClearFailures
    \/ FailUnknown
    \/ Tick

Spec == Init /\ [][Next]_vars

-----------------------------------------------------------------------------
(***************************************************************************)
(* Properties.                                                             *)
(***************************************************************************)

\* Every variable has its type.
TypeOK == /\ active \in SUBSET Task /\ queued \in SUBSET Task /\ failures \in SUBSET Task
          /\ ahead \in SUBSET (Task \X Task)
          /\ item \in [Task -> Item]

ListsDisjoint == active \cap queued = {} /\ Live \cap failures = {}

OneStatus ==
    \A t \in Task : item[t].status \in
        CASE t \in active   -> {ActiveStatus(item[t].expects)}
          [] t \in queued   -> {"queued", "paused"}
          [] t \in failures -> {"failed"}
          [] OTHER          -> {"none"}

\* "ahead" is a strict total order of each list and relates nothing else.
Ordered(list) ==
    \A t, u \in list : /\ <<t, u>> \in ahead \/ <<u, t>> \in ahead \/ t = u
                       /\ ~ (<<t, u>> \in ahead /\ <<u, t>> \in ahead)
                       /\ \A v \in list : <<t, u>> \in ahead /\ <<u, v>> \in ahead
                                         => <<t, v>> \in ahead
OrderOK == /\ ahead \subseteq (active \X active) \cup (queued \X queued)
                               \cup (failures \X failures)
           /\ Ordered(active) /\ Ordered(queued) /\ Ordered(failures)

\* A task is in one list at most, its status is one that list may hold, and no
\* operation that rebuilds the lists from parts loses, repeats or mixes the
\* positions of two tasks.
OneList == ListsDisjoint /\ OneStatus /\ OrderOK

\* The same work is never in the queue twice, running or waiting: the requeue,
\* recovery and repair paths keep what enqueueing established.
NoDuplicateWork == \A t, u \in Live : Key(t) = Key(u) => t = u

\* No operation makes work vanish: a live task leaves the document only when it
\* is completed, when a live task of the same key has taken over its instances,
\* when a later failure of the same work replaces it in recent_failures, or when
\* more failures came at once than that list holds.
NothingDropped ==
    [][\A t \in Live :
         \/ t \in Listed'
         \/ Completed(t) \/ Complete(t)
         \/ \E u \in Live' : Key(u)' = Key(t) /\ item[t].scope \subseteq item'[u].scope
         \/ \E f \in failures' : FailureKey(f)' = FailureKey(t)
         \/ Cardinality(failures') = FailureCap]_vars

\* Instances are only ever added to a live task, so that what a user asked for
\* survives every requeue, recovery, pause and repair of it.
ScopeGrows == [][\A t \in Live : t \in Listed' => item[t].scope \subseteq item'[t].scope]_vars

\* A batch parent that waits for its children stays where it is through worker
\* restarts, repairs and maintenance: only its own run or its own failure ends
\* the wait, so its children are never enqueued a second time.
ParentKeepsWaiting ==
    [][\A t \in active : item[t].status = "waiting_children" =>
         \/ t \in active' /\ item'[t].status = "waiting_children"
         \/ Complete(t) \/ Fail(t) \/ \E r \in 0..RetryTicks : Requeue(t, r)]_vars

\* A paused task leaves its pause by a resume, by a run or by its failure only:
\* neither the restart of a worker nor a repair releases it.
PauseHolds ==
    [][\A t \in queued : item[t].status = "paused" /\ ~ Lease(t) /\ ~ Fail(t) =>
         \/ t \in queued' /\ item'[t].status = "paused"
         \/ item'[t].probe /\ item'[t].status = "queued"]_vars

(***************************************************************************)
(* What the store owes to those who use it, over every step of every one   *)
(* of its operations: no request vanishes, shrinks or is let out of its    *)
(* pause, and no parent is woken twice.                                    *)
(***************************************************************************)
QueueKeeps == NothingDropped /\ ScopeGrows /\ ParentKeepsWaiting /\ PauseHolds

\* README: a task paused for a verification goes on once the user has verified.
\* A paused task is one the resume operation recognises.
PausedCanResume ==
    \A t \in queued : item[t].status = "paused" => VerificationPaused(t) \/ DailyPaused(t)

=============================================================================
