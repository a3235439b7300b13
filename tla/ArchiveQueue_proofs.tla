------------------------ MODULE ArchiveQueue_proofs ------------------------
(* Theorems about ArchiveQueue, for every value of its constants.          *)
EXTENDS ArchiveQueue, TLAPS, FiniteSetTheorems, FunctionTheorems

(***************************************************************************)
(* What the operations write into one item is an item again.               *)
(***************************************************************************)
LEMMA Bounds == /\ 0 \in 0..LeaseTicks /\ LeaseTicks \in 0..LeaseTicks
                /\ 0 \in 0..RetryTicks /\ 0 \in 0..AttemptCap /\ 1 \in 0..AttemptCap
                /\ LeaseTicks \in Nat /\ RetryTicks \in Nat /\ AttemptCap \in Nat
  BY TickAssumption, AttemptAssumption

LEMMA BlankType == Blank \in Item
  BY Bounds, NoteAssumption DEF Blank, Item, Statuses

LEMMA LeasedType == ASSUME NEW i \in Item PROVE Leased(i) \in Item
  <1> DEFINE status == ActiveStatus(i.expects)
             attempts == IF i.attempts < AttemptCap THEN i.attempts + 1 ELSE i.attempts
  <1>1. status \in Statuses
    BY DEF ActiveStatus, Statuses
  <1>2. attempts \in 0..AttemptCap
    <2>1. i.attempts \in 0..AttemptCap
      BY DEF Item
    <2> QED BY <2>1, AttemptAssumption
  <1>3. Leased(i) = [i EXCEPT !.status = status, !.attempts = attempts,
                             !.lease = LeaseTicks, !.idle = 0, !.retry = 0]
    BY DEF Leased
  <1> HIDE DEF status, attempts
  <1> QED BY <1>1, <1>2, <1>3, Bounds DEF Item

LEMMA RenewedType == ASSUME NEW i \in Item PROVE Renewed(i) \in Item
  BY Bounds DEF Renewed, Item

LEMMA StrippedType == ASSUME NEW i \in Item PROVE Stripped(i) \in Item
  <1> DEFINE attempts == IF i.status = "running" THEN 1 ELSE 0
  <1>1. attempts \in 0..AttemptCap
    BY Bounds
  <1>2. Stripped(i) = [i EXCEPT !.attempts = attempts, !.lease = 0, !.retry = 0,
                               !.blocked = FALSE]
    BY DEF Stripped
  <1> HIDE DEF attempts
  <1> QED BY <1>1, <1>2, Bounds DEF Item

LEMMA ScopeType ==
  ASSUME NEW i \in Item, NEW scope \in SUBSET Instance
  PROVE  [i EXCEPT !.scope = scope] \in Item
  BY DEF Item

LEMMA MergedScopeType ==
  ASSUME TypeOK, NEW t \in Task, NEW S \in SUBSET Task
  PROVE  MergedScope(t, S) \in SUBSET Instance
  <1>1. \A u \in Task : item[u].scope \in SUBSET Instance
    BY DEF TypeOK, Item
  <1> QED BY <1>1 DEF MergedScope

\* The order built by an operation relates tasks only.
LEMMA OrderType ==
  ASSUME TypeOK, NEW S, NEW A \in SUBSET Task, NEW B \in SUBSET Task
  PROVE  /\ Within(S) \in SUBSET (Task \X Task)
         /\ Without(S) \in SUBSET (Task \X Task)
         /\ A \X B \in SUBSET (Task \X Task)
  BY DEF TypeOK, Within, Without

LEMMA NewestType == ASSUME NEW list, NEW order PROVE Newest(list, order) \subseteq list
  BY DEF Newest

LEMMA InitType == Init => TypeOK
  BY BlankType DEF Init, TypeOK

(***************************************************************************)
(* One step preserves the types.                                           *)
(***************************************************************************)
LEMMA EnqueueNewType ==
  ASSUME TypeOK, NEW t \in Task, NEW scope \in SUBSET Instance, NEW probe \in BOOLEAN,
         EnqueueNew(t, scope, probe)
  PROVE  TypeOK'
  <1>1. [Blank EXCEPT !.status = "queued", !.probe = probe, !.scope = scope] \in Item
    BY BlankType DEF Item, Statuses
  <1>2. ahead' \in SUBSET (Task \X Task)
    BY DEF EnqueueNew, TypeOK
  <1>3. item' \in [Task -> Item]
    BY <1>1 DEF EnqueueNew, TypeOK
  <1> QED BY <1>2, <1>3 DEF EnqueueNew, TypeOK

LEMMA EnqueueMergeType ==
  ASSUME TypeOK, NEW t \in Task, NEW scope \in SUBSET Instance, EnqueueMerge(t, scope)
  PROVE  TypeOK'
  <1>1. PICK e \in Live :
          item' = [item EXCEPT ![e] =
                     [item[e] EXCEPT !.scope = item[e].scope \cup scope, !.idle = 0]]
    BY DEF EnqueueMerge
  <1>2. e \in Task /\ item[e] \in Item
    BY DEF Live, TypeOK
  <1>3. [item[e] EXCEPT !.scope = item[e].scope \cup scope, !.idle = 0] \in Item
    BY <1>2, Bounds DEF Item
  <1>4. item' \in [Task -> Item]
    BY <1>1, <1>2, <1>3 DEF TypeOK
  <1> QED BY <1>4 DEF EnqueueMerge, TypeOK

LEMMA LeaseType == ASSUME TypeOK, NEW t \in Task, Lease(t) PROVE TypeOK'
  <1>1. item' \in [Task -> Item]
    BY LeasedType DEF Lease, TypeOK
  <1>2. ahead' \in SUBSET (Task \X Task)
    BY OrderType DEF Lease, TypeOK
  <1> QED BY <1>1, <1>2 DEF Lease, TypeOK

LEMMA RestartType == ASSUME TypeOK, NEW t \in Task, Restart(t) PROVE TypeOK'
  <1>1. item[t] \in Item /\ ActiveStatus(item[t].expects) \in Statuses
    BY DEF TypeOK, ActiveStatus, Statuses
  <1>2. [Renewed(item[t]) EXCEPT !.status = ActiveStatus(item[t].expects)] \in Item
    BY <1>1, RenewedType DEF Item
  <1>3. item' \in [Task -> Item]
    BY <1>2 DEF Restart, TypeOK
  <1>4. ahead' \in SUBSET (Task \X Task)
    BY OrderType DEF Restart, TypeOK
  <1> QED BY <1>3, <1>4 DEF Restart, TypeOK

LEMMA UpdateActiveType ==
  ASSUME TypeOK, NEW t \in Task, NEW done \in BOOLEAN, NEW expects \in BOOLEAN,
         UpdateActive(t, done, expects)
  PROVE  TypeOK'
  <1> DEFINE expecting == item[t].expects \/ expects
  <1>1. Renewed(item[t]) \in Item /\ ActiveStatus(expecting) \in Statuses
    BY RenewedType DEF TypeOK, ActiveStatus, Statuses
  <1>2. [Renewed(item[t]) EXCEPT !.done = done, !.expects = expecting,
                                 !.status = ActiveStatus(expecting)] \in Item
    BY <1>1 DEF Item
  <1>3. item' \in [Task -> Item]
    BY <1>2 DEF UpdateActive, TypeOK
  <1> QED BY <1>3 DEF UpdateActive, TypeOK

LEMMA CompleteType == ASSUME TypeOK, NEW t \in Task, Complete(t) PROVE TypeOK'
  <1>1. item' \in [Task -> Item]
    BY BlankType DEF Complete, TypeOK
  <1> QED BY <1>1, OrderType DEF Complete, TypeOK

LEMMA RefreshLeasesType == ASSUME TypeOK, RefreshLeases PROVE TypeOK'
  <1>1. item' \in [Task -> Item]
    BY BlankType, RenewedType DEF RefreshLeases, TypeOK
  <1> QED BY <1>1, OrderType DEF RefreshLeases, TypeOK

LEMMA FailType == ASSUME TypeOK, NEW t \in Task, Fail(t) PROVE TypeOK'
  <1> DEFINE kept == failures \ SameFailure(t)
             order == Within(kept) \cup ({t} \X kept)
             newest == Newest(kept \cup {t}, order)
  <1>1. kept \in SUBSET Task /\ newest \in SUBSET Task
    BY NewestType DEF TypeOK
  <1>2. order \in SUBSET (Task \X Task)
    BY <1>1, OrderType
  <1>3. active' \in SUBSET Task /\ queued' \in SUBSET Task /\ failures' \in SUBSET Task
    BY <1>1 DEF Fail, TypeOK
  <1>4. ahead' \in SUBSET (Task \X Task)
    <2>1. ahead' = Within(active') \cup Within(queued') \cup (order \cap (newest \X newest))
      BY DEF Fail
    <2> HIDE DEF order, newest
    <2> QED BY <1>2, <1>3, <2>1, OrderType
  <1>5. [Stripped(item[t]) EXCEPT !.status = "failed", !.attempts = 0, !.idle = 0,
                                  !.done = FALSE, !.note = "other"] \in Item
    <2>1. Stripped(item[t]) \in Item
      BY StrippedType DEF TypeOK
    <2> QED BY <2>1, Bounds, NoteAssumption DEF Item, Statuses
  <1>6. item' \in [Task -> Item]
    BY <1>5, StrippedType, BlankType DEF Fail, TypeOK
  <1> QED BY <1>3, <1>4, <1>6 DEF TypeOK

LEMMA RequeueType ==
  ASSUME TypeOK, NEW t \in Task, NEW retry \in 0..RetryTicks, Requeue(t, retry)
  PROVE  TypeOK'
  <1>1. [item[t] EXCEPT !.status = "queued", !.retry = retry, !.lease = 0, !.idle = 0,
                        !.done = FALSE, !.note = "other"] \in Item
    <2>1. item[t] \in Item
      BY DEF TypeOK
    <2>2. "queued" \in Statuses /\ "other" \in Notes /\ 0 \in 0..LeaseTicks
      BY Bounds, NoteAssumption DEF Statuses
    <2> QED BY <2>1, <2>2 DEF Item
  <1>2. item' \in [Task -> Item]
    BY <1>1, BlankType DEF Requeue, TypeOK
  <1>3. ahead' \in SUBSET (Task \X Task)
    <2> DEFINE dropped == {u \in queued : Key(u) = Key(t)} \cup SameFailure(t)
    <2>1. ahead' = Without(dropped \cup {t}) \cup ((queued \ dropped) \X {t})
      BY DEF Requeue
    <2> HIDE DEF dropped
    <2> QED BY <2>1, OrderType DEF TypeOK
  <1> QED BY <1>2, <1>3 DEF Requeue, TypeOK

LEMMA RequeueActiveType == ASSUME TypeOK, RequeueActive PROVE TypeOK'
  <1> DEFINE finalized == {t \in active : Completed(t)}
             tracking == {t \in active : item[t].status = "waiting_children"}
             rest == active \ (finalized \cup tracking)
             kept == queued \ Repeated(queued)
             recovered == {t \in rest :
               \A u \in kept \cup {v \in rest : <<v, t>> \in ahead} : Key(u) # Key(t)}
  <1>1. rest \in SUBSET Task /\ queued \cup rest \in SUBSET Task
    BY DEF TypeOK
  <1>2. active' \in SUBSET Task /\ queued' \in SUBSET Task
    BY DEF RequeueActive, TypeOK
  <1>3. kept \in SUBSET Task /\ recovered \in SUBSET Task
    BY DEF TypeOK
  <1>4. ahead' = Within(tracking) \cup Within(recovered) \cup Within(kept)
                  \cup Within(failures) \cup (recovered \X kept)
    BY DEF RequeueActive
  <1>5. ahead' \in SUBSET (Task \X Task)
    <2> HIDE DEF tracking, recovered, kept
    <2> QED BY <1>3, <1>4, OrderType, ZenonT(60)
  <1>6. ASSUME NEW t \in Task
        PROVE  /\ [item[t] EXCEPT !.idle = 0] \in Item
               /\ [item[t] EXCEPT !.status = "queued", !.lease = 0, !.idle = 0,
                      !.done = FALSE, !.note = "other", !.scope = MergedScope(t, rest)] \in Item
               /\ [item[t] EXCEPT !.scope = MergedScope(t, queued \cup rest)] \in Item
    <2>1. MergedScope(t, rest) \in SUBSET Instance
      BY <1>1, MergedScopeType
    <2>2. MergedScope(t, queued \cup rest) \in SUBSET Instance
      BY <1>1, MergedScopeType
    <2>3. item[t] \in Item
      BY DEF TypeOK
    <2> HIDE DEF rest
    <2> QED BY <2>1, <2>2, <2>3, Bounds, NoteAssumption DEF Item, Statuses
  <1>7. item' \in [Task -> Item]
    <2>1. item' = [t \in Task |->
             IF t \in tracking THEN [item[t] EXCEPT !.idle = 0]
             ELSE IF t \in recovered
             THEN [item[t] EXCEPT !.status = "queued", !.lease = 0, !.idle = 0,
                                  !.done = FALSE, !.note = "other",
                                  !.scope = MergedScope(t, rest)]
             ELSE IF t \in kept
             THEN [item[t] EXCEPT !.scope = MergedScope(t, queued \cup rest)]
             ELSE IF t \in failures THEN item[t]
             ELSE Blank]
      BY DEF RequeueActive
    <2>2. \A t \in Task : item[t] \in Item
      BY DEF TypeOK
    <2> HIDE DEF tracking, rest, kept, recovered
    <2> QED BY <1>6, <2>1, <2>2, BlankType
  <1> QED BY <1>2, <1>5, <1>7 DEF RequeueActive, TypeOK

LEMMA RepairListsType == ASSUME TypeOK, RepairLists PROVE TypeOK'
  <1> DEFINE kept == queued \ Repeated(queued)
             newest == Newest(failures \ RepeatedFailures,
                              Within(failures \ RepeatedFailures))
  <1>1. newest \subseteq failures
    BY NewestType
  <1>2. queued' \in SUBSET Task /\ failures' \in SUBSET Task
    BY <1>1 DEF RepairLists, TypeOK
  <1>3. ahead' \in SUBSET (Task \X Task)
    BY OrderType DEF RepairLists
  <1>4. \A t \in Task : [item[t] EXCEPT !.scope = MergedScope(t, queued)] \in Item
    BY MergedScopeType, ScopeType DEF TypeOK
  <1>5. item' \in [Task -> Item]
    <2>1. item' = [t \in Task |->
             IF t \in kept THEN [item[t] EXCEPT !.scope = MergedScope(t, queued)]
             ELSE IF t \in active \cup newest THEN item[t]
             ELSE Blank]
      BY DEF RepairLists
    <2> HIDE DEF kept, newest
    <2> QED BY <1>4, <2>1, BlankType DEF TypeOK
  <1> QED BY <1>2, <1>3, <1>5 DEF RepairLists, TypeOK

LEMMA RepairType == ASSUME TypeOK, Repair PROVE TypeOK'
  <1> DEFINE finalized == {t \in active : Completed(t)}
             stale == {t \in active : item[t].status = "running" /\ LeaseExpired(t)
                                       /\ ~ RecentProgress(t)} \ finalized
             exhausted == {t \in stale : item[t].attempts >= MaxAttempts}
             kept == queued \ Repeated(queued)
             requeued == {t \in stale \ exhausted :
               \A u \in kept \cup {v \in stale \ exhausted : <<v, t>> \in ahead} :
                 Key(u) # Key(t)}
             failed == {t \in exhausted :
               \A u \in exhausted : <<t, u>> \in ahead => FailureKey(u) # FailureKey(t)}
             unique == {f \in failures \ RepeatedFailures :
               \A t \in exhausted : f \notin SameFailure(t)}
             backwards == {<<p[2], p[1]>> : p \in ahead}
             order == Within(unique) \cup (backwards \cap (failed \X failed))
                       \cup (failed \X unique)
             newest == Newest(failed \cup unique, order)
  <1>1. kept \in SUBSET Task /\ requeued \in SUBSET Task /\ failed \in SUBSET Task
        /\ unique \in SUBSET Task
    BY DEF TypeOK
  <1>2. newest \in SUBSET Task
    BY <1>1, NewestType
  <1>3. active' \in SUBSET Task /\ queued' \in SUBSET Task /\ failures' \in SUBSET Task
    <2>1. active' = active \ (finalized \cup stale) /\ queued' = requeued \cup kept
          /\ failures' = newest
      BY DEF Repair
    <2> HIDE DEF finalized, stale, requeued, kept, newest
    <2> QED BY <1>1, <1>2, <2>1 DEF TypeOK
  <1>4. ahead' \in SUBSET (Task \X Task)
    <2>1. ahead' = Within(active') \cup Within(kept) \cup (requeued \X kept)
                    \cup (backwards \cap (requeued \X requeued))
                    \cup (order \cap (newest \X newest))
      BY DEF Repair
    <2> HIDE DEF requeued, kept, newest, backwards, order
    <2> QED BY <1>1, <1>2, <2>1, OrderType, ZenonT(60)
  <1>5. item' \in [Task -> Item]
    <2>1. item' = [t \in Task |->
             IF t \in kept THEN [item[t] EXCEPT !.scope = MergedScope(t, queued)]
             ELSE IF t \in requeued THEN [item[t] EXCEPT !.status = "queued", !.lease = 0,
                                             !.idle = 0, !.note = "other", !.done = FALSE]
             ELSE IF t \in failed \cap newest THEN [item[t] EXCEPT !.status = "failed",
                                             !.lease = 0, !.idle = 0, !.note = "other",
                                             !.done = FALSE]
             ELSE IF t \in active' THEN IF Renewable(t) THEN Renewed(item[t]) ELSE item[t]
             ELSE IF t \in newest THEN item[t]
             ELSE Blank]
      BY DEF Repair
    <2>2. ASSUME NEW t \in Task
          PROVE  /\ [item[t] EXCEPT !.scope = MergedScope(t, queued)] \in Item
                 /\ [item[t] EXCEPT !.status = "queued", !.lease = 0, !.idle = 0,
                                    !.note = "other", !.done = FALSE] \in Item
                 /\ [item[t] EXCEPT !.status = "failed", !.lease = 0, !.idle = 0,
                                    !.note = "other", !.done = FALSE] \in Item
                 /\ Renewed(item[t]) \in Item /\ item[t] \in Item
      <3>1. item[t] \in Item /\ Renewed(item[t]) \in Item
        BY RenewedType DEF TypeOK
      <3>2. [item[t] EXCEPT !.scope = MergedScope(t, queued)] \in Item
        BY <3>1, MergedScopeType, ScopeType DEF TypeOK
      <3>3. /\ [item[t] EXCEPT !.status = "queued", !.lease = 0, !.idle = 0,
                                !.note = "other", !.done = FALSE] \in Item
            /\ [item[t] EXCEPT !.status = "failed", !.lease = 0, !.idle = 0,
                                !.note = "other", !.done = FALSE] \in Item
        BY <3>1, Bounds, NoteAssumption DEF Item, Statuses
      <3> QED BY <3>1, <3>2, <3>3
    <2> HIDE DEF kept, requeued, failed, newest
    <2> QED BY <2>1, <2>2, BlankType
  <1> QED BY <1>3, <1>4, <1>5 DEF TypeOK

LEMMA PauseType ==
  ASSUME TypeOK, NEW S \in SUBSET Task, NEW note \in Notes, Pause(S, note)
  PROVE  TypeOK'
  <1>1. \A t \in Task : [item[t] EXCEPT !.status = "paused", !.blocked = TRUE,
                                       !.note = note] \in Item
    BY ZenonT(60) DEF TypeOK, Item, Statuses
  <1>2. item' \in [Task -> Item]
    BY <1>1 DEF Pause, TypeOK
  <1> QED BY <1>2 DEF Pause, TypeOK

LEMMA ResumedType ==
  ASSUME NEW i \in Item
  PROVE  [i EXCEPT !.status = "queued", !.blocked = FALSE, !.note = "other",
                   !.probe = TRUE] \in Item
  <1>1. "queued" \in Statuses /\ "other" \in Notes
    BY NoteAssumption DEF Statuses
  <1> QED BY <1>1 DEF Item

LEMMA ResumeType ==
  ASSUME TypeOK, NEW S \in SUBSET Task, NEW daily \in BOOLEAN, Resume(S, daily)
  PROVE  TypeOK'
  <1>1. \A t \in Task : [item[t] EXCEPT !.status = "queued", !.blocked = FALSE,
                                       !.note = "other", !.probe = TRUE] \in Item
    BY ResumedType DEF TypeOK
  <1>2. item' \in [Task -> Item]
    BY <1>1 DEF Resume, TypeOK
  <1> QED BY <1>2 DEF Resume, TypeOK

LEMMA ResumeBrowserRecoveryType ==
  ASSUME TypeOK, NEW t \in Task, ResumeBrowserRecovery(t)
  PROVE  TypeOK'
  <1>1. [item[t] EXCEPT !.status = "queued", !.blocked = FALSE,
                        !.note = "other", !.probe = TRUE] \in Item
    BY ResumedType DEF TypeOK
  <1>2. item' \in [Task -> Item]
    BY <1>1 DEF ResumeBrowserRecovery, TypeOK
  <1>3. ahead' \in SUBSET (Task \X Task)
    BY OrderType DEF ResumeBrowserRecovery, TypeOK
  <1> QED BY <1>2, <1>3 DEF ResumeBrowserRecovery, TypeOK

LEMMA RemoveFailuresType ==
  ASSUME TypeOK, NEW S \in SUBSET Task, RemoveFailures(S)
  PROVE  TypeOK'
  <1>1. item' \in [Task -> Item]
    BY BlankType, StrippedType DEF RemoveFailures, TypeOK
  <1> QED BY <1>1, OrderType DEF RemoveFailures, TypeOK

LEMMA ClearFailuresType == ASSUME TypeOK, ClearFailures PROVE TypeOK'
  <1>1. item' \in [Task -> Item]
    BY BlankType DEF ClearFailures, TypeOK
  <1> QED BY <1>1, OrderType DEF ClearFailures, TypeOK

LEMMA FailUnknownType == ASSUME TypeOK, FailUnknown PROVE TypeOK'
  <1>1. item' \in [Task -> Item]
    BY StrippedType DEF FailUnknown, TypeOK
  <1> QED BY <1>1 DEF FailUnknown, TypeOK

LEMMA TickType == ASSUME TypeOK, Tick PROVE TypeOK'
  <1> DEFINE less(n) == IF n > 0 THEN n - 1 ELSE 0
             more(t) == IF t \in active /\ item[t].idle < LeaseTicks
                        THEN item[t].idle + 1 ELSE item[t].idle
  <1>1. ASSUME NEW t \in Task
        PROVE  [item[t] EXCEPT !.lease = less(item[t].lease), !.retry = less(item[t].retry),
                               !.idle = more(t)] \in Item
    <2>1. item[t] \in Item
      BY DEF TypeOK
    <2>2. /\ item[t].lease \in 0..LeaseTicks /\ item[t].retry \in 0..RetryTicks
          /\ item[t].idle \in 0..LeaseTicks
      BY <2>1 DEF Item
    <2>3. /\ less(item[t].lease) \in 0..LeaseTicks /\ less(item[t].retry) \in 0..RetryTicks
          /\ more(t) \in 0..LeaseTicks
      BY <2>2, Bounds
    <2> HIDE DEF less, more
    <2> QED BY <2>1, <2>3 DEF Item
  <1>2. item' \in [Task -> Item]
    BY <1>1 DEF Tick
  <1> QED BY <1>2 DEF Tick, TypeOK

LEMMA StepType == ASSUME TypeOK, Next PROVE TypeOK'
  <1>1. ASSUME NEW t \in Task, NEW scope \in SUBSET Instance, NEW probe \in BOOLEAN,
               EnqueueNew(t, scope, probe) \/ EnqueueMerge(t, scope)
        PROVE  TypeOK'
    BY <1>1, EnqueueNewType, EnqueueMergeType
  <1>2. ASSUME NEW t \in Task, Lease(t) \/ Restart(t) \/ Complete(t) \/ Fail(t)
        PROVE  TypeOK'
    BY <1>2, LeaseType, RestartType, CompleteType, FailType
  <1>3. ASSUME NEW t \in Task, NEW done \in BOOLEAN, NEW expects \in BOOLEAN,
               UpdateActive(t, done, expects)
        PROVE  TypeOK'
    BY <1>3, UpdateActiveType
  <1>4. ASSUME NEW t \in Task, NEW retry \in 0..RetryTicks, Requeue(t, retry)
        PROVE  TypeOK'
    BY <1>4, RequeueType
  <1>5. ASSUME NEW t \in Task, ResumeBrowserRecovery(t) PROVE TypeOK'
    BY <1>5, ResumeBrowserRecoveryType
  <1>6. ASSUME NEW S \in SUBSET Task, NEW note \in Notes, Pause(S, note) PROVE TypeOK'
    BY <1>6, PauseType
  <1>7. ASSUME NEW S \in SUBSET Task, NEW daily \in BOOLEAN, Resume(S, daily)
        PROVE  TypeOK'
    BY <1>7, ResumeType
  <1>8. ASSUME NEW S \in SUBSET Task, RemoveFailures(S) PROVE TypeOK'
    BY <1>8, RemoveFailuresType
  <1>9. CASE \/ RefreshLeases \/ RequeueActive \/ RepairLists \/ Repair
             \/ ClearFailures \/ FailUnknown
    BY <1>9, RefreshLeasesType, RequeueActiveType, RepairListsType, RepairType,
       ClearFailuresType, FailUnknownType
  <1>10. CASE Tick
    BY <1>10, TickType
  <1> QED
    BY <1>1, <1>2, <1>3, <1>4, <1>5, <1>6, <1>7, <1>8, <1>9, <1>10 DEF Next

\* The state of the archive queue always has its type, whatever operations its
\* clients call in whatever order.
THEOREM TypeCorrect == Spec => []TypeOK
  <1>1. Init => TypeOK
    BY InitType
  <1>2. TypeOK /\ [Next]_vars => TypeOK'
    <2>1. CASE Next
      BY <2>1, StepType
    <2>2. CASE UNCHANGED vars
      BY <2>2 DEF vars, TypeOK
    <2> QED BY <2>1, <2>2
  <1> QED BY <1>1, <1>2, PTL DEF Spec

-----------------------------------------------------------------------------
(***************************************************************************)
(* The same work is never in the queue twice.  Every operation but         *)
(* enqueueing shrinks the set of live tasks or leaves it alone, and none   *)
(* changes the key of a live task: instances are merged only into tasks    *)
(* whose key ignores them, or are the ones the key names already.          *)
(***************************************************************************)
LEMMA NothingNewIsUnique ==
  ASSUME NoDuplicateWork, Live' \subseteq Live, \A t \in Live' : Key(t)' = Key(t)
  PROVE  NoDuplicateWork'
  BY DEF NoDuplicateWork

LEMMA SameScopeSameKey ==
  ASSUME NEW t, item'[t].scope = item[t].scope
  PROVE  Key(t)' = Key(t)
  BY DEF Key, KeyWith

LEMMA MergedKey ==
  ASSUME NEW t, NEW S, item'[t].scope = MergedScope(t, S)
  PROVE  Key(t)' = Key(t)
  <1>1. CASE Kind[t] = "three_mf"
    <2>1. \A u : Key(u) = Key(t) => item[u].scope = item[t].scope
      BY <1>1 DEF Key, KeyWith
    <2>2. MergedScope(t, S) = item[t].scope
      BY <2>1 DEF MergedScope
    <2> QED BY <2>2, SameScopeSameKey
  <1>2. CASE Kind[t] # "three_mf"
    BY <1>2 DEF Key, KeyWith
  <1> QED BY <1>1, <1>2

LEMMA EnqueueNewUnique ==
  ASSUME TypeOK, NoDuplicateWork, NEW t \in Task, NEW scope \in SUBSET Instance,
         NEW probe \in BOOLEAN, EnqueueNew(t, scope, probe)
  PROVE  NoDuplicateWork'
  <1>1. Live' = Live \cup {t} /\ t \notin Live
    BY DEF EnqueueNew, Live, Listed
  <1>2. Key(t)' = KeyWith(t, scope)
    <2>1. item'[t].scope = scope
      BY DEF EnqueueNew, TypeOK, Blank
    <2> QED BY <2>1 DEF Key, KeyWith
  <1>3. \A e \in Live : Key(e)' = Key(e)
    <2>1. \A e \in Live : item'[e] = item[e]
      BY <1>1 DEF EnqueueNew, TypeOK, Live
    <2> QED BY <2>1 DEF Key, KeyWith
  <1>4. \A e \in Live : Key(e) # KeyWith(t, scope)
    BY DEF EnqueueNew
  <1> QED BY <1>1, <1>2, <1>3, <1>4 DEF NoDuplicateWork

LEMMA EnqueueMergeUnique ==
  ASSUME TypeOK, NoDuplicateWork, NEW t \in Task, NEW scope \in SUBSET Instance,
         EnqueueMerge(t, scope)
  PROVE  NoDuplicateWork'
  <1>1. PICK e \in Live :
          /\ Key(e) = KeyWith(t, scope) /\ ~ scope \subseteq item[e].scope
          /\ item' = [item EXCEPT ![e] =
                        [item[e] EXCEPT !.scope = item[e].scope \cup scope, !.idle = 0]]
    BY DEF EnqueueMerge
  <1>2. Kind[e] # "three_mf"
    BY <1>1 DEF Key, KeyWith
  <1>3. Key(e)' = Key(e)
    BY <1>2 DEF Key, KeyWith
  <1>4. \A f \in Live : f # e => Key(f)' = Key(f)
    BY <1>1 DEF Key, KeyWith, TypeOK, Live
  <1>5. Live' = Live
    BY DEF EnqueueMerge, Live
  <1> QED BY <1>3, <1>4, <1>5, NothingNewIsUnique

\* Operations on single tasks: none of them touches the scope of a live task.
LEMMA SingleUnique ==
  ASSUME TypeOK, ListsDisjoint, NoDuplicateWork, NEW t \in Task,
         \/ Lease(t) \/ Restart(t) \/ Complete(t) \/ ResumeBrowserRecovery(t)
         \/ \E done, expects \in BOOLEAN : UpdateActive(t, done, expects)
  PROVE  NoDuplicateWork'
  <1>1. Live' \subseteq Live
    BY DEF Lease, Restart, Complete, ResumeBrowserRecovery, UpdateActive, Live
  <1>2. \A u \in Live' : item'[u].scope = item[u].scope
    <2>1. \A u \in Live' : item[u] \in Item /\ u \in Task
      BY <1>1 DEF TypeOK, Live
    <2>2. CASE Lease(t)
      BY <2>1, <2>2 DEF Lease, Leased, TypeOK, Item
    <2>3. CASE Restart(t)
      BY <2>1, <2>3 DEF Restart, Renewed, TypeOK, Item
    <2>4. CASE Complete(t)
      BY <2>1, <2>4 DEF Complete, TypeOK, ListsDisjoint, Live
    <2>5. CASE ResumeBrowserRecovery(t)
      BY <2>1, <2>5 DEF ResumeBrowserRecovery, TypeOK, Item
    <2>6. ASSUME NEW done \in BOOLEAN, NEW expects \in BOOLEAN,
                 UpdateActive(t, done, expects)
          PROVE  \A u \in Live' : item'[u].scope = item[u].scope
      <3> DEFINE expecting == item[t].expects \/ expects
      <3>1. item' = [item EXCEPT ![t] = [Renewed(item[t]) EXCEPT !.done = done,
                        !.expects = expecting, !.status = ActiveStatus(expecting)]]
        BY <2>6 DEF UpdateActive
      <3>2. Renewed(item[t]).scope = item[t].scope /\ Renewed(item[t]) \in Item
        BY RenewedType DEF Renewed, TypeOK, Item
      <3> QED BY <2>1, <3>1, <3>2 DEF TypeOK, Item
    <2> QED BY <2>2, <2>3, <2>4, <2>5, <2>6
  <1> QED BY <1>1, <1>2, SameScopeSameKey, NothingNewIsUnique

LEMMA StrippedScope == ASSUME NEW i \in Item PROVE Stripped(i).scope = i.scope
  BY DEF Stripped, Item

LEMMA FailUnique ==
  ASSUME TypeOK, ListsDisjoint, NoDuplicateWork, NEW t \in Task, Fail(t)
  PROVE  NoDuplicateWork'
  <1>1. Live' = Live \ {t}
    BY DEF Fail, Live
  <1>2. \A u \in Live' : item'[u].scope = item[u].scope
    <2> SUFFICES ASSUME NEW u \in Live' PROVE item'[u].scope = item[u].scope
      OBVIOUS
    <2>1. u \in Task /\ u # t /\ u \in Live /\ item[u] \in Item
      BY <1>1 DEF TypeOK, Live
    <2>2. item'[u] = Stripped(item[u])
      BY <2>1 DEF Fail
    <2> QED BY <2>1, <2>2, StrippedScope
  <1> QED BY <1>1, <1>2, SameScopeSameKey, NothingNewIsUnique

LEMMA FailUnknownUnique ==
  ASSUME TypeOK, NoDuplicateWork, FailUnknown
  PROVE  NoDuplicateWork'
  <1>1. Live' = Live
    BY DEF FailUnknown, Live
  <1>2. \A u \in Live' : item'[u].scope = item[u].scope
    <2>1. \A u \in Live : u \in Task /\ item[u] \in Item
      BY DEF TypeOK, Live
    <2>2. \A u \in Live : item'[u] = Stripped(item[u])
      BY <2>1 DEF FailUnknown, Listed
    <2> QED BY <1>1, <2>1, <2>2, StrippedScope
  <1> QED BY <1>1, <1>2, SameScopeSameKey, NothingNewIsUnique

LEMMA RequeueUnique ==
  ASSUME TypeOK, ListsDisjoint, NoDuplicateWork, NEW t \in Task,
         NEW retry \in 0..RetryTicks, Requeue(t, retry)
  PROVE  NoDuplicateWork'
  <1> DEFINE dropped == {u \in queued : Key(u) = Key(t)} \cup SameFailure(t)
  <1>1. Live' \subseteq Live /\ t \in active
    BY DEF Requeue, Live
  <1>2. \A u \in Live' : u = t \/ u \notin dropped
    <2>1. dropped \subseteq queued \cup failures
      BY DEF SameFailure
    <2>2. active' = active \ {t} /\ queued' = (queued \ dropped) \cup {t}
      BY DEF Requeue
    <2> HIDE DEF dropped
    <2> QED BY <2>1, <2>2 DEF Live, ListsDisjoint
  <1>3. \A u \in Live' : item'[u].scope = item[u].scope
    <2>1. \A u \in Live' : item[u] \in Item /\ u \in Task
      BY <1>1 DEF TypeOK, Live
    <2>2. item' = [u \in Task |->
                IF u = t THEN [item[t] EXCEPT !.status = "queued", !.retry = retry, !.lease = 0,
                                              !.idle = 0, !.done = FALSE, !.note = "other"]
                ELSE IF u \in dropped THEN Blank
                ELSE item[u]]
      BY DEF Requeue
    <2> HIDE DEF dropped
    <2> QED BY <1>2, <2>1, <2>2 DEF Item
  <1> QED BY <1>1, <1>3, SameScopeSameKey, NothingNewIsUnique

LEMMA RefreshUnique ==
  ASSUME TypeOK, ListsDisjoint, NoDuplicateWork, RefreshLeases
  PROVE  NoDuplicateWork'
  <1>1. Live' \subseteq Live
    BY DEF RefreshLeases, Live
  <1>2. \A u \in Live' : item'[u].scope = item[u].scope
    <2> SUFFICES ASSUME NEW u \in Live' PROVE item'[u].scope = item[u].scope
      OBVIOUS
    <2>1. u \in Task /\ item[u] \in Item
      BY <1>1 DEF TypeOK, Live
    <2>2. item'[u] = Renewed(item[u]) \/ item'[u] = item[u]
      BY <2>1 DEF RefreshLeases, ListsDisjoint, Live
    <2> QED BY <2>1, <2>2 DEF Renewed, Item
  <1> QED BY <1>1, <1>2, SameScopeSameKey, NothingNewIsUnique

LEMMA RequeueActiveUnique ==
  ASSUME TypeOK, ListsDisjoint, NoDuplicateWork, RequeueActive
  PROVE  NoDuplicateWork'
  <1> DEFINE finalized == {t \in active : Completed(t)}
             tracking == {t \in active : item[t].status = "waiting_children"}
             rest == active \ (finalized \cup tracking)
             kept == queued \ Repeated(queued)
             recovered == {t \in rest :
               \A u \in kept \cup {v \in rest : <<v, t>> \in ahead} : Key(u) # Key(t)}
  <1>1. active' = tracking /\ queued' = recovered \cup kept
    BY DEF RequeueActive
  <1>2. Live' \subseteq Live
    BY <1>1 DEF Live
  <1>3. \A u \in Live' : u \in Task /\ item[u] \in Item
    BY <1>2 DEF TypeOK, Live
  <1>4. ASSUME NEW u \in tracking PROVE item'[u].scope = item[u].scope
    <2>1. u \in Task /\ item[u] \in Item
      BY DEF TypeOK
    <2>2. item'[u] = [item[u] EXCEPT !.idle = 0]
      BY <2>1 DEF RequeueActive
    <2> QED BY <2>1, <2>2 DEF Item
  <1>5. ASSUME NEW u \in recovered PROVE item'[u].scope = MergedScope(u, rest)
    <2>1. u \in Task /\ item[u] \in Item /\ u \notin tracking
      BY DEF TypeOK
    <2>2. item'[u] = [item[u] EXCEPT !.status = "queued", !.lease = 0, !.idle = 0,
                        !.done = FALSE, !.note = "other", !.scope = MergedScope(u, rest)]
      BY <2>1 DEF RequeueActive
    <2> HIDE DEF rest
    <2> QED BY <2>1, <2>2 DEF Item
  <1>6. ASSUME NEW u \in kept PROVE item'[u].scope = MergedScope(u, queued \cup rest)
    <2>1. u \in Task /\ item[u] \in Item /\ u \notin tracking /\ u \notin recovered
      BY DEF TypeOK, ListsDisjoint
    <2>2. item'[u] = [item[u] EXCEPT !.scope = MergedScope(u, queued \cup rest)]
      BY <2>1 DEF RequeueActive
    <2> HIDE DEF rest
    <2> QED BY <2>1, <2>2 DEF Item
  <1>7. \A u \in Live' : Key(u)' = Key(u)
    <2> SUFFICES ASSUME NEW u \in Live' PROVE Key(u)' = Key(u)
      OBVIOUS
    <2>1. u \in tracking \/ u \in recovered \/ u \in kept
      BY <1>1 DEF Live
    <2> HIDE DEF tracking, recovered, kept, rest
    <2> QED BY <2>1, <1>4, <1>5, <1>6, SameScopeSameKey, MergedKey
  <1> QED BY <1>2, <1>7, NothingNewIsUnique

LEMMA RepairListsUnique ==
  ASSUME TypeOK, ListsDisjoint, NoDuplicateWork, RepairLists
  PROVE  NoDuplicateWork'
  <1>1. Live' \subseteq Live
    BY DEF RepairLists, Live
  <1>2. ASSUME NEW u \in Live'
        PROVE  item'[u].scope = item[u].scope \/ item'[u].scope = MergedScope(u, queued)
    <2>1. u \in Task /\ item[u] \in Item
      BY <1>1 DEF TypeOK, Live
    <2>2. item'[u] = item[u] \/ item'[u] = [item[u] EXCEPT !.scope = MergedScope(u, queued)]
      BY <2>1 DEF RepairLists, Live
    <2> QED BY <2>1, <2>2 DEF Item
  <1>3. \A u \in Live' : Key(u)' = Key(u)
    BY <1>2, SameScopeSameKey, MergedKey
  <1> QED BY <1>1, <1>3, NothingNewIsUnique

LEMMA RepairUnique ==
  ASSUME TypeOK, ListsDisjoint, NoDuplicateWork, Repair
  PROVE  NoDuplicateWork'
  <1> DEFINE finalized == {t \in active : Completed(t)}
             stale == {t \in active : item[t].status = "running" /\ LeaseExpired(t)
                                       /\ ~ RecentProgress(t)} \ finalized
             exhausted == {t \in stale : item[t].attempts >= MaxAttempts}
             kept == queued \ Repeated(queued)
             requeued == {t \in stale \ exhausted :
               \A u \in kept \cup {v \in stale \ exhausted : <<v, t>> \in ahead} :
                 Key(u) # Key(t)}
             failed == {t \in exhausted :
               \A u \in exhausted : <<t, u>> \in ahead => FailureKey(u) # FailureKey(t)}
  <1>1. active' = active \ (finalized \cup stale) /\ queued' = requeued \cup kept
    BY DEF Repair
  <1>2. Live' \subseteq Live
    BY <1>1 DEF Live
  <1>3. ASSUME NEW u \in Live'
        PROVE  item'[u].scope = item[u].scope \/ item'[u].scope = MergedScope(u, queued)
    <2>1. u \in Task /\ item[u] \in Item
      BY <1>2 DEF TypeOK, Live
    <2>2. u \in kept \/ u \in requeued \/ u \in active'
      BY <1>1 DEF Live
    <2>3. CASE u \in kept
      <3>1. item'[u] = [item[u] EXCEPT !.scope = MergedScope(u, queued)]
        BY <2>1, <2>3 DEF Repair
      <3> QED BY <2>1, <3>1 DEF Item
    <2>4. CASE u \in requeued /\ u \notin kept
      <3>1. item'[u] = [item[u] EXCEPT !.status = "queued", !.lease = 0,
                                       !.idle = 0, !.note = "other", !.done = FALSE]
        BY <2>1, <2>4 DEF Repair
      <3> QED BY <2>1, <3>1 DEF Item
    <2>5. CASE u \in active' /\ u \notin kept /\ u \notin requeued
      <3>1. u \notin failed
        BY <1>1, <2>5
      <3>2. item'[u] = Renewed(item[u]) \/ item'[u] = item[u]
        BY <2>1, <2>5, <3>1 DEF Repair
      <3> QED BY <2>1, <3>2 DEF Renewed, Item
    <2> QED BY <2>2, <2>3, <2>4, <2>5
  <1>4. \A u \in Live' : Key(u)' = Key(u)
    BY <1>3, SameScopeSameKey, MergedKey
  <1> QED BY <1>2, <1>4, NothingNewIsUnique

\* Pausing, resuming, clearing and the clock leave live tasks and scopes alone.
LEMMA FieldsUnique ==
  ASSUME TypeOK, ListsDisjoint, NoDuplicateWork,
         \/ \E S \in SUBSET Task, note \in Notes : Pause(S, note)
         \/ \E S \in SUBSET Task, daily \in BOOLEAN : Resume(S, daily)
         \/ \E S \in SUBSET Task : RemoveFailures(S)
         \/ ClearFailures \/ Tick
  PROVE  NoDuplicateWork'
  <1>1. Live' = Live
    BY DEF Pause, Resume, RemoveFailures, ClearFailures, Tick, Live
  <1>2. \A u \in Live : u \in Task /\ item[u] \in Item /\ u \notin failures
    BY DEF TypeOK, ListsDisjoint, Live
  <1>3. \A u \in Live' : item'[u].scope = item[u].scope
    <2>1. ASSUME NEW S \in SUBSET Task, NEW note \in Notes, Pause(S, note)
          PROVE  \A u \in Live' : item'[u].scope = item[u].scope
      BY <1>1, <1>2, <2>1 DEF Pause, Item
    <2>2. ASSUME NEW S \in SUBSET Task, NEW daily \in BOOLEAN, Resume(S, daily)
          PROVE  \A u \in Live' : item'[u].scope = item[u].scope
      BY <1>1, <1>2, <2>2 DEF Resume, Item
    <2>3. ASSUME NEW S \in SUBSET Task, RemoveFailures(S)
          PROVE  \A u \in Live' : item'[u].scope = item[u].scope
      BY <1>1, <1>2, <2>3 DEF RemoveFailures
    <2>4. CASE ClearFailures
      BY <1>1, <1>2, <2>4 DEF ClearFailures
    <2>5. CASE Tick
      BY <1>1, <1>2, <2>5 DEF Tick, Item
    <2> QED BY <2>1, <2>2, <2>3, <2>4, <2>5
  <1> QED BY <1>1, <1>3, SameScopeSameKey, NothingNewIsUnique

(***************************************************************************)
(* A task stays in one list: every operation that adds a task to a list    *)
(* takes it out of the others.                                             *)
(***************************************************************************)
LEMMA StepDisjoint == ASSUME TypeOK, ListsDisjoint, Next PROVE ListsDisjoint'
  <1> USE DEF ListsDisjoint, Live
  <1>1. ASSUME NEW t \in Task, NEW scope \in SUBSET Instance, NEW probe \in BOOLEAN,
               EnqueueNew(t, scope, probe) \/ EnqueueMerge(t, scope)
        PROVE  ListsDisjoint'
    <2>1. CASE EnqueueNew(t, scope, probe)
      BY <2>1 DEF EnqueueNew, Listed
    <2>2. CASE EnqueueMerge(t, scope)
      BY <2>2 DEF EnqueueMerge
    <2> QED BY <1>1, <2>1, <2>2
  <1>2. ASSUME NEW t \in Task, Lease(t) \/ Restart(t) \/ Complete(t) PROVE ListsDisjoint'
    BY <1>2 DEF Lease, Restart, Complete
  <1>3. ASSUME NEW t \in Task, Fail(t) PROVE ListsDisjoint'
    <2> DEFINE kept == failures \ SameFailure(t)
               order == Within(kept) \cup ({t} \X kept)
    <2>1. failures' = Newest(kept \cup {t}, order)
      BY <1>3 DEF Fail
    <2>2. failures' \subseteq failures \cup {t}
      BY <2>1, NewestType
    <2>3. active' = active \ {t} /\ queued' = queued \ {t}
      BY <1>3 DEF Fail
    <2> QED BY <2>2, <2>3
  <1>4. ASSUME NEW t \in Task, NEW done \in BOOLEAN, NEW expects \in BOOLEAN,
               UpdateActive(t, done, expects)
        PROVE  ListsDisjoint'
    BY <1>4 DEF UpdateActive
  <1>5. ASSUME NEW t \in Task, NEW retry \in 0..RetryTicks, Requeue(t, retry)
        PROVE  ListsDisjoint'
    BY <1>5 DEF Requeue
  <1>6. ASSUME NEW t \in Task, ResumeBrowserRecovery(t) PROVE ListsDisjoint'
    BY <1>6 DEF ResumeBrowserRecovery
  <1>7. CASE \/ \E S \in SUBSET Task, note \in Notes : Pause(S, note)
             \/ \E S \in SUBSET Task, daily \in BOOLEAN : Resume(S, daily)
             \/ \E S \in SUBSET Task : RemoveFailures(S)
    BY <1>7 DEF Pause, Resume, RemoveFailures
  <1>8. CASE RefreshLeases \/ ClearFailures \/ FailUnknown \/ Tick
    BY <1>8 DEF RefreshLeases, ClearFailures, FailUnknown, Tick
  <1>9. CASE RequeueActive
    <2>1. active' \subseteq {t \in active : item[t].status = "waiting_children"}
      BY <1>9 DEF RequeueActive
    <2>2. queued' \subseteq {t \in active : item[t].status # "waiting_children"} \cup queued
      BY <1>9 DEF RequeueActive
    <2> QED BY <1>9, <2>1, <2>2 DEF RequeueActive
  <1>10. CASE RepairLists
    <2>1. failures' \subseteq failures /\ queued' \subseteq queued /\ active' = active
      BY <1>10, NewestType DEF RepairLists
    <2> QED BY <2>1
  <1>11. CASE Repair
    <2> DEFINE finalized == {t \in active : Completed(t)}
               stale == {t \in active : item[t].status = "running" /\ LeaseExpired(t)
                                         /\ ~ RecentProgress(t)} \ finalized
               exhausted == {t \in stale : item[t].attempts >= MaxAttempts}
    <2>1. active' = active \ (finalized \cup stale)
      BY <1>11 DEF Repair
    <2>2. queued' \subseteq (stale \ exhausted) \cup queued
      BY <1>11 DEF Repair
    <2>3. failures' \subseteq exhausted \cup failures
      BY <1>11, NewestType DEF Repair
    <2> QED BY <2>1, <2>2, <2>3
  <1> HIDE DEF ListsDisjoint, Live
  <1> QED BY <1>1, <1>2, <1>3, <1>4, <1>5, <1>6, <1>7, <1>8, <1>9, <1>10, <1>11 DEF Next

LEMMA StepUnique ==
  ASSUME TypeOK, ListsDisjoint, NoDuplicateWork, Next
  PROVE  NoDuplicateWork'
  <1>1. ASSUME NEW t \in Task, NEW scope \in SUBSET Instance, NEW probe \in BOOLEAN,
               EnqueueNew(t, scope, probe) \/ EnqueueMerge(t, scope)
        PROVE  NoDuplicateWork'
    BY <1>1, EnqueueNewUnique, EnqueueMergeUnique
  <1>2. ASSUME NEW t \in Task, Lease(t) \/ Restart(t) \/ Complete(t) \/ Fail(t)
        PROVE  NoDuplicateWork'
    BY <1>2, SingleUnique, FailUnique
  <1>3. ASSUME NEW t \in Task, NEW done \in BOOLEAN, NEW expects \in BOOLEAN,
               UpdateActive(t, done, expects)
        PROVE  NoDuplicateWork'
    BY <1>3, SingleUnique
  <1>4. ASSUME NEW t \in Task, NEW retry \in 0..RetryTicks, Requeue(t, retry)
        PROVE  NoDuplicateWork'
    BY <1>4, RequeueUnique
  <1>5. ASSUME NEW t \in Task, ResumeBrowserRecovery(t) PROVE NoDuplicateWork'
    BY <1>5, SingleUnique
  <1>6. CASE \/ \E S \in SUBSET Task, note \in Notes : Pause(S, note)
             \/ \E S \in SUBSET Task, daily \in BOOLEAN : Resume(S, daily)
             \/ \E S \in SUBSET Task : RemoveFailures(S)
             \/ ClearFailures \/ Tick
    BY <1>6, FieldsUnique
  <1>7. CASE RefreshLeases \/ RequeueActive \/ RepairLists \/ Repair \/ FailUnknown
    BY <1>7, RefreshUnique, RequeueActiveUnique, RepairListsUnique, RepairUnique,
       FailUnknownUnique
  <1> QED BY <1>1, <1>2, <1>3, <1>4, <1>5, <1>6, <1>7 DEF Next

\* The same piece of work is never twice among the active and queued tasks: the
\* requeue, recovery, repair and resume paths keep what enqueueing established.
THEOREM WorkIsUnique == Spec => []NoDuplicateWork
  <1> DEFINE IInv == TypeOK /\ ListsDisjoint /\ NoDuplicateWork
  <1>1. Init => IInv
    BY InitType DEF Init, ListsDisjoint, NoDuplicateWork, Live
  <1>2. IInv /\ [Next]_vars => IInv'
    <2>1. CASE Next
      BY <2>1, StepType, StepDisjoint, StepUnique
    <2>2. CASE UNCHANGED vars
      BY <2>2 DEF vars, TypeOK, ListsDisjoint, NoDuplicateWork, Live, Key, KeyWith
    <2> QED BY <2>1, <2>2
  <1> QED BY <1>1, <1>2, PTL DEF Spec

(***************************************************************************)
(* What holds of a strict total order, such as "ahead" on a list: it stays *)
(* one on a part of the list, read backwards, and when one list is put     *)
(* behind another.                                                         *)
(***************************************************************************)
Linear(R, list) ==
    \A t, u \in list : /\ <<t, u>> \in R \/ <<u, t>> \in R \/ t = u
                       /\ ~ (<<t, u>> \in R /\ <<u, t>> \in R)
                       /\ \A v \in list : <<t, u>> \in R /\ <<u, v>> \in R => <<t, v>> \in R

LEMMA LinearOrdered == ASSUME NEW list PROVE Ordered(list) <=> Linear(ahead, list)
  BY DEF Ordered, Linear

LEMMA LinearPart ==
  ASSUME NEW R, NEW list, Linear(R, list), NEW part, part \subseteq list,
         NEW Q, \A t, u \in part : <<t, u>> \in Q <=> <<t, u>> \in R
  PROVE  Linear(Q, part)
  BY DEF Linear

LEMMA LinearBackwards ==
  ASSUME NEW R, NEW list, Linear(R, list), NEW part, part \subseteq list,
         NEW Q, \A t, u \in part : <<t, u>> \in Q <=> <<u, t>> \in R
  PROVE  Linear(Q, part)
  BY DEF Linear

LEMMA LinearJoined ==
  ASSUME NEW Q, NEW front, NEW back, Linear(Q, front), Linear(Q, back),
         \A t \in front, u \in back : <<t, u>> \in Q /\ <<u, t>> \notin Q
  PROVE  Linear(Q, front \cup back)
  BY DEF Linear

LEMMA LinearSingle == ASSUME NEW Q, NEW t, <<t, t>> \notin Q PROVE Linear(Q, {t})
  BY DEF Linear

(***************************************************************************)
(* The position of a task in a finite list counts those before it; each    *)
(* position is taken once.                                                 *)
(***************************************************************************)
Before(R, list, t) == {u \in list : <<u, t>> \in R}
Position(R, list) == [t \in list |-> Cardinality(Before(R, list, t))]

LEMMA PositionGrows ==
  ASSUME NEW R, NEW list, IsFiniteSet(list), Linear(R, list), NEW t \in list, NEW u \in list,
         <<t, u>> \in R
  PROVE  /\ Position(R, list)[t] \in Nat /\ Position(R, list)[u] \in Nat
         /\ Position(R, list)[t] < Position(R, list)[u]
  <1>1. Before(R, list, t) \subseteq Before(R, list, u) /\ t \notin Before(R, list, t)
        /\ t \in Before(R, list, u)
    BY DEF Before, Linear
  <1>2. IsFiniteSet(Before(R, list, t)) /\ IsFiniteSet(Before(R, list, u))
    BY FS_Subset DEF Before
  <1>3. /\ Cardinality(Before(R, list, t)) \in Nat /\ Cardinality(Before(R, list, u)) \in Nat
        /\ Cardinality(Before(R, list, t)) <= Cardinality(Before(R, list, u))
        /\ Cardinality(Before(R, list, t)) # Cardinality(Before(R, list, u))
    BY <1>1, <1>2, FS_CardinalityType, FS_Subset
  <1> QED BY <1>3 DEF Position

LEMMA Positions ==
  ASSUME NEW R, NEW list, IsFiniteSet(list), Linear(R, list)
  PROVE  /\ Cardinality(list) \in Nat
         /\ Position(R, list) \in Bijection(list, 0 .. Cardinality(list) - 1)
  <1> DEFINE n == Cardinality(list)
             f == Position(R, list)
  <1>1. n \in Nat
    BY FS_CardinalityType
  <1>2. \A t \in list : f[t] \in 0 .. n - 1
    <2> SUFFICES ASSUME NEW t \in list PROVE f[t] \in 0 .. n - 1
      OBVIOUS
    <2>1. Before(R, list, t) \subseteq list \ {t}
      BY DEF Before, Linear
    <2>2. IsFiniteSet(list \ {t}) /\ Cardinality(list \ {t}) = n - 1
      BY FS_RemoveElement
    <2>3. IsFiniteSet(Before(R, list, t)) /\ Cardinality(Before(R, list, t)) <= n - 1
      BY <2>1, <2>2, FS_Subset
    <2>4. Cardinality(Before(R, list, t)) \in Nat
      BY <2>3, FS_CardinalityType
    <2> QED BY <1>1, <2>3, <2>4 DEF Position
  <1>3. \A t, u \in list : f[t] = f[u] => t = u
    <2> SUFFICES ASSUME NEW t \in list, NEW u \in list, f[t] = f[u], t # u PROVE FALSE
      OBVIOUS
    <2>1. <<t, u>> \in R \/ <<u, t>> \in R
      BY DEF Linear
    <2>2. f[t] \in Nat /\ (f[t] < f[u] \/ f[u] < f[t])
      BY <2>1, PositionGrows
    <2> QED BY <2>2
  <1>4. f \in Injection(list, 0 .. n - 1)
    <2>1. f \in [list -> 0 .. n - 1]
      BY <1>2 DEF Position
    <2> HIDE DEF f
    <2> QED BY <2>1, <1>3, Fun_IsInj
  <1>5. IsFiniteSet(0 .. n - 1) /\ Cardinality(0 .. n - 1) = n
    BY <1>1, FS_Interval
  <1>6. f \in Surjection(list, 0 .. n - 1)
    BY <1>4, <1>5, FS_Injection
  <1> QED BY <1>1, <1>4, <1>6 DEF Bijection

\* A part of a finite list has a last task.
LEMMA LastOne ==
  ASSUME NEW R, NEW list, IsFiniteSet(list), Linear(R, list), NEW part, part \subseteq list, part # {}
  PROVE  \E t \in part : \A u \in part : <<t, u>> \notin R
  <1> DEFINE n == Cardinality(part)
             f == Position(R, part)
  <1>1. IsFiniteSet(part) /\ Linear(R, part)
    BY FS_Subset, LinearPart
  <1>2. n \in Nat /\ f \in Bijection(part, 0 .. n - 1)
    BY <1>1, Positions
  <1>3. n # 0
    BY <1>1, FS_EmptySet
  <1>4. PICK t \in part : f[t] = n - 1
    <2>1. f \in Surjection(part, 0 .. n - 1) /\ n - 1 \in 0 .. n - 1
      BY <1>2, <1>3 DEF Bijection
    <2> HIDE DEF f, n
    <2> QED BY <2>1 DEF Surjection
  <1>5. ASSUME NEW u \in part, <<t, u>> \in R PROVE FALSE
    <2>1. f[u] \in 0 .. n - 1
      BY <1>2 DEF Bijection, Injection
    <2>2. f[t] < f[u]
      BY <1>1, <1>5, PositionGrows
    <2> QED BY <1>2, <1>4, <2>1, <2>2
  <1> QED BY <1>4, <1>5

\* A list that is cut is full.
LEMMA CutIsFull ==
  ASSUME NEW R, NEW list, IsFiniteSet(list), Linear(R, list),
         NEW t \in list, t \notin Newest(list, R)
  PROVE  Cardinality(Newest(list, R)) = FailureCap
  <1> DEFINE n == Cardinality(list)
             f == Position(R, list)
             newest == Newest(list, R)
             g == [u \in newest |-> f[u]]
  <1>1. n \in Nat /\ f \in Bijection(list, 0 .. n - 1)
    BY Positions
  <1>2. newest = {u \in list : f[u] < FailureCap}
    BY DEF Newest, Position, Before
  <1>3. FailureCap \in Nat
    BY CapAssumption
  <1>4. f \in [list -> 0 .. n - 1]
    BY <1>1 DEF Bijection, Injection
  <1>5. f[t] \in 0 .. n - 1 /\ ~ (f[t] < FailureCap)
    BY <1>2, <1>4
  <1> HIDE DEF f, newest, n
  <1>6. g \in [newest -> 0 .. FailureCap - 1]
    BY <1>2, <1>3, <1>4
  <1>7. \A u, v \in newest : g[u] = g[v] => u = v
    BY <1>1, <1>2 DEF Bijection, Injection, IsInjective
  <1>8. \A i \in 0 .. FailureCap - 1 : \E u \in newest : g[u] = i
    <2> SUFFICES ASSUME NEW i \in 0 .. FailureCap - 1 PROVE \E u \in newest : g[u] = i
      OBVIOUS
    <2>1. i \in 0 .. n - 1 /\ i < FailureCap
      BY <1>1, <1>3, <1>5
    <2>2. PICK u \in list : f[u] = i
      BY <1>1, <2>1 DEF Bijection, Surjection
    <2> QED BY <1>2, <2>1, <2>2
  <1>9. g \in Bijection(newest, 0 .. FailureCap - 1)
    <2> HIDE DEF g
    <2>1. g \in Injection(newest, 0 .. FailureCap - 1)
      BY <1>6, <1>7, Fun_IsInj
    <2>2. g \in Surjection(newest, 0 .. FailureCap - 1)
      BY <1>6, <1>8, Fun_IsSurj
    <2> QED BY <2>1, <2>2 DEF Bijection
  <1>10. IsFiniteSet(newest)
    BY FS_Subset DEF newest, Newest
  <1>11. Cardinality(0 .. FailureCap - 1) = Cardinality(newest)
    BY <1>9, <1>10, FS_Bijection DEF ExistsBijection
  <1>12. Cardinality(0 .. FailureCap - 1) = FailureCap
    BY <1>3, FS_Interval
  <1> QED BY <1>11, <1>12 DEF newest

-----------------------------------------------------------------------------
(***************************************************************************)
(* "ahead" orders each list and nothing else, whatever an operation takes  *)
(* out, puts behind, puts in front or turns round.                         *)
(***************************************************************************)
LEMMA WithinPair ==
  ASSUME NEW S, NEW t, NEW u
  PROVE  /\ <<t, u>> \in Within(S) <=> <<t, u>> \in ahead /\ t \in S /\ u \in S
         /\ <<t, u>> \in Without(S) <=> <<t, u>> \in ahead /\ t \notin S /\ u \notin S
  BY DEF Within, Without

OneOf(t, u) == \/ t \in active /\ u \in active
               \/ t \in queued /\ u \in queued
               \/ t \in failures /\ u \in failures

LEMMA OrderGives ==
  ASSUME OrderOK
  PROVE  /\ \A t, u : <<t, u>> \in ahead => OneOf(t, u)
         /\ Linear(ahead, active) /\ Linear(ahead, queued) /\ Linear(ahead, failures)
  BY LinearOrdered DEF OrderOK, OneOf

LEMMA OrderNext ==
  ASSUME TypeOK', \A t, u : <<t, u>> \in ahead' => OneOf(t, u)',
         Linear(ahead', active'), Linear(ahead', queued'), Linear(ahead', failures')
  PROVE  OrderOK'
  <1>1. ahead' \subseteq (active' \X active') \cup (queued' \X queued') \cup (failures' \X failures')
    BY DEF TypeOK, OneOf
  <1>2. Ordered(active)' /\ Ordered(queued)' /\ Ordered(failures)'
    BY DEF Ordered, Linear
  <1> QED BY <1>1, <1>2 DEF OrderOK

\* Tasks leave the lists and nothing else happens to them.
LEMMA ShrinkOrder ==
  ASSUME TypeOK', OrderOK, NEW S,
         active' = active \ S, queued' = queued \ S, failures' = failures \ S, ahead' = Without(S)
  PROVE  OrderOK'
  <1>1. \A t, u : <<t, u>> \in ahead' <=> <<t, u>> \in ahead /\ t \notin S /\ u \notin S
    BY WithinPair
  <1>2. \A t, u : <<t, u>> \in ahead' => OneOf(t, u)'
    BY <1>1, OrderGives DEF OneOf
  <1>3. Linear(ahead', active') /\ Linear(ahead', queued') /\ Linear(ahead', failures')
    BY <1>1, OrderGives, LinearPart
  <1> QED BY <1>2, <1>3, OrderNext

LEMMA EnqueueOrder ==
  ASSUME TypeOK', OrderOK, NEW t \in Task, NEW scope, NEW probe, EnqueueNew(t, scope, probe)
  PROVE  OrderOK'
  <1>1. \A u, v : <<u, v>> \in ahead' <=> <<u, v>> \in ahead \/ (u \in queued /\ v = t)
    BY DEF EnqueueNew
  <1>2. /\ t \notin active /\ t \notin queued /\ t \notin failures
        /\ active' = active /\ queued' = queued \cup {t} /\ failures' = failures
    BY DEF EnqueueNew, Listed, Live
  <1>3. \A u : <<u, t>> \notin ahead /\ <<t, u>> \notin ahead
    BY <1>2, OrderGives DEF OneOf
  <1>4. \A u, v : <<u, v>> \in ahead' => OneOf(u, v)'
    BY <1>1, <1>2, OrderGives DEF OneOf
  <1>5. Linear(ahead', active') /\ Linear(ahead', failures') /\ Linear(ahead', queued)
    BY <1>1, <1>2, OrderGives, LinearPart
  <1>6. Linear(ahead', queued')
    <2>1. Linear(ahead', {t})
      BY <1>1, <1>2, <1>3, LinearSingle
    <2>2. \A u \in queued, v \in {t} : <<u, v>> \in ahead' /\ <<v, u>> \notin ahead'
      BY <1>1, <1>2, <1>3
    <2> QED BY <1>2, <1>5, <2>1, <2>2, LinearJoined
  <1> QED BY <1>4, <1>5, <1>6, OrderNext

\* A task goes to the end of the active list.
LEMMA LeaseOrder ==
  ASSUME TypeOK', ListsDisjoint, OrderOK, NEW t \in Task, Lease(t) \/ Restart(t)
  PROVE  OrderOK'
  <1>1. /\ active' = (active \ {t}) \cup {t} /\ queued' = queued \ {t} /\ failures' = failures
        /\ t \notin failures
    BY DEF Lease, Restart, ListsDisjoint, Live
  <1>2. \A u, v : <<u, v>> \in ahead' <=> \/ <<u, v>> \in ahead /\ u # t /\ v # t
                                          \/ u \in active \ {t} /\ v = t
    <2>1. ahead' = Without({t}) \cup ((active \ {t}) \X {t})
      <3>1. Lease(t) => active = active \ {t}
        BY DEF Lease, ListsDisjoint
      <3> QED BY <3>1 DEF Lease, Restart
    <2>2. \A u, v : <<u, v>> \in Without({t}) <=> <<u, v>> \in ahead /\ u # t /\ v # t
      BY WithinPair
    <2> HIDE DEF Without
    <2> QED BY <2>1, <2>2
  <1>3. \A u, v : <<u, v>> \in ahead' => OneOf(u, v)'
    BY <1>1, <1>2, OrderGives DEF OneOf
  <1>4. Linear(ahead', queued') /\ Linear(ahead', failures') /\ Linear(ahead', active \ {t})
    BY <1>1, <1>2, OrderGives, LinearPart
  <1>5. Linear(ahead', active')
    <2>1. Linear(ahead', {t})
      BY <1>2, LinearSingle
    <2>2. \A u \in active \ {t}, v \in {t} : <<u, v>> \in ahead' /\ <<v, u>> \notin ahead'
      BY <1>2
    <2> QED BY <1>1, <1>4, <2>1, <2>2, LinearJoined
  <1> QED BY <1>3, <1>4, <1>5, OrderNext

LEMMA FailOrder ==
  ASSUME TypeOK', ListsDisjoint, OrderOK, NEW t \in Task, Fail(t)
  PROVE  OrderOK'
  <1> DEFINE kept == failures \ SameFailure(t)
             order == Within(kept) \cup ({t} \X kept)
             newest == Newest(kept \cup {t}, order)
  <1>1. /\ active' = active \ {t} /\ queued' = queued \ {t} /\ failures' = newest
        /\ ahead' = Within(active') \cup Within(queued') \cup (order \cap (newest \X newest))
    BY DEF Fail
  <1>2. t \notin failures /\ newest \subseteq kept \cup {t}
    BY NewestType DEF Fail, ListsDisjoint
  <1>3. Linear(order, kept \cup {t})
    <2>1. \A u, v : <<u, v>> \in order <=> v \in kept /\ (u = t \/ (u \in kept /\ <<u, v>> \in ahead))
      BY WithinPair
    <2>2. Linear(order, kept) /\ Linear(order, {t})
      <3>1. \A u, v \in kept : <<u, v>> \in order <=> <<u, v>> \in ahead
        BY <1>2, <2>1
      <3>2. <<t, t>> \notin order
        BY <1>2, <2>1
      <3>3. kept \subseteq failures
        OBVIOUS
      <3> HIDE DEF kept, order
      <3> QED BY <3>1, <3>2, <3>3, OrderGives, LinearPart, LinearSingle
    <2>3. \A u \in {t}, v \in kept : <<u, v>> \in order /\ <<v, u>> \notin order
      BY <1>2, <2>1
    <2> HIDE DEF order, kept
    <2>4. Linear(order, {t} \cup kept)
      BY <2>2, <2>3, LinearJoined
    <2>5. {t} \cup kept = kept \cup {t}
      OBVIOUS
    <2> QED BY <2>4, <2>5
  <1>4. \A u, v : <<u, v>> \in ahead' <=>
            \/ <<u, v>> \in ahead /\ u \in active' /\ v \in active'
            \/ <<u, v>> \in ahead /\ u \in queued' /\ v \in queued' 
            \/ <<u, v>> \in order /\ u \in newest /\ v \in newest
    <2>1. \A u, v : <<u, v>> \in order \cap (newest \X newest)
                      <=> <<u, v>> \in order /\ u \in newest /\ v \in newest
      OBVIOUS
    <2> DEFINE A == active \ {t}
               Q == queued \ {t}
    <2>2. \A u, v : /\ <<u, v>> \in Within(A) <=> <<u, v>> \in ahead /\ u \in A /\ v \in A
                    /\ <<u, v>> \in Within(Q) <=> <<u, v>> \in ahead /\ u \in Q /\ v \in Q
      BY WithinPair
    <2> HIDE DEF order, newest
    <2>3. /\ ahead' = Within(A) \cup Within(Q) \cup (order \cap (newest \X newest))
          /\ active' = A /\ queued' = Q
      BY <1>1
    <2> HIDE DEF A, Q
    <2> QED BY <2>1, <2>2, <2>3
  <1>5. active' \cap newest = {} /\ queued' \cap newest = {} /\ active' \cap queued' = {}
    BY <1>1, <1>2 DEF ListsDisjoint, Live
  <1> HIDE DEF order, newest, kept
  <1>6. \A u, v : <<u, v>> \in ahead' => OneOf(u, v)'
    BY <1>1, <1>4 DEF OneOf
  <1>7. Linear(ahead', active') /\ Linear(ahead', queued')
    <2>1. active' \subseteq active /\ queued' \subseteq queued
      BY <1>1
    <2>2. \A u, v \in active' : <<u, v>> \in ahead' <=> <<u, v>> \in ahead
      BY <1>4, <1>5
    <2>3. \A u, v \in queued' : <<u, v>> \in ahead' <=> <<u, v>> \in ahead
      BY <1>4, <1>5
    <2> QED BY <2>1, <2>2, <2>3, OrderGives, LinearPart
  <1>8. Linear(ahead', failures')
    <2>1. \A u, v \in newest : <<u, v>> \in ahead' <=> <<u, v>> \in order
      BY <1>4, <1>5
    <2> QED BY <1>1, <1>2, <1>3, <2>1, LinearPart
  <1> QED BY <1>6, <1>7, <1>8, OrderNext

LEMMA RequeueOrder ==
  ASSUME TypeOK', ListsDisjoint, OrderOK, NEW t \in Task, NEW retry, Requeue(t, retry)
  PROVE  OrderOK'
  <1> DEFINE dropped == {u \in queued : Key(u) = Key(t)} \cup SameFailure(t)
             rest == queued \ dropped
  <1>1. /\ t \in active /\ active' = active \ {t} /\ queued' = rest \cup {t}
        /\ failures' = failures \ dropped
        /\ ahead' = Without(dropped \cup {t}) \cup (rest \X {t})
    BY DEF Requeue
  <1>2. dropped \subseteq queued \cup failures /\ t \notin queued /\ t \notin failures
    BY <1>1 DEF SameFailure, ListsDisjoint, Live
  <1>3. active \cap dropped = {}
    BY <1>2 DEF ListsDisjoint, Live
  <1> HIDE DEF dropped
  <1>4. \A u, v : <<u, v>> \in ahead' <=>
            \/ <<u, v>> \in ahead /\ u # t /\ v # t /\ u \notin dropped /\ v \notin dropped
            \/ u \in rest /\ v = t
    <2>1. \A u, v : <<u, v>> \in Without(dropped \cup {t}) <=>
            <<u, v>> \in ahead /\ u # t /\ v # t /\ u \notin dropped /\ v \notin dropped
      BY WithinPair
    <2> HIDE DEF rest
    <2> QED BY <1>1, <2>1
  <1>5. \A u, v : <<u, v>> \in ahead' => OneOf(u, v)'
    BY <1>1, <1>4, OrderGives DEF OneOf
  <1>6. Linear(ahead', active') /\ Linear(ahead', failures') /\ Linear(ahead', rest)
    <2>1. \A u, v \in active' : <<u, v>> \in ahead' <=> <<u, v>> \in ahead
      BY <1>1, <1>3, <1>4
    <2>2. \A u, v \in failures' : <<u, v>> \in ahead' <=> <<u, v>> \in ahead
      <3>1. \A u \in failures' : u # t /\ u \notin dropped
        BY <1>1, <1>2
      <3> QED BY <3>1, <1>4
    <2>3. \A u, v \in rest : <<u, v>> \in ahead' <=> <<u, v>> \in ahead
      BY <1>2, <1>4
    <2>4. active' \subseteq active /\ failures' \subseteq failures /\ rest \subseteq queued
      BY <1>1
    <2> HIDE DEF rest
    <2> QED BY <2>1, <2>2, <2>3, <2>4, OrderGives, LinearPart
  <1>7. Linear(ahead', queued')
    <2>1. Linear(ahead', {t})
      BY <1>2, <1>4, LinearSingle
    <2>2. \A u \in rest, v \in {t} : <<u, v>> \in ahead' /\ <<v, u>> \notin ahead'
      BY <1>2, <1>4
    <2> QED BY <1>1, <1>6, <2>1, <2>2, LinearJoined
  <1> QED BY <1>5, <1>6, <1>7, OrderNext

\* A task goes to the front of the queue.
LEMMA ResumeBrowserOrder ==
  ASSUME TypeOK', ListsDisjoint, OrderOK, NEW t \in Task, ResumeBrowserRecovery(t)
  PROVE  OrderOK'
  <1> DEFINE rest == queued \ {t}
  <1>1. /\ t \in queued /\ active' = active /\ queued' = {t} \cup rest /\ failures' = failures
        /\ t \notin active /\ t \notin failures
    BY DEF ResumeBrowserRecovery, ListsDisjoint, Live
  <1>2. \A u, v : <<u, v>> \in ahead' <=> \/ <<u, v>> \in ahead /\ u # t /\ v # t
                                          \/ u = t /\ v \in rest
    BY WithinPair DEF ResumeBrowserRecovery
  <1>3. \A u, v : <<u, v>> \in ahead' => OneOf(u, v)'
    BY <1>1, <1>2, OrderGives DEF OneOf
  <1>4. Linear(ahead', active') /\ Linear(ahead', failures') /\ Linear(ahead', rest)
    BY <1>1, <1>2, OrderGives, LinearPart
  <1>5. Linear(ahead', queued')
    <2>1. Linear(ahead', {t})
      BY <1>2, LinearSingle
    <2>2. \A u \in {t}, v \in rest : <<u, v>> \in ahead' /\ <<v, u>> \notin ahead'
      BY <1>2
    <2> QED BY <1>1, <1>4, <2>1, <2>2, LinearJoined
  <1> QED BY <1>3, <1>4, <1>5, OrderNext

LEMMA RequeueActiveOrder ==
  ASSUME TypeOK', ListsDisjoint, OrderOK, RequeueActive
  PROVE  OrderOK'
  <1> DEFINE finalized == {t \in active : Completed(t)}
             tracking == {t \in active : item[t].status = "waiting_children"}
             rest == active \ (finalized \cup tracking)
             kept == queued \ Repeated(queued)
             recovered == {t \in rest :
               \A u \in kept \cup {v \in rest : <<v, t>> \in ahead} : Key(u) # Key(t)}
  <1>1. /\ active' = tracking /\ queued' = recovered \cup kept /\ failures' = failures
        /\ ahead' = Within(tracking) \cup Within(recovered) \cup Within(kept)
                      \cup Within(failures) \cup (recovered \X kept)
    BY DEF RequeueActive
  <1>2. tracking \subseteq active /\ recovered \subseteq active /\ kept \subseteq queued
        /\ tracking \cap recovered = {}
    OBVIOUS
  <1>3. recovered \cap kept = {} /\ tracking \cap kept = {} /\ tracking \cap failures = {}
        /\ recovered \cap failures = {} /\ kept \cap failures = {}
    BY <1>2 DEF ListsDisjoint, Live
  <1> HIDE DEF tracking, recovered, kept
  <1>4. \A u, v : <<u, v>> \in ahead' <=>
            \/ <<u, v>> \in ahead /\ \/ u \in tracking /\ v \in tracking
                                     \/ u \in recovered /\ v \in recovered
                                     \/ u \in kept /\ v \in kept
                                     \/ u \in failures /\ v \in failures
            \/ u \in recovered /\ v \in kept
    BY <1>1, WithinPair
  <1>5. \A u, v : <<u, v>> \in ahead' => OneOf(u, v)'
    BY <1>1, <1>4 DEF OneOf
  <1>6. /\ \A u, v \in tracking : <<u, v>> \in ahead' <=> <<u, v>> \in ahead
        /\ \A u, v \in recovered : <<u, v>> \in ahead' <=> <<u, v>> \in ahead
        /\ \A u, v \in kept : <<u, v>> \in ahead' <=> <<u, v>> \in ahead
        /\ \A u, v \in failures : <<u, v>> \in ahead' <=> <<u, v>> \in ahead
    BY <1>2, <1>3, <1>4
  <1>7. /\ Linear(ahead', tracking) /\ Linear(ahead', recovered) /\ Linear(ahead', kept)
        /\ Linear(ahead', failures)
    BY <1>2, <1>6, OrderGives, LinearPart
  <1>8. Linear(ahead', queued')
    <2>1. \A u \in recovered, v \in kept : <<u, v>> \in ahead' /\ <<v, u>> \notin ahead'
      BY <1>2, <1>3, <1>4
    <2> QED BY <1>1, <1>7, <2>1, LinearJoined
  <1> QED BY <1>1, <1>5, <1>7, <1>8, OrderNext

LEMMA RepairListsOrder ==
  ASSUME TypeOK', ListsDisjoint, OrderOK, RepairLists
  PROVE  OrderOK'
  <1> DEFINE kept == queued \ Repeated(queued)
             unique == failures \ RepeatedFailures
             newest == Newest(unique, Within(unique))
  <1>1. /\ active' = active /\ queued' = kept /\ failures' = newest
        /\ ahead' = Within(active) \cup Within(kept) \cup Within(newest)
    BY DEF RepairLists
  <1>2. kept \subseteq queued /\ newest \subseteq failures
    BY NewestType
  <1> HIDE DEF kept, newest
  <1>3. \A u, v : <<u, v>> \in ahead' <=>
            <<u, v>> \in ahead /\ OneOf(u, v)'
    BY <1>1, WithinPair DEF OneOf
  <1>4. Linear(ahead', active') /\ Linear(ahead', queued') /\ Linear(ahead', failures')
    BY <1>1, <1>2, <1>3, OrderGives, LinearPart DEF OneOf
  <1> QED BY <1>3, <1>4, OrderNext

\* The failures of a repair: those that are exhausted now, the last first, and
\* behind them the ones there were.
LEMMA RepairedOrder ==
  ASSUME ListsDisjoint, OrderOK, NEW failed, NEW unique, failed \subseteq active, unique \subseteq failures,
         NEW backwards, \A t, u : <<t, u>> \in backwards <=> <<u, t>> \in ahead
  PROVE  Linear(Within(unique) \cup (backwards \cap (failed \X failed)) \cup (failed \X unique),
                failed \cup unique)
  <1> DEFINE order == Within(unique) \cup (backwards \cap (failed \X failed)) \cup (failed \X unique)
  <1>1. failed \cap unique = {}
    BY DEF ListsDisjoint, Live
  <1>2. \A t, u : <<t, u>> \in order <=> \/ <<t, u>> \in ahead /\ t \in unique /\ u \in unique
                                         \/ <<u, t>> \in ahead /\ t \in failed /\ u \in failed
                                         \/ t \in failed /\ u \in unique
    <2>1. \A t, u : <<t, u>> \in Within(unique) <=> <<t, u>> \in ahead /\ t \in unique /\ u \in unique
      BY WithinPair
    <2> QED BY <2>1
  <1> HIDE DEF order
  <1>3. /\ \A t, u \in failed : <<t, u>> \in order <=> <<u, t>> \in ahead
        /\ \A t, u \in unique : <<t, u>> \in order <=> <<t, u>> \in ahead
    BY <1>1, <1>2
  <1>4. Linear(order, failed) /\ Linear(order, unique)
    BY <1>3, OrderGives, LinearBackwards, LinearPart
  <1>5. \A t \in failed, u \in unique : <<t, u>> \in order /\ <<u, t>> \notin order
    BY <1>1, <1>2
  <1>6. Linear(order, failed \cup unique)
    BY <1>4, <1>5, LinearJoined
  <1> QED BY <1>6 DEF order

LEMMA BackwardsPair ==
  ASSUME TypeOK
  PROVE  \A t, u : <<t, u>> \in {<<p[2], p[1]>> : p \in ahead} <=> <<u, t>> \in ahead
  <1> DEFINE backwards == {<<p[2], p[1]>> : p \in ahead}
  <1> SUFFICES ASSUME NEW t, NEW u PROVE <<t, u>> \in backwards <=> <<u, t>> \in ahead
    OBVIOUS
  <1>1. ASSUME <<u, t>> \in ahead PROVE <<t, u>> \in backwards
    <2>1. <<u, t>>[2] = t /\ <<u, t>>[1] = u
      OBVIOUS
    <2> QED BY <1>1, <2>1
  <1>2. ASSUME <<t, u>> \in backwards PROVE <<u, t>> \in ahead
    <2>1. PICK p \in ahead : <<t, u>> = <<p[2], p[1]>>
      BY <1>2
    <2>2. p \in Task \X Task
      BY DEF TypeOK
    <2>3. p = <<p[1], p[2]>> /\ t = p[2] /\ u = p[1]
      BY <2>1, <2>2
    <2> QED BY <2>3
  <1> QED BY <1>1, <1>2

LEMMA RepairOrder ==
  ASSUME TypeOK, TypeOK', ListsDisjoint, OrderOK, Repair
  PROVE  OrderOK'
  <1> DEFINE finalized == {t \in active : Completed(t)}
             stale == {t \in active : item[t].status = "running" /\ LeaseExpired(t)
                                       /\ ~ RecentProgress(t)} \ finalized
             exhausted == {t \in stale : item[t].attempts >= MaxAttempts}
             kept == queued \ Repeated(queued)
             requeued == {t \in stale \ exhausted :
               \A u \in kept \cup {v \in stale \ exhausted : <<v, t>> \in ahead} :
                 Key(u) # Key(t)}
             failed == {t \in exhausted :
               \A u \in exhausted : <<t, u>> \in ahead => FailureKey(u) # FailureKey(t)}
             unique == {f \in failures \ RepeatedFailures :
               \A t \in exhausted : f \notin SameFailure(t)}
             backwards == {<<p[2], p[1]>> : p \in ahead}
             order == Within(unique) \cup (backwards \cap (failed \X failed)) \cup (failed \X unique)
             newest == Newest(failed \cup unique, order)
             tended == active \ (finalized \cup stale)
  <1>1. /\ active' = tended /\ queued' = requeued \cup kept /\ failures' = newest
        /\ ahead' = Within(active') \cup Within(kept) \cup (requeued \X kept)
                      \cup (backwards \cap (requeued \X requeued)) \cup (order \cap (newest \X newest))
    BY DEF Repair
  <1>2. /\ tended \subseteq active /\ requeued \subseteq active /\ kept \subseteq queued
        /\ failed \subseteq active /\ unique \subseteq failures
        /\ tended \cap requeued = {} /\ tended \cap failed = {} /\ requeued \cap failed = {}
    OBVIOUS
  <1>3. newest \subseteq failed \cup unique
    BY NewestType
  <1>4. \A t, u : <<t, u>> \in backwards <=> <<u, t>> \in ahead
    BY BackwardsPair
  <1>5. Linear(order, failed \cup unique)
    <2> HIDE DEF failed, unique, backwards
    <2> QED BY <1>2, <1>4, RepairedOrder
  <1> HIDE DEF tended, requeued, kept, failed, unique, backwards, order, newest
  <1>6. /\ tended \cap kept = {} /\ requeued \cap kept = {} /\ tended \cap newest = {}
        /\ requeued \cap newest = {} /\ kept \cap newest = {}
    <2>1. tended \cap kept = {} /\ requeued \cap kept = {}
      BY <1>2 DEF ListsDisjoint
    <2>2. kept \cap failed = {} /\ kept \cap unique = {} /\ tended \cap unique = {}
          /\ requeued \cap unique = {}
      BY <1>2 DEF ListsDisjoint, Live
    <2> QED BY <1>2, <1>3, <2>1, <2>2
  <1>7. \A t, u : <<t, u>> \in ahead' <=>
            \/ <<t, u>> \in ahead /\ t \in tended /\ u \in tended
            \/ <<t, u>> \in ahead /\ t \in kept /\ u \in kept
            \/ t \in requeued /\ u \in kept
            \/ <<u, t>> \in ahead /\ t \in requeued /\ u \in requeued
            \/ <<t, u>> \in order /\ t \in newest /\ u \in newest
    <2>1. \A t, u : /\ <<t, u>> \in Within(tended) <=> <<t, u>> \in ahead /\ t \in tended /\ u \in tended
                    /\ <<t, u>> \in Within(kept) <=> <<t, u>> \in ahead /\ t \in kept /\ u \in kept
      BY WithinPair
    <2>2. ahead' = Within(tended) \cup Within(kept) \cup (requeued \X kept)
                      \cup (backwards \cap (requeued \X requeued)) \cup (order \cap (newest \X newest))
      BY <1>1
    <2> QED BY <1>4, <2>1, <2>2
  <1>8. \A t, u : <<t, u>> \in ahead' => OneOf(t, u)'
    BY <1>1, <1>7 DEF OneOf
  <1>9. /\ \A t, u \in tended : <<t, u>> \in ahead' <=> <<t, u>> \in ahead
        /\ \A t, u \in kept : <<t, u>> \in ahead' <=> <<t, u>> \in ahead
        /\ \A t, u \in requeued : <<t, u>> \in ahead' <=> <<u, t>> \in ahead
        /\ \A t, u \in newest : <<t, u>> \in ahead' <=> <<t, u>> \in order
        /\ \A t \in requeued, u \in kept : <<t, u>> \in ahead' /\ <<u, t>> \notin ahead'
    <2>1. \A t, u \in tended : <<t, u>> \in ahead' <=> <<t, u>> \in ahead
      <3>1. \A t \in tended : t \notin kept /\ t \notin requeued /\ t \notin newest
        BY <1>2, <1>6
      <3> QED BY <3>1, <1>7
    <2>2. \A t, u \in kept : <<t, u>> \in ahead' <=> <<t, u>> \in ahead
      BY <1>6, <1>7
    <2>3. \A t, u \in requeued : <<t, u>> \in ahead' <=> <<u, t>> \in ahead
      <3>1. \A t \in requeued : t \notin kept /\ t \notin tended /\ t \notin newest
        BY <1>2, <1>6
      <3> QED BY <3>1, <1>7
    <2>4. \A t, u \in newest : <<t, u>> \in ahead' <=> <<t, u>> \in order
      BY <1>6, <1>7
    <2>5. \A t \in requeued, u \in kept : <<t, u>> \in ahead' /\ <<u, t>> \notin ahead'
      BY <1>6, <1>7
    <2> QED BY <2>1, <2>2, <2>3, <2>4, <2>5
  <1>10. Linear(ahead', active') /\ Linear(ahead', failures')
    BY <1>1, <1>2, <1>3, <1>5, <1>9, OrderGives, LinearPart
  <1>11. Linear(ahead', queued')
    <2>1. Linear(ahead', requeued) /\ Linear(ahead', kept)
      BY <1>2, <1>9, OrderGives, LinearBackwards, LinearPart
    <2> QED BY <1>1, <1>9, <2>1, LinearJoined
  <1> QED BY <1>8, <1>10, <1>11, OrderNext

LEMMA StepOrder ==
  ASSUME TypeOK, TypeOK', ListsDisjoint, OrderOK, Next
  PROVE  OrderOK'
  <1>1. ASSUME NEW t \in Task, NEW scope \in SUBSET Instance, NEW probe \in BOOLEAN,
               EnqueueNew(t, scope, probe)
        PROVE  OrderOK'
    BY <1>1, EnqueueOrder
  <1>2. ASSUME NEW t \in Task, Lease(t) \/ Restart(t) \/ Fail(t) \/ ResumeBrowserRecovery(t)
        PROVE  OrderOK'
    BY <1>2, LeaseOrder, FailOrder, ResumeBrowserOrder
  <1>3. ASSUME NEW t \in Task, NEW retry \in 0..RetryTicks, Requeue(t, retry)
        PROVE  OrderOK'
    BY <1>3, RequeueOrder
  <1>4. CASE RequeueActive \/ RepairLists \/ Repair
    BY <1>4, RequeueActiveOrder, RepairListsOrder, RepairOrder
  <1>5. ASSUME NEW t \in Task, Complete(t) PROVE OrderOK'
    <2>1. active' = active \ {t} /\ queued' = queued \ {t} /\ failures' = failures \ {t}
          /\ ahead' = Without({t})
      BY <1>5 DEF Complete, ListsDisjoint, Live
    <2> QED BY <2>1, ShrinkOrder
  <1>6. CASE RefreshLeases
    <2> DEFINE finalized == {t \in active : Completed(t)}
    <2>1. active' = active \ finalized /\ queued' = queued \ finalized
          /\ failures' = failures \ finalized /\ ahead' = Without(finalized)
      BY <1>6 DEF RefreshLeases, ListsDisjoint, Live
    <2> HIDE DEF finalized
    <2> QED BY <2>1, ShrinkOrder
  <1>7. ASSUME NEW S \in SUBSET Task, RemoveFailures(S) PROVE OrderOK'
    <2>1. active' = active \ S /\ queued' = queued \ S /\ failures' = failures \ S
          /\ ahead' = Without(S)
      BY <1>7 DEF RemoveFailures, ListsDisjoint, Live
    <2> QED BY <2>1, ShrinkOrder
  <1>8. CASE ClearFailures
    <2>1. active' = active \ failures /\ queued' = queued \ failures
          /\ failures' = failures \ failures /\ ahead' = Without(failures)
      BY <1>8 DEF ClearFailures, ListsDisjoint, Live
    <2> QED BY <2>1, ShrinkOrder
  <1>9. CASE UNCHANGED <<active, queued, failures, ahead>>
    <2>1. \A t, u : <<t, u>> \in ahead' => OneOf(t, u)'
      BY <1>9, OrderGives DEF OneOf
    <2>2. Linear(ahead', active') /\ Linear(ahead', queued') /\ Linear(ahead', failures')
      BY <1>9, OrderGives
    <2> QED BY <2>1, <2>2, OrderNext
  <1>10. CASE \/ FailUnknown \/ Tick
              \/ \E t \in Task, scope \in SUBSET Instance : EnqueueMerge(t, scope)
              \/ \E t \in Task, done, expects \in BOOLEAN : UpdateActive(t, done, expects)
              \/ \E S \in SUBSET Task, note \in Notes : Pause(S, note)
              \/ \E S \in SUBSET Task, daily \in BOOLEAN : Resume(S, daily)
    BY <1>9, <1>10 DEF FailUnknown, Tick, EnqueueMerge, UpdateActive, Pause, Resume
  <1> QED BY <1>1, <1>2, <1>3, <1>4, <1>5, <1>6, <1>7, <1>8, <1>10 DEF Next

\* "ahead" is a strict total order of each list, through every operation that
\* rebuilds the lists from parts.
THEOREM ListsStayOrdered == Spec => []OrderOK
  <1> DEFINE IInv == TypeOK /\ ListsDisjoint /\ OrderOK
  <1>1. Init => IInv
    BY InitType DEF Init, ListsDisjoint, Live, OrderOK, Ordered
  <1>2. ASSUME IInv, [Next]_vars PROVE IInv'
    <2>1. CASE Next
      BY <1>2, <2>1, StepType, StepDisjoint, StepOrder
    <2>2. CASE UNCHANGED vars
      <3>1. TypeOK' /\ ListsDisjoint'
        BY <1>2, <2>2 DEF vars, TypeOK, ListsDisjoint, Live
      <3>2. \A t, u : <<t, u>> \in ahead' => OneOf(t, u)'
        BY <1>2, <2>2, OrderGives DEF vars, OneOf
      <3>3. Linear(ahead', active') /\ Linear(ahead', queued') /\ Linear(ahead', failures')
        BY <1>2, <2>2, OrderGives DEF vars
      <3> QED BY <3>1, <3>2, <3>3, OrderNext
    <2> QED BY <1>2, <2>1, <2>2
  <1> QED BY <1>1, <1>2, PTL DEF Spec

-----------------------------------------------------------------------------
(***************************************************************************)
(* What the store keeps over each step: of every task that was active, and *)
(* of every task that was queued, the four parts of QueueKeeps.  Beside    *)
(* the invariants above one needs that an active task which expects        *)
(* children waits for them (Tracked), and that the lists are finite: the   *)
(* one task a repair may drop is the last of several that failed at once.  *)
(***************************************************************************)
Tracked == \A t \in active : item[t].status = ActiveStatus(item[t].expects)
KeepInv == TypeOK /\ ListsDisjoint /\ NoDuplicateWork /\ OrderOK /\ Tracked /\ IsFiniteSet(Listed)

NotDropped(t) ==
    \/ t \in Listed'
    \/ Completed(t) \/ Complete(t)
    \/ \E u \in Live' : Key(u)' = Key(t) /\ item[t].scope \subseteq item'[u].scope
    \/ \E f \in failures' : FailureKey(f)' = FailureKey(t)
    \/ Cardinality(failures') = FailureCap
NotShrunk(t) == t \in Listed' => item[t].scope \subseteq item'[t].scope
NotWoken(t) ==
    item[t].status = "waiting_children" =>
         \/ t \in active' /\ item'[t].status = "waiting_children"
         \/ Complete(t) \/ Fail(t) \/ \E r \in 0..RetryTicks : Requeue(t, r)
NotReleased(t) ==
    item[t].status = "paused" /\ ~ Lease(t) /\ ~ Fail(t) =>
         \/ t \in queued' /\ item'[t].status = "paused"
         \/ item'[t].probe /\ item'[t].status = "queued"
TrackedNext(t) == t \in active' => item'[t].status = ActiveStatus(item'[t].expects)

ActiveKept(t) == NotDropped(t) /\ NotShrunk(t) /\ NotWoken(t) /\ TrackedNext(t)
QueuedKept(t) == NotDropped(t) /\ NotShrunk(t) /\ NotReleased(t) /\ TrackedNext(t)
StepKeeps == /\ \A t \in active : ActiveKept(t)
             /\ \A t \in queued : QueuedKept(t)
             /\ active' \subseteq Live

LEMMA KeepTypes ==
  ASSUME KeepInv
  PROVE  /\ \A t \in Live : t \in Task /\ item[t] \in Item /\ t \notin failures
         /\ active \subseteq Task /\ queued \subseteq Task /\ failures \subseteq Task
         /\ \A t \in active : t \notin queued
         /\ \A t \in active : item[t].status = "waiting_children" => item[t].expects
         /\ \A t \in active : item[t].expects => item[t].status = "waiting_children"
  BY DEF KeepInv, TypeOK, ListsDisjoint, Live, Tracked, ActiveStatus

\* A task that stays in its list and keeps its status.
Undisturbed(t) == /\ item'[t].status = item[t].status /\ item'[t].expects = item[t].expects
                  /\ item[t].scope \subseteq item'[t].scope

LEMMA StaysActive ==
  ASSUME KeepInv, NEW t \in active, t \in active', Undisturbed(t)
  PROVE  ActiveKept(t)
  BY DEF KeepInv, Tracked, Undisturbed, ActiveKept, NotDropped, NotShrunk, NotWoken, TrackedNext, Listed, Live

LEMMA StaysQueued ==
  ASSUME KeepInv, NEW t \in queued, t \in queued', t \notin active', Undisturbed(t)
  PROVE  QueuedKept(t)
  BY DEF Undisturbed, QueuedKept, NotDropped, NotShrunk, NotReleased, TrackedNext, Listed, Live

\* An operation that leaves the live tasks in their lists.
LEMMA AllStay ==
  ASSUME KeepInv, active' = active, queued \subseteq queued', \A t \in Live : Undisturbed(t)
  PROVE  StepKeeps
  <1>1. \A t \in active : ActiveKept(t)
    BY StaysActive DEF Live
  <1>2. \A t \in queued : QueuedKept(t)
    BY StaysQueued, KeepTypes DEF Live
  <1> QED BY <1>1, <1>2 DEF StepKeeps, Live

LEMMA SameItem == ASSUME NEW t, item'[t] = item[t] PROVE Undisturbed(t)
  BY DEF Undisturbed
LEMMA StrippedItem ==
  ASSUME NEW t, item[t] \in Item, item'[t] = Stripped(item[t])
  PROVE  Undisturbed(t)
  BY DEF Undisturbed, Stripped, Item
LEMMA RenewedItem ==
  ASSUME NEW t, item[t] \in Item, item'[t] = Renewed(item[t])
  PROVE  Undisturbed(t)
  BY DEF Undisturbed, Renewed, Item
LEMMA MergedItem ==
  ASSUME NEW t, item[t] \in Item, NEW S, item'[t] = [item[t] EXCEPT !.scope = MergedScope(t, S)]
  PROVE  Undisturbed(t)
  <1>1. item[t].scope \subseteq MergedScope(t, S)
    BY DEF MergedScope
  <1> QED BY <1>1 DEF Undisturbed, Item

\* Without duplicates there is nothing to drop from the queue.
LEMMA NothingRepeated ==
  ASSUME KeepInv
  PROVE  /\ Repeated(queued) = {}
         /\ \A t \in active, u \in queued : Key(t) # Key(u)
         /\ \A t, u \in active : <<u, t>> \in ahead => Key(u) # Key(t)
  <1>1. \A t, u \in Live : Key(t) = Key(u) => t = u
    BY DEF KeepInv, NoDuplicateWork
  <1>2. \A t \in Live : <<t, t>> \notin ahead
    BY OrderGives DEF KeepInv, Live, Linear
  <1> QED BY <1>1, <1>2, KeepTypes DEF Repeated, Live

LEMMA EnqueueKeeps ==
  ASSUME KeepInv, NEW t \in Task, NEW scope, NEW probe,
         EnqueueNew(t, scope, probe) \/ EnqueueMerge(t, scope)
  PROVE  StepKeeps
  <1>1. CASE EnqueueNew(t, scope, probe)
    <2>1. active' = active /\ queued \subseteq queued' /\ \A u \in Live : item'[u] = item[u]
      BY <1>1, KeepTypes DEF EnqueueNew, Listed, KeepInv, TypeOK
    <2> QED BY <2>1, SameItem, AllStay
  <1>2. CASE EnqueueMerge(t, scope)
    <2>1. PICK e \in Live : item' = [item EXCEPT ![e] = [item[e] EXCEPT !.scope = item[e].scope \cup scope, !.idle = 0]]
      BY <1>2 DEF EnqueueMerge
    <2>2. \A u \in Live : u # e => item'[u] = item[u]
      BY <2>1
    <2>3. item[e] \in Item /\ e \in Task /\ item \in [Task -> Item]
      BY KeepTypes DEF KeepInv, TypeOK
    <2>4. Undisturbed(e)
      BY <2>1, <2>3 DEF Undisturbed, Item
    <2>5. active' = active /\ queued' = queued
      BY <1>2 DEF EnqueueMerge
    <2> QED BY <2>2, <2>4, <2>5, SameItem, AllStay
  <1> QED BY <1>1, <1>2

LEMMA LeaseKeeps ==
  ASSUME KeepInv, NEW t \in Task, Lease(t)
  PROVE  StepKeeps
  <1>1. /\ t \in queued /\ t \notin active /\ active' = active \cup {t} /\ queued' = queued \ {t}
        /\ item[t] \in Item /\ item'[t] = Leased(item[t])
        /\ \A u \in Live : u # t => item'[u] = item[u]
    BY KeepTypes DEF Lease, KeepInv, TypeOK, Live
  <1>2. \A u \in active : ActiveKept(u)
    BY <1>1, SameItem, StaysActive DEF Live
  <1>3. \A u \in queued : u # t => QueuedKept(u)
    <2>1. \A u \in queued : u # t => u \in queued' /\ u \notin active' /\ item'[u] = item[u]
      BY <1>1, KeepTypes DEF Live
    <2> QED BY <2>1, SameItem, StaysQueued
  <1>4. QueuedKept(t)
    <2>1. /\ item'[t].status = ActiveStatus(item'[t].expects)
          /\ item'[t].scope = item[t].scope
      BY <1>1 DEF Leased, Item
    <2> QED BY <1>1, <2>1 DEF QueuedKept, NotDropped, NotShrunk, NotReleased, TrackedNext, Listed, Live
  <1> QED BY <1>1, <1>2, <1>3, <1>4 DEF StepKeeps, Live

LEMMA RestartKeeps ==
  ASSUME KeepInv, NEW t \in Task, Restart(t)
  PROVE  StepKeeps
  <1>1. /\ t \in active /\ active' = active /\ queued' = queued /\ item[t] \in Item
        /\ item'[t] = [Renewed(item[t]) EXCEPT !.status = ActiveStatus(item[t].expects)]
        /\ \A u \in Live : u # t => item'[u] = item[u]
    BY KeepTypes DEF Restart, KeepInv, TypeOK, Live
  <1>2. Renewed(item[t]).scope = item[t].scope /\ Renewed(item[t]).expects = item[t].expects
        /\ Renewed(item[t]) \in Item
    BY <1>1, RenewedType DEF Renewed, Item
  <1>3. Undisturbed(t)
    BY <1>1, <1>2 DEF Undisturbed, KeepInv, Tracked, Item
  <1> QED BY <1>1, <1>3, SameItem, AllStay

LEMMA CompleteKeeps ==
  ASSUME KeepInv, NEW t \in Task, Complete(t)
  PROVE  StepKeeps
  <1>1. /\ t \in active /\ active' = active \ {t} /\ queued' = queued /\ failures' = failures
        /\ \A u \in Live : u # t => item'[u] = item[u]
    BY KeepTypes DEF Complete, KeepInv, TypeOK, Live
  <1>2. \A u \in active : u # t => ActiveKept(u)
    BY <1>1, SameItem, StaysActive DEF Live
  <1>3. \A u \in queued : QueuedKept(u)
    BY <1>1, SameItem, StaysQueued, KeepTypes DEF Live
  <1>4. ActiveKept(t)
    <2>1. t \notin Listed'
      BY <1>1, KeepTypes DEF Listed, Live
    <2> QED BY <1>1, <2>1 DEF ActiveKept, NotDropped, NotShrunk, NotWoken, TrackedNext
  <1> QED BY <1>1, <1>2, <1>3, <1>4 DEF StepKeeps, Live

LEMMA FailKeeps ==
  ASSUME KeepInv, NEW t \in Task, Fail(t)
  PROVE  StepKeeps
  <1> DEFINE kept == failures \ SameFailure(t)
             order == Within(kept) \cup ({t} \X kept)
  <1>1. /\ t \in Live /\ active' = active \ {t} /\ queued' = queued \ {t}
        /\ failures' = Newest(kept \cup {t}, order)
        /\ \A u \in Live : u # t => item'[u] = Stripped(item[u])
        /\ item'[t] = [Stripped(item[t]) EXCEPT !.status = "failed", !.attempts = 0,
                                           !.idle = 0, !.done = FALSE, !.note = "other"]
    BY KeepTypes DEF Fail, Live
  <1>2. t \in failures'
    <2>1. t \notin kept
      BY <1>1, KeepTypes
    <2>2. \A u \in kept \cup {t} : <<u, t>> \notin order
      BY <2>1, WithinPair
    <2>3. {u \in kept \cup {t} : <<u, t>> \in order} = {}
      BY <2>2
    <2>4. Cardinality({u \in kept \cup {t} : <<u, t>> \in order}) < FailureCap
      <3>1. Cardinality({}) = 0 /\ FailureCap > 0 /\ FailureCap \in Nat
        BY FS_EmptySet, CapAssumption
      <3> QED BY <2>3, <3>1
    <2> QED BY <1>1, <2>4 DEF Newest
  <1> HIDE DEF kept, order
  <1>3. item'[t].scope = item[t].scope
    BY <1>1, KeepTypes, StrippedType, StrippedScope DEF Item
  <1>4. \A u \in active : u # t => ActiveKept(u)
    BY <1>1, KeepTypes, StrippedItem, StaysActive DEF Live
  <1>5. \A u \in queued : u # t => QueuedKept(u)
    BY <1>1, KeepTypes, StrippedItem, StaysQueued DEF Live
  <1>6. NotDropped(t) /\ NotShrunk(t) /\ NotWoken(t) /\ NotReleased(t) /\ TrackedNext(t)
    BY <1>1, <1>2, <1>3 DEF NotDropped, NotShrunk, NotWoken, NotReleased, TrackedNext, Listed
  <1> QED BY <1>1, <1>4, <1>5, <1>6 DEF StepKeeps, ActiveKept, QueuedKept, Live

LEMMA UpdateKeeps ==
  ASSUME KeepInv, NEW t \in Task, NEW done, NEW expects, UpdateActive(t, done, expects)
  PROVE  StepKeeps
  <1> DEFINE expecting == item[t].expects \/ expects
  <1>1. /\ t \in active /\ active' = active /\ queued' = queued /\ item[t] \in Item
        /\ item'[t] = [Renewed(item[t]) EXCEPT !.done = done, !.expects = expecting,
                                               !.status = ActiveStatus(expecting)]
        /\ \A u \in Live : u # t => item'[u] = item[u]
    BY KeepTypes DEF UpdateActive, KeepInv, TypeOK, Live
  <1>2. Renewed(item[t]).scope = item[t].scope /\ Renewed(item[t]) \in Item
    BY <1>1, RenewedType DEF Renewed, Item
  <1>3. item'[t].scope = item[t].scope /\ item'[t].status = ActiveStatus(expecting)
        /\ item'[t].expects = expecting
    BY <1>1, <1>2 DEF Item
  <1>4. item[t].status = "waiting_children" => item'[t].status = "waiting_children"
    BY <1>1, <1>3, KeepTypes DEF ActiveStatus
  <1>5. ActiveKept(t)
    BY <1>1, <1>3, <1>4 DEF ActiveKept, NotDropped, NotShrunk, NotWoken, TrackedNext, Listed, Live
  <1>6. \A u \in active : u # t => ActiveKept(u)
    BY <1>1, SameItem, StaysActive DEF Live
  <1>7. \A u \in queued : QueuedKept(u)
    BY <1>1, SameItem, StaysQueued, KeepTypes DEF Live
  <1> QED BY <1>1, <1>5, <1>6, <1>7 DEF StepKeeps, Live

LEMMA RequeueKeeps ==
  ASSUME KeepInv, NEW t \in Task, NEW retry \in 0..RetryTicks, Requeue(t, retry)
  PROVE  StepKeeps
  <1> DEFINE dropped == {u \in queued : Key(u) = Key(t)} \cup SameFailure(t)
  <1>1. /\ t \in active /\ active' = active \ {t} /\ queued' = (queued \ dropped) \cup {t}
        /\ item[t] \in Item
        /\ item'[t] = [item[t] EXCEPT !.status = "queued", !.retry = retry, !.lease = 0,
                                      !.idle = 0, !.done = FALSE, !.note = "other"]
        /\ \A u \in Task : u # t /\ u \notin dropped => item'[u] = item[u]
    BY KeepTypes DEF Requeue, Live
  <1>2. \A u \in Live : u \notin dropped
    BY <1>1, NothingRepeated, KeepTypes DEF SameFailure, Live
  <1> HIDE DEF dropped
  <1>3. \A u \in active : u # t => ActiveKept(u)
    BY <1>1, <1>2, KeepTypes, SameItem, StaysActive DEF Live
  <1>4. \A u \in queued : QueuedKept(u)
    BY <1>1, <1>2, KeepTypes, SameItem, StaysQueued DEF Live
  <1>5. ActiveKept(t)
    <2>1. item'[t].scope = item[t].scope /\ t \in queued' /\ t \notin active'
      BY <1>1 DEF Item
    <2> QED BY <2>1 DEF ActiveKept, NotDropped, NotShrunk, NotWoken, TrackedNext, Listed, Live
  <1> QED BY <1>1, <1>3, <1>4, <1>5 DEF StepKeeps, Live

LEMMA ReleaseKeeps ==
  ASSUME KeepInv, NEW S, S \subseteq queued, active' = active, queued' = queued,
         \A t \in S : /\ item'[t].scope = item[t].scope
                      /\ \/ item[t].status = "queued"
                         \/ item'[t].status = "queued" /\ item'[t].probe,
         \A t \in Live : t \notin S => item'[t] = item[t]
  PROVE  StepKeeps
  <1>1. \A t \in active : ActiveKept(t)
    BY KeepTypes, SameItem, StaysActive DEF Live
  <1>2. \A t \in queued : t \notin S => QueuedKept(t)
    BY KeepTypes, SameItem, StaysQueued DEF Live
  <1>3. \A t \in S : QueuedKept(t)
    BY KeepTypes DEF QueuedKept, NotDropped, NotShrunk, NotReleased, TrackedNext, Listed, Live
  <1> QED BY <1>1, <1>2, <1>3 DEF StepKeeps, Live

LEMMA PauseKeeps ==
  ASSUME KeepInv, NEW S \in SUBSET Task,
         \/ \E note : Pause(S, note)
         \/ \E daily : Resume(S, daily)
         \/ \E t \in S : S = {t} /\ ResumeBrowserRecovery(t)
  PROVE  StepKeeps
  <1>1. S \subseteq queued /\ active' = active /\ queued' = queued
    BY DEF Pause, Resume, ResumeBrowserRecovery
  <1>2. \A t \in Live : t \notin S => item'[t] = item[t]
    BY KeepTypes DEF Pause, Resume, ResumeBrowserRecovery, KeepInv, TypeOK
  <1>3. ASSUME NEW t \in S
        PROVE  /\ item'[t].scope = item[t].scope
               /\ item[t].status = "queued" \/ (item'[t].status = "queued" /\ item'[t].probe)
    <2>1. item[t] \in Item /\ t \in Task /\ item \in [Task -> Item]
      BY <1>1, KeepTypes DEF Live, KeepInv, TypeOK
    <2>2. ASSUME NEW note, Pause(S, note) PROVE item'[t].scope = item[t].scope /\ item[t].status = "queued"
      BY <2>1, <2>2 DEF Pause, Item
    <2>3. ASSUME NEW daily, Resume(S, daily)
          PROVE  item'[t].scope = item[t].scope /\ item'[t].status = "queued" /\ item'[t].probe
      BY <2>1, <2>3 DEF Resume, Item
    <2>4. CASE ResumeBrowserRecovery(t)
      BY <2>1, <2>4 DEF ResumeBrowserRecovery, Item
    <2> QED BY <2>2, <2>3, <2>4
  <1> QED BY <1>1, <1>2, <1>3, ReleaseKeeps

LEMMA OthersKeep ==
  ASSUME KeepInv,
         ClearFailures \/ FailUnknown \/ Tick \/ RefreshLeases \/ \E S : RemoveFailures(S)
  PROVE  StepKeeps
  <1>1. CASE ClearFailures \/ \E S : RemoveFailures(S)
    <2>1. active' = active /\ queued' = queued /\ \A u \in Live : item'[u] = item[u]
      BY <1>1, KeepTypes DEF ClearFailures, RemoveFailures
    <2> QED BY <2>1, SameItem, AllStay
  <1>2. CASE FailUnknown
    <2>1. active' = active /\ queued' = queued /\ \A u \in Live : item'[u] = Stripped(item[u])
      BY <1>2, KeepTypes DEF FailUnknown, Listed
    <2> QED BY <2>1, KeepTypes, StrippedItem, AllStay
  <1>3. CASE Tick
    <2>1. active' = active /\ queued' = queued
      BY <1>3 DEF Tick
    <2>2. \A u \in Live : Undisturbed(u)
      BY <1>3, KeepTypes DEF Tick, Undisturbed, Item
    <2> QED BY <2>1, <2>2, AllStay
  <1>4. CASE RefreshLeases
    <2> DEFINE finalized == {t \in active : Completed(t)}
    <2>1. active' = active \ finalized /\ queued' = queued /\ failures' = failures
      BY <1>4 DEF RefreshLeases
    <2>2. \A u \in Live : u \notin finalized => item'[u] = item[u] \/ item'[u] = Renewed(item[u])
      BY <1>4, KeepTypes DEF RefreshLeases
    <2>3. \A u \in active : u \notin finalized => ActiveKept(u)
      BY <2>1, <2>2, KeepTypes, SameItem, RenewedItem, StaysActive DEF Live
    <2>4. \A u \in queued : QueuedKept(u)
      <3>1. \A u \in queued : u \notin finalized /\ u \notin active' /\ u \in Live
        BY <2>1, KeepTypes DEF Live
      <3> QED BY <2>1, <2>2, <3>1, KeepTypes, SameItem, RenewedItem, StaysQueued
    <2>5. \A u \in finalized : ActiveKept(u)
      <3>1. \A u \in finalized : u \notin Listed'
        BY <2>1, KeepTypes DEF Listed, Live
      <3> QED BY <2>1, <3>1 DEF Completed, ActiveKept, NotDropped, NotShrunk, NotWoken, TrackedNext
    <2> QED BY <2>1, <2>3, <2>4, <2>5 DEF StepKeeps, Live
  <1> QED BY <1>1, <1>2, <1>3, <1>4

LEMMA RequeueActiveKeeps ==
  ASSUME KeepInv, RequeueActive
  PROVE  StepKeeps
  <1> DEFINE finalized == {t \in active : Completed(t)}
             tracking == {t \in active : item[t].status = "waiting_children"}
             rest == active \ (finalized \cup tracking)
             kept == queued \ Repeated(queued)
             recovered == {t \in rest :
               \A u \in kept \cup {v \in rest : <<v, t>> \in ahead} : Key(u) # Key(t)}
  <1>1. active' = tracking /\ queued' = recovered \cup kept /\ failures' = failures
    BY DEF RequeueActive
  <1>2. kept = queued /\ recovered = rest
    <2>1. kept = queued
      BY NothingRepeated
    <2>2. \A t \in rest, u \in queued : Key(u) # Key(t)
      BY NothingRepeated
    <2>3. \A t, u \in rest : <<u, t>> \in ahead => Key(u) # Key(t)
      BY NothingRepeated
    <2> QED BY <2>1, <2>2, <2>3
  <1>3. \A t \in tracking : ActiveKept(t)
    <2> SUFFICES ASSUME NEW t \in tracking PROVE ActiveKept(t)
      OBVIOUS
    <2>1. t \in Task /\ item[t] \in Item
      BY KeepTypes DEF Live
    <2>2. item'[t] = [item[t] EXCEPT !.idle = 0]
      BY <2>1 DEF RequeueActive
    <2>3. Undisturbed(t)
      BY <2>1, <2>2 DEF Undisturbed, Item
    <2> QED BY <1>1, <2>3, StaysActive
  <1>4. \A t \in recovered : ActiveKept(t)
    <2> SUFFICES ASSUME NEW t \in recovered PROVE ActiveKept(t)
      OBVIOUS
    <2>1. t \in Task /\ item[t] \in Item /\ t \notin tracking
      BY KeepTypes DEF Live
    <2>2. item'[t] = [item[t] EXCEPT !.status = "queued", !.lease = 0, !.idle = 0,
                        !.done = FALSE, !.note = "other", !.scope = MergedScope(t, rest)]
      BY <2>1 DEF RequeueActive
    <2>3. item[t].scope \subseteq item'[t].scope
      BY <2>1, <2>2 DEF Item, MergedScope
    <2>4. t \in queued' /\ t \notin active' /\ item[t].status # "waiting_children"
      BY <1>1
    <2> QED BY <2>3, <2>4 DEF ActiveKept, NotDropped, NotShrunk, NotWoken, TrackedNext, Listed, Live
  <1>5. \A t \in finalized : ActiveKept(t)
    <2> SUFFICES ASSUME NEW t \in finalized PROVE ActiveKept(t)
      OBVIOUS
    <2>1. item[t].status = "running" /\ Completed(t)
      BY DEF Completed
    <2>2. t \notin Listed'
      BY <1>1, <2>1, KeepTypes DEF Listed, Live
    <2> QED BY <2>1, <2>2 DEF ActiveKept, NotDropped, NotShrunk, NotWoken, TrackedNext, Listed, Live
  <1>6. \A t \in queued : QueuedKept(t)
    <2> SUFFICES ASSUME NEW t \in queued PROVE QueuedKept(t)
      OBVIOUS
    <2>1. t \in Task /\ item[t] \in Item /\ t \notin active
      BY KeepTypes DEF Live
    <2>2. t \in kept /\ t \notin tracking /\ t \notin recovered
      BY <1>2, <2>1
    <2>3. item'[t] = [item[t] EXCEPT !.scope = MergedScope(t, queued \cup rest)]
      BY <2>1, <2>2 DEF RequeueActive
    <2> HIDE DEF rest, kept, recovered, tracking
    <2> QED BY <1>1, <2>1, <2>2, <2>3, MergedItem, StaysQueued
  <1>7. active \subseteq tracking \cup recovered \cup finalized
    BY <1>2
  <1> HIDE DEF tracking, recovered, finalized
  <1>8. tracking \subseteq Live
    BY DEF tracking, Live
  <1> QED BY <1>1, <1>3, <1>4, <1>5, <1>6, <1>7, <1>8 DEF StepKeeps

LEMMA RepairListsKeeps ==
  ASSUME KeepInv, RepairLists
  PROVE  StepKeeps
  <1> DEFINE kept == queued \ Repeated(queued)
  <1>1. active' = active /\ queued' = queued /\ kept = queued
    BY NothingRepeated DEF RepairLists
  <1>2. \A t \in queued : item'[t] = [item[t] EXCEPT !.scope = MergedScope(t, queued)]
    BY <1>1, KeepTypes DEF RepairLists, Live
  <1>3. \A t \in active : item'[t] = item[t]
    <2>1. \A t \in active : t \in Task /\ t \notin kept
      BY KeepTypes DEF Live
    <2> QED BY <2>1 DEF RepairLists
  <1>4. \A t \in Live : Undisturbed(t)
    BY <1>2, <1>3, KeepTypes, MergedItem, SameItem DEF Live
  <1> QED BY <1>1, <1>4, AllStay

\* A failure of a repair that is not kept as one has another of the same key.
LEMMA RepairKeeps ==
  ASSUME KeepInv, Repair
  PROVE  StepKeeps
  <1> DEFINE finalized == {t \in active : Completed(t)}
             stale == {t \in active : item[t].status = "running" /\ LeaseExpired(t)
                                       /\ ~ RecentProgress(t)} \ finalized
             exhausted == {t \in stale : item[t].attempts >= MaxAttempts}
             kept == queued \ Repeated(queued)
             requeued == {t \in stale \ exhausted :
               \A u \in kept \cup {v \in stale \ exhausted : <<v, t>> \in ahead} :
                 Key(u) # Key(t)}
             failed == {t \in exhausted :
               \A u \in exhausted : <<t, u>> \in ahead => FailureKey(u) # FailureKey(t)}
             unique == {f \in failures \ RepeatedFailures :
               \A t \in exhausted : f \notin SameFailure(t)}
             backwards == {<<p[2], p[1]>> : p \in ahead}
             order == Within(unique) \cup (backwards \cap (failed \X failed)) \cup (failed \X unique)
             newest == Newest(failed \cup unique, order)
             tended == active \ (finalized \cup stale)
  <1>1. active' = tended /\ queued' = requeued \cup kept /\ failures' = newest
    BY DEF Repair
  <1>2. kept = queued /\ requeued = stale \ exhausted
    <2>1. kept = queued
      BY NothingRepeated
    <2>2. \A t \in stale, u \in queued : Key(u) # Key(t)
      BY NothingRepeated
    <2>3. \A t, u \in stale : <<u, t>> \in ahead => Key(u) # Key(t)
      BY NothingRepeated
    <2> QED BY <2>1, <2>2, <2>3
  <1>3. newest \subseteq failed \cup unique
    BY NewestType
  <1>4. /\ \A t \in active : t \in Task /\ item[t] \in Item /\ t \notin kept /\ t \notin unique
        /\ \A t \in queued : t \in Task /\ item[t] \in Item
    BY KeepTypes DEF Live
  <1>5. item' = [t \in Task |->
             IF t \in kept THEN [item[t] EXCEPT !.scope = MergedScope(t, queued)]
             ELSE IF t \in requeued THEN [item[t] EXCEPT !.status = "queued", !.lease = 0,
                                             !.idle = 0, !.note = "other", !.done = FALSE]
             ELSE IF t \in failed \cap newest THEN [item[t] EXCEPT !.status = "failed",
                                             !.lease = 0, !.idle = 0, !.note = "other",
                                             !.done = FALSE]
             ELSE IF t \in active' THEN IF Renewable(t) THEN Renewed(item[t]) ELSE item[t]
             ELSE IF t \in newest THEN item[t]
             ELSE Blank]
    BY DEF Repair
  <1>6. \A t \in queued : QueuedKept(t)
    <2> SUFFICES ASSUME NEW t \in queued PROVE QueuedKept(t)
      OBVIOUS
    <2>1. item'[t] = [item[t] EXCEPT !.scope = MergedScope(t, queued)]
      BY <1>2, <1>4, <1>5
    <2>2. t \notin active' /\ t \in queued'
      BY <1>1, <1>2, KeepTypes
    <2> QED BY <1>4, <2>1, <2>2, MergedItem, StaysQueued
  <1>7. \A t \in tended : ActiveKept(t)
    <2> SUFFICES ASSUME NEW t \in tended PROVE ActiveKept(t)
      OBVIOUS
    <2>1. t \in active /\ t \notin requeued /\ t \notin failed
      OBVIOUS
    <2>2. item'[t] = Renewed(item[t]) \/ item'[t] = item[t]
      BY <1>1, <1>4, <1>5, <2>1
    <2> QED BY <1>1, <1>4, <2>1, <2>2, RenewedItem, SameItem, StaysActive
  <1>8. \A t \in requeued : ActiveKept(t)
    <2> SUFFICES ASSUME NEW t \in requeued PROVE ActiveKept(t)
      OBVIOUS
    <2>1. t \in active /\ item[t].status = "running" /\ t \notin active' /\ t \in queued'
      BY <1>1
    <2>2. item'[t] = [item[t] EXCEPT !.status = "queued", !.lease = 0,
                                     !.idle = 0, !.note = "other", !.done = FALSE]
      BY <1>4, <1>5, <2>1
    <2>3. item'[t].scope = item[t].scope
      BY <1>4, <2>1, <2>2 DEF Item
    <2> QED BY <2>1, <2>3 DEF ActiveKept, NotDropped, NotShrunk, NotWoken, TrackedNext, Listed, Live
  <1>9. \A t \in finalized : ActiveKept(t)
    <2> SUFFICES ASSUME NEW t \in finalized PROVE ActiveKept(t)
      OBVIOUS
    <2>1. t \in active /\ item[t].status = "running" /\ Completed(t)
      BY DEF Completed
    <2>2. t \notin active' /\ t \notin queued' /\ t \notin failures'
      BY <1>1, <1>3, <1>4, <2>1
    <2> QED BY <2>1, <2>2 DEF ActiveKept, NotDropped, NotShrunk, NotWoken, TrackedNext, Listed, Live
  <1>10. \A t \in exhausted : t \in newest => item'[t].scope = item[t].scope
    <2> SUFFICES ASSUME NEW t \in exhausted, t \in newest PROVE item'[t].scope = item[t].scope
      OBVIOUS
    <2>1. t \in active /\ t \notin requeued /\ t \in failed
      BY <1>3, <1>4
    <2>2. item'[t] = [item[t] EXCEPT !.status = "failed", !.lease = 0, !.idle = 0, !.note = "other",
                                     !.done = FALSE]
      BY <1>4, <1>5, <2>1
    <2> QED BY <1>4, <2>1, <2>2 DEF Item
  <1>11. \A t \in exhausted : NotDropped(t)
    <2> SUFFICES ASSUME NEW t \in exhausted PROVE NotDropped(t)
      OBVIOUS
    <2> DEFINE same == {u \in exhausted : FailureKey(u) = FailureKey(t)}
    <2>1. PICK f \in same : \A u \in same : <<f, u>> \notin ahead
      <3>1. same \subseteq active /\ t \in same
        OBVIOUS
      <3>2. IsFiniteSet(active) /\ Linear(ahead, active)
        BY FS_Subset, OrderGives DEF KeepInv, Listed, Live
      <3> HIDE DEF same
      <3> QED BY <3>1, <3>2, LastOne
    <2>2. f \in failed /\ f \in exhausted /\ FailureKey(f) = FailureKey(t)
      BY <2>1
    <2>3. CASE f \in newest
      <3>1. item'[f].scope = item[f].scope
        BY <1>10, <2>2, <2>3
      <3>2. FailureKey(f)' = FailureKey(f)
        BY <3>1 DEF FailureKey, Key, KeyWith
      <3> QED BY <1>1, <2>2, <2>3, <3>2 DEF NotDropped
    <2>4. CASE f \notin newest
      <3>1. Linear(order, failed \cup unique)
        <4>1. \A u, v : <<u, v>> \in backwards <=> <<v, u>> \in ahead
          BY BackwardsPair DEF KeepInv
        <4>2. failed \subseteq active /\ unique \subseteq failures
          OBVIOUS
        <4> HIDE DEF failed, unique, backwards
        <4> QED BY <4>1, <4>2, RepairedOrder DEF KeepInv
      <3>2. IsFiniteSet(failed \cup unique)
        <4>1. failed \cup unique \subseteq Listed
          BY DEF Listed, Live
        <4> HIDE DEF failed, unique
        <4> QED BY <4>1, FS_Subset DEF KeepInv
      <3>3. f \in failed \cup unique
        BY <2>2
      <3> HIDE DEF failed, unique, order, newest
      <3>4. Cardinality(newest) = FailureCap
        BY <2>4, <3>1, <3>2, <3>3, CutIsFull DEF newest
      <3> QED BY <1>1, <3>4 DEF NotDropped
    <2> QED BY <2>3, <2>4
  <1>12. \A t \in exhausted : ActiveKept(t)
    <2> SUFFICES ASSUME NEW t \in exhausted PROVE ActiveKept(t)
      OBVIOUS
    <2>1. item[t].status = "running" /\ t \in active /\ t \notin active' /\ t \notin queued'
      BY <1>1, <1>4
    <2>2. t \in Listed' => item'[t].scope = item[t].scope
      BY <1>1, <1>10, <2>1 DEF Listed, Live
    <2> QED BY <1>11, <2>1, <2>2 DEF ActiveKept, NotShrunk, NotWoken, TrackedNext
  <1>13. active \subseteq tended \cup requeued \cup finalized \cup exhausted /\ tended \subseteq Live
    BY <1>2 DEF Live
  <1> HIDE DEF tended, requeued, finalized, exhausted
  <1> QED BY <1>1, <1>6, <1>7, <1>8, <1>9, <1>12, <1>13 DEF StepKeeps

LEMMA EveryStepKeeps ==
  ASSUME KeepInv, Next
  PROVE  StepKeeps
  <1>1. ASSUME NEW t \in Task, NEW scope \in SUBSET Instance, NEW probe \in BOOLEAN,
               EnqueueNew(t, scope, probe) \/ EnqueueMerge(t, scope)
        PROVE  StepKeeps
    BY <1>1, EnqueueKeeps
  <1>2. ASSUME NEW t \in Task, Lease(t) \/ Restart(t) \/ Complete(t) \/ Fail(t)
        PROVE  StepKeeps
    BY <1>2, LeaseKeeps, RestartKeeps, CompleteKeeps, FailKeeps
  <1>3. ASSUME NEW t \in Task, NEW done \in BOOLEAN, NEW expects \in BOOLEAN,
               UpdateActive(t, done, expects)
        PROVE  StepKeeps
    BY <1>3, UpdateKeeps
  <1>4. ASSUME NEW t \in Task, NEW retry \in 0..RetryTicks, Requeue(t, retry)
        PROVE  StepKeeps
    BY <1>4, RequeueKeeps
  <1>5. ASSUME NEW t \in Task, ResumeBrowserRecovery(t) PROVE StepKeeps
    <2>1. {t} \in SUBSET Task /\ t \in {t}
      OBVIOUS
    <2> QED BY <1>5, <2>1, PauseKeeps
  <1>6. CASE \/ \E S \in SUBSET Task, note \in Notes : Pause(S, note)
             \/ \E S \in SUBSET Task, daily \in BOOLEAN : Resume(S, daily)
    BY <1>6, PauseKeeps
  <1>7. CASE RequeueActive \/ RepairLists \/ Repair
    BY <1>7, RequeueActiveKeeps, RepairListsKeeps, RepairKeeps
  <1>8. CASE \/ \E S \in SUBSET Task : RemoveFailures(S)
             \/ ClearFailures \/ FailUnknown \/ Tick \/ RefreshLeases
    BY <1>8, OthersKeep
  <1> QED BY <1>1, <1>2, <1>3, <1>4, <1>5, <1>6, <1>7, <1>8 DEF Next

\* A step adds one task to the lists at most.
LEMMA ListedGrows ==
  ASSUME Next
  PROVE  \E t : Listed' \subseteq Listed \cup {t}
  <1>1. ASSUME NEW t, NEW scope, NEW probe, EnqueueNew(t, scope, probe)
        PROVE  Listed' \subseteq Listed \cup {t}
    BY <1>1 DEF EnqueueNew, Listed, Live
  <1>2. ASSUME NEW t, Lease(t) \/ Restart(t) \/ Complete(t) \/ ResumeBrowserRecovery(t)
        PROVE  Listed' \subseteq Listed \cup {t}
    BY <1>2 DEF Lease, Restart, Complete, ResumeBrowserRecovery, Listed, Live
  <1>3. ASSUME NEW t, NEW retry, Requeue(t, retry) PROVE Listed' \subseteq Listed \cup {t}
    BY <1>3 DEF Requeue, Listed, Live
  <1>4. ASSUME NEW t, Fail(t) PROVE Listed' \subseteq Listed \cup {t}
    <2>1. failures' \subseteq failures \cup {t}
      BY <1>4, NewestType DEF Fail
    <2>2. active' \subseteq active /\ queued' \subseteq queued
      BY <1>4 DEF Fail
    <2> QED BY <2>1, <2>2 DEF Listed, Live
  <1>5. CASE RequeueActive
    <2>1. active' \subseteq active /\ queued' \subseteq active \cup queued /\ failures' = failures
      BY <1>5 DEF RequeueActive
    <2> QED BY <2>1 DEF Listed, Live
  <1>6. CASE RepairLists
    <2>1. active' = active /\ queued' \subseteq queued /\ failures' \subseteq failures
      BY <1>6, NewestType DEF RepairLists
    <2> QED BY <2>1 DEF Listed, Live
  <1>7. CASE Repair
    <2>1. active' \subseteq active /\ queued' \subseteq active \cup queued
      BY <1>7 DEF Repair
    <2>2. failures' \subseteq active \cup failures
      BY <1>7, NewestType DEF Repair
    <2> QED BY <2>1, <2>2 DEF Listed, Live
  <1>8. CASE \/ FailUnknown \/ Tick
             \/ \E t \in Task, scope \in SUBSET Instance : EnqueueMerge(t, scope)
             \/ \E t \in Task, done, expects \in BOOLEAN : UpdateActive(t, done, expects)
             \/ \E S \in SUBSET Task, note \in Notes : Pause(S, note)
             \/ \E S \in SUBSET Task, daily \in BOOLEAN : Resume(S, daily)
    <2>1. UNCHANGED <<active, queued, failures>>
      BY <1>8 DEF FailUnknown, Tick, EnqueueMerge, UpdateActive, Pause, Resume
    <2> QED BY <2>1 DEF Listed, Live
  <1>9. CASE \/ ClearFailures \/ RefreshLeases \/ \E S \in SUBSET Task : RemoveFailures(S)
    <2>1. active' \subseteq active /\ queued' = queued /\ failures' \subseteq failures
      BY <1>9 DEF ClearFailures, RefreshLeases, RemoveFailures
    <2> QED BY <2>1 DEF Listed, Live
  <1> QED BY <1>1, <1>2, <1>3, <1>4, <1>5, <1>6, <1>7, <1>8, <1>9 DEF Next

LEMMA KeepStep ==
  ASSUME KeepInv, [Next]_vars
  PROVE  KeepInv'
  <1>1. CASE Next
    <2>1. TypeOK' /\ ListsDisjoint' /\ NoDuplicateWork' /\ OrderOK'
      BY <1>1, StepType, StepDisjoint, StepUnique, StepOrder DEF KeepInv
    <2>2. Tracked'
      BY <1>1, EveryStepKeeps DEF StepKeeps, ActiveKept, QueuedKept, TrackedNext, Tracked, Live
    <2>3. IsFiniteSet(Listed')
      <3>1. PICK t : Listed' \subseteq Listed \cup {t}
        BY <1>1, ListedGrows
      <3>2. IsFiniteSet(Listed \cup {t})
        BY FS_AddElement DEF KeepInv
      <3> QED BY <3>1, <3>2, FS_Subset
    <2> QED BY <2>1, <2>2, <2>3 DEF KeepInv
  <1>2. CASE UNCHANGED vars
    <2>1. TypeOK' /\ ListsDisjoint' /\ NoDuplicateWork' /\ Tracked' /\ Listed' = Listed
      BY <1>2 DEF KeepInv, vars, TypeOK, ListsDisjoint, NoDuplicateWork, Tracked, Key, KeyWith, Listed, Live
    <2>2. OrderOK'
      <3>1. \A t, u : <<t, u>> \in ahead' => OneOf(t, u)'
        BY <1>2, OrderGives DEF KeepInv, vars, OneOf
      <3>2. Linear(ahead', active') /\ Linear(ahead', queued') /\ Linear(ahead', failures')
        BY <1>2, OrderGives DEF KeepInv, vars
      <3> QED BY <2>1, <3>1, <3>2, OrderNext
    <2> QED BY <2>1, <2>2 DEF KeepInv
  <1> QED BY <1>1, <1>2

LEMMA KeepStart == Init => KeepInv
  <1> SUFFICES ASSUME Init PROVE KeepInv
    OBVIOUS
  <1>1. active = {} /\ queued = {} /\ failures = {} /\ ahead = {}
    BY DEF Init
  <1>2. Listed = {} /\ Live = {}
    BY <1>1 DEF Listed, Live
  <1> QED BY <1>1, <1>2, InitType, FS_EmptySet
      DEF KeepInv, ListsDisjoint, NoDuplicateWork, OrderOK, Ordered, Tracked

LEMMA KeepAlways == Spec => []KeepInv
  BY KeepStart, KeepStep, PTL DEF Spec

(***************************************************************************)
(* What the store owes its users holds over every step, for every number   *)
(* of tasks, models and instances and every length of recent_failures: no  *)
(* request vanishes, shrinks or is let out of its pause, and no waiting    *)
(* parent is woken twice.                                                  *)
(***************************************************************************)
THEOREM RequestsAreKept == Spec => QueueKeeps
  <1> DEFINE Dropped == \A t \in Live : NotDropped(t)
             Shrunk == \A t \in Live : NotShrunk(t)
             Woken == \A t \in active : NotWoken(t)
             Released == \A t \in queued : NotReleased(t)
  <1>1. Init => KeepInv
    BY KeepStart
  <1>2. KeepInv /\ [Next]_vars => KeepInv'
    BY KeepStep
  <1>3. KeepInv /\ [Next]_vars => [Dropped /\ Shrunk /\ Woken /\ Released]_vars
    BY EveryStepKeeps DEF StepKeeps, ActiveKept, QueuedKept, Live
  <1>4. Spec => [][Dropped /\ Shrunk /\ Woken /\ Released]_vars
    BY <1>1, <1>2, <1>3, PTL DEF Spec
  <1>5. [Dropped /\ Shrunk /\ Woken /\ Released]_vars =>
          /\ [Dropped]_vars /\ [Shrunk]_vars /\ [Woken]_vars /\ [Released]_vars
    OBVIOUS
  <1>6. Spec => [][Dropped]_vars /\ [][Shrunk]_vars /\ [][Woken]_vars /\ [][Released]_vars
    BY <1>4, <1>5, PTL
  <1> QED BY <1>6 DEF QueueKeeps, NothingDropped, ScopeGrows, ParentKeepsWaiting, PauseHolds,
                      NotDropped, NotShrunk, NotWoken, NotReleased
=============================================================================
