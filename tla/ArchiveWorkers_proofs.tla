----------------------- MODULE ArchiveWorkers_proofs -----------------------
(***************************************************************************)
(* The manager's threads use the queue by its operations only, for every   *)
(* number of threads, tasks and crashes; what is proved of the queue and   *)
(* any client of it therefore holds of the manager.                        *)
(***************************************************************************)
EXTENDS ArchiveWorkers, ArchiveQueue_proofs

(***************************************************************************)
(* The operations of the queue as the manager calls them: a resume, which  *)
(* the store offers for any set of paused tasks, takes the first of a set. *)
(***************************************************************************)
Careful ==
    \/ \E t \in Task, scope \in SUBSET Instance, probe \in BOOLEAN :
          EnqueueNew(t, scope, probe) \/ EnqueueMerge(t, scope)
    \/ \E t \in Task : Lease(t) \/ Restart(t) \/ Complete(t) \/ Fail(t)
    \/ \E t \in Task, done, expects \in BOOLEAN : UpdateActive(t, done, expects)
    \/ \E t \in Task, retry \in 0..RetryTicks : Requeue(t, retry)
    \/ \E t \in Task : ResumeBrowserRecovery(t)
    \/ \E S \in SUBSET Task, note \in Notes : Pause(S, note)
    \/ \E R \in SUBSET queued, daily \in BOOLEAN : Resume(FirstOf(R), daily)
    \/ \E S \in SUBSET Task : RemoveFailures(S)
    \/ RefreshLeases \/ RequeueActive \/ RepairLists \/ Repair \/ ClearFailures
    \/ FailUnknown
    \/ Tick

LEMMA CarefulIsNext ==
  ASSUME TypeOK, Careful
  PROVE  Next
  <1>1. ASSUME NEW R \in SUBSET queued, NEW daily \in BOOLEAN, Resume(FirstOf(R), daily)
        PROVE  Next
    <2>1. FirstOf(R) \in SUBSET Task
      BY DEF FirstOf, TypeOK
    <2> QED BY <1>1, <2>1 DEF Next
  <1> QED BY <1>1 DEF Careful, Next

(***************************************************************************)
(* One lemma per group of actions: its step is one of the queue, or it     *)
(* leaves the queue alone.                                                 *)
(***************************************************************************)
LEMMA EnqueueStep ==
  ASSUME NEW t \in Task, NEW scope \in SUBSET Instance, NEW probe \in BOOLEAN,
         Enqueue(t, scope, probe)
  PROVE  Careful
  BY DEF Enqueue, Careful

LEMMA LeaseNextStep ==
  ASSUME TypeOK, NEW w \in Worker, LeaseNext(w)
  PROVE  Careful
  <1>1. PICK t \in queued : Lease(t)
    BY DEF LeaseNext
  <1>2. t \in Task
    BY DEF TypeOK
  <1> QED BY <1>1, <1>2 DEF Careful

\* The steps of a thread while its pipeline runs, and of an exception.
LEMMA RunsStep ==
  ASSUME TypeOK, NEW w \in Worker, RunStep(w)
  PROVE  [Careful]_vars
  <1>1. active \in SUBSET Task
    BY DEF TypeOK
  <1>2. CASE Progress(w)
    BY <1>1, <1>2 DEF Progress, IfAny, Careful
  <1>3. CASE RetryLater(w)
    <2>1. RetryTicks \in 0..RetryTicks
      BY Bounds
    <2> QED BY <1>1, <1>3, <2>1 DEF RetryLater, IfAny, Careful
  <1>4. CASE Break(w) \/ NotFound(w)
    BY <1>4 DEF Break, NotFound
  <1>5. ASSUME NEW place, PipelineEnds(w, place)
        PROVE  [Careful]_vars
    <2>1. (Kind[worker[w].task] = "single") \in BOOLEAN
      OBVIOUS
    <2>2. IfAny(worker[w].task \in active,
                UpdateActive(worker[w].task, Kind[worker[w].task] = "single", FALSE))
      BY <1>5 DEF PipelineEnds
    <2> QED BY <1>1, <2>1, <2>2 DEF IfAny, Careful
  <1> QED BY <1>2, <1>3, <1>4, <1>5 DEF RunStep

\* The release of the first paused task.
LEMMA ResumeOneStep ==
  ASSUME TypeOK, ResumeOne
  PROVE  [Careful]_vars
  <1>1. Resumable \in SUBSET queued
    BY DEF Resumable
  <1> QED BY <1>1 DEF ResumeOne, IfAny, Careful

\* The transactions of a thread after its pipeline has ended.
LEMMA EndsStep ==
  ASSUME TypeOK, NEW w \in Worker, EndStep(w)
  PROVE  [Careful]_vars
  <1>1. active \in SUBSET Task /\ queued \in SUBSET Task /\ failures \in SUBSET Task
    BY DEF TypeOK
  <1>2. CASE OpenGate(w) \/ CloseGate(w) \/ NoStage(w)
    BY <1>2 DEF OpenGate, CloseGate, NoStage
  <1>3. CASE ResumeNext(w)
    BY <1>3, ResumeOneStep DEF ResumeNext
  <1>4. CASE ClearModelFailures(w)
    <2> DEFINE found == {f \in failures : ModelOf[f] = ModelOf[worker[w].task]}
    <2>1. IfAny(found # {}, RemoveFailures(found))
      BY <1>4 DEF ClearModelFailures
    <2>2. found \in SUBSET Task
      BY <1>1
    <2> HIDE DEF found
    <2> QED BY <2>1, <2>2 DEF IfAny, Careful
  <1>5. ASSUME NEW note \in {"fixed", "other"}, PauseWaiting(w, note)
        PROVE  [Careful]_vars
    <2> DEFINE waiting == {t \in queued : item[t].status = "queued" /\ ThreeMfOnly(t)}
    <2>1. IfAny(waiting # {}, Pause(waiting, note))
      BY <1>5 DEF PauseWaiting
    <2>2. waiting \in SUBSET Task /\ note \in Notes
      BY <1>1, NoteAssumption, WorkerAssumption
    <2> HIDE DEF waiting
    <2> QED BY <2>1, <2>2 DEF IfAny, Careful
  <1>6. ASSUME NEW t \in Task, EnqueueStage(w, t)
        PROVE  [Careful]_vars
    BY <1>6, EnqueueStep DEF EnqueueStage
  <1>7. CASE CompleteTask(w)
    BY <1>1, <1>7 DEF CompleteTask, IfAny, Careful
  <1>8. CASE FailTask(w)
    BY <1>1, <1>8 DEF FailTask, IfAny, Live, Careful
  <1> QED BY <1>2, <1>3, <1>4, <1>5, <1>6, <1>7, <1>8 DEF EndStep

\* The process, the main loop, the API and the background threads.
LEMMA OthersStep ==
  ASSUME TypeOK,
         \/ Crash \/ Recover \/ RepairAtStart \/ Maintain \/ ResumeConfirmed
         \/ Verified \/ LoginFound \/ HelperStep \/ AccountTested \/ TickWorkers
  PROVE  [Careful]_vars
  <1>1. CASE Crash \/ Verified \/ LoginFound \/ AccountTested
    BY <1>1 DEF Crash, Verified, LoginFound, AccountTested
  <1>2. CASE Recover \/ RepairAtStart \/ Maintain \/ TickWorkers
    BY <1>2 DEF Recover, RepairAtStart, Maintain, TickWorkers, IfAny, Careful
  <1>3. CASE ResumeConfirmed
    <2> DEFINE confirmed == {t \in Resumable : item[t].note = "fixed"}
    <2>1. Resume(FirstOf(confirmed), FALSE)
      BY <1>3 DEF ResumeConfirmed
    <2>2. confirmed \in SUBSET queued
      BY DEF Resumable
    <2> HIDE DEF confirmed
    <2> QED BY <2>1, <2>2 DEF Careful
  <1>4. CASE HelperStep
    <2>1. CASE HelperResumes
      BY <2>1, ResumeOneStep DEF HelperResumes
    <2>2. CASE HelperFindsNothing
      BY <2>2 DEF HelperFindsNothing
    <2>3. ASSUME NEW t \in Task, HelperRetries(t)
          PROVE  [Careful]_vars
      <3>1. CASE ResumeBrowserRecovery(t)
        BY <3>1 DEF Careful
      <3>2. CASE Enqueue(t, {}, TRUE)
        BY <3>2, EnqueueStep
      <3> QED BY <2>3, <3>1, <3>2 DEF HelperRetries
    <2> QED BY <1>4, <2>1, <2>2, <2>3 DEF HelperStep
  <1> QED BY <1>1, <1>2, <1>3, <1>4

LEMMA WorkersStep ==
  ASSUME TypeOK, [WorkersNext]_allVars
  PROVE  [Careful]_vars
  <1>1. ASSUME NEW t \in Task, NEW scope \in SUBSET Instance, Submit(t, scope)
        PROVE  [Careful]_vars
    BY <1>1, EnqueueStep DEF Submit
  <1>2. ASSUME NEW w \in Worker, LeaseNext(w) \/ RunStep(w) \/ EndStep(w)
        PROVE  [Careful]_vars
    BY <1>2, LeaseNextStep, RunsStep, EndsStep
  <1>3. CASE UNCHANGED allVars
    BY <1>3 DEF allVars, vars
  <1> QED BY <1>1, <1>2, <1>3, OthersStep DEF WorkersNext

LEMMA QueueStep ==
  ASSUME TypeOK, [WorkersNext]_allVars
  PROVE  [Next]_vars
  BY WorkersStep, CarefulIsNext

\* The manager with all its threads, crashes and helpers implements the queue:
\* every step of it is one operation of the store, or none.
THEOREM ManagerImplementsQueue == WorkersSpec => ImplementsQueue
  <1>1. WorkersInit => Init
    BY DEF WorkersInit
  <1>2. Init => TypeOK
    BY InitType
  <1>3. TypeOK /\ [WorkersNext]_allVars => [Next]_vars /\ TypeOK'
    <2>1. TypeOK /\ UNCHANGED vars => TypeOK'
      BY DEF TypeOK, vars
    <2> QED BY <2>1, QueueStep, StepType
  <1> QED BY <1>1, <1>2, <1>3, PTL DEF WorkersSpec, ImplementsQueue, Spec

\* Under the manager the same work is never queued or run twice, whatever the
\* number of its threads and wherever its process dies.
THEOREM ManagerKeepsWorkUnique == WorkersSpec => []NoDuplicateWork
  BY ManagerImplementsQueue, WorkIsUnique, PTL DEF ImplementsQueue

(***************************************************************************)
(* The release of the paused tasks.  Of the operations the manager uses,   *)
(* a lease, a recovery and the resume of the first of a set end a pause,   *)
(* each of one task; all others leave the paused tasks as they are.        *)
(***************************************************************************)
HeldOver(t) == t \in Live' => item'[t].status = item[t].status
AllHeld == \A t \in queued : HeldOver(t)
FreedNext == {t \in Paused \cap Live' : item'[t].status # "paused"}

LEMMA SameHeld == ASSUME NEW t, item'[t] = item[t] PROVE HeldOver(t)
  BY DEF HeldOver
LEMMA StrippedHeld ==
  ASSUME NEW t, item[t] \in Item, item'[t] = Stripped(item[t])
  PROVE  HeldOver(t)
  BY DEF HeldOver, Stripped, Item
LEMMA MergedHeld ==
  ASSUME NEW t, item[t] \in Item, NEW S, item'[t] = [item[t] EXCEPT !.scope = MergedScope(t, S)]
  PROVE  HeldOver(t)
  <1> DEFINE scope == MergedScope(t, S)
  <1>1. item'[t] = [item[t] EXCEPT !.scope = scope]
    OBVIOUS
  <1> HIDE DEF scope
  <1> QED BY <1>1 DEF HeldOver, Item

LEMMA ListsHold ==
  ASSUME KeepInv, NEW t \in Task,
         \/ \E scope \in SUBSET Instance, probe \in BOOLEAN :
               EnqueueNew(t, scope, probe) \/ EnqueueMerge(t, scope)
         \/ Restart(t) \/ Complete(t) \/ Fail(t)
         \/ \E done, expects \in BOOLEAN : UpdateActive(t, done, expects)
         \/ \E retry \in 0..RetryTicks : Requeue(t, retry)
  PROVE  AllHeld
  <1> SUFFICES ASSUME NEW u \in queued PROVE HeldOver(u)
    BY DEF AllHeld
  <1>0. item \in [Task -> Item] /\ u \in Task /\ item[u] \in Item /\ u \notin active /\ u \in Listed
    BY KeepTypes DEF KeepInv, TypeOK, Live, Listed
  <1>1. ASSUME NEW scope, NEW probe, EnqueueNew(t, scope, probe) PROVE HeldOver(u)
    BY <1>0, <1>1, SameHeld DEF EnqueueNew
  <1>2. ASSUME NEW scope, EnqueueMerge(t, scope) PROVE HeldOver(u)
    <2>1. PICK e \in Live : item' = [item EXCEPT ![e] = [item[e] EXCEPT !.scope = item[e].scope \cup scope, !.idle = 0]]
      BY <1>2 DEF EnqueueMerge
    <2>2. CASE u = e
      BY <1>0, <2>1, <2>2 DEF HeldOver, Item
    <2>3. CASE u # e
      BY <1>0, <2>1, <2>3, SameHeld
    <2> QED BY <2>2, <2>3
  <1>3. CASE Restart(t) \/ Complete(t)
    BY <1>0, <1>3, SameHeld DEF Restart, Complete
  <1>4. CASE Fail(t)
    <2>1. /\ t \notin Live' /\ Live' \subseteq Live
          /\ \A v \in Live : v # t /\ v \in Task => item'[v] = Stripped(item[v])
      BY <1>4 DEF Fail, Live
    <2> QED BY <1>0, <2>1, StrippedHeld DEF HeldOver, Live
  <1>5. ASSUME NEW done, NEW expects, UpdateActive(t, done, expects) PROVE HeldOver(u)
    BY <1>0, <1>5, SameHeld DEF UpdateActive
  <1>6. ASSUME NEW retry, Requeue(t, retry) PROVE HeldOver(u)
    <2> DEFINE dropped == {v \in queued : Key(v) = Key(t)} \cup SameFailure(t)
    <2>1. /\ t \in active /\ active' = active \ {t} /\ queued' = (queued \ dropped) \cup {t}
          /\ item'[u] = IF u = t THEN [item[t] EXCEPT !.status = "queued", !.retry = retry, !.lease = 0,
                                              !.idle = 0, !.done = FALSE, !.note = "other"]
                        ELSE IF u \in dropped THEN Blank ELSE item[u]
      BY <1>0, <1>6 DEF Requeue
    <2> HIDE DEF dropped
    <2>2. u # t
      BY <1>0, <2>1
    <2>3. CASE u \in dropped
      BY <1>0, <2>1, <2>2, <2>3 DEF HeldOver, Live
    <2>4. CASE u \notin dropped
      BY <2>1, <2>2, <2>4, SameHeld
    <2> QED BY <2>3, <2>4
  <1> QED BY <1>1, <1>2, <1>3, <1>4, <1>5, <1>6

LEMMA RepairsHold ==
  ASSUME KeepInv, RequeueActive \/ RepairLists \/ Repair
  PROVE  AllHeld
  <1> SUFFICES ASSUME NEW u \in queued PROVE HeldOver(u)
    BY DEF AllHeld
  <1>0. u \in Task /\ item[u] \in Item /\ u \notin active
    BY KeepTypes DEF Live
  <1>1. queued \ Repeated(queued) = queued
    BY NothingRepeated
  <1>2. CASE RequeueActive
    <2>1. PICK S : item'[u] = [item[u] EXCEPT !.scope = MergedScope(u, S)]
      BY <1>0, <1>1, <1>2 DEF RequeueActive
    <2> QED BY <1>0, <2>1, MergedHeld
  <1>3. CASE RepairLists \/ Repair
    <2>1. item'[u] = [item[u] EXCEPT !.scope = MergedScope(u, queued)]
      BY <1>0, <1>1, <1>3 DEF RepairLists, Repair
    <2> QED BY <1>0, <2>1, MergedHeld
  <1> QED BY <1>2, <1>3

LEMMA WholeHold ==
  ASSUME KeepInv,
         \/ \E S \in SUBSET Task, note \in Notes : Pause(S, note)
         \/ \E S \in SUBSET Task : RemoveFailures(S)
         \/ ClearFailures \/ FailUnknown \/ Tick \/ RefreshLeases \/ UNCHANGED vars
  PROVE  FreedNext = {}
  <1> SUFFICES ASSUME NEW u \in queued, item[u].status = "paused", u \in Live'
               PROVE  item'[u].status = "paused"
    BY DEF FreedNext, Paused
  <1>0. item \in [Task -> Item] /\ u \in Task /\ item[u] \in Item /\ u \notin active
        /\ u \in Listed /\ u \notin failures
    BY KeepTypes DEF KeepInv, TypeOK, Live, Listed
  <1>1. ASSUME NEW S, NEW note, Pause(S, note) PROVE item'[u].status = "paused"
    BY <1>0, <1>1 DEF Pause, Item
  <1>2. ASSUME NEW S, RemoveFailures(S) PROVE item'[u].status = "paused"
    BY <1>0, <1>2 DEF RemoveFailures
  <1>3. CASE ClearFailures \/ RefreshLeases \/ UNCHANGED vars
    BY <1>0, <1>3 DEF ClearFailures, RefreshLeases, vars
  <1>4. CASE FailUnknown
    BY <1>0, <1>4, StrippedHeld DEF FailUnknown, HeldOver
  <1>5. CASE Tick
    BY <1>0, <1>5 DEF Tick, Item
  <1> QED BY <1>1, <1>2, <1>3, <1>4, <1>5

LEMMA FirstIsOne ==
  ASSUME KeepInv, NEW R \in SUBSET queued, NEW t \in FirstOf(R), NEW u \in FirstOf(R)
  PROVE  t = u
  <1>1. Linear(ahead, queued)
    BY OrderGives DEF KeepInv
  <1> QED BY <1>1 DEF FirstOf, Linear

LEMMA OneFreed ==
  ASSUME KeepInv, [Careful]_vars
  PROVE  \A t, u \in FreedNext : t = u
  <1>1. AllHeld => FreedNext = {}
    BY DEF AllHeld, HeldOver, FreedNext, Paused
  <1>2. ASSUME NEW t \in Task, Lease(t) \/ ResumeBrowserRecovery(t)
        PROVE  FreedNext \subseteq {t}
    BY <1>2 DEF Lease, ResumeBrowserRecovery, FreedNext, Paused, KeepInv, TypeOK
  <1>3. ASSUME NEW R \in SUBSET queued, NEW daily \in BOOLEAN, Resume(FirstOf(R), daily)
        PROVE  FreedNext \subseteq FirstOf(R)
    BY <1>3 DEF Resume, FreedNext, Paused, KeepInv, TypeOK
  <1>4. ASSUME NEW t \in Task,
               \/ \E scope \in SUBSET Instance, probe \in BOOLEAN :
                     EnqueueNew(t, scope, probe) \/ EnqueueMerge(t, scope)
               \/ Restart(t) \/ Complete(t) \/ Fail(t)
               \/ \E done, expects \in BOOLEAN : UpdateActive(t, done, expects)
               \/ \E retry \in 0..RetryTicks : Requeue(t, retry)
        PROVE  FreedNext = {}
    BY <1>1, <1>4, ListsHold
  <1>5. CASE RequeueActive \/ RepairLists \/ Repair
    BY <1>1, <1>5, RepairsHold
  <1>6. CASE \/ \E S \in SUBSET Task, note \in Notes : Pause(S, note)
             \/ \E S \in SUBSET Task : RemoveFailures(S)
             \/ ClearFailures \/ FailUnknown \/ Tick \/ RefreshLeases \/ UNCHANGED vars
    BY <1>6, WholeHold
  <1>7. (\E t \in Task : FreedNext \subseteq {t}) => \A t, u \in FreedNext : t = u
    OBVIOUS
  <1>8. (\E R \in SUBSET queued : FreedNext \subseteq FirstOf(R)) => \A t, u \in FreedNext : t = u
    BY FirstIsOne
  <1> QED BY <1>2, <1>3, <1>4, <1>5, <1>6, <1>7, <1>8 DEF Careful

(***************************************************************************)
(* Paused tasks are released one by one, by a probe that succeeds, a login,*)
(* a verification, the main loop and a lease alike.                        *)
(***************************************************************************)
THEOREM PausedLeaveOneByOne == WorkersSpec => OneByOne
  <1> DEFINE Single == Cardinality({t \in Paused \cap Live' : item'[t].status # "paused"}) <= 1
  <1>1. ASSUME KeepInv, [WorkersNext]_allVars PROVE Single
    <2>1. \A t, u \in FreedNext : t = u
      BY <1>1, WorkersStep, OneFreed DEF KeepInv
    <2>2. Cardinality(FreedNext) <= 1
      <3>1. CASE FreedNext = {}
        BY <3>1, FS_EmptySet
      <3>2. CASE FreedNext # {}
        <4>1. PICK t \in FreedNext : TRUE
          BY <3>2
        <4>2. FreedNext = {t}
          BY <2>1, <4>1
        <4> QED BY <4>2, FS_Singleton
      <3> QED BY <3>1, <3>2
    <2> QED BY <2>2 DEF FreedNext
  <1>2. WorkersSpec => []KeepInv
    BY ManagerImplementsQueue, KeepAlways, PTL DEF ImplementsQueue
  <1>3. WorkersSpec => [][Single]_allVars
    <2>1. KeepInv /\ [WorkersNext]_allVars => [Single]_allVars
      BY <1>1
    <2> QED BY <1>2, <2>1, PTL DEF WorkersSpec
  <1> QED BY <1>3, PTL DEF OneByOne

-----------------------------------------------------------------------------
(***************************************************************************)
(* No task has two runners.  What the proof needs beyond the types: no     *)
(* task of these kinds waits for children; a thread that is not idle holds *)
(* a task that is not queued, and while its pipeline runs one that is      *)
(* active and has not reported its end; the thread is silent for at least  *)
(* as long as the queue has seen no progress of its task, so that a thread *)
(* is past its timeout before a repair takes the task for abandoned; and   *)
(* while the process is down, no thread holds anything.                    *)
(***************************************************************************)
NoneWaits ==
    /\ \A t \in active : item[t].status = "running" /\ ~ item[t].expects
    /\ \A t \in queued : ~ item[t].done /\ ~ item[t].expects

HolderOK(j) ==
    /\ j.at = "idle" => j = Idle
    /\ j.at # "idle" => j.task \in Task \ queued
    /\ j.at = "run" => j.task \in active /\ ~ item[j.task].done
    /\ j.at \in {"run", "verified", "partial", "blocked", "pause"} => ~ j.gone
    /\ j.at = "resume" /\ j.gone => j.task \notin active
    /\ j.task \in active => item[j.task].idle <= j.age
HoldersOK == \A w \in Worker : HolderOK(worker[w])

Separate == \A v, w \in Worker : worker[v].task = worker[w].task /\ v # w => worker[v].task = Nobody

DownIdle == /\ ~ Up => \A w \in Worker : worker[w] = Idle
            /\ boot = "recovering" => active = {}

RunnersInv == /\ TypeOK /\ ListsDisjoint /\ WorkersTypeOK
              /\ NoneWaits /\ HoldersOK /\ Separate /\ Attended /\ DownIdle

(***************************************************************************)
(* An operation on the queue that no thread does to its own task: it takes *)
(* from the active tasks only those that have reported their end, and      *)
(* queues none that a thread holds.                                        *)
(***************************************************************************)
SameRun(i, j) == i.idle <= j.idle /\ i.done = j.done /\ ~ i.expects /\ i.status = "running"
Quiet ==
    /\ active' \subseteq active /\ \A t \in active \ active' : item[t].done
    /\ \A t \in queued' : /\ t \in queued \/ Fresh(t)
                          /\ ~ item'[t].done /\ ~ item'[t].expects
    /\ \A t \in active' : SameRun(item'[t], item[t])

LEMMA ItemTypes ==
  ASSUME TypeOK, NEW t \in Task
  PROVE  /\ item[t] \in Item /\ item[t].idle \in 0..LeaseTicks /\ item[t].idle <= item[t].idle
         /\ item[t].done \in BOOLEAN /\ item[t].expects \in BOOLEAN
  <1>1. item[t] \in Item
    BY DEF TypeOK
  <1>2. item[t].idle \in 0..LeaseTicks
    BY <1>1 DEF Item
  <1>3. item[t].idle <= item[t].idle
    BY <1>2, Bounds
  <1> QED BY <1>1, <1>2, <1>3 DEF Item

LEMMA QuietNothing ==
  ASSUME RunnersInv, UNCHANGED vars
  PROVE  Quiet
  <1>1. active \subseteq Task /\ queued \subseteq Task
    BY DEF RunnersInv, TypeOK
  <1>2. \A t \in active : SameRun(item[t], item[t])
    BY <1>1, ItemTypes DEF RunnersInv, NoneWaits, SameRun
  <1> QED BY <1>2 DEF Quiet, RunnersInv, NoneWaits, vars

LEMMA QuietEnqueue ==
  ASSUME RunnersInv, NEW t \in Task, NEW scope \in SUBSET Instance, NEW probe \in BOOLEAN,
         Enqueue(t, scope, probe)
  PROVE  Quiet
  <1>1. Fresh(t) /\ active \subseteq Task /\ queued \subseteq Task
    BY DEF Enqueue, RunnersInv, TypeOK
  <1>2. CASE EnqueueNew(t, scope, probe)
    <2>1. t \notin active /\ queued' = queued \cup {t} /\ active' = active
      BY <1>2 DEF EnqueueNew, Listed, Live
    <2>2. /\ \A u \in Task \ {t} : item'[u] = item[u]
          /\ ~ item'[t].done /\ ~ item'[t].expects
      BY <1>2 DEF EnqueueNew, Blank, RunnersInv, TypeOK
    <2>3. \A u \in active : SameRun(item'[u], item[u])
      BY <1>1, <2>1, <2>2, ItemTypes DEF RunnersInv, NoneWaits, SameRun
    <2> QED BY <1>1, <2>1, <2>2, <2>3 DEF Quiet, RunnersInv, NoneWaits
  <1>3. CASE EnqueueMerge(t, scope)
    <2>1. PICK e \in Live :
            item' = [item EXCEPT ![e] = [item[e] EXCEPT !.scope = @ \cup scope, !.idle = 0]]
      BY <1>3 DEF EnqueueMerge
    <2>2. e \in Task /\ item[e] \in Item /\ item[e].idle \in 0..LeaseTicks
      BY <1>1, ItemTypes DEF Live, RunnersInv
    <2>3. /\ item'[e].idle = 0 /\ item'[e].done = item[e].done
          /\ item'[e].expects = item[e].expects /\ item'[e].status = item[e].status
          /\ \A u \in Task \ {e} : item'[u] = item[u]
      BY <2>1, <2>2 DEF RunnersInv, TypeOK, Item
    <2>4. 0 <= item[e].idle
      BY <2>2, Bounds
    <2>5. \A u \in active : SameRun(item'[u], item[u])
      BY <1>1, <2>3, <2>4, ItemTypes DEF RunnersInv, NoneWaits, SameRun
    <2>6. active' = active /\ queued' = queued
      BY <1>3 DEF EnqueueMerge
    <2> QED BY <1>1, <2>3, <2>5, <2>6 DEF Quiet, RunnersInv, NoneWaits
  <1> QED BY <1>2, <1>3 DEF Enqueue

\* Pausing, resuming and the front of the queue concern queued tasks only.
LEMMA QuietQueued ==
  ASSUME RunnersInv,
         \/ \E S \in SUBSET Task, note \in Notes : Pause(S, note)
         \/ \E S \in SUBSET Task, daily \in BOOLEAN : Resume(S, daily)
         \/ \E t \in Task : ResumeBrowserRecovery(t)
  PROVE  Quiet
  <1>1. active \subseteq Task /\ queued \subseteq Task /\ active \cap queued = {}
    BY DEF RunnersInv, TypeOK, ListsDisjoint
  <1>2. active' = active /\ queued' = queued
    BY DEF Pause, Resume, ResumeBrowserRecovery
  <1>3. /\ \A t \in active : item'[t] = item[t]
        /\ \A t \in queued : item'[t].done = item[t].done /\ item'[t].expects = item[t].expects
    <2>1. ASSUME NEW S \in SUBSET Task, NEW note \in Notes, Pause(S, note)
          PROVE  <1>3!1 /\ <1>3!2
      BY <1>1, <2>1, ItemTypes DEF Pause, Item, RunnersInv
    <2>2. ASSUME NEW S \in SUBSET Task, NEW daily \in BOOLEAN, Resume(S, daily)
          PROVE  <1>3!1 /\ <1>3!2
      BY <1>1, <2>2, ItemTypes DEF Resume, Item, RunnersInv
    <2>3. ASSUME NEW t \in Task, ResumeBrowserRecovery(t)
          PROVE  <1>3!1 /\ <1>3!2
      <3>1. t \in queued /\ item[t] \in Item
        BY <2>3, ItemTypes DEF ResumeBrowserRecovery, RunnersInv
      <3>2. /\ item'[t] = [item[t] EXCEPT !.status = "queued", !.blocked = FALSE,
                                          !.note = "other", !.probe = TRUE]
            /\ \A u \in Task \ {t} : item'[u] = item[u]
        BY <2>3 DEF ResumeBrowserRecovery, RunnersInv, TypeOK
      <3>3. item'[t].done = item[t].done /\ item'[t].expects = item[t].expects
        BY <3>1, <3>2 DEF Item
      <3> QED BY <1>1, <3>1, <3>2, <3>3
    <2> QED BY <2>1, <2>2, <2>3
  <1>4. \A t \in active : SameRun(item'[t], item[t])
    BY <1>1, <1>3, ItemTypes DEF RunnersInv, NoneWaits, SameRun
  <1> QED BY <1>2, <1>3, <1>4 DEF Quiet, RunnersInv, NoneWaits

LEMMA StrippedRun ==
  ASSUME NEW i \in Item
  PROVE  /\ Stripped(i).idle = i.idle /\ Stripped(i).done = i.done
         /\ Stripped(i).expects = i.expects /\ Stripped(i).status = i.status
  BY DEF Stripped, Item

\* Removing failures, and rebuilding every item.
LEMMA QuietFailures ==
  ASSUME RunnersInv, FailUnknown \/ \E S \in SUBSET Task : RemoveFailures(S)
  PROVE  Quiet
  <1>1. /\ active \subseteq Task /\ queued \subseteq Task
        /\ active \cap failures = {} /\ queued \cap failures = {}
    BY DEF RunnersInv, TypeOK, ListsDisjoint, Live
  <1>2. active' = active /\ queued' = queued
    BY DEF FailUnknown, RemoveFailures
  <1>3. \A t \in active \cup queued : item'[t] = item[t] \/ item'[t] = Stripped(item[t])
    <2>1. CASE FailUnknown
      BY <1>1, <2>1 DEF FailUnknown
    <2>2. ASSUME NEW S \in SUBSET Task, RemoveFailures(S)
          PROVE  \A t \in active \cup queued : item'[t] = item[t]
      BY <1>1, <2>2 DEF RemoveFailures
    <2> QED BY <2>1, <2>2
  <1>4. \A t \in active : SameRun(item'[t], item[t])
    BY <1>1, <1>3, ItemTypes, StrippedRun DEF RunnersInv, NoneWaits, SameRun
  <1>5. \A t \in queued : ~ item'[t].done /\ ~ item'[t].expects
    BY <1>1, <1>3, ItemTypes, StrippedRun DEF RunnersInv, NoneWaits
  <1> QED BY <1>2, <1>4, <1>5 DEF Quiet

\* A task whose lease is renewed is the same run.
LEMMA RenewedRun ==
  ASSUME RunnersInv, NEW t \in active
  PROVE  SameRun(item[t], item[t]) /\ SameRun(Renewed(item[t]), item[t])
  <1>1. item[t] \in Item /\ item[t].idle \in 0..LeaseTicks /\ item[t].idle <= item[t].idle
        /\ item[t].status = "running" /\ ~ item[t].expects
    BY ItemTypes DEF RunnersInv, NoneWaits, TypeOK
  <1>2. /\ Renewed(item[t]).idle = 0 /\ Renewed(item[t]).done = item[t].done
        /\ Renewed(item[t]).expects = item[t].expects
        /\ Renewed(item[t]).status = item[t].status
    BY <1>1 DEF Renewed, Item
  <1>3. 0 <= item[t].idle
    BY <1>1, Bounds
  <1> QED BY <1>1, <1>2, <1>3 DEF SameRun

\* The regular maintenance drops repeated items only, and renews leases.
LEMMA QuietMaintenance ==
  ASSUME RunnersInv, RepairLists \/ RefreshLeases
  PROVE  Quiet
  <1>1. /\ active \subseteq Task /\ queued \subseteq Task /\ active \cap queued = {}
        /\ active \cap failures = {} /\ queued \cap failures = {}
    BY DEF RunnersInv, TypeOK, ListsDisjoint, Live
  <1>2. CASE RepairLists
    <2>1. active' = active /\ queued' \subseteq queued
      BY <1>2 DEF RepairLists
    <2>2. \A t \in active : item'[t] = item[t]
      BY <1>1, <1>2 DEF RepairLists
    <2>3. \A t \in queued' : item'[t] = [item[t] EXCEPT !.scope = MergedScope(t, queued)]
      BY <1>1, <1>2 DEF RepairLists
    <2>4. \A t \in queued' : item'[t].done = item[t].done /\ item'[t].expects = item[t].expects
      BY <1>1, <2>1, <2>3, ItemTypes, ZenonT(60) DEF Item, RunnersInv
    <2>5. \A t \in active : SameRun(item'[t], item[t])
      BY <1>1, <2>2, ItemTypes DEF RunnersInv, NoneWaits, SameRun
    <2> QED BY <1>1, <2>1, <2>4, <2>5 DEF Quiet, RunnersInv, NoneWaits
  <1>3. CASE RefreshLeases
    <2>1. /\ active' = active \ {t \in active : Completed(t)} /\ queued' = queued
          /\ \A t \in queued : item'[t] = item[t]
          /\ \A t \in active' : item'[t] = item[t] \/ item'[t] = Renewed(item[t])
      BY <1>1, <1>3 DEF RefreshLeases
    <2>2. \A t \in active : SameRun(item[t], item[t]) /\ SameRun(Renewed(item[t]), item[t])
      BY RenewedRun
    <2>3. \A t \in active \ active' : item[t].done
      BY <2>1 DEF Completed
    <2>4. \A t \in active' : SameRun(item'[t], item[t])
      BY <2>1, <2>2
    <2> QED BY <2>1, <2>3, <2>4 DEF Quiet, RunnersInv, NoneWaits
  <1> QED BY <1>2, <1>3

\* No active task is abandoned: its thread would be past its timeout.
LEMMA NobodyAbandoned ==
  ASSUME RunnersInv, IdleTicks < LeaseTicks, Up, NEW t \in active
  PROVE  RecentProgress(t)
  <1>1. t \in Task /\ item[t].idle \in 0..LeaseTicks
    BY ItemTypes DEF RunnersInv, TypeOK
  <1>2. PICK w \in Worker : worker[w].task = t
    BY DEF RunnersInv, Attended
  <1>3. item[t].idle <= worker[w].age
    BY <1>2 DEF RunnersInv, HoldersOK, HolderOK
  <1>4. worker[w].age \in 0..IdleTicks
    BY DEF RunnersInv, WorkersTypeOK, Job
  <1> QED BY <1>1, <1>3, <1>4, WorkerAssumption, Bounds DEF RecentProgress

\* A repair requeues nothing that a thread holds.
LEMMA RepairRuns ==
  ASSUME RunnersInv, IdleTicks < LeaseTicks, Repair
  PROVE  active' \subseteq active /\ NoneWaits' /\ (Up => Quiet)
  <1> DEFINE finalized == {t \in active : Completed(t)}
             stale == {t \in active : item[t].status = "running" /\ LeaseExpired(t)
                                       /\ ~ RecentProgress(t)} \ finalized
             exhausted == {t \in stale : item[t].attempts >= MaxAttempts}
             kept == queued \ Repeated(queued)
             requeued == {t \in stale \ exhausted :
               \A u \in kept \cup {v \in stale \ exhausted : <<v, t>> \in ahead} :
                 Key(u) # Key(t)}
             failed == {t \in exhausted :
               \A u \in exhausted : <<t, u>> \in ahead => FailureKey(u) # FailureKey(t)}
  <1>1. /\ active \subseteq Task /\ queued \subseteq Task /\ active \cap queued = {}
    BY DEF RunnersInv, TypeOK, ListsDisjoint
  <1>2. active' = active \ (finalized \cup stale) /\ queued' = requeued \cup kept
    BY DEF Repair
  <1>3. /\ requeued \subseteq stale /\ stale \subseteq active /\ failed \subseteq stale
        /\ kept \subseteq queued
    OBVIOUS
  <1>4. \A t \in kept : item'[t] = [item[t] EXCEPT !.scope = MergedScope(t, queued)]
    BY <1>1 DEF Repair
  <1>5. \A t \in requeued : item'[t] = [item[t] EXCEPT !.status = "queued", !.lease = 0,
                                          !.idle = 0, !.note = "other", !.done = FALSE]
    BY <1>1 DEF Repair
  <1>6. \A t \in active' : item'[t] = item[t] \/ item'[t] = Renewed(item[t])
    <2> SUFFICES ASSUME NEW t \in active' PROVE item'[t] = item[t] \/ item'[t] = Renewed(item[t])
      OBVIOUS
    <2>1. t \in active /\ t \notin kept /\ t \notin requeued /\ t \notin failed
      BY <1>1, <1>2, <1>3
    <2> QED BY <1>1, <2>1 DEF Repair
  <1>7. finalized = {t \in active : Completed(t)} /\ (Up => stale = {})
    BY NobodyAbandoned
  <1> HIDE DEF finalized, stale, exhausted, kept, requeued, failed
  <1>8. \A t \in active : SameRun(item[t], item[t]) /\ SameRun(Renewed(item[t]), item[t])
    BY RenewedRun DEF RunnersInv
  <1>9. \A t \in active' : SameRun(item'[t], item[t])
    BY <1>2, <1>6, <1>8
  <1>10. \A t \in queued' : ~ item'[t].done /\ ~ item'[t].expects
    <2>1. \A t \in kept : item'[t].done = item[t].done /\ item'[t].expects = item[t].expects
      BY <1>1, <1>3, <1>4, ItemTypes, ZenonT(60) DEF Item, RunnersInv
    <2>2. \A t \in requeued : ~ item'[t].done /\ item'[t].expects = item[t].expects
      <3> SUFFICES ASSUME NEW t \in requeued
                   PROVE  ~ item'[t].done /\ item'[t].expects = item[t].expects
        OBVIOUS
      <3>1. item[t] \in Item
        BY <1>1, <1>3, ItemTypes DEF RunnersInv
      <3> QED BY <1>5, <3>1 DEF Item
    <2> QED BY <1>2, <1>3, <2>1, <2>2 DEF RunnersInv, NoneWaits
  <1>11. NoneWaits'
    BY <1>9, <1>10 DEF NoneWaits, SameRun
  <1>12. Up => Quiet
    <2> SUFFICES ASSUME Up PROVE Quiet
      OBVIOUS
    <2>1. stale = {} /\ requeued = {}
      BY <1>3, <1>7
    <2> QED BY <1>2, <1>3, <1>7, <1>9, <1>10, <2>1 DEF Quiet, Completed
  <1> QED BY <1>2, <1>11, <1>12

\* What a restart recovers: every active task is queued again.
LEMMA RecoverRuns ==
  ASSUME RunnersInv, RequeueActive
  PROVE  active' = {} /\ NoneWaits'
  <1> DEFINE finalized == {t \in active : Completed(t)}
             tracking == {t \in active : item[t].status = "waiting_children"}
             rest == active \ (finalized \cup tracking)
             kept == queued \ Repeated(queued)
             recovered == {t \in rest :
               \A u \in kept \cup {v \in rest : <<v, t>> \in ahead} : Key(u) # Key(t)}
  <1>1. /\ active \subseteq Task /\ queued \subseteq Task /\ active \cap queued = {}
    BY DEF RunnersInv, TypeOK, ListsDisjoint
  <1>2. tracking = {}
    BY DEF RunnersInv, NoneWaits
  <1>3. active' = {} /\ queued' = recovered \cup kept
    BY <1>2 DEF RequeueActive
  <1>4. ASSUME NEW t \in recovered PROVE ~ item'[t].done /\ ~ item'[t].expects
    <2>1. t \in Task /\ t \notin tracking /\ t \in active
      BY <1>1
    <2>2. item'[t] = [item[t] EXCEPT !.status = "queued", !.lease = 0, !.idle = 0,
                        !.done = FALSE, !.note = "other", !.scope = MergedScope(t, rest)]
      BY <2>1 DEF RequeueActive
    <2> HIDE DEF rest
    <2> QED BY <2>1, <2>2, ItemTypes DEF Item, RunnersInv, NoneWaits
  <1>5. ASSUME NEW t \in kept PROVE ~ item'[t].done /\ ~ item'[t].expects
    <2>1. t \in Task /\ t \notin tracking /\ t \notin recovered /\ t \in queued
      BY <1>1
    <2>2. item'[t] = [item[t] EXCEPT !.scope = MergedScope(t, queued \cup rest)]
      BY <2>1 DEF RequeueActive
    <2> HIDE DEF rest
    <2> QED BY <2>1, <2>2, ItemTypes DEF Item, RunnersInv, NoneWaits
  <1> HIDE DEF recovered, kept
  <1> QED BY <1>3, <1>4, <1>5 DEF NoneWaits

(***************************************************************************)
(* A step of one thread: what it does to the task it holds is its own      *)
(* business, of the other tasks it may only do what is quiet.              *)
(***************************************************************************)
LEMMA AgesAfter ==
  ASSUME TypeOK', NEW t \in Task
  PROVE  item'[t].idle \in 0..LeaseTicks
  BY DEF TypeOK, Item

LEMMA OthersHold ==
  ASSUME RunnersInv, TypeOK', NEW own, NEW v \in Worker,
         worker[v].task # own, worker'[v] = worker[v],
         active' \subseteq active,
         \A t \in active \ active' : item[t].done \/ t = own,
         \A t \in queued' : t \in queued \/ Fresh(t) \/ t = own,
         \A t \in active' \ {own} : SameRun(item'[t], item[t])
  PROVE  HolderOK(worker[v])'
  <1> DEFINE j == worker[v]
  <1>1. HolderOK(j) /\ j \in Job
    BY DEF RunnersInv, HoldersOK, WorkersTypeOK
  <1>2. j.at # "idle" => j.task \in Task \ queued'
    BY <1>1 DEF HolderOK, Fresh
  <1>3. j.at = "run" => j.task \in active' /\ ~ item'[j.task].done
    BY <1>1 DEF HolderOK, SameRun
  <1>4. ASSUME j.task \in active' PROVE item'[j.task].idle <= j.age
    <2>1. j.task \in Task /\ j.age \in 0..IdleTicks
      BY <1>1, <1>4 DEF RunnersInv, TypeOK, Job
    <2>2. item'[j.task].idle <= item[j.task].idle /\ item[j.task].idle <= j.age
      BY <1>1, <1>4 DEF HolderOK, SameRun
    <2>3. item[j.task].idle \in 0..LeaseTicks /\ item'[j.task].idle \in 0..LeaseTicks
      BY <2>1, ItemTypes, AgesAfter DEF RunnersInv
    <2> QED BY <2>1, <2>2, <2>3, Bounds, WorkerAssumption
  <1> QED BY <1>1, <1>2, <1>3, <1>4 DEF HolderOK

LEMMA ThreadKeeps ==
  ASSUME RunnersInv, TypeOK', NEW w \in Worker, Up, boot' = boot,
         \A v \in Worker \ {w} : worker'[v] = worker[v],
         worker[w].at # "idle",
         \/ worker'[w] = Idle /\ worker[w].task \notin active'
         \/ worker'[w].task = worker[w].task,
         active' \subseteq active,
         \A t \in active \ active' : item[t].done \/ t = worker[w].task,
         \A t \in queued' : t \in queued \/ Fresh(t) \/ t = worker[w].task,
         \A t \in active' \ {worker[w].task} : SameRun(item'[t], item[t]),
         HolderOK(worker[w])'
  PROVE  HoldersOK' /\ Separate' /\ Attended' /\ DownIdle'
  <1> DEFINE own == worker[w].task
  <1>1. own \in Task /\ own # Nobody
    BY WorkerAssumption DEF RunnersInv, HoldersOK, HolderOK
  <1>2. \A v \in Worker \ {w} : worker[v].task # own
    BY <1>1 DEF RunnersInv, Separate
  <1> HIDE DEF own
  <1>3. HoldersOK'
    <2> SUFFICES ASSUME NEW v \in Worker PROVE HolderOK(worker[v])'
      BY DEF HoldersOK
    <2>1. CASE v = w
      BY <2>1
    <2>2. CASE v # w
      BY <1>2, <2>2, OthersHold DEF own
    <2> QED BY <2>1, <2>2
  <1>4. Separate'
    BY <1>1, <1>2 DEF Separate, RunnersInv, Idle, own
  <1>5. Attended'
    <2> SUFFICES ASSUME NEW t \in active' PROVE \E v \in Worker : worker'[v].task = t
      BY DEF Attended
    <2>1. PICK v \in Worker : worker[v].task = t
      BY DEF RunnersInv, Attended
    <2> QED BY <2>1
  <1>6. DownIdle'
    BY DEF DownIdle, Up
  <1> QED BY <1>3, <1>4, <1>5, <1>6

LEMMA Moved ==
  ASSUME WorkersTypeOK, NEW w \in Worker, NEW place \in Places, MoveTo(w, place)
  PROVE  /\ worker' \in [Worker -> Job]
         /\ worker'[w].at = place /\ worker'[w].task = worker[w].task
         /\ worker'[w].gone = worker[w].gone /\ worker'[w].age = worker[w].age
         /\ \A v \in Worker \ {w} : worker'[v] = worker[v]
  <1>1. worker \in [Worker -> Job] /\ worker[w] \in Job
    BY DEF WorkersTypeOK
  <1>2. [worker[w] EXCEPT !.at = place] \in Job
    BY <1>1 DEF Job
  <1>3. worker' = [worker EXCEPT ![w] = [worker[w] EXCEPT !.at = place]]
    BY DEF MoveTo
  <1> QED BY <1>1, <1>2, <1>3 DEF Job

LEMMA IdleType == Idle \in Job
  BY WorkerAssumption, Bounds DEF Idle, Job, Places

LEMMA Stopped ==
  ASSUME WorkersTypeOK, NEW w \in Worker, Stop(w)
  PROVE  /\ worker' \in [Worker -> Job] /\ worker'[w] = Idle
         /\ \A v \in Worker \ {w} : worker'[v] = worker[v]
  BY IdleType DEF WorkersTypeOK, Stop

\* A thread that goes on after a quiet operation.
LEMMA QuietMoveKeeps ==
  ASSUME RunnersInv, TypeOK', NEW w \in Worker, Up, boot' = boot, Quiet,
         \A v \in Worker \ {w} : worker'[v] = worker[v],
         worker[w].at # "idle", worker'[w] \in Job, worker'[w].at \notin {"idle", "run"},
         worker'[w].task = worker[w].task, worker'[w].age = worker[w].age,
         worker'[w].at \in {"verified", "partial", "blocked", "pause"} => ~ worker'[w].gone,
         worker'[w].at = "resume" /\ worker'[w].gone => worker[w].task \notin active
  PROVE  HoldersOK' /\ Separate' /\ Attended' /\ DownIdle'
  <1> DEFINE own == worker[w].task
  <1>1. HolderOK(worker[w]) /\ worker[w] \in Job
    BY DEF RunnersInv, HoldersOK, WorkersTypeOK
  <1>2. own \in Task \ queued'
    BY <1>1 DEF HolderOK, Quiet, Fresh
  <1>3. ASSUME own \in active' PROVE item'[own].idle <= worker'[w].age
    <2>1. item'[own].idle <= item[own].idle /\ item[own].idle <= worker[w].age
      BY <1>1, <1>3 DEF HolderOK, Quiet, SameRun
    <2>2. /\ item[own].idle \in 0..LeaseTicks /\ item'[own].idle \in 0..LeaseTicks
          /\ worker[w].age \in 0..IdleTicks
      BY <1>1, <1>2, ItemTypes, AgesAfter DEF RunnersInv, Job
    <2> QED BY <2>1, <2>2, Bounds, WorkerAssumption
  <1>4. HolderOK(worker[w])'
    BY <1>2, <1>3 DEF HolderOK, Quiet
  <1> QED BY <1>4, ThreadKeeps DEF Quiet

(***************************************************************************)
(* The actions of a thread.                                                *)
(***************************************************************************)
RunnersNext == WorkersTypeOK' /\ NoneWaits' /\ HoldersOK' /\ Separate' /\ Attended' /\ DownIdle'

LEMMA QuietWaits == ASSUME Quiet PROVE NoneWaits'
  BY DEF Quiet, NoneWaits, SameRun

LEMMA QuietResumeOne == ASSUME RunnersInv, ResumeOne PROVE Quiet
  <1>1. FirstOf(Resumable) \in SUBSET Task
    BY DEF RunnersInv, TypeOK, FirstOf, Resumable
  <1> QED BY <1>1, QuietQueued, QuietNothing DEF ResumeOne, IfAny

\* Where the thread goes on, with nothing but quiet in the queue.
LEMMA GoesOn ==
  ASSUME RunnersInv, TypeOK', NEW w \in Worker, NEW place \in Places \ {"idle", "run"},
         Up, boot' = boot, left' = left, helper' = helper, gate' \in {"open", "closed", "checking"},
         worker[w].at # "idle", MoveTo(w, place), Quiet,
         place \in {"verified", "partial", "blocked", "pause"} => ~ worker[w].gone,
         place = "resume" /\ worker[w].gone => worker[w].task \notin active
  PROVE  RunnersNext
  <1>1. /\ worker' \in [Worker -> Job]
        /\ worker'[w].at = place /\ worker'[w].task = worker[w].task
        /\ worker'[w].gone = worker[w].gone /\ worker'[w].age = worker[w].age
        /\ \A v \in Worker \ {w} : worker'[v] = worker[v]
    BY Moved DEF RunnersInv
  <1>2. WorkersTypeOK'
    BY <1>1 DEF RunnersInv, WorkersTypeOK
  <1>3. HoldersOK' /\ Separate' /\ Attended' /\ DownIdle'
    BY <1>1, QuietMoveKeeps
  <1> QED BY <1>2, <1>3, QuietWaits DEF RunnersNext

LEMMA EndMovesRun ==
  ASSUME RunnersInv, TypeOK', NEW w \in Worker,
         \/ OpenGate(w) \/ CloseGate(w) \/ NoStage(w) \/ ClearModelFailures(w)
         \/ \E note \in {"fixed", "other"} : PauseWaiting(w, note)
         \/ \E t \in Task : EnqueueStage(w, t)
         \/ Break(w)
  PROVE  RunnersNext
  <1>0. /\ gate \in {"open", "closed", "checking"} /\ HolderOK(worker[w])
        /\ {"resume", "clear", "pause", "complete", "broken", "stage"} \subseteq Places \ {"idle", "run"}
    BY DEF RunnersInv, WorkersTypeOK, HoldersOK, Places
  <1>1. CASE OpenGate(w)
    <2>1. Quiet /\ gate' \in {"open", "closed", "checking"}
      BY <1>0, <1>1, QuietNothing DEF OpenGate
    <2>2. PICK place \in {"resume", "clear"} : MoveTo(w, place)
      BY <1>1 DEF OpenGate
    <2>3. Up /\ worker[w].at \in {"verified", "partial"} /\ ~ worker[w].gone
      BY <1>0, <1>1 DEF OpenGate, At, HolderOK
    <2> QED BY <1>0, <1>1, <2>1, <2>2, <2>3, GoesOn DEF OpenGate
  <1>2. CASE CloseGate(w)
    BY <1>0, <1>2, QuietNothing, GoesOn DEF CloseGate, At, HolderOK
  <1>3. CASE NoStage(w)
    BY <1>0, <1>3, QuietNothing, GoesOn DEF NoStage, At
  <1>4. CASE ClearModelFailures(w)
    <2>1. Quiet
      <3> DEFINE found == {f \in failures : ModelOf[f] = ModelOf[worker[w].task]}
      <3>1. IfAny(found # {}, RemoveFailures(found)) /\ found \in SUBSET Task
        BY <1>4 DEF ClearModelFailures, RunnersInv, TypeOK
      <3> HIDE DEF found
      <3> QED BY <3>1, QuietFailures, QuietNothing DEF IfAny
    <2>2. PICK place \in {"stage", "complete"} : MoveTo(w, place)
      BY <1>4 DEF ClearModelFailures
    <2> QED BY <1>0, <1>4, <2>1, <2>2, GoesOn DEF ClearModelFailures, At
  <1>5. ASSUME NEW note \in {"fixed", "other"}, PauseWaiting(w, note) PROVE RunnersNext
    <2>1. Quiet
      <3> DEFINE waiting == {t \in queued : item[t].status = "queued" /\ ThreeMfOnly(t)}
      <3>1. IfAny(waiting # {}, Pause(waiting, note)) /\ waiting \in SUBSET Task /\ note \in Notes
        BY <1>5, NoteAssumption, WorkerAssumption DEF PauseWaiting, RunnersInv, TypeOK
      <3> HIDE DEF waiting
      <3> QED BY <3>1, QuietQueued, QuietNothing DEF IfAny
    <2> QED BY <1>0, <1>5, <2>1, GoesOn DEF PauseWaiting, At
  <1>6. ASSUME NEW t \in Task, EnqueueStage(w, t) PROVE RunnersNext
    <2>1. Quiet
      BY <1>6, QuietEnqueue DEF EnqueueStage
    <2> QED BY <1>0, <1>6, <2>1, GoesOn DEF EnqueueStage, At
  <1>7. CASE Break(w)
    <2>1. Quiet /\ gate' \in {"open", "closed", "checking"}
      BY <1>0, <1>7, QuietNothing DEF Break
    <2>2. Up /\ worker[w].at # "idle"
      BY <1>7 DEF Break, At
    <2> QED BY <1>0, <1>7, <2>1, <2>2, GoesOn DEF Break
  <1> QED BY <1>1, <1>2, <1>3, <1>4, <1>5, <1>6, <1>7

LEMMA NotFoundRun ==
  ASSUME RunnersInv, TypeOK', NEW w \in Worker, NotFound(w)
  PROVE  RunnersNext
  <1>1. worker \in [Worker -> Job] /\ worker[w] \in Job /\ worker[w].at = "run" /\ Up
    BY DEF RunnersInv, WorkersTypeOK, NotFound, At
  <1> DEFINE j == [worker[w] EXCEPT !.at = "clear", !.gone = TRUE]
  <1>2. /\ j \in Job /\ j.at = "clear" /\ j.task = worker[w].task /\ j.age = worker[w].age
    BY <1>1 DEF Job, Places
  <1>3. worker' = [worker EXCEPT ![w] = j]
    BY DEF NotFound
  <1> HIDE DEF j
  <1>4. worker' \in [Worker -> Job] /\ worker'[w] = j /\ \A v \in Worker \ {w} : worker'[v] = worker[v]
    BY <1>1, <1>2, <1>3
  <1>5. WorkersTypeOK' /\ Quiet
    BY <1>4, QuietNothing DEF NotFound, RunnersInv, WorkersTypeOK
  <1>6. HoldersOK' /\ Separate' /\ Attended' /\ DownIdle'
    BY <1>1, <1>2, <1>4, <1>5, QuietMoveKeeps DEF NotFound
  <1> QED BY <1>5, <1>6, QuietWaits DEF RunnersNext

\* The thread hears of its pipeline: the queue's silence and its own end together.
LEMMA HeardRun ==
  ASSUME RunnersInv, TypeOK', NEW w \in Worker, NEW place \in {"run", "verified", "partial", "blocked", "clear"},
         NEW done \in BOOLEAN, place = "run" => ~ done, At(w, "run"),
         IfAny(worker[w].task \in active, UpdateActive(worker[w].task, done, FALSE)),
         worker' = [worker EXCEPT ![w] = [@ EXCEPT !.at = place, !.age = 0]],
         UNCHANGED <<boot, gate, helper, left>>
  PROVE  RunnersNext
  <1> DEFINE t == worker[w].task  j == [worker[w] EXCEPT !.at = place, !.age = 0]
  <1>1. /\ worker \in [Worker -> Job] /\ worker[w] \in Job /\ worker[w].at = "run" /\ Up
        /\ t \in Task \ queued /\ t \in active /\ ~ worker[w].gone
    BY DEF RunnersInv, WorkersTypeOK, HoldersOK, HolderOK, At
  <1>2. /\ j \in Job /\ j.at = place /\ j.task = t /\ j.age = 0 /\ ~ j.gone
    <2>1. place \in Places /\ 0 \in 0..IdleTicks
      BY WorkerAssumption DEF Places
    <2> QED BY <1>1, <2>1 DEF Job
  <1>3. worker' = [worker EXCEPT ![w] = j]
    OBVIOUS
  <1> HIDE DEF j
  <1>4. worker' \in [Worker -> Job] /\ worker'[w] = j /\ \A v \in Worker \ {w} : worker'[v] = worker[v]
    BY <1>1, <1>2, <1>3
  <1>5. WorkersTypeOK'
    BY <1>4 DEF RunnersInv, WorkersTypeOK
  <1>6. /\ active' = active /\ queued' = queued
        /\ \A u \in Task \ {t} : item'[u] = item[u]
        /\ item'[t].idle = 0 /\ item'[t].done = done
        /\ ~ item'[t].expects /\ item'[t].status = "running"
    <2>1. UpdateActive(t, done, FALSE)
      BY <1>1 DEF IfAny
    <2>2. item[t] \in Item /\ ~ item[t].expects
      BY <1>1, ItemTypes DEF RunnersInv, NoneWaits
    <2>3. item' = [item EXCEPT ![t] = [Renewed(item[t]) EXCEPT !.done = done,
                      !.expects = item[t].expects \/ FALSE,
                      !.status = ActiveStatus(item[t].expects \/ FALSE)]]
      BY <2>1 DEF UpdateActive
    <2>4. Renewed(item[t]) \in Item /\ Renewed(item[t]).idle = 0
      BY <2>2, RenewedType DEF Renewed, Item
    <2>5. item'[t] = [Renewed(item[t]) EXCEPT !.done = done,
                      !.expects = FALSE, !.status = "running"]
      BY <1>1, <2>2, <2>3 DEF RunnersInv, TypeOK, ActiveStatus
    <2>6. /\ item'[t].idle = 0 /\ item'[t].done = done
          /\ ~ item'[t].expects /\ item'[t].status = "running"
      BY <2>4, <2>5 DEF Item
    <2> QED BY <1>1, <2>1, <2>3, <2>6 DEF UpdateActive, RunnersInv, TypeOK
  <1>7. \A u \in active' \ {t} : SameRun(item'[u], item[u])
    BY <1>6, ItemTypes DEF RunnersInv, NoneWaits, SameRun, TypeOK
  <1>8. NoneWaits'
    BY <1>1, <1>6 DEF NoneWaits, RunnersInv, TypeOK
  <1>9. HolderOK(worker[w])'
    BY <1>1, <1>2, <1>4, <1>6 DEF HolderOK
  <1>10. HoldersOK' /\ Separate' /\ Attended' /\ DownIdle'
    BY <1>1, <1>2, <1>4, <1>6, <1>7, <1>9, ThreadKeeps
  <1> QED BY <1>5, <1>8, <1>10 DEF RunnersNext

(***************************************************************************)
(* A thread gives its task up: it is completed, requeued or failed, unless *)
(* it is no longer active.                                                 *)
(***************************************************************************)
Given(t) ==
    /\ active' = active \ {t} /\ queued' \subseteq queued \cup {t} /\ NoneWaits'
    /\ \A u \in active' : SameRun(item'[u], item[u])

LEMMA GivenTypes ==
  ASSUME RunnersInv, NEW w \in Worker, worker[w].at # "idle"
  PROVE  /\ worker[w].task \in Task \ queued /\ active \subseteq Task /\ queued \subseteq Task
         /\ active \cap queued = {} /\ active \cap failures = {} /\ queued \cap failures = {}
         /\ \A u \in active : item[u] \in Item /\ SameRun(item[u], item[u])
         /\ \A u \in queued : item[u] \in Item
  <1>1. /\ worker[w].task \in Task \ queued /\ active \subseteq Task /\ queued \subseteq Task
        /\ active \cap queued = {} /\ active \cap failures = {} /\ queued \cap failures = {}
    BY DEF RunnersInv, TypeOK, HoldersOK, HolderOK, ListsDisjoint, Live
  <1> QED BY <1>1, ItemTypes, RenewedRun DEF RunnersInv

LEMMA GivenNothing ==
  ASSUME RunnersInv, NEW w \in Worker, worker[w].at # "idle", UNCHANGED vars,
         worker[w].task \notin active
  PROVE  Given(worker[w].task)
  BY GivenTypes DEF Given, vars, NoneWaits, RunnersInv

LEMMA GivenComplete ==
  ASSUME RunnersInv, NEW w \in Worker, worker[w].at # "idle",
         IfAny(worker[w].task \in active, Complete(worker[w].task))
  PROVE  Given(worker[w].task)
  <1> DEFINE t == worker[w].task
  <1>1. CASE Complete(t)
    <2>1. active' = active \ {t} /\ queued' = queued /\ \A u \in Task \ {t} : item'[u] = item[u]
      BY <1>1, GivenTypes DEF Complete, RunnersInv, TypeOK
    <2> QED BY <2>1, GivenTypes DEF Given, NoneWaits, RunnersInv
  <1> QED BY <1>1, GivenNothing DEF IfAny

LEMMA GivenRequeue ==
  ASSUME RunnersInv, NEW w \in Worker, worker[w].at # "idle",
         IfAny(worker[w].task \in active, Requeue(worker[w].task, RetryTicks))
  PROVE  Given(worker[w].task)
  <1> DEFINE t == worker[w].task
  <1>1. CASE Requeue(t, RetryTicks)
    <2> DEFINE dropped == {u \in queued : Key(u) = Key(t)} \cup SameFailure(t)
               back == [item[t] EXCEPT !.status = "queued", !.retry = RetryTicks, !.lease = 0,
                                       !.idle = 0, !.done = FALSE, !.note = "other"]
    <2>1. /\ active' = active \ {t} /\ queued' = (queued \ dropped) \cup {t} /\ t \in active
          /\ item' = [u \in Task |-> IF u = t THEN back ELSE IF u \in dropped THEN Blank ELSE item[u]]
      BY <1>1 DEF Requeue
    <2>2. dropped \subseteq queued \cup failures
      BY DEF SameFailure
    <2>3. ~ back.done /\ ~ back.expects
      BY <2>1, GivenTypes DEF Item, RunnersInv, NoneWaits
    <2> HIDE DEF dropped, back
    <2>4. \A u \in (active \cup queued) \ (dropped \cup {t}) : item'[u] = item[u]
      BY <2>1, GivenTypes
    <2>5. item'[t] = back
      BY <2>1, GivenTypes
    <2>6. \A u \in active' : item'[u] = item[u]
      BY <2>1, <2>2, <2>4, GivenTypes
    <2>7. NoneWaits'
      BY <2>1, <2>3, <2>4, <2>5, <2>6 DEF NoneWaits, RunnersInv
    <2>8. \A u \in active' : SameRun(item'[u], item[u])
      BY <2>1, <2>6, GivenTypes
    <2> QED BY <2>1, <2>7, <2>8 DEF Given
  <1> QED BY <1>1, GivenNothing DEF IfAny

LEMMA GivenFail ==
  ASSUME RunnersInv, NEW w \in Worker, worker[w].at # "idle",
         IF worker[w].task \in Live THEN Fail(worker[w].task) ELSE IfAny(Listed # {}, FailUnknown)
  PROVE  Given(worker[w].task)
  <1> DEFINE t == worker[w].task
  <1>1. CASE Fail(t)
    <2>1. active' = active \ {t} /\ queued' = queued \ {t}
      BY <1>1 DEF Fail
    <2>2. \A u \in Live \ {t} : item'[u] = Stripped(item[u])
      BY <1>1, GivenTypes DEF Fail, Live
    <2>3. \A u \in active \cup queued : /\ Stripped(item[u]).idle = item[u].idle
                                        /\ Stripped(item[u]).done = item[u].done
                                        /\ Stripped(item[u]).expects = item[u].expects
                                        /\ Stripped(item[u]).status = item[u].status
      BY GivenTypes, StrippedRun
    <2>4. \A u \in active' : SameRun(item'[u], item[u])
      BY <2>1, <2>2, <2>3, GivenTypes DEF Live, SameRun
    <2> QED BY <2>1, <2>2, <2>3, <2>4 DEF Given, NoneWaits, RunnersInv, Live
  <1>2. CASE t \notin Live
    <2>1. Quiet
      BY <1>2, QuietFailures, QuietNothing DEF IfAny
    <2>2. active' = active /\ queued' = queued /\ t \notin active
      BY <1>2 DEF IfAny, FailUnknown, vars, Live
    <2> QED BY <2>1, <2>2, QuietWaits DEF Given, Quiet
  <1> QED BY <1>1, <1>2

LEMMA GiverKeeps ==
  ASSUME RunnersInv, TypeOK', NEW w \in Worker, Up, UNCHANGED <<boot, gate, helper, left>>,
         worker[w].at # "idle", Given(worker[w].task),
         Stop(w) \/ (MoveTo(w, "resume") /\ queued' \subseteq queued)
  PROVE  RunnersNext
  <1> DEFINE t == worker[w].task
  <1>1. t \in Task \ queued /\ t \notin active' /\ active' \subseteq active
    BY GivenTypes DEF Given
  <1>2. CASE Stop(w)
    <2>1. /\ worker' \in [Worker -> Job] /\ worker'[w] = Idle
          /\ \A v \in Worker \ {w} : worker'[v] = worker[v]
      BY <1>2, Stopped DEF RunnersInv
    <2>2. WorkersTypeOK'
      BY <2>1 DEF RunnersInv, WorkersTypeOK
    <2>3. Nobody \notin active'
      BY WorkerAssumption DEF TypeOK
    <2>4. HolderOK(worker[w])'
      BY <2>1, <2>3 DEF HolderOK, Idle
    <2>5. HoldersOK' /\ Separate' /\ Attended' /\ DownIdle'
      BY <1>1, <2>1, <2>4, ThreadKeeps DEF Given
    <2> QED BY <2>2, <2>5 DEF RunnersNext, Given
  <1>3. CASE MoveTo(w, "resume") /\ queued' \subseteq queued
    <2>1. /\ worker' \in [Worker -> Job]
          /\ worker'[w].at = "resume" /\ worker'[w].task = worker[w].task
          /\ \A v \in Worker \ {w} : worker'[v] = worker[v]
      BY <1>3, Moved DEF RunnersInv, Places
    <2>2. WorkersTypeOK'
      BY <2>1 DEF RunnersInv, WorkersTypeOK
    <2>3. HolderOK(worker[w])'
      BY <1>1, <1>3, <2>1 DEF HolderOK
    <2>4. HoldersOK' /\ Separate' /\ Attended' /\ DownIdle'
      BY <1>1, <2>1, <2>3, ThreadKeeps DEF Given
    <2> QED BY <2>2, <2>4 DEF RunnersNext, Given
  <1> QED BY <1>2, <1>3

LEMMA EndsRun ==
  ASSUME RunnersInv, TypeOK', NEW w \in Worker,
         CompleteTask(w) \/ RetryLater(w) \/ FailTask(w) \/ ResumeNext(w)
  PROVE  RunnersNext
  <1>1. CASE CompleteTask(w)
    <2>1. worker[w].at # "idle" /\ Up /\ IfAny(worker[w].task \in active, Complete(worker[w].task))
      BY <1>1 DEF CompleteTask, At
    <2>2. queued' = queued
      BY <2>1 DEF IfAny, Complete, vars
    <2> QED BY <1>1, <2>1, <2>2, GivenComplete, GiverKeeps DEF CompleteTask
  <1>2. CASE RetryLater(w)
    <2>1. /\ worker[w].at # "idle" /\ Up
          /\ IfAny(worker[w].task \in active, Requeue(worker[w].task, RetryTicks))
      BY <1>2 DEF RetryLater, At
    <2> QED BY <1>2, <2>1, GivenRequeue, GiverKeeps DEF RetryLater
  <1>3. CASE FailTask(w)
    <2>1. /\ worker[w].at # "idle" /\ Up
          /\ IF worker[w].task \in Live THEN Fail(worker[w].task)
             ELSE IfAny(Listed # {}, FailUnknown)
      BY <1>3 DEF FailTask, At
    <2> QED BY <1>3, <2>1, GivenFail, GiverKeeps DEF FailTask
  <1>4. CASE ResumeNext(w) /\ ~ worker[w].gone
    <2>1. Quiet /\ "clear" \in Places \ {"idle", "run"} /\ gate \in {"open", "closed", "checking"}
      BY <1>4, QuietResumeOne DEF ResumeNext, Places, RunnersInv, WorkersTypeOK
    <2> QED BY <1>4, <2>1, GoesOn DEF ResumeNext, At
  <1>5. CASE ResumeNext(w) /\ worker[w].gone
    <2>1. worker[w].at = "resume" /\ Up /\ worker[w].task \notin active
      BY <1>5 DEF ResumeNext, At, RunnersInv, HoldersOK, HolderOK
    <2>2. Quiet /\ active' = active /\ queued' = queued
      BY <1>5, QuietResumeOne DEF ResumeNext, ResumeOne, IfAny, Resume, vars
    <2>3. Given(worker[w].task)
      BY <2>1, <2>2, QuietWaits DEF Given, Quiet
    <2> QED BY <1>5, <2>1, <2>3, GiverKeeps DEF ResumeNext
  <1> QED BY <1>1, <1>2, <1>3, <1>4, <1>5

LEMMA HearsRun ==
  ASSUME RunnersInv, TypeOK', NEW w \in Worker,
         Progress(w) \/ \E place \in {"verified", "partial", "blocked", "clear"} : PipelineEnds(w, place)
  PROVE  RunnersNext
  <1>1. CASE Progress(w)
    <2>1. worker[w] \in Job /\ worker[w].at = "run" /\ worker \in [Worker -> Job]
      BY <1>1 DEF Progress, At, RunnersInv, WorkersTypeOK
    <2>2. [worker[w] EXCEPT !.age = 0] = [worker[w] EXCEPT !.at = "run", !.age = 0]
      BY <2>1 DEF Job
    <2> QED BY <1>1, <2>1, <2>2, HeardRun DEF Progress
  <1>2. ASSUME NEW place \in {"verified", "partial", "blocked", "clear"}, PipelineEnds(w, place)
        PROVE  RunnersNext
    <2>1. (Kind[worker[w].task] = "single") \in BOOLEAN
      OBVIOUS
    <2> QED BY <1>2, <2>1, HeardRun DEF PipelineEnds
  <1> QED BY <1>1, <1>2

LEMMA LeaseRun ==
  ASSUME RunnersInv, TypeOK', NEW w \in Worker, LeaseNext(w)
  PROVE  RunnersNext
  <1>1. PICK t \in queued :
          /\ Lease(t)
          /\ worker' = [worker EXCEPT ![w] =
                [Idle EXCEPT !.task = t, !.at = "run", !.scope = item[t].scope,
                             !.tries = item'[t].attempts, !.probe = item[t].probe]]
    BY DEF LeaseNext
  <1> DEFINE j == [Idle EXCEPT !.task = t, !.at = "run", !.scope = item[t].scope,
                               !.tries = item'[t].attempts, !.probe = item[t].probe]
  <1>2. /\ t \in Task /\ t \notin active /\ active \subseteq Task /\ queued \subseteq Task
        /\ item[t] \in Item /\ item'[t] \in Item /\ ~ item[t].done /\ ~ item[t].expects
        /\ worker \in [Worker -> Job] /\ worker[w] = Idle /\ Up
    BY ItemTypes DEF RunnersInv, TypeOK, ListsDisjoint, NoneWaits, WorkersTypeOK, LeaseNext, At,
                     HoldersOK, HolderOK
  <1>3. /\ j \in Job /\ j.task = t /\ j.at = "run" /\ ~ j.gone /\ j.age = 0
    <2>1. item[t].scope \in SUBSET Instance /\ item'[t].attempts \in 0..AttemptCap
          /\ item[t].probe \in BOOLEAN /\ "run" \in Places /\ 0 \in 0..IdleTicks
      BY <1>2, WorkerAssumption DEF Item, Places
    <2> QED BY <1>2, <2>1 DEF Idle, Job
  <1>4. worker' = [worker EXCEPT ![w] = j]
    BY <1>1
  <1> HIDE DEF j
  <1>5. worker' \in [Worker -> Job] /\ worker'[w] = j /\ \A v \in Worker \ {w} : worker'[v] = worker[v]
    BY <1>2, <1>3, <1>4
  <1>6. /\ active' = active \cup {t} /\ queued' = queued \ {t} /\ item'[t] = Leased(item[t])
        /\ \A u \in Task \ {t} : item'[u] = item[u]
    BY <1>1, <1>2 DEF Lease, RunnersInv, TypeOK
  <1>7. /\ item'[t].idle = 0 /\ ~ item'[t].done /\ ~ item'[t].expects /\ item'[t].status = "running"
    BY <1>2, <1>6 DEF Leased, Item, ActiveStatus
  <1>8. NoneWaits'
    BY <1>2, <1>6, <1>7 DEF NoneWaits, RunnersInv
  <1>9. \A v \in Worker : worker[v].task # t
    <2> SUFFICES ASSUME NEW v \in Worker, worker[v].task = t PROVE FALSE
      OBVIOUS
    <2>1. HolderOK(worker[v]) /\ Nobody \notin Task
      BY WorkerAssumption DEF RunnersInv, HoldersOK
    <2> QED BY <1>2, <2>1 DEF HolderOK, Idle
  <1>10. HoldersOK'
    <2> SUFFICES ASSUME NEW v \in Worker PROVE HolderOK(worker[v])'
      BY DEF HoldersOK
    <2>1. CASE v = w
      BY <1>2, <1>3, <1>5, <1>6, <1>7, <2>1 DEF HolderOK
    <2>2. CASE v # w
      <3>1. HolderOK(worker[v]) /\ worker[v].task # t /\ worker'[v] = worker[v]
        BY <1>5, <1>9, <2>2 DEF RunnersInv, HoldersOK
      <3>2. worker[v].task \in active => item'[worker[v].task] = item[worker[v].task]
        BY <1>2, <1>6, <3>1
      <3>3. worker[v].task \in active' <=> worker[v].task \in active
        BY <1>6, <3>1
      <3> QED BY <1>6, <3>1, <3>2, <3>3 DEF HolderOK
    <2> QED BY <2>1, <2>2
  <1>11. Separate'
    BY <1>3, <1>5, <1>9 DEF Separate, RunnersInv
  <1>12. Attended'
    <2> SUFFICES ASSUME NEW u \in active' PROVE \E v \in Worker : worker'[v].task = u
      BY DEF Attended
    <2>1. CASE u = t
      BY <1>3, <1>5, <2>1
    <2>2. CASE u # t
      <3>1. PICK v \in Worker : worker[v].task = u
        BY <1>2, <1>6, <2>2 DEF RunnersInv, Attended
      <3>2. v # w
        BY <1>2, <1>6, <2>2, <3>1, WorkerAssumption DEF Idle
      <3> QED BY <1>5, <3>1, <3>2
    <2> QED BY <2>1, <2>2
  <1>13. WorkersTypeOK' /\ DownIdle'
    BY <1>2, <1>5 DEF LeaseNext, RunnersInv, WorkersTypeOK, DownIdle, Up
  <1> QED BY <1>8, <1>10, <1>11, <1>12, <1>13 DEF RunnersNext

\* The clock: a thread's silence grows with that of its task.
LEMMA TickRun ==
  ASSUME RunnersInv, TypeOK', TickWorkers
  PROVE  RunnersNext
  <1>1. active \subseteq Task /\ queued \subseteq Task /\ active' = active /\ queued' = queued
    BY DEF RunnersInv, TypeOK, TickWorkers, Tick
  <1>2. ASSUME NEW t \in active \cup queued
        PROVE  /\ item'[t].done = item[t].done /\ item'[t].expects = item[t].expects
               /\ item'[t].status = item[t].status /\ item'[t].idle <= item[t].idle + 1
    <2>1. t \in Task /\ item[t] \in Item /\ item[t].idle \in 0..LeaseTicks
      BY <1>1, ItemTypes DEF RunnersInv
    <2> DEFINE lease == IF item[t].lease > 0 THEN item[t].lease - 1 ELSE 0
               retry == IF item[t].retry > 0 THEN item[t].retry - 1 ELSE 0
               idle == IF t \in active /\ item[t].idle < LeaseTicks THEN item[t].idle + 1 ELSE item[t].idle
    <2>2. item'[t] = [item[t] EXCEPT !.lease = lease, !.retry = retry, !.idle = idle]
      BY <2>1 DEF TickWorkers, Tick
    <2>3. idle <= item[t].idle + 1
      BY <2>1, Bounds
    <2> HIDE DEF lease, retry, idle
    <2> QED BY <2>1, <2>2, <2>3 DEF Item
  <1>3. NoneWaits'
    BY <1>1, <1>2 DEF NoneWaits, RunnersInv
  <1>4. ASSUME NEW w \in Worker
        PROVE  /\ worker'[w] \in Job /\ worker'[w].task = worker[w].task
               /\ HolderOK(worker[w])'
    <2>1. worker[w] \in Job /\ HolderOK(worker[w])
      BY DEF RunnersInv, WorkersTypeOK, HoldersOK
    <2>2. CASE worker[w].at = "idle"
      <3>1. worker[w] = Idle /\ worker'[w] = Idle
        BY <2>1, <2>2 DEF HolderOK, TickWorkers
      <3>2. Nobody \notin active'
        BY <1>1, WorkerAssumption
      <3> QED BY <3>1, <3>2, IdleType DEF HolderOK, Idle
    <2>3. CASE worker[w].at # "idle"
      <3>1. worker'[w] = [worker[w] EXCEPT !.age = worker[w].age + 1] /\ worker[w].age < IdleTicks
        BY <2>3 DEF TickWorkers
      <3>2. worker[w].age \in 0..IdleTicks /\ worker[w].age + 1 \in 0..IdleTicks
        BY <2>1, <3>1, WorkerAssumption DEF Job
      <3>3. /\ worker'[w] \in Job /\ worker'[w].task = worker[w].task
            /\ worker'[w].at = worker[w].at /\ worker'[w].gone = worker[w].gone
            /\ worker'[w].age = worker[w].age + 1
        BY <2>1, <3>1, <3>2 DEF Job
      <3>4. worker[w].task \in active => item'[worker[w].task].idle <= worker'[w].age
        <4> SUFFICES ASSUME worker[w].task \in active
                     PROVE  item'[worker[w].task].idle <= worker'[w].age
          OBVIOUS
        <4>1. item'[worker[w].task].idle <= item[worker[w].task].idle + 1
          BY <1>2
        <4>2. item[worker[w].task].idle <= worker[w].age
          BY <2>1 DEF HolderOK
        <4>3. item[worker[w].task].idle \in 0..LeaseTicks /\ item'[worker[w].task].idle \in 0..LeaseTicks
          BY <1>1, ItemTypes, AgesAfter DEF RunnersInv
        <4> QED BY <3>2, <3>3, <4>1, <4>2, <4>3, Bounds, WorkerAssumption
      <3>5. worker[w].task \in active => item'[worker[w].task].done = item[worker[w].task].done
        BY <1>2
      <3> QED BY <1>1, <2>1, <2>3, <3>3, <3>4, <3>5 DEF HolderOK
    <2> QED BY <2>2, <2>3
  <1>5. Separate' /\ Attended'
    <2>1. \A w \in Worker : worker'[w].task = worker[w].task
      BY <1>4
    <2>2. boot' = boot
      BY DEF TickWorkers
    <2>3. Separate'
      BY <2>1 DEF Separate, RunnersInv
    <2> QED BY <1>1, <2>1, <2>2, <2>3 DEF Attended, Up, RunnersInv
  <1>6. WorkersTypeOK'
    <2>1. worker' = [w \in Worker |-> worker'[w]]
      BY DEF TickWorkers
    <2>2. worker' \in [Worker -> Job]
      BY <1>4, <2>1
    <2> QED BY <2>2 DEF TickWorkers, RunnersInv, WorkersTypeOK
  <1>7. DownIdle'
    <2> SUFFICES ASSUME boot # "up", NEW w \in Worker PROVE worker'[w] = Idle
      BY <1>1 DEF DownIdle, TickWorkers, RunnersInv, Up
    <2>1. worker[w] = Idle
      BY DEF RunnersInv, DownIdle, Up
    <2> QED BY <2>1 DEF TickWorkers, Idle
  <1>8. HoldersOK'
    BY <1>4 DEF HoldersOK
  <1> QED BY <1>3, <1>5, <1>6, <1>7, <1>8 DEF RunnersNext

\* Others work on the queue while the threads stay where they are.
LEMMA BesidesRun ==
  ASSUME RunnersInv, TypeOK', UNCHANGED <<worker, boot>>,
         gate' \in {"open", "closed", "checking"}, helper' \in {"none", "verify", "recover"},
         left' \in 0..Disturbances,
         active' \subseteq active, NoneWaits', Up => Quiet
  PROVE  RunnersNext
  <1>1. HoldersOK'
    <2> SUFFICES ASSUME NEW w \in Worker PROVE HolderOK(worker[w])'
      BY DEF HoldersOK
    <2>1. CASE Up /\ worker[w].task # Nobody
      BY <2>1, OthersHold DEF Quiet
    <2>2. CASE worker[w].task = Nobody
      <3>1. worker[w] = Idle /\ Nobody \notin active'
        BY <2>2, WorkerAssumption DEF RunnersInv, HoldersOK, HolderOK, TypeOK
      <3> QED BY <3>1 DEF HolderOK, Idle
    <2>3. CASE ~ Up
      BY <2>2, <2>3 DEF RunnersInv, DownIdle, Idle
    <2> QED BY <2>1, <2>2, <2>3
  <1>2. WorkersTypeOK' /\ Separate' /\ Attended' /\ DownIdle'
    BY DEF WorkersTypeOK, Separate, Attended, DownIdle, Up, RunnersInv
  <1> QED BY <1>1, <1>2 DEF RunnersNext

LEMMA QuietBesides ==
  ASSUME RunnersInv, TypeOK', Quiet, UNCHANGED <<worker, boot>>,
         gate' \in {"open", "closed", "checking"}, helper' \in {"none", "verify", "recover"},
         left' \in 0..Disturbances
  PROVE  RunnersNext
  BY BesidesRun, QuietWaits DEF Quiet

LEMMA SomebodyRun ==
  ASSUME RunnersInv, TypeOK', IdleTicks < LeaseTicks,
         \/ \E t \in Task, scope \in SUBSET Instance : Submit(t, scope)
         \/ Maintain \/ ResumeConfirmed \/ Verified \/ LoginFound \/ HelperStep \/ AccountTested
  PROVE  RunnersNext
  <1>0. /\ gate \in {"open", "closed", "checking"} /\ helper \in {"none", "verify", "recover"}
        /\ left \in 0..Disturbances
    BY DEF RunnersInv, WorkersTypeOK
  <1>1. ASSUME NEW t \in Task, NEW scope \in SUBSET Instance, Submit(t, scope) PROVE RunnersNext
    BY <1>0, <1>1, QuietEnqueue, QuietBesides DEF Submit, managerVars
  <1>2. CASE Maintain
    <2>1. UNCHANGED <<worker, boot, gate, helper, left>>
      BY <1>2 DEF Maintain, managerVars
    <2>2. CASE RepairLists \/ RefreshLeases
      BY <1>0, <2>1, <2>2, QuietMaintenance, QuietBesides
    <2>3. CASE Repair
      BY <1>0, <2>1, <2>3, RepairRuns, BesidesRun
    <2> QED BY <1>2, <2>2, <2>3 DEF Maintain
  <1>3. CASE ResumeConfirmed
    <2> DEFINE first == FirstOf({t \in Resumable : item[t].note = "fixed"})
    <2>1. Resume(first, FALSE) /\ first \in SUBSET Task
      BY <1>3 DEF ResumeConfirmed, RunnersInv, TypeOK, FirstOf, Resumable
    <2> HIDE DEF first
    <2>2. Quiet
      BY <2>1, QuietQueued
    <2> QED BY <1>0, <1>3, <2>2, QuietBesides DEF ResumeConfirmed, managerVars
  <1>4. CASE Verified \/ LoginFound \/ AccountTested
    <2>1. UNCHANGED vars /\ UNCHANGED <<worker, boot>>
      BY <1>4 DEF Verified, LoginFound, AccountTested
    <2>2. /\ gate' \in {"open", "closed", "checking"} /\ helper' \in {"none", "verify", "recover"}
          /\ left' \in 0..Disturbances
      BY <1>0, <1>4, WorkerAssumption DEF Verified, LoginFound, AccountTested, Disturb
    <2> QED BY <2>1, <2>2, QuietNothing, QuietBesides
  <1>5. CASE HelperStep
    <2>1. UNCHANGED <<worker, boot, gate, left>> /\ helper' = "none"
      BY <1>5 DEF HelperStep, HelperResumes, HelperFindsNothing, HelperRetries
    <2>2. Quiet
      <3>1. CASE HelperResumes
        BY <3>1, QuietResumeOne DEF HelperResumes
      <3>2. CASE HelperFindsNothing
        BY <3>2, QuietNothing DEF HelperFindsNothing
      <3>3. ASSUME NEW t \in Task, HelperRetries(t) PROVE Quiet
        BY <3>3, QuietQueued, QuietEnqueue DEF HelperRetries
      <3> QED BY <1>5, <3>1, <3>2, <3>3 DEF HelperStep
    <2> QED BY <1>0, <2>1, <2>2, QuietBesides
  <1> QED BY <1>1, <1>2, <1>3, <1>4, <1>5

\* The process dies and comes back.
LEMMA DownKeeps ==
  ASSUME RunnersInv, TypeOK', NoneWaits', active' \subseteq active, ~ Up \/ ~ Up',
         worker' = [w \in Worker |-> Idle], boot' \in {"down", "recovering", "up"},
         boot' # "down" => active' = {},
         gate' = gate, helper' \in {helper, "none"}, left' \in 0..Disturbances
  PROVE  RunnersNext
  <1>1. Nobody \notin active'
    BY WorkerAssumption DEF TypeOK
  <1>2. HoldersOK' /\ Separate' /\ Attended' /\ DownIdle'
    BY <1>1 DEF HoldersOK, HolderOK, Separate, Attended, DownIdle, Up, Idle
  <1>3. WorkersTypeOK'
    BY IdleType DEF WorkersTypeOK, RunnersInv
  <1> QED BY <1>2, <1>3 DEF RunnersNext

LEMMA RestartRun ==
  ASSUME RunnersInv, TypeOK', IdleTicks < LeaseTicks, Crash \/ Recover \/ RepairAtStart
  PROVE  RunnersNext
  <1>0. worker = [w \in Worker |-> worker[w]] /\ left \in 0..Disturbances
    BY DEF RunnersInv, WorkersTypeOK
  <1>1. CASE Crash
    <2>1. Quiet /\ left' \in 0..Disturbances
      BY <1>0, <1>1, QuietNothing, WorkerAssumption DEF Crash, Disturb
    <2>2. /\ worker' = [w \in Worker |-> Idle] /\ boot' = "down"
          /\ gate' = gate /\ helper' \in {helper, "none"}
      BY <1>1 DEF Crash
    <2> QED BY <2>1, <2>2, QuietWaits, DownKeeps DEF Up, Quiet
  <1>2. CASE Recover
    <2>1. ~ Up /\ worker = [w \in Worker |-> Idle] /\ boot' = "recovering"
      BY <1>0, <1>2 DEF Recover, Up, RunnersInv, DownIdle
    <2>2. active' = {} /\ NoneWaits'
      BY <1>2, RecoverRuns DEF Recover
    <2> QED BY <1>0, <1>2, <2>1, <2>2, DownKeeps DEF Recover
  <1>3. CASE RepairAtStart
    <2>1. /\ ~ Up /\ worker = [w \in Worker |-> Idle] /\ boot' = "up" /\ active = {}
      BY <1>0, <1>3 DEF RepairAtStart, Up, RunnersInv, DownIdle
    <2>2. active' \subseteq active /\ NoneWaits'
      BY <1>3, RepairRuns, QuietNothing, QuietWaits DEF RepairAtStart, IfAny, Quiet
    <2> QED BY <1>0, <1>3, <2>1, <2>2, DownKeeps DEF RepairAtStart
  <1> QED BY <1>1, <1>2, <1>3

LEMMA RunnersStep ==
  ASSUME RunnersInv, IdleTicks < LeaseTicks, [WorkersNext]_allVars
  PROVE  RunnersInv'
  <1>1. TypeOK' /\ ListsDisjoint'
    <2>1. [Next]_vars
      BY QueueStep DEF RunnersInv
    <2> QED BY <2>1, StepType, StepDisjoint DEF RunnersInv, vars, TypeOK, ListsDisjoint, Live
  <1>2. ASSUME NEW w \in Worker, LeaseNext(w) \/ RunStep(w) \/ EndStep(w) PROVE RunnersNext
    <2>1. CASE RunStep(w)
      BY <1>1, <2>1, HearsRun, EndsRun, EndMovesRun, NotFoundRun DEF RunStep
    <2>2. CASE EndStep(w)
      BY <1>1, <2>2, EndMovesRun, EndsRun DEF EndStep
    <2> QED BY <1>1, <1>2, <2>1, <2>2, LeaseRun
  <1>3. ASSUME UNCHANGED allVars PROVE RunnersNext
    <2>1. Quiet
      BY <1>3, QuietNothing DEF allVars, vars
    <2>2. UNCHANGED <<worker, boot, gate, helper, left>>
      BY <1>3 DEF allVars, managerVars
    <2>3. /\ gate' \in {"open", "closed", "checking"} /\ helper' \in {"none", "verify", "recover"}
          /\ left' \in 0..Disturbances
      BY <2>2 DEF RunnersInv, WorkersTypeOK
    <2> QED BY <1>1, <2>1, <2>2, <2>3, QuietBesides
  <1>4. WorkersNext => RunnersNext
    BY <1>1, <1>2, SomebodyRun, RestartRun, TickRun DEF WorkersNext
  <1>5. RunnersNext
    BY <1>3, <1>4
  <1>6. RunnersNext <=> /\ WorkersTypeOK' /\ NoneWaits' /\ HoldersOK' /\ Separate'
                        /\ Attended' /\ DownIdle'
    BY DEF RunnersNext
  <1> QED BY <1>1, <1>5, <1>6 DEF RunnersInv

LEMMA RunnersStart == WorkersInit => RunnersInv
  <1> SUFFICES ASSUME WorkersInit PROVE RunnersInv
    OBVIOUS
  <1>1. TypeOK /\ active = {} /\ queued = {} /\ failures = {}
    BY InitType DEF WorkersInit, Init
  <1>2. WorkersTypeOK
    BY IdleType, WorkerAssumption DEF WorkersInit, WorkersTypeOK
  <1>3. \A w \in Worker : worker[w] = Idle
    BY DEF WorkersInit
  <1>4. HoldersOK
    <2> SUFFICES ASSUME NEW w \in Worker PROVE HolderOK(worker[w])
      BY DEF HoldersOK
    <2>1. worker[w] = Idle /\ Idle.at = "idle"
      BY <1>3 DEF Idle
    <2> QED BY <1>1, <2>1 DEF HolderOK
  <1>5. Separate
    BY <1>3 DEF Separate, Idle
  <1> QED BY <1>1, <1>2, <1>3, <1>4, <1>5
          DEF RunnersInv, ListsDisjoint, NoneWaits, Attended, DownIdle, WorkersInit, Live

LEMMA RunnersAlways ==
  ASSUME IdleTicks < LeaseTicks
  PROVE  WorkersSpec => []RunnersInv
  <1>1. RunnersInv /\ [WorkersNext]_allVars => RunnersInv'
    BY RunnersStep
  <1> QED BY <1>1, RunnersStart, PTL DEF WorkersSpec

\* Every variable of the manager keeps its type.
THEOREM WorkersTypeCorrect ==
  ASSUME IdleTicks < LeaseTicks
  PROVE  WorkersSpec => []WorkersTypeOK
  <1>1. RunnersInv => WorkersTypeOK
    BY DEF RunnersInv
  <1> QED BY <1>1, RunnersAlways, PTL

(***************************************************************************)
(* When a silent pipeline is killed before the lease of its task is past,  *)
(* no task ever has two runners and none is left without one, whatever     *)
(* number of threads there is and wherever the process dies.               *)
(***************************************************************************)
THEOREM NoTaskRunsTwice ==
  ASSUME IdleTicks < LeaseTicks
  PROVE  WorkersSpec => []OneRunner
  <1>1. RunnersInv => OneRunner
    BY DEF RunnersInv, HoldersOK, HolderOK, Separate, OneRunner
  <1> QED BY <1>1, RunnersAlways, PTL
=============================================================================
