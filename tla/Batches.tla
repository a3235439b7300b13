------------------------------ MODULE Batches ------------------------------
(***************************************************************************)
(* Batches (app/services/archive_worker.py): the archive of everything an  *)
(* author uploaded.  A parent task scans the source, enqueues a child task *)
(* for each model that is neither in the queue nor archived, writes down   *)
(* which children it expects, and waits.  Every worker thread, before it   *)
(* leases a task, refreshes the waiting parents, one thread at a time: it  *)
(* restores parents, merges parents of one source, and for each expected   *)
(* child counts it, puts it back in the queue or gives it up; a parent     *)
(* with no child left is completed.                                        *)
(*                                                                         *)
(* The queue is the one of ArchiveQueue, reduced to what batches see: for  *)
(* every model the place of its archive task, and the parents.  Leases,    *)
(* retries of a run, the 3MF stage and the order of leases are there and   *)
(* in ArchiveWorkers.  All parents are of one source.                      *)
(***************************************************************************)
EXTENDS Naturals, FiniteSets

CONSTANTS
    BatchModel,     \* the models of the source
    Parent,         \* ids of batch tasks
    Thread,         \* worker threads
    Lost,           \* MAX_BATCH_CHILD_REQUEUE_ATTEMPTS
    Passing,        \* MAX_BATCH_CHILD_TRANSIENT_REQUEUE_ATTEMPTS
    Upsets          \* a bound: crashes, exceptions and failures a user clears

ASSUME BatchAssumption == Lost \in Nat \ {0} /\ Passing \in Nat /\ Lost <= Passing /\ Upsets \in Nat

VARIABLES
    jobs,       \* archive_queue: place, owner and failure of each model, and the parents
    archived,   \* models in the archive's index
    threadAt,   \* what each thread is doing, and with what it read
    view,       \* what the refreshing thread has read: it holds _batch_refresh_lock
    upsets,     \* upsets left
    overwritten \* a merge saved over a queue that had changed since it was loaded

batchVars == <<jobs, archived, threadAt, view, upsets, overwritten>>

NoParent == "no parent"
NoTask == "no task"
Verdicts == {"none", "running", "queued", "failed", "archived", "again", "lost"}
BatchJobs == [place  : [BatchModel -> {"out", "queued", "active"}],
              owner  : [BatchModel -> Parent \cup {NoParent}],     \* batch_parent_id
              failed : [BatchModel -> {"no", "passing", "final"}], \* recent_failures
              at     : [Parent -> {"new", "queued", "active", "failed", "done", "merged"}],
              tries  : [Parent -> [BatchModel -> 0..Passing]],     \* batch_expected_items; 0: not expected
              passed : [Parent -> SUBSET BatchModel]]              \* last failure was a passing one

EmptyJobs == [place  |-> [k \in BatchModel |-> "out"],
              owner  |-> [k \in BatchModel |-> NoParent],
              failed |-> [k \in BatchModel |-> "no"],
              at     |-> [p \in Parent |-> "new"],
              tries  |-> [p \in Parent |-> [k \in BatchModel |-> 0]],
              passed |-> [p \in Parent |-> {}]]
Unread == [jobs |-> EmptyJobs, verdict |-> [p \in Parent |-> [k \in BatchModel |-> "none"]]]
Off == [at |-> "off", task |-> NoTask, models |-> {}]
Loop == [Off EXCEPT !.at = "loop"]

Expected(q, p) == {k \in BatchModel : q.tries[p][k] > 0}
Pending(q) == {k \in BatchModel : q.place[k] # "out"}
Waiting(q) == {p \in Parent : q.at[p] = "active" /\ Expected(q, p) # {}}
AnyQueued == (\E k \in BatchModel : jobs.place[k] = "queued") \/ (\E p \in Parent : jobs.at[p] = "queued")

BatchesInit ==
    /\ jobs = EmptyJobs
    /\ archived \in SUBSET BatchModel
    /\ threadAt = [w \in Thread |-> Off]
    /\ view = Unread
    /\ upsets = Upsets /\ overwritten = FALSE

OnlyJobs(q) == jobs' = q /\ UNCHANGED <<archived, view, upsets, overwritten>>
ThreadIs(w, place) == threadAt[w].at = place
ThreadGoes(w, place) == threadAt' = [threadAt EXCEPT ![w].at = place]
Upset == upsets > 0 /\ upsets' = upsets - 1

-----------------------------------------------------------------------------
\* _submit_batch and submit_discovered_batch: a source that is in the queue is
\* not enqueued again.
SubmitBatch(p) ==
    /\ jobs.at[p] = "new"
    /\ \A other \in Parent : jobs.at[other] \notin {"queued", "active"}
    /\ OnlyJobs([jobs EXCEPT !.at[p] = "queued"])
    /\ UNCHANGED threadAt

\* ensure_worker_for_pending starts the threads that are not there when
\* something is queued.
StartThread(w) ==
    /\ ThreadIs(w, "off") /\ AnyQueued
    /\ threadAt' = [threadAt EXCEPT ![w] = Loop]
    /\ UNCHANGED <<jobs, archived, view, upsets, overwritten>>

-----------------------------------------------------------------------------
(***************************************************************************)
(* _refresh_batch_tasks_locked, under _batch_refresh_lock.                 *)
(***************************************************************************)
RefreshPlaces == {"orphans", "merge", "save", "snapshot", "judge", "apply"}
RestoreQueued(w) ==
    /\ ThreadIs(w, "loop") /\ \A v \in Thread : threadAt[v].at \notin RefreshPlaces
    /\ OnlyJobs([jobs EXCEPT !.at = [p \in Parent |->
           IF @[p] = "queued" /\ Expected(jobs, p) # {} THEN "active" ELSE @[p]]])
    /\ ThreadGoes(w, "orphans")

\* A parent that is gone while a child of it is in the queue comes back, and
\* expects its children in the queue and among the failures, as if new.
Orphaned(q) ==
    {p \in Parent : /\ q.at[p] \notin {"queued", "active"}
                    /\ \E k \in Pending(q) : q.owner[k] = p}
Children(q, p) == {k \in BatchModel : q.owner[k] = p /\ (k \in Pending(q) \/ q.failed[k] # "no")}
RestoreOrphaned(w) ==
    /\ ThreadIs(w, "orphans") /\ ThreadGoes(w, "merge")
    /\ LET back == Orphaned(jobs)
       IN OnlyJobs([jobs EXCEPT
              !.at = [p \in Parent |-> IF p \in back THEN "active" ELSE @[p]],
              !.tries = [p \in Parent |-> IF p \notin back THEN @[p]
                         ELSE [k \in BatchModel |-> IF k \in Children(jobs, p) THEN 1 ELSE 0]],
              !.passed = [p \in Parent |-> IF p \notin back THEN @[p]
                          ELSE {k \in Children(jobs, p) : jobs.failed[k] = "passing"}]])

(***************************************************************************)
(* _merge_duplicate_batch_parents: one parent of the source is kept, and   *)
(* takes over what the others expect and their children.  It loads the     *)
(* queue, and saves it whole, outside the store's transaction.             *)
(***************************************************************************)
Tracking(q) == {p \in Parent : q.at[p] \in {"active", "queued", "failed"} /\ Expected(q, p) # {}}
Foremost(q) ==
    LET in(place) == {p \in Tracking(q) : q.at[p] = place}
    IN IF in("active") # {} THEN in("active")
       ELSE IF in("queued") # {} THEN in("queued") ELSE in("failed")
Merged(q, kept) ==
    LET gone == Tracking(q) \ {kept}
        moved == {k \in BatchModel : q.owner[k] \notin {kept, NoParent} /\ (k \in Pending(q) \/ q.failed[k] # "no")}
        theirs == UNION {Expected(q, p) : p \in gone}
        some(k) == CHOOSE p \in gone : k \in Expected(q, p)
    IN [q EXCEPT
           !.at = [p \in Parent |-> IF p \in gone THEN "merged" ELSE @[p]],
           !.owner = [k \in BatchModel |-> IF k \in moved THEN kept ELSE @[k]],
           !.tries = [p \in Parent |->
               IF p \in gone THEN [k \in BatchModel |-> 0]
               ELSE IF p # kept THEN @[p]
               ELSE [k \in BatchModel |-> IF k \in moved THEN 1
                                          ELSE IF k \in theirs THEN q.tries[some(k)][k] ELSE @[p][k]]],
           !.passed = [p \in Parent |->
               IF p \in gone THEN {}
               ELSE IF p # kept THEN @[p]
               ELSE {k \in BatchModel : IF k \in moved THEN q.failed[k] = "passing"
                                        ELSE IF k \in theirs THEN k \in q.passed[some(k)] ELSE k \in @[p]}]]

LoadForMerge(w) ==
    /\ ThreadIs(w, "merge")
    /\ IF Cardinality(Tracking(jobs)) > 1
       THEN view' = [view EXCEPT !.jobs = jobs] /\ ThreadGoes(w, "save")
       ELSE ThreadGoes(w, "snapshot") /\ UNCHANGED view
    /\ UNCHANGED <<jobs, archived, upsets, overwritten>>
SaveMerged(w) ==
    /\ ThreadIs(w, "save") /\ ThreadGoes(w, "snapshot")
    /\ \E kept \in Foremost(view.jobs) : jobs' = Merged(view.jobs, kept)
    /\ overwritten' = (overwritten \/ jobs # view.jobs)
    /\ view' = Unread
    /\ UNCHANGED <<archived, upsets>>

\* The queue is read before the archive's index, so that a child that ends in
\* between is seen in one of them.
Snapshot(w) ==
    /\ ThreadIs(w, "snapshot")
    /\ IF Waiting(jobs) = {}
       THEN ThreadGoes(w, "lease") /\ UNCHANGED view
       ELSE ThreadGoes(w, "judge") /\ view' = [view EXCEPT !.jobs = jobs]
    /\ UNCHANGED <<jobs, archived, upsets, overwritten>>

ArchivedFirst(q, p, k) ==                                           \* mutant
    IF q.tries[p][k] = 0 THEN "none" ELSE IF k \in archived THEN "archived"
    ELSE IF q.place[k] = "active" THEN "running" ELSE IF q.place[k] = "queued" THEN "queued" ELSE "failed"
Verdict(q, p, k) ==
    LET tries == q.tries[p][k]
        passing == IF q.failed[k] # "no" /\ k \notin archived THEN q.failed[k] = "passing" ELSE k \in q.passed[p]
    IN CASE tries = 0 -> "none"
         [] tries > 0 /\ q.place[k] = "active" -> "running"
         [] tries > 0 /\ q.place[k] = "queued" -> "queued"
         [] tries > 0 /\ q.place[k] = "out" /\ q.failed[k] # "no" /\ k \notin archived ->
                IF passing /\ tries < Passing THEN "again" ELSE "failed"
         [] tries > 0 /\ q.place[k] = "out" /\ k \in archived -> "archived"
         [] OTHER -> IF tries < Lost THEN "lost"
                     ELSE IF passing /\ tries < Passing THEN "again" ELSE "failed"

Judge(w) ==
    /\ ThreadIs(w, "judge") /\ ThreadGoes(w, "apply")
    /\ LET q == view.jobs
       IN view' = [jobs |-> [EmptyJobs EXCEPT
                        !.at = [p \in Parent |-> IF p \in Waiting(q) THEN "active" ELSE "new"],
                        !.tries = [p \in Parent |-> IF p \in Waiting(q) THEN q.tries[p] ELSE EmptyJobs.tries[p]],
                        !.passed = [p \in Parent |-> IF p \notin Waiting(q) THEN {} ELSE
                            {k \in Expected(q, p) : IF q.place[k] = "out" /\ q.failed[k] # "no" /\ k \notin archived
                                                    THEN q.failed[k] = "passing" ELSE k \in q.passed[p]}]],
                   verdict |-> [p \in Parent |-> [k \in BatchModel |->
                        IF p \in Waiting(q) THEN Verdict(q, p, k) ELSE "none"]]]
    /\ UNCHANGED <<jobs, archived, upsets, overwritten>>
(***************************************************************************)
(* The parents of the snapshot in turn: _requeue_batch_child for the       *)
(* children that are to run again (a passing failure is removed first; a   *)
(* task for the model that came meanwhile is kept), then the parent is     *)
(* completed or its expectations are stored.                               *)
(***************************************************************************)
ToJudge == {p \in Parent : view.jobs.at[p] = "active"}
Turn == CHOOSE p \in ToJudge : TRUE
ToRequeue(p) == {k \in BatchModel : view.verdict[p][k] \in {"again", "lost"}}
Uncounted(p, k) == view.jobs.tries[p][k]                            \* mutant
Counted(p, k) == view.jobs.tries[p][k] + 1
PutBack(k) == [p \in Parent |-> [view.verdict[p] EXCEPT ![k] = IF @ \in {"again", "lost"} THEN "queued" ELSE @]]
RequeueChild(w) ==
    /\ ThreadIs(w, "apply") /\ ToJudge # {} /\ ToRequeue(Turn) # {}
    /\ LET p == Turn
           k == CHOOSE k \in ToRequeue(p) : TRUE
           again == view.verdict[p][k] = "again"
       IN /\ jobs' = [jobs EXCEPT
                 !.failed[k] = IF again THEN "no" ELSE @,
                 !.place[k] = IF @ = "out" THEN "queued" ELSE @,
                 !.owner[k] = IF jobs.place[k] = "out" THEN p ELSE @]
          /\ view' = [view EXCEPT !.jobs.tries[p][k] = Counted(p, k), !.verdict = PutBack(k)]
    /\ UNCHANGED <<archived, threadAt, upsets, overwritten>>

AllEnded(p) == \A k \in Expected(view.jobs, p) : view.verdict[p][k] \in {"archived", "failed"}
StoreParent(w) ==
    /\ ThreadIs(w, "apply") /\ ToJudge # {} /\ ToRequeue(Turn) = {}
    /\ LET p == Turn
       IN /\ jobs' = IF jobs.at[p] # "active" THEN jobs
                     ELSE IF AllEnded(p)
                     THEN [jobs EXCEPT !.at[p] = "done", !.tries[p] = EmptyJobs.tries[p], !.passed[p] = {}]
                     ELSE [jobs EXCEPT !.tries[p] = view.jobs.tries[p], !.passed[p] = view.jobs.passed[p]]
          /\ view' = [view EXCEPT !.jobs.at[p] = "new", !.jobs.tries[p] = EmptyJobs.tries[p],
                                  !.jobs.passed[p] = {}, !.verdict[p] = Unread.verdict[p]]
    /\ IF ToJudge = {Turn} THEN ThreadGoes(w, "polling") ELSE UNCHANGED threadAt
    /\ UNCHANGED <<archived, upsets, overwritten>>

-----------------------------------------------------------------------------
\* _run_loop: with a batch that waits the thread goes on polling, otherwise it
\* ends when there is nothing to lease.
LeaseChild(w, k) ==
    /\ threadAt[w].at \in {"lease", "polling"} /\ jobs.place[k] = "queued"
    /\ OnlyJobs([jobs EXCEPT !.place[k] = "active"])
    /\ threadAt' = [threadAt EXCEPT ![w] = [at |-> "child", task |-> k, models |-> {}]]
LeaseParent(w, p) ==
    /\ threadAt[w].at \in {"lease", "polling"} /\ jobs.at[p] = "queued" /\ Expected(jobs, p) = {}
    /\ OnlyJobs([jobs EXCEPT !.at[p] = "active"])
    /\ threadAt' = [threadAt EXCEPT ![w] = [at |-> "scan", task |-> p, models |-> {}]]
LeaseNothing(w) ==
    /\ threadAt[w].at \in {"lease", "polling"}
    /\ \A k \in BatchModel : jobs.place[k] # "queued"
    /\ ~ \E p \in Parent : jobs.at[p] = "queued" /\ Expected(jobs, p) = {}
    /\ threadAt' = [threadAt EXCEPT ![w] = IF ThreadIs(w, "polling") THEN Loop ELSE Off]
    /\ UNCHANGED <<jobs, archived, view, upsets, overwritten>>

\* The run of a child: the index has the model before the task is completed.
ChildArchives(w) ==
    /\ ThreadIs(w, "child") /\ ThreadGoes(w, "archived")
    /\ archived' = archived \cup {threadAt[w].task}
    /\ UNCHANGED <<jobs, view, upsets, overwritten>>
ChildCompletes(w) ==
    /\ ThreadIs(w, "archived")
    /\ LET k == threadAt[w].task
       IN OnlyJobs([jobs EXCEPT !.failed[k] = "no", !.place[k] = IF @ = "active" THEN "out" ELSE @])
    /\ threadAt' = [threadAt EXCEPT ![w] = Loop]
ChildFails(w) ==
    /\ ThreadIs(w, "child")
    /\ LET k == threadAt[w].task
       IN \E kind \in {"passing", "final"} : OnlyJobs([jobs EXCEPT !.failed[k] = kind, !.place[k] = "out"])
    /\ threadAt' = [threadAt EXCEPT ![w] = Loop]

(***************************************************************************)
(* _run_batch_task: scan, read the queue, read the index, enqueue, write   *)
(* down what is expected.                                                  *)
(***************************************************************************)
ReadPending(w) ==
    /\ ThreadIs(w, "scan")
    /\ threadAt' = [threadAt EXCEPT ![w].at = "index", ![w].models = BatchModel \ Pending(jobs)]
    /\ UNCHANGED <<jobs, archived, view, upsets, overwritten>>
ReadIndex(w) ==
    /\ ThreadIs(w, "index")
    /\ threadAt' = [threadAt EXCEPT ![w].at = "enqueue", ![w].models = @ \ archived]
    /\ UNCHANGED <<jobs, archived, view, upsets, overwritten>>
EnqueueChildren(w) ==
    /\ ThreadIs(w, "enqueue")
    /\ LET new == threadAt[w].models \ Pending(jobs)
       IN /\ OnlyJobs([jobs EXCEPT
                 !.place = [k \in BatchModel |-> IF k \in new THEN "queued" ELSE @[k]],
                 !.owner = [k \in BatchModel |-> IF k \in new THEN threadAt[w].task ELSE @[k]]])
          /\ threadAt' = [threadAt EXCEPT ![w].at = "expect", ![w].models = new]
Expect(w) ==
    /\ ThreadIs(w, "expect")
    /\ LET p == threadAt[w].task  new == threadAt[w].models
       IN OnlyJobs(IF jobs.at[p] # "active" THEN jobs
                   ELSE IF new = {} THEN [jobs EXCEPT !.at[p] = "done"]
                   ELSE [jobs EXCEPT !.tries[p] = [k \in BatchModel |-> IF k \in new THEN 1 ELSE 0]])
    /\ threadAt' = [threadAt EXCEPT ![w] = Loop]

\* An exception at any point of it: the task fails, its children stay.
BatchRaises(w) ==
    /\ threadAt[w].at \in {"scan", "index", "enqueue", "expect"} /\ Upset
    /\ jobs' = [jobs EXCEPT !.at[threadAt[w].task] = IF @ \in {"queued", "active"} THEN "failed" ELSE @]
    /\ threadAt' = [threadAt EXCEPT ![w] = Loop]
    /\ UNCHANGED <<archived, view, overwritten>>

\* A user clears the list of failures.
ClearAllFailures ==
    /\ Upset
    /\ jobs' = [jobs EXCEPT !.failed = EmptyJobs.failed,
                            !.at = [p \in Parent |-> IF @[p] = "failed" THEN "done" ELSE @[p]]]
    /\ UNCHANGED <<archived, threadAt, view, overwritten>>

(***************************************************************************)
(* The worker dies, and the next one recovers the queue before it starts a *)
(* thread (requeue_active_tasks): what ran is queued again, a parent that  *)
(* waits for children goes on waiting.                                     *)
(***************************************************************************)
RestartWorker ==
    /\ Upset
    /\ threadAt' = [w \in Thread |-> Off] /\ view' = Unread
    /\ jobs' = [jobs EXCEPT
           !.place = [k \in BatchModel |-> IF @[k] = "active" THEN "queued" ELSE @[k]],
           !.at = [p \in Parent |-> IF @[p] = "active" /\ Expected(jobs, p) = {} THEN "queued" ELSE @[p]]]
    /\ UNCHANGED <<archived, overwritten>>

-----------------------------------------------------------------------------
RefreshStep(w) ==
    \/ RestoreQueued(w) \/ RestoreOrphaned(w) \/ LoadForMerge(w) \/ SaveMerged(w)
    \/ Snapshot(w) \/ Judge(w) \/ RequeueChild(w) \/ StoreParent(w)
RunStep(w) ==
    \/ \E k \in BatchModel : LeaseChild(w, k)
    \/ \E p \in Parent : LeaseParent(w, p)
    \/ LeaseNothing(w)
    \/ ChildArchives(w) \/ ChildCompletes(w) \/ ChildFails(w)
    \/ ReadPending(w) \/ ReadIndex(w) \/ EnqueueChildren(w) \/ Expect(w)
BatchesNext ==
    \/ \E p \in Parent : SubmitBatch(p)
    \/ \E w \in Thread : StartThread(w) \/ RefreshStep(w) \/ RunStep(w) \/ BatchRaises(w)
    \/ ClearAllFailures \/ RestartWorker
BatchesSpec == BatchesInit /\ [][BatchesNext]_batchVars

\* Threads are started and come on.  Which of them gets the lock that the refresh
\* is under is left open: one may wait for it for ever while the others work.
BatchesFair ==
    \A w \in Thread : /\ WF_batchVars(StartThread(w)) /\ WF_batchVars(RunStep(w))
                      /\ WF_batchVars(RefreshStep(w))
BatchesFairSpec == BatchesSpec /\ BatchesFair

-----------------------------------------------------------------------------
BatchesTypeOK ==
    /\ jobs \in BatchJobs /\ archived \subseteq BatchModel
    /\ \A w \in Thread : /\ threadAt[w].task \in BatchModel \cup Parent \cup {NoTask}
                         /\ threadAt[w].models \subseteq BatchModel
    /\ view.jobs \in BatchJobs /\ view.verdict \in [Parent -> [BatchModel -> Verdicts]]
    /\ upsets \in 0..Upsets /\ overwritten \in BOOLEAN

(***************************************************************************)
(* A batch that waits is not reported as done while a child that it waits  *)
(* for is in the queue, although the queue, the failures and the index     *)
(* were read one after the other while threads, users and other batches    *)
(* went on: but for a queue that a merge overwrote, which may put a parent *)
(* back in the queue while a thread runs it.                               *)
(***************************************************************************)
HonestEnd ==
    [][\A p \in Parent :
          p \in Waiting(jobs) /\ jobs'.at[p] = "done" /\ ~ overwritten'
             => \A k \in Expected(jobs, p) \cap Pending(jobs) : jobs.owner[k] # p]_batchVars

(***************************************************************************)
(* Every batch that was submitted ends, whatever fails, is retried, or is  *)
(* restored and merged: but for a queue that a merge overwrote, and for a  *)
(* worker that starts with waiting parents and nothing in the queue, in    *)
(* which no thread is started.                                             *)
(***************************************************************************)
Asleep == ~ AnyQueued /\ \A w \in Thread : ThreadIs(w, "off")
InQueue(p) == jobs.at[p] \in {"queued", "active"}
BatchEnds == \A p \in Parent : []<>(~ InQueue(p) \/ overwritten \/ Asleep)
=============================================================================
