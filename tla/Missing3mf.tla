----------------------------- MODULE Missing3mf -----------------------------
(***************************************************************************)
(* The list of the 3MF files that the archive lacks (archive_worker.py,    *)
(* task_state.py, remote_refresh.py): runs and source refreshes write it,  *)
(* a user, a confirmed login and an idle worker retry what is on it.       *)
(*                                                                         *)
(* The list, the queue and the guard of the sites' own limits are three    *)
(* documents: a retry is a mark on the list, a task in the queue and a     *)
(* second mark, and the end of a run writes each of them in turn.  How the *)
(* queue merges requests and how a gate tells an isolated refusal from a   *)
(* blocked account is in ArchiveQueue and ArchiveWorkers; here a model has *)
(* one task, and no thread starts a task whose last run has not ended.     *)
(* Deleted models, crowdfunding and missing cookies are left out, and the  *)
(* idle worker may come back at once, where the code waits 15 minutes.     *)
(***************************************************************************)
EXTENDS FiniteSets, Naturals

CONSTANTS
    Lacking, OfCn,      \* the models, those of the site cn; the others are of global
    Spot,               \* the instances of a model
    Turns               \* a bound: sites that reach their own limit, runs that fail or
                        \* are blocked, what the user asks, and deaths of a process

ASSUME MissingAssumption ==
    /\ IsFiniteSet(Lacking) /\ OfCn \subseteq Lacking /\ IsFiniteSet(Spot)
    /\ Turns \in Nat

VARIABLES
    offered,    \* the entries that their site still has
    lacking,    \* those whose file is not in the archive
    answered,   \* those whose meta.json says not_found
    listed,     \* MISSING_3MF_PATH: the state of an entry
    tasks,      \* the 3MF task of a model in the archive queue
    run,        \* its run in the worker
    caller,     \* a retry in the API ("user") and one in the worker ("idle")
    guard,      \* THREE_MF_LIMIT_GUARD_KEY: the site it is active for
    gate,       \* three_mf_gate of a site
    spent,      \* the sites whose own limit is reached
    renewal,    \* the source refresh of a model: what it found to be lacking
    left        \* what is left of the bound

missingVars == <<offered, lacking, answered, listed, tasks, run, caller,
                 guard, gate, spent, renewal, left>>

Sites == {"cn", "global"}
SiteOf(m) == IF m \in OfCn THEN "cn" ELSE "global"
Entries == Lacking \X Spot
Of(m) == {m} \X Spot
Status == {"missing", "queued", "running", "limited", "blocked", "error", "gone"}
NotGivenUp == {"missing", "limited", "blocked", "error"}              \* mutant
\* AUTO_MISSING_3MF_RETRY_STATUSES: a mark without a task is retried too.
AutoRetried == Status \ {"gone"}
Outcomes == {"got", "limited", "blocked", "error", "gone"}

NoTask == [at |-> "no", retry |-> FALSE]
NoRun == [at |-> "no", retry |-> FALSE, skip |-> "no", guarded |-> FALSE,
          result |-> [i \in Spot |-> "none"], queue |-> [m \in Lacking |-> NoTask]]
NoCaller == [at |-> "no", model |-> CHOOSE m \in Lacking : TRUE, note |-> "queued", todo |-> {}]
NotRead == [at |-> "no", model |-> CHOOSE m \in Lacking : TRUE, found |-> {}]
Callers == {"user", "idle"}

MissingInit ==
    /\ offered \in SUBSET Entries /\ lacking \in SUBSET Entries /\ answered = {}
    /\ listed = [e \in Entries |-> IF e \in lacking THEN "missing" ELSE "off"]
    /\ tasks = [m \in Lacking |-> NoTask]
    /\ run = [m \in Lacking |-> NoRun] /\ caller = [c \in Callers |-> NoCaller]
    /\ guard = "no" /\ gate = [s \in Sites |-> "open"] /\ spent = {}
    /\ renewal = NotRead
    /\ left = Turns

Turn == left > 0 /\ left' = left - 1
World == <<offered, lacking, answered, spent>>

-----------------------------------------------------------------------------
(* The list: each is one transaction on the whole document                 *)

On(e) == listed[e] # "off"
\* update_missing_3mf_status, mark_missing_3mf_retrying, ..._platform_status.
Marked(ms, status) ==
    [e \in Entries |-> IF e[1] \in ms /\ On(e) THEN status ELSE listed[e]]
Mark(ms, status) == listed' = Marked(ms, status)
\* replace_missing_3mf_for_model.
Replace(m, kept) ==
    listed' = [e \in Entries |-> IF e[1] = m THEN kept[e[2]] ELSE listed[e]]
Unlisted == UNCHANGED listed

-----------------------------------------------------------------------------
(* The guard and the gate                                                  *)

\* _is_three_mf_limit_guard_active_for_url
Guarded(s) == guard = s
\* three_mf_gate_for_url: a daily limit ends with the guard, and the gate is opened.
GateNow(s) == IF gate[s] = "daily_limit" /\ ~ Guarded(s) THEN "open" ELSE gate[s]
GateRead(s) == gate' = [gate EXCEPT ![s] = GateNow(s)]

SiteSpends(s) ==
    /\ Turn /\ s \notin spent /\ spent' = spent \cup {s}
    /\ UNCHANGED <<offered, lacking, answered, listed, tasks, run, caller, guard, gate, renewal>>
\* The sites count anew at the latest when the guard's day is over.
DayPasses ==
    /\ spent # {} \/ guard # "no"
    /\ spent' = {} /\ guard' = "no"
    /\ UNCHANGED <<offered, lacking, answered, listed, tasks, run, caller, gate, renewal, left>>

-----------------------------------------------------------------------------
(* retry_missing_3mf, called by the user and by the idle worker            *)

Idle(c) == caller[c].at = "no" /\ caller[c].todo = {}
QueueEmpty == \A m \in Lacking : tasks[m].at = "no"
Untouched == UNCHANGED <<World, run, guard, renewal>>

Retried(m) == \E e \in Of(m) : listed[e] \in AutoRetried
\* retry_idle_missing_3mf: at most one model of a site, and only while the queue is empty.
FindIdle ==
    /\ Idle("idle") /\ QueueEmpty
    /\ LET ready == {m \in Lacking : Retried(m) /\ GateNow(SiteOf(m)) = "open"}
       IN /\ ready # {}
          /\ \E todo \in SUBSET ready :
               /\ \A s \in Sites : Cardinality({m \in todo : SiteOf(m) = s})
                                     = IF \E m \in ready : SiteOf(m) = s THEN 1 ELSE 0
               /\ caller' = [caller EXCEPT !["idle"].todo = todo]
    /\ gate' = [s \in Sites |-> GateNow(s)]
    /\ Unlisted /\ Untouched /\ UNCHANGED <<tasks, left>>

\* retry_missing_3mf of a model, or of one instance, which marks the whole model too.
AskOne(m) ==
    /\ Idle("user") /\ Turn /\ (\E e \in Of(m) : On(e))
    /\ caller' = [caller EXCEPT !["user"].todo = {m}]
    /\ Unlisted /\ Untouched /\ UNCHANGED <<tasks, gate>>
\* retry_all_missing_3mf marks what the guard stops and what is to be retried, each at once.
AskAll ==
    /\ Idle("user") /\ Turn
    /\ LET all == {m \in Lacking : \E e \in Of(m) : On(e)}
           stopped == {m \in all : Guarded(SiteOf(m))}
       IN /\ all # {}
          /\ listed' = [e \in Entries |-> IF ~ On(e) THEN "off" ELSE IF e[1] \in stopped THEN "limited" ELSE "queued"]
          /\ caller' = [caller EXCEPT !["user"].todo = all \ stopped]
    /\ Untouched /\ UNCHANGED <<tasks, gate>>
\* retry_verification_missing_3mf, after the user's login in the browser.
ConfirmLogin(s) ==
    /\ Idle("user") /\ gate[s] = "blocked" /\ Turn
    /\ LET blocked == {m \in Lacking : SiteOf(m) = s /\ \E e \in Of(m) : listed[e] = "blocked"}
       IN Mark(blocked, "queued") /\ caller' = [caller EXCEPT !["user"].todo = blocked]
    /\ gate' = [gate EXCEPT ![s] = "open"]
    /\ Untouched /\ UNCHANGED tasks

\* The guard is looked at, and the model is marked, before the queue knows of it.
MarkQueued(c) ==
    /\ caller[c].at = "no"
    /\ \E m \in caller[c].todo :
         LET rest == [caller[c] EXCEPT !.todo = @ \ {m}]
         IN IF Guarded(SiteOf(m))
            THEN Mark({m}, "limited") /\ caller' = [caller EXCEPT ![c] = rest]
            ELSE Mark({m}, "queued") /\ caller' = [caller EXCEPT ![c] = [rest EXCEPT !.at = "submit", !.model = m]]
    /\ Untouched /\ UNCHANGED <<tasks, gate, left>>
\* _submit_single looks at the guard once more; a task of the model takes the request in.
Submit(c) ==
    /\ caller[c].at = "submit"
    /\ LET m == caller[c].model
           no == Guarded(SiteOf(m))
       IN /\ tasks' = IF no \/ tasks[m].at # "no" THEN tasks
                      ELSE [tasks EXCEPT ![m] = [at |-> "queued", retry |-> TRUE]]
          /\ caller' = [caller EXCEPT ![c].at = "note", ![c].note = IF no THEN "limited" ELSE "queued"]
    /\ Unlisted /\ Untouched /\ UNCHANGED <<gate, left>>
Note(c) ==
    /\ caller[c].at = "note" /\ Mark({caller[c].model}, caller[c].note)
    /\ caller' = [caller EXCEPT ![c] = [NoCaller EXCEPT !.todo = caller[c].todo]]
    /\ Untouched /\ UNCHANGED <<tasks, gate, left>>
CallOn(c) == MarkQueued(c) \/ Submit(c) \/ Note(c)

Cancel(e) ==
    /\ Turn /\ On(e) /\ listed' = [listed EXCEPT ![e] = "off"]
    /\ Untouched /\ UNCHANGED <<tasks, caller, gate>>

-----------------------------------------------------------------------------
(* A run: _run_single_task                                                 *)

Running(m, at) == run[m].at = at
Held == UNCHANGED <<caller, renewal>>

Lease(m) ==
    /\ Running(m, "no") /\ tasks[m].at = "queued" /\ GateNow(SiteOf(m)) = "open"
    /\ tasks' = [tasks EXCEPT ![m].at = "running"] /\ GateRead(SiteOf(m))
    /\ run' = [run EXCEPT ![m] = [NoRun EXCEPT !.at = "start", !.retry = tasks[m].retry]]
    /\ Unlisted /\ Held /\ UNCHANGED <<World, guard, left>>
StartRun(m) ==
    /\ Running(m, "start")
    /\ run' = [run EXCEPT ![m].at = "ask", ![m].guarded = Guarded(SiteOf(m)),
                          ![m].skip = IF Guarded(SiteOf(m)) THEN "limited"
                                      ELSE IF GateNow(SiteOf(m)) = "open" THEN "no" ELSE "blocked"]
    /\ IF run[m].retry THEN Mark({m}, "running") ELSE Unlisted
    /\ GateRead(SiteOf(m)) /\ Held /\ UNCHANGED <<World, tasks, guard, left>>

\* What a site answers for an instance; a file that is there already counts as got.
Answer(m, i) ==
    IF <<m, i>> \notin lacking THEN {"got"}
    ELSE IF run[m].skip # "no" THEN {run[m].skip}
    ELSE IF <<m, i>> \notin offered THEN {"gone"}
    ELSE IF SiteOf(m) \in spent THEN {"limited"}
    ELSE {"got"} \cup IF left > 0 THEN {"blocked", "error"} ELSE {}
\* The job: files are in the archive and answers in meta.json when it ends, or dies.
AskSite(m) ==
    /\ Running(m, "ask")
    /\ \E result \in [Spot -> Outcomes] :
         LET slips == run[m].skip = "no" /\ \E i \in Spot : result[i] \in {"blocked", "error"}
         IN /\ \A i \in Spot : result[i] \in Answer(m, i)
            /\ lacking' = lacking \ {<<m, i>> : i \in {j \in Spot : result[j] = "got"}}
            /\ answered' = answered \cup {<<m, i>> : i \in {j \in Spot : result[j] = "gone"}}
            /\ IF slips THEN Turn ELSE UNCHANGED left
            /\ run' = [run EXCEPT ![m].at = "list", ![m].result = result]
    /\ Unlisted /\ Held /\ UNCHANGED <<offered, spent, tasks, guard, gate>>
\* Limits are guarded as they are met, then what the model lacks replaces its entries.
LeftAsAnswered(m, i) ==                                                    \* mutant
    CASE run[m].result[i] = "got" -> "off"
      [] run[m].result[i] = "gone" /\ ~ run[m].retry -> "not_found"
      [] OTHER -> run[m].result[i]
Left(m, i) ==
    CASE run[m].result[i] = "got" -> "off"
      [] run[m].result[i] = "gone" -> IF run[m].retry THEN "off" ELSE "gone"
      [] OTHER -> run[m].result[i]
Has(m, outcome) == \E i \in Spot : run[m].result[i] = outcome
ListResult(m) ==
    /\ Running(m, "list")
    /\ Replace(m, [i \in Spot |-> Left(m, i)])
    /\ guard' = IF Has(m, "limited") /\ ~ run[m].guarded THEN SiteOf(m) ELSE guard
    /\ run' = [run EXCEPT ![m].at = "gate", ![m].guarded = @ \/ Has(m, "limited")]
    /\ Held /\ UNCHANGED <<World, tasks, gate, left>>

Others(m) == {n \in Lacking : SiteOf(n) = SiteOf(m) /\ tasks[n].at = "queued"}
\* _pause_three_mf_retry_tasks_for_gate; without a task to pause no state is written.
Pause(m, state) ==
    /\ tasks' = [n \in Lacking |-> IF n \in Others(m) THEN [tasks[n] EXCEPT !.at = "paused"] ELSE tasks[n]]
    /\ IF Others(m) = {} THEN Unlisted ELSE Mark({n \in Lacking : SiteOf(n) = SiteOf(m)}, state)
ResumeOne(m) ==
    LET paused == {n \in Lacking : SiteOf(n) = SiteOf(m) /\ tasks[n].at = "paused"}
    IN IF paused = {} THEN UNCHANGED tasks ELSE \E n \in paused : tasks' = [tasks EXCEPT ![n].at = "queued"]
\* _sync_account_health_for_archive_result and what follows from it.
SyncGate(m) ==
    /\ Running(m, "gate")
    /\ run' = [run EXCEPT ![m] = [NoRun EXCEPT !.at = IF run[m].guarded THEN "limit" ELSE "complete"]]
    /\ LET s == SiteOf(m)
           asked == run[m].skip = "no"
           failures == {f \in {"limited", "blocked"} : Has(m, f)}
           all == \A i \in Spot : run[m].result[i] \in {"got", "gone"}
       IN \/ /\ failures # {} /\ asked /\ Has(m, "got")
             /\ gate' = [gate EXCEPT ![s] = "open"] /\ UNCHANGED tasks /\ Unlisted
          \/ \E f \in failures :
               \/ /\ gate' = [gate EXCEPT ![s] = IF f = "limited" THEN "daily_limit" ELSE "blocked"]
                  /\ Pause(m, f)
               \/ f = "blocked" /\ UNCHANGED <<gate, tasks>> /\ Unlisted      \* an isolated refusal
          \/ /\ failures = {} /\ all /\ run[m].retry
             /\ gate' = [gate EXCEPT ![s] = "open"] /\ ResumeOne(m) /\ Unlisted
          \/ /\ failures = {} /\ ~ (all /\ run[m].retry)
             /\ UNCHANGED <<gate, tasks>> /\ Unlisted
    /\ Held /\ UNCHANGED <<World, guard, left>>

\* _pause_missing_3mf_retry_tasks_for_limit reads the queue and writes all of it back.
LoadQueue(m) ==
    /\ Running(m, "limit")
    /\ LET out == {n \in Lacking : tasks[n].at \in {"queued", "paused"} /\ tasks[n].retry /\ SiteOf(n) = SiteOf(m)}
       IN run' = [run EXCEPT ![m].at = IF out = {} THEN "complete" ELSE "save",
                             ![m].queue = IF out = {} THEN @ ELSE [n \in Lacking |-> IF n \in out THEN NoTask ELSE tasks[n]]]
    /\ Unlisted /\ Held /\ UNCHANGED <<World, tasks, guard, gate, left>>
SaveQueue(m) ==
    /\ Running(m, "save")
    /\ tasks' = run[m].queue
    /\ run' = [run EXCEPT ![m].at = "complete", ![m].queue = NoRun.queue]
    /\ Mark({n \in Lacking : SiteOf(n) = SiteOf(m) /\ tasks[n].at \in {"queued", "paused"}}, "limited")
    /\ Held /\ UNCHANGED <<World, guard, gate, left>>
Complete(m) ==
    /\ Running(m, "complete")
    /\ tasks' = [tasks EXCEPT ![m] = IF @.at = "running" THEN NoTask ELSE @]
    /\ run' = [run EXCEPT ![m] = NoRun]
    /\ Unlisted /\ Held /\ UNCHANGED <<World, guard, gate, left>>

\* The job raises: it is tried again later, or fails, which leaves its entries missing.
Raise(m) ==
    /\ Running(m, "ask") /\ Turn /\ run' = [run EXCEPT ![m] = NoRun]
    /\ \/ tasks' = [tasks EXCEPT ![m].at = "queued"] /\ Unlisted
       \/ tasks' = [tasks EXCEPT ![m] = NoTask] /\ Mark({m}, "missing")
    /\ Held /\ UNCHANGED <<World, guard, gate>>
\* The whole model is gone: the entry with the title of the task leaves the list.
RaiseNotFound(m) ==
    /\ Running(m, "ask") /\ run[m].retry /\ run[m].skip = "no" /\ Of(m) \cap offered = {}
    /\ IF \A e \in Of(m) : ~ On(e) THEN Unlisted
       ELSE \E e \in Of(m) : On(e) /\ listed' = [listed EXCEPT ![e] = "off"]
    /\ tasks' = [tasks EXCEPT ![m] = NoTask] /\ run' = [run EXCEPT ![m] = NoRun]
    /\ Held /\ UNCHANGED <<World, guard, gate, left>>
RunStep(m) ==
    \/ Lease(m) \/ StartRun(m) \/ AskSite(m) \/ ListResult(m) \/ SyncGate(m)
    \/ LoadQueue(m) \/ SaveQueue(m) \/ Complete(m) \/ RaiseNotFound(m)

\* The next worker and the maintenance of the queue: a running task without a run
\* is put back, and a paused one is let go when the gate of its site is open.
Repair(m) ==
    /\ tasks[m].at = "running" /\ Running(m, "no") /\ tasks' = [tasks EXCEPT ![m].at = "queued"]
    /\ Unlisted /\ Held /\ UNCHANGED <<World, run, guard, gate, left>>
ResumePaused(m) ==
    /\ tasks[m].at = "paused" /\ GateNow(SiteOf(m)) = "open"
    /\ tasks' = [tasks EXCEPT ![m].at = "queued"] /\ GateRead(SiteOf(m))
    /\ Unlisted /\ Held /\ UNCHANGED <<World, run, guard, left>>

-----------------------------------------------------------------------------
(* The source refresh: _refresh_one                                        *)

\* The next refresh is hours away: by then nothing is under way.  It comes for each
\* model; one that has no unlisted file to find counts as a turn.
Quiet ==
    /\ QueueEmpty /\ \A c \in Callers : Idle(c)
    /\ \A m \in Lacking : Running(m, "no") /\ (\A e \in Of(m) : listed[e] \notin AutoRetried)
Found(m, i) == IF <<m, i>> \in answered THEN "gone" ELSE "missing"
RefreshModel(m) ==
    /\ renewal.at = "no" /\ Of(m) \cap offered # {}
    /\ IF Quiet /\ (\E e \in Of(m) \cap offered \cap lacking : ~ On(e)) THEN UNCHANGED left ELSE Turn
    /\ renewal' = [at |-> "submit", model |-> m, found |-> Of(m) \cap lacking]
    /\ Unlisted /\ UNCHANGED <<World, tasks, run, caller, guard, gate>>
\* Instances that are new are handed to submit_three_mf_download, and are not listed.
RefreshSubmits ==
    /\ renewal.at = "submit"
    /\ \/ renewal' = [renewal EXCEPT !.at = "list"] /\ UNCHANGED <<tasks, gate>>
       \/ \E new \in SUBSET renewal.found \ {{}} :
            LET m == renewal.model
                waits == tasks[m].at # "no"
                open == ~ Guarded(SiteOf(m)) /\ GateNow(SiteOf(m)) = "open"
            IN /\ \A e \in new : ~ On(e)
               /\ ~ Guarded(SiteOf(m)) /\ GateRead(SiteOf(m))
               /\ tasks' = IF waits \/ ~ open THEN tasks ELSE [tasks EXCEPT ![m] = [at |-> "queued", retry |-> FALSE]]
               /\ renewal' = [renewal EXCEPT !.at = "list", !.found = IF waits \/ open THEN @ \ new ELSE @]
    /\ Unlisted /\ UNCHANGED <<World, run, caller, guard, left>>
RefreshLists ==
    /\ renewal.at = "list"
    /\ Replace(renewal.model, [i \in Spot |->
         IF <<renewal.model, i>> \in renewal.found THEN Found(renewal.model, i) ELSE "off"])
    /\ renewal' = NotRead
    /\ UNCHANGED <<World, tasks, run, caller, guard, gate, left>>

-----------------------------------------------------------------------------
WorkerDies ==
    /\ Turn
    /\ run' = [m \in Lacking |-> NoRun] /\ caller' = [caller EXCEPT !["idle"] = NoCaller]
    /\ renewal' = NotRead
    /\ Unlisted /\ UNCHANGED <<World, tasks, guard, gate>>
ApiDies ==
    /\ ~ Idle("user") /\ Turn /\ caller' = [caller EXCEPT !["user"] = NoCaller]
    /\ Unlisted /\ Untouched /\ UNCHANGED <<tasks, gate>>

MissingStep == FindIdle \/ RefreshSubmits \/ RefreshLists
MissingNext ==
    \/ \E s \in Sites : SiteSpends(s) \/ ConfirmLogin(s)
    \/ DayPasses \/ AskAll \/ WorkerDies \/ ApiDies \/ MissingStep
    \/ \E c \in Callers : CallOn(c)
    \/ \E e \in Entries : Cancel(e)
    \/ \E m \in Lacking : \/ AskOne(m) \/ RunStep(m) \/ Raise(m) \/ Repair(m)
                          \/ ResumePaused(m) \/ RefreshModel(m)
MissingSpec == MissingInit /\ [][MissingNext]_missingVars

\* Time passes, the worker and the API go on, and the schedule of the refreshes comes back.
MissingFair ==
    /\ WF_missingVars(DayPasses) /\ WF_missingVars(MissingStep)
    /\ \A c \in Callers : WF_missingVars(CallOn(c))
    /\ \A m \in Lacking : WF_missingVars(RunStep(m)) /\ WF_missingVars(Repair(m) \/ ResumePaused(m))
    /\ \A m \in Lacking : WF_missingVars(RefreshModel(m) /\ Quiet /\ UNCHANGED left)
MissingFairSpec == MissingSpec /\ MissingFair

-----------------------------------------------------------------------------
\* Every variable has its type.
MissingTypeOK ==
    /\ offered \cup lacking \cup answered \subseteq Entries
    /\ listed \in [Entries -> Status \cup {"off"}]
    /\ tasks \in [Lacking -> [at : {"no", "queued", "paused", "running"}, retry : BOOLEAN]]
    /\ \A m \in Lacking : run[m].at \in {"no", "start", "ask", "list", "gate", "limit", "save", "complete"}
    /\ \A c \in Callers : caller[c].at \in {"no", "submit", "note"} /\ caller[c].todo \subseteq Lacking
    /\ guard \in Sites \cup {"no"} /\ gate \in [Sites -> {"open", "daily_limit", "blocked"}]
    /\ spent \subseteq Sites

(***************************************************************************)
(* CHANGELOG.md:243, "an idle worker retries what is missing; nothing      *)
(* stays at 'will be retried' without a task": whatever dies between a     *)
(* mark and its task, is written over or paused by a limit, every file     *)
(* that its site still has is downloaded at last and leaves the list,      *)
(* unless a site waits for the user's login.                               *)
(***************************************************************************)
MissingSettles ==
    <>[](\/ \E s \in Sites : gate[s] = "blocked"
         \/ \A e \in Entries : /\ e \in offered => e \notin lacking
                               /\ e \notin lacking => listed[e] = "off")
=============================================================================
