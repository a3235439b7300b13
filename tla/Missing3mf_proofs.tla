-------------------------- MODULE Missing3mf_proofs --------------------------
(* Theorems about Missing3mf, for every value of its constants.            *)
EXTENDS Missing3mf, TLAPS

(***************************************************************************)
(* The invariant behind the theorem.  A step writes on the list, and in    *)
(* the queue, what a run or a caller has kept since an earlier step, so    *)
(* these are typed too: the queue that a run has read is one of tasks, a   *)
(* caller notes a status of the list, and once the site has been asked     *)
(* there is an outcome for each instance, which ListResult turns into a    *)
(* status.                                                                 *)
(***************************************************************************)
Anyone == CHOOSE m \in Lacking : TRUE
Tasks == [at : {"no", "queued", "paused", "running"}, retry : BOOLEAN]
RunPlaces == {"no", "start", "ask", "list", "gate", "limit", "save", "complete"}
Runs == [at : RunPlaces, retry : BOOLEAN, skip : {"no", "limited", "blocked"}, guarded : BOOLEAN,
         result : [Spot -> Outcomes \cup {"none"}], queue : [Lacking -> Tasks]]
Calls == [at : {"no", "submit", "note"}, model : Lacking \cup {Anyone},
          note : {"queued", "limited"}, todo : SUBSET Lacking]
Renewals == [at : {"no", "submit", "list"}, model : Lacking \cup {Anyone}, found : SUBSET Entries]
Listed == Status \cup {"off"}
GateStates == {"open", "daily_limit", "blocked"}

WorldTyped ==
    /\ offered \in SUBSET Entries /\ lacking \in SUBSET Entries /\ answered \in SUBSET Entries
    /\ spent \in SUBSET Sites
ListTyped == listed \in [Entries -> Listed]
TasksTyped == tasks \in [Lacking -> Tasks]
RunsTyped ==
    /\ run \in [Lacking -> Runs]
    /\ \A m \in Lacking : run[m].at = "list" => run[m].result \in [Spot -> Outcomes]
CallsTyped == caller \in [Callers -> Calls]
GatesTyped == guard \in Sites \cup {"no"} /\ gate \in [Sites -> GateStates]
RenewalTyped == renewal \in Renewals
MissingInv ==
    /\ WorldTyped /\ ListTyped /\ TasksTyped /\ RunsTyped /\ CallsTyped /\ GatesTyped /\ RenewalTyped

-----------------------------------------------------------------------------
(* What the helpers of the model give                                      *)

LEMMA SiteOfSites == \A m : SiteOf(m) \in Sites
  BY DEF SiteOf, Sites

LEMMA MarkTyped ==
  ASSUME NEW ms, NEW status \in Listed, ListTyped, Mark(ms, status)
  PROVE  ListTyped'
  BY DEF ListTyped, Mark, Marked

LEMMA ReplaceTyped ==
  ASSUME NEW m, NEW kept, ListTyped, Replace(m, kept),
         \A e \in Entries : e[1] = m => kept[e[2]] \in Listed
  PROVE  ListTyped'
  BY DEF ListTyped, Replace

LEMMA UnlistedTyped == ListTyped /\ Unlisted => ListTyped'
  BY DEF ListTyped, Unlisted

LEMMA GateNowTyped ==
  ASSUME GatesTyped, NEW s \in Sites
  PROVE  GateNow(s) \in GateStates
  BY DEF GatesTyped, GateNow, GateStates

LEMMA GateReadTyped ==
  ASSUME GatesTyped, NEW s \in Sites, GateRead(s), UNCHANGED guard
  PROVE  GatesTyped'
  BY GateNowTyped DEF GatesTyped, GateRead

LEMMA NoTaskTyped == NoTask \in Tasks
  BY DEF NoTask, Tasks

LEMMA NoRunTyped == NoRun \in Runs
  BY NoTaskTyped DEF NoRun, Runs, RunPlaces

LEMMA NoCallerTyped == NoCaller \in Calls
  BY DEF NoCaller, Calls, Anyone

LEMMA NotReadTyped == NotRead \in Renewals
  BY DEF NotRead, Renewals, Anyone

LEMMA OneTaskTyped ==
  ASSUME TasksTyped, NEW m, NEW task \in Tasks, tasks' = [tasks EXCEPT ![m] = task]
  PROVE  TasksTyped'
  BY DEF TasksTyped

\* A task is moved to another place.
LEMMA MovedTyped ==
  ASSUME TasksTyped, NEW m \in Lacking, NEW at \in {"no", "queued", "paused", "running"},
         tasks' = [tasks EXCEPT ![m].at = at]
  PROVE  TasksTyped'
  BY DEF TasksTyped, Tasks

LEMMA OneRunTyped ==
  ASSUME RunsTyped, NEW m \in Lacking, NEW r \in Runs, run' = [run EXCEPT ![m] = r],
         r.at = "list" => r.result \in [Spot -> Outcomes]
  PROVE  RunsTyped'
  BY DEF RunsTyped

LEMMA OneCallTyped ==
  ASSUME CallsTyped, NEW c \in Callers, NEW call \in Calls, caller' = [caller EXCEPT ![c] = call]
  PROVE  CallsTyped'
  BY DEF CallsTyped

-----------------------------------------------------------------------------
(* Each step keeps the invariant.                                          *)

LEMMA MissingInitTyped == MissingInit => MissingInv
  BY NoTaskTyped, NoRunTyped, NoCallerTyped, NotReadTyped
  DEF MissingInit, MissingInv, WorldTyped, ListTyped, TasksTyped, RunsTyped, CallsTyped, GatesTyped,
      RenewalTyped, Listed, Status, GateStates, Sites, NoRun

\* What a step leaves alone keeps its type.
LEMMA WorldStays == WorldTyped /\ UNCHANGED <<offered, lacking, answered, spent>> => WorldTyped'
  BY DEF WorldTyped
LEMMA TasksStay == TasksTyped /\ UNCHANGED tasks => TasksTyped'
  BY DEF TasksTyped
LEMMA RunsStay == RunsTyped /\ UNCHANGED run => RunsTyped'
  BY DEF RunsTyped
LEMMA CallsStay == CallsTyped /\ UNCHANGED caller => CallsTyped'
  BY DEF CallsTyped
LEMMA GatesStay == GatesTyped /\ UNCHANGED <<guard, gate>> => GatesTyped'
  BY DEF GatesTyped
LEMMA RenewalStays == RenewalTyped /\ UNCHANGED renewal => RenewalTyped'
  BY DEF RenewalTyped

LEMMA StutterTyped == MissingInv /\ UNCHANGED missingVars => MissingInv'
  BY DEF MissingInv, missingVars, WorldTyped, ListTyped, TasksTyped, RunsTyped, CallsTyped, GatesTyped,
         RenewalTyped

LEMMA SiteSpendsTyped ==
  ASSUME MissingInv, NEW s \in Sites, SiteSpends(s)
  PROVE  MissingInv'
  BY DEF MissingInv, SiteSpends, WorldTyped, ListTyped, TasksTyped, RunsTyped, CallsTyped, GatesTyped,
         RenewalTyped

LEMMA DayPassesTyped ==
  ASSUME MissingInv, DayPasses
  PROVE  MissingInv'
  BY DEF MissingInv, DayPasses, WorldTyped, ListTyped, TasksTyped, RunsTyped, CallsTyped, GatesTyped,
         RenewalTyped

LEMMA FindIdleTyped ==
  ASSUME MissingInv, FindIdle
  PROVE  MissingInv'
  <1>1. PICK todo \in SUBSET Lacking : caller' = [caller EXCEPT !["idle"].todo = todo]
    BY DEF FindIdle
  <1>2. CallsTyped'
    BY <1>1 DEF MissingInv, CallsTyped, Calls, Callers
  <1>3. GatesTyped'
    <2>1. gate' = [s \in Sites |-> GateNow(s)] /\ guard' = guard
      BY DEF FindIdle, Untouched
    <2> QED BY <2>1, GateNowTyped DEF MissingInv, GatesTyped
  <1> QED BY <1>2, <1>3, UnlistedTyped, WorldStays, TasksStay, RunsStay, RenewalStays
          DEF MissingInv, FindIdle, Untouched, World

LEMMA AskOneTyped ==
  ASSUME MissingInv, NEW m \in Lacking, AskOne(m)
  PROVE  MissingInv'
  <1>1. CallsTyped'
    BY DEF AskOne, MissingInv, CallsTyped, Calls, Callers
  <1> QED BY <1>1, UnlistedTyped, WorldStays, TasksStay, RunsStay, GatesStay, RenewalStays
          DEF MissingInv, AskOne, Untouched, World

LEMMA AskAllTyped ==
  ASSUME MissingInv, AskAll
  PROVE  MissingInv'
  <1>1. PICK todo \in SUBSET Lacking : caller' = [caller EXCEPT !["user"].todo = todo]
    BY DEF AskAll
  <1>2. CallsTyped'
    BY <1>1 DEF MissingInv, CallsTyped, Calls, Callers
  <1>3. ListTyped'
    BY DEF AskAll, ListTyped, Listed, Status
  <1> QED BY <1>2, <1>3, WorldStays, TasksStay, RunsStay, GatesStay, RenewalStays
          DEF MissingInv, AskAll, Untouched, World

LEMMA ConfirmLoginTyped ==
  ASSUME MissingInv, NEW s \in Sites, ConfirmLogin(s)
  PROVE  MissingInv'
  <1>1. PICK todo \in SUBSET Lacking : caller' = [caller EXCEPT !["user"].todo = todo] /\ Mark(todo, "queued")
    BY DEF ConfirmLogin
  <1>2. CallsTyped'
    BY <1>1 DEF MissingInv, CallsTyped, Calls, Callers
  <1>3. ListTyped'
    BY <1>1, MarkTyped DEF MissingInv, Listed, Status
  <1>4. GatesTyped'
    BY DEF ConfirmLogin, Untouched, MissingInv, GatesTyped, GateStates
  <1> QED BY <1>2, <1>3, <1>4, WorldStays, TasksStay, RunsStay, RenewalStays
          DEF MissingInv, ConfirmLogin, Untouched, World

LEMMA MarkQueuedTyped ==
  ASSUME MissingInv, NEW c \in Callers, MarkQueued(c)
  PROVE  MissingInv'
  <1>1. PICK m \in caller[c].todo :
          LET rest == [caller[c] EXCEPT !.todo = @ \ {m}]
          IN IF Guarded(SiteOf(m))
             THEN Mark({m}, "limited") /\ caller' = [caller EXCEPT ![c] = rest]
             ELSE Mark({m}, "queued") /\ caller' = [caller EXCEPT ![c] = [rest EXCEPT !.at = "submit", !.model = m]]
    BY DEF MarkQueued
  <1> DEFINE rest == [caller[c] EXCEPT !.todo = @ \ {m}]
  <1>2. caller[c] \in Calls
    BY DEF MissingInv, CallsTyped
  <1>3. rest \in Calls /\ m \in Lacking
    BY <1>1, <1>2 DEF Calls
  <1>4. [rest EXCEPT !.at = "submit", !.model = m] \in Calls
    BY <1>3 DEF Calls
  <1>5. CallsTyped' /\ ListTyped'
    <2>1. CASE Guarded(SiteOf(m))
      BY <2>1, <1>1, <1>3, OneCallTyped, MarkTyped DEF MissingInv, Listed, Status
    <2>2. CASE ~ Guarded(SiteOf(m))
      BY <2>2, <1>1, <1>4, OneCallTyped, MarkTyped DEF MissingInv, Listed, Status
    <2> QED BY <2>1, <2>2
  <1> QED BY <1>5, WorldStays, TasksStay, RunsStay, GatesStay, RenewalStays
          DEF MissingInv, MarkQueued, Untouched, World

LEMMA SubmitTyped ==
  ASSUME MissingInv, NEW c \in Callers, Submit(c)
  PROVE  MissingInv'
  <1>1. caller[c] \in Calls
    BY DEF MissingInv, CallsTyped
  <1>2. PICK note \in {"queued", "limited"} : caller' = [caller EXCEPT ![c].at = "note", ![c].note = note]
    BY DEF Submit
  <1>3. [caller[c] EXCEPT !.at = "note", !.note = note] \in Calls
    BY <1>1 DEF Calls
  <1>4. CallsTyped'
    BY <1>2, <1>3 DEF MissingInv, CallsTyped
  <1>5. TasksTyped'
    BY OneTaskTyped, TasksStay DEF Submit, MissingInv, Tasks
  <1> QED BY <1>4, <1>5, UnlistedTyped, WorldStays, RunsStay, GatesStay, RenewalStays
          DEF MissingInv, Submit, Untouched, World

LEMMA NoteTyped ==
  ASSUME MissingInv, NEW c \in Callers, Note(c)
  PROVE  MissingInv'
  <1>1. caller[c] \in Calls
    BY DEF MissingInv, CallsTyped
  <1>2. caller[c].note \in Listed
    BY <1>1 DEF Calls, Listed, Status
  <1>3. [NoCaller EXCEPT !.todo = caller[c].todo] \in Calls
    BY <1>1, NoCallerTyped DEF Calls
  <1>4. CallsTyped' /\ ListTyped'
    BY <1>2, <1>3, OneCallTyped, MarkTyped DEF Note, MissingInv
  <1> QED BY <1>4, WorldStays, TasksStay, RunsStay, GatesStay, RenewalStays
          DEF MissingInv, Note, Untouched, World

LEMMA CancelTyped ==
  ASSUME MissingInv, NEW e \in Entries, Cancel(e)
  PROVE  MissingInv'
  <1>1. ListTyped'
    BY DEF Cancel, MissingInv, ListTyped, Listed
  <1> QED BY <1>1, WorldStays, TasksStay, RunsStay, CallsStay, GatesStay, RenewalStays
          DEF MissingInv, Cancel, Untouched, World

\* The steps of a run.
LEMMA LeaseTyped ==
  ASSUME MissingInv, NEW m \in Lacking, Lease(m)
  PROVE  MissingInv'
  <1>1. TasksTyped'
    BY MovedTyped DEF Lease, MissingInv
  <1>2. tasks[m].retry \in BOOLEAN
    BY DEF MissingInv, TasksTyped, Tasks
  <1> DEFINE r == [NoRun EXCEPT !.at = "start", !.retry = tasks[m].retry]
  <1>3. r \in Runs /\ r.at # "list"
    BY <1>2, NoRunTyped DEF Runs, RunPlaces
  <1>4. RunsTyped'
    <2>1. run' = [run EXCEPT ![m] = r]
      BY DEF Lease
    <2> HIDE DEF r
    <2> QED BY <1>3, <2>1, OneRunTyped DEF MissingInv
  <1>5. GatesTyped'
    BY SiteOfSites, GateReadTyped DEF Lease, MissingInv
  <1> QED BY <1>1, <1>4, <1>5, UnlistedTyped, WorldStays, CallsStay, RenewalStays
          DEF MissingInv, Lease, Held, World

LEMMA StartRunTyped ==
  ASSUME MissingInv, NEW m \in Lacking, StartRun(m)
  PROVE  MissingInv'
  <1>1. run[m] \in Runs
    BY DEF MissingInv, RunsTyped
  <1>2. PICK guarded \in BOOLEAN, skip \in {"no", "limited", "blocked"} :
          run' = [run EXCEPT ![m].at = "ask", ![m].guarded = guarded, ![m].skip = skip]
    BY DEF StartRun, Guarded
  <1> DEFINE r == [run[m] EXCEPT !.at = "ask", !.guarded = guarded, !.skip = skip]
  <1>3. r \in Runs /\ r.at # "list"
    BY <1>1 DEF Runs, RunPlaces
  <1>4. run' = [run EXCEPT ![m] = r]
    BY <1>2 DEF MissingInv, RunsTyped
  <1>5. RunsTyped'
    <2> HIDE DEF r
    <2> QED BY <1>3, <1>4, OneRunTyped DEF MissingInv
  <1>6. ListTyped'
    BY MarkTyped, UnlistedTyped DEF StartRun, MissingInv, Listed, Status
  <1>7. GatesTyped'
    BY SiteOfSites, GateReadTyped DEF StartRun, MissingInv
  <1> QED BY <1>5, <1>6, <1>7, WorldStays, TasksStay, CallsStay, RenewalStays
          DEF MissingInv, StartRun, Held, World

LEMMA AskSiteTyped ==
  ASSUME MissingInv, NEW m \in Lacking, AskSite(m)
  PROVE  MissingInv'
  <1>1. PICK result \in [Spot -> Outcomes] :
          /\ lacking' = lacking \ {<<m, i>> : i \in {j \in Spot : result[j] = "got"}}
          /\ answered' = answered \cup {<<m, i>> : i \in {j \in Spot : result[j] = "gone"}}
          /\ run' = [run EXCEPT ![m].at = "list", ![m].result = result]
    BY DEF AskSite
  <1>2. WorldTyped'
    BY <1>1 DEF AskSite, MissingInv, WorldTyped, Entries
  <1> DEFINE r == [run[m] EXCEPT !.at = "list", !.result = result]
  <1>3. run[m] \in Runs
    BY DEF MissingInv, RunsTyped
  <1>4. r \in Runs /\ r.result \in [Spot -> Outcomes]
    BY <1>3 DEF Runs, RunPlaces
  <1>5. run' = [run EXCEPT ![m] = r]
    BY <1>1 DEF MissingInv, RunsTyped
  <1>6. RunsTyped'
    <2> HIDE DEF r
    <2> QED BY <1>4, <1>5, OneRunTyped DEF MissingInv
  <1> QED BY <1>2, <1>6, UnlistedTyped, TasksStay, CallsStay, GatesStay, RenewalStays
          DEF MissingInv, AskSite, Held

LEMMA ListResultTyped ==
  ASSUME MissingInv, NEW m \in Lacking, ListResult(m)
  PROVE  MissingInv'
  <1>1. run[m] \in Runs /\ run[m].result \in [Spot -> Outcomes]
    BY DEF ListResult, Running, MissingInv, RunsTyped
  <1>2. \A i \in Spot : Left(m, i) \in Listed
    BY <1>1 DEF Left, Outcomes, Listed, Status
  <1>3. ListTyped'
    <2>1. \A e \in Entries : [i \in Spot |-> Left(m, i)][e[2]] \in Listed
      BY <1>2 DEF Entries
    <2> QED BY <2>1, ReplaceTyped DEF ListResult, MissingInv
  <1> DEFINE r == [run[m] EXCEPT !.at = "gate", !.guarded = @ \/ Has(m, "limited")]
  <1>4. r \in Runs /\ r.at # "list"
    BY <1>1 DEF Runs, RunPlaces, Has
  <1>5. run' = [run EXCEPT ![m] = r]
    BY DEF ListResult, MissingInv, RunsTyped
  <1>6. RunsTyped'
    <2> HIDE DEF r
    <2> QED BY <1>4, <1>5, OneRunTyped DEF MissingInv
  <1>7. GatesTyped'
    BY SiteOfSites DEF ListResult, MissingInv, GatesTyped
  <1> QED BY <1>3, <1>6, <1>7, WorldStays, TasksStay, CallsStay, RenewalStays
          DEF MissingInv, ListResult, Held, World

LEMMA PauseTyped ==
  ASSUME TasksTyped, ListTyped, NEW m \in Lacking, NEW state \in Listed, Pause(m, state)
  PROVE  TasksTyped' /\ ListTyped'
  <1>1. TasksTyped'
    BY DEF Pause, TasksTyped, Tasks
  <1>2. ListTyped'
    BY MarkTyped, UnlistedTyped DEF Pause
  <1> QED BY <1>1, <1>2

LEMMA ResumeOneTyped ==
  ASSUME TasksTyped, NEW m \in Lacking, ResumeOne(m)
  PROVE  TasksTyped'
  <1>1. CASE UNCHANGED tasks
    BY <1>1, TasksStay
  <1>2. CASE \E n \in Lacking : tasks' = [tasks EXCEPT ![n].at = "queued"]
    BY <1>2, MovedTyped
  <1> QED BY <1>1, <1>2 DEF ResumeOne

LEMMA SyncGateTyped ==
  ASSUME MissingInv, NEW m \in Lacking, SyncGate(m)
  PROVE  MissingInv'
  <1> DEFINE s == SiteOf(m)
             r == [NoRun EXCEPT !.at = IF run[m].guarded THEN "limit" ELSE "complete"]
             Opened == gate' = [gate EXCEPT ![s] = "open"]
  <1>1. r \in Runs /\ r.at # "list"
    BY NoRunTyped DEF Runs, RunPlaces
  <1>2. run' = [run EXCEPT ![m] = r] /\ guard' = guard
    BY DEF SyncGate
  <1>3. RunsTyped'
    <2> HIDE DEF r
    <2> QED BY <1>1, <1>2, OneRunTyped DEF MissingInv
  <1>4. \/ Opened /\ UNCHANGED tasks /\ Unlisted
        \/ \E f \in {"limited", "blocked"} :
             gate' = [gate EXCEPT ![s] = IF f = "limited" THEN "daily_limit" ELSE "blocked"] /\ Pause(m, f)
        \/ UNCHANGED <<gate, tasks>> /\ Unlisted
        \/ Opened /\ ResumeOne(m) /\ Unlisted
    BY DEF SyncGate
  <1>5. Opened => GatesTyped'
    BY <1>2 DEF MissingInv, GatesTyped, GateStates
  <1>6. GatesTyped' /\ TasksTyped' /\ ListTyped'
    <2>1. CASE Opened /\ UNCHANGED tasks /\ Unlisted
      BY <2>1, <1>5, TasksStay, UnlistedTyped DEF MissingInv
    <2>2. ASSUME NEW f \in {"limited", "blocked"},
                 gate' = [gate EXCEPT ![s] = IF f = "limited" THEN "daily_limit" ELSE "blocked"], Pause(m, f)
          PROVE  GatesTyped' /\ TasksTyped' /\ ListTyped'
      <3>1. GatesTyped'
        BY <2>2, <1>2 DEF MissingInv, GatesTyped, GateStates
      <3>2. f \in Listed
        BY DEF Listed, Status
      <3> QED BY <2>2, <3>1, <3>2, PauseTyped DEF MissingInv
    <2>3. CASE UNCHANGED <<gate, tasks>> /\ Unlisted
      BY <2>3, <1>2, GatesStay, TasksStay, UnlistedTyped DEF MissingInv
    <2>4. CASE Opened /\ ResumeOne(m) /\ Unlisted
      BY <2>4, <1>5, ResumeOneTyped, UnlistedTyped DEF MissingInv
    <2> QED BY <1>4, <2>1, <2>2, <2>3, <2>4
  <1> QED BY <1>3, <1>6, WorldStays, CallsStay, RenewalStays
          DEF MissingInv, SyncGate, Held, World

LEMMA LoadQueueTyped ==
  ASSUME MissingInv, NEW m \in Lacking, LoadQueue(m)
  PROVE  MissingInv'
  <1>1. run[m] \in Runs /\ tasks \in [Lacking -> Tasks]
    BY DEF MissingInv, RunsTyped, TasksTyped
  <1>2. PICK out \in SUBSET Lacking :
          run' = [run EXCEPT ![m].at = IF out = {} THEN "complete" ELSE "save",
                             ![m].queue = IF out = {} THEN @ ELSE [n \in Lacking |-> IF n \in out THEN NoTask ELSE tasks[n]]]
    BY DEF LoadQueue
  <1> DEFINE queue == IF out = {} THEN run[m].queue ELSE [n \in Lacking |-> IF n \in out THEN NoTask ELSE tasks[n]]
             at == IF out = {} THEN "complete" ELSE "save"
             r == [run[m] EXCEPT !.at = at, !.queue = queue]
  <1>3. queue \in [Lacking -> Tasks]
    BY <1>1, NoTaskTyped DEF Runs
  <1>4. at \in RunPlaces /\ at # "list"
    BY DEF RunPlaces
  <1>5. run' = [run EXCEPT ![m] = r]
    BY <1>2 DEF MissingInv, RunsTyped
  <1>6. r \in Runs /\ r.at # "list"
    <2> HIDE DEF queue, at
    <2> QED BY <1>1, <1>3, <1>4 DEF Runs
  <1>7. RunsTyped'
    <2> HIDE DEF r
    <2> QED BY <1>5, <1>6, OneRunTyped DEF MissingInv
  <1> QED BY <1>7, UnlistedTyped, WorldStays, TasksStay, CallsStay, GatesStay, RenewalStays
          DEF MissingInv, LoadQueue, Held, World

LEMMA SaveQueueTyped ==
  ASSUME MissingInv, NEW m \in Lacking, SaveQueue(m)
  PROVE  MissingInv'
  <1>1. run[m] \in Runs
    BY DEF MissingInv, RunsTyped
  <1>2. TasksTyped'
    BY <1>1 DEF SaveQueue, Runs, TasksTyped
  <1> DEFINE r == [run[m] EXCEPT !.at = "complete", !.queue = NoRun.queue]
  <1>3. NoRun.queue \in [Lacking -> Tasks]
    BY NoRunTyped DEF Runs
  <1>4. r \in Runs /\ r.at # "list"
    BY <1>1, <1>3 DEF Runs, RunPlaces
  <1>5. run' = [run EXCEPT ![m] = r]
    BY DEF SaveQueue, MissingInv, RunsTyped
  <1>6. RunsTyped'
    <2> HIDE DEF r
    <2> QED BY <1>4, <1>5, OneRunTyped DEF MissingInv
  <1>7. ListTyped'
    BY MarkTyped DEF SaveQueue, MissingInv, Listed, Status
  <1> QED BY <1>2, <1>6, <1>7, WorldStays, CallsStay, GatesStay, RenewalStays
          DEF MissingInv, SaveQueue, Held, World

\* The run is over.
LEMMA RunEnds ==
  ASSUME RunsTyped, NEW m \in Lacking, run' = [run EXCEPT ![m] = NoRun]
  PROVE  RunsTyped'
  BY NoRunTyped, OneRunTyped, NoRun.at = "no" DEF NoRun

LEMMA CompleteTyped ==
  ASSUME MissingInv, NEW m \in Lacking, Complete(m)
  PROVE  MissingInv'
  <1>1. TasksTyped'
    BY NoTaskTyped DEF Complete, MissingInv, TasksTyped
  <1>2. RunsTyped'
    BY RunEnds DEF Complete, MissingInv
  <1> QED BY <1>1, <1>2, UnlistedTyped, WorldStays, CallsStay, GatesStay, RenewalStays
          DEF MissingInv, Complete, Held, World

LEMMA RaiseTyped ==
  ASSUME MissingInv, NEW m \in Lacking, Raise(m)
  PROVE  MissingInv'
  <1>1. RunsTyped'
    BY RunEnds DEF Raise, MissingInv
  <1>2. TasksTyped' /\ ListTyped'
    <2>1. CASE tasks' = [tasks EXCEPT ![m].at = "queued"] /\ Unlisted
      BY <2>1, MovedTyped, UnlistedTyped DEF MissingInv
    <2>2. CASE tasks' = [tasks EXCEPT ![m] = NoTask] /\ Mark({m}, "missing")
      BY <2>2, OneTaskTyped, NoTaskTyped, MarkTyped DEF MissingInv, Listed, Status
    <2> QED BY <2>1, <2>2 DEF Raise
  <1> QED BY <1>1, <1>2, WorldStays, CallsStay, GatesStay, RenewalStays
          DEF MissingInv, Raise, Held, World

LEMMA RaiseNotFoundTyped ==
  ASSUME MissingInv, NEW m \in Lacking, RaiseNotFound(m)
  PROVE  MissingInv'
  <1>1. RunsTyped'
    BY RunEnds DEF RaiseNotFound, MissingInv
  <1>2. TasksTyped'
    BY OneTaskTyped, NoTaskTyped DEF RaiseNotFound, MissingInv
  <1>3. ListTyped'
    <2>1. CASE Unlisted
      BY <2>1, UnlistedTyped DEF MissingInv
    <2>2. CASE \E e \in Entries : listed' = [listed EXCEPT ![e] = "off"]
      BY <2>2 DEF MissingInv, ListTyped, Listed
    <2>3. Of(m) \subseteq Entries
      BY DEF Of, Entries
    <2> QED BY <2>1, <2>2, <2>3 DEF RaiseNotFound
  <1> QED BY <1>1, <1>2, <1>3, WorldStays, CallsStay, GatesStay, RenewalStays
          DEF MissingInv, RaiseNotFound, Held, World

LEMMA RunStepTyped ==
  ASSUME MissingInv, NEW m \in Lacking, RunStep(m)
  PROVE  MissingInv'
  BY LeaseTyped, StartRunTyped, AskSiteTyped, ListResultTyped, SyncGateTyped, LoadQueueTyped,
     SaveQueueTyped, CompleteTyped, RaiseNotFoundTyped DEF RunStep

LEMMA RepairTyped ==
  ASSUME MissingInv, NEW m \in Lacking, Repair(m)
  PROVE  MissingInv'
  <1>1. TasksTyped'
    BY MovedTyped DEF Repair, MissingInv
  <1> QED BY <1>1, UnlistedTyped, WorldStays, RunsStay, CallsStay, GatesStay, RenewalStays
          DEF MissingInv, Repair, Held, World

LEMMA ResumePausedTyped ==
  ASSUME MissingInv, NEW m \in Lacking, ResumePaused(m)
  PROVE  MissingInv'
  <1>1. TasksTyped'
    BY MovedTyped DEF ResumePaused, MissingInv
  <1>2. GatesTyped'
    BY SiteOfSites, GateReadTyped DEF ResumePaused, MissingInv
  <1> QED BY <1>1, <1>2, UnlistedTyped, WorldStays, RunsStay, CallsStay, RenewalStays
          DEF MissingInv, ResumePaused, Held, World

\* The steps of a source refresh, and the deaths of the processes.
LEMMA RefreshModelTyped ==
  ASSUME MissingInv, NEW m \in Lacking, RefreshModel(m)
  PROVE  MissingInv'
  <1>1. Of(m) \cap lacking \subseteq Entries
    BY DEF MissingInv, WorldTyped
  <1>2. RenewalTyped'
    BY <1>1 DEF RefreshModel, RenewalTyped, Renewals
  <1> QED BY <1>2, UnlistedTyped, WorldStays, TasksStay, RunsStay, CallsStay, GatesStay
          DEF MissingInv, RefreshModel, World

LEMMA RefreshSubmitsTyped ==
  ASSUME MissingInv, RefreshSubmits
  PROVE  MissingInv'
  <1>1. RenewalTyped' /\ TasksTyped' /\ GatesTyped'
    <2>1. CASE renewal' = [renewal EXCEPT !.at = "list"] /\ UNCHANGED <<tasks, gate>>
      <3>1. RenewalTyped'
        BY <2>1 DEF MissingInv, RenewalTyped, Renewals
      <3> QED BY <2>1, <3>1, TasksStay, GatesStay DEF MissingInv, RefreshSubmits
    <2>2. CASE \E new \in SUBSET renewal.found \ {{}} :
                 LET m == renewal.model
                     waits == tasks[m].at # "no"
                     open == ~ Guarded(SiteOf(m)) /\ GateNow(SiteOf(m)) = "open"
                 IN /\ GateRead(SiteOf(m))
                    /\ tasks' = IF waits \/ ~ open THEN tasks
                                ELSE [tasks EXCEPT ![m] = [at |-> "queued", retry |-> FALSE]]
                    /\ renewal' = [renewal EXCEPT !.at = "list",
                                                  !.found = IF waits \/ open THEN @ \ new ELSE @]
      <3>1. RenewalTyped'
        BY <2>2 DEF MissingInv, RenewalTyped, Renewals
      <3>2. TasksTyped'
        BY <2>2, OneTaskTyped, TasksStay DEF MissingInv, Tasks
      <3>3. GatesTyped'
        BY <2>2, SiteOfSites, GateReadTyped DEF MissingInv, RefreshSubmits
      <3> QED BY <3>1, <3>2, <3>3
    <2> QED BY <2>1, <2>2 DEF RefreshSubmits
  <1> QED BY <1>1, UnlistedTyped, WorldStays, RunsStay, CallsStay
          DEF MissingInv, RefreshSubmits, World

LEMMA RefreshListsTyped ==
  ASSUME MissingInv, RefreshLists
  PROVE  MissingInv'
  <1> DEFINE kept == [i \in Spot |-> IF <<renewal.model, i>> \in renewal.found
                                     THEN Found(renewal.model, i) ELSE "off"]
  <1>1. \A e \in Entries : kept[e[2]] \in Listed
    BY DEF Entries, Found, Listed, Status
  <1>2. ListTyped'
    BY <1>1, ReplaceTyped DEF RefreshLists, MissingInv
  <1>3. RenewalTyped'
    BY NotReadTyped DEF RefreshLists, RenewalTyped
  <1> QED BY <1>2, <1>3, WorldStays, TasksStay, RunsStay, CallsStay, GatesStay
          DEF MissingInv, RefreshLists, World

LEMMA WorkerDiesTyped ==
  ASSUME MissingInv, WorkerDies
  PROVE  MissingInv'
  <1>1. RunsTyped'
    BY NoRunTyped DEF WorkerDies, RunsTyped, NoRun
  <1>2. CallsTyped'
    BY NoCallerTyped, OneCallTyped DEF WorkerDies, MissingInv, Callers
  <1>3. RenewalTyped'
    BY NotReadTyped DEF WorkerDies, RenewalTyped
  <1> QED BY <1>1, <1>2, <1>3, UnlistedTyped, WorldStays, TasksStay, GatesStay
          DEF MissingInv, WorkerDies, World

LEMMA ApiDiesTyped ==
  ASSUME MissingInv, ApiDies
  PROVE  MissingInv'
  <1>1. CallsTyped'
    BY NoCallerTyped, OneCallTyped DEF ApiDies, MissingInv, Callers
  <1> QED BY <1>1, UnlistedTyped, WorldStays, TasksStay, RunsStay, GatesStay, RenewalStays
          DEF MissingInv, ApiDies, Untouched, World

LEMMA MissingNextTyped ==
  ASSUME MissingInv, [MissingNext]_missingVars
  PROVE  MissingInv'
  <1>1. CASE \E s \in Sites : SiteSpends(s) \/ ConfirmLogin(s)
    BY <1>1, SiteSpendsTyped, ConfirmLoginTyped
  <1>2. CASE DayPasses \/ AskAll \/ WorkerDies \/ ApiDies \/ MissingStep
    BY <1>2, DayPassesTyped, AskAllTyped, WorkerDiesTyped, ApiDiesTyped, FindIdleTyped,
       RefreshSubmitsTyped, RefreshListsTyped DEF MissingStep
  <1>3. CASE \E c \in Callers : CallOn(c)
    BY <1>3, MarkQueuedTyped, SubmitTyped, NoteTyped DEF CallOn
  <1>4. CASE \E e \in Entries : Cancel(e)
    BY <1>4, CancelTyped
  <1>5. CASE \E m \in Lacking : \/ AskOne(m) \/ RunStep(m) \/ Raise(m) \/ Repair(m)
                                \/ ResumePaused(m) \/ RefreshModel(m)
    BY <1>5, AskOneTyped, RunStepTyped, RaiseTyped, RepairTyped, ResumePausedTyped, RefreshModelTyped
  <1>6. CASE UNCHANGED missingVars
    BY <1>6, StutterTyped
  <1> QED BY <1>1, <1>2, <1>3, <1>4, <1>5, <1>6 DEF MissingNext

LEMMA MissingInvTyped == MissingInv => MissingTypeOK
  BY DEF MissingInv, MissingTypeOK, WorldTyped, ListTyped, TasksTyped, RunsTyped, CallsTyped, GatesTyped,
         Listed, Tasks, Runs, RunPlaces, Calls, GateStates

(***************************************************************************)
(* The list, the tasks, the runs, the callers, the guard and the gates     *)
(* have their types at every step, whatever the sites, the user and the    *)
(* deaths of the processes do: in particular a run that writes back the    *)
(* queue which it read before others changed it writes a queue, and the    *)
(* end of a run leaves each entry of its model with a status of the list.  *)
(***************************************************************************)
THEOREM MissingTypesCorrect == MissingSpec => []MissingTypeOK
  <1>1. MissingInv /\ [MissingNext]_missingVars => MissingInv'
    BY MissingNextTyped
  <1> QED BY <1>1, MissingInitTyped, MissingInvTyped, PTL DEF MissingSpec
=============================================================================
