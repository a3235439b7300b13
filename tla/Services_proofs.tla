--------------------------- MODULE Services_proofs ---------------------------
(* Theorems about the services around the archive queue, for every value   *)
(* of their constants; the ones about SelfUpdate are in SelfUpdate_proofs. *)
EXTENDS MCServices, SelfUpdate_proofs, FiniteSetTheorems

(***************************************************************************)
(* RemoteRefresh.  The invariant behind its theorems: a thread outside its *)
(* pool holds nothing; one about to begin, or in its pool, has between     *)
(* picked, flying and landed the models of the manifest that have no       *)
(* record.  The pool is never left empty while something is picked, unless *)
(* the batch is put off, so a batch that ends and was not put off is       *)
(* complete.  A model without a record was fetched at most once for each   *)
(* mishap so far, and once more if it has just landed: only a mishap parts *)
(* a fetch from its record.                                                *)
(***************************************************************************)
Spent == Mishaps - demand.mishaps
RoundPlaces == {"sleeping", "tick", "new", "create", "finalize", "begin", "run"}
Rounds == [at : RoundPlaces, flag : BOOLEAN, asked : BOOLEAN, picked : SUBSET Refreshable,
           flying : SUBSET Refreshable, landed : SUBSET Refreshable, off : BOOLEAN]
RefreshShape ==
    /\ refresh \in [running : BOOLEAN, run : RunStatus, manual : BOOLEAN, due : BOOLEAN]
    /\ batchFiles \in [manifest : SUBSET Refreshable, intact : BOOLEAN, records : SUBSET Refreshable]
    /\ batchFiles.records \subseteq batchFiles.manifest
    /\ round \in Rounds
    /\ demand \in [enabled : BOOLEAN, busy : BOOLEAN, mishaps : 0..Mishaps]
    /\ fetched \in [Refreshable -> Nat]
OutsidePool == round.at # "run" => round.flying = {} /\ round.landed = {} /\ ~ round.off
Ahead ==
    /\ round.at = "finalize" => Remaining = {}
    /\ round.at = "begin" => round.picked = Remaining
    /\ round.at = "run" =>
          /\ refresh.run # "completed"
          /\ round.picked \cup round.flying \cup round.landed = Remaining
          /\ round.flying \cap round.landed = {} /\ round.picked \cap round.landed = {}
          /\ round.picked \cap round.flying = {}
          /\ ~ round.off => round.picked = {} \/ round.flying \cup round.landed # {}
Complete == refresh.run = "completed" => Remaining = {}
Thrift ==
    /\ \A k \in Refreshable : fetched[k] <= 1 + Spent
    /\ \A k \in Remaining \ round.landed : fetched[k] <= Spent
RefreshInv == RefreshShape /\ OutsidePool /\ Ahead /\ Complete /\ Thrift

LEMMA SleepingRound == Sleeping \in Rounds
  BY DEF Sleeping, Rounds, RoundPlaces

\* The pool is filled up, or nothing is left to fill it with.
LEMMA FillFills ==
  ASSUME NEW models, NEW flying, NEW more \in Fill(models, flying)
  PROVE  /\ more \subseteq models
         /\ models \ more = {} \/ more \cup flying # {}
  <1>1. more \subseteq models /\ (more = models \/ Cardinality(more \cup flying) = Pool)
    BY DEF Fill
  <1>2. Cardinality({}) # Pool
    BY FS_EmptySet, RefreshAssumption
  <1> QED BY <1>1, <1>2

(***************************************************************************)
(* Each step keeps the invariant.                                          *)
(***************************************************************************)
LEMMA RefreshInitInv == RefreshInit => RefreshInv
  BY RefreshAssumption DEF RefreshInit, RefreshInv, RefreshShape, OutsidePool, Ahead, Complete, Thrift, Spent,
     Remaining, Sleeping, RunStatus, Rounds, RoundPlaces

\* What happens around the thread.
LEMMA AroundInv ==
  ASSUME RefreshInv, TriggerManualRefresh \/ SaveRemoteRefresh \/ TimePasses \/ QueueChanges
  PROVE  RefreshInv'
  <1> USE DEF RefreshInv
  <1>1. /\ UNCHANGED <<batchFiles, round, fetched>>
        /\ refresh'.run = refresh.run /\ demand'.mishaps = demand.mishaps
    BY DEF TriggerManualRefresh, SaveRemoteRefresh, TimePasses, QueueChanges, Patch, RefreshShape
  <1>2. RefreshShape'
    BY DEF TriggerManualRefresh, SaveRemoteRefresh, TimePasses, QueueChanges, Patch, RefreshShape
  <1>3. OutsidePool' /\ Ahead' /\ Complete' /\ Thrift'
    BY <1>1 DEF OutsidePool, Ahead, Complete, Thrift, Spent, Remaining
  <1> QED BY <1>2, <1>3

\* The thread decides what to do: it only reads the files.
Decides ==
    \/ WakeUp \/ PutOff \/ Resume \/ Finalize \/ ManifestMissing \/ NothingToResume
    \/ NotDue \/ PutOffNew \/ PickCandidates
LEMMA DecidesInv ==
  ASSUME RefreshInv, Decides
  PROVE  RefreshInv'
  <1> USE DEF RefreshInv
  <1>1. UNCHANGED <<batchFiles, demand, fetched>>
    BY DEF Decides, WakeUp, PutOff, Resume, Finalize, ManifestMissing, NothingToResume, NotDue, PutOffNew,
           PickCandidates, Patch
  <1>2. /\ round.at \in {"sleeping", "tick", "new", "finalize"}
        /\ round'.at \in {"sleeping", "tick", "new", "create", "finalize", "begin"}
        /\ round'.flying = {} /\ round'.landed = {} /\ ~ round'.off
        /\ round'.at = "finalize" => Remaining = {}
        /\ round'.at = "begin" => round'.picked = Remaining
        /\ refresh'.run = "completed" => refresh.run = "completed" \/ Remaining = {}
    <2> USE DEF RefreshShape, Rounds, OutsidePool, RoundIs
    <2>1. CASE WakeUp
      BY <2>1 DEF WakeUp, Patch
    <2>2. CASE PutOff \/ Finalize \/ PutOffNew \/ NotDue
      <3>1. round' = Sleeping
        BY <2>2 DEF PutOff, Finalize, PutOffNew, NotDue
      <3>2. /\ round.at \in {"tick", "new", "finalize"}
            /\ refresh'.run = "completed" => refresh.run = "completed" \/ Remaining = {}
        BY <2>2 DEF PutOff, Finalize, PutOffNew, NotDue, Patch, Ahead
      <3> QED BY <3>1, <3>2 DEF Sleeping
    <2>3. CASE Resume
      BY <2>3 DEF Resume, Patch
    <2>4. CASE ManifestMissing \/ NothingToResume
      BY <2>4 DEF ManifestMissing, NothingToResume, Patch
    <2>5. CASE PickCandidates
      BY <2>5 DEF PickCandidates
    <2> QED BY <2>1, <2>2, <2>3, <2>4, <2>5 DEF Decides
  <1>3. RefreshShape'
    <2>1. refresh' \in [running : BOOLEAN, run : RunStatus, manual : BOOLEAN, due : BOOLEAN]
      BY ZenonT(60) DEF Decides, WakeUp, PutOff, Resume, Finalize, ManifestMissing, NothingToResume, NotDue, PutOffNew,
             PickCandidates, Patch, RefreshShape, RunStatus
    <2>2. round' \in Rounds
      <3> USE DEF RefreshShape, Rounds, RoundPlaces
      <3>1. CASE WakeUp
        BY <3>1 DEF WakeUp
      <3>2. CASE PutOff \/ Finalize \/ PutOffNew \/ NotDue
        BY <3>2, SleepingRound DEF PutOff, Finalize, PutOffNew, NotDue
      <3>3. CASE Resume
        BY <3>3 DEF Resume, Remaining
      <3>4. CASE ManifestMissing \/ NothingToResume
        BY <3>4 DEF ManifestMissing, NothingToResume
      <3>5. CASE PickCandidates
        BY <3>5, ZenonT(60) DEF PickCandidates
      <3> QED BY <3>1, <3>2, <3>3, <3>4, <3>5 DEF Decides
    <2> QED BY <1>1, <2>1, <2>2 DEF RefreshShape
  <1>4. OutsidePool' /\ Ahead' /\ Complete'
    BY <1>1, <1>2 DEF OutsidePool, Ahead, Complete, Remaining
  <1>5. Thrift'
    BY <1>1, <1>2 DEF Thrift, Spent, Remaining, OutsidePool
  <1> QED BY <1>3, <1>4, <1>5

\* A batch begins, or goes on after a restart.
LEMMA NewBatchInv ==
  ASSUME RefreshInv, Create
  PROVE  RefreshInv'
  <1> USE DEF RefreshInv
  <1>1. /\ batchFiles' = [manifest |-> round.picked, intact |-> TRUE, records |-> {}]
        /\ fetched' = [k \in Refreshable |-> 0] /\ UNCHANGED demand
        /\ round.at = "create" /\ round.flying = {} /\ round.landed = {} /\ ~ round.off
        /\ refresh' = [running |-> round.picked # {}, manual |-> FALSE, due |-> FALSE,
                       run |-> IF round.picked = {} THEN "completed" ELSE "running"]
    BY DEF Create, RoundIs, OutsidePool
  <1>2. Remaining' = round.picked /\ Spent' = Spent /\ Spent \in Nat
    BY <1>1, RefreshAssumption DEF Remaining, Spent, RefreshShape
  <1>3. CASE round.picked = {}
    <2>1. round' = Sleeping
      BY <1>3 DEF Create
    <2>2. RefreshShape'
      BY <1>1, <1>3, <2>1, SleepingRound DEF RefreshShape, RunStatus
    <2> QED BY <1>1, <1>2, <1>3, <2>1, <2>2 DEF OutsidePool, Ahead, Complete, Thrift, Sleeping
  <1>4. CASE round.picked # {}
    <2>1. PICK more \in Fill(round.picked, {}) :
             round' = [round EXCEPT !.at = "run", !.picked = @ \ more, !.flying = more]
      BY <1>4 DEF Create
    <2>2. more \subseteq round.picked /\ (round.picked \ more = {} \/ more # {})
      BY FillFills
    <2>3. RefreshShape'
      BY <1>1, <1>4, <2>1, <2>2 DEF RefreshShape, RunStatus, Rounds, RoundPlaces
    <2>4. OutsidePool' /\ Complete' /\ Thrift'
      BY <1>1, <1>2, <1>4, <2>1 DEF OutsidePool, Complete, Thrift, RefreshShape, Rounds
    <2>5. Ahead'
      BY <1>1, <1>2, <1>4, <2>1, <2>2 DEF Ahead, RefreshShape, Rounds
    <2> QED BY <2>3, <2>4, <2>5
  <1> QED BY <1>3, <1>4

LEMMA BeginInv ==
  ASSUME RefreshInv, Begin
  PROVE  RefreshInv'
  <1> USE DEF RefreshInv
  <1>1. /\ UNCHANGED <<batchFiles, demand, fetched>> /\ refresh'.run = "running"
        /\ round.at = "begin" /\ round.flying = {} /\ round.landed = {} /\ ~ round.off
        /\ round.picked = Remaining
    BY DEF Begin, Patch, RoundIs, OutsidePool, Ahead, RefreshShape
  <1>2. PICK more \in Fill(round.picked, {}) :
           round' = [round EXCEPT !.at = "run", !.picked = @ \ more, !.flying = more]
    BY DEF Begin
  <1>3. more \subseteq round.picked /\ (round.picked \ more = {} \/ more # {})
    BY FillFills
  <1>4. RefreshShape'
    BY <1>2, <1>3 DEF Begin, Patch, RefreshShape, RunStatus, Rounds, RoundPlaces
  <1>5. OutsidePool' /\ Complete' /\ Thrift'
    BY <1>1, <1>2 DEF OutsidePool, Complete, Thrift, Spent, Remaining, RefreshShape, Rounds
  <1>6. Ahead'
    BY <1>1, <1>2, <1>3 DEF Ahead, Remaining, RefreshShape, Rounds
  <1> QED BY <1>4, <1>5, <1>6

\* A model of the pool ends, and records are appended.
LEMMA RefreshOneInv ==
  ASSUME RefreshInv, NEW k \in Refreshable, RefreshOne(k)
  PROVE  RefreshInv'
  <1> USE DEF RefreshInv
  <1>1. /\ UNCHANGED <<refresh, batchFiles, demand>> /\ round.at = "run" /\ k \in round.flying
        /\ round' = [round EXCEPT !.flying = @ \ {k}, !.landed = @ \cup {k}]
        /\ fetched' = [fetched EXCEPT ![k] = @ + 1]
    BY DEF RefreshOne, RoundIs
  <1>2. RefreshShape' /\ OutsidePool' /\ Ahead' /\ Complete'
    <2>1. RefreshShape'
      <3>1. round' \in Rounds
        BY <1>1 DEF RefreshShape, Rounds
      <3>2. fetched' \in [Refreshable -> Nat]
        BY <1>1 DEF RefreshShape
      <3> QED BY <1>1, <3>1, <3>2 DEF RefreshShape
    <2>2. /\ round'.at = "run" /\ round'.flying = round.flying \ {k} /\ round'.landed = round.landed \cup {k}
          /\ round'.picked = round.picked /\ round'.off = round.off
      BY <1>1 DEF RefreshShape, Rounds
    <2> QED BY <1>1, <2>1, <2>2 DEF OutsidePool, Ahead, Complete, Remaining
  <1>3. k \in Remaining \ round.landed
    BY <1>1 DEF Ahead
  <1>4. Thrift'
    BY <1>1, <1>3, RefreshAssumption DEF Thrift, Spent, Remaining, RefreshShape, Rounds
  <1> QED BY <1>2, <1>4

LEMMA ConsumeInv ==
  ASSUME RefreshInv, NEW done \in SUBSET Refreshable, Consume(done)
  PROVE  RefreshInv'
  <1> USE DEF RefreshInv
  <1> DEFINE landed == round.landed \ done
             off == round.off \/ demand.busy
             out == round.flying \cup landed
  <1>1. /\ UNCHANGED <<refresh, demand, fetched>> /\ round.at = "run" /\ done \subseteq round.landed
        /\ batchFiles' = [batchFiles EXCEPT !.records = @ \cup done]
    BY DEF Consume, RoundIs
  <1>2. PICK more \in (IF off THEN {{}} ELSE Fill(round.picked, out)) :
           round' = [round EXCEPT !.landed = landed, !.off = off, !.picked = @ \ more, !.flying = @ \cup more]
    BY DEF Consume
  <1>3. more \subseteq round.picked /\ (off \/ round.picked \ more = {} \/ more \cup out # {})
    BY <1>2, FillFills
  <1>4. /\ round'.at = "run" /\ round'.landed = landed /\ round'.off = off
        /\ round'.picked = round.picked \ more /\ round'.flying = round.flying \cup more
    BY <1>1, <1>2 DEF RefreshShape, Rounds
  <1>5. Remaining' = Remaining \ done
    BY <1>1 DEF Remaining, RefreshShape
  <1>6. RefreshShape'
    <2>1. done \subseteq batchFiles.manifest
      BY <1>1 DEF Ahead, Remaining
    <2>2. round' \in Rounds
      BY <1>2, <1>3 DEF RefreshShape, Rounds, RoundPlaces
    <2> QED BY <1>1, <2>1, <2>2 DEF RefreshShape
  <1>7. Ahead'
    BY <1>1, <1>3, <1>4, <1>5 DEF Ahead
  <1>8. OutsidePool' /\ Complete' /\ Thrift'
    BY <1>1, <1>4, <1>5 DEF OutsidePool, Complete, Thrift, Spent, Ahead
  <1> QED BY <1>6, <1>7, <1>8

LEMMA FinishInv ==
  ASSUME RefreshInv, Finish
  PROVE  RefreshInv'
  <1> USE DEF RefreshInv
  <1>1. /\ UNCHANGED <<batchFiles, demand, fetched>> /\ round' = Sleeping
        /\ round.at = "run" /\ round.landed = {}
        /\ refresh'.run = IF round.off THEN "deferred" ELSE "completed"
    BY DEF Finish, Patch, RoundIs, Outcome, RefreshShape
  <1>2. ~ round.off => Remaining = {}
    BY DEF Finish, RoundIs, Ahead
  <1>3. RefreshShape'
    BY <1>1, SleepingRound DEF Finish, Patch, Outcome, RefreshShape, RunStatus
  <1> QED BY <1>1, <1>2, <1>3 DEF OutsidePool, Ahead, Complete, Thrift, Spent, Remaining, Sleeping

\* Deaths, exceptions and lost manifests: each lets the models in flight be
\* fetched once more.
LEMMA MishapInv ==
  ASSUME RefreshInv, RefresherDies \/ BatchBreaks \/ LoseManifest
  PROVE  RefreshInv'
  <1> USE DEF RefreshInv
  <1>0. /\ demand.mishaps \in Nat /\ demand.mishaps > 0 /\ Mishaps \in Nat
        /\ demand' = [demand EXCEPT !.mishaps = @ - 1]
    BY RefreshAssumption DEF RefresherDies, BatchBreaks, LoseManifest, Mishap, RefreshShape
  <1>1. Spent' = Spent + 1 /\ Spent \in Nat /\ demand' \in [enabled : BOOLEAN, busy : BOOLEAN, mishaps : 0..Mishaps]
    BY <1>0 DEF Spent, RefreshShape
  <1>2. Remaining' = Remaining /\ refresh'.run = refresh.run /\ batchFiles'.manifest = batchFiles.manifest
    BY DEF RefresherDies, BatchBreaks, LoseManifest, Remaining, RefreshShape
  <1>6. \A k \in Refreshable : fetched[k] \in Nat /\ fetched[k] <= Spent'
    BY <1>1 DEF Thrift, RefreshShape
  <1>7. Remaining \subseteq Refreshable
    BY DEF Remaining, RefreshShape
  <1>3. CASE RefresherDies
    <2>1. UNCHANGED <<refresh, batchFiles, fetched>> /\ round' = Sleeping
      BY <1>3 DEF RefresherDies
    <2>2. RefreshShape' /\ OutsidePool' /\ Ahead' /\ Complete'
      BY <1>1, <2>1, SleepingRound DEF RefreshShape, OutsidePool, Ahead, Complete, Remaining, Sleeping
    <2>3. Thrift'
      BY <1>1, <1>2, <1>6, <1>7, <2>1 DEF Thrift
    <2> QED BY <2>2, <2>3
  <1>4. CASE BatchBreaks
    <2>1. /\ refresh' = [refresh EXCEPT !.running = FALSE] /\ UNCHANGED batchFiles /\ round' = Sleeping
          /\ fetched' = [k \in Refreshable |-> fetched[k] + IF k \in round.flying THEN 1 ELSE 0]
          /\ round.at = "run"
      BY <1>4 DEF BatchBreaks, RoundIs
    <2>2. RefreshShape' /\ OutsidePool' /\ Ahead' /\ Complete'
      <3>1. RefreshShape'
        <4>1. fetched' \in [Refreshable -> Nat]
          BY <1>6, <2>1
        <4>2. refresh' \in [running : BOOLEAN, run : RunStatus, manual : BOOLEAN, due : BOOLEAN]
          BY <2>1 DEF RefreshShape
        <4> QED BY <1>1, <2>1, <4>1, <4>2, SleepingRound DEF RefreshShape
      <3> QED BY <1>2, <2>1, <3>1 DEF OutsidePool, Ahead, Complete, Sleeping
    <2>3. \A k \in Refreshable : fetched[k] + (IF k \in round.flying THEN 1 ELSE 0) <= Spent'
      BY <1>1, <1>6, <2>1 DEF Thrift, Ahead, RefreshShape
    <2>4. \A k \in Refreshable : fetched'[k] <= Spent'
      BY <2>1, <2>3
    <2>5. Thrift'
      BY <1>1, <1>2, <1>6, <1>7, <2>1, <2>4 DEF Thrift
    <2> QED BY <2>2, <2>5
  <1>5. CASE LoseManifest
    <2>1. UNCHANGED <<refresh, round, fetched>> /\ batchFiles' = [batchFiles EXCEPT !.intact = FALSE]
      BY <1>5 DEF LoseManifest
    <2>2. RefreshShape' /\ OutsidePool' /\ Ahead' /\ Complete'
      BY <1>1, <1>2, <2>1 DEF RefreshShape, OutsidePool, Ahead, Complete
    <2>3. Thrift'
      BY <1>1, <1>2, <1>6, <1>7, <2>1 DEF Thrift
    <2> QED BY <2>2, <2>3
  <1> QED BY <1>3, <1>4, <1>5

LEMMA RefreshStepInv == RefreshInv /\ [RefreshNext]_refreshVars => RefreshInv'
  <1> SUFFICES ASSUME RefreshInv, [RefreshNext]_refreshVars PROVE RefreshInv'
    OBVIOUS
  <1>1. CASE TriggerManualRefresh \/ SaveRemoteRefresh \/ TimePasses \/ QueueChanges
    BY <1>1, AroundInv
  <1>2. CASE Tick
    BY <1>2, DecidesInv, NewBatchInv, BeginInv, FinishInv DEF Tick, Decides
  <1>3. CASE RunBatch
    BY <1>3, RefreshOneInv, ConsumeInv DEF RunBatch
  <1>4. CASE RefresherDies \/ BatchBreaks \/ LoseManifest
    BY <1>4, MishapInv
  <1>5. CASE UNCHANGED refreshVars
    BY <1>5 DEF refreshVars, RefreshInv, RefreshShape, OutsidePool, Ahead, Complete, Thrift, Spent, Remaining
  <1> QED BY <1>1, <1>2, <1>3, <1>4, <1>5 DEF RefreshNext

LEMMA AlwaysRefreshInv == RefreshSpec => []RefreshInv
  BY RefreshInitInv, RefreshStepInv, PTL DEF RefreshSpec

LEMMA RefreshTypes == RefreshInv => RefreshTypeOK
  <1> SUFFICES ASSUME RefreshInv PROVE RefreshTypeOK
    OBVIOUS
  <1>1. \A k \in Refreshable : fetched[k] \in 0..(Mishaps + 1)
    BY RefreshAssumption DEF RefreshInv, RefreshShape, Thrift, Spent
  <1>2. fetched \in [Refreshable -> 0..(Mishaps + 1)]
    BY <1>1 DEF RefreshInv, RefreshShape
  <1> QED BY <1>2 DEF RefreshInv, RefreshShape, Rounds, RefreshTypeOK

(***************************************************************************)
(* The variables of the refresh keep their types, and no model is fetched  *)
(* more often than the mishaps allow, for any models, pool and bound.      *)
(***************************************************************************)
THEOREM RefreshTypeCorrect == RefreshSpec => []RefreshTypeOK
  BY AlwaysRefreshInv, RefreshTypes, PTL

(***************************************************************************)
(* A batch is reported as completed only when each model of its manifest   *)
(* has a record, and each model is fetched once and at most once more for  *)
(* each mishap (_run_batch and _resume_active_run_if_possible), however    *)
(* often the batch is put off, resumed and broken off.                     *)
(***************************************************************************)
THEOREM CompletedMeansAll == RefreshSpec => []RefreshedAll
  <1>1. RefreshInv => RefreshedAll
    BY DEF RefreshInv, Complete, Thrift, Spent, Remaining, RefreshedAll
  <1> QED BY AlwaysRefreshInv, <1>1, PTL

-----------------------------------------------------------------------------
(***************************************************************************)
(* ThreeMf.  The invariant behind its theorems: at most one job is between *)
(* the browser's lock and its release; a link that nobody threw away is in *)
(* meta.json and in the memory of the job that will write it again; a job  *)
(* that asks for a link has none; and after a refusal the gate is closed,  *)
(* or the job that got it has not left the browser yet.                    *)
(***************************************************************************)
Steps == {"idle", "next", "reserve", "queue", "wait", "send", "leave", "keep", "transfer"}
Holding == {"wait", "send", "leave"}
Docs == [link : SUBSET Plate, page : Nat]
Jobs == [at : Steps, mem : Docs, todo : SUBSET Plate, now : Plate \cup {"none"}, again : BOOLEAN,
         paused : {"no", "error", "limit", "verification"}, answer : Answers \cup {"none"}, got : BOOLEAN]
Doorways == {"open", "verification_required", "daily_limit"}
Kept(d) == d \in Docs /\ d.page + lives.refreshes <= Refreshes
JobsOK ==
    /\ job \in [Printed -> Jobs]
    /\ \A m \in Printed :
          /\ Kept(job[m].mem)
          /\ job[m].at \in Holding <=> browser = m
          /\ job[m].at \notin {"idle", "next"} => job[m].now \in Plate
          /\ In(m, "reserve") => job[m].now \notin job[m].mem.link
          /\ In(m, "keep") => job[m].now \in job[m].mem.link
DocsOK ==
    /\ meta \in [Printed -> Docs] /\ rewrite \in [Printed -> [at : {"idle", "read"}, old : Docs]]
    /\ \A m \in Printed :
          /\ Kept(meta[m]) /\ Kept(rewrite[m].old)
          /\ rewrite[m].at = "read" => rewrite[m].old.page + 1 + lives.refreshes <= Refreshes
RestOK ==
    /\ saved \in [Printed -> SUBSET Plate] /\ used \in 0 .. DailyLimit /\ day \in 1 .. LastDay
    /\ doorway \in Doorways /\ cooling \in BOOLEAN /\ browser \in Printed \cup {"free"}
    /\ lives \in [kills : Nat, refreshes : Nat] /\ refused \in BOOLEAN
HeldOK ==
    /\ held \subseteq Printed \X Plate
    /\ \A m \in Printed, i \in Plate : <<m, i>> \in held =>
          i \in meta[m].link /\ (~ In(m, "idle") => i \in job[m].mem.link)
Refused(m) == In(m, "leave") /\ job[m].answer \in Closes
RefusedOK ==
    /\ refused => doorway # "open" \/ \E m \in Printed : Refused(m)
    /\ \A m \in Printed : In(m, "send") => ~ refused
ThreeMfInv == JobsOK /\ DocsOK /\ RestOK /\ HeldOK /\ RefusedOK

LEMMA JobMoves ==
  ASSUME ThreeMfInv, NEW m \in Printed, NEW r \in Jobs, NEW d \in Docs,
         job' = [job EXCEPT ![m] = r], meta' = [meta EXCEPT ![m] = d],
         UNCHANGED rewrite, lives'.refreshes = lives.refreshes,
         Kept(r.mem), Kept(d), RestOK', RefusedOK',
         r.at \in Holding <=> browser' = m, \A n \in Printed \ {m} : browser' = n <=> browser = n,
         r.at \notin {"idle", "next"} => r.now \in Plate,
         r.at = "reserve" => r.now \notin r.mem.link, r.at = "keep" => r.now \in r.mem.link,
         held' \subseteq Printed \X Plate,
         \A n \in Printed, i \in Plate : <<n, i>> \in held' /\ n # m => <<n, i>> \in held,
         \A i \in Plate : <<m, i>> \in held' => i \in d.link /\ (r.at # "idle" => i \in r.mem.link)
  PROVE  ThreeMfInv'
  <1>1. job' \in [Printed -> Jobs] /\ job'[m] = r /\ \A n \in Printed \ {m} : job'[n] = job[n]
    BY DEF ThreeMfInv, JobsOK
  <1>2. meta' \in [Printed -> Docs] /\ meta'[m] = d /\ \A n \in Printed \ {m} : meta'[n] = meta[n]
    BY DEF ThreeMfInv, DocsOK
  <1>3. JobsOK'
    <2> SUFFICES ASSUME NEW n \in Printed
                 PROVE  /\ Kept(job[n].mem)'
                        /\ job'[n].at \in Holding <=> browser' = n
                        /\ job'[n].at \notin {"idle", "next"} => job'[n].now \in Plate
                        /\ job'[n].at = "reserve" => job'[n].now \notin job'[n].mem.link
                        /\ job'[n].at = "keep" => job'[n].now \in job'[n].mem.link
      BY <1>1 DEF JobsOK, In
    <2>1. CASE n = m
      BY <1>1, <2>1 DEF Kept
    <2>2. CASE n # m
      BY <1>1, <2>2 DEF ThreeMfInv, JobsOK, In, Kept
    <2> QED BY <2>1, <2>2
  <1>4. DocsOK'
    BY <1>2 DEF ThreeMfInv, DocsOK, Kept
  <1>5. HeldOK'
    <2> SUFFICES ASSUME NEW n \in Printed, NEW i \in Plate, <<n, i>> \in held'
                 PROVE  i \in meta'[n].link /\ (job'[n].at # "idle" => i \in job'[n].mem.link)
      BY DEF HeldOK, In
    <2> QED BY <1>1, <1>2 DEF ThreeMfInv, HeldOK, In
  <1> QED BY <1>3, <1>4, <1>5 DEF ThreeMfInv

\* A step of a job that changes neither the gate nor what is known of refusals.
LEMMA RefusalKept ==
  ASSUME ThreeMfInv, NEW m \in Printed, NEW r \in Jobs, job' = [job EXCEPT ![m] = r],
         UNCHANGED <<doorway, refused>>, ~ Refused(m),
         r.at = "send" => doorway = "open" /\ browser = m
  PROVE  RefusedOK'
  <1>1. job'[m] = r /\ \A n \in Printed \ {m} : job'[n] = job[n]
    BY DEF ThreeMfInv, JobsOK
  <1>2. \A n \in Printed : Refused(n) => n # m /\ Refused(n)'
    BY <1>1 DEF Refused, In
  <1>3. r.at = "send" => ~ refused
    <2> SUFFICES ASSUME r.at = "send", refused PROVE FALSE
      OBVIOUS
    <2>1. PICK n \in Printed : Refused(n)
      BY DEF ThreeMfInv, RefusedOK
    <2>2. browser = n
      BY <2>1 DEF ThreeMfInv, JobsOK, Refused, In, Holding
    <2> QED BY <1>2, <2>1, <2>2
  <1> QED BY <1>1, <1>2, <1>3 DEF ThreeMfInv, RefusedOK, In

\* A step of a job that touches its own memory, and nothing of the account.
LEMMA OwnStep ==
  ASSUME ThreeMfInv, NEW m \in Printed, NEW r \in Jobs, job' = [job EXCEPT ![m] = r],
         UNCHANGED <<rewrite, day, doorway, cooling, browser, lives, refused>>,
         saved' \in [Printed -> SUBSET Plate], used' \in 0 .. DailyLimit,
         UNCHANGED held,
         \/ meta' = meta
         \/ meta' = [meta EXCEPT ![m] = job[m].mem],
         r.mem = IF In(m, "idle") THEN meta[m] ELSE job[m].mem,
         r.at \in Holding <=> job[m].at \in Holding, ~ In(m, "leave"),
         r.at = "send" => In(m, "wait") /\ doorway = "open",
         In(m, "idle") => UNCHANGED meta,
         r.at \notin {"idle", "next"} => r.now \in Plate,
         r.at = "reserve" => r.now \notin r.mem.link, r.at = "keep" => r.now \in r.mem.link
  PROVE  ThreeMfInv'
  <1> DEFINE d == IF meta' = meta THEN meta[m] ELSE job[m].mem
  <1>1. meta[m] \in Docs /\ job[m].mem \in Docs /\ Kept(meta[m]) /\ Kept(job[m].mem)
    BY DEF ThreeMfInv, DocsOK, JobsOK, Kept
  <1>2. d \in Docs /\ Kept(d) /\ Kept(r.mem)
    BY <1>1 DEF Kept
  <1>3. meta' = [meta EXCEPT ![m] = d]
    BY DEF ThreeMfInv, DocsOK
  <1>4. RestOK'
    BY DEF ThreeMfInv, RestOK
  <1>5. r.at = "send" => browser = m
    BY DEF ThreeMfInv, JobsOK, Holding, In
  <1>6. RefusedOK'
    BY <1>5, RefusalKept DEF Refused
  <1>7. held' \subseteq Printed \X Plate /\ (r.at \in Holding <=> browser' = m)
    BY DEF ThreeMfInv, HeldOK, JobsOK
  <1>8. \A i \in Plate : <<m, i>> \in held' => i \in d.link /\ (r.at # "idle" => i \in r.mem.link)
    BY DEF ThreeMfInv, HeldOK
  <1> HIDE DEF d
  <1> QED BY <1>2, <1>3, <1>4, <1>6, <1>7, <1>8, JobMoves

LEMMA RetryInv ==
  ASSUME ThreeMfInv, NEW m \in Printed, Retry(m)
  PROVE  ThreeMfInv'
  <1>1. PICK targets \in SUBSET (Plate \ saved[m]) \ {{}} :
          job' = [job EXCEPT ![m] = [NoJob EXCEPT !.at = "next", !.mem = meta[m],
                                                  !.todo = targets, !.paused = PauseAtGate]]
    BY DEF Retry
  <1> DEFINE r == [NoJob EXCEPT !.at = "next", !.mem = meta[m], !.todo = targets, !.paused = PauseAtGate]
  <1>2. /\ In(m, "idle") /\ UNCHANGED <<meta, saved, rewrite, used, day, doorway, cooling, browser, lives, held, refused>>
        /\ job' = [job EXCEPT ![m] = r]
    BY <1>1 DEF Retry
  <1>3. r \in Jobs
    <2>1. meta[m] \in Docs /\ PauseAtGate \in {"no", "limit", "verification"} /\ targets \subseteq Plate
      BY DEF ThreeMfInv, DocsOK, PauseAtGate
    <2> QED BY <2>1 DEF NoJob, Jobs, Steps
  <1>4. r.at = "next" /\ r.mem = meta[m]
    BY DEF NoJob
  <1>5. saved' \in [Printed -> SUBSET Plate] /\ used' \in 0 .. DailyLimit
    BY <1>2 DEF ThreeMfInv, RestOK
  <1> HIDE DEF r
  <1> QED BY <1>2, <1>3, <1>4, <1>5, OwnStep DEF In, Holding

LEMMA JobTypes ==
  ASSUME ThreeMfInv, NEW m \in Printed
  PROVE  /\ job[m] \in Jobs /\ job[m].mem \in Docs /\ job[m].todo \subseteq Plate /\ meta[m] \in Docs
         /\ job[m].now \in Plate \cup {"none"}
         /\ saved \in [Printed -> SUBSET Plate] /\ used \in 0 .. DailyLimit
         /\ job \in [Printed -> Jobs]
  BY DEF ThreeMfInv, JobsOK, DocsOK, RestOK, Jobs

\* The steps of the loop over the instances before the browser is asked.
LEMMA LoopInv ==
  ASSUME ThreeMfInv, NEW m \in Printed, PassOver(m) \/ TakeUp(m) \/ Reserve(m)
  PROVE  ThreeMfInv'
  <1>1. UNCHANGED <<rewrite, day, doorway, cooling, browser, lives, refused, saved, held>>
    BY DEF PassOver, TakeUp, Reserve
  <1>2. CASE PassOver(m)
    <2>1. PICK i \in job[m].todo : job' = [job EXCEPT ![m].todo = @ \ {i}]
      BY <1>2 DEF PassOver
    <2> DEFINE r == [job[m] EXCEPT !.todo = @ \ {i}]
    <2>2. r \in Jobs /\ r.mem = job[m].mem /\ r.at = job[m].at /\ job' = [job EXCEPT ![m] = r]
      BY <2>1, JobTypes DEF Jobs
    <2>3. In(m, "next") /\ meta' = meta /\ used' = used
      BY <1>2 DEF PassOver
    <2> HIDE DEF r
    <2> QED BY <1>1, <2>2, <2>3, JobTypes, OwnStep DEF In, Holding
  <1>3. CASE TakeUp(m)
    <2>1. PICK i \in job[m].todo \ saved[m] :
            job' = [job EXCEPT ![m].at = StartsWith(m, i), ![m].now = i, ![m].todo = @ \ {i}, ![m].again = FALSE]
      BY <1>3 DEF TakeUp
    <2> DEFINE r == [job[m] EXCEPT !.at = StartsWith(m, i), !.now = i, !.todo = @ \ {i}, !.again = FALSE]
    <2>2. StartsWith(m, i) \in {"transfer", "reserve"} /\ i \in Plate
      BY JobTypes DEF StartsWith
    <2>3. r \in Jobs /\ r.mem = job[m].mem /\ r.at = StartsWith(m, i) /\ r.now = i /\ job' = [job EXCEPT ![m] = r]
      BY <2>1, <2>2, JobTypes DEF Jobs, Steps
    <2> HIDE DEF r
    <2>4. In(m, "next") /\ meta' = meta /\ used' = used /\ (r.at = "reserve" => i \notin r.mem.link)
      BY <1>3, <2>3 DEF TakeUp, StartsWith
    <2> QED BY <1>1, <2>2, <2>3, <2>4, JobTypes, OwnStep DEF In, Holding
  <1>4. CASE Reserve(m)
    <2>1. In(m, "reserve") /\ job[m].now \in Plate
      BY <1>4 DEF Reserve, ThreeMfInv, JobsOK, In
    <2>2. CASE used < DailyLimit /\ used' = used + 1 /\ Move(m, "queue") /\ UNCHANGED meta
      <3> DEFINE r == [job[m] EXCEPT !.at = "queue"]
      <3>1. r \in Jobs /\ r.mem = job[m].mem /\ r.at = "queue" /\ r.now = job[m].now /\ job' = [job EXCEPT ![m] = r]
        BY <2>2, JobTypes DEF Jobs, Steps, Move
      <3>2. used' \in 0 .. DailyLimit
        BY <2>2, JobTypes, ThreeMfAssumption
      <3> HIDE DEF r
      <3> QED BY <1>1, <2>1, <2>2, <3>1, <3>2, JobTypes, OwnStep DEF In, Holding
    <2>3. CASE /\ UNCHANGED used /\ job' = [job EXCEPT ![m].at = "next", ![m].paused = "limit"]
               /\ Save(m, job[m].mem)
      <3> DEFINE r == [job[m] EXCEPT !.at = "next", !.paused = "limit"]
      <3>1. r \in Jobs /\ r.mem = job[m].mem /\ r.at = "next" /\ job' = [job EXCEPT ![m] = r]
        BY <2>3, JobTypes, ZenonT(60) DEF Jobs, Steps
      <3> HIDE DEF r
      <3> QED BY <1>1, <2>1, <2>3, <3>1, JobTypes, OwnStep DEF In, Holding, Save
    <2> QED BY <1>4, <2>2, <2>3 DEF Reserve
  <1> QED BY <1>2, <1>3, <1>4

\* Under the browser's lock, up to the request.
LEMMA EnterInv ==
  ASSUME ThreeMfInv, NEW m \in Printed, Enter(m)
  PROVE  ThreeMfInv'
  <1>1. /\ In(m, "queue") /\ browser = "free" /\ job[m].now \in Plate
        /\ UNCHANGED <<rewrite, day, doorway, cooling, lives, refused, saved, held, used>>
    BY DEF Enter, ThreeMfInv, JobsOK, In
  <1>2. CASE browser' = m /\ Move(m, "wait") /\ UNCHANGED meta
    <2> DEFINE r == [job[m] EXCEPT !.at = "wait"]
    <2>1. r \in Jobs /\ r.mem = job[m].mem /\ r.at = "wait" /\ r.now = job[m].now /\ job' = [job EXCEPT ![m] = r]
      BY <1>2, JobTypes DEF Jobs, Steps, Move
    <2> HIDE DEF r
    <2>2. RestOK' /\ RefusedOK'
      BY <1>1, <1>2, <2>1, RefusalKept DEF ThreeMfInv, RestOK, Refused, In
    <2>3. meta' = [meta EXCEPT ![m] = meta[m]] /\ Kept(meta[m]) /\ Kept(r.mem) /\ meta[m] \in Docs
      BY <1>2, <2>1 DEF ThreeMfInv, DocsOK, JobsOK
    <2>4. \A n \in Printed \ {m} : browser' = n <=> browser = n
      BY <1>1, <1>2, ThreeMfAssumption
    <2>5. held' \subseteq Printed \X Plate /\ \A i \in Plate : <<m, i>> \in held' => i \in meta[m].link /\ i \in r.mem.link
      BY <1>1, <2>1 DEF ThreeMfInv, HeldOK, In
    <2> QED BY <1>1, <1>2, <2>1, <2>2, <2>3, <2>4, <2>5, JobMoves DEF Holding
  <1>3. CASE /\ UNCHANGED browser /\ Save(m, job[m].mem)
             /\ job' = [job EXCEPT ![m].at = "next", ![m].paused = IF doorway = "open" THEN "error" ELSE PauseAtGate]
    <2> DEFINE why == IF doorway = "open" THEN "error" ELSE PauseAtGate
               r == [job[m] EXCEPT !.at = "next", !.paused = why]
    <2>1. why \in {"no", "error", "limit", "verification"}
      BY DEF PauseAtGate
    <2>2. r \in Jobs /\ r.mem = job[m].mem /\ r.at = "next" /\ job' = [job EXCEPT ![m] = r]
      BY <1>3, <2>1, JobTypes, ZenonT(60) DEF Jobs, Steps
    <2> HIDE DEF r
    <2> QED BY <1>1, <1>3, <2>2, JobTypes, OwnStep DEF In, Holding, Save
  <1> QED BY <1>2, <1>3 DEF Enter

\* A job lets go of the browser, or keeps it to send its request.
LEMMA RecheckInv ==
  ASSUME ThreeMfInv, NEW m \in Printed, Recheck(m)
  PROVE  ThreeMfInv'
  <1>1. /\ In(m, "wait") /\ browser = m /\ job[m].now \in Plate
        /\ UNCHANGED <<rewrite, day, doorway, cooling, lives, refused, saved, held, used>>
    BY DEF Recheck, ThreeMfInv, JobsOK, In, Holding
  <1>2. CASE doorway = "open" /\ Move(m, "send") /\ UNCHANGED <<meta, browser>>
    <2> DEFINE r == [job[m] EXCEPT !.at = "send"]
    <2>1. r \in Jobs /\ r.mem = job[m].mem /\ r.at = "send" /\ r.now = job[m].now /\ job' = [job EXCEPT ![m] = r]
      BY <1>2, JobTypes DEF Jobs, Steps, Move
    <2> HIDE DEF r
    <2> QED BY <1>1, <1>2, <2>1, JobTypes, OwnStep DEF In, Holding
  <1>3. CASE /\ browser' = "free" /\ Save(m, job[m].mem)
             /\ job' = [job EXCEPT ![m].at = "next", ![m].paused = PauseAtGate]
    <2> DEFINE r == [job[m] EXCEPT !.at = "next", !.paused = PauseAtGate]
    <2>1. PauseAtGate \in {"no", "error", "limit", "verification"}
      BY DEF PauseAtGate
    <2>2. r \in Jobs /\ r.mem = job[m].mem /\ r.at = "next" /\ job' = [job EXCEPT ![m] = r]
      BY ZenonT(60), <1>3, <2>1, JobTypes DEF Jobs, Steps
    <2> HIDE DEF r
    <2>3. RestOK' /\ RefusedOK'
      BY <1>1, <1>3, <2>2, RefusalKept DEF ThreeMfInv, RestOK, Refused, In
    <2>4. meta' = [meta EXCEPT ![m] = r.mem] /\ Kept(r.mem) /\ r.mem \in Docs
      BY <1>3, <2>2 DEF ThreeMfInv, JobsOK, Save, Kept
    <2>5. (\A n \in Printed \ {m} : browser' = n <=> browser = n) /\ browser' # m
      BY <1>1, <1>3, ThreeMfAssumption
    <2>6. held' \subseteq Printed \X Plate /\ \A i \in Plate : <<m, i>> \in held' => i \in r.mem.link
      BY <1>1, <2>2 DEF ThreeMfInv, HeldOK, In
    <2> QED BY <1>1, <2>2, <2>3, <2>4, <2>5, <2>6, JobMoves DEF Holding
  <1> QED BY <1>2, <1>3 DEF Recheck

\* The request is sent: nobody had a refusal when it was.
LEMMA AskInv ==
  ASSUME ThreeMfInv, NEW m \in Printed, Ask(m)
  PROVE  ThreeMfInv'
  <1>1. PICK answer \in Answers : /\ job' = [job EXCEPT ![m].at = "leave", ![m].answer = answer]
                                  /\ refused' = (refused \/ answer \in Closes)
    BY DEF Ask, Answered
  <1>2. /\ In(m, "send") /\ browser = m /\ job[m].now \in Plate /\ ~ refused
        /\ UNCHANGED <<meta, saved, rewrite, used, day, doorway, cooling, browser, lives, held>>
    BY DEF Ask, Answered, ThreeMfInv, JobsOK, In, Holding, RefusedOK
  <1> DEFINE r == [job[m] EXCEPT !.at = "leave", !.answer = answer]
  <1>3. r \in Jobs /\ r.mem = job[m].mem /\ r.at = "leave" /\ r.now = job[m].now /\ r.answer = answer
        /\ job' = [job EXCEPT ![m] = r]
    BY <1>1, JobTypes DEF Jobs, Steps
  <1> HIDE DEF r
  <1>4. job'[m] = r /\ \A n \in Printed \ {m} : job'[n] = job[n]
    BY <1>3, JobTypes
  <1>5. \A n \in Printed \ {m} : ~ In(n, "send")
    BY <1>2, ThreeMfAssumption DEF ThreeMfInv, JobsOK, In, Holding
  <1>6. RestOK' /\ RefusedOK'
    <2>1. RestOK'
      BY <1>1, <1>2 DEF ThreeMfInv, RestOK
    <2>2. refused' => Refused(m)'
      BY <1>1, <1>2, <1>3, <1>4 DEF Refused, In
    <2>3. \A n \in Printed : ~ In(n, "send")'
      BY <1>3, <1>4, <1>5 DEF In
    <2> QED BY <2>1, <2>2, <2>3 DEF RefusedOK
  <1>7. meta' = [meta EXCEPT ![m] = meta[m]] /\ Kept(meta[m]) /\ Kept(r.mem) /\ meta[m] \in Docs
    BY <1>2, <1>3 DEF ThreeMfInv, DocsOK, JobsOK
  <1>8. held' \subseteq Printed \X Plate /\ \A i \in Plate : <<m, i>> \in held' => i \in meta[m].link /\ i \in r.mem.link
    BY <1>2, <1>3 DEF ThreeMfInv, HeldOK, In
  <1> QED BY <1>2, <1>3, <1>6, <1>7, <1>8, JobMoves DEF Holding

\* The answer closes the gate before the browser is free for the next job.
LEMMA LeaveInv ==
  ASSUME ThreeMfInv, NEW m \in Printed, Leave(m)
  PROVE  ThreeMfInv'
  <1>1. /\ In(m, "leave") /\ browser = m /\ job[m].now \in Plate /\ browser' = "free"
        /\ doorway' = GateAfter(job[m].answer) /\ cooling' = (cooling \/ job[m].answer = "rate")
        /\ UNCHANGED <<saved, rewrite, used, day, lives, held, refused>>
    BY DEF Leave, ThreeMfInv, JobsOK, In, Holding
  <1>2. \A n \in Printed : ~ In(n, "send") /\ (Refused(n) => n = m)
    BY <1>1 DEF ThreeMfInv, JobsOK, Refused, In, Holding
  <1>3. refused => doorway' # "open"
    BY <1>1, <1>2 DEF ThreeMfInv, RefusedOK, Refused, GateAfter, Closes
  <1>4. RestOK'
    BY <1>1 DEF ThreeMfInv, RestOK, GateAfter, Doorways
  <1>5. (\A n \in Printed \ {m} : browser' = n <=> browser = n) /\ browser' # m
    BY <1>1, ThreeMfAssumption
  <1>6. \A i \in Plate : <<m, i>> \in held' => i \in meta[m].link /\ i \in job[m].mem.link
    BY <1>1 DEF ThreeMfInv, HeldOK, In
  <1>7. held' \subseteq Printed \X Plate
    BY <1>1 DEF ThreeMfInv, HeldOK
  <1>8. Kept(job[m].mem) /\ Kept(meta[m]) /\ job[m].mem \in Docs /\ meta[m] \in Docs
    BY DEF ThreeMfInv, JobsOK, DocsOK, Kept
  <1>9. ASSUME NEW r \in Jobs, job' = [job EXCEPT ![m] = r], r.at \notin {"send"} PROVE RefusedOK'
    <2>1. job'[m] = r /\ \A n \in Printed \ {m} : job'[n] = job[n]
      BY <1>9, JobTypes
    <2> QED BY <1>1, <1>2, <1>3, <1>9, <2>1 DEF RefusedOK, In
  <1>10. CASE /\ job' = [job EXCEPT ![m].at = "keep", ![m].mem.link = @ \cup {job[m].now}, ![m].answer = "none",
                                    ![m].again = TRUE, ![m].got = TRUE]
              /\ UNCHANGED meta
    <2> DEFINE links == job[m].mem.link \cup {job[m].now}
               mem == [job[m].mem EXCEPT !.link = links]
               r == [job[m] EXCEPT !.at = "keep", !.mem = mem, !.answer = "none", !.again = TRUE, !.got = TRUE]
    <2>1. links \subseteq Plate /\ job[m].mem.link \subseteq links /\ job[m].now \in links
      BY <1>1, <1>8 DEF Docs
    <2>2. mem \in Docs /\ mem.link = links /\ mem.page = job[m].mem.page
      BY <1>8, <2>1 DEF Docs
    <2>3. job' = [job EXCEPT ![m] = r]
      BY <1>10, JobTypes, ZenonT(60) DEF Jobs, Docs
    <2> HIDE DEF mem, links
    <2>4. r \in Jobs /\ r.mem = mem /\ r.at = "keep" /\ r.now = job[m].now
      BY <2>2, JobTypes, ZenonT(60) DEF Jobs, Steps
    <2> HIDE DEF r
    <2>5. meta' = [meta EXCEPT ![m] = meta[m]]
      BY <1>10 DEF ThreeMfInv, DocsOK
    <2>6. Kept(mem)
      BY <1>8, <2>2 DEF Kept
    <2> QED BY <1>1, <1>4, <1>5, <1>6, <1>7, <1>8, <1>9, <2>1, <2>2, <2>3, <2>4, <2>5, <2>6, JobMoves DEF Holding
  <1>11. CASE /\ job' = [job EXCEPT ![m].at = "next", ![m].paused = PauseAfter(job[m].answer), ![m].answer = "none"]
              /\ Save(m, job[m].mem)
    <2> DEFINE r == [job[m] EXCEPT !.at = "next", !.paused = PauseAfter(job[m].answer), !.answer = "none"]
    <2>1. PauseAfter(job[m].answer) \in {"no", "error", "limit", "verification"}
      BY DEF PauseAfter
    <2>2. r \in Jobs /\ r.mem = job[m].mem /\ r.at = "next" /\ job' = [job EXCEPT ![m] = r]
      BY <1>11, <2>1, JobTypes, ZenonT(60) DEF Jobs, Steps
    <2> HIDE DEF r
    <2> QED BY <1>1, <1>4, <1>5, <1>6, <1>7, <1>8, <1>9, <1>11, <2>2, JobMoves DEF Holding, Save
  <1> QED BY <1>10, <1>11 DEF Leave

\* The link is saved, and used for a transfer.
LEMMA TransferInv ==
  ASSUME ThreeMfInv, NEW m \in Printed, Keep(m) \/ Transferred(m) \/ TransferFails(m)
  PROVE  ThreeMfInv'
  <1>1. /\ job[m].at \in {"keep", "transfer"} /\ job[m].now \in Plate
        /\ UNCHANGED <<rewrite, used, day, doorway, cooling, browser, lives, refused>>
        /\ ~ Refused(m)
    BY DEF Keep, Transferred, TransferFails, ThreeMfInv, JobsOK, In, Refused
  <1>2. Kept(job[m].mem) /\ job[m].mem \in Docs /\ browser # m
    BY <1>1 DEF ThreeMfInv, JobsOK, Kept, Holding
  <1>3. held \subseteq Printed \X Plate /\ \A i \in Plate : <<m, i>> \in held => i \in job[m].mem.link
    BY <1>1 DEF ThreeMfInv, HeldOK, In
  <1>4. CASE Keep(m)
    <2> DEFINE r == [job[m] EXCEPT !.at = "transfer"]
    <2>1. r \in Jobs /\ r.mem = job[m].mem /\ r.at = "transfer" /\ r.now = job[m].now /\ job' = [job EXCEPT ![m] = r]
      BY <1>4, JobTypes DEF Keep, Move, Jobs, Steps
    <2> HIDE DEF r
    <2>2. job[m].now \in job[m].mem.link /\ held' = held \cup {<<m, job[m].now>>} /\ UNCHANGED saved
      BY <1>4 DEF Keep, ThreeMfInv, JobsOK
    <2>3. /\ held' \subseteq Printed \X Plate /\ \A i \in Plate : <<m, i>> \in held' => i \in job[m].mem.link
          /\ \A n \in Printed, i \in Plate : <<n, i>> \in held' /\ n # m => <<n, i>> \in held
      BY <1>1, <1>3, <2>2
    <2>4. RestOK' /\ RefusedOK'
      BY <1>1, <2>1, <2>2, RefusalKept DEF ThreeMfInv, RestOK
    <2>5. meta' = [meta EXCEPT ![m] = job[m].mem]
      BY <1>4 DEF Keep, Save
    <2> QED BY <1>1, <1>2, <2>1, <2>3, <2>4, <2>5, JobMoves DEF Holding
  <1>5. CASE Transferred(m)
    <2> DEFINE r == [job[m] EXCEPT !.at = "next"]
    <2>1. r \in Jobs /\ r.mem = job[m].mem /\ r.at = "next" /\ job' = [job EXCEPT ![m] = r]
      BY <1>5, JobTypes DEF Transferred, Move, Jobs, Steps
    <2> HIDE DEF r
    <2>2. saved' \in [Printed -> SUBSET Plate]
      <3>1. saved[m] \cup {job[m].now} \in SUBSET Plate
        BY <1>1, JobTypes
      <3> QED BY <1>5, <3>1, JobTypes DEF Transferred
    <2> QED BY <1>1, <1>5, <2>1, <2>2, JobTypes, OwnStep DEF Transferred, Save, In, Holding
  <1>6. CASE TransferFails(m)
    <2>1. PICK rejected \in BOOLEAN :
            LET mem == [job[m].mem EXCEPT !.link = LinksAfter(@, job[m].now, rejected)]
            IN  /\ Save(m, mem)
                /\ job' = [job EXCEPT ![m].mem = mem,
                              ![m].at = IF rejected /\ ~job[m].again THEN "reserve" ELSE "next"]
                /\ held' = IF rejected THEN held \ {<<m, job[m].now>>} ELSE held
      BY <1>6 DEF TransferFails
    <2> DEFINE links == LinksAfter(job[m].mem.link, job[m].now, rejected)
               mem == [job[m].mem EXCEPT !.link = links]
               place == IF rejected /\ ~job[m].again THEN "reserve" ELSE "next"
               r == [job[m] EXCEPT !.mem = mem, !.at = place]
    <2>2. links \subseteq job[m].mem.link /\ (rejected => job[m].now \notin links) /\ (~ rejected => links = job[m].mem.link)
          /\ \A i \in job[m].mem.link : i # job[m].now => i \in links
      BY DEF LinksAfter
    <2>3. mem \in Docs /\ mem.link = links /\ mem.page = job[m].mem.page
      BY <1>2, <2>2 DEF Docs
    <2>4. place \in {"reserve", "next"} /\ (place = "reserve" => rejected)
      OBVIOUS
    <2>5. Save(m, mem) /\ job' = [job EXCEPT ![m] = r] /\ held' = IF rejected THEN held \ {<<m, job[m].now>>} ELSE held
      BY <2>1, <2>3, JobTypes DEF Docs, Jobs
    <2> HIDE DEF mem, place, links
    <2>6. r \in Jobs /\ r.mem = mem /\ r.at = place /\ r.now = job[m].now
      BY ZenonT(60), <2>3, <2>4, JobTypes DEF Jobs, Steps
    <2>7. Kept(mem)
      BY <1>2, <2>3 DEF Kept
    <2> HIDE DEF r
    <2>8. /\ held' \subseteq Printed \X Plate /\ \A i \in Plate : <<m, i>> \in held' => i \in mem.link
          /\ \A n \in Printed, i \in Plate : <<n, i>> \in held' /\ n # m => <<n, i>> \in held
      BY <1>3, <2>2, <2>3, <2>5
    <2>9. RestOK' /\ RefusedOK'
      BY <1>1, <1>6, <2>4, <2>5, <2>6, RefusalKept DEF TransferFails, ThreeMfInv, RestOK
    <2> QED BY <1>1, <1>2, <2>2, <2>3, <2>4, <2>5, <2>6, <2>7, <2>8, <2>9, JobMoves DEF Holding, Save
  <1> QED BY <1>4, <1>5, <1>6

\* The job ends, or its process dies.
LEMMA JobEndsInv ==
  ASSUME ThreeMfInv, NEW m \in Printed, RunEnds(m) \/ Die(m)
  PROVE  ThreeMfInv'
  <1>1. NoJob \in Jobs /\ NoJob.at = "idle" /\ NoJob.mem = Nothing /\ Nothing \in Docs
    BY DEF NoJob, Jobs, Nothing, Docs, Steps
  <1>2. Kept(NoJob.mem)
    <2>1. Nothing.page = 0 /\ lives.refreshes \in Nat /\ meta[m].page \in Nat /\ meta[m].page + lives.refreshes <= Refreshes
      BY DEF ThreeMfInv, RestOK, DocsOK, Kept, Docs, Nothing
    <2> QED BY <1>1, <2>1, ThreeMfAssumption DEF Kept
  <1>3. job' = [job EXCEPT ![m] = NoJob] /\ UNCHANGED <<saved, rewrite, used, day, cooling, held>>
    BY DEF RunEnds, Die
  <1>4. job'[m] = NoJob /\ \A n \in Printed \ {m} : job'[n] = job[n]
    BY <1>3, JobTypes
  <1>5. held' \subseteq Printed \X Plate
        /\ \A i \in Plate : <<m, i>> \in held => i \in meta[m].link /\ (~ In(m, "idle") => i \in job[m].mem.link)
    BY <1>3 DEF ThreeMfInv, HeldOK
  <1>6. CASE RunEnds(m)
    <2>1. /\ In(m, "next") /\ Save(m, job[m].mem) /\ UNCHANGED <<browser, lives>>
          /\ doorway' \in GateAfterRun(m) /\ refused' = (refused /\ ~(doorway # "open" /\ doorway' = "open"))
      BY <1>6 DEF RunEnds
    <2>2. RestOK'
      BY <1>3, <2>1 DEF ThreeMfInv, RestOK, GateAfterRun, Doorways
    <2>3. \A n \in Printed : Refused(n) => n # m /\ Refused(n)'
      BY <1>4, <2>1 DEF Refused, In
    <2>4. RefusedOK'
      BY <1>1, <1>4, <2>1, <2>3 DEF ThreeMfInv, RefusedOK, In
    <2>5. job[m].mem \in Docs /\ Kept(job[m].mem) /\ browser # m
      BY <2>1 DEF ThreeMfInv, JobsOK, Kept, In, Holding
    <2> QED BY <1>1, <1>2, <1>3, <1>5, <2>1, <2>2, <2>4, <2>5, JobMoves DEF Save, In, Holding
  <1>7. CASE Die(m)
    <2>1. /\ UNCHANGED <<meta, doorway>> /\ browser' = (IF browser = m THEN "free" ELSE browser)
          /\ lives' = [lives EXCEPT !.kills = @ - 1] /\ lives.kills > 0
          /\ refused' = (refused /\ ~(In(m, "leave") /\ doorway = "open"))
      BY <1>7 DEF Die
    <2>2. RestOK' /\ lives'.refreshes = lives.refreshes
      BY <1>3, <2>1 DEF ThreeMfInv, RestOK
    <2>3. \A n \in Printed \ {m} : Refused(n) => Refused(n)'
      BY <1>4 DEF Refused, In
    <2>4. RefusedOK'
      <3>1. refused' => doorway' # "open" \/ \E n \in Printed : Refused(n)'
        <4> SUFFICES ASSUME refused', doorway' = "open" PROVE \E n \in Printed : Refused(n)'
          OBVIOUS
        <4>1. PICK n \in Printed : Refused(n)
          BY <2>1 DEF ThreeMfInv, RefusedOK
        <4>2. n # m
          BY <2>1, <4>1 DEF Refused
        <4> QED BY <2>3, <4>1, <4>2
      <3>2. \A n \in Printed : In(n, "send")' => ~ refused'
        BY <1>1, <1>4, <2>1 DEF ThreeMfInv, RefusedOK, In
      <3> QED BY <3>1, <3>2 DEF RefusedOK
    <2>5. meta' = [meta EXCEPT ![m] = meta[m]] /\ Kept(meta[m]) /\ meta[m] \in Docs
      BY <2>1 DEF ThreeMfInv, DocsOK, JobsOK
    <2>6. (\A n \in Printed \ {m} : browser' = n <=> browser = n) /\ browser' # m
      BY <2>1, ThreeMfAssumption
    <2> QED BY <1>1, <1>2, <1>3, <1>5, <2>2, <2>4, <2>5, <2>6, JobMoves DEF Holding
  <1> QED BY <1>6, <1>7

\* What happens around the jobs: users, time, and the source refresh.
LEMMA AccountInv ==
  ASSUME ThreeMfInv, Confirm \/ Cooled \/ Midnight
  PROVE  ThreeMfInv'
  <1>1. UNCHANGED <<meta, saved, job, rewrite, browser, lives, held>>
    BY DEF Confirm, Cooled, Midnight
  <1>2. JobsOK' /\ DocsOK' /\ HeldOK'
    BY <1>1 DEF ThreeMfInv, JobsOK, DocsOK, HeldOK, Kept, In
  <1>3. RestOK'
    <2>1. CASE Confirm \/ Cooled
      BY <1>1, <2>1 DEF ThreeMfInv, RestOK, Confirm, Cooled, Doorways
    <2>2. CASE Midnight
      <3>1. day' \in 1 .. LastDay /\ used' = 0 /\ 0 \in 0 .. DailyLimit
        BY <2>2, ThreeMfAssumption DEF ThreeMfInv, RestOK, Midnight
      <3>2. doorway' \in Doorways /\ refused' \in BOOLEAN /\ UNCHANGED cooling
        BY <2>2 DEF ThreeMfInv, RestOK, Midnight, Doorways
      <3> QED BY <1>1, <3>1, <3>2 DEF ThreeMfInv, RestOK
    <2> QED BY <2>1, <2>2
  <1>4. refused' => refused /\ (doorway # "open" => doorway' # "open")
    BY DEF Confirm, Cooled, Midnight
  <1>5. RefusedOK'
    BY <1>1, <1>4 DEF ThreeMfInv, RefusedOK, Refused, In
  <1> QED BY <1>2, <1>3, <1>5 DEF ThreeMfInv

LEMMA RefreshesInv ==
  ASSUME ThreeMfInv, NEW m \in Printed, RefreshReads(m) \/ RefreshWrites(m) \/ RefreshFails(m)
  PROVE  ThreeMfInv'
  <1>1. UNCHANGED <<saved, job, used, day, doorway, cooling, browser, refused>>
    BY DEF RefreshReads, RefreshWrites, Refetched, RefreshFails
  <1>2. RefusedOK'
    BY <1>1 DEF ThreeMfInv, RefusedOK, Refused, In
  <1>3. /\ meta \in [Printed -> Docs] /\ rewrite \in [Printed -> [at : {"idle", "read"}, old : Docs]]
        /\ meta[m] \in Docs /\ rewrite[m].old \in Docs /\ lives.refreshes \in Nat
        /\ meta[m].page \in Nat /\ rewrite[m].old.page \in Nat
    BY DEF ThreeMfInv, DocsOK, RestOK, Docs
  <1>4. Nothing \in Docs /\ Nothing.page = 0 /\ meta[m].page + lives.refreshes <= Refreshes
    BY DEF Nothing, Docs, ThreeMfInv, DocsOK, Kept
  <1>5. CASE RefreshReads(m)
    <2> DEFINE x == [at |-> "read", old |-> meta[m]]
    <2>1. /\ lives.refreshes > 0 /\ lives' = [lives EXCEPT !.refreshes = @ - 1]
          /\ rewrite' = [rewrite EXCEPT ![m] = x] /\ UNCHANGED <<meta, held>>
      BY <1>5 DEF RefreshReads
    <2>2. RestOK' /\ lives'.refreshes = lives.refreshes - 1 /\ lives'.refreshes \in Nat
      BY <1>1, <1>3, <2>1 DEF ThreeMfInv, RestOK
    <2>3. JobsOK' /\ HeldOK'
      <3>1. \A n \in Printed : Kept(job[n].mem)'
        <4> TAKE n \in Printed
        <4>1. job[n].mem \in Docs /\ job[n].mem.page \in Nat /\ job[n].mem.page + lives.refreshes <= Refreshes
          BY DEF ThreeMfInv, JobsOK, Kept, Docs
        <4> QED BY <1>1, <1>3, <2>2, <4>1, ThreeMfAssumption DEF Kept
      <3> QED BY <1>1, <2>1, <3>1 DEF ThreeMfInv, JobsOK, HeldOK, In
    <2>4. DocsOK'
      <3>1. /\ rewrite' \in [Printed -> [at : {"idle", "read"}, old : Docs]] /\ rewrite'[m] = x
            /\ \A n \in Printed \ {m} : rewrite'[n] = rewrite[n]
        BY <1>3, <2>1
      <3>2. x.old = meta[m]
        OBVIOUS
      <3> HIDE DEF x
      <3>3. ASSUME NEW n \in Printed
            PROVE  /\ Kept(meta[n])' /\ Kept(rewrite[n].old)'
                   /\ rewrite'[n].at = "read" => rewrite'[n].old.page + 1 + lives'.refreshes <= Refreshes
        <4>1. /\ meta[n] \in Docs /\ meta[n].page \in Nat /\ meta[n].page + lives.refreshes <= Refreshes
              /\ rewrite[n].old \in Docs /\ rewrite[n].old.page \in Nat /\ rewrite[n].old.page + lives.refreshes <= Refreshes
              /\ rewrite[n].at = "read" => rewrite[n].old.page + 1 + lives.refreshes <= Refreshes
          BY DEF ThreeMfInv, DocsOK, Kept, Docs
        <4>2. CASE n = m
          BY <1>3, <1>4, <2>1, <2>2, <3>1, <3>2, <4>1, <4>2, ThreeMfAssumption DEF Kept
        <4>3. CASE n # m
          BY <1>3, <2>1, <2>2, <3>1, <4>1, <4>3, ThreeMfAssumption DEF Kept
        <4> QED BY <4>2, <4>3
      <3> QED BY <1>3, <2>1, <3>1, <3>3 DEF DocsOK
    <2> QED BY <1>2, <2>2, <2>3, <2>4 DEF ThreeMfInv
  <1>6. ASSUME NEW d \in Docs, Kept(d), meta' = [meta EXCEPT ![m] = d], rewrite' = [rewrite EXCEPT ![m] = NoRefresh],
               UNCHANGED lives, held' \subseteq held, \A i \in Plate : <<m, i>> \in held' => i \in d.link
        PROVE  ThreeMfInv'
    <2>1. RestOK' /\ JobsOK'
      BY <1>1, <1>6 DEF ThreeMfInv, RestOK, JobsOK, Kept, In
    <2>2. NoRefresh \in [at : {"idle", "read"}, old : Docs] /\ NoRefresh.at = "idle" /\ NoRefresh.old = Nothing
      BY <1>4 DEF NoRefresh
    <2>3. /\ meta' \in [Printed -> Docs] /\ rewrite' \in [Printed -> [at : {"idle", "read"}, old : Docs]]
          /\ \A n \in Printed : meta'[n] = IF n = m THEN d ELSE meta[n]
          /\ \A n \in Printed : rewrite'[n] = IF n = m THEN NoRefresh ELSE rewrite[n]
      BY <1>3, <1>6, <2>2
    <2>4. Kept(Nothing)
      BY <1>3, <1>4, ThreeMfAssumption DEF Kept
    <2>5. DocsOK'
      BY <1>6, <2>2, <2>3, <2>4 DEF ThreeMfInv, DocsOK, Kept
    <2>6. HeldOK'
      BY <1>1, <1>6, <2>3 DEF ThreeMfInv, HeldOK, In
    <2> QED BY <1>2, <2>1, <2>5, <2>6 DEF ThreeMfInv
  <1>7. CASE RefreshWrites(m)
    <2> DEFINE d == [link |-> rewrite[m].old.link \cap saved[m], page |-> rewrite[m].old.page + 1]
    <2>1. /\ meta' = [meta EXCEPT ![m] = d] /\ rewrite' = [rewrite EXCEPT ![m] = NoRefresh]
          /\ UNCHANGED lives /\ held' = {h \in held : h[1] # m} /\ rewrite[m].at = "read"
      BY <1>7 DEF RefreshWrites, Refetched, Save
    <2>2. d \in Docs /\ Kept(d)
      BY <1>3, <2>1 DEF Docs, Kept, ThreeMfInv, DocsOK
    <2>3. held' \subseteq held /\ \A i \in Plate : <<m, i>> \notin held'
      BY <2>1
    <2> HIDE DEF d
    <2> QED BY <1>6, <2>1, <2>2, <2>3
  <1>8. CASE RefreshFails(m)
    <2>1. /\ meta' = [meta EXCEPT ![m] = rewrite[m].old] /\ rewrite' = [rewrite EXCEPT ![m] = NoRefresh]
          /\ UNCHANGED lives /\ held' = {h \in held : h[1] # m \/ h[2] \in rewrite[m].old.link}
      BY <1>8 DEF RefreshFails, Save
    <2>2. Kept(rewrite[m].old)
      BY DEF ThreeMfInv, DocsOK
    <2>3. held' \subseteq held /\ \A i \in Plate : <<m, i>> \in held' => i \in rewrite[m].old.link
      BY <2>1
    <2> QED BY <1>3, <1>6, <2>1, <2>2, <2>3
  <1> QED BY <1>5, <1>7, <1>8

LEMMA ThreeMfStepInv == ThreeMfInv /\ [ThreeMfNext]_threeMfVars => ThreeMfInv'
  <1> SUFFICES ASSUME ThreeMfInv, [ThreeMfNext]_threeMfVars PROVE ThreeMfInv'
    OBVIOUS
  <1>1. CASE \E m \in Printed : Retry(m) \/ JobStep(m) \/ Die(m)
    BY <1>1, RetryInv, LoopInv, EnterInv, RecheckInv, AskInv, LeaveInv, TransferInv, JobEndsInv DEF JobStep
  <1>2. CASE \E m \in Printed : RefreshReads(m) \/ RefreshWrites(m) \/ RefreshFails(m)
    BY <1>2, RefreshesInv
  <1>3. CASE Confirm \/ Cooled \/ Midnight
    BY <1>3, AccountInv
  <1>4. CASE UNCHANGED threeMfVars
    BY <1>4 DEF threeMfVars, ThreeMfInv, JobsOK, DocsOK, RestOK, HeldOK, RefusedOK, Refused, Kept, In
  <1> QED BY <1>1, <1>2, <1>3, <1>4 DEF ThreeMfNext

LEMMA ThreeMfInitInv == ThreeMfInit => ThreeMfInv
  <1> SUFFICES ASSUME ThreeMfInit PROVE ThreeMfInv
    OBVIOUS
  <1>1. /\ meta = [m \in Printed |-> Nothing] /\ job = [m \in Printed |-> NoJob] /\ rewrite = [m \in Printed |-> NoRefresh]
        /\ lives = [kills |-> Kills, refreshes |-> Refreshes] /\ browser = "free" /\ held = {} /\ refused = FALSE
    BY DEF ThreeMfInit
  <1>2. Nothing \in Docs /\ Nothing.page = 0
    BY DEF Nothing, Docs
  <1>3. Kept(Nothing)
    BY <1>1, <1>2, ThreeMfAssumption DEF Kept
  <1>4. NoJob \in Jobs /\ NoJob.at = "idle" /\ NoJob.mem = Nothing
    BY <1>2 DEF NoJob, Jobs, Steps
  <1>5. NoRefresh \in [at : {"idle", "read"}, old : Docs] /\ NoRefresh.at = "idle" /\ NoRefresh.old = Nothing
    BY <1>2 DEF NoRefresh
  <1>6. JobsOK
    BY <1>1, <1>3, <1>4, ThreeMfAssumption DEF JobsOK, Holding, In
  <1>7. DocsOK
    BY <1>1, <1>2, <1>3, <1>5 DEF DocsOK
  <1>8. RestOK
    <2>1. 1 \in 1 .. LastDay /\ 0 \in 0 .. DailyLimit
      BY ThreeMfAssumption
    <2>2. lives \in [kills : Nat, refreshes : Nat]
      BY <1>1, ThreeMfAssumption
    <2> QED BY <1>1, <2>1, <2>2 DEF ThreeMfInit, RestOK, Doorways
  <1>9. HeldOK /\ RefusedOK
    BY <1>1, <1>4 DEF HeldOK, RefusedOK, In
  <1> QED BY <1>6, <1>7, <1>8, <1>9 DEF ThreeMfInv

LEMMA AlwaysThreeMfInv == ThreeMfSpec => []ThreeMfInv
  BY ThreeMfInitInv, ThreeMfStepInv, PTL DEF ThreeMfSpec

LEMMA ThreeMfTypes == ThreeMfInv => ThreeMfTypeOK
  <1> SUFFICES ASSUME ThreeMfInv PROVE ThreeMfTypeOK
    OBVIOUS
  <1>1. \A d \in Docs : Kept(d) => d \in Document
    BY ThreeMfAssumption DEF ThreeMfInv, RestOK, Docs, Kept, Document
  <1>2. \A m \in Printed : /\ job[m].mem \in Document /\ job[m].todo \subseteq Plate
                           /\ job[m].now \in Plate \cup {"none"} /\ job[m].answer \in Answers \cup {"none"}
                           /\ rewrite[m].old \in Document /\ meta[m] \in Document
                           /\ (job[m].at \in {"wait", "send", "leave"} <=> browser = m)
    BY <1>1 DEF ThreeMfInv, JobsOK, Jobs, DocsOK, Kept, Holding
  <1>3. meta \in [Printed -> Document]
    BY <1>2 DEF ThreeMfInv, DocsOK
  <1> QED BY <1>2, <1>3 DEF ThreeMfTypeOK, ThreeMfInv, RestOK, Doorways

(***************************************************************************)
(* The variables of the 3MF stage keep their types: of a day no more than  *)
(* DailyLimit authorizations are reserved, whatever jobs run side by side  *)
(* and die (reserve_three_mf_download_slot), and the browser is with the   *)
(* job that has taken it.                                                  *)
(***************************************************************************)
THEOREM ThreeMfTypeCorrect == ThreeMfSpec => []ThreeMfTypeOK
  BY AlwaysThreeMfInv, ThreeMfTypes, PTL

(***************************************************************************)
(* No authorization is reserved for an instance whose link was saved and   *)
(* not rejected, whatever job dies between the link and the file, and      *)
(* whatever a source refresh writes over meta.json (_ensure_three_mf).     *)
(***************************************************************************)
THEOREM SavedLinksAreReused == ThreeMfSpec => LinkReused
  <1>1. ThreeMfInv /\ [ThreeMfNext]_threeMfVars =>
          [\A m \in Printed : In(m, "reserve") /\ used' = used + 1 => <<m, job[m].now>> \notin held]_threeMfVars
    <2> SUFFICES ASSUME ThreeMfInv, NEW m \in Printed, In(m, "reserve") PROVE <<m, job[m].now>> \notin held
      OBVIOUS
    <2>1. job[m].now \in Plate /\ job[m].now \notin job[m].mem.link
      BY DEF ThreeMfInv, JobsOK, In
    <2> QED BY <2>1 DEF ThreeMfInv, HeldOK, In
  <1> QED BY <1>1, AlwaysThreeMfInv, PTL DEF ThreeMfSpec, LinkReused

(***************************************************************************)
(* After an answer that asks for a verification or names the limit no job  *)
(* sends a request until the gate is opened: it is closed before the lock  *)
(* of the browser is free, and looked at under that lock.                  *)
(***************************************************************************)
THEOREM RefusalsHold == ThreeMfSpec => RefusalHolds
  <1>1. ThreeMfInv /\ [ThreeMfNext]_threeMfVars =>
          [\A m \in Printed : In(m, "send") /\ job'[m].at = "leave" => ~refused]_threeMfVars
    BY DEF ThreeMfInv, RefusedOK
  <1> QED BY <1>1, AlwaysThreeMfInv, PTL DEF ThreeMfSpec, RefusalHolds

-----------------------------------------------------------------------------
(***************************************************************************)
(* LocalImport.  The invariant behind its theorems: a worker that is past  *)
(* the metadata of a file works on a file that is in the library.          *)
(***************************************************************************)
SourcePlaces == {"away", "folder", "aside", "gone"}
ImportStatuses == {"none", "queued", "running", "failed", "blocked", "success", "skipped"}
Workers == [at : {"off", "exited"} \cup FileSteps \cup PackageSteps, item : Item]

WorkerOK(x, imported) ==
    /\ x \in Workers
    /\ x.at \in FileSteps => x.item \in Files
    /\ x.at \in PackageSteps => x.item \in Packages
    /\ x.at \in {"forget", "show", "unlink"} => x.item \in imported
WorkersOK == worker \in [Slot -> Workers] /\ \A w \in Slot : WorkerOK(worker[w], library)
ImportInv ==
    /\ source \in [Item -> SourcePlaces] /\ task \in [Item -> ImportStatuses]
    /\ library \subseteq Item /\ index \in {"absent", "with", "without"}
    /\ staging \subseteq Packages /\ troubles \in 0 .. Troubles
    /\ WorkersOK /\ NothingLost

LEMMA NobodyWorks == NoWorker \in Workers /\ NoWorker.at = "off" /\ \A imported : WorkerOK(NoWorker, imported)
  <1>1. (CHOOSE i \in Item : TRUE) \in Item
    BY ImportAssumption DEF Item
  <1> QED BY <1>1 DEF NoWorker, Workers, WorkerOK, FileSteps, PackageSteps

\* A step that loses no source.
LEMMA ImportMoves ==
  ASSUME ImportInv, source' \in [Item -> SourcePlaces], task' \in [Item -> ImportStatuses],
         library \subseteq library', library' \subseteq Item, index' \in {"absent", "with", "without"},
         staging' \subseteq Packages, troubles' \in 0 .. Troubles, WorkersOK',
         \A i \in Item : source'[i] = "gone" => source[i] = "gone" \/ SameContent(i) \cap library # {}
  PROVE  ImportInv'
  <1>1. NothingLost'
    <2> SUFFICES ASSUME NEW i \in Item, source'[i] = "gone" PROVE SameContent(i) \cap library' # {}
      BY DEF NothingLost, SameContent
    <2> QED BY DEF ImportInv, NothingLost
  <1> QED BY <1>1 DEF ImportInv

LEMMA ImportTypes ==
  ASSUME ImportInv
  PROVE  /\ source \in [Item -> SourcePlaces] /\ task \in [Item -> ImportStatuses] /\ library \subseteq Item
         /\ index \in {"absent", "with", "without"} /\ staging \subseteq Packages /\ troubles \in 0 .. Troubles
         /\ worker \in [Slot -> Workers] /\ (Trouble => troubles' \in 0 .. Troubles)
         /\ \A i \in Item : \A status \in ImportStatuses : Marked(i, status) \in [Item -> ImportStatuses]
         /\ \A i \in Item : Aside(i) \in [Item -> SourcePlaces] /\ \A j \in Item : Aside(i)[j] = "gone" => source[j] = "gone"
  BY ImportAssumption DEF ImportInv, WorkersOK, Marked, Aside, SourcePlaces, Trouble

\* One worker goes on or ends, and the other stays where it is.
LEMMA WorkerMoves ==
  ASSUME ImportInv, NEW w \in Slot, NEW x \in Workers, WorkerOK(x, library'), library \subseteq library',
         worker' = [worker EXCEPT ![w] = x]
  PROVE  WorkersOK'
  <1>1. worker' \in [Slot -> Workers] /\ \A v \in Slot : worker'[v] = IF v = w THEN x ELSE worker[v]
    BY DEF ImportInv, WorkersOK
  <1> QED BY <1>1 DEF ImportInv, WorkersOK, WorkerOK

LEMMA WorkerGoes ==
  ASSUME ImportInv, NEW w \in Slot, NEW place \in FileSteps \cup PackageSteps, Goes(w, place), library \subseteq library',
         place \in FileSteps => worker[w].item \in Files, place \in PackageSteps => worker[w].item \in Packages,
         place \in {"forget", "show", "unlink"} => worker[w].item \in library'
  PROVE  WorkersOK'
  <1> DEFINE x == [worker[w] EXCEPT !.at = place]
  <1>1. x \in Workers /\ x.at = place /\ x.item = worker[w].item
    BY DEF ImportInv, WorkersOK, Workers
  <1>2. worker' = [worker EXCEPT ![w] = x]
    BY DEF Goes, ImportInv, WorkersOK
  <1> HIDE DEF x
  <1>3. WorkerOK(x, library')
    BY <1>1 DEF WorkerOK
  <1> QED BY <1>1, <1>2, <1>3, WorkerMoves

LEMMA WorkerExits ==
  ASSUME ImportInv, NEW w \in Slot, Exits(w), library \subseteq library'
  PROVE  WorkersOK'
  <1>1. CASE worker' = [worker EXCEPT ![2] = NoWorker]
    BY <1>1, NobodyWorks, WorkerMoves DEF Slot
  <1>2. CASE Goes(w, "exited")
    <2> DEFINE x == [worker[w] EXCEPT !.at = "exited"]
    <2>1. x \in Workers /\ x.at = "exited"
      BY DEF ImportInv, WorkersOK, Workers
    <2>2. worker' = [worker EXCEPT ![w] = x]
      BY <1>2 DEF Goes, ImportInv, WorkersOK
    <2> HIDE DEF x
    <2>3. WorkerOK(x, library')
      BY <2>1 DEF WorkerOK, FileSteps, PackageSteps
    <2> QED BY <2>1, <2>2, <2>3, WorkerMoves
  <1> QED BY <1>1, <1>2 DEF Exits

\* The steps of a worker with a file.  Only the last but one removes a source, and only
\* then when the file is in the library.
LEMMA FileStepInv ==
  ASSUME ImportInv, NEW w \in Slot, FileStep(w, worker[w].item)
  PROVE  ImportInv'
  <1> DEFINE f == worker[w].item
  <1>1. worker[w].at \in FileSteps /\ f \in Files /\ f \in Item
    <2>1. worker[w].at \in FileSteps
      BY DEF FileStep, Check, Skip, Copy, WriteMeta, ForgetIndex, Show, Unlink, Done, RememberIndex, At, FileSteps
    <2> QED BY <2>1 DEF ImportInv, WorkersOK, WorkerOK, Item
  <1>2. {"running", "skipped", "failed", "success"} \subseteq ImportStatuses
        /\ {"skip", "copy", "meta", "forget", "show", "unlink", "done", "remember"} \subseteq FileSteps
        /\ \A place \in FileSteps : place \notin PackageSteps
    BY DEF ImportStatuses, FileSteps, PackageSteps
  <1>3. \A place \in FileSteps \ {"forget", "show", "unlink"} : Goes(w, place) /\ library \subseteq library' => WorkersOK'
    BY <1>1, <1>2, WorkerGoes
  <1>4. (Exits(w) \/ Fails(w)) /\ library \subseteq library' => WorkersOK'
    BY WorkerExits DEF Fails
  <1>5. Fails(w) => task' \in [Item -> ImportStatuses]
    BY <1>1, <1>2, ImportTypes DEF Fails
  <1>6. CASE Check(w, f)
    <2>1. WorkersOK' /\ UNCHANGED <<library, staging, troubles>>
      BY <1>2, <1>3, <1>4, <1>6 DEF Check
    <2>2. source' \in [Item -> SourcePlaces] /\ \A i \in Item : source'[i] = "gone" => source[i] = "gone"
      BY <1>1, <1>6, ImportTypes DEF Check
    <2>3. task' \in [Item -> ImportStatuses] /\ index' \in {"absent", "with", "without"}
      BY <1>1, <1>2, <1>6, ImportTypes DEF Check, Loaded
    <2> QED BY <2>1, <2>2, <2>3, ImportTypes, ImportMoves
  <1>7. CASE Skip(w, f) \/ Done(w, f) \/ Show(w, f)
    <2>1. UNCHANGED <<Files_>>
      BY <1>7 DEF Skip, Done, Show
    <2>2. task' \in [Item -> ImportStatuses] /\ troubles' \in 0 .. Troubles
      BY <1>1, <1>2, <1>5, <1>7, ImportTypes DEF Skip, Done, Show
    <2>3. WorkersOK'
      <3>1. CASE Goes(w, "unlink") /\ At(w, "show")
        <4>1. f \in library' /\ library \subseteq library'
          BY <2>1, <3>1 DEF Files_, ImportInv, WorkersOK, WorkerOK, At
        <4> QED BY <1>1, <1>2, <3>1, <4>1, WorkerGoes
      <3>2. CASE Exits(w) \/ Fails(w) \/ Goes(w, "remember")
        BY <1>2, <1>3, <1>4, <2>1, <3>2 DEF Files_
      <3> QED BY <1>7, <3>1, <3>2 DEF Skip, Done, Show
    <2> QED BY <2>1, <2>2, <2>3, ImportTypes, ImportMoves DEF Files_
  <1>8. CASE Copy(w, f)
    <2>1. WorkersOK' /\ UNCHANGED <<library, index, staging>>
      BY <1>2, <1>3, <1>4, <1>8 DEF Copy
    <2>2. source' = source /\ task' \in [Item -> ImportStatuses] /\ troubles' \in 0 .. Troubles
      <3>1. Marked(f, "running") \in [Item -> ImportStatuses]
        BY <1>1, <1>2, ImportTypes
      <3> QED BY <1>5, <1>8, <3>1, ImportTypes DEF Copy, SourceAfterCopy
    <2> QED BY <2>1, <2>2, ImportTypes, ImportMoves
  <1>9. CASE WriteMeta(w, f)
    <2>1. library \subseteq library' /\ library' \subseteq Item /\ UNCHANGED <<source, index, staging>>
      BY <1>1, <1>9, ImportTypes DEF WriteMeta, Catalogued
    <2>2. task' \in [Item -> ImportStatuses] /\ troubles' \in 0 .. Troubles
      BY <1>5, <1>9, ImportTypes DEF WriteMeta, Catalogued
    <2>3. WorkersOK'
      <3>1. CASE library' = library \cup {f} /\ Goes(w, "forget")
        BY <1>1, <1>2, <2>1, <3>1, WorkerGoes
      <3>2. CASE Fails(w)
        BY <1>4, <2>1, <3>2
      <3> QED BY <1>9, <3>1, <3>2 DEF WriteMeta, Catalogued
    <2> QED BY <2>1, <2>2, <2>3, ImportTypes, ImportMoves
  <1>10. CASE ForgetIndex(w, f) \/ RememberIndex(w, f)
    <2>1. UNCHANGED <<source, task, library, staging, troubles>> /\ index' \in {"absent", "with", "without"}
      BY <1>10 DEF ForgetIndex, RememberIndex
    <2>2. WorkersOK'
      <3>1. CASE At(w, "forget") /\ Goes(w, "show")
        <4>1. f \in library' /\ library \subseteq library'
          BY <2>1, <3>1 DEF ImportInv, WorkersOK, WorkerOK, At
        <4> QED BY <1>1, <1>2, <3>1, <4>1, WorkerGoes
      <3> QED BY <1>4, <1>10, <2>1, <3>1 DEF ForgetIndex, RememberIndex
    <2> QED BY <2>1, <2>2, ImportTypes, ImportMoves
  <1>11. CASE Unlink(w, f)
    <2>1. UNCHANGED <<task, library, index, staging, troubles>> /\ WorkersOK'
      BY <1>2, <1>3, <1>11 DEF Unlink
    <2>2. f \in library /\ SameContent(f) = Files
      BY <1>1, <1>11 DEF Unlink, At, ImportInv, WorkersOK, WorkerOK, SameContent
    <2>3. source' \in [Item -> SourcePlaces] /\ \A i \in Item : source'[i] = "gone" => source[i] = "gone" \/ i = f
      BY <1>1, <1>11, ImportTypes DEF Unlink, SourcePlaces
    <2> QED BY <1>1, <2>1, <2>2, <2>3, ImportTypes, ImportMoves
  <1> QED BY <1>6, <1>7, <1>8, <1>9, <1>10, <1>11 DEF FileStep

\* The steps of a worker with a package, whose source only ever goes aside.
LEMMA PackageStepInv ==
  ASSUME ImportInv, NEW w \in Slot, PackageStep(w, worker[w].item)
  PROVE  ImportInv'
  <1> DEFINE p == worker[w].item
  <1>1. worker[w].at \in PackageSteps /\ p \in Packages /\ p \in Item
    <2>1. worker[w].at \in PackageSteps
      BY DEF PackageStep, Lock, Import, Write, Reveal, MoveAside, At, PackageSteps
    <2> QED BY <2>1 DEF ImportInv, WorkersOK, WorkerOK, Item
  <1>2. {"running", "skipped", "failed", "success"} \subseteq ImportStatuses
        /\ {"import", "write", "reveal", "aside"} \subseteq PackageSteps
        /\ \A place \in PackageSteps : place \notin FileSteps /\ place \notin {"forget", "show", "unlink"}
    BY DEF ImportStatuses, FileSteps, PackageSteps
  <1>3. \A place \in PackageSteps : Goes(w, place) /\ library \subseteq library' => WorkersOK'
    BY <1>1, <1>2, WorkerGoes
  <1>4. (Exits(w) \/ Fails(w)) /\ library \subseteq library' => WorkersOK'
    BY WorkerExits DEF Fails
  <1>5. Fails(w) => task' \in [Item -> ImportStatuses]
    BY <1>1, <1>2, ImportTypes DEF Fails
  <1>6. library \subseteq library' /\ library' \subseteq Item
    BY <1>1, ImportTypes DEF PackageStep, Lock, Import, Write, Reveal, MoveAside, Files_, Catalogued, Staged, HasDuplicates
  <1>7. WorkersOK'
    BY <1>2, <1>3, <1>4, <1>6 DEF PackageStep, Lock, Import, Write, Reveal, MoveAside, Catalogued, Staged, HasDuplicates
  <1>8. task' \in [Item -> ImportStatuses]
    <2>1. \A status \in {"running", "skipped", "success"} : Marked(p, status) \in [Item -> ImportStatuses]
      BY <1>1, <1>2, ImportTypes
    <2> QED BY <1>5, <2>1, ImportTypes DEF PackageStep, Lock, Import, Write, Reveal, MoveAside, Files_, Catalogued, Staged, HasDuplicates
  <1>9. /\ index' \in {"absent", "with", "without"} /\ staging' \subseteq Packages /\ troubles' \in 0 .. Troubles
    BY ImportTypes DEF PackageStep, Lock, Import, Write, Reveal, MoveAside, Files_, Catalogued, Staged, HasDuplicates
  <1>10. source' \in [Item -> SourcePlaces] /\ \A i \in Item : source'[i] = "gone" => source[i] = "gone"
    BY <1>1, ImportTypes DEF PackageStep, Lock, Import, Write, Reveal, MoveAside, Files_, Catalogued, Staged, HasDuplicates
  <1> QED BY <1>6, <1>7, <1>8, <1>9, <1>10, ImportMoves

\* The daemon hands a worker an item of its kind.
LEMMA DaemonInv ==
  ASSUME ImportInv, Daemon \/ StopWorker
  PROVE  ImportInv'
  <1>1. 1 \in Slot /\ UNCHANGED library /\ index' \in {"absent", "with", "without"} /\ troubles' \in 0 .. Troubles
    BY ImportTypes DEF Daemon, SpawnPackageWorker, SyncCandidates, PollWorker, StopWorker, Slot, Files_
  <1>2. \A i \in Item, step \in {"lock", "check"} :
          Spawn(i, step) /\ (step = "lock" => i \in Packages) /\ (step = "check" => i \in Files) => WorkersOK'
    <2> SUFFICES ASSUME NEW i \in Item, NEW step \in {"lock", "check"}, Spawn(i, step),
                        step = "lock" => i \in Packages, step = "check" => i \in Files
                 PROVE  WorkersOK'
      OBVIOUS
    <2> DEFINE x == [at |-> step, item |-> i]
    <2>1. x \in Workers /\ x.at = step /\ x.item = i
      BY DEF Workers, FileSteps, PackageSteps
    <2>2. worker' = [worker EXCEPT ![1] = x]
      BY DEF Spawn
    <2> HIDE DEF x
    <2>3. WorkerOK(x, library')
      BY <2>1 DEF WorkerOK, FileSteps, PackageSteps
    <2> QED BY <1>1, <2>1, <2>2, <2>3, WorkerMoves
  <1>3. worker' = [worker EXCEPT ![1] = NoWorker] => WorkersOK'
    BY <1>1, NobodyWorks, WorkerMoves
  <1>4. worker' = worker => WorkersOK'
    BY <1>1 DEF ImportInv, WorkersOK
  <1>5. worker[1].item \in Item
    BY <1>1, ImportTypes DEF Workers
  <1>6. CASE SpawnPackageWorker
    <2>1. WorkersOK'
      BY <1>2, <1>6 DEF SpawnPackageWorker, Item
    <2>2. task' \in [Item -> ImportStatuses] /\ staging' \subseteq Packages /\ source' = source
      BY <1>6, ImportTypes DEF SpawnPackageWorker, Requeued, ImportStatuses
    <2> QED BY <1>1, <2>1, <2>2, ImportTypes, ImportMoves
  <1>7. CASE SyncCandidates
    <2>1. WorkersOK'
      BY <1>2, <1>4, <1>7 DEF SyncCandidates, Actionable, Item
    <2>2. source' \in [Item -> SourcePlaces] /\ \A i \in Item : source'[i] = "gone" => source[i] = "gone"
      BY <1>7, ImportTypes DEF SyncCandidates
    <2>3. task' \in [Item -> ImportStatuses] /\ staging' = staging
      BY <1>7, ImportTypes DEF SyncCandidates, ImportStatuses
    <2> QED BY <1>1, <2>1, <2>2, <2>3, ImportTypes, ImportMoves
  <1>8. CASE PollWorker \/ StopWorker
    <2>1. WorkersOK' /\ source' = source /\ staging' = staging
      BY <1>3, <1>8 DEF PollWorker, StopWorker, Files_
    <2>2. \A i \in Item : Recovered(i) \in ImportStatuses
      BY ImportTypes DEF Recovered, ImportStatuses
    <2>3. task' \in [Item -> ImportStatuses]
      <3>1. {"blocked", "failed"} \subseteq ImportStatuses
        BY DEF ImportStatuses
      <3> QED BY <1>5, <1>8, <2>2, <3>1, ImportTypes DEF PollWorker, StopWorker
    <2> QED BY <1>1, <2>1, <2>3, ImportTypes, ImportMoves
  <1> QED BY <1>6, <1>7, <1>8 DEF Daemon

LEMMA ImportStepInv == ImportInv /\ [ImportNext]_importVars => ImportInv'
  <1> SUFFICES ASSUME ImportInv, [ImportNext]_importVars PROVE ImportInv'
    OBVIOUS
  <1>1. CASE Daemon \/ StopWorker
    BY <1>1, DaemonInv
  <1>2. CASE ExpireIndex \/ \E i \in Item : Arrive(i) \/ CleanupStaging(i)
    <2>1. /\ UNCHANGED <<task, library, worker, troubles>> /\ index' \in {"absent", "with", "without"}
          /\ staging' \subseteq Packages
      BY <1>2, ImportTypes DEF ExpireIndex, Arrive, CleanupStaging
    <2>2. source' \in [Item -> SourcePlaces] /\ \A i \in Item : source'[i] = "gone" => source[i] = "gone"
      BY <1>2, ImportTypes, ZenonT(60) DEF ExpireIndex, Arrive, CleanupStaging, SourcePlaces
    <2>3. WorkersOK'
      BY <2>1 DEF ImportInv, WorkersOK
    <2> QED BY <2>1, <2>2, <2>3, ImportTypes, ImportMoves
  <1>3. CASE \E w \in Slot : WorkerStep(w)
    BY <1>3, FileStepInv, PackageStepInv DEF WorkerStep
  <1>4. CASE \E w \in Slot : WorkerDies(w)
    <2>1. PICK w \in Slot : WorkerDies(w)
      BY <1>4
    <2>2. WorkersOK' /\ UNCHANGED <<Files_, task>>
      BY <2>1, WorkerExits DEF WorkerDies, Files_
    <2> QED BY <2>1, <2>2, ImportTypes, ImportMoves DEF WorkerDies, Files_
  <1>5. CASE DaemonDies \/ Restart
    <2>1. UNCHANGED <<Files_, task>> /\ Trouble
      BY <1>5 DEF DaemonDies, Restart
    <2>2. \A w \in Slot : worker'[w] \in {NoWorker, worker[1]} /\ 1 \in Slot /\ 2 \in Slot
      BY <1>5, ImportTypes DEF DaemonDies, Restart, Slot
    <2>3. worker' \in [Slot -> Workers]
      BY <1>5, <2>2, NobodyWorks, ImportTypes DEF DaemonDies, Restart
    <2>4. WorkersOK'
      BY <2>1, <2>2, <2>3, NobodyWorks DEF ImportInv, WorkersOK, Files_
    <2> QED BY <2>1, <2>4, ImportTypes, ImportMoves DEF Files_
  <1>6. CASE ClearTasks
    <2>1. UNCHANGED <<Files_, worker>> /\ Trouble /\ task' \in [Item -> ImportStatuses]
      BY <1>6 DEF ClearTasks, ImportStatuses
    <2>2. WorkersOK'
      BY <2>1 DEF ImportInv, WorkersOK, Files_
    <2> QED BY <2>1, <2>2, ImportTypes, ImportMoves DEF Files_
  <1>7. CASE UNCHANGED importVars
    BY <1>7 DEF importVars, ImportInv, WorkersOK, NothingLost
  <1> QED BY <1>1, <1>2, <1>3, <1>4, <1>5, <1>6, <1>7 DEF ImportNext

LEMMA ImportInitInv == ImportInit => ImportInv
  BY NobodyWorks, ImportAssumption
     DEF ImportInit, ImportInv, SourcePlaces, ImportStatuses, WorkersOK, NothingLost

LEMMA AlwaysImportInv == ImportSpec => []ImportInv
  BY ImportInitInv, ImportStepInv, PTL DEF ImportSpec

LEMMA ImportInvTypes == ImportInv => ImportTypeOK
  BY DEF ImportInv, WorkersOK, SourcePlaces, ImportStatuses, Workers, ImportTypeOK

(***************************************************************************)
(* The variables of the import keep their types.                           *)
(***************************************************************************)
THEOREM ImportTypeCorrect == ImportSpec => []ImportTypeOK
  BY AlwaysImportInv, ImportInvTypes, PTL

(***************************************************************************)
(* A file that is gone from the import folder has its content in the       *)
(* library, however many files lie there, and however often workers and    *)
(* daemons die, outlive each other and are stopped: _organize_file copies  *)
(* before it writes the metadata, and removes the source last.             *)
(***************************************************************************)
THEOREM NoImportIsLost == ImportSpec => []NothingLost
  <1>1. ImportInv => NothingLost
    BY DEF ImportInv
  <1> QED BY <1>1, AlwaysImportInv, PTL

-----------------------------------------------------------------------------
(***************************************************************************)
(* The batches.  A thread that runs a parent has it to itself and the      *)
(* parent expects nothing yet; the refresh is one thread's; what it judges *)
(* are parents that are still waiting for the children they waited for,    *)
(* and a child it has seen outside of the queue is put back by nobody but  *)
(* the refresh itself.  A merge that overwrote the queue undoes all this.  *)
(***************************************************************************)
RunPlaces == {"scan", "index", "enqueue", "expect"}
ThreadPlaces == RefreshPlaces \cup RunPlaces \cup {"off", "loop", "lease", "polling", "child", "archived"}
ThreadState == [at : ThreadPlaces, task : BatchModel \cup Parent \cup {NoTask}, models : SUBSET BatchModel]
BatchShape ==
    /\ jobs \in BatchJobs
    /\ view \in [jobs : BatchJobs, verdict : [Parent -> [BatchModel -> Verdicts]]]
    /\ threadAt \in [Thread -> ThreadState]
    /\ \A w \in Thread : /\ threadAt[w].at \in RunPlaces => threadAt[w].task \in Parent
                         /\ threadAt[w].at \in {"child", "archived"} => threadAt[w].task \in BatchModel
    /\ overwritten \in BOOLEAN
OneRefresher ==
    \A v, w \in Thread : threadAt[v].at \in RefreshPlaces /\ threadAt[w].at \in RefreshPlaces => v = w
Applies == \E w \in Thread : ThreadIs(w, "apply")
Judges == \E w \in Thread : ThreadIs(w, "judge")
TriesLeft ==
    Applies => \A p \in ToJudge : \A k \in ToRequeue(p) : view.jobs.tries[p][k] \in 1 .. Passing - 1
RunsAlone ==
    \A w \in Thread : threadAt[w].at \in RunPlaces =>
        /\ jobs.at[threadAt[w].task] = "active" /\ Expected(jobs, threadAt[w].task) = {}
        /\ \A v \in Thread : threadAt[v].at \in RunPlaces /\ threadAt[v].task = threadAt[w].task => v = w
HasChild(p, k) == k \in Pending(jobs) /\ jobs.owner[k] = p
Seen(p) ==
    /\ jobs.at[p] = "active" /\ jobs.tries[p] = view.jobs.tries[p]
    /\ \A k \in Expected(jobs, p) : view.jobs.place[k] = "out" => ~ HasChild(p, k)
Judged(p) ==
    /\ jobs.at[p] = "active"
    /\ Expected(jobs, p) = Expected(view.jobs, p) /\ Expected(jobs, p) # {}
    /\ \A k \in Expected(jobs, p) : view.verdict[p][k] \in {"archived", "failed"} => ~ HasChild(p, k)
Fresh == /\ Judges => \A p \in Waiting(view.jobs) : Seen(p)
         /\ Applies => \A p \in ToJudge : Judged(p)
BatchInv == BatchShape /\ OneRefresher /\ TriesLeft /\ (~ overwritten => RunsAlone /\ Fresh)

LEMMA UnreadType == Unread \in [jobs : BatchJobs, verdict : [Parent -> [BatchModel -> Verdicts]]]
                    /\ EmptyJobs \in BatchJobs
  <1>1. 0 \in 0..Passing
    BY BatchAssumption
  <1>2. EmptyJobs \in BatchJobs
    BY <1>1 DEF EmptyJobs, BatchJobs
  <1> QED BY <1>2 DEF Unread, Verdicts

LEMMA ThreadTypes ==
  ASSUME BatchShape, NEW w \in Thread
  PROVE  /\ threadAt[w] \in ThreadState /\ threadAt[w].at \in ThreadPlaces
         /\ threadAt[w].task \in BatchModel \cup Parent \cup {NoTask} /\ threadAt[w].models \subseteq BatchModel
         /\ threadAt[w].at \in RunPlaces => threadAt[w].task \in Parent
         /\ threadAt[w].at \in {"child", "archived"} => threadAt[w].task \in BatchModel
  BY DEF BatchShape, ThreadState

LEMMA BatchJobTypes ==
  ASSUME NEW q \in BatchJobs
  PROVE  /\ q.place \in [BatchModel -> {"out", "queued", "active"}]
         /\ q.owner \in [BatchModel -> Parent \cup {NoParent}]
         /\ q.failed \in [BatchModel -> {"no", "passing", "final"}]
         /\ q.at \in [Parent -> {"new", "queued", "active", "failed", "done", "merged"}]
         /\ q.tries \in [Parent -> [BatchModel -> 0..Passing]]
         /\ q.passed \in [Parent -> SUBSET BatchModel]
  BY DEF BatchJobs

\* A thread goes to another place, with a task and models.
LEMMA GoesType ==
  ASSUME BatchShape, NEW w \in Thread, NEW s \in ThreadState,
         s.at \in RunPlaces => s.task \in Parent,
         s.at \in {"child", "archived"} => s.task \in BatchModel,
         threadAt' = [threadAt EXCEPT ![w] = s],
         jobs' \in BatchJobs,
         view' \in [jobs : BatchJobs, verdict : [Parent -> [BatchModel -> Verdicts]]],
         overwritten' \in BOOLEAN
  PROVE  /\ BatchShape'
         /\ threadAt'[w] = s /\ \A v \in Thread : v # w => threadAt'[v] = threadAt[v]
  <1>1. /\ threadAt'[w] = s /\ \A v \in Thread : v # w => threadAt'[v] = threadAt[v]
        /\ threadAt' \in [Thread -> ThreadState]
    BY DEF BatchShape
  <1> QED BY <1>1 DEF BatchShape

LEMMA GoesPlace ==
  ASSUME BatchShape, NEW w \in Thread, NEW place \in ThreadPlaces, ThreadGoes(w, place)
  PROVE  LET s == [threadAt[w] EXCEPT !.at = place]
         IN /\ s \in ThreadState /\ s.at = place /\ s.task = threadAt[w].task
            /\ s.models = threadAt[w].models /\ threadAt' = [threadAt EXCEPT ![w] = s]
  BY ThreadTypes DEF ThreadGoes, ThreadState, BatchShape

-----------------------------------------------------------------------------
(***************************************************************************)
(* What a step must respect.  OffRefresh: no thread joins the refresh.  Parents *)
(* that wait go on waiting for the same, and get no child back.            *)
(***************************************************************************)
Waits(p) == jobs.at[p] = "active" /\ Expected(jobs, p) # {}
Respected == \A p \in Parent : Waits(p) =>
    /\ jobs'.at[p] = "active" /\ jobs'.tries[p] = jobs.tries[p]
    /\ \A k \in BatchModel : HasChild(p, k)' => HasChild(p, k)
OffRefresh == \A v \in Thread : threadAt'[v].at \in RefreshPlaces => threadAt[v].at = threadAt'[v].at
RunnersKept == \A v \in Thread : threadAt'[v].at \in RunPlaces =>
    /\ threadAt[v].at \in RunPlaces /\ threadAt'[v].task = threadAt[v].task
    /\ jobs'.at[threadAt[v].task] = "active" /\ Expected(jobs', threadAt[v].task) = {}

LEMMA RespectedFresh ==
  ASSUME BatchInv, ~ overwritten, Respected, OffRefresh, view' = view
  PROVE  Fresh'
  <1>0. BatchShape /\ Fresh
    BY DEF BatchInv
  <1>1. (Judges' => Judges) /\ (Applies' => Applies)
    BY DEF Judges, Applies, OffRefresh, ThreadIs, RefreshPlaces
  <1>2. \A p \in Parent : Waits(p) => Expected(jobs', p) = Expected(jobs, p)
    BY DEF Respected, Expected
  <1>3. ASSUME Judges', NEW p \in Waiting(view.jobs) PROVE Seen(p)'
    <2>1. p \in Parent /\ Seen(p) /\ Expected(view.jobs, p) # {}
      BY <1>0, <1>1, <1>3 DEF Fresh, Waiting
    <2>2. Waits(p)
      BY <2>1 DEF Seen, Waits, Expected
    <2> QED BY <1>2, <2>1, <2>2 DEF Seen, Respected, Expected
  <1>4. ASSUME Applies', NEW p \in ToJudge PROVE Judged(p)'
    <2>1. p \in Parent /\ Judged(p)
      BY <1>0, <1>1, <1>4 DEF Fresh, ToJudge
    <2>2. Waits(p)
      BY <2>1 DEF Judged, Waits
    <2> QED BY <1>2, <2>1, <2>2 DEF Judged, Respected, Expected
  <1>5. Waiting(view.jobs)' = Waiting(view.jobs) /\ ToJudge' = ToJudge
    BY DEF Waiting, ToJudge, Expected
  <1> QED BY <1>3, <1>4, <1>5 DEF Fresh

LEMMA ApartRefresher ==
  ASSUME BatchInv, OffRefresh
  PROVE  OneRefresher'
  BY DEF BatchInv, OneRefresher, OffRefresh

LEMMA ApartTries ==
  ASSUME BatchInv, OffRefresh, view' = view
  PROVE  TriesLeft'
  <1>1. Applies' => Applies
    BY DEF Applies, OffRefresh, ThreadIs, RefreshPlaces
  <1> QED BY <1>1 DEF BatchInv, TriesLeft, ToJudge, ToRequeue

LEMMA RunnersAlone ==
  ASSUME BatchInv, ~ overwritten, RunnersKept
  PROVE  RunsAlone'
  BY DEF BatchInv, RunsAlone, RunnersKept

\* A step beside the refresh.
LEMMA Beside ==
  ASSUME BatchInv, BatchShape', OffRefresh, UNCHANGED <<view, overwritten>>,
         ~ overwritten => Respected /\ RunsAlone'
  PROVE  BatchInv'
  BY RespectedFresh, ApartRefresher, ApartTries DEF BatchInv

\* Only the thread moves, and not into a run.
LEMMA OnlyMoves ==
  ASSUME BatchInv, NEW w \in Thread, NEW s \in ThreadState,
         s.at \notin RefreshPlaces, s.at \in RunPlaces => threadAt[w].at \in RunPlaces /\ s.task = threadAt[w].task,
         s.at \in {"child", "archived"} => s.task \in BatchModel,
         threadAt' = [threadAt EXCEPT ![w] = s],
         UNCHANGED <<jobs, view, overwritten>>
  PROVE  BatchInv'
  <1>1. BatchShape' /\ threadAt'[w] = s /\ \A v \in Thread : v # w => threadAt'[v] = threadAt[v]
    BY ThreadTypes, GoesType DEF BatchInv, BatchShape
  <1>2. OffRefresh
    BY <1>1 DEF OffRefresh
  <1>3. Respected
    BY DEF Respected, Waits, HasChild, Pending
  <1>4. ~ overwritten => RunnersKept
    BY <1>1 DEF RunnersKept, BatchInv, RunsAlone, Expected
  <1> QED BY <1>1, <1>2, <1>3, <1>4, RunnersAlone, Beside

-----------------------------------------------------------------------------
(***************************************************************************)
(* The steps beside the refresh.                                           *)
(***************************************************************************)
LEMMA LoopType == Loop \in ThreadState /\ Off \in ThreadState /\ Loop.at = "loop" /\ Off.at = "off"
  BY DEF Loop, Off, ThreadState, ThreadPlaces

\* The queue changes and the threads stay.
LEMMA JobsChange ==
  ASSUME BatchInv, jobs' \in BatchJobs, UNCHANGED <<threadAt, view, overwritten>>,
         ~ overwritten => Respected /\ RunnersKept
  PROVE  BatchInv'
  <1>1. BatchShape'
    BY DEF BatchInv, BatchShape
  <1>2. OffRefresh
    BY DEF OffRefresh
  <1> QED BY <1>1, <1>2, RunnersAlone, Beside

\* The queue changes, and a thread moves.
LEMMA JobsAndThread ==
  ASSUME BatchInv, jobs' \in BatchJobs, NEW w \in Thread, NEW s \in ThreadState,
         s.at \notin RefreshPlaces,
         s.at \in RunPlaces => s.task \in Parent,
         s.at \in {"child", "archived"} => s.task \in BatchModel,
         threadAt' = [threadAt EXCEPT ![w] = s],
         UNCHANGED <<view, overwritten>>,
         ~ overwritten => Respected /\ RunsAlone'
  PROVE  BatchInv'
  <1>1. BatchShape' /\ threadAt'[w] = s /\ \A v \in Thread : v # w => threadAt'[v] = threadAt[v]
    BY ThreadTypes, GoesType DEF BatchInv, BatchShape
  <1>2. OffRefresh
    BY <1>1 DEF OffRefresh
  <1> QED BY <1>1, <1>2, Beside

LEMMA SubmitInv ==
  ASSUME BatchInv, NEW p \in Parent, SubmitBatch(p)
  PROVE  BatchInv'
  <1>0. jobs \in BatchJobs
    BY DEF BatchInv, BatchShape
  <1>1. /\ jobs' = [jobs EXCEPT !.at[p] = "queued"] /\ jobs.at[p] = "new"
        /\ UNCHANGED <<threadAt, view, overwritten>>
    BY DEF SubmitBatch, OnlyJobs
  <1>2. /\ jobs' \in BatchJobs /\ jobs'.tries = jobs.tries /\ jobs'.place = jobs.place
        /\ jobs'.owner = jobs.owner
        /\ \A o \in Parent : jobs'.at[o] = IF o = p THEN "queued" ELSE jobs.at[o]
    BY <1>0, <1>1 DEF BatchJobs
  <1>3. Respected
    BY <1>1, <1>2 DEF Respected, Waits, HasChild, Pending
  <1>4. ~ overwritten => RunnersKept
    BY <1>1, <1>2, ThreadTypes DEF RunnersKept, BatchInv, RunsAlone, Expected
  <1> QED BY <1>1, <1>2, <1>3, <1>4, JobsChange

LEMMA ClearInv ==
  ASSUME BatchInv, ClearAllFailures
  PROVE  BatchInv'
  <1>0. jobs \in BatchJobs
    BY DEF BatchInv, BatchShape
  <1> DEFINE at == [p \in Parent |-> IF jobs.at[p] = "failed" THEN "done" ELSE jobs.at[p]]
  <1>1. /\ jobs' = [jobs EXCEPT !.failed = EmptyJobs.failed, !.at = at]
        /\ UNCHANGED <<threadAt, view, overwritten>>
    BY DEF ClearAllFailures
  <1>2. at \in [Parent -> {"new", "queued", "active", "failed", "done", "merged"}]
    BY <1>0, BatchJobTypes
  <1>3. EmptyJobs.failed \in [BatchModel -> {"no", "passing", "final"}]
    BY DEF EmptyJobs
  <1>4. \A p \in Parent : jobs.at[p] = "active" => at[p] = "active"
    OBVIOUS
  <1> HIDE DEF at
  <1>5. /\ jobs' \in BatchJobs /\ jobs'.tries = jobs.tries /\ jobs'.place = jobs.place
        /\ jobs'.owner = jobs.owner /\ jobs'.at = at
    BY <1>0, <1>1, <1>2, <1>3 DEF BatchJobs
  <1>6. Respected
    BY <1>4, <1>5 DEF Respected, Waits, HasChild, Pending
  <1>7. ~ overwritten => RunnersKept
    BY <1>1, <1>4, <1>5, ThreadTypes DEF RunnersKept, BatchInv, RunsAlone, Expected
  <1> QED BY <1>1, <1>5, <1>6, <1>7, JobsChange

LEMMA MovesInv ==
  ASSUME BatchInv, NEW w \in Thread,
         StartThread(w) \/ LeaseNothing(w) \/ ChildArchives(w) \/ ReadPending(w) \/ ReadIndex(w)
  PROVE  BatchInv'
  <1>0. BatchShape /\ UNCHANGED <<jobs, view, overwritten>>
    BY DEF BatchInv, StartThread, LeaseNothing, ChildArchives, ReadPending, ReadIndex
  <1>1. CASE StartThread(w) \/ LeaseNothing(w)
    <2>1. threadAt' = [threadAt EXCEPT ![w] = Loop] \/ threadAt' = [threadAt EXCEPT ![w] = Off]
      BY <1>1 DEF StartThread, LeaseNothing
    <2> QED BY <1>0, <2>1, LoopType, OnlyMoves DEF RefreshPlaces, RunPlaces
  <1>2. CASE ChildArchives(w)
    <2>1. threadAt[w].at = "child" /\ ThreadGoes(w, "archived")
      BY <1>2 DEF ChildArchives, ThreadIs
    <2>2. "archived" \in ThreadPlaces
      BY DEF ThreadPlaces
    <2> DEFINE s == [threadAt[w] EXCEPT !.at = "archived"]
    <2>3. s \in ThreadState /\ s.at = "archived" /\ s.task = threadAt[w].task
          /\ threadAt' = [threadAt EXCEPT ![w] = s]
      BY <1>0, <2>1, <2>2, GoesPlace
    <2>4. s.task \in BatchModel
      BY <1>0, <2>1, <2>3, ThreadTypes
    <2> HIDE DEF s
    <2> QED BY <1>0, <2>3, <2>4, OnlyMoves DEF RefreshPlaces, RunPlaces
  <1>3. CASE ReadPending(w) \/ ReadIndex(w)
    <2>1. PICK models \in SUBSET BatchModel, place \in {"index", "enqueue"} :
            /\ threadAt[w].at \in {"scan", "index"}
            /\ threadAt' = [threadAt EXCEPT ![w].at = place, ![w].models = models]
      BY <1>0, <1>3, ThreadTypes DEF ReadPending, ReadIndex, ThreadIs
    <2> DEFINE s == [threadAt[w] EXCEPT !.at = place, !.models = models]
    <2>2. s \in ThreadState /\ s.at = place /\ s.task = threadAt[w].task
      BY <1>0, ThreadTypes DEF ThreadState, ThreadPlaces, RunPlaces
    <2>3. threadAt' = [threadAt EXCEPT ![w] = s]
      BY <1>0, <2>1 DEF BatchShape
    <2> HIDE DEF s
    <2> QED BY <1>0, <2>1, <2>2, <2>3, OnlyMoves DEF RefreshPlaces, RunPlaces
  <1> QED BY <1>1, <1>2, <1>3

\* A child is leased, or ends: it leaves the queue, or stays in it.
LEMMA ChildInv ==
  ASSUME BatchInv, NEW w \in Thread,
         ChildCompletes(w) \/ ChildFails(w) \/ \E k \in BatchModel : LeaseChild(w, k)
  PROVE  BatchInv'
  <1>0. BatchShape /\ jobs \in BatchJobs /\ UNCHANGED <<view, overwritten>>
    BY DEF BatchInv, BatchShape, ChildCompletes, ChildFails, LeaseChild, OnlyJobs
  <1>1. PICK s \in ThreadState :
          /\ s.at \in {"loop", "child"} /\ (s.at = "child" => s.task \in BatchModel)
          /\ threadAt' = [threadAt EXCEPT ![w] = s]
    <2>1. CASE ChildCompletes(w) \/ ChildFails(w)
      BY <2>1, LoopType DEF ChildCompletes, ChildFails
    <2>2. ASSUME NEW k \in BatchModel, LeaseChild(w, k)
          PROVE  \E s \in ThreadState :
                    /\ s.at \in {"loop", "child"} /\ (s.at = "child" => s.task \in BatchModel)
                    /\ threadAt' = [threadAt EXCEPT ![w] = s]
      <3> DEFINE s == [at |-> "child", task |-> k, models |-> {}]
      <3>1. s \in ThreadState /\ s.at = "child" /\ s.task = k
        BY DEF ThreadState, ThreadPlaces
      <3>2. threadAt' = [threadAt EXCEPT ![w] = s]
        BY <2>2 DEF LeaseChild
      <3> QED BY <3>1, <3>2
    <2> QED BY <2>1, <2>2
  <1>2. PICK failed \in [BatchModel -> {"no", "passing", "final"}],
             place \in [BatchModel -> {"out", "queued", "active"}] :
          /\ jobs' = [jobs EXCEPT !.failed = failed, !.place = place]
          /\ \A k \in BatchModel : place[k] # "out" => jobs.place[k] # "out"
    <2> DEFINE Changed(failed, place) ==
          /\ jobs' = [jobs EXCEPT !.failed = failed, !.place = place]
          /\ \A k \in BatchModel : place[k] # "out" => jobs.place[k] # "out"
    <2>0. /\ jobs.place \in [BatchModel -> {"out", "queued", "active"}]
          /\ jobs.failed \in [BatchModel -> {"no", "passing", "final"}]
      BY <1>0, BatchJobTypes
    <2>1. ASSUME NEW k \in BatchModel, LeaseChild(w, k)
          PROVE  \E failed \in [BatchModel -> {"no", "passing", "final"}],
                    place \in [BatchModel -> {"out", "queued", "active"}] : Changed(failed, place)
      <3> DEFINE place == [jobs.place EXCEPT ![k] = "active"]
      <3>1. jobs' = [jobs EXCEPT !.place[k] = "active"] /\ jobs.place[k] = "queued"
        BY <2>1 DEF LeaseChild, OnlyJobs
      <3>2. jobs' = [jobs EXCEPT !.failed = jobs.failed, !.place = place]
        BY <1>0, <3>1 DEF BatchJobs
      <3>3. place \in [BatchModel -> {"out", "queued", "active"}]
            /\ \A i \in BatchModel : place[i] # "out" => jobs.place[i] # "out"
        BY <2>0, <3>1
      <3> QED BY <2>0, <3>2, <3>3
    <2>2. CASE ChildCompletes(w) \/ ChildFails(w)
      <3> DEFINE k == threadAt[w].task
      <3>0. k \in BatchModel
        BY <1>0, <2>2, ThreadTypes DEF ChildCompletes, ChildFails, ThreadIs
      <3>1. PICK kind \in {"no", "passing", "final"}, to \in {"out", "queued", "active"} :
              jobs' = [jobs EXCEPT !.failed[k] = kind, !.place[k] = to] /\ (to # "out" => jobs.place[k] # "out")
        <4>1. CASE ChildFails(w)
          BY <4>1 DEF ChildFails, OnlyJobs
        <4>2. CASE ChildCompletes(w)
          <5> DEFINE to == IF jobs.place[k] = "active" THEN "out" ELSE jobs.place[k]
          <5>1. jobs' = [jobs EXCEPT !.failed[k] = "no", !.place[k] = to]
            BY <4>2 DEF ChildCompletes, OnlyJobs
          <5>2. to \in {"out", "queued", "active"} /\ (to # "out" => jobs.place[k] # "out")
            BY <2>0, <3>0
          <5> QED BY <5>1, <5>2
        <4> QED BY <2>2, <4>1, <4>2
      <3> HIDE DEF k
      <3> DEFINE failed == [jobs.failed EXCEPT ![k] = kind]
                 place == [jobs.place EXCEPT ![k] = to]
      <3>2. jobs' = [jobs EXCEPT !.failed = failed, !.place = place]
        BY <1>0, <3>1 DEF BatchJobs
      <3>3. /\ place \in [BatchModel -> {"out", "queued", "active"}]
            /\ failed \in [BatchModel -> {"no", "passing", "final"}]
            /\ \A i \in BatchModel : place[i] # "out" => jobs.place[i] # "out"
        BY <2>0, <3>0, <3>1
      <3> QED BY ZenonT(60), <3>2, <3>3
    <2> QED BY <2>1, <2>2
  <1>3. /\ jobs' \in BatchJobs /\ jobs'.tries = jobs.tries /\ jobs'.at = jobs.at
        /\ jobs'.owner = jobs.owner /\ \A k \in Pending(jobs') : k \in Pending(jobs)
    BY <1>0, <1>2 DEF BatchJobs, Pending
  <1>4. Respected
    BY <1>3 DEF Respected, Waits, HasChild
  <1>5. ~ overwritten => RunsAlone'
    <2>1. threadAt'[w] = s /\ \A v \in Thread : v # w => threadAt'[v] = threadAt[v]
      BY <1>0, <1>1 DEF BatchShape
    <2>2. ~ overwritten => RunnersKept
      BY <1>1, <1>3, <2>1 DEF RunnersKept, RunPlaces, BatchInv, RunsAlone, Expected
    <2> QED BY <2>2, RunnersAlone
  <1> QED BY <1>0, <1>1, <1>3, <1>4, <1>5, JobsAndThread DEF RefreshPlaces, RunPlaces

-----------------------------------------------------------------------------
(***************************************************************************)
(* The run of a parent.                                                    *)
(***************************************************************************)
LEMMA LeaseParentInv ==
  ASSUME BatchInv, NEW w \in Thread, NEW p \in Parent, LeaseParent(w, p)
  PROVE  BatchInv'
  <1> DEFINE s == [at |-> "scan", task |-> p, models |-> {}]
  <1>0. BatchShape /\ jobs \in BatchJobs
    BY DEF BatchInv, BatchShape
  <1>1. /\ jobs' = [jobs EXCEPT !.at[p] = "active"] /\ jobs.at[p] = "queued" /\ Expected(jobs, p) = {}
        /\ UNCHANGED <<view, overwritten>> /\ threadAt' = [threadAt EXCEPT ![w] = s]
    BY DEF LeaseParent, OnlyJobs
  <1>2. s \in ThreadState /\ s.at = "scan" /\ s.task = p
    BY DEF ThreadState, ThreadPlaces, RunPlaces
  <1>3. threadAt'[w] = s /\ \A v \in Thread : v # w => threadAt'[v] = threadAt[v]
    BY <1>0, <1>1 DEF BatchShape
  <1> HIDE DEF s
  <1>4. /\ jobs' \in BatchJobs /\ jobs'.tries = jobs.tries /\ jobs'.place = jobs.place
        /\ jobs'.owner = jobs.owner
        /\ \A o \in Parent : jobs'.at[o] = IF o = p THEN "active" ELSE jobs.at[o]
    BY <1>0, <1>1 DEF BatchJobs
  <1>5. Respected
    BY <1>4 DEF Respected, Waits, HasChild, Pending
  <1>6. ~ overwritten => RunsAlone'
    <2> SUFFICES ASSUME ~ overwritten PROVE RunsAlone'
      OBVIOUS
    <2>1. RunsAlone
      BY DEF BatchInv
    <2>2. \A v \in Thread : threadAt[v].at \in RunPlaces => threadAt[v].task # p
      BY <1>1, <2>1 DEF RunsAlone
    <2>3. \A o \in Parent : Expected(jobs', o) = Expected(jobs, o)
      BY <1>4 DEF Expected
    <2> QED BY <1>0, <1>1, <1>2, <1>3, <1>4, <2>1, <2>2, <2>3, ThreadTypes DEF RunsAlone
  <1> QED BY <1>0, <1>1, <1>2, <1>4, <1>5, <1>6, JobsAndThread DEF RefreshPlaces

\* A thread that leaves the run of its parent, which only that thread touches.
LEMMA BatchRunEnds ==
  ASSUME BatchInv, NEW w \in Thread, threadAt[w].at \in RunPlaces, jobs' \in BatchJobs,
         threadAt' = [threadAt EXCEPT ![w] = Loop], UNCHANGED <<view, overwritten>>,
         jobs'.place = jobs.place, jobs'.owner = jobs.owner,
         \A o \in Parent : o # threadAt[w].task =>
            jobs'.at[o] = jobs.at[o] /\ jobs'.tries[o] = jobs.tries[o]
  PROVE  BatchInv'
  <1>0. BatchShape
    BY DEF BatchInv
  <1>1. threadAt'[w] = Loop /\ \A v \in Thread : v # w => threadAt'[v] = threadAt[v]
    BY <1>0 DEF BatchShape
  <1>2. ~ overwritten => Respected /\ RunsAlone'
    <2> SUFFICES ASSUME ~ overwritten PROVE Respected /\ RunsAlone'
      OBVIOUS
    <2>1. RunsAlone
      BY DEF BatchInv
    <2>2. Expected(jobs, threadAt[w].task) = {}
      BY <2>1 DEF RunsAlone
    <2>3. Respected
      BY <2>2 DEF Respected, Waits, HasChild, Pending
    <2>4. \A v \in Thread : v # w /\ threadAt[v].at \in RunPlaces => threadAt[v].task # threadAt[w].task
      BY <2>1 DEF RunsAlone
    <2>5. \A v \in Thread : threadAt[v].at \in RunPlaces => /\ threadAt[v].task \in Parent
                                                         /\ jobs.at[threadAt[v].task] = "active"
                                                         /\ Expected(jobs, threadAt[v].task) = {}
      BY <1>0, <2>1, ThreadTypes DEF RunsAlone
    <2>6. RunnersKept
      <3> SUFFICES ASSUME NEW v \in Thread, threadAt'[v].at \in RunPlaces
                   PROVE  /\ threadAt[v].at \in RunPlaces /\ threadAt'[v].task = threadAt[v].task
                          /\ jobs'.at[threadAt[v].task] = "active" /\ Expected(jobs', threadAt[v].task) = {}
        BY DEF RunnersKept
      <3>1. v # w /\ threadAt'[v] = threadAt[v]
        BY <1>1, LoopType DEF RunPlaces
      <3> QED BY <2>4, <2>5, <3>1 DEF Expected
    <2> QED BY <2>3, <2>6, RunnersAlone
  <1> QED BY <1>0, <1>2, LoopType, JobsAndThread DEF RefreshPlaces, RunPlaces

LEMMA ExpectInv ==
  ASSUME BatchInv, NEW w \in Thread, Expect(w) \/ BatchRaises(w)
  PROVE  BatchInv'
  <1> DEFINE p == threadAt[w].task
  <1>0. BatchShape /\ jobs \in BatchJobs
    BY DEF BatchInv, BatchShape
  <1>1. /\ threadAt[w].at \in RunPlaces /\ threadAt' = [threadAt EXCEPT ![w] = Loop]
        /\ UNCHANGED <<view, overwritten>>
    BY DEF Expect, BatchRaises, ThreadIs, OnlyJobs, RunPlaces
  <1>2. p \in Parent
    BY <1>0, <1>1, ThreadTypes
  <1>3. CASE Expect(w)
    <2> DEFINE new == threadAt[w].models
               tries == [k \in BatchModel |-> IF k \in new THEN 1 ELSE 0]
    <2>1. \/ jobs' = jobs \/ jobs' = [jobs EXCEPT !.at[p] = "done"]
          \/ jobs' = [jobs EXCEPT !.tries[p] = tries]
      BY <1>3 DEF Expect, OnlyJobs
    <2>2. tries \in [BatchModel -> 0..Passing]
      BY BatchAssumption
    <2> HIDE DEF p, tries
    <2>3. /\ jobs' \in BatchJobs /\ jobs'.place = jobs.place /\ jobs'.owner = jobs.owner
          /\ \A o \in Parent : o # p => jobs'.at[o] = jobs.at[o] /\ jobs'.tries[o] = jobs.tries[o]
      <3>1. CASE jobs' = jobs
        BY <1>0, <3>1
      <3>2. CASE jobs' = [jobs EXCEPT !.at[p] = "done"]
        BY <1>0, <1>2, <3>2 DEF BatchJobs
      <3>3. CASE jobs' = [jobs EXCEPT !.tries[p] = tries]
        BY <1>0, <1>2, <2>2, <3>3 DEF BatchJobs
      <3> QED BY <2>1, <3>1, <3>2, <3>3
    <2> QED BY <1>1, <2>3, BatchRunEnds DEF p
  <1>4. CASE BatchRaises(w)
    <2> DEFINE to == IF jobs.at[p] \in {"queued", "active"} THEN "failed" ELSE jobs.at[p]
    <2>1. jobs' = [jobs EXCEPT !.at[p] = to]
      BY <1>4 DEF BatchRaises
    <2>2. to \in {"new", "queued", "active", "failed", "done", "merged"}
      BY <1>0, <1>2, BatchJobTypes
    <2> HIDE DEF p, to
    <2>3. /\ jobs' \in BatchJobs /\ jobs'.place = jobs.place /\ jobs'.owner = jobs.owner
          /\ \A o \in Parent : o # p => jobs'.at[o] = jobs.at[o] /\ jobs'.tries[o] = jobs.tries[o]
      BY <1>0, <1>2, <2>1, <2>2 DEF BatchJobs
    <2> QED BY <1>1, <2>3, BatchRunEnds DEF p
  <1> QED BY <1>3, <1>4

LEMMA EnqueueChildrenInv ==
  ASSUME BatchInv, NEW w \in Thread, EnqueueChildren(w)
  PROVE  BatchInv'
  <1> DEFINE p == threadAt[w].task
             new == threadAt[w].models \ Pending(jobs)
             place == [k \in BatchModel |-> IF k \in new THEN "queued" ELSE jobs.place[k]]
             owner == [k \in BatchModel |-> IF k \in new THEN p ELSE jobs.owner[k]]
             s == [threadAt[w] EXCEPT !.at = "expect", !.models = new]
  <1>0. BatchShape /\ jobs \in BatchJobs /\ threadAt[w].at = "enqueue"
    BY DEF BatchInv, BatchShape, EnqueueChildren, ThreadIs
  <1>1. /\ jobs' = [jobs EXCEPT !.place = place, !.owner = owner]
        /\ UNCHANGED <<view, overwritten>>
        /\ threadAt' = [threadAt EXCEPT ![w].at = "expect", ![w].models = new]
    BY DEF EnqueueChildren, OnlyJobs
  <1>2. p \in Parent
    BY <1>0, ThreadTypes DEF RunPlaces
  <1>3. new \subseteq BatchModel
    BY <1>0, ThreadTypes
  <1>4. s \in ThreadState /\ s.at = "expect" /\ s.task = p
    BY <1>0, <1>3, ThreadTypes DEF ThreadState, ThreadPlaces, RunPlaces
  <1>5. threadAt' = [threadAt EXCEPT ![w] = s]
    BY <1>0, <1>1 DEF BatchShape
  <1>6. threadAt'[w] = s /\ \A v \in Thread : v # w => threadAt'[v] = threadAt[v]
    BY <1>0, <1>5 DEF BatchShape
  <1>7. /\ place \in [BatchModel -> {"out", "queued", "active"}]
        /\ owner \in [BatchModel -> Parent \cup {NoParent}]
    BY <1>0, <1>2, BatchJobTypes
  <1>8. \A k \in BatchModel, o \in Parent : o # p /\ place[k] # "out" /\ owner[k] = o =>
                                          jobs.place[k] # "out" /\ jobs.owner[k] = o
    OBVIOUS
  <1> HIDE DEF s, place, owner, new
  <1>9. /\ jobs' \in BatchJobs /\ jobs'.tries = jobs.tries /\ jobs'.at = jobs.at
        /\ jobs'.place = place /\ jobs'.owner = owner
    BY <1>0, <1>1, <1>7 DEF BatchJobs
  <1>10. ~ overwritten => Respected /\ RunsAlone'
    <2> SUFFICES ASSUME ~ overwritten PROVE Respected /\ RunsAlone'
      OBVIOUS
    <2>1. Expected(jobs, p) = {}
      BY <1>0 DEF BatchInv, RunsAlone, RunPlaces
    <2> HIDE DEF p
    <2>2. Respected
      BY <1>8, <1>9, <2>1 DEF Respected, Waits, HasChild, Pending
    <2>3. RunnersKept
      BY <1>0, <1>4, <1>6, <1>9 DEF p, RunnersKept, RunPlaces, BatchInv, RunsAlone, Expected
    <2> QED BY <2>2, <2>3, RunnersAlone
  <1> HIDE DEF p
  <1> QED BY <1>0, <1>1, <1>2, <1>4, <1>5, <1>9, <1>10, JobsAndThread DEF RefreshPlaces, RunPlaces

LEMMA RestartInv ==
  ASSUME BatchInv, RestartWorker
  PROVE  BatchInv'
  <1> DEFINE place == [k \in BatchModel |-> IF jobs.place[k] = "active" THEN "queued" ELSE jobs.place[k]]
             at == [p \in Parent |-> IF jobs.at[p] = "active" /\ Expected(jobs, p) = {} THEN "queued"
                                     ELSE jobs.at[p]]
  <1>0. BatchShape /\ jobs \in BatchJobs
    BY DEF BatchInv, BatchShape
  <1>1. /\ jobs' = [jobs EXCEPT !.place = place, !.at = at]
        /\ threadAt' = [w \in Thread |-> Off] /\ view' = Unread /\ overwritten' = overwritten
    BY DEF RestartWorker
  <1>2. /\ place \in [BatchModel -> {"out", "queued", "active"}]
        /\ at \in [Parent -> {"new", "queued", "active", "failed", "done", "merged"}]
    BY <1>0, BatchJobTypes
  <1> HIDE DEF place, at
  <1>3. jobs' \in BatchJobs
    BY <1>0, <1>1, <1>2 DEF BatchJobs
  <1>4. \A w \in Thread : threadAt'[w] = Off
    BY <1>1
  <1>5. BatchShape'
    BY <1>0, <1>1, <1>3, LoopType, UnreadType DEF BatchShape, RunPlaces
  <1> QED BY <1>4, <1>5, LoopType
          DEF BatchInv, OneRefresher, TriesLeft, Applies, Judges, RunsAlone, Fresh, ThreadIs, RefreshPlaces, RunPlaces

-----------------------------------------------------------------------------
(***************************************************************************)
(* The refresh.                                                            *)
(***************************************************************************)
LEMMA RefreshGoes ==
  ASSUME BatchInv, NEW w \in Thread,
         NEW place \in RefreshPlaces \cup {"lease", "polling"}, ThreadGoes(w, place),
         threadAt[w].at \in RefreshPlaces \cup {"loop"},
         threadAt[w].at = "loop" => \A v \in Thread : threadAt[v].at \notin RefreshPlaces,
         jobs' \in BatchJobs,
         view' \in [jobs : BatchJobs, verdict : [Parent -> [BatchModel -> Verdicts]]],
         overwritten' \in BOOLEAN
  PROVE  /\ BatchShape' /\ OneRefresher'
         /\ (Applies' => place = "apply") /\ (Judges' => place = "judge")
         /\ \A v \in Thread : threadAt'[v].at \in RunPlaces =>
               threadAt[v].at \in RunPlaces /\ threadAt'[v].task = threadAt[v].task
  <1> DEFINE s == [threadAt[w] EXCEPT !.at = place]
  <1>0. BatchShape /\ place \in ThreadPlaces /\ place \notin RunPlaces /\ place \notin {"child", "archived"}
    BY DEF BatchInv, ThreadPlaces, RefreshPlaces, RunPlaces
  <1>1. s \in ThreadState /\ s.at = place /\ threadAt' = [threadAt EXCEPT ![w] = s]
    BY <1>0, GoesPlace
  <1> HIDE DEF s
  <1>2. BatchShape' /\ threadAt'[w] = s /\ \A v \in Thread : v # w => threadAt'[v] = threadAt[v]
    BY <1>0, <1>1, GoesType
  <1>3. \A v \in Thread : v # w => threadAt[v].at \notin RefreshPlaces
    BY DEF BatchInv, OneRefresher
  <1>4. OneRefresher'
    BY <1>2, <1>3 DEF OneRefresher
  <1>5. (Applies' => place = "apply") /\ (Judges' => place = "judge")
    BY <1>1, <1>2, <1>3 DEF Applies, Judges, ThreadIs, RefreshPlaces
  <1> QED BY <1>0, <1>1, <1>2, <1>4, <1>5

\* A refresh that does not judge yet, or no longer.
LEMMA RefreshBefore ==
  ASSUME BatchInv, NEW w \in Thread,
         NEW place \in {"orphans", "merge", "save", "snapshot", "lease"}, ThreadGoes(w, place),
         threadAt[w].at \in RefreshPlaces \cup {"loop"},
         threadAt[w].at = "loop" => \A v \in Thread : threadAt[v].at \notin RefreshPlaces,
         jobs' \in BatchJobs,
         view' \in [jobs : BatchJobs, verdict : [Parent -> [BatchModel -> Verdicts]]],
         overwritten' \in BOOLEAN, ~ overwritten' => ~ overwritten,
         ~ overwritten' => \A p \in Parent : jobs.at[p] = "active" /\ Expected(jobs, p) = {} =>
                              jobs'.at[p] = "active" /\ Expected(jobs', p) = {}
  PROVE  BatchInv'
  <1>1. place \in RefreshPlaces \cup {"lease", "polling"} /\ place # "apply" /\ place # "judge"
    BY DEF RefreshPlaces
  <1>2. /\ BatchShape' /\ OneRefresher' /\ ~ Applies' /\ ~ Judges'
        /\ \A v \in Thread : threadAt'[v].at \in RunPlaces =>
               threadAt[v].at \in RunPlaces /\ threadAt'[v].task = threadAt[v].task
    BY <1>1, RefreshGoes
  <1>3. ~ overwritten' => RunsAlone'
    <2> SUFFICES ASSUME ~ overwritten' PROVE RunsAlone'
      OBVIOUS
    <2>1. RunsAlone /\ BatchShape
      BY DEF BatchInv
    <2>2. RunnersKept
      BY <1>2, <2>1, ThreadTypes DEF RunnersKept, RunsAlone
    <2> QED BY <2>2, RunnersAlone
  <1> QED BY <1>2, <1>3 DEF BatchInv, TriesLeft, Fresh

LEMMA RestoreInv ==
  ASSUME BatchInv, NEW w \in Thread, RestoreQueued(w) \/ RestoreOrphaned(w)
  PROVE  BatchInv'
  <1>0. /\ BatchShape /\ jobs \in BatchJobs /\ UNCHANGED <<view, overwritten>>
        /\ view \in [jobs : BatchJobs, verdict : [Parent -> [BatchModel -> Verdicts]]]
        /\ overwritten \in BOOLEAN
    BY DEF BatchInv, BatchShape, RestoreQueued, RestoreOrphaned, OnlyJobs
  <1>1. CASE RestoreQueued(w)
    <2> DEFINE at == [p \in Parent |-> IF jobs.at[p] = "queued" /\ Expected(jobs, p) # {}
                                       THEN "active" ELSE jobs.at[p]]
    <2>1. jobs' = [jobs EXCEPT !.at = at] /\ ThreadGoes(w, "orphans") /\ threadAt[w].at = "loop"
          /\ \A v \in Thread : threadAt[v].at \notin RefreshPlaces
      BY <1>1 DEF RestoreQueued, OnlyJobs, ThreadIs
    <2>2. at \in [Parent -> {"new", "queued", "active", "failed", "done", "merged"}]
      BY <1>0, BatchJobTypes
    <2>3. \A p \in Parent : jobs.at[p] = "active" => at[p] = "active"
      OBVIOUS
    <2> HIDE DEF at
    <2>4. jobs' \in BatchJobs /\ jobs'.at = at /\ jobs'.tries = jobs.tries
      BY <1>0, <2>1, <2>2 DEF BatchJobs
    <2> QED BY <1>0, <2>1, <2>3, <2>4, RefreshBefore DEF Expected
  <1>2. CASE RestoreOrphaned(w)
    <2> DEFINE back == Orphaned(jobs)
               at == [p \in Parent |-> IF p \in back THEN "active" ELSE jobs.at[p]]
               tries == [p \in Parent |-> IF p \notin back THEN jobs.tries[p]
                          ELSE [k \in BatchModel |-> IF k \in Children(jobs, p) THEN 1 ELSE 0]]
               passed == [p \in Parent |-> IF p \notin back THEN jobs.passed[p]
                          ELSE {k \in Children(jobs, p) : jobs.failed[k] = "passing"}]
    <2>1. jobs' = [jobs EXCEPT !.at = at, !.tries = tries, !.passed = passed]
          /\ ThreadGoes(w, "merge") /\ threadAt[w].at = "orphans"
      BY <1>2 DEF RestoreOrphaned, OnlyJobs, ThreadIs
    <2>2. at \in [Parent -> {"new", "queued", "active", "failed", "done", "merged"}]
      BY <1>0, BatchJobTypes
    <2>3. tries \in [Parent -> [BatchModel -> 0..Passing]]
      <3>1. 0 \in 0..Passing /\ 1 \in 0..Passing
        BY BatchAssumption
      <3>2. jobs.tries \in [Parent -> [BatchModel -> 0..Passing]]
        BY <1>0, BatchJobTypes
      <3> QED BY <3>1, <3>2
    <2>4. passed \in [Parent -> SUBSET BatchModel]
      <3>1. jobs.passed \in [Parent -> SUBSET BatchModel] /\ \A p \in Parent : Children(jobs, p) \subseteq BatchModel
        BY <1>0, BatchJobTypes DEF Children
      <3> QED BY <3>1
    <2>5. \A p \in Parent : jobs.at[p] = "active" => at[p] = "active" /\ tries[p] = jobs.tries[p]
      BY DEF Orphaned
    <2> HIDE DEF back, at, tries, passed
    <2>6. jobs' \in BatchJobs /\ jobs'.at = at /\ jobs'.tries = tries
      BY <1>0, <2>1, <2>2, <2>3, <2>4 DEF BatchJobs
    <2>7. threadAt[w].at \in RefreshPlaces
      BY <2>1 DEF RefreshPlaces
    <2> QED BY <1>0, <2>1, <2>5, <2>6, <2>7, RefreshBefore DEF Expected
  <1> QED BY <1>1, <1>2

LEMMA MergedKeeps ==
  ASSUME NEW q \in BatchJobs, NEW kept \in Foremost(q)
  PROVE  /\ Merged(q, kept) \in BatchJobs
         /\ \A p \in Parent : q.at[p] = "active" /\ Expected(q, p) = {} =>
               Merged(q, kept).at[p] = "active" /\ Expected(Merged(q, kept), p) = {}
  <1> DEFINE gone == Tracking(q) \ {kept}
             moved == {k \in BatchModel : q.owner[k] \notin {kept, NoParent} /\ (k \in Pending(q) \/ q.failed[k] # "no")}
             theirs == UNION {Expected(q, p) : p \in gone}
             some(k) == CHOOSE p \in gone : k \in Expected(q, p)
             at == [p \in Parent |-> IF p \in gone THEN "merged" ELSE q.at[p]]
             owner == [k \in BatchModel |-> IF k \in moved THEN kept ELSE q.owner[k]]
             tries == [p \in Parent |->
               IF p \in gone THEN [k \in BatchModel |-> 0]
               ELSE IF p # kept THEN q.tries[p]
               ELSE [k \in BatchModel |-> IF k \in moved THEN 1
                                          ELSE IF k \in theirs THEN q.tries[some(k)][k] ELSE q.tries[p][k]]]
             passed == [p \in Parent |->
               IF p \in gone THEN {}
               ELSE IF p # kept THEN q.passed[p]
               ELSE {k \in BatchModel : IF k \in moved THEN q.failed[k] = "passing"
                                        ELSE IF k \in theirs THEN k \in q.passed[some(k)] ELSE k \in q.passed[p]}]
  <1>0. kept \in Tracking(q) /\ kept \in Parent /\ gone \subseteq Parent
    BY DEF Foremost, Tracking
  <1>1. Merged(q, kept) = [q EXCEPT !.at = at, !.owner = owner, !.tries = tries, !.passed = passed]
    BY DEF Merged
  <1>2. /\ at \in [Parent -> {"new", "queued", "active", "failed", "done", "merged"}]
        /\ owner \in [BatchModel -> Parent \cup {NoParent}]
    BY <1>0, BatchJobTypes
  <1>3. tries \in [Parent -> [BatchModel -> 0..Passing]]
    <2>1. 0 \in 0..Passing /\ 1 \in 0..Passing
      BY BatchAssumption
    <2>2. q.tries \in [Parent -> [BatchModel -> 0..Passing]]
      BY BatchJobTypes
    <2>3. \A k \in theirs : some(k) \in Parent
      <3> SUFFICES ASSUME NEW k \in theirs PROVE some(k) \in Parent
        OBVIOUS
      <3>1. \E p \in gone : k \in Expected(q, p)
        OBVIOUS
      <3>2. some(k) \in gone
        BY <3>1
      <3> QED BY <1>0, <3>2
    <2> HIDE DEF some, theirs, gone, moved
    <2> QED BY <2>1, <2>2, <2>3
  <1>4. passed \in [Parent -> SUBSET BatchModel]
    <2>1. q.passed \in [Parent -> SUBSET BatchModel]
      BY BatchJobTypes
    <2> HIDE DEF some, theirs, gone, moved
    <2> QED BY <2>1
  <1>5. \A p \in Parent : q.at[p] = "active" /\ Expected(q, p) = {} => at[p] = "active" /\ tries[p] = q.tries[p]
    <2> SUFFICES ASSUME NEW p \in Parent, Expected(q, p) = {} PROVE at[p] = q.at[p] /\ tries[p] = q.tries[p]
      OBVIOUS
    <2>1. p \notin Tracking(q)
      BY DEF Tracking
    <2>2. p # kept /\ p \notin gone
      BY <1>0, <2>1
    <2> HIDE DEF gone, some, theirs, moved
    <2> QED BY <2>2
  <1> HIDE DEF at, owner, tries, passed
  <1>6. /\ Merged(q, kept) \in BatchJobs /\ Merged(q, kept).at = at /\ Merged(q, kept).tries = tries
    BY <1>1, <1>2, <1>3, <1>4 DEF BatchJobs
  <1> QED BY <1>5, <1>6 DEF Expected

LEMMA MergeInv ==
  ASSUME BatchInv, NEW w \in Thread, LoadForMerge(w) \/ SaveMerged(w)
  PROVE  BatchInv'
  <1>0. /\ BatchShape /\ jobs \in BatchJobs /\ view.jobs \in BatchJobs
        /\ view \in [jobs : BatchJobs, verdict : [Parent -> [BatchModel -> Verdicts]]]
        /\ overwritten \in BOOLEAN
    BY DEF BatchInv, BatchShape
  <1>1. CASE LoadForMerge(w)
    <2>1. /\ threadAt[w].at = "merge" /\ UNCHANGED <<jobs, overwritten>>
          /\ ThreadGoes(w, "save") \/ ThreadGoes(w, "snapshot")
          /\ view' = view \/ view' = [view EXCEPT !.jobs = jobs]
      BY <1>1 DEF LoadForMerge, ThreadIs
    <2>2. view' \in [jobs : BatchJobs, verdict : [Parent -> [BatchModel -> Verdicts]]]
      BY <1>0, <2>1
    <2>3. threadAt[w].at \in RefreshPlaces
      BY <2>1 DEF RefreshPlaces
    <2> QED BY <1>0, <2>1, <2>2, <2>3, RefreshBefore
  <1>2. CASE SaveMerged(w)
    <2>1. PICK kept \in Foremost(view.jobs) : jobs' = Merged(view.jobs, kept)
      BY <1>2 DEF SaveMerged
    <2>2. /\ threadAt[w].at = "save" /\ ThreadGoes(w, "snapshot") /\ view' = Unread
          /\ overwritten' = (overwritten \/ jobs # view.jobs)
      BY <1>2 DEF SaveMerged, ThreadIs
    <2>3. jobs' \in BatchJobs
      BY <1>0, <2>1, MergedKeeps
    <2>4. ~ overwritten' => \A p \in Parent : jobs.at[p] = "active" /\ Expected(jobs, p) = {} =>
                              jobs'.at[p] = "active" /\ Expected(jobs', p) = {}
      BY ZenonT(60), <1>0, <2>1, <2>2, MergedKeeps
    <2>5. threadAt[w].at \in RefreshPlaces /\ overwritten' \in BOOLEAN /\ (~ overwritten' => ~ overwritten)
      BY <1>0, <2>2 DEF RefreshPlaces
    <2> QED BY <2>2, <2>3, <2>4, <2>5, UnreadType, RefreshBefore
  <1> QED BY <1>1, <1>2

LEMMA RefreshJudges ==
  ASSUME BatchInv, NEW w \in Thread, NEW place \in {"judge", "apply", "polling"}, ThreadGoes(w, place),
         threadAt[w].at \in RefreshPlaces, jobs' \in BatchJobs,
         view' \in [jobs : BatchJobs, verdict : [Parent -> [BatchModel -> Verdicts]]],
         overwritten' = overwritten,
         ~ overwritten => \A p \in Parent : jobs.at[p] = "active" /\ Expected(jobs, p) = {} =>
                              jobs'.at[p] = "active" /\ Expected(jobs', p) = {},
         place = "judge" /\ ~ overwritten => \A p \in Waiting(view.jobs)' : Seen(p)',
         place = "apply" => \A p \in ToJudge' : \A k \in ToRequeue(p)' :
                               view'.jobs.tries[p][k] \in 1 .. Passing - 1,
         place = "apply" /\ ~ overwritten => \A p \in ToJudge' : Judged(p)'
  PROVE  BatchInv'
  <1>1. place \in RefreshPlaces \cup {"lease", "polling"} /\ threadAt[w].at # "loop" /\ overwritten' \in BOOLEAN
    BY DEF RefreshPlaces, BatchInv, BatchShape
  <1>2. /\ BatchShape' /\ OneRefresher' /\ (Applies' => place = "apply") /\ (Judges' => place = "judge")
        /\ \A v \in Thread : threadAt'[v].at \in RunPlaces =>
               threadAt[v].at \in RunPlaces /\ threadAt'[v].task = threadAt[v].task
    BY <1>1, RefreshGoes
  <1>3. ~ overwritten => RunsAlone'
    <2> SUFFICES ASSUME ~ overwritten PROVE RunsAlone'
      OBVIOUS
    <2>1. RunsAlone /\ BatchShape
      BY DEF BatchInv
    <2>2. RunnersKept
      BY <1>2, <2>1, ThreadTypes DEF RunnersKept, RunsAlone
    <2> QED BY <2>2, RunnersAlone
  <1>4. TriesLeft'
    BY <1>2 DEF TriesLeft
  <1>5. ~ overwritten => Fresh'
    BY <1>2 DEF Fresh
  <1> QED BY <1>2, <1>3, <1>4, <1>5 DEF BatchInv

LEMMA SnapshotInv ==
  ASSUME BatchInv, NEW w \in Thread, Snapshot(w)
  PROVE  BatchInv'
  <1>0. /\ BatchShape /\ jobs \in BatchJobs
        /\ view \in [jobs : BatchJobs, verdict : [Parent -> [BatchModel -> Verdicts]]]
        /\ overwritten \in BOOLEAN
    BY DEF BatchInv, BatchShape
  <1>1. threadAt[w].at = "snapshot" /\ threadAt[w].at \in RefreshPlaces /\ UNCHANGED <<jobs, overwritten>>
    BY DEF Snapshot, ThreadIs, RefreshPlaces
  <1>2. CASE ThreadGoes(w, "lease") /\ view' = view
    BY <1>0, <1>1, <1>2, RefreshBefore
  <1>3. CASE ThreadGoes(w, "judge") /\ view' = [view EXCEPT !.jobs = jobs]
    <2>1. view' \in [jobs : BatchJobs, verdict : [Parent -> [BatchModel -> Verdicts]]] /\ view'.jobs = jobs
      BY <1>0, <1>3
    <2>2. \A p \in Waiting(view.jobs)' : Seen(p)'
      BY <1>1, <2>1 DEF Waiting, Seen, HasChild, Pending, Expected
    <2> QED BY <1>0, <1>1, <1>3, <2>1, <2>2, RefreshJudges
  <1> QED BY <1>2, <1>3 DEF Snapshot

LEMMA VerdictFacts ==
  ASSUME NEW q \in BatchJobs, NEW p \in Parent, NEW k \in BatchModel
  PROVE  /\ Verdict(q, p, k) \in Verdicts
         /\ Verdict(q, p, k) \in {"again", "lost"} => q.tries[p][k] \in 1 .. Passing - 1
         /\ Verdict(q, p, k) \in {"archived", "failed"} => q.place[k] = "out"
  <1> DEFINE tries == q.tries[p][k]
             passing == IF q.failed[k] # "no" /\ k \notin archived THEN q.failed[k] = "passing" ELSE k \in q.passed[p]
             v == Verdict(q, p, k)
  <1>1. tries \in 0..Passing /\ q.place[k] \in {"out", "queued", "active"}
    BY BatchJobTypes
  <1>2. CASE tries = 0
    <2>1. v = "none"
      BY <1>2 DEF Verdict
    <2> QED BY <2>1 DEF Verdicts
  <1>3. CASE tries > 0 /\ q.place[k] = "active"
    <2>1. v = "running"
      BY <1>1, <1>3 DEF Verdict
    <2> QED BY <2>1 DEF Verdicts
  <1>4. CASE tries > 0 /\ q.place[k] = "queued"
    <2>1. v = "queued"
      BY <1>1, <1>4 DEF Verdict
    <2> QED BY <2>1 DEF Verdicts
  <1>5. CASE tries > 0 /\ q.place[k] = "out"
    <2>1. \/ v = "archived" \/ v = "failed"
          \/ (v = "again" /\ tries < Passing)
          \/ (v = "lost" /\ tries < Lost)
      <3>1. CASE q.failed[k] # "no" /\ k \notin archived
        <4>1. v = IF passing /\ tries < Passing THEN "again" ELSE "failed"
          BY <1>5, <3>1 DEF Verdict
        <4> HIDE DEF v, tries, passing
        <4> QED BY <4>1
      <3>2. CASE k \in archived
        <4>1. v = "archived"
          BY <1>5, <3>2 DEF Verdict
        <4> QED BY <4>1
      <3>3. CASE q.failed[k] = "no" /\ k \notin archived
        <4>1. v = IF tries < Lost THEN "lost"
                  ELSE IF passing /\ tries < Passing THEN "again" ELSE "failed"
          BY <1>5, <3>3 DEF Verdict
        <4> HIDE DEF v, tries, passing
        <4> QED BY <4>1
      <3> QED BY <3>1, <3>2, <3>3
    <2>2. v \in {"again", "lost"} => tries \in 1 .. Passing - 1
      BY <1>1, <1>5, <2>1, BatchAssumption
    <2> QED BY <1>5, <2>1, <2>2 DEF Verdicts
  <1> QED BY <1>1, <1>2, <1>3, <1>4, <1>5

LEMMA JudgeInv ==
  ASSUME BatchInv, NEW w \in Thread, Judge(w)
  PROVE  BatchInv'
  <1> DEFINE q == view.jobs
             at == [p \in Parent |-> IF p \in Waiting(q) THEN "active" ELSE "new"]
             tries == [p \in Parent |-> IF p \in Waiting(q) THEN q.tries[p] ELSE EmptyJobs.tries[p]]
             passed == [p \in Parent |-> IF p \notin Waiting(q) THEN {} ELSE
                            {k \in Expected(q, p) : IF q.place[k] = "out" /\ q.failed[k] # "no" /\ k \notin archived
                                                    THEN q.failed[k] = "passing" ELSE k \in q.passed[p]}]
             verdict == [p \in Parent |-> [k \in BatchModel |->
                            IF p \in Waiting(q) THEN Verdict(q, p, k) ELSE "none"]]
             seen == [EmptyJobs EXCEPT !.at = at, !.tries = tries, !.passed = passed]
  <1>0. BatchShape /\ jobs \in BatchJobs /\ q \in BatchJobs /\ EmptyJobs \in BatchJobs
    BY UnreadType DEF BatchInv, BatchShape
  <1>1. /\ threadAt[w].at = "judge" /\ ThreadGoes(w, "apply") /\ UNCHANGED <<jobs, overwritten>>
        /\ view' = [jobs |-> seen, verdict |-> verdict]
    BY DEF Judge, ThreadIs
  <1>2. at \in [Parent -> {"new", "queued", "active", "failed", "done", "merged"}]
    OBVIOUS
  <1>3. tries \in [Parent -> [BatchModel -> 0..Passing]]
    <2>1. q.tries \in [Parent -> [BatchModel -> 0..Passing]] /\ EmptyJobs.tries \in [Parent -> [BatchModel -> 0..Passing]]
      BY <1>0, BatchJobTypes
    <2> HIDE DEF q
    <2> QED BY <2>1
  <1>4. passed \in [Parent -> SUBSET BatchModel]
    <2>1. \A p \in Parent : Expected(q, p) \subseteq BatchModel
      BY DEF Expected
    <2> HIDE DEF q
    <2> QED BY <2>1
  <1>5. verdict \in [Parent -> [BatchModel -> Verdicts]]
    <2>1. \A p \in Parent, k \in BatchModel : Verdict(q, p, k) \in Verdicts
      BY <1>0, VerdictFacts
    <2>2. "none" \in Verdicts
      BY DEF Verdicts
    <2> HIDE DEF q
    <2> QED BY <2>1, <2>2
  <1>6. seen \in BatchJobs /\ seen.at = at /\ seen.tries = tries
    <2> HIDE DEF at, tries, passed
    <2> QED BY <1>0, <1>2, <1>3, <1>4 DEF BatchJobs
  <1> HIDE DEF seen
  <1>7. view' \in [jobs : BatchJobs, verdict : [Parent -> [BatchModel -> Verdicts]]]
        /\ view'.jobs = seen /\ view'.verdict = verdict
    BY <1>1, <1>5, <1>6
  <1>8. Waiting(q) \subseteq Parent /\ ToJudge' = Waiting(q)
    <2>1. Waiting(q) \subseteq Parent
      BY DEF Waiting
    <2>2. \A p \in Parent : seen.at[p] = "active" <=> p \in Waiting(q)
      BY <1>6
    <2> QED BY <1>7, <2>1, <2>2 DEF ToJudge
  <1>9. \A p \in Waiting(q), k \in BatchModel : view'.verdict[p][k] = Verdict(q, p, k)
    BY <1>7, <1>8
  <1>10. \A p \in Waiting(q) : view'.jobs.tries[p] = q.tries[p]
    BY <1>6, <1>7, <1>8
  <1> HIDE DEF verdict, at, tries, passed
  <1>11. \A p \in ToJudge' : \A k \in ToRequeue(p)' : view'.jobs.tries[p][k] \in 1 .. Passing - 1
    <2> SUFFICES ASSUME NEW p \in ToJudge', NEW k \in ToRequeue(p)'
                 PROVE  view'.jobs.tries[p][k] \in 1 .. Passing - 1
      OBVIOUS
    <2>1. p \in Waiting(q) /\ p \in Parent /\ k \in BatchModel /\ view'.verdict[p][k] \in {"again", "lost"}
      BY <1>8 DEF ToRequeue
    <2>2. Verdict(q, p, k) \in {"again", "lost"}
      BY <1>9, <2>1
    <2> QED BY <1>0, <1>10, <2>1, <2>2, VerdictFacts
  <1>12. ~ overwritten => \A p \in ToJudge' : Judged(p)'
    <2> SUFFICES ASSUME ~ overwritten, NEW p \in Waiting(q) PROVE Judged(p)'
      BY <1>8
    <2>0. p \in Parent
      BY <1>8
    <2>1. Seen(p)
      BY <1>1 DEF BatchInv, Fresh, Judges, ThreadIs
    <2>2. Expected(q, p) # {} /\ Expected(jobs, p) = Expected(q, p)
      BY <2>1 DEF Seen, Waiting, Expected
    <2>3. Expected(view.jobs, p)' = Expected(q, p)
      BY <1>10 DEF Expected
    <2>4. \A k \in Expected(jobs, p) : view'.verdict[p][k] \in {"archived", "failed"} => ~ HasChild(p, k)
      <3> SUFFICES ASSUME NEW k \in Expected(jobs, p), view'.verdict[p][k] \in {"archived", "failed"}
                   PROVE  ~ HasChild(p, k)
        OBVIOUS
      <3>1. k \in BatchModel
        BY DEF Expected
      <3>2. q.place[k] = "out"
        BY <1>0, <1>9, <2>0, <3>1, VerdictFacts
      <3> QED BY <2>1, <3>2 DEF Seen
    <2>5. jobs' = jobs
      BY <1>1
    <2> QED BY <2>1, <2>2, <2>3, <2>4, <2>5 DEF Judged, Seen, HasChild, Pending, Expected
  <1>13. threadAt[w].at \in RefreshPlaces
    BY <1>1 DEF RefreshPlaces
  <1>14. \A p \in Parent : Expected(jobs', p) = Expected(jobs, p)
    BY <1>1 DEF Expected
  <1> QED BY <1>0, <1>1, <1>7, <1>11, <1>12, <1>13, <1>14, RefreshJudges

\* Of the parents that are judged, Turn is one, whichever it is.
LEMMA TurnFacts ==
  ASSUME BatchInv, NEW w \in Thread, threadAt[w].at = "apply", ToJudge # {}
  PROVE  /\ Turn \in ToJudge /\ ToJudge \subseteq Parent
         /\ ~ overwritten => \A p \in ToJudge : Judged(p)
         /\ \A p \in ToJudge : \A k \in ToRequeue(p) : view.jobs.tries[p][k] \in 1 .. Passing - 1
  <1>1. Turn \in ToJudge
    BY DEF Turn
  <1>2. Applies
    BY DEF Applies, ThreadIs
  <1> QED BY <1>1, <1>2 DEF BatchInv, Fresh, TriesLeft, ToJudge

LEMMA StaysApplying ==
  ASSUME BatchInv, NEW w \in Thread, threadAt[w].at = "apply", threadAt' = threadAt
  PROVE  ThreadGoes(w, "apply")
  <1>1. threadAt \in [Thread -> ThreadState] /\ threadAt[w] \in ThreadState
    BY ThreadTypes DEF BatchInv, BatchShape
  <1>2. [threadAt[w] EXCEPT !.at = "apply"] = threadAt[w]
    BY <1>1 DEF ThreadState
  <1> QED BY <1>1, <1>2 DEF ThreadGoes

LEMMA RequeueChildInv ==
  ASSUME BatchInv, NEW w \in Thread, RequeueChild(w)
  PROVE  BatchInv'
  <1> DEFINE p == Turn
             k == CHOOSE i \in ToRequeue(p) : TRUE
             again == view.verdict[p][k] = "again"
             failed == [jobs.failed EXCEPT ![k] = IF again THEN "no" ELSE jobs.failed[k]]
             place == [jobs.place EXCEPT ![k] = IF jobs.place[k] = "out" THEN "queued" ELSE jobs.place[k]]
             owner == [jobs.owner EXCEPT ![k] = IF jobs.place[k] = "out" THEN p ELSE jobs.owner[k]]
             counted == view.jobs.tries[p][k] + 1
             verdict == [o \in Parent |-> [view.verdict[o] EXCEPT ![k] =
                            IF view.verdict[o][k] \in {"again", "lost"} THEN "queued" ELSE view.verdict[o][k]]]
  <1>0. /\ BatchShape /\ jobs \in BatchJobs /\ view.jobs \in BatchJobs
        /\ view \in [jobs : BatchJobs, verdict : [Parent -> [BatchModel -> Verdicts]]]
        /\ view.verdict \in [Parent -> [BatchModel -> Verdicts]]
    BY DEF BatchInv, BatchShape
  <1>1. /\ threadAt[w].at = "apply" /\ threadAt' = threadAt /\ overwritten' = overwritten
        /\ ToJudge # {} /\ ToRequeue(p) # {}
    BY DEF RequeueChild, ThreadIs
  <1>2. /\ p \in ToJudge /\ ToJudge \subseteq Parent /\ p \in Parent
        /\ ~ overwritten => \A o \in ToJudge : Judged(o)
        /\ \A o \in ToJudge : \A i \in ToRequeue(o) : view.jobs.tries[o][i] \in 1 .. Passing - 1
    BY <1>1, TurnFacts
  <1>3. k \in ToRequeue(p) /\ k \in BatchModel
    BY <1>1 DEF ToRequeue
  <1>4. view.jobs.tries[p][k] \in 1 .. Passing - 1
    BY <1>2, <1>3
  <1>5a. view' = [view EXCEPT !.jobs.tries[p][k] = counted, !.verdict = PutBack(k)]
    BY DEF RequeueChild, Counted
  <1>5b. PutBack(k) = verdict
    BY <1>0, <1>3 DEF PutBack
  <1>5. /\ jobs' = [jobs EXCEPT !.failed[k] = IF again THEN "no" ELSE jobs.failed[k],
                                 !.place[k] = IF jobs.place[k] = "out" THEN "queued" ELSE jobs.place[k],
                                 !.owner[k] = IF jobs.place[k] = "out" THEN p ELSE jobs.owner[k]]
        /\ view' = [view EXCEPT !.jobs.tries[p][k] = counted, !.verdict = verdict]
    BY <1>5a, <1>5b DEF RequeueChild
  <1>6. jobs' = [jobs EXCEPT !.failed = failed, !.place = place, !.owner = owner]
    BY <1>0, <1>5 DEF BatchJobs
  <1> HIDE DEF p, k
  <1>7. /\ failed \in [BatchModel -> {"no", "passing", "final"}]
        /\ place \in [BatchModel -> {"out", "queued", "active"}]
        /\ owner \in [BatchModel -> Parent \cup {NoParent}]
    <2>1. /\ jobs.failed \in [BatchModel -> {"no", "passing", "final"}]
          /\ jobs.place \in [BatchModel -> {"out", "queued", "active"}]
          /\ jobs.owner \in [BatchModel -> Parent \cup {NoParent}]
      BY <1>0, BatchJobTypes
    <2> QED BY <1>2, <1>3, <2>1
  <1>8. \A i \in BatchModel, o \in Parent : place[i] # "out" /\ owner[i] = o =>
            (jobs.place[i] # "out" /\ jobs.owner[i] = o) \/ (i = k /\ o = p)
    <2>1. jobs.place \in [BatchModel -> {"out", "queued", "active"}]
          /\ jobs.owner \in [BatchModel -> Parent \cup {NoParent}]
      BY <1>0, BatchJobTypes
    <2> QED BY <1>3, <2>1
  <1> HIDE DEF failed, place, owner, again
  <1>9. /\ jobs' \in BatchJobs /\ jobs'.at = jobs.at /\ jobs'.tries = jobs.tries
        /\ jobs'.place = place /\ jobs'.owner = owner
    BY <1>0, <1>6, <1>7 DEF BatchJobs
  <1> DEFINE tries == [view.jobs.tries EXCEPT ![p][k] = counted]
             seen == [view.jobs EXCEPT !.tries = tries]
  <1>10. view' = [view EXCEPT !.jobs = seen, !.verdict = verdict]
    BY <1>0, <1>5 DEF BatchJobs
  <1>11. /\ tries \in [Parent -> [BatchModel -> 0..Passing]]
         /\ \A o \in Parent, i \in BatchModel : tries[o][i] = IF o = p /\ i = k THEN counted ELSE view.jobs.tries[o][i]
    <2>1. view.jobs.tries \in [Parent -> [BatchModel -> 0..Passing]]
      BY <1>0, BatchJobTypes
    <2>2. counted \in 0..Passing
      BY <1>4, BatchAssumption
    <2> HIDE DEF counted
    <2> QED BY <1>2, <1>3, <2>1, <2>2
  <1>12. counted > 0 /\ view.jobs.tries[p][k] > 0
    BY <1>4, BatchAssumption
  <1>13. /\ verdict \in [Parent -> [BatchModel -> Verdicts]]
         /\ \A o \in Parent, i \in BatchModel :
               verdict[o][i] = IF i = k /\ view.verdict[o][i] \in {"again", "lost"} THEN "queued"
                               ELSE view.verdict[o][i]
    <2>1. "queued" \in Verdicts
      BY DEF Verdicts
    <2> QED BY <1>0, <1>3, <2>1
  <1> HIDE DEF tries, verdict, counted
  <1>14. seen \in BatchJobs /\ seen.tries = tries /\ seen.at = view.jobs.at
    BY <1>0, <1>11 DEF BatchJobs
  <1> HIDE DEF seen
  <1>15. /\ view' \in [jobs : BatchJobs, verdict : [Parent -> [BatchModel -> Verdicts]]]
         /\ view'.jobs = seen /\ view'.verdict = verdict
    BY <1>0, <1>10, <1>13, <1>14
  <1>16. ToJudge' = ToJudge
    BY <1>14, <1>15 DEF ToJudge
  <1>17. \A o \in Parent : Expected(view.jobs, o)' = Expected(view.jobs, o)
    BY <1>11, <1>12, <1>14, <1>15 DEF Expected
  <1>18. \A o \in Parent : ToRequeue(o)' = ToRequeue(o) \ {k}
    BY <1>3, <1>13, <1>15 DEF ToRequeue
  <1>19. \A o \in ToJudge' : \A i \in ToRequeue(o)' : view'.jobs.tries[o][i] \in 1 .. Passing - 1
    <2> SUFFICES ASSUME NEW o \in ToJudge, NEW i \in ToRequeue(o), i # k
                 PROVE  view'.jobs.tries[o][i] \in 1 .. Passing - 1
      BY <1>2, <1>16, <1>18
    <2>1. o \in Parent /\ i \in BatchModel /\ view'.jobs.tries[o][i] = view.jobs.tries[o][i]
      BY <1>2, <1>11, <1>14, <1>15 DEF ToRequeue
    <2> QED BY <1>2, <2>1
  <1>20. ~ overwritten => \A o \in ToJudge' : Judged(o)'
    <2> SUFFICES ASSUME ~ overwritten, NEW o \in ToJudge PROVE Judged(o)'
      BY <1>16
    <2>1. o \in Parent /\ Judged(o)
      BY <1>2
    <2>2. Expected(jobs', o) = Expected(jobs, o)
      BY <1>9 DEF Expected
    <2>3. ASSUME NEW i \in Expected(jobs, o), view'.verdict[o][i] \in {"archived", "failed"}
          PROVE  ~ HasChild(o, i)'
      <3>1. i \in BatchModel
        BY DEF Expected
      <3>2. view.verdict[o][i] \in {"archived", "failed"}
        BY <1>13, <1>15, <2>1, <2>3, <3>1
      <3>3. ~ HasChild(o, i)
        BY <2>1, <3>2 DEF Judged
      <3>4. ~ (i = k /\ o = p)
        BY <1>3, <3>2 DEF ToRequeue
      <3>5. ~ (place[i] # "out" /\ owner[i] = o)
        BY <1>8, <2>1, <3>1, <3>3, <3>4 DEF HasChild, Pending
      <3> QED BY <1>9, <3>5 DEF HasChild, Pending
    <2> QED BY <1>9, <1>17, <2>1, <2>2, <2>3 DEF Judged
  <1>21. \A o \in Parent : Expected(jobs', o) = Expected(jobs, o)
    BY <1>9 DEF Expected
  <1>22. threadAt[w].at \in RefreshPlaces /\ ThreadGoes(w, "apply")
    BY <1>1, StaysApplying DEF RefreshPlaces
  <1> QED BY <1>1, <1>9, <1>15, <1>19, <1>20, <1>21, <1>22, RefreshJudges

LEMMA StoreParentInv ==
  ASSUME BatchInv, NEW w \in Thread, StoreParent(w)
  PROVE  BatchInv'
  <1> DEFINE p == Turn
             none == EmptyJobs.tries[p]
             rest == [view.jobs EXCEPT !.at[p] = "new", !.tries[p] = none, !.passed[p] = {}]
             verdict == [view.verdict EXCEPT ![p] = Unread.verdict[p]]
  <1>0. /\ BatchShape /\ jobs \in BatchJobs /\ view.jobs \in BatchJobs
        /\ view \in [jobs : BatchJobs, verdict : [Parent -> [BatchModel -> Verdicts]]]
        /\ view.verdict \in [Parent -> [BatchModel -> Verdicts]]
    BY DEF BatchInv, BatchShape
  <1>1. /\ threadAt[w].at = "apply" /\ overwritten' = overwritten /\ ToJudge # {}
        /\ ThreadGoes(w, "polling") \/ (threadAt' = threadAt /\ ToJudge # {p})
        /\ view' = [view EXCEPT !.jobs.at[p] = "new", !.jobs.tries[p] = none, !.jobs.passed[p] = {},
                                !.verdict[p] = Unread.verdict[p]]
    BY DEF StoreParent, ThreadIs
  <1>2. /\ p \in ToJudge /\ ToJudge \subseteq Parent /\ p \in Parent
        /\ ~ overwritten => \A o \in ToJudge : Judged(o)
        /\ \A o \in ToJudge : \A i \in ToRequeue(o) : view.jobs.tries[o][i] \in 1 .. Passing - 1
    BY <1>1, TurnFacts
  <1>3. /\ none \in [BatchModel -> 0..Passing] /\ Unread.verdict[p] \in [BatchModel -> Verdicts]
    <2>1. EmptyJobs \in BatchJobs /\ Unread.verdict \in [Parent -> [BatchModel -> Verdicts]]
      BY UnreadType
    <2> QED BY <1>2, <2>1, BatchJobTypes
  <1>4. \/ jobs' = jobs
        \/ jobs' = [jobs EXCEPT !.at[p] = "done", !.tries[p] = none, !.passed[p] = {}]
        \/ jobs' = [jobs EXCEPT !.tries[p] = view.jobs.tries[p], !.passed[p] = view.jobs.passed[p]]
    BY DEF StoreParent
  <1>5. view.jobs.tries[p] \in [BatchModel -> 0..Passing] /\ view.jobs.passed[p] \in SUBSET BatchModel
    BY <1>0, <1>2, BatchJobTypes
  <1> HIDE DEF p, none
  <1>6. /\ jobs' \in BatchJobs /\ jobs'.place = jobs.place /\ jobs'.owner = jobs.owner
        /\ \A o \in Parent : o # p => jobs'.at[o] = jobs.at[o] /\ jobs'.tries[o] = jobs.tries[o]
    <2>1. CASE jobs' = jobs
      BY <1>0, <2>1
    <2>2. CASE jobs' = [jobs EXCEPT !.at[p] = "done", !.tries[p] = none, !.passed[p] = {}]
      BY ZenonT(60), <1>0, <1>2, <1>3, <2>2 DEF BatchJobs
    <2>3. CASE jobs' = [jobs EXCEPT !.tries[p] = view.jobs.tries[p], !.passed[p] = view.jobs.passed[p]]
      BY <1>0, <1>2, <1>5, <2>3 DEF BatchJobs
    <2> QED BY <1>4, <2>1, <2>2, <2>3
  <1>7. /\ rest \in BatchJobs /\ \A o \in Parent : rest.at[o] = IF o = p THEN "new" ELSE view.jobs.at[o]
        /\ \A o \in Parent : o # p => rest.tries[o] = view.jobs.tries[o]
    BY ZenonT(60), <1>0, <1>2, <1>3 DEF BatchJobs
  <1>8. /\ verdict \in [Parent -> [BatchModel -> Verdicts]]
        /\ \A o \in Parent : o # p => verdict[o] = view.verdict[o]
    BY <1>0, <1>2, <1>3
  <1>9. view' = [view EXCEPT !.jobs = rest, !.verdict = verdict]
    BY <1>0, <1>1 DEF BatchJobs
  <1> HIDE DEF rest, verdict
  <1>10. /\ view' \in [jobs : BatchJobs, verdict : [Parent -> [BatchModel -> Verdicts]]]
         /\ view'.jobs = rest /\ view'.verdict = verdict
    BY <1>0, <1>7, <1>8, <1>9
  <1>11. ToJudge' = ToJudge \ {p}
    BY <1>7, <1>10 DEF ToJudge
  <1>12. \A o \in Parent : o # p => /\ Expected(view.jobs, o)' = Expected(view.jobs, o)
                                    /\ Expected(jobs', o) = Expected(jobs, o)
                                    /\ ToRequeue(o)' = ToRequeue(o)
    BY <1>6, <1>7, <1>8, <1>10 DEF Expected, ToRequeue
  <1>13. \A o \in ToJudge' : \A i \in ToRequeue(o)' : view'.jobs.tries[o][i] \in 1 .. Passing - 1
    BY <1>2, <1>7, <1>10, <1>11, <1>12
  <1>14. ~ overwritten => \A o \in ToJudge' : Judged(o)'
    <2> SUFFICES ASSUME ~ overwritten, NEW o \in ToJudge, o # p PROVE Judged(o)'
      BY <1>11
    <2>1. o \in Parent /\ Judged(o)
      BY <1>2
    <2>2. \A i \in BatchModel : HasChild(o, i)' <=> HasChild(o, i)
      BY <1>6 DEF HasChild, Pending
    <2>3. \A i \in Expected(jobs, o) : i \in BatchModel
      BY DEF Expected
    <2> QED BY <1>6, <1>8, <1>10, <1>12, <2>1, <2>2, <2>3 DEF Judged
  <1>15. ~ overwritten => \A o \in Parent : jobs.at[o] = "active" /\ Expected(jobs, o) = {} =>
                              jobs'.at[o] = "active" /\ Expected(jobs', o) = {}
    BY <1>2, <1>6, <1>12 DEF Judged
  <1>16. threadAt[w].at \in RefreshPlaces
    BY <1>1 DEF RefreshPlaces
  <1>17. ThreadGoes(w, "polling") \/ ThreadGoes(w, "apply")
    BY <1>1, StaysApplying
  <1> QED BY <1>1, <1>6, <1>10, <1>13, <1>14, <1>15, <1>16, <1>17, RefreshJudges

LEMMA BatchStart ==
  ASSUME BatchesInit
  PROVE  BatchInv
  <1>1. jobs = EmptyJobs /\ threadAt = [w \in Thread |-> Off] /\ view = Unread /\ overwritten = FALSE
    BY DEF BatchesInit
  <1>2. \A w \in Thread : threadAt[w] = Off /\ Off.at = "off" /\ Off \in ThreadState
    BY <1>1, LoopType
  <1>3. threadAt \in [Thread -> ThreadState]
    BY <1>1, <1>2
  <1>4. BatchShape
    BY <1>1, <1>2, <1>3, UnreadType DEF BatchShape, RunPlaces
  <1>5. OneRefresher /\ ~ Applies /\ ~ Judges /\ RunsAlone
    BY <1>2 DEF OneRefresher, Applies, Judges, RunsAlone, ThreadIs, RefreshPlaces, RunPlaces
  <1> QED BY <1>4, <1>5 DEF BatchInv, TriesLeft, Fresh

LEMMA BatchStep ==
  ASSUME BatchInv, [BatchesNext]_batchVars
  PROVE  BatchInv'
  <1>1. CASE UNCHANGED batchVars
    <2>1. threadAt' = threadAt /\ UNCHANGED <<jobs, view, overwritten>>
      BY <1>1 DEF batchVars
    <2>2. jobs' \in BatchJobs /\ Respected
      BY <2>1 DEF BatchInv, BatchShape, Respected, Waits, HasChild, Pending
    <2>3. ~ overwritten => RunnersKept
      BY <2>1 DEF RunnersKept, BatchInv, RunsAlone, Expected
    <2> QED BY <2>1, <2>2, <2>3, JobsChange
  <1>2. ASSUME NEW p \in Parent, SubmitBatch(p) PROVE BatchInv'
    BY <1>2, SubmitInv
  <1>3. ASSUME NEW w \in Thread, RefreshStep(w) PROVE BatchInv'
    BY <1>3, RestoreInv, MergeInv, SnapshotInv, JudgeInv, RequeueChildInv, StoreParentInv DEF RefreshStep
  <1>4. ASSUME NEW w \in Thread, StartThread(w) \/ RunStep(w) \/ BatchRaises(w) PROVE BatchInv'
    BY <1>4, MovesInv, ChildInv, LeaseParentInv, ExpectInv, EnqueueChildrenInv DEF RunStep
  <1> QED BY <1>1, <1>2, <1>3, <1>4, ClearInv, RestartInv DEF BatchesNext

\* Only the refresh ends a parent that waits.
LEMMA EndedByRefresh ==
  ASSUME BatchInv, BatchesNext, NEW p \in Waiting(jobs), jobs'.at[p] = "done", ~ overwritten'
  PROVE  \E w \in Thread : StoreParent(w)
  <1>0. /\ BatchShape /\ jobs \in BatchJobs /\ p \in Parent /\ jobs.at[p] = "active" /\ Expected(jobs, p) # {}
        /\ jobs' # jobs
    BY DEF BatchInv, BatchShape, Waiting
  <1>1. ASSUME NEW o \in Parent, SubmitBatch(o) PROVE FALSE
    BY <1>0, <1>1, BatchJobTypes DEF SubmitBatch, OnlyJobs, BatchJobs
  <1>2. ASSUME NEW w \in Thread, RefreshStep(w) PROVE StoreParent(w)
    <2>1. CASE RestoreQueued(w) \/ RestoreOrphaned(w)
      <3>1. \E at : jobs'.at = [o \in Parent |-> at[o]] /\ at[p] \in {"active", jobs.at[p]}
        <4>1. CASE RestoreQueued(w)
          BY <1>0, <4>1 DEF RestoreQueued, OnlyJobs, BatchJobs
        <4>2. CASE RestoreOrphaned(w)
          BY <1>0, <4>2 DEF RestoreOrphaned, OnlyJobs, BatchJobs
        <4> QED BY <2>1, <4>1, <4>2
      <3> QED BY <1>0, <3>1
    <2>2. CASE SaveMerged(w)
      <3>1. PICK kept \in Foremost(jobs) : jobs' = Merged(jobs, kept)
        BY <2>2 DEF SaveMerged
      <3>2. jobs'.at[p] \in {"merged", jobs.at[p]}
        BY <1>0, <3>1 DEF Merged, BatchJobs
      <3> QED BY <1>0, <3>2
    <2>3. CASE LoadForMerge(w) \/ Snapshot(w) \/ Judge(w)
      BY <1>0, <2>3 DEF LoadForMerge, Snapshot, Judge
    <2>4. CASE RequeueChild(w)
      <3>1. jobs'.at = jobs.at
        BY <1>0, <2>4 DEF RequeueChild, BatchJobs
      <3> QED BY <1>0, <3>1
    <2> QED BY <1>2, <2>1, <2>2, <2>3, <2>4 DEF RefreshStep
  <1>3. ASSUME NEW w \in Thread, StartThread(w) \/ RunStep(w) PROVE FALSE
    <2>1. CASE StartThread(w) \/ LeaseNothing(w) \/ ChildArchives(w) \/ ReadPending(w) \/ ReadIndex(w)
      BY <1>0, <2>1 DEF StartThread, LeaseNothing, ChildArchives, ReadPending, ReadIndex
    <2>2. CASE (\E k \in BatchModel : LeaseChild(w, k)) \/ ChildCompletes(w) \/ ChildFails(w) \/ EnqueueChildren(w)
      <3>1. jobs'.at = jobs.at
        <4>1. ASSUME NEW k \in BatchModel, LeaseChild(w, k) PROVE jobs'.at = jobs.at
          BY <1>0, <4>1 DEF LeaseChild, OnlyJobs, BatchJobs
        <4>2. CASE ChildCompletes(w)
          BY <1>0, <4>2 DEF ChildCompletes, OnlyJobs, BatchJobs
        <4>3. CASE ChildFails(w)
          BY <1>0, <4>3 DEF ChildFails, OnlyJobs, BatchJobs
        <4>4. CASE EnqueueChildren(w)
          BY <1>0, <4>4 DEF EnqueueChildren, OnlyJobs, BatchJobs
        <4> QED BY <2>2, <4>1, <4>2, <4>3, <4>4
      <3> QED BY <1>0, <3>1
    <2>3. ASSUME NEW o \in Parent, LeaseParent(w, o) PROVE FALSE
      BY <1>0, <2>3, BatchJobTypes DEF LeaseParent, OnlyJobs
    <2>4. CASE Expect(w)
      <3> DEFINE o == threadAt[w].task
      <3>1. threadAt[w].at \in RunPlaces /\ overwritten' = overwritten
        BY <2>4 DEF Expect, ThreadIs, OnlyJobs, RunPlaces
      <3>2. o \in Parent /\ Expected(jobs, o) = {}
        BY <1>0, <3>1, ThreadTypes DEF BatchInv, RunsAlone
      <3>3. jobs.at \in [Parent -> {"new", "queued", "active", "failed", "done", "merged"}]
        BY <1>0, BatchJobTypes
      <3>4. \/ jobs' = jobs \/ jobs' = [jobs EXCEPT !.at[o] = "done"]
            \/ \E tries : jobs' = [jobs EXCEPT !.tries[o] = tries]
        BY <2>4 DEF Expect, OnlyJobs
      <3>5. jobs'.at[p] = jobs.at[p]
        BY <1>0, <3>2, <3>3, <3>4 DEF BatchJobs
      <3> QED BY <1>0, <3>5
    <2> QED BY <1>3, <2>1, <2>2, <2>3, <2>4 DEF RunStep
  <1>4. ASSUME NEW w \in Thread, BatchRaises(w) PROVE FALSE
    <2> DEFINE o == threadAt[w].task
    <2>1. o \in Parent
      BY <1>0, <1>4, ThreadTypes DEF BatchRaises, RunPlaces
    <2>2. jobs.at \in [Parent -> {"new", "queued", "active", "failed", "done", "merged"}]
      BY <1>0, BatchJobTypes
    <2>3. jobs'.at[p] \in {"failed", jobs.at[p]}
      BY <1>0, <1>4, <2>1, <2>2 DEF BatchRaises, BatchJobs
    <2> QED BY <1>0, <2>3
  <1>5. ~ ClearAllFailures
    <2> SUFFICES ASSUME ClearAllFailures PROVE FALSE
      OBVIOUS
    <2>1. jobs'.at = [o \in Parent |-> IF jobs.at[o] = "failed" THEN "done" ELSE jobs.at[o]]
      BY <1>0 DEF ClearAllFailures, BatchJobs
    <2> QED BY <1>0, <2>1
  <1>6. ~ RestartWorker
    <2> SUFFICES ASSUME RestartWorker PROVE FALSE
      OBVIOUS
    <2>1. jobs'.at = [o \in Parent |-> IF jobs.at[o] = "active" /\ Expected(jobs, o) = {} THEN "queued" ELSE jobs.at[o]]
      BY <1>0 DEF RestartWorker, BatchJobs
    <2> QED BY <1>0, <2>1
  <1> QED BY <1>1, <1>2, <1>3, <1>4, <1>5, <1>6 DEF BatchesNext

LEMMA EndsHonestly ==
  ASSUME BatchInv, [BatchesNext]_batchVars, NEW p \in Waiting(jobs), jobs'.at[p] = "done", ~ overwritten'
  PROVE  \A k \in Expected(jobs, p) \cap Pending(jobs) : jobs.owner[k] # p
  <1>0. /\ BatchShape /\ jobs \in BatchJobs /\ p \in Parent /\ jobs.at[p] = "active"
    BY DEF BatchInv, BatchShape, Waiting
  <1>1. BatchesNext
    BY <1>0 DEF batchVars
  <1>2. PICK w \in Thread : StoreParent(w)
    BY <1>1, EndedByRefresh
  <1>3. threadAt[w].at = "apply" /\ ToJudge # {} /\ overwritten' = overwritten
    BY <1>2 DEF StoreParent, ThreadIs
  <1>4. Turn \in Parent /\ Judged(Turn)
    BY <1>3, TurnFacts
  <1>5. p = Turn /\ AllEnded(Turn)
    <2>1. jobs.at \in [Parent -> {"new", "queued", "active", "failed", "done", "merged"}]
      BY <1>0, BatchJobTypes
    <2>2. \/ jobs'.at = jobs.at
          \/ jobs'.at = [jobs.at EXCEPT ![Turn] = "done"] /\ AllEnded(Turn)
      BY <1>0, <1>2 DEF StoreParent, BatchJobs
    <2> QED BY <1>0, <1>4, <2>1, <2>2
  <1>6. ASSUME NEW k \in Expected(jobs, p), k \in Pending(jobs) PROVE jobs.owner[k] # p
    <2>1. Expected(jobs, p) = Expected(view.jobs, p)
      BY <1>4, <1>5 DEF Judged
    <2>2. view.verdict[p][k] \in {"archived", "failed"}
      BY <1>5, <1>6, <2>1 DEF AllEnded
    <2>3. ~ HasChild(p, k)
      BY <1>4, <1>5, <1>6, <2>2 DEF Judged
    <2> QED BY <1>6, <2>3 DEF HasChild
  <1> QED BY <1>6

(***************************************************************************)
(* A batch that waits is never reported as done while a child of its own   *)
(* that it waits for is in the queue, with any number of parents, models   *)
(* and threads: but for a queue that a merge overwrote.                    *)
(***************************************************************************)
THEOREM BatchesEndHonestly == BatchesSpec => HonestEnd
  <1>1. BatchesInit => BatchInv
    BY BatchStart
  <1>2. BatchInv /\ [BatchesNext]_batchVars => BatchInv'
    BY BatchStep
  <1>3. BatchInv /\ [BatchesNext]_batchVars =>
           [\A p \in Parent : p \in Waiting(jobs) /\ jobs'.at[p] = "done" /\ ~ overwritten'
                => \A k \in Expected(jobs, p) \cap Pending(jobs) : jobs.owner[k] # p]_batchVars
    BY EndsHonestly
  <1> QED BY <1>1, <1>2, <1>3, PTL DEF BatchesSpec, HonestEnd

-----------------------------------------------------------------------------
(***************************************************************************)
(* Subscriptions.  The invariant behind its type: what a sync has read and *)
(* has not yet stored, and what the record keeps, are models of the source.*)
(***************************************************************************)
SyncPlaces == {"none", "read", "mark", "scan", "pending", "archived", "submit", "store"}
SubInv ==
    /\ published \subseteq SourceModel /\ inArchive \subseteq SourceModel /\ batchOf \subseteq SourceModel
    /\ sub \in [there : BOOLEAN, enabled : BOOLEAN, running : BOOLEAN, manual : BOOLEAN, known : SUBSET SourceModel]
    /\ sync \in [at : SyncPlaces, id : BOOLEAN, gone : BOOLEAN, manual : BOOLEAN,
                 known : SUBSET SourceModel, fresh : SUBSET SourceModel]
    /\ downs \in 0 .. Downs

LEMMA SubStart == SubscriptionInit => SubInv
  BY SubscriptionAssumption DEF SubscriptionInit, SubInv, NoSub, NoSync, SyncPlaces

\* The steps of the API, which leave a sync where it is.
LEMMA SubApi ==
  ASSUME SubInv,
         \/ CreateSubscription \/ DeleteSubscription \/ RequestSync \/ UpdateSubscription \/ RecoverInApi
         \/ RecoverInWorker
         \/ \E items \in SUBSET SourceModel : UpsertFromArchive(items)
  PROVE  SubInv'
  <1>1. CASE CreateSubscription
    BY <1>1 DEF CreateSubscription, PatchSub, SubInv
  <1>2. CASE DeleteSubscription
    BY <1>2 DEF DeleteSubscription, PatchSub, SubInv, NoSub
  <1>3. CASE RequestSync
    BY <1>3 DEF RequestSync, PatchSub, SubInv
  <1>4. CASE UpdateSubscription
    BY <1>4 DEF UpdateSubscription, PatchSub, SubInv
  <1>5. CASE RecoverInApi \/ RecoverInWorker
    BY <1>5 DEF RecoverInApi, RecoverInWorker, SyncRecovered, PatchSub, SubInv
  <1>6. CASE \E items \in SUBSET SourceModel : UpsertFromArchive(items)
    BY <1>6 DEF UpsertFromArchive, PatchSub, SubInv
  <1> QED BY <1>1, <1>2, <1>3, <1>4, <1>5, <1>6

LEMMA SubSync ==
  ASSUME SubInv, SyncStep
  PROVE  SubInv'
  <1>1. CASE FindNoRecord
    BY <1>1 DEF FindNoRecord, NoSync, SubInv, SyncPlaces
  <1>2. CASE ReadRecord
    BY <1>2 DEF ReadRecord, SubInv, SyncPlaces
  <1>3. CASE MarkRunning
    BY <1>3 DEF MarkRunning, SyncGoes, SyncWrites, SubInv, SyncPlaces
  <1>4. CASE Scan
    <2>1. PICK seen \in SUBSET published :
            sync' = [sync EXCEPT !.at = "pending", !.manual = FALSE, !.fresh = Candidates(seen),
                                 !.known = Tracked(sync.known, seen)]
      BY <1>4 DEF Scan
    <2>2. Candidates(seen) \in SUBSET SourceModel /\ Tracked(sync.known, seen) \in SUBSET SourceModel
      BY DEF Candidates, Tracked, SubInv
    <2>3. "pending" \in SyncPlaces
      BY DEF SyncPlaces
    <2> QED BY <1>4, <2>1, <2>2, <2>3 DEF Scan, SubInv
  <1>5. CASE SyncFails
    BY <1>5 DEF SyncFails, SyncWrites, Ended, NoSync, SubInv, SyncPlaces
  <1>6. CASE ScanIsPartial
    BY <1>6 DEF ScanIsPartial, SyncWrites, Ended, NoSync, SubInv, SyncPlaces
  <1>7. CASE ReadPendingKeys \/ ReadArchivedKeys
    <2>1. sync' \in [at : SyncPlaces, id : BOOLEAN, gone : BOOLEAN, manual : BOOLEAN,
                     known : SUBSET SourceModel, fresh : SUBSET SourceModel]
      <3>1. CASE ReadPendingKeys
        BY <3>1 DEF ReadPendingKeys, SubInv, SyncPlaces
      <3>2. CASE ReadArchivedKeys
        BY <3>2 DEF ReadArchivedKeys, SubInv, SyncPlaces
      <3> QED BY <1>7, <3>1, <3>2
    <2> QED BY <1>7, <2>1 DEF ReadPendingKeys, ReadArchivedKeys, SubInv
  <1>8. CASE SubmitFound
    BY <1>8 DEF SubmitFound, SyncGoes, SubInv, SyncPlaces
  <1>9. CASE StoreFound
    BY <1>9 DEF StoreFound, SyncWrites, Ended, NoSync, SubInv, SyncPlaces
  <1> QED BY <1>1, <1>2, <1>3, <1>4, <1>5, <1>6, <1>7, <1>8, <1>9 DEF SyncStep

LEMMA SubStep ==
  ASSUME SubInv, [SubscriptionNext]_subVars
  PROVE  SubInv'
  <1>1. CASE \E k \in SourceModel : Publish(k) \/ ChildEnds(k)
    BY <1>1 DEF Publish, ChildEnds, SubInv
  <1>2. CASE ArchiveSource
    BY <1>2 DEF ArchiveSource, SubInv
  <1>3. CASE LaunchSync
    BY <1>3 DEF LaunchSync, NoSync, SubInv, SyncPlaces
  <1>4. CASE SubscriptionWorkerDies
    <2>1. downs' \in 0 .. Downs
      BY <1>4, SubscriptionAssumption DEF SubscriptionWorkerDies, SubInv
    <2> QED BY <1>4, <2>1 DEF SubscriptionWorkerDies, NoSync, SubInv, SyncPlaces
  <1>5. CASE UNCHANGED subVars
    BY <1>5 DEF subVars, SubInv
  <1> QED BY <1>1, <1>2, <1>3, <1>4, <1>5, SubApi, SubSync DEF SubscriptionNext

LEMMA SubTypes == SubInv => SubscriptionTypeOK
  BY DEF SubInv, SubscriptionTypeOK

-----------------------------------------------------------------------------
(***************************************************************************)
(* StateEvents.  The invariant behind its type: the ids of committed rows  *)
(* and of rows still to be committed were given out, and a stream, or a    *)
(* page, has been sent only what is committed, never beyond the newest     *)
(* row; a row is never taken back.                                         *)
(***************************************************************************)
EventsShape ==
    /\ sequence \in 0 .. Events /\ open \in [Writer -> 0 .. sequence] /\ rows \subseteq 1 .. sequence
    /\ listening \in BOOLEAN /\ notices \in BOOLEAN /\ cuts \in 0 .. Cuts
StreamStates == [at : {"closed", "fetch", "wait"}, last : Nat, woken : BOOLEAN]
StreamsSent ==
    /\ stream \in [Page -> StreamStates] /\ received \in [Page -> Nat]
    /\ \A p \in Page : /\ stream[p].last \in rows \cup {0} /\ received[p] \in rows \cup {0}
                       /\ stream[p].at = "closed" => stream[p].last = 0
EventsInv == EventsShape /\ StreamsSent

\* The highest of some ids is one of them, or 0 when there are none.
LEMMA LeastOf == ASSUME NEW S, S \subseteq Nat, S # {} PROVE \E n \in S : \A k \in S : ~ (k < n)
  <1> DEFINE Initial == {1 .. n : n \in S}
  <1>1. Initial \subseteq FiniteSubsetsOf(Nat) /\ Initial # {}
    <2>1. \A n \in S : 1 .. n \subseteq Nat /\ IsFiniteSet(1 .. n)
      BY FS_Interval
    <2> QED BY <2>1 DEF FiniteSubsetsOf
  <1>2. \E x \in Initial : \A y \in Initial : ~ (<<y, x>> \in StrictSubsetOrdering(Nat))
    BY <1>1, FS_StrictSubsetOrderingWellFounded, WFMin
  <1>3. PICK n \in S : \A y \in Initial : ~ (<<y, 1 .. n>> \in StrictSubsetOrdering(Nat))
    BY <1>2
  <1>4. ASSUME NEW k \in S, k < n PROVE FALSE
    <2>1. n \in Nat /\ k \in Nat /\ 1 .. k \subseteq 1 .. n /\ n \in 1 .. n /\ n \notin 1 .. k
      BY <1>4
    <2>2. <<1 .. k, 1 .. n>> \in StrictSubsetOrdering(Nat)
      BY <2>1 DEF StrictSubsetOrdering
    <2> QED BY <1>3, <2>2
  <1> QED BY <1>4

LEMMA HighestIsOne ==
  ASSUME NEW n \in Nat, NEW S, S \subseteq 1 .. n
  PROVE  Highest(S) \in S \cup {0} /\ \A k \in S : k <= Highest(S)
  <1>1. \E h \in S \cup {0} : \A k \in S : k <= h
    <2>1. CASE S = {}
      BY <2>1
    <2>2. CASE S # {}
      <3> DEFINE Gaps == {n - k : k \in S}
      <3>1. Gaps \subseteq Nat /\ Gaps # {}
        <4>1. \A k \in S : n - k \in Nat
          OBVIOUS
        <4> QED BY <2>2, <4>1
      <3> HIDE DEF Gaps
      <3>2. PICK gap \in Gaps : \A g \in Gaps : ~ (g < gap)
        BY <3>1, LeastOf
      <3> USE DEF Gaps
      <3>3. PICK h \in S : gap = n - h
        BY <3>2
      <3>4. ASSUME NEW k \in S PROVE k <= h
        <4>1. n - k \in Gaps
          OBVIOUS
        <4>2. ~ (n - k < n - h)
          BY <3>2, <3>3, <4>1
        <4>3. k \in Nat /\ h \in Nat
          OBVIOUS
        <4> QED BY <4>2, <4>3
      <3> QED BY <3>4
    <2> QED BY <2>1, <2>2
  <1> QED BY <1>1 DEF Highest

LEMMA EventsStart == EventsInit => EventsInv
  <1>1. CASE EventsInit
    <2>1. 0 \in 0 .. Events /\ Cuts \in 0 .. Cuts /\ 0 \in 0 .. 0
      BY EventsAssumption
    <2>2. EventsShape
      BY <1>1, <2>1 DEF EventsInit, EventsShape
    <2>3. StreamsSent
      BY <1>1 DEF EventsInit, StreamsSent, StreamStates
    <2> QED BY <2>2, <2>3 DEF EventsInv
  <1> QED BY <1>1

\* Waking the streams moves none of them.
LEMMA WakeKeeps ==
  ASSUME StreamsSent, rows \subseteq rows', UNCHANGED received, stream' \in {stream, Wake(stream)}
  PROVE  StreamsSent'
  <1>1. stream' \in [Page -> StreamStates]
    BY DEF StreamsSent, Wake, StreamStates
  <1>2. \A p \in Page : stream'[p].at = stream[p].at /\ stream'[p].last = stream[p].last
    BY DEF StreamsSent, Wake, StreamStates
  <1> QED BY <1>1, <1>2 DEF StreamsSent

LEMMA OneStream ==
  ASSUME StreamsSent, UNCHANGED <<rows, received>>, NEW p \in Page, NEW s \in StreamStates,
         stream' = [stream EXCEPT ![p] = s],
         s.last \in rows \cup {0}, s.at = "closed" => s.last = 0
  PROVE  StreamsSent'
  BY DEF StreamsSent

LEMMA WriterInv ==
  ASSUME EventsInv, NEW w \in Writer, Insert(w) \/ CommitRow(w) \/ Abort(w)
  PROVE  EventsInv'
  <1>1. CASE Insert(w)
    <2>1. sequence' \in 0 .. Events /\ sequence' = sequence + 1 /\ sequence \in Nat
      BY <1>1, EventsAssumption DEF Insert, EventsInv, EventsShape
    <2>2. open' \in [Writer -> 0 .. sequence'] /\ rows' \subseteq 1 .. sequence'
      <3>1. 0 .. sequence \subseteq 0 .. sequence' /\ 1 .. sequence \subseteq 1 .. sequence' /\ sequence' \in 0 .. sequence'
        BY <2>1
      <3>2. \A v \in Writer : open'[v] \in 0 .. sequence'
        BY <1>1, <3>1 DEF Insert, EventsInv, EventsShape
      <3> QED BY <1>1, <3>1, <3>2 DEF Insert, EventsInv, EventsShape
    <2>3. EventsShape'
      BY <1>1, <2>1, <2>2 DEF Insert, EventsInv, EventsShape
    <2> QED BY <1>1, <2>3, WakeKeeps DEF Insert, EventsInv
  <1>2. CASE CommitRow(w)
    <2>1. open[w] \in 1 .. sequence /\ 0 \in 0 .. sequence
      BY <1>2, EventsAssumption DEF CommitRow, EventsInv, EventsShape
    <2>2. EventsShape'
      BY <1>2, <2>1 DEF CommitRow, EventsInv, EventsShape
    <2> QED BY <1>2, <2>2, WakeKeeps DEF CommitRow, EventsInv
  <1>3. CASE Abort(w)
    <2>1. 0 \in 0 .. sequence
      BY EventsAssumption DEF EventsInv, EventsShape
    <2>2. EventsShape'
      BY <1>3, <2>1 DEF Abort, EventsInv, EventsShape
    <2> QED BY <1>3, <2>2, WakeKeeps DEF Abort, EventsInv
  <1> QED BY <1>1, <1>2, <1>3

LEMMA ListenerInv ==
  ASSUME EventsInv, Coalesced \/ Listen \/ Notified \/ Disconnect
  PROVE  EventsInv'
  <1>1. EventsShape'
    <2>1. CASE Disconnect
      <3>1. cuts' \in 0 .. Cuts
        BY <2>1, EventsAssumption DEF Disconnect, EventsInv, EventsShape
      <3> QED BY <2>1, <3>1 DEF Disconnect, EventsInv, EventsShape
    <2>2. CASE Coalesced \/ Listen \/ Notified
      BY <2>2 DEF Coalesced, Listen, Notified, EventsInv, EventsShape
    <2> QED BY <2>1, <2>2
  <1>2. UNCHANGED <<rows, received>> /\ stream' \in {stream, Wake(stream)}
    BY DEF Coalesced, Listen, Notified, Disconnect
  <1> QED BY <1>1, <1>2, WakeKeeps DEF EventsInv

LEMMA PageInv ==
  ASSUME EventsInv, NEW p \in Page,
         Connect(p) \/ Receive(p) \/ Fetch(p) \/ FetchFails(p) \/ Wait(p) \/ Hangup(p)
  PROVE  EventsInv'
  <1> DEFINE now == stream[p]
  <1>1. /\ now \in StreamStates /\ now.last \in rows \cup {0} /\ received[p] \in rows \cup {0}
        /\ rows \subseteq 1 .. sequence /\ sequence \in Nat /\ rows \subseteq Nat
        /\ now.at = "closed" => now.last = 0
    BY EventsAssumption DEF EventsInv, EventsShape, StreamsSent
  <1>2. UNCHANGED <<sequence, open, rows, listening, notices>>
    BY DEF Connect, Receive, Fetch, FetchFails, Wait, Hangup
  <1>3. cuts' \in 0 .. Cuts
    BY EventsAssumption DEF Connect, Receive, Fetch, FetchFails, Wait, Hangup, EventsInv, EventsShape
  <1>4. EventsShape'
    BY <1>2, <1>3 DEF EventsInv, EventsShape
  <1>5. StreamsSent'
    <2>1. CASE Connect(p)
      <3> DEFINE last == IF received[p] > 0 THEN received[p] ELSE Newest
                 s == [at |-> "fetch", woken |-> FALSE, last |-> last]
      <3>1. Newest \in rows \cup {0}
        BY <1>1, HighestIsOne DEF Newest
      <3>2. last \in rows \cup {0}
        BY <1>1, <3>1
      <3>3. stream' = [stream EXCEPT ![p] = s] /\ UNCHANGED <<rows, received>>
        BY <2>1 DEF Connect
      <3> HIDE DEF last
      <3>4. last \in Nat
        BY <1>1, <3>2
      <3>5. s \in StreamStates /\ s.last \in rows \cup {0} /\ s.at # "closed"
        BY <3>2, <3>4 DEF StreamStates
      <3> HIDE DEF s
      <3> QED BY <3>3, <3>5, OneStream DEF EventsInv
    <2>2. CASE Receive(p)
      BY <2>2, <1>1, <1>2 DEF Receive, EventsInv, StreamsSent
    <2>3. CASE Fetch(p)
      <3> DEFINE found == {id \in rows : id > stream[p].last}
      <3>1. CASE found = {}
        BY <2>3, <3>1, <1>1 DEF Fetch, EventsInv, StreamsSent, StreamStates
      <3>2. CASE found # {}
        <4> DEFINE s == [now EXCEPT !.last = Highest(found)]
        <4>1. Highest(found) \in rows \cup {0}
          BY <1>1, HighestIsOne
        <4>2. s \in StreamStates /\ s.last \in rows \cup {0} /\ s.at = "fetch"
          BY <1>1, <2>3, <4>1 DEF StreamStates, Fetch
        <4>3. stream' = [stream EXCEPT ![p] = s] /\ UNCHANGED <<rows, received>>
          BY <2>3, <3>2 DEF Fetch, EventsInv, StreamsSent
        <4> HIDE DEF s
        <4> QED BY <4>2, <4>3, OneStream DEF EventsInv
      <3> QED BY <3>1, <3>2
    <2>4. CASE FetchFails(p) \/ Wait(p) \/ Hangup(p)
      <3>1. PICK s \in {[now EXCEPT !.at = "wait"], [now EXCEPT !.at = "fetch", !.woken = FALSE],
                         [at |-> "closed", last |-> 0, woken |-> FALSE]} :
               stream' = [stream EXCEPT ![p] = s]
        BY <2>4 DEF FetchFails, Wait, Hangup, EventsInv, StreamsSent
      <3>2. s \in StreamStates /\ s.last \in rows \cup {0} /\ (s.at = "closed" => s.last = 0)
        <4>1. CASE s = [now EXCEPT !.at = "wait"]
          BY <4>1, <1>1 DEF StreamStates
        <4>2. CASE s = [now EXCEPT !.at = "fetch", !.woken = FALSE]
          BY <4>2, <1>1 DEF StreamStates
        <4>3. CASE s = [at |-> "closed", last |-> 0, woken |-> FALSE]
          BY <4>3 DEF StreamStates
        <4> QED BY <4>1, <4>2, <4>3
      <3>3. UNCHANGED <<rows, received>>
        BY <2>4 DEF FetchFails, Wait, Hangup
      <3> QED BY <3>1, <3>2, <3>3, OneStream DEF EventsInv
    <2> QED BY <2>1, <2>2, <2>3, <2>4
  <1> QED BY <1>4, <1>5 DEF EventsInv

LEMMA EventsStep ==
  ASSUME EventsInv, [EventsNext]_eventVars
  PROVE  EventsInv'
  <1>1. CASE UNCHANGED eventVars
    BY <1>1 DEF eventVars, EventsInv, EventsShape, StreamsSent
  <1> QED BY <1>1, WriterInv, ListenerInv, PageInv DEF EventsNext

LEMMA EventsTypes == EventsInv => EventsTypeOK
  <1>1. CASE EventsInv
    <2>1. sequence \in Nat /\ 0 .. sequence \subseteq 0 .. Events /\ 1 .. sequence \subseteq 1 .. Events
      BY <1>1, EventsAssumption DEF EventsInv, EventsShape
    <2>2. open \in [Writer -> 0 .. Events]
      BY <1>1, <2>1 DEF EventsInv, EventsShape
    <2> QED BY <1>1, <2>1, <2>2 DEF EventsInv, EventsShape, StreamsSent, StreamStates, EventsTypeOK
  <1> QED BY <1>1

-----------------------------------------------------------------------------
(***************************************************************************)
(* FollowedSources.  The invariant behind its type: the documents are      *)
(* written from what the sync and the call have loaded of them before, so  *)
(* these copies are typed as the documents are.                            *)
(***************************************************************************)
SubStates == {"no", "on", "off"}
SyncDocs == [Platform -> [requested : BOOLEAN, recent : BOOLEAN]]
Platforms == Platform \cup {AnyPlatform}
ReadingPlaces == {"no", "platform", "collections", "inventory", "read", "write", "save"}
FollowCallPlaces == {"no", "load", "remove", "forget", "read", "write"}
Readings == [at : ReadingPlaces, platform : Platforms, todo : SUBSET Platform, found : SUBSET Source,
             old : [Source -> SubStates], new : [Source -> SubStates], syncs : SyncDocs]
FollowCalls == [at : FollowCallPlaces, platform : Platforms, deleted : BOOLEAN,
                old : [Source -> SubStates], inventory : [Platform -> SUBSET Source], syncs : SyncDocs]
SitesTyped == follows \subseteq Source /\ cookie \subseteq Platform
SubsTyped == subs \in [Source -> SubStates] /\ states \in [Source -> {"no", "idle", "asked"}]
SyncsTyped == syncs \in SyncDocs /\ inventory \in [Platform -> SUBSET Source]
ReadingTyped == reading \in Readings
CallTyped == call \in FollowCalls
LeftTyped == wishes \in 0 .. Wishes /\ changed \in 0 .. Follows /\ unanswered \in 0 .. Unanswered
FollowInv == SitesTyped /\ SubsTyped /\ SyncsTyped /\ ReadingTyped /\ CallTyped /\ LeftTyped

LEMMA NothingLoaded == NoFollowSync \in Readings /\ NoCall \in FollowCalls
  <1>1. NoSubs \in [Source -> SubStates] /\ NoSyncs \in SyncDocs /\ NothingImported \in [Platform -> SUBSET Source]
    BY DEF NoSubs, NoSyncs, NothingImported, SubStates, SyncDocs
  <1> HIDE DEF NoSubs, NoSyncs, NothingImported
  <1> QED BY <1>1 DEF NoFollowSync, NoCall, Readings, FollowCalls, ReadingPlaces, FollowCallPlaces, Platforms

LEMMA FollowStart == FollowInit => FollowInv
  <1>1. CASE FollowInit
    <2>1. LeftTyped
      BY <1>1, FollowAssumption DEF FollowInit, LeftTyped
    <2>2. SubsTyped /\ SyncsTyped
      BY <1>1 DEF FollowInit, SubsTyped, SyncsTyped, NoSubs, NoSyncs, NothingImported, SubStates, SyncDocs
    <2> QED BY <1>1, <2>1, <2>2, NothingLoaded DEF FollowInit, FollowInv, SitesTyped, ReadingTyped, CallTyped
  <1> QED BY <1>1

\* What a step leaves alone keeps its type.
LEMMA SitesStay == SitesTyped /\ UNCHANGED <<follows, cookie>> => SitesTyped'
  BY DEF SitesTyped
LEMMA SubsStay == SubsTyped /\ UNCHANGED <<subs, states>> => SubsTyped'
  BY DEF SubsTyped
LEMMA SyncsStay == SyncsTyped /\ UNCHANGED <<syncs, inventory>> => SyncsTyped'
  BY DEF SyncsTyped
LEMMA ReadingStays == ReadingTyped /\ UNCHANGED reading => ReadingTyped'
  BY DEF ReadingTyped
LEMMA CallStays == CallTyped /\ UNCHANGED call => CallTyped'
  BY DEF CallTyped
LEMMA LeftStays == LeftTyped /\ UNCHANGED <<wishes, changed, unanswered>> => LeftTyped'
  BY DEF LeftTyped

LEMMA FollowChangesInv ==
  ASSUME FollowInv, NEW s \in Source, FollowChanges(s)
  PROVE  FollowInv'
  <1>1. SitesTyped'
    BY DEF FollowChanges, FollowInv, SitesTyped, docs
  <1>2. LeftTyped'
    BY FollowAssumption DEF FollowChanges, FollowInv, LeftTyped
  <1> QED BY <1>1, <1>2, SubsStay, SyncsStay, ReadingStays, CallStays DEF FollowInv, FollowChanges, docs

\* The last sync of a platform is more than six hours ago.
Aged(doc, p) == [doc EXCEPT ![p].recent = FALSE]
LEMMA AgedType == ASSUME NEW doc \in SyncDocs, NEW p \in Platform PROVE Aged(doc, p) \in SyncDocs
  BY DEF Aged, SyncDocs

LEMMA IntervalPassesInv ==
  ASSUME FollowInv, NEW p \in Platform, IntervalPasses(p)
  PROVE  FollowInv'
  <1>1. SyncsTyped'
    BY AgedType DEF IntervalPasses, FollowInv, SyncsTyped, Aged
  <1>2. ReadingTyped'
    <2>1. reading.syncs \in SyncDocs
      BY DEF FollowInv, ReadingTyped, Readings
    <2>2. [reading EXCEPT !.syncs = Aged(reading.syncs, p)] \in Readings
      BY <2>1, AgedType DEF FollowInv, ReadingTyped, Readings
    <2>3. reading' = [reading EXCEPT !.syncs = Aged(reading.syncs, p)]
      BY DEF IntervalPasses, Aged, FollowInv, ReadingTyped, Readings
    <2> QED BY <2>2, <2>3 DEF ReadingTyped
  <1>3. CallTyped'
    <2>1. call.syncs \in SyncDocs
      BY DEF FollowInv, CallTyped, FollowCalls
    <2>2. [call EXCEPT !.syncs = Aged(call.syncs, p)] \in FollowCalls
      BY <2>1, AgedType DEF FollowInv, CallTyped, FollowCalls
    <2>3. call' = [call EXCEPT !.syncs = Aged(call.syncs, p)]
      BY DEF IntervalPasses, Aged, FollowInv, CallTyped, FollowCalls
    <2> QED BY <2>2, <2>3 DEF CallTyped
  <1> QED BY <1>1, <1>2, <1>3, SitesStay, SubsStay, LeftStays DEF FollowInv, IntervalPasses, bounds

LEMMA StatesInv ==
  ASSUME FollowInv, EnsureStates \/ \E s \in Source : TakeUpFirst(s)
  PROVE  FollowInv'
  <1>1. SubsTyped'
    <2>1. CASE EnsureStates
      BY <2>1 DEF EnsureStates, FollowInv, SubsTyped
    <2>2. CASE \E s \in Source : TakeUpFirst(s)
      BY <2>2 DEF TakeUpFirst, FollowInv, SubsTyped
    <2> QED BY <2>1, <2>2
  <1> QED BY <1>1, SitesStay, SyncsStay, ReadingStays, CallStays, LeftStays
          DEF FollowInv, EnsureStates, TakeUpFirst, bounds

\* The steps of the user.
LEMMA UserInv ==
  ASSUME FollowInv,
         \/ \E p \in Platform : SaveAccount(p) \/ DeleteAccount(p)
         \/ \E s \in Source, to \in {"no", "off", "on"} : ChangeSub(s, to)
  PROVE  FollowInv'
  <1>1. LeftTyped'
    <2>1. wishes > 0 /\ wishes' = wishes - 1 /\ UNCHANGED <<changed, unanswered>>
      BY DEF SaveAccount, DeleteAccount, ChangeSub, Wish
    <2> QED BY <2>1, FollowAssumption DEF FollowInv, LeftTyped
  <1>2. CASE \E p \in Platform : SaveAccount(p) \/ DeleteAccount(p)
    <2>1. PICK p \in Platform : SaveAccount(p) \/ DeleteAccount(p)
      BY <1>2
    <2>2. SitesTyped'
      BY <2>1 DEF SaveAccount, DeleteAccount, FollowInv, SitesTyped
    <2>3. [NoCall EXCEPT !.at = "read", !.platform = p] \in FollowCalls
      BY NothingLoaded DEF FollowCalls, FollowCallPlaces, Platforms
    <2>4. [NoCall EXCEPT !.at = "load", !.platform = p, !.deleted = TRUE] \in FollowCalls
      BY NothingLoaded DEF FollowCalls, FollowCallPlaces, Platforms
    <2>5. CallTyped'
      BY <2>1, <2>3, <2>4 DEF SaveAccount, DeleteAccount, CallTyped
    <2> QED BY <2>1, <2>2, <2>5, <1>1, SubsStay, SyncsStay, ReadingStays DEF FollowInv, SaveAccount, DeleteAccount
  <1>3. CASE \E s \in Source, to \in {"no", "off", "on"} : ChangeSub(s, to)
    <2>1. SubsTyped'
      BY <1>3 DEF ChangeSub, FollowInv, SubsTyped, SubStates
    <2> QED BY <1>3, <2>1, <1>1, SitesStay, SyncsStay, ReadingStays, CallStays DEF FollowInv, ChangeSub
  <1> QED BY <1>2, <1>3

LEMMA UnansweredLeft ==
  ASSUME LeftTyped, UNCHANGED <<wishes, changed>>,
         UNCHANGED unanswered \/ (unanswered > 0 /\ unanswered' = unanswered - 1)
  PROVE  LeftTyped'
  BY FollowAssumption DEF LeftTyped

\* The steps of the sync in the worker.
LEMMA FollowStepInv ==
  ASSUME FollowInv, FollowStep
  PROVE  FollowInv'
  <1>1. CASE StartFollowSync
    <2>1. DuePlatforms \in SUBSET Platform /\ subs \in [Source -> SubStates]
      BY DEF DuePlatforms, FollowInv, SitesTyped, SubsTyped
    <2>2. [NoFollowSync EXCEPT !.at = "platform", !.todo = DuePlatforms, !.old = subs, !.new = subs] \in Readings
      <3> HIDE DEF DuePlatforms
      <3> QED BY <2>1, NothingLoaded DEF Readings, ReadingPlaces
    <2>3. ReadingTyped'
      BY <1>1, <2>2 DEF StartFollowSync, ReadingTyped
    <2> QED BY <1>1, <2>3, SitesStay, SubsStay, SyncsStay, CallStays, LeftStays
            DEF StartFollowSync, FollowInv, docs, bounds
  <1>2. ASSUME NEW p \in Platform, ReadAuthors(p) PROVE FollowInv'
    <2>1. PICK authors \in SUBSET Followed(p, Authors) :
            /\ Gives(Followed(p, Authors), authors)
            /\ reading' = [reading EXCEPT !.at = "collections", !.platform = p, !.found = authors]
      BY <1>2 DEF ReadAuthors
    <2>2. authors \in SUBSET Source
      BY DEF Followed, FollowInv, SitesTyped
    <2>3. ReadingTyped'
      BY <2>1, <2>2 DEF FollowInv, ReadingTyped, Readings, ReadingPlaces, Platforms
    <2>4. LeftTyped'
      BY <1>2, <2>1, UnansweredLeft DEF ReadAuthors, Gives, FollowInv
    <2> QED BY <1>2, <2>3, <2>4, SitesStay, SubsStay, SyncsStay, CallStays DEF ReadAuthors, FollowInv, docs
  <1>3. CASE ReadCollections
    <2>1. PICK collections \in SUBSET Followed(reading.platform, Collections) :
            /\ Gives(Followed(reading.platform, Collections), collections)
            /\ ImportFound(reading.found \cup collections)
      BY <1>3 DEF ReadCollections
    <2> DEFINE found == reading.found \cup collections
               new == [s \in Source |-> IF s \in found THEN "on" ELSE reading.new[s]]
    <2>2. found \in SUBSET Source
      BY DEF Followed, FollowInv, SitesTyped, ReadingTyped, Readings
    <2>3. new \in [Source -> SubStates]
      BY DEF FollowInv, ReadingTyped, Readings, SubStates
    <2>4. reading' = [reading EXCEPT !.at = "inventory", !.found = found, !.new = new]
      BY <2>1 DEF ImportFound
    <2>5. ReadingTyped'
      <3> HIDE DEF found, new
      <3> QED BY <2>2, <2>3, <2>4 DEF FollowInv, ReadingTyped, Readings, ReadingPlaces
    <2>6. SubsTyped'
      BY <1>3, <2>1 DEF ImportFound, ReadCollections, FollowInv, SubsTyped
    <2>7. LeftTyped'
      BY <1>3, <2>1, UnansweredLeft DEF ReadCollections, Gives, FollowInv
    <2> QED BY <1>3, <2>5, <2>6, <2>7, SitesStay, SyncsStay, CallStays DEF ReadCollections, FollowInv
  <1>4. CASE PlatformFails
    <2>1. ReadingTyped'
      BY <1>4 DEF PlatformFails, FollowInv, ReadingTyped, Readings, ReadingPlaces
    <2>2. LeftTyped'
      BY <1>4, UnansweredLeft DEF PlatformFails, FollowInv
    <2> QED BY <1>4, <2>1, <2>2, SitesStay, SubsStay, SyncsStay, CallStays DEF PlatformFails, FollowInv, docs
  <1>5. CASE StoreInventory
    <2>1. reading.found \in SUBSET Source
      BY DEF FollowInv, ReadingTyped, Readings
    <2>2. SyncsTyped'
      BY <1>5, <2>1 DEF StoreInventory, FollowInv, SyncsTyped
    <2>3. ReadingTyped'
      BY <1>5 DEF StoreInventory, FollowInv, ReadingTyped, Readings, ReadingPlaces
    <2> QED BY <1>5, <2>2, <2>3, SitesStay, SubsStay, CallStays, LeftStays DEF StoreInventory, FollowInv, bounds
  <1>6. CASE ReadSyncs
    <2>1. ReadingTyped'
      BY <1>6 DEF ReadSyncs, FollowInv, SyncsTyped, ReadingTyped, Readings, ReadingPlaces
    <2> QED BY <1>6, <2>1, SitesStay, SubsStay, SyncsStay, CallStays, LeftStays
            DEF ReadSyncs, FollowInv, docs, bounds
  <1>7. CASE WriteSynced
    <2>1. reading.syncs \in SyncDocs
      BY DEF FollowInv, ReadingTyped, Readings
    <2>2. SyncsTyped'
      BY <1>7, <2>1 DEF WriteSynced, FollowInv, SyncsTyped, SyncDocs
    <2>3. ReadingTyped'
      BY <1>7 DEF WriteSynced, FollowInv, ReadingTyped, Readings, ReadingPlaces
    <2> QED BY <1>7, <2>2, <2>3, SitesStay, SubsStay, CallStays, LeftStays DEF WriteSynced, FollowInv, bounds
  <1>8. CASE SaveFollowed
    <2>1. SubsTyped'
      BY <1>8 DEF SaveFollowed, MergedSubs, FollowInv, SubsTyped, ReadingTyped, Readings
    <2>2. ReadingTyped'
      BY <1>8, NothingLoaded DEF SaveFollowed, ReadingTyped
    <2> QED BY <1>8, <2>1, <2>2, SitesStay, SyncsStay, CallStays, LeftStays DEF SaveFollowed, FollowInv, bounds
  <1> QED BY <1>1, <1>2, <1>3, <1>4, <1>5, <1>6, <1>7, <1>8 DEF FollowStep

\* The steps of the call that the API serves.
LEMMA CallStepInv ==
  ASSUME FollowInv, CallStep
  PROVE  FollowInv'
  <1>1. CASE LoadForRemoval
    <2>1. CallTyped'
      BY <1>1 DEF LoadForRemoval, FollowInv, CallTyped, FollowCalls, FollowCallPlaces, SubsTyped, SyncsTyped
    <2> QED BY <1>1, <2>1, SitesStay, SubsStay, SyncsStay, ReadingStays, LeftStays
            DEF LoadForRemoval, FollowInv, docs, bounds
  <1>2. CASE RemoveImported
    <2> DEFINE kept == [s \in Source |-> IF s \in Imported THEN "no" ELSE call.old[s]]
    <2>1. kept \in [Source -> SubStates]
      BY DEF FollowInv, CallTyped, FollowCalls, SubStates
    <2>2. CallTyped' /\ SubsTyped'
      <3>1. CASE Unmergeable(call.old, kept)
        BY <1>2, <3>1, NothingLoaded, SubsStay DEF RemoveImported, FollowInv, CallTyped
      <3>2. CASE ~ Unmergeable(call.old, kept)
        <4>1. /\ call' = [call EXCEPT !.at = "forget"] /\ subs' = MergedSubs(call.old, kept)
              /\ states' = [s \in Source |-> IF s \in Imported /\ call.old[s] # "no" THEN "no" ELSE states[s]]
          BY <1>2, <3>2 DEF RemoveImported
        <4>2. CallTyped'
          BY <4>1 DEF FollowInv, CallTyped, FollowCalls, FollowCallPlaces
        <4>3. subs' \in [Source -> SubStates]
          <5> HIDE DEF kept
          <5> QED BY <4>1, <2>1 DEF MergedSubs, FollowInv, SubsTyped
        <4>4. states' \in [Source -> {"no", "idle", "asked"}]
          BY <4>1 DEF FollowInv, SubsTyped
        <4> QED BY <4>2, <4>3, <4>4 DEF SubsTyped
      <3> QED BY <3>1, <3>2
    <2> QED BY <1>2, <2>2, SitesStay, SyncsStay, ReadingStays, LeftStays DEF RemoveImported, FollowInv, bounds
  <1>3. CASE ForgetImported
    <2>1. SyncsTyped'
      BY <1>3 DEF ForgetImported, FollowInv, SyncsTyped, CallTyped, FollowCalls
    <2>2. CallTyped'
      BY <1>3 DEF ForgetImported, FollowInv, CallTyped, FollowCalls, FollowCallPlaces
    <2> QED BY <1>3, <2>1, <2>2, SitesStay, SubsStay, ReadingStays, LeftStays DEF ForgetImported, FollowInv, bounds
  <1>4. CASE ReadForCall
    <2>1. CallTyped'
      BY <1>4 DEF ReadForCall, FollowInv, CallTyped, FollowCalls, FollowCallPlaces, SyncsTyped
    <2> QED BY <1>4, <2>1, SitesStay, SubsStay, SyncsStay, ReadingStays, LeftStays
            DEF ReadForCall, FollowInv, docs, bounds
  <1>5. CASE WriteRequest
    <2>1. call.syncs \in SyncDocs
      BY DEF FollowInv, CallTyped, FollowCalls
    <2>2. SyncsTyped'
      BY <1>5, <2>1 DEF WriteRequest, FollowInv, SyncsTyped, SyncDocs
    <2>3. CallTyped'
      BY <1>5, NothingLoaded DEF WriteRequest, CallTyped
    <2> QED BY <1>5, <2>2, <2>3, SitesStay, SubsStay, ReadingStays, LeftStays DEF WriteRequest, FollowInv, bounds
  <1> QED BY <1>1, <1>2, <1>3, <1>4, <1>5 DEF CallStep

LEMMA FollowKeeps ==
  ASSUME FollowInv, [FollowNext]_followVars
  PROVE  FollowInv'
  <1>1. CASE UNCHANGED followVars
    BY <1>1, SitesStay, SubsStay, SyncsStay, ReadingStays, CallStays, LeftStays DEF followVars, FollowInv
  <1> QED BY <1>1, FollowChangesInv, IntervalPassesInv, StatesInv, UserInv, FollowStepInv, CallStepInv DEF FollowNext

LEMMA FollowTypes == FollowInv => FollowTypeOK
  BY DEF FollowInv, FollowTypeOK, SitesTyped, SubsTyped, SyncsTyped, ReadingTyped, CallTyped, LeftTyped,
         SubStates, SyncDocs, Readings, FollowCalls, ReadingPlaces, FollowCallPlaces

-----------------------------------------------------------------------------
(* What BatchInv leaves out of the types: the index and the bound.         *)
BatchRest == archived \subseteq BatchModel /\ upsets \in 0 .. Upsets

LEMMA BatchRestStart == BatchesInit => BatchRest
  <1>1. Upsets \in 0 .. Upsets
    BY BatchAssumption
  <1> QED BY <1>1 DEF BatchesInit, BatchRest

\* The index gains the model of a child that runs.
LEMMA IndexGains ==
  ASSUME BatchesNext
  PROVE  archived' = archived \/ \E w \in Thread : ThreadIs(w, "child") /\ archived' = archived \cup {threadAt[w].task}
  <1>1. ASSUME NEW w \in Thread, RefreshStep(w) PROVE archived' = archived
    BY <1>1 DEF RefreshStep, RestoreQueued, RestoreOrphaned, LoadForMerge, SaveMerged, Snapshot, Judge,
                RequeueChild, StoreParent, OnlyJobs
  <1>2. ASSUME NEW w \in Thread, RunStep(w), ~ ChildArchives(w) PROVE archived' = archived
    BY <1>2 DEF RunStep, LeaseChild, LeaseParent, LeaseNothing, ChildCompletes, ChildFails, ReadPending,
                ReadIndex, EnqueueChildren, Expect, OnlyJobs
  <1>3. CASE \E w \in Thread : ChildArchives(w)
    BY <1>3 DEF ChildArchives
  <1>4. CASE \/ \E p \in Parent : SubmitBatch(p)
             \/ \E w \in Thread : StartThread(w) \/ BatchRaises(w)
             \/ ClearAllFailures \/ RestartWorker
    BY <1>4 DEF SubmitBatch, StartThread, BatchRaises, ClearAllFailures, RestartWorker, OnlyJobs
  <1> QED BY <1>1, <1>2, <1>3, <1>4 DEF BatchesNext

LEMMA UpsetsFall ==
  ASSUME BatchesNext
  PROVE  upsets' = upsets \/ Upset
  <1>1. ASSUME NEW w \in Thread, RefreshStep(w) PROVE upsets' = upsets
    BY <1>1 DEF RefreshStep, RestoreQueued, RestoreOrphaned, LoadForMerge, SaveMerged, Snapshot, Judge,
                RequeueChild, StoreParent, OnlyJobs
  <1>2. ASSUME NEW w \in Thread, RunStep(w) PROVE upsets' = upsets
    BY <1>2 DEF RunStep, LeaseChild, LeaseParent, LeaseNothing, ChildArchives, ChildCompletes, ChildFails,
                ReadPending, ReadIndex, EnqueueChildren, Expect, OnlyJobs
  <1>3. CASE \/ \E p \in Parent : SubmitBatch(p)
             \/ \E w \in Thread : StartThread(w) \/ BatchRaises(w)
             \/ ClearAllFailures \/ RestartWorker
    BY <1>3 DEF SubmitBatch, StartThread, BatchRaises, ClearAllFailures, RestartWorker, OnlyJobs
  <1> QED BY <1>1, <1>2, <1>3 DEF BatchesNext

LEMMA BatchRestStep ==
  ASSUME BatchInv, BatchRest, [BatchesNext]_batchVars
  PROVE  BatchRest'
  <1>1. archived' \subseteq BatchModel
    <2>1. CASE archived' = archived
      BY <2>1 DEF BatchRest
    <2>2. ASSUME NEW w \in Thread, ThreadIs(w, "child"), archived' = archived \cup {threadAt[w].task}
          PROVE  archived' \subseteq BatchModel
      BY <2>2 DEF BatchRest, BatchInv, BatchShape, ThreadIs
    <2> QED BY <2>1, <2>2, IndexGains DEF batchVars
  <1>2. upsets' \in 0 .. Upsets
    <2>1. upsets' = upsets \/ Upset
      BY UpsetsFall DEF batchVars
    <2> QED BY <2>1, BatchAssumption DEF Upset, BatchRest
  <1> QED BY <1>1, <1>2 DEF BatchRest

LEMMA BatchTypes == BatchInv /\ BatchRest => BatchesTypeOK
  <1>1. CASE BatchInv /\ BatchRest
    <2>1. \A w \in Thread : threadAt[w].task \in BatchModel \cup Parent \cup {NoTask} /\ threadAt[w].models \subseteq BatchModel
      BY <1>1 DEF BatchInv, BatchShape, ThreadState
    <2>2. view.jobs \in BatchJobs /\ view.verdict \in [Parent -> [BatchModel -> Verdicts]]
      BY <1>1 DEF BatchInv, BatchShape
    <2> QED BY <1>1, <2>1, <2>2 DEF BatchInv, BatchShape, BatchRest, BatchesTypeOK
  <1> QED BY <1>1

-----------------------------------------------------------------------------
(***************************************************************************)
(* Every variable of the eight services keeps its type, whichever of them  *)
(* the system is looked at: what a sync, a refresh, an update, a job, a    *)
(* batch, an import or a stream has read, and writes back later, is of the *)
(* type of what it is written to.                                          *)
(***************************************************************************)
ServicesInv ==
    /\ RefreshInv /\ SubInv /\ UpdateInv /\ ThreeMfInv /\ FollowInv
    /\ BatchInv /\ BatchRest /\ ImportInv /\ EventsInv
THEOREM ServicesTypesCorrect == ServicesSpec => []ServicesTypeOK
  <1>1. ServicesInit => ServicesInv
    BY RefreshInitInv, SubStart, UpdateInitInv, ThreeMfInitInv, FollowStart, BatchStart, BatchRestStart,
       ImportInitInv, EventsStart DEF ServicesInit, ServicesInv
  <1>2. ASSUME ServicesInv, [ServicesNext]_vars PROVE ServicesInv'
    <2>1. /\ [RefreshNext]_refreshVars /\ [SubscriptionNext]_subVars /\ [UpdateNext]_updateVars
          /\ [ThreeMfNext]_threeMfVars /\ [FollowNext]_followVars /\ [BatchesNext]_batchVars
          /\ [ImportNext]_importVars /\ [EventsNext]_eventVars
      BY <1>2 DEF ServicesNext, vars, OnlyRefresh, OnlySubs, OnlyUpdate, OnlyThreeMf, OnlyFollowed,
                  OnlyBatches, OnlyImport, OnlyEvents
    <2>2. BatchInv' /\ BatchRest'
      BY <1>2, <2>1, BatchStep, BatchRestStep DEF ServicesInv
    <2>3. RefreshInv' /\ SubInv' /\ UpdateInv'
      BY <1>2, <2>1, RefreshStepInv, SubStep, UpdateStepInv DEF ServicesInv
    <2>4. ThreeMfInv' /\ FollowInv' /\ ImportInv' /\ EventsInv'
      BY <1>2, <2>1, ThreeMfStepInv, FollowKeeps, ImportStepInv, EventsStep DEF ServicesInv
    <2> QED BY <2>2, <2>3, <2>4 DEF ServicesInv
  <1>3. ServicesInv => ServicesTypeOK
    BY RefreshTypes, SubTypes, UpdateTypes, ThreeMfTypes, FollowTypes, BatchTypes, ImportInvTypes, EventsTypes
       DEF ServicesInv, ServicesTypeOK
  <1> QED BY <1>1, <1>2, <1>3, PTL DEF ServicesSpec
=============================================================================
