------------------------- MODULE SelfUpdate_proofs --------------------------
(* Theorems about SelfUpdate, for every value of its constants.            *)
EXTENDS SelfUpdate, TLAPS

(***************************************************************************)
(* The invariant behind the theorems.  While no answer was lost, what the  *)
(* helper knows of a role is what was done to it, until the rollback has   *)
(* come past the role and, if it reported no error, has undone it.         *)
(***************************************************************************)
Forward == {"prepare", "stop", "rename", "create", "start", "verify", "commit"}
Backward == {"undo", "unname", "restart"}
Places == {"off", "remove", "report"} \cup Forward \cup Backward
Knowledge == [stopped : BOOLEAN, renamed : BOOLEAN, created : BOOLEAN]
Helpers == [at : Places, role : Role, knows : [Role -> Knowledge]]
Statuses == Active \cup {"idle", "succeeded", "failed"}
OldStates == [named : {"own", "backup", "gone"}, runs : BOOLEAN]

Shape ==
    /\ update \in [status : Statuses, errors : BOOLEAN, cleaned : BOOLEAN]
    /\ old \in [Role -> OldStates]
    /\ candidate \in [Role -> {"none", "created", "runs"}]
    /\ helper \in Helpers
    /\ app \in [request : {"none", "create", "start"}, started : BOOLEAN, cleans : BOOLEAN]
    /\ faults \in 0..Faults /\ impaired \in BOOLEAN

\* A helper that is off knows nothing; there is none while one is requested.
Apart ==
    /\ HelperIs("off") => helper = NoHelper
    /\ HelperIs("prepare") => helper = [NoHelper EXCEPT !.at = "prepare"]
    /\ app.request # "none" => HelperIs("off") /\ update.status \in Active
Untouched ==
    app.request # "none" \/ HelperIs("prepare") =>
        \A r \in Role : old[r].named = "own" /\ candidate[r] = "none" /\ (impaired \/ old[r].runs)

\* How far the candidates are.
Progress ==
    /\ helper.at \in {"stop", "rename", "create"} => \A r \in Role : r < helper.role => helper.knows[r].created
    /\ helper.at \in {"start", "verify", "commit"} => \A r \in Role : helper.knows[r].created
    /\ HelperIs("start") => \A r \in Role : r < helper.role => candidate[r] = "runs"
    /\ helper.at \in {"verify", "commit", "remove"} => AllNew
GoneLast == \A r \in Role : old[r].named = "gone" => AllNew /\ helper.at \in {"off", "remove"}
Succeeded == update.status = "succeeded" => AllNew /\ helper.at \in {"off", "remove"} /\ app.request = "none"

\* What the helper knows, and what the rollback has undone.
Stopped(r) == helper.knows[r].stopped <=> ~ old[r].runs
Renamed(r) == helper.knows[r].renamed <=> old[r].named = "backup"
Created(r) == helper.knows[r].created <=> candidate[r] # "none"
Restored(r) == old[r] = OldRuns /\ candidate[r] = "none"
Known ==
    ~ impaired /\ helper.at \in Forward => \A r \in Role : Stopped(r) /\ Renamed(r) /\ Created(r)
Undone ==
    ~ impaired /\ ~ update.errors =>
        /\ helper.at \in Backward =>
              \A r \in Role : /\ r < helper.role => Stopped(r) /\ Renamed(r) /\ Created(r)
                              /\ r > helper.role => Restored(r)
        /\ helper.at \in Backward => Stopped(helper.role)
        /\ helper.at \in {"undo", "unname"} => Renamed(helper.role)
        /\ HelperIs("undo") => Created(helper.role)
        /\ helper.at \in {"unname", "restart"} => candidate[helper.role] = "none"
        /\ HelperIs("restart") => old[helper.role].named = "own"
        /\ HelperIs("report") => AllOld
Failed == update.status = "failed" => impaired \/ (HelperIs("off") /\ (update.errors \/ AllOld))

UpdateInv ==
    Shape /\ Apart /\ Untouched /\ Progress /\ GoneLast /\ Succeeded /\ Known /\ Undone /\ Failed

LEMMA NoHelperType == NoHelper \in Helpers /\ [NoHelper EXCEPT !.at = "prepare"] \in Helpers
  <1>1. NoHelper.knows \in [Role -> Knowledge] /\ 1 \in Role
    BY UpdateAssumption DEF NoHelper, Ignorant, Knowledge, Role
  <1> QED BY <1>1 DEF NoHelper, Helpers, Places, Forward

LEMMA RaisesType == Shape /\ Raises => helper' \in Helpers
  <1>1. Roles \in Role /\ "undo" \in Places
    BY UpdateAssumption DEF Role, Places, Backward
  <1> QED BY <1>1 DEF Shape, Raises, Helpers

LEMMA UpdateInitInv == UpdateInit => UpdateInv
  <1> SUFFICES ASSUME UpdateInit PROVE UpdateInv
    OBVIOUS
  <1> USE DEF UpdateInit, NoHelper, Ignorant, OldRuns
  <1>1. Shape
    <2>1. helper \in Helpers /\ old \in [Role -> OldStates] /\ candidate \in [Role -> {"none", "created", "runs"}]
      BY NoHelperType DEF OldStates
    <2>2. faults = Faults /\ impaired = FALSE
      OBVIOUS
    <2>3. faults \in 0..Faults
      BY <2>2, UpdateAssumption
    <2> QED BY <2>1, <2>2, <2>3 DEF Shape, Statuses
  <1>2. Apart /\ Untouched /\ Progress /\ GoneLast /\ Succeeded
    BY DEF Apart, Untouched, Progress, GoneLast, Succeeded, HelperIs
  <1>3. Known /\ Undone /\ Failed
    BY DEF Known, Undone, Failed, HelperIs, Forward, Backward
  <1> QED BY <1>1, <1>2, <1>3 DEF UpdateInv

LEMMA FaultType == Shape /\ Fault => faults' \in 0..Faults
  BY UpdateAssumption DEF Shape, Fault

LEMMA Learns ==
  ASSUME NEW knows \in [Role -> Knowledge], NEW r \in Role
  PROVE  /\ [knows EXCEPT ![r].stopped = TRUE] \in [Role -> Knowledge]
         /\ [knows EXCEPT ![r].renamed = TRUE] \in [Role -> Knowledge]
         /\ [knows EXCEPT ![r].created = TRUE] \in [Role -> Knowledge]
  BY DEF Knowledge

LEMMA Changes ==
  ASSUME Shape, NEW r \in Role
  PROVE  /\ [old EXCEPT ![r].runs = FALSE] \in [Role -> OldStates]
         /\ [old EXCEPT ![r].runs = TRUE] \in [Role -> OldStates]
         /\ [old EXCEPT ![r].named = "backup"] \in [Role -> OldStates]
         /\ [old EXCEPT ![r].named = "own"] \in [Role -> OldStates]
         /\ [old EXCEPT ![r] = Gone] \in [Role -> OldStates]
  BY DEF Shape, OldStates, Gone

\* Where the helper goes after the last role, and before.
LEMMA NextType ==
  ASSUME Shape, NEW place \in Places, NEW after \in Places, NEW knows \in [Role -> Knowledge],
         NextOf(place, after, knows)
  PROVE  /\ helper' \in Helpers /\ helper'.knows = knows
         /\ \/ helper.role = Roles /\ helper'.at = after /\ helper'.role = 1
            \/ helper.role # Roles /\ helper'.at = place /\ helper'.role = helper.role + 1
  BY UpdateAssumption DEF NextOf, LastRole, Shape, Helpers, Role

(***************************************************************************)
(* The request, and what the app does.                                     *)
(***************************************************************************)
LEMMA RequestInv ==
  ASSUME UpdateInv, RequestUpdate
  PROVE  UpdateInv'
  <1> USE DEF UpdateInv
  <1>1. /\ helper' = NoHelper /\ helper.at = "off" /\ UNCHANGED <<helper, faults>>
        /\ update' = [status |-> "queued", errors |-> FALSE, cleaned |-> FALSE]
        /\ candidate' = [r \in Role |-> "none"] /\ app'.request = "create"
        /\ impaired' = (\E r \in Role : ~ old'[r].runs)
    BY DEF RequestUpdate, Apart, HelperIs, Shape
  <1>2. \A r \in Role : old'[r] \in OldStates /\ old'[r].named = "own"
    BY DEF RequestUpdate, NameHeld, Shape, OldStates
  <1>3. Shape'
    <2>1. old' \in [Role -> OldStates]
      BY <1>2 DEF RequestUpdate
    <2> QED BY <1>1, <2>1 DEF RequestUpdate, Shape, Statuses, Active
  <1>4. Apart' /\ Untouched' /\ Progress' /\ GoneLast' /\ Succeeded'
    BY <1>1, <1>2 DEF Apart, Untouched, Progress, GoneLast, Succeeded, HelperIs, Active, NoHelper
  <1>5. Known' /\ Undone' /\ Failed'
    BY <1>1 DEF Known, Undone, Failed, HelperIs, Forward, Backward, NoHelper
  <1> QED BY <1>3, <1>4, <1>5

LEMMA LaunchInv ==
  ASSUME UpdateInv, CreateHelper \/ StartHelper \/ RequestFails
  PROVE  UpdateInv'
  <1> USE DEF UpdateInv
  <1>1. /\ UNCHANGED <<old, candidate>> /\ helper.at = "off" /\ helper = NoHelper
        /\ app.request # "none" /\ update.status \in Active
    BY DEF CreateHelper, StartHelper, RequestFails, Containers, Apart, HelperIs
  <1>2. \A r \in Role : old[r].named = "own" /\ candidate[r] = "none" /\ (impaired \/ old[r].runs)
    BY <1>1 DEF Untouched
  <1>3. ~ impaired => AllOld
    BY <1>2 DEF AllOld, OldRuns, Shape, OldStates
  <1>4. \/ helper' = helper \/ helper' = [NoHelper EXCEPT !.at = "prepare"]
    BY <1>1 DEF CreateHelper, StartHelper, RequestFails, HelperGoes
  <1>5. Shape'
    <2>1. update' \in [status : Statuses, errors : BOOLEAN, cleaned : BOOLEAN]
      BY DEF CreateHelper, StartHelper, RequestFails, Shape, Statuses, Active
    <2>2. app' \in [request : {"none", "create", "start"}, started : BOOLEAN, cleans : BOOLEAN]
      BY DEF CreateHelper, StartHelper, RequestFails, Shape
    <2>3. helper' \in Helpers
      BY <1>4, NoHelperType DEF Shape
    <2>4. faults' \in 0..Faults /\ impaired' \in BOOLEAN
      BY FaultType DEF CreateHelper, StartHelper, RequestFails, Shape
    <2> QED BY <1>1, <2>1, <2>2, <2>3, <2>4 DEF Shape
  <1>6. /\ helper'.at \in {"off", "prepare"} /\ (helper'.at = "prepare" => app'.request = "none")
        /\ helper' = [NoHelper EXCEPT !.at = helper'.at] /\ (app'.request # "none" => update'.status \in Active)
        /\ update'.status # "succeeded" /\ (impaired => impaired')
        /\ update'.status = "failed" => impaired' \/ (helper'.at = "off" /\ impaired' = impaired)
    BY <1>1, <1>4 DEF CreateHelper, StartHelper, RequestFails, HelperGoes, Shape, Active, NoHelper
  <1>7. Apart' /\ Untouched'
    BY <1>1, <1>2, <1>6 DEF Apart, Untouched, HelperIs, NoHelper
  <1>8. Progress' /\ GoneLast' /\ Succeeded'
    BY <1>1, <1>2, <1>6 DEF Progress, GoneLast, Succeeded, HelperIs
  <1>9. Known' /\ Undone'
    BY <1>1, <1>2, <1>6 DEF Known, Undone, HelperIs, Forward, Backward, Stopped, Renamed, Created, NoHelper, Ignorant
  <1>10. Failed'
    BY <1>1, <1>3, <1>6 DEF Failed, HelperIs, AllOld
  <1> QED BY <1>5, <1>7, <1>8, <1>9, <1>10

\* The app by itself touches neither the containers nor the helper.
LEMMA AppInv ==
  ASSUME UpdateInv, StartApp \/ RestartApp \/ CleanImages
  PROVE  UpdateInv'
  <1> USE DEF UpdateInv
  <1>1. /\ UNCHANGED <<old, candidate, helper, impaired>>
        /\ update'.status = update.status /\ update'.errors = update.errors
        /\ app'.request \in {app.request, "none"}
        /\ app' \in [request : {"none", "create", "start"}, started : BOOLEAN, cleans : BOOLEAN]
    <2>1. CASE StartApp
      BY <2>1 DEF StartApp, Containers, Shape
    <2>2. CASE RestartApp
      BY <2>2 DEF RestartApp, Containers, AppDown, Shape
    <2>3. CASE CleanImages
      BY <2>3 DEF CleanImages, Containers, Shape
    <2> QED BY <2>1, <2>2, <2>3
  <1>2. Shape'
    <2>1. update' \in [status : Statuses, errors : BOOLEAN, cleaned : BOOLEAN]
      BY DEF StartApp, RestartApp, CleanImages, Shape
    <2>2. faults' \in 0..Faults
      BY FaultType DEF StartApp, RestartApp, CleanImages, Shape
    <2> QED BY <1>1, <2>1, <2>2 DEF Shape
  <1>3. Apart' /\ Untouched' /\ Progress' /\ GoneLast' /\ Succeeded'
    BY <1>1 DEF Apart, Untouched, Progress, GoneLast, Succeeded, HelperIs, AllNew
  <1>4. Known' /\ Undone' /\ Failed'
    BY <1>1 DEF Known, Undone, Failed, HelperIs, Stopped, Renamed, Created, Restored, AllOld
  <1> QED BY <1>2, <1>3, <1>4

(***************************************************************************)
(* The helper on its way.  When it raises, the rollback begins at the last *)
(* role, and what it knows is true of every role, or an answer was lost.   *)
(***************************************************************************)
LEMMA RaisesInv ==
  ASSUME UpdateInv, Raises, Shape', UNCHANGED update,
         helper.at \in {"stop", "rename", "create", "start", "verify", "commit"},
         app'.request = "none", impaired => impaired',
         \A r \in Role : old'[r].named # "gone",
         impaired' \/ UNCHANGED <<old, candidate>>
  PROVE  UpdateInv'
  <1> USE DEF UpdateInv
  <1>1. helper'.at = "undo" /\ helper'.role = Roles /\ helper'.knows = helper.knows
    BY DEF Raises, Shape, Helpers
  <1>2. Apart' /\ Untouched' /\ Progress' /\ GoneLast' /\ Known'
    BY <1>1 DEF Apart, Untouched, Progress, GoneLast, Known, HelperIs, Forward
  <1>3. Succeeded' /\ Failed'
    BY <1>1 DEF Succeeded, Failed, HelperIs
  <1>4. Undone'
    <2> SUFFICES ASSUME ~ impaired' PROVE Undone'
      BY DEF Undone
    <2>1. \A r \in Role : Stopped(r)' /\ Renamed(r)' /\ Created(r)'
      BY <1>1 DEF Known, Forward, Stopped, Renamed, Created
    <2>2. Roles \in Role /\ \A r \in Role : ~ (r > Roles)
      BY UpdateAssumption DEF Role
    <2> QED BY <1>1, <2>1, <2>2 DEF Undone, HelperIs
  <1> QED BY <1>2, <1>3, <1>4

\* A container changes, and nothing else the other roles depend on.
NotGone == \A r \in Role : old[r].named # "gone"
LEMMA ForwardKeeps ==
  ASSUME UpdateInv, Shape', helper.at \in Forward \ {"prepare"}, UNCHANGED <<update, impaired>>,
         helper'.at \in (Forward \ {"prepare"}) \cup {"remove"},
         app'.request = "none", Progress', Known',
         \A r \in Role : old'[r].named # "gone"
  PROVE  UpdateInv'
  BY DEF UpdateInv, Apart, Untouched, GoneLast, Succeeded, Undone, Failed, HelperIs, Forward, Backward

LEMMA PrepareInv ==
  ASSUME UpdateInv, Prepare
  PROVE  UpdateInv'
  <1> USE DEF UpdateInv
  <1>1. /\ helper.at = "prepare" /\ helper.role = 1 /\ helper.knows = NoHelper.knows /\ app.request = "none"
        /\ UNCHANGED <<old, candidate, app, impaired>>
    BY DEF Prepare, HelperIs, Apart, NoHelper, Containers
  <1>2. \A r \in Role : old[r].named = "own" /\ candidate[r] = "none" /\ (impaired \/ old[r].runs)
    BY <1>1 DEF Untouched, HelperIs
  <1>3. ~ impaired => AllOld
    BY <1>2 DEF AllOld, OldRuns, Shape, OldStates
  <1>4. CASE HelperGoes("stop") /\ update' = [update EXCEPT !.status = "running"] /\ UNCHANGED faults
    <2>1. helper'.at = "stop" /\ helper'.role = 1 /\ helper'.knows = helper.knows /\ update'.status = "running"
      BY <1>1, <1>4 DEF HelperGoes, Shape, Helpers
    <2>2. Shape'
      BY <1>1, <1>4 DEF HelperGoes, Shape, Helpers, Places, Forward, Statuses, Active
    <2>3. Apart' /\ Untouched' /\ GoneLast' /\ Succeeded' /\ Failed'
      BY <1>1, <1>2, <2>1 DEF Apart, Untouched, GoneLast, Succeeded, Failed, HelperIs
    <2>4. Progress'
      BY <2>1 DEF Progress, HelperIs, Role
    <2>5. Known' /\ Undone'
      BY <1>1, <1>2, <2>1 DEF Known, Undone, HelperIs, Backward, Stopped, Renamed, Created, NoHelper, Ignorant
    <2> QED BY <2>2, <2>3, <2>4, <2>5
  <1>5. CASE Fault /\ helper' = NoHelper /\ update' = [update EXCEPT !.status = "failed"]
    <2>1. Shape'
      BY <1>1, <1>5, FaultType, UpdateAssumption
      DEF Shape, NoHelper, Ignorant, Helpers, Knowledge, Places, Role, Statuses
    <2>2. helper'.at = "off" /\ update'.status = "failed" /\ update'.errors = update.errors
      BY <1>5 DEF NoHelper, Shape
    <2>3. Apart' /\ Untouched' /\ Progress' /\ GoneLast' /\ Succeeded' /\ Failed'
      BY <1>1, <1>2, <1>3, <1>5, <2>2 DEF Apart, Untouched, Progress, GoneLast, Succeeded, Failed, HelperIs, AllOld
    <2>4. Known' /\ Undone'
      BY <2>2 DEF Known, Undone, HelperIs, Forward, Backward
    <2> QED BY <2>1, <2>3, <2>4
  <1> QED BY <1>4, <1>5 DEF Prepare

LEMMA StopInv ==
  ASSUME UpdateInv, StopOld
  PROVE  UpdateInv'
  <1> USE DEF UpdateInv
  <1> DEFINE r == helper.role
             effect == /\ old' = [old EXCEPT ![r].runs = FALSE] /\ UNCHANGED candidate
                       /\ app' = IF r = 1 THEN AppDown ELSE app
             goesOn == helper' = [helper EXCEPT !.at = "rename", !.knows[r].stopped = TRUE]
  <1>1. helper.at = "stop" /\ r \in Role /\ UNCHANGED update /\ app.request = "none"
        /\ helper.knows \in [Role -> Knowledge]
    BY DEF StopOld, HelperIs, Shape, Helpers, Apart
  <1>2. \A q \in Role : old[q].named # "gone"
    BY <1>1 DEF GoneLast
  <1>3. effect => /\ old' \in [Role -> OldStates] /\ UNCHANGED candidate
                  /\ app' \in [request : {"none"}, started : BOOLEAN, cleans : BOOLEAN]
                  /\ \A q \in Role : /\ old'[q].named = old[q].named
                                     /\ (old'[q].runs <=> old[q].runs /\ q # r)
    <2> SUFFICES ASSUME effect
                 PROVE  /\ old' \in [Role -> OldStates] /\ UNCHANGED candidate
                        /\ app' \in [request : {"none"}, started : BOOLEAN, cleans : BOOLEAN]
                        /\ \A q \in Role : /\ old'[q].named = old[q].named
                                           /\ (old'[q].runs <=> old[q].runs /\ q # r)
      OBVIOUS
    <2>1. app' \in [request : {"none"}, started : BOOLEAN, cleans : BOOLEAN]
      BY <1>1 DEF AppDown, Shape
    <2>2. \A q \in Role : old'[q] = IF q = r THEN [old[q] EXCEPT !.runs = FALSE] ELSE old[q]
      BY <1>1 DEF Shape
    <2>3. \A q \in Role : /\ old'[q].named = old[q].named
                          /\ (old'[q].runs <=> old[q].runs /\ q # r)
      BY <2>2 DEF Shape, OldStates
    <2> QED BY <1>1, <2>1, <2>3, Changes
  <1>4. CASE effect /\ goesOn /\ UNCHANGED <<faults, impaired>>
    <2> DEFINE knows == [helper.knows EXCEPT ![r].stopped = TRUE]
    <2>1. knows \in [Role -> Knowledge]
      BY <1>1, Learns
    <2>2. helper' = [at |-> "rename", role |-> r, knows |-> knows]
      BY <1>4 DEF Shape, Helpers
    <2>3. Shape'
      BY <1>1, <1>3, <1>4, <2>1, <2>2 DEF Shape, Helpers, Places, Forward
    <2>4. Progress'
      BY <1>1, <2>2 DEF Progress, HelperIs, Knowledge
    <2>5. Known'
      BY <1>1, <1>3, <1>4, <2>2 DEF Known, Forward, Stopped, Renamed, Created, Knowledge
    <2> QED BY <1>1, <1>2, <1>3, <1>4, <2>2, <2>3, <2>4, <2>5, ForwardKeeps DEF Forward
  <1>5. CASE Fault /\ Raises /\ UNCHANGED <<Containers, app, impaired>>
    <2>1. Shape'
      BY <1>1, <1>5, FaultType, RaisesType DEF Shape, Containers
    <2> QED BY <1>1, <1>2, <1>5, <2>1, RaisesInv DEF Containers
  <1>6. CASE Fault /\ Raises /\ effect /\ impaired' = TRUE
    <2>1. Shape'
      BY <1>1, <1>3, <1>6, FaultType, RaisesType DEF Shape
    <2> QED BY <1>1, <1>2, <1>3, <1>6, <2>1, RaisesInv
  <1> QED BY <1>4, <1>5, <1>6 DEF StopOld, Call

LEMMA RenameInv ==
  ASSUME UpdateInv, RenameOld
  PROVE  UpdateInv'
  <1> USE DEF UpdateInv
  <1> DEFINE r == helper.role
             effect == old' = [old EXCEPT ![r].named = "backup"] /\ UNCHANGED <<candidate, app>>
             goesOn == helper' = [helper EXCEPT !.at = "create", !.knows[r].renamed = TRUE]
  <1>1. helper.at = "rename" /\ r \in Role /\ UNCHANGED update /\ app.request = "none"
        /\ helper.knows \in [Role -> Knowledge]
    BY DEF RenameOld, HelperIs, Shape, Helpers, Apart
  <1>2. \A q \in Role : old[q].named # "gone"
    BY <1>1 DEF GoneLast
  <1>3. effect => /\ old' \in [Role -> OldStates] /\ UNCHANGED <<candidate, app>>
                  /\ \A q \in Role : /\ old'[q].runs = old[q].runs
                                     /\ old'[q].named = IF q = r THEN "backup" ELSE old[q].named
    <2> SUFFICES ASSUME effect
                 PROVE  /\ old' \in [Role -> OldStates] /\ UNCHANGED <<candidate, app>>
                        /\ \A q \in Role : /\ old'[q].runs = old[q].runs
                                           /\ old'[q].named = IF q = r THEN "backup" ELSE old[q].named
      OBVIOUS
    <2>1. \A q \in Role : old'[q] = IF q = r THEN [old[q] EXCEPT !.named = "backup"] ELSE old[q]
      BY <1>1 DEF Shape
    <2>2. \A q \in Role : /\ old'[q].runs = old[q].runs
                          /\ old'[q].named = IF q = r THEN "backup" ELSE old[q].named
      BY <2>1 DEF Shape, OldStates
    <2> QED BY <1>1, <2>2, Changes
  <1>4. CASE effect /\ goesOn /\ UNCHANGED <<faults, impaired>>
    <2> DEFINE knows == [helper.knows EXCEPT ![r].renamed = TRUE]
    <2>1. knows \in [Role -> Knowledge]
      BY <1>1, Learns
    <2>2. helper' = [at |-> "create", role |-> r, knows |-> knows]
      BY <1>4 DEF Shape, Helpers
    <2>3. Shape'
      BY <1>1, <1>3, <1>4, <2>1, <2>2 DEF Shape, Helpers, Places, Forward
    <2>4. Progress'
      BY <1>1, <2>2 DEF Progress, HelperIs, Knowledge
    <2>5. Known'
      BY <1>1, <1>3, <1>4, <2>2 DEF Known, Forward, Stopped, Renamed, Created, Knowledge
    <2> QED BY <1>1, <1>2, <1>3, <1>4, <2>2, <2>3, <2>4, <2>5, ForwardKeeps DEF Forward
  <1>5. CASE Fault /\ Raises /\ UNCHANGED <<Containers, app, impaired>>
    <2>1. Shape'
      BY <1>1, <1>5, FaultType, RaisesType DEF Shape, Containers
    <2> QED BY <1>1, <1>2, <1>5, <2>1, RaisesInv DEF Containers
  <1>6. CASE Fault /\ Raises /\ effect /\ impaired' = TRUE
    <2>1. Shape'
      BY <1>1, <1>3, <1>6, FaultType, RaisesType DEF Shape
    <2> QED BY <1>1, <1>2, <1>3, <1>6, <2>1, RaisesInv
  <1> QED BY <1>4, <1>5, <1>6 DEF RenameOld, Call

LEMMA CreateInv ==
  ASSUME UpdateInv, CreateCandidate
  PROVE  UpdateInv'
  <1> USE DEF UpdateInv
  <1> DEFINE r == helper.role
             knows == [helper.knows EXCEPT ![r].created = TRUE]
             effect == candidate' = [candidate EXCEPT ![r] = "created"] /\ UNCHANGED <<old, app>>
             goesOn == NextOf("stop", "start", knows)
  <1>1. helper.at = "create" /\ r \in Role /\ UNCHANGED update /\ app.request = "none"
        /\ helper.knows \in [Role -> Knowledge] /\ knows \in [Role -> Knowledge]
    BY Learns DEF CreateCandidate, HelperIs, Shape, Helpers, Apart
  <1>2. \A q \in Role : old[q].named # "gone"
    BY <1>1 DEF GoneLast
  <1>3. effect => /\ candidate' \in [Role -> {"none", "created", "runs"}] /\ UNCHANGED <<old, app>>
                  /\ \A q \in Role : candidate'[q] = IF q = r THEN "created" ELSE candidate[q]
    BY DEF Shape
  <1>4. CASE effect /\ goesOn /\ UNCHANGED <<faults, impaired>>
    <2>1. /\ helper' \in Helpers /\ helper'.knows = knows
          /\ \/ r = Roles /\ helper'.at = "start" /\ helper'.role = 1
             \/ r # Roles /\ helper'.at = "stop" /\ helper'.role = r + 1
      BY <1>1, <1>4, NextType DEF Places, Forward
    <2>2. Shape'
      BY <1>1, <1>3, <1>4, <2>1 DEF Shape
    <2>3. Progress'
      <3>1. \A q \in Role : q <= r => knows[q].created
        <4>1. knows[r].created /\ \A q \in Role \ {r} : knows[q] = helper.knows[q]
          BY <1>1 DEF Knowledge
        <4>2. \A q \in Role : q < r => helper.knows[q].created
          BY <1>1 DEF Progress
        <4> QED BY <1>1, <4>1, <4>2, UpdateAssumption DEF Role
      <3>2. \A q \in Role : q < helper'.role => knows[q].created
        BY <1>1, <2>1, <3>1, UpdateAssumption DEF Role
      <3>3. helper'.at = "start" => \A q \in Role : knows[q].created /\ ~ (q < helper'.role)
        BY <1>1, <2>1, <3>1, UpdateAssumption DEF Role
      <3> QED BY <2>1, <3>2, <3>3 DEF Progress, HelperIs
    <2>4. Known'
      BY <1>1, <1>3, <1>4, <2>1 DEF Known, Forward, Stopped, Renamed, Created, Knowledge
    <2> QED BY <1>1, <1>2, <1>3, <1>4, <2>1, <2>2, <2>3, <2>4, ForwardKeeps DEF Forward
  <1>5. CASE Fault /\ Raises /\ UNCHANGED <<Containers, app, impaired>>
    <2>1. Shape'
      BY <1>1, <1>5, FaultType, RaisesType DEF Shape, Containers
    <2> QED BY <1>1, <1>2, <1>5, <2>1, RaisesInv DEF Containers
  <1>6. CASE Fault /\ Raises /\ effect /\ impaired' = TRUE
    <2>1. Shape'
      BY <1>1, <1>3, <1>6, FaultType, RaisesType DEF Shape
    <2> QED BY <1>1, <1>2, <1>3, <1>6, <2>1, RaisesInv
  <1> QED BY <1>4, <1>5, <1>6 DEF CreateCandidate, Call

LEMMA StartInv ==
  ASSUME UpdateInv, StartCandidate
  PROVE  UpdateInv'
  <1> USE DEF UpdateInv
  <1> DEFINE r == helper.role
             effect == candidate' = [candidate EXCEPT ![r] = "runs"] /\ UNCHANGED <<old, app>>
             goesOn == NextOf("start", "verify", helper.knows)
  <1>1. helper.at = "start" /\ r \in Role /\ UNCHANGED update /\ app.request = "none"
        /\ helper.knows \in [Role -> Knowledge]
    BY DEF StartCandidate, HelperIs, Shape, Helpers, Apart
  <1>2. \A q \in Role : old[q].named # "gone"
    BY <1>1 DEF GoneLast
  <1>3. effect => /\ candidate' \in [Role -> {"none", "created", "runs"}] /\ UNCHANGED <<old, app>>
                  /\ \A q \in Role : candidate'[q] = IF q = r THEN "runs" ELSE candidate[q]
    BY DEF Shape
  <1>4. CASE effect /\ goesOn /\ UNCHANGED <<faults, impaired>>
    <2>1. /\ helper' \in Helpers /\ helper'.knows = helper.knows
          /\ \/ r = Roles /\ helper'.at = "verify" /\ helper'.role = 1
             \/ r # Roles /\ helper'.at = "start" /\ helper'.role = r + 1
      BY <1>1, <1>4, NextType DEF Places, Forward
    <2>2. Shape'
      BY <1>1, <1>3, <1>4, <2>1 DEF Shape
    <2>3. Progress'
      <3>1. \A q \in Role : q <= r => candidate'[q] = "runs"
        BY <1>1, <1>3, <1>4 DEF Progress, HelperIs, Role
      <3>2. \A q \in Role : helper.knows[q].created
        BY <1>1 DEF Progress
      <3>3. Roles \in Nat /\ r \in Nat
        BY <1>1, UpdateAssumption DEF Role
      <3>4. CASE r = Roles
        <4>1. \A q \in Role : candidate'[q] = "runs"
          BY <3>1, <3>4 DEF Role
        <4>2. helper'.at = "verify"
          BY <2>1, <3>4
        <4> QED BY <2>1, <3>2, <4>1, <4>2 DEF Progress, HelperIs, AllNew
      <3>5. CASE r # Roles
        <4>1. helper'.at = "start" /\ helper'.role = r + 1
          BY <2>1, <3>5
        <4>2. \A q \in Role : q < helper'.role => candidate'[q] = "runs"
          BY <3>1, <3>3, <4>1 DEF Role
        <4> QED BY <2>1, <3>2, <4>1, <4>2 DEF Progress, HelperIs
      <3> QED BY <3>4, <3>5
    <2>4. Known'
      BY <1>1, <1>3, <1>4, <2>1 DEF Known, Forward, Stopped, Renamed, Created, Progress
    <2> QED BY <1>1, <1>2, <1>3, <1>4, <2>1, <2>2, <2>3, <2>4, ForwardKeeps DEF Forward
  <1>5. CASE Fault /\ Raises /\ UNCHANGED <<Containers, app, impaired>>
    <2>1. Shape'
      BY <1>1, <1>5, FaultType, RaisesType DEF Shape, Containers
    <2> QED BY <1>1, <1>2, <1>5, <2>1, RaisesInv DEF Containers
  <1>6. CASE Fault /\ Raises /\ effect /\ impaired' = TRUE
    <2>1. Shape'
      BY <1>1, <1>3, <1>6, FaultType, RaisesType DEF Shape
    <2> QED BY <1>1, <1>2, <1>3, <1>6, <2>1, RaisesInv
  <1> QED BY <1>4, <1>5, <1>6 DEF StartCandidate, Call

LEMMA VerifyInv ==
  ASSUME UpdateInv, Verify \/ NotReady
  PROVE  UpdateInv'
  <1> USE DEF UpdateInv
  <1>1. /\ helper.at \in {"verify", "commit"} /\ UNCHANGED <<update, old, candidate, app, impaired>>
        /\ app.request = "none" /\ helper.knows \in [Role -> Knowledge]
    BY DEF Verify, NotReady, HelperIs, Containers, Apart, Shape, Helpers
  <1>2. \A q \in Role : old[q].named # "gone"
    BY <1>1 DEF GoneLast
  <1>3. CASE Verify
    <2>1. helper.at = "verify" /\ UNCHANGED faults /\ NextOf("verify", "commit", helper.knows)
      BY <1>3 DEF Verify, HelperIs
    <2>2. /\ helper' \in Helpers /\ helper'.knows = helper.knows
          /\ helper'.at \in {"verify", "commit"}
      BY <1>1, <2>1, NextType DEF Places, Forward
    <2>3. Shape'
      BY <1>1, <2>1, <2>2 DEF Shape
    <2>4. Progress' /\ Known'
      BY <1>1, <2>2 DEF Progress, Known, HelperIs, Forward, AllNew, Stopped, Renamed, Created
    <2> QED BY <1>1, <1>2, <2>2, <2>3, <2>4, ForwardKeeps DEF Forward
  <1>4. CASE NotReady
    <2>1. Shape'
      BY <1>1, <1>4, FaultType, RaisesType DEF NotReady, Shape
    <2> QED BY <1>1, <1>2, <1>4, <2>1, RaisesInv DEF NotReady
  <1> QED BY <1>3, <1>4

\* The update is committed, and the old containers go.
LEMMA CommitInv ==
  ASSUME UpdateInv, Commit
  PROVE  UpdateInv'
  <1> USE DEF UpdateInv
  <1>1. /\ helper.at = "commit" /\ UNCHANGED <<old, candidate, app, faults, impaired>> /\ app.request = "none"
        /\ helper'.at = "remove" /\ update'.status = "succeeded" /\ AllNew
    BY DEF Commit, HelperIs, HelperGoes, Containers, Apart, Progress, Shape, Helpers
  <1>2. Shape'
    BY <1>1 DEF Commit, HelperGoes, Shape, Helpers, Places, Statuses
  <1>3. Apart' /\ Untouched' /\ Progress' /\ GoneLast' /\ Succeeded' /\ Failed'
    BY <1>1 DEF Apart, Untouched, Progress, GoneLast, Succeeded, Failed, HelperIs, AllNew
  <1>4. Known' /\ Undone'
    BY <1>1 DEF Known, Undone, HelperIs, Forward, Backward
  <1> QED BY <1>2, <1>3, <1>4

LEMMA RemoveInv ==
  ASSUME UpdateInv, RemoveOld
  PROVE  UpdateInv'
  <1> USE DEF UpdateInv
  <1>1. /\ helper.at = "remove" /\ UNCHANGED <<update, candidate, app, impaired>> /\ app.request = "none"
        /\ helper.role \in Role /\ AllNew
    BY DEF RemoveOld, HelperIs, Apart, Progress, Shape, Helpers
  <1>2. helper' \in Helpers /\ (helper' = NoHelper \/ helper'.at = "remove")
    <2>1. CASE LastRole
      BY <2>1, NoHelperType DEF RemoveOld
    <2>2. CASE ~ LastRole
      <3>1. helper.role + 1 \in Role
        BY <1>1, <2>2, UpdateAssumption DEF LastRole, Role
      <3> QED BY <1>1, <2>2, <3>1 DEF RemoveOld, Shape, Helpers
    <2> QED BY <2>1, <2>2
  <1>3. Shape'
    <2>1. old' \in [Role -> OldStates] /\ faults' \in 0..Faults
      BY <1>1, Changes, FaultType, ZenonT(60) DEF RemoveOld, Shape
    <2> QED BY <1>1, <1>2, <2>1 DEF Shape
  <1>4. helper'.at \in {"off", "remove"} /\ (helper'.at = "off" => helper' = NoHelper)
    BY <1>2 DEF NoHelper
  <1>5. Apart' /\ Untouched' /\ Progress' /\ GoneLast' /\ Succeeded'
    BY <1>1, <1>4 DEF Apart, Untouched, Progress, GoneLast, Succeeded, HelperIs, AllNew
  <1>6. Known' /\ Undone' /\ Failed'
    BY <1>1, <1>4 DEF Known, Undone, Failed, HelperIs, Forward, Backward
  <1> QED BY <1>3, <1>5, <1>6

(***************************************************************************)
(* The rollback: of each role it has come past, what was done is undone.   *)
(***************************************************************************)
LEMMA BackwardKeeps ==
  ASSUME UpdateInv, helper.at \in Backward, helper'.at \in Backward \cup {"report"},
         Shape', Undone', UNCHANGED impaired, update'.status = update.status, app'.request = app.request,
         \A r \in Role : old'[r].named # "gone"
  PROVE  UpdateInv'
  BY DEF UpdateInv, Apart, Untouched, Progress, GoneLast, Succeeded, Known, Failed, HelperIs, Forward, Backward

LEMMA Errors ==
  ASSUME Shape, UNCHANGED <<update, faults>> \/ (Fault /\ update' = Errs) \/ (update' = Errs /\ UNCHANGED faults)
  PROVE  /\ update' \in [status : Statuses, errors : BOOLEAN, cleaned : BOOLEAN]
         /\ update'.status = update.status /\ faults' \in 0..Faults
         /\ ~ update'.errors => ~ update.errors /\ update' # Errs
  BY FaultType DEF Errs, Shape

LEMMA RemoveCandidateInv ==
  ASSUME UpdateInv, RemoveCandidate
  PROVE  UpdateInv'
  <1> USE DEF UpdateInv
  <1> DEFINE r == helper.role
             effect == candidate' = [candidate EXCEPT ![r] = "none"]
  <1>1. /\ helper.at = "undo" /\ r \in Role /\ helper' = [helper EXCEPT !.at = "unname"] /\ UNCHANGED <<old, impaired>>
        /\ Attempt(helper.knows[r].created, effect, UNCHANGED candidate)
    BY DEF RemoveCandidate, HelperIs, HelperGoes, Shape, Helpers
  <1>2. helper' \in Helpers /\ helper'.at = "unname" /\ helper'.role = r /\ helper'.knows = helper.knows
    BY <1>1 DEF Shape, Helpers, Places, Backward
  <1>3. /\ update' \in [status : Statuses, errors : BOOLEAN, cleaned : BOOLEAN]
        /\ update'.status = update.status /\ faults' \in 0..Faults
        /\ ~ update'.errors => ~ update.errors
                               /\ ((helper.knows[r].created /\ effect) \/ (~ helper.knows[r].created /\ UNCHANGED candidate))
        /\ effect \/ UNCHANGED candidate
    <2>1. \/ helper.knows[r].created /\ effect /\ UNCHANGED <<update, faults>>
          \/ helper.knows[r].created /\ Fault /\ update' = Errs /\ UNCHANGED candidate
          \/ ~ helper.knows[r].created /\ UNCHANGED candidate /\ UNCHANGED <<update, faults>>
      BY <1>1 DEF Attempt
    <2>2. UNCHANGED <<update, faults>> \/ (Fault /\ update' = Errs)
      BY <2>1
    <2>3. /\ update' \in [status : Statuses, errors : BOOLEAN, cleaned : BOOLEAN]
          /\ update'.status = update.status /\ faults' \in 0..Faults
          /\ ~ update'.errors => ~ update.errors /\ update' # Errs
      BY <2>2, Errors
    <2> HIDE DEF effect
    <2> QED BY <2>1, <2>3
  <1>4. /\ candidate' \in [Role -> {"none", "created", "runs"}]
        /\ \A q \in Role \ {r} : candidate'[q] = candidate[q]
        /\ effect => candidate'[r] = "none"
    BY <1>1, <1>3 DEF Shape
  <1>5. /\ app' \in [request : {"none", "create", "start"}, started : BOOLEAN, cleans : BOOLEAN]
        /\ app'.request = app.request
    BY DEF RemoveCandidate, Shape
  <1>6. Shape'
    BY <1>1, <1>2, <1>3, <1>4, <1>5 DEF Shape
  <1>7. Undone'
    <2> SUFFICES ASSUME ~ impaired, ~ update'.errors PROVE Undone'
      BY <1>1 DEF Undone
    <2>1. candidate'[r] = "none"
      BY <1>1, <1>3, <1>4 DEF Undone, Created, HelperIs, Backward
    <2>2. \A q \in Role : /\ q < r => Stopped(q)' /\ Renamed(q)' /\ Created(q)'
                          /\ q > r => Restored(q)'
      BY <1>1, <1>2, <1>3, <1>4, UpdateAssumption
      DEF Undone, Backward, Stopped, Renamed, Created, Restored, Role
    <2>3. Stopped(r)' /\ Renamed(r)'
      BY <1>1, <1>2, <1>3 DEF Undone, Backward, Stopped, Renamed
    <2> QED BY <1>2, <2>1, <2>2, <2>3 DEF Undone, HelperIs, Stopped, Renamed
  <1>8. \A q \in Role : old'[q].named # "gone"
    BY <1>1 DEF GoneLast
  <1> QED BY <1>1, <1>2, <1>3, <1>5, <1>6, <1>7, <1>8, BackwardKeeps DEF Backward

LEMMA RenameBackInv ==
  ASSUME UpdateInv, RenameBack
  PROVE  UpdateInv'
  <1> USE DEF UpdateInv
  <1> DEFINE r == helper.role
             effect == old' = [old EXCEPT ![r].named = "own"]
  <1>1. /\ helper.at = "unname" /\ r \in Role /\ helper' = [helper EXCEPT !.at = "restart"]
        /\ UNCHANGED <<candidate, app, impaired>>
        /\ \/ update' = Errs /\ UNCHANGED <<old, faults>>
           \/ Attempt(helper.knows[r].renamed, effect, UNCHANGED old)
    BY DEF RenameBack, HelperIs, HelperGoes, Shape, Helpers
  <1>2. helper' \in Helpers /\ helper'.at = "restart" /\ helper'.role = r /\ helper'.knows = helper.knows
    BY <1>1 DEF Shape, Helpers, Places, Backward
  <1>3. /\ update' \in [status : Statuses, errors : BOOLEAN, cleaned : BOOLEAN]
        /\ update'.status = update.status /\ faults' \in 0..Faults
        /\ ~ update'.errors => ~ update.errors
                               /\ ((helper.knows[r].renamed /\ effect) \/ (~ helper.knows[r].renamed /\ UNCHANGED old))
        /\ effect \/ UNCHANGED old
    <2>1. CASE update' = Errs /\ UNCHANGED <<old, faults>>
      BY <2>1 DEF Errs, Shape
    <2>2. CASE Attempt(helper.knows[r].renamed, effect, UNCHANGED old)
      <3>1. \/ helper.knows[r].renamed /\ effect /\ UNCHANGED <<update, faults>>
            \/ helper.knows[r].renamed /\ Fault /\ update' = Errs /\ UNCHANGED old
            \/ ~ helper.knows[r].renamed /\ UNCHANGED old /\ UNCHANGED <<update, faults>>
        BY <2>2 DEF Attempt
      <3>2. UNCHANGED <<update, faults>> \/ (Fault /\ update' = Errs)
        BY <3>1
      <3>3. /\ update' \in [status : Statuses, errors : BOOLEAN, cleaned : BOOLEAN]
            /\ update'.status = update.status /\ faults' \in 0..Faults
            /\ ~ update'.errors => ~ update.errors /\ update' # Errs
        BY <3>2, Errors
      <3> HIDE DEF effect
      <3> QED BY <3>1, <3>3
    <2> QED BY <1>1, <2>1, <2>2
  <1>4. /\ old' \in [Role -> OldStates] /\ (effect => old'[r].named = "own")
        /\ \A q \in Role \ {r} : old'[q] = old[q]
        /\ old'[r].runs = old[r].runs
    <2>1. CASE effect
      <3>1. \A q \in Role : old'[q] = IF q = r THEN [old[q] EXCEPT !.named = "own"] ELSE old[q]
        BY <1>1, <2>1 DEF Shape
      <3>2. old'[r].named = "own" /\ old'[r].runs = old[r].runs
        BY <1>1, <3>1 DEF Shape, OldStates
      <3> QED BY <1>1, <2>1, <3>1, <3>2, Changes
    <2>2. CASE UNCHANGED old
      <3>1. effect => old'[r].named = "own"
        BY <1>1 DEF Shape, OldStates
      <3> QED BY <2>2, <3>1 DEF Shape
    <2> QED BY <1>3, <2>1, <2>2
  <1>5. \A q \in Role : old[q].named \in {"own", "backup"} /\ old'[q].named # "gone"
    <2>1. \A q \in Role : old[q].named \in {"own", "backup"}
      BY <1>1 DEF GoneLast, Shape, OldStates
    <2> QED BY <1>3, <1>4, <2>1
  <1>6. Shape'
    BY <1>1, <1>2, <1>3, <1>4 DEF Shape
  <1>7. Undone'
    <2> SUFFICES ASSUME ~ impaired, ~ update'.errors PROVE Undone'
      BY <1>1 DEF Undone
    <2>1. candidate'[r] = "none" /\ old'[r].named = "own"
      BY <1>1, <1>3, <1>4, <1>5 DEF Undone, Renamed, HelperIs, Backward
    <2>2. \A q \in Role : /\ q < r => Stopped(q)' /\ Renamed(q)' /\ Created(q)'
                          /\ q > r => Restored(q)'
      BY <1>1, <1>2, <1>3, <1>4, UpdateAssumption
      DEF Undone, Backward, Stopped, Renamed, Created, Restored, Role
    <2>3. Stopped(r)'
      BY <1>1, <1>2, <1>3, <1>4 DEF Undone, Backward, Stopped
    <2> QED BY <1>2, <2>1, <2>2, <2>3 DEF Undone, HelperIs, Stopped
  <1> QED BY <1>1, <1>2, <1>3, <1>5, <1>6, <1>7, BackwardKeeps DEF Backward

LEMMA StartOldInv ==
  ASSUME UpdateInv, StartOld
  PROVE  UpdateInv'
  <1> USE DEF UpdateInv
  <1> SUFFICES ASSUME NEW r \in Role, r = helper.role PROVE UpdateInv'
    BY DEF Shape, Helpers
  <1> DEFINE effect == old' = [old EXCEPT ![r].runs = TRUE]
  <1>1. /\ helper.at = "restart" /\ r \in Role /\ UNCHANGED <<candidate, app, impaired>>
        /\ helper' = IF r = 1 THEN [helper EXCEPT !.at = "report"] ELSE [helper EXCEPT !.at = "undo", !.role = r - 1]
        /\ Attempt(helper.knows[r].stopped, effect, UNCHANGED old)
    BY DEF StartOld, StartsAgain, HelperIs, Shape, Helpers
  <1>2. /\ helper' \in Helpers /\ helper'.knows = helper.knows
        /\ \/ r = 1 /\ helper'.at = "report"
           \/ r # 1 /\ helper'.at = "undo" /\ helper'.role = r - 1
    <2>1. r # 1 => r - 1 \in Role
      BY <1>1, UpdateAssumption DEF Role
    <2> QED BY <1>1, <2>1 DEF Shape, Helpers, Places, Backward
  <1>3. /\ update' \in [status : Statuses, errors : BOOLEAN, cleaned : BOOLEAN]
        /\ update'.status = update.status /\ faults' \in 0..Faults
        /\ ~ update'.errors => ~ update.errors
                               /\ ((helper.knows[r].stopped /\ effect) \/ (~ helper.knows[r].stopped /\ UNCHANGED old))
        /\ effect \/ UNCHANGED old
    <2>1. \/ helper.knows[r].stopped /\ effect /\ UNCHANGED <<update, faults>>
          \/ helper.knows[r].stopped /\ Fault /\ update' = Errs /\ UNCHANGED old
          \/ ~ helper.knows[r].stopped /\ UNCHANGED old /\ UNCHANGED <<update, faults>>
      BY <1>1 DEF Attempt
    <2>2. UNCHANGED <<update, faults>> \/ (Fault /\ update' = Errs)
      BY <2>1
    <2>3. /\ update' \in [status : Statuses, errors : BOOLEAN, cleaned : BOOLEAN]
          /\ update'.status = update.status /\ faults' \in 0..Faults
          /\ ~ update'.errors => ~ update.errors /\ update' # Errs
      BY <2>2, Errors
    <2> HIDE DEF effect
    <2> QED BY <2>1, <2>3
  <1>4. /\ old' \in [Role -> OldStates] /\ (effect => old'[r].runs)
        /\ \A q \in Role \ {r} : old'[q] = old[q]
        /\ old'[r].named = old[r].named
    <2>1. CASE effect
      <3>1. \A q \in Role : old'[q] = IF q = r THEN [old[q] EXCEPT !.runs = TRUE] ELSE old[q]
        BY <1>1, <2>1 DEF Shape
      <3>2. old'[r].runs /\ old'[r].named = old[r].named
        <4>1. old[r] \in OldStates /\ old'[r] = [old[r] EXCEPT !.runs = TRUE]
          BY <1>1, <3>1 DEF Shape
        <4> QED BY <4>1 DEF OldStates
      <3> QED BY <1>1, <2>1, <3>1, <3>2, Changes
    <2>2. CASE UNCHANGED old
      <3>1. effect => old'[r].runs
        BY <1>1 DEF Shape, OldStates
      <3> QED BY <2>2, <3>1 DEF Shape
    <2> QED BY <1>3, <2>1, <2>2
  <1>5. \A q \in Role : old'[q].named # "gone"
    BY <1>1, <1>4 DEF GoneLast
  <1>6. Shape'
    BY <1>1, <1>2, <1>3, <1>4 DEF Shape
  <1>7. Undone'
    <2> SUFFICES ASSUME ~ impaired, ~ update'.errors PROVE Undone'
      BY <1>1 DEF Undone
    <2>1. Restored(r)'
      <3>1. old'[r].named = "own" /\ old'[r].runs = TRUE /\ candidate'[r] = "none"
        BY <1>1, <1>3, <1>4 DEF Undone, Stopped, HelperIs, Backward, Shape, OldStates
      <3>2. old'[r] = [named |-> old'[r].named, runs |-> old'[r].runs]
        BY <1>4 DEF OldStates
      <3> QED BY <3>1, <3>2 DEF Restored, OldRuns
    <2>2. \A q \in Role : /\ q < r => Stopped(q)' /\ Renamed(q)' /\ Created(q)'
                          /\ q > r => Restored(q)'
      BY <1>1, <1>2, <1>3, <1>4, UpdateAssumption
      DEF Undone, Backward, Stopped, Renamed, Created, Restored, Role
    <2>3. CASE r = 1
      <3>1. AllOld'
        BY <1>1, <2>1, <2>2, <2>3 DEF AllOld, Restored, Role
      <3> QED BY <1>2, <2>3, <3>1 DEF Undone, HelperIs, Backward
    <2>4. CASE r # 1
      <3>1. /\ r - 1 \in Role /\ r - 1 < r
            /\ \A q \in Role : (q < r - 1 => q < r) /\ (q > r - 1 => q = r \/ q > r)
        BY <1>1, <2>4, UpdateAssumption DEF Role
      <3>2. \A q \in Role : /\ q < r - 1 => Stopped(q)' /\ Renamed(q)' /\ Created(q)'
                            /\ q > r - 1 => Restored(q)'
        BY <2>1, <2>2, <3>1
      <3>3. Stopped(r - 1)' /\ Renamed(r - 1)' /\ Created(r - 1)'
        BY <2>2, <3>1
      <3> QED BY <1>2, <2>4, <3>2, <3>3 DEF Undone, HelperIs, Stopped, Renamed, Created
    <2> QED BY <2>3, <2>4
  <1> QED BY <1>1, <1>2, <1>3, <1>5, <1>6, <1>7, BackwardKeeps DEF Backward

\* The helper ends, by itself or not.
LEMMA EndsInv ==
  ASSUME UpdateInv, ReportFailed \/ HelperDies
  PROVE  UpdateInv'
  <1> USE DEF UpdateInv
  <1>1. /\ helper' = NoHelper /\ helper'.at = "off" /\ helper.at # "off" /\ app.request = "none"
        /\ UNCHANGED <<old, candidate, app, impaired>> /\ update'.errors = update.errors
    BY DEF ReportFailed, HelperDies, HelperIs, Containers, NoHelper, Apart, Shape
  <1>2. Shape'
    <2>1. update' \in [status : Statuses, errors : BOOLEAN, cleaned : BOOLEAN] /\ faults' \in 0..Faults
      BY FaultType DEF ReportFailed, HelperDies, Shape, Statuses
    <2> QED BY <1>1, <2>1, NoHelperType DEF Shape
  <1>3. Apart' /\ Untouched' /\ Progress' /\ GoneLast'
    BY <1>1 DEF Apart, Untouched, Progress, GoneLast, HelperIs, AllNew
  <1>4. Known' /\ Undone'
    BY <1>1 DEF Known, Undone, HelperIs, Forward, Backward
  <1>5. Succeeded' /\ Failed'
    <2>1. CASE ReportFailed
      <3>1. update'.status = "failed" /\ helper.at = "report"
        BY <2>1 DEF ReportFailed, HelperIs, Shape
      <3> QED BY <1>1, <3>1 DEF Succeeded, Failed, Undone, HelperIs, AllOld
    <2>2. CASE HelperDies
      BY <1>1, <2>2 DEF HelperDies, Succeeded, Failed, HelperIs, AllNew, AllOld
    <2> QED BY <2>1, <2>2
  <1> QED BY <1>2, <1>3, <1>4, <1>5

LEMMA UpdateStepInv == UpdateInv /\ [UpdateNext]_updateVars => UpdateInv'
  <1> SUFFICES ASSUME UpdateInv, [UpdateNext]_updateVars PROVE UpdateInv'
    OBVIOUS
  <1>1. CASE RequestUpdate \/ RequestFails
    BY <1>1, RequestInv, LaunchInv
  <1>2. CASE HelperStep
    BY <1>2, PrepareInv, StopInv, RenameInv, CreateInv, StartInv, VerifyInv, CommitInv, RemoveInv,
       RemoveCandidateInv, RenameBackInv, StartOldInv, EndsInv
    DEF HelperStep
  <1>3. CASE HelperDies \/ AppStep \/ RestartApp
    BY <1>3, EndsInv, LaunchInv, AppInv DEF AppStep
  <1>4. CASE UNCHANGED updateVars
    BY <1>4 DEF updateVars, UpdateInv, Shape, Apart, Untouched, Progress, GoneLast, Succeeded, Known, Undone, Failed,
       HelperIs, AllNew, AllOld, Stopped, Renamed, Created, Restored
  <1> QED BY <1>1, <1>2, <1>3, <1>4 DEF UpdateNext

LEMMA AlwaysUpdateInv == UpdateSpec => []UpdateInv
  BY UpdateInitInv, UpdateStepInv, PTL DEF UpdateSpec

LEMMA UpdateTypes == UpdateInv => UpdateTypeOK
  BY DEF UpdateInv, Shape, UpdateTypeOK, Statuses, OldStates, Helpers

(***************************************************************************)
(* The stored state, the containers and the helper keep their types, for   *)
(* any number of roles and faults.                                         *)
(***************************************************************************)
THEOREM UpdateTypeCorrect == UpdateSpec => []UpdateTypeOK
  BY AlwaysUpdateInv, UpdateTypes, PTL

(***************************************************************************)
(* The containers of a release are replaced as one group                   *)
(* (install_release_group, rollback_release_group): an old container is    *)
(* removed, and success reported, only when all candidates run; a failure  *)
(* whose rollback reports no error leaves all old containers running       *)
(* under their names, unless the answer to a call was lost.                *)
(***************************************************************************)
THEOREM ReplacedAsOneGroup == UpdateSpec => []OneGroup
  <1>1. UpdateInv => OneGroup
    BY DEF UpdateInv, GoneLast, Succeeded, Failed, OneGroup, Gone, HelperIs
  <1> QED BY AlwaysUpdateInv, <1>1, PTL
=============================================================================
