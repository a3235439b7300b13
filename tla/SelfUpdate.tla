----------------------------- MODULE SelfUpdate -----------------------------
(***************************************************************************)
(* The update from the web page (app/services/self_update.py).  The app    *)
(* notes the request in the stored update state, creates a helper          *)
(* container and starts it; the helper replaces the containers of the      *)
(* roles as one group: pull, stop and rename each old container and create *)
(* its candidate, start all candidates, verify all, commit, and remove the *)
(* old containers; when a step fails it rolls the group back.              *)
(*                                                                         *)
(* Docker is external.  A call may fail without effect, or have its effect *)
(* and fail all the same, when the answer is lost.  The app reads the      *)
(* update state when it starts, and removes old images in a thread.        *)
(* A second helper beside one that runs, images and versions, and the      *)
(* inspection of what can be updated are left out.                         *)
(***************************************************************************)
EXTENDS Naturals

CONSTANTS
    Roles,      \* how many containers the group has; role 1 is the app
    Faults      \* a bound: calls that fail, deaths, restarts

ASSUME UpdateAssumption == Roles \in Nat \ {0} /\ Faults \in Nat

VARIABLES
    update,     \* the stored state system_update
    old,        \* old[r]: the container of role r when the update began
    candidate,  \* candidate[r]: the one that replaces it
    helper,     \* the helper: where it is, at which role, and what it knows of each role
    app,        \* the app: its request under way, started, read the update state, cleans
    faults,     \* faults left
    impaired    \* an answer of Docker was lost in this update, or a container was not
                \* running when it began

updateVars == <<update, old, candidate, helper, app, faults, impaired>>

Role == 1..Roles
Active == {"queued", "launching", "running"}
OldRuns == [named |-> "own", runs |-> TRUE]
Gone == [named |-> "gone", runs |-> FALSE]
Ignorant == [stopped |-> FALSE, renamed |-> FALSE, created |-> FALSE]
NoHelper == [at |-> "off", role |-> 1, knows |-> [r \in Role |-> Ignorant]]

UpdateInit ==
    /\ update = [status |-> "idle", errors |-> FALSE, cleaned |-> FALSE]
    /\ old = [r \in Role |-> OldRuns]
    /\ candidate = [r \in Role |-> "none"]
    /\ helper = NoHelper
    /\ app = [request |-> "none", started |-> TRUE, cleans |-> FALSE]
    /\ faults = Faults /\ impaired = FALSE

HelperIs(place) == helper.at = place
HelperGoes(place) == helper' = [helper EXCEPT !.at = place]
Fault == faults > 0 /\ faults' = faults - 1
Containers == <<old, candidate>>
AppDown == [request |-> "none", started |-> FALSE, cleans |-> FALSE]

-----------------------------------------------------------------------------
(***************************************************************************)
(* request_system_update: the event loop is blocked until it returns, so   *)
(* requests do not overlap; the app may die in the middle.                 *)
(***************************************************************************)
NameHeld(r) == old[r].named = "own" \/ candidate[r] # "none"
AppRuns == old[1].runs \/ candidate[1] = "runs"
RequestUpdate ==
    /\ app.started /\ AppRuns /\ app.request = "none"
    /\ update.status \notin Active /\ HelperIs("off")
    /\ \A r \in Role : NameHeld(r)
    /\ update' = [status |-> "queued", errors |-> FALSE, cleaned |-> FALSE]
    /\ old' = [r \in Role |-> IF candidate[r] = "none" THEN old[r]
                              ELSE [named |-> "own", runs |-> candidate[r] = "runs"]]
    /\ candidate' = [r \in Role |-> "none"]
    /\ app' = [app EXCEPT !.request = "create"]
    /\ impaired' = (\E r \in Role : ~ old'[r].runs)
    /\ UNCHANGED <<helper, faults>>
CreateHelper ==
    /\ app.request = "create" /\ app' = [app EXCEPT !.request = "start"]
    /\ update' = [update EXCEPT !.status = "launching"]
    /\ UNCHANGED <<Containers, helper, faults, impaired>>
StartHelper ==
    /\ app.request = "start" /\ app' = [app EXCEPT !.request = "none"]
    /\ HelperGoes("prepare")
    /\ UNCHANGED <<update, Containers, faults, impaired>>
\* A call fails; when the answer to the start is lost the helper runs.
RequestFails ==
    /\ Fault /\ app.request \in {"create", "start"}
    /\ app' = [app EXCEPT !.request = "none"]
    /\ update' = [update EXCEPT !.status = "failed"]
    /\ \/ UNCHANGED <<helper, impaired>>
       \/ app.request = "start" /\ HelperGoes("prepare") /\ impaired' = TRUE
    /\ UNCHANGED Containers

-----------------------------------------------------------------------------
(***************************************************************************)
(* The helper.  Each call does its step and goes on, or raises: then it    *)
(* had its effect or not, and the helper does not know that it had.        *)
(***************************************************************************)
LastRole == helper.role = Roles
NextOf(place, after, knows) ==
    helper' = IF LastRole THEN [at |-> after, role |-> 1, knows |-> knows]
              ELSE [at |-> place, role |-> helper.role + 1, knows |-> knows]
Raises == helper' = [helper EXCEPT !.at = "undo", !.role = Roles]

Call(effect, goesOn) ==
    \/ effect /\ goesOn /\ UNCHANGED <<faults, impaired>>
    \/ Fault /\ Raises /\ UNCHANGED <<Containers, app, impaired>>
    \/ Fault /\ Raises /\ effect /\ impaired' = TRUE

\* prepare_release_group: nothing has been touched when it raises.
Prepare ==
    /\ HelperIs("prepare")
    /\ \/ HelperGoes("stop") /\ update' = [update EXCEPT !.status = "running"] /\ UNCHANGED faults
       \/ Fault /\ helper' = NoHelper /\ update' = [update EXCEPT !.status = "failed"]
    /\ UNCHANGED <<Containers, app, impaired>>

StopOld ==
    LET r == helper.role IN
    /\ HelperIs("stop")
    /\ Call(/\ old' = [old EXCEPT ![r].runs = FALSE] /\ UNCHANGED candidate
            /\ app' = IF r = 1 THEN AppDown ELSE app,
            helper' = [helper EXCEPT !.at = "rename", !.knows[r].stopped = TRUE])
    /\ UNCHANGED update
RenameOld ==
    LET r == helper.role IN
    /\ HelperIs("rename")
    /\ Call(old' = [old EXCEPT ![r].named = "backup"] /\ UNCHANGED <<candidate, app>>,
            helper' = [helper EXCEPT !.at = "create", !.knows[r].renamed = TRUE])
    /\ UNCHANGED update
CreateCandidate ==
    LET r == helper.role IN
    /\ HelperIs("create")
    /\ Call(candidate' = [candidate EXCEPT ![r] = "created"] /\ UNCHANGED <<old, app>>,
            NextOf("stop", "start", [helper.knows EXCEPT ![r].created = TRUE]))
    /\ UNCHANGED update
StartCandidate ==
    LET r == helper.role IN
    /\ HelperIs("start")
    /\ Call(candidate' = [candidate EXCEPT ![r] = "runs"] /\ UNCHANGED <<old, app>>,
            NextOf("start", "verify", helper.knows))
    /\ UNCHANGED update

\* verify_release_group: the app answers once it has started; then the state
\* says succeeded, which is what commits.
Verify ==
    /\ HelperIs("verify") /\ (helper.role = 1 => app.started)
    /\ NextOf("verify", "commit", helper.knows)
    /\ UNCHANGED <<update, Containers, app, faults, impaired>>
Commit ==
    /\ HelperIs("commit") /\ HelperGoes("remove")
    /\ update' = [update EXCEPT !.status = "succeeded"]
    /\ UNCHANGED <<Containers, app, faults, impaired>>
NotReady ==
    /\ helper.at \in {"verify", "commit"} /\ Fault /\ Raises
    /\ UNCHANGED <<update, Containers, app, impaired>>

\* _cleanup_release_group_backups goes on when a removal fails.
RemoveOld ==
    LET r == helper.role IN
    /\ HelperIs("remove")
    /\ IF LastRole THEN helper' = NoHelper ELSE helper' = [helper EXCEPT !.role = @ + 1]
    /\ \/ helper.knows[r].renamed /\ old' = [old EXCEPT ![r] = Gone] /\ UNCHANGED faults
       \/ Fault /\ UNCHANGED old
    /\ UNCHANGED <<update, candidate, app, impaired>>

-----------------------------------------------------------------------------
(***************************************************************************)
(* rollback_release_group, for the roles in reverse: remove the candidate, *)
(* rename and start the old container, each only when the helper knows     *)
(* that the step was done, and each whether or not the one before failed.  *)
(***************************************************************************)
Errs == [update EXCEPT !.errors = TRUE]
Attempt(attempted, effect, unchanged) ==
    \/ attempted /\ effect /\ UNCHANGED <<update, faults>>
    \/ attempted /\ Fault /\ update' = Errs /\ unchanged
    \/ ~ attempted /\ unchanged /\ UNCHANGED <<update, faults>>
RemoveCandidate ==
    LET r == helper.role IN
    /\ HelperIs("undo") /\ HelperGoes("unname")
    /\ Attempt(helper.knows[r].created, candidate' = [candidate EXCEPT ![r] = "none"], UNCHANGED candidate)
    /\ app' = IF r = 1 /\ candidate'[1] = "none" THEN [app EXCEPT !.started = FALSE, !.cleans = FALSE] ELSE app
    /\ UNCHANGED <<old, impaired>>
\* Docker refuses a name that another container has.
RenameBack ==
    LET r == helper.role IN
    /\ HelperIs("unname") /\ HelperGoes("restart")
    /\ IF helper.knows[r].renamed /\ candidate[r] # "none"
       THEN update' = Errs /\ UNCHANGED <<old, faults>>
       ELSE Attempt(helper.knows[r].renamed, old' = [old EXCEPT ![r].named = "own"], UNCHANGED old)
    /\ UNCHANGED <<candidate, app, impaired>>
WhenCreated(knows) == knows.created                                 \* mutant
StartsAgain(knows) == knows.stopped
StartOld ==
    LET r == helper.role IN
    /\ HelperIs("restart")
    /\ helper' = IF r = 1 THEN [helper EXCEPT !.at = "report"] ELSE [helper EXCEPT !.at = "undo", !.role = r - 1]
    /\ Attempt(StartsAgain(helper.knows[r]), old' = [old EXCEPT ![r].runs = TRUE], UNCHANGED old)
    /\ UNCHANGED <<candidate, app, impaired>>
ReportFailed ==
    /\ HelperIs("report") /\ helper' = NoHelper
    /\ update' = [update EXCEPT !.status = "failed"]
    /\ UNCHANGED <<Containers, app, faults, impaired>>

HelperDies ==
    /\ Fault /\ ~ HelperIs("off") /\ helper' = NoHelper
    /\ UNCHANGED <<update, Containers, app, impaired>>

-----------------------------------------------------------------------------
(***************************************************************************)
(* The app starts: mark_update_started_after_restart.  The images are      *)
(* removed only if the state says by then that the update has succeeded.   *)
(* The thread that the helper starts for it ends with the helper.          *)
(***************************************************************************)
StartApp ==
    /\ AppRuns /\ ~ app.started
    /\ app' = [app EXCEPT !.started = TRUE,
                          !.cleans = update.status = "succeeded" /\ ~ update.cleaned]
    /\ UNCHANGED <<update, Containers, helper, faults, impaired>>
RestartApp ==
    /\ Fault /\ AppRuns /\ app' = AppDown
    /\ UNCHANGED <<update, Containers, helper, impaired>>
\* _run_delayed_image_cleanup: it stops when a new update has begun, and gives up
\* after five attempts.
CleanImages ==
    /\ app.cleans /\ app' = [app EXCEPT !.cleans = FALSE]
    /\ IF update.status = "succeeded"
       THEN \/ update' = [update EXCEPT !.cleaned = TRUE] /\ UNCHANGED faults
            \/ Fault /\ UNCHANGED update
       ELSE UNCHANGED <<update, faults>>
    /\ UNCHANGED <<Containers, helper, impaired>>

HelperStep ==
    \/ Prepare \/ StopOld \/ RenameOld \/ CreateCandidate \/ StartCandidate
    \/ Verify \/ Commit \/ NotReady \/ RemoveOld
    \/ RemoveCandidate \/ RenameBack \/ StartOld \/ ReportFailed
AppStep == CreateHelper \/ StartHelper \/ StartApp \/ CleanImages
UpdateNext == RequestUpdate \/ RequestFails \/ HelperStep \/ HelperDies \/ AppStep \/ RestartApp
UpdateSpec == UpdateInit /\ [][UpdateNext]_updateVars
UpdateFairSpec == UpdateSpec /\ WF_updateVars(HelperStep) /\ WF_updateVars(AppStep)

-----------------------------------------------------------------------------
UpdateTypeOK ==
    /\ update \in [status : Active \cup {"idle", "succeeded", "failed"}, errors : BOOLEAN, cleaned : BOOLEAN]
    /\ old \in [Role -> [named : {"own", "backup", "gone"}, runs : BOOLEAN]]
    /\ candidate \in [Role -> {"none", "created", "runs"}]
    /\ helper.role \in Role /\ faults \in 0..Faults /\ impaired \in BOOLEAN

AllOld == \A r \in Role : old[r] = OldRuns /\ candidate[r] = "none"
AllNew == \A r \in Role : candidate[r] = "runs"

(***************************************************************************)
(* The containers of a release are replaced as one group: an old container *)
(* is removed only when all candidates run, an update that has succeeded   *)
(* left all candidates running, and one that failed, and reports no error  *)
(* of its rollback, left all old containers running under their names,     *)
(* unless the answer to a call was lost.                                   *)
(***************************************************************************)
OneGroup ==
    /\ update.status = "succeeded" => AllNew
    /\ \A r \in Role : old[r] = Gone => AllNew
    /\ update.status = "failed" /\ HelperIs("off") /\ ~ update.errors /\ ~ impaired => AllOld
=============================================================================
