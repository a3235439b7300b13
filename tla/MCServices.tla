----------------------------- MODULE MCServices -----------------------------
(***************************************************************************)
(* The services around the archive queue on small instances, one at a      *)
(* time: they share nothing that their models keep, so a behaviour of the  *)
(* system is one behaviour of each, and part names the one looked at.      *)
(* Each module's own fairness holds for the part that is looked at: part   *)
(* never changes, so one formula may name an action of each part.          *)
(***************************************************************************)
EXTENDS RemoteRefresh, Subscriptions, SelfUpdate, ThreeMf, FollowedSources, Batches, LocalImport, StateEvents

VARIABLE part

vars == <<part, refreshVars, subVars, updateVars, threeMfVars, followVars, batchVars, importVars, eventVars>>

OnlyRefresh == UNCHANGED <<part, subVars, updateVars, threeMfVars, followVars, batchVars, importVars, eventVars>>
OnlySubs == UNCHANGED <<part, refreshVars, updateVars, threeMfVars, followVars, batchVars, importVars, eventVars>>
OnlyUpdate == UNCHANGED <<part, refreshVars, subVars, threeMfVars, followVars, batchVars, importVars, eventVars>>
OnlyThreeMf == UNCHANGED <<part, refreshVars, subVars, updateVars, followVars, batchVars, importVars, eventVars>>
OnlyFollowed == UNCHANGED <<part, refreshVars, subVars, updateVars, threeMfVars, batchVars, importVars, eventVars>>
OnlyBatches == UNCHANGED <<part, refreshVars, subVars, updateVars, threeMfVars, followVars, importVars, eventVars>>
OnlyImport == UNCHANGED <<part, refreshVars, subVars, updateVars, threeMfVars, followVars, batchVars, eventVars>>
OnlyEvents == UNCHANGED <<part, refreshVars, subVars, updateVars, threeMfVars, followVars, batchVars, importVars>>

ServicesInit ==
    /\ part \in {"refresh", "subscriptions", "update", "threemf", "followed", "batches", "import", "events"}
    /\ RefreshInit /\ SubscriptionInit /\ UpdateInit /\ ThreeMfInit /\ FollowInit /\ BatchesInit /\ ImportInit /\ EventsInit
    /\ part = "followed" \/ follows \cup cookie = {}
    /\ part = "batches" \/ archived = {}

ServicesNext ==
    \/ part = "refresh" /\ RefreshNext /\ OnlyRefresh
    \/ part = "subscriptions" /\ SubscriptionNext /\ OnlySubs
    \/ part = "update" /\ UpdateNext /\ OnlyUpdate
    \/ part = "threemf" /\ ThreeMfNext /\ OnlyThreeMf
    \/ part = "followed" /\ FollowNext /\ OnlyFollowed
    \/ part = "batches" /\ BatchesNext /\ OnlyBatches
    \/ part = "import" /\ ImportNext /\ OnlyImport
    \/ part = "events" /\ EventsNext /\ OnlyEvents

ServicesFair ==
    /\ \A w \in Thread : WF_vars(
           \/ part = "refresh" /\ Tick /\ OnlyRefresh
           \/ part = "subscriptions" /\ RecoverInWorker /\ OnlySubs
           \/ part = "update" /\ HelperStep /\ OnlyUpdate
           \/ part = "followed" /\ FollowStep /\ OnlyFollowed
           \/ part = "batches" /\ StartThread(w) /\ OnlyBatches
           \/ part = "import" /\ Daemon /\ OnlyImport)
    /\ \A w \in Thread : WF_vars(
           \/ part = "refresh" /\ RunBatch /\ OnlyRefresh
           \/ part = "subscriptions" /\ LaunchSync /\ OnlySubs
           \/ part = "update" /\ AppStep /\ OnlyUpdate
           \/ part = "followed" /\ CallStep /\ OnlyFollowed
           \/ part = "batches" /\ RunStep(w) /\ OnlyBatches)
    /\ \A p \in Platform : WF_vars(
           \/ part = "subscriptions" /\ SyncStep /\ OnlySubs
           \/ part = "followed" /\ IntervalPasses(p) /\ OnlyFollowed)
    /\ \A w \in Thread : WF_vars(part = "batches" /\ RefreshStep(w) /\ OnlyBatches)
    /\ \A w \in Slot : WF_vars(part = "import" /\ WorkerStep(w) /\ OnlyImport)
    /\ \A p \in Page : WF_vars(part = "events" /\ Connect(p) /\ OnlyEvents)
    /\ \A p \in Page : WF_vars(part = "events" /\ Receive(p) /\ OnlyEvents)
    /\ \A p \in Page : WF_vars(part = "events" /\ (Fetch(p) \/ Wait(p)) /\ OnlyEvents)

ServicesSpec == ServicesInit /\ [][ServicesNext]_vars /\ ServicesFair

\* Every variable of every part keeps its type.
ServicesTypeOK == RefreshTypeOK /\ SubscriptionTypeOK /\ UpdateTypeOK /\ ThreeMfTypeOK /\ FollowTypeOK /\ BatchesTypeOK /\ ImportTypeOK /\ EventsTypeOK

=============================================================================
