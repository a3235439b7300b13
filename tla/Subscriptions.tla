--------------------------- MODULE Subscriptions ---------------------------
(***************************************************************************)
(* Subscriptions (app/services/subscriptions.py): the models that an       *)
(* author uploads are discovered on a schedule and enqueued as a batch.    *)
(* One loop of the worker starts the sync that is due or asked for, one at *)
(* a time; the sync runs in a thread of its own.  What it found is kept in *)
(* tracked_items, and only a model that is not there is new for the next   *)
(* scheduled sync.                                                         *)
(*                                                                         *)
(* The API is another process with its own SubscriptionManager.  Each of   *)
(* its operations ends with start(), which recovers syncs that are marked  *)
(* running, for none is in this process.                                   *)
(*                                                                         *)
(* One subscription is modelled, and of the archive queue the batch of its *)
(* source, whose children are in Batches.  A probe of the first pages that *)
(* finds nothing new ends as a full scan that finds nothing new.  Time is  *)
(* left out: while the subscription is enabled its next run may be due.    *)
(***************************************************************************)
EXTENDS Naturals

CONSTANTS
    SourceModel,    \* the models of the author
    Downs           \* a bound: deaths of the worker

ASSUME SubscriptionAssumption == Downs \in Nat

VARIABLES
    published,  \* what the source lists
    sub,        \* the subscription and its state record
    sync,       \* the thread of the sync, with what it has read; _running_id
    batchOf,    \* the children of the source's batch in the archive queue
    inArchive,  \* the index of the archive
    downs       \* deaths left

subVars == <<published, sub, sync, batchOf, inArchive, downs>>

NoSync == [at |-> "none", id |-> FALSE, gone |-> FALSE, manual |-> FALSE, known |-> {}, fresh |-> {}]
NoSub == [there |-> FALSE, enabled |-> FALSE, running |-> FALSE, manual |-> FALSE, known |-> {}]

SubscriptionInit ==
    /\ published = {}
    /\ sub = NoSub
    /\ sync = NoSync /\ batchOf = {} /\ inArchive = {}
    /\ downs = Downs

SyncIs(place) == sync.at = place
SyncGoes(place) == sync' = [sync EXCEPT !.at = place]
PatchSub(record) ==
    sub' = record /\ UNCHANGED <<published, batchOf, inArchive, downs>>

-----------------------------------------------------------------------------
Publish(k) ==
    /\ k \notin published /\ published' = published \cup {k}
    /\ UNCHANGED <<sub, sync, batchOf, inArchive, downs>>

\* The API: create_subscription, with or without a first scan, for a source
\* that may be subscribed already; delete_subscription, after which a sync that
\* runs writes to the state of an id that nobody lists; request_sync,
\* update_subscription without a new link, and what start() does after any of
\* its operations.
CreateSubscription ==
    /\ \E scan, enabled \in BOOLEAN :
          PatchSub([sub EXCEPT !.there = TRUE, !.enabled = enabled, !.running = FALSE,
                               !.manual = @ \/ scan])
    /\ UNCHANGED sync
DeleteSubscription ==
    /\ sub.there /\ PatchSub(NoSub)
    /\ sync' = IF sync.id THEN [sync EXCEPT !.gone = TRUE] ELSE sync
RequestSync == sub.there /\ ~ sub.manual /\ PatchSub([sub EXCEPT !.manual = TRUE]) /\ UNCHANGED sync
UpdateSubscription ==
    /\ sub.there
    /\ PatchSub(IF sub.enabled
                THEN [sub EXCEPT !.enabled = FALSE, !.running = FALSE, !.manual = FALSE]
                ELSE [sub EXCEPT !.enabled = TRUE])
    /\ UNCHANGED sync
SyncRecovered == [sub EXCEPT !.running = FALSE, !.manual = sub.enabled]
RecoverInApi == sub.running /\ PatchSub(SyncRecovered) /\ UNCHANGED sync

\* upsert_from_archive: a user archives the source, and subscribes to it with
\* what was discovered; the batch is in the queue before.
UpsertFromArchive(items) ==
    /\ items # {} /\ items \subseteq batchOf
    /\ PatchSub([sub EXCEPT !.there = TRUE, !.enabled = TRUE, !.running = FALSE, !.manual = FALSE,
                            !.known = @ \cup items])
    /\ UNCHANGED sync
ArchiveSource ==
    /\ batchOf = {} /\ published \ inArchive # {}
    /\ batchOf' = published \ inArchive
    /\ UNCHANGED <<published, sub, sync, inArchive, downs>>

-----------------------------------------------------------------------------
\* _recover_stale_running_states in the worker, and _maybe_launch_due_sync.
RecoverInWorker == sub.running /\ ~ sync.id /\ PatchSub(SyncRecovered) /\ UNCHANGED sync
OnlyScheduled == sub.enabled                                        \* mutant
SyncIsDue == sub.manual \/ sub.enabled
LaunchSync ==
    /\ ~ sync.id /\ sub.there /\ ~ sub.running /\ SyncIsDue
    /\ sync' = [NoSync EXCEPT !.at = "read", !.id = TRUE]
    /\ UNCHANGED <<published, sub, batchOf, inArchive, downs>>

\* What a sync writes of its subscription's record.
SyncWrites(record) == sub' = IF sync.gone THEN sub ELSE record

(***************************************************************************)
(* _sync_subscription: read the record, mark it running, scan the source,  *)
(* read the queue, read the index, submit what is new, store what is known.*)
(***************************************************************************)
FindNoRecord ==
    /\ SyncIs("read") /\ sync.gone /\ sync' = NoSync
    /\ UNCHANGED <<published, sub, batchOf, inArchive, downs>>
ReadRecord ==
    /\ SyncIs("read") /\ ~ sync.gone
    /\ sync' = [sync EXCEPT !.at = "mark", !.manual = sub.manual, !.known = sub.known]
    /\ UNCHANGED <<published, sub, batchOf, inArchive, downs>>
MarkRunning ==
    /\ SyncIs("mark") /\ SyncGoes("scan")
    /\ SyncWrites([sub EXCEPT !.running = TRUE, !.manual = FALSE])
    /\ UNCHANGED <<published, batchOf, inArchive, downs>>
Tracked(before, seen) == before \cup seen
Candidates(seen) == IF sync.manual THEN seen ELSE seen \ sync.known
Scan ==
    /\ SyncIs("scan")
    /\ \E seen \in SUBSET published :
          sync' = [sync EXCEPT !.at = "pending", !.manual = FALSE, !.fresh = Candidates(seen),
                               !.known = Tracked(sync.known, seen)]
    /\ UNCHANGED <<published, sub, batchOf, inArchive, downs>>
Ended(s) == [s EXCEPT !.running = FALSE]
SyncFails ==
    /\ sync.at \in {"scan", "pending", "archived", "submit", "store"} /\ sync' = NoSync
    /\ SyncWrites(Ended(sub))
    /\ UNCHANGED <<published, batchOf, inArchive, downs>>
\* Fewer than the source says it has: what was known stays known, and when
\* nothing was, what was scanned becomes known.
ScanIsPartial ==
    /\ SyncIs("scan") /\ sync' = NoSync
    /\ \E seen \in SUBSET published :
          /\ seen # published
          /\ SyncWrites([Ended(sub) EXCEPT !.known = IF sync.known # {} THEN sync.known ELSE seen])
    /\ UNCHANGED <<published, batchOf, inArchive, downs>>

ReadPendingKeys ==
    /\ SyncIs("pending")
    /\ sync' = [sync EXCEPT !.at = "archived", !.fresh = @ \ batchOf]
    /\ UNCHANGED <<published, sub, batchOf, inArchive, downs>>
ReadArchivedKeys ==
    /\ SyncIs("archived")
    /\ sync' = [sync EXCEPT !.at = "submit", !.fresh = @ \ inArchive]
    /\ UNCHANGED <<published, sub, batchOf, inArchive, downs>>

\* submit_discovered_batch: a batch of this source that is in the queue is
\* kept as it is, and the submission is reported as accepted.
SubmitFound ==
    /\ SyncIs("submit") /\ SyncGoes("store")
    /\ batchOf' = IF batchOf = {} THEN sync.fresh ELSE batchOf
    /\ UNCHANGED <<published, sub, inArchive, downs>>
StoreFound ==
    /\ SyncIs("store") /\ sync' = NoSync
    /\ SyncWrites([Ended(sub) EXCEPT !.known = sync.known])
    /\ UNCHANGED <<published, batchOf, inArchive, downs>>

-----------------------------------------------------------------------------
\* The batch: a child ends, archived or given up; the last one ends the batch.
ChildEnds(k) ==
    /\ k \in batchOf /\ batchOf' = batchOf \ {k}
    /\ inArchive' \in {inArchive, inArchive \cup {k}}
    /\ UNCHANGED <<published, sub, sync, downs>>
SubscriptionWorkerDies ==
    /\ downs > 0 /\ downs' = downs - 1
    /\ sync' = NoSync
    /\ UNCHANGED <<published, sub, batchOf, inArchive>>

SyncStep ==
    \/ FindNoRecord \/ ReadRecord \/ MarkRunning \/ Scan \/ SyncFails \/ ScanIsPartial
    \/ ReadPendingKeys \/ ReadArchivedKeys \/ SubmitFound \/ StoreFound
SubscriptionNext ==
    \/ \E k \in SourceModel : Publish(k) \/ ChildEnds(k)
    \/ CreateSubscription \/ DeleteSubscription
    \/ RequestSync \/ UpdateSubscription \/ RecoverInApi
    \/ (\E items \in SUBSET SourceModel : UpsertFromArchive(items)) \/ ArchiveSource
    \/ RecoverInWorker \/ LaunchSync \/ SyncStep
    \/ SubscriptionWorkerDies
SubscriptionSpec == SubscriptionInit /\ [][SubscriptionNext]_subVars

\* The loop and the sync's thread go on.
SubscriptionFair ==
    WF_subVars(RecoverInWorker) /\ WF_subVars(LaunchSync) /\ WF_subVars(SyncStep)
SubscriptionFairSpec == SubscriptionSpec /\ SubscriptionFair

-----------------------------------------------------------------------------
SubscriptionTypeOK ==
    /\ published \cup inArchive \cup batchOf \subseteq SourceModel
    /\ sub \in [there : BOOLEAN, enabled : BOOLEAN, running : BOOLEAN, manual : BOOLEAN, known : SUBSET SourceModel]
    /\ sync.known \cup sync.fresh \subseteq SourceModel
    /\ downs \in 0..Downs

(***************************************************************************)
(* A sync that was asked for starts, or its subscription is deleted,       *)
(* whatever is recovered, saved or dies.                                   *)
(***************************************************************************)
SyncServed == []<>(~ sub.manual)
=============================================================================
