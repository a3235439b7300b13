-------------------------- MODULE FollowedSources ---------------------------
(***************************************************************************)
(* The subscriptions that follow an account (subscriptions.py): the loop   *)
(* of the worker reads what each account with a cookie follows on its site *)
(* and subscribes to it, every six hours and whenever it is asked to; the  *)
(* API saves and deletes accounts, and changes subscriptions, meanwhile.   *)
(*                                                                         *)
(* Three documents are loaded, changed and saved with no lock around it:   *)
(* the states of the syncs and the inventory of what was imported, each of *)
(* all platforms, which the last writer wins, and the configuration, whose *)
(* list of subscriptions is merged as a whole: a save that changes it      *)
(* raises when somebody else has changed it since it was loaded.           *)
(*                                                                         *)
(* A source of a platform is known by its address and mode, under which at *)
(* most one record is kept.  The names and pictures of the account, the    *)
(* counts shown, the models marked as deleted with an account, and the     *)
(* removal of addresses that earlier versions imported are left out; new   *)
(* subscriptions are enabled, as default_enabled has it.  A list longer    *)
(* than its pages (eight of authors, one of collections) is cut off; the   *)
(* lists here are shorter.                                                 *)
(***************************************************************************)
EXTENDS Naturals, FiniteSets

CONSTANTS
    Platform,       \* "cn" and "global"
    Authors, Collections,   \* the names of sources on a site
    Wishes,         \* a bound: what the user changes
    Follows,        \* a bound: changes of what an account follows
    Unanswered      \* a bound: pages and syncs that fail

ASSUME FollowAssumption == Wishes \in Nat /\ Follows \in Nat /\ Unanswered \in Nat

VARIABLES
    follows,    \* what the accounts follow on their sites
    cookie,     \* the platforms that have a cookie in the configuration
    subs,       \* subs[s]: config.subscriptions: no record, an enabled or a disabled one
    states,     \* states[s]: the stored state of a subscription: none, idle or asked for a sync
    syncs,      \* COOKIE_SOURCE_SYNC_STATE_KEY: requested_at, and a sync less than six hours ago
    inventory,  \* COOKIE_SOURCE_INVENTORY_KEY: the imported sources of each platform
    reading,    \* the sync that runs in the worker's loop
    call,       \* the call that the API serves
    wishes, changed, unanswered     \* what is left of the bounds

followVars == <<follows, cookie, subs, states, syncs, inventory, reading, call, wishes, changed, unanswered>>
docs == <<cookie, subs, states, syncs, inventory>>
bounds == <<wishes, changed, unanswered>>

Source == Platform \X (Authors \cup Collections)
AnyPlatform == CHOOSE p \in Platform : TRUE
NoSubs == [s \in Source |-> "no"]
NoSyncs == [p \in Platform |-> [requested |-> FALSE, recent |-> FALSE]]
NothingImported == [p \in Platform |-> {}]

\* A sync and a call: where it is, and what it has loaded and not yet saved.
NoFollowSync == [at |-> "no", platform |-> AnyPlatform, todo |-> {}, found |-> {},
                 old |-> NoSubs, new |-> NoSubs, syncs |-> NoSyncs]
NoCall == [at |-> "no", platform |-> AnyPlatform, deleted |-> FALSE,
           old |-> NoSubs, inventory |-> NothingImported, syncs |-> NoSyncs]

FollowInit ==
    /\ follows \in SUBSET Source /\ cookie \in SUBSET Platform /\ subs = NoSubs /\ states = NoSubs
    /\ syncs = NoSyncs /\ inventory = NothingImported
    /\ reading = NoFollowSync /\ call = NoCall
    /\ wishes = Wishes /\ changed = Follows /\ unanswered = Unanswered

ReadingIs(place) == reading.at = place
CallIs(place) == call.at = place

-----------------------------------------------------------------------------
(* The site, and the passing of six hours                                  *)

FollowChanges(s) ==
    /\ changed > 0 /\ changed' = changed - 1
    /\ follows' = IF s \in follows THEN follows \ {s} ELSE follows \cup {s}
    /\ UNCHANGED <<docs, reading, call, wishes, unanswered>>

\* What somebody has loaded holds the time of the last sync, and ages as well.
IntervalPasses(p) ==
    /\ syncs[p].recent /\ syncs' = [syncs EXCEPT ![p].recent = FALSE]
    /\ reading' = [reading EXCEPT !.syncs[p].recent = FALSE] /\ call' = [call EXCEPT !.syncs[p].recent = FALSE]
    /\ UNCHANGED <<follows, cookie, subs, states, inventory, bounds>>

-----------------------------------------------------------------------------
(* The worker: _maybe_sync_cookie_sources and _sync_cookie_sources         *)

DueWhenAsked == {p \in cookie : syncs[p].requested}                         \* mutant
DuePlatforms == {p \in cookie : syncs[p].requested \/ ~ syncs[p].recent}
StartFollowSync ==
    /\ ReadingIs("no") /\ DuePlatforms # {}
    /\ reading' = [NoFollowSync EXCEPT !.at = "platform", !.todo = DuePlatforms, !.old = subs, !.new = subs]
    /\ UNCHANGED <<follows, docs, call, bounds>>

\* What the API or the page gives of a list: all that is followed, or, when a page of
\* it fails, a part.
Followed(p, names) == {s \in follows : s[1] = p /\ s[2] \in names}
Gives(list, given) ==
    IF given = list THEN UNCHANGED unanswered ELSE unanswered > 0 /\ unanswered' = unanswered - 1

ReadAuthors(p) ==
    /\ ReadingIs("platform") /\ p \in reading.todo
    /\ \E authors \in SUBSET Followed(p, Authors) :
         /\ Gives(Followed(p, Authors), authors)
         /\ reading' = [reading EXCEPT !.at = "collections", !.platform = p, !.found = authors]
    /\ UNCHANGED <<follows, docs, call, wishes, changed>>

\* The loop over the sources: a state that asks for a first sync is stored for each
\* new record, long before the record is saved; a disabled record is enabled again.
ImportFound(found) ==
    /\ reading' = [reading EXCEPT !.at = "inventory", !.found = found,
                            !.new = [s \in Source |-> IF s \in found THEN "on" ELSE reading.new[s]]]
    /\ states' = [s \in Source |-> IF s \in found /\ reading.new[s] = "no" THEN "asked" ELSE states[s]]
ReadCollections ==
    /\ ReadingIs("collections")
    /\ \E collections \in SUBSET Followed(reading.platform, Collections) :
         /\ Gives(Followed(reading.platform, Collections), collections)
         /\ ImportFound(reading.found \cup collections)
    /\ UNCHANGED <<follows, cookie, subs, syncs, inventory, call, wishes, changed>>

\* An exception: what was imported before stays in the inventory.
PlatformFails ==
    /\ ReadingIs("collections") /\ unanswered > 0 /\ unanswered' = unanswered - 1
    /\ reading' = [reading EXCEPT !.at = "read"]
    /\ UNCHANGED <<follows, docs, call, wishes, changed>>
StoreInventory ==
    /\ ReadingIs("inventory") /\ reading' = [reading EXCEPT !.at = "read"]
    /\ inventory' = [inventory EXCEPT ![reading.platform] = reading.found]
    /\ UNCHANGED <<follows, cookie, subs, states, syncs, call, bounds>>
\* _patch_cookie_source_sync_state: the document is read and then written.
ReadSyncs ==
    /\ ReadingIs("read") /\ reading' = [reading EXCEPT !.at = "write", !.syncs = syncs]
    /\ UNCHANGED <<follows, docs, call, bounds>>
WriteSynced ==
    /\ ReadingIs("write")
    /\ syncs' = [reading.syncs EXCEPT ![reading.platform] = [requested |-> FALSE, recent |-> TRUE]]
    /\ LET todo == reading.todo \ {reading.platform}
       IN reading' = [reading EXCEPT !.at = IF todo = {} THEN "save" ELSE "platform", !.todo = todo]
    /\ UNCHANGED <<follows, cookie, subs, states, inventory, call, bounds>>

\* JsonStore.save, for the list of subscriptions.
Unmergeable(old, new) == new # old /\ subs # old /\ subs # new
MergedSubs(old, new) == IF new = old THEN subs ELSE new
\* When the merge raises, what was stored of the sync stays stored.
SaveFollowed ==
    /\ ReadingIs("save") /\ reading' = NoFollowSync
    /\ subs' = IF Unmergeable(reading.old, reading.new) THEN subs ELSE MergedSubs(reading.old, reading.new)
    /\ UNCHANGED <<follows, cookie, states, syncs, inventory, call, bounds>>

\* _ensure_state_records: in the loop of the worker, and whenever the API calls start().
EnsureStates ==
    /\ states' = [s \in Source |-> IF subs[s] = "no" THEN "no"
                                   ELSE IF states[s] = "no" THEN "idle" ELSE states[s]]
    /\ UNCHANGED <<follows, cookie, subs, syncs, inventory, reading, call, bounds>>
\* The scheduler takes up a request (the module Subscriptions).
TakeUpFirst(s) ==
    /\ ReadingIs("no") /\ subs[s] = "on" /\ states[s] = "asked" /\ states' = [states EXCEPT ![s] = "idle"]
    /\ UNCHANGED <<follows, cookie, subs, syncs, inventory, reading, call, bounds>>

-----------------------------------------------------------------------------
(* The API: accounts                                                       *)

Wish == CallIs("no") /\ wishes > 0 /\ wishes' = wishes - 1

\* A cookie is saved, an account logged in, or a sync asked for.
SaveAccount(p) ==
    /\ Wish /\ cookie' = cookie \cup {p} /\ call' = [NoCall EXCEPT !.at = "read", !.platform = p]
    /\ UNCHANGED <<follows, subs, states, syncs, inventory, reading, changed, unanswered>>
\* delete_config_online_account: the cookie goes, then what was imported for it.
DeleteAccount(p) ==
    /\ Wish /\ p \in cookie /\ cookie' = cookie \ {p}
    /\ call' = [NoCall EXCEPT !.at = "load", !.platform = p, !.deleted = TRUE]
    /\ UNCHANGED <<follows, subs, states, syncs, inventory, reading, changed, unanswered>>

\* remove_account_imported_subscriptions
LoadForRemoval ==
    /\ CallIs("load") /\ call' = [call EXCEPT !.at = "remove", !.old = subs, !.inventory = inventory]
    /\ UNCHANGED <<follows, docs, reading, bounds>>
Imported == call.inventory[call.platform]
RemoveImported ==
    /\ CallIs("remove")
    /\ LET kept == [s \in Source |-> IF s \in Imported THEN "no" ELSE call.old[s]]
       IN IF Unmergeable(call.old, kept)
          THEN call' = NoCall /\ UNCHANGED <<subs, states>>
          ELSE /\ call' = [call EXCEPT !.at = "forget"]
               /\ subs' = MergedSubs(call.old, kept)
               /\ states' = [s \in Source |-> IF s \in Imported /\ call.old[s] # "no" THEN "no" ELSE states[s]]
    /\ UNCHANGED <<follows, cookie, syncs, inventory, reading, bounds>>
\* The inventory of all platforms, as it was loaded.
ForgetImported ==
    /\ CallIs("forget") /\ call' = [call EXCEPT !.at = "read"]
    /\ inventory' = [call.inventory EXCEPT ![call.platform] = {}]
    /\ UNCHANGED <<follows, cookie, subs, states, syncs, reading, bounds>>

\* The request for a sync is stored, or taken back with a deleted account.
ReadForCall ==
    /\ CallIs("read") /\ call' = [call EXCEPT !.at = "write", !.syncs = syncs]
    /\ UNCHANGED <<follows, docs, reading, bounds>>
WriteRequest ==
    /\ CallIs("write") /\ call' = NoCall
    /\ syncs' = [call.syncs EXCEPT ![call.platform].requested = ~ call.deleted]
    /\ UNCHANGED <<follows, cookie, subs, states, inventory, reading, bounds>>

\* The user subscribes to a source, disables or enables, or deletes a subscription.
ChangeSub(s, to) ==
    /\ Wish /\ subs[s] # to /\ (to = "off" => subs[s] = "on")
    /\ subs' = [subs EXCEPT ![s] = to]
    /\ states' = [states EXCEPT ![s] = IF to = "no" THEN "no" ELSE IF subs[s] = "no" THEN "asked" ELSE @]
    /\ UNCHANGED <<follows, cookie, syncs, inventory, reading, call, changed, unanswered>>

-----------------------------------------------------------------------------
FollowStep ==
    \/ StartFollowSync \/ StoreInventory \/ ReadSyncs \/ WriteSynced \/ SaveFollowed
    \/ (\E p \in Platform : ReadAuthors(p)) \/ ReadCollections \/ PlatformFails
CallStep == LoadForRemoval \/ RemoveImported \/ ForgetImported \/ ReadForCall \/ WriteRequest
FollowNext ==
    \/ \E s \in Source : FollowChanges(s) \/ TakeUpFirst(s)
    \/ \E s \in Source, to \in {"no", "off", "on"} : ChangeSub(s, to)
    \/ \E p \in Platform : IntervalPasses(p) \/ SaveAccount(p) \/ DeleteAccount(p)
    \/ FollowStep \/ EnsureStates \/ CallStep
FollowSpec == FollowInit /\ [][FollowNext]_followVars

\* The worker's loop goes round, hours pass, and a call that was begun is served.
FollowFair ==
    /\ WF_followVars(FollowStep) /\ WF_followVars(CallStep)
    /\ \A p \in Platform : WF_followVars(IntervalPasses(p))
FollowFairSpec == FollowSpec /\ FollowFair

-----------------------------------------------------------------------------
\* Every variable has its type.
FollowTypeOK ==
    /\ follows \subseteq Source /\ cookie \subseteq Platform
    /\ subs \in [Source -> {"no", "on", "off"}] /\ states \in [Source -> {"no", "idle", "asked"}]
    /\ syncs \in [Platform -> [requested : BOOLEAN, recent : BOOLEAN]]
    /\ inventory \in [Platform -> SUBSET Source]
    /\ reading.at \in {"no", "platform", "collections", "inventory", "read", "write", "save"} /\ reading.todo \subseteq Platform
    /\ call.at \in {"no", "load", "remove", "forget", "read", "write"}
    /\ wishes \in 0 .. Wishes /\ changed \in 0 .. Follows /\ unanswered \in 0 .. Unanswered

(***************************************************************************)
(* docs/modules/subscriptions.md:8, "the list of followed sources is       *)
(* refreshed regularly, and a new one is subscribed to": whatever requests *)
(* are lost, syncs fail, and saves are refused because of what others      *)
(* changed, what an account follows is subscribed to at last.              *)
(***************************************************************************)
FollowedIsSubscribed == <>[](\A s \in Source : s \in follows /\ s[1] \in cookie => subs[s] = "on")
=============================================================================
