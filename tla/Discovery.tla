----------------------------- MODULE Discovery -----------------------------
(***************************************************************************)
(* A scan of a subscribed source (makerworld_pipeline/discovery.py) and    *)
(* what the subscription makes of it (subscriptions.py): the list of an    *)
(* author's uploads, of one collection, or of all favourites is read page  *)
(* by page from a site whose list may change in between and whose pages    *)
(* may fail.  A result that is taken for the whole list becomes            *)
(* current_items; a model of an author that is tracked but not current is  *)
(* shown as deleted at its source (archive_model_index.py).                *)
(*                                                                         *)
(* The site tells the number of its models with every page.  A page fails  *)
(* when every form of its request fails.  Which addresses and parameters   *)
(* those are, hasNext, which agrees with the number told, and the order of *)
(* the items are left out.  The favourites are in one folder.  A manual    *)
(* scan is one that does not probe.                                        *)
(***************************************************************************)
EXTENDS Naturals, Sequences, SequencesExt, FiniteSets

CONSTANTS
    Listable,       \* the models of the source
    Limit,          \* models on a page
    MaxPages,       \* the budget of a scan in pages; a probe has one
    MinTracked,     \* COLLECTION_PARTIAL_SCAN_MIN_TRACKED
    Changes,        \* a bound: changes of the list
    Misses          \* a bound: pages that fail

ASSUME DiscoveryAssumption ==
    /\ Limit \in Nat \ {0} /\ MaxPages \in Nat \ {0} /\ MinTracked \in Nat
    /\ Changes \in Nat /\ Misses \in Nat

VARIABLES
    kind,       \* the source: "author", "collection" or "favourites"
    listed,     \* the list on the site, newest first
    current, tracked,   \* current_items and tracked_items of the subscription
    reconciled, \* a whole scan succeeded within the last day
    scan,       \* the scan that runs
    absent,     \* the models that were not on the list at some moment of it
    changes, misses     \* what is left of the bounds

listVars == <<kind, listed, current, tracked, reconciled, scan, absent, changes, misses>>
record == <<current, tracked, reconciled>>

Nothing == [items |-> {}, total |-> 0, strict |-> FALSE]
NoScan == [at |-> "none", probe |-> FALSE, pageTotal |-> 0, offset |-> 0, pages |-> 0, budget |-> 0,
           found |-> {}, total |-> 0, best |-> Nothing]

ScanInit ==
    /\ kind \in {"author", "collection", "favourites"}
    /\ listed = <<>> /\ current = {} /\ tracked = {} /\ reconciled = FALSE
    /\ scan = NoScan /\ absent = {}
    /\ changes = Changes /\ misses = Misses

Models(list) == {list[n] : n \in DOMAIN list}
ScanIs(place) == scan.at = place
Count(models) == Cardinality(models)
Larger(a, b) == IF a > b THEN a ELSE b

-----------------------------------------------------------------------------
(* The site, and the passing of a day                                      *)

ListChanges(list) ==
    /\ changes > 0 /\ changes' = changes - 1 /\ listed' = list
    /\ absent' = IF ScanIs("none") THEN {} ELSE absent \cup (Models(listed) \ Models(list))
    /\ UNCHANGED <<kind, record, scan, misses>>
ListModel(k) == k \notin Models(listed) /\ ListChanges(<<k>> \o listed)
UnlistModel(k) == \E n \in DOMAIN listed : listed[n] = k /\ ListChanges(RemoveAt(listed, n))
DayPasses ==
    /\ reconciled /\ reconciled' = FALSE
    /\ UNCHANGED <<kind, listed, current, tracked, scan, absent, changes, misses>>

\* Every form of a request fails: every address, every set of parameters.
Missed == misses > 0 /\ misses' = misses - 1
\* The page at an offset, with the number of models of the whole list.
PageAt(offset) == {listed[n] : n \in {i \in DOMAIN listed : offset < i /\ i <= offset + Limit}}

-----------------------------------------------------------------------------
(* What the subscription makes of a result                                 *)

Ends == scan' = NoScan /\ absent' = {}
Settled(items, whole) ==
    /\ current' = items /\ tracked' = tracked \cup items
    /\ reconciled' = (whole \/ reconciled)

\* _incremental_probe_matches_known_frontier: as many as before, and no stranger
\* on the first page.
KnownFrontier(r) == r.strict /\ r.total = Count(current) /\ r.items # {} /\ r.items \subseteq current

\* _strict_expected_total and _subscription_partial_scan_context: fewer than the
\* site told of; for lists of favourites, also far fewer than are tracked.
TooFew(r) == r.strict /\ Count(r.items) < r.total
HistoryDrop(r) ==
    /\ kind # "author" /\ Count(tracked) >= MinTracked
    /\ Count(r.items) < Larger(5, Count(tracked) \div 2)

\* A partial result changes nothing but a record that tracks nothing yet.
Judge(r) ==
    /\ Ends
    /\ IF TooFew(r) \/ HistoryDrop(r)
       THEN IF tracked = {} THEN Settled(r.items, FALSE)
                            ELSE current' = tracked /\ UNCHANGED <<tracked, reconciled>>
       ELSE Settled(r.items, TRUE)

\* The end of discover_source for the probe or for the whole scan.
FullScan == [NoScan EXCEPT !.at = "first", !.budget = MaxPages]
Deliver(r) ==
    IF ~ scan.probe THEN Judge(r)
    ELSE /\ IF KnownFrontier(r) THEN Ends /\ Settled(current, FALSE)
            ELSE scan' = FullScan /\ UNCHANGED <<record, absent>>

\* The sync ends with an error, or the source is not even asked.
ScanFails ==
    /\ scan.at \in {"first", "page", "html"} /\ Missed
    /\ scan.pages = 0 /\ Ends
    /\ UNCHANGED <<kind, listed, record, changes>>

-----------------------------------------------------------------------------
(* The routes of discover_source                                           *)

ProbeIsDue == kind = "author" /\ current # {}                               \* mutant
MayProbe == kind = "author" /\ current # {} /\ reconciled
StartScan ==
    /\ ScanIs("none")
    /\ absent' = Listable \ Models(listed)
    /\ \/ MayProbe /\ scan' = [FullScan EXCEPT !.probe = TRUE, !.budget = 1]
       \/ scan' = FullScan
    /\ UNCHANGED <<kind, listed, record, changes, misses>>

\* The page of all favourites tells how many there are, when it can be read.
FetchPageTotal ==
    /\ ScanIs("first")
    /\ \/ scan' = [scan EXCEPT !.at = "page", !.pageTotal = IF kind = "favourites" THEN Len(listed) ELSE 0]
          /\ UNCHANGED misses
       \/ /\ kind = "favourites" /\ Missed
          /\ scan' = [scan EXCEPT !.at = "page"]
    /\ UNCHANGED <<kind, listed, record, absent, changes>>

\* _apply_collection_page_expected_total
Told(r) == IF scan.pageTotal > 0 THEN [r EXCEPT !.total = scan.pageTotal, !.strict = TRUE] ELSE r
\* _discovery_is_complete
IsWhole(r) ==
    /\ r.items # {}
    /\ LET expected == IF scan.pageTotal > 0 THEN scan.pageTotal ELSE r.total
       IN Count(r.items) >= expected
\* _better_discovery_result: whole, then near to the page's total, then large, then
\* of the larger total; the earlier of two equals.
Distance(r) ==
    IF Count(r.items) > scan.pageTotal THEN Count(r.items) - scan.pageTotal ELSE scan.pageTotal - Count(r.items)
Beats(b, a) ==
    LET known == scan.pageTotal > 0
        whole(r) == Count(r.items) >= scan.pageTotal
    IN IF known /\ whole(a) # whole(b) THEN whole(b)
       ELSE IF known /\ Distance(a) # Distance(b) THEN Distance(b) < Distance(a)
       ELSE IF Count(a.items) # Count(b.items) THEN Count(b.items) > Count(a.items)
       ELSE b.total > a.total
Better(a, b) == IF b.items = {} THEN a ELSE IF a.items = {} \/ Beats(b, a) THEN b ELSE a

\* A route of its own ends; the result of an author or a collection is the end.
\* _discover_collection_with_fallbacks: the favourites twice, then by folders, then
\* as the site shows them; a collection that tells nothing goes the same way.
Fresh(place) == [scan EXCEPT !.at = place, !.offset = 0, !.pages = 0, !.budget = MaxPages, !.found = {}, !.total = 0]
RouteEnds(r) ==
    LET best == Better(scan.best, r)
        goOn(place) == scan' = [Fresh(place) EXCEPT !.best = best] /\ UNCHANGED <<record, absent>>
    IN CASE ScanIs("page") /\ kind = "author" -> IF r.items = {} THEN goOn("html") ELSE Deliver(r)
         [] ScanIs("page") /\ kind = "collection" -> IF r.items = {} THEN goOn("html") ELSE Judge(r)
         [] OTHER ->
              IF IsWhole(best) THEN Judge(Told(best))
              ELSE CASE ScanIs("page") /\ scan.pageTotal > 0 -> goOn("again")
                     [] ScanIs("page") /\ scan.pageTotal = 0 -> goOn("folder")
                     [] ScanIs("again") -> goOn("folder")
                     [] ScanIs("folder") -> goOn("html")

(***************************************************************************)
(* One page: _discover_author_upload_api, _discover_collection_models_api, *)
(* _discover_collection_detail_models_api,                                 *)
(* _discover_collection_models_by_lists.  The budget of a collection grows *)
(* with the number told.  By folders it is the number told first.  An      *)
(* author without models ends the scan there.                              *)
(***************************************************************************)
Paging == scan.at \in {"page", "again", "folder"}
Budget(size) ==
    IF kind = "author" THEN scan.budget
    ELSE Larger(scan.budget, 1 + (Len(listed) + size - 1) \div size)
ToldSoFar == IF (ScanIs("folder") \/ listed = <<>>) /\ scan.pages > 0 THEN scan.total ELSE Len(listed)
\* A page behind the first on which no form of the request shows anything new.
Repeats(hits) == scan.offset > 0 /\ hits \subseteq scan.found
IsLast(hits, budget) ==
    \/ hits = {} \/ Count(scan.found \cup hits) >= ToldSoFar
    \/ Repeats(hits) \/ Count(hits) < Limit \/ scan.pages + 1 >= budget
ReadPage ==
    /\ Paging
    /\ LET hits   == PageAt(scan.offset)
           size   == Larger(Count(hits), 1)
           found  == scan.found \cup hits
           result == [items |-> found, total |-> ToldSoFar, strict |-> listed # <<>>]
       IN IF IsLast(hits, Budget(size))
          THEN IF kind = "author" /\ found = {} THEN Deliver(result) ELSE RouteEnds(result)
          ELSE /\ scan' = [scan EXCEPT !.offset = @ + size, !.pages = @ + 1, !.budget = Budget(size),
                                       !.found = found, !.total = ToldSoFar]
               /\ UNCHANGED <<record, absent>>
    /\ UNCHANGED <<kind, listed, changes, misses>>
\* A page fails: what was found so far is a result that names a total which nobody
\* compares; without any, the route ends with nothing.
PageFails ==
    /\ Paging /\ Missed
    /\ RouteEnds([items |-> scan.found, total |-> scan.total,
                  strict |-> ScanIs("folder") /\ scan.total > 0])
    /\ UNCHANGED <<kind, listed, changes>>

\* _discover_by_html: the pages that the site shows end anywhere.
ReadHtml ==
    /\ ScanIs("html") /\ listed # <<>>
    /\ \E n \in 1 .. Len(listed) :
          LET shown == [Nothing EXCEPT !.items = Models(SubSeq(listed, 1, n))]
          IN IF kind = "author" THEN Deliver(shown) ELSE Judge(Told(Better(scan.best, shown)))
    /\ UNCHANGED <<kind, listed, changes, misses>>
\* It shows no model: favourites that were found otherwise are taken, or the sync
\* ends with an error.
HtmlIsEmpty ==
    /\ ScanIs("html") /\ (listed = <<>> \/ misses > 0)
    /\ misses' = IF listed = <<>> THEN misses ELSE misses - 1
    /\ IF scan.best.items # {} THEN Judge(Told(scan.best)) ELSE Ends /\ UNCHANGED record
    /\ UNCHANGED <<kind, listed, changes>>

-----------------------------------------------------------------------------
ScanStep == FetchPageTotal \/ ReadPage \/ PageFails \/ ReadHtml \/ HtmlIsEmpty \/ ScanFails
ScanNext ==
    \/ \E k \in Listable : ListModel(k) \/ UnlistModel(k)
    \/ DayPasses \/ StartScan \/ ScanStep
ScanSpec == ScanInit /\ [][ScanNext]_listVars

\* The subscription is due again and again, its sync goes on, and days pass.
ScanFair == WF_listVars(StartScan) /\ WF_listVars(ScanStep) /\ WF_listVars(DayPasses)
ScanFairSpec == ScanSpec /\ ScanFair

-----------------------------------------------------------------------------
\* Every variable has its type.
ScanTypeOK ==
    /\ Models(listed) \cup current \cup tracked \cup absent \subseteq Listable
    /\ scan.at \in {"none", "first", "page", "again", "folder", "html"}
    /\ scan.found \cup scan.best.items \subseteq Listable
    /\ changes \in 0 .. Changes /\ misses \in 0 .. Misses

(***************************************************************************)
(* What a subscription shows of its source settles: whatever pages failed  *)
(* and however the list moved under a scan, when the list has come to rest *)
(* the current models are at last those on it, no more and no less, unless *)
(* it is empty: an empty collection is taken for a failed scan.            *)
(***************************************************************************)
ScanSettles == <>[](listed = <<>> \/ current = Models(listed))

(***************************************************************************)
(* docs/modules/remote_refresh.md:68: a scan that missed a model does not  *)
(* show it as deleted at its source.                                       *)
(***************************************************************************)
Deleted == IF kind = "author" THEN tracked \ current ELSE {}
OnlyGoneIsDeleted == [][Deleted' \ Deleted \subseteq absent]_listVars
=============================================================================
