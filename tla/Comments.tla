------------------------------ MODULE Comments ------------------------------
(***************************************************************************)
(* The comments of a model: an archive run reads the pages of the list and *)
(* the replies that are missing, merges them with what meta.json has and   *)
(* stores the result (collect_comments); a source refresh merges that with *)
(* what was stored before it once more and threads it                      *)
(* (_finalize_refreshed_meta); whoever opens the model threads what is     *)
(* stored for display (catalog.py).                                        *)
(*                                                                         *)
(* A thread is a comment, its root, and the replies to it.  A site lists   *)
(* the replies within their root, behind it with its id, behind it with    *)
(* only the name they answer to, or not at all: then they must be asked    *)
(* for.  The text, the pictures and the likes of a comment, the order of   *)
(* the replies under a root and placeholders without content are left out, *)
(* and so are lists of more than 250 pages and roots with more than five   *)
(* pages of replies.  One job at a time works on a model here; two at once *)
(* are the subject of the module ThreeMf.                                  *)
(***************************************************************************)
EXTENDS Naturals, Sequences, FiniteSets, SequencesExt

CONSTANTS
    Threads,        \* the threads below a model
    PerThread,      \* a bound: replies of a thread
    CommentPage,    \* _COMMENT_LIST_PAGE_LIMIT
    Edits,          \* a bound: comments written and deleted on the site
    Slips           \* a bound: pages that fail and jobs that die

ASSUME CommentsAssumption ==
    /\ IsFiniteSet(Threads) /\ {PerThread, Edits, Slips} \subseteq Nat /\ CommentPage \in Nat \ {0}

VARIABLES
    board,      \* the threads on the site, the newest first
    answers,    \* the replies on the site
    style,      \* how its list gives replies, and whether it tells its total
    kept,       \* the comments of meta.json
    collect,    \* the job that works on the model
    edits, slips

commentVars == <<board, answers, style, kept, collect, edits, slips>>

\* The comment <<t, 0>> is the root of thread t, the others are replies to it.
Comment == Threads \X (0 .. PerThread)
RootOf(c) == <<c[1], 0>>
IsReply(c) == c # RootOf(c)
NoComment == <<>>

\* What is kept of a comment: rootCommentId, replyCount and its replies.
Item(c, root, count, replies) == [id |-> c, root |-> root, count |-> count, replies |-> replies]
ReplyItem(c, root) == Item(c, root, 0, {})
Counted(item, count) == [item EXCEPT !.count = Max({Cardinality(item.replies), item.count, count})]
WithReplies(item, more) == Counted([item EXCEPT !.replies = @ \cup more], 0)
Free(item) == item.count > Cardinality(item.replies)
Place(items, c) == CHOOSE i \in DOMAIN items : items[i].id = c
Has(items, c) == \E i \in DOMAIN items : items[i].id = c
Ids(items) == UNION {{items[i].id} \cup items[i].replies : i \in DOMAIN items}

\* _merge_threaded_comment_list: what comes later has the last word, in the place of the first.
MergeItem(old, new) ==
    Counted([old EXCEPT !.root = IF new.root = NoComment THEN @ ELSE new.root, !.replies = @ \cup new.replies],
            new.count)
WithItem(list, item) ==
    IF Has(list, item.id) THEN [list EXCEPT ![Place(list, item.id)] = MergeItem(@, item)] ELSE Append(list, item)
Merging(items) ==
    LET list[n \in 0 .. Len(items)] == IF n = 0 THEN <<>> ELSE WithItem(list[n - 1], items[n])
    IN list
MergeList(old, new) == Merging(old \o new)[Len(old \o new)]

-----------------------------------------------------------------------------
(* normalize_threaded_comments                                             *)

NoThreads == [roots |-> <<>>, pending |-> {}, last |-> NoComment]

\* The root that a reply without the id of its root is taken to answer.
Fallback(roots, c) == IF Free(roots[Place(roots, c)]) THEN c ELSE NoComment
AddReply(done, key, reply) ==
    IF Has(done.roots, key)
    THEN LET roots == [done.roots EXCEPT ![Place(done.roots, key)] = WithReplies(@, {reply.id} \cup reply.replies)]
         IN [done EXCEPT !.roots = roots, !.last = Fallback(roots, key)]
    ELSE [done EXCEPT !.pending = @ \cup {[key |-> key, reply |-> reply]}]
AddRoot(done, item) ==
    LET waiting == {p \in done.pending : p.key = item.id}
        answered == WithReplies(item, {p.reply.id : p \in waiting})
        roots == MergeList(done.roots, <<answered>>)
    IN [roots |-> roots, pending |-> done.pending \ waiting, last |-> Fallback(roots, item.id)]
ThreadItem(done, item) ==
    IF item.root \notin {NoComment, item.id} THEN AddReply(done, item.root, item)
    ELSE IF done.last \notin {NoComment, item.id} /\ IsReply(item.id) THEN AddReply(done, done.last, item)
    ELSE AddRoot(done, item)
\* Replies whose root never came are kept, each as a root of its own.
Rooting(start, left) ==
    LET done[n \in 0 .. Len(left)] == IF n = 0 THEN start ELSE AddRoot(done[n - 1], left[n])
    IN done
WithPending(done) ==
    LET left == SetToSeq({p.reply : p \in done.pending})
    IN Rooting(done, left)[Len(left)].roots
Threading(items) ==
    LET done[n \in 0 .. Len(items)] == IF n = 0 THEN NoThreads ELSE ThreadItem(done[n - 1], items[n])
    IN done
Threaded(items) == WithPending(Threading(items)[Len(items)])

-----------------------------------------------------------------------------
(* The site                                                                *)

RepliesTo(c) == {a \in answers : RootOf(a) = c}
NamedRoot(c) == IF style.replies = "flat" THEN c ELSE NoComment
Listed(t) ==
    LET root == <<t, 0>>
        there == RepliesTo(root)
        within == IF style.replies = "nested" THEN there ELSE {}
        behind == IF style.replies \in {"flat", "named"} THEN SetToSeq(there) ELSE <<>>
    IN <<Item(root, NoComment, Cardinality(there), within)>>
       \o [i \in DOMAIN behind |-> ReplyItem(behind[i], NamedRoot(root))]
Listing ==
    LET list[n \in 0 .. Len(board)] == IF n = 0 THEN <<>> ELSE list[n - 1] \o Listed(board[n])
    IN list
List == Listing[Len(board)]
OnSite(c) == c[1] \in Range(board) /\ (IsReply(c) => c \in answers)

WriteComment(t) ==
    /\ edits > 0 /\ edits' = edits - 1
    /\ IF t \in Range(board)
       THEN \E a \in Comment : a[1] = t /\ IsReply(a) /\ a \notin answers /\ answers' = answers \cup {a}
                               /\ UNCHANGED board
       ELSE board' = <<t>> \o board /\ UNCHANGED answers
    /\ UNCHANGED <<style, kept, collect, slips>>
DeleteComment(c) ==
    /\ edits > 0 /\ edits' = edits - 1 /\ OnSite(c)
    /\ IF IsReply(c) THEN answers' = answers \ {c} /\ UNCHANGED board
                     ELSE /\ answers' = answers \ RepliesTo(c)
                          /\ \E n \in DOMAIN board : board[n] = c[1] /\ board' = RemoveAt(board, n)
    /\ UNCHANGED <<style, kept, collect, slips>>

-----------------------------------------------------------------------------
(* A job: collect_comments, and the end of a refresh                       *)

NoCollect == [at |-> "no", refresh |-> FALSE, existing |-> <<>>, fetched |-> <<>>, offset |-> 0, total |-> 0]

StartCollect(refresh) ==
    /\ collect.at = "no"
    /\ collect' = [NoCollect EXCEPT !.at = "pages", !.refresh = refresh, !.existing = kept]
    /\ UNCHANGED <<board, answers, style, kept, edits, slips>>

PageOf(offset) == SubSeq(List, offset + 1, Min({offset + CommentPage, Len(List)}))
TotalTold == IF style.told THEN Len(List) ELSE 0
\* _fetch_paginated_comment_list: until as many are read as were told, or a page is short.
ReadCommentPage ==
    /\ collect.at = "pages"
    /\ LET page == PageOf(collect.offset)
           offset == collect.offset + Len(page)
           total == Max({collect.total, TotalTold})
           ends == page = <<>> \/ (IF total > 0 THEN offset >= total ELSE Len(page) < CommentPage)
       IN collect' = [collect EXCEPT !.at = IF ends THEN "replies" ELSE "pages", !.offset = offset,
                                     !.total = total, !.fetched = MergeList(@, Threaded(page))]
    /\ UNCHANGED <<board, answers, style, kept, edits, slips>>
\* What was read is taken for what there is.
CommentPageFails ==
    /\ collect.at = "pages" /\ slips > 0 /\ slips' = slips - 1
    /\ collect' = [collect EXCEPT !.at = "replies"]
    /\ UNCHANGED <<board, answers, style, kept, edits>>

\* _hydrate_missing_comment_replies: a root that counts more replies than it has is asked
\* for, unless its replies were not given.
AskNew(item) == item.count > 0 /\ item.replies = {}                         \* mutant
Asked(item) == item.count > Cardinality(item.replies)
Hydrated(items, refused) ==
    [i \in DOMAIN items |-> IF Asked(items[i]) /\ items[i].id \notin refused
                            THEN WithReplies(items[i], RepliesTo(items[i].id))
                            ELSE items[i]]
FreshOnes(existing, fetched) == IF fetched = <<>> THEN existing ELSE fetched  \* mutant
Collected(existing, fetched) == MergeList(existing, fetched)
StoreCollected ==
    /\ collect.at = "replies"
    /\ \E refused \in SUBSET {<<t, 0>> : t \in Threads} :
          /\ Cardinality(refused) <= slips /\ slips' = slips - Cardinality(refused)
          /\ kept' = Hydrated(Collected(collect.existing, collect.fetched), refused)
    /\ collect' = IF collect.refresh THEN [collect EXCEPT !.at = "finalize"] ELSE NoCollect
    /\ UNCHANGED <<board, answers, style, edits>>

\* remote_refresh.py merges by itself: the fresh ones first, and what was stored has the
\* last word, on the count of replies also when there are none.
RefreshItem(fresh, existing) ==
    LET both == MergeItem(fresh, existing)
    IN IF both.replies = {} THEN [both EXCEPT !.count = existing.count] ELSE both
Refreshed(existing, fresh) ==
    [i \in DOMAIN fresh |-> IF Has(existing, fresh[i].id)
                            THEN RefreshItem(fresh[i], existing[Place(existing, fresh[i].id)])
                            ELSE fresh[i]]
MergingStored(existing, fresh) ==
    LET list[n \in 0 .. Len(existing)] ==
            IF n = 0 THEN Refreshed(existing, fresh)
            ELSE IF Has(fresh, existing[n].id) THEN list[n - 1] ELSE Append(list[n - 1], existing[n])
    IN list
MergeComments(existing, fresh) == MergingStored(existing, fresh)[Len(existing)]
FinalizeRefreshed ==
    /\ collect.at = "finalize" /\ collect' = NoCollect
    /\ kept' = Threaded(MergeComments(collect.existing, kept))
    /\ UNCHANGED <<board, answers, style, edits, slips>>

JobDies ==
    /\ collect.at # "no" /\ slips > 0 /\ slips' = slips - 1 /\ collect' = NoCollect
    /\ UNCHANGED <<board, answers, style, kept, edits>>

\* _thread_normalized_comments of catalog.py, a second copy of the same rules.
Shown(items) == Threaded(items)

-----------------------------------------------------------------------------
\* The first run finds a site that has comments, or none yet.
CommentsInit ==
    /\ board \in {<<>>, SetToSeq(Threads)}
    /\ answers = {c \in Comment : c[2] = 1 /\ c[1] \in Range(board)}
    /\ kept = <<>> /\ collect = NoCollect
    /\ style \in [replies : {"nested", "flat", "named", "apart"}, told : BOOLEAN]
    /\ edits = Edits /\ slips = Slips

CommentsNext ==
    \/ \E t \in Threads : WriteComment(t)
    \/ \E c \in Comment : DeleteComment(c)
    \/ \E refresh \in BOOLEAN : StartCollect(refresh)
    \/ ReadCommentPage \/ StoreCollected \/ FinalizeRefreshed \/ CommentPageFails \/ JobDies
CommentsSpec == CommentsInit /\ [][CommentsNext]_commentVars

\* A model is refreshed again and again, and every job ends.
JobsEnd == []<>(collect.at = "no")
CommentsFair == WF_commentVars(StartCollect(TRUE)) /\ JobsEnd
CommentsFairSpec == CommentsSpec /\ CommentsFair

-----------------------------------------------------------------------------
\* Every variable has its type; a comment is the root of at most one thread.
ItemType == [id : Comment, root : Comment \cup {NoComment}, count : Nat, replies : SUBSET Comment]
CommentsTypeOK ==
    /\ Range(board) \subseteq Threads /\ IsInjective(board) /\ answers \subseteq Comment
    /\ Range(kept) \cup Range(collect.fetched) \subseteq ItemType
    /\ \A i, j \in DOMAIN kept : kept[i].id = kept[j].id => i = j
    /\ collect.at \in {"no", "pages", "replies", "finalize"}
    /\ edits \in 0 .. Edits /\ slips \in 0 .. Slips

(***************************************************************************)
(* docs/modules/remote_refresh.md:67, "merging keeps the replies there     *)
(* are, and the number of comments must not go back": whatever pages fail, *)
(* and whatever is deleted on the site, a comment that is stored is shown and  *)
(* stays stored, and a reply below a root stays below it.                  *)
(***************************************************************************)
Below(items) == UNION {{<<items[i].id, a>> : a \in items[i].replies} : i \in DOMAIN items}
CommentsKept ==
    [][Ids(kept) \subseteq Ids(Shown(kept)) \cap Ids(kept') /\ Below(kept) \subseteq Below(kept')]_commentVars

(***************************************************************************)
(* The same line, "and adds what is new": when the site has come to rest,  *)
(* all its comments are stored at last, unless a reply's root holds as     *)
(* many as the site counts, because a reply that was archived is gone.     *)
(***************************************************************************)
Hidden(c) ==
    /\ IsReply(c) /\ Has(kept, RootOf(c))
    /\ LET root == kept[Place(kept, RootOf(c))]
       IN Max({root.count, Cardinality(RepliesTo(RootOf(c)))}) <= Cardinality(root.replies)
NewCommentsArrive == <>[](\A c \in Comment : OnSite(c) => c \in Ids(kept) \/ Hidden(c))
=============================================================================
