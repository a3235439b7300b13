--------------------------- MODULE Library_proofs ---------------------------
(***************************************************************************)
(* Theorems about the archived models: the comments that are kept of them, *)
(* the index of their rows, the scans of their sources, and the local      *)
(* models with their previews, for every number of models, threads, files  *)
(* and images, and for every bound.                                        *)
(***************************************************************************)
EXTENDS MCLibrary, FiniteSetTheorems, SequenceTheorems, TLAPS

(***************************************************************************)
(* Induction over the first natural numbers, as a statement about sets.    *)
(***************************************************************************)
LEMMA LeastOf == ASSUME NEW S, S \subseteq Nat, S # {} PROVE \E n \in S : \A k \in S : ~ (k < n)
  <1> DEFINE Initial == {1 .. n : n \in S}
  <1>1. Initial \subseteq FiniteSubsetsOf(Nat) /\ Initial # {}
    <2>1. \A n \in S : 1 .. n \subseteq Nat /\ IsFiniteSet(1 .. n)
      BY FS_Interval
    <2> QED BY <2>1 DEF FiniteSubsetsOf
  <1>2. \E x \in Initial : \A y \in Initial : ~ (<<y, x>> \in StrictSubsetOrdering(Nat))
    BY <1>1, FS_StrictSubsetOrderingWellFounded, WFMin
  <1>3. PICK n \in S : \A y \in Initial : ~ (<<y, 1 .. n>> \in StrictSubsetOrdering(Nat))
    BY <1>2
  <1>4. ASSUME NEW k \in S, k < n PROVE FALSE
    <2>1. n \in Nat /\ k \in Nat /\ 1 .. k \subseteq 1 .. n /\ n \in 1 .. n /\ n \notin 1 .. k
      BY <1>4
    <2>2. <<1 .. k, 1 .. n>> \in StrictSubsetOrdering(Nat)
      BY <2>1 DEF StrictSubsetOrdering
    <2> QED BY <1>3, <2>2
  <1> QED BY <1>4

LEMMA StepByStep ==
  ASSUME NEW N \in Nat, NEW S, 0 \in S, \A n \in 0 .. N : n < N /\ n \in S => n + 1 \in S
  PROVE  0 .. N \subseteq S
  <1> DEFINE Left == {n \in 0 .. N : n \notin S}
  <1>1. SUFFICES ASSUME Left # {} PROVE FALSE OBVIOUS
  <1>2. PICK n \in Left : \A k \in Left : ~ (k < n)
    <2>1. Left \subseteq Nat
      OBVIOUS
    <2> HIDE DEF Left
    <2> QED BY <1>1, <2>1, LeastOf
  <1>3. n # 0 /\ n - 1 \in 0 .. N /\ n - 1 \in S /\ (n - 1) + 1 = n
    BY <1>2
  <1> QED BY <1>2, <1>3

(***************************************************************************)
(* A run of N steps exists: the recursive functions below are such runs.   *)
(***************************************************************************)
StepFunctions(A, N) == [A \X (1 .. N) -> A]
IsRun(run, A, N, base, step) ==
    run \in [0 .. N -> A] /\ run[0] = base /\ \A n \in 1 .. N : run[n] = step[<<run[n - 1], n>>]
LEMMA RunExists ==
  ASSUME NEW N \in Nat, NEW A, NEW base \in A, NEW step \in StepFunctions(A, N)
  PROVE  \E run : IsRun(run, A, N, base, step)
  <1> DEFINE Run(g, k) == g[0] = base /\ \A n \in 1 .. k : g[n] = step[<<g[n - 1], n>>]
             S == {k \in 0 .. N : \E g \in [0 .. N -> A] : Run(g, k)}
  <1>1. 0 \in S
    <2> DEFINE g == [n \in 0 .. N |-> base]
    <2>1. g \in [0 .. N -> A] /\ g[0] = base /\ 1 .. 0 = {}
      OBVIOUS
    <2> HIDE DEF g
    <2>2. Run(g, 0) /\ 0 \in 0 .. N
      BY <2>1
    <2> QED BY <2>1, <2>2
  <1>2. ASSUME NEW k \in 0 .. N, k < N, k \in S PROVE k + 1 \in S
    <2>1. PICK g \in [0 .. N -> A] : Run(g, k)
      BY <1>2
    <2> DEFINE h == [g EXCEPT ![k + 1] = step[<<g[k], k + 1>>]]
    <2>2. k + 1 \in 1 .. N /\ g[k] \in A /\ h \in [0 .. N -> A] /\ k + 1 \in 0 .. N
      BY <1>2, <2>1 DEF StepFunctions
    <2>3. h[0] = base
      BY <2>1, <1>2
    <2>4. ASSUME NEW n \in 1 .. k + 1 PROVE h[n] = step[<<h[n - 1], n>>]
      <3>1. h[n - 1] = g[n - 1] /\ n \in 0 .. N
        BY <1>2
      <3>2. CASE n = k + 1
        BY <3>1, <3>2, <2>2, <1>2
      <3>3. CASE n # k + 1
        <4>1. n \in 1 .. k /\ h[n] = g[n]
          BY <3>3, <1>2
        <4> QED BY <2>1, <3>1, <4>1
      <3> QED BY <3>2, <3>3
    <2>5. Run(h, k + 1)
      BY <2>3, <2>4
    <2> QED BY <2>2, <2>5
  <1> HIDE DEF S
  <1>3. N \in S
    BY <1>1, <1>2, StepByStep
  <1> QED BY <1>3 DEF S, IsRun

(***************************************************************************)
(* Items.  A sound item is of its own thread, and a reply has none itself. *)
(***************************************************************************)
LEMMA CommentsAreFinite == /\ IsFiniteSet(Comment) /\ NoComment \notin Comment
                           /\ \A S : S \subseteq Comment => IsFiniteSet(S) /\ Cardinality(S) \in Nat
  <1>1. IsFiniteSet(0 .. PerThread)
    BY CommentsAssumption, FS_Interval
  <1>2. IsFiniteSet(Comment)
    BY <1>1, CommentsAssumption, FS_Product DEF Comment
  <1>3. NoComment \notin Comment
    <2>1. \A c \in Comment : c = <<c[1], c[2]>>
      BY DEF Comment
    <2>2. \A x, y : <<x, y>> # <<>>
      OBVIOUS
    <2> QED BY <2>1, <2>2 DEF NoComment
  <1>4. ASSUME NEW S, S \subseteq Comment PROVE IsFiniteSet(S) /\ Cardinality(S) \in Nat
    BY <1>2, <1>4, FS_Subset, FS_CardinalityType
  <1> QED BY <1>2, <1>3, <1>4

LEMMA MaxOfThree == ASSUME NEW a \in Nat, NEW b \in Nat, NEW c \in Nat
                    PROVE  Max({a, b, c}) \in Nat /\ \A x \in {a, b, c} : x <= Max({a, b, c})
  <1>1. \E x \in {a, b, c} : \A y \in {a, b, c} : x >= y
    <2>1. CASE a >= b /\ a >= c BY <2>1
    <2>2. CASE b >= a /\ b >= c BY <2>2
    <2>3. CASE c >= a /\ c >= b BY <2>3
    <2> QED BY <2>1, <2>2, <2>3
  <1> DEFINE x == Max({a, b, c})
  <1>2. x \in {a, b, c} /\ \A y \in {a, b, c} : x >= y
    BY <1>1 DEF Max
  <1> HIDE DEF x
  <1> QED BY <1>2 DEF x

Sound == {x \in ItemType : /\ x.root \in {NoComment, RootOf(x.id)}
                           /\ IsReply(x.id) => x.replies = {} /\ x.count = 0}

LEMMA CountedSound ==
  ASSUME NEW x \in Sound, NEW n \in Nat, IsReply(x.id) => n = 0
  PROVE  /\ Counted(x, n) \in Sound /\ Counted(x, n).id = x.id
         /\ Counted(x, n).root = x.root /\ Counted(x, n).replies = x.replies
  <1>1. /\ x \in [id : Comment, root : Comment \cup {NoComment}, count : Nat, replies : SUBSET Comment]
        /\ x.replies \subseteq Comment
    BY DEF Sound, ItemType
  <1>2. Cardinality(x.replies) \in Nat
    BY <1>1, CommentsAreFinite
  <1> DEFINE top == Max({Cardinality(x.replies), x.count, n})
  <1>3. top \in Nat
    BY <1>1, <1>2, MaxOfThree
  <1>4. IsReply(x.id) => top = 0
    <2>1. SUFFICES ASSUME IsReply(x.id) PROVE top = 0
      OBVIOUS
    <2>2. {Cardinality(x.replies), x.count, n} = {0}
      BY <2>1, FS_EmptySet DEF Sound
    <2> QED BY <2>2 DEF Max
  <1> HIDE DEF top
  <1>5. Counted(x, n) = [x EXCEPT !.count = top]
    BY DEF Counted, top
  <1> QED BY <1>1, <1>3, <1>4, <1>5 DEF Sound, ItemType

LEMMA MoreReplies ==
  ASSUME NEW x \in Sound, NEW S, S \subseteq Comment, S = {} \/ ~ IsReply(x.id)
  PROVE  LET y == WithReplies(x, S)
         IN y \in Sound /\ y.id = x.id /\ y.root = x.root /\ y.replies = x.replies \cup S
  <1> DEFINE z == [x EXCEPT !.replies = @ \cup S]
  <1>1. z \in Sound /\ z.id = x.id /\ z.root = x.root /\ z.replies = x.replies \cup S
    BY DEF Sound, ItemType
  <1> HIDE DEF z
  <1>2. LET y == Counted(z, 0)
        IN y \in Sound /\ y.id = x.id /\ y.root = x.root /\ y.replies = x.replies \cup S
    BY <1>1, CountedSound
  <1> QED BY <1>2 DEF z, WithReplies

LEMMA MergeItemSound ==
  ASSUME NEW old \in Sound, NEW new \in Sound, old.id = new.id
  PROVE  LET y == MergeItem(old, new)
         IN y \in Sound /\ y.id = old.id /\ y.replies = old.replies \cup new.replies
  <1> DEFINE z == [old EXCEPT !.root = IF new.root = NoComment THEN @ ELSE new.root, !.replies = @ \cup new.replies]
  <1>1. z \in Sound /\ z.id = old.id /\ z.replies = old.replies \cup new.replies
    BY DEF Sound, ItemType
  <1>2. new.count \in Nat /\ (IsReply(z.id) => new.count = 0)
    BY <1>1 DEF Sound, ItemType
  <1> HIDE DEF z
  <1>3. LET y == Counted(z, new.count)
        IN y \in Sound /\ y.id = old.id /\ y.replies = old.replies \cup new.replies
    BY <1>1, <1>2, CountedSound
  <1> QED BY <1>3 DEF z, MergeItem

(***************************************************************************)
(* Lists.  A list covers an item when it has it with all of its replies.   *)
(***************************************************************************)
In(list, x) == \E j \in DOMAIN list : list[j].id = x.id /\ x.replies \subseteq list[j].replies
Covers(list, items) == \A i \in DOMAIN items : In(list, items[i])
Apart(list) == \A i, j \in DOMAIN list : list[i].id = list[j].id => i = j
Lists == {list \in Seq(Sound) : Apart(list)}

LEMMA CoversAgain ==
  ASSUME NEW a, NEW b, NEW x, Covers(b, a), In(a, x)
  PROVE  In(b, x)
  BY DEF Covers, In
LEMMA CoversItself == ASSUME NEW a PROVE Covers(a, a)
  BY DEF Covers, In
LEMMA CoveredIds ==
  ASSUME NEW a, NEW b, Covers(b, a)
  PROVE  Ids(a) \subseteq Ids(b) /\ Below(a) \subseteq Below(b)
  BY DEF Covers, In, Ids, Below

LEMMA PlaceOf ==
  ASSUME NEW list, NEW c, Has(list, c)
  PROVE  Place(list, c) \in DOMAIN list /\ list[Place(list, c)].id = c
  BY DEF Has, Place

\* An item of a list is replaced by one that has more replies.
LEMMA Replaced ==
  ASSUME NEW list \in Lists, NEW k \in DOMAIN list, NEW y \in Sound, y.id = list[k].id,
         list[k].replies \subseteq y.replies
  PROVE  LET new == [list EXCEPT ![k] = y]
         IN new \in Lists /\ Covers(new, list) /\ In(new, y) /\ DOMAIN new = DOMAIN list
            /\ \A n \in DOMAIN list : new[n].id = list[n].id
  <1> DEFINE new == [list EXCEPT ![k] = y]
  <1>1. list \in Seq(Sound) /\ Apart(list)
    BY DEF Lists
  <1>2. DOMAIN new = DOMAIN list /\ \A n \in DOMAIN list : new[n] = IF n = k THEN y ELSE list[n]
    OBVIOUS
  <1>3. new \in Seq(Sound)
    BY <1>1, ExceptSeq, LenProperties
  <1> HIDE DEF new
  <1>4. \A n \in DOMAIN list : new[n].id = list[n].id /\ list[n].replies \subseteq new[n].replies
    BY <1>2
  <1>5. Apart(new)
    BY <1>1, <1>2, <1>4 DEF Apart
  <1>6. Covers(new, list)
    BY <1>2, <1>4 DEF Covers, In
  <1>7. In(new, y)
    BY <1>2 DEF In
  <1> QED BY <1>2, <1>3, <1>4, <1>5, <1>6, <1>7 DEF Lists, new

LEMMA Appended ==
  ASSUME NEW list \in Lists, NEW x \in Sound, ~ Has(list, x.id)
  PROVE  /\ Append(list, x) \in Lists /\ Covers(Append(list, x), list) /\ In(Append(list, x), x)
         /\ \A c : Has(Append(list, x), c) <=> Has(list, c) \/ c = x.id
  <1> DEFINE new == Append(list, x)
  <1>1. list \in Seq(Sound) /\ Apart(list) /\ DOMAIN list = 1 .. Len(list) /\ Len(list) \in Nat
    BY LenProperties DEF Lists
  <1>2. /\ new \in Seq(Sound) /\ DOMAIN new = 1 .. Len(list) + 1 /\ new[Len(list) + 1] = x
        /\ \A n \in DOMAIN list : new[n] = list[n]
    BY <1>1, AppendProperties, LenProperties
  <1> HIDE DEF new
  <1>3. DOMAIN new = DOMAIN list \cup {Len(list) + 1} /\ Len(list) + 1 \notin DOMAIN list
    BY <1>1, <1>2
  <1>4. Apart(new)
    BY <1>1, <1>2, <1>3 DEF Apart, Has
  <1>5. Covers(new, list) /\ In(new, x)
    BY <1>2, <1>3 DEF Covers, In
  <1>6. \A c : Has(new, c) <=> Has(list, c) \/ c = x.id
    BY <1>2, <1>3 DEF Has
  <1> QED BY <1>2, <1>4, <1>5, <1>6 DEF Lists, new

LEMMA WithItemKeeps ==
  ASSUME NEW list \in Lists, NEW x \in Sound
  PROVE  WithItem(list, x) \in Lists /\ Covers(WithItem(list, x), list) /\ In(WithItem(list, x), x)
  <1>1. CASE Has(list, x.id)
    <2> DEFINE k == Place(list, x.id)
    <2>1. k \in DOMAIN list /\ list[k].id = x.id /\ list[k] \in Sound
      BY <1>1, PlaceOf, ElementOfSeq, LenProperties DEF Lists
    <2> DEFINE y == MergeItem(list[k], x)
    <2>2. y \in Sound /\ y.id = list[k].id /\ y.replies = list[k].replies \cup x.replies
      BY <2>1, MergeItemSound
    <2>3. WithItem(list, x) = [list EXCEPT ![k] = y]
      BY <1>1 DEF WithItem
    <2> HIDE DEF k, y
    <2>4. LET new == [list EXCEPT ![k] = y] IN new \in Lists /\ Covers(new, list) /\ In(new, y)
      BY <2>1, <2>2, Replaced
    <2> QED BY <2>1, <2>2, <2>3, <2>4 DEF In
  <1>2. CASE ~ Has(list, x.id)
    BY <1>2, Appended DEF WithItem
  <1> QED BY <1>1, <1>2

LEMMA NoItems == <<>> \in Lists
  BY EmptySeq DEF Lists, Apart

\* _merge_threaded_comment_list: it is a list without doubles that covers all it was made of.
LEMMA MergingRuns ==
  ASSUME NEW items \in Seq(Sound)
  PROVE  Merging(items)[Len(items)] \in Lists /\ Covers(Merging(items)[Len(items)], items)
  <1> DEFINE N == Len(items)
             step == [x \in Lists \X (1 .. N) |-> WithItem(x[1], items[x[2]])]
             M == Merging(items)
  <1>1. N \in Nat /\ DOMAIN items = 1 .. N /\ \A n \in 1 .. N : items[n] \in Sound
    BY LenProperties, ElementOfSeq
  <1>2. step \in StepFunctions(Lists, N)
    BY <1>1, WithItemKeeps DEF StepFunctions
  <1>3. PICK run : IsRun(run, Lists, N, <<>>, step)
    <2> HIDE DEF N, step
    <2> QED BY <1>1, <1>2, NoItems, RunExists
  <1>4. run = [n \in 0 .. N |-> IF n = 0 THEN <<>> ELSE WithItem(run[n - 1], items[n])]
    <2>1. ASSUME NEW n \in 1 .. N PROVE run[n] = WithItem(run[n - 1], items[n])
      <3>1. n - 1 \in 0 .. N /\ run[n - 1] \in Lists
        BY <1>1, <1>3 DEF IsRun
      <3> QED BY <1>3, <3>1 DEF IsRun
    <2> HIDE DEF step
    <2> QED BY <1>1, <1>3, <2>1 DEF IsRun
  <1>5. M = [n \in 0 .. N |-> IF n = 0 THEN <<>> ELSE WithItem(M[n - 1], items[n])]
    BY <1>4 DEF Merging
  <1> HIDE DEF M, N, step
  <1> DEFINE S == {n \in 0 .. N : M[n] \in Lists /\ \A i \in 1 .. n : In(M[n], items[i])}
  <1>6. 0 \in S
    BY <1>1, <1>5, NoItems
  <1>7. ASSUME NEW n \in 0 .. N, n < N, n \in S PROVE n + 1 \in S
    <2>1. n + 1 \in 1 .. N /\ n + 1 # 0 /\ (n + 1) - 1 = n
      BY <1>1, <1>7
    <2>2. M[n + 1] = WithItem(M[n], items[n + 1])
      BY <1>5, <2>1
    <2>3. M[n + 1] \in Lists /\ Covers(M[n + 1], M[n]) /\ In(M[n + 1], items[n + 1])
      BY <1>1, <1>7, <2>1, <2>2, WithItemKeeps
    <2>4. ASSUME NEW i \in 1 .. n + 1 PROVE In(M[n + 1], items[i])
      <3>1. CASE i = n + 1 BY <2>3, <3>1
      <3>2. CASE i \in 1 .. n BY <1>7, <2>3, <3>2, CoversAgain
      <3> QED BY <2>1, <3>1, <3>2
    <2> QED BY <2>1, <2>3, <2>4
  <1> HIDE DEF S
  <1>8. N \in S
    BY <1>1, <1>6, <1>7, StepByStep
  <1> QED BY <1>1, <1>8 DEF S, Covers, M, N

(***************************************************************************)
(* Threads.  While a list is threaded every item met so far is a root with *)
(* its replies, a reply of a root, or waits for its root.                  *)
(***************************************************************************)
Roots == {c \in Comment : ~ IsReply(c)}
Replies == {x \in Sound : IsReply(x.id)}
Threadings ==
    {d \in [roots : Lists, pending : SUBSET [key : Roots, reply : Replies], last : Roots \cup {NoComment}] :
        IsFiniteSet(d.pending) /\ (d.last # NoComment => Has(d.roots, d.last))}
Held(d, x) ==
    \/ In(d.roots, x)
    \/ IsReply(x.id) /\ (x.id \in Ids(d.roots) \/ \E p \in d.pending : p.reply = x)
Carries(new, d) ==
    /\ new \in Threadings
    /\ \A x : Held(d, x) => Held(new, x)

LEMMA FallbackType ==
  ASSUME NEW roots \in Lists, NEW c \in Comment, Has(roots, c)
  PROVE  Fallback(roots, c) \in Roots \cup {NoComment}
         /\ (Fallback(roots, c) # NoComment => Fallback(roots, c) = c)
  <1> DEFINE x == roots[Place(roots, c)]
  <1>1. x \in Sound /\ x.id = c
    BY PlaceOf, ElementOfSeq, LenProperties DEF Lists
  <1> HIDE DEF x
  <1>2. IsReply(c) => ~ Free(x)
    BY <1>1, FS_EmptySet DEF Free, Sound
  <1> QED BY <1>1, <1>2 DEF Fallback, Roots, x

LEMMA HeldCovers ==
  ASSUME NEW d, NEW new, Covers(new.roots, d.roots), NEW x, Held(d, x),
         \A p \in d.pending : p \in new.pending \/ p.reply.id \in Ids(new.roots)
  PROVE  Held(new, x)
  BY CoversAgain, CoveredIds DEF Held

LEMMA AddReplyKeeps ==
  ASSUME NEW d \in Threadings, NEW key \in Roots, NEW x \in Replies
  PROVE  Carries(AddReply(d, key, x), d) /\ Held(AddReply(d, key, x), x)
  <1>1. /\ d.roots \in Lists /\ d.pending \in SUBSET [key : Roots, reply : Replies] /\ IsFiniteSet(d.pending)
        /\ d.last \in Roots \cup {NoComment} /\ (d.last # NoComment => Has(d.roots, d.last))
        /\ x \in Sound /\ IsReply(x.id) /\ x.replies = {} /\ x.id \in Comment /\ key \in Comment
    BY DEF Threadings, Replies, Sound, ItemType, Roots
  <1>2. CASE Has(d.roots, key)
    <2> DEFINE k == Place(d.roots, key)
               old == d.roots[k]
               more == {x.id} \cup x.replies
               y == WithReplies(old, more)
               roots == [d.roots EXCEPT ![k] = y]
    <2>1. k \in DOMAIN d.roots /\ old.id = key /\ old \in Sound
      BY <1>1, <1>2, PlaceOf, ElementOfSeq, LenProperties DEF Lists
    <2>2. ~ IsReply(old.id) /\ more \subseteq Comment
      BY <1>1, <2>1 DEF Roots
    <2>3. y \in Sound /\ y.id = old.id /\ y.replies = old.replies \cup more
      <3> HIDE DEF old, more
      <3> QED BY <2>1, <2>2, MoreReplies
    <2> HIDE DEF y
    <2>4. /\ roots \in Lists /\ Covers(roots, d.roots) /\ In(roots, y) /\ DOMAIN roots = DOMAIN d.roots
          /\ \A n \in DOMAIN d.roots : roots[n].id = d.roots[n].id
      BY <1>1, <2>1, <2>3, Replaced
    <2> HIDE DEF roots
    <2>5. Has(roots, key)
      BY <2>1, <2>4 DEF Has
    <2> DEFINE new == [d EXCEPT !.roots = roots, !.last = Fallback(roots, key)]
    <2>6. AddReply(d, key, x) = new
      BY <1>2 DEF AddReply, roots, y
    <2>7. Fallback(roots, key) \in Roots \cup {NoComment} /\ (Fallback(roots, key) # NoComment => Fallback(roots, key) = key)
      BY <1>1, <2>4, <2>5, FallbackType
    <2>8. /\ new \in Threadings /\ new.roots = roots /\ new.pending = d.pending
      BY <1>1, <2>4, <2>5, <2>7 DEF Threadings
    <2>9. x.id \in Ids(roots)
      BY <2>3, <2>4 DEF In, Ids
    <2> HIDE DEF new
    <2>10. Held(new, x)
      BY <1>1, <2>8, <2>9 DEF Held
    <2>11. \A z : Held(d, z) => Held(new, z)
      BY <2>4, <2>8, HeldCovers
    <2> QED BY <2>6, <2>8, <2>10, <2>11 DEF Carries
  <1>3. CASE ~ Has(d.roots, key)
    <2> DEFINE p == [key |-> key, reply |-> x]
               new == [d EXCEPT !.pending = @ \cup {p}]
    <2>1. AddReply(d, key, x) = new
      BY <1>3 DEF AddReply
    <2>2. IsFiniteSet(d.pending \cup {p})
      BY <1>1, FS_AddElement
    <2>3. new \in Threadings /\ new.roots = d.roots /\ new.pending = d.pending \cup {p} /\ p.reply = x
      BY <1>1, <2>2 DEF Threadings
    <2> HIDE DEF new, p
    <2>4. Held(new, x)
      BY <1>1, <2>3 DEF Held
    <2>5. \A z : Held(d, z) => Held(new, z)
      BY <2>3, CoversItself, HeldCovers
    <2> QED BY <2>1, <2>3, <2>4, <2>5 DEF Carries
  <1> QED BY <1>2, <1>3

LEMMA OneItem == ASSUME NEW list \in Lists, NEW x \in Sound
                 PROVE  /\ list \o <<x>> \in Seq(Sound) /\ MergeList(list, <<x>>) \in Lists
                        /\ Covers(MergeList(list, <<x>>), list) /\ In(MergeList(list, <<x>>), x)
  <1> DEFINE all == list \o <<x>>
  <1>1. list \in Seq(Sound) /\ <<x>> \in Seq(Sound) /\ Len(<<x>>) = 1
    BY DEF Lists
  <1>2. /\ all \in Seq(Sound) /\ Len(all) = Len(list) + 1
        /\ \A n \in 1 .. Len(list) + 1 : all[n] = IF n <= Len(list) THEN list[n] ELSE <<x>>[n - Len(list)]
    BY <1>1, ConcatProperties
  <1>3. MergeList(list, <<x>>) \in Lists /\ Covers(MergeList(list, <<x>>), all)
    <2> HIDE DEF all
    <2>1. Merging(all)[Len(all)] \in Lists /\ Covers(Merging(all)[Len(all)], all)
      BY <1>2, MergingRuns
    <2> QED BY <2>1 DEF MergeList, all
  <1> HIDE DEF all
  <1>4. /\ DOMAIN list = 1 .. Len(list) /\ Len(list) \in Nat /\ DOMAIN all = 1 .. Len(list) + 1
    BY <1>1, <1>2, LenProperties
  <1>5. all[Len(list) + 1] = x /\ \A n \in DOMAIN list : n \in DOMAIN all /\ all[n] = list[n]
    BY <1>2, <1>4
  <1>6. Len(list) + 1 \in DOMAIN all
    BY <1>4
  <1>7. In(MergeList(list, <<x>>), x)
    BY <1>3, <1>5, <1>6 DEF Covers
  <1>8. Covers(MergeList(list, <<x>>), list)
    BY <1>3, <1>5 DEF Covers
  <1> QED BY <1>2, <1>3, <1>7, <1>8 DEF all

LEMMA AddRootKeeps ==
  ASSUME NEW d \in Threadings, NEW x \in Sound
  PROVE  Carries(AddRoot(d, x), d) /\ In(AddRoot(d, x).roots, x)
         /\ AddRoot(d, x).pending \subseteq d.pending /\ Covers(AddRoot(d, x).roots, d.roots)
  <1>1. /\ d.roots \in Lists /\ d.pending \in SUBSET [key : Roots, reply : Replies] /\ IsFiniteSet(d.pending)
    BY DEF Threadings
  <1> DEFINE waiting == {p \in d.pending : p.key = x.id}
             S == {p.reply.id : p \in waiting}
             y == WithReplies(x, S)
             roots == MergeList(d.roots, <<y>>)
             new == [roots |-> roots, pending |-> d.pending \ waiting, last |-> Fallback(roots, x.id)]
  <1>2. S \subseteq Comment
    BY <1>1 DEF Replies, Sound, ItemType
  <1>3. S = {} \/ ~ IsReply(x.id)
    BY <1>1 DEF Roots
  <1>4. y \in Sound /\ y.id = x.id /\ y.replies = x.replies \cup S /\ x.id \in Comment
    <2>1. x.id \in Comment
      BY DEF Sound, ItemType
    <2> HIDE DEF S
    <2> QED BY <1>2, <1>3, <2>1, MoreReplies
  <1> HIDE DEF y
  <1>5. roots \in Lists /\ Covers(roots, d.roots) /\ In(roots, y)
    BY <1>1, <1>4, OneItem
  <1>6. AddRoot(d, x) = new
    BY DEF AddRoot, y
  <1> HIDE DEF roots
  <1>7. Has(roots, x.id) /\ In(roots, x) /\ S \subseteq Ids(roots)
    BY <1>4, <1>5 DEF In, Has, Ids
  <1>8. Fallback(roots, x.id) \in Roots \cup {NoComment} /\ (Fallback(roots, x.id) # NoComment => Fallback(roots, x.id) = x.id)
    BY <1>4, <1>5, <1>7, FallbackType
  <1>9. IsFiniteSet(d.pending \ waiting)
    BY <1>1, FS_Difference
  <1>10. new \in Threadings
    BY <1>1, <1>5, <1>7, <1>8, <1>9 DEF Threadings
  <1>11. \A p \in d.pending : p \in new.pending \/ p.reply.id \in Ids(new.roots)
    BY <1>7
  <1>12. \A z : Held(d, z) => Held(new, z)
    <2>1. new.roots = roots
      OBVIOUS
    <2> HIDE DEF new
    <2> QED BY <1>5, <1>11, <2>1, HeldCovers
  <1> QED BY <1>5, <1>6, <1>7, <1>10, <1>12 DEF Carries

LEMMA ThreadItemKeeps ==
  ASSUME NEW d \in Threadings, NEW x \in Sound
  PROVE  Carries(ThreadItem(d, x), d) /\ Held(ThreadItem(d, x), x)
  <1>1. x.id \in Comment /\ x.root \in {NoComment, RootOf(x.id)} /\ RootOf(x.id) \in Roots
    BY CommentsAssumption DEF Sound, ItemType, Comment, RootOf, Roots, IsReply
  <1>2. CASE x.root \notin {NoComment, x.id}
    <2>1. x \in Replies /\ x.root \in Roots /\ ThreadItem(d, x) = AddReply(d, x.root, x)
      BY <1>1, <1>2 DEF Replies, IsReply, ThreadItem
    <2> QED BY <2>1, AddReplyKeeps
  <1>3. CASE x.root \in {NoComment, x.id} /\ d.last \notin {NoComment, x.id} /\ IsReply(x.id)
    <2>1. x \in Replies /\ d.last \in Roots /\ ThreadItem(d, x) = AddReply(d, d.last, x)
      BY <1>1, <1>3 DEF Replies, ThreadItem, Threadings
    <2> QED BY <2>1, AddReplyKeeps
  <1>4. CASE x.root \in {NoComment, x.id} /\ ~ (d.last \notin {NoComment, x.id} /\ IsReply(x.id))
    <2>1. ThreadItem(d, x) = AddRoot(d, x)
      BY <1>4 DEF ThreadItem
    <2> QED BY <2>1, AddRootKeeps DEF Held
  <1> QED BY <1>2, <1>3, <1>4

LEMMA KeepsAgain ==
  ASSUME NEW a, NEW b, NEW c, Carries(b, a), Carries(c, b)
  PROVE  Carries(c, a)
  BY DEF Carries

LEMMA NothingThreaded == NoThreads \in Threadings
  BY NoItems, FS_EmptySet DEF NoThreads, Threadings

\* normalize_threaded_comments, up to the replies that wait.
LEMMA ThreadingRuns ==
  ASSUME NEW items \in Seq(Sound)
  PROVE  LET d == Threading(items)[Len(items)]
         IN d \in Threadings /\ \A i \in DOMAIN items : Held(d, items[i])
  <1> DEFINE N == Len(items)
             step == [x \in Threadings \X (1 .. N) |-> ThreadItem(x[1], items[x[2]])]
             M == Threading(items)
  <1>1. N \in Nat /\ DOMAIN items = 1 .. N /\ \A n \in 1 .. N : items[n] \in Sound
    BY LenProperties, ElementOfSeq
  <1>2. step \in StepFunctions(Threadings, N)
    BY <1>1, ThreadItemKeeps DEF StepFunctions, Carries
  <1>3. PICK run : IsRun(run, Threadings, N, NoThreads, step)
    <2> HIDE DEF N, step
    <2> QED BY <1>1, <1>2, NothingThreaded, RunExists
  <1>4. run = [n \in 0 .. N |-> IF n = 0 THEN NoThreads ELSE ThreadItem(run[n - 1], items[n])]
    <2>1. ASSUME NEW n \in 1 .. N PROVE run[n] = ThreadItem(run[n - 1], items[n])
      <3>1. n - 1 \in 0 .. N /\ run[n - 1] \in Threadings
        BY <1>1, <1>3 DEF IsRun
      <3> QED BY <1>3, <3>1 DEF IsRun
    <2> HIDE DEF step
    <2> QED BY <1>1, <1>3, <2>1 DEF IsRun
  <1>5. M = [n \in 0 .. N |-> IF n = 0 THEN NoThreads ELSE ThreadItem(M[n - 1], items[n])]
    BY <1>4 DEF Threading
  <1> HIDE DEF M, N, step
  <1> DEFINE S == {n \in 0 .. N : M[n] \in Threadings /\ \A i \in 1 .. n : Held(M[n], items[i])}
  <1>6. 0 \in S
    BY <1>1, <1>5, NothingThreaded
  <1>7. ASSUME NEW n \in 0 .. N, n < N, n \in S PROVE n + 1 \in S
    <2>1. n + 1 \in 1 .. N /\ n + 1 # 0 /\ (n + 1) - 1 = n
      BY <1>1, <1>7
    <2>2. M[n + 1] = ThreadItem(M[n], items[n + 1])
      BY <1>5, <2>1
    <2>3. Carries(M[n + 1], M[n]) /\ Held(M[n + 1], items[n + 1])
      BY <1>1, <1>7, <2>1, <2>2, ThreadItemKeeps
    <2>4. ASSUME NEW i \in 1 .. n + 1 PROVE Held(M[n + 1], items[i])
      <3>1. CASE i = n + 1 BY <2>3, <3>1
      <3>2. CASE i \in 1 .. n BY <1>7, <2>3, <3>2 DEF Carries
      <3> QED BY <2>1, <3>1, <3>2
    <2> QED BY <2>1, <2>3, <2>4 DEF Carries
  <1> HIDE DEF S
  <1>8. N \in S
    BY <1>1, <1>6, <1>7, StepByStep
  <1> QED BY <1>1, <1>8 DEF S, M, N

\* What waits is counted by SetToSeq once and completely.
LEMMA Sequenced ==
  ASSUME NEW S, IsFiniteSet(S)
  PROVE  /\ SetToSeq(S) \in Seq(S) /\ IsInjective(SetToSeq(S))
         /\ \A x \in S : \E n \in DOMAIN SetToSeq(S) : SetToSeq(S)[n] = x
  <1> DEFINE N == Cardinality(S)
             T == SetToSeq(S)
  <1>1. N \in Nat /\ ExistsBijection(1 .. N, S)
    BY FS_CardinalityType
  <1>2. \E f \in [1 .. N -> S] : IsInjective(f)
    BY <1>1 DEF ExistsBijection, Bijection, Injection
  <1>3. T \in [1 .. N -> S] /\ IsInjective(T)
    BY <1>2 DEF SetToSeq
  <1> HIDE DEF T
  <1>4. T \in Seq(S)
    BY <1>1, <1>3
  <1>5. T \in Surjection(1 .. N, S)
    <2>1. IsFiniteSet(1 .. N) /\ Cardinality(1 .. N) = N
      <3>1. 1 \in Int /\ N \in Int
        BY <1>1
      <3>2. IsFiniteSet(1 .. N) /\ Cardinality(1 .. N) = IF 1 > N THEN 0 ELSE N - 1 + 1
        BY <3>1, FS_Interval
      <3> QED BY <1>1, <3>2
    <2>2. T \in Injection(1 .. N, S)
      BY <1>3 DEF Injection
    <2> QED BY <2>1, <2>2, FS_Injection
  <1>6. \A x \in S : \E n \in DOMAIN T : T[n] = x
    BY <1>3, <1>5 DEF Surjection
  <1> QED BY <1>3, <1>4, <1>6 DEF T

LEMMA WaitingIsFinite ==
  ASSUME NEW d \in Threadings
  PROVE  IsFiniteSet({p.reply : p \in d.pending}) /\ {p.reply : p \in d.pending} \subseteq Replies
  <1> DEFINE f == [p \in d.pending |-> p.reply]
  <1>1. f \in Surjection(d.pending, {p.reply : p \in d.pending})
    BY DEF Surjection
  <1>2. IsFiniteSet(d.pending) /\ d.pending \in SUBSET [key : Roots, reply : Replies]
    BY DEF Threadings
  <1> HIDE DEF f
  <1>3. IsFiniteSet({p.reply : p \in d.pending})
    BY <1>1, <1>2, FS_Surjection
  <1> QED BY <1>2, <1>3

\* The replies whose root never came: each is a root of its own.
LEMMA RootingRuns ==
  ASSUME NEW start \in Threadings, NEW left \in Seq(Sound)
  PROVE  LET d == Rooting(start, left)[Len(left)]
         IN Carries(d, start) /\ Covers(d.roots, left) /\ d.pending \subseteq start.pending
            /\ Covers(d.roots, start.roots)
  <1> DEFINE N == Len(left)
             step == [x \in Threadings \X (1 .. N) |-> AddRoot(x[1], left[x[2]])]
             M == Rooting(start, left)
  <1>1. N \in Nat /\ DOMAIN left = 1 .. N /\ \A n \in 1 .. N : left[n] \in Sound
    BY LenProperties, ElementOfSeq
  <1>2. step \in StepFunctions(Threadings, N)
    BY <1>1, AddRootKeeps DEF StepFunctions, Carries
  <1>3. PICK run : IsRun(run, Threadings, N, start, step)
    <2> HIDE DEF N, step
    <2> QED BY <1>1, <1>2, RunExists
  <1>4. run = [n \in 0 .. N |-> IF n = 0 THEN start ELSE AddRoot(run[n - 1], left[n])]
    <2>1. ASSUME NEW n \in 1 .. N PROVE run[n] = AddRoot(run[n - 1], left[n])
      <3>1. n - 1 \in 0 .. N /\ run[n - 1] \in Threadings
        BY <1>1, <1>3 DEF IsRun
      <3> QED BY <1>3, <3>1 DEF IsRun
    <2> HIDE DEF step
    <2> QED BY <1>1, <1>3, <2>1 DEF IsRun
  <1>5. M = [n \in 0 .. N |-> IF n = 0 THEN start ELSE AddRoot(M[n - 1], left[n])]
    BY <1>4 DEF Rooting
  <1> HIDE DEF M, N, step
  <1> DEFINE S == {n \in 0 .. N : /\ Carries(M[n], start) /\ M[n].pending \subseteq start.pending
                                  /\ Covers(M[n].roots, start.roots)
                                  /\ \A i \in 1 .. n : In(M[n].roots, left[i])}
  <1>6. 0 \in S
    BY <1>1, <1>5, CoversItself DEF Carries
  <1>7. ASSUME NEW n \in 0 .. N, n < N, n \in S PROVE n + 1 \in S
    <2>1. n + 1 \in 1 .. N /\ n + 1 # 0 /\ (n + 1) - 1 = n /\ M[n] \in Threadings
      BY <1>1, <1>7 DEF Carries
    <2>2. M[n + 1] = AddRoot(M[n], left[n + 1])
      BY <1>5, <2>1
    <2>3. /\ Carries(M[n + 1], M[n]) /\ In(M[n + 1].roots, left[n + 1]) /\ M[n + 1].pending \subseteq M[n].pending
          /\ Covers(M[n + 1].roots, M[n].roots)
      BY <1>1, <2>1, <2>2, AddRootKeeps
    <2>4. ASSUME NEW i \in 1 .. n + 1 PROVE In(M[n + 1].roots, left[i])
      <3>1. CASE i = n + 1 BY <2>3, <3>1
      <3>2. CASE i \in 1 .. n BY <1>7, <2>3, <3>2, CoversAgain
      <3> QED BY <2>1, <3>1, <3>2
    <2>5. Carries(M[n + 1], start)
      BY <1>7, <2>3, KeepsAgain
    <2>6. Covers(M[n + 1].roots, start.roots)
      BY <1>7, <2>3, CoversAgain DEF Covers
    <2> QED BY <1>7, <2>1, <2>3, <2>4, <2>5, <2>6
  <1> HIDE DEF S
  <1>8. N \in S
    BY <1>1, <1>6, <1>7, StepByStep
  <1> QED BY <1>1, <1>8 DEF S, M, N, Covers

\* normalize_threaded_comments: a list without doubles; no comment is lost, and no reply
\* leaves its root.
LEMMA ThreadedKeeps ==
  ASSUME NEW items \in Seq(Sound)
  PROVE  /\ Threaded(items) \in Lists
         /\ Ids(items) \subseteq Ids(Threaded(items)) /\ Below(items) \subseteq Below(Threaded(items))
  <1> DEFINE d == Threading(items)[Len(items)]
             W == {p.reply : p \in d.pending}
             left == SetToSeq(W)
             e == Rooting(d, left)[Len(left)]
  <1>1. d \in Threadings /\ \A i \in DOMAIN items : Held(d, items[i])
    BY ThreadingRuns
  <1>2. Threaded(items) = e.roots
    BY DEF Threaded, WithPending
  <1> HIDE DEF d
  <1>3. IsFiniteSet(W) /\ W \subseteq Replies
    BY <1>1, WaitingIsFinite
  <1>4. left \in Seq(Sound) /\ \A x \in W : \E n \in DOMAIN left : left[n] = x
    <2> HIDE DEF W
    <2>1. left \in Seq(W) /\ \A x \in W : \E n \in DOMAIN left : left[n] = x
      BY <1>3, Sequenced
    <2>2. W \subseteq Sound
      BY <1>3 DEF Replies
    <2> QED BY <2>1, <2>2, SeqMonotonic
  <1> HIDE DEF left
  <1>5. Carries(e, d) /\ Covers(e.roots, left) /\ Covers(e.roots, d.roots)
    BY <1>1, <1>4, RootingRuns
  <1> HIDE DEF e
  <1>6. e.roots \in Lists
    BY <1>5 DEF Carries, Threadings
  <1>7. ASSUME NEW i \in DOMAIN items
        PROVE  In(e.roots, items[i]) \/ (IsReply(items[i].id) /\ items[i].id \in Ids(e.roots))
    <2>1. CASE In(d.roots, items[i])
      BY <1>5, <2>1, CoversAgain
    <2>2. CASE IsReply(items[i].id) /\ items[i].id \in Ids(d.roots)
      BY <1>5, <2>2, CoveredIds
    <2>3. CASE \E p \in d.pending : p.reply = items[i]
      BY <1>4, <1>5, <2>3 DEF Covers
    <2> QED BY <1>1, <2>1, <2>2, <2>3 DEF Held
  <1>8. ASSUME NEW i \in DOMAIN items
        PROVE  /\ items[i].id \in Ids(e.roots) /\ items[i].replies \subseteq Ids(e.roots)
               /\ \A a \in items[i].replies : <<items[i].id, a>> \in Below(e.roots)
    <2>1. IsReply(items[i].id) => items[i].replies = {}
      BY ElementOfSeq, LenProperties DEF Sound
    <2>2. CASE In(e.roots, items[i])
      BY <2>2 DEF In, Ids, Below
    <2> QED BY <1>7, <2>1, <2>2
  <1> QED BY <1>2, <1>6, <1>8 DEF Ids, Below

-----------------------------------------------------------------------------
(* What the job makes of what it has read                                  *)

LEMMA RepliesHaveNone ==
  ASSUME NEW x \in Sound, Asked(x)
  PROVE  ~ IsReply(x.id)
  BY FS_EmptySet DEF Asked, Sound

LEMMA HydratedKeeps ==
  ASSUME NEW list \in Lists, answers \subseteq Comment, NEW refused
  PROVE  Hydrated(list, refused) \in Lists /\ Covers(Hydrated(list, refused), list)
  <1> DEFINE new == Hydrated(list, refused)
  <1>1. list \in Seq(Sound) /\ Apart(list) /\ DOMAIN list = 1 .. Len(list) /\ Len(list) \in Nat
        /\ \A i \in DOMAIN list : list[i] \in Sound
    BY LenProperties, ElementOfSeq DEF Lists
  <1>2. ASSUME NEW i \in DOMAIN list
        PROVE  new[i] \in Sound /\ new[i].id = list[i].id /\ list[i].replies \subseteq new[i].replies
    <2> DEFINE x == list[i]
               there == RepliesTo(x.id)
    <2>1. x \in Sound /\ there \subseteq Comment
      BY <1>1 DEF RepliesTo
    <2>2. CASE Asked(x) /\ x.id \notin refused
      <3>1. ~ IsReply(x.id)
        BY <2>1, <2>2, RepliesHaveNone
      <3>2. new[i] = WithReplies(x, there)
        BY <2>2 DEF Hydrated
      <3> HIDE DEF x, there, new
      <3>3. LET y == WithReplies(x, there) IN y \in Sound /\ y.id = x.id /\ y.replies = x.replies \cup there
        BY <2>1, <3>1, MoreReplies
      <3> QED BY <3>2, <3>3 DEF x
    <2>3. CASE ~ (Asked(x) /\ x.id \notin refused)
      BY <2>1, <2>3 DEF Hydrated
    <2> QED BY <2>2, <2>3
  <1>3. DOMAIN new = DOMAIN list
    BY DEF Hydrated
  <1>4. new \in Seq(Sound)
    <2>1. new = [i \in 1 .. Len(list) |-> new[i]]
      BY <1>1 DEF Hydrated
    <2> HIDE DEF new
    <2>2. new \in [1 .. Len(list) -> Sound]
      BY <1>1, <1>2, <2>1
    <2> QED BY <1>1, <2>2
  <1> HIDE DEF new
  <1>5. Apart(new) /\ Covers(new, list)
    BY <1>1, <1>2, <1>3 DEF Apart, Covers, In
  <1> QED BY <1>4, <1>5 DEF Lists, new

LEMMA MergeListKeeps ==
  ASSUME NEW old \in Seq(Sound), NEW new \in Seq(Sound)
  PROVE  MergeList(old, new) \in Lists /\ Covers(MergeList(old, new), old)
  <1> DEFINE all == old \o new
             M == Merging(all)[Len(all)]
  <1>1. /\ all \in Seq(Sound) /\ Len(all) = Len(old) + Len(new)
        /\ \A n \in 1 .. Len(old) + Len(new) : all[n] = IF n <= Len(old) THEN old[n] ELSE new[n - Len(old)]
    BY ConcatProperties
  <1>2. M \in Lists /\ Covers(M, all)
    <2> HIDE DEF all
    <2> QED BY <1>1, MergingRuns
  <1>3. MergeList(old, new) = M
    BY DEF MergeList
  <1> HIDE DEF M, all
  <1>4. /\ DOMAIN old = 1 .. Len(old) /\ Len(old) \in Nat /\ Len(new) \in Nat
        /\ DOMAIN all = 1 .. Len(old) + Len(new)
    BY <1>1, LenProperties
  <1>5. \A n \in DOMAIN old : n \in DOMAIN all /\ all[n] = old[n]
    BY <1>1, <1>4
  <1> QED BY <1>2, <1>3, <1>5 DEF Covers

\* _merge_single_comment of the refresh
LEMMA RefreshItemSound ==
  ASSUME NEW fresh \in Sound, NEW old \in Sound, fresh.id = old.id
  PROVE  LET y == RefreshItem(fresh, old)
         IN y \in Sound /\ y.id = fresh.id /\ y.replies = fresh.replies \cup old.replies
  <1> DEFINE both == MergeItem(fresh, old)
  <1>1. both \in Sound /\ both.id = fresh.id /\ both.replies = fresh.replies \cup old.replies
    BY MergeItemSound
  <1>2. RefreshItem(fresh, old) = IF both.replies = {} THEN [both EXCEPT !.count = old.count] ELSE both
    BY DEF RefreshItem
  <1> HIDE DEF both
  <1> QED BY <1>1, <1>2 DEF Sound, ItemType

LEMMA RefreshedKeeps ==
  ASSUME NEW old \in Lists, NEW fresh \in Lists
  PROVE  /\ Refreshed(old, fresh) \in Seq(Sound) /\ Covers(Refreshed(old, fresh), fresh)
         /\ \A i \in DOMAIN old : Has(fresh, old[i].id) => In(Refreshed(old, fresh), old[i])
  <1> DEFINE new == Refreshed(old, fresh)
  <1>1. /\ fresh \in Seq(Sound) /\ DOMAIN fresh = 1 .. Len(fresh) /\ Len(fresh) \in Nat
        /\ \A i \in DOMAIN fresh : fresh[i] \in Sound
        /\ \A i \in DOMAIN old : old[i] \in Sound
        /\ Apart(old)
    BY LenProperties, ElementOfSeq DEF Lists
  <1>2. DOMAIN new = DOMAIN fresh
    BY DEF Refreshed
  <1>3. ASSUME NEW i \in DOMAIN fresh
        PROVE  /\ new[i] \in Sound /\ new[i].id = fresh[i].id /\ fresh[i].replies \subseteq new[i].replies
               /\ \A j \in DOMAIN old : old[j].id = fresh[i].id => old[j].replies \subseteq new[i].replies
    <2> DEFINE x == fresh[i]
               k == Place(old, x.id)
    <2>1. CASE Has(old, x.id)
      <3>1. k \in DOMAIN old /\ old[k].id = x.id
        BY <2>1, PlaceOf
      <3>2. \A j \in DOMAIN old : old[j].id = x.id => j = k
        BY <1>1, <3>1 DEF Apart
      <3>3. new[i] = RefreshItem(x, old[k])
        BY <2>1 DEF Refreshed
      <3> HIDE DEF k, x, new
      <3>4. LET y == RefreshItem(x, old[k]) IN y \in Sound /\ y.id = x.id /\ y.replies = x.replies \cup old[k].replies
        BY <1>1, <3>1, RefreshItemSound DEF x
      <3> QED BY <3>2, <3>3, <3>4 DEF x
    <2>2. CASE ~ Has(old, x.id)
      BY <1>1, <2>2 DEF Refreshed, Has
    <2> QED BY <2>1, <2>2
  <1>4. new \in Seq(Sound)
    <2>1. new = [i \in 1 .. Len(fresh) |-> new[i]]
      BY <1>1 DEF Refreshed
    <2> HIDE DEF new
    <2>2. new \in [1 .. Len(fresh) -> Sound]
      BY <1>1, <1>3, <2>1
    <2> QED BY <1>1, <2>2
  <1> HIDE DEF new
  <1>5. Covers(new, fresh)
    BY <1>2, <1>3 DEF Covers, In
  <1>6. ASSUME NEW j \in DOMAIN old, Has(fresh, old[j].id) PROVE In(new, old[j])
    BY <1>2, <1>3, <1>6 DEF Has, In
  <1> QED BY <1>4, <1>5, <1>6 DEF new

LEMMA AppendedSeq ==
  ASSUME NEW list \in Seq(Sound), NEW x \in Sound
  PROVE  Append(list, x) \in Seq(Sound) /\ Covers(Append(list, x), list) /\ In(Append(list, x), x)
  <1> DEFINE new == Append(list, x)
  <1>1. /\ new \in Seq(Sound) /\ DOMAIN new = 1 .. Len(list) + 1 /\ new[Len(list) + 1] = x
        /\ \A n \in 1 .. Len(list) : new[n] = list[n]
        /\ DOMAIN list = 1 .. Len(list) /\ Len(list) \in Nat
    BY AppendProperties, LenProperties
  <1> HIDE DEF new
  <1>2. Covers(new, list) /\ In(new, x)
    BY <1>1 DEF Covers, In
  <1> QED BY <1>1, <1>2 DEF new

\* _merge_comments of the refresh covers what was fetched and what was stored.
SoundLists == Seq(Sound)
LEMMA MergeCommentsKeeps ==
  ASSUME NEW old \in Lists, NEW fresh \in Lists
  PROVE  /\ MergeComments(old, fresh) \in Seq(Sound)
         /\ Covers(MergeComments(old, fresh), fresh) /\ Covers(MergeComments(old, fresh), old)
  <1> DEFINE N == Len(old)
             base == Refreshed(old, fresh)
             next(list, n) == IF Has(fresh, old[n].id) THEN list ELSE Append(list, old[n])
             step == [x \in SoundLists \X (1 .. N) |-> next(x[1], x[2])]
             M == MergingStored(old, fresh)
  <1>1. N \in Nat /\ DOMAIN old = 1 .. N /\ \A n \in 1 .. N : old[n] \in Sound
    BY LenProperties, ElementOfSeq DEF Lists
  <1>2. step \in StepFunctions(SoundLists, N)
    BY <1>1, AppendedSeq DEF StepFunctions, SoundLists
  <1>3. base \in SoundLists /\ Covers(base, fresh)
        /\ \A i \in 1 .. N : Has(fresh, old[i].id) => In(base, old[i])
    BY <1>1, RefreshedKeeps DEF SoundLists
  <1>4. PICK run : IsRun(run, SoundLists, N, base, step)
    <2> HIDE DEF N, step, base
    <2> QED BY <1>1, <1>2, <1>3, RunExists
  <1>5. run = [n \in 0 .. N |-> IF n = 0 THEN base ELSE next(run[n - 1], n)]
    <2>1. ASSUME NEW n \in 1 .. N PROVE run[n] = next(run[n - 1], n)
      <3>1. n - 1 \in 0 .. N /\ run[n - 1] \in SoundLists
        BY <1>1, <1>4 DEF IsRun
      <3> QED BY <1>4, <3>1 DEF IsRun
    <2> HIDE DEF step, next, base
    <2> QED BY <1>1, <1>4, <2>1 DEF IsRun
  <1>6. M = [n \in 0 .. N |-> IF n = 0 THEN base ELSE next(M[n - 1], n)]
    BY <1>5 DEF MergingStored
  <1> HIDE DEF M, N, step, base, next
  <1> DEFINE S == {n \in 0 .. N : /\ M[n] \in SoundLists /\ Covers(M[n], base)
                                  /\ \A i \in 1 .. n : ~ Has(fresh, old[i].id) => In(M[n], old[i])}
  <1>7. 0 \in S
    BY <1>1, <1>3, <1>6, CoversItself
  <1>8. ASSUME NEW n \in 0 .. N, n < N, n \in S PROVE n + 1 \in S
    <2>1. n + 1 \in 1 .. N /\ n + 1 # 0 /\ (n + 1) - 1 = n
      BY <1>1, <1>8
    <2>2. M[n + 1] = next(M[n], n + 1)
      BY <1>6, <2>1
    <2>3. /\ M[n + 1] \in SoundLists /\ Covers(M[n + 1], M[n])
          /\ ~ Has(fresh, old[n + 1].id) => In(M[n + 1], old[n + 1])
      BY <1>1, <1>8, <2>1, <2>2, AppendedSeq, CoversItself DEF SoundLists, next
    <2>4. ASSUME NEW i \in 1 .. n + 1, ~ Has(fresh, old[i].id) PROVE In(M[n + 1], old[i])
      <3>1. CASE i = n + 1 BY <2>3, <2>4, <3>1
      <3>2. CASE i \in 1 .. n BY <1>8, <2>3, <2>4, <3>2, CoversAgain
      <3> QED BY <2>1, <3>1, <3>2
    <2>5. Covers(M[n + 1], base)
      BY <1>8, <2>3, CoversAgain DEF Covers
    <2> QED BY <2>1, <2>3, <2>4, <2>5
  <1> HIDE DEF S
  <1>9. N \in S
    <2>1. N \in Nat
      BY <1>1
    <2>2. 0 .. N \subseteq S
      BY <1>7, <1>8, <2>1, StepByStep
    <2> QED BY <2>1, <2>2
  <1>10. M[N] \in SoundLists /\ Covers(M[N], base) /\ \A i \in 1 .. N : ~ Has(fresh, old[i].id) => In(M[N], old[i])
    BY <1>9 DEF S
  <1>11. Covers(M[N], fresh)
    BY <1>3, <1>10, CoversAgain DEF Covers
  <1>12. Covers(M[N], old)
    <2>1. ASSUME NEW i \in 1 .. N PROVE In(M[N], old[i])
      BY <1>3, <1>10, CoversAgain
    <2> QED BY <1>1, <2>1 DEF Covers
  <1>13. MergeComments(old, fresh) = M[N]
    BY DEF MergeComments, M, N
  <1> QED BY <1>10, <1>11, <1>12, <1>13 DEF SoundLists

-----------------------------------------------------------------------------
(* The site                                                                *)

Styles == [replies : {"nested", "flat", "named", "apart"}, told : BOOLEAN]
SiteOK == /\ board \in Seq(Threads) /\ IsInjective(board) /\ answers \subseteq Comment /\ style \in Styles

LEMMA ListedSound ==
  ASSUME SiteOK, NEW t \in Threads
  PROVE  Listed(t) \in Seq(Sound)
  <1> DEFINE root == <<t, 0>>
             there == RepliesTo(root)
             within == IF style.replies = "nested" THEN there ELSE {}
             behind == IF style.replies \in {"flat", "named"} THEN SetToSeq(there) ELSE <<>>
             replies == [i \in DOMAIN behind |-> ReplyItem(behind[i], NamedRoot(root))]
             first == Item(root, NoComment, Cardinality(there), within)
  <1>1. root \in Comment /\ ~ IsReply(root) /\ RootOf(root) = root /\ there \subseteq Comment
    BY CommentsAssumption DEF SiteOK, Comment, IsReply, RootOf, RepliesTo
  <1>2. \A a \in there : RootOf(a) = root /\ a \in Comment
    BY <1>1 DEF RepliesTo
  <1>3. IsFiniteSet(there) /\ Cardinality(there) \in Nat
    BY <1>1, CommentsAreFinite
  <1>4. first \in Sound
    <2> HIDE DEF root, there
    <2> QED BY <1>1, <1>3 DEF Item, Sound, ItemType
  <1>5. behind \in Seq(there)
    <2> HIDE DEF there
    <2> QED BY <1>3, Sequenced, EmptySeq
  <1>6. ASSUME NEW a \in there PROVE ReplyItem(a, NamedRoot(root)) \in Sound
    <2> HIDE DEF root, there
    <2>1. NamedRoot(root) \in {NoComment, root}
      BY DEF NamedRoot
    <2> QED BY <1>1, <1>2, <2>1 DEF ReplyItem, Item, Sound, ItemType
  <1> HIDE DEF root, there, first, behind
  <1>7. replies \in Seq(Sound)
    <2>1. DOMAIN behind = 1 .. Len(behind) /\ Len(behind) \in Nat /\ \A i \in DOMAIN behind : behind[i] \in there
      BY <1>5, LenProperties, ElementOfSeq
    <2>2. replies \in [1 .. Len(behind) -> Sound]
      BY <1>6, <2>1
    <2> HIDE DEF replies
    <2> QED BY <2>1, <2>2
  <1>8. Listed(t) = <<first>> \o replies
    BY DEF Listed, root, there, first, behind
  <1> HIDE DEF replies
  <1>9. <<first>> \in Seq(Sound)
    BY <1>4
  <1> QED BY <1>7, <1>8, <1>9, ConcatProperties

LEMMA ListSound == ASSUME SiteOK PROVE List \in Seq(Sound)
  <1> DEFINE N == Len(board)
             next(list, n) == list \o Listed(board[n])
             step == [x \in SoundLists \X (1 .. N) |-> next(x[1], x[2])]
             M == Listing
  <1>1. N \in Nat /\ DOMAIN board = 1 .. N /\ \A n \in 1 .. N : board[n] \in Threads
    BY LenProperties, ElementOfSeq DEF SiteOK
  <1>2. ASSUME NEW list \in SoundLists, NEW n \in 1 .. N PROVE next(list, n) \in SoundLists
    BY <1>1, ListedSound, ConcatProperties DEF SoundLists
  <1> HIDE DEF next
  <1>3. step \in StepFunctions(SoundLists, N)
    BY <1>2 DEF StepFunctions
  <1>4. <<>> \in SoundLists
    BY EmptySeq DEF SoundLists
  <1>5. PICK run : IsRun(run, SoundLists, N, <<>>, step)
    <2> HIDE DEF N, step
    <2> QED BY <1>1, <1>3, <1>4, RunExists
  <1>6. run = [n \in 0 .. N |-> IF n = 0 THEN <<>> ELSE next(run[n - 1], n)]
    <2>1. ASSUME NEW n \in 1 .. N PROVE run[n] = next(run[n - 1], n)
      <3>1. n - 1 \in 0 .. N /\ run[n - 1] \in SoundLists
        BY <1>1, <1>5 DEF IsRun
      <3> QED BY <1>5, <3>1 DEF IsRun
    <2> HIDE DEF step
    <2> QED BY <1>1, <1>5, <2>1 DEF IsRun
  <1>7. M = [n \in 0 .. N |-> IF n = 0 THEN <<>> ELSE next(M[n - 1], n)]
    BY <1>6 DEF Listing, next
  <1> HIDE DEF M, N, step
  <1> DEFINE S == {n \in 0 .. N : M[n] \in SoundLists}
  <1>8. 0 \in S
    BY <1>1, <1>4, <1>7
  <1>9. ASSUME NEW n \in 0 .. N, n < N, n \in S PROVE n + 1 \in S
    <2>1. n + 1 \in 1 .. N /\ n + 1 # 0 /\ (n + 1) - 1 = n
      BY <1>1, <1>9
    <2>2. M[n + 1] = next(M[n], n + 1)
      BY <1>7, <2>1
    <2> QED BY <1>2, <1>9, <2>1, <2>2
  <1> HIDE DEF S
  <1>10. 0 .. N \subseteq S
    <2>1. N \in Nat
      BY <1>1
    <2> QED BY <1>8, <1>9, <2>1, StepByStep
  <1> QED BY <1>1, <1>10 DEF S, M, N, List, SoundLists

LEMMA MinOfTwo == ASSUME NEW a \in Nat, NEW b \in Nat PROVE Min({a, b}) \in Nat /\ Min({a, b}) <= a /\ Min({a, b}) <= b
  <1>1. \E x \in {a, b} : \A y \in {a, b} : x <= y
    <2>1. CASE a <= b BY <2>1
    <2>2. CASE b <= a BY <2>2
    <2> QED BY <2>1, <2>2
  <1> DEFINE x == Min({a, b})
  <1>2. x \in {a, b} /\ \A y \in {a, b} : x <= y
    BY <1>1 DEF Min
  <1> HIDE DEF x
  <1> QED BY <1>2 DEF x

LEMMA PageSound ==
  ASSUME SiteOK, NEW offset \in Nat
  PROVE  PageOf(offset) \in Seq(Sound)
  <1> DEFINE all == List
             last == Min({offset + CommentPage, Len(all)})
  <1>1. all \in Seq(Sound) /\ Len(all) \in Nat /\ \A n \in 1 .. Len(all) : all[n] \in Sound
    BY ListSound, LenProperties, ElementOfSeq
  <1> HIDE DEF all
  <1>2. last \in Nat /\ last <= Len(all) /\ offset + 1 \in Int
    BY <1>1, MinOfTwo, CommentsAssumption
  <1> HIDE DEF last
  <1>3. \A n \in offset + 1 .. last : all[n] \in Sound
    BY <1>1, <1>2
  <1>4. SubSeq(all, offset + 1, last) \in Seq(Sound)
    BY <1>2, <1>3, SubSeqProperties
  <1> QED BY <1>4 DEF PageOf, all, last

-----------------------------------------------------------------------------
(***************************************************************************)
(* The invariant: the lists are sound, and until a job has stored what it  *)
(* collected nothing has been stored since it began.                       *)
(***************************************************************************)
CollectJobs == [at : {"no", "pages", "replies", "finalize"}, refresh : BOOLEAN, existing : Lists, fetched : Lists,
                offset : Nat, total : Nat]
CommentsInv ==
    /\ SiteOK
    /\ kept \in Lists /\ collect \in CollectJobs
    /\ collect.at \in {"pages", "replies"} => collect.existing = kept
    /\ edits \in 0 .. Edits /\ slips \in 0 .. Slips

\* What a step that stores may do with what is kept.
Keeping == Ids(kept) \subseteq Ids(kept') /\ Below(kept) \subseteq Below(kept')

LEMMA NoJob == NoCollect \in CollectJobs
  BY NoItems DEF NoCollect, CollectJobs

LEMMA CommentsStart == CommentsInit => CommentsInv
  <1> SUFFICES ASSUME CommentsInit PROVE CommentsInv
    OBVIOUS
  <1>1. board \in Seq(Threads) /\ IsInjective(board)
    <2>1. SetToSeq(Threads) \in Seq(Threads) /\ IsInjective(SetToSeq(Threads))
      BY CommentsAssumption, Sequenced
    <2>2. <<>> \in Seq(Threads) /\ IsInjective(<<>>)
      BY EmptySeq DEF IsInjective
    <2> QED BY <2>1, <2>2 DEF CommentsInit
  <1>2. SiteOK
    BY <1>1 DEF SiteOK, CommentsInit, Styles
  <1>3. edits \in 0 .. Edits /\ slips \in 0 .. Slips
    BY CommentsAssumption DEF CommentsInit
  <1> QED BY <1>2, <1>3, NoItems, NoJob DEF CommentsInit, CommentsInv, NoCollect

LEMMA SiteChanges ==
  ASSUME CommentsInv, SiteOK', edits' \in 0 .. Edits, slips' \in 0 .. Slips, UNCHANGED <<kept, collect>>
  PROVE  CommentsInv' /\ Keeping
  BY DEF CommentsInv, Keeping, Ids, Below

LEMMA WriteKeeps ==
  ASSUME CommentsInv, NEW t \in Threads, WriteComment(t)
  PROVE  CommentsInv' /\ Keeping
  <1>1. /\ board \in Seq(Threads) /\ IsInjective(board) /\ answers \subseteq Comment /\ style \in Styles
        /\ edits \in 0 .. Edits /\ slips \in 0 .. Slips
    BY DEF CommentsInv, SiteOK
  <1>2. edits' \in 0 .. Edits /\ slips' \in 0 .. Slips /\ UNCHANGED <<kept, collect, style>>
    BY <1>1, CommentsAssumption DEF WriteComment
  <1>3. answers' \subseteq Comment
    BY <1>1 DEF WriteComment
  <1>4. board' \in Seq(Threads) /\ IsInjective(board')
    <2>1. CASE t \in Range(board)
      BY <1>1, <2>1 DEF WriteComment
    <2>2. CASE t \notin Range(board)
      <3>1. board' = <<t>> \o board /\ <<t>> \in Seq(Threads) /\ Len(<<t>>) = 1
        BY <2>2 DEF WriteComment
      <3>2. /\ board' \in Seq(Threads) /\ Len(board') = 1 + Len(board)
            /\ \A n \in 1 .. 1 + Len(board) : board'[n] = IF n <= 1 THEN <<t>>[n] ELSE board[n - 1]
        BY <1>1, <3>1, ConcatProperties
      <3>3. Len(board) \in Nat /\ DOMAIN board = 1 .. Len(board) /\ DOMAIN board' = 1 .. 1 + Len(board)
        BY <1>1, <3>2, LenProperties
      <3>4. \A n \in DOMAIN board : board[n] # t
        BY <2>2 DEF Range
      <3>5. \A m, n \in DOMAIN board' : board'[m] = board'[n] => m = n
        <4> SUFFICES ASSUME NEW m \in DOMAIN board', NEW n \in DOMAIN board', board'[m] = board'[n] PROVE m = n
          OBVIOUS
        <4>1. CASE m = 1 /\ n = 1 BY <4>1
        <4>2. CASE m # 1 /\ n = 1
          <5>1. m - 1 \in DOMAIN board /\ board'[m] = board[m - 1] /\ board'[n] = t
            BY <3>2, <3>3, <4>2
          <5> QED BY <3>4, <5>1
        <4>3. CASE m = 1 /\ n # 1
          <5>1. n - 1 \in DOMAIN board /\ board'[n] = board[n - 1] /\ board'[m] = t
            BY <3>2, <3>3, <4>3
          <5> QED BY <3>4, <5>1
        <4>4. CASE m # 1 /\ n # 1
          <5>1. /\ m - 1 \in DOMAIN board /\ board'[m] = board[m - 1]
                /\ n - 1 \in DOMAIN board /\ board'[n] = board[n - 1]
            BY <3>2, <3>3, <4>4
          <5>2. m - 1 = n - 1
            BY <1>1, <5>1 DEF IsInjective
          <5> QED BY <3>3, <5>2
        <4> QED BY <4>1, <4>2, <4>3, <4>4
      <3> QED BY <3>2, <3>5 DEF IsInjective
    <2> QED BY <2>1, <2>2
  <1>5. SiteOK'
    BY <1>1, <1>2, <1>3, <1>4 DEF SiteOK
  <1> QED BY <1>2, <1>5, SiteChanges

LEMMA DeleteKeeps ==
  ASSUME CommentsInv, NEW c \in Comment, DeleteComment(c)
  PROVE  CommentsInv' /\ Keeping
  <1>1. /\ board \in Seq(Threads) /\ IsInjective(board) /\ answers \subseteq Comment /\ style \in Styles
        /\ edits \in 0 .. Edits /\ slips \in 0 .. Slips
    BY DEF CommentsInv, SiteOK
  <1>2. edits' \in 0 .. Edits /\ slips' \in 0 .. Slips /\ UNCHANGED <<kept, collect, style>>
    BY <1>1, CommentsAssumption DEF DeleteComment
  <1>3. answers' \subseteq Comment
    BY <1>1 DEF DeleteComment
  <1>4. board' \in Seq(Threads) /\ IsInjective(board')
    <2>1. CASE IsReply(c)
      BY <1>1, <2>1 DEF DeleteComment
    <2>2. CASE ~ IsReply(c)
      <3> DEFINE L == Len(board)
      <3>1. PICK k \in DOMAIN board : board' = SubSeq(board, 1, k - 1) \o SubSeq(board, k + 1, L)
        BY <2>2 DEF DeleteComment, RemoveAt
      <3>2. L \in Nat /\ DOMAIN board = 1 .. L /\ \A n \in 1 .. L : board[n] \in Threads
        BY <1>1, LenProperties, ElementOfSeq
      <3> DEFINE a == SubSeq(board, 1, k - 1)
                 b == SubSeq(board, k + 1, L)
      <3> HIDE DEF L
      <3>3. k \in 1 .. L /\ k - 1 \in Int /\ k + 1 \in Int /\ L \in Int /\ 1 \in Int
        BY <3>2
      <3>4. a \in Seq(Threads) /\ Len(a) = k - 1 /\ \A n \in 1 .. k - 1 : a[n] = board[n]
        <4>1. \A n \in 1 .. k - 1 : board[n] \in Threads
          BY <3>2, <3>3
        <4>2. /\ a \in Seq(Threads) /\ Len(a) = IF 1 <= k - 1 THEN k - 1 - 1 + 1 ELSE 0
              /\ \A n \in 1 .. (k - 1) - 1 + 1 : a[n] = board[1 + n - 1]
          BY <3>3, <4>1, SubSeqProperties
        <4> HIDE DEF a
        <4> QED BY <3>2, <3>3, <4>2
      <3>5. b \in Seq(Threads) /\ Len(b) = L - k /\ \A n \in 1 .. L - k : b[n] = board[k + n]
        <4>1. \A n \in k + 1 .. L : board[n] \in Threads
          BY <3>2, <3>3
        <4>2. /\ b \in Seq(Threads) /\ Len(b) = IF k + 1 <= L THEN L - (k + 1) + 1 ELSE 0
              /\ \A n \in 1 .. L - (k + 1) + 1 : b[n] = board[(k + 1) + n - 1]
          BY <3>3, <4>1, SubSeqProperties
        <4> HIDE DEF b
        <4> QED BY <3>2, <3>3, <4>2
      <3> HIDE DEF a, b
      <3>6. /\ board' \in Seq(Threads) /\ Len(board') = L - 1
            /\ \A n \in 1 .. L - 1 : board'[n] = IF n <= k - 1 THEN a[n] ELSE b[n - (k - 1)]
        <4>1. board' = a \o b
          BY <3>1 DEF a, b
        <4>2. /\ board' \in Seq(Threads) /\ Len(board') = Len(a) + Len(b)
              /\ \A n \in 1 .. Len(a) + Len(b) : board'[n] = IF n <= Len(a) THEN a[n] ELSE b[n - Len(a)]
          BY <3>4, <3>5, <4>1, ConcatProperties
        <4> QED BY <3>2, <3>3, <3>4, <3>5, <4>2
      <3>7. \A n \in 1 .. L - 1 : board'[n] = IF n < k THEN board[n] ELSE board[n + 1]
        <4> SUFFICES ASSUME NEW n \in 1 .. L - 1 PROVE board'[n] = IF n < k THEN board[n] ELSE board[n + 1]
          OBVIOUS
        <4>1. CASE n < k BY <3>2, <3>3, <3>4, <3>6, <4>1
        <4>2. CASE n >= k
          <5>1. n - (k - 1) \in 1 .. L - k /\ k + (n - (k - 1)) = n + 1
            BY <3>2, <3>3, <4>2
          <5>2. board'[n] = b[n - (k - 1)]
            BY <3>2, <3>3, <3>6, <4>2
          <5>3. b[n - (k - 1)] = board[k + (n - (k - 1))]
            BY <3>5, <5>1
          <5> QED BY <3>3, <4>2, <5>1, <5>2, <5>3
        <4> QED BY <3>3, <4>1, <4>2
      <3>8. DOMAIN board' = 1 .. L - 1
        BY <3>2, <3>6, LenProperties
      <3>9. \A m, n \in 1 .. L : board[m] = board[n] => m = n
        BY <1>1, <3>2 DEF IsInjective
      <3>10. \A m, n \in DOMAIN board' : board'[m] = board'[n] => m = n
        <4> SUFFICES ASSUME NEW m \in 1 .. L - 1, NEW n \in 1 .. L - 1, board'[m] = board'[n] PROVE m = n
          BY <3>8
        <4> DEFINE up(x) == IF x < k THEN x ELSE x + 1
        <4>1. up(m) \in 1 .. L /\ up(n) \in 1 .. L /\ board'[m] = board[up(m)] /\ board'[n] = board[up(n)]
          BY <3>2, <3>3, <3>7
        <4>2. up(m) = up(n)
          BY <3>9, <4>1
        <4> QED BY <3>2, <3>3, <4>2
      <3> QED BY <3>6, <3>10 DEF IsInjective
    <2> QED BY <2>1, <2>2
  <1>5. SiteOK'
    BY <1>1, <1>2, <1>3, <1>4 DEF SiteOK
  <1> QED BY <1>2, <1>5, SiteChanges

\* A step of the job that stores nothing.
LEMMA JobGoesOn ==
  ASSUME CommentsInv, UNCHANGED <<board, answers, style, kept, edits>>, slips' \in 0 .. Slips,
         collect' \in CollectJobs, collect'.at \in {"pages", "replies"} => collect'.existing = kept
  PROVE  CommentsInv' /\ Keeping
  BY DEF CommentsInv, Keeping, SiteOK, Ids, Below

LEMMA JobKeeps ==
  ASSUME CommentsInv,
         (\E refresh \in BOOLEAN : StartCollect(refresh)) \/ ReadCommentPage \/ CommentPageFails \/ JobDies
  PROVE  CommentsInv' /\ Keeping
  <1>1. /\ SiteOK /\ kept \in Lists /\ collect \in CollectJobs /\ slips \in 0 .. Slips
        /\ collect.at \in {"pages", "replies"} => collect.existing = kept
    BY DEF CommentsInv
  <1>2. CASE \E refresh \in BOOLEAN : StartCollect(refresh)
    <2>1. PICK refresh \in BOOLEAN : StartCollect(refresh)
      BY <1>2
    <2>2. collect' = [at |-> "pages", refresh |-> refresh, existing |-> kept, fetched |-> <<>>, offset |-> 0, total |-> 0]
      BY <2>1 DEF StartCollect, NoCollect
    <2>3. collect' \in CollectJobs /\ collect'.existing = kept
      BY <1>1, <2>2, NoItems DEF CollectJobs
    <2> QED BY <1>1, <2>1, <2>3, JobGoesOn DEF StartCollect
  <1>3. CASE ReadCommentPage
    <2> DEFINE page == PageOf(collect.offset)
               offset == collect.offset + Len(page)
               total == Max({collect.total, TotalTold})
               fetched == MergeList(collect.fetched, Threaded(page))
    <2>1. collect.offset \in Nat /\ collect.total \in Nat /\ collect.fetched \in Lists /\ collect.fetched \in Seq(Sound)
      BY <1>1 DEF CollectJobs, Lists
    <2>2. page \in Seq(Sound) /\ Len(page) \in Nat
      BY <1>1, <2>1, PageSound, LenProperties
    <2> HIDE DEF page
    <2>3. offset \in Nat
      BY <2>1, <2>2
    <2>4. total \in Nat
      <3>1. TotalTold \in Nat
        BY <1>1, ListSound, LenProperties DEF TotalTold
      <3>2. {collect.total, TotalTold} = {collect.total, TotalTold, TotalTold}
        OBVIOUS
      <3>3. Max({collect.total, TotalTold, TotalTold}) \in Nat
        BY <2>1, <3>1, MaxOfThree
      <3> QED BY <3>2, <3>3
    <2>5. fetched \in Lists
      <3>1. Threaded(page) \in Seq(Sound)
        BY <2>2, ThreadedKeeps DEF Lists
      <3> QED BY <2>1, <3>1, MergeListKeeps
    <2> HIDE DEF offset, total, fetched
    <2>6. \E at \in {"replies", "pages"} :
             collect' = [collect EXCEPT !.at = at, !.offset = offset, !.total = total, !.fetched = fetched]
      BY <1>3 DEF ReadCommentPage, offset, total, fetched, page
    <2>7. collect.at = "pages"
      BY <1>3 DEF ReadCommentPage
    <2>8. collect' \in CollectJobs /\ collect'.existing = kept
      BY <1>1, <2>3, <2>4, <2>5, <2>6, <2>7 DEF CollectJobs
    <2> QED BY <1>1, <1>3, <2>8, JobGoesOn DEF ReadCommentPage
  <1>4. CASE CommentPageFails
    <2>1. collect' \in CollectJobs /\ collect'.existing = kept /\ slips' \in 0 .. Slips
      BY <1>1, <1>4, CommentsAssumption DEF CommentPageFails, CollectJobs
    <2> QED BY <1>1, <1>4, <2>1, JobGoesOn DEF CommentPageFails
  <1>5. CASE JobDies
    <2>1. collect' \in CollectJobs /\ collect'.at = "no" /\ slips' \in 0 .. Slips
      BY <1>1, <1>5, NoJob, CommentsAssumption DEF JobDies, NoCollect
    <2> QED BY <1>1, <1>5, <2>1, JobGoesOn DEF JobDies
  <1> QED BY <1>2, <1>3, <1>4, <1>5

LEMMA StoreKeeps ==
  ASSUME CommentsInv, StoreCollected
  PROVE  CommentsInv' /\ Keeping
  <1>1. /\ SiteOK /\ kept \in Lists /\ collect \in CollectJobs /\ slips \in 0 .. Slips /\ edits \in 0 .. Edits
        /\ collect.existing = kept /\ collect.fetched \in Lists
    BY DEF CommentsInv, StoreCollected, CollectJobs
  <1>2. PICK refused \in SUBSET {<<t, 0>> : t \in Threads} :
           /\ Cardinality(refused) <= slips /\ slips' = slips - Cardinality(refused)
           /\ kept' = Hydrated(Collected(collect.existing, collect.fetched), refused)
    BY DEF StoreCollected
  <1>3. slips' \in 0 .. Slips
    <2>1. refused \subseteq Comment
      BY <1>2, CommentsAssumption DEF Comment
    <2>2. Cardinality(refused) \in Nat
      BY <2>1, CommentsAreFinite
    <2> QED BY <1>1, <1>2, <2>2, CommentsAssumption
  <1> DEFINE list == MergeList(kept, collect.fetched)
  <1>4. list \in Lists /\ Covers(list, kept)
    BY <1>1, MergeListKeeps DEF Lists
  <1>5. kept' = Hydrated(list, refused)
    BY <1>1, <1>2 DEF Collected
  <1> HIDE DEF list
  <1>6. kept' \in Lists /\ Covers(kept', list)
    <2>1. answers \subseteq Comment
      BY <1>1 DEF SiteOK
    <2> QED BY <1>4, <1>5, <2>1, HydratedKeeps
  <1>7. Keeping
    BY <1>4, <1>6, CoveredIds DEF Keeping
  <1>8. collect' \in CollectJobs /\ collect'.at \in {"finalize", "no"}
    BY <1>1, NoJob DEF StoreCollected, CollectJobs, NoCollect
  <1>9. SiteOK' /\ edits' \in 0 .. Edits
    BY <1>1 DEF StoreCollected, SiteOK
  <1> QED BY <1>3, <1>6, <1>7, <1>8, <1>9 DEF CommentsInv

LEMMA FinalizeKeeps ==
  ASSUME CommentsInv, FinalizeRefreshed
  PROVE  CommentsInv' /\ Keeping
  <1>1. /\ SiteOK /\ kept \in Lists /\ collect.existing \in Lists /\ slips \in 0 .. Slips /\ edits \in 0 .. Edits
    BY DEF CommentsInv, CollectJobs
  <1> DEFINE list == MergeComments(collect.existing, kept)
  <1>2. list \in Seq(Sound) /\ Covers(list, kept)
    BY <1>1, MergeCommentsKeeps
  <1>3. kept' = Threaded(list)
    BY DEF FinalizeRefreshed
  <1> HIDE DEF list
  <1>4. kept' \in Lists /\ Keeping
    BY <1>2, <1>3, ThreadedKeeps, CoveredIds DEF Keeping
  <1>5. SiteOK' /\ edits' \in 0 .. Edits /\ slips' \in 0 .. Slips
    BY <1>1 DEF FinalizeRefreshed, SiteOK
  <1>6. collect' \in CollectJobs /\ collect'.at = "no"
    BY NoJob DEF FinalizeRefreshed, NoCollect
  <1> QED BY <1>4, <1>5, <1>6 DEF CommentsInv

LEMMA CommentsStep == CommentsInv /\ [CommentsNext]_commentVars => CommentsInv' /\ Keeping
  <1> SUFFICES ASSUME CommentsInv, [CommentsNext]_commentVars PROVE CommentsInv' /\ Keeping
    OBVIOUS
  <1>1. CASE UNCHANGED commentVars
    BY <1>1, SiteChanges DEF commentVars, CommentsInv, SiteOK
  <1>2. CASE CommentsNext
    BY <1>2, WriteKeeps, DeleteKeeps, JobKeeps, StoreKeeps, FinalizeKeeps DEF CommentsNext
  <1> QED BY <1>1, <1>2

LEMMA AlwaysCommentsInv == CommentsSpec => []CommentsInv
  <1>1. CommentsInv /\ [CommentsNext]_commentVars => CommentsInv'
    BY CommentsStep
  <1> QED BY <1>1, CommentsStart, PTL DEF CommentsSpec

LEMMA CommentsTypes == ASSUME CommentsInv PROVE CommentsTypeOK
  <1>1. Range(board) \subseteq Threads
    BY ElementOfSeq, LenProperties DEF CommentsInv, SiteOK, Range
  <1>2. \A list \in Lists : Range(list) \subseteq ItemType
    BY ElementOfSeq, LenProperties DEF Lists, Range, Sound
  <1>3. Range(kept) \cup Range(collect.fetched) \subseteq ItemType
    BY <1>2 DEF CommentsInv, CollectJobs
  <1> QED BY <1>1, <1>3 DEF CommentsInv, SiteOK, CommentsTypeOK, Lists, Apart, CollectJobs

(***************************************************************************)
(* Whatever pages fail, is deleted on the site, or dies: a comment that is *)
(* stored is shown by the catalogue and stays stored by every later run    *)
(* and refresh, and a reply below a root stays below it.                   *)
(***************************************************************************)
THEOREM StoredCommentsAreKept == CommentsSpec => CommentsKept
  <1>1. CommentsInv => Ids(kept) \subseteq Ids(Shown(kept))
    BY ThreadedKeeps DEF CommentsInv, Lists, Shown
  <1>2. CommentsInv /\ [CommentsNext]_commentVars
           => [Ids(kept) \subseteq Ids(Shown(kept)) \cap Ids(kept') /\ Below(kept) \subseteq Below(kept')]_commentVars
    BY <1>1, CommentsStep DEF Keeping
  <1> QED BY <1>2, AlwaysCommentsInv, PTL DEF CommentsSpec, CommentsKept

-----------------------------------------------------------------------------
(***************************************************************************)
(* The index.  What a thread holds are models of the library, and a        *)
(* version that is stored was written.                                     *)
(***************************************************************************)
Updates == {"read", "row", "patch", "delete"}
ChangeOK(u) ==
    /\ DOMAIN u = {"at", "model", "early"}
    /\ u.at = "no" \/ (u.at \in Updates /\ u.model \in Indexed)
RepairsOK(r) ==
    /\ DOMAIN r = {"running", "dirs", "print", "failed", "wait"}
    /\ r.dirs \subseteq Indexed /\ (r.running => ~ r.failed /\ ~ r.wait)
ThreadOK(t) ==
    /\ DOMAIN t = {"at", "left", "failed"}
    /\ t.left \subseteq Indexed
RowType == [there : BOOLEAN, sig : 0 .. Versions]
IndexInv ==
    /\ written \in 0 .. Versions /\ file \in [Indexed -> 0 .. written] /\ row \in [Indexed -> RowType]
    /\ complete \in BOOLEAN /\ snapshot \in [Process -> {"none", "current", "old"}]
    /\ DOMAIN change = Actor /\ \A a \in Actor : ChangeOK(change[a])
    /\ request \in [Process -> SUBSET Indexed]
    /\ RepairsOK(repairs) /\ ThreadOK(thread) /\ indexFails \in 0 .. IndexFails

LEMMA IndexStart == ASSUME IndexInit PROVE IndexInv
  <1>1. ChangeOK(NoUpdate) /\ RepairsOK(NoRepair) /\ ThreadOK(Idle)
    BY DEF ChangeOK, NoUpdate, RepairsOK, NoRepair, ThreadOK, Idle
  <1>2. \A a \in Actor : ChangeOK(change[a])
    BY <1>1 DEF IndexInit
  <1>3. written \in 0 .. Versions /\ file \in [Indexed -> 0 .. written] /\ row \in [Indexed -> RowType]
    <2>1. CASE complete
      <3>1. written = 1 /\ 1 \in 0 .. Versions /\ [there |-> TRUE, sig |-> 1] \in RowType
        BY <2>1, IndexAssumption DEF IndexInit, RowType
      <3> DEFINE stored == [there |-> TRUE, sig |-> 1]
      <3>2. row = [m \in Indexed |-> stored]
        BY <2>1 DEF IndexInit
      <3> HIDE DEF stored
      <3>3. stored \in RowType
        BY <3>1 DEF stored
      <3> QED BY <3>1, <3>2, <3>3 DEF IndexInit
    <2>2. CASE ~ complete
      <3>1. written = 0 /\ 0 \in 0 .. Versions /\ NoRow \in RowType
        BY <2>2, IndexAssumption DEF IndexInit, RowType, NoRow
      <3> QED BY <2>2, <3>1 DEF IndexInit
    <2> QED BY <2>1, <2>2
  <1> QED BY <1>1, <1>2, <1>3, IndexAssumption DEF IndexInit, IndexInv

LEMMA UpdateBegins ==
  ASSUME NEW at \in Updates, NEW m \in Indexed
  PROVE  ChangeOK([NoUpdate EXCEPT !.at = at, !.model = m])
  <1>1. DOMAIN NoUpdate = {"at", "model", "early"}
    BY DEF NoUpdate
  <1> QED BY <1>1 DEF ChangeOK

LEMMA UpdateTypes ==
  ASSUME IndexInv
  PROVE  /\ ChangeOK(NoUpdate) /\ {"api", "worker", "repair"} = Actor /\ Process \subseteq Actor
         /\ \A a \in Actor : change[a].at # "no" => change[a].model \in Indexed
         /\ \A p \in Process : Invalidated(p) \in [Process -> {"none", "current", "old"}]
         /\ \A p \in Process : [Outdated EXCEPT ![p] = "current"] \in [Process -> {"none", "current", "old"}]
         /\ DatabaseFails => indexFails' \in 0 .. IndexFails
  <1>1. ChangeOK(NoUpdate)
    BY DEF ChangeOK, NoUpdate
  <1>2. Outdated \in [Process -> {"none", "current", "old"}]
    BY DEF IndexInv, Outdated
  <1>3. DatabaseFails => indexFails' \in 0 .. IndexFails
    BY IndexAssumption DEF IndexInv, DatabaseFails
  <1> QED BY <1>1, <1>2, <1>3 DEF IndexInv, ChangeOK, Actor, Process, Invalidated

LEMMA StoreRowTypes ==
  ASSUME IndexInv, NEW a \in Actor, change[a].at # "no", StoreRow(a)
  PROVE  row' \in [Indexed -> RowType]
  <1>1. change[a].model \in Indexed
    BY UpdateTypes
  <1>2. file[change[a].model] \in 0 .. Versions
    BY <1>1, IndexAssumption DEF IndexInv
  <1> QED BY <1>1, <1>2 DEF IndexInv, StoreRow, RowType

LEMMA SnapshotSteps ==
  ASSUME IndexInv, NEW p \in Process,
         ReadSnapshot(p) \/ AskForRepair(p) \/ ReadModel(p) \/ UpsertRow(p) \/ PatchSnapshot(p)
  PROVE  IndexInv'
  <1>1. CASE ReadSnapshot(p)
    <2>1. Disagreeing \in SUBSET Indexed
      BY DEF Disagreeing
    <2>2. request' \in [Process -> SUBSET Indexed] /\ snapshot' \in [Process -> {"none", "current", "old"}]
      BY <1>1, <2>1 DEF ReadSnapshot, Rebuilt, IndexInv
    <2>3. DOMAIN change' = Actor /\ \A a \in Actor : ChangeOK(change'[a])
      <3>1. change' = [a \in Actor |-> IF Owner(a) = p THEN [change[a] EXCEPT !.early = FALSE] ELSE change[a]]
        BY <1>1 DEF ReadSnapshot, Rebuilt
      <3>2. \A a \in Actor : ChangeOK(change[a])
        BY DEF IndexInv
      <3>3. ASSUME NEW u, ChangeOK(u) PROVE ChangeOK([u EXCEPT !.early = FALSE])
        BY <3>3 DEF ChangeOK
      <3> QED BY <3>1, <3>2, <3>3
    <2> QED BY <1>1, <2>2, <2>3 DEF ReadSnapshot, IndexInv
  <1>2. CASE AskForRepair(p)
    <2>1. request[p] \in SUBSET Indexed
      BY DEF IndexInv
    <2>2. RepairsOK(repairs')
      BY <1>2, <2>1 DEF AskForRepair, NoRepair, RepairsOK
    <2> QED BY <1>2, <2>2 DEF AskForRepair, IndexInv
  <1>3. CASE ReadModel(p)
    <2>1. p \in Actor /\ ChangeOK(NoUpdate) /\ ChangeOK(change[p]) /\ change[p].at = "read"
      BY <1>3, UpdateTypes DEF IndexInv, ReadModel, UpdateIs
    <2>2. DOMAIN change' = Actor /\ \A a \in Actor : ChangeOK(change'[a])
      <3>1. CASE change' = [change EXCEPT ![p] = NoUpdate]
        BY <2>1, <3>1 DEF IndexInv
      <3>2. CASE change' = [change EXCEPT ![p].at = "row", ![p].early = snapshot[p] = "current"]
        <4>1. ChangeOK(change'[p])
          BY <2>1, <3>2 DEF ChangeOK, Updates, IndexInv
        <4> QED BY <3>2, <4>1 DEF IndexInv
      <3> QED BY <1>3, <3>1, <3>2 DEF ReadModel
    <2>3. snapshot' \in [Process -> {"none", "current", "old"}]
      BY <1>3, UpdateTypes DEF ReadModel, IndexInv
    <2> QED BY <1>3, <2>2, <2>3 DEF ReadModel, IndexInv
  <1>4. CASE UpsertRow(p)
    <2>1. p \in Actor /\ ChangeOK(change[p]) /\ change[p].at = "row"
      BY <1>4, UpdateTypes DEF IndexInv, UpsertRow, UpdateIs
    <2>2. DOMAIN change' = Actor /\ \A a \in Actor : ChangeOK(change'[a])
      <3>1. ChangeOK([change[p] EXCEPT !.at = "patch"])
        BY <2>1 DEF ChangeOK, Updates
      <3> QED BY <1>4, <2>1, <3>1 DEF UpsertRow, IndexInv
    <2>3. row' \in [Indexed -> RowType] /\ indexFails' \in 0 .. IndexFails
      BY <1>4, <2>1, StoreRowTypes, UpdateTypes DEF UpsertRow, IndexInv
    <2> QED BY <1>4, <2>2, <2>3 DEF UpsertRow, IndexInv
  <1>5. CASE PatchSnapshot(p)
    <2>1. \A a \in Actor : ChangeOK(change'[a]) /\ DOMAIN change' = Actor
      BY <1>5, UpdateTypes DEF PatchSnapshot, IndexInv
    <2>2. snapshot' \in [Process -> {"none", "current", "old"}]
      BY <1>5, UpdateTypes DEF PatchSnapshot
    <2>3. DOMAIN change' = Actor
      BY <2>1, UpdateTypes
    <2> QED BY <1>5, <2>1, <2>2, <2>3 DEF PatchSnapshot, IndexInv
  <1> QED BY <1>1, <1>2, <1>3, <1>4, <1>5

LEMMA FileSteps ==
  ASSUME IndexInv, (\E p \in Process, m \in Indexed : WriteMetaJson(p, m))
                   \/ (\E m \in Indexed : DeleteModel(m)) \/ DeleteRow
  PROVE  IndexInv'
  <1>1. ASSUME NEW p \in Process, NEW m \in Indexed, WriteMetaJson(p, m) PROVE IndexInv'
    <2>1. written' \in 0 .. Versions /\ file' \in [Indexed -> 0 .. written']
      <3>1. /\ written' = written + 1 /\ file' = [file EXCEPT ![m] = written + 1] /\ written < Versions
            /\ written \in 0 .. Versions /\ file \in [Indexed -> 0 .. written]
        BY <1>1 DEF WriteMetaJson, IndexInv
      <3>2. 0 .. written \subseteq 0 .. written + 1 /\ written + 1 \in 0 .. written + 1 /\ written + 1 \in 0 .. Versions
        BY <3>1, IndexAssumption
      <3> QED BY <3>1, <3>2
    <2>2. ChangeOK([NoUpdate EXCEPT !.at = "read", !.model = m])
      BY UpdateBegins DEF Updates
    <2>3. DOMAIN change' = Actor /\ \A a \in Actor : ChangeOK(change'[a])
      BY <1>1, <2>2 DEF WriteMetaJson, IndexInv
    <2> QED BY <1>1, <2>1, <2>3 DEF WriteMetaJson, IndexInv
  <1>2. ASSUME NEW m \in Indexed, DeleteModel(m) PROVE IndexInv'
    <2>1. file' \in [Indexed -> 0 .. written]
      <3>1. file' = [file EXCEPT ![m] = 0] /\ file \in [Indexed -> 0 .. written] /\ 0 \in 0 .. written
        <4>1. file' = [file EXCEPT ![m] = 0]
          BY <1>2 DEF DeleteModel
        <4> QED BY <4>1, IndexAssumption DEF IndexInv
      <3> QED BY <3>1
    <2>2. ChangeOK([NoUpdate EXCEPT !.at = "delete", !.model = m])
      BY UpdateBegins DEF Updates
    <2>3. DOMAIN change' = Actor /\ \A a \in Actor : ChangeOK(change'[a])
      BY <1>2, <2>2 DEF DeleteModel, IndexInv
    <2> QED BY <1>2, <2>1, <2>3 DEF DeleteModel, IndexInv
  <1>3. CASE DeleteRow
    <2>1. DOMAIN change' = Actor /\ \A a \in Actor : ChangeOK(change'[a])
      BY <1>3, UpdateTypes DEF DeleteRow, IndexInv
    <2>2. snapshot' \in [Process -> {"none", "current", "old"}]
      BY <1>3, UpdateTypes DEF DeleteRow, Process
    <2>3. row' \in [Indexed -> RowType] /\ indexFails' \in 0 .. IndexFails
      <3>1. NoRow \in RowType
        BY IndexAssumption DEF NoRow, RowType
      <3> QED BY <1>3, <3>1, UpdateTypes DEF DeleteRow, IndexInv
    <2> QED BY <1>3, <2>1, <2>2, <2>3 DEF DeleteRow, IndexInv
  <1> QED BY <1>1, <1>2, <1>3

LEMMA HandledType ==
  ASSUME IndexInv, NEW m, NEW ok, Handled(m, ok)
  PROVE  ThreadOK(thread')
  BY DEF IndexInv, ThreadOK, Handled

LEMMA RepairSteps ==
  ASSUME IndexInv, RepairStep
  PROVE  IndexInv'
  <1>1. CASE StartRepair
    <2>1. ThreadOK(thread')
      BY <1>1 DEF StartRepair, Idle, ThreadOK, IndexInv, RepairsOK
    <2> QED BY <1>1, <2>1 DEF StartRepair, IndexInv
  <1>2. CASE RepairWrites
    <2>1. "repair" \in Actor /\ change["repair"].at # "no"
      BY <1>2 DEF RepairWrites, UpdateIs, Actor
    <2>2. row' \in [Indexed -> RowType] /\ indexFails' \in 0 .. IndexFails /\ ThreadOK(thread')
      BY <1>2, <2>1, StoreRowTypes, HandledType, UpdateTypes DEF RepairWrites, IndexInv
    <2>3. DOMAIN change' = Actor /\ \A a \in Actor : ChangeOK(change'[a])
      BY <1>2, UpdateTypes DEF RepairWrites, IndexInv
    <2> QED BY <1>2, <2>2, <2>3 DEF RepairWrites, IndexInv
  <1>3. CASE RepairDone
    <2>1. ThreadOK(thread')
      BY <1>3 DEF RepairDone, ThreadOK, IndexInv
    <2>2. snapshot' \in [Process -> {"none", "current", "old"}]
      BY <1>3, UpdateTypes DEF RepairDone, Process
    <2>3. complete' \in BOOLEAN
      <3>1. complete' = ~ thread.failed \/ complete' = complete
        BY <1>3 DEF RepairDone
      <3> QED BY <3>1 DEF IndexInv
    <2> QED BY <1>3, <2>1, <2>2, <2>3 DEF RepairDone, IndexInv
  <1>4. CASE ReportRepair
    <2>1. ThreadOK(thread')
      BY <1>4 DEF ReportRepair, ThreadOK, Idle
    <2>2. RepairsOK(repairs') /\ indexFails' \in 0 .. IndexFails
      BY <1>4, UpdateTypes DEF ReportRepair, RepairsOK, IndexInv
    <2> QED BY <1>4, <2>1, <2>2 DEF ReportRepair, IndexInv
  <1>5. ASSUME NEW m \in Indexed, RepairGone(m) PROVE IndexInv'
    <2>1. NoRow \in RowType
      BY IndexAssumption DEF NoRow, RowType
    <2>2. row' \in [Indexed -> RowType] /\ indexFails' \in 0 .. IndexFails
      <3>1. row' = [row EXCEPT ![m] = NoRow] \/ row' = row
        BY <1>5 DEF RepairGone
      <3>2. indexFails' = indexFails \/ DatabaseFails
        BY <1>5 DEF RepairGone
      <3> QED BY <2>1, <3>1, <3>2, UpdateTypes DEF IndexInv
    <2>3. ThreadOK(thread')
      <3>1. \E ok : Handled(m, ok)
        BY <1>5 DEF RepairGone
      <3> QED BY <3>1, HandledType
    <2> QED BY <1>5, <2>2, <2>3 DEF RepairGone, IndexInv
  <1>6. ASSUME NEW m \in Indexed, RepairRead(m) PROVE IndexInv'
    <2>1. ChangeOK([NoUpdate EXCEPT !.at = "row", !.model = m])
      BY UpdateBegins DEF Updates
    <2>2. DOMAIN change' = Actor /\ \A a \in Actor : ChangeOK(change'[a])
      BY <1>6, <2>1 DEF RepairRead, IndexInv
    <2> QED BY <1>6, <2>2 DEF RepairRead, IndexInv
  <1>7. ASSUME NEW m \in Indexed, RepairUnreadable(m) PROVE IndexInv'
    BY <1>7, HandledType DEF RepairUnreadable, IndexInv
  <1> QED BY <1>1, <1>2, <1>3, <1>4, <1>5, <1>6, <1>7 DEF RepairStep

LEMMA IndexStep ==
  ASSUME IndexInv, [IndexNext]_indexVars
  PROVE  IndexInv'
  <1>1. CASE ReleaseMemory
    BY <1>1 DEF ReleaseMemory, IndexInv
  <1>2. CASE RequestRebuild
    <2>1. RepairsOK(repairs')
      BY <1>2 DEF RequestRebuild, RepairsOK, NoRepair
    <2> QED BY <1>2, <2>1 DEF RequestRebuild, IndexInv
  <1>3. CASE RetryPasses
    <2>1. RepairsOK(repairs')
      BY <1>3 DEF RetryPasses, RepairsOK, IndexInv
    <2> QED BY <1>3, <2>1 DEF RetryPasses, IndexInv
  <1>4. CASE IndexWorkerDies
    <2>1. ThreadOK(thread')
      BY <1>4 DEF IndexWorkerDies, ThreadOK, Idle
    <2>2. DOMAIN change' = Actor /\ \A a \in Actor : ChangeOK(change'[a])
      BY <1>4, UpdateTypes DEF IndexWorkerDies, IndexInv
    <2>3. indexFails' \in 0 .. IndexFails
      BY <1>4, UpdateTypes DEF IndexWorkerDies
    <2> QED BY <1>4, <2>1, <2>2, <2>3 DEF IndexWorkerDies, IndexInv
  <1>5. CASE UNCHANGED indexVars
    BY <1>5 DEF indexVars, IndexInv
  <1> QED BY <1>1, <1>2, <1>3, <1>4, <1>5, SnapshotSteps, FileSteps, RepairSteps DEF IndexNext

LEMMA IndexTypes == ASSUME IndexInv PROVE IndexTypeOK
  BY DEF IndexInv, IndexTypeOK, ChangeOK, Updates, RepairsOK, ThreadOK, RowType

-----------------------------------------------------------------------------
(***************************************************************************)
(* A scan.  Whatever it takes for the list are models that were on it.     *)
(***************************************************************************)
ResultOK(r) == DOMAIN r = {"items", "total", "strict"} /\ r.items \subseteq Listable
ScanFields == {"at", "probe", "pageTotal", "offset", "pages", "budget", "found", "total", "best"}
ScanOK(s) ==
    /\ DOMAIN s = ScanFields /\ s.at \in {"none", "first", "page", "again", "folder", "html"}
    /\ s.pageTotal \in Nat /\ s.found \subseteq Listable /\ ResultOK(s.best)
ScanInv ==
    /\ listed \in Seq(Listable)
    /\ current \subseteq Listable /\ tracked \subseteq Listable /\ absent \subseteq Listable
    /\ ScanOK(scan) /\ changes \in 0 .. Changes /\ misses \in 0 .. Misses
\* The part of it that a result may change.
Ending == ScanOK(scan') /\ current' \subseteq Listable /\ tracked' \subseteq Listable /\ absent' \subseteq Listable

LEMMA NoScanType == ScanOK(NoScan) /\ ScanOK(FullScan) /\ ResultOK(Nothing)
  <1>1. ResultOK(Nothing)
    BY DEF ResultOK, Nothing
  <1>2. DOMAIN NoScan = ScanFields /\ ScanOK(NoScan)
    BY <1>1 DEF ScanOK, ScanFields, NoScan
  <1>3. ScanOK(FullScan)
    BY <1>1, <1>2 DEF ScanOK, ScanFields, NoScan, FullScan
  <1> QED BY <1>1, <1>2, <1>3

LEMMA ScanStarts == ASSUME ScanInit PROVE ScanInv
  BY NoScanType, EmptySeq, DiscoveryAssumption DEF ScanInit, ScanInv

LEMMA ModelsListed == ASSUME ScanInv PROVE Models(listed) \subseteq Listable
  BY ElementOfSeq, LenProperties DEF ScanInv, Models

LEMMA JudgeKeeps ==
  ASSUME ScanInv, NEW r, ResultOK(r), Judge(r)
  PROVE  Ending
  <1>1. ScanOK(scan') /\ absent' \subseteq Listable
    BY NoScanType DEF Judge, Ends
  <1>2. current' \subseteq Listable /\ tracked' \subseteq Listable
    BY DEF Judge, Settled, ScanInv, ResultOK
  <1> QED BY <1>1, <1>2 DEF Ending
LEMMA DeliverKeeps ==
  ASSUME ScanInv, NEW r, ResultOK(r), Deliver(r)
  PROVE  Ending
  <1>1. CASE ~ scan.probe
    BY <1>1, JudgeKeeps DEF Deliver
  <1>2. CASE scan.probe /\ KnownFrontier(r)
    BY <1>2, NoScanType DEF Deliver, Ends, Settled, Ending, ScanInv
  <1>3. CASE scan.probe /\ ~ KnownFrontier(r)
    BY <1>3, NoScanType DEF Deliver, record, Ending, ScanInv
  <1> QED BY <1>1, <1>2, <1>3
LEMMA ToldType == ASSUME NEW r, ResultOK(r) PROVE ResultOK(Told(r))
  BY DEF ResultOK, Told
LEMMA BetterType == ASSUME NEW a, NEW b, ResultOK(a), ResultOK(b) PROVE ResultOK(Better(a, b))
  BY DEF Better

LEMMA RouteKeeps ==
  ASSUME ScanInv, Paging, NEW r, ResultOK(r), RouteEnds(r)
  PROVE  Ending
  <1> DEFINE best == Better(scan.best, r)
             goOn(place) == scan' = [Fresh(place) EXCEPT !.best = best] /\ UNCHANGED <<record, absent>>
  <1>1. ResultOK(best) /\ ScanOK(scan)
    BY BetterType DEF ScanInv, ScanOK
  <1>2. \/ Deliver(r) \/ Judge(r) \/ Judge(Told(best))
        \/ \E place \in {"html", "again", "folder"} : goOn(place)
    <2>1. scan.pageTotal > 0 \/ scan.pageTotal = 0
      BY <1>1 DEF ScanOK
    <2> HIDE DEF best
    <2> QED BY <2>1 DEF RouteEnds, Paging, ScanIs, best
  <1> HIDE DEF best
  <1>3. ASSUME NEW place \in {"html", "again", "folder"}, goOn(place) PROVE Ending
    <2>1. ScanOK(Fresh(place))
      BY <1>1 DEF ScanOK, Fresh
    <2>2. ScanOK(scan')
      BY <1>1, <1>3, <2>1 DEF ScanOK
    <2> QED BY <1>3, <2>2 DEF Ending, ScanInv, record
  <1>4. CASE Judge(Told(best))
    BY <1>1, <1>4, ToldType, JudgeKeeps
  <1> QED BY <1>2, <1>3, <1>4, DeliverKeeps, JudgeKeeps

LEMMA PageReadKeeps ==
  ASSUME ScanInv, ReadPage
  PROVE  Ending /\ UNCHANGED <<listed, changes, misses>>
  <1> DEFINE hits   == PageAt(scan.offset)
             size   == Larger(Count(hits), 1)
             found  == scan.found \cup hits
             result == [items |-> found, total |-> ToldSoFar, strict |-> listed # <<>>]
  <1>1. found \subseteq Listable
    BY ElementOfSeq, LenProperties DEF ScanInv, PageAt, ScanOK
  <1>2. ResultOK(result)
    <2> HIDE DEF found
    <2> QED BY <1>1 DEF ResultOK
  <1>3. \/ Deliver(result) \/ RouteEnds(result)
        \/ /\ scan' = [scan EXCEPT !.offset = @ + size, !.pages = @ + 1, !.budget = Budget(size),
                                   !.found = found, !.total = ToldSoFar]
           /\ UNCHANGED <<record, absent>>
    <2> HIDE DEF hits, size, found, result
    <2> QED BY DEF ReadPage, hits, size, found, result
  <1>4. Paging /\ UNCHANGED <<listed, changes, misses>>
    BY DEF ReadPage
  <1> HIDE DEF hits, size, found, result
  <1>5. CASE /\ scan' = [scan EXCEPT !.offset = @ + size, !.pages = @ + 1, !.budget = Budget(size),
                                   !.found = found, !.total = ToldSoFar]
             /\ UNCHANGED <<record, absent>>
    <2>1. ScanOK(scan')
      BY <1>1, <1>5 DEF ScanInv, ScanOK, ScanFields
    <2> QED BY <1>4, <1>5, <2>1 DEF Ending, ScanInv, record
  <1> QED BY <1>2, <1>3, <1>4, <1>5, DeliverKeeps, RouteKeeps

LEMMA MissedType == ASSUME ScanInv, Missed PROVE misses' \in 0 .. Misses
  BY DiscoveryAssumption DEF ScanInv, Missed

LEMMA HtmlKeeps ==
  ASSUME ScanInv, ReadHtml \/ HtmlIsEmpty
  PROVE  Ending /\ UNCHANGED <<listed, changes>> /\ misses' \in 0 .. Misses
  <1>1. ResultOK(scan.best) /\ ResultOK(Nothing) /\ misses \in 0 .. Misses
    BY NoScanType DEF ScanInv, ScanOK
  <1>2. CASE ReadHtml
    <2>1. PICK n \in 1 .. Len(listed) :
             LET shown == [Nothing EXCEPT !.items = Models(SubSeq(listed, 1, n))]
             IN IF kind = "author" THEN Deliver(shown) ELSE Judge(Told(Better(scan.best, shown)))
      BY <1>2 DEF ReadHtml
    <2> DEFINE models == Models(SubSeq(listed, 1, n))
               shown == [Nothing EXCEPT !.items = models]
    <2>2. models \subseteq Listable
      <3>1. listed \in Seq(Listable) /\ Len(listed) \in Nat /\ \A k \in 1 .. Len(listed) : listed[k] \in Listable
        BY ElementOfSeq, LenProperties DEF ScanInv
      <3>2. SubSeq(listed, 1, n) \in Seq(Listable)
        BY <3>1, SubSeqProperties
      <3> QED BY <3>2, ElementOfSeq, LenProperties DEF Models
    <2> HIDE DEF models
    <2>3. ResultOK(shown)
      BY <1>1, <2>2 DEF ResultOK
    <2>4. ResultOK(Told(Better(scan.best, shown)))
      <3> HIDE DEF shown
      <3> QED BY <1>1, <2>3, BetterType, ToldType
    <2>5. Deliver(shown) \/ Judge(Told(Better(scan.best, shown)))
      BY <2>1 DEF models
    <2> HIDE DEF shown
    <2> QED BY <1>1, <1>2, <2>3, <2>4, <2>5, DeliverKeeps, JudgeKeeps DEF ReadHtml
  <1>3. CASE HtmlIsEmpty
    <2>1. misses' \in 0 .. Misses
      <3>1. misses' = misses \/ Missed
        BY <1>3 DEF HtmlIsEmpty, Missed
      <3> QED BY <1>1, <3>1, MissedType
    <2>2. CASE Judge(Told(scan.best))
      BY <1>1, <1>3, <2>1, <2>2, ToldType, JudgeKeeps DEF HtmlIsEmpty
    <2>3. CASE Ends /\ UNCHANGED record
      BY <1>3, <2>1, <2>3, NoScanType DEF HtmlIsEmpty, Ends, Ending, ScanInv, record
    <2> QED BY <1>3, <2>2, <2>3 DEF HtmlIsEmpty
  <1> QED BY <1>2, <1>3

LEMMA ScanStepKeeps ==
  ASSUME ScanInv, ScanStep
  PROVE  Ending /\ UNCHANGED <<listed, changes>> /\ misses' \in 0 .. Misses
  <1>0. misses \in 0 .. Misses
    BY DEF ScanInv
  <1>1. CASE FetchPageTotal
    <2>1. Len(listed) \in Nat /\ ScanOK(scan)
      BY LenProperties DEF ScanInv
    <2>2. ScanOK(scan')
      <3>1. PICK total \in Nat : \/ scan' = [scan EXCEPT !.at = "page", !.pageTotal = total]
                                 \/ scan' = [scan EXCEPT !.at = "page"]
        BY <1>1, <2>1 DEF FetchPageTotal
      <3> QED BY <2>1, <3>1 DEF ScanOK, ScanFields
    <2>3. misses' \in 0 .. Misses
      BY <1>0, <1>1, MissedType DEF FetchPageTotal
    <2> QED BY <1>1, <2>2, <2>3 DEF FetchPageTotal, Ending, ScanInv, record
  <1>2. CASE PageFails
    <2> DEFINE result == [items |-> scan.found, total |-> scan.total, strict |-> ScanIs("folder") /\ scan.total > 0]
    <2>1. ResultOK(result)
      <3>1. scan.found \subseteq Listable
        BY DEF ScanInv, ScanOK
      <3> QED BY <3>1 DEF ResultOK
    <2>2. Paging /\ RouteEnds(result) /\ Missed /\ UNCHANGED <<listed, changes>>
      BY <1>2 DEF PageFails
    <2> HIDE DEF result
    <2> QED BY <2>1, <2>2, RouteKeeps, MissedType
  <1>3. CASE ScanFails
    BY <1>3, NoScanType, MissedType DEF ScanFails, Ends, Ending, ScanInv, record
  <1> QED BY <1>0, <1>1, <1>2, <1>3, PageReadKeeps, HtmlKeeps DEF ScanStep

LEMMA ListMoves ==
  ASSUME ScanInv, NEW k \in Listable, ListModel(k) \/ UnlistModel(k)
  PROVE  ScanInv'
  <1>1. listed \in Seq(Listable) /\ Len(listed) \in Nat /\ DOMAIN listed = 1 .. Len(listed)
        /\ \A n \in 1 .. Len(listed) : listed[n] \in Listable
    BY ElementOfSeq, LenProperties DEF ScanInv
  <1>2. PICK list \in Seq(Listable) : ListChanges(list)
    <2>1. CASE ListModel(k)
      <3>1. <<k>> \o listed \in Seq(Listable)
        BY <1>1, ConcatProperties
      <3> QED BY <2>1, <3>1 DEF ListModel
    <2>2. CASE UnlistModel(k)
      <3>1. PICK n \in DOMAIN listed : ListChanges(RemoveAt(listed, n))
        BY <2>2 DEF UnlistModel
      <3>2. n \in 1 .. Len(listed) /\ n - 1 \in Int /\ n + 1 \in Int /\ n - 1 <= Len(listed)
        BY <1>1
      <3>3. SubSeq(listed, 1, n - 1) \in Seq(Listable) /\ SubSeq(listed, n + 1, Len(listed)) \in Seq(Listable)
        <4>1. \A i \in 1 .. n - 1 : listed[i] \in Listable
          BY <1>1, <3>2
        <4>2. \A i \in n + 1 .. Len(listed) : listed[i] \in Listable
          BY <1>1, <3>2
        <4> QED BY <1>1, <3>2, <4>1, <4>2, SubSeqProperties
      <3>4. RemoveAt(listed, n) \in Seq(Listable)
        BY <3>3, ConcatProperties DEF RemoveAt
      <3> QED BY <3>1, <3>4
    <2> QED BY <2>1, <2>2
  <1>3. absent' \subseteq Listable
    BY <1>2, ModelsListed DEF ListChanges, ScanInv
  <1>4. changes' \in 0 .. Changes
    BY <1>2, DiscoveryAssumption DEF ListChanges, ScanInv
  <1> QED BY <1>2, <1>3, <1>4 DEF ListChanges, ScanInv, record

LEMMA ScanNextKeeps ==
  ASSUME ScanInv, [ScanNext]_listVars
  PROVE  ScanInv'
  <1>1. CASE DayPasses
    BY <1>1 DEF DayPasses, ScanInv
  <1>2. CASE StartScan
    <2>1. ScanOK(scan')
      <3>1. DOMAIN FullScan = ScanFields /\ ScanOK(FullScan)
        BY NoScanType DEF ScanOK
      <3>2. scan' = [FullScan EXCEPT !.probe = TRUE, !.budget = 1] \/ scan' = FullScan
        BY <1>2 DEF StartScan
      <3> QED BY <3>1, <3>2 DEF ScanOK, ScanFields
    <2> QED BY <1>2, <2>1 DEF StartScan, ScanInv, record
  <1>3. CASE ScanStep
    BY <1>3, ScanStepKeeps DEF Ending, ScanInv
  <1>4. CASE UNCHANGED listVars
    BY <1>4 DEF listVars, record, ScanInv
  <1> QED BY <1>1, <1>2, <1>3, <1>4, ListMoves DEF ScanNext

LEMMA ScanTypes == ASSUME ScanInv PROVE ScanTypeOK
  BY ModelsListed DEF ScanInv, ScanOK, ResultOK, ScanTypeOK

(***************************************************************************)
(* Scans under which a deletion mark can be trusted: no page fails, and no *)
(* model leaves the list while a scan runs.                                *)
(***************************************************************************)
Undisturbed == ~ PageFails /\ (ScanIs("none") \/ Models(listed) \subseteq Models(listed'))
UndisturbedSpec == ScanInit /\ [][ScanNext /\ Undisturbed]_listVars

\* A scan of an author keeps to the pages of the list, has found what is on it,
\* and whatever is not on the list has been absent.
MarksInv ==
    /\ ScanInv
    /\ kind = "author" =>
         /\ scan.at \in {"none", "first", "page"}
         /\ ~ ScanIs("none") => scan.found \subseteq Models(listed) /\ Listable \ Models(listed) \subseteq absent

\* As many models as the list is long are all of them.
LEMMA AllFound ==
  ASSUME ScanInv, NEW items, items \subseteq Models(listed)
  PROVE  Count(items) \in Nat /\ (~ (Count(items) < Len(listed)) => items = Models(listed))
  <1> DEFINE places == DOMAIN listed
             f == [n \in places |-> listed[n]]
  <1>1. Len(listed) \in Nat /\ places = 1 .. Len(listed)
    BY LenProperties DEF ScanInv
  <1>2. IsFiniteSet(places) /\ Cardinality(places) = Len(listed)
    <2>1. ASSUME NEW n \in Nat PROVE IsFiniteSet(1 .. n) /\ Cardinality(1 .. n) = n
      <3>1. IsFiniteSet(1 .. n) /\ Cardinality(1 .. n) = IF 1 > n THEN 0 ELSE n - 1 + 1
        <4>1. 1 \in Int /\ n \in Int
          OBVIOUS
        <4> QED BY <4>1, FS_Interval
      <3>2. (IF 1 > n THEN 0 ELSE n - 1 + 1) = n
        OBVIOUS
      <3> QED BY <3>1, <3>2
    <2> QED BY <1>1, <2>1
  <1>3. f \in Surjection(places, Models(listed))
    BY DEF Models, Surjection
  <1>4. IsFiniteSet(Models(listed)) /\ Cardinality(Models(listed)) <= Len(listed)
    BY <1>2, <1>3, FS_Surjection
  <1>5. Cardinality(Models(listed)) \in Nat
    BY <1>4, FS_CardinalityType
  <1>6. /\ IsFiniteSet(items) /\ Cardinality(items) <= Cardinality(Models(listed))
        /\ Cardinality(items) = Cardinality(Models(listed)) => items = Models(listed)
    BY <1>4, FS_Subset
  <1>7. Cardinality(items) \in Nat
    BY <1>6, FS_CardinalityType
  <1> QED BY <1>1, <1>4, <1>5, <1>6, <1>7 DEF Count

\* What a scan of the pages delivers marks only what the list does not have.
LEMMA DeliversWhole ==
  ASSUME MarksInv, kind = "author", ~ ScanIs("none"), kind' = kind, NEW r, ResultOK(r),
         r.items \subseteq Models(listed), listed # <<>> => r.total = Len(listed),
         r.strict = (listed # <<>>), Deliver(r)
  PROVE  /\ Deleted' \ Deleted \subseteq absent
         /\ \/ scan' = NoScan
            \/ scan' = FullScan /\ absent' = absent
  <1>1. CASE scan.probe
    <2>1. CASE KnownFrontier(r)
      BY <1>1, <2>1 DEF Deliver, Ends, Settled, Deleted
    <2>2. CASE ~ KnownFrontier(r)
      BY <1>1, <2>2 DEF Deliver, record, Deleted
    <2> QED BY <2>1, <2>2
  <1>2. CASE ~ scan.probe
    <2>1. Judge(r) /\ ~ HistoryDrop(r) /\ scan' = NoScan
      BY <1>2 DEF Deliver, Judge, HistoryDrop, Ends
    <2>2. CASE TooFew(r)
      <3>1. tracked' \ current' \subseteq tracked \ current
        BY <2>1, <2>2 DEF Judge, Settled
      <3> QED BY <2>1, <3>1 DEF Deleted
    <2>3. CASE ~ TooFew(r)
      <3>1. r.items = Models(listed)
        <4>1. CASE listed = <<>>
          BY <4>1 DEF Models
        <4>2. CASE listed # <<>>
          <5>1. ~ (Count(r.items) < Len(listed))
            BY <2>3, <4>2 DEF TooFew
          <5> QED BY <5>1, AllFound DEF MarksInv
        <4> QED BY <4>1, <4>2
      <3>2. current' = r.items /\ tracked' = tracked \cup r.items
        BY <2>1, <2>3 DEF Judge, Settled
      <3>3. tracked \subseteq Listable /\ Listable \ Models(listed) \subseteq absent
        BY DEF MarksInv, ScanInv
      <3> QED BY <2>1, <3>1, <3>2, <3>3 DEF Deleted
    <2> QED BY <2>1, <2>2, <2>3
  <1> QED BY <1>1, <1>2

\* The pages that are read are all that a scan of an author comes to.
LEMMA PageMarks ==
  ASSUME MarksInv, kind = "author", ReadPage
  PROVE  /\ Deleted' \ Deleted \subseteq absent
         /\ \/ scan' = NoScan
            \/ scan' = FullScan /\ absent' = absent
            \/ scan'.at = "page" /\ scan'.found \subseteq Models(listed) /\ absent' = absent
  <1> DEFINE hits   == PageAt(scan.offset)
             size   == Larger(Count(hits), 1)
             found  == scan.found \cup hits
             result == [items |-> found, total |-> ToldSoFar, strict |-> listed # <<>>]
  <1>1. Paging /\ scan.at = "page" /\ UNCHANGED <<kind, listed, changes, misses>>
    BY DEF ReadPage, MarksInv, Paging, ScanIs
  <1>2. hits \subseteq Models(listed) /\ found \subseteq Models(listed) /\ found \subseteq Listable
    <2>1. scan.found \subseteq Models(listed) /\ hits \subseteq Models(listed)
      BY <1>1 DEF MarksInv, ScanIs, PageAt, Models
    <2> QED BY <2>1, ModelsListed DEF MarksInv
  <1>3. ResultOK(result) /\ result.items = found /\ result.strict = (listed # <<>>)
        /\ (listed # <<>> => result.total = Len(listed))
    <2> HIDE DEF found
    <2> QED BY <1>1, <1>2 DEF ResultOK, ToldSoFar, ScanIs
  <1> DEFINE last   == IsLast(hits, Budget(size))
             goesOn == /\ scan' = [scan EXCEPT !.offset = @ + size, !.pages = @ + 1, !.budget = Budget(size),
                                               !.found = found, !.total = ToldSoFar]
                       /\ UNCHANGED <<record, absent>>
  <1>4. \/ Deliver(result)
        \/ found # {} /\ RouteEnds(result)
        \/ goesOn
    <2>1. IF last THEN IF kind = "author" /\ found = {} THEN Deliver(result) ELSE RouteEnds(result)
                  ELSE goesOn
      BY DEF ReadPage
    <2> HIDE DEF hits, size, found, result, last, goesOn
    <2> QED BY <2>1
  <1> HIDE DEF hits, size, found, result, last
  <1>5. Deliver(result) \/ (found # {} /\ RouteEnds(result)) => Deliver(result)
    BY <1>1, <1>3 DEF RouteEnds, ScanIs
  <1>6. CASE Deliver(result)
    <2>1. ~ ScanIs("none")
      BY <1>1 DEF ScanIs
    <2> QED BY <1>1, <1>2, <1>3, <1>6, <2>1, DeliversWhole
  <1>7. CASE goesOn
    <2>1. scan'.at = "page" /\ scan'.found = found
      BY <1>1, <1>7 DEF MarksInv, ScanInv, ScanOK, ScanFields
    <2> QED BY <1>1, <1>2, <1>7, <2>1 DEF record, Deleted
  <1> QED BY <1>4, <1>5, <1>6, <1>7

LEMMA MarksStart == ScanInit => MarksInv
  <1> SUFFICES ASSUME ScanInit PROVE MarksInv
    OBVIOUS
  <1> QED BY ScanStarts DEF ScanInit, NoScan, MarksInv, ScanIs

LEMMA MarksStep ==
  ASSUME MarksInv, [ScanNext /\ Undisturbed]_listVars
  PROVE  MarksInv' /\ Deleted' \ Deleted \subseteq absent
  <1>1. ScanInv' /\ kind' = kind
    <2>1. ScanInv'
      BY ScanNextKeeps DEF MarksInv
    <2>2. kind' = kind
      BY DEF ScanNext, listVars, ListModel, UnlistModel, ListChanges, DayPasses, StartScan, ScanStep,
             FetchPageTotal, ReadPage, PageFails, ReadHtml, HtmlIsEmpty, ScanFails
    <2> QED BY <2>1, <2>2
  <1>2. CASE kind # "author"
    BY <1>1, <1>2 DEF MarksInv, Deleted
  <1> SUFFICES ASSUME kind = "author"
               PROVE  /\ scan'.at \in {"none", "first", "page"}
                      /\ scan'.at # "none" => scan'.found \subseteq Models(listed') /\ Listable \ Models(listed') \subseteq absent'
                      /\ Deleted' \ Deleted \subseteq absent
    BY <1>1, <1>2 DEF MarksInv, ScanIs, Models
  <1>3. NoScan.at = "none" /\ FullScan.at = "first" /\ FullScan.found = {}
    BY DEF NoScan, FullScan
  <1>4. ASSUME NEW k \in Listable, ListModel(k) \/ UnlistModel(k), Undisturbed
        PROVE  /\ scan' = scan /\ UNCHANGED record
               /\ ~ ScanIs("none") => scan.found \subseteq Models(listed') /\ Listable \ Models(listed') \subseteq absent'
    <2>1. PICK list : ListChanges(list)
      BY <1>4 DEF ListModel, UnlistModel
    <2>2. ASSUME ~ ScanIs("none") PROVE scan.found \subseteq Models(listed') /\ Listable \ Models(listed') \subseteq absent'
      <3>1. Models(listed) \subseteq Models(listed') /\ scan.found \subseteq Models(listed)
            /\ Listable \ Models(listed) \subseteq absent
        BY <1>4, <2>2 DEF Undisturbed, MarksInv
      <3>2. absent \subseteq absent'
        BY <2>1, <2>2 DEF ListChanges
      <3> QED BY <3>1, <3>2
    <2> QED BY <2>1, <2>2 DEF ListChanges
  <1>5. CASE \E k \in Listable : ListModel(k) \/ UnlistModel(k)
    <2>1. CASE UNCHANGED listVars
      BY <2>1 DEF listVars, record, MarksInv, ScanIs, Deleted
    <2>2. CASE Undisturbed
      BY <1>1, <1>4, <1>5, <2>2 DEF record, Deleted, MarksInv, ScanIs
    <2> QED BY <2>1, <2>2
  <1>6. CASE DayPasses
    BY <1>6 DEF DayPasses, MarksInv, ScanIs, Deleted
  <1>7. CASE StartScan
    <2>1. scan'.at = "first" /\ scan'.found = {}
      BY <1>7 DEF StartScan, FullScan, NoScan
    <2> QED BY <1>7, <2>1 DEF StartScan, record, Deleted
  <1>8. CASE FetchPageTotal
    <2>1. scan'.at = "page" /\ scan'.found = scan.found /\ ~ ScanIs("none")
      BY <1>8 DEF FetchPageTotal, MarksInv, ScanInv, ScanOK, ScanFields, ScanIs
    <2> QED BY <1>8, <2>1 DEF FetchPageTotal, MarksInv, record, Deleted
  <1>9. CASE ReadPage
    <2>1. scan.at = "page" /\ listed' = listed
      BY <1>9 DEF ReadPage, Paging, MarksInv, ScanIs
    <2>2. Listable \ Models(listed) \subseteq absent
      BY <2>1 DEF MarksInv, ScanIs
    <2> QED BY <1>3, <1>9, <2>1, <2>2, PageMarks
  <1>10. CASE ScanFails
    BY <1>3, <1>10 DEF ScanFails, Ends, record, Deleted
  <1>11. CASE UNCHANGED listVars
    BY <1>11 DEF listVars, record, MarksInv, ScanIs, Deleted
  <1>12. ~ ReadHtml /\ ~ HtmlIsEmpty
    BY DEF ReadHtml, HtmlIsEmpty, MarksInv, ScanIs
  <1>13. PageFails => UNCHANGED listVars
    BY DEF Undisturbed
  <1> QED BY <1>5, <1>6, <1>7, <1>8, <1>9, <1>10, <1>11, <1>12, <1>13 DEF ScanNext, ScanStep

(***************************************************************************)
(* With the hypothesis that the code does not have: when no page of a scan *)
(* fails and nothing leaves the list while it is read, only a model that   *)
(* was off the list is shown as deleted, however many are added meanwhile, *)
(* whatever the budget of the scan, and for probes as for whole scans.     *)
(***************************************************************************)
THEOREM UndisturbedScansMarkRightly == UndisturbedSpec => OnlyGoneIsDeleted
  <1>1. MarksInv /\ [ScanNext /\ Undisturbed]_listVars => MarksInv'
    BY MarksStep
  <1>2. MarksInv /\ [ScanNext /\ Undisturbed]_listVars => [Deleted' \ Deleted \subseteq absent]_listVars
    BY MarksStep
  <1> QED BY <1>1, <1>2, MarksStart, PTL DEF UndisturbedSpec, OnlyGoneIsDeleted

-----------------------------------------------------------------------------
(***************************************************************************)
(* Every meta.json that is kept anywhere is one: in the library, in the    *)
(* hands of the worker and in those of a merge.                            *)
(***************************************************************************)
Meta == [here : BOOLEAN, files : SUBSET File, images : SUBSET Image, preview : BOOLEAN,
         cover : Image \cup {Preview, NoCover}, manual : BOOLEAN,
         status : Terminal \cup {"", "pending", "running", "success"}, needs : BOOLEAN]
PainterOK(p) ==
    /\ p = [at |-> p.at, model |-> p.model, file |-> p.file, meta |-> p.meta, current |-> p.current]
    /\ p.model \in Model => p.meta \in Meta
MergeOK(g) ==
    /\ g = [at |-> g.at, target |-> g.target, source |-> g.source, old |-> g.old, new |-> g.new]
    /\ g.old \in Meta /\ g.new \in Meta
    /\ g.at # "no" => g.target \in Model /\ g.source \in Model
LocalInv == lib \in [Model -> Meta] /\ PainterOK(painter) /\ MergeOK(merge)

LEMMA NoModelType == NoModel \in Meta
  BY DEF NoModel, Meta, Terminal

LEMMA RestingType == PainterOK(Resting)
  BY NoModelType DEF PainterOK, Resting
LEMMA NoMergeType == MergeOK(NoMerge)
  BY NoModelType DEF MergeOK, NoMerge

(***************************************************************************)
(* What the worker writes into a meta.json leaves the files, the images    *)
(* and the cover as they are ...                                           *)
(***************************************************************************)
Same(old, new) ==
    /\ new \in Meta /\ new.here = old.here
    /\ new.files = old.files /\ new.images = old.images /\ new.manual = old.manual
    /\ new.cover = old.cover

LEMMA SameSelf == ASSUME NEW meta \in Meta PROVE Same(meta, meta)
  BY DEF Same
LEMMA SameStatus ==
  ASSUME NEW meta \in Meta, NEW needs \in BOOLEAN,
         NEW status \in Terminal \cup {"", "pending", "running", "success"}
  PROVE  Same(meta, [meta EXCEPT !.status = status, !.needs = needs])
  BY DEF Same, Meta
LEMMA SameNotNeeded == ASSUME NEW meta \in Meta PROVE Same(meta, NotNeeded(meta))
  <1> DEFINE status == IF meta.status \in {"pending", "running"} THEN "skipped" ELSE meta.status
  <1>1. status \in Terminal \cup {"", "pending", "running", "success"}
    BY DEF Terminal, Meta
  <1>2. NotNeeded(meta) = [meta EXCEPT !.status = status, !.needs = FALSE]
    BY DEF NotNeeded, Meta
  <1> HIDE DEF status
  <1> QED BY <1>1, <1>2, SameStatus
LEMMA SameFailed ==
  ASSUME NEW meta \in Meta, NEW status \in Terminal
  PROVE  Same(meta, Failed(meta, status))
  BY SameStatus DEF Failed
LEMMA SamePending == ASSUME NEW meta \in Meta, NEW dir PROVE Same(meta, Pending(meta, dir))
  <1>1. "unsupported" \in Terminal
    BY DEF Terminal
  <1>2. Same(meta, [meta EXCEPT !.needs = FALSE])
    BY DEF Same, Meta
  <1>3. /\ Same(meta, [meta EXCEPT !.status = "unsupported", !.needs = FALSE])
        /\ Same(meta, [meta EXCEPT !.status = "pending", !.needs = TRUE])
    BY <1>1, SameStatus
  <1> QED BY <1>2, <1>3, SameSelf, SameNotNeeded DEF Pending
LEMMA SameResumed == ASSUME NEW meta \in Meta PROVE Same(meta, Resumed(meta))
  BY SameSelf, SameStatus DEF Resumed

\* ... but for a preview, which is the cover of a model that has no image of its own.
LEMMA AppliedKeeps ==
  ASSUME NEW meta \in Meta
  PROVE  LET new == Applied(meta)
         IN /\ new \in Meta /\ new.here = meta.here /\ new.files = meta.files
            /\ new.images = meta.images /\ new.manual = meta.manual
  <1> DEFINE cover == IF meta.manual \/ meta.cover \in Image THEN meta.cover
                      ELSE IF meta.images # {} THEN CHOOSE i \in meta.images : TRUE ELSE Preview
             new == [meta EXCEPT !.preview = TRUE, !.status = "success", !.needs = FALSE, !.cover = cover]
  <1>1. cover \in Image \cup {Preview, NoCover}
    <2>1. meta.images \subseteq Image /\ meta.cover \in Image \cup {Preview, NoCover}
      BY DEF Meta
    <2>2. meta.images # {} => (CHOOSE i \in meta.images : TRUE) \in Image
      BY <2>1
    <2> QED BY <2>1, <2>2
  <1>2. Applied(meta) = meta \/ Applied(meta) = new
    BY DEF Applied
  <1> HIDE DEF cover
  <1>3. /\ new \in Meta /\ new.here = meta.here /\ new.files = meta.files
        /\ new.images = meta.images /\ new.manual = meta.manual
    BY <1>1 DEF Meta
  <1> HIDE DEF new
  <1> QED BY <1>2, <1>3

-----------------------------------------------------------------------------
LEMMA SavedLib ==
  ASSUME LocalInv, NEW m, NEW meta, m \in Model => meta \in Meta, Saved(m, meta)
  PROVE  lib' \in [Model -> Meta]
  BY DEF Saved, LocalInv

LEMMA LibTypes ==
  ASSUME LocalInv, NEW m \in Model
  PROVE  /\ lib[m] \in Meta /\ lib[m].files \subseteq File /\ lib[m].images \subseteq Image
         /\ lib[m].cover \in Image \cup {Preview, NoCover}
  BY DEF LocalInv, Meta

\* Keeps(m): the metadata of m loses nothing that is the user's.
Keeps(m) == lib[m].here =>
    /\ lib'[m].files = lib[m].files /\ lib'[m].images = lib[m].images /\ lib'[m].manual = lib[m].manual
    /\ (HasOwn(lib[m]) => lib'[m].cover = lib[m].cover)
Painted == /\ \A m \in Model : Keeps(m)
           /\ lib' \in [Model -> Meta] /\ PainterOK(painter')

\* A step of the worker that writes one meta.json, or none.
LEMMA WritesOne ==
  ASSUME LocalInv, NEW m, NEW meta, Saved(m, meta), PainterOK(painter'),
         m \in Model => /\ meta \in Meta
                        /\ lib[m].here => /\ meta.files = lib[m].files /\ meta.images = lib[m].images
                                          /\ meta.manual = lib[m].manual
                                          /\ HasOwn(lib[m]) => meta.cover = lib[m].cover
  PROVE  Painted
  <1>1. \A k \in Model : lib'[k] = IF k = m THEN meta ELSE lib[k]
    BY DEF Saved, LocalInv
  <1> QED BY <1>1, SavedLib DEF Painted, Keeps
LEMMA WritesSame ==
  ASSUME LocalInv, NEW m, NEW meta, Saved(m, meta), PainterOK(painter'), m \in Model => Same(lib[m], meta)
  PROVE  Painted
  BY WritesOne DEF Same
LEMMA WritesNone ==
  ASSUME LocalInv, lib' = lib, PainterOK(painter')
  PROVE  Painted
  BY DEF Painted, Keeps, LocalInv

LEMMA Rests ==
  ASSUME LocalInv, Done \/ GivesUp \/ UNCHANGED painter
  PROVE  PainterOK(painter')
  BY RestingType DEF Done, GivesUp, LocalInv

LEMMA TakePaints ==
  ASSUME LocalInv, TakeJob
  PROVE  Painted
  <1> DEFINE m == Head(jobs)
             pending == Pending(lib[m], disk[m])
             meta == Resumed(pending)
  <1>1. m \in Model => Same(lib[m], lib[m]) /\ Same(lib[m], pending) /\ Same(lib[m], meta)
    <2> SUFFICES ASSUME m \in Model
                 PROVE  Same(lib[m], lib[m]) /\ Same(lib[m], pending) /\ Same(lib[m], meta)
      OBVIOUS
    <2>1. lib[m] \in Meta
      BY LibTypes
    <2> HIDE DEF m
    <2>2. Same(lib[m], lib[m]) /\ Same(lib[m], pending)
      BY <2>1, SameSelf, SamePending
    <2> HIDE DEF pending
    <2>3. Same(pending, meta)
      BY <2>2, SameResumed DEF Same
    <2> QED BY <2>2, <2>3 DEF Same
  <1>2. CASE AsksFor(lib[m]) /\ NeedsGeneration(meta, disk[m])
    <2>1. Saved(m, IF lib[m].status = "running" THEN meta ELSE lib[m])
      BY <1>2 DEF TakeJob
    <2>2. PICK f : painter' = [at |-> "start", model |-> m, file |-> f, meta |-> meta, current |-> TRUE]
      BY <1>2 DEF TakeJob
    <2> HIDE DEF m, pending, meta
    <2>3. PainterOK(painter')
      BY <1>1, <2>2 DEF PainterOK, Same
    <2> QED BY <1>1, <2>1, <2>3, WritesSame
  <1>3. CASE ~ (AsksFor(lib[m]) /\ NeedsGeneration(meta, disk[m]))
    <2>1. Saved(m, IF AsksFor(lib[m]) THEN pending ELSE lib[m]) /\ UNCHANGED painter
      BY <1>3 DEF TakeJob
    <2> HIDE DEF m, pending, meta
    <2> QED BY <1>1, <2>1, Rests, WritesSame
  <1> QED BY <1>2, <1>3

LEMMA StartPaints ==
  ASSUME LocalInv, StartRendering
  PROVE  Painted
  <1> DEFINE m == painter.model
             meta == FreshMeta(m)
             running == [meta EXCEPT !.status = "running", !.needs = TRUE]
  <1>1. CASE ~ lib[m].here
    BY <1>1, Rests, WritesNone DEF StartRendering
  <1>2. CASE lib[m].here
    <2>1. meta = lib[m]
      BY <1>2 DEF FreshMeta
    <2>2. m \in Model => lib[m] \in Meta /\ Same(lib[m], running)
      <3>1. m \in Model => lib[m] \in Meta
        BY LibTypes
      <3> HIDE DEF m
      <3> QED BY <2>1, <3>1, SameStatus
    <2>3. CASE Saved(m, NotNeeded(meta)) /\ Done
      BY <2>1, <2>2, <2>3, SameNotNeeded, Rests, WritesSame
    <2>4. CASE \/ Saved(m, Failed(meta, "unsupported")) /\ Done
               \/ Saved(m, Failed(meta, "too_large")) /\ Done
      <3>1. "unsupported" \in Terminal /\ "too_large" \in Terminal
        BY DEF Terminal
      <3>2. m \in Model => Same(lib[m], Failed(meta, "unsupported")) /\ Same(lib[m], Failed(meta, "too_large"))
        BY <2>1, <2>2, <3>1, SameFailed
      <3> HIDE DEF m, meta
      <3> QED BY <2>4, <3>2, Rests, WritesSame
    <2>5. CASE /\ Saved(m, running)
               /\ painter' = [painter EXCEPT !.at = "rendering", !.meta = running]
      <3> HIDE DEF meta, running
      <3>1. PainterOK(painter')
        BY <2>2, <2>5 DEF PainterOK, LocalInv, Same
      <3> HIDE DEF m
      <3> QED BY <2>2, <2>5, <3>1, WritesSame
    <2> QED BY <1>2, <2>3, <2>4, <2>5 DEF StartRendering
  <1> QED BY <1>1, <1>2

LEMMA StorePaints ==
  ASSUME LocalInv, StorePreview
  PROVE  Painted
  <1> DEFINE m == painter.model
             meta == FreshMeta(m)
  <1>1. CASE lib' = lib /\ GivesUp
    BY <1>1, Rests, WritesNone
  <1>2. m \in Model => meta \in Meta /\ (lib[m].here => meta = lib[m])
    BY LibTypes DEF FreshMeta, LocalInv, PainterOK
  <1>3. CASE lib[m].here /\ HasOwn(meta) /\ Saved(m, NotNeeded(meta)) /\ Done
    <2>1. m \in Model => Same(lib[m], NotNeeded(meta))
      BY <1>2, <1>3, SameNotNeeded
    <2> HIDE DEF m, meta
    <2> QED BY <1>3, <2>1, Rests, WritesSame
  <1>4. CASE ~ HasOwn(meta) /\ Saved(m, Applied(meta)) /\ Done
    <2>1. m \in Model => /\ Applied(meta) \in Meta
                         /\ lib[m].here => /\ Applied(meta).files = lib[m].files
                                           /\ Applied(meta).images = lib[m].images
                                           /\ Applied(meta).manual = lib[m].manual
                                           /\ ~ HasOwn(lib[m])
      BY <1>2, <1>4, AppliedKeeps
    <2> HIDE DEF m, meta
    <2> QED BY <1>4, <2>1, Rests, WritesOne
  <1> QED BY <1>1, <1>3, <1>4 DEF StorePreview

LEMMA FailPaints ==
  ASSUME LocalInv, RenderingFails
  PROVE  Painted
  <1> DEFINE m == painter.model
             meta == FreshMeta(m)
             rewritten == IF HasOwn(meta) THEN NotNeeded(meta) ELSE Failed(meta, "failed")
  <1>1. CASE lib' = lib /\ GivesUp
    BY <1>1, Rests, WritesNone
  <1>2. CASE lib[m].here /\ Saved(m, rewritten) /\ Done
    <2>1. m \in Model => meta \in Meta /\ meta = lib[m]
      BY <1>2, LibTypes DEF FreshMeta
    <2>2. "failed" \in Terminal
      BY DEF Terminal
    <2>3. m \in Model => Same(lib[m], rewritten)
      BY <2>1, <2>2, SameNotNeeded, SameFailed
    <2> HIDE DEF m, rewritten
    <2> QED BY <1>2, <2>3, Rests, WritesSame
  <1> QED BY <1>1, <1>2 DEF RenderingFails

LEMMA PaintingKeeps ==
  ASSUME LocalInv, Painting
  PROVE  Painted
  <1>1. CASE ScanArchive
    BY <1>1, Rests, WritesNone DEF ScanArchive
  <1> QED BY <1>1, TakePaints, StartPaints, StorePaints, FailPaints DEF Painting

-----------------------------------------------------------------------------
(***************************************************************************)
(* The API's steps: what it writes is a meta.json again, and it leaves the *)
(* worker what the worker holds, but for a job that is superseded.         *)
(***************************************************************************)
LEMMA WorkerLeft ==
  ASSUME LocalInv, NEW m, Enqueue(m) \/ EnqueueOrDie(m) \/ Unqueued \/ UNCHANGED painter
  PROVE  PainterOK(painter')
  BY DEF Enqueue, EnqueueOrDie, Unqueued, Superseded, PainterOK, LocalInv

LEMMA FilesKeep ==
  ASSUME LocalInv, NEW m \in Model, NEW f \in File,
         \/ AddFile(m, f) \/ DeleteFile(m, f)
         \/ \E images \in SUBSET Image : ImportPackage(m, f, images)
  PROVE  LocalInv'
  <1>0. lib[m] \in Meta
    BY LibTypes
  <1>1. PainterOK(painter') /\ merge' = merge
    BY WorkerLeft DEF AddFile, DeleteFile, ImportPackage
  <1>2. PICK meta : Saved(m, meta) /\ meta \in Meta
    <2>1. CASE AddFile(m, f)
      <3> DEFINE old == [lib[m] EXCEPT !.files = lib[m].files \cup {f}]
      <3>1. Saved(m, Pending(old, disk[m] \cup {f}))
        BY <2>1 DEF AddFile
      <3>2. old \in Meta
        BY <1>0 DEF Meta
      <3> HIDE DEF old
      <3>3. Pending(old, disk[m] \cup {f}) \in Meta
        BY <3>2, SamePending DEF Same
      <3> QED BY <3>1, <3>3
    <2>2. CASE DeleteFile(m, f)
      <3> DEFINE new == [lib[m] EXCEPT !.files = lib[m].files \ {f}]
      <3>1. Saved(m, new)
        BY <2>2 DEF DeleteFile
      <3>2. new \in Meta
        BY <1>0 DEF Meta
      <3> QED BY <3>1, <3>2
    <2>3. ASSUME NEW images \in SUBSET Image, ImportPackage(m, f, images)
          PROVE  \E meta : Saved(m, meta) /\ meta \in Meta
      <3> DEFINE cover == IF images = {} THEN NoCover ELSE CHOOSE i \in images : TRUE
                 old == [NoModel EXCEPT !.here = TRUE, !.files = {f}, !.images = images, !.cover = cover]
      <3>1. Saved(m, Pending(old, {f}))
        BY <2>3 DEF ImportPackage
      <3>2. cover \in Image \cup {NoCover}
        OBVIOUS
      <3> HIDE DEF cover
      <3>3. old \in Meta
        BY <3>2 DEF NoModel, Meta
      <3> HIDE DEF old
      <3>4. Pending(old, {f}) \in Meta
        BY <3>3, SamePending DEF Same
      <3> QED BY <3>1, <3>4
    <2> QED BY <2>1, <2>2, <2>3
  <1> QED BY <1>1, <1>2, SavedLib DEF LocalInv

LEMMA ImagesKeep ==
  ASSUME LocalInv, NEW m \in Model, NEW i \in Image \cup {Preview},
         (i \in Image /\ AddImage(m, i)) \/ SetCover(m, i) \/ DeleteImage(m, i)
  PROVE  LocalInv'
  <1>0. lib[m] \in Meta
    BY LibTypes
  <1>1. PainterOK(painter') /\ merge' = merge
    BY WorkerLeft DEF AddImage, SetCover, DeleteImage
  <1>2. PICK meta : Saved(m, meta) /\ meta \in Meta
    <2>1. CASE i \in Image /\ AddImage(m, i)
      <3> DEFINE cover == IF lib[m].manual \/ lib[m].cover \in Image THEN lib[m].cover ELSE i
                 old == [lib[m] EXCEPT !.images = lib[m].images \cup {i}, !.cover = cover]
      <3>1. Saved(m, NotNeeded(old))
        BY <2>1 DEF AddImage
      <3>2. cover \in Image \cup {Preview, NoCover}
        BY <2>1, LibTypes
      <3> HIDE DEF cover
      <3>3. old \in Meta
        BY <1>0, <2>1, <3>2 DEF Meta
      <3> HIDE DEF old
      <3> QED BY <3>1, <3>3, SameNotNeeded DEF Same
    <2>2. CASE SetCover(m, i)
      <3> DEFINE old == [lib[m] EXCEPT !.cover = i, !.manual = TRUE]
      <3>1. Saved(m, NotNeeded(old))
        BY <2>2 DEF SetCover
      <3>2. old \in Meta
        BY <1>0 DEF Meta
      <3> HIDE DEF old
      <3> QED BY <3>1, <3>2, SameNotNeeded DEF Same
    <2>3. CASE DeleteImage(m, i)
      <3> DEFINE cover == IF lib[m].cover = i THEN NoCover ELSE lib[m].cover
                 preview == lib[m].preview /\ i # Preview
                 manual == lib[m].manual /\ lib[m].cover # i
                 new == [lib[m] EXCEPT !.images = lib[m].images \ {i}, !.preview = preview,
                                       !.cover = cover, !.manual = manual]
      <3>1. Saved(m, new)
        BY <2>3 DEF DeleteImage
      <3>2. cover \in Image \cup {Preview, NoCover} /\ preview \in BOOLEAN /\ manual \in BOOLEAN
        BY LibTypes
      <3> HIDE DEF cover, preview, manual
      <3>3. new \in Meta
        BY <1>0, <3>2 DEF Meta
      <3> QED BY <3>1, <3>3
    <2> QED BY <2>1, <2>2, <2>3
  <1> QED BY <1>1, <1>2, SavedLib DEF LocalInv

LEMMA PageKeeps ==
  ASSUME LocalInv, NEW m \in Model,
         SavePreview(m) \/ SavePreviewFailure(m) \/ OpenDetail(m) \/ DeleteLocal(m)
  PROVE  LocalInv'
  <1>0. lib[m] \in Meta
    BY LibTypes
  <1>1. PainterOK(painter') /\ merge' = merge
    BY WorkerLeft DEF SavePreview, SavePreviewFailure, OpenDetail, DeleteLocal
  <1>2. PICK meta : Saved(m, meta) /\ meta \in Meta
    <2>1. CASE SavePreview(m)
      BY <1>0, <2>1, AppliedKeeps DEF SavePreview
    <2>2. CASE SavePreviewFailure(m)
      <3>1. "failed" \in Terminal
        BY DEF Terminal
      <3> QED BY <1>0, <2>2, <3>1, SameFailed DEF SavePreviewFailure, Same
    <2>3. CASE OpenDetail(m)
      BY <1>0, <2>3, SamePending DEF OpenDetail, Same
    <2>4. CASE DeleteLocal(m)
      BY <2>4, NoModelType DEF DeleteLocal
    <2> QED BY <2>1, <2>2, <2>3, <2>4
  <1> QED BY <1>1, <1>2, SavedLib DEF LocalInv

LEMMA MergeKeeps ==
  ASSUME LocalInv,
         (\E t, s \in Model : StartMerge(t, s)) \/ MoveSource \/ WriteMerged \/ MergeFails
  PROVE  LocalInv'
  <1>0. painter' = painter
    BY DEF StartMerge, MoveSource, WriteMerged, MergeFails
  <1>1. ASSUME NEW t \in Model, NEW s \in Model, StartMerge(t, s) PROVE LocalInv'
    <2>1. merge' = [NoMerge EXCEPT !.at = "move", !.target = t, !.source = s, !.old = lib[t]] /\ lib' = lib
      BY <1>1 DEF StartMerge
    <2>2. MergeOK(merge')
      BY <2>1, LibTypes, NoModelType DEF NoMerge, MergeOK
    <2> QED BY <1>0, <2>1, <2>2 DEF LocalInv
  <1>2. CASE MoveSource
    <2>1. /\ merge' = [merge EXCEPT !.at = "write", !.new = lib[merge.source]]
          /\ lib' = [lib EXCEPT ![merge.source] = NoModel]
      BY <1>2 DEF MoveSource
    <2>2. MergeOK(merge')
      <3>1. merge.source \in Model /\ MergeOK(merge)
        BY <1>2 DEF MoveSource, LocalInv, MergeOK
      <3>2. lib[merge.source] \in Meta
        BY <3>1, LibTypes
      <3> QED BY <1>2, <2>1, <3>1, <3>2 DEF MergeOK, MoveSource
    <2>3. lib' \in [Model -> Meta]
      BY <2>1, NoModelType DEF LocalInv
    <2> QED BY <1>0, <2>2, <2>3 DEF LocalInv
  <1>3. CASE WriteMerged
    <2>1. merge.old \in Meta /\ merge.new \in Meta /\ merge.target \in Model
      BY <1>3 DEF WriteMerged, LocalInv, MergeOK
    <2>2. PICK meta \in MergedMeta(merge.old, merge.new) : Saved(merge.target, meta)
      BY <1>3 DEF WriteMerged
    <2>3. meta \in Meta
      <3> DEFINE old == merge.old
                 new == merge.new
      <3>1. PICK cover \in {old.cover} \cup ({new.cover} \ {NoCover}) :
              meta = [old EXCEPT !.here = TRUE, !.files = old.files \cup new.files,
                                 !.images = old.images \cup new.images,
                                 !.preview = old.preview \/ new.preview, !.cover = cover]
        BY <2>2 DEF MergedMeta
      <3>2. old \in Meta /\ new \in Meta
        BY <2>1
      <3> HIDE DEF old, new
      <3>3. /\ cover \in Image \cup {Preview, NoCover} 
            /\ old.files \cup new.files \subseteq File /\ old.images \cup new.images \subseteq Image
        BY <3>1, <3>2 DEF Meta
      <3> DEFINE preview == old.preview \/ new.preview
      <3>4. preview \in BOOLEAN
        OBVIOUS
      <3>5. meta = [old EXCEPT !.here = TRUE, !.files = old.files \cup new.files,
                               !.images = old.images \cup new.images,
                               !.preview = preview, !.cover = cover]
        BY <3>1
      <3> HIDE DEF preview
      <3> QED BY <3>2, <3>3, <3>4, <3>5 DEF Meta
    <2>4. lib' \in [Model -> Meta]
      BY <2>2, <2>3, SavedLib
    <2>5. MergeOK(merge')
      BY <1>3, NoMergeType DEF WriteMerged
    <2> QED BY <1>0, <2>4, <2>5 DEF LocalInv
  <1>4. CASE MergeFails
    BY <1>0, <1>4, NoMergeType DEF MergeFails, LocalInv
  <1> QED BY <1>1, <1>2, <1>3, <1>4

LEMMA LocalStep ==
  ASSUME LocalInv, [LocalNext]_localVars
  PROVE  LocalInv'
  <1>1. CASE Painting
    <2>1. merge' = merge
      BY <1>1 DEF Painting, ScanArchive, TakeJob, StartRendering, StorePreview, RenderingFails
    <2> QED BY <1>1, <2>1, PaintingKeeps DEF Painted, LocalInv
  <1>2. CASE PainterDies
    BY <1>2, RestingType DEF PainterDies, LocalInv
  <1>3. CASE UNCHANGED localVars
    BY <1>3 DEF localVars, LocalInv
  <1>4. CASE (\E t, s \in Model : StartMerge(t, s)) \/ MoveSource \/ WriteMerged \/ MergeFails
    BY <1>4, MergeKeeps
  <1>5. CASE \/ \E m \in Model, f \in File : AddFile(m, f) \/ DeleteFile(m, f)
             \/ \E m \in Model, f \in File, images \in SUBSET Image : ImportPackage(m, f, images)
    BY <1>5, FilesKeep
  <1>6. CASE \/ \E m \in Model, i \in Image : AddImage(m, i)
             \/ \E m \in Model, i \in Image \cup {Preview} : SetCover(m, i) \/ DeleteImage(m, i)
    BY <1>6, ImagesKeep
  <1>7. CASE \E m \in Model : SavePreview(m) \/ SavePreviewFailure(m) \/ OpenDetail(m) \/ DeleteLocal(m)
    BY <1>7, PageKeeps
  <1> QED BY <1>1, <1>2, <1>3, <1>4, <1>5, <1>6, <1>7 DEF LocalNext

LEMMA LocalStart == LocalInit => LocalInv
  BY NoModelType, RestingType, NoMergeType DEF LocalInit, LocalInv

(***************************************************************************)
(* Whatever users, merges and dying processes do in between, each step of  *)
(* the worker that renders previews keeps the files and the images of a    *)
(* model and the cover the user has chosen.                                *)
(***************************************************************************)
THEOREM UsersEditsAreKept == LocalSpec => EditsKept
  <1> DEFINE Kept == Painting => \A m \in Model : lib[m].here =>
        /\ lib'[m].files = lib[m].files /\ lib'[m].images = lib[m].images /\ lib'[m].manual = lib[m].manual
        /\ (HasOwn(lib[m]) => lib'[m].cover = lib[m].cover)
  <1>1. LocalInv /\ [LocalNext]_localVars => LocalInv' /\ [Kept]_localVars
    BY LocalStep, PaintingKeeps DEF Painted, Keeps
  <1> QED BY <1>1, LocalStart, PTL DEF LocalSpec, EditsKept

-----------------------------------------------------------------------------
(***************************************************************************)
(* The rest of the types: the directories, and the queue, from which the   *)
(* jobs of a model are taken out.                                          *)
(***************************************************************************)
LocalRest ==
    /\ disk \in [Model -> SUBSET (File \cup {Preview})] /\ jobs \in Seq(Model)
    /\ painter.at \in {"idle", "start", "rendering"} /\ merge.at \in {"no", "move", "write"}
    /\ wanted \in 0 .. Wanted /\ deaths \in 0 .. Deaths

JobLists == Seq(Model)
LEMMA WithoutType == ASSUME jobs \in Seq(Model), NEW m PROVE Without(m) \in Seq(Model)
  <1> DEFINE N == Len(jobs)
             rest(list, n) == IF jobs[n] = m THEN list ELSE Append(list, jobs[n])
             step == [x \in JobLists \X (1 .. N) |-> rest(x[1], x[2])]
             M == OthersThan(m)
  <1>1. N \in Nat /\ DOMAIN jobs = 1 .. N /\ \A n \in 1 .. N : jobs[n] \in Model
    BY LenProperties, ElementOfSeq
  <1>2. ASSUME NEW list \in JobLists, NEW n \in 1 .. N PROVE rest(list, n) \in JobLists
    BY <1>1, AppendProperties DEF JobLists
  <1>3. OthersThan(m) = [n \in 0 .. N |-> IF n = 0 THEN <<>> ELSE rest(OthersThan(m)[n - 1], n)]
                         \/ ~ \E run : run = [n \in 0 .. N |-> IF n = 0 THEN <<>> ELSE rest(run[n - 1], n)]
    BY DEF OthersThan
  <1> HIDE DEF rest
  <1>4. step \in StepFunctions(JobLists, N)
    BY <1>2 DEF StepFunctions
  <1>5. <<>> \in JobLists
    BY EmptySeq DEF JobLists
  <1>6. PICK run : IsRun(run, JobLists, N, <<>>, step)
    <2> HIDE DEF N, step
    <2> QED BY <1>1, <1>4, <1>5, RunExists
  <1>7. run = [n \in 0 .. N |-> IF n = 0 THEN <<>> ELSE rest(run[n - 1], n)]
    <2>1. ASSUME NEW n \in 1 .. N PROVE run[n] = rest(run[n - 1], n)
      <3>1. n - 1 \in 0 .. N /\ run[n - 1] \in JobLists
        BY <1>1, <1>6 DEF IsRun
      <3> QED BY <1>6, <3>1 DEF IsRun
    <2> HIDE DEF step
    <2> QED BY <1>1, <1>6, <2>1 DEF IsRun
  <1>8. M = [n \in 0 .. N |-> IF n = 0 THEN <<>> ELSE rest(M[n - 1], n)]
    BY <1>3, <1>7
  <1> HIDE DEF M, N, step
  <1> DEFINE S == {n \in 0 .. N : M[n] \in JobLists}
  <1>9. 0 \in S
    BY <1>1, <1>5, <1>8
  <1>10. ASSUME NEW n \in 0 .. N, n < N, n \in S PROVE n + 1 \in S
    <2>1. n + 1 \in 1 .. N /\ n + 1 # 0 /\ (n + 1) - 1 = n
      BY <1>1, <1>10
    <2>2. M[n + 1] = rest(M[n], n + 1)
      BY <1>8, <2>1
    <2> QED BY <1>2, <1>10, <2>1, <2>2
  <1> HIDE DEF S
  <1>11. 0 .. N \subseteq S
    <2>1. N \in Nat
      BY <1>1
    <2> QED BY <1>9, <1>10, <2>1, StepByStep
  <1> QED BY <1>1, <1>11 DEF S, M, N, Without, JobLists

LEMMA QueueTypes ==
  ASSUME LocalInv, LocalRest, NEW m \in Model
  PROVE  /\ Enqueue(m) => jobs' \in Seq(Model) /\ painter'.at = painter.at
         /\ EnqueueOrDie(m) => jobs' \in Seq(Model) /\ painter'.at = painter.at /\ deaths' \in 0 .. Deaths
         /\ Want => wanted' \in 0 .. Wanted
  <1>1. Enqueue(m) => jobs' \in Seq(Model) /\ painter'.at = painter.at
    <2>1. Without(m) \in Seq(Model)
      BY WithoutType DEF LocalRest
    <2>2. Append(Without(m), m) \in Seq(Model)
      BY <2>1, AppendProperties
    <2>3. Superseded(m).at = painter.at
      BY DEF Superseded, LocalInv, PainterOK
    <2> QED BY <2>2, <2>3 DEF Enqueue, Enqueued
  <1>2. deaths > 0 /\ deaths' = deaths - 1 => deaths' \in 0 .. Deaths
    BY LocalAssumption DEF LocalRest
  <1>3. Want => wanted' \in 0 .. Wanted
    BY LocalAssumption DEF LocalRest, Want
  <1> QED BY <1>1, <1>2, <1>3 DEF EnqueueOrDie, Unqueued, LocalRest

LEMMA PaintingRest ==
  ASSUME LocalInv, LocalRest, Painting
  PROVE  LocalRest'
  <1>1. Done \/ GivesUp => jobs' \in Seq(Model) /\ painter'.at = "idle"
    BY WithoutType DEF Done, GivesUp, Resting, LocalRest
  <1>2. CASE ScanArchive
    <2>1. PICK missed \in SUBSET Model : missed # {} /\ jobs' = SetToSeq(missed)
      BY <1>2 DEF ScanArchive
    <2>2. SetToSeq(missed) \in Seq(missed)
      BY <2>1, LocalAssumption, FS_Subset, Sequenced
    <2>3. jobs' \in Seq(Model)
      BY <2>1, <2>2, ElementOfSeq, LenProperties
    <2> QED BY <1>2, <2>3 DEF ScanArchive, LocalRest
  <1>3. CASE TakeJob
    <2>1. Tail(jobs) \in Seq(Model)
      BY <1>3, HeadTailProperties DEF TakeJob, LocalRest
    <2>2. jobs' \in {jobs, Tail(jobs)} /\ (painter' = painter \/ painter'.at = "start")
      BY <1>3 DEF TakeJob
    <2> QED BY <1>3, <2>1, <2>2 DEF TakeJob, LocalRest
  <1>4. CASE StartRendering
    <2>1. \/ Done \/ GivesUp
          \/ \E meta : jobs' = jobs /\ painter' = [painter EXCEPT !.at = "rendering", !.meta = meta]
      BY <1>4 DEF StartRendering
    <2>2. jobs' \in Seq(Model) /\ painter'.at \in {"idle", "rendering"}
      BY <1>1, <2>1 DEF LocalRest, LocalInv, PainterOK
    <2> QED BY <1>4, <2>2 DEF StartRendering, LocalRest
  <1>5. CASE StorePreview
    <2>1. Done \/ GivesUp
      BY <1>5 DEF StorePreview
    <2>2. disk' \in [Model -> SUBSET (File \cup {Preview})]
      <3>1. disk' = disk \/ \E m : disk' = [disk EXCEPT ![m] = @ \cup {Preview}]
        BY <1>5 DEF StorePreview
      <3> QED BY <3>1 DEF LocalRest
    <2> QED BY <1>1, <1>5, <2>1, <2>2 DEF StorePreview, LocalRest
  <1>6. CASE RenderingFails
    <2>1. Done \/ GivesUp
      BY <1>6 DEF RenderingFails
    <2> QED BY <1>1, <1>6, <2>1 DEF RenderingFails, LocalRest
  <1> QED BY <1>2, <1>3, <1>4, <1>5, <1>6 DEF Painting

LEMMA UsersRest ==
  ASSUME LocalInv, LocalRest, NEW m \in Model,
         \/ \E f \in File : AddFile(m, f) \/ DeleteFile(m, f) \/ \E images \in SUBSET Image : ImportPackage(m, f, images)
         \/ \E i \in Image : AddImage(m, i)
         \/ \E i \in Image \cup {Preview} : SetCover(m, i) \/ DeleteImage(m, i)
         \/ SavePreview(m) \/ SavePreviewFailure(m) \/ OpenDetail(m) \/ DeleteLocal(m)
  PROVE  LocalRest'
  <1>1. disk' \in [Model -> SUBSET (File \cup {Preview})]
    <2>1. PICK dir \in SUBSET (File \cup {Preview}) : disk' = disk \/ disk' = [disk EXCEPT ![m] = dir]
      <3>1. disk[m] \in SUBSET (File \cup {Preview})
        BY DEF LocalRest
      <3>2. CASE \E f \in File : AddFile(m, f) \/ DeleteFile(m, f) \/ \E images \in SUBSET Image : ImportPackage(m, f, images)
        <4>1. PICK f \in File : AddFile(m, f) \/ DeleteFile(m, f) \/ \E images \in SUBSET Image : ImportPackage(m, f, images)
          BY <3>2
        <4>2. \E dir \in {disk[m] \cup {f}, disk[m] \ {f}, {f}} : disk' = [disk EXCEPT ![m] = dir]
          BY <4>1 DEF AddFile, DeleteFile, ImportPackage
        <4> QED BY <3>1, <4>1, <4>2
      <3>3. CASE \/ \E i \in Image : AddImage(m, i)
                 \/ \E i \in Image \cup {Preview} : SetCover(m, i)
                 \/ SavePreviewFailure(m) \/ OpenDetail(m)
        BY <3>3 DEF AddImage, SetCover, SavePreviewFailure, OpenDetail
      <3>4. CASE \E i \in Image \cup {Preview} : DeleteImage(m, i)
        BY <3>1, <3>4 DEF DeleteImage
      <3>5. CASE SavePreview(m) \/ DeleteLocal(m)
        <4>1. \E dir \in {disk[m] \cup {Preview}, {}} : disk' = [disk EXCEPT ![m] = dir]
          BY <3>5 DEF SavePreview, DeleteLocal
        <4> QED BY <3>1, <4>1
      <3> QED BY <3>2, <3>3, <3>4, <3>5
    <2> QED BY <2>1 DEF LocalRest
  <1>2. /\ wanted' = wanted \/ Want
        /\ (Enqueue(m) /\ UNCHANGED deaths) \/ EnqueueOrDie(m) \/ (Unqueued /\ UNCHANGED deaths)
        /\ UNCHANGED merge
    <2>1. CASE \E f \in File : AddFile(m, f) \/ DeleteFile(m, f) \/ \E images \in SUBSET Image : ImportPackage(m, f, images)
      <3>1. PICK f \in File : AddFile(m, f) \/ DeleteFile(m, f) \/ \E images \in SUBSET Image : ImportPackage(m, f, images)
        BY <2>1
      <3>2. CASE AddFile(m, f)
        <4>1. Want /\ UNCHANGED merge
          BY <3>2 DEF AddFile
        <4>2. EnqueueOrDie(m) \/ (Unqueued /\ UNCHANGED deaths)
          BY <3>2 DEF AddFile
        <4> QED BY <4>1, <4>2
      <3>3. CASE DeleteFile(m, f)
        BY <3>3 DEF DeleteFile
      <3>4. ASSUME NEW images \in SUBSET Image, ImportPackage(m, f, images)
            PROVE  Want /\ (EnqueueOrDie(m) \/ (Unqueued /\ UNCHANGED deaths)) /\ UNCHANGED merge
        <4>1. Want /\ UNCHANGED merge
          BY <3>4 DEF ImportPackage
        <4>2. EnqueueOrDie(m) \/ (Unqueued /\ UNCHANGED deaths)
          BY <3>4 DEF ImportPackage
        <4> QED BY <4>1, <4>2
      <3> QED BY <3>1, <3>2, <3>3, <3>4
    <2>2. CASE \/ \E i \in Image : AddImage(m, i)
               \/ \E i \in Image \cup {Preview} : SetCover(m, i) \/ DeleteImage(m, i)
      BY <2>2 DEF AddImage, SetCover, DeleteImage
    <2>3. CASE SavePreview(m) \/ SavePreviewFailure(m) \/ OpenDetail(m) \/ DeleteLocal(m)
      BY <2>3 DEF SavePreview, SavePreviewFailure, OpenDetail, DeleteLocal
    <2> QED BY <2>1, <2>2, <2>3
  <1>3. /\ jobs' \in Seq(Model) /\ painter'.at = painter.at
        /\ deaths' \in 0 .. Deaths /\ wanted' \in 0 .. Wanted
    BY <1>2, QueueTypes DEF Unqueued, LocalRest
  <1> QED BY <1>1, <1>2, <1>3 DEF LocalRest

LEMMA MergeRest ==
  ASSUME LocalInv, LocalRest,
         (\E t, s \in Model : StartMerge(t, s)) \/ MoveSource \/ WriteMerged \/ MergeFails
  PROVE  LocalRest'
  <1>1. UNCHANGED <<jobs, painter>>
    BY DEF StartMerge, MoveSource, WriteMerged, MergeFails
  <1>2. merge'.at \in {"no", "move", "write"}
    <2>1. merge'.at = "no" \/ merge'.at \in {"move", "write"}
      <3>1. ASSUME NEW t \in Model, NEW s \in Model, StartMerge(t, s) PROVE merge'.at = "move"
        BY <3>1 DEF StartMerge, NoMerge
      <3>2. CASE MoveSource
        BY <3>2 DEF MoveSource, LocalInv, MergeOK
      <3>3. CASE WriteMerged \/ MergeFails
        BY <3>3 DEF WriteMerged, MergeFails, NoMerge
      <3> QED BY <3>1, <3>2, <3>3
    <2> QED BY <2>1
  <1>3. disk' \in [Model -> SUBSET (File \cup {Preview})]
    <2>1. CASE MoveSource
      <3>1. merge.source \in Model /\ merge.target \in Model
        BY <2>1 DEF MoveSource, LocalInv, MergeOK
      <3>2. disk[merge.source] \in SUBSET (File \cup {Preview})
        BY <3>1 DEF LocalRest
      <3> DEFINE other == [disk EXCEPT ![merge.source] = {}]
      <3>3. other \in [Model -> SUBSET (File \cup {Preview})]
        BY DEF LocalRest
      <3>4. disk' = [other EXCEPT ![merge.target] = @ \cup disk[merge.source]]
        BY <2>1 DEF MoveSource
      <3> HIDE DEF other
      <3> QED BY <3>1, <3>2, <3>3, <3>4
    <2>2. CASE disk' = disk
      BY <2>2 DEF LocalRest
    <2> QED BY <2>1, <2>2 DEF StartMerge, WriteMerged, MergeFails
  <1>4. wanted' = wanted \/ Want
    BY DEF StartMerge, MoveSource, WriteMerged, MergeFails
  <1>5. deaths' = deaths \/ (deaths > 0 /\ deaths' = deaths - 1)
    BY DEF StartMerge, MoveSource, WriteMerged, MergeFails
  <1>6. wanted' \in 0 .. Wanted /\ deaths' \in 0 .. Deaths
    BY <1>4, <1>5, LocalAssumption DEF Want, LocalRest
  <1> QED BY <1>1, <1>2, <1>3, <1>6 DEF LocalRest

LEMMA RestStep ==
  ASSUME LocalInv, LocalRest, [LocalNext]_localVars
  PROVE  LocalRest'
  <1>1. CASE PainterDies
    <2>1. deaths' \in 0 .. Deaths
      BY <1>1, LocalAssumption DEF PainterDies, LocalRest
    <2> QED BY <1>1, <2>1 DEF PainterDies, Resting, LocalRest
  <1>2. CASE UNCHANGED localVars
    BY <1>2 DEF localVars, LocalRest
  <1>3. CASE \/ \E m \in Model, f \in File : AddFile(m, f) \/ DeleteFile(m, f)
             \/ \E m \in Model, f \in File, images \in SUBSET Image : ImportPackage(m, f, images)
    <2>1. PICK m \in Model :
             \E f \in File : AddFile(m, f) \/ DeleteFile(m, f) \/ \E images \in SUBSET Image : ImportPackage(m, f, images)
      BY <1>3
    <2> QED BY <2>1, UsersRest
  <1>4. CASE \/ \E m \in Model, i \in Image : AddImage(m, i)
             \/ \E m \in Model, i \in Image \cup {Preview} : SetCover(m, i) \/ DeleteImage(m, i)
    <2>1. PICK m \in Model : \/ \E i \in Image : AddImage(m, i)
                             \/ \E i \in Image \cup {Preview} : SetCover(m, i) \/ DeleteImage(m, i)
      BY <1>4
    <2> QED BY <2>1, UsersRest
  <1>5. CASE \E m \in Model : SavePreview(m) \/ SavePreviewFailure(m) \/ OpenDetail(m) \/ DeleteLocal(m)
    BY <1>5, UsersRest
  <1>6. CASE (\E t, s \in Model : StartMerge(t, s)) \/ MoveSource \/ WriteMerged \/ MergeFails
    BY <1>6, MergeRest
  <1> QED BY <1>1, <1>2, <1>3, <1>4, <1>5, <1>6, PaintingRest DEF LocalNext

LEMMA RestStart == LocalInit => LocalRest
  BY EmptySeq, LocalAssumption DEF LocalInit, LocalRest, Resting, NoMerge
LEMMA LocalTypes == ASSUME LocalInv, LocalRest PROVE LocalTypeOK
  BY DEF LocalInv, LocalRest, LocalTypeOK, Meta

-----------------------------------------------------------------------------
(***************************************************************************)
(* Every variable of the four parts keeps its type: what is kept of a      *)
(* comment, an index row, a source or a local model never becomes          *)
(* anything else, whichever of them the system is looked at.               *)
(***************************************************************************)
LibraryInv == CommentsInv /\ IndexInv /\ ScanInv /\ LocalInv /\ LocalRest
THEOREM LibraryTypesCorrect == LibrarySpec => []LibraryTypeOK
  <1>1. LibraryInit => LibraryInv
    BY CommentsStart, IndexStart, ScanStarts, LocalStart, RestStart DEF LibraryInit, LibraryInv
  <1>2. ASSUME LibraryInv, [LibraryNext]_vars PROVE LibraryInv'
    <2>1. /\ [IndexNext]_indexVars /\ [ScanNext]_listVars /\ [CommentsNext]_commentVars /\ [LocalNext]_localVars
      BY <1>2 DEF LibraryNext, vars, OnlyIndex, OnlyDiscovery, OnlyComments, OnlyPreviews
    <2>2. CommentsInv'
      BY <1>2, <2>1, CommentsStep DEF LibraryInv
    <2> QED BY <1>2, <2>1, <2>2, IndexStep, ScanNextKeeps, LocalStep, RestStep DEF LibraryInv
  <1>3. LibraryInv => LibraryTypeOK
    BY CommentsTypes, IndexTypes, ScanTypes, LocalTypes DEF LibraryInv, LibraryTypeOK
  <1> QED BY <1>1, <1>2, <1>3, PTL DEF LibrarySpec
=============================================================================
