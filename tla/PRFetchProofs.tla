----------------------------- MODULE PRFetchProofs -----------------------------
(***************************************************************************)
(* Theorems about PRFetch, for pages of any size, any cap on the comments  *)
(* of a thread, any number of posts and deletions.                         *)
(*                                                                         *)
(* Listing a finite set in an order is well defined (ListingExists), so    *)
(* that a page is what PageOf says.  The inductive invariant FetchInv says *)
(* what the client holds between two requests: each connection's nodes in  *)
(* order up to the cursor, none passed over that was there at the first    *)
(* page and still is, unless a page of the connection came back null; a    *)
(* post keeps its id, and nothing old is new.  The items then follow from  *)
(* the lists they are collected from.                                      *)
(***************************************************************************)
EXTENDS PRFetch, FiniteSetTheorems, SequenceTheorems, TLAPS

(* Finite sets in an order *)

Orders(R, S) ==
  /\ \A x \in S : <<x, x>> \notin R
  /\ \A x, y \in S : x # y => <<x, y>> \in R \/ <<y, x>> \in R
  /\ \A x, y, z \in S : <<x, y>> \in R /\ <<y, z>> \in R => <<x, z>> \in R

\* s lists the elements of S in the order R.
Listing(s, S, R) ==
  /\ s \in [1 .. Cardinality(S) -> S]
  /\ \A x \in S : \E i \in DOMAIN s : s[i] = x
  /\ \A i, j \in DOMAIN s : i < j => <<s[i], s[j]>> \in R

\* A set of finite sets that is not empty has one of which no part is in it.
LEMMA SmallestExists ==
  ASSUME NEW S, IsFiniteSet(S), NEW B \in SUBSET (SUBSET S), B # {}
  PROVE  \E T \in B : \A U \in SUBSET T : U # T => U \notin B
<1>1. IsWellFoundedOn(StrictSubsetOrdering(S), SUBSET S)
  BY FS_StrictSubsetOrderingWellFounded, FS_FiniteSubsetsOfFinite
<1>2. PICK T \in B : \A U \in B : ~(<<U, T>> \in StrictSubsetOrdering(S))
  BY <1>1, WFMin
<1>3. ASSUME NEW U \in SUBSET T, U # T, U \in B PROVE FALSE
  <2>1. <<U, T>> \in StrictSubsetOrdering(S)
    BY <1>3 DEF StrictSubsetOrdering
  <2> QED
    BY <1>2, <1>3, <2>1
<1> QED
  BY <1>2, <1>3

LEMMA LastExists ==
  ASSUME NEW S, IsFiniteSet(S), S # {}, NEW R, Orders(R, S)
  PROVE  \E m \in S : \A x \in S : x # m => <<x, m>> \in R
<1> DEFINE HasLast(T) == \E m \in T : \A x \in T : x # m => <<x, m>> \in R
           B == {T \in SUBSET S : T # {} /\ ~HasLast(T)}
<1> SUFFICES ASSUME B # {} PROVE FALSE
  OBVIOUS
<1>1. PICK T \in B : \A U \in SUBSET T : U # T => U \notin B
  <2> HIDE DEF B
  <2>1. B \in SUBSET (SUBSET S)
    BY DEF B
  <2> QED
    BY <2>1, SmallestExists
<1>2. PICK a \in T : TRUE
  OBVIOUS
<1> DEFINE U == T \ {a}
<1>3. U \in SUBSET T /\ U # T /\ U \in SUBSET S /\ T \in SUBSET S
  BY <1>2
<1>4. U = {} \/ HasLast(U)
  BY <1>1, <1>3
<1>5. HasLast(T)
  <2>1. CASE U = {}
    BY <1>2, <2>1
  <2>2. CASE HasLast(U)
    <3>1. PICK m \in U : \A x \in U : x # m => <<x, m>> \in R
      BY <2>2
    <3>2. <<a, m>> \in R \/ <<m, a>> \in R
      BY <1>3, <3>1 DEF Orders
    <3>3. CASE <<a, m>> \in R
      BY <3>1, <3>3
    <3>4. CASE <<m, a>> \in R
      <4>1. \A x \in U : <<x, a>> \in R
        BY <1>3, <3>1, <3>4 DEF Orders
      <4> QED
        BY <4>1
    <3> QED
      BY <3>2, <3>3, <3>4
  <2> QED
    BY <1>4, <2>1, <2>2
<1> QED
  BY <1>5

LEMMA ListingExists ==
  ASSUME NEW S, IsFiniteSet(S), NEW R, Orders(R, S)
  PROVE  Listing(Ordered(S, R), S, R)
<1> DEFINE B == {T \in SUBSET S : ~\E s : Listing(s, T, R)}
<1>1. SUFFICES B = {}
  <2>1. S \notin B
    BY <1>1
  <2>2. \E s : Listing(s, S, R)
    BY <2>1
  <2> QED
    BY <2>2 DEF Listing, Ordered
<1> SUFFICES ASSUME B # {} PROVE FALSE
  OBVIOUS
<1>2. PICK T \in B : \A U \in SUBSET T : U # T => U \notin B
  <2> HIDE DEF B
  <2>1. B \in SUBSET (SUBSET S)
    BY DEF B
  <2> QED
    BY <2>1, SmallestExists
<1>3. T \in SUBSET S /\ IsFiniteSet(T) /\ Cardinality(T) \in Nat
  BY FS_Subset, FS_CardinalityType
<1>4. CASE T = {}
  <2>1. Cardinality(T) = 0 /\ 1 .. 0 = {}
    BY <1>4, FS_EmptySet
  <2>2. Listing([i \in {} |-> i], T, R)
    BY <1>4, <2>1 DEF Listing
  <2> QED
    BY <2>2
<1>5. CASE T # {}
  <2>1. Orders(R, T)
    BY <1>3 DEF Orders
  <2>2. PICK m \in T : \A x \in T : x # m => <<x, m>> \in R
    BY <1>3, <1>5, <2>1, LastExists
  <2> DEFINE U == T \ {m}
             n == Cardinality(T)
  <2>3. U \in SUBSET T /\ U # T /\ U \in SUBSET S
    BY <1>3
  <2>4. Cardinality(U) = n - 1 /\ n \in Nat \ {0}
    BY <1>3, <1>5, FS_RemoveElement, FS_EmptySet
  <2>5. PICK s : Listing(s, U, R)
    BY <1>2, <2>3
  <2>6. /\ s \in [1 .. n - 1 -> U]
        /\ \A x \in U : \E i \in 1 .. n - 1 : s[i] = x
        /\ \A i, j \in 1 .. n - 1 : i < j => <<s[i], s[j]>> \in R
    BY <2>4, <2>5 DEF Listing
  <2> DEFINE z == [i \in 1 .. n |-> IF i = n THEN m ELSE s[i]]
  <2> HIDE DEF n
  <2>7. \A i \in 1 .. n : i = n \/ i \in 1 .. n - 1
    BY <2>4
  <2>8. z \in [1 .. n -> T] /\ z[n] = m /\ n \in 1 .. n
    BY <2>4, <2>6, <2>7
  <2>9. \A i \in 1 .. n - 1 : i \in 1 .. n /\ i # n /\ z[i] = s[i]
    BY <2>4
  <2> HIDE DEF z
  <2>10. \A x \in T : \E i \in 1 .. n : z[i] = x
    <3> SUFFICES ASSUME NEW x \in T PROVE \E i \in 1 .. n : z[i] = x
      OBVIOUS
    <3>1. CASE x = m
      BY <2>8, <3>1
    <3>2. CASE x \in U
      BY <2>6, <2>9, <3>2
    <3> QED
      BY <3>1, <3>2
  <2>11. ASSUME NEW i \in 1 .. n, NEW j \in 1 .. n, i < j PROVE <<z[i], z[j]>> \in R
    <3>1. i \in 1 .. n - 1
      BY <2>4, <2>11
    <3>2. CASE j = n
      <4>1. z[i] \in U
        BY <2>6, <2>9, <3>1
      <4> QED
        BY <2>2, <2>8, <3>2, <4>1
    <3>3. CASE j \in 1 .. n - 1
      BY <2>6, <2>9, <2>11, <3>1, <3>3
    <3> QED
      BY <2>7, <3>2, <3>3
  <2>12. Listing(z, T, R)
    <3>1. DOMAIN z = 1 .. n
      BY <2>8
    <3> QED
      BY <2>8, <2>10, <2>11, <3>1 DEF Listing, n
  <2> QED
    BY <2>12
<1> QED
  BY <1>4, <1>5

\* Posts, or any set of posts, by their ids.
Identified(S) == /\ IsFiniteSet(S) /\ S \subseteq Post
                 /\ \A x, y \in S : x.id = y.id => x = y

LEMMA PostIds == ASSUME NEW p \in Post PROVE p.id \in 1 .. MaxPosts /\ p.id \in Nat
BY PageAssumption DEF Post

LEMMA InOrderIs ==
  ASSUME NEW S, Identified(S)
  PROVE  LET s == InOrder(S) IN
         /\ s \in Seq(Post) /\ Len(s) = Cardinality(S) /\ Len(s) \in Nat
         /\ \A i \in 1 .. Len(s) : s[i] \in S
         /\ \A x \in S : \E i \in 1 .. Len(s) : s[i] = x
         /\ \A i, j \in 1 .. Len(s) : i < j => s[i].id < s[j].id
<1> DEFINE R == {x \in S \X S : x[1].id < x[2].id}
           s == InOrder(S)
<1>1. \A x \in S : x.id \in Nat
  BY PostIds DEF Identified
<1>2. \A x, y \in S : <<x, y>> \in R <=> x.id < y.id
  OBVIOUS
<1> HIDE DEF R
<1>3. Orders(R, S)
  <2>1. \A x, y \in S : x # y => x.id < y.id \/ y.id < x.id
    BY <1>1 DEF Identified
  <2> QED
    BY <1>1, <1>2, <2>1 DEF Orders
<1>4. Listing(s, S, R)
  BY <1>3, ListingExists DEF Identified, InOrder, R
<1> HIDE DEF s
<1>5. s \in [1 .. Cardinality(S) -> S] /\ Cardinality(S) \in Nat /\ DOMAIN s = 1 .. Cardinality(S)
  BY <1>4, FS_CardinalityType DEF Listing, Identified
<1>6. s \in Seq(S)
  BY <1>5, SeqDef
<1>7. Len(s) = Cardinality(S) /\ s \in Seq(Post)
  BY <1>5, <1>6, SeqMonotonic DEF Identified
<1>8. \A i, j \in 1 .. Len(s) : i < j => s[i].id < s[j].id
  BY <1>2, <1>4, <1>5, <1>7 DEF Listing
<1> QED
  BY <1>4, <1>5, <1>7, <1>8 DEF Listing, s

LEMMA OldestIs ==
  ASSUME NEW S, Identified(S), NEW n \in Nat \ {0}
  PROVE  LET O == Oldest(S, n) IN
         /\ O \subseteq S /\ Identified(O)
         /\ S # {} => O # {}
         /\ \A x \in S, y \in O : x.id < y.id => x \in O
         /\ \A p \in S \ O : Cardinality(S) > n
<1> DEFINE Below(x) == {q \in S : q.id < x.id}
           O == Oldest(S, n)
<1>1. \A x \in S : x.id \in Nat
  BY PostIds DEF Identified
<1>2. ASSUME NEW x \in S PROVE IsFiniteSet(Below(x)) /\ Cardinality(Below(x)) \in Nat
  <2>1. Below(x) \subseteq S
    OBVIOUS
  <2> QED
    BY <2>1, FS_Subset, FS_CardinalityType DEF Identified
<1>3. \A x \in S : x \in O <=> Cardinality(Below(x)) < n
  BY DEF Oldest
<1>4. O \subseteq S /\ Identified(O)
  <2>1. O \subseteq S
    BY DEF Oldest
  <2> QED
    BY <2>1, FS_Subset DEF Identified
<1>5. ASSUME S # {} PROVE O # {}
  <2> DEFINE s == InOrder(S)
  <2>1. /\ Len(s) = Cardinality(S) /\ Len(s) \in Nat
        /\ \A i \in 1 .. Len(s) : s[i] \in S
        /\ \A x \in S : \E i \in 1 .. Len(s) : s[i] = x
        /\ \A i, j \in 1 .. Len(s) : i < j => s[i].id < s[j].id
    BY InOrderIs
  <2> HIDE DEF s
  <2>2. 1 \in 1 .. Len(s)
    <3>1. PICK x \in S : TRUE
      BY <1>5
    <3> QED
      BY <2>1, <3>1
  <2>3. Below(s[1]) = {}
    <3> SUFFICES ASSUME NEW q \in S, q.id < s[1].id PROVE FALSE
      OBVIOUS
    <3>1. PICK i \in 1 .. Len(s) : s[i] = q
      BY <2>1
    <3>2. i = 1 \/ 1 < i
      BY <2>1
    <3>3. s[1].id \in Nat /\ q.id \in Nat /\ s[1].id <= q.id
      BY <1>1, <2>1, <2>2, <3>1, <3>2
    <3> QED
      BY <3>3
  <2>4. Cardinality(Below(s[1])) < n
    BY <2>3, FS_EmptySet
  <2> QED
    BY <1>3, <2>1, <2>2, <2>4
<1>6. ASSUME NEW x \in S, NEW y \in O, x.id < y.id PROVE x \in O
  <2>1. y \in S
    BY <1>4
  <2>2. Below(x) \subseteq Below(y)
    BY <1>1, <1>6, <2>1
  <2>3. Cardinality(Below(x)) <= Cardinality(Below(y))
    BY <1>2, <2>1, <2>2, FS_Subset
  <2>4. Cardinality(Below(y)) < n
    BY <1>3, <2>1
  <2> HIDE DEF Below, O
  <2> QED
    BY <1>2, <1>3, <2>1, <2>3, <2>4
<1>7. ASSUME NEW p \in S \ O PROVE Cardinality(S) > n
  <2>1. Cardinality(Below(p)) >= n
    <3> HIDE DEF Below, O
    <3> QED
      BY <1>2, <1>3, <1>7
  <2>2. Below(p) \subseteq S \ {p}
    BY <1>1
  <2>3. IsFiniteSet(S \ {p}) /\ Cardinality(S \ {p}) = Cardinality(S) - 1
    BY FS_RemoveElement DEF Identified
  <2>4. Cardinality(Below(p)) <= Cardinality(S \ {p})
    BY <2>2, <2>3, FS_Subset
  <2>5. Cardinality(S) \in Nat
    BY FS_CardinalityType DEF Identified
  <2> HIDE DEF Below, O
  <2> QED
    BY <1>2, <2>1, <2>3, <2>4, <2>5
<1> HIDE DEF O
<1>8. /\ O \subseteq S /\ Identified(O)
      /\ S # {} => O # {}
      /\ \A x \in S, y \in O : x.id < y.id => x \in O
      /\ \A p \in S \ O : Cardinality(S) > n
  BY <1>4, <1>5, <1>6, <1>7
<1> QED
  BY <1>8 DEF O

(* Pages *)

LEMMA FunctionIsSeq ==
  ASSUME NEW S, NEW n \in Nat, NEW f \in [1 .. n -> S]
  PROVE  f \in Seq(S) /\ Len(f) = n
<1>1. f \in Seq(S)
  BY SeqDef
<1> QED
  BY <1>1

\* An entry of a page: a node behind the cursor, a thread with the oldest of its
\* comments in order.
Fresh(e, c, id, end) ==
  /\ e.node \in After(c, id) /\ e.node.id <= end
  /\ \A j \in 1 .. Len(e.inner) :
       /\ e.inner[j] \in Inner(e.node.id)
       /\ \A k \in 1 .. Len(e.inner) : j < k => e.inner[j].id < e.inner[k].id
  /\ c = "threads" => \A p \in Oldest(Inner(e.node.id), InnerCap) :
                        \E j \in 1 .. Len(e.inner) : e.inner[j] = p

\* What a page holds and where its cursor ends.
PageOf(P, end, c, id) ==
  /\ P \in Seq([node : Post, inner : Seq(Post)]) /\ end \in id .. MaxPosts
  /\ \A i \in 1 .. Len(P) :
       /\ Fresh(P[i], c, id, end)
       /\ \A k \in 1 .. Len(P) : i < k => P[i].node.id < P[k].node.id
  /\ \A p \in After(c, id) : IF p.id <= end THEN \E i \in 1 .. Len(P) : P[i].node = p
                                            ELSE HasNextPage(c, id)
  /\ HasNextPage(c, id) => end > id

LEMMA SubsetIdentified ==
  ASSUME NEW S, NEW T, Identified(S), T \subseteq S
  PROVE  Identified(T)
BY FS_Subset DEF Identified

LEMMA InnerListIs ==
  ASSUME Identified(posts), NEW id
  PROVE  LET s == InOrder(Oldest(Inner(id), InnerCap)) IN
         /\ s \in Seq(Post) /\ Len(s) \in Nat
         /\ \A j \in 1 .. Len(s) : s[j] \in Inner(id)
         /\ \A p \in Oldest(Inner(id), InnerCap) : \E j \in 1 .. Len(s) : s[j] = p
         /\ \A j, k \in 1 .. Len(s) : j < k => s[j].id < s[k].id
<1>1. Identified(Inner(id))
  <2>1. Inner(id) \subseteq posts
    BY DEF Inner
  <2> QED
    BY <2>1, SubsetIdentified
<1>2. /\ Oldest(Inner(id), InnerCap) \subseteq Inner(id)
      /\ Identified(Oldest(Inner(id), InnerCap))
  BY <1>1, OldestIs, PageAssumption
<1> QED
  BY <1>2, InOrderIs

LEMMA PageIs ==
  ASSUME Identified(posts), NEW c \in Connections, NEW id \in 0 .. MaxPosts
  PROVE  PageOf(Page(c, id), EndCursor(c, id), c, id)
<1> DEFINE A == After(c, id)
           O == Oldest(A, PageSize)
           nodes == InOrder(O)
           P == Page(c, id)
<1>1. Identified(A)
  <2>1. A \subseteq posts
    BY DEF After
  <2> QED
    BY <2>1, SubsetIdentified
<1>2. /\ O \subseteq A /\ Identified(O)
      /\ A # {} => O # {}
      /\ \A x \in A, y \in O : x.id < y.id => x \in O
      /\ \A p \in A \ O : Cardinality(A) > PageSize
  <2> HIDE DEF A
  <2> QED
    BY <1>1, OldestIs, PageAssumption
<1>3. /\ nodes \in Seq(Post) /\ Len(nodes) = Cardinality(O) /\ Len(nodes) \in Nat
      /\ \A i \in 1 .. Len(nodes) : nodes[i] \in O
      /\ \A x \in O : \E i \in 1 .. Len(nodes) : nodes[i] = x
      /\ \A i, j \in 1 .. Len(nodes) : i < j => nodes[i].id < nodes[j].id
  <2> HIDE DEF O
  <2> QED
    BY <1>2, InOrderIs
<1>4. DOMAIN nodes = 1 .. Len(nodes)
  BY <1>3
<1>5. P = [i \in 1 .. Len(nodes) |->
             [node |-> nodes[i], inner |-> IF c = "threads"
                THEN InOrder(Oldest(Inner(nodes[i].id), InnerCap)) ELSE <<>>]]
  BY <1>4 DEF Page
<1>6. \A x \in A : x \in Post /\ x.id \in Nat /\ x.id > id /\ x.id <= MaxPosts
  BY <1>1, PostIds, PageAssumption DEF Identified, After
<1> HIDE DEF A, O, nodes, P
<1>7. P \in [1 .. Len(nodes) -> [node : Post, inner : Seq(Post)]]
  <2> SUFFICES ASSUME NEW i \in 1 .. Len(nodes)
               PROVE  /\ nodes[i] \in Post
                      /\ (IF c = "threads"
                            THEN InOrder(Oldest(Inner(nodes[i].id), InnerCap)) ELSE <<>>)
                           \in Seq(Post)
    BY <1>5
  <2>1. nodes[i] \in Post
    BY <1>2, <1>3, <1>6
  <2>2. InOrder(Oldest(Inner(nodes[i].id), InnerCap)) \in Seq(Post)
    BY InnerListIs
  <2>3. <<>> \in Seq(Post)
    BY EmptySeq
  <2> QED
    BY <2>1, <2>2, <2>3
<1>8. P \in Seq([node : Post, inner : Seq(Post)]) /\ Len(P) = Len(nodes)
  BY <1>3, <1>7, FunctionIsSeq
<1>9. \A i \in 1 .. Len(P) : P[i].node = nodes[i] /\ P[i].node \in A /\ P[i].node \in O
  BY <1>2, <1>3, <1>5, <1>8
<1>10. ASSUME NEW i \in 1 .. Len(P)
       PROVE  /\ \A j \in 1 .. Len(P[i].inner) :
                   /\ P[i].inner[j] \in Inner(P[i].node.id)
                   /\ \A k \in 1 .. Len(P[i].inner) :
                        j < k => P[i].inner[j].id < P[i].inner[k].id
              /\ c = "threads" => \A p \in Oldest(Inner(P[i].node.id), InnerCap) :
                                    \E j \in 1 .. Len(P[i].inner) : P[i].inner[j] = p
  <2>1. CASE c = "threads"
    <3>1. P[i].inner = InOrder(Oldest(Inner(P[i].node.id), InnerCap))
      BY <1>5, <1>8, <1>9, <2>1
    <3> QED
      BY <3>1, InnerListIs
  <2>2. CASE c # "threads"
    <3>1. P[i].inner = <<>>
      BY <1>5, <1>8, <2>2
    <3>2. 1 .. Len(P[i].inner) = {}
      BY <3>1
    <3> QED
      BY <2>2, <3>2
  <2> QED
    BY <2>1, <2>2
<1> DEFINE end == EndCursor(c, id)
<1>11. CASE Len(P) = 0
  <2>1. P = <<>> /\ end = id
    BY <1>8, <1>11, EmptySeq DEF EndCursor, P
  <2>2. O = {}
    BY <1>3, <1>8, <1>11
  <2>3. A = {}
    BY <1>2, <2>2
  <2>4. 1 .. Len(P) = {}
    BY <1>11
  <2>5. ~HasNextPage(c, id)
    BY <2>3, FS_EmptySet, PageAssumption DEF HasNextPage, A
  <2> HIDE DEF end
  <2> QED
    BY <1>8, <2>1, <2>3, <2>4, <2>5, PageAssumption DEF PageOf, A, P, end
<1>12. CASE Len(P) # 0
  <2>1. P # <<>> /\ end = P[Len(P)].node.id /\ Len(P) \in 1 .. Len(P)
    BY <1>3, <1>8, <1>12, EmptySeq DEF EndCursor, P
  <2> HIDE DEF end
  <2>2. end \in Nat /\ end > id /\ end <= MaxPosts
    BY <1>6, <1>9, <2>1
  <2>3. \A i, k \in 1 .. Len(P) : i < k => P[i].node.id < P[k].node.id
    BY <1>3, <1>8, <1>9
  <2>4. ASSUME NEW i \in 1 .. Len(P) PROVE P[i].node.id <= end
    <3>1. P[i].node.id \in Nat
      BY <1>6, <1>9
    <3>2. i = Len(P) \/ i < Len(P)
      BY <1>3, <1>8
    <3> QED
      BY <2>1, <2>2, <2>3, <3>1, <3>2
  <2>5. ASSUME NEW p \in A, p.id <= end PROVE \E i \in 1 .. Len(P) : P[i].node = p
    <3>1. p \in O
      <4>1. P[Len(P)].node \in O /\ P[Len(P)].node \in A
        BY <1>9, <2>1
      <4>2. p.id = end => p = P[Len(P)].node
        BY <1>1, <2>1, <4>1 DEF Identified
      <4>3. p.id < end \/ p.id = end
        BY <1>6, <2>2, <2>5
      <4> QED
        BY <1>2, <2>1, <4>1, <4>2, <4>3
    <3> QED
      BY <1>3, <1>8, <1>9, <3>1
  <2>6. ASSUME NEW p \in A, ~(p.id <= end) PROVE HasNextPage(c, id)
    <3>1. p \notin O
      <4> SUFFICES ASSUME p \in O PROVE FALSE
        OBVIOUS
      <4>1. PICK i \in 1 .. Len(P) : P[i].node = p
        BY <1>3, <1>8, <1>9
      <4> QED
        BY <2>4, <2>6, <4>1
    <3> QED
      BY <1>2, <3>1 DEF HasNextPage, A
  <2>7. end \in id .. MaxPosts
    BY <2>2, PageAssumption
  <2>8. \A i \in 1 .. Len(P) : Fresh(P[i], c, id, end)
    BY <1>9, <1>10, <2>4 DEF Fresh, A
  <2> QED
    BY <1>8, <2>2, <2>3, <2>5, <2>6, <2>7, <2>8 DEF PageOf, A, P, end
<1> QED
  BY <1>11, <1>12

-----------------------------------------------------------------------------
(* The inductive invariant.                                                 *)

\* x is among what the client fetched.
Fetched(x) ==
  \E c \in Connections : \E i \in 1 .. Len(got[c]) :
    x = got[c][i].node \/ \E j \in 1 .. Len(got[c][i].inner) : x = got[c][i].inner[j]

\* Every post the client or the history knows of.
Seen == {x \in Post : x \in posts \/ x \in began \/ Fetched(x)}

\* Ids are given once, in order.
IdsOnce ==
  /\ \A x \in Seen : x.id < nextId /\ (x.conn # "inner" => x.thread = 0)
  /\ \A x, y \in Seen : x.id = y.id => x = y

\* A comment is in a thread that is there, and older than the comment.
ThreadsHold ==
  \A p \in posts : p.conn = "inner"
    => \E t \in posts : t.conn = "threads" /\ t.id = p.thread /\ t.id < p.id

\* Nothing is as old as what the fetch began with that was not there then.
BeganIsPast == \A p \in began, x \in Seen : x.id <= p.id => x \in began

\* While nothing is deleted, what the fetch began with is still there.
BeganStays == deletes = 0 => began \subseteq posts

Fetching == Connections \union {"done"}

NotBegun == {"url", "viewer", "first"}

\* What is fetched of a connection: its nodes in order, each thread with
\* comments of its own in order.
EntriesInOrder(g) ==
  \A c \in Connections : \A i \in 1 .. Len(g[c]) :
    /\ g[c][i].node.conn = c
    /\ \A k \in 1 .. Len(g[c]) : i < k => g[c][i].node.id < g[c][k].node.id
    /\ \A j \in 1 .. Len(g[c][i].inner) :
         /\ g[c][i].inner[j].conn = "inner"
         /\ g[c][i].inner[j].thread = g[c][i].node.id
         /\ \A k \in 1 .. Len(g[c][i].inner) :
              j < k => g[c][i].inner[j].id < g[c][i].inner[k].id

GotInOrder == EntriesInOrder(got)

\* After a null page there is no other, and without one the cursor has reached
\* every node fetched.
CutIsDrained == \A c \in cut : ~more[c]

UpToCursor ==
  \A c \in Connections \ cut : \A i \in 1 .. Len(got[c]) : got[c][i].node.id <= cursor[c]

\* No node the fetch began with and nobody took back is passed over.
GotNodes ==
  pc \in Fetching => \A c \in Connections \ cut, p \in began \intersect posts :
    p.conn = c => IF p.id <= cursor[c] THEN \E i \in 1 .. Len(got[c]) : got[c][i].node = p
                                       ELSE more[c]

\* Nor a comment within the part of its thread that comes with the thread.
GotComments ==
  \A i \in 1 .. Len(got["threads"]), p \in began \intersect posts :
    (p.conn = "inner" /\ p.thread = got["threads"][i].node.id /\ WithinCap(p, began))
      => \E j \in 1 .. Len(got["threads"][i].inner) : got["threads"][i].inner[j] = p

\* A connection is left when it is drained.
DrainedInTurn ==
  /\ pc \in {"threads", "reviews", "done"} => ~more["conv"]
  /\ pc \in {"reviews", "done"} => ~more["threads"]
  /\ pc = "done" => ~more["reviews"] /\ items = CollectItems

NothingYet ==
  pc \in NotBegun => /\ began = {}
                     /\ got = [c \in Connections |-> <<>>]
                     /\ cursor = [c \in Connections |-> 0]
                     /\ cut = {}

FetchInv == /\ TypeOK /\ IsFiniteSet(posts) /\ IsFiniteSet(began)
            /\ IdsOnce /\ ThreadsHold /\ BeganIsPast /\ BeganStays
            /\ GotInOrder /\ CutIsDrained /\ UpToCursor /\ GotNodes /\ GotComments
            /\ DrainedInTurn /\ NothingYet

LEMMA OrderKept == ASSUME GotInOrder, UNCHANGED got PROVE GotInOrder'
BY DEF GotInOrder

LEMMA InnerInOrder ==
  ASSUME GotInOrder, NEW c \in Connections, NEW i \in 1 .. Len(got[c])
  PROVE  \A j \in 1 .. Len(got[c][i].inner) :
           /\ got[c][i].inner[j].conn = "inner"
           /\ got[c][i].inner[j].thread = got[c][i].node.id
           /\ \A k \in 1 .. Len(got[c][i].inner) :
                j < k => got[c][i].inner[j].id < got[c][i].inner[k].id
BY DEF GotInOrder, EntriesInOrder

\* The steps that leave the posts and the fetched pages alone.
LEMMA DataKept ==
  ASSUME FetchInv, TypeOK', DrainedInTurn', NothingYet', pc' \in Fetching => pc \in Fetching,
         UNCHANGED <<posts, nextId, deletes, got, cursor, more, items, began, cut>>
  PROVE  FetchInv'
<1>1. Seen' = Seen
  BY DEF Seen, Fetched
<1>2. IsFiniteSet(posts)' /\ IsFiniteSet(began)'
  BY DEF FetchInv
<1>3. IdsOnce' /\ ThreadsHold' /\ BeganIsPast' /\ BeganStays'
  BY <1>1 DEF FetchInv, IdsOnce, ThreadsHold, BeganIsPast, BeganStays
<1>4. GotInOrder' /\ GotComments'
  BY OrderKept DEF FetchInv, GotComments, WithinCap
<1>5. GotNodes' /\ CutIsDrained' /\ UpToCursor'
  BY DEF FetchInv, GotNodes, CutIsDrained, UpToCursor
<1> QED
  BY <1>2, <1>3, <1>4, <1>5 DEF FetchInv

LEMMA CollectItemsKept ==
  ASSUME UNCHANGED <<got, viewer>>
  PROVE  CollectItems' = CollectItems
<1>1. Places' = Places
  BY DEF Places, Lists, List, Column, Wanted, IsReply
<1>2. \A x : Item(x)' = Item(x)
  BY DEF Item, List, Column, Marked, IsReply
<1> QED
  BY <1>1, <1>2 DEF CollectItems

LEMMA FetchInvInit == Init => FetchInv
<1> SUFFICES ASSUME Init PROVE FetchInv
  OBVIOUS
<1>1. \A c \in Connections : got[c] = <<>> /\ Len(got[c]) = 0 /\ 1 .. Len(got[c]) = {}
  BY DEF Init
<1>2. Seen = {}
  BY <1>1 DEF Seen, Fetched, Init
<1>3. TypeOK
  <2>1. <<>> \in Seq([node : Post, inner : Seq(Post)])
    BY EmptySeq
  <2>2. items \in Seq([id : 1 .. MaxPosts, conn : Connections \union {"inner"},
                       thread : 0 .. MaxPosts, hasJReply : BOOLEAN])
    BY EmptySeq DEF Init
  <2> QED
    BY <2>1, <2>2, PageAssumption DEF TypeOK, Init, PullRequests
<1>4. IsFiniteSet(posts) /\ IsFiniteSet(began)
  BY FS_EmptySet DEF Init
<1>5. IdsOnce /\ ThreadsHold /\ BeganIsPast /\ BeganStays
  BY <1>2 DEF IdsOnce, ThreadsHold, BeganIsPast, BeganStays, Init
<1>6. GotInOrder /\ CutIsDrained /\ UpToCursor /\ GotNodes /\ GotComments
  BY <1>1 DEF GotInOrder, EntriesInOrder, CutIsDrained, UpToCursor, GotNodes, GotComments, Init,
              Connections
<1>7. DrainedInTurn /\ NothingYet
  BY DEF DrainedInTurn, NothingYet, Init
<1> QED
  BY <1>3, <1>4, <1>5, <1>6, <1>7 DEF FetchInv

LEMMA FailKeeps == ASSUME FetchInv, Fail PROVE FetchInv'
<1>1. TypeOK'
  BY DEF FetchInv, TypeOK, Fail, server, fetch, Ended
<1> QED
  BY <1>1, DataKept DEF Fail, server, fetch, DrainedInTurn, NothingYet, NotBegun, Fetching,
                        Connections

LEMMA ParseURLKeeps == ASSUME FetchInv, ParseURL PROVE FetchInv'
<1>1. CASE Fail
  BY <1>1, FailKeeps
<1>2. CASE pc = "url" /\ pc' = "viewer" /\ UNCHANGED <<server, fetch>>
  <2>1. TypeOK'
    BY <1>2 DEF FetchInv, TypeOK, server, fetch
  <2>2. NothingYet'
    BY <1>2 DEF FetchInv, NothingYet, NotBegun, server, fetch
  <2> QED
    BY <1>2, <2>1, <2>2, DataKept DEF server, fetch, DrainedInTurn, Fetching, Connections
<1> QED
  BY <1>1, <1>2 DEF ParseURL

LEMMA ViewerKeeps == ASSUME FetchInv, Viewer PROVE FetchInv'
<1>1. TypeOK'
  BY DEF FetchInv, TypeOK, Viewer, server
<1>2. NothingYet'
  BY DEF FetchInv, NothingYet, NotBegun, Viewer, server
<1> QED
  BY <1>1, <1>2, DataKept DEF Viewer, server, DrainedInTurn, Fetching, Connections

LEMMA StateChangesKeeps == ASSUME FetchInv, StateChanges PROVE FetchInv'
<1>1. TypeOK'
  BY DEF FetchInv, TypeOK, StateChanges, fetch
<1>2. CollectItems' = CollectItems
  BY CollectItemsKept DEF StateChanges, fetch
<1>3. DrainedInTurn' /\ NothingYet'
  BY <1>2 DEF FetchInv, DrainedInTurn, NothingYet, StateChanges, fetch
<1> QED
  BY <1>1, <1>3, DataKept DEF StateChanges, fetch

LEMMA DrainedKeeps == ASSUME FetchInv, Drained PROVE FetchInv'
<1>1. TypeOK'
  BY DEF FetchInv, TypeOK, Drained, server, fetch, Connections
<1>2. DrainedInTurn' /\ NothingYet'
  BY DEF FetchInv, DrainedInTurn, NothingYet, NotBegun, Drained, server, fetch
<1> QED
  BY <1>1, <1>2, DataKept DEF Drained, server, fetch, Fetching, Connections

\* A page added to what is fetched of a connection.
LEMMA PageAdded ==
  ASSUME Identified(posts), NEW c \in Connections, NEW id \in 0 .. MaxPosts,
         NEW g \in Seq([node : Post, inner : Seq(Post)])
  PROVE  LET h   == g \o Page(c, id)
             end == EndCursor(c, id)
         IN  /\ h \in Seq([node : Post, inner : Seq(Post)]) /\ end \in id .. MaxPosts
             /\ \A i \in 1 .. Len(g) : i \in 1 .. Len(h) /\ h[i] = g[i]
             /\ \A i \in 1 .. Len(h) : i \in 1 .. Len(g) \/ Fresh(h[i], c, id, end)
             /\ \A i, k \in 1 .. Len(h) :
                  i < k /\ i \notin 1 .. Len(g) => h[i].node.id < h[k].node.id
             /\ \A p \in After(c, id) : IF p.id <= end
                  THEN \E i \in 1 .. Len(h) : h[i].node = p ELSE HasNextPage(c, id)
             /\ HasNextPage(c, id) => end > id
<1> DEFINE P == Page(c, id)
           end == EndCursor(c, id)
           h == g \o P
           Entry == [node : Post, inner : Seq(Post)]
<1>1. PageOf(P, end, c, id)
  BY PageIs
<1> HIDE DEF P, end, Entry
<1>2. P \in Seq(Entry) /\ g \in Seq(Entry)
  BY <1>1 DEF PageOf, Entry
<1>3. /\ h \in Seq(Entry) /\ Len(h) = Len(g) + Len(P) /\ Len(g) \in Nat /\ Len(P) \in Nat
      /\ \A i \in 1 .. Len(g) + Len(P) : h[i] = IF i <= Len(g) THEN g[i] ELSE P[i - Len(g)]
  BY <1>2, ConcatProperties
<1> HIDE DEF h
<1>4. \A i \in 1 .. Len(g) : i \in 1 .. Len(h) /\ h[i] = g[i]
  BY <1>3
<1>5. \A i \in 1 .. Len(h) :
        i \in 1 .. Len(g) \/ (i - Len(g) \in 1 .. Len(P) /\ h[i] = P[i - Len(g)])
  BY <1>3
<1>6. \A i \in 1 .. Len(h) : i \in 1 .. Len(g) \/ Fresh(h[i], c, id, end)
  BY <1>1, <1>5 DEF PageOf
<1>7. ASSUME NEW i \in 1 .. Len(h), NEW k \in 1 .. Len(h), i < k, i \notin 1 .. Len(g)
      PROVE  h[i].node.id < h[k].node.id
  <2>1. k \notin 1 .. Len(g)
    BY <1>3, <1>7
  <2>2. /\ i - Len(g) \in 1 .. Len(P) /\ h[i] = P[i - Len(g)]
        /\ k - Len(g) \in 1 .. Len(P) /\ h[k] = P[k - Len(g)]
    BY <1>5, <1>7, <2>1
  <2>3. i - Len(g) < k - Len(g)
    BY <1>3, <1>7
  <2> QED
    BY <1>1, <2>2, <2>3 DEF PageOf
<1>8. ASSUME NEW p \in After(c, id)
      PROVE  IF p.id <= end THEN \E i \in 1 .. Len(h) : h[i].node = p ELSE HasNextPage(c, id)
  <2>1. \A k \in 1 .. Len(P) : k + Len(g) \in 1 .. Len(h) /\ h[k + Len(g)] = P[k]
    <3> SUFFICES ASSUME NEW k \in 1 .. Len(P)
                 PROVE  k + Len(g) \in 1 .. Len(h) /\ h[k + Len(g)] = P[k]
      OBVIOUS
    <3>1. k + Len(g) \in 1 .. Len(g) + Len(P) /\ ~(k + Len(g) <= Len(g))
          /\ (k + Len(g)) - Len(g) = k
      BY <1>3
    <3> QED
      BY <1>3, <3>1
  <2> QED
    BY <1>1, <2>1 DEF PageOf
<1> QED
  BY <1>1, <1>3, <1>4, <1>6, <1>7, <1>8 DEF PageOf, h, P, end, Entry

\* A comment within the cap is among those that come with its thread.
LEMMA CapIsOldest ==
  ASSUME Identified(posts), NEW B \in SUBSET Post, IsFiniteSet(B), NEW p \in B \intersect posts,
         \A q \in posts : q.id <= p.id => q \in B, p.conn = "inner", WithinCap(p, B)
  PROVE  p \in Oldest(Inner(p.thread), InnerCap)
<1> DEFINE Up == {q \in B : q.thread = p.thread /\ q.id <= p.id}
           Below == {q \in Inner(p.thread) : q.id < p.id}
<1>1. IsFiniteSet(Up) /\ Cardinality(Up) \in Nat
  BY FS_Subset, FS_CardinalityType
<1>2. Cardinality(Up) <= InnerCap
  BY DEF WithinCap
<1>3. p.id \in Nat /\ \A q \in posts : q.id \in Nat
  BY PostIds DEF Identified
<1>4. p \in Up
  BY <1>3
<1>5. Below \subseteq Up \ {p}
  BY <1>3 DEF Inner
<1>6. IsFiniteSet(Up \ {p}) /\ Cardinality(Up \ {p}) = Cardinality(Up) - 1
  BY <1>1, <1>4, FS_RemoveElement
<1> HIDE DEF Up, Below
<1>7. Cardinality(Below) <= Cardinality(Up \ {p}) /\ Cardinality(Below) \in Nat
  BY <1>5, <1>6, FS_Subset, FS_CardinalityType
<1>8. Cardinality(Below) < InnerCap
  BY <1>1, <1>2, <1>6, <1>7, PageAssumption
<1> QED
  BY <1>8 DEF Below, Oldest, Inner

LEMMA EntryTyped ==
  ASSUME TypeOK, NEW c \in Connections, NEW i \in 1 .. Len(got[c])
  PROVE  got[c][i].node \in Post /\ got[c][i].inner \in Seq(Post)
<1> DEFINE Entry == [node : Post, inner : Seq(Post)]
<1>1. got \in [Connections -> Seq(Entry)]
  BY DEF TypeOK
<1> HIDE DEF Entry
<1>2. got[c] \in Seq(Entry)
  BY <1>1
<1>3. got[c][i] \in Entry
  BY <1>2
<1> QED
  BY <1>3 DEF Entry

LEMMA PostsIdentified == FetchInv => Identified(posts)
BY DEF FetchInv, Identified, IdsOnce, Seen, TypeOK

LEMMA PublishKeeps ==
  ASSUME FetchInv, NEW c \in Connections \union {"inner"}, NEW t \in 0 .. MaxPosts,
         NEW k \in Kinds, Publish(c, t, k), c # "inner" => t = 0,
         c = "inner" => \E p \in posts : p.conn = "threads" /\ p.id = t
  PROVE  FetchInv'
<1> DEFINE new == [id |-> nextId, conn |-> c, thread |-> t, kind |-> k]
<1>1. /\ posts' = posts \union {new} /\ nextId' = nextId + 1 /\ nextId \in 1 .. MaxPosts
      /\ UNCHANGED <<pr, deletes, pc, viewer, got, cursor, more, items, began, cut>>
  BY PageAssumption DEF Publish, fetch, FetchInv, TypeOK
<1>2. new \in Post /\ new.id = nextId /\ new.conn = c /\ new.thread = t
  BY <1>1 DEF Post
<1> HIDE DEF new
<1>3. Seen' = Seen \union {new}
  <2>1. \A x : Fetched(x)' = Fetched(x)
    BY <1>1 DEF Fetched
  <2> QED
    BY <1>1, <1>2, <2>1 DEF Seen
<1>4. \A x \in Seen : x.id \in Nat /\ x.id < nextId
  BY PostIds DEF Seen, FetchInv, IdsOnce
<1>5. posts \subseteq Seen /\ began \subseteq Seen
  BY DEF FetchInv, TypeOK, Seen
<1>6. new \notin began /\ began \intersect posts' = began \intersect posts
  BY <1>1, <1>2, <1>4, <1>5
<1>7. TypeOK'
  <2>1. nextId' \in 1 .. MaxPosts + 1
    BY <1>1, PageAssumption
  <2>2. posts' \subseteq Post
    BY <1>1, <1>2 DEF FetchInv, TypeOK
  <2> QED
    BY <1>1, <2>1, <2>2 DEF FetchInv, TypeOK
<1>8. IsFiniteSet(posts') /\ IsFiniteSet(began')
  BY <1>1, FS_AddElement DEF FetchInv
<1>9. IdsOnce'
  <2>1. \A x \in Seen \union {new} : x.id < nextId + 1 /\ (x.conn # "inner" => x.thread = 0)
    BY <1>1, <1>2, <1>4 DEF FetchInv, IdsOnce
  <2>2. \A x, y \in Seen \union {new} : x.id = y.id => x = y
    BY <1>1, <1>2, <1>4 DEF FetchInv, IdsOnce
  <2> QED
    BY <1>1, <1>3, <2>1, <2>2 DEF IdsOnce
<1>10. ThreadsHold'
  <2> SUFFICES ASSUME NEW p \in posts', p.conn = "inner"
               PROVE  \E q \in posts' : q.conn = "threads" /\ q.id = p.thread /\ q.id < p.id
    BY DEF ThreadsHold
  <2>1. CASE p \in posts
    BY <1>1, <2>1 DEF FetchInv, ThreadsHold
  <2>2. CASE p = new
    BY <1>1, <1>2, <1>4, <1>5, <2>2
  <2> QED
    BY <1>1, <2>1, <2>2
<1>11. BeganIsPast' /\ BeganStays'
  <2>1. BeganIsPast'
    <3> SUFFICES ASSUME NEW p \in began, NEW x \in Seen \union {new}, x.id <= p.id
                 PROVE  x \in began
      BY <1>1, <1>3 DEF BeganIsPast
    <3>1. p.id \in Nat /\ p.id < nextId
      BY <1>4, <1>5
    <3>2. x # new
      BY <1>1, <1>2, <3>1
    <3> QED
      BY <3>2 DEF FetchInv, BeganIsPast
  <2> QED
    BY <1>1, <2>1 DEF FetchInv, BeganStays
<1>12. GotInOrder' /\ CutIsDrained' /\ UpToCursor' /\ GotNodes'
  BY <1>1, <1>6, OrderKept DEF FetchInv, CutIsDrained, UpToCursor, GotNodes
<1>13. GotComments'
  BY <1>1, <1>6 DEF FetchInv, GotComments, WithinCap
<1>14. CollectItems' = CollectItems
  BY <1>1, CollectItemsKept
<1>15. DrainedInTurn' /\ NothingYet'
  BY <1>1, <1>14 DEF FetchInv, DrainedInTurn, NothingYet
<1> QED
  BY <1>7, <1>8, <1>9, <1>10, <1>11, <1>12, <1>13, <1>15 DEF FetchInv

LEMMA SomebodyPostsKeeps == ASSUME FetchInv, SomebodyPosts PROVE FetchInv'
<1>1. ASSUME NEW k \in {"text", "quote", "jreply"}, Publish("conv", 0, k) PROVE FetchInv'
  BY <1>1, PublishKeeps, PageAssumption DEF Connections, Kinds
<1>2. CASE Publish("threads", 0, "text")
  BY <1>2, PublishKeeps, PageAssumption DEF Connections, Kinds
<1>3. ASSUME NEW p \in posts, NEW k \in {"text", "jreply"}, p.conn = "threads",
             Publish("inner", p.id, k)
      PROVE  FetchInv'
  <2>1. p.id \in 0 .. MaxPosts
    BY PostIds, PageAssumption DEF FetchInv, TypeOK
  <2> QED
    BY <1>3, <2>1, PublishKeeps DEF Kinds
<1>4. ASSUME NEW k \in {"text", "blank"}, Publish("reviews", 0, k) PROVE FetchInv'
  BY <1>4, PublishKeeps, PageAssumption DEF Connections, Kinds
<1> QED
  BY <1>1, <1>2, <1>3, <1>4 DEF SomebodyPosts

LEMMA SomebodyDeletesKeeps == ASSUME FetchInv, SomebodyDeletes PROVE FetchInv'
<1>1. PICK p \in posts : posts' = {q \in posts : q.id # p.id /\ q.thread # p.id}
  BY DEF SomebodyDeletes
<1>2. posts' \subseteq posts /\ deletes' = deletes + 1 /\ deletes \in 0 .. MaxDeletes
      /\ deletes < MaxDeletes
      /\ UNCHANGED <<pr, nextId, pc, viewer, got, cursor, more, items, began, cut>>
  BY <1>1 DEF SomebodyDeletes, fetch, FetchInv, TypeOK
<1>3. Seen' \subseteq Seen
  BY <1>2 DEF Seen, Fetched
<1>4. TypeOK'
  <2>1. deletes' \in 0 .. MaxDeletes
    BY <1>2, PageAssumption
  <2>2. posts' \subseteq Post
    BY <1>2 DEF FetchInv, TypeOK
  <2> QED
    BY <1>2, <2>1, <2>2 DEF FetchInv, TypeOK
<1>5. IsFiniteSet(posts') /\ IsFiniteSet(began')
  BY <1>2, FS_Subset DEF FetchInv
<1>6. IdsOnce' /\ BeganIsPast'
  BY <1>2, <1>3 DEF FetchInv, IdsOnce, BeganIsPast
<1>7. ThreadsHold'
  <2> SUFFICES ASSUME NEW q \in posts', q.conn = "inner"
               PROVE  \E t \in posts' : t.conn = "threads" /\ t.id = q.thread /\ t.id < q.id
    BY DEF ThreadsHold
  <2>1. PICK t \in posts : t.conn = "threads" /\ t.id = q.thread /\ t.id < q.id
    BY <1>2 DEF FetchInv, ThreadsHold
  <2>2. t.thread = 0
    BY <2>1 DEF FetchInv, IdsOnce, Seen, TypeOK
  <2>3. p.id # 0 /\ q.thread # p.id
    BY <1>1, PostIds DEF FetchInv, TypeOK
  <2> QED
    BY <1>1, <2>1, <2>2, <2>3
<1>8. BeganStays'
  BY <1>2 DEF BeganStays
<1>9. GotInOrder' /\ CutIsDrained' /\ UpToCursor' /\ GotNodes'
  <2>1. GotInOrder' /\ CutIsDrained' /\ UpToCursor'
    BY <1>2, OrderKept DEF FetchInv, CutIsDrained, UpToCursor
  <2>2. began' \intersect posts' \subseteq began \intersect posts
    BY <1>2
  <2> QED
    BY <1>2, <2>1, <2>2 DEF FetchInv, GotNodes
<1>10. GotComments'
  BY <1>2 DEF FetchInv, GotComments, WithinCap
<1>11. CollectItems' = CollectItems
  BY <1>2, CollectItemsKept
<1>12. DrainedInTurn' /\ NothingYet'
  BY <1>2, <1>11 DEF FetchInv, DrainedInTurn, NothingYet
<1> QED
  BY <1>4, <1>5, <1>6, <1>7, <1>8, <1>9, <1>10, <1>12 DEF FetchInv

\* The next page of a connection is added, or the connection is left alone.
Extends(c) == /\ c \notin cut
              /\ got'[c] = got[c] \o Page(c, cursor[c])
              /\ cursor'[c] = EndCursor(c, cursor[c]) /\ more'[c] = HasNextPage(c, cursor[c])

Stays(c) == got'[c] = got[c] /\ cursor'[c] = cursor[c] /\ more'[c] = more[c]

\* What a request asks for: the first page of all, or a page of the connection
\* that is being drained.
Asks ==
  /\ \/ pc \in NotBegun /\ pc' = "conv" /\ began' = posts /\ \A c \in Connections : Extends(c)
     \/ /\ pc \in Connections /\ pc' = pc /\ began' = began
        /\ \A c \in Connections : IF c = pc THEN Extends(c) ELSE Stays(c)
  /\ got' = [c \in Connections |-> got'[c]]
  /\ cursor' = [c \in Connections |-> cursor'[c]]
  /\ more' = [c \in Connections |-> more'[c]]
  /\ UNCHANGED <<server, viewer, items, cut>>

\* What one connection holds after a request.
LEMMA ConnectionAsked ==
  ASSUME FetchInv, NEW c \in Connections, Extends(c) \/ Stays(c)
  PROVE  /\ got'[c] \in Seq([node : Post, inner : Seq(Post)])
         /\ cursor'[c] \in 0 .. MaxPosts /\ cursor[c] <= cursor'[c] /\ more'[c] \in BOOLEAN
         /\ \A i \in 1 .. Len(got[c]) : i \in 1 .. Len(got'[c]) /\ got'[c][i] = got[c][i]
         /\ \A i \in 1 .. Len(got'[c]) :
              i \in 1 .. Len(got[c]) \/ Fresh(got'[c][i], c, cursor[c], cursor'[c])
         /\ \A i, k \in 1 .. Len(got'[c]) :
              i < k => got'[c][i].node.id < got'[c][k].node.id
         /\ Extends(c) => \A p \in After(c, cursor[c]) : IF p.id <= cursor'[c]
              THEN \E i \in 1 .. Len(got'[c]) : got'[c][i].node = p ELSE more'[c]
         /\ more'[c] => cursor'[c] > 0
<1> DEFINE Entry == [node : Post, inner : Seq(Post)]
<1>1. /\ got[c] \in Seq(Entry) /\ cursor[c] \in 0 .. MaxPosts /\ more[c] \in BOOLEAN
      /\ cursor[c] \in Nat /\ Len(got[c]) \in Nat
  <2>1. got \in [Connections -> Seq(Entry)] /\ cursor \in [Connections -> 0 .. MaxPosts]
        /\ more \in [Connections -> BOOLEAN]
    BY DEF FetchInv, TypeOK
  <2>2. got[c] \in Seq(Entry) /\ cursor[c] \in 0 .. MaxPosts /\ more[c] \in BOOLEAN
    <3> HIDE DEF Entry
    <3> QED
      BY <2>1
  <2> HIDE DEF Entry
  <2>3. Len(got[c]) \in Nat /\ cursor[c] \in Nat
    BY <2>2, PageAssumption
  <2> QED
    BY <2>2, <2>3
<1>2. ASSUME NEW i \in 1 .. Len(got[c])
      PROVE  /\ got[c][i].node \in Post /\ got[c][i].node.id \in Nat
             /\ c \notin cut => got[c][i].node.id <= cursor[c]
             /\ \A k \in 1 .. Len(got[c]) : i < k => got[c][i].node.id < got[c][k].node.id
  <2>2. got[c][i].node \in Post
    BY EntryTyped DEF FetchInv
  <2>3. (c \notin cut => got[c][i].node.id <= cursor[c])
        /\ \A k \in 1 .. Len(got[c]) : i < k => got[c][i].node.id < got[c][k].node.id
    BY DEF FetchInv, GotInOrder, EntriesInOrder, UpToCursor
  <2> QED
    BY <2>2, <2>3, PostIds
<1> HIDE DEF Entry
<1>3. CASE ~Extends(c)
  <2>1. got'[c] = got[c] /\ cursor'[c] = cursor[c] /\ more'[c] = more[c]
    BY <1>3 DEF Stays
  <2>2. /\ got'[c] \in Seq(Entry)
        /\ cursor'[c] \in 0 .. MaxPosts /\ cursor[c] <= cursor'[c] /\ more'[c] \in BOOLEAN
    BY <1>1, <2>1
  <2>3. \A i, k \in 1 .. Len(got'[c]) : i < k => got'[c][i].node.id < got'[c][k].node.id
    BY <1>2, <2>1
  <2>4. more'[c] => cursor'[c] > 0
    BY <2>1 DEF FetchInv, TypeOK
  <2> QED
    BY <1>3, <2>1, <2>2, <2>3, <2>4 DEF Entry
<1>4. CASE Extends(c)
  <2>1. Identified(posts)
    BY PostsIdentified
  <2> DEFINE h == got'[c]
             end == cursor'[c]
  <2>2. h = got[c] \o Page(c, cursor[c]) /\ end = EndCursor(c, cursor[c])
        /\ more'[c] = HasNextPage(c, cursor[c])
    BY <1>4 DEF Extends
  <2>3. /\ h \in Seq(Entry) /\ end \in cursor[c] .. MaxPosts
        /\ \A i \in 1 .. Len(got[c]) : i \in 1 .. Len(h) /\ h[i] = got[c][i]
        /\ \A i \in 1 .. Len(h) : i \in 1 .. Len(got[c]) \/ Fresh(h[i], c, cursor[c], end)
        /\ \A i, k \in 1 .. Len(h) :
             i < k /\ i \notin 1 .. Len(got[c]) => h[i].node.id < h[k].node.id
        /\ \A p \in After(c, cursor[c]) : IF p.id <= end
             THEN \E i \in 1 .. Len(h) : h[i].node = p ELSE HasNextPage(c, cursor[c])
        /\ HasNextPage(c, cursor[c]) => end > cursor[c]
    <3> DEFINE g == got[c]
               id == cursor[c]
    <3>1. g \in Seq([node : Post, inner : Seq(Post)]) /\ id \in 0 .. MaxPosts
      BY <1>1 DEF Entry
    <3> HIDE DEF g, id
    <3>2. /\ g \o Page(c, id) \in Seq([node : Post, inner : Seq(Post)])
          /\ EndCursor(c, id) \in id .. MaxPosts
          /\ \A i \in 1 .. Len(g) : i \in 1 .. Len(g \o Page(c, id)) /\ (g \o Page(c, id))[i] = g[i]
          /\ \A i \in 1 .. Len(g \o Page(c, id)) :
               i \in 1 .. Len(g) \/ Fresh((g \o Page(c, id))[i], c, id, EndCursor(c, id))
          /\ \A i, k \in 1 .. Len(g \o Page(c, id)) :
               i < k /\ i \notin 1 .. Len(g)
                 => (g \o Page(c, id))[i].node.id < (g \o Page(c, id))[k].node.id
          /\ \A p \in After(c, id) : IF p.id <= EndCursor(c, id)
               THEN \E i \in 1 .. Len(g \o Page(c, id)) : (g \o Page(c, id))[i].node = p
               ELSE HasNextPage(c, id)
          /\ HasNextPage(c, id) => EndCursor(c, id) > id
      BY <2>1, <3>1, PageAdded
    <3>3. h = g \o Page(c, id) /\ end = EndCursor(c, id)
      BY <2>2 DEF g, id
    <3> HIDE DEF h, end
    <3>4. /\ h \in Seq([node : Post, inner : Seq(Post)]) /\ end \in id .. MaxPosts
          /\ \A i \in 1 .. Len(g) : i \in 1 .. Len(h) /\ h[i] = g[i]
          /\ \A i \in 1 .. Len(h) : i \in 1 .. Len(g) \/ Fresh(h[i], c, id, end)
          /\ \A i, k \in 1 .. Len(h) :
               i < k /\ i \notin 1 .. Len(g) => h[i].node.id < h[k].node.id
          /\ \A p \in After(c, id) : IF p.id <= end
               THEN \E i \in 1 .. Len(h) : h[i].node = p ELSE HasNextPage(c, id)
          /\ HasNextPage(c, id) => end > id
      BY <3>2, <3>3
    <3> QED
      BY <3>4 DEF g, id, Entry
  <2> HIDE DEF h, end
  <2>4. more'[c] \in BOOLEAN
    BY <2>2 DEF HasNextPage
  <2>5. end \in 0 .. MaxPosts /\ cursor[c] <= end /\ (more'[c] => end > 0)
    BY <1>1, <2>2, <2>3, PageAssumption
  <2>6. ASSUME NEW i \in 1 .. Len(h), NEW k \in 1 .. Len(h), i < k
        PROVE  h[i].node.id < h[k].node.id
    <3>1. CASE i \notin 1 .. Len(got[c])
      BY <2>3, <2>6, <3>1
    <3>2. CASE i \in 1 .. Len(got[c]) /\ k \in 1 .. Len(got[c])
      BY <1>2, <2>3, <2>6, <3>2
    <3>3. CASE i \in 1 .. Len(got[c]) /\ k \notin 1 .. Len(got[c])
      <4>1. h[i].node.id <= cursor[c] /\ h[i].node.id \in Nat
        BY <1>2, <1>4, <2>3, <3>3 DEF Extends
      <4>2. h[k].node \in posts /\ h[k].node.id > cursor[c]
        BY <2>3, <3>3 DEF Fresh, After
      <4>3. h[k].node.id \in Nat
        BY <4>2, PostIds DEF FetchInv, TypeOK
      <4> QED
        BY <1>1, <4>1, <4>2, <4>3
    <3> QED
      BY <3>1, <3>2, <3>3
  <2> QED
    BY <1>4, <2>2, <2>3, <2>4, <2>5, <2>6 DEF h, end, Entry
<1> QED
  BY <1>3, <1>4

LEMMA AsksKeepsTypes == ASSUME FetchInv, Asks PROVE TypeOK'
<1> DEFINE Entry == [node : Post, inner : Seq(Post)]
<1>1. \A c \in Connections : Extends(c) \/ Stays(c)
  BY DEF Asks
<1>2. \A c \in Connections : /\ got'[c] \in Seq(Entry) /\ cursor'[c] \in 0 .. MaxPosts
                             /\ more'[c] \in BOOLEAN /\ (more'[c] => cursor'[c] > 0)
  BY <1>1, ConnectionAsked
<1> HIDE DEF Entry
<1>3. /\ got' \in [Connections -> Seq(Entry)] /\ cursor' \in [Connections -> 0 .. MaxPosts]
      /\ more' \in [Connections -> BOOLEAN]
  <2>1. got' = [c \in Connections |-> got'[c]]
    BY DEF Asks
  <2>2. cursor' = [c \in Connections |-> cursor'[c]]
    BY DEF Asks
  <2>3. more' = [c \in Connections |-> more'[c]]
    BY DEF Asks
  <2>4. got' \in [Connections -> Seq(Entry)]
    BY <1>2, <2>1
  <2>5. cursor' \in [Connections -> 0 .. MaxPosts]
    BY <1>2, <2>2
  <2>6. more' \in [Connections -> BOOLEAN]
    BY <1>2, <2>3
  <2> QED
    BY <2>4, <2>5, <2>6
<1>4. began' \subseteq Post /\ pc' \in {"url", "viewer", "first"} \union Connections \union Ended
  BY DEF Asks, FetchInv, TypeOK, Connections
<1> QED
  BY <1>2, <1>3, <1>4 DEF Asks, server, FetchInv, TypeOK, Entry

LEMMA AsksSeesNothingNew ==
  ASSUME FetchInv, Asks
  PROVE  /\ Seen' \subseteq Seen
         /\ pc \in NotBegun => Seen' \subseteq posts
         /\ pc \in NotBegun => \A c \in Connections : Len(got[c]) = 0 /\ cursor[c] = 0
<1>1. posts' = posts /\ (began' = began \/ (began' = posts /\ pc \in NotBegun))
  BY DEF Asks, server
<1>2. ASSUME NEW x, Fetched(x)' PROVE Fetched(x) \/ x \in posts
  <2>1. PICK c \in Connections : \E i \in 1 .. Len(got'[c]) :
          x = got'[c][i].node \/ \E j \in 1 .. Len(got'[c][i].inner) : x = got'[c][i].inner[j]
    BY <1>2 DEF Fetched
  <2>2. PICK i \in 1 .. Len(got'[c]) :
          x = got'[c][i].node \/ \E j \in 1 .. Len(got'[c][i].inner) : x = got'[c][i].inner[j]
    BY <2>1
  <2>3. Extends(c) \/ Stays(c)
    BY DEF Asks
  <2>4. /\ \A k \in 1 .. Len(got[c]) : got'[c][k] = got[c][k]
        /\ i \in 1 .. Len(got[c]) \/ Fresh(got'[c][i], c, cursor[c], cursor'[c])
    BY <2>3, ConnectionAsked
  <2>5. CASE i \in 1 .. Len(got[c])
    BY <2>2, <2>4, <2>5 DEF Fetched
  <2>6. CASE Fresh(got'[c][i], c, cursor[c], cursor'[c])
    BY <2>2, <2>6 DEF Fresh, After, Inner
  <2> QED
    BY <2>4, <2>5, <2>6
<1>3. pc \in NotBegun => \A c \in Connections : Len(got[c]) = 0 /\ cursor[c] = 0
  BY DEF FetchInv, NothingYet
<1>4. pc \in NotBegun => began = {} /\ \A x : ~Fetched(x)
  <2>1. \A c \in Connections : Len(got[c]) = 0 => 1 .. Len(got[c]) = {}
    OBVIOUS
  <2> QED
    BY <1>3, <2>1 DEF FetchInv, NothingYet, Fetched
<1>5. pc \in NotBegun \/ began' = began
  BY DEF Asks
<1>6. Seen' \subseteq Seen
  BY <1>1, <1>2 DEF Seen
<1>7. pc \in NotBegun => Seen' \subseteq posts
  BY <1>1, <1>2, <1>4 DEF Seen
<1> QED
  BY <1>3, <1>6, <1>7

LEMMA AsksKeepsOrder == ASSUME FetchInv, Asks PROVE GotInOrder' /\ UpToCursor'
<1> SUFFICES ASSUME NEW c \in Connections, NEW i \in 1 .. Len(got'[c])
             PROVE  /\ got'[c][i].node.conn = c
                    /\ c \notin cut => got'[c][i].node.id <= cursor'[c]
                    /\ \A k \in 1 .. Len(got'[c]) : i < k => got'[c][i].node.id < got'[c][k].node.id
                    /\ \A j \in 1 .. Len(got'[c][i].inner) :
                         /\ got'[c][i].inner[j].conn = "inner"
                         /\ got'[c][i].inner[j].thread = got'[c][i].node.id
                         /\ \A k \in 1 .. Len(got'[c][i].inner) :
                              j < k => got'[c][i].inner[j].id < got'[c][i].inner[k].id
  BY DEF GotInOrder, EntriesInOrder, UpToCursor, Asks
<1>1. Extends(c) \/ Stays(c)
  BY DEF Asks
<1>2. /\ \A k \in 1 .. Len(got[c]) : got'[c][k] = got[c][k]
      /\ i \in 1 .. Len(got[c]) \/ Fresh(got'[c][i], c, cursor[c], cursor'[c])
      /\ \A k \in 1 .. Len(got'[c]) : i < k => got'[c][i].node.id < got'[c][k].node.id
      /\ cursor[c] <= cursor'[c] /\ cursor'[c] \in 0 .. MaxPosts /\ cursor[c] \in 0 .. MaxPosts
  BY <1>1, ConnectionAsked DEF FetchInv, TypeOK
<1>3. CASE i \in 1 .. Len(got[c])
  <2>1. /\ got[c][i].node.conn = c
        /\ c \notin cut => got[c][i].node.id <= cursor[c]
        /\ \A j \in 1 .. Len(got[c][i].inner) :
             /\ got[c][i].inner[j].conn = "inner"
             /\ got[c][i].inner[j].thread = got[c][i].node.id
             /\ \A k \in 1 .. Len(got[c][i].inner) :
                  j < k => got[c][i].inner[j].id < got[c][i].inner[k].id
    BY <1>3 DEF FetchInv, GotInOrder, EntriesInOrder, UpToCursor
  <2>2. got[c][i].node.id \in Nat
    BY <1>3, EntryTyped, PostIds DEF FetchInv
  <2>3. c \notin cut => got[c][i].node.id <= cursor'[c]
    BY <1>2, <2>1, <2>2, PageAssumption
  <2> QED
    BY <1>2, <1>3, <2>1, <2>3
<1>4. CASE Fresh(got'[c][i], c, cursor[c], cursor'[c])
  BY <1>2, <1>4 DEF Fresh, After, Inner
<1> QED
  BY <1>2, <1>3, <1>4

LEMMA AsksKeepsHistory ==
  ASSUME FetchInv, Asks
  PROVE  /\ IsFiniteSet(posts') /\ IsFiniteSet(began') /\ began' \subseteq Post
         /\ IdsOnce' /\ ThreadsHold' /\ BeganIsPast' /\ BeganStays'
<1>1. /\ posts' = posts /\ nextId' = nextId /\ deletes' = deletes
      /\ began' = began \/ (began' = posts /\ pc \in NotBegun)
  BY DEF Asks, server
<1>2. Seen' \subseteq Seen /\ (pc \in NotBegun => Seen' \subseteq posts)
  BY AsksSeesNothingNew
<1>3. IsFiniteSet(posts') /\ IsFiniteSet(began') /\ began' \subseteq Post
  BY <1>1 DEF FetchInv, TypeOK
<1>4. IdsOnce'
  BY <1>1, <1>2 DEF FetchInv, IdsOnce
<1>5. ThreadsHold' /\ BeganStays'
  BY <1>1 DEF FetchInv, ThreadsHold, BeganStays
<1>6. BeganIsPast'
  BY <1>1, <1>2 DEF FetchInv, BeganIsPast
<1> QED
  BY <1>3, <1>4, <1>5, <1>6

LEMMA AsksKeepsNodes == ASSUME FetchInv, Asks PROVE GotNodes'
<1> SUFFICES ASSUME NEW c \in Connections \ cut, NEW p \in began' \intersect posts', p.conn = c
             PROVE  IF p.id <= cursor'[c] THEN \E i \in 1 .. Len(got'[c]) : got'[c][i].node = p
                                          ELSE more'[c]
  BY DEF GotNodes, Asks
<1>1. p \in posts /\ p.id \in Nat /\ p.id >= 1
  BY PostIds DEF Asks, server, FetchInv, TypeOK
<1>2. cursor[c] \in Nat /\ cursor'[c] \in Nat /\ cursor[c] <= cursor'[c]
      /\ \A i \in 1 .. Len(got[c]) : i \in 1 .. Len(got'[c]) /\ got'[c][i] = got[c][i]
  <2>1. Extends(c) \/ Stays(c)
    BY DEF Asks
  <2>2. cursor[c] \in 0 .. MaxPosts
    BY DEF FetchInv, TypeOK
  <2>3. cursor'[c] \in 0 .. MaxPosts /\ cursor[c] <= cursor'[c]
        /\ \A i \in 1 .. Len(got[c]) : i \in 1 .. Len(got'[c]) /\ got'[c][i] = got[c][i]
    BY <2>1, ConnectionAsked
  <2> QED
    BY <2>2, <2>3, PageAssumption
<1>3. ASSUME pc \in Connections
      PROVE  IF p.id <= cursor[c] THEN \E i \in 1 .. Len(got[c]) : got[c][i].node = p ELSE more[c]
  <2>1. p \in began
    BY <1>3 DEF Asks, NotBegun, Connections
  <2> QED
    BY <1>1, <1>3, <2>1 DEF FetchInv, GotNodes, Fetching
<1>4. CASE Extends(c)
  <2>1. CASE p.id <= cursor[c]
    <3>1. pc \in Connections
      BY <1>1, <1>2, <2>1, AsksSeesNothingNew DEF Asks
    <3>2. p.id <= cursor'[c]
      BY <1>1, <1>2, <2>1
    <3> QED
      BY <1>2, <1>3, <2>1, <3>1, <3>2
  <2>2. CASE ~(p.id <= cursor[c])
    <3>1. p \in After(c, cursor[c])
      BY <1>1, <1>2, <2>2 DEF After
    <3> QED
      BY <1>4, <3>1, ConnectionAsked
  <2> QED
    BY <2>1, <2>2
<1>5. CASE ~Extends(c)
  <2>1. pc \in Connections /\ Stays(c)
    BY <1>5 DEF Asks
  <2> QED
    BY <1>2, <1>3, <2>1 DEF Stays
<1> QED
  BY <1>4, <1>5

LEMMA AsksKeepsComments == ASSUME FetchInv, Asks PROVE GotComments'
<1> DEFINE c == "threads"
<1> SUFFICES ASSUME NEW i \in 1 .. Len(got'[c]), NEW p \in began' \intersect posts',
                    p.conn = "inner", p.thread = got'[c][i].node.id, WithinCap(p, began')
             PROVE  \E j \in 1 .. Len(got'[c][i].inner) : got'[c][i].inner[j] = p
  BY DEF GotComments, WithinCap
<1>1. /\ \A k \in 1 .. Len(got[c]) : got'[c][k] = got[c][k]
      /\ i \in 1 .. Len(got[c]) \/ Fresh(got'[c][i], c, cursor[c], cursor'[c])
  <2>1. c \in Connections
    BY DEF Connections
  <2>2. Extends(c) \/ Stays(c)
    BY <2>1 DEF Asks
  <2> HIDE DEF c
  <2> QED
    BY <2>1, <2>2, ConnectionAsked
<1>2. CASE i \in 1 .. Len(got[c])
  <2>1. pc \notin NotBegun
    <3>1. Len(got[c]) # 0
      BY <1>2
    <3> QED
      BY <3>1, AsksSeesNothingNew DEF Connections
  <2>2. began' = began /\ posts' = posts
    BY <2>1 DEF Asks, server
  <2>3. \E j \in 1 .. Len(got[c][i].inner) : got[c][i].inner[j] = p
    BY <1>1, <1>2, <2>2 DEF FetchInv, GotComments
  <2> QED
    BY <1>1, <1>2, <2>3
<1>3. CASE Fresh(got'[c][i], c, cursor[c], cursor'[c])
  <2>1. posts' = posts /\ Identified(posts)
    BY PostsIdentified DEF Asks, server
  <2>2. began' \in SUBSET Post /\ IsFiniteSet(began')
    BY AsksKeepsHistory
  <2>3. \A q \in posts : q.id <= p.id => q \in began'
    BY <2>1, AsksKeepsHistory DEF BeganIsPast, Seen, FetchInv, TypeOK
  <2>4. p \in Oldest(Inner(p.thread), InnerCap)
    BY <2>1, <2>2, <2>3, CapIsOldest
  <2> QED
    BY <1>3, <2>4 DEF Fresh
<1> QED
  BY <1>1, <1>2, <1>3

LEMMA AsksKeeps == ASSUME FetchInv, Asks PROVE FetchInv'
<1>1. TypeOK'
  BY AsksKeepsTypes
<1>2. /\ IsFiniteSet(posts)' /\ IsFiniteSet(began)'
      /\ IdsOnce' /\ ThreadsHold' /\ BeganIsPast' /\ BeganStays'
  BY AsksKeepsHistory
<1>3. GotInOrder' /\ UpToCursor' /\ GotNodes' /\ GotComments'
  BY AsksKeepsOrder, AsksKeepsNodes, AsksKeepsComments
<1>4. DrainedInTurn'
  <2>1. CASE pc' = "conv"
    BY <2>1 DEF DrainedInTurn
  <2>2. CASE pc' # "conv"
    <3>1. /\ pc' = pc /\ pc \in {"threads", "reviews"}
          /\ \A c \in Connections : c # pc => more'[c] = more[c]
      BY <2>2 DEF Asks, Stays, Connections
    <3> QED
      BY <3>1 DEF FetchInv, DrainedInTurn, Connections
  <2> QED
    BY <2>1, <2>2
<1>5. NothingYet'
  BY DEF Asks, NothingYet, NotBegun, Connections
<1>6. CutIsDrained'
  BY DEF Asks, Extends, Stays, FetchInv, TypeOK, CutIsDrained
<1> QED
  BY <1>1, <1>2, <1>3, <1>4, <1>5, <1>6 DEF FetchInv

LEMMA FirstPageKeeps == ASSUME FetchInv, FirstPage PROVE FetchInv'
<1>1. CASE Fail
  BY <1>1, FailKeeps
<1>2. CASE ~Fail
  <2>1. /\ pc = "first" /\ pc' = "conv" /\ began' = posts
        /\ UNCHANGED <<server, viewer, items, cut>>
        /\ got' = [c \in Connections |-> Page(c, 0)]
        /\ cursor' = [c \in Connections |-> EndCursor(c, 0)]
        /\ more' = [c \in Connections |-> HasNextPage(c, 0)]
    BY <1>2 DEF FirstPage
  <2>2. cut = {} /\ \A c \in Connections : got[c] = <<>> /\ cursor[c] = 0
    BY <2>1 DEF FetchInv, NothingYet, NotBegun
  <2>3. ASSUME NEW c \in Connections PROVE Extends(c)
    <3>1. PageOf(Page(c, 0), EndCursor(c, 0), c, 0)
      BY PageIs, PostsIdentified, PageAssumption
    <3>2. <<>> \o Page(c, 0) = Page(c, 0)
      BY <3>1, ConcatEmptySeq DEF PageOf
    <3> QED
      BY <2>1, <2>2, <3>2 DEF Extends
  <2>4. /\ got' = [c \in Connections |-> got'[c]]
        /\ cursor' = [c \in Connections |-> cursor'[c]]
        /\ more' = [c \in Connections |-> more'[c]]
    BY <2>1
  <2>5. Asks
    BY <2>1, <2>3, <2>4 DEF Asks, NotBegun
  <2> QED
    BY <2>5, AsksKeeps
<1> QED
  BY <1>1, <1>2

\* A page that came back null changes nothing but the ends of its connection.
LEMMA NullKeeps ==
  ASSUME FetchInv, NEW c \in Connections, pc = c, Null(c)
  PROVE  FetchInv'
<1>1. /\ UNCHANGED <<pr, posts, nextId, deletes, pc, viewer, got, items, began>>
      /\ cursor' = [cursor EXCEPT ![c] = 0] /\ more' = [more EXCEPT ![c] = FALSE]
      /\ cut' = cut \union {c}
  BY DEF Null, server
<1>2. /\ DOMAIN cursor = Connections /\ DOMAIN more = Connections
      /\ ~more'[c] /\ cursor'[c] = 0
      /\ \A d \in Connections \ {c} : cursor'[d] = cursor[d] /\ more'[d] = more[d]
  BY <1>1 DEF FetchInv, TypeOK
<1>3. TypeOK'
  <2>1. cursor' \in [Connections -> 0 .. MaxPosts] /\ more' \in [Connections -> BOOLEAN]
    BY <1>1, PageAssumption DEF FetchInv, TypeOK
  <2>2. \A d \in Connections : more'[d] => cursor'[d] > 0
    BY <1>2 DEF FetchInv, TypeOK
  <2> QED
    BY <1>1, <2>1, <2>2 DEF FetchInv, TypeOK
<1>4. Seen' = Seen
  BY <1>1 DEF Seen, Fetched
<1>5. IsFiniteSet(posts)' /\ IsFiniteSet(began)' /\ IdsOnce' /\ ThreadsHold' /\ BeganIsPast' /\ BeganStays'
  BY <1>1, <1>4 DEF FetchInv, IdsOnce, ThreadsHold, BeganIsPast, BeganStays
<1>6. GotInOrder' /\ GotComments'
  BY <1>1, OrderKept DEF FetchInv, GotComments, WithinCap
<1>7. CutIsDrained' /\ UpToCursor' /\ GotNodes'
  <2>1. CutIsDrained'
    BY <1>1, <1>2 DEF FetchInv, TypeOK, CutIsDrained
  <2>2. UpToCursor'
    BY <1>1, <1>2 DEF FetchInv, UpToCursor
  <2> QED
    BY <1>1, <1>2, <2>1, <2>2 DEF FetchInv, GotNodes
<1>8. DrainedInTurn' /\ NothingYet'
  BY <1>1, <1>2 DEF FetchInv, DrainedInTurn, NothingYet, NotBegun, Connections
<1> QED
  BY <1>3, <1>5, <1>6, <1>7, <1>8 DEF FetchInv

LEMMA NextPageKeeps == ASSUME FetchInv, NEW c \in Connections, NextPage(c) PROVE FetchInv'
<1>1. CASE Null(c)
  BY <1>1, NullKeeps DEF NextPage
<1>2. CASE ~Null(c)
  <2>1. /\ pc = c /\ pc' = pc /\ began' = began /\ more[c] /\ UNCHANGED <<server, viewer, items, cut>>
        /\ got' = [got EXCEPT ![c] = @ \o Page(c, cursor[c])]
        /\ cursor' = [cursor EXCEPT ![c] = EndCursor(c, cursor[c])]
        /\ more' = [more EXCEPT ![c] = HasNextPage(c, cursor[c])]
    BY <1>2 DEF NextPage
  <2>2. DOMAIN got = Connections /\ DOMAIN cursor = Connections /\ DOMAIN more = Connections
    BY DEF FetchInv, TypeOK
  <2>3. Extends(c) /\ \A d \in Connections : d # c => Stays(d)
    BY <2>1, <2>2 DEF Extends, Stays, FetchInv, CutIsDrained
  <2>4. /\ got' = [d \in Connections |-> got'[d]]
        /\ cursor' = [d \in Connections |-> cursor'[d]]
        /\ more' = [d \in Connections |-> more'[d]]
    BY <2>1, <2>2
  <2>5. Asks
    BY <2>1, <2>3, <2>4 DEF Asks
  <2> QED
    BY <2>5, AsksKeeps
<1> QED
  BY <1>1, <1>2

-----------------------------------------------------------------------------
(* The lists the items come from.                                           *)

LEMMA ListIs ==
  ASSUME FetchInv, NEW l \in Lists
  PROVE  /\ List(l) \in Seq(Post) /\ Len(List(l)) \in Nat
         /\ \A j, k \in 1 .. Len(List(l)) : j < k => List(l)[j].id < List(l)[k].id
         /\ \A j \in 1 .. Len(List(l)) :
              /\ List(l)[j] \in Seen
              /\ \/ l = <<1, 1>> /\ List(l)[j].conn = "conv"
                 \/ l = <<3, 1>> /\ List(l)[j].conn = "reviews"
                 \/ /\ \E i \in 1 .. Len(got["threads"]) :
                         l = <<2, i>> /\ List(l)[j].thread = got["threads"][i].node.id
                    /\ List(l)[j].conn = "inner"
<1>1. ASSUME NEW c \in Connections
      PROVE  /\ Column(c) \in Seq(Post) /\ Len(Column(c)) = Len(got[c]) /\ Len(got[c]) \in Nat
             /\ \A i \in 1 .. Len(got[c]) : /\ Column(c)[i] = got[c][i].node
                                            /\ Column(c)[i] \in Seen /\ Column(c)[i].conn = c
             /\ \A i, k \in 1 .. Len(got[c]) : i < k => Column(c)[i].id < Column(c)[k].id
  <2> DEFINE Entry == [node : Post, inner : Seq(Post)]
  <2>1. got[c] \in Seq(Entry)
    BY DEF FetchInv, TypeOK
  <2> HIDE DEF Entry
  <2>2. DOMAIN got[c] = 1 .. Len(got[c]) /\ Len(got[c]) \in Nat
    BY <2>1
  <2>3. \A i \in 1 .. Len(got[c]) : got[c][i].node \in Post
    BY EntryTyped DEF FetchInv
  <2>4. Column(c) \in [1 .. Len(got[c]) -> Post]
        /\ \A i \in 1 .. Len(got[c]) : Column(c)[i] = got[c][i].node
    BY <2>2, <2>3 DEF Column
  <2>5. Column(c) \in Seq(Post) /\ Len(Column(c)) = Len(got[c])
    BY <2>2, <2>4, FunctionIsSeq
  <2>6. \A i \in 1 .. Len(got[c]) : Column(c)[i] \in Seen
    BY <2>3, <2>4 DEF Seen, Fetched
  <2>7. \A i \in 1 .. Len(got[c]) : Column(c)[i].conn = c
    BY <2>4 DEF FetchInv, GotInOrder, EntriesInOrder
  <2>8. \A i, k \in 1 .. Len(got[c]) : i < k => Column(c)[i].id < Column(c)[k].id
    BY <2>4 DEF FetchInv, GotInOrder, EntriesInOrder
  <2> QED
    BY <2>2, <2>4, <2>5, <2>6, <2>7, <2>8
<1>2. CASE l = <<1, 1>>
  <2>1. List(l) = Column("conv") /\ "conv" \in Connections
    BY <1>2 DEF List, Connections
  <2> QED
    BY <1>1, <1>2, <2>1
<1>3. CASE l = <<3, 1>>
  <2>1. List(l) = Column("reviews") /\ "reviews" \in Connections
    BY <1>3 DEF List, Connections
  <2> QED
    BY <1>1, <1>3, <2>1
<1>4. ASSUME NEW i \in 1 .. Len(got["threads"]), l = <<2, i>>
      PROVE  /\ List(l) \in Seq(Post) /\ Len(List(l)) \in Nat
             /\ \A j, k \in 1 .. Len(List(l)) : j < k => List(l)[j].id < List(l)[k].id
             /\ \A j \in 1 .. Len(List(l)) :
                  /\ List(l)[j] \in Seen /\ List(l)[j].conn = "inner"
                  /\ List(l)[j].thread = got["threads"][i].node.id
  <2>1. List(l) = got["threads"][i].inner /\ "threads" \in Connections
    BY <1>4 DEF List, Connections
  <2>2. List(l) \in Seq(Post)
    BY <2>1, EntryTyped DEF FetchInv
  <2>3. \A j \in 1 .. Len(List(l)) : List(l)[j] \in Post
    BY <2>2
  <2>4. \A j \in 1 .. Len(List(l)) : List(l)[j] \in Seen
    BY <2>1, <2>3 DEF Seen, Fetched
  <2>5. /\ \A j, k \in 1 .. Len(List(l)) : j < k => List(l)[j].id < List(l)[k].id
        /\ \A j \in 1 .. Len(List(l)) :
             List(l)[j].conn = "inner" /\ List(l)[j].thread = got["threads"][i].node.id
    <3> DEFINE c == "threads"
               s == got[c][i].inner
    <3>1. \A j \in 1 .. Len(s) :
            /\ s[j].conn = "inner" /\ s[j].thread = got[c][i].node.id
            /\ \A k \in 1 .. Len(s) : j < k => s[j].id < s[k].id
      BY <2>1, InnerInOrder DEF FetchInv
    <3>2. List(l) = s
      BY <2>1
    <3> HIDE DEF s
    <3> QED
      BY <3>1, <3>2
  <2> QED
    BY <2>2, <2>4, <2>5
<1>5. l = <<1, 1>> \/ l = <<3, 1>> \/ \E i \in 1 .. Len(got["threads"]) : l = <<2, i>>
  <2>1. DOMAIN got["threads"] = 1 .. Len(got["threads"])
    <3> DEFINE Entry == [node : Post, inner : Seq(Post)]
    <3>1. got["threads"] \in Seq(Entry)
      BY DEF FetchInv, TypeOK, Connections
    <3> HIDE DEF Entry
    <3> QED
      BY <3>1
  <2> QED
    BY <2>1 DEF Lists
<1> QED
  BY <1>2, <1>3, <1>4, <1>5

\* Two comments of one thread, or two of the conversation, are in one list.
LEMMA SameList ==
  ASSUME FetchInv, NEW l \in Lists, NEW m \in Lists,
         NEW j \in 1 .. Len(List(l)), NEW k \in 1 .. Len(List(m)),
         List(l)[j].conn = List(m)[k].conn, List(l)[j].thread = List(m)[k].thread
  PROVE  l = m
<1>1. /\ \/ l = <<1, 1>> /\ List(l)[j].conn = "conv"
         \/ l = <<3, 1>> /\ List(l)[j].conn = "reviews"
         \/ /\ \E i \in 1 .. Len(got["threads"]) :
                 l = <<2, i>> /\ List(l)[j].thread = got["threads"][i].node.id
            /\ List(l)[j].conn = "inner"
      /\ \/ m = <<1, 1>> /\ List(m)[k].conn = "conv"
         \/ m = <<3, 1>> /\ List(m)[k].conn = "reviews"
         \/ /\ \E i \in 1 .. Len(got["threads"]) :
                 m = <<2, i>> /\ List(m)[k].thread = got["threads"][i].node.id
            /\ List(m)[k].conn = "inner"
  BY ListIs
<1>2. ASSUME NEW a \in 1 .. Len(got["threads"]), NEW b \in 1 .. Len(got["threads"]),
             got["threads"][a].node.id = got["threads"][b].node.id
      PROVE  a = b
  <2>1. /\ got["threads"][a].node.id \in Nat /\ got["threads"][b].node.id \in Nat
        /\ a < b => got["threads"][a].node.id < got["threads"][b].node.id
        /\ b < a => got["threads"][b].node.id < got["threads"][a].node.id
    BY EntryTyped, PostIds DEF FetchInv, GotInOrder, EntriesInOrder, Connections
  <2> QED
    BY <1>2, <2>1
<1> QED
  BY <1>1, <1>2

LEMMA ListsArePairs ==
  ASSUME FetchInv, NEW l \in Lists
  PROVE  l[1] \in Nat /\ l[2] \in Nat /\ l = <<l[1], l[2]>> /\ DOMAIN List(l) = 1 .. Len(List(l))
<1> DEFINE n == Len(got["threads"])
<1>1. DOMAIN got["threads"] = 1 .. n /\ n \in Nat
  <2> DEFINE Entry == [node : Post, inner : Seq(Post)]
  <2>1. got["threads"] \in Seq(Entry)
    BY DEF FetchInv, TypeOK, Connections
  <2> HIDE DEF Entry
  <2> QED
    BY <2>1
<1> HIDE DEF n
<1>2. l = <<1, 1>> \/ l = <<3, 1>> \/ \E i \in 1 .. n : l = <<2, i>>
  BY <1>1 DEF Lists
<1>3. l[1] \in Nat /\ l[2] \in Nat /\ l = <<l[1], l[2]>>
  BY <1>1, <1>2
<1>4. List(l) \in Seq(Post)
  BY ListIs
<1> QED
  BY <1>3, <1>4

LEMMA PlaceIs ==
  ASSUME FetchInv
  PROVE  /\ \A l \in Lists : \A j \in 1 .. Len(List(l)) :
              Wanted(l, List(l)[j]) => <<l[1], l[2], j>> \in Places
         /\ \A x \in Places : \E l \in Lists : \E j \in 1 .. Len(List(l)) :
              x = <<l[1], l[2], j>> /\ Wanted(l, List(l)[j])
<1>1. \A l \in Lists : DOMAIN List(l) = 1 .. Len(List(l))
  BY ListsArePairs
<1> DEFINE At(l) == {<<l[1], l[2], j>> : j \in {i \in DOMAIN List(l) : Wanted(l, List(l)[i])}}
<1>2. ASSUME NEW l \in Lists, NEW j \in 1 .. Len(List(l)), Wanted(l, List(l)[j])
      PROVE  <<l[1], l[2], j>> \in Places
  <2>1. <<l[1], l[2], j>> \in At(l)
    BY <1>1, <1>2
  <2> QED
    BY <2>1 DEF Places
<1>3. ASSUME NEW x \in Places
      PROVE  \E l \in Lists : \E j \in 1 .. Len(List(l)) :
               x = <<l[1], l[2], j>> /\ Wanted(l, List(l)[j])
  <2>1. PICK l \in Lists : x \in At(l)
    BY DEF Places
  <2>2. PICK j \in DOMAIN List(l) : x = <<l[1], l[2], j>> /\ Wanted(l, List(l)[j])
    BY <2>1
  <2> QED
    BY <1>1, <2>2
<1> QED
  BY <1>2, <1>3

LEMMA ValuesFinite ==
  ASSUME NEW S, IsFiniteSet(S), NEW f, f = [x \in S |-> f[x]]
  PROVE  IsFiniteSet({f[x] : x \in S})
<1>1. f \in Surjection(S, {f[x] : x \in S})
  BY DEF Surjection
<1> QED
  BY <1>1, FS_Surjection

LEMMA PlacesFinite == ASSUME FetchInv PROVE IsFiniteSet(Places)
<1> DEFINE n == Len(got["threads"])
           Threads == {<<2, i>> : i \in 1 .. n}
           At(l) == {<<l[1], l[2], j>> : j \in {i \in DOMAIN List(l) : Wanted(l, List(l)[i])}}
<1>1. DOMAIN got["threads"] = 1 .. n /\ n \in Nat
  <2> DEFINE Entry == [node : Post, inner : Seq(Post)]
  <2>1. got["threads"] \in Seq(Entry)
    BY DEF FetchInv, TypeOK, Connections
  <2> HIDE DEF Entry
  <2> QED
    BY <2>1
<1> HIDE DEF n
<1>2. IsFiniteSet(Threads)
  <2> DEFINE f == [i \in 1 .. n |-> <<2, i>>]
  <2>1. f = [i \in 1 .. n |-> f[i]] /\ {f[i] : i \in 1 .. n} = Threads
    OBVIOUS
  <2>2. IsFiniteSet(1 .. n)
    BY <1>1, FS_Interval
  <2> HIDE DEF f, Threads
  <2>3. IsFiniteSet({f[i] : i \in 1 .. n})
    BY <2>1, <2>2, ValuesFinite
  <2> QED
    BY <2>1, <2>3
<1>3. IsFiniteSet(Lists)
  <2>1. IsFiniteSet({<<1, 1>>} \union {<<3, 1>>})
    <3>1. IsFiniteSet({<<1, 1>>}) /\ IsFiniteSet({<<3, 1>>})
      BY FS_Singleton
    <3> QED
      BY <3>1, FS_Union
  <2>2. Lists = ({<<1, 1>>} \union {<<3, 1>>}) \union Threads
    BY <1>1 DEF Lists
  <2> HIDE DEF Threads
  <2> QED
    BY <1>2, <2>1, <2>2, FS_Union
<1>4. ASSUME NEW l \in Lists PROVE IsFiniteSet(At(l))
  <2> DEFINE J == {i \in DOMAIN List(l) : Wanted(l, List(l)[i])}
             f == [j \in J |-> <<l[1], l[2], j>>]
  <2>1. Len(List(l)) \in Nat /\ DOMAIN List(l) = 1 .. Len(List(l))
    BY ListIs, ListsArePairs
  <2>2. IsFiniteSet(J)
    <3>1. J \subseteq 1 .. Len(List(l)) /\ IsFiniteSet(1 .. Len(List(l)))
      BY <2>1, FS_Interval
    <3> HIDE DEF J
    <3> QED
      BY <3>1, FS_Subset
  <2>3. f = [j \in J |-> f[j]] /\ {f[j] : j \in J} = At(l)
    OBVIOUS
  <2> HIDE DEF f, J, At
  <2>4. IsFiniteSet({f[j] : j \in J})
    BY <2>2, <2>3, ValuesFinite
  <2> QED
    BY <2>3, <2>4
<1>5. IsFiniteSet({At(l) : l \in Lists})
  <2> DEFINE f == [l \in Lists |-> At(l)]
  <2>1. f = [l \in Lists |-> f[l]] /\ {f[l] : l \in Lists} = {At(l) : l \in Lists}
    BY Zenon
  <2> HIDE DEF f, At
  <2>2. IsFiniteSet({f[l] : l \in Lists})
    BY <1>3, <2>1, ValuesFinite
  <2> QED
    BY <2>1, <2>2
<1>6. Places = UNION {At(l) : l \in Lists}
  BY DEF Places
<1>7. \A T \in {At(l) : l \in Lists} : IsFiniteSet(T)
  BY <1>4
<1> HIDE DEF At
<1> QED
  BY <1>5, <1>6, <1>7, FS_UNION

\* The places are listed one after the other, and each gives an item.
LEMMA CollectItemsIs ==
  ASSUME FetchInv
  PROVE  LET n == Cardinality(Places) IN
         \E places \in [1 .. n -> Places] :
           /\ n \in Nat /\ CollectItems = [i \in 1 .. n |-> Item(places[i])]
           /\ \A x \in Places : \E i \in 1 .. n : places[i] = x
           /\ \A i, j \in 1 .. n : i < j => Before(places[i], places[j])
<1> DEFINE n == Cardinality(Places)
           R == {x \in Places \X Places : Before(x[1], x[2])}
           places == Ordered(Places, R)
<1>1. \A x, y \in Places : <<x, y>> \in R <=> Before(x, y)
  OBVIOUS
<1>2. ASSUME NEW x \in Places
      PROVE  x[1] \in Nat /\ x[2] \in Nat /\ x[3] \in Nat /\ x = <<x[1], x[2], x[3]>>
  <2>1. PICK l \in Lists : \E j \in 1 .. Len(List(l)) : x = <<l[1], l[2], j>>
    BY PlaceIs
  <2>2. PICK j \in 1 .. Len(List(l)) : x = <<l[1], l[2], j>>
    BY <2>1
  <2>3. l[1] \in Nat /\ l[2] \in Nat /\ j \in Nat
    BY ListsArePairs, ListIs
  <2> QED
    BY <2>2, <2>3
<1> HIDE DEF R
<1>3. Orders(R, Places)
  <2>1. \A x \in Places : ~Before(x, x)
    BY <1>2 DEF Before
  <2>2. ASSUME NEW x \in Places, NEW y \in Places, x # y PROVE Before(x, y) \/ Before(y, x)
    <3>1. x[1] # y[1] \/ x[2] # y[2] \/ x[3] # y[3]
      BY <1>2, <2>2
    <3> QED
      BY <1>2, <3>1 DEF Before
  <2>3. ASSUME NEW x \in Places, NEW y \in Places, NEW z \in Places, Before(x, y), Before(y, z)
        PROVE  Before(x, z)
    BY <1>2, <2>3 DEF Before
  <2> QED
    BY <1>1, <2>1, <2>2, <2>3 DEF Orders
<1>4. Listing(places, Places, R)
  BY <1>3, PlacesFinite, ListingExists
<1>5. n \in Nat
  BY PlacesFinite, FS_CardinalityType
<1> HIDE DEF places
<1>6. places \in [1 .. n -> Places] /\ DOMAIN places = 1 .. n
  BY <1>4 DEF Listing
<1>7. CollectItems = [i \in 1 .. n |-> Item(places[i])]
  BY <1>6 DEF CollectItems, places, R
<1>8. /\ \A x \in Places : \E i \in 1 .. n : places[i] = x
      /\ \A i, j \in 1 .. n : i < j => Before(places[i], places[j])
  BY <1>1, <1>4, <1>6 DEF Listing
<1> QED
  BY <1>5, <1>6, <1>7, <1>8

LEMMA ItemIs ==
  ASSUME FetchInv, NEW l \in Lists, NEW j \in 1 .. Len(List(l))
  PROVE  LET it == Item(<<l[1], l[2], j>>) IN
         /\ it.id = List(l)[j].id /\ it.conn = List(l)[j].conn /\ it.thread = List(l)[j].thread
         /\ it.hasJReply = (l[1] # 3 /\ Marked(List(l), j))
         /\ it \in [id : 1 .. MaxPosts, conn : Connections \union {"inner"},
                    thread : 0 .. MaxPosts, hasJReply : BOOLEAN]
<1> DEFINE x == <<l[1], l[2], j>>
           s == List(l)
<1>1. l = <<x[1], x[2]>> /\ x[3] = j /\ x[1] = l[1]
  BY ListsArePairs
<1>2. Item(x) = [id |-> s[j].id, conn |-> s[j].conn, thread |-> s[j].thread,
                 hasJReply |-> l[1] # 3 /\ Marked(s, j)]
  BY <1>1 DEF Item
<1>3. s[j] \in Post
  BY ListIs
<1>4. s[j].id \in 1 .. MaxPosts /\ s[j].conn \in Connections \union {"inner"}
      /\ s[j].thread \in 0 .. MaxPosts
  BY <1>3 DEF Post
<1> DEFINE mark == l[1] # 3 /\ Marked(s, j)
<1>5. mark \in BOOLEAN
  OBVIOUS
<1> HIDE DEF x, s, mark
<1>6. Item(x) = [id |-> s[j].id, conn |-> s[j].conn, thread |-> s[j].thread, hasJReply |-> mark]
  BY <1>2 DEF mark
<1>7. /\ Item(x).id = s[j].id /\ Item(x).conn = s[j].conn /\ Item(x).thread = s[j].thread
      /\ Item(x).hasJReply = mark
  BY <1>6
<1>8. Item(x) \in [id : 1 .. MaxPosts, conn : Connections \union {"inner"},
                   thread : 0 .. MaxPosts, hasJReply : BOOLEAN]
  BY <1>4, <1>5, <1>6
<1> QED
  BY <1>7, <1>8 DEF x, s, mark

LEMMA CollectItemsTyped ==
  ASSUME FetchInv
  PROVE  CollectItems \in Seq([id : 1 .. MaxPosts, conn : Connections \union {"inner"},
                               thread : 0 .. MaxPosts, hasJReply : BOOLEAN])
<1> DEFINE n == Cardinality(Places)
           Items == [id : 1 .. MaxPosts, conn : Connections \union {"inner"},
                     thread : 0 .. MaxPosts, hasJReply : BOOLEAN]
<1>1. PICK places \in [1 .. n -> Places] :
        n \in Nat /\ CollectItems = [i \in 1 .. n |-> Item(places[i])]
  BY CollectItemsIs
<1>2. ASSUME NEW x \in Places PROVE Item(x) \in Items
  <2>1. PICK l \in Lists : \E j \in 1 .. Len(List(l)) : x = <<l[1], l[2], j>>
    BY PlaceIs
  <2>2. PICK j \in 1 .. Len(List(l)) : x = <<l[1], l[2], j>>
    BY <2>1
  <2> QED
    BY <2>2, ItemIs
<1> HIDE DEF n, Items
<1>3. CollectItems \in [1 .. n -> Items]
  BY <1>1, <1>2
<1> QED
  BY <1>1, <1>3, FunctionIsSeq DEF Items

LEMMA CollectKeeps == ASSUME FetchInv, Collect PROVE FetchInv'
<1>1. /\ pc = "reviews" /\ ~more["reviews"] /\ items' = CollectItems /\ pc' = "done"
      /\ UNCHANGED <<pr, posts, nextId, deletes, viewer, got, cursor, more, began, cut>>
  BY DEF Collect, server
<1>2. TypeOK'
  BY <1>1, CollectItemsTyped DEF FetchInv, TypeOK, Ended
<1>3. Seen' = Seen
  BY <1>1 DEF Seen, Fetched
<1>4. IdsOnce' /\ ThreadsHold' /\ BeganIsPast' /\ BeganStays'
  BY <1>1, <1>3 DEF FetchInv, IdsOnce, ThreadsHold, BeganIsPast, BeganStays
<1>5. GotInOrder'
  BY <1>1, OrderKept DEF FetchInv
<1>6. CutIsDrained' /\ UpToCursor' /\ GotNodes'
  BY <1>1 DEF FetchInv, CutIsDrained, UpToCursor, GotNodes, Fetching, Connections
<1>7. GotComments'
  BY <1>1 DEF FetchInv, GotComments, WithinCap
<1>8. DrainedInTurn'
  <2>1. CollectItems' = CollectItems
    BY <1>1, CollectItemsKept
  <2> QED
    BY <1>1, <2>1 DEF FetchInv, DrainedInTurn
<1>9. NothingYet'
  BY <1>1 DEF NothingYet, NotBegun
<1>10. IsFiniteSet(posts)' /\ IsFiniteSet(began)'
  BY <1>1 DEF FetchInv
<1> QED
  BY <1>2, <1>4, <1>5, <1>6, <1>7, <1>8, <1>9, <1>10 DEF FetchInv

LEMMA FetchInvStep == FetchInv /\ [Next]_vars => FetchInv'
<1> SUFFICES ASSUME FetchInv, [Next]_vars PROVE FetchInv'
  OBVIOUS
<1>1. CASE ParseURL
  BY <1>1, ParseURLKeeps
<1>2. CASE Viewer
  BY <1>2, ViewerKeeps
<1>3. CASE FirstPage
  BY <1>3, FirstPageKeeps
<1>4. CASE Drained
  BY <1>4, DrainedKeeps
<1>5. CASE Collect
  BY <1>5, CollectKeeps
<1>6. ASSUME NEW c \in Connections, NextPage(c) PROVE FetchInv'
  BY <1>6, NextPageKeeps
<1>7. CASE RequestFails
  BY <1>7, FailKeeps DEF RequestFails
<1>8. CASE SomebodyPosts
  BY <1>8, SomebodyPostsKeeps
<1>9. CASE SomebodyDeletes
  BY <1>9, SomebodyDeletesKeeps
<1>10. CASE StateChanges
  BY <1>10, StateChangesKeeps
<1>11. CASE UNCHANGED vars
  <2>1. UNCHANGED <<pr, posts, nextId, deletes, pc, viewer, got, cursor, more, items, began, cut>>
    BY <1>11 DEF vars, server, fetch
  <2>2. TypeOK'
    BY <2>1 DEF FetchInv, TypeOK
  <2>3. CollectItems' = CollectItems
    BY <2>1, CollectItemsKept
  <2>4. DrainedInTurn' /\ NothingYet'
    BY <2>1, <2>3 DEF FetchInv, DrainedInTurn, NothingYet
  <2> QED
    BY <2>1, <2>2, <2>4, DataKept
<1> QED
  BY <1>1, <1>2, <1>3, <1>4, <1>5, <1>6, <1>7, <1>8, <1>9, <1>10, <1>11 DEF Next, FetchPR

LEMMA FetchInvHolds == Spec => []FetchInv
BY FetchInvInit, FetchInvStep, PTL DEF Spec

\* There are no items before the fetch is done.
ItemsAtLast == pc # "done" => items = <<>>

LEMMA ItemsAtLastHolds == Spec => []ItemsAtLast
<1>1. Init => ItemsAtLast
  BY DEF Init, ItemsAtLast
<1>2. ItemsAtLast /\ [Next]_vars => ItemsAtLast'
  <2> SUFFICES ASSUME ItemsAtLast, [Next]_vars PROVE ItemsAtLast'
    OBVIOUS
  <2>1. CASE Collect
    BY <2>1 DEF Collect, ItemsAtLast
  <2>2. CASE items' = items /\ (pc = "done" => pc' = "done")
    BY <2>2 DEF ItemsAtLast
  <2>3. Collect \/ (items' = items /\ (pc = "done" => pc' = "done"))
    BY DEF Next, FetchPR, ParseURL, Viewer, FirstPage, Drained, NextPage, Null, RequestFails,
           SomebodyPosts, SomebodyDeletes, StateChanges, Publish, Fail, vars, server, fetch,
           Ended, Connections
  <2> QED
    BY <2>1, <2>2, <2>3
<1> QED
  BY <1>1, <1>2, PTL DEF Spec

\* Every value has its type in every state (the types of Client and Item).
THEOREM FetchTypeCorrect == Spec => []TypeOK
<1>1. FetchInv => TypeOK
  BY DEF FetchInv
<1> QED
  BY <1>1, FetchInvHolds, PTL

-----------------------------------------------------------------------------
(* What the items are in the end.                                           *)

\* Each item stands for one entry of a list that is wanted, and every such
\* entry has an item.
LEMMA ItemsAre ==
  ASSUME FetchInv, pc = "done"
  PROVE  /\ \A l \in Lists : \A j \in 1 .. Len(List(l)) : Wanted(l, List(l)[j])
              => \E n \in DOMAIN items : items[n] = Item(<<l[1], l[2], j>>)
         /\ \A n, m \in DOMAIN items : n < m =>
              \E k, l \in Lists : \E i \in 1 .. Len(List(k)), j \in 1 .. Len(List(l)) :
                /\ items[n] = Item(<<k[1], k[2], i>>) /\ items[m] = Item(<<l[1], l[2], j>>)
                /\ Before(<<k[1], k[2], i>>, <<l[1], l[2], j>>)
<1> DEFINE N == Cardinality(Places)
<1>1. PICK places \in [1 .. N -> Places] :
        /\ N \in Nat /\ CollectItems = [i \in 1 .. N |-> Item(places[i])]
        /\ \A x \in Places : \E i \in 1 .. N : places[i] = x
        /\ \A i, j \in 1 .. N : i < j => Before(places[i], places[j])
  BY CollectItemsIs
<1> HIDE DEF N
<1>2. items = CollectItems
  BY DEF FetchInv, DrainedInTurn
<1>3. DOMAIN items = 1 .. N /\ \A i \in 1 .. N : items[i] = Item(places[i])
  BY <1>1, <1>2
<1>4. ASSUME NEW l \in Lists, NEW j \in 1 .. Len(List(l)), Wanted(l, List(l)[j])
      PROVE  \E n \in DOMAIN items : items[n] = Item(<<l[1], l[2], j>>)
  <2>1. <<l[1], l[2], j>> \in Places
    BY <1>4, PlaceIs
  <2> QED
    BY <1>1, <1>3, <2>1
<1>5. ASSUME NEW n \in DOMAIN items, NEW m \in DOMAIN items, n < m
      PROVE  \E k, l \in Lists : \E i \in 1 .. Len(List(k)), j \in 1 .. Len(List(l)) :
               /\ items[n] = Item(<<k[1], k[2], i>>) /\ items[m] = Item(<<l[1], l[2], j>>)
               /\ Before(<<k[1], k[2], i>>, <<l[1], l[2], j>>)
  <2>1. /\ items[n] = Item(places[n]) /\ items[m] = Item(places[m])
        /\ Before(places[n], places[m]) /\ places[n] \in Places /\ places[m] \in Places
    BY <1>1, <1>3, <1>5
  <2>2. PICK k \in Lists : \E i \in 1 .. Len(List(k)) : places[n] = <<k[1], k[2], i>>
    BY <2>1, PlaceIs
  <2>3. PICK i \in 1 .. Len(List(k)) : places[n] = <<k[1], k[2], i>>
    BY <2>2
  <2>4. PICK l \in Lists : \E j \in 1 .. Len(List(l)) : places[m] = <<l[1], l[2], j>>
    BY <2>1, PlaceIs
  <2>5. PICK j \in 1 .. Len(List(l)) : places[m] = <<l[1], l[2], j>>
    BY <2>4
  <2> QED
    BY <2>1, <2>3, <2>5
<1> QED
  BY <1>4, <1>5

\* What was there when the fetch began and is still there is in a list, if no
\* page of its connection came back null.
LEMMA Listed ==
  ASSUME FetchInv, pc = "done", NEW p \in began \intersect posts,
         p.conn # "threads", WithinCap(p, began), Carrier(p) \notin cut
  PROVE  \E l \in Lists : \E j \in 1 .. Len(List(l)) :
           List(l)[j] = p /\ (l[1] = 3 <=> p.conn = "reviews")
<1>1. ASSUME NEW c \in Connections \ cut, NEW q \in began \intersect posts, q.conn = c
      PROVE  \E i \in 1 .. Len(got[c]) : got[c][i].node = q
  <2>1. ~more[c]
    BY DEF FetchInv, DrainedInTurn, Connections
  <2> QED
    BY <1>1, <2>1 DEF FetchInv, GotNodes, Fetching
<1>2. ASSUME NEW c \in Connections, NEW i \in 1 .. Len(got[c]), got[c][i].node = p
      PROVE  i \in 1 .. Len(Column(c)) /\ Column(c)[i] = p
  <2> DEFINE Entry == [node : Post, inner : Seq(Post)]
  <2>1. got[c] \in Seq(Entry)
    BY DEF FetchInv, TypeOK
  <2> HIDE DEF Entry
  <2>2. DOMAIN got[c] = 1 .. Len(got[c]) /\ Len(got[c]) \in Nat
    BY <2>1
  <2>3. Column(c) \in [1 .. Len(got[c]) -> Post] /\ Column(c)[i] = p
    BY <1>2, <2>2, EntryTyped DEF Column, FetchInv
  <2>4. Len(Column(c)) = Len(got[c])
    BY <2>2, <2>3, FunctionIsSeq
  <2> QED
    BY <2>3, <2>4
<1>3. CASE p.conn = "conv"
  <2>1. PICK i \in 1 .. Len(Column("conv")) : Column("conv")[i] = p
    BY <1>1, <1>2, <1>3 DEF Connections, Carrier
  <2>2. <<1, 1>> \in Lists /\ List(<<1, 1>>) = Column("conv")
    BY DEF Lists, List
  <2> QED
    BY <1>3, <2>1, <2>2
<1>4. CASE p.conn = "reviews"
  <2>1. PICK i \in 1 .. Len(Column("reviews")) : Column("reviews")[i] = p
    BY <1>1, <1>2, <1>4 DEF Connections, Carrier
  <2>2. <<3, 1>> \in Lists /\ List(<<3, 1>>) = Column("reviews")
    BY DEF Lists, List
  <2> QED
    BY <1>4, <2>1, <2>2
<1>5. CASE p.conn = "inner"
  <2>1. PICK t \in posts : t.conn = "threads" /\ t.id = p.thread /\ t.id < p.id
    BY <1>5 DEF FetchInv, ThreadsHold
  <2>2. t \in began
    <3>1. t \in Seen /\ t.id \in Nat /\ p.id \in Nat
      BY PostIds DEF Seen, FetchInv, TypeOK
    <3>2. t.id <= p.id
      BY <2>1, <3>1
    <3> QED
      BY <3>1, <3>2 DEF FetchInv, BeganIsPast
  <2>3. PICK i \in 1 .. Len(got["threads"]) : got["threads"][i].node = t
    BY <1>1, <1>5, <2>1, <2>2 DEF Connections, Carrier
  <2>4. PICK j \in 1 .. Len(got["threads"][i].inner) : got["threads"][i].inner[j] = p
    BY <1>5, <2>1, <2>3 DEF FetchInv, GotComments
  <2>5. <<2, i>> \in Lists /\ List(<<2, i>>) = got["threads"][i].inner
    <3> DEFINE Entry == [node : Post, inner : Seq(Post)]
    <3>1. got["threads"] \in Seq(Entry)
      BY DEF FetchInv, TypeOK, Connections
    <3> HIDE DEF Entry
    <3>2. i \in DOMAIN got["threads"]
      BY <3>1
    <3> QED
      BY <3>2 DEF Lists, List
  <2> QED
    BY <1>5, <2>4, <2>5
<1>6. p.conn \in Connections \union {"inner"}
  BY DEF FetchInv, TypeOK, Post
<1> QED
  BY <1>3, <1>4, <1>5, <1>6 DEF Connections

\* However posts come and go between two pages, an item is listed once and
\* the items of each connection or thread are in creation order (collectItems
\* over the drained lists).
THEOREM ItemsCorrect == Spec => []ItemsOnceInOrder
<1>1. FetchInv /\ ItemsAtLast => ItemsOnceInOrder
  <2> SUFFICES ASSUME FetchInv, ItemsAtLast, NEW n \in DOMAIN items, NEW m \in DOMAIN items, n < m,
                      items[n].conn = items[m].conn, items[n].thread = items[m].thread
               PROVE  items[n].id < items[m].id
    BY DEF ItemsOnceInOrder
  <2>1. pc = "done"
    BY DEF ItemsAtLast
  <2>2. PICK k \in Lists, l \in Lists : \E i \in 1 .. Len(List(k)), j \in 1 .. Len(List(l)) :
          /\ items[n] = Item(<<k[1], k[2], i>>) /\ items[m] = Item(<<l[1], l[2], j>>)
          /\ Before(<<k[1], k[2], i>>, <<l[1], l[2], j>>)
    BY <2>1, ItemsAre
  <2>3. PICK i \in 1 .. Len(List(k)), j \in 1 .. Len(List(l)) :
          /\ items[n] = Item(<<k[1], k[2], i>>) /\ items[m] = Item(<<l[1], l[2], j>>)
          /\ Before(<<k[1], k[2], i>>, <<l[1], l[2], j>>)
    BY <2>2
  <2>4. /\ items[n].id = List(k)[i].id /\ items[m].id = List(l)[j].id
        /\ List(k)[i].conn = List(l)[j].conn /\ List(k)[i].thread = List(l)[j].thread
    BY <2>3, ItemIs
  <2>5. k = l
    BY <2>4, SameList
  <2>6. i < j
    BY <2>3, <2>5, ListsArePairs DEF Before
  <2> QED
    BY <2>4, <2>5, <2>6, ListIs
<1> QED
  BY <1>1, FetchInvHolds, ItemsAtLastHolds, PTL

\* Nothing said before the fetch began and never taken back is missing from
\* the items, but for J's own replies, the later comments of a long thread and
\* the rest of a connection that answered null (fetchPaged: the cursors pass
\* over nothing).
THEOREM CompleteCorrect == Spec => []FetchComplete
<1>1. FetchInv => FetchComplete
  <2> SUFFICES ASSUME FetchInv, pc = "done", NEW p \in began, p \in posts, WithinCap(p, began),
                      p.conn # "threads", p.kind # "blank",
                      ~(p.kind = "jreply" /\ viewer = "known"), Carrier(p) \notin cut
               PROVE  p.id \in IdsOf(items)
    BY DEF FetchComplete, Owed
  <2>1. PICK l \in Lists : \E j \in 1 .. Len(List(l)) : List(l)[j] = p
    BY Listed
  <2>2. PICK j \in 1 .. Len(List(l)) : List(l)[j] = p
    BY <2>1
  <2>3. Wanted(l, List(l)[j])
    BY <2>2 DEF Wanted, IsReply
  <2>4. PICK n \in DOMAIN items : items[n] = Item(<<l[1], l[2], j>>)
    BY <2>3, ItemsAre
  <2>5. items[n].id = p.id
    BY <2>2, <2>4, ItemIs
  <2> QED
    BY <2>5 DEF IdsOf
<1> QED
  BY <1>1, FetchInvHolds, PTL

\* A comment that J's reply followed when the fetch began is marked, on
\* whichever pages the two come, when nothing is deleted meanwhile and no page
\* of their connection answered null (collectReplyAuthors on the drained lists).
THEOREM AnswersCorrect == Spec => []AnsweredAreMarked
<1>1. FetchInv => AnsweredAreMarked
  <2> SUFFICES ASSUME FetchInv, pc = "done", viewer = "known", deletes = 0,
                      NEW p \in began, NEW q \in began, Follows(p, q, began),
                      p.conn \in {"conv", "inner"}, p.kind # "jreply", q.kind = "jreply",
                      WithinCap(q, began), Carrier(p) \notin cut
               PROVE  \E n \in DOMAIN items : items[n].id = p.id /\ items[n].hasJReply
    BY DEF AnsweredAreMarked
  <2>1. p \in posts /\ q \in posts
    BY DEF FetchInv, BeganStays
  <2>2. /\ p.conn = q.conn /\ p.thread = q.thread /\ p.id < q.id
        /\ \A r \in began : r.conn = p.conn /\ r.thread = p.thread => ~(p.id < r.id /\ r.id < q.id)
    BY DEF Follows
  <2>3. p.id \in Nat /\ q.id \in Nat /\ \A r \in Seen : r.id \in Nat
    BY PostIds DEF FetchInv, TypeOK, Seen
  <2>4. WithinCap(p, began)
    <3> DEFINE UpTo(x) == {r \in began : r.thread = x.thread /\ r.id <= x.id}
    <3>1. UpTo(p) \subseteq UpTo(q)
      BY <2>2, <2>3, PostIds DEF FetchInv, TypeOK
    <3>2. IsFiniteSet(UpTo(q)) /\ UpTo(q) \subseteq began
      BY FS_Subset DEF FetchInv
    <3>3. Cardinality(UpTo(p)) <= Cardinality(UpTo(q)) /\ Cardinality(UpTo(p)) \in Nat
          /\ Cardinality(UpTo(q)) \in Nat
      <4> HIDE DEF UpTo
      <4> QED
        BY <3>1, <3>2, FS_Subset, FS_CardinalityType
    <3>4. q.conn = "inner" => Cardinality(UpTo(q)) <= InnerCap
      BY DEF WithinCap
    <3>5. p.conn = "inner" => Cardinality(UpTo(p)) <= InnerCap
      <4> HIDE DEF UpTo
      <4> QED
        BY <2>2, <3>3, <3>4, PageAssumption
    <3> QED
      BY <3>5 DEF WithinCap
  <2>5. PICK l \in Lists : \E j \in 1 .. Len(List(l)) :
          List(l)[j] = p /\ (l[1] = 3 <=> p.conn = "reviews")
    BY <2>1, <2>4, Listed
  <2>6. PICK j \in 1 .. Len(List(l)) : List(l)[j] = p /\ (l[1] = 3 <=> p.conn = "reviews")
    BY <2>5
  <2>7. PICK m \in Lists : \E k \in 1 .. Len(List(m)) : List(m)[k] = q
    BY <2>1, <2>2, Listed DEF Carrier
  <2>8. PICK k \in 1 .. Len(List(m)) : List(m)[k] = q
    BY <2>7
  <2>9. l = m
    BY <2>2, <2>6, <2>8, SameList
  <2>10. /\ Len(List(l)) \in Nat /\ k \in 1 .. Len(List(l)) /\ List(l)[k] = q
         /\ \A a, b \in 1 .. Len(List(l)) : a < b => List(l)[a].id < List(l)[b].id
    BY <2>8, <2>9, ListIs
  <2>11. j < k
    <3>1. ~(k < j) /\ k # j
      BY <2>2, <2>3, <2>6, <2>10
    <3> QED
      BY <2>10, <3>1
  <2>12. k = j + 1
    <3> SUFFICES ASSUME k # j + 1 PROVE FALSE
      OBVIOUS
    <3> DEFINE r == List(l)[j + 1]
    <3>1. j + 1 \in 1 .. Len(List(l)) /\ j < j + 1 /\ j + 1 < k
      BY <2>10, <2>11
    <3>2. p.id < r.id /\ r.id < q.id
      BY <2>6, <2>10, <3>1
    <3>3. r \in Seen
      BY <3>1, ListIs
    <3>4. r \in began
      <4>1. r.id <= q.id
        BY <2>3, <3>2, <3>3
      <4> QED
        BY <3>3, <4>1 DEF FetchInv, BeganIsPast
    <3>5. r.conn = p.conn /\ r.thread = p.thread
      <4>1. \/ l = <<1, 1>> /\ r.conn = "conv" /\ p.conn = "conv"
            \/ l = <<3, 1>> /\ p.conn = "reviews"
            \/ r.conn = "inner" /\ p.conn = "inner" /\ \E i, h \in 1 .. Len(got["threads"]) :
                 /\ l = <<2, i>> /\ r.thread = got["threads"][i].node.id
                 /\ l = <<2, h>> /\ p.thread = got["threads"][h].node.id
        <5>1. \A a \in 1 .. Len(List(l)) :
                \/ l = <<1, 1>> /\ List(l)[a].conn = "conv"
                \/ l = <<3, 1>> /\ List(l)[a].conn = "reviews"
                \/ /\ \E i \in 1 .. Len(got["threads"]) :
                        l = <<2, i>> /\ List(l)[a].thread = got["threads"][i].node.id
                   /\ List(l)[a].conn = "inner"
          BY ListIs
        <5>2. l # <<1, 1>> \/ l # <<3, 1>>
          OBVIOUS
        <5>3. \A i \in 1 .. Len(got["threads"]) : l = <<2, i>> => l # <<1, 1>> /\ l # <<3, 1>>
          OBVIOUS
        <5>4. List(l)[j] = p /\ r = List(l)[j + 1] /\ j + 1 \in 1 .. Len(List(l))
          BY <2>6, <3>1
        <5> HIDE DEF r
        <5> QED
          BY <5>1, <5>2, <5>3, <5>4
      <4>2. r.conn # "inner" => r.thread = 0
        BY <3>3 DEF FetchInv, IdsOnce
      <4>3. p.conn # "inner" => p.thread = 0
        BY DEF FetchInv, IdsOnce, Seen, TypeOK
      <4> QED
        BY <4>1, <4>2, <4>3
    <3> QED
      BY <2>2, <3>2, <3>4, <3>5
  <2>13. Marked(List(l), j)
    BY <2>10, <2>11, <2>12 DEF Marked, IsReply
  <2>14. Wanted(l, List(l)[j]) /\ l[1] # 3
    BY <2>6 DEF Wanted, IsReply
  <2>15. PICK n \in DOMAIN items : items[n] = Item(<<l[1], l[2], j>>)
    BY <2>14, ItemsAre
  <2>16. items[n].id = p.id /\ items[n].hasJReply
    BY <2>6, <2>13, <2>14, <2>15, ItemIs
  <2> QED
    BY <2>16
<1> QED
  BY <1>1, FetchInvHolds, PTL

================================================================================
