---------------------------- MODULE LinearSyncProofs ----------------------------
(***************************************************************************)
(* Theorems about LinearSync, for any number of processes, any titles, any *)
(* events of the transition table and any bounds:                          *)
(*   SyncTypeCorrect  the state stays in its types                         *)
(*   PagedCorrect     the owner is paged, or the hook could not get so far *)
(*   WordsCorrect     the words people gave the title survive              *)
(*   MirrorsCorrect   an undisturbed transition leaves Linear as the row   *)
(***************************************************************************)
EXTENDS LinearSync, SequenceTheorems, WellFoundedInduction, TLAPS

(* Numbers *)

LEMMA LeastExists ==
  ASSUME NEW S \in SUBSET Nat, S # {} PROVE \E x \in S : \A y \in S : x <= y
<1> DEFINE R == OpToRel(<, Nat)
<1>1. IsWellFoundedOn(R, Nat)
  BY NatLessThanWellFounded
<1>2. \A x, y \in Nat : <<y, x>> \in R <=> y < x
  BY DEF OpToRel
<1> HIDE DEF R
<1>3. PICK x \in S : \A y \in S : ~(<<y, x>> \in R)
  BY <1>1, WFMin
<1>4. x \in Nat /\ \A y \in S : y \in Nat /\ ~(y < x)
  BY <1>2, <1>3
<1>5. \A y \in S : x <= y
  BY <1>4
<1> QED
  BY <1>5

\* The bound that is least is reached.
LEMMA GreatestExists ==
  ASSUME NEW n \in Nat, NEW S \in SUBSET (1 .. n), S # {}
  PROVE  \E x \in S : \A y \in S : y <= x
<1> DEFINE B == {b \in Nat : \A y \in S : y <= b}
<1>1. n \in B
  OBVIOUS
<1>2. PICK b \in B : \A c \in B : b <= c
  BY <1>1, LeastExists
<1>3. CASE b \in S
  BY <1>2, <1>3
<1>4. CASE b \notin S
  <2>1. \A y \in S : y \in 1 .. n /\ y <= b /\ y # b
    BY <1>4
  <2>2. b \in Nat /\ b # 0
    <3>1. PICK y : y \in S
      OBVIOUS
    <3> QED
      BY <1>2, <2>1, <3>1
  <2>3. b - 1 \in Nat /\ \A y \in S : y <= b - 1
    BY <2>1, <2>2
  <2> QED
    BY <1>2, <2>2, <2>3
<1> QED
  BY <1>3, <1>4

--------------------------------------------------------------------------------
(* Titles *)

\* No mark ahead of the words.
Unmarked(s) == LeadingMarks(s) = {}

\* Where a title's words begin: nothing but marks and spaces before, no mark ahead.
LEMMA WordsBegin ==
  ASSUME NEW T, NEW s \in Seq(T)
  PROVE  /\ WordsFrom(s) \in 1 .. Len(s) + 1 /\ Leading(s, WordsFrom(s) - 1)
         /\ \A i \in LeadingMarks(s) : i < WordsFrom(s)
<1> DEFINE marks == LeadingMarks(s)
           lastMark == IF marks = {} THEN 0 ELSE CHOOSE i \in marks : \A j \in marks : j <= i
<1>1. WordsFrom(s) = IF marks # {} /\ lastMark < Len(s) /\ s[lastMark + 1] = Space
                       THEN lastMark + 2 ELSE lastMark + 1
  BY DEF WordsFrom
<1>2. Len(s) \in Nat /\ marks \in SUBSET (1 .. Len(s))
  BY DEF LeadingMarks
<1>3. CASE marks = {}
  <2>1. WordsFrom(s) = 1 /\ 1 \in 1 .. Len(s) + 1
    BY <1>1, <1>2, <1>3
  <2>2. \A j \in 1 .. 1 - 1 : FALSE
    OBVIOUS
  <2> QED
    BY <1>3, <2>1, <2>2 DEF Leading
<1>4. CASE marks # {}
  <2>1. \E i \in marks : \A j \in marks : j <= i
    BY <1>2, <1>4, GreatestExists
  <2>2. lastMark \in marks /\ \A j \in marks : j <= lastMark
    BY <1>4, <2>1
  <2> HIDE DEF lastMark
  <2>3. lastMark \in 1 .. Len(s) /\ Leading(s, lastMark)
    BY <1>2, <2>2 DEF LeadingMarks
  <2> HIDE DEF marks
  <2>4. CASE lastMark < Len(s) /\ s[lastMark + 1] = Space
    <3>1. WordsFrom(s) = lastMark + 2
      BY <1>1, <1>4, <2>4
    <3>2. ASSUME NEW j \in 1 .. lastMark + 1 PROVE s[j] \in Marks \union {Space}
      <4>1. j \in 1 .. lastMark \/ j = lastMark + 1
        BY <2>3
      <4> QED
        BY <2>3, <2>4, <4>1 DEF Leading
    <3>3. lastMark + 2 - 1 = lastMark + 1 /\ lastMark + 2 \in 1 .. Len(s) + 1
      BY <1>2, <2>3, <2>4
    <3>4. \A i \in marks : i < lastMark + 2
      BY <1>2, <2>2, <2>3
    <3>5. Leading(s, lastMark + 1)
      BY <3>2 DEF Leading
    <3>6. WordsFrom(s) - 1 = lastMark + 1
      BY <2>3, <3>1
    <3> QED
      BY <3>1, <3>3, <3>4, <3>5, <3>6 DEF marks
  <2>5. CASE ~(lastMark < Len(s) /\ s[lastMark + 1] = Space)
    <3>1. WordsFrom(s) = lastMark + 1
      BY <1>1, <2>5
    <3>2. lastMark + 1 - 1 = lastMark /\ lastMark + 1 \in 1 .. Len(s) + 1
      BY <1>2, <2>3
    <3>3. \A i \in marks : i < lastMark + 1
      BY <1>2, <2>2, <2>3
    <3> QED
      BY <2>3, <3>1, <3>2, <3>3 DEF marks
  <2> QED
    BY <2>4, <2>5
<1> QED
  BY <1>3, <1>4

\* The rest of a title behind its decoration.
LEMMA StripRest ==
  ASSUME NEW T, NEW s \in Seq(T)
  PROVE  LET k == WordsFrom(s) y == stripStatusPrefix(s) IN
         /\ k \in 1 .. Len(s) + 1 /\ y \in Seq(T) /\ Len(y) = Len(s) + 1 - k
         /\ \A i \in 1 .. Len(y) : k + i - 1 \in 1 .. Len(s) /\ y[i] = s[k + i - 1]
<1> DEFINE k == WordsFrom(s)
           y == SubSeq(s, k, Len(s))
<1>1. k \in 1 .. Len(s) + 1 /\ Len(s) \in Nat
  BY WordsBegin
<1>2. stripStatusPrefix(s) = y
  BY DEF stripStatusPrefix
<1> HIDE DEF k
<1>3. /\ y \in Seq(T) /\ Len(y) = Len(s) + 1 - k
      /\ \A i \in 1 .. Len(y) : y[i] = s[k + i - 1]
  BY <1>1
<1> HIDE DEF y
<1>4. \A i \in 1 .. Len(y) : k + i - 1 \in 1 .. Len(s)
  BY <1>1, <1>3
<1> QED
  BY <1>1, <1>2, <1>3, <1>4 DEF k

\* What is stripped is a decoration, and all of it.
LEMMA StripWords ==
  ASSUME NEW T, NEW s \in Seq(T)
  PROVE  /\ stripStatusPrefix(s) \in Seq(T) /\ Unmarked(stripStatusPrefix(s))
         /\ stripStatusPrefix(s) \in Words(s)
<1> DEFINE k == WordsFrom(s)
           y == stripStatusPrefix(s)
<1>1. /\ k \in 1 .. Len(s) + 1 /\ Leading(s, k - 1) /\ \A i \in LeadingMarks(s) : i < k
      /\ y \in Seq(T) /\ Len(y) = Len(s) + 1 - k /\ Len(s) \in Nat
      /\ \A i \in 1 .. Len(y) : k + i - 1 \in 1 .. Len(s) /\ y[i] = s[k + i - 1]
  BY WordsBegin, StripRest
<1>2. y \in Words(s)
  BY <1>1 DEF Words, stripStatusPrefix
<1> HIDE DEF k, y
<1>3. ASSUME NEW i \in LeadingMarks(y) PROVE FALSE
  <2>1. i \in 1 .. Len(y) /\ y[i] \in Marks /\ Leading(y, i)
    BY <1>1 DEF LeadingMarks
  <2>2. k + i - 1 \in 1 .. Len(s) /\ s[k + i - 1] \in Marks
    BY <1>1, <2>1
  <2>3. ASSUME NEW j \in 1 .. k + i - 1 PROVE s[j] \in Marks \union {Space}
    <3>1. CASE j <= k - 1
      <4>1. j \in 1 .. k - 1
        BY <1>1, <3>1
      <4> QED
        BY <1>1, <4>1 DEF Leading
    <3>2. CASE ~(j <= k - 1)
      <4>1. j - k + 1 \in 1 .. i /\ j - k + 1 \in 1 .. Len(y) /\ k + (j - k + 1) - 1 = j
        BY <1>1, <2>1, <3>2
      <4> QED
        BY <1>1, <2>1, <4>1 DEF Leading
    <3> QED
      BY <3>1, <3>2
  <2>4. k + i - 1 \in LeadingMarks(s)
    BY <2>2, <2>3 DEF LeadingMarks, Leading
  <2>5. ~(k + i - 1 < k)
    BY <1>1, <2>1
  <2> QED
    BY <1>1, <2>4, <2>5
<1>4. Unmarked(y)
  BY <1>3 DEF Unmarked
<1> QED
  BY <1>1, <1>2, <1>4 DEF y

LEMMA SpaceNoMark == Space \notin Marks
BY DEF Space, Marks

LEMMA Prefixes ==
  ASSUME NEW st PROVE prefixFor(st) = <<>> \/ \E m \in Marks : prefixFor(st) = <<m, Space>>
<1>1. prefixFor(st) \in {<<>>, <<"!", Space>>, <<"o", Space>>}
  BY DEF prefixFor
<1>2. "!" \in Marks /\ "o" \in Marks
  BY DEF Marks
<1> QED
  BY <1>1, <1>2

\* Stripping undoes a decoration.
LEMMA StripPrefixed ==
  ASSUME NEW T, Marks \union {Space} \subseteq T, NEW y \in Seq(T), Unmarked(y), NEW st
  PROVE  stripStatusPrefix(prefixFor(st) \o y) = y
<1> DEFINE z == prefixFor(st) \o y
           marks == LeadingMarks(z)
           lastMark == IF marks = {} THEN 0 ELSE CHOOSE i \in marks : \A j \in marks : j <= i
<1>1. WordsFrom(z) = IF marks # {} /\ lastMark < Len(z) /\ z[lastMark + 1] = Space
                       THEN lastMark + 2 ELSE lastMark + 1
  BY DEF WordsFrom
<1>2. CASE prefixFor(st) = <<>>
  <2>1. z = y
    BY <1>2
  <2>2. marks = {}
    BY <2>1 DEF Unmarked
  <2>3. WordsFrom(z) = 1
    BY <1>1, <2>2
  <2>4. SubSeq(y, 1, Len(y)) = y
    OBVIOUS
  <2> QED
    BY <2>1, <2>3, <2>4 DEF stripStatusPrefix
<1>3. ASSUME NEW a \in Marks, prefixFor(st) = <<a, Space>>
      PROVE  stripStatusPrefix(z) = y
  <2>1. /\ z \in Seq(T) /\ Len(z) = Len(y) + 2 /\ z[1] = a /\ z[2] = Space
        /\ \A i \in 1 .. Len(y) : z[i + 2] = y[i]
    <3>1. <<a, Space>> \in Seq(T) /\ Len(<<a, Space>>) = 2
      OBVIOUS
    <3>2. z = <<a, Space>> \o y
      BY <1>3
    <3> HIDE DEF z
    <3> QED
      BY <3>1, <3>2, ConcatProperties
  <2> HIDE DEF z
  <2>2. ASSUME NEW i \in marks PROVE i = 1
    <3>0. i \in 1 .. Len(z) /\ z[i] \in Marks /\ Leading(z, i)
      BY <2>1, <2>2 DEF LeadingMarks
    <3>1. i # 2
      BY <2>1, <3>0, SpaceNoMark
    <3>2. ASSUME i > 2 PROVE FALSE
      <4>1. i - 2 \in 1 .. Len(y) /\ (i - 2) + 2 = i
        BY <2>1, <3>0, <3>2
      <4>2. ASSUME NEW j \in 1 .. i - 2 PROVE y[j] \in Marks \union {Space}
        <5>1. j + 2 \in 1 .. i /\ j \in 1 .. Len(y)
          BY <3>0, <4>1
        <5> QED
          BY <2>1, <3>0, <5>1 DEF Leading
      <4>3. y[i - 2] \in Marks
        BY <2>1, <3>0, <4>1
      <4>4. i - 2 \in LeadingMarks(y)
        BY <4>1, <4>2, <4>3 DEF LeadingMarks, Leading
      <4> QED
        BY <4>4 DEF Unmarked
    <3> QED
      BY <3>0, <3>1, <3>2
  <2>3. 1 \in marks
    <3>1. 1 \in DOMAIN z /\ z[1] \in Marks
      BY <1>3, <2>1
    <3>2. \A j \in 1 .. 1 : j = 1
      OBVIOUS
    <3> QED
      BY <3>1, <3>2 DEF LeadingMarks, Leading
  <2>4. marks = {1}
    BY <2>2, <2>3
  <2>5. lastMark = 1
    <3> HIDE DEF marks
    <3> QED
      BY <2>4
  <2> HIDE DEF lastMark, marks
  <2>6. WordsFrom(z) = 3
    <3>1. marks # {} /\ 1 < Len(z) /\ z[1 + 1] = Space
      BY <2>1, <2>3
    <3> QED
      BY <1>1, <2>5, <3>1
  <2>7. SubSeq(z, 3, Len(z)) = y
    <3>1. SubSeq(z, 3, Len(z)) = [i \in 1 .. Len(z) - 2 |-> z[i + 2]]
      BY <2>1
    <3> QED
      BY <2>1, <3>1
  <2> QED
    BY <2>6, <2>7 DEF stripStatusPrefix
<1> QED
  BY <1>2, <1>3, Prefixes

--------------------------------------------------------------------------------
(* Scripts: the requests a process has still to send *)

Has(s, r) == \E i \in 1 .. Len(s) : s[i] = r

Only(s, h) == \A i \in 1 .. Len(s) : s[i].hook = h

\* Nothing but requests of s, none for the first time.
Within(u, s) == \A i \in 1 .. Len(u) : \E j \in 1 .. Len(s) : u[i] = s[j]

Remind == [hook |-> "state", req |-> "remind"]
Move == [hook |-> "state", req |-> "state"]

LEMMA Kinds ==
  /\ {Read, Write, Remind, Move} \subseteq Requests
  /\ Read # Write /\ Write # Move /\ Write # Remind /\ Move # Remind
  /\ Read.hook = "title" /\ Write.hook = "title"
  /\ Remind.hook = "state" /\ Move.hook = "state"
  /\ Read.req \in Lookups /\ Read.req # "remind"
BY DEF Requests, Read, Write, Remind, Move, Lookups

LEMMA KindOf ==
  ASSUME NEW r \in Requests
  PROVE  /\ r.req = "title" <=> r = Write
         /\ r.hook = "title" <=> r \in {Read, Write}
         /\ r.req = "state" <=> r = Move
         /\ r.req = "remind" <=> r = Remind
         /\ r.hook = "state" /\ r.req \in Lookups => r.req \in {"issue", "states"}
BY DEF Requests, Read, Write, Remind, Move, Lookups

\* Some first requests dropped.
LEMMA Dropping ==
  ASSUME NEW s \in Seq(Requests), NEW k \in 2 .. Len(s) + 1
  PROVE  LET u == SubSeq(s, k, Len(s)) IN
         /\ u \in Seq(Requests) /\ Within(u, s) /\ (ReadFirst(s) => ReadFirst(u))
         /\ u # <<>> => k <= Len(s) /\ Head(u) = s[k]
         /\ \A r : Has(s, r) /\ (\A i \in 1 .. k - 1 : s[i] # r) => Has(u, r)
<1> DEFINE u == SubSeq(s, k, Len(s))
<1>1. Len(s) \in Nat /\ \A i \in 1 .. Len(s) : s[i] \in Requests
  OBVIOUS
<1>2. /\ u \in Seq(Requests) /\ Len(u) = Len(s) + 1 - k
      /\ \A i \in 1 .. Len(u) : u[i] = s[k + i - 1]
  BY <1>1
<1> HIDE DEF u
<1>3. \A i \in 1 .. Len(u) : k + i - 1 \in k .. Len(s)
  BY <1>1, <1>2
<1>4. Within(u, s)
  BY <1>1, <1>2, <1>3 DEF Within
<1>5. ASSUME ReadFirst(s) PROVE ReadFirst(u)
  <2>1. ASSUME NEW i \in 2 .. Len(u), u[i] = Write PROVE u[i - 1] = Read
    <3>1. /\ i - 1 \in 1 .. Len(u) /\ i \in 1 .. Len(u) /\ k + i - 1 \in 2 .. Len(s)
          /\ k + (i - 1) - 1 = (k + i - 1) - 1
      BY <1>1, <1>2
    <3>2. s[(k + i - 1) - 1] = Read
      BY <1>2, <1>5, <2>1, <3>1 DEF ReadFirst
    <3> QED
      BY <1>2, <3>1, <3>2
  <2> QED
    BY <2>1 DEF ReadFirst
<1>6. ASSUME u # <<>> PROVE k <= Len(s) /\ Head(u) = s[k]
  <2>1. 1 \in 1 .. Len(u) /\ Head(u) = u[1]
    BY <1>2, <1>6, EmptySeq
  <2>2. k + 1 - 1 = k
    OBVIOUS
  <2> QED
    BY <1>1, <1>2, <1>3, <2>1, <2>2
<1>7. ASSUME NEW r, Has(s, r), \A i \in 1 .. k - 1 : s[i] # r PROVE Has(u, r)
  <2>1. PICK i \in 1 .. Len(s) : s[i] = r
    BY <1>7 DEF Has
  <2>2. i >= k
    BY <1>7, <2>1
  <2>3. i - k + 1 \in 1 .. Len(u) /\ k + (i - k + 1) - 1 = i
    BY <1>1, <1>2, <2>2
  <2>4. u[i - k + 1] = r
    BY <1>2, <2>1, <2>3
  <2> QED
    BY <2>3, <2>4 DEF Has
<1> QED
  BY <1>2, <1>4, <1>5, <1>6, <1>7 DEF u

\* The next request is sent.
LEMMA AfterRequest ==
  ASSUME NEW s \in Seq(Requests), s # <<>>, ReadFirst(s)
  PROVE  /\ Tail(s) \in Seq(Requests) /\ Within(Tail(s), s) /\ ReadFirst(Tail(s))
         /\ Tail(s) # <<>> /\ Head(Tail(s)) = Write => Head(s) = Read
         /\ \A r : Has(s, r) /\ Head(s) # r => Has(Tail(s), r)
<1>1. Tail(s) = SubSeq(s, 2, Len(s)) /\ Head(s) = s[1] /\ Len(s) \in Nat \ {0}
  BY TailIsSubSeq, EmptySeq
<1>2. 2 \in 2 .. Len(s) + 1 /\ \A i \in 1 .. 2 - 1 : i = 1
  BY <1>1
<1>3. ASSUME Tail(s) # <<>>, Head(Tail(s)) = Write PROVE Head(s) = Read
  <2>1. 2 <= Len(s) /\ s[2] = Write
    BY <1>1, <1>2, <1>3, Dropping
  <2>2. 2 \in 2 .. Len(s) /\ 2 - 1 = 1
    BY <1>1, <2>1
  <2> QED
    BY <1>1, <2>1, <2>2 DEF ReadFirst
<1> QED
  BY <1>1, <1>2, <1>3, Dropping

\* The hook under way ends early.
LEMMA AfterHook ==
  ASSUME NEW s \in Seq(Requests), s # <<>>, ReadFirst(s)
  PROVE  LET u == WithoutHook(s, Head(s).hook) IN
         /\ u \in Seq(Requests) /\ Within(u, s) /\ ReadFirst(u)
         /\ ~(u # <<>> /\ Head(u) = Write)
         /\ \A r : Has(s, r) /\ r.hook # Head(s).hook => Has(u, r)
<1> DEFINE h == Head(s).hook
           others == {i \in DOMAIN s : s[i].hook # h}
           next == CHOOSE i \in others : \A j \in others : i <= j
<1>1. Head(s) = s[1] /\ Len(s) \in Nat \ {0} /\ DOMAIN s = 1 .. Len(s)
  BY EmptySeq
<1>2. PICK k \in 2 .. Len(s) + 1 :
        /\ WithoutHook(s, h) = SubSeq(s, k, Len(s))
        /\ \A i \in 1 .. k - 1 : s[i].hook = h
        /\ k <= Len(s) => s[k].hook # h
  <2>1. CASE others = {}
    <3>1. Len(s) + 1 \in 2 .. Len(s) + 1 /\ 1 .. (Len(s) + 1) - 1 = 1 .. Len(s)
      BY <1>1
    <3>2. WithoutHook(s, h) = <<>> /\ SubSeq(s, Len(s) + 1, Len(s)) = <<>>
      BY <1>1, <2>1, SubSeqEmpty DEF WithoutHook
    <3>3. \A i \in 1 .. Len(s) : s[i].hook = h
      BY <1>1, <2>1
    <3>4. ~(Len(s) + 1 <= Len(s))
      BY <1>1
    <3> QED
      BY <3>1, <3>2, <3>3, <3>4
  <2>2. CASE others # {}
    <3>1. others \in SUBSET Nat
      BY <1>1
    <3>2. next \in others /\ \A j \in others : next <= j
      BY <2>2, <3>1, LeastExists
    <3>3. WithoutHook(s, h) = SubSeq(s, next, Len(s))
      BY <2>2 DEF WithoutHook
    <3> HIDE DEF next
    <3>4. next \in 1 .. Len(s) /\ s[next].hook # h /\ next # 1
      BY <1>1, <3>2
    <3>5. ASSUME NEW i \in 1 .. next - 1 PROVE s[i].hook = h
      <4>1. i \in 1 .. Len(s) /\ ~(next <= i)
        BY <1>1, <3>4
      <4> QED
        BY <1>1, <3>2, <4>1
    <3>6. next \in 2 .. Len(s) + 1
      BY <1>1, <3>4
    <3> QED
      BY <3>3, <3>4, <3>5, <3>6
  <2> QED
    BY <2>1, <2>2
<1> HIDE DEF h
<1> DEFINE u == SubSeq(s, k, Len(s))
<1>3. /\ u \in Seq(Requests) /\ Within(u, s) /\ ReadFirst(u)
      /\ u # <<>> => k <= Len(s) /\ Head(u) = s[k]
      /\ \A r : Has(s, r) /\ (\A i \in 1 .. k - 1 : s[i] # r) => Has(u, r)
  BY Dropping
<1> HIDE DEF u
<1>4. ASSUME u # <<>>, Head(u) = Write PROVE FALSE
  <2>1. k \in 2 .. Len(s) /\ s[k] = Write /\ k - 1 \in 1 .. k - 1
    BY <1>1, <1>3, <1>4
  <2>2. s[k - 1] = Read
    BY <2>1 DEF ReadFirst
  <2>3. h = "title" /\ s[k].hook = "title"
    BY <1>2, <2>1, <2>2, Kinds
  <2> QED
    BY <1>2, <2>1, <2>3
<1> QED
  BY <1>2, <1>3, <1>4 DEF h, u

(* The scripts the hooks begin with *)

\* No title is sent that was not read just before.
Opens(s) == \A i \in 1 .. Len(s) : s[i] = Write => i > 1 /\ s[i - 1] = Read

LEMMA OpensReads ==
  ASSUME NEW s \in Seq(Requests), Opens(s)
  PROVE  ReadFirst(s) /\ ~(s # <<>> /\ Head(s) = Write)
<1>1. Len(s) \in Nat /\ \A i \in 2 .. Len(s) : i \in 1 .. Len(s)
  OBVIOUS
<1>2. ASSUME s # <<>> PROVE Head(s) # Write
  <2>1. Head(s) = s[1] /\ 1 \in 1 .. Len(s) /\ ~(1 > 1)
    BY <1>1, <1>2, EmptySeq
  <2> QED
    BY <2>1 DEF Opens
<1> QED
  BY <1>1, <1>2 DEF Opens, ReadFirst

LEMMA Joined ==
  ASSUME NEW S \in SUBSET Requests, NEW a \in Seq(S), NEW b \in Seq(S), Opens(a), Opens(b)
  PROVE  /\ a \o b \in Seq(S) /\ Opens(a \o b)
         /\ \A r : Has(a, r) \/ Has(b, r) => Has(a \o b, r)
<1> DEFINE c == a \o b
<1>1. /\ c \in Seq(S) /\ Len(c) = Len(a) + Len(b) /\ Len(a) \in Nat /\ Len(b) \in Nat
      /\ \A i \in 1 .. Len(a) + Len(b) : c[i] = IF i <= Len(a) THEN a[i] ELSE b[i - Len(a)]
  BY ConcatProperties
<1> HIDE DEF c
<1>2. ASSUME NEW i \in 1 .. Len(a) PROVE i \in 1 .. Len(c) /\ c[i] = a[i]
  <2>1. i \in 1 .. Len(a) + Len(b) /\ i <= Len(a)
    BY <1>1
  <2> QED
    BY <1>1, <2>1
<1>3. ASSUME NEW i \in 1 .. Len(b) PROVE i + Len(a) \in 1 .. Len(c) /\ c[i + Len(a)] = b[i]
  <2>1. /\ i + Len(a) \in 1 .. Len(a) + Len(b) /\ ~(i + Len(a) <= Len(a))
        /\ i + Len(a) - Len(a) = i
    BY <1>1
  <2> QED
    BY <1>1, <2>1
<1>4. ASSUME NEW i \in 1 .. Len(c), c[i] = Write PROVE i > 1 /\ c[i - 1] = Read
  <2>1. CASE i <= Len(a)
    <3>1. i \in 1 .. Len(a) /\ a[i] = Write
      BY <1>1, <1>4, <2>1
    <3>2. i > 1 /\ a[i - 1] = Read
      BY <3>1 DEF Opens
    <3>3. i - 1 \in 1 .. Len(a)
      BY <1>1, <3>1, <3>2
    <3> QED
      BY <1>2, <3>2, <3>3
  <2>2. CASE ~(i <= Len(a))
    <3>1. i - Len(a) \in 1 .. Len(b) /\ b[i - Len(a)] = Write
      BY <1>1, <1>4, <2>2
    <3>2. i - Len(a) > 1 /\ b[i - Len(a) - 1] = Read
      BY <3>1 DEF Opens
    <3>3. i - Len(a) - 1 \in 1 .. Len(b) /\ (i - Len(a) - 1) + Len(a) = i - 1 /\ i > 1
      BY <1>1, <2>2, <3>1, <3>2
    <3>4. c[(i - Len(a) - 1) + Len(a)] = Read
      BY <1>3, <3>2, <3>3
    <3> QED
      BY <3>3, <3>4
  <2> QED
    BY <2>1, <2>2
<1>5. ASSUME NEW r, Has(a, r) \/ Has(b, r) PROVE Has(c, r)
  <2>1. CASE Has(a, r)
    BY <1>2, <2>1 DEF Has
  <2>2. CASE Has(b, r)
    <3>1. PICK i \in 1 .. Len(b) : b[i] = r
      BY <2>2 DEF Has
    <3>2. i + Len(a) \in 1 .. Len(c) /\ c[i + Len(a)] = r
      BY <1>3, <3>1
    <3> QED
      BY <3>2 DEF Has
  <2> QED
    BY <1>5, <2>1, <2>2
<1>6. Opens(c)
  BY <1>4 DEF Opens
<1> QED
  BY <1>1, <1>5, <1>6 DEF c

LEMMA Nothing == ASSUME NEW S PROVE <<>> \in Seq(S) /\ Opens(<<>>)
BY DEF Opens

LEMMA Short ==
  ASSUME NEW Q, NEW a \in Q, NEW b \in Q, NEW c \in Q
  PROVE  /\ <<a>> \in Seq(Q) /\ <<a, b>> \in Seq(Q) /\ <<a, b, c>> \in Seq(Q)
         /\ Len(<<a>>) = 1 /\ Len(<<a, b>>) = 2 /\ Len(<<a, b, c>>) = 3
         /\ <<a>>[1] = a /\ <<a, b>>[1] = a /\ <<a, b>>[2] = b
         /\ <<a, b, c>>[1] = a /\ <<a, b, c>>[2] = b /\ <<a, b, c>>[3] = c
OBVIOUS

\* The requests of a hook other than the title's.
LEMMA Hooked ==
  ASSUME NEW h, NEW Q, NEW q \in Seq(Q), NEW S, \A x \in Q : [hook |-> h, req |-> x] \in S,
         h # "title"
  PROVE  /\ Hook(h, q) \in Seq(S) /\ Opens(Hook(h, q)) /\ Only(Hook(h, q), h)
         /\ \A i \in 1 .. Len(q) : Has(Hook(h, q), [hook |-> h, req |-> q[i]])
<1> DEFINE f == Hook(h, q)
<1>1. DOMAIN q = 1 .. Len(q) /\ Len(q) \in Nat /\ \A i \in 1 .. Len(q) : q[i] \in Q
  OBVIOUS
<1>2. f = [i \in 1 .. Len(q) |-> [hook |-> h, req |-> q[i]]]
  BY <1>1 DEF Hook
<1> HIDE DEF f
<1>3. f \in Seq(S) /\ Len(f) = Len(q)
  <2>1. f \in [1 .. Len(q) -> S]
    BY <1>1, <1>2
  <2> QED
    BY <1>1, <2>1
<1>4. \A i \in 1 .. Len(f) : f[i] = [hook |-> h, req |-> q[i]]
  BY <1>2, <1>3
<1>5. Only(f, h)
  <2>1. ASSUME NEW i \in 1 .. Len(f) PROVE f[i].hook = h
    <3>1. f[i] = [hook |-> h, req |-> q[i]]
      BY <1>4
    <3> QED
      BY <3>1
  <2> QED
    BY <2>1 DEF Only
<1>6. \A i \in 1 .. Len(f) : f[i] # Write
  BY <1>5, Kinds DEF Only
<1>7. Opens(f)
  BY <1>6 DEF Opens
<1> QED
  BY <1>3, <1>4, <1>5, <1>7 DEF Has, f

LEMMA TitleScript ==
  ASSUME NEW S, {Read, Write} \subseteq S
  PROVE  /\ linearTitleSyncHook \in Seq(S) /\ Opens(linearTitleSyncHook)
         /\ Has(linearTitleSyncHook, Write)
<1> DEFINE q == <<"issue", "title">>
           f == linearTitleSyncHook
<1>1. DOMAIN q = 1 .. 2 /\ q[1] = "issue" /\ q[2] = "title"
  OBVIOUS
<1>2. f = [i \in 1 .. 2 |-> [hook |-> "title", req |-> q[i]]]
  BY <1>1 DEF linearTitleSyncHook, Hook
<1> HIDE DEF q, f
<1>3. f[1] = Read /\ f[2] = Write
  BY <1>1, <1>2 DEF Read, Write
<1>4. \A i \in 1 .. 2 : i = 1 \/ i = 2
  OBVIOUS
<1>5. f \in [1 .. 2 -> S]
  BY <1>2, <1>3, <1>4
<1>6. f \in Seq(S) /\ Len(f) = 2
  <2>1. 2 \in Nat /\ DOMAIN f = 1 .. 2
    BY <1>5
  <2>2. f \in Seq(S)
    BY <1>5, <2>1, SeqDef
  <2> QED
    BY <2>1, <2>2
<1>7. Read # Write
  BY Kinds
<1>8. Opens(f)
  <2>1. 2 > 1 /\ 2 - 1 = 1
    OBVIOUS
  <2> QED
    BY <1>3, <1>4, <1>6, <1>7, <2>1 DEF Opens
<1>9. Has(f, Write)
  BY <1>3, <1>6 DEF Has
<1> QED
  BY <1>6, <1>8, <1>9 DEF f

LEMMA StateNames ==
  ASSUME NEW st
  PROVE  /\ stateName(st) = "unmapped" \/ stateName(st) \in WorkflowStates
         /\ st \in Attention => stateName(st) # "unmapped" /\ st \in Statuses
         /\ st \in Attention => pings(st) \/ st = "needs-clarification"
BY DEF stateName, WorkflowStates, Attention, pings, Statuses

Follows == {"clarification", "remind", "pr"}

LEMMA FollowUps ==
  ASSUME NEW x, NEW files
  PROVE  /\ followUp(x, files) \in Seq(Follows)
         /\ x.To \in Attention => Has(followUp(x, files), "remind")
<1> DEFINE r == "remind"
           c == "clarification"
           p == "pr"
<1>1. r \in Follows /\ c \in Follows /\ p \in Follows /\ <<>> \in Seq(Follows)
  BY Nothing DEF Follows
<1>2. followUp(x, files) \in {<<c>> \o <<r>>, <<>> \o <<r>>, <<p, r>>, <<r>>, <<>>}
  BY DEF followUp
<1>3. x.To \in Attention => followUp(x, files) \in {<<c>> \o <<r>>, <<>> \o <<r>>, <<r>>}
  BY StateNames DEF followUp, Attention
<1> HIDE DEF r, c, p
<1>4. <<c>> \o <<r>> = <<c, r>> /\ <<>> \o <<r>> = <<r>>
  <2>1. /\ <<c>> \o <<r>> \in Seq(Follows) /\ Len(<<c>> \o <<r>>) = 2
        /\ (<<c>> \o <<r>>)[1] = c /\ (<<c>> \o <<r>>)[2] = r
    <3>1. /\ <<c>> \in Seq(Follows) /\ <<r>> \in Seq(Follows)
          /\ Len(<<c>>) = 1 /\ Len(<<r>>) = 1 /\ <<c>>[1] = c /\ <<r>>[1] = r
      BY <1>1, Short
    <3>2. 1 \in 1 .. 1 + 1 /\ 2 \in 1 .. 1 + 1 /\ 1 <= 1 /\ ~(2 <= 1) /\ 2 - 1 = 1 /\ 1 + 1 = 2
      OBVIOUS
    <3> DEFINE u == <<c>>
               v == <<r>>
    <3> HIDE DEF u, v
    <3>3. /\ u \o v \in Seq(Follows) /\ Len(u \o v) = 2
          /\ (u \o v)[1] = u[1] /\ (u \o v)[2] = v[1]
      <4>1. u \in Seq(Follows) /\ v \in Seq(Follows) /\ Len(u) = 1 /\ Len(v) = 1
        BY <3>1 DEF u, v
      <4>2. /\ u \o v \in Seq(Follows) /\ Len(u \o v) = 1 + 1
            /\ \A i \in 1 .. 1 + 1 : (u \o v)[i] = IF i <= 1 THEN u[i] ELSE v[i - 1]
        BY <4>1, ConcatProperties
      <4> QED
        BY <3>2, <4>2
    <3> QED
      BY <3>1, <3>3 DEF u, v
  <2>2. /\ <<c, r>> \in Seq(Follows) /\ Len(<<c, r>>) = 2
        /\ <<c, r>>[1] = c /\ <<c, r>>[2] = r
    BY <1>1, Short
  <2>3. \A i \in 1 .. 2 : i = 1 \/ i = 2
    OBVIOUS
  <2> DEFINE u == <<c>> \o <<r>>
             v == <<c, r>>
  <2>4. u = v
    <3>1. /\ u \in Seq(Follows) /\ v \in Seq(Follows) /\ Len(u) = 2 /\ Len(v) = 2
          /\ u[1] = v[1] /\ u[2] = v[2]
      BY <2>1, <2>2
    <3> HIDE DEF u, v
    <3>2. \A i \in 1 .. Len(u) : u[i] = v[i]
      BY <2>3, <3>1
    <3> QED
      BY <3>1, <3>2, SeqEqual
  <2>5. <<>> \o <<r>> = <<r>>
    <3>1. <<r>> \in Seq(Follows)
      BY <1>1, Short
    <3> QED
      BY <3>1, ConcatEmptySeq
  <2> QED
    BY <2>4, <2>5
<1>5. \A q \in {<<r>>, <<c, r>>} : Has(q, r)
  <2>1. 1 \in 1 .. Len(<<r>>) /\ 2 \in 1 .. Len(<<c, r>>) /\ <<r>>[1] = r /\ <<c, r>>[2] = r
    BY <1>1, Short
  <2> QED
    BY <2>1 DEF Has
<1>6. {<<r>>, <<c, r>>, <<p, r>>, <<>>} \subseteq Seq(Follows)
  BY <1>1, Short
<1> QED
  BY <1>2, <1>3, <1>4, <1>5, <1>6 DEF r

\* What PushVerifyIterationFinding starts.
LEMMA PushScript ==
  ASSUME NEW files
  PROVE  /\ pushFindings(files) \in Seq({r \in Requests : r.hook = "verify"})
         /\ Opens(pushFindings(files))
<1> DEFINE S == {r \in Requests : r.hook = "verify"}
           h == "verify"
           Q == {"issue", "comment"}
           q == <<"issue", "comment">>
<1>1. \A y \in Q : [hook |-> h, req |-> y] \in S
  BY DEF Requests
<1>2. q \in Seq(Q)
  BY Short
<1>3. h # "title"
  OBVIOUS
<1>4. pushFindings(files) \in {Hook(h, q), <<>>}
  BY DEF pushFindings
<1> HIDE DEF S, h, Q, q
<1>5. Hook(h, q) \in Seq(S) /\ Opens(Hook(h, q))
  BY <1>1, <1>2, <1>3, Hooked
<1>6. pushFindings(files) \in Seq(S) /\ Opens(pushFindings(files))
  BY <1>4, <1>5, Nothing
<1> QED
  BY <1>6 DEF S

\* What ApplyAndPersist starts.
LEMMA NotifyScript ==
  ASSUME NEW x, NEW files
  PROVE  /\ Notify(x, files) \in Seq({r \in Requests :
                 r.hook = "state" => stateName(x.To) \in WorkflowStates})
         /\ Opens(Notify(x, files)) /\ Has(Notify(x, files), Write)
         /\ stateName(x.To) # "unmapped" => Has(Notify(x, files), Move)
         /\ x.To \in Attention => Has(Notify(x, files), Remind)
<1> DEFINE S == {r \in Requests : r.hook = "state" => stateName(x.To) \in WorkflowStates}
           a == linearPushHook(x, files)
           b == linearStateSyncHook(x, files)
           c == linearTitleSyncHook
           d == linearVerifyPushHook(x, files)
<1>1. a \in Seq(S) /\ Opens(a)
  <2> DEFINE Q == {"issue", "description", "plan"}
             q == <<"issue", "description", "plan">>
  <2>1. \A y \in Q : [hook |-> "push", req |-> y] \in S
    BY DEF Requests
  <2>2. q \in Seq(Q)
    BY Short
  <2>3. "push" # "title"
    OBVIOUS
  <2>4. a \in {Hook("push", q), <<>>}
    BY DEF linearPushHook
  <2> HIDE DEF Q, q, S, a
  <2> DEFINE h == "push"
  <2>5. Hook(h, q) \in Seq(S) /\ Opens(Hook(h, q))
    <3>1. \A y \in Q : [hook |-> h, req |-> y] \in S
      BY <2>1
    <3>2. h # "title"
      BY <2>3
    <3> HIDE DEF h
    <3> QED
      BY <2>2, <3>1, <3>2, Hooked
  <2> QED
    BY <2>4, <2>5, Nothing
<1>2. /\ b \in Seq(S) /\ Opens(b)
      /\ stateName(x.To) # "unmapped" => Has(b, Move)
      /\ x.To \in Attention => Has(b, Remind)
  <2>1. CASE stateName(x.To) = "unmapped"
    <3>1. b = <<>> /\ ~(x.To \in Attention)
      BY <2>1, StateNames DEF linearStateSyncHook
    <3> HIDE DEF S, b
    <3> QED
      BY <2>1, <3>1, Nothing
  <2>2. CASE stateName(x.To) # "unmapped"
    <3> DEFINE h == "state"
               i1 == "issue"
               i2 == "states"
               i3 == "state"
               r == "remind"
               Q == {i1, i2, i3} \union Follows
               f == followUp(x, files)
               q == <<i1, i2, i3>> \o f
    <3>1. b = Hook(h, q)
      BY <2>2 DEF linearStateSyncHook
    <3>2. \A y \in Q : [hook |-> h, req |-> y] \in S
      BY <2>2, StateNames DEF Requests, Follows
    <3>3. h # "title" /\ Move = [hook |-> h, req |-> i3] /\ Remind = [hook |-> h, req |-> r]
      BY DEF Move, Remind
    <3>4. f \in Seq(Q) /\ (x.To \in Attention => Has(f, r))
      <4>1. f \in Seq(Follows) /\ (x.To \in Attention => Has(f, r))
        BY FollowUps
      <4> HIDE DEF f, r, i1, i2, i3
      <4>2. Follows \subseteq Q
        OBVIOUS
      <4> HIDE DEF Q
      <4> QED
        BY <4>1, <4>2, SeqMonotonic
    <3> HIDE DEF f, h, i1, i2, i3, r, S, b
    <3>5. /\ <<i1, i2, i3>> \in Seq(Q) /\ Len(<<i1, i2, i3>>) = 3
          /\ <<i1, i2, i3>>[3] = i3
      BY Short
    <3> DEFINE g == <<i1, i2, i3>>
    <3> HIDE DEF Q, g
    <3>6. /\ g \o f \in Seq(Q) /\ Len(g \o f) = 3 + Len(f) /\ Len(f) \in Nat
          /\ \A i \in 1 .. 3 + Len(f) : (g \o f)[i] = IF i <= 3 THEN g[i] ELSE f[i - 3]
      <4>1. g \in Seq(Q) /\ Len(g) = 3
        BY <3>5 DEF g
      <4> QED
        BY <3>4, <4>1, ConcatProperties
    <3>7. 3 \in 1 .. Len(g \o f) /\ (g \o f)[3] = i3
      BY <3>5, <3>6 DEF g
    <3>8. ASSUME x.To \in Attention PROVE \E i \in 1 .. Len(g \o f) : (g \o f)[i] = r
      <4>1. PICK i \in 1 .. Len(f) : f[i] = r
        BY <3>4, <3>8 DEF Has
      <4>2. i + 3 \in 1 .. 3 + Len(f) /\ ~(i + 3 <= 3) /\ i + 3 - 3 = i
        BY <3>6
      <4>3. (g \o f)[i + 3] = f[i + 3 - 3] /\ i + 3 \in 1 .. Len(g \o f)
        BY <3>6, <4>2
      <4>4. (g \o f)[i + 3] = r
        BY <4>1, <4>2, <4>3
      <4> QED
        BY <4>3, <4>4
    <3>9. /\ Hook(h, g \o f) \in Seq(S) /\ Opens(Hook(h, g \o f))
          /\ \A i \in 1 .. Len(g \o f) : Has(Hook(h, g \o f), [hook |-> h, req |-> (g \o f)[i]])
      BY <3>2, <3>3, <3>6, Hooked
    <3>10. b = Hook(h, g \o f)
      BY <3>1 DEF g
    <3> QED
      BY <3>3, <3>7, <3>8, <3>9, <3>10
  <2> QED
    BY <2>1, <2>2
<1>3. c \in Seq(S) /\ Opens(c) /\ Has(c, Write)
  <2>1. Read \in S /\ Write \in S
    BY Kinds
  <2> HIDE DEF S
  <2> QED
    BY <2>1, TitleScript
<1>4. d \in Seq(S) /\ Opens(d)
  <2>1. {r \in Requests : r.hook = "verify"} \subseteq S
    OBVIOUS
  <2>2. d \in {pushFindings(files), <<>>}
    BY DEF linearVerifyPushHook
  <2> HIDE DEF S, d
  <2>3. pushFindings(files) \in Seq(S) /\ Opens(pushFindings(files))
    BY <2>1, PushScript, SeqMonotonic
  <2> QED
    BY <2>2, <2>3, Nothing
<1>5. Notify(x, files) = ((a \o b) \o c) \o d
  BY DEF Notify
<1>6. S \in SUBSET Requests
  OBVIOUS
<1> HIDE DEF S, a, b, c, d
<1>7. a \o b \in Seq(S) /\ Opens(a \o b) /\ \A r : Has(b, r) => Has(a \o b, r)
  BY <1>1, <1>2, <1>6, Joined
<1>8. /\ (a \o b) \o c \in Seq(S) /\ Opens((a \o b) \o c)
      /\ \A r : Has(a \o b, r) \/ Has(c, r) => Has((a \o b) \o c, r)
  BY <1>3, <1>6, <1>7, Joined
<1>9. /\ ((a \o b) \o c) \o d \in Seq(S) /\ Opens(((a \o b) \o c) \o d)
      /\ \A r : Has((a \o b) \o c, r) => Has(((a \o b) \o c) \o d, r)
  BY <1>4, <1>6, <1>8, Joined
<1>10. Notify(x, files) \in Seq(S)
  BY <1>5, <1>9
<1> QED
  BY <1>2, <1>3, <1>5, <1>7, <1>8, <1>9, <1>10 DEF S

--------------------------------------------------------------------------------
(* The state stays in its types *)

LEMMA TransitionTypes ==
  /\ transitions \subseteq [From : Statuses \union {New}, Event : EventNames,
                           To : Statuses \union {New}]
  /\ \A x \in transitions : x.To \in Statuses
<1>1. transitions \subseteq [From : Statuses \union {New}, Event : {x.Event : x \in transitions},
                            To : Statuses]
  BY DEF transitions, Edges, Statuses, New, Restartable
<1> QED
  BY <1>1 DEF EventNames

LEMMA DecorationType ==
  ASSUME NEW y \in Seq(Tokens), NEW st
  PROVE  /\ prefixFor(st) \in Seq(Tokens) /\ stripStatusPrefix(y) \in Seq(Tokens)
         /\ decorateTitle(y, st) \in Seq(Tokens)
<1>1. stripStatusPrefix(y) \in Seq(Tokens)
  BY StripWords
<1>2. \A m \in Marks : m \in Tokens /\ Space \in Tokens
  BY SyncAssumption
<1>3. prefixFor(st) \in Seq(Tokens)
  <2>1. ASSUME NEW m \in Marks PROVE <<m, Space>> \in Seq(Tokens)
    BY <1>2, Short
  <2> QED
    BY <2>1, Prefixes, Nothing
<1> QED
  BY <1>1, <1>3, ConcatProperties DEF decorateTitle

IssueType == [state : WorkflowStates \union {"Backlog"}, title : Seq(Tokens)]

\* The requests that change the issue, and how.
LEMMA Effects ==
  ASSUME TypeOK, NEW w \in Writer, ~Idle(w)
  PROVE  LET r == Head(script[w]) e == Effect(r, w) y == decorateTitle(seen[w], tr[w].To) IN
         /\ r \in Requests
         /\ y \in Seq(Tokens) /\ tr[w].To \in Statuses
         /\ r = Write => e.what = "title" /\ e.to = y /\ After(e) = [issue EXCEPT !.title = y]
         /\ r = Move => /\ stateName(tr[w].To) \in WorkflowStates
                        /\ e.what = "state" /\ e.to = <<stateName(tr[w].To)>>
                        /\ After(e) = [issue EXCEPT !.state = stateName(tr[w].To)]
         /\ r \notin {Write, Move} => e.what = "other" /\ After(e) = issue
         /\ e.what # "other" => e \in Updates
         /\ After(e) \in IssueType
<1> DEFINE r == Head(script[w])
           e == Effect(r, w)
           y == decorateTitle(seen[w], tr[w].To)
           n == stateName(tr[w].To)
<1>1. script[w] \in Seq(Requests) /\ script[w] # <<>> /\ seen[w] \in Seq(Tokens)
      /\ issue \in IssueType /\ tr[w].To \in Statuses
  BY DEF TypeOK, Idle, IssueType
<1>2. r \in Requests /\ r = script[w][1] /\ 1 \in DOMAIN script[w]
  BY <1>1, EmptySeq, HeadTailProperties
<1>3. r.hook = "state" => n \in WorkflowStates
  BY <1>2 DEF TypeOK
<1>4. y \in Seq(Tokens)
  BY <1>1, DecorationType
<1> HIDE DEF r, y, n
<1>5. CASE r = Write
  <2>1. r.req = "title"
    BY <1>2, <1>5, KindOf
  <2>2. e = [what |-> "title", to |-> y]
    BY <2>1 DEF Effect, y
  <2> HIDE DEF e
  <2>3. After(e) = [issue EXCEPT !.title = y]
    BY <2>2 DEF After
  <2>4. After(e) \in IssueType
    BY <1>1, <1>4, <2>3 DEF IssueType
  <2>5. e \in Updates
    BY <1>4, <2>2 DEF Updates
  <2> QED
    BY <1>1, <1>2, <1>4, <1>5, <2>2, <2>3, <2>4, <2>5, Kinds DEF r, e, y
<1>6. CASE r = Move
  <2>1. r.req = "state" /\ n \in WorkflowStates
    BY <1>2, <1>3, <1>6, Kinds, KindOf
  <2>2. e = [what |-> "state", to |-> <<n>>]
    BY <2>1 DEF Effect, n
  <2> HIDE DEF e
  <2>3. After(e) = [issue EXCEPT !.state = n]
    BY <2>2 DEF After
  <2>4. After(e) \in IssueType
    BY <1>1, <2>1, <2>3 DEF IssueType
  <2>5. e \in Updates
    BY <2>1, <2>2 DEF Updates
  <2> QED
    BY <1>1, <1>2, <1>4, <1>6, <2>1, <2>2, <2>3, <2>4, <2>5, Kinds DEF r, e, y, n
<1>7. CASE r \notin {Write, Move}
  <2>1. r.req # "state" /\ r.req # "title"
    BY <1>2, <1>7, KindOf
  <2>2. e = [what |-> "other", to |-> <<>>]
    BY <2>1 DEF Effect
  <2> HIDE DEF e
  <2>3. After(e) = issue
    BY <2>2 DEF After
  <2> QED
    BY <1>1, <1>2, <1>4, <1>7, <2>2, <2>3 DEF r, e, y
<1> QED
  BY <1>5, <1>6, <1>7

\* What is behind the request under way.
LEMMA Shortens ==
  ASSUME TypeOK, NEW w \in Writer, ~Idle(w), NEW u,
         u \in {Tail(script[w]), WithoutHook(script[w], Head(script[w]).hook), <<>>}
  PROVE  u \in Seq(Requests) /\ Within(u, script[w]) /\ ReadFirst(u)
<1>1. script[w] \in Seq(Requests) /\ script[w] # <<>> /\ ReadFirst(script[w])
  BY DEF TypeOK, Idle
<1>2. CASE u = <<>>
  <2>1. 1 .. Len(<<>>) = {} /\ 2 .. Len(<<>>) = {} /\ <<>> \in Seq(Requests)
    OBVIOUS
  <2> QED
    BY <1>2, <2>1 DEF Within, ReadFirst
<1> QED
  BY <1>1, <1>2, AfterRequest, AfterHook

\* A script that was only shortened is well typed.
LEMMA Shortened ==
  ASSUME TypeOK, NEW w \in Writer, ~Idle(w), UNCHANGED <<status, tr, fires, renames, named, crossed>>,
         NEW u \in Seq(Requests), Within(u, script[w]), ReadFirst(u),
         script' = [script EXCEPT ![w] = u],
         t' \in [Writer -> Statuses \union {New}], seen' \in [Writer -> Seq(Tokens)],
         issue' \in IssueType, late' \in SUBSET Updates, calm' \in BOOLEAN,
         paged' \in [Writer -> BOOLEAN], excused' \in [Writer -> BOOLEAN]
  PROVE  TypeOK'
<1>1. script \in [Writer -> Seq(Requests)] /\ script' \in [Writer -> Seq(Requests)]
  BY DEF TypeOK
<1>2. ASSUME NEW v \in Writer
      PROVE  /\ ReadFirst(script'[v])
             /\ script'[v] # <<>> => tr[v].To \in Statuses
             /\ \A i \in DOMAIN script'[v] : script'[v][i].hook = "state"
                  => stateName(tr[v].To) \in WorkflowStates
  <2>1. CASE v = w
    <3>1. script'[v] = u
      BY <1>1, <2>1
    <3>2. DOMAIN u = 1 .. Len(u) /\ DOMAIN script[w] = 1 .. Len(script[w])
      BY <1>1
    <3>3. \A i \in DOMAIN u : \E j \in DOMAIN script[w] : u[i] = script[w][j]
      BY <3>2 DEF Within
    <3> QED
      BY <2>1, <3>1, <3>3 DEF TypeOK, Idle
  <2>2. CASE v # w
    <3>1. script'[v] = script[v]
      BY <1>1, <2>2
    <3> QED
      BY <3>1 DEF TypeOK, Idle
  <2> QED
    BY <2>1, <2>2
<1> QED
  BY <1>1, <1>2 DEF TypeOK, Idle, IssueType

LEMMA TypeInit == Init => TypeOK
<1> SUFFICES ASSUME Init PROVE TypeOK
  OBVIOUS
<1>1. <<>> \in Seq(Requests) /\ <<>> \in Seq(Tokens) /\ ReadFirst(<<>>) /\ DOMAIN <<>> = {}
  <2>1. 2 .. Len(<<>>) = {}
    OBVIOUS
  <2> QED
    BY <2>1 DEF ReadFirst
<1>2. status \in Statuses /\ fires \in 0 .. MaxFires /\ renames \in 0 .. MaxRenames
  BY SyncAssumption DEF Init
<1>3. PICK x \in Titles : issue = [state |-> "Backlog", title |-> x] /\ named = x
  BY DEF Init
<1>4. issue \in IssueType /\ named \in Seq(Tokens)
  BY <1>3, SyncAssumption DEF IssueType
<1>5. "none" \in EventNames
  BY DEF EventNames
<1> QED
  BY <1>1, <1>2, <1>4, <1>5 DEF Init, TypeOK, IssueType, Idle

LEMMA LoadType == ASSUME TypeOK, NEW w \in Writer, Load(w) PROVE TypeOK'
BY DEF TypeOK, Load, Idle, linear, history

\* A script that was only begun: all others are as they were.
LEMMA Begun ==
  ASSUME TypeOK, NEW w \in Writer, NEW u \in Seq(Requests), Opens(u), NEW x,
         x \in [From : Statuses \union {New}, Event : EventNames, To : Statuses],
         \A i \in 1 .. Len(u) : u[i].hook = "state" => stateName(x.To) \in WorkflowStates,
         script' = [script EXCEPT ![w] = u], tr' = [tr EXCEPT ![w] = x],
         status' \in Statuses, t' \in [Writer -> Statuses \union {New}],
         fires < MaxFires, fires' = fires + 1, calm' \in BOOLEAN,
         paged' \in [Writer -> BOOLEAN], excused' \in [Writer -> BOOLEAN],
         UNCHANGED <<seen, linear, renames, named, crossed>>
  PROVE  TypeOK'
<1>1. /\ script \in [Writer -> Seq(Requests)] /\ script' \in [Writer -> Seq(Requests)]
      /\ tr' \in [Writer -> [From : Statuses \union {New}, Event : EventNames,
                              To : Statuses \union {New}]]
      /\ tr'[w] = x /\ script'[w] = u
      /\ \A v \in Writer \ {w} : tr'[v] = tr[v] /\ script'[v] = script[v]
  BY DEF TypeOK
<1>2. fires' \in 0 .. MaxFires
  BY SyncAssumption DEF TypeOK
<1>3. ASSUME NEW v \in Writer
      PROVE  /\ ReadFirst(script'[v])
             /\ script'[v] # <<>> => tr'[v].To \in Statuses
             /\ \A i \in DOMAIN script'[v] : script'[v][i].hook = "state"
                  => stateName(tr'[v].To) \in WorkflowStates
  <2>1. CASE v = w
    <3>1. DOMAIN u = 1 .. Len(u) /\ ReadFirst(u) /\ x.To \in Statuses
      BY OpensReads
    <3> QED
      BY <1>1, <2>1, <3>1
  <2>2. CASE v # w
    <3>1. script'[v] = script[v] /\ tr'[v] = tr[v]
      BY <1>1, <2>2
    <3> QED
      BY <3>1 DEF TypeOK, Idle
  <2> QED
    BY <2>1, <2>2
<1> QED
  BY <1>1, <1>2, <1>3 DEF TypeOK, Idle, linear

LEMMA ApplyAndPersistType ==
  ASSUME TypeOK, NEW w \in Writer, ApplyAndPersist(w) PROVE TypeOK'
<1>1. PICK x \in transitions, files \in Files :
        /\ status' = x.To
        /\ t' = [t EXCEPT ![w] = x.To]
        /\ tr' = [tr EXCEPT ![w] = x]
        /\ script' = [script EXCEPT ![w] = Notify(x, files)]
  BY DEF ApplyAndPersist
<1>2. /\ x \in [From : Statuses \union {New}, Event : EventNames, To : Statuses]
      /\ x.To \in Statuses
  BY TransitionTypes
<1>3. /\ Notify(x, files) \in Seq(Requests) /\ Opens(Notify(x, files))
      /\ \A i \in 1 .. Len(Notify(x, files)) :
           Notify(x, files)[i].hook = "state" => stateName(x.To) \in WorkflowStates
  <2> DEFINE S == {r \in Requests : r.hook = "state" => stateName(x.To) \in WorkflowStates}
             u == Notify(x, files)
  <2>1. u \in Seq(S) /\ Opens(u)
    BY NotifyScript
  <2>2. S \subseteq Requests
    OBVIOUS
  <2> HIDE DEF u, S
  <2>3. u \in Seq(Requests) /\ \A i \in 1 .. Len(u) : u[i] \in S
    BY <2>1, <2>2, SeqMonotonic
  <2> QED
    BY <2>1, <2>3 DEF u, S
<1>4. /\ t' \in [Writer -> Statuses \union {New}]
      /\ paged' \in [Writer -> BOOLEAN] /\ excused' \in [Writer -> BOOLEAN]
      /\ calm' \in BOOLEAN /\ fires < MaxFires /\ fires' = fires + 1
      /\ UNCHANGED <<seen, linear, renames, named, crossed>>
  BY <1>1, <1>2 DEF TypeOK, ApplyAndPersist
<1> QED
  BY <1>1, <1>2, <1>3, <1>4, Begun

LEMMA PushVerifyIterationFindingType ==
  ASSUME TypeOK, NEW w \in Writer, PushVerifyIterationFinding(w) PROVE TypeOK'
<1>1. PICK files \in Files : script' = [script EXCEPT ![w] = pushFindings(files)]
  BY DEF PushVerifyIterationFinding
<1> DEFINE u == pushFindings(files)
           x == [From |-> "verifying", Event |-> "iteration", To |-> "verifying"]
<1>2. /\ u \in Seq({r \in Requests : r.hook = "verify"}) /\ Opens(u)
      /\ script' = [script EXCEPT ![w] = u]
  BY <1>1, PushScript
<1>3. x \in [From : Statuses \union {New}, Event : EventNames, To : Statuses]
  BY DEF Statuses, EventNames
<1>4. tr' = [tr EXCEPT ![w] = x] /\ UNCHANGED history
  BY DEF PushVerifyIterationFinding
<1> HIDE DEF u, x
<1>5. u \in Seq(Requests) /\ \A i \in 1 .. Len(u) : u[i].hook # "state"
  <2> DEFINE S == {r \in Requests : r.hook = "verify"}
  <2>1. S \subseteq Requests /\ \A r \in S : r.hook # "state"
    OBVIOUS
  <2>2. u \in Seq(S)
    BY <1>2
  <2> HIDE DEF S
  <2>3. \A i \in 1 .. Len(u) : u[i] \in S
    BY <2>2
  <2> QED
    BY <2>1, <2>2, <2>3, SeqMonotonic
<1>6. /\ status' \in Statuses /\ t' \in [Writer -> Statuses \union {New}]
      /\ paged' \in [Writer -> BOOLEAN] /\ excused' \in [Writer -> BOOLEAN]
      /\ calm' \in BOOLEAN /\ fires < MaxFires /\ fires' = fires + 1
      /\ UNCHANGED <<seen, linear, renames, named, crossed>>
  BY DEF TypeOK, PushVerifyIterationFinding, history
<1> QED
  BY <1>2, <1>3, <1>4, <1>5, <1>6, Begun

LEMMA AnsweredType == ASSUME TypeOK, NEW w \in Writer, Answered(w) PROVE TypeOK'
<1> DEFINE r == Head(script[w])
           read == r = [hook |-> "title", req |-> "issue"]
           right == decorateTitle(issue.title, tr[w].To) = issue.title
           u == IF read /\ right THEN WithoutHook(script[w], "title") ELSE Tail(script[w])
<1>1. ~Idle(w) /\ issue' = After(Effect(r, w)) /\ script' = [script EXCEPT ![w] = u]
  BY DEF Answered
<1>2. /\ UNCHANGED <<status, t, tr, late, fires, renames, named, crossed, calm, excused>>
      /\ t' \in [Writer -> Statuses \union {New}] /\ late' \in SUBSET Updates
      /\ calm' \in BOOLEAN /\ excused' \in [Writer -> BOOLEAN]
  BY DEF TypeOK, Answered
<1>3. issue' \in IssueType
  BY <1>1, Effects
<1>4. seen' \in [Writer -> Seq(Tokens)]
  <2>1. (IF read /\ ~right THEN issue.title ELSE <<>>) \in Seq(Tokens)
    BY DEF TypeOK
  <2>2. seen' = [seen EXCEPT ![w] = IF read /\ ~right THEN issue.title ELSE <<>>]
    BY DEF Answered
  <2> HIDE DEF read, right
  <2> QED
    BY <2>1, <2>2 DEF TypeOK
<1>5. paged' \in [Writer -> BOOLEAN]
  BY DEF TypeOK, Answered
<1>6. u \in {Tail(script[w]), WithoutHook(script[w], r.hook)}
  OBVIOUS
<1> HIDE DEF u
<1>7. u \in Seq(Requests) /\ Within(u, script[w]) /\ ReadFirst(u)
  BY <1>1, <1>6, Shortens
<1> QED
  BY <1>1, <1>2, <1>3, <1>4, <1>5, <1>7, Shortened

\* A request that fails or is given up on.
LEMMA GivenUpType ==
  ASSUME TypeOK, NEW w \in Writer, Refused(w) \/ Deadline(w) \/ Kill(w) PROVE TypeOK'
<1> DEFINE r == Head(script[w])
           e == Effect(r, w)
<1>1. ~Idle(w) /\ UNCHANGED <<status, tr, issue, fires, renames, named, crossed>>
  BY DEF Refused, Deadline, Kill, linear
<1>2. /\ t' \in [Writer -> Statuses \union {New}] /\ seen' \in [Writer -> Seq(Tokens)]
      /\ issue' \in IssueType /\ calm' \in BOOLEAN
      /\ paged' \in [Writer -> BOOLEAN] /\ excused' \in [Writer -> BOOLEAN]
  <2>1. seen' = [seen EXCEPT ![w] = <<>>] /\ <<>> \in Seq(Tokens)
    BY Nothing DEF Refused, Deadline, Kill
  <2>2. t' = t \/ t' = [t EXCEPT ![w] = New]
    BY DEF Refused, Deadline, Kill
  <2>3. calm' = FALSE /\ issue' = issue
    BY DEF Refused, Deadline, Kill, linear
  <2>4. \E b \in BOOLEAN : paged' = [paged EXCEPT ![w] = b]
    <3>1. paged' = paged \/ paged' = [paged EXCEPT ![w] = paged[w] \/ r.req = "remind"]
      BY DEF Refused, Deadline, Kill
    <3>2. paged = [paged EXCEPT ![w] = paged[w]] /\ paged[w] \in BOOLEAN
      BY DEF TypeOK
    <3> QED
      BY <3>1, <3>2
  <2>5. \E b \in BOOLEAN : excused' = [excused EXCEPT ![w] = b]
    BY DEF Refused, Deadline, Kill
  <2> QED
    BY <2>1, <2>2, <2>3, <2>4, <2>5 DEF TypeOK, IssueType
<1>3. late' \in SUBSET Updates
  <2>1. e.what # "other" => e \in Updates
    BY <1>1, Effects
  <2>2. late \in SUBSET Updates
    BY DEF TypeOK
  <2>3. late' = late \/ late' = IF e.what = "other" THEN late ELSE late \union {e}
    BY DEF Refused, Deadline, Kill, linear
  <2> QED
    BY <2>1, <2>2, <2>3
<1>4. \E u \in {Tail(script[w]), WithoutHook(script[w], r.hook), <<>>} :
        script' = [script EXCEPT ![w] = u]
  BY DEF Refused, Deadline, Kill
<1>5. PICK u \in {Tail(script[w]), WithoutHook(script[w], r.hook), <<>>} :
        script' = [script EXCEPT ![w] = u]
  BY <1>4
<1>6. u \in Seq(Requests) /\ Within(u, script[w]) /\ ReadFirst(u)
  BY <1>1, <1>5, Shortens
<1> QED
  BY <1>1, <1>2, <1>3, <1>5, <1>6, Shortened

LEMMA UpdateCarried == ASSUME TypeOK, NEW e \in Updates PROVE After(e) \in IssueType
<1>1. CASE e \in [what : {"state"}, to : {<<n>> : n \in WorkflowStates}]
  <2>1. PICK n \in WorkflowStates : e.what = "state" /\ e.to = <<n>>
    BY <1>1
  <2>2. After(e) = [issue EXCEPT !.state = n]
    BY <2>1 DEF After
  <2> QED
    BY <2>2 DEF TypeOK, IssueType
<1>2. CASE e \in [what : {"title"}, to : Seq(Tokens)]
  <2>1. After(e) = [issue EXCEPT !.title = e.to] /\ e.to \in Seq(Tokens)
    BY <1>2 DEF After
  <2> QED
    BY <2>1 DEF TypeOK, IssueType
<1> QED
  BY <1>1, <1>2 DEF Updates

LEMMA LandType == ASSUME TypeOK, Land PROVE TypeOK'
<1>1. PICK e \in late : late' = late \ {e} /\ issue' \in {issue, After(e)}
  BY DEF Land
<1>2. late' \in SUBSET Updates /\ e \in Updates
  BY <1>1 DEF TypeOK
<1>3. issue' \in IssueType
  BY <1>1, <1>2, UpdateCarried DEF TypeOK, IssueType
<1> QED
  BY <1>2, <1>3 DEF Land, TypeOK, IssueType, Idle, process, history

LEMMA RenameType == ASSUME TypeOK, Rename PROVE TypeOK'
<1>1. PICK x \in Titles : issue' = [issue EXCEPT !.title = x] /\ named' = x
  BY DEF Rename
<1>2. issue' \in IssueType /\ named' \in Seq(Tokens)
  BY <1>1, SyncAssumption DEF TypeOK, IssueType
<1>3. renames' \in 0 .. MaxRenames
  BY SyncAssumption DEF TypeOK, Rename
<1>4. crossed' \in BOOLEAN
  BY DEF TypeOK, Rename
<1> QED
  BY <1>2, <1>3, <1>4 DEF Rename, TypeOK, IssueType, Idle, process

LEMMA TypeNext == TypeOK /\ [Next]_vars => TypeOK'
<1> SUFFICES ASSUME TypeOK, [Next]_vars PROVE TypeOK'
  OBVIOUS
<1>1. CASE UNCHANGED vars
  BY <1>1 DEF TypeOK, Idle, vars, process, linear, history
<1>2. CASE Next
  BY <1>2, LoadType, ApplyAndPersistType, PushVerifyIterationFindingType, AnsweredType,
     GivenUpType, LandType, RenameType DEF Next
<1> QED
  BY <1>1, <1>2

\* The processes' state, the issue's and the requests under way stay in their
\* types, and no hook updates a title it did not just read: for any number of
\* processes, any titles, any transitions of the table.
THEOREM SyncTypeCorrect == Spec => []TypeOK
BY TypeInit, TypeNext, PTL DEF Spec

--------------------------------------------------------------------------------
(* The owner is paged *)

\* A page that is due is still in the script, unless it was asked for or given up.
PagedInv ==
  \A w \in Writer :
    tr[w].To \in Attention => paged[w] \/ excused[w] \/ Has(script[w], Remind)

LEMMA PagedInit == Init => PagedInv
BY DEF Init, PagedInv, Attention, New

\* Only w's script and excuses change.
LEMMA PagedStep ==
  ASSUME TypeOK, PagedInv, NEW w \in Writer, NEW u, NEW b \in BOOLEAN, NEW c \in BOOLEAN,
         tr' = tr, script' = [script EXCEPT ![w] = u],
         paged' = [paged EXCEPT ![w] = b], excused' = [excused EXCEPT ![w] = c],
         tr[w].To \in Attention => b \/ c \/ Has(u, Remind)
  PROVE  PagedInv'
<1> SUFFICES ASSUME NEW v \in Writer, tr'[v].To \in Attention
             PROVE  paged'[v] \/ excused'[v] \/ Has(script'[v], Remind)
  BY DEF PagedInv
<1>1. CASE v = w
  <2>1. script'[v] = u /\ paged'[v] = b /\ excused'[v] = c
    BY <1>1 DEF TypeOK
  <2> QED
    BY <1>1, <2>1
<1>2. CASE v # w
  <2>1. script'[v] = script[v] /\ paged'[v] = paged[v] /\ excused'[v] = excused[v]
    BY <1>2 DEF TypeOK
  <2> QED
    BY <2>1 DEF PagedInv
<1> QED
  BY <1>1, <1>2

\* A reminder leaves the script by being sent, or with its hook.
LEMMA RemindKept ==
  ASSUME TypeOK, NEW w \in Writer, ~Idle(w), Has(script[w], Remind)
  PROVE  LET r == Head(script[w]) IN
         /\ r.req = "remind" \/ Has(Tail(script[w]), Remind)
         /\ r.hook = "state" \/ Has(WithoutHook(script[w], r.hook), Remind)
<1>1. script[w] \in Seq(Requests) /\ script[w] # <<>> /\ ReadFirst(script[w])
  BY DEF TypeOK, Idle
<1>2. Head(script[w]) \in Requests
  BY <1>1, HeadTailProperties
<1> QED
  BY <1>1, <1>2, AfterRequest, AfterHook, Kinds, KindOf

LEMMA PagedAnswered ==
  ASSUME TypeOK, PagedInv, NEW w \in Writer, Answered(w) PROVE PagedInv'
<1> DEFINE r == Head(script[w])
           read == r = [hook |-> "title", req |-> "issue"]
           right == decorateTitle(issue.title, tr[w].To) = issue.title
           u == IF read /\ right THEN WithoutHook(script[w], "title") ELSE Tail(script[w])
           b == paged[w] \/ r.req = "remind"
<1>1. /\ ~Idle(w) /\ script' = [script EXCEPT ![w] = u] /\ tr' = tr /\ excused' = excused
      /\ paged' = [paged EXCEPT ![w] = b]
  BY DEF Answered
<1>2. u = Tail(script[w]) \/ (r.hook = "title" /\ u = WithoutHook(script[w], r.hook))
  OBVIOUS
<1> HIDE DEF u
<1>3. Has(script[w], Remind) => b \/ Has(u, Remind)
  BY <1>1, <1>2, RemindKept
<1>4. excused' = [excused EXCEPT ![w] = excused[w]] /\ excused[w] \in BOOLEAN
  BY <1>1 DEF TypeOK
<1>5. tr[w].To \in Attention => b \/ excused[w] \/ Has(u, Remind)
  BY <1>3 DEF PagedInv
<1>6. b \in BOOLEAN
  OBVIOUS
<1> HIDE DEF b
<1> QED
  BY <1>1, <1>4, <1>5, <1>6, PagedStep

LEMMA PagedRefused ==
  ASSUME TypeOK, PagedInv, NEW w \in Writer, Refused(w) PROVE PagedInv'
<1> DEFINE r == Head(script[w])
           u == IF r.req \in Lookups THEN WithoutHook(script[w], r.hook) ELSE Tail(script[w])
           b == paged[w] \/ r.req = "remind"
           c == excused[w] \/ (r.hook = "state" /\ r.req \in {"issue", "states"})
<1>1. /\ ~Idle(w) /\ script' = [script EXCEPT ![w] = u] /\ tr' = tr
      /\ paged' = [paged EXCEPT ![w] = b] /\ excused' = [excused EXCEPT ![w] = c]
  BY DEF Refused
<1>2. r \in Requests
  BY <1>1, Effects
<1>3. Has(script[w], Remind) => b \/ c \/ Has(u, Remind)
  BY <1>1, <1>2, RemindKept, KindOf
<1>4. tr[w].To \in Attention => b \/ c \/ Has(u, Remind)
  BY <1>3 DEF PagedInv
<1>5. b \in BOOLEAN /\ c \in BOOLEAN
  OBVIOUS
<1> HIDE DEF u, b, c
<1> QED
  BY <1>1, <1>4, <1>5, PagedStep

LEMMA PagedDeadline ==
  ASSUME TypeOK, PagedInv, NEW w \in Writer, Deadline(w) PROVE PagedInv'
<1> DEFINE r == Head(script[w])
           u == WithoutHook(script[w], r.hook)
           c == excused[w] \/ r.hook = "state"
<1>1. /\ ~Idle(w) /\ script' = [script EXCEPT ![w] = u] /\ tr' = tr
      /\ paged' = paged /\ excused' = [excused EXCEPT ![w] = c]
  BY DEF Deadline
<1>2. Has(script[w], Remind) => c \/ Has(u, Remind)
  BY <1>1, RemindKept
<1>3. tr[w].To \in Attention => paged[w] \/ c \/ Has(u, Remind)
  BY <1>2 DEF PagedInv
<1>4. c \in BOOLEAN
  OBVIOUS
<1>5. paged' = [paged EXCEPT ![w] = paged[w]] /\ paged[w] \in BOOLEAN
  BY <1>1 DEF TypeOK
<1> HIDE DEF u, c
<1> QED
  BY <1>1, <1>3, <1>4, <1>5, PagedStep

LEMMA PagedKill ==
  ASSUME TypeOK, PagedInv, NEW w \in Writer, Kill(w) PROVE PagedInv'
<1>1. /\ script' = [script EXCEPT ![w] = <<>>] /\ tr' = tr
      /\ paged' = [paged EXCEPT ![w] = paged[w]] /\ excused' = [excused EXCEPT ![w] = TRUE]
      /\ paged[w] \in BOOLEAN
  BY DEF TypeOK, Kill
<1> QED
  BY <1>1, PagedStep

\* A transition or an iteration's finding starts a script anew.
LEMMA PagedBegun ==
  ASSUME TypeOK, PagedInv, NEW w \in Writer, ApplyAndPersist(w) \/ PushVerifyIterationFinding(w)
  PROVE  PagedInv'
<1> SUFFICES ASSUME NEW v \in Writer, tr'[v].To \in Attention
             PROVE  paged'[v] \/ excused'[v] \/ Has(script'[v], Remind)
  BY DEF PagedInv
<1>1. CASE v # w
  <2>1. /\ script'[v] = script[v] /\ paged'[v] = paged[v] /\ excused'[v] = excused[v]
        /\ tr'[v] = tr[v]
    BY <1>1 DEF TypeOK, ApplyAndPersist, PushVerifyIterationFinding, history
  <2> QED
    BY <2>1 DEF PagedInv
<1>2. CASE v = w /\ ApplyAndPersist(w)
  <2>1. PICK x \in transitions, files \in Files :
          tr' = [tr EXCEPT ![w] = x] /\ script' = [script EXCEPT ![w] = Notify(x, files)]
    BY <1>2 DEF ApplyAndPersist
  <2>2. tr'[v] = x /\ script'[v] = Notify(x, files)
    BY <1>2, <2>1 DEF TypeOK
  <2> QED
    BY <2>2, NotifyScript
<1>3. CASE v = w /\ PushVerifyIterationFinding(w)
  <2>1. tr'[v] = [From |-> "verifying", Event |-> "iteration", To |-> "verifying"]
    BY <1>3 DEF TypeOK, PushVerifyIterationFinding
  <2>2. tr'[v].To = "verifying"
    BY <2>1
  <2> QED
    BY <2>2 DEF Attention
<1> QED
  BY <1>1, <1>2, <1>3

LEMMA PagedNext == TypeOK /\ PagedInv /\ [Next]_vars => PagedInv'
<1> SUFFICES ASSUME TypeOK, PagedInv, [Next]_vars PROVE PagedInv'
  OBVIOUS
<1>1. CASE UNCHANGED <<script, tr, paged, excused>>
  BY <1>1 DEF PagedInv
<1>2. ASSUME NEW w \in Writer, Load(w) PROVE PagedInv'
  BY <1>1, <1>2 DEF Load, history
<1>3. CASE Land \/ Rename
  BY <1>1, <1>3 DEF Land, Rename, process, history
<1>4. CASE UNCHANGED vars
  BY <1>1, <1>4 DEF vars, process, history
<1> QED
  BY <1>2, <1>3, <1>4, PagedBegun, PagedAnswered, PagedRefused, PagedDeadline, PagedKill DEF Next

\* Once the hooks of a transition that calls for a human are through, Linear was
\* asked to page the owner, whatever became of the other requests, unless a
\* lookup failed, time ran out or the process died.
THEOREM PagedCorrect == Spec => []OwnerPaged
<1>1. TypeOK /\ PagedInv => OwnerPaged
  <2>1. ~Has(<<>>, Remind)
    BY DEF Has
  <2> QED
    BY <2>1 DEF PagedInv, OwnerPaged, Idle
<1> QED
  BY <1>1, TypeInit, TypeNext, PagedInit, PagedNext, PTL DEF Spec

--------------------------------------------------------------------------------
(* The words people gave the title *)

\* The words of n behind at most one mark.
Decorated(x, n) == \E s \in Statuses : x = prefixFor(s) \o stripStatusPrefix(n)

Kept(x, n) == x = n \/ Decorated(x, n)

\* Unless a rename met an update: the issue's title, every title about to be
\* marked and every title an update given up on may still write keep the words.
WordsInv ==
  ~crossed =>
    /\ Kept(issue.title, named)
    /\ \A w \in Writer : UpdatingTitle(w) => Kept(seen[w], named)
    /\ \A e \in late : e.what = "title" => Decorated(e.to, named)

\* Marking a title again changes nothing but the mark.
LEMMA Redecorated ==
  ASSUME NEW n \in Seq(Tokens), NEW x, Kept(x, n), NEW st \in Statuses
  PROVE  Decorated(decorateTitle(x, st), n)
<1> DEFINE y == stripStatusPrefix(n)
<1>1. y \in Seq(Tokens) /\ Unmarked(y)
  BY StripWords
<1>2. stripStatusPrefix(x) = y
  <2>1. CASE x = n
    BY <2>1
  <2>2. CASE Decorated(x, n)
    <3>1. PICK s \in Statuses : x = prefixFor(s) \o y
      BY <2>2 DEF Decorated
    <3> HIDE DEF y
    <3> QED
      BY <1>1, <3>1, StripPrefixed, SyncAssumption
  <2> QED
    BY <2>1, <2>2 DEF Kept
<1> QED
  BY <1>2 DEF Decorated, decorateTitle

LEMMA UpdatingIs ==
  ASSUME NEW w \in Writer, script[w] \in Seq(Requests)
  PROVE  UpdatingTitle(w) <=> script[w] # <<>> /\ Head(script[w]) = Write
<1>1. script[w] # <<>> => Head(script[w]) \in Requests
  BY HeadTailProperties
<1> QED
  BY <1>1, KindOf DEF UpdatingTitle, Idle

LEMMA WordsInit == Init => WordsInv
BY DEF Init, WordsInv, Kept, UpdatingTitle, Idle

\* What the request under way may do to the title.
LEMMA WordsEffect ==
  ASSUME TypeOK, WordsInv, ~crossed, NEW w \in Writer, ~Idle(w)
  PROVE  LET e == Effect(Head(script[w]), w) IN
         /\ e.what = "title" => Decorated(e.to, named)
         /\ Kept(After(e).title, named)
<1> DEFINE r == Head(script[w])
           e == Effect(r, w)
           y == decorateTitle(seen[w], tr[w].To)
<1>1. /\ r \in Requests /\ y \in Seq(Tokens) /\ tr[w].To \in Statuses
      /\ r = Write => e.what = "title" /\ e.to = y /\ After(e) = [issue EXCEPT !.title = y]
      /\ r = Move => e.what = "state" /\ \E n : After(e) = [issue EXCEPT !.state = n]
      /\ r \notin {Write, Move} => e.what = "other" /\ After(e) = issue
  BY Effects
<1>2. Kept(issue.title, named) /\ issue \in IssueType /\ named \in Seq(Tokens)
  BY DEF WordsInv, TypeOK, IssueType
<1>3. r = Write => Decorated(y, named)
  <2>1. r = Write => UpdatingTitle(w)
    BY UpdatingIs DEF TypeOK, Idle
  <2>2. r = Write => Kept(seen[w], named)
    BY <2>1 DEF WordsInv
  <2> QED
    BY <1>1, <1>2, <2>2, Redecorated
<1> HIDE DEF r, e, y
<1>4. CASE r = Write
  <2>1. After(e).title = y
    BY <1>1, <1>2, <1>4 DEF IssueType
  <2> QED
    BY <1>1, <1>3, <1>4, <2>1 DEF Kept, r, e
<1>5. CASE r = Move
  <2>1. After(e).title = issue.title
    BY <1>1, <1>2, <1>5 DEF IssueType
  <2>2. e.what # "title"
    BY <1>1, <1>5
  <2> QED
    BY <1>2, <2>1, <2>2 DEF r, e
<1>6. CASE r \notin {Write, Move}
  <2>1. e.what # "title" /\ After(e) = issue
    BY <1>1, <1>6
  <2> QED
    BY <1>2, <2>1 DEF r, e
<1> QED
  BY <1>4, <1>5, <1>6

\* Only w's script is shortened.
LEMMA WordsStep ==
  ASSUME TypeOK, TypeOK', WordsInv, NEW w \in Writer, ~Idle(w), NEW u,
         script' = [script EXCEPT ![w] = u], UNCHANGED <<named, crossed>>,
         \A v \in Writer \ {w} : seen'[v] = seen[v],
         issue' \in {issue, After(Effect(Head(script[w]), w))},
         late' \subseteq late \union {Effect(Head(script[w]), w)},
         u # <<>> /\ Head(u) = Write => seen'[w] = issue.title
  PROVE  WordsInv'
<1> SUFFICES ASSUME ~crossed PROVE
      /\ Kept(issue'.title, named)
      /\ \A v \in Writer : UpdatingTitle(v)' => Kept(seen'[v], named)
      /\ \A e \in late' : e.what = "title" => Decorated(e.to, named)
  BY DEF WordsInv
<1>1. /\ Kept(issue.title, named)
      /\ \A v \in Writer : UpdatingTitle(v) => Kept(seen[v], named)
      /\ \A e \in late : e.what = "title" => Decorated(e.to, named)
  BY DEF WordsInv
<1> DEFINE f == Effect(Head(script[w]), w)
<1>2. (f.what = "title" => Decorated(f.to, named)) /\ Kept(After(f).title, named)
  BY WordsEffect
<1>3. ASSUME NEW v \in Writer, UpdatingTitle(v)' PROVE Kept(seen'[v], named)
  <2>1. script' \in [Writer -> Seq(Requests)] /\ script \in [Writer -> Seq(Requests)]
    BY DEF TypeOK
  <2>2. script'[v] # <<>> /\ Head(script'[v]).req = "title" /\ script'[v] \in Seq(Requests)
    BY <1>3, <2>1 DEF UpdatingTitle, Idle
  <2>3. CASE v = w
    <3>1. script'[v] = u /\ u # <<>> /\ u \in Seq(Requests)
      BY <2>1, <2>2, <2>3
    <3>2. Head(u) = Write
      BY <2>2, <3>1, HeadTailProperties, KindOf
    <3> QED
      BY <1>1, <2>3, <3>1, <3>2
  <2>4. CASE v # w
    <3>1. script'[v] = script[v] /\ seen'[v] = seen[v]
      BY <2>1, <2>4
    <3>2. UpdatingTitle(v)
      BY <2>2, <3>1 DEF UpdatingTitle, Idle
    <3> QED
      BY <1>1, <3>1, <3>2
  <2> QED
    BY <2>3, <2>4
<1> HIDE DEF f
<1>4. \A e \in late' : e.what = "title" => Decorated(e.to, named)
  BY <1>1, <1>2 DEF f
<1>5. Kept(issue'.title, named)
  BY <1>1, <1>2 DEF f
<1> QED
  BY <1>3, <1>4, <1>5

LEMMA WordsAnswered ==
  ASSUME TypeOK, TypeOK', WordsInv, NEW w \in Writer, Answered(w) PROVE WordsInv'
<1> DEFINE r == Head(script[w])
           read == r = [hook |-> "title", req |-> "issue"]
           right == decorateTitle(issue.title, tr[w].To) = issue.title
           u == IF read /\ right THEN WithoutHook(script[w], "title") ELSE Tail(script[w])
           z == IF read /\ ~right THEN issue.title ELSE <<>>
<1>1. /\ ~Idle(w) /\ script' = [script EXCEPT ![w] = u] /\ issue' = After(Effect(r, w))
      /\ seen' = [seen EXCEPT ![w] = z] /\ UNCHANGED <<late, named, crossed>>
  BY DEF Answered
<1>2. script[w] \in Seq(Requests) /\ script[w] # <<>> /\ ReadFirst(script[w])
  BY <1>1 DEF TypeOK, Idle
<1>3. ASSUME u # <<>>, Head(u) = Write PROVE read /\ ~right
  <2>1. CASE read /\ right
    <3>1. u = WithoutHook(script[w], r.hook)
      BY <2>1
    <3> HIDE DEF u
    <3> QED
      BY <1>2, <1>3, <3>1, AfterHook
  <2>2. CASE ~(read /\ right)
    <3>1. u = Tail(script[w])
      BY <2>2
    <3> HIDE DEF u
    <3>2. r = Read
      BY <1>2, <1>3, <3>1, AfterRequest
    <3> QED
      BY <2>2, <3>2 DEF Read
  <2> QED
    BY <2>1, <2>2
<1>4. (\A v \in Writer \ {w} : seen'[v] = seen[v]) /\ seen'[w] = z
  BY <1>1 DEF TypeOK
<1>5. u # <<>> /\ Head(u) = Write => seen'[w] = issue.title
  BY <1>3, <1>4
<1> HIDE DEF u, z
<1>6. issue' \in {issue, After(Effect(Head(script[w]), w))}
      /\ late' \subseteq late \union {Effect(Head(script[w]), w)}
  BY <1>1
<1> QED
  BY <1>1, <1>4, <1>5, <1>6, WordsStep

LEMMA WordsGivenUp ==
  ASSUME TypeOK, TypeOK', WordsInv, NEW w \in Writer, Refused(w) \/ Deadline(w) \/ Kill(w)
  PROVE  WordsInv'
<1> DEFINE r == Head(script[w])
<1>1. /\ ~Idle(w) /\ UNCHANGED <<issue, named, crossed>>
      /\ \A v \in Writer \ {w} : seen'[v] = seen[v]
      /\ late' \subseteq late \union {Effect(r, w)}
  BY DEF TypeOK, Refused, Deadline, Kill, linear
<1>2. script[w] \in Seq(Requests) /\ script[w] # <<>> /\ ReadFirst(script[w])
  BY <1>1 DEF TypeOK, Idle
<1>3. PICK u : /\ script' = [script EXCEPT ![w] = u]
               /\ \/ u = <<>> \/ u = WithoutHook(script[w], r.hook)
                  \/ u = Tail(script[w]) /\ r.req \notin Lookups
  BY DEF Refused, Deadline, Kill
<1>4. ~(u # <<>> /\ Head(u) = Write)
  BY <1>2, <1>3, AfterHook, AfterRequest, Kinds
<1> QED
  BY <1>1, <1>3, <1>4, WordsStep

\* A new script does not begin by writing the title.
LEMMA WordsBegun ==
  ASSUME TypeOK, TypeOK', WordsInv, NEW w \in Writer,
         ApplyAndPersist(w) \/ PushVerifyIterationFinding(w)
  PROVE  WordsInv'
<1>1. PICK u : script' = [script EXCEPT ![w] = u] /\ Opens(u)
  BY NotifyScript, PushScript DEF ApplyAndPersist, PushVerifyIterationFinding
<1>2. UNCHANGED <<seen, issue, late, named, crossed>>
  BY DEF ApplyAndPersist, PushVerifyIterationFinding, linear, history
<1>3. ASSUME NEW v \in Writer, UpdatingTitle(v)' PROVE UpdatingTitle(v)
  <2>1. script' \in [Writer -> Seq(Requests)] /\ script \in [Writer -> Seq(Requests)]
    BY DEF TypeOK
  <2>2. script'[v] # <<>> /\ Head(script'[v]).req = "title" /\ script'[v] \in Seq(Requests)
    BY <1>3, <2>1 DEF UpdatingTitle, Idle
  <2>3. Head(script'[v]) = Write
    BY <2>2, HeadTailProperties, KindOf
  <2>4. v # w
    BY <1>1, <2>1, <2>2, <2>3, OpensReads
  <2>5. script'[v] = script[v]
    BY <1>1, <2>1, <2>4
  <2> QED
    BY <2>2, <2>5 DEF UpdatingTitle, Idle
<1> QED
  BY <1>2, <1>3 DEF WordsInv

LEMMA WordsLand == ASSUME TypeOK, WordsInv, Land PROVE WordsInv'
<1>1. PICK e \in late : late' = late \ {e} /\ issue' \in {issue, After(e)}
  BY DEF Land
<1>2. UNCHANGED <<script, seen, named, crossed>>
  BY DEF Land, process, history
<1>3. ASSUME ~crossed PROVE Kept(issue'.title, named)
  <2>1. Kept(issue.title, named) /\ (e.what = "title" => Decorated(e.to, named))
    BY <1>1, <1>3 DEF WordsInv
  <2>2. CASE e.what = "title"
    <3>1. After(e) = [issue EXCEPT !.title = e.to]
      BY <2>2 DEF After
    <3>2. After(e).title = e.to
      BY <3>1 DEF TypeOK
    <3> QED
      BY <1>1, <2>1, <2>2, <3>2 DEF Kept
  <2>3. CASE e.what # "title"
    <3>1. After(e) = issue \/ After(e) = [issue EXCEPT !.state = e.to[1]]
      BY <2>3 DEF After
    <3>2. After(e).title = issue.title
      BY <3>1 DEF TypeOK
    <3> QED
      BY <1>1, <2>1, <3>2
  <2> QED
    BY <2>2, <2>3
<1>4. \A v \in Writer : UpdatingTitle(v)' = UpdatingTitle(v)
  BY <1>2 DEF UpdatingTitle, Idle
<1> QED
  BY <1>1, <1>2, <1>3, <1>4 DEF WordsInv

LEMMA WordsRename == ASSUME TypeOK, WordsInv, Rename PROVE WordsInv'
<1>1. PICK x \in Titles : issue' = [issue EXCEPT !.title = x] /\ named' = x
  BY DEF Rename
<1>2. issue'.title = named'
  BY <1>1 DEF TypeOK
<1>3. \A v \in Writer : UpdatingTitle(v)' = UpdatingTitle(v)
  BY DEF UpdatingTitle, Idle, Rename, process
<1>4. ~crossed' => /\ \A v \in Writer : ~UpdatingTitle(v)
                  /\ \A e \in late' : e.what # "title"
  <2>1. late' = late
    BY DEF Rename
  <2>2. crossed' = (crossed \/ (\E v \in Writer : UpdatingTitle(v))
                            \/ (\E e \in late : e.what = "title"))
    BY DEF Rename
  <2> QED
    BY <2>1, <2>2, Zenon
<1> QED
  BY <1>2, <1>3, <1>4 DEF WordsInv, Kept

LEMMA WordsNext == TypeOK /\ TypeOK' /\ WordsInv /\ [Next]_vars => WordsInv'
<1> SUFFICES ASSUME TypeOK, TypeOK', WordsInv, [Next]_vars PROVE WordsInv'
  OBVIOUS
<1>1. CASE UNCHANGED <<script, seen, issue, late, named, crossed>>
  BY <1>1 DEF WordsInv, UpdatingTitle, Idle
<1>2. ASSUME NEW w \in Writer, Load(w) PROVE WordsInv'
  BY <1>1, <1>2 DEF Load, linear, history
<1>3. CASE UNCHANGED vars
  BY <1>1, <1>3 DEF vars, process, linear, history
<1> QED
  BY <1>2, <1>3, WordsBegun, WordsAnswered, WordsGivenUp, WordsLand, WordsRename DEF Next

\* However many processes mark the title at once, and whenever updates they gave
\* up on land, the issue's title is the one people gave it or its words behind at
\* most one mark, unless a rename met an update under way.
THEOREM WordsCorrect == Spec => []WordsKept
<1>1. TypeOK /\ WordsInv => WordsKept
  <2> SUFFICES ASSUME TypeOK, WordsInv, ~crossed, issue.title # named
               PROVE  \E s \in Statuses, y \in Words(named) : issue.title = prefixFor(s) \o y
    BY DEF WordsKept
  <2>1. stripStatusPrefix(named) \in Words(named)
    BY StripWords DEF TypeOK
  <2>2. Decorated(issue.title, named)
    BY DEF WordsInv, Kept
  <2> QED
    BY <2>1, <2>2 DEF Decorated
<1> QED
  BY <1>1, TypeInit, TypeNext, WordsInit, WordsNext, PTL DEF Spec

--------------------------------------------------------------------------------
(* The issue mirrors the row *)

StateRight == stateName(status) # "unmapped" => issue.state = stateName(status)
TitleRight == issue.title = prefixFor(status) \o stripStatusPrefix(issue.title)

\* While nothing disturbs the last transition's hooks: no older request is about,
\* every request of a state or a title is for the row's status, and what is not
\* yet right on Linear is still to be sent.
MirrorInv ==
  calm =>
    /\ late = {}
    /\ \A w \in Writer : tr[w].To = status \/ Only(script[w], "verify")
    /\ StateRight \/ \E w \in Writer : Has(script[w], Move)
    /\ TitleRight \/ \E w \in Writer : Has(script[w], Write)

LEMMA NothingLeft == ~Has(<<>>, Move) /\ ~Has(<<>>, Write) /\ Only(<<>>, "verify")
<1>1. 1 .. Len(<<>>) = {}
  OBVIOUS
<1> QED
  BY <1>1 DEF Has, Only

LEMMA MirrorInit == Init => MirrorInv
BY DEF Init, MirrorInv

\* A transition that begins in peace is announced in full.
LEMMA MirrorApply ==
  ASSUME TypeOK, NEW w \in Writer, ApplyAndPersist(w) PROVE MirrorInv'
<1> SUFFICES ASSUME calm' PROVE
      /\ late' = {}
      /\ \A v \in Writer : tr'[v].To = status' \/ Only(script'[v], "verify")
      /\ StateRight' \/ \E v \in Writer : Has(script'[v], Move)
      /\ TitleRight' \/ \E v \in Writer : Has(script'[v], Write)
  BY DEF MirrorInv
<1>1. calm' = (late = {} /\ \A v \in Writer : Idle(v))
  BY DEF ApplyAndPersist
<1>2. late = {} /\ (\A v \in Writer : Idle(v)) /\ UNCHANGED late
  <2>1. late = {} /\ \A v \in Writer : Idle(v)
    BY <1>1, Zenon
  <2> QED
    BY <2>1 DEF ApplyAndPersist, linear
<1>3. PICK x \in transitions, files \in Files :
        /\ status' = x.To /\ tr' = [tr EXCEPT ![w] = x]
        /\ script' = [script EXCEPT ![w] = Notify(x, files)]
  BY DEF ApplyAndPersist
<1>4. /\ tr'[w] = x /\ script'[w] = Notify(x, files)
      /\ \A v \in Writer \ {w} : script'[v] = script[v]
  BY <1>3 DEF TypeOK
<1>5. \A v \in Writer \ {w} : Only(script'[v], "verify")
  BY <1>2, <1>4, NothingLeft DEF Idle
<1>6. Has(script'[w], Write) /\ (stateName(x.To) # "unmapped" => Has(script'[w], Move))
  BY <1>4, NotifyScript
<1>7. StateRight' \/ Has(script'[w], Move)
  BY <1>3, <1>6 DEF StateRight
<1> QED
  BY <1>2, <1>3, <1>4, <1>5, <1>6, <1>7

\* Findings concern neither the state nor the title.
LEMMA MirrorFinding ==
  ASSUME TypeOK, MirrorInv, NEW w \in Writer, PushVerifyIterationFinding(w) PROVE MirrorInv'
<1>1. PICK files \in Files : script' = [script EXCEPT ![w] = pushFindings(files)]
  BY DEF PushVerifyIterationFinding
<1>2. Only(pushFindings(files), "verify")
  <2> DEFINE u == pushFindings(files)
             S == {r \in Requests : r.hook = "verify"}
  <2>1. u \in Seq(S) /\ \A r \in S : r.hook = "verify"
    BY PushScript
  <2> HIDE DEF u, S
  <2>2. \A i \in 1 .. Len(u) : u[i] \in S
    BY <2>1
  <2> QED
    BY <2>1, <2>2 DEF Only, u
<1>3. /\ UNCHANGED <<calm, late, status, issue>> /\ script[w] = <<>>
      /\ \A v \in Writer \ {w} : script'[v] = script[v] /\ tr'[v] = tr[v]
      /\ script'[w] = pushFindings(files)
  BY <1>1 DEF TypeOK, PushVerifyIterationFinding, linear, history, Idle
<1>4. \A v \in Writer : Has(script[v], Move) => Has(script'[v], Move)
  BY <1>3, NothingLeft
<1>5. \A v \in Writer : Has(script[v], Write) => Has(script'[v], Write)
  BY <1>3, NothingLeft
<1>6. StateRight' = StateRight /\ TitleRight' = TitleRight
  BY <1>3 DEF StateRight, TitleRight
<1>7. \A v \in Writer : tr[v].To = status \/ Only(script[v], "verify")
        => tr'[v].To = status \/ Only(script'[v], "verify")
  BY <1>2, <1>3
<1> QED
  BY <1>3, <1>4, <1>5, <1>6, <1>7 DEF MirrorInv

LEMMA MirrorAnswered ==
  ASSUME TypeOK, MirrorInv, NEW w \in Writer, Answered(w) PROVE MirrorInv'
<1> DEFINE r == Head(script[w])
           e == Effect(r, w)
           y == decorateTitle(seen[w], tr[w].To)
           read == r = [hook |-> "title", req |-> "issue"]
           right == decorateTitle(issue.title, tr[w].To) = issue.title
           u == IF read /\ right THEN WithoutHook(script[w], "title") ELSE Tail(script[w])
<1>1. /\ ~Idle(w) /\ script' = [script EXCEPT ![w] = u] /\ issue' = After(e)
      /\ UNCHANGED <<status, tr, late, calm>>
  BY DEF Answered
<1>2. script[w] \in Seq(Requests) /\ script[w] # <<>> /\ ReadFirst(script[w])
  BY <1>1 DEF TypeOK, Idle
<1>3. u = Tail(script[w]) \/ (r = Read /\ right /\ u = WithoutHook(script[w], r.hook))
  BY DEF Read
<1>4. script'[w] = u /\ \A v \in Writer \ {w} : script'[v] = script[v]
  BY <1>1 DEF TypeOK
<1> HIDE DEF u
<1> SUFFICES ASSUME calm PROVE
      /\ \A v \in Writer : tr[v].To = status \/ Only(script'[v], "verify")
      /\ StateRight' \/ \E v \in Writer : Has(script'[v], Move)
      /\ TitleRight' \/ \E v \in Writer : Has(script'[v], Write)
  BY <1>1 DEF MirrorInv
<1>5. /\ \A v \in Writer : tr[v].To = status \/ Only(script[v], "verify")
      /\ StateRight \/ \E v \in Writer : Has(script[v], Move)
      /\ TitleRight \/ \E v \in Writer : Has(script[v], Write)
  BY DEF MirrorInv
<1>6. \A v \in Writer : tr[v].To = status \/ Only(script'[v], "verify")
  <2>1. Within(u, script[w])
    BY <1>2, <1>3, AfterRequest, AfterHook
  <2>2. Only(script[w], "verify") => Only(u, "verify")
    BY <2>1 DEF Within, Only
  <2> QED
    BY <1>4, <1>5, <2>2
<1>7. /\ r \in Requests
      /\ r = Write => After(e) = [issue EXCEPT !.title = y]
      /\ r = Move => After(e) = [issue EXCEPT !.state = stateName(tr[w].To)]
      /\ r \notin {Write, Move} => After(e) = issue
  BY <1>1, Effects
<1>8. issue \in IssueType /\ seen[w] \in Seq(Tokens)
  BY DEF TypeOK, IssueType
<1>9. r \in {Read, Write, Move} => tr[w].To = status
  <2>1. r \in {Read, Write, Move} => r.hook # "verify"
    BY DEF Read, Write, Move
  <2>2. r = script[w][1] /\ 1 \in 1 .. Len(script[w])
    BY <1>2, EmptySeq
  <2> HIDE DEF r
  <2> QED
    BY <1>5, <2>1, <2>2 DEF Only
<1>10. StateRight' \/ \E v \in Writer : Has(script'[v], Move)
  <2>1. CASE r = Move
    <3>1. issue'.state = stateName(status)
      BY <1>1, <1>7, <1>8, <1>9, <2>1 DEF IssueType
    <3> QED
      BY <1>1, <3>1 DEF StateRight
  <2>2. CASE r # Move
    <3>1. issue'.state = issue.state
      BY <1>1, <1>7, <1>8, <2>2 DEF IssueType
    <3>2. Has(script[w], Move) => Has(script'[w], Move)
      BY <1>2, <1>3, <1>4, <2>2, AfterRequest, AfterHook, Kinds
    <3>3. StateRight => StateRight'
      BY <1>1, <3>1 DEF StateRight
    <3> QED
      BY <1>4, <1>5, <3>2, <3>3
  <2> QED
    BY <2>1, <2>2
<1>11. TitleRight' \/ \E v \in Writer : Has(script'[v], Write)
  <2>1. CASE r = Write
    <3> DEFINE z == stripStatusPrefix(seen[w])
    <3>1. issue'.title = prefixFor(status) \o z
      BY <1>1, <1>7, <1>8, <1>9, <2>1 DEF IssueType, decorateTitle
    <3>2. z \in Seq(Tokens) /\ Unmarked(z)
      BY <1>8, StripWords
    <3> HIDE DEF z
    <3>3. stripStatusPrefix(issue'.title) = z
      BY <3>1, <3>2, StripPrefixed, SyncAssumption
    <3> QED
      BY <1>1, <3>1, <3>3 DEF TitleRight
  <2>2. CASE r # Write
    <3>1. issue'.title = issue.title
      BY <1>1, <1>7, <1>8, <2>2 DEF IssueType
    <3>2. TitleRight => TitleRight'
      BY <1>1, <3>1 DEF TitleRight
    <3>3. CASE u = Tail(script[w])
      <4>1. Has(script[w], Write) => Has(script'[w], Write)
        BY <1>2, <1>4, <2>2, <3>3, AfterRequest
      <4> QED
        BY <1>4, <1>5, <3>2, <4>1
    <3>4. CASE r = Read /\ right
      <4>1. TitleRight
        BY <1>9, <3>4 DEF TitleRight, decorateTitle
      <4> QED
        BY <3>2, <4>1
    <3> QED
      BY <1>3, <3>3, <3>4
  <2> QED
    BY <2>1, <2>2
<1> QED
  BY <1>6, <1>10, <1>11

LEMMA MirrorNext == TypeOK /\ MirrorInv /\ [Next]_vars => MirrorInv'
<1> SUFFICES ASSUME TypeOK, MirrorInv, [Next]_vars PROVE MirrorInv'
  OBVIOUS
<1>1. CASE UNCHANGED <<calm, late, tr, status, script, issue>>
  BY <1>1 DEF MirrorInv, StateRight, TitleRight
<1>2. ASSUME NEW w \in Writer, Load(w) PROVE MirrorInv'
  BY <1>1, <1>2 DEF Load, linear, history
<1>3. CASE UNCHANGED vars
  BY <1>1, <1>3 DEF vars, process, linear, history
<1>4. ASSUME NEW w \in Writer, Refused(w) \/ Deadline(w) \/ Kill(w) PROVE MirrorInv'
  BY <1>4 DEF MirrorInv, Refused, Deadline, Kill
<1>5. CASE Rename
  BY <1>5 DEF MirrorInv, Rename
<1>6. CASE Land
  <2>1. late # {} /\ calm' = calm
    BY <1>6 DEF Land, history
  <2> QED
    BY <2>1 DEF MirrorInv
<1> QED
  BY <1>2, <1>3, <1>4, <1>5, <1>6, MirrorApply, MirrorFinding, MirrorAnswered DEF Next

\* A transition whose hooks ran alone, with every request answered and no rename
\* in between, leaves the issue with the state and the mark of the row's status.
THEOREM MirrorsCorrect == Spec => []Mirrors
<1>1. MirrorInv => Mirrors
  BY NothingLeft DEF MirrorInv, Mirrors, StateRight, TitleRight, Idle
<1> QED
  BY <1>1, TypeInit, TypeNext, MirrorInit, MirrorNext, PTL DEF Spec

================================================================================
