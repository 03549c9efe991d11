---------------------------- MODULE BitmapProofs ----------------------------
(***************************************************************************)
(* The bitmaps for every size of elements and every set of bitmaps and     *)
(* bits: the cached iterator never points to an element that has left the  *)
(* list, queries agree with the sets of bits, the operations implement     *)
(* those of sets, and a loop takes every bit that was there when it began. *)
(***************************************************************************)
EXTENDS BitmapProperties, BitmapIterator, TLAPS, FiniteSetTheorems,
        WellFoundedInduction

-----------------------------------------------------------------------------
(* Numbers *)

LEMMA SizePositive == ElementSize \in Nat \ {0} /\ WORDSZ \in Nat \ {0} /\ NWORDS \in Nat \ {0}
<1>1. WORDSZ \in Nat \ {0} /\ NWORDS \in Nat \ {0}
  BY BitmapAssumption
<1> QED
  BY <1>1 DEF ElementSize

LEMMA DivMod ==
  ASSUME NEW k \in Nat \ {0}, NEW x \in Nat
  PROVE  x \div k \in Nat /\ x % k \in 0 .. (k - 1) /\ x = (x \div k) * k + (x % k)
OBVIOUS

LEMMA DivModOf ==
  ASSUME NEW k \in Nat \ {0}, NEW i \in Nat, NEW b \in 0 .. (k - 1)
  PROVE  i * k + b \in Nat /\ (i * k + b) \div k = i /\ (i * k + b) % k = b
OBVIOUS

(* A set of things with ranks has one of least rank.                       *)
LEMMA LeastRank ==
  ASSUME NEW D, NEW rank \in [D -> Nat], NEW B \in SUBSET D, B # {}
  PROVE  \E t \in B : \A u \in B : rank[t] <= rank[u]
<1> DEFINE R  == {ss \in Nat \X Nat : ss[1] < ss[2]}
           RB == {rank[t] : t \in B}
<1>1. IsWellFoundedOn(R, Nat)
  BY NatLessThanWellFounded DEF OpToRel
<1>2. RB \in SUBSET Nat /\ RB # {}
  OBVIOUS
<1>3. PICK k \in RB : \A y \in RB : <<y, k>> \notin R
  <2> HIDE DEF R, RB
  <2> QED
    BY <1>1, <1>2, WFMin
<1>4. PICK t \in B : k = rank[t]
  OBVIOUS
<1>5. ASSUME NEW u \in B
      PROVE  rank[t] <= rank[u]
  <2>1. rank[u] \in RB /\ rank[u] \in Nat /\ rank[t] \in Nat
    OBVIOUS
  <2>2. <<rank[u], k>> \notin R
    BY <1>3, <2>1
  <2> QED
    BY <1>4, <2>1, <2>2
<1> QED
  BY <1>5

LEMMA LeastNumber ==
  ASSUME NEW B \in SUBSET Nat, B # {}
  PROVE  \E x \in B : \A y \in B : x <= y
<1> DEFINE id == [x \in Nat |-> x]
<1>1. id \in [Nat -> Nat] /\ \A x \in Nat : id[x] = x
  OBVIOUS
<1> HIDE DEF id
<1>2. PICK x \in B : \A y \in B : id[x] <= id[y]
  BY <1>1, LeastRank
<1> QED
  BY <1>1, <1>2

LEMMA MinIn ==
  ASSUME NEW B \in SUBSET Nat, B # {}
  PROVE  Min(B) \in B /\ \A y \in B : Min(B) <= y
<1>1. \E x \in B : \A y \in B : x =< y
  BY LeastNumber
<1> QED
  BY <1>1 DEF Min

LEMMA MaxIn ==
  ASSUME NEW k \in Nat, NEW B \in SUBSET (0 .. k), B # {}
  PROVE  Max(B) \in B /\ \A y \in B : y <= Max(B)
<1> DEFINE U == {u \in Nat : \A y \in B : y <= u}
<1>1. k \in U /\ U \in SUBSET Nat
  OBVIOUS
<1>2. PICK u \in U : \A y \in U : u <= y
  <2> HIDE DEF U
  <2> QED
    BY <1>1, LeastNumber
<1>3. u \in B
  <2> SUFFICES ASSUME u \notin B PROVE FALSE
    OBVIOUS
  <2>1. PICK y0 \in B : TRUE
    OBVIOUS
  <2>2. u # 0
    BY <2>1
  <2>3. u - 1 \in U
    BY <2>2
  <2> QED
    BY <1>2, <2>3
<1>4. \E x \in B : \A y \in B : x >= y
  BY <1>3
<1> QED
  BY <1>4 DEF Max

-----------------------------------------------------------------------------
(* Lists of elements *)

(* What the list of a bitmap is between two calls.                         *)
Ascending(s) == \A p, q \in DOMAIN s : p < q => s[p].index < s[q].index
IsList(s) == s \in Seq(Element) /\ Ascending(s) /\ \A p \in DOMAIN s : s[p].bits # {}

Bits == 0 .. (ElementSize - 1)

(* The bits that the list has, from position p on, in the element i.       *)
RowFrom(s, p, i) == UNION {s[q].bits : q \in {r \in p .. Len(s) : s[r].index = i}}
Row(s, i) == RowFrom(s, 1, i)

LEMMA ListFacts ==
  ASSUME NEW s, IsList(s)
  PROVE  /\ Len(s) \in Nat /\ DOMAIN s = 1 .. Len(s) /\ MaxIndex \in Nat
         /\ \A p \in 1 .. Len(s) : /\ s[p] \in Element /\ s[p].index \in 0 .. MaxIndex
                                   /\ s[p].bits \in SUBSET Bits /\ s[p].bits # {}
                                   /\ s[p] = [index |-> s[p].index, bits |-> s[p].bits]
         /\ \A p, q \in 1 .. Len(s) : p < q => s[p].index < s[q].index
         /\ \A p, q \in 1 .. Len(s) : s[p].index = s[q].index => p = q
<1>1. s \in Seq(Element) /\ Len(s) \in Nat /\ DOMAIN s = 1 .. Len(s)
  BY DEF IsList
<1>2. \A p \in 1 .. Len(s) : s[p] \in Element /\ s[p].bits # {}
  BY <1>1 DEF IsList
<1>3. \A p \in 1 .. Len(s) : /\ s[p].index \in 0 .. MaxIndex /\ s[p].bits \in SUBSET Bits
                             /\ s[p] = [index |-> s[p].index, bits |-> s[p].bits]
  BY <1>2 DEF Element, Bits
<1>4. \A p, q \in 1 .. Len(s) : p < q => s[p].index < s[q].index
  BY <1>1 DEF IsList, Ascending
<1>5. ASSUME NEW p \in 1 .. Len(s), NEW q \in 1 .. Len(s), s[p].index = s[q].index
      PROVE  p = q
  <2>1. s[p].index \in 0 .. MaxIndex /\ s[q].index \in 0 .. MaxIndex
    BY <1>3
  <2>2. p < q \/ p = q \/ q < p
    BY <1>1
  <2> QED
    BY <1>4, <1>5, <2>1, <2>2, BitmapAssumption
<1> QED
  BY <1>1, <1>2, <1>3, <1>4, <1>5, BitmapAssumption

LEMMA RowMeans ==
  ASSUME NEW s, IsList(s), NEW p \in 1 .. Len(s) + 1
  PROVE  /\ \A q \in p .. Len(s) : RowFrom(s, p, s[q].index) = s[q].bits
         /\ \A i : (\A q \in p .. Len(s) : s[q].index # i) => RowFrom(s, p, i) = {}
         /\ \A i : RowFrom(s, p, i) \in SUBSET Bits
         /\ \A i : RowFrom(s, p, i) # {} => \E q \in p .. Len(s) : s[q].index = i /\ s[q].bits = RowFrom(s, p, i)
<1>1. \A q \in p .. Len(s) : q \in 1 .. Len(s)
  BY ListFacts
<1>2. ASSUME NEW q \in p .. Len(s)
      PROVE  RowFrom(s, p, s[q].index) = s[q].bits
  <2>1. {r \in p .. Len(s) : s[r].index = s[q].index} = {q}
    BY <1>1, ListFacts
  <2> QED
    BY <2>1 DEF RowFrom
<1>3. ASSUME NEW i, \A q \in p .. Len(s) : s[q].index # i
      PROVE  RowFrom(s, p, i) = {}
  BY <1>3 DEF RowFrom
<1>4. ASSUME NEW i
      PROVE  RowFrom(s, p, i) \in SUBSET Bits
  <2>1. \A q \in p .. Len(s) : s[q].bits \in SUBSET Bits
    BY <1>1, ListFacts
  <2> QED
    BY ONLY <2>1 DEF RowFrom
<1>5. ASSUME NEW i, RowFrom(s, p, i) # {}
      PROVE  \E q \in p .. Len(s) : s[q].index = i /\ s[q].bits = RowFrom(s, p, i)
  <2>1. PICK q \in p .. Len(s) : s[q].index = i
    BY <1>3, <1>5
  <2> QED
    BY <1>2, <2>1
<1> QED
  BY <1>2, <1>3, <1>4, <1>5

LEMMA NoRow ==
  ASSUME NEW s, IsList(s), NEW i, \A q \in 1 .. Len(s) : s[q].index # i
  PROVE  Row(s, i) = {}
<1>1. {r \in 1 .. Len(s) : s[r].index = i} = {}
  OBVIOUS
<1> QED
  BY <1>1 DEF Row, RowFrom

LEMMA RowOf ==
  ASSUME NEW s, IsList(s), NEW p \in 1 .. Len(s)
  PROVE  Row(s, s[p].index) = s[p].bits
<1>1. 1 \in 1 .. Len(s) + 1 /\ p \in 1 .. Len(s)
  BY ListFacts
<1>2. RowFrom(s, 1, s[p].index) = s[p].bits
  BY ONLY IsList(s), <1>1, RowMeans
<1> QED
  BY ONLY <1>2, Zenon DEF Row

(* The bits of a list, element by element.                                 *)
LEMMA BitsOfRows ==
  ASSUME NEW s, IsList(s)
  PROVE  /\ BitsOf(s) \in SUBSET Nat
         /\ \A x \in Nat : x \in BitsOf(s) <=> x % ElementSize \in Row(s, x \div ElementSize)
         /\ \A x \in BitsOf(s) : x \div ElementSize \in 0 .. MaxIndex
         /\ \A i \in Nat, b \in Bits : b \in Row(s, i) <=> i * ElementSize + b \in BitsOf(s)
<1> DEFINE ES == ElementSize
<1>1. ES \in Nat \ {0} /\ Bits = 0 .. (ES - 1)
  BY SizePositive DEF Bits
<1>2. /\ Len(s) \in Nat /\ DOMAIN s = 1 .. Len(s)
      /\ \A p \in 1 .. Len(s) : s[p].index \in 0 .. MaxIndex /\ s[p].bits \in SUBSET Bits
  BY ListFacts
<1>3. \A x : x \in BitsOf(s) <=> \E p \in 1 .. Len(s) : \E b \in s[p].bits : x = s[p].index * ES + b
  BY <1>2 DEF BitsOf, BitsOfElement
<1> HIDE DEF ES
<1>4. ASSUME NEW p \in 1 .. Len(s), NEW b \in s[p].bits
      PROVE  /\ s[p].index * ES + b \in Nat /\ (s[p].index * ES + b) \div ES = s[p].index
             /\ (s[p].index * ES + b) % ES = b
  <2>1. s[p].index \in Nat /\ b \in 0 .. (ES - 1)
    BY <1>1, <1>2, BitmapAssumption
  <2> QED
    BY <1>1, <2>1, DivModOf
<1>5. \A i : \A b : b \in Row(s, i) <=> \E p \in 1 .. Len(s) : s[p].index = i /\ b \in s[p].bits
  BY DEF Row, RowFrom
<1>6. BitsOf(s) \in SUBSET Nat /\ \A x \in BitsOf(s) : x \div ES \in 0 .. MaxIndex
  BY <1>2, <1>3, <1>4
<1>7. ASSUME NEW x \in Nat
      PROVE  x \in BitsOf(s) <=> x % ES \in Row(s, x \div ES)
  <2>1. x \in BitsOf(s) => x % ES \in Row(s, x \div ES)
    BY <1>3, <1>4, <1>5
  <2>2. ASSUME x % ES \in Row(s, x \div ES)
        PROVE  x \in BitsOf(s)
    <3>1. PICK p \in 1 .. Len(s) : s[p].index = x \div ES /\ x % ES \in s[p].bits
      BY <1>5, <2>2
    <3>2. x = s[p].index * ES + (x % ES)
      BY <1>1, <3>1, DivMod
    <3> QED
      BY <1>3, <3>1, <3>2
  <2> QED
    BY <2>1, <2>2
<1>8. ASSUME NEW i \in Nat, NEW b \in Bits
      PROVE  b \in Row(s, i) <=> i * ES + b \in BitsOf(s)
  <2>1. i * ES + b \in Nat /\ (i * ES + b) \div ES = i /\ (i * ES + b) % ES = b
    BY <1>1, DivModOf
  <2> QED
    BY <1>7, <2>1
<1> QED
  BY <1>6, <1>7, <1>8 DEF ES

(* Lists with the same bits are the same.                                  *)
LEMMA RowsDecide ==
  ASSUME NEW s, NEW r, IsList(s), IsList(r), \A i \in 0 .. MaxIndex : Row(s, i) = Row(r, i),
         NEW p \in 1 .. Len(s), \A q \in 1 .. (p - 1) : q \in 1 .. Len(r) /\ r[q] = s[q]
  PROVE  p \in 1 .. Len(r) /\ r[p] = s[p]
<1>1. /\ Len(s) \in Nat /\ Len(r) \in Nat /\ MaxIndex \in Nat
      /\ \A q \in 1 .. Len(s) : s[q].index \in 0 .. MaxIndex /\ Row(s, s[q].index) = s[q].bits /\ s[q].bits # {}
      /\ \A q \in 1 .. Len(r) : r[q].index \in 0 .. MaxIndex /\ Row(r, r[q].index) = r[q].bits /\ r[q].bits # {}
  <2>1. ASSUME NEW v, IsList(v)
        PROVE  /\ Len(v) \in Nat /\ MaxIndex \in Nat
               /\ \A q \in 1 .. Len(v) : /\ v[q].index \in 0 .. MaxIndex /\ v[q].bits # {}
                                         /\ Row(v, v[q].index) = v[q].bits
    <3>1. \A q \in 1 .. Len(v) : Row(v, v[q].index) = v[q].bits
      BY <2>1, RowOf
    <3> QED
      BY <2>1, <3>1, ListFacts
  <2> QED
    BY <2>1
<1>2. /\ \A i : Row(s, i) # {} => \E q \in 1 .. Len(s) : s[q].index = i
      /\ \A i : Row(r, i) # {} => \E q \in 1 .. Len(r) : r[q].index = i
  <2>1. ASSUME NEW v, IsList(v), NEW i, Row(v, i) # {}
        PROVE  \E q \in 1 .. Len(v) : v[q].index = i
    <3>1. 1 \in 1 .. Len(v) + 1
      BY <2>1, ListFacts
    <3> QED
      BY <2>1, <3>1, RowMeans DEF Row
  <2> QED
    BY <2>1
<1>3. /\ \A q, k \in 1 .. Len(s) : q < k => s[q].index < s[k].index
      /\ \A q, k \in 1 .. Len(r) : q < k => r[q].index < r[k].index
  BY ListFacts
<1>4. PICK k \in 1 .. Len(r) : r[k].index = s[p].index
  BY <1>1, <1>2, ZenonT(30)
<1>5. ~(k < p)
  <2> SUFFICES ASSUME k < p PROVE FALSE
    OBVIOUS
  <2>1. k \in 1 .. (p - 1) /\ k \in 1 .. Len(s)
    BY <1>1
  <2>2. s[k].index < s[p].index /\ s[k].index = s[p].index
    BY <1>3, <1>4, <2>1
  <2> QED
    BY <1>1, <2>1, <2>2
<1>6. ~(p < k)
  <2> SUFFICES ASSUME p < k PROVE FALSE
    OBVIOUS
  <2>1. p \in 1 .. Len(r) /\ r[p].index < s[p].index
    BY <1>1, <1>3, <1>4
  <2>2. PICK j \in 1 .. Len(s) : s[j].index = r[p].index
    <3>1. r[p].index \in 0 .. MaxIndex /\ Row(r, r[p].index) # {}
      BY <1>1, <2>1
    <3>2. Row(s, r[p].index) # {}
      BY <3>1
    <3> QED
      BY ONLY <1>2, <3>2
  <2>3. j < p
    <3>1. ~(p < j)
      BY <1>1, <1>3, <2>1, <2>2
    <3>2. j # p
      BY <1>1, <2>1, <2>2
    <3> QED
      BY <3>1, <3>2
  <2>4. j \in 1 .. (p - 1) /\ r[j].index < r[p].index
    BY <1>1, <1>3, <2>1, <2>3
  <2> QED
    BY <1>1, <2>1, <2>2, <2>4
<1>7. k = p
  BY <1>5, <1>6
<1>8. r[p].bits = s[p].bits
  BY <1>1, <1>4, <1>7
<1> QED
  BY <1>4, <1>7, <1>8, ListFacts

LEMMA SameRows ==
  ASSUME NEW s, NEW r, IsList(s), IsList(r), \A i \in 0 .. MaxIndex : Row(s, i) = Row(r, i)
  PROVE  \A p \in 1 .. Len(s) : p \in 1 .. Len(r) /\ r[p] = s[p]
<1> DEFINE B == {p \in 1 .. Len(s) : ~(p \in 1 .. Len(r) /\ r[p] = s[p])}
<1> SUFFICES ASSUME B # {} PROVE FALSE
  OBVIOUS
<1>1. Len(s) \in Nat /\ B \in SUBSET Nat
  BY ListFacts
<1>2. PICK p \in B : \A y \in B : p <= y
  <2> HIDE DEF B
  <2> QED
    BY <1>1, LeastNumber
<1>3. \A q \in 1 .. (p - 1) : q \in 1 .. Len(r) /\ r[q] = s[q]
  <2> TAKE q \in 1 .. (p - 1)
  <2>1. q \in 1 .. Len(s) /\ q < p
    BY <1>1, <1>2
  <2> QED
    BY <1>1, <1>2, <2>1
<1> QED
  BY <1>2, <1>3, RowsDecide

LEMMA EqualBits ==
  ASSUME NEW s, NEW r, IsList(s), IsList(r)
  PROVE  s = r <=> BitsOf(s) = BitsOf(r)
<1> SUFFICES ASSUME BitsOf(s) = BitsOf(r) PROVE s = r
  OBVIOUS
<1>1. ASSUME NEW i \in 0 .. MaxIndex
      PROVE  Row(s, i) = Row(r, i)
  <2>1. Row(s, i) \in SUBSET Bits /\ Row(r, i) \in SUBSET Bits
    BY ListFacts, RowMeans DEF Row
  <2>2. \A b \in Bits : b \in Row(s, i) <=> b \in Row(r, i)
    BY BitsOfRows
  <2> QED
    BY <2>1, <2>2
<1>2. /\ \A p \in 1 .. Len(s) : p \in 1 .. Len(r) /\ r[p] = s[p]
      /\ \A p \in 1 .. Len(r) : p \in 1 .. Len(s) /\ s[p] = r[p]
  BY <1>1, SameRows
<1>3. s \in Seq(Element) /\ r \in Seq(Element) /\ Len(s) \in Nat /\ Len(r) \in Nat
  BY ListFacts DEF IsList
<1>4. Len(s) = Len(r)
  <2>1. ~(Len(s) < Len(r)) /\ ~(Len(r) < Len(s))
    BY <1>2, <1>3
  <2> QED
    BY <1>3, <2>1
<1> QED
  BY <1>2, <1>3, <1>4

-----------------------------------------------------------------------------
(* The search from the cached iterator *)

LEMMA PositionIn ==
  ASSUME NEW s, IsList(s), NEW c
  PROVE  /\ Position(s, c) \in 1 .. Len(s) + 1
         /\ \A p \in 1 .. Len(s) : s[p].index = c => Position(s, c) = p
<1>1. Len(s) \in Nat /\ DOMAIN s = 1 .. Len(s)
  BY ListFacts
<1>2. CASE \E p \in DOMAIN s : s[p].index = c
  <2> DEFINE q == CHOOSE p \in DOMAIN s : s[p].index = c
  <2>1. q \in DOMAIN s /\ s[q].index = c
    BY <1>2
  <2>2. Position(s, c) = q
    BY <1>2 DEF Position
  <2> HIDE DEF q
  <2>3. \A p \in 1 .. Len(s) : s[p].index = c => q = p
    BY <1>1, <2>1, ListFacts
  <2> QED
    BY <1>1, <2>1, <2>2, <2>3
<1>3. CASE ~ \E p \in DOMAIN s : s[p].index = c
  BY <1>1, <1>3 DEF Position
<1> QED
  BY <1>2, <1>3

(* Backwards from an element that is not before the one wanted.            *)
LEMMA SearchBack ==
  ASSUME NEW s, IsList(s), NEW i \in Nat, NEW p0 \in 1 .. Len(s), s[p0].index >= i,
         NEW p, p = Max({q \in 1 .. p0 : q = 1 \/ s[q].index <= i})
  PROVE  /\ p \in 1 .. p0
         /\ \A q \in 1 .. Len(s) : q > p => s[q].index > i
         /\ s[p].index > i => p = 1
         /\ s[p].index < i => p # p0
<1> DEFINE B == {q \in 1 .. p0 : q = 1 \/ s[q].index <= i}
<1>1. /\ Len(s) \in Nat /\ MaxIndex \in Nat /\ \A q \in 1 .. Len(s) : s[q].index \in 0 .. MaxIndex
      /\ \A q, k \in 1 .. Len(s) : q < k => s[q].index < s[k].index
  BY ListFacts
<1>2. 1 \in B /\ p0 \in Nat /\ B \in SUBSET (0 .. p0)
  BY <1>1
<1>3. p \in B /\ \A y \in B : y <= p
  <2> HIDE DEF B
  <2>1. B # {} /\ p0 \in Nat
    BY <1>2
  <2>2. Max(B) \in B /\ \A y \in B : y <= Max(B)
    BY <1>2, <2>1, MaxIn
  <2>3. p = Max(B)
    BY DEF B
  <2> QED
    BY <2>2, <2>3
<1>4. ASSUME NEW q \in 1 .. Len(s), q > p
      PROVE  s[q].index > i
  <2>1. CASE q <= p0
    <3>1. q \notin B
      BY <1>2, <1>3, <1>4
    <3> QED
      BY <1>1, <1>2, <2>1, <3>1
  <2>2. CASE q > p0
    BY <1>1, <1>2, <2>2
  <2> QED
    BY <1>1, <1>2, <2>1, <2>2
<1> QED
  BY <1>1, <1>3, <1>4

(* Forwards from an element before the one wanted.                         *)
LEMMA SearchOn ==
  ASSUME NEW s, IsList(s), NEW i \in Nat, NEW p0 \in 1 .. Len(s), s[p0].index < i,
         NEW p, p = Min({q \in p0 .. Len(s) + 1 : q > Len(s) \/ s[q].index >= i})
  PROVE  /\ p \in 2 .. Len(s) + 1
         /\ \A q \in 1 .. Len(s) : q < p => s[q].index < i
         /\ p <= Len(s) => s[p].index >= i
<1> DEFINE B == {q \in p0 .. Len(s) + 1 : q > Len(s) \/ s[q].index >= i}
<1>1. /\ Len(s) \in Nat /\ MaxIndex \in Nat /\ \A q \in 1 .. Len(s) : s[q].index \in 0 .. MaxIndex
      /\ \A q, k \in 1 .. Len(s) : q < k => s[q].index < s[k].index
  BY ListFacts
<1>2. Len(s) + 1 \in B /\ B \in SUBSET Nat
  BY <1>1
<1>3. p \in B /\ \A y \in B : p <= y
  <2> HIDE DEF B
  <2>1. p = Min(B)
    BY DEF B
  <2>2. Min(B) \in B /\ \A y \in B : Min(B) <= y
    BY <1>2, MinIn
  <2> QED
    BY <2>1, <2>2
<1>4. p # p0
  BY <1>1, <1>3
<1>5. ASSUME NEW q \in 1 .. Len(s), q < p
      PROVE  s[q].index < i
  <2>1. CASE q >= p0
    <3>1. q \notin B
      BY <1>2, <1>3, <1>5
    <3> QED
      BY <1>1, <2>1, <3>1
  <2>2. CASE q < p0
    BY <1>1, <2>2
  <2> QED
    BY <1>1, <2>1, <2>2
<1> QED
  BY <1>1, <1>3, <1>4, <1>5

(* Wherever it starts, the search ends at the element wanted if the list   *)
(* has it, and else beside the place where it belongs.                     *)
LEMMA SearchFinds ==
  ASSUME NEW s, IsList(s), NEW c, NEW i \in Nat, NEW p, p = FindLowerBound(s, c, i)
  PROVE  /\ p \in 1 .. Len(s) + 1
         /\ Holds(s, p, i) <=> p \in 1 .. Len(s) /\ s[p].index = i
         /\ \A q \in 1 .. Len(s) : s[q].index = i => q = p
         /\ ~Holds(s, p, i) /\ i <= MaxIndex => LET k == InsertPosition(s, p, i) IN
              /\ k \in 1 .. Len(s) + 1
              /\ \A q \in 1 .. Len(s) : q < k => s[q].index < i
              /\ \A q \in 1 .. Len(s) : q >= k => s[q].index > i
<1> DEFINE p0 == IF Position(s, c) > Len(s) THEN Len(s) ELSE Position(s, c)
           k  == InsertPosition(s, p, i)
<1>1. /\ Len(s) \in Nat /\ MaxIndex \in Nat /\ \A q \in 1 .. Len(s) : s[q].index \in 0 .. MaxIndex
      /\ \A q, r \in 1 .. Len(s) : q < r => s[q].index < s[r].index
      /\ \A q, r \in 1 .. Len(s) : s[q].index = s[r].index => q = r
  BY ListFacts
<1>2. ASSUME p \in 1 .. Len(s) + 1
      PROVE  /\ Holds(s, p, i) <=> p \in 1 .. Len(s) /\ s[p].index = i
             /\ p \in 1 .. Len(s) => IndexAt(s, p) = s[p].index
             /\ p = Len(s) + 1 /\ i <= MaxIndex => IndexAt(s, p) > i
             /\ IndexAt(s, p) \in Nat
  BY <1>1, <1>2 DEF Holds, IndexAt, Sentinel
<1>3. CASE s = <<>>
  <2>1. p = 1 /\ Len(s) = 0
    BY <1>3 DEF FindLowerBound
  <2>2. i <= MaxIndex => k = 1
    BY <1>1, <1>2, <2>1 DEF InsertPosition
  <2> QED
    BY <1>1, <1>2, <2>1, <2>2
<1>4. CASE s # <<>>
  <2>1. p0 \in 1 .. Len(s)
    <3>1. Len(s) # 0
      BY <1>4 DEF IsList
    <3> QED
      BY <1>1, <3>1, PositionIn
  <2>2. p = IF s[p0].index >= i THEN Max({q \in 1 .. p0 : q = 1 \/ s[q].index <= i})
            ELSE Min({q \in p0 .. Len(s) + 1 : q > Len(s) \/ s[q].index >= i})
    BY <1>4 DEF FindLowerBound
  <2> HIDE DEF p0
  <2>3. CASE s[p0].index >= i
    <3>1. /\ p \in 1 .. p0
          /\ \A q \in 1 .. Len(s) : q > p => s[q].index > i
          /\ s[p].index > i => p = 1
      BY <2>1, <2>2, <2>3, SearchBack
    <3>2. p \in 1 .. Len(s) /\ p \in 1 .. Len(s) + 1
      BY <1>1, <2>1, <3>1
    <3>3. \A q \in 1 .. Len(s) : s[q].index = i => q = p
      BY <1>1, <3>1, <3>2
    <3>4. ASSUME ~Holds(s, p, i), i <= MaxIndex
          PROVE  /\ k \in 1 .. Len(s) + 1
                 /\ \A q \in 1 .. Len(s) : q < k => s[q].index < i
                 /\ \A q \in 1 .. Len(s) : q >= k => s[q].index > i
      <4>1. s[p].index # i /\ IndexAt(s, p) = s[p].index
        BY <1>2, <3>2, <3>4
      <4>2. CASE s[p].index < i
        <5>1. k = p + 1
          BY <4>1, <4>2 DEF InsertPosition
        <5>2. \A q \in 1 .. Len(s) : q < p => s[q].index < s[p].index
          BY <1>1, <3>2
        <5>3. ASSUME NEW q \in 1 .. Len(s), q < k
              PROVE  s[q].index < i
          <6>1. q < p \/ q = p
            BY <1>1, <3>2, <5>1, <5>3
          <6>2. s[q].index \in Nat /\ s[p].index \in Nat
            BY <1>1, <3>2
          <6> QED
            BY <4>2, <5>2, <6>1, <6>2
        <5>4. ASSUME NEW q \in 1 .. Len(s), q >= k
              PROVE  s[q].index > i
          BY <1>1, <3>1, <3>2, <5>1, <5>4
        <5>5. k \in 1 .. Len(s) + 1
          BY <1>1, <3>2, <5>1
        <5> QED
          BY <5>3, <5>4, <5>5
      <4>3. CASE s[p].index > i
        <5>1. k = 1 /\ p = 1
          BY <1>1, <3>1, <3>2, <4>1, <4>3 DEF InsertPosition
        <5> QED
          BY <1>1, <3>1, <3>2, <4>3, <5>1
      <4> QED
        BY <1>1, <3>2, <4>1, <4>2, <4>3
    <3> QED
      BY <1>2, <3>2, <3>3, <3>4
  <2>4. CASE s[p0].index < i
    <3>1. /\ p \in 2 .. Len(s) + 1
          /\ \A q \in 1 .. Len(s) : q < p => s[q].index < i
          /\ p <= Len(s) => s[p].index >= i
      <4>1. p = Min({q \in p0 .. Len(s) + 1 : q > Len(s) \/ s[q].index >= i})
        BY <1>1, <2>1, <2>2, <2>4
      <4> QED
        BY <2>1, <2>4, <4>1, SearchOn
    <3>2. p \in 1 .. Len(s) + 1
      BY <1>1, <3>1
    <3>3. \A q \in 1 .. Len(s) : q > p => s[q].index > i
      BY <1>1, <3>1, <3>2
    <3>4. ASSUME NEW q \in 1 .. Len(s), s[q].index = i
          PROVE  q = p
      <4>1. ~(q < p)
        BY <3>1, <3>4
      <4>2. ~(q > p)
        BY <3>3, <3>4
      <4> QED
        BY <1>1, <3>2, <4>1, <4>2
    <3>5. ASSUME ~Holds(s, p, i), i <= MaxIndex
          PROVE  /\ k \in 1 .. Len(s) + 1
                 /\ \A q \in 1 .. Len(s) : q < k => s[q].index < i
                 /\ \A q \in 1 .. Len(s) : q >= k => s[q].index > i
      <4>1. k = p /\ (p <= Len(s) => s[p].index > i)
        BY <1>1, <1>2, <3>1, <3>2, <3>5 DEF InsertPosition
      <4> QED
        BY <1>1, <3>1, <3>2, <3>3, <4>1
    <3> QED
      BY <1>2, <3>2, <3>4, <3>5
  <2> QED
    BY <1>1, <2>1, <2>3, <2>4
<1> QED
  BY <1>3, <1>4

(* A test finds a bit exactly if it is there.                              *)
LEMMA TestFinds ==
  ASSUME NEW s, IsList(s), NEW c, NEW x \in 0 .. Sentinel * ElementSize - 1
  PROVE  Test(s, c, x) <=> x \in BitsOf(s)
<1> DEFINE i == x \div ElementSize
           p == FindLowerBound(s, c, i)
<1>1. x \in Nat /\ i \in 0 .. MaxIndex /\ ElementSize \in Nat \ {0}
  <2>1. ElementSize \in Nat \ {0} /\ MaxIndex \in Nat /\ Sentinel = MaxIndex + 1
    BY SizePositive, BitmapAssumption DEF Sentinel
  <2>2. (MaxIndex + 1) * ElementSize \in Nat
    BY <2>1
  <2>3. x \in Nat /\ x < (MaxIndex + 1) * ElementSize
    BY <2>1, <2>2
  <2>4. i \in Nat /\ i * ElementSize <= x
    <3>1. i \in Nat /\ x % ElementSize \in 0 .. (ElementSize - 1) /\ x = i * ElementSize + (x % ElementSize)
      BY <2>1, <2>3, DivMod
    <3>2. i * ElementSize \in Nat
      BY <2>1, <3>1
    <3> QED
      BY <2>1, <3>1, <3>2
  <2>5. i < MaxIndex + 1
    <3> SUFFICES ASSUME i >= MaxIndex + 1 PROVE FALSE
      BY <2>1, <2>4
    <3> HIDE DEF i
    <3>1. i * ElementSize >= (MaxIndex + 1) * ElementSize
      BY <2>1, <2>4
    <3> QED
      BY <2>1, <2>2, <2>3, <2>4, <3>1
  <2> QED
    BY <2>1, <2>3, <2>4, <2>5
<1>2. /\ p \in 1 .. Len(s) + 1
      /\ Holds(s, p, i) <=> p \in 1 .. Len(s) /\ s[p].index = i
      /\ \A q \in 1 .. Len(s) : s[q].index = i => q = p
  BY <1>1, SearchFinds
<1>3. Test(s, c, x) <=> s # <<>> /\ Holds(s, p, i) /\ x % ElementSize \in s[p].bits
  BY DEF Test
<1>4. x \in BitsOf(s) <=> x % ElementSize \in Row(s, i)
  BY <1>1, BitsOfRows
<1> HIDE DEF i, p
<1>5. Len(s) \in Nat /\ (s = <<>> => Len(s) = 0) /\ 1 \in 1 .. Len(s) + 1
  BY ListFacts
<1>6. CASE p \in 1 .. Len(s) /\ s[p].index = i
  <2>1. Row(s, i) = s[p].bits
    BY <1>5, <1>6, RowMeans DEF Row
  <2> QED
    BY <1>2, <1>3, <1>4, <1>5, <1>6, <2>1
<1>7. CASE ~(p \in 1 .. Len(s) /\ s[p].index = i)
  <2>1. Row(s, i) = {}
    BY <1>2, <1>5, <1>7, RowMeans DEF Row
  <2> QED
    BY <1>2, <1>3, <1>4, <1>7, <2>1
<1> QED
  BY <1>6, <1>7

-----------------------------------------------------------------------------
(* Single bits *)

LEMMA Joined ==
  ASSUME NEW T, NEW a \in Seq(T), NEW b \in Seq(T)
  PROVE  /\ a \o b \in Seq(T) /\ Len(a \o b) = Len(a) + Len(b) /\ Len(a) \in Nat /\ Len(b) \in Nat
         /\ \A q \in 1 .. Len(a) : (a \o b)[q] = a[q]
         /\ \A q \in 1 .. Len(b) : (a \o b)[Len(a) + q] = b[q]
OBVIOUS

LEMMA InsertedAt ==
  ASSUME NEW T, NEW s \in Seq(T), NEW k \in 1 .. Len(s) + 1, NEW e \in T
  PROVE  /\ InsertAt(s, k, e) \in Seq(T) /\ Len(InsertAt(s, k, e)) = Len(s) + 1
         /\ InsertAt(s, k, e)[k] = e
         /\ \A q \in 1 .. Len(s) : q < k => InsertAt(s, k, e)[q] = s[q]
         /\ \A q \in 1 .. Len(s) : q >= k => InsertAt(s, k, e)[q + 1] = s[q]
<1> DEFINE front == SubSeq(s, 1, k - 1)
           rest  == SubSeq(s, k, Len(s))
<1>1. /\ front \in Seq(T) /\ Len(front) = k - 1
      /\ \A q \in 1 .. (k - 1) : front[q] = s[q]
  OBVIOUS
<1>2. /\ rest \in Seq(T) /\ Len(rest) = Len(s) - k + 1
      /\ \A q \in 1 .. (Len(s) - k + 1) : rest[q] = s[q + k - 1]
  OBVIOUS
<1>3. InsertAt(s, k, e) = front \o <<e>> \o rest
  BY DEF InsertAt
<1> HIDE DEF front, rest
<1> DEFINE fe == front \o <<e>>
<1>4. fe \in Seq(T) /\ Len(fe) = k /\ fe[k] = e /\ \A q \in 1 .. (k - 1) : fe[q] = s[q]
  BY <1>1
<1> HIDE DEF fe
<1>5. InsertAt(s, k, e) = fe \o rest
  BY <1>3 DEF fe
<1>6. /\ fe \o rest \in Seq(T) /\ Len(fe \o rest) = Len(s) + 1
      /\ \A q \in 1 .. k : (fe \o rest)[q] = fe[q]
      /\ \A q \in 1 .. (Len(s) - k + 1) : (fe \o rest)[k + q] = rest[q]
  <2>1. /\ fe \o rest \in Seq(T) /\ Len(fe \o rest) = Len(fe) + Len(rest)
        /\ \A q \in 1 .. Len(fe) : (fe \o rest)[q] = fe[q]
        /\ \A q \in 1 .. Len(rest) : (fe \o rest)[Len(fe) + q] = rest[q]
    <3> HIDE DEF fe
    <3>1. fe \in Seq(T) /\ rest \in Seq(T)
      BY <1>2, <1>4
    <3> QED
      BY ONLY <3>1, Joined
  <2>2. k + (Len(s) - k + 1) = Len(s) + 1
    OBVIOUS
  <2> QED
    BY <1>2, <1>4, <2>1, <2>2
<1>7. ASSUME NEW q \in 1 .. Len(s), q >= k
      PROVE  (fe \o rest)[q + 1] = s[q]
  <2>1. q - k + 1 \in 1 .. (Len(s) - k + 1) /\ k + (q - k + 1) = q + 1 /\ (q - k + 1) + k - 1 = q
    BY <1>7
  <2> QED
    BY <1>2, <1>6, <2>1
<1> DEFINE r == fe \o rest
<1>8. r \in Seq(T) /\ Len(r) = Len(s) + 1
  BY <1>6
<1>9. r[k] = e
  <2>1. k \in 1 .. k
    OBVIOUS
  <2> QED
    BY <1>4, <1>6, <2>1
<1>10. \A q \in 1 .. Len(s) : q < k => r[q] = s[q]
  <2> SUFFICES ASSUME NEW q \in 1 .. Len(s), q < k PROVE r[q] = s[q]
    OBVIOUS
  <2>1. q \in 1 .. k /\ q \in 1 .. (k - 1)
    OBVIOUS
  <2> QED
    BY <1>4, <1>6, <2>1
<1>11. \A q \in 1 .. Len(s) : q >= k => r[q + 1] = s[q]
  BY <1>7
<1>12. InsertAt(s, k, e) = r
  BY <1>5
<1> HIDE DEF r
<1> QED
  BY ONLY <1>8, <1>9, <1>10, <1>11, <1>12

LEMMA RemovedAt ==
  ASSUME NEW T, NEW s \in Seq(T), NEW k \in 1 .. Len(s)
  PROVE  /\ RemoveAt(s, k) \in Seq(T) /\ Len(RemoveAt(s, k)) = Len(s) - 1
         /\ \A q \in 1 .. Len(s) : q < k => RemoveAt(s, k)[q] = s[q]
         /\ \A q \in 1 .. Len(s) : q > k => RemoveAt(s, k)[q - 1] = s[q]
<1> DEFINE front == SubSeq(s, 1, k - 1)
           rest  == SubSeq(s, k + 1, Len(s))
<1>1. /\ front \in Seq(T) /\ Len(front) = k - 1
      /\ \A q \in 1 .. (k - 1) : front[q] = s[q]
  OBVIOUS
<1>2. /\ rest \in Seq(T) /\ Len(rest) = Len(s) - k
      /\ \A q \in 1 .. (Len(s) - k) : rest[q] = s[q + k]
  OBVIOUS
<1>3. RemoveAt(s, k) = front \o rest
  BY DEF RemoveAt
<1> HIDE DEF front, rest
<1>4. /\ front \o rest \in Seq(T) /\ Len(front \o rest) = Len(s) - 1
      /\ \A q \in 1 .. (k - 1) : (front \o rest)[q] = front[q]
      /\ \A q \in 1 .. (Len(s) - k) : (front \o rest)[k - 1 + q] = rest[q]
  <2>1. k - 1 + (Len(s) - k) = Len(s) - 1
    OBVIOUS
  <2> QED
    <3>1. /\ front \o rest \in Seq(T) /\ Len(front \o rest) = Len(front) + Len(rest)
          /\ \A q \in 1 .. Len(front) : (front \o rest)[q] = front[q]
          /\ \A q \in 1 .. Len(rest) : (front \o rest)[Len(front) + q] = rest[q]
      <4>1. front \in Seq(T) /\ rest \in Seq(T)
        BY <1>1, <1>2
      <4> QED
        BY ONLY <4>1, Joined
    <3> QED
      BY <1>1, <1>2, <2>1, <3>1
<1>5. ASSUME NEW q \in 1 .. Len(s), q > k
      PROVE  (front \o rest)[q - 1] = s[q]
  <2>1. q - k \in 1 .. (Len(s) - k) /\ k - 1 + (q - k) = q - 1 /\ (q - k) + k = q
    BY <1>5
  <2> QED
    BY <1>2, <1>4, <2>1
<1> QED
  BY <1>1, <1>3, <1>4, <1>5

LEMMA InRow ==
  ASSUME NEW s, NEW i, NEW b
  PROVE  b \in Row(s, i) <=> \E q \in 1 .. Len(s) : s[q].index = i /\ b \in s[q].bits
BY DEF Row, RowFrom

(* A list is known by its rows.                                            *)
LEMMA RowsGiveBits ==
  ASSUME NEW r, IsList(r), NEW S \in SUBSET Nat,
         \A x \in S : x \div ElementSize \in 0 .. MaxIndex,
         \A i \in 0 .. MaxIndex : \A b \in Bits : b \in Row(r, i) <=> i * ElementSize + b \in S
  PROVE  BitsOf(r) = S
<1>1. ElementSize \in Nat \ {0} /\ MaxIndex \in Nat
  BY SizePositive, BitmapAssumption
<1>2. ASSUME NEW x \in Nat, x \div ElementSize \in 0 .. MaxIndex
      PROVE  x \in BitsOf(r) <=> x \in S
  <2>1. x % ElementSize \in Bits /\ x = (x \div ElementSize) * ElementSize + (x % ElementSize)
    BY <1>1, DivMod DEF Bits
  <2> QED
    BY <1>2, <2>1, BitsOfRows
<1>3. BitsOf(r) \in SUBSET Nat /\ \A x \in BitsOf(r) : x \div ElementSize \in 0 .. MaxIndex
  BY BitsOfRows
<1> QED
  BY <1>2, <1>3

LEMMA NewElement ==
  ASSUME NEW s, IsList(s), NEW i \in 0 .. MaxIndex, NEW B \in SUBSET Bits, B # {},
         NEW k \in 1 .. Len(s) + 1,
         \A q \in 1 .. Len(s) : q < k => s[q].index < i,
         \A q \in 1 .. Len(s) : q >= k => s[q].index > i,
         NEW r, r = InsertAt(s, k, [index |-> i, bits |-> B])
  PROVE  /\ IsList(r) /\ i \in Indices(r)
         /\ Row(r, i) = B /\ \A j : j # i => Row(r, j) = Row(s, j)
<1> DEFINE e == [index |-> i, bits |-> B]
<1>1. e \in Element /\ s \in Seq(Element) /\ e.index = i /\ e.bits = B
  BY DEF Element, Bits, IsList
<1>2. /\ Len(s) \in Nat /\ MaxIndex \in Nat /\ \A q \in 1 .. Len(s) : s[q].index \in 0 .. MaxIndex /\ s[q].bits # {}
      /\ \A q, v \in 1 .. Len(s) : q < v => s[q].index < s[v].index
  BY ListFacts
<1> HIDE DEF e
<1>3. /\ r \in Seq(Element) /\ Len(r) = Len(s) + 1 /\ r[k] = e
      /\ \A q \in 1 .. Len(s) : q < k => r[q] = s[q]
      /\ \A q \in 1 .. Len(s) : q >= k => r[q + 1] = s[q]
  BY <1>1, InsertedAt DEF e
<1>4. ASSUME NEW q \in 1 .. Len(r)
      PROVE  \/ q < k /\ q \in 1 .. Len(s) /\ r[q] = s[q]
             \/ q = k /\ r[q] = e
             \/ q > k /\ q - 1 \in 1 .. Len(s) /\ q - 1 >= k /\ r[q] = s[q - 1]
  <2>1. CASE q < k
    BY <1>2, <1>3, <2>1
  <2>2. CASE q > k
    <3>1. q - 1 \in 1 .. Len(s) /\ q - 1 >= k /\ (q - 1) + 1 = q
      BY <1>2, <1>3, <2>2
    <3> QED
      BY <1>3, <2>2, <3>1
  <2> QED
    BY <1>2, <1>3, <2>1, <2>2
<1>5. ASSUME NEW q \in 1 .. Len(r), NEW v \in 1 .. Len(r), q < v
      PROVE  r[q].index < r[v].index
  <2>1. CASE q < k /\ v < k
    BY <1>2, <1>4, <1>5, <2>1
  <2>2. CASE q < k /\ v = k
    BY <1>1, <1>2, <1>4, <2>2
  <2>3. CASE q < k /\ v > k
    <3>1. q \in 1 .. Len(s) /\ r[q] = s[q] /\ v - 1 \in 1 .. Len(s) /\ v - 1 >= k /\ r[v] = s[v - 1]
      BY <1>4, <2>3
    <3>2. q < v - 1
      BY <1>2, <2>3, <3>1
    <3> QED
      BY <1>2, <3>1, <3>2
  <2>4. CASE q = k /\ v > k
    BY <1>1, <1>2, <1>4, <2>4
  <2>5. CASE q > k /\ v > k
    <3>1. /\ q - 1 \in 1 .. Len(s) /\ r[q] = s[q - 1]
          /\ v - 1 \in 1 .. Len(s) /\ r[v] = s[v - 1]
      BY <1>4, <2>5
    <3>2. q - 1 < v - 1
      BY <1>5
    <3> QED
      BY <1>2, <3>1, <3>2
  <2> QED
    BY <1>5, <2>1, <2>2, <2>3, <2>4, <2>5
<1>6. IsList(r)
  <2>1. \A q \in 1 .. Len(r) : r[q].bits # {}
    BY <1>1, <1>2, <1>4, ZenonT(30)
  <2>2. DOMAIN r = 1 .. Len(r)
    BY <1>3
  <2> QED
    BY <1>3, <1>5, <2>1, <2>2 DEF IsList, Ascending
<1>7. k \in 1 .. Len(r) /\ DOMAIN r = 1 .. Len(r)
  BY <1>2, <1>3
<1>8. i \in Indices(r)
  BY <1>1, <1>3, <1>7 DEF Indices
<1>9. Row(r, i) = B
  <2>1. 1 \in 1 .. Len(r) + 1 /\ k \in 1 .. Len(r)
    BY <1>2, <1>3
  <2> QED
    BY <1>1, <1>3, <1>6, <2>1, RowMeans DEF Row
<1>10. ASSUME NEW j, j # i
       PROVE  Row(r, j) = Row(s, j)
  <2>1. ASSUME NEW b, b \in Row(r, j)
        PROVE  b \in Row(s, j)
    <3>1. PICK q \in 1 .. Len(r) : r[q].index = j /\ b \in r[q].bits
      BY <2>1, InRow
    <3>2. r[q] # e
      BY <1>1, <1>10, <3>1
    <3>3. \E v \in 1 .. Len(s) : r[q] = s[v]
      BY <1>4, <3>2
    <3> QED
      BY <3>1, <3>3, InRow
  <2>2. ASSUME NEW b, b \in Row(s, j)
        PROVE  b \in Row(r, j)
    <3>1. PICK q \in 1 .. Len(s) : s[q].index = j /\ b \in s[q].bits
      BY <2>2, InRow
    <3>2. \E v \in 1 .. Len(r) : r[v] = s[q]
      <4>1. q \in 1 .. Len(r) /\ q + 1 \in 1 .. Len(r)
        BY <1>2, <1>3
      <4>2. q < k \/ q >= k
        BY <1>2
      <4> QED
        BY <1>3, <4>1, <4>2
    <3> QED
      BY <3>1, <3>2, InRow
  <2> QED
    BY <2>1, <2>2
<1> QED
  BY <1>6, <1>8, <1>9, <1>10

LEMMA OtherBits ==
  ASSUME NEW s, IsList(s), NEW p \in 1 .. Len(s), NEW r \in Seq(Element), Len(r) = Len(s),
         r[p].index = s[p].index, r[p].bits # {},
         \A q \in 1 .. Len(s) : q # p => r[q] = s[q]
  PROVE  /\ IsList(r) /\ s[p].index \in Indices(r)
         /\ Row(r, s[p].index) = r[p].bits /\ \A j : j # s[p].index => Row(r, j) = Row(s, j)
<1>1. /\ Len(s) \in Nat
      /\ \A q \in 1 .. Len(s) : s[q].bits # {}
      /\ \A q, v \in 1 .. Len(s) : q < v => s[q].index < s[v].index
  BY ListFacts
<1>2. DOMAIN r = 1 .. Len(r)
  OBVIOUS
<1>3. \A q \in 1 .. Len(s) : r[q].index = s[q].index /\ r[q].bits # {}
  BY <1>1
<1>4. IsList(r)
  BY <1>1, <1>2, <1>3 DEF IsList, Ascending
<1>5. s[p].index \in Indices(r)
  BY <1>2 DEF Indices
<1>6. Row(r, s[p].index) = r[p].bits
  <2>1. 1 \in 1 .. Len(r) + 1 /\ p \in 1 .. Len(r)
    BY <1>1
  <2>2. RowFrom(r, 1, r[p].index) = r[p].bits
    BY ONLY <1>4, <2>1, RowMeans
  <2> QED
    BY <2>2 DEF Row
<1>7. ASSUME NEW j, j # s[p].index
      PROVE  Row(r, j) = Row(s, j)
  <2>1. \A q \in 1 .. Len(s) : s[q].index = j \/ r[q].index = j => r[q] = s[q]
    BY <1>3, <1>7
  <2>2. \A b : b \in Row(r, j) <=> \E q \in 1 .. Len(s) : r[q].index = j /\ b \in r[q].bits
    <3>1. \A b : b \in Row(r, j) <=> \E q \in 1 .. Len(r) : r[q].index = j /\ b \in r[q].bits
      BY ONLY InRow
    <3> QED
      BY <3>1
  <2>3. \A b : b \in Row(s, j) <=> \E q \in 1 .. Len(s) : s[q].index = j /\ b \in s[q].bits
    BY ONLY InRow
  <2>4. \A b : b \in Row(r, j) <=> b \in Row(s, j)
    BY ONLY <2>1, <2>2, <2>3
  <2> QED
    BY <2>4
<1> QED
  BY <1>4, <1>5, <1>6, <1>7

(* Other bits in the element at p.                                         *)
LEMMA BitsReplaced ==
  ASSUME NEW s, IsList(s), NEW p \in 1 .. Len(s), NEW B \in SUBSET Bits, B # {}
  PROVE  /\ [s EXCEPT ![p].bits = B] \in Seq(Element) /\ Len([s EXCEPT ![p].bits = B]) = Len(s)
         /\ [s EXCEPT ![p].bits = B][p].index = s[p].index
         /\ [s EXCEPT ![p].bits = B][p].bits = B
         /\ \A q \in 1 .. Len(s) : q # p => [s EXCEPT ![p].bits = B][q] = s[q]
<1> DEFINE e == [index |-> s[p].index, bits |-> B]
           r == [s EXCEPT ![p].bits = B]
<1>1. /\ s \in Seq(Element) /\ s[p].index \in 0 .. MaxIndex
      /\ s[p] = [index |-> s[p].index, bits |-> s[p].bits]
  BY ListFacts DEF IsList
<1>2. e \in Element /\ e.index = s[p].index /\ e.bits = B
  BY <1>1 DEF Element, Bits
<1>3. r = [s EXCEPT ![p] = e]
  <2>1. [s[p] EXCEPT !.bits = B] = e
    BY <1>1
  <2> HIDE DEF e
  <2> QED
    BY <2>1
<1> HIDE DEF e
<1>4. r \in Seq(Element) /\ Len(r) = Len(s) /\ r[p] = e
  BY <1>1, <1>2, <1>3
<1> QED
  BY <1>1, <1>2, <1>4

LEMMA ElementGone ==
  ASSUME NEW s, IsList(s), NEW p \in 1 .. Len(s), NEW r, r = RemoveAt(s, p)
  PROVE  /\ IsList(r) /\ IndexAt(s, p + 1) \in Indices(r) \cup {Sentinel}
         /\ Row(r, s[p].index) = {} /\ \A j : j # s[p].index => Row(r, j) = Row(s, j)
<1>1. /\ s \in Seq(Element) /\ Len(s) \in Nat /\ MaxIndex \in Nat
      /\ \A q \in 1 .. Len(s) : s[q].index \in 0 .. MaxIndex /\ s[q].bits # {}
      /\ \A q, v \in 1 .. Len(s) : q < v => s[q].index < s[v].index
      /\ \A q, v \in 1 .. Len(s) : s[q].index = s[v].index => q = v
  BY ListFacts DEF IsList
<1>2. /\ r \in Seq(Element) /\ Len(r) = Len(s) - 1 /\ DOMAIN r = 1 .. Len(r)
      /\ \A q \in 1 .. Len(s) : q < p => r[q] = s[q]
      /\ \A q \in 1 .. Len(s) : q > p => r[q - 1] = s[q]
  <2>1. /\ r \in Seq(Element) /\ Len(r) = Len(s) - 1
        /\ \A q \in 1 .. Len(s) : q < p => r[q] = s[q]
        /\ \A q \in 1 .. Len(s) : q > p => r[q - 1] = s[q]
    BY ONLY <1>1, p \in 1 .. Len(s), r = RemoveAt(s, p), RemovedAt
  <2>2. DOMAIN r = 1 .. Len(r)
    BY ONLY <2>1
  <2> QED
    BY <2>1, <2>2
<1>3. ASSUME NEW q \in 1 .. Len(r)
      PROVE  \/ q < p /\ q \in 1 .. Len(s) /\ r[q] = s[q]
             \/ q >= p /\ q + 1 \in 1 .. Len(s) /\ r[q] = s[q + 1]
  <2>1. CASE q < p
    BY <1>1, <1>2, <2>1
  <2>2. CASE q >= p
    <3>1. q + 1 \in 1 .. Len(s) /\ q + 1 > p /\ (q + 1) - 1 = q
      BY <1>1, <1>2, <2>2
    <3> QED
      BY <1>2, <2>2, <3>1
  <2> QED
    BY <1>1, <1>2, <2>1, <2>2
<1>4. ASSUME NEW q \in 1 .. Len(r), NEW v \in 1 .. Len(r), q < v
      PROVE  r[q].index < r[v].index
  <2>1. CASE v < p
    BY <1>1, <1>2, <1>3, <1>4, <2>1
  <2>2. CASE q < p /\ v >= p
    BY <1>1, <1>2, <1>3, <1>4, <2>2
  <2>3. CASE q >= p
    <3>1. /\ q + 1 \in 1 .. Len(s) /\ r[q] = s[q + 1]
          /\ v + 1 \in 1 .. Len(s) /\ r[v] = s[v + 1]
      BY <1>3, <1>4, <2>3
    <3>2. q + 1 < v + 1
      BY <1>4
    <3> QED
      BY <1>1, <3>1, <3>2
  <2> QED
    BY <1>1, <1>2, <2>1, <2>2, <2>3
<1>5. IsList(r)
  <2>1. \A q \in 1 .. Len(r) : r[q].bits # {}
    BY <1>1, <1>3
  <2> QED
    BY <1>2, <1>4, <2>1 DEF IsList, Ascending
<1>6. IndexAt(s, p + 1) \in Indices(r) \cup {Sentinel}
  <2>1. CASE p + 1 > Len(s)
    BY <2>1 DEF IndexAt
  <2>2. CASE ~(p + 1 > Len(s))
    <3>1. p + 1 \in 1 .. Len(s) /\ p + 1 > p /\ p \in 1 .. Len(r) /\ (p + 1) - 1 = p
      BY <1>1, <1>2, <2>2
    <3>2. r[p] = s[p + 1] /\ IndexAt(s, p + 1) = s[p + 1].index
      BY <1>2, <2>2, <3>1 DEF IndexAt
    <3> QED
      BY <1>2, <3>1, <3>2 DEF Indices
  <2> QED
    BY <2>1, <2>2
<1>7. Row(r, s[p].index) = {}
  <2>1. \A q \in 1 .. Len(r) : r[q].index # s[p].index
    BY <1>1, <1>2, <1>3
  <2> QED
    BY <2>1, InRow
<1>8. ASSUME NEW j, j # s[p].index
      PROVE  Row(r, j) = Row(s, j)
  <2>1. ASSUME NEW b, b \in Row(r, j)
        PROVE  b \in Row(s, j)
    BY <1>3, <2>1, InRow
  <2>2. ASSUME NEW b, b \in Row(s, j)
        PROVE  b \in Row(r, j)
    <3>1. PICK q \in 1 .. Len(s) : s[q].index = j /\ b \in s[q].bits
      BY <2>2, InRow
    <3>2. \E v \in 1 .. Len(r) : r[v] = s[q]
      <4>1. q < p \/ q > p
        BY <1>1, <1>8, <3>1
      <4>2. CASE q < p
        <5>1. q \in 1 .. Len(r)
          BY <1>1, <1>2, <4>2
        <5> QED
          BY <1>2, <4>2, <5>1
      <4>3. CASE q > p
        <5>1. q - 1 \in 1 .. Len(r)
          BY <1>1, <1>2, <4>3
        <5> QED
          BY <1>2, <4>3, <5>1
      <4> QED
        BY <4>1, <4>2, <4>3
    <3> QED
      BY <3>1, <3>2, InRow
  <2> QED
    BY <2>1, <2>2
<1> QED
  BY <1>5, <1>6, <1>7, <1>8

(* One bit more or less in one element.                                    *)
LEMMA OneBitMeans ==
  ASSUME NEW s, IsList(s), NEW r, IsList(r), NEW x \in Nat, x \div ElementSize \in 0 .. MaxIndex,
         \A j : j # x \div ElementSize => Row(r, j) = Row(s, j)
  PROVE  /\ Row(r, x \div ElementSize) = Row(s, x \div ElementSize) \cup {x % ElementSize}
              => BitsOf(r) = BitsOf(s) \cup {x}
         /\ Row(r, x \div ElementSize) = Row(s, x \div ElementSize) \ {x % ElementSize}
              => BitsOf(r) = BitsOf(s) \ {x}
<1> DEFINE i  == x \div ElementSize
           b0 == x % ElementSize
<1>1. ElementSize \in Nat \ {0} /\ MaxIndex \in Nat /\ Bits = 0 .. (ElementSize - 1)
  BY SizePositive, BitmapAssumption DEF Bits
<1>2. i \in Nat /\ b0 \in Bits /\ x = i * ElementSize + b0
  BY <1>1, DivMod
<1>3. ASSUME NEW j \in 0 .. MaxIndex, NEW b \in Bits
      PROVE  /\ j \in Nat /\ (b \in Row(s, j) <=> j * ElementSize + b \in BitsOf(s))
             /\ j * ElementSize + b = x <=> j = i /\ b = b0
             /\ j # i => Row(r, j) = Row(s, j)
  <2>1. j \in Nat
    BY <1>1
  <2>2. (j * ElementSize + b) \div ElementSize = j /\ (j * ElementSize + b) % ElementSize = b
    BY <1>1, <2>1, DivModOf
  <2>3. b \in Row(s, j) <=> j * ElementSize + b \in BitsOf(s)
    BY <2>1, BitsOfRows
  <2> QED
    BY <1>2, <2>1, <2>2, <2>3
<1>4. /\ BitsOf(s) \in SUBSET Nat /\ \A y \in BitsOf(s) : y \div ElementSize \in 0 .. MaxIndex
  BY BitsOfRows
<1>5. i \in 0 .. MaxIndex
  OBVIOUS
<1> HIDE DEF i, b0
<1>6. ASSUME Row(r, i) = Row(s, i) \cup {b0}
      PROVE  BitsOf(r) = BitsOf(s) \cup {x}
  <2>1. ASSUME NEW j \in 0 .. MaxIndex, NEW b \in Bits
        PROVE  b \in Row(r, j) <=> j * ElementSize + b \in BitsOf(s) \cup {x}
    BY <1>3, <1>6
  <2>2. \A y \in BitsOf(s) \cup {x} : y \in Nat /\ y \div ElementSize \in 0 .. MaxIndex
    BY <1>4, <1>5 DEF i
  <2> QED
    BY <2>1, <2>2, RowsGiveBits
<1>7. ASSUME Row(r, i) = Row(s, i) \ {b0}
      PROVE  BitsOf(r) = BitsOf(s) \ {x}
  <2>1. ASSUME NEW j \in 0 .. MaxIndex, NEW b \in Bits
        PROVE  b \in Row(r, j) <=> j * ElementSize + b \in BitsOf(s) \ {x}
    BY <1>3, <1>7
  <2>2. \A y \in BitsOf(s) \ {x} : y \in Nat /\ y \div ElementSize \in 0 .. MaxIndex
    BY <1>4
  <2> QED
    BY <2>1, <2>2, RowsGiveBits
<1> QED
  BY <1>6, <1>7 DEF i, b0

(* The list that set makes.                                                *)
SetIn(s, c, x) ==
  LET i == x \div ElementSize
      p == FindLowerBound(s, c, i)
      new == [index |-> i, bits |-> {x % ElementSize}]
  IN  IF Holds(s, p, i) THEN [s EXCEPT ![p].bits = @ \cup new.bits]
      ELSE InsertAt(s, InsertPosition(s, p, i), new)

LEMMA SetMeans ==
  ASSUME NEW s, IsList(s), NEW c, NEW x \in Nat, x \div ElementSize <= MaxIndex
  PROVE  /\ IsList(SetIn(s, c, x)) /\ x \div ElementSize \in Indices(SetIn(s, c, x))
         /\ BitsOf(SetIn(s, c, x)) = BitsOf(s) \cup {x}
<1> DEFINE i  == x \div ElementSize
           b0 == x % ElementSize
           p  == FindLowerBound(s, c, i)
           k  == InsertPosition(s, p, i)
           r  == SetIn(s, c, x)
<1>1. ElementSize \in Nat \ {0} /\ MaxIndex \in Nat /\ Bits = 0 .. (ElementSize - 1)
  BY SizePositive, BitmapAssumption DEF Bits
<1>2. i \in Nat /\ i \in 0 .. MaxIndex /\ b0 \in Bits
  <2>1. i \in Nat /\ b0 \in Bits
    BY <1>1, DivMod
  <2> QED
    BY <1>1, <2>1
<1>3. /\ p \in 1 .. Len(s) + 1
      /\ Holds(s, p, i) <=> p \in 1 .. Len(s) /\ s[p].index = i
      /\ \A q \in 1 .. Len(s) : s[q].index = i => q = p
      /\ ~Holds(s, p, i) =>
              /\ k \in 1 .. Len(s) + 1
              /\ \A q \in 1 .. Len(s) : q < k => s[q].index < i
              /\ \A q \in 1 .. Len(s) : q >= k => s[q].index > i
  BY <1>1, <1>2, SearchFinds
<1>4. r = IF Holds(s, p, i) THEN [s EXCEPT ![p].bits = s[p].bits \cup {b0}]
          ELSE InsertAt(s, k, [index |-> i, bits |-> {b0}])
  BY DEF SetIn
<1>5. 1 \in 1 .. Len(s) + 1 /\ Len(s) \in Nat
  BY ListFacts
<1> HIDE DEF r, k, p
<1>6. /\ IsList(r) /\ i \in Indices(r) /\ Row(r, i) = Row(s, i) \cup {b0}
      /\ \A j : j # i => Row(r, j) = Row(s, j)
  <2>1. CASE Holds(s, p, i)
    <3> DEFINE B == s[p].bits \cup {b0}
    <3>1. p \in 1 .. Len(s) /\ s[p].index = i
      BY <1>3, <2>1
    <3>2. s[p].bits \in SUBSET Bits
      BY <3>1, ListFacts
    <3>3. B \in SUBSET Bits /\ B # {}
      BY <1>2, <3>2
    <3>4. r = [s EXCEPT ![p].bits = B]
      BY <1>4, <2>1
    <3> HIDE DEF B
    <3>5. /\ IsList(r) /\ i \in Indices(r) /\ Row(r, i) = B
          /\ \A j : j # i => Row(r, j) = Row(s, j)
      <4> HIDE DEF i
      <4>1. /\ r \in Seq(Element) /\ Len(r) = Len(s) /\ r[p].index = s[p].index /\ r[p].bits = B
            /\ \A q \in 1 .. Len(s) : q # p => r[q] = s[q]
        BY <3>1, <3>3, <3>4, BitsReplaced
      <4>2. /\ IsList(r) /\ s[p].index \in Indices(r) /\ Row(r, s[p].index) = r[p].bits
            /\ \A j : j # s[p].index => Row(r, j) = Row(s, j)
        BY ONLY IsList(s), <3>1, <3>3, <4>1, OtherBits, SMTT(30)
      <4> QED
        BY <3>1, <4>1, <4>2
    <3>6. Row(s, i) = s[p].bits
      <4>1. Row(s, s[p].index) = s[p].bits
        BY <3>1, RowOf
      <4> QED
        BY ONLY <3>1, <4>1, Zenon
    <3> QED
      BY <3>5, <3>6 DEF B
  <2>2. CASE ~Holds(s, p, i)
    <3>1. {b0} \in SUBSET Bits /\ {b0} # {}
      BY <1>2
    <3>2. r = InsertAt(s, k, [index |-> i, bits |-> {b0}])
      BY <1>4, <2>2
    <3>3. /\ IsList(r) /\ i \in Indices(r) /\ Row(r, i) = {b0}
          /\ \A j : j # i => Row(r, j) = Row(s, j)
      <4> DEFINE C == {b0}
      <4> HIDE DEF i, b0
      <4>1. C \in SUBSET Bits /\ C # {} /\ r = InsertAt(s, k, [index |-> i, bits |-> C])
        BY <3>1, <3>2
      <4> HIDE DEF C
      <4>2. /\ k \in 1 .. Len(s) + 1
            /\ \A q \in 1 .. Len(s) : q < k => s[q].index < i
            /\ \A q \in 1 .. Len(s) : q >= k => s[q].index > i
        BY <1>3, <2>2
      <4>3. i \in 0 .. MaxIndex
        BY <1>2
      <4>4. /\ IsList(r) /\ i \in Indices(r) /\ Row(r, i) = C
            /\ \A j : j # i => Row(r, j) = Row(s, j)
        BY ONLY IsList(s), <4>1, <4>2, <4>3, NewElement, SMTT(30)
      <4> QED
        BY ONLY <4>4 DEF C
    <3>4. Row(s, i) = {}
      <4>1. \A q \in 1 .. Len(s) : s[q].index # i
        BY <1>3, <2>2
      <4> QED
        BY <4>1, NoRow
    <3> QED
      BY <3>3, <3>4
  <2> QED
    BY <2>1, <2>2
<1>7. BitsOf(r) = BitsOf(s) \cup {x}
  BY <1>2, <1>6, OneBitMeans
<1> QED
  BY <1>6, <1>7 DEF r

(* What resetting x leaves of s, whose element at p held it and then b.    *)
ResetLeaves(s, p, x, b) ==
  /\ b = {} => /\ IsList(RemoveAt(s, p))
               /\ IndexAt(s, p + 1) \in Indices(RemoveAt(s, p)) \cup {Sentinel}
               /\ BitsOf(RemoveAt(s, p)) = BitsOf(s) \ {x}
  /\ b # {} => /\ IsList([s EXCEPT ![p].bits = b])
               /\ x \div ElementSize \in Indices([s EXCEPT ![p].bits = b])
               /\ BitsOf([s EXCEPT ![p].bits = b]) = BitsOf(s) \ {x}

LEMMA ResetMeans ==
  ASSUME NEW s, IsList(s), NEW c, NEW x \in Nat, NEW p, p = FindLowerBound(s, c, x \div ElementSize),
         Holds(s, p, x \div ElementSize), NEW b, b = s[p].bits \ {x % ElementSize}
  PROVE  ResetLeaves(s, p, x, b)
<1> DEFINE i  == x \div ElementSize
<1>1. i \in Nat
  BY SizePositive, DivMod
<1>2. p \in 1 .. Len(s) /\ s[p].index = i
  BY <1>1, SearchFinds
<1>3. i \in 0 .. MaxIndex /\ s[p].bits \in SUBSET Bits
  <2>1. s[p].index \in 0 .. MaxIndex /\ s[p].bits \in SUBSET Bits
    BY ONLY IsList(s), <1>2, ListFacts
  <2> QED
    BY <1>2, <2>1
<1>4. Row(s, i) = s[p].bits
  <2>1. Row(s, s[p].index) = s[p].bits
    BY <1>2, RowOf
  <2> QED
    BY ONLY <1>2, <2>1, Zenon
<1>5. ASSUME b = {}
      PROVE  /\ IsList(RemoveAt(s, p)) /\ IndexAt(s, p + 1) \in Indices(RemoveAt(s, p)) \cup {Sentinel}
             /\ BitsOf(RemoveAt(s, p)) = BitsOf(s) \ {x}
  <2> DEFINE r == RemoveAt(s, p)
  <2>1. /\ IsList(r) /\ IndexAt(s, p + 1) \in Indices(r) \cup {Sentinel}
        /\ Row(r, i) = {} /\ \A j : j # i => Row(r, j) = Row(s, j)
    <3>1. /\ IsList(r) /\ IndexAt(s, p + 1) \in Indices(r) \cup {Sentinel}
          /\ Row(r, s[p].index) = {} /\ \A j : j # s[p].index => Row(r, j) = Row(s, j)
      BY ONLY IsList(s), <1>2, ElementGone, ZenonT(30)
    <3> QED
      BY <1>2, <3>1
  <2>2. Row(r, i) = Row(s, i) \ {x % ElementSize}
    BY <1>4, <1>5, <2>1
  <2> HIDE DEF r
  <2>3. BitsOf(r) = BitsOf(s) \ {x}
    BY <1>3, <2>1, <2>2, OneBitMeans
  <2> QED
    BY <2>1, <2>3 DEF r
<1>6. ASSUME b # {}
      PROVE  /\ IsList([s EXCEPT ![p].bits = b]) /\ i \in Indices([s EXCEPT ![p].bits = b])
             /\ BitsOf([s EXCEPT ![p].bits = b]) = BitsOf(s) \ {x}
  <2> DEFINE r == [s EXCEPT ![p].bits = b]
  <2>1. b \in SUBSET Bits
    BY <1>3
  <2>2. /\ IsList(r) /\ i \in Indices(r) /\ Row(r, i) = b
        /\ \A j : j # i => Row(r, j) = Row(s, j)
    <3>1. /\ IsList(r) /\ s[p].index \in Indices(r) /\ Row(r, s[p].index) = b
          /\ \A j : j # s[p].index => Row(r, j) = Row(s, j)
      <4>1. /\ r \in Seq(Element) /\ Len(r) = Len(s) /\ r[p].index = s[p].index /\ r[p].bits = b
            /\ \A q \in 1 .. Len(s) : q # p => r[q] = s[q]
        BY <1>2, <1>6, <2>1, BitsReplaced
      <4> HIDE DEF r
      <4>2. /\ IsList(r) /\ s[p].index \in Indices(r) /\ Row(r, s[p].index) = r[p].bits
            /\ \A j : j # s[p].index => Row(r, j) = Row(s, j)
        BY ONLY IsList(s), <1>2, <1>6, <4>1, OtherBits
      <4> QED
        BY <4>1, <4>2
    <3> QED
      BY <1>2, <3>1
  <2>3. Row(r, i) = Row(s, i) \ {x % ElementSize}
    BY <1>4, <2>2
  <2> HIDE DEF r
  <2>4. BitsOf(r) = BitsOf(s) \ {x}
    BY <1>3, <2>2, <2>3, OneBitMeans
  <2> QED
    BY <2>2, <2>4 DEF r
<1> QED
  BY <1>5, <1>6 DEF ResetLeaves

-----------------------------------------------------------------------------
(* Walks of two lists *)

LEMMA RowStep ==
  ASSUME NEW s, IsList(s), NEW p \in 1 .. Len(s)
  PROVE  /\ p + 1 \in 1 .. Len(s) + 1 /\ s[p].index \in 0 .. MaxIndex
         /\ RowFrom(s, p, s[p].index) = s[p].bits /\ s[p].bits # {} /\ s[p].bits \in SUBSET Bits
         /\ RowFrom(s, p + 1, s[p].index) = {}
         /\ \A i \in 0 .. MaxIndex : i # s[p].index => RowFrom(s, p + 1, i) = RowFrom(s, p, i)
         /\ \A i \in 0 .. MaxIndex : i < s[p].index => RowFrom(s, p, i) = {}
<1>1. /\ Len(s) \in Nat /\ MaxIndex \in Nat
      /\ \A q \in 1 .. Len(s) : s[q].index \in 0 .. MaxIndex /\ s[q].bits # {} /\ s[q].bits \in SUBSET Bits
      /\ \A q, k \in 1 .. Len(s) : q < k => s[q].index < s[k].index
  BY ListFacts
<1>2. p \in 1 .. Len(s) + 1 /\ p + 1 \in 1 .. Len(s) + 1 /\ p \in p .. Len(s)
  BY <1>1
<1>3. RowFrom(s, p, s[p].index) = s[p].bits
  BY <1>2, RowMeans
<1>4. \A q \in p + 1 .. Len(s) : q \in 1 .. Len(s) /\ p < q
  BY <1>1
<1>5. RowFrom(s, p + 1, s[p].index) = {}
  <2>1. \A q \in p + 1 .. Len(s) : s[q].index # s[p].index
    BY <1>1, <1>4
  <2> QED
    BY ONLY IsList(s), <1>2, <2>1, RowMeans
<1>6. ASSUME NEW i \in 0 .. MaxIndex, i # s[p].index
      PROVE  RowFrom(s, p + 1, i) = RowFrom(s, p, i)
  <2>1. {r \in p + 1 .. Len(s) : s[r].index = i} = {r \in p .. Len(s) : s[r].index = i}
    BY <1>1, <1>6
  <2> QED
    BY <2>1 DEF RowFrom
<1>7. ASSUME NEW i \in 0 .. MaxIndex, i < s[p].index
      PROVE  RowFrom(s, p, i) = {}
  <2>1. ASSUME NEW q \in p .. Len(s)
        PROVE  s[q].index # i
    <3>1. q \in 1 .. Len(s) /\ (q = p \/ p < q)
      BY <1>1
    <3> QED
      BY <1>1, <1>7, <3>1
  <2> QED
    BY ONLY IsList(s), <1>2, <2>1, RowMeans
<1> QED
  BY <1>1, <1>2, <1>3, <1>5, <1>6, <1>7

(* What a list has from position p on.                                     *)
LEMMA Ahead ==
  ASSUME NEW s, IsList(s), NEW p \in 1 .. Len(s) + 1, NEW x, x = IndexAt(s, p)
  PROVE  /\ x \in 0 .. Sentinel /\ (p <= Len(s) <=> x \in 0 .. MaxIndex) /\ (p > Len(s) <=> x = Sentinel)
         /\ \A i \in 0 .. MaxIndex : i < x => RowFrom(s, p, i) = {}
         /\ p <= Len(s) =>
              /\ p + 1 \in 1 .. Len(s) + 1 /\ RowFrom(s, p, x) = s[p].bits /\ s[p].bits \in SUBSET Bits
              /\ RowFrom(s, p + 1, x) = {}
              /\ \A i \in 0 .. MaxIndex : i # x => RowFrom(s, p + 1, i) = RowFrom(s, p, i)
<1>1. Len(s) \in Nat /\ MaxIndex \in Nat /\ Sentinel = MaxIndex + 1
  BY ListFacts DEF Sentinel
<1>2. CASE p <= Len(s)
  <2>1. p \in 1 .. Len(s) /\ x = s[p].index
    BY <1>1, <1>2 DEF IndexAt
  <2>2. x \in 0 .. MaxIndex /\ x # Sentinel /\ x \in 0 .. Sentinel
    <3>1. s[p].index \in 0 .. MaxIndex
      BY ONLY IsList(s), <2>1, RowStep
    <3> QED
      BY <1>1, <2>1, <3>1
  <2>3. /\ p + 1 \in 1 .. Len(s) + 1
        /\ RowFrom(s, p, x) = s[p].bits /\ s[p].bits \in SUBSET Bits
        /\ RowFrom(s, p + 1, x) = {}
        /\ \A i \in 0 .. MaxIndex : i # x => RowFrom(s, p + 1, i) = RowFrom(s, p, i)
        /\ \A i \in 0 .. MaxIndex : i < x => RowFrom(s, p, i) = {}
    BY ONLY IsList(s), <2>1, RowStep
  <2>4. ~(p > Len(s))
    BY <1>1, <1>2
  <2> QED
    BY <1>2, <2>2, <2>3, <2>4
<1>3. CASE p > Len(s)
  <2>1. x = Sentinel
    BY <1>3 DEF IndexAt
  <2>2. \A q \in p .. Len(s) : FALSE
    BY <1>1, <1>3
  <2>3. \A i : RowFrom(s, p, i) = {}
    BY ONLY IsList(s), p \in 1 .. Len(s) + 1, <2>2, RowMeans
  <2> QED
    BY <1>1, <1>3, <2>1, <2>3
<1> QED
  BY <1>1, <1>2, <1>3

(* How far a walk still has to go.                                         *)
Rank(a, b) == [t \in Places(a, b) |-> (Len(a) + 1 - t[1]) + (Len(b) + 1 - t[2])]

(* One step of a walk deals with all that the lists have at the least      *)
(* index, and with nothing else.                                           *)
AtIs(a, b, t, e) ==
  /\ e.index \in 0 .. MaxIndex
  /\ e.one = RowFrom(a, t[1], e.index) /\ e.two = RowFrom(b, t[2], e.index)
  /\ e.one \in SUBSET Bits /\ e.two \in SUBSET Bits
  /\ e.next \in Places(a, b) /\ Rank(a, b)[e.next] < Rank(a, b)[t]
  /\ RowFrom(a, e.next[1], e.index) = {} /\ RowFrom(b, e.next[2], e.index) = {}
  /\ \A i \in 0 .. MaxIndex : i # e.index => /\ RowFrom(a, e.next[1], i) = RowFrom(a, t[1], i)
                                             /\ RowFrom(b, e.next[2], i) = RowFrom(b, t[2], i)
  /\ \A i \in 0 .. MaxIndex : i < e.index => RowFrom(a, t[1], i) = {} /\ RowFrom(b, t[2], i) = {}

LEMMA AtMeans ==
  ASSUME NEW a, IsList(a), NEW b, IsList(b), NEW t \in Places(a, b),
         ~(t[1] > Len(a) /\ t[2] > Len(b))
  PROVE  AtIs(a, b, t, At(a, b, t))
<1> DEFINE e == At(a, b, t)
<1> SUFFICES AtIs(a, b, t, e)
  OBVIOUS
<1>0. e = At(a, b, t)
  OBVIOUS
<1> DEFINE p == t[1]
           q == t[2]
           x == IndexAt(a, p)
           y == IndexAt(b, q)
<1>1. Len(a) \in Nat /\ Len(b) \in Nat /\ MaxIndex \in Nat /\ Sentinel = MaxIndex + 1
  BY ListFacts DEF Sentinel
<1>2. p \in 1 .. Len(a) + 1 /\ q \in 1 .. Len(b) + 1
  BY DEF Places
<1>3. /\ e.index = (IF x <= y THEN x ELSE y)
      /\ e.one = (IF x <= y THEN a[p].bits ELSE {}) /\ e.two = (IF y <= x THEN b[q].bits ELSE {})
      /\ e.next = <<IF x <= y THEN p + 1 ELSE p, IF y <= x THEN q + 1 ELSE q>>
  BY DEF At
<1> HIDE DEF e
<1>4. e.next[1] = (IF x <= y THEN p + 1 ELSE p) /\ e.next[2] = (IF y <= x THEN q + 1 ELSE q)
  BY <1>3
<1>5. \A k \in 1 .. Len(a) + 1, l \in 1 .. Len(b) + 1 :
         <<k, l>> \in Places(a, b) /\ Rank(a, b)[<<k, l>>] = (Len(a) + 1 - k) + (Len(b) + 1 - l)
  BY DEF Places, Rank
<1>6. Rank(a, b)[t] = (Len(a) + 1 - p) + (Len(b) + 1 - q)
  BY DEF Rank
<1>7. /\ x \in 0 .. Sentinel /\ (p <= Len(a) <=> x \in 0 .. MaxIndex) /\ (p > Len(a) <=> x = Sentinel)
      /\ \A i \in 0 .. MaxIndex : i < x => RowFrom(a, p, i) = {}
      /\ p <= Len(a) =>
           /\ p + 1 \in 1 .. Len(a) + 1 /\ RowFrom(a, p, x) = a[p].bits /\ a[p].bits \in SUBSET Bits
           /\ RowFrom(a, p + 1, x) = {}
           /\ \A i \in 0 .. MaxIndex : i # x => RowFrom(a, p + 1, i) = RowFrom(a, p, i)
  <2> HIDE DEF p
  <2> QED
    BY <1>2, Ahead
<1>8. /\ y \in 0 .. Sentinel /\ (q <= Len(b) <=> y \in 0 .. MaxIndex) /\ (q > Len(b) <=> y = Sentinel)
      /\ \A i \in 0 .. MaxIndex : i < y => RowFrom(b, q, i) = {}
      /\ q <= Len(b) =>
           /\ q + 1 \in 1 .. Len(b) + 1 /\ RowFrom(b, q, y) = b[q].bits /\ b[q].bits \in SUBSET Bits
           /\ RowFrom(b, q + 1, y) = {}
           /\ \A i \in 0 .. MaxIndex : i # y => RowFrom(b, q + 1, i) = RowFrom(b, q, i)
  <2> HIDE DEF q
  <2> QED
    BY <1>2, Ahead
<1>9. ~(p > Len(a) /\ q > Len(b))
  OBVIOUS
<1> HIDE DEF p, q, x, y
<1>10. CASE x < y
  <2>1. p <= Len(a) /\ x \in 0 .. MaxIndex /\ ~(y <= x) /\ x <= y /\ \A i : i < x => i < y \/ i \notin 0 .. MaxIndex
    BY <1>1, <1>7, <1>8, <1>10
  <2>2. e.index = x /\ e.one = a[p].bits /\ e.two = {} /\ e.next = <<p + 1, q>> /\ e.next[1] = p + 1 /\ e.next[2] = q
    BY <1>3, <1>4, <2>1
  <2>3. RowFrom(b, q, x) = {}
    BY <1>8, <1>10, <2>1
  <2>4. e.next \in Places(a, b) /\ Rank(a, b)[e.next] < Rank(a, b)[t]
    <3>1. e.next \in Places(a, b) /\ Rank(a, b)[e.next] = (Len(a) + 1 - (p + 1)) + (Len(b) + 1 - q)
      BY <1>2, <1>5, <1>7, <2>1, <2>2
    <3> QED
      BY <1>1, <1>2, <1>6, <3>1, SMTT(30)
  <2>5. \A i \in 0 .. MaxIndex : i < x => RowFrom(a, p, i) = {} /\ RowFrom(b, q, i) = {}
    BY <1>7, <1>8, <2>1
  <2> QED
    BY <1>7, <2>1, <2>2, <2>3, <2>4, <2>5 DEF p, q, AtIs
<1>11. CASE x = y
  <2>1. p <= Len(a) /\ q <= Len(b) /\ x \in 0 .. MaxIndex /\ y <= x /\ x <= y
    BY <1>1, <1>2, <1>7, <1>8, <1>9, <1>11
  <2>2. /\ e.index = x /\ e.one = a[p].bits /\ e.two = b[q].bits
        /\ e.next = <<p + 1, q + 1>> /\ e.next[1] = p + 1 /\ e.next[2] = q + 1
    BY <1>3, <1>4, <2>1
  <2>4. e.next \in Places(a, b) /\ Rank(a, b)[e.next] < Rank(a, b)[t]
    <3>1. e.next \in Places(a, b) /\ Rank(a, b)[e.next] = (Len(a) + 1 - (p + 1)) + (Len(b) + 1 - (q + 1))
      <4>1. p + 1 \in 1 .. Len(a) + 1 /\ q + 1 \in 1 .. Len(b) + 1
        BY <1>7, <1>8, <2>1
      <4> QED
        BY ONLY <1>5, <2>2, <4>1
    <3>2. (Len(a) + 1 - (p + 1)) + (Len(b) + 1 - (q + 1)) < (Len(a) + 1 - p) + (Len(b) + 1 - q)
      BY <1>1, <1>2
    <3> QED
      BY <1>6, <3>1, <3>2
  <2>5. \A i \in 0 .. MaxIndex : i < x => RowFrom(a, p, i) = {} /\ RowFrom(b, q, i) = {}
    BY <1>7, <1>8, <1>11
  <2> QED
    BY <1>7, <1>8, <1>11, <2>1, <2>2, <2>4, <2>5 DEF p, q, AtIs
<1>12. CASE y < x
  <2>1. q <= Len(b) /\ y \in 0 .. MaxIndex /\ ~(x <= y) /\ y <= x /\ \A i : i < y => i < x \/ i \notin 0 .. MaxIndex
    BY <1>1, <1>7, <1>8, <1>12
  <2>2. e.index = y /\ e.one = {} /\ e.two = b[q].bits /\ e.next = <<p, q + 1>> /\ e.next[1] = p /\ e.next[2] = q + 1
    BY <1>3, <1>4, <2>1
  <2>3. RowFrom(a, p, y) = {}
    BY <1>7, <1>12, <2>1
  <2>4. e.next \in Places(a, b) /\ Rank(a, b)[e.next] < Rank(a, b)[t]
    <3>1. e.next \in Places(a, b) /\ Rank(a, b)[e.next] = (Len(a) + 1 - p) + (Len(b) + 1 - (q + 1))
      BY <1>2, <1>5, <1>8, <2>1, <2>2
    <3> QED
      BY <1>1, <1>2, <1>6, <3>1
  <2>5. \A i \in 0 .. MaxIndex : i < y => RowFrom(a, p, i) = {} /\ RowFrom(b, q, i) = {}
    BY <1>7, <1>8, <2>1
  <2> QED
    BY <1>8, <2>1, <2>2, <2>3, <2>4, <2>5 DEF p, q, AtIs
<1>13. x < y \/ x = y \/ y < x
  BY <1>1, <1>7, <1>8
<1> QED
  BY <1>10, <1>11, <1>12, <1>13

LEMMA RankIn ==
  ASSUME NEW a, IsList(a), NEW b, IsList(b)
  PROVE  /\ (Len(a) + Len(b)) \in Nat /\ Rank(a, b) \in [Places(a, b) -> 0 .. (Len(a) + Len(b))]
         /\ <<1, 1>> \in Places(a, b)
         /\ \A t \in Places(a, b) : t[1] \in 1 .. Len(a) + 1 /\ t[2] \in 1 .. Len(b) + 1
<1>1. Len(a) \in Nat /\ Len(b) \in Nat
  BY ListFacts
<1>2. \A t \in Places(a, b) : t[1] \in 1 .. Len(a) + 1 /\ t[2] \in 1 .. Len(b) + 1
  BY DEF Places
<1>3. \A t \in Places(a, b) : (Len(a) + 1 - t[1]) + (Len(b) + 1 - t[2]) \in 0 .. (Len(a) + Len(b))
  BY <1>1, <1>2, SMTT(30)
<1> QED
  BY <1>1, <1>2, <1>3 DEF Rank, Places

(* An element before all of a list.                                        *)
LEMMA KeptMeans ==
  ASSUME NEW r, IsList(r), NEW i \in 0 .. MaxIndex, NEW B \in SUBSET Bits,
         \A j \in 0 .. MaxIndex : j <= i => Row(r, j) = {}
  PROVE  /\ IsList(Kept(i, B) \o r) /\ Row(Kept(i, B) \o r, i) = B
         /\ \A j : j # i => Row(Kept(i, B) \o r, j) = Row(r, j)
<1>1. r \in Seq(Element) /\ Len(r) \in Nat /\ MaxIndex \in Nat /\ 1 \in 1 .. Len(r) + 1
  <2>1. r \in Seq(Element)
    BY DEF IsList
  <2> QED
    BY <2>1, BitmapAssumption
<1>2. CASE B = {}
  <2>1. Kept(i, B) \o r = r
    <3>1. <<>> \o r = r
      BY <1>1
    <3> QED
      BY <1>2, <3>1 DEF Kept
  <2>2. Row(r, i) = {}
    BY <1>1
  <2> QED
    BY <1>2, <2>1, <2>2
<1>3. CASE B # {}
  <2> DEFINE e == [index |-> i, bits |-> B]
             s == Kept(i, B) \o r
  <2>1. s = InsertAt(r, 1, e)
    <3>1. SubSeq(r, 1, 1 - 1) = <<>> /\ SubSeq(r, 1, Len(r)) = r
      BY <1>1
    <3>2. InsertAt(r, 1, e) = (<<>> \o <<e>>) \o r
      BY <3>1 DEF InsertAt
    <3>3. <<>> \o <<e>> = <<e>>
      OBVIOUS
    <3> QED
      BY <1>3, <3>2, <3>3 DEF Kept
  <2>2. ASSUME NEW q \in 1 .. Len(r)
        PROVE  r[q].index > i
    <3>1. r[q].index \in 0 .. MaxIndex /\ r[q].bits # {}
      BY ListFacts
    <3>2. Row(r, r[q].index) = r[q].bits
      BY ONLY IsList(r), <1>1, q \in 1 .. Len(r), RowMeans DEF Row
    <3> QED
      BY <1>1, <3>1, <3>2
  <2>3. \A q \in 1 .. Len(r) : (q < 1 => r[q].index < i) /\ (q >= 1 => r[q].index > i)
    BY <1>1, <2>2
  <2> HIDE DEF s
  <2>4. IsList(s) /\ Row(s, i) = B /\ \A j : j # i => Row(s, j) = Row(r, j)
    BY <1>1, <1>3, <2>1, <2>3, NewElement
  <2> QED
    BY <2>4 DEF s
<1> QED
  BY <1>2, <1>3

LEMMA ThenMeans ==
  ASSUME NEW h, NEW c, NEW w
  PROVE  /\ Then(h, c, w).elems = h \o w.elems
         /\ Then(h, c, w).changed <=> c \/ w.changed
BY Zenon DEF Then, Walked

(* The rest of a list.                                                     *)
LEMMA TailMeans ==
  ASSUME NEW s, IsList(s), NEW k \in 1 .. Len(s) + 1, NEW r, r = SubSeq(s, k, Len(s))
  PROVE  IsList(r) /\ \A i : Row(r, i) = RowFrom(s, k, i)
<1>1. /\ s \in Seq(Element) /\ Len(s) \in Nat
      /\ \A q \in 1 .. Len(s) : s[q].bits # {}
      /\ \A q, v \in 1 .. Len(s) : q < v => s[q].index < s[v].index
  BY ListFacts DEF IsList
<1>2. /\ r \in Seq(Element) /\ Len(r) = Len(s) - k + 1 /\ DOMAIN r = 1 .. Len(r)
      /\ \A q \in 1 .. Len(r) : r[q] = s[q + k - 1]
  BY <1>1
<1>3. ASSUME NEW q \in 1 .. Len(r)
      PROVE  q + k - 1 \in 1 .. Len(s) /\ q + k - 1 \in k .. Len(s) /\ r[q] = s[q + k - 1]
  BY <1>1, <1>2
<1>4. ASSUME NEW q \in k .. Len(s)
      PROVE  q - k + 1 \in 1 .. Len(r) /\ r[q - k + 1] = s[q]
  <2>1. q - k + 1 \in 1 .. Len(r) /\ (q - k + 1) + k - 1 = q
    BY <1>1, <1>2
  <2> QED
    BY <1>2, <2>1
<1>5. IsList(r)
  <2>1. ASSUME NEW q \in 1 .. Len(r), NEW v \in 1 .. Len(r), q < v
        PROVE  r[q].index < r[v].index
    <3>1. q + k - 1 < v + k - 1
      BY <2>1
    <3> QED
      BY <1>1, <1>3, <3>1
  <2>2. \A q \in 1 .. Len(r) : r[q].bits # {}
    BY <1>1, <1>3
  <2> QED
    BY <1>2, <2>1, <2>2 DEF IsList, Ascending
<1>6. ASSUME NEW i
      PROVE  Row(r, i) = RowFrom(s, k, i)
  <2>1. \A b : b \in Row(r, i) <=> \E q \in 1 .. Len(r) : r[q].index = i /\ b \in r[q].bits
    BY ONLY InRow
  <2>2. \A b : b \in RowFrom(s, k, i) <=> \E q \in k .. Len(s) : s[q].index = i /\ b \in s[q].bits
    BY DEF RowFrom
  <2>3. \A b : b \in Row(r, i) <=> b \in RowFrom(s, k, i)
    <3>1. ASSUME NEW b, b \in Row(r, i)
          PROVE  b \in RowFrom(s, k, i)
      <4>1. PICK q \in 1 .. Len(r) : r[q].index = i /\ b \in r[q].bits
        BY ONLY <2>1, <3>1
      <4>2. q + k - 1 \in k .. Len(s) /\ r[q] = s[q + k - 1]
        BY <1>3
      <4> QED
        BY ONLY <2>2, <4>1, <4>2
    <3>2. ASSUME NEW b, b \in RowFrom(s, k, i)
          PROVE  b \in Row(r, i)
      <4>1. PICK q \in k .. Len(s) : s[q].index = i /\ b \in s[q].bits
        BY ONLY <2>2, <3>2
      <4>2. q - k + 1 \in 1 .. Len(r) /\ r[q - k + 1] = s[q]
        BY <1>4
      <4> QED
        BY ONLY <2>1, <4>1, <4>2
    <3> QED
      BY <3>1, <3>2
  <2> QED
    BY <2>3
<1> QED
  BY <1>5, <1>6

PairsOfSets == (SUBSET Bits) \X (SUBSET Bits)

(* The bits of the element i that the lists have from the place t on.      *)
Rows(a, b, t, i) == <<RowFrom(a, t[1], i), RowFrom(b, t[2], i)>>

LEMMA RowsIn ==
  ASSUME NEW a, IsList(a), NEW b, IsList(b), NEW t \in Places(a, b)
  PROVE  \A i : Rows(a, b, t, i) \in PairsOfSets
<1>1. t[1] \in 1 .. Len(a) + 1 /\ t[2] \in 1 .. Len(b) + 1
  BY DEF Places
<1>2. \A i : RowFrom(a, t[1], i) \in SUBSET Bits /\ RowFrom(b, t[2], i) \in SUBSET Bits
  BY <1>1, RowMeans
<1> QED
  BY <1>2 DEF Rows, PairsOfSets


(* A step of a walk, in the rows of the lists.                             *)
RowsAre(a, b, t, e) ==
  /\ e.index \in 0 .. MaxIndex
  /\ <<e.one, e.two>> = Rows(a, b, t, e.index) /\ <<e.one, e.two>> \in PairsOfSets
  /\ e.next \in Places(a, b) /\ Rank(a, b)[e.next] < Rank(a, b)[t]
  /\ Rows(a, b, e.next, e.index) = <<{}, {}>>
  /\ \A i \in 0 .. MaxIndex : i # e.index => Rows(a, b, e.next, i) = Rows(a, b, t, i)
  /\ \A i \in 0 .. MaxIndex : i < e.index => Rows(a, b, t, i) = <<{}, {}>>

LEMMA RowsAt ==
  ASSUME NEW a, IsList(a), NEW b, IsList(b), NEW t \in Places(a, b),
         ~(t[1] > Len(a) /\ t[2] > Len(b))
  PROVE  RowsAre(a, b, t, At(a, b, t))
<1>1. AtIs(a, b, t, At(a, b, t))
  BY AtMeans
<1> QED
  BY <1>1 DEF AtIs, RowsAre, Rows, PairsOfSets

(* A walk that does op to the bits of each element and reports those in    *)
(* dif: the form of the three operations on two bitmaps.                   *)
OpStep(a, b, stop, rest, op, dif, w) ==
  [t \in Places(a, b) |->
     IF t \in stop THEN rest[t]
     ELSE LET e == At(a, b, t) IN
          Then(Kept(e.index, op[<<e.one, e.two>>]), <<e.one, e.two>> \in dif, w[e.next])]

(* Where it stops, the rest is what op makes of what is left.              *)
OpWalk(a, b, stop, rest, op, dif) ==
  /\ IsList(a) /\ IsList(b)
  /\ op \in [PairsOfSets -> SUBSET Bits] /\ op[<<{}, {}>>] = {} /\ <<{}, {}>> \notin dif
  /\ \A t \in Places(a, b) : t \notin stop => ~(t[1] > Len(a) /\ t[2] > Len(b))
  /\ \A t \in Places(a, b) : t \in stop =>
       /\ IsList(rest[t].elems)
       /\ \A i \in 0 .. MaxIndex : Row(rest[t].elems, i) = op[Rows(a, b, t, i)]
       /\ rest[t].changed <=> \E i \in 0 .. MaxIndex : Rows(a, b, t, i) \in dif

LEMMA OpStepAt ==
  ASSUME NEW a, NEW b, NEW stop, NEW rest, NEW op, NEW dif, NEW w, NEW t \in Places(a, b)
  PROVE  /\ t \in stop => OpStep(a, b, stop, rest, op, dif, w)[t] = rest[t]
         /\ t \notin stop => OpStep(a, b, stop, rest, op, dif, w)[t]
               = Then(Kept(At(a, b, t).index, op[<<At(a, b, t).one, At(a, b, t).two>>]),
                      <<At(a, b, t).one, At(a, b, t).two>> \in dif, w[At(a, b, t).next])
BY DEF OpStep

LEMMA OpStepIs ==
  ASSUME NEW a, NEW b, NEW stop, NEW rest, NEW op, NEW dif, NEW w
  PROVE  OpStep(a, b, stop, rest, op, dif, w)
           = [t \in Places(a, b) |-> OpStep(a, b, stop, rest, op, dif, w)[t]]
BY DEF OpStep

(* There is such a walk, as every step goes on to a place of lower rank.   *)
LEMMA WalkExists ==
  ASSUME NEW a, NEW b, NEW stop, NEW rest, NEW op, NEW dif, OpWalk(a, b, stop, rest, op, dif)
  PROVE  \E w : w = OpStep(a, b, stop, rest, op, dif, w)
<1> DEFINE D == Places(a, b)
           N == Len(a) + Len(b)
           rank == Rank(a, b)
           Step(w) == OpStep(a, b, stop, rest, op, dif, w)
           Upto(k) == \E w : \A t \in D : rank[t] <= k => w[t] = Step(w)[t]
           B == {k \in 0 .. N : ~Upto(k)}
<1>1. N \in Nat /\ rank \in [D -> 0 .. N] /\ IsList(a) /\ IsList(b)
  BY RankIn DEF OpWalk
<1>2. ASSUME NEW t \in D, t \notin stop
      PROVE  At(a, b, t).next \in D /\ rank[At(a, b, t).next] < rank[t]
  <2>1. ~(t[1] > Len(a) /\ t[2] > Len(b))
    BY <1>2 DEF OpWalk
  <2> QED
    <3>1. RowsAre(a, b, t, At(a, b, t))
      BY <1>1, <2>1, RowsAt
    <3> QED
      BY <3>1 DEF RowsAre
<1>3. ASSUME NEW v, NEW w, NEW t \in D, t \in stop \/ v[At(a, b, t).next] = w[At(a, b, t).next]
      PROVE  Step(v)[t] = Step(w)[t]
  <2>1. CASE t \in stop
    <3>1. \A u : OpStep(a, b, stop, rest, op, dif, u)[t] = rest[t]
      BY <2>1 DEF OpStep
    <3> QED
      BY <3>1
  <2>2. CASE t \notin stop
    <3>1. v[At(a, b, t).next] = w[At(a, b, t).next]
      BY <1>3, <2>2
    <3>2. \A u : Step(u)[t]
               = Then(Kept(At(a, b, t).index, op[<<At(a, b, t).one, At(a, b, t).two>>]),
                      <<At(a, b, t).one, At(a, b, t).two>> \in dif, u[At(a, b, t).next])
      BY <2>2, OpStepAt
    <3> QED
      BY <3>1, <3>2, Zenon
  <2> QED
    BY <2>1, <2>2
<1> HIDE DEF D, N, rank, Step
<1>4. ASSUME NEW k \in 0 .. N, k = 0 \/ Upto(k - 1)
      PROVE  Upto(k)
  <2>1. PICK w : \A t \in D : rank[t] < k => w[t] = Step(w)[t]
    <3>1. CASE k = 0
      BY <1>1, <3>1
    <3>2. CASE Upto(k - 1)
      <4>1. PICK w : \A t \in D : rank[t] <= k - 1 => w[t] = Step(w)[t]
        BY <3>2
      <4>2. \A t \in D : rank[t] < k => rank[t] <= k - 1
        BY <1>1
      <4> QED
        BY ONLY <4>1, <4>2
    <3> QED
      BY <1>4, <3>1, <3>2
  <2> DEFINE v == Step(w)
  <2>2. ASSUME NEW t \in D, rank[t] <= k
        PROVE  v[t] = Step(v)[t]
    <3>1. CASE t \in stop
      BY <1>3, <3>1
    <3>2. CASE t \notin stop
      <4>1. At(a, b, t).next \in D /\ rank[At(a, b, t).next] < k
        BY <1>1, <1>2, <2>2, <3>2
      <4>2. w[At(a, b, t).next] = v[At(a, b, t).next]
        BY <2>1, <4>1
      <4> QED
        BY <1>3, <4>2
    <3> QED
      BY <3>1, <3>2
  <2> HIDE DEF v
  <2> QED
    BY <2>2
<1>5. \A k \in 0 .. N : Upto(k)
  <2> SUFFICES ASSUME B # {} PROVE FALSE
    OBVIOUS
  <2>1. B \in SUBSET Nat
    BY <1>1
  <2>2. PICK k \in B : \A y \in B : k <= y
    <3> HIDE DEF B
    <3> QED
      BY <2>1, LeastNumber
  <2>3. k = 0 \/ Upto(k - 1)
    <3>1. k - 1 \notin B
      BY <2>1, <2>2
    <3> QED
      BY <1>1, <3>1
  <2> QED
    BY <1>4, <2>2, <2>3
<1>6. PICK w : \A t \in D : rank[t] <= N => w[t] = Step(w)[t]
  BY <1>1, <1>5
<1> DEFINE v == Step(w)
<1>7. \A t \in D : w[t] = v[t]
  BY <1>1, <1>6
<1>8. v = Step(v)
  <2>1. ASSUME NEW t \in D
        PROVE  v[t] = Step(v)[t]
    BY <1>2, <1>3, <1>7
  <2>2. v = [t \in D |-> v[t]] /\ Step(v) = [t \in D |-> Step(v)[t]]
    BY OpStepIs DEF Step, D
  <2> HIDE DEF v
  <2> QED
    BY <2>1, <2>2
<1> HIDE DEF v
<1> QED
  BY <1>8 DEF Step

(* What it makes: each row of the result is what op makes of the rows of   *)
(* the lists, and it reports a change if one is in dif.                    *)
LEMMA WalkMeans ==
  ASSUME NEW a, NEW b, NEW stop, NEW rest, NEW op, NEW dif, OpWalk(a, b, stop, rest, op, dif),
         NEW w, w = OpStep(a, b, stop, rest, op, dif, w)
  PROVE  LET v == w[<<1, 1>>] IN
         /\ IsList(v.elems)
         /\ \A i \in 0 .. MaxIndex : Row(v.elems, i) = op[<<Row(a, i), Row(b, i)>>]
         /\ v.changed <=> \E i \in 0 .. MaxIndex : <<Row(a, i), Row(b, i)>> \in dif
<1> DEFINE D == Places(a, b)
           Changes(t) == \E i \in 0 .. MaxIndex : Rows(a, b, t, i) \in dif
           Good(t) == /\ IsList(w[t].elems)
                      /\ \A i \in 0 .. MaxIndex : Row(w[t].elems, i) = op[Rows(a, b, t, i)]
                      /\ w[t].changed <=> Changes(t)
           Bad == {t \in D : ~Good(t)}
<1>1. IsList(a) /\ IsList(b) /\ Rank(a, b) \in [D -> Nat] /\ MaxIndex \in Nat
  BY RankIn, BitmapAssumption DEF OpWalk
<1>2. Bad = {}
  <2> SUFFICES ASSUME Bad # {} PROVE FALSE
    OBVIOUS
  <2>1. PICK t \in Bad : \A u \in Bad : Rank(a, b)[t] <= Rank(a, b)[u]
    <3>1. Bad \in SUBSET D
      OBVIOUS
    <3> HIDE DEF Bad, D
    <3> QED
      BY <1>1, <3>1, LeastRank
  <2>2. t \in D /\ ~Good(t)
    BY <2>1
  <2>3. CASE t \in stop
    <3>1. w[t] = rest[t]
      <4>1. OpStep(a, b, stop, rest, op, dif, w)[t] = rest[t]
        BY <2>2, <2>3 DEF OpStep
      <4> QED
        BY ONLY <4>1, w = OpStep(a, b, stop, rest, op, dif, w), Zenon
    <3>2. /\ IsList(rest[t].elems)
          /\ \A i \in 0 .. MaxIndex : Row(rest[t].elems, i) = op[Rows(a, b, t, i)]
          /\ rest[t].changed <=> Changes(t)
      BY <2>2, <2>3 DEF OpWalk
    <3>3. Good(t)
      BY ONLY <3>1, <3>2
    <3> QED
      BY <2>2, <3>3
  <2>4. CASE t \notin stop
    <3> DEFINE e == At(a, b, t)
               B == op[<<e.one, e.two>>]
               h == Kept(e.index, B)
               r == w[e.next].elems
    <3>1. w[t] = Then(h, <<e.one, e.two>> \in dif, w[e.next])
      <4>1. OpStep(a, b, stop, rest, op, dif, w)[t] = Then(h, <<e.one, e.two>> \in dif, w[e.next])
        BY <2>2, <2>4 DEF OpStep
      <4> QED
        BY ONLY <4>1, w = OpStep(a, b, stop, rest, op, dif, w), Zenon
    <3>2. /\ e.index \in 0 .. MaxIndex
          /\ <<e.one, e.two>> = Rows(a, b, t, e.index) /\ <<e.one, e.two>> \in PairsOfSets
          /\ e.next \in D /\ Rank(a, b)[e.next] < Rank(a, b)[t]
          /\ Rows(a, b, e.next, e.index) = <<{}, {}>>
          /\ \A i \in 0 .. MaxIndex : i # e.index => Rows(a, b, e.next, i) = Rows(a, b, t, i)
          /\ \A i \in 0 .. MaxIndex : i < e.index => Rows(a, b, t, i) = <<{}, {}>>
      <4>1. ~(t[1] > Len(a) /\ t[2] > Len(b))
        BY <2>2, <2>4 DEF OpWalk
      <4>2. RowsAre(a, b, t, e)
        BY <1>1, <2>2, <4>1, RowsAt
      <4> HIDE DEF e
      <4> QED
        BY <4>2 DEF RowsAre
    <3>3. op \in [PairsOfSets -> SUBSET Bits] /\ op[<<{}, {}>>] = {} /\ <<{}, {}>> \notin dif
      BY DEF OpWalk
    <3> HIDE DEF e
    <3>4. Good(e.next)
      <4>1. Rank(a, b)[e.next] \in Nat /\ Rank(a, b)[t] \in Nat
        BY <1>1, <2>2, <3>2
      <4>2. e.next \notin Bad
        BY <2>1, <3>2, <4>1
      <4> QED
        BY <3>2, <4>2
    <3>5. IsList(r) /\ \A i \in 0 .. MaxIndex : Row(r, i) = op[Rows(a, b, e.next, i)]
      BY <3>4
    <3>6. w[e.next].changed <=> Changes(e.next)
      BY <3>4
    <3>7. B \in SUBSET Bits /\ B = op[Rows(a, b, t, e.index)]
      BY <3>2, <3>3
    <3> HIDE DEF r, B, Good
    <3>8. /\ IsList(h \o r) /\ Row(h \o r, e.index) = B
          /\ \A j : j # e.index => Row(h \o r, j) = Row(r, j)
      <4>1. ASSUME NEW j \in 0 .. MaxIndex, j <= e.index
            PROVE  Row(r, j) = {}
        <5>1. Rows(a, b, e.next, j) = <<{}, {}>>
          <6>1. j = e.index \/ (j < e.index /\ j # e.index)
            BY <1>1, <3>2, <4>1
          <6> QED
            BY <3>2, <6>1
        <5> QED
          BY <3>3, <3>5, <5>1
      <4> QED
        BY ONLY <3>2, <3>5, <3>7, <4>1, KeptMeans
    <3>9. ASSUME NEW i \in 0 .. MaxIndex
          PROVE  Row(h \o r, i) = op[Rows(a, b, t, i)]
      <4>1. CASE i = e.index
        BY <3>7, <3>8, <4>1
      <4>2. CASE i # e.index
        BY <3>2, <3>5, <3>8, <4>2
      <4> QED
        BY <4>1, <4>2
    <3>10. Changes(t) <=> <<e.one, e.two>> \in dif \/ Changes(e.next)
      BY <3>2, <3>3
    <3> HIDE DEF h, Changes
    <3>11. w[t].elems = h \o r
      BY <3>1, ThenMeans, SMTT(30) DEF r
    <3>12. w[t].changed <=> <<e.one, e.two>> \in dif \/ w[e.next].changed
      <4>1. Then(h, <<e.one, e.two>> \in dif, w[e.next]).changed <=> <<e.one, e.two>> \in dif \/ w[e.next].changed
        BY Zenon DEF Then, Walked
      <4> QED
        BY <3>1, <4>1, Zenon
    <3>13. w[t].changed <=> Changes(t)
      BY <3>6, <3>10, <3>12, Zenon
    <3>14. Good(t)
      BY <3>8, <3>9, <3>11, <3>13 DEF Good
    <3> QED
      BY <2>2, <3>14
  <2> QED
    BY <2>3, <2>4
<1>3. <<1, 1>> \in D /\ \A i : Rows(a, b, <<1, 1>>, i) = <<Row(a, i), Row(b, i)>>
  BY <1>1, RankIn DEF Rows, Row
<1>4. Good(<<1, 1>>)
  BY <1>2, <1>3
<1> QED
  BY <1>3, <1>4

LEMMA RowEnd ==
  ASSUME NEW s, IsList(s), NEW p \in 1 .. Len(s) + 1, p > Len(s)
  PROVE  \A i : RowFrom(s, p, i) = {}
<1>1. Len(s) \in Nat
  BY ListFacts
<1>2. \A q \in p .. Len(s) : FALSE
  BY <1>1
<1> QED
  BY <1>1, <1>2, RowMeans

(* From rows to bits.                                                      *)
LEMMA RowsToBits ==
  ASSUME NEW a, IsList(a), NEW b, IsList(b), NEW i \in 0 .. MaxIndex, NEW x \in Bits
  PROVE  /\ x \in Row(a, i) <=> i * ElementSize + x \in BitsOf(a)
         /\ x \in Row(b, i) <=> i * ElementSize + x \in BitsOf(b)
<1>1. i \in Nat
  BY BitmapAssumption
<1> QED
  BY <1>1, BitsOfRows

LEMMA RowPairs ==
  ASSUME NEW a, IsList(a), NEW b, IsList(b)
  PROVE  /\ \A i : <<Row(a, i), Row(b, i)>> \in PairsOfSets
         /\ (\E i \in 0 .. MaxIndex : ~(Row(b, i) \subseteq Row(a, i))) <=> ~(BitsOf(b) \subseteq BitsOf(a))
         /\ (\E i \in 0 .. MaxIndex : Row(a, i) \cap Row(b, i) # {}) <=> BitsOf(a) \cap BitsOf(b) # {}
<1>1. \A i : Row(a, i) \in SUBSET Bits /\ Row(b, i) \in SUBSET Bits
  BY ListFacts, RowMeans DEF Row
<1>2. \A i : <<Row(a, i), Row(b, i)>> \in PairsOfSets
  BY <1>1 DEF PairsOfSets
<1>3. ASSUME NEW x \in BitsOf(a) \cup BitsOf(b)
      PROVE  \E i \in 0 .. MaxIndex, y \in Bits : x = i * ElementSize + y
  <2>1. x \in Nat /\ x \div ElementSize \in 0 .. MaxIndex
    BY BitsOfRows
  <2>2. x % ElementSize \in Bits /\ x = (x \div ElementSize) * ElementSize + (x % ElementSize)
    BY <2>1, SizePositive, DivMod DEF Bits
  <2> QED
    BY <2>1, <2>2
<1>4. \A i \in 0 .. MaxIndex, y \in Bits : /\ y \in Row(a, i) <=> i * ElementSize + y \in BitsOf(a)
                                           /\ y \in Row(b, i) <=> i * ElementSize + y \in BitsOf(b)
  BY RowsToBits
<1>5. (\E i \in 0 .. MaxIndex : ~(Row(b, i) \subseteq Row(a, i))) <=> ~(BitsOf(b) \subseteq BitsOf(a))
  <2>1. ASSUME NEW i \in 0 .. MaxIndex, ~(Row(b, i) \subseteq Row(a, i))
        PROVE  ~(BitsOf(b) \subseteq BitsOf(a))
    <3>1. PICK y \in Row(b, i) : y \notin Row(a, i)
      BY <2>1
    <3>2. y \in Bits
      BY <1>1
    <3> QED
      BY <1>4, <3>1, <3>2
  <2>2. ASSUME ~(BitsOf(b) \subseteq BitsOf(a))
        PROVE  \E i \in 0 .. MaxIndex : ~(Row(b, i) \subseteq Row(a, i))
    <3>1. PICK x \in BitsOf(b) : x \notin BitsOf(a)
      BY <2>2
    <3>2. PICK i \in 0 .. MaxIndex, y \in Bits : x = i * ElementSize + y
      BY <1>3
    <3>3. y \in Row(b, i) /\ y \notin Row(a, i)
      BY <1>4, <3>1, <3>2
    <3> QED
      BY <3>3
  <2> QED
    BY <2>1, <2>2
<1>6. (\E i \in 0 .. MaxIndex : Row(a, i) \cap Row(b, i) # {}) <=> BitsOf(a) \cap BitsOf(b) # {}
  <2>1. ASSUME NEW i \in 0 .. MaxIndex, NEW y \in Row(a, i) \cap Row(b, i)
        PROVE  BitsOf(a) \cap BitsOf(b) # {}
    <3>1. y \in Bits
      BY <1>1
    <3> QED
      BY <1>4, <3>1
  <2>2. ASSUME NEW x \in BitsOf(a) \cap BitsOf(b)
        PROVE  \E i \in 0 .. MaxIndex : Row(a, i) \cap Row(b, i) # {}
    <3>1. PICK i \in 0 .. MaxIndex, y \in Bits : x = i * ElementSize + y
      BY <1>3
    <3>2. y \in Row(b, i) /\ y \in Row(a, i)
      BY <1>4, <3>1
    <3> QED
      BY <3>2
  <2> QED
    BY <2>1, <2>2
<1> QED
  BY <1>2, <1>5, <1>6

LEMMA WalkedMeans ==
  ASSUME NEW s
  PROVE  Walked(s, FALSE).elems = s /\ (Walked(s, FALSE).changed <=> FALSE)
BY Zenon DEF Walked

LEMMA OrMeans ==
  ASSUME NEW a, IsList(a), NEW b, IsList(b)
  PROVE  /\ IsList(Or(a, b).elems) /\ BitsOf(Or(a, b).elems) = BitsOf(a) \cup BitsOf(b)
         /\ Or(a, b).changed <=> ~(BitsOf(b) \subseteq BitsOf(a))
<1> DEFINE D    == Places(a, b)
           stop == {t \in D : t[2] > Len(b)}
           rest == [t \in D |-> Walked(SubSeq(a, t[1], Len(a)), FALSE)]
           op   == [p \in PairsOfSets |-> p[1] \cup p[2]]
           dif  == {p \in PairsOfSets : ~(p[2] \subseteq p[1])}
           Body(w) == [t \in D |->
             IF t[2] > Len(b) THEN Walked(SubSeq(a, t[1], Len(a)), FALSE)
             ELSE LET e == At(a, b, t) IN
                  Then(Kept(e.index, e.one \cup e.two), ~(e.two \subseteq e.one), w[e.next])]
           W == CHOOSE w : w = Body(w)
<1>1. /\ op \in [PairsOfSets -> SUBSET Bits]
      /\ \A p, q : <<p, q>> \in PairsOfSets => /\ op[<<p, q>>] = p \cup q
                                               /\ <<p, q>> \in dif <=> ~(q \subseteq p)
      /\ <<{}, {}>> \in PairsOfSets
  BY DEF PairsOfSets
<1>2. \A t \in D : /\ t[1] \in 1 .. Len(a) + 1 /\ t[2] \in 1 .. Len(b) + 1
                   /\ \A i : Rows(a, b, t, i) \in PairsOfSets
  BY RankIn, RowsIn
<1>3. OpWalk(a, b, stop, rest, op, dif)
  <2> HIDE DEF op, dif
  <2>1. ASSUME NEW t \in D, t \in stop
        PROVE  /\ IsList(rest[t].elems)
               /\ \A i \in 0 .. MaxIndex : Row(rest[t].elems, i) = op[Rows(a, b, t, i)]
               /\ rest[t].changed <=> \E i \in 0 .. MaxIndex : Rows(a, b, t, i) \in dif
    <3> DEFINE s == SubSeq(a, t[1], Len(a))
    <3>1. IsList(s) /\ \A i : Row(s, i) = RowFrom(a, t[1], i)
      BY <1>2, TailMeans
    <3>2. rest[t].elems = s /\ (rest[t].changed <=> FALSE)
      BY WalkedMeans, Zenon
    <3>3. \A i \in 0 .. MaxIndex : RowFrom(b, t[2], i) = {}
      <4>1. t[2] > Len(b)
        BY <2>1
      <4> QED
        BY <1>2, <4>1, RowEnd
    <3>4. ASSUME NEW i \in 0 .. MaxIndex
          PROVE  op[Rows(a, b, t, i)] = RowFrom(a, t[1], i) /\ Rows(a, b, t, i) \notin dif
      <4>1. Rows(a, b, t, i) = <<RowFrom(a, t[1], i), {}>> /\ Rows(a, b, t, i) \in PairsOfSets
        BY <1>2, <3>3 DEF Rows
      <4> QED
        BY <1>1, <4>1, SMTT(30)
    <3> HIDE DEF s, rest
    <3> QED
      BY <3>1, <3>2, <3>4, Zenon
  <2>2. \A t \in D : t \notin stop => ~(t[1] > Len(a) /\ t[2] > Len(b))
    OBVIOUS
  <2>3. op[<<{}, {}>>] = {} /\ <<{}, {}>> \notin dif
    BY <1>1
  <2> HIDE DEF stop, rest
  <2> QED
    BY <1>1, <2>1, <2>2, <2>3 DEF OpWalk
<1>4. ASSUME NEW w
      PROVE  OpStep(a, b, stop, rest, op, dif, w) = Body(w)
  <2>1. ASSUME NEW t \in D
        PROVE  OpStep(a, b, stop, rest, op, dif, w)[t] = Body(w)[t]
    <3>1. CASE t[2] > Len(b)
      <4>1. OpStep(a, b, stop, rest, op, dif, w)[t] = rest[t]
        <5>1. t \in stop
          BY <3>1
        <5> HIDE DEF stop, rest
        <5> QED
          BY <5>1 DEF OpStep
      <4> QED
        BY <3>1, <4>1
    <3>2. CASE ~(t[2] > Len(b))
      <4> DEFINE e == At(a, b, t)
      <4>1. OpStep(a, b, stop, rest, op, dif, w)[t]
              = Then(Kept(e.index, op[<<e.one, e.two>>]), <<e.one, e.two>> \in dif, w[e.next])
        <5>1. t \notin stop
          BY <3>2
        <5> HIDE DEF stop, rest, op, dif
        <5> QED
          BY <5>1 DEF OpStep
      <4>2. Body(w)[t] = Then(Kept(e.index, e.one \cup e.two), ~(e.two \subseteq e.one), w[e.next])
        BY <3>2
      <4>3. <<e.one, e.two>> \in PairsOfSets
        BY <3>2, RowsAt DEF RowsAre
      <4> HIDE DEF e, op, dif
      <4>4. op[<<e.one, e.two>>] = e.one \cup e.two /\ (<<e.one, e.two>> \in dif <=> ~(e.two \subseteq e.one))
        BY <1>1, <4>3
      <4>5. (<<e.one, e.two>> \in dif) = ~(e.two \subseteq e.one)
        BY <4>4
      <4> QED
        BY <4>1, <4>2, <4>4, <4>5, Zenon
    <3> QED
      BY <3>1, <3>2
  <2> HIDE DEF stop, rest, op, dif
  <2>2. OpStep(a, b, stop, rest, op, dif, w) = [t \in D |-> OpStep(a, b, stop, rest, op, dif, w)[t]]
    BY OpStepIs
  <2>3. Body(w) = [t \in D |-> Body(w)[t]]
    OBVIOUS
  <2> HIDE DEF Body
  <2> QED
    BY <2>1, <2>2, <2>3, Zenon
<1>5. Or(a, b) = W[<<1, 1>>]
  BY Zenon DEF Or
<1> HIDE DEF stop, rest, op, dif, Body
<1>6. W = OpStep(a, b, stop, rest, op, dif, W)
  <2>1. \E w : w = Body(w)
    BY <1>3, <1>4, WalkExists
  <2>2. W = Body(W)
    BY ONLY <2>1, Zenon
  <2> QED
    BY <1>4, <2>2
<1> HIDE DEF W
<1>7. LET v == W[<<1, 1>>] IN
      /\ IsList(v.elems)
      /\ \A i \in 0 .. MaxIndex : Row(v.elems, i) = op[<<Row(a, i), Row(b, i)>>]
      /\ v.changed <=> \E i \in 0 .. MaxIndex : <<Row(a, i), Row(b, i)>> \in dif
  BY <1>3, <1>6, WalkMeans
<1> DEFINE r == Or(a, b).elems
<1>8. IsList(r) /\ \A i \in 0 .. MaxIndex : Row(r, i) = Row(a, i) \cup Row(b, i)
  BY <1>1, <1>5, <1>7, RowPairs
<1>9. Or(a, b).changed <=> \E i \in 0 .. MaxIndex : ~(Row(b, i) \subseteq Row(a, i))
  <2>1. \A i : <<Row(a, i), Row(b, i)>> \in dif <=> ~(Row(b, i) \subseteq Row(a, i))
    BY <1>1, RowPairs
  <2> QED
    BY <1>5, <1>7, <2>1, Zenon
<1> HIDE DEF r
<1>10. BitsOf(r) = BitsOf(a) \cup BitsOf(b)
  <2>1. \A x \in BitsOf(a) \cup BitsOf(b) : x \in Nat /\ x \div ElementSize \in 0 .. MaxIndex
    BY BitsOfRows
  <2>2. \A i \in 0 .. MaxIndex : \A x \in Bits :
           x \in Row(r, i) <=> i * ElementSize + x \in BitsOf(a) \cup BitsOf(b)
    BY <1>8, RowsToBits
  <2> QED
    BY <1>8, <2>1, <2>2, RowsGiveBits
<1> QED
  BY <1>8, <1>9, <1>10, RowPairs DEF r

LEMMA EmptyList == IsList(<<>>) /\ BitsOf(<<>>) = {} /\ \A i : Row(<<>>, i) = {}
<1>1. <<>> \in Seq(Element) /\ Len(<<>>) = 0 /\ DOMAIN <<>> = {}
  OBVIOUS
<1>2. IsList(<<>>) /\ BitsOf(<<>>) = {}
  BY <1>1 DEF IsList, Ascending, BitsOf
<1>3. \A q \in 1 .. Len(<<>>) : FALSE
  BY <1>1
<1> QED
  BY <1>2, <1>3 DEF Row, RowFrom

LEMMA AndMeans ==
  ASSUME NEW a, IsList(a), NEW b, IsList(b)
  PROVE  /\ IsList(And(a, b).elems) /\ BitsOf(And(a, b).elems) = BitsOf(a) \cap BitsOf(b)
<1> DEFINE D    == Places(a, b)
           stop == {t \in D : t[1] > Len(a) \/ t[2] > Len(b)}
           rest == [t \in D |-> Walked(<<>>, FALSE)]
           op   == [p \in PairsOfSets |-> p[1] \cap p[2]]
           dif  == {p \in PairsOfSets : p[2] # {} /\ ~(p[1] \subseteq p[2])}
           Body(w) == [t \in D |->
             IF t[1] > Len(a) \/ t[2] > Len(b)
               THEN Walked(<<>>, FALSE)
             ELSE LET e == At(a, b, t) IN
                  Then(Kept(e.index, e.one \cap e.two), (e.two # {} /\ ~(e.one \subseteq e.two)), w[e.next])]
           W == CHOOSE w : w = Body(w)
<1>1. /\ op \in [PairsOfSets -> SUBSET Bits]
      /\ \A p, q : <<p, q>> \in PairsOfSets => /\ op[<<p, q>>] = p \cap q
                                               /\ <<p, q>> \in dif <=> (q # {} /\ ~(p \subseteq q))
      /\ <<{}, {}>> \in PairsOfSets
  BY DEF PairsOfSets
<1>2. \A t \in D : /\ t[1] \in 1 .. Len(a) + 1 /\ t[2] \in 1 .. Len(b) + 1
                   /\ \A i : Rows(a, b, t, i) \in PairsOfSets
  BY RankIn, RowsIn
<1>3. OpWalk(a, b, stop, rest, op, dif)
  <2> HIDE DEF op, dif
  <2>1. ASSUME NEW t \in D, t \in stop
        PROVE  /\ IsList(rest[t].elems)
               /\ \A i \in 0 .. MaxIndex : Row(rest[t].elems, i) = op[Rows(a, b, t, i)]
               /\ rest[t].changed <=> \E i \in 0 .. MaxIndex : Rows(a, b, t, i) \in dif
    <3> DEFINE s == <<>>
    <3>1. IsList(s) /\ \A i : Row(s, i) = {}
      BY EmptyList
    <3>2. rest[t].elems = s /\ (rest[t].changed <=> FALSE)
      BY WalkedMeans, Zenon
    <3>3. ASSUME NEW i \in 0 .. MaxIndex
          PROVE  RowFrom(a, t[1], i) = {} \/ RowFrom(b, t[2], i) = {}
      <4>1. t[1] > Len(a) \/ t[2] > Len(b)
        BY <2>1
      <4> QED
        BY <1>2, <4>1, RowEnd
    <3>4. ASSUME NEW i \in 0 .. MaxIndex
          PROVE  op[Rows(a, b, t, i)] = {} /\ Rows(a, b, t, i) \notin dif
      <4>1. /\ Rows(a, b, t, i) = <<RowFrom(a, t[1], i), RowFrom(b, t[2], i)>>
            /\ Rows(a, b, t, i) \in PairsOfSets
        BY <1>2 DEF Rows
      <4> QED
        BY <1>1, <3>3, <4>1
    <3> HIDE DEF s, rest
    <3> QED
      BY <3>1, <3>2, <3>4, Zenon
  <2>2. \A t \in D : t \notin stop => ~(t[1] > Len(a) /\ t[2] > Len(b))
    OBVIOUS
  <2>3. op[<<{}, {}>>] = {} /\ <<{}, {}>> \notin dif
    BY <1>1
  <2> HIDE DEF stop, rest
  <2> QED
    BY <1>1, <2>1, <2>2, <2>3 DEF OpWalk
<1>4. ASSUME NEW w
      PROVE  OpStep(a, b, stop, rest, op, dif, w) = Body(w)
  <2>1. ASSUME NEW t \in D
        PROVE  OpStep(a, b, stop, rest, op, dif, w)[t] = Body(w)[t]
    <3>1. CASE t[1] > Len(a) \/ t[2] > Len(b)
      <4>1. OpStep(a, b, stop, rest, op, dif, w)[t] = rest[t]
        <5>1. t \in stop
          BY <3>1
        <5> HIDE DEF stop, rest
        <5> QED
          BY <5>1 DEF OpStep
      <4> QED
        BY <3>1, <4>1
    <3>2. CASE ~(t[1] > Len(a) \/ t[2] > Len(b))
      <4> DEFINE e == At(a, b, t)
      <4>1. OpStep(a, b, stop, rest, op, dif, w)[t]
              = Then(Kept(e.index, op[<<e.one, e.two>>]), <<e.one, e.two>> \in dif, w[e.next])
        <5>1. t \notin stop
          BY <3>2
        <5> HIDE DEF stop, rest, op, dif
        <5> QED
          BY <5>1 DEF OpStep
      <4>2. Body(w)[t] = Then(Kept(e.index, e.one \cap e.two), (e.two # {} /\ ~(e.one \subseteq e.two)), w[e.next])
        BY <3>2
      <4>3. <<e.one, e.two>> \in PairsOfSets
        BY <3>2, RowsAt DEF RowsAre
      <4> HIDE DEF e, op, dif
      <4>4. op[<<e.one, e.two>>] = e.one \cap e.two /\ (<<e.one, e.two>> \in dif <=> (e.two # {} /\ ~(e.one \subseteq e.two)))
        BY <1>1, <4>3
      <4>5. (<<e.one, e.two>> \in dif) = (e.two # {} /\ ~(e.one \subseteq e.two))
        BY <4>4
      <4> QED
        BY <4>1, <4>2, <4>4, <4>5, Zenon
    <3> QED
      BY <3>1, <3>2
  <2> HIDE DEF stop, rest, op, dif
  <2>2. OpStep(a, b, stop, rest, op, dif, w) = [t \in D |-> OpStep(a, b, stop, rest, op, dif, w)[t]]
    BY OpStepIs
  <2>3. Body(w) = [t \in D |-> Body(w)[t]]
    OBVIOUS
  <2> HIDE DEF Body
  <2> QED
    BY <2>1, <2>2, <2>3, Zenon
<1>5. And(a, b) = W[<<1, 1>>]
  BY Zenon DEF And
<1> HIDE DEF stop, rest, op, dif, Body
<1>6. W = OpStep(a, b, stop, rest, op, dif, W)
  <2>1. \E w : w = Body(w)
    BY <1>3, <1>4, WalkExists
  <2>2. W = Body(W)
    BY ONLY <2>1, Zenon
  <2> QED
    BY <1>4, <2>2
<1> HIDE DEF W
<1>7. LET v == W[<<1, 1>>] IN
      /\ IsList(v.elems)
      /\ \A i \in 0 .. MaxIndex : Row(v.elems, i) = op[<<Row(a, i), Row(b, i)>>]
      /\ v.changed <=> \E i \in 0 .. MaxIndex : <<Row(a, i), Row(b, i)>> \in dif
  BY <1>3, <1>6, WalkMeans
<1> DEFINE r == And(a, b).elems
<1>8. IsList(r) /\ \A i \in 0 .. MaxIndex : Row(r, i) = Row(a, i) \cap Row(b, i)
  BY <1>1, <1>5, <1>7, RowPairs
<1> HIDE DEF r
<1>9. BitsOf(r) = BitsOf(a) \cap BitsOf(b)
  <2>1. \A x \in BitsOf(a) \cap BitsOf(b) : x \in Nat /\ x \div ElementSize \in 0 .. MaxIndex
    BY BitsOfRows
  <2>2. \A i \in 0 .. MaxIndex : \A x \in Bits :
           x \in Row(r, i) <=> i * ElementSize + x \in BitsOf(a) \cap BitsOf(b)
    BY <1>8, RowsToBits
  <2> QED
    BY <1>8, <2>1, <2>2, RowsGiveBits
<1> QED
  BY <1>8, <1>9 DEF r

LEMMA AndNotMeans ==
  ASSUME NEW a, IsList(a), NEW b, IsList(b)
  PROVE  /\ IsList(AndNot(a, b).elems) /\ BitsOf(AndNot(a, b).elems) = BitsOf(a) \ BitsOf(b)
         /\ AndNot(a, b).changed <=> BitsOf(a) \cap BitsOf(b) # {}
<1> DEFINE D    == Places(a, b)
           stop == {t \in D : t[1] > Len(a) \/ t[2] > Len(b)}
           rest == [t \in D |-> Walked(SubSeq(a, t[1], Len(a)), FALSE)]
           op   == [p \in PairsOfSets |-> p[1] \ p[2]]
           dif  == {p \in PairsOfSets : p[1] \cap p[2] # {}}
           Body(w) == [t \in D |->
             IF t[1] > Len(a) \/ t[2] > Len(b)
               THEN Walked(SubSeq(a, t[1], Len(a)), FALSE)
             ELSE LET e == At(a, b, t) IN
                  Then(Kept(e.index, e.one \ e.two), e.one \cap e.two # {}, w[e.next])]
           W == CHOOSE w : w = Body(w)
<1>1. /\ op \in [PairsOfSets -> SUBSET Bits]
      /\ \A p, q : <<p, q>> \in PairsOfSets => /\ op[<<p, q>>] = p \ q
                                               /\ <<p, q>> \in dif <=> p \cap q # {}
      /\ <<{}, {}>> \in PairsOfSets
  BY DEF PairsOfSets
<1>2. \A t \in D : /\ t[1] \in 1 .. Len(a) + 1 /\ t[2] \in 1 .. Len(b) + 1
                   /\ \A i : Rows(a, b, t, i) \in PairsOfSets
  BY RankIn, RowsIn
<1>3. OpWalk(a, b, stop, rest, op, dif)
  <2> HIDE DEF op, dif
  <2>1. ASSUME NEW t \in D, t \in stop
        PROVE  /\ IsList(rest[t].elems)
               /\ \A i \in 0 .. MaxIndex : Row(rest[t].elems, i) = op[Rows(a, b, t, i)]
               /\ rest[t].changed <=> \E i \in 0 .. MaxIndex : Rows(a, b, t, i) \in dif
    <3> DEFINE s == SubSeq(a, t[1], Len(a))
    <3>1. IsList(s) /\ \A i : Row(s, i) = RowFrom(a, t[1], i)
      BY <1>2, TailMeans
    <3>2. rest[t].elems = s /\ (rest[t].changed <=> FALSE)
      BY WalkedMeans, Zenon
    <3>3. ASSUME NEW i \in 0 .. MaxIndex
          PROVE  RowFrom(a, t[1], i) = {} \/ RowFrom(b, t[2], i) = {}
      <4>1. t[1] > Len(a) \/ t[2] > Len(b)
        BY <2>1
      <4> QED
        BY <1>2, <4>1, RowEnd
    <3>4. ASSUME NEW i \in 0 .. MaxIndex
          PROVE  op[Rows(a, b, t, i)] = RowFrom(a, t[1], i) /\ Rows(a, b, t, i) \notin dif
      <4>1. /\ Rows(a, b, t, i) = <<RowFrom(a, t[1], i), RowFrom(b, t[2], i)>>
            /\ Rows(a, b, t, i) \in PairsOfSets
        BY <1>2 DEF Rows
      <4> QED
        BY <1>1, <3>3, <4>1
    <3> HIDE DEF s, rest
    <3> QED
      BY <3>1, <3>2, <3>4, Zenon
  <2>2. \A t \in D : t \notin stop => ~(t[1] > Len(a) /\ t[2] > Len(b))
    OBVIOUS
  <2>3. op[<<{}, {}>>] = {} /\ <<{}, {}>> \notin dif
    BY <1>1
  <2> HIDE DEF stop, rest
  <2> QED
    BY <1>1, <2>1, <2>2, <2>3 DEF OpWalk
<1>4. ASSUME NEW w
      PROVE  OpStep(a, b, stop, rest, op, dif, w) = Body(w)
  <2>1. ASSUME NEW t \in D
        PROVE  OpStep(a, b, stop, rest, op, dif, w)[t] = Body(w)[t]
    <3>1. CASE t[1] > Len(a) \/ t[2] > Len(b)
      <4>1. OpStep(a, b, stop, rest, op, dif, w)[t] = rest[t]
        <5>1. t \in stop
          BY <3>1
        <5> HIDE DEF stop, rest
        <5> QED
          BY <5>1 DEF OpStep
      <4> QED
        BY <3>1, <4>1
    <3>2. CASE ~(t[1] > Len(a) \/ t[2] > Len(b))
      <4> DEFINE e == At(a, b, t)
      <4>1. OpStep(a, b, stop, rest, op, dif, w)[t]
              = Then(Kept(e.index, op[<<e.one, e.two>>]), <<e.one, e.two>> \in dif, w[e.next])
        <5>1. t \notin stop
          BY <3>2
        <5> HIDE DEF stop, rest, op, dif
        <5> QED
          BY <5>1 DEF OpStep
      <4>2. Body(w)[t] = Then(Kept(e.index, e.one \ e.two), e.one \cap e.two # {}, w[e.next])
        BY <3>2
      <4>3. <<e.one, e.two>> \in PairsOfSets
        BY <3>2, RowsAt DEF RowsAre
      <4> HIDE DEF e, op, dif
      <4>4. op[<<e.one, e.two>>] = e.one \ e.two /\ (<<e.one, e.two>> \in dif <=> e.one \cap e.two # {})
        BY <1>1, <4>3
      <4>5. (<<e.one, e.two>> \in dif) = (e.one \cap e.two # {})
        BY <4>4
      <4> QED
        BY <4>1, <4>2, <4>4, <4>5, Zenon
    <3> QED
      BY <3>1, <3>2
  <2> HIDE DEF stop, rest, op, dif
  <2>2. OpStep(a, b, stop, rest, op, dif, w) = [t \in D |-> OpStep(a, b, stop, rest, op, dif, w)[t]]
    BY OpStepIs
  <2>3. Body(w) = [t \in D |-> Body(w)[t]]
    OBVIOUS
  <2> HIDE DEF Body
  <2> QED
    BY <2>1, <2>2, <2>3, Zenon
<1>5. AndNot(a, b) = W[<<1, 1>>]
  BY Zenon DEF AndNot
<1> HIDE DEF stop, rest, op, dif, Body
<1>6. W = OpStep(a, b, stop, rest, op, dif, W)
  <2>1. \E w : w = Body(w)
    BY <1>3, <1>4, WalkExists
  <2>2. W = Body(W)
    BY ONLY <2>1, Zenon
  <2> QED
    BY <1>4, <2>2
<1> HIDE DEF W
<1>7. LET v == W[<<1, 1>>] IN
      /\ IsList(v.elems)
      /\ \A i \in 0 .. MaxIndex : Row(v.elems, i) = op[<<Row(a, i), Row(b, i)>>]
      /\ v.changed <=> \E i \in 0 .. MaxIndex : <<Row(a, i), Row(b, i)>> \in dif
  BY <1>3, <1>6, WalkMeans
<1> DEFINE r == AndNot(a, b).elems
<1>8. IsList(r) /\ \A i \in 0 .. MaxIndex : Row(r, i) = Row(a, i) \ Row(b, i)
  BY <1>1, <1>5, <1>7, RowPairs
<1>9. AndNot(a, b).changed <=> \E i \in 0 .. MaxIndex : Row(a, i) \cap Row(b, i) # {}
  <2>1. \A i : <<Row(a, i), Row(b, i)>> \in dif <=> Row(a, i) \cap Row(b, i) # {}
    BY <1>1, RowPairs
  <2> QED
    BY <1>5, <1>7, <2>1, Zenon
<1> HIDE DEF r
<1>10. BitsOf(r) = BitsOf(a) \ BitsOf(b)
  <2>1. \A x \in BitsOf(a) \ BitsOf(b) : x \in Nat /\ x \div ElementSize \in 0 .. MaxIndex
    BY BitsOfRows
  <2>2. \A i \in 0 .. MaxIndex : \A x \in Bits :
           x \in Row(r, i) <=> i * ElementSize + x \in BitsOf(a) \ BitsOf(b)
    BY <1>8, RowsToBits
  <2> QED
    BY <1>8, <2>1, <2>2, RowsGiveBits
<1> QED
  BY <1>8, <1>9, <1>10, RowPairs DEF r

-----------------------------------------------------------------------------
(* Queries *)

LEMMA IntersectsMeans ==
  ASSUME NEW a, IsList(a), NEW b, IsList(b)
  PROVE  Intersects(a, b) <=> BitsOf(a) \cap BitsOf(b) # {}
<1> DEFINE D == Places(a, b)
           Meet(t) == \E i \in 0 .. MaxIndex : RowFrom(a, t[1], i) \cap RowFrom(b, t[2], i) # {}
           Here(t) == At(a, b, t).one \cap At(a, b, t).two # {}
           Body(m) == [t \in D |->
             /\ t[1] <= Len(a) /\ t[2] <= Len(b)
             /\ LET e == At(a, b, t) IN e.one \cap e.two # {} \/ m[e.next]]
           M0 == [t \in D |-> Meet(t)]
           W  == CHOOSE m : m = Body(m)
<1>1. Len(a) \in Nat /\ Len(b) \in Nat /\ Rank(a, b) \in [D -> Nat] /\ <<1, 1>> \in D
  BY ListFacts, RankIn
<1>2. ASSUME NEW t \in D
      PROVE  /\ Meet(t) <=> t[1] <= Len(a) /\ t[2] <= Len(b) /\ (Here(t) \/ Meet(At(a, b, t).next))
             /\ t[1] <= Len(a) /\ t[2] <= Len(b) =>
                  At(a, b, t).next \in D /\ Rank(a, b)[At(a, b, t).next] < Rank(a, b)[t]
  <2>1. t[1] \in 1 .. Len(a) + 1 /\ t[2] \in 1 .. Len(b) + 1
    BY RankIn
  <2>2. CASE t[1] <= Len(a) /\ t[2] <= Len(b)
    <3> DEFINE e == At(a, b, t)
    <3>1. AtIs(a, b, t, e)
      <4>1. ~(t[1] > Len(a) /\ t[2] > Len(b))
        BY <1>1, <2>1, <2>2
      <4> QED
        BY <4>1, AtMeans
    <3> HIDE DEF e
    <3>2. Meet(t) <=> e.one \cap e.two # {} \/ Meet(e.next)
      BY <3>1 DEF AtIs
    <3> QED
      BY <2>2, <3>1, <3>2 DEF AtIs, e
  <2>3. CASE t[1] > Len(a)
    <3>1. \A i : RowFrom(a, t[1], i) = {}
      BY <2>1, <2>3, RowEnd
    <3> QED
      BY <1>1, <2>1, <2>3, <3>1
  <2>4. CASE t[2] > Len(b)
    <3>1. \A i : RowFrom(b, t[2], i) = {}
      BY <2>1, <2>4, RowEnd
    <3> QED
      BY <1>1, <2>1, <2>4, <3>1
  <2> QED
    BY <1>1, <2>1, <2>2, <2>3, <2>4
<1> HIDE DEF Meet
<1>3. M0 = Body(M0)
  <2>1. ASSUME NEW t \in D
        PROVE  Meet(t) = (/\ t[1] <= Len(a) /\ t[2] <= Len(b)
                          /\ LET e == At(a, b, t) IN e.one \cap e.two # {} \/ M0[e.next])
    <3>1. t[1] <= Len(a) /\ t[2] <= Len(b) => (M0[At(a, b, t).next] <=> Meet(At(a, b, t).next))
      BY <1>2
    <3> HIDE DEF M0
    <3>2. Meet(t) <=> /\ t[1] <= Len(a) /\ t[2] <= Len(b)
                      /\ At(a, b, t).one \cap At(a, b, t).two # {} \/ M0[At(a, b, t).next]
      BY <1>2, <3>1, Zenon
    <3> QED
      BY <3>2 DEF Meet
  <2> HIDE DEF D
  <2> QED
    BY <2>1, Zenon
<1>4. W = Body(W)
  <2>1. \E m : m = Body(m)
    BY <1>3
  <2> HIDE DEF Body
  <2> QED
    BY <2>1, Zenon
<1>5. Intersects(a, b) = W[<<1, 1>>]
  BY Zenon DEF Intersects
<1> HIDE DEF W
<1>6. ASSUME NEW t \in D
      PROVE  W[t] <=> t[1] <= Len(a) /\ t[2] <= Len(b) /\ (Here(t) \/ W[At(a, b, t).next])
  <2>1. Body(W)[t] = (/\ t[1] <= Len(a) /\ t[2] <= Len(b)
                      /\ LET e == At(a, b, t) IN e.one \cap e.two # {} \/ W[e.next])
    BY Zenon
  <2> HIDE DEF Body
  <2> QED
    BY <1>4, <2>1, Zenon
<1> DEFINE Bad == {t \in D : ~(W[t] <=> Meet(t))}
<1>7. Bad = {}
  <2> SUFFICES ASSUME Bad # {} PROVE FALSE
    OBVIOUS
  <2>1. PICK t \in Bad : \A u \in Bad : Rank(a, b)[t] <= Rank(a, b)[u]
    <3>1. Bad \in SUBSET D
      OBVIOUS
    <3> HIDE DEF Bad, D
    <3> QED
      BY <1>1, <3>1, LeastRank
  <2>2. t \in D /\ ~(W[t] <=> Meet(t))
    BY <2>1
  <2>3. t[1] <= Len(a) /\ t[2] <= Len(b)
    BY <1>2, <1>6, <2>2
  <2>4. At(a, b, t).next \in D /\ At(a, b, t).next \notin Bad
    <3>1. At(a, b, t).next \in D /\ Rank(a, b)[At(a, b, t).next] < Rank(a, b)[t]
      BY <1>2, <2>2, <2>3
    <3>2. Rank(a, b)[At(a, b, t).next] \in Nat /\ Rank(a, b)[t] \in Nat
      BY <1>1, <2>2, <3>1
    <3> QED
      BY <2>1, <3>1, <3>2
  <2>5. W[At(a, b, t).next] <=> Meet(At(a, b, t).next)
    BY <2>4
  <2> QED
    BY <1>2, <1>6, <2>2, <2>3, <2>5
<1>8. Meet(<<1, 1>>) <=> \E i \in 0 .. MaxIndex : Row(a, i) \cap Row(b, i) # {}
  BY DEF Meet, Row
<1>9. W[<<1, 1>>] <=> Meet(<<1, 1>>)
  BY <1>1, <1>7
<1> QED
  BY <1>5, <1>8, <1>9, RowPairs

LEMMA IndexLess ==
  ASSUME NEW k \in Nat \ {0}, NEW i \in Nat, NEW j \in Nat, i < j, NEW b \in 0 .. (k - 1), NEW c \in Nat
  PROVE  i * k + b < j * k + c
<1>1. PICK d \in Nat : j = i + 1 + d
  <2>1. j - i - 1 \in Nat /\ j = i + 1 + (j - i - 1)
    OBVIOUS
  <2> QED
    BY <2>1
<1>2. j * k = i * k + k + d * k
  BY <1>1
<1>3. i * k \in Nat /\ d * k \in Nat /\ j * k \in Nat
  BY <1>1
<1> QED
  BY <1>2, <1>3

LEMMA InBits ==
  ASSUME NEW s, IsList(s)
  PROVE  \A x : x \in BitsOf(s) <=> \E p \in 1 .. Len(s) : x \in BitsOfElement(s[p])
BY ListFacts DEF BitsOf

LEMMA ElementFacts ==
  ASSUME NEW s, IsList(s), NEW p \in 1 .. Len(s)
  PROVE  /\ IsFiniteSet(s[p].bits) /\ IsFiniteSet(BitsOfElement(s[p]))
         /\ Cardinality(BitsOfElement(s[p])) = Cardinality(s[p].bits)
         /\ BitsOfElement(s[p]) # {} /\ BitsOfElement(s[p]) \in SUBSET Nat
         /\ \A x \in BitsOfElement(s[p]) : /\ x \div ElementSize = s[p].index
                                           /\ x % ElementSize \in s[p].bits
<1>1. ElementSize \in Nat \ {0} /\ Bits = 0 .. (ElementSize - 1)
  BY SizePositive DEF Bits
<1>2. s[p].index \in Nat /\ s[p].bits \in SUBSET Bits /\ s[p].bits # {}
  <2>1. s[p].index \in 0 .. MaxIndex /\ s[p].bits \in SUBSET Bits /\ s[p].bits # {}
    BY ListFacts
  <2> QED
    BY <2>1, BitmapAssumption
<1> DEFINE f == [b \in s[p].bits |-> s[p].index * ElementSize + b]
           T == BitsOfElement(s[p])
<1>3. IsFiniteSet(s[p].bits)
  <2>1. IsFiniteSet(Bits)
    BY <1>1, FS_Interval
  <2> QED
    BY <1>2, <2>1, FS_Subset
<1>4. \A b \in s[p].bits : /\ s[p].index * ElementSize + b \in Nat
                           /\ (s[p].index * ElementSize + b) \div ElementSize = s[p].index
                           /\ (s[p].index * ElementSize + b) % ElementSize = b
  BY <1>1, <1>2, DivModOf
<1>5. \A x : x \in T <=> \E b \in s[p].bits : x = s[p].index * ElementSize + b
  BY DEF BitsOfElement
<1>6. f \in Bijection(s[p].bits, T)
  <2>1. f \in [s[p].bits -> T] /\ \A b \in s[p].bits : f[b] = s[p].index * ElementSize + b
    BY <1>5
  <2> HIDE DEF f, T
  <2>2. \A b, c \in s[p].bits : f[b] = f[c] => b = c
    BY <1>4, <2>1
  <2>3. \A x \in T : \E b \in s[p].bits : f[b] = x
    BY <1>5, <2>1
  <2> QED
    BY <2>1, <2>2, <2>3 DEF Bijection, Injection, Surjection, IsInjective
<1>7. ExistsBijection(s[p].bits, T)
  BY <1>6 DEF ExistsBijection
<1>8. IsFiniteSet(T) /\ Cardinality(T) = Cardinality(s[p].bits)
  BY <1>3, <1>7, FS_Bijection
<1>9. T # {} /\ T \in SUBSET Nat
  BY <1>2, <1>4, <1>5
<1>10. \A x \in T : x \div ElementSize = s[p].index /\ x % ElementSize \in s[p].bits
  BY <1>4, <1>5
<1> QED
  BY <1>3, <1>8, <1>9, <1>10

(* The bits of the first p elements.                                       *)
UpBits(s, p) == UNION {BitsOfElement(s[q]) : q \in 1 .. p}

LEMMA UpBitsStep ==
  ASSUME NEW s, IsList(s), NEW p \in 0 .. Len(s)
  PROVE  /\ IsFiniteSet(UpBits(s, p))
         /\ p = 0 => UpBits(s, p) = {}
         /\ p # 0 => Cardinality(UpBits(s, p)) = Cardinality(UpBits(s, p - 1)) + Cardinality(s[p].bits)
<1>1. Len(s) \in Nat
  BY ListFacts
<1> DEFINE B == {k \in 0 .. Len(s) : ~IsFiniteSet(UpBits(s, k))}
<1>2. UpBits(s, 0) = {} /\ IsFiniteSet(UpBits(s, 0))
  <2>1. UpBits(s, 0) = {}
    BY DEF UpBits
  <2> QED
    BY <2>1, FS_EmptySet
<1>3. ASSUME NEW k \in 1 .. Len(s)
      PROVE  UpBits(s, k) = UpBits(s, k - 1) \cup BitsOfElement(s[k])
  <2>1. 1 .. k = (1 .. (k - 1)) \cup {k}
    BY <1>1
  <2> QED
    BY <2>1 DEF UpBits
<1>4. B = {}
  <2> SUFFICES ASSUME B # {} PROVE FALSE
    OBVIOUS
  <2>1. PICK k \in B : \A y \in B : k <= y
    <3>1. B \in SUBSET Nat
      BY <1>1
    <3> HIDE DEF B
    <3> QED
      BY <3>1, LeastNumber
  <2>2. k \in 1 .. Len(s) /\ k - 1 \in 0 .. Len(s)
    BY <1>1, <1>2, <2>1
  <2>3. k - 1 \notin B
    BY <1>1, <2>1, <2>2
  <2>4. IsFiniteSet(UpBits(s, k - 1)) /\ IsFiniteSet(BitsOfElement(s[k]))
    BY <2>2, <2>3, ElementFacts
  <2>5. IsFiniteSet(UpBits(s, k - 1) \cup BitsOfElement(s[k]))
    BY ONLY <2>4, FS_Union
  <2> QED
    BY <1>3, <2>1, <2>2, <2>5
<1>5. IsFiniteSet(UpBits(s, p))
  BY <1>4
<1>6. ASSUME p # 0
      PROVE  Cardinality(UpBits(s, p)) = Cardinality(UpBits(s, p - 1)) + Cardinality(s[p].bits)
  <2> DEFINE S == UpBits(s, p - 1)
             T == BitsOfElement(s[p])
  <2>1. p \in 1 .. Len(s) /\ p - 1 \in 0 .. Len(s)
    BY <1>1, <1>6
  <2>2. /\ IsFiniteSet(S) /\ IsFiniteSet(T) /\ IsFiniteSet(s[p].bits)
        /\ Cardinality(T) = Cardinality(s[p].bits)
    BY <1>4, <2>1, ElementFacts
  <2>3. S \cap T = {}
    <3> SUFFICES ASSUME NEW x \in S, x \in T PROVE FALSE
      OBVIOUS
    <3>1. PICK q \in 1 .. (p - 1) : x \in BitsOfElement(s[q])
      BY DEF UpBits
    <3>2. q \in 1 .. Len(s) /\ q < p
      BY <1>1, <2>1
    <3>3. x \div ElementSize = s[q].index /\ x \div ElementSize = s[p].index
      BY <2>1, <3>1, <3>2, ElementFacts
    <3>4. q = p
      BY ONLY IsList(s), <2>1, <3>2, <3>3, ListFacts
    <3> QED
      BY <3>2, <3>4
  <2>4. Cardinality(S) \in Nat /\ Cardinality(T) \in Nat
    BY <2>2, FS_CardinalityType
  <2>5. Cardinality(S \cup T) = Cardinality(S) + Cardinality(T) - Cardinality(S \cap T)
    BY ONLY <2>2, FS_Union
  <2>6. Cardinality(S \cap T) = 0
    BY <2>3, FS_EmptySet
  <2>7. UpBits(s, p) = S \cup T
    BY <1>3, <2>1
  <2> HIDE DEF S, T
  <2>8. Cardinality(UpBits(s, p)) = Cardinality(S) + Cardinality(s[p].bits)
    BY <2>2, <2>4, <2>5, <2>6, <2>7
  <2> QED
    BY <2>8 DEF S
<1> QED
  BY <1>2, <1>5, <1>6

LEMMA CountMeans ==
  ASSUME NEW s, IsList(s)
  PROVE  Count(s) = Cardinality(BitsOf(s)) /\ IsFiniteSet(BitsOf(s))
<1> DEFINE D == 0 .. Len(s)
           Body(c) == [p \in D |-> IF p = 0 THEN 0 ELSE c[p - 1] + Cardinality(s[p].bits)]
           W == CHOOSE c : c = Body(c)
           C == [p \in D |-> Cardinality(UpBits(s, p))]
<1>1. Len(s) \in Nat
  BY ListFacts
<1>2. C = Body(C)
  <2>1. ASSUME NEW p \in D
        PROVE  Cardinality(UpBits(s, p)) = IF p = 0 THEN 0 ELSE C[p - 1] + Cardinality(s[p].bits)
    <3>1. CASE p = 0
      BY <3>1, UpBitsStep, FS_EmptySet
    <3>2. CASE p # 0
      <4>1. p - 1 \in D
        BY <1>1, <3>2
      <4>2. C[p - 1] = Cardinality(UpBits(s, p - 1))
        BY <4>1
      <4> QED
        BY <3>2, <4>2, UpBitsStep
    <3> QED
      BY <3>1, <3>2
  <2> HIDE DEF D
  <2> QED
    BY <2>1, Zenon
<1>3. W = Body(W)
  <2>1. \E c : c = Body(c)
    BY <1>2
  <2> HIDE DEF Body
  <2> QED
    BY <2>1, Zenon
<1>4. Count(s) = W[Len(s)]
  BY Zenon DEF Count
<1> HIDE DEF W
<1>5. \A p \in D : W[p] = IF p = 0 THEN 0 ELSE W[p - 1] + Cardinality(s[p].bits)
  <2>1. \A p \in D : Body(W)[p] = IF p = 0 THEN 0 ELSE W[p - 1] + Cardinality(s[p].bits)
    OBVIOUS
  <2> HIDE DEF Body
  <2> QED
    BY <1>3, <2>1
<1>6. \A p \in D : C[p] = IF p = 0 THEN 0 ELSE C[p - 1] + Cardinality(s[p].bits)
  <2>1. \A p \in D : Body(C)[p] = IF p = 0 THEN 0 ELSE C[p - 1] + Cardinality(s[p].bits)
    OBVIOUS
  <2> HIDE DEF Body, C
  <2> QED
    BY <1>2, <2>1
<1> DEFINE B == {p \in D : W[p] # C[p]}
<1>7. B = {}
  <2> SUFFICES ASSUME B # {} PROVE FALSE
    OBVIOUS
  <2> HIDE DEF C
  <2>1. PICK k \in B : \A y \in B : k <= y
    <3>1. B \in SUBSET Nat
      BY <1>1
    <3> HIDE DEF B
    <3> QED
      BY <3>1, LeastNumber
  <2>2. k # 0
    BY <1>5, <1>6, <2>1
  <2>3. k - 1 \in D /\ k - 1 \notin B
    BY <1>1, <2>1, <2>2
  <2> QED
    BY <1>5, <1>6, <2>1, <2>2, <2>3
<1>8. UpBits(s, Len(s)) = BitsOf(s)
  <2>1. DOMAIN s = 1 .. Len(s)
    BY ListFacts
  <2> QED
    BY <2>1 DEF UpBits, BitsOf
<1>9. Len(s) \in D
  BY <1>1
<1> QED
  BY <1>4, <1>7, <1>8, <1>9, UpBitsStep

LEMMA LeastIs ==
  ASSUME NEW B \in SUBSET Nat, NEW x \in B, \A y \in B : x <= y
  PROVE  Min(B) = x
<1>1. Min(B) \in B /\ \A y \in B : Min(B) <= y
  BY MinIn
<1>2. Min(B) <= x /\ x <= Min(B) /\ x \in Nat /\ Min(B) \in Nat
  BY <1>1
<1> QED
  BY ONLY <1>2

LEMMA NoElement ==
  ASSUME NEW s, IsList(s)
  PROVE  s \in Seq(Element) /\ (s = <<>> <=> Len(s) = 0) /\ (s # <<>> <=> 1 \in 1 .. Len(s))
<1>1. s \in Seq(Element)
  BY DEF IsList
<1>2. Len(s) \in Nat /\ (s = <<>> <=> Len(s) = 0)
  BY <1>1
<1> QED
  BY <1>1, <1>2

LEMMA FirstMeans ==
  ASSUME NEW s, IsList(s)
  PROVE  /\ s = <<>> <=> BitsOf(s) = {}
         /\ Find_first(s) = IF BitsOf(s) = {} THEN -1 ELSE Min(BitsOf(s))
         /\ s # <<>> => s[1].index * ElementSize + Min(s[1].bits) = Min(BitsOf(s))
<1>1. /\ Len(s) \in Nat /\ s \in Seq(Element) /\ (s # <<>> => 1 \in 1 .. Len(s))
      /\ \A p \in 1 .. Len(s) : s[p].index \in 0 .. MaxIndex /\ s[p].bits \in SUBSET Bits /\ s[p].bits # {}
      /\ \A p, q \in 1 .. Len(s) : p < q => s[p].index < s[q].index
  BY ListFacts, NoElement
<1>2. ElementSize \in Nat \ {0} /\ Bits = 0 .. (ElementSize - 1) /\ MaxIndex \in Nat
  BY SizePositive, BitmapAssumption DEF Bits
<1>3. CASE s = <<>>
  BY <1>3, EmptyList DEF Find_first
<1>4. CASE s # <<>>
  <2> DEFINE b == Min(s[1].bits)
             x == s[1].index * ElementSize + b
  <2>1. /\ s[1].bits \in SUBSET Nat /\ s[1].bits # {} /\ s[1].bits \in SUBSET Bits /\ s[1].index \in Nat
    BY <1>1, <1>2, <1>4
  <2>2. b \in s[1].bits /\ \A y \in s[1].bits : b <= y
    BY <2>1, MinIn
  <2> HIDE DEF b
  <2>3. x \in BitsOf(s)
    BY <1>1, <1>4, <2>2, InBits DEF BitsOfElement
  <2>4. ASSUME NEW y \in BitsOf(s)
        PROVE  x <= y
    <3>1. PICK q \in 1 .. Len(s) : y \in BitsOfElement(s[q])
      BY InBits
    <3>2. PICK c \in s[q].bits : y = s[q].index * ElementSize + c
      BY <3>1 DEF BitsOfElement
    <3>3. s[q].index \in Nat /\ c \in Nat /\ b \in 0 .. (ElementSize - 1)
      BY <1>1, <1>2, <2>1, <2>2
    <3>4. CASE q = 1
      <4>1. b <= c
        BY <2>2, <3>2, <3>4
      <4>2. s[1].index * ElementSize \in Nat
        BY <1>2, <2>1
      <4> QED
        BY <3>2, <3>3, <3>4, <4>1, <4>2
    <3>5. CASE q # 1
      <4>1. s[1].index < s[q].index
        BY <1>1, <1>4, <3>5
      <4>2. x < y
        BY <1>2, <2>1, <3>2, <3>3, <4>1, IndexLess
      <4>3. x \in Nat /\ y \in Nat
        BY <2>3, BitsOfRows
      <4> QED
        BY <4>2, <4>3
    <3> QED
      BY <3>4, <3>5
  <2>5. Min(BitsOf(s)) = x
    <3>1. BitsOf(s) \in SUBSET Nat
      BY BitsOfRows
    <3> HIDE DEF x
    <3> QED
      BY <2>3, <2>4, <3>1, LeastIs
  <2> QED
    BY <1>4, <2>3, <2>5 DEF Find_first, b
<1> QED
  BY <1>3, <1>4

LEMMA SingleMeans ==
  ASSUME NEW s, IsList(s)
  PROVE  Single_bit_p(s) <=> Cardinality(BitsOf(s)) = 1
<1>1. /\ Len(s) \in Nat /\ s \in Seq(Element) /\ (s # <<>> <=> 1 \in 1 .. Len(s))
      /\ \A p \in 1 .. Len(s) : s[p].index \in 0 .. MaxIndex
  BY ListFacts, NoElement
<1>2. IsFiniteSet(BitsOf(s))
  BY CountMeans
<1>3. MaxIndex \in Nat /\ Sentinel = MaxIndex + 1
  BY BitmapAssumption DEF Sentinel
<1>4. CASE s = <<>>
  <2>1. BitsOf(s) = {}
    BY <1>4, EmptyList
  <2> QED
    BY <1>4, <2>1, FS_EmptySet DEF Single_bit_p
<1>5. CASE Len(s) = 1
  <2>1. BitsOf(s) = BitsOfElement(s[1])
    <3>1. \A p \in 1 .. Len(s) : p = 1
      BY <1>5
    <3>2. 1 \in 1 .. Len(s)
      BY <1>5
    <3>3. \A x : x \in BitsOf(s) <=> x \in BitsOfElement(s[1])
      BY <3>1, <3>2, InBits
    <3> QED
      BY <3>3
  <2>2. Cardinality(BitsOf(s)) = Cardinality(s[1].bits)
    <3>1. 1 \in 1 .. Len(s)
      BY <1>5
    <3> QED
      BY <2>1, <3>1, ElementFacts
  <2>3. s # <<>> /\ IndexAt(s, 2) = Sentinel
    BY <1>1, <1>5 DEF IndexAt
  <2> QED
    BY <2>2, <2>3 DEF Single_bit_p
<1>6. CASE Len(s) > 1
  <2>1. 1 \in 1 .. Len(s) /\ 2 \in 1 .. Len(s)
    BY <1>1, <1>6
  <2>2. IndexAt(s, 2) # Sentinel
    <3>1. IndexAt(s, 2) = s[2].index
      BY <1>6 DEF IndexAt
    <3> QED
      BY <1>1, <1>3, <2>1, <3>1
  <2>3. PICK x \in BitsOfElement(s[1]), y \in BitsOfElement(s[2]) : TRUE
    BY <2>1, ElementFacts
  <2>4. x # y
    <3>1. x \div ElementSize = s[1].index /\ y \div ElementSize = s[2].index
      BY <2>1, ElementFacts
    <3>2. s[1].index # s[2].index
      BY <2>1, ListFacts
    <3> QED
      BY <3>1, <3>2
  <2>5. x \in BitsOf(s) /\ y \in BitsOf(s)
    BY <2>1, InBits
  <2>6. Cardinality(BitsOf(s)) # 1
    <3>1. ~ \E z : BitsOf(s) = {z}
      BY <2>4, <2>5
    <3> QED
      BY <1>2, <3>1, FS_Singleton
  <2> QED
    BY <2>2, <2>6 DEF Single_bit_p
<1>7. s = <<>> \/ Len(s) = 1 \/ Len(s) > 1
  <2>1. Len(s) = 0 => s = <<>>
    BY NoElement
  <2>2. Len(s) \in Nat
    BY <1>1
  <2>3. Len(s) = 0 \/ Len(s) = 1 \/ Len(s) > 1
    BY ONLY <2>2, SMTT(30)
  <2> QED
    BY ONLY <2>1, <2>3
<1> QED
  BY <1>4, <1>5, <1>6, <1>7

-----------------------------------------------------------------------------
(* The bitmaps *)

(* Between two calls.  The lists are as the code wants them, and every bit *)
(* is one that was set.                                                    *)
MapsInv ==
  /\ Maps \in DOMAIN Idx /\ DOMAIN cur = Maps
  /\ \A m \in Maps : IsList(elems[m]) /\ BitsOf(elems[m]) \subseteq Idx[Maps]
  /\ CurValid

(* A call that changes the bits of m to S.                                 *)
Makes(m, S) ==
  /\ MapsInv' /\ Maps' = Maps
  /\ \A n \in Maps : n # m => elems'[n] = elems[n]
  /\ BitsOf(elems'[m]) = S

LEMMA MapsNat ==
  ASSUME MapsInv
  PROVE  Idx[Maps] \subseteq Nat
BY BitmapAssumption DEF MapsInv

LEMMA PutMakes ==
  ASSUME MapsInv, NEW m \in Maps, NEW s, IsList(s), BitsOf(s) \subseteq Idx[Maps],
         NEW c \in Indices(s) \cup {Sentinel}, Put(m, s, c)
  PROVE  Makes(m, BitsOf(s)) /\ elems'[m] = s
<1>1. /\ DOMAIN elems' = DOMAIN elems /\ DOMAIN cur' = DOMAIN cur
      /\ elems'[m] = s /\ cur'[m] = c
      /\ \A n \in DOMAIN elems : n # m => elems'[n] = elems[n] /\ cur'[n] = cur[n]
  BY DEF Put, Maps, MapsInv
<1>2. Maps' = Maps
  BY <1>1 DEF Maps
<1>3. \A n \in Maps : IsList(elems'[n]) /\ BitsOf(elems'[n]) \subseteq Idx[Maps]
  BY <1>1 DEF MapsInv, Maps
<1>4. \A n \in Maps : cur'[n] \in Indices(elems'[n]) \cup {Sentinel}
  BY <1>1 DEF MapsInv, CurValid, Maps
<1>5. MapsInv'
  BY <1>1, <1>2, <1>3, <1>4 DEF MapsInv, CurValid
<1> QED
  BY <1>1, <1>2, <1>5 DEF Makes, Maps

LEMMA BeginIn ==
  ASSUME NEW s, IsList(s)
  PROVE  Begin(s) \in Indices(s) \cup {Sentinel}
<1>1. Len(s) \in Nat /\ DOMAIN s = 1 .. Len(s)
  BY ListFacts
<1> QED
  BY <1>1 DEF Begin, IndexAt, Indices

LEMMA InitMaps ==
  ASSUME Init
  PROVE  MapsInv
<1>1. PICK M \in DOMAIN Idx : elems = [m \in M |-> <<>>] /\ cur = [m \in M |-> Sentinel]
  BY DEF Init
<1> QED
  BY <1>1, EmptyList DEF MapsInv, Maps, CurValid

LEMMA TestMakes ==
  ASSUME MapsInv, NEW m \in Maps, NEW x \in Idx[Maps], TestBit(m, x)
  PROVE  Makes(m, BitsOf(elems[m]))
<1> DEFINE s == elems[m]
           p == FindLowerBound(s, cur[m], x \div ElementSize)
<1>1. IsList(s) /\ BitsOf(s) \subseteq Idx[Maps]
  BY DEF MapsInv
<1>2. x \div ElementSize \in Nat
  BY MapsNat, SizePositive, DivMod
<1>3. p \in 1 .. Len(s) + 1
  BY <1>1, <1>2, SearchFinds
<1>4. Len(s) \in Nat /\ DOMAIN s = 1 .. Len(s)
  BY <1>1, ListFacts
<1>5. Put(m, s, IndexAt(s, p))
  BY DEF TestBit
<1> HIDE DEF p, s
<1>6. IndexAt(s, p) \in Indices(s) \cup {Sentinel}
  BY <1>3, <1>4 DEF IndexAt, Indices
<1> QED
  BY <1>1, <1>5, <1>6, PutMakes DEF s

LEMMA SetMakes ==
  ASSUME MapsInv, NEW m \in Maps, NEW x \in Idx[Maps], Set(m, x)
  PROVE  Makes(m, BitsOf(elems[m]) \cup {x})
<1> DEFINE s == elems[m]
           r == SetIn(s, cur[m], x)
<1>1. IsList(s) /\ BitsOf(s) \subseteq Idx[Maps]
  BY DEF MapsInv
<1>2. x \in Nat /\ x \div ElementSize <= MaxIndex
  BY MapsNat DEF Set
<1>3. Put(m, r, x \div ElementSize)
  BY DEF Set, SetIn
<1> HIDE DEF s
<1>4. IsList(r) /\ x \div ElementSize \in Indices(r) /\ BitsOf(r) = BitsOf(s) \cup {x}
  BY <1>1, <1>2, SetMeans
<1> HIDE DEF r
<1>5. BitsOf(r) \subseteq Idx[Maps]
  BY <1>1, <1>4
<1>6. x \div ElementSize \in Indices(r) \cup {Sentinel}
  BY <1>4
<1>7. Makes(m, BitsOf(r))
  BY <1>3, <1>4, <1>5, <1>6, PutMakes
<1> QED
  BY <1>4, <1>7 DEF s

LEMMA ResetMakes ==
  ASSUME MapsInv, NEW m \in Maps, NEW x \in Idx[Maps], Reset(m, x)
  PROVE  Makes(m, BitsOf(elems[m]) \ {x})
<1> DEFINE s == elems[m]
           i == x \div ElementSize
           p == FindLowerBound(s, cur[m], i)
           b == s[p].bits \ {x % ElementSize}
<1>1. IsList(s) /\ BitsOf(s) \subseteq Idx[Maps]
  BY DEF MapsInv
<1>2. x \in Nat /\ ElementSize \in Nat \ {0}
  BY MapsNat, SizePositive
<1>3. i \in Nat
  BY <1>2, DivMod
<1>4. /\ p \in 1 .. Len(s) + 1
      /\ Holds(s, p, i) <=> p \in 1 .. Len(s) /\ s[p].index = i
      /\ \A q \in 1 .. Len(s) : s[q].index = i => q = p
  BY <1>1, <1>3, SearchFinds
<1>5. IF ~Holds(s, p, i) THEN Put(m, s, IndexAt(s, p))
      ELSE IF b = {} THEN Put(m, RemoveAt(s, p), IndexAt(s, p + 1))
      ELSE Put(m, [s EXCEPT ![p].bits = b], i)
  BY DEF Reset
<1>6. Len(s) \in Nat /\ DOMAIN s = 1 .. Len(s) /\ 1 \in 1 .. Len(s) + 1
  BY <1>1, ListFacts
<1>7. Holds(s, p, i) => ResetLeaves(s, p, x, b)
  <2> DEFINE c == cur[m]
  <2>1. p = FindLowerBound(s, c, x \div ElementSize) /\ b = s[p].bits \ {x % ElementSize}
    OBVIOUS
  <2>2. Holds(s, p, i) => Holds(s, p, x \div ElementSize)
    OBVIOUS
  <2> HIDE DEF c, b, p, s, i
  <2> QED
    BY <1>1, <1>2, <2>1, <2>2, ResetMeans
<1>8. x \in BitsOf(s) <=> x % ElementSize \in Row(s, i)
  BY <1>1, <1>2, BitsOfRows
<1> HIDE DEF b, p, s, i
<1>9. CASE ~Holds(s, p, i)
  <2>1. Row(s, i) = {}
    <3>1. \A q \in 1 .. Len(s) : s[q].index # i
      BY <1>4, <1>9
    <3> QED
      BY <1>1, <3>1, NoRow
  <2>2. BitsOf(s) \ {x} = BitsOf(s)
    BY <1>8, <2>1
  <2>3. IndexAt(s, p) \in Indices(s) \cup {Sentinel}
    BY <1>4, <1>6 DEF IndexAt, Indices
  <2>4. Makes(m, BitsOf(s))
    BY <1>1, <1>5, <1>9, <2>3, PutMakes
  <2> QED
    BY <2>2, <2>4 DEF s
<1>10. CASE Holds(s, p, i) /\ b = {}
  <2> DEFINE r == RemoveAt(s, p)
  <2>1. IsList(r) /\ IndexAt(s, p + 1) \in Indices(r) \cup {Sentinel} /\ BitsOf(r) = BitsOf(s) \ {x}
    BY <1>7, <1>10 DEF ResetLeaves
  <2>2. Put(m, r, IndexAt(s, p + 1))
    BY <1>5, <1>10
  <2> HIDE DEF r
  <2>3. BitsOf(r) \subseteq Idx[Maps]
    BY <1>1, <2>1
  <2>4. Makes(m, BitsOf(r))
    BY <2>1, <2>2, <2>3, PutMakes
  <2> QED
    BY <2>1, <2>4 DEF s
<1>11. CASE Holds(s, p, i) /\ b # {}
  <2> DEFINE r == [s EXCEPT ![p].bits = b]
  <2>1. IsList(r) /\ i \in Indices(r) /\ BitsOf(r) = BitsOf(s) \ {x}
    BY <1>7, <1>11 DEF ResetLeaves, i
  <2>2. Put(m, r, i)
    BY <1>5, <1>11
  <2> HIDE DEF r
  <2>3. BitsOf(r) \subseteq Idx[Maps] /\ i \in Indices(r) \cup {Sentinel}
    BY <1>1, <2>1
  <2>4. Makes(m, BitsOf(r))
    BY <2>1, <2>2, <2>3, PutMakes
  <2> QED
    BY <2>1, <2>4 DEF s
<1> QED
  BY <1>9, <1>10, <1>11

(* Operations on whole bitmaps.                                            *)
LEMMA WholeMakes ==
  ASSUME MapsInv, NEW m \in Maps, Whole(m)
  PROVE  \/ Makes(m, {})
         \/ \E n \in Maps \ {m} : \/ Makes(m, BitsOf(elems[n]))
                                  \/ Makes(m, BitsOf(elems[m]) \cup BitsOf(elems[n]))
                                  \/ Makes(m, BitsOf(elems[m]) \cap BitsOf(elems[n]))
                                  \/ Makes(m, BitsOf(elems[m]) \ BitsOf(elems[n]))
         \/ \E n, k \in Maps \ {m} : Makes(m, BitsOf(elems[n]) \ BitsOf(elems[k]))
<1>1. \A n \in Maps : IsList(elems[n]) /\ BitsOf(elems[n]) \subseteq Idx[Maps]
  BY DEF MapsInv
<1>2. ASSUME NEW s, IsList(s), BitsOf(s) \subseteq Idx[Maps], Put(m, s, Begin(s)) \/ Put(m, s, Sentinel)
      PROVE  Makes(m, BitsOf(s))
  BY <1>2, BeginIn, PutMakes
<1>3. CASE Clear(m)
  <2>1. IsList(<<>>) /\ BitsOf(<<>>) = {}
    BY EmptyList
  <2>2. Put(m, <<>>, Sentinel)
    BY <1>3 DEF Clear
  <2>3. Makes(m, BitsOf(<<>>))
    BY <1>2, <2>1, <2>2
  <2> QED
    BY <2>1, <2>3
<1>4. ASSUME NEW n \in Maps \ {m}, OrWith(m, n)
      PROVE  Makes(m, BitsOf(elems[m]) \cup BitsOf(elems[n]))
  <2> DEFINE s == Or(elems[m], elems[n]).elems
  <2>1. IsList(s) /\ BitsOf(s) = BitsOf(elems[m]) \cup BitsOf(elems[n])
    BY <1>1, OrMeans
  <2>2. Put(m, s, Begin(s))
    BY <1>4 DEF OrWith
  <2> HIDE DEF s
  <2>3. BitsOf(s) \subseteq Idx[Maps]
    BY <1>1, <2>1
  <2>4. Makes(m, BitsOf(s))
    BY <1>2, <2>1, <2>2, <2>3
  <2> QED
    BY <2>1, <2>4
<1>5. ASSUME NEW n \in Maps \ {m}, AndWith(m, n)
      PROVE  Makes(m, BitsOf(elems[m]) \cap BitsOf(elems[n]))
  <2> DEFINE s == And(elems[m], elems[n]).elems
  <2>1. IsList(s) /\ BitsOf(s) = BitsOf(elems[m]) \cap BitsOf(elems[n])
    BY <1>1, AndMeans
  <2>2. Put(m, s, Begin(s))
    BY <1>5 DEF AndWith
  <2> HIDE DEF s
  <2>3. BitsOf(s) \subseteq Idx[Maps]
    BY <1>1, <2>1
  <2>4. Makes(m, BitsOf(s))
    BY <1>2, <2>1, <2>2, <2>3
  <2> QED
    BY <2>1, <2>4
<1>6. ASSUME NEW n \in Maps \ {m}, IntersectWithComplement(m, n)
      PROVE  Makes(m, BitsOf(elems[m]) \ BitsOf(elems[n]))
  <2> DEFINE s == AndNot(elems[m], elems[n]).elems
  <2>1. IsList(s) /\ BitsOf(s) = BitsOf(elems[m]) \ BitsOf(elems[n])
    BY <1>1, AndNotMeans
  <2>2. Put(m, s, Begin(s))
    BY <1>6 DEF IntersectWithComplement
  <2> HIDE DEF s
  <2>3. BitsOf(s) \subseteq Idx[Maps]
    BY <1>1, <2>1
  <2>4. Makes(m, BitsOf(s))
    BY <1>2, <2>1, <2>2, <2>3
  <2> QED
    BY <2>1, <2>4
<1>7. ASSUME NEW n \in Maps \ {m}, Assign(m, n) \/ CopyConstruct(m, n)
      PROVE  Makes(m, BitsOf(elems[n]))
  BY <1>1, <1>2, <1>7 DEF Assign, CopyConstruct
<1>8. ASSUME NEW n \in Maps \ {m}, NEW k \in Maps \ {m}, IntersectWithComplement3(m, n, k)
      PROVE  Makes(m, BitsOf(elems[n]) \ BitsOf(elems[k]))
  <2> DEFINE s == AndNot(elems[n], elems[k]).elems
  <2>1. IsList(s) /\ BitsOf(s) = BitsOf(elems[n]) \ BitsOf(elems[k])
    BY <1>1, AndNotMeans
  <2>2. Put(m, s, Sentinel)
    BY <1>8 DEF IntersectWithComplement3
  <2> HIDE DEF s
  <2>3. BitsOf(s) \subseteq Idx[Maps]
    BY <1>1, <2>1
  <2>4. Makes(m, BitsOf(s))
    BY <1>2, <2>1, <2>2, <2>3
  <2> QED
    BY <2>1, <2>4
<1> QED
  BY <1>3, <1>4, <1>5, <1>6, <1>7, <1>8 DEF Whole

(* The sets of bits, and a step of the specification of them.              *)
LEMMA MakesPut ==
  ASSUME NEW m \in Maps, NEW S, Makes(m, S)
  PROVE  BS!Put(m, S)
<1> DEFINE st == [n \in Maps |-> BitsOf(elems[n])]
<1>1. st' = [n \in Maps |-> BitsOf(elems'[n])]
  BY DEF Makes
<1>2. st' = [st EXCEPT ![m] = S]
  BY <1>1 DEF Makes
<1> QED
  BY <1>2 DEF BS!Put

LEMMA OneBitSteps ==
  ASSUME MapsInv, NEW m \in Maps, NEW x \in Idx[Maps],
         Makes(m, BitsOf(elems[m]) \cup {x}) \/ Makes(m, BitsOf(elems[m]) \ {x})
  PROVE  MapsInv' /\ BS!Next
<1> DEFINE st == [n \in Maps |-> BitsOf(elems[n])]
<1>1. MapsInv'
  BY DEF Makes
<1>2. BS!Put(m, st[m] \cup {x}) \/ BS!Put(m, st[m] \ {x})
  BY MakesPut
<1>3. DOMAIN st = Maps
  OBVIOUS
<1> QED
  BY <1>1, <1>2, <1>3 DEF BS!Next, BS!Maps

LEMMA NextSteps ==
  ASSUME MapsInv, Next
  PROVE  MapsInv' /\ (BS!Next \/ UNCHANGED [n \in Maps |-> BitsOf(elems[n])])
<1> DEFINE st == [n \in Maps |-> BitsOf(elems[n])]
<1>1. PICK m \in Maps : OneBit(m) \/ Whole(m)
  BY DEF Next
<1>2. DOMAIN st = Maps /\ \A n \in Maps : st[n] = BitsOf(elems[n])
  OBVIOUS
<1>3. CASE OneBit(m)
  <2>1. PICK x \in Idx[Maps] : TestBit(m, x) \/ Set(m, x) \/ Reset(m, x)
    BY <1>3 DEF OneBit
  <2>2. CASE TestBit(m, x)
    <3>1. Makes(m, BitsOf(elems[m]))
      BY <2>2, TestMakes
    <3>2. st' = [n \in Maps |-> BitsOf(elems'[n])]
      BY <3>1 DEF Makes
    <3>3. st' = st
      BY <3>1, <3>2 DEF Makes
    <3> QED
      BY <3>1, <3>3 DEF Makes
  <2>3. CASE Set(m, x) \/ Reset(m, x)
    BY <2>3, SetMakes, ResetMakes, OneBitSteps
  <2> QED
    BY <2>1, <2>2, <2>3
<1>4. CASE Whole(m)
  <2>1. \/ Makes(m, {})
        \/ \E n \in Maps \ {m} : \/ Makes(m, BitsOf(elems[n]))
                                 \/ Makes(m, BitsOf(elems[m]) \cup BitsOf(elems[n]))
                                 \/ Makes(m, BitsOf(elems[m]) \cap BitsOf(elems[n]))
                                 \/ Makes(m, BitsOf(elems[m]) \ BitsOf(elems[n]))
        \/ \E n, k \in Maps \ {m} : Makes(m, BitsOf(elems[n]) \ BitsOf(elems[k]))
    BY <1>4, WholeMakes
  <2>2. MapsInv'
    BY <2>1 DEF Makes
  <2>3. \A S : Makes(m, S) => BS!Put(m, S)
    BY MakesPut
  <2> HIDE DEF st
  <2>4. \/ BS!Put(m, {})
        \/ \E n \in Maps \ {m} : \/ BS!Put(m, st[n])
                                 \/ BS!Put(m, st[m] \cup st[n])
                                 \/ BS!Put(m, st[m] \cap st[n])
                                 \/ BS!Put(m, st[m] \ st[n])
        \/ \E n, k \in Maps \ {m} : BS!Put(m, st[n] \ st[k])
    BY <1>2, <2>1, <2>3
  <2> QED
    BY <1>2, <2>2, <2>4 DEF BS!Next, BS!Maps, st
<1> QED
  BY <1>1, <1>3, <1>4

-----------------------------------------------------------------------------
(* The iterator *)

LEMMA DivMonotone ==
  ASSUME NEW k \in Nat \ {0}, NEW x \in Nat, NEW y \in Nat, x <= y
  PROVE  x \div k <= y \div k
<1> DEFINE i == y \div k
           j == x \div k
<1>1. /\ i \in Nat /\ y % k \in 0 .. (k - 1) /\ y = i * k + (y % k)
      /\ j \in Nat /\ x % k \in 0 .. (k - 1) /\ x = j * k + (x % k)
  BY DivMod
<1>2. k - 1 \in Nat
  OBVIOUS
<1> HIDE DEF i, j
<1>3. ~(i < j)
  <2> SUFFICES ASSUME i < j PROVE FALSE
    OBVIOUS
  <2>1. i * k + (y % k) < j * k + (x % k)
    BY <1>1, IndexLess
  <2>2. y < x
    BY <1>1, <2>1
  <2> QED
    BY <2>2
<1> QED
  BY <1>1, <1>3 DEF i, j

SameWord(x, y) == x \div WORDSZ = y \div WORDSZ

(* A word is in one element.                                               *)
LEMMA WordElement ==
  ASSUME NEW x \in Nat
  PROVE  x \div ElementSize = (x \div WORDSZ) \div NWORDS
<1> DEFINE q == x \div WORDSZ
           r == x % WORDSZ
           a == q \div NWORDS
           c == q % NWORDS
<1>1. WORDSZ \in Nat \ {0} /\ NWORDS \in Nat \ {0} /\ ElementSize = NWORDS * WORDSZ /\ ElementSize \in Nat \ {0}
  BY SizePositive DEF ElementSize
<1>2. q \in Nat /\ r \in 0 .. (WORDSZ - 1) /\ x = q * WORDSZ + r
  BY <1>1, DivMod
<1> HIDE DEF q, r
<1>3. a \in Nat /\ c \in 0 .. (NWORDS - 1) /\ q = a * NWORDS + c
  BY <1>1, <1>2, DivMod
<1> HIDE DEF a, c
<1>4. c * WORDSZ + r < NWORDS * WORDSZ + 0
  BY <1>1, <1>2, <1>3, IndexLess
<1>5. c * WORDSZ \in Nat
  BY <1>1, <1>3
<1>6. c * WORDSZ + r \in 0 .. (ElementSize - 1)
  BY <1>1, <1>2, <1>4, <1>5
<1>7. x = a * ElementSize + (c * WORDSZ + r)
  BY <1>1, <1>2, <1>3
<1>8. x \div ElementSize = a
  BY <1>1, <1>3, <1>6, <1>7, DivModOf
<1> QED
  BY <1>8 DEF a, q

LEMMA SameWordElement ==
  ASSUME NEW x \in Nat, NEW y \in Nat, SameWord(x, y)
  PROVE  x \div ElementSize = y \div ElementSize
BY WordElement DEF SameWord

(* Iterator t points to a bit of s and has a copy of bits of its word, and *)
(* every bit of L is still ahead of it.                                    *)
Fits(s, t, L) ==
  /\ t = [at |-> t.bit \div ElementSize, bit |-> t.bit, bits |-> t.bits]
  /\ t.bit \in t.bits
  /\ \A x \in t.bits : x \in BitsOf(s) /\ SameWord(x, t.bit) /\ x >= t.bit
  /\ \A x \in L : x \in BitsOf(s) /\ x >= t.bit /\ (SameWord(x, t.bit) => x \in t.bits)

LEMMA FitsRuns ==
  ASSUME NEW s, IsList(s), NEW t, NEW L, Fits(s, t, L)
  PROVE  /\ t # Idle /\ t # AtEnd /\ t.bit \in Nat /\ t.at = t.bit \div ElementSize
         /\ t.bit \in BitsOf(s) /\ t.bits \in SUBSET BitsOf(s)
         /\ Position(s, t.at) \in 1 .. Len(s) /\ s[Position(s, t.at)].index = t.at
         /\ t.at \in Indices(s)
<1>1. t.bit \in BitsOf(s) /\ t.bits \in SUBSET BitsOf(s)
  BY DEF Fits
<1>2. t.bit \in Nat
  BY <1>1, BitsOfRows
<1>3. t # Idle /\ t # AtEnd
  BY <1>2 DEF Idle, AtEnd, None
<1>4. t.at = t.bit \div ElementSize
  BY DEF Fits
<1>5. PICK p \in 1 .. Len(s) : t.bit \in BitsOfElement(s[p])
  BY <1>1, InBits
<1>6. s[p].index = t.at
  BY <1>4, <1>5, ElementFacts
<1>7. Position(s, t.at) = p
  BY <1>6, PositionIn
<1>8. t.at \in Indices(s)
  BY <1>5, <1>6, ListFacts DEF Indices
<1> QED
  BY <1>1, <1>2, <1>3, <1>4, <1>5, <1>6, <1>7, <1>8

(* Bits before the iterator may leave the list, and any may join it.       *)
LEMMA StillFits ==
  ASSUME NEW s, NEW r, NEW t, NEW L, Fits(s, t, L), \A x \in BitsOf(s) : x >= t.bit => x \in BitsOf(r)
  PROVE  Fits(r, t, L)
BY DEF Fits

(* An iterator put to the first of some bits of an element.                *)
LEMMA CursorFits ==
  ASSUME NEW s, IsList(s), NEW p \in 1 .. Len(s), NEW S \in SUBSET BitsOfElement(s[p]), S # {},
         NEW L \in SUBSET BitsOf(s), \A x \in L : x \in S \/ x \div ElementSize > s[p].index,
         NEW t, t = Cursor(s[p].index, Min(S), S)
  PROVE  Fits(s, t, L) /\ t.bit \in S
<1> DEFINE b == Min(S)
           w == {x \in S : x \div WORDSZ = b \div WORDSZ /\ x >= b}
<1>1. S \in SUBSET Nat /\ \A x \in S : x \div ElementSize = s[p].index
  BY ElementFacts
<1>2. S \in SUBSET BitsOf(s)
  BY InBits
<1>3. b \in S /\ \A x \in S : b <= x
  BY <1>1, MinIn
<1>4. t = [at |-> s[p].index, bit |-> b, bits |-> w]
  BY DEF Cursor
<1> HIDE DEF b
<1>5. t.at = s[p].index /\ t.bit = b /\ t.bits = w
  BY <1>4
<1>6. b \in Nat /\ b \div ElementSize = s[p].index
  BY <1>1, <1>3
<1>7. b \in w
  BY <1>3, <1>6
<1>8. \A x \in w : x \in BitsOf(s) /\ SameWord(x, b) /\ x >= b
  BY <1>2 DEF SameWord
<1>9. ASSUME NEW x \in L
      PROVE  x \in BitsOf(s) /\ x >= b /\ (SameWord(x, b) => x \in w)
  <2>1. x \in Nat /\ s[p].index \in Nat
    <3>1. BitsOf(s) \in SUBSET Nat
      BY BitsOfRows
    <3>2. s[p].index \in 0 .. MaxIndex
      BY ListFacts
    <3> QED
      BY <3>1, <3>2, BitmapAssumption
  <2>2. CASE x \in S
    <3>1. b <= x
      BY <1>3, <2>2
    <3>2. x >= b
      BY <1>6, <2>1, <3>1
    <3>3. SameWord(x, b) => x \in w
      BY <2>2, <3>2 DEF SameWord
    <3> QED
      BY <1>2, <2>2, <3>2, <3>3
  <2>3. CASE x \div ElementSize > s[p].index
    <3>1. x \div ElementSize \in Nat
      BY <2>1, SizePositive, DivMod
    <3>2. ~(x <= b)
      <4> SUFFICES ASSUME x <= b PROVE FALSE
        OBVIOUS
      <4>1. x \div ElementSize <= b \div ElementSize
        BY <1>6, <2>1, SizePositive, DivMonotone
      <4> QED
        BY <1>6, <2>1, <2>3, <3>1, <4>1
    <3>3. ~SameWord(x, b)
      <4>1. x \div ElementSize # b \div ElementSize
        BY <1>6, <2>1, <2>3, <3>1
      <4> QED
        BY <1>6, <2>1, <4>1, SameWordElement
    <3>4. x >= b
      BY <1>6, <2>1, <3>2
    <3> QED
      BY <3>3, <3>4
  <2> QED
    BY <2>2, <2>3
<1> HIDE DEF w
<1>10. Fits(s, t, L)
  BY <1>4, <1>5, <1>6, <1>7, <1>8, <1>9 DEF Fits
<1> QED
  BY <1>3, <1>5, <1>10

(* An iterator put to the first bit of the element at p, if there is one.  *)
LEMMA AtElementFits ==
  ASSUME NEW s, IsList(s), NEW p \in 1 .. Len(s) + 1,
         NEW L \in SUBSET BitsOf(s), \A q \in 1 .. Len(s) : q < p => \A x \in L : x \notin BitsOfElement(s[q]),
         NEW t, t = AtElement(s, p)
  PROVE  \/ t = AtEnd /\ L = {}
         \/ Fits(s, t, L) /\ p \in 1 .. Len(s) /\ t.bit \in BitsOfElement(s[p])
<1>1. Len(s) \in Nat
  BY ListFacts
<1>2. ASSUME NEW x \in L
      PROVE  \E q \in 1 .. Len(s) : x \in BitsOfElement(s[q]) /\ ~(q < p)
  BY InBits
<1>3. CASE p > Len(s)
  <2>1. L = {}
    BY <1>1, <1>2, <1>3
  <2> QED
    BY <1>3, <2>1 DEF AtElement
<1>4. CASE ~(p > Len(s))
  <2>1. p \in 1 .. Len(s)
    BY <1>1, <1>4
  <2>2. t = Cursor(s[p].index, Min(BitsOfElement(s[p])), BitsOfElement(s[p]))
    BY <1>4 DEF AtElement
  <2>3. ASSUME NEW x \in L
        PROVE  x \in BitsOfElement(s[p]) \/ x \div ElementSize > s[p].index
    <3>1. PICK q \in 1 .. Len(s) : x \in BitsOfElement(s[q]) /\ ~(q < p)
      BY <1>2
    <3>2. q = p \/ p < q
      BY <2>1, <3>1
    <3>3. p < q => s[p].index < s[q].index
      BY <2>1, ListFacts
    <3>4. x \div ElementSize = s[q].index
      BY <3>1, ElementFacts
    <3>5. s[p].index \in 0 .. MaxIndex /\ s[q].index \in 0 .. MaxIndex
      BY <2>1, ListFacts
    <3>6. s[p].index < s[q].index => s[q].index > s[p].index
      BY <3>5, BitmapAssumption
    <3> QED
      BY <3>1, <3>2, <3>3, <3>4, <3>6
  <2>4. BitsOfElement(s[p]) # {}
    BY <2>1, ElementFacts
  <2> QED
    BY <2>1, <2>2, <2>3, <2>4, CursorFits
<1> QED
  BY <1>3, <1>4

(* ++it: the bit it was at is behind it, and no other bit is lost.         *)
Passes(s, t, L, u) == \/ u = AtEnd /\ L \subseteq {t.bit}
                      \/ Fits(s, u, L \ {t.bit}) /\ u.bit > t.bit

LEMMA AdvanceFits ==
  ASSUME NEW s, IsList(s), NEW t, NEW L, Fits(s, t, L), NEW u, u = AdvanceToNextNonZero(s, t)
  PROVE  Passes(s, t, L, u)
<1> DEFINE b    == t.bit + 1
           rest == {x \in t.bits : x >= b}
           p    == Position(s, t.at)
           more == {x \in BitsOfElement(s[p]) : x >= b}
           M    == L \ {t.bit}
<1>1. /\ t.bit \in Nat /\ t.bit \in BitsOf(s) /\ t.bits \in SUBSET BitsOf(s)
      /\ p \in 1 .. Len(s) /\ s[p].index = t.at /\ t.at = t.bit \div ElementSize
  BY FitsRuns
<1>2. /\ BitsOf(s) \in SUBSET Nat /\ s[p].index \in 0 .. MaxIndex /\ ElementSize \in Nat \ {0}
      /\ Len(s) \in Nat
  BY <1>1, BitsOfRows, ListFacts, SizePositive
<1>3. ASSUME NEW x \in M
      PROVE  x \in BitsOf(s) /\ x \in Nat /\ x >= b /\ (SameWord(x, t.bit) => x \in rest)
  <2>1. x \in BitsOf(s) /\ x >= t.bit /\ (SameWord(x, t.bit) => x \in t.bits) /\ x # t.bit
    BY DEF Fits
  <2>2. x \in Nat
    BY <1>2, <2>1
  <2>3. x >= b
    BY <1>1, <2>1, <2>2
  <2> QED
    BY <2>1, <2>2, <2>3
<1>4. u = IF rest # {} THEN [at |-> t.at, bit |-> Min(rest), bits |-> rest]
          ELSE IF b % ElementSize = 0 \/ more = {} THEN AtElement(s, p + 1)
          ELSE Cursor(t.at, Min(more), more)
  BY DEF AdvanceToNextNonZero
<1>5. b \in Nat
  BY <1>1
<1>6. M \in SUBSET BitsOf(s)
  BY <1>3
<1>7. CASE rest # {}
  <2> DEFINE c == Min(rest)
  <2>1. rest \in SUBSET Nat /\ rest \in SUBSET t.bits
    BY <1>1, <1>2
  <2>2. c \in rest /\ \A x \in rest : c <= x
    BY <1>7, <2>1, MinIn
  <2>3. u = [at |-> t.at, bit |-> c, bits |-> rest]
    BY <1>4, <1>7
  <2> HIDE DEF c
  <2>5. u = [at |-> t.bit \div ElementSize, bit |-> c, bits |-> rest]
    BY <1>1, <2>3
  <2>6. \A x \in rest : x \in BitsOf(s) /\ SameWord(x, t.bit) /\ x >= b
    BY DEF Fits
  <2>7. c \in Nat /\ SameWord(c, t.bit) /\ c >= b
    BY <2>1, <2>2, <2>6
  <2>8. c \div ElementSize = t.bit \div ElementSize
    BY <1>1, <2>7, SameWordElement
  <2>9. \A x \in rest : x \in BitsOf(s) /\ SameWord(x, c) /\ x >= c
    <3> TAKE x \in rest
    <3>1. x \in Nat /\ c <= x
      BY <2>1, <2>2
    <3> QED
      BY <2>6, <2>7, <3>1 DEF SameWord
  <2>10. ASSUME NEW x \in M
         PROVE  x \in BitsOf(s) /\ x >= c /\ (SameWord(x, c) => x \in rest)
    <3>1. x \in BitsOf(s) /\ x \in Nat /\ x >= b /\ (SameWord(x, t.bit) => x \in rest)
      BY <1>3
    <3>2. SameWord(x, c) => x \in rest
      BY <2>7, <3>1 DEF SameWord
    <3>3. x >= c
      <4>1. CASE x \in rest
        BY <2>9, <4>1
      <4>2. CASE x \notin rest
        <5> SUFFICES ASSUME ~(x >= c) PROVE FALSE
          OBVIOUS
        <5>1. x <= c /\ t.bit <= x
          BY <1>1, <2>7, <3>1
        <5>2. x \div WORDSZ <= c \div WORDSZ /\ t.bit \div WORDSZ <= x \div WORDSZ
          BY <1>1, <2>7, <3>1, <5>1, SizePositive, DivMonotone
        <5>3. x \div WORDSZ \in Nat /\ t.bit \div WORDSZ \in Nat
          BY <1>1, <3>1, SizePositive, DivMod
        <5>4. x \div WORDSZ = t.bit \div WORDSZ
          BY <2>7, <5>2, <5>3 DEF SameWord
        <5> QED
          BY <3>1, <4>2, <5>4 DEF SameWord
      <4> QED
        BY <4>1, <4>2
    <3> QED
      BY <3>1, <3>2, <3>3
  <2>11. c > t.bit
    BY <1>1, <2>7
  <2> HIDE DEF rest, M
  <2>12. u.bit = c /\ u.bits = rest
    BY <2>5
  <2>13. Fits(s, u, M)
    BY <2>2, <2>5, <2>8, <2>9, <2>10, <2>12 DEF Fits
  <2> QED
    BY <2>11, <2>12, <2>13 DEF M, Passes
(* The rest of the word is done.                                           *)
<1>8. ASSUME rest = {}, NEW x \in M
      PROVE  x \in more \/ (x \div ElementSize > s[p].index)
  <2>1. x \in BitsOf(s) /\ x \in Nat /\ x >= b
    BY <1>3
  <2>2. PICK q \in 1 .. Len(s) : x \in BitsOfElement(s[q])
    BY <2>1, InBits
  <2>3. x \div ElementSize = s[q].index
    BY <2>2, ElementFacts
  <2>4. CASE q = p
    BY <2>1, <2>2, <2>4
  <2>5. CASE q # p
    <3>1. t.bit <= x
      BY <1>1, <2>1
    <3>2. t.bit \div ElementSize <= x \div ElementSize
      BY <1>1, <1>2, <2>1, <3>1, DivMonotone
    <3>3. s[q].index # s[p].index
      BY <1>1, <2>5, ListFacts
    <3>4. x \div ElementSize \in Nat /\ s[p].index \in Nat
      BY <1>1, <1>2, <2>1, DivMod
    <3> QED
      BY <1>1, <2>3, <3>2, <3>3, <3>4
  <2> QED
    BY <2>4, <2>5
<1>9. CASE rest = {} /\ (b % ElementSize = 0 \/ more = {})
  <2>1. u = AtElement(s, p + 1)
    BY <1>4, <1>9
  <2>2. p + 1 \in 1 .. Len(s) + 1
    BY <1>1, <1>2
  <2>3. ASSUME NEW x \in M
        PROVE  x \div ElementSize > s[p].index
    <3>1. CASE x \notin more
      BY <1>8, <1>9, <3>1
    <3>2. CASE x \in more
      <4>1. b % ElementSize = 0
        BY <1>9, <3>2
      <4>2. x \in Nat /\ x >= b /\ x \div ElementSize = s[p].index
        BY <1>1, <1>3, <3>2, ElementFacts
      <4>3. b \div ElementSize <= x \div ElementSize
        BY <1>2, <1>5, <4>2, DivMonotone
      <4>4. t.bit \div ElementSize <= b \div ElementSize
        <5>1. t.bit <= b
          BY <1>1
        <5> QED
          BY <1>1, <1>2, <1>5, <5>1, DivMonotone
      <4>5. b \div ElementSize \in Nat /\ s[p].index \in Nat
        BY <1>1, <1>2, <1>5, DivMod
      <4>6. b \div ElementSize = s[p].index
        BY <1>1, <4>2, <4>3, <4>4, <4>5
      <4>7. b = s[p].index * ElementSize + 0
        <5>1. b = (b \div ElementSize) * ElementSize + (b % ElementSize)
          BY <1>2, <1>5, DivMod
        <5> QED
          BY <4>1, <4>6, <5>1
      <4>8. t.bit = s[p].index * ElementSize + (t.bit % ElementSize) /\ t.bit % ElementSize \in 0 .. (ElementSize - 1)
        BY <1>1, <1>2, DivMod
      <4>9. t.bit >= b
        <5>1. s[p].index * ElementSize \in Nat
          BY <1>2, <4>5
        <5> QED
          BY <4>7, <4>8, <5>1
      <4> QED
        BY <1>1, <4>9
    <3> QED
      BY <3>1, <3>2
  <2>4. ASSUME NEW q \in 1 .. Len(s), q < p + 1, NEW x \in M
        PROVE  x \notin BitsOfElement(s[q])
    <3> SUFFICES ASSUME x \in BitsOfElement(s[q]) PROVE FALSE
      OBVIOUS
    <3>1. x \div ElementSize = s[q].index
      BY ElementFacts
    <3>2. s[q].index > s[p].index
      BY <2>3, <3>1
    <3>3. q = p \/ q < p
      BY <1>1, <2>4
    <3>4. q < p => s[q].index < s[p].index
      BY <1>1, ListFacts
    <3>5. s[q].index \in 0 .. MaxIndex
      BY ListFacts
    <3> QED
      BY <1>2, <3>2, <3>3, <3>4, <3>5, BitmapAssumption
  <2> HIDE DEF M
  <2>5. \/ u = AtEnd /\ M = {}
        \/ Fits(s, u, M) /\ p + 1 \in 1 .. Len(s) /\ u.bit \in BitsOfElement(s[p + 1])
    BY <1>6, <2>1, <2>2, <2>4, AtElementFits
  <2>6. CASE u = AtEnd /\ M = {}
    BY <2>6 DEF M, Passes
  <2>7. CASE Fits(s, u, M) /\ p + 1 \in 1 .. Len(s) /\ u.bit \in BitsOfElement(s[p + 1])
    <3>1. u.bit \in Nat /\ u.bit \div ElementSize = s[p + 1].index
      BY <2>7, ElementFacts
    <3>2. s[p].index < s[p + 1].index
      <4>1. p < p + 1
        BY <1>1
      <4> QED
        BY <1>1, <2>7, <4>1, ListFacts
    <3>3. ~(u.bit <= t.bit)
      <4> SUFFICES ASSUME u.bit <= t.bit PROVE FALSE
        OBVIOUS
      <4>1. u.bit \div ElementSize <= t.bit \div ElementSize
        BY <1>1, <1>2, <3>1, DivMonotone
      <4>2. s[p].index \in Nat /\ s[p + 1].index \in Nat
        BY <1>1, <1>2, <3>1, DivMod
      <4> QED
        BY <1>1, <3>1, <3>2, <4>1, <4>2
    <3>4. u.bit > t.bit
      BY <1>1, <3>1, <3>3
    <3> QED
      BY <2>7, <3>4 DEF M, Passes
  <2> QED
    BY <2>5, <2>6, <2>7
<1>10. CASE rest = {} /\ ~(b % ElementSize = 0 \/ more = {})
  <2>1. u = Cursor(s[p].index, Min(more), more)
    BY <1>1, <1>4, <1>10
  <2>2. more \in SUBSET BitsOfElement(s[p]) /\ more # {}
    BY <1>10
  <2>3. \A x \in M : x \in more \/ x \div ElementSize > s[p].index
    BY <1>8, <1>10
  <2>4. \A x \in more : x >= b
    OBVIOUS
  <2> HIDE DEF M, more
  <2>5. Fits(s, u, M) /\ u.bit \in more
    BY <1>1, <1>6, <2>1, <2>2, <2>3, CursorFits
  <2>6. u.bit \in Nat
    BY <2>5, FitsRuns
  <2>7. u.bit > t.bit
    BY <1>1, <2>4, <2>5, <2>6
  <2> QED
    BY <2>5, <2>7 DEF M, Passes
<1> QED
  BY <1>7, <1>9, <1>10 DEF Passes

LEMMA EndNotIdle == AtEnd # Idle
<1>1. Sentinel # None
  BY BitmapAssumption DEF Sentinel, None
<1> QED
  BY <1>1 DEF AtEnd, Idle

(* While a loop runs.  A loop changes its bitmap only at the bit taken     *)
(* last, behind the iterator, or by adding bits, so the bits not taken yet *)
(* stay ahead of the iterator or in its copy of the word.                  *)
IterInv ==
  /\ got \subseteq Idx[Maps] /\ last \in got \cup {None}
  /\ iter = Idle => got = {}
  /\ iter = AtEnd => start \subseteq got
  /\ Running => Fits(elems[It], iter, start \ got) /\ \A x \in got : x < iter.bit

BitSets == [m \in Maps |-> BitsOf(elems[m])]

LEMMA ItIn ==
  ASSUME MapsInv
  PROVE  It \in Maps /\ IsList(elems[It]) /\ BitsOf(elems[It]) \subseteq Idx[Maps] /\ BitsOf(elems[It]) \subseteq Nat
BY ItAssumption, MapsNat DEF MapsInv

(* A call of the loop body, which keeps the bits ahead of the iterator.    *)
LEMMA BodyKeeps ==
  ASSUME MapsInv, IterInv, last # None, NEW S, Makes(It, S), iter' = iter, start' = start, got' = got,
         last' \in {last, None},
         Running => \A x \in BitsOf(elems[It]) : x >= iter.bit => x \in S
  PROVE  MapsInv' /\ IterInv'
<1>1. MapsInv' /\ Maps' = Maps /\ BitsOf(elems'[It]) = S
  BY DEF Makes
<1>2. Running' <=> Running
  BY DEF Running
<1>3. Running => Fits(elems'[It], iter, start \ got)
  BY <1>1, StillFits DEF IterInv
<1> QED
  BY <1>1, <1>2, <1>3 DEF IterInv

LEMMA IterSteps ==
  ASSUME MapsInv, IterInv, [IterNext]_allVars
  PROVE  MapsInv' /\ IterInv' /\ (BS!Next \/ UNCHANGED BitSets)
<1> DEFINE s == elems[It]
<1>1. /\ It \in Maps /\ IsList(s) /\ BitsOf(s) \subseteq Idx[Maps] /\ BitsOf(s) \subseteq Nat
      /\ Idx[Maps] \subseteq Nat
  BY ItIn, MapsNat
<1>2. None \notin Nat
  BY DEF None
<1>3. ASSUME UNCHANGED vars
      PROVE  MapsInv' /\ UNCHANGED BitSets /\ Maps' = Maps /\ elems' = elems
  BY <1>3 DEF vars, MapsInv, CurValid, Maps, BitSets
<1>4. CASE Start
  <2>1. UNCHANGED vars /\ got = {} /\ got' = {} /\ last' = last /\ last = None /\ start' = BitsOf(s)
    BY <1>4 DEF Start, IterInv
  <2>2. iter' = AtElement(s, 1)
    BY <1>4 DEF Start, AdvanceToFirstNonZero
  <2>3. \/ iter' = AtEnd /\ start' = {}
        \/ Fits(s, iter', start')
    <3> DEFINE L == BitsOf(s)
               t == iter'
    <3>1. 1 \in 1 .. Len(s) + 1 /\ \A q \in 1 .. Len(s) : ~(q < 1)
      BY <1>1, ListFacts
    <3>2. t = AtElement(s, 1) /\ L \in SUBSET BitsOf(s)
      BY <2>2
    <3> HIDE DEF L, t, s
    <3>3. (t = AtEnd /\ L = {}) \/ Fits(s, t, L)
      BY <1>1, <3>1, <3>2, AtElementFits
    <3> QED
      BY <2>1, <3>3 DEF L, t
  <2>4. iter' # Idle
    <3> DEFINE t == iter'
               L == start'
    <3>1. Fits(s, t, L) => t # Idle
      <4> HIDE DEF t, L, s
      <4> QED
        BY <1>1, FitsRuns
    <3> QED
      BY <2>3, <3>1, EndNotIdle
  <2>5. IterInv'
    <3>1. elems'[It] = s /\ Idx[Maps]' = Idx[Maps]
      BY <1>3, <2>1
    <3> HIDE DEF s
    <3>2. start' \ got' = start'
      BY <2>1
    <3>3. Running' => Fits(elems'[It], iter', start' \ got')
      BY <2>3, <3>1, <3>2 DEF Running
    <3>4. iter' = AtEnd => start' \subseteq got'
      <4> DEFINE t == iter'
                 L == start'
      <4>1. Fits(s, t, L) => t # AtEnd
        <5> HIDE DEF t, L
        <5> QED
          BY <1>1, FitsRuns
      <4> QED
        BY <2>3, <4>1
    <3> QED
      BY <2>1, <2>4, <3>3, <3>4 DEF IterInv
  <2> QED
    BY <1>3, <2>1, <2>5
<1>5. CASE Take
  <2>1. /\ UNCHANGED vars /\ Running /\ last' = iter.bit /\ got' = got \cup {iter.bit} /\ start' = start
        /\ iter' = AdvanceToNextNonZero(s, iter)
    BY <1>5 DEF Take
  <2>2. Fits(s, iter, start \ got) /\ \A x \in got : x < iter.bit
    BY <2>1 DEF IterInv
  <2>3. iter.bit \in BitsOf(s) /\ iter.bit \in Nat
    <3> DEFINE L == start \ got
    <3> HIDE DEF L, s
    <3> QED
      BY <1>1, <2>2, FitsRuns DEF L
  <2>4. start' \ got' = (start \ got) \ {iter.bit}
    BY <2>1
  <2>5. \/ iter' = AtEnd /\ start \ got \subseteq {iter.bit}
        \/ /\ Fits(s, iter', start' \ got') /\ iter'.bit > iter.bit
           /\ iter' # Idle /\ iter' # AtEnd /\ iter'.bit \in Nat
    <3> DEFINE L == start \ got
               M == start' \ got'
               u == iter'
    <3>1. u = AdvanceToNextNonZero(s, iter) /\ M = L \ {iter.bit}
      BY <2>1, <2>4
    <3> HIDE DEF L, M, u, s
    <3>2. (u = AtEnd /\ L \subseteq {iter.bit}) \/ (Fits(s, u, M) /\ u.bit > iter.bit)
      <4>1. Fits(s, iter, L) /\ IsList(s)
        BY <1>1, <2>2 DEF L
      <4>2. Passes(s, iter, L, u)
        BY ONLY <3>1, <4>1, AdvanceFits
      <4> QED
        BY ONLY <3>1, <4>2 DEF Passes
    <3>3. Fits(s, u, M) => u # Idle /\ u # AtEnd /\ u.bit \in Nat
      BY <1>1, FitsRuns
    <3> QED
      BY <3>2, <3>3 DEF L, M, u
  <2>6. IterInv'
    <3>1. elems'[It] = s /\ Idx[Maps]' = Idx[Maps]
      BY <1>3, <2>1
    <3>2. got' \subseteq Idx[Maps] /\ last' \in got'
      BY <1>1, <2>1, <2>3 DEF IterInv
    <3> HIDE DEF s
    <3>3. CASE iter' = AtEnd /\ start \ got \subseteq {iter.bit}
      <4>1. start' \subseteq got'
        BY <2>1, <3>3
      <4>2. iter' # Idle /\ ~Running'
        BY <3>3, EndNotIdle DEF Running
      <4> QED
        BY <3>1, <3>2, <4>1, <4>2 DEF IterInv
    <3>4. CASE /\ Fits(s, iter', start' \ got') /\ iter'.bit > iter.bit
               /\ iter' # Idle /\ iter' # AtEnd /\ iter'.bit \in Nat
      <4>1. \A x \in got' : x < iter'.bit
        <5> TAKE x \in got'
        <5>1. x \in Nat /\ (x = iter.bit \/ x < iter.bit)
          BY <1>1, <2>1, <2>2, <3>2
        <5> QED
          BY <2>3, <3>4, <5>1
      <4> QED
        BY <3>1, <3>2, <3>4, <4>1 DEF IterInv
    <3> QED
      BY <2>5, <3>3, <3>4
  <2> QED
    BY <1>3, <2>1, <2>6
<1>6. CASE ResetTaken
  <2>1. /\ last # None /\ Reset(It, last) /\ last' = None /\ iter' = iter /\ start' = start /\ got' = got
        /\ last \in got /\ last \in Idx[Maps]
    BY <1>6 DEF ResetTaken, IterInv
  <2>2. Makes(It, BitsOf(s) \ {last})
    BY <1>1, <2>1, ResetMakes
  <2>3. Running => \A x \in BitsOf(s) : x >= iter.bit => x \in BitsOf(s) \ {last}
    <3> SUFFICES ASSUME Running PROVE ~(last >= iter.bit)
      OBVIOUS
    <3>1. last < iter.bit /\ Fits(s, iter, start \ got)
      BY <2>1 DEF IterInv
    <3>2. iter.bit \in Nat /\ last \in Nat
      <4>1. iter.bit \in BitsOf(s)
        BY <3>1 DEF Fits
      <4> QED
        BY <1>1, <2>1, <4>1
    <3> QED
      BY <3>1, <3>2
  <2>4. MapsInv' /\ IterInv'
    BY <2>1, <2>2, <2>3, BodyKeeps
  <2>5. BS!Next
    BY <1>1, <2>1, <2>2, OneBitSteps
  <2> QED
    BY <2>4, <2>5
<1>7. CASE BodySets
  <2>1. PICK x \in Idx[Maps] : Set(It, x)
    BY <1>7 DEF BodySets
  <2>2. last # None /\ last' = last /\ iter' = iter /\ start' = start /\ got' = got
    BY <1>7 DEF BodySets, iterVars
  <2>3. Makes(It, BitsOf(s) \cup {x})
    BY <1>1, <2>1, SetMakes
  <2>4. MapsInv' /\ IterInv'
    BY <2>2, <2>3, BodyKeeps
  <2>5. BS!Next
    BY <1>1, <2>1, <2>3, OneBitSteps
  <2> QED
    BY <2>4, <2>5
<1>8. CASE Stop
  <2>1. UNCHANGED vars /\ iter' = Idle /\ last' = None /\ got' = {}
    BY <1>8 DEF Stop
  <2>2. IterInv'
    <3>1. iter' # AtEnd /\ ~Running'
      BY <2>1, EndNotIdle DEF Running
    <3> QED
      BY <2>1, <3>1 DEF IterInv
  <2> QED
    BY <1>3, <2>1, <2>2
<1>9. CASE Between
  <2>1. iter = Idle /\ Next /\ iter' = iter /\ last' = last /\ start' = start /\ got' = got
    BY <1>9 DEF Between, iterVars
  <2>2. MapsInv' /\ (BS!Next \/ UNCHANGED BitSets)
    BY <2>1, NextSteps DEF BitSets
  <2>3. IterInv'
    <3>1. iter' # AtEnd /\ ~Running'
      BY <2>1, EndNotIdle DEF Running
    <3> QED
      BY <2>1, <3>1 DEF IterInv
  <2> QED
    BY <2>2, <2>3
<1>10. CASE UNCHANGED allVars
  <2>1. UNCHANGED vars /\ iter' = iter /\ last' = last /\ start' = start /\ got' = got
    BY <1>10 DEF allVars, iterVars
  <2>2. IterInv'
    <3>1. elems'[It] = elems[It] /\ Maps' = Maps
      BY <1>3, <2>1
    <3> QED
      BY <2>1, <3>1 DEF IterInv, Running
  <2> QED
    BY <1>3, <2>1, <2>2
<1> QED
  BY <1>4, <1>5, <1>6, <1>7, <1>8, <1>9, <1>10 DEF IterNext

-----------------------------------------------------------------------------
(* Theorems *)

LEMMA IterInvariant == IterSpec => [](MapsInv /\ IterInv)
<1>1. ASSUME IterInit
      PROVE  MapsInv /\ IterInv
  <2>1. MapsInv
    BY <1>1, InitMaps DEF IterInit
  <2>2. iter # AtEnd /\ ~Running
    BY <1>1, EndNotIdle DEF IterInit, Running
  <2> QED
    BY <1>1, <2>1, <2>2 DEF IterInit, IterInv
<1>2. MapsInv /\ IterInv /\ [IterNext]_allVars => (MapsInv /\ IterInv)'
  BY IterSteps
<1> QED
  BY <1>1, <1>2, PTL DEF IterSpec

(* The cached iterator CurrElementIter of a bitmap never points to an       *)
(* element that has left its list, although the operations that drop        *)
(* elements and the ones that clear a bitmap move it in different ways.     *)
THEOREM CurStaysValid == IterSpec => []CurValid
<1>1. MapsInv => CurValid
  BY DEF MapsInv
<1> QED
  BY <1>1, IterInvariant, PTL

(* A test finds a bit exactly if it was set, wherever the search starts;    *)
(* the counts, bounds and comparisons are those of the sets of bits; and    *)
(* the operations on two bitmaps report a change exactly if there is one.   *)
THEOREM QueriesAlwaysAgree == IterSpec => []QueriesAgree
<1>1. ASSUME MapsInv
      PROVE  QueriesAgree
  <2>1. \A m \in Maps : IsList(elems[m])
    BY <1>1 DEF MapsInv
  <2>2. ASSUME NEW m \in Maps
        PROVE  LET a == elems[m]
                   A == BitsOf(a)
               IN
               /\ \A x \in 0 .. Sentinel * ElementSize - 1 : Test(a, cur[m], x) <=> x \in A
               /\ Count(a) = Cardinality(A)
               /\ Find_first(a) = IF A = {} THEN -1 ELSE Min(A)
               /\ Single_bit_p(a) <=> Cardinality(A) = 1
    <3> DEFINE a == elems[m]
    <3>1. IsList(a)
      BY <2>1
    <3> HIDE DEF a
    <3>2. \A x \in 0 .. Sentinel * ElementSize - 1 : Test(a, cur[m], x) <=> x \in BitsOf(a)
      BY <3>1, TestFinds
    <3>3. Count(a) = Cardinality(BitsOf(a))
      BY <3>1, CountMeans
    <3>4. Find_first(a) = IF BitsOf(a) = {} THEN -1 ELSE Min(BitsOf(a))
      BY <3>1, FirstMeans
    <3>5. Single_bit_p(a) <=> Cardinality(BitsOf(a)) = 1
      BY <3>1, SingleMeans
    <3> QED
      BY <3>2, <3>3, <3>4, <3>5 DEF a
  <2>3. ASSUME NEW m \in Maps, NEW n \in Maps \ {m}
        PROVE  LET a == elems[m]
                   A == BitsOf(a)
                   b == elems[n]
                   B == BitsOf(b)
               IN
               /\ Equal(a, b) <=> A = B
               /\ Intersects(a, b) <=> A \cap B # {}
               /\ Or(a, b).changed <=> ~(B \subseteq A)
               /\ AndNot(a, b).changed <=> A \cap B # {}
    <3> DEFINE a == elems[m]
               b == elems[n]
    <3>1. IsList(a) /\ IsList(b)
      BY <2>1
    <3> HIDE DEF a, b
    <3>2. Equal(a, b) <=> BitsOf(a) = BitsOf(b)
      BY <3>1, EqualBits DEF Equal
    <3>3. Intersects(a, b) <=> BitsOf(a) \cap BitsOf(b) # {}
      BY <3>1, IntersectsMeans
    <3>4. Or(a, b).changed <=> ~(BitsOf(b) \subseteq BitsOf(a))
      BY <3>1, OrMeans
    <3>5. AndNot(a, b).changed <=> BitsOf(a) \cap BitsOf(b) # {}
      BY <3>1, AndNotMeans
    <3> QED
      BY <3>2, <3>3, <3>4, <3>5 DEF a, b
  <2> QED
    BY <2>2, <2>3 DEF QueriesAgree
<1> QED
  BY <1>1, IterInvariant, PTL

(* Every operation of a bitmap changes the set of its bits as the abstract  *)
(* specification BitSet allows, also those in the middle of a loop.         *)
THEOREM BitmapsImplementSets == IterSpec => ImplementsBitSet
<1>1. IterInit => BS!Init
  <2> SUFFICES ASSUME IterInit PROVE BS!Init
    OBVIOUS
  <2>1. PICK M \in DOMAIN Idx : elems = [m \in M |-> <<>>]
    BY DEF IterInit, Init
  <2>2. [m \in Maps |-> BitsOf(elems[m])] = [m \in M |-> {}]
    BY <2>1, EmptyList DEF Maps
  <2> QED
    BY <2>2 DEF BS!Init
<1>2. MapsInv /\ IterInv /\ [IterNext]_allVars => [BS!Next]_([m \in Maps |-> BitsOf(elems[m])])
  BY IterSteps DEF BitSets
<1> QED
  BY <1>1, <1>2, IterInvariant, PTL DEF IterSpec, ImplementsBitSet, BS!Spec

(* A loop over a bitmap takes every bit that was there when it began,       *)
(* whatever its body resets behind the iterator or adds, and its iterator   *)
(* points to an element of the list all the time.                           *)
THEOREM LoopTakesAll == IterSpec => []TakesAll
<1>1. ASSUME MapsInv, IterInv
      PROVE  TakesAll
  <2>1. ASSUME Running
        PROVE  iter.at \in Indices(elems[It])
    <3> DEFINE s == elems[It]
               L == start \ got
    <3>1. IsList(s) /\ Fits(s, iter, L)
      BY <1>1, <2>1, ItIn DEF IterInv
    <3> HIDE DEF s, L
    <3>2. iter.at \in Indices(s)
      BY <3>1, FitsRuns
    <3> QED
      BY <3>2 DEF s
  <2> QED
    BY <1>1, <2>1 DEF TakesAll, IterInv
<1> QED
  BY <1>1, IterInvariant, PTL

(* A loop takes bits in ascending order, each once and only while it is in  *)
(* the bitmap: the copied word never yields a bit that has been reset.      *)
THEOREM LoopTakesInOrder == IterSpec => TakesInOrder
<1>1. ASSUME MapsInv, IterInv, [IterNext]_allVars
      PROVE  \A x \in got' \ got : x \in BitsOf(elems[It]) /\ \A y \in got : y < x
  <2> SUFFICES ASSUME NEW x \in got' \ got
               PROVE  x \in BitsOf(elems[It]) /\ \A y \in got : y < x
    OBVIOUS
  <2>1. Running /\ got' = got \cup {iter.bit}
    BY <1>1 DEF IterNext, Start, Take, ResetTaken, BodySets, Stop, Between, allVars, iterVars
  <2>2. x = iter.bit
    BY <2>1
  <2>3. Fits(elems[It], iter, start \ got) /\ \A y \in got : y < iter.bit
    BY <1>1, <2>1 DEF IterInv
  <2>4. iter.bit \in BitsOf(elems[It])
    BY <2>3 DEF Fits
  <2> QED
    BY <2>2, <2>3, <2>4
<1>2. MapsInv /\ IterInv /\ [IterNext]_allVars
        => [\A x \in got' \ got : x \in BitsOf(elems[It]) /\ \A y \in got : y < x]_allVars
  BY <1>1
<1> QED
  BY <1>2, IterInvariant, PTL DEF IterSpec, TakesInOrder
=============================================================================
