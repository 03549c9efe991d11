------------------------------- MODULE Bitmap -------------------------------
(* The sparse bitmap of bitmap.h: an ascending list of elements that each   *)
(* hold ElementSize consecutive bits, none of them empty, and an iterator   *)
(* CurrElementIter to the element used last, from which the next search     *)
(* starts.  An iterator is named by the index of the element it points to;  *)
(* the end is the list's sentinel.                                          *)
EXTENDS Integers, FiniteSets, Sequences, SequencesExt, FiniteSetsExt

CONSTANTS NWORDS,       \* BITWORDS_PER_ELEMENT
          WORDSZ,       \* BITWORD_SIZE: the bits of an unsigned long
          Idx,          \* per set of bitmaps: the bits set and reset in it
          MaxIndex      \* bound: no bitmap grows past this element

ASSUME BitmapAssumption ==
  /\ {NWORDS, WORDSZ} \subseteq Nat \ {0}
  /\ MaxIndex \in Nat
  /\ \A M \in DOMAIN Idx : Idx[M] \subseteq Nat

VARIABLES elems,        \* Elements: per bitmap, a sequence of elements
          cur           \* CurrElementIter: per bitmap, an element's index

vars == <<elems, cur>>

Maps == DOMAIN elems   \* the bitmaps in use

ElementSize == NWORDS * WORDSZ
Sentinel    == MaxIndex + 1            \* the index ~0U of the list's sentinel
Element     == [index : 0 .. MaxIndex, bits : SUBSET (0 .. ElementSize - 1)]

BitsOfElement(e) == {e.index * ElementSize + b : b \in e.bits}
BitsOf(s)        == UNION {BitsOfElement(s[p]) : p \in DOMAIN s}
Indices(s)       == {s[p].index : p \in DOMAIN s}

-----------------------------------------------------------------------------
(* Positions in the list.  The sentinel is at Len(s) + 1.                   *)

IndexAt(s, p) == IF p > Len(s) THEN Sentinel ELSE s[p].index

Position(s, c) == IF \E p \in DOMAIN s : s[p].index = c
                  THEN CHOOSE p \in DOMAIN s : s[p].index = c
                  ELSE Len(s) + 1

Begin(s) == IndexAt(s, 1)

(* Linear search from the current position c for the element that holds     *)
(* index i: backwards to it or to one before it, or forwards to it or to    *)
(* one after it.                                                            *)
FindLowerBound(s, c, i) ==
  LET p == IF Position(s, c) > Len(s) THEN Len(s) ELSE Position(s, c) IN
  IF s = <<>> THEN 1
  ELSE IF s[p].index >= i
       THEN Max({q \in 1 .. p : q = 1 \/ s[q].index <= i})
       ELSE Min({q \in p .. Len(s) + 1 : q > Len(s) \/ s[q].index >= i})

(* Mutation: the element found is taken for the one wanted.                 *)
HoldsAny(s, p, i) == p <= Len(s)

Holds(s, p, i) == p <= Len(s) /\ IndexAt(s, p) = i

-----------------------------------------------------------------------------
(* Single bits.                                                             *)

Test(s, c, x) ==
  LET i == x \div ElementSize
      p == FindLowerBound(s, c, i)
  IN  s # <<>> /\ Holds(s, p, i) /\ x % ElementSize \in s[p].bits

Put(m, s, c) == /\ elems' = [elems EXCEPT ![m] = s]
                /\ cur' = [cur EXCEPT ![m] = c]

(* A test moves the cached iterator.                                        *)
TestBit(m, x) ==
  LET s == elems[m] IN
  /\ s # <<>>
  /\ Put(m, s, IndexAt(s, FindLowerBound(s, cur[m], x \div ElementSize)))

(* Reset one bit; an element that becomes empty leaves the list, after the  *)
(* cached iterator, which points to it, has moved on.                       *)
Reset(m, x) ==
  LET s == elems[m]
      i == x \div ElementSize
      p == FindLowerBound(s, cur[m], i)
      b == s[p].bits \ {x % ElementSize}
  IN
  /\ s # <<>>
  /\ IF ~Holds(s, p, i) THEN Put(m, s, IndexAt(s, p))
     ELSE IF b = {} THEN Put(m, RemoveAt(s, p), IndexAt(s, p + 1))
     ELSE Put(m, [s EXCEPT ![p].bits = b], i)

(* Mutation: a new element always goes before the one found.                *)
InsertBefore(s, p, i) == p

(* A new element goes before the one found, or after it when the search     *)
(* stopped at one with a smaller index.                                     *)
InsertPosition(s, p, i) == IF IndexAt(s, p) < i THEN p + 1 ELSE p

Set(m, x) ==
  LET s == elems[m]
      i == x \div ElementSize
      p == FindLowerBound(s, cur[m], i)
      new == [index |-> i, bits |-> {x % ElementSize}]
  IN
  /\ i <= MaxIndex
  /\ Put(m, IF Holds(s, p, i) THEN [s EXCEPT ![p].bits = @ \cup new.bits]
            ELSE InsertAt(s, InsertPosition(s, p, i), new),
         i)

-----------------------------------------------------------------------------
(* Whole bitmaps: a walk of two lists in step, with what it makes of the    *)
(* first and whether it reports a change.                                   *)

Walked(s, chg) == [elems |-> s, changed |-> chg]
Then(head, chg, rest) == Walked(head \o rest.elems, chg \/ rest.changed)

(* The pairs of positions a walk may be at.                                 *)
Places(a, b) == (1 .. Len(a) + 1) \X (1 .. Len(b) + 1)

(* At t the walk deals with the smaller of the two indices: the bits that   *)
(* each list has there, and where the walk goes, past one element or both.  *)
At(a, b, t) ==
  LET x == IndexAt(a, t[1])
      y == IndexAt(b, t[2])
  IN  [index |-> IF x <= y THEN x ELSE y,
       one   |-> IF x <= y THEN a[t[1]].bits ELSE {},
       two   |-> IF y <= x THEN b[t[2]].bits ELSE {},
       next  |-> <<IF x <= y THEN t[1] + 1 ELSE t[1],
                   IF y <= x THEN t[2] + 1 ELSE t[2]>>]

(* An element as the list keeps it: not at all once it is empty.            *)
Kept(i, bits) == IF bits = {} THEN <<>> ELSE <<[index |-> i, bits |-> bits]>>

Or(a, b) ==
  LET walk[t \in Places(a, b)] ==
        IF t[2] > Len(b) THEN Walked(SubSeq(a, t[1], Len(a)), FALSE)
        ELSE LET e == At(a, b, t) IN
             Then(Kept(e.index, e.one \cup e.two), ~(e.two \subseteq e.one), walk[e.next])
  IN  walk[<<1, 1>>]

(* An element that only the first list has goes without a report.           *)
And(a, b) ==
  LET walk[t \in Places(a, b)] ==
        IF t[1] > Len(a) \/ t[2] > Len(b) THEN Walked(<<>>, FALSE)
        ELSE LET e == At(a, b, t) IN
             Then(Kept(e.index, e.one \cap e.two),
                  e.two # {} /\ ~(e.one \subseteq e.two), walk[e.next])
  IN  walk[<<1, 1>>]

AndNot(a, b) ==
  LET walk[t \in Places(a, b)] ==
        IF t[1] > Len(a) \/ t[2] > Len(b)
             THEN Walked(SubSeq(a, t[1], Len(a)), FALSE)
        ELSE LET e == At(a, b, t) IN
             Then(Kept(e.index, e.one \ e.two), e.one \cap e.two # {}, walk[e.next])
  IN  walk[<<1, 1>>]

Intersects(a, b) ==
  LET meet[t \in Places(a, b)] ==
        /\ t[1] <= Len(a) /\ t[2] <= Len(b)
        /\ LET e == At(a, b, t) IN e.one \cap e.two # {} \/ meet[e.next]
  IN  meet[<<1, 1>>]

OrWith(m, n) ==
  /\ elems[n] # <<>>
  /\ LET s == Or(elems[m], elems[n]).elems IN Put(m, s, Begin(s))

AndWith(m, n) ==
  /\ elems[m] # <<>> \/ elems[n] # <<>>
  /\ LET s == And(elems[m], elems[n]).elems IN Put(m, s, Begin(s))

(* Mutation: the cached iterator is not reset.                              *)
IntersectWithComplementStale(m, n) ==
  /\ elems[m] # <<>> /\ elems[n] # <<>>
  /\ Put(m, AndNot(elems[m], elems[n]).elems, cur[m])

IntersectWithComplement(m, n) ==
  /\ elems[m] # <<>> /\ elems[n] # <<>>
  /\ LET s == AndNot(elems[m], elems[n]).elems IN Put(m, s, Begin(s))

(* clear() leaves the cached iterator at the sentinel, and the operations   *)
(* that clear first and then append elements leave it there.                *)
Clear(m) == Put(m, <<>>, Sentinel)

Assign(m, n) == Put(m, elems[n], Sentinel)

IntersectWithComplement3(m, n, k) ==
  Put(m, AndNot(elems[n], elems[k]).elems, Sentinel)

CopyConstruct(m, n) == Put(m, elems[n], Begin(elems[n]))

-----------------------------------------------------------------------------
(* Queries that leave the bitmap alone.                                     *)

Equal(a, b) == a = b
Count(s)    ==
  LET upTo[p \in 0 .. Len(s)] ==
        IF p = 0 THEN 0 ELSE upTo[p - 1] + Cardinality(s[p].bits)
  IN  upTo[Len(s)]
Find_first(s) ==
  IF s = <<>> THEN -1 ELSE s[1].index * ElementSize + Min(s[1].bits)
(* Mutation: only the first element is looked at.                           *)
SingleInFirst(s) == s # <<>> /\ Cardinality(s[1].bits) = 1

Single_bit_p(s) ==
  s # <<>> /\ IndexAt(s, 2) = Sentinel /\ Cardinality(s[1].bits) = 1

-----------------------------------------------------------------------------
Init == \E M \in DOMAIN Idx : /\ elems = [m \in M |-> <<>>]
                              /\ cur = [m \in M |-> Sentinel]

OneBit(m) == \E x \in Idx[Maps] : TestBit(m, x) \/ Set(m, x) \/ Reset(m, x)

Whole(m) ==
  \/ Clear(m)
  \/ \E n \in Maps \ {m} :
       \/ OrWith(m, n) \/ AndWith(m, n) \/ IntersectWithComplement(m, n)
       \/ Assign(m, n) \/ CopyConstruct(m, n)
  \/ \E n, k \in Maps \ {m} : IntersectWithComplement3(m, n, k)

Next == \E m \in Maps : OneBit(m) \/ Whole(m)

Spec == Init /\ [][Next]_vars
=============================================================================
