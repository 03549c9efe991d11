-------------------------- MODULE BitmapProperties --------------------------
(* What must hold of the bitmaps between two calls, and that they implement *)
(* the sets of BitSet.tla.                                                  *)
EXTENDS Bitmap

(* CurrElementIter never points to an element that has left the list: the   *)
(* node is on the free list then, and may already serve another bitmap.     *)
CurValid ==
  \A m \in Maps : cur[m] \in Indices(elems[m]) \cup {Sentinel}

(* The queries agree with the sets: whatever element the cached iterator    *)
(* was left at, a bit is found exactly if it is there; bitmaps are equal    *)
(* (as keys of lbl2pe) exactly if their bits are, and the counts and bounds are those of the    *)
(* bits; |= and the removal of another bitmap report a change exactly if    *)
(* there is one, as lcd_dfs and the solver assume.                          *)
QueriesAgree ==
  \A m \in Maps :
    LET a == elems[m]
        A == BitsOf(a)
    IN
    /\ \A x \in 0 .. Sentinel * ElementSize - 1 : Test(a, cur[m], x) <=> x \in A
    /\ Count(a) = Cardinality(A)
    /\ Find_first(a) = IF A = {} THEN -1 ELSE Min(A)
    /\ Single_bit_p(a) <=> Cardinality(A) = 1
    /\ \A n \in Maps \ {m} :
         LET b == elems[n]
             B == BitsOf(b)
         IN
         /\ Equal(a, b) <=> A = B
         /\ Intersects(a, b) <=> A \cap B # {}
         /\ Or(a, b).changed <=> ~(B \subseteq A)
         /\ AndNot(a, b).changed <=> A \cap B # {}

BS == INSTANCE BitSet WITH set <- [m \in Maps |-> BitsOf(elems[m])]

(* Every call changes the set of bits exactly as its name says.             *)
ImplementsBitSet == BS!Spec
=============================================================================
