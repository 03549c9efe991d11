------------------------------- MODULE BitSet -------------------------------
(* What a bitmap promises: a set of numbers per bitmap, changed by the     *)
(* operations of its interface.  Bitmap.tla implements it with a linked    *)
(* list of elements and a cached position.                                 *)
EXTENDS Naturals

CONSTANT Idx   \* per set of bitmaps: the bits set and reset one at a time

VARIABLE set            \* set[m]: the bits of bitmap m

Maps == DOMAIN set

Init == \E M \in DOMAIN Idx : set = [m \in M |-> {}]

Put(m, S) == set' = [set EXCEPT ![m] = S]

Next ==
  \E m \in Maps :
    \/ \E x \in Idx[Maps] : Put(m, set[m] \cup {x}) \/ Put(m, set[m] \ {x})
    \/ \E n \in Maps \ {m} : \/ Put(m, set[n])
                             \/ Put(m, set[m] \cup set[n])
                             \/ Put(m, set[m] \cap set[n])
                             \/ Put(m, set[m] \ set[n])
    \/ \E n, k \in Maps \ {m} : Put(m, set[n] \ set[k])
    \/ Put(m, {})

Spec == Init /\ [][Next]_set
=============================================================================
