------------------------------ MODULE MCBitmap ------------------------------
(* Three bitmaps with few bits, or one with more.  An element has two words *)
(* of two bits.                                                             *)
EXTENDS BitmapProperties, BitmapIterator, TLC

CONSTANTS b1, b2, b3

(* With others: two bits in different words of one element and one in the   *)
(* next.  Alone: two bits of one word, the next word of the element, and    *)
(* two more elements.                                                       *)
SomeBits == {b1, b2, b3} :> {1, 2, 6} @@ {b1} :> {0, 1, 3, 6, 9}

(* b2 and b3 are used alike.                                                *)
Alike == Permutations({b2, b3})
=============================================================================
