--------------------------- MODULE BitmapIterator ---------------------------
(* The iterator of bitmap.h over one bitmap, and the loops of the solver    *)
(* that change the bitmap while they iterate: solve_node takes a bit, moves *)
(* the iterator past it and may then reset the bit it took; lcd_dfs         *)
(* recurses between two bits, which may add bits to the bitmap.  The        *)
(* iterator keeps a copy of the rest of the word it is in.                  *)
EXTENDS Bitmap

CONSTANT It             \* the bitmap iterated over

ASSUME ItAssumption == \A M \in DOMAIN Idx : It \in M

VARIABLES iter,         \* the iterator; Idle between two loops
          last,         \* cid: the bit the loop body works on, or None
          start,        \* the bits when the loop began (for the properties)
          got           \* the bits taken so far (for the properties)

iterVars == <<iter, last, start, got>>
allVars  == <<vars, iterVars>>

None  == -1
Idle  == [at |-> None, bit |-> None, bits |-> {}]
AtEnd == [at |-> Sentinel, bit |-> None, bits |-> {}]
Running == iter \notin {Idle, AtEnd}

(* An iterator at bit number bit of the element at: bits is its copy of the *)
(* rest of the current word.                                                *)
Cursor(at, bit, S) ==
  [at |-> at, bit |-> bit,
   bits |-> {x \in S : x \div WORDSZ = bit \div WORDSZ /\ x >= bit}]

(* The first bit of the element at position p, if there is one.             *)
AtElement(s, p) ==
  IF p > Len(s) THEN AtEnd
  ELSE Cursor(s[p].index, Min(BitsOfElement(s[p])), BitsOfElement(s[p]))

AdvanceToFirstNonZero(s) == AtElement(s, 1)

(* Mutation: only one bit of an element is visited.                         *)
AdvanceToNextElement(s, t) == AtElement(s, Position(s, t.at) + 1)

(* Past the current bit: within the copied word if it has bits left, else   *)
(* to what the element now holds after it, else to the next element.        *)
AdvanceToNextNonZero(s, t) ==
  LET b    == t.bit + 1
      rest == {x \in t.bits : x >= b}
      p    == Position(s, t.at)
      more == {x \in BitsOfElement(s[p]) : x >= b}
  IN
  IF rest # {} THEN [at |-> t.at, bit |-> Min(rest), bits |-> rest]
  ELSE IF b % ElementSize = 0 \/ more = {} THEN AtElement(s, p + 1)
  ELSE Cursor(t.at, Min(more), more)

-----------------------------------------------------------------------------
IterInit == /\ Init
            /\ iter = Idle /\ last = None /\ start = {} /\ got = {}

Start ==
  /\ iter = Idle
  /\ iter' = AdvanceToFirstNonZero(elems[It])
  /\ start' = BitsOf(elems[It])
  /\ UNCHANGED <<vars, last, got>>

(* cid = *it; ++it                                                          *)
Take ==
  /\ Running
  /\ last' = iter.bit
  /\ got' = got \cup {iter.bit}
  /\ iter' = AdvanceToNextNonZero(elems[It], iter)
  /\ UNCHANGED <<vars, start>>

(* The loop body removes the constraint it has dealt with.                  *)
ResetTaken ==
  /\ last # None
  /\ Reset(It, last)
  /\ last' = None
  /\ UNCHANGED <<iter, start, got>>

(* The body adds a bit, by itself or with a node it merges into this one.   *)
BodySets ==
  /\ last # None
  /\ \E x \in Idx[Maps] : Set(It, x)
  /\ UNCHANGED iterVars

(* The loop is over; the bitmaps are used otherwise until the next one.     *)
Stop ==
  /\ iter = AtEnd
  /\ iter' = Idle /\ last' = None /\ start' = {} /\ got' = {}
  /\ UNCHANGED vars

Between ==
  /\ iter = Idle
  /\ Next
  /\ UNCHANGED iterVars

IterNext == Start \/ Take \/ ResetTaken \/ BodySets \/ Stop \/ Between

IterSpec == IterInit /\ [][IterNext]_allVars

-----------------------------------------------------------------------------
(* A loop takes every bit that was there when it began, so that no          *)
(* constraint and no copy edge is skipped by a change of the bitmap, and    *)
(* its iterator never rests on an element that has left the list: resetting *)
(* the bit just taken may free its element, which is why solve_node moves   *)
(* on first ("Move past the current element because we may erase it.").     *)
TakesAll ==
  /\ Running => iter.at \in Indices(elems[It])
  /\ iter = AtEnd => start \subseteq got

(* Bits are taken in ascending order, and only bits that are in the bitmap: *)
(* the copied word never yields a bit that was reset since.                 *)
TakesInOrder ==
  [][\A x \in got' \ got : x \in BitsOf(elems[It]) /\ \A y \in got : y < x]_allVars
=============================================================================
