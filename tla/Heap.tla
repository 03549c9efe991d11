-------------------------------- MODULE Heap --------------------------------
(***************************************************************************)
(* The binary heap of heap.h with the position of every value.  A push of  *)
(* a value that is in the heap replaces its key in place.  The loops of    *)
(* perc_up and perc_dn take one step per exchange; pc says which of them   *)
(* is running and i is the position it has reached.                        *)
(*                                                                         *)
(* The unused word in front of the items is left out: items are 1 .. nv.   *)
(***************************************************************************)
EXTENDS Integers, Sequences

CONSTANTS Val, Key

ASSUME ValAssumption == Val \subseteq Nat /\ Key \subseteq Nat

NONE == 0

VARIABLES
  hk, hv,   \* keys and values of the items
  idxv,     \* [Val -> position or NONE]
  pc, i

vars == <<hk, hv, idxv, pc, i>>

nv == Len(hk)

Init ==
  /\ hk = <<>> /\ hv = <<>>
  /\ idxv = [v \in Val |-> NONE]
  /\ pc = "idle" /\ i = 0

-----------------------------------------------------------------------------
Append1(v, k) ==
  /\ idxv[v] = NONE
  /\ hk' = Append(hk, k) /\ hv' = Append(hv, v)
  /\ idxv' = [idxv EXCEPT ![v] = nv + 1]
  /\ pc' = "up" /\ i' = nv + 1

(* Mutation: the item is moved up whatever its new key.                    *)
DirectionUp(old, k) == "up"

Direction(old, k) == IF k < old THEN "up" ELSE "down"

ChangeKey(v, k) ==
  /\ idxv[v] # NONE
  /\ LET p == idxv[v] IN
     IF k = hk[p]
       THEN UNCHANGED <<hk, pc, i>>
       ELSE /\ hk' = [hk EXCEPT ![p] = k]
            /\ pc' = Direction(hk[p], k)
            /\ i' = p
  /\ UNCHANGED <<hv, idxv>>

push(v, k) == pc = "idle" /\ (Append1(v, k) \/ ChangeKey(v, k))

(* Mutation: the position of the item moved to the top is not updated.     *)
PoppedIndexStale(v, lv) == [idxv EXCEPT ![v] = NONE]

(* The last item is put on top, unless it is the one returned.             *)
PoppedIndex(v, lv) ==
  IF v = lv THEN [idxv EXCEPT ![v] = NONE]
            ELSE [idxv EXCEPT ![v] = NONE, ![lv] = 1]

pop ==
  /\ pc = "idle" /\ nv > 0
  /\ hk' = [p \in 1 .. (nv - 1) |-> IF p = 1 THEN hk[nv] ELSE hk[p]]
  /\ hv' = [p \in 1 .. (nv - 1) |-> IF p = 1 THEN hv[nv] ELSE hv[p]]
  /\ idxv' = PoppedIndex(hv[1], hv[nv])
  /\ pc' = IF nv > 1 THEN "down" ELSE "idle"
  /\ i' = 1

-----------------------------------------------------------------------------
Swapped(s, p, q) == [s EXCEPT ![p] = s[q], ![q] = s[p]]

(* Exchange the items at p and q.                                          *)
Exchange(p, q) ==
  /\ hk' = Swapped(hk, p, q)
  /\ hv' = Swapped(hv, p, q)
  /\ idxv' = [idxv EXCEPT ![hv[p]] = q, ![hv[q]] = p]

Stop == pc' = "idle" /\ UNCHANGED <<hk, hv, idxv, i>>

perc_up ==
  LET ip == i \div 2 IN
  /\ pc = "up"
  /\ IF ip = 0 \/ hk[ip] <= hk[i]
       THEN Stop
       ELSE Exchange(ip, i) /\ i' = ip /\ pc' = pc

(* Mutation: always the left child.                                        *)
LeftChild(p) == 2 * p

(* The position of the child with the smaller key.                         *)
SmallerChild(p) ==
  IF 2 * p < nv /\ hk[2 * p + 1] < hk[2 * p] THEN 2 * p + 1 ELSE 2 * p

perc_dn ==
  LET ic == SmallerChild(i) IN
  /\ pc = "down"
  /\ IF 2 * i > nv \/ hk[ic] >= hk[i]
       THEN Stop
       ELSE Exchange(i, ic) /\ i' = ic /\ pc' = pc

Next == (\E v \in Val, k \in Key : push(v, k)) \/ pop \/ perc_up \/ perc_dn

Spec == Init /\ [][Next]_vars

-----------------------------------------------------------------------------
Entries == {<<hv[p], hk[p]>> : p \in 1 .. nv}

TypeOK ==
  /\ hk \in Seq(Key) /\ hv \in Seq(Val) /\ Len(hv) = Len(hk)
  /\ idxv \in [Val -> 0 .. Len(hk)]
  /\ pc \in {"idle", "up", "down"}
  /\ i \in Nat
  /\ pc # "idle" => i \in 1 .. Len(hk)

(* idxv is the inverse of hv at every moment, so that no value is in the   *)
(* heap twice and a key is changed at the right place, although push, pop  *)
(* and the exchanges each write both.                                      *)
IndexInverse ==
  /\ \A p \in 1 .. nv : idxv[hv[p]] = p
  /\ \A v \in Val : idxv[v] # NONE => hv[idxv[v]] = v

(* The heap property holds but for the item at i: it may be too small for its    *)
(* place while it moves up and too large while it moves down, and its      *)
(* parent is in order with its children in both cases.                     *)
OrderInv ==
  /\ \A p \in 2 .. nv : hk[p \div 2] <= hk[p] \/ (pc = "up" /\ p = i)
                                             \/ (pc = "down" /\ p \div 2 = i)
  /\ \A p \in 2 .. nv : pc # "idle" /\ p \div 2 = i /\ i > 1 => hk[i \div 2] <= hk[p]

(* When no operation is running the heap is ordered, also after the key of *)
(* an item in the middle was raised or lowered.                            *)
HeapOrder == pc = "idle" => \A p \in 2 .. nv : hk[p \div 2] <= hk[p]
=============================================================================
