------------------------------ MODULE Worklist ------------------------------
(***************************************************************************)
(* The dual worklist of worklist.h (WL_ORDER == WLO_PRIO, DUAL_WL == 1):   *)
(* two heaps, exchanged member by member when curr is empty.  The          *)
(* variables and actions taken over from Heap are those of curr; Follow    *)
(* is the heap next.  The two are shown to implement PrioWorklist, the     *)
(* entries of each heap as a set.                                          *)
(***************************************************************************)
EXTENDS Heap

VARIABLES fk, fv, fidx, fpc, fi    \* next

currVars == vars
nextVars == <<fk, fv, fidx, fpc, fi>>

Follow == INSTANCE Heap WITH hk <- fk, hv <- fv, idxv <- fidx, pc <- fpc, i <- fi

WInit == Init /\ Follow!Init

Idle == pc = "idle" /\ fpc = "idle"

WPush(v, k) == Idle /\ Follow!push(v, k) /\ UNCHANGED currVars

WPop == Idle /\ pop /\ UNCHANGED nextVars

SwappedIndex == idxv' = fidx /\ fidx' = idxv

swap_if_empty ==
  /\ Idle /\ hk = <<>>
  /\ hk' = fk /\ fk' = hk
  /\ hv' = fv /\ fv' = hv
  /\ SwappedIndex
  /\ UNCHANGED <<pc, i, fpc, fi>>

Percolate ==
  \/ (perc_up \/ perc_dn) /\ UNCHANGED nextVars
  \/ (Follow!perc_up \/ Follow!perc_dn) /\ UNCHANGED currVars

WNext == (\E v \in Val, k \in Key : WPush(v, k)) \/ WPop \/ swap_if_empty \/ Percolate

WSpec == WInit /\ [][WNext]_<<currVars, nextVars>>

(* Each operation of the two heaps is one step of two sets of entries: a   *)
(* node is queued at most once in each list, with its latest priority, and *)
(* an entry of the lowest priority is popped.                              *)
Abs == INSTANCE PrioWorklist
         WITH Leq <- <=, curr <- Entries, next <- Follow!Entries

ImplementsQueue == Abs!Spec
=============================================================================
