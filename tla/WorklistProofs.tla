--------------------------- MODULE WorklistProofs ---------------------------
(***************************************************************************)
(* The two heaps implement two sets of entries, for every set of values    *)
(* and keys: what is proved of one heap in HeapProofs is used for each.    *)
(***************************************************************************)
EXTENDS Worklist, HeapProofs

FollowProofs == INSTANCE HeapProofs WITH hk <- fk, hv <- fv, idxv <- fidx, pc <- fpc, i <- fi

WInv == IInv /\ FollowProofs!IInv

(* The heap next, as Worklist and as the proofs name it.                   *)
LEMMA SameFollow ==
  /\ Follow!Entries = FollowProofs!Entries
  /\ Follow!Entries' = FollowProofs!Entries'
  /\ Follow!Init = FollowProofs!Init
  /\ \A v, k : Follow!push(v, k) = FollowProofs!push(v, k)
  /\ (Follow!perc_up \/ Follow!perc_dn) = (FollowProofs!perc_up \/ FollowProofs!perc_dn)
BY DEF Follow!Entries, FollowProofs!Entries, Follow!Init, FollowProofs!Init,
   Follow!nv, FollowProofs!nv, Follow!NONE, FollowProofs!NONE,
   Follow!push, FollowProofs!push, Follow!Append1, FollowProofs!Append1,
   Follow!ChangeKey, FollowProofs!ChangeKey, Follow!Direction, FollowProofs!Direction,
   Follow!perc_up, FollowProofs!perc_up, Follow!perc_dn, FollowProofs!perc_dn,
   Follow!Stop, FollowProofs!Stop, Follow!Exchange, FollowProofs!Exchange,
   Follow!Swapped, FollowProofs!Swapped, Follow!SmallerChild, FollowProofs!SmallerChild

(* What is left alone keeps its entries and its invariant.                 *)
LEMMA CurrKept ==
  ASSUME UNCHANGED currVars
  PROVE  Entries' = Entries /\ (IInv => IInv')
BY StutterInv DEF currVars, vars, Entries, nv

LEMMA NextKept ==
  ASSUME UNCHANGED nextVars
  PROVE  /\ FollowProofs!Entries' = FollowProofs!Entries
         /\ FollowProofs!IInv => FollowProofs!IInv'
BY FollowProofs!StutterInv, ValAssumption
   DEF nextVars, FollowProofs!vars, FollowProofs!Entries, FollowProofs!nv

LEMMA SwapIsSwap ==
  ASSUME WInv, swap_if_empty
  PROVE  WInv' /\ Abs!Swap
<1>1. WInv'
  BY DEF WInv, swap_if_empty, Idle, SwappedIndex,
     IInv, TypeOK, IndexInverse, OrderInv, nv, NONE,
     FollowProofs!IInv, FollowProofs!TypeOK, FollowProofs!IndexInverse,
     FollowProofs!OrderInv, FollowProofs!nv, FollowProofs!NONE
<1>2. Entries = {} /\ Entries' = Follow!Entries /\ Follow!Entries' = Entries
  <2>1. nv = 0
    BY DEF swap_if_empty, nv
  <2>2. hk' = fk /\ hv' = fv /\ fk' = hk /\ fv' = hv
    BY DEF swap_if_empty
  <2>3. Entries = {}
    BY <2>1 DEF Entries
  <2> QED
    BY <2>2, <2>3 DEF Entries, nv, Follow!Entries, Follow!nv
<1> QED
  BY <1>1, <1>2 DEF Abs!Swap

(* Each step of the heaps is one of the sets, or none.                     *)
LEMMA StepsAreSteps ==
  ASSUME WInv, [WNext]_<<currVars, nextVars>>
  PROVE  WInv' /\ [Abs!Next]_<<Entries, Follow!Entries>>
<1> USE SameFollow, ValAssumption
<1>1. CASE \E v \in Val, k \in Key : WPush(v, k)
  <2>1. PICK v \in Val, k \in Key : WPush(v, k)
    BY <1>1
  <2>2. FollowProofs!push(v, k) /\ UNCHANGED currVars
    BY <2>1 DEF WPush
  <2>3. Follow!Entries' = {e \in Follow!Entries : e[1] # v} \cup {<<v, k>>}
    BY <2>2, FollowProofs!PushEntries DEF WInv
  <2>4. FollowProofs!IInv'
    BY <2>2, FollowProofs!AppendInv, FollowProofs!ChangeKeyInv DEF WInv, FollowProofs!push
  <2>5. Entries' = Entries /\ IInv'
    BY <2>2, CurrKept DEF WInv
  <2> QED
    BY <2>3, <2>4, <2>5 DEF WInv, Abs!Next, Abs!Push
<1>2. CASE WPop
  <2>1. pop /\ UNCHANGED nextVars
    BY <1>2 DEF WPop
  <2>2. IInv' /\ \E e \in Entries : /\ \A f \in Entries : e[2] <= f[2]
                                    /\ Entries' = Entries \ {e}
    BY <2>1, PopInv, PopEntries DEF WInv
  <2>3. Follow!Entries' = Follow!Entries /\ FollowProofs!IInv'
    BY <2>1, NextKept DEF WInv
  <2> QED
    BY <2>2, <2>3 DEF WInv, Abs!Next, Abs!Pop
<1>3. CASE swap_if_empty
  BY <1>3, SwapIsSwap DEF Abs!Next
<1>4. CASE (perc_up \/ perc_dn) /\ UNCHANGED nextVars
  <2>1. IInv' /\ Entries' = Entries
    BY <1>4, UpInv, DownInv, PercolateEntries DEF WInv
  <2> QED
    BY <1>4, <2>1, NextKept DEF WInv
<1>5. CASE (Follow!perc_up \/ Follow!perc_dn) /\ UNCHANGED currVars
  <2>1. FollowProofs!perc_up \/ FollowProofs!perc_dn
    BY <1>5
  <2>2. FollowProofs!IInv' /\ FollowProofs!Entries' = FollowProofs!Entries
    BY <2>1, FollowProofs!UpInv, FollowProofs!DownInv, FollowProofs!PercolateEntries DEF WInv
  <2> QED
    BY <1>5, <2>2, CurrKept DEF WInv
<1>6. CASE UNCHANGED <<currVars, nextVars>>
  BY <1>6, CurrKept, NextKept DEF WInv
<1> QED
  BY <1>1, <1>2, <1>3, <1>4, <1>5, <1>6 DEF WNext, Percolate

(* The dual worklist of worklist.h is what the solver takes it for: a push *)
(* queues a node once, with its last priority; a pop takes an entry of the *)
(* least priority; the heaps are exchanged when curr is empty.             *)
THEOREM WorklistIsQueue == WSpec => ImplementsQueue
<1>1. WInit => WInv /\ Abs!Init
  <2>1. WInit => WInv
    BY InitInv, FollowProofs!InitInv, ValAssumption, SameFollow DEF WInit, WInv
  <2>2. WInit => Entries = {} /\ FollowProofs!Entries = {}
    <3>1. WInit => nv = 0 /\ FollowProofs!nv = 0
      BY SameFollow DEF WInit, Init, nv, FollowProofs!Init, FollowProofs!nv
    <3> QED
      BY <3>1 DEF Entries, FollowProofs!Entries
  <2> QED
    BY <2>1, <2>2, SameFollow DEF Abs!Init
<1>2. WInv /\ [WNext]_<<currVars, nextVars>> => WInv' /\ [Abs!Next]_<<Entries, Follow!Entries>>
  BY StepsAreSteps
<1> QED
  BY <1>1, <1>2, PTL DEF WSpec, ImplementsQueue, Abs!Spec
=============================================================================
