---------------------------- MODULE PrioWorklist ----------------------------
(***************************************************************************)
(* What the solver expects of its worklist: two sets of <<node, priority>> *)
(* entries with at most one entry per node.  Pushes go to next, an entry   *)
(* of the lowest priority is popped from curr, and the two are exchanged   *)
(* when curr is empty.  These are the steps Solver takes on curr and next. *)
(***************************************************************************)
CONSTANTS Val, Key, Leq(_, _)

VARIABLES curr, next

Init == curr = {} /\ next = {}

Push(v, k) ==
  /\ next' = {e \in next : e[1] # v} \cup {<<v, k>>}
  /\ UNCHANGED curr

Pop ==
  \E e \in curr :
    /\ \A f \in curr : Leq(e[2], f[2])
    /\ curr' = curr \ {e}
    /\ UNCHANGED next

Swap == curr = {} /\ curr' = next /\ next' = {}

Next == (\E v \in Val, k \in Key : Push(v, k)) \/ Pop \/ Swap

Spec == Init /\ [][Next]_<<curr, next>>
=============================================================================
