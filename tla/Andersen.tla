------------------------------ MODULE Andersen ------------------------------
(***************************************************************************)
(* What a solver of a constraint system promises, whatever its data        *)
(* structures: points-to sets only grow, they never leave the least        *)
(* solution, and the solver says "solved" only with a solution.  The       *)
(* program may also stop early when it runs out of its time or memory      *)
(* allowance; the sets it leaves then are a part of the least solution.    *)
(***************************************************************************)
EXTENDS ConstraintSystem

CONSTANTS
  Inputs,   \* the systems it may be given
  LeastOf   \* [s \in Inputs |-> Least(s)]

VARIABLES sys, pt, status

vars == <<sys, pt, status>>

Below(S, T) == \A n \in Node : S[n] \subseteq T[n]

Init ==
  /\ sys \in Inputs
  /\ pt = [n \in Node |-> {C.src : C \in {c \in OfType(sys, "addr_of") : c.dest = n}}]
  /\ status = "running"

(* Any part of the least solution may be discovered.                       *)
Discover ==
  /\ status = "running"
  /\ Below(pt, pt')
  /\ Below(pt', LeastOf[sys])
  /\ UNCHANGED <<sys, status>>

Solved ==
  /\ status = "running"
  /\ IsSolution(sys, pt)
  /\ status' = "solved"
  /\ UNCHANGED <<sys, pt>>

Exhausted ==
  /\ status = "running"
  /\ status' = "partial"
  /\ UNCHANGED <<sys, pt>>

Next == Discover \/ Solved \/ Exhausted

(* The abstract solver always answers.                                     *)
Spec == Init /\ [][Next]_vars /\ <>(status # "running")
=============================================================================
