------------------------- MODULE ConsOptProperties -------------------------
(* What cons_opt owes the solver: the constraints it leaves mean what the   *)
(* original ones mean.                                                      *)
EXTENDS ConsOpt

Functions(F) == {v \in OldNodes : move_to[v] \in F}

Old == INSTANCE ConstraintSystem WITH ObjSz <- OldSz,
         FuncNode <- Functions(FuncNode), ExtNode <- Functions(ExtNode),
         NonPtrVal <- Functions(NonPtrVal), Node <- OldNodes

(* The least solution of each input, by old numbers.                        *)
OldLeast == [s \in Inputs |-> Old!Least(s)]

(* The least solution now, with merged nodes taken for one: copies both     *)
(* ways between a node and its representative.                              *)
Equalities ==
  LET copy(d, s) == [type |-> "copy", dest |-> d, src |-> s, off |-> 0]
      both(v) == <<copy(v, g.rep[v]), copy(g.rep[v], v)>>
  IN FlattenSeq([v \in 1 .. size - 1 |-> IF is_rep(g, v) THEN <<>> ELSE both(v)])

NewLeast == Least([cons |-> cons \o Equalities, icall |-> icall])

(* Does every pointer that is dereferenced point to something?              *)
AllPoint ==
  \A C \in Range(input.cons) :
    C.type \in {"load", "store"} => OldLeast[input][Old!Base(C)] \ {i2p} # {}

(* cons_opt does not change what the analysis computes: every variable has, *)
(* through its representative and its new number, at least the pointees it  *)
(* has in the least solution of the original constraints, and exactly these *)
(* when every pointer dereferenced points to something (a cycle through *p  *)
(* is a cycle only if p has a pointee).                                     *)
KeepsSolution ==
  phase = "done" =>
    LET S == NewLeast IN
    \A v \in OldNodes :
      LET old == {move_to[o] : o \in OldLeast[input][v]}
          new == S[move_to[v]]
      IN old \subseteq new /\ (AllPoint => old = new)

(* What the solver takes for granted when it starts: no assert of cons_opt  *)
(* has failed; every call instruction is attached to listed constraints     *)
(* only, and to one for each it was attached to whose pointer and stored    *)
(* argument may point to something; *v and the HCD variable of v have the   *)
(* same pointees; and no load or store is left unfactored.                  *)
ReadyToSolve ==
  /\ phase # "abort"
  /\ phase = "done" =>
       LET S == NewLeast IN
       /\ \A e \in icall : e[1] \in Range(cons)
       /\ \A e \in input.icall :
            LET p == move_to[Old!Base(e[1])] IN
            {} \in {S[p], S[move_to[e[1].src]]}
            \/ \E d \in icall : /\ d[2] = e[2] /\ d[1].type = e[1].type
                               /\ Key(d[1]) = <<g.rep[p], e[1].off>>
       /\ \A v \in Node : is_rep(g, v) /\ g.hcd_var[v] # 0 =>
            \A o \in S[v] \ {i2p} : S[o] = S[g.rep[g.hcd_var[v]]]
       /\ \A C \in Range(cons) : ~Factored(C)
=============================================================================
