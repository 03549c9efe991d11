------------------------------ MODULE MCSystems ------------------------------
(***************************************************************************)
(* Families of constraint systems for model checking: some fixed           *)
(* constraints and every subset of some optional groups of constraints,    *)
(* restricted to the lists cons_opt leaves as they are and so hands to the *)
(* solver.                                                                 *)
(***************************************************************************)
EXTENDS OfflineGraph

p_i2p == 2

Mk(t, d, s, k) == [type |-> t, dest |-> d, src |-> s, off |-> k]

Lists(fixed, groups) ==
  {<<Mk("addr_of", p_i2p, i2p, 0)>> \o fixed
     \o FlattenSeq([i \in DOMAIN groups |-> IF i \in I THEN groups[i] ELSE <<>>]) :
     I \in SUBSET (DOMAIN groups)}

Defs(cons, v) == {C \in Range(cons) : C.type # "store" /\ C.dest = v}

(* Variables with several definitions that are not all operands of a phi.  *)
Joined(cons) ==
  {v \in Node : /\ HasOff(v) /\ Cardinality(Defs(cons, v)) > 1
                /\ \E C \in Defs(cons, v) : C.type # "copy"}

(* The program is in SSA form.  HVN merges the variables of a component,   *)
(* so a joined variable may stand for loads from its own component and for *)
(* phis.                                                                   *)
Ssa(cons) ==
  LET P == Closure(OffEdges(cons) \cup ImplEdges(cons))
  IN \A v \in Joined(cons) \ AFP : \A C \in Defs(cons, v) :
       \/ C.type = "copy"
       \/ C.type = "load" /\ C.off = 0 /\ Together(P, Ref(C.src), Var(v))

(* No two variables have the same labels, or HRU would have merged them,   *)
(* and a variable without labels is in no constraint.                      *)
NonPtrs(labels) == {v \in DOMAIN labels : labels[v] = {}}

Merged(cons, labels) ==
  /\ \A v, w \in DOMAIN labels \ NonPtrs(labels) : labels[v] = labels[w] => v = w
  /\ \A C \in Range(cons) : {C.dest, C.src} \cap NonPtrs(labels) = {}
  /\ OneVarPerComponent(cons)

(* No two loads from, or stores to, one pointer and offset.                *)
Factored(cons) ==
  \A C, D \in Range(cons) :
    (C.type = D.type /\ C.type \in {"load", "store"} /\ C.off = D.off
       /\ Base(C) = Base(D)) => C = D

(* The systems made of those lists.  calls gives call instructions to some *)
(* constraints; up are variables of higher rank, that more variables were  *)
(* merged into.                                                            *)
Systems(lists, calls, up) ==
  {[cons |-> cl[1],
    icall |-> {e \in calls : e[1] \in Range(cl[1])},
    rank |-> [v \in Node |-> IF v \in up THEN 2
                             ELSE IF v \in Joined(cl[1]) THEN 1 ELSE 0],
    hcd_var |-> HcdVar(cl[1]),
    nonptr |-> NonPtrs(cl[2])] :
     cl \in {d \in {<<l, HuLabels(l)>> : l \in {k \in lists : Ssa(k) /\ Factored(k)}} :
              Merged(d[1], d[2])}}

Family(fixed, groups) == Systems(Lists(fixed, groups), {}, {})
=============================================================================
