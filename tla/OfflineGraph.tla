---------------------------- MODULE OfflineGraph ----------------------------
(***************************************************************************)
(* The offline constraint graph of cons_opt.cpp over a list of constraints *)
(* and what its phases conclude from it: the pointer-equivalence labels of *)
(* HVN and HRU, and the offline cycles of hybrid cycle detection.  Both    *)
(* are stated on the reachability relation of the graph; the depth-first   *)
(* searches that compute them are not part of this module.                 *)
(***************************************************************************)
EXTENDS ConstraintSystem

(* Parameters and return values of address-taken functions.                *)
AFP == {v \in Node : \E f \in FuncNode : f < v /\ v < f + ObjSz[f]}

(* Nodes of the main graph with an offline node: the AFPs and the          *)
(* top-level variables with p_i2p.  Their dereferences have one each, too. *)
HasOff(v) == v \in AFP \/ (ObjSz[v] = 0 /\ v > i2p)
Var(v) == <<"var", v>>
Ref(v) == <<"ref", v>>

(* The edge dest -> src of a constraint without offset.                    *)
OffEdge(C) ==
  CASE C.type = "copy"  -> <<Var(C.dest), Var(C.src)>>
    [] C.type = "load"  -> <<Var(C.dest), Ref(C.src)>>
    [] C.type = "store" -> <<Ref(C.dest), Var(C.src)>>

(* Constraints with an object node for the dest, or copies from one, have  *)
(* no edge; neither have loads and stores with an offset.                  *)
OffEdges(cons) ==
  {OffEdge(C) : C \in {c \in Range(cons) :
     /\ c.type \in {"copy", "load", "store"} /\ c.off = 0
     /\ HasOff(c.dest) /\ HasOff(c.src)}}

(* Implicit edges: what D points to is pointed to by what S points to.     *)
ImplEdges(cons) ==
  {<<Ref(C.dest), IF C.type = "copy" THEN Ref(C.src) ELSE Var(C.src)>> :
     C \in {c \in Range(cons) : /\ c.type \in {"copy", "addr_of"}
                                /\ HasOff(c.dest) /\ HasOff(c.src)}}

(* The transitive closure of a set of edges.                               *)
Closure(E) ==
  LET Through(k, P) == P \cup ({e[1] : e \in {f \in P : f[2] = k}}
                               \X {e[2] : e \in {f \in P : f[1] = k}})
  IN FoldSet(Through, E, {e[1] : e \in E})

(* Are m and k in one strongly connected component, given all paths?       *)
Together(P, m, k) == m = k \/ {<<m, k>>, <<k, m>>} \subseteq P

-----------------------------------------------------------------------------
(* Hybrid cycle detection: v is mapped to w when *v and w are in one       *)
(* component of the graph without the implicit edges.                      *)
HcdVar(cons) ==
  LET P == Closure(OffEdges(cons))
      vars(v) == {w \in Node : Together(P, Ref(v), Var(w))}
  IN [v \in Node |-> IF vars(v) = {} THEN 0 ELSE CHOOSE w \in vars(v) : TRUE]

(* hcd merges the variables of a component, so at most one is left in each *)
(* when the solver starts.                                                 *)
OneVarPerComponent(cons) ==
  LET P == Closure(OffEdges(cons))
  IN \A v, w \in Node : Together(P, Var(v), Var(w)) => v = w

-----------------------------------------------------------------------------
(* Offline nodes that may have pointees no edge from them accounts for.    *)
Indirect(cons, m) ==
  \/ m[1] = "ref" \/ m[2] \in AFP
  \/ \E C \in Range(cons) :
       /\ C.dest = m[2]
       /\ \/ C.type = "load" /\ C.off > 0
          \/ C.type = "copy" /\ ~HasOff(C.src)

(* The labels a node of the graph starts with: the object it is the        *)
(* address of, the GEP it is the result of.                                *)
PreLabels(cons, m) ==
  IF m[1] = "ref" THEN {}
  ELSE {{<<C.type, C.src, C.off>>} : C \in {c \in Range(cons) :
          c.type \in {"addr_of", "gep"} /\ c.dest = m[2]}}

(* The label set hu_label gives each variable: all labels that reach it    *)
(* against the constraint edges, when the components of all edges are      *)
(* taken for one node.  A component with an indirect node has a label of   *)
(* its own.                                                                *)
HuLabels(cons) ==
  LET E == OffEdges(cons)
      P == Closure(E \cup ImplEdges(cons))
      L == Closure(E \cup {e \in P : <<e[2], e[1]>> \in P})
      own(m) == PreLabels(cons, m) \cup
                IF Indirect(cons, m) THEN {{m} \cup {e[2] : e \in {f \in P :
                                             f[1] = m /\ <<f[2], m>> \in P}}}
                                     ELSE {}
      reached(m) == {m} \cup {e[2] : e \in {f \in L : f[1] = m}}
  IN [v \in {x \in Node : HasOff(x)} |-> UNION {own(m) : m \in reached(Var(v))}]
=============================================================================
