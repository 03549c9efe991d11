---------------------------- MODULE SolverProofs ----------------------------
(***************************************************************************)
(* What the operations of ConstraintGraph preserve - the graph stays typed *)
(* and canonical (representatives own everything), points-to sets grow and *)
(* merged nodes stay merged - and what a least solution is; then, with     *)
(* them, the solver's type invariant, that representatives own everything, *)
(* that constraints stay in the list of their pointer's representative,    *)
(* and that no step takes back a pointee or a merge, for every set of      *)
(* nodes and every constraint system.                                      *)
(***************************************************************************)
EXTENDS SolverProperties, TLAPS, FiniteSetTheorems, WellFoundedInduction,
        SequenceTheorems

-----------------------------------------------------------------------------
(* The graph operations and the least solution *)

(* rep maps every node to a representative, never merges the null node,    *)
(* and a node that is not its own representative owns nothing.             *)
Canonical(gr) ==
  /\ gr.rep[0] = 0
  /\ \A x \in Node :
       /\ gr.rep[gr.rep[x]] = gr.rep[x]
       /\ gr.rep[x] # x =>
            /\ gr.points_to[x] = {} /\ gr.prev_points_to[x] = {}
            /\ gr.copy_to[x] = {} /\ gr.cons[x] = {}
            /\ gr.hcd_var[x] = 0 /\ x \notin gr.ind_calls

(* From gr to hr no variable loses a pointee, no merged nodes separate.    *)
Grown(gr, hr) ==
  /\ \A x \in Node : gr.points_to[gr.rep[x]] \subseteq hr.points_to[hr.rep[x]]
  /\ \A x, y \in Node : gr.rep[x] = gr.rep[y] => hr.rep[x] = hr.rep[y]

(* gr and hr have the same representatives and constraint lists.           *)
SameLists(gr, hr) == hr.rep = gr.rep /\ hr.cons = gr.cons

(* A graph after an operation that merges nothing and moves no constraint. *)
Extends(gr, hr) ==
  hr \in Graph /\ Canonical(hr) /\ Grown(gr, hr) /\ SameLists(gr, hr)

(* A set of fields of objects is a set of nodes.                           *)
LEMMA ShiftNodes ==
  ASSUME NEW P \in SUBSET Node, NEW off \in Nat
  PROVE  Shift(P, off) \subseteq Node
<1>1. ASSUME NEW o \in P, off < ObjSz[o]
      PROVE  o + off \in Node
  BY <1>1, ObjSzAssumption, NodeAssumption
<1> QED
  BY <1>1 DEF Shift, Fits

(* Doing nothing.                                                          *)
LEMMA ExtendsSelf ==
  ASSUME NEW gr \in Graph, Canonical(gr)
  PROVE  Extends(gr, gr)
  BY DEF Extends, Grown, SameLists

(* addr_of, gep and external calls: points_to of a representative grows.   *)
LEMMA AddPointeesExtends ==
  ASSUME NEW gr \in Graph, Canonical(gr),
         NEW d \in Node, is_rep(gr, d), NEW S \in SUBSET Node
  PROVE  Extends(gr, AddPointees(gr, d, S))
<1> DEFINE hr == AddPointees(gr, d, S)
<1>1. hr \in Graph
  BY DEF AddPointees, Graph
<1>2. hr.rep = gr.rep /\ hr.cons = gr.cons /\ hr.copy_to = gr.copy_to
      /\ hr.prev_points_to = gr.prev_points_to /\ hr.hcd_var = gr.hcd_var
      /\ hr.ind_calls = gr.ind_calls
      /\ hr.points_to = [gr.points_to EXCEPT ![d] = @ \cup S]
  BY DEF AddPointees, Graph
<1>3. Canonical(hr)
  BY <1>2 DEF Canonical, is_rep, Graph
<1>4. Grown(gr, hr)
  BY <1>2 DEF Grown, Graph
<1> QED
  BY <1>1, <1>2, <1>3, <1>4 DEF Extends, SameLists

(* A copy edge between representatives.                                    *)
LEMMA AddCopyEdgeExtends ==
  ASSUME NEW gr \in Graph, Canonical(gr),
         NEW s \in Node, is_rep(gr, s), NEW d \in Node, is_rep(gr, d)
  PROVE  Extends(gr, add_copy_edge(gr, s, d))
<1>1. CASE i2p \in {s, d} \/ s = d \/ d \in gr.copy_to[s]
  BY <1>1, ExtendsSelf DEF add_copy_edge
<1>2. CASE ~(i2p \in {s, d} \/ s = d \/ d \in gr.copy_to[s])
  <2> DEFINE hr == add_copy_edge(gr, s, d)
  <2>1. hr = [gr EXCEPT !.copy_to[s] = @ \cup {d},
                        !.points_to[d] = @ \cup gr.points_to[s]]
    BY <1>2 DEF add_copy_edge
  <2> HIDE DEF hr
  <2>2. hr \in Graph
    BY <2>1 DEF Graph
  <2>3. hr.rep = gr.rep /\ hr.cons = gr.cons
        /\ hr.prev_points_to = gr.prev_points_to /\ hr.hcd_var = gr.hcd_var
        /\ hr.ind_calls = gr.ind_calls
        /\ hr.copy_to = [gr.copy_to EXCEPT ![s] = @ \cup {d}]
        /\ hr.points_to = [gr.points_to EXCEPT ![d] = @ \cup gr.points_to[s]]
    BY <2>1 DEF Graph
  <2>4. Canonical(hr)
    BY <2>3 DEF Canonical, is_rep, Graph
  <2>5. Grown(gr, hr)
    BY <2>3 DEF Grown, Graph
  <2>6. Extends(gr, hr)
    BY <2>2, <2>3, <2>4, <2>5 DEF Extends, SameLists
  <2> QED
    BY <2>6 DEF hr
<1> QED
  BY <1>1, <1>2

-----------------------------------------------------------------------------
(* merge_nodes: p and c are p and c of the two arguments in some order.    *)
LEMMA AbsorbGraph ==
  ASSUME NEW gr \in Graph, NEW p \in Node, NEW c \in Node
  PROVE  Absorb(gr, p, c) \in Graph
<1> DEFINE hr == Absorb(gr, p, c)
<1>1. /\ MergedPointees(gr, p, c) \in [Node -> SUBSET Node]
      /\ MergedPrev(gr, p, c) \in [Node -> SUBSET Node]
      /\ MergedEdges(gr, p, c) \in [Node -> SUBSET Node]
  BY DEF MergedPointees, MergedPrev, MergedEdges, Graph
<1>2. /\ MergedCons(gr, p, c) \in [Node -> SUBSET Nat]
      /\ MergedTime(gr, p, c) \in [Node -> Nat]
      /\ MergedHcd(gr, p, c) \in [Node -> Node]
  BY NodeAssumption DEF MergedCons, MergedTime, MergedHcd, Graph
<1>3. hr.rep \in [Node -> Node] /\ hr.rank \in [Node -> Nat]
  BY DEF Absorb, Graph
<1>4. hr.ind_calls \in SUBSET Node /\ hr.nonptr \in SUBSET Node
  BY DEF Absorb, Graph
<1> QED
  BY <1>1, <1>2, <1>3, <1>4 DEF Absorb, Graph

(* After a merge the child owns nothing and every node it stood for is     *)
(* represented by the parent.                                              *)
LEMMA AbsorbCanonical ==
  ASSUME NEW gr \in Graph, Canonical(gr),
         NEW p \in Node, NEW c \in Node, p # c, p # 0, c # 0,
         is_rep(gr, p), is_rep(gr, c)
  PROVE  /\ Canonical(Absorb(gr, p, c))
         /\ Grown(gr, Absorb(gr, p, c))
         /\ is_rep(Absorb(gr, p, c), p)
         /\ \A x \in Node : Absorb(gr, p, c).rep[x]
                             = IF gr.rep[x] = c THEN p ELSE gr.rep[x]
<1> DEFINE hr == Absorb(gr, p, c)
<1>1. /\ hr.rep = [x \in Node |-> IF gr.rep[x] = c THEN p ELSE gr.rep[x]]
      /\ hr.points_to = [gr.points_to EXCEPT ![p] = @ \cup gr.points_to[c], ![c] = {}]
      /\ hr.prev_points_to = [gr.prev_points_to EXCEPT ![p] = {}, ![c] = {}]
      /\ hr.copy_to = [gr.copy_to EXCEPT ![p] = (@ \cup gr.copy_to[c]) \ {p, c},
                                         ![c] = {}]
      /\ hr.cons = [gr.cons EXCEPT ![p] = @ \cup gr.cons[c], ![c] = {}]
      /\ hr.hcd_var = [gr.hcd_var EXCEPT ![p] = IF @ = 0 THEN gr.hcd_var[c] ELSE @,
                                         ![c] = 0]
      /\ hr.ind_calls = IF c \in gr.ind_calls THEN (gr.ind_calls \ {c}) \cup {p}
                                              ELSE gr.ind_calls
  BY DEF Absorb, MergedPointees, MergedPrev, MergedEdges, MergedCons, MergedHcd
<1> HIDE DEF hr
<1>2. ASSUME NEW x \in Node
      PROVE  /\ hr.rep[hr.rep[x]] = hr.rep[x]
             /\ hr.rep[x] # x => x = c \/ gr.rep[x] # x
  BY <1>1 DEF Canonical, is_rep, Graph
<1>3. ASSUME NEW x \in Node, hr.rep[x] # x
      PROVE  x # p
  BY <1>1, <1>3 DEF is_rep, Graph
<1>4. ASSUME NEW x \in Node, hr.rep[x] # x
      PROVE  /\ hr.points_to[x] = {} /\ hr.prev_points_to[x] = {}
             /\ hr.copy_to[x] = {} /\ hr.cons[x] = {}
             /\ hr.hcd_var[x] = 0 /\ x \notin hr.ind_calls
  BY <1>1, <1>2, <1>3, <1>4 DEF Canonical, Graph
<1>5. hr.rep[0] = 0
  BY <1>1, NodeAssumption DEF Canonical, Graph
<1>6. Canonical(hr)
  BY <1>2, <1>4, <1>5 DEF Canonical
<1>7. Grown(gr, hr)
  BY <1>1 DEF Grown, Canonical, is_rep, Graph
<1>8. is_rep(hr, p) /\ \A x \in Node : hr.rep[x] = IF gr.rep[x] = c THEN p ELSE gr.rep[x]
  BY <1>1 DEF is_rep, Graph
<1> QED
  BY <1>6, <1>7, <1>8 DEF hr

-----------------------------------------------------------------------------
(* What the constraints mean: everything is monotone in the assignment, so *)
(* going round from the empty one ends in the least solution.              *)

LEMMA TargetsMonotone ==
  ASSUME NEW P, NEW Q, P \subseteq Q, NEW C \in Constraint, NEW call \in BOOLEAN
  PROVE  Targets(P, C, call) \subseteq Targets(Q, C, call)
<1>1. C.off \in Nat
  BY DEF Constraint
<1>2. CASE C.off = 0
  BY <1>2 DEF Targets
<1>3. CASE C.off > 0 /\ ~call
  BY <1>1, <1>3 DEF Targets, Shift, Fits
<1>4. CASE C.off > 0 /\ call
  BY <1>1, <1>4 DEF Targets, Shift, Fits
<1> QED
  BY <1>1, <1>2, <1>3, <1>4

LEMMA EffectsMonotone ==
  ASSUME NEW s \in System, NEW S \in Assignments, NEW T \in Assignments,
         \A v \in Node : S[v] \subseteq T[v]
  PROVE  Effects(s, S) \subseteq Effects(s, T) /\ Effects(s, T) \subseteq Effect
<1>1. \A q \in ExtNode \X s.icall : q[1] \in ExtNode /\ q[2][2] \in Site /\ Base(q[2][1]) \in Node
  BY DEF System, Base, Constraint
<1>2. \A q \in ExtNode \X Site : ExtEffect[q] \in Effect
  BY CallAssumption
<1>3. Effects(s, S) \subseteq Effects(s, T)
  BY <1>1 DEF Effects
<1>4. Effects(s, T) \subseteq Effect
  BY <1>1, <1>2 DEF Effects
<1> QED
  BY <1>3, <1>4

LEMMA ConsTyped ==
  ASSUME NEW s \in System, NEW C \in Range(s.cons)
  PROVE  C \in Constraint /\ C.src \in Node /\ C.dest \in Node /\ C.off \in Nat
<1>1. s.cons \in Seq(Constraint)
  BY DEF System
<1>2. C \in Constraint
  BY <1>1 DEF Range
<1> QED
  BY <1>2 DEF Constraint

LEMMA FlowsMonotone ==
  ASSUME NEW s \in System, NEW S \in Assignments, NEW T \in Assignments,
         \A v \in Node : S[v] \subseteq T[v]
  PROVE  Flows(s, S) \subseteq Flows(s, T)
<1> DEFINE copies == {<<C.src, C.dest>> : C \in OfType(s, "copy")}
           loads(X) == UNION {{<<t, C.dest>> : t \in Targets(X[C.src], C, IsCall(s, C))} :
                                 C \in OfType(s, "load")}
           stores(X) == UNION {{<<C.src, t>> : t \in Targets(X[C.dest], C, IsCall(s, C))} :
                                 C \in OfType(s, "store")}
           calls(X) == {<<e.src, e.dest>> : e \in {x \in Effects(s, X) : x.kind = "copy"}}
<1>1. ASSUME NEW C \in Range(s.cons)
      PROVE  /\ Targets(S[C.src], C, IsCall(s, C)) \subseteq Targets(T[C.src], C, IsCall(s, C))
             /\ Targets(S[C.dest], C, IsCall(s, C)) \subseteq Targets(T[C.dest], C, IsCall(s, C))
  <2>1. C \in Constraint /\ C.src \in Node /\ C.dest \in Node /\ IsCall(s, C) \in BOOLEAN
    BY ConsTyped DEF IsCall
  <2> QED
    BY <2>1, TargetsMonotone
<1>2. loads(S) \subseteq loads(T)
  <2> SUFFICES ASSUME NEW C \in OfType(s, "load"), NEW t \in Targets(S[C.src], C, IsCall(s, C))
               PROVE  <<t, C.dest>> \in loads(T)
    OBVIOUS
  <2>1. t \in Targets(T[C.src], C, IsCall(s, C))
    BY <1>1 DEF OfType
  <2> QED
    BY <2>1
<1>3. stores(S) \subseteq stores(T)
  <2> SUFFICES ASSUME NEW C \in OfType(s, "store"), NEW t \in Targets(S[C.dest], C, IsCall(s, C))
               PROVE  <<C.src, t>> \in stores(T)
    OBVIOUS
  <2>1. t \in Targets(T[C.dest], C, IsCall(s, C))
    BY <1>1 DEF OfType
  <2> QED
    BY <2>1
<1>4. calls(S) \subseteq calls(T)
  BY EffectsMonotone
<1>5. /\ Flows(s, S) = {e \in copies \cup loads(S) \cup stores(S) \cup calls(S) : i2p \notin {e[1], e[2]}}
      /\ Flows(s, T) = {e \in copies \cup loads(T) \cup stores(T) \cup calls(T) : i2p \notin {e[1], e[2]}}
  BY Zenon DEF Flows
<1> HIDE DEF copies, loads, stores, calls
<1> QED
  BY <1>2, <1>3, <1>4, <1>5

LEMMA InBases ==
  ASSUME NEW s, NEW S, NEW v, NEW x
  PROVE  x \in Bases(s, S, v) <=>
           \/ \E C \in OfType(s, "addr_of") : C.dest = v /\ x = C.src
           \/ \E C \in OfType(s, "gep") : C.dest = v /\ x \in Shift(S[C.src], C.off)
           \/ \E e \in Effects(s, S) : e.kind = "point" /\ e.dest = v /\ x = e.src
BY DEF Bases

LEMMA BasesMonotone ==
  ASSUME NEW s \in System, NEW S \in Assignments, NEW T \in Assignments,
         \A v \in Node : S[v] \subseteq T[v], NEW v \in Node
  PROVE  Bases(s, S, v) \subseteq Bases(s, T, v)
<1> SUFFICES ASSUME NEW x \in Bases(s, S, v)
             PROVE  x \in Bases(s, T, v)
  OBVIOUS
<1>1. CASE \E C \in OfType(s, "addr_of") : C.dest = v /\ x = C.src
  BY <1>1, InBases
<1>2. CASE \E C \in OfType(s, "gep") : C.dest = v /\ x \in Shift(S[C.src], C.off)
  <2>1. PICK C \in OfType(s, "gep") : C.dest = v /\ x \in Shift(S[C.src], C.off)
    BY <1>2
  <2>2. C.src \in Node
    BY ConsTyped DEF OfType
  <2>3. x \in Shift(T[C.src], C.off)
    BY <2>1, <2>2 DEF Shift, Fits
  <2> QED
    BY <2>1, <2>3, InBases
<1>3. CASE \E e \in Effects(s, S) : e.kind = "point" /\ e.dest = v /\ x = e.src
  BY <1>3, EffectsMonotone, InBases
<1> QED
  BY <1>1, <1>2, <1>3, InBases

Below(S, T) == \A v \in Node : S[v] \subseteq T[v]

LEMMA FlowsIn ==
  ASSUME NEW s \in System, NEW S \in Assignments, NEW e \in Flows(s, S)
  PROVE  e[1] \in Node /\ e[2] \in Node /\ e = <<e[1], e[2]>>
<1>1. \A C \in Range(s.cons) : C \in Constraint /\ C.src \in Node /\ C.dest \in Node
  BY ConsTyped
<1>2. ASSUME NEW P \in SUBSET Node, NEW C \in Constraint, NEW call \in BOOLEAN
      PROVE  Targets(P, C, call) \subseteq Node
  <2>1. C.off \in Nat /\ (P \ FuncNode) \in SUBSET Node /\ ((P \cap FuncNode) \ ExtNode) \in SUBSET Node
    BY DEF Constraint
  <2>2. Shift(P \ FuncNode, C.off) \subseteq Node /\ Shift((P \cap FuncNode) \ ExtNode, C.off) \subseteq Node
    BY <2>1, ShiftNodes
  <2>3. CASE C.off = 0
    BY <2>3 DEF Targets
  <2>4. CASE C.off > 0 /\ call
    BY <2>1, <2>2, <2>4 DEF Targets
  <2>5. CASE C.off > 0 /\ ~call
    BY <2>1, <2>2, <2>5 DEF Targets
  <2> QED
    BY <2>1, <2>3, <2>4, <2>5
<1>3. ASSUME NEW C \in Range(s.cons), NEW x \in Node
      PROVE  Targets(S[x], C, IsCall(s, C)) \subseteq Node
  <2>1. S[x] \in SUBSET Node /\ IsCall(s, C) \in BOOLEAN
    BY DEF Assignments, IsCall
  <2> QED
    BY <1>1, <1>2, <2>1
<1>4. Effects(s, S) \subseteq Effect
  BY EffectsMonotone
<1>5. \/ e \in {<<C.src, C.dest>> : C \in OfType(s, "copy")}
      \/ e \in UNION {{<<t, C.dest>> : t \in Targets(S[C.src], C, IsCall(s, C))} :
                         C \in OfType(s, "load")}
      \/ e \in UNION {{<<C.src, t>> : t \in Targets(S[C.dest], C, IsCall(s, C))} :
                         C \in OfType(s, "store")}
      \/ e \in {<<x.src, x.dest>> : x \in {y \in Effects(s, S) : y.kind = "copy"}}
  BY Zenon DEF Flows
<1>6. CASE e \in {<<C.src, C.dest>> : C \in OfType(s, "copy")}
  BY <1>1, <1>6 DEF OfType
<1>7. CASE e \in UNION {{<<t, C.dest>> : t \in Targets(S[C.src], C, IsCall(s, C))} :
                         C \in OfType(s, "load")}
  <2>1. PICK C \in OfType(s, "load") : \E t \in Targets(S[C.src], C, IsCall(s, C)) : e = <<t, C.dest>>
    BY <1>7
  <2> QED
    BY <2>1, <1>1, <1>3 DEF OfType
<1>8. CASE e \in UNION {{<<C.src, t>> : t \in Targets(S[C.dest], C, IsCall(s, C))} :
                         C \in OfType(s, "store")}
  <2>1. PICK C \in OfType(s, "store") : \E t \in Targets(S[C.dest], C, IsCall(s, C)) : e = <<C.src, t>>
    BY <1>8
  <2> QED
    BY <2>1, <1>1, <1>3 DEF OfType
<1>9. CASE e \in {<<x.src, x.dest>> : x \in {y \in Effects(s, S) : y.kind = "copy"}}
  BY <1>4, <1>9 DEF Effect
<1> QED
  BY <1>5, <1>6, <1>7, <1>8, <1>9

LEMMA BasesIn ==
  ASSUME NEW s \in System, NEW S \in Assignments, NEW v \in Node
  PROVE  Bases(s, S, v) \subseteq Node
<1> SUFFICES ASSUME NEW x \in Bases(s, S, v) PROVE x \in Node
  OBVIOUS
<1>1. CASE \E C \in OfType(s, "addr_of") : C.dest = v /\ x = C.src
  BY <1>1, ConsTyped DEF OfType
<1>2. CASE \E C \in OfType(s, "gep") : C.dest = v /\ x \in Shift(S[C.src], C.off)
  <2>1. PICK C \in OfType(s, "gep") : x \in Shift(S[C.src], C.off)
    BY <1>2
  <2>2. S[C.src] \in SUBSET Node /\ C.off \in Nat
    BY ConsTyped DEF OfType, Assignments
  <2> QED
    BY <2>1, <2>2, ShiftNodes
<1>3. CASE \E e \in Effects(s, S) : x = e.src
  BY <1>3, EffectsMonotone DEF Effect
<1> QED
  BY <1>1, <1>2, <1>3, InBases

LEMMA RoundGrows ==
  ASSUME NEW s \in System, NEW S \in Assignments
  PROVE  /\ Round(s, S) \in Assignments
         /\ Below(S, Round(s, S))
         /\ IsSolution(s, S) <=> Round(s, S) = S
         /\ \A T \in Assignments : Below(S, T) => Below(Round(s, S), Round(s, T))
<1> DEFINE in(X, v) == UNION {X[e[1]] : e \in {f \in Flows(s, X) : f[2] = v}}
<1>1. \A X \in Assignments : \A v \in Node :
        Round(s, X)[v] = X[v] \cup Bases(s, X, v) \cup in(X, v)
  BY DEF Round
<1>2. \A v \in Node : in(S, v) \subseteq Node /\ Bases(s, S, v) \subseteq Node
  BY FlowsIn, BasesIn DEF Assignments
<1>3. Round(s, S) \in Assignments
  <2>1. Round(s, S) = [v \in Node |-> S[v] \cup Bases(s, S, v) \cup in(S, v)]
    BY DEF Round
  <2> HIDE DEF in
  <2> QED
    BY <1>2, <2>1 DEF Assignments
<1>4. Below(S, Round(s, S))
  BY <1>1 DEF Below
<1>5. ASSUME IsSolution(s, S)
      PROVE  Round(s, S) = S
  <2>1. \A v \in Node : in(S, v) \subseteq S[v] /\ Bases(s, S, v) \subseteq S[v]
    BY <1>5 DEF IsSolution
  <2> HIDE DEF in
  <2>2. \A v \in Node : Round(s, S)[v] = S[v]
    BY <1>1, <2>1
  <2> QED
    BY <1>3, <2>2 DEF Assignments
<1>6. ASSUME Round(s, S) = S
      PROVE  IsSolution(s, S)
  <2>1. \A v \in Node : in(S, v) \subseteq S[v] /\ Bases(s, S, v) \subseteq S[v]
    BY <1>1, <1>6
  <2>2. ASSUME NEW e \in Flows(s, S)
        PROVE  S[e[1]] \subseteq S[e[2]]
    <3>1. e[2] \in Node
      BY FlowsIn
    <3>2. S[e[1]] \subseteq in(S, e[2])
      OBVIOUS
    <3> QED
      BY <2>1, <3>1, <3>2
  <2> QED
    BY <2>1, <2>2 DEF IsSolution
<1>7. ASSUME NEW T \in Assignments, Below(S, T)
      PROVE  Below(Round(s, S), Round(s, T))
  <2>1. Flows(s, S) \subseteq Flows(s, T) /\ \A v \in Node : Bases(s, S, v) \subseteq Bases(s, T, v)
    BY <1>7, FlowsMonotone, BasesMonotone DEF Below
  <2>2. \A v \in Node : in(S, v) \subseteq in(T, v)
    BY <1>7, <2>1, FlowsIn DEF Below
  <2> HIDE DEF in
  <2> QED
    BY <1>1, <1>7, <2>1, <2>2 DEF Below
<1> QED
  BY <1>3, <1>4, <1>5, <1>6, <1>7

Closes(s, f) ==
  f = [S \in Assignments |->
         LET T == Round(s, S) IN IF T = S THEN S ELSE f[T]]

LEMMA ClosingFunction ==
  ASSUME NEW s \in System
  PROVE  \E f : Closes(s, f)
<1> DEFINE Above(S) == {T \in Assignments : Round(s, T) = T /\ Below(S, T)}
           f0 == [S \in Assignments |->
                    [v \in Node |-> {x \in Node : \A T \in Above(S) : x \in T[v]}]]
<1>1. ASSUME NEW S \in Assignments, Round(s, S) = S
      PROVE  f0[S] = S
  <2>1. S \in Above(S)
    BY <1>1 DEF Below
  <2>2. \A v \in Node : {x \in Node : \A T \in Above(S) : x \in T[v]} = S[v]
    BY <2>1 DEF Below, Assignments
  <2> HIDE DEF Above
  <2>3. f0[S] = [v \in Node |-> S[v]]
    BY <2>2
  <2> QED
    BY <2>3 DEF Assignments
<1>2. ASSUME NEW S \in Assignments
      PROVE  Round(s, S) \in Assignments /\ f0[Round(s, S)] = f0[S]
  <2>1. Round(s, S) \in Assignments /\ Below(S, Round(s, S))
    BY RoundGrows
  <2>2. Above(Round(s, S)) = Above(S)
    <3>1. ASSUME NEW T \in Assignments, Round(s, T) = T, Below(S, T)
          PROVE  Below(Round(s, S), T)
      <4>1. Below(Round(s, S), Round(s, T))
        BY <3>1, RoundGrows
      <4> QED
        BY <3>1, <4>1
    <3>2. ASSUME NEW T \in Assignments, Below(Round(s, S), T)
          PROVE  Below(S, T)
      BY <2>1, <3>2 DEF Below
    <3> QED
      BY <3>1, <3>2
  <2> HIDE DEF Above
  <2> QED
    BY <2>1, <2>2
<1> HIDE DEF f0
<1>3. f0 = [S \in Assignments |-> f0[S]]
  BY DEF f0
<1>4. \A S \in Assignments :
        f0[S] = LET T == Round(s, S) IN IF T = S THEN S ELSE f0[T]
  BY <1>1, <1>2
<1>5. Closes(s, f0)
  BY <1>3, <1>4 DEF Closes
<1> QED
  BY <1>5

Missing(S) == {p \in Node \X Node : p[2] \notin S[p[1]]}

LEMMA MissingShrinks ==
  ASSUME IsFiniteSet(Node), NEW S \in Assignments, NEW T \in Assignments,
         Below(S, T), S # T
  PROVE  /\ Cardinality(Missing(T)) \in Nat /\ Cardinality(Missing(S)) \in Nat
         /\ Cardinality(Missing(T)) < Cardinality(Missing(S))
<1>1. IsFiniteSet(Node \X Node)
  BY FS_Product
<1>2. IsFiniteSet(Missing(S)) /\ Missing(T) \subseteq Missing(S)
  <2>1. Missing(S) \in SUBSET (Node \X Node) /\ Missing(T) \subseteq Missing(S)
    BY DEF Missing, Below
  <2> QED
    BY <1>1, <2>1, FS_Subset
<1>3. Missing(T) # Missing(S)
  <2>1. PICK v \in Node : S[v] # T[v]
    BY DEF Assignments
  <2>2. PICK x \in Node : x \in T[v] /\ x \notin S[v]
    BY <2>1 DEF Below, Assignments
  <2>3. <<v, x>> \in Missing(S) /\ <<v, x>> \notin Missing(T)
    BY <2>2 DEF Missing
  <2> QED
    BY <2>3
<1>4. /\ IsFiniteSet(Missing(T)) /\ Cardinality(Missing(T)) <= Cardinality(Missing(S))
      /\ Cardinality(Missing(T)) # Cardinality(Missing(S))
  BY <1>2, <1>3, FS_Subset
<1>5. Cardinality(Missing(T)) \in Nat /\ Cardinality(Missing(S)) \in Nat
  BY <1>2, <1>4, FS_CardinalityType
<1> QED
  BY <1>4, <1>5

LEMMA LeastOfNat ==
  ASSUME NEW S \in SUBSET Nat, S # {}
  PROVE  \E x \in S : \A y \in S : ~(y < x)
<1> DEFINE R == {ss \in Nat \X Nat : ss[1] < ss[2]}
<1>1. IsWellFoundedOn(R, Nat)
  BY NatLessThanWellFounded DEF OpToRel
<1>2. PICK x \in S : \A y \in S : <<y, x>> \notin R
  <2> HIDE DEF R
  <2> QED
    BY <1>1, WFMin
<1>3. \A y \in S : ~(y < x)
  <2> SUFFICES ASSUME NEW y \in S, y < x PROVE FALSE
    OBVIOUS
  <2>1. <<y, x>> \in R
    OBVIOUS
  <2> QED
    BY <1>2, <2>1
<1> QED
  BY <1>3

LEMMA CloseSolves ==
  ASSUME IsFiniteSet(Node), NEW s \in System, NEW f, Closes(s, f), NEW S0 \in Assignments
  PROVE  /\ f[S0] \in Assignments /\ Round(s, f[S0]) = f[S0]
         /\ \A T \in Assignments : Round(s, T) = T /\ Below(S0, T) => Below(f[S0], T)
<1> DEFINE Good(S) == /\ f[S] \in Assignments /\ Round(s, f[S]) = f[S]
                      /\ \A T \in Assignments : Round(s, T) = T /\ Below(S, T) => Below(f[S], T)
           Bad == {S \in Assignments : ~Good(S)}
           Sizes == {Cardinality(Missing(S)) : S \in Bad}
<1> SUFFICES ASSUME Bad # {} PROVE FALSE
  OBVIOUS
<1>1. \A S \in Assignments : f[S] = IF Round(s, S) = S THEN S ELSE f[Round(s, S)]
  <2>1. f = [S \in Assignments |-> LET T == Round(s, S) IN IF T = S THEN S ELSE f[T]]
    BY Zenon DEF Closes
  <2> QED
    BY <2>1
<1>2. ASSUME NEW S \in Bad
      PROVE  /\ Round(s, S) # S /\ Round(s, S) \in Bad /\ Below(S, Round(s, S))
             /\ S \in Assignments
  <2>1. Round(s, S) \in Assignments /\ Below(S, Round(s, S)) /\ S \in Assignments
    BY RoundGrows
  <2>2. CASE Round(s, S) = S
    <3>1. f[S] = S
      BY <1>1, <2>2
    <3> QED
      BY <2>1, <2>2, <3>1
  <2>3. CASE Round(s, S) # S
    <3>1. f[S] = f[Round(s, S)]
      BY <1>1, <2>3
    <3>2. ASSUME Good(Round(s, S))
          PROVE  Good(S)
      <4>1. ASSUME NEW T \in Assignments, Round(s, T) = T, Below(S, T)
            PROVE  Below(f[S], T)
        <5>1. Below(Round(s, S), Round(s, T))
          BY <4>1, RoundGrows
        <5> QED
          BY <3>1, <3>2, <4>1, <5>1
      <4> QED
        BY <3>1, <3>2, <4>1
    <3> QED
      BY <2>1, <2>3, <3>2
  <2> QED
    BY <2>2, <2>3
<1> HIDE DEF Good, Bad
<1>3. ASSUME NEW S \in Bad
      PROVE  /\ Cardinality(Missing(S)) \in Nat /\ Round(s, S) \in Bad
             /\ Cardinality(Missing(Round(s, S))) < Cardinality(Missing(S))
  <2>1. Round(s, S) \in Assignments
    BY <1>2, RoundGrows
  <2> QED
    BY <1>2, <2>1, MissingShrinks
<1>4. Sizes \in SUBSET Nat /\ Sizes # {}
  BY <1>3
<1>5. PICK m \in Sizes : \A k \in Sizes : ~(k < m)
  <2> HIDE DEF Sizes
  <2> QED
    BY <1>4, LeastOfNat
<1>6. PICK S \in Bad : m = Cardinality(Missing(S))
  OBVIOUS
<1>7. Cardinality(Missing(Round(s, S))) \in Sizes
  BY <1>3
<1> QED
  BY <1>3, <1>5, <1>6, <1>7

LEMMA LeastIsLeast ==
  ASSUME IsFiniteSet(Node), NEW s \in System
  PROVE  /\ Least(s) \in Assignments
         /\ IsSolution(s, Least(s))
         /\ \A S \in Assignments : IsSolution(s, S) => Below(Least(s), S)
<1> DEFINE f == CHOOSE h : Closes(s, h)
           S0 == [v \in Node |-> {}]
<1>1. Closes(s, f)
  BY ClosingFunction, Zenon
<1>2. Least(s) = f[S0]
  BY DEF Least, Closes
<1>3. S0 \in Assignments
  BY DEF Assignments
<1> HIDE DEF f
<1>4. /\ f[S0] \in Assignments /\ Round(s, f[S0]) = f[S0]
      /\ \A T \in Assignments : Round(s, T) = T /\ Below(S0, T) => Below(f[S0], T)
  <2> HIDE DEF S0
  <2> QED
    BY <1>1, <1>3, CloseSolves
<1>5. \A T \in Assignments : Below(S0, T)
  BY DEF Below
<1> QED
  BY <1>2, <1>4, <1>5, RoundGrows

LEMMA SolutionMeans ==
  ASSUME NEW s \in System, NEW S \in Assignments, IsSolution(s, S),
         NEW C \in Range(s.cons)
  PROVE  /\ C.type = "addr_of" => C.src \in S[C.dest]
         /\ C.type = "gep" => Shift(S[C.src], C.off) \subseteq S[C.dest]
         /\ C.type = "copy" => Leads(S, C.src, C.dest)
         /\ C.type = "load" =>
              \A t \in Targets(S[C.src], C, IsCall(s, C)) : Leads(S, t, C.dest)
         /\ C.type = "store" =>
              \A t \in Targets(S[C.dest], C, IsCall(s, C)) : Leads(S, C.src, t)
<1>1. C.src \in Node /\ C.dest \in Node
  BY ConsTyped
<1>2. \A x : x \in Bases(s, S, C.dest) => x \in S[C.dest]
  BY <1>1 DEF IsSolution
<1>3. C.type = "addr_of" => C.src \in S[C.dest]
  BY <1>2, InBases DEF OfType
<1>4. C.type = "gep" => Shift(S[C.src], C.off) \subseteq S[C.dest]
  BY <1>2, InBases DEF OfType
<1>5. \A a, b : <<a, b>> \in Flows(s, S) => S[a] \subseteq S[b]
  BY DEF IsSolution
<1>6. ASSUME C.type = "copy"
      PROVE  Leads(S, C.src, C.dest)
  <2>1. <<C.src, C.dest>> \in {<<D.src, D.dest>> : D \in OfType(s, "copy")}
    BY <1>6 DEF OfType
  <2>2. i2p \notin {C.src, C.dest} => <<C.src, C.dest>> \in Flows(s, S)
    BY <2>1 DEF Flows
  <2> QED
    BY <1>5, <2>2 DEF Leads
<1>7. ASSUME C.type = "load", NEW t \in Targets(S[C.src], C, IsCall(s, C))
      PROVE  Leads(S, t, C.dest)
  <2>1. <<t, C.dest>> \in UNION {{<<u, D.dest>> : u \in Targets(S[D.src], D, IsCall(s, D))} :
                                   D \in OfType(s, "load")}
    BY <1>7 DEF OfType
  <2>2. i2p \notin {t, C.dest} => <<t, C.dest>> \in Flows(s, S)
    BY <2>1 DEF Flows
  <2> QED
    BY <1>5, <2>2 DEF Leads
<1>8. ASSUME C.type = "store", NEW t \in Targets(S[C.dest], C, IsCall(s, C))
      PROVE  Leads(S, C.src, t)
  <2>1. <<C.src, t>> \in UNION {{<<D.src, u>> : u \in Targets(S[D.dest], D, IsCall(s, D))} :
                                   D \in OfType(s, "store")}
    BY <1>8 DEF OfType
  <2>2. i2p \notin {C.src, t} => <<C.src, t>> \in Flows(s, S)
    BY <2>1 DEF Flows
  <2> QED
    BY <1>5, <2>2 DEF Leads
<1> QED
  BY <1>3, <1>4, <1>6, <1>7, <1>8

LEMMA EffectMeans ==
  ASSUME NEW s \in System, NEW S \in Assignments, IsSolution(s, S),
         NEW e \in Effects(s, S)
  PROVE  /\ e.kind = "point" => e.src \in S[e.dest]
         /\ e.kind = "copy" => Leads(S, e.src, e.dest)
<1>1. e \in Effect
  BY EffectsMonotone
<1>2. \A x : x \in Bases(s, S, e.dest) => x \in S[e.dest]
  BY <1>1 DEF IsSolution, Effect
<1>3. e.kind = "point" => e.src \in S[e.dest]
  BY <1>2, InBases
<1>4. ASSUME e.kind = "copy"
      PROVE  Leads(S, e.src, e.dest)
  <2>1. <<e.src, e.dest>> \in {<<x.src, x.dest>> : x \in {y \in Effects(s, S) : y.kind = "copy"}}
    BY <1>4
  <2>2. i2p \notin {e.src, e.dest} => <<e.src, e.dest>> \in Flows(s, S)
    BY <2>1 DEF Flows
  <2>3. \A a, b : <<a, b>> \in Flows(s, S) => S[a] \subseteq S[b]
    BY DEF IsSolution
  <2> QED
    BY <2>2, <2>3 DEF Leads
<1> QED
  BY <1>3, <1>4

-----------------------------------------------------------------------------
(* Sets and sequences *)

LEMMA MinMember ==
  ASSUME NEW S \in SUBSET Nat, S # {}
  PROVE  Min(S) \in S
<1> DEFINE R == {ss \in Nat \X Nat : ss[1] < ss[2]}
<1>1. IsWellFoundedOn(R, Nat)
  BY NatLessThanWellFounded DEF OpToRel
<1>2. PICK x \in S : \A y \in S : <<y, x>> \notin R
  <2> HIDE DEF R
  <2> QED
    BY <1>1, WFMin
<1>3. \A y \in S : x <= y
  <2> SUFFICES ASSUME NEW y \in S PROVE x <= y
    OBVIOUS
  <2>1. x \in Nat /\ y \in Nat /\ <<y, x>> \in Nat \X Nat /\ <<y, x>>[1] = y /\ <<y, x>>[2] = x
    OBVIOUS
  <2>2. ~(y < x)
    BY <1>2, <2>1
  <2> QED
    BY <2>1, <2>2
<1> QED
  BY <1>3 DEF Min

LEMMA FrontLast ==
  ASSUME NEW T, NEW s \in Seq(T), s # <<>>
  PROVE  /\ Front(s) \in Seq(T)
         /\ Len(Front(s)) = Len(s) - 1
         /\ \A i \in 1 .. (Len(s) - 1) : Front(s)[i] = s[i]
         /\ Last(s) = s[Len(s)] /\ Last(s) \in T
         /\ Len(s) \in Nat \ {0}
<1>1. Len(s) \in Nat \ {0} /\ Last(s) = s[Len(s)] /\ Last(s) \in T
  BY DEF Last
<1>2. Front(s) = SubSeq(s, 1, Len(s) - 1)
  BY DEF Front
<1>3. /\ SubSeq(s, 1, Len(s) - 1) \in Seq(T)
      /\ Len(SubSeq(s, 1, Len(s) - 1)) = Len(s) - 1
      /\ \A i \in 1 .. (Len(s) - 1) : SubSeq(s, 1, Len(s) - 1)[i] = s[i]
  BY <1>1, SubSeqProperties
<1> QED
  BY <1>1, <1>2, <1>3

-----------------------------------------------------------------------------
(* The graph *)

LEMMA CanonicalGraph == GraphInv => g \in Graph /\ Canonical(g)
BY DEF GraphInv, GraphType, NonRepEmpty, Canonical, is_rep

LEMMA RepIsRep ==
  ASSUME GraphInv, NEW x \in Node
  PROVE  get_node_rep(x) \in Node /\ is_rep(g, get_node_rep(x))
BY DEF GraphInv, GraphType, Graph, NonRepEmpty, get_node_rep, is_rep

(* A step that leaves the graph alone.                                     *)
LEMMA GraphKept ==
  ASSUME GraphInv, UNCHANGED <<sys, graphVars>>
  PROVE  GraphInv' /\ Grown(g, g')
<1>1. GraphInv'
  BY DEF GraphInv, GraphType, NonRepEmpty, ListsCurrent, graphVars, is_rep
<1>2. g' = g
  BY DEF graphVars
<1> QED
  BY <1>1, <1>2 DEF Grown

(* A step that extends the graph without moving a constraint.              *)
LEMMA GraphExtended ==
  ASSUME GraphInv, Extends(g, g'), UNCHANGED <<sys, cplx_cons, icall_cons>>,
         ext_seen' \in SUBSET (ExtNode \X Site)
  PROVE  GraphInv' /\ Grown(g, g') /\ g'.rep = g.rep
<1>1. GraphType'
  BY DEF GraphInv, GraphType, Extends
<1>2. NonRepEmpty' /\ (g.rep[0] = 0)'
  BY DEF NonRepEmpty, Extends, Canonical, is_rep
<1>3. ListsCurrent' /\ (\A x \in Node : g.cons[x] \subseteq DOMAIN cplx_cons)'
  BY DEF GraphInv, ListsCurrent, Extends, SameLists
<1> QED
  BY <1>1, <1>2, <1>3 DEF GraphInv, Extends, SameLists

-----------------------------------------------------------------------------
(* Every action *)

LEMMA SwapIfEmptyInv ==
  ASSUME IInv, SwapIfEmpty
  PROVE  IInv' /\ Grown(g, g')
<1>1. GraphInv' /\ Grown(g, g')
  BY GraphKept DEF IInv, SwapIfEmpty
<1>2. WorkType'
  BY DEF IInv, SwapIfEmpty, WorkType, Heaps, countVars
<1>3. VisitInv' /\ MergeInv' /\ LcdInv'
  BY DEF IInv, SwapIfEmpty, VisitInv, VisitType, MergeInv, MergeType, LcdInv, LcdType,
         InLcdDfs, visitVars, mergeVars, lcdVars, graphVars, is_rep
<1> QED
  BY <1>1, <1>2, <1>3 DEF IInv, SwapIfEmpty

LEMMA VisitInvariant ==
  ASSUME IInv, NEW e \in curr, Visit(e)
  PROVE  IInv' /\ Grown(g, g')
<1> DEFINE x == e[1]
           delta == g.points_to[x] \ g.prev_points_to[x]
<1>1. x \in Node /\ e[2] \in Nat /\ is_rep(g, x) /\ delta \in SUBSET Node /\ vtime \in Nat
  BY DEF IInv, WorkType, Heaps, Visit, IsStale, GraphInv, GraphType, Graph
<1>2. Extends(g, g')
  <2>1. CASE delta = {}
    <3>1. g' = [g EXCEPT !.vtime[x] = vtime]
      BY <2>1 DEF Visit
    <3> QED
      BY <1>1, <3>1, CanonicalGraph DEF IInv, Extends, Graph, Canonical, Grown, SameLists
  <2>2. CASE delta # {}
    <3>1. g' = [g EXCEPT !.vtime[x] = vtime, !.prev_points_to[x] = g.points_to[x]]
      BY <2>2 DEF Visit
    <3>2. /\ g'.prev_points_to = [g.prev_points_to EXCEPT ![x] = g.points_to[x]]
          /\ g'.vtime = [g.vtime EXCEPT ![x] = vtime]
          /\ g'.points_to = g.points_to /\ g'.rep = g.rep /\ g'.cons = g.cons
          /\ g'.copy_to = g.copy_to /\ g'.hcd_var = g.hcd_var
          /\ g'.ind_calls = g.ind_calls
      BY <1>1, <3>1 DEF IInv, GraphInv, GraphType, Graph
    <3>3. g' \in Graph
      BY <1>1, <3>1 DEF IInv, GraphInv, GraphType, Graph
    <3>4. Canonical(g')
      BY <1>1, <3>2, CanonicalGraph DEF IInv, Canonical, is_rep, Graph
    <3> QED
      BY <3>2, <3>3, <3>4 DEF Extends, Grown, SameLists
  <2> QED
    BY <2>1, <2>2
<1>3. GraphInv' /\ Grown(g, g') /\ g'.rep = g.rep
  BY <1>2, GraphExtended DEF IInv, Visit, GraphInv, GraphType
<1>4. WorkType'
  BY <1>1 DEF IInv, Visit, WorkType, Heaps
<1>5. VisitInv'
  <2>1. hcd_rep' \in Node /\ (pc' = "hcd" => is_rep(g, hcd_rep'))
        /\ members' \in SUBSET (Node \X (Site \cup {NoSite}))
    <3>1. CASE delta = {}
      <4>1. hcd_rep' = hcd_rep /\ members' = members /\ pc' = "check"
        BY <3>1 DEF Visit
      <4> QED
        BY <4>1 DEF IInv, VisitInv, VisitType
    <3>2. CASE delta # {} /\ g.hcd_var[x] = 0
      <4>1. hcd_rep' = 0 /\ members' = {}
        BY <3>2 DEF Visit
      <4> QED
        BY <4>1, NodeAssumption DEF IInv, GraphInv, is_rep
    <3>3. CASE delta # {} /\ g.hcd_var[x] # 0
      <4>1. hcd_rep' = get_node_rep(g.hcd_var[x]) /\ members' = delta \X {NoSite}
        BY <3>3 DEF Visit
      <4>2. g.hcd_var[x] \in Node
        BY <1>1 DEF IInv, GraphInv, GraphType, Graph
      <4>3. hcd_rep' \in Node /\ is_rep(g, hcd_rep')
        BY <4>1, <4>2, RepIsRep DEF IInv
      <4> QED
        BY <1>1, <4>1, <4>3
    <3> QED
      BY <3>1, <3>2, <3>3
  <2> QED
    BY <1>1, <1>3, <2>1 DEF IInv, Visit, VisitInv, VisitType, is_rep
<1>6. MergeInv' /\ LcdInv'
  BY <1>3 DEF IInv, Visit, MergeInv, MergeType, LcdInv, LcdType, InLcdDfs, mergeVars, lcdVars, is_rep
<1> QED
  BY <1>3, <1>4, <1>5, <1>6 DEF IInv, Visit, Pcs

LEMMA ConvergeInv ==
  ASSUME IInv, Converge
  PROVE  IInv' /\ Grown(g, g')
<1>1. GraphInv' /\ Grown(g, g') /\ g' = g /\ cplx_cons' = cplx_cons
  BY GraphKept DEF IInv, Converge, graphVars
<1>2. WorkType'
  BY DEF IInv, Converge, WorkType, Heaps, wlVars, countVars
<1>3. VisitInv' /\ MergeInv' /\ LcdInv'
  BY <1>1 DEF IInv, Converge, VisitInv, VisitType, MergeInv, MergeType, LcdInv, LcdType,
              InLcdDfs, visitVars, mergeVars, lcdVars, is_rep
<1> QED
  BY <1>1, <1>2, <1>3 DEF IInv, Converge, Pcs

LEMMA PopStaleInv ==
  ASSUME IInv, NEW e \in curr, PopStale(e)
  PROVE  IInv' /\ Grown(g, g')
<1>1. GraphInv' /\ Grown(g, g') /\ g' = g /\ cplx_cons' = cplx_cons
  BY GraphKept DEF IInv, PopStale, graphVars
<1>2. WorkType'
  BY DEF IInv, PopStale, WorkType, Heaps, wlVars, countVars
<1>3. VisitInv' /\ MergeInv' /\ LcdInv'
  BY <1>1 DEF IInv, PopStale, VisitInv, VisitType, MergeInv, MergeType, LcdInv, LcdType,
              InLcdDfs, visitVars, mergeVars, lcdVars, is_rep
<1> QED
  BY <1>1, <1>2, <1>3 DEF IInv, PopStale

LEMMA HcdMemberInv ==
  ASSUME IInv, NEW m \in members, HcdMember(m)
  PROVE  IInv' /\ Grown(g, g')
<1>1. GraphInv' /\ Grown(g, g') /\ g' = g /\ cplx_cons' = cplx_cons
  BY GraphKept DEF IInv, HcdMember, graphVars
<1>2. m[1] \in Node /\ get_node_rep(m[1]) \in Node
  BY RepIsRep DEF IInv, VisitInv, VisitType
<1>3. WorkType'
  BY DEF IInv, HcdMember, WorkType, Heaps, wlVars, countVars
<1>4. pc' \in {"hcd", "merge"} /\ (pc' = "merge" => mret' = "hcd")
  BY DEF HcdMember
<1>5. VisitInv'
  BY <1>1, <1>4 DEF IInv, HcdMember, VisitInv, VisitType, is_rep
<1>6. MergeInv'
  <2>1. CASE get_node_rep(m[1]) \in {hcd_rep, i2p}
    BY <1>4, <2>1 DEF IInv, HcdMember, MergeInv, MergeType, mergeVars
  <2>2. CASE get_node_rep(m[1]) \notin {hcd_rep, i2p}
    BY <1>2, <1>4, <2>2 DEF IInv, HcdMember, VisitInv, VisitType, MergeInv, MergeType
  <2> QED
    BY <2>1, <2>2
<1>7. LcdInv'
  BY <1>1, <1>4 DEF IInv, HcdMember, LcdInv, LcdType, InLcdDfs, lcdVars
<1> QED
  BY <1>1, <1>3, <1>4, <1>5, <1>6, <1>7 DEF IInv, HcdMember, Pcs

LEMMA PushType ==
  ASSUME NEW heap \in Heaps, NEW h \in Graph, NEW x \in Node, NEW b \in BOOLEAN
  PROVE  Push(heap, x, h.vtime[x]) \in Heaps /\ PushIf(b, heap, x, h) \in Heaps
BY DEF Push, PushIf, Heaps, Graph

LEMMA HcdDoneInv ==
  ASSUME IInv, HcdDone
  PROVE  IInv' /\ Grown(g, g')
<1>1. GraphInv' /\ Grown(g, g') /\ g' = g /\ cplx_cons' = cplx_cons
  BY GraphKept DEF IInv, HcdDone, graphVars
<1>2. WorkType'
  BY <1>1, PushType DEF IInv, HcdDone, WorkType, VisitInv, VisitType, GraphInv, GraphType,
                        countVars
<1>3. VisitInv'
  <2>1. ListOf(n, "load") \subseteq DOMAIN cplx_cons /\ ListOf(n, "load") \subseteq Nat
    BY DEF IInv, VisitInv, VisitType, GraphInv, GraphType, Graph, ListOf
  <2> QED
    BY <1>1, <2>1 DEF IInv, HcdDone, VisitInv, VisitType, graphVars
<1>4. MergeInv' /\ LcdInv'
  BY <1>1 DEF IInv, HcdDone, MergeInv, MergeType, LcdInv, LcdType, InLcdDfs,
              mergeVars, lcdVars
<1> QED
  BY <1>1, <1>2, <1>3, <1>4 DEF IInv, HcdDone, Pcs

LEMMA NextPhaseInv ==
  ASSUME IInv, NextPhase
  PROVE  IInv' /\ Grown(g, g')
<1>1. GraphInv' /\ Grown(g, g') /\ g' = g /\ cplx_cons' = cplx_cons
  BY GraphKept DEF IInv, NextPhase, graphVars
<1>2. phase' \in {"load", "store", "gep"} /\ pc' \in {"cons", "prop"}
  BY DEF IInv, NextPhase, VisitInv, VisitType
<1>3. VisitInv'
  <2>1. ListOf(n, phase') \subseteq DOMAIN cplx_cons /\ ListOf(n, phase') \subseteq Nat
    BY DEF IInv, VisitInv, VisitType, GraphInv, GraphType, Graph, ListOf
  <2> QED
    BY <1>1, <1>2, <2>1 DEF IInv, NextPhase, VisitInv, VisitType, graphVars
<1>4. WorkType' /\ MergeInv' /\ LcdInv'
  BY <1>1, <1>2 DEF IInv, NextPhase, WorkType, Heaps, MergeInv, MergeType, LcdInv, LcdType,
              InLcdDfs, wlVars, countVars, mergeVars, lcdVars
<1> QED
  BY <1>1, <1>2, <1>3, <1>4 DEF IInv, NextPhase, Pcs

LEMMA GiveUpInv ==
  ASSUME IInv, GiveUp
  PROVE  IInv' /\ Grown(g, g')
<1>1. GraphInv' /\ Grown(g, g') /\ g' = g /\ cplx_cons' = cplx_cons
  BY GraphKept DEF IInv, GiveUp, graphVars
<1>2. WorkType'
  BY DEF IInv, GiveUp, WorkType, Heaps, wlVars, countVars
<1>3. VisitInv' /\ MergeInv' /\ LcdInv'
  BY <1>1 DEF IInv, GiveUp, VisitInv, VisitType, MergeInv, MergeType, LcdInv, LcdType,
              InLcdDfs, visitVars, mergeVars, lcdVars, is_rep
<1> QED
  BY <1>1, <1>2, <1>3 DEF IInv, GiveUp, Pcs

LEMMA KeepGoingInv ==
  ASSUME IInv, KeepGoing
  PROVE  IInv' /\ Grown(g, g')
<1>1. GraphInv' /\ Grown(g, g') /\ g' = g /\ cplx_cons' = cplx_cons
  BY GraphKept DEF IInv, KeepGoing, graphVars
<1>2. WorkType'
  BY DEF IInv, KeepGoing, WorkType, Heaps, wlVars, countVars
<1>3. VisitInv' /\ MergeInv' /\ LcdInv'
  BY <1>1 DEF IInv, KeepGoing, VisitInv, VisitType, MergeInv, MergeType, LcdInv, LcdType,
              InLcdDfs, visitVars, mergeVars, lcdVars, is_rep
<1> QED
  BY <1>1, <1>2, <1>3 DEF IInv, KeepGoing, Pcs

-----------------------------------------------------------------------------
(* Complex constraints *)

(* A constraint rewritten to the representatives.                          *)
LEMMA UpdatedCons ==
  ASSUME GraphInv, NEW cid \in DOMAIN cplx_cons
  PROVE  LET C0 == cplx_cons[cid]
             C == Updated(C0)
         IN /\ C0 \in Constraint /\ C \in Constraint
            /\ is_rep(g, C.dest) /\ is_rep(g, C.src)
            /\ C.type = C0.type /\ C.off = C0.off
            /\ g.rep[Base(C)] = g.rep[Base(C0)]
<1> DEFINE C0 == cplx_cons[cid]
           C == Updated(C0)
<1>1. C0 \in Constraint
  BY DEF GraphInv, GraphType
<1>2. C0.dest \in Node /\ C0.src \in Node
  BY <1>1 DEF Constraint
<1>3. /\ get_node_rep(C0.dest) \in Node /\ is_rep(g, get_node_rep(C0.dest))
      /\ get_node_rep(C0.src) \in Node /\ is_rep(g, get_node_rep(C0.src))
  BY <1>2, RepIsRep
<1>4. C \in Constraint /\ C.dest = get_node_rep(C0.dest) /\ C.src = get_node_rep(C0.src)
      /\ C.type = C0.type /\ C.off = C0.off
  BY <1>1, <1>3 DEF Updated, Constraint
<1>5. g.rep[Base(C)] = g.rep[Base(C0)]
  BY <1>3, <1>4 DEF Base, is_rep, get_node_rep
<1> QED
  BY <1>1, <1>3, <1>4, <1>5

(* A step that extends the graph, may delete constraints from the lists    *)
(* and may rewrite one.                                                    *)
LEMMA GraphRewritten ==
  ASSUME GraphInv, NEW cid \in DOMAIN cplx_cons,
         NEW h, Extends(g, h), NEW x \in Node, NEW S,
         g' = h \/ g' = [h EXCEPT !.cons[x] = @ \ S],
         sys' = sys,
         cplx_cons' = [cplx_cons EXCEPT ![cid] = Updated(cplx_cons[cid])],
         icall_cons' \in SUBSET (Constraint \X Site),
         ext_seen' \in SUBSET (ExtNode \X Site)
  PROVE  GraphInv' /\ Grown(g, g') /\ g'.rep = g.rep /\ DOMAIN cplx_cons' = DOMAIN cplx_cons
<1>1. h \in Graph /\ Canonical(h) /\ Grown(g, h) /\ h.rep = g.rep /\ h.cons = g.cons
  BY DEF Extends, SameLists
<1>2. /\ g' \in Graph /\ g'.rep = g.rep /\ g'.points_to = h.points_to
      /\ g'.prev_points_to = h.prev_points_to /\ g'.copy_to = h.copy_to
      /\ g'.hcd_var = h.hcd_var /\ g'.ind_calls = h.ind_calls
      /\ \A y \in Node : g'.cons[y] \subseteq g.cons[y]
  <2>1. CASE g' = h
    BY <1>1, <2>1
  <2>2. CASE g' = [h EXCEPT !.cons[x] = @ \ S]
    BY <1>1, <2>2 DEF Graph
  <2> QED
    BY <2>1, <2>2
<1>3. NonRepEmpty' /\ (g.rep[0] = 0)'
  BY <1>1, <1>2 DEF Canonical, NonRepEmpty, is_rep
<1>4. Grown(g, g')
  BY <1>1, <1>2 DEF Grown
<1>5. cplx_cons' \in Seq(Constraint) /\ DOMAIN cplx_cons' = DOMAIN cplx_cons
  BY UpdatedCons DEF GraphInv, GraphType
<1>6. ASSUME NEW y \in Node, NEW id \in g'.cons[y]
      PROVE  id \in DOMAIN cplx_cons /\ g.rep[Base(cplx_cons'[id])] = y
  <2>1. id \in g.cons[y] /\ id \in DOMAIN cplx_cons /\ g.rep[Base(cplx_cons[id])] = y
    BY <1>2, <1>6 DEF GraphInv, ListsCurrent
  <2>2. CASE id = cid
    BY <2>1, <2>2, UpdatedCons
  <2>3. CASE id # cid
    BY <2>1, <2>3
  <2> QED
    BY <2>2, <2>3
<1>7. ListsCurrent' /\ (\A y \in Node : g.cons[y] \subseteq DOMAIN cplx_cons)'
  BY <1>2, <1>5, <1>6 DEF ListsCurrent
<1> QED
  BY <1>2, <1>3, <1>4, <1>5, <1>7 DEF GraphInv, GraphType

(* A step on the worklist, merges and lcd_dfs variables alone.             *)
LEMMA RestKept ==
  ASSUME IInv, UNCHANGED <<mergeVars, lcdVars>>, g'.rep = g.rep,
         pc' \in {"cons", "member", "prop", "check", "abort"}
  PROVE  MergeInv' /\ LcdInv'
BY DEF IInv, MergeInv, MergeType, LcdInv, LcdType, InLcdDfs, mergeVars, lcdVars, is_rep

LEMMA LoadMemberInv ==
  ASSUME IInv, NEW m \in members, LoadMember(m)
  PROVE  IInv' /\ Grown(g, g')
<1> DEFINE t == get_node_rep(m[1] + lsc.C.off)
<1>1. t \in Node /\ is_rep(g, t) /\ lsc.C.dest \in Node /\ is_rep(g, lsc.C.dest)
  BY RepIsRep DEF IInv, LoadMember, VisitInv, VisitType, LsCall, Constraint
<1>2. g' = add_copy_edge(g, t, lsc.C.dest)
  BY DEF LoadMember
<1>3. Extends(g, g')
  BY <1>1, <1>2, AddCopyEdgeExtends, CanonicalGraph DEF IInv
<1>4. GraphInv' /\ Grown(g, g') /\ g'.rep = g.rep
  BY <1>3, GraphExtended DEF IInv, LoadMember, GraphInv, GraphType
<1>5. WorkType'
  BY DEF IInv, LoadMember, WorkType, Heaps, wlVars, countVars
<1>6. VisitInv'
  BY <1>4 DEF IInv, LoadMember, VisitInv, VisitType, is_rep
<1>7. MergeInv' /\ LcdInv'
  BY <1>4, RestKept DEF LoadMember
<1> QED
  BY <1>4, <1>5, <1>6, <1>7 DEF IInv, LoadMember

LEMMA StoreMemberInv ==
  ASSUME IInv, NEW m \in members, StoreMember(m)
  PROVE  IInv' /\ Grown(g, g')
<1> DEFINE t == get_node_rep(m[1] + lsc.C.off)
<1>1. t \in Node /\ is_rep(g, t) /\ lsc.C.src \in Node /\ is_rep(g, lsc.C.src)
  BY RepIsRep DEF IInv, StoreMember, VisitInv, VisitType, LsCall, Constraint
<1>2. \/ g' = g /\ next' = next
      \/ /\ g' = add_copy_edge(g, lsc.C.src, t)
         /\ next' = PushIf(Grew(g, g', t), next, t, g)
  BY DEF StoreMember
<1>3. Extends(g, g')
  BY <1>1, <1>2, AddCopyEdgeExtends, ExtendsSelf, CanonicalGraph DEF IInv
<1>4. GraphInv' /\ Grown(g, g') /\ g'.rep = g.rep
  BY <1>3, GraphExtended DEF IInv, StoreMember, GraphInv, GraphType
<1>5. WorkType'
  <2>1. PushIf(Grew(g, g', t), next, t, g) \in Heaps
    BY <1>1, PushType DEF IInv, WorkType, GraphInv, GraphType, Grew
  <2> QED
    BY <1>2, <2>1 DEF IInv, StoreMember, WorkType, countVars
<1>6. VisitInv'
  BY <1>4 DEF IInv, StoreMember, VisitInv, VisitType, is_rep
<1>7. MergeInv' /\ LcdInv'
  BY <1>4, RestKept DEF StoreMember
<1> QED
  BY <1>4, <1>5, <1>6, <1>7 DEF IInv, StoreMember

LEMMA HandleExtInv ==
  ASSUME IInv, NEW m \in members, HandleExt(m)
  PROVE  IInv' /\ Grown(g, g')
<1> DEFINE e == ExtEffect[m]
           d == get_node_rep(e.dest)
           s == get_node_rep(e.src)
<1>1. m \in ExtNode \X Site
  BY DEF IInv, HandleExt, VisitInv
<1>2. e \in Effect
  BY <1>1, CallAssumption
<1>3. e.dest \in Node /\ e.src \in Node /\ e.kind \in {"none", "point", "copy"}
  BY <1>2 DEF Effect
<1>4. d \in Node /\ is_rep(g, d) /\ s \in Node /\ is_rep(g, s)
  BY <1>3, RepIsRep DEF IInv
<1>5. \/ g' = g /\ next' = next
      \/ /\ \/ e.kind = "none" /\ g' = g
            \/ e.kind = "point" /\ g' = AddPointees(g, d, {e.src})
            \/ e.kind = "copy" /\ g' = add_copy_edge(g, s, d)
         /\ next' = PushIf(Grew(g, g', d), next, d, g)
  BY <1>3 DEF HandleExt
<1>6. Extends(g, g')
  BY <1>3, <1>4, <1>5, AddCopyEdgeExtends, AddPointeesExtends, ExtendsSelf, CanonicalGraph
  DEF IInv
<1>7. ext_seen' \in SUBSET (ExtNode \X Site)
  BY <1>1 DEF IInv, HandleExt, GraphInv, GraphType
<1>8. GraphInv' /\ Grown(g, g') /\ g'.rep = g.rep
  BY <1>6, <1>7, GraphExtended DEF IInv, HandleExt
<1>9. WorkType'
  <2>1. PushIf(Grew(g, g', d), next, d, g) \in Heaps
    BY <1>4, PushType DEF IInv, WorkType, GraphInv, GraphType, Grew
  <2> QED
    BY <1>5, <2>1 DEF IInv, HandleExt, WorkType, countVars
<1>10. VisitInv'
  BY <1>8 DEF IInv, HandleExt, VisitInv, VisitType, is_rep
<1>11. MergeInv' /\ LcdInv'
  BY <1>8, RestKept DEF HandleExt
<1> QED
  BY <1>8, <1>9, <1>10, <1>11 DEF IInv, HandleExt

LEMMA LsDoneInv ==
  ASSUME IInv, LsDone
  PROVE  IInv' /\ Grown(g, g')
<1>1. lsc.C.dest \in Node /\ is_rep(g, lsc.C.dest) /\ n \in Node
  BY DEF IInv, LsDone, VisitInv, VisitType, LsCall, Constraint
<1>2. /\ g' \in Graph /\ g'.rep = g.rep /\ g'.points_to = g.points_to
      /\ g'.prev_points_to = g.prev_points_to /\ g'.copy_to = g.copy_to
      /\ g'.hcd_var = g.hcd_var /\ g'.ind_calls = g.ind_calls
      /\ \A y \in Node : g'.cons[y] \subseteq g.cons[y]
  <2>1. CASE g' = g
    BY <2>1 DEF IInv, GraphInv, GraphType
  <2>2. CASE g' = [g EXCEPT !.cons[n] = @ \ {lsc.cid}]
    BY <1>1, <2>2 DEF IInv, GraphInv, GraphType, Graph
  <2> QED
    BY <2>1, <2>2 DEF LsDone
<1>3. GraphInv'
  BY <1>2 DEF IInv, LsDone, GraphInv, GraphType, NonRepEmpty, ListsCurrent, is_rep
<1>4. Grown(g, g')
  BY <1>2 DEF Grown
<1>5. WorkType'
  <2>1. PushIf(chg, next, lsc.C.dest, g) \in Heaps
    BY <1>1, PushType DEF IInv, WorkType, GraphInv, GraphType, VisitInv, VisitType
  <2> QED
    BY <2>1 DEF IInv, LsDone, WorkType, countVars
<1>6. VisitInv'
  BY <1>2 DEF IInv, LsDone, VisitInv, VisitType, visitVars, is_rep
<1>7. MergeInv' /\ LcdInv'
  BY <1>2, RestKept DEF LsDone
<1> QED
  BY <1>3, <1>4, <1>5, <1>6, <1>7 DEF IInv, LsDone, Pcs

LEMMA GepConsInv ==
  ASSUME IInv, GepCons
  PROVE  IInv' /\ Grown(g, g')
<1> DEFINE cid == Min(todo)
           C0 == cplx_cons[cid]
           C == Updated(C0)
           h == AddPointees(g, C.dest, Shift(d_points_to, C.off))
<1>1. cid \in todo /\ cid \in DOMAIN cplx_cons /\ n \in Node
  BY MinMember DEF IInv, GepCons, VisitInv, VisitType
<1>2. /\ C \in Constraint /\ is_rep(g, C.dest)
      /\ C.dest \in Node /\ C.off \in Nat
  BY <1>1, UpdatedCons DEF IInv, Constraint
<1>3. Extends(g, g) /\ Extends(g, h)
  <2>1. Shift(d_points_to, C.off) \in SUBSET Node
    BY <1>2, ShiftNodes DEF IInv, VisitInv, VisitType
  <2> QED
    BY <1>2, <2>1, ExtendsSelf, AddPointeesExtends, CanonicalGraph DEF IInv
<1>4. g' = h \/ g' = [g EXCEPT !.cons[n] = @ \ {cid}]
  BY DEF GepCons
<1>5. cplx_cons' = [cplx_cons EXCEPT ![cid] = C] /\ sys' = sys
      /\ icall_cons' \in SUBSET (Constraint \X Site)
      /\ ext_seen' \in SUBSET (ExtNode \X Site)
  BY DEF IInv, GepCons, GraphInv, GraphType
<1>6. GraphInv' /\ Grown(g, g') /\ g'.rep = g.rep /\ DOMAIN cplx_cons' = DOMAIN cplx_cons
  <2> HIDE DEF h
  <2>1. CASE g' = h
    BY <1>1, <1>3, <1>5, <2>1, GraphRewritten DEF IInv
  <2>2. CASE g' = [g EXCEPT !.cons[n] = @ \ {cid}]
    BY <1>1, <1>3, <1>5, <2>2, GraphRewritten DEF IInv
  <2> QED
    BY <1>4, <2>1, <2>2
<1>7. WorkType'
  <2> DEFINE b == Grew(g, g', C.dest)
  <2>1. b \in BOOLEAN
    BY DEF Grew
  <2>2. next' = PushIf(b, next, C.dest, g)
    BY DEF GepCons
  <2> HIDE DEF b
  <2>3. next' \in Heaps
    BY <1>2, <2>1, <2>2, PushType DEF IInv, WorkType, GraphInv, GraphType
  <2> QED
    BY <2>3 DEF IInv, GepCons, WorkType, countVars
<1>8. pc' \in {"cons", "abort"}
  BY DEF GepCons
<1>9. VisitInv'
  BY <1>2, <1>6, <1>8 DEF IInv, GepCons, VisitInv, VisitType, is_rep
<1>10. MergeInv' /\ LcdInv'
  BY <1>6, <1>8, RestKept DEF GepCons
<1> QED
  BY <1>6, <1>7, <1>8, <1>9, <1>10 DEF IInv, GepCons, Pcs

(* Call instructions stay attached to constraints.                         *)
LEMMA CallsTyped ==
  ASSUME GraphInv, NEW cid \in DOMAIN cplx_cons
  PROVE  LET C0 == cplx_cons[cid]
             C == Updated(C0)
         IN /\ MovedCalls(C0) \in SUBSET (Constraint \X Site)
            /\ SitesOf(MovedCalls(C0), C) \in SUBSET Site
<1> DEFINE C0 == cplx_cons[cid]
           C == Updated(C0)
<1>1. C \in Constraint
  BY UpdatedCons
<1>2. CallSites(C0) \in SUBSET Site
  BY DEF CallSites, SitesOf
<1>3. {C} \X CallSites(C0) \in SUBSET (Constraint \X Site)
  BY <1>1, <1>2
<1>4. MovedCalls(C0) \in SUBSET (Constraint \X Site)
  BY <1>3 DEF MovedCalls, GraphInv, GraphType
<1> QED
  BY <1>4 DEF SitesOf

(* The pointees a load or store has to be solved for.                      *)
LEMMA MembersTyped ==
  ASSUME NEW C \in Constraint, NEW I \in SUBSET Site, d_points_to \in SUBSET Node
  PROVE  /\ LsMembers(C, I) \in SUBSET (Node \X (Site \cup {NoSite}))
         /\ \A m \in LsMembers(C, I) :
              IF m[2] = NoSite THEN m[1] + C.off \in Node ELSE m \in ExtNode \X Site
<1>1. C.off \in Nat
  BY DEF Constraint
<1>2. \A o \in Fits(d_points_to, C.off) : o \in Node /\ o + C.off \in Node
  BY <1>1, ShiftNodes DEF Shift, Fits
<1>3. NoSite \notin I
  BY CallAssumption
<1>4. CASE C.off = 0
  <2>1. LsMembers(C, I) = d_points_to \X {NoSite}
    BY <1>4 DEF LsMembers
  <2>2. \A o \in d_points_to : o \in Node /\ o + C.off = o
    BY <1>4, NodeAssumption
  <2> QED
    BY <2>1, <2>2
<1>5. CASE C.off # 0 /\ I = {}
  <2>1. LsMembers(C, I) = (Fits(d_points_to, C.off) \ FuncNode) \X {NoSite}
    BY <1>5 DEF LsMembers
  <2> QED
    BY <1>2, <2>1
<1>6. CASE C.off # 0 /\ I # {}
  <2> DEFINE X == (d_points_to \cap ExtNode) \X I
             Y == (Fits(d_points_to \cap FuncNode, C.off) \ ExtNode) \X {NoSite}
  <2>1. LsMembers(C, I) = X \cup Y
    BY <1>6 DEF LsMembers
  <2>2. X \in SUBSET (Node \X (Site \cup {NoSite})) /\ X \in SUBSET (ExtNode \X Site)
        /\ \A m \in X : m[2] # NoSite
    BY <1>3
  <2>3. Fits(d_points_to \cap FuncNode, C.off) \subseteq Fits(d_points_to, C.off)
    BY DEF Fits
  <2>4. Y \in SUBSET (Node \X (Site \cup {NoSite}))
        /\ \A m \in Y : m[2] = NoSite /\ m[1] + C.off \in Node
    BY <1>2, <2>3
  <2> HIDE DEF X, Y
  <2> QED
    BY <2>1, <2>2, <2>4
<1> QED
  BY <1>4, <1>5, <1>6

LEMMA LsConsInv ==
  ASSUME IInv, LsCons
  PROVE  IInv' /\ Grown(g, g')
<1> DEFINE cid == Min(todo)
           C0 == cplx_cons[cid]
           C == Updated(C0)
           ic == MovedCalls(C0)
           I == IF CallSites(C0) = {} THEN {} ELSE SitesOf(ic, C)
           dup == C \in cons_seen
           hcd == ~dup /\ hcd_rep # 0 /\ C.off = 0
           h == IF C.type = "load" THEN add_copy_edge(g, hcd_rep, C.dest)
                                   ELSE add_copy_edge(g, C.src, hcd_rep)
           d == IF C.type = "load" THEN C.dest ELSE hcd_rep
<1>1. cid \in todo /\ cid \in DOMAIN cplx_cons /\ cid \in Nat /\ n \in Node
      /\ hcd_rep \in Node /\ is_rep(g, hcd_rep) /\ d_points_to \in SUBSET Node
  BY MinMember DEF IInv, LsCons, VisitInv, VisitType
<1>2. /\ C \in Constraint /\ is_rep(g, C.dest) /\ is_rep(g, C.src)
      /\ C.dest \in Node /\ C.src \in Node /\ C.off \in Nat
  BY <1>1, UpdatedCons DEF IInv, Constraint
<1>3. ic \in SUBSET (Constraint \X Site) /\ I \in SUBSET Site
  BY <1>1, CallsTyped DEF IInv
<1>4. Extends(g, g) /\ Extends(g, h) /\ d \in Node
  BY <1>1, <1>2, ExtendsSelf, AddCopyEdgeExtends, CanonicalGraph DEF IInv
<1>5. /\ cplx_cons' = [cplx_cons EXCEPT ![cid] = C] /\ sys' = sys
      /\ icall_cons' \in SUBSET (Constraint \X Site)
      /\ ext_seen' \in SUBSET (ExtNode \X Site)
  BY <1>3 DEF IInv, LsCons, GraphInv, GraphType
<1>6. \/ /\ hcd
         /\ g' = [h EXCEPT !.cons[n] = @ \ {cid}]
         /\ next' = PushIf(Grew(g, h, d), next, d, g)
         /\ members' = {} /\ lsc' = lsc /\ pc' \in {"cons", "abort"}
      \/ /\ ~hcd
         /\ g' = g /\ next' = next
         /\ lsc' = [C |-> C, cid |-> cid, I |-> I, del |-> dup]
         /\ members' = IF dup THEN (d_points_to \cap ExtNode) \X I ELSE LsMembers(C, I)
         /\ pc' \in {"member", "abort"}
  BY DEF LsCons
<1>7. pc' \in {"cons", "member", "abort"}
  BY <1>6
<1>8. GraphInv' /\ Grown(g, g') /\ g'.rep = g.rep /\ DOMAIN cplx_cons' = DOMAIN cplx_cons
  <2> HIDE DEF h, hcd, d, I, dup
  <2>1. CASE g' = g
    BY <1>1, <1>4, <1>5, <2>1, GraphRewritten DEF IInv
  <2>2. CASE g' = [h EXCEPT !.cons[n] = @ \ {cid}]
    BY <1>1, <1>4, <1>5, <2>2, GraphRewritten DEF IInv
  <2> QED
    BY <1>6, <2>1, <2>2
<1>9. WorkType'
  <2> DEFINE b == Grew(g, h, d)
  <2>1. b \in BOOLEAN
    BY DEF Grew
  <2>2. next' = next \/ next' = PushIf(b, next, d, g)
    BY <1>6
  <2> HIDE DEF b, d
  <2>3. next' \in Heaps
    BY <1>4, <2>1, <2>2, PushType DEF IInv, WorkType, GraphInv, GraphType
  <2> QED
    BY <2>3 DEF IInv, LsCons, WorkType, countVars
<1>10. VisitInv'
  <2>1. lsc' \in LsCall /\ members' \in SUBSET (Node \X (Site \cup {NoSite}))
        /\ (pc' = "member" =>
              /\ lsc'.C = C
              /\ \A m \in members' : IF m[2] = NoSite THEN m[1] + C.off \in Node
                                                    ELSE m \in ExtNode \X Site)
    <3>0. dup \in BOOLEAN
      OBVIOUS
    <3> HIDE DEF C, I, cid
    <3>1. CASE hcd
      BY <1>6, <3>1 DEF IInv, VisitInv, VisitType
    <3>2. CASE ~hcd
      <4>0. lsc' = [C |-> C, cid |-> cid, I |-> I, del |-> dup]
        BY <1>6, <3>2
      <4>1. lsc' \in LsCall /\ lsc'.C = C
        <5> HIDE DEF dup
        <5> QED
          BY <1>1, <1>2, <1>3, <3>0, <4>0 DEF LsCall
      <4>2. CASE dup
        <5>1. members' = (d_points_to \cap ExtNode) \X I
          BY <1>6, <3>2, <4>2
        <5>2. NoSite \notin I
          BY <1>3, CallAssumption
        <5> QED
          BY <1>1, <1>3, <4>1, <5>1, <5>2
      <4>3. CASE ~dup
        <5>1. members' = LsMembers(C, I)
          BY <1>6, <3>2, <4>3
        <5> QED
          BY <1>1, <1>2, <1>3, <4>1, <5>1, MembersTyped
      <4> QED
        BY <4>2, <4>3
    <3> QED
      BY <3>1, <3>2
  <2>2. todo' \subseteq DOMAIN cplx_cons' /\ todo' \in SUBSET Nat
        /\ cons_seen' \in SUBSET Constraint /\ chg' \in BOOLEAN
    BY <1>2, <1>8 DEF IInv, LsCons, VisitInv, VisitType
  <2> HIDE DEF C
  <2>3. n' = n /\ d_points_to' = d_points_to /\ hcd_rep' = hcd_rep /\ phase' = phase
    BY DEF LsCons
  <2> QED
    BY <1>1, <1>2, <1>7, <1>8, <2>1, <2>2, <2>3 DEF IInv, VisitInv, VisitType, is_rep
<1>11. MergeInv' /\ LcdInv'
  BY <1>7, <1>8, RestKept DEF LsCons
<1> QED
  BY <1>7, <1>8, <1>9, <1>10, <1>11 DEF IInv, LsCons, Pcs

LEMMA PropInv ==
  ASSUME IInv, Prop
  PROVE  IInv' /\ Grown(g, g')
<1> DEFINE dests == {get_node_rep(d) : d \in g.copy_to[n]} \ {n}
<1>1. n \in Node /\ d_points_to \in SUBSET Node /\ g \in Graph /\ Canonical(g)
  BY CanonicalGraph DEF IInv, VisitInv, VisitType
<1>2. \A x \in dests : x \in Node /\ is_rep(g, x)
  BY <1>1, RepIsRep DEF IInv, Graph
<1>3. g' = [g EXCEPT !.points_to =
              [x \in Node |-> IF x \in dests THEN @[x] \cup d_points_to ELSE @[x]]]
  BY DEF Prop
<1>4. /\ g'.points_to = [x \in Node |-> IF x \in dests THEN g.points_to[x] \cup d_points_to
                                                      ELSE g.points_to[x]]
      /\ g'.prev_points_to = g.prev_points_to /\ g'.rep = g.rep /\ g'.cons = g.cons
      /\ g'.copy_to = g.copy_to /\ g'.hcd_var = g.hcd_var /\ g'.ind_calls = g.ind_calls
  BY <1>1, <1>3 DEF Graph
<1>5. g' \in Graph
  <2> HIDE DEF dests
  <2> QED
    BY <1>1, <1>3 DEF Graph
<1>6. Extends(g, g')
  <2>1. Canonical(g')
    BY <1>1, <1>2, <1>4 DEF Canonical, is_rep, Graph
  <2>2. Grown(g, g')
    BY <1>1, <1>4 DEF Grown, Graph
  <2> QED
    BY <1>4, <1>5, <2>1, <2>2 DEF Extends, SameLists
<1>7. GraphInv' /\ Grown(g, g') /\ g'.rep = g.rep
  BY <1>6, GraphExtended DEF IInv, Prop, GraphInv, GraphType
<1>8. next' \in Heaps
  <2> DEFINE X == {d \in dests : Grew(g, g', d)}
  <2>1. X \in SUBSET Node
    BY <1>2
  <2>2. next' = PushAll(next, X, g)
    BY DEF Prop
  <2> HIDE DEF X
  <2> QED
    BY <1>1, <2>1, <2>2 DEF IInv, WorkType, PushAll, Heaps, Graph
<1>9. lcd_edges' \in SUBSET (Node \X Node) /\ lcd_starts' \in SUBSET Node
  BY <1>1, <1>2 DEF IInv, Prop, WorkType
<1>10. pc' \in {"check", "abort"}
  BY DEF Prop
<1>11. WorkType'
  BY <1>8, <1>9 DEF IInv, Prop, WorkType, countVars
<1>12. VisitInv'
  BY <1>7, <1>10 DEF IInv, Prop, VisitInv, VisitType, visitVars
<1>13. MergeInv' /\ LcdInv'
  BY <1>7, <1>10, RestKept DEF Prop
<1> QED
  BY <1>7, <1>10, <1>11, <1>12, <1>13 DEF IInv, Prop, Pcs

-----------------------------------------------------------------------------
(* Merging *)

LEMMA MergeNodesInv ==
  ASSUME IInv, MergeNodes
  PROVE  IInv' /\ Grown(g, g')
<1> DEFINE p == Parent(g, marg[1], marg[2])
           c == Child(g, marg[1], marg[2])
           nested == NestedMerge(g, marg[1], marg[2])
<1>1. CASE ~CanMerge(g, marg[1], marg[2])
  <2>1. pc' = "abort" /\ UNCHANGED <<sys, graphVars, marg, mframes, mret>>
    BY <1>1 DEF MergeNodes, graphVars
  <2>2. GraphInv' /\ Grown(g, g') /\ g' = g /\ cplx_cons' = cplx_cons
    BY <2>1, GraphKept DEF IInv, graphVars
  <2>3. WorkType' /\ VisitInv'
    BY <2>1, <2>2 DEF IInv, MergeNodes, WorkType, Heaps, VisitInv, VisitType, wlVars, countVars,
                      visitVars
  <2>4. MergeInv' /\ LcdInv'
    BY <2>1, <2>2 DEF IInv, MergeNodes, MergeInv, MergeType, LcdInv, LcdType, InLcdDfs, lcdVars
  <2> QED
    BY <2>1, <2>2, <2>3, <2>4 DEF IInv, MergeNodes, Pcs
<1>2. CASE CanMerge(g, marg[1], marg[2])
  <2>1. /\ p \in Node /\ c \in Node /\ p # c /\ p # 0 /\ c # 0 /\ is_rep(g, p) /\ is_rep(g, c)
        /\ g \in Graph /\ Canonical(g)
    BY <1>2, CanonicalGraph DEF IInv, MergeInv, MergeType, CanMerge, Parent, Child
  <2>2. g' = Absorb(g, p, c)
    BY <1>2 DEF MergeNodes, Unify
  <2>3. /\ g' \in Graph /\ Canonical(g') /\ Grown(g, g') /\ is_rep(g', p)
        /\ \A x \in Node : g'.rep[x] = IF g.rep[x] = c THEN p ELSE g.rep[x]
    <3> HIDE DEF p, c
    <3> QED
      BY <2>1, <2>2, AbsorbGraph, AbsorbCanonical
  <2>4. sys' = sys /\ cplx_cons' = cplx_cons /\ icall_cons' = icall_cons
        /\ ext_seen' = ext_seen
    BY DEF MergeNodes
  <2>5. g'.cons = [g.cons EXCEPT ![p] = @ \cup g.cons[c], ![c] = {}]
    BY <2>2 DEF Absorb, MergedCons
  <2>6. GraphInv'
    <3> HIDE DEF p, c
    <3>1. GraphType' /\ NonRepEmpty' /\ (g.rep[0] = 0)'
      BY <2>3, <2>4 DEF IInv, GraphInv, GraphType, NonRepEmpty, Canonical, is_rep
    <3>2. ASSUME NEW x \in Node, NEW cid \in g'.cons[x]
          PROVE  cid \in DOMAIN cplx_cons /\ g'.rep[Base(cplx_cons[cid])] = x
      <4>1. \/ x = p /\ cid \in g.cons[p] \cup g.cons[c]
            \/ x # p /\ x # c /\ cid \in g.cons[x]
        BY <2>1, <2>5, <3>2 DEF Graph
      <4>2. PICK y \in Node : cid \in g.cons[y] /\ (y = x \/ (y = c /\ x = p)) /\ (x # c)
        BY <2>1, <4>1
      <4>3. cid \in DOMAIN cplx_cons /\ g.rep[Base(cplx_cons[cid])] = y
        BY <4>2 DEF IInv, GraphInv, ListsCurrent
      <4>4. Base(cplx_cons[cid]) \in Node
        <5>1. cplx_cons[cid] \in Constraint
          BY <4>3 DEF IInv, GraphInv, GraphType
        <5> QED
          BY <5>1 DEF Base, Constraint
      <4> QED
        BY <2>1, <2>3, <4>2, <4>3, <4>4 DEF is_rep
    <3> QED
      BY <2>4, <3>1, <3>2 DEF GraphInv, ListsCurrent
  <2>7. CASE nested = <<>>
    <3>1. marg' = <<p, p>> /\ pc' = "unwind" /\ mframes' = mframes /\ mret' = mret
      BY <1>2, <2>7 DEF MergeNodes
    <3>2. WorkType' /\ VisitInv'
      BY <2>4, <3>1 DEF IInv, MergeNodes, WorkType, Heaps, VisitInv, VisitType, wlVars,
                        countVars, visitVars
    <3>3. MergeInv' /\ LcdInv'
      <4> HIDE DEF p
      <4> QED
        BY <2>1, <2>3, <3>1 DEF IInv, MergeNodes, MergeInv, MergeType, LcdInv, LcdType,
                                InLcdDfs, lcdVars
    <3> QED
      BY <2>3, <2>6, <3>1, <3>2, <3>3 DEF IInv, MergeNodes, Pcs
  <2>8. CASE nested # <<>>
    <3>1. /\ marg' = nested /\ pc' = pc /\ pc = "merge" /\ mret' = mret
          /\ mframes' = Append(mframes, [n1 |-> p, rhv2 |-> nested[2]])
      BY <1>2, <2>8 DEF MergeNodes
    <3>2. nested \in Node \X Node
      <4> DEFINE h == Unify(g, marg[1], marg[2])
      <4>1. h = g'
        BY <1>2 DEF MergeNodes
      <4>2. h.rep[g.hcd_var[p]] \in Node /\ h.rep[g.hcd_var[c]] \in Node
        <5> HIDE DEF p, c, h
        <5> QED
          BY <2>1, <2>3, <4>1 DEF Graph
      <4>3. nested = <<h.rep[g.hcd_var[p]], h.rep[g.hcd_var[c]]>>
        BY <2>8 DEF NestedMerge
      <4> QED
        BY <4>2, <4>3
    <3>3. WorkType' /\ VisitInv'
      BY <2>4, <3>1 DEF IInv, MergeNodes, WorkType, Heaps, VisitInv, VisitType, wlVars,
                        countVars, visitVars
    <3>4. MergeInv' /\ LcdInv'
      <4> HIDE DEF p, nested
      <4>1. [n1 |-> p, rhv2 |-> nested[2]] \in MergeFrame
        BY <2>1, <3>2 DEF MergeFrame
      <4> QED
        BY <2>1, <3>1, <3>2, <4>1 DEF IInv, MergeNodes, MergeInv, MergeType, LcdInv, LcdType,
                                InLcdDfs, lcdVars
    <3> QED
      BY <2>3, <2>6, <3>1, <3>3, <3>4 DEF IInv, MergeNodes
  <2> QED
    BY <2>7, <2>8
<1> QED
  BY <1>1, <1>2

LEMMA MergeReturnInv ==
  ASSUME IInv, MergeReturn
  PROVE  IInv' /\ Grown(g, g')
<1> DEFINE f == Last(mframes)
           r == IF f.n1 = f.rhv2 THEN get_node_rep(f.n1) ELSE f.n1
<1>1. GraphInv' /\ Grown(g, g') /\ g' = g /\ cplx_cons' = cplx_cons
  BY GraphKept DEF IInv, MergeReturn, graphVars
<1>2. f \in MergeFrame /\ Front(mframes) \in Seq(MergeFrame)
  BY FrontLast DEF IInv, MergeReturn, MergeInv, MergeType
<1>3. f.n1 \in Node /\ f.rhv2 \in Node
  BY <1>2 DEF MergeFrame
<1>4. r \in Node
  BY <1>3, RepIsRep DEF IInv
<1>5. /\ marg' = <<r, r>> /\ mframes' = Front(mframes) /\ mret' = mret
      /\ pc' = (IF is_rep(g, r) THEN "unwind" ELSE "abort") /\ pc = "unwind"
  BY DEF MergeReturn
<1>6. WorkType'
  BY DEF IInv, MergeReturn, WorkType, Heaps, wlVars, countVars
<1>7. VisitInv'
  BY <1>1, <1>5 DEF IInv, MergeReturn, VisitInv, VisitType, visitVars
<1> HIDE DEF r
<1>8. MergeInv'
  BY <1>1, <1>2, <1>4, <1>5 DEF IInv, MergeInv, MergeType
<1>9. LcdInv'
  BY <1>1, <1>5 DEF IInv, MergeReturn, LcdInv, LcdType, InLcdDfs, lcdVars
<1> QED
  BY <1>1, <1>5, <1>6, <1>7, <1>8, <1>9 DEF IInv, MergeReturn, Pcs

LEMMA ReturnToHcdInv ==
  ASSUME IInv, ReturnToHcd
  PROVE  IInv' /\ Grown(g, g')
<1>1. GraphInv' /\ Grown(g, g') /\ g' = g /\ cplx_cons' = cplx_cons
  BY GraphKept DEF IInv, ReturnToHcd, graphVars
<1>2. WorkType'
  BY DEF IInv, ReturnToHcd, WorkType, Heaps, wlVars, countVars
<1>3. VisitInv'
  BY <1>1 DEF IInv, ReturnToHcd, VisitInv, VisitType, MergeInv, MergeType
<1>4. MergeInv' /\ LcdInv'
  BY <1>1 DEF IInv, ReturnToHcd, MergeInv, MergeType, LcdInv, LcdType, InLcdDfs, mergeVars,
              lcdVars
<1> QED
  BY <1>1, <1>2, <1>3, <1>4 DEF IInv, ReturnToHcd, Pcs

LEMMA ReturnToCollapseInv ==
  ASSUME IInv, ReturnToCollapse
  PROVE  IInv' /\ Grown(g, g')
<1>1. GraphInv' /\ Grown(g, g') /\ g' = g /\ cplx_cons' = cplx_cons
  BY GraphKept DEF IInv, ReturnToCollapse, graphVars
<1>2. WorkType' /\ VisitInv'
  BY <1>1 DEF IInv, ReturnToCollapse, WorkType, Heaps, VisitInv, VisitType, wlVars, countVars,
              visitVars
<1>3. MergeInv'
  BY <1>1 DEF IInv, ReturnToCollapse, MergeInv, MergeType, mergeVars
<1>4. LcdInv'
  <2>1. frames \in Seq(DfsFrame) /\ Len(frames) \in Nat \ {0} /\ marg[1] \in Node
    BY DEF IInv, ReturnToCollapse, LcdInv, LcdType, InLcdDfs, MergeInv, MergeType
  <2>2. [frames[Len(frames)] EXCEPT !.n = marg[1]] \in DfsFrame
    <3>1. frames[Len(frames)] \in DfsFrame
      BY <2>1
    <3> QED
      BY <2>1, <3>1 DEF DfsFrame
  <2>3. frames' = [frames EXCEPT ![Len(frames)] = [frames[Len(frames)] EXCEPT !.n = marg[1]]]
    BY <2>1 DEF ReturnToCollapse
  <2>4. /\ frames' \in Seq(DfsFrame) /\ Len(frames') = Len(frames) /\ frames' # <<>>
        /\ \A i \in 1 .. (Len(frames) - 1) : frames'[i] = frames[i]
    <3> DEFINE r == [frames[Len(frames)] EXCEPT !.n = marg[1]]
    <3>1. r \in DfsFrame /\ frames' = [frames EXCEPT ![Len(frames)] = r]
      BY <2>2, <2>3
    <3> HIDE DEF r
    <3> QED
      BY ONLY <2>1, <3>1
  <2> QED
    BY <1>1, <2>1, <2>4 DEF IInv, ReturnToCollapse, LcdInv, LcdType, InLcdDfs
<1> QED
  BY <1>1, <1>2, <1>3, <1>4 DEF IInv, ReturnToCollapse, Pcs

-----------------------------------------------------------------------------
(* Lazy cycle detection *)

(* Changing the innermost frame and nothing else of the recursion.         *)
LEMMA TopChanged ==
  ASSUME NEW s \in Seq(DfsFrame), s # <<>>, NEW f \in DfsFrame,
         \A i \in 1 .. (Len(s) - 1) : s[i].waits
  PROVE  LET t == [s EXCEPT ![Len(s)] = f]
         IN /\ t \in Seq(DfsFrame) /\ t # <<>> /\ Len(t) = Len(s) /\ t[Len(t)] = f
            /\ \A i \in 1 .. (Len(t) - 1) : t[i].waits
<1> DEFINE t == [s EXCEPT ![Len(s)] = f]
<1>1. Len(s) \in Nat \ {0} /\ Len(s) \in DOMAIN s
  OBVIOUS
<1>2. t \in Seq(DfsFrame) /\ Len(t) = Len(s) /\ t[Len(s)] = f
      /\ \A i \in 1 .. (Len(s) - 1) : t[i] = s[i]
  BY <1>1
<1> QED
  BY <1>1, <1>2

(* Leaving the innermost frame: the caller waits, or lcd_dfs is through.   *)
LEMMA LeaveFrame ==
  ASSUME LcdType, frames # <<>>, \A i \in 1 .. (Len(frames) - 1) : frames[i].waits, Leave
  PROVE  /\ frames' \in Seq(DfsFrame) /\ pc' \in {"lcd", "dfs"}
         /\ \A i \in 1 .. (Len(frames') - 1) : frames'[i].waits
         /\ pc' = "dfs" => frames' # <<>> /\ frames'[Len(frames')].waits
<1>1. /\ frames' \in Seq(DfsFrame) /\ Len(frames') = Len(frames) - 1
      /\ Len(frames) \in Nat \ {0}
      /\ \A i \in 1 .. (Len(frames) - 1) : frames'[i] = frames[i]
  BY FrontLast DEF Leave, LcdType
<1>2. pc' = IF Len(frames) = 1 THEN "lcd" ELSE "dfs"
  BY DEF Leave
<1> QED
  BY <1>1, <1>2

(* A new frame, for a representative.                                      *)
LEMMA NewFrameType ==
  ASSUME IInv, NEW x \in Node
  PROVE  NewFrame(x) \in DfsFrame /\ NewFrame(x).n = x
BY NodeAssumption DEF IInv, GraphInv, GraphType, Graph, LcdInv, LcdType, NewFrame, DfsFrame

LEMMA RelinkType ==
  ASSUME NEW f \in DfsFrame, NEW d0 \in Node, NEW d \in Node
  PROVE  Relink(f, d0, d) \in DfsFrame /\ Relink(f, d0, d).n = f.n
BY DEF Relink, DfsFrame

LEMMA LowerType ==
  ASSUME NEW ids \in [Node -> Nat \cup {Unvisited}], NEW x \in Node,
         NEW id \in Nat \cup {Unvisited}
  PROVE  Lower(ids, x, id) \in [Node -> Nat \cup {Unvisited}]
BY DEF Lower

LEMMA RunLcdInv ==
  ASSUME IInv, RunLcd
  PROVE  IInv' /\ Grown(g, g')
<1>1. GraphInv' /\ Grown(g, g') /\ g' = g /\ cplx_cons' = cplx_cons
  BY GraphKept DEF IInv, RunLcd, graphVars
<1>2. WorkType' /\ lcd_starts \in SUBSET Node
  BY DEF IInv, RunLcd, WorkType, Heaps, wlVars
<1>3. VisitInv' /\ MergeInv'
  BY <1>1 DEF IInv, RunLcd, VisitInv, VisitType, MergeInv, MergeType, visitVars, mergeVars
<1>4. lcd_dfs_id' \in [Node -> Nat \cup {Unvisited}]
  BY DEF RunLcd
<1>5. LcdInv'
  BY <1>1, <1>2, <1>4 DEF IInv, RunLcd, LcdInv, LcdType, InLcdDfs
<1> QED
  BY <1>1, <1>2, <1>3, <1>5 DEF IInv, RunLcd, Pcs

LEMMA LcdStartInv ==
  ASSUME IInv, LcdStart
  PROVE  IInv' /\ Grown(g, g')
<1> DEFINE x == Min(lcd_todo)
<1>1. GraphInv' /\ Grown(g, g') /\ g' = g /\ cplx_cons' = cplx_cons
  BY GraphKept DEF IInv, LcdStart, graphVars
<1>2. x \in Node
  BY MinMember, NodeAssumption DEF IInv, LcdStart, LcdInv, LcdType
<1>3. pc' \in {"lcd", "dfs", "abort"}
  BY DEF LcdStart
<1>4. WorkType' /\ VisitInv' /\ MergeInv'
  BY <1>1, <1>3 DEF IInv, LcdStart, WorkType, Heaps, VisitInv, VisitType, MergeInv, MergeType,
              wlVars, countVars, visitVars, mergeVars
<1>5. CASE ~is_rep(g, x) \/ lcd_dfs_id[x] # Unvisited
  <2>1. UNCHANGED <<pc, frames, lcd_dfs_id, curr_lcd_dfs>>
    BY <1>5 DEF LcdStart
  <2>2. LcdInv'
    BY <1>1, <2>1 DEF IInv, LcdStart, LcdInv, LcdType, InLcdDfs
  <2> QED
    BY <1>1, <1>3, <1>4, <2>2 DEF IInv, LcdStart, Pcs
<1>6. CASE ~(~is_rep(g, x) \/ lcd_dfs_id[x] # Unvisited)
  <2>1. /\ frames' = <<NewFrame(x)>> /\ curr_lcd_dfs' = curr_lcd_dfs + 1
        /\ lcd_dfs_id' = [lcd_dfs_id EXCEPT ![x] = curr_lcd_dfs]
    BY <1>6 DEF LcdStart
  <2>2. NewFrame(x) \in DfsFrame /\ NewFrame(x).n = x /\ is_rep(g, x)
    BY <1>2, <1>6, NewFrameType
  <2> HIDE DEF x
  <2>3. /\ frames' \in Seq(DfsFrame) /\ Len(frames') = 1 /\ frames'[1] = NewFrame(x)
        /\ frames' # <<>> /\ \A i \in 1 .. (Len(frames') - 1) : frames'[i].waits
    BY <2>1, <2>2
  <2>4. LcdType'
    BY <1>2, <2>1, <2>3 DEF IInv, LcdStart, LcdInv, LcdType
  <2>5. LcdInv'
    BY <1>1, <2>2, <2>3, <2>4 DEF LcdInv, is_rep
  <2> QED
    BY <1>1, <1>3, <1>4, <2>5 DEF IInv, LcdStart, Pcs
<1> QED
  BY <1>5, <1>6

LEMMA LcdDoneInv ==
  ASSUME IInv, LcdDone
  PROVE  IInv' /\ Grown(g, g')
<1>1. GraphInv' /\ Grown(g, g') /\ g' = g /\ cplx_cons' = cplx_cons
  BY GraphKept DEF IInv, LcdDone, graphVars
<1>2. WorkType'
  BY DEF IInv, LcdDone, WorkType, Heaps, wlVars, countVars
<1>3. VisitInv' /\ MergeInv' /\ LcdInv'
  BY <1>1 DEF IInv, LcdDone, VisitInv, VisitType, MergeInv, MergeType, LcdInv, LcdType,
              InLcdDfs, visitVars, mergeVars, lcdVars
<1> QED
  BY <1>1, <1>2, <1>3 DEF IInv, LcdDone, Pcs

LEMMA DfsEdgeInv ==
  ASSUME IInv, DfsEdge
  PROVE  IInv' /\ Grown(g, g')
<1> DEFINE k == Len(frames)
           f == frames[k]
           d0 == Min(f.edges)
           d == get_node_rep(d0)
           ids == IF d \in lcd_roots THEN lcd_dfs_id ELSE Lower(lcd_dfs_id, f.n, lcd_dfs_id[d])
<1>1. GraphInv' /\ Grown(g, g') /\ g' = g /\ cplx_cons' = cplx_cons
  BY GraphKept DEF IInv, DfsEdge, graphVars
<1>2. /\ frames \in Seq(DfsFrame) /\ frames # <<>> /\ k \in Nat \ {0} /\ f \in DfsFrame
      /\ \A i \in 1 .. (Len(frames) - 1) : frames[i].waits
  BY DEF IInv, DfsEdge, LcdInv, LcdType, InLcdDfs
<1>3. f.n \in Node /\ is_rep(g, f.n) /\ f.edges \in SUBSET Node /\ f.edges # {}
  BY <1>2 DEF IInv, DfsEdge, LcdInv, DfsFrame
<1>4. d0 \in Node /\ d \in Node /\ is_rep(g, d)
  BY <1>3, MinMember, NodeAssumption, RepIsRep DEF IInv
<1>5. pc' \in {"dfs", "abort"}
  BY DEF DfsEdge
<1>6. WorkType' /\ VisitInv' /\ MergeInv'
  BY <1>1, <1>5 DEF IInv, DfsEdge, WorkType, Heaps, VisitInv, VisitType, MergeInv, MergeType,
              wlVars, countVars, visitVars, mergeVars
<1>7. \/ /\ pc' = "abort"
         /\ UNCHANGED <<frames, lcd_dfs_id, curr_lcd_dfs>>
      \/ /\ frames' = [frames EXCEPT ![k].edges = @ \ {d0}, ![k].del_copy = @ \cup {d0}]
         /\ UNCHANGED <<lcd_dfs_id, curr_lcd_dfs>>
      \/ /\ frames' = Append([frames EXCEPT ![k].waits = TRUE, ![k].dest0 = d0], NewFrame(d))
         /\ lcd_dfs_id' = [lcd_dfs_id EXCEPT ![d] = curr_lcd_dfs]
         /\ curr_lcd_dfs' = curr_lcd_dfs + 1
      \/ /\ frames' = [frames EXCEPT ![k] = Relink(f, d0, d)]
         /\ lcd_dfs_id' = ids
         /\ curr_lcd_dfs' = curr_lcd_dfs
  BY DEF DfsEdge
<1>8. lcd_dfs_id' \in [Node -> Nat \cup {Unvisited}] /\ curr_lcd_dfs' \in Nat
  <2>1. ids \in [Node -> Nat \cup {Unvisited}]
    BY <1>3, <1>4, LowerType DEF IInv, LcdInv, LcdType
  <2>2. lcd_dfs_id \in [Node -> Nat \cup {Unvisited}] /\ curr_lcd_dfs \in Nat
    BY DEF IInv, LcdInv, LcdType
  <2>3. \/ lcd_dfs_id' = lcd_dfs_id /\ curr_lcd_dfs' = curr_lcd_dfs
        \/ /\ lcd_dfs_id' = [lcd_dfs_id EXCEPT ![d] = curr_lcd_dfs]
           /\ curr_lcd_dfs' = curr_lcd_dfs + 1
        \/ lcd_dfs_id' = ids /\ curr_lcd_dfs' = curr_lcd_dfs
    BY <1>7
  <2> HIDE DEF ids, d
  <2> QED
    BY <1>4, <2>1, <2>2, <2>3
<1>9. /\ frames' \in Seq(DfsFrame) /\ frames' # <<>>
      /\ \A i \in 1 .. (Len(frames') - 1) : frames'[i].waits
      /\ pc' = "dfs" => is_rep(g, frames'[Len(frames')].n)
  <2> HIDE DEF d, d0, f
  <2>1. CASE pc' = "abort" /\ frames' = frames
    BY <1>2, <2>1
  <2>2. CASE frames' = [frames EXCEPT ![k].edges = @ \ {d0}, ![k].del_copy = @ \cup {d0}]
    <3> DEFINE h == [f EXCEPT !.edges = @ \ {d0}, !.del_copy = @ \cup {d0}]
    <3>1. h \in DfsFrame /\ h.n = f.n
      BY <1>2, <1>4 DEF DfsFrame
    <3>2. frames' = [frames EXCEPT ![k] = h]
      BY <1>2, <2>2 DEF f
    <3> HIDE DEF h
    <3> QED
      BY <1>2, <1>3, <3>1, <3>2, TopChanged
  <2>3. CASE frames' = Append([frames EXCEPT ![k].waits = TRUE, ![k].dest0 = d0], NewFrame(d))
    <3> DEFINE h == [f EXCEPT !.waits = TRUE, !.dest0 = d0]
               t == [frames EXCEPT ![k] = h]
    <3>1. h \in DfsFrame /\ h.waits
      BY <1>2, <1>4 DEF DfsFrame
    <3>2. frames' = Append(t, NewFrame(d))
      BY <1>2, <2>3 DEF f
    <3>3. NewFrame(d) \in DfsFrame /\ NewFrame(d).n = d
      BY <1>4, NewFrameType
    <3> HIDE DEF h
    <3>4. t \in Seq(DfsFrame) /\ t # <<>> /\ Len(t) = k /\ t[Len(t)] = h
          /\ \A i \in 1 .. (Len(t) - 1) : t[i].waits
      BY <1>2, <3>1, TopChanged
    <3> HIDE DEF t, k
    <3>5. frames' \in Seq(DfsFrame) /\ Len(frames') = Len(t) + 1
          /\ frames'[Len(frames')] = NewFrame(d) /\ \A i \in 1 .. Len(t) : frames'[i] = t[i]
      BY <3>2, <3>3, <3>4
    <3> QED
      BY <1>4, <3>1, <3>3, <3>4, <3>5
  <2>4. CASE frames' = [frames EXCEPT ![k] = Relink(f, d0, d)]
    <3> DEFINE h == Relink(f, d0, d)
    <3>1. h \in DfsFrame /\ h.n = f.n
      BY <1>2, <1>4, RelinkType
    <3>2. frames' = [frames EXCEPT ![k] = h]
      BY <2>4
    <3> HIDE DEF h
    <3> QED
      BY <1>2, <1>3, <3>1, <3>2, TopChanged
  <2> QED
    BY <1>7, <2>1, <2>2, <2>3, <2>4
<1>10. LcdInv'
  BY <1>1, <1>5, <1>8, <1>9 DEF IInv, DfsEdge, LcdInv, LcdType, InLcdDfs
<1> QED
  BY <1>1, <1>5, <1>6, <1>10 DEF IInv, DfsEdge, Pcs

LEMMA DfsReturnInv ==
  ASSUME IInv, DfsReturn
  PROVE  IInv' /\ Grown(g, g')
<1> DEFINE k == Len(frames)
           f == frames[k]
           d == get_node_rep(f.dest0)
           id == IF lcd_dfs_id[d] = Unvisited THEN 0 ELSE lcd_dfs_id[d]
           ids == Lower([lcd_dfs_id EXCEPT ![d] = id], f.n, id)
<1>1. GraphInv' /\ Grown(g, g') /\ g' = g /\ cplx_cons' = cplx_cons
  BY GraphKept DEF IInv, DfsReturn, graphVars
<1>2. /\ frames \in Seq(DfsFrame) /\ frames # <<>> /\ k \in Nat \ {0} /\ f \in DfsFrame
      /\ \A i \in 1 .. (Len(frames) - 1) : frames[i].waits
  BY DEF IInv, DfsReturn, LcdInv, LcdType, InLcdDfs
<1>3. f.n \in Node /\ f.dest0 \in Node /\ f.edges \in SUBSET Node
  BY <1>2 DEF DfsFrame
<1>4. d \in Node /\ g.copy_to[f.n] \in SUBSET Node
  BY <1>3, RepIsRep DEF IInv, GraphInv, GraphType, Graph
<1>5. pc' \in {"dfs", "abort"} /\ (pc' = "dfs" => is_rep(g, f.n))
  BY DEF DfsReturn
<1>6. WorkType' /\ VisitInv' /\ MergeInv'
  BY <1>1, <1>5 DEF IInv, DfsReturn, WorkType, Heaps, VisitInv, VisitType, MergeInv, MergeType,
              wlVars, countVars, visitVars, mergeVars
<1>7. lcd_dfs_id' \in [Node -> Nat \cup {Unvisited}]
  <2>1. lcd_dfs_id' = ids /\ lcd_dfs_id \in [Node -> Nat \cup {Unvisited}]
    BY DEF IInv, DfsReturn, LcdInv, LcdType
  <2>2. id \in Nat \cup {Unvisited}
    BY <1>4, <2>1
  <2> HIDE DEF id, d
  <2>3. [lcd_dfs_id EXCEPT ![d] = id] \in [Node -> Nat \cup {Unvisited}]
    BY <1>4, <2>1, <2>2
  <2> QED
    BY <1>3, <2>1, <2>2, <2>3, LowerType
<1>8. /\ frames' \in Seq(DfsFrame) /\ frames' # <<>>
      /\ \A i \in 1 .. (Len(frames') - 1) : frames'[i].waits
      /\ frames'[Len(frames')].n = f.n
  <2>1. PICK late \in SUBSET {x \in g.copy_to[f.n] \ f.edges : x > f.dest0} :
          frames' = [frames EXCEPT ![k] = [Relink(f, f.dest0, d) EXCEPT !.edges = @ \cup late]]
    BY DEF DfsReturn
  <2> DEFINE h == [Relink(f, f.dest0, d) EXCEPT !.edges = @ \cup late]
  <2>2. Relink(f, f.dest0, d) \in DfsFrame /\ Relink(f, f.dest0, d).n = f.n
    BY <1>2, <1>3, <1>4, RelinkType
  <2>3. late \in SUBSET Node
    BY <1>4
  <2>4. h \in DfsFrame /\ h.n = f.n
    BY <2>2, <2>3 DEF DfsFrame
  <2>5. frames' = [frames EXCEPT ![k] = h]
    BY <2>1
  <2> HIDE DEF h, f
  <2> QED
    BY <1>2, <2>4, <2>5, TopChanged
<1>9. LcdInv'
  <2> HIDE DEF f
  <2>1. curr_lcd_dfs' \in Nat /\ lcd_todo' \in SUBSET Node /\ lcd_roots' \in SUBSET Node
        /\ lcd_stk' \in Seq(Node)
    BY DEF IInv, DfsReturn, LcdInv, LcdType
  <2> QED
    BY <1>1, <1>5, <1>7, <1>8, <2>1 DEF LcdInv, LcdType
<1> QED
  BY <1>1, <1>5, <1>6, <1>9 DEF IInv, DfsReturn, Pcs

LEMMA DfsDoneInv ==
  ASSUME IInv, DfsDone
  PROVE  IInv' /\ Grown(g, g')
<1> DEFINE f == Last(frames)
           E == (g.copy_to[f.n] \ f.del_copy) \cup f.add_copy
<1>1. /\ frames \in Seq(DfsFrame) /\ frames # <<>> /\ f = frames[Len(frames)] /\ f \in DfsFrame
      /\ ~f.waits
  BY FrontLast DEF IInv, DfsDone, LcdInv, LcdType, InLcdDfs
<1>2. f.n \in Node /\ is_rep(g, f.n) /\ f.add_copy \in SUBSET Node
  BY <1>1 DEF IInv, DfsDone, LcdInv, DfsFrame
<1>3. g \in Graph /\ Canonical(g)
  BY CanonicalGraph DEF IInv
<1>4. E \in SUBSET Node
  BY <1>2, <1>3 DEF Graph
<1>5. g' = [g EXCEPT !.copy_to[f.n] = E]
  BY DEF DfsDone
<1>6. Extends(g, g')
  <2> HIDE DEF E, f
  <2>1. /\ g' \in Graph /\ g'.copy_to = [g.copy_to EXCEPT ![f.n] = E]
        /\ g'.points_to = g.points_to /\ g'.prev_points_to = g.prev_points_to
        /\ g'.rep = g.rep /\ g'.cons = g.cons /\ g'.hcd_var = g.hcd_var
        /\ g'.ind_calls = g.ind_calls
    BY <1>2, <1>3, <1>4, <1>5 DEF Graph
  <2>2. Canonical(g')
    BY <1>2, <1>3, <2>1 DEF Canonical, is_rep, Graph
  <2> QED
    BY <2>1, <2>2 DEF Extends, Grown, SameLists
<1>7. GraphInv' /\ Grown(g, g') /\ g'.rep = g.rep /\ cplx_cons' = cplx_cons
  BY <1>6, GraphExtended DEF IInv, DfsDone, GraphInv, GraphType
<1>8. pc' \in {"collapse", "lcd", "dfs"}
  BY DEF DfsDone, Leave
<1>9. WorkType' /\ VisitInv' /\ MergeInv'
  BY <1>7, <1>8 DEF IInv, DfsDone, WorkType, Heaps, VisitInv, VisitType, MergeInv, MergeType,
              wlVars, countVars, visitVars, mergeVars
<1>10. LcdInv'
  <2>1. CASE lcd_dfs_id[f.n] = f.our_dfs
    <3>1. pc' = "collapse" /\ UNCHANGED <<frames, lcd_stk>>
      BY <2>1 DEF DfsDone
    <3> QED
      BY <1>1, <3>1 DEF IInv, DfsDone, LcdInv, LcdType, InLcdDfs
  <2>2. CASE lcd_dfs_id[f.n] # f.our_dfs
    <3>1. lcd_stk' = Append(lcd_stk, f.n) /\ Leave
      BY <2>2 DEF DfsDone
    <3> HIDE DEF f
    <3>2. lcd_stk' \in Seq(Node)
      BY <1>2, <3>1 DEF IInv, LcdInv, LcdType
    <3>3. /\ frames' \in Seq(DfsFrame) /\ pc' \in {"lcd", "dfs"}
          /\ \A i \in 1 .. (Len(frames') - 1) : frames'[i].waits
          /\ pc' = "dfs" => frames' # <<>> /\ frames'[Len(frames')].waits
      BY <1>1, <3>1, LeaveFrame DEF IInv, LcdInv
    <3> QED
      BY <3>2, <3>3 DEF IInv, DfsDone, LcdInv, LcdType, InLcdDfs
  <2> QED
    BY <2>1, <2>2
<1> QED
  BY <1>7, <1>8, <1>9, <1>10 DEF IInv, DfsDone, Pcs

LEMMA CollapseNodeInv ==
  ASSUME IInv, CollapseNode
  PROVE  IInv' /\ Grown(g, g')
<1> DEFINE x == get_node_rep(Last(lcd_stk))
           f == Last(frames)
<1>1. GraphInv' /\ Grown(g, g') /\ g' = g /\ cplx_cons' = cplx_cons
  BY GraphKept DEF IInv, CollapseNode, graphVars
<1>2. /\ frames \in Seq(DfsFrame) /\ frames # <<>> /\ f = frames[Len(frames)] /\ f \in DfsFrame
      /\ \A i \in 1 .. (Len(frames) - 1) : frames[i].waits
  BY FrontLast DEF IInv, CollapseNode, LcdInv, LcdType, InLcdDfs
<1>3. /\ Front(lcd_stk) \in Seq(Node) /\ x \in Node /\ f.n \in Node
  <2>1. lcd_stk \in Seq(Node) /\ lcd_stk # <<>>
    BY DEF IInv, CollapseNode, LcdInv, LcdType, InScc
  <2>2. Front(lcd_stk) \in Seq(Node) /\ Last(lcd_stk) \in Node
    BY <2>1, FrontLast
  <2> QED
    BY <1>2, <2>2, RepIsRep DEF IInv, DfsFrame
<1>4. \/ pc' = "collapse" /\ UNCHANGED mergeVars
      \/ pc' = "merge" /\ marg' = <<f.n, x>> /\ mframes' = <<>> /\ mret' = "collapse"
  BY DEF CollapseNode
<1>5. WorkType' /\ VisitInv'
  BY <1>1, <1>4 DEF IInv, CollapseNode, WorkType, Heaps, VisitInv, VisitType, wlVars, countVars,
                    visitVars
<1>6. MergeInv'
  <2> HIDE DEF x, f
  <2>1. CASE pc' = "collapse" /\ UNCHANGED mergeVars
    BY <2>1 DEF IInv, MergeInv, MergeType, mergeVars
  <2>2. CASE pc' = "merge" /\ marg' = <<f.n, x>> /\ mframes' = <<>> /\ mret' = "collapse"
    BY <1>3, <2>2 DEF IInv, MergeInv, MergeType
  <2> QED
    BY <1>4, <2>1, <2>2
<1>7. LcdInv'
  <2> DEFINE h == [f EXCEPT !.chg = TRUE]
  <2>1. h \in DfsFrame
    BY <1>2 DEF DfsFrame
  <2>2. frames' = [frames EXCEPT ![Len(frames)] = h]
    BY <1>2 DEF CollapseNode
  <2> HIDE DEF h, f
  <2>3. /\ frames' \in Seq(DfsFrame) /\ frames' # <<>>
        /\ \A i \in 1 .. (Len(frames') - 1) : frames'[i].waits
    BY <1>2, <2>1, <2>2, TopChanged
  <2> QED
    BY <1>3, <1>4, <2>3 DEF IInv, CollapseNode, LcdInv, LcdType
<1> QED
  BY <1>1, <1>4, <1>5, <1>6, <1>7 DEF IInv, CollapseNode, Pcs

LEMMA CollapsedInv ==
  ASSUME IInv, Collapsed
  PROVE  IInv' /\ Grown(g, g')
<1> DEFINE f == Last(frames)
<1>1. GraphInv' /\ Grown(g, g') /\ g' = g /\ cplx_cons' = cplx_cons
  BY GraphKept DEF IInv, Collapsed, graphVars
<1>2. /\ frames # <<>> /\ f \in DfsFrame
      /\ \A i \in 1 .. (Len(frames) - 1) : frames[i].waits
  BY FrontLast DEF IInv, Collapsed, LcdInv, LcdType, InLcdDfs
<1>3. f.n \in Node /\ f.chg \in BOOLEAN
  BY <1>2 DEF DfsFrame
<1>4. /\ frames' \in Seq(DfsFrame) /\ pc' \in {"lcd", "dfs"}
      /\ \A i \in 1 .. (Len(frames') - 1) : frames'[i].waits
      /\ pc' = "dfs" => frames' # <<>> /\ frames'[Len(frames')].waits
  BY <1>2, LeaveFrame DEF IInv, Collapsed, LcdInv
<1>5. next' \in Heaps
  <2>1. next' = PushIf(f.chg, next, f.n, g)
    BY DEF Collapsed
  <2> HIDE DEF f
  <2> QED
    BY <1>3, <2>1, PushType DEF IInv, WorkType, GraphInv, GraphType
<1>6. WorkType'
  BY <1>5 DEF IInv, Collapsed, WorkType, countVars
<1>7. VisitInv' /\ MergeInv'
  BY <1>1, <1>4 DEF IInv, Collapsed, VisitInv, VisitType, MergeInv, MergeType, visitVars,
                    mergeVars
<1>8. LcdInv'
  BY <1>3, <1>4 DEF IInv, Collapsed, LcdInv, LcdType, InLcdDfs
<1> QED
  BY <1>1, <1>4, <1>6, <1>7, <1>8 DEF IInv, Collapsed, Pcs

LEMMA FinishInv ==
  ASSUME IInv, Finish
  PROVE  IInv' /\ Grown(g, g')
<1>1. g' = g /\ cplx_cons' = cplx_cons /\ icall_cons' = icall_cons /\ sys' = sys
      /\ ext_seen' = {}
  BY DEF Finish
<1>2. GraphInv' /\ Grown(g, g')
  BY <1>1 DEF IInv, GraphInv, GraphType, NonRepEmpty, ListsCurrent, is_rep, Grown
<1>3. pc' \in {"done", "abort"}
  BY DEF Finish
<1>4. WorkType'
  BY DEF IInv, Finish, WorkType, Heaps, countVars
<1>5. VisitInv' /\ MergeInv'
  BY <1>1, <1>3 DEF IInv, Finish, VisitInv, VisitType, MergeInv, MergeType, visitVars, mergeVars
<1>6. LcdInv'
  BY <1>1, <1>3 DEF IInv, Finish, LcdInv, LcdType, InLcdDfs
<1> QED
  BY <1>2, <1>3, <1>4, <1>5, <1>6 DEF IInv, Finish, Pcs

-----------------------------------------------------------------------------
(* The theorems *)

LEMMA InitGraphType ==
  ASSUME NEW s \in System
  PROVE  InitGraph(s) \in Graph
<1>1. s.cons \in Seq(Constraint) /\ s.icall \in SUBSET (Constraint \X Site)
      /\ s.rank \in [Node -> Nat] /\ s.hcd_var \in [Node -> Node] /\ s.nonptr \in SUBSET Node
  BY DEF System
<1>2. \A t : \A C \in OfType(s, t) : C.src \in Node /\ C.dest \in Node
  <2>1. \A i \in DOMAIN s.cons : s.cons[i] \in Constraint
    BY <1>1
  <2>2. \A C \in Constraint : C.src \in Node /\ C.dest \in Node
    BY DEF Constraint
  <2> QED
    BY <2>1, <2>2 DEF OfType, Range
<1>3. \A x \in Node :
        /\ {C.src : C \in {c \in OfType(s, "addr_of") : c.dest = x}} \in SUBSET Node
        /\ {C.dest : C \in {c \in OfType(s, "copy") : c.src = x}} \in SUBSET Node
        /\ {cid \in Complex(s) : Base(s.cons[cid]) = x} \in SUBSET Nat
  BY <1>1, <1>2 DEF Complex
<1>4. \A cs \in s.icall : Base(cs[1]) \in Node
  BY <1>1 DEF Base, Constraint
<1> QED
  BY <1>1, <1>3, <1>4, NodeAssumption DEF InitGraph, Graph

LEMMA InitInv == Init => IInv
<1> SUFFICES ASSUME Init
             PROVE  IInv
  OBVIOUS
<1>1. sys \in System /\ g = InitGraph(sys) /\ g \in Graph
  BY InitGraphType, InputsAssumption DEF Init
<1>2. g.rep = [x \in Node |-> x]
  BY <1>1 DEF InitGraph
<1>3. \A x \in Node : g.cons[x] = {cid \in Complex(sys) : Base(sys.cons[cid]) = x}
  BY <1>1 DEF InitGraph
<1>4. GraphType
  BY <1>1 DEF Init, GraphType, System
<1>5. NonRepEmpty /\ g.rep[0] = 0
  BY <1>2, NodeAssumption DEF NonRepEmpty, is_rep
<1>6. ListsCurrent /\ \A x \in Node : g.cons[x] \subseteq DOMAIN cplx_cons
  <2>1. cplx_cons = sys.cons
    BY DEF Init
  <2> QED
    BY <1>2, <1>3, <2>1 DEF ListsCurrent, Complex
<1>7. GraphInv
  BY <1>4, <1>5, <1>6 DEF GraphInv
<1>8. WorkType
  BY DEF Init, WorkType, Heaps
<1>9. VisitInv
  <2>1. NoLs \in LsCall
    BY NodeAssumption DEF NoLs, NoCons, LsCall, Constraint, ConsType
  <2> QED
    BY <2>1, NodeAssumption DEF Init, VisitInv, VisitType
<1>10. MergeInv
  BY NodeAssumption DEF Init, MergeInv, MergeType
<1>11. LcdInv
  BY DEF Init, LcdInv, LcdType, InLcdDfs
<1> QED
  BY <1>7, <1>8, <1>9, <1>10, <1>11 DEF Init, IInv, Pcs

(* The program takes one of these steps, or none.                          *)
LEMMA StepInv ==
  ASSUME IInv, [Next]_vars
  PROVE  IInv' /\ Grown(g, g')
<1>1. CASE UNCHANGED vars
  <2>1. UNCHANGED <<sys, graphVars, wlVars, countVars, lcd_edges, lcd_starts, pc, gave_up,
                    visitVars, mergeVars, lcdVars>>
    BY <1>1 DEF vars
  <2>2. GraphInv' /\ Grown(g, g') /\ g' = g /\ cplx_cons' = cplx_cons
    BY <2>1, GraphKept DEF IInv, graphVars
  <2>3. WorkType' /\ MergeInv' /\ LcdInv'
    BY <2>1, <2>2 DEF IInv, WorkType, Heaps, MergeInv, MergeType, LcdInv, LcdType, InLcdDfs,
                      wlVars, countVars, mergeVars, lcdVars
  <2>4. VisitInv'
    BY <2>1, <2>2 DEF IInv, VisitInv, VisitType, visitVars
  <2> QED
    BY <2>1, <2>2, <2>3, <2>4 DEF IInv
<1>2. CASE Loop
  BY <1>2, SwapIfEmptyInv, ConvergeInv, PopStaleInv, VisitInvariant DEF Loop
<1>3. CASE SolveNode
  BY <1>3, HcdMemberInv, HcdDoneInv, NextPhaseInv, LsConsInv, LoadMemberInv, StoreMemberInv,
     HandleExtInv, LsDoneInv, GepConsInv, PropInv DEF SolveNode
<1>4. CASE Merge
  BY <1>4, MergeNodesInv, MergeReturnInv, ReturnToHcdInv, ReturnToCollapseInv DEF Merge
<1>5. CASE GiveUp \/ KeepGoing \/ Finish
  BY <1>5, GiveUpInv, KeepGoingInv, FinishInv
<1>6. CASE Lcd
  BY <1>6, RunLcdInv, LcdStartInv, LcdDoneInv, DfsEdgeInv, DfsReturnInv, DfsDoneInv,
     CollapseNodeInv, CollapsedInv DEF Lcd
<1> QED
  BY <1>1, <1>2, <1>3, <1>4, <1>5, <1>6 DEF Next

THEOREM Inductive == Spec => []IInv
<1>1. IInv /\ [Next]_vars => IInv'
  BY StepInv
<1> QED
  BY InitInv, <1>1, PTL DEF Spec

(* The state of the solver is always typed.                                *)
THEOREM TypeCorrect == Spec => []TypeOK
<1>1. IInv => TypeOK
  BY DEF IInv, GraphInv, VisitInv, MergeInv, LcdInv, TypeOK
<1> QED
  BY Inductive, <1>1, PTL

(* A node that was merged away never owns anything again.                  *)
THEOREM RepsOwnAll == Spec => []NonRepEmpty
<1>1. IInv => NonRepEmpty
  BY DEF IInv, GraphInv
<1> QED
  BY Inductive, <1>1, PTL

(* A constraint is always in the list of the representative of its pointer,*)
(* so the asserts on it at the start of solve_ls_cons and solve_gep_cons   *)
(* never fail.                                                             *)
THEOREM ListsFollowMerges == Spec => []ListsCurrent
<1>1. IInv => ListsCurrent
  BY DEF IInv, GraphInv
<1> QED
  BY Inductive, <1>1, PTL

(* No step takes a pointee away or separates merged nodes.                 *)
THEOREM Monotone == Spec => OnlyGrows
<1> DEFINE A == /\ \A x \in Node : Result[x] \subseteq Result'[x]
                /\ \A x, y \in Node : g.rep[x] = g.rep[y] => g'.rep[x] = g'.rep[y]
<1>1. IInv /\ [Next]_vars => A
  BY StepInv DEF Grown, Result
<1> HIDE DEF A
<1>2. IInv /\ [Next]_vars => [A]_vars
  BY <1>1
<1>3. Spec => [][A]_vars
  BY Inductive, <1>2, PTL DEF Spec
<1> QED
  BY <1>3 DEF OnlyGrows, A

-----------------------------------------------------------------------------
(* Indirect calls: the constraints they are attached to.                   *)

LEMMA SameStays ==
  ASSUME IInv, NEW C \in Constraint, NEW D \in Constraint, SameCons(C, D), Grown(g, g')
  PROVE  SameCons(C, D)'
BY DEF SameCons, Grown, Constraint

LEMMA ConsSameStays ==
  ASSUME IInv, IInv', ConsInv, Grown(g, g'), UNCHANGED <<sys, cplx_cons, icall_cons>>
  PROVE  WellFormed(sys)' /\ ConsSame'
<1>1. \A cid \in DOMAIN cplx_cons : cplx_cons[cid] \in Constraint /\ sys.cons[cid] \in Constraint
  BY DEF IInv, GraphInv, GraphType, System, ConsInv, ConsSame
<1>2. \A e \in icall_cons : e[1] \in Constraint
  BY DEF IInv, GraphInv, GraphType
<1>3. \A call \in sys.icall : call[1] \in Constraint
  BY DEF IInv, GraphInv, GraphType, System
<1>4. WellFormed(sys)'
  BY DEF ConsInv, WellFormed
<1>5. ConsSame'
  BY <1>1, <1>2, <1>3, SameStays DEF ConsInv, ConsSame
<1> QED
  BY <1>4, <1>5

LEMMA CallsStay ==
  ASSUME IInv, ConsInv, UNCHANGED <<sys, cplx_cons, icall_cons>>,
         g'.cons = g.cons, g'.rep = g.rep, g'.ind_calls = g.ind_calls,
         pc # "abort",
         \/ ~Sweeping /\ pc' \notin {"cons", "member"}
         \/ pc' = pc /\ UNCHANGED <<n, phase, todo, cons_seen, lsc>>
  PROVE  ConsInv'
<1>1. WellFormed(sys)' /\ ConsSame'
  BY DEF ConsInv, ConsSame, SameCons, WellFormed
<1>2. CASE ~Sweeping /\ pc' \notin {"cons", "member"}
  <2>1. ~Sweeping' /\ \A cid : ~Doomed(cid) /\ ~Doomed(cid)'
    BY <1>2 DEF Sweeping, Doomed
  <2>2. SweepInv'
    BY <1>2, <2>1 DEF SweepInv
  <2>3. CallsInv'
    BY <1>2, <2>1 DEF ConsInv, CallsInv, HasSites, Keeps, SitesOf, SameCons
  <2> QED
    BY <1>1, <2>2, <2>3 DEF ConsInv
<1>3. CASE pc' = pc /\ UNCHANGED <<n, phase, todo, cons_seen, lsc>>
  <2>1. Sweeping' = Sweeping /\ \A cid : Doomed(cid)' = Doomed(cid)
    BY <1>3 DEF Sweeping, Doomed
  <2>2. SweepInv'
    <3>1. \A C : Updated(C)' = Updated(C)
      BY DEF Updated, get_node_rep
    <3>2. ListOf(n, phase)' = ListOf(n, phase)
      BY <1>3 DEF ListOf
    <3> QED
      BY <1>3, <2>1, <3>1, <3>2 DEF ConsInv, SweepInv
  <2>3. CallsInv'
    BY <1>3, <2>1 DEF ConsInv, CallsInv, HasSites, Keeps, SitesOf, SameCons, Updated, get_node_rep
  <2> QED
    BY <1>1, <2>2, <2>3 DEF ConsInv
<1> QED
  BY <1>2, <1>3

LEMMA OtherCalls ==
  ASSUME IInv, ConsInv,
         \/ SwapIfEmpty \/ Converge \/ \E e \in curr : PopStale(e) \/ Visit(e)
         \/ \E m \in members : HcdMember(m) \/ LoadMember(m) \/ StoreMember(m) \/ HandleExt(m)
         \/ Prop \/ MergeReturn \/ ReturnToHcd \/ ReturnToCollapse
         \/ GiveUp \/ KeepGoing \/ Lcd \/ Finish
  PROVE  ConsInv'
<1> USE DEF graphVars, visitVars
<1>1. CASE SwapIfEmpty \/ Converge \/ (\E e \in curr : PopStale(e)) \/ GiveUp \/ KeepGoing
            \/ MergeReturn \/ ReturnToHcd \/ ReturnToCollapse \/ Finish
  BY <1>1, CallsStay DEF SwapIfEmpty, Converge, PopStale, GiveUp, KeepGoing, MergeReturn,
       ReturnToHcd, ReturnToCollapse, Finish, Sweeping
<1>2. CASE \E e \in curr : Visit(e)
  <2>1. PICK e \in curr : Visit(e)
    BY <1>2, Zenon
  <2>2. UNCHANGED <<sys, cplx_cons, icall_cons>> /\ pc = "loop" /\ pc' \in {"check", "hcd"}
    BY <2>1 DEF Visit
  <2>3. g'.cons = g.cons /\ g'.rep = g.rep /\ g'.ind_calls = g.ind_calls
    BY <2>1 DEF Visit, IInv, GraphInv, GraphType, Graph
  <2> QED
    BY <2>2, <2>3, CallsStay DEF Sweeping
<1>3. CASE \E m \in members : HcdMember(m)
  BY <1>3, CallsStay DEF HcdMember, Sweeping
<1>4. CASE \E m \in members : LoadMember(m) \/ StoreMember(m) \/ HandleExt(m)
  <2>1. /\ UNCHANGED <<sys, cplx_cons, icall_cons, n, phase, todo, cons_seen, lsc>>
        /\ pc = "member" /\ pc' = pc
    BY <1>4 DEF LoadMember, StoreMember, HandleExt
  <2>2. \A s, d : LET h == add_copy_edge(g, s, d)
                  IN h.cons = g.cons /\ h.rep = g.rep /\ h.ind_calls = g.ind_calls
    BY DEF add_copy_edge, IInv, GraphInv, GraphType, Graph
  <2>3. \A d, S : LET h == AddPointees(g, d, S)
                  IN h.cons = g.cons /\ h.rep = g.rep /\ h.ind_calls = g.ind_calls
    BY DEF AddPointees, IInv, GraphInv, GraphType, Graph
  <2>4. g'.cons = g.cons /\ g'.rep = g.rep /\ g'.ind_calls = g.ind_calls
    <3>1. CASE \E m \in members : LoadMember(m) \/ StoreMember(m)
      BY <3>1, <2>2 DEF LoadMember, StoreMember
    <3>2. CASE \E m \in members : HandleExt(m)
      <4>1. PICK m \in members : HandleExt(m)
        BY <3>2
      <4>2. ExtEffect[m].kind \in {"none", "point", "copy"}
        BY <4>1, CallAssumption DEF HandleExt, IInv, VisitInv, Effect
      <4> QED
        BY <4>1, <4>2, <2>2, <2>3 DEF HandleExt
    <3> QED
      BY <1>4, <3>1, <3>2
  <2> QED
    BY <2>1, <2>4, CallsStay
<1>5. CASE Prop
  <2>1. UNCHANGED <<sys, cplx_cons, icall_cons>> /\ pc = "prop" /\ pc' \in {"abort", "check"}
    BY <1>5 DEF Prop
  <2>2. g'.cons = g.cons /\ g'.rep = g.rep /\ g'.ind_calls = g.ind_calls
    BY <1>5 DEF Prop, IInv, GraphInv, GraphType, Graph
  <2> QED
    BY <2>1, <2>2, CallsStay DEF Sweeping
<1>6. CASE RunLcd \/ LcdStart \/ LcdDone \/ DfsReturn \/ CollapseNode \/ Collapsed
  <2>1. UNCHANGED <<sys, g, cplx_cons, icall_cons>>
        /\ pc \notin {"cons", "member", "abort"} /\ pc' \notin {"cons", "member"}
    BY <1>6 DEF RunLcd, LcdStart, LcdDone, DfsReturn, CollapseNode, Collapsed, Leave
  <2> QED
    BY <2>1, CallsStay DEF Sweeping
<1>7. CASE DfsEdge
  <2>1. UNCHANGED <<sys, g, cplx_cons, icall_cons>> /\ pc = "dfs"
    BY <1>7 DEF DfsEdge
  <2>2. pc' \in {"dfs", "abort"}
    BY <1>7 DEF DfsEdge
  <2> QED
    BY <2>1, <2>2, CallsStay DEF Sweeping
<1>8. CASE DfsDone
  <2>1. UNCHANGED <<sys, cplx_cons, icall_cons>> /\ pc = "dfs" /\ pc' \notin {"cons", "member"}
    BY <1>8 DEF DfsDone, Leave
  <2>2. g'.cons = g.cons /\ g'.rep = g.rep /\ g'.ind_calls = g.ind_calls
    BY <1>8 DEF DfsDone, IInv, GraphInv, GraphType, Graph
  <2> QED
    BY <2>1, <2>2, CallsStay DEF Sweeping
<1> QED
  BY <1>1, <1>2, <1>3, <1>4, <1>5, <1>6, <1>7, <1>8 DEF Lcd

LEMMA HcdDoneCalls ==
  ASSUME IInv, ConsInv, HcdDone
  PROVE  ConsInv'
<1>1. UNCHANGED <<sys, g, cplx_cons, icall_cons, n, lsc>> /\ pc = "hcd" /\ pc' \in {"cons", "abort"}
      /\ phase' = "load" /\ todo' = ListOf(n, "load") /\ cons_seen' = {}
  BY DEF HcdDone, graphVars
<1>2. WellFormed(sys)' /\ ConsSame'
  BY <1>1 DEF ConsInv, ConsSame, SameCons, WellFormed
<1>3. \A cid : ~Doomed(cid) /\ ~Doomed(cid)'
  BY <1>1 DEF Doomed
<1>4. CallsInv'
  BY <1>1, <1>3 DEF ConsInv, CallsInv, HasSites, Keeps, SitesOf, SameCons, Sweeping
<1>5. SweepInv'
  BY <1>1, <1>3 DEF SweepInv, ListOf, Sweeping
<1> QED
  BY <1>2, <1>4, <1>5 DEF ConsInv

LEMMA NextPhaseCalls ==
  ASSUME IInv, ConsInv, NextPhase
  PROVE  ConsInv'
<1>1. UNCHANGED <<sys, g, cplx_cons, icall_cons, n, lsc>> /\ pc = "cons" /\ pc' \in {"cons", "prop"}
      /\ todo = {} /\ todo' = ListOf(n, phase') /\ cons_seen' = {}
  BY DEF NextPhase, graphVars
<1>2. WellFormed(sys)' /\ ConsSame'
  BY <1>1 DEF ConsInv, ConsSame, SameCons, WellFormed
<1>3. \A cid : ~Doomed(cid) /\ ~Doomed(cid)'
  BY <1>1 DEF Doomed
<1>4. CallsInv'
  BY <1>1, <1>3 DEF ConsInv, CallsInv, HasSites, Keeps, SitesOf, SameCons, Sweeping
<1>5. SweepInv'
  BY <1>1, <1>3 DEF SweepInv, ListOf, Sweeping
<1> QED
  BY <1>2, <1>4, <1>5 DEF ConsInv

LEMMA LsDoneCalls ==
  ASSUME IInv, ConsInv, LsDone
  PROVE  ConsInv'
<1>1. /\ UNCHANGED <<sys, cplx_cons, icall_cons, n, phase, todo, cons_seen, lsc>>
      /\ pc = "member" /\ pc' = "cons" /\ n \in Node
  BY DEF LsDone, visitVars, IInv, VisitInv, VisitType
<1>2. /\ g'.rep = g.rep /\ g'.ind_calls = g.ind_calls
      /\ \A x \in Node : g'.cons[x] = IF lsc.del /\ x = n THEN g.cons[x] \ {lsc.cid} ELSE g.cons[x]
  BY <1>1 DEF LsDone, IInv, GraphInv, GraphType, Graph
<1>3. WellFormed(sys)' /\ ConsSame'
  BY <1>1, <1>2 DEF ConsInv, ConsSame, SameCons, WellFormed
<1>4. \A cid : ~Doomed(cid)' /\ (Doomed(cid) <=> lsc.del /\ cid = lsc.cid)
  BY <1>1 DEF Doomed
<1>5. \A C : Updated(C)' = Updated(C)
  BY <1>2 DEF Updated, get_node_rep
<1>6. lsc.cid \in g.cons[n] /\ Sweeping /\ Sweeping'
  BY <1>1 DEF ConsInv, SweepInv, Sweeping
<1>7. SweepInv'
  <2>1. ASSUME NEW cid \in todo
        PROVE  cid \in g'.cons[n] /\ cplx_cons[cid].type = phase
    BY <1>1, <1>2, <1>6 DEF ConsInv, SweepInv
  <2>2. \A cid \in ListOf(n, phase)' \ todo : cplx_cons[cid] = Updated(cplx_cons[cid])
    BY <1>1, <1>2, <1>6 DEF ConsInv, SweepInv, ListOf
  <2>3. ASSUME NEW C \in cons_seen, phase # "gep", C.off # 0
        PROVE  \E cid \in ListOf(n, phase)' \ todo : cplx_cons[cid] = C
    <3>1. PICK cid \in ListOf(n, phase) \ todo : cplx_cons[cid] = C /\ ~Doomed(cid)
      BY <1>1, <1>6, <2>3 DEF ConsInv, SweepInv
    <3>2. cid \in ListOf(n, phase)'
      BY <1>1, <1>2, <1>4, <3>1 DEF ListOf
    <3> QED
      BY <3>1, <3>2
  <2> QED
    BY <1>1, <1>4, <1>5, <2>1, <2>2, <2>3 DEF SweepInv
<1>8. CallsInv'
  <2>1. ASSUME NEW x \in Node, NEW cid \in g'.cons[x], IsCall(sys, sys.cons[cid])
        PROVE  x \in g.ind_calls /\ HasSites(cid)'
    <3>1. cid \in g.cons[x] /\ x \in g.ind_calls /\ HasSites(cid)
      BY <1>1, <1>2, <2>1 DEF ConsInv, CallsInv
    <3>2. ~Doomed(cid)
      <4>1. SUFFICES ASSUME lsc.del, cid = lsc.cid PROVE FALSE
        BY <1>4
      <4>2. x = n
        BY <1>1, <1>6, <3>1, <4>1 DEF IInv, GraphInv, ListsCurrent
      <4> QED
        BY <1>2, <2>1, <4>1, <4>2
    <3> QED
      BY <1>1, <1>5, <1>6, <3>1, <3>2 DEF HasSites, SitesOf
  <2>2. ASSUME NEW call \in sys.icall
        PROVE  /\ g.rep[Base(call[1])] \in g.ind_calls
               /\ \E cid \in g'.cons[g.rep[Base(call[1])]] : Keeps(cid, call)'
    <3> DEFINE x == g.rep[Base(call[1])]
    <3>1. x \in Node
      BY DEF IInv, GraphInv, GraphType, Graph, System, Base, Constraint
    <3>2. PICK cid \in g.cons[x] : Keeps(cid, call)
      BY <1>1 DEF ConsInv, CallsInv
    <3>3. cid \in g'.cons[x]
      <4>1. ~(lsc.del /\ cid = lsc.cid)
        BY <1>4, <3>2 DEF Keeps
      <4> QED
        BY <1>2, <3>1, <4>1
    <3>4. Keeps(cid, call)'
      BY <1>1, <1>2, <1>4, <3>2 DEF Keeps, SameCons
    <3>5. x \in g.ind_calls
      BY <1>1 DEF ConsInv, CallsInv
    <3> QED
      BY <3>3, <3>4, <3>5
  <2> QED
    BY <1>1, <1>2, <2>1, <2>2 DEF CallsInv
<1> QED
  BY <1>3, <1>7, <1>8 DEF ConsInv

LEMMA RewrittenCons ==
  ASSUME IInv, ConsInv, NEW cid \in DOMAIN cplx_cons,
         sys' = sys, g'.rep = g.rep,
         cplx_cons' = [cplx_cons EXCEPT ![cid] = Updated(cplx_cons[cid])],
         \A e \in icall_cons' :
           \/ e \in icall_cons
           \/ \E f \in icall_cons : /\ f[1] = cplx_cons[cid] /\ f[2] = e[2]
                                   /\ e[1] = Updated(cplx_cons[cid])
  PROVE  /\ WellFormed(sys)' /\ ConsSame'
         /\ \A C : Updated(C)' = Updated(C)
         /\ \A D \in Constraint : SameCons(cplx_cons[cid], D) => SameCons(Updated(cplx_cons[cid]), D)
         /\ \A id \in DOMAIN cplx_cons :
              /\ cplx_cons'[id] = IF id = cid THEN Updated(cplx_cons[cid]) ELSE cplx_cons[id]
              /\ cplx_cons'[id].type = cplx_cons[id].type
         /\ Updated(Updated(cplx_cons[cid])) = Updated(cplx_cons[cid])
<1> DEFINE C0 == cplx_cons[cid]
           C == Updated(C0)
<1>1. /\ C0 \in Constraint /\ C \in Constraint /\ is_rep(g, C.dest) /\ is_rep(g, C.src)
      /\ C.type = C0.type /\ C.off = C0.off
  BY UpdatedCons DEF IInv
<1>2. C.dest = g.rep[C0.dest] /\ C.src = g.rep[C0.src]
  BY <1>1 DEF Updated, get_node_rep, Constraint
<1>3. \A D : SameCons(C0, D) => SameCons(C, D)
  BY <1>1, <1>2 DEF SameCons, is_rep
<1>4. \A D : Updated(D)' = Updated(D)
  BY DEF Updated, get_node_rep
<1>5. Updated(C) = C
  BY <1>1 DEF Updated, get_node_rep, is_rep, Constraint
<1>6. \A D, E : SameCons(D, E)' = SameCons(D, E)
  BY DEF SameCons
<1> HIDE DEF C
<1>7. \A id \in DOMAIN cplx_cons :
              /\ cplx_cons'[id] = IF id = cid THEN C ELSE cplx_cons[id]
              /\ cplx_cons'[id].type = cplx_cons[id].type
  BY <1>1 DEF C
<1>8. DOMAIN cplx_cons' = DOMAIN cplx_cons
  OBVIOUS
<1>9. ConsSame'
  <2>1. ASSUME NEW id \in DOMAIN cplx_cons
        PROVE  SameCons(cplx_cons'[id], sys.cons[id])
    BY <1>3, <1>7 DEF ConsInv, ConsSame
  <2>2. ASSUME NEW e \in icall_cons'
        PROVE  \E call \in sys.icall : call[2] = e[2] /\ SameCons(e[1], call[1])
    <3>1. CASE e \in icall_cons
      BY <3>1 DEF ConsInv, ConsSame
    <3>2. CASE \E f \in icall_cons : f[1] = C0 /\ f[2] = e[2] /\ e[1] = C
      <4>1. PICK f \in icall_cons : f[1] = C0 /\ f[2] = e[2] /\ e[1] = C
        BY <3>2
      <4>2. PICK call \in sys.icall : call[2] = f[2] /\ SameCons(f[1], call[1])
        BY DEF ConsInv, ConsSame
      <4> QED
        BY <1>3, <4>1, <4>2
    <3> QED
      BY <3>1, <3>2 DEF C
  <2> QED
    BY <1>6, <1>8, <2>1, <2>2 DEF ConsInv, ConsSame
<1>10. WellFormed(sys)'
  BY DEF ConsInv, WellFormed
<1> QED
  BY <1>3, <1>4, <1>5, <1>7, <1>9, <1>10 DEF C

LEMMA GepConsCalls ==
  ASSUME IInv, ConsInv, GepCons
  PROVE  ConsInv'
<1> DEFINE cid == Min(todo)
           C == Updated(cplx_cons[cid])
           dup == C \in cons_seen
<1>1. cid \in todo /\ cid \in DOMAIN cplx_cons /\ n \in Node
  BY MinMember DEF IInv, GepCons, VisitInv, VisitType
<1>2. /\ UNCHANGED <<sys, icall_cons, n, phase, lsc>>
      /\ pc = "cons" /\ pc' \in {"cons", "abort"} /\ phase = "gep"
      /\ todo' = todo \ {cid} /\ cons_seen' = cons_seen \cup {C}
      /\ cplx_cons' = [cplx_cons EXCEPT ![cid] = C]
  BY DEF GepCons
<1>3. /\ g'.rep = g.rep /\ g'.ind_calls = g.ind_calls
      /\ \A x \in Node : g'.cons[x] = IF dup /\ x = n THEN g.cons[x] \ {cid} ELSE g.cons[x]
  <2>1. CASE dup
    <3>1. g' = [g EXCEPT !.cons[n] = @ \ {cid}]
      BY <2>1 DEF GepCons
    <3> QED
      BY <1>1, <2>1, <3>1 DEF IInv, GraphInv, GraphType, Graph
  <2>2. CASE ~dup
    <3>1. g' = AddPointees(g, C.dest, Shift(d_points_to, C.off))
      BY <2>2 DEF GepCons
    <3> QED
      BY <2>2, <3>1 DEF AddPointees, IInv, GraphInv, GraphType, Graph
  <2> QED
    BY <2>1, <2>2
<1> HIDE DEF C, dup
<1>4. /\ WellFormed(sys)' /\ ConsSame'
      /\ \A D : Updated(D)' = Updated(D)
      /\ \A id \in DOMAIN cplx_cons :
              /\ cplx_cons'[id] = IF id = cid THEN C ELSE cplx_cons[id]
              /\ cplx_cons'[id].type = cplx_cons[id].type
      /\ Updated(C) = C
  BY <1>1, <1>2, <1>3, RewrittenCons DEF C
<1>5. \A id : ~Doomed(id) /\ ~Doomed(id)'
  BY <1>2 DEF Doomed
<1>6. cplx_cons[cid].type = "gep" /\ Sweeping
  BY <1>1, <1>2 DEF ConsInv, SweepInv, Sweeping
<1>7. \A x \in Node : \A id \in g.cons[x] : id \in DOMAIN cplx_cons
  BY DEF IInv, GraphInv
<1>8. SweepInv'
  <2>1. \A id \in todo' : id \in g'.cons[n] /\ cplx_cons'[id].type = phase
    BY <1>1, <1>2, <1>3, <1>4, <1>6, <1>7 DEF ConsInv, SweepInv
  <2>2. ASSUME NEW id \in ListOf(n, phase)' \ todo'
        PROVE  cplx_cons'[id] = Updated(cplx_cons'[id])
    <3>1. id \in g'.cons[n] /\ cplx_cons'[id].type = phase /\ id \in g.cons[n]
          /\ id \in DOMAIN cplx_cons
      BY <1>1, <1>2, <1>3, <1>7 DEF ListOf
    <3>2. CASE id = cid
      BY <1>4, <3>1, <3>2
    <3>3. CASE id # cid
      <4>1. id \in ListOf(n, phase) \ todo
        BY <1>2, <1>4, <3>1, <3>3 DEF ListOf
      <4>2. cplx_cons[id] = Updated(cplx_cons[id])
        BY <1>2, <1>6, <4>1 DEF ConsInv, SweepInv
      <4> QED
        BY <1>4, <3>1, <3>3, <4>2
    <3> QED
      BY <3>2, <3>3
  <2>3. pc' # "member" /\ phase' = "gep"
    BY <1>2
  <2> QED
    BY <1>2, <1>4, <2>1, <2>2, <2>3 DEF SweepInv
<1>9. CallsInv'
  <2>1. ASSUME NEW x \in Node, NEW id \in g'.cons[x], IsCall(sys, sys.cons[id])
        PROVE  x \in g.ind_calls /\ HasSites(id)'
    <3>1. id \in g.cons[x] /\ id \in DOMAIN cplx_cons /\ x \in g.ind_calls /\ HasSites(id)
      BY <1>2, <1>3, <1>7, <2>1 DEF ConsInv, CallsInv
    <3>2. sys.cons[id].type \in {"load", "store"}
      BY <2>1 DEF IsCall, ConsInv, WellFormed
    <3>3. id # cid /\ cplx_cons[id].type # "gep"
      BY <1>6, <3>1, <3>2 DEF ConsInv, ConsSame, SameCons
    <3>4. id \notin todo
      BY <1>2, <1>6, <3>3 DEF ConsInv, SweepInv
    <3>5. SitesOf(icall_cons, cplx_cons[id]) # {}
      BY <1>5, <3>1, <3>4 DEF HasSites
    <3> QED
      BY <1>2, <1>4, <3>1, <3>3, <3>5 DEF HasSites, SitesOf
  <2>2. ASSUME NEW call \in sys.icall
        PROVE  /\ g.rep[Base(call[1])] \in g.ind_calls
               /\ \E id \in g'.cons[g.rep[Base(call[1])]] : Keeps(id, call)'
    <3> DEFINE x == g.rep[Base(call[1])]
    <3>1. x \in Node
      BY DEF IInv, GraphInv, GraphType, Graph, System, Base, Constraint
    <3>2. PICK id \in g.cons[x] : Keeps(id, call)
      BY <1>2 DEF ConsInv, CallsInv
    <3>3. call[1].type \in {"load", "store"}
      BY DEF ConsInv, WellFormed
    <3>4. id # cid
      BY <1>6, <3>2, <3>3 DEF Keeps, SameCons
    <3>5. id \in g'.cons[x] /\ id \in DOMAIN cplx_cons
      BY <1>3, <1>7, <3>1, <3>2, <3>4
    <3>6. Keeps(id, call)'
      BY <1>2, <1>3, <1>4, <1>5, <3>2, <3>4, <3>5 DEF Keeps, SameCons
    <3>7. x \in g.ind_calls
      BY <1>2 DEF ConsInv, CallsInv
    <3> QED
      BY <3>5, <3>6, <3>7
  <2> QED
    BY <1>2, <1>3, <2>1, <2>2 DEF CallsInv
<1> QED
  BY <1>4, <1>8, <1>9 DEF ConsInv

LEMMA MovedSites ==
  ASSUME IInv, NEW C0 \in Constraint, n \in g.ind_calls \/ SitesOf(icall_cons, C0) = {}
  PROVE  /\ \A e \in MovedCalls(C0) :
              \/ e \in icall_cons
              \/ \E f \in icall_cons : f[1] = C0 /\ f[2] = e[2] /\ e[1] = Updated(C0)
         /\ \A D, s : <<D, s>> \in icall_cons =>
              IF D = C0 THEN <<Updated(C0), s>> \in MovedCalls(C0) /\ CallSites(C0) # {}
                        ELSE <<D, s>> \in MovedCalls(C0)
<1>1. \A s : s \in CallSites(C0) <=> s \in Site /\ <<C0, s>> \in icall_cons
  BY DEF CallSites, SitesOf
<1>2. icall_cons \subseteq Constraint \X Site
  BY DEF IInv, GraphInv, GraphType
<1>3. CASE CallSites(C0) = {}
  BY <1>1, <1>2, <1>3 DEF MovedCalls
<1>4. CASE CallSites(C0) # {}
  <2>1. MovedCalls(C0) = {e \in icall_cons : e[1] # C0} \cup ({Updated(C0)} \X CallSites(C0))
    BY <1>4 DEF MovedCalls
  <2>2. ASSUME NEW e \in MovedCalls(C0), e \notin icall_cons
        PROVE  \E f \in icall_cons : f[1] = C0 /\ f[2] = e[2] /\ e[1] = Updated(C0)
    <3>1. e[1] = Updated(C0) /\ e[2] \in CallSites(C0)
      BY <2>1, <2>2
    <3>2. <<C0, e[2]>> \in icall_cons
      BY <1>1, <3>1
    <3> QED
      BY <3>1, <3>2
  <2>3. ASSUME NEW D, NEW s, <<D, s>> \in icall_cons
        PROVE  IF D = C0 THEN <<Updated(C0), s>> \in MovedCalls(C0) /\ CallSites(C0) # {}
                         ELSE <<D, s>> \in MovedCalls(C0)
    <3>1. s \in Site
      BY <1>2, <2>3
    <3> QED
      BY <1>1, <1>4, <2>1, <2>3, <3>1
  <2> QED
    BY <2>2, <2>3
<1> QED
  BY <1>3, <1>4

LEMMA LsConsCalls ==
  ASSUME IInv, ConsInv, LsCons
  PROVE  ConsInv'
<1> DEFINE cid == Min(todo)
           C0 == cplx_cons[cid]
           C == Updated(C0)
           ic == MovedCalls(C0)
           I == IF CallSites(C0) = {} THEN {} ELSE SitesOf(ic, C)
           dup == C \in cons_seen
           hcd == ~dup /\ hcd_rep # 0 /\ C.off = 0
           h == IF C.type = "load" THEN add_copy_edge(g, hcd_rep, C.dest)
                                   ELSE add_copy_edge(g, C.src, hcd_rep)
<1>1. cid \in todo /\ cid \in DOMAIN cplx_cons /\ n \in Node
  BY MinMember DEF IInv, LsCons, VisitInv, VisitType
<1>2. /\ C0 \in Constraint /\ C \in Constraint
      /\ C.type = C0.type /\ C.off = C0.off /\ g.rep[Base(C)] = g.rep[Base(C0)]
      /\ C.off \in Nat
  BY <1>1, UpdatedCons DEF IInv, Constraint
<1>3. /\ UNCHANGED <<sys, n, phase>>
      /\ pc = "cons" /\ pc' \in {"cons", "member", "abort"} /\ phase \in {"load", "store"}
      /\ todo' = todo \ {cid} /\ cons_seen' = cons_seen \cup {C}
      /\ cplx_cons' = [cplx_cons EXCEPT ![cid] = C]
      /\ icall_cons' = ic
      /\ (pc' # "abort" => LsOK(C0, C, I, dup) /\ pc' = IF hcd THEN "cons" ELSE "member")
  BY DEF LsCons
<1>4. Sweeping /\ \A id : ~Doomed(id)
  BY <1>3 DEF Sweeping, Doomed
<1>5. cid \in g.cons[n] /\ C0.type = phase /\ g.rep[Base(C0)] = n
  BY <1>1, <1>3, <1>4 DEF ConsInv, SweepInv, IInv, GraphInv, ListsCurrent
<1>6. n \in g.ind_calls \/ SitesOf(icall_cons, C0) = {}
  <2>1. SUFFICES ASSUME NEW s, <<C0, s>> \in icall_cons
                 PROVE  n \in g.ind_calls
    BY DEF SitesOf
  <2>2. PICK call \in sys.icall : call[2] = s /\ SameCons(C0, call[1])
    BY <2>1 DEF ConsInv, ConsSame
  <2>3. g.rep[Base(call[1])] = g.rep[Base(C0)]
    BY <2>2 DEF SameCons, Base
  <2> QED
    BY <1>3, <1>5, <2>3 DEF ConsInv, CallsInv
<1>7. /\ \A e \in ic :
              \/ e \in icall_cons
              \/ \E f \in icall_cons : f[1] = C0 /\ f[2] = e[2] /\ e[1] = C
      /\ \A D, s : <<D, s>> \in icall_cons =>
              IF D = C0 THEN <<C, s>> \in ic /\ CallSites(C0) # {} ELSE <<D, s>> \in ic
  BY <1>2, <1>6, MovedSites
<1>8. /\ g'.rep = g.rep /\ g'.ind_calls = g.ind_calls
      /\ \A x \in Node : g'.cons[x] = IF hcd /\ x = n THEN g.cons[x] \ {cid} ELSE g.cons[x]
      /\ hcd => lsc' = lsc
      /\ ~hcd => lsc' = [C |-> C, cid |-> cid, I |-> I, del |-> dup]
  <2>1. CASE hcd
    <3>1. g' = [h EXCEPT !.cons[n] = @ \ {cid}] /\ lsc' = lsc
      BY <2>1 DEF LsCons
    <3>2. h \in Graph /\ h.rep = g.rep /\ h.ind_calls = g.ind_calls /\ h.cons = g.cons
      <4>1. Extends(g, h)
        BY <1>1, <1>2, UpdatedCons, AddCopyEdgeExtends, CanonicalGraph
        DEF IInv, VisitInv, VisitType, LsCons, Constraint
      <4>2. h.ind_calls = g.ind_calls
        BY DEF add_copy_edge, IInv, GraphInv, GraphType, Graph
      <4> QED
        BY <4>1, <4>2 DEF Extends, SameLists
    <3> HIDE DEF h
    <3> QED
      BY <1>1, <2>1, <3>1, <3>2 DEF Graph
  <2>2. CASE ~hcd
    BY <2>2 DEF LsCons
  <2> QED
    BY <2>1, <2>2
<1> HIDE DEF C0, C, ic, I, dup, hcd, h
<1>9. /\ WellFormed(sys)' /\ ConsSame'
      /\ \A D : Updated(D)' = Updated(D)
      /\ \A D \in Constraint : SameCons(C0, D) => SameCons(C, D)
      /\ \A id \in DOMAIN cplx_cons :
              /\ cplx_cons'[id] = IF id = cid THEN C ELSE cplx_cons[id]
              /\ cplx_cons'[id].type = cplx_cons[id].type
      /\ Updated(C) = C
  BY <1>1, <1>3, <1>7, <1>8, RewrittenCons DEF C, C0
<1> SUFFICES ASSUME pc' # "abort" PROVE CallsInv' /\ SweepInv'
  BY <1>9 DEF ConsInv
<1>10. pc' = (IF hcd THEN "cons" ELSE "member") /\ (I # {} => CallOffsetOK(C))
  BY <1>3 DEF LsOK
<1>11. Sweeping' /\ \A id : Doomed(id)' <=> ~hcd /\ dup /\ id = cid
  BY <1>8, <1>10 DEF Sweeping, Doomed
<1>12. hcd => C.off = 0 /\ ~dup
  BY DEF hcd
<1>13. \A x \in Node : \A id \in g.cons[x] : id \in DOMAIN cplx_cons
  BY DEF IInv, GraphInv
<1>14. ASSUME NEW D \in cons_seen', D.off # 0
       PROVE  \E id \in ListOf(n, phase)' \ todo' : cplx_cons'[id] = D /\ ~Doomed(id)'
  <2>1. CASE D \in cons_seen
    <3>1. PICK id \in ListOf(n, phase) \ todo : cplx_cons[id] = D /\ ~Doomed(id)
      BY <1>3, <1>4, <1>14, <2>1 DEF ConsInv, SweepInv
    <3>2. id # cid /\ id \in g.cons[n] /\ cplx_cons[id].type = phase
      BY <1>1, <3>1 DEF ListOf
    <3>3. id \in g'.cons[n] /\ cplx_cons'[id] = D /\ cplx_cons'[id].type = phase
      BY <1>1, <1>8, <1>9, <1>13, <3>1, <3>2
    <3>4. id \in ListOf(n, phase)' \ todo'
      BY <1>3, <3>1, <3>3 DEF ListOf
    <3> QED
      BY <1>11, <3>2, <3>3, <3>4
  <2>2. CASE D = C /\ ~dup
    <3>1. ~hcd
      BY <1>12, <1>14, <2>2
    <3>2. cid \in g'.cons[n] /\ cplx_cons'[cid] = C /\ cplx_cons'[cid].type = phase
      BY <1>1, <1>5, <1>8, <1>9, <3>1 DEF C0
    <3>3. cid \in ListOf(n, phase)' \ todo'
      BY <1>3, <3>2 DEF ListOf
    <3> QED
      BY <1>11, <2>2, <3>2, <3>3
  <2> QED
    BY <1>3, <2>1, <2>2 DEF dup
<1>15. SweepInv'
  <2>1. \A id \in todo' : id \in g'.cons[n] /\ cplx_cons'[id].type = phase
    BY <1>1, <1>3, <1>4, <1>8, <1>9, <1>13 DEF ConsInv, SweepInv
  <2>2. ASSUME NEW id \in ListOf(n, phase)' \ todo'
        PROVE  cplx_cons'[id] = Updated(cplx_cons'[id])
    <3>1. id \in g'.cons[n] /\ cplx_cons'[id].type = phase /\ id \in g.cons[n]
          /\ id \in DOMAIN cplx_cons
      BY <1>1, <1>3, <1>8, <1>13 DEF ListOf
    <3>2. CASE id = cid
      BY <1>9, <3>1, <3>2
    <3>3. CASE id # cid
      <4>1. id \in ListOf(n, phase) \ todo
        BY <1>3, <1>9, <3>1, <3>3 DEF ListOf
      <4>2. cplx_cons[id] = Updated(cplx_cons[id])
        BY <1>3, <1>4, <4>1 DEF ConsInv, SweepInv
      <4> QED
        BY <1>9, <3>1, <3>3, <4>2
    <3> QED
      BY <3>2, <3>3
  <2>3. pc' = "member" =>
          /\ lsc'.C.type = phase /\ phase # "gep" /\ lsc'.C = cplx_cons'[lsc'.cid]
          /\ lsc'.cid \in g'.cons[n] \ todo'
    <3> SUFFICES ASSUME pc' = "member"
                 PROVE  /\ lsc'.C.type = phase /\ phase # "gep" /\ lsc'.C = cplx_cons'[lsc'.cid]
                        /\ lsc'.cid \in g'.cons[n] \ todo'
      OBVIOUS
    <3>1. ~hcd /\ lsc'.C = C /\ lsc'.cid = cid
      BY <1>8, <1>10
    <3> QED
      BY <1>1, <1>2, <1>3, <1>5, <1>8, <1>9, <3>1
  <2> QED
    BY <1>3, <1>9, <1>14, <2>1, <2>2, <2>3 DEF SweepInv
<1>16. CallsInv'
  <2>1. ASSUME NEW x \in Node, NEW id \in g'.cons[x], IsCall(sys, sys.cons[id])
        PROVE  x \in g.ind_calls /\ HasSites(id)'
    <3>1. id \in g.cons[x] /\ id \in DOMAIN cplx_cons /\ x \in g.ind_calls /\ HasSites(id)
      BY <1>3, <1>8, <1>13, <2>1 DEF ConsInv, CallsInv
    <3>2. CASE id = cid
      <4>1. CASE SitesOf(icall_cons, C0) # {}
        <5>1. PICK s \in Site : <<C0, s>> \in icall_cons
          BY <4>1 DEF SitesOf
        <5>2. <<C, s>> \in icall_cons'
          BY <1>3, <1>7, <5>1
        <5> QED
          BY <1>1, <1>9, <3>1, <3>2, <5>2 DEF HasSites, SitesOf
      <4>2. CASE C \in cons_seen
        <5>1. Doomed(id)'
          BY <1>11, <1>12, <3>2, <4>2 DEF dup
        <5> QED
          BY <3>1, <5>1 DEF HasSites
      <4> QED
        BY <1>4, <3>1, <3>2, <4>1, <4>2 DEF HasSites, C0, C
    <3>3. CASE id # cid
      <4> DEFINE D == cplx_cons[id]
      <4>1. CASE SitesOf(icall_cons, D) # {} /\ (D # C0 \/ C = C0)
        <5>1. PICK s \in Site : <<D, s>> \in icall_cons
          BY <4>1 DEF SitesOf
        <5>2. <<D, s>> \in icall_cons'
          BY <1>3, <1>7, <4>1, <5>1
        <5>3. cplx_cons'[id] = D
          BY <1>9, <3>1, <3>3
        <5> QED
          BY <3>1, <5>2, <5>3 DEF HasSites, SitesOf
      <4>2. CASE D = C0 /\ C # C0
        <5>1. x = n
          BY <1>5, <3>1, <4>2 DEF IInv, GraphInv, ListsCurrent
        <5>2. id \in ListOf(n, phase)
          BY <1>5, <3>1, <4>2, <5>1 DEF ListOf
        <5>3. id \in todo
          BY <1>3, <1>4, <4>2, <5>2 DEF ConsInv, SweepInv, C
        <5>4. id \in todo' /\ cplx_cons'[id] = C0 /\ Updated(C0) \in cons_seen'
          BY <1>3, <1>9, <3>1, <3>3, <4>2, <5>3 DEF C
        <5> QED
          BY <1>9, <1>11, <3>1, <5>4 DEF HasSites
      <4>3. CASE id \in todo /\ Updated(D) \in cons_seen
        <5>1. id \in todo' /\ cplx_cons'[id] = D /\ Updated(D) \in cons_seen'
          BY <1>3, <1>9, <3>1, <3>3, <4>3
        <5> QED
          BY <1>9, <1>11, <3>1, <5>1 DEF HasSites
      <4> QED
        BY <1>4, <3>1, <4>1, <4>2, <4>3 DEF HasSites
    <3> QED
      BY <3>2, <3>3
  <2>2. ASSUME NEW call \in sys.icall
        PROVE  /\ g.rep[Base(call[1])] \in g.ind_calls
               /\ \E id \in g'.cons[g.rep[Base(call[1])]] : Keeps(id, call)'
    <3> DEFINE x == g.rep[Base(call[1])]
    <3>1. x \in Node /\ call[1] \in Constraint /\ call[2] \in Site
      BY DEF IInv, GraphInv, GraphType, Graph, System, Base, Constraint
    <3>2. x \in g.ind_calls
      BY <1>3 DEF ConsInv, CallsInv
    <3>3. PICK id \in g.cons[x] : Keeps(id, call)
      BY <1>3 DEF ConsInv, CallsInv
    <3>4. id \in DOMAIN cplx_cons
      BY <1>13, <3>1, <3>3
    <3>5. CASE cplx_cons[id] # C0
      <4>1. id # cid /\ cplx_cons'[id] = cplx_cons[id]
        BY <1>9, <3>4, <3>5 DEF C0
      <4>2. id \in g'.cons[x]
        BY <1>8, <3>1, <3>3, <4>1
      <4>3. <<cplx_cons[id], call[2]>> \in icall_cons' /\ SameCons(cplx_cons[id], call[1])
        BY <1>3, <1>7, <3>3, <3>5 DEF Keeps
      <4>4. Keeps(id, call)'
        BY <1>8, <1>11, <4>1, <4>3 DEF Keeps, SameCons
      <4> QED
        BY <3>2, <4>2, <4>4
    <3>6. CASE cplx_cons[id] = C0
      <4>1. <<C0, call[2]>> \in icall_cons /\ SameCons(C0, call[1])
        BY <3>3, <3>6 DEF Keeps
      <4>2. x = n
        <5>1. g.rep[Base(call[1])] = g.rep[Base(C0)]
          BY <4>1 DEF SameCons, Base
        <5> QED
          BY <1>5, <5>1
      <4>3. <<C, call[2]>> \in icall_cons' /\ CallSites(C0) # {}
        BY <1>3, <1>7, <4>1
      <4>4. I # {}
        BY <1>3, <3>1, <4>3 DEF I, SitesOf
      <4>5. C.off # 0 /\ ~hcd
        BY <1>2, <1>10, <1>12, <4>4 DEF CallOffsetOK
      <4>6. PICK w \in ListOf(n, phase)' \ todo' : cplx_cons'[w] = C /\ ~Doomed(w)'
        BY <1>3, <1>14, <4>5
      <4>7. w \in g'.cons[x]
        BY <1>3, <4>2, <4>6 DEF ListOf
      <4>8. <<cplx_cons'[w], call[2]>> \in icall_cons' /\ SameCons(cplx_cons'[w], call[1])
        BY <1>9, <3>1, <4>1, <4>3, <4>6
      <4>9. Keeps(w, call)'
        BY <1>8, <4>6, <4>8 DEF Keeps, SameCons
      <4> QED
        BY <3>2, <4>7, <4>9
    <3> QED
      BY <3>5, <3>6
  <2> QED
    BY <1>3, <1>8, <2>1, <2>2 DEF CallsInv
<1> QED
  BY <1>15, <1>16

LEMMA MergeNodesCalls ==
  ASSUME IInv, ConsInv, MergeNodes
  PROVE  ConsInv'
<1> DEFINE p == Parent(g, marg[1], marg[2])
           c == Child(g, marg[1], marg[2])
<1>1. CASE ~CanMerge(g, marg[1], marg[2])
  <2>1. pc' = "abort" /\ UNCHANGED <<sys, g, cplx_cons, icall_cons>>
    BY <1>1 DEF MergeNodes
  <2> QED
    BY <2>1 DEF ConsInv, ConsSame, SameCons, WellFormed
<1>2. CASE CanMerge(g, marg[1], marg[2])
  <2>1. /\ p \in Node /\ c \in Node /\ p # c /\ p # 0 /\ c # 0 /\ is_rep(g, p) /\ is_rep(g, c)
        /\ g \in Graph /\ Canonical(g)
    BY <1>2, CanonicalGraph DEF IInv, MergeInv, MergeType, CanMerge, Parent, Child
  <2>2. g' = Absorb(g, p, c) /\ UNCHANGED <<sys, cplx_cons, icall_cons>>
        /\ pc = "merge" /\ pc' \in {"merge", "unwind"}
    BY <1>2 DEF MergeNodes, Unify
  <2> HIDE DEF p, c
  <2>3. /\ Grown(g, g')
        /\ \A x \in Node : g'.rep[x] = IF g.rep[x] = c THEN p ELSE g.rep[x]
    BY <2>1, <2>2, AbsorbCanonical
  <2>4. /\ g'.cons = [g.cons EXCEPT ![p] = @ \cup g.cons[c], ![c] = {}]
        /\ g'.ind_calls = IF c \in g.ind_calls THEN (g.ind_calls \ {c}) \cup {p}
                                               ELSE g.ind_calls
    BY <2>2 DEF Absorb, MergedCons
  <2>5. WellFormed(sys)' /\ ConsSame'
    BY <2>2, <2>3, ConsSameStays, MergeNodesInv
  <2>6. ~Sweeping /\ ~Sweeping' /\ \A id : ~Doomed(id) /\ ~Doomed(id)'
    BY <2>2 DEF Sweeping, Doomed
  <2>7. SweepInv'
    BY <2>2, <2>6 DEF SweepInv
  <2>8. ASSUME NEW x \in Node, NEW id \in g'.cons[x], IsCall(sys, sys.cons[id])
        PROVE  x \in g'.ind_calls /\ HasSites(id)'
    <3>1. \/ x = p /\ id \in g.cons[p] \cup g.cons[c]
          \/ x # p /\ x # c /\ id \in g.cons[x]
      BY <2>1, <2>4, <2>8 DEF Graph
    <3>2. PICK y \in Node : id \in g.cons[y] /\ (y = x \/ (y = c /\ x = p)) /\ (x # c)
      BY <2>1, <3>1
    <3>3. y \in g.ind_calls /\ HasSites(id)
      BY <2>2, <2>8, <3>2 DEF ConsInv, CallsInv
    <3>4. x \in g'.ind_calls
      BY <2>4, <3>2, <3>3
    <3> QED
      BY <2>2, <2>6, <3>3, <3>4 DEF HasSites
  <2>9. ASSUME NEW call \in sys.icall
        PROVE  /\ g'.rep[Base(call[1])] \in g'.ind_calls
               /\ \E id \in g'.cons[g'.rep[Base(call[1])]] : Keeps(id, call)'
    <3> DEFINE b == Base(call[1])
               x == g.rep[b]
    <3>1. b \in Node /\ x \in Node /\ call[1] \in Constraint
      BY DEF IInv, GraphInv, GraphType, Graph, System, Base, Constraint
    <3>2. x \in g.ind_calls
      BY <2>2 DEF ConsInv, CallsInv
    <3>3. PICK id \in g.cons[x] : Keeps(id, call)
      BY <2>2 DEF ConsInv, CallsInv
    <3>4. g'.rep[b] = IF x = c THEN p ELSE x
      BY <2>3, <3>1
    <3> HIDE DEF b, x
    <3>5. id \in g'.cons[g'.rep[b]] /\ g'.rep[b] \in g'.ind_calls
      BY <2>1, <2>4, <3>1, <3>2, <3>3, <3>4 DEF Graph
    <3>6. cplx_cons[id] \in Constraint
      BY <3>1, <3>3 DEF IInv, GraphInv, GraphType
    <3>7. SameCons(cplx_cons[id], call[1])'
      BY <2>2, <2>3, <3>1, <3>3, <3>6 DEF Keeps, SameCons, Grown, Constraint
    <3>8. Keeps(id, call)'
      BY <2>2, <2>6, <3>3, <3>7 DEF Keeps
    <3> QED
      BY <3>5, <3>8 DEF b
  <2>10. CallsInv'
    BY <2>2, <2>8, <2>9 DEF CallsInv
  <2> QED
    BY <2>5, <2>7, <2>10 DEF ConsInv
<1> QED
  BY <1>1, <1>2

LEMMA InitCalls ==
  ASSUME Init, WellFormed(sys)
  PROVE  ConsInv
<1>1. sys \in System /\ g = InitGraph(sys) /\ cplx_cons = sys.cons /\ icall_cons = sys.icall
      /\ pc = "loop" /\ sys.cons \in Seq(Constraint)
      /\ sys.icall \subseteq Constraint \X Site
  BY InputsAssumption DEF Init, System
<1>2. /\ g.rep = [x \in Node |-> x]
      /\ g.cons = [x \in Node |-> {cid \in Complex(sys) : Base(sys.cons[cid]) = x}]
      /\ g.ind_calls = {Base(cs[1]) : cs \in sys.icall}
  BY <1>1 DEF InitGraph
<1>3. ConsSame
  <2>1. \A e \in icall_cons : e \in sys.icall /\ e[2] = e[2] /\ SameCons(e[1], e[1])
    BY <1>1 DEF SameCons
  <2> QED
    BY <1>1, <2>1 DEF ConsSame, SameCons
<1>4. ~Sweeping /\ \A id : ~Doomed(id)
  BY <1>1 DEF Sweeping, Doomed
<1>5. SweepInv
  BY <1>1, <1>4 DEF SweepInv
<1>6. ASSUME NEW x \in Node, NEW id \in g.cons[x], IsCall(sys, sys.cons[id])
      PROVE  x \in g.ind_calls /\ HasSites(id)
  <2>1. PICK s \in Site : <<sys.cons[id], s>> \in sys.icall
    BY <1>6 DEF IsCall
  <2>2. id \in Complex(sys) /\ Base(sys.cons[id]) = x
    BY <1>2
  <2>3. x \in g.ind_calls
    BY <1>2, <2>1, <2>2
  <2> QED
    BY <1>1, <2>1, <2>3 DEF HasSites, SitesOf
<1>7. ASSUME NEW call \in sys.icall
      PROVE  /\ g.rep[Base(call[1])] \in g.ind_calls
             /\ \E id \in g.cons[g.rep[Base(call[1])]] : Keeps(id, call)
  <2>1. call[1] \in Range(sys.cons) /\ call[1].type \in {"load", "store"}
        /\ call[1] \in Constraint /\ call = <<call[1], call[2]>>
    BY <1>1 DEF WellFormed
  <2>2. PICK id \in DOMAIN sys.cons : sys.cons[id] = call[1]
    BY <2>1 DEF Range
  <2>3. Base(call[1]) \in Node
    BY <2>1 DEF Base, Constraint
  <2>4. id \in g.cons[Base(call[1])] /\ Base(call[1]) \in g.ind_calls
        /\ g.rep[Base(call[1])] = Base(call[1])
    BY <1>2, <2>1, <2>2, <2>3 DEF Complex
  <2>5. Keeps(id, call)
    BY <1>1, <1>4, <2>1, <2>2 DEF Keeps, SameCons
  <2> QED
    BY <2>4, <2>5
<1>8. CallsInv
  BY <1>6, <1>7 DEF CallsInv
<1> QED
  BY <1>3, <1>5, <1>8 DEF ConsInv

LEMMA NextCalls ==
  ASSUME IInv, ConsInv, [Next]_vars
  PROVE  ConsInv'
<1>1. CASE Next
  BY <1>1, OtherCalls, HcdDoneCalls, NextPhaseCalls, LsConsCalls, LsDoneCalls, GepConsCalls,
     MergeNodesCalls DEF Next, Loop, SolveNode, Merge
<1>2. CASE UNCHANGED vars
  <2>1. UNCHANGED <<sys, g, cplx_cons, icall_cons, pc, n, phase, todo, cons_seen, lsc>>
    BY <1>2 DEF vars, graphVars, visitVars
  <2>2. CASE pc = "abort"
    BY <2>1, <2>2 DEF ConsInv, ConsSame, SameCons, WellFormed
  <2> QED
    BY <2>1, <2>2, CallsStay
<1> QED
  BY <1>1, <1>2

LEMMA CallsKeptFollows ==
  ASSUME ConsInv
  PROVE  CallsKept
<1> SUFFICES ASSUME pc = "loop", NEW call \in sys.icall
             PROVE  /\ g.rep[Base(call[1])] \in g.ind_calls
                    /\ \E cid \in g.cons[g.rep[Base(call[1])]] :
                         /\ <<cplx_cons[cid], call[2]>> \in icall_cons
                         /\ SameCons(cplx_cons[cid], call[1])
  BY DEF CallsKept, SameCons
<1> QED
  BY DEF ConsInv, CallsInv, Keeps

(* No indirect call is lost: between two node runs every call instruction  *)
(* is attached to a constraint in the list of the function pointer's       *)
(* representative, whatever was rewritten, moved, deleted or merged.       *)
THEOREM CallsAttached == Spec => []CallsKept
<1>1. Init => ConsInv
  BY InitCalls, WellFormedAssumption DEF Init
<1>2. IInv /\ ConsInv /\ [Next]_vars => ConsInv'
  BY NextCalls
<1>3. ConsInv => CallsKept
  BY CallsKeptFollows
<1>4. Spec => []IInv
  BY Inductive
<1> QED
  BY <1>1, <1>2, <1>3, <1>4, PTL DEF Spec

-----------------------------------------------------------------------------
(* The null node *)

LEMMA NullSame ==
  ASSUME NEW gr, NEW hr, NullGraph(gr), hr.rep = gr.rep, hr.points_to = gr.points_to,
         hr.copy_to = gr.copy_to
  PROVE  NullGraph(hr)
BY DEF NullGraph

LEMMA NullAdd ==
  ASSUME NEW gr \in Graph, NullGraph(gr), NEW d \in Node \ {0}, NEW S \in SUBSET Node, 0 \notin S
  PROVE  NullGraph(AddPointees(gr, d, S))
<1>1. /\ AddPointees(gr, d, S).rep = gr.rep
      /\ AddPointees(gr, d, S).copy_to = gr.copy_to
      /\ AddPointees(gr, d, S).points_to = [gr.points_to EXCEPT ![d] = @ \cup S]
  BY DEF AddPointees, Graph
<1> QED
  BY <1>1, NodeAssumption DEF NullGraph, Graph

LEMMA NullEdge ==
  ASSUME NEW gr \in Graph, NullGraph(gr), NEW s \in Node, NEW d \in Node \ {0}
  PROVE  NullGraph(add_copy_edge(gr, s, d))
<1> DEFINE hr == add_copy_edge(gr, s, d)
<1>1. CASE i2p \in {s, d} \/ s = d \/ d \in gr.copy_to[s]
  BY <1>1 DEF add_copy_edge
<1>2. CASE ~(i2p \in {s, d} \/ s = d \/ d \in gr.copy_to[s])
  <2>1. hr = [gr EXCEPT !.copy_to[s] = @ \cup {d},
                        !.points_to[d] = @ \cup gr.points_to[s]]
    BY <1>2 DEF add_copy_edge
  <2> HIDE DEF hr
  <2>2. /\ hr.rep = gr.rep
        /\ hr.copy_to = [gr.copy_to EXCEPT ![s] = @ \cup {d}]
        /\ hr.points_to = [gr.points_to EXCEPT ![d] = @ \cup gr.points_to[s]]
    BY <2>1 DEF Graph
  <2>3. NullGraph(hr)
    BY <2>2, NodeAssumption DEF NullGraph, Graph
  <2> QED
    BY <2>3 DEF hr
<1> QED
  BY <1>1, <1>2

LEMMA NullAbsorb ==
  ASSUME NEW gr \in Graph, NullGraph(gr), NEW p \in Node \ {0}, NEW c \in Node \ {0}
  PROVE  NullGraph(Absorb(gr, p, c))
<1> DEFINE hr == Absorb(gr, p, c)
<1>1. /\ hr.rep = [x \in Node |-> IF gr.rep[x] = c THEN p ELSE gr.rep[x]]
      /\ hr.points_to = [gr.points_to EXCEPT ![p] = @ \cup gr.points_to[c], ![c] = {}]
      /\ hr.copy_to = [gr.copy_to EXCEPT ![p] = (@ \cup gr.copy_to[c]) \ {p, c}, ![c] = {}]
  BY DEF Absorb, MergedPointees, MergedEdges
<1> HIDE DEF hr
<1>2. NullGraph(hr)
  BY <1>1, NodeAssumption DEF NullGraph, Graph
<1> QED
  BY <1>2 DEF hr

(* A representative is the null node only of the null node.                *)
LEMMA RepNotNull ==
  ASSUME IInv, NullGraph(g), NEW x \in Node \ {0}
  PROVE  get_node_rep(x) \in Node \ {0}
BY RepIsRep DEF IInv, NullGraph, get_node_rep

LEMMA ShiftNotNull ==
  ASSUME NEW P \in SUBSET Node, 0 \notin P, NEW off \in Nat
  PROVE  Shift(P, off) \in SUBSET Node /\ 0 \notin Shift(P, off)
<1>1. Shift(P, off) \subseteq Node
  BY ShiftNodes
<1>2. ASSUME NEW o \in P PROVE o + off # 0
  BY NodeAssumption
<1> QED
  BY <1>1, <1>2 DEF Shift, Fits

-----------------------------------------------------------------------------
(* The null node through every step *)

LEMMA InitNull == Init => NullInv
<1> SUFFICES ASSUME Init PROVE NullInv
  OBVIOUS
<1>1. sys \in Inputs /\ g = InitGraph(sys) /\ cplx_cons = sys.cons
      /\ d_points_to = {} /\ members = {} /\ pc = "loop" /\ frames = <<>>
  BY DEF Init
<1>2. \A C \in Range(sys.cons) : C.dest # 0 /\ C.src # 0
  BY <1>1, NullAssumption
<1>3. \A cid \in DOMAIN sys.cons : sys.cons[cid] \in Range(sys.cons)
  BY DEF Range
<1>4. NullVisit
  BY <1>1, <1>2, <1>3 DEF NullVisit
<1>5. /\ g.rep = [x \in Node |-> x]
      /\ g.points_to = [x \in Node |->
            {C.src : C \in {c \in OfType(sys, "addr_of") : c.dest = x}}]
      /\ g.copy_to = [x \in Node |-> {C.dest : C \in {c \in OfType(sys, "copy") : c.src = x}}]
  BY <1>1 DEF InitGraph
<1>6. NullGraph(g)
  <2>1. \A x \in Node : g.rep[x] = x
    BY <1>5
  <2>2. ASSUME NEW x \in Node
        PROVE  0 \notin g.points_to[x] /\ 0 \notin g.copy_to[x]
    <3>1. g.points_to[x] = {C.src : C \in {c \in OfType(sys, "addr_of") : c.dest = x}}
      BY <1>5
    <3>2. g.copy_to[x] = {C.dest : C \in {c \in OfType(sys, "copy") : c.src = x}}
      BY <1>5
    <3> QED
      BY <1>2, <3>1, <3>2 DEF OfType
  <2>3. g.points_to[0] = {}
    <3>1. g.points_to[0] = {C.src : C \in {c \in OfType(sys, "addr_of") : c.dest = 0}}
      BY <1>5, NodeAssumption
    <3> QED
      BY <1>2, <3>1 DEF OfType
  <2> QED
    BY <2>1, <2>2, <2>3 DEF NullGraph
<1> QED
  BY <1>1, <1>4, <1>6 DEF NullInv

(* Steps that leave the graph alone.                                       *)
LEMMA NullKept ==
  ASSUME NullInv, UNCHANGED <<g, cplx_cons, d_points_to, frames>>,
         members' \subseteq members, pc' = "member" => pc = "member" /\ lsc' = lsc
  PROVE  NullInv'
BY DEF NullInv, NullVisit, NullFrame, NullGraph

LEMMA VisitNull ==
  ASSUME IInv, NullInv, NEW e \in curr, Visit(e)
  PROVE  NullInv'
<1> DEFINE x == e[1]
           delta == g.points_to[x] \ g.prev_points_to[x]
<1>1. x \in Node /\ g \in Graph
  BY DEF IInv, WorkType, Heaps, GraphInv, GraphType
<1>2. /\ cplx_cons' = cplx_cons /\ frames' = frames /\ d_points_to' = delta
      /\ pc' \in {"check", "hcd"}
      /\ \/ g' = [g EXCEPT !.vtime[x] = vtime] /\ members' = members
         \/ /\ g' = [g EXCEPT !.vtime[x] = vtime, !.prev_points_to[x] = g.points_to[x]]
            /\ members' = {} \/ members' = delta \X {NoSite}
  BY DEF Visit, lcdVars
<1>3. g'.rep = g.rep /\ g'.points_to = g.points_to /\ g'.copy_to = g.copy_to
  BY <1>1, <1>2 DEF Graph
<1>4. NullGraph(g)'
  BY <1>3, NullSame DEF NullInv
<1>5. 0 \notin delta
  BY <1>1 DEF NullInv, NullGraph
<1>6. NullVisit'
  <2> HIDE DEF delta, x
  <2> QED
    BY <1>2, <1>5 DEF NullVisit, NullInv
<1> QED
  BY <1>2, <1>4, <1>6 DEF NullInv, NullFrame

LEMMA LsConsNull ==
  ASSUME IInv, NullInv, LsCons
  PROVE  NullInv'
<1> DEFINE cid == Min(todo)
           C0  == cplx_cons[cid]
           C   == Updated(C0)
           h   == IF C.type = "load" THEN add_copy_edge(g, hcd_rep, C.dest)
                                     ELSE add_copy_edge(g, C.src, hcd_rep)
<1>1. cid \in DOMAIN cplx_cons /\ C0 \in Constraint /\ g \in Graph /\ n \in Node /\ hcd_rep \in Node
  <2>1. todo \in SUBSET Nat /\ todo # {} /\ todo \subseteq DOMAIN cplx_cons
    BY DEF LsCons, IInv, VisitInv, VisitType
  <2>2. cid \in DOMAIN cplx_cons
    BY <2>1, MinMember
  <2> QED
    BY <2>2 DEF IInv, GraphInv, GraphType, VisitInv, VisitType
<1>2. C.dest \in Node \ {0} /\ C.src \in Node /\ C.type = C0.type
  <2>1. C.dest = get_node_rep(C0.dest) /\ C.src = get_node_rep(C0.src) /\ C.type = C0.type
    BY <1>1 DEF Updated, Constraint
  <2>2. C0.dest \in Node \ {0} /\ C0.src \in Node
    BY <1>1 DEF NullInv, NullVisit, Constraint
  <2> QED
    BY <2>1, <2>2, RepNotNull, RepIsRep DEF IInv, NullInv
<1>3. cplx_cons' = [cplx_cons EXCEPT ![cid] = C] /\ UNCHANGED <<d_points_to, frames>>
  BY DEF LsCons, lcdVars
<1>4. \/ /\ hcd_rep # 0 /\ g' = [h EXCEPT !.cons[n] = @ \ {cid}]
         /\ members' = {} /\ pc' # "member"
      \/ /\ g' = g /\ lsc'.C = C
         /\ members' \subseteq d_points_to \X (Site \cup {NoSite})
  <2> DEFINE ic  == MovedCalls(C0)
             I   == IF CallSites(C0) = {} THEN {} ELSE SitesOf(ic, C)
             dup == C \in cons_seen
             hcd == ~dup /\ hcd_rep # 0 /\ C.off = 0
  <2>1. hcd => /\ g' = [h EXCEPT !.cons[n] = @ \ {cid}] /\ members' = {}
               /\ pc' \in {"abort", "cons"}
    BY DEF LsCons
  <2>2. ~hcd => /\ g' = g /\ lsc' = [C |-> C, cid |-> cid, I |-> I, del |-> dup]
                /\ members' = IF dup THEN (d_points_to \cap ExtNode) \X I ELSE LsMembers(C, I)
    BY DEF LsCons
  <2>3. I \subseteq Site
    BY DEF SitesOf
  <2> HIDE DEF I, h, C, C0, cid
  <2>4. LsMembers(C, I) \subseteq d_points_to \X (Site \cup {NoSite})
    <3>1. \A P, off : Fits(P, off) \subseteq P
      BY DEF Fits
    <3>2. C.off = 0 => LsMembers(C, I) = d_points_to \X {NoSite}
      BY DEF LsMembers
    <3>3. C.off # 0 /\ I = {} =>
            LsMembers(C, I) = (Fits(d_points_to, C.off) \ FuncNode) \X {NoSite}
      BY DEF LsMembers
    <3>4. C.off # 0 /\ I # {} =>
            LsMembers(C, I) =
              ((d_points_to \cap ExtNode) \X I)
              \cup ((Fits(d_points_to \cap FuncNode, C.off) \ ExtNode) \X {NoSite})
      BY DEF LsMembers
    <3> QED
      BY <2>3, <3>1, <3>2, <3>3, <3>4
  <2> QED
    BY <2>1, <2>2, <2>3, <2>4
<1> HIDE DEF C, C0, cid
<1>5. NullGraph(g)'
  <2>1. hcd_rep # 0 => NullGraph(h)
    BY <1>1, <1>2, NullEdge DEF NullInv
  <2>2. h \in [points_to : {h.points_to}, prev_points_to : {h.prev_points_to},
               copy_to : {h.copy_to}, cons : [Node -> SUBSET Nat], rep : {h.rep},
               rank : {h.rank}, vtime : {h.vtime}, hcd_var : {h.hcd_var},
               ind_calls : {h.ind_calls}, nonptr : {h.nonptr}]
    BY <1>1 DEF add_copy_edge, Graph
  <2> HIDE DEF h
  <2>3. g' = [h EXCEPT !.cons[n] = @ \ {cid}] =>
          g'.rep = h.rep /\ g'.points_to = h.points_to /\ g'.copy_to = h.copy_to
    BY <2>2
  <2> QED
    BY <1>4, <2>1, <2>3, NullSame DEF NullInv
<1>6. NullVisit'
  <2>1. \A i \in DOMAIN cplx_cons' : cplx_cons'[i].dest # 0
    BY <1>1, <1>2, <1>3 DEF NullInv, NullVisit
  <2>2. \A m \in members' : m[1] # 0
    BY <1>4 DEF NullInv, NullVisit
  <2>3. pc' = "member" => lsc'.C.dest # 0
    BY <1>2, <1>4
  <2> QED
    BY <1>3, <2>1, <2>2, <2>3 DEF NullInv, NullVisit
<1> QED
  BY <1>3, <1>5, <1>6 DEF NullInv, NullFrame

(* An edge or pointees are added while solve_ls_cons goes over pointees.   *)
LEMMA MemberNull ==
  ASSUME IInv, NullInv, pc = "member", NullGraph(g)', members' \subseteq members,
         UNCHANGED <<cplx_cons, pc, d_points_to, lsc, lcdVars>>
  PROVE  NullInv'
BY DEF NullInv, NullVisit, NullFrame, lcdVars

LEMMA LoadMemberNull ==
  ASSUME IInv, NullInv, NEW m \in members, LoadMember(m)
  PROVE  NullInv'
<1> DEFINE t == get_node_rep(m[1] + lsc.C.off)
<1>1. pc = "member" /\ m[1] + lsc.C.off \in Node /\ lsc.C.dest \in Node \ {0} /\ g \in Graph
  BY DEF LoadMember, IInv, VisitInv, VisitType, LsCall, Constraint, GraphInv, GraphType,
         NullInv, NullVisit
<1>2. t \in Node
  BY <1>1, RepIsRep DEF IInv
<1>3. g' = add_copy_edge(g, t, lsc.C.dest)
  BY DEF LoadMember
<1>4. NullGraph(g)'
  BY <1>1, <1>2, <1>3, NullEdge DEF NullInv
<1> QED
  BY <1>1, <1>4, MemberNull DEF LoadMember, lcdVars

LEMMA StoreMemberNull ==
  ASSUME IInv, NullInv, NEW m \in members, StoreMember(m)
  PROVE  NullInv'
<1> DEFINE t == get_node_rep(m[1] + lsc.C.off)
<1>1. /\ pc = "member" /\ m[1] + lsc.C.off \in Node /\ lsc.C.src \in Node /\ g \in Graph
      /\ m[1] \in Node \ {0} /\ lsc.C.off \in Nat
  BY DEF StoreMember, IInv, VisitInv, VisitType, LsCall, Constraint, GraphInv, GraphType,
         NullInv, NullVisit
<1>2. m[1] + lsc.C.off \in Node \ {0}
  <2>1. \A a \in Node \ {0} : \A k \in Nat : a + k # 0
    BY NodeAssumption
  <2> QED
    BY <1>1, <2>1
<1>3. t \in Node \ {0}
  BY <1>2, RepNotNull DEF NullInv
<1>4. g' = g \/ g' = add_copy_edge(g, lsc.C.src, t)
  BY DEF StoreMember
<1>5. NullGraph(g)'
  BY <1>1, <1>3, <1>4, NullEdge DEF NullInv
<1> QED
  BY <1>1, <1>5, MemberNull DEF StoreMember, lcdVars

LEMMA HandleExtNull ==
  ASSUME IInv, NullInv, NEW m \in members, HandleExt(m)
  PROVE  NullInv'
<1> DEFINE e == ExtEffect[m]
           d == get_node_rep(e.dest)
           s == get_node_rep(e.src)
<1>1. pc = "member" /\ m \in ExtNode \X Site /\ g \in Graph
  BY DEF HandleExt, IInv, VisitInv, GraphInv, GraphType
<1>2. e \in Effect
  BY <1>1, CallAssumption
<1>3. e.kind # "none" => e.dest \in Node \ {0} /\ e.src \in Node \ {0}
  BY <1>1, <1>2, NullAssumption DEF Effect
<1>4. e.kind # "none" => d \in Node \ {0} /\ s \in Node
  BY <1>3, RepNotNull DEF NullInv
<1>5. \/ g' = g
      \/ e.kind = "point" /\ g' = AddPointees(g, d, {e.src})
      \/ e.kind = "copy" /\ g' = add_copy_edge(g, s, d)
  BY <1>2 DEF HandleExt, Effect
<1> HIDE DEF d, s, e
<1>6. NullGraph(g)'
  <2>1. e.kind = "point" => NullGraph(AddPointees(g, d, {e.src}))
    <3> SUFFICES ASSUME e.kind = "point" PROVE NullGraph(AddPointees(g, d, {e.src}))
      OBVIOUS
    <3>1. {e.src} \in SUBSET Node /\ 0 \notin {e.src}
      BY <1>3
    <3> QED
      BY <1>1, <1>4, <3>1, NullAdd DEF NullInv
  <2>2. e.kind = "copy" => NullGraph(add_copy_edge(g, s, d))
    BY <1>1, <1>4, NullEdge DEF NullInv
  <2> QED
    BY <1>5, <2>1, <2>2 DEF NullInv
<1> QED
  BY <1>1, <1>6, MemberNull DEF HandleExt, lcdVars

LEMMA LsDoneNull ==
  ASSUME IInv, NullInv, LsDone
  PROVE  NullInv'
<1>1. g \in Graph
  BY DEF IInv, GraphInv, GraphType
<1>2. g' = g \/ g' = [g EXCEPT !.cons[n] = @ \ {lsc.cid}]
  BY DEF LsDone
<1>3. g'.rep = g.rep /\ g'.points_to = g.points_to /\ g'.copy_to = g.copy_to
  BY <1>1, <1>2 DEF Graph
<1>4. NullGraph(g)'
  BY <1>3, NullSame DEF NullInv
<1> QED
  BY <1>4 DEF LsDone, NullInv, NullVisit, NullFrame, visitVars, lcdVars

LEMMA GepConsNull ==
  ASSUME IInv, NullInv, GepCons
  PROVE  NullInv'
<1> DEFINE cid == Min(todo)
           C0  == cplx_cons[cid]
           C   == Updated(C0)
           P   == Shift(d_points_to, C.off)
<1>1. cid \in DOMAIN cplx_cons /\ C0 \in Constraint /\ g \in Graph /\ n \in Node
  <2>1. todo \in SUBSET Nat /\ todo # {} /\ todo \subseteq DOMAIN cplx_cons
    BY DEF GepCons, IInv, VisitInv, VisitType
  <2>2. cid \in DOMAIN cplx_cons
    BY <2>1, MinMember
  <2> QED
    BY <2>2 DEF IInv, GraphInv, GraphType, VisitInv, VisitType
<1>2. C.dest \in Node \ {0} /\ C.off \in Nat
  <2>1. C.dest = get_node_rep(C0.dest) /\ C.off = C0.off
    BY <1>1 DEF Updated, Constraint
  <2>2. C0.dest \in Node \ {0} /\ C0.off \in Nat
    BY <1>1 DEF NullInv, NullVisit, Constraint
  <2> QED
    BY <2>1, <2>2, RepNotNull DEF NullInv
<1>3. /\ cplx_cons' = [cplx_cons EXCEPT ![cid] = C]
      /\ UNCHANGED <<d_points_to, frames, members>> /\ pc' \in {"cons", "abort"}
      /\ g' = [g EXCEPT !.cons[n] = @ \ {cid}] \/ g' = AddPointees(g, C.dest, P)
  BY DEF GepCons, lcdVars
<1>4. P \in SUBSET Node /\ 0 \notin P
  BY <1>2, ShiftNotNull DEF IInv, VisitInv, VisitType, NullInv, NullVisit
<1> HIDE DEF C, C0, cid, P
<1>5. NullGraph(g)'
  <2>1. NullGraph(AddPointees(g, C.dest, P))
    BY <1>1, <1>2, <1>4, NullAdd DEF NullInv
  <2>2. g' = [g EXCEPT !.cons[n] = @ \ {cid}] =>
          g'.rep = g.rep /\ g'.points_to = g.points_to /\ g'.copy_to = g.copy_to
    BY <1>1 DEF Graph
  <2> QED
    BY <1>3, <2>1, <2>2, NullSame DEF NullInv
<1>6. \A i \in DOMAIN cplx_cons' : cplx_cons'[i].dest # 0
  BY <1>1, <1>2, <1>3 DEF NullInv, NullVisit
<1> QED
  BY <1>3, <1>5, <1>6 DEF NullInv, NullVisit, NullFrame

LEMMA PropNull ==
  ASSUME IInv, NullInv, Prop
  PROVE  NullInv'
<1> DEFINE dests == {get_node_rep(d) : d \in g.copy_to[n]} \ {n}
<1>1. n \in Node /\ d_points_to \in SUBSET Node /\ g \in Graph
  BY DEF IInv, VisitInv, VisitType, GraphInv, GraphType
<1>2. 0 \notin dests
  <2>1. \A d \in g.copy_to[n] : d \in Node \ {0}
    BY <1>1 DEF NullInv, NullGraph, Graph
  <2> QED
    BY <2>1, RepNotNull DEF NullInv
<1>3. g' = [g EXCEPT !.points_to =
              [x \in Node |-> IF x \in dests THEN @[x] \cup d_points_to ELSE @[x]]]
  BY DEF Prop
<1>4. pc' # "member" /\ UNCHANGED <<cplx_cons, d_points_to, members, frames>>
  BY DEF Prop, visitVars, lcdVars
<1> HIDE DEF dests
<1>5. /\ g'.points_to = [x \in Node |-> IF x \in dests THEN g.points_to[x] \cup d_points_to
                                                      ELSE g.points_to[x]]
      /\ g'.rep = g.rep /\ g'.copy_to = g.copy_to
  BY <1>1, <1>3 DEF Graph
<1>6. NullGraph(g)'
  BY <1>2, <1>5, NodeAssumption DEF NullInv, NullGraph, NullVisit
<1> QED
  BY <1>4, <1>6 DEF NullInv, NullVisit, NullFrame

LEMMA MergeNodesNull ==
  ASSUME IInv, NullInv, MergeNodes
  PROVE  NullInv'
<1> DEFINE p == Parent(g, marg[1], marg[2])
           c == Child(g, marg[1], marg[2])
<1>1. g \in Graph /\ marg[1] \in Node /\ marg[2] \in Node
  BY DEF IInv, GraphInv, GraphType, MergeInv, MergeType
<1>2. p \in {marg[1], marg[2]} /\ c \in {marg[1], marg[2]}
  BY DEF Parent, Child
<1>3. \/ g' = g
      \/ g' = Absorb(g, p, c) /\ marg[1] # 0 /\ marg[2] # 0
  BY DEF MergeNodes, Unify, CanMerge
<1>4. pc' # "member" /\ UNCHANGED <<cplx_cons, d_points_to, members, frames>>
  <2>1. pc' = "abort" \/ pc' = "unwind" \/ pc' = pc
    BY DEF MergeNodes
  <2> QED
    BY <2>1 DEF MergeNodes, visitVars, lcdVars
<1> HIDE DEF p, c
<1>5. NullGraph(g)'
  BY <1>1, <1>2, <1>3, NullAbsorb DEF NullInv
<1> QED
  BY <1>4, <1>5 DEF NullInv, NullVisit, NullFrame

LEMMA LcdStartNull ==
  ASSUME IInv, NullInv, LcdStart
  PROVE  NullInv'
<1> DEFINE x == Min(lcd_todo)
<1>1. x \in Node
  <2>1. lcd_todo \in SUBSET Nat /\ lcd_todo # {} /\ lcd_todo \subseteq Node
    BY NodeAssumption DEF LcdStart, IInv, LcdInv, LcdType
  <2> QED
    BY <2>1, MinMember
<1>2. UNCHANGED <<g, cplx_cons, d_points_to, members, lsc>> /\ (pc' = pc \/ pc' \in {"dfs", "abort"})
      /\ (frames' = frames \/ frames' = <<NewFrame(x)>>)
  BY DEF LcdStart, graphVars, visitVars
<1> HIDE DEF x
<1>3. NullFrame(NewFrame(x))
  BY <1>1 DEF NewFrame, NullFrame, NullInv, NullGraph
<1>4. \A k \in DOMAIN frames' : NullFrame(frames'[k])
  BY <1>2, <1>3 DEF NullInv
<1> QED
  BY <1>2, <1>4 DEF NullInv, NullVisit, NullGraph, NullFrame

LEMMA TopNull ==
  ASSUME NEW s \in Seq(DfsFrame), s # <<>>, NEW f \in DfsFrame, NullFrame(f),
         \A k \in DOMAIN s : NullFrame(s[k]),
         NEW t, t = [s EXCEPT ![Len(s)] = f]
  PROVE  \A k \in DOMAIN t : NullFrame(t[k])
BY DEF NullFrame

(* Steps of the search that change the frames only.                        *)
LEMMA SearchNull ==
  ASSUME NullInv, UNCHANGED <<g, cplx_cons, d_points_to, members>>, pc' # "member",
         \A k \in DOMAIN frames' : NullFrame(frames'[k])
  PROVE  NullInv'
BY DEF NullInv, NullVisit, NullGraph

LEMMA RelinkNull ==
  ASSUME NEW f \in DfsFrame, NullFrame(f), NEW d0 \in Node, NEW d \in Node \ {0}
  PROVE  Relink(f, d0, d) \in DfsFrame /\ NullFrame(Relink(f, d0, d))
<1> DEFINE h == Relink(f, d0, d)
<1>1. h \in DfsFrame
  BY RelinkType
<1>2. h.edges = f.edges \ {d0} /\ h.add_copy \subseteq f.add_copy \cup {d} /\ h.waits = FALSE
  BY DEF Relink, DfsFrame
<1> HIDE DEF h
<1>3. NullFrame(h)
  BY <1>2 DEF NullFrame
<1> QED
  BY <1>1, <1>3 DEF h

LEMMA DfsEdgeNull ==
  ASSUME IInv, NullInv, DfsEdge
  PROVE  NullInv'
<1> DEFINE k == Len(frames)
           f == frames[k]
           d0 == Min(f.edges)
           d == get_node_rep(d0)
<1>1. /\ frames \in Seq(DfsFrame) /\ frames # <<>> /\ k \in Nat \ {0} /\ k \in DOMAIN frames
      /\ f \in DfsFrame /\ f.edges \in SUBSET Node /\ f.edges # {} /\ NullFrame(f)
  <2>1. frames \in Seq(DfsFrame) /\ frames # <<>> /\ f.edges # {}
    BY DEF IInv, DfsEdge, LcdInv, LcdType, InLcdDfs
  <2>2. k \in Nat \ {0} /\ k \in DOMAIN frames /\ f \in DfsFrame
    BY <2>1
  <2>3. NullFrame(f)
    BY <2>2 DEF NullInv
  <2> HIDE DEF f, k
  <2> QED
    BY <2>1, <2>2, <2>3 DEF DfsFrame
<1>2. d0 \in Node \ {0}
  <2>1. d0 \in f.edges
    BY <1>1, MinMember, NodeAssumption
  <2> QED
    BY <1>1, <2>1 DEF NullFrame
<1>3. d \in Node \ {0}
  BY <1>2, RepNotNull DEF NullInv
<1>4. UNCHANGED <<g, cplx_cons, d_points_to, members>> /\ pc' \in {"dfs", "abort"}
  BY DEF DfsEdge, graphVars, visitVars
<1>5. \/ frames' = frames
      \/ frames' = [frames EXCEPT ![k].edges = @ \ {d0}, ![k].del_copy = @ \cup {d0}]
      \/ frames' = Append([frames EXCEPT ![k].waits = TRUE, ![k].dest0 = d0], NewFrame(d))
      \/ frames' = [frames EXCEPT ![k] = Relink(f, d0, d)]
  BY DEF DfsEdge
<1>6. \A i \in DOMAIN frames' : NullFrame(frames'[i])
  <2> HIDE DEF d, d0, f
  <2>1. CASE frames' = frames
    BY <2>1 DEF NullInv
  <2>2. CASE frames' = [frames EXCEPT ![k].edges = @ \ {d0}, ![k].del_copy = @ \cup {d0}]
    <3> DEFINE h == [f EXCEPT !.edges = @ \ {d0}, !.del_copy = @ \cup {d0}]
    <3>1. h \in DfsFrame /\ NullFrame(h)
      BY <1>1, <1>2 DEF DfsFrame, NullFrame
    <3>2. frames' = [frames EXCEPT ![k] = h]
      BY <1>1, <2>2 DEF f
    <3> HIDE DEF h
    <3> QED
      BY <1>1, <3>1, <3>2, TopNull DEF NullInv
  <2>3. CASE frames' = Append([frames EXCEPT ![k].waits = TRUE, ![k].dest0 = d0], NewFrame(d))
    <3> DEFINE h == [f EXCEPT !.waits = TRUE, !.dest0 = d0]
               t == [frames EXCEPT ![k] = h]
    <3>1. h \in DfsFrame /\ NullFrame(h)
      BY <1>1, <1>2 DEF DfsFrame, NullFrame
    <3>2. frames' = Append(t, NewFrame(d))
      BY <1>1, <2>3 DEF f
    <3>3. NullFrame(NewFrame(d))
      BY <1>3 DEF NewFrame, NullFrame, NullInv, NullGraph
    <3> HIDE DEF h
    <3>4. t \in Seq(DfsFrame) /\ \A i \in DOMAIN t : NullFrame(t[i])
      BY <1>1, <3>1, TopNull DEF NullInv
    <3> HIDE DEF t, k
    <3> QED
      BY <3>2, <3>3, <3>4
  <2>4. CASE frames' = [frames EXCEPT ![k] = Relink(f, d0, d)]
    <3> DEFINE h == Relink(f, d0, d)
    <3>1. h \in DfsFrame /\ NullFrame(h)
      BY <1>1, <1>2, <1>3, RelinkNull
    <3> HIDE DEF h
    <3> QED
      BY <1>1, <2>4, <3>1, TopNull DEF NullInv, h
  <2> QED
    BY <1>5, <2>1, <2>2, <2>3, <2>4
<1> QED
  BY <1>4, <1>6, SearchNull

LEMMA DfsReturnNull ==
  ASSUME IInv, NullInv, DfsReturn
  PROVE  NullInv'
<1> DEFINE k == Len(frames)
           f == frames[k]
           d == get_node_rep(f.dest0)
<1>1. /\ frames \in Seq(DfsFrame) /\ frames # <<>> /\ k \in Nat \ {0} /\ k \in DOMAIN frames
      /\ f \in DfsFrame /\ f.n \in Node /\ f.dest0 \in Node \ {0} /\ NullFrame(f)
  <2>1. frames \in Seq(DfsFrame) /\ frames # <<>> /\ f.waits
    BY DEF IInv, DfsReturn, LcdInv, LcdType, InLcdDfs
  <2>2. k \in Nat \ {0} /\ k \in DOMAIN frames /\ f \in DfsFrame
    BY <2>1
  <2>3. NullFrame(f)
    BY <2>2 DEF NullInv
  <2> HIDE DEF f, k
  <2> QED
    BY <2>1, <2>2, <2>3 DEF DfsFrame, NullFrame
<1>2. d \in Node \ {0}
  BY <1>1, RepNotNull DEF NullInv
<1>3. UNCHANGED <<g, cplx_cons, d_points_to, members>> /\ pc' \in {"dfs", "abort"}
  BY DEF DfsReturn, graphVars, visitVars
<1>4. g.copy_to[f.n] \in SUBSET Node /\ 0 \notin g.copy_to[f.n]
  BY <1>1 DEF IInv, GraphInv, GraphType, Graph, NullInv, NullGraph
<1>5. PICK late \in SUBSET {x \in g.copy_to[f.n] \ f.edges : x > f.dest0} :
        frames' = [frames EXCEPT ![k] = [Relink(f, f.dest0, d) EXCEPT !.edges = @ \cup late]]
  BY DEF DfsReturn
<1> DEFINE r == Relink(f, f.dest0, d)
           h == [r EXCEPT !.edges = @ \cup late]
<1>6. late \in SUBSET Node /\ 0 \notin late
  BY <1>4
<1> HIDE DEF f, d
<1>7. r \in DfsFrame /\ NullFrame(r)
  BY <1>1, <1>2, RelinkNull
<1> HIDE DEF r
<1>8. h \in DfsFrame /\ NullFrame(h)
  BY <1>6, <1>7 DEF DfsFrame, NullFrame
<1>9. frames' = [frames EXCEPT ![k] = h]
  BY <1>5 DEF r
<1> HIDE DEF h
<1>10. \A i \in DOMAIN frames' : NullFrame(frames'[i])
  BY <1>1, <1>8, <1>9, TopNull DEF NullInv
<1> QED
  BY <1>3, <1>10, SearchNull

LEMMA LeaveNull ==
  ASSUME IInv, NullInv, frames # <<>>, Leave
  PROVE  (\A k \in DOMAIN frames' : NullFrame(frames'[k])) /\ pc' \in {"lcd", "dfs"}
<1>1. /\ frames' \in Seq(DfsFrame) /\ Len(frames') = Len(frames) - 1
      /\ Len(frames) \in Nat \ {0} /\ frames \in Seq(DfsFrame)
      /\ \A i \in 1 .. (Len(frames) - 1) : frames'[i] = frames[i]
  BY FrontLast DEF Leave, IInv, LcdInv, LcdType
<1> QED
  BY <1>1 DEF NullInv, Leave

LEMMA DfsDoneNull ==
  ASSUME IInv, NullInv, DfsDone
  PROVE  NullInv'
<1> DEFINE f == Last(frames)
           E == (g.copy_to[f.n] \ f.del_copy) \cup f.add_copy
<1>1. /\ frames \in Seq(DfsFrame) /\ frames # <<>> /\ f = frames[Len(frames)] /\ f \in DfsFrame
      /\ Len(frames) \in DOMAIN frames
  BY FrontLast DEF IInv, DfsDone, LcdInv, LcdType, InLcdDfs
<1>2. f.n \in Node /\ NullFrame(f) /\ g \in Graph
  BY <1>1 DEF DfsFrame, NullInv, IInv, GraphInv, GraphType
<1>3. g' = [g EXCEPT !.copy_to[f.n] = E]
  BY DEF DfsDone
<1>4. 0 \notin E
  BY <1>2 DEF NullFrame, NullInv, NullGraph
<1> HIDE DEF E, f
<1>5. g'.rep = g.rep /\ g'.points_to = g.points_to /\ g'.copy_to = [g.copy_to EXCEPT ![f.n] = E]
  BY <1>2, <1>3 DEF Graph
<1>6. NullGraph(g)'
  BY <1>2, <1>4, <1>5 DEF NullInv, NullGraph, Graph
<1>7. UNCHANGED <<cplx_cons, d_points_to, members>> 
      /\ (Leave \/ (pc' = "collapse" /\ frames' = frames))
  BY DEF DfsDone, visitVars
<1>8. (\A k \in DOMAIN frames' : NullFrame(frames'[k])) /\ pc' # "member"
  BY <1>1, <1>7, LeaveNull DEF NullInv
<1> QED
  BY <1>6, <1>7, <1>8 DEF NullInv, NullVisit

(* The innermost frame goes on with another node, or notes that it merged. *)
LEMMA CollapseNull ==
  ASSUME IInv, NullInv, CollapseNode \/ ReturnToCollapse
  PROVE  NullInv'
<1> DEFINE k == Len(frames)
           f == frames[k]
<1>1. /\ frames \in Seq(DfsFrame) /\ frames # <<>> /\ k \in DOMAIN frames
      /\ f \in DfsFrame /\ NullFrame(f) /\ marg[1] \in Node
  BY DEF IInv, CollapseNode, ReturnToCollapse, LcdInv, LcdType, InLcdDfs, NullInv, MergeInv, MergeType
<1>2. UNCHANGED <<g, cplx_cons, d_points_to, members>> /\ pc' # "member"
  <2>1. pc' = pc \/ pc' \in {"merge", "collapse"}
    BY DEF CollapseNode, ReturnToCollapse
  <2>2. pc # "member"
    BY DEF CollapseNode, ReturnToCollapse
  <2> QED
    BY <2>1, <2>2 DEF CollapseNode, ReturnToCollapse, graphVars, visitVars
<1>3. \/ frames' = [frames EXCEPT ![k] = [f EXCEPT !.chg = TRUE]]
      \/ frames' = [frames EXCEPT ![k] = [f EXCEPT !.n = marg[1]]]
  BY <1>1 DEF CollapseNode, ReturnToCollapse
<1>4. /\ [f EXCEPT !.chg = TRUE] \in DfsFrame /\ [f EXCEPT !.n = marg[1]] \in DfsFrame
      /\ NullFrame([f EXCEPT !.chg = TRUE]) /\ NullFrame([f EXCEPT !.n = marg[1]])
  BY <1>1 DEF DfsFrame, NullFrame
<1> HIDE DEF f
<1>5. \A i \in DOMAIN frames' : NullFrame(frames'[i])
  BY <1>1, <1>3, <1>4, TopNull DEF NullInv
<1> QED
  BY <1>2, <1>5, SearchNull

LEMMA CollapsedNull ==
  ASSUME IInv, NullInv, Collapsed
  PROVE  NullInv'
<1>1. frames # <<>>
  BY DEF IInv, Collapsed, LcdInv, InLcdDfs
<1>2. UNCHANGED <<g, cplx_cons, d_points_to, members>> /\ Leave
  BY DEF Collapsed, graphVars, visitVars
<1> QED
  BY <1>1, <1>2, LeaveNull, SearchNull

LEMMA NextNull ==
  ASSUME IInv, NullInv, [Next]_vars
  PROVE  NullInv'
<1>1. CASE SwapIfEmpty \/ Converge \/ (\E e \in curr : PopStale(e)) \/ UNCHANGED vars
  BY <1>1, NullKept DEF SwapIfEmpty, Converge, PopStale, vars, graphVars, visitVars, lcdVars
<1>2. CASE (\E m \in members : HcdMember(m)) \/ HcdDone \/ NextPhase
  BY <1>2, NullKept DEF HcdMember, HcdDone, NextPhase, graphVars, lcdVars
<1>3. CASE MergeReturn \/ ReturnToHcd \/ GiveUp \/ KeepGoing
  BY <1>3, NullKept DEF MergeReturn, ReturnToHcd, GiveUp, KeepGoing, graphVars, visitVars, lcdVars
<1>4. CASE RunLcd \/ LcdDone \/ Finish
  BY <1>4, NullKept DEF RunLcd, LcdDone, Finish, graphVars, visitVars, lcdVars
<1> QED
  BY <1>1, <1>2, <1>3, <1>4, VisitNull, LsConsNull, LoadMemberNull, StoreMemberNull, HandleExtNull,
     LsDoneNull, GepConsNull, PropNull, MergeNodesNull, LcdStartNull, DfsEdgeNull, DfsReturnNull,
     DfsDoneNull, CollapseNull, CollapsedNull
     DEF Next, Loop, SolveNode, Merge, Lcd
=============================================================================
