--------------------------- MODULE PrecisionProofs ---------------------------
(***************************************************************************)
(* The solver stays precise: nothing outside the least solution gets into  *)
(* a points-to set.  A solution S in which the cycles that cons_opt found  *)
(* are cycles bounds the graph (BelowInv), and with respect to such an S   *)
(* the lazy cycle detection keeps Tarjan's invariant (LcdBelowInv), so     *)
(* that it merges only nodes with equal sets.  Both parts are proved one   *)
(* action at a time; S is the least solution in the end.                   *)
(***************************************************************************)
EXTENDS SolverProofs

-----------------------------------------------------------------------------
(* The operators of the graph keep it below S.                             *)

LEMMA UnderParts ==
  ASSUME NEW gr \in Graph, NEW hr, NEW S \in Assignments, Under(gr, S),
         hr.rep = gr.rep, hr.hcd_var = gr.hcd_var,
         \A x \in Node : hr.points_to[x] \subseteq S[x]
                         /\ \A d \in hr.copy_to[x] : S[x] \subseteq S[d]
  PROVE  Under(hr, S)
BY DEF Under

LEMMA UnderPointees ==
  ASSUME NEW gr \in Graph, NEW S \in Assignments, Under(gr, S),
         NEW d \in Node, NEW P, P \subseteq S[d]
  PROVE  Under(AddPointees(gr, d, P), S)
<1> DEFINE hr == AddPointees(gr, d, P)
<1>1. hr.rep = gr.rep /\ hr.hcd_var = gr.hcd_var /\ hr.copy_to = gr.copy_to
      /\ hr.points_to = [gr.points_to EXCEPT ![d] = @ \cup P]
  BY DEF AddPointees, Graph
<1> HIDE DEF hr
<1>2. \A x \in Node : hr.points_to[x] \subseteq S[x] /\ \A e \in hr.copy_to[x] : S[x] \subseteq S[e]
  BY <1>1 DEF Under, Graph
<1>3. Under(hr, S)
  BY <1>1, <1>2, UnderParts
<1> QED
  BY <1>3 DEF hr

LEMMA UnderEdge ==
  ASSUME NEW gr \in Graph, NEW S \in Assignments, Under(gr, S),
         NEW s \in Node, NEW d \in Node, Leads(S, s, d)
  PROVE  Under(add_copy_edge(gr, s, d), S)
<1>1. CASE i2p \in {s, d} \/ s = d \/ d \in gr.copy_to[s]
  BY <1>1 DEF add_copy_edge
<1>2. CASE ~(i2p \in {s, d} \/ s = d \/ d \in gr.copy_to[s])
  <2> DEFINE hr == add_copy_edge(gr, s, d)
  <2>1. hr = [gr EXCEPT !.copy_to[s] = @ \cup {d},
                        !.points_to[d] = @ \cup gr.points_to[s]]
    BY <1>2 DEF add_copy_edge
  <2> HIDE DEF hr
  <2>2. hr.rep = gr.rep /\ hr.hcd_var = gr.hcd_var
        /\ hr.copy_to = [gr.copy_to EXCEPT ![s] = @ \cup {d}]
        /\ hr.points_to = [gr.points_to EXCEPT ![d] = @ \cup gr.points_to[s]]
    BY <2>1 DEF Graph
  <2>3. S[s] \subseteq S[d]
    BY <1>2 DEF Leads
  <2>4. ASSUME NEW x \in Node
        PROVE  hr.points_to[x] \subseteq S[x] /\ \A e \in hr.copy_to[x] : S[x] \subseteq S[e]
    BY <2>2, <2>3 DEF Under, Graph
  <2>5. Under(hr, S)
    BY <2>2, <2>4, UnderParts
  <2> QED
    BY <2>5 DEF hr
<1> QED
  BY <1>1, <1>2

LEMMA UnderAbsorb ==
  ASSUME NEW gr \in Graph, NEW S \in Assignments, Under(gr, S),
         NEW p \in Node, NEW c \in Node, p # c, is_rep(gr, p), is_rep(gr, c),
         S[p] = S[c], {p, c} \cap (IntParams \cup {i2p}) = {}
  PROVE  Under(Absorb(gr, p, c), S)
<1> DEFINE hr == Absorb(gr, p, c)
<1>1. /\ hr.rep = [v \in Node |-> IF gr.rep[v] = c THEN p ELSE gr.rep[v]]
      /\ hr.points_to = [gr.points_to EXCEPT ![p] = @ \cup gr.points_to[c], ![c] = {}]
      /\ hr.copy_to = [gr.copy_to EXCEPT ![p] = (@ \cup gr.copy_to[c]) \ {p, c},
                                         ![c] = {}]
      /\ hr.hcd_var = [gr.hcd_var EXCEPT ![p] = IF @ = 0 THEN gr.hcd_var[c] ELSE @,
                                         ![c] = 0]
  BY DEF Absorb, MergedPointees, MergedEdges, MergedHcd
<1> HIDE DEF hr
<1>2. \A x \in Node : hr.rep[x] = IF gr.rep[x] = c THEN p ELSE gr.rep[x]
  BY <1>1
<1>3. \A x \in Node : hr.points_to[x] \subseteq S[x] /\ S[hr.rep[x]] = S[x]
  <2>1. \A x \in Node : hr.points_to[x] = IF x = c THEN {}
                          ELSE IF x = p THEN gr.points_to[p] \cup gr.points_to[c]
                          ELSE gr.points_to[x]
    BY <1>1 DEF Graph
  <2> QED
    BY <1>2, <2>1 DEF Under
<1>4. \A x \in Node : \A d \in hr.copy_to[x] : S[x] \subseteq S[d]
  <2>1. \A x \in Node : hr.copy_to[x] = IF x = c THEN {}
                          ELSE IF x = p THEN (gr.copy_to[p] \cup gr.copy_to[c]) \ {p, c}
                          ELSE gr.copy_to[x]
    BY <1>1 DEF Graph
  <2> QED
    BY <2>1 DEF Under
<1>5. ASSUME NEW x \in Node, hr.hcd_var[x] # 0
      PROVE  CycleVar(S, x, hr.hcd_var[x])
  <2>1. \/ x = p /\ gr.hcd_var[p] # 0 /\ hr.hcd_var[x] = gr.hcd_var[p]
        \/ x = p /\ gr.hcd_var[c] # 0 /\ hr.hcd_var[x] = gr.hcd_var[c]
        \/ gr.hcd_var[x] # 0 /\ hr.hcd_var[x] = gr.hcd_var[x]
    BY <1>1, <1>5 DEF Graph
  <2> QED
    BY <2>1 DEF Under, CycleVar
<1>6. \A t \in IntParams \cup {i2p} : \A x \in Node : hr.rep[x] = t <=> x = t
  BY <1>2 DEF Under, is_rep
<1>7. Under(hr, S)
  BY <1>3, <1>4, <1>5, <1>6 DEF Under
<1> QED
  BY <1>7 DEF hr

-----------------------------------------------------------------------------
(* What a step reads and writes, of BelowInv.                              *)

LEMMA CycleVarRep ==
  ASSUME NEW gr \in Graph, NEW S \in Assignments, Under(gr, S),
         NEW x \in Node, NEW w \in Node, CycleVar(S, x, w)
  PROVE  CycleVar(S, x, gr.rep[w])
<1>1. S[gr.rep[w]] = S[w] /\ gr.rep[w] \notin IntParams
  BY DEF Under, CycleVar, Graph
<1> QED
  BY <1>1 DEF CycleVar

LEMMA BelowRest ==
  ASSUME IInv, NEW S, BelowInv(S), sys' = sys, Under(g', S),
         \A x \in lcd_starts' : S[x] # {}, pc # "abort",
         UNCHANGED <<d_points_to, n>>,
         pc' \notin {"hcd", "cons", "member", "merge", "unwind"}
  PROVE  BelowInv(S)'
<1>1. FaithfulSolution(S)' /\ BelowGraph(S)'
  BY DEF BelowInv, FaithfulSolution, BelowGraph
<1>2. VisitBelow(S)'
  BY DEF BelowInv, VisitBelow, Sweeping
<1>3. MergeBelow(S)'
  BY DEF MergeBelow
<1> QED
  BY <1>1, <1>2, <1>3 DEF BelowInv

LEMMA GraphAbove ==
  ASSUME IInv, NEW S, BelowInv(S)
  PROVE  /\ g \in Graph /\ Canonical(g) /\ S \in Assignments /\ Under(g, S) /\ sys \in System
         /\ \A x \in Node : g.points_to[x] \subseteq S[x] /\ S[g.rep[x]] = S[x]
         /\ \A x \in Node : g.rep[x] \in Node /\ g.copy_to[x] \subseteq Node
  BY CanonicalGraph DEF IInv, BelowInv, FaithfulSolution, BelowGraph, Under, GraphInv, GraphType, Graph

LEMMA OtherBelow ==
  ASSUME IInv, NEW S, BelowInv(S),
         \/ SwapIfEmpty \/ Converge \/ \E e \in curr : PopStale(e)
         \/ GiveUp \/ KeepGoing \/ Finish
         \/ RunLcd \/ LcdStart \/ LcdDone \/ DfsEdge \/ DfsReturn \/ Collapsed
         \/ ReturnToCollapse
  PROVE  BelowInv(S)'
<1>0. Under(g, S) /\ \A x \in lcd_starts : S[x] # {}
  BY DEF BelowInv, BelowGraph
<1> USE DEF graphVars, visitVars
<1>1. CASE SwapIfEmpty \/ Converge \/ (\E e \in curr : PopStale(e)) \/ GiveUp \/ KeepGoing
           \/ Finish \/ ReturnToCollapse
  <2>1. UNCHANGED <<sys, g, d_points_to, n, lcd_starts>> /\ pc # "abort"
        /\ pc' \notin {"hcd", "cons", "member", "merge", "unwind"}
    BY <1>1, SMTT(30) DEF SwapIfEmpty, Converge, PopStale, GiveUp, KeepGoing, Finish, ReturnToCollapse
  <2> QED
    BY <1>0, <2>1, BelowRest
<1>2. CASE RunLcd \/ LcdStart \/ DfsReturn \/ Collapsed
  <2>1. UNCHANGED <<sys, g, d_points_to, n, lcd_starts>> /\ pc # "abort"
        /\ pc' \notin {"hcd", "cons", "member", "merge", "unwind"}
    BY <1>2 DEF RunLcd, LcdStart, DfsReturn, Collapsed, Leave
  <2> QED
    BY <1>0, <2>1, BelowRest
<1>3. CASE LcdDone
  <2>1. UNCHANGED <<sys, g, d_points_to, n>> /\ pc # "abort" /\ lcd_starts' = {}
        /\ pc' \notin {"hcd", "cons", "member", "merge", "unwind"}
    BY <1>3 DEF LcdDone
  <2> QED
    BY <1>0, <2>1, BelowRest
<1>4. CASE DfsEdge
  <2>1. UNCHANGED <<sys, g, d_points_to, n, lcd_starts>> /\ pc = "dfs"
    BY <1>4, SMTT(30) DEF DfsEdge
  <2>2. pc' \in {"dfs", "abort"}
    BY <1>4 DEF DfsEdge
  <2> QED
    BY <1>0, <2>1, <2>2, BelowRest, SMTT(30)
<1> QED
  BY <1>1, <1>2, <1>3, <1>4

-----------------------------------------------------------------------------
(* BelowInv and the actions of solve_node: hybrid cycle detection, the     *)
(* complex constraints, the external calls and the propagation.            *)

LEMMA PropBelow ==
  ASSUME IInv, NEW S, BelowInv(S), Prop
  PROVE  BelowInv(S)'
<1> DEFINE dests == {get_node_rep(d) : d \in g.copy_to[n]} \ {n}
           h == [g EXCEPT !.points_to =
                   [x \in Node |-> IF x \in dests THEN @[x] \cup d_points_to ELSE @[x]]]
           equal == {d \in dests : /\ <<n, d>> \notin lcd_edges
                                   /\ g.points_to[n] # {}
                                   /\ g.points_to[d] = g.points_to[n]}
<1>1. /\ UNCHANGED <<sys, d_points_to, n>> /\ pc = "prop" /\ pc' \in {"abort", "check"}
      /\ g' = h /\ lcd_starts' = lcd_starts \cup {x \in {n} : equal # {}}
      /\ n \in Node /\ d_points_to \subseteq S[n]
  BY DEF Prop, visitVars, IInv, VisitInv, VisitType, BelowInv, VisitBelow
<1>2. \A d \in dests : d \in Node /\ S[n] \subseteq S[d]
  BY <1>1, GraphAbove DEF Under, get_node_rep
<1>3. equal # {} => S[n] # {}
  BY <1>1, GraphAbove
<1>4. \A x \in lcd_starts' : S[x] # {}
  BY <1>1, <1>3 DEF BelowInv, BelowGraph
<1> HIDE DEF dests, equal
<1>5. /\ h.rep = g.rep /\ h.hcd_var = g.hcd_var /\ h.copy_to = g.copy_to
      /\ h.points_to = [x \in Node |-> IF x \in dests THEN g.points_to[x] \cup d_points_to
                                                      ELSE g.points_to[x]]
  BY GraphAbove DEF Graph
<1> HIDE DEF h
<1>6. Under(h, S)
  <2>1. ASSUME NEW x \in Node
        PROVE  h.points_to[x] \subseteq S[x] /\ \A d \in h.copy_to[x] : S[x] \subseteq S[d]
    <3>1. h.points_to[x] \subseteq S[x]
      BY <1>1, <1>2, <1>5, GraphAbove
    <3>2. \A d \in h.copy_to[x] : S[x] \subseteq S[d]
      BY <1>5, GraphAbove DEF Under
    <3> QED
      BY <3>1, <3>2
  <2> QED
    BY <1>5, <2>1, GraphAbove, UnderParts
<1> QED
  BY <1>1, <1>4, <1>6, BelowRest

LEMMA VisitBelowStep ==
  ASSUME IInv, NEW S, BelowInv(S), NEW e \in curr, Visit(e)
  PROVE  BelowInv(S)'
<1> DEFINE x == e[1]
           delta == g.points_to[x] \ g.prev_points_to[x]
<1>1. x \in Node /\ delta \subseteq S[x]
  BY GraphAbove DEF IInv, WorkType, Heaps
<1>2. /\ UNCHANGED <<sys, lcd_starts>> /\ pc' \in {"check", "hcd"}
      /\ n' = x /\ d_points_to' = delta /\ mret' = mret
      /\ g'.rep = g.rep /\ g'.hcd_var = g.hcd_var /\ g'.copy_to = g.copy_to
      /\ g'.points_to = g.points_to
  <2>1. UNCHANGED <<sys, lcd_starts>> /\ n' = x /\ d_points_to' = delta /\ mret' = mret
    BY DEF Visit, mergeVars
  <2>2. pc' \in {"check", "hcd"}
    BY DEF Visit
  <2>3. \/ g' = [g EXCEPT !.vtime[x] = vtime]
        \/ g' = [g EXCEPT !.vtime[x] = vtime, !.prev_points_to[x] = g.points_to[x]]
    BY DEF Visit
  <2> HIDE DEF x, delta
  <2>4. /\ g'.rep = g.rep /\ g'.hcd_var = g.hcd_var /\ g'.copy_to = g.copy_to
        /\ g'.points_to = g.points_to
    <3>1. CASE g' = [g EXCEPT !.vtime[x] = vtime]
      BY <3>1, GraphAbove DEF Graph
    <3>2. CASE g' = [g EXCEPT !.vtime[x] = vtime, !.prev_points_to[x] = g.points_to[x]]
      BY <3>2 DEF IInv, GraphInv, GraphType, Graph
    <3> QED
      BY <2>3, <3>1, <3>2
  <2> QED
    BY <2>1, <2>2, <2>4
<1>3. FaithfulSolution(S)' /\ BelowGraph(S)'
  BY <1>2, GraphAbove, UnderParts DEF BelowInv, FaithfulSolution, BelowGraph, Under
<1>4. pc' = "hcd" => /\ members' \subseteq delta \X {NoSite}
                     /\ (members' # {} \/ hcd_rep' # 0) => CycleVar(S, x, hcd_rep')
  <2>1. CASE delta = {}
    BY <2>1 DEF Visit
  <2>2. CASE delta # {} /\ g.hcd_var[x] = 0
    BY <2>2 DEF Visit
  <2>3. CASE delta # {} /\ g.hcd_var[x] # 0
    <3>1. hcd_rep' = g.rep[g.hcd_var[x]] /\ members' = delta \X {NoSite}
      BY <2>3 DEF Visit, get_node_rep
    <3>2. CycleVar(S, x, g.hcd_var[x]) /\ g.hcd_var[x] \in Node
      BY <1>1, <2>3, GraphAbove DEF Under, Graph
    <3>3. CycleVar(S, x, hcd_rep')
      BY <1>1, <3>1, <3>2, GraphAbove, CycleVarRep
    <3> QED
      BY <3>1, <3>3
  <2> QED
    BY <2>1, <2>2, <2>3
<1> HIDE DEF x, delta
<1>5. VisitBelow(S)'
  BY <1>1, <1>2, <1>4 DEF VisitBelow, Sweeping
<1>6. MergeBelow(S)'
  BY <1>2 DEF MergeBelow
<1> QED
  BY <1>3, <1>5, <1>6 DEF BelowInv

LEMMA HcdMemberBelow ==
  ASSUME IInv, NEW S, BelowInv(S), NEW m \in members, HcdMember(m)
  PROVE  BelowInv(S)'
<1>1. /\ UNCHANGED <<sys, g, lcd_starts, n, d_points_to, hcd_rep, frames>>
      /\ pc = "hcd" /\ members' = members \ {m}
      /\ n \in Node /\ hcd_rep \in Node
  BY DEF HcdMember, graphVars, lcdVars, IInv, VisitInv, VisitType
<1>2. FaithfulSolution(S)' /\ BelowGraph(S)'
  BY <1>1 DEF BelowInv, FaithfulSolution, BelowGraph
<1>3. /\ members \subseteq d_points_to \X {NoSite} /\ CycleVar(S, n, hcd_rep)
      /\ d_points_to \subseteq S[n]
  BY <1>1 DEF BelowInv, VisitBelow
<1>4. m[1] \in S[n] /\ m[1] \in Node
  BY <1>3 DEF IInv, VisitInv, VisitType
<1> DEFINE x == get_node_rep(m[1])
<1>5. CASE x \in {hcd_rep, i2p}
  <2>1. pc' = pc
    BY <1>5 DEF HcdMember
  <2> QED
    BY <1>1, <1>2, <1>3, <2>1 DEF BelowInv, VisitBelow, MergeBelow, Sweeping
<1>6. CASE x \notin {hcd_rep, i2p}
  <2>1. pc' = "merge" /\ marg' = <<hcd_rep, x>> /\ mframes' = <<>> /\ mret' = "hcd"
    BY <1>6 DEF HcdMember
  <2>2. m[1] # i2p /\ S[x] = S[m[1]]
    BY <1>4, <1>6, GraphAbove DEF Under, get_node_rep
  <2>3. S[hcd_rep] = S[x]
    BY <1>3, <1>4, <2>2 DEF CycleVar
  <2>4. hcd_rep \notin IntParams
    BY <1>3 DEF CycleVar
  <2>5. x \notin IntParams
    <3>1. ASSUME x \in IntParams PROVE m[1] = x
      BY <1>4, <3>1, GraphAbove DEF Under, get_node_rep
    <3> QED
      BY <1>1, <1>4, <3>1 DEF BelowInv, FaithfulSolution, Faithful
  <2> HIDE DEF x
  <2>6. VisitBelow(S)'
    BY <1>1, <1>3, <2>1 DEF VisitBelow, Sweeping
  <2>7. MergeBelow(S)'
    BY <1>1, <2>1, <2>3, <2>4, <2>5 DEF MergeBelow, Caller
  <2> QED
    BY <1>2, <2>6, <2>7 DEF BelowInv
<1> QED
  BY <1>5, <1>6

LEMMA SweepBelow ==
  ASSUME IInv, NEW S, BelowInv(S), HcdDone \/ NextPhase
  PROVE  BelowInv(S)'
<1>1. /\ UNCHANGED <<sys, g, lcd_starts, n, d_points_to, hcd_rep>>
      /\ pc \in {"hcd", "cons"} /\ pc' \in {"cons", "abort", "prop"}
  BY DEF HcdDone, NextPhase, graphVars
<1>2. FaithfulSolution(S)' /\ BelowGraph(S)'
  BY <1>1 DEF BelowInv, FaithfulSolution, BelowGraph
<1>3. VisitBelow(S)'
  BY <1>1 DEF BelowInv, VisitBelow, Sweeping
<1>4. MergeBelow(S)'
  BY <1>1 DEF MergeBelow
<1> QED
  BY <1>2, <1>3, <1>4 DEF BelowInv

LEMMA MeansSame ==
  ASSUME IInv, ConsInv, NEW S, BelowInv(S),
         NEW C \in Constraint, is_rep(g, C.dest), is_rep(g, C.src),
         NEW K \in Range(sys.cons), SameCons(C, K), C.type \in {"load", "store", "gep"}
  PROVE  /\ C.type = "gep" => Shift(S[C.src], C.off) \subseteq S[C.dest]
         /\ C.type = "load" =>
              \A t \in Targets(S[C.src], C, IsCall(sys, K)) : Leads(S, t, C.dest)
         /\ C.type = "store" =>
              \A t \in Targets(S[C.dest], C, IsCall(sys, K)) : Leads(S, C.src, t)
<1>1. /\ K \in Constraint /\ K.src \in Node /\ K.dest \in Node /\ sys \in System
      /\ C.src \in Node /\ C.dest \in Node /\ S \in Assignments /\ IsSolution(sys, S)
  BY ConsTyped, GraphAbove DEF Constraint, BelowInv, FaithfulSolution
<1>2. C.type = K.type /\ C.off = K.off /\ C.dest = g.rep[K.dest] /\ C.src = g.rep[K.src]
  BY DEF SameCons, is_rep
<1>3. S[C.dest] = S[K.dest] /\ S[C.src] = S[K.src]
  BY <1>1, <1>2, GraphAbove
<1>4. i2p \notin {K.dest, K.src}
  BY <1>2 DEF ConsInv, WellFormed
<1>5. i2p \notin {C.dest, C.src}
  BY <1>1, <1>2, <1>4, GraphAbove DEF Under
<1>6. \A P : Targets(P, C, IsCall(sys, K)) = Targets(P, K, IsCall(sys, K))
  BY <1>2 DEF Targets
<1>7. /\ K.type = "gep" => Shift(S[K.src], K.off) \subseteq S[K.dest]
      /\ K.type = "load" =>
              \A t \in Targets(S[K.src], K, IsCall(sys, K)) : Leads(S, t, K.dest)
      /\ K.type = "store" =>
              \A t \in Targets(S[K.dest], K, IsCall(sys, K)) : Leads(S, K.src, t)
  BY <1>1, SolutionMeans
<1>8. \A t : /\ Leads(S, t, K.dest) => Leads(S, t, C.dest)
             /\ Leads(S, K.src, t) => Leads(S, C.src, t)
  BY <1>3, <1>4 DEF Leads
<1> QED
  BY <1>2, <1>3, <1>6, <1>7, <1>8

LEMMA GepConsBelow ==
  ASSUME IInv, ConsInv, NEW S, BelowInv(S), GepCons
  PROVE  BelowInv(S)'
<1> DEFINE cid == Min(todo)
           C == Updated(cplx_cons[cid])
           h == AddPointees(g, C.dest, Shift(d_points_to, C.off))
<1>1. cid \in todo /\ cid \in DOMAIN cplx_cons /\ n \in Node /\ d_points_to \subseteq S[n]
  BY MinMember DEF IInv, GepCons, VisitInv, VisitType, BelowInv, VisitBelow
<1>2. /\ UNCHANGED <<sys, lcd_starts, n, d_points_to, hcd_rep>>
      /\ pc = "cons" /\ pc' \in {"cons", "abort"} /\ phase = "gep"
      /\ g' = h \/ g' = [g EXCEPT !.cons[n] = @ \ {cid}]
  BY DEF GepCons
<1>3. /\ C \in Constraint /\ is_rep(g, C.dest) /\ is_rep(g, C.src)
      /\ C.type = "gep" /\ SameCons(C, sys.cons[cid]) /\ C.src = n
      /\ C.dest \in Node /\ C.off \in Nat
  <2>1. C.type = cplx_cons[cid].type /\ C.off = cplx_cons[cid].off /\ C \in Constraint
        /\ is_rep(g, C.dest) /\ is_rep(g, C.src) /\ cplx_cons[cid] \in Constraint
    BY <1>1, UpdatedCons DEF IInv
  <2>2. cplx_cons[cid].type = "gep" /\ cid \in g.cons[n]
    BY <1>1, <1>2 DEF ConsInv, SweepInv, Sweeping
  <2>3. g.rep[cplx_cons[cid].src] = n
    BY <1>1, <2>2 DEF IInv, GraphInv, ListsCurrent, Base
  <2>4. C.src = n /\ C.dest = g.rep[cplx_cons[cid].dest]
    BY <2>1, <2>3 DEF Updated, get_node_rep, Constraint
  <2>5. SameCons(cplx_cons[cid], sys.cons[cid])
    BY <1>1 DEF ConsInv, ConsSame
  <2> QED
    BY <2>1, <2>2, <2>3, <2>4, <2>5 DEF SameCons, is_rep, Constraint
<1>4. sys.cons[cid] \in Range(sys.cons)
  BY <1>1 DEF ConsInv, ConsSame, Range
<1>5. Shift(S[n], C.off) \subseteq S[C.dest]
  BY <1>3, <1>4, MeansSame
<1>6. Shift(d_points_to, C.off) \subseteq S[C.dest]
  BY <1>1, <1>5 DEF Shift, Fits
<1> HIDE DEF C
<1>7. Under(g', S)
  <2>1. CASE g' = h
    BY <1>3, <1>6, <2>1, GraphAbove, UnderPointees
  <2>2. CASE g' = [g EXCEPT !.cons[n] = @ \ {cid}]
    <3>1. g'.rep = g.rep /\ g'.hcd_var = g.hcd_var /\ g'.copy_to = g.copy_to
          /\ g'.points_to = g.points_to
      BY <2>2, GraphAbove DEF Graph
    <3>2. Under(g, S)
      BY GraphAbove
    <3> QED
      BY <3>1, <3>2 DEF Under
  <2> QED
    BY <1>2, <2>1, <2>2
<1>8. FaithfulSolution(S)' /\ BelowGraph(S)'
  BY <1>2, <1>7 DEF BelowInv, FaithfulSolution, BelowGraph
<1>9. VisitBelow(S)' /\ MergeBelow(S)'
  BY <1>2 DEF BelowInv, VisitBelow, MergeBelow, Sweeping
<1> QED
  BY <1>8, <1>9 DEF BelowInv

LEMMA MembersBelow ==
  ASSUME IInv, NEW S, BelowInv(S), FaithfulSolution(S)', BelowGraph(S)',
         pc = "member", pc' = "member",
         UNCHANGED <<sys, n, d_points_to, hcd_rep, lsc>>, members' \subseteq members
  PROVE  BelowInv(S)'
<1>1. \A m : MemberOK(S, m)' = MemberOK(S, m)
  BY DEF MemberOK
<1>2. VisitBelow(S)' /\ MergeBelow(S)'
  BY <1>1 DEF BelowInv, VisitBelow, MergeBelow, Sweeping
<1> QED
  BY <1>2 DEF BelowInv

LEMMA LoadStoreBelow ==
  ASSUME IInv, NEW S, BelowInv(S), NEW m \in members, LoadMember(m) \/ StoreMember(m)
  PROVE  BelowInv(S)'
<1> DEFINE f == m[1] + lsc.C.off
           t == get_node_rep(f)
<1>1. /\ UNCHANGED <<sys, n, d_points_to, hcd_rep, lsc, lcd_starts>>
      /\ pc = "member" /\ pc' = "member" /\ members' \subseteq members /\ m[2] = NoSite
      /\ lsc.C.type \in {"load", "store"}
  BY DEF LoadMember, StoreMember
<1>2. /\ f \in Node /\ t \in Node /\ lsc.C.dest \in Node /\ lsc.C.src \in Node
      /\ is_rep(g, lsc.C.dest) /\ is_rep(g, lsc.C.src) /\ S[t] = S[f]
      /\ f = i2p => t = i2p
      /\ f \in IntParams => t = f
  BY <1>1, RepIsRep, GraphAbove
  DEF IInv, VisitInv, VisitType, LsCall, Constraint, Under, get_node_rep
<1>3. MemberOK(S, m)
  BY <1>1 DEF BelowInv, VisitBelow
<1>4. Under(g', S)
  <2>1. CASE LoadMember(m)
    <3>1. g' = add_copy_edge(g, t, lsc.C.dest) /\ lsc.C.type = "load"
      BY <2>1 DEF LoadMember
    <3>2. Leads(S, f, lsc.C.dest)
      BY <1>1, <1>3, <3>1 DEF MemberOK
    <3>3. Leads(S, t, lsc.C.dest)
      BY <1>2, <3>2 DEF Leads
    <3> HIDE DEF f, t
    <3> QED
      BY <1>2, <3>1, <3>3, GraphAbove, UnderEdge
  <2>2. CASE StoreMember(m)
    <3>1. CASE lsc.I # {} /\ t \in NonPtrVal
      <4>1. g' = g
        BY <2>2, <3>1 DEF StoreMember
      <4> QED
        BY <4>1, GraphAbove
    <3>2. CASE ~(lsc.I # {} /\ t \in NonPtrVal)
      <4>1. g' = add_copy_edge(g, lsc.C.src, t) /\ lsc.C.type = "store"
        BY <2>2, <3>2 DEF StoreMember
      <4>2. Leads(S, lsc.C.src, f) \/ (lsc.I # {} /\ f \in IntParams)
        BY <1>1, <1>3, <4>1 DEF MemberOK
      <4>3. IntParams \subseteq NonPtrVal
        BY DEF IntParams
      <4>4. Leads(S, lsc.C.src, t)
        BY <1>2, <3>2, <4>2, <4>3 DEF Leads
      <4> HIDE DEF f, t
      <4> QED
        BY <1>2, <4>1, <4>4, GraphAbove, UnderEdge
    <3> QED
      BY <3>1, <3>2
  <2> QED
    BY <2>1, <2>2
<1>5. FaithfulSolution(S)' /\ BelowGraph(S)'
  BY <1>1, <1>4 DEF BelowInv, FaithfulSolution, BelowGraph
<1> QED
  BY <1>1, <1>5, MembersBelow

LEMMA HandleExtBelow ==
  ASSUME IInv, NEW S, BelowInv(S), NEW m \in members, HandleExt(m)
  PROVE  BelowInv(S)'
<1> DEFINE e == ExtEffect[m]
           d == get_node_rep(e.dest)
           s == get_node_rep(e.src)
<1>1. /\ UNCHANGED <<sys, n, d_points_to, hcd_rep, lsc, lcd_starts>>
      /\ pc = "member" /\ pc' = "member" /\ members' \subseteq members /\ m[2] # NoSite
  BY DEF HandleExt
<1>2. MemberOK(S, m)
  BY <1>1 DEF BelowInv, VisitBelow
<1>3. e \in Effects(sys, S)
  BY <1>1, <1>2 DEF MemberOK
<1>4. /\ e.kind = "point" => e.src \in S[e.dest]
      /\ e.kind = "copy" => Leads(S, e.src, e.dest)
      /\ e.kind \in {"none", "point", "copy"} /\ e.src \in Node /\ e.dest \in Node
  <2>1. sys \in System /\ S \in Assignments /\ IsSolution(sys, S)
    BY GraphAbove DEF BelowInv, FaithfulSolution
  <2> HIDE DEF e
  <2>2. e \in Effect
    BY <1>3, <2>1, EffectsMonotone
  <2>3. /\ e.kind = "point" => e.src \in S[e.dest]
        /\ e.kind = "copy" => Leads(S, e.src, e.dest)
    BY <1>3, <2>1, EffectMeans
  <2> QED
    BY <2>2, <2>3 DEF Effect
<1>5. /\ d \in Node /\ s \in Node /\ S[d] = S[e.dest] /\ S[s] = S[e.src]
      /\ e.src = i2p => s = i2p
      /\ e.dest = i2p => d = i2p
  <2> HIDE DEF e
  <2>1. \A x \in Node : g.rep[x] \in Node /\ S[g.rep[x]] = S[x] /\ (x = i2p => g.rep[x] = i2p)
    BY GraphAbove DEF Under
  <2> QED
    BY <1>4, <2>1 DEF get_node_rep
<1>6. \/ g' = g
      \/ e.kind = "point" /\ g' = AddPointees(g, d, {e.src})
      \/ e.kind = "copy" /\ g' = add_copy_edge(g, s, d)
  BY <1>4 DEF HandleExt
<1>7. Under(g', S)
  <2> HIDE DEF e, d, s
  <2>1. CASE g' = g
    BY <2>1, GraphAbove
  <2>2. CASE e.kind = "point" /\ g' = AddPointees(g, d, {e.src})
    <3>1. {e.src} \subseteq S[d]
      BY <1>4, <1>5, <2>2
    <3> QED
      BY <1>5, <2>2, <3>1, GraphAbove, UnderPointees
  <2>3. CASE e.kind = "copy" /\ g' = add_copy_edge(g, s, d)
    <3>1. Leads(S, s, d)
      BY <1>4, <1>5, <2>3 DEF Leads
    <3> QED
      BY <1>5, <2>3, <3>1, GraphAbove, UnderEdge
  <2> QED
    BY <1>6, <2>1, <2>2, <2>3
<1>8. FaithfulSolution(S)' /\ BelowGraph(S)'
  BY <1>1, <1>7 DEF BelowInv, FaithfulSolution, BelowGraph
<1> QED
  BY <1>1, <1>8, MembersBelow

LEMMA LsDoneBelow ==
  ASSUME IInv, NEW S, BelowInv(S), LsDone
  PROVE  BelowInv(S)'
<1>1. /\ UNCHANGED <<sys, n, d_points_to, hcd_rep, lcd_starts>>
      /\ pc = "member" /\ pc' = "cons"
      /\ g' = IF lsc.del THEN [g EXCEPT !.cons[n] = @ \ {lsc.cid}] ELSE g
  BY DEF LsDone, visitVars
<1>2. g'.rep = g.rep /\ g'.hcd_var = g.hcd_var /\ g'.copy_to = g.copy_to
      /\ g'.points_to = g.points_to
  BY <1>1, GraphAbove DEF Graph
<1>3. FaithfulSolution(S)' /\ BelowGraph(S)'
  BY <1>1, <1>2 DEF BelowInv, FaithfulSolution, BelowGraph, Under
<1>4. VisitBelow(S)' /\ MergeBelow(S)'
  BY <1>1 DEF BelowInv, VisitBelow, MergeBelow, Sweeping
<1> QED
  BY <1>3, <1>4 DEF BelowInv

LEMMA LsMembersBelow ==
  ASSUME IInv, ConsInv, NEW S, BelowInv(S), pc = "cons",
         NEW C \in Constraint, is_rep(g, C.dest), is_rep(g, C.src), C.type \in {"load", "store"},
         NEW K \in Range(sys.cons), SameCons(C, K),
         g.rep[Base(C)] = n,
         NEW I \in SUBSET Site,
         \A s \in I : \E call \in sys.icall : call[2] = s /\ SameCons(C, call[1]),
         I # {} => CallOffsetOK(C),
         I = {} => ~IsCall(sys, K) \/ C.off = 0,
         NEW m \in LsMembers(C, I) \cup ((d_points_to \cap ExtNode) \X I)
  PROVE  LET t == m[1] + C.off IN
         CASE m[2] # NoSite -> ExtEffect[m] \in Effects(sys, S)
           [] m[2] = NoSite /\ C.type = "load" -> Leads(S, t, C.dest)
           [] m[2] = NoSite /\ C.type = "store" ->
                Leads(S, C.src, t) \/ (I # {} /\ t \in IntParams)
<1> DEFINE t == m[1] + C.off
           base == Base(C)
<1>1. /\ d_points_to \subseteq S[n] /\ C.off \in Nat /\ NoSite \notin Site
      /\ base = n /\ S[n] \subseteq Node
  BY GraphAbove, CallAssumption DEF BelowInv, VisitBelow, Constraint, Base, is_rep, Assignments
<1>2. \/ C.off = 0 /\ m[2] = NoSite /\ m[1] \in S[n]
      \/ C.off # 0 /\ I = {} /\ m[2] = NoSite /\ m[1] \in S[n] \ FuncNode /\ C.off < ObjSz[m[1]]
      \/ I # {} /\ m \in (d_points_to \cap ExtNode) \X I
      \/ C.off # 0 /\ I # {} /\ m[2] = NoSite /\ m[1] \in (S[n] \cap FuncNode) \ ExtNode
         /\ C.off < ObjSz[m[1]]
  BY <1>1 DEF LsMembers, Fits
<1>3. /\ C.type = "load" =>
              \A u \in Targets(S[n], C, IsCall(sys, K)) : Leads(S, u, C.dest)
      /\ C.type = "store" =>
              \A u \in Targets(S[n], C, IsCall(sys, K)) : Leads(S, C.src, u)
  BY <1>1, MeansSame DEF Base
<1>4. CASE C.off = 0 /\ m[2] = NoSite /\ m[1] \in S[n]
  <2>1. m[1] \in Targets(S[n], C, IsCall(sys, K))
    BY <1>4 DEF Targets
  <2>2. t = m[1]
    <3>1. m[1] \in Nat
      BY <1>1, <1>4, NodeAssumption
    <3>2. C.off = 0
      BY <1>4
    <3> QED
      BY <3>1, <3>2
  <2> QED
    BY <1>3, <1>4, <2>1, <2>2
<1>5. CASE C.off # 0 /\ I = {} /\ m[2] = NoSite /\ m[1] \in S[n] \ FuncNode /\ C.off < ObjSz[m[1]]
  <2>1. ~IsCall(sys, K)
    BY <1>5
  <2>2. t \in Shift(S[n] \ FuncNode, C.off)
    BY <1>5 DEF Shift, Fits
  <2>3. t \in Targets(S[n], C, IsCall(sys, K))
    BY <1>1, <1>5, <2>1, <2>2 DEF Targets
  <2> QED
    BY <1>3, <1>5, <2>3
<1>6. CASE I # {} /\ m \in (d_points_to \cap ExtNode) \X I
  <2>1. PICK call \in sys.icall : call[2] = m[2] /\ SameCons(C, call[1])
    BY <1>6
  <2>2. m[2] # NoSite /\ m[1] \in ExtNode /\ m[1] \in S[n] /\ m = <<m[1], m[2]>>
    BY <1>1, <1>6
  <2>3. S[Base(call[1])] = S[n]
    <3>1. call[1] \in Constraint
      BY GraphAbove, SMTT(30) DEF System
    <3>2. g.rep[Base(call[1])] = n /\ Base(call[1]) \in Node
      BY <1>1, <2>1, <3>1 DEF SameCons, Base, is_rep, Constraint
    <3> QED
      BY <3>2, GraphAbove
  <2>4. <<m[1], call>> \in ExtNode \X sys.icall
    BY <2>2
  <2>5. ExtEffect[<<m[1], m[2]>>] \in Effects(sys, S)
    <3> DEFINE q == <<m[1], call>>
    <3>1. q \in {x \in ExtNode \X sys.icall : x[1] \in S[Base(x[2][1])]}
      BY <2>2, <2>3, <2>4
    <3>2. <<q[1], q[2][2]>> = <<m[1], m[2]>>
      BY <2>1
    <3> HIDE DEF q
    <3> QED
      BY <3>1, <3>2 DEF Effects
  <2> QED
    BY <2>2, <2>5
<1>7. CASE C.off # 0 /\ I # {} /\ m[2] = NoSite /\ m[1] \in (S[n] \cap FuncNode) \ ExtNode
           /\ C.off < ObjSz[m[1]]
  <2>1. PICK s \in I : TRUE
    BY <1>7
  <2>2. PICK call \in sys.icall : call[2] = s /\ SameCons(C, call[1])
    BY <2>1
  <2>3. call[1] \in Range(sys.cons) /\ IsCall(sys, call[1])
    <3>1. call = <<call[1], call[2]>> /\ call[2] \in Site
      BY GraphAbove DEF System
    <3> QED
      BY <3>1 DEF ConsInv, WellFormed, IsCall
  <2>4. /\ C.type = "load" => \A u \in Targets(S[n], C, TRUE) : Leads(S, u, C.dest)
        /\ C.type = "store" => \A u \in Targets(S[n], C, TRUE) : Leads(S, C.src, u)
    BY <1>1, <2>2, <2>3, MeansSame DEF Base
  <2>5. t \in Shift((S[n] \cap FuncNode) \ ExtNode, C.off)
    BY <1>7 DEF Shift, Fits
  <2>6. (C.type = "store" => t \notin NonPtrVal) => t \in Targets(S[n], C, TRUE)
    <3> SUFFICES ASSUME C.type = "store" => t \notin NonPtrVal
                 PROVE  t \in Targets(S[n], C, TRUE)
      OBVIOUS
    <3>1. Targets(S[n], C, TRUE) = {u \in Shift((S[n] \cap FuncNode) \ ExtNode, C.off) :
                                     C.type = "store" => u \notin NonPtrVal}
      <4>1. C.off > 0
        BY <1>1, <1>7
      <4> QED
        BY <1>7, <4>1 DEF Targets
    <3> HIDE DEF t
    <3> QED
      BY <2>5, <3>1
  <2>7. C.type = "store" /\ t \in NonPtrVal => t \in IntParams
    <3> SUFFICES ASSUME C.type = "store", t \in NonPtrVal PROVE t \in IntParams
      OBVIOUS
    <3>1. C.off >= 2
      BY <1>7 DEF CallOffsetOK
    <3>2. ObjSz[m[1]] \in Nat
      BY <1>1, <1>7, ObjSzAssumption
    <3>3. C.off \in 2 .. (ObjSz[m[1]] - 1)
      BY <1>1, <1>7, <3>1, <3>2
    <3> QED
      BY <1>7, <3>3 DEF IntParams
  <2> QED
    BY <1>7, <2>4, <2>6, <2>7
<1> QED
  BY <1>2, <1>4, <1>5, <1>6, <1>7

LEMMA LsConsBelow ==
  ASSUME IInv, ConsInv, NEW S, BelowInv(S), LsCons
  PROVE  BelowInv(S)'
<1> DEFINE cid == Min(todo)
           C0 == cplx_cons[cid]
           C == Updated(C0)
           ic == MovedCalls(C0)
           I == IF CallSites(C0) = {} THEN {} ELSE SitesOf(ic, C)
           dup == C \in cons_seen
           hcd == ~dup /\ hcd_rep # 0 /\ C.off = 0
           h == IF C.type = "load" THEN add_copy_edge(g, hcd_rep, C.dest)
                                   ELSE add_copy_edge(g, C.src, hcd_rep)
           K == sys.cons[cid]
<1>1. cid \in todo /\ cid \in DOMAIN cplx_cons /\ n \in Node /\ hcd_rep \in Node
      /\ d_points_to \subseteq S[n]
  BY MinMember DEF IInv, LsCons, VisitInv, VisitType, BelowInv, VisitBelow
<1>2. /\ C0 \in Constraint /\ C \in Constraint /\ is_rep(g, C.dest) /\ is_rep(g, C.src)
      /\ C.type = C0.type /\ C.off = C0.off /\ g.rep[Base(C)] = g.rep[Base(C0)]
      /\ C.off \in Nat /\ C.dest \in Node /\ C.src \in Node
      /\ C.dest = g.rep[C0.dest] /\ C.src = g.rep[C0.src]
  <2>1. /\ C0 \in Constraint /\ C \in Constraint /\ is_rep(g, C.dest) /\ is_rep(g, C.src)
        /\ C.type = C0.type /\ C.off = C0.off /\ g.rep[Base(C)] = g.rep[Base(C0)]
    BY <1>1, UpdatedCons DEF IInv
  <2>2. C.dest = g.rep[C0.dest] /\ C.src = g.rep[C0.src]
    BY <2>1 DEF Updated, get_node_rep, Constraint
  <2> QED
    BY <2>1, <2>2 DEF Constraint
<1>3. /\ UNCHANGED <<sys, n, d_points_to, hcd_rep, lcd_starts>>
      /\ pc = "cons" /\ pc' \in {"cons", "member", "abort"} /\ phase \in {"load", "store"}
      /\ (pc' # "abort" => LsOK(C0, C, I, dup) /\ pc' = IF hcd THEN "cons" ELSE "member")
  BY DEF LsCons
<1>4. cid \in g.cons[n] /\ C0.type = phase /\ g.rep[Base(C0)] = n
  BY <1>1, <1>3, SMTT(30) DEF ConsInv, SweepInv, Sweeping, IInv, GraphInv, ListsCurrent
<1>5. K \in Range(sys.cons) /\ SameCons(C0, K) /\ SameCons(C, K)
  BY <1>1, <1>2 DEF ConsInv, ConsSame, Range, SameCons, is_rep
<1>6. \A D : SameCons(C0, D) => SameCons(C, D)
  BY <1>2 DEF SameCons, is_rep
<1>7. n \in g.ind_calls \/ SitesOf(icall_cons, C0) = {}
  <2>1. SUFFICES ASSUME NEW s, <<C0, s>> \in icall_cons
                 PROVE  n \in g.ind_calls
    BY DEF SitesOf
  <2>2. PICK call \in sys.icall : call[2] = s /\ SameCons(C0, call[1])
    BY <2>1 DEF ConsInv, ConsSame
  <2>3. g.rep[Base(call[1])] = g.rep[Base(C0)]
    BY <2>2 DEF SameCons, Base
  <2> QED
    BY <1>3, <1>4, <2>3 DEF ConsInv, CallsInv
<1>8. \A e \in ic :
              \/ e \in icall_cons
              \/ \E f \in icall_cons : f[1] = C0 /\ f[2] = e[2] /\ e[1] = C
  BY <1>2, <1>7, MovedSites
<1>9. I \in SUBSET Site
  BY DEF SitesOf
<1>10. ASSUME NEW s \in I
       PROVE  \E call \in sys.icall : call[2] = s /\ SameCons(C, call[1])
  <2>1. <<C, s>> \in ic
    BY <1>10 DEF SitesOf
  <2>2. CASE <<C, s>> \in icall_cons
    BY <2>2 DEF ConsInv, ConsSame
  <2>3. CASE \E f \in icall_cons : f[1] = C0 /\ f[2] = s
    <3>1. PICK f \in icall_cons : f[1] = C0 /\ f[2] = s
      BY <2>3
    <3>2. PICK call \in sys.icall : call[2] = f[2] /\ SameCons(f[1], call[1])
      BY DEF ConsInv, ConsSame
    <3> QED
      BY <1>6, <3>1, <3>2
  <2> QED
    BY <1>8, <2>1, <2>2, <2>3
<1>11. I = {} /\ IsCall(sys, K) => dup
  <2> SUFFICES ASSUME I = {}, IsCall(sys, K) PROVE dup
    OBVIOUS
  <2>1. n \in g.ind_calls /\ HasSites(cid)
    BY <1>1, <1>3, <1>4 DEF ConsInv, CallsInv
  <2>2. SitesOf(icall_cons, C0) = {}
    <3> SUFFICES ASSUME NEW s \in Site, <<C0, s>> \in icall_cons PROVE FALSE
      BY DEF SitesOf
    <3>1. <<C, s>> \in ic /\ CallSites(C0) # {}
      BY <1>2, <1>7, MovedSites
    <3> QED
      BY <3>1 DEF SitesOf
  <2>3. ~Doomed(cid)
    BY <1>3 DEF Doomed
  <2> QED
    BY <2>1, <2>2, <2>3 DEF HasSites
<1> HIDE DEF C0, C, ic, I, dup, hcd, h, K
<1>12. Base(C) = n /\ g.rep[Base(C)] = n
  BY <1>2, <1>4 DEF Base, is_rep
<1>13. Under(g', S)
  <2>1. CASE ~hcd
    <3>1. g' = g
      BY <2>1 DEF LsCons, hcd, dup, C, C0
    <3> QED
      BY <3>1, GraphAbove
  <2>2. CASE hcd
    <3>1. g' = [h EXCEPT !.cons[n] = @ \ {cid}]
      BY <2>2 DEF LsCons, hcd, dup, C, C0, h
    <3>2. C.off = 0 /\ CycleVar(S, n, hcd_rep)
      BY <1>3, <2>2 DEF hcd, BelowInv, VisitBelow, Sweeping
    <3>3. PICK o \in S[n] : o # i2p /\ S[o] = S[hcd_rep]
      BY <3>2 DEF CycleVar
    <3>4. o \in Targets(S[n], C, IsCall(sys, K))
      BY <3>2, <3>3 DEF Targets
    <3>5. CASE C.type = "load"
      <4>1. h = add_copy_edge(g, hcd_rep, C.dest)
        BY <3>5 DEF h
      <4>2. Leads(S, o, C.dest)
        BY <1>2, <1>5, <1>12, <3>4, <3>5, MeansSame DEF Base
      <4>3. Leads(S, hcd_rep, C.dest)
        BY <3>3, <4>2 DEF Leads
      <4>4. Under(h, S)
        BY <1>1, <1>2, <4>1, <4>3, GraphAbove, UnderEdge
      <4>5. h \in Graph
        BY <1>1, <1>2, <1>3, <4>1, AddCopyEdgeExtends, GraphAbove DEF Extends, IInv, VisitInv
      <4>6. g'.rep = h.rep /\ g'.hcd_var = h.hcd_var /\ g'.copy_to = h.copy_to
            /\ g'.points_to = h.points_to
        BY <3>1, <4>5 DEF Graph
      <4> QED
        BY <4>4, <4>6 DEF Under
    <3>6. CASE C.type = "store"
      <4>1. h = add_copy_edge(g, C.src, hcd_rep)
        BY <3>6 DEF h
      <4>2. Leads(S, C.src, o)
        BY <1>2, <1>5, <1>12, <3>4, <3>6, MeansSame DEF Base
      <4>3. Leads(S, C.src, hcd_rep)
        BY <3>3, <4>2 DEF Leads
      <4>4. Under(h, S)
        BY <1>1, <1>2, <4>1, <4>3, GraphAbove, UnderEdge
      <4>5. h \in Graph
        BY <1>1, <1>2, <1>3, <4>1, AddCopyEdgeExtends, GraphAbove DEF Extends, IInv, VisitInv
      <4>6. g'.rep = h.rep /\ g'.hcd_var = h.hcd_var /\ g'.copy_to = h.copy_to
            /\ g'.points_to = h.points_to
        BY <3>1, <4>5 DEF Graph
      <4> QED
        BY <4>4, <4>6 DEF Under
    <3> QED
      BY <1>2, <1>3, <1>4, <3>5, <3>6, SMTT(30)
  <2> QED
    BY <2>1, <2>2
<1>14. FaithfulSolution(S)' /\ BelowGraph(S)'
  BY <1>3, <1>13 DEF BelowInv, FaithfulSolution, BelowGraph
<1>15. ASSUME pc' = "member", NEW m \in members'
       PROVE  MemberOK(S, m)'
  <2>1. /\ ~hcd /\ LsOK(C0, C, I, dup)
        /\ lsc' = [C |-> C, cid |-> cid, I |-> I, del |-> dup]
        /\ members' = IF dup THEN (d_points_to \cap ExtNode) \X I ELSE LsMembers(C, I)
    <3>1. LsOK(C0, C, I, dup) /\ ~hcd
      BY <1>3, <1>15
    <3> QED
      BY <3>1 DEF LsCons, hcd, dup, C, C0, I, ic
  <2>2. lsc'.C = C /\ lsc'.I = I
    BY <2>1
  <2>3. I # {} => CallOffsetOK(C)
    BY <2>1 DEF LsOK
  <2>4. m \in LsMembers(C, I) \cup ((d_points_to \cap ExtNode) \X I)
    BY <1>15, <2>1
  <2>5. I = {} => ~IsCall(sys, K) \/ C.off = 0
    <3> SUFFICES ASSUME I = {}, IsCall(sys, K) PROVE FALSE
      OBVIOUS
    <3>1. members' = {}
      BY <1>11, <2>1
    <3> QED
      BY <1>15, <3>1
  <2>6. C.type \in {"load", "store"}
    BY <1>2, <1>3, <1>4
  <2>7. LET t == m[1] + C.off IN
        CASE m[2] # NoSite -> ExtEffect[m] \in Effects(sys, S)
          [] m[2] = NoSite /\ C.type = "load" -> Leads(S, t, C.dest)
          [] m[2] = NoSite /\ C.type = "store" ->
               Leads(S, C.src, t) \/ (I # {} /\ t \in IntParams)
    BY <1>2, <1>3, <1>5, <1>9, <1>10, <1>12, <2>3, <2>4, <2>5, <2>6, LsMembersBelow
  <2> QED
    BY <1>3, <2>2, <2>7 DEF MemberOK
<1>16. VisitBelow(S)'
  BY <1>3, <1>15 DEF BelowInv, VisitBelow, Sweeping
<1>17. MergeBelow(S)'
  BY <1>3 DEF MergeBelow
<1> QED
  BY <1>14, <1>16, <1>17 DEF BelowInv

-----------------------------------------------------------------------------
(* BelowInv and merging: the nodes that a merge goes on with have equal    *)
(* sets, the two HCD variables of a nested merge included.                 *)

LEMMA TopFrame ==
  ASSUME IInv, InLcdDfs
  PROVE  /\ frames \in Seq(DfsFrame) /\ Len(frames) \in Nat \ {0} /\ frames # <<>>
         /\ Last(frames) = frames[Len(frames)] /\ Last(frames) \in DfsFrame
         /\ Len(frames) \in DOMAIN frames
         /\ Last(frames).n \in Node /\ Last(frames).dest0 \in Node
         /\ Last(frames).our_dfs \in Nat
         /\ Last(frames).edges \in SUBSET Node /\ Last(frames).add_copy \in SUBSET Node
         /\ Last(frames).waits \in BOOLEAN
<1>1. frames \in Seq(DfsFrame) /\ frames # <<>>
  BY DEF IInv, LcdInv, LcdType
<1>2. /\ Last(frames) = frames[Len(frames)] /\ Last(frames) \in DfsFrame
      /\ Len(frames) \in Nat \ {0}
  BY <1>1, FrontLast
<1> QED
  BY <1>1, <1>2 DEF DfsFrame

LEMMA MergeNodesBelow ==
  ASSUME IInv, NEW S, BelowInv(S), MergeNodes
  PROVE  BelowInv(S)'
<1> DEFINE a == marg[1]
           b == marg[2]
           nested == NestedMerge(g, a, b)
           p == Parent(g, a, b)
           c == Child(g, a, b)
<1>1. /\ UNCHANGED <<sys, lcd_starts, n, d_points_to, hcd_rep, members, mret, frames>>
      /\ pc = "merge"
  BY DEF MergeNodes, visitVars, lcdVars
<1>2. CASE ~CanMerge(g, a, b)
  <2>1. pc' = "abort" /\ g' = g
    BY <1>2 DEF MergeNodes
  <2> QED
    BY <1>1, <2>1 DEF BelowInv, FaithfulSolution, BelowGraph
<1>3. CASE CanMerge(g, a, b)
  <2>1. a \in Node /\ b \in Node /\ mframes \in Seq(MergeFrame)
    BY <1>1 DEF IInv, MergeInv, MergeType
  <2>2. S[a] = S[b] /\ {a, b} \cap IntParams = {}
    BY <1>1 DEF BelowInv, MergeBelow
  <2>3. /\ p \in Node /\ c \in Node /\ p # c /\ is_rep(g, p) /\ is_rep(g, c)
        /\ S[p] = S[c] /\ {p, c} \cap (IntParams \cup {i2p}) = {} /\ a \in {p, c}
    BY <1>3, <2>1, <2>2 DEF CanMerge, Parent, Child
  <2>4. g' = Absorb(g, p, c)
    BY <1>3 DEF MergeNodes, Unify
  <2> HIDE DEF p, c, a, b, nested
  <2>5. Under(g', S)
    BY <2>3, <2>4, GraphAbove, UnderAbsorb
  <2>6. FaithfulSolution(S)' /\ BelowGraph(S)'
    BY <1>1, <2>5 DEF BelowInv, FaithfulSolution, BelowGraph
  <2>7. g'.rep = [x \in Node |-> IF g.rep[x] = c THEN p ELSE g.rep[x]]
    BY <2>4 DEF Absorb
  <2>8. pc' \in {"merge", "unwind"}
    BY <1>1, <1>3 DEF MergeNodes, a, b
  <2>9. VisitBelow(S)'
    BY <1>1, <2>8 DEF BelowInv, VisitBelow, Sweeping
  <2>10. /\ marg' = IF nested = <<>> THEN <<p, p>> ELSE nested
         /\ mframes' = IF nested = <<>> THEN mframes
                       ELSE Append(mframes, [n1 |-> p, rhv2 |-> nested[2]])
         /\ pc' = IF nested = <<>> THEN "unwind" ELSE "merge"
    <3>1. CASE nested = <<>>
      BY <1>1, <1>3, <3>1 DEF MergeNodes, a, b, p, nested
    <3>2. CASE nested # <<>>
      BY <1>1, <1>3, <3>2 DEF MergeNodes, a, b, p, nested
    <3> QED
      BY <3>1, <3>2
  <2>11. g'.rep[Caller'] = g'.rep[IF mframes' = <<>> THEN marg'[1] ELSE mframes'[1].n1]
    <3>1. Caller' = Caller
      BY <1>1 DEF Caller
    <3>2. Caller \in Node
      <4>1. CASE mret = "hcd"
        BY <4>1 DEF Caller, IInv, VisitInv, VisitType
      <4>2. CASE mret = "collapse"
        BY <1>1, <4>2, TopFrame DEF Caller, InLcdDfs
      <4> QED
        BY <4>1, <4>2 DEF IInv, MergeInv, MergeType
    <3>3. g.rep[Caller] = g.rep[IF mframes = <<>> THEN a ELSE mframes[1].n1]
      BY <1>1 DEF BelowInv, MergeBelow, a
    <3>4. CASE mframes = <<>>
      <4>1. g.rep[Caller] = a /\ g'.rep[Caller] = p /\ g'.rep[p] = p
        BY <2>3, <2>7, <3>2, <3>3, <3>4, <1>3 DEF is_rep, CanMerge
      <4>2. CASE nested = <<>>
        BY <2>10, <3>1, <3>4, <4>1, <4>2
      <4>3. CASE nested # <<>>
        <5>1. mframes' = <<[n1 |-> p, rhv2 |-> nested[2]]>>
          BY <2>10, <3>4, <4>3
        <5> QED
          BY <3>1, <4>1, <5>1
      <4> QED
        BY <4>2, <4>3
    <3>5. CASE mframes # <<>>
      <4>1. mframes' # <<>> /\ mframes'[1] = mframes[1]
        <5>1. Len(mframes) \in Nat \ {0}
          BY <2>1, <3>5
        <5> QED
          BY <2>1, <2>10, <3>5, <5>1
      <4>2. mframes[1].n1 \in Node
        <5>1. Len(mframes) \in Nat \ {0}
          BY <2>1, <3>5
        <5>2. mframes[1] \in MergeFrame
          BY <2>1, <5>1
        <5> QED
          BY <5>2 DEF MergeFrame
      <4>3. g'.rep[Caller] = g'.rep[mframes[1].n1]
        BY <2>7, <3>2, <3>3, <3>5, <4>2
      <4> QED
        BY <3>1, <4>1, <4>3
    <3> QED
      BY <3>4, <3>5
  <2>12. ASSUME pc' = "merge"
         PROVE  S[marg'[1]] = S[marg'[2]] /\ {marg'[1], marg'[2]} \cap IntParams = {}
    <3>1. nested # <<>> /\ marg' = nested
      BY <2>10, <2>12
    <3> DEFINE w1 == g.hcd_var[p]
               w2 == g.hcd_var[c]
    <3>2. g.hcd_var[a] # 0 /\ g.hcd_var[b] # 0 /\ nested = <<g'.rep[w1], g'.rep[w2]>>
      <4>1. g' = Unify(g, a, b)
        BY <2>4 DEF Unify, p, c
      <4> QED
        BY <3>1, <4>1 DEF NestedMerge, nested, p, c
    <3>3. w1 # 0 /\ w2 # 0
      BY <3>2 DEF p, c, Parent, Child
    <3>4. CycleVar(S, p, w1) /\ CycleVar(S, c, w2) /\ w1 \in Node /\ w2 \in Node
      BY <2>3, <3>3, GraphAbove DEF Under, Graph
    <3> HIDE DEF w1, w2
    <3>5. S[w1] = S[w2] /\ w1 \notin IntParams /\ w2 \notin IntParams
      BY <2>3, <3>4 DEF CycleVar
    <3>6. /\ S[g'.rep[w1]] = S[w1] /\ S[g'.rep[w2]] = S[w2]
          /\ g'.rep[w1] \notin IntParams /\ g'.rep[w2] \notin IntParams
      BY <2>5, <3>4, <3>5 DEF Under
    <3> QED
      BY <3>1, <3>2, <3>5, <3>6
  <2>13. MergeBelow(S)'
    <3>1. (g.rep[Caller] = g.rep[IF mframes = <<>> THEN marg[1] ELSE mframes[1].n1])'
      BY <2>11
    <3> QED
      BY <2>12, <3>1 DEF MergeBelow
  <2> QED
    BY <2>6, <2>9, <2>13 DEF BelowInv
<1> QED
  BY <1>2, <1>3

LEMMA MergeReturnBelow ==
  ASSUME IInv, NEW S, BelowInv(S), MergeReturn
  PROVE  BelowInv(S)'
<1> DEFINE f == Last(mframes)
           r == IF f.n1 = f.rhv2 THEN get_node_rep(f.n1) ELSE f.n1
<1>1. /\ UNCHANGED <<sys, g, lcd_starts, n, d_points_to, hcd_rep, members, mret, frames>>
      /\ pc = "unwind" /\ pc' \in {"unwind", "abort"} /\ mframes # <<>>
      /\ mframes' = Front(mframes) /\ marg' = <<r, r>>
  BY DEF MergeReturn, visitVars, lcdVars, graphVars
<1>2. FaithfulSolution(S)' /\ BelowGraph(S)'
  BY <1>1 DEF BelowInv, FaithfulSolution, BelowGraph
<1>3. VisitBelow(S)'
  BY <1>1 DEF BelowInv, VisitBelow, Sweeping
<1>4. mframes \in Seq(MergeFrame) /\ f = mframes[Len(mframes)] /\ f.n1 \in Node
      /\ Len(mframes') = Len(mframes) - 1 /\ Len(mframes) \in Nat \ {0}
      /\ (\A i \in 1 .. (Len(mframes) - 1) : mframes'[i] = mframes[i])
      /\ mframes' \in Seq(MergeFrame)
  <2>1. mframes \in Seq(MergeFrame)
    BY DEF IInv, MergeInv, MergeType
  <2> HIDE DEF r
  <2>2. /\ f = mframes[Len(mframes)] /\ f \in MergeFrame
        /\ Len(mframes') = Len(mframes) - 1 /\ Len(mframes) \in Nat \ {0}
        /\ (\A i \in 1 .. (Len(mframes) - 1) : mframes'[i] = mframes[i])
        /\ mframes' \in Seq(MergeFrame)
    BY <1>1, <2>1, FrontLast
  <2> QED
    BY <2>1, <2>2 DEF MergeFrame
<1>5. g.rep[r] = g.rep[f.n1]
  BY <1>4, GraphAbove DEF Canonical, get_node_rep, is_rep
<1> HIDE DEF r
<1>6. g.rep[Caller] = g.rep[mframes[1].n1] /\ Caller' = Caller
  BY <1>1 DEF BelowInv, MergeBelow, Caller
<1>7. g.rep[Caller] = g.rep[IF mframes' = <<>> THEN r ELSE mframes'[1].n1]
  <2>1. CASE Len(mframes) = 1
    BY <1>4, <1>5, <1>6, <2>1
  <2>2. CASE Len(mframes) # 1
    BY <1>4, <1>6, <2>2
  <2> QED
    BY <2>1, <2>2
<1>8. MergeBelow(S)'
  <2>1. (g.rep[Caller] = g.rep[IF mframes = <<>> THEN marg[1] ELSE mframes[1].n1])'
    BY <1>1, <1>6, <1>7
  <2> QED
    BY <1>1, <2>1 DEF MergeBelow
<1> QED
  BY <1>2, <1>3, <1>8 DEF BelowInv

LEMMA ReturnToHcdBelow ==
  ASSUME IInv, NEW S, BelowInv(S), ReturnToHcd
  PROVE  BelowInv(S)'
<1>1. /\ UNCHANGED <<sys, g, lcd_starts, n, d_points_to, members, mret, frames>>
      /\ pc = "unwind" /\ pc' = "hcd" /\ mframes = <<>> /\ mret = "hcd" /\ hcd_rep' = marg[1]
  BY DEF ReturnToHcd, mergeVars, lcdVars, graphVars
<1>2. FaithfulSolution(S)' /\ BelowGraph(S)'
  BY <1>1 DEF BelowInv, FaithfulSolution, BelowGraph
<1>3. /\ members \subseteq d_points_to \X {NoSite}
      /\ (members # {} \/ hcd_rep # 0) => CycleVar(S, n, hcd_rep)
  BY <1>1 DEF BelowInv, VisitBelow
<1>4. g.rep[hcd_rep] = g.rep[marg[1]] /\ hcd_rep \in Node /\ marg[1] \in Node
      /\ is_rep(g, marg[1]) /\ g.rep[0] = 0
  BY <1>1 DEF BelowInv, MergeBelow, Caller, IInv, VisitInv, VisitType, MergeInv, MergeType, GraphInv
<1>5. marg[1] # 0 => hcd_rep # 0
  BY <1>4 DEF is_rep
<1>6. S[marg[1]] = S[hcd_rep] /\ (marg[1] \in IntParams => hcd_rep = marg[1])
  BY <1>4, GraphAbove DEF Under, is_rep
<1>7. (members # {} \/ marg[1] # 0) => CycleVar(S, n, marg[1])
  BY <1>3, <1>5, <1>6 DEF CycleVar
<1>8. VisitBelow(S)'
  BY <1>1, <1>3, <1>7 DEF BelowInv, VisitBelow, Sweeping
<1>9. MergeBelow(S)'
  BY <1>1 DEF MergeBelow
<1> QED
  BY <1>2, <1>8, <1>9 DEF BelowInv

LEMMA CollapseNodeBelow ==
  ASSUME IInv, NEW S, BelowInv(S), CollapseNode,
         S[Last(lcd_stk)] = S[Last(frames).n], S[Last(frames).n] # {}
  PROVE  BelowInv(S)'
<1> DEFINE x == get_node_rep(Last(lcd_stk))
           f == Last(frames)
<1>1. /\ UNCHANGED <<sys, g, lcd_starts, n, d_points_to, hcd_rep>> /\ pc = "collapse"
      /\ frames' = [frames EXCEPT ![Len(frames)].chg = TRUE]
  BY DEF CollapseNode, visitVars, graphVars
<1>2. FaithfulSolution(S)' /\ BelowGraph(S)'
  BY <1>1 DEF BelowInv, FaithfulSolution, BelowGraph
<1>3. /\ frames \in Seq(DfsFrame) /\ frames # <<>> /\ f = frames[Len(frames)]
      /\ Len(frames) \in Nat \ {0} /\ f.n \in Node
      /\ Last(lcd_stk) \in Node
  <2>1. lcd_stk \in Seq(Node) /\ lcd_stk # <<>>
    BY <1>1 DEF IInv, LcdInv, LcdType, CollapseNode, InScc
  <2>2. Last(lcd_stk) \in Node
    BY <2>1, FrontLast
  <2> QED
    BY <1>1, <2>2, TopFrame DEF InLcdDfs
<1>4. x \in Node /\ S[x] = S[f.n]
  BY <1>3, GraphAbove DEF get_node_rep
<1>5. {x, f.n} \cap IntParams = {}
  BY <1>4 DEF BelowInv, FaithfulSolution, Faithful
<1>6. CASE x = f.n
  <2>1. pc' = "collapse"
    BY <1>1, <1>6 DEF CollapseNode
  <2> QED
    BY <1>1, <1>2, <2>1 DEF BelowInv, VisitBelow, MergeBelow, Sweeping
<1>7. CASE x # f.n
  <2>1. pc' = "merge" /\ marg' = <<f.n, x>> /\ mframes' = <<>> /\ mret' = "collapse"
    BY <1>7 DEF CollapseNode
  <2> HIDE DEF x
  <2>2. VisitBelow(S)'
    BY <1>1, <2>1 DEF BelowInv, VisitBelow, Sweeping
  <2>3. Caller' = f.n
    <3>1. Len(frames') = Len(frames) /\ frames'[Len(frames)].n = f.n
      BY <1>1, <1>3 DEF DfsFrame
    <3> QED
      BY <2>1, <3>1 DEF Caller, Last
  <2> HIDE DEF f
  <2>4. MergeBelow(S)'
    BY <1>1, <1>4, <1>5, <2>1, <2>3 DEF MergeBelow
  <2> QED
    BY <1>2, <2>2, <2>4 DEF BelowInv
<1> QED
  BY <1>6, <1>7

-----------------------------------------------------------------------------
(* BelowInv is inductive, given that the nodes of an SCC have equal sets   *)
(* and that the copy edges lcd_dfs adds follow from S.                     *)

LEMMA DfsDoneBelow ==
  ASSUME IInv, NEW S, BelowInv(S), DfsDone,
         \A e \in Last(frames).add_copy : S[Last(frames).n] \subseteq S[e]
  PROVE  BelowInv(S)'
<1> DEFINE f == Last(frames)
<1>1. /\ UNCHANGED <<sys, lcd_starts, n, d_points_to, hcd_rep>> /\ pc = "dfs"
      /\ g' = [g EXCEPT !.copy_to[f.n] = (@ \ f.del_copy) \cup f.add_copy]
      /\ pc' \in {"collapse", "lcd", "dfs"}
      /\ pc' = "collapse" => UNCHANGED <<mret>>
  BY DEF DfsDone, visitVars, mergeVars, Leave
<1>2. f.n \in Node
  BY <1>1, TopFrame DEF InLcdDfs
<1> HIDE DEF f
<1>3. /\ g'.rep = g.rep /\ g'.hcd_var = g.hcd_var /\ g'.points_to = g.points_to
      /\ g'.copy_to = [g.copy_to EXCEPT ![f.n] = (@ \ f.del_copy) \cup f.add_copy]
  BY <1>1, GraphAbove DEF Graph
<1>4. ASSUME NEW x \in Node, NEW d \in g'.copy_to[x]
      PROVE  S[x] \subseteq S[d]
  <2>1. d \in g.copy_to[x] \/ (x = f.n /\ d \in f.add_copy)
    BY <1>2, <1>3, GraphAbove DEF Graph
  <2>2. d \in f.add_copy => S[f.n] \subseteq S[d]
    BY DEF f
  <2> QED
    BY <2>1, <2>2, GraphAbove DEF Under
<1>5. Under(g', S)
  BY <1>3, <1>4, GraphAbove, UnderParts
<1>6. FaithfulSolution(S)' /\ BelowGraph(S)'
  BY <1>1, <1>5 DEF BelowInv, FaithfulSolution, BelowGraph
<1>7. VisitBelow(S)' /\ MergeBelow(S)'
  BY <1>1 DEF BelowInv, VisitBelow, MergeBelow, Sweeping
<1> QED
  BY <1>6, <1>7 DEF BelowInv

LEMMA InitBelow ==
  ASSUME Init, WellFormed(sys), NEW S, FaithfulSolution(S)
  PROVE  BelowInv(S)
<1>1. /\ sys \in System /\ g = InitGraph(sys) /\ pc = "loop" /\ lcd_starts = {}
      /\ d_points_to = {} /\ n = 0
  BY InputsAssumption DEF Init
<1>2. /\ g.rep = [x \in Node |-> x] /\ g.hcd_var = sys.hcd_var
      /\ g.points_to = [x \in Node |-> {C.src : C \in {c \in OfType(sys, "addr_of") : c.dest = x}}]
      /\ g.copy_to = [x \in Node |-> {C.dest : C \in {c \in OfType(sys, "copy") : c.src = x}}]
  BY <1>1 DEF InitGraph
<1>3. S \in Assignments /\ IsSolution(sys, S)
  BY DEF FaithfulSolution
<1>4. ASSUME NEW x \in Node
      PROVE  g.points_to[x] \subseteq S[x] /\ S[g.rep[x]] = S[x]
  <2>1. SUFFICES ASSUME NEW C \in Range(sys.cons), C.type = "addr_of", C.dest = x
                 PROVE  C.src \in S[x]
    BY <1>2 DEF OfType
  <2> QED
    BY <1>1, <1>3, <2>1, SolutionMeans
<1>5. ASSUME NEW x \in Node, NEW d \in g.copy_to[x]
      PROVE  S[x] \subseteq S[d]
  <2>1. PICK C \in Range(sys.cons) : C.type = "copy" /\ C.src = x /\ C.dest = d
    BY <1>2 DEF OfType
  <2>2. Leads(S, x, d)
    BY <1>1, <1>3, <2>1, SolutionMeans
  <2>3. i2p \notin {x, d}
    BY <2>1 DEF WellFormed
  <2> QED
    BY <2>2, <2>3 DEF Leads
<1>6. \A x \in Node : g.hcd_var[x] # 0 => CycleVar(S, x, g.hcd_var[x])
  BY <1>2 DEF FaithfulSolution, Faithful
<1>7. \A t \in IntParams \cup {i2p} : \A x \in Node : g.rep[x] = t <=> x = t
  BY <1>2
<1>8. BelowGraph(S)
  BY <1>1, <1>4, <1>5, <1>6, <1>7 DEF BelowGraph, Under
<1>9. VisitBelow(S) /\ MergeBelow(S)
  BY <1>1 DEF VisitBelow, MergeBelow, Sweeping
<1> QED
  BY <1>8, <1>9 DEF BelowInv

LEMMA NextBelow ==
  ASSUME IInv, ConsInv, NEW S, BelowInv(S), [Next]_vars,
         CollapseNode => S[Last(lcd_stk)] = S[Last(frames).n] /\ S[Last(frames).n] # {},
         DfsDone => \A e \in Last(frames).add_copy : S[Last(frames).n] \subseteq S[e]
  PROVE  BelowInv(S)'
<1>1. CASE UNCHANGED vars
  <2>1. UNCHANGED <<sys, g, pc, n, d_points_to, hcd_rep, members, lsc, lcd_starts,
                    marg, mframes, mret, frames>>
    BY <1>1 DEF vars, graphVars, visitVars, mergeVars, lcdVars
  <2>2. FaithfulSolution(S)' /\ BelowGraph(S)'
    BY <2>1 DEF BelowInv, FaithfulSolution, BelowGraph
  <2>3. pc # "abort" => VisitBelow(S)'
    BY <2>1 DEF BelowInv, VisitBelow, Sweeping, MemberOK
  <2>4. pc # "abort" => MergeBelow(S)'
    BY <2>1 DEF BelowInv, MergeBelow, Caller
  <2> QED
    BY <2>1, <2>2, <2>3, <2>4 DEF BelowInv
<1>2. CASE Loop
  BY <1>2, OtherBelow, VisitBelowStep DEF Loop
<1>3. CASE SolveNode
  BY <1>3, HcdMemberBelow, SweepBelow, LsConsBelow, LoadStoreBelow,
     HandleExtBelow, LsDoneBelow, GepConsBelow, PropBelow DEF SolveNode
<1>4. CASE Merge
  BY <1>4, MergeNodesBelow, MergeReturnBelow, ReturnToHcdBelow, OtherBelow DEF Merge
<1>5. CASE GiveUp \/ KeepGoing \/ Finish
  BY <1>5, OtherBelow
<1>6. CASE Lcd
  BY <1>6, OtherBelow, DfsDoneBelow, CollapseNodeBelow DEF Lcd
<1> QED
  BY <1>1, <1>2, <1>3, <1>4, <1>5, <1>6 DEF Next

-----------------------------------------------------------------------------
(* Lazy cycle detection: what lcd_dfs keeps, its types first.              *)

LEMMA LcdTypes ==
  ASSUME IInv
  PROVE  /\ frames \in Seq(DfsFrame) /\ Len(frames) \in Nat /\ DOMAIN frames = 1 .. Len(frames)
         /\ lcd_stk \in Seq(Node) /\ Len(lcd_stk) \in Nat /\ DOMAIN lcd_stk = 1 .. Len(lcd_stk)
         /\ \A k \in DOMAIN frames :
              /\ frames[k] \in DfsFrame /\ frames[k].n \in Node /\ frames[k].dest0 \in Node
              /\ frames[k].our_dfs \in Nat /\ frames[k].waits \in BOOLEAN
              /\ frames[k].edges \in SUBSET Node /\ frames[k].add_copy \in SUBSET Node
         /\ \A i \in DOMAIN lcd_stk : lcd_stk[i] \in Node
         /\ Stacked \subseteq Node /\ Live \subseteq Node
         /\ lcd_dfs_id \in [Node -> Int] /\ \A x \in Node : Low(x) \in Int
         /\ curr_lcd_dfs \in Nat
         /\ \A x \in Node : g.rep[x] \in Node /\ g.rep[g.rep[x]] = g.rep[x]
<1>1. /\ frames \in Seq(DfsFrame) /\ lcd_stk \in Seq(Node)
      /\ lcd_dfs_id \in [Node -> Nat \cup {Unvisited}] /\ curr_lcd_dfs \in Nat
  BY DEF IInv, LcdInv, LcdType
<1>2. /\ Len(frames) \in Nat /\ DOMAIN frames = 1 .. Len(frames)
      /\ Len(lcd_stk) \in Nat /\ DOMAIN lcd_stk = 1 .. Len(lcd_stk)
      /\ \A k \in DOMAIN frames : frames[k] \in DfsFrame
      /\ \A i \in DOMAIN lcd_stk : lcd_stk[i] \in Node
  BY <1>1
<1>3. \A f \in DfsFrame : /\ f.n \in Node /\ f.dest0 \in Node
                          /\ f.our_dfs \in Nat /\ f.waits \in BOOLEAN
                          /\ f.edges \in SUBSET Node /\ f.add_copy \in SUBSET Node
  BY DEF DfsFrame
<1>4. Stacked \subseteq Node /\ Live \subseteq Node
  BY <1>2, <1>3 DEF Stacked, Live, Frame
<1>5. lcd_dfs_id \in [Node -> Int] /\ \A x \in Node : Low(x) \in Int
  BY <1>1 DEF Unvisited, Low
<1>6. \A x \in Node : g.rep[x] \in Node /\ g.rep[g.rep[x]] = g.rep[x]
  BY CanonicalGraph DEF IInv, Graph, Canonical, is_rep
<1> QED
  BY <1>1, <1>2, <1>3, <1>4, <1>5, <1>6

(* With no frame and no stack the invariant is about the IDs only.         *)
LEMMA LcdEmpty ==
  ASSUME NEW S, frames' = <<>>, lcd_stk' = <<>>, pc' = "lcd",
         \A x \in lcd_todo' : S[x] # {},
         curr_lcd_dfs' >= 1,
         \A y \in Node : lcd_dfs_id'[y] = Unvisited \/ lcd_dfs_id'[y] \in 1 .. (curr_lcd_dfs' - 1),
         \A y \in Node : lcd_dfs_id'[y] # Unvisited => lcd_dfs_id'[g'.rep[y]] # Unvisited,
         \A d \in Node : g'.rep[d] = d /\ lcd_dfs_id'[d] # Unvisited => d \in lcd_roots'
  PROVE  LcdBelow(S)'
<1>1. /\ DOMAIN frames' = {} /\ DOMAIN lcd_stk' = {} /\ Len(frames') = 0
      /\ Live' = {} /\ Stacked' = {} /\ ~Collapsing' /\ InLcd'
  BY DEF Live, Stacked, Collapsing, InLcd
<1>2. IdleInv'
  BY DEF IdleInv
<1>3. IdInv'
  BY <1>1 DEF IdInv, Low
<1>4. Apart' /\ MergingLcd' /\ LiveInv'
  BY <1>1 DEF Apart, MergingLcd, LiveInv, Low, is_rep
<1>5. WaitInv' /\ PathInv(S)' /\ DownInv(S)' /\ UpInv(S)' /\ OrderInv'
  BY <1>1 DEF WaitInv, PathInv, DownInv, UpInv, OrderInv
<1> QED
  BY <1>1, <1>2, <1>3, <1>4, <1>5 DEF LcdBelow

LEMMA EmptyMeans ==
  ASSUME IInv, NEW S, LcdBelow(S), pc = "lcd"
  PROVE  /\ frames = <<>> /\ lcd_stk = <<>> /\ (\A x \in lcd_todo : S[x] # {})
         /\ curr_lcd_dfs >= 1
         /\ (\A y \in Node : Low(y) = Unvisited \/ Low(y) \in 1 .. (curr_lcd_dfs - 1))
         /\ (\A y \in Node : Low(y) # Unvisited => Low(g.rep[y]) # Unvisited)
         /\ \A d \in Node : is_rep(g, d) /\ Low(d) # Unvisited => d \in lcd_roots
<1>1. frames = <<>> /\ lcd_stk = <<>> /\ InLcd
  BY DEF LcdBelow, IdleInv, InLcd
<1>2. Live = {}
  BY <1>1 DEF Live, Stacked
<1>3. IdInv /\ LiveInv /\ (\A x \in lcd_todo : S[x] # {})
  BY <1>1 DEF LcdBelow
<1> QED
  BY <1>1, <1>2, <1>3 DEF IdInv, LiveInv

LEMMA OutsideLcd ==
  ASSUME NEW S, LcdBelowInv(S), pc # "abort", ~InLcd, ~InLcd',
         UNCHANGED <<frames, lcd_stk>>
  PROVE  LcdBelowInv(S)'
BY DEF LcdBelowInv, LcdBelow, IdleInv, InLcd

LEMMA OtherLcd ==
  ASSUME IInv, NEW S, LcdBelowInv(S),
         \/ SwapIfEmpty \/ Converge \/ \E e \in curr : PopStale(e) \/ Visit(e)
         \/ GiveUp \/ KeepGoing \/ Finish
         \/ SolveNode \/ ReturnToHcd
         \/ mret = "hcd" /\ (MergeNodes \/ MergeReturn)
  PROVE  LcdBelowInv(S)'
<1> USE DEF InLcd, Collapsing, lcdVars, visitVars, mergeVars
<1>1. CASE \/ SwapIfEmpty \/ Converge \/ \E e \in curr : PopStale(e) \/ Visit(e)
           \/ GiveUp \/ KeepGoing \/ Finish
  <2>1. UNCHANGED <<frames, lcd_stk>> /\ pc \in {"loop", "check", "end"}
        /\ pc' \in {"loop", "end", "check", "hcd", "done", "abort"}
    BY <1>1, ZenonT(60) DEF SwapIfEmpty, Converge, PopStale, Visit, GiveUp, KeepGoing, Finish
  <2> QED
    BY <2>1, OutsideLcd, SMTT(30)
<1>2. CASE SolveNode
  <2>1. UNCHANGED <<frames, lcd_stk>> /\ pc \in {"hcd", "cons", "member", "prop"}
    BY <1>2, ZenonT(60) DEF SolveNode, HcdMember, HcdDone, NextPhase, LsCons, LoadMember, StoreMember,
                HandleExt, LsDone, GepCons, Prop
  <2>2. pc' \in {"hcd", "cons", "member", "prop", "abort", "check"} \/ (pc' = "merge" /\ mret' = "hcd")
    BY <1>2 DEF SolveNode, HcdMember, HcdDone, NextPhase, LsCons, LoadMember, StoreMember,
                HandleExt, LsDone, GepCons, Prop
  <2> QED
    BY <2>1, <2>2, OutsideLcd
<1>3. CASE ReturnToHcd
  <2>1. UNCHANGED <<frames, lcd_stk>> /\ pc = "unwind" /\ mret = "hcd" /\ pc' = "hcd"
    BY <1>3 DEF ReturnToHcd
  <2> QED
    BY <2>1, OutsideLcd
<1>4. CASE mret = "hcd" /\ (MergeNodes \/ MergeReturn)
  <2>1. UNCHANGED <<frames, lcd_stk, mret>> /\ pc \in {"merge", "unwind"}
        /\ pc' \in {"merge", "unwind", "abort"}
    BY <1>4 DEF MergeNodes, MergeReturn
  <2> QED
    BY <1>4, <2>1, OutsideLcd
<1> QED
  BY <1>1, <1>2, <1>3, <1>4

LEMMA RunLcdBelow ==
  ASSUME IInv, NEW S, BelowInv(S), LcdBelowInv(S), RunLcd
  PROVE  LcdBelowInv(S)'
<1>1. /\ UNCHANGED <<g, frames, lcd_stk>> /\ pc = "check" /\ pc' = "lcd"
      /\ curr_lcd_dfs' = 1 /\ lcd_dfs_id' = [x \in Node |-> Unvisited]
      /\ lcd_todo' = lcd_starts
  BY DEF RunLcd, graphVars
<1>2. frames = <<>> /\ lcd_stk = <<>>
  BY <1>1 DEF LcdBelowInv, LcdBelow, IdleInv, InLcd, Collapsing
<1>3. \A x \in Node : lcd_dfs_id'[x] = Unvisited /\ lcd_dfs_id'[g.rep[x]] = Unvisited
  BY <1>1, LcdTypes
<1>4. \A x \in lcd_todo' : S[x] # {}
  BY <1>1 DEF BelowInv, BelowGraph
<1>5. LcdBelow(S)'
  BY <1>1, <1>2, <1>3, <1>4, LcdEmpty
<1> QED
  BY <1>5 DEF LcdBelowInv

LEMMA LcdDoneBelow ==
  ASSUME IInv, NEW S, LcdBelowInv(S), LcdDone
  PROVE  LcdBelowInv(S)'
<1>1. UNCHANGED <<frames, lcd_stk>> /\ pc = "lcd" /\ pc' \in {"loop", "abort"}
  BY DEF LcdDone, lcdVars
<1>2. frames = <<>> /\ lcd_stk = <<>>
  BY <1>1 DEF LcdBelowInv, LcdBelow, IdleInv
<1> QED
  BY <1>1, <1>2 DEF LcdBelowInv, LcdBelow, IdleInv, InLcd, Collapsing

LEMMA InDfs ==
  ASSUME IInv, NEW S, LcdBelowInv(S), pc \in {"dfs", "collapse"} \/ (pc \in {"merge", "unwind"} /\ mret = "collapse")
  PROVE  /\ InLcd /\ (\A x \in lcd_todo : S[x] # {})
         /\ IdInv /\ Apart /\ MergingLcd /\ LiveInv /\ WaitInv
         /\ PathInv(S) /\ DownInv(S) /\ UpInv(S) /\ OrderInv
         /\ frames # <<>> /\ Len(frames) \in DOMAIN frames /\ Len(frames) >= 1
         /\ Last(frames) = frames[Len(frames)]
<1>1. InLcd /\ pc # "abort" /\ InLcdDfs
  BY DEF InLcd, Collapsing, InLcdDfs
<1> QED
  BY <1>1, TopFrame DEF LcdBelowInv, LcdBelow

-----------------------------------------------------------------------------
(* The steps that go on with the search.                                   *)

(* A step that looks at an edge of the innermost frame.                    *)
LEMMA TopRelinked ==
  ASSUME IInv, NEW S, LcdBelowInv(S), pc = "dfs", pc' = "dfs",
         UNCHANGED <<g, lcd_stk, lcd_roots, curr_lcd_dfs, lcd_todo>>,
         Len(frames') = Len(frames), DOMAIN frames' = DOMAIN frames,
         \A k \in 1 .. (Len(frames) - 1) : frames'[k] = frames[k],
         NEW x \in Node, x = frames[Len(frames)].n, x = frames'[Len(frames)].n,
         frames'[Len(frames)].our_dfs = frames[Len(frames)].our_dfs,
         ~frames'[Len(frames)].waits,
         \A e \in frames'[Len(frames)].edges \cup frames'[Len(frames)].add_copy :
           S[x] \subseteq S[e],
         \A y \in Node : y # x => lcd_dfs_id'[y] = lcd_dfs_id[y],
         \/ lcd_dfs_id'[x] = lcd_dfs_id[x]
         \/ \E d \in Live : /\ lcd_dfs_id'[x] = lcd_dfs_id[d]
                            /\ lcd_dfs_id[d] < lcd_dfs_id[x] /\ S[x] \subseteq S[d],
         frames[Len(frames)].waits =>
           lcd_dfs_id'[x] <= lcd_dfs_id[g.rep[frames[Len(frames)].dest0]]
  PROVE  LcdBelowInv(S)'
<1> DEFINE N == Len(frames)
<1>1. /\ IdInv /\ Apart /\ LiveInv /\ WaitInv /\ PathInv(S) /\ DownInv(S) /\ UpInv(S) /\ OrderInv
      /\ N \in DOMAIN frames /\ N >= 1 /\ Last(frames) = frames[N]
      /\ (\A y \in lcd_todo : S[y] # {})
  BY InDfs
<1>2. /\ \A k \in DOMAIN frames :
           frames'[k].n = frames[k].n /\ frames'[k].our_dfs = frames[k].our_dfs
      /\ DOMAIN frames = 1 .. N /\ N \in Nat
      /\ \A k \in DOMAIN frames : frames[k].our_dfs \in Nat /\ frames[k].n \in Node
  <2>1. /\ DOMAIN frames = 1 .. N /\ N \in Nat
        /\ \A k \in DOMAIN frames : frames[k].our_dfs \in Nat /\ frames[k].n \in Node
    BY LcdTypes
  <2>2. ASSUME NEW k \in DOMAIN frames
        PROVE  frames'[k].n = frames[k].n /\ frames'[k].our_dfs = frames[k].our_dfs
    <3>1. k = N \/ k \in 1 .. (N - 1)
      BY <2>1
    <3> QED
      BY <3>1
  <2> QED
    BY <2>1, <2>2
<1>3. /\ Stacked' = Stacked /\ Live' = Live /\ x \in Live /\ x \in Node /\ Live \subseteq Node
      /\ \A y \in Stacked : y # x /\ y \in Live
  <2>1. Stacked' = Stacked
    BY DEF Stacked
  <2>2. {Frame(k) : k \in DOMAIN frames}' = {Frame(k) : k \in DOMAIN frames}
    BY <1>2 DEF Frame
  <2>3. x \in Live
    BY <1>1 DEF Live, Frame
  <2>4. \A y \in Stacked : y # x /\ y \in Live
    <3>1. Frame(N) \notin Stacked /\ Frame(N) = x
      BY <1>1 DEF Apart, Frame
    <3> QED
      BY <3>1 DEF Live
  <2> QED
    BY <2>1, <2>2, <2>3, <2>4, LcdTypes DEF Live
<1>4. ~Collapsing /\ ~Collapsing' /\ InLcd' /\ Last(frames') = frames'[N]
  BY <1>1 DEF Collapsing, InLcd, Last
<1>5. /\ \A y \in Node : lcd_dfs_id[y] \in Int
      /\ \A y \in Node : lcd_dfs_id[y] = Unvisited \/ lcd_dfs_id[y] \in 1 .. (curr_lcd_dfs - 1)
      /\ \A y \in Live : lcd_dfs_id[y] # Unvisited
      /\ curr_lcd_dfs \in Nat
  BY <1>1, LcdTypes DEF IdInv, Low
<1>6. /\ lcd_dfs_id'[x] \in 1 .. (curr_lcd_dfs - 1) /\ lcd_dfs_id'[x] <= lcd_dfs_id[x]
      /\ lcd_dfs_id'[x] # Unvisited /\ lcd_dfs_id[x] # Unvisited
      /\ \A y \in Node : lcd_dfs_id'[y] # Unvisited <=> lcd_dfs_id[y] # Unvisited
      /\ \A y \in Node : lcd_dfs_id'[y] <= lcd_dfs_id[y]
  <2>1. lcd_dfs_id'[x] \in 1 .. (curr_lcd_dfs - 1) /\ lcd_dfs_id'[x] <= lcd_dfs_id[x]
        /\ lcd_dfs_id'[x] # Unvisited /\ lcd_dfs_id[x] # Unvisited
    BY <1>3, <1>5 DEF Unvisited
  <2> QED
    BY <1>5, <2>1
<1>7. IdInv'
  <2>1. \A y \in Node : lcd_dfs_id'[y] = Unvisited \/ lcd_dfs_id'[y] \in 1 .. (curr_lcd_dfs - 1)
    BY <1>5, <1>6
  <2>2. \A y \in Node : lcd_dfs_id'[y] # Unvisited => lcd_dfs_id'[g.rep[y]] # Unvisited
    BY <1>1, <1>6, LcdTypes DEF IdInv, Low
  <2>3. \A k \in DOMAIN frames : lcd_dfs_id'[frames[k].n] <= frames[k].our_dfs
    <3> SUFFICES ASSUME NEW k \in DOMAIN frames
                 PROVE  lcd_dfs_id'[frames[k].n] <= frames[k].our_dfs
      OBVIOUS
    <3>1. lcd_dfs_id[frames[k].n] <= frames[k].our_dfs
      BY <1>1, <1>4 DEF IdInv, Low, Frame
    <3>2. lcd_dfs_id'[frames[k].n] <= lcd_dfs_id[frames[k].n] /\ lcd_dfs_id'[frames[k].n] \in Int
          /\ lcd_dfs_id[frames[k].n] \in Int
      BY <1>2, <1>5, <1>6
    <3> QED
      BY <1>2, <3>1, <3>2
  <2>4. \A y \in Live : lcd_dfs_id'[y] # Unvisited
    BY <1>3, <1>5, <1>6
  <2>5. /\ \A k \in DOMAIN frames : frames[k].our_dfs \in 1 .. (curr_lcd_dfs - 1)
        /\ \A k, l \in DOMAIN frames : k < l => frames[k].our_dfs < frames[l].our_dfs
        /\ curr_lcd_dfs >= 1
    BY <1>1 DEF IdInv
  <2>6. /\ (curr_lcd_dfs >= 1)'
        /\ (\A y \in Node : Low(y) = Unvisited \/ Low(y) \in 1 .. (curr_lcd_dfs - 1))'
        /\ (\A y \in Node : Low(y) # Unvisited => Low(g.rep[y]) # Unvisited)'
        /\ (\A k \in DOMAIN frames : frames[k].our_dfs \in 1 .. (curr_lcd_dfs - 1))'
        /\ (\A k, l \in DOMAIN frames : k < l => frames[k].our_dfs < frames[l].our_dfs)'
        /\ (\A y \in Live : Low(y) # Unvisited)'
        /\ (\A k \in DOMAIN frames : Low(Frame(k)) <= frames[k].our_dfs)'
    BY <1>2, <1>3, <2>1, <2>2, <2>3, <2>4, <2>5 DEF Low, Frame
  <2> QED
    BY <1>4, <2>6 DEF IdInv
<1>8. Apart'
  BY <1>1, <1>2, <1>3 DEF Apart, Frame, is_rep
<1>9. MergingLcd'
  BY DEF MergingLcd
<1>10. LiveInv'
  BY <1>1, <1>3, <1>6 DEF LiveInv, Low, is_rep
<1>11. WaitInv'
  <2>1. \A k \in 1 .. (Len(frames) - 1) : g.rep[frames'[k].dest0] = g.rep[frames'[k + 1].n]
    BY <1>1, <1>2 DEF WaitInv, Frame
  <2>2. (\A k \in 1 .. (Len(frames) - 1) : g.rep[frames[k].dest0] = g.rep[Frame(k + 1)])'
    BY <2>1 DEF Frame
  <2> QED
    BY <1>4, <2>2 DEF WaitInv
<1>12. PathInv(S)'
  <2> SUFFICES ASSUME NEW k \in DOMAIN frames
               PROVE  /\ S[frames'[k].n] # {}
                      /\ \A l \in DOMAIN frames : k <= l => S[frames'[k].n] \subseteq S[frames'[l].n]
                      /\ \A e \in frames'[k].edges \cup frames'[k].add_copy :
                           S[frames'[k].n] \subseteq S[e]
                      /\ frames'[k].waits => S[frames'[k].n] \subseteq S[frames'[k].dest0]
    BY DEF PathInv, Frame
  <2>1. S[frames'[k].n] # {}
        /\ \A l \in DOMAIN frames : k <= l => S[frames'[k].n] \subseteq S[frames'[l].n]
    BY <1>1, <1>2 DEF PathInv, Frame
  <2>2. CASE k < N
    <3>1. frames'[k] = frames[k]
      BY <1>2, <2>2
    <3> QED
      BY <1>1, <2>1, <3>1 DEF PathInv, Frame
  <2>3. CASE k = N
    BY <2>1, <2>3
  <2> QED
    BY <1>2, <2>2, <2>3
<1>13. DownInv(S)'
  <2>1. \A y \in Stacked : lcd_dfs_id'[y] = lcd_dfs_id[y]
    BY <1>3
  <2> QED
    BY <1>1, <1>2, <1>3, <2>1 DEF DownInv, Low, Frame
<1>14. UpInv(S)'
  <2>1. ASSUME NEW y \in Live, NEW k \in DOMAIN frames, lcd_dfs_id'[y] < frames[k].our_dfs
        PROVE  k > 1 /\ S[y] \subseteq S[frames[k - 1].n]
    <3>1. CASE lcd_dfs_id'[y] = lcd_dfs_id[y]
      BY <1>1, <2>1, <3>1 DEF UpInv, Low, Frame
    <3>2. CASE lcd_dfs_id'[y] # lcd_dfs_id[y]
      <4>1. y = x
        BY <1>3, <3>2
      <4>2. PICK d \in Live : lcd_dfs_id'[x] = lcd_dfs_id[d] /\ S[x] \subseteq S[d]
        BY <3>2, <4>1
      <4>3. k > 1 /\ S[d] \subseteq S[frames[k - 1].n]
        BY <1>1, <2>1, <4>1, <4>2 DEF UpInv, Low, Frame
      <4> QED
        BY <4>1, <4>2, <4>3
    <3> QED
      BY <3>1, <3>2
  <2>2. ASSUME NEW k \in DOMAIN frames, k > 1
        PROVE  frames'[k - 1].n = frames[k - 1].n
    <3>1. k - 1 \in DOMAIN frames
      BY <1>2, <2>2
    <3> QED
      BY <1>2, <3>1
  <2>3. \A y \in Stacked : frames' # <<>> /\ S[y] \subseteq S[Last(frames').n]
    <3>1. frames' # <<>>
      <4>1. Len(frames') # 0
        BY <1>1, <1>2
      <4> QED
        BY <4>1
    <3>2. Last(frames').n = x /\ Last(frames).n = x
      BY <1>1, <1>4
    <3> QED
      BY <1>1, <3>1, <3>2 DEF UpInv
  <2>4. \A y \in Live : \A k \in DOMAIN frames :
          lcd_dfs_id'[y] < frames'[k].our_dfs => k > 1 /\ S[y] \subseteq S[frames'[k - 1].n]
    BY <1>2, <2>1, <2>2
  <2> QED
    BY <1>3, <2>3, <2>4 DEF UpInv, Low, Frame
<1>15. OrderInv'
  <2>1. SUFFICES ASSUME NEW i \in DOMAIN lcd_stk, NEW j \in DOMAIN lcd_stk, NEW k \in DOMAIN frames,
                        i < j, lcd_dfs_id'[lcd_stk[i]] >= frames'[k].our_dfs,
                        lcd_dfs_id'[lcd_stk[j]] < frames'[k].our_dfs
                 PROVE  \E l \in k .. N : lcd_dfs_id'[frames'[l].n] < frames'[k].our_dfs
    BY DEF OrderInv, NoRoot, Low, Frame
  <2>2. lcd_stk[i] \in Stacked /\ lcd_stk[j] \in Stacked
    BY DEF Stacked
  <2>3. NoRoot(k)
    BY <1>1, <1>2, <1>3, <2>1, <2>2 DEF OrderInv, Low
  <2>4. CASE \E l \in k .. N : lcd_dfs_id[frames[l].n] < frames[k].our_dfs
    <3>1. PICK l \in k .. N : lcd_dfs_id[frames[l].n] < frames[k].our_dfs
      BY <2>4
    <3>2. l \in DOMAIN frames /\ frames[l].n \in Node
      BY <1>2, <3>1
    <3>3. lcd_dfs_id'[frames[l].n] <= lcd_dfs_id[frames[l].n] /\ lcd_dfs_id'[frames[l].n] \in Int
          /\ lcd_dfs_id[frames[l].n] \in Int /\ frames[k].our_dfs \in Nat
      BY <1>2, <1>5, <1>6, <3>2
    <3>4. lcd_dfs_id'[frames'[l].n] < frames'[k].our_dfs
      BY <1>2, <3>1, <3>2, <3>3
    <3> QED
      BY <3>1, <3>4
  <2>5. CASE frames[N].waits /\ lcd_dfs_id[g.rep[frames[N].dest0]] < frames[k].our_dfs
    <3>1. g.rep[frames[N].dest0] \in Node /\ lcd_dfs_id[g.rep[frames[N].dest0]] \in Int
      BY <1>1, <1>5, LcdTypes
    <3>2. lcd_dfs_id'[x] < frames[k].our_dfs
      BY <1>2, <1>6, <2>5, <3>1
    <3>3. N \in k .. N
      BY <1>1, <1>2
    <3> QED
      BY <1>2, <3>2, <3>3
  <2> QED
    BY <1>1, <2>3, <2>4, <2>5 DEF NoRoot, Low, Frame
<1>16. IdleInv'
  BY <1>4 DEF IdleInv
<1> QED
  BY <1>1, <1>7, <1>8, <1>9, <1>10, <1>11, <1>12, <1>13, <1>14, <1>15, <1>16 DEF LcdBelowInv, LcdBelow

LEMMA LcdStartBelow ==
  ASSUME IInv, NEW S, BelowInv(S), LcdBelowInv(S), LcdStart
  PROVE  LcdBelowInv(S)'
<1> DEFINE x == Min(lcd_todo)
<1>1. /\ UNCHANGED <<g, lcd_stk, lcd_roots>> /\ pc = "lcd" /\ lcd_todo' = lcd_todo \ {x}
      /\ lcd_todo # {}
  BY DEF LcdStart, graphVars
<1>2. x \in Node /\ x \in lcd_todo
  <2>1. lcd_todo \in SUBSET Node
    BY DEF IInv, LcdInv, LcdType
  <2> QED
    BY <1>1, <2>1, MinMember, NodeAssumption
<1>3. LcdBelow(S)
  BY <1>1 DEF LcdBelowInv
<1>4. /\ frames = <<>> /\ lcd_stk = <<>> /\ (\A y \in lcd_todo : S[y] # {})
      /\ curr_lcd_dfs >= 1 /\ curr_lcd_dfs \in Nat
      /\ (\A y \in Node : lcd_dfs_id[y] = Unvisited \/ lcd_dfs_id[y] \in 1 .. (curr_lcd_dfs - 1))
      /\ (\A y \in Node : lcd_dfs_id[y] # Unvisited => lcd_dfs_id[g.rep[y]] # Unvisited)
      /\ (\A d \in Node : g.rep[d] = d /\ lcd_dfs_id[d] # Unvisited => d \in lcd_roots)
  BY <1>1, <1>3, EmptyMeans, LcdTypes DEF Low, is_rep
<1>5. CASE ~is_rep(g, x) \/ lcd_dfs_id[x] # Unvisited
  <2>1. UNCHANGED <<pc, frames, lcd_dfs_id, curr_lcd_dfs>>
    BY <1>5 DEF LcdStart
  <2>2. LcdBelow(S)'
    BY <1>1, <1>4, <2>1, LcdEmpty
  <2> QED
    BY <2>2 DEF LcdBelowInv
<1>6. CASE is_rep(g, x) /\ lcd_dfs_id[x] = Unvisited
  <2> SUFFICES ASSUME pc' # "abort" PROVE LcdBelow(S)'
    BY DEF LcdBelowInv
  <2>1. /\ frames' = <<NewFrame(x)>>
        /\ lcd_dfs_id' = [lcd_dfs_id EXCEPT ![x] = curr_lcd_dfs]
        /\ curr_lcd_dfs' = curr_lcd_dfs + 1
        /\ pc' = "dfs"
    BY <1>6 DEF LcdStart
  <2> HIDE DEF x
  <2>2. /\ lcd_dfs_id'[x] = curr_lcd_dfs
        /\ \A y \in Node : y # x => lcd_dfs_id'[y] = lcd_dfs_id[y]
        /\ curr_lcd_dfs # Unvisited
    BY <1>2, <1>4, <2>1, LcdTypes DEF Unvisited
  <2>3. DOMAIN frames' = {1} /\ Len(frames') = 1 /\ Last(frames') = frames'[1]
        /\ frames'[1].n = x /\ frames'[1].our_dfs = curr_lcd_dfs /\ ~frames'[1].waits
        /\ frames'[1].edges = g.copy_to[x] /\ frames'[1].add_copy = {}
    BY <2>1 DEF NewFrame, Last
  <2>4. DOMAIN lcd_stk' = {} /\ Stacked' = {} /\ Live' = {x} /\ ~Collapsing' /\ InLcd'
    <3>1. DOMAIN lcd_stk' = {} /\ ~Collapsing' /\ InLcd'
      BY <1>1, <1>4, <2>1 DEF Collapsing, InLcd
    <3>2. Stacked' = {}
      BY <3>1 DEF Stacked
    <3>3. {Frame(k) : k \in DOMAIN frames}' = {x}
      BY <2>3 DEF Frame
    <3> QED
      BY <3>1, <3>2, <3>3 DEF Live
  <2>5. IdInv'
    <3>1. /\ \A y \in Node : lcd_dfs_id'[y] = Unvisited \/ lcd_dfs_id'[y] \in 1 .. (curr_lcd_dfs' - 1)
          /\ \A y \in Node : lcd_dfs_id'[y] # Unvisited => lcd_dfs_id'[g.rep[y]] # Unvisited
          /\ curr_lcd_dfs' >= 1
      <4>1. \A y \in Node : lcd_dfs_id'[y] = Unvisited \/ lcd_dfs_id'[y] \in 1 .. (curr_lcd_dfs' - 1)
        <5> SUFFICES ASSUME NEW y \in Node
                     PROVE  lcd_dfs_id'[y] = Unvisited \/ lcd_dfs_id'[y] \in 1 .. (curr_lcd_dfs' - 1)
          OBVIOUS
        <5>1. CASE y = x
          BY <1>4, <2>1, <2>2, <5>1
        <5>2. CASE y # x
          BY <1>4, <2>1, <2>2, <5>2
        <5> QED
          BY <5>1, <5>2
      <4>2. \A y \in Node : lcd_dfs_id'[y] # Unvisited => lcd_dfs_id'[g.rep[y]] # Unvisited
        BY <1>4, <1>6, <2>2, LcdTypes DEF is_rep
      <4> QED
        BY <1>4, <2>1, <4>1, <4>2
    <3>2. /\ (curr_lcd_dfs >= 1)'
          /\ (\A y \in Node : Low(y) = Unvisited \/ Low(y) \in 1 .. (curr_lcd_dfs - 1))'
          /\ (\A y \in Node : Low(y) # Unvisited => Low(g.rep[y]) # Unvisited)'
      BY <1>1, <3>1 DEF Low
    <3>3. /\ (\A k \in DOMAIN frames : frames[k].our_dfs \in 1 .. (curr_lcd_dfs - 1))'
          /\ (\A k, l \in DOMAIN frames : k < l => frames[k].our_dfs < frames[l].our_dfs)'
          /\ (\A y \in Live : Low(y) # Unvisited)'
          /\ (\A k \in DOMAIN frames : Low(Frame(k)) <= frames[k].our_dfs)'
      BY <1>4, <2>1, <2>2, <2>3, <2>4 DEF Low, Frame
    <3> QED
      BY <2>4, <3>2, <3>3 DEF IdInv
  <2>6. Apart' /\ MergingLcd'
    BY <1>1, <1>6, <2>1, <2>3, <2>4 DEF Apart, MergingLcd, Frame, is_rep
  <2>7. LiveInv'
    BY <1>1, <1>4, <2>2, <2>4 DEF LiveInv, Low, is_rep
  <2>8. WaitInv' /\ DownInv(S)' /\ OrderInv'
    BY <2>3, <2>4 DEF WaitInv, DownInv, OrderInv
  <2>9. PathInv(S)'
    <3>1. S[x] # {} /\ \A e \in g.copy_to[x] : S[x] \subseteq S[e]
      BY <1>2, <1>4, GraphAbove DEF Under
    <3> QED
      BY <2>3, <3>1 DEF PathInv, Frame
  <2>10. UpInv(S)'
    BY <1>4, <2>2, <2>3, <2>4 DEF UpInv, Low, Frame
  <2>11. IdleInv' /\ (\A y \in lcd_todo : S[y] # {})'
    BY <1>1, <1>4, <2>1, <2>4 DEF IdleInv
  <2> QED
    BY <2>5, <2>6, <2>7, <2>8, <2>9, <2>10, <2>11 DEF LcdBelow
<1> QED
  BY <1>5, <1>6

LEMMA PushedFrame ==
  ASSUME NEW s \in Seq(DfsFrame), s # <<>>, NEW d0 \in Node, NEW t \in DfsFrame
  PROVE  LET N == Len(s)
             r == Append([s EXCEPT ![N].waits = TRUE, ![N].dest0 = d0], t)
         IN /\ DOMAIN r = 1 .. (N + 1) /\ Len(r) = N + 1
            /\ \A k \in 1 .. (N - 1) : r[k] = s[k]
            /\ \A k \in 1 .. N : r[k].n = s[k].n /\ r[k].our_dfs = s[k].our_dfs
                                 /\ r[k].edges = s[k].edges /\ r[k].add_copy = s[k].add_copy
            /\ r[N].dest0 = d0 /\ r[N + 1] = t
<1> DEFINE N == Len(s)
           u == [s EXCEPT ![N].waits = TRUE, ![N].dest0 = d0]
           v == [s[N] EXCEPT !.waits = TRUE, !.dest0 = d0]
           r == Append(u, t)
<1>1. N \in Nat \ {0} /\ N \in 1 .. N /\ s[N] \in DfsFrame /\ DOMAIN s = 1 .. N
  OBVIOUS
<1>2. u = [s EXCEPT ![N] = v]
  BY <1>1
<1>3. v \in DfsFrame /\ v.n = s[N].n /\ v.our_dfs = s[N].our_dfs /\ v.edges = s[N].edges
      /\ v.add_copy = s[N].add_copy /\ v.dest0 = d0
  BY <1>1 DEF DfsFrame
<1> HIDE DEF u, v
<1>4. u \in Seq(DfsFrame) /\ Len(u) = N /\ \A k \in 1 .. N : u[k] = IF k = N THEN v ELSE s[k]
  BY <1>1, <1>2, <1>3
<1> HIDE DEF N
<1>5. DOMAIN r = 1 .. (N + 1) /\ Len(r) = N + 1 /\ r[N + 1] = t
      /\ \A k \in 1 .. N : r[k] = IF k = N THEN v ELSE s[k]
  BY <1>1, <1>4
<1> HIDE DEF r
<1>6. \A k \in 1 .. (N - 1) : r[k] = s[k]
  BY <1>1, <1>5
<1>7. r[N] = v
  BY <1>1, <1>5
<1>8. \A k \in 1 .. N : r[k].n = s[k].n /\ r[k].our_dfs = s[k].our_dfs
                        /\ r[k].edges = s[k].edges /\ r[k].add_copy = s[k].add_copy
  BY <1>3, <1>5
<1> QED
  BY <1>3, <1>5, <1>6, <1>7, <1>8 DEF r, u, N

(* The recursion over the edge to d0, which ends at d.                     *)
LEMMA DfsDownBelow ==
  ASSUME IInv, NEW S, BelowInv(S), LcdBelowInv(S), pc = "dfs", pc' = "dfs",
         UNCHANGED <<g, lcd_stk, lcd_roots, lcd_todo>>,
         NEW N \in Nat, N = Len(frames),
         NEW x \in Node, x = Last(frames).n, ~Last(frames).waits,
         NEW d0 \in Last(frames).edges, NEW d \in Node, d = g.rep[d0],
         lcd_dfs_id[d] = Unvisited,
         DOMAIN frames' = 1 .. (N + 1), Len(frames') = N + 1,
         \A k \in 1 .. (N - 1) : frames'[k] = frames[k],
         \A k \in 1 .. N : frames'[k].n = frames[k].n /\ frames'[k].our_dfs = frames[k].our_dfs
                           /\ frames'[k].edges = frames[k].edges
                           /\ frames'[k].add_copy = frames[k].add_copy,
         frames'[N].dest0 = d0,
         frames'[N + 1].n = d, frames'[N + 1].our_dfs = curr_lcd_dfs,
         ~frames'[N + 1].waits, frames'[N + 1].edges = g.copy_to[d],
         frames'[N + 1].add_copy = {},
         lcd_dfs_id'[d] = curr_lcd_dfs,
         \A y \in Node : y # d => lcd_dfs_id'[y] = lcd_dfs_id[y],
         curr_lcd_dfs' = curr_lcd_dfs + 1
  PROVE  LcdBelowInv(S)'
<1>1. /\ IdInv /\ Apart /\ LiveInv /\ WaitInv /\ PathInv(S) /\ DownInv(S) /\ UpInv(S) /\ OrderInv
      /\ N \in DOMAIN frames /\ N >= 1 /\ Last(frames) = frames[N]
      /\ (\A y \in lcd_todo : S[y] # {})
  BY InDfs
<1>2. /\ DOMAIN frames = 1 .. N /\ N \in Nat /\ curr_lcd_dfs \in Nat
      /\ \A k \in DOMAIN frames : frames[k].our_dfs \in Nat /\ frames[k].n \in Node
  BY LcdTypes
<1>3. /\ DOMAIN frames' = 1 .. (N + 1) /\ Len(frames') = N + 1
      /\ \A k \in 1 .. (N - 1) : frames'[k] = frames[k]
      /\ \A k \in 1 .. N : frames'[k].n = frames[k].n /\ frames'[k].our_dfs = frames[k].our_dfs
                           /\ frames'[k].edges = frames[k].edges
                           /\ frames'[k].add_copy = frames[k].add_copy
      /\ frames'[N].dest0 = d0 /\ frames'[N].n = x
  <2>1. N \in 1 .. N
    BY <1>1, <1>2
  <2> QED
    BY <1>1, <2>1
<1>4. /\ frames'[N + 1].n = d /\ frames'[N + 1].our_dfs = curr_lcd_dfs
      /\ ~frames'[N + 1].waits /\ frames'[N + 1].edges = g.copy_to[d]
      /\ frames'[N + 1].add_copy = {}
  OBVIOUS
<1>5. \A k \in DOMAIN frames' : k \in DOMAIN frames \/ k = N + 1
  BY <1>2, <1>3
<1>6. Stacked' = Stacked /\ Live' = Live \cup {d} /\ d \notin Live /\ Live \subseteq Node
  <2>1. Stacked' = Stacked
    BY DEF Stacked
  <2>2. {Frame(k) : k \in DOMAIN frames}' = {Frame(k) : k \in DOMAIN frames} \cup {d}
    <3>1. \A k \in DOMAIN frames' : frames'[k].n = IF k = N + 1 THEN d ELSE frames[k].n
      BY <1>2, <1>3, <1>4
    <3>2. \A k \in DOMAIN frames : k # N + 1 /\ k \in DOMAIN frames'
      BY <1>2, <1>3
    <3>3. N + 1 \in DOMAIN frames'
      BY <1>2, <1>3
    <3> QED
      BY <1>5, <3>1, <3>2, <3>3 DEF Frame
  <2>3. d \notin Live
    BY <1>1 DEF IdInv, Low
  <2> QED
    BY <2>1, <2>2, <2>3, LcdTypes DEF Live
<1>7. ~Collapsing /\ ~Collapsing' /\ InLcd' /\ Last(frames') = frames'[N + 1]
  BY <1>3 DEF Collapsing, InLcd, Last
<1>8. /\ lcd_dfs_id'[d] = curr_lcd_dfs /\ curr_lcd_dfs # Unvisited
      /\ \A y \in Node : y # d => lcd_dfs_id'[y] = lcd_dfs_id[y]
      /\ \A y \in Node : lcd_dfs_id[y] \in Int
      /\ \A y \in Node : lcd_dfs_id[y] = Unvisited \/ lcd_dfs_id[y] \in 1 .. (curr_lcd_dfs - 1)
  BY <1>1, <1>2, LcdTypes DEF Unvisited, IdInv, Low
<1>9. \A k \in DOMAIN frames : frames[k].n # d
  BY <1>6 DEF Live, Frame
<1>10. \A k \in DOMAIN frames : frames[k].our_dfs < curr_lcd_dfs
  BY <1>1, <1>2 DEF IdInv
<1>11. IdInv'
  <2>1. \A y \in Node : lcd_dfs_id'[y] = Unvisited \/ lcd_dfs_id'[y] \in 1 .. (curr_lcd_dfs' - 1)
    <3> SUFFICES ASSUME NEW y \in Node
                 PROVE  lcd_dfs_id'[y] = Unvisited \/ lcd_dfs_id'[y] \in 1 .. (curr_lcd_dfs' - 1)
      OBVIOUS
    <3>0. curr_lcd_dfs >= 1
      BY <1>1 DEF IdInv
    <3>1. CASE y = d
      BY <1>2, <1>8, <3>0, <3>1
    <3>2. CASE y # d
      BY <1>2, <1>8, <3>2
    <3> QED
      BY <3>1, <3>2
  <2>2. \A y \in Node : lcd_dfs_id'[y] # Unvisited => lcd_dfs_id'[g.rep[y]] # Unvisited
    <3>1. \A y \in Node : lcd_dfs_id[y] # Unvisited => lcd_dfs_id[g.rep[y]] # Unvisited
      BY <1>1 DEF IdInv, Low
    <3>2. g.rep[d] = d /\ \A y \in Node : g.rep[y] \in Node
      <4>1. d0 \in Node
        BY <1>1, LcdTypes
      <4> QED
        BY <4>1, LcdTypes
    <3> QED
      BY <1>8, <3>1, <3>2
  <2>3. \A k \in DOMAIN frames' : lcd_dfs_id'[frames'[k].n] <= frames'[k].our_dfs
    <3>1. \A k \in DOMAIN frames : lcd_dfs_id'[frames[k].n] <= frames[k].our_dfs
      BY <1>1, <1>2, <1>7, <1>8, <1>9 DEF IdInv, Low, Frame
    <3>2. lcd_dfs_id'[d] <= curr_lcd_dfs
      BY <1>2, <1>8
    <3> QED
      BY <1>2, <1>3, <1>4, <1>5, <3>1, <3>2
  <2>4. \A y \in Live \cup {d} : lcd_dfs_id'[y] # Unvisited
    BY <1>1, <1>6, <1>8 DEF IdInv, Low
  <2>5. \A k \in DOMAIN frames' : frames'[k].our_dfs \in 1 .. (curr_lcd_dfs' - 1)
    <3> SUFFICES ASSUME NEW k \in DOMAIN frames'
                 PROVE  frames'[k].our_dfs \in 1 .. (curr_lcd_dfs' - 1)
      OBVIOUS
    <3>0. curr_lcd_dfs >= 1
      BY <1>1 DEF IdInv
    <3>1. CASE k \in DOMAIN frames
      <4>1. frames[k].our_dfs \in 1 .. (curr_lcd_dfs - 1) /\ frames'[k].our_dfs = frames[k].our_dfs
        BY <1>1, <1>2, <1>3, <3>1 DEF IdInv
      <4> QED
        BY <1>2, <4>1
    <3>2. CASE k = N + 1
      BY <1>2, <1>4, <3>0, <3>2
    <3> QED
      BY <1>5, <3>1, <3>2
  <2>6. \A k, l \in DOMAIN frames' : k < l => frames'[k].our_dfs < frames'[l].our_dfs
    <3> SUFFICES ASSUME NEW k \in DOMAIN frames', NEW l \in DOMAIN frames', k < l
                 PROVE  frames'[k].our_dfs < frames'[l].our_dfs
      OBVIOUS
    <3>1. k \in DOMAIN frames
      BY <1>2, <1>3
    <3>2. CASE l \in DOMAIN frames
      BY <1>1, <1>2, <1>3, <3>1, <3>2 DEF IdInv
    <3>3. CASE l = N + 1
      BY <1>2, <1>3, <1>4, <1>10, <3>1, <3>3
    <3> QED
      BY <1>5, <3>2, <3>3
  <2>7. /\ (curr_lcd_dfs >= 1)'
        /\ (\A y \in Node : Low(y) = Unvisited \/ Low(y) \in 1 .. (curr_lcd_dfs - 1))'
        /\ (\A y \in Node : Low(y) # Unvisited => Low(g.rep[y]) # Unvisited)'
        /\ (\A k \in DOMAIN frames : frames[k].our_dfs \in 1 .. (curr_lcd_dfs - 1))'
        /\ (\A k, l \in DOMAIN frames : k < l => frames[k].our_dfs < frames[l].our_dfs)'
        /\ (\A y \in Live : Low(y) # Unvisited)'
        /\ (\A k \in DOMAIN frames : Low(Frame(k)) <= frames[k].our_dfs)'
    BY <1>2, <1>6, <2>1, <2>2, <2>3, <2>4, <2>5, <2>6 DEF Low, Frame
  <2> QED
    BY <1>7, <2>7 DEF IdInv
<1>12. Apart'
  <2>1. \A i, j \in DOMAIN lcd_stk : i # j => lcd_stk[i] # lcd_stk[j]
    BY <1>1 DEF Apart
  <2>2. \A k, l \in DOMAIN frames' : k # l => frames'[k].n # frames'[l].n
    <3>1. \A k, l \in DOMAIN frames : k # l => frames[k].n # frames[l].n
      BY <1>1 DEF Apart, Frame
    <3> QED
      BY <1>2, <1>3, <1>4, <1>5, <1>9, <3>1
  <2>3. \A k \in DOMAIN frames' : frames'[k].n \notin Stacked
    <3>1. \A k \in DOMAIN frames : frames[k].n \notin Stacked
      BY <1>1 DEF Apart, Frame
    <3> QED
      BY <1>2, <1>3, <1>4, <1>5, <1>6, <3>1 DEF Live
  <2>4. \A y \in Live \cup {d} : g.rep[y] = y
    <3>1. g.rep[d] = d
      <4>1. d0 \in Node
        BY <1>1, LcdTypes
      <4> QED
        BY <4>1, LcdTypes
    <3> QED
      BY <1>1, <3>1 DEF Apart, is_rep
  <2> QED
    BY <1>6, <2>1, <2>2, <2>3, <2>4 DEF Apart, Frame, is_rep
<1>13. MergingLcd'
  BY DEF MergingLcd
<1>14. LiveInv'
  BY <1>1, <1>6, <1>8 DEF LiveInv, Low, is_rep
<1>15. WaitInv'
  <2>1. ASSUME NEW k \in 1 .. N PROVE g.rep[frames'[k].dest0] = g.rep[frames'[k + 1].n]
    <3>1. CASE k = N
      <4>1. d0 \in Node
        BY <1>1, LcdTypes
      <4> QED
        BY <1>3, <1>4, <3>1, <4>1, LcdTypes
    <3>2. CASE k # N
      <4>1. k \in 1 .. (N - 1) /\ k + 1 \in 1 .. N
        BY <1>2, <3>2
      <4>2. frames'[k] = frames[k] /\ frames'[k + 1].n = frames[k + 1].n
        BY <1>3, <4>1
      <4> QED
        BY <1>1, <4>1, <4>2 DEF WaitInv, Frame
    <3> QED
      BY <3>1, <3>2
  <2>2. Len(frames') - 1 = N
    BY <1>2, <1>3
  <2>3. (\A k \in 1 .. (Len(frames) - 1) : g.rep[frames[k].dest0] = g.rep[Frame(k + 1)])'
    BY <2>1, <2>2 DEF Frame
  <2> QED
    BY <1>4, <1>7, <2>3 DEF WaitInv
<1>16. S[x] # {} /\ S[x] \subseteq S[d] /\ S[x] \subseteq S[d0]
       /\ \A k \in DOMAIN frames : S[frames[k].n] \subseteq S[x]
  <2>1. S[x] # {} /\ S[x] \subseteq S[d0] /\ \A k \in DOMAIN frames : S[frames[k].n] \subseteq S[x]
    BY <1>1, <1>2 DEF PathInv, Frame
  <2>2. S[d] = S[d0]
    <3>1. d0 \in Node
      BY <1>1, LcdTypes
    <3> QED
      BY <3>1, GraphAbove
  <2> QED
    BY <2>1, <2>2
<1>17. PathInv(S)'
  <2> SUFFICES ASSUME NEW k \in DOMAIN frames'
               PROVE  /\ S[frames'[k].n] # {}
                      /\ \A l \in DOMAIN frames' : k <= l => S[frames'[k].n] \subseteq S[frames'[l].n]
                      /\ \A e \in frames'[k].edges \cup frames'[k].add_copy :
                           S[frames'[k].n] \subseteq S[e]
                      /\ frames'[k].waits => S[frames'[k].n] \subseteq S[frames'[k].dest0]
    BY DEF PathInv, Frame
  <2>1. CASE k = N + 1
    <3>1. \A l \in DOMAIN frames' : k <= l => l = N + 1
      BY <1>2, <1>3, <2>1
    <3>2. S[d] # {}
      BY <1>16
    <3>3. \A e \in g.copy_to[d] : S[d] \subseteq S[e]
      BY GraphAbove DEF Under
    <3> QED
      BY <1>4, <2>1, <3>1, <3>2, <3>3
  <2>2. CASE k \in DOMAIN frames
    <3>1. k \in 1 .. N
      BY <1>2, <2>2
    <3>2. \A l \in DOMAIN frames' : k <= l => S[frames'[k].n] \subseteq S[frames'[l].n]
      <4> SUFFICES ASSUME NEW l \in DOMAIN frames', k <= l
                   PROVE  S[frames'[k].n] \subseteq S[frames'[l].n]
        OBVIOUS
      <4>1. CASE l \in DOMAIN frames
        BY <1>1, <1>2, <1>3, <2>2, <4>1 DEF PathInv, Frame
      <4>2. CASE l = N + 1
        BY <1>3, <1>4, <1>16, <2>2, <3>1, <4>2
      <4> QED
        BY <1>5, <4>1, <4>2
    <3>3. S[frames'[k].n] # {} /\ \A e \in frames'[k].edges \cup frames'[k].add_copy :
                                     S[frames'[k].n] \subseteq S[e]
      <4>1. S[frames[k].n] # {} /\ \A e \in frames[k].edges \cup frames[k].add_copy :
                                     S[frames[k].n] \subseteq S[e]
        BY <1>1, <2>2 DEF PathInv, Frame
      <4>2. frames'[k].n = frames[k].n /\ frames'[k].edges = frames[k].edges
            /\ frames'[k].add_copy = frames[k].add_copy
        BY <1>3, <3>1
      <4> QED
        BY <4>1, <4>2
    <3>4. frames'[k].waits => S[frames'[k].n] \subseteq S[frames'[k].dest0]
      <4>1. CASE k = N
        BY <1>3, <1>16, <4>1
      <4>2. CASE k # N
        <5>1. frames'[k] = frames[k]
          BY <1>2, <1>3, <3>1, <4>2
        <5> QED
          BY <1>1, <2>2, <5>1 DEF PathInv, Frame
      <4> QED
        BY <4>1, <4>2
    <3> QED
      BY <3>2, <3>3, <3>4
  <2> QED
    BY <1>5, <2>1, <2>2
<1>18. \A y \in Stacked : y \in Live /\ y \in Node /\ lcd_dfs_id'[y] = lcd_dfs_id[y]
                          /\ lcd_dfs_id'[y] < curr_lcd_dfs
  <2> SUFFICES ASSUME NEW y \in Stacked
               PROVE  y \in Live /\ y \in Node /\ lcd_dfs_id'[y] = lcd_dfs_id[y]
                          /\ lcd_dfs_id'[y] < curr_lcd_dfs
    OBVIOUS
  <2>1. y \in Live /\ y \in Node /\ y # d /\ lcd_dfs_id[y] # Unvisited
    BY <1>1, <1>6 DEF Live, IdInv, Low
  <2>2. lcd_dfs_id'[y] = lcd_dfs_id[y] /\ lcd_dfs_id[y] \in 1 .. (curr_lcd_dfs - 1)
    BY <1>8, <2>1
  <2> QED
    BY <1>2, <2>1, <2>2
<1>19. DownInv(S)'
  <2> SUFFICES ASSUME NEW y \in Stacked, NEW k \in DOMAIN frames',
                      frames'[k].our_dfs <= lcd_dfs_id'[y]
               PROVE  S[frames'[k].n] \subseteq S[y]
    BY <1>6 DEF DownInv, Low, Frame
  <2>1. k # N + 1
    BY <1>2, <1>4, <1>8, <1>18
  <2>2. k \in DOMAIN frames /\ k \in 1 .. N
    BY <1>2, <1>5, <2>1
  <2> QED
    BY <1>1, <1>3, <1>18, <2>2 DEF DownInv, Low, Frame
<1>20. UpInv(S)'
  <2>1. ASSUME NEW y \in Live \cup {d}, NEW k \in DOMAIN frames', lcd_dfs_id'[y] < frames'[k].our_dfs
        PROVE  k > 1 /\ S[y] \subseteq S[frames'[k - 1].n]
    <3>1. CASE k = N + 1
      <4>1. y # d
        BY <1>2, <1>4, <1>8, <2>1, <3>1
      <4>2. S[y] \subseteq S[x]
        <5>1. CASE y \in Stacked
          BY <1>1, <5>1 DEF UpInv
        <5>2. CASE y \notin Stacked
          BY <1>16, <2>1, <4>1, <5>2 DEF Live, Frame
        <5> QED
          BY <5>1, <5>2
      <4>3. k - 1 = N
        BY <1>2, <3>1
      <4> QED
        BY <1>1, <1>2, <1>3, <3>1, <4>2, <4>3
    <3>2. CASE k \in DOMAIN frames
      <4>0. k \in 1 .. N /\ frames'[k].our_dfs = frames[k].our_dfs /\ frames[k].our_dfs < curr_lcd_dfs
            /\ frames[k].our_dfs \in Nat
        BY <1>2, <1>3, <1>10, <3>2
      <4>1. y # d
        BY <1>2, <1>8, <2>1, <4>0
      <4>2. y \in Live /\ y \in Node /\ lcd_dfs_id'[y] = lcd_dfs_id[y]
        BY <1>6, <1>8, <2>1, <4>1
      <4>3. k > 1 /\ S[y] \subseteq S[frames[k - 1].n]
        BY <1>1, <2>1, <3>2, <4>0, <4>2 DEF UpInv, Low, Frame
      <4>4. k - 1 \in 1 .. N
        BY <1>2, <4>0, <4>3
      <4> QED
        BY <1>3, <4>3, <4>4
    <3> QED
      BY <1>5, <3>1, <3>2
  <2>2. \A y \in Stacked : S[y] \subseteq S[frames'[N + 1].n]
    BY <1>1, <1>4, <1>16 DEF UpInv
  <2>3. frames' # <<>>
    <3>1. Len(frames') # 0
      BY <1>2, <1>3
    <3> QED
      BY <3>1
  <2>4. (\A y \in Live : \A k \in DOMAIN frames :
            Low(y) < frames[k].our_dfs => k > 1 /\ S[y] \subseteq S[Frame(k - 1)])'
    BY <1>6, <2>1 DEF Low, Frame
  <2>5. (\A y \in Stacked : frames # <<>> /\ S[y] \subseteq S[Last(frames).n])'
    BY <1>6, <1>7, <2>2, <2>3
  <2> QED
    BY <2>4, <2>5 DEF UpInv
<1>21. OrderInv'
  <2> SUFFICES ASSUME NEW i \in DOMAIN lcd_stk, NEW j \in DOMAIN lcd_stk, NEW k \in DOMAIN frames',
                      i < j, lcd_dfs_id'[lcd_stk[i]] >= frames'[k].our_dfs,
                      lcd_dfs_id'[lcd_stk[j]] < frames'[k].our_dfs
               PROVE  \E l \in k .. Len(frames') : lcd_dfs_id'[frames'[l].n] < frames'[k].our_dfs
    BY DEF OrderInv, NoRoot, Low, Frame
  <2>1. lcd_stk[i] \in Stacked /\ lcd_stk[j] \in Stacked
    BY DEF Stacked
  <2>2. lcd_dfs_id'[lcd_stk[i]] < curr_lcd_dfs /\ lcd_dfs_id'[lcd_stk[i]] = lcd_dfs_id[lcd_stk[i]]
        /\ lcd_dfs_id'[lcd_stk[j]] = lcd_dfs_id[lcd_stk[j]] /\ lcd_dfs_id[lcd_stk[i]] \in Int
    BY <1>8, <1>18, <2>1
  <2>3. k # N + 1
    BY <1>2, <1>4, <2>2
  <2>4. k \in DOMAIN frames /\ k \in 1 .. N /\ frames'[k].our_dfs = frames[k].our_dfs
    BY <1>2, <1>3, <1>5, <2>3
  <2>5. NoRoot(k)
    BY <1>1, <2>2, <2>4 DEF OrderInv, Low
  <2>6. PICK l \in k .. N : lcd_dfs_id[frames[l].n] < frames[k].our_dfs
    BY <1>1, <2>5 DEF NoRoot, Low, Frame
  <2>7. l \in DOMAIN frames /\ l \in 1 .. N /\ l \in k .. Len(frames')
    BY <1>2, <1>3, <2>4, <2>6
  <2>8. frames'[l].n = frames[l].n /\ lcd_dfs_id'[frames[l].n] = lcd_dfs_id[frames[l].n]
    BY <1>2, <1>3, <1>8, <1>9, <2>7
  <2> QED
    BY <2>4, <2>6, <2>7, <2>8
<1>22. IdleInv'
  BY <1>7 DEF IdleInv
<1> QED
  BY <1>1, <1>11, <1>12, <1>13, <1>14, <1>15, <1>17, <1>19, <1>20, <1>21, <1>22 DEF LcdBelowInv, LcdBelow

LEMMA EdgeKept ==
  ASSUME NEW s \in Seq(DfsFrame), s # <<>>, NEW f \in DfsFrame,
         f.n = s[Len(s)].n, f.our_dfs = s[Len(s)].our_dfs, NEW r, r = [s EXCEPT ![Len(s)] = f]
  PROVE  /\ Len(r) = Len(s) /\ DOMAIN r = DOMAIN s /\ r[Len(s)] = f
         /\ \A k \in 1 .. (Len(s) - 1) : r[k] = s[k]
<1>1. Len(s) \in Nat \ {0} /\ Len(s) \in DOMAIN s
  OBVIOUS
<1> QED
  BY <1>1

LEMMA RelinkFields ==
  ASSUME NEW f \in DfsFrame, NEW d0 \in Node, NEW d \in Node
  PROVE  LET r == Relink(f, d0, d)
         IN /\ r \in DfsFrame /\ r.n = f.n /\ r.our_dfs = f.our_dfs /\ ~r.waits
            /\ r.edges = f.edges \ {d0} /\ r.add_copy \subseteq f.add_copy \cup {d}
BY DEF Relink, DfsFrame

LEMMA LowerMeans ==
  ASSUME NEW ids \in [Node -> Int], NEW x \in Node, NEW id \in Int
  PROVE  LET r == Lower(ids, x, id)
         IN /\ \A y \in Node : y # x => r[y] = ids[y]
            /\ r[x] = ids[x] \/ (r[x] = id /\ id < ids[x])
            /\ r[x] <= id
BY DEF Lower

LEMMA DfsEdgeBelow ==
  ASSUME IInv, NEW S, BelowInv(S), LcdBelowInv(S), DfsEdge
  PROVE  LcdBelowInv(S)'
<1> SUFFICES ASSUME pc' # "abort" PROVE LcdBelowInv(S)'
  BY DEF LcdBelowInv
<1> DEFINE k == Len(frames)
           f == frames[k]
           d0 == Min(f.edges)
           d == get_node_rep(d0)
           skip == d \in f.add_copy \/ d = f.n
           down == d \notin lcd_roots /\ lcd_dfs_id[d] = Unvisited
           ids == IF d \in lcd_roots THEN lcd_dfs_id
                  ELSE Lower(lcd_dfs_id, f.n, lcd_dfs_id[d])
<1>1. /\ UNCHANGED <<g, lcd_stk, lcd_roots, lcd_todo>> /\ pc = "dfs" /\ ~f.waits /\ f.edges # {}
  BY DEF DfsEdge, graphVars
<1>2. /\ PathInv(S) /\ LiveInv /\ IdInv /\ k \in DOMAIN frames /\ k >= 1 /\ Last(frames) = f
      /\ frames # <<>>
  BY <1>1, InDfs
<1>3. /\ frames \in Seq(DfsFrame) /\ k \in Nat /\ f \in DfsFrame /\ f.n \in Node
      /\ f.edges \in SUBSET Node
  BY <1>2, LcdTypes
<1>4. d0 \in f.edges /\ d0 \in Node
  BY <1>1, <1>3, MinMember, NodeAssumption
<1>5. d \in Node /\ g.rep[d] = d /\ S[d] = S[d0]
  BY <1>4, LcdTypes, GraphAbove DEF get_node_rep
<1>6. /\ \A e \in f.edges \cup f.add_copy : S[f.n] \subseteq S[e]
      /\ S[f.n] \subseteq S[d]
  BY <1>2, <1>4, <1>5 DEF PathInv, Frame
<1>7. d0 # f.n
  BY DEF DfsEdge
<1>8. CASE skip
  <2> DEFINE r == [f EXCEPT !.edges = @ \ {d0}, !.del_copy = @ \cup {d0}]
  <2>1. /\ frames' = [frames EXCEPT ![k].edges = @ \ {d0}, ![k].del_copy = @ \cup {d0}]
        /\ UNCHANGED <<pc, lcd_dfs_id, curr_lcd_dfs>>
    BY <1>7, <1>8 DEF DfsEdge
  <2>2. frames' = [frames EXCEPT ![k] = r]
    BY <1>2, <1>3, <2>1
  <2>3. r \in DfsFrame /\ r.n = f.n /\ r.our_dfs = f.our_dfs /\ ~r.waits
        /\ r.edges = f.edges \ {d0} /\ r.add_copy = f.add_copy
    BY <1>1, <1>3, <1>4 DEF DfsFrame
  <2> HIDE DEF r, d0, d
  <2>4. /\ Len(frames') = k /\ DOMAIN frames' = DOMAIN frames /\ frames'[k] = r
        /\ \A i \in 1 .. (k - 1) : frames'[i] = frames[i]
    BY <1>2, <1>3, <2>2, <2>3, EdgeKept
  <2> HIDE DEF f
  <2>5. \A e \in r.edges \cup r.add_copy : S[f.n] \subseteq S[e]
    BY <1>6, <2>3
  <2> QED
    BY <1>1, <1>3, <2>1, <2>3, <2>4, <2>5, TopRelinked DEF f
<1>9. CASE ~skip /\ down
  <2>1. /\ frames' = Append([frames EXCEPT ![k].waits = TRUE, ![k].dest0 = d0], NewFrame(d))
        /\ lcd_dfs_id' = [lcd_dfs_id EXCEPT ![d] = curr_lcd_dfs]
        /\ curr_lcd_dfs' = curr_lcd_dfs + 1
        /\ pc' = "dfs"
    BY <1>1, <1>7, <1>9 DEF DfsEdge
  <2>2. NewFrame(d) \in DfsFrame
    BY <1>5, NewFrameType
  <2>3. /\ NewFrame(d).n = d /\ NewFrame(d).our_dfs = curr_lcd_dfs /\ ~NewFrame(d).waits
        /\ NewFrame(d).edges = g.copy_to[d] /\ NewFrame(d).add_copy = {}
    BY DEF NewFrame
  <2>4. lcd_dfs_id[d] = Unvisited
    BY <1>9
  <2>5. d = g.rep[d0] /\ d0 \in Last(frames).edges
    BY <1>2, <1>4 DEF get_node_rep
  <2> HIDE DEF d0, d, f
  <2>6. /\ DOMAIN frames' = 1 .. (k + 1) /\ Len(frames') = k + 1
        /\ \A i \in 1 .. (k - 1) : frames'[i] = frames[i]
        /\ \A i \in 1 .. k : frames'[i].n = frames[i].n /\ frames'[i].our_dfs = frames[i].our_dfs
                              /\ frames'[i].edges = frames[i].edges
                              /\ frames'[i].add_copy = frames[i].add_copy
        /\ frames'[k].dest0 = d0 /\ frames'[k + 1] = NewFrame(d)
    <3> DEFINE t == NewFrame(d)
               r == Append([frames EXCEPT ![Len(frames)].waits = TRUE,
                                          ![Len(frames)].dest0 = d0], t)
    <3>1. frames' = r
      BY <2>1
    <3>2. t \in DfsFrame
      BY <2>2
    <3> HIDE DEF t
    <3>3. /\ DOMAIN r = 1 .. (k + 1) /\ Len(r) = k + 1
          /\ \A i \in 1 .. (k - 1) : r[i] = frames[i]
          /\ \A i \in 1 .. k : r[i].n = frames[i].n /\ r[i].our_dfs = frames[i].our_dfs
                                /\ r[i].edges = frames[i].edges
                                /\ r[i].add_copy = frames[i].add_copy
          /\ r[k].dest0 = d0 /\ r[k + 1] = t
      <4>1. frames \in Seq(DfsFrame) /\ frames # <<>> /\ d0 \in Node
        BY <1>2, <1>3, <1>4
      <4> QED
        BY <3>2, <4>1, PushedFrame
    <3> HIDE DEF r
    <3> QED
      BY <3>1, <3>3 DEF t
  <2>7. /\ lcd_dfs_id'[d] = curr_lcd_dfs
        /\ \A y \in Node : y # d => lcd_dfs_id'[y] = lcd_dfs_id[y]
    BY <1>5, <2>1, LcdTypes
  <2>8. curr_lcd_dfs' = curr_lcd_dfs + 1 /\ pc' = "dfs"
    BY <2>1, SMTT(30)
  <2> QED
    BY <1>1, <1>2, <1>3, <1>5, <2>3, <2>4, <2>5, <2>6, <2>7, <2>8, DfsDownBelow
<1>10. CASE ~skip /\ ~down
  <2>1. /\ frames' = [frames EXCEPT ![k] = Relink(f, d0, d)]
        /\ lcd_dfs_id' = ids
        /\ UNCHANGED <<pc, curr_lcd_dfs>>
    BY <1>7, <1>10 DEF DfsEdge
  <2> DEFINE r == Relink(f, d0, d)
  <2>2. r \in DfsFrame /\ r.n = f.n /\ r.our_dfs = f.our_dfs /\ ~r.waits
        /\ r.edges = f.edges \ {d0} /\ r.add_copy \subseteq f.add_copy \cup {d}
    <3>1. f \in DfsFrame /\ d0 \in Node /\ d \in Node
      BY <1>3, <1>4, <1>5
    <3> HIDE DEF f, d0, d
    <3> QED
      BY <3>1, RelinkFields
  <2>3. /\ \A y \in Node : y # f.n => lcd_dfs_id'[y] = lcd_dfs_id[y]
        /\ \/ lcd_dfs_id'[f.n] = lcd_dfs_id[f.n]
           \/ \E e \in Live : /\ lcd_dfs_id'[f.n] = lcd_dfs_id[e]
                              /\ lcd_dfs_id[e] < lcd_dfs_id[f.n] /\ S[f.n] \subseteq S[e]
    <3>1. CASE d \in lcd_roots
      BY <2>1, <3>1
    <3>2. CASE d \notin lcd_roots
      <4>1. lcd_dfs_id[d] # Unvisited
        BY <1>10, <3>2
      <4>2. lcd_dfs_id' = Lower(lcd_dfs_id, f.n, lcd_dfs_id[d])
        BY <2>1, <3>2
      <4> HIDE DEF d, f
      <4>3. d \in Live
        BY <1>1, <1>2, <1>5, <3>2, <4>1 DEF LiveInv, is_rep, Low
      <4>4. /\ \A y \in Node : y # f.n => lcd_dfs_id'[y] = lcd_dfs_id[y]
            /\ \/ lcd_dfs_id'[f.n] = lcd_dfs_id[f.n]
               \/ lcd_dfs_id'[f.n] = lcd_dfs_id[d] /\ lcd_dfs_id[d] < lcd_dfs_id[f.n]
        BY <1>3, <1>5, <4>2, LcdTypes, LowerMeans, SMTT(30)
      <4>5. S[f.n] \subseteq S[d]
        BY <1>6
      <4> QED
        BY ONLY <4>3, <4>4, <4>5
    <3> QED
      BY <3>1, <3>2
  <2> HIDE DEF r, d0, d, ids
  <2>4. /\ Len(frames') = k /\ DOMAIN frames' = DOMAIN frames /\ frames'[k] = r
        /\ \A i \in 1 .. (k - 1) : frames'[i] = frames[i]
    BY <1>2, <1>3, <2>1, <2>2, EdgeKept DEF r
  <2> HIDE DEF f
  <2>5. \A e \in r.edges \cup r.add_copy : S[f.n] \subseteq S[e]
    BY <1>6, <2>2, SMTT(30)
  <2> QED
    BY <1>1, <1>3, <2>1, <2>2, <2>3, <2>4, <2>5, TopRelinked DEF f
<1> QED
  BY <1>8, <1>9, <1>10

-----------------------------------------------------------------------------
(* The steps that leave a frame: its node waits on the stack or is a root. *)

LEMMA DfsReturnBelow ==
  ASSUME IInv, NEW S, BelowInv(S), LcdBelowInv(S), DfsReturn
  PROVE  LcdBelowInv(S)'
<1> SUFFICES ASSUME pc' # "abort" PROVE LcdBelowInv(S)'
  BY DEF LcdBelowInv
<1> DEFINE k == Len(frames)
           f == frames[k]
           d == get_node_rep(f.dest0)
           id == IF lcd_dfs_id[d] = Unvisited THEN 0 ELSE lcd_dfs_id[d]
<1>1. /\ UNCHANGED <<g, lcd_stk, lcd_roots, lcd_todo, curr_lcd_dfs>> /\ pc = "dfs" /\ pc' = "dfs"
      /\ f.waits
  BY DEF DfsReturn, graphVars
<1>2. /\ PathInv(S) /\ WaitInv /\ IdInv /\ k \in DOMAIN frames /\ k >= 1 /\ Last(frames) = f
      /\ frames # <<>>
  BY <1>1, InDfs
<1>3. /\ frames \in Seq(DfsFrame) /\ k \in Nat /\ f \in DfsFrame /\ f.n \in Node
      /\ f.dest0 \in Node /\ f.our_dfs \in Nat
  BY <1>2, LcdTypes
<1>4. d \in Node /\ S[d] = S[f.dest0] /\ d = g.rep[f.dest0]
  BY <1>3, LcdTypes, GraphAbove DEF get_node_rep
<1>5. /\ \A e \in f.edges \cup f.add_copy : S[f.n] \subseteq S[e]
      /\ S[f.n] \subseteq S[d]
      /\ \A e \in g.copy_to[f.n] : S[f.n] \subseteq S[e]
  <2>1. /\ \A e \in f.edges \cup f.add_copy : S[f.n] \subseteq S[e]
        /\ S[f.n] \subseteq S[f.dest0]
    BY <1>1, <1>2 DEF PathInv, Frame
  <2>2. S[f.n] \subseteq S[d]
    BY <1>4, <2>1
  <2>3. \A e \in g.copy_to[f.n] : S[f.n] \subseteq S[e]
    BY <1>3, GraphAbove DEF Under
  <2> QED
    BY <2>1, <2>2, <2>3
<1>6. PICK late \in SUBSET {x \in g.copy_to[f.n] \ f.edges : x > f.dest0} :
        frames' = [frames EXCEPT ![k] = [Relink(f, f.dest0, d) EXCEPT !.edges = @ \cup late]]
  BY DEF DfsReturn
<1> DEFINE q == Relink(f, f.dest0, d)
           r == [q EXCEPT !.edges = @ \cup late]
<1>7. r \in DfsFrame /\ r.n = f.n /\ r.our_dfs = f.our_dfs /\ ~r.waits
      /\ r.edges \subseteq f.edges \cup g.copy_to[f.n] /\ r.add_copy \subseteq f.add_copy \cup {d}
  <2>1. q \in DfsFrame /\ q.n = f.n /\ q.our_dfs = f.our_dfs /\ ~q.waits
        /\ q.edges = f.edges \ {f.dest0} /\ q.add_copy \subseteq f.add_copy \cup {d}
    <3>1. f \in DfsFrame /\ f.dest0 \in Node /\ d \in Node
      BY <1>3, <1>4
    <3> HIDE DEF f, d
    <3> QED
      BY <3>1, RelinkFields
  <2> HIDE DEF q, f, d
  <2>2. g.copy_to[f.n] \subseteq Node
    BY <1>3, GraphAbove
  <2>3. late \subseteq g.copy_to[f.n]
    OBVIOUS
  <2> QED
    BY <2>1, <2>2, <2>3 DEF DfsFrame
<1>8. lcd_dfs_id[d] # Unvisited /\ (d \in Live \/ lcd_dfs_id[d] > f.our_dfs)
      /\ lcd_dfs_id[f.n] <= f.our_dfs
  <2>1. d \in Live \/ lcd_dfs_id[d] > f.our_dfs
    BY <1>1, <1>2, <1>4 DEF WaitInv, Low
  <2>2. f.our_dfs \in Nat /\ \A y \in Live : lcd_dfs_id[y] # Unvisited
    BY <1>2, <1>3 DEF IdInv, Low
  <2>3. lcd_dfs_id[f.n] <= f.our_dfs
    BY <1>1, <1>2 DEF IdInv, Low, Frame, Collapsing
  <2> HIDE DEF d, f
  <2> QED
    BY <2>1, <2>2, <2>3 DEF Unvisited
<1>9. lcd_dfs_id' = Lower(lcd_dfs_id, f.n, lcd_dfs_id[d])
  <2>1. lcd_dfs_id' = Lower([lcd_dfs_id EXCEPT ![d] = id], f.n, id)
    BY DEF DfsReturn
  <2>2. id = lcd_dfs_id[d]
    BY <1>8
  <2>3. [lcd_dfs_id EXCEPT ![d] = lcd_dfs_id[d]] = lcd_dfs_id
    BY <1>4, LcdTypes
  <2> HIDE DEF id, d, f
  <2> QED
    BY <2>1, <2>2, <2>3
<1> HIDE DEF d, f, id, r, q
<1>10. /\ \A y \in Node : y # f.n => lcd_dfs_id'[y] = lcd_dfs_id[y]
       /\ \/ lcd_dfs_id'[f.n] = lcd_dfs_id[f.n]
          \/ lcd_dfs_id'[f.n] = lcd_dfs_id[d] /\ lcd_dfs_id[d] < lcd_dfs_id[f.n]
       /\ lcd_dfs_id'[f.n] <= lcd_dfs_id[d]
  <2>1. lcd_dfs_id \in [Node -> Int] /\ f.n \in Node /\ lcd_dfs_id[d] \in Int
    BY <1>3, <1>4, LcdTypes
  <2> QED
    BY <1>9, <2>1, LowerMeans
<1>11. \/ lcd_dfs_id'[f.n] = lcd_dfs_id[f.n]
       \/ \E e \in Live : /\ lcd_dfs_id'[f.n] = lcd_dfs_id[e]
                          /\ lcd_dfs_id[e] < lcd_dfs_id[f.n] /\ S[f.n] \subseteq S[e]
  <2>1. lcd_dfs_id[d] \in Int /\ lcd_dfs_id[f.n] \in Int
    BY <1>3, <1>4, LcdTypes
  <2>2. CASE d \in Live
    BY <1>5, <1>10, <2>2
  <2>3. CASE lcd_dfs_id[d] > f.our_dfs
    BY <1>3, <1>8, <1>10, <2>1, <2>3
  <2> QED
    BY <1>8, <2>2, <2>3
<1>12. /\ Len(frames') = k /\ DOMAIN frames' = DOMAIN frames /\ frames'[k] = r
       /\ \A i \in 1 .. (k - 1) : frames'[i] = frames[i]
  <2>1. frames' = [frames EXCEPT ![k] = r]
    BY <1>6 DEF r, q
  <2>2. r.n = frames[k].n /\ r.our_dfs = frames[k].our_dfs
    BY <1>7 DEF f
  <2> QED
    BY <1>2, <1>3, <1>7, <2>1, <2>2, EdgeKept
<1>13. \A e \in r.edges \cup r.add_copy : S[f.n] \subseteq S[e]
  BY <1>5, <1>7
<1>14. lcd_dfs_id'[f.n] <= lcd_dfs_id[g.rep[frames[k].dest0]]
  BY <1>4, <1>10 DEF f
<1> QED
  BY <1>1, <1>3, <1>7, <1>10, <1>11, <1>12, <1>13, <1>14, TopRelinked DEF f

LEMMA AppendStack ==
  ASSUME NEW s \in Seq(Node), NEW x \in Node, NEW r, r = Append(s, x)
  PROVE  /\ DOMAIN r = 1 .. (Len(s) + 1) /\ Len(r) = Len(s) + 1
         /\ \A i \in 1 .. Len(s) : r[i] = s[i]
         /\ r[Len(s) + 1] = x
OBVIOUS

LEMMA FrontSeq ==
  ASSUME NEW T, NEW s \in Seq(T), s # <<>>, NEW r, r = Front(s)
  PROVE  /\ DOMAIN r = 1 .. (Len(s) - 1) /\ Len(r) = Len(s) - 1
         /\ \A i \in 1 .. (Len(s) - 1) : r[i] = s[i]
<1>1. r \in Seq(T) /\ Len(r) = Len(s) - 1 /\ (\A i \in 1 .. (Len(s) - 1) : r[i] = s[i])
  BY FrontLast
<1> QED
  BY <1>1

(* The node x of the innermost frame waits on the stack for its root.      *)
LEMMA DfsWaitBelow ==
  ASSUME IInv, NEW S, LcdBelowInv(S), pc = "dfs", pc' = "dfs",
         g'.rep = g.rep,
         UNCHANGED <<lcd_roots, lcd_todo, lcd_dfs_id, curr_lcd_dfs>>,
         NEW N \in Nat, N = Len(frames), NEW M \in Nat, M = Len(lcd_stk),
         NEW x \in Node, x = frames[N].n, ~frames[N].waits,
         lcd_dfs_id[x] < frames[N].our_dfs,
         N > 1,
         DOMAIN frames' = 1 .. (N - 1), Len(frames') = N - 1,
         \A k \in 1 .. (N - 1) : frames'[k] = frames[k],
         DOMAIN lcd_stk' = 1 .. (M + 1),
         \A i \in 1 .. M : lcd_stk'[i] = lcd_stk[i],
         lcd_stk'[M + 1] = x
  PROVE  LcdBelowInv(S)'
<1>1. /\ IdInv /\ Apart /\ LiveInv /\ WaitInv /\ PathInv(S) /\ DownInv(S) /\ UpInv(S) /\ OrderInv
      /\ N \in DOMAIN frames /\ Last(frames) = frames[N]
      /\ (\A y \in lcd_todo : S[y] # {})
  BY InDfs
<1>2. /\ DOMAIN frames = 1 .. N /\ DOMAIN lcd_stk = 1 .. M
      /\ \A k \in DOMAIN frames : frames[k].our_dfs \in Nat /\ frames[k].n \in Node
      /\ \A y \in Node : lcd_dfs_id[y] \in Int
      /\ Live \subseteq Node
  BY LcdTypes
<1>3. /\ \A k \in DOMAIN frames' : k \in DOMAIN frames /\ k \in 1 .. (N - 1) /\ frames'[k] = frames[k]
      /\ \A k \in DOMAIN frames : k \in DOMAIN frames' \/ k = N
      /\ N - 1 \in DOMAIN frames' /\ N - 1 \in DOMAIN frames
      /\ ~Collapsing /\ ~Collapsing' /\ InLcd' /\ Last(frames') = frames'[N - 1]
      /\ frames' # <<>>
  <2>1. /\ \A k \in DOMAIN frames' : k \in DOMAIN frames /\ k \in 1 .. (N - 1) /\ frames'[k] = frames[k]
        /\ \A k \in DOMAIN frames : k \in DOMAIN frames' \/ k = N
        /\ N - 1 \in DOMAIN frames' /\ N - 1 \in DOMAIN frames
    BY <1>2
  <2>2. ~Collapsing /\ ~Collapsing' /\ InLcd' /\ Last(frames') = frames'[N - 1]
    BY DEF Collapsing, InLcd, Last
  <2>3. frames' # <<>>
    <3>1. Len(frames') # 0
      OBVIOUS
    <3> QED
      BY <3>1
  <2> QED
    BY <2>1, <2>2, <2>3
<1>4. /\ Stacked' = Stacked \cup {x} /\ x \notin Stacked /\ Live' = Live /\ x \in Live
  <2>1. Stacked' = Stacked \cup {x}
    <3>1. \A i \in DOMAIN lcd_stk' : i \in DOMAIN lcd_stk \/ i = M + 1
      BY <1>2
    <3>2. M + 1 \in DOMAIN lcd_stk' /\ \A i \in DOMAIN lcd_stk : i \in DOMAIN lcd_stk'
      BY <1>2
    <3> QED
      BY <1>2, <3>1, <3>2, ZenonT(60) DEF Stacked
  <2>2. x \notin Stacked
    BY <1>1 DEF Apart, Frame
  <2>3. {Frame(k) : k \in DOMAIN frames} = {Frame(k) : k \in DOMAIN frames}' \cup {x}
    BY <1>1, <1>3 DEF Frame
  <2> QED
    BY <2>1, <2>2, <2>3 DEF Live
<1>5. IdInv'
  <2>1. \A k \in DOMAIN frames : lcd_dfs_id[frames[k].n] <= frames[k].our_dfs
    BY <1>1, <1>3 DEF IdInv, Low, Frame
  <2>2. /\ (curr_lcd_dfs >= 1)'
        /\ (\A y \in Node : Low(y) = Unvisited \/ Low(y) \in 1 .. (curr_lcd_dfs - 1))'
        /\ (\A y \in Node : Low(y) # Unvisited => Low(g.rep[y]) # Unvisited)'
        /\ (\A k \in DOMAIN frames : frames[k].our_dfs \in 1 .. (curr_lcd_dfs - 1))'
        /\ (\A k, l \in DOMAIN frames : k < l => frames[k].our_dfs < frames[l].our_dfs)'
        /\ (\A y \in Live : Low(y) # Unvisited)'
        /\ (\A k \in DOMAIN frames : Low(Frame(k)) <= frames[k].our_dfs)'
    BY <1>1, <1>3, <1>4, <2>1 DEF IdInv, Low, Frame
  <2> QED
    BY <1>3, <2>2 DEF IdInv
<1>6. Apart'
  <2>1. \A i, j \in DOMAIN lcd_stk' : i # j => lcd_stk'[i] # lcd_stk'[j]
    <3>1. \A i \in DOMAIN lcd_stk' : i \in DOMAIN lcd_stk \/ i = M + 1
      BY <1>2
    <3>2. \A i \in DOMAIN lcd_stk : lcd_stk'[i] = lcd_stk[i] /\ lcd_stk[i] # x
      BY <1>2, <1>4 DEF Stacked
    <3> QED
      BY <1>1, <3>1, <3>2 DEF Apart
  <2>2. \A k, l \in DOMAIN frames' : k # l => frames'[k].n # frames'[l].n
    BY <1>1, <1>3 DEF Apart, Frame
  <2>3. \A k \in DOMAIN frames' : frames'[k].n \notin Stacked /\ frames'[k].n # x
    <3>1. \A k \in 1 .. (N - 1) : k # N
      OBVIOUS
    <3> QED
      BY <1>1, <1>3, <3>1, SMTT(30) DEF Apart, Frame
  <2>4. \A y \in Live : g.rep[y] = y
    BY <1>1 DEF Apart, is_rep
  <2> QED
    BY <1>4, <2>1, <2>2, <2>3, <2>4 DEF Apart, Frame, is_rep
<1>7. MergingLcd'
  BY DEF MergingLcd
<1>8. LiveInv'
  BY <1>1, <1>4 DEF LiveInv, Low, is_rep
<1>9. frames[N - 1].waits /\ g.rep[frames[N - 1].dest0] = x
  <2>1. N - 1 \in 1 .. (Len(frames) - 1)
    OBVIOUS
  <2>2. frames[N - 1].waits
    BY <2>1 DEF IInv, LcdInv
  <2>3. g.rep[frames[N - 1].dest0] = g.rep[frames[N].n]
    BY <1>1, <2>1 DEF WaitInv, Frame
  <2>4. g.rep[x] = x
    BY <1>1, <1>4 DEF Apart, is_rep
  <2> QED
    BY <2>2, <2>3, <2>4
<1>10. WaitInv'
  <2>1. \A k \in 1 .. (N - 1 - 1) : k \in 1 .. (Len(frames) - 1) /\ k + 1 \in 1 .. (N - 1)
                                    /\ k \in 1 .. (N - 1)
    OBVIOUS
  <2>2. \A k \in 1 .. (N - 1 - 1) : g.rep[frames'[k].dest0] = g.rep[frames'[k + 1].n]
    BY <1>1, <2>1 DEF WaitInv, Frame
  <2>3. (\A k \in 1 .. (Len(frames) - 1) : g.rep[frames[k].dest0] = g.rep[Frame(k + 1)])'
    BY <2>2 DEF Frame
  <2>4. g.rep[frames'[N - 1].dest0] \in Live
    BY <1>3, <1>4, <1>9
  <2>5. (LET d == g.rep[Last(frames).dest0]
         IN d \in Live \/ Low(d) > Last(frames).our_dfs)'
    BY <1>3, <1>4, <2>4
  <2> QED
    BY <1>3, <2>3, <2>5 DEF WaitInv
<1>11. PathInv(S)'
  <2> SUFFICES ASSUME NEW k \in DOMAIN frames'
               PROVE  /\ S[frames'[k].n] # {}
                      /\ \A l \in DOMAIN frames' : k <= l => S[frames'[k].n] \subseteq S[frames'[l].n]
                      /\ \A e \in frames'[k].edges \cup frames'[k].add_copy : S[frames'[k].n] \subseteq S[e]
                      /\ frames'[k].waits => S[frames'[k].n] \subseteq S[frames'[k].dest0]
    BY DEF PathInv, Frame
  <2>1. k \in DOMAIN frames /\ frames'[k] = frames[k]
    BY <1>3
  <2>2. /\ S[frames[k].n] # {}
        /\ \A e \in frames[k].edges \cup frames[k].add_copy : S[frames[k].n] \subseteq S[e]
        /\ frames[k].waits => S[frames[k].n] \subseteq S[frames[k].dest0]
    BY <1>1, <2>1 DEF PathInv, Frame
  <2>3. \A l \in DOMAIN frames : k <= l => S[frames[k].n] \subseteq S[frames[l].n]
    BY <1>1, <2>1 DEF PathInv, Frame
  <2>4. \A l \in DOMAIN frames' : k <= l => S[frames'[k].n] \subseteq S[frames'[l].n]
    BY <1>3, <2>1, <2>3
  <2> QED
    BY <2>1, <2>2, <2>4
<1>12. S[x] \subseteq S[frames[N - 1].n]
  BY <1>1, <1>4 DEF UpInv, Low, Frame
<1>13. DownInv(S)'
  <2> SUFFICES ASSUME NEW y \in Stacked \cup {x}, NEW k \in DOMAIN frames',
                      frames'[k].our_dfs <= lcd_dfs_id[y]
               PROVE  S[frames'[k].n] \subseteq S[y]
    BY <1>4 DEF DownInv, Low, Frame
  <2>1. CASE y \in Stacked
    BY <1>1, <1>3, <2>1 DEF DownInv, Low, Frame
  <2>2. CASE y = x
    <3>1. k <= N
      BY <1>3
    <3> QED
      BY <1>1, <1>3, <2>2, <3>1 DEF PathInv, Frame
  <2> QED
    BY <2>1, <2>2
<1>14. UpInv(S)'
  <2>1. ASSUME NEW y \in Live, NEW k \in DOMAIN frames', lcd_dfs_id[y] < frames'[k].our_dfs
        PROVE  k > 1 /\ S[y] \subseteq S[frames'[k - 1].n]
    <3>1. k > 1 /\ S[y] \subseteq S[frames[k - 1].n]
      BY <1>1, <1>3, <2>1 DEF UpInv, Low, Frame
    <3>2. k - 1 \in 1 .. (N - 1)
      BY <1>3, <3>1
    <3> QED
      BY <3>1, <3>2
  <2>2. ASSUME NEW y \in Stacked \cup {x} PROVE S[y] \subseteq S[frames'[N - 1].n]
    <3>1. S[y] \subseteq S[x]
      BY <1>1, <2>2 DEF UpInv
    <3> QED
      BY <1>3, <1>12, <3>1
  <2>3. (\A y \in Live : \A k \in DOMAIN frames :
            Low(y) < frames[k].our_dfs => k > 1 /\ S[y] \subseteq S[Frame(k - 1)])'
    BY <1>4, <2>1 DEF Low, Frame
  <2>4. (\A y \in Stacked : frames # <<>> /\ S[y] \subseteq S[Last(frames).n])'
    BY <1>3, <1>4, <2>2
  <2> QED
    BY <2>3, <2>4 DEF UpInv
<1>15. OrderInv'
  <2> SUFFICES ASSUME NEW i \in DOMAIN lcd_stk', NEW j \in DOMAIN lcd_stk', NEW k \in DOMAIN frames',
                      i < j, lcd_dfs_id[lcd_stk'[i]] >= frames'[k].our_dfs,
                      lcd_dfs_id[lcd_stk'[j]] < frames'[k].our_dfs
               PROVE  NoRoot(k)'
    BY DEF OrderInv, Low
  <2>1. k \in DOMAIN frames /\ frames'[k] = frames[k] /\ k \in 1 .. (N - 1)
    BY <1>3
  <2>2. lcd_dfs_id[x] < frames[k].our_dfs => NoRoot(k)'
    <3>1. lcd_dfs_id[x] < frames[k].our_dfs
          => Last(frames').waits /\ lcd_dfs_id'[g'.rep[Last(frames').dest0]] < frames'[k].our_dfs
      BY <1>3, <1>9, <2>1
    <3> QED
      BY <3>1 DEF NoRoot, Low
  <2>3. CASE j = M + 1
    BY <2>1, <2>2, <2>3
  <2>4. CASE j # M + 1
    <3>1. i \in DOMAIN lcd_stk /\ j \in DOMAIN lcd_stk
      BY <1>2, <2>4
    <3>2. lcd_stk'[i] = lcd_stk[i] /\ lcd_stk'[j] = lcd_stk[j]
      BY <1>2, <3>1
    <3>3. NoRoot(k)
      BY <1>1, <2>1, <3>1, <3>2 DEF OrderInv, Low
    <3>4. PICK l \in k .. N : lcd_dfs_id[frames[l].n] < frames[k].our_dfs
      BY <1>1, <3>3 DEF NoRoot, Low, Frame
    <3>5. CASE l = N
      BY <2>2, <3>4, <3>5
    <3>6. CASE l # N
      <4>1. l \in k .. (N - 1) /\ l \in 1 .. (N - 1)
        BY <2>1, <3>4, <3>6
      <4>2. lcd_dfs_id'[frames'[l].n] < frames'[k].our_dfs
        BY <2>1, <3>4, <4>1
      <4> QED
        BY <4>1, <4>2 DEF NoRoot, Low, Frame
    <3> QED
      BY <3>5, <3>6
  <2> QED
    BY <2>3, <2>4
<1>16. IdleInv'
  BY <1>3 DEF IdleInv
<1> QED
  BY <1>1, <1>5, <1>6, <1>7, <1>8, <1>10, <1>11, <1>13, <1>14, <1>15, <1>16 DEF LcdBelowInv, LcdBelow

-----------------------------------------------------------------------------
(* Collapsing an SCC.                                                      *)

LEMMA DfsDoneLcd ==
  ASSUME IInv, NEW S, BelowInv(S), LcdBelowInv(S), DfsDone
  PROVE  LcdBelowInv(S)'
<1> DEFINE N == Len(frames)
           f == Last(frames)
<1>1. /\ UNCHANGED <<lcd_todo, lcd_dfs_id, curr_lcd_dfs, lcd_roots>>
      /\ pc = "dfs" /\ ~f.waits
      /\ g' = [g EXCEPT !.copy_to[f.n] = (@ \ f.del_copy) \cup f.add_copy]
  BY DEF DfsDone
<1>2. g'.rep = g.rep
  <2> HIDE DEF f
  <2> QED
    BY <1>1, GraphAbove DEF Graph
<1>3. /\ IdInv /\ Apart /\ LiveInv /\ WaitInv /\ PathInv(S) /\ DownInv(S) /\ UpInv(S) /\ OrderInv
      /\ N \in DOMAIN frames /\ N >= 1 /\ Last(frames) = frames[N] /\ frames # <<>>
      /\ (\A y \in lcd_todo : S[y] # {})
  BY <1>1, InDfs
<1>4. /\ frames \in Seq(DfsFrame) /\ N \in Nat /\ lcd_stk \in Seq(Node) /\ Len(lcd_stk) \in Nat
      /\ f.n \in Node /\ f.our_dfs \in Nat /\ lcd_dfs_id[f.n] \in Int
  BY <1>3, LcdTypes
<1>5. ~Collapsing /\ lcd_dfs_id[f.n] <= f.our_dfs
  <2>1. ~Collapsing
    BY <1>1 DEF Collapsing
  <2> QED
    BY <1>3, <2>1 DEF IdInv, Low, Frame
<1>6. CASE lcd_dfs_id[f.n] = f.our_dfs
  <2>1. pc' = "collapse" /\ UNCHANGED <<frames, lcd_stk>>
    BY <1>6 DEF DfsDone
  <2>2. Collapsing' /\ InLcd' /\ Last(frames') = f /\ Live' = Live /\ Stacked' = Stacked
    BY <2>1 DEF Collapsing, InLcd, Live, Stacked, Frame
  <2>3. (Low(Frame(Len(frames))) >= frames[Len(frames)].our_dfs)'
    BY <1>1, <1>3, <1>4, <1>6, <2>1 DEF Low, Frame
  <2>4. \A k \in DOMAIN frames : Low(Frame(k)) <= frames[k].our_dfs
    BY <1>3, <1>5 DEF IdInv
  <2>5. IdInv'
    <3>1. /\ (curr_lcd_dfs >= 1)'
          /\ (\A y \in Node : Low(y) = Unvisited \/ Low(y) \in 1 .. (curr_lcd_dfs - 1))'
          /\ (\A y \in Node : Low(y) # Unvisited => Low(g.rep[y]) # Unvisited)'
          /\ (\A k \in DOMAIN frames : frames[k].our_dfs \in 1 .. (curr_lcd_dfs - 1))'
          /\ (\A k, l \in DOMAIN frames : k < l => frames[k].our_dfs < frames[l].our_dfs)'
          /\ (\A y \in Live : Low(y) # Unvisited)'
          /\ (\A k \in DOMAIN frames : Low(Frame(k)) <= frames[k].our_dfs)'
      BY <1>1, <1>2, <1>3, <2>1, <2>2, <2>4 DEF IdInv, Low, Frame
    <3> QED
      BY <2>3, <3>1 DEF IdInv
  <2>6. Apart' /\ MergingLcd'
    BY <1>1, <1>2, <1>3, <2>1, <2>2 DEF Apart, MergingLcd, is_rep, Frame
  <2>7. LiveInv'
    BY <1>1, <1>2, <1>3, <2>1, <2>2 DEF LiveInv, is_rep, Low
  <2>8. WaitInv'
    BY <1>1, <1>2, <1>3, <2>1, <2>2 DEF WaitInv, Frame
  <2>9. PathInv(S)' /\ DownInv(S)' /\ UpInv(S)'
    BY <1>1, <1>2, <1>3, <2>1, <2>2 DEF PathInv, DownInv, UpInv, Low, Frame
  <2>10. OrderInv'
    BY <1>1, <1>2, <1>3, <2>1, <2>2 DEF OrderInv, NoRoot, Low, Frame
  <2>11. IdleInv'
    BY <2>1, <2>2 DEF IdleInv
  <2> QED
    BY <1>1, <1>3, <2>5, <2>6, <2>7, <2>8, <2>9, <2>10, <2>11 DEF LcdBelowInv, LcdBelow
<1>7. CASE lcd_dfs_id[f.n] # f.our_dfs
  <2>1. lcd_stk' = Append(lcd_stk, f.n) /\ Leave
    BY <1>7 DEF DfsDone
  <2>2. lcd_dfs_id[f.n] < f.our_dfs
    BY <1>4, <1>5, <1>7
  <2>3. N > 1
    BY <1>3, <2>2 DEF UpInv, Live, Low, Frame
  <2>4. pc' = "dfs" /\ frames' = Front(frames)
    <3>1. Len(frames) # 1
      <4>1. \A m \in Nat : m > 1 => m # 1
        OBVIOUS
      <4>2. N \in Nat /\ N > 1
        BY <1>4, <2>3
      <4>3. N # 1
        BY ONLY <4>1, <4>2
      <4> QED
        BY <4>3
    <3>2. Leave
      BY <2>1
    <3> QED
      BY <3>1, <3>2 DEF Leave
  <2>5. /\ DOMAIN frames' = 1 .. (N - 1) /\ Len(frames') = N - 1
        /\ \A k \in 1 .. (N - 1) : frames'[k] = frames[k]
    BY <1>3, <1>4, <2>4, FrontSeq
  <2>6. /\ DOMAIN lcd_stk' = 1 .. (Len(lcd_stk) + 1)
        /\ \A i \in 1 .. Len(lcd_stk) : lcd_stk'[i] = lcd_stk[i]
        /\ lcd_stk'[Len(lcd_stk) + 1] = f.n
    <3> HIDE DEF f
    <3> QED
      BY <1>4, <2>1, AppendStack
  <2>7. f.n = frames[N].n /\ ~frames[N].waits /\ lcd_dfs_id[frames[N].n] < frames[N].our_dfs
    BY <1>1, <1>3, <2>2
  <2> HIDE DEF f
  <2> QED
    BY <1>1, <1>2, <1>4, <2>3, <2>4, <2>5, <2>6, <2>7, DfsWaitBelow
<1> QED
  BY <1>6, <1>7

(* The frames of two states agree but for what lcd_dfs tells its caller.   *)
FramesAlike ==
  /\ Len(frames') = Len(frames) /\ DOMAIN frames' = DOMAIN frames
  /\ \A k \in DOMAIN frames :
       /\ frames'[k].n = frames[k].n /\ frames'[k].our_dfs = frames[k].our_dfs
       /\ frames'[k].edges = frames[k].edges /\ frames'[k].add_copy = frames[k].add_copy
       /\ frames'[k].waits = frames[k].waits /\ frames'[k].dest0 = frames[k].dest0

(* The top of the stack belongs to the SCC: it and the root have equal     *)
(* sets in every solution above.                                           *)
LEMMA SccTop ==
  ASSUME IInv, NEW S, LcdBelowInv(S), pc = "collapse", InScc
  PROVE  LET x == Last(lcd_stk)
             f == frames[Len(frames)]
         IN /\ lcd_stk # <<>> /\ x = lcd_stk[Len(lcd_stk)] /\ x \in Stacked /\ x \in Node
            /\ g.rep[x] = x /\ f.n # x
            /\ S[x] = S[f.n] /\ S[f.n] # {}
            /\ lcd_dfs_id[x] >= f.our_dfs
<1> DEFINE x == Last(lcd_stk)
           f == frames[Len(frames)]
<1>1. /\ Apart /\ PathInv(S) /\ DownInv(S) /\ UpInv(S)
      /\ Len(frames) \in DOMAIN frames /\ Last(frames) = f
  BY InDfs
<1>2. lcd_stk # <<>> /\ lcd_dfs_id[x] >= f.our_dfs
  BY <1>1 DEF InScc
<1>3. lcd_stk \in Seq(Node)
  BY LcdTypes
<1>4. x = lcd_stk[Len(lcd_stk)] /\ Len(lcd_stk) \in DOMAIN lcd_stk /\ x \in Node
  BY <1>2, <1>3, FrontLast
<1> HIDE DEF x, f
<1>5. x \in Stacked
  BY <1>4 DEF Stacked
<1>6. g.rep[x] = x /\ f.n # x
  BY <1>1, <1>5 DEF Apart, Live, Frame, is_rep, f
<1>7. f.our_dfs \in Nat /\ lcd_dfs_id[x] \in Int
  BY <1>1, <1>4, LcdTypes DEF f
<1>8. f.our_dfs <= lcd_dfs_id[x]
  BY <1>2, <1>7
<1>9. S[f.n] \subseteq S[x]
  BY <1>1, <1>5, <1>8 DEF DownInv, Frame, Low, f
<1>10. S[x] \subseteq S[f.n]
  BY <1>1, <1>5 DEF UpInv
<1>11. S[f.n] # {}
  BY <1>1 DEF PathInv, Frame, f
<1> QED
  BY <1>2, <1>4, <1>5, <1>6, <1>9, <1>10, <1>11 DEF x, f

LEMMA CollapseNodeLcd ==
  ASSUME IInv, NEW S, LcdBelowInv(S), CollapseNode
  PROVE  LcdBelowInv(S)'
<1> DEFINE x == Last(lcd_stk)
           f == Last(frames)
           N == Len(frames)
           M == Len(lcd_stk)
<1>1. /\ UNCHANGED <<g, lcd_todo, lcd_dfs_id, curr_lcd_dfs, lcd_roots>>
      /\ pc = "collapse" /\ InScc /\ lcd_stk' = Front(lcd_stk)
      /\ frames' = [frames EXCEPT ![N].chg = TRUE]
  BY DEF CollapseNode, graphVars
<1>2. /\ IdInv /\ Apart /\ LiveInv /\ WaitInv /\ PathInv(S) /\ DownInv(S) /\ UpInv(S) /\ OrderInv
      /\ N \in DOMAIN frames /\ N >= 1 /\ f = frames[N] /\ frames # <<>>
      /\ (\A y \in lcd_todo : S[y] # {})
  BY <1>1, InDfs
<1>3. /\ lcd_stk # <<>> /\ x = lcd_stk[M] /\ x \in Stacked /\ x \in Node
      /\ g.rep[x] = x /\ f.n # x /\ lcd_dfs_id[x] >= f.our_dfs
  BY <1>1, <1>2, SccTop
<1>4. /\ frames \in Seq(DfsFrame) /\ N \in Nat /\ DOMAIN frames = 1 .. N
      /\ lcd_stk \in Seq(Node) /\ M \in Nat /\ DOMAIN lcd_stk = 1 .. M
      /\ f.n \in Node
  BY <1>2, LcdTypes
<1>5. /\ pc' = "merge" /\ marg' = <<f.n, x>> /\ mframes' = <<>> /\ mret' = "collapse"
  BY <1>3 DEF CollapseNode, get_node_rep
<1>6. FramesAlike
  <2>1. \A k \in DOMAIN frames : frames[k] \in DfsFrame
    BY <1>4
  <2> QED
    BY <1>1, <1>2, <1>4, <2>1 DEF FramesAlike, DfsFrame
<1>7. /\ DOMAIN lcd_stk' = 1 .. (M - 1) /\ \A i \in 1 .. (M - 1) : lcd_stk'[i] = lcd_stk[i]
  BY <1>1, <1>3, <1>4, FrontSeq
<1> HIDE DEF x, N, M, f
<1>8. M \in DOMAIN lcd_stk /\ \A i \in DOMAIN lcd_stk' : i \in DOMAIN lcd_stk /\ i # M
                                                           /\ lcd_stk'[i] = lcd_stk[i]
  <2>1. M # 0
    BY <1>3, <1>4 DEF M
  <2> QED
    BY <1>4, <1>7, <2>1
<1>9. \A i \in DOMAIN lcd_stk : i \in DOMAIN lcd_stk' \/ i = M
  BY <1>4, <1>7
<1>10. Stacked' \subseteq Stacked \ {x} /\ Stacked \subseteq Stacked' \cup {x}
  <2>1. \A i \in DOMAIN lcd_stk' : lcd_stk'[i] \in Stacked \ {x}
    BY <1>2, <1>3, <1>8 DEF Stacked, Apart
  <2>2. \A i \in DOMAIN lcd_stk : lcd_stk[i] \in Stacked' \cup {x}
    BY <1>3, <1>8, <1>9 DEF Stacked
  <2> QED
    BY <2>1, <2>2 DEF Stacked
<1>11. Live' \subseteq Live /\ Live \subseteq Live' \cup {x} /\ Stacked' \subseteq Stacked
  BY <1>6, <1>10 DEF Live, Frame, FramesAlike
<1>12. /\ Collapsing /\ Collapsing' /\ InLcd' /\ Last(frames') = frames'[N]
       /\ Len(frames) = N /\ Len(frames') = N
  BY <1>1, <1>5, <1>6 DEF Collapsing, InLcd, Last, FramesAlike, N
<1>13. IdInv'
  <2>1. /\ (curr_lcd_dfs >= 1)'
        /\ (\A y \in Node : Low(y) = Unvisited \/ Low(y) \in 1 .. (curr_lcd_dfs - 1))'
        /\ (\A y \in Node : Low(y) # Unvisited => Low(g.rep[y]) # Unvisited)'
    BY <1>1, <1>2 DEF IdInv, Low
  <2>2. /\ (\A k \in DOMAIN frames : frames[k].our_dfs \in 1 .. (curr_lcd_dfs - 1))'
        /\ (\A k, l \in DOMAIN frames : k < l => frames[k].our_dfs < frames[l].our_dfs)'
    BY <1>1, <1>2, <1>6 DEF IdInv, FramesAlike
  <2>3. (\A y \in Live : Low(y) # Unvisited)'
    BY <1>1, <1>2, <1>11 DEF IdInv, Low
  <2>4. \A k \in DOMAIN frames' : k < N => lcd_dfs_id'[frames'[k].n] <= frames'[k].our_dfs
    BY <1>1, <1>2, <1>6, <1>12 DEF IdInv, Low, Frame, FramesAlike
  <2>5. lcd_dfs_id'[frames'[N].n] >= frames'[N].our_dfs
    BY <1>1, <1>2, <1>6, <1>12 DEF IdInv, Low, Frame, FramesAlike
  <2> QED
    BY <1>12, <2>1, <2>2, <2>3, <2>4, <2>5 DEF IdInv, Low, Frame
<1>14. Apart'
  <2>1. \A i, j \in DOMAIN lcd_stk' : i # j => lcd_stk'[i] # lcd_stk'[j]
    BY <1>2, <1>8 DEF Apart
  <2>2. (\A k, l \in DOMAIN frames : k # l => Frame(k) # Frame(l))'
    BY <1>2, <1>6 DEF Apart, Frame, FramesAlike
  <2>3. (\A k \in DOMAIN frames : Frame(k) \notin Stacked)'
    BY <1>2, <1>6, <1>11 DEF Apart, Frame, FramesAlike
  <2>4. \A y \in Live' : is_rep(g, y)
    BY <1>1, <1>2, <1>11 DEF Apart
  <2> QED
    BY <1>1, <2>1, <2>2, <2>3, <2>4 DEF Apart
<1>15. MergingLcd'
  <2>1. f.n \notin Stacked' /\ x \notin Stacked'
    BY <1>2, <1>10 DEF Apart, Frame
  <2>2. \A k \in 1 .. (N - 1) : frames'[k].n # f.n /\ frames'[k].n # x
    <3>1. \A k \in 1 .. (N - 1) : k \in DOMAIN frames /\ k # N
      BY <1>4
    <3> QED
      BY <1>2, <1>3, <1>6, <3>1 DEF Apart, Frame, FramesAlike
  <2>3. f.n \in Live /\ x \in Live
    BY <1>2, <1>3 DEF Live, Frame
  <2>4. /\ lcd_dfs_id[f.n] # Unvisited /\ lcd_dfs_id[x] # Unvisited
        /\ lcd_dfs_id[f.n] >= f.our_dfs
    BY <1>2, <1>12, <2>3 DEF IdInv, Low, Frame
  <2>5. Last(frames').n = f.n /\ Last(frames').our_dfs = f.our_dfs
    BY <1>2, <1>6, <1>12 DEF FramesAlike
  <2>6. marg'[1] = f.n /\ marg'[2] = x
    BY <1>5
  <2>7. \A i \in {1, 2} :
         /\ marg'[i] \notin Stacked'
         /\ \A k \in 1 .. (Len(frames') - 1) : frames'[k].n # marg'[i]
         /\ lcd_dfs_id'[marg'[i]] # Unvisited
         /\ lcd_dfs_id'[marg'[i]] >= Last(frames').our_dfs
    BY <1>1, <1>3, <1>12, <2>1, <2>2, <2>4, <2>5, <2>6
  <2>8. marg'[1] = Last(frames').n /\ is_rep(g', marg'[2]) /\ marg'[2] # marg'[1]
    BY <1>1, <1>3, <2>5, <2>6 DEF is_rep
  <2> QED
    BY <1>5, <2>7, <2>8 DEF MergingLcd, Frame, Low
<1>16. LiveInv'
  <2>1. ~(pc \in {"merge", "unwind"}) /\ marg'[2] = x
    BY <1>1, <1>5
  <2>2. ASSUME NEW d \in Node, is_rep(g, d), lcd_dfs_id[d] # Unvisited, d \notin lcd_roots
        PROVE  d \in Live' \/ d = marg'[2]
    BY <1>2, <1>11, <2>1, <2>2 DEF LiveInv, Low
  <2> QED
    BY <1>1, <1>5, <2>2 DEF LiveInv, Low
<1>17. WaitInv'
  <2>1. ~f.waits
    BY <1>2, <1>12 DEF WaitInv, f
  <2>2. ~Last(frames').waits
    BY <1>2, <1>6, <1>12, <2>1 DEF FramesAlike
  <2>3. \A k \in 1 .. (N - 1) : g.rep[frames[k].dest0] = g.rep[frames[k + 1].n]
                                /\ k \in DOMAIN frames /\ k + 1 \in DOMAIN frames
    BY <1>2, <1>4, <1>12 DEF WaitInv, Frame
  <2>4. \A k \in 1 .. (N - 1) : g'.rep[frames'[k].dest0] = g'.rep[frames'[k + 1].n]
    BY <1>1, <1>6, <2>3 DEF FramesAlike
  <2> QED
    BY <1>12, <2>2, <2>4 DEF WaitInv, Frame
<1>18. PathInv(S)'
  BY <1>2, <1>6 DEF PathInv, Frame, FramesAlike
<1>19. DownInv(S)'
  BY <1>1, <1>2, <1>6, <1>11 DEF DownInv, Low, Frame, FramesAlike
<1>20. UpInv(S)'
  <2>1. ASSUME NEW y \in Live', NEW k \in DOMAIN frames', lcd_dfs_id'[y] < frames'[k].our_dfs
        PROVE  k > 1 /\ S[y] \subseteq S[frames'[k - 1].n]
    <3>1. k > 1 /\ S[y] \subseteq S[frames[k - 1].n]
      BY <1>1, <1>2, <1>6, <1>11, <2>1 DEF UpInv, Low, Frame, FramesAlike
    <3>2. k - 1 \in DOMAIN frames
      BY <1>4, <1>6, <2>1, <3>1 DEF FramesAlike
    <3> QED
      BY <1>6, <3>1, <3>2 DEF FramesAlike
  <2>2. \A y \in Stacked' : S[y] \subseteq S[f.n]
    BY <1>2, <1>11 DEF UpInv, f
  <2>3. frames' # <<>> /\ Last(frames').n = f.n
    <3>1. Len(frames') # 0
      BY <1>2, <1>12
    <3> QED
      BY <1>2, <1>6, <1>12, <3>1 DEF FramesAlike
  <2> QED
    BY <2>1, <2>2, <2>3 DEF UpInv, Low, Frame
<1>21. OrderInv'
  <2> SUFFICES ASSUME NEW i \in DOMAIN lcd_stk', NEW j \in DOMAIN lcd_stk', NEW k \in DOMAIN frames',
                      i < j, lcd_dfs_id'[lcd_stk'[i]] >= frames'[k].our_dfs,
                      lcd_dfs_id'[lcd_stk'[j]] < frames'[k].our_dfs
               PROVE  NoRoot(k)'
    BY DEF OrderInv, Low
  <2>1. k \in DOMAIN frames /\ frames'[k].our_dfs = frames[k].our_dfs
    BY <1>6 DEF FramesAlike
  <2>2. NoRoot(k)
    BY <1>1, <1>2, <1>8, <2>1 DEF OrderInv, Low
  <2>3. ~Last(frames).waits
    BY <1>12, <1>2 DEF WaitInv
  <2>4. PICK l \in k .. N : lcd_dfs_id[frames[l].n] < frames[k].our_dfs
    BY <2>2, <2>3, <1>12 DEF NoRoot, Low, Frame
  <2>5. l \in DOMAIN frames
    BY <1>4, <2>1
  <2>6. lcd_dfs_id'[frames'[l].n] < frames'[k].our_dfs
    BY <1>1, <1>6, <2>1, <2>4, <2>5 DEF FramesAlike
  <2> QED
    BY <1>12, <2>4, <2>6 DEF NoRoot, Low, Frame
<1>22. IdleInv'
  BY <1>5, <1>12 DEF IdleInv
<1> QED
  BY <1>1, <1>2, <1>13, <1>14, <1>15, <1>16, <1>17, <1>18, <1>19, <1>20, <1>21, <1>22
     DEF LcdBelowInv, LcdBelow

LEMMA MergeNodesLcd ==
  ASSUME IInv, NEW S, LcdBelowInv(S), NoNestedLcd, MergeNodes, mret = "collapse"
  PROVE  LcdBelowInv(S)'
<1> DEFINE a == marg[1]
           b == marg[2]
           p == Parent(g, a, b)
           c == Child(g, a, b)
           N == Len(frames)
<1>1. /\ UNCHANGED <<mret, frames, lcd_stk, lcd_todo, lcd_dfs_id, curr_lcd_dfs, lcd_roots>>
      /\ pc = "merge"
  BY DEF MergeNodes, lcdVars
<1>2. CASE ~CanMerge(g, a, b)
  <2>1. pc' = "abort"
    BY <1>2 DEF MergeNodes
  <2> QED
    BY <2>1 DEF LcdBelowInv
<1>3. CASE CanMerge(g, a, b)
  <2>1. NestedMerge(g, a, b) = <<>>
    BY <1>1 DEF NoNestedLcd
  <2>2. g' = Absorb(g, p, c) /\ marg' = <<p, p>> /\ pc' = "unwind" /\ UNCHANGED mframes
    BY <1>3, <2>1 DEF MergeNodes, Unify
  <2>3. {p, c} = {a, b} /\ p # c /\ g.rep[p] = p /\ g.rep[c] = c
    BY <1>3 DEF CanMerge, Parent, Child, is_rep
  <2>4. a \in Node /\ b \in Node
    BY DEF IInv, MergeInv, MergeType
  <2>5. /\ InLcd /\ (\A x \in lcd_todo : S[x] # {})
        /\ IdInv /\ Apart /\ MergingLcd /\ LiveInv /\ WaitInv
        /\ PathInv(S) /\ DownInv(S) /\ UpInv(S) /\ OrderInv
        /\ N \in DOMAIN frames /\ Last(frames) = frames[N]
    BY <1>1, InDfs
  <2> HIDE DEF p, c
  <2>6. \A x \in Node : g'.rep[x] = IF g.rep[x] = c THEN p ELSE g.rep[x]
    BY <2>2 DEF Absorb
  <2>7. /\ Collapsing /\ Collapsing' /\ InLcd' /\ Live' = Live /\ Stacked' = Stacked
        /\ Stacked \subseteq Node /\ Live \subseteq Node /\ DOMAIN frames = 1 .. N
        /\ ~Last(frames).waits
    <3>1. Collapsing /\ Collapsing' /\ InLcd' /\ Live' = Live /\ Stacked' = Stacked
      BY <1>1, <2>2 DEF Collapsing, InLcd, Live, Stacked, Frame
    <3>2. ~Last(frames).waits
      BY <2>5, <3>1 DEF WaitInv
    <3> QED
      BY <3>1, <3>2, LcdTypes
  <2>8. /\ \A x \in {a, b} : /\ x \notin Stacked
                             /\ \A k \in 1 .. (N - 1) : frames[k].n # x
                             /\ lcd_dfs_id[x] # Unvisited
                             /\ lcd_dfs_id[x] >= frames[N].our_dfs
        /\ mframes = <<>> /\ a = frames[N].n
    BY <1>1, <2>5 DEF MergingLcd, Frame, Low
  <2>9. IdInv'
    <3>1. \A y \in Node : lcd_dfs_id[y] # Unvisited => lcd_dfs_id[g'.rep[y]] # Unvisited
      BY <2>3, <2>5, <2>6, <2>8 DEF IdInv, Low
    <3>2. (\A y \in Node : Low(y) # Unvisited => Low(g.rep[y]) # Unvisited)'
      BY <1>1, <3>1 DEF Low
    <3>3. (\A y \in Node : Low(y) = Unvisited \/ Low(y) \in 1 .. (curr_lcd_dfs - 1))'
      BY <1>1, <2>5 DEF IdInv, Low
    <3>4. /\ (curr_lcd_dfs >= 1)'
          /\ (\A k \in DOMAIN frames : frames[k].our_dfs \in 1 .. (curr_lcd_dfs - 1))'
          /\ (\A k, l \in DOMAIN frames : k < l => frames[k].our_dfs < frames[l].our_dfs)'
      BY <1>1, <2>5 DEF IdInv
    <3>5. (\A y \in Live : Low(y) # Unvisited)'
      BY <1>1, <2>5, <2>7 DEF IdInv, Low
    <3>6. /\ (\A k \in DOMAIN frames : k < Len(frames) \/ ~Collapsing => Low(Frame(k)) <= frames[k].our_dfs)'
          /\ (Low(Frame(Len(frames))) >= frames[Len(frames)].our_dfs)'
      BY <1>1, <2>5, <2>7 DEF IdInv, Low, Frame
    <3> QED
      BY <3>2, <3>3, <3>4, <3>5, <3>6 DEF IdInv
  <2>10. Apart'
    <3>1. ASSUME NEW y \in Live, y # frames[N].n PROVE g'.rep[y] = y
      <4>1. g.rep[y] = y
        BY <1>1, <2>5, <3>1 DEF Apart, is_rep
      <4>2. y \notin {a, b}
        <5>1. CASE y \in Stacked
          BY <2>8, <5>1
        <5>2. CASE y \notin Stacked
          <6>1. PICK k \in DOMAIN frames : y = frames[k].n
            BY <3>1, <5>2 DEF Live, Frame
          <6>2. k \in 1 .. (N - 1)
            BY <2>5, <2>7, <3>1, <6>1
          <6> QED
            BY <2>8, <6>1, <6>2
        <5> QED
          BY <5>1, <5>2
      <4> QED
        BY <2>3, <2>6, <2>7, <4>1, <4>2
    <3>2. /\ (\A i, j \in DOMAIN lcd_stk : i # j => lcd_stk[i] # lcd_stk[j])'
          /\ (\A k, l \in DOMAIN frames : k # l => Frame(k) # Frame(l))'
          /\ (\A k \in DOMAIN frames : Frame(k) \notin Stacked)'
      BY <1>1, <2>5, <2>7 DEF Apart, Frame
    <3>3. (\A y \in Live : is_rep(g, y) \/ (pc = "unwind" /\ y = Last(frames).n))'
      BY <1>1, <2>2, <2>5, <2>7, <3>1 DEF is_rep
    <3> QED
      BY <3>2, <3>3 DEF Apart
  <2>11. MergingLcd'
    <3>1. marg'[1] = p /\ marg'[2] = p /\ p \in {a, b}
      BY <2>2, <2>3
    <3>2. \A i \in {1, 2} :
         /\ marg'[i] \notin Stacked'
         /\ \A k \in 1 .. (Len(frames') - 1) : frames'[k].n # marg'[i]
         /\ lcd_dfs_id'[marg'[i]] # Unvisited
         /\ lcd_dfs_id'[marg'[i]] >= Last(frames').our_dfs
      BY <1>1, <2>5, <2>7, <2>8, <3>1
    <3> QED
      BY <2>2, <2>8, <3>1, <3>2 DEF MergingLcd, Frame, Low
  <2>12. LiveInv'
    <3>1. ASSUME NEW d \in Node, g'.rep[d] = d, lcd_dfs_id[d] # Unvisited, d \notin lcd_roots
          PROVE  d \in Live \/ d = p
      <4>1. CASE g.rep[d] = c
        BY <2>6, <3>1, <4>1
      <4>2. CASE g.rep[d] # c
        <5>1. g.rep[d] = d
          BY <2>6, <3>1, <4>2
        <5>2. d \in Live \/ d \in {a, b}
          BY <1>1, <2>5, <3>1, <5>1 DEF LiveInv, is_rep, Low
        <5> QED
          BY <2>3, <4>2, <5>1, <5>2
      <4> QED
        BY <4>1, <4>2
    <3>2. marg'[1] = p
      BY <2>2
    <3> QED
      BY <1>1, <2>2, <2>7, <3>1, <3>2 DEF LiveInv, is_rep, Low
  <2>13. WaitInv'
    <3>1. \A k \in 1 .. (N - 1) : g.rep[frames[k].dest0] = g.rep[frames[k + 1].n]
                                  /\ frames[k].dest0 \in Node /\ frames[k + 1].n \in Node
      <4>1. \A k \in 1 .. (N - 1) : k \in DOMAIN frames /\ k + 1 \in DOMAIN frames
        BY <2>5, <2>7
      <4> QED
        BY <2>5, <4>1, LcdTypes DEF WaitInv, Frame
    <3>2. \A k \in 1 .. (N - 1) : g'.rep[frames[k].dest0] = g'.rep[frames[k + 1].n]
      BY <2>6, <3>1
    <3> QED
      BY <1>1, <2>7, <3>2 DEF WaitInv, Frame
  <2>14. PathInv(S)' /\ DownInv(S)' /\ UpInv(S)'
    BY <1>1, <2>5, <2>7 DEF PathInv, DownInv, UpInv, Low, Frame
  <2>15. OrderInv'
    <3>1. \A k \in DOMAIN frames : NoRoot(k) => NoRoot(k)'
      BY <1>1, <2>7 DEF NoRoot, Low, Frame
    <3> QED
      BY <1>1, <2>5, <3>1 DEF OrderInv, Low
  <2>16. IdleInv'
    BY <2>2, <2>7 DEF IdleInv
  <2> QED
    BY <1>1, <2>5, <2>9, <2>10, <2>11, <2>12, <2>13, <2>14, <2>15, <2>16 DEF LcdBelowInv, LcdBelow
<1> QED
  BY <1>2, <1>3

LEMMA ReturnToCollapseLcd ==
  ASSUME IInv, NEW S, BelowInv(S), LcdBelowInv(S), ReturnToCollapse
  PROVE  LcdBelowInv(S)'
<1> DEFINE p == marg[1]
           N == Len(frames)
           x == frames[N].n
<1>1. /\ UNCHANGED <<g, lcd_stk, lcd_todo, lcd_dfs_id, curr_lcd_dfs, lcd_roots>>
      /\ pc = "unwind" /\ mframes = <<>> /\ mret = "collapse" /\ pc' = "collapse"
      /\ frames' = [frames EXCEPT ![N].n = p]
  BY DEF ReturnToCollapse, graphVars
<1>2. /\ InLcd /\ (\A y \in lcd_todo : S[y] # {})
      /\ IdInv /\ Apart /\ MergingLcd /\ LiveInv /\ WaitInv
      /\ PathInv(S) /\ DownInv(S) /\ UpInv(S) /\ OrderInv
      /\ frames # <<>> /\ N \in DOMAIN frames /\ N >= 1 /\ Last(frames) = frames[N]
  BY <1>1, InDfs
<1>3. /\ frames \in Seq(DfsFrame) /\ N \in Nat /\ DOMAIN frames = 1 .. N
      /\ x \in Node /\ Live \subseteq Node
      /\ \A k \in DOMAIN frames : frames[k].our_dfs \in Int /\ lcd_dfs_id[frames[k].n] \in Int
  BY <1>2, LcdTypes DEF Low
<1>4. p \in Node /\ g.rep[p] = p
  BY <1>1 DEF IInv, MergeInv, MergeType, is_rep
<1>5. g.rep[x] = p /\ S[x] = S[p]
  <2>1. g.rep[x] = g.rep[p]
    BY <1>1, <1>2 DEF BelowInv, MergeBelow, Caller
  <2> QED
    BY <1>3, <1>4, <2>1, GraphAbove
<1>6. /\ Len(frames') = N /\ DOMAIN frames' = DOMAIN frames
      /\ \A k \in 1 .. (N - 1) : frames'[k] = frames[k]
      /\ \A k \in DOMAIN frames :
           /\ frames'[k].our_dfs = frames[k].our_dfs
           /\ frames'[k].edges = frames[k].edges /\ frames'[k].add_copy = frames[k].add_copy
           /\ frames'[k].waits = frames[k].waits /\ frames'[k].dest0 = frames[k].dest0
      /\ frames'[N].n = p
  <2>1. \A k \in DOMAIN frames : frames[k] \in DfsFrame
    BY <1>3
  <2> QED
    BY <1>1, <1>2, <1>3, <2>1 DEF DfsFrame
<1> HIDE DEF p, N, x
<1>7. /\ \A k \in DOMAIN frames : k \in 1 .. (N - 1) \/ k = N
      /\ \A k \in 1 .. (N - 1) : k \in DOMAIN frames /\ k # N
  BY <1>3
<1>8. /\ p \notin Stacked /\ lcd_dfs_id[p] # Unvisited /\ lcd_dfs_id[p] >= frames[N].our_dfs
      /\ \A k \in 1 .. (N - 1) : frames[k].n # p
      /\ marg[1] = p /\ marg[2] = p
  BY <1>1, <1>2 DEF MergingLcd, Frame, Low, p, N
<1>9. /\ Collapsing /\ Collapsing' /\ InLcd' /\ Last(frames') = frames'[N]
      /\ ~frames[N].waits /\ Len(frames) = N /\ Stacked' = Stacked
  <2>1. Collapsing /\ Collapsing' /\ InLcd' /\ Last(frames') = frames'[N] /\ Len(frames) = N
        /\ Stacked' = Stacked
    BY <1>1, <1>6 DEF Collapsing, InLcd, Last, N, Stacked
  <2>2. ~frames[N].waits
    BY <1>2, <2>1 DEF WaitInv
  <2> QED
    BY <2>1, <2>2
<1>10. Live' \subseteq (Live \ {x}) \cup {p} /\ Live \subseteq Live' \cup {x} /\ p \in Live'
  <2>1. x \notin Stacked /\ \A k \in 1 .. (N - 1) : frames[k].n # x
    BY <1>2, <1>7 DEF Apart, Frame, x
  <2>2. \A k \in DOMAIN frames' : frames'[k].n \in (Live \ {x}) \cup {p}
    BY <1>6, <1>7, <2>1 DEF Live, Frame
  <2>3. \A k \in DOMAIN frames : frames[k].n = x \/ (k \in DOMAIN frames' /\ frames'[k].n = frames[k].n)
    BY <1>6, <1>7 DEF x
  <2>4. Stacked \subseteq Live \ {x}
    BY <2>1 DEF Live
  <2> QED
    BY <1>2, <1>6, <1>9, <2>2, <2>3, <2>4 DEF Live, Frame
<1>11. \A k \in DOMAIN frames : S[frames'[k].n] = S[frames[k].n]
  BY <1>5, <1>6, <1>7 DEF x
<1>12. \A k \in DOMAIN frames : frames[k].our_dfs <= frames[N].our_dfs
  <2>1. ASSUME NEW k \in 1 .. (N - 1) PROVE frames[k].our_dfs < frames[N].our_dfs
    <3>1. k < N /\ k \in DOMAIN frames
      BY <1>3, <1>7
    <3> QED
      BY <1>2, <3>1 DEF IdInv
  <2> QED
    BY <1>2, <1>3, <1>7, <2>1
<1>13. IdInv'
  <2>1. /\ (curr_lcd_dfs >= 1)'
        /\ (\A y \in Node : Low(y) = Unvisited \/ Low(y) \in 1 .. (curr_lcd_dfs - 1))'
        /\ (\A y \in Node : Low(y) # Unvisited => Low(g.rep[y]) # Unvisited)'
    BY <1>1, <1>2 DEF IdInv, Low
  <2>2. /\ (\A k \in DOMAIN frames : frames[k].our_dfs \in 1 .. (curr_lcd_dfs - 1))'
        /\ (\A k, l \in DOMAIN frames : k < l => frames[k].our_dfs < frames[l].our_dfs)'
    BY <1>1, <1>2, <1>6 DEF IdInv
  <2>3. (\A y \in Live : Low(y) # Unvisited)'
    BY <1>1, <1>2, <1>8, <1>10 DEF IdInv, Low
  <2>4. \A k \in DOMAIN frames' : k < N => lcd_dfs_id'[frames'[k].n] <= frames'[k].our_dfs
    <3>1. ASSUME NEW k \in DOMAIN frames', k < N PROVE lcd_dfs_id'[frames'[k].n] <= frames'[k].our_dfs
      <4>1. k \in 1 .. (N - 1)
        BY <1>3, <1>6, <3>1
      <4>2. lcd_dfs_id[frames[k].n] <= frames[k].our_dfs
        BY <1>2, <1>6, <1>9, <3>1 DEF IdInv, Low, Frame
      <4> QED
        BY <1>1, <1>6, <4>1, <4>2
    <3> QED
      BY <3>1
  <2>5. lcd_dfs_id'[frames'[N].n] >= frames'[N].our_dfs
    BY <1>1, <1>2, <1>6, <1>8
  <2> QED
    BY <1>6, <1>9, <2>1, <2>2, <2>3, <2>4, <2>5 DEF IdInv, Low, Frame
<1>14. Apart'
  <2>1. (\A i, j \in DOMAIN lcd_stk : i # j => lcd_stk[i] # lcd_stk[j])'
    BY <1>1, <1>2 DEF Apart
  <2>2. \A k, l \in DOMAIN frames' : k # l => frames'[k].n # frames'[l].n
    BY <1>2, <1>6, <1>7, <1>8 DEF Apart, Frame
  <2>3. \A k \in DOMAIN frames' : frames'[k].n \notin Stacked'
    BY <1>2, <1>6, <1>7, <1>8, <1>9 DEF Apart, Frame
  <2>4. \A y \in Live' : g'.rep[y] = y
    BY <1>1, <1>2, <1>4, <1>10 DEF Apart, is_rep, x
  <2> QED
    BY <2>1, <2>2, <2>3, <2>4 DEF Apart, Frame, is_rep
<1>15. MergingLcd'
  BY <1>1 DEF MergingLcd
<1>16. LiveInv'
  <2>1. ASSUME NEW d \in Node, g.rep[d] = d, lcd_dfs_id[d] # Unvisited, d \notin lcd_roots
        PROVE  d \in Live'
    <3>1. d \in Live \/ d = p
      BY <1>2, <1>8, <2>1 DEF LiveInv, is_rep, Low
    <3>2. d = x => d = p
      BY <1>5, <2>1
    <3> QED
      BY <1>10, <3>1, <3>2
  <2> QED
    BY <1>1, <2>1 DEF LiveInv, is_rep, Low
<1>17. WaitInv'
  <2>1. ASSUME NEW k \in 1 .. (N - 1)
        PROVE  g.rep[frames'[k].dest0] = g.rep[frames'[k + 1].n]
    <3>1. g.rep[frames[k].dest0] = g.rep[frames[k + 1].n] /\ k \in DOMAIN frames /\ k + 1 \in DOMAIN frames
      BY <1>2, <1>3, <1>9 DEF WaitInv, Frame
    <3>2. g.rep[frames'[k + 1].n] = g.rep[frames[k + 1].n]
      <4>1. CASE k + 1 = N
        BY <1>4, <1>5, <1>6, <4>1 DEF x
      <4>2. CASE k + 1 # N
        BY <1>6, <1>7, <3>1, <4>2
      <4> QED
        BY <4>1, <4>2
    <3> QED
      BY <1>6, <3>1, <3>2
  <2>2. ~Last(frames').waits
    BY <1>2, <1>6, <1>9
  <2> QED
    BY <1>1, <1>6, <2>1, <2>2 DEF WaitInv, Frame
<1>18. PathInv(S)'
  <2> SUFFICES ASSUME NEW k \in DOMAIN frames'
               PROVE  /\ S[frames'[k].n] # {}
                      /\ \A l \in DOMAIN frames' : k <= l => S[frames'[k].n] \subseteq S[frames'[l].n]
                      /\ \A e \in frames'[k].edges \cup frames'[k].add_copy : S[frames'[k].n] \subseteq S[e]
                      /\ frames'[k].waits => S[frames'[k].n] \subseteq S[frames'[k].dest0]
    BY DEF PathInv, Frame
  <2>1. k \in DOMAIN frames
    BY <1>6
  <2>2. /\ S[frames[k].n] # {}
        /\ \A e \in frames[k].edges \cup frames[k].add_copy : S[frames[k].n] \subseteq S[e]
        /\ frames[k].waits => S[frames[k].n] \subseteq S[frames[k].dest0]
    BY <1>2, <2>1 DEF PathInv, Frame
  <2>3. \A l \in DOMAIN frames : k <= l => S[frames[k].n] \subseteq S[frames[l].n]
    BY <1>2, <2>1 DEF PathInv, Frame
  <2>4. \A l \in DOMAIN frames' : k <= l => S[frames'[k].n] \subseteq S[frames'[l].n]
    BY <1>6, <1>11, <2>1, <2>3
  <2> QED
    BY <1>6, <1>11, <2>1, <2>2, <2>4
<1>19. DownInv(S)'
  BY <1>1, <1>2, <1>6, <1>9, <1>11 DEF DownInv, Low, Frame
<1>20. UpInv(S)'
  <2>1. ASSUME NEW y \in Live', NEW k \in DOMAIN frames', lcd_dfs_id'[y] < frames'[k].our_dfs
        PROVE  k > 1 /\ S[y] \subseteq S[frames'[k - 1].n]
    <3>1. lcd_dfs_id[y] < frames[k].our_dfs /\ k \in DOMAIN frames
      BY <1>1, <1>6, <2>1
    <3>2. y # p
      <4>1. lcd_dfs_id[p] \in Int
        BY <1>4, LcdTypes DEF Low
      <4> QED
        BY <1>2, <1>3, <1>8, <1>12, <3>1, <4>1
    <3>3. k > 1 /\ S[y] \subseteq S[frames[k - 1].n]
      BY <1>2, <1>10, <3>1, <3>2 DEF UpInv, Low, Frame
    <3>4. k - 1 \in 1 .. (N - 1)
      BY <1>3, <3>1, <3>3
    <3> QED
      BY <1>6, <3>3, <3>4
  <2>2. \A y \in Stacked' : S[y] \subseteq S[Last(frames').n]
    BY <1>2, <1>9, <1>11 DEF UpInv
  <2>3. frames' # <<>>
    BY <1>2, <1>6
  <2> QED
    BY <2>1, <2>2, <2>3 DEF UpInv, Low, Frame
<1>21. OrderInv'
  <2> SUFFICES ASSUME NEW i \in DOMAIN lcd_stk', NEW j \in DOMAIN lcd_stk', NEW k \in DOMAIN frames',
                      i < j, lcd_dfs_id'[lcd_stk'[i]] >= frames'[k].our_dfs,
                      lcd_dfs_id'[lcd_stk'[j]] < frames'[k].our_dfs
               PROVE  NoRoot(k)'
    BY DEF OrderInv, Low
  <2>1. k \in DOMAIN frames /\ frames'[k].our_dfs = frames[k].our_dfs
    BY <1>6
  <2>2. NoRoot(k)
    BY <1>1, <1>2, <2>1 DEF OrderInv, Low
  <2>3. PICK l \in k .. N : lcd_dfs_id[frames[l].n] < frames[k].our_dfs
    BY <1>2, <2>2, <1>9 DEF NoRoot, Low, Frame
  <2>4. l # N
    <3>1. lcd_dfs_id[frames[N].n] >= frames[N].our_dfs
      BY <1>2, <1>9 DEF IdInv, Low, Frame
    <3> QED
      BY <1>2, <1>3, <1>12, <2>1, <2>3, <3>1
  <2>5. l \in 1 .. (N - 1)
    BY <1>3, <2>1, <2>3, <2>4
  <2>6. lcd_dfs_id'[frames'[l].n] < frames'[k].our_dfs
    BY <1>1, <1>6, <2>1, <2>3, <2>5
  <2> QED
    BY <1>6, <2>3, <2>6 DEF NoRoot, Low, Frame
<1>22. IdleInv'
  BY <1>1, <1>9 DEF IdleInv
<1> QED
  BY <1>1, <1>2, <1>13, <1>14, <1>15, <1>16, <1>17, <1>18, <1>19, <1>20, <1>21, <1>22
     DEF LcdBelowInv, LcdBelow

LEMMA CollapsedLcd ==
  ASSUME IInv, NEW S, LcdBelowInv(S), Collapsed
  PROVE  LcdBelowInv(S)'
<1> DEFINE N == Len(frames)
           M == Len(lcd_stk)
           x == frames[N].n
<1>1. /\ UNCHANGED <<g, lcd_stk, lcd_todo, lcd_dfs_id, curr_lcd_dfs>>
      /\ pc = "collapse" /\ ~InScc
      /\ lcd_roots' = lcd_roots \cup {Last(frames).n}
      /\ frames' = Front(frames) /\ pc' = IF N = 1 THEN "lcd" ELSE "dfs"
  BY DEF Collapsed, graphVars, Leave
<1>2. /\ InLcd /\ (\A y \in lcd_todo : S[y] # {})
      /\ IdInv /\ Apart /\ LiveInv /\ WaitInv
      /\ PathInv(S) /\ DownInv(S) /\ UpInv(S) /\ OrderInv
      /\ frames # <<>> /\ N \in DOMAIN frames /\ N >= 1 /\ Last(frames) = frames[N]
  BY <1>1, InDfs
<1>3. /\ frames \in Seq(DfsFrame) /\ N \in Nat /\ DOMAIN frames = 1 .. N
      /\ x \in Node /\ Live \subseteq Node /\ Stacked \subseteq Node
      /\ lcd_stk \in Seq(Node) /\ M \in Nat /\ DOMAIN lcd_stk = 1 .. M
      /\ \A k \in DOMAIN frames : frames[k].our_dfs \in Int /\ lcd_dfs_id[frames[k].n] \in Int
      /\ \A y \in Node : lcd_dfs_id[y] \in Int
  BY <1>2, LcdTypes, SMTT(30) DEF Low
<1>4. /\ DOMAIN frames' = 1 .. (N - 1) /\ Len(frames') = N - 1
      /\ \A k \in 1 .. (N - 1) : frames'[k] = frames[k]
  BY <1>1, <1>2, <1>3, FrontSeq
<1>5. /\ Collapsing /\ lcd_roots' = lcd_roots \cup {x} /\ ~Collapsing'
      /\ Len(frames) = N /\ Stacked' = Stacked
  BY <1>1, <1>2 DEF Collapsing, Stacked
<1>6. ~Last(frames).waits /\ lcd_dfs_id[x] >= frames[N].our_dfs
  BY <1>2, <1>5 DEF WaitInv, IdInv, Low, Frame
<1> HIDE DEF N, M, x
<1>7. ASSUME lcd_stk # <<>> PROVE /\ M \in DOMAIN lcd_stk /\ lcd_stk[M] \in Stacked
                                  /\ lcd_dfs_id[lcd_stk[M]] < frames[N].our_dfs
  <2>1. M \in DOMAIN lcd_stk
    BY <1>3, <1>7 DEF M
  <2>2. Last(lcd_stk) = lcd_stk[M]
    BY DEF Last, M
  <2>3. lcd_stk[M] \in Stacked
    BY <2>1 DEF Stacked
  <2>4. ~(lcd_dfs_id[lcd_stk[M]] >= frames[N].our_dfs)
    BY <1>1, <1>2, <1>7, <2>2 DEF InScc
  <2> QED
    BY <1>2, <1>3, <2>1, <2>3, <2>4
<1>8. CASE N = 1
  <2>1. lcd_stk = <<>>
    <3>1. SUFFICES ASSUME lcd_stk # <<>> PROVE FALSE
      OBVIOUS
    <3>2. lcd_stk[M] \in Live
      BY <1>7, <3>1 DEF Live
    <3> QED
      BY <1>2, <1>7, <1>8, <3>1, <3>2 DEF UpInv, Low
  <2>2. frames' = <<>>
    <3>1. frames' \in Seq(DfsFrame)
      BY <1>1, <1>2, <1>3, FrontLast
    <3> QED
      BY <1>4, <1>8, <3>1
  <2>3. Live = {x}
    <3>1. Stacked = {}
      BY <2>1 DEF Stacked
    <3>2. DOMAIN frames = {N}
      BY <1>3, <1>8
    <3> QED
      BY <3>1, <3>2 DEF Live, Frame, x
  <2>4. /\ curr_lcd_dfs >= 1
        /\ \A y \in Node : lcd_dfs_id[y] = Unvisited \/ lcd_dfs_id[y] \in 1 .. (curr_lcd_dfs - 1)
        /\ \A y \in Node : lcd_dfs_id[y] # Unvisited => lcd_dfs_id[g.rep[y]] # Unvisited
    BY <1>2 DEF IdInv, Low
  <2>5. \A d \in Node : g.rep[d] = d /\ lcd_dfs_id[d] # Unvisited => d \in lcd_roots \/ d = x
    BY <1>1, <1>2, <2>3 DEF LiveInv, is_rep, Low
  <2>6. pc' = "lcd" /\ lcd_stk' = <<>> /\ lcd_roots' = lcd_roots \cup {x}
    BY <1>1, <1>5, <1>8, <2>1
  <2>7. LcdBelow(S)'
    BY <1>1, <1>2, <2>2, <2>4, <2>5, <2>6, LcdEmpty
  <2> QED
    BY <2>7 DEF LcdBelowInv
<1>9. CASE N # 1
  <2>1. /\ N > 1 /\ pc' = "dfs" /\ InLcd' /\ frames' # <<>> /\ Last(frames') = frames[N - 1]
        /\ N - 1 \in DOMAIN frames'
        /\ \A k \in DOMAIN frames' : k \in DOMAIN frames /\ k \in 1 .. (N - 1) /\ frames'[k] = frames[k]
        /\ \A k \in DOMAIN frames : k \in DOMAIN frames' \/ k = N
    <3>1. N > 1 /\ pc' = "dfs" /\ InLcd'
      BY <1>1, <1>2, <1>3, <1>9 DEF InLcd, N
    <3>2. frames' # <<>> /\ Last(frames') = frames[N - 1]
      BY <1>3, <1>4, <3>1 DEF Last
    <3> QED
      BY <1>3, <1>4, <3>1, <3>2
  <2>2. \A k \in DOMAIN frames' : frames[k].our_dfs < frames[N].our_dfs /\ k < N
    <3>1. \A k \in DOMAIN frames' : k \in DOMAIN frames /\ k < N
      BY <1>3, <2>1
    <3> QED
      BY <1>2, <3>1 DEF IdInv
  <2>3. ~NoRoot(N)
    <3>1. SUFFICES ASSUME NoRoot(N) PROVE FALSE
      OBVIOUS
    <3>2. PICK l \in N .. N : lcd_dfs_id[frames[l].n] < frames[N].our_dfs
      BY <1>5, <1>6, <3>1 DEF NoRoot, Low, Frame
    <3>3. l = N
      BY <1>3
    <3> QED
      BY <1>2, <1>3, <1>6, <3>2, <3>3 DEF x
  <2>4. \A i \in DOMAIN lcd_stk : lcd_dfs_id[lcd_stk[i]] < frames[N].our_dfs
    <3> SUFFICES ASSUME NEW i \in DOMAIN lcd_stk, ~(lcd_dfs_id[lcd_stk[i]] < frames[N].our_dfs)
                 PROVE  FALSE
      OBVIOUS
    <3>1. lcd_stk # <<>>
      BY <1>3
    <3>2. i # M /\ i < M
      BY <1>3, <1>7, <3>1
    <3>3. lcd_stk[i] \in Node
      BY <1>3
    <3>4. lcd_dfs_id[lcd_stk[i]] >= frames[N].our_dfs
      BY <1>2, <1>3, <3>3
    <3> QED
      BY <1>2, <1>7, <2>3, <3>1, <3>2, <3>4 DEF OrderInv, Low
  <2>5. \A y \in Stacked : S[y] \subseteq S[frames[N - 1].n]
    <3> SUFFICES ASSUME NEW y \in Stacked PROVE S[y] \subseteq S[frames[N - 1].n]
      OBVIOUS
    <3>1. lcd_dfs_id[y] < frames[N].our_dfs /\ y \in Live
      BY <2>4 DEF Stacked, Live
    <3> QED
      BY <1>2, <3>1 DEF UpInv, Low, Frame
  <2>6. Live' \subseteq Live /\ Live \subseteq Live' \cup {x}
    BY <1>5, <2>1 DEF Live, Frame, x
  <2>7. IdInv'
    <3>1. \A k \in DOMAIN frames' : lcd_dfs_id[frames[k].n] <= frames[k].our_dfs
      BY <1>2, <1>5, <2>1, <2>2 DEF IdInv, Low, Frame
    <3>2. /\ (curr_lcd_dfs >= 1)'
          /\ (\A y \in Node : Low(y) = Unvisited \/ Low(y) \in 1 .. (curr_lcd_dfs - 1))'
          /\ (\A y \in Node : Low(y) # Unvisited => Low(g.rep[y]) # Unvisited)'
      BY <1>1, <1>2 DEF IdInv, Low
    <3>3. /\ (\A k \in DOMAIN frames : frames[k].our_dfs \in 1 .. (curr_lcd_dfs - 1))'
          /\ (\A k, l \in DOMAIN frames : k < l => frames[k].our_dfs < frames[l].our_dfs)'
      BY <1>1, <1>2, <2>1 DEF IdInv
    <3>4. (\A y \in Live : Low(y) # Unvisited)'
      BY <1>1, <1>2, <2>6 DEF IdInv, Low
    <3>5. (\A k \in DOMAIN frames : Low(Frame(k)) <= frames[k].our_dfs)'
      BY <1>1, <2>1, <3>1 DEF Low, Frame
    <3> QED
      BY <1>5, <3>2, <3>3, <3>4, <3>5 DEF IdInv
  <2>8. Apart'
    <3>1. (\A i, j \in DOMAIN lcd_stk : i # j => lcd_stk[i] # lcd_stk[j])'
      BY <1>1, <1>2 DEF Apart
    <3>2. (\A k, l \in DOMAIN frames : k # l => Frame(k) # Frame(l))'
      BY <1>2, <2>1 DEF Apart, Frame
    <3>3. (\A k \in DOMAIN frames : Frame(k) \notin Stacked)'
      BY <1>2, <1>5, <2>1 DEF Apart, Frame
    <3>4. \A y \in Live' : g'.rep[y] = y
      BY <1>1, <1>2, <2>6 DEF Apart, is_rep
    <3> QED
      BY <3>1, <3>2, <3>3, <3>4 DEF Apart, is_rep
  <2>9. MergingLcd'
    BY <2>1 DEF MergingLcd
  <2>10. LiveInv'
    <3>1. \A d \in Node : g.rep[d] = d /\ lcd_dfs_id[d] # Unvisited /\ d \notin lcd_roots' => d \in Live'
      BY <1>1, <1>2, <1>5, <2>6 DEF LiveInv, is_rep, Low
    <3> QED
      BY <1>1, <3>1 DEF LiveInv, is_rep, Low
  <2>11. WaitInv'
    <3>1. \A k \in 1 .. (N - 1) : g.rep[frames[k].dest0] = g.rep[frames[k + 1].n]
      BY <1>2, <1>5 DEF WaitInv, Frame
    <3>2. \A k \in 1 .. (N - 1 - 1) : k \in DOMAIN frames' /\ k + 1 \in DOMAIN frames' /\ k \in 1 .. (N - 1)
      BY <1>3, <1>4
    <3>3. \A k \in 1 .. (N - 1 - 1) : g.rep[frames'[k].dest0] = g.rep[frames'[k + 1].n]
      BY <2>1, <3>1, <3>2
    <3>4. N - 1 \in 1 .. (N - 1) /\ N - 1 + 1 = N
      BY <1>3, <2>1
    <3>5. g.rep[frames[N - 1].dest0] = g.rep[x]
      BY <3>1, <3>4 DEF x
    <3>6. x \in Live /\ g.rep[x] = x
      <4>1. x \in Live
        BY <1>2 DEF Live, Frame, x
      <4> QED
        BY <1>1, <1>2, <4>1 DEF Apart, is_rep
    <3>7. lcd_dfs_id[x] > frames[N - 1].our_dfs
      <4>1. frames[N - 1].our_dfs < frames[N].our_dfs /\ N - 1 \in DOMAIN frames
        BY <2>1, <2>2
      <4> QED
        BY <1>2, <1>3, <1>6, <4>1
    <3>8. lcd_dfs_id'[g'.rep[Last(frames').dest0]] > Last(frames').our_dfs
      BY <1>1, <2>1, <3>5, <3>6, <3>7
    <3> QED
      BY <1>1, <1>4, <1>5, <3>3, <3>8 DEF WaitInv, Frame, Low
  <2>12. PathInv(S)'
    BY <1>2, <2>1 DEF PathInv, Frame
  <2>13. DownInv(S)'
    BY <1>1, <1>2, <1>5, <2>1 DEF DownInv, Low, Frame
  <2>14. UpInv(S)'
    <3>1. ASSUME NEW y \in Live', NEW k \in DOMAIN frames', lcd_dfs_id'[y] < frames'[k].our_dfs
          PROVE  k > 1 /\ S[y] \subseteq S[frames'[k - 1].n]
      <4>1. k > 1 /\ S[y] \subseteq S[frames[k - 1].n]
        BY <1>1, <1>2, <2>1, <2>6, <3>1 DEF UpInv, Low, Frame
      <4>2. k - 1 \in DOMAIN frames'
        BY <1>3, <1>4, <3>1, <4>1
      <4> QED
        BY <2>1, <4>1, <4>2
    <3> QED
      BY <1>5, <2>1, <2>5, <3>1 DEF UpInv, Low, Frame
  <2>15. OrderInv'
    <3> SUFFICES ASSUME NEW i \in DOMAIN lcd_stk', NEW j \in DOMAIN lcd_stk', NEW k \in DOMAIN frames',
                        i < j, lcd_dfs_id'[lcd_stk'[i]] >= frames'[k].our_dfs,
                        lcd_dfs_id'[lcd_stk'[j]] < frames'[k].our_dfs
                 PROVE  NoRoot(k)'
      BY DEF OrderInv, Low
    <3>1. k \in DOMAIN frames /\ frames'[k] = frames[k] /\ frames[k].our_dfs < frames[N].our_dfs
      BY <2>1, <2>2
    <3>2. NoRoot(k)
      BY <1>1, <1>2, <3>1 DEF OrderInv, Low
    <3>3. PICK l \in k .. N : lcd_dfs_id[frames[l].n] < frames[k].our_dfs
      BY <1>5, <1>6, <3>2 DEF NoRoot, Low, Frame
    <3>4. l # N
      BY <1>2, <1>3, <1>6, <3>1, <3>3 DEF x
    <3>5. l \in DOMAIN frames' /\ l \in k .. (N - 1)
      BY <1>3, <1>4, <3>1, <3>3, <3>4
    <3>6. lcd_dfs_id'[frames'[l].n] < frames'[k].our_dfs
      BY <1>1, <2>1, <3>1, <3>3, <3>5
    <3> QED
      BY <1>4, <3>5, <3>6 DEF NoRoot, Low, Frame
  <2>16. IdleInv'
    BY <2>1 DEF IdleInv
  <2> QED
    BY <1>1, <1>2, <2>7, <2>8, <2>9, <2>10, <2>11, <2>12, <2>13, <2>14, <2>15, <2>16
       DEF LcdBelowInv, LcdBelow
<1> QED
  BY <1>8, <1>9

-----------------------------------------------------------------------------
(* All of it together.                                                     *)

LEMMA InitLcd ==
  ASSUME Init, NEW S
  PROVE  LcdBelowInv(S)
BY DEF Init, LcdBelowInv, LcdBelow, IdleInv, InLcd, Collapsing

LEMMA NextLcd ==
  ASSUME IInv, NEW S, BelowInv(S), LcdBelowInv(S), NoNestedLcd, [Next]_vars
  PROVE  LcdBelowInv(S)'
<1>1. CASE UNCHANGED vars
  <2>1. UNCHANGED <<g, pc, marg, mframes, mret>> /\ UNCHANGED lcdVars
    BY <1>1 DEF vars, graphVars, mergeVars
  <2>2. /\ UNCHANGED <<lcd_todo, frames, lcd_dfs_id, curr_lcd_dfs, lcd_roots, lcd_stk>>
        /\ InLcd' = InLcd /\ Collapsing' = Collapsing /\ Live' = Live /\ Stacked' = Stacked
    BY <2>1 DEF lcdVars, InLcd, Collapsing, Live, Stacked, Frame
  <2>3. IdleInv => IdleInv'
    BY <2>1, <2>2 DEF IdleInv
  <2>4. (IdInv => IdInv') /\ (Apart => Apart')
    BY <2>1, <2>2 DEF IdInv, Apart, is_rep, Frame, Low
  <2>5. (MergingLcd => MergingLcd') /\ (LiveInv => LiveInv')
    BY <2>1, <2>2 DEF MergingLcd, LiveInv, is_rep, Frame, Low
  <2>6. (WaitInv => WaitInv') /\ (PathInv(S) => PathInv(S)')
    BY <2>1, <2>2 DEF WaitInv, PathInv, Frame, Low
  <2>7. (DownInv(S) => DownInv(S)') /\ (UpInv(S) => UpInv(S)')
    BY <2>1, <2>2 DEF DownInv, UpInv, Frame, Low
  <2>8. OrderInv => OrderInv'
    BY <2>1, <2>2 DEF OrderInv, NoRoot, Frame, Low
  <2> QED
    BY <2>1, <2>2, <2>3, <2>4, <2>5, <2>6, <2>7, <2>8 DEF LcdBelowInv, LcdBelow
<1>2. CASE MergeReturn
  <2>1. pc = "unwind" /\ mframes # <<>>
    BY <1>2 DEF MergeReturn
  <2>2. mret \in {"hcd", "collapse"}
    BY DEF IInv, MergeInv, MergeType
  <2>3. mret # "collapse"
    BY <2>1, InDfs DEF MergingLcd
  <2> QED
    BY <1>2, <2>2, <2>3, OtherLcd
<1>3. CASE MergeNodes
  <2>1. mret \in {"hcd", "collapse"}
    BY DEF IInv, MergeInv, MergeType
  <2> QED
    BY <1>3, <2>1, OtherLcd, MergeNodesLcd
<1>4. CASE ReturnToHcd \/ ReturnToCollapse
  BY <1>4, OtherLcd, ReturnToCollapseLcd
<1>5. CASE Loop \/ SolveNode \/ GiveUp \/ KeepGoing \/ Finish
  BY <1>5, OtherLcd DEF Loop
<1>6. CASE Lcd
  BY <1>6, RunLcdBelow, LcdStartBelow, LcdDoneBelow, DfsEdgeBelow, DfsReturnBelow,
     DfsDoneLcd, CollapseNodeLcd, CollapsedLcd DEF Lcd
<1> QED
  BY <1>1, <1>2, <1>3, <1>4, <1>5, <1>6 DEF Next, Merge

LEMMA NextAbove ==
  ASSUME IInv, ConsInv, NEW S, BelowInv(S), LcdBelowInv(S), NoNestedLcd, [Next]_vars
  PROVE  BelowInv(S)' /\ LcdBelowInv(S)'
<1>1. ASSUME CollapseNode PROVE S[Last(lcd_stk)] = S[Last(frames).n] /\ S[Last(frames).n] # {}
  <2>1. pc = "collapse" /\ InScc
    BY <1>1 DEF CollapseNode
  <2> QED
    BY <2>1, SccTop, InDfs
<1>2. ASSUME DfsDone PROVE \A e \in Last(frames).add_copy : S[Last(frames).n] \subseteq S[e]
  <2>1. pc = "dfs"
    BY <1>2 DEF DfsDone
  <2>2. PathInv(S) /\ Len(frames) \in DOMAIN frames /\ Last(frames) = frames[Len(frames)]
    BY <2>1, InDfs
  <2> QED
    BY <2>2 DEF PathInv, Frame
<1>3. BelowInv(S)'
  BY <1>1, <1>2, NextBelow, SMTT(30)
<1> QED
  BY <1>3, NextLcd

LEMMA SysKept == [Next]_vars => sys' = sys
BY DEF Next, vars, Loop, SwapIfEmpty, Converge, PopStale, Visit,
   SolveNode, HcdMember, HcdDone, NextPhase, LsCons, LoadMember, StoreMember, HandleExt,
   LsDone, GepCons, Prop, Merge, MergeNodes, MergeReturn, ReturnToHcd, ReturnToCollapse,
   GiveUp, KeepGoing, Lcd, RunLcd, LcdStart, LcdDone, DfsEdge, DfsReturn, DfsDone,
   CollapseNode, Collapsed, Finish

(* The graph, and all that the loops hold of it, follows from the least    *)
(* solution.                                                               *)
AboveInv ==
  /\ sys \in Inputs
  /\ \A S \in Assignments : S = LeastOf[sys] => BelowInv(S) /\ LcdBelowInv(S)

LEMMA LeastOfSolves ==
  ASSUME IsFiniteSet(Node), NEW s \in Inputs
  PROVE  LeastOf[s] = Least(s) /\ LeastOf[s] \in Assignments /\ IsSolution(s, LeastOf[s])
BY LeastIsLeast, InputsAssumption DEF LeastOf

LEMMA InitAbove ==
  ASSUME IsFiniteSet(Node), \A s \in Inputs : Faithful(s, Least(s)), Init
  PROVE  AboveInv
<1> SUFFICES ASSUME NEW S \in Assignments, S = LeastOf[sys]
             PROVE  BelowInv(S) /\ LcdBelowInv(S)
  BY DEF AboveInv, Init
<1>1. sys \in Inputs
  BY DEF Init
<1>2. FaithfulSolution(S) /\ WellFormed(sys)
  BY <1>1, LeastOfSolves, WellFormedAssumption DEF FaithfulSolution
<1> QED
  BY <1>2, InitBelow, InitLcd

LEMMA StepAbove ==
  ASSUME IInv, ConsInv, AboveInv, NoNestedLcd, [Next]_vars
  PROVE  AboveInv'
<1>1. sys' = sys
  BY SysKept
<1>2. ASSUME NEW S \in Assignments, S = LeastOf[sys]
      PROVE  BelowInv(S)' /\ LcdBelowInv(S)'
  <2>1. BelowInv(S) /\ LcdBelowInv(S)
    BY <1>2 DEF AboveInv
  <2> QED
    BY <2>1, NextAbove
<1> QED
  BY <1>1, <1>2 DEF AboveInv

LEMMA StaysAbove ==
  ASSUME IsFiniteSet(Node), \A s \in Inputs : Faithful(s, Least(s))
  PROVE  Spec /\ []NoNestedLcd => []AboveInv
<1>1. Init => AboveInv
  BY InitAbove
<1>2. IInv /\ ConsInv /\ AboveInv /\ NoNestedLcd /\ [Next]_vars => AboveInv'
  BY StepAbove
<1>3. Init => ConsInv
  BY InitCalls, WellFormedAssumption DEF Init
<1>4. IInv /\ ConsInv /\ [Next]_vars => ConsInv'
  BY NextCalls
<1>5. Spec => []IInv
  BY Inductive
<1> QED
  BY <1>1, <1>2, <1>3, <1>4, <1>5, PTL DEF Spec

LEMMA AboveIsPrecise ==
  ASSUME IsFiniteSet(Node), IInv, AboveInv
  PROVE  Precise
<1> DEFINE S == LeastOf[sys]
<1>1. S \in Assignments
  BY LeastOfSolves DEF AboveInv
<1>2. BelowInv(S)
  BY <1>1 DEF AboveInv
<1> HIDE DEF S
<1>3. \A x \in Node : g.points_to[x] \subseteq S[x] /\ S[g.rep[x]] = S[x]
  BY <1>2 DEF BelowInv, BelowGraph, Under
<1>4. \A x \in Node : g.rep[x] \in Node
  BY DEF IInv, GraphInv, GraphType, Graph
<1> QED
  BY <1>3, <1>4 DEF Precise, Result, S

(* Nothing outside the least solution ever gets into a points-to set, and  *)
(* only nodes with equal sets in the least solution are merged: by hybrid  *)
(* cycle detection, because the offline cycles are cycles of the least     *)
(* solution (Faithful, what cons_opt leaves when no class of merged        *)
(* pointers is empty), and by lazy cycle detection, in every run in which  *)
(* collapsing an SCC does not merge two HCD variables as well.             *)
THEOREM StaysPrecise ==
  ASSUME IsFiniteSet(Node), \A s \in Inputs : Faithful(s, Least(s))
  PROVE  Spec /\ []NoNestedLcd => []Precise
<1>1. IInv /\ AboveInv => Precise
  BY AboveIsPrecise
<1>2. Spec => []IInv
  BY Inductive
<1>3. Spec /\ []NoNestedLcd => []AboveInv
  BY StaysAbove
<1> QED
  BY <1>1, <1>2, <1>3, PTL

-----------------------------------------------------------------------------
(* One offline cycle: no merge leads to another one.                       *)

LEMMA HcdVarKept ==
  ASSUME IInv, [Next]_vars, ~MergeNodes
  PROVE  g'.hcd_var = g.hcd_var
<1>1. g \in Graph
  BY DEF IInv, GraphInv, GraphType
<1>2. \A s, d \in Node : add_copy_edge(g, s, d).hcd_var = g.hcd_var
  BY <1>1 DEF add_copy_edge, Graph
<1>3. \A d \in Node : \A P \in SUBSET Node : AddPointees(g, d, P).hcd_var = g.hcd_var
  BY <1>1 DEF AddPointees, Graph
<1>4. CASE \E e \in curr : Visit(e)
  <2>1. PICK e \in curr : Visit(e)
    BY <1>4
  <2>2. \/ g' = [g EXCEPT !.vtime[e[1]] = vtime]
        \/ g' = [g EXCEPT !.vtime[e[1]] = vtime, !.prev_points_to[e[1]] = g.points_to[e[1]]]
    BY <2>1 DEF Visit
  <2> QED
    BY <1>1, <2>2 DEF Graph
<1>5. CASE LsCons
  BY <1>1, <1>5 DEF LsCons, add_copy_edge, Graph
<1>6. CASE \E m \in members : LoadMember(m) \/ StoreMember(m)
  BY <1>1, <1>6, ZenonT(60) DEF LoadMember, StoreMember, add_copy_edge, Graph
<1>7. CASE \E m \in members : HandleExt(m)
  <2>1. PICK m \in members : HandleExt(m)
    BY <1>7
  <2>2. ExtEffect[m].kind \in {"none", "point", "copy"}
    BY <2>1, CallAssumption DEF HandleExt, IInv, VisitInv, Effect
  <2>3. \A s, d : add_copy_edge(g, s, d).hcd_var = g.hcd_var
    BY <1>1 DEF add_copy_edge, Graph
  <2>4. \A d, S : AddPointees(g, d, S).hcd_var = g.hcd_var
    BY <1>1 DEF AddPointees, Graph
  <2> QED
    BY <2>1, <2>2, <2>3, <2>4 DEF HandleExt
<1>8. CASE LsDone
  BY <1>1, <1>8 DEF LsDone, Graph
<1>9. CASE GepCons
  BY <1>1, <1>9 DEF GepCons, AddPointees, Graph
<1>10. CASE Prop
  BY <1>1, <1>10 DEF Prop, Graph
<1>11. CASE DfsDone
  BY <1>1, <1>11 DEF DfsDone, Graph
<1>12. CASE g' = g
  BY <1>12, SMTT(30)
<1>13. g' = g \/ (\E e \in curr : Visit(e)) \/ LsCons
       \/ (\E m \in members : LoadMember(m) \/ StoreMember(m)) \/ (\E m \in members : HandleExt(m))
       \/ LsDone \/ GepCons \/ Prop \/ DfsDone
  BY DEF Next, vars, graphVars, Loop, SwapIfEmpty, Converge, PopStale,
   SolveNode, HcdMember, HcdDone, NextPhase, 
   Merge, MergeReturn, ReturnToHcd, ReturnToCollapse,
   GiveUp, KeepGoing, Lcd, RunLcd, LcdStart, LcdDone, DfsEdge, DfsReturn,
   CollapseNode, Collapsed, Finish
<1> QED
  BY <1>4, <1>5, <1>6, <1>7, <1>8, <1>9, <1>10, <1>11, <1>12, <1>13

(* Every HCD variable left in the graph is the same one.                   *)
OneHcdVar == \E w \in Node : \A x \in Node : g.hcd_var[x] \in {0, w}

LEMMA OneHcdVarStays ==
  ASSUME IInv, OneHcdVar, [Next]_vars
  PROVE  OneHcdVar'
<1>1. PICK w \in Node : \A x \in Node : g.hcd_var[x] \in {0, w}
  BY DEF OneHcdVar
<1>2. CASE MergeNodes
  <2> DEFINE p == Parent(g, marg[1], marg[2])
             c == Child(g, marg[1], marg[2])
  <2>1. p \in Node /\ c \in Node
    BY DEF IInv, MergeInv, MergeType, Parent, Child
  <2>2. g' = g \/ g' = Absorb(g, p, c)
    BY <1>2 DEF MergeNodes, Unify
  <2> HIDE DEF p, c
  <2>3. g.hcd_var \in [Node -> Node]
    BY DEF IInv, GraphInv, GraphType, Graph
  <2>4. Absorb(g, p, c).hcd_var = [g.hcd_var EXCEPT ![p] = IF @ = 0 THEN g.hcd_var[c] ELSE @, ![c] = 0]
    BY DEF Absorb, MergedHcd
  <2>5. \A x \in Node : g'.hcd_var[x] \in {0, w}
    BY <1>1, <2>1, <2>2, <2>3, <2>4
  <2> QED
    BY <2>5 DEF OneHcdVar
<1>3. CASE ~MergeNodes
  BY <1>1, <1>3, HcdVarKept DEF OneHcdVar
<1> QED
  BY <1>2, <1>3

LEMMA OneHcdVarNests ==
  ASSUME IInv, OneHcdVar
  PROVE  NestedMerge(g, marg[1], marg[2]) = <<>>
<1>1. PICK w \in Node : \A x \in Node : g.hcd_var[x] \in {0, w}
  BY DEF OneHcdVar
<1> DEFINE a == marg[1]
           b == marg[2]
<1>2. a \in Node /\ b \in Node /\ Parent(g, a, b) \in {a, b} /\ Child(g, a, b) \in {a, b}
  BY DEF IInv, MergeInv, MergeType, Parent, Child
<1> HIDE DEF a, b
<1>3. g.hcd_var[a] # 0 /\ g.hcd_var[b] # 0
      => g.hcd_var[Parent(g, a, b)] = w /\ g.hcd_var[Child(g, a, b)] = w
  BY <1>1, <1>2
<1>4. NestedMerge(g, a, b) = <<>>
  BY <1>3 DEF NestedMerge
<1> QED
  BY <1>4 DEF a, b

(* The same without a condition on the run, for systems in which hybrid    *)
(* cycle detection found at most one cycle: merge_nodes is given two HCD   *)
(* variables only if they are equal, so that no merge of lazy cycle        *)
(* detection leads to another one.                                         *)
THEOREM OneCycleStaysPrecise ==
  ASSUME IsFiniteSet(Node),
         \A s \in Inputs : /\ Faithful(s, Least(s))
                           /\ \E w \in Node : \A x \in Node : s.hcd_var[x] \in {0, w}
  PROVE  Spec => []Precise
<1>1. Init => OneHcdVar
  BY DEF Init, OneHcdVar, InitGraph
<1>2. IInv /\ OneHcdVar /\ [Next]_vars => OneHcdVar'
  BY OneHcdVarStays
<1>3. IInv /\ OneHcdVar => NoNestedLcd
  BY OneHcdVarNests DEF NoNestedLcd
<1>4. Spec => []IInv
  BY Inductive
<1>5. Spec /\ []NoNestedLcd => []Precise
  BY StaysPrecise
<1> QED
  BY <1>1, <1>2, <1>3, <1>4, <1>5, PTL DEF Spec
=============================================================================
