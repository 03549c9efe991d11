---------------------------- MODULE SoundProofs ----------------------------
(***************************************************************************)
(* When the solver stops by itself, what it has found solves all the       *)
(* constraints it was given: no visit that a pointee still needs is lost,  *)
(* whatever is merged, deleted as redundant or skipped as stale.  And the  *)
(* cleanups after it, which merge once more, keep what clients ask for.    *)
(***************************************************************************)
EXTENDS PrecisionProofs, ResultsProperties

-----------------------------------------------------------------------------
(* What is never undone *)

(* A step that takes nothing away.                                         *)
Forward ==
  /\ sys' = sys
  /\ g' \in Graph
  /\ Grown(g, g')
  /\ \A s, d \in Node : HasEdge(s, d) => HasEdge(s, d)'

LEMMA ComplexTyped ==
  ASSUME IInv, NEW C \in ComplexCons
  PROVE  /\ C \in Range(sys.cons) /\ C \in Constraint
         /\ C.type \in {"load", "store", "gep"}
         /\ C.dest \in Node /\ C.src \in Node /\ C.off \in Nat /\ Base(C) \in Node
         /\ g.rep[Base(C)] \in Node /\ IsCall(sys, C) \in BOOLEAN
<1>1. sys \in System /\ g \in Graph
  BY DEF IInv, GraphInv, GraphType
<1>2. PICK cid \in Complex(sys) : C = sys.cons[cid]
  BY DEF ComplexCons
<1>3. cid \in DOMAIN sys.cons /\ C.type \in {"load", "store", "gep"}
  BY <1>2 DEF Complex
<1>4. C \in Range(sys.cons)
  BY <1>2, <1>3 DEF Range
<1>5. C \in Constraint /\ C.dest \in Node /\ C.src \in Node /\ C.off \in Nat
  BY <1>1, <1>4, ConsTyped
<1>6. Base(C) \in Node
  BY <1>5 DEF Base
<1> QED
  BY <1>1, <1>3, <1>4, <1>5, <1>6 DEF Graph, IsCall

LEMMA TargetsNodes ==
  ASSUME NEW P \in SUBSET Node, NEW C \in Constraint, NEW call \in BOOLEAN
  PROVE  Targets(P, C, call) \subseteq Node
<1>1. C.off \in Nat
  BY DEF Constraint
<1>2. Shift(P \ FuncNode, C.off) \subseteq Node /\ Shift((P \cap FuncNode) \ ExtNode, C.off) \subseteq Node
  BY <1>1, ShiftNodes
<1>3. CASE C.off = 0
  BY <1>3 DEF Targets
<1>4. CASE C.off > 0 /\ ~call
  BY <1>1, <1>2, <1>4 DEF Targets
<1>5. CASE C.off > 0 /\ call
  BY <1>1, <1>2, <1>5 DEF Targets
<1> QED
  BY <1>1, <1>3, <1>4, <1>5

LEMMA ForwardLinked ==
  ASSUME IInv, Forward, NEW C \in ComplexCons, NEW w \in Node, Linked(C, w)
  PROVE  Linked(C, w)'
BY ComplexTyped DEF Forward, Linked

LEMMA ForwardSolved ==
  ASSUME IInv, Forward, NEW C \in ComplexCons, NEW o \in Node, Solved(C, o)
  PROVE  Solved(C, o)'
<1>1. /\ C \in Constraint /\ C.dest \in Node /\ IsCall(sys, C) \in BOOLEAN
      /\ Targets({o}, C, IsCall(sys, C)) \subseteq Node
  BY ComplexTyped, TargetsNodes
<1>2. IsCall(sys, C)' = IsCall(sys, C)
  BY DEF Forward, IsCall
<1>3. C.type = "gep" => (Shift({o}, C.off) \subseteq g.points_to[g.rep[C.dest]])'
  BY <1>1 DEF Solved, Forward, Grown
<1>4. C.type # "gep" => \A t \in Targets({o}, C, IsCall(sys, C)) : Linked(C, t)'
  BY <1>1, ForwardLinked DEF Solved
<1> QED
  BY <1>2, <1>3, <1>4 DEF Solved

LEMMA EffectTyped ==
  ASSUME NEW m \in ExtNode \X Site
  PROVE  ExtEffect[m] \in Effect /\ ExtEffect[m].dest \in Node /\ ExtEffect[m].src \in Node
BY CallAssumption DEF Effect

LEMMA ForwardEffect ==
  ASSUME IInv, Forward, NEW m \in ExtNode \X Site, EffectHolds(m)
  PROVE  EffectHolds(m)'
BY EffectTyped DEF Forward, EffectHolds, Grown

LEMMA ForwardSame ==
  ASSUME IInv, Forward, NEW a \in Node, NEW b \in Node, g.rep[a] = g.rep[b]
  PROVE  g'.rep[a] = g'.rep[b]
BY DEF Forward, Grown

(* The constraints that hold from the start.                               *)
LEMMA ForwardFacts ==
  ASSUME IInv, Forward
  PROVE  /\ \A C \in OfType(sys, "addr_of") :
              C.src \in g.points_to[g.rep[C.dest]] => (C.src \in g.points_to[g.rep[C.dest]])'
         /\ \A C \in OfType(sys, "copy") : HasEdge(C.src, C.dest) => HasEdge(C.src, C.dest)'
<1>1. \A C \in Range(sys.cons) : C.src \in Node /\ C.dest \in Node
  BY ConsTyped DEF IInv, GraphInv, GraphType
<1> QED
  BY <1>1 DEF OfType, Forward, Grown

(* Edges stay when copy_to only grows and nothing is merged.               *)
LEMMA EdgesStay ==
  ASSUME IInv, g'.rep = g.rep, \A x \in Node : g.copy_to[x] \subseteq g'.copy_to[x],
         NEW s \in Node, NEW d \in Node, HasEdge(s, d)
  PROVE  HasEdge(s, d)'
<1>1. g.rep[s] \in Node
  BY DEF IInv, GraphInv, GraphType, Graph
<1> QED
  BY <1>1 DEF HasEdge

LEMMA SameGraphForward ==
  ASSUME IInv, sys' = sys, g' = g
  PROVE  Forward
BY EdgesStay DEF Forward, Grown, IInv, GraphInv, GraphType

-----------------------------------------------------------------------------
(* With nothing queued everything is solved *)

(* What has to be shown of an assignment that solves a system.             *)
LEMMA MeansSolution ==
  ASSUME NEW s \in System, NEW S \in Assignments,
         \A C \in Range(s.cons) :
           /\ C.type = "addr_of" => C.src \in S[C.dest]
           /\ C.type = "gep" => Shift(S[C.src], C.off) \subseteq S[C.dest]
           /\ C.type = "copy" => Leads(S, C.src, C.dest)
           /\ C.type = "load" =>
                \A t \in Targets(S[C.src], C, IsCall(s, C)) : Leads(S, t, C.dest)
           /\ C.type = "store" =>
                \A t \in Targets(S[C.dest], C, IsCall(s, C)) : Leads(S, C.src, t),
         \A e \in Effects(s, S) :
           /\ e.kind = "point" => e.src \in S[e.dest]
           /\ e.kind = "copy" => Leads(S, e.src, e.dest)
  PROVE  IsSolution(s, S)
<1>1. ASSUME NEW v \in Node, NEW x \in Bases(s, S, v)
      PROVE  x \in S[v]
  <2>1. CASE \E C \in OfType(s, "addr_of") : C.dest = v /\ x = C.src
    BY <2>1 DEF OfType
  <2>2. CASE \E C \in OfType(s, "gep") : C.dest = v /\ x \in Shift(S[C.src], C.off)
    BY <2>2 DEF OfType
  <2>3. CASE \E e \in Effects(s, S) : e.kind = "point" /\ e.dest = v /\ x = e.src
    BY <2>3
  <2> QED
    BY <1>1, <2>1, <2>2, <2>3, InBases
<1>2. ASSUME NEW e \in Flows(s, S)
      PROVE  S[e[1]] \subseteq S[e[2]]
  <2>1. i2p \notin {e[1], e[2]}
    BY Zenon DEF Flows
  <2>2. \/ e \in {<<C.src, C.dest>> : C \in OfType(s, "copy")}
        \/ e \in UNION {{<<t, C.dest>> : t \in Targets(S[C.src], C, IsCall(s, C))} :
                           C \in OfType(s, "load")}
        \/ e \in UNION {{<<C.src, t>> : t \in Targets(S[C.dest], C, IsCall(s, C))} :
                           C \in OfType(s, "store")}
        \/ e \in {<<x.src, x.dest>> : x \in {y \in Effects(s, S) : y.kind = "copy"}}
    BY Zenon DEF Flows
  <2>3. CASE e \in {<<C.src, C.dest>> : C \in OfType(s, "copy")}
    BY <2>1, <2>3 DEF OfType, Leads
  <2>4. CASE e \in UNION {{<<t, C.dest>> : t \in Targets(S[C.src], C, IsCall(s, C))} :
                             C \in OfType(s, "load")}
    <3>1. PICK C \in OfType(s, "load") :
            \E t \in Targets(S[C.src], C, IsCall(s, C)) : e = <<t, C.dest>>
      BY <2>4
    <3> QED
      BY <2>1, <3>1 DEF OfType, Leads
  <2>5. CASE e \in UNION {{<<C.src, t>> : t \in Targets(S[C.dest], C, IsCall(s, C))} :
                             C \in OfType(s, "store")}
    <3>1. PICK C \in OfType(s, "store") :
            \E t \in Targets(S[C.dest], C, IsCall(s, C)) : e = <<C.src, t>>
      BY <2>5
    <3> QED
      BY <2>1, <3>1 DEF OfType, Leads
  <2>6. CASE e \in {<<x.src, x.dest>> : x \in {y \in Effects(s, S) : y.kind = "copy"}}
    BY <2>1, <2>6 DEF Leads
  <2> QED
    BY <2>2, <2>3, <2>4, <2>5, <2>6
<1> QED
  BY <1>1, <1>2 DEF IsSolution

(* The targets are those of the single pointees.                           *)
LEMMA TargetOf ==
  ASSUME NEW P \in SUBSET Node, NEW C \in Constraint, NEW call \in BOOLEAN,
         NEW t \in Targets(P, C, call)
  PROVE  \E o \in P : /\ t \in Targets({o}, C, call)
                      /\ C.off = 0 => t = o
<1>1. C.off \in Nat
  BY DEF Constraint
<1>2. CASE C.off = 0
  BY <1>2 DEF Targets
<1>3. CASE C.off > 0 /\ ~call
  BY <1>1, <1>3 DEF Targets, Shift, Fits
<1>4. CASE C.off > 0 /\ call
  BY <1>1, <1>4 DEF Targets, Shift, Fits
<1>5. C.off = 0 \/ (C.off > 0 /\ ~call) \/ (C.off > 0 /\ call)
  BY <1>1
<1> QED
  BY <1>2, <1>3, <1>4, <1>5, Zenon

(* An edge whose source is settled.                                        *)
LEMMA EdgeLeads ==
  ASSUME IInv, FactsHold, EdgesKept({}), ~Visiting, pc # "prop",
         NEW s \in Node, NEW d \in Node, HasEdge(s, d)
  PROVE  Leads(Result, s, d)
<1>1. /\ g.rep[s] \in Node /\ g.rep[d] \in Node /\ g.rep[i2p] = i2p
      /\ \A x \in Node : g.rep[x] = i2p <=> x = i2p
      /\ g.copy_to[g.rep[s]] \subseteq Node
  BY NodeAssumption DEF IInv, GraphInv, GraphType, Graph, FactsHold
<1>2. CASE i2p \in {s, d} \/ g.rep[s] = g.rep[d]
  BY <1>2 DEF Leads, Result
<1>3. ASSUME i2p \notin {s, d}, NEW x \in g.copy_to[g.rep[s]], g.rep[x] = g.rep[d]
      PROVE  Leads(Result, s, d)
  <2>1. i2p \notin {g.rep[s], x}
    BY <1>1, <1>3
  <2>2. Settled({}, g.rep[s]) \subseteq g.points_to[g.rep[x]]
    BY <1>1, <1>3, <2>1 DEF EdgesKept
  <2> QED
    BY <1>3, <2>2 DEF Settled, Leads, Result
<1> QED
  BY <1>2, <1>3 DEF HasEdge

LEMMA NothingLostSolves ==
  ASSUME IInv, FactsHold, NoneLost({}), ~Visiting, pc # "prop", pc # "merge"
  PROVE  IsSolution(sys, Result)
<1>1. /\ sys \in System /\ Result \in Assignments
      /\ \A x \in Node : Result[x] = g.points_to[g.rep[x]] /\ g.rep[x] \in Node
      /\ \A x \in Node : Settled({}, x) = g.points_to[x]
  BY DEF IInv, GraphInv, GraphType, Graph, Result, Assignments, Settled
<1>2. ASSUME NEW C \in ComplexCons, C.type # "gep", NEW t \in Targets(Result[Base(C)], C, IsCall(sys, C))
      PROVE  Linked(C, t)
  <2>0. /\ C \in Constraint /\ Base(C) \in Node /\ IsCall(sys, C) \in BOOLEAN
        /\ C.dest \in Node /\ C.src \in Node
    BY ComplexTyped
  <2>1. PICK o \in Result[Base(C)] : /\ t \in Targets({o}, C, IsCall(sys, C))
                                     /\ C.off = 0 => t = o
    <3>1. Result[Base(C)] \in SUBSET Node
      BY <1>1, <2>0 DEF Assignments
    <3> QED
      BY <2>0, <3>1, <1>2, TargetOf
  <2>2. o \in Settled({}, g.rep[Base(C)]) /\ o \in Node
    BY <1>1, <2>0, <2>1 DEF Assignments
  <2>3. CASE Solved(C, o)
    BY <1>2, <2>1, <2>3, SMTT(30) DEF Solved
  <2>4. CASE Gone(C)
    <3> DEFINE x == g.rep[Base(C)]
    <3>1. PICK w \in Node : g.rep[w] = g.rep[g.hcd_var[x]] /\ Linked(C, w)
      BY <2>4 DEF Gone, Same
    <3>2. C.off = 0 /\ g.hcd_var[x] # 0 /\ t = o
      BY <2>1, <2>4 DEF Gone
    <3>3. o = i2p \/ g.rep[o] = g.rep[g.hcd_var[x]]
      BY <2>2, <3>2 DEF NoneLost, HcdKept, Same, Visiting
    <3>4. \A y \in Node : g.rep[y] = i2p <=> y = i2p
      BY DEF FactsHold
    <3> HIDE DEF x
    <3> QED
      BY <2>0, <2>2, <3>1, <3>2, <3>3, <3>4 DEF Linked, HasEdge
  <2> QED
    BY <2>2, <2>3, <2>4 DEF NoneLost, ConsKept, Pending
<1>3. ASSUME NEW C \in ComplexCons, C.type = "gep"
      PROVE  Shift(Result[C.src], C.off) \subseteq Result[C.dest]
  <2>1. C \in Constraint /\ Base(C) = C.src /\ C.src \in Node /\ C.dest \in Node
    BY <1>3, ComplexTyped DEF Base
  <2>2. ASSUME NEW o \in Result[C.src]
        PROVE  Solved(C, o)
    <3>1. o \in Settled({}, g.rep[Base(C)])
      BY <1>1, <2>1
    <3>2. ~Gone(C) /\ ~Pending(C, o)
      BY <1>3 DEF Gone, Pending
    <3> QED
      BY <3>1, <3>2 DEF NoneLost, ConsKept
  <2> QED
    BY <1>1, <1>3, <2>1, <2>2 DEF Solved, Shift, Fits
<1>4. \A C \in Range(sys.cons) : /\ C.src \in Node /\ C.dest \in Node
                                 /\ IsCall(sys, C) \in BOOLEAN /\ C \in Constraint
  BY <1>1, ConsTyped DEF IsCall
<1>5. ASSUME NEW s \in Node, NEW d \in Node, HasEdge(s, d)
      PROVE  Leads(Result, s, d)
  BY <1>5, EdgeLeads DEF NoneLost
<1>6. ASSUME NEW C \in Range(sys.cons)
      PROVE  /\ C.type = "addr_of" => C.src \in Result[C.dest]
             /\ C.type = "gep" => Shift(Result[C.src], C.off) \subseteq Result[C.dest]
             /\ C.type = "copy" => Leads(Result, C.src, C.dest)
             /\ C.type = "load" =>
                  \A t \in Targets(Result[C.src], C, IsCall(sys, C)) : Leads(Result, t, C.dest)
             /\ C.type = "store" =>
                  \A t \in Targets(Result[C.dest], C, IsCall(sys, C)) : Leads(Result, C.src, t)
  <2>1. C.type \in {"load", "store", "gep"} => C \in ComplexCons
    BY DEF ComplexCons, Complex, Range
  <2>2. C.type = "addr_of" => C.src \in Result[C.dest]
    BY <1>1, <1>4 DEF FactsHold, OfType
  <2>3. C.type = "copy" => Leads(Result, C.src, C.dest)
    BY <1>4, <1>5 DEF FactsHold, OfType
  <2>4. C.type = "load" =>
          \A t \in Targets(Result[C.src], C, IsCall(sys, C)) : Leads(Result, t, C.dest)
    <3> SUFFICES ASSUME C.type = "load", NEW t \in Targets(Result[C.src], C, IsCall(sys, C))
                 PROVE  Leads(Result, t, C.dest)
      OBVIOUS
    <3>1. Base(C) = C.src /\ t \in Node
      BY <1>1, <1>4, TargetsNodes DEF Base, Assignments
    <3> QED
      BY <1>2, <1>4, <1>5, <2>1, <3>1 DEF Linked
  <2>5. C.type = "store" =>
          \A t \in Targets(Result[C.dest], C, IsCall(sys, C)) : Leads(Result, C.src, t)
    <3> SUFFICES ASSUME C.type = "store", NEW t \in Targets(Result[C.dest], C, IsCall(sys, C))
                 PROVE  Leads(Result, C.src, t)
      OBVIOUS
    <3>1. Base(C) = C.dest /\ t \in Node
      BY <1>1, <1>4, TargetsNodes DEF Base, Assignments
    <3> QED
      BY <1>2, <1>4, <1>5, <2>1, <3>1 DEF Linked
  <2> QED
    BY <1>3, <2>1, <2>2, <2>3, <2>4, <2>5
<1>7. ASSUME NEW e \in Effects(sys, Result)
      PROVE  /\ e.kind = "point" => e.src \in Result[e.dest]
             /\ e.kind = "copy" => Leads(Result, e.src, e.dest)
  <2>1. PICK q \in ExtNode \X sys.icall :
          q[1] \in Result[Base(q[2][1])] /\ e = ExtEffect[<<q[1], q[2][2]>>]
    BY DEF Effects
  <2>2. /\ q[1] \in ExtNode /\ q[2] \in sys.icall /\ q[2][2] \in Site /\ Base(q[2][1]) \in Node
        /\ <<q[1], q[2][2]>> \in ExtNode \X Site
    BY <1>1 DEF System, Base, Constraint
  <2>3. EffectHolds(<<q[1], q[2][2]>>)
    <3>1. q[1] \in Settled({}, g.rep[Base(q[2][1])])
      BY <1>1, <2>1, <2>2
    <3> QED
      BY <2>2, <3>1 DEF NoneLost, ExtKept
  <2> QED
    BY <1>1, <1>5, <2>1, <2>2, <2>3, EffectTyped DEF EffectHolds
<1> QED
  BY <1>1, <1>6, <1>7, MeansSolution

-----------------------------------------------------------------------------
(* Steps between visits *)

Idle == pc \in {"loop", "check", "lcd", "dfs", "collapse"}

LEMMA FactsSame ==
  ASSUME FactsHold, UNCHANGED <<sys, g, ext_seen>>
  PROVE  FactsHold'
<1>1. \A a, b : HasEdge(a, b) => HasEdge(a, b)'
  BY DEF HasEdge
<1>2. \A m : EffectHolds(m) => EffectHolds(m)'
  BY <1>1 DEF EffectHolds
<1>3. /\ \A c : OfType(sys, c)' = OfType(sys, c)
      /\ Complex(sys)' = Complex(sys)
  BY DEF OfType, Complex
<1> QED
  BY <1>1, <1>2, <1>3 DEF FactsHold

LEMMA IdleKeeps ==
  ASSUME IInv, Idle, UNCHANGED <<sys, g, cplx_cons, icall_cons>>, pc' # "member",
         NEW Q, NoneLost(Q)
  PROVE  NoneLost(Q)'
<1>1. ~Visiting /\ pc # "prop" /\ pc # "merge" /\ pc # "member"
  BY DEF Idle, Visiting, HcdPhase, Merging, Sweeping
<1>2. /\ \A x : Settled(Q, x)' = Settled(Q, x)
      /\ \A a, b : g.rep[a] = g.rep[b] => Same(a, b)'
      /\ \A C, w : Linked(C, w)' = Linked(C, w)
      /\ \A C, o : Solved(C, o)' = Solved(C, o)
      /\ \A m : EffectHolds(m)' = EffectHolds(m)
      /\ ComplexCons' = ComplexCons
  BY DEF Settled, Same, Linked, HasEdge, Solved, EffectHolds, IsCall, ComplexCons, Complex
<1>3. \A a, b : Same(a, b) <=> g.rep[a] = g.rep[b]
  BY <1>1 DEF Same
<1>4. \A C : Gone(C) => Gone(C)'
  BY <1>2, <1>3 DEF Gone
<1>5. \A C : Listed(C) => Listed(C)'
  BY <1>1 DEF Listed, Doomed, SameCons
<1>6. ConsKept(Q)'
  BY <1>1, <1>2, <1>4, <1>5 DEF NoneLost, ConsKept, Pending
<1>7. EdgesKept(Q)'
  BY <1>1, <1>2 DEF NoneLost, EdgesKept
<1>8. HcdKept(Q)'
  BY <1>1, <1>2, <1>3 DEF NoneLost, HcdKept, Visiting
<1>9. ExtKept(Q)'
  BY <1>1, <1>2 DEF NoneLost, ExtKept
<1> QED
  BY <1>6, <1>7, <1>8, <1>9 DEF NoneLost

LEMMA IdleStep ==
  ASSUME IInv, SoundInv, Idle,
         Idle' \/ (pc' = "end" /\ (gave_up' \/ IsSolution(sys, Result)')),
         UNCHANGED <<sys, g, cplx_cons, icall_cons, ext_seen>>,
         FramesLinked',
         \A Q \in SUBSET Node : Covering(Q)' => Covering(Q)
  PROVE  SoundInv'
<1>1. /\ pc \notin {"abort", "done"} /\ pc' \in {"loop", "check", "lcd", "dfs", "collapse", "end"}
      /\ ~Visiting' /\ ~Merging' /\ ~Sweeping'
  BY DEF Idle, Visiting, HcdPhase, Merging, Sweeping
<1>2. FactsHold'
  <2>1. FactsHold
    BY <1>1 DEF SoundInv
  <2> QED
    BY <2>1, FactsSame
<1>3. MergeChain' /\ HcdMet' /\ SeenMet' /\ CallMember'
  BY <1>1 DEF MergeChain, HcdMet, SeenMet, CallMember, Visiting
<1>4. \A Q \in SUBSET Node : Covering(Q)' => NoneLost(Q)'
  BY <1>1, IdleKeeps DEF SoundInv
<1> QED
  BY <1>1, <1>2, <1>3, <1>4 DEF SoundInv, Idle

(* The queue *)
LEMMA QueuedSame ==
  ASSUME g'.rep = g.rep, g'.vtime = g.vtime, curr \cup next \subseteq curr' \cup next',
         NEW x, Queued(x)
  PROVE  Queued(x)'
BY DEF Queued, IsStale, is_rep

LEMMA Pushed ==
  ASSUME IInv, NEW x \in Node, is_rep(g, x), NEW b \in BOOLEAN,
         curr' = curr, next' = PushIf(b, next, x, g), g'.rep = g.rep, g'.vtime = g.vtime
  PROVE  /\ \A y \in Node : Queued(y) => Queued(y)'
         /\ b => Queued(x)'
<1>1. g.vtime[x] \in Nat /\ ~(g.vtime[x] < g.vtime[x])
  BY DEF IInv, GraphInv, GraphType, Graph
<1>2. CASE ~b
  BY <1>2, QueuedSame DEF PushIf
<1>3. CASE b
  <2>1. next' = {e \in next : e[1] # x} \cup {<<x, g.vtime[x]>>}
    BY <1>3 DEF PushIf, Push
  <2>2. Queued(x)'
    <3> DEFINE e == <<x, g.vtime[x]>>
    <3>1. e \in next' /\ e[1] = x /\ e[2] = g.vtime[x]
      BY <2>1
    <3>2. ~IsStale(e)'
      BY <1>1, <3>1 DEF IsStale, is_rep
    <3> QED
      BY <3>1, <3>2 DEF Queued
  <2>3. ASSUME NEW y \in Node, Queued(y), y # x
        PROVE  Queued(y)'
    <3>1. PICK e \in curr \cup next : e[1] = y /\ ~IsStale(e)
      BY <2>3 DEF Queued
    <3>2. e \in curr' \cup next'
      BY <2>1, <2>3, <3>1
    <3>3. ~IsStale(e)'
      BY <3>1 DEF IsStale, is_rep
    <3> QED
      BY <3>1, <3>2, <3>3 DEF Queued
  <2> QED
    BY <2>2, <2>3
<1> QED
  BY <1>2, <1>3

LEMMA SwapIfEmptySound ==
  ASSUME IInv, SoundInv, SwapIfEmpty
  PROVE  SoundInv'
<1>1. /\ pc' = pc /\ pc = "loop" /\ frames' = frames
      /\ UNCHANGED <<sys, g, cplx_cons, icall_cons, ext_seen>>
      /\ curr' \cup next' = curr \cup next
  BY DEF SwapIfEmpty, graphVars, lcdVars
<1>2. FramesLinked'
  BY <1>1 DEF SoundInv, FramesLinked, FrameLinked, HasEdge, is_rep
<1>3. ASSUME NEW Q \in SUBSET Node, Covering(Q)'
      PROVE  Covering(Q)
  BY <1>1, <1>3 DEF Covering, Queued, IsStale, is_rep, Merging
<1> QED
  BY <1>1, <1>2, <1>3, IdleStep DEF Idle

LEMMA PopStaleSound ==
  ASSUME IInv, SoundInv, NEW e \in curr, PopStale(e)
  PROVE  SoundInv'
<1>1. /\ pc' = pc /\ pc = "loop" /\ frames' = frames
      /\ UNCHANGED <<sys, g, cplx_cons, icall_cons, ext_seen, next>>
      /\ curr' = curr \ {e} /\ IsStale(e)
  BY DEF PopStale, graphVars, lcdVars
<1>2. FramesLinked'
  BY <1>1 DEF SoundInv, FramesLinked, FrameLinked, HasEdge, is_rep
<1>3. ASSUME NEW Q \in SUBSET Node, Covering(Q)'
      PROVE  Covering(Q)
  <2>1. ASSUME NEW x \in Node, Queued(x)
        PROVE  Queued(x)'
    BY <1>1, <2>1 DEF Queued, IsStale, is_rep
  <2> QED
    BY <1>1, <1>3, <2>1 DEF Covering, Merging
<1> QED
  BY <1>1, <1>2, <1>3, IdleStep DEF Idle

LEMMA ConvergeSound ==
  ASSUME IInv, SoundInv, Converge
  PROVE  SoundInv'
<1>1. /\ pc' = "end" /\ pc = "loop" /\ frames' = frames /\ curr = {} /\ next = {}
      /\ UNCHANGED <<sys, g, cplx_cons, icall_cons, ext_seen, curr, next>>
  BY DEF Converge, graphVars, lcdVars, wlVars
<1>2. FramesLinked'
  BY <1>1 DEF SoundInv, FramesLinked, FrameLinked, HasEdge, is_rep
<1>3. Covering({})
  BY <1>1 DEF Covering, Queued, Merging
<1>4. IsSolution(sys, Result)
  BY <1>1, <1>3, NothingLostSolves DEF SoundInv, Visiting, HcdPhase, Merging, Sweeping
<1>5. Result' = Result
  BY <1>1 DEF Result
<1>6. ASSUME NEW Q \in SUBSET Node, Covering(Q)'
      PROVE  Covering(Q)
  BY <1>1, <1>6 DEF Covering, Queued, IsStale, is_rep, Merging
<1> QED
  BY <1>1, <1>2, <1>4, <1>5, <1>6, IdleStep DEF Idle

LEMMA CheckSound ==
  ASSUME IInv, SoundInv, GiveUp \/ KeepGoing \/ RunLcd
  PROVE  SoundInv'
<1>1. /\ pc = "check" /\ frames' = frames
      /\ UNCHANGED <<sys, g, cplx_cons, icall_cons, ext_seen, curr, next>>
      /\ pc' \in {"loop", "lcd"} \/ (pc' = "end" /\ gave_up')
  BY DEF GiveUp, KeepGoing, RunLcd, graphVars, lcdVars, wlVars
<1>2. FramesLinked'
  BY <1>1 DEF SoundInv, FramesLinked, FrameLinked, HasEdge, is_rep
<1>3. ASSUME NEW Q \in SUBSET Node, Covering(Q)'
      PROVE  Covering(Q)
  BY <1>1, <1>3 DEF Covering, Queued, IsStale, is_rep, Merging
<1> QED
  BY <1>1, <1>2, <1>3, IdleStep DEF Idle

LEMMA FinishSound ==
  ASSUME IInv, SoundInv, Finish
  PROVE  SoundInv'
<1>1. /\ pc = "end" /\ pc' \in {"done", "abort"}
      /\ UNCHANGED <<sys, g, gave_up>>
  BY DEF Finish
<1> QED
  BY <1>1 DEF SoundInv, Result

LEMMA AbortSound ==
  ASSUME pc' = "abort"
  PROVE  SoundInv'
BY DEF SoundInv

-----------------------------------------------------------------------------
(* Lazy cycle detection *)

LEMMA FrontFrame ==
  ASSUME IInv, SoundInv, pc = "dfs"
  PROVE  FrameLinked(frames[Len(frames)])
BY LcdTypes, TopFrame DEF SoundInv, FramesLinked, InLcdDfs

LEMMA TopLinked ==
  ASSUME IInv, SoundInv, pc = "dfs", pc' = "dfs", g' = g,
         Len(frames') = Len(frames), DOMAIN frames' = DOMAIN frames,
         \A k \in 1 .. (Len(frames) - 1) : frames'[k] = frames[k],
         FrameLinked(frames'[Len(frames)])
  PROVE  FramesLinked'
<1>1. \A k \in DOMAIN frames : k < Len(frames) => FrameLinked(frames[k])
  BY DEF SoundInv, FramesLinked
<1>2. Len(frames) \in Nat /\ DOMAIN frames = 1 .. Len(frames)
  BY LcdTypes
<1>3. ASSUME NEW k \in DOMAIN frames'
      PROVE  FrameLinked(frames'[k])
  <2>1. k < Len(frames) => frames'[k] = frames[k]
    BY <1>2, <1>3, SMTT(30)
  <2> QED
    BY <1>1, <1>2, <1>3, <2>1
<1>4. \A k \in DOMAIN frames' : FrameLinked(frames[k])'
  BY <1>3, SMTT(30) DEF FrameLinked, HasEdge
<1> QED
  BY <1>4 DEF FramesLinked

LEMMA NewFrameLinked ==
  ASSUME IInv, NEW x \in Node, is_rep(g, x)
  PROVE  FrameLinked(NewFrame(x))
<1>1. g.copy_to[x] \subseteq Node
  BY DEF IInv, GraphInv, GraphType, Graph
<1>2. \A d \in g.copy_to[x] : HasEdge(x, d)
  BY <1>1 DEF HasEdge, is_rep
<1> QED
  BY <1>2 DEF FrameLinked, NewFrame

LEMMA RelinkLinked ==
  ASSUME IInv, NEW f \in DfsFrame, FrameLinked(f), NEW d0 \in Node, HasEdge(f.n, d0),
         FactsHold
  PROVE  FrameLinked(Relink(f, d0, g.rep[d0]))
<1> DEFINE d == g.rep[d0]
           r == Relink(f, d0, d)
<1>1. d \in Node /\ g.rep[d] = d /\ f.n \in Node
  BY LcdTypes DEF DfsFrame
<1>2. /\ r.n = f.n /\ ~r.waits /\ r.edges = f.edges \ {d0}
      /\ r.del_copy = (IF d = d0 THEN f.del_copy ELSE f.del_copy \cup {d0})
      /\ r.add_copy = (IF d = d0 THEN f.add_copy ELSE f.add_copy \cup {d})
  BY DEF Relink, DfsFrame
<1>3. HasEdge(f.n, d)
  <2>1. i2p \in {f.n, d0} => i2p \in {f.n, d}
    BY NodeAssumption DEF FactsHold
  <2>2. g.rep[d] = g.rep[d0]
    BY <1>1
  <2> HIDE DEF d
  <2> QED
    BY <2>1, <2>2 DEF HasEdge
<1> HIDE DEF r
<1>4. \A x \in r.edges \cup r.add_copy : HasEdge(r.n, x)
  BY <1>2, <1>3 DEF FrameLinked
<1>5. \A x \in r.del_copy : g.rep[x] = g.rep[r.n] \/ \E a \in r.add_copy : g.rep[a] = g.rep[x]
  <2>1. CASE d = d0
    BY <1>2, <2>1 DEF FrameLinked
  <2>2. CASE d # d0
    BY <1>1, <1>2, <2>2 DEF FrameLinked
  <2> QED
    BY <2>1, <2>2
<1>6. FrameLinked(r)
  BY <1>2, <1>4, <1>5 DEF FrameLinked
<1> QED
  BY <1>6 DEF r

LEMMA LcdStartSound ==
  ASSUME IInv, SoundInv, LcdStart, pc' # "abort"
  PROVE  SoundInv'
<1> DEFINE x == Min(lcd_todo)
<1>1. x \in Node
  BY MinMember, NodeAssumption DEF LcdStart, IInv, LcdInv, LcdType
<1>2. /\ pc = "lcd" /\ pc' \in {"lcd", "dfs"}
      /\ UNCHANGED <<sys, g, cplx_cons, icall_cons, ext_seen, curr, next>>
      /\ \/ pc' = "lcd" /\ frames' = frames
         \/ pc' = "dfs" /\ frames' = <<NewFrame(x)>> /\ CanEnter(x)
  BY DEF LcdStart, graphVars, wlVars
<1> HIDE DEF x
<1>3. FramesLinked'
  <2>1. CASE pc' = "lcd" /\ frames' = frames
    BY <1>2, <2>1 DEF SoundInv, FramesLinked, FrameLinked, HasEdge
  <2>2. CASE pc' = "dfs" /\ frames' = <<NewFrame(x)>> /\ CanEnter(x)
    <3>1. FrameLinked(NewFrame(x))
      BY <1>1, <2>2, NewFrameLinked DEF CanEnter
    <3>2. DOMAIN frames' = {1} /\ frames'[1] = NewFrame(x)
      BY <2>2
    <3>3. FrameLinked(NewFrame(x)) => FrameLinked(frames[1])'
      BY <1>2, <3>2 DEF FrameLinked, HasEdge
    <3> QED
      BY <2>2, <3>1, <3>2, <3>3 DEF FramesLinked
  <2> QED
    BY <1>2, <2>1, <2>2
<1>4. ASSUME NEW Q \in SUBSET Node, Covering(Q)'
      PROVE  Covering(Q)
  BY <1>2, <1>4 DEF Covering, Queued, IsStale, is_rep, Merging
<1> QED
  BY <1>2, <1>3, <1>4, IdleStep DEF Idle

LEMMA LcdDoneSound ==
  ASSUME IInv, SoundInv, LcdDone, pc' # "abort"
  PROVE  SoundInv'
<1>1. /\ pc = "lcd" /\ pc' = "loop" /\ frames' = frames
      /\ UNCHANGED <<sys, g, cplx_cons, icall_cons, ext_seen, curr, next>>
  BY DEF LcdDone, graphVars, wlVars, lcdVars
<1>2. FramesLinked'
  BY <1>1 DEF SoundInv, FramesLinked, FrameLinked, HasEdge
<1>3. ASSUME NEW Q \in SUBSET Node, Covering(Q)'
      PROVE  Covering(Q)
  BY <1>1, <1>3 DEF Covering, Queued, IsStale, is_rep, Merging
<1> QED
  BY <1>1, <1>2, <1>3, IdleStep DEF Idle

LEMMA DfsEdgeSound ==
  ASSUME IInv, SoundInv, DfsEdge, pc' # "abort"
  PROVE  SoundInv'
<1> DEFINE k == Len(frames)
           f == frames[k]
           d0 == Min(f.edges)
           d == get_node_rep(d0)
           skip == d \in f.add_copy \/ d = f.n
           down == d \notin lcd_roots /\ lcd_dfs_id[d] = Unvisited
<1>1. /\ pc = "dfs" /\ pc' = "dfs" /\ ~f.waits /\ f.edges # {} /\ d0 # f.n
      /\ UNCHANGED <<sys, g, cplx_cons, icall_cons, ext_seen, curr, next>>
      /\ \/ frames' = [frames EXCEPT ![k].edges = @ \ {d0},
                                     ![k].del_copy = @ \cup {d0}] /\ skip
         \/ /\ frames' = Append([frames EXCEPT ![k].waits = TRUE, ![k].dest0 = d0], NewFrame(d))
            /\ CanEnter(d)
         \/ frames' = [frames EXCEPT ![k] = Relink(f, d0, d)]
  BY DEF DfsEdge, graphVars, wlVars
<1>2. /\ frames \in Seq(DfsFrame) /\ frames # <<>> /\ k \in Nat \ {0} /\ k \in DOMAIN frames
      /\ DOMAIN frames = 1 .. k /\ f \in DfsFrame /\ f.n \in Node /\ f.edges \in SUBSET Node
      /\ f.del_copy \in SUBSET Node /\ f.add_copy \in SUBSET Node
  BY <1>1, TopFrame, LcdTypes DEF InLcdDfs, DfsFrame
<1>3. d0 \in f.edges /\ d0 \in Node /\ d = g.rep[d0] /\ d \in Node /\ g.rep[d] = d
  BY <1>1, <1>2, MinMember, NodeAssumption, LcdTypes DEF get_node_rep
<1>4. FrameLinked(f) /\ FactsHold /\ HasEdge(f.n, d0)
  <2>1. FrameLinked(f)
    BY <1>1, FrontFrame
  <2> QED
    BY <1>1, <1>3, <2>1 DEF FrameLinked, SoundInv
<1>5. is_rep(g, f.n)
  BY <1>1 DEF IInv, LcdInv
<1> HIDE DEF f, d0, d
<1>6. FramesLinked'
  <2>1. CASE frames' = [frames EXCEPT ![k].edges = @ \ {d0}, ![k].del_copy = @ \cup {d0}] /\ skip
    <3> DEFINE h == [f EXCEPT !.edges = @ \ {d0}, !.del_copy = @ \cup {d0}]
    <3>1. /\ h \in DfsFrame /\ h.n = f.n /\ h.edges = f.edges \ {d0} /\ ~h.waits
          /\ h.del_copy = f.del_copy \cup {d0} /\ h.add_copy = f.add_copy /\ h.our_dfs = f.our_dfs
      BY <1>1, <1>2, <1>3 DEF DfsFrame
    <3>2. frames' = [frames EXCEPT ![k] = h]
      BY <2>1, <1>2 DEF f
    <3>3. FrameLinked(h)
      <4>1. g.rep[d0] = g.rep[f.n] \/ \E a \in f.add_copy : g.rep[a] = g.rep[d0]
        BY <1>3, <2>1, <1>5 DEF is_rep
      <4> HIDE DEF h
      <4> QED
        BY <1>4, <3>1, <4>1 DEF FrameLinked
    <3>4. /\ Len(frames') = k /\ DOMAIN frames' = DOMAIN frames /\ frames'[k] = h
          /\ \A l \in 1 .. (k - 1) : frames'[l] = frames[l]
      <4> HIDE DEF h
      <4> QED
        <5>1. h.n = frames[Len(frames)].n /\ h.our_dfs = frames[Len(frames)].our_dfs
          BY <3>1 DEF f
        <5>2. frames \in Seq(DfsFrame) /\ frames # <<>> /\ h \in DfsFrame
          BY <1>2, <3>1
        <5> QED
          BY <3>2, <5>1, <5>2, EdgeKept
    <3> HIDE DEF h
    <3> QED
      BY <1>1, <3>3, <3>4, TopLinked
  <2>2. CASE frames' = [frames EXCEPT ![k] = Relink(f, d0, d)]
    <3> DEFINE h == Relink(f, d0, d)
    <3>1. h \in DfsFrame /\ h.n = f.n /\ h.our_dfs = f.our_dfs
      <4>1. f \in DfsFrame /\ d0 \in Node /\ d \in Node
        BY <1>2, <1>3
      <4> QED
        BY <4>1, RelinkFields
    <3>2. FrameLinked(h)
      BY <1>2, <1>3, <1>4, RelinkLinked
    <3>3. /\ Len(frames') = k /\ DOMAIN frames' = DOMAIN frames /\ frames'[k] = h
          /\ \A l \in 1 .. (k - 1) : frames'[l] = frames[l]
      <4>1. frames' = [frames EXCEPT ![k] = h]
        BY <2>2
      <4> HIDE DEF h
      <4> QED
        <5>1. h.n = frames[Len(frames)].n /\ h.our_dfs = frames[Len(frames)].our_dfs
          BY <3>1 DEF f
        <5>2. frames \in Seq(DfsFrame) /\ frames # <<>> /\ h \in DfsFrame
          BY <1>2, <3>1
        <5> QED
          BY <4>1, <5>1, <5>2, EdgeKept
    <3> HIDE DEF h
    <3> QED
      BY <1>1, <3>2, <3>3, TopLinked
  <2>3. CASE /\ frames' = Append([frames EXCEPT ![k].waits = TRUE, ![k].dest0 = d0], NewFrame(d))
             /\ CanEnter(d)
    <3> DEFINE t == NewFrame(d)
    <3>1. t \in DfsFrame /\ FrameLinked(t)
      BY <1>3, <2>3, NewFrameType, NewFrameLinked DEF CanEnter
    <3> HIDE DEF t
    <3>2. /\ DOMAIN frames' = 1 .. (k + 1) /\ Len(frames') = k + 1
          /\ \A l \in 1 .. (k - 1) : frames'[l] = frames[l]
          /\ frames'[k + 1] = t
      <4>1. frames \in Seq(DfsFrame) /\ frames # <<>> /\ d0 \in Node /\ t \in DfsFrame
        BY <1>2, <1>3, <3>1
      <4>2. frames' = Append([frames EXCEPT ![k].waits = TRUE, ![k].dest0 = d0], t)
        BY <2>3 DEF t
      <4> QED
        BY <4>1, <4>2, PushedFrame
    <3>3. /\ frames'[k].n = f.n /\ frames'[k].edges = f.edges /\ frames'[k].add_copy = f.add_copy
          /\ frames'[k].dest0 = d0
      BY <1>2, <1>3, <2>3, <3>1, PushedFrame DEF t, f
    <3>4. frames'[k].del_copy = f.del_copy
      BY <1>2, <2>3, <3>1 DEF t, f, DfsFrame
    <3>5. FrameLinked(frames'[k])
      BY <1>4, <3>3, <3>4 DEF FrameLinked
    <3>6. \A l \in 1 .. (k - 1) : FrameLinked(frames[l])
      BY <1>1, <1>2 DEF SoundInv, FramesLinked
    <3>7. ASSUME NEW l \in DOMAIN frames'
          PROVE  FrameLinked(frames'[l])
      <4>1. l \in 1 .. (k - 1) \/ l = k \/ l = k + 1
        BY <1>2, <3>2, SMTT(30)
      <4> QED
        BY <3>1, <3>2, <3>5, <3>6, <4>1
    <3>8. \A l \in DOMAIN frames' : FrameLinked(frames[l])'
      BY <1>1, <3>7, SMTT(30) DEF FrameLinked, HasEdge
    <3> QED
      BY <1>1, <3>8 DEF FramesLinked
  <2> QED
    BY <1>1, <2>1, <2>2, <2>3
<1>7. ASSUME NEW Q \in SUBSET Node, Covering(Q)'
      PROVE  Covering(Q)
  BY <1>1, <1>7 DEF Covering, Queued, IsStale, is_rep, Merging
<1> QED
  BY <1>1, <1>6, <1>7, IdleStep DEF Idle

LEMMA DfsReturnSound ==
  ASSUME IInv, SoundInv, DfsReturn, pc' # "abort"
  PROVE  SoundInv'
<1> DEFINE k == Len(frames)
           f == frames[k]
           d == get_node_rep(f.dest0)
<1>1. /\ pc = "dfs" /\ pc' = "dfs" /\ f.waits /\ is_rep(g, f.n)
      /\ UNCHANGED <<sys, g, cplx_cons, icall_cons, ext_seen, curr, next>>
  BY DEF DfsReturn, graphVars, wlVars
<1>2. PICK late \in SUBSET g.copy_to[f.n] :
        frames' = [frames EXCEPT ![k] = [Relink(f, f.dest0, d) EXCEPT !.edges = @ \cup late]]
  BY DEF DfsReturn
<1>3. /\ frames \in Seq(DfsFrame) /\ frames # <<>> /\ k \in Nat \ {0} /\ k \in DOMAIN frames
      /\ DOMAIN frames = 1 .. k /\ f \in DfsFrame /\ f.n \in Node /\ f.dest0 \in Node
      /\ late \in SUBSET Node
  <2>1. frames # <<>> /\ k \in Nat \ {0} /\ k \in DOMAIN frames
    BY <1>1, TopFrame DEF InLcdDfs
  <2> QED
    BY <2>1, LcdTypes DEF IInv, GraphInv, GraphType, Graph
<1>4. FrameLinked(f) /\ FactsHold /\ HasEdge(f.n, f.dest0)
  <2>1. FrameLinked(f)
    BY <1>1, FrontFrame
  <2> QED
    BY <1>1, <2>1 DEF FrameLinked, SoundInv
<1>5. d \in Node /\ d = g.rep[f.dest0]
  BY <1>3, LcdTypes DEF get_node_rep
<1> HIDE DEF f, d
<1> DEFINE q == Relink(f, f.dest0, d)
           h == [q EXCEPT !.edges = @ \cup late]
<1>6. q \in DfsFrame /\ q.n = f.n /\ q.our_dfs = f.our_dfs /\ FrameLinked(q) /\ ~q.waits
  <2>1. f \in DfsFrame /\ f.dest0 \in Node /\ d \in Node
    BY <1>3, <1>5
  <2>2. FrameLinked(q)
    BY <1>4, <1>5, <2>1, RelinkLinked
  <2> QED
    BY <2>1, <2>2, RelinkFields
<1> HIDE DEF q
<1>7. /\ h \in DfsFrame /\ h.n = f.n /\ h.our_dfs = f.our_dfs /\ ~h.waits
      /\ h.edges = q.edges \cup late /\ h.add_copy = q.add_copy /\ h.del_copy = q.del_copy
  BY <1>3, <1>6 DEF DfsFrame
<1>8. \A x \in late : HasEdge(f.n, x)
  BY <1>1, <1>3 DEF HasEdge, is_rep
<1>9. frames' = [frames EXCEPT ![k] = h]
  BY <1>2 DEF q
<1> HIDE DEF h
<1>10. FrameLinked(h)
  BY <1>6, <1>7, <1>8 DEF FrameLinked
<1>11. /\ Len(frames') = k /\ DOMAIN frames' = DOMAIN frames /\ frames'[k] = h
       /\ \A l \in 1 .. (k - 1) : frames'[l] = frames[l]
  <2>1. h.n = frames[Len(frames)].n /\ h.our_dfs = frames[Len(frames)].our_dfs
    BY <1>7 DEF f
  <2>2. frames \in Seq(DfsFrame) /\ frames # <<>> /\ h \in DfsFrame
    BY <1>3, <1>7
  <2> QED
    BY <1>9, <2>1, <2>2, EdgeKept
<1>12. FramesLinked'
  BY <1>1, <1>10, <1>11, TopLinked
<1>13. ASSUME NEW Q \in SUBSET Node, Covering(Q)'
       PROVE  Covering(Q)
  BY <1>1, <1>13 DEF Covering, Queued, IsStale, is_rep, Merging
<1> QED
  BY <1>1, <1>12, <1>13, IdleStep DEF Idle

LEMMA CollapseNodeSound ==
  ASSUME IInv, SoundInv, CollapseNode
  PROVE  SoundInv'
<1> DEFINE f == Last(frames)
           N == Len(frames)
<1>1. /\ pc = "collapse" /\ frames' = [frames EXCEPT ![N].chg = TRUE]
      /\ UNCHANGED <<sys, g, cplx_cons, icall_cons, ext_seen, curr, next>>
      /\ \/ pc' = "collapse"
         \/ pc' = "merge" /\ mret' = "collapse" /\ mframes' = <<>> /\ marg'[1] = f.n
  BY DEF CollapseNode, graphVars, wlVars
<1>2. /\ frames \in Seq(DfsFrame) /\ N \in Nat \ {0} /\ f = frames[N] /\ f \in DfsFrame
      /\ frames # <<>> /\ f.n \in Node /\ DOMAIN frames = 1 .. N
  BY <1>1, TopFrame, LcdTypes DEF InLcdDfs
<1> DEFINE h == [f EXCEPT !.chg = TRUE]
<1>3. h \in DfsFrame /\ h.n = f.n /\ h.our_dfs = f.our_dfs /\ h.chg
  BY <1>2 DEF DfsFrame
<1>4. frames' = [frames EXCEPT ![N] = h]
  BY <1>1, <1>2
<1> HIDE DEF h, f
<1>5. /\ Len(frames') = N /\ DOMAIN frames' = DOMAIN frames /\ frames'[N] = h
      /\ \A l \in 1 .. (N - 1) : frames'[l] = frames[l]
  <2>1. h.n = frames[Len(frames)].n /\ h.our_dfs = frames[Len(frames)].our_dfs
    BY <1>2, <1>3
  <2>2. frames \in Seq(DfsFrame) /\ frames # <<>> /\ h \in DfsFrame
    BY <1>2, <1>3
  <2> QED
    BY <1>4, <2>1, <2>2, EdgeKept
<1>6. Last(frames') = h
  BY <1>5 DEF Last
<1>7. FactsHold /\ FramesLinked /\ is_rep(g, f.n)
  BY <1>1 DEF SoundInv, FramesLinked, f
<1>8. FramesLinked'
  <2>1. \A k \in 1 .. (N - 1) : FrameLinked(frames[k])
    BY <1>2, <1>7 DEF FramesLinked
  <2>2. \A k \in 1 .. (N - 1) : FrameLinked(frames'[k])
    BY <1>5, <2>1, SMTT(30)
  <2>3. \A k \in 1 .. (N - 1) : FrameLinked(frames[k])'
    <3>1. g' = g
      BY <1>1
    <3> QED
      BY <2>2, <3>1 DEF FrameLinked, HasEdge
  <2> QED
    BY <1>1, <1>2, <1>3, <1>5, <1>6, <1>7, <2>3 DEF FramesLinked, is_rep
<1>9. ASSUME NEW Q \in SUBSET Node, Covering(Q)'
      PROVE  Covering(Q)
  <2>1. f.n \in Q
    <3>1. CASE pc' = "collapse"
      BY <1>3, <1>6, <1>9, <3>1 DEF Covering
    <3>2. CASE pc' = "merge" /\ marg'[1] = f.n
      <4>1. g'.rep[marg'[1]] \in Q
        BY <1>9, <3>2 DEF Covering, Merging
      <4> QED
        BY <1>1, <1>7, <3>2, <4>1 DEF is_rep
    <3> QED
      BY <1>1, <3>1, <3>2
  <2> QED
    BY <1>1, <1>9, <2>1 DEF Covering, Queued, IsStale, is_rep, Merging, f
<1>10. CASE pc' = "collapse"
  BY <1>1, <1>8, <1>9, <1>10, IdleStep DEF Idle
<1>11. CASE pc' = "merge" /\ mret' = "collapse" /\ mframes' = <<>>
  <2>1. FactsHold'
    BY <1>1, <1>7, FactsSame
  <2>2. ~Visiting' /\ ~Sweeping' /\ pc' # "member"
    BY <1>11 DEF Visiting, HcdPhase, Merging, Sweeping
  <2>3. MergeChain'
    BY <1>3, <1>6, <1>11 DEF MergeChain
  <2>4. HcdMet' /\ SeenMet' /\ CallMember'
    BY <2>2 DEF HcdMet, SeenMet, CallMember, Visiting
  <2>5. \A Q \in SUBSET Node : Covering(Q)' => NoneLost(Q)'
    <3>1. \A Q \in SUBSET Node : Covering(Q) => NoneLost(Q)
      BY <1>1 DEF SoundInv
    <3> QED
      BY <1>1, <1>9, <2>2, <3>1, IdleKeeps DEF Idle
  <2> QED
    BY <1>8, <1>11, <2>1, <2>3, <2>4, <2>5 DEF SoundInv
<1> QED
  BY <1>1, <1>10, <1>11

LEMMA CollapsedSound ==
  ASSUME IInv, SoundInv, Collapsed
  PROVE  SoundInv'
<1> DEFINE f == Last(frames)
           N == Len(frames)
<1>1. /\ pc = "collapse" /\ frames' = Front(frames)
      /\ UNCHANGED <<sys, g, cplx_cons, icall_cons, ext_seen, curr>>
      /\ next' = PushIf(f.chg, next, f.n, g)
      /\ pc' = (IF N = 1 THEN "lcd" ELSE "dfs")
  BY DEF Collapsed, Leave, graphVars
<1>2. /\ frames \in Seq(DfsFrame) /\ N \in Nat \ {0} /\ f = frames[N] /\ f \in DfsFrame
      /\ frames # <<>> /\ f.n \in Node /\ DOMAIN frames = 1 .. N /\ f.chg \in BOOLEAN
  BY <1>1, TopFrame, LcdTypes DEF InLcdDfs, DfsFrame
<1>3. FactsHold /\ FramesLinked /\ is_rep(g, f.n)
  BY <1>1 DEF SoundInv, FramesLinked
<1>4. /\ DOMAIN frames' = 1 .. (N - 1) /\ Len(frames') = N - 1
      /\ \A k \in 1 .. (N - 1) : frames'[k] = frames[k]
  BY <1>1, <1>2, FrontSeq
<1> HIDE DEF f
<1>5. FramesLinked'
  <2>1. \A k \in 1 .. (N - 1) : FrameLinked(frames[k])
    BY <1>2, <1>3 DEF FramesLinked
  <2>2. \A k \in 1 .. (N - 1) : FrameLinked(frames'[k])
    BY <1>4, <2>1, SMTT(30)
  <2>3. \A k \in 1 .. (N - 1) : FrameLinked(frames[k])'
    BY <1>1, <2>2, SMTT(30) DEF FrameLinked, HasEdge
  <2> QED
    BY <1>1, <1>4, <2>3 DEF FramesLinked
<1>6. \A y \in Node : Queued(y) => Queued(y)'
  BY <1>1, <1>2, <1>3, Pushed
<1>7. ASSUME NEW Q \in SUBSET Node, Covering(Q)'
      PROVE  Covering(Q)
  <2>1. \A x \in Node : Queued(x) => x \in Q
    BY <1>6, <1>7 DEF Covering
  <2>2. f.chg => f.n \in Q
    <3>1. \A x \in Node : Queued(x)' => x \in Q
      BY <1>7 DEF Covering
    <3>2. ASSUME NEW x \in Node, x = f.n, f.chg
          PROVE  x \in Q
      <4>1. Queued(x)'
        BY <1>1, <1>2, <1>3, <3>2, Pushed
      <4> QED
        BY <3>1, <4>1
    <3> QED
      BY <1>2, <3>2
  <2> QED
    BY <1>1, <1>7, <2>1, <2>2 DEF Covering, Merging, f
<1> QED
  BY <1>1, <1>5, <1>7, IdleStep DEF Idle

(* What a step that merges nothing has to keep, part by part.              *)
LEMMA ConsKeptStays ==
  ASSUME IInv, Forward, g'.rep = g.rep, g'.hcd_var = g.hcd_var, pc # "merge",
         NEW Q \in SUBSET Node, NEW R \in SUBSET Node,
         \A x \in Node : Settled(Q, x)' \subseteq Settled(R, x),
         \A C \in ComplexCons : Listed(C) => Listed(C)' \/ Gone(C)',
         \A C \in ComplexCons : \A o \in d_points_to : 
            Pending(C, o) => Pending(C, o)' \/ Solved(C, o)',
         ConsKept(R)
  PROVE  ConsKept(Q)'
<1>1. ComplexCons' = ComplexCons
  BY DEF Forward, ComplexCons, Complex
<1>2. ASSUME NEW C \in ComplexCons
      PROVE  /\ g.rep[Base(C)] \in Node
             /\ Gone(C) => Gone(C)'
             /\ \A o \in Node : Solved(C, o) => Solved(C, o)'
             /\ \A o : Pending(C, o) => o \in d_points_to
             /\ \A o \in Settled(R, g.rep[Base(C)]) : o \in Node
  <2>1. g.rep[Base(C)] \in Node
    BY ComplexTyped, SMTT(30)
  <2>2. Gone(C) => Gone(C)'
    BY ForwardLinked DEF Gone, Same
  <2>3. \A o \in Node : Solved(C, o) => Solved(C, o)'
    BY ForwardSolved
  <2>4. \A o \in Settled(R, g.rep[Base(C)]) : o \in Node
    BY <2>1 DEF Settled, IInv, GraphInv, GraphType, Graph
  <2>5. \A o : Pending(C, o) => o \in d_points_to
    BY DEF Pending
  <2> QED
    BY <2>1, <2>2, <2>3, <2>4, <2>5
<1>3. ASSUME NEW C \in ComplexCons, ~Gone(C)'
      PROVE  Listed(C)' /\ \A o \in Settled(Q, g.rep[Base(C)])' : Solved(C, o)' \/ Pending(C, o)'
  <2>1. ~Gone(C)
    BY <1>2, <1>3
  <2>2. Listed(C) /\ \A o \in Settled(R, g.rep[Base(C)]) : Solved(C, o) \/ Pending(C, o)
    BY <2>1 DEF ConsKept
  <2>3. Settled(Q, g.rep[Base(C)])' \subseteq Settled(R, g.rep[Base(C)])
    BY <1>2 DEF Settled
  <2> QED
    BY <1>2, <1>3, <2>2, <2>3
<1> QED
  BY <1>1, <1>3 DEF ConsKept

LEMMA HcdKeptStays ==
  ASSUME IInv, Forward, g'.rep = g.rep, g'.hcd_var = g.hcd_var, pc # "merge",
         NEW Q \in SUBSET Node, NEW R \in SUBSET Node,
         \A x \in Node : Settled(Q, x)' \subseteq Settled(R, x),
         HcdPhase => \A o \in d_points_to : <<o, NoSite>> \in members /\ o # i2p =>
           Same(o, g.hcd_var[n])' \/ (HcdPhase /\ <<o, NoSite>> \in members)',
         HcdPhase => n' = n /\ members \subseteq d_points_to \X {NoSite},
         HcdKept(R)
  PROVE  HcdKept(Q)'
<1>1. ComplexCons' = ComplexCons
  BY DEF Forward, ComplexCons, Complex
<1>2. \A a, b : g.rep[a] = g.rep[b] => Same(a, b)'
  BY DEF Same
<1>3. \A a, b : Same(a, b) => g.rep[a] = g.rep[b]
  BY DEF Same
<1>4. \A C \in ComplexCons : g.rep[Base(C)] \in Node
  BY ComplexTyped
<1>5. ASSUME NEW C \in ComplexCons, NEW x \in Node, x = g.rep[Base(C)], g.hcd_var[x] # 0,
             NEW o \in Settled(R, x)
      PROVE  o = i2p \/ Same(o, g.hcd_var[x])' \/ (HcdPhase /\ x = n /\ <<o, NoSite>> \in members)'
  <2>1. \/ o = i2p \/ Same(o, g.hcd_var[x])
        \/ HcdPhase /\ x = n /\ <<o, NoSite>> \in members
    BY <1>5 DEF HcdKept
  <2>2. CASE Same(o, g.hcd_var[x])
    BY <1>2, <1>3, <2>2
  <2>3. CASE HcdPhase /\ x = n /\ <<o, NoSite>> \in members /\ o # i2p
    BY <2>3 DEF HcdPhase
  <2> QED
    BY <2>1, <2>2, <2>3
<1>6. \A C \in ComplexCons :
        LET x == g.rep[Base(C)] IN
        g.hcd_var[x] # 0 =>
          \A o \in Settled(Q, x)' :
            o = i2p \/ Same(o, g.hcd_var[x])' \/ (HcdPhase /\ x = n /\ <<o, NoSite>> \in members)'
  BY <1>4, <1>5
<1> QED
  BY <1>1, <1>4, <1>6 DEF HcdKept

LEMMA ExtKeptStays ==
  ASSUME IInv, Forward, g'.rep = g.rep,
         NEW Q \in SUBSET Node, NEW R \in SUBSET Node,
         \A x \in Node : Settled(Q, x)' \subseteq Settled(R, x),
         Visiting => \A call \in sys.icall : \A o \in d_points_to \cap ExtNode :
           g.rep[Base(call[1])] = n /\ 
           (Waiting(call) \/ (pc = "member" /\ <<o, call[2]>> \in members)) =>
             \/ EffectHolds(<<o, call[2]>>)'
             \/ /\ Visiting' /\ n' = n /\ o \in d_points_to'
                /\ Waiting(call)' \/ (pc = "member" /\ <<o, call[2]>> \in members)',
         ExtKept(R)
  PROVE  ExtKept(Q)'
<1>1. ASSUME NEW call \in sys.icall, NEW x \in Node, x = g.rep[Base(call[1])],
             NEW o \in Settled(R, x) \cap ExtNode
      PROVE  \/ EffectHolds(<<o, call[2]>>)'
             \/ /\ Visiting' /\ x = n' /\ o \in d_points_to'
                /\ Waiting(call)' \/ (pc = "member" /\ <<o, call[2]>> \in members)'
  <2>1. <<o, call[2]>> \in ExtNode \X Site
    BY DEF IInv, GraphInv, GraphType, System
  <2>2. \/ EffectHolds(<<o, call[2]>>)
        \/ /\ Visiting /\ x = n /\ o \in d_points_to
           /\ Waiting(call) \/ (pc = "member" /\ <<o, call[2]>> \in members)
    BY <1>1 DEF ExtKept
  <2>3. CASE EffectHolds(<<o, call[2]>>)
    BY <2>1, <2>3, ForwardEffect
  <2>4. CASE /\ Visiting /\ x = n /\ o \in d_points_to
             /\ Waiting(call) \/ (pc = "member" /\ <<o, call[2]>> \in members)
    BY <1>1, <2>4
  <2> QED
    BY <2>2, <2>3, <2>4
<1>2. \A call \in sys.icall : g.rep[Base(call[1])] \in Node
  BY DEF IInv, GraphInv, GraphType, System, Constraint, Base, Graph
<1>3. \A call \in sys.icall :
        LET x == g.rep[Base(call[1])] IN
        \A o \in Settled(Q, x)' \cap ExtNode :
          \/ EffectHolds(<<o, call[2]>>)'
          \/ /\ Visiting' /\ x = n' /\ o \in d_points_to'
             /\ Waiting(call)' \/ (pc = "member" /\ <<o, call[2]>> \in members)'
  BY <1>1, <1>2
<1>4. sys' = sys
  BY DEF Forward
<1> QED
  BY <1>2, <1>3, <1>4 DEF ExtKept

LEMMA EdgesKeptStays ==
  ASSUME IInv, Forward, g'.rep = g.rep,
         NEW Q \in SUBSET Node, NEW R \in SUBSET Node,
         \A x \in Node : Settled(Q, x)' \subseteq Settled(R, x),
         \A x \in Node : g'.prev_points_to[x] \subseteq g'.points_to[x],
         \A x \in Node : \A d \in g'.copy_to[x] :
           d \in g.copy_to[x] \/ i2p \in {x, d} \/ g'.points_to[x] \subseteq g'.points_to[g.rep[d]],
         \A d \in g.copy_to[n] : \A o \in d_points_to :
           \/ ~(Visiting \/ pc = "prop") \/ i2p \in {n, d} \/ o \in g'.points_to[g.rep[d]]
           \/ (Visiting \/ pc = "prop")' /\ n' = n /\ o \in d_points_to',
         EdgesKept(R)
  PROVE  EdgesKept(Q)'
<1>1. ASSUME NEW x \in Node, NEW d \in g'.copy_to[x], i2p \notin {x, d}, NEW o \in Settled(Q, x)'
      PROVE  \/ o \in g'.points_to[g.rep[d]]
             \/ (Visiting \/ pc = "prop")' /\ x = n' /\ o \in d_points_to'
  <2>1. o \in Settled(R, x)
    BY <1>1
  <2>2. CASE g'.points_to[x] \subseteq g'.points_to[g.rep[d]]
    <3>1. o \in g'.points_to[x]
      BY <1>1 DEF Settled
    <3> QED
      BY <2>2, <3>1
  <2>3. CASE d \in g.copy_to[x]
    <3>1. d \in Node /\ g.rep[d] \in Node
      BY <2>3 DEF IInv, GraphInv, GraphType, Graph
    <3>2. \/ o \in g.points_to[g.rep[d]]
          \/ (Visiting \/ pc = "prop") /\ x = n /\ o \in d_points_to
      BY <1>1, <2>1, <2>3 DEF EdgesKept
    <3>3. g.points_to[g.rep[d]] \subseteq g'.points_to[g.rep[d]]
      <4>1. g.rep[g.rep[d]] = g.rep[d]
        BY <3>1 DEF IInv, GraphInv, NonRepEmpty, is_rep
      <4> QED
        BY <3>1, <4>1 DEF Forward, Grown
    <3> QED
      BY <1>1, <2>3, <3>2, <3>3
  <2> QED
    BY <1>1, <2>2, <2>3
<1> QED
  BY <1>1 DEF EdgesKept

LEMMA FactsStay ==
  ASSUME IInv, FactsHold, Forward, g'.rep = g.rep,
         \A x \in Node : g'.prev_points_to[x] \subseteq g'.points_to[x],
         \A x \in Node : g'.cons[x] \subseteq g.cons[x],
         \A m \in ext_seen' : m \in ext_seen \/ EffectHolds(m)'
  PROVE  FactsHold'
<1>1. \A m \in ext_seen : EffectHolds(m)'
  <2>1. \A m \in ext_seen : m \in ExtNode \X Site /\ EffectHolds(m)
    BY DEF FactsHold, IInv, GraphInv, GraphType
  <2> QED
    BY <2>1, ForwardEffect
<1>2. \A m \in ext_seen' : EffectHolds(m)'
  BY <1>1
<1>3. \A t, x \in Node : (g.rep[x] = t)' <=> g.rep[x] = t
  OBVIOUS
<1>4. OfType(sys, "addr_of")' = OfType(sys, "addr_of") /\ OfType(sys, "copy")' = OfType(sys, "copy")
      /\ Complex(sys)' = Complex(sys)
  BY DEF Forward, OfType, Complex
<1> QED
  BY <1>2, <1>4, ForwardFacts DEF FactsHold

LEMMA DfsDoneSound ==
  ASSUME IInv, SoundInv, DfsDone
  PROVE  SoundInv'
<1> DEFINE f == Last(frames)
           N == Len(frames)
           E == (g.copy_to[f.n] \ f.del_copy) \cup f.add_copy
<1>1. /\ pc = "dfs" /\ ~f.waits /\ g' = [g EXCEPT !.copy_to[f.n] = E]
      /\ UNCHANGED <<sys, cplx_cons, icall_cons, ext_seen, curr, next>>
      /\ \/ pc' = "collapse" /\ frames' = frames
         \/ pc' = (IF N = 1 THEN "lcd" ELSE "dfs") /\ frames' = Front(frames)
  BY DEF DfsDone, Leave, wlVars
<1>2. /\ frames \in Seq(DfsFrame) /\ N \in Nat \ {0} /\ f = frames[N] /\ f \in DfsFrame
      /\ frames # <<>> /\ f.n \in Node /\ DOMAIN frames = 1 .. N
      /\ f.add_copy \in SUBSET Node /\ f.del_copy \in SUBSET Node
  BY <1>1, TopFrame, LcdTypes DEF InLcdDfs, DfsFrame
<1>3. FactsHold /\ FramesLinked /\ FrameLinked(f) /\ is_rep(g, f.n)
  <2>1. FrameLinked(frames[N]) /\ FactsHold /\ FramesLinked
    BY <1>1, FrontFrame DEF SoundInv
  <2>2. is_rep(g, frames[N].n)
    BY <1>1, <1>2 DEF IInv, LcdInv
  <2> HIDE DEF f
  <2> QED
    BY <1>2, <2>1, <2>2
<1> HIDE DEF f, E
<1>4. /\ g \in Graph /\ g' \in Graph /\ Grown(g, g')
      /\ g'.rep = g.rep /\ g'.points_to = g.points_to /\ g'.prev_points_to = g.prev_points_to
      /\ g'.hcd_var = g.hcd_var /\ g'.cons = g.cons /\ g'.vtime = g.vtime
      /\ \A x \in Node : g'.copy_to[x] = IF x = f.n THEN E ELSE g.copy_to[x]
  <2>1. g \in Graph /\ g' \in Graph /\ Grown(g, g')
    BY DfsDoneInv DEF IInv, GraphInv, GraphType
  <2> QED
    BY <1>1, <1>2, <2>1 DEF Graph
<1>5. Forward
  <2>1. ASSUME NEW s \in Node, NEW d \in Node, HasEdge(s, d)
        PROVE  HasEdge(s, d)'
    <3>1. CASE i2p \in {s, d} \/ g.rep[s] = g.rep[d]
      BY <1>4, <3>1 DEF HasEdge
    <3>2. ASSUME NEW y \in g.copy_to[g.rep[s]], g.rep[y] = g.rep[d]
          PROVE  HasEdge(s, d)'
      <4>1. g.rep[s] \in Node /\ y \in Node
        BY <1>4, <3>2 DEF Graph
      <4>2. CASE y \in g'.copy_to[g.rep[s]]
        BY <1>4, <3>2, <4>2 DEF HasEdge
      <4>3. CASE y \notin g'.copy_to[g.rep[s]]
        <5>1. g.rep[s] = f.n /\ y \in f.del_copy
          BY <1>4, <3>2, <4>1, <4>3 DEF E
        <5>2. g.rep[y] = f.n \/ \E a \in f.add_copy : g.rep[a] = g.rep[y]
          BY <1>3, <5>1 DEF FrameLinked, is_rep
        <5>3. CASE g.rep[y] = f.n
          BY <1>4, <3>2, <5>1, <5>3 DEF HasEdge
        <5>4. ASSUME NEW a \in f.add_copy, g.rep[a] = g.rep[y]
              PROVE  HasEdge(s, d)'
          <6>1. a \in g'.copy_to[g'.rep[s]]
            BY <1>2, <1>4, <5>1 DEF E
          <6> QED
            BY <1>4, <3>2, <5>4, <6>1 DEF HasEdge
        <5> QED
          BY <5>2, <5>3, <5>4
      <4> QED
        BY <4>2, <4>3
    <3> QED
      BY <2>1, <3>1, <3>2 DEF HasEdge
  <2> QED
    BY <1>1, <1>4, <2>1 DEF Forward
<1>6. FactsHold'
  BY <1>1, <1>3, <1>4, <1>5, FactsStay DEF FactsHold
<1>7. ~Visiting /\ ~Visiting' /\ ~Merging' /\ ~Sweeping' /\ pc # "merge" /\ pc' # "member"
      /\ ~HcdPhase /\ pc' \notin {"prop", "hcd"} /\ pc # "member"
  BY <1>1 DEF Visiting, HcdPhase, Merging, Sweeping
<1>8. FramesLinked'
  <2>1. \A k \in 1 .. (N - 1) : FrameLinked(frames[k])
    BY <1>2, <1>3 DEF FramesLinked
  <2>2. \A k \in 1 .. (N - 1) : FrameLinked(frames'[k]) /\ frames'[k] \in DfsFrame
    <3>1. CASE frames' = frames
      BY <1>2, <2>1, <3>1
    <3>2. CASE frames' = Front(frames)
      BY <1>2, <2>1, <3>2, FrontSeq
    <3> QED
      BY <1>1, <3>1, <3>2
  <2>3. \A h \in DfsFrame : FrameLinked(h) => FrameLinked(h)'
    <3>1. \A h \in DfsFrame : /\ h.n \in Node /\ h.dest0 \in Node
                              /\ h.edges \in SUBSET Node /\ h.add_copy \in SUBSET Node
      BY DEF DfsFrame
    <3> QED
      BY <1>4, <1>5, <3>1 DEF FrameLinked, Forward
  <2>4. \A k \in 1 .. (N - 1) : FrameLinked(frames[k])'
    BY <2>2, <2>3
  <2>5. CASE pc' = "collapse" /\ frames' = frames
    BY <1>2, <1>3, <1>4, <2>4, <2>5 DEF FramesLinked, is_rep, f
  <2>6. CASE pc' = (IF N = 1 THEN "lcd" ELSE "dfs") /\ frames' = Front(frames)
    <3>1. DOMAIN frames' = 1 .. (N - 1) /\ pc' # "collapse"
      BY <1>2, <2>6, FrontSeq
    <3> QED
      BY <2>4, <3>1 DEF FramesLinked
  <2> QED
    BY <1>1, <2>5, <2>6
<1>9. ASSUME NEW Q \in SUBSET Node, Covering(Q)'
      PROVE  NoneLost(Q)'
  <2>1. Covering(Q)
    <3>1. \A x : Queued(x)' = Queued(x)
      BY <1>1, <1>4 DEF Queued, IsStale, is_rep
    <3> QED
      BY <1>1, <1>4, <1>7, <1>9, <3>1 DEF Covering, Merging
  <2>2. NoneLost(Q)
    BY <1>1, <2>1 DEF SoundInv
  <2>3. \A x \in Node : Settled(Q, x)' = Settled(Q, x)
    BY <1>4 DEF Settled
  <2>4. ConsKept(Q)'
    <3>1. \A C \in ComplexCons : Listed(C) => Listed(C)'
      BY <1>1, <1>4, <1>7 DEF Listed, Doomed, SameCons
    <3>2. \A C, o : ~Pending(C, o)
      BY <1>7 DEF Pending
    <3> QED
      BY <1>4, <1>5, <1>7, <2>2, <2>3, <3>1, <3>2, ConsKeptStays DEF NoneLost
  <2>5. HcdKept(Q)'
    BY <1>4, <1>5, <1>7, <2>2, <2>3, HcdKeptStays DEF NoneLost
  <2>6. ExtKept(Q)'
    BY <1>4, <1>5, <1>7, <2>2, <2>3, ExtKeptStays DEF NoneLost
  <2>7. EdgesKept(Q)'
    <3>1. ASSUME NEW x \in Node, NEW d \in g'.copy_to[x], i2p \notin {x, d}, NEW o \in Settled(Q, x)
          PROVE  o \in g.points_to[g.rep[d]]
      <4>1. ASSUME NEW y \in g.copy_to[x], i2p \notin {x, y}
            PROVE  o \in g.points_to[g.rep[y]]
        BY <1>1, <1>7, <2>2, <4>1 DEF NoneLost, EdgesKept
      <4>2. CASE d \in g.copy_to[x]
        BY <3>1, <4>1, <4>2
      <4>3. CASE d \notin g.copy_to[x]
        <5>1. x = f.n /\ d \in f.add_copy /\ d \in Node
          BY <1>2, <1>4, <4>3 DEF E
        <5>2. HasEdge(x, d)
          BY <1>3, <5>1 DEF FrameLinked
        <5>3. CASE g.rep[x] = g.rep[d]
          <6>1. o \in g.points_to[x]
            BY <1>3 DEF Settled, FactsHold
          <6> QED
            BY <1>3, <5>1, <5>3, <6>1 DEF is_rep
        <5>4. ASSUME NEW y \in g.copy_to[x], g.rep[y] = g.rep[d]
              PROVE  o \in g.points_to[g.rep[d]]
          <6>1. y \in Node /\ \A v \in Node : g.rep[v] = i2p <=> v = i2p
            BY <1>3, <1>4, NodeAssumption DEF Graph, FactsHold
          <6>2. y # i2p
            BY <3>1, <5>1, <5>4, <6>1
          <6> QED
            BY <3>1, <4>1, <5>4, <6>2
        <5> QED
          BY <1>3, <3>1, <5>1, <5>2, <5>3, <5>4 DEF HasEdge, is_rep
      <4> QED
        BY <4>2, <4>3
    <3> QED
      BY <1>4, <2>3, <3>1 DEF EdgesKept
  <2> QED
    BY <2>4, <2>5, <2>6, <2>7 DEF NoneLost
<1>10. MergeChain' /\ HcdMet' /\ SeenMet' /\ CallMember'
  BY <1>7 DEF MergeChain, HcdMet, SeenMet, CallMember, Merging, Visiting
<1>11. pc' \notin {"end", "done"}
  BY <1>1
<1> QED
  BY <1>6, <1>8, <1>9, <1>10, <1>11 DEF SoundInv

-----------------------------------------------------------------------------
(* The phases of a visit that add nothing to the graph *)

(* A step that leaves the whole graph alone.                               *)
LEMMA SameGraph ==
  ASSUME IInv, FactsHold, UNCHANGED <<sys, g>>
  PROVE  /\ Forward
         /\ \A Q : \A x : Settled(Q, x)' = Settled(Q, x)
         /\ \A x \in Node : g'.prev_points_to[x] \subseteq g'.points_to[x]
BY SameGraphForward DEF FactsHold, Settled

LEMMA FramesStay ==
  ASSUME IInv, Forward, g'.rep = g.rep, FramesLinked, frames' = frames,
         pc' \notin {"dfs", "collapse"}
  PROVE  FramesLinked'
<1>1. \A h \in DfsFrame : FrameLinked(h) => FrameLinked(h)'
  <2>1. \A h \in DfsFrame : /\ h.n \in Node /\ h.dest0 \in Node
                            /\ h.edges \in SUBSET Node /\ h.add_copy \in SUBSET Node
    BY DEF DfsFrame
  <2> QED
    BY <2>1 DEF FrameLinked, Forward
<1>2. \A k \in DOMAIN frames : frames[k] \in DfsFrame
  BY LcdTypes
<1>3. \A k \in DOMAIN frames : k < Len(frames) => FrameLinked(frames[k])
  BY DEF FramesLinked
<1>4. \A k \in DOMAIN frames : k < Len(frames) => FrameLinked(frames[k])'
  BY <1>1, <1>2, <1>3
<1> QED
  BY <1>4 DEF FramesLinked

LEMMA PendingTyped ==
  ASSUME IInv, ConsInv
  PROVE  /\ \A x \in Node : \A cid \in g.cons[x] :
              /\ cid \in DOMAIN cplx_cons /\ cid \in DOMAIN sys.cons /\ cid \in Nat
              /\ cplx_cons[cid] \in Constraint /\ sys.cons[cid] \in Constraint
              /\ SameCons(cplx_cons[cid], sys.cons[cid])
              /\ g.rep[Base(cplx_cons[cid])] = x
              /\ FactsHold => /\ sys.cons[cid] \in ComplexCons
                              /\ cplx_cons[cid].type \in {"load", "store", "gep"}
<1> SUFFICES ASSUME NEW x \in Node, NEW cid \in g.cons[x]
             PROVE  /\ cid \in DOMAIN cplx_cons /\ cid \in DOMAIN sys.cons /\ cid \in Nat
                    /\ cplx_cons[cid] \in Constraint /\ sys.cons[cid] \in Constraint
                    /\ SameCons(cplx_cons[cid], sys.cons[cid])
                    /\ g.rep[Base(cplx_cons[cid])] = x
                    /\ FactsHold => /\ sys.cons[cid] \in ComplexCons
                                    /\ cplx_cons[cid].type \in {"load", "store", "gep"}
  OBVIOUS
<1>1. cid \in DOMAIN cplx_cons /\ g.rep[Base(cplx_cons[cid])] = x
  BY DEF IInv, GraphInv, ListsCurrent
<1>2. cplx_cons \in Seq(Constraint) /\ sys.cons \in Seq(Constraint)
  BY DEF IInv, GraphInv, GraphType, System
<1>3. DOMAIN cplx_cons = DOMAIN sys.cons /\ SameCons(cplx_cons[cid], sys.cons[cid])
  BY <1>1 DEF ConsInv, ConsSame
<1>4. cplx_cons[cid] \in Constraint /\ sys.cons[cid] \in Constraint /\ cid \in Nat
  BY <1>1, <1>2, <1>3
<1>5. ASSUME FactsHold
      PROVE  sys.cons[cid] \in ComplexCons /\ cplx_cons[cid].type \in {"load", "store", "gep"}
  <2>1. cid \in Complex(sys)
    BY <1>5 DEF FactsHold
  <2> QED
    BY <1>3, <2>1 DEF ComplexCons, Complex, SameCons
<1> QED
  BY <1>1, <1>3, <1>4, <1>5

LEMMA NextPhaseSound ==
  ASSUME IInv, ConsInv, SoundInv, NextPhase
  PROVE  SoundInv'
<1>1. /\ pc = "cons" /\ todo = {} /\ phase \in {"load", "store", "gep"}
      /\ UNCHANGED <<sys, g, cplx_cons, icall_cons, ext_seen, curr, next, frames,
                     n, d_points_to, hcd_rep, members, lsc>>
      /\ \/ phase = "load" /\ phase' = "store" /\ pc' = "cons"
         \/ phase = "store" /\ phase' = "gep" /\ pc' = "cons"
         \/ phase = "gep" /\ pc' = "prop"
      /\ todo' = ListOf(n, phase') /\ cons_seen' = {}
  BY DEF NextPhase, graphVars, wlVars, lcdVars
<1>2. /\ FactsHold /\ FramesLinked /\ HcdMet
      /\ \A Q \in SUBSET Node : Covering(Q) => NoneLost(Q)
  BY <1>1 DEF SoundInv
<1>3. /\ Forward /\ (\A Q : \A x : Settled(Q, x)' = Settled(Q, x))
      /\ \A x \in Node : g'.prev_points_to[x] \subseteq g'.points_to[x]
  BY <1>1, <1>2, SameGraph
<1>4. /\ Visiting /\ ~HcdPhase /\ ~HcdPhase' /\ ~Merging /\ ~Merging' /\ Sweeping
      /\ Visiting' = (pc' = "cons") /\ Sweeping' = (pc' = "cons")
  BY <1>1 DEF Visiting, HcdPhase, Merging, Sweeping
<1>5. FactsHold'
  BY <1>1, <1>2, <1>3, FactsStay DEF FactsHold
<1>6. FramesLinked'
  BY <1>1, <1>2, <1>3, FramesStay
<1>7. HcdMet'
  BY <1>1, <1>2, <1>4 DEF HcdMet, HcdOf, Same, is_rep, Merging
<1>8. SeenMet' /\ CallMember' /\ MergeChain'
  BY <1>1, <1>4 DEF SeenMet, CallMember, MergeChain, Merging
<1>9. ASSUME NEW cid \in g.cons[n], Ahead(cid)
      PROVE  pc' = "cons" /\ Ahead(cid)'
  <2>1. cplx_cons[cid].type \in {"load", "store", "gep"} /\ n \in Node
    BY <1>2, PendingTyped DEF IInv, VisitInv, VisitType
  <2> QED
    BY <1>1, <1>4, <1>9, <2>1 DEF Ahead, ListOf
<1>10. ASSUME NEW Q \in SUBSET Node, Covering(Q)'
       PROVE  NoneLost(Q)'
  <2>1. NoneLost(Q)
    <3>1. \A x : Queued(x)' = Queued(x)
      BY <1>1 DEF Queued, IsStale, is_rep
    <3> QED
      BY <1>1, <1>2, <1>4, <1>10, <3>1 DEF Covering
  <2>2. ConsKept(Q)'
    <3>1. ASSUME NEW C \in ComplexCons
          PROVE  Listed(C) => Listed(C)'
      BY <1>1 DEF Listed, Doomed, SameCons
    <3>2. ASSUME NEW C \in ComplexCons, NEW o \in d_points_to, Pending(C, o)
          PROVE  Pending(C, o)'
      BY <1>1, <1>4, <1>9, <3>2 DEF Pending, SameCons
    <3> QED
      BY <1>1, <1>3, <2>1, <3>1, <3>2, ConsKeptStays DEF NoneLost
  <2>3. HcdKept(Q)'
    BY <1>1, <1>3, <1>4, <2>1, HcdKeptStays DEF NoneLost
  <2>4. ExtKept(Q)'
    <3>1. ASSUME NEW call \in sys.icall, Waiting(call)
          PROVE  Waiting(call)' /\ pc' = "cons"
      BY <1>1, <1>9, <3>1 DEF Waiting, SameCons
    <3> QED
      BY <1>1, <1>3, <1>4, <2>1, <3>1, ExtKeptStays DEF NoneLost
  <2>5. EdgesKept(Q)'
    BY <1>1, <1>3, <1>4, <2>1, EdgesKeptStays DEF NoneLost
  <2> QED
    BY <2>2, <2>3, <2>4, <2>5 DEF NoneLost
<1>11. pc' \notin {"end", "done"}
  BY <1>1
<1> QED
  BY <1>5, <1>6, <1>7, <1>8, <1>10, <1>11 DEF SoundInv

LEMMA HcdMemberSound ==
  ASSUME IInv, SoundInv, NEW m \in members, HcdMember(m)
  PROVE  SoundInv'
<1> DEFINE x == get_node_rep(m[1])
<1>1. /\ pc = "hcd" /\ members' = members \ {m}
      /\ UNCHANGED <<sys, g, cplx_cons, icall_cons, ext_seen, curr, next, frames,
                     n, d_points_to, hcd_rep>>
      /\ \/ x \in {hcd_rep, i2p} /\ pc' = "hcd" /\ UNCHANGED <<marg, mframes, mret>>
         \/ pc' = "merge" /\ marg' = <<hcd_rep, x>> /\ mframes' = <<>> /\ mret' = "hcd"
  BY DEF HcdMember, graphVars, wlVars, lcdVars, mergeVars
<1>2. /\ FactsHold /\ FramesLinked /\ HcdMet
      /\ \A Q \in SUBSET Node : Covering(Q) => NoneLost(Q)
  BY <1>1 DEF SoundInv
<1>3. /\ Forward /\ (\A Q : \A y : Settled(Q, y)' = Settled(Q, y))
      /\ \A y \in Node : g'.prev_points_to[y] \subseteq g'.points_to[y]
  BY <1>1, <1>2, SameGraph
<1>4. /\ Visiting /\ HcdPhase /\ ~Merging /\ ~Sweeping /\ ~Sweeping' /\ Visiting' /\ HcdPhase'
      /\ HcdOf = hcd_rep /\ HcdOf' = hcd_rep
  BY <1>1 DEF Visiting, HcdPhase, Merging, Sweeping, HcdOf
<1>5. /\ members \subseteq d_points_to \X {NoSite} /\ hcd_rep # 0 /\ is_rep(g, hcd_rep)
      /\ m[1] \in d_points_to /\ m = <<m[1], NoSite>> /\ m[1] \in Node /\ x = g.rep[m[1]]
      /\ n \in Node
  BY <1>1, <1>2, <1>4 DEF HcdMet, IInv, VisitInv, VisitType, get_node_rep
<1> HIDE DEF x
<1>6. \A a, b : g.rep[a] = g.rep[b] => Same(a, b)'
  BY <1>1 DEF Same
<1>7. \A a, b : Same(a, b) => g.rep[a] = g.rep[b]
  BY <1>1 DEF Same
<1>8. m[1] = i2p \/ \A w \in Node : g.rep[w] = hcd_rep => Same(m[1], w)' /\ Same(w, m[1])'
  <2>1. CASE x = hcd_rep
    BY <1>5, <1>6, <2>1
  <2>2. CASE x = i2p
    BY <1>2, <1>5, <2>2, NodeAssumption DEF FactsHold
  <2>3. CASE pc' = "merge" /\ marg' = <<hcd_rep, x>>
    BY <1>1, <1>5, <2>3 DEF Same
  <2> QED
    BY <1>1, <2>1, <2>2, <2>3
<1>9. \A o \in d_points_to : <<o, NoSite>> \in members => o = m[1] \/ <<o, NoSite>> \in members'
  BY <1>1, <1>5
<1>10. HcdMet'
  <2>1. is_rep(g, n)' => (g.hcd_var[n] # 0)' /\ Same(g.hcd_var[n], hcd_rep)'
    <3>1. is_rep(g, n) => g.hcd_var[n] # 0 /\ g.rep[g.hcd_var[n]] = g.rep[hcd_rep]
      BY <1>2, <1>4, <1>5, <1>7 DEF HcdMet
    <3> QED
      BY <1>1, <1>6, <3>1 DEF is_rep
  <2>2. ASSUME NEW o \in d_points_to
        PROVE  o = i2p \/ Same(o, hcd_rep)' \/ <<o, NoSite>> \in members'
    <3>1. o = i2p \/ Same(o, hcd_rep) \/ <<o, NoSite>> \in members
      BY <1>2, <1>4, <1>5 DEF HcdMet
    <3>2. hcd_rep \in Node /\ g.rep[hcd_rep] = hcd_rep
      BY <1>5 DEF IInv, VisitInv, VisitType, is_rep
    <3> QED
      BY <1>1, <1>6, <1>7, <1>8, <1>9, <3>1, <3>2
  <2>3. Same(g.hcd_var[n], HcdOf)' <=> Same(g.hcd_var[n], hcd_rep)'
    BY <1>1, <1>4 DEF Same
  <2>4. \A o : Same(o, HcdOf)' <=> Same(o, hcd_rep)'
    BY <1>1, <1>4 DEF Same
  <2> QED
    BY <1>1, <1>4, <1>5, <2>1, <2>2, <2>3, <2>4 DEF HcdMet
<1>11. FactsHold'
  BY <1>1, <1>2, <1>3, FactsStay DEF FactsHold
<1>12. FramesLinked'
  BY <1>1, <1>2, <1>3, FramesStay
<1>13. SeenMet' /\ CallMember' /\ MergeChain'
  BY <1>1, <1>4 DEF SeenMet, CallMember, MergeChain, Merging
<1>14. ASSUME NEW Q \in SUBSET Node, Covering(Q)'
       PROVE  NoneLost(Q)'
  <2>1. NoneLost(Q)
    <3>1. \A y : Queued(y)' = Queued(y)
      BY <1>1 DEF Queued, IsStale, is_rep
    <3>2. hcd_rep \in Q
      BY <1>1, <1>5, <1>14 DEF Covering, Merging, is_rep
    <3> QED
      BY <1>1, <1>2, <1>4, <1>14, <3>1, <3>2 DEF Covering
  <2>2. ConsKept(Q)'
    <3>1. ASSUME NEW C \in ComplexCons
          PROVE  Listed(C) => Listed(C)'
      BY <1>1 DEF Listed, Doomed, SameCons
    <3>2. ASSUME NEW C \in ComplexCons, NEW o \in d_points_to, Pending(C, o)
          PROVE  Pending(C, o)'
      BY <1>1, <1>4, <3>2 DEF Pending, SameCons, Ahead
    <3> QED
      BY <1>1, <1>3, <2>1, <3>1, <3>2, ConsKeptStays DEF NoneLost
  <2>3. HcdKept(Q)'
    <3>1. ASSUME NEW C \in ComplexCons, NEW y \in Node, y = g.rep[Base(C)], g.hcd_var[y] # 0,
                 NEW o \in Settled(Q, y)
          PROVE  o = i2p \/ Same(o, g.hcd_var[y])' \/ (y = n /\ <<o, NoSite>> \in members')
      <4>1. o = i2p \/ Same(o, g.hcd_var[y]) \/ (y = n /\ <<o, NoSite>> \in members)
        BY <2>1, <3>1 DEF NoneLost, HcdKept
      <4>2. CASE Same(o, g.hcd_var[y])
        <5>1. g'.hcd_var[y] = g.hcd_var[y]
          BY <1>1
        <5>2. g.rep[o] = g.rep[g.hcd_var[y]]
          BY <1>7, <4>2
        <5> QED
          BY <1>1, <5>2 DEF Same
      <4>3. CASE y = n /\ <<o, NoSite>> \in members
        <5>1. is_rep(g, n) /\ o \in d_points_to
          BY <1>5, <3>1, <4>3 DEF IInv, GraphInv, NonRepEmpty, is_rep
        <5>2. Same(g.hcd_var[n], hcd_rep)
          BY <1>2, <1>4, <1>5, <5>1 DEF HcdMet
        <5>3. g.rep[g.hcd_var[n]] = hcd_rep /\ g.hcd_var[n] \in Node
          BY <1>5, <1>7, <5>2 DEF is_rep, IInv, GraphInv, GraphType, Graph
        <5>4. m[1] = i2p \/ {g.rep[m[1]], g.rep[g.hcd_var[n]]} \subseteq {hcd_rep, g.rep[m[1]]}
          BY <5>3
        <5>5. o = m[1] \/ <<o, NoSite>> \in members'
          BY <1>9, <4>3, <5>1
        <5>6. o = m[1] => o = i2p \/ Same(o, g.hcd_var[n])'
          <6>1. CASE x = hcd_rep
            BY <1>1, <1>5, <5>3, <6>1 DEF Same
          <6>2. CASE x = i2p
            BY <1>2, <1>5, <6>2, NodeAssumption DEF FactsHold
          <6>3. CASE pc' = "merge" /\ marg' = <<hcd_rep, x>>
            BY <1>1, <1>5, <5>3, <6>3 DEF Same
          <6> QED
            BY <1>1, <6>1, <6>2, <6>3
        <5> QED
          BY <1>1, <4>3, <5>5, <5>6 DEF Same
      <4> QED
        BY <4>1, <4>2, <4>3
    <3>2. ComplexCons' = ComplexCons /\ \A C \in ComplexCons : g.rep[Base(C)] \in Node
      BY <1>1, ComplexTyped DEF ComplexCons, Complex
    <3> QED
      BY <1>1, <1>3, <1>4, <3>1, <3>2 DEF HcdKept, Same
  <2>4. ExtKept(Q)'
    <3>1. ASSUME NEW call \in sys.icall, Waiting(call)
          PROVE  Waiting(call)'
      BY <1>1, <1>4, <3>1 DEF Waiting, SameCons, Ahead
    <3> QED
      BY <1>1, <1>3, <1>4, <2>1, <3>1, ExtKeptStays DEF NoneLost
  <2>5. EdgesKept(Q)'
    BY <1>1, <1>3, <1>4, <2>1, EdgesKeptStays DEF NoneLost
  <2> QED
    BY <2>2, <2>3, <2>4, <2>5 DEF NoneLost
<1>15. pc' \notin {"end", "done"}
  BY <1>1
<1> QED
  BY <1>10, <1>11, <1>12, <1>13, <1>14, <1>15 DEF SoundInv

LEMMA HcdDoneSound ==
  ASSUME IInv, ConsInv, SoundInv, HcdDone, pc' # "abort"
  PROVE  SoundInv'
<1>1. /\ pc = "hcd" /\ members = {} /\ pc' = "cons" /\ phase' = "load"
      /\ UNCHANGED <<sys, g, cplx_cons, icall_cons, ext_seen, curr, frames,
                     n, d_points_to, hcd_rep, members, lsc, chg>>
      /\ next' = PushIf(TRUE, next, hcd_rep, g)
      /\ todo' = ListOf(n, "load") /\ cons_seen' = {}
  BY DEF HcdDone, PushIf, graphVars, lcdVars
<1>2. /\ FactsHold /\ FramesLinked /\ HcdMet
      /\ \A Q \in SUBSET Node : Covering(Q) => NoneLost(Q)
  BY <1>1 DEF SoundInv
<1>3. /\ Forward /\ (\A Q : \A x : Settled(Q, x)' = Settled(Q, x))
      /\ \A x \in Node : g'.prev_points_to[x] \subseteq g'.points_to[x]
  BY <1>1, <1>2, SameGraph
<1>4. /\ Visiting /\ HcdPhase /\ ~HcdPhase' /\ ~Merging /\ ~Merging' /\ ~Sweeping
      /\ Visiting' /\ Sweeping' /\ HcdOf = hcd_rep /\ HcdOf' = hcd_rep
  BY <1>1 DEF Visiting, HcdPhase, Merging, Sweeping, HcdOf
<1>5. n \in Node /\ hcd_rep \in Node /\ is_rep(g, hcd_rep)
  BY <1>1 DEF IInv, VisitInv, VisitType
<1>6. FactsHold'
  BY <1>1, <1>2, <1>3, FactsStay DEF FactsHold
<1>7. FramesLinked'
  BY <1>1, <1>2, <1>3, FramesStay
<1>8. \A a, b : Same(a, b) = Same(a, b)'
  BY <1>1 DEF Same
<1>9. HcdMet'
  <2>1. /\ hcd_rep # 0 => /\ is_rep(g, n) => g.hcd_var[n] # 0 /\ Same(g.hcd_var[n], hcd_rep)
                          /\ \A o \in d_points_to : o = i2p \/ Same(o, hcd_rep)
    BY <1>1, <1>2, <1>4 DEF HcdMet
  <2> QED
    BY <1>1, <1>4, <2>1 DEF HcdMet, Same, is_rep, HcdOf, Merging
<1>10. SeenMet' /\ CallMember' /\ MergeChain'
  BY <1>1, <1>4 DEF SeenMet, CallMember, MergeChain, Merging
<1>11. ASSUME NEW cid \in g.cons[n]
       PROVE  Ahead(cid)'
  <2>1. cplx_cons[cid].type \in {"load", "store", "gep"}
    BY <1>2, <1>5, PendingTyped
  <2> QED
    BY <1>1, <2>1 DEF Ahead, ListOf
<1>12. ASSUME NEW Q \in SUBSET Node, Covering(Q)'
       PROVE  NoneLost(Q)'
  <2>1. NoneLost(Q)
    <3>1. \A x \in Node : Queued(x) => Queued(x)'
      BY <1>1, <1>5, Pushed
    <3>2. \A x \in Node : x = hcd_rep => Queued(x)'
      BY <1>1, <1>5, Pushed
    <3> QED
      BY <1>1, <1>2, <1>4, <1>5, <1>12, <3>1, <3>2 DEF Covering
  <2>2. ConsKept(Q)'
    <3>1. ASSUME NEW C \in ComplexCons
          PROVE  Listed(C) => Listed(C)'
      BY <1>1 DEF Listed, Doomed, SameCons
    <3>2. ASSUME NEW C \in ComplexCons, NEW o \in d_points_to, Pending(C, o)
          PROVE  Pending(C, o)'
      BY <1>1, <1>4, <1>11, <3>2 DEF Pending, SameCons
    <3> QED
      BY <1>1, <1>3, <2>1, <3>1, <3>2, ConsKeptStays DEF NoneLost
  <2>3. HcdKept(Q)'
    BY <1>1, <1>3, <1>4, <2>1, HcdKeptStays DEF NoneLost
  <2>4. ExtKept(Q)'
    <3>1. ASSUME NEW call \in sys.icall, Waiting(call)
          PROVE  Waiting(call)'
      BY <1>1, <1>11, <3>1 DEF Waiting, SameCons
    <3> QED
      BY <1>1, <1>3, <1>4, <2>1, <3>1, ExtKeptStays DEF NoneLost
  <2>5. EdgesKept(Q)'
    BY <1>1, <1>3, <1>4, <2>1, EdgesKeptStays DEF NoneLost
  <2> QED
    BY <2>2, <2>3, <2>4, <2>5 DEF NoneLost
<1>13. pc' \notin {"end", "done"}
  BY <1>1
<1> QED
  BY <1>6, <1>7, <1>9, <1>10, <1>12, <1>13 DEF SoundInv

-----------------------------------------------------------------------------
(* Starting a visit, and propagating along the copy edges *)

(* Nodes whose sets grow are queued, or are going to be.                   *)
LEMMA CoverBack ==
  ASSUME IInv, FactsHold, g \in Graph, pc \in {"cons", "member", "prop"},
         pc' \in {"cons", "member", "prop", "check"},
         g'.rep = g.rep, g'.hcd_var = g.hcd_var, g'.prev_points_to = g.prev_points_to,
         \A x \in Node : g.points_to[x] \subseteq g'.points_to[x],
         \A x \in Node : Queued(x) => Queued(x)',
         pc = "member" /\ chg =>
           \/ pc' = "member" /\ chg' /\ lsc' = lsc
           \/ \A x \in Node : x = lsc.C.dest => Queued(x)',
         NEW Q \in SUBSET Node, Covering(Q)'
  PROVE  Covering(Q)
<1>1. \A x \in Node : Queued(x) => x \in Q
  BY DEF Covering
<1>2. pc = "member" /\ chg => lsc.C.dest \in Q
  <2>1. lsc.C.dest \in Node
    BY DEF IInv, VisitInv, VisitType, LsCall, Constraint
  <2> QED
    BY <2>1 DEF Covering
<1>3. ASSUME NEW y \in Q, g.hcd_var[y] # 0, g.points_to[y] # g.prev_points_to[y]
      PROVE  g.rep[g.hcd_var[y]] \in Q
  <2>1. y \in Node /\ g.prev_points_to[y] \subseteq g.points_to[y]
    BY DEF FactsHold
  <2>2. g'.points_to[y] # g'.prev_points_to[y]
    BY <1>3, <2>1
  <2> QED
    BY <1>3, <2>2 DEF Covering
<1> QED
  BY <1>1, <1>2, <1>3 DEF Covering, Merging

LEMMA PushedAll ==
  ASSUME IInv, NEW X \in SUBSET Node, \A x \in X : is_rep(g, x),
         curr' = curr, next' = PushAll(next, X, g), g'.rep = g.rep, g'.vtime = g.vtime
  PROVE  /\ \A y \in Node : Queued(y) => Queued(y)'
         /\ \A x \in X : Queued(x)'
<1>1. next' = {e \in next : e[1] \notin X} \cup {<<x, g.vtime[x]>> : x \in X}
  BY DEF PushAll
<1>2. ASSUME NEW x \in X
      PROVE  Queued(x)'
  <2>1. g.vtime[x] \in Nat /\ ~(g.vtime[x] < g.vtime[x])
    BY DEF IInv, GraphInv, GraphType, Graph
  <2> DEFINE e == <<x, g.vtime[x]>>
  <2>2. e \in next' /\ e[1] = x /\ e[2] = g.vtime[x]
    BY <1>1
  <2>3. ~IsStale(e)'
    BY <2>1, <2>2 DEF IsStale, is_rep
  <2> QED
    BY <2>2, <2>3 DEF Queued
<1>3. ASSUME NEW y \in Node, Queued(y), y \notin X
      PROVE  Queued(y)'
  <2>1. PICK e \in curr \cup next : e[1] = y /\ ~IsStale(e)
    BY <1>3 DEF Queued
  <2>2. e \in curr' \cup next'
    BY <1>1, <1>3, <2>1
  <2>3. ~IsStale(e)'
    BY <2>1 DEF IsStale, is_rep
  <2> QED
    BY <2>1, <2>2, <2>3 DEF Queued
<1> QED
  BY <1>2, <1>3

LEMMA PropSound ==
  ASSUME IInv, SoundInv, Prop, pc' # "abort"
  PROVE  SoundInv'
<1> DEFINE dests == {get_node_rep(d) : d \in g.copy_to[n]} \ {n}
           h == [g EXCEPT !.points_to =
                   [x \in Node |-> IF x \in dests THEN @[x] \cup d_points_to ELSE @[x]]]
           X == {d \in dests : Grew(g, h, d)}
<1>1. /\ pc = "prop" /\ pc' = "check" /\ g' = h
      /\ UNCHANGED <<sys, cplx_cons, icall_cons, ext_seen, curr, frames,
                     n, d_points_to, hcd_rep, members, lsc>>
      /\ next' = PushAll(next, X, g)
  BY DEF Prop, visitVars, lcdVars
<1>2. /\ FactsHold /\ FramesLinked /\ HcdMet
      /\ \A Q \in SUBSET Node : Covering(Q) => NoneLost(Q)
  BY <1>1 DEF SoundInv
<1>3. /\ g \in Graph /\ g' \in Graph /\ Grown(g, g') /\ n \in Node
  BY PropInv DEF IInv, GraphInv, GraphType, VisitInv, VisitType
<1>4. /\ g'.rep = g.rep /\ g'.prev_points_to = g.prev_points_to /\ g'.copy_to = g.copy_to
      /\ g'.hcd_var = g.hcd_var /\ g'.cons = g.cons /\ g'.vtime = g.vtime
      /\ \A x \in Node : g'.points_to[x] = IF x \in dests THEN g.points_to[x] \cup d_points_to
                                                            ELSE g.points_to[x]
  BY <1>1, <1>3 DEF Graph
<1>5. /\ X \in SUBSET Node /\ \A x \in X : is_rep(g, x)
      /\ \A x \in Node : g'.points_to[x] # g.points_to[x] => x \in X
  <2>1. \A d \in g.copy_to[n] : get_node_rep(d) \in Node /\ is_rep(g, get_node_rep(d))
    BY <1>3, RepIsRep DEF IInv, Graph
  <2>2. X \in SUBSET Node /\ \A x \in X : is_rep(g, x)
    BY <2>1
  <2>3. ASSUME NEW x \in Node, g'.points_to[x] # g.points_to[x]
        PROVE  x \in X
    BY <1>1, <1>4, <2>3 DEF Grew
  <2> QED
    BY <2>2, <2>3
<1>6. \A d \in g.copy_to[n] : g.rep[d] = n \/ g.rep[d] \in dests
  BY DEF get_node_rep
<1> HIDE DEF X, h, dests
<1>7. Forward
  <2>1. \A s, d : HasEdge(s, d) => HasEdge(s, d)'
    BY <1>4 DEF HasEdge
  <2> QED
    BY <1>1, <1>3, <2>1 DEF Forward
<1>8. \A x \in Node : g'.prev_points_to[x] \subseteq g'.points_to[x]
                      /\ g.points_to[x] \subseteq g'.points_to[x]
  BY <1>2, <1>4 DEF FactsHold
<1>9. FactsHold'
  BY <1>1, <1>2, <1>4, <1>7, <1>8, FactsStay
<1>10. FramesLinked'
  BY <1>1, <1>2, <1>4, <1>7, FramesStay
<1>11. ~Visiting /\ ~Visiting' /\ ~Merging' /\ ~Sweeping' /\ pc # "merge" /\ ~HcdPhase
  BY <1>1 DEF Visiting, HcdPhase, Merging, Sweeping
<1>12. MergeChain' /\ HcdMet' /\ SeenMet' /\ CallMember'
  BY <1>1, <1>11 DEF MergeChain, HcdMet, SeenMet, CallMember, Merging, Visiting
<1>13. ASSUME NEW Q \in SUBSET Node, Covering(Q)'
       PROVE  NoneLost(Q)'
  <2>1. NoneLost(Q)
    <3>1. \A x \in Node : Queued(x) => Queued(x)'
      BY <1>1, <1>4, <1>5, PushedAll
    <3>2. Covering(Q)
      BY <1>1, <1>2, <1>3, <1>4, <1>8, <1>13, <3>1, CoverBack
    <3> QED
      BY <1>2, <3>2
  <2>2. \A x \in Node : Settled(Q, x)' \subseteq Settled(Q, x)
    <3>1. \A x \in X : x \in Q
      <4>1. \A x \in X : Queued(x)'
        BY <1>1, <1>4, <1>5, PushedAll
      <4> QED
        BY <1>5, <1>13, <4>1 DEF Covering
    <3> QED
      BY <1>4, <1>5, <3>1 DEF Settled
  <2>3. ConsKept(Q)'
    <3>1. \A C \in ComplexCons : Listed(C) => Listed(C)'
      BY <1>1, <1>4 DEF Listed, Doomed, SameCons
    <3>2. \A C, o : ~Pending(C, o)
      BY <1>11 DEF Pending
    <3> QED
      BY <1>4, <1>7, <1>11, <2>1, <2>2, <3>1, <3>2, ConsKeptStays DEF NoneLost
  <2>4. HcdKept(Q)'
    BY <1>4, <1>7, <1>11, <2>1, <2>2, HcdKeptStays DEF NoneLost
  <2>5. ExtKept(Q)'
    BY <1>4, <1>7, <1>11, <2>1, <2>2, ExtKeptStays DEF NoneLost
  <2>6. EdgesKept(Q)'
    <3>1. ASSUME NEW x \in Node, NEW d \in g'.copy_to[x], i2p \notin {x, d}, NEW o \in Settled(Q, x)'
          PROVE  o \in g'.points_to[g.rep[d]]
      <4>1. o \in Settled(Q, x) /\ d \in g.copy_to[x] /\ d \in Node /\ g.rep[d] \in Node
        BY <1>3, <1>4, <2>2, <3>1 DEF Graph
      <4>2. o \in g.points_to[g.rep[d]] \/ (x = n /\ o \in d_points_to)
        BY <1>11, <2>1, <3>1, <4>1 DEF NoneLost, EdgesKept
      <4>3. CASE x = n /\ o \in d_points_to
        <5>1. CASE g.rep[d] \in dests
          BY <1>4, <4>1, <4>3, <5>1
        <5>2. CASE g.rep[d] = n
          <6>1. o \in g'.points_to[n]
            BY <1>8, <3>1, <4>3 DEF Settled
          <6> QED
            BY <5>2, <6>1
        <5> QED
          BY <1>6, <4>1, <4>3, <5>1, <5>2
      <4> QED
        BY <1>8, <4>1, <4>2, <4>3
    <3> QED
      BY <1>4, <3>1 DEF EdgesKept
  <2> QED
    BY <2>3, <2>4, <2>5, <2>6 DEF NoneLost
<1>14. pc' \notin {"end", "done"}
  BY <1>1
<1> QED
  BY <1>9, <1>10, <1>12, <1>13, <1>14 DEF SoundInv

(* A visit that finds nothing new.                                         *)
LEMMA VisitNothingSound ==
  ASSUME IInv, SoundInv, NEW e \in curr, Visit(e),
         g.points_to[e[1]] \subseteq g.prev_points_to[e[1]]
  PROVE  SoundInv'
<1> DEFINE x == e[1]
<1>1. /\ pc = "loop" /\ pc' = "check" /\ curr' = curr \ {e} /\ is_rep(g, x)
      /\ UNCHANGED <<sys, cplx_cons, icall_cons, ext_seen, next, frames>>
      /\ g' = [g EXCEPT !.vtime[x] = vtime]
  BY DEF Visit, IsStale, lcdVars
<1>2. /\ FactsHold /\ FramesLinked /\ x \in Node
      /\ \A Q \in SUBSET Node : Covering(Q) => NoneLost(Q)
  BY <1>1 DEF SoundInv, IInv, WorkType, Heaps
<1> HIDE DEF x
<1>3. /\ g \in Graph /\ g' \in Graph /\ Grown(g, g')
      /\ g'.rep = g.rep /\ g'.points_to = g.points_to /\ g'.prev_points_to = g.prev_points_to
      /\ g'.hcd_var = g.hcd_var /\ g'.cons = g.cons /\ g'.copy_to = g.copy_to
      /\ \A y \in Node : y # x => g'.vtime[y] = g.vtime[y]
  <2>1. g \in Graph /\ g' \in Graph /\ Grown(g, g')
    BY VisitInvariant DEF IInv, GraphInv, GraphType
  <2> QED
    BY <1>1, <2>1 DEF Graph
<1>4. Forward
  <2>1. \A s, d : HasEdge(s, d) => HasEdge(s, d)'
    BY <1>3 DEF HasEdge
  <2> QED
    BY <1>1, <1>3, <2>1 DEF Forward
<1>5. g.points_to[x] = g.prev_points_to[x]
  BY <1>2 DEF FactsHold, x
<1>6. FactsHold'
  BY <1>1, <1>2, <1>3, <1>4, FactsStay DEF FactsHold
<1>7. FramesLinked'
  BY <1>1, <1>2, <1>3, <1>4, FramesStay
<1>8. /\ ~Visiting /\ ~Visiting' /\ ~Merging' /\ ~Merging /\ ~Sweeping' /\ pc # "merge"
      /\ ~HcdPhase
  BY <1>1 DEF Visiting, HcdPhase, Merging, Sweeping
<1>9. MergeChain' /\ HcdMet' /\ SeenMet' /\ CallMember'
  BY <1>1, <1>8 DEF MergeChain, HcdMet, SeenMet, CallMember, Merging, Visiting
<1>10. ASSUME NEW Q \in SUBSET Node, Covering(Q)'
       PROVE  NoneLost(Q)'
  <2> DEFINE R == Q \cup {x}
  <2>1. ASSUME NEW y \in Node, Queued(y), y # x
        PROVE  y \in Q
    <3>1. PICK f \in curr \cup next : f[1] = y /\ ~IsStale(f)
      BY <2>1 DEF Queued
    <3>2. f \in curr' \cup next'
      BY <1>1, <2>1, <3>1 DEF x
    <3>3. ~IsStale(f)'
      BY <1>3, <2>1, <3>1 DEF IsStale, is_rep
    <3>4. Queued(y)'
      BY <3>1, <3>2, <3>3 DEF Queued
    <3> QED
      BY <1>10, <3>4 DEF Covering
  <2>2. Covering(R)
    <3>1. \A y \in R : g.hcd_var[y] # 0 /\ g.points_to[y] # g.prev_points_to[y] =>
                        g.rep[g.hcd_var[y]] \in R
      BY <1>3, <1>5, <1>10 DEF Covering
    <3> QED
      BY <1>1, <1>8, <2>1, <3>1 DEF Covering
  <2>3. NoneLost(R) /\ R \in SUBSET Node
    BY <1>2, <2>2
  <2>4. \A y \in Node : Settled(Q, y)' \subseteq Settled(R, y)
    BY <1>3, <1>5 DEF Settled
  <2> HIDE DEF R
  <2>5. ConsKept(Q)'
    <3>1. \A C \in ComplexCons : Listed(C) => Listed(C)'
      BY <1>1, <1>3 DEF Listed, Doomed, SameCons
    <3>2. \A C, o : ~Pending(C, o)
      BY <1>8 DEF Pending
    <3> QED
      BY <1>3, <1>4, <1>8, <2>3, <2>4, <3>1, <3>2, ConsKeptStays DEF NoneLost
  <2>6. HcdKept(Q)'
    BY <1>3, <1>4, <1>8, <2>3, <2>4, HcdKeptStays DEF NoneLost
  <2>7. ExtKept(Q)'
    BY <1>3, <1>4, <1>8, <2>3, <2>4, ExtKeptStays DEF NoneLost
  <2>8. EdgesKept(Q)'
    <3>1. \A y \in Node : g'.prev_points_to[y] \subseteq g'.points_to[y]
      BY <1>2, <1>3 DEF FactsHold
    <3> QED
      BY <1>1, <1>3, <1>4, <1>8, <2>3, <2>4, <3>1, EdgesKeptStays DEF NoneLost
  <2> QED
    BY <2>5, <2>6, <2>7, <2>8 DEF NoneLost
<1>11. pc' \notin {"end", "done"}
  BY <1>1
<1> QED
  BY <1>6, <1>7, <1>9, <1>10, <1>11 DEF SoundInv

(* A visit with new pointees: everything is still to be done for them.     *)
LEMMA VisitNewSound ==
  ASSUME IInv, ConsInv, SoundInv, NEW e \in curr, Visit(e),
         ~(g.points_to[e[1]] \subseteq g.prev_points_to[e[1]])
  PROVE  SoundInv'
<1> DEFINE x == e[1]
           delta == g.points_to[x] \ g.prev_points_to[x]
<1>1. /\ pc = "loop" /\ pc' = "hcd" /\ curr' = curr \ {e} /\ is_rep(g, x)
      /\ UNCHANGED <<sys, cplx_cons, icall_cons, ext_seen, next, frames>>
      /\ g' = [g EXCEPT !.vtime[x] = vtime, !.prev_points_to[x] = g.points_to[x]]
      /\ n' = x /\ d_points_to' = delta
      /\ \/ g.hcd_var[x] = 0 /\ hcd_rep' = 0 /\ members' = {}
         \/ g.hcd_var[x] # 0 /\ hcd_rep' = g.rep[g.hcd_var[x]] /\ members' = delta \X {NoSite}
  BY DEF Visit, IsStale, lcdVars, get_node_rep
<1>2. /\ FactsHold /\ FramesLinked /\ x \in Node
      /\ \A Q \in SUBSET Node : Covering(Q) => NoneLost(Q)
  BY <1>1 DEF SoundInv, IInv, WorkType, Heaps
<1> HIDE DEF x
<1>3. /\ g \in Graph /\ g' \in Graph /\ Grown(g, g')
      /\ g'.rep = g.rep /\ g'.points_to = g.points_to
      /\ g'.hcd_var = g.hcd_var /\ g'.cons = g.cons /\ g'.copy_to = g.copy_to
      /\ \A y \in Node : y # x => /\ g'.vtime[y] = g.vtime[y]
                                  /\ g'.prev_points_to[y] = g.prev_points_to[y]
      /\ g'.prev_points_to[x] = g.points_to[x]
  <2>1. g \in Graph /\ g' \in Graph /\ Grown(g, g')
    BY VisitInvariant DEF IInv, GraphInv, GraphType
  <2> QED
    BY <1>1, <1>2, <2>1 DEF Graph
<1>4. Forward
  <2>1. \A s, d : HasEdge(s, d) => HasEdge(s, d)'
    BY <1>3 DEF HasEdge
  <2> QED
    BY <1>1, <1>3, <2>1 DEF Forward
<1>5. /\ g.prev_points_to[x] \subseteq g.points_to[x]
      /\ \A o \in g.points_to[x] : o \in g.prev_points_to[x] \/ o \in delta
      /\ delta \subseteq Node
  BY <1>2, <1>3 DEF FactsHold, Graph
<1> HIDE DEF delta
<1>6. FactsHold'
  <2>1. \A y \in Node : g'.prev_points_to[y] \subseteq g'.points_to[y]
    BY <1>2, <1>3 DEF FactsHold
  <2> QED
    BY <1>1, <1>2, <1>3, <1>4, <2>1, FactsStay DEF FactsHold
<1>7. FramesLinked'
  BY <1>1, <1>2, <1>3, <1>4, FramesStay
<1>8. /\ Visiting' /\ HcdPhase' /\ ~Merging' /\ ~Merging /\ ~Sweeping' /\ pc # "merge"
      /\ ~Visiting /\ ~HcdPhase /\ HcdOf' = hcd_rep'
  BY <1>1 DEF Visiting, HcdPhase, Merging, Sweeping, HcdOf
<1>9. hcd_rep' # 0 => g.hcd_var[x] # 0
  BY <1>1
<1>10. g.hcd_var[x] # 0 => hcd_rep' # 0
  BY <1>1, <1>2, <1>3, NodeAssumption DEF FactsHold, Graph
<1>11. \A a, b : g.rep[a] = g.rep[b] => Same(a, b)'
  BY <1>3 DEF Same
<1>12. HcdMet'
  <2>1. hcd_rep' # 0 => Same(g.hcd_var[n], hcd_rep)'
    <3>1. hcd_rep' # 0 => g'.rep[g'.hcd_var[n']] = g'.rep[hcd_rep']
      <4>1. g.hcd_var[x] \in Node /\ g.rep[g.rep[g.hcd_var[x]]] = g.rep[g.hcd_var[x]]
        BY <1>2, <1>3, LcdTypes DEF Graph
      <4> QED
        BY <1>1, <1>3, <4>1
    <3> QED
      BY <3>1 DEF Same
  <2>2. hcd_rep' # 0 => members' = delta \X {NoSite}
    BY <1>1
  <2>3. members' \subseteq delta \X {NoSite} /\ (hcd_rep' = 0 => members' = {})
    BY <1>1, <1>10
  <2>4. Same(g.hcd_var[n], HcdOf)' <=> Same(g.hcd_var[n], hcd_rep)'
    BY <1>8 DEF Same
  <2> QED
    BY <1>1, <1>3, <1>8, <1>9, <2>1, <2>2, <2>3, <2>4 DEF HcdMet
<1>13. SeenMet' /\ CallMember' /\ MergeChain'
  BY <1>1, <1>8 DEF SeenMet, CallMember, MergeChain, Merging
<1>14. ASSUME NEW Q \in SUBSET Node, Covering(Q)'
       PROVE  NoneLost(Q)'
  <2> DEFINE R == Q \cup {x}
  <2>1. ASSUME NEW y \in Node, Queued(y), y # x
        PROVE  y \in Q
    <3>1. PICK f \in curr \cup next : f[1] = y /\ ~IsStale(f)
      BY <2>1 DEF Queued
    <3>2. f \in curr' \cup next'
      BY <1>1, <2>1, <3>1 DEF x
    <3>3. ~IsStale(f)'
      BY <1>3, <2>1, <3>1 DEF IsStale, is_rep
    <3>4. Queued(y)'
      BY <3>1, <3>2, <3>3 DEF Queued
    <3> QED
      BY <1>14, <3>4 DEF Covering
  <2>2. Covering(R)
    <3>1. \A y \in R : g.hcd_var[y] # 0 /\ g.points_to[y] # g.prev_points_to[y] =>
                        g.rep[g.hcd_var[y]] \in R
      <4>1. g.hcd_var[x] # 0 => g.rep[g.hcd_var[x]] \in Q
        <5>1. hcd_rep' \in Q
          BY <1>1, <1>14 DEF Covering
        <5> QED
          BY <1>1, <5>1
      <4> QED
        BY <1>3, <1>14, <4>1 DEF Covering
    <3> QED
      BY <1>1, <1>8, <2>1, <3>1 DEF Covering
  <2>3. NoneLost(R) /\ R \in SUBSET Node
    BY <1>2, <2>2
  <2>4. \A y \in Node : \A o \in Settled(Q, y)' : o \in Settled(R, y) \/ (y = x /\ o \in delta)
    BY <1>2, <1>3, <1>5 DEF Settled
  <2> HIDE DEF R
  <2>5. ComplexCons' = ComplexCons /\ \A C \in ComplexCons : g.rep[Base(C)] \in Node
    BY <1>1, ComplexTyped DEF ComplexCons, Complex
  <2>6. ConsKept(Q)'
    <3>1. ASSUME NEW C \in ComplexCons
          PROVE  /\ Listed(C) => Listed(C)'
                 /\ Gone(C) => Gone(C)'
                 /\ \A o \in Node : Solved(C, o) => Solved(C, o)'
      <4>1. Listed(C) => Listed(C)'
        BY <1>1, <1>3, SMTT(30) DEF Listed, Doomed, SameCons
      <4>2. Gone(C) => Gone(C)'
        BY <1>3, <1>4, <1>8, ForwardLinked DEF Gone, Same
      <4> QED
        BY <1>4, <4>1, <4>2, ForwardSolved
    <3>2. ASSUME NEW C \in ComplexCons, g.rep[Base(C)] = x, Listed(C), NEW o \in delta
          PROVE  Pending(C, o)'
      <4>1. PICK cid \in g.cons[x] : SameCons(cplx_cons[cid], C)
        BY <3>2 DEF Listed
      <4>2. Ahead(cid)' /\ SameCons(cplx_cons[cid], C)'
        BY <1>1, <1>3, <1>8, <4>1 DEF Ahead, SameCons
      <4> QED
        BY <1>1, <1>3, <1>8, <3>2, <4>1, <4>2 DEF Pending
    <3>3. ASSUME NEW C \in ComplexCons, ~Gone(C)'
          PROVE  Listed(C)' /\ \A o \in Settled(Q, g.rep[Base(C)])' : Solved(C, o)' \/ Pending(C, o)'
      <4>1. ~Gone(C)
        BY <3>1, <3>3
      <4>2. Listed(C) /\ \A o \in Settled(R, g.rep[Base(C)]) : Solved(C, o)
        BY <1>8, <2>3, <4>1 DEF NoneLost, ConsKept, Pending
      <4>3. \A o \in Settled(Q, g.rep[Base(C)])' :
               o \in Settled(R, g.rep[Base(C)]) \/ (g.rep[Base(C)] = x /\ o \in delta)
        <5>1. \A y \in Node : y = g.rep[Base(C)] => Settled(Q, g.rep[Base(C)])' = Settled(Q, y)'
          BY <1>3 DEF Settled
        <5> QED
          BY <2>4, <2>5, <5>1
      <4>4. \A o \in Settled(R, g.rep[Base(C)]) : o \in Node
        BY <1>3, <2>5 DEF Settled, Graph
      <4> QED
        BY <3>1, <3>2, <4>2, <4>3, <4>4
    <3> QED
      BY <2>5, <3>3 DEF ConsKept
  <2>7. HcdKept(Q)'
    <3>1. ASSUME NEW C \in ComplexCons, NEW y \in Node, y = g.rep[Base(C)], g.hcd_var[y] # 0,
                 NEW o \in Settled(Q, y)'
          PROVE  o = i2p \/ Same(o, g.hcd_var[y])' \/ (y = x /\ <<o, NoSite>> \in members')
      <4>1. o \in Settled(R, y) \/ (y = x /\ o \in delta)
        BY <2>4
      <4>2. CASE o \in Settled(R, y)
        <5>1. o = i2p \/ g.rep[o] = g.rep[g.hcd_var[y]]
          BY <1>8, <2>3, <3>1, <4>2 DEF NoneLost, HcdKept, Same
        <5> QED
          BY <1>3, <5>1 DEF Same
      <4>3. CASE y = x /\ o \in delta
        BY <1>1, <3>1, <4>3
      <4> QED
        BY <4>1, <4>2, <4>3
    <3> QED
      BY <1>1, <1>3, <1>8, <2>5, <3>1 DEF HcdKept, Same
  <2>8. ExtKept(Q)'
    <3>1. ASSUME NEW call \in sys.icall, NEW y \in Node, y = g.rep[Base(call[1])],
                 NEW o \in Settled(Q, y)', o \in ExtNode
          PROVE  EffectHolds(<<o, call[2]>>)' \/ (y = x /\ o \in delta /\ Waiting(call)')
      <4>1. o \in Settled(R, y) \/ (y = x /\ o \in delta)
        BY <2>4
      <4>2. CASE o \in Settled(R, y)
        <5>1. EffectHolds(<<o, call[2]>>)
          BY <1>8, <2>3, <3>1, <4>2 DEF NoneLost, ExtKept
        <5>2. <<o, call[2]>> \in ExtNode \X Site
          BY <3>1 DEF IInv, GraphInv, GraphType, System
        <5> QED
          BY <1>4, <5>1, <5>2, ForwardEffect
      <4>3. CASE y = x /\ o \in delta
        <5>1. PICK cid \in g.cons[x] : Keeps(cid, call)
          BY <1>1, <3>1, <4>3 DEF ConsInv, CallsInv
        <5>2. Ahead(cid)'
          BY <1>8 DEF Ahead
        <5> QED
          BY <1>1, <1>3, <4>3, <5>1, <5>2 DEF Waiting, Keeps, SameCons
      <4> QED
        BY <4>1, <4>2, <4>3
    <3>2. \A call \in sys.icall : g.rep[Base(call[1])] \in Node
      BY <1>3 DEF IInv, GraphInv, GraphType, System, Constraint, Base, Graph
    <3>3. \A call \in sys.icall : \A o \in (Settled(Q, g.rep[Base(call[1])]) \cap ExtNode)' :
            \/ EffectHolds(<<o, call[2]>>)'
            \/ g.rep[Base(call[1])] = x /\ o \in delta /\ Waiting(call)'
      <4>1. \A call \in sys.icall : \A y \in Node : y = g.rep[Base(call[1])] =>
              Settled(Q, g.rep[Base(call[1])])' = Settled(Q, y)'
        BY <1>3 DEF Settled
      <4> QED
        BY <3>1, <3>2, <4>1
    <3> QED
      BY <1>1, <1>3, <1>8, <3>3 DEF ExtKept
  <2>9. EdgesKept(Q)'
    <3>1. ASSUME NEW y \in Node, NEW d \in g'.copy_to[y], i2p \notin {y, d}, NEW o \in Settled(Q, y)'
          PROVE  o \in g'.points_to[g'.rep[d]] \/ (y = x /\ o \in delta)
      BY <1>1, <1>3, <1>8, <2>3, <2>4, <3>1 DEF NoneLost, EdgesKept
    <3> QED
      BY <1>1, <1>8, <3>1 DEF EdgesKept
  <2> QED
    BY <2>6, <2>7, <2>8, <2>9 DEF NoneLost
<1>15. pc' \notin {"end", "done"}
  BY <1>1
<1> QED
  BY <1>6, <1>7, <1>12, <1>13, <1>14, <1>15 DEF SoundInv

-----------------------------------------------------------------------------
(* Adding what a pointee means to the graph *)

(* The graph after a step of solve_node that merges nothing.               *)
Unmerged ==
  /\ Forward
  /\ g'.rep = g.rep /\ g'.hcd_var = g.hcd_var /\ g'.prev_points_to = g.prev_points_to
  /\ g'.vtime = g.vtime
  /\ \A x \in Node : g.points_to[x] \subseteq g'.points_to[x]
  /\ \A x \in Node : \A d \in g'.copy_to[x] :
       d \in g.copy_to[x] \/ g'.points_to[x] \subseteq g'.points_to[g.rep[d]]

LEMMA EdgeAdded ==
  ASSUME IInv, FactsHold, NEW s \in Node, NEW d \in Node, is_rep(g, s), is_rep(g, d),
         sys' = sys, g' \in Graph, Grown(g, g'),
         NEW h, h = add_copy_edge(g, s, d),
         g'.rep = h.rep, g'.hcd_var = h.hcd_var, g'.prev_points_to = h.prev_points_to,
         g'.vtime = h.vtime, g'.points_to = h.points_to, g'.copy_to = h.copy_to
  PROVE  /\ Unmerged
         /\ \A x \in Node : x # d => g'.points_to[x] = g.points_to[x]
         /\ \A a, b \in Node : g.rep[a] = s /\ g.rep[b] = d => HasEdge(a, b)'
<1>1. g \in Graph
  BY DEF IInv, GraphInv, GraphType
<1>2. \A x \in Node : g.rep[x] = i2p <=> x = i2p
  BY NodeAssumption DEF FactsHold
<1>3. CASE h = g
  <2>1. Forward
    <3>1. \A a, b : HasEdge(a, b) => HasEdge(a, b)'
      BY <1>3 DEF HasEdge
    <3> QED
      BY <3>1 DEF Forward
  <2>2. i2p \in {s, d} \/ s = d \/ d \in g.copy_to[s]
    <3> SUFFICES ASSUME ~(i2p \in {s, d} \/ s = d \/ d \in g.copy_to[s])
                 PROVE  FALSE
      OBVIOUS
    <3>1. h = [g EXCEPT !.copy_to[s] = @ \cup {d}, !.points_to[d] = @ \cup g.points_to[s]]
      BY DEF add_copy_edge
    <3>2. d \in h.copy_to[s]
      BY <1>1, <3>1 DEF Graph
    <3> QED
      BY <1>3, <3>2
  <2>3. ASSUME NEW a \in Node, NEW b \in Node, g.rep[a] = s, g.rep[b] = d
        PROVE  HasEdge(a, b)'
    BY <1>1, <1>2, <1>3, <2>2, <2>3 DEF HasEdge, is_rep
  <2> QED
    BY <1>3, <2>1, <2>3 DEF Unmerged
<1>4. CASE h = [g EXCEPT !.copy_to[s] = @ \cup {d}, !.points_to[d] = @ \cup g.points_to[s]]
           /\ s # d
  <2>1. /\ g'.rep = g.rep /\ g'.hcd_var = g.hcd_var /\ g'.prev_points_to = g.prev_points_to
        /\ g'.vtime = g.vtime
        /\ \A x \in Node : g'.points_to[x] = IF x = d THEN g.points_to[d] \cup g.points_to[s]
                                                      ELSE g.points_to[x]
        /\ \A x \in Node : g'.copy_to[x] = IF x = s THEN g.copy_to[s] \cup {d} ELSE g.copy_to[x]
    BY <1>1, <1>4 DEF Graph
  <2>2. Forward
    <3>1. \A a, b \in Node : HasEdge(a, b) => HasEdge(a, b)'
      BY <2>1, EdgesStay
    <3> QED
      BY <3>1 DEF Forward
  <2>3. ASSUME NEW a \in Node, NEW b \in Node, g.rep[a] = s, g.rep[b] = d
        PROVE  HasEdge(a, b)'
    <3>1. d \in g'.copy_to[g'.rep[a]]
      BY <2>1, <2>3
    <3> QED
      BY <2>1, <2>3, <3>1 DEF HasEdge, is_rep
  <2>4. \A x \in Node : \A b \in g'.copy_to[x] :
          b \in g.copy_to[x] \/ g'.points_to[x] \subseteq g'.points_to[g.rep[b]]
    BY <1>4, <2>1 DEF is_rep
  <2> QED
    BY <2>1, <2>2, <2>3, <2>4 DEF Unmerged
<1> QED
  BY <1>3, <1>4 DEF add_copy_edge

LEMMA PointeesAdded ==
  ASSUME IInv, NEW d \in Node, is_rep(g, d), NEW S \in SUBSET Node,
         sys' = sys, g' \in Graph, Grown(g, g'),
         NEW h, h = AddPointees(g, d, S),
         g'.rep = h.rep, g'.hcd_var = h.hcd_var, g'.prev_points_to = h.prev_points_to,
         g'.vtime = h.vtime, g'.points_to = h.points_to, g'.copy_to = h.copy_to
  PROVE  /\ Unmerged
         /\ \A x \in Node : x # d => g'.points_to[x] = g.points_to[x]
         /\ S \subseteq g'.points_to[d]
<1>1. g \in Graph
  BY DEF IInv, GraphInv, GraphType
<1>2. /\ g'.rep = g.rep /\ g'.hcd_var = g.hcd_var /\ g'.prev_points_to = g.prev_points_to
      /\ g'.vtime = g.vtime /\ g'.copy_to = g.copy_to
      /\ \A x \in Node : g'.points_to[x] = IF x = d THEN g.points_to[d] \cup S
                                                    ELSE g.points_to[x]
  BY <1>1 DEF Graph, AddPointees
<1>3. Forward
  <2>1. \A a, b : HasEdge(a, b) => HasEdge(a, b)'
    BY <1>2 DEF HasEdge
  <2> QED
    BY <2>1 DEF Forward
<1> QED
  BY <1>2, <1>3 DEF Unmerged

LEMMA SameUnmerged ==
  ASSUME IInv, sys' = sys, g' \in Graph, Grown(g, g'),
         g'.rep = g.rep, g'.hcd_var = g.hcd_var, g'.prev_points_to = g.prev_points_to,
         g'.vtime = g.vtime, g'.points_to = g.points_to, g'.copy_to = g.copy_to
  PROVE  Unmerged
<1>1. \A a, b : HasEdge(a, b) => HasEdge(a, b)'
  BY DEF HasEdge
<1> QED
  BY <1>1 DEF Unmerged, Forward

LEMMA SweepStep ==
  ASSUME IInv, SoundInv, pc \in {"cons", "member"}, pc' \in {"cons", "member"},
         Unmerged,
         \A x \in Node : g'.cons[x] \subseteq g.cons[x],
         UNCHANGED <<frames, n, d_points_to, hcd_rep>>,
         \A m \in ext_seen' : m \in ext_seen \/ EffectHolds(m)',
         \A x \in Node : Queued(x) => Queued(x)',
         pc = "member" /\ chg =>
           \/ pc' = "member" /\ chg' /\ lsc' = lsc
           \/ \A x \in Node : x = lsc.C.dest => Queued(x)',
         \A x \in Node : g'.points_to[x] # g.points_to[x] =>
           Queued(x)' \/ (pc' = "member" /\ chg' /\ lsc'.C.dest = x),
         SeenMet', CallMember',
         \A C \in ComplexCons : Listed(C) => Listed(C)' \/ Gone(C)',
         \A C \in ComplexCons : \A o \in d_points_to :
            Pending(C, o) => Pending(C, o)' \/ Solved(C, o)',
         \A call \in sys.icall : \A o \in d_points_to \cap ExtNode :
           g.rep[Base(call[1])] = n /\
           (Waiting(call) \/ (pc = "member" /\ <<o, call[2]>> \in members)) =>
             \/ EffectHolds(<<o, call[2]>>)'
             \/ Waiting(call)' \/ (pc = "member" /\ <<o, call[2]>> \in members)'
  PROVE  SoundInv'
<1>1. /\ FactsHold /\ FramesLinked /\ HcdMet /\ g \in Graph
      /\ \A Q \in SUBSET Node : Covering(Q) => NoneLost(Q)
  BY DEF SoundInv, IInv, GraphInv, GraphType
<1>2. /\ Visiting /\ Visiting' /\ ~Merging /\ ~Merging' /\ ~HcdPhase /\ ~HcdPhase'
      /\ pc # "merge" /\ pc' # "merge"
  BY DEF Visiting, HcdPhase, Merging, Sweeping
<1>3. /\ Forward /\ g'.rep = g.rep /\ g'.hcd_var = g.hcd_var
      /\ g'.prev_points_to = g.prev_points_to /\ g'.vtime = g.vtime
      /\ \A x \in Node : /\ g.points_to[x] \subseteq g'.points_to[x]
                         /\ g'.prev_points_to[x] \subseteq g'.points_to[x]
      /\ \A x \in Node : \A d \in g'.copy_to[x] :
           d \in g.copy_to[x] \/ g'.points_to[x] \subseteq g'.points_to[g.rep[d]]
  BY <1>1 DEF Unmerged, FactsHold
<1>4. FactsHold'
  BY <1>1, <1>3, FactsStay
<1>5. FramesLinked'
  BY <1>1, <1>3, FramesStay
<1>6. HcdMet'
  BY <1>1, <1>2, <1>3 DEF HcdMet, HcdOf, Same, is_rep
<1>7. MergeChain'
  BY <1>2 DEF MergeChain, Merging
<1>8. ASSUME NEW Q \in SUBSET Node, Covering(Q)'
      PROVE  NoneLost(Q)'
  <2>1. NoneLost(Q)
    <3>1. Covering(Q)
      BY <1>1, <1>3, <1>8, CoverBack
    <3> QED
      BY <1>1, <3>1
  <2>2. \A x \in Node : Settled(Q, x)' \subseteq Settled(Q, x)
    <3>1. ASSUME NEW x \in Node, g'.points_to[x] # g.points_to[x]
          PROVE  x \in Q
      BY <1>8, <3>1 DEF Covering
    <3> QED
      BY <1>3, <3>1 DEF Settled
  <2>3. ConsKept(Q)'
    BY <1>2, <1>3, <2>1, <2>2, ConsKeptStays DEF NoneLost
  <2>4. HcdKept(Q)'
    BY <1>2, <1>3, <2>1, <2>2, HcdKeptStays DEF NoneLost
  <2>5. ExtKept(Q)'
    BY <1>2, <1>3, <2>1, <2>2, ExtKeptStays DEF NoneLost
  <2>6. EdgesKept(Q)'
    BY <1>2, <1>3, <2>1, <2>2, EdgesKeptStays DEF NoneLost
  <2> QED
    BY <2>3, <2>4, <2>5, <2>6 DEF NoneLost
<1>9. pc' \notin {"end", "done"}
  OBVIOUS
<1> QED
  BY <1>4, <1>5, <1>6, <1>7, <1>8, <1>9 DEF SoundInv

LEMMA SeenKeptStays ==
  ASSUME IInv, Unmerged, pc \in {"cons", "member"}, UNCHANGED <<n, phase, hcd_rep>>,
         NEW C \in Constraint, SeenKept(C),
         \A cid \in ListOf(n, phase) \ todo : 
           cplx_cons[cid] = C /\ ~Doomed(cid) => 
             /\ cid \in (ListOf(n, phase) \ todo)' 
             /\ cplx_cons'[cid] = C /\ ~Doomed(cid)'
  PROVE  SeenKept(C)'
<1>1. Linked(C, hcd_rep) => Linked(C, hcd_rep)'
  <2>1. C.src \in Node /\ C.dest \in Node /\ hcd_rep \in Node
    BY DEF Constraint, IInv, VisitInv, VisitType
  <2> QED
    BY <2>1 DEF Unmerged, Forward, Linked
<1> QED
  BY <1>1 DEF SeenKept

(* One pointee less to handle: either the constraint now holds for it, or  *)
(* the external call has its effect.                                       *)
LEMMA MemberStep ==
  ASSUME IInv, ConsInv, SoundInv, pc = "member", pc' = "member", NEW m \in members,
         members' = members \ {m},
         Unmerged, g'.cons = g.cons,
         UNCHANGED <<frames, n, d_points_to, hcd_rep, cplx_cons, icall_cons, phase, todo,
                     cons_seen, lsc>>,
         chg => chg',
         \A k \in ext_seen' : k \in ext_seen \/ EffectHolds(k)',
         \A x \in Node : Queued(x) => Queued(x)',
         \A x \in Node : g'.points_to[x] # g.points_to[x] =>
           Queued(x)' \/ (chg' /\ lsc.C.dest = x),
         m[2] = NoSite => \A D \in ComplexCons :
           SameCons(lsc.C, D) /\ ~lsc.del => Solved(D, m[1])',
         m[2] # NoSite => EffectHolds(m)'
  PROVE  SoundInv'
<1>1. /\ FactsHold /\ SeenMet /\ CallMember /\ g \in Graph /\ d_points_to \subseteq Node
      /\ members \subseteq Node \X (Site \cup {NoSite}) /\ cons_seen \subseteq Constraint
      /\ NoSite \notin Site /\ sys' = sys /\ Forward /\ g'.rep = g.rep
  BY CallAssumption DEF SoundInv, IInv, GraphInv, GraphType, VisitInv, VisitType, Unmerged, Forward
<1>2. \A C, D : SameCons(C, D)' <=> SameCons(C, D)
  BY <1>1 DEF SameCons
<1>3. \A cid : (Ahead(cid)' <=> Ahead(cid)) /\ (Doomed(cid)' <=> Doomed(cid))
  BY DEF Ahead, Doomed, Sweeping
<1>4. \A C \in ComplexCons : Listed(C) => Listed(C)'
  BY <1>1, <1>2, <1>3 DEF Listed
<1>5. \A o, s : <<o, s>> \in members => <<o, s>> = m \/ <<o, s>> \in members'
  OBVIOUS
<1>6. ASSUME NEW C \in ComplexCons, NEW o \in d_points_to, Pending(C, o)
      PROVE  Pending(C, o)' \/ Solved(C, o)'
  <2>1. n' = g'.rep[Base(C)] /\ Visiting' /\ o \in d_points_to'
    BY <1>1, <1>6 DEF Pending, Visiting, Sweeping
  <2>2. CASE \E cid \in g.cons[n] : Ahead(cid) /\ SameCons(cplx_cons[cid], C)
    BY <1>1, <1>2, <1>3, <2>1, <2>2 DEF Pending
  <2>3. CASE ~lsc.del /\ SameCons(lsc.C, C) /\ <<o, NoSite>> \in members
    <3>1. CASE <<o, NoSite>> = m
      BY <2>3, <3>1
    <3>2. CASE <<o, NoSite>> \in members'
      BY <1>2, <2>1, <2>3, <3>2 DEF Pending
    <3> QED
      BY <1>5, <2>3, <3>1, <3>2
  <2> QED
    BY <1>6, <2>2, <2>3 DEF Pending
<1>7. ASSUME NEW call \in sys.icall, NEW o \in d_points_to \cap ExtNode,
             Waiting(call) \/ <<o, call[2]>> \in members
      PROVE  \/ EffectHolds(<<o, call[2]>>)'
             \/ Waiting(call)' \/ <<o, call[2]>> \in members'
  <2>1. call[2] \in Site
    BY DEF IInv, GraphInv, GraphType, System
  <2>2. Waiting(call) => Waiting(call)'
    BY <1>2, <1>3 DEF Waiting
  <2> QED
    BY <1>1, <1>5, <1>7, <2>1, <2>2
<1>8. SeenMet'
  <2> SUFFICES ASSUME NEW C \in cons_seen
               PROVE  /\ C.type = phase /\ C = Updated(C)' /\ SeenKept(C)'
                      /\ \A D \in ComplexCons : SameCons(C, D) =>
                           \A o \in d_points_to :
                             Solved(D, o)' \/ (~lsc.del /\ C = lsc.C /\ <<o, NoSite>> \in members')
    <3>1. ComplexCons' = ComplexCons
      BY <1>1 DEF ComplexCons, Complex
    <3> QED
      BY <1>2, <3>1 DEF SeenMet
  <2>1. /\ C.type = phase /\ C = Updated(C) /\ SeenKept(C)
        /\ \A D \in ComplexCons : SameCons(C, D) =>
             \A o \in d_points_to :
               Solved(D, o) \/ (~lsc.del /\ C = lsc.C /\ <<o, NoSite>> \in members)
    BY <1>1 DEF SeenMet, Sweeping
  <2>2. C = Updated(C)'
    BY <1>1, <2>1 DEF Updated, get_node_rep
  <2>3. SeenKept(C)'
    <3>1. ListOf(n, phase)' = ListOf(n, phase)
      BY DEF ListOf
    <3> QED
      BY <1>1, <1>3, <2>1, <3>1, SeenKeptStays
  <2>4. ASSUME NEW D \in ComplexCons, SameCons(C, D), NEW o \in d_points_to
        PROVE  Solved(D, o)' \/ (~lsc.del /\ C = lsc.C /\ <<o, NoSite>> \in members')
    <3>1. CASE Solved(D, o)
      BY <1>1, <2>4, <3>1, ForwardSolved
    <3>2. CASE ~lsc.del /\ C = lsc.C /\ <<o, NoSite>> \in members
      BY <1>5, <2>4, <3>2
    <3> QED
      BY <2>1, <2>4, <3>1, <3>2
  <2> QED
    BY <2>1, <2>2, <2>3, <2>4
<1>9. CallMember'
  BY <1>1 DEF CallMember
<1>10. /\ pc \in {"cons", "member"} /\ pc' \in {"cons", "member"}
       /\ \A x \in Node : g'.cons[x] \subseteq g.cons[x]
       /\ UNCHANGED <<frames, n, d_points_to, hcd_rep>>
       /\ pc = "member" /\ chg => pc' = "member" /\ chg' /\ lsc' = lsc
       /\ \A x \in Node : g'.points_to[x] # g.points_to[x] =>
            Queued(x)' \/ (pc' = "member" /\ chg' /\ lsc'.C.dest = x)
  OBVIOUS
<1>11. \A C \in ComplexCons : Listed(C) => Listed(C)' \/ Gone(C)'
  BY <1>4
<1>12. \A call \in sys.icall : \A o \in d_points_to \cap ExtNode :
         g.rep[Base(call[1])] = n /\
         (Waiting(call) \/ (pc = "member" /\ <<o, call[2]>> \in members)) =>
           \/ EffectHolds(<<o, call[2]>>)'
           \/ Waiting(call)' \/ (pc = "member" /\ <<o, call[2]>> \in members)'
  BY <1>7
<1> QED
  BY <1>6, <1>8, <1>9, <1>10, <1>11, <1>12, SweepStep

LEMMA TargetIs ==
  ASSUME NEW o, NEW C \in Constraint, o \in Nat, NEW call \in BOOLEAN,
         NEW t \in Targets({o}, C, call)
  PROVE  t = o + C.off /\ (C.off > 0 /\ call /\ C.type = "store" => t \notin NonPtrVal)
<1>1. C.off \in Nat
  BY DEF Constraint
<1>2. CASE C.off = 0
  BY <1>2 DEF Targets
<1>3. CASE C.off > 0 /\ ~call
  BY <1>1, <1>3 DEF Targets, Shift, Fits
<1>4. CASE C.off > 0 /\ call
  BY <1>1, <1>4 DEF Targets, Shift, Fits
<1>5. C.off = 0 \/ (C.off > 0 /\ ~call) \/ (C.off > 0 /\ call)
  BY <1>1
<1> QED
  BY <1>2, <1>3, <1>4, <1>5

(* A node that is pushed when it grew, and no other grows.                 *)
LEMMA GrownQueued ==
  ASSUME IInv, NEW x \in Node, is_rep(g, x), curr' = curr,
         next' = PushIf(Grew(g, g', x), next, x, g),
         g'.rep = g.rep, g'.vtime = g.vtime,
         \A y \in Node : y # x => g'.points_to[y] = g.points_to[y]
  PROVE  /\ \A y \in Node : Queued(y) => Queued(y)'
         /\ \A y \in Node : g'.points_to[y] # g.points_to[y] => Queued(y)'
<1>1. PICK b \in BOOLEAN : b = Grew(g, g', x)
  BY DEF Grew
<1>2. /\ \A y \in Node : Queued(y) => Queued(y)'
      /\ b => Queued(x)'
  BY <1>1, Pushed
<1>3. ASSUME NEW y \in Node, g'.points_to[y] # g.points_to[y]
      PROVE  Queued(y)'
  BY <1>1, <1>2, <1>3 DEF Grew
<1> QED
  BY <1>2, <1>3

LEMMA LoadMemberSound ==
  ASSUME IInv, ConsInv, SoundInv, NEW m \in members, LoadMember(m)
  PROVE  SoundInv'
<1> DEFINE t == g.rep[m[1] + lsc.C.off]
<1>1. /\ pc = "member" /\ pc' = "member" /\ lsc.C.type = "load" /\ m[2] = NoSite
      /\ members' = members \ {m}
      /\ g' = add_copy_edge(g, t, lsc.C.dest)
      /\ chg' = (chg \/ Grew(g, g', lsc.C.dest))
      /\ UNCHANGED <<sys, frames, n, d_points_to, hcd_rep, cplx_cons, icall_cons, ext_seen,
                     phase, todo, cons_seen, lsc, curr, next>>
  BY DEF LoadMember, get_node_rep, wlVars, lcdVars
<1>2. /\ is_rep(g, lsc.C.dest) /\ lsc.C.dest \in Node /\ m[1] + lsc.C.off \in Node
      /\ m[1] \in Nat /\ lsc.C \in Constraint /\ g \in Graph /\ FactsHold
  BY <1>1, NodeAssumption DEF IInv, VisitInv, VisitType, LsCall, GraphInv, GraphType, SoundInv, Constraint
<1>3. is_rep(g, t) /\ t \in Node
  BY <1>2, RepIsRep DEF IInv, get_node_rep
<1> HIDE DEF t
<1>4. g' \in Graph /\ Grown(g, g')
  BY LoadMemberInv DEF IInv, GraphInv, GraphType
<1>5. /\ Unmerged
      /\ \A x \in Node : x # lsc.C.dest => g'.points_to[x] = g.points_to[x]
      /\ \A a, b \in Node : g.rep[a] = t /\ g.rep[b] = lsc.C.dest => HasEdge(a, b)'
  BY <1>1, <1>2, <1>3, <1>4, EdgeAdded
<1>6. g'.cons = g.cons
  BY <1>1, <1>2 DEF add_copy_edge, Graph
<1>7. ASSUME NEW D \in ComplexCons, SameCons(lsc.C, D)
      PROVE  Solved(D, m[1])'
  <2>1. /\ D \in Constraint /\ D.dest \in Node /\ IsCall(sys, D) \in BOOLEAN
        /\ D.type = "load" /\ D.off = lsc.C.off /\ g.rep[D.dest] = lsc.C.dest
    BY <1>1, <1>2, <1>7, ComplexTyped DEF SameCons, is_rep
  <2>2. HasEdge(m[1] + D.off, D.dest)'
    BY <1>2, <1>5, <2>1 DEF t
  <2>3. \A u \in Targets({m[1]}, D, IsCall(sys, D)) : u = m[1] + D.off
    BY <1>2, <2>1, TargetIs
  <2>4. IsCall(sys, D)' = IsCall(sys, D)
    BY <1>1 DEF IsCall
  <2>5. \A u \in Targets({m[1]}, D, IsCall(sys, D)) : Linked(D, u)'
    BY <2>1, <2>2, <2>3 DEF Linked
  <2> QED
    BY <2>1, <2>4, <2>5 DEF Solved
<1>8. \A x \in Node : Queued(x) => Queued(x)'
  BY <1>1, <1>5, QueuedSame DEF Unmerged
<1>9. \A x \in Node : g'.points_to[x] # g.points_to[x] => chg' /\ lsc.C.dest = x
  BY <1>1, <1>5 DEF Grew
<1> QED
  BY <1>1, <1>5, <1>6, <1>7, <1>8, <1>9, MemberStep

LEMMA StoreMemberSound ==
  ASSUME IInv, ConsInv, SoundInv, AsExpected, NEW m \in members, StoreMember(m)
  PROVE  SoundInv'
<1> DEFINE t == g.rep[m[1] + lsc.C.off]
           h == add_copy_edge(g, lsc.C.src, t)
<1>1. /\ pc = "member" /\ pc' = "member" /\ lsc.C.type = "store" /\ m[2] = NoSite
      /\ members' = members \ {m}
      /\ \/ lsc.I # {} /\ t \in NonPtrVal /\ g' = g /\ next' = next
         \/ g' = h /\ next' = PushIf(Grew(g, h, t), next, t, g)
      /\ UNCHANGED <<sys, frames, n, d_points_to, hcd_rep, cplx_cons, icall_cons, ext_seen,
                     phase, todo, cons_seen, lsc, curr, chg>>
  BY DEF StoreMember, get_node_rep, lcdVars
<1>2. /\ is_rep(g, lsc.C.src) /\ lsc.C.src \in Node /\ m[1] + lsc.C.off \in Node
      /\ m[1] \in Nat /\ lsc.C \in Constraint /\ g \in Graph /\ FactsHold
  BY <1>1, NodeAssumption DEF IInv, VisitInv, VisitType, LsCall, GraphInv, GraphType, SoundInv, Constraint
<1>3. is_rep(g, t) /\ t \in Node
  BY <1>2, RepIsRep DEF IInv, get_node_rep
<1> HIDE DEF t
<1>4. g' \in Graph /\ Grown(g, g')
  BY StoreMemberInv DEF IInv, GraphInv, GraphType
<1>5. \A D \in ComplexCons : SameCons(lsc.C, D) =>
        /\ D \in Constraint /\ D.src \in Node /\ IsCall(sys, D) \in BOOLEAN
        /\ D.type = "store" /\ D.off = lsc.C.off /\ g.rep[D.src] = lsc.C.src
        /\ IsCall(sys, D)' = IsCall(sys, D)
        /\ \A u \in Targets({m[1]}, D, IsCall(sys, D)) :
             /\ u = m[1] + D.off
             /\ D.off > 0 /\ IsCall(sys, D) => u \notin NonPtrVal
  <2> SUFFICES ASSUME NEW D \in ComplexCons, SameCons(lsc.C, D)
               PROVE  /\ D \in Constraint /\ D.src \in Node /\ IsCall(sys, D) \in BOOLEAN
                      /\ D.type = "store" /\ D.off = lsc.C.off /\ g.rep[D.src] = lsc.C.src
                      /\ IsCall(sys, D)' = IsCall(sys, D)
                      /\ \A u \in Targets({m[1]}, D, IsCall(sys, D)) :
                           /\ u = m[1] + D.off
                           /\ D.off > 0 /\ IsCall(sys, D) => u \notin NonPtrVal
    OBVIOUS
  <2>1. /\ D \in Constraint /\ D.src \in Node /\ IsCall(sys, D) \in BOOLEAN
        /\ D.type = "store" /\ D.off = lsc.C.off /\ g.rep[D.src] = lsc.C.src
    BY <1>1, <1>2, ComplexTyped DEF SameCons, is_rep
  <2>2. \A u \in Targets({m[1]}, D, IsCall(sys, D)) :
          u = m[1] + D.off /\ (D.off > 0 /\ IsCall(sys, D) => u \notin NonPtrVal)
    BY <1>2, <2>1, TargetIs
  <2>3. IsCall(sys, D)' = IsCall(sys, D)
    BY <1>1 DEF IsCall
  <2> QED
    BY <2>1, <2>2, <2>3
<1>6. CASE lsc.I # {} /\ t \in NonPtrVal /\ g' = g /\ next' = next
  <2>1. Unmerged
    BY <1>1, <1>4, <1>6, SameUnmerged
  <2>2. ASSUME NEW D \in ComplexCons, SameCons(lsc.C, D), ~lsc.del
        PROVE  Solved(D, m[1])'
    <3>1. lsc.C.off # 0 /\ IsCall(sys, sys.cons[lsc.cid])
      BY <1>1, <1>6, <2>2 DEF SoundInv, CallMember
    <3>2. /\ lsc.C = cplx_cons[lsc.cid] /\ lsc.cid \in g.cons[n] /\ n \in Node
      BY <1>1 DEF ConsInv, SweepInv, IInv, VisitInv, VisitType
    <3>3. sys.cons[lsc.cid] \in ComplexCons /\ SameCons(lsc.C, sys.cons[lsc.cid])
      BY <1>2, <3>2, PendingTyped
    <3>4. SameCons(sys.cons[lsc.cid], D) /\ sys.cons[lsc.cid].off # 0
      BY <2>2, <3>1, <3>3 DEF SameCons
    <3>5. IsCall(sys, D)
      BY <3>1, <3>3, <3>4 DEF AsExpected, CallsApart
    <3>6. m[1] + D.off \in NonPtrVal
      BY <1>2, <1>5, <1>6, <2>2 DEF AsExpected, TypesKept, t
    <3>7. D.off > 0 /\ D.type = "store"
      BY <1>2, <1>5, <2>2, <3>1 DEF Constraint
    <3>8. Targets({m[1]}, D, IsCall(sys, D)) = {}
      BY <1>5, <2>2, <3>5, <3>6, <3>7
    <3> QED
      BY <1>5, <2>2, <3>7, <3>8 DEF Solved
  <2>3. \A x \in Node : Queued(x) => Queued(x)'
    BY <1>1, <1>6, QueuedSame
  <2> QED
    BY <1>1, <1>6, <2>1, <2>2, <2>3, MemberStep
<1>7. CASE g' = h /\ next' = PushIf(Grew(g, h, t), next, t, g)
  <2>1. /\ Unmerged
        /\ \A x \in Node : x # t => g'.points_to[x] = g.points_to[x]
        /\ \A a, b \in Node : g.rep[a] = lsc.C.src /\ g.rep[b] = t => HasEdge(a, b)'
    BY <1>1, <1>2, <1>3, <1>4, <1>7, EdgeAdded
  <2>2. g'.cons = g.cons
    BY <1>2, <1>7 DEF add_copy_edge, Graph
  <2>3. ASSUME NEW D \in ComplexCons, SameCons(lsc.C, D)
        PROVE  Solved(D, m[1])'
    <3>1. HasEdge(D.src, m[1] + D.off)'
      BY <1>2, <1>5, <2>1, <2>3 DEF t
    <3>2. \A u \in Targets({m[1]}, D, IsCall(sys, D)) : Linked(D, u)'
      BY <1>5, <2>3, <3>1 DEF Linked
    <3> QED
      BY <1>5, <2>3, <3>2 DEF Solved
  <2>4. /\ \A x \in Node : Queued(x) => Queued(x)'
        /\ \A x \in Node : g'.points_to[x] # g.points_to[x] => Queued(x)'
    <3>1. PICK y \in Node : y = t
      BY <1>3
    <3>2. next' = PushIf(Grew(g, g', y), next, y, g)
      BY <1>7, <3>1
    <3> QED
      BY <1>1, <1>3, <2>1, <3>1, <3>2, GrownQueued DEF Unmerged
  <2> QED
    BY <1>1, <2>1, <2>2, <2>3, <2>4, MemberStep
<1> QED
  BY <1>1, <1>6, <1>7

LEMMA HandleExtSound ==
  ASSUME IInv, ConsInv, SoundInv, NEW m \in members, HandleExt(m)
  PROVE  SoundInv'
<1> DEFINE e == ExtEffect[m]
           d == g.rep[e.dest]
           s == g.rep[e.src]
           h == CASE e.kind = "none"  -> g
                  [] e.kind = "point" -> AddPointees(g, d, {e.src})
                  [] e.kind = "copy"  -> add_copy_edge(g, s, d)
<1>1. /\ pc = "member" /\ pc' = "member" /\ m[2] # NoSite
      /\ members' = members \ {m} /\ ext_seen' = ext_seen \cup {m}
      /\ \/ m \in ext_seen /\ g' = g /\ next' = next
         \/ g' = h /\ next' = PushIf(Grew(g, h, d), next, d, g)
      /\ UNCHANGED <<sys, frames, n, d_points_to, hcd_rep, cplx_cons, icall_cons,
                     phase, todo, cons_seen, lsc, curr, chg>>
  BY DEF HandleExt, get_node_rep, lcdVars
<1>2. /\ m \in ExtNode \X Site /\ g \in Graph /\ FactsHold
  BY <1>1 DEF IInv, VisitInv, GraphInv, GraphType, SoundInv
<1>3. /\ e \in Effect /\ e.dest \in Node /\ e.src \in Node
      /\ e.kind \in {"none", "point", "copy"}
  BY <1>2, EffectTyped DEF Effect
<1>4. is_rep(g, d) /\ d \in Node /\ is_rep(g, s) /\ s \in Node
  BY <1>3, RepIsRep DEF IInv, get_node_rep
<1>5. g' \in Graph /\ Grown(g, g')
  BY HandleExtInv DEF IInv, GraphInv, GraphType
<1>6. CASE m \in ext_seen /\ g' = g /\ next' = next
  <2>1. Unmerged
    BY <1>1, <1>5, <1>6, SameUnmerged
  <2>2. EffectHolds(m)'
    <3>1. EffectHolds(m)
      BY <1>2, <1>6 DEF FactsHold
    <3> QED
      BY <1>2, <2>1, <3>1, ForwardEffect DEF Unmerged
  <2>3. \A x \in Node : Queued(x) => Queued(x)'
    BY <1>1, <1>6, QueuedSame
  <2> QED
    BY <1>1, <1>6, <2>1, <2>2, <2>3, MemberStep
<1> HIDE DEF e, d, s
<1>7. CASE g' = h /\ next' = PushIf(Grew(g, h, d), next, d, g)
  <2>1. /\ Unmerged /\ g'.cons = g.cons
        /\ \A x \in Node : x # d => g'.points_to[x] = g.points_to[x]
        /\ EffectHolds(m)'
    <3>1. CASE e.kind = "none"
      <4>1. g' = g
        BY <1>7, <3>1
      <4>2. Unmerged
        BY <1>1, <1>5, <4>1, SameUnmerged
      <4> QED
        BY <3>1, <4>1, <4>2 DEF EffectHolds, e
    <3>2. CASE e.kind = "point"
      <4>1. g' = AddPointees(g, d, {e.src})
        BY <1>7, <3>2
      <4>2. /\ Unmerged
            /\ \A x \in Node : x # d => g'.points_to[x] = g.points_to[x]
            /\ {e.src} \subseteq g'.points_to[d]
        BY <1>1, <1>3, <1>4, <1>5, <4>1, PointeesAdded, SMTT(30)
      <4>3. g'.cons = g.cons
        BY <1>2, <4>1 DEF AddPointees, Graph
      <4>4. g'.rep[e.dest] = d
        BY <4>2 DEF Unmerged, d
      <4> QED
        BY <3>2, <4>2, <4>3, <4>4 DEF EffectHolds, e
    <3>3. CASE e.kind = "copy"
      <4>1. g' = add_copy_edge(g, s, d)
        BY <1>7, <3>3
      <4>2. /\ Unmerged
            /\ \A x \in Node : x # d => g'.points_to[x] = g.points_to[x]
            /\ \A a, b \in Node : g.rep[a] = s /\ g.rep[b] = d => HasEdge(a, b)'
        BY <1>1, <1>2, <1>4, <1>5, <4>1, EdgeAdded
      <4>3. g'.cons = g.cons
        BY <1>2, <4>1 DEF add_copy_edge, Graph
      <4>4. HasEdge(e.src, e.dest)'
        BY <1>3, <4>2 DEF s, d
      <4> QED
        BY <3>3, <4>2, <4>3, <4>4 DEF EffectHolds, e
    <3> QED
      BY <1>3, <3>1, <3>2, <3>3
  <2>2. /\ \A x \in Node : Queued(x) => Queued(x)'
        /\ \A x \in Node : g'.points_to[x] # g.points_to[x] => Queued(x)'
    <3>1. PICK y \in Node : y = d
      BY <1>4
    <3>2. next' = PushIf(Grew(g, g', y), next, y, g)
      BY <1>7, <3>1
    <3> QED
      BY <1>1, <1>4, <2>1, <3>1, <3>2, GrownQueued DEF Unmerged
  <2>3. \A k \in ext_seen' : k \in ext_seen \/ EffectHolds(k)'
    BY <1>1, <2>1
  <2> QED
    BY <1>1, <2>1, <2>2, <2>3, MemberStep
<1> QED
  BY <1>1, <1>6, <1>7

LEMMA LsDoneSound ==
  ASSUME IInv, ConsInv, SoundInv, LsDone
  PROVE  SoundInv'
<1>1. /\ pc = "member" /\ pc' = "cons" /\ members = {}
      /\ g' = IF lsc.del THEN [g EXCEPT !.cons[n] = @ \ {lsc.cid}] ELSE g
      /\ next' = PushIf(chg, next, lsc.C.dest, g)
      /\ UNCHANGED <<sys, frames, n, d_points_to, hcd_rep, cplx_cons, icall_cons, ext_seen,
                     phase, todo, cons_seen, lsc, curr, chg, members>>
  BY DEF LsDone, visitVars, lcdVars
<1>2. /\ FactsHold /\ SeenMet /\ g \in Graph /\ chg \in BOOLEAN /\ n \in Node
      /\ is_rep(g, lsc.C.dest) /\ lsc.C.dest \in Node /\ cons_seen \subseteq Constraint
      /\ d_points_to \subseteq Node
  BY <1>1 DEF SoundInv, IInv, GraphInv, GraphType, VisitInv, VisitType, LsCall, Constraint
<1>3. /\ lsc.C.type = phase /\ phase # "gep" /\ lsc.C = cplx_cons[lsc.cid]
      /\ lsc.cid \in g.cons[n] \ todo
  BY <1>1 DEF ConsInv, SweepInv
<1>4. g' \in Graph /\ Grown(g, g')
  BY LsDoneInv DEF IInv, GraphInv, GraphType
<1>5. /\ g'.rep = g.rep /\ g'.hcd_var = g.hcd_var /\ g'.prev_points_to = g.prev_points_to
      /\ g'.vtime = g.vtime /\ g'.points_to = g.points_to /\ g'.copy_to = g.copy_to
      /\ \A x \in Node : g'.cons[x] = IF lsc.del /\ x = n THEN g.cons[x] \ {lsc.cid} ELSE g.cons[x]
  BY <1>1, <1>2 DEF Graph
<1>6. Unmerged
  BY <1>1, <1>4, <1>5, SameUnmerged
<1>7. \A C, D : SameCons(C, D)' <=> SameCons(C, D)
  BY <1>5 DEF SameCons
<1>8. \A cid : (Ahead(cid)' <=> Ahead(cid)) /\ ~Doomed(cid)' /\ (Doomed(cid) <=> lsc.del /\ cid = lsc.cid)
  BY <1>1 DEF Ahead, Doomed, Sweeping
<1>9. ~Ahead(lsc.cid)
  BY <1>1, <1>3 DEF Ahead, Sweeping
<1>10. \A C \in ComplexCons : Listed(C) => Listed(C)'
  <2>1. \A C \in ComplexCons : g.rep[Base(C)] \in Node
    BY ComplexTyped
  <2> QED
    BY <1>1, <1>5, <1>7, <1>8, <2>1 DEF Listed
<1>11. \A cid \in g.cons[n] : Ahead(cid) => cid \in g'.cons[n] /\ Ahead(cid)'
  BY <1>2, <1>5, <1>8, <1>9
<1>12. ASSUME NEW C \in ComplexCons, NEW o \in d_points_to, Pending(C, o)
       PROVE  Pending(C, o)'
  <2>1. n' = g'.rep[Base(C)] /\ Visiting' /\ o \in d_points_to'
    BY <1>1, <1>5, <1>12 DEF Pending, Visiting, Sweeping
  <2> QED
    BY <1>1, <1>7, <1>11, <1>12, <2>1 DEF Pending
<1>13. \A call \in sys.icall : Waiting(call) => Waiting(call)'
  BY <1>1, <1>7, <1>11 DEF Waiting
<1>14. SeenMet'
  <2> SUFFICES ASSUME NEW C \in cons_seen
               PROVE  /\ C.type = phase /\ C = Updated(C)' /\ SeenKept(C)'
                      /\ \A D \in ComplexCons : SameCons(C, D) =>
                           \A o \in d_points_to : Solved(D, o)'
    <3>1. ComplexCons' = ComplexCons
      BY <1>1 DEF ComplexCons, Complex
    <3> QED
      BY <1>1, <1>7, <3>1 DEF SeenMet
  <2>1. /\ C.type = phase /\ C = Updated(C) /\ SeenKept(C)
        /\ \A D \in ComplexCons : SameCons(C, D) =>
             \A o \in d_points_to : Solved(D, o)
    BY <1>1, <1>2 DEF SeenMet, Sweeping
  <2>2. C = Updated(C)'
    BY <1>5, <2>1 DEF Updated, get_node_rep
  <2>3. SeenKept(C)'
    <3>1. \A cid \in ListOf(n, phase) \ todo : ~Doomed(cid) => cid \in (ListOf(n, phase) \ todo)'
      BY <1>1, <1>2, <1>5, <1>8 DEF ListOf
    <3> QED
      BY <1>1, <1>2, <1>6, <1>8, <2>1, <3>1, SeenKeptStays
  <2>4. \A D \in ComplexCons : SameCons(C, D) => \A o \in d_points_to : Solved(D, o)'
    BY <1>2, <1>6, <2>1, ForwardSolved DEF Unmerged
  <2> QED
    BY <2>1, <2>2, <2>3, <2>4
<1>15. /\ \A x \in Node : Queued(x) => Queued(x)'
       /\ chg => \A x \in Node : x = lsc.C.dest => Queued(x)'
  <2>1. PICK y \in Node : y = lsc.C.dest
    BY <1>2
  <2>2. PICK b \in BOOLEAN : b = chg
    BY <1>2
  <2>3. next' = PushIf(b, next, y, g)
    BY <1>1, <2>1, <2>2
  <2>4. /\ \A x \in Node : Queued(x) => Queued(x)'
        /\ b => Queued(y)'
    BY <1>1, <1>2, <1>5, <2>1, <2>3, Pushed
  <2> QED
    BY <2>1, <2>2, <2>4
<1>16. CallMember'
  BY <1>1 DEF CallMember
<1>17. /\ pc \in {"cons", "member"} /\ pc' \in {"cons", "member"}
       /\ \A x \in Node : g'.cons[x] \subseteq g.cons[x]
       /\ UNCHANGED <<frames, n, d_points_to, hcd_rep>>
       /\ \A m \in ext_seen' : m \in ext_seen \/ EffectHolds(m)'
       /\ \A x \in Node : g'.points_to[x] # g.points_to[x] =>
            Queued(x)' \/ (pc' = "member" /\ chg' /\ lsc'.C.dest = x)
  BY <1>1, <1>5
<1>18. \A C \in ComplexCons : Listed(C) => Listed(C)' \/ Gone(C)'
  BY <1>10
<1>19. \A C \in ComplexCons : \A o \in d_points_to : Pending(C, o) => Pending(C, o)' \/ Solved(C, o)'
  BY <1>12
<1>20. \A call \in sys.icall : \A o \in d_points_to \cap ExtNode :
         g.rep[Base(call[1])] = n /\
         (Waiting(call) \/ (pc = "member" /\ <<o, call[2]>> \in members)) =>
           \/ EffectHolds(<<o, call[2]>>)'
           \/ Waiting(call)' \/ (pc = "member" /\ <<o, call[2]>> \in members)'
  BY <1>1, <1>13
<1> QED
  BY <1>6, <1>14, <1>15, <1>16, <1>17, <1>18, <1>19, <1>20, SweepStep

-----------------------------------------------------------------------------
(* Starting a constraint *)

(* The constraint solve_node comes to next.                                *)
LEMMA NextCons ==
  ASSUME IInv, ConsInv, pc = "cons", todo # {}, NEW cid, cid = Min(todo)
  PROVE  /\ cid \in todo /\ cid \in g.cons[n] /\ cid \in DOMAIN cplx_cons /\ cid \in Nat
         /\ n \in Node /\ cplx_cons[cid].type = phase
         /\ cplx_cons[cid] \in Constraint /\ Updated(cplx_cons[cid]) \in Constraint
         /\ is_rep(g, Updated(cplx_cons[cid]).dest) /\ is_rep(g, Updated(cplx_cons[cid]).src)
         /\ Updated(cplx_cons[cid]).dest \in Node /\ Updated(cplx_cons[cid]).src \in Node
         /\ Updated(cplx_cons[cid]).type = phase
         /\ g.rep[Base(cplx_cons[cid])] = n
         /\ SameCons(cplx_cons[cid], sys.cons[cid]) /\ SameCons(Updated(cplx_cons[cid]), sys.cons[cid])
         /\ FactsHold => sys.cons[cid] \in ComplexCons
<1>1. todo \in SUBSET Nat /\ n \in Node
  BY DEF IInv, VisitInv, VisitType
<1>2. cid \in todo
  BY <1>1, MinMember
<1>3. cid \in g.cons[n] /\ cplx_cons[cid].type = phase
  BY <1>2 DEF ConsInv, SweepInv, Sweeping
<1>4. /\ cid \in DOMAIN cplx_cons /\ cid \in Nat
      /\ cplx_cons[cid] \in Constraint
      /\ SameCons(cplx_cons[cid], sys.cons[cid])
      /\ g.rep[Base(cplx_cons[cid])] = n
      /\ FactsHold => sys.cons[cid] \in ComplexCons
  BY <1>1, <1>3, PendingTyped
<1>5. /\ Updated(cplx_cons[cid]) \in Constraint
      /\ is_rep(g, Updated(cplx_cons[cid]).dest) /\ is_rep(g, Updated(cplx_cons[cid]).src)
      /\ Updated(cplx_cons[cid]).type = cplx_cons[cid].type
  BY <1>4, UpdatedCons, SMTT(30) DEF IInv
<1>6. SameCons(Updated(cplx_cons[cid]), sys.cons[cid])
  BY <1>4, <1>5, LcdTypes DEF SameCons, Updated, get_node_rep, Constraint
<1> QED
  BY <1>1, <1>2, <1>3, <1>4, <1>5, <1>6 DEF Constraint

(* The next constraint is rewritten and gone over: what is still to be     *)
(* shown of it, and of the call instructions that come with it.            *)
LEMMA ConsStep ==
  ASSUME IInv, ConsInv, SoundInv, pc = "cons", pc' \in {"cons", "member"}, todo # {},
         NEW cid, cid = Min(todo), NEW C \in Constraint, C = Updated(cplx_cons[cid]),
         Unmerged, cplx_cons' = [cplx_cons EXCEPT ![cid] = C],
         todo' = todo \ {cid}, cons_seen' = cons_seen \cup {C},
         UNCHANGED <<frames, n, d_points_to, hcd_rep, phase, ext_seen>>,
         \A x \in Node : g'.cons[x] \subseteq g.cons[x],
         \A x \in Node : \A id \in g.cons[x] : id # cid => id \in g'.cons[x] /\ ~Doomed(id)',
         \A x \in Node : Queued(x) => Queued(x)',
         \A x \in Node : g'.points_to[x] # g.points_to[x] => Queued(x)',
         C \in cons_seen \/ SeenKept(C)',
         \A D \in ComplexCons : SameCons(C, D) => Listed(D)' \/ Gone(D)',
         \A D \in ComplexCons : SameCons(C, D) => \A o \in d_points_to :
           \/ Solved(D, o)'
           \/ pc' = "member" /\ ~lsc'.del /\ C = lsc'.C /\ <<o, NoSite>> \in members',
         \A call \in sys.icall : \A id \in g.cons[n] : \A o \in d_points_to \cap ExtNode :
           Ahead(id) /\ <<cplx_cons[id], call[2]>> \in icall_cons
             /\ SameCons(cplx_cons[id], call[1]) =>
               \/ id # cid /\ <<cplx_cons[id], call[2]>> \in icall_cons'
               \/ pc' = "member" /\ <<o, call[2]>> \in members',
         CallMember'
  PROVE  SoundInv'
<1>1. /\ FactsHold /\ SeenMet /\ g \in Graph /\ n \in Node /\ d_points_to \subseteq Node
      /\ cons_seen \subseteq Constraint /\ sys' = sys /\ Forward /\ g'.rep = g.rep
  BY DEF SoundInv, IInv, GraphInv, GraphType, VisitInv, VisitType, Unmerged, Forward
<1>2. /\ cid \in todo /\ cid \in g.cons[n] /\ cid \in DOMAIN cplx_cons
      /\ cplx_cons[cid].type = phase /\ C.type = phase /\ g.rep[Base(cplx_cons[cid])] = n
      /\ SameCons(cplx_cons[cid], sys.cons[cid]) /\ SameCons(C, sys.cons[cid])
      /\ is_rep(g, C.dest) /\ is_rep(g, C.src) /\ C.dest \in Node /\ C.src \in Node
  BY NextCons
<1>3. \A A, D : SameCons(A, D)' <=> SameCons(A, D)
  BY <1>1, SMTT(30) DEF SameCons
<1>4. \A D : SameCons(cplx_cons[cid], D) <=> SameCons(C, D)
  BY <1>2 DEF SameCons
<1>5. \A id \in DOMAIN cplx_cons : /\ cplx_cons'[id] = IF id = cid THEN C ELSE cplx_cons[id]
                                   /\ cplx_cons'[id].type = cplx_cons[id].type
  BY <1>2
<1>6. \A x \in Node : g.cons[x] \subseteq DOMAIN cplx_cons
  BY DEF IInv, GraphInv
<1>7. \A id \in DOMAIN cplx_cons : \A D : SameCons(cplx_cons[id], D)' <=> SameCons(cplx_cons[id], D)
  BY <1>1, <1>4, <1>5 DEF SameCons
<1>8. \A id \in g.cons[n] : Ahead(id) /\ id # cid => Ahead(id)' /\ id \in g'.cons[n]
  BY <1>1, <1>5, <1>6 DEF Ahead, Sweeping
<1>9. \A A : Updated(A)' = Updated(A)
  BY <1>1 DEF Updated, get_node_rep
<1>10. ASSUME NEW D \in ComplexCons, Listed(D)
       PROVE  Listed(D)' \/ Gone(D)'
  <2>1. PICK id \in g.cons[g.rep[Base(D)]] : SameCons(cplx_cons[id], D)
    BY <1>10 DEF Listed
  <2>2. g.rep[Base(D)] \in Node
    BY ComplexTyped
  <2>3. CASE id = cid
    BY <1>4, <2>1, <2>3
  <2>4. CASE id # cid
    <3>1. id \in g'.cons[g'.rep[Base(D)]] /\ ~Doomed(id)'
      BY <1>1, <2>1, <2>2, <2>4
    <3>2. SameCons(cplx_cons[id], D)'
      BY <1>6, <1>7, <2>1, <2>2
    <3> QED
      BY <3>1, <3>2 DEF Listed
  <2> QED
    BY <2>3, <2>4
<1>11. ASSUME NEW D \in ComplexCons, NEW o \in d_points_to, Pending(D, o)
       PROVE  Pending(D, o)' \/ Solved(D, o)'
  <2>1. n' = g'.rep[Base(D)] /\ Visiting' /\ o \in d_points_to'
    BY <1>1, <1>11 DEF Pending, Visiting, Sweeping
  <2>2. PICK id \in g.cons[n] : Ahead(id) /\ SameCons(cplx_cons[id], D)
    BY <1>11 DEF Pending
  <2>3. CASE id # cid
    <3>1. Ahead(id)' /\ id \in g'.cons[n] /\ SameCons(cplx_cons[id], D)'
      BY <1>1, <1>6, <1>7, <1>8, <2>2, <2>3
    <3> QED
      BY <2>1, <3>1 DEF Pending
  <2>4. CASE id = cid
    <3>1. SameCons(C, D)
      BY <1>4, <2>2, <2>4
    <3>2. CASE pc' = "member" /\ ~lsc'.del /\ C = lsc'.C /\ <<o, NoSite>> \in members'
      BY <1>3, <2>1, <3>1, <3>2 DEF Pending
    <3> QED
      BY <3>1, <3>2
  <2> QED
    BY <2>3, <2>4
<1>12. ASSUME NEW call \in sys.icall, NEW o \in d_points_to \cap ExtNode, Waiting(call)
       PROVE  Waiting(call)' \/ (pc' = "member" /\ <<o, call[2]>> \in members')
  <2>1. PICK id \in g.cons[n] : /\ Ahead(id) /\ <<cplx_cons[id], call[2]>> \in icall_cons
                                /\ SameCons(cplx_cons[id], call[1])
    BY <1>12 DEF Waiting
  <2>2. CASE id # cid /\ <<cplx_cons[id], call[2]>> \in icall_cons'
    <3>1. /\ Ahead(id)' /\ id \in g'.cons[n] /\ SameCons(cplx_cons[id], call[1])'
          /\ cplx_cons'[id] = cplx_cons[id]
      BY <1>1, <1>5, <1>6, <1>7, <1>8, <2>1, <2>2
    <3> QED
      BY <2>2, <3>1 DEF Waiting
  <2> QED
    BY <2>1, <2>2
<1>13. SeenMet'
  <2> SUFFICES ASSUME NEW A \in cons_seen \cup {C}
               PROVE  /\ A.type = phase /\ A = Updated(A) /\ SeenKept(A)'
                      /\ \A D \in ComplexCons : SameCons(A, D) =>
                           \A o \in d_points_to :
                             \/ Solved(D, o)'
                             \/ pc' = "member" /\ ~lsc'.del /\ A = lsc'.C /\ <<o, NoSite>> \in members'
    <3>1. ComplexCons' = ComplexCons
      BY <1>1 DEF ComplexCons, Complex
    <3> QED
      BY <1>3, <1>9, <3>1 DEF SeenMet
  <2>1. CASE A \in cons_seen
    <3>1. /\ A.type = phase /\ A = Updated(A) /\ SeenKept(A) /\ A \in Constraint
          /\ \A D \in ComplexCons : SameCons(A, D) => \A o \in d_points_to : Solved(D, o)
      BY <1>1, <2>1 DEF SeenMet, Sweeping
    <3>2. SeenKept(A)'
      <4>1. \A id \in ListOf(n, phase) \ todo :
              id # cid /\ id \in (ListOf(n, phase) \ todo)' /\ cplx_cons'[id] = cplx_cons[id] /\ ~Doomed(id)'
        BY <1>1, <1>2, <1>5, <1>6 DEF ListOf
      <4> QED
        BY <1>1, <3>1, <4>1, SeenKeptStays
    <3>3. \A D \in ComplexCons : SameCons(A, D) => \A o \in d_points_to : Solved(D, o)'
      BY <1>1, <3>1, ForwardSolved
    <3> QED
      BY <3>1, <3>2, <3>3
  <2>2. CASE A \notin cons_seen
    <3>1. A = C
      BY <2>2
    <3>2. A = Updated(A)
      BY <1>2, <3>1 DEF Updated, get_node_rep, is_rep, Constraint
    <3> QED
      BY <1>2, <2>2, <3>1, <3>2
  <2> QED
    BY <2>1, <2>2
<1>14. /\ pc \in {"cons", "member"} /\ ~(pc = "member" /\ chg)
       /\ UNCHANGED <<frames, n, d_points_to, hcd_rep>>
       /\ \A m \in ext_seen' : m \in ext_seen \/ EffectHolds(m)'
       /\ \A x \in Node : g'.points_to[x] # g.points_to[x] =>
            Queued(x)' \/ (pc' = "member" /\ chg' /\ lsc'.C.dest = x)
  OBVIOUS
<1>15. \A D \in ComplexCons : Listed(D) => Listed(D)' \/ Gone(D)'
  BY <1>10
<1>16. \A D \in ComplexCons : \A o \in d_points_to : Pending(D, o) => Pending(D, o)' \/ Solved(D, o)'
  BY <1>11
<1>17. \A call \in sys.icall : \A o \in d_points_to \cap ExtNode :
         g.rep[Base(call[1])] = n /\
         (Waiting(call) \/ (pc = "member" /\ <<o, call[2]>> \in members)) =>
           \/ EffectHolds(<<o, call[2]>>)'
           \/ Waiting(call)' \/ (pc = "member" /\ <<o, call[2]>> \in members)'
  BY <1>12
<1> QED
  BY <1>13, <1>14, <1>15, <1>16, <1>17, SweepStep

(* A constraint met before was met for all the pointees, and is kept.      *)
LEMMA SeenBefore ==
  ASSUME IInv, ConsInv, SoundInv, pc = "cons", todo # {},
         NEW cid, cid = Min(todo), NEW C \in Constraint, C = Updated(cplx_cons[cid]),
         Unmerged, cplx_cons' = [cplx_cons EXCEPT ![cid] = C], C \in cons_seen,
         \A x \in Node : \A id \in g.cons[x] : id # cid => id \in g'.cons[x] /\ ~Doomed(id)',
         NEW D \in ComplexCons, SameCons(C, D), pc' \in {"cons", "member"}
  PROVE  /\ \A o \in d_points_to : Solved(D, o)'
         /\ Listed(D)' \/ (phase # "gep" /\ C.off = 0 /\ hcd_rep # 0 /\ Linked(C, hcd_rep))
<1>1. /\ SeenMet /\ n \in Node /\ d_points_to \subseteq Node /\ g'.rep = g.rep /\ Forward
      /\ hcd_rep \in Node
  BY DEF SoundInv, IInv, VisitInv, VisitType, Unmerged
<1>2. /\ SeenKept(C) /\ \A o \in d_points_to : Solved(D, o)
  BY <1>1 DEF SeenMet, Sweeping
<1>3. \A o \in d_points_to : Solved(D, o)'
  BY <1>1, <1>2, ForwardSolved
<1>4. cid \in todo /\ cid \in DOMAIN cplx_cons /\ g.rep[Base(cplx_cons[cid])] = n
  BY NextCons
<1>5. ASSUME NEW id \in ListOf(n, phase) \ todo, cplx_cons[id] = C
      PROVE  Listed(D)'
  <2>1. /\ id \in g.cons[n] /\ id # cid /\ id \in DOMAIN cplx_cons /\ g.rep[Base(C)] = n
    BY <1>1, <1>4, <1>5 DEF ListOf, IInv, GraphInv, ListsCurrent
  <2>2. cplx_cons'[id] = C /\ id \in g'.cons[n] /\ ~Doomed(id)'
    BY <1>1, <1>5, <2>1
  <2>3. g'.rep[Base(D)] = n /\ SameCons(C, D)'
    BY <1>1, <2>1 DEF SameCons, Base
  <2> QED
    BY <2>2, <2>3 DEF Listed
<1> QED
  BY <1>2, <1>3, <1>5 DEF SeenKept

LEMMA GepConsSound ==
  ASSUME IInv, ConsInv, SoundInv, GepCons, pc' # "abort"
  PROVE  SoundInv'
<1>1. PICK cid, C : cid = Min(todo) /\ C = Updated(cplx_cons[cid])
  OBVIOUS
<1> DEFINE dup == C \in cons_seen
           h == IF dup THEN [g EXCEPT !.cons[n] = @ \ {cid}]
                       ELSE AddPointees(g, C.dest, Shift(d_points_to, C.off))
<1>2. /\ pc = "cons" /\ pc' = "cons" /\ phase = "gep" /\ todo # {}
      /\ todo' = todo \ {cid} /\ cplx_cons' = [cplx_cons EXCEPT ![cid] = C]
      /\ cons_seen' = cons_seen \cup {C}
      /\ g' = h /\ next' = PushIf(Grew(g, g', C.dest), next, C.dest, g)
      /\ UNCHANGED <<sys, icall_cons, ext_seen, curr, n, d_points_to, hcd_rep, phase, lsc,
                     members, chg, frames>>
  BY <1>1 DEF GepCons, lcdVars
<1> HIDE DEF h
<1>3. /\ cid \in todo /\ cid \in g.cons[n] /\ cid \in DOMAIN cplx_cons /\ n \in Node
      /\ C \in Constraint /\ C.type = "gep" /\ is_rep(g, C.dest) /\ C.dest \in Node
      /\ g.rep[Base(cplx_cons[cid])] = n /\ cplx_cons[cid].type = "gep"
  BY <1>1, <1>2, NextCons
<1>4. /\ g \in Graph /\ d_points_to \in SUBSET Node /\ C.off \in Nat /\ FactsHold
  BY <1>2, <1>3 DEF IInv, GraphInv, GraphType, VisitInv, VisitType, Constraint, SoundInv
<1>5. g' \in Graph /\ Grown(g, g')
  BY GepConsInv DEF IInv, GraphInv, GraphType
<1>6. /\ Unmerged
      /\ \A x \in Node : x # C.dest => g'.points_to[x] = g.points_to[x]
      /\ ~dup => Shift(d_points_to, C.off) \subseteq g'.points_to[C.dest]
  <2>1. CASE dup
    <3>1. /\ g'.rep = g.rep /\ g'.hcd_var = g.hcd_var /\ g'.prev_points_to = g.prev_points_to
          /\ g'.vtime = g.vtime /\ g'.points_to = g.points_to /\ g'.copy_to = g.copy_to
      BY <1>2, <1>4, <2>1 DEF Graph, h
    <3> QED
      BY <1>2, <1>5, <2>1, <3>1, SameUnmerged
  <2>2. CASE ~dup
    <3>1. g' = AddPointees(g, C.dest, Shift(d_points_to, C.off))
      BY <1>2, <2>2 DEF h
    <3>2. Shift(d_points_to, C.off) \in SUBSET Node
      BY <1>4, ShiftNodes
    <3> QED
      BY <1>2, <1>3, <1>5, <3>1, <3>2, PointeesAdded
  <2> QED
    BY <2>1, <2>2
<1>7. \A x \in Node : g'.cons[x] = IF dup /\ x = n THEN g.cons[x] \ {cid} ELSE g.cons[x]
  BY <1>2, <1>4 DEF Graph, h, AddPointees
<1>8. /\ \A x \in Node : Queued(x) => Queued(x)'
      /\ \A x \in Node : g'.points_to[x] # g.points_to[x] => Queued(x)'
  BY <1>2, <1>3, <1>6, GrownQueued DEF Unmerged
<1>9. \A id : ~Doomed(id)'
  BY <1>2 DEF Doomed
<1>10. \A x \in Node : \A id \in g.cons[x] : id # cid => id \in g'.cons[x] /\ ~Doomed(id)'
  BY <1>7, <1>9
<1>11. ASSUME ~dup
       PROVE  /\ SeenKept(C)'
              /\ \A D \in ComplexCons : SameCons(C, D) =>
                   Listed(D)' /\ \A o \in d_points_to : Solved(D, o)'
  <2>1. cid \in (ListOf(n, phase) \ todo)' /\ cplx_cons'[cid] = C /\ cid \in g'.cons[n] /\ g'.rep = g.rep
    BY <1>2, <1>3, <1>6, <1>7, <1>11 DEF ListOf, Unmerged
  <2>2. SeenKept(C)'
    BY <1>9, <2>1 DEF SeenKept
  <2>3. ASSUME NEW D \in ComplexCons, SameCons(C, D)
        PROVE  Listed(D)' /\ \A o \in d_points_to : Solved(D, o)'
    <3>1. /\ D.type = "gep" /\ D.off = C.off /\ g.rep[D.dest] = C.dest /\ g'.rep[Base(D)] = n
          /\ SameCons(C, D)'
      <4>1. g.rep[Base(D)] = g.rep[Base(C)]
        BY <2>3 DEF SameCons, Base
      <4>2. g.rep[Base(C)] = n
        BY <1>1, <1>3, UpdatedCons DEF IInv
      <4> QED
        BY <1>3, <2>1, <2>3, <4>1, <4>2 DEF SameCons, is_rep
    <3>2. Listed(D)'
      BY <1>9, <2>1, <3>1 DEF Listed
    <3>3. ASSUME NEW o \in d_points_to
          PROVE  Solved(D, o)'
      <4>1. Shift({o}, C.off) \subseteq Shift(d_points_to, C.off)
        BY DEF Shift, Fits
      <4> QED
        BY <1>6, <1>11, <2>1, <3>1, <4>1 DEF Solved
    <3> QED
      BY <3>2, <3>3
  <2> QED
    BY <2>2, <2>3
<1>12. ASSUME dup, NEW D \in ComplexCons, SameCons(C, D)
       PROVE  Listed(D)' /\ \A o \in d_points_to : Solved(D, o)'
  BY <1>1, <1>2, <1>3, <1>6, <1>10, <1>12, SeenBefore
<1>13. ASSUME NEW call \in sys.icall, NEW id \in g.cons[n], Ahead(id),
              SameCons(cplx_cons[id], call[1])
       PROVE  FALSE
  <2>1. cplx_cons[id].type = "gep"
    BY <1>2, <1>13 DEF Ahead, Sweeping, ConsInv, SweepInv
  <2>2. call[1].type \in {"load", "store"}
    BY DEF ConsInv, WellFormed
  <2> QED
    BY <1>13, <2>1, <2>2 DEF SameCons
<1>14. CallMember'
  BY <1>2 DEF CallMember
<1>15. \A x \in Node : g'.cons[x] \subseteq g.cons[x]
  BY <1>7
<1>16. /\ C \in cons_seen \/ SeenKept(C)'
       /\ \A D \in ComplexCons : SameCons(C, D) => Listed(D)' \/ Gone(D)'
       /\ \A D \in ComplexCons : SameCons(C, D) => \A o \in d_points_to :
            \/ Solved(D, o)'
            \/ pc' = "member" /\ ~lsc'.del /\ C = lsc'.C /\ <<o, NoSite>> \in members'
  BY <1>11, <1>12
<1>17. \A call \in sys.icall : \A id \in g.cons[n] : \A o \in d_points_to \cap ExtNode :
           Ahead(id) /\ <<cplx_cons[id], call[2]>> \in icall_cons
             /\ SameCons(cplx_cons[id], call[1]) =>
               \/ id # cid /\ <<cplx_cons[id], call[2]>> \in icall_cons'
               \/ pc' = "member" /\ <<o, call[2]>> \in members'
  BY <1>13
<1> QED
  BY <1>1, <1>2, <1>3, <1>6, <1>8, <1>10, <1>14, <1>15, <1>16, <1>17, ConsStep

(* Call instructions of the load or store solve_node comes to next.        *)
LEMMA LsSites ==
  ASSUME IInv, ConsInv, FactsHold, pc = "cons", phase # "gep", todo # {}, 
         NEW cid, cid = Min(todo), NEW C0, C0 = cplx_cons[cid], NEW C, C = Updated(C0),
         NEW I, I = IF CallSites(C0) = {} THEN {} ELSE SitesOf(MovedCalls(C0), C)
  PROVE  /\ I \subseteq Site
         /\ \A D, s : <<D, s>> \in icall_cons =>
              IF D = C0 THEN s \in I ELSE <<D, s>> \in MovedCalls(C0)
         /\ \A s \in I : \E call \in sys.icall :
              call[1] \in ComplexCons /\ SameCons(C, call[1]) /\ IsCall(sys, call[1])
         /\ I = {} => ~IsCall(sys, sys.cons[cid]) \/ C \in cons_seen
<1>1. /\ cid \in g.cons[n] /\ cid \in DOMAIN cplx_cons /\ C0 \in Constraint /\ C \in Constraint
      /\ g.rep[Base(C0)] = n /\ n \in Node
      /\ is_rep(g, C.dest) /\ is_rep(g, C.src)
  BY NextCons
<1>2. icall_cons \in SUBSET (Constraint \X Site) /\ sys \in System /\ g \in Graph
  BY DEF IInv, GraphInv, GraphType
<1>3. \A D \in Constraint : SameCons(C0, D) => SameCons(C, D)
  BY <1>1, <1>2 DEF SameCons, Updated, get_node_rep, is_rep, Constraint
<1>4. \A e \in icall_cons : \E call \in sys.icall : call[2] = e[2] /\ SameCons(e[1], call[1])
  BY DEF ConsInv, ConsSame
<1>5. \A call \in sys.icall :
        /\ call[1] \in Constraint /\ call[2] \in Site /\ call[1] \in ComplexCons
        /\ IsCall(sys, call[1])
  <2> SUFFICES ASSUME NEW call \in sys.icall
               PROVE  /\ call[1] \in Constraint /\ call[2] \in Site /\ call[1] \in ComplexCons
                      /\ IsCall(sys, call[1])
    OBVIOUS
  <2>1. call \in Constraint \X Site
    BY <1>2 DEF System
  <2>2. call[1] \in Range(sys.cons) /\ call[1].type \in {"load", "store"}
    BY DEF ConsInv, WellFormed
  <2>3. PICK id \in DOMAIN sys.cons : call[1] = sys.cons[id]
    BY <2>2 DEF Range
  <2>4. id \in Complex(sys)
    BY <2>2, <2>3 DEF Complex
  <2>5. call = <<call[1], call[2]>>
    BY <2>1
  <2> QED
    BY <2>1, <2>3, <2>4, <2>5 DEF ComplexCons, IsCall
<1>6. n \in g.ind_calls \/ SitesOf(icall_cons, C0) = {}
  <2>1. ASSUME NEW s \in SitesOf(icall_cons, C0)
        PROVE  n \in g.ind_calls
    <3>1. PICK call \in sys.icall : SameCons(C0, call[1])
      BY <1>4, <2>1 DEF SitesOf
    <3>2. g.rep[Base(call[1])] = n
      BY <1>1, <3>1 DEF SameCons, Base
    <3> QED
      BY <3>2 DEF ConsInv, CallsInv
  <2> QED
    BY <2>1
<1>7. /\ \A e \in MovedCalls(C0) :
           \/ e \in icall_cons
           \/ \E f \in icall_cons : f[1] = C0 /\ f[2] = e[2] /\ e[1] = C
      /\ \A D, s : <<D, s>> \in icall_cons =>
           IF D = C0 THEN <<C, s>> \in MovedCalls(C0) /\ CallSites(C0) # {}
                     ELSE <<D, s>> \in MovedCalls(C0)
  BY <1>1, <1>6, MovedSites
<1>8. I \subseteq Site
  BY DEF SitesOf
<1>9. ASSUME NEW s, <<C0, s>> \in icall_cons
      PROVE  s \in I
  BY <1>2, <1>7, <1>9 DEF SitesOf
<1>10. ASSUME NEW s \in I
       PROVE  \E call \in sys.icall :
                call[1] \in ComplexCons /\ SameCons(C, call[1]) /\ IsCall(sys, call[1])
  <2>1. <<C, s>> \in MovedCalls(C0)
    BY DEF SitesOf
  <2>2. \E e \in icall_cons : e[1] = C \/ e[1] = C0
    BY <1>7, <2>1
  <2> QED
    BY <1>3, <1>4, <1>5, <2>2
<1>11. ASSUME IsCall(sys, sys.cons[cid]), C \notin cons_seen
       PROVE  I # {}
  <2>1. SitesOf(icall_cons, C0) # {}
    BY <1>1, <1>11 DEF ConsInv, CallsInv, HasSites, Doomed
  <2> QED
    BY <1>9, <2>1 DEF SitesOf
<1> QED
  BY <1>7, <1>8, <1>9, <1>10, <1>11

(* What is linked stays so when its ends are replaced by equal nodes.      *)
LEMMA LinkedSame ==
  ASSUME IInv, FactsHold, NEW C \in Constraint, NEW D \in Constraint, SameCons(C, D),
         g'.rep = g.rep, NEW w \in Node
  PROVE  Linked(C, w)' => Linked(D, w)'
<1>1. C.dest \in Node /\ C.src \in Node /\ D.dest \in Node /\ D.src \in Node
  BY DEF Constraint
<1>2. \A x \in Node : g.rep[x] = i2p <=> x = i2p
  BY NodeAssumption DEF FactsHold
<1> QED
  BY <1>1, <1>2 DEF Linked, HasEdge, SameCons

(* One edge to or from the HCD variable stands for the constraint.         *)
LEMMA GoneBy ==
  ASSUME IInv, FactsHold, HcdMet, pc = "cons", pc' \in {"cons", "member"},
         Unmerged, hcd_rep' = hcd_rep, is_rep(g, n), hcd_rep # 0,
         NEW C \in Constraint, C.off = 0, C.type \in {"load", "store"}, Linked(C, hcd_rep)',
         g.rep[Base(C)] = n,
         NEW D \in ComplexCons, SameCons(C, D)
  PROVE  Gone(D)'
<1>1. D \in Constraint /\ D.type \in {"load", "store"} /\ D.off = 0 /\ g.rep[Base(D)] = n
  BY ComplexTyped DEF SameCons, Base
<1>2. g.hcd_var[n] # 0 /\ g.rep[g.hcd_var[n]] = g.rep[hcd_rep] /\ hcd_rep \in Node
  BY DEF HcdMet, HcdOf, Visiting, Sweeping, Merging, Same, IInv, VisitInv, VisitType
<1>3. g'.rep = g.rep /\ g'.hcd_var = g.hcd_var
  BY DEF Unmerged
<1>4. \A w \in Node : w = hcd_rep => Linked(D, w)'
  <2>1. \A w \in Node : w = hcd_rep => Linked(C, w)'
    BY DEF Linked
  <2>2. \A w \in Node : Linked(C, w)' => Linked(D, w)'
    BY <1>1, <1>3, LinkedSame
  <2> QED
    BY <2>1, <2>2
<1> QED
  BY <1>1, <1>2, <1>3, <1>4 DEF Gone, Same

LEMMA LsConsDup ==
  ASSUME IInv, ConsInv, SoundInv, LsCons, pc' # "abort",
         Updated(cplx_cons[Min(todo)]) \in cons_seen
  PROVE  SoundInv'
<1>1. PICK cid, C0, C, ic, I :
        /\ cid = Min(todo) /\ C0 = cplx_cons[cid] /\ C = Updated(C0) /\ ic = MovedCalls(C0)
        /\ I = IF CallSites(C0) = {} THEN {} ELSE SitesOf(ic, C)
  OBVIOUS
<1>2. /\ pc = "cons" /\ pc' = "member" /\ phase \in {"load", "store"} /\ todo # {}
      /\ todo' = todo \ {cid} /\ cplx_cons' = [cplx_cons EXCEPT ![cid] = C]
      /\ icall_cons' = ic /\ cons_seen' = cons_seen \cup {C} /\ C \in cons_seen
      /\ UNCHANGED <<sys, g, ext_seen, curr, next, n, d_points_to, hcd_rep, phase, frames>>
      /\ lsc' = [C |-> C, cid |-> cid, I |-> I, del |-> TRUE]
      /\ members' = (d_points_to \cap ExtNode) \X I
  BY <1>1 DEF LsCons, lcdVars
<1>3. /\ cid \in g.cons[n] /\ n \in Node /\ C \in Constraint /\ C.type = phase
      /\ g.rep[Base(C0)] = n /\ C0 \in Constraint
  BY <1>1, <1>2, NextCons
<1>4. /\ FactsHold /\ HcdMet /\ hcd_rep \in Node /\ is_rep(g, n)
  BY <1>2, <1>3, LcdTypes DEF SoundInv, IInv, VisitInv, VisitType, is_rep, Base, Constraint
<1>5. Unmerged
  BY <1>2, LsConsInv, SameUnmerged DEF IInv, GraphInv, GraphType
<1>6. /\ \A id : id # cid => ~Doomed(id)'
  BY <1>2 DEF Doomed
<1>7. \A x \in Node : \A id \in g.cons[x] : id # cid => id \in g'.cons[x] /\ ~Doomed(id)'
  BY <1>2, <1>6
<1>8. Linked(C, hcd_rep) => Linked(C, hcd_rep)'
  BY <1>2 DEF Linked, HasEdge
<1>9. ASSUME NEW D \in ComplexCons, SameCons(C, D)
      PROVE  (Listed(D)' \/ Gone(D)') /\ \A o \in d_points_to : Solved(D, o)'
  <2>1. /\ \A o \in d_points_to : Solved(D, o)'
        /\ Listed(D)' \/ (C.off = 0 /\ hcd_rep # 0 /\ Linked(C, hcd_rep))
    BY <1>1, <1>2, <1>3, <1>5, <1>7, <1>9, SeenBefore
  <2>2. C.off = 0 /\ hcd_rep # 0 /\ Linked(C, hcd_rep)' => Gone(D)'
    <3>1. g.rep[Base(C)] = n
      BY <1>1, <1>3, LcdTypes DEF Updated, Base, get_node_rep, Constraint
    <3> QED
      BY <1>2, <1>3, <1>4, <1>5, <1>9, <3>1, GoneBy
  <2> QED
    BY <1>8, <2>1, <2>2
<1>10. \A D, s : <<D, s>> \in icall_cons => IF D = C0 THEN s \in I ELSE <<D, s>> \in icall_cons'
  BY <1>1, <1>2, <1>4, LsSites
<1>11. \A call \in sys.icall : \A id \in g.cons[n] : \A o \in d_points_to \cap ExtNode :
           Ahead(id) /\ <<cplx_cons[id], call[2]>> \in icall_cons
             /\ SameCons(cplx_cons[id], call[1]) =>
               \/ id # cid /\ <<cplx_cons[id], call[2]>> \in icall_cons'
               \/ pc' = "member" /\ <<o, call[2]>> \in members'
  BY <1>1, <1>2, <1>10
<1>12. /\ \A x \in Node : Queued(x) => Queued(x)'
       /\ \A x \in Node : g'.points_to[x] # g.points_to[x] => Queued(x)'
       /\ \A x \in Node : g'.cons[x] \subseteq g.cons[x]
  BY <1>2, QueuedSame
<1>13. CallMember'
  BY <1>2 DEF CallMember
<1>14. /\ \A D \in ComplexCons : SameCons(C, D) => Listed(D)' \/ Gone(D)'
       /\ \A D \in ComplexCons : SameCons(C, D) => \A o \in d_points_to :
           \/ Solved(D, o)'
           \/ pc' = "member" /\ ~lsc'.del /\ C = lsc'.C /\ <<o, NoSite>> \in members'
  BY <1>9
<1> QED
  BY <1>1, <1>2, <1>3, <1>5, <1>7, <1>11, <1>12, <1>13, <1>14, ConsStep, ZenonT(60)

LEMMA LsConsHcd ==
  ASSUME IInv, ConsInv, SoundInv, LsCons, pc' # "abort",
         Updated(cplx_cons[Min(todo)]) \notin cons_seen,
         hcd_rep # 0, Updated(cplx_cons[Min(todo)]).off = 0
  PROVE  SoundInv'
<1>1. PICK cid, C0, C, ic, I :
        /\ cid = Min(todo) /\ C0 = cplx_cons[cid] /\ C = Updated(C0) /\ ic = MovedCalls(C0)
        /\ I = IF CallSites(C0) = {} THEN {} ELSE SitesOf(ic, C)
  OBVIOUS
<1>2. PICK s, d : IF C.type = "load" THEN s = hcd_rep /\ d = C.dest
                                     ELSE s = C.src /\ d = hcd_rep
  OBVIOUS
<1> DEFINE h == add_copy_edge(g, s, d)
<1>3. /\ pc = "cons" /\ pc' = "cons" /\ phase \in {"load", "store"} /\ todo # {}
      /\ todo' = todo \ {cid} /\ cplx_cons' = [cplx_cons EXCEPT ![cid] = C]
      /\ icall_cons' = ic /\ cons_seen' = cons_seen \cup {C}
      /\ UNCHANGED <<sys, ext_seen, curr, n, d_points_to, hcd_rep, phase, frames>>
      /\ LsOK(C0, C, I, C \in cons_seen) /\ C.off = 0
      /\ g' = [h EXCEPT !.cons[n] = @ \ {cid}]
      /\ next' = PushIf(Grew(g, h, d), next, d, g)
  BY <1>1, <1>2 DEF LsCons, lcdVars
<1>4. /\ cid \in g.cons[n] /\ n \in Node /\ C \in Constraint /\ C.type = phase
      /\ g.rep[Base(C0)] = n /\ C0 \in Constraint /\ cid \in todo
      /\ is_rep(g, C.dest) /\ is_rep(g, C.src) /\ C.dest \in Node /\ C.src \in Node
  BY <1>1, <1>3, NextCons
<1>5. /\ FactsHold /\ HcdMet /\ hcd_rep \in Node /\ is_rep(g, n) /\ is_rep(g, hcd_rep)
      /\ g \in Graph /\ d_points_to \subseteq Node
  BY <1>3, <1>4, LcdTypes
     DEF SoundInv, IInv, VisitInv, VisitType, is_rep, Base, Constraint, GraphInv, GraphType
<1>6. /\ s \in Node /\ d \in Node /\ is_rep(g, s) /\ is_rep(g, d)
  BY <1>2, <1>4, <1>5
<1>7. g' \in Graph /\ Grown(g, g')
  BY LsConsInv DEF IInv, GraphInv, GraphType
<1>8. /\ g'.rep = h.rep /\ g'.hcd_var = h.hcd_var /\ g'.prev_points_to = h.prev_points_to
      /\ g'.vtime = h.vtime /\ g'.points_to = h.points_to /\ g'.copy_to = h.copy_to
      /\ \A x \in Node : g'.cons[x] = IF x = n THEN g.cons[x] \ {cid} ELSE g.cons[x]
  <2>1. h \in Graph /\ h.cons = g.cons
    BY <1>5, <1>6 DEF add_copy_edge, Graph
  <2> HIDE DEF h
  <2> QED
    BY <1>3, <1>4, <1>5, <2>1 DEF Graph
<1>9. /\ Unmerged
      /\ \A x \in Node : x # d => g'.points_to[x] = g.points_to[x]
      /\ \A a, b \in Node : g.rep[a] = s /\ g.rep[b] = d => HasEdge(a, b)'
  BY <1>3, <1>5, <1>6, <1>7, <1>8, EdgeAdded, ZenonT(60)
<1>10. /\ \A x \in Node : Queued(x) => Queued(x)'
       /\ \A x \in Node : g'.points_to[x] # g.points_to[x] => Queued(x)'
  <2>1. Grew(g, h, d) = Grew(g, g', d)
    BY <1>8 DEF Grew
  <2> QED
    BY <1>3, <1>6, <1>9, <2>1, GrownQueued DEF Unmerged
<1> HIDE DEF h
<1>11. I = {}
  <2>1. I # {} => C.off = 1 \/ C.off >= 2
    BY <1>3 DEF LsOK, CallOffsetOK
  <2> QED
    BY <1>3, <2>1
<1>12. Linked(C, hcd_rep)'
  <2>1. HasEdge(s, d)'
    BY <1>6, <1>9 DEF is_rep
  <2> QED
    BY <1>2, <1>3, <2>1 DEF Linked
<1>13. SeenKept(C)'
  BY <1>3, <1>12 DEF SeenKept
<1>14. ASSUME NEW D \in ComplexCons, SameCons(C, D)
       PROVE  Gone(D)' /\ \A o \in d_points_to : Solved(D, o)'
  <2>1. /\ D \in Constraint /\ D.type = C.type /\ D.off = 0 /\ D.dest \in Node /\ D.src \in Node
        /\ g.rep[D.dest] = C.dest /\ g.rep[D.src] = C.src
    BY <1>3, <1>4, <1>14, ComplexTyped DEF SameCons, is_rep
  <2>2. Gone(D)'
    <3>1. g.rep[Base(C)] = n
      BY <1>1, <1>4, LcdTypes DEF Updated, Base, get_node_rep, Constraint
    <3> QED
      BY <1>3, <1>4, <1>5, <1>9, <1>12, <1>14, <3>1, GoneBy
  <2>3. ASSUME NEW o \in d_points_to
        PROVE  Linked(D, o)'
    <3>1. o = i2p \/ g.rep[o] = g.rep[hcd_rep]
      BY <1>3, <1>5 DEF HcdMet, HcdOf, Visiting, HcdPhase, Sweeping, Merging, Same
    <3>2. CASE o = i2p
      BY <3>2 DEF Linked, HasEdge
    <3>3. CASE g.rep[o] = hcd_rep
      BY <1>2, <1>5, <1>9, <2>1, <3>3 DEF Linked
    <3> QED
      BY <1>5, <3>1, <3>2, <3>3 DEF is_rep
  <2>4. \A o : Targets({o}, D, IsCall(sys, D)) = {o}
    BY <2>1 DEF Targets
  <2>5. IsCall(sys, D)' = IsCall(sys, D)
    BY <1>3 DEF IsCall
  <2>6. D.type # "gep"
    BY <1>3, <1>4, <2>1
  <2>7. \A o \in d_points_to : Solved(D, o)'
    BY <2>3, <2>4, <2>5, <2>6 DEF Solved
  <2> QED
    BY <2>2, <2>7
<1>15. \A D, t : <<D, t>> \in icall_cons => D # C0 /\ <<D, t>> \in icall_cons'
  BY <1>1, <1>3, <1>5, <1>11, LsSites
<1>16. \A call \in sys.icall : \A id \in g.cons[n] : \A o \in d_points_to \cap ExtNode :
           Ahead(id) /\ <<cplx_cons[id], call[2]>> \in icall_cons
             /\ SameCons(cplx_cons[id], call[1]) =>
               \/ id # cid /\ <<cplx_cons[id], call[2]>> \in icall_cons'
               \/ pc' = "member" /\ <<o, call[2]>> \in members'
  BY <1>1, <1>15
<1>17. /\ \A x \in Node : g'.cons[x] \subseteq g.cons[x]
       /\ \A x \in Node : \A id \in g.cons[x] : id # cid => id \in g'.cons[x] /\ ~Doomed(id)'
  <2>1. \A id : ~Doomed(id)'
    BY <1>3 DEF Doomed
  <2>2. \A x \in Node : /\ g'.cons[x] \subseteq g.cons[x]
                        /\ \A id \in g.cons[x] : id # cid => id \in g'.cons[x]
    BY <1>8
  <2> QED
    BY <2>1, <2>2
<1>18. CallMember'
  BY <1>3 DEF CallMember
<1>19. /\ \A D \in ComplexCons : SameCons(C, D) => Listed(D)' \/ Gone(D)'
       /\ \A D \in ComplexCons : SameCons(C, D) => \A o \in d_points_to :
           \/ Solved(D, o)'
           \/ pc' = "member" /\ ~lsc'.del /\ C = lsc'.C /\ <<o, NoSite>> \in members'
  BY <1>14
<1> QED
  BY <1>1, <1>3, <1>4, <1>9, <1>10, <1>13, <1>16, <1>17, <1>18, <1>19, ConsStep

LEMMA LsConsAll ==
  ASSUME IInv, ConsInv, SoundInv, AsExpected, LsCons, pc' # "abort",
         Updated(cplx_cons[Min(todo)]) \notin cons_seen,
         hcd_rep = 0 \/ Updated(cplx_cons[Min(todo)]).off # 0
  PROVE  SoundInv'
<1>1. PICK cid, C0, C, ic, I :
        /\ cid = Min(todo) /\ C0 = cplx_cons[cid] /\ C = Updated(C0) /\ ic = MovedCalls(C0)
        /\ I = IF CallSites(C0) = {} THEN {} ELSE SitesOf(ic, C)
  OBVIOUS
<1>2. /\ pc = "cons" /\ pc' = "member" /\ phase \in {"load", "store"} /\ todo # {}
      /\ todo' = todo \ {cid} /\ cplx_cons' = [cplx_cons EXCEPT ![cid] = C]
      /\ icall_cons' = ic /\ cons_seen' = cons_seen \cup {C}
      /\ UNCHANGED <<sys, g, ext_seen, curr, next, n, d_points_to, hcd_rep, phase, frames>>
      /\ lsc' = [C |-> C, cid |-> cid, I |-> I, del |-> FALSE]
      /\ members' = LsMembers(C, I)
      /\ LsOK(C0, C, I, C \in cons_seen) /\ C \notin cons_seen
  <2>1. C \notin cons_seen /\ ~(C \notin cons_seen /\ hcd_rep # 0 /\ C.off = 0)
    BY <1>1
  <2>2. /\ pc = "cons" /\ phase \in {"load", "store"} /\ todo # {}
        /\ todo' = todo \ {cid} /\ cplx_cons' = [cplx_cons EXCEPT ![cid] = C]
        /\ icall_cons' = ic /\ cons_seen' = cons_seen \cup {C}
        /\ UNCHANGED <<sys, ext_seen, curr, n, d_points_to, hcd_rep, phase, frames>>
    BY <1>1 DEF LsCons, lcdVars
  <2>3. /\ UNCHANGED <<g, next>>
        /\ lsc' = [C |-> C, cid |-> cid, I |-> I, del |-> FALSE]
        /\ members' = LsMembers(C, I)
    <3>1. UNCHANGED <<g, next>> /\ members' = LsMembers(C, I)
      BY <1>1, <2>1 DEF LsCons
    <3>2. lsc' = [C |-> C, cid |-> cid, I |-> I, del |-> C \in cons_seen]
      BY <1>1, <2>1 DEF LsCons
    <3>3. (C \in cons_seen) = FALSE
      BY <2>1
    <3> QED
      BY <3>1, <3>2, <3>3
  <2>4. pc' = "member" /\ LsOK(C0, C, I, C \in cons_seen)
    <3>1. pc' = IF ~LsOK(C0, C, I, C \in cons_seen) THEN "abort"
                ELSE IF C \notin cons_seen /\ hcd_rep # 0 /\ C.off = 0 THEN "cons" ELSE "member"
      BY <1>1, Zenon DEF LsCons
    <3> QED
      BY <2>1, <3>1
  <2> QED
    BY <2>1, <2>2, <2>3, <2>4
<1>3. /\ cid \in g.cons[n] /\ n \in Node /\ C \in Constraint /\ C.type = phase /\ C.off \in Nat
      /\ cid \in DOMAIN cplx_cons
      /\ g.rep[Base(C0)] = n /\ C0 \in Constraint /\ cid \in todo /\ C0.type = phase
      /\ SameCons(C, sys.cons[cid])
  BY <1>1, <1>2, NextCons DEF Constraint
<1>4. FactsHold /\ d_points_to \subseteq Node
  BY <1>2 DEF SoundInv, IInv, VisitInv, VisitType
<1>5. Unmerged
  BY <1>2, LsConsInv, SameUnmerged DEF IInv, GraphInv, GraphType
<1>6. /\ \A D, s : <<D, s>> \in icall_cons => IF D = C0 THEN s \in I ELSE <<D, s>> \in icall_cons'
      /\ I \subseteq Site
      /\ \A s \in I : \E call \in sys.icall :
           call[1] \in ComplexCons /\ SameCons(C, call[1]) /\ IsCall(sys, call[1])
      /\ I = {} => ~IsCall(sys, sys.cons[cid])
  BY <1>1, <1>2, <1>4, LsSites
<1>7. I # {} => C.off # 0
  BY <1>2 DEF LsOK, CallOffsetOK
<1>8. ASSUME NEW D \in ComplexCons, SameCons(C, D), C.off # 0
      PROVE  IsCall(sys, D) <=> I # {}
  <2>1. sys.cons[cid] \in ComplexCons /\ SameCons(sys.cons[cid], D) /\ sys.cons[cid].off # 0
    BY <1>1, <1>2, <1>3, <1>4, <1>8, NextCons DEF SameCons
  <2>2. CASE I = {}
    BY <1>6, <1>8, <2>1, <2>2 DEF AsExpected, CallsApart
  <2>3. CASE I # {}
    <3>1. PICK call \in sys.icall :
            call[1] \in ComplexCons /\ SameCons(C, call[1]) /\ IsCall(sys, call[1])
      BY <1>6, <2>3
    <3>2. SameCons(call[1], D) /\ call[1].off # 0
      BY <1>8, <3>1 DEF SameCons
    <3> QED
      BY <2>3, <3>1, <3>2 DEF AsExpected, CallsApart
  <2> QED
    BY <2>2, <2>3, SMTT(30)
<1>9. cid \in (ListOf(n, phase) \ todo)' /\ cplx_cons'[cid] = C /\ \A id : ~Doomed(id)'
  BY <1>2, <1>3 DEF ListOf, Doomed
<1>10. SeenKept(C)'
  BY <1>9 DEF SeenKept
<1>11. ASSUME NEW D \in ComplexCons, SameCons(C, D)
       PROVE  Listed(D)'
  <2>1. g.rep[Base(D)] = n
    <3>1. g.rep[Base(D)] = g.rep[Base(C)]
      BY <1>11 DEF SameCons, Base
    <3>2. g.rep[Base(C)] = n
      BY <1>1, <1>3, LcdTypes DEF Updated, Base, get_node_rep, Constraint
    <3> QED
      BY <3>1, <3>2
  <2>2. SameCons(C, D)' /\ cid \in g'.cons[n]
    BY <1>2, <1>3, <1>11 DEF SameCons
  <2> QED
    BY <1>2, <1>9, <2>1, <2>2 DEF Listed
<1>12. ASSUME NEW D \in ComplexCons, SameCons(C, D), NEW o \in d_points_to
       PROVE  Solved(D, o)' \/ <<o, NoSite>> \in members'
  <2>1. /\ D \in Constraint /\ D.type = phase /\ D.off = C.off /\ IsCall(sys, D)' = IsCall(sys, D)
    BY <1>2, <1>3, <1>12, ComplexTyped DEF SameCons, IsCall
  <2>2. Targets({o}, D, IsCall(sys, D)) = {} \/ <<o, NoSite>> \in LsMembers(C, I)
    <3>1. CASE C.off = 0
      BY <3>1 DEF LsMembers
    <3>2. CASE C.off # 0 /\ I = {}
      <4>1. ~IsCall(sys, D)
        BY <1>8, <1>12, <3>2
      <4>2. Targets({o}, D, IsCall(sys, D)) = Shift({o} \ FuncNode, C.off)
        BY <1>3, <2>1, <3>2, <4>1 DEF Targets
      <4>3. LsMembers(C, I) = (Fits(d_points_to, C.off) \ FuncNode) \X {NoSite}
        BY <3>2 DEF LsMembers
      <4> QED
        BY <4>2, <4>3 DEF Shift, Fits
    <3>3. CASE C.off # 0 /\ I # {}
      <4>1. IsCall(sys, D)
        BY <1>8, <1>12, <3>3
      <4>2. Targets({o}, D, IsCall(sys, D)) \subseteq Shift(({o} \cap FuncNode) \ ExtNode, C.off)
        BY <1>3, <2>1, <3>3, <4>1 DEF Targets
      <4>3. (Fits(d_points_to \cap FuncNode, C.off) \ ExtNode) \X {NoSite} \subseteq LsMembers(C, I)
        BY <3>3 DEF LsMembers
      <4> QED
        BY <4>2, <4>3 DEF Shift, Fits
    <3> QED
      BY <3>1, <3>2, <3>3
  <2>3. D.type # "gep"
    BY <1>2, <2>1
  <2> QED
    BY <1>2, <2>1, <2>2, <2>3 DEF Solved
<1>13. \A o \in d_points_to \cap ExtNode : \A s \in I : <<o, s>> \in members'
  BY <1>2, <1>7 DEF LsMembers
<1>14. \A call \in sys.icall : \A id \in g.cons[n] : \A o \in d_points_to \cap ExtNode :
           Ahead(id) /\ <<cplx_cons[id], call[2]>> \in icall_cons
             /\ SameCons(cplx_cons[id], call[1]) =>
               \/ id # cid /\ <<cplx_cons[id], call[2]>> \in icall_cons'
               \/ pc' = "member" /\ <<o, call[2]>> \in members'
  BY <1>1, <1>2, <1>6, <1>13
<1>15. /\ \A x \in Node : Queued(x) => Queued(x)'
       /\ \A x \in Node : g'.points_to[x] # g.points_to[x] => Queued(x)'
       /\ \A x \in Node : g'.cons[x] \subseteq g.cons[x]
  BY <1>2, QueuedSame
<1>16. CallMember'
  <2>1. ASSUME I # {}
        PROVE  C.off # 0 /\ IsCall(sys, sys.cons[cid])
    <3>1. sys.cons[cid] \in ComplexCons
      BY <1>1, <1>2, <1>4, NextCons
    <3> QED
      BY <1>3, <1>7, <1>8, <2>1, <3>1
  <2> QED
    BY <1>2, <2>1 DEF CallMember
<1>17. \A x \in Node : \A id \in g.cons[x] : id # cid => id \in g'.cons[x] /\ ~Doomed(id)'
  BY <1>2, <1>9
<1>18. /\ \A D \in ComplexCons : SameCons(C, D) => Listed(D)' \/ Gone(D)'
       /\ \A D \in ComplexCons : SameCons(C, D) => \A o \in d_points_to :
           \/ Solved(D, o)'
           \/ pc' = "member" /\ ~lsc'.del /\ C = lsc'.C /\ <<o, NoSite>> \in members'
  BY <1>2, <1>11, <1>12
<1> QED
  BY <1>1, <1>2, <1>3, <1>5, <1>10, <1>14, <1>15, <1>16, <1>17, <1>18, ConsStep, ZenonT(60)

LEMMA LsConsSound ==
  ASSUME IInv, ConsInv, SoundInv, AsExpected, LsCons, pc' # "abort"
  PROVE  SoundInv'
BY LsConsDup, LsConsHcd, LsConsAll

-----------------------------------------------------------------------------
(* merge_nodes *)

(* A return from merge_nodes.                                              *)
LEMMA BackStep ==
  ASSUME IInv, SoundInv, pc = "unwind", pc' \in {"unwind", "hcd", "collapse"},
         UNCHANGED <<sys, g, cplx_cons, icall_cons, ext_seen, curr, next, n, d_points_to, members>>,
         FramesLinked', MergeChain', HcdMet', HcdPhase' <=> HcdPhase,
         \A Q \in SUBSET Node : Covering(Q)' => Covering(Q)
  PROVE  SoundInv'
<1>1. /\ FactsHold /\ FramesLinked /\ HcdMet
      /\ \A Q \in SUBSET Node : Covering(Q) => NoneLost(Q)
  BY DEF SoundInv
<1>2. /\ Forward /\ (\A Q : \A x : Settled(Q, x)' = Settled(Q, x))
      /\ \A x \in Node : g'.prev_points_to[x] \subseteq g'.points_to[x]
  BY <1>1, SameGraph
<1>3. /\ ~Sweeping /\ ~Sweeping' /\ (Visiting <=> HcdPhase) /\ (Visiting' <=> HcdPhase')
      /\ (HcdPhase => HcdPhase')
  BY DEF Visiting, Sweeping
<1>4. FactsHold'
  BY <1>1, <1>2, FactsStay DEF FactsHold
<1>5. SeenMet' /\ CallMember'
  BY <1>3 DEF SeenMet, CallMember
<1>6. \A a, b : Same(a, b) <=> g.rep[a] = g.rep[b]
  BY DEF Same
<1>7. \A a, b : g.rep[a] = g.rep[b] => Same(a, b)'
  BY DEF Same
<1>8. ASSUME NEW Q \in SUBSET Node, Covering(Q)'
       PROVE  NoneLost(Q)'
  <2>1. NoneLost(Q)
    BY <1>1, <1>8
  <2>2. ConsKept(Q)'
    <3>1. ASSUME NEW C \in ComplexCons
          PROVE  Listed(C) => Listed(C)'
      BY DEF Listed, Doomed, SameCons
    <3>2. ASSUME NEW C \in ComplexCons, NEW o \in d_points_to, Pending(C, o)
          PROVE  Pending(C, o)'
      BY <1>3, <3>2 DEF Pending, SameCons, Ahead
    <3> QED
      BY <1>2, <2>1, <3>1, <3>2, ConsKeptStays DEF NoneLost
  <2>3. HcdKept(Q)'
    <3>1. HcdPhase => members \subseteq d_points_to \X {NoSite}
      BY <1>1 DEF HcdMet
    <3>2. HcdPhase => \A o \in d_points_to : <<o, NoSite>> \in members /\ o # i2p =>
            Same(o, g.hcd_var[n])' \/ (HcdPhase /\ <<o, NoSite>> \in members)'
      BY <1>3
    <3> QED
      BY <1>2, <2>1, <3>1, <3>2, HcdKeptStays DEF NoneLost
  <2>4. ExtKept(Q)'
    <3>1. ASSUME NEW call \in sys.icall, Waiting(call)
          PROVE  Waiting(call)'
      BY <1>3, <3>1 DEF Waiting, SameCons, Ahead
    <3> QED
      BY <1>2, <1>3, <2>1, <3>1, ExtKeptStays DEF NoneLost
  <2>5. EdgesKept(Q)'
    BY <1>2, <1>3, <2>1, EdgesKeptStays DEF NoneLost
  <2> QED
    BY <2>2, <2>3, <2>4, <2>5 DEF NoneLost
<1> QED
  BY <1>4, <1>5, <1>8 DEF SoundInv

LEMMA MergeFramesTyped ==
  ASSUME IInv
  PROVE  /\ mframes \in Seq(MergeFrame)
         /\ DOMAIN mframes = 1 .. Len(mframes) /\ Len(mframes) \in Nat
         /\ \A k \in DOMAIN mframes : mframes[k].n1 \in Node /\ g.rep[mframes[k].n1] \in Node
         /\ marg[1] \in Node /\ marg[2] \in Node /\ marg = <<marg[1], marg[2]>>
         /\ g.rep[marg[1]] \in Node /\ g.rep[marg[2]] \in Node
<1>1. mframes \in Seq(MergeFrame) /\ marg \in Node \X Node
  BY DEF IInv, MergeInv, MergeType
<1>2. DOMAIN mframes = 1 .. Len(mframes) /\ Len(mframes) \in Nat
  BY <1>1
<1>3. \A k \in DOMAIN mframes : mframes[k] \in MergeFrame
  BY <1>1
<1>4. \A k \in DOMAIN mframes : mframes[k].n1 \in Node
  BY <1>3 DEF MergeFrame
<1>5. marg[1] \in Node /\ marg[2] \in Node /\ marg = <<marg[1], marg[2]>>
  BY <1>1
<1>6. \A x \in Node : g.rep[x] \in Node
  BY DEF IInv, GraphInv, GraphType, Graph
<1> QED
  BY <1>1, <1>2, <1>4, <1>5, <1>6

LEMMA LenOfDomain ==
  ASSUME NEW T, NEW s \in Seq(T), NEW m \in Nat, DOMAIN s = 1 .. m
  PROVE  Len(s) = m
<1>1. DOMAIN s = 1 .. Len(s) /\ Len(s) \in Nat
  OBVIOUS
<1>2. \A i \in Nat : i \in 1 .. m <=> i \in 1 .. Len(s)
  BY <1>1
<1>3. ~(m < Len(s)) /\ ~(Len(s) < m)
  BY <1>1, <1>2
<1> QED
  BY <1>1, <1>3

LEMMA MergeReturnSound ==
  ASSUME IInv, SoundInv, MergeReturn, pc' # "abort"
  PROVE  SoundInv'
<1> DEFINE f == Last(mframes)
           N == Len(mframes)
           r == IF f.n1 = f.rhv2 THEN get_node_rep(f.n1) ELSE f.n1
<1>1. /\ pc = "unwind" /\ pc' = "unwind" /\ mframes # <<>> /\ mframes' = Front(mframes)
      /\ marg' = <<r, r>> /\ is_rep(g, r)
      /\ UNCHANGED <<sys, g, cplx_cons, icall_cons, ext_seen, curr, next, n, d_points_to,
                     members, frames, hcd_rep, mret>>
  BY DEF MergeReturn, graphVars, wlVars, visitVars, lcdVars
<1>2. /\ mframes \in Seq(MergeFrame) /\ N \in Nat \ {0} /\ DOMAIN mframes = 1 .. N
      /\ f = mframes[N] /\ Len(mframes') = N - 1 /\ DOMAIN mframes' = 1 .. (N - 1)
      /\ \A k \in 1 .. (N - 1) : mframes'[k] = mframes[k]
      /\ \A k \in 1 .. N : mframes[k].n1 \in Node
      /\ mframes' = <<>> <=> N = 1
  <2>1. mframes \in Seq(MergeFrame) /\ mframes # <<>>
    BY <1>1, MergeFramesTyped
  <2>2. /\ Front(mframes) \in Seq(MergeFrame)
        /\ Len(Front(mframes)) = Len(mframes) - 1
        /\ \A i \in 1 .. (Len(mframes) - 1) : Front(mframes)[i] = mframes[i]
        /\ Last(mframes) = mframes[Len(mframes)]
        /\ Len(mframes) \in Nat \ {0}
    BY <2>1, FrontLast
  <2>3. \A k \in 1 .. N : mframes[k].n1 \in Node
    BY MergeFramesTyped
  <2> QED
    BY <1>1, <2>1, <2>2, <2>3
<1>3. r = g.rep[f.n1] /\ r \in Node /\ g.rep[r] = r /\ marg'[1] = r /\ marg'[2] = r
  BY <1>1, <1>2, MergeFramesTyped DEF get_node_rep, is_rep
<1>4. /\ FactsHold /\ FramesLinked /\ HcdMet /\ MergeChain
      /\ \A Q \in SUBSET Node : Covering(Q) => NoneLost(Q)
  BY <1>1 DEF SoundInv
<1> HIDE DEF r, f
<1>5. /\ Merging /\ Merging' /\ (HcdPhase' <=> HcdPhase) /\ ~Sweeping /\ ~Sweeping'
      /\ (Visiting' <=> Visiting)
  BY <1>1 DEF Merging, HcdPhase, Sweeping, Visiting
<1>6. marg[1] = marg[2] /\ \A k \in 1 .. N : QueuesNext(k)
  BY <1>1, <1>2, <1>4, <1>5 DEF MergeChain
<1>7. \A a, b : Same(a, b) <=> g.rep[a] = g.rep[b]
  BY <1>1 DEF Same
<1>8. \A a, b : g.rep[a] = g.rep[b] => Same(a, b)'
  BY <1>1 DEF Same
<1>9. FramesLinked'
  BY <1>1, <1>4, SameGraph, FramesStay
<1>10. MergeChain'
  <2>1. ASSUME NEW k \in 1 .. (N - 1)
        PROVE  QueuesNext(k)'
    <3>1. k \in 1 .. N /\ k < N /\ mframes'[k] = mframes[k] /\ QueuesNext(k)
      BY <1>2, <1>6, SMTT(30)
    <3>2. g.rep[g.hcd_var[g.rep[mframes[k].n1]]] = g.rep[mframes[k + 1].n1]
      BY <1>7, <3>1 DEF QueuesNext, NextOf
    <3>3. g.rep[NextOf(k)'] = g.rep[mframes[k + 1].n1]
      <4>1. CASE k < N - 1
        BY <1>2, <4>1 DEF NextOf
      <4>2. CASE k = N - 1
        BY <1>2, <1>3, <4>2 DEF NextOf
      <4>3. N \in Nat /\ k \in 1 .. (N - 1)
        BY <1>2
      <4>4. k < N - 1 \/ k = N - 1
        BY <4>3
      <4> QED
        BY <4>1, <4>2, <4>4
    <3>4. Same(g.hcd_var[g.rep[mframes[k].n1]], NextOf(k))'
      BY <1>1, <3>1, <3>2, <3>3 DEF Same
    <3> QED
      BY <1>1, <3>1, <3>4 DEF QueuesNext
  <2> QED
    BY <1>1, <1>2, <1>3, <1>4, <1>5, <2>1, SMTT(30) DEF MergeChain
<1>11. HcdMet'
  <2>1. g.rep[HcdOf'] = g.rep[HcdOf]
    <3>1. CASE N = 1
      BY <1>1, <1>2, <1>3, <1>5, <3>1 DEF HcdOf
    <3>2. CASE N # 1
      <4>1. N - 1 > 0 /\ 1 \in 1 .. (N - 1) /\ mframes' # <<>>
        BY <1>2, <3>2
      <4> QED
        BY <1>1, <1>2, <1>5, <4>1 DEF HcdOf
    <3> QED
      BY <3>1, <3>2
  <2>2. HcdOf' \in Node /\ HcdOf \in Node
    <3>1. HcdOf \in Node
      BY <1>1, <1>2, <1>5 DEF HcdOf
    <3>2. CASE N = 1
      BY <1>1, <1>2, <1>3, <1>5, <3>2 DEF HcdOf
    <3>3. CASE N # 1
      <4>1. N - 1 > 0 /\ 1 \in 1 .. (N - 1) /\ mframes' # <<>>
        BY <1>2, <3>3
      <4> QED
        BY <1>1, <1>2, <1>5, <4>1 DEF HcdOf
    <3> QED
      BY <3>1, <3>2, <3>3
  <2>3. HcdOf' = 0 <=> HcdOf = 0
    BY <1>4, <2>1, <2>2, NodeAssumption DEF FactsHold
  <2>4. \A a : Same(a, HcdOf) => Same(a, HcdOf)'
    BY <1>1, <1>7, <2>1 DEF Same
  <2> QED
    BY <1>1, <1>4, <1>5, <2>3, <2>4 DEF HcdMet, is_rep
<1>12. ASSUME NEW Q \in SUBSET Node, Covering(Q)'
       PROVE  Covering(Q)
  <2>1. /\ \A y \in Q : g.hcd_var[y] # 0 /\ g.points_to[y] # g.prev_points_to[y] =>
                          g.rep[g.hcd_var[y]] \in Q
        /\ g.rep[marg'[1]] \in Q
        /\ \A k \in 1 .. (N - 1) : g.rep[mframes'[k].n1] \in Q
    BY <1>1, <1>2, <1>5, <1>12 DEF Covering
  <2>2. r \in Q
    BY <1>3, <2>1
  <2>3. g.rep[g.hcd_var[r]] = g.rep[marg[1]]
    <3>1. NextOf(N) = marg[1] /\ N \in 1 .. N
      BY <1>2, SMTT(30) DEF NextOf
    <3> QED
      BY <1>2, <1>3, <1>6, <1>7, <3>1 DEF QueuesNext
  <2>4. g.hcd_var[r] # 0 /\ g.points_to[r] # g.prev_points_to[r]
    <3>1. N \in 1 .. N
      BY <1>2
    <3> QED
      BY <1>2, <1>3, <1>6, <3>1 DEF QueuesNext
  <2>5. g.rep[marg[1]] \in Q /\ g.rep[marg[2]] \in Q
    BY <1>6, <2>1, <2>2, <2>3, <2>4
  <2>6. \A k \in DOMAIN mframes : g.rep[mframes[k].n1] \in Q
    <3>1. \A k \in 1 .. (N - 1) : g.rep[mframes[k].n1] \in Q
      BY <1>2, <2>1
    <3>2. g.rep[mframes[N].n1] \in Q
      BY <1>2, <1>3, <2>2
    <3> QED
      BY <1>2, <3>1, <3>2
  <2>7. \A x : Queued(x)' = Queued(x)
    BY <1>1 DEF Queued, IsStale, is_rep
  <2> QED
    BY <1>1, <1>12, <2>1, <2>5, <2>6, <2>7 DEF Covering
<1> QED
  BY <1>1, <1>5, <1>9, <1>10, <1>11, <1>12, BackStep

LEMMA ReturnToHcdSound ==
  ASSUME IInv, SoundInv, ReturnToHcd
  PROVE  SoundInv'
<1>1. /\ pc = "unwind" /\ pc' = "hcd" /\ mframes = <<>> /\ mret = "hcd" /\ hcd_rep' = marg[1]
      /\ UNCHANGED <<sys, g, cplx_cons, icall_cons, ext_seen, curr, next, n, d_points_to,
                     members, frames>>
  BY DEF ReturnToHcd, graphVars, wlVars, lcdVars
<1>2. /\ FactsHold /\ FramesLinked /\ HcdMet /\ MergeChain
      /\ \A Q \in SUBSET Node : Covering(Q) => NoneLost(Q)
  BY <1>1 DEF SoundInv
<1>3. Merging /\ ~Merging' /\ HcdPhase' /\ HcdPhase /\ ~Sweeping /\ ~Sweeping'
      /\ Visiting' /\ Visiting
  BY <1>1 DEF Merging, HcdPhase, Sweeping, Visiting
<1>4. marg[1] = marg[2] /\ marg[1] \in Node /\ g.rep[marg[1]] = marg[1] /\ DOMAIN mframes = {}
  BY <1>1, <1>2, MergeFramesTyped DEF MergeChain, IInv, MergeInv, is_rep
<1>5. FramesLinked'
  BY <1>1, <1>2, SameGraph, FramesStay
<1>6. MergeChain'
  BY <1>1, <1>3 DEF MergeChain
<1>7. HcdMet'
  BY <1>1, <1>2, <1>3 DEF HcdMet, HcdOf, Same, is_rep
<1>8. ASSUME NEW Q \in SUBSET Node, Covering(Q)'
      PROVE  Covering(Q)
  <2>1. g.rep[marg[1]] \in Q /\ g.rep[marg[2]] \in Q
    BY <1>1, <1>4, <1>8 DEF Covering
  <2>2. \A x : Queued(x)' = Queued(x)
    BY <1>1 DEF Queued, IsStale, is_rep
  <2> QED
    BY <1>1, <1>4, <1>8, <2>1, <2>2 DEF Covering
<1> QED
  BY <1>1, <1>3, <1>5, <1>6, <1>7, <1>8, BackStep

LEMMA ReturnToCollapseSound ==
  ASSUME IInv, SoundInv, ReturnToCollapse
  PROVE  SoundInv'
<1> DEFINE f == Last(frames)
           N == Len(frames)
           h == [f EXCEPT !.n = marg[1]]
<1>1. /\ pc = "unwind" /\ pc' = "collapse" /\ mframes = <<>> /\ mret = "collapse"
      /\ frames' = [frames EXCEPT ![N].n = marg[1]]
      /\ UNCHANGED <<sys, g, cplx_cons, icall_cons, ext_seen, curr, next, n, d_points_to,
                     members, mret>>
  BY DEF ReturnToCollapse, graphVars, wlVars, visitVars, mergeVars
<1>2. /\ FactsHold /\ FramesLinked /\ HcdMet /\ MergeChain
      /\ \A Q \in SUBSET Node : Covering(Q) => NoneLost(Q)
  BY <1>1 DEF SoundInv
<1>3. Merging /\ ~Merging' /\ ~HcdPhase' /\ ~HcdPhase /\ ~Sweeping /\ ~Sweeping'
      /\ ~Visiting' /\ ~Visiting
  BY <1>1 DEF Merging, HcdPhase, Sweeping, Visiting
<1>4. marg[1] = marg[2] /\ marg[1] \in Node /\ g.rep[marg[1]] = marg[1] /\ DOMAIN mframes = {}
  BY <1>1, <1>2, MergeFramesTyped DEF MergeChain, IInv, MergeInv, is_rep
<1>5. /\ frames \in Seq(DfsFrame) /\ N \in Nat \ {0} /\ f = frames[N] /\ f \in DfsFrame
      /\ frames # <<>> /\ DOMAIN frames = 1 .. N
  BY <1>1, TopFrame, LcdTypes DEF InLcdDfs
<1>6. f.chg
  BY <1>1, <1>2, <1>3 DEF MergeChain
<1>7. h.n = marg[1] /\ h.chg = f.chg /\ frames' = [frames EXCEPT ![N] = h]
  BY <1>1, <1>5, SMTT(30) DEF DfsFrame
<1> HIDE DEF h, f
<1>8. /\ Len(frames') = N /\ DOMAIN frames' = 1 .. N /\ frames'[N] = h
      /\ \A l \in 1 .. (N - 1) : frames'[l] = frames[l]
  <2>1. DOMAIN frames' = 1 .. N /\ \A l \in 1 .. N : frames'[l] = IF l = N THEN h ELSE frames[l]
    BY <1>5, <1>7
  <2>2. frames' \in Seq(DfsFrame)
    BY ReturnToCollapseInv, SMTT(30) DEF IInv, LcdInv, LcdType
  <2>3. Len(frames') = N
    BY <1>5, <2>1, <2>2, LenOfDomain
  <2>4. \A m \in Nat \ {0} : m \in 1 .. m /\ \A l \in 1 .. (m - 1) : l \in 1 .. m /\ l # m
    BY SMTT(30)
  <2>5. N \in 1 .. N /\ \A l \in 1 .. (N - 1) : l \in 1 .. N /\ l # N
    BY <1>5, <2>4
  <2> QED
    BY <2>1, <2>3, <2>5
<1>9. Last(frames') = h
  BY <1>8 DEF Last
<1>10. FramesLinked'
  <2>1. \A k \in 1 .. (N - 1) : FrameLinked(frames[k])
    BY <1>2, <1>5 DEF FramesLinked
  <2>2. \A k \in 1 .. (N - 1) : FrameLinked(frames'[k])
    BY <1>8, <2>1
  <2>3. \A k \in 1 .. (N - 1) : FrameLinked(frames[k])'
    <3>1. g' = g
      BY <1>1
    <3> QED
      BY <2>2, <3>1 DEF FrameLinked, HasEdge
  <2> QED
    BY <1>1, <1>4, <1>7, <1>8, <1>9, <2>3 DEF FramesLinked, is_rep
<1>11. MergeChain'
  BY <1>1, <1>3 DEF MergeChain
<1>12. HcdMet'
  BY <1>3 DEF HcdMet
<1>13. ASSUME NEW Q \in SUBSET Node, Covering(Q)'
      PROVE  Covering(Q)
  <2>1. g.rep[marg[1]] \in Q /\ g.rep[marg[2]] \in Q
    BY <1>1, <1>4, <1>6, <1>7, <1>9, <1>13 DEF Covering
  <2>2. \A x : Queued(x)' = Queued(x)
    BY <1>1 DEF Queued, IsStale, is_rep
  <2> QED
    BY <1>1, <1>4, <1>13, <2>1, <2>2 DEF Covering
<1> QED
  BY <1>1, <1>3, <1>10, <1>11, <1>12, <1>13, BackStep

(* merge_nodes merges c into p; a nested call is made for the HCD          *)
(* variables of both.                                                      *)
Merged(p, c) ==
  /\ pc = "merge" /\ p # c /\ {p, c} \cap {0, i2p} = {}
  /\ g.rep[p] = p /\ g.rep[c] = c /\ {marg[1], marg[2]} = {p, c}
  /\ UNCHANGED <<sys, cplx_cons, icall_cons, ext_seen, curr, next, n, d_points_to,
                 members, frames, mret>>
  /\ g' \in Graph /\ Grown(g, g') /\ (\A x \in Node : g'.rep[g'.rep[x]] = g'.rep[x])
  /\ \A x \in Node :
       /\ g'.rep[x] = IF g.rep[x] = c THEN p ELSE g.rep[x]
       /\ g'.points_to[x] = IF x = p THEN g.points_to[p] \cup g.points_to[c]
                            ELSE IF x = c THEN {} ELSE g.points_to[x]
       /\ g'.prev_points_to[x] = IF x \in {p, c} THEN {} ELSE g.prev_points_to[x]
       /\ g'.copy_to[x] = IF x = p THEN (g.copy_to[p] \cup g.copy_to[c]) \ {p, c}
                          ELSE IF x = c THEN {} ELSE g.copy_to[x]
       /\ g'.cons[x] = IF x = p THEN g.cons[p] \cup g.cons[c]
                       ELSE IF x = c THEN {} ELSE g.cons[x]
       /\ x # c => g'.vtime[x] <= g.vtime[x]
       /\ g'.hcd_var[x] = IF x = p THEN (IF g.hcd_var[p] = 0 THEN g.hcd_var[c] ELSE g.hcd_var[p])
                          ELSE IF x = c THEN 0 ELSE g.hcd_var[x]
  /\ \/ /\ pc' = "unwind" /\ marg' = <<p, p>> /\ mframes' = mframes
        /\ \/ 0 \in {g.hcd_var[p], g.hcd_var[c]}
           \/ g'.rep[g.hcd_var[p]] = g'.rep[g.hcd_var[c]]
     \/ /\ pc' = "merge" /\ 0 \notin {g.hcd_var[p], g.hcd_var[c]}
        /\ NestedMerge(g, marg[1], marg[2]) # <<>>
        /\ marg' = <<g'.rep[g.hcd_var[p]], g'.rep[g.hcd_var[c]]>>
        /\ \E v \in Node : mframes' = Append(mframes, [n1 |-> p, rhv2 |-> v])

LEMMA MergeNodesMerges ==
  ASSUME IInv, MergeNodes, pc' # "abort"
  PROVE  \E p, c \in Node : Merged(p, c)
<1> DEFINE p == Parent(g, marg[1], marg[2])
           c == Child(g, marg[1], marg[2])
           nested == NestedMerge(g, marg[1], marg[2])
<1>1. CanMerge(g, marg[1], marg[2]) /\ pc = "merge"
  BY DEF MergeNodes
<1>2. /\ p \in Node /\ c \in Node /\ p # c /\ {p, c} \cap {0, i2p} = {}
      /\ is_rep(g, p) /\ is_rep(g, c) /\ {marg[1], marg[2]} = {p, c}
      /\ g.rep[p] = p /\ g.rep[c] = c
      /\ g \in Graph /\ Canonical(g)
  BY <1>1, CanonicalGraph DEF IInv, MergeInv, MergeType, CanMerge, Parent, Child, is_rep
<1>3. g' = Absorb(g, p, c) /\ g' = Unify(g, marg[1], marg[2])
  BY <1>1 DEF MergeNodes, Unify
<1>4. nested # <<>> => /\ g.hcd_var[marg[1]] # 0 /\ g.hcd_var[marg[2]] # 0
                       /\ nested = <<g'.rep[g.hcd_var[p]], g'.rep[g.hcd_var[c]]>>
  BY <1>3 DEF NestedMerge
<1>5. nested = <<>> => \/ 0 \in {g.hcd_var[marg[1]], g.hcd_var[marg[2]]}
                       \/ g'.rep[g.hcd_var[p]] = g'.rep[g.hcd_var[c]]
  BY <1>3 DEF NestedMerge
<1>6. \/ nested = <<>> /\ marg' = <<p, p>> /\ pc' = "unwind" /\ mframes' = mframes
      \/ nested # <<>> /\ marg' = nested /\ mframes' = Append(mframes, [n1 |-> p, rhv2 |-> nested[2]])
         /\ pc' = "merge"
  BY <1>1 DEF MergeNodes
<1>7. UNCHANGED <<sys, cplx_cons, icall_cons, ext_seen, curr, next, n, d_points_to,
                 members, frames, mret>>
  BY DEF MergeNodes, wlVars, visitVars, lcdVars
<1>8. NestedMerge(g, marg[1], marg[2]) = nested
  OBVIOUS
<1> HIDE DEF p, c, nested
<1>9. /\ g' \in Graph /\ Grown(g, g') /\ Canonical(g')
      /\ \A x \in Node : g'.rep[x] = IF g.rep[x] = c THEN p ELSE g.rep[x]
  <2>1. p # 0 /\ c # 0
    BY <1>2
  <2>2. Absorb(g, p, c) \in Graph
    BY <1>2, AbsorbGraph
  <2>3. /\ Canonical(Absorb(g, p, c)) /\ Grown(g, Absorb(g, p, c))
        /\ \A x \in Node : Absorb(g, p, c).rep[x] = IF g.rep[x] = c THEN p ELSE g.rep[x]
    BY <1>2, <2>1, AbsorbCanonical
  <2> QED
    BY <1>3, <2>2, <2>3
<1>10. \A x \in Node : g'.rep[g'.rep[x]] = g'.rep[x]
  BY <1>9 DEF Canonical, is_rep
<1>11. \A x \in Node :
       /\ g'.points_to[x] = IF x = p THEN g.points_to[p] \cup g.points_to[c]
                            ELSE IF x = c THEN {} ELSE g.points_to[x]
       /\ g'.prev_points_to[x] = IF x \in {p, c} THEN {} ELSE g.prev_points_to[x]
       /\ g'.copy_to[x] = IF x = p THEN (g.copy_to[p] \cup g.copy_to[c]) \ {p, c}
                          ELSE IF x = c THEN {} ELSE g.copy_to[x]
  <2>1. /\ g'.points_to = [g.points_to EXCEPT ![p] = @ \cup g.points_to[c], ![c] = {}]
        /\ g'.prev_points_to = [g.prev_points_to EXCEPT ![p] = {}, ![c] = {}]
        /\ g'.copy_to = [g.copy_to EXCEPT ![p] = (@ \cup g.copy_to[c]) \ {p, c}, ![c] = {}]
    BY <1>3 DEF Absorb, MergedPointees, MergedPrev, MergedEdges
  <2>2. /\ g.points_to \in [Node -> SUBSET Node] /\ g.prev_points_to \in [Node -> SUBSET Node]
        /\ g.copy_to \in [Node -> SUBSET Node]
    BY <1>2 DEF Graph
  <2> QED
    BY <1>2, <2>1, <2>2
<1>12. \A x \in Node :
       /\ g'.cons[x] = IF x = p THEN g.cons[p] \cup g.cons[c]
                       ELSE IF x = c THEN {} ELSE g.cons[x]
       /\ g'.hcd_var[x] = IF x = p THEN (IF g.hcd_var[p] = 0 THEN g.hcd_var[c] ELSE g.hcd_var[p])
                          ELSE IF x = c THEN 0 ELSE g.hcd_var[x]
  <2>1. /\ g'.cons = [g.cons EXCEPT ![p] = @ \cup g.cons[c], ![c] = {}]
        /\ g'.hcd_var = [g.hcd_var EXCEPT ![p] = IF @ = 0 THEN g.hcd_var[c] ELSE @, ![c] = 0]
    BY <1>3 DEF Absorb, MergedCons, MergedHcd
  <2>2. g.cons \in [Node -> SUBSET Nat] /\ g.hcd_var \in [Node -> Node]
    BY <1>2 DEF Graph
  <2> QED
    BY <1>2, <2>1, <2>2
<1>13. \A x \in Node : g'.vtime[x] <= g.vtime[x]
  <2>1. /\ g'.vtime = [g.vtime EXCEPT ![p] = IF g.vtime[c] < @ THEN g.vtime[c] ELSE @]
        /\ g.vtime \in [Node -> Nat]
    BY <1>2, <1>3 DEF Absorb, MergedTime, Graph
  <2>2. \A x \in Node : /\ g.vtime[x] \in Nat /\ g.vtime[c] \in Nat
                        /\ g'.vtime[x] \in {g.vtime[x], IF g.vtime[c] < g.vtime[x] THEN g.vtime[c] ELSE g.vtime[x]}
    BY <1>2, <2>1
  <2> QED
    BY <2>2
<1>14. \/ /\ pc' = "unwind" /\ marg' = <<p, p>> /\ mframes' = mframes
          /\ \/ 0 \in {g.hcd_var[p], g.hcd_var[c]}
             \/ g'.rep[g.hcd_var[p]] = g'.rep[g.hcd_var[c]]
       \/ /\ pc' = "merge" /\ 0 \notin {g.hcd_var[p], g.hcd_var[c]}
          /\ NestedMerge(g, marg[1], marg[2]) # <<>>
          /\ marg' = <<g'.rep[g.hcd_var[p]], g'.rep[g.hcd_var[c]]>>
          /\ \E v \in Node : mframes' = Append(mframes, [n1 |-> p, rhv2 |-> v])
  <2>1. {g.hcd_var[marg[1]], g.hcd_var[marg[2]]} = {g.hcd_var[p], g.hcd_var[c]}
    BY <1>2
  <2>2. g.hcd_var[c] \in Node /\ g'.rep[g.hcd_var[c]] \in Node
    BY <1>2, <1>9 DEF Graph
  <2>3. CASE nested = <<>>
    BY <1>5, <1>6, <2>1, <2>3
  <2>4. CASE nested # <<>>
    <3>1. nested[2] \in Node /\ 0 \notin {g.hcd_var[p], g.hcd_var[c]}
      BY <1>4, <2>1, <2>2, <2>4
    <3> QED
      BY <1>4, <1>6, <1>8, <2>4, <3>1
  <2> QED
    BY <2>3, <2>4
<1>15. Merged(p, c)
  BY <1>1, <1>2, <1>7, <1>9, <1>10, <1>11, <1>12, <1>13, <1>14 DEF Merged
<1> QED
  BY <1>2, <1>15

LEMMA MergedSame ==
  ASSUME IInv, NEW p \in Node, NEW c \in Node, Merged(p, c)
  PROVE  /\ \A a, b \in Node : Same(a, b) <=> g'.rep[a] = g'.rep[b]
         /\ \A a, b \in Node : g'.rep[a] = g'.rep[b] => Same(a, b)'
         /\ \A a, b, d \in Node : Same(a, b)' /\ g'.rep[b] = g'.rep[d] => Same(a, d)' /\ Same(d, a)'
<1>1. \A a, b \in Node : Same(a, b) <=> g'.rep[a] = g'.rep[b]
  <2>1. \A a, b : Same(a, b) <=> g.rep[a] = g.rep[b] \/ {g.rep[a], g.rep[b]} \subseteq {p, c}
    BY DEF Same, Merged
  <2> QED
    BY <2>1 DEF Merged
<1>2. \A a, b : Same(a, b)' <=> \/ g'.rep[a] = g'.rep[b]
                                \/ pc' = "merge" /\ {g'.rep[a], g'.rep[b]} \subseteq {marg'[1], marg'[2]}
  BY DEF Same
<1> QED
  BY <1>1, <1>2

LEMMA MergedForward ==
  ASSUME IInv, NEW p \in Node, NEW c \in Node, Merged(p, c)
  PROVE  Forward
<1>1. ASSUME NEW s \in Node, NEW d \in Node, HasEdge(s, d)
      PROVE  HasEdge(s, d)'
  <2>1. CASE i2p \in {s, d} \/ g.rep[s] = g.rep[d]
    BY <2>1 DEF Merged, HasEdge
  <2>2. ASSUME NEW y \in g.copy_to[g.rep[s]], g.rep[y] = g.rep[d], g'.rep[s] # g'.rep[d]
        PROVE  HasEdge(s, d)'
    <3>1. g.rep[s] \in Node /\ y \in Node /\ g.rep[y] \in Node
      BY <2>2 DEF IInv, GraphInv, GraphType, Graph
    <3>2. g'.rep[y] = g'.rep[d]
      BY <2>2, <3>1 DEF Merged
    <3>3. CASE g.rep[s] \in {p, c}
      <4>1. g'.rep[s] = p /\ y \notin {p, c}
        BY <2>2, <3>1, <3>2, <3>3 DEF Merged
      <4>2. y \in g'.copy_to[p]
        BY <2>2, <3>3, <4>1 DEF Merged
      <4> QED
        BY <3>2, <4>1, <4>2 DEF HasEdge
    <3>4. CASE g.rep[s] \notin {p, c}
      <4>1. g'.rep[s] = g.rep[s] /\ y \in g'.copy_to[g.rep[s]]
        BY <2>2, <3>1, <3>4 DEF Merged
      <4> QED
        BY <3>2, <4>1 DEF HasEdge
    <3> QED
      BY <3>3, <3>4
  <2>3. g'.rep[s] = g'.rep[d] => HasEdge(s, d)'
    BY DEF HasEdge
  <2> QED
    BY <1>1, <2>1, <2>2, <2>3 DEF HasEdge
<1> QED
  BY <1>1 DEF Forward, Merged

LEMMA MergedFacts ==
  ASSUME IInv, FactsHold, NEW p \in Node, NEW c \in Node, Merged(p, c)
  PROVE  FactsHold'
<1>1. Forward
  BY MergedForward
<1>2. \A m \in ext_seen' : EffectHolds(m)'
  <2>1. \A m \in ext_seen : m \in ExtNode \X Site /\ EffectHolds(m)
    BY DEF FactsHold, IInv, GraphInv, GraphType
  <2>2. ext_seen' = ext_seen
    BY DEF Merged
  <2> QED
    BY <1>1, <2>1, <2>2, ForwardEffect
<1>3. OfType(sys, "addr_of")' = OfType(sys, "addr_of") /\ OfType(sys, "copy")' = OfType(sys, "copy")
      /\ Complex(sys)' = Complex(sys)
  BY DEF Merged, OfType, Complex
<1>4. \A x \in Node : g'.prev_points_to[x] \subseteq g'.points_to[x]
  BY DEF FactsHold, Merged
<1>5. \A x \in Node : g'.cons[x] \subseteq Complex(sys)
  BY DEF FactsHold, Merged
<1>6. \A x \in Node : \A t \in {0, i2p} : g'.rep[x] = t <=> x = t
  <2> SUFFICES ASSUME NEW x \in Node, NEW t \in {0, i2p}
               PROVE  g'.rep[x] = t <=> x = t
    OBVIOUS
  <2>1. t # p /\ t # c /\ g'.rep[x] = IF g.rep[x] = c THEN p ELSE g.rep[x]
    BY DEF Merged
  <2>2. g.rep[x] = t <=> x = t
    BY DEF FactsHold
  <2> QED
    BY <2>1, <2>2
<1>7. /\ \A C \in OfType(sys, "addr_of") : (C.src \in g.points_to[g.rep[C.dest]])'
      /\ \A C \in OfType(sys, "copy") : HasEdge(C.src, C.dest)'
  BY <1>1, ForwardFacts DEF FactsHold
<1> QED
  BY <1>2, <1>3, <1>4, <1>5, <1>6, <1>7 DEF FactsHold

LEMMA MergedFrames ==
  ASSUME IInv, FramesLinked, NEW p \in Node, NEW c \in Node, Merged(p, c)
  PROVE  FramesLinked'
<1>1. Forward
  BY MergedForward
<1>2. \A h \in DfsFrame : FrameLinked(h) => FrameLinked(h)'
  <2>1. \A h \in DfsFrame : /\ h.n \in Node /\ h.dest0 \in Node
                            /\ h.edges \in SUBSET Node /\ h.add_copy \in SUBSET Node
                            /\ h.del_copy \in SUBSET Node
    BY DEF DfsFrame
  <2>2. \A a, b \in Node : g.rep[a] = g.rep[b] => g'.rep[a] = g'.rep[b]
    BY DEF Merged
  <2> QED
    BY <1>1, <2>1, <2>2 DEF FrameLinked, Forward
<1>3. \A k \in DOMAIN frames : frames[k] \in DfsFrame
  BY LcdTypes
<1>4. frames' = frames /\ pc' \notin {"dfs", "collapse"}
  BY DEF Merged
<1>5. \A k \in DOMAIN frames : k < Len(frames) => FrameLinked(frames[k])
  BY DEF FramesLinked
<1>6. \A k \in DOMAIN frames : k < Len(frames) => FrameLinked(frames[k])'
  BY <1>2, <1>3, <1>4, <1>5
<1> QED
  BY <1>4, <1>6 DEF FramesLinked

(* The HCD variable of a node is, after the merge, that of the node which  *)
(* represents it, at the latest when the nested call is done.              *)
LEMMA MergedVar ==
  ASSUME IInv, FactsHold, NEW p \in Node, NEW c \in Node, Merged(p, c),
         NEW y \in Node, g.rep[y] = y, g.hcd_var[y] # 0, NEW z \in Node, z = g'.rep[y]
  PROVE  /\ g'.hcd_var[z] # 0 /\ g'.hcd_var[z] \in Node /\ g.hcd_var[y] \in Node
         /\ \A w \in Node : g'.rep[w] = g'.rep[g.hcd_var[y]] =>
              Same(w, g.hcd_var[z])' /\ Same(g.hcd_var[z], w)'
<1>1. /\ g.hcd_var[y] \in Node /\ g.hcd_var[p] \in Node /\ g.hcd_var[c] \in Node
      /\ g'.hcd_var[z] \in Node
  BY ZenonT(60) DEF IInv, GraphInv, GraphType, Graph, Merged
<1> SUFFICES /\ g'.hcd_var[z] # 0
             /\ \A v, w \in Node : v = g'.hcd_var[z] /\ g'.rep[w] = g'.rep[g.hcd_var[y]] =>
                  Same(w, v)' /\ Same(v, w)'
  BY <1>1 DEF Same
<1>2. CASE y \notin {p, c}
  <2>1. z = y /\ g'.hcd_var[z] = g.hcd_var[y]
    BY <1>2 DEF Merged
  <2> QED
    BY <1>1, <2>1, MergedSame
<1>3. CASE y \in {p, c}
  <2>1. z = p /\ g'.hcd_var[z] = IF g.hcd_var[p] = 0 THEN g.hcd_var[c] ELSE g.hcd_var[p]
    BY <1>3 DEF Merged
  <2>2. g'.hcd_var[z] # 0
    BY <1>3, <2>1
  <2>3. CASE g'.rep[g'.hcd_var[z]] = g'.rep[g.hcd_var[y]]
    BY <1>1, <2>2, <2>3, MergedSame
  <2>4. CASE g'.rep[g'.hcd_var[z]] # g'.rep[g.hcd_var[y]]
    <3>1. y = c /\ g.hcd_var[p] # 0 /\ g.hcd_var[c] # 0 /\ g'.hcd_var[z] = g.hcd_var[p]
      BY <1>3, <2>1, <2>4
    <3>2. pc' = "merge" /\ marg' = <<g'.rep[g.hcd_var[p]], g'.rep[g.hcd_var[c]]>>
      BY <2>4, <3>1 DEF Merged
    <3> QED
      BY <1>1, <2>2, <3>1, <3>2 DEF Same, Merged
  <2> QED
    BY <2>3, <2>4
<1> QED
  BY <1>2, <1>3

(* The node the outermost merge_nodes is going to return.                  *)
LEMMA MergedHcdOf ==
  ASSUME IInv, FactsHold, NEW p \in Node, NEW c \in Node, Merged(p, c)
  PROVE  /\ HcdOf \in Node /\ HcdOf' \in Node /\ (HcdOf' = 0 <=> HcdOf = 0)
         /\ g'.rep[HcdOf'] = g'.rep[HcdOf]
<1>1. Merging /\ Merging'
  BY DEF Merging, Merged
<1>2. /\ mframes \in Seq(MergeFrame) /\ Len(mframes) \in Nat
      /\ \A k \in 1 .. Len(mframes) : mframes[k].n1 \in Node
      /\ mframes # <<>> => 1 \in 1 .. Len(mframes)
  BY MergeFramesTyped
<1>3. marg[1] \in {p, c} /\ g'.rep[p] = p /\ g'.rep[c] = p /\ p # 0 /\ c # 0
  BY DEF Merged
<1>4. CASE mframes = <<>>
  <2>1. HcdOf = marg[1]
    BY <1>1, <1>4 DEF HcdOf
  <2>2. HcdOf' = p
    <3>1. CASE mframes' = mframes /\ marg' = <<p, p>>
      BY <1>1, <1>4, <3>1 DEF HcdOf
    <3>2. ASSUME NEW v \in Node, mframes' = Append(mframes, [n1 |-> p, rhv2 |-> v])
          PROVE  HcdOf' = p
      <4>1. mframes' = <<[n1 |-> p, rhv2 |-> v]>>
        BY <1>4, <3>2
      <4>2. mframes' # <<>> /\ mframes'[1].n1 = p
        BY <4>1
      <4> QED
        BY <1>1, <4>2 DEF HcdOf
    <3> QED
      BY <3>1, <3>2 DEF Merged
  <2> QED
    BY <1>3, <2>1, <2>2
<1>5. CASE mframes # <<>>
  <2>1. HcdOf = mframes[1].n1 /\ HcdOf \in Node
    BY <1>1, <1>2, <1>5 DEF HcdOf
  <2>2. mframes' # <<>> /\ mframes'[1] = mframes[1]
    <3>1. ASSUME NEW v \in Node, mframes' = Append(mframes, [n1 |-> p, rhv2 |-> v])
          PROVE  mframes' # <<>> /\ mframes'[1] = mframes[1]
      BY <1>2, <1>5, <3>1
    <3> QED
      BY <1>5, <3>1 DEF Merged
  <2>3. HcdOf' = mframes[1].n1
    BY <1>1, <2>2 DEF HcdOf
  <2> QED
    BY <2>1, <2>3
<1>6. HcdOf \in Node /\ HcdOf' \in Node /\ g'.rep[HcdOf'] = g'.rep[HcdOf]
  BY <1>4, <1>5
<1>7. \A x \in Node : g'.rep[x] = 0 <=> x = 0
  BY MergedFacts DEF FactsHold
<1> QED
  BY <1>6, <1>7

LEMMA MergedChain ==
  ASSUME IInv, FactsHold, MergeChain, MergesSeen, NEW p \in Node, NEW c \in Node, Merged(p, c)
  PROVE  MergeChain'
<1> DEFINE N == Len(mframes)
<1>1. Merging /\ Merging' /\ (mret = "collapse" => Last(frames).chg) /\ frames' = frames /\ mret' = mret
  BY DEF Merging, Merged, MergeChain
<1>2. /\ mframes \in Seq(MergeFrame) /\ N \in Nat /\ DOMAIN mframes = 1 .. N
      /\ \A k \in 1 .. N : mframes[k].n1 \in Node /\ QueuesNext(k)
      /\ g \in Graph /\ g' \in Graph
  BY <1>1, MergeFramesTyped DEF MergeChain, Merged, IInv, GraphInv, GraphType
<1>3. pc' = "unwind" => marg'[1] = marg'[2]
  BY DEF Merged
<1>4. /\ marg[1] \in {p, c} /\ g'.rep[p] = p /\ g'.rep[c] = p
  BY DEF Merged
<1>5. \/ mframes' = mframes /\ marg' = <<p, p>>
      \/ /\ DOMAIN mframes' = 1 .. (N + 1) /\ Len(mframes') = N + 1 /\ mframes'[N + 1].n1 = p
         /\ \A k \in 1 .. N : mframes'[k] = mframes[k]
         /\ pc' = "merge" /\ 0 \notin {g.hcd_var[p], g.hcd_var[c]}
         /\ NestedMerge(g, marg[1], marg[2]) # <<>>
         /\ marg' = <<g'.rep[g.hcd_var[p]], g'.rep[g.hcd_var[c]]>>
  <2>1. ASSUME NEW v \in Node, mframes' = Append(mframes, [n1 |-> p, rhv2 |-> v])
        PROVE  /\ DOMAIN mframes' = 1 .. (N + 1) /\ Len(mframes') = N + 1 /\ mframes'[N + 1].n1 = p
               /\ \A k \in 1 .. N : mframes'[k] = mframes[k]
    BY <1>2, <2>1
  <2> QED
    BY <2>1 DEF Merged
<1>6. \A k \in 1 .. N : mframes'[k] = mframes[k] /\ k \in DOMAIN mframes'
  BY <1>2, <1>5
(* The frames that wait already.                                           *)
<1>7. ASSUME NEW k \in 1 .. N
      PROVE  QueuesNext(k)'
  <2>1. PICK y \in Node : y = g.rep[mframes[k].n1]
    BY <1>2 DEF Graph
  <2>2. /\ g.hcd_var[y] # 0 /\ g.prev_points_to[y] = {} /\ g.points_to[y] # {}
        /\ Same(g.hcd_var[y], NextOf(k)) /\ g.rep[y] = y
    BY <1>2, <2>1 DEF QueuesNext, IInv, GraphInv, NonRepEmpty, is_rep
  <2>3. PICK z \in Node : z = g'.rep[y]
    BY <1>2 DEF Graph
  <2>4. g'.rep[mframes'[k].n1] = z
    <3>1. g'.rep[mframes[k].n1] = IF y = c THEN p ELSE y
      BY <1>2, <2>1 DEF Merged
    <3>2. z = IF y = c THEN p ELSE y
      BY <2>2, <2>3 DEF Merged
    <3> QED
      BY <1>6, <3>1, <3>2
  <2>5. g'.prev_points_to[z] = {} /\ g'.points_to[z] # {}
    <3>1. CASE y \in {p, c}
      <4>1. z = p /\ g'.points_to[p] = g.points_to[p] \cup g.points_to[c] /\ g'.prev_points_to[p] = {}
        BY <1>4, <2>3, <3>1 DEF Merged
      <4> QED
        BY <2>2, <3>1, <4>1
    <3>2. CASE y \notin {p, c}
      <4>1. z = y /\ g'.points_to[y] = g.points_to[y] /\ g'.prev_points_to[y] = g.prev_points_to[y]
        BY <2>2, <2>3, <3>2 DEF Merged
      <4> QED
        BY <2>2, <4>1
    <3> QED
      BY <3>1, <3>2
  <2>6. NextOf(k) \in Node /\ g'.rep[NextOf(k)'] = g'.rep[NextOf(k)]
    <3>1. CASE k < N
      <4>1. k + 1 \in 1 .. N /\ k < Len(mframes')
        BY <1>2, <1>5, <3>1
      <4> QED
        BY <1>2, <1>6, <3>1, <4>1 DEF NextOf
    <3>2. CASE k = N
      <4>1. NextOf(k) = marg[1]
        BY <1>2, <3>2 DEF NextOf
      <4>2. NextOf(k)' = p
        <5>1. CASE mframes' = mframes /\ marg' = <<p, p>>
          BY <1>2, <3>2, <5>1 DEF NextOf
        <5>2. CASE Len(mframes') = N + 1 /\ mframes'[N + 1].n1 = p
          BY <1>2, <3>2, <5>2 DEF NextOf
        <5> QED
          BY <1>5, <5>1, <5>2
      <4> QED
        BY <1>4, <4>1, <4>2
    <3> QED
      BY <1>2, <3>1, <3>2
  <2>7. g.hcd_var[y] \in Node /\ g'.hcd_var[z] \in Node /\ g'.hcd_var[z] # 0
        /\ \A w \in Node : g'.rep[w] = g'.rep[g.hcd_var[y]] =>
              Same(w, g.hcd_var[z])' /\ Same(g.hcd_var[z], w)'
    BY <2>2, <2>3, MergedVar
  <2>8. g'.rep[g.hcd_var[y]] = g'.rep[NextOf(k)']
    BY <2>2, <2>6, <2>7, MergedSame
  <2>9. Same(g.hcd_var[z], NextOf(k))'
    <3>1. Same(g.hcd_var[z], g.hcd_var[y])' \/ TRUE
      OBVIOUS
    <3>2. \A w \in Node : w = g.hcd_var[y] => Same(g.hcd_var[z], w)'
      BY <2>7
    <3> QED
      BY <2>7, <2>8, <3>2 DEF Same
  <2> QED
    BY <2>4, <2>5, <2>7, <2>9 DEF QueuesNext
(* The frame of the call that makes a nested one.                          *)
<1>8. CASE Len(mframes') = N + 1
  <2>1. /\ mframes'[N + 1].n1 = p /\ pc' = "merge" /\ 0 \notin {g.hcd_var[p], g.hcd_var[c]}
        /\ NestedMerge(g, marg[1], marg[2]) # <<>>
        /\ marg' = <<g'.rep[g.hcd_var[p]], g'.rep[g.hcd_var[c]]>>
        /\ DOMAIN mframes' = 1 .. (N + 1)
    BY <1>2, <1>5, <1>8
  <2>2. g'.points_to[p] # {} /\ g'.prev_points_to[p] = {} /\ g'.hcd_var[p] = g.hcd_var[p]
    <3>1. g.points_to[marg[1]] \cup g.points_to[marg[2]] # {}
      BY <2>1 DEF MergesSeen, Merged
    <3>2. g.points_to[p] \cup g.points_to[c] # {}
      BY <3>1, ZenonT(60) DEF Merged
    <3>3. /\ g'.points_to[p] = g.points_to[p] \cup g.points_to[c] /\ g'.prev_points_to[p] = {}
          /\ g'.hcd_var[p] = IF g.hcd_var[p] = 0 THEN g.hcd_var[c] ELSE g.hcd_var[p]
      BY DEF Merged
    <3> QED
      BY <2>1, <3>2, <3>3
  <2>3. g'.rep[marg'[1]] = g'.rep[g.hcd_var[p]]
    BY <1>2, <2>1 DEF Graph, Merged
  <2>4. ASSUME NEW k, k = N + 1
        PROVE  QueuesNext(k)'
    <3>1. NextOf(k)' = marg'[1] /\ g'.rep[mframes'[k].n1] = p
      BY <1>2, <1>4, <1>8, <2>1, <2>4 DEF NextOf
    <3> QED
      BY <2>1, <2>2, <2>3, <3>1 DEF QueuesNext, Same
  <2>5. \A k \in DOMAIN mframes' : k \in 1 .. N \/ k = N + 1
    BY <1>2, <2>1
  <2> QED
    BY <1>1, <1>3, <1>7, <2>4, <2>5 DEF MergeChain
<1>9. CASE mframes' = mframes
  BY <1>1, <1>2, <1>3, <1>7, <1>9 DEF MergeChain
<1> QED
  BY <1>5, <1>8, <1>9

LEMMA MergedHcdMet ==
  ASSUME IInv, FactsHold, HcdMet, NEW p \in Node, NEW c \in Node, Merged(p, c)
  PROVE  HcdMet'
<1>1. /\ HcdOf \in Node /\ HcdOf' \in Node /\ (HcdOf' = 0 <=> HcdOf = 0)
      /\ g'.rep[HcdOf'] = g'.rep[HcdOf]
  BY MergedHcdOf
<1>2. /\ (HcdPhase' <=> HcdPhase) /\ (Visiting' <=> Visiting) /\ n' = n /\ n \in Node
      /\ d_points_to' = d_points_to /\ members' = members /\ d_points_to \in SUBSET Node
  BY DEF Merged, HcdPhase, Merging, Visiting, Sweeping, IInv, VisitInv, VisitType
<1>3. \A a \in Node : Same(a, HcdOf) => Same(a, HcdOf)'
  BY <1>1, MergedSame DEF Same
<1>4. ASSUME Visiting, HcdOf # 0, is_rep(g, n)'
      PROVE  (g.hcd_var[n] # 0)' /\ Same(g.hcd_var[n], HcdOf)'
  <2>1. g.rep[n] = n /\ g'.rep[n] = n
    BY <1>2, <1>4 DEF Merged, is_rep
  <2>2. g.hcd_var[n] # 0 /\ Same(g.hcd_var[n], HcdOf)
    BY <1>4, <2>1 DEF HcdMet, is_rep
  <2>3. g'.hcd_var[n] # 0 /\ g.hcd_var[n] \in Node
        /\ \A w \in Node : g'.rep[w] = g'.rep[g.hcd_var[n]] => Same(g.hcd_var[n], w)'
    <3>1. \A z \in Node : z = g'.rep[n] =>
            /\ g'.hcd_var[z] # 0 /\ g.hcd_var[n] \in Node
            /\ \A w \in Node : g'.rep[w] = g'.rep[g.hcd_var[n]] => Same(g.hcd_var[z], w)'
      BY <1>2, <2>1, <2>2, MergedVar
    <3>2. \A z \in Node : z = n => \A w : Same(g.hcd_var[z], w)' <=> Same(g.hcd_var[n], w)'
      BY <1>2 DEF Same
    <3> QED
      BY <1>2, <2>1, <3>1, <3>2
  <2>4. g'.rep[HcdOf'] = g'.rep[g.hcd_var[n]]
    BY <1>1, <2>2, <2>3, MergedSame
  <2>5. \A w \in Node : w = HcdOf' => Same(g.hcd_var[n], w)'
    BY <2>3, <2>4
  <2> QED
    BY <1>1, <1>2, <2>3, <2>5 DEF Same
<1>5. ASSUME Visiting, HcdOf # 0, NEW o \in d_points_to
      PROVE  o = i2p \/ Same(o, HcdOf)' \/ (HcdPhase /\ <<o, NoSite>> \in members)'
  <2>1. o = i2p \/ Same(o, HcdOf) \/ (HcdPhase /\ <<o, NoSite>> \in members)
    BY <1>5 DEF HcdMet
  <2> QED
    BY <1>2, <1>3, <2>1
<1>6. HcdPhase => members \subseteq d_points_to \X {NoSite} /\ (HcdOf = 0 => members = {})
  BY DEF HcdMet
<1> QED
  BY <1>1, <1>2, <1>4, <1>5, <1>6 DEF HcdMet

(* Only the child is visited again without being queued.                   *)
LEMMA MergedCovering ==
  ASSUME IInv, FactsHold, NEW p \in Node, NEW c \in Node, Merged(p, c),
         NEW Q \in SUBSET Node, Covering(Q)'
  PROVE  p \in Q /\ Covering(Q \cup {c})
<1>1. /\ pc = "merge" /\ Merging' /\ Merging
      /\ marg[1] \in {p, c} /\ marg[2] \in {p, c} /\ g.rep[p] = p /\ g.rep[c] = c
      /\ g'.rep[p] = p
  BY DEF Merged, Merging
<1>2. /\ g'.rep[marg'[1]] \in Q /\ g'.rep[marg'[2]] \in Q
      /\ \A k \in DOMAIN mframes' : g'.rep[mframes'[k].n1] \in Q
      /\ \A x \in Node : Queued(x)' => x \in Q
      /\ \A y \in Q : g'.hcd_var[y] # 0 /\ g'.points_to[y] # g'.prev_points_to[y] =>
                         g'.rep[g'.hcd_var[y]] \in Q
  BY <1>1 DEF Covering
<1>3. /\ mframes \in Seq(MergeFrame) /\ Len(mframes) \in Nat /\ DOMAIN mframes = 1 .. Len(mframes)
      /\ \A k \in DOMAIN mframes : mframes[k].n1 \in Node
      /\ marg' = <<p, p>> \/ marg' = <<g'.rep[g.hcd_var[p]], g'.rep[g.hcd_var[c]]>>
      /\ g.hcd_var \in [Node -> Node] /\ g.rep \in [Node -> Node]
      /\ g'.hcd_var \in [Node -> Node] /\ g'.rep \in [Node -> Node]
  BY MergeFramesTyped DEF Merged, IInv, GraphInv, GraphType, Graph
<1>4. p \in Q /\ \A k \in DOMAIN mframes : g'.rep[mframes[k].n1] \in Q
  <2>1. CASE marg' = <<p, p>> /\ mframes' = mframes
    BY <1>1, <1>2, <2>1
  <2>2. ASSUME NEW v \in Node, mframes' = Append(mframes, [n1 |-> p, rhv2 |-> v])
        PROVE  p \in Q /\ \A k \in DOMAIN mframes : g'.rep[mframes[k].n1] \in Q
    <3>1. /\ Len(mframes) + 1 \in DOMAIN mframes' /\ mframes'[Len(mframes) + 1].n1 = p
          /\ \A k \in DOMAIN mframes : k \in DOMAIN mframes' /\ mframes'[k] = mframes[k]
      BY <1>3, <2>2
    <3> QED
      BY <1>1, <1>2, <3>1
  <2> QED
    BY <2>1, <2>2 DEF Merged
<1>5. ASSUME NEW x \in Node, g'.rep[x] \in Q
      PROVE  g.rep[x] \in Q \cup {c}
  BY <1>5 DEF Merged
<1>6. ASSUME NEW x \in Node, Queued(x)
      PROVE  x \in Q \cup {c}
  <2>1. PICK e \in curr \cup next : e[1] = x /\ g.rep[x] = x /\ ~(e[2] < g.vtime[x])
    BY <1>6 DEF Queued, IsStale, is_rep
  <2>2. CASE x # c
    <3>1. g'.rep[x] = x /\ g'.vtime[x] <= g.vtime[x] /\ e \in curr' \cup next'
      BY <2>1, <2>2 DEF Merged
    <3>2. g'.vtime[x] \in Nat /\ g.vtime[x] \in Nat /\ e[2] \in Nat
      BY <2>1, ZenonT(60) DEF IInv, GraphInv, GraphType, Graph, Merged, WorkType, Heaps
    <3>3. ~(e[2] < g'.vtime[x])
      BY <2>1, <3>1, <3>2
    <3>4. Queued(x)'
      BY <2>1, <3>1, <3>3 DEF Queued, IsStale, is_rep
    <3> QED
      BY <1>2, <3>4
  <2> QED
    BY <2>2
<1>7. ASSUME NEW y \in Q \cup {c}, g.hcd_var[y] # 0, g.points_to[y] # g.prev_points_to[y]
      PROVE  g.rep[g.hcd_var[y]] \in Q \cup {c}
  <2>0. y \in Node /\ g.hcd_var[y] \in Node
    BY <1>3
  <2>1. CASE y \notin {p, c}
    <3>1. y \in Q /\ g'.hcd_var[y] = g.hcd_var[y] /\ g'.points_to[y] = g.points_to[y]
          /\ g'.prev_points_to[y] = g.prev_points_to[y]
      BY <2>0, <2>1 DEF Merged
    <3> QED
      BY <1>2, <1>5, <1>7, <2>0, <3>1
  <2>2. CASE y \in {p, c}
    <3>1. g.points_to[y] # {}
      BY <1>7, <2>0 DEF FactsHold
    <3>2. /\ g'.points_to[p] = g.points_to[p] \cup g.points_to[c] /\ g'.prev_points_to[p] = {}
          /\ g.rep[y] = y /\ g'.rep[y] = p
      BY <2>2 DEF Merged
    <3>3. g'.points_to[p] # g'.prev_points_to[p]
      BY <2>2, <3>1, <3>2
    <3>4. /\ g'.hcd_var[p] # 0 /\ g'.hcd_var[p] \in Node
          /\ \A w \in Node : g'.rep[w] = g'.rep[g.hcd_var[y]] => Same(g.hcd_var[p], w)'
      BY <1>7, <2>0, <3>2, MergedVar
    <3>5. g'.rep[g'.hcd_var[p]] \in Q
      BY <1>2, <1>4, <3>3, <3>4
    <3>6. \A w \in Node : w = g.hcd_var[y] => Same(g.hcd_var[p], w)'
      BY <3>4
    <3>7. \/ g'.rep[g'.hcd_var[p]] = g'.rep[g.hcd_var[y]]
          \/ g'.rep[g.hcd_var[y]] \in {marg'[1], marg'[2]}
      BY <2>0, <3>6 DEF Same
    <3>8. g'.rep[g.hcd_var[y]] \in Q
      <4>1. g'.rep[g'.rep[g.hcd_var[y]]] = g'.rep[g.hcd_var[y]]
        BY <2>0 DEF Merged
      <4> QED
        BY <1>2, <3>5, <3>7, <4>1
    <3> QED
      BY <1>5, <2>0, <3>8
  <2> QED
    BY <2>1, <2>2
<1>8. g.rep[marg[1]] \in Q \cup {c} /\ g.rep[marg[2]] \in Q \cup {c}
  BY <1>1, <1>4
<1>9. \A k \in DOMAIN mframes : g.rep[mframes[k].n1] \in Q \cup {c}
  BY <1>3, <1>4, <1>5
<1> QED
  BY <1>1, <1>4, <1>6, <1>7, <1>8, <1>9 DEF Covering

(* What is settled after the merge is so before, and not of the two nodes. *)
LEMMA MergedSettled ==
  ASSUME IInv, NEW p \in Node, NEW c \in Node, Merged(p, c), NEW Q \in SUBSET Node, p \in Q,
         NEW x \in Node, NEW o \in Settled(Q, x)'
  PROVE  x \notin {p, c} /\ o \in Settled(Q \cup {c}, x) /\ o \in Node
<1>1. o \in IF x \in Q THEN g'.prev_points_to[x] ELSE g'.points_to[x]
  BY DEF Settled
<1>2. x \notin {p, c}
  BY <1>1 DEF Merged
<1>3. g'.prev_points_to[x] = g.prev_points_to[x] /\ g'.points_to[x] = g.points_to[x]
  BY <1>2 DEF Merged
<1>4. o \in Settled(Q \cup {c}, x)
  BY <1>1, <1>2, <1>3 DEF Settled
<1>5. o \in Node
  BY <1>1 DEF Merged, Graph
<1> QED
  BY <1>2, <1>4, <1>5

LEMMA ListTyped ==
  ASSUME IInv, NEW x \in Node, NEW cid \in g.cons[x]
  PROVE  /\ cplx_cons[cid] \in Constraint
         /\ cplx_cons[cid].dest \in Node /\ cplx_cons[cid].src \in Node
<1>1. cid \in DOMAIN cplx_cons /\ cplx_cons \in Seq(Constraint)
  BY DEF IInv, GraphInv, GraphType
<1>2. cplx_cons[cid] \in Constraint
  BY <1>1
<1> QED
  BY <1>2 DEF Constraint

LEMMA MergedNoneLost ==
  ASSUME IInv, FactsHold, NEW p \in Node, NEW c \in Node, Merged(p, c), NEW Q \in SUBSET Node,
         p \in Q, NoneLost(Q \cup {c})
  PROVE  NoneLost(Q)'
<1>1. Forward
  BY MergedForward
<1>2. /\ ComplexCons' = ComplexCons /\ sys' = sys /\ n' = n /\ d_points_to' = d_points_to
      /\ members' = members /\ cplx_cons' = cplx_cons /\ icall_cons' = icall_cons
  BY DEF Merged, ComplexCons, Complex
<1>3. /\ (HcdPhase' <=> HcdPhase) /\ (Visiting' <=> Visiting) /\ ~Sweeping /\ ~Sweeping'
      /\ pc \notin {"member", "prop"} /\ pc' \notin {"member", "prop"}
  BY DEF Merged, HcdPhase, Merging, Visiting, Sweeping
<1>4. /\ g.rep \in [Node -> Node] /\ g.hcd_var \in [Node -> Node] /\ g'.rep \in [Node -> Node]
      /\ \A y \in Node : g.rep[g.rep[y]] = g.rep[y]
      /\ \A y \in Node : g'.rep[y] = IF g.rep[y] = c THEN p ELSE g.rep[y]
      /\ g.rep[p] = p /\ g.rep[c] = c
  BY DEF IInv, GraphInv, GraphType, Graph, NonRepEmpty, is_rep, Merged
<1>5. \A y \in Node : g'.rep[y] \notin {p, c} => g'.rep[y] = g.rep[y]
  BY <1>4
<1>6. \A C, D : C.dest \in Node /\ C.src \in Node /\ D.dest \in Node /\ D.src \in Node /\ SameCons(C, D)
                  => SameCons(C, D)'
  BY <1>4 DEF SameCons
<1>7. ConsKept(Q)'
  <2> SUFFICES ASSUME NEW C \in ComplexCons, ~Gone(C)'
               PROVE  /\ Listed(C)'
                      /\ \A o \in Settled(Q, g.rep[Base(C)])' : Solved(C, o)' \/ Pending(C, o)'
    BY <1>2 DEF ConsKept
  <2>1. C.dest \in Node /\ C.src \in Node /\ Base(C) \in Node
    BY ComplexTyped
  <2>2. PICK y \in Node : y = g.rep[Base(C)]
    BY <1>4, <2>1
  <2>3. PICK z \in Node : z = g'.rep[Base(C)]
    BY <1>4, <2>1
  <2>4. g'.rep[y] = z /\ g.rep[y] = y /\ z = (IF y = c THEN p ELSE y)
    BY <1>4, <2>1, <2>2, <2>3
  <2>5. ~Gone(C)
    <3> SUFFICES ASSUME Gone(C)
                 PROVE  Gone(C)'
      OBVIOUS
    <3>1. PICK w \in Node : Same(w, g.hcd_var[y]) /\ Linked(C, w)
      BY <2>2 DEF Gone
    <3>2. C.off = 0 /\ C.type \in {"load", "store"} /\ g.hcd_var[y] # 0
      BY <2>2 DEF Gone
    <3>3. /\ g'.hcd_var[z] # 0 /\ g.hcd_var[y] \in Node
          /\ \A v \in Node : g'.rep[v] = g'.rep[g.hcd_var[y]] => Same(v, g.hcd_var[z])'
      BY <2>4, <3>2, MergedVar
    <3>4. Linked(C, w)'
      BY <1>1, <3>1, ForwardLinked
    <3>5. Same(w, g.hcd_var[z])'
      BY <3>1, <3>3, MergedSame
    <3>6. Same(w, g.hcd_var[g.rep[Base(C)]])'
      BY <2>3, <3>5 DEF Same
    <3> QED
      BY <2>3, <3>2, <3>3, <3>4, <3>6 DEF Gone
  <2>6. Listed(C) /\ \A o \in Settled(Q \cup {c}, y) : Solved(C, o) \/ Pending(C, o)
    BY <2>2, <2>5 DEF NoneLost, ConsKept
  <2>7. \A cid \in g.cons[y] : cid \in g'.cons[z]
    BY <2>4 DEF Merged
  <2>8. \A cid \in g.cons[y] : cplx_cons[cid] \in Constraint /\ cplx_cons[cid].dest \in Node
                               /\ cplx_cons[cid].src \in Node
    BY ListTyped
  <2>9. \A cid \in g.cons[y] : SameCons(cplx_cons[cid], C) => SameCons(cplx_cons[cid], C)'
    BY <1>2, <2>1, <2>8, <1>4 DEF SameCons
  <2>10. Listed(C)'
    <3>1. PICK cid \in g.cons[y] : SameCons(cplx_cons[cid], C)
      BY <2>2, <2>6 DEF Listed
    <3> QED
      BY <1>3, <2>3, <2>7, <2>9, <3>1 DEF Listed, Doomed
  <2>11. ASSUME NEW o \in Settled(Q, g.rep[Base(C)])'
         PROVE  Solved(C, o)' \/ Pending(C, o)'
    <3>1. o \in Settled(Q, z)'
      BY <2>3, <2>11 DEF Settled
    <3>2. z \notin {p, c} /\ o \in Settled(Q \cup {c}, z) /\ o \in Node
      BY <3>1, MergedSettled
    <3>3. y = z
      BY <2>4, <3>2
    <3>4. CASE Solved(C, o)
      BY <1>1, <3>2, <3>4, ForwardSolved
    <3>5. CASE Pending(C, o)
      <4>1. Visiting /\ n = y /\ o \in d_points_to
            /\ \E cid \in g.cons[n] : SameCons(cplx_cons[cid], C)
        BY <1>3, <2>2, <3>5 DEF Pending
      <4>2. \E cid \in g'.cons[n] : SameCons(cplx_cons[cid], C)'
        BY <2>7, <2>9, <3>3, <4>1
      <4>3. \A cid : Ahead(cid)'
        BY <1>3 DEF Ahead
      <4> QED
        BY <1>2, <1>3, <2>3, <3>3, <4>1, <4>2, <4>3 DEF Pending
    <3> QED
      BY <2>6, <3>2, <3>3, <3>4, <3>5
  <2> QED
    BY <2>10, <2>11
<1>8. EdgesKept(Q)'
  <2>1. ASSUME NEW x \in Node, NEW d \in g'.copy_to[x], i2p \notin {x, d}, NEW o \in Settled(Q, x)'
        PROVE  o \in g'.points_to[g'.rep[d]] \/ (Visiting /\ x = n /\ o \in d_points_to)
    <3>1. x \notin {p, c} /\ o \in Settled(Q \cup {c}, x) /\ o \in Node
      BY <2>1, MergedSettled
    <3>2. d \in g.copy_to[x] /\ d \in Node
      BY <2>1, <3>1 DEF Merged, Graph
    <3>3. o \in g.points_to[g.rep[d]] \/ (Visiting /\ x = n /\ o \in d_points_to)
      BY <1>3, <2>1, <3>1, <3>2 DEF NoneLost, EdgesKept
    <3> QED
      BY <3>2, <3>3 DEF Merged, Grown
  <2> QED
    BY <1>2, <1>3, <2>1 DEF EdgesKept
<1>9. HcdKept(Q)'
  <2>1. ASSUME NEW C \in ComplexCons, NEW z \in Node, z = g'.rep[Base(C)], g'.hcd_var[z] # 0,
               NEW o \in Settled(Q, z)'
        PROVE  o = i2p \/ Same(o, g.hcd_var[z])' \/ (HcdPhase /\ z = n /\ <<o, NoSite>> \in members)
    <3>1. z \notin {p, c} /\ o \in Settled(Q \cup {c}, z) /\ o \in Node
      BY <2>1, MergedSettled
    <3>2. z = g.rep[Base(C)] /\ g'.hcd_var[z] = g.hcd_var[z] /\ g.hcd_var[z] \in Node
      <4>1. Base(C) \in Node
        BY ComplexTyped
      <4> QED
        BY <1>4, <1>5, <2>1, <3>1, <4>1 DEF Merged
    <3>3. o = i2p \/ Same(o, g.hcd_var[z]) \/ (HcdPhase /\ z = n /\ <<o, NoSite>> \in members)
      BY <2>1, <3>1, <3>2 DEF NoneLost, HcdKept
    <3>4. Same(o, g.hcd_var[z]) => g'.rep[o] = g'.rep[g.hcd_var[z]]
      BY <3>1, <3>2, MergedSame
    <3>5. g'.rep[o] = g'.rep[g.hcd_var[z]] => Same(o, g.hcd_var[z])'
      BY <3>2 DEF Same
    <3> QED
      BY <3>3, <3>4, <3>5
  <2>2. \A C \in ComplexCons : g'.rep[Base(C)] \in Node
    BY <1>4, ComplexTyped
  <2>3. \A C \in ComplexCons : \A z \in Node : z = g'.rep[Base(C)] /\ g'.hcd_var[z] # 0 =>
          \A o \in Settled(Q, z)' :
            o = i2p \/ Same(o, g.hcd_var[z])' \/ (HcdPhase /\ z = n /\ <<o, NoSite>> \in members)
    BY <2>1
  <2>4. \A C \in ComplexCons : (g.hcd_var[g.rep[Base(C)]] # 0)' =>
          \A o \in Settled(Q, g.rep[Base(C)])' :
            \/ o = i2p \/ Same(o, g.hcd_var[g.rep[Base(C)]])'
            \/ HcdPhase /\ g'.rep[Base(C)] = n /\ <<o, NoSite>> \in members
    BY <2>2, <2>3 DEF Settled, Same
  <2> QED
    BY <1>2, <1>3, <2>4 DEF HcdKept
<1>10. ExtKept(Q)'
  <2>1. ASSUME NEW call \in sys.icall, NEW z \in Node, z = g'.rep[Base(call[1])],
               NEW o \in Settled(Q, z)', o \in ExtNode
        PROVE  EffectHolds(<<o, call[2]>>)' \/ (Visiting /\ z = n /\ o \in d_points_to /\ Waiting(call)')
    <3>1. z \notin {p, c} /\ o \in Settled(Q \cup {c}, z)
      BY <2>1, MergedSettled
    <3>2. /\ call \in Constraint \X Site /\ call[1].dest \in Node /\ call[1].src \in Node
          /\ Base(call[1]) \in Node /\ <<o, call[2]>> \in ExtNode \X Site
      BY <2>1 DEF IInv, GraphInv, GraphType, System, Constraint, Base
    <3>3. z = g.rep[Base(call[1])]
      BY <1>5, <2>1, <3>1, <3>2
    <3>4. EffectHolds(<<o, call[2]>>) \/ (Visiting /\ z = n /\ o \in d_points_to /\ Waiting(call))
      BY <1>3, <2>1, <3>1, <3>3 DEF NoneLost, ExtKept
    <3>5. Waiting(call) /\ z = n => Waiting(call)'
      <4> SUFFICES ASSUME Waiting(call), z = n
                   PROVE  Waiting(call)'
        OBVIOUS
      <4>1. PICK cid \in g.cons[n] : /\ <<cplx_cons[cid], call[2]>> \in icall_cons
                                     /\ SameCons(cplx_cons[cid], call[1])
        BY DEF Waiting
      <4>2. cid \in g'.cons[n]
        BY <3>1 DEF Merged
      <4>3. cplx_cons[cid].dest \in Node /\ cplx_cons[cid].src \in Node
        BY <1>2, <4>1, ListTyped DEF IInv, VisitInv, VisitType
      <4>4. SameCons(cplx_cons[cid], call[1])'
        BY <1>2, <1>4, <3>2, <4>1, <4>3 DEF SameCons
      <4> QED
        BY <1>2, <1>3, <4>1, <4>2, <4>4 DEF Waiting, Ahead
    <3> QED
      BY <1>1, <3>2, <3>4, <3>5, ForwardEffect
  <2>2. \A call \in sys.icall : g'.rep[Base(call[1])] \in Node
    BY <1>4 DEF IInv, GraphInv, GraphType, System, Constraint, Base
  <2>3. \A call \in sys.icall : \A z \in Node : z = g'.rep[Base(call[1])] =>
          \A o \in Settled(Q, z)' : o \in ExtNode =>
            EffectHolds(<<o, call[2]>>)' \/ (Visiting /\ z = n /\ o \in d_points_to /\ Waiting(call)')
    BY <2>1
  <2>4. \A call \in sys.icall : \A o \in Settled(Q, g.rep[Base(call[1])])' : o \in ExtNode =>
            \/ EffectHolds(<<o, call[2]>>)'
            \/ Visiting /\ g'.rep[Base(call[1])] = n /\ o \in d_points_to /\ Waiting(call)'
    BY <2>2, <2>3 DEF Settled
  <2> QED
    BY <1>2, <1>3, <2>4 DEF ExtKept
<1> QED
  BY <1>7, <1>8, <1>9, <1>10 DEF NoneLost

LEMMA MergeNodesSound ==
  ASSUME IInv, SoundInv, MergesSeen, MergeNodes, pc' # "abort"
  PROVE  SoundInv'
<1>1. PICK p \in Node, c \in Node : Merged(p, c)
  BY MergeNodesMerges
<1>2. /\ FactsHold /\ FramesLinked /\ HcdMet /\ MergeChain
      /\ \A Q \in SUBSET Node : Covering(Q) => NoneLost(Q)
      /\ pc' \notin {"cons", "member", "end", "done"}
  BY <1>1 DEF SoundInv, Merged
<1>3. FactsHold' /\ FramesLinked' /\ MergeChain' /\ HcdMet'
  BY <1>1, <1>2, MergedFacts, MergedFrames, MergedChain, MergedHcdMet
<1>4. SeenMet' /\ CallMember'
  BY <1>2 DEF SeenMet, CallMember, Sweeping
<1>5. ASSUME NEW Q \in SUBSET Node, Covering(Q)'
      PROVE  NoneLost(Q)'
  <2>1. p \in Q /\ Covering(Q \cup {c}) /\ Q \cup {c} \in SUBSET Node
    BY <1>1, <1>2, <1>5, MergedCovering
  <2>2. NoneLost(Q \cup {c})
    BY <1>2, <2>1
  <2> QED
    BY <1>1, <1>2, <2>1, <2>2, MergedNoneLost
<1> QED
  BY <1>2, <1>3, <1>4, <1>5 DEF SoundInv

-----------------------------------------------------------------------------
(* All steps *)

(* A node with something to do is queued, and nothing else has to be done. *)
LEMMA InitSound ==
  ASSUME Init, WellFormed(sys)
  PROVE  SoundInv
<1>1. /\ sys \in System /\ g = InitGraph(sys) /\ cplx_cons = sys.cons /\ icall_cons = sys.icall
      /\ ext_seen = {} /\ curr = {<<x, 0>> : x \in {y \in Node : HasWork(g, y)}} /\ next = {}
      /\ pc = "loop" /\ frames = <<>> /\ sys.cons \in Seq(Constraint)
      /\ sys.icall \subseteq Constraint \X Site
  BY InputsAssumption DEF Init, System
<1>2. /\ g.rep = [x \in Node |-> x]
      /\ g.cons = [x \in Node |-> {cid \in Complex(sys) : Base(sys.cons[cid]) = x}]
      /\ g.points_to = [x \in Node |-> {C.src : C \in {c \in OfType(sys, "addr_of") : c.dest = x}}]
      /\ g.copy_to = [x \in Node |-> {C.dest : C \in {c \in OfType(sys, "copy") : c.src = x}}]
      /\ g.prev_points_to = [x \in Node |-> {}] /\ g.vtime = [x \in Node |-> 0]
  BY <1>1 DEF InitGraph
<1>3. \A C \in Range(sys.cons) : C.src \in Node /\ C.dest \in Node /\ Base(C) \in Node
  BY <1>1, ConsTyped DEF Base
<1>4. FactsHold
  <2>1. \A C \in OfType(sys, "addr_of") : C.src \in g.points_to[g.rep[C.dest]]
    BY <1>2, <1>3 DEF OfType
  <2>2. \A C \in OfType(sys, "copy") : HasEdge(C.src, C.dest)
    BY <1>2, <1>3 DEF OfType, HasEdge
  <2>3. \A x \in Node : g.cons[x] \subseteq Complex(sys)
    BY <1>2
  <2>4. \A x \in Node : g.prev_points_to[x] \subseteq g.points_to[x]
    BY <1>2
  <2>5. \A x \in Node : \A t \in {0, i2p} : g.rep[x] = t <=> x = t
    BY <1>2
  <2>6. \A m \in ext_seen : EffectHolds(m)
    BY <1>1
  <2> QED
    BY <2>1, <2>2, <2>3, <2>4, <2>5, <2>6 DEF FactsHold
<1>5. FramesLinked /\ MergeChain /\ HcdMet /\ SeenMet /\ CallMember
  BY <1>1 DEF FramesLinked, MergeChain, HcdMet, SeenMet, CallMember, Merging, HcdPhase, Visiting,
              Sweeping
<1>6. ASSUME NEW Q \in SUBSET Node, Covering(Q)
      PROVE  NoneLost(Q)
  <2>1. ASSUME NEW x \in Node, g.copy_to[x] # {} \/ g.cons[x] # {}
        PROVE  Settled(Q, x) = {}
    <3>1. CASE g.points_to[x] = {}
      BY <1>2, <3>1 DEF Settled
    <3>2. CASE g.points_to[x] # {}
      <4>1. <<x, 0>> \in curr \cup next
        BY <1>1, <2>1, <3>2 DEF HasWork
      <4>2. ~IsStale(<<x, 0>>)
        BY <1>2 DEF IsStale, is_rep
      <4>3. x \in Q
        BY <1>6, <4>1, <4>2 DEF Covering, Queued
      <4> QED
        BY <1>2, <4>3 DEF Settled
    <3> QED
      BY <3>1, <3>2
  <2>2. ASSUME NEW C \in ComplexCons
        PROVE  Listed(C) /\ g.rep[Base(C)] \in Node /\ Settled(Q, g.rep[Base(C)]) = {}
    <3>1. PICK cid \in Complex(sys) : C = sys.cons[cid]
      BY DEF ComplexCons
    <3>2. C \in Range(sys.cons)
      BY <3>1 DEF Complex, Range
    <3>3. g.rep[Base(C)] = Base(C) /\ Base(C) \in Node /\ cid \in g.cons[Base(C)]
      BY <1>2, <1>3, <3>1, <3>2
    <3>4. Listed(C)
      BY <1>1, <3>1, <3>3 DEF Listed, SameCons, Doomed
    <3> QED
      BY <2>1, <3>3, <3>4
  <2>3. ConsKept(Q)
    BY <2>2 DEF ConsKept
  <2>4. HcdKept(Q)
    BY <2>2 DEF HcdKept
  <2>5. EdgesKept(Q)
    BY <2>1 DEF EdgesKept
  <2>6. ExtKept(Q)
    <3>1. ASSUME NEW call \in sys.icall
          PROVE  Settled(Q, g.rep[Base(call[1])]) = {}
      <4>1. call[1] \in ComplexCons
        BY <1>1 DEF WellFormed, ComplexCons, Complex, Range
      <4> QED
        BY <2>2, <4>1
    <3> QED
      BY <3>1 DEF ExtKept
  <2> QED
    BY <2>3, <2>4, <2>5, <2>6 DEF NoneLost
<1> QED
  BY <1>1, <1>4, <1>5, <1>6 DEF SoundInv

LEMMA StutterSound ==
  ASSUME SoundInv, UNCHANGED vars
  PROVE  SoundInv'
<1>1. UNCHANGED <<sys, g, cplx_cons, icall_cons, ext_seen, curr, next, pc, gave_up, n, d_points_to,
                  hcd_rep, phase, todo, cons_seen, lsc, members, chg, marg, mframes, mret, frames>>
  BY DEF vars, graphVars, wlVars, visitVars, mergeVars, lcdVars
<1>2. /\ (Merging' <=> Merging) /\ (HcdPhase' <=> HcdPhase) /\ (Visiting' <=> Visiting)
      /\ (Sweeping' <=> Sweeping) /\ ComplexCons' = ComplexCons
      /\ \A a, b : Same(a, b)' <=> Same(a, b)
      /\ \A a, b : HasEdge(a, b)' <=> HasEdge(a, b)
      /\ \A Q, x : Settled(Q, x)' = Settled(Q, x)
      /\ \A C, D : SameCons(C, D)' <=> SameCons(C, D)
      /\ \A cid : Doomed(cid)' <=> Doomed(cid)
      /\ \A C : Updated(C)' = Updated(C)
  BY <1>1 DEF Merging, HcdPhase, Visiting, Sweeping, ComplexCons, Complex, Same, HasEdge, Settled,
              SameCons, Doomed, Updated, get_node_rep
<1>3. /\ \A C, w : Linked(C, w)' <=> Linked(C, w)
      /\ \A C, o : Solved(C, o)' <=> Solved(C, o)
      /\ \A m : EffectHolds(m)' <=> EffectHolds(m)
      /\ \A cid : Ahead(cid)' <=> Ahead(cid)
  BY <1>1, <1>2, ZenonT(60) DEF Linked, Solved, EffectHolds, Ahead, IsCall
<1>4. /\ \A C, o : Pending(C, o)' <=> Pending(C, o)
      /\ \A C : Gone(C)' <=> Gone(C)
      /\ \A C : Listed(C)' <=> Listed(C)
      /\ \A call : Waiting(call)' <=> Waiting(call)
  BY <1>1, <1>2, <1>3 DEF Pending, Gone, Listed, Waiting
<1>5. FactsHold => FactsHold'
  BY <1>1, <1>2, <1>3 DEF FactsHold, OfType, Complex
<1>6. FramesLinked => FramesLinked'
  BY <1>1, <1>2 DEF FramesLinked, FrameLinked, is_rep
<1>7. MergeChain => MergeChain'
  BY <1>1, <1>2 DEF MergeChain, QueuesNext, NextOf
<1>8. HcdMet => HcdMet'
  BY <1>1, <1>2 DEF HcdMet, HcdOf, is_rep
<1>9. SeenMet => SeenMet'
  BY <1>1, <1>2, <1>3 DEF SeenMet, SeenKept, ListOf
<1>10. CallMember => CallMember'
  BY <1>1 DEF CallMember, IsCall
<1>11. ASSUME NEW Q, Covering(Q)'
       PROVE  Covering(Q)
  <2>1. \A x : Queued(x)' <=> Queued(x)
    BY <1>1 DEF Queued, IsStale, is_rep
  <2> QED
    BY <1>1, <1>2, <1>11, <2>1 DEF Covering
<1>12. ASSUME NEW Q, NoneLost(Q)
       PROVE  NoneLost(Q)'
  <2>1. ConsKept(Q)'
    BY <1>1, <1>2, <1>3, <1>4, <1>12 DEF NoneLost, ConsKept
  <2>2. EdgesKept(Q)'
    BY <1>1, <1>2, <1>12 DEF NoneLost, EdgesKept
  <2>3. HcdKept(Q)'
    BY <1>1, <1>2, <1>12 DEF NoneLost, HcdKept
  <2>4. ExtKept(Q)'
    BY <1>1, <1>2, <1>3, <1>4, <1>12 DEF NoneLost, ExtKept
  <2> QED
    BY <2>1, <2>2, <2>3, <2>4 DEF NoneLost
<1>13. IsSolution(sys, Result)' <=> IsSolution(sys, Result)
  BY <1>1 DEF Result
<1> QED
  BY <1>1, <1>5, <1>6, <1>7, <1>8, <1>9, <1>10, <1>11, <1>12, <1>13 DEF SoundInv

LEMMA NextSound ==
  ASSUME IInv, ConsInv, SoundInv, AsExpected, [Next]_vars
  PROVE  SoundInv'
<1>1. CASE UNCHANGED vars
  BY <1>1, StutterSound
<1>2. CASE pc' = "abort"
  BY <1>2, AbortSound
<1>3. CASE Loop /\ pc' # "abort"
  <2>1. ASSUME NEW e \in curr, Visit(e)
        PROVE  SoundInv'
    BY <2>1, VisitNothingSound, VisitNewSound
  <2> QED
    BY <1>3, <2>1, SwapIfEmptySound, ConvergeSound, PopStaleSound DEF Loop
<1>4. CASE SolveNode /\ pc' # "abort"
  BY <1>4, HcdMemberSound, HcdDoneSound, NextPhaseSound, LsConsSound, LoadMemberSound,
     StoreMemberSound, HandleExtSound, LsDoneSound, GepConsSound, PropSound DEF SolveNode
<1>5. CASE Merge /\ pc' # "abort"
  BY <1>5, MergeNodesSound, MergeReturnSound, ReturnToHcdSound, ReturnToCollapseSound
     DEF Merge, AsExpected
<1>6. CASE (GiveUp \/ KeepGoing \/ Finish) /\ pc' # "abort"
  BY <1>6, CheckSound, FinishSound
<1>7. CASE Lcd /\ pc' # "abort"
  BY <1>7, CheckSound, LcdStartSound, LcdDoneSound, DfsEdgeSound, DfsReturnSound, DfsDoneSound,
     CollapseNodeSound, CollapsedSound DEF Lcd
<1> QED
  BY <1>1, <1>2, <1>3, <1>4, <1>5, <1>6, <1>7 DEF Next

LEMMA SoundInductive == Spec /\ []AsExpected => []SoundInv
<1>1. Init => SoundInv
  BY InitSound, WellFormedAssumption DEF Init
<1>2. IInv /\ ConsInv /\ SoundInv /\ AsExpected /\ [Next]_vars => SoundInv'
  BY NextSound
<1>3. Init => ConsInv
  BY InitCalls, WellFormedAssumption DEF Init
<1>4. IInv /\ ConsInv /\ [Next]_vars => ConsInv'
  BY NextCalls
<1>5. Spec => []IInv
  BY Inductive
<1> QED
  BY <1>1, <1>2, <1>3, <1>4, <1>5, PTL DEF Spec

(* When the solver stops because nothing is queued any more, what it found *)
(* solves all the constraints it was given, the ones it deleted as         *)
(* redundant or replaced by an edge to an HCD variable included, as long   *)
(* as the merges are of the kind the code expects (AsExpected).            *)
THEOREM StaysSound == Spec /\ []AsExpected => []Sound
<1>1. SoundInv => Sound
  BY DEF SoundInv, Sound
<1>2. Spec /\ []AsExpected => []SoundInv
  BY SoundInductive
<1> QED
  BY <1>1, <1>2, PTL

-----------------------------------------------------------------------------
(* Inputs with at most one HCD variable *)

(* The inputs of the next theorems: the offline cycles are cycles of the   *)
(* least solution and have one HCD variable, only parameters have a type   *)
(* that is no pointer, and a call is told from what is none by its offset. *)
SimpleInput(s) ==
  /\ Faithful(s, Least(s))
  /\ \E w \in Node : \A x \in Node : s.hcd_var[x] \in {0, w}
  /\ \A i, j \in Complex(s) :
       LET C == s.cons[i]  D == s.cons[j]
       IN C.off # 0 /\ C.type = D.type /\ C.off = D.off => (IsCall(s, C) <=> IsCall(s, D))

LEMMA SimpleIsExpected ==
  ASSUME IsFiniteSet(Node), NonPtrVal \subseteq IntParams, \A s \in Inputs : SimpleInput(s),
         IInv, AboveInv, OneHcdVar
  PROVE  AsExpected /\ NoNestedLcd
<1>1. NestedMerge(g, marg[1], marg[2]) = <<>>
  BY OneHcdVarNests
<1>2. sys \in Inputs
  BY DEF AboveInv
<1>3. CallsApart
  BY <1>2 DEF SimpleInput, CallsApart, ComplexCons, SameCons
<1>4. TypesKept
  <2> DEFINE S == LeastOf[sys]
  <2>1. BelowInv(S)
    BY <1>2, LeastOfSolves DEF AboveInv
  <2>2. \A t \in IntParams : \A x \in Node : g.rep[x] = t <=> x = t
    BY <2>1 DEF BelowInv, BelowGraph, Under
  <2> QED
    BY <2>2 DEF TypesKept
<1> QED
  BY <1>1, <1>3, <1>4 DEF AsExpected, MergesSeen, NoNestedLcd

LEMMA SimpleSpec ==
  ASSUME IsFiniteSet(Node), NonPtrVal \subseteq IntParams, \A s \in Inputs : SimpleInput(s)
  PROVE  Spec => []AsExpected /\ []NoNestedLcd
<1>1. Init => OneHcdVar
  BY DEF Init, OneHcdVar, InitGraph, SimpleInput
<1>2. IInv /\ OneHcdVar /\ [Next]_vars => OneHcdVar'
  BY OneHcdVarStays
<1>3. IInv /\ OneHcdVar => NoNestedLcd
  BY OneHcdVarNests DEF NoNestedLcd
<1>4. Spec => []IInv
  BY Inductive
<1>5. Spec /\ []NoNestedLcd => []AboveInv
  BY StaysAbove DEF SimpleInput
<1>6. IInv /\ AboveInv /\ OneHcdVar => AsExpected
  BY SimpleIsExpected
<1> QED
  BY <1>1, <1>2, <1>3, <1>4, <1>5, <1>6, PTL DEF Spec

(* Whatever the constraints of such an input, the solver stops with a      *)
(* solution of all of them, unless a limit stopped it.                     *)
THEOREM OneCycleStaysSound ==
  ASSUME IsFiniteSet(Node), NonPtrVal \subseteq IntParams, \A s \in Inputs : SimpleInput(s)
  PROVE  Spec => []Sound
<1>1. Spec => []AsExpected
  BY SimpleSpec, PTL
<1> QED
  BY <1>1, StaysSound, PTL

-----------------------------------------------------------------------------
(* The solver implements the abstract one *)

LEMMA SameSolutions ==
  \A s, S : Abs!IsSolution(s, S) <=> IsSolution(s, S)
<1>1. \A s, S : Abs!Flows(s, S) = Flows(s, S)
  BY DEF Abs!Flows, Abs!OfType, Abs!Range, Abs!Base, Abs!Shift, Abs!Fits, Abs!IsCall, Abs!Targets,
         Abs!Effects, Flows, OfType, Range, Base, Shift, Fits, IsCall, Targets, Effects
<1>2. \A s, S, v : Abs!Bases(s, S, v) = Bases(s, S, v)
  BY DEF Abs!Bases, Abs!OfType, Abs!Range, Abs!Base, Abs!Shift, Abs!Fits, Abs!Effects,
         Bases, OfType, Range, Base, Shift, Fits, Effects
<1> QED
  BY <1>1, <1>2 DEF Abs!IsSolution, IsSolution

LEMMA OnlyFinish ==
  ASSUME [Next]_vars
  PROVE  /\ pc = "done" => UNCHANGED vars
         /\ pc # "done" /\ pc' = "done" => Finish
<1>1. ASSUME Loop \/ SolveNode \/ Merge \/ GiveUp \/ KeepGoing \/ Lcd
      PROVE  pc # "done" /\ pc' # "done"
  <2>1. Loop => pc # "done" /\ pc' # "done"
    BY ZenonT(60) DEF Loop, SwapIfEmpty, Converge, PopStale, Visit
  <2>2. SolveNode => pc # "done" /\ pc' # "done"
    BY DEF SolveNode, HcdMember, HcdDone, NextPhase, LsCons, LoadMember, StoreMember, HandleExt,
       LsDone, GepCons, Prop
  <2>3. Merge => pc # "done" /\ pc' # "done"
    BY DEF Merge, MergeNodes, MergeReturn, ReturnToHcd, ReturnToCollapse
  <2>4. GiveUp \/ KeepGoing => pc # "done" /\ pc' # "done"
    BY DEF GiveUp, KeepGoing
  <2>5. DfsEdge => pc # "done" /\ pc' # "done"
    <3> SUFFICES ASSUME DfsEdge
                 PROVE  pc = "dfs" /\ pc' \in {"dfs", "abort"}
      OBVIOUS
    <3> DEFINE f    == frames[Len(frames)]
               d0   == Min(f.edges)
               d    == get_node_rep(d0)
               skip == d \in f.add_copy \/ d = f.n
               down == d \notin lcd_roots /\ lcd_dfs_id[d] = Unvisited
    <3>1. pc = "dfs"
      BY DEF DfsEdge
    <3>2. d0 = f.n => pc' = "abort"
      BY DEF DfsEdge
    <3>3. d0 # f.n /\ skip => pc' = pc
      BY DEF DfsEdge
    <3>4. d0 # f.n /\ ~skip /\ down => pc' \in {pc, "abort"}
      BY DEF DfsEdge
    <3>5. d0 # f.n /\ ~skip /\ ~down => pc' = pc
      BY DEF DfsEdge
    <3> HIDE DEF d0, skip, down
    <3> QED
      BY <3>1, <3>2, <3>3, <3>4, <3>5
  <2>6. Lcd => pc # "done" /\ pc' # "done"
    <3>1. RunLcd \/ LcdDone \/ Collapsed => pc # "done" /\ pc' # "done"
      BY DEF RunLcd, LcdDone, Collapsed, Leave
    <3>2. LcdStart => pc # "done" /\ pc' # "done"
      BY DEF LcdStart
    <3>3. DfsReturn => pc # "done" /\ pc' # "done"
      BY DEF DfsReturn
    <3>4. DfsDone => pc # "done" /\ pc' # "done"
      BY DEF DfsDone, Leave
    <3>5. CollapseNode => pc # "done" /\ pc' # "done"
      BY DEF CollapseNode
    <3> QED
      BY <2>5, <3>1, <3>2, <3>3, <3>4, <3>5 DEF Lcd
  <2> QED
    BY <1>1, <2>1, <2>2, <2>3, <2>4, <2>6
<1>2. Finish => pc # "done"
  BY DEF Finish
<1>3. UNCHANGED vars => pc' = pc
  BY DEF vars
<1> QED
  BY <1>1, <1>2, <1>3 DEF Next

LEMMA StepImplements ==
  ASSUME IInv, Precise', SoundInv, [Next]_vars
  PROVE  [Abs!Next]_(Abs!vars)
<1>1. CASE pc = "done"
  <2>1. UNCHANGED vars
    BY <1>1, OnlyFinish
  <2>2. UNCHANGED <<sys, g, pc, gave_up>>
    BY <2>1 DEF vars, graphVars
  <2>3. UNCHANGED Result
    BY <2>2 DEF Result
  <2> QED
    BY <2>2, <2>3 DEF Abs!vars
<1>2. CASE pc # "done" /\ pc' = "done"
  <2>1. Finish
    BY <1>2, OnlyFinish
  <2>2. pc = "end" /\ UNCHANGED <<sys, g, gave_up>>
    BY <2>1 DEF Finish
  <2>3. Result' = Result
    BY <2>2 DEF Result
  <2>4. ~gave_up => IsSolution(sys, Result)
    BY <2>2 DEF SoundInv
  <2>5. CASE gave_up
    BY <1>2, <2>2, <2>3, <2>5 DEF Abs!Next, Abs!Exhausted
  <2>6. CASE ~gave_up
    BY <1>2, <2>2, <2>3, <2>4, <2>6, SameSolutions DEF Abs!Next, Abs!Solved
  <2> QED
    BY <2>5, <2>6
<1>3. CASE pc # "done" /\ pc' # "done"
  <2>1. sys' = sys
    BY SysKept
  <2>2. \A x \in Node : Result[x] \subseteq Result'[x]
    BY StepInv DEF Grown, Result
  <2>3. \A x \in Node : Result'[x] \subseteq LeastOf[sys][x]
    BY <2>1 DEF Precise
  <2> QED
    BY <1>3, <2>1, <2>2, <2>3 DEF Abs!Next, Abs!Discover, Abs!Below
<1> QED
  BY <1>1, <1>2, <1>3

LEMMA InitImplements == Init => Abs!Init
<1> SUFFICES ASSUME Init
             PROVE  Abs!Init
  OBVIOUS
<1>1. sys \in Inputs /\ g = InitGraph(sys) /\ pc = "loop"
  BY DEF Init
<1>2. \A x \in Node : g.rep[x] = x
  BY <1>1 DEF InitGraph
<1>3. g.points_to = [x \in Node |-> {C.src : C \in {c \in OfType(sys, "addr_of") : c.dest = x}}]
  BY <1>1 DEF InitGraph
<1>4. Result = [x \in Node |-> {C.src : C \in {c \in OfType(sys, "addr_of") : c.dest = x}}]
  BY <1>2, <1>3 DEF Result
<1> QED
  BY <1>1, <1>4 DEF Abs!Init, Abs!OfType, Abs!Range, OfType, Range

(* When it returns at all, and it gets what it expects, the solver is an   *)
(* abstract solver of constraint systems: each of its steps discovers      *)
(* pointees of the least solution or nothing, and it returns with a        *)
(* solution, the least one then, or because of a limit.                    *)
THEOREM SolverImplements ==
  ASSUME IsFiniteSet(Node), \A s \in Inputs : Faithful(s, Least(s))
  PROVE  Spec /\ []AsExpected /\ []NoNestedLcd /\ Terminates => ImplementsAndersen
<1>1. Init => Abs!Init
  BY InitImplements
<1>2. IInv /\ Precise' /\ SoundInv /\ [Next]_vars => [Abs!Next]_(Abs!vars)
  BY StepImplements
<1>3. Spec => []IInv
  BY Inductive
<1>4. Spec /\ []NoNestedLcd => []Precise
  BY StaysPrecise
<1>5. Spec /\ []AsExpected => []SoundInv
  BY SoundInductive
<1>6. pc = "done" => (IF pc # "done" THEN "running" ELSE IF gave_up THEN "partial" ELSE "solved")
                     # "running"
  OBVIOUS
<1> QED
  BY <1>1, <1>2, <1>3, <1>4, <1>5, <1>6, PTL DEF Spec, Terminates, ImplementsAndersen, Abs!Spec

(* So it is for every input with one HCD variable.                         *)
THEOREM OneCycleImplements ==
  ASSUME IsFiniteSet(Node), NonPtrVal \subseteq IntParams, \A s \in Inputs : SimpleInput(s)
  PROVE  Spec /\ Terminates => ImplementsAndersen
<1>1. Spec => []AsExpected /\ []NoNestedLcd
  BY SimpleSpec
<1>2. Spec /\ []AsExpected /\ []NoNestedLcd /\ Terminates => ImplementsAndersen
  BY SolverImplements DEF SimpleInput
<1> QED
  BY <1>1, <1>2, PTL

-----------------------------------------------------------------------------
(* After the solver: one node per points-to set                            *)

(* What pts_cleanup has done so far.  The node that represents the first   *)
(* one seen with a set has that set, and is the only node gone over that   *)
(* has it.                                                                 *)
NodeWith(gr, e, S) == gr.rep[e[S]]

TableInv ==
  /\ uncleaned \subseteq Node
  /\ \A S \in DOMAIN eq :
       /\ S # {} /\ eq[S] \in Node
       /\ NodeWith(g, eq, S) \in Node \ (uncleaned \cup Unneeded) /\ g.points_to[NodeWith(g, eq, S)] = S
  /\ \A x \in Node \ uncleaned :
       g.points_to[x] # {} =>
         x \notin Unneeded /\ g.points_to[x] \in DOMAIN eq /\ NodeWith(g, eq, g.points_to[x]) = x

CleanInv ==
  /\ g \in Graph /\ Canonical(g) /\ g.points_to[0] = {}
  /\ TableInv

RInv ==
  /\ stage \in {"solve", "pts", "ready"}
  /\ stage = "solve" => IInv /\ NullInv /\ uncleaned = Node /\ eq = <<>>
  /\ stage # "solve" => CleanInv
  /\ stage = "ready" => uncleaned = {}

(* run_cleanup leaves the points-to sets and the representatives.          *)
LEMMA RunCleanup ==
  ASSUME RInv, run_cleanup
  PROVE  /\ RInv' /\ stage' = "pts"
         /\ g'.rep = g.rep /\ g'.points_to = g.points_to
<1>1. /\ stage = "solve" /\ stage' = "pts" /\ UNCHANGED <<uncleaned, eq>>
      /\ g' = [g EXCEPT !.prev_points_to = Cleared, !.copy_to = Cleared, !.cons = Cleared,
                        !.hcd_var = [x \in Node |-> 0], !.ind_calls = {}]
  BY DEF run_cleanup
<1>2. g \in Graph /\ Canonical(g) /\ g.points_to[0] = {} /\ uncleaned = Node /\ eq = <<>>
  BY <1>1, CanonicalGraph DEF RInv, IInv, NullInv, NullGraph
<1>3. Cleared \in [Node -> SUBSET Node] /\ Cleared \in [Node -> SUBSET Nat]
  BY DEF Cleared
<1>4. /\ g' \in Graph /\ g'.rep = g.rep /\ g'.points_to = g.points_to
      /\ g'.prev_points_to = Cleared /\ g'.copy_to = Cleared /\ g'.cons = Cleared
      /\ g'.hcd_var = [x \in Node |-> 0] /\ g'.ind_calls = {}
  BY <1>1, <1>2, <1>3, NodeAssumption DEF Graph
<1>5. Canonical(g')
  BY <1>2, <1>4 DEF Canonical, Cleared, Graph
<1>6. TableInv'
  <2>1. DOMAIN eq = {}
    BY <1>2
  <2> QED
    BY <1>1, <1>2, <2>1 DEF TableInv
<1> QED
  BY <1>1, <1>2, <1>4, <1>5, <1>6 DEF RInv, CleanInv

(* A node that is not an object, or an Argument, is no node of i2p.        *)
LEMMA NeededNotI2p == i2p \in Unneeded
BY ArgObjAssumption, NodeAssumption DEF Unneeded

LEMMA DropTable ==
  ASSUME CleanInv, NEW x \in uncleaned, x \in Unneeded, uncleaned' = uncleaned \ {x}, eq' = eq,
         g' = [g EXCEPT !.points_to[x] = {}]
  PROVE  /\ CleanInv'
         /\ g'.rep = g.rep
         /\ \A y \in Node \ {x} : g'.points_to[y] = g.points_to[y]
<1>1. x \in Node /\ uncleaned \subseteq Node
  BY DEF CleanInv, TableInv
<1>2. /\ g' \in Graph /\ g'.rep = g.rep /\ g'.points_to = [g.points_to EXCEPT ![x] = {}]
      /\ g'.prev_points_to = g.prev_points_to /\ g'.copy_to = g.copy_to /\ g'.cons = g.cons
      /\ g'.hcd_var = g.hcd_var /\ g'.ind_calls = g.ind_calls
  BY <1>1 DEF CleanInv, Graph
<1>3. \A y \in Node : g'.points_to[y] = IF y = x THEN {} ELSE g.points_to[y]
  BY <1>1, <1>2 DEF CleanInv, Graph
<1>4. Canonical(g')
  BY <1>2, <1>3 DEF CleanInv, Canonical
<1>5. \A S : NodeWith(g', eq', S) = NodeWith(g, eq, S)
  BY <1>2 DEF NodeWith
<1>6. TableInv'
  BY <1>1, <1>3, <1>5 DEF CleanInv, TableInv
<1> QED
  BY <1>2, <1>3, <1>4, <1>6, NodeAssumption DEF CleanInv

LEMMA KeepTable ==
  ASSUME CleanInv, NEW x \in uncleaned, g.points_to[x] = {}, uncleaned' = uncleaned \ {x},
         eq' = eq, g' = g
  PROVE  CleanInv'
<1>1. \A S : NodeWith(g', eq', S) = NodeWith(g, eq, S)
  BY DEF NodeWith
<1> QED
  BY <1>1 DEF CleanInv, TableInv

LEMMA EnterTable ==
  ASSUME CleanInv, NEW x \in uncleaned, x \notin Unneeded, g.points_to[x] # {}, ~Seen(x),
         uncleaned' = uncleaned \ {x}, g' = g,
         eq' = [S \in DOMAIN eq \cup {g.points_to[x]} |->
                  IF S = g.points_to[x] THEN x ELSE eq[S]]
  PROVE  CleanInv'
<1>0. PICK S : S = g.points_to[x]
  OBVIOUS
<1>1. x \in Node /\ S \notin DOMAIN eq
  BY <1>0 DEF CleanInv, TableInv, Seen
<1>2. g.rep[x] = x
  BY <1>1 DEF CleanInv, Canonical
<1>3. /\ DOMAIN eq' = DOMAIN eq \cup {S} /\ eq'[S] = x
      /\ \A T \in DOMAIN eq : eq'[T] = eq[T]
  BY <1>0, <1>1
<1>4. NodeWith(g', eq', S) = x /\ \A T \in DOMAIN eq : NodeWith(g', eq', T) = NodeWith(g, eq, T)
  BY <1>2, <1>3 DEF NodeWith
<1>5. g'.points_to[x] = S
  BY <1>0
<1>6. TableInv'
  BY <1>1, <1>3, <1>4, <1>5 DEF CleanInv, TableInv
<1> QED
  BY <1>6 DEF CleanInv

(* The node and the one found in the table are two representatives with the*)
(* same set, so they can be merged, and the one that stays takes its place.*)
LEMMA MergeTable ==
  ASSUME CleanInv, NEW x \in uncleaned, x \notin Unneeded, g.points_to[x] # {}, Seen(x)
  PROVE  /\ CanMerge(g, get_node_rep(x), SameSet(x))
         /\ get_node_rep(x) = x
         /\ SameSet(x) \in Node \ (uncleaned \cup Unneeded)
         /\ g.points_to[SameSet(x)] = g.points_to[x]
<1>1. x \in Node /\ g.rep[x] = x
  BY DEF CleanInv, TableInv, Canonical
<1>2. g.points_to[x] \in DOMAIN eq /\ SameSet(x) = NodeWith(g, eq, g.points_to[x])
  BY DEF Seen, SameSet, NodeWith, get_node_rep
<1>3. /\ SameSet(x) \in Node \ (uncleaned \cup Unneeded)
      /\ g.points_to[SameSet(x)] = g.points_to[x]
  BY <1>2 DEF CleanInv, TableInv
<1>4. g.rep[SameSet(x)] = SameSet(x)
  BY <1>3 DEF CleanInv, Canonical
<1>5. x # 0 /\ SameSet(x) # 0 /\ x # SameSet(x) /\ i2p \notin {x, SameSet(x)}
  BY <1>3, NeededNotI2p DEF CleanInv
<1> QED
  BY <1>1, <1>3, <1>4, <1>5 DEF CanMerge, is_rep, get_node_rep

LEMMA UniteTable ==
  ASSUME CleanInv, NEW x \in uncleaned, x \notin Unneeded, g.points_to[x] # {}, Seen(x),
         uncleaned' = uncleaned \ {x}, eq' = eq,
         g' = Unify(g, get_node_rep(x), SameSet(x))
  PROVE  /\ CleanInv'
         /\ \E p, c \in {x, SameSet(x)} :
              /\ p # c
              /\ \A y \in Node : g'.rep[y] = IF g.rep[y] = c THEN p ELSE g.rep[y]
              /\ g'.points_to[p] = g.points_to[x] /\ g'.points_to[c] = {}
              /\ \A y \in Node \ {p, c} : g'.points_to[y] = g.points_to[y]
<1>0. PICK S, r, p, c : /\ S = g.points_to[x] /\ r = SameSet(x)
                        /\ p = Parent(g, x, r) /\ c = Child(g, x, r)
  OBVIOUS
<1>1. /\ CanMerge(g, x, r) /\ r \in Node \ (uncleaned \cup Unneeded)
      /\ g.points_to[r] = S /\ g' = Absorb(g, p, c)
  BY <1>0, MergeTable DEF Unify
<1>2. x \in Node /\ x # 0 /\ r # 0 /\ x # r /\ is_rep(g, x) /\ is_rep(g, r)
  BY <1>1 DEF CanMerge, CleanInv, TableInv
<1>3. \/ p = x /\ c = r
      \/ p = r /\ c = x
  BY <1>0 DEF Parent, Child
<1>4. S \in DOMAIN eq /\ NodeWith(g, eq, S) = r
  BY <1>0 DEF Seen, SameSet, NodeWith, get_node_rep
<1>5. /\ p \in Node /\ c \in Node /\ p # c /\ p # 0 /\ c # 0 /\ is_rep(g, p) /\ is_rep(g, c)
      /\ {p, c} = {x, r} /\ g.points_to[p] = S /\ g.points_to[c] = S
  BY <1>0, <1>1, <1>2, <1>3
<1>6. g' \in Graph /\ Canonical(g')
  BY <1>1, <1>5, AbsorbGraph, AbsorbCanonical DEF CleanInv
<1>7. \A y \in Node : g'.rep[y] = IF g.rep[y] = c THEN p ELSE g.rep[y]
  BY <1>1, <1>5, AbsorbCanonical DEF CleanInv
<1>8. \A y \in Node : g'.points_to[y] = IF y = p THEN S ELSE IF y = c THEN {} ELSE g.points_to[y]
  <2>1. g'.points_to = [g.points_to EXCEPT ![p] = @ \cup g.points_to[c], ![c] = {}]
    BY <1>1 DEF Absorb, MergedPointees
  <2>2. g.points_to \in [Node -> SUBSET Node]
    BY DEF CleanInv, Graph
  <2>3. S \cup S = S
    OBVIOUS
  <2>4. ASSUME NEW y \in Node
        PROVE  [g.points_to EXCEPT ![p] = @ \cup g.points_to[c], ![c] = {}][y]
                 = IF y = c THEN {} ELSE IF y = p THEN g.points_to[p] \cup g.points_to[c] ELSE g.points_to[y]
    BY <1>5, <2>2
  <2> QED
    BY <1>5, <2>1, <2>3, <2>4
<1>9. NodeWith(g', eq', S) = p /\ \A T \in DOMAIN eq \ {S} : NodeWith(g', eq', T) = NodeWith(g, eq, T)
                                                  /\ NodeWith(g, eq, T) \notin {p, c}
  <2>1. ASSUME NEW T \in DOMAIN eq
        PROVE  eq[T] \in Node /\ NodeWith(g, eq, T) \in Node /\ g.points_to[NodeWith(g, eq, T)] = T
               /\ NodeWith(g', eq', T) = IF NodeWith(g, eq, T) = c THEN p ELSE NodeWith(g, eq, T)
    BY <1>7 DEF CleanInv, TableInv, NodeWith
  <2>2. NodeWith(g', eq', S) = p
    BY <1>3, <1>4, <2>1
  <2>3. ASSUME NEW T \in DOMAIN eq \ {S}
        PROVE  NodeWith(g, eq, T) \notin {p, c}
    BY <1>5, <2>1
  <2> QED
    BY <2>1, <2>2, <2>3
<1>10. TableInv'
  <2>1. uncleaned' \subseteq Node /\ p \notin uncleaned' \cup Unneeded /\ c \notin uncleaned'
    BY <1>1, <1>3 DEF CleanInv, TableInv
  <2>2. ASSUME NEW T \in DOMAIN eq
        PROVE  /\ T # {} /\ eq[T] \in Node
               /\ NodeWith(g', eq', T) \in Node \ (uncleaned' \cup Unneeded)
               /\ g'.points_to[NodeWith(g', eq', T)] = T
    <3>1. T # {} /\ eq[T] \in Node /\ NodeWith(g, eq, T) \in Node \ (uncleaned \cup Unneeded)
          /\ g.points_to[NodeWith(g, eq, T)] = T
      BY DEF CleanInv, TableInv
    <3>2. CASE T = S
      BY <1>5, <1>8, <1>9, <2>1, <3>1, <3>2
    <3>3. CASE T # S
      BY <1>8, <1>9, <3>1, <3>3
    <3> QED
      BY <3>2, <3>3
  <2>3. ASSUME NEW y \in Node \ uncleaned', g'.points_to[y] # {}
        PROVE  /\ y \notin Unneeded /\ g'.points_to[y] \in DOMAIN eq
               /\ NodeWith(g', eq', g'.points_to[y]) = y
    <3>1. CASE y = p
      BY <1>4, <1>8, <1>9, <2>1, <3>1
    <3>2. CASE y # p
      <4>1. y # c /\ g'.points_to[y] = g.points_to[y]
        BY <1>8, <2>3, <3>2
      <4>2. y \in Node \ uncleaned
        BY <1>5, <3>2, <4>1
      <4>3. y \notin Unneeded /\ g.points_to[y] \in DOMAIN eq /\ NodeWith(g, eq, g.points_to[y]) = y
        BY <2>3, <4>1, <4>2 DEF CleanInv, TableInv
      <4>4. g.points_to[y] # S
        BY <1>4, <1>5, <3>2, <4>1, <4>3
      <4> QED
        BY <1>9, <4>1, <4>3, <4>4
    <3> QED
      BY <3>1, <3>2
  <2> QED
    BY <2>1, <2>2, <2>3 DEF TableInv
<1>11. g'.points_to[0] = {}
  BY <1>5, <1>8, NodeAssumption DEF CleanInv
<1>12. CleanInv'
  BY <1>6, <1>10, <1>11 DEF CleanInv
<1>13. /\ p # c
       /\ \A y \in Node : g'.rep[y] = IF g.rep[y] = c THEN p ELSE g.rep[y]
       /\ g'.points_to[p] = S /\ g'.points_to[c] = {}
       /\ \A y \in Node \ {p, c} : g'.points_to[y] = g.points_to[y]
  BY <1>5, <1>7, <1>8
<1> QED
  BY <1>0, <1>5, <1>12, <1>13

-----------------------------------------------------------------------------
(* Every step *)

(* What one iteration of the loop does to the answers.                     *)
KeepsAnswers ==
  /\ sys' = sys /\ gave_up' = gave_up /\ stage' # "solve"
  /\ \A x \in Node :
       /\ g'.rep[x] \in TopLevel <=> g.rep[x] \in TopLevel
       /\ g.rep[x] \in TopLevel => g'.points_to[g'.rep[x]] = g.points_to[g.rep[x]]
  /\ \A x, y \in Node : g.rep[x] = g.rep[y] => g'.rep[x] = g'.rep[y]

LEMMA NeededIsTop ==
  ASSUME NEW x \in Node
  PROVE  x \in TopLevel <=> x # 0 /\ x \notin Unneeded
BY DEF TopLevel, Unneeded

LEMMA CleanupStep ==
  ASSUME RInv, pts_cleanup
  PROVE  CleanInv' /\ stage' = "pts" /\ KeepsAnswers
<1>0. PICK x : x = Min(uncleaned)
  OBVIOUS
<1>1. /\ stage = "pts" /\ uncleaned' = uncleaned \ {x} /\ CleanInv
      /\ sys' = sys /\ gave_up' = gave_up
  BY <1>0 DEF pts_cleanup, RInv
<1>2. x \in uncleaned /\ x \in Node
  <2>1. uncleaned \in SUBSET Nat /\ uncleaned # {} /\ uncleaned \subseteq Node
    BY <1>1, NodeAssumption DEF pts_cleanup, CleanInv, TableInv
  <2> QED
    BY <1>0, <2>1, MinMember
<1>3. \A y \in Node : g.rep[y] \in Node
  BY <1>1 DEF CleanInv, Graph
<1>4. CASE x \in Unneeded
  <2>1. g' = [g EXCEPT !.points_to[x] = {}] /\ stage' = "pts" /\ eq' = eq
    BY <1>0, <1>1, <1>4 DEF pts_cleanup
  <2>2. CleanInv' /\ g'.rep = g.rep /\ \A y \in Node \ {x} : g'.points_to[y] = g.points_to[y]
    BY <1>1, <1>2, <1>4, <2>1, DropTable
  <2>3. x \notin TopLevel
    BY <1>2, <1>4, NeededIsTop
  <2> QED
    BY <1>1, <1>3, <2>1, <2>2, <2>3 DEF KeepsAnswers
<1>5. CASE x \notin Unneeded /\ g.points_to[x] = {}
  <2>1. g' = g /\ stage' = "pts" /\ eq' = eq
    BY <1>0, <1>1, <1>5 DEF pts_cleanup
  <2> QED
    BY <1>1, <1>2, <1>5, <2>1, KeepTable DEF KeepsAnswers
<1>6. CASE x \notin Unneeded /\ g.points_to[x] # {} /\ ~Seen(x)
  <2>1. /\ g' = g /\ stage' = "pts"
        /\ eq' = [S \in DOMAIN eq \cup {g.points_to[x]} |->
                    IF S = g.points_to[x] THEN x ELSE eq[S]]
    BY <1>0, <1>1, <1>6 DEF pts_cleanup
  <2> QED
    BY <1>1, <1>2, <1>6, <2>1, EnterTable DEF KeepsAnswers
<1>7. CASE x \notin Unneeded /\ g.points_to[x] # {} /\ Seen(x)
  <2>1. /\ CanMerge(g, get_node_rep(x), SameSet(x))
        /\ SameSet(x) \in Node \ Unneeded /\ g.points_to[SameSet(x)] = g.points_to[x]
        /\ g.rep[x] = x
    BY <1>1, <1>2, <1>7, MergeTable DEF get_node_rep
  <2>2. g' = Unify(g, get_node_rep(x), SameSet(x)) /\ stage' = "pts" /\ eq' = eq
    BY <1>0, <1>1, <1>7, <2>1 DEF pts_cleanup
  <2>3. CleanInv' /\ \E p, c \in {x, SameSet(x)} :
              /\ p # c
              /\ \A y \in Node : g'.rep[y] = IF g.rep[y] = c THEN p ELSE g.rep[y]
              /\ g'.points_to[p] = g.points_to[x] /\ g'.points_to[c] = {}
              /\ \A y \in Node \ {p, c} : g'.points_to[y] = g.points_to[y]
    BY <1>1, <1>2, <1>7, <2>2, UniteTable
  <2>4. PICK p, c \in {x, SameSet(x)} :
          /\ p # c
          /\ \A y \in Node : g'.rep[y] = IF g.rep[y] = c THEN p ELSE g.rep[y]
          /\ g'.points_to[p] = g.points_to[x] /\ g'.points_to[c] = {}
          /\ \A y \in Node \ {p, c} : g'.points_to[y] = g.points_to[y]
    BY <2>3
  <2>5. p \in TopLevel /\ c \in TopLevel
    <3>1. g.points_to[0] = {}
      BY <1>1 DEF CleanInv
    <3>2. x # 0 /\ SameSet(x) # 0
      BY <1>7, <2>1, <3>1
    <3>3. x \in TopLevel /\ SameSet(x) \in TopLevel
      BY <1>2, <1>7, <2>1, <3>2, NeededIsTop
    <3> QED
      BY <3>3
  <2>6. g.points_to[p] = g.points_to[x] /\ g.points_to[c] = g.points_to[x]
    BY <2>1
  <2>7. ASSUME NEW y \in Node
        PROVE  /\ g'.rep[y] \in TopLevel <=> g.rep[y] \in TopLevel
               /\ g'.points_to[g'.rep[y]] = g.points_to[g.rep[y]]
    <3>1. CASE g.rep[y] = c
      BY <2>4, <2>5, <2>6, <3>1
    <3>2. CASE g.rep[y] # c
      BY <1>3, <2>4, <2>5, <2>6, <3>2
    <3> QED
      BY <3>1, <3>2
  <2>8. \A y, z \in Node : g.rep[y] = g.rep[z] => g'.rep[y] = g'.rep[z]
    BY <2>4
  <2> QED
    BY <1>1, <2>2, <2>3, <2>7, <2>8 DEF KeepsAnswers
<1> QED
  BY <1>4, <1>5, <1>6, <1>7

LEMMA RStep ==
  ASSUME [RNext]_allVars
  PROVE  \/ stage = "solve" /\ [Next]_vars /\ UNCHANGED resultVars
         \/ run_cleanup
         \/ pts_cleanup
         \/ stage = "pts" /\ uncleaned = {} /\ stage' = "ready" /\ UNCHANGED <<vars, uncleaned, eq>>
         \/ UNCHANGED allVars
BY DEF RNext, Solve, Publish

LEMMA CleanKept ==
  ASSUME CleanInv, UNCHANGED <<vars, uncleaned, eq>>
  PROVE  CleanInv' /\ g' = g /\ sys' = sys /\ gave_up' = gave_up
<1>1. g' = g /\ sys' = sys /\ gave_up' = gave_up
  BY DEF vars, graphVars
<1>2. \A S : NodeWith(g', eq', S) = NodeWith(g, eq, S)
  BY <1>1 DEF NodeWith
<1> QED
  BY <1>1, <1>2 DEF CleanInv, TableInv

LEMMA RInvInit == RInit => RInv
BY InitInv, InitNull DEF RInit, RInv

LEMMA RInvStep ==
  ASSUME RInv, [RNext]_allVars
  PROVE  RInv'
<1>1. CASE stage = "solve" /\ [Next]_vars /\ UNCHANGED resultVars
  BY <1>1, StepInv, NextNull DEF RInv, resultVars
<1>2. CASE run_cleanup
  BY <1>2, RunCleanup
<1>3. CASE pts_cleanup
  BY <1>3, CleanupStep DEF RInv
<1>4. CASE stage = "pts" /\ uncleaned = {} /\ stage' = "ready" /\ UNCHANGED <<vars, uncleaned, eq>>
  BY <1>4, CleanKept DEF RInv
<1>5. CASE UNCHANGED allVars
  <2>1. UNCHANGED vars /\ UNCHANGED <<stage, uncleaned, eq>>
    BY <1>5 DEF allVars, resultVars
  <2>2. CASE stage = "solve"
    BY <2>1, <2>2, StepInv, NextNull DEF RInv
  <2>3. CASE stage # "solve"
    BY <2>1, <2>3, CleanKept DEF RInv
  <2> QED
    BY <2>2, <2>3
<1> QED
  BY <1>1, <1>2, <1>3, <1>4, <1>5, RStep

LEMMA RInductive == RSpec => []RInv
<1>1. RInv /\ [RNext]_allVars => RInv'
  BY RInvStep
<1> QED
  BY RInvInit, <1>1, PTL DEF RSpec

(* The table that pts_cleanup keeps makes the classes of PE the points-to  *)
(* sets, although the first node with a set may have been merged away, and *)
(* merge_nodes is never given a node that is no representative, the null   *)
(* node or i2p.                                                            *)
THEOREM ClassesRight == RSpec => []ClassesAreSets
<1>1. RInv => ClassesAreSets
  <2> SUFFICES ASSUME RInv
               PROVE  ClassesAreSets
    OBVIOUS
  <2>1. stage # "abort"
    BY DEF RInv
  <2>2. ASSUME stage = "ready", NEW x \in TopLevel, NEW y \in TopLevel,
               ~is_null(x, 0), ~is_null(y, 0)
        PROVE  PE(x) = PE(y) <=> pointsToSet(x, 0) = pointsToSet(y, 0)
    <3>1. /\ pointsToSet(x, 0) = g.points_to[g.rep[x]] /\ PE(x) = g.rep[x]
          /\ pointsToSet(y, 0) = g.points_to[g.rep[y]] /\ PE(y) = g.rep[y]
          /\ pointsToSet(x, 0) # {} /\ pointsToSet(y, 0) # {}
      BY <2>2 DEF pointsToSet, PE, get_node_rep, is_null
    <3>2. CleanInv /\ uncleaned = {} /\ g.rep[x] \in Node /\ g.rep[y] \in Node
      BY <2>2 DEF RInv, CleanInv, Graph, TopLevel
    <3>3. /\ NodeWith(g, eq, g.points_to[g.rep[x]]) = g.rep[x]
          /\ NodeWith(g, eq, g.points_to[g.rep[y]]) = g.rep[y]
      BY <3>1, <3>2 DEF CleanInv, TableInv
    <3> QED
      BY <3>1, <3>3
  <2> QED
    BY <2>1, <2>2 DEF ClassesAreSets
<1> QED
  BY <1>1, RInductive, PTL

(* Dropping the points-to sets of the objects and merging the nodes with   *)
(* equal sets changes no answer about a variable that is not represented by*)
(* an object, and never parts two variables.                               *)
THEOREM CleanupLosesNothing == RSpec => CleanupKeeps
<1> DEFINE LosesNothing == stage = "pts" =>
       \A x \in TopLevel :
         /\ ~ByObject(x) =>
              g'.points_to[g'.rep[x]] = g.points_to[g.rep[x]]
         /\ \A y \in TopLevel : g.rep[x] = g.rep[y] => g'.rep[x] = g'.rep[y]
<1>1. ASSUME RInv, [RNext]_allVars
      PROVE  [LosesNothing]_allVars
  <2>1. CASE stage = "solve" \/ run_cleanup
    BY <2>1 DEF run_cleanup
  <2>2. CASE pts_cleanup
    <3>1. KeepsAnswers
      BY <1>1, <2>2, CleanupStep
    <3>2. TopLevel \subseteq Node
      BY DEF TopLevel
    <3> QED
      BY <3>1, <3>2 DEF KeepsAnswers, ByObject
  <2>3. CASE UNCHANGED vars
    BY <2>3 DEF vars, graphVars
  <2>4. CASE UNCHANGED allVars
    BY <2>4
  <2> QED
    BY <1>1, <2>1, <2>2, <2>3, <2>4, RStep
<1>2. RSpec => [][LosesNothing]_allVars
  BY <1>1, RInductive, PTL DEF RSpec
<1> QED
  BY <1>2 DEF CleanupKeeps

-----------------------------------------------------------------------------
(* The answers *)

(* What solve has found when it is left, and what pts_cleanup keeps of it. *)
AnswersInv ==
  stage # "solve" /\ ~gave_up =>
    \A x \in Node : g.rep[x] \in TopLevel => g.points_to[g.rep[x]] = LeastOf[sys][x]

(* While the solver runs, the invariants that make its result the least    *)
(* solution.                                                               *)
SolvingInv == stage = "solve" => ConsInv /\ AboveInv /\ SoundInv

(* What the code takes for granted while the solver runs.                  *)
SolvesAsExpected == stage = "solve" => AsExpected /\ NoNestedLcd

LEMMA SolvingInit ==
  ASSUME IsFiniteSet(Node), \A s \in Inputs : Faithful(s, Least(s)), RInit
  PROVE  SolvingInv /\ AnswersInv
<1>1. Init /\ stage = "solve" /\ WellFormed(sys)
  BY WellFormedAssumption DEF RInit, Init
<1> QED
  BY <1>1, InitCalls, InitAbove, InitSound DEF SolvingInv, AnswersInv

LEMMA SolvingStep ==
  ASSUME RInv, SolvingInv, SolvesAsExpected, [RNext]_allVars
  PROVE  SolvingInv'
<1> SUFFICES ASSUME stage' = "solve"
             PROVE  (ConsInv /\ AboveInv /\ SoundInv)'
  BY DEF SolvingInv
<1>1. stage = "solve" /\ [Next]_vars
  <2>1. ~run_cleanup
    BY DEF run_cleanup
  <2>2. ~pts_cleanup
    BY CleanupStep
  <2>3. UNCHANGED allVars => stage' = stage /\ UNCHANGED vars
    BY DEF allVars, resultVars
  <2> QED
    BY <2>1, <2>2, <2>3, RStep
<1> QED
  BY <1>1, NextCalls, StepAbove, NextSound DEF RInv, SolvingInv, SolvesAsExpected

(* What the solver has found when it is done is the least solution.        *)
LEMMA DoneIsLeast ==
  ASSUME IsFiniteSet(Node), IInv, AboveInv, SoundInv, pc = "done", ~gave_up, NEW x \in Node
  PROVE  g.points_to[g.rep[x]] = LeastOf[sys][x]
<1>1. Precise
  BY AboveIsPrecise
<1>2. IsSolution(sys, Result)
  BY DEF SoundInv
<1>3. sys \in Inputs /\ sys \in System /\ LeastOf[sys] = Least(sys)
  BY LeastOfSolves DEF AboveInv, IInv, GraphInv, GraphType
<1>4. Result \in Assignments
  BY DEF Result, Assignments, IInv, GraphInv, GraphType, Graph
<1>5. Below(Least(sys), Result)
  BY <1>2, <1>3, <1>4, LeastIsLeast
<1>6. Result[x] \subseteq LeastOf[sys][x] /\ Result[x] = g.points_to[g.rep[x]]
  BY <1>1 DEF Precise, Result
<1>7. LeastOf[sys][x] \subseteq Result[x]
  BY <1>3, <1>5 DEF Below
<1> QED
  BY <1>6, <1>7

LEMMA AnswersStep ==
  ASSUME IsFiniteSet(Node), RInv, SolvingInv, AnswersInv, [RNext]_allVars
  PROVE  AnswersInv'
<1>1. CASE stage = "solve" /\ UNCHANGED resultVars
  BY <1>1 DEF AnswersInv, resultVars
<1>2. CASE run_cleanup
  <2>1. /\ stage = "solve" /\ pc = "done" /\ sys' = sys /\ gave_up' = gave_up
        /\ g'.rep = g.rep /\ g'.points_to = g.points_to
    BY <1>2, RunCleanup DEF run_cleanup
  <2>2. IInv /\ AboveInv /\ SoundInv
    BY <2>1 DEF RInv, SolvingInv
  <2> QED
    BY <2>1, <2>2, DoneIsLeast DEF AnswersInv
<1>3. CASE pts_cleanup
  BY <1>3, CleanupStep DEF AnswersInv, KeepsAnswers, pts_cleanup
<1>4. CASE UNCHANGED <<vars, uncleaned, eq>> /\ (stage' = stage \/ stage = "pts")
  <2>1. g' = g /\ sys' = sys /\ gave_up' = gave_up
    BY <1>4 DEF vars, graphVars
  <2> QED
    BY <1>4, <2>1 DEF AnswersInv
<1>5. UNCHANGED allVars => UNCHANGED <<vars, uncleaned, eq>> /\ stage' = stage
  BY DEF allVars, resultVars
<1> QED
  BY <1>1, <1>2, <1>3, <1>4, <1>5, RStep

LEMMA AnswersAreRight ==
  ASSUME RInv, AnswersInv
  PROVE  RightAnswers
<1> SUFFICES ASSUME stage = "ready", ~gave_up, NEW x \in TopLevel, NEW k \in Offsets
             PROVE  pointsToSet(x, k) =
                      IF ByObject(x) THEN {}
                      ELSE IF k = 0 THEN LeastOf[sys][x] ELSE Shift(LeastOf[sys][x], k)
  BY DEF RightAnswers, Answered
<1>1. CleanInv /\ uncleaned = {} /\ x \in Node /\ g.rep[x] \in Node
  BY DEF RInv, CleanInv, Graph, TopLevel
<1>2. pointsToSet(x, k) = IF k = 0 THEN g.points_to[g.rep[x]] ELSE Shift(g.points_to[g.rep[x]], k)
  BY DEF pointsToSet, get_node_rep
<1>3. CASE ByObject(x)
  <2>1. g.rep[x] = 0 \/ g.rep[x] \in Unneeded
    BY <1>1, <1>3, NeededIsTop DEF ByObject
  <2>2. g.points_to[g.rep[x]] = {}
    BY <1>1, <2>1 DEF CleanInv, TableInv
  <2>3. Shift({}, k) = {}
    BY DEF Shift, Fits
  <2> QED
    BY <1>2, <1>3, <2>2, <2>3
<1>4. CASE ~ByObject(x)
  BY <1>1, <1>2, <1>4 DEF ByObject, AnswersInv
<1> QED
  BY <1>3, <1>4

(* A client asks for the points-to set of a variable, with or without an   *)
(* offset, and gets its set in the least solution of the constraints, or   *)
(* nothing if an object represents the variable: the solver found it, as   *)
(* long as the merges were of the kind the code expects, and deleting the  *)
(* graph, dropping sets and merging nodes in pts_cleanup keep it.          *)
THEOREM AnswersStayRight ==
  ASSUME IsFiniteSet(Node), \A s \in Inputs : Faithful(s, Least(s))
  PROVE  RSpec /\ []SolvesAsExpected => []RightAnswers
<1>1. RInit => SolvingInv /\ AnswersInv
  BY SolvingInit
<1>2. RInv /\ SolvingInv /\ AnswersInv /\ SolvesAsExpected /\ [RNext]_allVars
        => SolvingInv' /\ AnswersInv'
  BY SolvingStep, AnswersStep
<1>3. RInv /\ AnswersInv => RightAnswers
  BY AnswersAreRight
<1> QED
  BY <1>1, <1>2, <1>3, RInductive, PTL DEF RSpec

(* For an input with at most one HCD variable nothing has to be expected. *)
THEOREM OneCycleAnswersRight ==
  ASSUME IsFiniteSet(Node), NonPtrVal \subseteq IntParams, \A s \in Inputs : SimpleInput(s)
  PROVE  RSpec => []RightAnswers
<1> DEFINE One == stage = "solve" => OneHcdVar
<1>1. RInit => SolvingInv /\ One
  <2>1. RInit => SolvingInv
    BY SolvingInit DEF SimpleInput
  <2>2. Init => OneHcdVar
    BY DEF Init, OneHcdVar, InitGraph, SimpleInput
  <2> QED
    BY <2>1, <2>2 DEF RInit
<1>2. ASSUME RInv, SolvingInv, One
      PROVE  SolvesAsExpected
  BY <1>2, SimpleIsExpected DEF RInv, SolvingInv, SolvesAsExpected
<1>3. ASSUME RInv, One, [RNext]_allVars
      PROVE  One'
  <2>1. CASE stage = "solve" /\ [Next]_vars
    BY <1>3, <2>1, OneHcdVarStays DEF RInv
  <2>2. CASE UNCHANGED allVars
    <3>1. stage' = stage /\ UNCHANGED vars
      BY <2>2 DEF allVars, resultVars
    <3> QED
      BY <1>3, <3>1, OneHcdVarStays DEF RInv
  <2>3. CASE run_cleanup \/ pts_cleanup
    BY <1>3, <2>3, CleanupStep DEF run_cleanup
  <2> QED
    BY <1>3, <2>1, <2>2, <2>3, RStep
<1>4. RInv /\ SolvingInv /\ SolvesAsExpected /\ [RNext]_allVars => SolvingInv'
  BY SolvingStep
<1> HIDE DEF One
<1>5. RSpec => []SolvesAsExpected
  BY <1>1, <1>2, <1>3, <1>4, RInductive, PTL DEF RSpec
<1>6. \A s \in Inputs : Faithful(s, Least(s))
  BY DEF SimpleInput
<1> QED
  BY <1>5, <1>6, AnswersStayRight, PTL
=============================================================================
