-------------------------- MODULE SolverProperties --------------------------
(***************************************************************************)
(* What the solver has to guarantee: the asserts of solve.cpp and of       *)
(* merge_nodes, the consistency of the graph under merging, that nothing   *)
(* which still has to be propagated is forgotten, and that the result is   *)
(* the least solution of the constraints.                                  *)
(***************************************************************************)
EXTENDS Solver

Pcs == {"loop", "hcd", "cons", "member", "prop", "merge", "unwind", "check",
        "lcd", "dfs", "collapse", "end", "done", "abort"}

Heaps == SUBSET (Node \X Nat)

(* The points-to set the program reports for a node.                       *)
Result == [x \in Node |-> g.points_to[g.rep[x]]]

LeastOf == [s \in Inputs |-> Least(s)]

GraphType ==
  /\ sys \in System
  /\ g \in Graph
  /\ cplx_cons \in Seq(Constraint)
  /\ icall_cons \in SUBSET (Constraint \X Site)
  /\ ext_seen \in SUBSET (ExtNode \X Site)

WorkType ==
  /\ curr \in Heaps /\ next \in Heaps
  /\ n_node_runs \in Nat /\ vtime \in Nat /\ last_lcd \in Nat
  /\ lcd_edges \in SUBSET (Node \X Node) /\ lcd_starts \in SUBSET Node

VisitType ==
  /\ n \in Node /\ d_points_to \in SUBSET Node /\ hcd_rep \in Node
  /\ phase \in {"load", "store", "gep"} /\ todo \in SUBSET Nat
  /\ cons_seen \in SUBSET Constraint
  /\ lsc \in LsCall /\ members \in SUBSET (Node \X (Site \cup {NoSite}))
  /\ chg \in BOOLEAN

MergeType ==
  /\ marg \in Node \X Node /\ mframes \in Seq(MergeFrame)
  /\ mret \in {"hcd", "collapse"}

LcdType ==
  /\ lcd_todo \in SUBSET Node /\ frames \in Seq(DfsFrame)
  /\ lcd_dfs_id \in [Node -> Nat \cup {Unvisited}]
  /\ curr_lcd_dfs \in Nat /\ lcd_roots \in SUBSET Node /\ lcd_stk \in Seq(Node)

(* Type invariant of the solver's state.                                   *)
TypeOK ==
  /\ GraphType /\ WorkType /\ VisitType /\ MergeType /\ LcdType
  /\ pc \in Pcs /\ gave_up \in BOOLEAN

(* A node that was merged into another keeps nothing: its sets, edges,     *)
(* constraints and its HCD entry belong to the representative (the assert  *)
(* at the end of solve, "non-rep node has a points_to", and what           *)
(* merge_nodes deletes), although solve_node, the loops over pointees and  *)
(* lcd_dfs go on using node numbers they read before a merge.              *)
NonRepEmpty ==
  \A x \in Node :
    /\ is_rep(g, g.rep[x])
    /\ ~is_rep(g, x) =>
         /\ g.points_to[x] = {} /\ g.prev_points_to[x] = {}
         /\ g.copy_to[x] = {} /\ g.cons[x] = {}
         /\ g.hcd_var[x] = 0 /\ x \notin g.ind_calls

(* A constraint is in the list of the representative of the pointer it     *)
(* dereferences (asserts of solve_ls_cons and solve_gep_cons), however     *)
(* often that pointer was merged.                                          *)
ListsCurrent ==
  \A x \in Node : \A cid \in g.cons[x] :
    g.rep[Base(cplx_cons[cid])] = x

(* No indirect call is lost: between two node runs every call instruction  *)
(* is attached (icall_cons) to a constraint that is still in the list of   *)
(* the function pointer's representative and means the constraint it was   *)
(* given with, although solve_ls_cons rewrites constraints in place, moves *)
(* their entries and deletes duplicates.                                   *)
CallsKept ==
  pc = "loop" =>
    \A call \in sys.icall :
      LET C == call[1]
          x == g.rep[Base(C)]
      IN /\ x \in g.ind_calls
         /\ \E cid \in g.cons[x] :
              LET D == cplx_cons[cid] IN
              /\ <<D, call[2]>> \in icall_cons
              /\ D.type = C.type /\ D.off = C.off
              /\ g.rep[D.dest] = g.rep[C.dest] /\ g.rep[D.src] = g.rep[C.src]

(* No assert of solve.cpp or merge_nodes fails.                            *)
NoAbort == pc # "abort"

(* Nothing outside the least solution is ever in a points-to set, i2p      *)
(* never gets a pointee (add_copy_edge: "We don't want i2p to point to     *)
(* anything"), and merged nodes are pointer-equivalent (merge_nodes:       *)
(* "N1/N2 have to be pointer-equivalent to get merged").                   *)
Precise ==
  LET least == LeastOf[sys]
  IN \A x \in Node : Result[x] \subseteq least[x] /\ least[x] = least[g.rep[x]]

(* When solve runs to convergence, every constraint it was given holds,    *)
(* those it deleted as redundant included.                                 *)
Sound == pc = "done" /\ ~gave_up => IsSolution(sys, Result)

(* When nothing is queued any more the graph has converged (the comment on *)
(* leaving the loop of solve): no pointee of the least solution is missing.*)
Complete ==
  pc = "end" /\ ~gave_up =>
    LET least == LeastOf[sys] IN \A x \in Node : least[x] \subseteq Result[x]

(* s -> d holds in the graph, as an edge or because it says nothing.       *)
HasEdge(s, d) ==
  \/ i2p \in {s, d} \/ g.rep[s] = g.rep[d]
  \/ g.rep[d] \in {g.rep[x] : x \in g.copy_to[g.rep[s]]}

(* x has an entry on one of the two lists that will not be skipped.        *)
Queued(x) == \E e \in curr \cup next : e[1] = x /\ ~IsStale(e)

(* The visit of a queued node with new pointees pushes its HCD variable.   *)
WillBeQueued(x) ==
  \E y \in Node : /\ g.hcd_var[y] # 0 /\ g.rep[g.hcd_var[y]] = x
                  /\ Queued(y) /\ g.points_to[y] # g.prev_points_to[y]

(* The pointees of x that need no further visit: those propagated already  *)
(* if x is going to be visited, and otherwise all of them.                 *)
Handled(x) ==
  IF Queued(x) \/ WillBeQueued(x) THEN g.prev_points_to[x] ELSE g.points_to[x]

(* Between two node runs no work is forgotten: whatever a node points to   *)
(* is at the end of all its copy edges, and every load, store and gep      *)
(* still in its lists is satisfied for it, except for pointees that a      *)
(* queued visit is going to propagate.  No entry of the two lists that was *)
(* skipped as stale, and no merge that resets prev_points_to, loses one.   *)
NothingForgotten ==
  pc = "loop" =>
    \A x \in Node :
      /\ \A d \in g.copy_to[x] : Handled(x) \subseteq g.points_to[g.rep[d]]
      /\ \A cid \in g.cons[x] :
           LET C == cplx_cons[cid]
               T == Targets(Handled(x), C, SitesOf(icall_cons, C) # {})
           IN CASE C.type = "load"  -> \A t \in T : HasEdge(t, C.dest)
                [] C.type = "store" -> \A t \in T : HasEdge(C.src, t)
                [] C.type = "gep"   ->
                     Shift(Handled(x), C.off) \subseteq g.points_to[g.rep[C.dest]]

-----------------------------------------------------------------------------
(* The inductive invariant behind TypeOK, NonRepEmpty and ListsCurrent:    *)
(* with them, what the local variables of the loops still say about the    *)
(* graph when they are used.                                               *)

GraphInv ==
  /\ GraphType
  /\ g.rep[0] = 0
  /\ NonRepEmpty
  /\ ListsCurrent
  /\ \A x \in Node : g.cons[x] \subseteq DOMAIN cplx_cons

(* hcd_rep and the nodes of lsc are representatives when edges are added   *)
(* between them.  Every pointee to handle has a field at the offset of the *)
(* load or store, or is an external function with the call instruction.    *)
VisitInv ==
  /\ VisitType
  /\ todo \subseteq DOMAIN cplx_cons
  /\ pc \in {"hcd", "cons", "member"} => is_rep(g, hcd_rep)
  /\ pc = "member" =>
       /\ is_rep(g, lsc.C.dest) /\ is_rep(g, lsc.C.src)
       /\ \A m \in members : IF m[2] = NoSite THEN m[1] + lsc.C.off \in Node
                                            ELSE m \in ExtNode \X Site

MergeInv ==
  /\ MergeType
  /\ pc = "unwind" => is_rep(g, marg[1])

InLcdDfs ==
  \/ pc \in {"dfs", "collapse"}
  \/ pc \in {"merge", "unwind"} /\ mret = "collapse"

(* Only the innermost frame of lcd_dfs runs; its node is a representative, *)
(* which is looked at again after a recursive call.                        *)
LcdInv ==
  /\ LcdType
  /\ InLcdDfs => frames # <<>>
  /\ \A i \in 1 .. (Len(frames) - 1) : frames[i].waits
  /\ pc = "dfs" => frames[Len(frames)].waits \/ is_rep(g, frames[Len(frames)].n)

IInv ==
  /\ GraphInv /\ WorkType /\ VisitInv /\ MergeInv /\ LcdInv
  /\ pc \in Pcs /\ gave_up \in BOOLEAN

-----------------------------------------------------------------------------
(* The inductive invariant behind CallsKept: every constraint still means  *)
(* what it was given as, and solve_node, between two constraints or in the *)
(* middle of one, is not about to delete the last one of a call.           *)

(* C means what D means, up to merging.                                    *)
SameCons(C, D) ==
  /\ C.type = D.type /\ C.off = D.off
  /\ g.rep[C.dest] = g.rep[D.dest] /\ g.rep[C.src] = g.rep[D.src]

ConsSame ==
  /\ DOMAIN cplx_cons = DOMAIN sys.cons
  /\ \A cid \in DOMAIN cplx_cons : SameCons(cplx_cons[cid], sys.cons[cid])
  /\ \A e \in icall_cons : \E call \in sys.icall : call[2] = e[2] /\ SameCons(e[1], call[1])

(* The load or store in progress will be deleted from the list.            *)
Doomed(cid) == pc = "member" /\ lsc.del /\ lsc.cid = cid
Sweeping == pc \in {"cons", "member"}

(* solve_ls_cons will find the call instructions of the constraint, or has *)
(* met a constraint equal to it that keeps them.                           *)
HasSites(cid) ==
  \/ SitesOf(icall_cons, cplx_cons[cid]) # {}
  \/ Sweeping /\ cid \in todo /\ Updated(cplx_cons[cid]) \in cons_seen
  \/ Doomed(cid)

(* The constraint stands for the call and is going to stay.                *)
Keeps(cid, call) ==
  /\ <<cplx_cons[cid], call[2]>> \in icall_cons
  /\ SameCons(cplx_cons[cid], call[1])
  /\ ~Doomed(cid)

CallsInv ==
  /\ \A x \in Node : \A cid \in g.cons[x] :
       IsCall(sys, sys.cons[cid]) => x \in g.ind_calls /\ HasSites(cid)
  /\ \A call \in sys.icall :
       LET x == g.rep[Base(call[1])]
       IN x \in g.ind_calls /\ \E cid \in g.cons[x] : Keeps(cid, call)

(* Constraints gone over already are up to date, and every one that a      *)
(* later duplicate is compared with is still there.                        *)
SweepInv ==
  /\ pc = "member" =>
       /\ lsc.C.type = phase /\ phase # "gep" /\ lsc.C = cplx_cons[lsc.cid]
       /\ lsc.cid \in g.cons[n] \ todo
  /\ Sweeping =>
       /\ \A cid \in todo : cid \in g.cons[n] /\ cplx_cons[cid].type = phase
       /\ \A cid \in ListOf(n, phase) \ todo : cplx_cons[cid] = Updated(cplx_cons[cid])
       /\ \A C \in cons_seen :
            phase # "gep" /\ C.off # 0 =>
              \E cid \in ListOf(n, phase) \ todo : cplx_cons[cid] = C /\ ~Doomed(cid)

ConsInv ==
  /\ WellFormed(sys)
  /\ ConsSame
  /\ pc # "abort" => CallsInv /\ SweepInv

-----------------------------------------------------------------------------
(* The null node: nothing points to it, no edge leads to it and it stays   *)
(* by itself, so that it never gets a pointee.                             *)

NullGraph(gr) ==
  /\ \A x \in Node : gr.rep[x] = 0 => x = 0
  /\ gr.points_to[0] = {}
  /\ \A x \in Node : 0 \notin gr.points_to[x] /\ 0 \notin gr.copy_to[x]

(* What solve_node holds on to ...                                         *)
NullVisit ==
  /\ \A cid \in DOMAIN cplx_cons : cplx_cons[cid].dest # 0
  /\ 0 \notin d_points_to
  /\ \A m \in members : m[1] # 0
  /\ pc = "member" => lsc.C.dest # 0

(* ... and the frames of lcd_dfs.                                          *)
NullFrame(f) == 0 \notin f.edges \cup f.add_copy /\ (f.waits => f.dest0 # 0)

NullInv == /\ NullGraph(g) /\ NullVisit
           /\ \A k \in DOMAIN frames : NullFrame(frames[k])

-----------------------------------------------------------------------------
(* The inductive invariant behind Sound.  It follows every constraint of   *)
(* the original list through the solver.                                   *)

Merging == pc \in {"merge", "unwind"}
HcdPhase == pc = "hcd" \/ (Merging /\ mret = "hcd")
Visiting == HcdPhase \/ Sweeping

(* Merged, or going to be by the call of merge_nodes that is entered.      *)
Same(a, b) ==
  \/ g.rep[a] = g.rep[b]
  \/ pc = "merge" /\ {g.rep[a], g.rep[b]} \subseteq {marg[1], marg[2]}

(* Q has every node that will be visited again: those queued, those the    *)
(* running functions are about to queue, and the HCD variables of the      *)
(* former, which their visits queue.                                       *)
Covering(Q) ==
  /\ \A x \in Node : Queued(x) => x \in Q
  /\ Merging => /\ g.rep[marg[1]] \in Q /\ g.rep[marg[2]] \in Q
                /\ \A k \in DOMAIN mframes : g.rep[mframes[k].n1] \in Q
  /\ pc = "hcd" => hcd_rep \in Q
  /\ pc = "member" /\ chg => lsc.C.dest \in Q
  /\ pc = "collapse" /\ Last(frames).chg => Last(frames).n \in Q
  /\ \A y \in Q : g.hcd_var[y] # 0 /\ g.points_to[y] # g.prev_points_to[y] =>
                    g.rep[g.hcd_var[y]] \in Q

(* The pointees of x that need no further visit.                           *)
Settled(Q, x) == IF x \in Q THEN g.prev_points_to[x] ELSE g.points_to[x]

(* C holds for w in place of the pointer it dereferences.                  *)
Linked(C, w) == IF C.type = "load" THEN HasEdge(w, C.dest) ELSE HasEdge(C.src, w)

(* C holds for the pointee o.                                              *)
Solved(C, o) ==
  /\ C.type = "gep" => Shift({o}, C.off) \subseteq g.points_to[g.rep[C.dest]]
  /\ C.type # "gep" => \A t \in Targets({o}, C, IsCall(sys, C)) : Linked(C, t)

EffectHolds(m) ==
  LET e == ExtEffect[m] IN
  /\ e.kind = "point" => e.src \in g.points_to[g.rep[e.dest]]
  /\ e.kind = "copy" => HasEdge(e.src, e.dest)

(* solve_node has still to come to the constraint.                         *)
Ahead(cid) ==
  Sweeping => \/ cid \in todo
              \/ phase = "load" /\ cplx_cons[cid].type # "load"
              \/ phase = "store" /\ cplx_cons[cid].type = "gep"

(* The current visit is going to solve C for the pointee o.                *)
Pending(C, o) ==
  /\ Visiting /\ n = g.rep[Base(C)] /\ o \in d_points_to
  /\ \/ \E cid \in g.cons[n] : Ahead(cid) /\ SameCons(cplx_cons[cid], C)
     \/ pc = "member" /\ ~lsc.del /\ SameCons(lsc.C, C) /\ <<o, NoSite>> \in members

(* C was replaced by one edge to or from an HCD variable, or is listed.    *)
Gone(C) ==
  LET x == g.rep[Base(C)] IN
  /\ C.off = 0 /\ C.type \in {"load", "store"} /\ g.hcd_var[x] # 0
  /\ \E w \in Node : Same(w, g.hcd_var[x]) /\ Linked(C, w)

Listed(C) ==
  \E cid \in g.cons[g.rep[Base(C)]] : SameCons(cplx_cons[cid], C) /\ ~Doomed(cid)

ComplexCons == {sys.cons[cid] : cid \in Complex(sys)}

ConsKept(Q) ==
  \A C \in ComplexCons :
    \/ Gone(C)
    \/ Listed(C) /\ \A o \in Settled(Q, g.rep[Base(C)]) : Solved(C, o) \/ Pending(C, o)

EdgesKept(Q) ==
  \A x \in Node : \A d \in g.copy_to[x] :
    i2p \in {x, d} \/ \A o \in Settled(Q, x) :
      \/ o \in g.points_to[g.rep[d]]
      \/ (Visiting \/ pc = "prop") /\ x = n /\ o \in d_points_to

(* What a dereferenced pointer points to is merged with its HCD variable.  *)
HcdKept(Q) ==
  \A C \in ComplexCons :
    LET x == g.rep[Base(C)] IN
    g.hcd_var[x] # 0 =>
      \A o \in Settled(Q, x) :
        \/ o = i2p \/ Same(o, g.hcd_var[x])
        \/ HcdPhase /\ x = n /\ <<o, NoSite>> \in members

(* The external calls of a call instruction are still to be handled.       *)
Waiting(call) ==
  \E cid \in g.cons[n] :
    Ahead(cid) /\ <<cplx_cons[cid], call[2]>> \in icall_cons /\ SameCons(cplx_cons[cid], call[1])

ExtKept(Q) ==
  \A call \in sys.icall :
    LET x == g.rep[Base(call[1])] IN
    \A o \in Settled(Q, x) \cap ExtNode :
      \/ EffectHolds(<<o, call[2]>>)
      \/ /\ Visiting /\ x = n /\ o \in d_points_to
         /\ Waiting(call) \/ (pc = "member" /\ <<o, call[2]>> \in members)

NoneLost(Q) == ConsKept(Q) /\ EdgesKept(Q) /\ HcdKept(Q) /\ ExtKept(Q)

(* What holds from the start and is never undone.                          *)
FactsHold ==
  /\ \A C \in OfType(sys, "addr_of") : C.src \in g.points_to[g.rep[C.dest]]
  /\ \A C \in OfType(sys, "copy") : HasEdge(C.src, C.dest)
  /\ \A m \in ext_seen : EffectHolds(m)
  /\ \A x \in Node : g.prev_points_to[x] \subseteq g.points_to[x]
  /\ \A x \in Node : g.cons[x] \subseteq Complex(sys)
  /\ \A x \in Node : \A t \in {0, i2p} : g.rep[x] = t <=> x = t

(* The edges lcd_dfs replaces in the end are edges of the graph, and every *)
(* one it deletes is to the node itself or has its replacement.            *)
FrameLinked(f) ==
  /\ \A d \in f.edges \cup f.add_copy : HasEdge(f.n, d)
  /\ f.waits => HasEdge(f.n, f.dest0)
  /\ \A d \in f.del_copy :
       g.rep[d] = g.rep[f.n] \/ \E a \in f.add_copy : g.rep[a] = g.rep[d]

FramesLinked ==
  /\ \A k \in DOMAIN frames : k < Len(frames) \/ pc = "dfs" => FrameLinked(frames[k])
  /\ pc = "collapse" => is_rep(g, Last(frames).n)

(* A caller waiting in merge_nodes has to be visited, and that visit will  *)
(* queue the node the nested call returns; lcd_dfs will push what it       *)
(* merges.                                                                 *)
NextOf(k) == IF k < Len(mframes) THEN mframes[k + 1].n1 ELSE marg[1]

QueuesNext(k) ==
  LET p == g.rep[mframes[k].n1] IN
  /\ g.hcd_var[p] # 0 /\ g.prev_points_to[p] = {} /\ g.points_to[p] # {}
  /\ Same(g.hcd_var[p], NextOf(k))

MergeChain ==
  /\ pc = "unwind" => marg[1] = marg[2]
  /\ Merging => /\ \A k \in DOMAIN mframes : QueuesNext(k)
                /\ mret = "collapse" => Last(frames).chg

(* In a visit the new pointees are merged with the HCD variable, and every *)
(* constraint gone over holds for them and is kept or replaced.            *)
HcdOf == IF ~Merging THEN hcd_rep ELSE IF mframes = <<>> THEN marg[1] ELSE mframes[1].n1

HcdMet ==
  /\ Visiting /\ HcdOf # 0 =>
       /\ is_rep(g, n) => g.hcd_var[n] # 0 /\ Same(g.hcd_var[n], HcdOf)
       /\ \A o \in d_points_to :
            o = i2p \/ Same(o, HcdOf) \/ (HcdPhase /\ <<o, NoSite>> \in members)
  /\ HcdPhase => /\ members \subseteq d_points_to \X {NoSite}
                 /\ HcdOf = 0 => members = {}

SeenKept(C) ==
  \/ phase # "gep" /\ C.off = 0 /\ hcd_rep # 0 /\ Linked(C, hcd_rep)
  \/ \E cid \in ListOf(n, phase) \ todo : cplx_cons[cid] = C /\ ~Doomed(cid)

SeenMet ==
  Sweeping =>
    \A C \in cons_seen :
      /\ C.type = phase /\ C = Updated(C) /\ SeenKept(C)
      /\ \A D \in ComplexCons : SameCons(C, D) =>
           \A o \in d_points_to :
             Solved(D, o) \/ (pc = "member" /\ ~lsc.del /\ C = lsc.C /\ <<o, NoSite>> \in members)

CallMember ==
  pc = "member" /\ ~lsc.del /\ lsc.I # {} =>
    lsc.C.off # 0 /\ IsCall(sys, sys.cons[lsc.cid])

SoundInv ==
  /\ pc \notin {"abort", "done"} =>
       /\ FactsHold /\ FramesLinked /\ MergeChain /\ HcdMet /\ SeenMet /\ CallMember
       /\ \A Q \in SUBSET Node : Covering(Q) => NoneLost(Q)
  /\ pc \in {"end", "done"} /\ ~gave_up => IsSolution(sys, Result)

(* What the code takes for granted: a nested merge is of HCD variables of  *)
(* a pointer that points to something (otherwise its result is never       *)
(* queued, see MCResults), a parameter merged with something that is no    *)
(* pointer is itself none, and a call and a load or store with an offset   *)
(* that is none never become the same constraint.                          *)
MergesSeen ==
  pc = "merge" /\ NestedMerge(g, marg[1], marg[2]) # <<>> =>
    g.points_to[marg[1]] \cup g.points_to[marg[2]] # {}

TypesKept == \A x \in Node : g.rep[x] \in NonPtrVal => x \in NonPtrVal

CallsApart ==
  \A C, D \in ComplexCons :
    C.off # 0 /\ SameCons(C, D) => (IsCall(sys, C) <=> IsCall(sys, D))

AsExpected == MergesSeen /\ TypesKept /\ CallsApart

-----------------------------------------------------------------------------
(* The inductive invariant behind Precise.  S stands for any solution in   *)
(* which the cycles that HCD found offline are cycles, the least one for   *)
(* instance.                                                               *)

(* Parameters of a non-pointer type, which stores by a call leave alone.   *)
IntParams ==
  {t \in NonPtrVal : \E f \in FuncNode : \E k \in 2 .. (ObjSz[f] - 1) : t = f + k}

(* Whatever x points to is on a cycle with w, and it does point somewhere. *)
CycleVar(S, x, w) ==
  /\ S[x] \ {i2p} # {}
  /\ \A o \in S[x] \ {i2p} : S[o] = S[w]
  /\ w \notin IntParams

Faithful(s, S) ==
  /\ \A x \in Node : s.hcd_var[x] # 0 => CycleVar(S, x, s.hcd_var[x])
  /\ \A t \in IntParams : S[t] = {} /\ \A x \in Node : t \notin S[x]

FaithfulSolution(S) ==
  S \in Assignments /\ IsSolution(sys, S) /\ Faithful(sys, S)

(* Everything in the graph follows from S.                                 *)
Under(gr, S) ==
  /\ \A x \in Node : gr.points_to[x] \subseteq S[x] /\ S[gr.rep[x]] = S[x]
  /\ \A x \in Node : \A d \in gr.copy_to[x] : S[x] \subseteq S[d]
  /\ \A x \in Node : gr.hcd_var[x] # 0 => CycleVar(S, x, gr.hcd_var[x])
  /\ \A t \in IntParams \cup {i2p} : \A x \in Node : gr.rep[x] = t <=> x = t

BelowGraph(S) == Under(g, S) /\ \A x \in lcd_starts : S[x] # {}

(* What solve_ls_off is going to add for the pointee m follows from S.     *)
MemberOK(S, m) ==
  LET t == m[1] + lsc.C.off IN
  CASE m[2] # NoSite -> ExtEffect[m] \in Effects(sys, S)
    [] m[2] = NoSite /\ lsc.C.type = "load" -> Leads(S, t, lsc.C.dest)
    [] m[2] = NoSite /\ lsc.C.type = "store" ->
         Leads(S, lsc.C.src, t) \/ (lsc.I # {} /\ t \in IntParams)

(* The same for the locals of solve_node: the pointees it goes over and    *)
(* the HCD variable that stands for them.                                  *)
VisitBelow(S) ==
  /\ d_points_to \subseteq S[n]
  /\ pc = "hcd" \/ (pc \in {"merge", "unwind"} /\ mret = "hcd") =>
       /\ members \subseteq d_points_to \X {NoSite}
       /\ (members # {} \/ hcd_rep # 0) => CycleVar(S, n, hcd_rep)
  /\ Sweeping /\ hcd_rep # 0 => CycleVar(S, n, hcd_rep)
  /\ pc = "member" => \A m \in members : MemberOK(S, m)

(* The node the loop that called merge_nodes goes on with is represented   *)
(* by what the outermost call returns; only equivalent nodes are merged.   *)
Caller == IF mret = "hcd" THEN hcd_rep ELSE Last(frames).n

MergeBelow(S) ==
  /\ pc \in {"merge", "unwind"} =>
       g.rep[Caller] = g.rep[IF mframes = <<>> THEN marg[1] ELSE mframes[1].n1]
  /\ pc = "merge" => /\ S[marg[1]] = S[marg[2]]
                     /\ {marg[1], marg[2]} \cap IntParams = {}

BelowInv(S) ==
  FaithfulSolution(S) /\ BelowGraph(S) /\ (pc # "abort" => VisitBelow(S) /\ MergeBelow(S))

(* Lazy cycle detection: it merges what it finds on its stack, and the     *)
(* nodes there are equivalent because the search is Tarjan's.  The live    *)
(* nodes are those on lcd_stk and on the recursion stack.                  *)
Collapsing == pc = "collapse" \/ (pc \in {"merge", "unwind"} /\ mret = "collapse")
InLcd == pc \in {"lcd", "dfs"} \/ Collapsing

Frame(k) == frames[k].n
Low(y) == lcd_dfs_id[y]
Stacked == {lcd_stk[i] : i \in DOMAIN lcd_stk}
Live == Stacked \cup {Frame(k) : k \in DOMAIN frames}

(* Outside the search there are no frames, and between two searches        *)
(* nothing is left on the stack.                                           *)
IdleInv ==
  /\ ~InLcd => frames = <<>>
  /\ ~InLcd \/ pc = "lcd" => lcd_stk = <<>> /\ frames = <<>>

(* The numbers of the search: frames are numbered upwards, a frame has a   *)
(* low number at most its own, and the root of an SCC keeps its own.       *)
IdInv ==
  /\ curr_lcd_dfs >= 1
  /\ \A y \in Node : Low(y) = Unvisited \/ Low(y) \in 1 .. (curr_lcd_dfs - 1)
  /\ \A y \in Node : Low(y) # Unvisited => Low(g.rep[y]) # Unvisited
  /\ \A k \in DOMAIN frames : frames[k].our_dfs \in 1 .. (curr_lcd_dfs - 1)
  /\ \A k, l \in DOMAIN frames : k < l => frames[k].our_dfs < frames[l].our_dfs
  /\ \A y \in Live : Low(y) # Unvisited
  /\ \A k \in DOMAIN frames : k < Len(frames) \/ ~Collapsing => Low(Frame(k)) <= frames[k].our_dfs
  /\ Collapsing => Low(Frame(Len(frames))) >= frames[Len(frames)].our_dfs

(* The live nodes are different and representatives, but for the root that *)
(* merge_nodes has just merged away.                                       *)
Apart ==
  /\ \A i, j \in DOMAIN lcd_stk : i # j => lcd_stk[i] # lcd_stk[j]
  /\ \A k, l \in DOMAIN frames : k # l => Frame(k) # Frame(l)
  /\ \A k \in DOMAIN frames : Frame(k) \notin Stacked
  /\ \A y \in Live : is_rep(g, y) \/ (pc = "unwind" /\ y = Last(frames).n)

(* A merge of the search is of the root with a node popped from the stack. *)
MergingLcd ==
  pc \in {"merge", "unwind"} /\ mret = "collapse" =>
    /\ mframes = <<>>
    /\ \A i \in {1, 2} :
         /\ marg[i] \notin Stacked
         /\ \A k \in 1 .. (Len(frames) - 1) : Frame(k) # marg[i]
         /\ Low(marg[i]) # Unvisited /\ Low(marg[i]) >= Last(frames).our_dfs
    /\ pc = "merge" => marg[1] = Last(frames).n /\ is_rep(g, marg[2]) /\ marg[2] # marg[1]
    /\ pc = "unwind" => marg[1] = marg[2]

(* A visited node is live until its SCC is collapsed.                      *)
LiveInv ==
  \A d \in Node :
    is_rep(g, d) /\ Low(d) # Unvisited /\ d \notin lcd_roots =>
      d \in Live \/ (pc \in {"merge", "unwind"} /\ mret = "collapse" /\ d \in {marg[1], marg[2]})

(* A frame waits for the next one; the last one, if it waits, for a node   *)
(* that is live or has been collapsed.                                     *)
WaitInv ==
  /\ Collapsing => ~Last(frames).waits
  /\ \A k \in 1 .. (Len(frames) - 1) : g.rep[frames[k].dest0] = g.rep[Frame(k + 1)]
  /\ frames # <<>> /\ Last(frames).waits =>
       LET d == g.rep[Last(frames).dest0]
       IN d \in Live \/ Low(d) > Last(frames).our_dfs

(* The frames are a path of inclusions.                                    *)
PathInv(S) ==
  \A k \in DOMAIN frames :
    /\ S[Frame(k)] # {}
    /\ \A l \in DOMAIN frames : k <= l => S[Frame(k)] \subseteq S[Frame(l)]
    /\ \A e \in frames[k].edges \cup frames[k].add_copy : S[Frame(k)] \subseteq S[e]
    /\ frames[k].waits => S[Frame(k)] \subseteq S[frames[k].dest0]

(* A frame leads to what was put on the stack during it ...                *)
DownInv(S) ==
  \A y \in Stacked : \A k \in DOMAIN frames :
    frames[k].our_dfs <= Low(y) => S[Frame(k)] \subseteq S[y]

(* ... and that leads back, past every frame with a number above its own.  *)
UpInv(S) ==
  /\ \A y \in Live : \A k \in DOMAIN frames :
       Low(y) < frames[k].our_dfs => k > 1 /\ S[y] \subseteq S[Frame(k - 1)]
  /\ \A y \in Stacked : frames # <<>> /\ S[y] \subseteq S[Last(frames).n]

(* Frame k is known not to be a root.                                      *)
NoRoot(k) ==
  \/ \E l \in k .. Len(frames) : Low(Frame(l)) < frames[k].our_dfs
  \/ Last(frames).waits /\ Low(g.rep[Last(frames).dest0]) < frames[k].our_dfs

(* What belongs to the SCC of a root is on top of the stack.               *)
OrderInv ==
  \A i, j \in DOMAIN lcd_stk : \A k \in DOMAIN frames :
    i < j /\ Low(lcd_stk[i]) >= frames[k].our_dfs /\ Low(lcd_stk[j]) < frames[k].our_dfs => NoRoot(k)

LcdBelow(S) ==
  /\ IdleInv
  /\ InLcd => /\ \A x \in lcd_todo : S[x] # {}
              /\ IdInv /\ Apart /\ MergingLcd /\ LiveInv /\ WaitInv
              /\ PathInv(S) /\ DownInv(S) /\ UpInv(S) /\ OrderInv

LcdBelowInv(S) == pc # "abort" => LcdBelow(S)

(* Collapsing an SCC merges no two HCD variables: where it does, the merge *)
(* may reach nodes that lcd_dfs still has on its stacks.                   *)
NoNestedLcd ==
  pc = "merge" /\ mret = "collapse" => NestedMerge(g, marg[1], marg[2]) = <<>>

-----------------------------------------------------------------------------
(* Representatives reachable over copy edges.                              *)
CopyReach(x) ==
  LET close[S \in SUBSET Node] ==
        LET T == S \cup {g.rep[d] : d \in UNION {g.copy_to[s] : s \in S}}
        IN IF T = S THEN S ELSE close[T]
  IN close[{x}]

OnCycle(x, y) == y \in CopyReach(x) /\ x \in CopyReach(y)

(* Lazy cycle detection merges only nodes that are on a cycle of copy      *)
(* edges at that moment.                                                   *)
LcdMergesCycles ==
  [][pc = "collapse" /\ pc' = "merge" => OnCycle(marg'[1], marg'[2])]_vars

(* When run_lcd is through, no cycle of copy edges is left that can be     *)
(* reached from the nodes it started from.                                 *)
LcdComplete ==
  pc = "lcd" /\ lcd_todo = {} =>
    \A s \in lcd_starts : \A x, y \in CopyReach(g.rep[s]) :
      x # y => ~OnCycle(x, y)

(* A step never takes a pointee away from a variable and never separates   *)
(* nodes that were merged.                                                 *)
OnlyGrows ==
  [][/\ \A x \in Node : Result[x] \subseteq Result'[x]
     /\ \A x, y \in Node : g.rep[x] = g.rep[y] => g'.rep[x] = g'.rep[y]]_vars

-----------------------------------------------------------------------------
(* solve always returns.                                                   *)
Terminates == <>(pc = "done")

(* The solver implements the abstract one: until it returns it discovers   *)
(* pointees of the least solution, and it returns with a solution, unless  *)
(* a limit stopped it.                                                     *)
Abs == INSTANCE Andersen
         WITH pt <- Result,
              status <- IF pc # "done" THEN "running"
                        ELSE IF gave_up THEN "partial" ELSE "solved"

ImplementsAndersen == Abs!Spec
=============================================================================
