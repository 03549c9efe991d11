------------------------------- MODULE Solver -------------------------------
(***************************************************************************)
(* The online solver of solve.cpp: solve_init, the main loop of solve with *)
(* its dual priority worklist, solve_node with hybrid cycle detection, the *)
(* complex constraints, indirect calls, propagation, and lazy cycle        *)
(* detection.  The program is sequential; a step of the model is one       *)
(* iteration of one of its loops, so that the data each loop holds on to   *)
(* (iterators, local node numbers, the frames of the two recursive         *)
(* functions) can be compared with the graph the loop body changes.        *)
(*                                                                         *)
(* pc names the loop the program is in:                                    *)
(*   "loop"     the while loop of solve                                    *)
(*   "hcd"      solve_node merging its new pointees with the HCD variable  *)
(*   "cons"     solve_node between two complex constraints                 *)
(*   "member"   inside one load or store, between two pointees             *)
(*   "prop"     solve_prop                                                 *)
(*   "merge"    on entry to merge_nodes                                    *)
(*   "unwind"   on return from merge_nodes                                 *)
(*   "check"    solve after a node run: limits, then cycle detection       *)
(*   "lcd"      the loop of run_lcd                                        *)
(*   "dfs"      the edge loop of lcd_dfs                                   *)
(*   "collapse" the loop of lcd_dfs that merges an SCC                     *)
(*   "end"      after the while loop                                       *)
(*   "done"     solve has returned                                         *)
(*   "abort"    an assert failed                                           *)
(***************************************************************************)
EXTENDS ConstraintGraph, Integers, FiniteSets

CONSTANTS
  Inputs,      \* the constraint systems solve_init may be given
  lcd_sz,      \* cycle detection runs when lcd_starts has this many nodes
  lcd_period,  \* or after this many node runs
  time_period, \* node runs between two looks at the clock (1024)
  mem_period   \* node runs between two looks at the memory use (10000)

ASSUME InputsAssumption == Inputs \subseteq System

ASSUME WellFormedAssumption == \A s \in Inputs : WellFormed(s)

(* The null node is in no constraint (the assert of add_cons), and an      *)
(* external call has an effect only on a value that has a node.            *)
ASSUME NullAssumption ==
  /\ \A s \in Inputs : \A C \in Range(s.cons) : 0 \notin {C.dest, C.src}
  /\ \A m \in ExtNode \X Site :
       ExtEffect[m].kind # "none" => 0 \notin {ExtEffect[m].dest, ExtEffect[m].src}

ASSUME PeriodAssumption ==
  /\ lcd_sz \in Nat \ {0}
  /\ lcd_period \in Nat \ {0}
  /\ time_period \in Nat \ {0}
  /\ mem_period \in Nat \ {0}

VARIABLES
  sys,             \* the constraint system given to solve_init (never changes)
  g,               \* the graph of Node objects
  cplx_cons,       \* the load, store and gep constraints by ID, updated in place
  icall_cons,      \* the call instructions of indirect-call constraints
  ext_seen,        \* external calls already handled, <<function, instruction>>
  curr, next,      \* the two heaps of the worklist, sets of <<node, priority>>
  n_node_runs, vtime, last_lcd,
  lcd_edges,       \* copy edges that already caused a cycle check
  lcd_starts,      \* nodes to start cycle detection from
  pc,
  gave_up,         \* history: solve left its loop because of a limit
  \* locals of solve_node and the functions it calls
  n, d_points_to, hcd_rep,
  phase,           \* which list of complex constraints is being gone over
  todo,            \* IDs of that list not gone over yet
  cons_seen,
  lsc,             \* the load or store being solved
  members,         \* <<pointee, instruction or NoSite>> pairs still to handle
  chg,
  \* merge_nodes
  marg,            \* its arguments, then the node it returns twice
  mframes,         \* the callers waiting in a nested call, n1 and rhv2 of each
  mret,            \* the loop merge_nodes was called from
  \* run_lcd and lcd_dfs
  lcd_todo,        \* members of lcd_starts not gone over yet
  frames,          \* the recursion of lcd_dfs, innermost last
  lcd_dfs_id, curr_lcd_dfs, lcd_roots, lcd_stk

graphVars == <<g, cplx_cons, icall_cons, ext_seen>>
wlVars    == <<curr, next>>
countVars == <<n_node_runs, vtime, last_lcd>>
visitVars == <<n, d_points_to, hcd_rep, phase, todo, cons_seen, lsc, members, chg>>
mergeVars == <<marg, mframes, mret>>
lcdVars   == <<lcd_todo, frames, lcd_dfs_id, curr_lcd_dfs, lcd_roots, lcd_stk>>
vars == <<sys, graphVars, wlVars, countVars, lcd_edges, lcd_starts, pc, gave_up,
          visitVars, mergeVars, lcdVars>>

-----------------------------------------------------------------------------
(* A node that lcd_dfs_id has no entry for.                                *)
Unvisited == -1

NoCons == [type |-> "copy", dest |-> 0, src |-> 0, off |-> 0]

(* The call of solve_ls_cons in progress: the updated constraint, its ID,  *)
(* its call instructions, and whether it is to be deleted.                 *)
NoLs == [C |-> NoCons, cid |-> 0, I |-> {}, del |-> FALSE]
LsCall == [C : Constraint, cid : Nat, I : SUBSET Site, del : BOOLEAN]

MergeFrame == [n1 : Node, rhv2 : Node]

(* One activation of lcd_dfs: our_dfs, the copy edges not looked at yet,   *)
(* the two bitmaps of edge updates, whether it waits for the recursive     *)
(* call over the edge to dest0, and whether anything was merged into n.    *)
DfsFrame == [n : Node, our_dfs : Nat, edges : SUBSET Node, del_copy : SUBSET Node,
             add_copy : SUBSET Node, waits : BOOLEAN, dest0 : Node, chg : BOOLEAN]

get_node_rep(x) == g.rep[x]

(* Heap::push: one entry per node, the priority of an old one is replaced. *)
Push(heap, x, p) == {e \in heap : e[1] # x} \cup {<<x, p>>}
PushAll(heap, X, h) == {e \in heap : e[1] \notin X} \cup {<<x, h.vtime[x]>> : x \in X}
(* Mutation: a pushed node gets ahead of the nodes visited with it.        *)
PushIfAhead(b, heap, x, h) == IF b THEN Push(heap, x, h.vtime[x] - 1) ELSE heap

PushIf(b, heap, x, h) == IF b THEN Push(heap, x, h.vtime[x]) ELSE heap

(* The entries Heap::pop may return.                                       *)
IsTop(e) == \A f \in curr : e[2] <= f[2]

(* The IDs in one of the three constraint lists of a node.                 *)
ListOf(x, t) == {cid \in g.cons[x] : cplx_cons[cid].type = t}

-----------------------------------------------------------------------------
(* solve_init *)
Complex(s) == {cid \in DOMAIN s.cons : s.cons[cid].type \in {"load", "store", "gep"}}

InitGraph(s) ==
  [points_to |-> [x \in Node |->
      {C.src : C \in {c \in OfType(s, "addr_of") : c.dest = x}}],
   prev_points_to |-> [x \in Node |-> {}],
   copy_to |-> [x \in Node |->
      {C.dest : C \in {c \in OfType(s, "copy") : c.src = x}}],
   cons |-> [x \in Node |-> {cid \in Complex(s) : Base(s.cons[cid]) = x}],
   rep |-> [x \in Node |-> x],
   rank |-> s.rank,
   vtime |-> [x \in Node |-> 0],
   hcd_var |-> s.hcd_var,
   ind_calls |-> {Base(cs[1]) : cs \in s.icall},
   nonptr |-> s.nonptr]

HasWork(h, x) ==
  /\ h.points_to[x] # {}
  /\ h.copy_to[x] # {} \/ h.cons[x] # {}

Init ==
  /\ sys \in Inputs
  /\ g = InitGraph(sys)
  /\ cplx_cons = sys.cons
  /\ icall_cons = sys.icall
  /\ ext_seen = {}
  /\ curr = {<<x, 0>> : x \in {y \in Node : HasWork(g, y)}}
  /\ next = {}
  /\ n_node_runs = 0 /\ vtime = 1 /\ last_lcd = 0
  /\ lcd_edges = {} /\ lcd_starts = {}
  /\ pc = "loop" /\ gave_up = FALSE
  /\ n = 0 /\ d_points_to = {} /\ hcd_rep = 0
  /\ phase = "load" /\ todo = {} /\ cons_seen = {}
  /\ lsc = NoLs /\ members = {} /\ chg = FALSE
  /\ marg = <<0, 0>> /\ mframes = <<>> /\ mret = "hcd"
  /\ lcd_todo = {} /\ frames = <<>>
  /\ lcd_dfs_id = [x \in Node |-> Unvisited]
  /\ curr_lcd_dfs = 1 /\ lcd_roots = {} /\ lcd_stk = <<>>

-----------------------------------------------------------------------------
(* solve: the while loop *)

SwapIfEmpty ==
  /\ pc = "loop" /\ curr = {} /\ next # {}
  /\ curr' = next
  /\ next' = {}
  /\ UNCHANGED <<sys, graphVars, countVars, lcd_edges, lcd_starts, pc, gave_up,
                 visitVars, mergeVars, lcdVars>>

(* Nothing is queued on either list: the graph has converged.              *)
Converge ==
  /\ pc = "loop" /\ curr = {} /\ next = {}
  /\ pc' = "end"
  /\ UNCHANGED <<sys, graphVars, wlVars, countVars, lcd_edges, lcd_starts, gave_up,
                 visitVars, mergeVars, lcdVars>>

(* Mutation: an entry as old as the last visit is stale.                   *)
IsStaleOrEqual(e) == ~is_rep(g, e[1]) \/ e[2] <= g.vtime[e[1]]

IsStale(e) == ~is_rep(g, e[1]) \/ e[2] < g.vtime[e[1]]

PopStale(e) ==
  /\ pc = "loop" /\ IsTop(e) /\ IsStale(e)
  /\ curr' = curr \ {e}
  /\ UNCHANGED <<sys, graphVars, next, countVars, lcd_edges, lcd_starts, pc, gave_up,
                 visitVars, mergeVars, lcdVars>>

(* Pop a node and start solve_node on it.  With nothing new to propagate   *)
(* the visit is over; otherwise the pointees are all merged with the HCD   *)
(* variable of the node, if it has one.                                    *)
Visit(e) ==
  LET x == e[1]
      delta == g.points_to[x] \ g.prev_points_to[x]
  IN
  /\ pc = "loop" /\ IsTop(e) /\ ~IsStale(e)
  /\ curr' = curr \ {e}
  /\ n_node_runs' = n_node_runs + 1
  /\ vtime' = vtime + 1
  /\ n' = x
  /\ d_points_to' = delta
  /\ IF delta = {}
       THEN /\ g' = [g EXCEPT !.vtime[x] = vtime]
            /\ pc' = "check"
            /\ UNCHANGED <<hcd_rep, members>>
       ELSE /\ g' = [g EXCEPT !.vtime[x] = vtime,
                              !.prev_points_to[x] = g.points_to[x]]
            /\ pc' = "hcd"
            /\ IF g.hcd_var[x] = 0
                 THEN hcd_rep' = 0 /\ members' = {}
                 ELSE /\ hcd_rep' = get_node_rep(g.hcd_var[x])
                      /\ members' = delta \X {NoSite}
  /\ UNCHANGED <<sys, cplx_cons, icall_cons, ext_seen, next, last_lcd, lcd_edges,
                 lcd_starts, gave_up, phase, todo, cons_seen, lsc, chg,
                 mergeVars, lcdVars>>

-----------------------------------------------------------------------------
(* solve_node: hybrid cycle detection *)

(* The vector of bdd2vec is ascending; the instructions of one pointee come *)
(* in the order of a set of pointers: any order.                           *)
IsFirst(m) == \A k \in members : m[1] <= k[1]

HcdMember(m) ==
  LET x == get_node_rep(m[1]) IN
  /\ pc = "hcd" /\ IsFirst(m)
  /\ members' = members \ {m}
  /\ IF x \in {hcd_rep, i2p}
       THEN UNCHANGED <<pc, mergeVars>>
       ELSE /\ marg' = <<hcd_rep, x>>
            /\ mframes' = <<>>
            /\ mret' = "hcd"
            /\ pc' = "merge"
  /\ UNCHANGED <<sys, graphVars, wlVars, countVars, lcd_edges, lcd_starts, gave_up,
                 n, d_points_to, hcd_rep, phase, todo, cons_seen, lsc, chg, lcdVars>>

(* hcd_rep is pushed even if it is 0.                                      *)
HcdDone ==
  /\ pc = "hcd" /\ members = {}
  /\ next' = Push(next, hcd_rep, g.vtime[hcd_rep])
  /\ IF is_rep(g, n) \/ get_node_rep(n) = hcd_rep
       THEN pc' = "cons"
       ELSE pc' = "abort"
  /\ phase' = "load"
  /\ todo' = ListOf(n, "load")
  /\ cons_seen' = {}
  /\ UNCHANGED <<sys, graphVars, curr, countVars, lcd_edges, lcd_starts, gave_up,
                 n, d_points_to, hcd_rep, lsc, members, chg, mergeVars, lcdVars>>

NextPhase ==
  /\ pc = "cons" /\ todo = {}
  /\ \/ /\ phase = "load"
        /\ phase' = "store"
        /\ pc' = pc
     \/ /\ phase = "store"
        /\ phase' = "gep"
        /\ pc' = pc
     \/ /\ phase = "gep"
        /\ pc' = "prop"
        /\ phase' = phase
  /\ todo' = ListOf(n, phase')
  /\ cons_seen' = {}
  /\ UNCHANGED <<sys, graphVars, wlVars, countVars, lcd_edges, lcd_starts, gave_up,
                 n, d_points_to, hcd_rep, lsc, members, chg, mergeVars, lcdVars>>

-----------------------------------------------------------------------------
(* solve_node: complex constraints *)

(* C refers to the representatives, as the constraint is rewritten to.     *)
Updated(C) == [C EXCEPT !.dest = get_node_rep(@), !.src = get_node_rep(@)]

SitesOf(ic, C) == {s \in Site : <<C, s>> \in ic}

(* The instructions of C0 after the lookup in icall_cons, and the map      *)
(* after the entry of a constraint with merged nodes was moved.            *)
CallSites(C0) == IF n \in g.ind_calls THEN SitesOf(icall_cons, C0) ELSE {}

(* Mutation: the moved entry replaces the one of an equal constraint.      *)
MovedCallsReplaced(C0) ==
  IF CallSites(C0) = {} THEN icall_cons
  ELSE {e \in icall_cons : e[1] \notin {C0, Updated(C0)}}
       \cup ({Updated(C0)} \X CallSites(C0))

MovedCalls(C0) ==
  IF CallSites(C0) = {} THEN icall_cons
  ELSE {e \in icall_cons : e[1] # C0} \cup ({Updated(C0)} \X CallSites(C0))

(* The return value is at offset 1 of a function, arguments start at 2.    *)
CallOffsetOK(C) == IF C.type = "load" THEN C.off = 1 ELSE C.off >= 2

(* Mutation: the mask drops external functions, which have one field.      *)
LsMembersMasked(C, I) ==
  CASE C.off = 0 -> d_points_to \X {NoSite}
    [] C.off # 0 /\ I = {} -> (Fits(d_points_to, C.off) \ FuncNode) \X {NoSite}
    [] C.off # 0 /\ I # {} ->
         (Fits(d_points_to \cap ExtNode, C.off) \X I)
         \cup ((Fits(d_points_to \cap FuncNode, C.off) \ ExtNode) \X {NoSite})

(* Pointees the constraint has to be solved for.  A call of an external    *)
(* function is handled once per call instruction.                          *)
LsMembers(C, I) ==
  CASE C.off = 0 -> d_points_to \X {NoSite}
    [] C.off # 0 /\ I = {} -> (Fits(d_points_to, C.off) \ FuncNode) \X {NoSite}
    [] C.off # 0 /\ I # {} ->
         ((d_points_to \cap ExtNode) \X I)
         \cup ((Fits(d_points_to \cap FuncNode, C.off) \ ExtNode) \X {NoSite})

(* Asserts of solve_ls_cons and of the loop it is about to start.          *)
LsOK(C0, C, I, dup) ==
  /\ get_node_rep(Base(C0)) = n
  /\ I # {} => CallOffsetOK(C)
  /\ (~dup /\ hcd_rep # 0 /\ C.off = 0) => is_rep(g, hcd_rep)

(* Start a load or store.  A duplicate only has its external calls handled *)
(* and is deleted; with HCD one edge to or from hcd_rep is enough and the  *)
(* constraint is deleted; otherwise every new pointee is gone over.        *)
LsCons ==
  LET cid == Min(todo)
      C0  == cplx_cons[cid]
      C   == Updated(C0)
      ic  == MovedCalls(C0)
      I   == IF CallSites(C0) = {} THEN {} ELSE SitesOf(ic, C)
      dup == C \in cons_seen
      hcd == ~dup /\ hcd_rep # 0 /\ C.off = 0
      h   == IF C.type = "load" THEN add_copy_edge(g, hcd_rep, C.dest)
                                ELSE add_copy_edge(g, C.src, hcd_rep)
      d   == IF C.type = "load" THEN C.dest ELSE hcd_rep
  IN
  /\ pc = "cons" /\ phase \in {"load", "store"} /\ todo # {}
  /\ todo' = todo \ {cid}
  /\ cplx_cons' = [cplx_cons EXCEPT ![cid] = C]
  /\ icall_cons' = ic
  /\ cons_seen' = cons_seen \cup {C}
  /\ IF hcd
       THEN /\ g' = [h EXCEPT !.cons[n] = @ \ {cid}]
            /\ next' = PushIf(Grew(g, h, d), next, d, g)
            /\ members' = {}
            /\ lsc' = lsc
       ELSE /\ lsc' = [C |-> C, cid |-> cid, I |-> I, del |-> dup]
            /\ members' = IF dup THEN (d_points_to \cap ExtNode) \X I
                                 ELSE LsMembers(C, I)
            /\ UNCHANGED <<g, next>>
  /\ chg' = FALSE
  /\ pc' = IF ~LsOK(C0, C, I, dup) THEN "abort"
           ELSE IF hcd THEN "cons" ELSE "member"
  /\ UNCHANGED <<sys, ext_seen, curr, countVars, lcd_edges, lcd_starts, gave_up,
                 n, d_points_to, hcd_rep, phase, mergeVars, lcdVars>>

(* One pointee of a load: an edge from its node (or the field at the       *)
(* offset) to dest, which is pushed once at the end.                       *)
LoadMember(m) ==
  LET t == get_node_rep(m[1] + lsc.C.off)
      h == add_copy_edge(g, t, lsc.C.dest)
  IN
  /\ pc = "member" /\ lsc.C.type = "load" /\ m[2] = NoSite /\ IsFirst(m)
  /\ members' = members \ {m}
  /\ g' = h
  /\ chg' = (chg \/ Grew(g, h, lsc.C.dest))
  /\ UNCHANGED <<sys, cplx_cons, icall_cons, ext_seen, wlVars, countVars, lcd_edges,
                 lcd_starts, pc, gave_up, n, d_points_to, hcd_rep, phase, todo,
                 cons_seen, lsc, mergeVars, lcdVars>>

(* One pointee of a store.  Nothing is stored into a parameter that is not *)
(* a pointer; the type looked at is that of the parameter's representative.*)
StoreMember(m) ==
  LET t == get_node_rep(m[1] + lsc.C.off)
      h == add_copy_edge(g, lsc.C.src, t)
  IN
  /\ pc = "member" /\ lsc.C.type = "store" /\ m[2] = NoSite /\ IsFirst(m)
  /\ members' = members \ {m}
  /\ IF lsc.I # {} /\ t \in NonPtrVal
       THEN UNCHANGED <<g, next>>
       ELSE /\ g' = h
            /\ next' = PushIf(Grew(g, h, t), next, t, g)
  /\ UNCHANGED <<sys, cplx_cons, icall_cons, ext_seen, curr, countVars, lcd_edges,
                 lcd_starts, pc, gave_up, n, d_points_to, hcd_rep, phase, todo,
                 cons_seen, lsc, chg, mergeVars, lcdVars>>

(* handle_ext: the effect of an external function on the call instruction, *)
(* the first time the pair is met.                                         *)
HandleExt(m) ==
  LET e == ExtEffect[m]
      d == get_node_rep(e.dest)
      h == CASE e.kind = "none"  -> g
             [] e.kind = "point" -> AddPointees(g, d, {e.src})
             [] e.kind = "copy"  -> add_copy_edge(g, get_node_rep(e.src), d)
  IN
  /\ pc = "member" /\ m[2] # NoSite /\ IsFirst(m)
  /\ members' = members \ {m}
  /\ ext_seen' = ext_seen \cup {m}
  /\ IF m \in ext_seen
       THEN UNCHANGED <<g, next>>
       ELSE /\ g' = h
            /\ next' = PushIf(Grew(g, h, d), next, d, g)
  /\ UNCHANGED <<sys, cplx_cons, icall_cons, curr, countVars, lcd_edges,
                 lcd_starts, pc, gave_up, n, d_points_to, hcd_rep, phase, todo,
                 cons_seen, lsc, chg, mergeVars, lcdVars>>

LsDone ==
  /\ pc = "member" /\ members = {}
  /\ g' = IF lsc.del THEN [g EXCEPT !.cons[n] = @ \ {lsc.cid}] ELSE g
  /\ next' = PushIf(chg, next, lsc.C.dest, g)
  /\ pc' = "cons"
  /\ UNCHANGED <<sys, cplx_cons, icall_cons, ext_seen, curr, countVars, lcd_edges,
                 lcd_starts, gave_up, visitVars, mergeVars, lcdVars>>

(* solve_gep_cons: the GEP function exists only if some object is large    *)
(* enough for the offset.                                                  *)
GepCons ==
  LET cid == Min(todo)
      C0  == cplx_cons[cid]
      C   == Updated(C0)
      dup == C \in cons_seen
      h   == IF dup THEN [g EXCEPT !.cons[n] = @ \ {cid}]
                    ELSE AddPointees(g, C.dest, Shift(d_points_to, C.off))
  IN
  /\ pc = "cons" /\ phase = "gep" /\ todo # {}
  /\ todo' = todo \ {cid}
  /\ cplx_cons' = [cplx_cons EXCEPT ![cid] = C]
  /\ cons_seen' = cons_seen \cup {C}
  /\ g' = h
  /\ next' = PushIf(Grew(g, h, C.dest), next, C.dest, g)
  /\ pc' = IF get_node_rep(C0.src) = n /\ (dup \/ Fits(Node, C.off) # {})
             THEN "cons" ELSE "abort"
  /\ UNCHANGED <<sys, icall_cons, ext_seen, curr, countVars, lcd_edges, lcd_starts,
                 gave_up, n, d_points_to, hcd_rep, phase, lsc, members, chg,
                 mergeVars, lcdVars>>

(* solve_prop: d_points_to goes to each different representative n has a   *)
(* copy edge to; an edge whose ends have equal sets starts a cycle check,  *)
(* once.  The targets differ from each other and from n, so the iterations *)
(* of the loop do not affect each other.                                   *)
Prop ==
  LET dests == {get_node_rep(d) : d \in g.copy_to[n]} \ {n}
      equal == {d \in dests : /\ <<n, d>> \notin lcd_edges
                              /\ g.points_to[n] # {}
                              /\ g.points_to[d] = g.points_to[n]}
      h == [g EXCEPT !.points_to =
              [x \in Node |-> IF x \in dests THEN @[x] \cup d_points_to ELSE @[x]]]
  IN
  /\ pc = "prop"
  /\ lcd_edges' = lcd_edges \cup ({n} \X equal)
  /\ lcd_starts' = lcd_starts \cup {x \in {n} : equal # {}}
  /\ g' = h
  /\ next' = PushAll(next, {d \in dests : Grew(g, h, d)}, g)
  /\ pc' = IF n \in g.copy_to[n] THEN "abort" ELSE "check"
  /\ UNCHANGED <<sys, cplx_cons, icall_cons, ext_seen, curr, countVars, gave_up,
                 visitVars, mergeVars, lcdVars>>

-----------------------------------------------------------------------------
(* merge_nodes *)

MergeNodes ==
  LET nested == NestedMerge(g, marg[1], marg[2])
      p == Parent(g, marg[1], marg[2])
  IN
  /\ pc = "merge"
  /\ IF ~CanMerge(g, marg[1], marg[2])
       THEN pc' = "abort" /\ UNCHANGED <<g, marg, mframes>>
       ELSE /\ g' = Unify(g, marg[1], marg[2])
            /\ IF nested = <<>>
                 THEN /\ marg' = <<p, p>>
                      /\ pc' = "unwind"
                      /\ UNCHANGED mframes
                 ELSE /\ marg' = nested
                      /\ mframes' = Append(mframes, [n1 |-> p, rhv2 |-> nested[2]])
                      /\ UNCHANGED pc
  /\ UNCHANGED <<sys, cplx_cons, icall_cons, ext_seen, wlVars, countVars, lcd_edges,
                 lcd_starts, gave_up, visitVars, mret, lcdVars>>

(* Back in the caller of a nested merge, which expects its n1 to have been *)
(* merged again only if it was the second argument.                        *)
MergeReturn ==
  LET f == Last(mframes)
      r == IF f.n1 = f.rhv2 THEN get_node_rep(f.n1) ELSE f.n1
  IN
  /\ pc = "unwind" /\ mframes # <<>>
  /\ mframes' = Front(mframes)
  /\ marg' = <<r, r>>
  /\ pc' = IF is_rep(g, r) THEN "unwind" ELSE "abort"
  /\ UNCHANGED <<sys, graphVars, wlVars, countVars, lcd_edges, lcd_starts, gave_up,
                 visitVars, mret, lcdVars>>

(* The outermost merge_nodes returns to the loop that called it.           *)
ReturnToHcd ==
  /\ pc = "unwind" /\ mframes = <<>> /\ mret = "hcd"
  /\ hcd_rep' = marg[1]
  /\ pc' = "hcd"
  /\ UNCHANGED <<sys, graphVars, wlVars, countVars, lcd_edges, lcd_starts, gave_up,
                 n, d_points_to, phase, todo, cons_seen, lsc, members, chg,
                 mergeVars, lcdVars>>

ReturnToCollapse ==
  /\ pc = "unwind" /\ mframes = <<>> /\ mret = "collapse"
  /\ frames' = [frames EXCEPT ![Len(frames)].n = marg[1]]
  /\ pc' = "collapse"
  /\ UNCHANGED <<sys, graphVars, wlVars, countVars, lcd_edges, lcd_starts, gave_up,
                 visitVars, mergeVars, lcd_todo, lcd_dfs_id, curr_lcd_dfs, lcd_roots,
                 lcd_stk>>

-----------------------------------------------------------------------------
(* solve: after a node run *)

LimitChecked == n_node_runs % time_period = 0 \/ n_node_runs % mem_period = 0

(* The time or memory limit is found exceeded.                             *)
GiveUp ==
  /\ pc = "check" /\ LimitChecked
  /\ gave_up' = TRUE
  /\ pc' = "end"
  /\ UNCHANGED <<sys, graphVars, wlVars, countVars, lcd_edges, lcd_starts,
                 visitVars, mergeVars, lcdVars>>

TimeForLcd ==
  \/ Cardinality(lcd_starts) >= lcd_sz
  \/ n_node_runs - last_lcd >= lcd_period

KeepGoing ==
  /\ pc = "check" /\ ~TimeForLcd
  /\ pc' = "loop"
  /\ UNCHANGED <<sys, graphVars, wlVars, countVars, lcd_edges, lcd_starts, gave_up,
                 visitVars, mergeVars, lcdVars>>

-----------------------------------------------------------------------------
(* run_lcd and lcd_dfs *)

RunLcd ==
  /\ pc = "check" /\ TimeForLcd
  /\ last_lcd' = n_node_runs
  /\ curr_lcd_dfs' = 1
  /\ lcd_dfs_id' = [x \in Node |-> Unvisited]
  /\ lcd_roots' = {}
  /\ lcd_todo' = lcd_starts
  /\ pc' = "lcd"
  /\ UNCHANGED <<sys, graphVars, wlVars, n_node_runs, vtime, lcd_edges, lcd_starts,
                 gave_up, visitVars, mergeVars, frames, lcd_stk>>

(* lcd_dfs(x) is entered.                                                  *)
NewFrame(x) ==
  [n |-> x, our_dfs |-> curr_lcd_dfs, edges |-> g.copy_to[x], del_copy |-> {},
   add_copy |-> {}, waits |-> FALSE, dest0 |-> 0, chg |-> FALSE]

CanEnter(x) == x # i2p /\ x \notin lcd_roots /\ is_rep(g, x)

LcdStart ==
  LET x == Min(lcd_todo) IN
  /\ pc = "lcd" /\ lcd_todo # {}
  /\ lcd_todo' = lcd_todo \ {x}
  /\ IF ~is_rep(g, x) \/ lcd_dfs_id[x] # Unvisited
       THEN UNCHANGED <<pc, frames, lcd_dfs_id, curr_lcd_dfs>>
       ELSE /\ frames' = <<NewFrame(x)>>
            /\ lcd_dfs_id' = [lcd_dfs_id EXCEPT ![x] = curr_lcd_dfs]
            /\ curr_lcd_dfs' = curr_lcd_dfs + 1
            /\ pc' = IF CanEnter(x) THEN "dfs" ELSE "abort"
  /\ UNCHANGED <<sys, graphVars, wlVars, countVars, lcd_edges, lcd_starts, gave_up,
                 visitVars, mergeVars, lcd_roots, lcd_stk>>

LcdDone ==
  /\ pc = "lcd" /\ lcd_todo = {}
  /\ lcd_starts' = {}
  /\ pc' = IF lcd_stk = <<>> THEN "loop" ELSE "abort"
  /\ UNCHANGED <<sys, graphVars, wlVars, countVars, lcd_edges, gave_up,
                 visitVars, mergeVars, lcdVars>>

(* Mutation: the edge stays in the worklist of the frame.                  *)
RelinkKept(f, d0, d) ==
  [f EXCEPT !.waits = FALSE,
            !.del_copy = IF d = d0 THEN @ ELSE @ \cup {d0},
            !.add_copy = IF d = d0 THEN @ ELSE @ \cup {d}]

(* The frame after the edge to d0, whose target is now d, is kept or       *)
(* replaced by an edge to d.                                               *)
Relink(f, d0, d) ==
  [f EXCEPT !.waits = FALSE,
            !.edges = @ \ {d0},
            !.del_copy = IF d = d0 THEN @ ELSE @ \cup {d0},
            !.add_copy = IF d = d0 THEN @ ELSE @ \cup {d}]

(* Relinking may not make an edge from a node to itself.                   *)
RelinkOK(f, d0, d) == d # d0 /\ d \notin f.add_copy => d # f.n

(* Mutation: the lowest ID is not passed on.                               *)
LowerLost(ids, x, id) == ids

Lower(ids, x, id) == [ids EXCEPT ![x] = IF id < @ THEN id ELSE @]

(* The next edge of the innermost frame, in the order of the bitmap: an    *)
(* edge to delete, a node to recurse on, or an edge to a visited node.     *)
DfsEdge ==
  LET k  == Len(frames)
      f  == frames[k]
      d0 == Min(f.edges)
      d  == get_node_rep(d0)
      skip == d \in f.add_copy \/ d = f.n
      down == d \notin lcd_roots /\ lcd_dfs_id[d] = Unvisited
      ids  == IF d \in lcd_roots THEN lcd_dfs_id
              ELSE Lower(lcd_dfs_id, f.n, lcd_dfs_id[d])
  IN
  /\ pc = "dfs" /\ ~f.waits /\ f.edges # {}
  /\ CASE d0 = f.n ->
            /\ pc' = "abort"
            /\ UNCHANGED <<frames, lcd_dfs_id, curr_lcd_dfs>>
       [] d0 # f.n /\ skip ->
            /\ frames' = [frames EXCEPT ![k].edges = @ \ {d0},
                                        ![k].del_copy = @ \cup {d0}]
            /\ UNCHANGED <<pc, lcd_dfs_id, curr_lcd_dfs>>
       [] d0 # f.n /\ ~skip /\ down ->
            /\ frames' = Append([frames EXCEPT ![k].waits = TRUE, ![k].dest0 = d0],
                              NewFrame(d))
            /\ lcd_dfs_id' = [lcd_dfs_id EXCEPT ![d] = curr_lcd_dfs]
            /\ curr_lcd_dfs' = curr_lcd_dfs + 1
            /\ pc' = IF CanEnter(d) THEN pc ELSE "abort"
       [] d0 # f.n /\ ~skip /\ ~down ->
            /\ frames' = [frames EXCEPT ![k] = Relink(f, d0, d)]
            /\ lcd_dfs_id' = ids
            /\ UNCHANGED <<pc, curr_lcd_dfs>>
  /\ UNCHANGED <<sys, graphVars, wlVars, countVars, lcd_edges, lcd_starts, gave_up,
                 visitVars, mergeVars, lcd_todo, lcd_roots, lcd_stk>>

(* lcd_dfs returned to this frame.  The entry of lcd_dfs_id for the        *)
(* present representative of the edge is created as 0 if there is none.    *)
(* Edges the calls added to this node may or may not be seen by the        *)
(* iterator, which caches the current word of the bitmap; it is invalid if *)
(* they merged the node away.                                              *)
DfsReturn ==
  LET k  == Len(frames)
      f  == frames[k]
      d  == get_node_rep(f.dest0)
      id == IF lcd_dfs_id[d] = Unvisited THEN 0 ELSE lcd_dfs_id[d]
  IN
  /\ pc = "dfs" /\ f.waits
  /\ \E late \in SUBSET {x \in g.copy_to[f.n] \ f.edges : x > f.dest0} :
       frames' = [frames EXCEPT ![k] =
                    [Relink(f, f.dest0, d) EXCEPT !.edges = @ \cup late]]
  /\ lcd_dfs_id' = Lower([lcd_dfs_id EXCEPT ![d] = id], f.n, id)
  /\ pc' = IF RelinkOK(f, f.dest0, d) /\ is_rep(g, f.n) THEN "dfs" ELSE "abort"
  /\ UNCHANGED <<sys, graphVars, wlVars, countVars, lcd_edges, lcd_starts, gave_up,
                 visitVars, mergeVars, lcd_todo, curr_lcd_dfs, lcd_roots, lcd_stk>>

(* Leave the innermost frame.                                              *)
Leave ==
  /\ frames' = Front(frames)
  /\ pc' = IF Len(frames) = 1 THEN "lcd" ELSE "dfs"

(* All edges of the frame are done: update them; the root of an SCC goes   *)
(* on to collapse it, another node waits on lcd_stk for its root.          *)
DfsDone ==
  LET f == Last(frames) IN
  /\ pc = "dfs" /\ ~f.waits /\ f.edges = {}
  /\ g' = [g EXCEPT !.copy_to[f.n] = (@ \ f.del_copy) \cup f.add_copy]
  /\ IF lcd_dfs_id[f.n] = f.our_dfs
       THEN /\ pc' = "collapse"
            /\ UNCHANGED <<frames, lcd_stk>>
       ELSE /\ lcd_stk' = Append(lcd_stk, f.n)
            /\ Leave
  /\ UNCHANGED <<sys, cplx_cons, icall_cons, ext_seen, wlVars, countVars, lcd_edges,
                 lcd_starts, gave_up, visitVars, mergeVars, lcd_todo, lcd_dfs_id,
                 curr_lcd_dfs, lcd_roots>>

(* Mutation: the whole stack is taken for the SCC.                         *)
InSccAll == lcd_stk # <<>>

(* Is the top of the stack a member of the SCC being collapsed?            *)
InScc == lcd_stk # <<>> /\ lcd_dfs_id[Last(lcd_stk)] >= Last(frames).our_dfs

CollapseNode ==
  LET x == get_node_rep(Last(lcd_stk))
      f == Last(frames)
  IN
  /\ pc = "collapse" /\ InScc
  /\ lcd_stk' = Front(lcd_stk)
  /\ frames' = [frames EXCEPT ![Len(frames)].chg = TRUE]
  /\ IF x = f.n
       THEN UNCHANGED <<pc, mergeVars>>
       ELSE /\ marg' = <<f.n, x>>
            /\ mframes' = <<>>
            /\ mret' = "collapse"
            /\ pc' = "merge"
  /\ UNCHANGED <<sys, graphVars, wlVars, countVars, lcd_edges, lcd_starts, gave_up,
                 visitVars, lcd_todo, lcd_dfs_id, curr_lcd_dfs, lcd_roots>>

Collapsed ==
  LET f == Last(frames) IN
  /\ pc = "collapse" /\ ~InScc
  /\ lcd_roots' = lcd_roots \cup {f.n}
  /\ next' = PushIf(f.chg, next, f.n, g)
  /\ Leave
  /\ UNCHANGED <<sys, graphVars, curr, countVars, lcd_edges, lcd_starts, gave_up,
                 visitVars, mergeVars, lcd_todo, lcd_dfs_id, curr_lcd_dfs, lcd_stk>>

-----------------------------------------------------------------------------
(* The asserts at the end of solve, then the cleanup of the worklist and   *)
(* of lcd_edges, lcd_dfs_id, lcd_roots and ext_seen.  lcd_starts is not    *)
(* cleared.                                                                *)
Finish ==
  /\ pc = "end"
  /\ pc' = IF \A x \in Node : g.points_to[x] # {} => is_rep(g, x) /\ x \notin g.nonptr
             THEN "done" ELSE "abort"
  /\ curr' = {} /\ next' = {}
  /\ lcd_edges' = {} /\ ext_seen' = {}
  /\ lcd_dfs_id' = [x \in Node |-> Unvisited]
  /\ lcd_roots' = {}
  /\ UNCHANGED <<sys, g, cplx_cons, icall_cons, countVars, lcd_starts, gave_up,
                 visitVars, mergeVars, lcd_todo, frames, curr_lcd_dfs, lcd_stk>>

Loop == SwapIfEmpty \/ Converge \/ \E e \in curr : PopStale(e) \/ Visit(e)

SolveNode ==
  \/ \E m \in members : HcdMember(m)
  \/ HcdDone \/ NextPhase \/ LsCons
  \/ \E m \in members : LoadMember(m) \/ StoreMember(m) \/ HandleExt(m)
  \/ LsDone \/ GepCons \/ Prop

Merge == MergeNodes \/ MergeReturn \/ ReturnToHcd \/ ReturnToCollapse

Lcd == \/ RunLcd \/ LcdStart \/ LcdDone
       \/ DfsEdge \/ DfsReturn \/ DfsDone \/ CollapseNode \/ Collapsed

Next == Loop \/ SolveNode \/ Merge \/ GiveUp \/ KeepGoing \/ Lcd \/ Finish

Spec == Init /\ [][Next]_vars

(* The program is one thread that never blocks.                            *)
FairSpec == Spec /\ WF_vars(Next)
=============================================================================
