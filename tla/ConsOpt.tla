------------------------------ MODULE ConsOpt ------------------------------
(***************************************************************************)
(* The optimisation of the constraint list before the solver runs:         *)
(* cons_opt renumbers the nodes so that objects come first, merges the     *)
(* pointer-equivalent variables found by HVN and HRU, records the offline  *)
(* cycles of hybrid cycle detection, and factors loads and stores.  The    *)
(* depth-first searches over the offline graph are modelled step by step;  *)
(* each edge and each return is an action.                                 *)
(***************************************************************************)
EXTENDS OfflineGraph, ConstraintGraph, TLC

CONSTANTS
  OldSz,       \* obj_sz of the nodes as the constraint generator numbers them
  Inputs       \* what it may hand over, in those numbers: cons, icall, and
               \* min_del: hr goes on while it removes so many constraints

VARIABLES
  input,       \* the constraints before any change (for the properties)
  phase,       \* the phase of cons_opt, "done", or "abort" after an assert
  size,        \* nodes.size()
  cons,        \* constraints
  icall,       \* icall_cons, as in System
  g,           \* rep, rank, nonptr and hcd_var of the main nodes
  off,         \* off_nodes; none between two searches
  frames,      \* the active calls of hvn_dfs or hcd_dfs
  dfs_stk, curr_dfs, next_ptr_eq, lbl2pe

search == <<off, frames, dfs_stk, curr_dfs, next_ptr_eq, lbl2pe>>
vars   == <<input, phase, size, cons, icall, g, search>>

first_var_node   == 3
factor_ls_min_sz == 2

Null  == <<"null", 0>>
NoOff == [nodes |-> {}]

-----------------------------------------------------------------------------
(* clump_addr_taken: objects first, each part in its old order.             *)

OldNodes == DOMAIN OldSz

(* The nodes that are placed before node i.                                 *)
Ahead(i) == {j \in OldNodes : /\ j >= first_var_node
                              /\ IF OldSz[i] > 0 THEN j < i /\ OldSz[j] > 0
                                                 ELSE j < i \/ OldSz[j] > 0}

move_to == [i \in OldNodes |-> IF i < first_var_node THEN i
                               ELSE first_var_node + Cardinality(Ahead(i))]

Moved(C) == [C EXCEPT !.dest = move_to[@], !.src = move_to[@]]

clump_addr_taken ==
  /\ phase = "clump"
  /\ cons' = [i \in DOMAIN cons |-> Moved(cons[i])]
  /\ icall' = {<<Moved(e[1]), e[2]>> : e \in icall}
  /\ phase' = IF \A C \in Range(cons) : C.type = "addr_of" => OldSz[C.src] > 0
              THEN "hvn" ELSE "abort"
  /\ UNCHANGED <<input, size, g, search>>

-----------------------------------------------------------------------------
(* The offline graph.  Its nodes have the order of their numbers: AFPs,     *)
(* p_i2p and the other variables, then the REF nodes in the same order.     *)
Num(m) == m[2] + Cardinality(Node) * ((IF m[2] \in AFP THEN 0 ELSE 1)
                                      + (IF m[1] = "ref" THEN 2 ELSE 0))
Lowest(M) == CHOOSE m \in M : \A k \in M : Num(m) <= Num(k)

HasOffNode == {v \in 0 .. size - 1 : HasOff(v) /\ is_rep(g, v)}

(* The right-hand sides of GEPs, numbered after all nodes, as labels.       *)
Geps == SetToSeq({<<C.src, C.off>> : C \in {c \in Range(cons) : c.type = "gep"}})
gep2pe(R) == size - 1 + (CHOOSE i \in DOMAIN Geps : Geps[i] = R)

PreLabelled(v) ==
  {C.src : C \in {c \in Range(cons) : c.type = "addr_of" /\ c.dest = v}}
  \cup {gep2pe(<<C.src, C.off>>) :
          C \in {c \in Range(cons) : c.type = "gep" /\ c.dest = v}}

(* make_off_nodes and add_off_edges.  For HCD there are no implicit edges,  *)
(* labels or indirect nodes.                                                *)
OffNodes(hcd) ==
  LET M == {Var(v) : v \in HasOffNode} \cup {Ref(v) : v \in HasOffNode}
      Out(E) == [m \in M |-> {e[2] : e \in {x \in E : x[1] = m}}]
  IN [nodes      |-> M,
      edges      |-> Out(OffEdges(cons)),
      impl_edges |-> Out(IF hcd THEN {} ELSE ImplEdges(cons)),
      rep        |-> [m \in M |-> m],
      dfs_id     |-> [m \in M |-> 0],
      scc_root   |-> {},
      indirect   |-> {m \in M : ~hcd /\ Indirect(cons, m)},
      ptr_eq     |-> [m \in M |-> IF hcd \/ m[1] = "ref" THEN {}
                                  ELSE PreLabelled(m[2])]]

(* The assert of add_off_edges.                                             *)
RepsOnly == \A C \in Range(cons) : is_rep(g, C.dest) /\ is_rep(g, C.src)

StartPass ==
  /\ phase \in {"hvn", "hr", "hcd"} /\ off = NoOff
  /\ IF RepsOnly
     THEN off' = OffNodes(phase = "hcd") /\ UNCHANGED phase
     ELSE phase' = "abort" /\ UNCHANGED off
  /\ next_ptr_eq' = size + Len(Geps)
  /\ curr_dfs' = 1 /\ lbl2pe' = [L \in {} |-> 0]
  /\ UNCHANGED <<input, size, cons, icall, g, frames, dfs_stk>>

-----------------------------------------------------------------------------
(* The searches: hvn_dfs with hvn_check_edge, and hcd_dfs.                  *)

Top     == Last(frames)
Callers == Front(frames)
Unvisited == {m \in off.nodes : off.dfs_id[m] = 0}

(* A call for node m; our_dfs is its local variable, dest the node it has   *)
(* made a recursive call for.                                               *)
Enter(callers, m) ==
  /\ frames' = Append(callers, [n |-> m, our_dfs |-> curr_dfs, dest |-> Null,
                                edges |-> off.edges[m],
                                impl_edges |-> off.impl_edges[m]])
  /\ off' = [off EXCEPT !.dfs_id[m] = curr_dfs]
  /\ curr_dfs' = curr_dfs + 1

Lower(n, n2) ==
  IF off.dfs_id[n2] < off.dfs_id[n]
  THEN [off EXCEPT !.dfs_id[n] = off.dfs_id[n2]] ELSE off

DfsStart ==
  /\ off # NoOff /\ frames = <<>> /\ Unvisited # {}
  /\ Enter(<<>>, Lowest(Unvisited))
  /\ UNCHANGED <<input, phase, size, cons, icall, g, dfs_stk, next_ptr_eq, lbl2pe>>

CheckEdge ==
  /\ frames # <<>>
  /\ Top.dest = Null /\ Top.edges \cup Top.impl_edges # {}
  /\ LET normal == Top.edges # {}
         dest == IF normal THEN Lowest(Top.edges) ELSE Lowest(Top.impl_edges)
         n2   == off.rep[dest]
         past == IF normal THEN [Top EXCEPT !.edges = @ \ {dest}]
                           ELSE [Top EXCEPT !.impl_edges = @ \ {dest}]
     IN
     \/ /\ n2 # Top.n /\ n2 \in Unvisited
        /\ Enter(Append(Callers, [past EXCEPT !.dest = n2]), n2)
     \/ /\ n2 = Top.n \/ n2 \notin Unvisited
        /\ frames' = Append(Callers, past)
        /\ off' = IF n2 \in off.scc_root THEN off ELSE Lower(Top.n, n2)
        /\ UNCHANGED curr_dfs
  /\ UNCHANGED <<input, phase, size, cons, icall, g, dfs_stk, next_ptr_eq, lbl2pe>>

DfsReturn ==
  /\ frames # <<>> /\ Top.dest # Null
  /\ off' = Lower(Top.n, Top.dest)
  /\ frames' = Append(Callers, [Top EXCEPT !.dest = Null])
  /\ UNCHANGED <<input, phase, size, cons, icall, g, dfs_stk, curr_dfs,
                 next_ptr_eq, lbl2pe>>

(* All edges of the top call are done.                                      *)
Explored == /\ frames # <<>>
            /\ Top.dest = Null /\ Top.edges \cup Top.impl_edges = {}
IsRoot   == off.dfs_id[Top.n] = Top.our_dfs

(* The part of the stack visited since the top call began.                  *)
Scc == LET kept == {i \in DOMAIN dfs_stk : off.dfs_id[dfs_stk[i]] < Top.our_dfs}
       IN SubSeq(dfs_stk, Max(kept \cup {0}) + 1, Len(dfs_stk))

PopScc == dfs_stk' = SubSeq(dfs_stk, 1, Len(dfs_stk) - Len(Scc))

NotRoot ==
  /\ Explored /\ ~IsRoot
  /\ dfs_stk' = Append(dfs_stk, Top.n)
  /\ frames' = Callers
  /\ UNCHANGED <<input, phase, size, cons, icall, g, off, curr_dfs,
                 next_ptr_eq, lbl2pe>>

-----------------------------------------------------------------------------
(* HVN and HRU: labels for the components.                                  *)

(* merge_off_nodes of a component into its root n, which no member outranks *)
(* as all of them are merged for the first time.                            *)
Collapsed(n, S) ==
  LET all == {n} \cup S
      Moving(f) == [m \in DOMAIN f |-> IF m = n THEN UNION {f[k] : k \in all}
                                       ELSE IF m \in S THEN {} ELSE f[m]]
  IN [off EXCEPT !.edges = Moving(@), !.impl_edges = Moving(@), !.ptr_eq = Moving(@),
                 !.rep = [m \in DOMAIN @ |-> IF m \in S THEN n ELSE @[m]],
                 !.indirect = IF all \cap @ = {} THEN @ ELSE @ \cup {n},
                 !.scc_root = @ \cup {n}]

Sources(o, n) == {o.rep[d] : d \in o.edges[n]} \ {n}

(* The node's own labels and those of its neighbours that are pointers.     *)
Incoming(o, n) == o.ptr_eq[n] \cup (UNION {o.ptr_eq[k] : k \in Sources(o, n)} \ {0})

Labelled(o, n, pe) ==
  /\ off' = [o EXCEPT !.ptr_eq[n] = IF pe = {} THEN {0} ELSE pe]
  /\ next_ptr_eq' = IF next_ptr_eq \in pe THEN next_ptr_eq + 1 ELSE next_ptr_eq

(* Mutation: an indirect node is labelled by its neighbors alone.           *)
NewLabelNone(o, n) == {}

(* An indirect node gets a label of its own.                                *)
NewLabel(o, n) == IF n \in o.indirect THEN {next_ptr_eq} ELSE {}

hvn_label(o, n) ==
  LET pe    == Incoming(o, n)
      known == IF pe \in DOMAIN lbl2pe THEN lbl2pe[pe] ELSE next_ptr_eq
      many  == NewLabel(o, n) = {} /\ Cardinality(pe) > 1
  IN /\ Labelled(o, n, IF NewLabel(o, n) # {} THEN NewLabel(o, n)
                       ELSE IF many THEN {known} ELSE pe)
     /\ lbl2pe' = IF many THEN lbl2pe @@ (pe :> known) ELSE lbl2pe

hu_label(o, n) ==
  /\ Labelled(o, n, Incoming(o, n) \cup NewLabel(o, n))
  /\ UNCHANGED lbl2pe

HvnRoot ==
  /\ Explored /\ IsRoot /\ phase \in {"hvn", "hr"}
  /\ PopScc
  /\ LET o == Collapsed(Top.n, Range(Scc))
     IN /\ IF phase = "hr" THEN hu_label(o, Top.n) ELSE hvn_label(o, Top.n)
        /\ phase' = IF \E k \in Sources(o, Top.n) : o.ptr_eq[k] = {} THEN "abort" ELSE phase
  /\ frames' = Callers
  /\ UNCHANGED <<input, size, cons, icall, g, curr_dfs>>

(* merge_nodes with the nested merges of HCD variables; n is the node it    *)
(* returns, ok that its asserts hold.                                       *)
RECURSIVE merge_nodes(_, _, _)
merge_nodes(h, n1, n2) ==
  IF ~CanMerge(h, n1, n2) THEN [g |-> h, n |-> n1, ok |-> FALSE]
  ELSE LET p  == Parent(h, n1, n2)
           u  == Unify(h, n1, n2)
           hv == NestedMerge(h, n1, n2)
       IN IF hv = <<>> THEN [g |-> u, n |-> p, ok |-> TRUE]
          ELSE LET r == merge_nodes(u, hv[1], hv[2])
               IN [r EXCEPT !.n = r.g.rep[p],
                            !.ok = @ /\ (p = hv[2] \/ is_rep(r.g, p))]

LabelOf(v) == off.ptr_eq[off.rep[Var(v)]]

(* Merge the nodes of one label, in the order of their numbers.             *)
MergeEqual(acc, v) ==
  LET pe == LabelOf(v) IN
  IF 0 \in pe THEN [acc EXCEPT !.g.nonptr = @ \cup {v}]
  ELSE IF pe \notin DOMAIN acc.pe2node
       THEN [acc EXCEPT !.pe2node = @ @@ (pe :> v), !.ok = @ /\ v \notin acc.g.nonptr]
  ELSE LET m == merge_nodes(acc.g, acc.pe2node[pe], v)
       IN [g |-> m.g, pe2node |-> [acc.pe2node EXCEPT ![pe] = m.n],
           ok |-> acc.ok /\ m.ok /\ v \notin acc.g.nonptr]

(* A constraint between representatives; the source of an addr_of stays.    *)
ToReps(h, C) ==
  [C EXCEPT !.dest = h.rep[@], !.src = IF C.type = "addr_of" THEN @ ELSE h.rep[@]]

(* Copies of a node to itself and duplicates are left out, so a pass never  *)
(* adds constraints and the difference of counts in hr does not wrap.       *)
AddCons(list, C) ==
  IF C \in Range(list) \/ (C.type = "copy" /\ C.dest = C.src)
  THEN list ELSE Append(list, C)

Rewritten(h, list) == FoldLeft(LAMBDA l, C : AddCons(l, ToReps(h, C)), <<>>, list)

RewrittenCalls(h, calls) == {<<ToReps(h, e[1]), e[2]>> : e \in calls}

EndSearch ==
  /\ off' = NoOff /\ lbl2pe' = [L \in {} |-> 0]
  /\ UNCHANGED <<frames, dfs_stk, curr_dfs, next_ptr_eq>>

merge_ptr_eq ==
  /\ phase \in {"hvn", "hr"} /\ off # NoOff
  /\ frames = <<>> /\ Unvisited = {}
  /\ LET r == FoldLeft(MergeEqual, [g |-> g, pe2node |-> [L \in {} |-> 0], ok |-> TRUE],
                       SelectSeq([i \in 1 .. size |-> i - 1], LAMBDA v : v \in HasOffNode))
         Ptrs(C) == {C.dest, C.src} \cap r.g.nonptr = {}
     IN /\ g' = r.g
        /\ cons' = Rewritten(r.g, SelectSeq(cons, Ptrs))
        /\ icall' = RewrittenCalls(r.g, {e \in icall : Ptrs(e[1])})
        /\ phase' = CASE ~r.ok \/ dfs_stk # <<>> -> "abort"
                      [] r.ok /\ dfs_stk = <<>>
                         /\ (phase = "hvn" \/ Len(cons) - Len(cons') >= input.min_del) -> "hr"
                      [] OTHER -> "hcd"
  /\ EndSearch
  /\ UNCHANGED <<input, size>>

-----------------------------------------------------------------------------
(* HCD.                                                                     *)

HcdEntries(h, scc, var_rep) ==
  [v \in Node |-> IF Ref(v) \in scc THEN var_rep ELSE h.hcd_var[v]]

(* The variables of a component are merged, in the order they are taken     *)
(* from the stack, and its REF nodes are mapped to the result.              *)
HcdRoot ==
  /\ Explored /\ IsRoot /\ phase = "hcd"
  /\ PopScc /\ frames' = Callers
  /\ LET taken == <<Top.n>> \o Reverse(Scc)
         scc   == Range(taken)
         V     == SelectSeq(taken, LAMBDA m : m[1] = "var")
         Into(acc, m) == LET r == merge_nodes(acc.g, acc.n, m[2])
                         IN [r EXCEPT !.ok = @ /\ acc.ok]
         all   == FoldLeft(Into, [g |-> g, n |-> V[1][2], ok |-> TRUE], Tail(V))
     IN
     /\ off' = [off EXCEPT !.scc_root = @ \cup scc]
     /\ IF Scc = <<>> THEN UNCHANGED <<g, phase>>
        ELSE IF V = <<>> THEN phase' = "abort" /\ UNCHANGED g
        ELSE /\ g' = [all.g EXCEPT !.hcd_var = HcdEntries(all.g, scc, all.n)]
             /\ phase' = IF all.ok THEN phase ELSE "abort"
  /\ UNCHANGED <<input, size, cons, icall, curr_dfs, next_ptr_eq, lbl2pe>>

HcdDone ==
  /\ phase = "hcd" /\ off # NoOff
  /\ frames = <<>> /\ Unvisited = {}
  /\ cons' = Rewritten(g, cons)
  /\ icall' = RewrittenCalls(g, icall)
  /\ phase' = IF dfs_stk = <<>> THEN "factor" ELSE "abort"
  /\ EndSearch
  /\ UNCHANGED <<input, size, g>>

-----------------------------------------------------------------------------
(* factor_ls: one temporary for the loads, or stores, of one pointer and    *)
(* offset.                                                                  *)

Key(C) == <<Base(C), C.off>>
LoadOrStore(C) == C.type \in {"load", "store"}

(* The constraints that are factored, and a number for each pair of type    *)
(* and key; loads come first.                                               *)
Factored(C) ==
  /\ LoadOrStore(C)
  /\ Cardinality({D \in Range(cons) : D.type = C.type /\ Key(D) = Key(C)})
       >= factor_ls_min_sz

FactorKeys(t) == SetToSeq({Key(C) : C \in {D \in Range(cons) : D.type = t /\ Factored(D)}})

Temps == [i \in DOMAIN FactorKeys("load") |-> <<"load", FactorKeys("load")[i]>>]
         \o [i \in DOMAIN FactorKeys("store") |-> <<"store", FactorKeys("store")[i]>>]

Temp(t, k) == size - 1 + (CHOOSE i \in DOMAIN Temps : Temps[i] = <<t, k>>)

WithTemp(C, t) == IF C.type = "load" THEN [C EXCEPT !.dest = t] ELSE [C EXCEPT !.src = t]

CopyOfTemp(C, t) ==
  IF C.type = "load" THEN [type |-> "copy", dest |-> C.dest, src |-> t, off |-> 0]
                     ELSE [type |-> "copy", dest |-> t, src |-> C.src, off |-> 0]

FactoredCons ==
  LET two(C) == LET t == Temp(C.type, Key(C)) IN <<WithTemp(C, t), CopyOfTemp(C, t)>>
      add(l, C) == IF Factored(C) THEN AddCons(AddCons(l, two(C)[1]), two(C)[2])
                                  ELSE AddCons(l, C)
  IN FoldLeft(add, SelectSeq(cons, LAMBDA C : ~LoadOrStore(C)),
              SelectSeq(cons, LoadOrStore))

(* factor_temp, which loads and stores share; stores are entered last.      *)
FactorTemp(k) ==
  IF <<"store", k>> \in Range(Temps) THEN Temp("store", k)
  ELSE IF <<"load", k>> \in Range(Temps) THEN Temp("load", k)
  ELSE 0

(* Mutation: the calls keep their constraints.                              *)
FactoredCallSame(C) == C

FactoredCall(C) ==
  IF FactorTemp(Key(C)) = 0 THEN C ELSE WithTemp(C, FactorTemp(Key(C)))

factor_ls ==
  /\ phase = "factor"
  /\ cons' = FactoredCons
  /\ icall' = {<<FactoredCall(e[1]), e[2]>> : e \in icall}
  /\ size' = size + Len(Temps)
  /\ phase' = "done"
  /\ UNCHANGED <<input, g, search>>

-----------------------------------------------------------------------------
Init ==
  /\ input \in Inputs
  /\ phase = "clump"
  /\ size = Cardinality(OldNodes)
  /\ cons = input.cons /\ icall = input.icall
  /\ g = LET nil == [v \in Node |-> {}]
             zero == [v \in Node |-> 0]
         IN [points_to |-> nil, prev_points_to |-> nil, copy_to |-> nil, cons |-> nil,
             rep |-> [v \in Node |-> v], rank |-> zero, vtime |-> zero,
             hcd_var |-> zero, ind_calls |-> {}, nonptr |-> {}]
  /\ off = NoOff /\ frames = <<>> /\ dfs_stk = <<>> /\ curr_dfs = 1
  /\ next_ptr_eq = 0 /\ lbl2pe = [L \in {} |-> 0]

Next ==
  \/ clump_addr_taken
  \/ StartPass \/ DfsStart \/ CheckEdge \/ DfsReturn \/ NotRoot
  \/ HvnRoot \/ merge_ptr_eq
  \/ HcdRoot \/ HcdDone
  \/ factor_ls

Spec == Init /\ [][Next]_vars
=============================================================================
