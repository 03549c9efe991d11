--------------------------- MODULE ConstraintGraph ---------------------------
(***************************************************************************)
(* The online constraint graph: the Node objects of anders.h with the      *)
(* operations the solver changes them by.  A graph is one record whose     *)
(* fields are the fields of Node, each a function of the node ID.          *)
(*                                                                         *)
(* rep is kept in canonical form: rep[n] is what get_node_rep(n) returns.  *)
(* The parent pointers and their path compression are not part of this     *)
(* module.  load_to, store_from and gep_to are disjoint (a constraint ID   *)
(* has one type), so they are one field, cons.  hcd_var holds 0 for "not   *)
(* in the map".                                                            *)
(***************************************************************************)
EXTENDS ConstraintSystem

Graph == [points_to      : [Node -> SUBSET Node],
          prev_points_to : [Node -> SUBSET Node],
          copy_to        : [Node -> SUBSET Node],
          cons           : [Node -> SUBSET Nat],
          rep            : [Node -> Node],
          rank           : [Node -> Nat],
          vtime          : [Node -> Nat],
          hcd_var        : [Node -> Node],
          ind_calls      : SUBSET Node,
          nonptr         : SUBSET Node]

is_rep(g, n) == g.rep[n] = n

(* points_to |= S on node d.                                               *)
AddPointees(g, d, S) == [g EXCEPT !.points_to[d] = @ \cup S]

(* The copy edge s -> d and the whole points_to of s along it; nothing     *)
(* when it touches i2p, is a self-loop or is already there.                *)
add_copy_edge(g, s, d) ==
  IF i2p \in {s, d} \/ s = d \/ d \in g.copy_to[s]
    THEN g
    ELSE [g EXCEPT !.copy_to[s] = @ \cup {d},
                   !.points_to[d] = @ \cup g.points_to[s]]

Grew(g, h, n) == g.points_to[n] # h.points_to[n]

-----------------------------------------------------------------------------
(* merge_nodes: the node of higher rank stays the representative, the      *)
(* first argument when the ranks are equal.                                *)
Parent(g, n1, n2) == IF g.rank[n1] < g.rank[n2] THEN n2 ELSE n1
Child(g, n1, n2)  == IF g.rank[n1] < g.rank[n2] THEN n1 ELSE n2

CanMerge(g, n1, n2) ==
  /\ n1 # 0 /\ n2 # 0 /\ n1 # n2
  /\ i2p \notin {n1, n2}
  /\ is_rep(g, n1) /\ is_rep(g, n2)

(* What merging child c into parent p does to each field.  Everything of c *)
(* moves to p and c keeps nothing.                                         *)

(* Mutation: the sets of the child are dropped.                            *)
MergedPointeesLost(g, p, c) == [g.points_to EXCEPT ![c] = {}]

MergedPointees(g, p, c) == [g.points_to EXCEPT ![p] = @ \cup g.points_to[c], ![c] = {}]

(* Mutation: what both have propagated need not be propagated again.       *)
MergedPrevKept(g, p, c) ==
  [g.prev_points_to EXCEPT ![p] = @ \cup g.prev_points_to[c], ![c] = {}]

(* Everything has to be propagated again.                                  *)
MergedPrev(g, p, c) == [g.prev_points_to EXCEPT ![p] = {}, ![c] = {}]

(* Mutation: an edge between the two stays as a self-loop.                 *)
MergedEdgesLooped(g, p, c) ==
  [g.copy_to EXCEPT ![p] = @ \cup {IF d = c THEN p ELSE d : d \in g.copy_to[c]},
                    ![c] = {}]

MergedEdges(g, p, c) ==
  [g.copy_to EXCEPT ![p] = (@ \cup g.copy_to[c]) \ {p, c}, ![c] = {}]

(* Mutation: the child keeps its lists.                                    *)
MergedConsCopied(g, p, c) == [g.cons EXCEPT ![p] = @ \cup g.cons[c]]

MergedCons(g, p, c) == [g.cons EXCEPT ![p] = @ \cup g.cons[c], ![c] = {}]

MergedTime(g, p, c) ==
  [g.vtime EXCEPT ![p] = IF g.vtime[c] < @ THEN g.vtime[c] ELSE @]

(* The entry of c is erased here rather than after the nested merge, which *)
(* only looks at representatives.                                          *)
MergedHcd(g, p, c) ==
  [g.hcd_var EXCEPT ![p] = IF @ = 0 THEN g.hcd_var[c] ELSE @, ![c] = 0]

Absorb(g, p, c) ==
  [points_to |-> MergedPointees(g, p, c),
   prev_points_to |-> MergedPrev(g, p, c),
   copy_to |-> MergedEdges(g, p, c),
   cons |-> MergedCons(g, p, c),
   rep |-> [n \in Node |-> IF g.rep[n] = c THEN p ELSE g.rep[n]],
   rank |-> [g.rank EXCEPT ![p] = IF @ = g.rank[c] THEN @ + 1 ELSE @],
   vtime |-> MergedTime(g, p, c),
   hcd_var |-> MergedHcd(g, p, c),
   ind_calls |-> IF c \in g.ind_calls THEN (g.ind_calls \ {c}) \cup {p}
                                      ELSE g.ind_calls,
   nonptr |-> IF c \in g.nonptr THEN g.nonptr ELSE g.nonptr \ {p}]

Unify(g, n1, n2) == Absorb(g, Parent(g, n1, n2), Child(g, n1, n2))

(* Mutation: the pointer is taken for its HCD variable.                    *)
NestedMergePointer(g, n1, n2) ==
  LET p == Parent(g, n1, n2)
      rhv1 == Unify(g, n1, n2).rep[g.hcd_var[p]]
  IN IF g.hcd_var[n1] # 0 /\ g.hcd_var[n2] # 0 /\ rhv1 # p THEN <<rhv1, p>> ELSE <<>>

(* The representatives of the two offline cycles a merge of n1 and n2      *)
(* connects, in the order of the nested call; <<>> when there is nothing   *)
(* to merge.                                                               *)
NestedMerge(g, n1, n2) ==
  LET p == Parent(g, n1, n2)
      h == Unify(g, n1, n2)
      rhv1 == h.rep[g.hcd_var[p]]
      rhv2 == h.rep[g.hcd_var[Child(g, n1, n2)]]
  IN IF /\ g.hcd_var[n1] # 0
        /\ g.hcd_var[n2] # 0
        /\ rhv1 # rhv2
       THEN <<rhv1, rhv2>>
       ELSE <<>>
=============================================================================
