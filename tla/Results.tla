------------------------------- MODULE Results -------------------------------
(***************************************************************************)
(* What runOnModule does after solve returns, and what a client of the     *)
(* analysis then sees (main.cpp): run_cleanup deletes the constraint       *)
(* graph, pts_cleanup goes over the nodes once, drops the points-to sets   *)
(* of the objects and merges the nodes with equal sets, and the client     *)
(* asks for points-to sets and for the pointer-equivalence classes.        *)
(*                                                                         *)
(* eq is the hash map from the ID of a BDD to the first node that was seen *)
(* with it; two sets have the same ID exactly when they are equal, since   *)
(* the nodes keep the BDDs alive.                                          *)
(***************************************************************************)
EXTENDS Solver

CONSTANT ArgObj    \* object nodes whose value is an Argument

(* i2p is an object that is no Argument (obj_cons_id).                     *)
ASSUME ArgObjAssumption == ArgObj \subseteq Node \ {i2p} /\ ObjSz[i2p] = 1

VARIABLES
  stage,      \* "solve", "cleanup" (run_cleanup is next), "pts", "ready", "abort"
  uncleaned,  \* nodes the loop of pts_cleanup has not reached
  eq

resultVars == <<stage, uncleaned, eq>>
allVars == <<vars, resultVars>>

-----------------------------------------------------------------------------
(* Mutation: the objects that are parameters are dropped too.              *)
UnneededWithArgs == {x \in Node : ObjSz[x] # 0}

(* Objects whose points-to sets the clients do not need: all but the       *)
(* Argument objects, which are parameters used in the function body.       *)
Unneeded == {x \in Node : ObjSz[x] # 0} \ ArgObj

Cleared == [x \in Node |-> {}]

RInit == Init /\ stage = "solve" /\ uncleaned = Node /\ eq = <<>>

Solve == stage = "solve" /\ Next /\ UNCHANGED resultVars

(* run_cleanup: only points_to, rep and the ranks survive.                 *)
run_cleanup ==
  /\ stage = "solve" /\ pc = "done"
  /\ stage' = "pts"
  /\ g' = [g EXCEPT !.prev_points_to = Cleared, !.copy_to = Cleared, !.cons = Cleared,
                    !.hcd_var = [x \in Node |-> 0], !.ind_calls = {}]
  /\ cplx_cons' = <<>> /\ icall_cons' = {}
  /\ UNCHANGED <<sys, ext_seen, wlVars, countVars, lcd_edges, lcd_starts, pc,
                 gave_up, visitVars, mergeVars, lcdVars, uncleaned, eq>>

(* The representative of the first node with the set of x.                 *)
SameSet(x) == get_node_rep(eq[g.points_to[x]])

(* Mutation: parameters are not joined with other variables.               *)
SeenVar(x) == g.points_to[x] \in DOMAIN eq /\ ObjSz[eq[g.points_to[x]]] = 0

Seen(x) == g.points_to[x] \in DOMAIN eq

(* One iteration of pts_cleanup.                                           *)
pts_cleanup ==
  LET x == Min(uncleaned) IN
  /\ stage = "pts" /\ uncleaned # {}
  /\ uncleaned' = uncleaned \ {x}
  /\ CASE x \in Unneeded ->
            /\ g' = [g EXCEPT !.points_to[x] = {}]
            /\ UNCHANGED <<stage, eq>>
       [] x \notin Unneeded /\ g.points_to[x] = {} ->
            UNCHANGED <<g, stage, eq>>
       [] x \notin Unneeded /\ g.points_to[x] # {} /\ ~Seen(x) ->
            /\ eq' = [S \in DOMAIN eq \cup {g.points_to[x]} |->
                        IF S = g.points_to[x] THEN x ELSE eq[S]]
            /\ UNCHANGED <<g, stage>>
       [] x \notin Unneeded /\ g.points_to[x] # {} /\ Seen(x) ->
            /\ IF CanMerge(g, get_node_rep(x), SameSet(x))
                 THEN g' = Unify(g, get_node_rep(x), SameSet(x)) /\ stage' = stage
                 ELSE g' = g /\ stage' = "abort"
            /\ eq' = eq
  /\ UNCHANGED <<sys, cplx_cons, icall_cons, ext_seen, wlVars, countVars, lcd_edges,
                 lcd_starts, pc, gave_up, visitVars, mergeVars, lcdVars>>

Publish ==
  /\ stage = "pts" /\ uncleaned = {}
  /\ stage' = "ready"
  /\ UNCHANGED <<vars, uncleaned, eq>>

RNext == Solve \/ run_cleanup \/ pts_cleanup \/ Publish

RSpec == RInit /\ [][RNext]_allVars

-----------------------------------------------------------------------------
(* The client interface.  With an offset the set is mapped through the     *)
(* relation geps[off], which PtsInit shows to be Shift.                    *)
pointsToSet(x, off) ==
  LET pts == g.points_to[get_node_rep(x)] IN IF off = 0 THEN pts ELSE Shift(pts, off)

PE(x) == get_node_rep(x)
is_null(x, off) == pointsToSet(x, off) = {}
is_single(x, off) == Cardinality(pointsToSet(x, off)) = 1
=============================================================================
