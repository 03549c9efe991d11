------------------------------- MODULE PtsInit -------------------------------
(***************************************************************************)
(* pts_init of solve.cpp: the tables the solver and the clients use for    *)
(* constraints with an offset.  geps[off] maps an object (a set of pairs   *)
(* here, a BDD over two domains in the code) to its field at that offset,  *)
(* off_mask[off] is the set of the objects that have one.  Only the        *)
(* offsets that occur in constraints get an entry, and the sets are built  *)
(* from the largest offset to the smallest.                                *)
(*                                                                         *)
(* The test of the BDD variable order (122-129) is left out.               *)
(***************************************************************************)
EXTENDS Integers, FiniteSets

(* What pts_init is given: npts object nodes with their sizes, the         *)
(* functions and the external functions among them, and the offsets of the *)
(* constraints.                                                            *)
CONSTANTS
  Inputs,
  DomainSize(_)   \* values of the domain fdd_extdomain makes for so many nodes

Input(in) ==
  /\ in.npts \in Nat \ {0}
  /\ in.obj_sz \in [0 .. (in.npts - 1) -> Nat]
  /\ \A x \in 0 .. (in.npts - 1) : x + in.obj_sz[x] <= in.npts
  /\ in.funcs \subseteq 0 .. (in.npts - 1)
  /\ in.exts \subseteq in.funcs
  /\ in.valid_off \subseteq Nat \ {0}

ASSUME InputsAssumption == \A in \in Inputs : Input(in)

ASSUME DomainAssumption ==
  \A in \in Inputs : DomainSize(in.npts) \in Nat /\ in.npts <= DomainSize(in.npts)

VARIABLES
  d,               \* the input
  pc,              \* the loop pts_init is in
  i,               \* the node of that loop
  max_sz,
  off_nodes,       \* [0 .. max_sz-1 -> set of nodes]
  todo,            \* offsets of the second loop not gone over
  om,              \* the objects with a field at the current offset
  geps, off_mask,
  func_node_set, ext_func_node_set

vars == <<d, pc, i, max_sz, off_nodes, todo, om, geps, off_mask, func_node_set,
          ext_func_node_set>>

Obj == 0 .. (d.npts - 1)

Init ==
  /\ d \in Inputs
  /\ pc = "sizes" /\ i = 0
  /\ max_sz = 0 /\ off_nodes = [k \in {} |-> {}]
  /\ todo = d.valid_off /\ om = {}
  /\ geps = [k \in {} |-> {}] /\ off_mask = [k \in {} |-> {}]
  /\ func_node_set = {} /\ ext_func_node_set = {}

-----------------------------------------------------------------------------
(* The largest offset in use that an object of this size has; 0 if none.   *)
Largest(off, sz) ==
  /\ off \in d.valid_off \cup {0} /\ off < sz
  /\ \A k \in d.valid_off : k < sz => k <= off

(* vector::resize                                                          *)
Resized(v, n) == [k \in 0 .. (n - 1) |-> IF k \in DOMAIN v THEN v[k] ELSE {}]

RecordSize ==
  /\ pc = "sizes" /\ i < d.npts
  /\ i' = i + 1
  /\ LET sz == d.obj_sz[i]
         m  == IF max_sz < sz THEN sz ELSE max_sz
         v  == IF max_sz < sz THEN Resized(off_nodes, sz) ELSE off_nodes
     IN IF sz < 2
          THEN UNCHANGED <<max_sz, off_nodes>>
          ELSE /\ max_sz' = m
               /\ \E off \in 0 .. (sz - 1) :
                    /\ Largest(off, sz)
                    /\ off_nodes' = IF off = 0 THEN v ELSE [v EXCEPT ![off] = @ \cup {i}]
  /\ UNCHANGED <<d, pc, todo, om, geps, off_mask, func_node_set, ext_func_node_set>>

SizesDone ==
  /\ pc = "sizes" /\ i = d.npts
  /\ pc' = "geps" /\ i' = 0
  /\ geps' = [k \in 0 .. (max_sz - 1) |-> {}]
  /\ off_mask' = [k \in 0 .. (max_sz - 1) |-> {}]
  /\ UNCHANGED <<d, max_sz, off_nodes, todo, om, func_node_set, ext_func_node_set>>

-----------------------------------------------------------------------------
(* (pts + off), with the carry out of the domain dropped.                  *)
Adder(off, M) == {<<x, (x + off) % DomainSize(d.npts)>> : x \in M}

(* Mutation: the mask of the larger offsets is not kept.                   *)
MaskReset(off) == off_nodes[off]

Mask(off) == om \cup off_nodes[off]

(* The next smaller offset; past the end of the tables the accesses are    *)
(* undefined.                                                              *)
MakeGep(off) ==
  /\ pc = "geps" /\ \A k \in todo : k <= off
  /\ todo' = todo \ {off}
  /\ IF off \in DOMAIN off_nodes
       THEN /\ om' = Mask(off)
            /\ geps' = [geps EXCEPT ![off] = Adder(off, Mask(off))]
            /\ off_mask' = [off_mask EXCEPT ![off] = Mask(off)]
            /\ UNCHANGED pc
       ELSE /\ pc' = "undefined"
            /\ UNCHANGED <<om, geps, off_mask>>
  /\ UNCHANGED <<d, i, max_sz, off_nodes, func_node_set, ext_func_node_set>>

GepsDone ==
  /\ pc = "geps" /\ todo = {}
  /\ pc' = "funcs"
  /\ UNCHANGED <<d, i, max_sz, off_nodes, todo, om, geps, off_mask, func_node_set,
                 ext_func_node_set>>

(* The return node of a function has the same value as its first node and  *)
(* is only told from it by its size.                                       *)
StartsFunc(x) == x \in d.funcs /\ d.obj_sz[x] > 1

RecordFunc ==
  /\ pc = "funcs" /\ i < d.npts
  /\ i' = i + 1
  /\ CASE i \in d.exts ->
            /\ ext_func_node_set' = ext_func_node_set \cup {i}
            /\ func_node_set' = func_node_set \cup {i}
            /\ pc' = IF d.obj_sz[i] = 1 THEN pc ELSE "abort"
       [] i \notin d.exts /\ StartsFunc(i) ->
            /\ func_node_set' = func_node_set \cup {i}
            /\ UNCHANGED <<ext_func_node_set, pc>>
       [] i \notin d.exts /\ ~StartsFunc(i) ->
            UNCHANGED <<func_node_set, ext_func_node_set, pc>>
  /\ UNCHANGED <<d, max_sz, off_nodes, todo, om, geps, off_mask>>

FuncsDone ==
  /\ pc = "funcs" /\ i = d.npts
  /\ pc' = "done"
  /\ UNCHANGED <<d, i, max_sz, off_nodes, todo, om, geps, off_mask, func_node_set,
                 ext_func_node_set>>

Next == \/ RecordSize \/ SizesDone
        \/ (\E off \in todo : MakeGep(off)) \/ GepsDone
        \/ RecordFunc \/ FuncsDone

Spec == Init /\ [][Next]_vars

-----------------------------------------------------------------------------
(* The objects with a field at an offset: Fits of ConstraintSystem.        *)
HasField(off) == {x \in Obj : off < d.obj_sz[x]}

TypeOK ==
  /\ Input(d) /\ d \in Inputs
  /\ pc \in {"sizes", "geps", "funcs", "done", "undefined", "abort"}
  /\ i \in 0 .. d.npts
  /\ max_sz \in Nat
  /\ off_nodes \in [0 .. (max_sz - 1) -> SUBSET Obj]
  /\ todo \subseteq d.valid_off
  /\ om \subseteq Obj

(* The inductive invariant behind TablesExact: every object is entered     *)
(* under the largest offset in use that it has a field at, and om holds    *)
(* the objects with a field at one of the offsets gone over, which are     *)
(* larger than the others.                                                 *)
IInv ==
  /\ TypeOK
  /\ \A x \in Obj : (pc = "sizes" => x < i) /\ d.obj_sz[x] >= 2 => d.obj_sz[x] <= max_sz
  /\ \A k \in DOMAIN off_nodes : off_nodes[k] =
       {x \in Obj : (pc = "sizes" => x < i) /\ k # 0 /\ Largest(k, d.obj_sz[x])}
  /\ pc = "sizes" => todo = d.valid_off /\ om = {}
  /\ pc = "geps" =>
       /\ om = {x \in Obj : \E k \in d.valid_off \ todo : k < d.obj_sz[x]}
       /\ \A k \in d.valid_off \ todo : \A j \in todo : j < k
  /\ pc \in {"funcs", "done"} => todo = {}
  /\ pc \in {"geps", "funcs", "done"} =>
       /\ DOMAIN geps = 0 .. (max_sz - 1) /\ DOMAIN off_mask = 0 .. (max_sz - 1)
       /\ \A off \in d.valid_off \ todo :
            /\ off < max_sz
            /\ off_mask[off] = HasField(off)
            /\ geps[off] = {<<x, x + off>> : x \in HasField(off)}

(* Every offset that occurs in a constraint selects exactly the objects    *)
(* with a field there (off_mask) and maps them to that field (geps), which *)
(* is what solve_ls_off, solve_gep_cons and pointsToSet take from the      *)
(* tables, although an object is entered under one offset only and the     *)
(* adder works modulo the size of the BDD domain.                          *)
TablesExact ==
  pc \in {"funcs", "done"} =>
    \A off \in d.valid_off :
      /\ off_mask[off] = HasField(off)
      /\ geps[off] = {<<x, x + off>> : x \in HasField(off)}

(* "For each offset, make the GEP function": the tables have an entry for  *)
(* every offset that occurs in a constraint.                               *)
OffsetsInTables == pc # "undefined"
=============================================================================
