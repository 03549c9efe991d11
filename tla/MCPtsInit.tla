------------------------------ MODULE MCPtsInit ------------------------------
(***************************************************************************)
(* PtsInit on every layout of up to five object nodes into objects with    *)
(* nested fields, after the null node, i2p and p_i2p.                      *)
(***************************************************************************)
EXTENDS PtsInit, TLC

(* A node's object ends inside the node range and the objects are nested.  *)
Layouts(n) ==
  {(0 :> 0 @@ 1 :> 1 @@ 2 :> 0) @@ sz :
     sz \in {z \in [3 .. (n - 1) -> 1 .. 5] :
               /\ \A x \in 3 .. (n - 1) : x + z[x] <= n
               /\ \A x, y \in 3 .. (n - 1) :
                    x < y /\ y < x + z[x] => y + z[y] <= x + z[x]}}

(* The smallest power of two that is large enough.                         *)
PowerOfTwo(n) == CHOOSE s \in {2, 4, 8, 16} : s >= n /\ \A t \in {2, 4, 8, 16} : t >= n => s <= t

(* Nodes 3 and 4 belong to one function with a parameter at 5, or 4 is an  *)
(* external function.                                                      *)
Cases(n, Exts, Offs) ==
  [npts : {n}, obj_sz : Layouts(n), funcs : {{3, 4}}, exts : Exts, valid_off : Offs]

(* Every offset is one of some object that exists.                         *)
InRange ==
  {c \in Cases(8, {{}, {4}}, SUBSET (1 .. 4)) \cup Cases(6, {{}, {4}}, SUBSET {1, 2}) :
     /\ \A k \in c.valid_off : \E x \in DOMAIN c.obj_sz : k < c.obj_sz[x]
     /\ \A f \in c.exts : c.obj_sz[f] = 1}

(* A pointer to a structure of which the module has no object: the         *)
(* parameter (5) of an address-taken function, of which a field is used.   *)
NoObject ==
  {[npts |-> 6, obj_sz |-> (0 :> 0 @@ 1 :> 1 @@ 2 :> 0 @@ 3 :> 3 @@ 4 :> 1 @@ 5 :> 1),
    funcs |-> {3, 4}, exts |-> {}, valid_off |-> {3}]}
=============================================================================
