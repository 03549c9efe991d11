-------------------------- MODULE ConstraintSystem --------------------------
(***************************************************************************)
(* The inclusion constraints of Andersen's analysis as anders.h defines    *)
(* them, and what it means for an assignment of points-to sets to solve a  *)
(* constraint system.  Everything here is constant-level: it is the        *)
(* reference the solver is compared with, and it knows nothing of graphs,  *)
(* worklists or merging.                                                   *)
(*                                                                         *)
(* Nodes are the node IDs of the main graph.  An object with fields is a   *)
(* block of consecutive nodes; ObjSz[o] is the number of fields of the     *)
(* (sub)object that starts at o (0 for a top-level variable), so o+k is a  *)
(* field of it exactly when k < ObjSz[o].  The node of a function has the  *)
(* size of its block of return value and parameters, which have size 1.    *)
(***************************************************************************)
EXTENDS Naturals, SequencesExt

CONSTANTS
  Node,        \* node IDs; 0 is the null node
  i2p,         \* the target of pointers cast from integers
  ObjSz,       \* [Node -> Nat], Node::obj_sz
  FuncNode,    \* object nodes of functions (func_node_set)
  ExtNode,     \* those of external functions (ext_func_node_set)
  NonPtrVal,   \* nodes whose LLVM value does not have pointer type
  Site,        \* indirect call instructions
  NoSite,      \* not a call instruction
  ExtEffect    \* [ExtNode \X Site -> Effect], what handle_ext adds for a call

ConsType == {"addr_of", "copy", "load", "store", "gep"}

(* dest = &src, dest = src, dest = *src + off, *dest + off = src and       *)
(* dest = gep src off.                                                     *)
Constraint == [type : ConsType, dest : Node, src : Node, off : Nat]

(* The effect of an external function on its caller: none, the returned    *)
(* pointer points to src (an allocated object or i2p), or it is a copy of  *)
(* an argument.                                                            *)
Effect == [kind : {"none", "point", "copy"}, dest : Node, src : Node]

(* What the earlier phases hand to the solver: the constraint list, the    *)
(* call instructions of the constraints that stand for indirect calls      *)
(* (icall_cons), the union-find ranks left by the offline merges, the      *)
(* offline cycles found by HCD (0 for none) and the non-pointers.          *)
System == [cons    : Seq(Constraint),
           icall   : SUBSET (Constraint \X Site),
           rank    : [Node -> Nat],
           hcd_var : [Node -> Node],
           nonptr  : SUBSET Node]

ASSUME NodeAssumption ==
  /\ Node \subseteq Nat
  /\ 0 \in Node
  /\ i2p \in Node \ {0}

ASSUME ObjSzAssumption ==
  /\ ObjSz \in [Node -> Nat]
  /\ \A o \in Node : \A k \in 0 .. (ObjSz[o] - 1) : o + k \in Node

ASSUME CallAssumption ==
  /\ ExtNode \subseteq FuncNode
  /\ FuncNode \subseteq Node
  /\ NonPtrVal \subseteq Node
  /\ NoSite \notin Site
  /\ ExtEffect \in [ExtNode \X Site -> Effect]

(* add_cons: i2p is only ever the source of an addr_of.  Call instructions *)
(* are attached to loads and stores of the list.                           *)
WellFormed(system) ==
  /\ \A C \in Range(system.cons) :
       IF C.type = "addr_of" THEN C.dest # i2p ELSE i2p \notin {C.dest, C.src}
  /\ \A call \in system.icall :
       call[1] \in Range(system.cons) /\ call[1].type \in {"load", "store"}

-----------------------------------------------------------------------------
OfType(system, t) == {C \in Range(system.cons) : C.type = t}

(* The node a complex constraint dereferences or offsets.                  *)
Base(C) == IF C.type = "store" THEN C.dest ELSE C.src

(* Members of a points-to set with a field at the given offset.            *)
Fits(P, off) == {o \in P : off < ObjSz[o]}
Shift(P, off) == {o + off : o \in Fits(P, off)}

IsCall(system, C) == \E s \in Site : <<C, s>> \in system.icall

(* The nodes a load or store through a pointer to P reads or writes.       *)
(* With an offset, an indirect call only means the functions and any other *)
(* constraint only means the objects that are not functions; an argument   *)
(* is not stored into a parameter of non-pointer type.                     *)
Targets(P, C, call) ==
  CASE C.off = 0 -> P
    [] C.off > 0 /\ ~call -> Shift(P \ FuncNode, C.off)
    [] C.off > 0 /\ call ->
         {t \in Shift((P \cap FuncNode) \ ExtNode, C.off) :
            C.type = "store" => t \notin NonPtrVal}

(* Effects of the external functions some indirect call may reach.         *)
Effects(system, S) ==
  {ExtEffect[<<fc[1], fc[2][2]>>] :
     fc \in {q \in ExtNode \X system.icall : q[1] \in S[Base(q[2][1])]}}

(* Inclusions s -> d (everything s points to, d points to) forced by S.    *)
(* Nothing flows into or out of i2p.                                       *)
Flows(system, S) ==
  LET copies == {<<C.src, C.dest>> : C \in OfType(system, "copy")}
      loads  == UNION {{<<t, C.dest>> : t \in Targets(S[C.src], C, IsCall(system, C))} :
                          C \in OfType(system, "load")}
      stores == UNION {{<<C.src, t>> : t \in Targets(S[C.dest], C, IsCall(system, C))} :
                          C \in OfType(system, "store")}
      calls  == {<<e.src, e.dest>> :
                   e \in {x \in Effects(system, S) : x.kind = "copy"}}
  IN {e \in copies \cup loads \cup stores \cup calls : i2p \notin {e[1], e[2]}}

(* Members every solution above S must contain for reasons other than a    *)
(* flow: addr_of and gep constraints, and allocation by external calls.    *)
Bases(system, S, v) ==
  {C.src : C \in {c \in OfType(system, "addr_of") : c.dest = v}}
  \cup (UNION {Shift(S[C.src], C.off) :
                 C \in {c \in OfType(system, "gep") : c.dest = v}})
  \cup {e.src : e \in {x \in Effects(system, S) : x.kind = "point" /\ x.dest = v}}

(* Everything s points to, d points to, unless one of them is i2p.          *)
Leads(S, s, d) == i2p \in {s, d} \/ S[s] \subseteq S[d]

Assignments == [Node -> SUBSET Node]

(* S satisfies every constraint of the system.                             *)
IsSolution(system, S) ==
  /\ \A v \in Node : Bases(system, S, v) \subseteq S[v]
  /\ \A e \in Flows(system, S) : S[e[1]] \subseteq S[e[2]]

(* Everything the constraints add to S in one simultaneous round.          *)
Round(system, S) ==
  LET flows == Flows(system, S)
  IN [v \in Node |-> S[v] \cup Bases(system, S, v)
                     \cup UNION {S[e[1]] : e \in {f \in flows : f[2] = v}}]

(* The least solution: the result of Andersen's analysis.                  *)
Least(system) ==
  LET close[S \in Assignments] ==
        LET T == Round(system, S) IN IF T = S THEN S ELSE close[T]
  IN close[[v \in Node |-> {}]]
=============================================================================
