----------------------------- MODULE GlobalInit -----------------------------
(* Global variables: their nodes (id_global, id_gep_ce) and the constraints  *)
(* of their initializers (proc_global_init) and of the constant GEP          *)
(* expressions (proc_gep_ce), which call each other.                          *)
(*                                                                           *)
(* A program has globals, numbered from 1, and GEP expressions.  Bitcasts    *)
(* are stripped: the code follows them everywhere.  An initializer is        *)
(*   null n    null, undef or zeroinitializer of a type with n fields         *)
(*   num       a number, or a ptrtoint        i2p     an inttoptr             *)
(*   addr g    a pointer to a global          gep e   a GEP expression        *)
(*   struct, array   of the initializers ops          none    (external)      *)
(* and the base of a GEP is a global, another GEP or an inttoptr.             *)
(* The types of the globals are laid out by StructTypes before.              *)
EXTENDS StructTypes, TLC

VARIABLES prog,         \* [init: Seq(initializer), type: Seq(type),
                        \*  gep: Seq([base, off]), used: SUBSET Nat]
          nodes,        \* [next, val, obj, gval, ce]: the next node; the value
                        \* and object nodes of the globals; the nodes of the
                        \* GEPs; the list gep_ce
          cons, gid,    \* the constraints; global_init_done
          phase, at     \* the loop of obj_cons_id and its position

globalVars == <<prog, nodes, cons, gid, phase, at>>

i2p            == 1
first_var_node == 3
Globals        == DOMAIN prog.init
None           == [k |-> "none"]

(* add_cons: a GEP by nothing is a copy, a copy to itself is nothing.       *)
Constraints(t, dest, src, off) ==
  LET u == IF t = "gep" /\ off = 0 THEN "copy" ELSE t IN
  IF u = "copy" /\ dest = src THEN {}
  ELSE {[type |-> u, dest |-> dest, src |-> src, off |-> off]}

-----------------------------------------------------------------------------
(* The GEPs on g itself, through bitcasts; not the GEPs on those GEPs.       *)
DirectGeps(g) == {e \in DOMAIN prog.gep : prog.gep[e].base = [k |-> "global", of |-> g]}

ObjectSize(g) == Len(NodeSizes(struct_info, ElementType(prog.type[g])))

(* A node for the pointer g, one for each field of the object, and, for a   *)
(* struct or an array, one for each of its GEPs.                            *)
id_global(g) ==
  LET vn  == nodes.next
      on  == vn + 1
      end == on + ObjectSize(g)
      ces == IF prog.type[g] = Scalar THEN <<>> ELSE SetToSortSeq(DirectGeps(g), <)
      gv  == [e \in Range(ces) |-> end - 1 + CHOOSE n \in DOMAIN ces : ces[n] = e]
  IN
  /\ nodes' = [nodes EXCEPT !.next = end + Len(ces), !.val = Append(@, vn),
                            !.obj = Append(@, on), !.gval = gv @@ @, !.ce = @ \o ces]
  /\ cons' = cons \cup Constraints("addr_of", vn, on, 0)
  /\ UNCHANGED <<prog, gid>>

-----------------------------------------------------------------------------
(* The recursion over s = [nodes, cons, gid, ret]; ret is the number of      *)
(* fields the last call has initialized.                                     *)

Add(s, t, dest, src, off) == [s EXCEPT !.cons = @ \cup Constraints(t, dest, src, off)]

(* "This may be the first time we reach E."                                 *)
WithNode(s, e) ==
  IF e \in DOMAIN s.nodes.gval THEN s
  ELSE [s EXCEPT !.nodes = [@ EXCEPT !.gval = (e :> s.nodes.next) @@ @, !.next = @ + 1]]

(* Mutation: the fields of a struct all start at its first one.             *)
NextFieldFirst(n, m) == m

(* The next field comes after the fields of the ones before it.             *)
NextField(n, m) == n + m

(* "Don't mark it as done until the top-level call exits."                  *)
Return(s, on, first, n) ==
  [s EXCEPT !.ret = n, !.gid = IF first THEN (on :> n) @@ @ ELSE @]

Mark(s, vn) == [s EXCEPT !.gid = (vn :> 1) @@ @]

RECURSIVE proc_global_init(_, _, _, _), proc_gep_ce(_, _)

proc_global_init(s, on, C, first) ==
  IF on \in DOMAIN s.gid THEN [s EXCEPT !.ret = s.gid[on]] ELSE
  CASE C.k \in {"null", "num"} -> Return(s, on, first, 1)
    [] C.k = "i2p"  -> Return(Add(s, "addr_of", on, i2p, 0), on, first, 1)
    [] C.k = "addr" -> Return(Add(s, "addr_of", on, s.nodes.obj[C.of], 0), on, first, 1)
    [] C.k = "gep"  ->
         LET t == proc_gep_ce(WithNode(s, C.of), C.of)
         IN  Return(Add(t, "copy", on, t.nodes.gval[C.of], 0), on, first, 1)
    [] C.k = "struct" ->
         LET field(t, D) == LET u == proc_global_init(t, on + t.ret, D, FALSE)
                            IN  [u EXCEPT !.ret = NextField(t.ret, u.ret)]
             t == FoldLeft(field, [s EXCEPT !.ret = 0], C.ops)
         IN  Return(t, on, first, t.ret)
    [] C.k = "array" ->
         LET element(t, D) == proc_global_init(t, on, D, FALSE)
             t == FoldLeft(element, [s EXCEPT !.ret = 0], C.ops)
         IN  Return(t, on, first, t.ret)

proc_gep_ce(s, e) ==
  LET vn == s.nodes.gval[e]
      b  == prog.gep[e].base
      t  == Mark(s, vn)
  IN
  IF vn \in DOMAIN s.gid THEN s ELSE
  CASE b.k = "int" -> Add(t, "addr_of", vn, i2p, 0)
    [] b.k = "gep" ->
         LET u == WithNode(t, b.of)
         IN  proc_gep_ce(Add(u, "gep", vn, u.nodes.gval[b.of], prog.gep[e].off), b.of)
    [] b.k = "global" ->
         LET u == Add(t, "gep", vn, t.nodes.val[b.of], prog.gep[e].off)
         IN  IF prog.init[b.of] = None THEN u
             ELSE proc_global_init(u, u.nodes.obj[b.of], prog.init[b.of], TRUE)

Here == [nodes |-> nodes, cons |-> cons, gid |-> gid, ret |-> 0]
Becomes(s) == nodes' = s.nodes /\ cons' = s.cons /\ gid' = s.gid /\ UNCHANGED prog

-----------------------------------------------------------------------------
(* A program with the globals and GEPs p.                                   *)
InitGlobals(p) ==
  /\ prog = p
  /\ nodes = [next |-> first_var_node, val |-> <<>>, obj |-> <<>>, gval |-> <<>>, ce |-> <<>>]
  /\ cons = {} /\ gid = <<>>
  /\ phase = "structs" /\ at = 1

Step(p, len, q) ==
  /\ phase = p
  /\ IF at < len THEN phase' = p /\ at' = at + 1 ELSE phase' = q /\ at' = 1

(* "Find and analyze all struct types in the program."                      *)
StructsDone ==
  /\ phase = "structs" /\ calls = <<>> /\ Analysed = Structs
  /\ phase' = "id"
  /\ UNCHANGED <<prog, nodes, cons, gid, at>>

IdGlobal == Step("id", Len(prog.init), "init") /\ id_global(at)

(* "Init globals separately (since an initializer may refer to a global     *)
(* below it)."                                                              *)
InitGlobal ==
  /\ Step("init", Len(prog.init), "geps")
  /\ IF prog.init[at] = None THEN UNCHANGED <<prog, nodes, cons, gid>>
     ELSE Becomes(proc_global_init(Here, nodes.obj[at], prog.init[at], TRUE))

(* "Now handle all remaining GEP CEs."                                      *)
RemainingGep ==
  /\ Step("geps", Len(nodes.ce), "use")
  /\ IF nodes.ce = <<>> THEN UNCHANGED <<prog, nodes, cons, gid>>
     ELSE Becomes(proc_gep_ce(Here, nodes.ce[at]))

(* An instruction has a constant GEP as an operand (get_val_node_cptr).     *)
UseGeps ==
  /\ phase = "use"
  /\ phase' = IF prog.used \subseteq DOMAIN nodes.gval THEN "done" ELSE "abort"
  /\ UNCHANGED <<prog, nodes, cons, gid, at>>

ProcessGlobals == StructsDone \/ IdGlobal \/ InitGlobal \/ RemainingGep \/ UseGeps

-----------------------------------------------------------------------------
(* The reference: the fields of an initializer's type, and the constraints  *)
(* it means for the object at the node on.                                  *)
RECURSIVE FieldCount(_)
FieldCount(C) ==
  CASE C.k = "null"   -> C.n
    [] C.k = "struct" -> FoldLeft(LAMBDA n, D : n + FieldCount(D), 0, C.ops)
    [] C.k = "array"  -> FieldCount(C.ops[1])
    [] OTHER          -> 1

RECURSIVE Meant(_, _)
Meant(C, on) ==
  CASE C.k = "i2p"  -> Constraints("addr_of", on, i2p, 0)
    [] C.k = "addr" -> Constraints("addr_of", on, nodes.obj[C.of], 0)
    [] C.k = "gep"  -> Constraints("copy", on, nodes.gval[C.of], 0)
    [] C.k = "struct" ->
         UNION {Meant(C.ops[n], on + FieldCount([C EXCEPT !.ops = SubSeq(@, 1, n - 1)]))
                  : n \in DOMAIN C.ops}
    [] C.k = "array"  -> UNION {Meant(C.ops[n], on) : n \in DOMAIN C.ops}
    [] OTHER -> {}

Initialized == phase \in {"geps", "use", "done"}

(* The constraint of a GEP expression, and that of the pointer to a global.  *)
GepCons(e) ==
  LET b  == prog.gep[e].base
      vn == nodes.gval[e]
  IN  CASE b.k = "int"    -> Constraints("addr_of", vn, i2p, 0)
        [] b.k = "gep"    -> Constraints("gep", vn, nodes.gval[b.of], prog.gep[e].off)
        [] b.k = "global" -> Constraints("gep", vn, nodes.val[b.of], prog.gep[e].off)

PointerCons(g) == Constraints("addr_of", nodes.val[g], nodes.obj[g], 0)

InitCons == cons \ (UNION {GepCons(e) : e \in DOMAIN nodes.gval}
                      \cup UNION {PointerCons(g) : g \in Globals})

(* "Recursively copy each field of the original struct into the next        *)
(* available field of the expanded struct" (obj_cons_id.cpp:1469): the      *)
(* constraints of the initializers are those of the fields they initialize, *)
(* although a GEP may lead into the initializer of another global, or of    *)
(* the same one, in the middle of it.                                       *)
InitializersPlaced ==
  Initialized =>
    InitCons = UNION {IF prog.init[g] = None THEN {}
                      ELSE Meant(prog.init[g], nodes.obj[g]) : g \in Globals}

(* Every GEP expression that has a node has the one constraint of its base  *)
(* and offset, whoever reached it first.                                    *)
GepsConstrained ==
  phase \in {"use", "done"} =>
    \A e \in DOMAIN nodes.gval : {c \in cons : c.dest = nodes.gval[e]} = GepCons(e)

(* The initializers fit the objects: what they write are the fields the     *)
(* analysis of the struct types has made for the global.                     *)
InitializersInside ==
  phase = "done" =>
    \A c \in InitCons : \E g \in Globals :
      c.dest \in nodes.obj[g] .. nodes.obj[g] + ObjectSize(g) - 1

(* All of this, and every GEP on a global that an instruction uses has a    *)
(* node (the assert of get_val_node_cptr).                                  *)
GlobalsConstrained ==
  InitializersPlaced /\ InitializersInside /\ GepsConstrained /\ phase # "abort"
=============================================================================
