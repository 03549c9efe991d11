------------------------------ MODULE ConsGen -------------------------------
(* Object and constraint identification: obj_cons_id numbers the functions   *)
(* and their parameters, then visits every instruction, giving nodes to      *)
(* values and objects and adding the constraints that go to the optimizer    *)
(* and the solver.  Globals are in GlobalInit, the sizes of objects in       *)
(* StructLayout, the sources of an integer in TraceInt.                      *)
EXTENDS Program

CONSTANT Programs

VARIABLES
  gen,      \* what identification builds, see Blank; fail: an assertion has
            \* failed, or the code ran off the end of args
  pc,       \* "func", "visit", "block", "insn", "done" or "abort"
  at,       \* the function being identified or visited
  todo,     \* blocks to process, those of the current path first
  seen,     \* bb_seen
  code      \* the instructions left in the current block

vars == <<prog, gen, pc, at, todo, seen, code>>

i2p   == 1
p_i2p == 2
first_var_node     == 3
func_node_off_ret  == 1
func_node_off_arg0 == 2
NoValue == [k |-> "none"]

C(t, dest, src, off) == [type |-> t, dest |-> dest, src |-> src, off |-> off]

Fail(g) == [g EXCEPT !.fail = TRUE]

(* The assertions of add_cons.                                              *)
MayAdd(c) ==
  /\ c.dest # 0 /\ c.src # 0 /\ c.dest # i2p
  /\ c.src = i2p => c.type = "addr_of"
  /\ c.type \in {"addr_of", "copy"} => c.off = 0
  /\ c.type = "load"  => c.src # p_i2p
  /\ c.type = "store" => c.dest # p_i2p

(* A copy of a node to itself is nothing, a GEP by nothing is a copy.       *)
add_cons(g, t, dest, src, off) ==
  LET c == C(IF t = "gep" /\ off = 0 THEN "copy" ELSE t, dest, src, off)
  IN  CASE t = "copy" /\ src = dest -> g
        [] ~MayAdd(c) -> Fail(g)
        [] OTHER      -> [g EXCEPT !.cons = Append(@, c)]

-----------------------------------------------------------------------------
(* Nodes: nodes[i + 1] is node i, next the node to create next.             *)

(* Mutation: one node is counted for all the fields of an object.           *)
PushCountedOnce(g, v, sz) ==
  [g EXCEPT !.nodes = @ \o [n \in DOMAIN sz |-> [val |-> v, obj_sz |-> sz[n]]], !.next = @ + 1]

Push(g, v, sz) == [g EXCEPT !.nodes = @ \o [n \in DOMAIN sz |-> [val |-> v, obj_sz |-> sz[n]]],
                            !.next  = @ + Len(sz)]
NewVal(g, v)     == Push([g EXCEPT !.val_node = (v :> g.next) @@ @], v, <<0>>)
NewObj(g, v, sz) == Push([g EXCEPT !.obj_node = (v :> g.next) @@ @], v, sz)

(* 0 for a value without a node.                                            *)
get_val_node(g, v) == IF v \in DOMAIN g.val_node THEN g.val_node[v] ELSE 0

(* An address-taken function keeps its return value, and the rest of its    *)
(* arguments, inside its object.                                            *)
get_ret_node(g, f) ==
  CASE ~prog.func[f].ret -> 0
    [] f \in DOMAIN g.ret_node -> g.ret_node[f]
    [] OTHER -> g.obj_node[Fn(f)] + func_node_off_ret

(* Mutation: only functions whose address is not taken are looked up.       *)
get_vararg_nodeMapped(g, f) == IF f \in DOMAIN g.vararg_node THEN g.vararg_node[f] ELSE 0

get_vararg_node(g, f) ==
  CASE ~prog.func[f].va -> 0
    [] f \in DOMAIN g.vararg_node -> g.vararg_node[f]
    [] OTHER -> LET on == g.obj_node[Fn(f)] IN on + g.nodes[on + 1].obj_sz - 1

-----------------------------------------------------------------------------
(* Declarations                                                             *)

(* argv and envp point to external variables, which point to others.        *)
MainArg(g, v) ==
  LET h  == NewObj(NewVal(g, v), v, <<2, 1>>)
      on == h.obj_node[v]
  IN  add_cons(add_cons(h, "addr_of", h.val_node[v], on, 0), "addr_of", on, on + 1, 0)

(* A function whose address is not taken has value nodes only.              *)
PlainFunction(g, f) ==
  LET F == prog.func[f]
      args == FoldLeft(LAMBDA h, n : IF F.args[n] THEN NewVal(h, Arg(f, n)) ELSE h,
                       g, [n \in DOMAIN F.args |-> n])
      ret == IF F.ret THEN Push([args EXCEPT !.ret_node = (f :> args.next) @@ @], Fn(f), <<0>>)
             ELSE args
  IN  IF F.va THEN Push([ret EXCEPT !.vararg_node = (f :> ret.next) @@ @], Fn(f), <<0>>)
      ELSE ret

ArgNodes(f, onF) ==
  [v \in {Arg(f, n) : n \in DOMAIN prog.func[f].args} |-> onF + func_node_off_arg0 + v.n - 1]

(* An address-taken function is one object: itself, the return value, the   *)
(* parameters up to the last pointer, the rest of the arguments.  Without   *)
(* any pointer last_ptr is the 32-bit ~0, which differs from ~0UL where     *)
(* long has 64 bits.                                                        *)
FunctionObject(g, f) ==
  LET F    == prog.func[f]
      onF  == g.obj_node[Fn(f)]
      ptrs == {n \in DOMAIN F.args : F.args[n]}
      last_ptr == IF ptrs = {} THEN 0 ELSE CHOOSE n \in ptrs : \A k \in ptrs : k <= n
      mapped == [g EXCEPT !.val_node = ArgNodes(f, onF) @@ @,
                          !.at_args = @ \cup {Arg(f, n) : n \in DOMAIN F.args}]
      params == FoldLeft(LAMBDA h, n : Push(h, Arg(f, n), <<1>>),
                         Push(mapped, Fn(f), <<1>>), [n \in 1 .. last_ptr |-> n])
      all == IF F.va THEN Push(params, Fn(f), <<1>>) ELSE params
  IN  IF ptrs = {} /\ prog.long = 64 THEN Fail(g)
      ELSE [all EXCEPT !.nodes[onF + 1].obj_sz = all.next - onF]

id_func(g, f) ==
  LET F == prog.func[f]
      h == NewObj(NewVal(g, Fn(f)), Fn(f), <<1>>)
      a == IF escapes(f) THEN add_cons(h, "addr_of", h.val_node[Fn(f)], h.obj_node[Fn(f)], 0)
           ELSE g
  IN  CASE IsExt(f) -> a
        [] F.main   -> FoldLeft(LAMBDA x, n : MainArg(x, Arg(f, n)), a,
                                [n \in 1 .. (IF Len(F.args) > 3 THEN 3 ELSE Len(F.args)) - 1 |-> n + 1])
        [] ~IsExt(f) /\ ~F.main /\ ~escapes(f) -> PlainFunction(a, f)
        [] ~IsExt(f) /\ ~F.main /\ escapes(f)  -> FunctionObject(a, f)

-----------------------------------------------------------------------------
(* Operands                                                                 *)

RECURSIVE get_val_node_cptr(_, _), id_i2p(_, _, _)

(* The node of a value as [g, n], made on the spot for a constant inttoptr; *)
(* n = 0 for null.                                                          *)
get_val_node_cptr(g, v) ==
  CASE get_val_node(g, v) # 0 -> [g |-> g, n |-> g.val_node[v]]
    [] get_val_node(g, v) = 0 /\ v.k = "cast" -> get_val_node_cptr(g, v.of)
    [] get_val_node(g, v) = 0 /\ v.k = "i2p"  ->
         LET h == NewVal(g, v)
         IN  [g |-> id_i2p(h, h.val_node[v], prog.ce[v.n]), n |-> h.val_node[v]]
    [] get_val_node(g, v) = 0 /\ v.k = "null" -> [g |-> g, n |-> 0]
    [] OTHER -> [g |-> Fail(g), n |-> 0]

CopyFrom(g, dest, v) ==
  LET r == get_val_node_cptr(g, v)
  IN  IF r.n = 0 THEN r.g ELSE add_cons(r.g, "copy", dest, r.n, 0)

(* The pointers the integer comes from, and i2p when some are unknown.      *)
id_i2p(g, vnD, I) ==
  LET h == FoldLeft(LAMBDA x, v : CopyFrom(x, vnD, v), g, I.v)
  IN  IF I.hole THEN add_cons(h, "addr_of", vnD, i2p, 0) ELSE h

(* An actual argument: what it points to, or i2p for a number.              *)
Pass(g, dest, v) ==
  IF IsPtr(v) THEN CopyFrom(g, dest, v) ELSE add_cons(g, "addr_of", dest, i2p, 0)

StoreTo(g, dest, src) ==
  LET d == get_val_node_cptr(g, dest)
      s == get_val_node_cptr(d.g, src)
  IN  IF d.n = 0 \/ s.n = 0 THEN s.g ELSE add_cons(s.g, "store", d.n, s.n, 0)

(* *dest = *src, a temporary for each field.                                *)
add_store2_cons(g, dest, src, sz) ==
  LET d == get_val_node_cptr(g, dest)
      s == get_val_node_cptr(d.g, src)
      field(h, n) == add_cons(add_cons(Push(h, NoValue, <<0>>), "load", h.next, s.n, n - 1),
                              "store", d.n, h.next, n - 1)
  IN  IF d.n = 0 \/ s.n = 0 THEN s.g ELSE FoldLeft(field, s.g, [n \in 1 .. sz |-> n])

-----------------------------------------------------------------------------
(* Calls; n is the call instruction I, f the function its operand 0 is, 0    *)
(* for none: the call is then an indirect one.                              *)

AddAddr(g, dest, src) == add_cons(g, "addr_of", dest, src, 0)

(* A call by pointer may reach an allocation: the solver will decide whether *)
(* the result points to the object.                                          *)
id_call_obj(g, n, I, f) ==
  LET vnI  == g.val_node[Insn(n)]
      on   == g.next
      ext  == IF f = 0 THEN "none" ELSE prog.func[f].ext
      null == ext = "REALLOC" /\ I.v[1] = Null
  IN
  CASE ext = "NOSTRUCT_ALLOC" -> AddAddr(NewObj(g, Insn(n), <<1>>), vnI, on)
    [] ext = "ALLOC" \/ null -> AddAddr(NewObj(g, Insn(n), I.sz), vnI, on)
    [] f = 0 -> NewObj(g, Insn(n), I.sz)
    [] ext \in {"STAT", "STAT2"} /\ f \in DOMAIN g.stat_ret_node ->
         AddAddr(g, vnI, g.stat_ret_node[f])
    [] ext = "STAT" /\ f \notin DOMAIN g.stat_ret_node ->
         AddAddr(NewObj([g EXCEPT !.stat_ret_node = (f :> on) @@ @], Insn(n), I.sz), vnI, on)
    [] ext = "STAT2" /\ f \notin DOMAIN g.stat_ret_node ->
         LET h == NewObj([g EXCEPT !.stat_ret_node = (f :> on) @@ @], Insn(n), <<2, 1>>)
         IN  AddAddr(AddAddr(h, on, on + 1), vnI, on)
    [] OTHER -> g

(* Of too few arguments the rest is left out; too many are the variable ones.*)
id_dir_call(g, n, I, f) ==
  LET F   == prog.func[f]
      vnI == get_val_node(g, Insn(n))
      ret == CASE ~I.ptr         -> g
               [] I.ptr /\ F.ret  -> add_cons(g, "copy", vnI, get_ret_node(g, f), 0)
               [] I.ptr /\ ~F.ret -> AddAddr(g, vnI, i2p)
      param(h, k) ==
        CASE k <= Len(F.args) /\ F.args[k]  -> Pass(h, get_val_node(h, Arg(f, k)), I.v[k])
          [] k <= Len(F.args) /\ ~F.args[k] -> h
          [] k > Len(F.args) /\ F.va        -> Pass(h, get_vararg_node(h, f), I.v[k])
          [] k > Len(F.args) /\ ~F.va       -> Fail(h)
  IN  FoldLeft(param, ret, [k \in DOMAIN I.v |-> k])

(* A load or store that stands for the call n.                              *)
add_icall(g, t, dest, src, off, n) ==
  [add_cons(g, t, dest, src, off) EXCEPT !.icall_cons = @ \cup {<<C(t, dest, src, off), n>>}]

(* Mutation: the arguments of a call by pointer come right after the        *)
(* function.                                                                *)
ArgOffsetEarly(k) == func_node_off_ret + k - 1

ArgOffset(k) == func_node_off_arg0 + k - 1

(* The return value is loaded, the arguments are stored, at their offsets   *)
(* in the functions that the callee points to.                              *)
id_ind_call(g, n, I) ==
  LET callee == get_val_node_cptr(g, I.fn)
      vnC == callee.n
      h   == [callee.g EXCEPT !.ind_calls = @ \cup {vnC}]
      ret == IF I.ptr THEN add_icall(h, "load", h.val_node[Insn(n)], vnC, func_node_off_ret, n)
             ELSE h
      arg(x, k) ==
        LET a == get_val_node_cptr(x, I.v[k])
        IN  CASE ~IsPtr(I.v[k]) -> add_icall(x, "store", vnC, p_i2p, ArgOffset(k), n)
              [] IsPtr(I.v[k]) /\ a.n # 0 -> add_icall(a.g, "store", vnC, a.n, ArgOffset(k), n)
              [] IsPtr(I.v[k]) /\ a.n = 0 -> a.g
  IN  CASE I.fn = Asm -> g
        [] I.fn # Asm /\ vnC = 0 -> Fail(callee.g)
        [] I.fn # Asm /\ vnC # 0 -> FoldLeft(arg, ret, [k \in DOMAIN I.v |-> k])

(* X -> X/0; *dest = X                                                      *)
StoreNew(g, dest, sz) ==
  LET d == get_val_node_cptr(g, dest)
      o == NewObj(d.g, dest, sz)
  IN  IF d.n = 0 THEN d.g
      ELSE add_cons(AddAddr(Push(o, NoValue, <<0>>), o.next, d.g.next), "store", d.n, o.next, 0)

(* Calls of external functions by name; those that allocate or have static  *)
(* data are done by id_call_obj.                                            *)
id_ext_call(g, n, I, f) ==
  LET t == prog.func[f].ext
      v == I.v
      returned(h) == IF I.ptr THEN Pass(h, h.val_node[Insn(n)], v[ReturnsArg[t]]) ELSE h
      copied(sz) == add_store2_cons(g, v[CopiesInto[t][1]], v[CopiesInto[t][2]], sz)
      stored(h) == StoreTo(h, v[StoresInto[t][1]], v[StoresInto[t][2]])
      dest == get_val_node(copied(I.off), v[1])
  IN
  CASE t = "REALLOC" /\ v[1] = Null -> g
    [] t = "REALLOC" /\ v[1] # Null -> returned(g)
    [] t \in {"L_A0", "L_A1", "L_A2", "L_A8"} -> returned(g)
    [] t = "L_A0__A0R_A1R" /\ ~I.ptr -> copied(I.off)
    [] t = "L_A0__A0R_A1R" /\ I.ptr  ->
         add_cons(copied(I.off), "copy", g.val_node[Insn(n)], dest, 0)
    [] t = "A1R_A0R"       -> copied(I.off)
    [] t = "A3R_A1R_NS"    -> copied(1)
    [] t \in {"A1R_A0", "A2R_A1", "A4R_A1"} -> stored(g)
    [] t = "L_A0__A2R_A0"  -> stored(returned(g))
    [] t \in DOMAIN NewIn  -> StoreNew(g, v[NewIn[t]], I.sz)
    [] OTHER -> g

id_call_insn(g, n, I) ==
  LET f == Callee(I)
      h == IF I.ptr THEN id_call_obj(g, n, I, f) ELSE g
  IN  CASE f = 0 -> id_ind_call(h, n, I)
        [] f # 0 /\ IsExt(f)  -> id_ext_call(h, n, I, f)
        [] f # 0 /\ ~IsExt(f) -> id_dir_call(h, n, I, f)

-----------------------------------------------------------------------------
(* The other instructions                                                   *)

(* An array counts as one element; without KSA the type is never looked up. *)
id_alloc_insn(g, n, I) ==
  IF prog.ksa THEN AddAddr(NewObj(g, Insn(n), I.sz), g.val_node[Insn(n)], g.next) ELSE Fail(g)

id_load_insn(g, vnI, p) ==
  LET r == get_val_node_cptr(g, p)
  IN  IF r.n = 0 THEN r.g ELSE add_cons(r.g, "load", vnI, r.n, 0)

id_gep_insn(g, vnI, p, off) ==
  LET r == get_val_node_cptr(g, p)
  IN  CASE p = Null -> g
        [] p # Null /\ r.n = 0 -> Fail(r.g)
        [] p # Null /\ r.n # 0 -> add_cons(r.g, "gep", vnI, r.n, off)

id_insn(g, f, n) ==
  LET I   == prog.insn[n]
      vnI == get_val_node(g, Insn(n))
  IN
  CASE I.op = "ret" /\ I.v # <<>> /\ IsPtr(I.v[1]) -> CopyFrom(g, get_ret_node(g, f), I.v[1])
    [] IsCall(I)       -> id_call_insn(g, n, I)
    [] I.op = "alloca" -> id_alloc_insn(g, n, I)
    [] I.op = "load" /\ I.ptr -> id_load_insn(g, vnI, I.v[1])
    [] I.op = "store" /\ IsPtr(I.v[2]) -> StoreTo(g, I.v[1], I.v[2])
    [] I.op = "gep"    -> id_gep_insn(g, vnI, I.v[1], I.off)
    [] I.op = "i2p"    -> id_i2p(g, vnI, I)
    [] I.op \in {"bitcast", "phi", "select"} /\ I.ptr ->
         FoldLeft(LAMBDA h, v : CopyFrom(h, vnI, v), g, I.v)
    [] I.op = "vaarg" /\ I.ptr -> add_cons(g, "copy", vnI, get_vararg_node(g, f), 0)
    [] I.op = "extract" /\ I.ptr -> Fail(g)
    [] OTHER -> g

-----------------------------------------------------------------------------
Blank == [nodes |-> <<[val |-> NoValue, obj_sz |-> 0], [val |-> NoValue, obj_sz |-> 1],
                      [val |-> NoValue, obj_sz |-> 0]>>,
          next |-> first_var_node, val_node |-> <<>>, obj_node |-> <<>>, ret_node |-> <<>>,
          vararg_node |-> <<>>, stat_ret_node |-> <<>>, at_args |-> {}, ind_calls |-> {},
          icall_cons |-> {}, cons |-> <<C("addr_of", p_i2p, i2p, 0)>>, fail |-> FALSE]

Goto(l) == pc' = IF gen'.fail THEN "abort" ELSE l

IdFunc ==
  /\ pc = "func"
  /\ gen' = id_func(gen, at)
  /\ IF at < Len(prog.func) THEN at' = at + 1 /\ Goto("func") ELSE at' = 1 /\ Goto("visit")
  /\ UNCHANGED <<prog, todo, seen, code>>

(* The nodes of all pointers come first, "since trace_int may sometimes     *)
(* return values below the current insn".                                   *)
VisitFunc ==
  /\ pc = "visit" /\ ~IsExt(at)
  /\ gen' = FoldLeft(LAMBDA g, n : IF prog.insn[n].ptr THEN NewVal(g, Insn(n)) ELSE g,
                     gen, Instructions(at))
  /\ todo' = <<1>> /\ seen' = {}
  /\ pc' = "block"
  /\ UNCHANGED <<prog, at, code>>

NextFunc == IF at < Len(prog.func) THEN at' = at + 1 /\ pc' = "visit" ELSE at' = at /\ pc' = "done"

SkipExt ==
  /\ pc = "visit" /\ IsExt(at)
  /\ NextFunc
  /\ UNCHANGED <<prog, gen, todo, seen, code>>

(* A block is done before its successors, each block once.                  *)
processBlock ==
  /\ pc = "block" /\ todo # <<>>
  /\ LET b == Head(todo)
         B == prog.func[at].blocks[b]
     IN  IF b \in seen
         THEN todo' = Tail(todo) /\ UNCHANGED <<seen, code, pc>>
         ELSE todo' = B.succ \o Tail(todo) /\ seen' = seen \cup {b}
              /\ code' = B.code /\ pc' = "insn"
  /\ UNCHANGED <<prog, gen, at>>

FuncDone ==
  /\ pc = "block" /\ todo = <<>>
  /\ NextFunc
  /\ UNCHANGED <<prog, gen, todo, seen, code>>

Instruction ==
  /\ pc = "insn" /\ code # <<>>
  /\ gen' = id_insn(gen, at, Head(code))
  /\ code' = Tail(code)
  /\ Goto("insn")
  /\ UNCHANGED <<prog, at, todo, seen>>

BlockDone ==
  /\ pc = "insn" /\ code = <<>>
  /\ pc' = "block"
  /\ UNCHANGED <<prog, gen, at, todo, seen, code>>

Next == IdFunc \/ VisitFunc \/ SkipExt \/ processBlock \/ FuncDone \/ Instruction \/ BlockDone

Init ==
  /\ prog \in Programs
  /\ gen = Blank
  /\ pc = "func" /\ at = 1
  /\ todo = <<>> /\ seen = {} /\ code = <<>>

Spec == Init /\ [][Next]_vars
=============================================================================
