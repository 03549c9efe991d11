------------------------- MODULE ConsGenProperties --------------------------
(* What the constraints of a program have to mean.  The reference below is   *)
(* written over the program's own values and memory: it knows no nodes,      *)
(* offsets, temporaries or stores that stand for calls.                      *)
EXTENDS ConsGen

(* Where pointers live: values, the return value and the further arguments  *)
(* of functions, and fields of objects.  An object is named by the value    *)
(* that it was made for, or by the external function with the static data.  *)
Ret(f)      == [k |-> "ret", f |-> f]
Va(f)       == [k |-> "va", f |-> f]
Field(o, n) == [k |-> "field", o |-> o, n |-> n]
Static(f)   == [k |-> "static", f |-> f]
Made(n)     == [k |-> "made", n |-> n]     \* what the call n stores in an argument
Unknown     == Field([k |-> "unknown"], 0)

(* The function the program calls by name, 0 for a call by pointer.         *)
Named(I) == IF Stripped(I.fn).k = "func" THEN Stripped(I.fn).f ELSE 0

(* The sizes of the fields of an object, see Node::obj_sz.                  *)
FieldSizes(o) ==
  CASE o.k = "unknown" -> <<1>>
    [] o.k = "func" -> <<1>>
    [] o.k = "arg"  -> <<2, 1>>
    [] o.k = "static" /\ prog.func[o.f].ext = "STAT2" -> <<2, 1>>
    [] o.k = "static" /\ prog.func[o.f].ext = "STAT" ->
         LET first == CHOOSE n \in Visited : Named(prog.insn[n]) = o.f
         IN  prog.insn[first].sz
    [] o.k = "insn" /\ IsCall(prog.insn[o.n]) /\ Named(prog.insn[o.n]) # 0
         /\ prog.func[Named(prog.insn[o.n])].ext = "NOSTRUCT_ALLOC" -> <<1>>
    [] OTHER -> prog.insn[o.n].sz

Reached(T, off) == {Field(t.o, t.n + off) :
                      t \in {u \in T \ {Unknown} : off < FieldSizes(u.o)[u.n + 1]}}

(* What an operand may point to, given what every place may point to.       *)
RECURSIVE Points(_, _)
Points(P, v) ==
  CASE v.k = "func" -> {Field(v, 0)}
    [] v.k = "cast" -> Points(P, v.of)
    [] v.k = "i2p"  -> UNION {Points(P, w) : w \in Range(prog.ce[v.n].v)}
                         \cup (IF prog.ce[v.n].hole THEN {Unknown} ELSE {})
    [] v.k \in {"null", "asm"} -> {}
    [] v.k = "num"  -> {Unknown}       \* as an argument
    [] OTHER        -> P[v]

To(places, T) == {<<c, T>> : c \in places}

(* A call of the program's function f, directly or not.  A call by pointer  *)
(* passes no variable arguments: "indirect calls of varargs are not         *)
(* supported".                                                               *)
Enter(P, n, f, direct) ==
  LET I == prog.insn[n]
      F == prog.func[f]
  IN  UNION {IF k <= Len(F.args)
             THEN IF F.args[k] THEN To({Arg(f, k)}, Points(P, I.v[k])) ELSE {}
             ELSE IF direct THEN To({Va(f)}, Points(P, I.v[k])) ELSE {} : k \in DOMAIN I.v}
      \cup (CASE I.ptr /\ F.ret -> To({Insn(n)}, P[Ret(f)])
              [] I.ptr /\ ~F.ret /\ direct -> To({Insn(n)}, {Unknown})
              [] OTHER -> {})

Allocates(n, f) == \/ IsAlloc(f)
                   \/ prog.func[f].ext = "REALLOC" /\ prog.insn[n].v[1] = Null

CopyFields(P, d, s, sz) ==
  UNION {To(Reached(Points(P, d), off), UNION {P[c] : c \in Reached(Points(P, s), off)})
           : off \in 0 .. sz - 1}

(* A call of the external function f.  Through a pointer, only functions    *)
(* that allocate or return an argument are supported.                       *)
External(P, n, f, direct) ==
  LET I == prog.insn[n]
      t == prog.func[f].ext
  IN
  (IF I.ptr /\ Allocates(n, f) THEN To({Insn(n)}, {Field(Insn(n), 0)}) ELSE {})
  \cup (IF I.ptr /\ t \in DOMAIN ReturnsArg /\ ReturnsArg[t] <= Len(I.v)
        THEN To({Insn(n)}, Points(P, I.v[ReturnsArg[t]])) ELSE {})
  \cup (IF I.ptr /\ HasStatic(f)
        THEN To({Insn(n)}, {Field(Static(f), 0)})
               \cup (IF t = "STAT2" THEN To({Field(Static(f), 0)}, {Field(Static(f), 1)}) ELSE {})
        ELSE {})
  \cup (IF direct /\ t \in DOMAIN StoresInto
        THEN To(Reached(Points(P, I.v[StoresInto[t][1]]), 0), Points(P, I.v[StoresInto[t][2]])) ELSE {})
  \cup (IF direct /\ t \in DOMAIN CopiesInto
        THEN CopyFields(P, I.v[CopiesInto[t][1]], I.v[CopiesInto[t][2]],
                        IF t = "A3R_A1R_NS" THEN 1 ELSE I.off) ELSE {})
  \cup (IF direct /\ t \in DOMAIN NewIn
        THEN To(Reached(Points(P, I.v[NewIn[t]]), 0), {Field(Made(n), 0)}) ELSE {})

Called(P, n) ==
  LET I == prog.insn[n]
      f == Named(I)
      reached == {t.o.f : t \in {u \in Points(P, I.fn) : u.o.k = "func"}}
      call(h, direct) == IF IsExt(h) THEN External(P, n, h, direct) ELSE Enter(P, n, h, direct)
  IN  IF f # 0 THEN call(f, TRUE) ELSE UNION {call(h, FALSE) : h \in reached}

(* What the visited instruction n adds.                                     *)
Executed(P, n) ==
  LET I == prog.insn[n]
      v == I.v
      all == UNION {Points(P, w) : w \in Range(v)}
  IN
  CASE IsCall(I)      -> Called(P, n)
    [] I.op = "ret" /\ v # <<>> /\ IsPtr(v[1]) -> To({Ret(FunctionOf(n))}, all)
    [] I.op = "alloca" -> To({Insn(n)}, {Field(Insn(n), 0)})
    [] I.op = "load"  /\ I.ptr -> To({Insn(n)}, UNION {P[c] : c \in Reached(Points(P, v[1]), 0)})
    [] I.op = "store" /\ IsPtr(v[2]) -> To(Reached(Points(P, v[1]), 0), Points(P, v[2]))
    [] I.op = "gep"   -> To({Insn(n)}, IF I.off = 0 THEN all ELSE Reached(all, I.off))
    [] I.op = "i2p"   -> To({Insn(n)}, all \cup (IF I.hole THEN {Unknown} ELSE {}))
    [] I.op \in {"bitcast", "phi", "select"} /\ I.ptr -> To({Insn(n)}, all)
    [] I.op = "vaarg" /\ I.ptr -> To({Insn(n)}, P[Va(FunctionOf(n))])
    [] OTHER -> {}

MainArgs == {Arg(f, n) : f \in {h \in DOMAIN prog.func : prog.func[h].main}, n \in {2, 3}}
            \cap {Arg(f, n) : f \in DOMAIN prog.func, n \in UNION {DOMAIN F.args : F \in Range(prog.func)}}

Values == {Insn(n) : n \in {m \in DOMAIN prog.insn : prog.insn[m].ptr}}
          \cup UNION {{Arg(f, n) : n \in {k \in DOMAIN prog.func[f].args : prog.func[f].args[k]}}
                        : f \in {h \in DOMAIN prog.func : ~IsExt(h)}}

Objects == {Fn(f) : f \in DOMAIN prog.func} \cup MainArgs
           \cup {Insn(n) : n \in {m \in Visited : prog.insn[m].sz # <<>>}}
           \cup {Made(n) : n \in {m \in Visited : prog.insn[m].sz # <<>>}}
           \cup {Static(f) : f \in {h \in DOMAIN prog.func : HasStatic(h) /\
                                      \E n \in Visited : Named(prog.insn[n]) = h}}

Places == {Unknown} \cup Values \cup {Ret(f) : f \in DOMAIN prog.func} \cup {Va(f) : f \in DOMAIN prog.func}
          \cup UNION {{Field(o, n - 1) : n \in DOMAIN FieldSizes(o)} : o \in Objects}

(* The least solution of the program: what every place may point to.        *)
Meaning ==
  LET start == [c \in Places |->
                  CASE c \in MainArgs -> {Field(c, 0)}
                    [] c.k = "field" /\ c.o \in MainArgs /\ c.n = 0 -> {Field(c.o, 1)}
                    [] OTHER -> {}]
      close[P \in [Places -> SUBSET Places]] ==
        LET steps == UNION {Executed(P, n) : n \in Visited}
            Q == [c \in Places |-> P[c] \cup UNION {s[2] : s \in {t \in steps : t[1] = c}}]
        IN  IF Q = P THEN P ELSE close[Q]
  IN  close[start]

-----------------------------------------------------------------------------
(* The constraint system handed on, and its least solution.                 *)
NodeIds   == 0 .. gen.next - 1
ValueOf(i) == gen.nodes[i + 1].val
SizeOf(i) == gen.nodes[i + 1].obj_sz

FuncNodes == {i \in NodeIds : ValueOf(i).k = "func" /\ IF IsExt(ValueOf(i).f) THEN TRUE ELSE SizeOf(i) > 1}
ExtNodes  == {i \in FuncNodes : IsExt(ValueOf(i).f)}

Effect(kind, dest, src) == [kind |-> kind, dest |-> dest, src |-> src]
NoEffect == Effect("none", 0, 0)

(* handle_ext; an argument that is a constant has no node of its own.       *)
handle_ext(f, n) ==
  LET I    == prog.insn[n]
      t    == prog.func[f].ext
      vnD  == get_val_node(gen, Insn(n))
      made == Effect("point", vnD, gen.obj_node[Insn(n)])
      arg(k) == CASE k > Len(I.v) -> NoEffect
                  [] k <= Len(I.v) /\ ~IsPtr(I.v[k]) -> Effect("point", vnD, i2p)
                  [] k <= Len(I.v) /\ IsPtr(I.v[k]) ->
                       IF get_val_node(gen, I.v[k]) = 0 THEN NoEffect
                       ELSE Effect("copy", vnD, get_val_node(gen, I.v[k]))
  IN
  CASE ~I.ptr -> NoEffect
    [] I.ptr /\ t \in {"ALLOC", "NOSTRUCT_ALLOC"} -> made
    [] I.ptr /\ t = "REALLOC" /\ I.v = <<>> -> NoEffect
    [] I.ptr /\ t = "REALLOC" /\ I.v # <<>> -> IF I.v[1] = Null THEN made ELSE arg(1)
    [] I.ptr /\ t \in {"L_A0", "L_A1", "L_A2", "L_A8"} -> arg(ReturnsArg[t])
    [] OTHER -> NoEffect

CallSites == {c[2] : c \in gen.icall_cons}

System == INSTANCE ConstraintSystem
  WITH Node <- NodeIds, ObjSz <- [i \in NodeIds |-> SizeOf(i)],
       FuncNode <- FuncNodes, ExtNode <- ExtNodes,
       NonPtrVal <- {i \in NodeIds : ValueOf(i) # NoValue /\ ~IsPtr(ValueOf(i))},
       Site <- CallSites, NoSite <- 0,
       ExtEffect <- [x \in ExtNodes \X CallSites |-> handle_ext(ValueOf(x[1]).f, x[2])]

Solution == System!Least([cons |-> gen.cons, icall |-> gen.icall_cons])

(* The node of an object's field.                                           *)
FieldNode(t) ==
  CASE t = Unknown       -> i2p
    [] t.o.k = "static"  -> gen.stat_ret_node[t.o.f] + t.n
    [] t.o.k = "made"    -> LET I == prog.insn[t.o.n]
                            IN  gen.obj_node[I.v[NewIn[prog.func[Named(I)].ext]]] + t.n
    [] OTHER             -> gen.obj_node[t.o] + t.n

(* The least solution of the constraints is what the program means, for     *)
(* every pointer value: a call has the same effect through a pointer as by  *)
(* name, a copy of a struct copies its fields, a parameter inside the       *)
(* object of an address-taken function is the one its body reads.           *)
MeansTheProgram ==
  pc = "done" =>
    LET M == Meaning
        S == Solution
    IN  \A v \in Values : S[gen.val_node[v]] = {FieldNode(t) : t \in M[v]}

(* No assertion fails and no parameter is read past the last.               *)
NoAbort == pc # "abort"

(* verify_nodes: "Make sure that every node has reasonable info and all     *)
(* values are mapped to the right nodes" (obj_cons_id.cpp:215), and         *)
(* next_node is the number of nodes (:99).                                  *)
Lookup(map, x) == IF x \in DOMAIN map THEN map[x] ELSE 0

NodeVerified(i) ==
  LET V  == ValueOf(i)
      sz == SizeOf(i)
      on == Lookup(gen.obj_node, V)
      own == {Lookup(gen.val_node, V)}
               \cup (IF V.k = "func" THEN {Lookup(gen.ret_node, V.f), Lookup(gen.vararg_node, V.f)}
                     ELSE {})
  IN  CASE V = NoValue -> sz = 0 \/ i = i2p
        [] V # NoValue /\ i \in own -> sz = 0 \/ V \in gen.at_args
        [] V # NoValue /\ i \notin own -> sz # 0 /\ i + sz <= on + SizeOf(on)

NodesConsistent ==
  pc = "done" =>
    /\ gen.next = Len(gen.nodes)
    /\ \A i \in NodeIds : NodeVerified(i)
    /\ \A v \in DOMAIN gen.val_node \ gen.at_args : ValueOf(gen.val_node[v]) = v
    /\ \A v \in DOMAIN gen.obj_node : ValueOf(gen.obj_node[v]) = v
    /\ \A f \in DOMAIN gen.ret_node : ValueOf(gen.ret_node[f]) = Fn(f)
    /\ \A f \in DOMAIN gen.vararg_node : ValueOf(gen.vararg_node[f]) = Fn(f)

(* A value keeps its object: nothing that is identified later takes the     *)
(* entry of an object that is in use.                                       *)
ObjectsKept ==
  [][\A v \in DOMAIN gen.obj_node : gen'.obj_node[v] = gen.obj_node[v]]_vars
=============================================================================
