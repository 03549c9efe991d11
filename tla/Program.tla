------------------------------ MODULE Program -------------------------------
(* The analysed program as the constraint generator reads it: functions made *)
(* of basic blocks of instructions over values.  A value is                   *)
(*   func f   the address of a function      arg f n   its n-th parameter     *)
(*   insn n   the result of an instruction   cast of   a constant bitcast     *)
(*   i2p e    a constant inttoptr            null, num, asm, block            *)
(* An instruction has an op, ptr (its result is a pointer), v (its operands,  *)
(* the arguments of a call or invoke), and, where they apply, the callee fn,  *)
(* the offset or extent off, the node sizes sz of what it may allocate, and   *)
(* hole: what it converts to a pointer cannot be traced to pointers only.  A  *)
(* GEP of null by one index is an inttoptr.                                   *)
EXTENDS Integers, Sequences, FiniteSets, SequencesExt, TLC

VARIABLE prog   \* [insn: Seq(instruction), ce: Seq(instruction), func: Seq([ext,
                \*  main, args: Seq(BOOLEAN), ret, va: BOOLEAN, blocks:
                \*  Seq([code: Seq(Nat), succ: Seq(Nat)])]), and of the build:
                \*  long: {32, 64}, ksa: BOOLEAN, callee: {"first", "last"}]

Null    == [k |-> "null"]
Num     == [k |-> "num"]
Asm     == [k |-> "asm"]
Dest    == [k |-> "block"]
Fn(f)     == [k |-> "func", f |-> f]
Arg(f, n) == [k |-> "arg", f |-> f, n |-> n]
Insn(n)   == [k |-> "insn", n |-> n]
I2p(e)    == [k |-> "i2p", n |-> e]
Cast(v)   == [k |-> "cast", of |-> v]

RECURSIVE Stripped(_)
Stripped(v) == IF v.k = "cast" THEN Stripped(v.of) ELSE v

(* isa<PointerType>(V->getType())                                            *)
IsPtr(v) ==
  CASE v.k = "num"  -> FALSE
    [] v.k = "insn" -> prog.insn[v.n].ptr
    [] v.k = "arg"  -> prog.func[v.f].args[v.n]
    [] OTHER        -> TRUE

(* extf_t of a function, "none" for one of the program itself.              *)
IsExt(f)   == prog.func[f].ext # "none"
IsAlloc(f) == prog.func[f].ext \in {"ALLOC", "NOSTRUCT_ALLOC"}
HasStatic(f) == prog.func[f].ext \in {"STAT", "STAT2"}

ReturnsArg == [L_A0 |-> 1, L_A1 |-> 2, L_A2 |-> 3, L_A8 |-> 9, REALLOC |-> 1,
               L_A0__A0R_A1R |-> 1, L_A0__A2R_A0 |-> 1]
CopiesInto == [L_A0__A0R_A1R |-> <<1, 2>>, A1R_A0R |-> <<2, 1>>, A3R_A1R_NS |-> <<4, 2>>]
StoresInto == [A1R_A0 |-> <<2, 1>>, A2R_A1 |-> <<3, 2>>, A4R_A1 |-> <<5, 2>>,
               L_A0__A2R_A0 |-> <<3, 1>>]
NewIn      == [A0R_NEW |-> 1, A1R_NEW |-> 2, A2R_NEW |-> 3, A4R_NEW |-> 5, A11R_NEW |-> 12]

IsCall(I) == I.op \in {"call", "invoke"}

(* getOperand of a call.  The callee was operand 0 of LLVM when this was      *)
(* written; the LLVM that common.h includes has it last, after the arguments. *)
Operands(I) ==
  LET dests == IF I.op = "invoke" THEN <<Dest, Dest>> ELSE <<>>
  IN  IF prog.callee = "first" THEN <<I.fn>> \o dests \o I.v ELSE I.v \o dests \o <<I.fn>>

(* The function that operand 0 is, also through a bitcast; 0 for none.  It is *)
(* the function called only where the callee comes first.                     *)
Callee(I) == LET callee == Stripped(Operands(I)[1])
             IN  IF callee.k = "func" THEN callee.f ELSE 0

FunctionOf(n) == CHOOSE f \in DOMAIN prog.func :
                   \E b \in DOMAIN prog.func[f].blocks :
                     n \in Range(prog.func[f].blocks[b].code)

(* The instructions of f in the order of inst_iterator.                     *)
Instructions(f) ==
  FlattenSeq([b \in DOMAIN prog.func[f].blocks |-> prog.func[f].blocks[b].code])

(* Blocks of f that some path from its entry reaches.                       *)
Reachable(f) ==
  LET blocks == prog.func[f].blocks
      grow[B \in SUBSET DOMAIN blocks] ==
        LET C == B \cup UNION {Range(blocks[b].succ) : b \in B}
        IN  IF C = B THEN B ELSE grow[C]
  IN  IF blocks = <<>> THEN {} ELSE grow[{1}]

Visited == UNION {UNION {Range(prog.func[f].blocks[b].code) : b \in Reachable(f)}
                    : f \in DOMAIN prog.func}

(* A constant and the constants that it is an expression of.                *)
RECURSIVE Parts(_)
Parts(v) ==
  LET c == Stripped(v)
  IN  {c} \cup (IF c.k = "i2p" THEN UNION {Parts(w) : w \in Range(prog.ce[c.n].v)} ELSE {})

(* The operands by which escapes takes an instruction to use an address: of   *)
(* a call those from the second on, of an invoke from the fourth.             *)
AddressOperands(I) ==
  CASE I.op = "call"   -> Range(SubSeq(Operands(I), 2, Len(Operands(I))))
    [] I.op = "invoke" -> Range(SubSeq(Operands(I), 4, Len(Operands(I))))
    [] I.op = "cmp"    -> {}
    [] OTHER           -> Range(I.v)

escapes(f) == \E n \in DOMAIN prog.insn :
                \E v \in AddressOperands(prog.insn[n]) : Fn(f) \in Parts(v)
=============================================================================
