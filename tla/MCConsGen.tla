----------------------------- MODULE MCConsGen ------------------------------
(* Programs of two functions and two external ones.  main allocates an       *)
(* object, stores a pointer in it, takes one of several values, and calls    *)
(* the other function, by name or by pointer, or an external one, in a loop; *)
(* one block is never reached.  The external functions are 3, malloc, and 4. *)
(* In most families the callee is the first operand of a call; LastByName,   *)
(* LastExternal and LastNoArgument have it last.                             *)
EXTENDS ConsGenProperties

Op(op, ptr, v) == [op |-> op, ptr |-> ptr, v |-> v, fn |-> Null, off |-> 0,
                   sz |-> <<>>, hole |-> FALSE]
Call(ptr, fn, v) == [Op("call", ptr, v) EXCEPT !.fn = fn, !.off = 2, !.sz = <<2, 1>>]
Invoke(ptr, fn, v) == [Call(ptr, fn, v) EXCEPT !.op = "invoke"]
Alloca(sz)       == [Op("alloca", TRUE, <<>>) EXCEPT !.sz = sz]
Gep(v, off)      == [Op("gep", TRUE, <<v>>) EXCEPT !.off = off]
ToPtr(v, hole)   == [Op("i2p", TRUE, v) EXCEPT !.hole = hole]
Block(is, bs) == [code |-> is, succ |-> bs]

Main(args) == [ext |-> "none", main |-> TRUE, args |-> args, ret |-> FALSE, va |-> FALSE,
               blocks |-> <<Block(<<1, 2>>, <<2, 3>>), Block(<<3>>, <<4>>), Block(<<4>>, <<4>>),
                            Block(<<5>>, <<5, 5>>), Block(<<6>>, <<2>>), Block(<<7>>, <<1>>)>>]
Called2(args, ret, va) == [ext |-> "none", main |-> FALSE, args |-> args, ret |-> ret, va |-> va,
                           blocks |-> <<Block(<<8, 9, 10>>, <<>>)>>]
External4(t) == [ext |-> t, main |-> FALSE, args |-> <<>>, ret |-> TRUE, va |-> TRUE,
                 blocks |-> <<>>]

Prog(insn, ce, f, t, long, ksa) ==
  [insn |-> insn, ce |-> ce, func |-> <<Main(<<FALSE, TRUE, TRUE>>), f, External4("ALLOC"), External4(t)>>,
   long |-> long, ksa |-> ksa, callee |-> "first"]

(* The same in a build that passes the arguments first: it has no KSA, since *)
(* the code that needs it uses classes that such an LLVM does not have.       *)
CalleeLast(p) == [p EXCEPT !.callee = "last", !.ksa = FALSE]

Argv == Arg(1, 2)
Obj  == Insn(1)
Fp   == Insn(3)
Q    == Insn(4)
Ints == <<[Op("i2p", TRUE, <<Fn(2)>>) EXCEPT !.hole = TRUE],
          Op("i2p", TRUE, <<Cast(Fn(3)), I2p(1)>>)>>

(* The body of main: what is allocated, stored, taken and called.           *)
Body(alloc, stored, taken, call, f) ==
  LET p == IF \E k \in DOMAIN f.args : f.args[k]
           THEN Arg(2, CHOOSE k \in DOMAIN f.args : f.args[k]) ELSE Null
  IN
  <<alloc, Op("store", FALSE, <<Obj, stored>>), Op("load", TRUE, <<Obj>>), taken, call,
    IF call.ptr THEN Op("store", FALSE, <<Argv, Insn(5)>>) ELSE Op("cmp", FALSE, <<Fn(2), Q>>),
    Op("store", FALSE, <<Obj, Q>>),
    IF f.va THEN Op("vaarg", TRUE, <<>>) ELSE Op("load", TRUE, <<p>>),
    Op("store", FALSE, <<p, Insn(8)>>),
    IF f.ret THEN Op("ret", FALSE, <<p>>) ELSE Op("ret", FALSE, <<>>)>>

Allocs == {Alloca(<<1>>), Alloca(<<2, 1>>), Call(TRUE, Fn(3), <<Num>>)}
Stored == {Fn(2), Argv, Cast(Fn(2)), I2p(2), Null}
Taken  == {Op("phi", TRUE, <<Obj, Argv, Null>>), Op("select", TRUE, <<Argv, Insn(5)>>),
           Gep(Obj, 0), Gep(Obj, 1), Gep(Null, 1), ToPtr(<<Argv>>, FALSE), ToPtr(<<Argv>>, TRUE),
           Op("bitcast", TRUE, <<Obj>>), Op("load", TRUE, <<Argv>>)}
Callees == {Called2(args, ret, va) : args \in {<<TRUE>>, <<FALSE, TRUE>>, <<TRUE, FALSE>>, <<>>},
                                     ret \in BOOLEAN, va \in BOOLEAN}
Passed(f) == {[k \in DOMAIN f.args |-> IF f.args[k] THEN v ELSE Num] : v \in {Q, I2p(1), Num, Fn(2)}}

(* Whether a callee with these arguments can be identified by a build.      *)
HasPointer(f) == \E k \in DOMAIN f.args : f.args[k]

Long(f) == IF HasPointer(f) THEN 64 ELSE 32

CallsByName ==
  UNION {{Prog(Body(Alloca(<<2, 1>>), s, t, call, f), Ints, f, "NOOP", Long(f), TRUE) :
            s \in {Null, Fn(2)}, t \in {Gep(Obj, 1), Op("select", TRUE, <<Argv, Obj>>)},
            call \in {Call(r, c, v \o more) : r \in BOOLEAN, c \in {Fn(2), Cast(Fn(2))}, v \in Passed(f),
                        more \in IF f.va THEN {<<>>, <<Q>>, <<Num, Obj>>} ELSE {<<>>}}
                     \cup {Invoke(f.ret, Fn(2), v) : v \in Passed(f)}} : f \in Callees}

(* Calls by pointer of functions without variable arguments; the pointer    *)
(* may also be to malloc.                                                   *)
CallsByPointer ==
  UNION {{Prog(Body(a, s, t, Call(r, Fp, v), f), Ints, f, "NOOP", Long(f), TRUE) :
            a \in Allocs, s \in Stored, t \in {Gep(Obj, 1), Op("load", TRUE, <<Argv>>)},
            r \in {f.ret}, v \in Passed(f)} : f \in {h \in Callees : ~h.va}}

(* Every kind of external function, with and without a use of the result.   *)
ExtTypes == {"NOOP", "OTHER", "NOSTRUCT_ALLOC", "STAT", "STAT2"} \cup DOMAIN ReturnsArg
              \cup DOMAIN CopiesInto \cup DOMAIN StoresInto
Vectors  == {[k \in 1 .. 12 |-> IF k \in {1, 4} THEN a ELSE IF k \in {2, 3} THEN b ELSE Q] :
               a, b \in {Obj, Argv}}
            \cup {[k \in 1 .. 12 |-> IF k \in {2, 5} THEN Null ELSE Argv],
                  [k \in 1 .. 12 |-> IF k = 1 THEN Argv ELSE Cast(Fn(3))]}
Simple   == Called2(<<TRUE>>, FALSE, FALSE)
CallsExternal ==
  {Prog(Body(Alloca(<<2, 1>>), s, t, Call(r, Fn(4), v), Simple), Ints, Simple, e, 64, TRUE) :
     s \in {Argv, Fn(2)}, t \in {Gep(Obj, 1), Op("load", TRUE, <<Argv>>)}, r \in BOOLEAN,
     v \in Vectors, e \in ExtTypes}

(* The argument that gets the new object has none of its own.               *)
CallsNew ==
  {Prog(Body(a, s, t, Call(r, Fn(4), [k \in 1 .. 12 |-> Q]), Simple), Ints, Simple, e, 64, TRUE) :
     a \in Allocs, s \in {Argv, Fn(2)}, t \in Taken \ {Gep(Null, 1)}, r \in {TRUE},
     e \in DOMAIN NewIn}

AllTaken ==
  {Prog(Body(a, s, t, Call(TRUE, Fn(4), <<Null>>), Simple), Ints, Simple, e, 32, k) :
     a \in Allocs, s \in Stored, t \in Taken, e \in {"REALLOC", "STAT2"}, k \in {TRUE}}

(* Where the callee is the last operand, a call that passes arguments is an  *)
(* indirect one.  What that finds is right for functions without variable    *)
(* arguments, those that allocate and those that return an argument, if the  *)
(* first argument is not a function, and the functions in the arguments that *)
(* escapes does not see, k of them, are also taken elsewhere.                *)
IsFunction(v) == Stripped(v).k = "func"
Usable(v, k, taken) ==
  /\ v # <<>> => ~IsFunction(v[1])
  /\ taken \/ \A n \in DOMAIN v : n <= k => v[n].k \notin {"func", "i2p"}

LastByName ==
  UNION {{CalleeLast(Prog(Body(Call(TRUE, Fn(3), <<Num>>), s, Gep(Obj, 1), call, f), Ints, f, "NOOP", Long(f), TRUE)) :
            call \in UNION {LET passed(k) == {v \in Passed(f) : Usable(v, k, c # Fp \/ s = Fn(2))}
                             IN  {Call(r, c, v) : v \in passed(1)}
                                 \cup {Invoke(r, c, v) : v \in
                                         passed(3) \ (IF c # Fp /\ s # Fn(2) THEN {<<>>} ELSE {})} :
                            r \in {FALSE, f.ret}, c \in {Fn(2), Cast(Fn(2)), Fp}}} :
         f \in {h \in Callees : ~h.va}, s \in {Null, Fn(2), Argv}}

LastExternal ==
  {CalleeLast(Prog(Body(Call(TRUE, Fn(3), <<Num>>), s, t, call, Simple), Ints, Simple, e, 64, TRUE)) :
     s \in {Argv, Fn(2)}, t \in {Gep(Obj, 1), Op("load", TRUE, <<Argv>>)},
     call \in UNION {{Call(r, Fn(4), v), Invoke(r, Fn(4), v)} : r \in BOOLEAN,
                     v \in {w \in Vectors : \A k \in 1 .. 12 : ~IsFunction(w[k])}},
     e \in {"NOOP", "OTHER", "ALLOC", "REALLOC", "L_A0", "L_A1", "L_A2", "L_A8"}}

LastNoArgument ==
  {CalleeLast(Prog(Body(Call(TRUE, Fn(3), <<Num>>), s, Gep(Obj, 1), Call(TRUE, Fn(4), <<>>), Simple),
                   Ints, Simple, e, 64, TRUE)) :
     s \in {Argv, Fn(2)}, e \in {"NOOP", "OTHER", "ALLOC", "NOSTRUCT_ALLOC", "STAT", "STAT2"}}

MCPrograms == CallsByName \cup CallsByPointer \cup CallsExternal \cup CallsNew \cup AllTaken
              \cup LastByName \cup LastExternal \cup LastNoArgument

-----------------------------------------------------------------------------
(* Programs that break what the code says of itself.                        *)

(* The address of a function without pointer parameters is taken, in a      *)
(* 64-bit build.                                                            *)
NoPointers == Called2(<<FALSE>>, FALSE, FALSE)
Programs64 ==
  {Prog(Body(a, Fn(2), t, Call(FALSE, Fp, <<Num>>), NoPointers), Ints, NoPointers, "NOOP", 64, TRUE) :
     a \in Allocs, t \in Taken \ {Op("select", TRUE, <<Argv, Insn(5)>>)}}

(* An alloca in a build without KSA.                                        *)
ProgramsAlloca ==
  {Prog(Body(a, s, Gep(Obj, 1), Call(TRUE, Fn(4), <<Null>>), Simple), Ints, Simple, "ALLOC", 64, FALSE) :
     a \in Allocs, s \in Stored}

(* memmove into a constant, with its result used.                           *)
ProgramsMemmove ==
  {Prog(Body(a, s, Gep(Obj, 1), Call(TRUE, Fn(4), <<v, Q>>), Simple), Ints, Simple,
        "L_A0__A0R_A1R", 64, TRUE) : a \in Allocs, s \in Stored, v \in {Q, Cast(Fn(2))}}

(* A function is called through a bitcast with one argument too many.       *)
ProgramsTooMany ==
  {Prog(Body(a, s, Gep(Obj, 1), Call(FALSE, Cast(Fn(2)), v), Simple), Ints, Simple, "NOOP", 64, TRUE) :
     a \in Allocs, s \in Stored, v \in {<<Q>>, <<Q, Num>>}}

(* posix_memalign(&p, ...) for a local variable p.                          *)
ProgramsNew ==
  {Prog(Body(a, s, Gep(Obj, 1), Call(FALSE, Fn(4), <<v>>), Simple), Ints, Simple, "A0R_NEW", 64, TRUE) :
     a \in Allocs, s \in Stored, v \in {Q, Obj}}

(* A function that returns its argument is called by pointer with a cast.   *)
ProgramsExtCast ==
  {Prog(Body(a, Fn(4), Gep(Obj, 1), Call(TRUE, Fp, <<v>>), Simple), Ints, Simple, "L_A0", 64, TRUE) :
     a \in Allocs, v \in {Q, Argv, Fn(2), Cast(Fn(2))}}

(* The callee is the last operand.  A function is passed first: the call is  *)
(* taken for a call of it, with itself as the argument.                      *)
Untaken == Called2(<<>>, FALSE, FALSE)
ProgramsFunctionPassed ==
  {CalleeLast(Prog(Body(Call(TRUE, Fn(3), <<Num>>), s, Gep(Obj, 1), Call(FALSE, Fn(4), <<v>>), Untaken),
                   Ints, Untaken, "NOOP", 64, TRUE)) : s \in {Null, Argv}, v \in {Fn(2), Cast(Fn(2))}}

(* The same where the function passed is external: no argument is bound.    *)
ProgramsArgumentLost ==
  {CalleeLast(Prog(Body(Call(TRUE, Fn(3), <<Num>>), Fn(4), Gep(Obj, 1), Call(FALSE, Fn(2), <<v>>), Simple),
                   Ints, Simple, "NOOP", 64, TRUE)) : v \in {Fn(4), Cast(Fn(4))}}

(* An invoke without arguments: operand 0 is a block.                        *)
ProgramsInvoke ==
  {CalleeLast(Prog(Body(Call(TRUE, Fn(3), <<Num>>), s, Gep(Obj, 1), Invoke(FALSE, Fn(2), <<>>), Untaken),
                   Ints, Untaken, "NOOP", 64, TRUE)) : s \in {Null, Argv}}

(* External functions with arguments that do more than allocate or return   *)
(* an argument.                                                              *)
ProgramsLastExternal ==
  {CalleeLast(Prog(Body(Call(TRUE, Fn(3), <<Num>>), s, Gep(Obj, 1), Call(FALSE, Fn(4), v), Simple), Ints, Simple,
                   e, 64, TRUE)) :
     s \in {Argv, Fn(2)}, v \in {w \in Vectors : \A k \in 1 .. 12 : ~IsFunction(w[k])},
     e \in DOMAIN CopiesInto \cup DOMAIN StoresInto}
=============================================================================
