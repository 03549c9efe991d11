---------------------------- MODULE MCSolverCalls ----------------------------
(***************************************************************************)
(* Solver on systems with a two-field object and indirect calls of f, with *)
(* a non-pointer and a pointer parameter, and of an external function like *)
(* realloc.  The call instructions are r = fp(a, a) at c1, t = gp(0, a) at *)
(* c2 and fp(a, a) without a result at c3.                                 *)
(***************************************************************************)
EXTENDS SolverProperties, MCSystems

CONSTANTS c1, c2, c3

s0 == 3  s1 == 4
f == 5  f_ret == 6  f_int == 7  f_ptr == 8
ext == 9  heap == 10  m == 11  cell == 12
vf == 13  gp == 14  a == 15  h == 16  l == 17
fp == 18  r == 19  t == 20  u == 21  k == 22  kp == 23

MC_Node == 0 .. 23
MC_ObjSz ==
  [v \in 0 .. 23 |->
     CASE v = f -> 4
       [] v = s0 -> 2
       [] v \in {i2p, s1, f_ret, f_int, f_ptr, ext, heap, m, cell} -> 1
       [] OTHER -> 0]

MC_FuncNode == {f, ext}
MC_ExtNode == {ext}
MC_NonPtrVal == {f_int}

(* At c1 the external function returns its argument; at c2, called with a  *)
(* null pointer, it returns a new object; at c3 there is no result.        *)
MC_ExtEffect ==
  [fi \in {ext} \X {c1, c2, c3} |->
     CASE fi[2] = c1 -> [kind |-> "copy", dest |-> r, src |-> a]
       [] fi[2] = c2 -> [kind |-> "point", dest |-> t, src |-> heap]
       [] fi[2] = c3 -> [kind |-> "none", dest |-> 0, src |-> 0]]

Arg0 == Mk("store", fp, a, 2)
Arg1 == Mk("store", fp, a, 3)
Ret1 == Mk("load", r, fp, 1)
Arg2 == Mk("store", gp, a, 3)
Ret2 == Mk("load", t, gp, 1)

Calls == {<<Arg0, c1>>, <<Arg0, c3>>, <<Arg1, c1>>, <<Arg1, c3>>, <<Ret1, c1>>,
          <<Arg2, c2>>, <<Ret2, c2>>}

Short == <<Mk("addr_of", vf, f, 0), Mk("addr_of", a, s0, 0), Arg1>>

(* The calls when no result of fp(a, a) is used.                           *)
Unused == {call \in Calls : call[2] # c1}

(* The parameter is returned.                                              *)
Body == Short \o <<Mk("copy", f_ret, f_ptr, 0), Arg0, Ret1>>

(* A call through another pointer, and a field of the first result.        *)
Second == <<Arg2, Ret2>>
Field == <<Mk("gep", u, r, 1)>>

(* fp is f or the external function                                        *)
Plain == <<Mk("addr_of", gp, ext, 0), Mk("copy", fp, vf, 0), Mk("copy", fp, gp, 0)>>

(* or what gp reads from a heap object fp is stored in, so that the two    *)
(* are in a copy cycle,                                                    *)
Cycle ==
  <<Mk("addr_of", h, m, 0), Mk("store", h, fp, 0), Mk("addr_of", l, cell, 0),
    Mk("store", l, h, 0), Mk("load", k, l, 0), Mk("load", gp, k, 0),
    Mk("addr_of", kp, ext, 0), Mk("copy", fp, vf, 0), Mk("copy", fp, gp, 0)>>

(* which another function may enter.                                       *)
Entered == Cycle \o <<Mk("copy", fp, kp, 0)>>

MC_Inputs ==
  UNION {Systems(Lists(Body \o Plain, <<Second, Field>>), Calls, {}),
         Systems(Lists(Body \o Cycle, <<Second>>), Calls, {}),
         Systems(Lists(Short \o Entered, <<Second>>), Unused, {}),
         Systems(Lists(Short \o <<Ret1>> \o Entered, <<>>), Calls, {})}
=============================================================================
