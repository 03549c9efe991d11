------------------------------ MODULE MCResults ------------------------------
(***************************************************************************)
(* Results on systems whose copy cycles run through an object (see         *)
(* MCSolverLcd), with a second field to ask for and the parameter of an    *)
(* address-taken function, which is an object and a variable.              *)
(***************************************************************************)
EXTENDS ResultsProperties, MCSystems

x == 3  y == 4
f == 6  f_ret == 7  f_arg == 8
vf == 9  p == 10  r == 11
q == 12  a == 13  b == 14  c == 15

MC_Node == 0 .. 15
MC_ObjSz == [v \in 0 .. 15 |-> CASE v \in {i2p, x, y + 1, f_ret, f_arg} -> 1
                                  [] v = y -> 2 [] v = f -> 3 [] OTHER -> 0]
MC_ExtEffect == [v \in {} |-> 0]

Fixed ==
  <<Mk("addr_of", p, x, 0), Mk("addr_of", r, y, 0), Mk("addr_of", vf, f, 0),
    Mk("store", r, p, 0), Mk("load", q, r, 0),
    Mk("store", p, a, 0), Mk("load", b, q, 0), Mk("copy", a, r, 0)>>

Optional ==
  <<<<Mk("copy", a, b, 0)>>,
    <<Mk("copy", c, r, 0), Mk("copy", c, p, 0)>>,
    <<Mk("copy", f_arg, b, 0)>>,
    <<Mk("copy", f_arg, r, 0)>>,
    <<Mk("copy", a, f_arg, 0)>>>>

MC_Inputs == Family(Fixed, Optional)
=============================================================================
