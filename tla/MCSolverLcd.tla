----------------------------- MODULE MCSolverLcd -----------------------------
(***************************************************************************)
(* Solver on systems whose copy cycles run through an object and only      *)
(* appear online: lazy cycle detection, merges inside it, HCD variables    *)
(* of merged nodes.                                                        *)
(***************************************************************************)
EXTENDS SolverProperties, MCSystems

x == 3  y == 4
p == 5  r == 6
q == 7  a == 8  b == 9  c == 10  d == 11  e == 12

MC_Node == 0 .. 12
MC_ObjSz == [v \in 0 .. 12 |-> IF v \in {i2p, x, y} THEN 1 ELSE 0]
MC_ExtEffect == [v \in {} |-> 0]

(* y holds the address of x, so that q points to x and there is a path     *)
(* a -> x -> b.                                                            *)
Fixed ==
  <<Mk("addr_of", p, x, 0), Mk("addr_of", r, y, 0),
    Mk("store", r, p, 0), Mk("load", q, r, 0),
    Mk("store", p, a, 0), Mk("load", b, q, 0), Mk("copy", a, r, 0)>>

(* Ways back from b to a, and HCD variables: d of b, e of c.               *)
Optional ==
  <<<<Mk("copy", a, b, 0)>>,
    <<Mk("copy", c, b, 0), Mk("copy", c, p, 0)>>,
    <<Mk("copy", a, c, 0)>>,
    <<Mk("store", b, d, 0), Mk("load", d, b, 0)>>,
    <<Mk("store", c, e, 0), Mk("load", e, c, 0)>>>>

MC_Inputs == Family(Fixed, Optional)

(* d upstream of the cycle.                                                *)
Upstream == <<Mk("copy", c, d, 0), Mk("copy", d, p, 0)>>

MC_Upstream == Family(Fixed \o Upstream, Optional)
=============================================================================
