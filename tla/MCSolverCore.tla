---------------------------- MODULE MCSolverCore ----------------------------
(***************************************************************************)
(* Solver on two families of systems of loads, stores and copies over      *)
(* one-field objects x, y and e.                                           *)
(***************************************************************************)
EXTENDS SolverProperties, MCSystems

x == 3  y == 4  e == 5
p == 6  q == 7  r == 8
a == 9  b == 10  c == 11  d == 12
u == 13  v == 14

MC_Node == 0 .. 14
MC_ObjSz == [m \in 0 .. 14 |-> IF m \in {i2p, x, y, e} THEN 1 ELSE 0]
MC_ExtEffect == [m \in {} |-> 0]

(* Hybrid cycle detection, pointees that are not pointers to objects (i2p), *)
(* visits queued again while a node is being worked on, stale entries.      *)
Pointers == <<Mk("addr_of", p, x, 0), Mk("addr_of", q, y, 0),
              Mk("copy", c, p_i2p, 0), Mk("copy", c, p, 0)>>

LoadsAndStores ==
  <<<<Mk("load", a, p, 0)>>, <<Mk("store", p, a, 0)>>, <<Mk("copy", a, q, 0)>>,
    <<Mk("load", b, q, 0)>>, <<Mk("store", q, b, 0)>>, <<Mk("copy", b, p, 0)>>,
    <<Mk("copy", c, q, 0)>>, <<Mk("store", c, q, 0)>>,
    <<Mk("load", d, c, 0)>>, <<Mk("store", a, d, 0)>>>>

MC_Online == Family(Pointers, LoadsAndStores)

(* Two offline cycles, *p with u and *c with v, whose pointers share the    *)
(* pointee x, so that u and v are merged online; and two more, *u with a    *)
(* and *v with b, that this merge connects.  Optional constraints decide    *)
(* where a and b get their pointees and who reads them.                     *)
Addresses == <<Mk("addr_of", p, x, 0), Mk("addr_of", q, y, 0), Mk("addr_of", r, e, 0),
               Mk("copy", c, p, 0), Mk("copy", c, r, 0)>>

Cycles ==
  <<Mk("load", u, p, 0), Mk("store", p, u, 0),
    Mk("load", v, c, 0), Mk("store", c, v, 0),
    Mk("load", b, v, 0), Mk("store", v, b, 0)>>

OtherCycle == <<Mk("load", a, u, 0), Mk("store", u, a, 0)>>

(* u points to y, and so does everything in its class.                      *)
PointingU == <<Mk("copy", u, q, 0)>>

Readers ==
  <<<<Mk("copy", a, q, 0)>>, <<Mk("copy", b, q, 0)>>,
    <<Mk("copy", d, p, 0), Mk("copy", d, a, 0)>>,
    <<Mk("copy", d, r, 0), Mk("copy", d, b, 0)>>>>

(* When the class of u and v has a pointee                                  *)
MC_Pointing ==
  Family(Addresses \o Cycles \o OtherCycle \o PointingU, SubSeq(Readers, 1, 3))

(* and when it has none.                                                    *)
MC_Empty == Family(Addresses \o Cycles \o OtherCycle, Readers)

(* As above with *u in a cycle with u itself, when b stands for more        *)
(* variables merged offline.                                                *)
SelfCycle == <<Mk("load", u, u, 0), Mk("store", u, u, 0)>>

MC_Ranked == Systems(Lists(Addresses \o Cycles \o SelfCycle, Readers), {}, {b})

MC_Inputs == MC_Online \cup MC_Pointing
=============================================================================
