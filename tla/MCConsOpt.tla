----------------------------- MODULE MCConsOpt -----------------------------
(* Small programs as the constraint generator numbers them: variables,      *)
(* objects with fields and a function in the order they are met.            *)
EXTENDS ConsOptProperties

p_i2p == 2
p == 3
f == 4  ret == 5  arg == 6      \* a function with one parameter
q == 7  a == 8
x == 9                          \* an object of two fields
b == 11
y == 12
c == 13  d == 14  fp == 15  fp2 == 16  e == 17  u == 18  v == 19  w == 20

MC_Node == 0 .. 23              \* three of them for temporaries
MC_OldSz == [m \in 0 .. 20 |-> CASE m = f -> 3 [] m = x -> 2
                                 [] m \in {i2p, ret, arg, x + 1, y} -> 1
                                 [] OTHER -> 0]

(* The same objects in front.                                               *)
MC_ObjSz == [m \in MC_Node |-> CASE m = 3 -> 3 [] m = 6 -> 2
                                 [] m \in {i2p, 4, 5, 7, 8} -> 1
                                 [] OTHER -> 0]
MC_FuncNode == {3}
MC_ExtEffect == [m \in {} |-> 0]

Mk(t, dest, src, k) == [type |-> t, dest |-> dest, src |-> src, off |-> k]
Call(C, s) == <<C, s>>

Fixed == <<Mk("addr_of", p_i2p, i2p, 0), Mk("addr_of", p, x, 0), Mk("copy", ret, arg, 0)>>

WithSome(fixed, groups) ==
  {fixed \o FlattenSeq([i \in DOMAIN groups |-> IF i \in I THEN groups[i] ELSE <<>>]) :
     I \in SUBSET (DOMAIN groups)}

(* Cycles through dereferences, phis of several variables, a field.         *)
Groups ==
  <<<<Mk("addr_of", q, y, 0)>>,
    <<Mk("load", a, p, 0)>>, <<Mk("store", p, a, 0)>>,
    <<Mk("copy", b, a, 0)>>, <<Mk("copy", b, q, 0)>>,
    <<Mk("load", c, b, 0), Mk("store", b, c, 0)>>,
    <<Mk("gep", d, p, 1), Mk("store", d, q, 0)>>,
    <<Mk("store", q, c, 0), Mk("store", q, b, 0)>>>>

MC_Cycles == {[cons |-> l, icall |-> {}, min_del |-> 2] : l \in WithSome(Fixed, Groups)}

(* e and u, and fp and fp2, are found equivalent by HRU only, so that c and *)
(* v are in a cycle through *e and *fp when all variables are labelled; c   *)
(* and v may have offline cycles of their own, with nodes before and after  *)
(* them.                                                                    *)
Late == <<Mk("addr_of", q, y, 0), Mk("gep", d, p, 1),
          Mk("copy", e, p, 0), Mk("copy", e, q, 0),
          Mk("copy", u, e, 0), Mk("copy", u, q, 0),
          Mk("copy", fp, p, 0), Mk("copy", fp, d, 0),
          Mk("copy", fp2, fp, 0), Mk("copy", fp2, d, 0)>>

LateGroups ==
  <<<<Mk("load", c, e, 0), Mk("store", u, v, 0)>>,
    <<Mk("load", v, fp, 0), Mk("store", fp2, c, 0)>>,
    <<Mk("load", a, c, 0), Mk("store", c, a, 0)>>,
    <<Mk("load", b, v, 0), Mk("store", v, b, 0)>>,
    <<Mk("load", w, v, 0), Mk("store", v, w, 0)>>,
    <<Mk("store", p, q, 0)>>, <<Mk("store", q, p, 0)>>>>

MC_Late == {[cons |-> l, icall |-> {}, min_del |-> 1000] :
              l \in WithSome(Fixed \o Late, LateGroups)}

(* Fewer of them, when hr goes on for another round.                        *)
MC_Rounds == {[cons |-> l, icall |-> {}, min_del |-> 2] :
                l \in WithSome(Fixed \o Late, SubSeq(LateGroups, 1, 3))}

(* Two calls through pointers that may be found equivalent, with a result   *)
(* and an argument each.                                                    *)
Callers1 == <<Mk("load", u, fp, 1), Mk("store", fp, p, 2)>>
Callers2 == <<Mk("load", v, fp2, 1), Mk("store", fp2, a, 2)>>
Sites == {Call(Callers1[1], "s1"), Call(Callers1[2], "s1"),
          Call(Callers2[1], "s2"), Call(Callers2[2], "s2")}

CallGroups ==
  <<<<Mk("addr_of", fp, f, 0)>>, <<Mk("copy", fp2, fp, 0)>>, <<Mk("load", fp2, q, 0)>>,
    <<Mk("addr_of", q, y, 0), Mk("store", q, fp, 0)>>,
    <<Mk("addr_of", a, y, 0)>>, <<Mk("copy", d, u, 0), Mk("load", e, d, 0)>>,
    <<Mk("copy", d, v, 0)>>>>

MC_Calls == {[cons |-> l, icall |-> {s \in Sites : s[1] \in Range(l)}, min_del |-> 1000] :
               l \in {k \in WithSome(Fixed \o Callers1 \o Callers2, CallGroups) :
                        ~({CallGroups[2][1], CallGroups[3][1]} \subseteq Range(k))}}

MC_Inputs == MC_Cycles \cup MC_Late \cup MC_Rounds \cup MC_Calls
=============================================================================
