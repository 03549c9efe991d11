---------------------------- MODULE MCObjConsId -----------------------------
(* Programs of which one part varies: the struct types, the initializers of *)
(* the globals, or the values an integer is computed from.                  *)
EXTENDS ObjConsId

-----------------------------------------------------------------------------
(* Three structs, each nesting only the ones before it: every choice of     *)
(* elements among scalars, arrays, nested structs and arrays of structs.    *)
ArrayTypes  == {Scalar, Array(Scalar)}
NestedTypes == {Struct("S"), Array(Array(Struct("S")))}

StructFamily ==
  {[S |-> s, T |-> t, U |-> u] :
     s \in {<<Scalar>>, <<Scalar, Scalar>>, <<Array(Scalar), Scalar>>},
     t \in {<<a, b>> : a, b \in ArrayTypes \cup NestedTypes},
     u \in {<<a, b, c>> : a, b \in {Scalar, Struct("T"), Struct("S")},
                          c \in {Scalar, Array(Struct("T"))}}}

(* The same with a struct that has no element.                              *)
EmptyStructs ==
  {[S |-> <<>>, T |-> t, U |-> <<Struct("T")>>] :
     t \in {<<a, b>> : a, b \in ArrayTypes \cup NestedTypes}}

-----------------------------------------------------------------------------
(* Three globals: a struct with two or three fields, a struct or a scalar   *)
(* that may refer back to it, and an external variable; and three GEPs, one *)
(* of them on another GEP.                                                  *)
Null(n)  == [k |-> "null", n |-> n]
Num      == [k |-> "num"]
I2P      == [k |-> "i2p"]
Addr(g)  == [k |-> "addr", of |-> g]
Gep(e)   == [k |-> "gep", of |-> e]
Strct(s) == [k |-> "struct", ops |-> s]
Arr(s)   == [k |-> "array", ops |-> s]

On(g, n) == [base |-> [k |-> "global", of |-> g], off |-> n]
In(e, n) == [base |-> [k |-> "gep", of |-> e], off |-> n]
OfInt    == [base |-> [k |-> "int"], off |-> 0]

(* GEP 1 on the first global, 2 on the second or on GEP 1, 3 on GEP 2 or an *)
(* inttoptr.                                                                *)
Geps == {<<On(1, n), d, e>> : n \in {0, 1}, d \in {On(2, 0), In(1, 1)},
                              e \in {In(2, 0), OfInt}}

Values == {Null(1), Num, I2P, Addr(3), Addr(1), Gep(1), Gep(2), Gep(3)}
Firsts == {Strct(<<c, d>>) : c \in {Arr(<<a, b>>) : a, b \in {Addr(3), Gep(1), Gep(2)}},
                             d \in {I2P, Gep(3)}}
            \cup {Strct(<<c, d>>) : c \in {Strct(<<a, Addr(3)>>) : a \in Values},
                                    d \in {I2P, Gep(3), Arr(<<Num, Addr(2)>>)}}
            \cup {Strct(<<a, Arr(<<b, b>>), c>>) : a, b, c \in {Addr(2), Num, Gep(3)}}
Seconds == {Gep(1), Gep(3), Addr(1)} \cup {Strct(<<Gep(1), Num>>), Strct(<<Null(1), Gep(2)>>)}

(* The type of an initializer, in a program with the structs e.             *)
RECURSIVE TypeOf(_, _)
TypeOf(e, C) ==
  CASE C.k = "struct" -> Struct(CHOOSE s \in DOMAIN e :
                                  e[s] = [n \in DOMAIN C.ops |-> TypeOf(e, C.ops[n])])
    [] C.k = "array"  -> Array(TypeOf(e, C.ops[1]))
    [] OTHER          -> Scalar

(* The structs of the initializers below.                                   *)
GlobalStructs ==
  [Pair   |-> <<Scalar, Scalar>>,         First  |-> <<Array(Scalar), Scalar>>,
   Nested |-> <<Struct("Pair"), Scalar>>, Last   |-> <<Struct("Pair"), Array(Scalar)>>,
   Middle |-> <<Scalar, Array(Scalar), Scalar>>,
   Front  |-> <<Array(Scalar), Scalar, Scalar>>]

(* Those a global of the type T needs.                                      *)
RECURSIVE Needed(_)
Needed(T) ==
  IF IsStruct(T)
  THEN {T.name} \cup UNION {Needed(GlobalStructs[T.name][n]) : n \in DOMAIN GlobalStructs[T.name]}
  ELSE {}

(* The globals whose initializers the GEP e leads into.                     *)
RECURSIVE Leads(_, _), GepsIn(_)
GepsIn(C) == CASE C.k = "gep" -> {C.of}
               [] C.k \in {"struct", "array"} -> UNION {GepsIn(C.ops[n]) : n \in DOMAIN C.ops}
               [] OTHER -> {}
Leads(p, E) ==
  LET F == E \cup {p.gep[e].base.of : e \in {x \in E : p.gep[x].base.k = "gep"}}
             \cup UNION {GepsIn(p.init[p.gep[e].base.of]) :
                           e \in {x \in E : p.gep[x].base.k = "global"}}
  IN  IF F = E THEN {p.gep[e].base.of : e \in {x \in E : p.gep[x].base.k = "global"}}
      ELSE Leads(p, F)

(* No array of a global's initializer has an element that leads back to the *)
(* global.                                                                  *)
RECURSIVE ArrayGeps(_)
ArrayGeps(C) == CASE C.k = "array" -> GepsIn(C)
                  [] C.k = "struct" -> UNION {ArrayGeps(C.ops[n]) : n \in DOMAIN C.ops}
                  [] OTHER -> {}
NoArrayCycle(p) == \A g \in {1, 2} : g \notin Leads(p, ArrayGeps(p.init[g]))

Globals3(c, d, geps, used) ==
  [init |-> <<c, d, None>>,
   type |-> <<TypeOf(GlobalStructs, c), TypeOf(GlobalStructs, d), Scalar>>,
   gep |-> geps, used |-> used]

GlobalFamily ==
  {p \in {Globals3(c, d, geps, {1}) : c \in Firsts, d \in Seconds, geps \in Geps} :
     NoArrayCycle(p)}

(* Arrays whose elements lead back, in front of two more fields.            *)
ArrayGlobals ==
  {Globals3(Strct(<<Arr(<<Gep(1), Addr(3)>>), Addr(2), Addr(3)>>), Num, geps, {}) : geps \in Geps}

(* A nested struct of two fields that is null.                              *)
NullGlobals ==
  {[Globals3(Strct(<<Null(2), Addr(3)>>), Addr(1), geps, {}) EXCEPT !.type[1] = Struct("Nested")]
     : geps \in Geps}

(* Instructions use the GEPs on GEPs.                                       *)
UsedGeps == {Globals3(Strct(<<Num, Num>>), Num, geps, {1, 2, 3}) : geps \in Geps}

-----------------------------------------------------------------------------
(* Three integers, an untraceable value and two pointers.  As in SSA form,  *)
(* every cycle goes through a phi.                                          *)
Ints  == 1 .. 3
Const == 4
Ptrs  == {5, 6}

Value(op, args) == [op |-> op, args |-> args]

Sources == (Const :> Value("unknown", <<>>)) @@ (5 :> Value("pointer", <<>>))
          @@ (6 :> Value("pointer", <<>>))

Casts   == {Value("cast", <<a>>) : a \in Ints \cup {Const, 5}}
Ariths  == {Value("arith", <<a, b>>) : a \in Ints, b \in Ints \cup {Const}}
Phis    == {Value("phi", <<a, b>>) : a \in Ints \cup {Const}, b \in Ints \cup {5}}
Selects == {Value("select", <<Const, a, b>>) : a, b \in Ints}
Others  == Casts \cup Ariths

(* A value that is no phi is computed from later ones in 1 .. 3 and phis.   *)
Ordered(g) ==
  \A v \in Ints : g[v].op # "phi" =>
    \A n \in DOMAIN g[v].args :
      g[v].args[n] > v \/ g[g[v].args[n]].op = "phi"

Of(V1, V) == {g \in {<<v, w, x>> @@ Sources : v \in V1, w, x \in V} : Ordered(g)}

GraphFamily  == Of(Others \cup Phis, Others \cup Phis)
SelectGraphs == Of(Selects, {Value("cast", <<a>>) : a \in {Const, 5, 6}})

-----------------------------------------------------------------------------
Program(e, p, g) == [elements |-> e, globals |-> p, graph |-> g]

NoStructs == <<>>
OneGlobal == [init |-> <<None>>, type |-> <<Scalar>>, gep |-> <<>>, used |-> {}]
OneValue  == Root :> Value("unknown", <<>>)

OfStructs(E) == {Program(e, OneGlobal, OneValue) : e \in E}
OfGlobals(P) ==
  {Program([s \in UNION {Needed(p.type[n]) : n \in DOMAIN p.type} |-> GlobalStructs[s]],
           p, OneValue) : p \in P}
OfGraphs(G)  == {Program(NoStructs, OneGlobal, g) : g \in G}

MCPrograms == OfStructs(StructFamily) \cup OfGlobals(GlobalFamily) \cup OfGraphs(GraphFamily)

(* Programs the code treats otherwise than its comments say.                *)
EmptyPrograms  == OfStructs(EmptyStructs)
ArrayPrograms  == OfGlobals(ArrayGlobals)
NullPrograms   == OfGlobals(NullGlobals)
UsePrograms    == OfGlobals(UsedGeps)
SelectPrograms == OfGraphs(SelectGraphs)
=============================================================================
