---------------------------- MODULE PtsInitProofs ----------------------------
(***************************************************************************)
(* The tables of pts_init are exact for every layout of objects and every  *)
(* set of offsets: TypeOK and TablesExact, by the invariant IInv.          *)
(***************************************************************************)
EXTENDS PtsInit, TLAPS

(* Adding the objects entered under the largest remaining offset to those  *)
(* with a field at a larger one gives the objects with a field there.      *)
LEMMA MaskExact ==
  ASSUME IInv, pc = "geps", NEW off \in todo, \A k \in todo : k <= off,
         off \in DOMAIN off_nodes
  PROVE  Mask(off) = HasField(off)
<1>1. Input(d) /\ off \in d.valid_off /\ off \in Nat \ {0}
  BY DEF IInv, TypeOK, Input
<1>2. \A x \in Obj : d.obj_sz[x] \in Nat
  BY <1>1 DEF Input, Obj
<1>3. off_nodes[off] = {x \in Obj : Largest(off, d.obj_sz[x])}
  BY <1>1 DEF IInv
<1>4. om = {x \in Obj : \E k \in d.valid_off \ todo : k < d.obj_sz[x]}
  BY DEF IInv
<1>5. \A k \in d.valid_off \ todo : off < k
  BY DEF IInv
<1>6. d.valid_off \subseteq Nat
  BY <1>1 DEF Input
<1>7. ASSUME NEW x \in Obj, off < d.obj_sz[x]
      PROVE  x \in Mask(off)
  <2>1. CASE \E k \in d.valid_off \ todo : k < d.obj_sz[x]
    BY <2>1, <1>4 DEF Mask
  <2>2. CASE ~ \E k \in d.valid_off \ todo : k < d.obj_sz[x]
    <3>1. \A k \in d.valid_off : k < d.obj_sz[x] => k <= off
      BY <2>2
    <3>2. Largest(off, d.obj_sz[x])
      BY <3>1, <1>1, <1>7 DEF Largest
    <3> QED BY <3>2, <1>3 DEF Mask
  <2> QED BY <2>1, <2>2
<1>8. ASSUME NEW x \in Mask(off)
      PROVE  x \in Obj /\ off < d.obj_sz[x]
  <2>1. CASE x \in om
    <3>1. x \in Obj /\ \E k \in d.valid_off \ todo : k < d.obj_sz[x]
      BY <2>1, <1>4
    <3>2. PICK k \in d.valid_off \ todo : k < d.obj_sz[x]
      BY <3>1
    <3> QED BY <3>1, <3>2, <1>5, <1>1, <1>2, <1>6
  <2>2. CASE x \in off_nodes[off]
    BY <2>2, <1>3 DEF Largest
  <2> QED BY <1>8, <2>1, <2>2 DEF Mask
<1> QED BY <1>7, <1>8 DEF HasField

(* Inside an object the adder does not wrap around.                        *)
LEMMA AdderExact ==
  ASSUME Input(d), d \in Inputs, NEW off \in d.valid_off
  PROVE  Adder(off, HasField(off)) = {<<x, x + off>> : x \in HasField(off)}
<1>1. off \in Nat /\ d.npts \in Nat /\ DomainSize(d.npts) \in Nat
      /\ d.npts <= DomainSize(d.npts)
  BY DomainAssumption DEF Input
<1>2. ASSUME NEW x \in HasField(off)
      PROVE  (x + off) % DomainSize(d.npts) = x + off
  <2>1. /\ x \in 0 .. (d.npts - 1) /\ d.obj_sz[x] \in Nat
        /\ off < d.obj_sz[x] /\ x + d.obj_sz[x] <= d.npts
    BY DEF HasField, Obj, Input
  <2>2. x + off \in 0 .. (DomainSize(d.npts) - 1)
    BY <1>1, <2>1
  <2> QED BY <1>1, <2>2
<1> QED BY <1>2 DEF Adder

LEMMA InputFacts ==
  ASSUME Input(d)
  PROVE  /\ d.npts \in Nat \ {0} /\ Obj \subseteq Nat
         /\ \A x \in Obj : d.obj_sz[x] \in Nat /\ x + d.obj_sz[x] <= d.npts
         /\ d.valid_off \subseteq Nat \ {0}
BY DEF Input, Obj

LEMMA InitInv == Init => IInv
<1> SUFFICES ASSUME Init PROVE IInv
  OBVIOUS
<1>1. Input(d) /\ d \in Inputs
  BY InputsAssumption DEF Init
<1>2. TypeOK
  BY <1>1 DEF Init, TypeOK, Input
<1> QED BY <1>2 DEF Init, IInv, Obj

(* An offset below the size of an object is below every larger size.        *)
LEMMA InRange ==
  ASSUME NEW s \in Nat, NEW m \in Nat, s <= m, NEW k \in 0 .. (s - 1)
  PROVE  k \in 0 .. (m - 1)
  OBVIOUS

LEMMA RecordSizeInv == IInv /\ RecordSize => IInv'
<1> SUFFICES ASSUME IInv, RecordSize PROVE IInv'
  OBVIOUS
<1> USE DEF RecordSize
<1>1. /\ Input(d) /\ d \in Inputs /\ i \in Obj /\ i \in Nat /\ d.obj_sz[i] \in Nat
      /\ max_sz \in Nat /\ i + 1 \in 0 .. d.npts
      /\ off_nodes \in [0 .. (max_sz - 1) -> SUBSET Obj]
  <2>1. /\ Input(d) /\ d \in Inputs /\ i \in 0 .. d.npts /\ max_sz \in Nat
        /\ off_nodes \in [0 .. (max_sz - 1) -> SUBSET Obj]
    BY DEF IInv, TypeOK
  <2>2. d.npts \in Nat
    BY <2>1, InputFacts
  <2>3. i \in Obj /\ i + 1 \in 0 .. d.npts
    BY <2>1, <2>2 DEF Obj
  <2> QED BY <2>1, <2>3, InputFacts
<1>2. Obj' = Obj /\ \A x \in Obj : x \in Nat /\ d.obj_sz[x] \in Nat
  <2>1. Obj' = Obj
    BY DEF Obj
  <2> QED BY <1>1, <2>1, InputFacts
<1>3. \A k \in DOMAIN off_nodes : off_nodes[k] =
        {x \in Obj : x < i /\ k # 0 /\ Largest(k, d.obj_sz[x])}
  BY DEF IInv
<1>4. \A k, n : Largest(k, n)' = Largest(k, n)
  BY DEF Largest
<1>5. \A x \in Obj : x < i /\ d.obj_sz[x] >= 2 => d.obj_sz[x] <= max_sz
  BY DEF IInv
<1>6. \A x \in Obj : x < i + 1 <=> x < i \/ x = i
  BY <1>1, <1>2
<1>10. CASE d.obj_sz[i] < 2
  <2>1. UNCHANGED <<max_sz, off_nodes>>
    BY <1>10
  <2>2. \A k \in DOMAIN off_nodes : k # 0 => ~ Largest(k, d.obj_sz[i])
    BY <1>10, <1>1 DEF Largest
  <2>3. TypeOK'
    BY <1>1, <1>2, <2>1 DEF IInv, TypeOK, Input
  <2>4. \A k \in DOMAIN off_nodes' : off_nodes'[k] =
          {x \in Obj : x < i' /\ k # 0 /\ Largest(k, d.obj_sz[x])}
    BY <1>3, <1>6, <2>1, <2>2
  <2>5. \A x \in Obj : x < i' /\ d.obj_sz[x] >= 2 => d.obj_sz[x] <= max_sz'
    BY <1>1, <1>5, <1>6, <1>10, <2>1
  <2> QED BY <1>2, <1>4, <2>3, <2>4, <2>5 DEF IInv
<1>11. CASE d.obj_sz[i] >= 2
  <2> DEFINE sz == d.obj_sz[i]
             v == IF max_sz < sz THEN Resized(off_nodes, sz) ELSE off_nodes
  <2>1. /\ max_sz' = IF max_sz < sz THEN sz ELSE max_sz
        /\ \E off \in 0 .. (sz - 1) :
             /\ Largest(off, sz)
             /\ off_nodes' = IF off = 0 THEN v ELSE [v EXCEPT ![off] = @ \cup {i}]
    BY <1>1, <1>11
  <2>2. max_sz' \in Nat /\ sz <= max_sz' /\ max_sz <= max_sz'
    BY <1>1, <2>1
  <2>3. PICK off \in 0 .. (sz - 1) :
             /\ Largest(off, sz)
             /\ off_nodes' = IF off = 0 THEN v ELSE [v EXCEPT ![off] = @ \cup {i}]
    BY <2>1
  <2>4. v \in [0 .. (max_sz' - 1) -> SUBSET Obj]
    <3>1. CASE max_sz < sz
      BY <3>1, <1>1, <2>1 DEF Resized
    <3>2. CASE ~ (max_sz < sz)
      BY <3>2, <1>1, <2>1
    <3> QED BY <3>1, <3>2
  <2>5. off \in DOMAIN v
    <3>1. off \in 0 .. (max_sz' - 1)
      <4>1. sz \in Nat
        BY <1>1
      <4> QED BY <4>1, <2>2, InRange
    <3> QED BY <3>1, <2>4
  <2>6. off_nodes' \in [0 .. (max_sz' - 1) -> SUBSET Obj]
    BY <1>1, <2>3, <2>4
  <2>7. TypeOK'
    BY <1>1, <1>2, <2>2, <2>6 DEF IInv, TypeOK, Input
  <2>8. \A k \in DOMAIN v : v[k] = {x \in Obj : x < i /\ k # 0 /\ Largest(k, d.obj_sz[x])}
    <3> SUFFICES ASSUME NEW k \in DOMAIN v
                 PROVE  v[k] = {x \in Obj : x < i /\ k # 0 /\ Largest(k, d.obj_sz[x])}
      OBVIOUS
    <3>1. CASE k \in DOMAIN off_nodes
      BY <3>1, <1>3, <1>1, <2>4 DEF Resized
    <3>2. CASE k \notin DOMAIN off_nodes
      <4>1. max_sz < sz /\ v[k] = {} /\ k \in Nat /\ k >= max_sz
        BY <3>2, <1>1, <2>1, <2>4 DEF Resized
      <4>2. ASSUME NEW x \in Obj, x < i, k # 0, Largest(k, d.obj_sz[x]) PROVE FALSE
        <5>1. k < d.obj_sz[x] /\ d.obj_sz[x] \in Nat
          BY <4>2, <1>2 DEF Largest
        <5>2. d.obj_sz[x] >= 2
          BY <5>1, <4>1, <4>2
        <5>3. d.obj_sz[x] <= max_sz
          BY <5>2, <4>2, <1>5
        <5> QED BY <5>1, <5>3, <4>1, <1>1
      <4> QED BY <4>1, <4>2
    <3> QED BY <3>1, <3>2
  <2>9. \A k \in d.valid_off \cup {0} : Largest(k, sz) => k = off
    BY <2>3, <1>1 DEF Largest, Input
  <2>10. \A k \in DOMAIN off_nodes' : off_nodes'[k] =
           {x \in Obj : x < i' /\ k # 0 /\ Largest(k, d.obj_sz[x])}
    <3> SUFFICES ASSUME NEW k \in DOMAIN v
                 PROVE  off_nodes'[k] = {x \in Obj : x < i' /\ k # 0 /\ Largest(k, d.obj_sz[x])}
      BY <2>4, <2>6
    <3>1. CASE k = off /\ off # 0
      <4>1. off_nodes'[k] = v[k] \cup {i}
        BY <3>1, <2>3, <2>5
      <4>2. v[k] = {x \in Obj : x < i /\ k # 0 /\ Largest(k, d.obj_sz[x])}
        BY <2>8
      <4>3. k # 0 /\ Largest(k, d.obj_sz[i])
        BY <3>1, <2>3
      <4> QED BY <4>1, <4>2, <4>3, <1>1, <1>6
    <3>2. CASE ~ (k = off /\ off # 0)
      <4>1. off_nodes'[k] = v[k]
        BY <3>2, <2>3, <2>4
      <4>2. k # 0 => ~ Largest(k, sz)
        BY <3>2, <2>9, <2>3 DEF Largest
      <4>3. v[k] = {x \in Obj : x < i /\ k # 0 /\ Largest(k, d.obj_sz[x])}
        BY <2>8
      <4> QED BY <4>1, <4>2, <4>3, <1>1, <1>6
    <3> QED BY <3>1, <3>2
  <2>11. \A x \in Obj : x < i' /\ d.obj_sz[x] >= 2 => d.obj_sz[x] <= max_sz'
    <3> SUFFICES ASSUME NEW x \in Obj, x < i', d.obj_sz[x] >= 2
                 PROVE  d.obj_sz[x] <= max_sz'
      OBVIOUS
    <3>1. CASE x < i
      <4>1. d.obj_sz[x] <= max_sz /\ d.obj_sz[x] \in Nat
        BY <3>1, <1>2, <1>5
      <4>2. max_sz <= max_sz' /\ max_sz \in Nat /\ max_sz' \in Nat
        BY <2>2, <1>1
      <4> QED BY ONLY <4>1, <4>2
    <3>2. CASE x = i
      BY <3>2, <2>2
    <3> QED BY <3>1, <3>2, <1>6
  <2> QED BY <1>2, <1>4, <2>7, <2>10, <2>11 DEF IInv
<1> QED BY <1>1, <1>10, <1>11

LEMMA SizesDoneInv == IInv /\ SizesDone => IInv'
<1> SUFFICES ASSUME IInv, SizesDone PROVE IInv'
  OBVIOUS
<1> USE DEF SizesDone
<1>1. \A x \in Obj : x < i
  BY DEF IInv, TypeOK, Input, Obj
<1>2. Obj' = Obj /\ \A k, n : Largest(k, n)' = Largest(k, n)
  BY DEF Obj, Largest
<1>3. TypeOK'
  BY DEF IInv, TypeOK, Input, Obj
<1>4. om' = {} /\ d.valid_off \ todo = {}
  BY DEF IInv
<1> QED BY <1>1, <1>2, <1>3, <1>4 DEF IInv

LEMMA MakeGepInv == ASSUME IInv, NEW off \in todo, MakeGep(off) PROVE IInv'
<1> USE DEF MakeGep
<1>1. /\ Input(d) /\ d \in Inputs /\ off \in d.valid_off /\ off \in Nat
      /\ d.valid_off \subseteq Nat /\ todo \subseteq d.valid_off
  BY DEF IInv, TypeOK, Input
<1>2. Obj' = Obj /\ \A k, n : Largest(k, n)' = Largest(k, n)
  BY DEF Obj, Largest
<1>3. \A k : HasField(k)' = HasField(k)
  BY <1>2 DEF HasField
<1>10. CASE off \in DOMAIN off_nodes
  <2>1. Mask(off) = HasField(off)
    BY <1>10, MaskExact
  <2>2. d.valid_off \ todo' = (d.valid_off \ todo) \cup {off}
    BY <1>1
  <2>3. \A k \in todo' : k < off
    BY <1>1
  <2>4. \A k \in d.valid_off \ todo : off < k
    BY DEF IInv
  <2>5. om' = HasField(off)
    BY <1>10, <2>1
  <2>6. TypeOK'
    BY <1>1, <1>10, <2>5 DEF IInv, TypeOK, HasField, Obj
  <2>7. om' = {x \in Obj : \E k \in d.valid_off \ todo' : k < d.obj_sz[x]}
    <3>1. \A x \in Obj : d.obj_sz[x] \in Nat
      BY <1>1 DEF Input, Obj
    <3>2. ASSUME NEW x \in Obj, NEW k \in d.valid_off \ todo', k < d.obj_sz[x]
          PROVE  off < d.obj_sz[x]
      BY <3>1, <3>2, <2>2, <2>4, <1>1
    <3> QED BY <3>2, <2>2, <2>5 DEF HasField
  <2>8. \A k \in d.valid_off \ todo' : \A j \in todo' : j < k
    BY <2>2, <2>3 DEF IInv
  <2>9. /\ DOMAIN geps = 0 .. (max_sz - 1) /\ DOMAIN off_mask = 0 .. (max_sz - 1)
        /\ DOMAIN off_nodes = 0 .. (max_sz - 1)
    BY DEF IInv, TypeOK
  <2>10. \A k \in d.valid_off \ todo' :
           /\ k < max_sz
           /\ off_mask'[k] = HasField(k)
           /\ geps'[k] = {<<x, x + k>> : x \in HasField(k)}
    <3> SUFFICES ASSUME NEW k \in d.valid_off \ todo'
                 PROVE  /\ k < max_sz
                        /\ off_mask'[k] = HasField(k)
                        /\ geps'[k] = {<<x, x + k>> : x \in HasField(k)}
      OBVIOUS
    <3>1. CASE k = off
      <4>1. off_mask'[k] = HasField(k)
        BY <3>1, <1>10, <2>1, <2>9
      <4>2. geps'[k] = Adder(k, HasField(k))
        BY <3>1, <1>10, <2>1, <2>9
      <4>3. max_sz \in Nat /\ off < max_sz
        BY <1>10, <2>9, <1>1 DEF IInv, TypeOK
      <4> QED BY <3>1, <4>1, <4>2, <4>3, <1>1, AdderExact
    <3>2. CASE k # off
      <4>1. off_mask'[k] = off_mask[k] /\ geps'[k] = geps[k]
        <5>1. k \in DOMAIN geps /\ k \in DOMAIN off_mask
          <6>1. k \in d.valid_off \ todo /\ k \in Nat /\ max_sz \in Nat
            BY <3>2, <2>2, <1>1 DEF IInv, TypeOK
          <6>2. k < max_sz
            BY <6>1 DEF IInv
          <6> QED BY <6>1, <6>2, <2>9, InputFacts, <1>1
        <5> QED BY <3>2, <1>10, <5>1
      <4> QED BY <3>2, <4>1, <2>2 DEF IInv
    <3> QED BY <3>1, <3>2
  <2>11. DOMAIN geps' = 0 .. (max_sz' - 1) /\ DOMAIN off_mask' = 0 .. (max_sz' - 1)
    BY <1>10, <2>9
  <2>12. /\ pc' = "geps" /\ UNCHANGED <<d, i, max_sz, off_nodes>>
    BY <1>10
  <2> QED BY <1>2, <1>3, <2>6, <2>7, <2>8, <2>10, <2>11, <2>12 DEF IInv
<1>11. CASE off \notin DOMAIN off_nodes
  <2>1. pc' = "undefined" /\ UNCHANGED <<d, i, max_sz, off_nodes, om>> /\ pc = "geps"
    BY <1>11
  <2>2. TypeOK'
    BY <1>1, <2>1 DEF IInv, TypeOK, Input, Obj
  <2> QED BY <1>2, <2>1, <2>2 DEF IInv
<1> QED BY <1>10, <1>11

LEMMA GepsDoneInv == IInv /\ GepsDone => IInv'
<1> SUFFICES ASSUME IInv, GepsDone PROVE IInv'
  OBVIOUS
<1> USE DEF GepsDone
<1>1. Obj' = Obj /\ \A k, n : Largest(k, n)' = Largest(k, n)
  BY DEF Obj, Largest
<1>2. \A k : HasField(k)' = HasField(k)
  BY <1>1 DEF HasField
<1>3. TypeOK'
  BY DEF IInv, TypeOK, Input, Obj
<1> QED BY <1>1, <1>2, <1>3 DEF IInv

(* The loop over functions leaves the tables alone.                        *)
LEMMA FuncsInv == IInv /\ (RecordFunc \/ FuncsDone) => IInv'
<1> SUFFICES ASSUME IInv, RecordFunc \/ FuncsDone PROVE IInv'
  OBVIOUS
<1>1. /\ pc = "funcs" /\ pc' \in {"funcs", "done", "abort"}
      /\ i' \in 0 .. d.npts
      /\ UNCHANGED <<d, max_sz, off_nodes, todo, om, geps, off_mask>>
  <2>1. CASE RecordFunc
    <3>1. i \in 0 .. d.npts /\ d.npts \in Nat /\ i < d.npts
      BY <2>1, InputFacts DEF RecordFunc, IInv, TypeOK
    <3>2. i' \in 0 .. d.npts
      BY <2>1, <3>1 DEF RecordFunc
    <3>3. pc' \in {pc, "abort"}
      BY <2>1 DEF RecordFunc
    <3> QED BY <2>1, <3>2, <3>3 DEF RecordFunc
  <2>2. CASE FuncsDone
    BY <2>2 DEF FuncsDone, IInv, TypeOK
  <2> QED BY <2>1, <2>2
<1>2. Obj' = Obj /\ \A k, n : Largest(k, n)' = Largest(k, n)
  BY <1>1 DEF Obj, Largest
<1>3. \A k : HasField(k)' = HasField(k)
  BY <1>1, <1>2 DEF HasField
<1>4. TypeOK'
  BY <1>1 DEF IInv, TypeOK, Input, Obj
<1> QED BY <1>1, <1>2, <1>3, <1>4 DEF IInv

LEMMA StutterInv == IInv /\ UNCHANGED vars => IInv'
<1> SUFFICES ASSUME IInv, UNCHANGED vars PROVE IInv'
  OBVIOUS
<1> USE DEF vars
<1>1. Obj' = Obj /\ \A k, n : Largest(k, n)' = Largest(k, n)
  BY DEF Obj, Largest
<1>2. \A k : HasField(k)' = HasField(k)
  BY <1>1 DEF HasField
<1>3. TypeOK'
  BY <1>1 DEF IInv, TypeOK, Input
<1> QED BY <1>1, <1>2, <1>3 DEF IInv

(* IInv holds in every reachable state, for every input.                   *)
THEOREM TablesInductive == Spec => []IInv
<1>1. IInv /\ [Next]_vars => IInv'
  BY RecordSizeInv, SizesDoneInv, MakeGepInv, GepsDoneInv, FuncsInv, StutterInv
     DEF Next
<1> QED BY <1>1, InitInv, PTL DEF Spec

(* The masks and relations of pts_init are exact for every offset in use,  *)
(* whatever the objects: the solver's Fits and Shift are what it computes. *)
THEOREM TablesCorrect == Spec => []TablesExact
<1>1. IInv => TablesExact
  BY DEF IInv, TablesExact
<1> QED BY <1>1, TablesInductive, PTL
=============================================================================
