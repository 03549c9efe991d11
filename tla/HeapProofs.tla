----------------------------- MODULE HeapProofs -----------------------------
(***************************************************************************)
(* The heap keeps its order and the positions of its values through every  *)
(* sequence of pushes, changes of keys and pops, for every set of values   *)
(* and keys.                                                               *)
(***************************************************************************)
EXTENDS Heap, TLAPS, WellFoundedInduction

IInv == TypeOK /\ IndexInverse /\ OrderInv

LEMMA Halves ==
  ASSUME NEW p \in Nat, NEW q \in Nat
  PROVE  /\ p \div 2 = q <=> (p = 2 * q \/ p = 2 * q + 1)
         /\ p \div 2 \in Nat
         /\ p >= 1 => p \div 2 < p
         /\ p >= 2 => p \div 2 >= 1
OBVIOUS

(* What an exchange does to the sequences of items.                        *)
LEMMA SwapSeq ==
  ASSUME NEW S, NEW s \in Seq(S), NEW p \in 1 .. Len(s), NEW q \in 1 .. Len(s), p # q
  PROVE  /\ Swapped(s, p, q) \in Seq(S) /\ Len(Swapped(s, p, q)) = Len(s)
         /\ Swapped(s, p, q)[p] = s[q] /\ Swapped(s, p, q)[q] = s[p]
         /\ \A r \in 1 .. Len(s) : r # p /\ r # q => Swapped(s, p, q)[r] = s[r]
BY DEF Swapped

(* An exchange of two items keeps the types and the positions.             *)
LEMMA ExchangeInv ==
  ASSUME TypeOK, IndexInverse, NEW p \in 1 .. nv, NEW q \in 1 .. nv, p # q,
         Exchange(p, q), i' \in 1 .. nv, pc' \in {"up", "down"}
  PROVE  TypeOK' /\ IndexInverse'
<1>1. /\ hk \in Seq(Key) /\ hv \in Seq(Val) /\ Len(hv) = nv /\ nv \in Nat
      /\ idxv \in [Val -> 0 .. nv]
  BY DEF TypeOK, nv
<1>2. /\ hk' \in Seq(Key) /\ Len(hk') = nv
      /\ hv' \in Seq(Val) /\ Len(hv') = nv
      /\ hv'[p] = hv[q] /\ hv'[q] = hv[p]
      /\ \A r \in 1 .. nv : r # p /\ r # q => hv'[r] = hv[r]
  <2>1. hk' = Swapped(hk, p, q) /\ hv' = Swapped(hv, p, q)
    BY DEF Exchange
  <2>2. p \in 1 .. Len(hk) /\ q \in 1 .. Len(hk) /\ p \in 1 .. Len(hv) /\ q \in 1 .. Len(hv)
    BY <1>1 DEF nv
  <2>3. Swapped(hk, p, q) \in Seq(Key) /\ Len(Swapped(hk, p, q)) = Len(hk)
    BY <1>1, <2>2, SwapSeq
  <2>4. /\ Swapped(hv, p, q) \in Seq(Val) /\ Len(Swapped(hv, p, q)) = Len(hv)
        /\ Swapped(hv, p, q)[p] = hv[q] /\ Swapped(hv, p, q)[q] = hv[p]
        /\ \A r \in 1 .. Len(hv) : r # p /\ r # q => Swapped(hv, p, q)[r] = hv[r]
    <3>1. hv \in Seq(Val) /\ p \in 1 .. Len(hv) /\ q \in 1 .. Len(hv)
      BY <1>1, <2>2
    <3> HIDE DEF Swapped
    <3> QED BY ONLY <3>1, p # q, SwapSeq
  <2>5. hk' \in Seq(Key) /\ Len(hk') = nv
    <3>1. hk' = Swapped(hk, p, q)
      BY <2>1
    <3>2. Len(hk) = nv
      BY DEF nv
    <3> QED BY <2>3, <3>1, <3>2
  <2>6. /\ hv' \in Seq(Val) /\ Len(hv') = nv
        /\ hv'[p] = hv[q] /\ hv'[q] = hv[p]
        /\ \A r \in 1 .. nv : r # p /\ r # q => hv'[r] = hv[r]
    BY <1>1, <2>1, <2>4
  <2> QED BY <2>5, <2>6
<1>3. /\ hv[p] \in Val /\ hv[q] \in Val
      /\ idxv[hv[p]] = p /\ idxv[hv[q]] = q /\ hv[p] # hv[q]
  BY <1>1 DEF IndexInverse
<1>4. /\ idxv' \in [Val -> 0 .. nv]
      /\ idxv'[hv[p]] = q /\ idxv'[hv[q]] = p
      /\ \A v \in Val : v # hv[p] /\ v # hv[q] => idxv'[v] = idxv[v]
  BY <1>1, <1>3 DEF Exchange
<1>5. nv' = nv
  BY <1>2 DEF nv
<1>6. TypeOK'
  <2>1. i' \in Nat /\ i' \in 1 .. Len(hk')
    BY <1>1, <1>2, <1>5
  <2>2. idxv' \in [Val -> 0 .. Len(hk')] /\ Len(hv') = Len(hk')
    BY <1>2, <1>4
  <2> QED BY <1>2, <2>1, <2>2 DEF TypeOK
<1>7. \A r \in 1 .. nv : idxv'[hv'[r]] = r
  <2> SUFFICES ASSUME NEW r \in 1 .. nv PROVE idxv'[hv'[r]] = r
    OBVIOUS
  <2>1. CASE r = p \/ r = q
    BY <2>1, <1>2, <1>4
  <2>2. CASE r # p /\ r # q
    <3>1. hv'[r] = hv[r] /\ hv[r] \in Val /\ idxv[hv[r]] = r
      BY <2>2, <1>1, <1>2 DEF IndexInverse
    <3> QED BY <2>2, <3>1, <1>3, <1>4
  <2> QED BY <2>1, <2>2
<1>8. \A v \in Val : idxv'[v] # NONE => hv'[idxv'[v]] = v
  <2> SUFFICES ASSUME NEW v \in Val, idxv'[v] # NONE PROVE hv'[idxv'[v]] = v
    OBVIOUS
  <2>1. CASE v = hv[p] \/ v = hv[q]
    BY <2>1, <1>2, <1>4
  <2>2. CASE v # hv[p] /\ v # hv[q]
    <3>1. idxv'[v] = idxv[v] /\ idxv[v] # NONE /\ hv[idxv[v]] = v
      BY <2>2, <1>4 DEF IndexInverse
    <3>2. idxv[v] \in 1 .. nv /\ idxv[v] # p /\ idxv[v] # q
      BY <3>1, <2>2, <1>1 DEF NONE
    <3> QED BY <3>1, <3>2, <1>2
  <2> QED BY <2>1, <2>2
<1> QED BY <1>5, <1>6, <1>7, <1>8 DEF IndexInverse

(* The keys as numbers, and where they are after an exchange.              *)
LEMMA KeyFacts ==
  ASSUME TypeOK
  PROVE  nv \in Nat /\ \A p \in 1 .. nv : hk[p] \in Nat
<1>1. hk \in Seq(Key) /\ Key \subseteq Nat
  BY ValAssumption DEF TypeOK
<1>2. Len(hk) \in Nat /\ \A p \in 1 .. Len(hk) : hk[p] \in Key
  BY <1>1
<1> QED BY <1>1, <1>2 DEF nv

LEMMA ExchangedKeys ==
  ASSUME TypeOK, NEW p \in 1 .. nv, NEW q \in 1 .. nv, p # q, Exchange(p, q)
  PROVE  /\ nv' = nv /\ hk'[p] = hk[q] /\ hk'[q] = hk[p]
         /\ \A r \in 1 .. nv : r # p /\ r # q => hk'[r] = hk[r]
<1>1. hk \in Seq(Key) /\ p \in 1 .. Len(hk) /\ q \in 1 .. Len(hk)
  BY DEF TypeOK, nv
<1>2. hk' = Swapped(hk, p, q) /\ nv = Len(hk) /\ nv' = Len(hk')
  BY DEF Exchange, nv
<1>3. /\ Len(Swapped(hk, p, q)) = Len(hk)
      /\ Swapped(hk, p, q)[p] = hk[q] /\ Swapped(hk, p, q)[q] = hk[p]
      /\ \A r \in 1 .. Len(hk) : r # p /\ r # q => Swapped(hk, p, q)[r] = hk[r]
  BY ONLY <1>1, p # q, SwapSeq
<1> QED
  BY ONLY <1>2, <1>3

LEMMA UpInv == IInv /\ perc_up => IInv'
<1> SUFFICES ASSUME IInv, perc_up PROVE IInv'
  OBVIOUS
<1> DEFINE ip == i \div 2
<1>1. /\ pc = "up" /\ i \in 1 .. nv /\ nv \in Nat /\ i \in Nat
      /\ \A p \in 1 .. nv : hk[p] \in Nat
  BY KeyFacts DEF IInv, TypeOK, perc_up, nv
<1>2. ip \in Nat /\ ip < i
  BY <1>1, Halves
<1>3. \A p \in 2 .. nv : p # i => hk[p \div 2] <= hk[p]
  BY <1>1 DEF IInv, OrderInv
<1>4. \A p \in 2 .. nv : p \div 2 = i /\ i > 1 => hk[i \div 2] <= hk[p]
  BY <1>1 DEF IInv, OrderInv
<1>5. \A p \in 2 .. nv : p \in Nat /\ p \div 2 \in Nat /\ p \div 2 >= 1 /\ p \div 2 < p
  BY <1>1, Halves
<1>10. CASE ip = 0 \/ hk[ip] <= hk[i]
  <2>1. Stop
    BY <1>10 DEF perc_up
  <2>2. \A p \in 2 .. nv : hk[p \div 2] <= hk[p]
    BY <1>3, <1>5, <1>10
  <2>3. TypeOK' /\ IndexInverse'
    BY <2>1 DEF IInv, TypeOK, IndexInverse, Stop, nv
  <2>4. OrderInv'
    BY <2>1, <2>2 DEF OrderInv, Stop, nv
  <2> QED BY <2>3, <2>4 DEF IInv
<1>11. CASE ~(ip = 0 \/ hk[ip] <= hk[i])
  <2>1. Exchange(ip, i) /\ i' = ip /\ pc' = "up"
    BY <1>11, <1>1 DEF perc_up
  <2>2. ip \in 1 .. nv /\ ip # i
    BY <1>1, <1>2, <1>11
  <2>3. TypeOK' /\ IndexInverse'
    BY <1>1, <2>1, <2>2, ExchangeInv DEF IInv
  <2>4. /\ nv' = nv /\ hk'[ip] = hk[i] /\ hk'[i] = hk[ip]
        /\ \A r \in 1 .. nv : r # ip /\ r # i => hk'[r] = hk[r]
    BY <1>1, <2>1, <2>2, ExchangedKeys DEF IInv
  <2>5. hk[i] < hk[ip] /\ hk[i] \in Nat /\ hk[ip] \in Nat
    BY <1>1, <1>11, <2>2
  <2>6. \A p \in 2 .. nv : p # ip => hk'[p \div 2] <= hk'[p]
    <3> SUFFICES ASSUME NEW p \in 2 .. nv, p # ip PROVE hk'[p \div 2] <= hk'[p]
      OBVIOUS
    <3>0. p \div 2 \in 1 .. nv /\ p \in 1 .. nv /\ p \div 2 < p
          /\ hk[p] \in Nat /\ hk[p \div 2] \in Nat
      BY <1>1, <1>5
    <3>1. CASE p = i
      BY <3>1, <2>4, <2>5
    <3>2. CASE p # i /\ p \div 2 = i
      <4>1. hk[ip] <= hk[p]
        BY <3>2, <2>2, <1>4, <1>1, <1>2
      <4> QED BY <4>1, <3>0, <3>2, <2>4
    <3>3. CASE p # i /\ p \div 2 = ip
      <4>1. hk[ip] <= hk[p]
        BY <3>3, <1>3
      <4> QED BY <4>1, <3>0, <3>3, <2>4, <2>5
    <3>4. CASE p # i /\ p \div 2 # i /\ p \div 2 # ip
      BY <3>4, <3>0, <1>3, <2>4
    <3> QED BY <3>1, <3>2, <3>3, <3>4
  <2>7. \A p \in 2 .. nv : p \div 2 = ip /\ ip > 1 => hk'[ip \div 2] <= hk'[p]
    <3> SUFFICES ASSUME NEW p \in 2 .. nv, p \div 2 = ip, ip > 1
                 PROVE  hk'[ip \div 2] <= hk'[p]
      OBVIOUS
    <3>1. /\ ip \in 2 .. nv /\ ip \div 2 \in 1 .. nv /\ ip \div 2 < ip /\ ip \div 2 # i
          /\ hk[ip \div 2] \in Nat /\ p \in 1 .. nv /\ hk[p] \in Nat /\ p # ip
      BY <2>2, <1>1, <1>2, <1>5
    <3>2. hk[ip \div 2] <= hk[ip] /\ hk'[ip \div 2] = hk[ip \div 2]
      BY <3>1, <1>3, <2>2, <2>4
    <3>3. CASE p = i
      BY <3>2, <3>3, <2>4
    <3>4. CASE p # i
      <4>1. hk[ip] <= hk[p] /\ hk'[p] = hk[p]
        BY <3>1, <3>4, <1>3, <2>4
      <4> QED BY <4>1, <3>1, <3>2, <2>5
    <3> QED BY <3>3, <3>4
  <2>8. OrderInv'
    BY <2>1, <2>4, <2>6, <2>7 DEF OrderInv
  <2> QED BY <2>3, <2>8 DEF IInv
<1> QED BY <1>10, <1>11


LEMMA DownInv == IInv /\ perc_dn => IInv'
<1> SUFFICES ASSUME IInv, perc_dn PROVE IInv'
  OBVIOUS
<1> DEFINE ic == SmallerChild(i)
<1>1. /\ pc = "down" /\ i \in 1 .. nv /\ nv \in Nat /\ i \in Nat
      /\ \A p \in 1 .. nv : hk[p] \in Nat
  BY KeyFacts DEF IInv, TypeOK, perc_dn, nv
<1>3. \A p \in 2 .. nv : p \div 2 # i => hk[p \div 2] <= hk[p]
  BY <1>1 DEF IInv, OrderInv
<1>4. \A p \in 2 .. nv : p \div 2 = i /\ i > 1 => hk[i \div 2] <= hk[p]
  BY <1>1 DEF IInv, OrderInv
<1>5. \A p \in 2 .. nv : p \in Nat /\ p \div 2 \in Nat /\ p \div 2 >= 1 /\ p \div 2 < p
  BY <1>1, Halves
<1>6. \A p \in 2 .. nv : p \div 2 = i => p = 2 * i \/ p = 2 * i + 1
  BY <1>1, Halves
<1>7. ASSUME 2 * i <= nv
      PROVE  /\ ic \in 2 .. nv /\ ic \div 2 = i /\ ic # i
             /\ \A p \in 2 .. nv : p \div 2 = i => hk[ic] <= hk[p]
  <2>1. 2 * i \in 2 .. nv /\ 2 * i \in 1 .. nv
    BY <1>1, <1>7
  <2>2. ic = 2 * i \/ (ic = 2 * i + 1 /\ 2 * i < nv)
    BY DEF SmallerChild
  <2>3. ic \in 2 .. nv /\ ic # i /\ ic \in Nat
    BY <2>1, <2>2, <1>1
  <2>4. ic \div 2 = i
    BY <2>2, <2>3, <1>1, Halves
  <2>5. hk[ic] <= hk[2 * i] /\ (2 * i + 1 <= nv => hk[ic] <= hk[2 * i + 1])
    <3>1. CASE 2 * i + 1 <= nv
      <4>1. hk[2 * i] \in Nat /\ hk[2 * i + 1] \in Nat
        BY <3>1, <2>1, <1>1
      <4>2. 2 * i < nv
        BY <3>1, <1>1
      <4> QED BY <3>1, <4>1, <4>2 DEF SmallerChild
    <3>2. CASE ~(2 * i + 1 <= nv)
      BY <3>2, <2>1, <2>2, <1>1
    <3> QED BY <3>1, <3>2
  <2> QED BY <2>3, <2>4, <2>5, <1>6, <1>1
<1>10. CASE 2 * i > nv \/ hk[ic] >= hk[i]
  <2>1. Stop
    BY <1>10 DEF perc_dn
  <2>2. \A p \in 2 .. nv : hk[p \div 2] <= hk[p]
    <3> SUFFICES ASSUME NEW p \in 2 .. nv PROVE hk[p \div 2] <= hk[p]
      OBVIOUS
    <3>1. CASE p \div 2 = i
      <4>1. 2 * i <= nv
        BY <3>1, <1>1, <1>6
      <4>2. hk[ic] >= hk[i] /\ hk[ic] <= hk[p] /\ ic \in 1 .. nv /\ p \in 1 .. nv
        BY <3>1, <4>1, <1>1, <1>7, <1>10
      <4> QED BY <4>2, <3>1, <1>1
    <3>2. CASE p \div 2 # i
      BY <3>2, <1>3
    <3> QED BY <3>1, <3>2
  <2>3. TypeOK' /\ IndexInverse'
    BY <2>1 DEF IInv, TypeOK, IndexInverse, Stop, nv
  <2>4. OrderInv'
    BY <2>1, <2>2 DEF OrderInv, Stop, nv
  <2> QED BY <2>3, <2>4 DEF IInv
<1>11. CASE ~(2 * i > nv \/ hk[ic] >= hk[i])
  <2>1. Exchange(i, ic) /\ i' = ic /\ pc' = "down"
    BY <1>11, <1>1 DEF perc_dn
  <2>0. 2 * i <= nv
    BY <1>11, <1>1
  <2>2. /\ ic \in 2 .. nv /\ ic \in 1 .. nv /\ ic \div 2 = i /\ ic # i
        /\ \A p \in 2 .. nv : p \div 2 = i => hk[ic] <= hk[p]
    BY <2>0, <1>1, <1>7
  <2>3. TypeOK' /\ IndexInverse'
    BY <1>1, <2>1, <2>2, ExchangeInv DEF IInv
  <2>4. /\ nv' = nv /\ hk'[ic] = hk[i] /\ hk'[i] = hk[ic]
        /\ \A r \in 1 .. nv : r # ic /\ r # i => hk'[r] = hk[r]
    BY <1>1, <2>1, <2>2, ExchangedKeys DEF IInv
  <2>5. hk[ic] < hk[i] /\ hk[i] \in Nat /\ hk[ic] \in Nat
    BY <1>1, <1>11, <2>2
  <2>6. \A p \in 2 .. nv : p \div 2 # ic => hk'[p \div 2] <= hk'[p]
    <3> SUFFICES ASSUME NEW p \in 2 .. nv, p \div 2 # ic PROVE hk'[p \div 2] <= hk'[p]
      OBVIOUS
    <3>0. p \div 2 \in 1 .. nv /\ p \in 1 .. nv /\ p \div 2 < p
          /\ hk[p] \in Nat /\ hk[p \div 2] \in Nat
      BY <1>1, <1>5
    <3>1. CASE p \div 2 = i
      <4>1. hk'[p \div 2] = hk[ic] /\ hk[ic] <= hk[p] /\ p # i
        BY <3>1, <3>0, <2>2, <2>4
      <4>2. CASE p = ic
        BY <4>1, <4>2, <2>4, <2>5
      <4>3. CASE p # ic
        BY <4>1, <4>3, <3>0, <2>4
      <4> QED BY <4>2, <4>3
    <3>2. CASE p \div 2 # i /\ p = i
      <4>1. hk[i \div 2] <= hk[ic] /\ hk'[p \div 2] = hk[i \div 2]
        BY <3>0, <3>2, <2>2, <2>4, <1>4, <1>1
      <4> QED BY <4>1, <3>2, <2>4
    <3>3. CASE p \div 2 # i /\ p # i
      <4>1. p # ic
        BY <3>3, <2>2
      <4>2. hk[p \div 2] <= hk[p]
        BY <3>3, <1>3
      <4> QED BY <3>0, <3>3, <4>1, <4>2, <2>4
    <3> QED BY <3>1, <3>2, <3>3
  <2>7. \A p \in 2 .. nv : p \div 2 = ic => hk'[ic \div 2] <= hk'[p]
    <3> SUFFICES ASSUME NEW p \in 2 .. nv, p \div 2 = ic
                 PROVE  hk'[ic \div 2] <= hk'[p]
      OBVIOUS
    <3>1. p \in 1 .. nv /\ p # ic /\ p # i
      BY <1>1, <1>5, <2>2
    <3>2. hk[ic] <= hk[p]
      BY <1>3, <2>2
    <3> QED BY <3>1, <3>2, <2>2, <2>4
  <2>8. OrderInv'
    BY <2>1, <2>4, <2>6, <2>7 DEF OrderInv
  <2> QED BY <2>3, <2>8 DEF IInv
<1> QED BY <1>10, <1>11

LEMMA InitInv == Init => IInv
BY DEF Init, IInv, TypeOK, IndexInverse, OrderInv, nv, NONE

(* A value that is not in the heap is appended.                            *)
LEMMA AppendInv ==
  ASSUME IInv, pc = "idle", NEW v \in Val, NEW k \in Key, Append1(v, k)
  PROVE  IInv'
<1>1. /\ hk \in Seq(Key) /\ hv \in Seq(Val) /\ Len(hv) = nv /\ nv \in Nat
      /\ idxv \in [Val -> 0 .. nv] /\ idxv[v] = NONE
  BY DEF IInv, TypeOK, nv, Append1
<1>2. /\ hk' \in Seq(Key) /\ Len(hk') = nv + 1 /\ hk'[nv + 1] = k
      /\ \A p \in 1 .. nv : hk'[p] = hk[p]
  BY <1>1 DEF Append1, nv
<1>3. /\ hv' \in Seq(Val) /\ Len(hv') = nv + 1 /\ hv'[nv + 1] = v
      /\ \A p \in 1 .. nv : hv'[p] = hv[p]
  BY <1>1 DEF Append1
<1>4. /\ idxv' \in [Val -> 0 .. (nv + 1)] /\ idxv'[v] = nv + 1
      /\ \A w \in Val : w # v => idxv'[w] = idxv[w]
  BY <1>1 DEF Append1
<1>5. nv' = nv + 1 /\ pc' = "up" /\ i' = nv + 1
  BY <1>2 DEF Append1, nv
<1>6. TypeOK'
  <2>1. i' \in Nat /\ i' \in 1 .. Len(hk')
    BY <1>1, <1>2, <1>5
  <2>2. idxv' \in [Val -> 0 .. Len(hk')] /\ Len(hv') = Len(hk')
    BY <1>2, <1>3, <1>4
  <2> QED BY <1>2, <1>3, <1>5, <2>1, <2>2 DEF TypeOK
<1>7. IndexInverse'
  <2>1. ASSUME NEW p \in 1 .. (nv + 1) PROVE idxv'[hv'[p]] = p
    <3>1. CASE p = nv + 1
      BY <3>1, <1>3, <1>4
    <3>2. CASE p # nv + 1
      <4>1. p \in 1 .. nv
        BY <3>2, <1>1
      <4>2. hv[p] \in Val /\ idxv[hv[p]] = p /\ p # NONE
        BY <4>1, <1>1 DEF IInv, IndexInverse, NONE
      <4> QED BY <4>1, <4>2, <1>1, <1>3, <1>4
    <3> QED BY <3>1, <3>2
  <2>2. ASSUME NEW w \in Val, idxv'[w] # NONE PROVE hv'[idxv'[w]] = w
    <3>1. CASE w = v
      BY <3>1, <1>3, <1>4
    <3>2. CASE w # v
      <4>1. idxv'[w] = idxv[w] /\ hv[idxv[w]] = w
        BY <2>2, <3>2, <1>4 DEF IInv, IndexInverse
      <4>2. idxv[w] \in 1 .. nv
        BY <4>1, <2>2, <1>1 DEF NONE
      <4> QED BY <4>1, <4>2, <1>3
    <3> QED BY <3>1, <3>2
  <2> QED BY <2>1, <2>2, <1>5 DEF IndexInverse
<1>8. OrderInv'
  <2>1. ASSUME NEW p \in 2 .. (nv + 1), p # nv + 1 PROVE hk'[p \div 2] <= hk'[p]
    <3>1. p \in 2 .. nv /\ p \in 1 .. nv /\ p \div 2 \in 1 .. nv
      BY <2>1, <1>1, Halves
    <3>2. hk[p \div 2] <= hk[p]
      BY <3>1 DEF IInv, OrderInv
    <3> QED BY <3>1, <3>2, <1>2
  <2>2. ASSUME NEW p \in 2 .. (nv + 1) PROVE p \div 2 # nv + 1
    BY <1>1, Halves
  <2> QED BY <2>1, <2>2, <1>5 DEF OrderInv
<1> QED BY <1>6, <1>7, <1>8 DEF IInv

(* The key of a value in the heap is replaced.                             *)
LEMMA ChangeKeyInv ==
  ASSUME IInv, pc = "idle", NEW v \in Val, NEW k \in Key, ChangeKey(v, k)
  PROVE  IInv'
<1> DEFINE p == idxv[v]
<1>1. /\ hk \in Seq(Key) /\ nv \in Nat /\ p \in 1 .. nv /\ nv = Len(hk)
  BY DEF IInv, TypeOK, nv, ChangeKey, NONE
<1>2. \A q \in 2 .. nv : hk[q \div 2] <= hk[q]
  BY DEF IInv, OrderInv
<1>3. /\ \A q \in 1 .. nv : hk[q] \in Nat
      /\ k \in Nat
  BY KeyFacts, ValAssumption DEF IInv
<1>10. CASE k = hk[p]
  BY <1>10 DEF ChangeKey, IInv, TypeOK, IndexInverse, OrderInv, nv
<1>11. CASE k # hk[p]
  <2>1. /\ hk' = [hk EXCEPT ![p] = k] /\ i' = p /\ UNCHANGED <<hv, idxv>>
        /\ pc' = IF k < hk[p] THEN "up" ELSE "down"
    BY <1>11 DEF ChangeKey, Direction
  <2>2. /\ hk' \in Seq(Key) /\ Len(hk') = nv /\ hk'[p] = k
        /\ \A q \in 1 .. nv : q # p => hk'[q] = hk[q]
    BY <1>1, <2>1
  <2>3. nv' = nv
    BY <2>2 DEF nv
  <2>4. TypeOK' /\ IndexInverse'
    <3>1. i' \in Nat /\ i' \in 1 .. Len(hk')
      BY <1>1, <2>1, <2>2
    <3>2. TypeOK'
      BY <2>1, <2>2, <3>1 DEF IInv, TypeOK, nv
    <3> QED BY <2>1, <2>3, <3>2 DEF IInv, IndexInverse
  <2>5. \A q \in 2 .. nv : /\ q \in 1 .. nv /\ q \div 2 \in 1 .. nv /\ q \div 2 # q
                           /\ hk[q] \in Nat /\ hk[q \div 2] \in Nat
    <3> SUFFICES ASSUME NEW q \in 2 .. nv
                 PROVE  q \in 1 .. nv /\ q \div 2 \in 1 .. nv /\ q \div 2 # q
      BY <1>3
    <3>1. q \in Nat /\ q \div 2 \in Nat /\ q \div 2 >= 1 /\ q \div 2 < q
      BY <1>1, Halves
    <3> QED BY <1>1, <3>1
  <2>6. ASSUME NEW q \in 2 .. nv
        PROVE  \/ hk'[q \div 2] <= hk'[q]
               \/ pc' = "up" /\ q = p
               \/ pc' = "down" /\ q \div 2 = p
    <3>1. CASE q = p
      <4>1. hk[q \div 2] <= hk[q] /\ hk'[q \div 2] = hk[q \div 2]
        BY <3>1, <1>2, <2>2, <2>5
      <4> QED BY <4>1, <3>1, <1>3, <2>1, <2>2, <2>5
    <3>2. CASE q \div 2 = p
      <4>1. hk[p] <= hk[q] /\ hk'[q] = hk[q] /\ hk'[q \div 2] = k
        BY <3>2, <1>2, <2>2, <2>5
      <4> QED BY <4>1, <3>2, <1>1, <1>3, <2>1, <2>5
    <3>3. CASE q # p /\ q \div 2 # p
      BY <3>3, <1>2, <2>2, <2>5
    <3> QED BY <3>1, <3>2, <3>3
  <2>7. ASSUME NEW q \in 2 .. nv, q \div 2 = p, p > 1
        PROVE  hk'[p \div 2] <= hk'[q]
    <3>1. p \in 2 .. nv /\ q # p
      BY <2>5, <2>7, <1>1
    <3>2. p \div 2 \in 1 .. nv /\ p \div 2 # p
      BY <3>1, <2>5
    <3>3. hk'[p \div 2] = hk[p \div 2] /\ hk'[q] = hk[q]
      BY <3>1, <3>2, <2>2, <2>5
    <3>4. hk[p \div 2] <= hk[p] /\ hk[p] <= hk[q]
      BY <3>1, <2>7, <1>2
    <3> QED BY <3>1, <3>2, <3>3, <3>4, <1>1, <1>3, <2>5
  <2>8. OrderInv'
    BY <2>1, <2>3, <2>6, <2>7 DEF OrderInv
  <2> QED BY <2>4, <2>8 DEF IInv
<1> QED BY <1>10, <1>11

LEMMA PopInv == IInv /\ pop => IInv'
<1> SUFFICES ASSUME IInv, pop PROVE IInv'
  OBVIOUS
<1> USE DEF pop
<1>1. /\ hk \in Seq(Key) /\ hv \in Seq(Val) /\ Len(hv) = nv /\ nv \in Nat /\ nv > 0
      /\ idxv \in [Val -> 0 .. nv] /\ nv = Len(hk)
  BY DEF IInv, TypeOK, nv
<1>2. /\ hk' \in Seq(Key) /\ Len(hk') = nv - 1
      /\ \A p \in 1 .. (nv - 1) : hk'[p] = IF p = 1 THEN hk[nv] ELSE hk[p]
  <2>1. \A p \in 1 .. (nv - 1) : (IF p = 1 THEN hk[nv] ELSE hk[p]) \in Key
    BY <1>1
  <2>2. hk' \in [1 .. (nv - 1) -> Key] /\ nv - 1 \in Nat
    BY <1>1, <2>1
  <2> QED BY <2>2
<1>3. /\ hv' \in Seq(Val) /\ Len(hv') = nv - 1
      /\ \A p \in 1 .. (nv - 1) : hv'[p] = IF p = 1 THEN hv[nv] ELSE hv[p]
  <2>1. \A p \in 1 .. (nv - 1) : (IF p = 1 THEN hv[nv] ELSE hv[p]) \in Val
    BY <1>1
  <2>2. hv' \in [1 .. (nv - 1) -> Val] /\ nv - 1 \in Nat
    BY <1>1, <2>1
  <2> QED BY <2>2
<1>4. nv' = nv - 1
  BY <1>2 DEF nv
<1> DEFINE v == hv[1]  lv == hv[nv]
<1>5. v \in Val /\ lv \in Val /\ idxv[v] = 1 /\ idxv[lv] = nv
  <2>1. 1 \in 1 .. nv /\ nv \in 1 .. nv
    BY <1>1
  <2>2. idxv[hv[1]] = 1 /\ idxv[hv[nv]] = nv
    BY <2>1 DEF IInv, IndexInverse
  <2> QED BY <1>1, <2>1, <2>2
<1>6. /\ idxv' \in [Val -> 0 .. nv]
      /\ idxv'[v] = NONE
      /\ lv # v => idxv'[lv] = 1
      /\ \A w \in Val : w # v /\ w # lv => idxv'[w] = idxv[w]
  <2>1. idxv' = PoppedIndex(v, lv)
    OBVIOUS
  <2>2. CASE v = lv
    <3>1. idxv' = [idxv EXCEPT ![v] = NONE]
      BY <2>1, <2>2 DEF PoppedIndex
    <3> QED BY <3>1, <2>2, <1>1, <1>5 DEF NONE
  <2>3. CASE v # lv
    <3>1. idxv' = [idxv EXCEPT ![v] = NONE, ![lv] = 1]
      BY <2>1, <2>3 DEF PoppedIndex
    <3>2. idxv \in [Val -> 0 .. nv] /\ v \in Val /\ lv \in Val /\ nv \in Nat /\ nv > 0
      BY <1>1, <1>5
    <3>3. 1 \in 0 .. nv /\ NONE \in 0 .. nv
      BY <3>2 DEF NONE
    <3> HIDE DEF v, lv
    <3> QED BY <3>1, <3>2, <3>3, <2>3
  <2> QED BY <2>2, <2>3
<1>7. \A w \in Val : w # v /\ w # lv => idxv[w] = NONE \/ idxv[w] \in 2 .. (nv - 1)
  <2> SUFFICES ASSUME NEW w \in Val, w # v, w # lv, idxv[w] # NONE
               PROVE  idxv[w] \in 2 .. (nv - 1)
    OBVIOUS
  <2>1. hv[idxv[w]] = w /\ idxv[w] \in 1 .. nv
    BY <1>1 DEF IInv, IndexInverse, NONE
  <2> QED BY <2>1, <1>1
<1>8. lv # v => nv > 1
  BY <1>1
<1>9. TypeOK'
  <2>1. ASSUME NEW w \in Val PROVE idxv'[w] \in 0 .. (nv - 1)
    <3>1. CASE w = v
      BY <3>1, <1>1, <1>6 DEF NONE
    <3>2. CASE w = lv /\ w # v
      BY <3>2, <1>1, <1>6, <1>8
    <3>3. CASE w # v /\ w # lv
      BY <3>3, <1>1, <1>6, <1>7 DEF NONE
    <3> QED BY <3>1, <3>2, <3>3
  <2>2. idxv' \in [Val -> 0 .. (nv - 1)]
    BY <2>1, <1>6
  <2>3. pc' \in {"idle", "up", "down"} /\ i' \in Nat
    OBVIOUS
  <2>4. pc' # "idle" => i' \in 1 .. (nv - 1)
    BY <1>1
  <2>5. Len(hk') = nv - 1 /\ Len(hv') = nv - 1
    BY <1>2, <1>3
  <2> QED BY <1>2, <1>3, <2>2, <2>3, <2>4, <2>5 DEF TypeOK
<1>10. \A p \in 1 .. (nv - 1) : idxv'[hv'[p]] = p
  <2> SUFFICES ASSUME NEW p \in 1 .. (nv - 1) PROVE idxv'[hv'[p]] = p
    OBVIOUS
  <2>1. CASE p = 1
    <3>1. hv'[p] = lv /\ lv # v
      BY <2>1, <1>1, <1>3, <1>5
    <3> QED BY <2>1, <3>1, <1>6
  <2>2. CASE p # 1
    <3>1. hv'[p] = hv[p] /\ p \in 1 .. nv /\ p # nv
      BY <2>2, <1>1, <1>3
    <3>2. hv[p] \in Val /\ idxv[hv[p]] = p
      BY <3>1, <1>1 DEF IInv, IndexInverse
    <3> QED BY <2>2, <3>1, <3>2, <1>5, <1>6
  <2> QED BY <2>1, <2>2
<1>11. \A w \in Val : idxv'[w] # NONE => hv'[idxv'[w]] = w
  <2> SUFFICES ASSUME NEW w \in Val, idxv'[w] # NONE PROVE hv'[idxv'[w]] = w
    OBVIOUS
  <2>1. w # v
    BY <1>6
  <2>2. CASE w = lv
    BY <2>1, <2>2, <1>1, <1>3, <1>6, <1>8
  <2>3. CASE w # lv
    <3>1. idxv'[w] = idxv[w] /\ idxv[w] \in 2 .. (nv - 1) /\ hv[idxv[w]] = w
      BY <2>1, <2>3, <1>6, <1>7 DEF IInv, IndexInverse
    <3> QED BY <3>1, <1>1, <1>3
  <2> QED BY <2>2, <2>3
<1>12. OrderInv'
  <2>1. ASSUME NEW p \in 2 .. (nv - 1), p \div 2 # 1 PROVE hk'[p \div 2] <= hk'[p]
    <3>1. p \in Nat /\ p \div 2 \in Nat /\ p \div 2 >= 1 /\ p \div 2 < p
      BY <1>1, Halves
    <3>2. p \div 2 \in 2 .. (nv - 1) /\ p \in 2 .. nv
      BY <2>1, <3>1, <1>1
    <3>3. /\ pc = "idle"
          /\ hk[p \div 2] <= hk[p] \/ (pc = "up" /\ p = i) \/ (pc = "down" /\ p \div 2 = i)
      BY <3>2, Zenon DEF IInv, OrderInv
    <3> QED BY <3>2, <3>3, <1>1, <1>2
  <2>2. CASE nv > 1
    <3>1. pc' = "down" /\ i' = 1
      BY <2>2
    <3>2. nv' = nv - 1
      BY <1>4
    <3>3. \A p \in 2 .. nv' : hk'[p \div 2] <= hk'[p] \/ (pc' = "down" /\ p \div 2 = i')
      BY ONLY <3>1, <3>2, <2>1
    <3>4. ~(i' > 1)
      BY <3>1
    <3> QED
      BY <3>3, <3>4 DEF OrderInv
  <2>3. CASE ~(nv > 1)
    <3>1. 2 .. nv' = {}
      BY <2>3, <1>1, <1>4
    <3> QED BY <3>1 DEF OrderInv
  <2> QED BY <2>2, <2>3
<1> QED BY <1>4, <1>9, <1>10, <1>11, <1>12 DEF IInv, IndexInverse

LEMMA StutterInv == IInv /\ UNCHANGED vars => IInv'
BY DEF IInv, TypeOK, IndexInverse, OrderInv, nv, vars

(* Positions, types and the order but for one item hold in every reachable *)
(* state, within operations too.                                           *)
THEOREM HeapInductive == Spec => []IInv
<1>1. IInv /\ [Next]_vars => IInv'
  BY UpInv, DownInv, AppendInv, ChangeKeyInv, PopInv, StutterInv DEF Next, push
<1> QED BY <1>1, InitInv, PTL DEF Spec

(* The heap is ordered between operations.                                 *)
THEOREM HeapOrdered == Spec => []HeapOrder
<1>1. IInv => HeapOrder
  BY DEF IInv, OrderInv, HeapOrder
<1> QED BY <1>1, HeapInductive, PTL

(* Every value knows its position.                                         *)
THEOREM PositionsCorrect == Spec => []IndexInverse
<1>1. IInv => IndexInverse
  BY DEF IInv
<1> QED BY <1>1, HeapInductive, PTL

-----------------------------------------------------------------------------
(* The heap as a set of entries.                                          *)

(* No key is smaller than the first: of the positions with a smaller one,  *)
(* the lowest would have a parent that is one too.                         *)
LEMMA RootLeast ==
  ASSUME IInv, pc = "idle"
  PROVE  \A p \in 1 .. nv : hk[1] <= hk[p]
<1> SUFFICES ASSUME NEW q \in 1 .. nv, ~(hk[1] <= hk[q])
             PROVE  FALSE
  OBVIOUS
<1> DEFINE B == {p \in 1 .. nv : ~(hk[1] <= hk[p])}
           R == {ss \in Nat \X Nat : ss[1] < ss[2]}
<1>1. nv \in Nat /\ \A p \in 1 .. nv : hk[p] \in Nat
  BY KeyFacts DEF IInv
<1>2. IsWellFoundedOn(R, Nat)
  BY NatLessThanWellFounded DEF OpToRel
<1>3. q \in B /\ B \in SUBSET Nat
  BY <1>1
<1>4. PICK p \in B : \A y \in B : <<y, p>> \notin R
  <2> HIDE DEF R, B
  <2> QED
    BY <1>2, <1>3, WFMin
<1>5. p \in 2 .. nv /\ p \in Nat
  BY <1>1, <1>4
<1>6. p \div 2 \in Nat /\ p \div 2 >= 1 /\ p \div 2 < p
  BY <1>5, Halves
<1>7. hk[p \div 2] <= hk[p]
  BY <1>5 DEF IInv, OrderInv
<1>8. p \div 2 \in B
  BY <1>1, <1>4, <1>5, <1>6, <1>7
<1>9. <<p \div 2, p>> \in R
  BY <1>5, <1>6
<1> QED
  BY <1>4, <1>8, <1>9

LEMMA EntryFacts ==
  ASSUME TypeOK
  PROVE  /\ nv \in Nat /\ Len(hv) = nv
         /\ \A p \in 1 .. nv : hv[p] \in Val /\ hk[p] \in Key
BY DEF TypeOK, nv

(* The exchanges leave the entries alone.                                  *)
LEMMA EntriesExchanged ==
  ASSUME TypeOK, NEW p \in 1 .. nv, NEW q \in 1 .. nv, p # q, Exchange(p, q)
  PROVE  Entries' = Entries
<1>1. /\ nv' = nv /\ hk'[p] = hk[q] /\ hk'[q] = hk[p]
      /\ \A r \in 1 .. nv : r # p /\ r # q => hk'[r] = hk[r]
  BY ExchangedKeys
<1>2. /\ hv'[p] = hv[q] /\ hv'[q] = hv[p]
      /\ \A r \in 1 .. nv : r # p /\ r # q => hv'[r] = hv[r]
  <2>1. hv \in Seq(Val) /\ p \in 1 .. Len(hv) /\ q \in 1 .. Len(hv)
    BY DEF TypeOK, nv
  <2>2. Len(hv) = nv /\ hv' = Swapped(hv, p, q)
    BY DEF Exchange, TypeOK, nv
  <2>3. /\ Swapped(hv, p, q)[p] = hv[q] /\ Swapped(hv, p, q)[q] = hv[p]
        /\ \A r \in 1 .. Len(hv) : r # p /\ r # q => Swapped(hv, p, q)[r] = hv[r]
    BY ONLY <2>1, p # q, SwapSeq
  <2>4. /\ hv'[p] = hv[q] /\ hv'[q] = hv[p]
        /\ \A r \in 1 .. Len(hv) : r # p /\ r # q => hv'[r] = hv[r]
    BY ONLY <2>2, <2>3, Zenon
  <2> QED
    BY ONLY <2>2, <2>4, Zenon
<1>3. \A r \in 1 .. nv : \E t \in 1 .. nv : hv'[r] = hv[t] /\ hk'[r] = hk[t]
  BY <1>1, <1>2
<1>4. \A r \in 1 .. nv : \E t \in 1 .. nv : hv[r] = hv'[t] /\ hk[r] = hk'[t]
  BY <1>1, <1>2
<1>5. Entries' = {<<hv'[r], hk'[r]>> : r \in 1 .. nv}
  BY <1>1 DEF Entries
<1>6. \A r \in 1 .. nv : <<hv'[r], hk'[r]>> \in Entries
  BY <1>3 DEF Entries
<1>7. \A r \in 1 .. nv : <<hv[r], hk[r]>> \in Entries'
  BY <1>4, <1>5
<1> QED
  BY <1>5, <1>6, <1>7 DEF Entries

LEMMA PercolateEntries ==
  ASSUME IInv, perc_up \/ perc_dn
  PROVE  Entries' = Entries
<1>1. nv \in Nat /\ i \in 1 .. nv /\ TypeOK
  BY DEF IInv, TypeOK, perc_up, perc_dn, nv
<1>2. CASE Stop
  BY <1>2 DEF Stop, Entries, nv
<1>3. CASE perc_up /\ ~Stop
  <2>1. Exchange(i \div 2, i) /\ i \div 2 # 0
    BY <1>3 DEF perc_up
  <2>2. i \div 2 \in Nat /\ i \div 2 < i /\ i \in Nat
    BY <1>1, Halves
  <2>3. i \div 2 \in 1 .. nv /\ i \div 2 # i
    BY <1>1, <2>1, <2>2
  <2> QED
    BY <1>1, <2>1, <2>3, EntriesExchanged
<1>4. CASE perc_dn /\ ~Stop
  <2>1. Exchange(i, SmallerChild(i)) /\ ~(2 * i > nv)
    BY <1>4 DEF perc_dn
  <2>2. SmallerChild(i) \in 1 .. nv /\ SmallerChild(i) # i
    BY <1>1, <2>1 DEF SmallerChild
  <2> QED
    BY <1>1, <2>1, <2>2, EntriesExchanged
<1> QED
  BY <1>2, <1>3, <1>4

(* A push gives the value its key, whether it was in the heap or not.      *)
LEMMA PushEntries ==
  ASSUME IInv, NEW v \in Val, NEW k \in Key, push(v, k)
  PROVE  Entries' = {e \in Entries : e[1] # v} \cup {<<v, k>>}
<1>1. /\ nv \in Nat /\ Len(hv) = nv /\ Len(hk) = nv
      /\ hk \in Seq(Key) /\ hv \in Seq(Val) /\ idxv \in [Val -> 0 .. nv]
  BY DEF IInv, TypeOK, nv
<1>2. \A p \in 1 .. nv : idxv[hv[p]] = p
  BY DEF IInv, IndexInverse
<1>3. CASE Append1(v, k)
  <2>1. idxv[v] = 0 /\ hk' = Append(hk, k) /\ hv' = Append(hv, v)
    BY <1>3 DEF Append1, NONE
  <2>2. \A p \in 1 .. nv : hv[p] # v
    BY <1>2, <2>1
  <2>3. nv' = nv + 1 /\ hv'[nv + 1] = v /\ hk'[nv + 1] = k
    BY <1>1, <2>1 DEF nv
  <2>4. \A p \in 1 .. nv : hv'[p] = hv[p] /\ hk'[p] = hk[p]
    BY <1>1, <2>1
  <2>5. Entries' = {<<hv'[p], hk'[p]>> : p \in 1 .. nv + 1}
    BY <2>3 DEF Entries
  <2>6. \A e \in Entries' : e \in {d \in Entries : d[1] # v} \cup {<<v, k>>}
    <3> SUFFICES ASSUME NEW p \in 1 .. nv + 1
                 PROVE  <<hv'[p], hk'[p]>> \in {d \in Entries : d[1] # v} \cup {<<v, k>>}
      BY <2>5
    <3>1. CASE p = nv + 1
      BY <3>1, <2>3
    <3>2. CASE p # nv + 1
      <4>1. p \in 1 .. nv
        BY <1>1, <3>2
      <4>2. <<hv[p], hk[p]>> \in Entries /\ hv[p] # v
        BY <4>1, <2>2 DEF Entries
      <4> QED
        BY <4>1, <4>2, <2>4
    <3> QED
      BY <3>1, <3>2
  <2>7. \A e \in {d \in Entries : d[1] # v} \cup {<<v, k>>} : e \in Entries'
    <3>1. <<v, k>> \in Entries'
      BY <1>1, <2>3, <2>5
    <3>2. \A p \in 1 .. nv : <<hv[p], hk[p]>> \in Entries'
      <4> TAKE p \in 1 .. nv
      <4>1. p \in 1 .. nv + 1
        BY <1>1
      <4>2. <<hv'[p], hk'[p]>> \in Entries'
        BY <4>1, <2>5
      <4> QED
        BY <4>2, <2>4
    <3> QED
      BY <3>1, <3>2 DEF Entries
  <2> QED
    BY <2>6, <2>7
<1>4. CASE ChangeKey(v, k)
  <2> DEFINE q == idxv[v]
  <2>1. q \in 1 .. nv /\ hv[q] = v
    BY <1>1, <1>4 DEF ChangeKey, NONE, IInv, IndexInverse
  <2>2. hv' = hv /\ (hk' = [hk EXCEPT ![q] = k] \/ (hk' = hk /\ k = hk[q]))
    BY <1>4 DEF ChangeKey
  <2> HIDE DEF q
  <2>3. nv' = nv /\ hk'[q] = k /\ \A p \in 1 .. nv : p # q => hk'[p] = hk[p]
    <3>1. hk \in Seq(Key) /\ q \in 1 .. Len(hk) /\ nv = Len(hk) /\ nv' = Len(hk')
      BY <1>1, <2>1 DEF IInv, TypeOK, nv
    <3>2. CASE hk' = [hk EXCEPT ![q] = k]
      BY ONLY <3>1, <3>2
    <3>3. CASE hk' = hk /\ k = hk[q]
      BY ONLY <3>1, <3>3
    <3> QED
      BY <2>2, <3>2, <3>3
  <2>4. \A p \in 1 .. nv : hv[p] = v => p = q
    BY <1>2, <2>1
  <2>5. Entries' = {<<hv[p], hk'[p]>> : p \in 1 .. nv}
    BY <2>2, <2>3 DEF Entries
  <2>6. \A e \in Entries' : e \in {d \in Entries : d[1] # v} \cup {<<v, k>>}
    <3> SUFFICES ASSUME NEW p \in 1 .. nv
                 PROVE  <<hv[p], hk'[p]>> \in {d \in Entries : d[1] # v} \cup {<<v, k>>}
      BY <2>5
    <3>1. CASE p = q
      BY <3>1, <2>1, <2>3
    <3>2. CASE p # q
      <4>1. <<hv[p], hk[p]>> \in Entries /\ hv[p] # v
        BY <3>2, <2>4 DEF Entries
      <4> QED
        BY <4>1, <3>2, <2>3
    <3> QED
      BY <3>1, <3>2
  <2>7. \A e \in {d \in Entries : d[1] # v} \cup {<<v, k>>} : e \in Entries'
    BY <2>1, <2>3, <2>4, <2>5 DEF Entries
  <2> QED
    BY <2>6, <2>7
<1> QED
  BY <1>3, <1>4 DEF push

(* A pop takes out an entry with the least key.                            *)
LEMMA PopEntries ==
  ASSUME IInv, pop
  PROVE  \E e \in Entries : /\ \A f \in Entries : e[2] <= f[2]
                            /\ Entries' = Entries \ {e}
<1>1. /\ nv \in Nat /\ Len(hv) = nv /\ Len(hk) = nv /\ nv > 0
      /\ hk \in Seq(Key) /\ hv \in Seq(Val)
  BY DEF IInv, TypeOK, nv, pop
<1>2. \A p, q \in 1 .. nv : hv[p] = hv[q] => p = q
  BY DEF IInv, IndexInverse
<1>3. \A p \in 1 .. nv : hk[1] <= hk[p]
  BY RootLeast DEF pop
<1>4. nv' = nv - 1
  BY <1>1 DEF pop, nv
<1>5. \A p \in 1 .. nv - 1 : /\ hv'[p] = IF p = 1 THEN hv[nv] ELSE hv[p]
                             /\ hk'[p] = IF p = 1 THEN hk[nv] ELSE hk[p]
  BY <1>1 DEF pop
<1> DEFINE e == <<hv[1], hk[1]>>
<1>6. e \in Entries /\ \A f \in Entries : e[2] <= f[2]
  BY <1>1, <1>3 DEF Entries
<1>7. Entries' = {<<hv'[p], hk'[p]>> : p \in 1 .. nv - 1}
  BY <1>4 DEF Entries
<1>8. \A f \in Entries' : f \in Entries \ {e}
  <2> SUFFICES ASSUME NEW p \in 1 .. nv - 1
               PROVE  <<hv'[p], hk'[p]>> \in Entries \ {e}
    BY <1>7
  <2> DEFINE t == IF p = 1 THEN nv ELSE p
  <2>1. t \in 1 .. nv /\ t # 1 /\ hv'[p] = hv[t] /\ hk'[p] = hk[t]
    BY <1>1, <1>5
  <2>2. hv[t] # hv[1]
    BY <1>1, <1>2, <2>1
  <2> QED
    BY <2>1, <2>2 DEF Entries
<1>9. \A f \in Entries \ {e} : f \in Entries'
  <2> SUFFICES ASSUME NEW t \in 1 .. nv, <<hv[t], hk[t]>> # e
               PROVE  <<hv[t], hk[t]>> \in Entries'
    BY DEF Entries
  <2> DEFINE p == IF t = nv THEN 1 ELSE t
  <2>1. t # 1
    OBVIOUS
  <2>2. p \in 1 .. nv - 1
    BY <1>1, <2>1
  <2>3. hv'[p] = hv[t] /\ hk'[p] = hk[t]
    BY <1>1, <1>5, <2>1, <2>2
  <2> HIDE DEF p
  <2> QED
    BY <1>7, <2>2, <2>3
<1> QED
  BY <1>6, <1>8, <1>9
=============================================================================
