--------------------------- MODULE BddCacheProofs ---------------------------
(* Proofs about the cache of bdd2vec, for every limit and every set of      *)
(* BDDs: the assertion of the eviction loop holds, the vectors in the cache *)
(* are always in the queue, the one used longest ago is evicted, and what   *)
(* is returned is the vector of the BDD asked for.                          *)
EXTENDS BddCache, TLAPS

(* Every use in the queue is of a cached vector and not later than the      *)
(* vector's last use, which is in the queue too.  This is why a vector that *)
(* is evicted leaves no use behind: the top of the queue is its last use    *)
(* only once its older uses have been popped.                               *)
Fields ==
  /\ bv_time \in Nat
  /\ DOMAIN bv_cache \subseteq Ids
  /\ bv_lru \subseteq Nat \X Ids
  /\ \A i \in DOMAIN bv_cache :
       /\ bv_cache[i].time \in Nat
       /\ bv_cache[i] = [time |-> bv_cache[i].time, vec |-> bv_cache[i].vec]

UsesCached ==
  \A x \in bv_lru : /\ x[2] \in DOMAIN bv_cache
                    /\ x[1] <= bv_cache[x[2]].time

PastTimes == \A i \in DOMAIN bv_cache : bv_cache[i].time <= bv_time

CallInProgress ==
  /\ pc \in {"idle", "evict", "fill"}
  /\ pc # "idle" => idB \in Ids /\ idB \notin DOMAIN bv_cache

CacheInv == /\ Fields /\ UsesCached /\ QueueHasCached /\ PastTimes
            /\ CallInProgress

LEMMA InitCache == Init => CacheInv
BY DEF Init, CacheInv, Fields, UsesCached, QueueHasCached, PastTimes, CallInProgress

LEMMA HitCache == ASSUME CacheInv, NEW i \in Ids, Hit(i) PROVE CacheInv'
<1> USE DEF Hit, Called, Queued
<1>0. i \in DOMAIN bv_cache
  OBVIOUS
<1>1. DOMAIN bv_cache' = DOMAIN bv_cache
  OBVIOUS
<1>2. /\ bv_cache'[i].time = bv_time + 1
      /\ \A j \in DOMAIN bv_cache \ {i} : bv_cache'[j] = bv_cache[j]
  BY <1>0 DEF CacheInv, Fields
<1>3. Fields'
  BY <1>1, <1>2 DEF CacheInv, Fields
<1>4. UsesCached'
  <2> SUFFICES ASSUME NEW x \in bv_lru'
               PROVE  x[2] \in DOMAIN bv_cache' /\ x[1] <= bv_cache'[x[2]].time
    BY DEF UsesCached
  <2>1. CASE x \in bv_lru
    <3>1. x[2] \in DOMAIN bv_cache /\ x[1] <= bv_cache[x[2]].time /\ x[1] \in Nat
      BY <2>1 DEF CacheInv, UsesCached, Fields
    <3>2. bv_cache[x[2]].time <= bv_cache'[x[2]].time
      BY <3>1, <1>2 DEF CacheInv, PastTimes, Fields
    <3> QED BY <3>1, <3>2, <1>1, <1>3 DEF CacheInv, Fields
  <2>2. CASE x = <<bv_time + 1, i>>
    BY <2>2, <1>1, <1>2 DEF CacheInv, Fields
  <2> QED BY <2>1, <2>2
<1>5. QueueHasCached'
  BY <1>1, <1>2 DEF CacheInv, QueueHasCached
<1>6. PastTimes'
  BY <1>1, <1>2 DEF CacheInv, PastTimes, Fields
<1>7. CallInProgress'
  BY <1>1 DEF CacheInv, CallInProgress
<1> QED BY <1>3, <1>4, <1>5, <1>6, <1>7 DEF CacheInv

LEMMA MissCache == ASSUME CacheInv, NEW i \in Ids, Miss(i) PROVE CacheInv'
<1> USE DEF Miss, Called
<1>1. Fields' /\ UsesCached' /\ QueueHasCached' /\ CallInProgress'
  BY DEF CacheInv, Fields, UsesCached, QueueHasCached, CallInProgress
<1>2. PastTimes'
  BY DEF CacheInv, PastTimes, Fields
<1> QED BY <1>1, <1>2 DEF CacheInv

(* An evicted vector takes its only remaining use with it.                  *)
LEMMA EvictCache ==
  ASSUME CacheInv, NEW x \in bv_lru, IsTop(x), IsLastUse(x), Evict(x),
         UNCHANGED <<bdds, bv_time, idB, ret>>, pc' = pc
  PROVE  CacheInv'
<1> USE DEF Evict
<1>1. DOMAIN bv_cache' = DOMAIN bv_cache \ {x[2]}
  OBVIOUS
<1>2. \A j \in DOMAIN bv_cache' : bv_cache'[j] = bv_cache[j]
  OBVIOUS
<1>3. \A y \in bv_lru : y[2] = x[2] => y = x
  <2> SUFFICES ASSUME NEW y \in bv_lru, y[2] = x[2] PROVE y = x
    OBVIOUS
  <2>1. x[1] <= y[1] /\ y[1] <= x[1] /\ x[1] \in Nat /\ y[1] \in Nat
    BY DEF IsTop, IsLastUse, CacheInv, UsesCached, Fields
  <2>2. x = <<x[1], x[2]>> /\ y = <<y[1], y[2]>>
    BY DEF CacheInv, Fields
  <2> QED BY <2>1, <2>2
<1>4. Fields'
  BY <1>1, <1>2 DEF CacheInv, Fields
<1>5. UsesCached'
  BY <1>1, <1>2, <1>3 DEF CacheInv, UsesCached
<1>6. QueueHasCached'
  BY <1>1, <1>2 DEF CacheInv, QueueHasCached
<1>7. PastTimes'
  BY <1>1, <1>2 DEF CacheInv, PastTimes
<1>8. CallInProgress'
  BY <1>1 DEF CacheInv, CallInProgress
<1> QED BY <1>4, <1>5, <1>6, <1>7, <1>8 DEF CacheInv

LEMMA SkipCache ==
  ASSUME CacheInv, NEW x \in bv_lru, ~IsLastUse(x), Skip(x),
         UNCHANGED <<bdds, bv_time, idB, ret>>, pc' = pc
  PROVE  CacheInv'
<1>1. QueueHasCached'
  BY DEF CacheInv, QueueHasCached, Skip, IsLastUse
<1>2. Fields' /\ UsesCached' /\ PastTimes' /\ CallInProgress'
  BY DEF CacheInv, Fields, UsesCached, PastTimes, CallInProgress, Skip
<1> QED BY <1>1, <1>2 DEF CacheInv

LEMMA EvictOneCache == ASSUME CacheInv, EvictOne PROVE CacheInv'
<1> PICK x \in bv_lru :
       /\ IsTop(x)
       /\ IF x[2] \notin DOMAIN bv_cache THEN pc' = "abort" /\ Skip(x)
          ELSE pc' = pc /\ IF IsLastUse(x) THEN Evict(x) ELSE Skip(x)
  BY DEF EvictOne
<1>1. x[2] \in DOMAIN bv_cache
  BY DEF CacheInv, UsesCached
<1>2. UNCHANGED <<bdds, bv_time, idB, ret>>
  BY DEF EvictOne
<1> QED BY <1>1, <1>2, EvictCache, SkipCache

LEMMA FillCache == ASSUME CacheInv, Fill PROVE CacheInv'
<1> USE DEF Fill, Queued
<1>1. idB \in Ids /\ idB \notin DOMAIN bv_cache
  BY DEF CacheInv, CallInProgress
<1>2. DOMAIN bv_cache' = DOMAIN bv_cache \cup {idB}
  BY DEF Fill
<1>3. /\ bv_cache'[idB].time = bv_time
      /\ bv_cache'[idB] = [time |-> bv_cache'[idB].time, vec |-> bv_cache'[idB].vec]
      /\ \A j \in DOMAIN bv_cache : bv_cache'[j] = bv_cache[j]
  BY <1>1
<1>4. bv_time \in Nat /\ bv_time' = bv_time + 1
  BY DEF CacheInv, Fields
<1>5. Fields'
  BY <1>1, <1>2, <1>3, <1>4 DEF CacheInv, Fields
<1>6. UsesCached'
  BY <1>2, <1>3, <1>4 DEF CacheInv, UsesCached
<1>7. QueueHasCached'
  BY <1>2, <1>3 DEF CacheInv, QueueHasCached
<1>8. PastTimes'
  BY <1>2, <1>3, <1>4 DEF CacheInv, PastTimes, Fields
<1>9. CallInProgress'
  BY DEF CallInProgress
<1> QED BY <1>5, <1>6, <1>7, <1>8, <1>9 DEF CacheInv

LEMMA NextCache == CacheInv /\ [Next]_vars => CacheInv'
<1> SUFFICES ASSUME CacheInv, [Next]_vars PROVE CacheInv'
  OBVIOUS
<1> USE DEF CacheInv, Fields, UsesCached, QueueHasCached, PastTimes, CallInProgress
<1>1. CASE NewBdd
  BY <1>1 DEF NewBdd
<1>2. CASE Collect
  BY <1>2 DEF Collect
<1>3. CASE \E i \in Ids : Hit(i) \/ Miss(i)
  BY <1>3, HitCache, MissCache
<1>4. CASE EvictOne
  BY <1>4, EvictOneCache
<1>5. CASE Evicted
  BY <1>5 DEF Evicted
<1>6. CASE Fill
  BY <1>6, FillCache
<1>7. CASE clear_bdd2vec
  BY <1>7 DEF clear_bdd2vec
<1>8. CASE UNCHANGED vars
  BY <1>8 DEF vars
<1> QED BY <1>1, <1>2, <1>3, <1>4, <1>5, <1>6, <1>7, <1>8 DEF Next

THEOREM CacheInductive == Spec => []CacheInv
BY InitCache, NextCache, PTL DEF Spec

(* "assert(i_bvc != bv_cache.end())": the loop that evicts vectors pops no  *)
(* use of a vector that is not cached.                                      *)
THEOREM AssertionHolds == Spec => []NoAbort
<1>1. CacheInv => NoAbort
  BY DEF CacheInv, CallInProgress, NoAbort
<1> QED BY <1>1, CacheInductive, PTL

(* While a vector is cached its last use is in the queue, so the loop has   *)
(* something to pop.                                                        *)
THEOREM CachedIsQueued == Spec => []QueueHasCached
<1>1. CacheInv => QueueHasCached
  BY DEF CacheInv
<1> QED BY <1>1, CacheInductive, PTL

(* An eviction takes the vector that was used longest ago.                  *)
THEOREM OldestGoes == Spec => EvictsOldest
<1> DEFINE P == \A i \in DOMAIN bv_cache \ DOMAIN bv_cache' :
                  bv_time' # 0 => /\ bvc_sz >= CacheKeep
                                  /\ \A j \in DOMAIN bv_cache :
                                       bv_cache[i].time <= bv_cache[j].time
<1>1. ASSUME CacheInv, [Next]_vars PROVE [P]_vars
  <2> SUFFICES ASSUME NEW i \in DOMAIN bv_cache \ DOMAIN bv_cache', bv_time' # 0
               PROVE  /\ bvc_sz >= CacheKeep
                      /\ \A j \in DOMAIN bv_cache :
                           bv_cache[i].time <= bv_cache[j].time
    OBVIOUS
  <2>1. EvictOne
    BY <1>1 DEF Next, NewBdd, Collect, Hit, Miss, Evicted, Fill, clear_bdd2vec, vars
  <2>2. PICK x \in bv_lru :
           /\ IsTop(x)
           /\ IF x[2] \notin DOMAIN bv_cache THEN pc' = "abort" /\ Skip(x)
              ELSE pc' = pc /\ IF IsLastUse(x) THEN Evict(x) ELSE Skip(x)
    BY <2>1 DEF EvictOne
  <2>3. IsLastUse(x) /\ i = x[2]
    BY <2>2 DEF Skip, Evict
  <2>4. \A j \in DOMAIN bv_cache : bv_cache[i].time <= bv_cache[j].time
    BY <1>1, <2>2, <2>3 DEF CacheInv, QueueHasCached, IsTop, IsLastUse
  <2> QED BY <2>1, <2>4 DEF EvictOne
<1> QED BY <1>1, CacheInductive, PTL DEF Spec, EvictsOldest

-----------------------------------------------------------------------------
(* What the cache returns *)

(* A cached vector is that of the BDD that has the ID now, unless the BDD   *)
(* it was made for has been collected since; so is the one returned last,   *)
(* until the next call.                                                     *)
IsVectorOf(v, i) == i \in Ids /\ bdds[i] # <<>> /\ v = Vector(bdds[i])

ContentInv ==
  /\ bdds \in [Ids -> Covers \cup {<<>>}]
  /\ stale \subseteq DOMAIN bv_cache
  /\ \A i \in DOMAIN bv_cache : i \notin stale => IsVectorOf(bv_cache[i].vec, i)
  /\ ret.id \notin stale \cup {NoId} => IsVectorOf(ret.vec, ret.id)
  /\ pc # "idle" => bdds[idB] # <<>> /\ ret = Nothing

LEMMA InitContent == Init => ContentInv
BY DEF Init, ContentInv, Nothing

LEMMA NewContent == ASSUME CacheInv, ContentInv, NewBdd PROVE ContentInv'
<1>1. PICK i \in Ids, c \in Covers : bdds[i] = <<>> /\ bdds' = [bdds EXCEPT ![i] = c]
  BY DEF NewBdd
<1>2. UNCHANGED <<bv_cache, pc, idB, ret, stale>> /\ pc = "idle"
  BY DEF NewBdd
<1>3. bdds' \in [Ids -> Covers \cup {<<>>}] /\ \A j \in Ids : bdds[j] # <<>> => bdds'[j] = bdds[j]
  BY <1>1 DEF ContentInv
<1>4. \A v, j : IsVectorOf(v, j) => IsVectorOf(v, j)'
  BY <1>3 DEF IsVectorOf
<1> QED
  BY <1>2, <1>3, <1>4 DEF ContentInv

LEMMA CollectContent == ASSUME CacheInv, ContentInv, Collect PROVE ContentInv'
<1>1. PICK i \in Ids : /\ bdds' = [bdds EXCEPT ![i] = <<>>]
                       /\ stale' = stale \cup ({i} \cap DOMAIN bv_cache)
  BY DEF Collect
<1>2. UNCHANGED <<bv_cache, pc, idB>> /\ pc = "idle" /\ ret' = Nothing
  BY DEF Collect
<1>3. bdds' \in [Ids -> Covers \cup {<<>>}] /\ \A j \in Ids : j # i => bdds'[j] = bdds[j]
  BY <1>1 DEF ContentInv
<1>4. \A v, j : j # i /\ IsVectorOf(v, j) => IsVectorOf(v, j)'
  BY <1>3 DEF IsVectorOf
<1> QED
  BY <1>1, <1>2, <1>3, <1>4 DEF ContentInv, Nothing

LEMMA HitContent == ASSUME CacheInv, ContentInv, NEW i \in Ids, Hit(i) PROVE ContentInv'
<1>1. /\ i \in DOMAIN bv_cache /\ pc = "idle" /\ UNCHANGED <<bdds, pc, idB, stale>>
      /\ ret' = [id |-> i, vec |-> bv_cache[i].vec]
      /\ bv_cache' = [bv_cache EXCEPT ![i].time = bv_time + 1]
  BY DEF Hit, Called
<1>2. DOMAIN bv_cache' = DOMAIN bv_cache /\ \A j \in DOMAIN bv_cache : bv_cache'[j].vec = bv_cache[j].vec
  BY <1>1 DEF CacheInv, Fields
<1>3. \A v, j : IsVectorOf(v, j) => IsVectorOf(v, j)'
  BY <1>1 DEF IsVectorOf
<1>4. ret'.id = i /\ ret'.vec = bv_cache[i].vec
  BY <1>1
<1> QED
  BY <1>1, <1>2, <1>3, <1>4 DEF ContentInv

LEMMA EvictContent == ASSUME CacheInv, ContentInv, EvictOne PROVE ContentInv'
<1>1. PICK x \in bv_lru : Evict(x) \/ Skip(x)
  BY DEF EvictOne
<1>2. UNCHANGED <<bdds, idB, ret>> /\ ret = Nothing /\ bdds[idB] # <<>>
  BY DEF EvictOne, ContentInv
<1>3. \A v, j : IsVectorOf(v, j) => IsVectorOf(v, j)'
  BY <1>2 DEF IsVectorOf
<1>4. CASE Evict(x)
  <2>1. /\ DOMAIN bv_cache' = DOMAIN bv_cache \ {x[2]} /\ stale' = stale \ {x[2]}
        /\ \A j \in DOMAIN bv_cache' : bv_cache'[j] = bv_cache[j]
    BY <1>4 DEF Evict
  <2> QED
    BY <1>2, <1>3, <2>1 DEF ContentInv, Nothing
<1>5. CASE Skip(x)
  <2>1. UNCHANGED <<bv_cache, stale>>
    BY <1>5 DEF Skip
  <2> QED
    BY <1>2, <1>3, <2>1 DEF ContentInv, Nothing
<1> QED
  BY <1>1, <1>4, <1>5

LEMMA FillContent == ASSUME CacheInv, ContentInv, Fill PROVE ContentInv'
<1> DEFINE v == Vector(bdds[idB])
<1>1. idB \in Ids /\ idB \notin DOMAIN bv_cache /\ idB \notin stale /\ bdds[idB] # <<>>
  BY DEF Fill, CacheInv, CallInProgress, ContentInv
<1>2. /\ UNCHANGED <<bdds, stale>> /\ pc' = "idle" /\ ret' = [id |-> idB, vec |-> v]
      /\ bv_cache' = [j \in DOMAIN bv_cache \cup {idB} |->
                        IF j = idB THEN [time |-> bv_time, vec |-> v] ELSE bv_cache[j]]
  BY DEF Fill
<1>3. IsVectorOf(v, idB)
  BY <1>1 DEF IsVectorOf
<1> HIDE DEF v
<1>4. /\ DOMAIN bv_cache' = DOMAIN bv_cache \cup {idB} /\ bv_cache'[idB].vec = v
      /\ \A j \in DOMAIN bv_cache : bv_cache'[j] = bv_cache[j]
      /\ ret'.id = idB /\ ret'.vec = v
  BY <1>1, <1>2
<1>5. \A u, j : IsVectorOf(u, j) => IsVectorOf(u, j)'
  BY <1>2 DEF IsVectorOf
<1>6. ASSUME NEW i \in DOMAIN bv_cache', i \notin stale'
      PROVE  i \in Ids /\ bdds'[i] # <<>> /\ bv_cache'[i].vec = Vector(bdds'[i])
  <2>1. IsVectorOf(bv_cache'[i].vec, i)
    <3>1. CASE i = idB
      BY <1>3, <1>4, <3>1
    <3>2. CASE i # idB
      BY <1>2, <1>4, <1>6, <3>2 DEF ContentInv
    <3> QED
      BY <3>1, <3>2
  <2> QED
    BY <1>2, <2>1 DEF IsVectorOf
<1>7. ret'.id \in Ids /\ bdds'[ret'.id] # <<>> /\ ret'.vec = Vector(bdds'[ret'.id])
  BY <1>2, <1>3, <1>4 DEF IsVectorOf
<1>8. bdds' \in [Ids -> Covers \cup {<<>>}] /\ stale' \subseteq DOMAIN bv_cache'
  BY <1>2, <1>4 DEF ContentInv
<1> QED
  BY <1>2, <1>6, <1>7, <1>8 DEF ContentInv, IsVectorOf

LEMMA NextContent == CacheInv /\ ContentInv /\ [Next]_vars => ContentInv'
<1> SUFFICES ASSUME CacheInv, ContentInv, [Next]_vars PROVE ContentInv'
  OBVIOUS
<1> USE DEF ContentInv, IsVectorOf
<1>1. CASE NewBdd
  BY <1>1, NewContent
<1>2. CASE Collect
  BY <1>2, CollectContent
<1>3. ASSUME NEW i \in Ids, Hit(i)
      PROVE  ContentInv'
  BY <1>3, HitContent
<1>4. ASSUME NEW i \in Ids, Miss(i)
      PROVE  ContentInv'
  BY <1>4 DEF Miss, Called, Nothing
<1>5. CASE EvictOne
  BY <1>5, EvictContent
<1>6. CASE Evicted
  BY <1>6 DEF Evicted
<1>7. CASE Fill
  BY <1>7, FillContent
<1>8. CASE clear_bdd2vec
  BY <1>8 DEF clear_bdd2vec, Nothing
<1>9. CASE UNCHANGED vars
  BY <1>9 DEF vars
<1> QED
  BY <1>1, <1>2, <1>3, <1>4, <1>5, <1>6, <1>7, <1>8, <1>9 DEF Next

(* bdd2vec returns the numbers of the BDD it was given in ascending order,  *)
(* cached or not, however vectors were evicted, BDDs collected and IDs      *)
(* reused before, unless the vector in the cache is that of a collected     *)
(* BDD; provided that the rows are expanded to the numbers of each BDD.     *)
THEOREM ReturnsTheNumbers == ASSUME VectorsRight PROVE Spec => []ReturnsNumbers
<1>1. ContentInv => ReturnsNumbers
  BY VectorsRight DEF ContentInv, IsVectorOf, ReturnsNumbers, VectorsRight
<1> QED
  BY <1>1, InitContent, NextContent, CacheInductive, PTL DEF Spec
=============================================================================
