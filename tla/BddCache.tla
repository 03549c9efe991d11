------------------------------ MODULE BddCache ------------------------------
(* The cache of bdd2vec in util.cpp: sorted vectors of the numbers a BDD    *)
(* represents, keyed by the BDD's ID, evicted by last use once their total  *)
(* size reaches a limit.  A use pushes a new entry on the priority queue    *)
(* bv_lru and leaves the old ones there; they are skipped when popped.      *)
(* Of the BDD library the model has the IDs: a program may create BDDs and  *)
(* drop them, and the library may collect one nobody refers to and reuse    *)
(* its ID (the cache holds IDs, not references).                            *)
EXTENDS Integers, FiniteSets, Sequences, FiniteSetsExt, SequencesExt

CONSTANTS Ids,          \* BDD IDs
          Covers,       \* the BDDs: sequences of disjoint rows (below)
          CacheMax,     \* bvc_max << 18: the limit, in vector entries
          CacheKeep,    \* (bvc_max - bvc_remove) << 18
          MaxTime       \* bound on bv_time

ASSUME CacheAssumption == /\ Ids \subseteq Nat \ {0, 1}   \* not bddfalse, bddtrue
                          /\ CacheMax \in Nat /\ CacheKeep \in Nat
                          /\ 0 < CacheKeep /\ CacheKeep <= CacheMax
                          /\ MaxTime \in Nat

VARIABLES bdds,         \* the cover of each ID in use, <<>> of a free one
          bv_cache,     \* ID -> [time, vec], on the cached IDs
          bvc_sz,       \* entries in all cached vectors
          bv_lru,       \* set of <<time, ID>>
          bv_time,
          pc,           \* idle, evict (the loop), fill or abort
          idB,          \* the ID of the call in progress
          ret,          \* what the last call returned: [id, vec]
          stale         \* cached IDs whose BDD was collected (for the properties)

vars == <<bdds, bv_cache, bvc_sz, bv_lru, bv_time, pc, idB, ret, stale>>
NoId == 0               \* bddfalse: its vector is empty and not cached
Nothing == [id |-> NoId, vec |-> <<>>]

-----------------------------------------------------------------------------
(* A row of bdd_allsat assigns 0, 1 or -1 (either) to each variable of      *)
(* domain 0, interleaved with those of domain 1, which do not matter.       *)

Bit(v, k)   == v[2 * k + 1]
Width(v)    == (Len(v) + 1) \div 2
Places(v)   == 0 .. Width(v) - 1
Sum(S)      == FoldSet(LAMBDA k, n : n + 2 ^ k, 0, S)
BaseOnes(v) == Sum({k \in Places(v) : Bit(v, k) # 0})   \* Mutation: -1 taken for 1
Base(v)     == Sum({k \in Places(v) : Bit(v, k) = 1})
DontCare(v) == SetToSortSeq({k \in Places(v) : Bit(v, k) = -1}, <)

(* All subsets of the don't-cares are added to the base; up to two of them  *)
(* by cases that fall through, more of them by counting.                    *)
sat2vec(v) ==
  LET base == Base(v)
      m(j) == 2 ^ DontCare(v)[j]
      n    == Len(DontCare(v))
      bits(i) == {j \in 1 .. n : (i \div 2 ^ (j - 1)) % 2 = 1}
  IN
  CASE n = 0 -> <<base>>
    [] n = 1 -> <<base + m(1), base>>
    [] n = 2 -> <<base + m(2), base + m(2) + m(1), base + m(1), base>>
    [] OTHER -> [i \in 1 .. 2 ^ n |->
                   base + FoldSet(LAMBDA j, s : s + m(j), 0, bits(i - 1))]

(* What the BDD means: a number is in it if some row agrees with its bits.  *)
Agrees(x, v)  == \A k \in Places(v) : Bit(v, k) \in {-1, (x \div 2 ^ k) % 2}
Numbers(cover) ==
  {x \in 0 .. 2 ^ Width(cover[1]) - 1 : \E r \in DOMAIN cover : Agrees(x, cover[r])}

Sorted(s) == SortSeq(s, <)
Vector(cover) == Sorted(FlattenSeq([r \in DOMAIN cover |-> sat2vec(cover[r])]))

(* A vector lists the numbers of a BDD in order, each once.                 *)
Lists(v, cover) ==
  /\ Range(v) = Numbers(cover)
  /\ \A k \in 1 .. Len(v) - 1 : v[k] < v[k + 1]

(* What the loop over the rows of a BDD has to deliver: sat2vec and the     *)
(* sort.                                                                    *)
VectorsRight == \A c \in Covers \ {<<>>} : Lists(Vector(c), c)

-----------------------------------------------------------------------------
Init ==
  /\ bdds = [i \in Ids |-> <<>>]
  /\ bv_cache = <<>> /\ bvc_sz = 0 /\ bv_lru = {} /\ bv_time = 0
  /\ pc = "idle" /\ idB = NoId /\ ret = Nothing /\ stale = {}

(* The program computes a BDD; the library gives it an unused ID.           *)
NewBdd ==
  /\ pc = "idle"
  /\ \E i \in Ids, c \in Covers :
       /\ bdds[i] = <<>> /\ c \notin Range(bdds)
       /\ bdds' = [bdds EXCEPT ![i] = c]
  /\ UNCHANGED <<bv_cache, bvc_sz, bv_lru, bv_time, pc, idB, ret, stale>>

(* The program drops its last reference and the library collects the BDD.   *)
Collect ==
  /\ pc = "idle"
  /\ \E i \in Ids : /\ bdds[i] # <<>> /\ bdds' = [bdds EXCEPT ![i] = <<>>]
                    /\ stale' = stale \cup ({i} \cap DOMAIN bv_cache)
  /\ ret' = Nothing
  /\ UNCHANGED <<bv_cache, bvc_sz, bv_lru, bv_time, pc, idB>>

Called(i) == pc = "idle" /\ bdds[i] # <<>> /\ bv_time < MaxTime

Queued(t, i) == bv_lru' = bv_lru \cup {<<t, i>>}

Hit(i) ==
  LET t == bv_time + 1 IN
  /\ Called(i)
  /\ i \in DOMAIN bv_cache
  /\ bv_time' = t
  /\ bv_cache' = [bv_cache EXCEPT ![i].time = t]
  /\ Queued(t, i)
  /\ ret' = [id |-> i, vec |-> bv_cache[i].vec]
  /\ UNCHANGED <<bdds, bvc_sz, pc, idB, stale>>

Miss(i) ==
  /\ Called(i)
  /\ i \notin DOMAIN bv_cache
  /\ bv_time' = bv_time + 1
  /\ idB' = i /\ ret' = Nothing
  /\ pc' = IF bvc_sz >= CacheMax THEN "evict" ELSE "fill"
  /\ UNCHANGED <<bdds, bv_cache, bvc_sz, bv_lru, stale>>

(* Mutation: the latest use is on top.                                      *)
IsTopLatest(x) == x \in bv_lru /\ \A y \in bv_lru : y[1] <= x[1]

IsTop(x) == x \in bv_lru /\ \A y \in bv_lru : x[1] <= y[1]

(* Mutation: a vector is evicted at any of its uses.                        *)
IsAnyUse(x) == TRUE

IsLastUse(x) == x[1] = bv_cache[x[2]].time

Evict(x) ==
  /\ bv_cache' = [j \in DOMAIN bv_cache \ {x[2]} |-> bv_cache[j]]
  /\ bvc_sz' = bvc_sz - Len(bv_cache[x[2]].vec)
  /\ bv_lru' = bv_lru \ {x}
  /\ stale' = stale \ {x[2]}

(* Mutation: an outdated use stays on top of the queue.                     *)
SkipInPlace(x) == UNCHANGED <<bv_cache, bvc_sz, bv_lru, stale>>

Skip(x) == bv_lru' = bv_lru \ {x} /\ UNCHANGED <<bv_cache, bvc_sz, stale>>

(* One turn of the loop: pop the oldest use; it evicts its vector only if   *)
(* it is the vector's last use.  The program asserts that there is one.     *)
EvictOne ==
  /\ pc = "evict" /\ bvc_sz >= CacheKeep
  /\ \E x \in bv_lru :
       /\ IsTop(x)
       /\ IF x[2] \notin DOMAIN bv_cache THEN pc' = "abort" /\ Skip(x)
          ELSE pc' = pc /\ IF IsLastUse(x) THEN Evict(x) ELSE Skip(x)
  /\ UNCHANGED <<bdds, bv_time, idB, ret>>

Evicted ==
  /\ pc = "evict" /\ bvc_sz < CacheKeep
  /\ pc' = "fill"
  /\ UNCHANGED <<bdds, bv_cache, bvc_sz, bv_lru, bv_time, idB, ret, stale>>

Fill ==
  LET v == Vector(bdds[idB]) IN
  /\ pc = "fill"
  /\ bv_cache' = [j \in DOMAIN bv_cache \cup {idB} |->
                    IF j = idB THEN [time |-> bv_time, vec |-> v] ELSE bv_cache[j]]
  /\ bvc_sz' = bvc_sz + Len(v)
  /\ Queued(bv_time, idB)
  /\ bv_time' = bv_time + 1
  /\ ret' = [id |-> idB, vec |-> v]
  /\ idB' = NoId /\ pc' = "idle"
  /\ UNCHANGED <<bdds, stale>>

(* clear_bdd2vec, when the results are released.                            *)
clear_bdd2vec ==
  /\ pc = "idle"
  /\ bv_cache' = <<>> /\ bvc_sz' = 0 /\ bv_lru' = {} /\ bv_time' = 0
  /\ ret' = Nothing /\ stale' = {}
  /\ UNCHANGED <<bdds, pc, idB>>

Next == \/ NewBdd \/ Collect \/ (\E i \in Ids : Hit(i) \/ Miss(i))
        \/ EvictOne \/ Evicted \/ Fill \/ clear_bdd2vec

Spec == Init /\ [][Next]_vars

(* A call runs to its end without waiting for anything.                     *)
FairSpec == Spec /\ WF_vars(EvictOne \/ Evicted \/ Fill)

-----------------------------------------------------------------------------
(* What must hold of the cache of bdd2vec.                                  *)

TypeOK ==
  /\ bdds \in [Ids -> Covers \cup {<<>>}]
  /\ \E D \in SUBSET Ids : bv_cache \in [D -> [time : Nat, vec : Seq(Nat)]]
  /\ bvc_sz \in Int /\ bv_time \in Nat
  /\ bv_lru \subseteq Nat \X Ids
  /\ pc \in {"idle", "evict", "fill", "abort"}
  /\ idB \in Ids \cup {NoId}
  /\ pc \in {"evict", "fill"} => idB \in Ids

(* "assert(i_bvc != bv_cache.end())" (util.cpp:156): every use in the queue *)
(* is of a vector that is still cached, although uses are left behind when  *)
(* a vector is used again and vectors are evicted.                          *)
NoAbort == pc # "abort"

(* The eviction loop always has a use to pop: the size it waits for is the  *)
(* size of vectors that are in the queue.                                   *)
QueueHasCached ==
  \A i \in DOMAIN bv_cache : <<bv_cache[i].time, i>> \in bv_lru

(* The vector returned holds the numbers of the BDD asked for, in ascending *)
(* order and each once ("This lets the solver iterate the points-to set in  *)
(* increasing order", util.cpp:176), also when it comes from the cache; but *)
(* not if the ID was reused since, as the cache is not told of it.          *)
ReturnsNumbers ==
  ret.id \notin stale \cup {NoId} => Lists(ret.vec, bdds[ret.id])

(* A vector is evicted only if no other one was used longer ago, and only   *)
(* while the cache is above the size it is reduced to.                      *)
EvictsOldest ==
  [][\A i \in DOMAIN bv_cache \ DOMAIN bv_cache' :
       bv_time' # 0 => /\ bvc_sz >= CacheKeep
                       /\ \A j \in DOMAIN bv_cache :
                            bv_cache[i].time <= bv_cache[j].time]_vars

(* Every call returns: the eviction loop ends.                              *)
Returns == pc = "evict" ~> pc = "idle"
=============================================================================
