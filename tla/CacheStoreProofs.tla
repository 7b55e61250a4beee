-------------------------- MODULE CacheStoreProofs --------------------------
(***************************************************************************)
(* Proofs about the sharded store for every set of keys, number of shards, *)
(* size function and budget: its byte accounting is exact, its LRU lists   *)
(* match its maps, its budget is respected, a writer's own key is the last *)
(* one eviction takes, and it implements the expiring map.                 *)
(***************************************************************************)
EXTENDS CacheStoreRefinement, FiniteSetTheorems, TLAPS

-----------------------------------------------------------------------------
(***************************************************************************)
(* Sums of sizes as cardinalities.                                         *)
(***************************************************************************)
Pairs(f, R) == UNION {{k} \X (1..f[k]) : k \in R}
W(f, R) == Cardinality(Pairs(f, R))

\* Membership in a sum's set of bytes.
LEMMA PairsMember ==
  ASSUME NEW f, NEW R, NEW p
  PROVE  p \in Pairs(f, R) <=>
           \E k \in R : \E b \in 1..f[k] : p = <<k, b>>
BY DEF Pairs

\* A sum over finitely many keys is finite.
LEMMA PairsFinite ==
  ASSUME NEW R, IsFiniteSet(R), NEW f, \A k \in R : f[k] \in Nat
  PROVE  IsFiniteSet(Pairs(f, R)) /\ W(f, R) \in Nat
<1> DEFINE g == [k \in R |-> {k} \X (1..f[k])]
           T == {{k} \X (1..f[k]) : k \in R}
<1>1. g \in Surjection(R, T)
  <2>1. g \in [R -> T]
    OBVIOUS
  <2>2. \A t \in T : \E k \in R : g[k] = t
    OBVIOUS
  <2> QED BY <2>1, <2>2 DEF Surjection
<1>2. IsFiniteSet(T)
  <2> HIDE DEF g, T
  <2> QED BY <1>1, FS_Surjection
<1>3. \A t \in T : IsFiniteSet(t)
  <2> SUFFICES ASSUME NEW k \in R PROVE IsFiniteSet({k} \X (1..f[k]))
    OBVIOUS
  <2>1. IsFiniteSet({k})
    BY FS_Singleton
  <2>2. IsFiniteSet(1..f[k])
    BY FS_Interval
  <2> QED BY <2>1, <2>2, FS_Product
<1>4. IsFiniteSet(UNION T)
  <2> HIDE DEF T
  <2> QED BY <1>2, <1>3, FS_UNION
<1>5. IsFiniteSet(Pairs(f, R))
  BY <1>4 DEF Pairs
<1> QED BY <1>5, FS_CardinalityType DEF W

\* A sum over one key is that key's size.
LEMMA WeightOne ==
  ASSUME NEW k, NEW f, f[k] \in Nat
  PROVE  W(f, {k}) = f[k]
<1>1. Pairs(f, {k}) = {k} \X (1..f[k])
  BY DEF Pairs
<1>2. IsFiniteSet({k}) /\ Cardinality({k}) = 1
  BY FS_Singleton
<1>3. IsFiniteSet(1..f[k]) /\ Cardinality(1..f[k]) = f[k]
  BY FS_Interval
<1>4. Cardinality({k} \X (1..f[k])) = Cardinality({k}) * Cardinality(1..f[k])
  <2> DEFINE B == 1..f[k]
  <2>1. IsFiniteSet(B)
    BY <1>3
  <2> HIDE DEF B
  <2>2. Cardinality({k} \X B) = Cardinality({k}) * Cardinality(B)
    BY <1>2, <2>1, FS_Product
  <2> QED BY <2>2 DEF B
<1>5. Cardinality({k} \X (1..f[k])) = f[k]
  BY <1>2, <1>3, <1>4
<1>6. W(f, {k}) = Cardinality({k} \X (1..f[k]))
  BY <1>1, Zenon DEF W
<1> QED BY <1>5, <1>6, Zenon

\* A sum depends only on the sizes it adds.
LEMMA WeightSame ==
  ASSUME NEW R, NEW f, NEW g, \A k \in R : f[k] = g[k]
  PROVE  W(f, R) = W(g, R)
<1>1. Pairs(f, R) \subseteq Pairs(g, R)
  BY PairsMember
<1>2. Pairs(g, R) \subseteq Pairs(f, R)
  BY PairsMember
<1> QED BY <1>1, <1>2 DEF W

\* A sum splits over a subset of its keys.
LEMMA WeightSplit ==
  ASSUME NEW A, IsFiniteSet(A), NEW R \in SUBSET A, NEW f, \A k \in A : f[k] \in Nat
  PROVE  W(f, A) = W(f, R) + W(f, A \ R)
<1>1. IsFiniteSet(R) /\ IsFiniteSet(A \ R)
  BY FS_Subset, FS_Difference
<1>2. IsFiniteSet(Pairs(f, R)) /\ W(f, R) \in Nat
  BY <1>1, PairsFinite
<1>3. IsFiniteSet(Pairs(f, A \ R)) /\ W(f, A \ R) \in Nat
  BY <1>1, PairsFinite
<1>4. Pairs(f, R) \cap Pairs(f, A \ R) = {}
  <2> SUFFICES ASSUME NEW p, p \in Pairs(f, R), p \in Pairs(f, A \ R)
               PROVE  FALSE
    OBVIOUS
  <2>1. PICK k \in R : \E b \in 1..f[k] : p = <<k, b>>
    BY PairsMember
  <2>2. PICK j \in A \ R : \E b \in 1..f[j] : p = <<j, b>>
    BY PairsMember
  <2> QED BY <2>1, <2>2
<1>5. Pairs(f, A) = Pairs(f, R) \cup Pairs(f, A \ R)
  <2>1. Pairs(f, A) \subseteq Pairs(f, R) \cup Pairs(f, A \ R)
    BY PairsMember
  <2>2. Pairs(f, R) \cup Pairs(f, A \ R) \subseteq Pairs(f, A)
    BY PairsMember
  <2> QED BY <2>1, <2>2
<1>6. Cardinality(Pairs(f, A)) =
        Cardinality(Pairs(f, R)) + Cardinality(Pairs(f, A \ R))
          - Cardinality(Pairs(f, R) \cap Pairs(f, A \ R))
  BY <1>2, <1>3, <1>5, FS_Union
<1>7. Cardinality(Pairs(f, R) \cap Pairs(f, A \ R)) = 0
  BY <1>4, FS_EmptySet, Zenon
<1>8. W(f, A) = W(f, R) + W(f, A \ R) - 0
  BY <1>6, <1>7, Zenon DEF W
<1> QED BY <1>2, <1>3, <1>8

\* Changing the sizes of R's keys changes a sum by the difference.
LEMMA WeightUpdate ==
  ASSUME NEW A, IsFiniteSet(A), NEW R \in SUBSET A, NEW f, NEW g,
         \A k \in A : f[k] \in Nat /\ g[k] \in Nat,
         \A k \in A \ R : f[k] = g[k]
  PROVE  /\ W(g, A) = W(f, A) - W(f, R) + W(g, R)
         /\ W(g, A) \in Nat /\ W(f, A) \in Nat
         /\ W(f, R) \in Nat /\ W(g, R) \in Nat
<1>1. W(f, A) = W(f, R) + W(f, A \ R)
  BY WeightSplit
<1>2. W(g, A) = W(g, R) + W(g, A \ R)
  BY WeightSplit
<1>3. W(f, A \ R) = W(g, A \ R)
  BY WeightSame
<1>4. IsFiniteSet(R) /\ IsFiniteSet(A \ R)
  BY FS_Subset, FS_Difference
<1>5. W(f, A) \in Nat /\ W(g, A) \in Nat
  BY PairsFinite
<1>6. W(f, R) \in Nat /\ W(g, R) \in Nat
  BY <1>4, PairsFinite
<1>7. W(f, A \ R) \in Nat
  BY <1>4, PairsFinite
<1> QED BY <1>1, <1>2, <1>3, <1>5, <1>6, <1>7

\* Keys of size zero weigh nothing.
LEMMA WeightZero ==
  ASSUME NEW R, NEW f, \A k \in R : f[k] = 0
  PROVE  W(f, R) = 0
<1>1. Pairs(f, R) = {}
  <2> SUFFICES ASSUME NEW p, p \in Pairs(f, R) PROVE FALSE
    OBVIOUS
  <2>1. PICK k \in R : \E b \in 1..f[k] : p = <<k, b>>
    BY PairsMember
  <2> QED BY <2>1
<1> QED BY <1>1, FS_EmptySet DEF W

-----------------------------------------------------------------------------
(***************************************************************************)
(* The accounting invariant in terms of sums over fixed sets of keys.      *)
(***************************************************************************)
EntryMap == [Keys -> Entry \cup {NoEntry}]
SizesOf(e) == [k \in Keys |-> IF e[k] # NoEntry THEN e[k].size ELSE 0]
HeldIn(e) == {k \in Keys : e[k] # NoEntry}
BytesIn(e, A) == UNION {{k} \X (1..(IF e[k] # NoEntry THEN e[k].size ELSE 0)) : k \in A}

\* The sizes of a map of entries are naturals.
LEMMA SizesType ==
  ASSUME NEW e \in EntryMap
  PROVE  SizesOf(e) \in [Keys -> Nat]
BY DEF EntryMap, SizesOf, Entry

\* Weight, whatever the state, is the sum of the entries' sizes; absent keys
\* add nothing to it.
LEMMA WeightForm ==
  ASSUME NEW e \in EntryMap, NEW A \in SUBSET Keys
  PROVE  /\ Cardinality(BytesIn(e, A)) = W(SizesOf(e), A)
         /\ Cardinality(BytesIn(e, HeldIn(e) \cap A)) = W(SizesOf(e), A)
<1> DEFINE f == SizesOf(e)
<1>1. ASSUME NEW B \in SUBSET Keys
      PROVE  BytesIn(e, B) = Pairs(f, B)
  <2>1. \A k \in B : f[k] = IF e[k] # NoEntry THEN e[k].size ELSE 0
    BY DEF SizesOf
  <2> HIDE DEF f
  <2>2. ASSUME NEW p
        PROVE  p \in BytesIn(e, B) <=> p \in Pairs(f, B)
    <3>1. p \in BytesIn(e, B) <=>
            \E k \in B : p \in {k} \X (1..(IF e[k] # NoEntry THEN e[k].size ELSE 0))
      BY Zenon DEF BytesIn
    <3>2. p \in Pairs(f, B) <=> \E k \in B : p \in {k} \X (1..f[k])
      BY Zenon DEF Pairs
    <3> QED BY <3>1, <3>2, <2>1, Zenon
  <2> QED BY <2>2
<1>2. Cardinality(BytesIn(e, A)) = W(f, A)
  BY <1>1, Zenon DEF W
<1>3. Cardinality(BytesIn(e, HeldIn(e) \cap A)) = W(f, HeldIn(e) \cap A)
  <2>1. HeldIn(e) \cap A \in SUBSET Keys
    OBVIOUS
  <2> QED BY <1>1, <2>1, Zenon DEF W
<1>4. W(f, HeldIn(e) \cap A) = W(f, A)
  <2>1. f \in [Keys -> Nat]
    BY SizesType
  <2>2. \A k \in A \ HeldIn(e) : f[k] = 0
    BY DEF SizesOf, HeldIn
  <2>3. IsFiniteSet(A)
    BY StoreAssumption, FS_Subset
  <2> HIDE DEF f
  <2> DEFINE R == HeldIn(e) \cap A
  <2>4. W(f, A) = W(f, R) + W(f, A \ R)
    <3>1. R \in SUBSET A
      OBVIOUS
    <3>2. \A k \in A : f[k] \in Nat
      BY <2>1
    <3> HIDE DEF R
    <3> QED BY <2>3, <3>1, <3>2, WeightSplit
  <2>5. W(f, A \ R) = 0
    <3>1. \A k \in A \ R : f[k] = 0
      BY <2>2
    <3> HIDE DEF R
    <3> QED BY <3>1, WeightZero
  <2>6. W(f, R) \in Nat
    <3>1. IsFiniteSet(R)
      BY <2>3, FS_Subset
    <3>2. \A k \in R : f[k] \in Nat
      BY <2>1
    <3> HIDE DEF R
    <3> QED BY <3>1, <3>2, PairsFinite
  <2> HIDE DEF R
  <2>7. W(f, R) = W(f, A)
    BY <2>4, <2>5, <2>6
  <2> QED BY <2>7 DEF R
<1> QED BY <1>2, <1>3, <1>4, Zenon

\* AccountingExact for given entries, counters and gauges.
Balanced(e, used, mem, cur) ==
  /\ \A s \in Shards : used[s] = W(SizesOf(e), KeysOf(s))
  /\ mem = W(SizesOf(e), Keys)
  /\ cur = Cardinality(HeldIn(e))

\* The byte accounting of the store is exactly the balance of its books ...
LEMMA BalancedIs ==
  ASSUME entries \in EntryMap
  PROVE  AccountingExact <=> Balanced(entries, usedBytes, memoryBytes, currentEntries)
<1>1. Present = HeldIn(entries)
  BY DEF Present, HeldIn
<1>2. ASSUME NEW A \in SUBSET Keys
      PROVE  Weight(Present \cap A) = W(SizesOf(entries), A)
  <2>1. Weight(Present \cap A) = Cardinality(BytesIn(entries, Present \cap A))
    BY Zenon DEF Weight, Bytes, SizeAt, BytesIn
  <2> QED BY <2>1, <1>1, WeightForm, Zenon
<1>3. \A s \in Shards : Weight(Present \cap KeysOf(s)) = W(SizesOf(entries), KeysOf(s))
  BY <1>2 DEF KeysOf
<1>4. Weight(Present) = W(SizesOf(entries), Keys)
  <2>1. Present = Present \cap Keys
    BY DEF Present
  <2> QED BY <1>2, <2>1
<1> QED BY <1>1, <1>3, <1>4 DEF AccountingExact, Balanced

\* ... and so it is after a step.
LEMMA BalancedIsPrimed ==
  ASSUME entries' \in EntryMap
  PROVE  AccountingExact' <=>
           Balanced(entries', usedBytes', memoryBytes', currentEntries')
<1>1. Present' = HeldIn(entries')
  BY DEF Present, HeldIn
<1>2. ASSUME NEW A \in SUBSET Keys
      PROVE  Weight(Present \cap A)' = W(SizesOf(entries'), A)
  <2>1. Weight(Present \cap A)' = Cardinality(BytesIn(entries', Present' \cap A))
    BY Zenon DEF Weight, Bytes, SizeAt, BytesIn
  <2> QED BY <2>1, <1>1, WeightForm, Zenon
<1>3. \A s \in Shards :
        Weight(Present \cap KeysOf(s))' = W(SizesOf(entries'), KeysOf(s))
  BY <1>2 DEF KeysOf
<1>4. Weight(Present)' = W(SizesOf(entries'), Keys)
  <2>1. Present' = Present' \cap Keys
    BY DEF Present
  <2>2. Weight(Present)' = Weight(Present \cap Keys)'
    BY <2>1, Zenon DEF Weight, Bytes, SizeAt
  <2> QED BY <1>2, <2>2
<1> QED BY <1>1, <1>3, <1>4 DEF AccountingExact, Balanced

\* If only the entries of R, keys of one shard, change, the books stay
\* balanced when that shard and the gauge move by the change of R's sum.
LEMMA Rebalance ==
  ASSUME NEW e \in EntryMap, NEW e2 \in EntryMap,
         NEW s \in Shards, NEW R \in SUBSET KeysOf(s),
         \A k \in Keys \ R : SizesOf(e2)[k] = SizesOf(e)[k],
         NEW used \in [Shards -> Int], NEW mem, NEW cur,
         Balanced(e, used, mem, cur),
         NEW used2, NEW mem2,
         used2 = [used EXCEPT ![s] = used[s] - W(SizesOf(e), R) + W(SizesOf(e2), R)],
         mem2 = mem - W(SizesOf(e), R) + W(SizesOf(e2), R)
  PROVE  Balanced(e2, used2, mem2, Cardinality(HeldIn(e2)))
<1> DEFINE f == SizesOf(e)
           g == SizesOf(e2)
<1>1. f \in [Keys -> Nat] /\ g \in [Keys -> Nat]
  BY SizesType
<1>2. IsFiniteSet(Keys)
  BY StoreAssumption
<1>3. \A k \in Keys \ R : f[k] = g[k]
  OBVIOUS
<1> HIDE DEF f, g
<1>a. \A k \in Keys : f[k] \in Nat /\ g[k] \in Nat
  BY <1>1
<1>4. mem2 = W(g, Keys)
  <2>1. R \in SUBSET Keys
    BY DEF KeysOf
  <2>2. /\ W(g, Keys) = W(f, Keys) - W(f, R) + W(g, R)
        /\ W(f, Keys) \in Nat /\ W(f, R) \in Nat /\ W(g, R) \in Nat
    BY <1>a, <1>2, <1>3, <2>1, WeightUpdate
  <2> QED BY <2>2 DEF Balanced, f, g
<1>5. ASSUME NEW t \in Shards
      PROVE  used2[t] = W(g, KeysOf(t))
  <2>1. IsFiniteSet(KeysOf(t)) /\ KeysOf(t) \subseteq Keys
    BY <1>2, FS_Subset DEF KeysOf
  <2>2. used[t] = W(f, KeysOf(t))
    BY DEF Balanced, f
  <2>3. CASE t = s
    <3>1. W(g, KeysOf(s)) = W(f, KeysOf(s)) - W(f, R) + W(g, R)
      BY <1>1, <1>3, <2>1, <2>3, WeightUpdate
    <3> QED BY <2>2, <2>3, <3>1 DEF f, g
  <2>4. CASE t # s
    <3>1. \A k \in KeysOf(t) : f[k] = g[k]
      BY <1>3, <2>4 DEF KeysOf
    <3>2. W(f, KeysOf(t)) = W(g, KeysOf(t))
      BY <3>1, WeightSame
    <3> QED BY <2>2, <2>4, <3>2
  <2> QED BY <2>3, <2>4
<1> QED BY <1>4, <1>5 DEF Balanced, g

-----------------------------------------------------------------------------
(***************************************************************************)
(* The inductive invariant.  The accounting and the LRU order support each *)
(* other: an over-full shard is known to hold a candidate only because its *)
(* list matches its map, and an empty list means zero bytes only because   *)
(* the accounting is exact.  Three facts are added to those properties:    *)
(* the key of the writer that holds a lock heads its shard's list, the     *)
(* keys a FLUSHALL has yet to drop lie in shards it has yet to visit, and  *)
(* no lock is held while the snapshot is loading.                          *)
(***************************************************************************)
WriterNewest ==
  \A s \in Shards :
    mu[s] # Free =>
      /\ ShardOf[mu[s]] = s
      /\ mu[s] \in tracked =>
           \A j \in tracked : j # mu[s] /\ ShardOf[j] = s => <<mu[s], j>> \in newer

FlushProgress ==
  /\ stale \subseteq Present
  /\ \A k \in stale : flushNext # 0 /\ flushNext <= ShardOf[k]

\* No command runs before the snapshot is loaded.
LoadingIsQuiet == ~serving => \A s \in Shards : mu[s] = Free

IInv ==
  /\ TypeOK
  /\ LRUTracksEntries
  /\ AccountingExact
  /\ BudgetRespected
  /\ WriterNewest
  /\ FlushProgress
  /\ LoadingIsQuiet

\* The effect of an operation on one shard, summed up: what is known when it
\* starts, and what every lemma below shows it leaves behind.
ShardInv ==
  /\ entries \in EntryMap
  /\ tracked \subseteq Keys
  /\ newer \subseteq Keys \X Keys
  /\ usedBytes \in [Shards -> Int]
  /\ mu \in [Shards -> Keys \cup {Free}]
  /\ currentEntries \in Int
  /\ memoryBytes \in Int
  /\ stale \subseteq Present
  /\ LRUTracksEntries
  /\ AccountingExact
  /\ BudgetRespected
  /\ WriterNewest

\* touch keeps the order of a list whose new front is k.
LEMMA TouchOrder ==
  ASSUME tracked \subseteq Keys, newer \subseteq Keys \X Keys,
         LRUOrder, NEW k \in Keys, Touch(k)
  PROVE  /\ tracked' = tracked \cup {k}
         /\ newer' \subseteq Keys \X Keys
         /\ LRUOrder'
         /\ \A j \in tracked' : j # k /\ ShardOf[j] = ShardOf[k] => <<k, j>> \in newer'
         /\ \A i, j \in Keys : i # k /\ j # k => (<<i, j>> \in newer' <=> <<i, j>> \in newer)
<1>1. tracked' = tracked \cup {k}
  BY DEF Touch
<1>2. \A i, j \in Keys :
        <<i, j>> \in newer' <=>
          \/ <<i, j>> \in newer /\ i # k /\ j # k
          \/ i = k /\ j \in tracked /\ j # k /\ ShardOf[j] = ShardOf[k]
  BY DEF Touch
<1>3. newer' \subseteq Keys \X Keys
  BY DEF Touch
<1>4. LRUOrder'
  BY <1>1, <1>2 DEF LRUOrder
<1> QED BY <1>1, <1>2, <1>3, <1>4

\* remove keeps the order of the keys that stay.
LEMMA UntrackOrder ==
  ASSUME tracked \subseteq Keys, newer \subseteq Keys \X Keys,
         LRUOrder, NEW R, Untrack(R)
  PROVE  /\ tracked' = tracked \ R
         /\ newer' \subseteq Keys \X Keys
         /\ LRUOrder'
         /\ \A i, j \in Keys :
              <<i, j>> \in newer' <=> <<i, j>> \in newer /\ i \notin R /\ j \notin R
<1>1. tracked' = tracked \ R /\ newer' \subseteq Keys \X Keys
  BY DEF Untrack
<1>2. \A i, j \in Keys :
        <<i, j>> \in newer' <=> <<i, j>> \in newer /\ i \notin R /\ j \notin R
  BY DEF Untrack
<1>3. LRUOrder'
  BY <1>1, <1>2 DEF LRUOrder
<1> QED BY <1>1, <1>2, <1>3

\* set and incrBy: storing an entry, with the lock now held.
LEMMA PutStep ==
  ASSUME ShardInv, NEW k \in Keys, NEW ent \in Entry, Put(k, ent)
  PROVE  ShardInv'
<1> DEFINE s == ShardOf[k]
           f == SizesOf(entries)
           g == SizesOf(entries')
<1>1. s \in Shards /\ k # Free /\ NoEntry \notin Entry /\ IsFiniteSet(Keys)
  BY StoreAssumption
<1>2. /\ entries \in EntryMap /\ entries' \in EntryMap
      /\ entries' = [entries EXCEPT ![k] = ent]
      /\ stale' = stale \ {k}
      /\ mu' = [mu EXCEPT ![s] = k]
  BY DEF ShardInv, Put, EntryMap
<1>3. /\ Present' = Present \cup {k}
      /\ HeldIn(entries') = Present'
      /\ HeldIn(entries) = Present
  BY <1>1, <1>2 DEF Present, HeldIn, EntryMap
<1>4. Touch(k)
  BY DEF Put
<1>5. /\ tracked' = tracked \cup {k}
      /\ newer' \subseteq Keys \X Keys
      /\ LRUOrder'
      /\ \A j \in tracked' : j # k /\ ShardOf[j] = ShardOf[k] => <<k, j>> \in newer'
      /\ \A i, j \in Keys : i # k /\ j # k => (<<i, j>> \in newer' <=> <<i, j>> \in newer)
  BY <1>4, TouchOrder DEF ShardInv, LRUTracksEntries
<1>6. LRUTracksEntries'
  BY <1>3, <1>5 DEF ShardInv, LRUTracksEntries
<1>7. /\ f[k] = SizeAt(k) /\ g[k] = ent.size
      /\ f[k] \in Nat /\ g[k] \in Nat
      /\ \A j \in Keys \ {k} : g[j] = f[j]
  BY <1>1, <1>2 DEF SizesOf, SizeAt, EntryMap, Entry
<1>8. W(f, {k}) = SizeAt(k) /\ W(g, {k}) = ent.size
  <2> HIDE DEF f, g
  <2> QED BY <1>7, WeightOne
<1>9. /\ usedBytes' = [usedBytes EXCEPT ![s] = usedBytes[s] - W(f, {k}) + W(g, {k})]
      /\ memoryBytes' = memoryBytes - W(f, {k}) + W(g, {k})
      /\ currentEntries' = currentEntries + (IF k \in Present THEN 0 ELSE 1)
      /\ usedBytes' \in [Shards -> Int] /\ memoryBytes' \in Int
  <2>1. SizeAt(k) \in Int /\ ent.size \in Int
    BY <1>7
  <2>2. usedBytes[s] + (ent.size - SizeAt(k)) = usedBytes[s] - SizeAt(k) + ent.size
    BY <1>1, <2>1 DEF ShardInv
  <2>3. memoryBytes + (ent.size - SizeAt(k)) = memoryBytes - SizeAt(k) + ent.size
    BY <2>1 DEF ShardInv
  <2>4. /\ usedBytes' = [usedBytes EXCEPT ![s] = usedBytes[s] + (ent.size - SizeAt(k))]
        /\ memoryBytes' = memoryBytes + (ent.size - SizeAt(k))
        /\ currentEntries' = currentEntries + (IF k \in Present THEN 0 ELSE 1)
    BY DEF Put
  <2>5. usedBytes[s] + (ent.size - SizeAt(k)) \in Int
        /\ memoryBytes + (ent.size - SizeAt(k)) \in Int
    BY <1>1, <2>1 DEF ShardInv
  <2>6. usedBytes' \in [Shards -> Int] /\ memoryBytes' \in Int
    BY <1>1, <2>4, <2>5 DEF ShardInv
  <2> HIDE DEF f, g
  <2>7. usedBytes' = [usedBytes EXCEPT ![s] = usedBytes[s] - W(f, {k}) + W(g, {k})]
    BY <1>8, <2>2, <2>4, Zenon
  <2>8. memoryBytes' = memoryBytes - W(f, {k}) + W(g, {k})
    BY <1>8, <2>3, <2>4, Zenon
  <2> QED BY <2>4, <2>6, <2>7, <2>8
<1>10. currentEntries' = Cardinality(HeldIn(entries'))
  <2>1. IsFiniteSet(Present)
    BY <1>1, FS_Subset DEF Present
  <2>2. Cardinality(Present \cup {k}) =
          IF k \in Present THEN Cardinality(Present) ELSE Cardinality(Present) + 1
    BY <2>1, FS_AddElement
  <2>3. Cardinality(Present) \in Nat /\ currentEntries = Cardinality(Present)
    BY <2>1, FS_CardinalityType DEF ShardInv, AccountingExact
  <2>4. currentEntries + (IF k \in Present THEN 0 ELSE 1) = Cardinality(Present \cup {k})
    BY <2>2, <2>3
  <2> QED BY <1>3, <1>9, <2>4, Zenon
<1>11. AccountingExact'
  <2>1. Balanced(entries, usedBytes, memoryBytes, currentEntries)
    BY BalancedIs DEF ShardInv
  <2>2. {k} \in SUBSET KeysOf(s)
    BY DEF KeysOf
  <2>3. usedBytes \in [Shards -> Int]
    BY DEF ShardInv
  <2>4. Balanced(entries', usedBytes', memoryBytes', Cardinality(HeldIn(entries')))
    BY <1>1, <1>2, <1>7, <1>9, <2>1, <2>2, <2>3, Rebalance
  <2> QED BY <1>2, <1>10, <2>4, BalancedIsPrimed
<1>12. BudgetRespected'
  BY <1>1, <1>2, <1>9 DEF ShardInv, BudgetRespected
<1>13. WriterNewest'
  <2> SUFFICES ASSUME NEW t \in Shards, mu'[t] # Free
               PROVE  /\ ShardOf[mu'[t]] = t
                      /\ mu'[t] \in tracked' =>
                           \A j \in tracked' : j # mu'[t] /\ ShardOf[j] = t
                                               => <<mu'[t], j>> \in newer'
    BY DEF WriterNewest
  <2>1. CASE t = s
    BY <1>1, <1>2, <1>5, <2>1 DEF ShardInv
  <2>2. CASE t # s
    <3>1. mu'[t] = mu[t] /\ mu[t] \in Keys
      BY <1>1, <1>2, <2>2 DEF ShardInv
    <3>2. ShardOf[mu[t]] = t
      BY <3>1 DEF ShardInv, WriterNewest
    <3>3. mu[t] # k
      BY <2>2, <3>2
    <3> QED BY <1>5, <2>2, <3>1, <3>2, <3>3 DEF ShardInv, WriterNewest
  <2> QED BY <2>1, <2>2
<1>14. stale' \subseteq Present' /\ tracked' \subseteq Keys /\ currentEntries' \in Int
       /\ mu' \in [Shards -> Keys \cup {Free}]
  BY <1>1, <1>2, <1>3, <1>5, <1>9 DEF ShardInv
<1> QED BY <1>2, <1>5, <1>6, <1>9, <1>11, <1>12, <1>13, <1>14 DEF ShardInv

\* get, exists, ttl, set (blocked), delete, sweepExpired, evictIfOverBudget:
\* dropping some of a shard's keys.
LEMMA RemoveStep ==
  ASSUME ShardInv, NEW s \in Shards, NEW R \in SUBSET (Present \cap KeysOf(s)),
         RemoveLocked(s, R), UNCHANGED mu
  PROVE  ShardInv'
<1> DEFINE f == SizesOf(entries)
           g == SizesOf(entries')
<1>1. IsFiniteSet(Keys) /\ R \subseteq Keys /\ R \subseteq Present /\ R \subseteq KeysOf(s)
  BY StoreAssumption DEF Present
<1>2. /\ entries \in EntryMap /\ entries' \in EntryMap
      /\ \A k \in Keys : entries'[k] = IF k \in R THEN NoEntry ELSE entries[k]
      /\ stale' = stale \ R
  BY DEF ShardInv, RemoveLocked, EntryMap
<1>3. /\ Present' = Present \ R
      /\ HeldIn(entries') = Present'
  BY <1>2 DEF Present, HeldIn
<1>4. Untrack(R)
  BY DEF RemoveLocked
<1>5. /\ tracked' = tracked \ R
      /\ newer' \subseteq Keys \X Keys
      /\ LRUOrder'
      /\ \A i, j \in Keys :
           <<i, j>> \in newer' <=> <<i, j>> \in newer /\ i \notin R /\ j \notin R
  BY <1>4, UntrackOrder DEF ShardInv, LRUTracksEntries
<1>6. LRUTracksEntries'
  BY <1>3, <1>5 DEF ShardInv, LRUTracksEntries
<1>7. \A k \in R : g[k] = 0
  BY <1>1, <1>2 DEF SizesOf
<1>8. \A k \in Keys \ R : g[k] = f[k]
  BY <1>2 DEF SizesOf
<1>9. f \in [Keys -> Nat] /\ g \in [Keys -> Nat]
  BY <1>2, SizesType
<1>10. Weight(R) = W(f, R)
  <2>1. Weight(R) = Cardinality(BytesIn(entries, R))
    BY Zenon DEF Weight, Bytes, SizeAt, BytesIn
  <2> QED BY <1>1, <1>2, <2>1, WeightForm
<1> HIDE DEF f, g
<1>11. W(g, R) = 0 /\ W(f, R) \in Nat
  <2>1. IsFiniteSet(R)
    BY <1>1, FS_Subset
  <2>2. \A k \in R : f[k] \in Nat
    BY <1>1, <1>9
  <2> QED BY <1>7, <2>1, <2>2, WeightZero, PairsFinite
<1>12. /\ usedBytes' = [usedBytes EXCEPT ![s] = usedBytes[s] - W(f, R)]
       /\ memoryBytes' = memoryBytes - W(f, R)
       /\ currentEntries' = currentEntries - Cardinality(R)
  BY <1>10 DEF RemoveLocked
<1>13. /\ usedBytes \in [Shards -> Int] /\ memoryBytes \in Int /\ currentEntries \in Int
       /\ mu' = mu
  BY DEF ShardInv
<1>14. usedBytes' \in [Shards -> Int] /\ memoryBytes' \in Int
  BY <1>11, <1>12, <1>13
<1>15. currentEntries' = Cardinality(HeldIn(entries')) /\ currentEntries' \in Int
  <2>1. IsFiniteSet(Present) /\ Present \cap R = R
    BY <1>1, FS_Subset DEF Present
  <2>2. /\ Cardinality(Present \ R) = Cardinality(Present) - Cardinality(R)
        /\ IsFiniteSet(Present \ R)
    BY <2>1, FS_Difference
  <2>3. currentEntries = Cardinality(Present)
    BY DEF ShardInv, AccountingExact
  <2>4. Cardinality(Present \ R) \in Nat
    BY <2>2, FS_CardinalityType
  <2> QED BY <1>3, <1>12, <2>2, <2>3, <2>4
<1>16. AccountingExact'
  <2>1. Balanced(entries, usedBytes, memoryBytes, currentEntries)
    BY BalancedIs DEF ShardInv
  <2>2. /\ usedBytes' = [usedBytes EXCEPT ![s] = usedBytes[s] - W(f, R) + W(g, R)]
        /\ memoryBytes' = memoryBytes - W(f, R) + W(g, R)
    <3>1. usedBytes[s] - W(f, R) + 0 = usedBytes[s] - W(f, R)
          /\ memoryBytes - W(f, R) + 0 = memoryBytes - W(f, R)
      BY <1>11, <1>13
    <3> QED BY <1>11, <1>12, <3>1, Zenon
  <2>3. Balanced(entries', usedBytes', memoryBytes', Cardinality(HeldIn(entries')))
    BY <1>1, <1>2, <1>8, <1>13, <2>1, <2>2, Rebalance DEF f, g
  <2> QED BY <1>2, <1>15, <2>3, BalancedIsPrimed
<1>17. BudgetRespected'
  <2> SUFFICES ASSUME NEW t \in Shards, mu'[t] = Free
               PROVE  usedBytes'[t] <= PerShardBytes
    BY DEF BudgetRespected
  <2>1. usedBytes[t] <= PerShardBytes
    BY <1>13 DEF ShardInv, BudgetRespected
  <2>2. PerShardBytes \in Int
    BY StoreAssumption DEF PerShardBytes
  <2>3. usedBytes'[t] <= usedBytes[t] /\ usedBytes'[t] \in Int /\ usedBytes[t] \in Int
    BY <1>11, <1>12, <1>13
  <2> QED BY <2>1, <2>2, <2>3
<1>18. WriterNewest'
  BY <1>5, <1>13 DEF ShardInv, WriterNewest
<1>19. stale' \subseteq Present' /\ tracked' \subseteq Keys
  BY <1>2, <1>3, <1>5 DEF ShardInv
<1> QED BY <1>2, <1>5, <1>6, <1>13, <1>14, <1>15, <1>16, <1>17, <1>18, <1>19 DEF ShardInv

\* A step that moves no sizes and no keys, only the order of the LRU lists or
\* the expiry of an entry, keeps the books as they are.
LEMMA SameSizes ==
  ASSUME entries \in EntryMap, entries' \in EntryMap, AccountingExact,
         SizesOf(entries') = SizesOf(entries), Present' = Present,
         UNCHANGED <<usedBytes, gauges>>
  PROVE  AccountingExact'
<1>1. Balanced(entries, usedBytes, memoryBytes, currentEntries)
  BY BalancedIs
<1>2. HeldIn(entries') = HeldIn(entries)
  BY DEF Present, HeldIn
<1>3. Balanced(entries', usedBytes', memoryBytes', currentEntries')
  BY <1>1, <1>2 DEF Balanced, gauges
<1> QED BY <1>3, BalancedIsPrimed

\* get of a live key.
LEMMA TouchStep ==
  ASSUME ShardInv, NEW k \in Present, mu[ShardOf[k]] = Free, Touch(k),
         UNCHANGED <<entries, usedBytes, mu, gauges, stale>>
  PROVE  ShardInv'
<1>1. k \in Keys /\ Present' = Present /\ ShardOf[k] \in Shards
  BY StoreAssumption DEF Present
<1>2. /\ tracked' = tracked \cup {k}
      /\ newer' \subseteq Keys \X Keys
      /\ LRUOrder'
      /\ \A i, j \in Keys : i # k /\ j # k => (<<i, j>> \in newer' <=> <<i, j>> \in newer)
  BY <1>1, TouchOrder DEF ShardInv, LRUTracksEntries
<1>3. tracked' = tracked /\ tracked = Present
  BY <1>2 DEF ShardInv, LRUTracksEntries
<1>4. LRUTracksEntries'
  BY <1>1, <1>2, <1>3 DEF LRUTracksEntries
<1>5. AccountingExact'
  BY <1>1, SameSizes DEF ShardInv
<1>6. BudgetRespected'
  BY DEF ShardInv, BudgetRespected
<1>7. WriterNewest'
  <2> SUFFICES ASSUME NEW t \in Shards, mu[t] # Free, mu[t] \in tracked,
                      NEW j \in tracked, j # mu[t], ShardOf[j] = t
               PROVE  <<mu[t], j>> \in newer'
    BY <1>3 DEF ShardInv, WriterNewest
  <2>1. mu[t] # k /\ j # k
    BY DEF ShardInv, WriterNewest
  <2> QED BY <1>2, <2>1 DEF ShardInv, WriterNewest
<1> QED BY <1>1, <1>2, <1>3, <1>4, <1>5, <1>6, <1>7 DEF ShardInv, gauges

\* expire and persist.
LEMMA UpdateStep ==
  ASSUME ShardInv, NEW k \in Present, NEW b \in BOOLEAN, NEW t \in Int,
         Update(k, b, t)
  PROVE  ShardInv'
<1>1. k \in Keys /\ entries \in EntryMap /\ entries[k] \in Entry /\ NoEntry \notin Entry
  BY StoreAssumption DEF ShardInv, Present, EntryMap
<1> DEFINE new == [entries[k] EXCEPT !.hasExpiry = b, !.expiresAt = t]
<1>2. entries' = [entries EXCEPT ![k] = new]
  BY DEF Update
<1>3. new \in Entry /\ new.size = entries[k].size
  BY <1>1 DEF Entry
<1> HIDE DEF new
<1>4. entries' \in EntryMap
  BY <1>1, <1>2, <1>3 DEF EntryMap
<1>5. Present' = Present
  BY <1>1, <1>2, <1>3 DEF Present, EntryMap
<1>6. SizesOf(entries') = SizesOf(entries)
  BY <1>1, <1>2, <1>3 DEF SizesOf, EntryMap
<1>7. UNCHANGED <<tracked, newer, usedBytes, mu, currentEntries, memoryBytes, stale>>
  BY DEF Update, lruVars, gauges
<1>8. AccountingExact'
  BY <1>1, <1>4, <1>5, <1>6, <1>7, SameSizes DEF ShardInv, gauges
<1>9. LRUTracksEntries'
  BY <1>5, <1>7 DEF ShardInv, LRUTracksEntries, LRUOrder
<1>10. BudgetRespected' /\ WriterNewest'
  BY <1>7 DEF ShardInv, BudgetRespected, WriterNewest
<1> QED BY <1>4, <1>5, <1>7, <1>8, <1>9, <1>10 DEF ShardInv

\* restoreEntry, before any command runs.
LEMMA RestoreStep ==
  ASSUME ShardInv, \A s \in Shards : mu[s] = Free, NEW k \in Keys, k \notin Present,
         NEW ent \in Entry, ent.size = 0,
         entries' = [entries EXCEPT ![k] = ent], Touch(k),
         usedBytes' = [usedBytes EXCEPT ![ShardOf[k]] = @ + ent.size],
         currentEntries' = currentEntries + 1,
         memoryBytes' = memoryBytes + ent.size,
         UNCHANGED <<mu, stale>>
  PROVE  ShardInv'
<1>1. ShardOf[k] \in Shards /\ NoEntry \notin Entry /\ IsFiniteSet(Keys)
  BY StoreAssumption
<1>2. entries \in EntryMap /\ entries' \in EntryMap
  BY DEF ShardInv, EntryMap
<1>3. /\ Present' = Present \cup {k}
      /\ HeldIn(entries') = Present' /\ HeldIn(entries) = Present
  BY <1>1, <1>2 DEF Present, HeldIn, EntryMap
<1>4. /\ tracked' = tracked \cup {k}
      /\ newer' \subseteq Keys \X Keys
      /\ LRUOrder'
  BY TouchOrder DEF ShardInv, LRUTracksEntries
<1>5. LRUTracksEntries'
  BY <1>3, <1>4 DEF ShardInv, LRUTracksEntries
<1>6. SizesOf(entries') = SizesOf(entries)
  BY <1>1, <1>2 DEF SizesOf, EntryMap, Present
<1>7. usedBytes' = usedBytes /\ memoryBytes' = memoryBytes
  BY <1>1 DEF ShardInv
<1>8. currentEntries' = Cardinality(HeldIn(entries')) /\ currentEntries' \in Int
  <2>1. IsFiniteSet(Present)
    BY <1>1, FS_Subset DEF Present
  <2>2. Cardinality(Present \cup {k}) = Cardinality(Present) + 1
    BY <2>1, FS_AddElement
  <2>3. Cardinality(Present) \in Nat /\ currentEntries = Cardinality(Present)
    BY <2>1, FS_CardinalityType DEF ShardInv, AccountingExact
  <2>4. HeldIn(entries') = Present \cup {k}
    BY <1>3, Zenon
  <2>5. currentEntries' = Cardinality(Present \cup {k}) /\ currentEntries' \in Int
    BY <2>2, <2>3
  <2> QED BY <2>4, <2>5, Zenon
<1>9. AccountingExact'
  <2>1. Balanced(entries, usedBytes, memoryBytes, currentEntries)
    BY <1>2, BalancedIs DEF ShardInv
  <2>2. Balanced(entries', usedBytes', memoryBytes', currentEntries')
    BY <1>6, <1>7, <1>8, <2>1 DEF Balanced
  <2> QED BY <1>2, <2>2, BalancedIsPrimed
<1>10. BudgetRespected' /\ WriterNewest'
  BY <1>7 DEF ShardInv, BudgetRespected, WriterNewest
<1> QED BY <1>2, <1>3, <1>4, <1>5, <1>7, <1>8, <1>9, <1>10 DEF ShardInv

\* flushAll drops the shard's keys exactly as removing each of them would.
LEMMA FlushIsRemove ==
  ASSUME ShardInv, NEW s \in Shards, s = flushNext, FlushShard
  PROVE  RemoveLocked(s, Present \cap KeysOf(s)) /\ UNCHANGED mu
<1> DEFINE gone == Present \cap KeysOf(s)
<1>1. usedBytes[s] = Weight(gone) /\ usedBytes[s] \in Int
  BY DEF ShardInv, AccountingExact
<1>2. Untrack(gone)
  <2>1. tracked \ KeysOf(s) = tracked \ gone
    BY DEF ShardInv, LRUTracksEntries
  <2>2. ASSUME NEW p \in newer
        PROVE  p[1] \in Present /\ p[2] \in Present
    <3>1. PICK i \in Keys, j \in Keys : p = <<i, j>>
      BY DEF ShardInv
    <3> QED BY <3>1 DEF ShardInv, LRUTracksEntries, LRUOrder
  <2>3. {p \in newer : p[1] \notin KeysOf(s) /\ p[2] \notin KeysOf(s)}
          = {p \in newer : p[1] \notin gone /\ p[2] \notin gone}
    BY <2>2
  <2> QED BY <2>1, <2>3 DEF FlushShard, Untrack
<1>3. usedBytes[s] - Weight(gone) = 0
  BY <1>1
<1>4. usedBytes' = [usedBytes EXCEPT ![s] = usedBytes[s] - Weight(gone)]
  BY <1>3, Zenon DEF FlushShard
<1>5. memoryBytes' = memoryBytes - Weight(gone)
  BY <1>1, Zenon DEF FlushShard
<1> QED BY <1>2, <1>4, <1>5 DEF FlushShard, RemoveLocked

-----------------------------------------------------------------------------
(***************************************************************************)
(* The steps of the specification.                                         *)
(***************************************************************************)
\* The invariant splits into what the shards hold and what loops over them.
LEMMA Split ==
  /\ IInv => ShardInv /\ now \in Nat
  /\ ShardInv /\ now \in Nat /\ serving \in BOOLEAN /\ sweepNext \in Shards
       /\ flushNext \in 0..NumShards /\ FlushProgress /\ LoadingIsQuiet => IInv
<1>1. Present \subseteq Keys
  BY DEF Present
<1> QED BY <1>1 DEF IInv, ShardInv, TypeOK, FlushProgress, EntryMap

\* The same split, after a step.
LEMMA SplitPrimed ==
  ShardInv' /\ now' \in Nat /\ serving' \in BOOLEAN /\ sweepNext' \in Shards
    /\ flushNext' \in 0..NumShards /\ FlushProgress' /\ LoadingIsQuiet' => IInv'
<1>1. Present' \subseteq Keys
  BY DEF Present
<1> QED BY <1>1 DEF IInv, ShardInv, TypeOK, FlushProgress, EntryMap

\* Lazy expiration of one key.
LEMMA DropStep ==
  ASSUME ShardInv, NEW k \in Keys, DropIfExpired(k)
  PROVE  ShardInv' /\ stale' \subseteq stale
<1>1. ShardOf[k] \in Shards
  BY StoreAssumption
<1>2. {k} \cap ExpiredKeys \in SUBSET (Present \cap KeysOf(ShardOf[k]))
  BY DEF ExpiredKeys, KeysOf, Present
<1>3. RemoveLocked(ShardOf[k], {k} \cap ExpiredKeys) /\ UNCHANGED mu
  BY DEF DropIfExpired
<1> QED BY <1>1, <1>2, <1>3, RemoveStep DEF RemoveLocked

\* Every client command leaves the shards consistent.
LEMMA CommandStep ==
  ASSUME IInv, NEW k \in Keys, Command(k)
  PROVE  /\ ShardInv' /\ stale' \subseteq stale /\ serving
         /\ UNCHANGED <<now, serving, sweepNext, flushNext>>
<1>1. ShardInv /\ now \in Nat
  BY Split
<1>2. ShardOf[k] \in Shards /\ NoEntry \notin Entry
  BY StoreAssumption
<1>3. Live(k) => k \in Present /\ entries[k] \in Entry
  BY <1>1 DEF Live, Present, ShardInv, EntryMap
<1>4. CASE GetHit(k)
  <2>1. k \in Present /\ mu[ShardOf[k]] = Free /\ Touch(k)
        /\ UNCHANGED <<entries, usedBytes, mu, gauges, stale>>
    BY <1>3, <1>4 DEF GetHit, Locks
  <2>2. ShardInv'
    BY <1>1, <2>1, TouchStep
  <2> QED BY <1>4, <2>1, <2>2 DEF GetHit, Locks, Replies
<1>5. CASE GetMiss(k) \/ Exists(k) \/ TTL(k) \/ \E mode \in Modes : SetBlocked(k, mode)
  <2>1. DropIfExpired(k) /\ serving /\ UNCHANGED <<now, serving, sweepNext, flushNext>>
    BY <1>5 DEF GetMiss, Exists, TTL, SetBlocked, Locks, Replies
  <2> QED BY <1>1, <2>1, DropStep
<1>6. CASE Delete(k)
  <2>1. {k} \cap Present \in SUBSET (Present \cap KeysOf(ShardOf[k]))
    BY DEF KeysOf
  <2>2. RemoveLocked(ShardOf[k], {k} \cap Present) /\ UNCHANGED mu
    BY <1>6 DEF Delete
  <2>3. ShardInv' /\ stale' \subseteq stale
    BY <1>1, <1>2, <2>1, <2>2, RemoveStep DEF RemoveLocked
  <2> QED BY <1>6, <2>3 DEF Delete, Locks, Replies
<1>7. ASSUME NEW v \in Values, NEW ttl \in SetTTLs, NEW mode \in Modes,
             SetApplied(k, v, ttl, mode)
      PROVE  ShardInv' /\ stale' \subseteq stale /\ serving
             /\ UNCHANGED <<now, serving, sweepNext, flushNext>>
  <2> DEFINE ent == [value |-> v, hasExpiry |-> ttl > 0,
                     expiresAt |-> IF ttl > 0 THEN now + ttl ELSE 0,
                     size |-> SizeOf[<<k, v>>]]
  <2>1. ent \in Entry
    BY <1>1, StoreAssumption DEF Entry
  <2>2. Put(k, ent)
    BY <1>7 DEF SetApplied
  <2> HIDE DEF ent
  <2>3. ShardInv' /\ stale' \subseteq stale
    BY <1>1, <2>1, <2>2, PutStep DEF Put
  <2> QED BY <1>7, <2>3 DEF SetApplied, Locks, Replies
<1>8. CASE \E ttl \in ExpireTTLs : ExpireApplied(k, ttl)
  <2>1. PICK ttl \in ExpireTTLs : ExpireApplied(k, ttl)
    BY <1>8
  <2>2. now + ttl \in Int
    BY <1>1, StoreAssumption
  <2>3. k \in Present /\ Update(k, TRUE, now + ttl)
    BY <1>3, <2>1 DEF ExpireApplied
  <2>4. ShardInv' /\ stale' = stale
    BY <1>1, <2>2, <2>3, UpdateStep DEF Update
  <2> QED BY <2>1, <2>4 DEF ExpireApplied, Locks, Replies
<1>9. CASE PersistApplied(k)
  <2>1. k \in Present /\ Update(k, FALSE, entries[k].expiresAt)
        /\ entries[k].expiresAt \in Int
    BY <1>3, <1>9 DEF PersistApplied, Entry
  <2>2. ShardInv' /\ stale' = stale
    BY <1>1, <2>1, UpdateStep DEF Update
  <2> QED BY <1>9, <2>2 DEF PersistApplied, Locks, Replies
<1>10. CASE ExpireRefused(k) \/ PersistRefused(k) \/ IncrRefused(k)
  <2>1. UNCHANGED shardVars /\ serving /\ UNCHANGED <<now, serving, sweepNext, flushNext>>
    BY <1>10 DEF ExpireRefused, PersistRefused, IncrRefused, Locks, Replies
  <2>2. UNCHANGED <<entries, tracked, newer, usedBytes, mu, currentEntries,
                    memoryBytes, stale>>
    BY <2>1 DEF shardVars, lruVars, gauges
  <2>3. Present' = Present
    BY <2>2 DEF Present
  <2>4. AccountingExact'
    BY <1>1, <2>2, <2>3, SameSizes DEF ShardInv, gauges
  <2>5. ShardInv'
    BY <1>1, <2>2, <2>3, <2>4
       DEF ShardInv, LRUTracksEntries, LRUOrder, BudgetRespected, WriterNewest
  <2> QED BY <2>1, <2>2, <2>5
<1>11. ASSUME NEW delta \in Deltas, IncrApplied(k, delta)
       PROVE  ShardInv' /\ stale' \subseteq stale /\ serving
              /\ UNCHANGED <<now, serving, sweepNext, flushNext>>
  <2> DEFINE current == IF Live(k) THEN entries[k].value ELSE 0
             next == Wrap(current + delta)
             size == SizeOf[<<k, next>>]
             ent == IF k \in Present
                      THEN [entries[k] EXCEPT !.value = next, !.size = size]
                      ELSE [value |-> next, hasExpiry |-> FALSE,
                            expiresAt |-> 0, size |-> size]
  <2>1. current \in Int
    BY <1>11 DEF IncrApplied, Ints
  <2>2. next \in Values
    <3>1. ASSUME NEW n \in Int PROVE Wrap(n) \in Ints
      <4>1. IntMax - IntMin + 1 \in Nat \ {0} /\ n - IntMin \in Int
            /\ IntMin \in Int /\ IntMax \in Int
        BY StoreAssumption
      <4>2. (n - IntMin) % (IntMax - IntMin + 1) \in 0..(IntMax - IntMin)
        BY <4>1
      <4> QED BY <4>1, <4>2 DEF Wrap, Ints
    <3>2. current + delta \in Int
      BY <2>1, StoreAssumption
    <3> HIDE DEF current
    <3> QED BY <3>1, <3>2 DEF Values
  <2>3. size \in Nat
    <3> HIDE DEF next
    <3> QED BY <2>2, StoreAssumption
  <2> HIDE DEF current, next, size
  <2>4. ent \in Entry
    <3>1. CASE k \in Present
      <4>1. entries[k] \in Entry
        BY <1>1, <3>1 DEF Present, ShardInv, EntryMap
      <4>2. [entries[k] EXCEPT !.value = next, !.size = size] \in Entry
        BY <2>2, <2>3, <4>1 DEF Entry
      <4> QED BY <3>1, <4>2
    <3>2. CASE k \notin Present
      <4>1. [value |-> next, hasExpiry |-> FALSE, expiresAt |-> 0, size |-> size] \in Entry
        BY <2>2, <2>3 DEF Entry
      <4> QED BY <3>2, <4>1
    <3> QED BY <3>1, <3>2
  <2>5. Put(k, ent)
    BY <1>11 DEF IncrApplied, current, next, size
  <2> HIDE DEF ent
  <2>6. ShardInv' /\ stale' \subseteq stale
    BY <1>1, <2>4, <2>5, PutStep DEF Put
  <2> QED BY <1>11, <2>6 DEF IncrApplied, Locks, Replies
<1> QED BY <1>4, <1>5, <1>6, <1>7, <1>8, <1>9, <1>10, <1>11 DEF Command

\* The initial state is consistent.
LEMMA InitIInv == Init => IInv
<1> SUFFICES ASSUME Init PROVE IInv
  OBVIOUS
<1>1. Present = {} /\ HeldIn(entries) = {} /\ entries \in EntryMap
  BY DEF Init, Present, HeldIn, EntryMap
<1>2. \A A \in SUBSET Keys : W(SizesOf(entries), A) = 0
  <2> SUFFICES ASSUME NEW A \in SUBSET Keys PROVE W(SizesOf(entries), A) = 0
    OBVIOUS
  <2>1. \A k \in A : SizesOf(entries)[k] = 0
    BY DEF Init, SizesOf
  <2> QED BY <2>1, WeightZero
<1>3. Balanced(entries, usedBytes, memoryBytes, currentEntries)
  <2>1. Cardinality({}) = 0
    BY FS_EmptySet
  <2>2. \A s \in Shards : KeysOf(s) \in SUBSET Keys
    BY DEF KeysOf
  <2> QED BY <1>1, <1>2, <2>1, <2>2 DEF Init, Balanced
<1>4. AccountingExact
  BY <1>1, <1>3, BalancedIs
<1>5. LRUTracksEntries
  BY <1>1 DEF Init, LRUTracksEntries, LRUOrder
<1>6. BudgetRespected
  <2>1. PerShardBytes \in Int /\ 0 <= PerShardBytes
    BY StoreAssumption DEF PerShardBytes
  <2> QED BY <2>1 DEF Init, BudgetRespected
<1>7. WriterNewest /\ FlushProgress /\ LoadingIsQuiet
  BY DEF Init, WriterNewest, FlushProgress, LoadingIsQuiet
<1>8. TypeOK
  <2>1. 1 \in Shards /\ 0 \in 0..NumShards
    BY StoreAssumption DEF Shards
  <2>2. /\ entries \in [Keys -> Entry \cup {NoEntry}] /\ tracked \subseteq Keys
        /\ newer \subseteq Keys \X Keys /\ usedBytes \in [Shards -> Int]
        /\ mu \in [Shards -> Keys \cup {Free}] /\ stale \subseteq Keys
    BY <1>1 DEF Init, EntryMap
  <2>3. currentEntries \in Int /\ memoryBytes \in Int /\ now \in Nat
    BY DEF Init
  <2>4. serving \in BOOLEAN
    BY Zenon DEF Init
  <2> QED BY <2>1, <2>2, <2>3, <2>4 DEF Init, TypeOK
<1> QED BY <1>4, <1>5, <1>6, <1>7, <1>8 DEF IInv

\* Every step of the store keeps it consistent.
LEMMA NextIInv == IInv /\ [Next]_vars => IInv'
<1> SUFFICES ASSUME IInv, [Next]_vars PROVE IInv'
  OBVIOUS
<1>1. /\ ShardInv /\ now \in Nat /\ serving \in BOOLEAN /\ sweepNext \in Shards
      /\ flushNext \in 0..NumShards /\ FlushProgress /\ LoadingIsQuiet
  BY Split DEF IInv, TypeOK
<1>2. NumShards \in Nat \ {0} /\ Shards = 1..NumShards /\ MaxTime \in Nat
      /\ ShardOf \in [Keys -> Shards]
  BY StoreAssumption DEF Shards
<1>3. ASSUME ShardInv', stale' \subseteq stale, UNCHANGED flushNext
      PROVE  FlushProgress'
  BY <1>1, <1>3 DEF FlushProgress, ShardInv
<1>4. CASE \E k \in Keys : Command(k)
  <2>1. /\ ShardInv' /\ stale' \subseteq stale /\ serving
        /\ UNCHANGED <<now, serving, sweepNext, flushNext>>
    BY <1>4, CommandStep
  <2>2. FlushProgress'
    BY <1>3, <2>1
  <2>3. LoadingIsQuiet'
    BY <2>1 DEF LoadingIsQuiet
  <2> QED BY <1>1, <2>1, <2>2, <2>3, SplitPrimed
<1>5. ASSUME NEW s \in Shards, Evict(s)
      PROVE  IInv'
  <2>1. PICK k \in Keys : IsEvictCandidate(s, k) /\ RemoveLocked(s, {k})
    BY <1>5 DEF Evict
  <2>2. {k} \in SUBSET (Present \cap KeysOf(s))
    BY <1>1, <2>1 DEF IsEvictCandidate, ShardInv, LRUTracksEntries
  <2>3. UNCHANGED <<mu, now, serving, sweepNext, flushNext>>
    BY <1>5 DEF Evict
  <2>4. ShardInv' /\ stale' \subseteq stale
    BY <1>1, <2>1, <2>2, <2>3, RemoveStep DEF RemoveLocked
  <2>5. FlushProgress' /\ LoadingIsQuiet'
    BY <1>1, <1>3, <2>3, <2>4 DEF LoadingIsQuiet
  <2> QED BY <1>1, <2>3, <2>4, <2>5, SplitPrimed
<1>6. ASSUME NEW s \in Shards, Unlock(s)
      PROVE  IInv'
  <2>1. /\ UNCHANGED <<entries, tracked, newer, usedBytes, currentEntries, memoryBytes,
                       stale, now, serving, sweepNext, flushNext>>
        /\ mu' = [mu EXCEPT ![s] = Free]
    BY <1>6 DEF Unlock, lruVars, gauges
  <2>2. Present' = Present
    BY <2>1 DEF Present
  <2>3. AccountingExact'
    BY <1>1, <2>1, <2>2, SameSizes DEF ShardInv, gauges
  <2>4. usedBytes[s] <= PerShardBytes
    <3>1. CASE tracked \cap KeysOf(s) = {}
      <4>1. Present \cap KeysOf(s) = {}
        BY <1>1, <3>1 DEF ShardInv, LRUTracksEntries
      <4>2. Bytes({}) = {}
        BY DEF Bytes
      <4>3. usedBytes[s] = 0
        BY <1>1, <4>1, <4>2, FS_EmptySet DEF ShardInv, AccountingExact, Weight
      <4> QED BY <4>3, StoreAssumption DEF PerShardBytes
    <3> QED BY <1>6, <3>1 DEF Unlock
  <2>5. BudgetRespected'
    BY <1>1, <2>1, <2>4 DEF ShardInv, BudgetRespected, PerShardBytes
  <2>6. WriterNewest'
    BY <1>1, <2>1 DEF ShardInv, WriterNewest
  <2>7. ShardInv'
    BY <1>1, <2>1, <2>2, <2>3, <2>5, <2>6 DEF ShardInv, LRUTracksEntries, LRUOrder
  <2>8. FlushProgress' /\ LoadingIsQuiet'
    BY <1>1, <1>3, <2>1, <2>7 DEF LoadingIsQuiet, ShardInv
  <2> QED BY <1>1, <2>1, <2>7, <2>8, SplitPrimed
<1>7. CASE SweepShard
  <2>1. ExpiredKeys \cap KeysOf(sweepNext) \in SUBSET (Present \cap KeysOf(sweepNext))
    BY DEF ExpiredKeys
  <2>2. /\ RemoveLocked(sweepNext, ExpiredKeys \cap KeysOf(sweepNext))
        /\ UNCHANGED <<mu, now, serving, flushNext>>
        /\ sweepNext' = IF sweepNext = NumShards THEN 1 ELSE sweepNext + 1
    BY <1>7 DEF SweepShard
  <2>3. ShardInv' /\ stale' \subseteq stale
    BY <1>1, <2>1, <2>2, RemoveStep DEF RemoveLocked
  <2>4. sweepNext' \in Shards
    BY <1>1, <1>2, <2>2
  <2>5. FlushProgress' /\ LoadingIsQuiet'
    BY <1>1, <1>3, <2>2, <2>3 DEF LoadingIsQuiet
  <2> QED BY <1>1, <2>2, <2>3, <2>4, <2>5, SplitPrimed
<1>8. CASE FlushBegin
  <2>1. /\ UNCHANGED <<entries, tracked, newer, usedBytes, mu, currentEntries, memoryBytes,
                       now, serving, sweepNext>>
        /\ flushNext' = 1 /\ stale' = Present
    BY <1>8 DEF FlushBegin, lruVars, gauges
  <2>2. Present' = Present
    BY <2>1 DEF Present
  <2>3. AccountingExact'
    BY <1>1, <2>1, <2>2, SameSizes DEF ShardInv, gauges
  <2>4. ShardInv'
    BY <1>1, <2>1, <2>2, <2>3
       DEF ShardInv, LRUTracksEntries, LRUOrder, BudgetRespected, WriterNewest
  <2>5. FlushProgress'
    BY <1>2, <2>1, <2>2 DEF FlushProgress, Present
  <2>6. LoadingIsQuiet'
    BY <1>1, <2>1 DEF LoadingIsQuiet
  <2> QED BY <1>1, <1>2, <2>1, <2>4, <2>5, <2>6, SplitPrimed
<1>9. CASE FlushShard
  <2>1. flushNext \in Shards
    BY <1>1, <1>2, <1>9 DEF FlushShard
  <2>2. RemoveLocked(flushNext, Present \cap KeysOf(flushNext)) /\ UNCHANGED mu
    BY <1>1, <1>9, <2>1, FlushIsRemove
  <2>3. ShardInv'
    BY <1>1, <2>1, <2>2, RemoveStep
  <2>4. /\ UNCHANGED <<now, serving, sweepNext>>
        /\ flushNext' = IF flushNext = NumShards THEN 0 ELSE flushNext + 1
        /\ stale' = stale \ (Present \cap KeysOf(flushNext))
    BY <1>9 DEF FlushShard
  <2>5. FlushProgress'
    <3> SUFFICES ASSUME NEW k \in stale' PROVE flushNext' # 0 /\ flushNext' <= ShardOf[k]
      BY <2>3 DEF FlushProgress, ShardInv
    <3>1. k \in Keys /\ k \in Present /\ flushNext <= ShardOf[k] /\ ShardOf[k] # flushNext
      BY <1>1, <2>4 DEF FlushProgress, Present, KeysOf
    <3>2. ShardOf[k] \in 1..NumShards
      BY <1>2, <3>1
    <3> QED BY <1>2, <2>1, <2>4, <3>1, <3>2
  <2>6. LoadingIsQuiet'
    BY <1>1, <2>2, <2>4 DEF LoadingIsQuiet
  <2>7. flushNext' \in 0..NumShards
    BY <1>2, <2>1, <2>4
  <2> QED BY <1>1, <2>3, <2>4, <2>5, <2>6, <2>7, SplitPrimed
<1>10. ASSUME NEW k \in Keys, NEW v \in Values, NEW b \in BOOLEAN, NEW t \in 0..MaxTime,
              RestoreEntry(k, v, b, t)
       PROVE  IInv'
  <2> DEFINE ent == [value |-> v, hasExpiry |-> b,
                     expiresAt |-> IF b THEN t ELSE 0, size |-> 0]
  <2>1. ent \in Entry /\ ent.size = 0
    BY <1>2 DEF Entry
  <2>2. /\ ~serving /\ k \notin Present
        /\ entries' = [entries EXCEPT ![k] = ent] /\ Touch(k)
        /\ usedBytes' = [usedBytes EXCEPT ![ShardOf[k]] = @ + ent.size]
        /\ currentEntries' = currentEntries + 1
        /\ memoryBytes' = memoryBytes + ent.size
        /\ UNCHANGED <<mu, stale, now, serving, sweepNext, flushNext>>
    BY <1>10 DEF RestoreEntry
  <2> HIDE DEF ent
  <2>3. \A s \in Shards : mu[s] = Free
    BY <1>1, <2>2 DEF LoadingIsQuiet
  <2>4. ShardInv'
    BY <1>1, <2>1, <2>2, <2>3, RestoreStep
  <2>5. FlushProgress' /\ LoadingIsQuiet'
    BY <1>1, <1>3, <2>2, <2>4 DEF LoadingIsQuiet
  <2> QED BY <1>1, <2>2, <2>4, <2>5, SplitPrimed
<1>11. CASE StartServing \/ Tick \/ UNCHANGED vars
  <2>1. /\ UNCHANGED <<entries, tracked, newer, usedBytes, mu, currentEntries, memoryBytes,
                       stale, sweepNext, flushNext>>
        /\ now' \in Nat /\ serving' \in BOOLEAN /\ (serving => serving')
    <3>1. CASE StartServing
      <4>1. serving' \in BOOLEAN /\ (serving => serving')
        BY <3>1, Zenon DEF StartServing
      <4> QED BY <1>1, <3>1, <4>1 DEF StartServing, shardVars, lruVars, gauges
    <3>2. CASE Tick
      <4>1. serving' = serving
        BY <3>2 DEF Tick
      <4>2. serving' \in BOOLEAN /\ (serving => serving')
        BY <1>1, <4>1, Zenon
      <4> QED BY <1>1, <3>2, <4>2 DEF Tick, shardVars, lruVars, gauges
    <3>3. CASE UNCHANGED vars
      <4>1. serving' = serving
        BY <3>3 DEF vars
      <4>2. serving' \in BOOLEAN /\ (serving => serving')
        BY <1>1, <4>1, Zenon
      <4> QED BY <1>1, <3>3, <4>2 DEF vars, shardVars, lruVars, gauges
    <3> QED BY <1>11, <3>1, <3>2, <3>3
  <2>2. Present' = Present
    BY <2>1 DEF Present
  <2>3. AccountingExact'
    BY <1>1, <2>1, <2>2, SameSizes DEF ShardInv, gauges
  <2>4. ShardInv'
    BY <1>1, <2>1, <2>2, <2>3
       DEF ShardInv, LRUTracksEntries, LRUOrder, BudgetRespected, WriterNewest
  <2>5. FlushProgress' /\ LoadingIsQuiet'
    BY <1>1, <1>3, <2>1, <2>4 DEF LoadingIsQuiet
  <2> QED BY <1>1, <2>1, <2>4, <2>5, SplitPrimed
<1> QED BY <1>4, <1>5, <1>6, <1>7, <1>8, <1>9, <1>10, <1>11 DEF Next, Restore

-----------------------------------------------------------------------------
(***************************************************************************)
(* The theorems.                                                           *)
(***************************************************************************)
\* The strengthened invariant holds in every reachable state of the store.
THEOREM Consistency == Spec => []IInv
BY InitIInv, NextIInv, PTL DEF Spec

\* The storage package's variables keep their types.
THEOREM TypeCorrect == Spec => []TypeOK
<1>1. IInv => TypeOK
  BY DEF IInv
<1> QED BY <1>1, Consistency, PTL

\* Each shard's LRU list and map always hold the same keys.
THEOREM LRUMatchesMap == Spec => []LRUTracksEntries
<1>1. IInv => LRUTracksEntries
  BY DEF IInv
<1> QED BY <1>1, Consistency, PTL

\* usedBytes and the gauges are always the sums they stand for.
THEOREM AccountingCorrect == Spec => []AccountingExact
<1>1. IInv => AccountingExact
  BY DEF IInv
<1> QED BY <1>1, Consistency, PTL

\* No unlocked shard accounts for more than its share of the budget.
THEOREM BudgetCorrect == Spec => []BudgetRespected
<1>1. IInv => BudgetRespected
  BY DEF IInv
<1> QED BY <1>1, Consistency, PTL

\* FLUSHALL leaves nothing stored before it began.
THEOREM FlushAllCorrect == Spec => []FlushAllClears
<1>1. IInv => FlushAllClears
  BY DEF IInv, FlushProgress, FlushAllClears
<1> QED BY <1>1, Consistency, PTL

\* Apart from eviction, a key leaves the map only while its shard is unlocked.
LEMMA OthersNeedTheLock ==
  ASSUME IInv, Next, NEW k \in Keys, entries[k] # NoEntry, entries'[k] = NoEntry,
         \A s \in Shards : ~Evict(s)
  PROVE  mu[ShardOf[k]] = Free
<1>1. entries \in EntryMap /\ NoEntry \notin Entry /\ ShardOf \in [Keys -> Shards]
  BY StoreAssumption DEF IInv, TypeOK, EntryMap
<1>2. ASSUME NEW j \in Keys, Command(j)
      PROVE  mu[ShardOf[k]] = Free
  <2>1. mu[ShardOf[j]] = Free
    BY <1>2 DEF Command, Locks, GetHit, GetMiss, Exists, SetApplied, SetBlocked, Delete,
                ExpireApplied, ExpireRefused, PersistApplied, PersistRefused, TTL,
                IncrRefused, IncrApplied
  <2>2. ASSUME j # k
        PROVE  entries'[k] = entries[k]
    <3>1. ASSUME NEW ent, Put(j, ent) PROVE entries'[k] = entries[k]
      BY <1>1, <2>2, <3>1 DEF Put, EntryMap
    <3>2. ASSUME NEW R, RemoveLocked(ShardOf[j], {j} \cap R) PROVE entries'[k] = entries[k]
      BY <1>1, <2>2, <3>2 DEF RemoveLocked, EntryMap
    <3>3. ASSUME NEW b, NEW t, Update(j, b, t) PROVE entries'[k] = entries[k]
      BY <1>1, <2>2, <3>3 DEF Update, EntryMap
    <3>4. CASE \E v \in Values, ttl \in SetTTLs, mode \in Modes : SetApplied(j, v, ttl, mode)
      BY <3>1, <3>4 DEF SetApplied
    <3>5. CASE \E delta \in Deltas : IncrApplied(j, delta)
      BY <3>1, <3>5 DEF IncrApplied
    <3>6. CASE GetMiss(j) \/ Exists(j) \/ TTL(j) \/ \E mode \in Modes : SetBlocked(j, mode)
      <4>1. DropIfExpired(j)
        BY <3>6 DEF GetMiss, Exists, TTL, SetBlocked
      <4> QED BY <3>2, <4>1 DEF DropIfExpired
    <3>7. CASE Delete(j)
      BY <3>2, <3>7 DEF Delete
    <3>8. CASE (\E ttl \in ExpireTTLs : ExpireApplied(j, ttl)) \/ PersistApplied(j)
      BY <3>3, <3>8 DEF ExpireApplied, PersistApplied
    <3>9. CASE GetHit(j) \/ ExpireRefused(j) \/ PersistRefused(j) \/ IncrRefused(j)
      BY <3>9 DEF GetHit, ExpireRefused, PersistRefused, IncrRefused, shardVars
    <3> QED BY <1>2, <3>4, <3>5, <3>6, <3>7, <3>8, <3>9 DEF Command
  <2> QED BY <2>1, <2>2
<1>3. CASE SweepShard
  BY <1>1, <1>3 DEF SweepShard, RemoveLocked, KeysOf
<1>4. CASE FlushShard
  BY <1>1, <1>4 DEF FlushShard, KeysOf
<1>5. ASSUME NEW s \in Shards, Unlock(s) PROVE FALSE
  BY <1>5 DEF Unlock
<1>6. CASE FlushBegin \/ StartServing \/ Tick
  BY <1>6 DEF FlushBegin, StartServing, Tick, shardVars
<1>7. ASSUME NEW j \in Keys, NEW v \in Values, NEW b \in BOOLEAN, NEW t \in 0..MaxTime,
             RestoreEntry(j, v, b, t)
      PROVE  FALSE
  <2>1. j # k
    BY <1>7 DEF RestoreEntry, Present
  <2> QED BY <1>1, <1>7, <2>1 DEF RestoreEntry, EntryMap
<1> QED BY <1>2, <1>3, <1>4, <1>5, <1>6, <1>7 DEF Next, Restore

\* A command evicts the key it has just written only when that key alone
\* exceeds the shard's budget: the writer's key heads the list, so when it is
\* the candidate the shard holds nothing else.
THEOREM WriterEvictedLast == Spec => WriterSurvives
<1>1. IInv /\ [Next]_vars => [WriterSurvivesStep]_vars
  <2> SUFFICES ASSUME IInv, Next, NEW k \in Keys,
                      mu[ShardOf[k]] = k, entries[k] # NoEntry, entries'[k] = NoEntry
               PROVE  entries[k].size > PerShardBytes
    BY DEF WriterSurvivesStep
  <2> DEFINE s == ShardOf[k]
  <2>1. s \in Shards /\ k # Free /\ k \in Present /\ k \in KeysOf(s)
    BY StoreAssumption DEF Present, KeysOf
  <2>2. PICK t \in Shards : Evict(t)
    BY <2>1, OthersNeedTheLock
  <2>3. PICK c \in Keys : IsEvictCandidate(t, c) /\ RemoveLocked(t, {c})
    BY <2>2 DEF Evict
  <2>4. c = k /\ t = s
    BY <2>3 DEF RemoveLocked, IsEvictCandidate, KeysOf
  <2>5. /\ tracked = Present /\ LRUOrder
        /\ \A j \in tracked : j # k /\ ShardOf[j] = s => <<k, j>> \in newer
    BY <2>1 DEF IInv, LRUTracksEntries, WriterNewest
  <2>6. Present \cap KeysOf(s) = {k}
    <3> SUFFICES ASSUME NEW j \in Present \cap KeysOf(s), j # k PROVE FALSE
      BY <2>1
    <3>1. <<j, k>> \in newer
      BY <2>3, <2>4, <2>5 DEF IsEvictCandidate
    <3>2. <<k, j>> \in newer
      BY <2>5 DEF KeysOf
    <3> QED BY <2>5, <3>1, <3>2 DEF LRUOrder, Present
  <2>7. usedBytes[s] = entries[k].size
    <3>1. usedBytes[s] = Weight({k})
      BY <2>1, <2>6 DEF IInv, AccountingExact
    <3>2. entries \in EntryMap
      BY DEF IInv, TypeOK, EntryMap
    <3>3. Weight({k}) = Cardinality(BytesIn(entries, {k}))
      BY Zenon DEF Weight, Bytes, SizeAt, BytesIn
    <3>4. Cardinality(BytesIn(entries, {k})) = W(SizesOf(entries), {k})
      <4>1. {k} \in SUBSET Keys
        OBVIOUS
      <4> QED BY <3>2, <4>1, WeightForm
    <3>5. SizesOf(entries)[k] \in Nat /\ SizesOf(entries)[k] = entries[k].size
      BY <3>2, SizesType DEF SizesOf
    <3>6. W(SizesOf(entries), {k}) = SizesOf(entries)[k]
      BY <3>5, WeightOne
    <3> QED BY <3>1, <3>3, <3>4, <3>5, <3>6
  <2> QED BY <2>2, <2>4, <2>7 DEF Evict
<1> QED BY <1>1, Consistency, PTL DEF Spec, WriterSurvives

-----------------------------------------------------------------------------
(***************************************************************************)
(* The view as a function of the entries and the time.                     *)
(***************************************************************************)
LiveIn(e, t, k) == e[k] # NoEntry /\ ~(e[k].hasExpiry /\ t > e[k].expiresAt)

ViewOf(e, t) == [k \in Keys |-> IF LiveIn(e, t, k) THEN Shown(e[k]) ELSE NoEntry]

\* The refinement mapping of a state is the view of its entries at its time.
LEMMA ViewIs ==
  /\ View = ViewOf(entries, now)
  /\ \A k : Live(k) <=> LiveIn(entries, now, k)
BY DEF View, ViewOf, Live, IsExpired, LiveIn

LEMMA ViewIsPrimed == View' = ViewOf(entries', now')
BY DEF View, ViewOf, Live, IsExpired, LiveIn, Shown

\* What an entry shows is something visible, so it is never taken for a
\* missing key.
LEMMA ShownVisible ==
  ASSUME NEW ent \in Entry
  PROVE  Shown(ent) \in Abstract!Visible /\ Shown(ent) # NoEntry
<1>1. Shown(ent) \in Abstract!Visible
  BY DEF Shown, Entry, Abstract!Visible, Abstract!Values, Abstract!Ints, Values, Ints
<1> QED BY <1>1, ViewAssumption

\* A key is missing from the view exactly when its entry is absent or expired.
LEMMA ViewAt ==
  ASSUME NEW e \in EntryMap, NEW t \in Nat, NEW k \in Keys
  PROVE  /\ ViewOf(e, t)[k] = NoEntry <=> ~LiveIn(e, t, k)
         /\ LiveIn(e, t, k) => /\ e[k] \in Entry
                               /\ ViewOf(e, t)[k] = Shown(e[k])
         /\ ViewOf(e, t)[k] \in Abstract!Visible \cup {NoEntry}
         /\ Abstract!At(ViewOf(e, t)[k], t) = ViewOf(e, t)[k]
<1>1. LiveIn(e, t, k) => e[k] \in Entry
  BY DEF LiveIn, EntryMap
<1>2. ViewOf(e, t)[k] = IF LiveIn(e, t, k) THEN Shown(e[k]) ELSE NoEntry
  BY DEF ViewOf
<1>3. LiveIn(e, t, k) => Shown(e[k]) \in Abstract!Visible /\ Shown(e[k]) # NoEntry
  BY <1>1, ShownVisible
<1>4. LiveIn(e, t, k) => Abstract!At(Shown(e[k]), t) = Shown(e[k])
  BY <1>1 DEF LiveIn, Abstract!At, Shown, Entry
<1>5. Abstract!At(NoEntry, t) = NoEntry
  BY DEF Abstract!At
<1> QED BY <1>1, <1>2, <1>3, <1>4, <1>5

\* Storing an entry shows it, unless it is stored already expired.
LEMMA ViewStore ==
  ASSUME NEW e \in EntryMap, NEW t \in Nat, NEW k \in Keys, NEW ent \in Entry,
         NEW f, f = [j \in Keys |-> IF j = k THEN ent ELSE e[j]]
  PROVE  ViewOf(f, t) = [j \in Keys |-> IF j = k THEN Abstract!At(Shown(ent), t)
                                        ELSE ViewOf(e, t)[j]]
<1>1. f[k] = ent /\ \A j \in Keys \ {k} : f[j] = e[j]
  OBVIOUS
<1>2. ent # NoEntry /\ Shown(ent) # NoEntry
  BY StoreAssumption, ShownVisible
<1>3. ViewOf(f, t)[k] = Abstract!At(Shown(ent), t)
  BY <1>1, <1>2 DEF ViewOf, LiveIn, Abstract!At, Shown
<1>4. \A j \in Keys \ {k} : ViewOf(f, t)[j] = ViewOf(e, t)[j]
  BY <1>1 DEF ViewOf, LiveIn
<1>5. ViewOf(f, t) = [j \in Keys |-> ViewOf(f, t)[j]]
  BY DEF ViewOf
<1> QED BY <1>3, <1>4, <1>5

\* Removing keys hides them, and shows nothing when they were expired.
LEMMA ViewRemove ==
  ASSUME NEW e \in EntryMap, NEW t \in Nat, NEW R,
         NEW f, f = [k \in Keys |-> IF k \in R THEN NoEntry ELSE e[k]]
  PROVE  /\ ViewOf(f, t) = [k \in Keys |-> IF k \in R THEN NoEntry ELSE ViewOf(e, t)[k]]
         /\ (\A k \in Keys : k \in R => ~LiveIn(e, t, k)) => ViewOf(f, t) = ViewOf(e, t)
<1>1. \A k \in Keys : LiveIn(f, t, k) <=> (k \notin R /\ LiveIn(e, t, k))
  BY DEF LiveIn
<1>2. ViewOf(f, t) = [k \in Keys |-> IF k \in R THEN NoEntry ELSE ViewOf(e, t)[k]]
  BY <1>1 DEF ViewOf
<1>3. ASSUME \A k \in Keys : k \in R => ~LiveIn(e, t, k)
      PROVE  ViewOf(f, t) = ViewOf(e, t)
  BY <1>1, <1>3 DEF ViewOf
<1> QED BY <1>2, <1>3

\* As time passes the keys whose TTL runs out leave the view.
LEMMA ViewTick ==
  ASSUME NEW e \in EntryMap, NEW t \in Nat
  PROVE  ViewOf(e, t + 1) = [k \in Keys |-> Abstract!At(ViewOf(e, t)[k], t + 1)]
<1>1. ASSUME NEW k \in Keys
      PROVE  ViewOf(e, t + 1)[k] = Abstract!At(ViewOf(e, t)[k], t + 1)
  <2>1. CASE LiveIn(e, t, k)
    <3>1. e[k] \in Entry /\ ViewOf(e, t)[k] = Shown(e[k]) /\ Shown(e[k]) # NoEntry
      BY <2>1, ViewAt, ShownVisible
    <3>2. ViewOf(e, t + 1)[k] = IF LiveIn(e, t + 1, k) THEN Shown(e[k]) ELSE NoEntry
      BY DEF ViewOf
    <3> QED BY <2>1, <3>1, <3>2 DEF LiveIn, Abstract!At, Shown, Entry
  <2>2. CASE ~LiveIn(e, t, k)
    <3>1. ViewOf(e, t)[k] = NoEntry
      BY <2>2, ViewAt
    <3>2. ~LiveIn(e, t + 1, k)
      BY <2>2 DEF LiveIn, EntryMap, Entry
    <3>3. ViewOf(e, t + 1)[k] = NoEntry
      BY <3>2 DEF ViewOf
    <3> QED BY <3>1, <3>3 DEF Abstract!At
  <2> QED BY <2>1, <2>2
<1>2. ViewOf(e, t + 1) = [k \in Keys |-> ViewOf(e, t + 1)[k]]
  BY DEF ViewOf
<1> QED BY <1>1, <1>2

-----------------------------------------------------------------------------
(***************************************************************************)
(* What the operations do to the view.                                     *)
(***************************************************************************)
\* What a client sees of a key.
LEMMA Seen ==
  ASSUME TypeOK, NEW k \in Keys
  PROVE  /\ View[k] = NoEntry <=> ~Live(k)
         /\ Live(k) => entries[k] \in Entry /\ View[k] = Shown(entries[k])
         /\ Abstract!At(View[k], now) = View[k]
         /\ View = [View EXCEPT ![k] = View[k]]
<1>1. entries \in EntryMap /\ now \in Nat
  BY DEF TypeOK, EntryMap
<1>2. View = [View EXCEPT ![k] = View[k]]
  BY DEF View
<1> QED BY <1>1, <1>2, ViewIs, ViewAt

\* The view depends on nothing but the entries and the time.
LEMMA ViewKept ==
  ASSUME UNCHANGED <<entries, now>>
  PROVE  View' = View
BY ViewIs, ViewIsPrimed

\* Lazy and active expiration remove only what no client can see.
LEMMA ExpirationHidden ==
  ASSUME TypeOK, NEW s, NEW R \in SUBSET ExpiredKeys, RemoveLocked(s, R), now' = now
  PROVE  View' = View
<1>1. entries \in EntryMap /\ now \in Nat
  BY DEF TypeOK, EntryMap
<1>2. entries' = [k \in Keys |-> IF k \in R THEN NoEntry ELSE entries[k]]
  BY DEF RemoveLocked
<1>3. \A k \in Keys : k \in R => ~LiveIn(entries, now, k)
  BY DEF ExpiredKeys, IsExpired, LiveIn
<1>4. ViewOf(entries', now) = ViewOf(entries, now)
  BY <1>1, <1>2, <1>3, ViewRemove
<1> QED BY <1>4, ViewIs, ViewIsPrimed

\* Removing keys is a view without them.
LEMMA RemovalSeen ==
  ASSUME TypeOK, NEW R, now' = now,
         entries' = [k \in Keys |-> IF k \in R THEN NoEntry ELSE entries[k]]
  PROVE  View' = [k \in Keys |-> IF k \in R THEN NoEntry ELSE View[k]]
<1>1. entries \in EntryMap /\ now \in Nat
  BY DEF TypeOK, EntryMap
<1>2. ViewOf(entries', now) = [k \in Keys |-> IF k \in R THEN NoEntry
                                              ELSE ViewOf(entries, now)[k]]
  BY <1>1, ViewRemove
<1> QED BY <1>2, ViewIs, ViewIsPrimed

\* A stored entry is what its key becomes.
LEMMA StoreSeen ==
  ASSUME TypeOK, NEW k \in Keys, NEW ent \in Entry, now' = now,
         entries' = [entries EXCEPT ![k] = ent]
  PROVE  View' = [View EXCEPT ![k] = Abstract!At(Shown(ent), now)]
<1> DEFINE f == [j \in Keys |-> IF j = k THEN ent ELSE entries[j]]
           vis == Abstract!At(Shown(ent), now)
<1>1. entries \in EntryMap /\ now \in Nat
  BY DEF TypeOK, EntryMap
<1>2. entries' = f
  BY <1>1 DEF EntryMap
<1>3. ViewOf(f, now) = [j \in Keys |-> IF j = k THEN vis ELSE ViewOf(entries, now)[j]]
  BY ONLY k \in Keys, ent \in Entry, <1>1, ViewStore
<1> HIDE DEF f, vis
<1>4. View' = [j \in Keys |-> IF j = k THEN vis ELSE View[j]]
  BY <1>2, <1>3, ViewIs, ViewIsPrimed
<1>5. View = [j \in Keys |-> View[j]]
  BY DEF View
<1>6. View' = [View EXCEPT ![k] = vis]
  BY <1>4, <1>5
<1> QED BY <1>6 DEF vis

\* Go's wrapping addition of two int64s is an int64.
LEMMA WrapType ==
  ASSUME NEW n \in Int
  PROVE  Wrap(n) \in Ints
<1>1. IntMax - IntMin + 1 \in Nat \ {0} /\ n - IntMin \in Int
      /\ IntMin \in Int /\ IntMax \in Int
  BY StoreAssumption
<1>2. (n - IntMin) % (IntMax - IntMin + 1) \in 0..(IntMax - IntMin)
  BY <1>1
<1> QED BY <1>1, <1>2 DEF Wrap, Ints

-----------------------------------------------------------------------------
(***************************************************************************)
(* Every step of the store is a step of the map.                           *)
(***************************************************************************)
\* GET and EXISTS answer from the view and leave it alone.
LEMMA ReadSteps ==
  ASSUME TypeOK, NEW k \in Keys
  PROVE  /\ GetHit(k) \/ GetMiss(k) => Abstract!Get(k)
         /\ Exists(k) => Abstract!Exists(k)
<1>1. {k} \cap ExpiredKeys \in SUBSET ExpiredKeys
  OBVIOUS
<1>2. ASSUME DropIfExpired(k), now' = now PROVE View' = View
  BY <1>1, <1>2, ExpirationHidden DEF DropIfExpired
<1>3. ASSUME GetHit(k) PROVE Abstract!Get(k)
  <2>1. View' = View
    BY <1>3, ViewKept DEF GetHit, Replies
  <2>2. View[k] # NoEntry /\ View[k].value = entries[k].value
    <3>1. View[k] # NoEntry /\ View[k] = Shown(entries[k])
      BY <1>3, Seen DEF GetHit
    <3> QED BY <3>1 DEF Shown
  <2> QED BY <1>3, <2>1, <2>2
         DEF GetHit, Locks, Replies, Abstract!Get, Abstract!Answer
<1>4. ASSUME GetMiss(k) PROVE Abstract!Get(k)
  <2>1. View' = View
    BY <1>2, <1>4 DEF GetMiss, Replies
  <2>2. View[k] = NoEntry
    BY <1>4, Seen DEF GetMiss
  <2> QED BY <1>4, <2>1, <2>2
         DEF GetMiss, Locks, Replies, Abstract!Get, Abstract!Answer
<1>5. ASSUME Exists(k) PROVE Abstract!Exists(k)
  <2>1. View' = View
    BY <1>2, <1>5 DEF Exists, Replies
  <2>2. (View[k] # NoEntry) = Live(k)
    <3>1. Live(k) \in BOOLEAN
      BY DEF Live
    <3> QED BY <3>1, Seen
  <2> QED BY <1>5, <2>1, <2>2, Zenon
         DEF Exists, Locks, Replies, Abstract!Exists, Abstract!Answer
<1> QED BY <1>3, <1>4, <1>5

\* TTL answers the time left of what the view shows.
LEMMA TTLStep ==
  ASSUME TypeOK, NEW k \in Keys, TTL(k)
  PROVE  Abstract!TTL(k)
<1>1. {k} \cap ExpiredKeys \in SUBSET ExpiredKeys
  OBVIOUS
<1>2. View' = View
  BY <1>1, ExpirationHidden DEF TTL, DropIfExpired, Replies
<1>3. CASE ~Live(k)
  <2>1. View[k] = NoEntry
    BY <1>3, Seen
  <2>2. reply' = <<"ttl", k, -2>>
    BY <1>3 DEF TTL, Replies
  <2> QED BY <1>2, <2>1, <2>2 DEF TTL, Locks, Replies, Abstract!TTL, Abstract!Answer
<1>4. CASE Live(k)
  <2>1. entries[k] \in Entry /\ View[k] # NoEntry /\ View[k] = Shown(entries[k])
    BY <1>4, Seen
  <2>2. reply' = <<"ttl", k, IF entries[k].hasExpiry /\ entries[k].expiresAt - now # 0
                               THEN entries[k].expiresAt - now ELSE -1>>
    BY <1>4 DEF TTL, Replies
  <2>3. entries[k].expiresAt \in Int /\ now \in Int
    BY <2>1 DEF TypeOK, Entry
  <2>4. /\ View[k].hasExpiry = entries[k].hasExpiry
        /\ entries[k].hasExpiry => View[k].expiresAt = entries[k].expiresAt
    BY <2>1 DEF Shown
  <2>5. reply' = <<"ttl", k, IF View[k].hasExpiry /\ View[k].expiresAt # now
                               THEN View[k].expiresAt - now ELSE -1>>
    BY <2>2, <2>3, <2>4
  <2> QED BY <1>2, <2>1, <2>5 DEF TTL, Locks, Replies, Abstract!TTL, Abstract!Answer
<1> QED BY <1>3, <1>4

\* SET stores what it was given when its condition on the view holds, and
\* otherwise shows no change.
LEMMA SetSteps ==
  ASSUME TypeOK, NEW k \in Keys, NEW mode \in Modes
  PROVE  /\ \A v \in Values, ttl \in SetTTLs :
              SetApplied(k, v, ttl, mode) => Abstract!Set(k, mode)
         /\ SetBlocked(k, mode) => Abstract!Set(k, mode)
<1>1. Abstract!Admits(k, mode) <=> Admits(k, mode)
  BY Seen DEF Admits, Abstract!Admits
<1>2. ASSUME NEW v \in Values, NEW ttl \in SetTTLs, SetApplied(k, v, ttl, mode)
      PROVE  Abstract!Set(k, mode)
  <2> DEFINE ent == [value |-> v, hasExpiry |-> ttl > 0,
                     expiresAt |-> IF ttl > 0 THEN now + ttl ELSE 0,
                     size |-> SizeOf[<<k, v>>]]
             vis == IF ttl > 0 THEN Abstract!Until(v, now + ttl) ELSE Abstract!Forever(v)
  <2>1. ent \in Entry
    BY StoreAssumption DEF Entry, TypeOK
  <2>2. entries' = [entries EXCEPT ![k] = ent] /\ now' = now
    BY <1>2 DEF SetApplied, Put, Replies
  <2>3. Shown(ent) = vis
    <3>1. CASE ttl > 0
      <4>1. ent.value = v /\ ent.hasExpiry = TRUE /\ ent.expiresAt = now + ttl
        BY <3>1
      <4>2. Shown(ent) = Abstract!Until(v, now + ttl)
        BY <4>1 DEF Shown, Abstract!Until
      <4> QED BY <3>1, <4>2
    <3>2. CASE ~(ttl > 0)
      <4>1. ent.value = v /\ ent.hasExpiry = FALSE /\ ent.expiresAt = 0
        <5>1. (ttl > 0) = FALSE
          BY <3>2
        <5> QED BY <3>2, <5>1, Zenon
      <4>2. Shown(ent) = Abstract!Forever(v)
        BY <4>1 DEF Shown, Abstract!Forever
      <4> QED BY <3>2, <4>2
    <3> QED BY <3>1, <3>2
  <2> HIDE DEF ent
  <2>4. Abstract!Becomes(k, vis)
    BY <2>1, <2>2, <2>3, StoreSeen DEF Abstract!Becomes
  <2> HIDE DEF vis
  <2>5. \E w \in Abstract!Values, d \in SetTTLs :
          Abstract!Becomes(k, IF d > 0 THEN Abstract!Until(w, now + d)
                                       ELSE Abstract!Forever(w))
    <3>1. v \in Abstract!Values
      BY DEF Values, Ints, Abstract!Values, Abstract!Ints
    <3> QED BY <2>4, <3>1, Zenon DEF vis
  <2>6. Abstract!Answer(<<"set", k, mode, TRUE>>) /\ Admits(k, mode)
    BY <1>2 DEF SetApplied, Locks, Replies, Abstract!Answer
  <2>7. Abstract!Admits(k, mode) = TRUE
    BY <1>1, <2>6 DEF Abstract!Admits
  <2> QED BY <2>5, <2>6, <2>7 DEF Abstract!Set
<1>3. ASSUME SetBlocked(k, mode)
      PROVE  Abstract!Set(k, mode)
  <2>1. {k} \cap ExpiredKeys \in SUBSET ExpiredKeys
    OBVIOUS
  <2>2. View' = View
    BY <1>3, <2>1, ExpirationHidden DEF SetBlocked, DropIfExpired, Replies
  <2>3. Abstract!Answer(<<"set", k, mode, FALSE>>) /\ ~Admits(k, mode)
    BY <1>3 DEF SetBlocked, Locks, Replies, Abstract!Answer
  <2>4. Abstract!Admits(k, mode) = FALSE
    BY <1>1, <2>3 DEF Abstract!Admits
  <2> QED BY <2>2, <2>3, <2>4 DEF Abstract!Set
<1> QED BY <1>2, <1>3

\* DEL hides its key, and counts it whenever it was visible.
LEMMA DelStep ==
  ASSUME TypeOK, NEW k \in Keys, Delete(k)
  PROVE  Abstract!Del(k)
<1>1. View' = [j \in Keys |-> IF j \in {k} \cap Present THEN NoEntry ELSE View[j]]
  BY RemovalSeen DEF Delete, RemoveLocked, Replies
<1>2. k \notin Present => View[k] = NoEntry
  BY Seen DEF Live, Present
<1>3. View' = [View EXCEPT ![k] = NoEntry]
  <2>1. View = [j \in Keys |-> View[j]]
    BY DEF View
  <2> QED BY <1>1, <1>2, <2>1
<1>4. Abstract!Becomes(k, NoEntry)
  BY <1>3 DEF Abstract!Becomes, Abstract!At
<1>5. Abstract!Answer(<<"del", k, k \in Present>>)
  BY DEF Delete, Locks, Replies, Abstract!Answer
<1>6. (k \in Present) \in BOOLEAN /\ (View[k] # NoEntry => k \in Present)
  BY <1>2
<1> QED BY <1>4, <1>5, <1>6, Zenon DEF Abstract!Del

\* Updating an entry in place shows the same value with the new expiry.
LEMMA UpdateSeen ==
  ASSUME TypeOK, NEW k \in Keys, Live(k), NEW h \in BOOLEAN, NEW t \in Int,
         Update(k, h, t), now' = now
  PROVE  Abstract!Becomes(k, [value |-> View[k].value, hasExpiry |-> h,
                              expiresAt |-> IF h THEN t ELSE 0])
<1> DEFINE ent == [entries[k] EXCEPT !.hasExpiry = h, !.expiresAt = t]
<1>1. entries[k] \in Entry /\ View[k] = Shown(entries[k])
  BY Seen
<1>2. ent \in Entry /\ ent.value = entries[k].value /\ ent.hasExpiry = h
      /\ ent.expiresAt = t
  BY <1>1 DEF Entry
<1>3. entries' = [entries EXCEPT ![k] = ent]
  BY DEF Update, TypeOK
<1> HIDE DEF ent
<1>4. View[k].value = entries[k].value
  BY <1>1 DEF Shown
<1>5. Shown(ent) = [value |-> View[k].value, hasExpiry |-> h,
                    expiresAt |-> IF h THEN t ELSE 0]
  BY <1>2, <1>4 DEF Shown
<1> QED BY <1>2, <1>3, <1>5, StoreSeen DEF Abstract!Becomes

\* EXPIRE gives a visible key a new deadline, which may have passed already.
LEMMA ExpireSteps ==
  ASSUME TypeOK, NEW k \in Keys
  PROVE  /\ \A ttl \in ExpireTTLs : ExpireApplied(k, ttl) => Abstract!Expire(k)
         /\ ExpireRefused(k) => Abstract!Expire(k)
<1>1. ASSUME NEW ttl \in ExpireTTLs, ExpireApplied(k, ttl)
      PROVE  Abstract!Expire(k)
  <2>1. now + ttl \in Int
    BY StoreAssumption DEF TypeOK
  <2>2. View[k] # NoEntry
    BY <1>1, Seen DEF ExpireApplied
  <2>3. Abstract!Becomes(k, [value |-> View[k].value, hasExpiry |-> TRUE,
                             expiresAt |-> IF TRUE THEN now + ttl ELSE 0])
    BY <1>1, <2>1, UpdateSeen DEF ExpireApplied, Replies
  <2>4. Abstract!Becomes(k, Abstract!Until(View[k].value, now + ttl))
    BY <2>3, Zenon DEF Abstract!Until
  <2>5. (View[k] # NoEntry) = TRUE
    BY <2>2
  <2>6. Abstract!Answer(<<"expire", k, View[k] # NoEntry>>)
    BY <1>1, <2>5 DEF ExpireApplied, Locks, Replies, Abstract!Answer
  <2> QED BY <2>2, <2>4, <2>6, Zenon DEF Abstract!Expire
<1>2. ASSUME ExpireRefused(k)
      PROVE  Abstract!Expire(k)
  <2>1. View' = View
    BY <1>2, ViewKept DEF ExpireRefused, Replies, shardVars
  <2>2. View[k] = NoEntry /\ (View[k] # NoEntry) = FALSE
    BY <1>2, Seen DEF ExpireRefused
  <2>3. Abstract!Answer(<<"expire", k, View[k] # NoEntry>>)
    BY <1>2, <2>2 DEF ExpireRefused, Locks, Replies, Abstract!Answer
  <2> QED BY <2>1, <2>2, <2>3, Zenon DEF Abstract!Expire
<1> QED BY <1>1, <1>2

\* PERSIST takes a visible key's deadline away.
LEMMA PersistSteps ==
  ASSUME TypeOK, NEW k \in Keys
  PROVE  PersistApplied(k) \/ PersistRefused(k) => Abstract!Persist(k)
<1>1. ASSUME PersistApplied(k)
      PROVE  Abstract!Persist(k)
  <2>1. entries[k] \in Entry /\ View[k] # NoEntry /\ View[k] = Shown(entries[k])
    BY <1>1, Seen DEF PersistApplied
  <2>2. View[k].hasExpiry = TRUE
    BY <1>1, <2>1 DEF PersistApplied, Shown, Entry
  <2>3. entries[k].expiresAt \in Int
    BY <2>1 DEF Entry
  <2>4. Abstract!Becomes(k, [value |-> View[k].value, hasExpiry |-> FALSE,
                             expiresAt |-> IF FALSE THEN entries[k].expiresAt ELSE 0])
    BY <1>1, <2>3, UpdateSeen DEF PersistApplied, Replies
  <2>5. Abstract!Becomes(k, Abstract!Forever(View[k].value))
    BY <2>4, Zenon DEF Abstract!Forever
  <2>6. (View[k] # NoEntry /\ View[k].hasExpiry) = TRUE
    BY <2>1, <2>2
  <2>7. Abstract!Answer(<<"persist", k, View[k] # NoEntry /\ View[k].hasExpiry>>)
    BY <1>1, <2>6 DEF PersistApplied, Locks, Replies, Abstract!Answer
  <2> QED BY <2>1, <2>5, <2>7, Zenon DEF Abstract!Persist
<1>2. ASSUME PersistRefused(k)
      PROVE  Abstract!Persist(k)
  <2>1. View' = View
    BY <1>2, ViewKept DEF PersistRefused, Replies, shardVars
  <2>2. View[k] # NoEntry =>
          /\ View[k].hasExpiry = FALSE
          /\ View[k] = Abstract!Forever(View[k].value)
    <3> SUFFICES ASSUME View[k] # NoEntry
                 PROVE  /\ View[k].hasExpiry = FALSE
                        /\ View[k] = Abstract!Forever(View[k].value)
      OBVIOUS
    <3>1. entries[k] \in Entry /\ View[k] = Shown(entries[k]) /\ Live(k)
      BY Seen
    <3>2. entries[k].hasExpiry = FALSE
      BY <1>2, <3>1 DEF PersistRefused, Entry
    <3>3. View[k] = [value |-> entries[k].value, hasExpiry |-> FALSE, expiresAt |-> 0]
      BY <3>1, <3>2, Zenon DEF Shown
    <3>4. View[k].hasExpiry = FALSE /\ View[k].value = entries[k].value
      BY <3>3
    <3> QED BY <3>3, <3>4, Zenon DEF Abstract!Forever
  <2>3. View[k] # NoEntry => Abstract!Becomes(k, Abstract!Forever(View[k].value))
    BY <2>1, <2>2, Seen DEF Abstract!Becomes
  <2>4. (View[k] # NoEntry /\ View[k].hasExpiry) = FALSE
    BY <2>2
  <2>5. Abstract!Answer(<<"persist", k, View[k] # NoEntry /\ View[k].hasExpiry>>)
    BY <1>2, <2>4 DEF PersistRefused, Locks, Replies, Abstract!Answer
  <2>6. IF View[k] = NoEntry THEN UNCHANGED View
                             ELSE Abstract!Becomes(k, Abstract!Forever(View[k].value))
    BY <2>1, <2>3
  <2> QED BY <2>5, <2>6 DEF Abstract!Persist
<1> QED BY <1>1, <1>2

\* INCR adds to a visible number, starts a missing key from zero, and over an
\* expired entry answers without showing anything.
LEMMA IncrSteps ==
  ASSUME TypeOK, NEW k \in Keys
  PROVE  /\ IncrRefused(k) => Abstract!Incr(k)
         /\ \A delta \in Deltas : IncrApplied(k, delta) => Abstract!Incr(k)
<1>1. ASSUME IncrRefused(k)
      PROVE  Abstract!Incr(k)
  <2>1. View' = View
    BY <1>1, ViewKept DEF IncrRefused, Replies, shardVars
  <2>2. View[k] # NoEntry /\ View[k] = Shown(entries[k])
    BY <1>1, Seen DEF IncrRefused
  <2>3. View[k].value \in Blobs
    BY <1>1, <2>2 DEF IncrRefused, Shown
  <2>4. Abstract!Answer(<<"incr", k, Nil>>)
    BY <1>1 DEF IncrRefused, Locks, Replies, Abstract!Answer
  <2> QED BY <2>1, <2>2, <2>3, <2>4 DEF Abstract!Incr
<1>2. ASSUME NEW delta \in Deltas, IncrApplied(k, delta)
      PROVE  Abstract!Incr(k)
  <2> DEFINE current == IF Live(k) THEN entries[k].value ELSE 0
             next == Wrap(current + delta)
             size == SizeOf[<<k, next>>]
  <2>1. current \in Int /\ delta \in Int
    BY <1>2, StoreAssumption DEF IncrApplied, Ints
  <2>2. next \in Values /\ size \in Nat
    <3> HIDE DEF current
    <3>1. next \in Values
      BY <2>1, WrapType DEF Values
    <3> HIDE DEF next
    <3> QED BY <3>1, StoreAssumption
  <2>3. /\ serving /\ now' = now /\ serving' = serving
        /\ reply' = <<"incr", k, next>>
        /\ entries' = [entries EXCEPT ![k] =
             IF k \in Present
               THEN [entries[k] EXCEPT !.value = next, !.size = size]
               ELSE [value |-> next, hasExpiry |-> FALSE, expiresAt |-> 0, size |-> size]]
    BY <1>2 DEF IncrApplied, Put, Locks, Replies
  <2>4. Live(k) => entries[k].value \in Ints
    BY <1>2 DEF IncrApplied
  <2>5. CASE Live(k)
    <3> DEFINE ent == [entries[k] EXCEPT !.value = next, !.size = size]
    <3>1. k \in Present /\ entries[k] \in Entry /\ View[k] # NoEntry
          /\ View[k] = Shown(entries[k])
      BY <2>5, Seen DEF Live, Present
    <3>2. View[k].value = entries[k].value
      BY <3>1 DEF Shown
    <3>3. next = Wrap(View[k].value + delta)
      BY <2>5, <3>2
    <3> HIDE DEF next, size
    <3>4. ent \in Entry /\ ent.value = next /\ ent.hasExpiry = entries[k].hasExpiry
          /\ ent.expiresAt = entries[k].expiresAt
      BY <2>2, <3>1 DEF Entry
    <3>5. entries' = [entries EXCEPT ![k] = ent]
      BY <2>3, <3>1
    <3> HIDE DEF ent
    <3>6. Shown(ent) = [View[k] EXCEPT !.value = next]
      BY <3>1, <3>4 DEF Shown
    <3>7. Abstract!Becomes(k, [View[k] EXCEPT !.value = next])
      <4>1. View' = [View EXCEPT ![k] = Abstract!At(Shown(ent), now)]
        BY <2>3, <3>4, <3>5, StoreSeen
      <4> QED BY <3>6, <4>1 DEF Abstract!Becomes
    <3>8. Abstract!Answer(<<"incr", k, next>>)
      BY <2>3 DEF Abstract!Answer
    <3>9. next = Abstract!Wrap(View[k].value + delta)
      BY <3>3 DEF Wrap, Abstract!Wrap
    <3>10. View[k].value \in Abstract!Ints
      BY <2>4, <2>5, <3>2 DEF Ints, Abstract!Ints
    <3> QED BY <3>1, <3>7, <3>8, <3>9, <3>10, Zenon DEF Abstract!Incr
  <2>6. CASE ~Live(k)
    <3>1. View[k] = NoEntry
      BY <2>6, Seen
    <3>2. next = Abstract!Wrap(delta)
      <4>1. current + delta = delta
        BY <2>1, <2>6
      <4> QED BY <4>1 DEF Wrap, Abstract!Wrap
    <3>3. Abstract!Answer(<<"incr", k, next>>)
      BY <2>3 DEF Abstract!Answer
    <3>4. Abstract!Becomes(k, Abstract!Forever(next)) \/ UNCHANGED View
      <4> HIDE DEF next, size
      <4>1. CASE k \in Present
        <5> DEFINE ent == [entries[k] EXCEPT !.value = next, !.size = size]
        <5>1. entries[k] \in Entry
          BY <4>1 DEF TypeOK, Present
        <5>2. ent \in Entry /\ ent.hasExpiry = entries[k].hasExpiry
              /\ ent.expiresAt = entries[k].expiresAt
          BY <2>2, <5>1 DEF Entry
        <5>3. entries' = [entries EXCEPT ![k] = ent]
          BY <2>3, <4>1
        <5>4. ent.hasExpiry /\ now > ent.expiresAt
          BY <2>6, <4>1, <5>2 DEF Live, Present, IsExpired
        <5> HIDE DEF ent
        <5>5. Abstract!At(Shown(ent), now) = NoEntry
          BY <5>2, <5>4, ShownVisible DEF Shown, Abstract!At
        <5>6. View' = [View EXCEPT ![k] = Abstract!At(Shown(ent), now)]
          BY <2>3, <5>2, <5>3, StoreSeen
        <5> QED BY <3>1, <5>5, <5>6, Seen
      <4>2. CASE k \notin Present
        <5> DEFINE ent == [value |-> next, hasExpiry |-> FALSE,
                           expiresAt |-> 0, size |-> size]
        <5>1. ent \in Entry
          BY <2>2 DEF Entry
        <5>2. entries' = [entries EXCEPT ![k] = ent]
          BY <2>3, <4>2
        <5>3. Shown(ent) = Abstract!Forever(next)
          BY DEF Shown, Abstract!Forever
        <5> HIDE DEF ent
        <5>4. View' = [View EXCEPT ![k] = Abstract!At(Shown(ent), now)]
          BY <2>3, <5>1, <5>2, StoreSeen
        <5> QED BY <5>3, <5>4 DEF Abstract!Becomes
      <4> QED BY <4>1, <4>2
    <3> QED BY <3>1, <3>2, <3>3, <3>4, Zenon DEF Abstract!Incr
  <2> QED BY <2>5, <2>6
<1> QED BY <1>1, <1>2

\* Every client command is the map's command of the same name.
LEMMA CommandRefines ==
  ASSUME TypeOK, NEW k \in Keys, Command(k)
  PROVE  Abstract!Next
<1>1. Modes = {"always", "NX", "XX"}
  BY DEF Modes
<1>2. \/ Abstract!Get(k) \/ Abstract!Exists(k) \/ Abstract!Del(k)
      \/ \E mode \in {"always", "NX", "XX"} : Abstract!Set(k, mode)
      \/ Abstract!Expire(k) \/ Abstract!Persist(k) \/ Abstract!TTL(k) \/ Abstract!Incr(k)
  BY <1>1, ReadSteps, TTLStep, SetSteps, DelStep, ExpireSteps, PersistSteps, IncrSteps,
     Zenon DEF Command
<1> QED BY <1>2, Zenon DEF Abstract!Next

\* Eviction and FLUSHALL forget keys, unlocking and sweeping show nothing,
\* and loading a snapshot shows the entries it restores.
LEMMA ShardStepsRefine ==
  ASSUME TypeOK
  PROVE  /\ \A s \in Shards : Evict(s) => Abstract!Forget
         /\ FlushShard => Abstract!Forget
         /\ (\E s \in Shards : Unlock(s)) \/ SweepShard \/ FlushBegin
              => UNCHANGED Abstract!vars
         /\ Restore => Abstract!Restore
         /\ StartServing => Abstract!Open
         /\ Tick => Abstract!Tick
<1>1. ASSUME NEW s \in Shards, Evict(s)
      PROVE  Abstract!Forget
  <2>1. PICK k \in Keys : RemoveLocked(s, {k})
    BY <1>1 DEF Evict
  <2>2. View' = [j \in Keys |-> IF j \in {k} THEN NoEntry ELSE View[j]]
    BY <1>1, <2>1, RemovalSeen DEF Evict, RemoveLocked
  <2>3. {k} \in SUBSET Keys
    OBVIOUS
  <2> QED BY <1>1, <2>2, <2>3 DEF Evict, Abstract!Forget
<1>2. ASSUME FlushShard
      PROVE  Abstract!Forget
  <2> DEFINE gone == Present \cap KeysOf(flushNext)
  <2>1. gone \in SUBSET Keys
    BY DEF Present
  <2>2. /\ entries' = [j \in Keys |-> IF j \in gone THEN NoEntry ELSE entries[j]]
        /\ UNCHANGED <<now, serving, reply>>
    BY <1>2 DEF FlushShard
  <2> HIDE DEF gone
  <2>3. View' = [j \in Keys |-> IF j \in gone THEN NoEntry ELSE View[j]]
    BY <2>2, RemovalSeen
  <2> QED BY <2>1, <2>2, <2>3 DEF Abstract!Forget
<1>3. ASSUME NEW s \in Shards, Unlock(s)
      PROVE  UNCHANGED Abstract!vars
  BY <1>3, ViewKept DEF Unlock, Abstract!vars
<1>4. ASSUME SweepShard
      PROVE  UNCHANGED Abstract!vars
  <2>1. ExpiredKeys \cap KeysOf(sweepNext) \in SUBSET ExpiredKeys
    OBVIOUS
  <2>2. RemoveLocked(sweepNext, ExpiredKeys \cap KeysOf(sweepNext))
        /\ UNCHANGED <<now, serving, reply>>
    BY <1>4 DEF SweepShard
  <2>3. View' = View
    BY <2>1, <2>2, ExpirationHidden
  <2> QED BY <2>2, <2>3 DEF Abstract!vars
<1>5. ASSUME FlushBegin
      PROVE  UNCHANGED Abstract!vars
  BY <1>5, ViewKept DEF FlushBegin, Abstract!vars
<1>6. ASSUME NEW k \in Keys, NEW v \in Values, NEW h \in BOOLEAN, NEW t \in 0..MaxTime,
             RestoreEntry(k, v, h, t)
      PROVE  Abstract!Restore
  <2> DEFINE ent == [value |-> v, hasExpiry |-> h,
                     expiresAt |-> IF h THEN t ELSE 0, size |-> 0]
  <2>1. ent \in Entry
    BY StoreAssumption DEF Entry
  <2>2. /\ ~serving /\ k \notin Present /\ ~IsExpired(ent)
        /\ entries' = [entries EXCEPT ![k] = ent]
        /\ UNCHANGED <<now, serving, reply>>
    BY <1>6 DEF RestoreEntry
  <2> HIDE DEF ent
  <2>3. Shown(ent) \in Abstract!Visible
    BY <2>1, ShownVisible
  <2>4. Abstract!At(Shown(ent), now) = Shown(ent)
    BY <2>2 DEF IsExpired, Shown, Abstract!At
  <2>5. View' = [View EXCEPT ![k] = Abstract!At(Shown(ent), now)]
    BY <2>1, <2>2, StoreSeen
  <2>6. View' = [View EXCEPT ![k] = Shown(ent)]
    BY <2>4, <2>5, Zenon
  <2>7. View'[k] = Shown(ent)
    <3>1. View = [j \in Keys |-> View[j]]
      BY DEF View
    <3> QED BY <2>6, <3>1
  <2>8. View[k] = NoEntry
    BY <2>2, Seen DEF Live, Present
  <2> QED BY <2>2, <2>3, <2>6, <2>7, <2>8 DEF Abstract!Restore
<1>7. ASSUME StartServing
      PROVE  Abstract!Open
  <2>1. View' = View
    BY <1>7, ViewKept DEF StartServing, shardVars
  <2> QED BY <1>7, <2>1 DEF StartServing, Abstract!Open
<1>8. ASSUME Tick
      PROVE  Abstract!Tick
  <2>1. entries \in EntryMap /\ now \in Nat
    BY DEF TypeOK, EntryMap
  <2>2. now' = now + 1 /\ entries' = entries /\ UNCHANGED <<serving, reply>>
    BY <1>8 DEF Tick, shardVars
  <2>3. View' = ViewOf(entries, now + 1)
    BY <2>2, ViewIsPrimed
  <2>4. View' = [k \in Keys |-> Abstract!At(View[k], now + 1)]
    BY <2>1, <2>3, ViewIs, ViewTick
  <2> QED BY <2>2, <2>4 DEF Abstract!Tick
<1> QED BY <1>1, <1>2, <1>3, <1>4, <1>5, <1>6, <1>7, <1>8 DEF Restore

\* The store starts empty, as the map does.
LEMMA InitRefines == Init => Abstract!Init
<1> SUFFICES ASSUME Init PROVE Abstract!Init
  OBVIOUS
<1>1. \A k \in Keys : ~Live(k)
  BY DEF Init, Live
<1>2. View = [k \in Keys |-> NoEntry]
  BY <1>1 DEF View
<1> QED BY <1>2 DEF Init, Abstract!Init

\* Every step of the store, from a well-typed state, is a step of the map or
\* shows nothing.
LEMMA NextRefines == TypeOK /\ [Next]_vars => [Abstract!Next]_(Abstract!vars)
<1> SUFFICES ASSUME TypeOK, [Next]_vars
             PROVE  Abstract!Next \/ UNCHANGED Abstract!vars
  OBVIOUS
<1>1. ASSUME NEW k \in Keys, Command(k)
      PROVE  Abstract!Next
  BY <1>1, CommandRefines
<1>2. CASE (\E s \in Shards : Evict(s)) \/ FlushShard
  BY <1>2, ShardStepsRefine DEF Abstract!Next
<1>3. CASE (\E s \in Shards : Unlock(s)) \/ SweepShard \/ FlushBegin
  BY <1>3, ShardStepsRefine
<1>4. CASE Restore \/ StartServing \/ Tick
  BY <1>4, ShardStepsRefine DEF Abstract!Next
<1>5. CASE UNCHANGED vars
  <2>1. UNCHANGED <<entries, now, serving, reply>>
    BY <1>5 DEF vars, shardVars
  <2> QED BY <2>1, ViewKept DEF Abstract!vars
<1> QED BY <1>1, <1>2, <1>3, <1>4, <1>5 DEF Next

\* The sharded store with its locks, LRU lists, evictions, sweeps and
\* FLUSHALLs shows its clients an expiring map and answers as that map does.
THEOREM StoreImplementsMap == Spec => ImplementsExpiringMap
<1>1. Spec => [][Abstract!Next]_(Abstract!vars)
  <2>1. TypeOK /\ [Next]_vars => [Abstract!Next]_(Abstract!vars)
    BY NextRefines
  <2> QED BY <2>1, TypeCorrect, PTL DEF Spec
<1>2. Spec => Abstract!Init
  BY InitRefines DEF Spec
<1> QED BY <1>1, <1>2 DEF ImplementsExpiringMap, Abstract!Spec

=============================================================================
