----------------------------- MODULE CacheStore -----------------------------
(***************************************************************************)
(* The plan cache's storage engine (cache/internal/storage): a map split   *)
(* into shards, each with its own mutex, LRU list and slice of the memory  *)
(* budget, plus the two gauges that every shard updates.                   *)
(*                                                                         *)
(* Every shard operation runs under shard.mu, so it is one step.  The only *)
(* exception is the loop of evictIfOverBudget, which runs one iteration    *)
(* per step while mu stays held: the gauges are atomics that INFO reads    *)
(* without the lock, so their values between iterations are visible.       *)
(* Operations over several shards (FLUSHALL, the expiration worker) hold   *)
(* one shard's lock at a time and interleave with everything else.         *)
(***************************************************************************)
EXTENDS Integers, FiniteSets

CONSTANTS
  Keys,       \* the keys clients use
  NumShards,  \* len(ShardedStore.shards)
  ShardOf,    \* shardFor: fnv32a(key) % NumShards, shards counted from 1
  MaxMemory,  \* cfg.MaxMemoryBytes
  SizeOf,     \* approxSize(key, value) as a function of <<key, value>>
  Blobs,      \* values that do not parse as a decimal int64
  IntMin,     \* the smallest and ...
  IntMax,     \* ... the largest int64
  Deltas,     \* what INCR and DECR add
  SetTTLs,    \* TTLs of SET; 0 stands for "no EX/PX" and for "EX 0"
  ExpireTTLs, \* TTLs of EXPIRE, which may be negative
  MaxTime,    \* bound: the clock stops here
  NoEntry,    \* a key absent from the entries map
  Free,       \* an unlocked shard mutex
  Nil         \* RESP null, an error reply, "no such key"

Ints   == IntMin..IntMax
Values == Blobs \cup Ints
Shards == 1..NumShards

\* A CacheEntry.  size is SizeBytes; expiresAt is meaningful when hasExpiry.
Entry == [value : Values, hasExpiry : BOOLEAN, expiresAt : Int, size : Nat]

ASSUME StoreAssumption ==
  /\ IsFiniteSet(Keys)
  /\ NumShards \in Nat \ {0}
  /\ ShardOf \in [Keys -> Shards]
  /\ MaxMemory \in Nat
  /\ SizeOf \in [Keys \X Values -> Nat \ {0}]
  /\ IntMin \in Int /\ IntMax \in Int /\ IntMin <= 0 /\ 0 <= IntMax
  /\ Deltas \subseteq Int
  /\ SetTTLs \subseteq Nat
  /\ ExpireTTLs \subseteq Int
  /\ MaxTime \in Nat
  /\ NoEntry \notin Entry
  /\ Free \notin Keys

VARIABLES
  entries,        \* Keys -> CacheEntry: the shards' maps taken together
  tracked,        \* the keys in some shard's lru.items
  newer,          \* <<a, b>>: a is nearer the front of its shard's list than b
  usedBytes,      \* shard.usedBytes
  mu,             \* shard.mu: Free, or the key whose writer is still evicting
  currentEntries, \* metrics.CurrentEntries
  memoryBytes,    \* metrics.MemoryBytes
  now,            \* time.Now()
  serving,        \* FALSE while main is still loading the snapshot
  sweepNext,      \* the shard RunExpirationWorker locks next
  flushNext,      \* the shard a running FLUSHALL locks next, 0 when none runs
  stale,          \* history: keys older than the running FLUSHALL
  reply           \* history: the last reply sent to a client

lruVars   == <<tracked, newer>>
gauges    == <<currentEntries, memoryBytes>>
shardVars == <<entries, lruVars, usedBytes, mu, gauges, stale>>
vars == <<shardVars, now, serving, sweepNext, flushNext, reply>>

-----------------------------------------------------------------------------
\* Each shard's eviction budget, never below one byte (storage.New).
PerShardBytes ==
  IF MaxMemory \div NumShards < 1 THEN 1 ELSE MaxMemory \div NumShards

KeysOf(s) == {k \in Keys : ShardOf[k] = s}

Present == {k \in Keys : entries[k] # NoEntry}

IsExpired(ent) == ent.hasExpiry /\ now > ent.expiresAt

ExpiredKeys == {k \in Present : IsExpired(entries[k])}

Live(k) == entries[k] # NoEntry /\ ~IsExpired(entries[k])

SizeAt(k) == IF entries[k] # NoEntry THEN entries[k].size ELSE 0

\* The sum of SizeBytes over a set of keys, as the cardinality of a disjoint
\* union: one pair <<key, byte number>> per accounted byte.
Bytes(R)  == UNION {{k} \X (1..SizeAt(k)) : k \in R}
Weight(R) == Cardinality(Bytes(R))

\* strconv.ParseInt / FormatInt round trip plus Go's wrapping int64 addition.
Wrap(n) == IntMin + ((n - IntMin) % (IntMax - IntMin + 1))

-----------------------------------------------------------------------------
\* Mutant of Touch: a tracked key stays where it is.
TouchNewOnly(k) ==
  /\ tracked' = tracked \cup {k}
  /\ newer' = IF k \in tracked THEN newer
              ELSE newer \cup ({k} \X {j \in tracked : ShardOf[j] = ShardOf[k]})

\* lru.touch: k moves to the front of its shard's list, entering it if new.
Touch(k) ==
  /\ tracked' = tracked \cup {k}
  /\ newer' = {p \in newer : p[1] # k /\ p[2] # k}
                \cup ({k} \X {j \in tracked \ {k} : ShardOf[j] = ShardOf[k]})

\* lru.remove for every key of R.
Untrack(R) ==
  /\ tracked' = tracked \ R
  /\ newer' = {p \in newer : p[1] \notin R /\ p[2] \notin R}

\* removeLocked for every key of R, all of them present in shard s.
RemoveLocked(s, R) ==
  /\ entries' = [k \in Keys |-> IF k \in R THEN NoEntry ELSE entries[k]]
  /\ Untrack(R)
  /\ usedBytes' = [usedBytes EXCEPT ![s] = @ - Weight(R)]
  /\ currentEntries' = currentEntries - Cardinality(R)
  /\ memoryBytes' = memoryBytes - Weight(R)
  /\ stale' = stale \ R

\* Mutant of Put: the size of the entry it replaces stays on the books.
PutKeepsOldSize(k, ent) ==
  /\ entries' = [entries EXCEPT ![k] = ent]
  /\ usedBytes' = [usedBytes EXCEPT ![ShardOf[k]] = @ + ent.size]
  /\ memoryBytes' = memoryBytes + ent.size
  /\ currentEntries' = currentEntries + (IF k \in Present THEN 0 ELSE 1)
  /\ Touch(k)
  /\ mu' = [mu EXCEPT ![ShardOf[k]] = k]
  /\ stale' = stale \ {k}

\* The common tail of set and incrBy: account for the new size, store the
\* entry, touch it, and enter evictIfOverBudget with the lock still held.
Put(k, ent) ==
  LET s == ShardOf[k]
      growth == ent.size - SizeAt(k)
  IN  /\ entries' = [entries EXCEPT ![k] = ent]
      /\ usedBytes' = [usedBytes EXCEPT ![s] = @ + growth]
      /\ memoryBytes' = memoryBytes + growth
      /\ currentEntries' = currentEntries + (IF k \in Present THEN 0 ELSE 1)
      /\ Touch(k)
      /\ mu' = [mu EXCEPT ![s] = k]
      /\ stale' = stale \ {k}

\* lru.evictCandidate: the back of shard s's list.
IsEvictCandidate(s, k) ==
  /\ k \in tracked \cap KeysOf(s)
  /\ \A j \in (tracked \cap KeysOf(s)) \ {k} : <<j, k>> \in newer

-----------------------------------------------------------------------------
\* A client operation on key k needs the server up and the shard's mutex.
Locks(k) == serving /\ mu[ShardOf[k]] = Free

Replies(r) ==
  /\ reply' = r
  /\ UNCHANGED <<now, serving, sweepNext, flushNext>>

\* The lazy expiration shared by get, exists, ttl and set.
DropIfExpired(k) ==
  /\ RemoveLocked(ShardOf[k], {k} \cap ExpiredKeys)
  /\ UNCHANGED mu

GetHit(k) ==
  /\ Locks(k) /\ Live(k)
  /\ Touch(k)
  /\ UNCHANGED <<entries, usedBytes, mu, gauges, stale>>
  /\ Replies(<<"get", k, entries[k].value>>)

GetMiss(k) ==
  /\ Locks(k) /\ ~Live(k)
  /\ DropIfExpired(k)
  /\ Replies(<<"get", k, Nil>>)

Exists(k) ==
  /\ Locks(k)
  /\ DropIfExpired(k)
  /\ Replies(<<"exists", k, Live(k)>>)

\* Mutant of Admits: NX and XX look at the map without the lazy expiration.
AdmitsStale(k, mode) ==
  /\ mode = "NX" => k \notin Present
  /\ mode = "XX" => k \in Present

\* SET's conditions: mode is "always", "NX" or "XX".
Admits(k, mode) ==
  /\ mode = "NX" => ~Live(k)
  /\ mode = "XX" => Live(k)

SetApplied(k, v, ttl, mode) ==
  /\ Locks(k) /\ Admits(k, mode)
  /\ Put(k, [value |-> v, hasExpiry |-> ttl > 0,
             expiresAt |-> IF ttl > 0 THEN now + ttl ELSE 0,
             size |-> SizeOf[<<k, v>>]])
  /\ Replies(<<"set", k, mode, TRUE>>)

SetBlocked(k, mode) ==
  /\ Locks(k) /\ ~Admits(k, mode)
  /\ DropIfExpired(k)
  /\ Replies(<<"set", k, mode, FALSE>>)

\* delete does not look at the expiry.
Delete(k) ==
  /\ Locks(k)
  /\ RemoveLocked(ShardOf[k], {k} \cap Present)
  /\ UNCHANGED mu
  /\ Replies(<<"del", k, k \in Present>>)

\* expire and persist update the entry in place; they neither touch the LRU
\* nor remove an expired entry.
Update(k, hasExpiry, expiresAt) ==
  /\ entries' = [entries EXCEPT ![k] = [@ EXCEPT !.hasExpiry = hasExpiry,
                                                 !.expiresAt = expiresAt]]
  /\ UNCHANGED <<lruVars, usedBytes, mu, gauges, stale>>

ExpireApplied(k, ttl) ==
  /\ Locks(k) /\ Live(k)
  /\ Update(k, TRUE, now + ttl)
  /\ Replies(<<"expire", k, TRUE>>)

ExpireRefused(k) ==
  /\ Locks(k) /\ ~Live(k)
  /\ UNCHANGED shardVars
  /\ Replies(<<"expire", k, FALSE>>)

PersistApplied(k) ==
  /\ Locks(k) /\ Live(k) /\ entries[k].hasExpiry
  /\ Update(k, FALSE, entries[k].expiresAt)
  /\ Replies(<<"persist", k, TRUE>>)

PersistRefused(k) ==
  /\ Locks(k)
  /\ Live(k) => ~entries[k].hasExpiry
  /\ UNCHANGED shardVars
  /\ Replies(<<"persist", k, FALSE>>)

\* handleTTL after ttl: -1 for a zero duration, -2 for a missing key.  One
\* unit of the clock stands for a second, so nothing is rounded.
TTL(k) ==
  LET left == IF entries[k].hasExpiry THEN entries[k].expiresAt - now ELSE 0
  IN  /\ Locks(k)
      /\ DropIfExpired(k)
      /\ Replies(<<"ttl", k, IF ~Live(k) THEN -2
                             ELSE IF left = 0 THEN -1 ELSE left>>)

IncrRefused(k) ==
  /\ Locks(k) /\ Live(k) /\ entries[k].value \in Blobs
  /\ UNCHANGED shardVars
  /\ Replies(<<"incr", k, Nil>>)

\* A missing or expired key counts as 0.  An entry that is in the map, even
\* an expired one, keeps its expiry.
IncrApplied(k, delta) ==
  LET current == IF Live(k) THEN entries[k].value ELSE 0
      next    == Wrap(current + delta)
      size    == SizeOf[<<k, next>>]
  IN  /\ Locks(k)
      /\ Live(k) => entries[k].value \in Ints
      /\ Put(k, IF k \in Present
                  THEN [entries[k] EXCEPT !.value = next, !.size = size]
                  ELSE [value |-> next, hasExpiry |-> FALSE,
                        expiresAt |-> 0, size |-> size])
      /\ Replies(<<"incr", k, next>>)

-----------------------------------------------------------------------------
\* One iteration of evictIfOverBudget's loop, by the writer holding mu[s].
Evict(s) ==
  /\ mu[s] # Free
  /\ usedBytes[s] > PerShardBytes
  /\ \E k \in Keys : IsEvictCandidate(s, k) /\ RemoveLocked(s, {k})
  /\ UNCHANGED <<mu, now, serving, sweepNext, flushNext, reply>>

\* Mutant of Unlock: an if instead of the loop.
UnlockEarly(s) ==
  /\ mu[s] # Free
  /\ mu' = [mu EXCEPT ![s] = Free]
  /\ UNCHANGED <<entries, lruVars, usedBytes, gauges, stale,
                 now, serving, sweepNext, flushNext, reply>>

\* The loop's two exits, and the deferred Unlock.
Unlock(s) ==
  /\ mu[s] # Free
  /\ \/ usedBytes[s] <= PerShardBytes
     \/ tracked \cap KeysOf(s) = {}
  /\ mu' = [mu EXCEPT ![s] = Free]
  /\ UNCHANGED <<entries, lruVars, usedBytes, gauges, stale,
                 now, serving, sweepNext, flushNext, reply>>

\* Mutants of SweepShard: the worker runs past the last shard, ...
SweepPastEnd ==
  /\ serving /\ mu[sweepNext] = Free
  /\ RemoveLocked(sweepNext, ExpiredKeys \cap KeysOf(sweepNext))
  /\ sweepNext' = sweepNext + 1
  /\ UNCHANGED <<mu, now, serving, flushNext, reply>>

\* ... or never gets beyond the first.
SweepFirstShard ==
  /\ serving /\ mu[1] = Free
  /\ RemoveLocked(1, ExpiredKeys \cap KeysOf(1))
  /\ UNCHANGED <<mu, now, serving, sweepNext, flushNext, reply>>

\* RunExpirationWorker's inner loop: sweepExpired on the next shard.  The
\* wait for the ticker is the time between the last shard and the first.
SweepShard ==
  LET s == sweepNext
  IN  /\ serving /\ mu[s] = Free
      /\ RemoveLocked(s, ExpiredKeys \cap KeysOf(s))
      /\ sweepNext' = IF s = NumShards THEN 1 ELSE s + 1
      /\ UNCHANGED <<mu, now, serving, flushNext, reply>>

\* FLUSHALL: ShardedStore.FlushAll visits the shards in order, unlocked in
\* between.  One FLUSHALL runs at a time.
FlushBegin ==
  /\ serving /\ flushNext = 0
  /\ flushNext' = 1
  /\ stale' = Present
  /\ UNCHANGED <<entries, lruVars, usedBytes, mu, gauges,
                 now, serving, sweepNext, reply>>

\* Mutants of FlushShard: flushAll leaves the LRU list behind, ...
FlushKeepsLRU ==
  LET s == flushNext
      gone == Present \cap KeysOf(s)
  IN  /\ flushNext # 0 /\ mu[s] = Free
      /\ currentEntries' = currentEntries - Cardinality(gone)
      /\ memoryBytes' = memoryBytes - usedBytes[s]
      /\ entries' = [k \in Keys |-> IF k \in gone THEN NoEntry ELSE entries[k]]
      /\ usedBytes' = [usedBytes EXCEPT ![s] = 0]
      /\ stale' = stale \ gone
      /\ flushNext' = IF s = NumShards THEN 0 ELSE s + 1
      /\ UNCHANGED <<lruVars, mu, now, serving, sweepNext, reply>>

\* ... or the loop stops one shard early.
FlushMissesLast ==
  LET s == flushNext
      gone == Present \cap KeysOf(s)
  IN  /\ flushNext # 0 /\ mu[s] = Free
      /\ RemoveLocked(s, gone)
      /\ flushNext' = IF s >= NumShards - 1 THEN 0 ELSE s + 1
      /\ UNCHANGED <<mu, now, serving, sweepNext, reply>>

FlushShard ==
  LET s == flushNext
      gone == Present \cap KeysOf(s)
  IN  /\ flushNext # 0 /\ mu[s] = Free
      /\ currentEntries' = currentEntries - Cardinality(gone)
      /\ memoryBytes' = memoryBytes - usedBytes[s]
      /\ entries' = [k \in Keys |-> IF k \in gone THEN NoEntry ELSE entries[k]]
      /\ Untrack(KeysOf(s))
      /\ usedBytes' = [usedBytes EXCEPT ![s] = 0]
      /\ stale' = stale \ gone
      /\ flushNext' = IF s = NumShards THEN 0 ELSE s + 1
      /\ UNCHANGED <<mu, now, serving, sweepNext, reply>>

\* restoreEntry as LoadSnapshot calls it before the server starts: once per
\* key, with a CacheEntry whose SizeBytes was never filled in.
RestoreEntry(k, v, hasExpiry, expiresAt) ==
  LET ent == [value |-> v, hasExpiry |-> hasExpiry,
              expiresAt |-> IF hasExpiry THEN expiresAt ELSE 0, size |-> 0]
  IN  /\ ~serving /\ k \notin Present
      /\ ~IsExpired(ent)
      /\ entries' = [entries EXCEPT ![k] = ent]
      /\ Touch(k)
      /\ usedBytes' = [usedBytes EXCEPT ![ShardOf[k]] = @ + ent.size]
      /\ currentEntries' = currentEntries + 1
      /\ memoryBytes' = memoryBytes + ent.size
      /\ UNCHANGED <<mu, stale, now, serving, sweepNext, flushNext, reply>>

StartServing ==
  /\ ~serving
  /\ serving' = TRUE
  /\ UNCHANGED <<shardVars, now, sweepNext, flushNext, reply>>

Tick ==
  /\ now < MaxTime
  /\ now' = now + 1
  /\ UNCHANGED <<shardVars, serving, sweepNext, flushNext, reply>>

-----------------------------------------------------------------------------
Init ==
  /\ entries = [k \in Keys |-> NoEntry]
  /\ tracked = {}
  /\ newer = {}
  /\ usedBytes = [s \in Shards |-> 0]
  /\ mu = [s \in Shards |-> Free]
  /\ currentEntries = 0
  /\ memoryBytes = 0
  /\ now = 0
  /\ serving = FALSE
  /\ sweepNext = 1
  /\ flushNext = 0
  /\ stale = {}
  /\ reply = <<"none">>

Modes == {"always", "NX", "XX"}

Command(k) ==
  \/ GetHit(k)
  \/ GetMiss(k)
  \/ Exists(k)
  \/ \E v \in Values, ttl \in SetTTLs, mode \in Modes :
       SetApplied(k, v, ttl, mode)
  \/ \E mode \in Modes : SetBlocked(k, mode)
  \/ Delete(k)
  \/ \E ttl \in ExpireTTLs : ExpireApplied(k, ttl)
  \/ ExpireRefused(k)
  \/ PersistApplied(k)
  \/ PersistRefused(k)
  \/ TTL(k)
  \/ IncrRefused(k)
  \/ \E delta \in Deltas : IncrApplied(k, delta)

Restore ==
  \E k \in Keys, v \in Values, hasExpiry \in BOOLEAN, t \in 0..MaxTime :
    RestoreEntry(k, v, hasExpiry, t)

Next ==
  \/ \E k \in Keys : Command(k)
  \/ \E s \in Shards : Evict(s)
  \/ \E s \in Shards : Unlock(s)
  \/ SweepShard
  \/ FlushBegin
  \/ FlushShard
  \/ Restore
  \/ StartServing
  \/ Tick

Spec == Init /\ [][Next]_vars

\* A goroutine in evictIfOverBudget keeps running, the expiration worker's
\* ticker keeps firing, and Go's mutex does not starve a waiter, so a worker
\* that finds the lock free again and again gets it.
Fairness ==
  /\ WF_vars(StartServing)
  /\ \A s \in Shards : WF_vars(Evict(s)) /\ WF_vars(Unlock(s))
  /\ SF_vars(SweepShard)

FairSpec == Spec /\ Fairness

-----------------------------------------------------------------------------
\* Type invariant: the maps, the LRU order and the counters hold what the
\* storage package's declarations say.
TypeOK ==
  /\ entries \in [Keys -> Entry \cup {NoEntry}]
  /\ tracked \subseteq Keys
  /\ newer \subseteq Keys \X Keys
  /\ usedBytes \in [Shards -> Int]
  /\ mu \in [Shards -> Keys \cup {Free}]
  /\ currentEntries \in Int
  /\ memoryBytes \in Int
  /\ now \in Nat
  /\ serving \in BOOLEAN
  /\ sweepNext \in Shards
  /\ flushNext \in 0..NumShards
  /\ stale \subseteq Keys

\* newer orders the tracked keys of each shard, strictly and totally.
LRUOrder ==
  /\ \A j, k \in Keys :
       <<j, k>> \in newer =>
         /\ j \in tracked /\ k \in tracked /\ j # k
         /\ ShardOf[j] = ShardOf[k]
         /\ <<k, j>> \notin newer
  /\ \A j, k \in tracked :
       j # k /\ ShardOf[j] = ShardOf[k] => <<j, k>> \in newer \/ <<k, j>> \in newer

\* The LRU list of every shard holds exactly the shard's keys, in one strict
\* linear order: evictCandidate never names a key that is gone and never
\* overlooks one (removeLocked, flushAll and touch change the two together).
LRUTracksEntries ==
  /\ tracked = Present
  /\ LRUOrder

\* Byte accounting never drifts: after any history of overwrites, increments,
\* lazy and active expirations, evictions and flushes, usedBytes is the sum of
\* the shard's SizeBytes, and the two gauges are the totals over all shards.
AccountingExact ==
  /\ \A s \in Shards : usedBytes[s] = Weight(Present \cap KeysOf(s))
  /\ memoryBytes = Weight(Present)
  /\ currentEntries = Cardinality(Present)

\* Whenever a shard's mutex is free its accounted bytes are within its share
\* of the budget (evictIfOverBudget runs to its end before Unlock).
BudgetRespected ==
  \A s \in Shards : mu[s] = Free => usedBytes[s] <= PerShardBytes

\* The key a SET or INCR is writing is evicted by that same command only when
\* it is larger than the whole shard's budget: every older key goes first.
WriterSurvivesStep ==
  \A k \in Keys :
    mu[ShardOf[k]] = k /\ mu'[ShardOf[k]] = k
      /\ entries[k] # NoEntry /\ entries'[k] = NoEntry
      => entries[k].size > PerShardBytes
WriterSurvives == [][WriterSurvivesStep]_vars

\* When FLUSHALL returns, no key that was stored before it began is left,
\* although its shards are flushed one at a time while clients keep writing.
FlushAllClears == flushNext = 0 => stale = {}

\* An expired entry does not stay in memory: the expiration worker or a lazy
\* check removes it, or a client replaces it, even if nobody asks for it.
ExpiredReclaimed == \A k \in Keys : k \in ExpiredKeys ~> k \notin ExpiredKeys

=============================================================================
