------------------------ MODULE CacheStoreRefinement ------------------------
(***************************************************************************)
(* The sharded store shows its clients an expiring map: the refinement     *)
(* mapping from CacheStore to ExpiringMap.                                 *)
(***************************************************************************)
EXTENDS CacheStore

\* What a client can see of an entry.
Shown(ent) ==
  [value |-> ent.value, hasExpiry |-> ent.hasExpiry,
   expiresAt |-> IF ent.hasExpiry THEN ent.expiresAt ELSE 0]

\* The state a client can see: expired entries are as good as gone.
View == [k \in Keys |-> IF Live(k) THEN Shown(entries[k]) ELSE NoEntry]

Abstract == INSTANCE ExpiringMap WITH view <- View, Gone <- NoEntry

\* A missing key looks like no entry.
ASSUME ViewAssumption == NoEntry \notin Abstract!Visible

\* The sharded store implements the expiring map: no interleaving of shard
\* operations, evictions, sweeps and flushes shows a client a value that is
\* expired, lost without eviction, or attached to another key's TTL.
ImplementsExpiringMap == Abstract!Spec
=============================================================================
