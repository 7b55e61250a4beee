---------------------------- MODULE MCCacheStore ----------------------------
(***************************************************************************)
(* Instances of CacheStore for TLC, and the claims of the repository's     *)
(* comments that the code does not keep.                                   *)
(***************************************************************************)
EXTENDS CacheStoreRefinement, TLC

CONSTANTS k1, k2, k3

\* Keys k1 and k2 share a shard; k3, when there is one, has its own.
MCShardOf == [k \in Keys |-> IF k = k3 THEN 2 ELSE 1]
MCOneShard == [k \in Keys |-> 1]

\* A blob is larger than a shard's whole budget (3 bytes where it is used);
\* 1 stands for the longer numbers, so that INCR makes an entry grow.
MCSizeOf == [p \in Keys \X Values |->
               IF p[2] \in Blobs THEN 4 ELSE IF p[2] = 1 THEN 2 ELSE 1]

\* A one-bit machine: INCR of IntMax wraps to IntMin, and DECR equals INCR.
MCIntMin == 0
MCIntMax == 1
MCDeltas == {1}

\* EXPIRE accepts a TTL in the past, one that ends now, and one in the future.
MCExpireTTLs == {-1, 0}
MCPastTTLs == {-1}

\* incrBy's comment: it "stores the result back ... and returns the new
\* value", treating a missing key as 0.  So a successful INCR leaves the
\* number it returned visible until eviction, here until Unlock.
IncrementStored ==
  \A k \in Keys :
    mu[ShardOf[k]] = k /\ reply[1] = "incr" /\ reply[2] = k /\ k \in Present
      => Live(k)

\* README, Eviction policy: every entry counts len(key)+len(value)+64 bytes
\* against the budget.  So when an applied SET has released its shard, the sum
\* of those sizes over the shard is within the shard's share.
FootprintWithinBudget ==
  \A s \in Shards :
    mu[s] = Free /\ reply[1] = "set" /\ reply[4] /\ ShardOf[reply[2]] = s =>
      Cardinality(UNION {{k} \X (1..SizeOf[<<k, entries[k].value>>]) :
                           k \in Present \cap KeysOf(s)}) <= PerShardBytes

\* README, Supported commands: TTL answers -1 for a key with "no expiry".
MinusOneMeansNoExpiry ==
  \A k \in Keys :
    reply = <<"ttl", k, -1>> /\ Live(k) => ~entries[k].hasExpiry
=============================================================================
