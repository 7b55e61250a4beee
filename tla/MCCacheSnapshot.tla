--------------------------- MODULE MCCacheSnapshot --------------------------
(***************************************************************************)
(* Instances of CacheSnapshot for TLC.                                     *)
(***************************************************************************)
EXTENDS CacheSnapshot

CONSTANTS k1, k2

\* Two keys in two shards, so that a save can be between them; with k2 alone the
\* first shard stays empty.
MCShardOf == [k \in Keys |-> IF k = k2 THEN 2 ELSE 1]
MCOneShard == [k \in Keys |-> 1]
=============================================================================
