---------------------------- MODULE MCCacheServer ---------------------------
(***************************************************************************)
(* Instances of CacheServer for TLC: two interchangeable connections, so   *)
(* that one can be in any stage of its life while the other is in another. *)
(***************************************************************************)
EXTENDS CacheServer, TLC

ConnSymmetry == Permutations(Conns)
=============================================================================
