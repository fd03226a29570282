-------------------------- MODULE MCInventoryCache --------------------------
(* One thread that publishes, with and without refreshing the cache, and    *)
(* two that load.  A second publisher adds nothing: publications exclude    *)
(* each other, and a cache refilled behind one that emptied it looks like   *)
(* the cache of one that does not empty it.                                 *)
EXTENDS InventoryCache, TLC

CONSTANTS p1, l1, l2

MCPublishers == {p1}
MCLoaders == {l1, l2}
CacheSymmetry == Permutations(MCLoaders)
=============================================================================
