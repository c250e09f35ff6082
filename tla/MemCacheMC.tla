------------------------------ MODULE MemCacheMC ------------------------------
(* Small instances of MemCache for TLC. *)
EXTENDS MemCache, TLC

Symmetric == Permutations(Clients) \cup Permutations(CacheKeys) \cup Permutations(Values \ {Empty})
=============================================================================
