----------------------------- MODULE MCCacheRace ------------------------------
(* Two threads race for two targets in a cache with room for both.           *)
EXTENDS CacheRace, TLC

CONSTANTS k1, k2, n1, n2, n3, t1, t2

MCKeys == {k1, k2}
MCNodes == {n1, n2, n3}
MCThreads == {t1, t2}

\* Threads and addresses are only compared.
SymThreads == Permutations(MCThreads) \union Permutations(MCNodes)

=============================================================================
