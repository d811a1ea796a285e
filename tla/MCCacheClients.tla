--------------------------- MODULE MCCacheClients ----------------------------
EXTENDS CacheClients, TLC

Symmetry == Permutations(Clients)
=============================================================================
