--------------------------- MODULE MCTrafficQuota ---------------------------
EXTENDS TrafficQuota, TLC

Symmetry == Permutations(Conns)
=============================================================================
