---------------------------- MODULE MCFakeIPPool ----------------------------
EXTENDS FakeIPPool, TLC

Symmetry == Permutations(Domains) \cup Permutations(Apps)
=============================================================================
