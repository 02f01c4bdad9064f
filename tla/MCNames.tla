------------------------------- MODULE MCNames -------------------------------
EXTENDS Names, TLC
Symmetry == Permutations(Threads)
=============================================================================
