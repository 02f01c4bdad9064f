---------------------------- MODULE MCServerFiles -----------------------------
EXTENDS ServerFiles, TLC

Symmetry == Permutations(Passwords) \cup Permutations(Rotations) \cup Permutations(Handshakes)
=============================================================================
