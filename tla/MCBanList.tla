----------------------------- MODULE MCBanList -----------------------------
EXTENDS BanList, TLC

Symmetry == Permutations(IPs) \cup Permutations(Tunnels) \cup Permutations(Admins)
=============================================================================
