------------------------------ MODULE MCTun2sock ------------------------------
EXTENDS Tun2sock
=============================================================================
