------------------------------- MODULE MCStream -------------------------------
EXTENDS Stream
=============================================================================
