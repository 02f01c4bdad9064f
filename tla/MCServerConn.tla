---------------------------- MODULE MCServerConn ----------------------------
EXTENDS ServerConn
=============================================================================
