---------------------------- MODULE MCEngineCore ----------------------------
EXTENDS EngineCore
=============================================================================
