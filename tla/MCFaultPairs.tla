---------------------------- MODULE MCFaultPairs ----------------------------
EXTENDS FaultPairs
=============================================================================
