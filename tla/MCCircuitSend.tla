--------------------------- MODULE MCCircuitSend ----------------------------
EXTENDS CircuitSend
JustNoDigest == {NoDigest}
OneBadDst == {NumHops}
GuardOnly == {0}
=============================================================================
