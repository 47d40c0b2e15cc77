--------------------------- MODULE MCMessageCenter ---------------------------
EXTENDS MessageCenterProperties, TLC
ClientSymmetry == Permutations(Clients)
=============================================================================
