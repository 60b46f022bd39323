--------------------------- MODULE MCRelayCircuits ---------------------------
EXTENDS RelayCircuits, TLC

ClientSymmetry == Permutations(Clients)
=============================================================================
