--------------------------- MODULE MCPairingSession ---------------------------
EXTENDS PairingSession, TLC

CONSTANTS a, b

Symmetry == Permutations(Device)
==============================================================================
