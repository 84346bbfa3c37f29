--------------------------- MODULE MCCushionVault ---------------------------
EXTENDS Deployment, TLC
Symmetry == Permutations(Users)
=============================================================================
