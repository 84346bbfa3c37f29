------------------------------ MODULE MCCushion ------------------------------
EXTENDS PriceCycle, TLC
Symmetry == Permutations(Positions)
=============================================================================
