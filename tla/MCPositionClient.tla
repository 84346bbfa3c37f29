-------------------------- MODULE MCPositionClient --------------------------
EXTENDS PositionClient, TLC
=============================================================================
