------------------------------ MODULE MCKeeper ------------------------------
EXTENDS Keeper
=============================================================================
