---------------------------- MODULE MCDedupQueue ----------------------------
(* Instances of DedupQueue for TLC; the values are in the .cfg files.      *)
EXTENDS DedupQueue
=============================================================================
