--------------------------- MODULE MCIptablesSync ---------------------------
(* IptablesSync on a small instance; requests and rules are interchangeable. *)
EXTENDS IptablesSync, TLC

Alike == Permutations(Reqs) \cup Permutations(Rules)
=============================================================================
