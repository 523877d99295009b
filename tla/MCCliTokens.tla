---------------------------- MODULE MCCliTokens ----------------------------
(* CliTokens for TLC.                                                      *)
EXTENDS CliTokens, TLC

Symmetry == Permutations(Procs) \cup Permutations(Networks)
=============================================================================
