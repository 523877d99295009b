------------------------------ MODULE MCChutes ------------------------------
(* ChutesBudgets on a small instance: the workers of one credential.       *)
EXTENDS ChutesBudgets, TLC

Symmetry == Permutations(Workers) \cup Permutations(Gates)
=============================================================================
