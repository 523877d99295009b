------------------------- MODULE MCChutesAdmission -------------------------
(* ChutesAdmission on small instances.                                     *)
EXTENDS ChutesAdmission, TLC

Symmetry == Permutations(Requests) \cup Permutations(Instances) \cup Permutations(Nonces)
              \cup Permutations(Scopes)
=============================================================================
