------------------------- MODULE MCAttemptAdmission -------------------------
(* Interchangeable attempts on one deployment.                             *)
EXTENDS AttemptAdmission, TLC

Symmetry == Permutations(Attempts)
=============================================================================
