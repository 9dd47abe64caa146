-------------------------- MODULE MCRecalculation --------------------------
(* Recalculation with two interchangeable request files.                   *)
EXTENDS RecalculationInv, TLC

FileSymmetry == Permutations(Files)
=============================================================================
