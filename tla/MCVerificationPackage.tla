----------------------- MODULE MCVerificationPackage -----------------------
(* VerificationPackage with interchangeable helpers.                       *)
EXTENDS VerificationPackage, TLC

HelperSymmetry == Permutations(Helpers)

(* Of the trees that were put aside, what a step or NothingDestroyed asks  *)
(* is only whether a tree the operator may have is among them, never under *)
(* which name: states that differ elsewhere behave alike.                  *)
Relevant == <<dest, stray, (kept \cup aside) \cap {"empty", "own", "legacy"},
              job, meddled, faults>>
=============================================================================
