---------------------------- MODULE MCDataAssets ----------------------------
(* DataAssets with interchangeable helpers.                                *)
EXTENDS DataAssets, TLC

HelperSymmetry == Permutations(Helpers)

(* What is on the disk decides nothing any more once the last fault has    *)
(* happened: states that differ only there behave alike.                   *)
Relevant == <<dir, run, faults, IF faults = MaxFaults THEN dir ELSE disk>>
=============================================================================
