---------------------------- MODULE MCReadiness ----------------------------
(* Two images of one release and, for the bounds of the runs, few faults.  *)
EXTENDS Readiness, TLC

CONSTANTS imageA, imageB, v1

MCImages  == {imageA, imageB}
MCRelease == [i \in MCImages |-> v1]
Symmetry  == Permutations(MCImages)
=============================================================================
