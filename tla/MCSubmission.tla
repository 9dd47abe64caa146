---------------------------- MODULE MCSubmission ----------------------------
(* Requests are interchangeable.                                           *)
EXTENDS Submission, TLC

RequestSymmetry == Permutations(Requests)
=============================================================================
