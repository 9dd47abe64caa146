--------------------------- MODULE MCPublicViews ---------------------------
(* PublicViews with interchangeable events.                                *)
EXTENDS PublicViews, TLC

EventSymmetry == Permutations(Events)
=============================================================================
