---------------------------- MODULE MCExecution ----------------------------
(* Execution with interchangeable calculations.                            *)
EXTENDS Execution, TLC

CalculationSymmetry == Permutations(Calculations)
=============================================================================
