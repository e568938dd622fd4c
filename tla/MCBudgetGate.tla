---------------------------- MODULE MCBudgetGate ----------------------------
(* Instances of BudgetGate for TLC: one or two workers, a cap of three or  *)
(* four units and attempts that cost up to two, so that a cap takes two or *)
(* more attempts to reach and one attempt can step over it.                *)
EXTENDS BudgetGate, TLC

CONSTANTS w1, w2

(* The workers of a wave are interchangeable.                              *)
Interchangeable == Permutations(Workers)

=============================================================================
