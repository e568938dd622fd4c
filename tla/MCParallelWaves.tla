-------------------------- MODULE MCParallelWaves --------------------------
(* Instances of ParallelWaves for TLC: one or two runs over three          *)
(* milestones, two that are independent and one that depends on the first, *)
(* selected all or without the first.                                      *)
EXTENDS ParallelWaves, TLC

CONSTANTS r1, r2, a, b, c

DepsOf == a :> {} @@ b :> {} @@ c :> {a}

AllOrLater == {Names, {b, c}}
Everything == {Names}

NoFaults  == {}
AllFaults == Fault

(* The runs are interchangeable.                                           *)
Interchangeable == Permutations(Runs)

=============================================================================
