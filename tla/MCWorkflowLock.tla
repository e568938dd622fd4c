-------------------------- MODULE MCWorkflowLock --------------------------
(* Instances of WorkflowLock for TLC: two runs and a force-clean on one    *)
(* host, which find no claim, that of a dead run of their host, or that of *)
(* a dead run of another host that shares the project directory.           *)
EXTENDS WorkflowLock, TLC

CONSTANTS p1, p2, c1, ghost, stranger

Hosts == [i \in Identities |-> IF i = stranger THEN "there" ELSE "here"]

(* The runs of one host are interchangeable.                               *)
Interchangeable == Permutations(Procs)

=============================================================================
