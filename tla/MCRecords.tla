----------------------------- MODULE MCRecords -----------------------------
(***************************************************************************)
(* A small instance of Records for TLC: a run and the one that follows it. *)
(***************************************************************************)
EXTENDS Records, TLC

(* One optional record at a time, for they share nothing but the steps of a *)
(* run.  The first run writes to the database, and the second one leaves it *)
(* to the syncs.                                                            *)
Projects ==
    {[audit |-> TRUE, server |-> FALSE, database |-> {}],
     [audit |-> FALSE, server |-> TRUE, database |-> {1}]}

(* Which command is which makes no difference to a safety property.         *)
Interchangeable == Permutations(Commands)
=============================================================================
