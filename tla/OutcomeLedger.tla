--------------------------- MODULE OutcomeLedger ---------------------------
(***************************************************************************)
(* What a user of `sw run` is promised of the outcomes of the milestones,  *)
(* whatever retries, faults, interrupts and resumes they go through: what  *)
(* is achieved stays achieved; nothing is attempted while a milestone it   *)
(* depends on is failed or skipped; and nothing is skipped otherwise.      *)
(*                                                                         *)
(* Whether a later run may take up again what an earlier one failed at or  *)
(* skipped is left open: docs/cookbook.md:72-93 has `sw resume` recover a  *)
(* failed milestone, and orchestrator.py:497 passes over it.               *)
(***************************************************************************)
CONSTANTS
  Milestone,  \* the milestones of workflow.json
  Needs       \* those that each depends on

VARIABLE outcome

Missed == {"failed", "skipped"}
Hopeless(m) == \E d \in Needs[m] : outcome[d] \in Missed

Init == outcome = [m \in Milestone |-> "pending"]

Settle(m, result) ==
  /\ outcome[m] # "completed"
  /\ outcome' = [outcome EXCEPT ![m] = result]

Achieve(m) == ~Hopeless(m) /\ Settle(m, "completed")
Fail(m)    == ~Hopeless(m) /\ Settle(m, "failed")
Skip(m)    == Hopeless(m) /\ Settle(m, "skipped")

Next == \E m \in Milestone : Achieve(m) \/ Fail(m) \/ Skip(m)

Spec == Init /\ [][Next]_outcome

=============================================================================
