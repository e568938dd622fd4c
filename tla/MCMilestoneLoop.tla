-------------------------- MODULE MCMilestoneLoop --------------------------
(***************************************************************************)
(* Small instances of MilestoneLoop for TLC.                               *)
(***************************************************************************)
EXTENDS MilestoneLoop

CONSTANTS r1, r2

Two == {r1, r2}

(* The runs are interchangeable: it is enough to see them begin in order.  *)
InOrder == at'[r2] # "new" => at[r1] # "new"

(* depends_on in workflow.json: three in a chain, and two for themselves.  *)
Single      == <<{}>>
ChainAndTwo == <<{}, {1}, {2}, {}, {}>>

All       == {Names}
AllOrLast == {Names, {Milestones}}

SignalOnly == {"signal"}
AllFaults  == {"crash", "signal", "raise"}
=============================================================================
