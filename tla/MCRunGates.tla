----------------------------- MODULE MCRunGates -----------------------------
(***************************************************************************)
(* Small instances of RunGates for TLC.                                    *)
(***************************************************************************)
EXTENDS RunGates

(* A day is one tick, a week two, a month three.                           *)
Ticks    == [day |-> 1, week |-> 2, month |-> 3]
DayWeek  == [day |-> 2, week |-> 4, month |-> 0]
Blocking == [w \in Windows |-> "block"]

CostsOne   == {1}
DayOnly    == [day |-> 1, week |-> 0, month |-> 0]
NoSignals  == {{}}
Either     == {TRUE, FALSE}
Neither    == {FALSE}
Evidence   == {{"quality_gate_result"}, {}}
OneOrTwo   == {1, 2}
OnlyOne    == {1}
AllThree   == {3}
NoReason   == {{}}
ErrorReason == {{"reason_error"}}
=============================================================================
