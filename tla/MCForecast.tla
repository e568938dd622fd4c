----------------------------- MODULE MCForecast -----------------------------
(***************************************************************************)
(* Small instances of Forecast for TLC.                                    *)
(***************************************************************************)
EXTENDS Forecast

ThreePhases == <<"implement", "trust_but_verify", "push">>
Edited      == {<<"a", "b">>, <<"b">>}
Chain       == [m \in Names |-> IF m = "b" THEN {"a"} ELSE {}]
Opus        == {"opus"}
OrSonnet    == {"sonnet", None}

Reading(c, x, h) == [cost |-> c, extra |-> x, hit |-> h]
OneDollar == {1}

SteadyOrNot == [p \in Range(Phases) |->
    CASE p = "implement" -> {Reading(3, 0, 9), Reading(3, 4, 4)}
      [] p = "push"      -> {Reading(1, 0, 9)}
      [] OTHER           -> {Reading(0, 0, 0)}]

Told(type, phase, c, h, model, old) ==
    [type |-> type, run |-> 0, phase |-> phase, cost |-> c, hit |-> h, model |-> model,
     old |-> old]

(* A milestone whose phases each cost c.                                   *)
Before(c, h, model, old) ==
    <<Told("phase_completed", "implement", c, h, None, old),
      Told("phase_completed", "push", c, h, None, old),
      Told("milestone_completed", None, 2 * c, 0, model, old)>>

Times(n, events) == FlattenSeq([i \in 1..n |-> events])

Steady == Before(3, 9, "opus", FALSE)
OldOne == Before(3, 9, "opus", TRUE)

NewProject == <<>>
Histories ==
    {NewProject, Times(2, OldOne) \o Times(5, Steady), Times(15, Steady)}
=============================================================================
