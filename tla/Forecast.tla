------------------------------ MODULE Forecast ------------------------------
(***************************************************************************)
(* The forecasts that a run makes as it goes: after each phase, what the   *)
(* rest will cost (RunCostProjection) and whether the phase was out of     *)
(* line (DriftDetected); at its end, how good the estimate was             *)
(* (EstimateCalibrated).  Each is computed from the telemetry file, to     *)
(* which the run itself is writing, and from its state.                    *)
(*                                                                         *)
(* Runs follow one another (WorkflowLock) and take the milestones in their *)
(* order (MilestoneLoop); ceilings and breaker are RunGates' matter.       *)
(* Between two runs workflow.json may be edited.                           *)
(***************************************************************************)
EXTENDS Estimates

CONSTANTS
    Phases,     \* the phases of a milestone, in their order
    Configs,    \* what the milestones of workflow.json may be
    Deps,       \* depends_on, of each of them
    Models,     \* what its model may be
    Overrides,  \* what --model may name, None when it is not given
    Pasts,      \* what the telemetry may hold to begin with
    Readings,   \* what each phase may cost and hit
    Wasted,     \* what a call that fails may cost
    MaxTotal,   \* max_total_budget_usd
    Attempts,   \* max_retries + 1
    MaxRuns     \* bound: the runs

Names == UNION {Range(c) : c \in Configs}

ASSUME ForecastAssumption ==
    /\ Phases \in Seq(Range(Phases))
    /\ \A c \in Configs : c \in Seq(Range(c)) /\ IsInjective(c)
    /\ Deps \in [Names -> SUBSET Names] /\ None \notin Models
    /\ Readings \in [Range(Phases) -> SUBSET [cost : Nat, extra : Nat, hit : Nat]]
    /\ Wasted \subseteq Nat
    /\ MaxTotal \in Nat /\ Attempts \in Nat \ {0} /\ MaxRuns \in Nat

VARIABLES
    log,        \* the telemetry: phases and milestones completed
    run,        \* the number of the run
    at,         \* "idle", "loop", "phase" or "failed"
    options,    \* its milestones, the configured model, the one of --model
    state,      \* completed, failed, skipped, spent, and the alerts of the attempt
    current,    \* its milestone
    attempt,    \* its attempt at it
    position,   \* its phase
    cost,       \* what the attempt has cost
    projection, \* the last projection, None before
    alerts,     \* the alerts about the last phase
    estimate    \* the calibration at the end of the last run, None before

place == <<current, attempt, position, cost>>
forecasts == <<projection, alerts, estimate>>
vars == <<log, run, at, options, state, place, forecasts>>

Stamps == Models \cup (Overrides \ {None})

Event == [type : {"phase_completed", "milestone_completed"}, run : Nat,
          phase : Range(Phases) \cup {None}, cost : Nat, hit : Nat,
          model : Stamps \cup {None}, old : BOOLEAN]

ASSUME PastsAssumption ==
    \A past \in Pasts : past \in Seq({e \in Event : e.run = 0})

Settled == state.completed \cup state.failed \cup state.skipped
Open == {m \in Range(options.milestones) : m \notin Settled}

Init ==
    /\ log \in Pasts
    /\ run = 0 /\ at = "idle"
    /\ options = [milestones |-> <<>>, model |-> None, override |-> None]
    /\ state = [completed |-> {}, failed |-> {}, skipped |-> {}, spent |-> 0,
                alerted |-> {}]
    /\ current = None /\ attempt = 1 /\ position = 1 /\ cost = 0
    /\ projection = None /\ alerts = {} /\ estimate = None

(* Orchestrator.run: a new run_id, over the state of the runs before.      *)
StartRun(milestones, model, override) ==
    /\ at = "idle" /\ run < MaxRuns
    /\ run' = run + 1 /\ at' = "loop"
    /\ options' = [milestones |-> milestones, model |-> model, override |-> override]
    /\ projection' = None /\ alerts' = {} /\ estimate' = None
    /\ UNCHANGED <<log, state, place>>

FirstOpen == SelectInSeq(options.milestones, LAMBDA m : m \notin Settled)
OverBudget == state.spent >= MaxTotal

(* What depends on a milestone without success is skipped.                 *)
Skip ==
    /\ at = "loop" /\ Open # {}
    /\ LET m == options.milestones[FirstOpen]
       IN  /\ Deps[m] \cap (state.failed \cup state.skipped) # {}
           /\ state' = [state EXCEPT !.skipped = @ \cup {m}]
    /\ UNCHANGED <<log, run, at, options, place, forecasts>>

(* _run_milestone, which is called again for a retry, forgets the alerts.  *)
BeginAttempt(n) ==
    /\ at' = "phase" /\ attempt' = n /\ position' = 1 /\ cost' = 0
    /\ state' = [state EXCEPT !.alerted = {}]

StartMilestone ==
    /\ at = "loop" /\ Open # {} /\ ~OverBudget
    /\ LET m == options.milestones[FirstOpen]
       IN  Deps[m] \cap (state.failed \cup state.skipped) = {} /\ current' = m
    /\ BeginAttempt(1)
    /\ UNCHANGED <<log, run, options, forecasts>>

-----------------------------------------------------------------------------
(* One phase                                                               *)

Phase == Phases[position]
Remaining == {Phases[i] : i \in position + 1 .. Len(Phases)} \ {"trust_but_verify"}

(* The event has the cost of the phase's own call, without what fixing the *)
(* gates, the coverage or the strict loop has cost.                        *)
CompletedPhase(reading) ==
    [type |-> "phase_completed", run |-> run, phase |-> Phase, cost |-> reading.cost,
     hit |-> reading.hit, model |-> None, old |-> FALSE]

(* Trust-but-verify has no call of its own, no event and no cache hits.    *)
Report(reading) ==
    IF Phase = "trust_but_verify" THEN UNCHANGED log
    ELSE log' = Append(log, CompletedPhase(reading))

Charged(reading) ==
    IF Phase = "trust_but_verify" THEN reading.extra ELSE reading.cost + reading.extra

(* The projection reads the file with the phase just completed in it.      *)
EmitRunCostProjection ==
    projection' = Project(log', Remaining, Len(options.milestones),
                          Cardinality(Settled))

Keys == Metrics \X Range(Phases) \X Severities
DedupKey(alert) == <<alert.metric, Phase, alert.severity>>

(* The phase as a whole is compared with the events of the earlier runs.   *)
Observed(metric, reading) ==
    IF metric = "cost_usd" THEN Scaled(Charged(reading))
    ELSE IF Phase = "trust_but_verify" THEN 0 ELSE reading.hit

Assessed(metric, value, events) ==
    [metric |-> metric, events |-> events, value |-> value,
     severity |-> Severity(metric, value,
                           [i \in DOMAIN events |-> Reported(metric, events[i])])]

EmitDrift(reading) ==
    \E events \in {Earlier(log', Phase, run)} :
        alerts' = {a \in {Assessed(m, Observed(m, reading), events) : m \in Metrics} :
                     Emitted(a.severity) /\ DedupKey(a) \notin state.alerted}

RunPhase(reading) ==
    /\ at = "phase" /\ position <= Len(Phases) /\ reading \in Readings[Phase]
    /\ Report(reading)
    /\ cost' = cost + Charged(reading)
    /\ EmitRunCostProjection
    /\ EmitDrift(reading)
    /\ state' = [state EXCEPT !.spent = @ + Charged(reading),
                             !.alerted = @ \cup {DedupKey(a) : a \in alerts'}]
    /\ position' = position + 1
    /\ UNCHANGED <<run, at, options, current, attempt, estimate>>

(* _PhaseError: what it has cost is charged, and the attempt is over.      *)
FailPhase(spent) ==
    /\ at = "phase" /\ position <= Len(Phases) /\ Phase # "trust_but_verify"
    /\ state' = [state EXCEPT !.spent = @ + spent]
    /\ at' = "failed"
    /\ UNCHANGED <<log, run, options, place, forecasts>>

Retry ==
    /\ at = "failed" /\ attempt < Attempts
    /\ BeginAttempt(attempt + 1)
    /\ UNCHANGED <<log, run, options, current, forecasts>>

GiveUp ==
    /\ at = "failed" /\ attempt = Attempts
    /\ state' = [state EXCEPT !.failed = @ \cup {current}]
    /\ at' = "loop"
    /\ UNCHANGED <<log, run, options, place, forecasts>>

-----------------------------------------------------------------------------
(* The end of a milestone and of a run                                     *)

(* _canonical_model_for: the one of --model, or else the configured one.   *)
Stamp == IF options.override # None THEN options.override ELSE options.model

CompletedMilestone ==
    [type |-> "milestone_completed", run |-> run, phase |-> None, cost |-> cost,
     hit |-> 0, model |-> Stamp, old |-> FALSE]

CompleteMilestone ==
    /\ at = "phase" /\ position > Len(Phases)
    /\ state' = [state EXCEPT !.completed = @ \cup {current}]
    /\ log' = Append(log, CompletedMilestone)
    /\ at' = "loop"
    /\ UNCHANGED <<run, options, place, forecasts>>

CompleteWhateverFailed == TRUE

(* A run that its budget stopped is as complete as any other.              *)
Complete == state.failed = {}

(* The prediction reads the file after the run has written to it.          *)
EmitEstimateCalibrated ==
    LET samples == SamplesOf(log, options.model)
    IN  IF Complete /\ ~PredictsNothing(samples)
        THEN \E tier \in Tiers(samples) :
                 estimate' = [samples |-> Len(samples), tier |-> tier,
                              source |-> Source(Len(samples)), actual |-> state.spent]
        ELSE UNCHANGED estimate

EndRun ==
    /\ at = "loop" /\ (Open = {} \/ OverBudget)
    /\ at' = "idle"
    /\ EmitEstimateCalibrated
    /\ UNCHANGED <<log, run, options, state, place, projection, alerts>>

Crash ==
    /\ at # "idle"
    /\ at' = "idle"
    /\ UNCHANGED <<log, run, options, state, place, forecasts>>

Next ==
    \/ \E c \in Configs, m \in Models, o \in Overrides : StartRun(c, m, o)
    \/ Skip \/ StartMilestone \/ Retry \/ GiveUp \/ CompleteMilestone
    \/ \E r \in UNION Range(Readings) : RunPhase(r)
    \/ \E c \in Wasted : FailPhase(c)
    \/ EndRun \/ Crash

Spec == Init /\ [][Next]_vars

-----------------------------------------------------------------------------
(* Properties                                                              *)

Option == [milestones : Configs \cup {<<>>}, model : Models \cup {None},
           override : Overrides \cup {None}]
State == [completed : SUBSET Names, failed : SUBSET Names, skipped : SUBSET Names,
          spent : Nat, alerted : SUBSET Keys]

(* Every event in the telemetry, every place of the run and every outcome  *)
(* is one of those the code has.                                           *)
TypeOK ==
    /\ log \in Seq(Event)
    /\ run \in 0..MaxRuns /\ at \in {"idle", "loop", "phase", "failed"}
    /\ options \in Option /\ state \in State
    /\ current \in Names \cup {None} /\ attempt \in 1..Attempts
    /\ at \in {"phase", "failed"} => current \in Names
    /\ position \in 1 .. Len(Phases) + 1 /\ cost \in Nat

JustFinished == IF position > Len(Phases) THEN 1 ELSE 0

(* A projection prices each milestone that is still to be paid for, once:  *)
(* the one at work for its remaining phases, or in full when nothing is    *)
(* known of any phase, and each of those to come.  After its last phase    *)
(* the one at work is priced in full a second time, as it has no outcome   *)
(* yet; and an outcome of a milestone that was edited out of workflow.json *)
(* is taken for the outcome of one that is there.                          *)
PricedOnce ==
    at = "phase" /\ position > 1 =>
      LET gone == Settled \ Range(options.milestones)
          priced == projection.milestones + (IF projection.phases = {} THEN 0 ELSE 1)
          unpaid == Cardinality(Open) - 1 + (IF position > Len(Phases) THEN 0 ELSE 1)
      IN  IF gone = {} THEN priced = unpaid + JustFinished
          ELSE /\ priced <= unpaid + JustFinished
               /\ priced >= unpaid + JustFinished - Cardinality(gone)

(* One in how many phases may have been as bad as one that lies two, three *)
(* or four sigmas off.                                                     *)
Rarity == [info |-> 5, warn |-> 10, critical |-> 17]

(* An alert is about an exception: the phase is compared with the Floor    *)
(* phases of earlier runs at least, and of those only as many were as bad  *)
(* as its severity allows, however few and uneven they are.                *)
AlertsAreRare ==
    \A a \in alerts :
      LET bad == {i \in DOMAIN a.events :
                    IF HigherIsWorse(a.metric)
                    THEN Reported(a.metric, a.events[i]) >= a.value
                    ELSE Reported(a.metric, a.events[i]) <= a.value}
      IN  /\ Len(a.events) >= Floor
          /\ Rarity[a.severity] * Cardinality(bad) <= Len(a.events)
          /\ \A i \in DOMAIN a.events : a.events[i].run < run

(* Seven milestones or fewer are never too uneven for a band: with WarmFrom *)
(* to seven of them, an estimate that is said to be warm comes from the     *)
(* default table only when all of them cost the same, and rounding puts the *)
(* average beside them (calibration.py:264, _stats.py:15-56).               *)
WarmHoldsBelowEight ==
    LET samples == SamplesOf(log, options.model)
    IN  estimate # None /\ estimate.tier # estimate.source =>
            /\ estimate.source = "warm"
            /\ Len(samples) >= 8 \/ \A i, j \in DOMAIN samples : samples[i] = samples[j]

(* The estimate is compared with what a run has spent only when there was  *)
(* nothing left to spend on, unless it was the budget that ended the run.  *)
CalibratedWhenDone ==
    estimate # None => OverBudget \/ Range(options.milestones) \subseteq state.completed
=============================================================================
