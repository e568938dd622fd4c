--------------------------- MODULE ForecastProofs ---------------------------
(***************************************************************************)
(* What Forecast promises of a run's forecasts, for any workflow, phases,  *)
(* costs, telemetry, budget and number of runs.                            *)
(***************************************************************************)
EXTENDS Forecast, FiniteSetTheorems, SequenceTheorems, TLAPS

(* A set of naturals has a smallest element, and Min is it.                *)
LEMMA Smallest ==
  ASSUME NEW S \in SUBSET Nat, S # {}
  PROVE  Min(S) \in S /\ \A n \in S : Min(S) <= n
<1> DEFINE Less == {pair \in Nat \X Nat : pair[1] < pair[2]}
<1>1. IsWellFoundedOn(Less, Nat)
  BY NatLessThanWellFounded, Zenon DEF OpToRel
<1>2. \A m, n \in Nat : m < n => <<m, n>> \in Less
  OBVIOUS
<1> HIDE DEF Less
<1>3. PICK least \in S : \A n \in S : ~(<<n, least>> \in Less)
  BY <1>1, WFMin
<1>4. ASSUME NEW n \in S PROVE least <= n
  <2>1. ~(n < least)
    BY <1>3, <1>2
  <2> QED BY <2>1
<1> QED BY <1>4 DEF Min

(* The milestone that the loop looks at is one that has no outcome yet.    *)
LEMMA FirstIsOpen ==
  ASSUME TypeOK, Open # {}
  PROVE  options.milestones[FirstOpen] \in Open
<1> DEFINE Places == {i \in 1 .. Len(options.milestones) :
                        options.milestones[i] \notin Settled}
<1>1. options.milestones \in Seq(Range(options.milestones))
  <2>1. options.milestones \in Configs \cup {<<>>}
    BY DEF TypeOK, Option
  <2>2. <<>> \in Seq(Range(<<>>))
    OBVIOUS
  <2> QED BY <2>1, <2>2, ForecastAssumption
<1>2. Places # {}
  BY <1>1 DEF Open, Range
<1>3. Places \in SUBSET Nat
  OBVIOUS
<1>4. FirstOpen = Min(Places)
  BY <1>2 DEF FirstOpen, SelectInSeq
<1>5. FirstOpen \in Places
  BY <1>2, <1>3, <1>4, Smallest
<1> QED BY <1>1, <1>5 DEF Open, Range

(* A phase of the milestone, as long as there is one to come.              *)
LEMMA PhaseIsOne ==
  ASSUME TypeOK, position <= Len(Phases)
  PROVE  Phase \in Range(Phases)
  BY ForecastAssumption DEF TypeOK, Phase, Range

LEMMA ReadingsAreNaturals ==
  ASSUME TypeOK, position <= Len(Phases), NEW reading \in Readings[Phase]
  PROVE  reading \in [cost : Nat, extra : Nat, hit : Nat] /\ Charged(reading) \in Nat
  BY ForecastAssumption, PhaseIsOne DEF Charged

LEMMA SeverityIsOne ==
  ASSUME NEW metric, NEW value, NEW samples
  PROVE  Severity(metric, value, samples) \in Severities
  BY DEF Severity, Severities

LEMMA KeysAreTyped ==
  ASSUME TypeOK, position <= Len(Phases), NEW reading, EmitDrift(reading),
         NEW alert \in alerts'
  PROVE  DedupKey(alert) \in Keys
<1>1. PICK m \in Metrics, events \in {Earlier(log', Phase, run)} :
         alert = Assessed(m, Observed(m, reading), events)
  BY DEF EmitDrift
<1>2. alert.metric \in Metrics /\ alert.severity \in Severities
  BY <1>1, SeverityIsOne DEF Assessed
<1> QED BY <1>2, PhaseIsOne DEF DedupKey, Keys

-----------------------------------------------------------------------------
(* The types                                                               *)

LEMMA TypeInitial == Init => TypeOK
<1> SUFFICES ASSUME Init PROVE TypeOK
  OBVIOUS
<1>1. log \in Seq({e \in Event : e.run = 0})
  BY PastsAssumption DEF Init
<1>2. log \in Seq(Event)
  BY <1>1, SeqMonotonic
<1> QED BY <1>2, ForecastAssumption DEF Init, TypeOK, Option, State

(* What the steps do to the state keeps its form.                          *)
LEMMA StateKept ==
  ASSUME state \in State, NEW m \in Names
  PROVE  /\ [state EXCEPT !.completed = @ \cup {m}] \in State
         /\ [state EXCEPT !.failed = @ \cup {m}] \in State
         /\ [state EXCEPT !.skipped = @ \cup {m}] \in State
<1>1. /\ state.completed \cup {m} \in SUBSET Names
      /\ state.failed \cup {m} \in SUBSET Names
      /\ state.skipped \cup {m} \in SUBSET Names
  BY DEF State
<1> QED BY <1>1 DEF State

LEMMA StateCharged ==
  ASSUME state \in State, NEW c \in Nat, NEW K \in SUBSET Keys
  PROVE  /\ [state EXCEPT !.alerted = {}] \in State
         /\ [state EXCEPT !.spent = @ + c] \in State
         /\ [state EXCEPT !.spent = @ + c, !.alerted = @ \cup K] \in State
<1>1. state.spent + c \in Nat /\ state.alerted \cup K \in SUBSET Keys
  BY DEF State
<1> QED BY <1>1 DEF State

LEMMA OptionsAre ==
  ASSUME TypeOK
  PROVE  /\ options.milestones \in Configs \cup {<<>>}
         /\ options.model \in Models \cup {None}
         /\ options.override \in Overrides \cup {None}
  BY DEF TypeOK, Option

LEMMA TypeStep == TypeOK /\ [Next]_vars => TypeOK'
<1> SUFFICES ASSUME TypeOK, [Next]_vars PROVE TypeOK'
  OBVIOUS
<1> USE DEF place, forecasts
<1>0. /\ Len(Phases) \in Nat /\ MaxRuns \in Nat /\ Attempts \in Nat \ {0}
      /\ Wasted \subseteq Nat
  BY ForecastAssumption
<1>12. state \in State /\ {} \in SUBSET Keys
  BY DEF TypeOK
<1>1. ASSUME NEW c \in Configs, NEW m \in Models, NEW o \in Overrides,
             StartRun(c, m, o)
      PROVE TypeOK'
  <2>1. options' \in Option
    BY <1>1 DEF StartRun, Option
  <2> QED BY <1>0, <1>1, <2>1 DEF StartRun, TypeOK
<1>2. CASE Skip
  <2>1. options.milestones[FirstOpen] \in Names
    BY <1>2, FirstIsOpen, OptionsAre DEF Skip, Open, Names, Range
  <2>2. state' \in State
    BY <1>2, <1>12, <2>1, StateKept DEF Skip
  <2> QED BY <1>2, <2>2 DEF Skip, TypeOK
<1>3. CASE StartMilestone
  <2>1. options.milestones[FirstOpen] \in Names
    BY <1>3, FirstIsOpen, OptionsAre DEF StartMilestone, Open, Names, Range
  <2>2. state' \in State
    BY <1>3, <1>12, StateCharged DEF StartMilestone, BeginAttempt
  <2>3. /\ at' = "phase" /\ attempt' = 1 /\ position' = 1 /\ cost' = 0
        /\ current' = options.milestones[FirstOpen] /\ UNCHANGED <<log, run, options>>
    BY <1>3 DEF StartMilestone, BeginAttempt
  <2> QED BY <1>0, <2>1, <2>2, <2>3 DEF TypeOK
<1>4. CASE Retry
  <2>1. state' \in State
    BY <1>4, <1>12, StateCharged DEF Retry, BeginAttempt
  <2>2. /\ at = "failed" /\ at' = "phase" /\ attempt < Attempts
        /\ attempt' = attempt + 1 /\ position' = 1 /\ cost' = 0
        /\ UNCHANGED <<log, run, options, current>>
    BY <1>4 DEF Retry, BeginAttempt
  <2> QED BY <1>0, <2>1, <2>2 DEF TypeOK
<1>5. CASE GiveUp
  <2>1. current \in Names
    BY <1>5 DEF GiveUp, TypeOK
  <2>2. state' \in State
    BY <1>5, <1>12, <2>1, StateKept DEF GiveUp
  <2> QED BY <1>5, <2>2 DEF GiveUp, TypeOK
<1>6. CASE CompleteMilestone
  <2>1. CompletedMilestone \in Event
    <3>1. Stamp \in Stamps \cup {None} /\ run \in Nat /\ cost \in Nat
      BY <1>0, OptionsAre DEF Stamps, Stamp, TypeOK
    <3> QED BY <3>1 DEF CompletedMilestone, Event
  <2>2. log' \in Seq(Event)
    <3>1. log' = Append(log, CompletedMilestone) /\ log \in Seq(Event)
      BY <1>6 DEF CompleteMilestone, TypeOK
    <3> HIDE DEF CompletedMilestone
    <3> QED BY <2>1, <3>1
  <2>3. current \in Names
    BY <1>6 DEF CompleteMilestone, TypeOK
  <2>4. state' \in State
    BY <1>6, <1>12, <2>3, StateKept DEF CompleteMilestone
  <2>5. at' = "loop" /\ UNCHANGED <<run, options, place>>
    BY <1>6 DEF CompleteMilestone
  <2> QED BY <2>2, <2>4, <2>5 DEF TypeOK
<1>7. ASSUME NEW r \in UNION Range(Readings), RunPhase(r) PROVE TypeOK'
  <2>1. Phase \in Range(Phases) /\ r \in [cost : Nat, extra : Nat, hit : Nat]
        /\ Charged(r) \in Nat
    BY <1>7, PhaseIsOne, ReadingsAreNaturals DEF RunPhase
  <2>2. log' \in Seq(Event)
    <3>1. run \in Nat /\ log \in Seq(Event)
      BY <1>0 DEF TypeOK
    <3>2. CompletedPhase(r) \in Event
      BY <2>1, <3>1 DEF CompletedPhase, Event
    <3>3. log' = log \/ log' = Append(log, CompletedPhase(r))
      BY <1>7 DEF RunPhase, Report
    <3> HIDE DEF CompletedPhase
    <3> QED BY <3>1, <3>2, <3>3
  <2> DEFINE raised == {DedupKey(a) : a \in alerts'}
  <2>3. raised \in SUBSET Keys
    BY <1>7, KeysAreTyped DEF RunPhase
  <2>4. /\ state' = [state EXCEPT !.spent = @ + Charged(r), !.alerted = @ \cup raised]
        /\ position <= Len(Phases) /\ position' = position + 1
        /\ cost' = cost + Charged(r)
        /\ UNCHANGED <<run, at, options, current, attempt>>
    BY <1>7 DEF RunPhase
  <2> HIDE DEF raised
  <2>5. state' \in State
    BY <1>12, <2>1, <2>3, <2>4, StateCharged
  <2>6. cost' \in Nat /\ position' \in 1 .. Len(Phases) + 1
    <3>1. cost \in Nat /\ position \in 1 .. Len(Phases) + 1
      BY DEF TypeOK
    <3> QED BY <1>0, <2>1, <2>4, <3>1
  <2> QED BY <2>2, <2>4, <2>5, <2>6 DEF TypeOK
<1>8. ASSUME NEW c \in Wasted, FailPhase(c) PROVE TypeOK'
  <2>1. state' \in State
    BY <1>0, <1>8, <1>12, StateCharged DEF FailPhase
  <2> QED BY <1>8, <2>1 DEF FailPhase, TypeOK
<1>9. CASE EndRun
  BY <1>9 DEF EndRun, TypeOK
<1>10. CASE Crash
  BY <1>10 DEF Crash, TypeOK
<1>11. CASE UNCHANGED vars
  BY <1>11 DEF vars, TypeOK
<1> QED
  BY <1>1, <1>2, <1>3, <1>4, <1>5, <1>6, <1>7, <1>8, <1>9, <1>10, <1>11 DEF Next

(* The types, for any workflow, telemetry and costs: what one run writes   *)
(* to the telemetry is an event that the others can read.                  *)
THEOREM TypeCorrect == Spec => []TypeOK
  BY TypeInitial, TypeStep, PTL DEF Spec

-----------------------------------------------------------------------------
(* The calibration                                                         *)

(* Nothing is skipped unless something has failed, and an estimate is only *)
(* there between the end of a run and the beginning of the next.           *)
Excused == state.skipped # {} => state.failed # {}
Silent == at # "idle" => estimate = None
Calibrating == Excused /\ Silent /\ CalibratedWhenDone

LEMMA CalibratingInitial == Init => Calibrating
  BY DEF Init, Calibrating, Excused, Silent, CalibratedWhenDone

LEMMA CalibratingStep == TypeOK /\ Calibrating /\ [Next]_vars => Calibrating'
<1> SUFFICES ASSUME TypeOK, Calibrating, [Next]_vars PROVE Calibrating'
  OBVIOUS
<1> USE DEF place, forecasts, Calibrating
<1>1. ASSUME NEW c \in Configs, NEW m \in Models, NEW o \in Overrides,
             StartRun(c, m, o)
      PROVE Calibrating'
  BY <1>1 DEF StartRun, Excused, Silent, CalibratedWhenDone
<1>2. CASE Skip
  <2>1. state.failed # {}
    BY <1>2 DEF Skip, Excused
  <2>2. state'.failed = state.failed /\ estimate' = None
    BY <1>2 DEF Skip, Silent, TypeOK, Option, State
  <2> QED BY <2>1, <2>2 DEF Excused, Silent, CalibratedWhenDone
<1>3. CASE StartMilestone
  BY <1>3 DEF StartMilestone, BeginAttempt, Excused, Silent, CalibratedWhenDone, TypeOK,
                  Option, State
<1>4. CASE Retry
  BY <1>4 DEF Retry, BeginAttempt, Excused, Silent, CalibratedWhenDone, TypeOK,
                  Option, State
<1>5. CASE GiveUp
  BY <1>5 DEF GiveUp, Excused, Silent, CalibratedWhenDone, TypeOK, Option, State
<1>6. CASE CompleteMilestone
  BY <1>6 DEF CompleteMilestone, Excused, Silent, CalibratedWhenDone, TypeOK, Option, State
<1>7. ASSUME NEW r \in UNION Range(Readings), RunPhase(r) PROVE Calibrating'
  BY <1>7 DEF RunPhase, Excused, Silent, CalibratedWhenDone, TypeOK, Option, State
<1>8. ASSUME NEW c \in Wasted, FailPhase(c) PROVE Calibrating'
  BY <1>8 DEF FailPhase, Excused, Silent, CalibratedWhenDone, TypeOK, Option, State
<1>9. CASE EndRun
  <2>1. UNCHANGED <<options, state>> /\ at' = "idle"
    BY <1>9 DEF EndRun
  <2>2. estimate = None
    BY <1>9 DEF EndRun, Silent
  <2>3. ASSUME estimate' # None, ~OverBudget
        PROVE  Range(options.milestones) \subseteq state.completed
    <3>1. Complete
      BY <1>9, <2>2, <2>3 DEF EndRun, EmitEstimateCalibrated
    <3>2. Open = {}
      BY <1>9, <2>3 DEF EndRun
    <3> QED BY <3>1, <3>2 DEF Complete, Excused, Open, Settled
  <2> QED BY <2>1, <2>3 DEF Excused, Silent, CalibratedWhenDone, OverBudget
<1>10. CASE Crash
  BY <1>10 DEF Crash, Excused, Silent, CalibratedWhenDone, OverBudget
<1>11. CASE UNCHANGED vars
  BY <1>11 DEF vars, Excused, Silent, CalibratedWhenDone, OverBudget
<1> QED
  BY <1>1, <1>2, <1>3, <1>4, <1>5, <1>6, <1>7, <1>8, <1>9, <1>10, <1>11 DEF Next

(* EstimateCalibrated compares an estimate with what was spent on all of   *)
(* the milestones, or the budget ended the run: a run that a crash, a      *)
(* failure or a skipped milestone left unfinished never reports one.       *)
THEOREM CalibratedOnlyWhenDone == Spec => []CalibratedWhenDone
<1>1. Init => TypeOK /\ Calibrating
  BY TypeInitial, CalibratingInitial
<1>2. TypeOK /\ Calibrating /\ [Next]_vars => (TypeOK /\ Calibrating)'
  BY TypeStep, CalibratingStep
<1>3. Calibrating => CalibratedWhenDone
  BY DEF Calibrating
<1> QED BY <1>1, <1>2, <1>3, PTL DEF Spec

-----------------------------------------------------------------------------
(* The projection                                                          *)

(* The milestone at work has no outcome; there is an end to the outcomes.  *)
AtWork == at \in {"phase", "failed"} => current \in Open
Finite == IsFiniteSet(Settled)

Left == Max({0, Len(options.milestones) - Cardinality(Settled)})
Ahead == {Phases[i] : i \in position .. Len(Phases)} \ {"trust_but_verify"}

(* What the last projection says is about the phases that are still to     *)
(* come, and was made with the outcomes there are now.                     *)
Prices(p, remaining, left) ==
  \/ p.phases = {} /\ p.milestones = left
  \/ /\ remaining # {} /\ p.phases = remaining
     /\ p.milestones = Future(remaining, left)
UpToDate == at = "phase" /\ position > 1 => Prices(projection, Ahead, Left)
Pricing == AtWork /\ Finite /\ UpToDate

LEMMA ProjectPrices ==
  ASSUME NEW l, NEW remaining, NEW n \in Nat \ {0}, NEW outcomes \in Nat
  PROVE  Prices(Project(l, remaining, n, outcomes), remaining, Max({0, n - outcomes}))
<1> DEFINE left == Max({0, n - outcomes})
           samples == MapThenSumSet(LAMBDA p : Len(History(l, p)), remaining \cup Usual)
           source == InHistory(samples, remaining)
           p == Project(l, remaining, n, outcomes)
           known == [phases |-> remaining, milestones |-> Future(remaining, left),
                     source |-> source]
<1>0. p = IF remaining = {} /\ left = 0 THEN Nothing
          ELSE IF samples = 0
          THEN [phases |-> {}, milestones |-> left, source |-> "cold_start"]
          ELSE known
  BY DEF Project
<1> HIDE DEF left, samples, source, p
<1>1. remaining = {} => Future(remaining, left) = left
  BY DEF Future
<1>2. Prices(p, remaining, left)
  BY <1>0, <1>1 DEF Nothing, Prices
<1> QED BY <1>2 DEF p, left

LEMMA PricingInitial == Init => Pricing
  BY FS_EmptySet DEF Init, Pricing, AtWork, Finite, UpToDate, Settled

(* A step that keeps what there is to price.                               *)
LEMMA SettledIsFinite ==
  ASSUME Finite, NEW m, Settled' = Settled \cup {m}
  PROVE  Finite'
  BY FS_AddElement DEF Finite

LEMMA PricingStep == TypeOK /\ Pricing /\ [Next]_vars => Pricing'
<1> SUFFICES ASSUME TypeOK, Pricing, [Next]_vars PROVE Pricing'
  OBVIOUS
<1> USE DEF place, forecasts, Pricing
<1>0. ASSUME UNCHANGED <<options, state, current>> PROVE Finite' /\ Open' = Open
  BY <1>0 DEF Finite, Settled, Open
<1>1. ASSUME NEW c \in Configs, NEW m \in Models, NEW o \in Overrides,
             StartRun(c, m, o)
      PROVE Pricing'
  BY <1>1 DEF StartRun, AtWork, Finite, UpToDate, Settled
<1>2. CASE Skip
  <2>1. Settled' = Settled \cup {options.milestones[FirstOpen]}
    BY <1>2 DEF Skip, Settled, TypeOK, Option, State
  <2>2. at' = "loop"
    BY <1>2 DEF Skip
  <2> QED BY <2>1, <2>2, SettledIsFinite DEF AtWork, UpToDate
<1>3. CASE StartMilestone
  <2>1. UNCHANGED options /\ current' \in Open /\ position' = 1
    BY <1>3, FirstIsOpen DEF StartMilestone, BeginAttempt
  <2>2. Settled' = Settled
    BY <1>3 DEF StartMilestone, BeginAttempt, Settled, TypeOK, Option, State
  <2> QED BY <2>1, <2>2 DEF AtWork, Finite, UpToDate, Open
<1>4. CASE Retry
  <2>1. UNCHANGED <<options, current>> /\ position' = 1 /\ at = "failed"
    BY <1>4 DEF Retry, BeginAttempt
  <2>2. Settled' = Settled
    BY <1>4 DEF Retry, BeginAttempt, Settled, TypeOK, Option, State
  <2> QED BY <2>1, <2>2 DEF AtWork, Finite, UpToDate, Open
<1>5. CASE GiveUp
  <2>1. Settled' = Settled \cup {current}
    BY <1>5 DEF GiveUp, Settled, TypeOK, Option, State
  <2> QED BY <1>5, <2>1, SettledIsFinite DEF GiveUp, AtWork, UpToDate
<1>6. CASE CompleteMilestone
  <2>1. Settled' = Settled \cup {current}
    BY <1>6 DEF CompleteMilestone, Settled, TypeOK, Option, State
  <2> QED BY <1>6, <2>1, SettledIsFinite DEF CompleteMilestone, AtWork, UpToDate
<1>7. ASSUME NEW r \in UNION Range(Readings), RunPhase(r) PROVE Pricing'
  <2>1. /\ at = "phase" /\ UNCHANGED <<at, options, current>>
        /\ position' = position + 1
    BY <1>7 DEF RunPhase
  <2>2. Settled' = Settled
    BY <1>7 DEF RunPhase, Settled, TypeOK, Option, State
  <2>3. AtWork' /\ Finite'
    BY <2>1, <2>2 DEF AtWork, Finite, Open
  <2>4. Len(options.milestones) \in Nat \ {0} /\ Cardinality(Settled) \in Nat
    <3>1. current \in Open /\ options.milestones \in Configs \cup {<<>>}
      BY <2>1 DEF AtWork, TypeOK, Option, State
    <3>2. \A c \in Configs : c \in Seq(Range(c))
      BY ForecastAssumption
    <3>3. current \in Range(options.milestones)
      BY <3>1 DEF Open
    <3>4. options.milestones # <<>>
      BY <3>3 DEF Range
    <3>5. options.milestones \in Seq(Range(options.milestones))
      BY <3>1, <3>2, <3>4
    <3>6. Len(options.milestones) \in Nat \ {0}
      BY <3>4, <3>5
    <3> QED BY <3>6, FS_CardinalityType DEF Finite
  <2>5. projection' = Project(log', Remaining, Len(options.milestones),
                              Cardinality(Settled))
    BY <1>7 DEF RunPhase, EmitRunCostProjection
  <2>6. Left' = Max({0, Len(options.milestones) - Cardinality(Settled)})
    BY <2>1, <2>2 DEF Left
  <2>7. Ahead' = Remaining
    BY <2>1 DEF Ahead, Remaining
  <2>8. Prices(projection', Remaining, Left')
    BY <2>4, <2>5, <2>6, ProjectPrices
  <2> QED BY <2>3, <2>7, <2>8 DEF UpToDate, Prices
<1>8. ASSUME NEW c \in Wasted, FailPhase(c) PROVE Pricing'
  <2>1. Settled' = Settled
    BY <1>8 DEF FailPhase, Settled, TypeOK, Option, State
  <2> QED BY <1>8, <2>1 DEF FailPhase, AtWork, Finite, UpToDate, Open
<1>9. CASE EndRun
  BY <1>0, <1>9 DEF EndRun, AtWork, UpToDate
<1>10. CASE Crash
  BY <1>0, <1>10 DEF Crash, AtWork, UpToDate
<1>11. CASE UNCHANGED vars
  <2>1. Left' = Left /\ Ahead' = Ahead
    BY <1>11 DEF vars, Left, Ahead, Settled
  <2> QED BY <1>0, <1>11, <2>1 DEF vars, AtWork, UpToDate, Prices
<1> QED
  BY <1>1, <1>2, <1>3, <1>4, <1>5, <1>6, <1>7, <1>8, <1>9, <1>10, <1>11 DEF Next

(* A sequence that repeats nothing is as long as it has members.           *)
LEMMA AsManyAsMembers ==
  ASSUME NEW c \in Configs
  PROVE  IsFiniteSet(Range(c)) /\ Cardinality(Range(c)) = Len(c)
<1>1. c \in Seq(Range(c)) /\ IsInjective(c)
  BY ForecastAssumption
<1>2. c \in Bijection(1 .. Len(c), Range(c)) /\ Len(c) \in Nat
  BY <1>1 DEF Bijection, Injection, Surjection, IsInjective, Range
<1>3. ExistsBijection(1 .. Len(c), Range(c))
  BY <1>2 DEF ExistsBijection
<1> QED BY <1>2, <1>3, FS_CountingElements, FS_NatBijection

(* The milestones, those that are settled and the outcomes of those that   *)
(* are gone add up.                                                        *)
LEMMA LeftAndGone ==
  ASSUME TypeOK, Finite, current \in Open,
         NEW gone, gone = Settled \ Range(options.milestones)
  PROVE  /\ Cardinality(Open) \in Nat \ {0} /\ Cardinality(gone) \in Nat
         /\ gone = {} => Cardinality(gone) = 0
         /\ Left = IF Cardinality(Open) > Cardinality(gone)
                   THEN Cardinality(Open) - Cardinality(gone) ELSE 0
<1> DEFINE all == Range(options.milestones)
           both == all \cap Settled
<1>1. IsFiniteSet(all) /\ Cardinality(all) = Len(options.milestones)
  <2>1. options.milestones \in Configs \cup {<<>>} /\ options.milestones # <<>>
    BY DEF TypeOK, Option, State, Open, Range
  <2> QED BY <2>1, AsManyAsMembers
<1>2. IsFiniteSet(both) /\ Cardinality(both) \in Nat
  BY <1>1, FS_Intersection, FS_CardinalityType
<1>3. Open = all \ Settled
  BY DEF Open
<1>4. IsFiniteSet(Open) /\ Cardinality(Open) = Cardinality(all) - Cardinality(both)
  BY <1>1, <1>3, FS_Difference
<1>5. IsFiniteSet(gone) /\ Cardinality(gone) = Cardinality(Settled) - Cardinality(both)
  <2>1. Settled \cap all = both /\ IsFiniteSet(Settled) /\ gone = Settled \ all
    BY DEF Finite
  <2> HIDE DEF all, both
  <2> QED BY <2>1, FS_Difference
<1>6. Cardinality(Open) \in Nat \ {0}
  BY <1>4, FS_CardinalityType, FS_EmptySet
<1>7. Cardinality(gone) \in Nat /\ Cardinality(Settled) \in Nat
      /\ Cardinality(all) \in Nat
  BY <1>1, <1>5, FS_CardinalityType DEF Finite
<1>8. gone = {} => Cardinality(gone) = 0
  BY FS_EmptySet
<1>9. Len(options.milestones) - Cardinality(Settled)
        = Cardinality(Open) - Cardinality(gone)
  BY <1>1, <1>2, <1>4, <1>5, <1>6, <1>7
<1>10. ASSUME NEW x \in Int PROVE Max({0, x}) = IF x > 0 THEN x ELSE 0
  BY DEF Max
<1>11. Left = Max({0, Cardinality(Open) - Cardinality(gone)})
  BY <1>9 DEF Left
<1> QED BY <1>6, <1>7, <1>8, <1>10, <1>11

LEMMA PricedOnceEach == TypeOK /\ Pricing => PricedOnce
<1> SUFFICES ASSUME TypeOK, Pricing, at = "phase", position > 1
             PROVE  PricedOnce
  BY DEF PricedOnce
<1> DEFINE gone == Settled \ Range(options.milestones)
           open == Cardinality(Open)
           lost == Cardinality(gone)
           priced == projection.milestones + (IF projection.phases = {} THEN 0 ELSE 1)
           unpaid == open - 1 + (IF position > Len(Phases) THEN 0 ELSE 1)
<1>1. /\ open \in Nat \ {0} /\ lost \in Nat /\ (gone = {} => lost = 0)
      /\ Left = IF open > lost THEN open - lost ELSE 0
  BY LeftAndGone DEF Pricing, AtWork
<1>2. Prices(projection, Ahead, Left)
  BY DEF Pricing, UpToDate
<1> HIDE DEF gone, open, lost
<1>3. unpaid \in Int /\ JustFinished \in Int /\ unpaid + JustFinished = open
  BY <1>1 DEF JustFinished
<1>4. priced = IF projection.phases # {} /\ Left = 0 THEN 1 ELSE Left
  BY <1>1, <1>2 DEF Prices, Future
<1> HIDE DEF priced, unpaid
<1>5. /\ priced \in Int /\ (gone = {} => priced = open)
      /\ priced <= open /\ priced >= open - lost
  BY <1>1, <1>4
<1>6. IF gone = {} THEN priced = unpaid + JustFinished
      ELSE priced <= unpaid + JustFinished /\ priced >= unpaid + JustFinished - lost
  BY <1>1, <1>3, <1>5
<1> QED BY <1>6, Zenon DEF PricedOnce, gone, open, lost, priced, unpaid

(* For any workflow, telemetry and history of edits, a projection that is  *)
(* shown prices every milestone still to be paid for once, and the one     *)
(* that has just had its last phase once more.                             *)
THEOREM ProjectsEachOnce == Spec => []PricedOnce
<1>1. Init => TypeOK /\ Pricing
  BY TypeInitial, PricingInitial
<1>2. TypeOK /\ Pricing /\ [Next]_vars => (TypeOK /\ Pricing)'
  BY TypeStep, PricingStep
<1>3. TypeOK /\ Pricing => PricedOnce
  BY PricedOnceEach
<1> QED BY <1>1, <1>2, <1>3, PTL DEF Spec

-----------------------------------------------------------------------------
(* Sums and selections                                                     *)

(* Induction over the naturals, for a set of them.                         *)
LEMMA ByInduction ==
  ASSUME NEW S, 0 \in S, \A n \in Nat : n \in S => n + 1 \in S
  PROVE  Nat \subseteq S
<1> SUFFICES ASSUME Nat \ S # {} PROVE FALSE
  OBVIOUS
<1> DEFINE least == Min(Nat \ S)
<1>1. least \in Nat \ S /\ \A n \in Nat \ S : least <= n
  <2>1. Nat \ S \in SUBSET Nat
    OBVIOUS
  <2> QED BY <2>1, Smallest
<1> HIDE DEF least
<1>2. least - 1 \in Nat /\ least - 1 < least
  BY <1>1
<1>3. least - 1 \in S
  BY <1>1, <1>2
<1>4. (least - 1) + 1 \in S
  BY <1>2, <1>3
<1> QED BY <1>1, <1>4

(* Total is the last of the partial sums.                                  *)
LEMMA PartialSums ==
  ASSUME NEW values \in Seq(Int), NEW n, n = Len(values)
  PROVE  \E sum \in [0 .. n -> Int] :
           /\ sum[0] = 0 /\ sum[n] = Total(values)
           /\ \A i \in 1 .. n : sum[i] = sum[i - 1] + values[i]
<1> DEFINE Sums(k, f) == f[0] = 0 /\ \A i \in 1 .. k : f[i] = f[i - 1] + values[i]
           Body(f) == [i \in 0 .. n |-> IF i = 0 THEN 0 ELSE f[i - 1] + values[i]]
           upTo == CHOOSE f : f = Body(f)
           Built == {k \in Nat : k <= n => \E f \in [0 .. k -> Int] : Sums(k, f)}
<1>1. Total(values) = upTo[n] /\ n \in Nat
  BY DEF Total
<1>2. 0 \in Built
  <2>1. [i \in 0 .. 0 |-> 0] \in [0 .. 0 -> Int] /\ Sums(0, [i \in 0 .. 0 |-> 0])
    OBVIOUS
  <2> QED BY <2>1
<1>3. ASSUME NEW k \in Nat, k \in Built PROVE k + 1 \in Built
  <2> SUFFICES ASSUME k + 1 <= n PROVE \E g \in [0 .. k + 1 -> Int] : Sums(k + 1, g)
    <3> HIDE DEF Sums
    <3> QED OBVIOUS
  <2>1. PICK f \in [0 .. k -> Int] : Sums(k, f)
    <3> HIDE DEF Sums
    <3> QED BY <1>1, <1>3
  <2>2. values[k + 1] \in Int
    BY <1>1
  <2> DEFINE g == [i \in 0 .. k + 1 |-> IF i = k + 1 THEN f[k] + values[k + 1] ELSE f[i]]
  <2>3. g \in [0 .. k + 1 -> Int]
    BY <2>2
  <2>4. Sums(k + 1, g)
    BY <2>1
  <2> QED BY <2>3, <2>4
<1>4. n \in Built
  <2> HIDE DEF Built
  <2> QED BY <1>1, <1>2, <1>3, ByInduction
<1>5. PICK sum \in [0 .. n -> Int] : Sums(n, sum)
  BY <1>1, <1>4
<1>6. sum = Body(sum)
  BY <1>1, <1>5
<1>7. upTo = Body(upTo)
  <2> HIDE DEF Body
  <2> QED BY <1>6, Zenon
<1> HIDE DEF upTo
<1> DEFINE Same == {k \in Nat : k <= n => upTo[k] = sum[k]}
<1>8. upTo[0] = 0 /\ \A i \in 1 .. n : upTo[i] = upTo[i - 1] + values[i]
  <2>1. \A i \in 0 .. n : upTo[i] = IF i = 0 THEN 0 ELSE upTo[i - 1] + values[i]
    BY <1>7, Zenon
  <2> QED BY <1>1, <2>1
<1>9. n \in Same
  <2>1. 0 \in Same
    BY <1>5, <1>8
  <2>2. \A k \in Nat : k \in Same => k + 1 \in Same
    BY <1>1, <1>5, <1>8
  <2> HIDE DEF Same
  <2> QED BY <1>1, <2>1, <2>2, ByInduction
<1>10. sum[n] = Total(values)
  BY <1>1, <1>9
<1> HIDE DEF Same, Built, Body
<1> QED BY <1>5, <1>10

(* The elements at some of its places, in a sequence of their own.         *)
LEMMA ChosenAreThere ==
  ASSUME NEW T, NEW seq \in Seq(T), NEW places
  PROVE  Chosen(seq, places) \in Seq({seq[i] : i \in places \cap (1 .. Len(seq))})
<1> DEFINE n == Len(seq)
           Those == {seq[i] : i \in places \cap (1 .. n)}
           Next1(f, i) == IF i \in places THEN Append(f[i - 1], seq[i]) ELSE f[i - 1]
           Picks(k, f) == f[0] = <<>> /\ \A i \in 1 .. k : f[i] = Next1(f, i)
           Body(f) == [i \in 0 .. n |-> IF i = 0 THEN <<>> ELSE Next1(f, i)]
           upTo == CHOOSE f : f = Body(f)
           Built == {k \in Nat : k <= n => \E f \in [0 .. k -> Seq(Those)] : Picks(k, f)}
<1>1. Chosen(seq, places) = upTo[n] /\ n \in Nat
  BY DEF Chosen
<1>2. 0 \in Built
  <2>1. /\ [i \in 0 .. 0 |-> <<>>] \in [0 .. 0 -> Seq(Those)]
        /\ Picks(0, [i \in 0 .. 0 |-> <<>>])
    OBVIOUS
  <2> QED BY <2>1
<1>3. ASSUME NEW k \in Nat, k \in Built PROVE k + 1 \in Built
  <2> SUFFICES ASSUME k + 1 <= n PROVE \E g \in [0 .. k + 1 -> Seq(Those)] : Picks(k + 1, g)
    <3> HIDE DEF Those, Picks
    <3> QED OBVIOUS
  <2>1. PICK f \in [0 .. k -> Seq(Those)] : Picks(k, f)
    <3> HIDE DEF Those, Picks
    <3> QED BY <1>1, <1>3
  <2> DEFINE more == IF k + 1 \in places THEN Append(f[k], seq[k + 1]) ELSE f[k]
             g == [i \in 0 .. k + 1 |-> IF i = k + 1 THEN more ELSE f[i]]
  <2>2. more \in Seq(Those)
    <3>0. k \in 0 .. k /\ k + 1 \in 1 .. n
      BY <1>1
    <3>1. f[k] \in Seq(Those) /\ (k + 1 \in places => seq[k + 1] \in Those)
      BY <3>0, Zenon
    <3> HIDE DEF Those
    <3> QED BY <3>1
  <2>3. g \in [0 .. k + 1 -> Seq(Those)]
    <3> HIDE DEF more, Those
    <3> QED BY <2>2
  <2>4. Picks(k + 1, g)
    BY <2>1
  <2> QED BY <2>3, <2>4
<1>4. n \in Built
  <2> HIDE DEF Built
  <2> QED BY <1>1, <1>2, <1>3, ByInduction
<1>5. PICK f \in [0 .. n -> Seq(Those)] : Picks(n, f)
  <2> HIDE DEF Those, Picks
  <2> QED BY <1>1, <1>4
<1>6. f = Body(f)
  <2> HIDE DEF Next1, Those
  <2> QED BY <1>1, <1>5
<1>7. upTo = Body(upTo)
  <2> HIDE DEF Body
  <2> QED BY <1>6, Zenon
<1> HIDE DEF upTo, Those
<1> DEFINE Same == {k \in Nat : k <= n => upTo[k] = f[k]}
<1>8. upTo[0] = <<>> /\ \A i \in 1 .. n : upTo[i] = Next1(upTo, i)
  <2>1. \A i \in 0 .. n : upTo[i] = IF i = 0 THEN <<>> ELSE Next1(upTo, i)
    BY <1>7, Zenon
  <2> HIDE DEF Next1
  <2> QED BY <1>1, <2>1
<1>9. n \in Same
  <2>1. 0 \in Same
    BY <1>5, <1>8
  <2>2. \A k \in Nat : k \in Same => k + 1 \in Same
    BY <1>1, <1>5, <1>8
  <2> HIDE DEF Same
  <2> QED BY <1>1, <2>1, <2>2, ByInduction
<1>10. Chosen(seq, places) = f[n]
  BY <1>1, <1>9
<1> HIDE DEF Same, Built, Body
<1> QED BY <1>1, <1>5, <1>10 DEF Those

(* Among the values of a sample, those that lie far off weigh as much as   *)
(* their squares say: the sum of (a * v + e)^2 is at least that of the far *)
(* ones.                                                                   *)
LEMMA FarOnesWeigh ==
  ASSUME NEW values \in Seq(Int), NEW n, n = Len(values),
         NEW a \in Int, NEW e \in Int, NEW least \in Nat,
         NEW far \in SUBSET (1 .. n),
         \A i \in far : Square(a * values[i] + e) >= least
  PROVE  LET squares == [i \in 1 .. n |-> Square(values[i])]
         IN  /\ Cardinality(far) \in Nat
             /\ Total(values) \in Int /\ Total(squares) \in Int
             /\ (a * a) * Total(squares) + (2 * a * e) * Total(values) + n * (e * e)
                  >= least * Cardinality(far)
<1> DEFINE squares == [i \in 1 .. n |-> Square(values[i])]
<1>1. n \in Nat /\ \A i \in 1 .. n : values[i] \in Int
  OBVIOUS
<1>2. squares \in Seq(Int) /\ Len(squares) = n
  BY <1>1 DEF Square
<1>3. PICK S \in [0 .. n -> Int] :
         /\ S[0] = 0 /\ S[n] = Total(values)
         /\ \A i \in 1 .. n : S[i] = S[i - 1] + values[i]
  <2> HIDE DEF squares
  <2>1. values \in Seq(Int) /\ n = Len(values)
    OBVIOUS
  <2> QED BY <2>1, PartialSums, Zenon
<1>4. PICK Q \in [0 .. n -> Int] :
         /\ Q[0] = 0 /\ Q[n] = Total(squares)
         /\ \A i \in 1 .. n : Q[i] = Q[i - 1] + squares[i]
  <2> HIDE DEF squares
  <2> QED BY <1>2, PartialSums
<1> DEFINE B(k) == Cardinality(far \cap (1 .. k))
           Weight(k) == (a * a) * Q[k] + (2 * a * e) * S[k] + k * (e * e)
           Heavy == {k \in Nat : k <= n => Weight(k) >= least * B(k)}
<1>5. ASSUME NEW k \in Nat PROVE IsFiniteSet(far \cap (1 .. k)) /\ B(k) \in Nat
  <2>1. IsFiniteSet(1 .. k)
    BY FS_Interval
  <2>2. IsFiniteSet(far \cap (1 .. k))
    BY <2>1, FS_Intersection
  <2> QED BY <2>2, FS_CardinalityType
<1>6. 0 \in Heavy
  <2>1. far \cap (1 .. 0) = {}
    OBVIOUS
  <2>2. B(0) = 0
    BY <2>1, FS_EmptySet
  <2>3. Weight(0) = 0
    BY <1>3, <1>4
  <2> HIDE DEF B, Weight
  <2> QED BY <2>2, <2>3
<1>7. ASSUME NEW k \in Nat, k \in Heavy, k + 1 <= n
      PROVE  Weight(k + 1) >= least * B(k + 1)
  <2> DEFINE v == values[k + 1]
             more == Square(a * v + e)
  <2>1. k + 1 \in 1 .. n /\ k \in 0 .. n /\ k <= n /\ v \in Int
    BY <1>1, <1>7
  <2>2. S[k + 1] = S[k] + v /\ Q[k + 1] = Q[k] + v * v
    BY <2>1, <1>3, <1>4 DEF Square
  <2>3. S[k] \in Int /\ Q[k] \in Int
    BY <2>1, <1>3, <1>4
  <2>4. Weight(k + 1) = Weight(k) + more
    <3> DEFINE s == S[k]
               q == Q[k]
    <3>1. s \in Int /\ q \in Int
      BY <2>3
    <3>2. Weight(k + 1) = (a * a) * (q + v * v) + (2 * a * e) * (s + v) + (k + 1) * (e * e)
      BY <2>2
    <3> HIDE DEF s, q, v
    <3>3. (a * a) * (q + v * v) + (2 * a * e) * (s + v) + (k + 1) * (e * e)
            = ((a * a) * q + (2 * a * e) * s + k * (e * e)) + (a * v + e) * (a * v + e)
      BY <3>1, <2>1
    <3> QED BY <3>2, <3>3 DEF s, q, Square
  <2>5. more \in Nat
    <3> HIDE DEF v
    <3>1. a * v + e \in Int
      BY <2>1
    <3>2. \A x \in Int : x * x \in Nat
      OBVIOUS
    <3> QED BY <3>1, <3>2 DEF Square
  <2>6. Weight(k) >= least * B(k) /\ Weight(k) \in Int
    BY <1>7, <2>1, <2>3
  <2>7. CASE k + 1 \in far
    <3>1. far \cap (1 .. k + 1) = (far \cap (1 .. k)) \cup {k + 1}
          /\ k + 1 \notin far \cap (1 .. k)
      BY <2>7
    <3>2. B(k + 1) = B(k) + 1
      BY <3>1, <1>5, FS_AddElement
    <3>3. more >= least
      BY <2>7
    <3>4. B(k) \in Nat
      BY <1>5
    <3> HIDE DEF B, Weight, more
    <3>5. least * (B(k) + 1) = least * B(k) + least
      BY <3>4
    <3> QED BY <2>4, <2>5, <2>6, <3>2, <3>3, <3>4, <3>5
  <2>8. CASE k + 1 \notin far
    <3>1. far \cap (1 .. k + 1) = far \cap (1 .. k)
      BY <2>8
    <3>2. B(k + 1) = B(k) /\ B(k) \in Nat
      BY <3>1, <1>5
    <3> HIDE DEF B, Weight, more
    <3> QED BY <2>4, <2>5, <2>6, <3>2
  <2> QED BY <2>7, <2>8
<1>8. n \in Heavy
  <2>1. \A k \in Nat : k \in Heavy => k + 1 \in Heavy
    <3> HIDE DEF B, Weight
    <3> QED BY <1>7
  <2> HIDE DEF Heavy
  <2> QED BY <1>1, <1>6, <2>1, ByInduction
<1>9. far \cap (1 .. n) = far
  OBVIOUS
<1>10. B(n) = Cardinality(far)
  BY <1>9
<1>11. Weight(n) >= least * B(n)
  <2> HIDE DEF B, Weight
  <2> QED BY <1>1, <1>8
<1>12. /\ Cardinality(far) \in Nat
       /\ Total(values) \in Int /\ Total(squares) \in Int
  <2>1. B(n) \in Nat /\ 0 \in 0 .. n /\ n \in 0 .. n
    <3>1. B(n) \in Nat
      <4> HIDE DEF B
      <4> QED BY <1>1, <1>5
    <3>2. 0 \in 0 .. n /\ n \in 0 .. n
      BY <1>1
    <3> HIDE DEF B
    <3> QED BY <3>1, <3>2
  <2>2. S[n] \in Int /\ Q[n] \in Int
    BY <2>1
  <2> HIDE DEF B, squares
  <2> QED BY <1>3, <1>4, <1>10, <2>1, <2>2
<1>13. Weight(n) = (a * a) * Total(squares) + (2 * a * e) * Total(values) + n * (e * e)
  BY <1>3, <1>4
<1> HIDE DEF B, Weight
<1> QED BY <1>10, <1>11, <1>12, <1>13

(* When a value lies so many sigmas off, so few of the samples lie as far  *)
(* off on the same side (Cantelli's inequality).                           *)
LEMMA FewAreAsFar ==
  ASSUME NEW samples \in Seq(Int), NEW value \in Int, Len(samples) > 0,
         NEW sigmas \in Nat \ {0}, Reaches(value, samples, sigmas),
         NEW far \in SUBSET (1 .. Len(samples)),
         \/ Deviation(value, samples) > 0 /\ \A i \in far : samples[i] >= value
         \/ Deviation(value, samples) < 0 /\ \A i \in far : samples[i] <= value
  PROVE  (Square(sigmas) + 1) * Cardinality(far) <= Len(samples)
<1> DEFINE n == Len(samples)
           squares == [i \in 1 .. n |-> Square(samples[i])]
           s == Total(samples)
           q == Total(squares)
           d == n * value - s
           b == Cardinality(far)
           w == Square(sigmas)
           u == w + 1
           V == n * (n * q - s * s)
           D == d * d
<1>1. n \in Nat \ {0} /\ \A i \in 1 .. n : samples[i] \in Int
  OBVIOUS
<1>2. s \in Int
  <2>1. PICK sum \in [0 .. n -> Int] : sum[n] = s
    BY PartialSums, Zenon
  <2> QED BY <1>1, <2>1
<1>3. Deviation(value, samples) = d /\ d \in Int
  BY <1>1, <1>2 DEF Deviation
<1>4. d # 0 /\ D * (n - 1) >= w * V
  BY <1>3 DEF Reaches, Square
<1>5. D \in Nat \ {0} /\ w \in Nat \ {0}
  <2>1. \A x \in Int : x # 0 => x * x \in Nat \ {0}
    OBVIOUS
  <2> HIDE DEF d
  <2> QED BY <1>3, <1>4, <2>1 DEF Square
<1> HIDE DEF w
<1>6. ASSUME NEW i \in far
      PROVE  Square((w * n) * samples[i] + (d - w * s)) >= (u * u) * D
  <2> DEFINE v == samples[i]
             term == (w * n) * v + (d - w * s)
             x == n * v - s
  <2>1. v \in Int
    BY <1>1, <1>6
  <2>2. x \in Int /\ term = w * x + d
    <3> HIDE DEF d, v, s, n
    <3> QED BY <1>1, <1>2, <1>3, <1>5, <2>1
  <2>3. \/ d > 0 /\ v >= value
        \/ d < 0 /\ v <= value
    BY <1>3, <1>6
  <2>4. \/ d > 0 /\ n * v >= n * value
        \/ d < 0 /\ n * v <= n * value
    <3> HIDE DEF d, v, s, n
    <3> QED BY <1>1, <2>1, <2>3
  <2>5. \/ d > 0 /\ x >= d
        \/ d < 0 /\ x <= d
    <3>1. n * v \in Int /\ n * value \in Int
      <4> HIDE DEF v, n
      <4> QED BY <1>1, <2>1
    <3> QED BY <1>2, <2>4, <3>1
  <2> HIDE DEF d, x, term
  <2>6. \/ d > 0 /\ w * x >= w * d
        \/ d < 0 /\ w * x <= w * d
    BY <1>3, <1>5, <2>2, <2>5
  <2>7. \/ d > 0 /\ term >= u * d
        \/ d < 0 /\ term <= u * d
    BY <1>3, <1>5, <2>2, <2>6
  <2>8. \A y, z \in Int : (y > 0 /\ z >= y) \/ (y < 0 /\ z <= y) => z * z >= y * y
    OBVIOUS
  <2>9. u * d \in Int /\ term \in Int /\ (d > 0 => u * d > 0) /\ (d < 0 => u * d < 0)
    BY <1>3, <1>5, <2>2
  <2>10. term * term >= (u * d) * (u * d)
    <3> HIDE DEF u
    <3> QED BY <2>7, <2>8, <2>9
  <2>11. (u * d) * (u * d) = (u * u) * D
    <3>1. u \in Int
      BY <1>5
    <3> HIDE DEF u
    <3> QED BY <1>3, <3>1
  <2> QED BY <2>10, <2>11 DEF Square, term
<1>7. /\ b \in Nat /\ q \in Int
      /\ ((w * n) * (w * n)) * q + (2 * (w * n) * (d - w * s)) * s
           + n * ((d - w * s) * (d - w * s)) >= ((u * u) * D) * b
  <2>1. w * n \in Int /\ d - w * s \in Int /\ (u * u) * D \in Nat
    <3>1. u \in Nat /\ u * u \in Nat
      <4>1. \A x \in Nat : x * x \in Nat
        OBVIOUS
      <4>2. u \in Nat
        BY <1>5
      <4> HIDE DEF u
      <4> QED BY <4>1, <4>2
    <3> HIDE DEF n, s, d, D, u
    <3> QED BY <1>1, <1>2, <1>3, <1>5, <3>1
  <2> HIDE DEF d, D, u
  <2> QED BY <1>6, <2>1, FarOnesWeigh
<1>8. ((w * n) * (w * n)) * q + (2 * (w * n) * (d - w * s)) * s
           + n * ((d - w * s) * (d - w * s)) = (w * w) * V + n * D
  <2> HIDE DEF n, q, d, s
  <2> QED BY <1>1, <1>2, <1>3, <1>5, <1>7
<1>9. V \in Int
  <2> HIDE DEF n, q, s
  <2> QED BY <1>1, <1>2, <1>7
<1> HIDE DEF n, squares, s, q, d, b, V, D
<1>10. w * (D * (n - 1)) >= (w * w) * V
  <2> DEFINE x == D * (n - 1)
             y == w * V
  <2>1. x \in Int /\ y \in Int /\ x >= y
    BY <1>1, <1>4, <1>5, <1>9
  <2>2. (w * w) * V = w * y
    BY <1>5, <1>9
  <2> HIDE DEF x, y
  <2>3. w * x >= w * y
    BY <1>5, <2>1
  <2> QED BY <2>2, <2>3 DEF x
<1>11. w * (D * (n - 1)) + n * D >= ((u * u) * D) * b
  <2> DEFINE x == w * (D * (n - 1))
             y == (w * w) * V
             z == ((u * u) * D) * b
             m == n * D
  <2>1. x \in Int /\ y \in Int /\ z \in Int /\ m \in Int
    BY <1>1, <1>5, <1>7, <1>9
  <2>2. x >= y /\ y + m >= z
    BY <1>7, <1>8, <1>10
  <2> HIDE DEF x, y, z, m
  <2>3. x + m >= z
    BY <2>1, <2>2
  <2> QED BY <2>3 DEF x, z, m
<1>12. D * (u * n - w) >= D * ((u * u) * b)
  <2>1. w * (D * (n - 1)) + n * D = D * (u * n - w)
    BY <1>1, <1>5
  <2>2. ((u * u) * D) * b = D * ((u * u) * b)
    BY <1>5, <1>7
  <2> QED BY <1>11, <2>1, <2>2
<1>13. u * n - w >= (u * u) * b
  <2>1. u * n - w \in Int /\ (u * u) * b \in Int
    BY <1>1, <1>5, <1>7
  <2> DEFINE x == u * n - w
             y == (u * u) * b
  <2> HIDE DEF x, y
  <2>2. x \in Int /\ y \in Int /\ D * x >= D * y
    BY <1>12, <2>1 DEF x, y
  <2>3. x >= y
    BY <1>5, <2>2
  <2> QED BY <2>3 DEF x, y
<1>14. u * n >= u * (u * b)
  <2>1. (u * u) * b = u * (u * b)
    BY <1>5, <1>7
  <2> DEFINE x == u * n
             y == (u * u) * b
  <2>2. x \in Int /\ y \in Int
    BY <1>1, <1>5, <1>7
  <2> HIDE DEF x, y
  <2>3. x >= y
    BY <1>5, <1>13, <2>2 DEF x, y
  <2> QED BY <2>1, <2>3 DEF x, y
<1>15. n >= u * b
  <2>1. u \in Nat \ {0} /\ u * b \in Int
    BY <1>5, <1>7
  <2> DEFINE y == u * b
  <2> HIDE DEF u, y
  <2>2. y \in Int /\ u * n >= u * y
    BY <1>14, <2>1 DEF y
  <2>3. n >= y
    BY <1>1, <2>1, <2>2
  <2> QED BY <2>3 DEF y
<1> QED BY <1>1, <1>5, <1>7, <1>15 DEF b, n, w

-----------------------------------------------------------------------------
(* Drift                                                                   *)

(* A bounded set of naturals has a largest element, and Max is it.         *)
LEMMA Largest ==
  ASSUME NEW S \in SUBSET Nat, S # {}, NEW bound \in Nat, \A n \in S : n <= bound
  PROVE  Max(S) \in S /\ \A n \in S : n <= Max(S)
<1> DEFINE below == {m \in Nat : m <= bound /\ bound - m \in S}
<1>1. PICK n \in S : TRUE
  OBVIOUS
<1>2. bound - n \in below
  BY <1>1
<1>3. Min(below) \in below /\ \A m \in below : Min(below) <= m
  <2>1. below \in SUBSET Nat /\ below # {}
    BY <1>2
  <2> HIDE DEF below
  <2> QED BY <2>1, Smallest
<1> DEFINE top == bound - Min(below)
<1>4. top \in S
  BY <1>3
<1>5. ASSUME NEW m \in S PROVE m <= top
  <2>1. bound - m \in below
    BY <1>5
  <2>2. Min(below) <= bound - m /\ Min(below) \in Nat
    BY <1>3, <2>1
  <2> QED BY <2>2
<1> HIDE DEF top
<1>6. top \in Nat
  BY <1>4
<1>7. \E x \in S : \A y \in S : x >= y
  BY <1>4, <1>5, <1>6
<1> QED BY <1>7 DEF Max

LEMMA ScaledIsInteger ==
  ASSUME NEW c \in Nat
  PROVE  Scaled(c) \in Int
<1> DEFINE k == Max({j \in 1 .. 10 : Powers[j] <= c + 1})
<1>1. k \in 1 .. 10
  <2> DEFINE S == {j \in 1 .. 10 : Powers[j] <= c + 1}
  <2>1. 1 \in S
    BY DEF Powers
  <2>2. S \in SUBSET Nat /\ S # {} /\ \A j \in S : j <= 10
    BY <2>1
  <2>3. S \subseteq 1 .. 10
    OBVIOUS
  <2>4. k = Max(S)
    OBVIOUS
  <2> HIDE DEF S, k
  <2> QED BY <2>2, <2>3, <2>4, Largest
<1> HIDE DEF k
<1>2. Powers[k] \in Nat \ {0}
  BY <1>1 DEF Powers
<1>3. Scaled(c) = 10 * (k - 1) + (10 * (c + 1 - Powers[k])) \div Powers[k]
  BY DEF Scaled, k
<1>4. \A x \in Int, y \in Nat \ {0} : x \div y \in Int
  OBVIOUS
<1>5. 10 * (c + 1 - Powers[k]) \in Int /\ 10 * (k - 1) \in Int
  BY <1>1, <1>2
<1>6. (10 * (c + 1 - Powers[k])) \div Powers[k] \in Int
  BY <1>2, <1>4, <1>5
<1> QED BY <1>3, <1>5, <1>6

LEMMA ReportedIsInteger ==
  ASSUME NEW metric, NEW e \in Event
  PROVE  Reported(metric, e) \in Int
<1>1. e.cost \in Nat /\ e.hit \in Nat
  BY DEF Event
<1> QED BY <1>1, ScaledIsInteger DEF Reported

(* What a phase is compared with is events of the runs before.             *)
Before == {e \in Event : e.run < run}

LEMMA EarlierIsBefore ==
  ASSUME NEW l \in Seq(Event), \A i \in DOMAIN l : l[i].run <= run, run \in Nat,
         NEW phase
  PROVE  Earlier(l, phase, run) \in Seq(Before)
<1> DEFINE places == {i \in DOMAIN l : /\ l[i].type = "phase_completed"
                                       /\ l[i].phase = phase /\ l[i].run # run}
           found == Chosen(l, places)
<1>1. found \in Seq({l[i] : i \in places \cap (1 .. Len(l))})
  <2> HIDE DEF places
  <2> QED BY ChosenAreThere
<1>2. {l[i] : i \in places \cap (1 .. Len(l))} \subseteq Before
  <2> SUFFICES ASSUME NEW i \in 1 .. Len(l), l[i].run # run, i \in DOMAIN l
               PROVE  l[i] \in Before
    BY Zenon
  <2>1. l[i] \in Event
    OBVIOUS
  <2>2. l[i].run \in Nat
    BY <2>1 DEF Event
  <2>3. l[i].run < run
    BY <2>2
  <2> QED BY <2>1, <2>3 DEF Before
<1>3. found \in Seq(Before)
  <2> HIDE DEF found
  <2> QED BY <1>1, <1>2, SeqMonotonic
<1>4. Earlier(l, phase, run) = Latest(found, SampleCap)
  BY DEF Earlier
<1> HIDE DEF found
<1> QED BY <1>3, <1>4, EstimatesAssumption DEF Latest

Samples(a) == [i \in DOMAIN a.events |-> Reported(a.metric, a.events[i])]

(* The events are numbered by the runs so far; an alert was raised by what *)
(* it says, over events of earlier runs.                                   *)
Numbered == \A i \in DOMAIN log : log[i].run <= run
Raised == \A a \in alerts :
            /\ a.metric \in Metrics /\ a.value \in Int /\ a.events \in Seq(Before)
            /\ a.severity = Severity(a.metric, a.value, Samples(a))
            /\ Emitted(a.severity)
Drifting == Numbered /\ Raised

LEMMA DriftingInitial == Init => Drifting
<1> SUFFICES ASSUME Init PROVE Drifting
  OBVIOUS
<1>1. log \in Seq({e \in Event : e.run = 0}) /\ run = 0 /\ alerts = {}
  BY PastsAssumption DEF Init
<1>2. ASSUME NEW i \in DOMAIN log PROVE log[i].run <= run
  <2>1. log[i] \in {e \in Event : e.run = 0}
    BY <1>1
  <2> QED BY <1>1, <2>1
<1> QED BY <1>1, <1>2 DEF Drifting, Numbered, Raised

(* A line more in the telemetry, of this run.                              *)
LEMMA OneMore ==
  ASSUME TypeOK, Numbered, UNCHANGED run, NEW e \in Event, e.run = run,
         log' = Append(log, e)
  PROVE  Numbered'
<1>1. log \in Seq(Event) /\ run \in Nat
  BY DEF TypeOK, Option, State
<1>2. ASSUME NEW i \in DOMAIN log' PROVE log'[i].run <= run
  <2>1. CASE i \in DOMAIN log
    BY <1>1, <2>1 DEF Numbered
  <2>2. CASE i \notin DOMAIN log
    <3>1. log'[i] = e
      BY <1>1, <1>2, <2>2
    <3> QED BY <1>1, <3>1
  <2> QED BY <2>1, <2>2
<1> QED BY <1>2 DEF Numbered

LEMMA DriftingStep == TypeOK /\ TypeOK' /\ Drifting /\ [Next]_vars => Drifting'
<1> SUFFICES ASSUME TypeOK, TypeOK', Drifting, [Next]_vars PROVE Drifting'
  OBVIOUS
<1> USE DEF Drifting
<1>1. ASSUME UNCHANGED <<log, alerts, run>> PROVE Drifting'
  BY <1>1 DEF Numbered, Raised, Before
<1>2. ASSUME NEW c \in Configs, NEW m \in Models, NEW o \in Overrides,
             StartRun(c, m, o)
      PROVE Drifting'
  <2>1. run' = run + 1 /\ run \in Nat /\ log' = log /\ alerts' = {}
    BY <1>2 DEF StartRun, TypeOK, Option, State
  <2>2. ASSUME NEW i \in DOMAIN log' PROVE log'[i].run <= run'
    <3>1. log[i] \in Event /\ log[i].run <= run
      BY <2>1, <2>2 DEF Numbered, TypeOK, Option, State
    <3>2. log[i].run \in Nat
      BY <3>1 DEF Event
    <3> QED BY <2>1, <3>1, <3>2
  <2> QED BY <2>1, <2>2 DEF Numbered, Raised
<1>3. CASE CompleteMilestone
  <2>1. CompletedMilestone \in Event /\ CompletedMilestone.run = run
    BY DEF CompletedMilestone, Event, Stamps, Stamp, TypeOK, Option, State
  <2>2. log' = Append(log, CompletedMilestone) /\ UNCHANGED <<run, alerts>>
    BY <1>3 DEF CompleteMilestone, forecasts
  <2>3. Numbered'
    <3> HIDE DEF CompletedMilestone
    <3> QED BY <2>1, <2>2, OneMore
  <2> QED BY <2>2, <2>3 DEF Raised, Before
<1>4. ASSUME NEW r \in UNION Range(Readings), RunPhase(r) PROVE Drifting'
  <2>1. Phase \in Range(Phases) /\ r \in [cost : Nat, extra : Nat, hit : Nat]
        /\ Charged(r) \in Nat
    BY <1>4, PhaseIsOne, ReadingsAreNaturals DEF RunPhase
  <2>2. UNCHANGED run /\ run \in Nat
    <3>1. UNCHANGED run
      BY <1>4 DEF RunPhase
    <3>2. run \in Nat
      BY DEF TypeOK, Option, State
    <3> QED BY <3>1, <3>2
  <2>3. Numbered'
    <3>1. CompletedPhase(r) \in Event /\ CompletedPhase(r).run = run
      BY <2>1, <2>2 DEF CompletedPhase, Event
    <3>2. log' = log \/ log' = Append(log, CompletedPhase(r))
      BY <1>4 DEF RunPhase, Report
    <3> HIDE DEF CompletedPhase
    <3>3. CASE log' = log
      BY <2>2, <3>3 DEF Numbered
    <3>4. CASE log' = Append(log, CompletedPhase(r))
      BY <2>2, <3>1, <3>4, OneMore
    <3> QED BY <3>2, <3>3, <3>4
  <2>4. ASSUME NEW a \in alerts'
        PROVE  /\ a.metric \in Metrics /\ a.value \in Int /\ a.events \in Seq(Before)
               /\ a.severity = Severity(a.metric, a.value, Samples(a))
               /\ Emitted(a.severity)
    <3> DEFINE events == Earlier(log', Phase, run)
    <3>1. events \in Seq(Before)
      <4>1. log' \in Seq(Event) /\ \A i \in DOMAIN log' : log'[i].run <= run
        BY <2>2, <2>3 DEF TypeOK, Option, State, Numbered
      <4> QED BY <2>2, <4>1, EarlierIsBefore
    <3> HIDE DEF events
    <3>2. PICK m \in Metrics : /\ a = Assessed(m, Observed(m, r), events)
                               /\ Emitted(a.severity)
      BY <1>4, <2>4 DEF RunPhase, EmitDrift, events
    <3>3. Observed(m, r) \in Int
      BY <2>1, ScaledIsInteger DEF Observed
    <3>4. /\ a.metric = m /\ a.value = Observed(m, r) /\ a.events = events
          /\ a.severity = Severity(m, Observed(m, r),
                                   [i \in DOMAIN events |-> Reported(m, events[i])])
      BY <3>2 DEF Assessed
    <3>5. a.severity = Severity(a.metric, a.value, Samples(a))
      BY <3>4 DEF Samples
    <3> QED BY <3>1, <3>2, <3>3, <3>4, <3>5
  <2>5. Before' = Before
    BY <2>2 DEF Before
  <2>6. \A a : Samples(a)' = Samples(a)
    BY DEF Samples
  <2> QED BY <2>3, <2>4, <2>5, <2>6 DEF Raised
<1>5. CASE Skip \/ StartMilestone \/ Retry \/ GiveUp
  BY <1>1, <1>5 DEF Skip, StartMilestone, Retry, GiveUp, forecasts
<1>6. ASSUME NEW c \in Wasted, FailPhase(c) PROVE Drifting'
  BY <1>1, <1>6 DEF FailPhase, forecasts
<1>7. CASE EndRun \/ Crash
  BY <1>1, <1>7 DEF EndRun, Crash, forecasts
<1>8. CASE UNCHANGED vars
  BY <1>1, <1>8 DEF vars, forecasts
<1> QED BY <1>2, <1>3, <1>4, <1>5, <1>6, <1>7, <1>8 DEF Next

LEMMA RaisedAreRare == Raised => AlertsAreRare
<1> SUFFICES
      ASSUME Raised, NEW a \in alerts,
             NEW bad, bad = {i \in DOMAIN a.events :
                               IF HigherIsWorse(a.metric)
                               THEN Reported(a.metric, a.events[i]) >= a.value
                               ELSE Reported(a.metric, a.events[i]) <= a.value}
      PROVE  /\ Len(a.events) >= Floor
             /\ Rarity[a.severity] * Cardinality(bad) <= Len(a.events)
             /\ \A i \in DOMAIN a.events : a.events[i].run < run
  BY DEF AlertsAreRare
<1> DEFINE samples == Samples(a)
           n == Len(a.events)
<1>1. /\ a.metric \in Metrics /\ a.value \in Int /\ a.events \in Seq(Before)
      /\ a.severity = Severity(a.metric, a.value, samples) /\ Emitted(a.severity)
  BY DEF Raised
<1>2. DOMAIN a.events = 1 .. n /\ n \in Nat
  BY <1>1
<1>3. \A i \in 1 .. n : a.events[i] \in Event /\ a.events[i].run < run
  BY <1>1, <1>2 DEF Before
<1>4. /\ samples \in Seq(Int) /\ Len(samples) = n
      /\ \A i \in 1 .. n : samples[i] = Reported(a.metric, a.events[i])
  <2>1. \A i \in 1 .. n : Reported(a.metric, a.events[i]) \in Int
    BY <1>3, ReportedIsInteger
  <2>2. samples = [i \in 1 .. n |-> Reported(a.metric, a.events[i])]
    BY <1>2 DEF Samples
  <2> HIDE DEF samples
  <2> QED BY <1>2, <2>1, <2>2
<1> HIDE DEF samples, n
<1>5. ~(n < Floor) /\ Worse(a.metric, a.value, samples)
  BY <1>1, <1>4 DEF Emitted, Severity
<1>6. PICK sigmas \in {2, 3, 4} : /\ Reaches(a.value, samples, sigmas)
                                 /\ Rarity[a.severity] = Square(sigmas) + 1
  BY <1>1, <1>5 DEF Emitted, Severity, Rarity, Square
<1>7. n >= Floor /\ n > 0
  BY <1>2, <1>5, EstimatesAssumption
<1>8. bad \in SUBSET (1 .. n)
  BY <1>2
<1>9. \/ Deviation(a.value, samples) > 0 /\ \A i \in bad : samples[i] >= a.value
      \/ Deviation(a.value, samples) < 0 /\ \A i \in bad : samples[i] <= a.value
  <2>1. CASE HigherIsWorse(a.metric)
    BY <1>4, <1>5, <1>8, <2>1 DEF Worse
  <2>2. CASE ~HigherIsWorse(a.metric)
    BY <1>4, <1>5, <1>8, <2>2 DEF Worse
  <2> QED BY <2>1, <2>2
<1>10. (Square(sigmas) + 1) * Cardinality(bad) <= n
  <2>1. Len(samples) > 0 /\ bad \in SUBSET (1 .. Len(samples)) /\ sigmas \in Nat \ {0}
    BY <1>4, <1>7, <1>8
  <2>2. (Square(sigmas) + 1) * Cardinality(bad) <= Len(samples)
    BY <1>1, <1>4, <1>6, <1>9, <2>1, FewAreAsFar
  <2> QED BY <1>4, <2>2
<1> QED BY <1>2, <1>3, <1>6, <1>7, <1>10 DEF n

(* For any telemetry, costs and hits: a phase that is alerted about is as  *)
(* bad as at most one in five, ten or seventeen of the Floor or more       *)
(* phases of earlier runs that it is compared with, by its severity and    *)
(* however they are spread.                                                *)
THEOREM AlertsAreExceptions == Spec => []AlertsAreRare
<1>1. Init => TypeOK /\ Drifting
  BY TypeInitial, DriftingInitial
<1>2. TypeOK /\ Drifting /\ [Next]_vars => (TypeOK /\ Drifting)'
  BY TypeStep, DriftingStep
<1>3. TypeOK /\ Drifting => AlertsAreRare
  BY RaisedAreRare DEF Drifting
<1> QED BY <1>1, <1>2, <1>3, PTL DEF Spec

-----------------------------------------------------------------------------
(* Percentiles and moving averages                                         *)

(* Among some of the places of a sequence, one has the least value.        *)
LEMMA HasLeast ==
  ASSUME NEW n \in Nat, NEW w, \A i \in 1 .. n : w[i] \in Int,
         NEW S \in SUBSET (1 .. n), S # {}
  PROVE  \E p \in S : \A q \in S : w[p] <= w[q]
<1> DEFINE Upto(k) == S \cap (1 .. k)
           Found(k) == \E p \in Upto(k) : \A q \in Upto(k) : w[p] <= w[q]
           Good == {k \in Nat : k <= n /\ Upto(k) # {} => Found(k)}
<1>1. 0 \in Good
  OBVIOUS
<1>2. ASSUME NEW k \in Nat, k \in Good, k + 1 <= n, Upto(k + 1) # {}
      PROVE  Found(k + 1)
  <2>1. CASE k + 1 \notin S
    <3>1. Upto(k + 1) = Upto(k)
      BY <2>1
    <3> QED BY <1>2, <3>1
  <2>2. CASE k + 1 \in S
    <3>1. Upto(k + 1) = Upto(k) \cup {k + 1} /\ w[k + 1] \in Int
      BY <2>2
    <3>2. CASE Upto(k) = {}
      <4>1. Upto(k + 1) = {k + 1}
        BY <3>1, <3>2
      <4> HIDE DEF Upto
      <4> QED BY <3>1, <4>1
    <3>3. CASE Upto(k) # {}
      <4>1. PICK p \in Upto(k) : \A q \in Upto(k) : w[p] <= w[q]
        BY <1>2, <3>3
      <4>2. \A q \in Upto(k) : w[q] \in Int
        OBVIOUS
      <4>3. CASE w[p] <= w[k + 1]
        <5> HIDE DEF Upto
        <5> QED BY <3>1, <4>1, <4>3
      <4>4. CASE ~(w[p] <= w[k + 1])
        <5> HIDE DEF Upto
        <5>1. \A q \in Upto(k + 1) : w[k + 1] <= w[q]
          BY <3>1, <4>1, <4>2, <4>4
        <5> QED BY <3>1, <5>1
      <4> QED BY <4>3, <4>4
    <3> QED BY <3>2, <3>3
  <2> QED BY <2>1, <2>2
<1>3. n \in Good
  <2>1. \A k \in Nat : k \in Good => k + 1 \in Good
    <3> HIDE DEF Upto, Found
    <3> QED BY <1>2
  <2> HIDE DEF Good
  <2> QED BY <1>1, <2>1, ByInduction
<1>4. Upto(n) = S
  OBVIOUS
<1> HIDE DEF Upto
<1>5. Found(n)
  <2> HIDE DEF Found
  <2> QED BY <1>3, <1>4
<1> QED BY <1>4, <1>5, Zenon

LEMMA HasGreatest ==
  ASSUME NEW n \in Nat, NEW w, \A i \in 1 .. n : w[i] \in Int,
         NEW S \in SUBSET (1 .. n), S # {}
  PROVE  \E p \in S : \A q \in S : w[q] <= w[p]
<1> DEFINE v == [i \in 1 .. n |-> -w[i]]
<1>1. \A i \in 1 .. n : v[i] \in Int /\ v[i] = -w[i]
  OBVIOUS
<1> HIDE DEF v
<1>2. PICK p \in S : \A q \in S : v[p] <= v[q]
  BY <1>1, HasLeast
<1>3. \A q \in S : w[q] <= w[p]
  BY <1>1, <1>2
<1> QED BY <1>3

(* How many places there are without one or two of them.                   *)
LEMMA Without ==
  ASSUME NEW n \in Nat, NEW S \in SUBSET (1 .. n)
  PROVE  /\ IsFiniteSet(S) /\ Cardinality(S) \in Nat /\ Cardinality(S) <= n
         /\ \A p \in (1 .. n) \ S : Cardinality(S) <= n - 1
         /\ \A p, q \in (1 .. n) \ S : p # q => Cardinality(S) <= n - 2
         /\ S = {} => Cardinality(S) = 0
<1>1. IsFiniteSet(1 .. n) /\ Cardinality(1 .. n) = n
  BY FS_Interval
<1>2. ASSUME NEW T, T \subseteq 1 .. n
      PROVE  /\ IsFiniteSet(T) /\ Cardinality(T) \in Nat
             /\ S \subseteq T => Cardinality(S) <= Cardinality(T)
  BY <1>1, <1>2, FS_Subset, FS_CardinalityType
<1>3. ASSUME NEW p \in (1 .. n) \ S
      PROVE  Cardinality((1 .. n) \ {p}) = n - 1 /\ Cardinality(S) <= n - 1
  <2>1. Cardinality((1 .. n) \ {p}) = n - 1
    BY <1>1, FS_RemoveElement
  <2>2. S \subseteq (1 .. n) \ {p} /\ (1 .. n) \ {p} \subseteq 1 .. n
    BY <1>3
  <2> QED BY <1>2, <2>1, <2>2
<1>4. ASSUME NEW p \in (1 .. n) \ S, NEW q \in (1 .. n) \ S, p # q
      PROVE  Cardinality(S) <= n - 2
  <2> DEFINE T == (1 .. n) \ {p}
  <2>1. IsFiniteSet(T) /\ Cardinality(T) = n - 1 /\ q \in T
    BY <1>2, <1>3, <1>4
  <2>2. S \subseteq T \ {q} /\ T \ {q} \subseteq 1 .. n
    BY <1>4
  <2> HIDE DEF T
  <2>3. Cardinality(T \ {q}) = n - 2
    BY <2>1, FS_RemoveElement
  <2> QED BY <1>2, <2>2, <2>3
<1>5. IsFiniteSet(S) /\ Cardinality(S) \in Nat /\ Cardinality(S) <= n
  <2>1. IsFiniteSet(S)
    BY <1>1, FS_Subset
  <2>2. Cardinality(S) \in Nat /\ Cardinality(S) <= n
    BY <1>1, <2>1, FS_Subset, FS_CardinalityType
  <2> QED BY <2>1, <2>2
<1>6. S = {} => Cardinality(S) = 0
  BY FS_EmptySet
<1> QED BY <1>3, <1>4, <1>5, <1>6

(* How many there are at least.                                            *)
LEMMA AtLeast ==
  ASSUME NEW n \in Nat, NEW S \in SUBSET (1 .. n)
  PROVE  /\ \A p \in S : Cardinality(S) >= 1
         /\ \A p, q \in S : p # q => Cardinality(S) >= 2
         /\ S = 1 .. n => Cardinality(S) = n
         /\ \A p \in 1 .. n : (1 .. n) \ {p} \subseteq S => Cardinality(S) >= n - 1
<1> DEFINE T == (1 .. n) \ S
<1>1. T \in SUBSET (1 .. n)
  OBVIOUS
<1>2. IsFiniteSet(S) /\ Cardinality(S) \in Nat
  BY Without
<1>3. ASSUME NEW p \in S PROVE Cardinality(S) >= 1
  <2>1. Cardinality(S \ {p}) = Cardinality(S) - 1 /\ IsFiniteSet(S \ {p})
    BY <1>2, <1>3, FS_RemoveElement
  <2>2. Cardinality(S \ {p}) \in Nat
    BY <2>1, FS_CardinalityType
  <2> QED BY <1>2, <2>1, <2>2
<1>4. ASSUME NEW p \in S, NEW q \in S, p # q PROVE Cardinality(S) >= 2
  <2>1. Cardinality(S \ {p}) = Cardinality(S) - 1 /\ IsFiniteSet(S \ {p})
    BY <1>2, <1>4, FS_RemoveElement
  <2>2. Cardinality((S \ {p}) \ {q}) = Cardinality(S \ {p}) - 1
        /\ IsFiniteSet((S \ {p}) \ {q})
    BY <2>1, <1>4, FS_RemoveElement
  <2>3. Cardinality((S \ {p}) \ {q}) \in Nat
    BY <2>2, FS_CardinalityType
  <2> QED BY <1>2, <2>1, <2>2, <2>3
<1>5. IsFiniteSet(1 .. n) /\ Cardinality(1 .. n) = n
  BY FS_Interval
<1>6. ASSUME NEW p \in 1 .. n, (1 .. n) \ {p} \subseteq S
      PROVE  Cardinality(S) >= n - 1
  <2>1. Cardinality((1 .. n) \ {p}) = n - 1
    BY <1>5, <1>6, FS_RemoveElement
  <2>2. Cardinality((1 .. n) \ {p}) <= Cardinality(S)
    BY <1>2, <1>6, FS_Subset
  <2> QED BY <2>1, <2>2
<1> QED BY <1>3, <1>4, <1>5, <1>6

(* The smallest value and the second smallest, the largest and the second  *)
(* largest: all others lie beyond the second one.                          *)
LEMMA TheLow ==
  ASSUME NEW values \in Seq(Int), NEW n, n = Len(values), n > 1
  PROVE  LET m == Ranked(values, 1)
             b == Ranked(values, 2)
         IN  /\ m \in Int /\ b \in Int /\ m <= b
             /\ \E p \in 1 .. n : /\ values[p] = m
                                  /\ \A i \in 1 .. n : values[i] >= m
                                  /\ \A i \in (1 .. n) \ {p} : values[i] >= b
<1> DEFINE Below(v) == {i \in 1 .. n : values[i] < v}
           UpTo(v) == {i \in 1 .. n : values[i] <= v}
           Rank(v, k) == Cardinality(Below(v)) < k /\ k <= Cardinality(UpTo(v))
           m == Ranked(values, 1)
           b == Ranked(values, 2)
<1>1. /\ n \in Nat /\ 1 \in 1 .. n /\ 2 \in 1 .. n /\ DOMAIN values = 1 .. n
      /\ \A i \in 1 .. n : values[i] \in Int
  OBVIOUS
<1>2. /\ Range(values) = {values[i] : i \in 1 .. n}
      /\ \A k : Ranked(values, k) = CHOOSE v \in Range(values) : Rank(v, k)
  BY <1>1 DEF Ranked, Range
<1>3. /\ \A v : Below(v) \in SUBSET (1 .. n) /\ UpTo(v) \in SUBSET (1 .. n)
      /\ \A v : Cardinality(Below(v)) \in Nat /\ Cardinality(UpTo(v)) \in Nat
  <2>1. \A v : Below(v) \in SUBSET (1 .. n) /\ UpTo(v) \in SUBSET (1 .. n)
    OBVIOUS
  <2> HIDE DEF Below, UpTo
  <2>2. ASSUME NEW v PROVE Cardinality(Below(v)) \in Nat /\ Cardinality(UpTo(v)) \in Nat
    <3>1. Below(v) \in SUBSET (1 .. n) /\ UpTo(v) \in SUBSET (1 .. n) /\ n \in Nat
      BY <1>1, <2>1
    <3> QED BY <3>1, Without
  <2> QED BY <2>1, <2>2
<1>4. PICK first \in 1 .. n : \A i \in 1 .. n : values[first] <= values[i]
  <2>1. 1 .. n \in SUBSET (1 .. n) /\ 1 .. n # {}
    BY <1>1
  <2> QED BY <1>1, <2>1, HasLeast
<1>5. Rank(values[first], 1)
  <2>1. Below(values[first]) = {}
    BY <1>1, <1>4
  <2>2. first \in UpTo(values[first])
    BY <1>1
  <2> HIDE DEF Below, UpTo
  <2>3. Cardinality(Below(values[first])) = 0
    BY <2>1, FS_EmptySet
  <2>4. Cardinality(UpTo(values[first])) >= 1
    BY <1>1, <1>3, <2>2, AtLeast
  <2>5. Cardinality(UpTo(values[first])) \in Nat
    BY <1>1, <1>3, Without
  <2> QED BY <2>3, <2>4, <2>5
<1>6. PICK second \in (1 .. n) \ {first} :
         \A i \in (1 .. n) \ {first} : values[second] <= values[i]
  <2>1. (1 .. n) \ {first} \in SUBSET (1 .. n) /\ (1 .. n) \ {first} # {}
    BY <1>1
  <2> QED BY <1>1, <2>1, HasLeast
<1>7. Rank(values[second], 2)
  <2>1. Below(values[second]) \subseteq {first}
    BY <1>1, <1>6
  <2>2. first \in UpTo(values[second]) /\ second \in UpTo(values[second])
    BY <1>1, <1>4, <1>6
  <2> HIDE DEF Below, UpTo
  <2>3. Cardinality(Below(values[second])) <= 1
    <3>1. IsFiniteSet({first}) /\ Cardinality({first}) = 1
      BY FS_Singleton
    <3> QED BY <2>1, <3>1, FS_Subset
  <2>4. Cardinality(UpTo(values[second])) >= 2
    BY <1>1, <1>3, <1>6, <2>2, AtLeast
  <2>5. Cardinality(UpTo(values[second])) \in Nat
        /\ Cardinality(Below(values[second])) \in Nat
    BY <1>1, <1>3, Without
  <2> QED BY <2>3, <2>4, <2>5
<1> HIDE DEF Rank
<1>8. m \in Range(values) /\ Rank(m, 1) /\ b \in Range(values) /\ Rank(b, 2)
  <2>1. values[first] \in Range(values) /\ values[second] \in Range(values)
    BY <1>1, <1>2, <1>4, <1>6
  <2> HIDE DEF m, b
  <2>2. m = CHOOSE v \in Range(values) : Rank(v, 1)
    BY <1>2 DEF m
  <2>3. b = CHOOSE v \in Range(values) : Rank(v, 2)
    BY <1>2 DEF b
  <2> QED BY <1>5, <1>7, <2>1, <2>2, <2>3
<1> HIDE DEF m, b
<1>9. m \in Int /\ b \in Int
  BY <1>1, <1>2, <1>8
<1>10. ASSUME NEW i \in 1 .. n PROVE values[i] >= m
  <2>1. ~(values[i] < m)
    <3> SUFFICES ASSUME i \in Below(m) PROVE FALSE
      BY <1>10
    <3> HIDE DEF Below
    <3>1. Cardinality(Below(m)) >= 1 /\ Cardinality(Below(m)) \in Nat
      BY <1>1, <1>3, AtLeast, Without
    <3> QED BY <1>8, <3>1 DEF Rank
  <2> QED BY <1>1, <1>9, <2>1
<1>11. PICK p \in 1 .. n : values[p] = m
  BY <1>1, <1>2, <1>8
<1>12. ASSUME NEW i \in (1 .. n) \ {p} PROVE values[i] >= b
  <2>1. ~(values[i] < b)
    <3> SUFFICES ASSUME values[i] < b PROVE FALSE
      OBVIOUS
    <3>1. i \in Below(b) /\ p \in Below(b)
      BY <1>1, <1>9, <1>10, <1>11
    <3> HIDE DEF Below
    <3>2. Cardinality(Below(b)) >= 2 /\ Cardinality(Below(b)) \in Nat
      BY <1>1, <1>3, <3>1, AtLeast, Without
    <3> QED BY <1>8, <3>2 DEF Rank
  <2> QED BY <1>1, <1>9, <2>1
<1>13. m <= b
  <2>1. PICK i \in 1 .. n : values[i] = b
    BY <1>1, <1>2, <1>8
  <2> QED BY <1>9, <1>10, <2>1
<1> QED BY <1>9, <1>10, <1>11, <1>12, <1>13 DEF m, b

LEMMA TheHigh ==
  ASSUME NEW values \in Seq(Int), NEW n, n = Len(values), n > 1
  PROVE  LET m == Ranked(values, n)
             b == Ranked(values, n - 1)
         IN  /\ m \in Int /\ b \in Int /\ b <= m
             /\ \E p \in 1 .. n : /\ values[p] = m
                                  /\ \A i \in 1 .. n : values[i] <= m
                                  /\ \A i \in (1 .. n) \ {p} : values[i] <= b
<1> DEFINE Below(v) == {i \in 1 .. n : values[i] < v}
           UpTo(v) == {i \in 1 .. n : values[i] <= v}
           Rank(v, k) == Cardinality(Below(v)) < k /\ k <= Cardinality(UpTo(v))
           m == Ranked(values, n)
           b == Ranked(values, n - 1)
<1>1. /\ n \in Nat /\ n \in 1 .. n /\ n - 1 \in 1 .. n /\ DOMAIN values = 1 .. n
      /\ \A i \in 1 .. n : values[i] \in Int
  OBVIOUS
<1>2. /\ Range(values) = {values[i] : i \in 1 .. n}
      /\ \A k : Ranked(values, k) = CHOOSE v \in Range(values) : Rank(v, k)
  BY <1>1 DEF Ranked, Range
<1>3. /\ \A v : Below(v) \in SUBSET (1 .. n) /\ UpTo(v) \in SUBSET (1 .. n)
      /\ \A v : Cardinality(Below(v)) \in Nat /\ Cardinality(UpTo(v)) \in Nat
  <2>1. \A v : Below(v) \in SUBSET (1 .. n) /\ UpTo(v) \in SUBSET (1 .. n)
    OBVIOUS
  <2> HIDE DEF Below, UpTo
  <2>2. ASSUME NEW v PROVE Cardinality(Below(v)) \in Nat /\ Cardinality(UpTo(v)) \in Nat
    <3>1. Below(v) \in SUBSET (1 .. n) /\ UpTo(v) \in SUBSET (1 .. n) /\ n \in Nat
      BY <1>1, <2>1
    <3> QED BY <3>1, Without
  <2> QED BY <2>1, <2>2
<1>4. PICK last \in 1 .. n : \A i \in 1 .. n : values[i] <= values[last]
  <2>1. 1 .. n \in SUBSET (1 .. n) /\ 1 .. n # {}
    BY <1>1
  <2> QED BY <1>1, <2>1, HasGreatest
<1>5. Rank(values[last], n)
  <2>1. UpTo(values[last]) = 1 .. n
    BY <1>1, <1>4
  <2>2. last \in (1 .. n) \ Below(values[last])
    BY <1>1
  <2> HIDE DEF Below, UpTo
  <2>3. Cardinality(UpTo(values[last])) = n
    BY <1>1, <1>3, <2>1, AtLeast
  <2>4. Cardinality(Below(values[last])) <= n - 1
        /\ Cardinality(Below(values[last])) \in Nat
    BY <1>1, <1>3, <2>2, Without
  <2> QED BY <1>1, <2>3, <2>4
<1>6. PICK second \in (1 .. n) \ {last} :
         \A i \in (1 .. n) \ {last} : values[i] <= values[second]
  <2>1. (1 .. n) \ {last} \in SUBSET (1 .. n) /\ (1 .. n) \ {last} # {}
    BY <1>1
  <2> QED BY <1>1, <2>1, HasGreatest
<1>7. Rank(values[second], n - 1)
  <2>1. (1 .. n) \ {last} \subseteq UpTo(values[second])
    BY <1>1, <1>6
  <2>2. /\ last \in (1 .. n) \ Below(values[second])
        /\ second \in (1 .. n) \ Below(values[second])
    BY <1>1, <1>4, <1>6
  <2> HIDE DEF Below, UpTo
  <2>3. Cardinality(UpTo(values[second])) >= n - 1
    BY <1>1, <1>3, <2>1, AtLeast
  <2>4. Cardinality(Below(values[second])) <= n - 2
    BY <1>1, <1>3, <1>6, <2>2, Without
  <2>5. Cardinality(UpTo(values[second])) \in Nat
        /\ Cardinality(Below(values[second])) \in Nat
    BY <1>1, <1>3, Without
  <2> QED BY <1>1, <2>3, <2>4, <2>5
<1> HIDE DEF Rank
<1>8. m \in Range(values) /\ Rank(m, n) /\ b \in Range(values) /\ Rank(b, n - 1)
  <2>1. values[last] \in Range(values) /\ values[second] \in Range(values)
    BY <1>1, <1>2, <1>4, <1>6
  <2> HIDE DEF m, b
  <2>2. m = CHOOSE v \in Range(values) : Rank(v, n)
    BY <1>2 DEF m
  <2>3. b = CHOOSE v \in Range(values) : Rank(v, n - 1)
    BY <1>2 DEF b
  <2> QED BY <1>5, <1>7, <2>1, <2>2, <2>3
<1> HIDE DEF m, b
<1>9. m \in Int /\ b \in Int
  BY <1>1, <1>2, <1>8
<1>10. ASSUME NEW i \in 1 .. n PROVE values[i] <= m
  <2>1. ~(values[i] > m)
    <3> SUFFICES ASSUME i \in (1 .. n) \ UpTo(m) PROVE FALSE
      BY <1>1, <1>9, <1>10
    <3> HIDE DEF UpTo
    <3>1. Cardinality(UpTo(m)) <= n - 1 /\ Cardinality(UpTo(m)) \in Nat
      BY <1>1, <1>3, Without
    <3> QED BY <1>1, <1>8, <3>1 DEF Rank
  <2> QED BY <1>1, <1>9, <2>1
<1>11. PICK p \in 1 .. n : values[p] = m
  BY <1>1, <1>2, <1>8
<1>12. ASSUME NEW i \in (1 .. n) \ {p} PROVE values[i] <= b
  <2>1. ~(values[i] > b)
    <3> SUFFICES ASSUME values[i] > b PROVE FALSE
      OBVIOUS
    <3>1. i \in (1 .. n) \ UpTo(b) /\ p \in (1 .. n) \ UpTo(b)
      BY <1>1, <1>9, <1>10, <1>11
    <3> HIDE DEF UpTo
    <3>2. Cardinality(UpTo(b)) <= n - 2 /\ Cardinality(UpTo(b)) \in Nat
      BY <1>1, <1>3, <1>12, <3>1, Without
    <3> QED BY <1>1, <1>8, <3>2 DEF Rank
  <2> QED BY <1>1, <1>9, <2>1
<1>13. b <= m
  <2>1. PICK i \in 1 .. n : values[i] = b
    BY <1>1, <1>2, <1>8
  <2> QED BY <1>9, <1>10, <2>1
<1> QED BY <1>9, <1>10, <1>11, <1>12, <1>13 DEF m, b

(* One turn of the moving average: the latest value weighs three tenths of *)
(* it, or is the average already.                                          *)
Turn(v, num, den, num2, den2) ==
  \/ num2 = 3 * (v * den) + 7 * num /\ den2 = 10 * den
  \/ v * den = num /\ num2 = num /\ den2 = den

(* N over D is how the average of w goes, one value after the other.        *)
Averages(n, w, N, D) ==
  /\ \A i \in 1 .. n : N[i] \in Int /\ D[i] \in Nat \ {0}
  /\ N[1] = w[1] /\ D[1] = 1
  /\ \A i \in 2 .. n : Turn(w[i], N[i - 1], D[i - 1], N[i], D[i])

(* The average is the last of a row of fractions.                          *)
LEMMA AverageTurns ==
  ASSUME NEW values \in Seq(Int), NEW n, n = Len(values), n > 0
  PROVE  \E N, D : /\ Averages(n, values, N, D)
                   /\ Average(values).num = N[n] /\ Average(values).den = D[n]
<1> DEFINE Fraction == [num : Int, den : Nat \ {0}]
           After(avg, v) ==
             IF v * avg.den = avg.num THEN avg
             ELSE [num |-> 3 * v * avg.den + 7 * avg.num, den |-> 10 * avg.den]
           First == [num |-> values[1], den |-> 1]
           Turns(k, f) == f[1] = First /\ \A i \in 2 .. k : f[i] = After(f[i - 1], values[i])
           Body(f) == [i \in 1 .. n |-> IF i = 1 THEN First ELSE After(f[i - 1], values[i])]
           upTo == CHOOSE f : f = Body(f)
           Built == {k \in Nat : k + 1 <= n => \E f \in [1 .. k + 1 -> Fraction] : Turns(k + 1, f)}
<1>1. /\ Average(values) = upTo[n] /\ n \in Nat \ {0}
      /\ \A i \in 1 .. n : values[i] \in Int
  BY DEF Average
<1>2. First \in Fraction
  BY <1>1
<1>3. ASSUME NEW avg \in Fraction, NEW v \in Int PROVE After(avg, v) \in Fraction
  <2>1. avg.num \in Int /\ avg.den \in Nat \ {0}
    OBVIOUS
  <2>2. 3 * v * avg.den + 7 * avg.num \in Int /\ 10 * avg.den \in Nat \ {0}
    BY <2>1
  <2> QED BY <2>2
<1> HIDE DEF First, After
<1>4. 0 \in Built
  <2> DEFINE f == [i \in 1 .. 0 + 1 |-> First]
  <2>1. f \in [1 .. 0 + 1 -> Fraction] /\ Turns(0 + 1, f)
    <3> HIDE DEF Fraction
    <3> QED BY <1>2
  <2> HIDE DEF Turns, Fraction, f
  <2> QED BY <2>1
<1>5. ASSUME NEW k \in Nat, k \in Built PROVE k + 1 \in Built
  <2> SUFFICES ASSUME (k + 1) + 1 <= n
               PROVE  \E g \in [1 .. (k + 1) + 1 -> Fraction] : Turns((k + 1) + 1, g)
    <3> HIDE DEF Turns, Fraction
    <3> QED OBVIOUS
  <2>1. PICK f \in [1 .. k + 1 -> Fraction] : Turns(k + 1, f)
    <3> HIDE DEF Turns, Fraction
    <3> QED BY <1>1, <1>5
  <2> DEFINE more == After(f[k + 1], values[k + 2])
             g == [i \in 1 .. (k + 1) + 1 |-> IF i = k + 2 THEN more ELSE f[i]]
  <2>2. k + 1 \in 1 .. k + 1 /\ k + 2 \in 1 .. n /\ values[k + 2] \in Int
    BY <1>1
  <2>3. more \in Fraction
    <3> HIDE DEF Fraction
    <3>1. f[k + 1] \in Fraction
      BY <2>2
    <3> QED BY <1>3, <2>2, <3>1
  <2>4. g \in [1 .. (k + 1) + 1 -> Fraction]
    <3> HIDE DEF Fraction, more
    <3> QED BY <2>3
  <2>5. Turns((k + 1) + 1, g)
    <3>1. g[1] = First
      BY <2>1
    <3>2. ASSUME NEW i \in 2 .. (k + 1) + 1 PROVE g[i] = After(g[i - 1], values[i])
      <4> HIDE DEF Fraction
      <4>1. g[i - 1] = f[i - 1]
        BY <3>2
      <4>2. CASE i = k + 2
        <5>1. i - 1 = k + 1 /\ g[i] = more
          BY <4>2
        <5> QED BY <4>1, <4>2, <5>1
      <4>3. CASE i # k + 2
        <5>1. i \in 2 .. k + 1 /\ g[i] = f[i]
          BY <4>3
        <5> QED BY <2>1, <4>1, <5>1
      <4> QED BY <4>2, <4>3
    <3> HIDE DEF g
    <3> QED BY <3>1, <3>2
  <2> HIDE DEF g, Turns, Fraction
  <2> QED BY <2>4, <2>5
<1>6. PICK f \in [1 .. n -> Fraction] : Turns(n, f)
  <2>1. n - 1 \in Built
    <3>1. n - 1 \in Nat
      BY <1>1
    <3> HIDE DEF Built
    <3>2. Nat \subseteq Built
      BY <1>4, <1>5, ByInduction
    <3> QED BY <3>1, <3>2
  <2>2. (n - 1) + 1 = n /\ n - 1 \in Nat
    BY <1>1
  <2> HIDE DEF Turns, Fraction
  <2> QED BY <1>1, <2>1, <2>2
<1>7. f = Body(f)
  <2> HIDE DEF Fraction
  <2> QED BY <1>1, <1>6
<1>8. upTo = Body(upTo)
  <2> HIDE DEF Body
  <2> QED BY <1>7, Zenon
<1> HIDE DEF upTo
<1>9. upTo[1] = First /\ \A i \in 2 .. n : upTo[i] = After(upTo[i - 1], values[i])
  <2>1. \A i \in 1 .. n : upTo[i] = IF i = 1 THEN First ELSE After(upTo[i - 1], values[i])
    BY <1>8, Zenon
  <2> QED BY <1>1, <2>1
<1>10. upTo[n] = f[n]
  <2> DEFINE Same == {k \in Nat : k + 1 <= n => upTo[k + 1] = f[k + 1]}
  <2>1. 0 \in Same
    BY <1>6, <1>9
  <2>2. ASSUME NEW k \in Nat, k \in Same, (k + 1) + 1 <= n
        PROVE  upTo[(k + 1) + 1] = f[(k + 1) + 1]
    <3>1. k + 2 \in 2 .. n /\ (k + 2) - 1 = k + 1 /\ (k + 1) + 1 = k + 2
          /\ k + 1 <= n
      BY <1>1, <2>2
    <3>2. upTo[k + 1] = f[k + 1]
      BY <2>2, <3>1
    <3>3. /\ upTo[k + 2] = After(upTo[(k + 2) - 1], values[k + 2])
          /\ f[k + 2] = After(f[(k + 2) - 1], values[k + 2])
      BY <1>6, <1>9, <3>1
    <3> QED BY <3>1, <3>2, <3>3
  <2>3. n - 1 \in Same
    <3>1. \A k \in Nat : k \in Same => k + 1 \in Same
      BY <2>2
    <3>2. n - 1 \in Nat
      BY <1>1
    <3> HIDE DEF Same
    <3>3. Nat \subseteq Same
      BY <2>1, <3>1, ByInduction
    <3> QED BY <3>2, <3>3
  <2>4. (n - 1) + 1 = n
    BY <1>1
  <2> QED BY <2>3, <2>4
<1> DEFINE N == [i \in 1 .. n |-> f[i].num]
           D == [i \in 1 .. n |-> f[i].den]
<1>11. N \in [1 .. n -> Int] /\ D \in [1 .. n -> Nat \ {0}]
  BY <1>6
<1>12. N[1] = values[1] /\ D[1] = 1
  <2>1. 1 \in 1 .. n
    BY <1>1
  <2>2. f[1] = First
    BY <1>6
  <2> QED BY <2>1, <2>2 DEF First
<1>13. ASSUME NEW i \in 2 .. n PROVE Turn(values[i], N[i - 1], D[i - 1], N[i], D[i])
  <2>1. i \in 1 .. n /\ i - 1 \in 1 .. n /\ values[i] \in Int
    BY <1>1, <1>13
  <2>2. f[i] = After(f[i - 1], values[i]) /\ f[i - 1] \in Fraction
    <3> HIDE DEF Fraction
    <3> QED BY <1>6, <2>1, <1>13
  <2> DEFINE old == f[i - 1]
             v == values[i]
  <2>3. /\ N[i - 1] = old.num /\ D[i - 1] = old.den
        /\ N[i] = f[i].num /\ D[i] = f[i].den
    BY <2>1
  <2>4. old.num \in Int /\ old.den \in Int /\ v \in Int
    BY <2>1, <2>2
  <2> HIDE DEF N, D, old, v
  <2>5. f[i] = IF v * old.den = old.num THEN old
               ELSE [num |-> 3 * v * old.den + 7 * old.num, den |-> 10 * old.den]
    BY <2>2 DEF After, old, v
  <2>6. CASE v * old.den = old.num
    <3>1. f[i] = old
      BY <2>5, <2>6
    <3> QED BY <2>3, <2>6, <3>1 DEF Turn, v
  <2>7. CASE v * old.den # old.num
    <3>1. f[i].num = 3 * v * old.den + 7 * old.num /\ f[i].den = 10 * old.den
      BY <2>5, <2>7
    <3>2. 3 * v * old.den = 3 * (v * old.den)
      BY <2>4
    <3>3. N[i] = 3 * (v * D[i - 1]) + 7 * N[i - 1] /\ D[i] = 10 * D[i - 1]
      BY <2>3, <3>1, <3>2
    <3> QED BY <3>3 DEF Turn, v
  <2> QED BY <2>6, <2>7
<1>14. Average(values).num = N[n] /\ Average(values).den = D[n]
  BY <1>1, <1>10
<1> HIDE DEF N, D
<1>15. Averages(n, values, N, D)
  BY <1>11, <1>12, <1>13 DEF Averages
<1> QED BY <1>14, <1>15, Zenon

(* How far a fraction lies above m, and how far b does, in its own units.  *)
Over(num, den, m) == num - m * den
Gap(den, m, b) == (b - m) * den

LEMMA TurnsOver ==
  ASSUME NEW v \in Int, NEW num \in Int, NEW den \in Nat \ {0}, NEW num2 \in Int,
         NEW den2 \in Nat \ {0}, NEW m \in Int, NEW b \in Int, m <= b, v >= m,
         Turn(v, num, den, num2, den2)
  PROVE  LET V == Gap(den, m, v)
         IN  /\ \/ /\ Over(num2, den2, m) = 3 * V + 7 * Over(num, den, m)
                   /\ Gap(den2, m, b) = 10 * Gap(den, m, b)
                \/ /\ Over(num2, den2, m) = Over(num, den, m) /\ V = Over(num, den, m)
                   /\ Gap(den2, m, b) = Gap(den, m, b)
             /\ V \in Nat
             /\ v >= b => V >= Gap(den, m, b)
             /\ v > m => V > 0
<1> DEFINE V == (v - m) * den
<1>0. V = Gap(den, m, v)
  BY DEF Gap
<1>1. \A x, y \in Int : x >= y => x * den >= y * den
  OBVIOUS
<1>2. \A x \in Int : x > 0 => x * den > 0
  OBVIOUS
<1>3. v - m \in Int /\ b - m \in Int /\ 0 \in Int /\ 0 * den = 0
      /\ v - m >= 0 /\ b - m >= 0
  OBVIOUS
<1>4. V \in Int /\ Over(num, den, m) \in Int /\ Gap(den, m, b) \in Int
  BY DEF Over, Gap
<1>5. V >= 0 /\ Gap(den, m, b) >= 0
  BY <1>1, <1>3 DEF Gap
<1>6. v >= b => V >= Gap(den, m, b)
  <2>1. v >= b => v - m >= b - m
    OBVIOUS
  <2> QED BY <1>1, <1>3, <2>1 DEF Gap
<1>7. v > m => V > 0
  <2>1. v > m => v - m > 0
    OBVIOUS
  <2> QED BY <1>2, <1>3, <2>1
<1>9. CASE num2 = 3 * (v * den) + 7 * num /\ den2 = 10 * den
  <2>1. Over(num2, den2, m) = 3 * V + 7 * Over(num, den, m)
    <3>1. num2 - m * (10 * den) = 3 * ((v - m) * den) + 7 * (num - m * den)
      BY <1>9
    <3> QED BY <1>9, <3>1 DEF Over
  <2>2. Gap(den2, m, b) = 10 * Gap(den, m, b)
    <3>1. (b - m) * (10 * den) = 10 * ((b - m) * den)
      OBVIOUS
    <3> QED BY <1>9, <3>1 DEF Gap
  <2> HIDE DEF V
  <2>3. V \in Nat /\ Gap(den, m, b) \in Nat
    BY <1>4, <1>5
  <2> QED BY <1>0, <1>4, <1>6, <1>7, <2>1, <2>2, <2>3
<1>10. CASE v * den = num /\ num2 = num /\ den2 = den
  <2>1. V = Over(num, den, m)
    <3>1. (v - m) * den = v * den - m * den
      OBVIOUS
    <3> QED BY <1>10, <3>1 DEF Over
  <2> HIDE DEF V
  <2>2. V \in Nat /\ Gap(den, m, b) \in Nat
    BY <1>4, <1>5
  <2> QED BY <1>0, <1>4, <1>6, <1>7, <1>10, <2>1, <2>2
<1> QED BY <1>9, <1>10 DEF Turn

(* How much of the gap the average has covered after i of the values, the  *)
(* least of which is at p, in tenths.                                      *)
Covers(i, p) ==
  IF i < p THEN 10 ELSE IF p > 1 THEN 7 ELSE IF i = 1 THEN 0 ELSE i

LEMMA CoverGrows ==
  ASSUME NEW i \in 1 .. 6, NEW p \in 1 .. 7,
         NEW X \in Int, NEW G \in Nat, NEW V \in Nat, NEW X2 \in Int, NEW G2 \in Int,
         \/ X2 = 3 * V + 7 * X /\ G2 = 10 * G
         \/ X2 = X /\ V = X /\ G2 = G,
         i + 1 # p => V >= G,
         10 * X >= Covers(i, p) * G
  PROVE  10 * X2 >= Covers(i + 1, p) * G2
<1>1. CASE i + 1 < p
  <2>1. Covers(i, p) = 10 /\ Covers(i + 1, p) = 10 /\ V >= G
    BY <1>1 DEF Covers
  <2> QED BY <2>1
<1>2. CASE i + 1 = p
  <2>1. Covers(i, p) = 10 /\ Covers(i + 1, p) = 7
    BY <1>2 DEF Covers
  <2> QED BY <2>1
<1>3. CASE i + 1 > p /\ p > 1
  <2>1. Covers(i, p) = 7 /\ Covers(i + 1, p) = 7 /\ V >= G
    BY <1>3 DEF Covers
  <2> QED BY <2>1
<1>4. CASE p = 1
  <2>1. V >= G /\ Covers(i + 1, p) = i + 1
        /\ Covers(i, p) = IF i = 1 THEN 0 ELSE i
    BY <1>4 DEF Covers
  <2>2. CASE i = 1
    BY <2>1, <2>2
  <2>3. CASE i = 2
    BY <2>1, <2>3
  <2>4. CASE i = 3
    BY <2>1, <2>4
  <2>5. CASE i = 4
    BY <2>1, <2>5
  <2>6. CASE i = 5
    BY <2>1, <2>6
  <2>7. CASE i = 6
    BY <2>1, <2>7
  <2> QED BY <2>2, <2>3, <2>4, <2>5, <2>6, <2>7
<1> QED BY <1>1, <1>2, <1>3, <1>4

(* The least value, at p, and one that is not above any of the others.     *)
LowEnd(n, w, m, b, p) ==
  /\ m \in Int /\ b \in Int /\ m <= b /\ w[p] = m
  /\ \A i \in 1 .. n : w[i] \in Int /\ w[i] >= m
  /\ \A i \in (1 .. n) \ {p} : w[i] >= b

(* Of seven values or fewer that are not all the same, the average is      *)
(* above the tenth percentile.                                             *)
LEMMA AboveTheLow ==
  ASSUME NEW n \in 2 .. 7, NEW w, NEW N, NEW D, Averages(n, w, N, D),
         NEW m, NEW b, NEW p \in 1 .. n, LowEnd(n, w, m, b, p),
         NEW q \in 1 .. n, w[q] # m
  PROVE  10 * Over(N[n], D[n], m) > (n - 1) * Gap(D[n], m, b)
<1> DEFINE X(i) == Over(N[i], D[i], m)
           G(i) == Gap(D[i], m, b)
           Good(i) == /\ 10 * X(i) >= Covers(i, p) * G(i)
                      /\ X(i) >= 0 /\ (q <= i => X(i) > 0)
           Sound == {k \in Nat : k + 1 <= n => Good(k + 1)}
<1>0. m \in Int /\ b \in Int /\ m <= b
  BY DEF LowEnd
<1>1. \A i \in 1 .. n : X(i) \in Int /\ G(i) \in Nat /\ (m < b => G(i) > 0)
  <2> SUFFICES ASSUME NEW i \in 1 .. n
               PROVE  X(i) \in Int /\ G(i) \in Nat /\ (m < b => G(i) > 0)
    OBVIOUS
  <2> DEFINE d == D[i]
             g == b - m
  <2>1. d \in Nat \ {0} /\ N[i] \in Int /\ g \in Nat /\ (m < b => g > 0)
    BY <1>0 DEF Averages
  <2> HIDE DEF d, g
  <2>2. g * d \in Nat /\ (g > 0 => g * d > 0) /\ N[i] - m * d \in Int
    BY <1>0, <2>1
  <2> QED BY <2>1, <2>2 DEF Over, Gap, d, g
<1>2. X(1) = w[1] - m /\ G(1) = b - m /\ w[1] \in Int
  BY <1>0 DEF Over, Gap, Averages, LowEnd
<1>3. Good(1)
  <2>1. CASE p = 1
    <3>1. Covers(1, p) = 0 /\ w[1] = m
      BY <2>1 DEF Covers, LowEnd
    <3>2. X(1) = 0 /\ q # 1 /\ G(1) \in Int
      BY <1>0, <1>2, <3>1
    <3> HIDE DEF X, G
    <3> QED BY <3>1, <3>2
  <2>2. CASE p # 1
    <3>1. Covers(1, p) = 10 /\ w[1] >= b /\ w[1] >= m
      BY <2>2 DEF Covers, LowEnd
    <3>2. q = 1 => w[1] > m
      BY <1>0, <1>2, <3>1
    <3> HIDE DEF X, G
    <3> QED BY <1>0, <1>2, <3>1, <3>2
  <2> QED BY <2>1, <2>2
<1>4. ASSUME NEW i \in 1 .. 6, i + 1 <= n, Good(i) PROVE Good(i + 1)
  <2>1. /\ i \in 1 .. n /\ i + 1 \in 1 .. n /\ i + 1 \in 2 .. n /\ (i + 1) - 1 = i
        /\ p \in 1 .. 7
    BY <1>4
  <2>2. Turn(w[i + 1], N[i], D[i], N[i + 1], D[i + 1])
    <3>1. Turn(w[i + 1], N[(i + 1) - 1], D[(i + 1) - 1], N[i + 1], D[i + 1])
      BY <2>1 DEF Averages
    <3> QED BY <2>1, <3>1
  <2>3. /\ w[i + 1] \in Int /\ w[i + 1] >= m /\ (i + 1 # p => w[i + 1] >= b)
        /\ (q = i + 1 => w[i + 1] > m)
    BY <1>0, <2>1 DEF LowEnd
  <2>4. PICK V \in Nat :
           /\ \/ X(i + 1) = 3 * V + 7 * X(i) /\ G(i + 1) = 10 * G(i)
              \/ X(i + 1) = X(i) /\ V = X(i) /\ G(i + 1) = G(i)
           /\ w[i + 1] >= b => V >= G(i)
           /\ w[i + 1] > m => V > 0
    <3> DEFINE v == w[i + 1]
               num == N[i]
               den == D[i]
               num2 == N[i + 1]
               den2 == D[i + 1]
    <3>1. /\ v \in Int /\ num \in Int /\ den \in Nat \ {0}
          /\ num2 \in Int /\ den2 \in Nat \ {0}
          /\ v >= m /\ Turn(v, num, den, num2, den2)
      BY <2>1, <2>2, <2>3 DEF Averages
    <3> HIDE DEF v, num, den, num2, den2
    <3>2. LET V == Gap(den, m, v)
          IN  /\ \/ /\ Over(num2, den2, m) = 3 * V + 7 * Over(num, den, m)
                    /\ Gap(den2, m, b) = 10 * Gap(den, m, b)
                 \/ /\ Over(num2, den2, m) = Over(num, den, m) /\ V = Over(num, den, m)
                    /\ Gap(den2, m, b) = Gap(den, m, b)
              /\ V \in Nat
              /\ v >= b => V >= Gap(den, m, b)
              /\ v > m => V > 0
      BY <1>0, <3>1, TurnsOver
    <3> QED BY <3>2, Zenon DEF v, num, den, num2, den2
  <2>5. X(i) \in Int /\ X(i + 1) \in Int /\ G(i) \in Nat /\ G(i + 1) \in Nat
    BY <1>1, <2>1
  <2> HIDE DEF X, G
  <2>6. 10 * X(i + 1) >= Covers(i + 1, p) * G(i + 1)
    <3>1. i + 1 # p => V >= G(i)
      BY <2>3, <2>4
    <3>2. 10 * X(i) >= Covers(i, p) * G(i)
      BY <1>4
    <3> DEFINE x == X(i)
               g == G(i)
               x2 == X(i + 1)
               g2 == G(i + 1)
    <3>3. /\ x \in Int /\ g \in Nat /\ x2 \in Int /\ g2 \in Int
          /\ \/ x2 = 3 * V + 7 * x /\ g2 = 10 * g
             \/ x2 = x /\ V = x /\ g2 = g
          /\ i + 1 # p => V >= g
          /\ 10 * x >= Covers(i, p) * g
      BY <2>4, <2>5, <3>1, <3>2
    <3> HIDE DEF x, g, x2, g2
    <3>4. 10 * x2 >= Covers(i + 1, p) * g2
      BY <2>1, <3>3, CoverGrows
    <3> QED BY <3>4 DEF x2, g2
  <2>7. X(i + 1) >= 0 /\ (q <= i + 1 => X(i + 1) > 0)
    <3>1. X(i) >= 0 /\ (q <= i => X(i) > 0) /\ (q = i + 1 => V > 0)
      BY <1>4, <2>3, <2>4
    <3> QED BY <2>4, <2>5, <3>1
  <2> QED BY <2>6, <2>7
<1>5. Good(n)
  <2>1. 0 \in Sound
    BY <1>3
  <2>2. ASSUME NEW k \in Nat, k \in Sound, (k + 1) + 1 <= n PROVE Good((k + 1) + 1)
    <3>1. k + 1 \in 1 .. 6 /\ k + 1 <= n
      BY <2>2
    <3> HIDE DEF Good
    <3> QED BY <1>4, <2>2, <3>1
  <2>3. \A k \in Nat : k \in Sound => k + 1 \in Sound
    <3> HIDE DEF Good
    <3> QED BY <2>2
  <2> HIDE DEF Sound
  <2>4. Nat \subseteq Sound
    BY <2>1, <2>3, ByInduction
  <2>5. n - 1 \in Sound /\ (n - 1) + 1 = n
    BY <2>4
  <2> HIDE DEF Good
  <2> QED BY <2>5 DEF Sound
<1>6. /\ X(n) \in Int /\ G(n) \in Nat /\ (m < b => G(n) > 0) /\ X(n) > 0
      /\ 10 * X(n) >= Covers(n, p) * G(n) /\ n \in 1 .. n
  <2>1. n \in 1 .. n /\ q <= n
    OBVIOUS
  <2> HIDE DEF X, G
  <2> QED BY <1>1, <1>5, <2>1
<1>7. Covers(n, p) \in Nat /\ Covers(n, p) >= n
  BY DEF Covers
<1>8. 10 * X(n) > (n - 1) * G(n)
  <2> DEFINE x == X(n)
             g == G(n)
             c == Covers(n, p)
  <2>1. x \in Int /\ g \in Nat /\ x > 0 /\ 10 * x >= c * g /\ c \in Nat /\ c >= n
    BY <1>6, <1>7
  <2> HIDE DEF x, g, c
  <2>2. c * g >= n * g
    BY <2>1
  <2>3. n * g = (n - 1) * g + g
    BY <2>1
  <2> DEFINE cg == c * g
             ng == n * g
             rest == (n - 1) * g
  <2>4. /\ cg \in Int /\ ng \in Int /\ rest \in Int /\ (g = 0 => rest = 0)
        /\ cg >= ng /\ ng = rest + g /\ 10 * x >= cg
    BY <2>1, <2>2, <2>3
  <2>5. x \in Int /\ g \in Nat /\ x > 0
    BY <2>1
  <2> HIDE DEF cg, ng, rest
  <2>6. 10 * x > rest
    BY <2>4, <2>5
  <2>7. 10 * x > (n - 1) * g
    BY <2>6 DEF rest
  <2> QED BY <2>7 DEF x, g
<1> QED BY <1>8

(* The tenth and the ninetieth percentile of up to seven values lie        *)
(* between the two lowest and between the two highest.                     *)
LEMMA TenthAndNinetieth ==
  ASSUME NEW values, NEW n \in 2 .. 7, n = Len(values),
         Ranked(values, n) \in Int, Ranked(values, n - 1) \in Int
  PROVE  /\ Percentile(values, 1)
              = 10 * Ranked(values, 1) + (n - 1) * (Ranked(values, 2) - Ranked(values, 1))
         /\ Percentile(values, 9)
              = 10 * Ranked(values, n) - (n - 1) * (Ranked(values, n) - Ranked(values, n - 1))
<1>0. ASSUME NEW k \in 2 .. n PROVE Min({k, n}) = k
  BY DEF Min
<1>1. Percentile(values, 1)
        = 10 * Ranked(values, 1) + (n - 1) * (Ranked(values, 2) - Ranked(values, 1))
  <2>1. /\ (1 * (n - 1)) \div 10 + 1 = 1 /\ (1 * (n - 1)) \div 10 + 2 = 2
        /\ (1 * (n - 1)) % 10 = n - 1
    <3>1. CASE n = 2
      BY <3>1
    <3>2. CASE n = 3
      BY <3>2
    <3>3. CASE n = 4
      BY <3>3
    <3>4. CASE n = 5
      BY <3>4
    <3>5. CASE n = 6
      BY <3>5
    <3>6. CASE n = 7
      BY <3>6
    <3>7. n = 2 \/ n = 3 \/ n = 4 \/ n = 5 \/ n = 6 \/ n = 7
      OBVIOUS
    <3> QED BY <3>1, <3>2, <3>3, <3>4, <3>5, <3>6, <3>7, Zenon
  <2>2. Min({(1 * (n - 1)) \div 10 + 2, n}) = 2
    BY <1>0, <2>1
  <2> QED BY <2>1, <2>2, Zenon DEF Percentile
<1>2. Percentile(values, 9)
        = 10 * Ranked(values, n - 1) + (11 - n) * (Ranked(values, n) - Ranked(values, n - 1))
  <2>1. /\ (9 * (n - 1)) \div 10 + 1 = n - 1 /\ (9 * (n - 1)) \div 10 + 2 = n
        /\ (9 * (n - 1)) % 10 = 11 - n
    <3>1. CASE n = 2
      BY <3>1
    <3>2. CASE n = 3
      BY <3>2
    <3>3. CASE n = 4
      BY <3>3
    <3>4. CASE n = 5
      BY <3>4
    <3>5. CASE n = 6
      BY <3>5
    <3>6. CASE n = 7
      BY <3>6
    <3>7. n = 2 \/ n = 3 \/ n = 4 \/ n = 5 \/ n = 6 \/ n = 7
      OBVIOUS
    <3> QED BY <3>1, <3>2, <3>3, <3>4, <3>5, <3>6, <3>7, Zenon
  <2>2. Min({(9 * (n - 1)) \div 10 + 2, n}) = n
    BY <1>0, <2>1
  <2> QED BY <2>1, <2>2, Zenon DEF Percentile
<1>3. \A x, y \in Int : 10 * y + (11 - n) * (x - y) = 10 * x - (n - 1) * (x - y)
  OBVIOUS
<1> QED BY <1>1, <1>2, <1>3

LEMMA BetweenTheEnds ==
  ASSUME NEW values \in Seq(Int), NEW n \in 2 .. 7, n = Len(values),
         NEW i \in 1 .. n, NEW j \in 1 .. n, values[i] # values[j],
         NEW N, NEW D, Averages(n, values, N, D)
  PROVE  /\ Percentile(values, 1) * D[n] < 10 * N[n]
         /\ 10 * N[n] < Percentile(values, 9) * D[n]
<1> DEFINE low == Ranked(values, 1)
           low2 == Ranked(values, 2)
           high == Ranked(values, n)
           high2 == Ranked(values, n - 1)
<1>1. /\ \A k \in 1 .. n : values[k] \in Int
      /\ \A k \in 1 .. n : N[k] \in Int /\ D[k] \in Int
      /\ \A k \in 1 .. n : D[k] \in Nat \ {0}
  <2>1. \A k \in 1 .. n : values[k] \in Int
    OBVIOUS
  <2> QED BY <2>1 DEF Averages
<1>2. N[n] \in Int /\ D[n] \in Int /\ n - 1 \in Int /\ n \in 1 .. n
  BY <1>1
<1>3. /\ low \in Int /\ low2 \in Int
      /\ \E p \in 1 .. n : LowEnd(n, values, low, low2, p)
  <2>1. /\ low \in Int /\ low2 \in Int /\ low <= low2
        /\ \E p \in 1 .. n : /\ values[p] = low
                             /\ \A k \in 1 .. n : values[k] >= low
                             /\ \A k \in (1 .. n) \ {p} : values[k] >= low2
    <3>1. n > 1
      OBVIOUS
    <3> QED BY <3>1, TheLow
  <2> HIDE DEF low, low2
  <2> QED BY <1>1, <2>1 DEF LowEnd
<1>4. /\ high \in Int /\ high2 \in Int
      /\ \E p \in 1 .. n : /\ values[p] = high /\ high2 <= high
                           /\ \A k \in 1 .. n : values[k] <= high
                           /\ \A k \in (1 .. n) \ {p} : values[k] <= high2
  <2>1. n > 1
    OBVIOUS
  <2> QED BY <2>1, TheHigh
<1>5. /\ Percentile(values, 1) = 10 * low + (n - 1) * (low2 - low)
      /\ Percentile(values, 9) = 10 * high - (n - 1) * (high - high2)
  BY <1>4, TenthAndNinetieth
<1> HIDE DEF low, low2, high, high2
<1>6. Percentile(values, 1) * D[n] < 10 * N[n]
  <2>1. PICK p \in 1 .. n : LowEnd(n, values, low, low2, p)
    BY <1>3
  <2>2. PICK q \in 1 .. n : values[q] # low
    OBVIOUS
  <2>4. 10 * Over(N[n], D[n], low) > (n - 1) * Gap(D[n], low, low2)
    BY <2>1, <2>2, AboveTheLow
  <2> DEFINE num == N[n]
             den == D[n]
             c == n - 1
  <2>5. num \in Int /\ den \in Int /\ c \in Int
    BY <1>2
  <2>6. 10 * (num - low * den) > c * ((low2 - low) * den)
    BY <2>4 DEF Over, Gap
  <2> HIDE DEF num, den, c
  <2>7. (10 * low + c * (low2 - low)) * den = 10 * (low * den) + c * ((low2 - low) * den)
    BY <1>3, <2>5
  <2> DEFINE x == low * den
             y == c * ((low2 - low) * den)
  <2>8. x \in Int /\ y \in Int /\ 10 * (num - x) > y
    BY <1>3, <2>5, <2>6
  <2>9. (10 * low + c * (low2 - low)) * den = 10 * x + y
    BY <2>7
  <2> HIDE DEF x, y
  <2>10. (10 * low + c * (low2 - low)) * den < 10 * num
    BY <2>5, <2>8, <2>9
  <2> QED BY <1>5, <2>10 DEF num, den, c
<1>7. 10 * N[n] < Percentile(values, 9) * D[n]
  <2> DEFINE w == [k \in 1 .. n |-> -values[k]]
             M == [k \in 1 .. n |-> -N[k]]
  <2>1. PICK p \in 1 .. n : /\ values[p] = high /\ high2 <= high
                            /\ \A k \in 1 .. n : values[k] <= high
                            /\ \A k \in (1 .. n) \ {p} : values[k] <= high2
    BY <1>4
  <2>2. \A k \in 1 .. n : /\ w[k] = -values[k] /\ M[k] = -N[k]
                          /\ w[k] \in Int /\ M[k] \in Int
    BY <1>1
  <2> HIDE DEF w, M
  <2>3. LowEnd(n, w, -high, -high2, p)
    BY <1>1, <1>4, <2>1, <2>2 DEF LowEnd
  <2>4. PICK q \in 1 .. n : w[q] # -high
    <3>1. PICK q \in 1 .. n : values[q] # high
      OBVIOUS
    <3>2. w[q] # -high
      BY <1>1, <1>4, <2>2, <3>1
    <3> QED BY <3>2
  <2>5. Averages(n, w, M, D)
    <3>1. ASSUME NEW k \in 2 .. n PROVE Turn(w[k], M[k - 1], D[k - 1], M[k], D[k])
      <4>1. k \in 1 .. n /\ k - 1 \in 1 .. n
        BY <3>1
      <4>2. Turn(values[k], N[k - 1], D[k - 1], N[k], D[k])
        BY DEF Averages
      <4> DEFINE v == values[k]
                 a == N[k - 1]
                 d == D[k - 1]
                 a2 == N[k]
                 d2 == D[k]
      <4>3. v \in Int /\ a \in Int /\ d \in Int /\ a2 \in Int /\ Turn(v, a, d, a2, d2)
        BY <1>1, <4>1, <4>2
      <4>4. w[k] = -v /\ M[k - 1] = -a /\ M[k] = -a2
        BY <2>2, <4>1
      <4> HIDE DEF v, a, d, a2, d2
      <4>5. (-v) * d = -(v * d) /\ v * d \in Int
        BY <4>3
      <4>6. Turn(-v, -a, d, -a2, d2)
        BY <4>3, <4>5 DEF Turn
      <4> QED BY <4>4, <4>6 DEF d, d2
    <3>2. M[1] = w[1] /\ D[1] = 1
      <4>1. 1 \in 1 .. n
        OBVIOUS
      <4> QED BY <2>2, <4>1 DEF Averages
    <3> QED BY <1>1, <2>2, <3>1, <3>2 DEF Averages
  <2>6. 10 * Over(M[n], D[n], -high) > (n - 1) * Gap(D[n], -high, -high2)
    BY <2>3, <2>4, <2>5, AboveTheLow
  <2> DEFINE num == N[n]
             den == D[n]
             c == n - 1
  <2>7. num \in Int /\ den \in Int /\ c \in Int /\ M[n] = -num
    BY <1>2, <2>2
  <2>8. 10 * ((-num) - (-high) * den) > c * (((-high2) - (-high)) * den)
    BY <2>6, <2>7 DEF Over, Gap
  <2> HIDE DEF num, den, c
  <2>9. (10 * high - c * (high - high2)) * den = 10 * (high * den) - c * ((high - high2) * den)
    BY <1>4, <2>7
  <2> DEFINE x == high * den
             y == c * ((high - high2) * den)
  <2>10. x \in Int /\ y \in Int /\ (-high) * den = -x
         /\ c * (((-high2) - (-high)) * den) = y
    BY <1>4, <2>7
  <2>11. (10 * high - c * (high - high2)) * den = 10 * x - y
    BY <2>9
  <2> HIDE DEF x, y
  <2>12. 10 * ((-num) - (-x)) > y
    BY <2>8, <2>10
  <2>13. 10 * num < (10 * high - c * (high - high2)) * den
    BY <2>7, <2>10, <2>11, <2>12
  <2> QED BY <1>5, <2>13 DEF num, den, c
<1> QED BY <1>6, <1>7

LEMMA InsideUnlessEqual ==
  ASSUME NEW values \in Seq(Int), Len(values) \in 2 .. 7,
         NEW i \in 1 .. Len(values), NEW j \in 1 .. Len(values), values[i] # values[j]
  PROVE  Inside(values)
<1> DEFINE n == Len(values)
<1>1. n > 0
  OBVIOUS
<1>2. PICK N, D : /\ Averages(n, values, N, D)
                  /\ Average(values).num = N[n] /\ Average(values).den = D[n]
  BY <1>1, AverageTurns, Zenon
<1>3. n \in 2 .. 7 /\ i \in 1 .. n /\ j \in 1 .. n
  OBVIOUS
<1> HIDE DEF n
<1>4. /\ Percentile(values, 1) * D[n] < 10 * N[n]
      /\ 10 * N[n] < Percentile(values, 9) * D[n]
  BY <1>2, <1>3, BetweenTheEnds DEF n
<1> QED BY <1>2, <1>4, Zenon DEF Inside

-----------------------------------------------------------------------------
(* The tier of an estimate                                                 *)

(* Up to seven samples that are too uneven for a warm band are all equal.  *)
LEMMA UnevenIsEqual ==
  ASSUME NEW values \in Seq(Int), Len(values) < 8,
         NEW tier \in Tiers(values), tier # Source(Len(values))
  PROVE  /\ Source(Len(values)) = "warm"
         /\ \A i, j \in DOMAIN values : values[i] = values[j]
<1> DEFINE n == Len(values)
<1>1. n \in Nat /\ DOMAIN values = 1 .. n /\ WarmFrom \in Nat \ {0}
  BY EstimatesAssumption
<1>2. n # 0 /\ ~(n < WarmFrom)
  BY DEF Tiers, Source
<1>3. Source(n) = "warm"
  BY <1>2 DEF Source
<1>4. ~Inside(values)
  <2>1. tier \in {"warm", "cold_start"} /\ (tier = "cold_start" => ~Inside(values))
    BY <1>2 DEF Tiers
  <2> QED BY <1>3, <2>1
<1>5. ASSUME NEW i \in 1 .. n, NEW j \in 1 .. n PROVE values[i] = values[j]
  <2>1. CASE n = 1
    BY <2>1
  <2>2. CASE n # 1
    <3>1. n \in 2 .. 7
      <4>1. n \in Nat /\ n < 8 /\ n # 0 /\ n # 1
        BY <1>1, <1>2, <2>2
      <4> HIDE DEF n
      <4> QED BY <4>1
    <3> QED BY <1>4, <3>1, InsideUnlessEqual
  <2> QED BY <2>1, <2>2
<1> QED BY <1>1, <1>3, <1>5

LEMMA SamplesAreIntegers ==
  ASSUME NEW l \in Seq(Event), NEW model
  PROVE  SamplesOf(l, model) \in Seq(Int)
<1> DEFINE places == {i \in DOMAIN l : /\ l[i].type = "milestone_completed"
                                       /\ l[i].model = model /\ ~l[i].old}
           recent == Chosen(l, places)
<1>1. recent \in Seq({l[i] : i \in places \cap (1 .. Len(l))})
  <2> HIDE DEF places
  <2> QED BY ChosenAreThere
<1>2. {l[i] : i \in places \cap (1 .. Len(l))} \subseteq Event
  <2> SUFFICES ASSUME NEW i \in 1 .. Len(l) PROVE l[i] \in Event
    BY Zenon
  <2> QED OBVIOUS
<1>3. recent \in Seq(Event)
  <2> HIDE DEF recent
  <2> QED BY <1>1, <1>2, SeqMonotonic
<1>4. SamplesOf(l, model) = [i \in DOMAIN recent |-> Scaled(recent[i].cost)]
  BY DEF SamplesOf
<1> HIDE DEF recent
<1>5. \A i \in 1 .. Len(recent) : Scaled(recent[i].cost) \in Int
  <2>1. \A e \in Event : Scaled(e.cost) \in Int
    <3>1. \A e \in Event : e.cost \in Nat
      BY DEF Event
    <3> QED BY <3>1, ScaledIsInteger
  <2> QED BY <1>3, <2>1
<1> QED BY <1>3, <1>4, <1>5

(* What an estimate says is about the samples that are in the telemetry,   *)
(* to which nothing is added before the next run begins.                   *)
Banded ==
  estimate # None =>
    /\ at = "idle"
    /\ estimate.tier \in Tiers(SamplesOf(log, options.model))
    /\ estimate.source = Source(Len(SamplesOf(log, options.model)))

LEMMA BandedStep == Silent /\ Banded /\ [Next]_vars => Banded'
<1> SUFFICES ASSUME Silent, Banded, [Next]_vars PROVE Banded'
  OBVIOUS
<1>1. CASE EndRun
  <2>1. at' = "idle" /\ estimate = None /\ UNCHANGED <<log, options>>
    BY <1>1 DEF EndRun, Silent
  <2> DEFINE samples == SamplesOf(log, options.model)
  <2>2. \/ estimate' = None
        \/ \E tier \in Tiers(samples) :
             estimate' = [samples |-> Len(samples), tier |-> tier,
                          source |-> Source(Len(samples)), actual |-> state.spent]
    BY <1>1, <2>1 DEF EndRun, EmitEstimateCalibrated
  <2>3. SamplesOf(log', options'.model) = samples
    BY <2>1
  <2> HIDE DEF samples
  <2>4. estimate' # None => /\ estimate'.tier \in Tiers(samples)
                            /\ estimate'.source = Source(Len(samples))
    BY <2>2
  <2> QED BY <2>1, <2>3, <2>4 DEF Banded
<1>2. CASE UNCHANGED <<log, at, options, estimate>>
  BY <1>2 DEF Banded
<1>3. CASE estimate' = None
  BY <1>3 DEF Banded
<1>4. CASE at # "idle" /\ UNCHANGED estimate
  BY <1>3, <1>4 DEF Silent
<1> QED
  BY <1>1, <1>2, <1>3, <1>4
     DEF Next, StartRun, Skip, StartMilestone, Retry, GiveUp, CompleteMilestone, RunPhase,
         FailPhase, Crash, forecasts, vars

(* However seven milestones or fewer are spread and ordered, an estimate   *)
(* that is said to be warm comes from the default table only when they are *)
(* all alike.                                                              *)
THEOREM WarmHolds == Spec => []WarmHoldsBelowEight
<1>1. Init => TypeOK /\ Calibrating /\ Banded
  BY TypeInitial, CalibratingInitial DEF Init, Banded
<1>2. TypeOK /\ Calibrating /\ Banded /\ [Next]_vars => (TypeOK /\ Calibrating /\ Banded)'
  BY TypeStep, CalibratingStep, BandedStep DEF Calibrating
<1>3. TypeOK /\ Banded => WarmHoldsBelowEight
  <2> SUFFICES ASSUME TypeOK, Banded, estimate # None, estimate.tier # estimate.source,
                      NEW samples, samples = SamplesOf(log, options.model)
               PROVE  /\ estimate.source = "warm"
                      /\ \/ Len(samples) >= 8
                         \/ \A i, j \in DOMAIN samples : samples[i] = samples[j]
    BY DEF WarmHoldsBelowEight
  <2>1. samples \in Seq(Int)
    BY SamplesAreIntegers DEF TypeOK
  <2>2. estimate.tier \in Tiers(samples) /\ estimate.source = Source(Len(samples))
    BY DEF Banded
  <2>3. CASE Len(samples) < 8
    BY <2>1, <2>2, <2>3, UnevenIsEqual
  <2>4. CASE ~(Len(samples) < 8)
    <3>1. estimate.source = "warm"
      <4>1. Len(samples) # 0 /\ ~(Len(samples) < WarmFrom)
        BY <2>2 DEF Tiers, Source
      <4> QED BY <2>2, <4>1 DEF Source
    <3>2. Len(samples) >= 8
      BY <2>1, <2>4
    <3> QED BY <3>1, <3>2
  <2> QED BY <2>3, <2>4
<1> QED BY <1>1, <1>2, <1>3, PTL DEF Spec
=============================================================================
