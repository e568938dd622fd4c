----------------------------- MODULE Estimates -----------------------------
(***************************************************************************)
(* What a run computes from the telemetry of the runs before it:           *)
(*   drift.py        is the latest phase out of line with the earlier ones? *)
(*   calibration.py  what did milestones of this model cost?               *)
(*   projection.py   what is still to be paid for?                         *)
(*                                                                         *)
(* Amounts are integers.  Where the code takes log1p, Scaled stands for    *)
(* it: log2 (1 + cost), tenfold, straight between the powers of two.       *)
(* Bands and projections are compared and counted, never turned back into  *)
(* an amount of money.                                                     *)
(***************************************************************************)
EXTENDS Integers, SequencesExt, FiniteSetsExt

CONSTANTS
    Floor,      \* drift_detection.baseline_floor: 15
    SampleCap,  \* drift_detection.sample_cap: 200
    WarmFrom,   \* WARM_THRESHOLD: 5
    EmitInfo,   \* mode is not observation_only, or emit_info is set
    None        \* no value

ASSUME EstimatesAssumption ==
    /\ Floor \in Nat \ {0, 1} /\ SampleCap \in Nat \ {0} /\ WarmFrom \in Nat \ {0}
    /\ EmitInfo \in BOOLEAN

Powers == <<1, 2, 4, 8, 16, 32, 64, 128, 256, 512>>
Square(x) == x * x

Scaled(cost) ==
    LET k == Max({j \in 1..10 : Powers[j] <= cost + 1})
    IN  10 * (k - 1) + (10 * (cost + 1 - Powers[k])) \div Powers[k]

Total(values) ==
    LET upTo[i \in 0 .. Len(values)] == IF i = 0 THEN 0 ELSE upTo[i - 1] + values[i]
    IN  upTo[Len(values)]

(* What a sequence has at some of its places, in order.  (SelectSeq does   *)
(* this with a predicate, but TLAPS does not know what it is.)             *)
Chosen(seq, places) ==
    LET upTo[i \in 0 .. Len(seq)] ==
            IF i = 0 THEN <<>>
            ELSE IF i \in places THEN Append(upTo[i - 1], seq[i]) ELSE upTo[i - 1]
    IN  upTo[Len(seq)]

Latest(values, n) ==
    IF Len(values) <= n THEN values
    ELSE SubSeq(values, Len(values) - n + 1, Len(values))

-----------------------------------------------------------------------------
(* Drift                                                                   *)

Metrics == {"cost_usd", "cache_hit_rate"}
HigherIsWorse(metric) == metric = "cost_usd"

(* n times the distance of a value from the mean of n samples.             *)
Deviation(value, samples) == Len(samples) * value - Total(samples)

(* Is |z| >= sigmas, for a sigma of at least a twentieth of the mean?      *)
Reaches(value, samples, sigmas) ==
    LET n == Len(samples)
        d == Deviation(value, samples)
        sum == Total(samples)
        squares == Total([i \in 1..n |-> Square(samples[i])])
    IN  /\ d # 0
        /\ Square(d) * (n - 1) >= Square(sigmas) * (n * (n * squares - Square(sum)))
        /\ 400 * Square(d) >= Square(sigmas) * Square(sum)

BothWays(metric, value, samples) == Deviation(value, samples) # 0

(* A change for the better has no direction, and no severity.              *)
Worse(metric, value, samples) ==
    IF HigherIsWorse(metric) THEN Deviation(value, samples) > 0
                             ELSE Deviation(value, samples) < 0

Severities == {"ok", "info", "warn", "critical"}

Severity(metric, value, samples) ==
    IF Len(samples) < Floor \/ ~Worse(metric, value, samples) THEN "ok"
    ELSE IF Reaches(value, samples, 4) THEN "critical"
    ELSE IF Reaches(value, samples, 3) THEN "warn"
    ELSE IF Reaches(value, samples, 2) THEN "info" ELSE "ok"

Emitted(severity) ==
    severity \in {"warn", "critical"} \/ (EmitInfo /\ severity = "info")

(* load_samples_batched: what earlier runs report of a phase.  The bucket  *)
(* is named after the configured model, whichever model they ran with.     *)
Earlier(log, phase, run) ==
    Latest(Chosen(log, {i \in DOMAIN log : /\ log[i].type = "phase_completed"
                                          /\ log[i].phase = phase
                                          /\ log[i].run # run}), SampleCap)

Reported(metric, event) ==
    IF metric = "cost_usd" THEN Scaled(event.cost) ELSE event.hit

-----------------------------------------------------------------------------
(* Calibration                                                             *)

(* load_samples_by_model: not older than max_age_days, and of this model.  *)
SamplesOf(log, model) ==
    LET recent == Chosen(log, {i \in DOMAIN log : /\ log[i].type = "milestone_completed"
                                                 /\ log[i].model = model
                                                 /\ ~log[i].old})
    IN  [i \in DOMAIN recent |-> Scaled(recent[i].cost)]

(* The k-th smallest of the values.                                        *)
Ranked(values, k) ==
    CHOOSE v \in Range(values) :
        /\ Cardinality({i \in DOMAIN values : values[i] < v}) < k
        /\ k <= Cardinality({i \in DOMAIN values : values[i] <= v})

(* A mutated form of Percentile: nothing is interpolated.                   *)
PercentileBelow(values, tenths) ==
    10 * Ranked(values, (tenths * (Len(values) - 1)) \div 10 + 1)

(* Ten times the percentile, by linear interpolation.                      *)
Percentile(values, tenths) ==
    LET index == tenths * (Len(values) - 1)
        low == Ranked(values, index \div 10 + 1)
        high == Ranked(values, Min({index \div 10 + 2, Len(values)}))
    IN  10 * low + (index % 10) * (high - low)

(* The moving average as a fraction: 3/10 of the latest value each time,   *)
(* and nothing to do when that is the average already.                     *)
Average(values) ==
    LET After(avg, v) ==
            IF v * avg.den = avg.num THEN avg
            ELSE [num |-> 3 * v * avg.den + 7 * avg.num, den |-> 10 * avg.den]
        upTo[i \in 1 .. Len(values)] ==
            IF i = 1 THEN [num |-> values[1], den |-> 1] ELSE After(upTo[i - 1], values[i])
    IN  upTo[Len(values)]

(* Is the average between the ends of the band, or strictly so?            *)
Within(values) ==
    LET avg == Average(values)
    IN  /\ Percentile(values, 1) * avg.den <= 10 * avg.num
        /\ 10 * avg.num <= Percentile(values, 9) * avg.den

Inside(values) ==
    LET avg == Average(values)
    IN  /\ Percentile(values, 1) * avg.den < 10 * avg.num
        /\ 10 * avg.num < Percentile(values, 9) * avg.den

(* A warm band whose middle is not between its ends is thrown away.  Where *)
(* the average is one of the ends, rounding decides on which side of it    *)
(* the code finds it, unless they are 0.                                   *)
Tiers(values) ==
    IF Len(values) = 0 THEN {"cold_start"}
    ELSE IF Len(values) < WarmFrom THEN {"partial"}
    ELSE {tier \in {"warm", "cold_start"} :
             IF tier = "warm" THEN Within(values)
             ELSE ~Inside(values) /\ Average(values).num # 0}

(* What EstimateCalibrated says of it: the number of samples alone.        *)
Source(n) ==
    IF n = 0 THEN "cold_start" ELSE IF n < WarmFrom THEN "partial" ELSE "warm"

(* The median of the band is 0: no amount is predicted.                    *)
PredictsNothing(values) == Len(values) >= WarmFrom /\ Average(values).num = 0

-----------------------------------------------------------------------------
(* Projection                                                              *)

Usual == {"plan", "implement", "review", "push"}

(* load_phase_history: the latest ten that cost anything, of any run.      *)
History(log, phase) ==
    Latest(Chosen(log, {i \in DOMAIN log : /\ log[i].type = "phase_completed"
                                          /\ log[i].phase = phase
                                          /\ log[i].cost > 0}), 10)

(* The phases and the milestones that the projection adds to what has been *)
(* spent, and where it takes their prices from.                            *)
Nothing == [phases |-> {}, milestones |-> 0, source |-> "full_history"]

InHistory(samples, remaining) ==
    IF samples >= 10 * Cardinality(remaining) THEN "full_history" ELSE "partial_history"

FutureAll(remaining, left) == left

(* The milestone at work is one of those that have no outcome yet.         *)
Future(remaining, left) ==
    IF remaining # {} /\ left > 0 THEN left - 1 ELSE left

Project(log, remaining, milestones, outcomes) ==
    LET left == Max({0, milestones - outcomes})
        samples == MapThenSumSet(LAMBDA p : Len(History(log, p)), remaining \cup Usual)
    IN  IF milestones = 0 THEN [Nothing EXCEPT !.source = "cold_start"]
        ELSE IF remaining = {} /\ left = 0 THEN Nothing
        ELSE IF samples = 0
        THEN [phases |-> {}, milestones |-> left, source |-> "cold_start"]
        ELSE [phases |-> remaining, milestones |-> Future(remaining, left),
              source |-> InHistory(samples, remaining)]
=============================================================================
