--------------------------- MODULE CircuitBreaker ---------------------------
(***************************************************************************)
(* circuit_breaker.py: given the window of the latest failures and a new   *)
(* one, does the run stop before the next milestone?                       *)
(*                                                                         *)
(* An entry is [class |-> its failure class or "" without a triage,        *)
(* sure |-> whether the confidence reaches the confidence floor].          *)
(***************************************************************************)
EXTENDS Naturals, Sequences, SequencesExt, FiniteSetsExt

CONSTANTS
  BreakerMode,         \* "off", "observe" or "enforce"
  DiversityWindow,     \* diversity_window
  DiversityThreshold   \* diversity_threshold

ASSUME BreakerAssumption ==
  /\ BreakerMode \in {"off", "observe", "enforce"}
  /\ DiversityWindow \in Nat \ {0} /\ DiversityThreshold \in Nat \ {0}

Deterministic == {"policy_violation", "coverage_below_threshold", "cost_ceiling_blocked",
                  "budget_exceeded", "strict_mode_non_converge", "merge_conflict",
                  "spec_feature_gap", "quality_gate_fail", "plugin_veto", "ci_fix_fail"}

Threshold(class) == IF class \in Deterministic THEN 2 ELSE 3

LastOf(window, n) == SubSeq(window, (IF n < Len(window) THEN Len(window) - n + 1 ELSE 1),
                            Len(window))

AllSure(window, class) == \A i \in DOMAIN window : window[i].class = class /\ window[i].sure

(* A mutated form of Streak: others in between do not end the streak.      *)
StreakWithGaps(window, class) ==
  Cardinality({i \in DOMAIN window : window[i].class = class /\ window[i].sure})

(* _count_consecutive_same_class.                                          *)
Streak(window, class) ==
  Max({n \in 0 .. Len(window) : AllSure(LastOf(window, n), class)})

(* A mutated form of SameClass: one failure too late.                      *)
SameClassLate(window, entry) ==
  /\ entry.class \notin {"", "unknown"}
  /\ Streak(Append(window, entry), entry.class) > Threshold(entry.class)

SameClass(window, entry) ==
  /\ entry.class \notin {"", "unknown"}
  /\ Streak(Append(window, entry), entry.class) >= Threshold(entry.class)

(* Every entry is a failure, so that their number is all that counts.      *)
Diversity(window, entry) ==
  Len(LastOf(Append(window, entry), DiversityWindow)) >= DiversityThreshold

(* The rule that matches, the same-class rule first.                       *)
RuleMatched(window, entry) ==
  CASE SameClass(window, entry) -> "same_class_repeat"
    [] ~SameClass(window, entry) /\ Diversity(window, entry) -> "diversity_overflow"
    [] OTHER -> "none"

(* What the orchestrator keeps of the window.                              *)
Remembered(window, entry) == LastOf(Append(window, entry), DiversityWindow)
=============================================================================
