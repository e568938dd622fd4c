---------------------------- MODULE FailureTriage ----------------------------
(***************************************************************************)
(* failure_triage.py: the class of a failed milestone, from the telemetry  *)
(* and the audit trail of its run.                                         *)
(*                                                                         *)
(* A signal is an event or an audit entry that the predicate of some rule  *)
(* accepts, [type, run, milestone]; the milestone is NoMilestone when the  *)
(* event has no field of that name.  An anchor is a MilestoneFailed,       *)
(* [run, milestone, reason]; its reason only matters as far as the rules   *)
(* match it.  Which signals are told apart by type, not by their detail.   *)
(***************************************************************************)
EXTENDS Naturals, Sequences, FiniteSetsExt

CONSTANT NoMilestone

(* The rules: what they accept, and whether their confidence is at least   *)
(* 0.7.  First what the user's limits and the work tree decide; no code    *)
(* emits worktree_merged or plugin_vetoed.                                 *)
LimitRules == <<
  [class |-> "cost_ceiling_blocked", sure |-> TRUE,
   accepts |-> {"cost_ceiling_blocked", "CEILING_BLOCK"}],
  [class |-> "budget_exceeded", sure |-> TRUE, accepts |-> {"budget_alert_100"}],
  [class |-> "merge_conflict", sure |-> TRUE, accepts |-> {"worktree_merged"}],
  [class |-> "plugin_veto", sure |-> TRUE, accepts |-> {"plugin_vetoed"}]
>>

(* The checks of the milestone.                                            *)
CheckRules == <<
  [class |-> "policy_violation", sure |-> TRUE, accepts |-> {"POLICY_VIOLATION"}],
  [class |-> "coverage_below_threshold", sure |-> TRUE, accepts |-> {"coverage_result"}],
  [class |-> "quality_gate_fail", sure |-> TRUE, accepts |-> {"quality_gate_result"}]
>>

(* The claude calls; a match of the error message alone is less sure.      *)
CallRules == <<
  [class |-> "claude_subprocess_timeout", sure |-> TRUE,
   accepts |-> {"claude_timeout", "reason_timeout"}],
  [class |-> "claude_subprocess_error", sure |-> TRUE, accepts |-> {"claude_error"}],
  [class |-> "claude_subprocess_error", sure |-> FALSE, accepts |-> {"reason_error"}]
>>

(* The reviews; no strict_mode_iteration names the maximum that its rule   *)
(* asks for.                                                               *)
ReviewRules == <<
  [class |-> "strict_mode_non_converge", sure |-> TRUE,
   accepts |-> {"strict_mode_iteration"}],
  [class |-> "spec_feature_gap", sure |-> TRUE,
   accepts |-> {"spec_compliance_completed", "feature_verification_completed"}],
  [class |-> "gap_non_converge", sure |-> TRUE, accepts |-> {"gap_report"}],
  [class |-> "ci_fix_fail", sure |-> TRUE, accepts |-> {"reason_ci_fix", "step_ci_fix"}]
>>

(* RULES, in the order of registration.                                    *)
Rules == LimitRules \o CheckRules \o CallRules \o ReviewRules

Unknown == [class |-> "unknown", sure |-> FALSE]

(* A mutated form of InBundle: signals of earlier runs count as well.      *)
InBundleOfAnyRun(signal, anchor) == signal.milestone \in {NoMilestone, anchor.milestone}

(* The signals of the anchor's run that are not of another milestone.  An  *)
(* audit entry is in the bundle only while its number does not exceed that *)
(* of the anchor among the telemetry events (triage_hook.py:79, 99), which *)
(* a project whose trail is the longer one may miss: the triage then sees  *)
(* what it sees of an attempt that left one signal less.                   *)
InBundle(signal, anchor) ==
  /\ signal.run = anchor.run
  /\ signal.milestone \in {NoMilestone, anchor.milestone}

(* The types that the rules see: those of the bundle and of the anchor.    *)
Seen(signals, anchor) ==
  {s.type : s \in {t \in signals : InBundle(t, anchor)}} \cup anchor.reason

(* classify_failure: the first rule with a match wins.                     *)
Classify(signals, anchor) ==
  LET seen     == Seen(signals, anchor)
      matching == {i \in DOMAIN Rules : Rules[i].accepts \cap seen # {}}
  IN  IF matching = {} THEN Unknown
      ELSE [class |-> Rules[Min(matching)].class, sure |-> Rules[Min(matching)].sure]
=============================================================================
