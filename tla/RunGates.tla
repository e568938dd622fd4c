------------------------------ MODULE RunGates ------------------------------
(***************************************************************************)
(* The gates between the steps of a run, across the runs of a project: the *)
(* cost ceilings before the run, each milestone and each retry, and the    *)
(* circuit breaker after each failed milestone.  Ceilings read what        *)
(* earlier runs reported to the telemetry; the breaker reads the triage of *)
(* this one's failure and the window of failures in the state file.        *)
(*                                                                         *)
(* Runs follow one another (WorkflowLock), dependencies are MilestoneLoop's*)
(* matter, selections are those of --to, and an attempt at a milestone is  *)
(* one step.  `sw budget reset` and `sw breaker reset` come at any time:   *)
(* they take no lock.                                                      *)
(***************************************************************************)
EXTENDS CostCeilings, CircuitBreaker, FailureTriage

CONSTANTS
  Milestones,   \* how many milestones workflow.json has
  Attempts,     \* max_retries + 1
  MaxTotal,     \* max_total_budget_usd
  Estimate,     \* the projected total of the run_start gate
  Costs,        \* what an attempt may cost
  Signals,      \* what a failed attempt may leave in the telemetry: sets of types
  Bypasses,     \* may --ignore-ceiling be given, with its environment variable?
  UpTo,         \* what --to may name: milestones, by their number
  Reasons,      \* what its error message may match: sets of types
  TriageFails,  \* may the best-effort triage of a failure come to nothing?
  NoCopy,       \* no state loaded
  MaxResets,    \* bound: the reset commands
  MaxRuns,      \* bound: the runs
  Horizon       \* bound: the clock

Names == 1 .. Milestones

ASSUME GatesAssumption ==
  /\ Milestones \in Nat /\ Attempts \in Nat \ {0} /\ MaxTotal \in Nat \ {0}
  /\ Estimate \in Nat /\ Costs \subseteq Nat
  /\ Bypasses \subseteq BOOLEAN /\ UpTo \subseteq Names /\ TriageFails \subseteq BOOLEAN
  /\ MaxResets \in Nat /\ MaxRuns \in Nat /\ Horizon \in Nat \ {0}
  /\ NoMilestone \notin Names

VARIABLES
  now,          \* the clock
  ledger,       \* the RunCompleted events
  log,          \* the signals that the rules of the triage look at
  triaged,      \* the last FailureTriaged of each milestone, NoTriage before;
                \* with the reason of its MilestoneFailed
  checkpoints,  \* cost_ceilings.reset_checkpoints
  file,         \* workflow-state.json
  mem,          \* the run's self.state
  cli,          \* the copy of it that `sw breaker reset` has loaded
  resets,       \* how many reset commands have been given
  run,          \* the number of the run
  at,           \* where it is
  current,      \* its milestone
  attempt,      \* its attempt at it
  projected,    \* per_ms_proj
  options,      \* its command line: an authorised --ignore-ceiling, --to
  charged,      \* ghost: what was charged at each time
  reported,     \* ghost: that, when a run last reported its total
  history,      \* ghost: the failures the breaker was told of since its reset
  failures,     \* ghost: those of this run
  matched,      \* ghost: the rule the breaker matched last in this run
  lost,         \* ghost: a run ended before it saved its window, or went on
                \* through a reset of it
  clobbered     \* ghost: a reset wrote an older state over a newer one

runVars   == <<run, at, current, attempt, projected, options>>
telemetry == <<ledger, log, triaged>>
spending  == <<charged, reported>>
breaking  == <<history, failures, matched, lost>>
vars == <<now, telemetry, checkpoints, file, mem, cli, resets, runVars, spending,
          breaking, clobbered>>

Class   == Deterministic \cup {Rules[i].class : i \in DOMAIN Rules} \cup {"unknown", ""}
Entry   == [class : Class, sure : BOOLEAN]
Triages == [class : Class, sure : BOOLEAN, run : 0 .. MaxRuns, reason : Reasons \cup {{}}]
NoTriage == [class |-> "", sure |-> FALSE, run |-> 0, reason |-> {}]
State   == [completed : SUBSET Names, failed : SUBSET Names, total : Nat,
            window : Seq(Entry)]
Fraction == [num : Nat, den : Nat \ {0}]
Option  == [ignore : BOOLEAN, to : Names \cup {0}]
Report  == [at : 1 .. Horizon, cost : Nat]
Idle    == "idle"
Points  == {Idle, "loop", "attempt", "retry", "failing", "breaker", "record",
            "completing"}

TelemetryTyped ==
  /\ ledger \in Seq(Report)
  /\ \A s \in log : s.run \in 1 .. MaxRuns /\ s.milestone \in Names \cup {NoMilestone}
  /\ triaged \in [Names -> Triages]

StateTyped ==
  /\ checkpoints \in [Keys -> 0 .. Horizon]
  /\ file \in State /\ mem \in State
  /\ Len(file.window) <= DiversityWindow /\ Len(mem.window) <= DiversityWindow
  /\ cli = NoCopy \/ cli \in State
  /\ resets \in 0 .. MaxResets

RunTyped ==
  /\ now \in 1 .. Horizon
  /\ run \in 0 .. MaxRuns /\ at \in Points /\ (at # Idle => run > 0)
  /\ current \in 1 .. Milestones + 1 /\ attempt \in 1 .. Attempts
  /\ at \in {"attempt", "retry", "failing", "breaker", "record"} => current \in Names
  /\ projected \in Fraction /\ options \in Option

GhostsTyped ==
  /\ charged \in [1 .. Horizon -> Nat] /\ reported \in [1 .. Horizon -> Nat]
  /\ history \in Seq(Entry) /\ failures \in Seq(Entry)
  /\ matched \in {"none", "same_class_repeat", "diversity_overflow"}
  /\ lost \in BOOLEAN /\ clobbered \in BOOLEAN

TypeOK == TelemetryTyped /\ StateTyped /\ RunTyped /\ GhostsTyped

Fresh == [completed |-> {}, failed |-> {}, total |-> 0, window |-> <<>>]

Init ==
  /\ now = 1
  /\ ledger = <<>> /\ log = {} /\ triaged = [m \in Names |-> NoTriage]
  /\ checkpoints = [k \in Keys |-> 0]
  /\ file = Fresh /\ mem = Fresh /\ cli = NoCopy /\ resets = 0
  /\ run = 0 /\ at = Idle /\ current = 1 /\ attempt = 1
  /\ projected = [num |-> 0, den |-> 1]
  /\ options = [ignore |-> FALSE, to |-> 0]
  /\ charged = [t \in 1 .. Horizon |-> 0] /\ reported = charged
  /\ history = <<>> /\ failures = <<>> /\ matched = "none"
  /\ lost = FALSE /\ clobbered = FALSE

Move(from, to) == at = from /\ at' = to

(* The run's process is gone, with what it had not saved.                  *)
LeaveIdle(state) == /\ at' = Idle
                    /\ lost' = (lost \/ state.window # file.window)

-----------------------------------------------------------------------------
(* The cost ceilings                                                       *)

(* A bypass only counts with the environment variable: the orchestrator    *)
(* passes stdin_is_tty=False, whatever was confirmed at the prompt.        *)
Authorized == options.ignore

(* _check_cost_ceilings: a block is written to the telemetry, bypassed or  *)
(* not, and the event names its milestone in a field of another name.      *)
Gate(number, cost, pass, stop) ==
  IF Blocked(ledger, now, checkpoints, cost)
  THEN /\ log' = log \cup {[type |-> "cost_ceiling_blocked", run |-> number,
                            milestone |-> NoMilestone]}
       /\ IF Authorized' THEN pass ELSE stop
  ELSE pass /\ UNCHANGED log

(* The run loads the state and passes the run_start gate, or not.          *)
StartRun(ignoring, to) ==
  /\ at = Idle /\ run < MaxRuns
  /\ run' = run + 1 /\ mem' = file
  /\ options' = [ignore |-> ignoring, to |-> to]
  /\ failures' = <<>> /\ matched' = "none"
  /\ Gate(run + 1, [num |-> Estimate, den |-> 1],
          at' = "loop" /\ current' = 1, UNCHANGED <<at, current>>)
  /\ UNCHANGED <<now, ledger, triaged, checkpoints, file, cli, resets, attempt,
                 projected, spending, history, lost, clobbered>>

(* A milestone that has an outcome already.                                *)
PassOver ==
  /\ at = "loop" /\ current \in 1 .. options.to
  /\ current \in mem.completed \cup mem.failed
  /\ current' = current + 1
  /\ UNCHANGED <<now, telemetry, checkpoints, file, mem, cli, resets, run, at,
                 attempt, projected, options, spending, breaking, clobbered>>

Due == at = "loop" /\ current \in (1 .. options.to) \ (mem.completed \cup mem.failed)

(* The loop is over, or the budget of the run spent.                       *)
EndLoop ==
  /\ current = options.to + 1 \/ (Due /\ mem.total >= MaxTotal)
  /\ Move("loop", "completing")
  /\ UNCHANGED <<now, telemetry, checkpoints, file, mem, cli, resets, run, current,
                 attempt, projected, options, spending, breaking, clobbered>>

Remaining(total) ==
  [num |-> IF Estimate > total THEN Estimate - total ELSE 0,
   den |-> options.to - current + 1]

(* The milestone_start gate.                                               *)
StartMilestone ==
  /\ Due /\ mem.total < MaxTotal
  /\ projected' = Remaining(mem.total)
  /\ attempt' = 1
  /\ UNCHANGED options
  /\ Gate(run, Remaining(mem.total), at' = "attempt" /\ UNCHANGED lost, LeaveIdle(mem))
  /\ UNCHANGED <<now, ledger, triaged, checkpoints, file, mem, cli, resets, run,
                 current, spending, history, failures, matched, clobbered>>

(* The phase_e_retry gate, with the projection of the first attempt.       *)
Retry ==
  /\ at = "retry" /\ attempt < Attempts
  /\ attempt' = attempt + 1
  /\ UNCHANGED options
  /\ Gate(run, projected, at' = "attempt" /\ UNCHANGED lost, LeaveIdle(mem))
  /\ UNCHANGED <<now, ledger, triaged, checkpoints, file, mem, cli, resets, run,
                 current, projected, spending, history, failures, matched, clobbered>>

-----------------------------------------------------------------------------
(* One milestone                                                           *)

(* Every cost is added to the total and saved, with all of the state.      *)
Charge(cost) ==
  /\ mem' = [mem EXCEPT !.total = @ + cost]
  /\ file' = mem'
  /\ charged' = [charged EXCEPT ![now] = @ + cost]

Succeed(cost) ==
  /\ Move("attempt", "record")
  /\ Charge(cost)
  /\ UNCHANGED <<now, telemetry, checkpoints, cli, resets, run, current, attempt,
                 projected, options, reported, breaking, clobbered>>

(* The attempt fails and leaves its signals.                               *)
Fail(cost, types) ==
  /\ Move("attempt", "retry")
  /\ Charge(cost)
  /\ log' = log \cup {[type |-> t, run |-> run, milestone |-> current] : t \in types}
  /\ UNCHANGED <<now, ledger, triaged, checkpoints, cli, resets, run, current,
                 attempt, projected, options, reported, breaking, clobbered>>

Record ==
  /\ Move("record", "loop")
  /\ mem' = [mem EXCEPT !.completed = @ \cup {current}]
  /\ file' = mem'
  /\ current' = current + 1
  /\ UNCHANGED <<now, telemetry, checkpoints, cli, resets, run, attempt, projected,
                 options, spending, breaking, clobbered>>

(* The last attempt has failed: _triage_milestone_failure.                 *)
Triage(fails, reason) ==
  /\ attempt = Attempts
  /\ Move("retry", "failing")
  /\ LET anchor  == [run |-> run, milestone |-> current, reason |-> reason]
         failure == Classify(log, anchor)
     IN  triaged' = IF fails THEN triaged
                    ELSE [triaged EXCEPT ![current] = [class  |-> failure.class,
                                                       sure   |-> failure.sure,
                                                       run    |-> run,
                                                       reason |-> reason]]
  /\ UNCHANGED <<now, ledger, log, checkpoints, file, mem, cli, resets, run, current,
                 attempt, projected, options, spending, breaking, clobbered>>

RecordFailed ==
  /\ Move("failing", "breaker")
  /\ mem' = [mem EXCEPT !.failed = @ \cup {current}]
  /\ file' = mem'
  /\ UNCHANGED <<now, telemetry, checkpoints, cli, resets, run, current, attempt,
                 projected, options, spending, breaking, clobbered>>

-----------------------------------------------------------------------------
(* The circuit breaker                                                     *)

(* _evaluate_circuit_breaker, with the last triage of that milestone in    *)
(* the telemetry; the window is assigned, and saved by the next save.      *)
Evaluate ==
  LET entry == [class |-> triaged[current].class, sure |-> triaged[current].sure]
      rule  == RuleMatched(mem.window, entry)
  IN  /\ at = "breaker" /\ BreakerMode # "off"
      /\ mem' = [mem EXCEPT !.window = Remembered(@, entry)]
      /\ matched' = rule
      /\ IF rule # "none" /\ BreakerMode = "enforce"
         THEN at' = "completing" /\ UNCHANGED current
         ELSE at' = "loop" /\ current' = current + 1
      /\ history' = Append(history, entry) /\ failures' = Append(failures, entry)
      /\ UNCHANGED <<now, telemetry, checkpoints, file, cli, resets, run, attempt,
                     projected, options, spending, lost, clobbered>>

(* circuit_breaker.enabled is false: MilestoneLoop has the three strikes.  *)
NoBreaker ==
  /\ BreakerMode = "off"
  /\ Move("breaker", "loop")
  /\ current' = current + 1
  /\ UNCHANGED <<now, telemetry, checkpoints, file, mem, cli, resets, run, attempt,
                 projected, options, spending, breaking, clobbered>>

-----------------------------------------------------------------------------
(* The end of a run, and what happens around it                            *)

(* A mutated form of Complete: only a run without failures is reported.    *)
CompleteIfClean ==
  /\ at = "completing"
  /\ ledger' = IF mem.failed = {} THEN Append(ledger, [at |-> now, cost |-> mem.total])
               ELSE ledger
  /\ reported' = charged
  /\ LeaveIdle(mem)
  /\ UNCHANGED <<now, log, triaged, checkpoints, file, mem, cli, resets, run, current,
                 attempt, projected, options, charged, history, failures, matched,
                 clobbered>>

(* RunCompleted reports the total of the state, which is that of all runs. *)
Complete ==
  /\ at = "completing"
  /\ ledger' = Append(ledger, [at |-> now, cost |-> mem.total])
  /\ reported' = charged
  /\ LeaveIdle(mem)
  /\ UNCHANGED <<now, log, triaged, checkpoints, file, mem, cli, resets, run, current,
                 attempt, projected, options, charged, history, failures, matched,
                 clobbered>>

Crash ==
  /\ at # Idle
  /\ LeaveIdle(mem)
  /\ UNCHANGED <<now, telemetry, checkpoints, file, mem, cli, resets, run, current,
                 attempt, projected, options, spending, history, failures, matched,
                 clobbered>>

(* The clock is only read by the gates, the charges and RunCompleted.      *)
Tick ==
  /\ at \in {Idle, "attempt", "retry"}
  /\ now < Horizon /\ now' = now + 1
  /\ UNCHANGED <<telemetry, checkpoints, file, mem, cli, resets, runVars, spending,
                 breaking, clobbered>>

(* `sw budget reset --window w`: the key is the name of the window.        *)
BudgetReset(w) ==
  /\ resets < MaxResets /\ resets' = resets + 1
  /\ checkpoints' = [checkpoints EXCEPT ![w] = now]
  /\ UNCHANGED <<now, telemetry, file, mem, cli, runVars, spending, breaking,
                 clobbered>>

(* `sw breaker reset` loads the state ...                                  *)
LoadForReset ==
  /\ resets < MaxResets /\ resets' = resets + 1
  /\ cli = NoCopy /\ cli' = file
  /\ UNCHANGED <<now, telemetry, checkpoints, file, mem, runVars, spending, breaking,
                 clobbered>>

(* ... and saves its copy, with an empty window.                           *)
SaveReset ==
  /\ cli # NoCopy /\ cli' = NoCopy
  /\ file' = [cli EXCEPT !.window = <<>>]
  /\ clobbered' = (clobbered \/ cli # file)
  /\ history' = <<>>
  /\ lost' = (lost \/ at # Idle)
  /\ UNCHANGED <<now, telemetry, checkpoints, mem, resets, runVars, spending,
                 failures, matched>>

Step ==
  \/ \E ignoring \in Bypasses, to \in UpTo : StartRun(ignoring, to)
  \/ PassOver \/ EndLoop \/ StartMilestone \/ Retry
  \/ \E cost \in Costs : Succeed(cost) \/ \E types \in Signals : Fail(cost, types)
  \/ Record
  \/ \E fails \in TriageFails, reason \in Reasons : Triage(fails, reason)
  \/ RecordFailed \/ Evaluate \/ NoBreaker \/ Complete

Next ==
  \/ Step \/ Crash \/ Tick
  \/ (\E w \in Windows : BudgetReset(w)) \/ LoadForReset \/ SaveReset

Spec == Init /\ [][Next]_vars

-----------------------------------------------------------------------------
(* Properties                                                              *)

(* The charges in a window since its last `sw budget reset`, which writes  *)
(* its time under the name of the window.                                  *)
SpentIn(w, charges) ==
  SumFunctionOnSet(charges, {t \in 1 .. now : t + Duration[w] >= now /\ t > checkpoints[w]})

(* What was charged in a window since its last reset, and before a run     *)
(* last reported, is counted against that window, crashed and blocked runs *)
(* included.  It may count for more: RunCompleted reports the total of all *)
(* runs, so that the spend of a resumed run is reported again.  A `sw      *)
(* breaker reset` that writes an older total back is the exception.        *)
ReportedSpendIsCounted ==
  clobbered \/ \A w \in Windows :
    SpentIn(w, reported) <=
      WindowSpend(ledger, w, now, checkpoints[ConfigKeyByWindow[w]])

(* Without a bypass no attempt begins, be it a retry, once what was        *)
(* charged since the last reset, and reported, reaches a ceiling that      *)
(* blocks.                                                                 *)
AttemptsBelowCeiling ==
  [][at' = "attempt" /\ at # at' /\ ~options.ignore /\ ~clobbered =>
       \A w \in Windows : CeilingMode[w] = "block" /\ Ceiling[w] > 0 =>
         SpentIn(w, reported) < Ceiling[w]]_vars

(* docs/budget-ceilings.md:141-145 of `sw budget reset`: what completed at *)
(* or before the reset of a window is excluded from it.  So a window       *)
(* objects at the run_start gate only on account of a run that reported    *)
(* after its last reset.                                                   *)
ResetReopensGates ==
  \A w \in Windows :
    Exceeds(ledger, w, now, checkpoints[ConfigKeyByWindow[w]],
            [num |-> Estimate, den |-> 1]) =>
      \E i \in DOMAIN ledger : ledger[i].at > checkpoints[w]

(* What the rules could see of a milestone in the run that was triaged:    *)
(* the signals of it, or of no milestone, and its error message.           *)
EvidenceFor(m) ==
  triaged[m].reason \cup
    {s.type : s \in {t \in log : /\ t.run = triaged[m].run
                                /\ t.milestone \in {m, NoMilestone}}}

(* The class for which the same-class rule stops a run is that of a rule   *)
(* with evidence in the run that was triaged.                              *)
TripIsEvidenced ==
  BreakerMode = "enforce" /\ at = "completing" /\ matched = "same_class_repeat" =>
    \E i \in DOMAIN Rules : /\ Rules[i].class = triaged[current].class
                            /\ Rules[i].accepts \cap EvidenceFor(current) # {}

Repeated(seq, class) ==
  /\ Len(seq) >= Threshold(class)
  /\ \A i \in Len(seq) - Threshold(class) + 1 .. Len(seq) :
       seq[i].class = class /\ seq[i].sure

(* An enforcing breaker lets no milestone begin after a run of confident   *)
(* failures of one class in this run, nor after the threshold of all.      *)
RepeatsStopTheRun ==
  BreakerMode = "enforce" /\ at = "attempt" =>
    /\ Len(failures) < DiversityThreshold
    /\ \A class \in Class \ {"", "unknown"} : ~Repeated(failures, class)

(* The same-class rule matches only back-to-back confident failures of one *)
(* class, over all runs since the last reset, if none of them was lost.    *)
TripMeansRepeats ==
  matched = "same_class_repeat" /\ ~lost /\ history # <<>> =>
    Repeated(history, history[Len(history)].class)

=============================================================================
