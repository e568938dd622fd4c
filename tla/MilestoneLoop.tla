--------------------------- MODULE MilestoneLoop ---------------------------
(***************************************************************************)
(* The sequential run of the orchestrator: one `sw run` or `sw resume`     *)
(* walks the milestones of workflow.json in order, retries each a few      *)
(* times, and records outcomes and costs in workflow-state.json, from     *)
(* which the next run resumes.                                             *)
(*                                                                         *)
(* A run loads the state when its Orchestrator is constructed, before it   *)
(* takes the workflow lock; the lock is the one of LockSpec, which         *)
(* WorkflowLock details (given up by death).  Milestone k is the k-th of   *)
(* workflow.json.  Each phase is one step, whatever number of `claude -p`  *)
(* calls it makes: BudgetGate has the calls.                               *)
(***************************************************************************)
EXTENDS Naturals

CONSTANTS
  Runs,         \* the `sw run` and `sw resume` commands
  Nobody,       \* the workflow lock is free
  Milestones,   \* how many milestones workflow.json has
  Deps,         \* their depends_on: [1 .. Milestones -> SUBSET Nat]
  Filters,      \* the selections the commands may make: all, --milestone, --from
  MaxTotal,     \* max_total_budget_usd
  MaxCost,      \* the most one phase costs
  Attempts,     \* max_retries + 1
  Breaker,      \* circuit_breaker: "off", "observe" or "enforce"
  Ceilings,     \* may a cost ceiling block the run?
  Faults,       \* the faults that may happen: see Fault
  Overlap       \* may a run be constructed while another is under way?

Names == 1 .. Milestones
Fault == {"crash", "signal", "raise"}

ASSUME LoopAssumption ==
  /\ Milestones \in Nat /\ Attempts \in Nat \ {0}
  /\ MaxTotal \in Nat \ {0} /\ MaxCost \in Nat
  /\ Deps \in [Names -> SUBSET Nat]
  /\ Filters \subseteq SUBSET Names
  /\ Nobody \notin Runs
  /\ Breaker \in {"off", "observe", "enforce"}
  /\ Faults \subseteq Fault

VARIABLES
  disk,       \* workflow-state.json
  mem,        \* each run's self.state
  lock,       \* the holder of the workflow lock
  at,         \* where each run is
  want,       \* the milestones it was asked for
  current,    \* the milestone it is at
  phase,      \* the phase of that milestone
  attempt,    \* its attempt, from 1
  strikes,    \* consecutive_failures
  status,     \* the status in workflow-complete.json
  tried,      \* ghost: the milestones it started
  finished,   \* ghost: how often each milestone went through all phases
  unrecorded, \* ghost: those whose run ended before it recorded that
  announced   \* ghost: how often MilestoneCompleted was emitted for each

runVars == <<want, current, phase, attempt, strikes, status, tried>>
ghosts  == <<finished, unrecorded, announced>>
vars    == <<disk, mem, lock, at, runVars, ghosts>>

State == [completed : SUBSET Names, failed : SUBSET Names, skipped : SUBSET Names,
          total : Nat]

(* Phases A, B, trust-but-verify, C, D and E.  Only three of them look at  *)
(* the error flag of their claude result and raise _PhaseError.            *)
Plan      == 1
Implement == 2
Review    == 4
Ci        == 6
Phases  == 1 .. 6
Checked == {Plan, Implement, Review}

Locked == {"preflight", "starting", "loop", "phase", "retry", "failing", "striking",
           "record", "announce", "completing", "closing"}
Over   == {"refused", "blocked", "raised", "interrupted", "dead", "done"}
Points == {"new", "built"} \cup Locked \cup Over

TypeOK ==
  /\ disk \in State
  /\ mem \in [Runs -> State]
  /\ lock \in Runs \cup {Nobody}
  /\ at \in [Runs -> Points]
  /\ want \in [Runs -> SUBSET Names]
  /\ current \in [Runs -> 1 .. Milestones + 1]
  /\ phase \in [Runs -> Phases]
  /\ attempt \in [Runs -> 1 .. Attempts]
  /\ strikes \in [Runs -> Nat]
  /\ status \in [Runs -> {"none", "complete", "partial", "failed"}]
  /\ tried \in [Runs -> SUBSET Names]
  /\ finished \in [Names -> Nat] /\ announced \in [Names -> Nat]
  /\ unrecorded \subseteq Names
  /\ \A r \in Runs : at[r] \in Locked => lock = r
  /\ \A r \in Runs : at[r] \in Locked \ {"preflight", "starting", "loop", "completing",
                                         "closing"} => current[r] \in want[r]

Fresh == [completed |-> {}, failed |-> {}, skipped |-> {}, total |-> 0]

Init ==
  /\ disk = Fresh
  /\ mem = [r \in Runs |-> Fresh]
  /\ lock = Nobody
  /\ at = [r \in Runs |-> "new"]
  /\ want = [r \in Runs |-> {}]
  /\ current = [r \in Runs |-> 1]
  /\ phase = [r \in Runs |-> Plan]
  /\ attempt = [r \in Runs |-> 1]
  /\ strikes = [r \in Runs |-> 0]
  /\ status = [r \in Runs |-> "none"]
  /\ tried = [r \in Runs |-> {}]
  /\ finished = [m \in Names |-> 0] /\ announced = [m \in Names |-> 0]
  /\ unrecorded = {}

Move(r, from, to) == at[r] = from /\ at' = [at EXCEPT ![r] = to]

(* Change the state in memory and save it.                                 *)
Save(r, state) == mem' = [mem EXCEPT ![r] = state] /\ disk' = state

-----------------------------------------------------------------------------
(* Before the loop                                                         *)

(* A mutated form of Construct: every run starts from an empty state.      *)
ConstructFresh(r) ==
  /\ Overlap \/ \A q \in Runs : at[q] \in Over \cup {"new"}
  /\ Move(r, "new", "built")
  /\ mem' = [mem EXCEPT ![r] = Fresh]
  /\ \E selection \in Filters : want' = [want EXCEPT ![r] = selection]
  /\ UNCHANGED <<disk, lock, current, phase, attempt, strikes, status, tried, ghosts>>

(* Orchestrator.__init__ loads the state; nothing is locked yet.           *)
Construct(r) ==
  /\ Overlap \/ \A q \in Runs : at[q] \in Over \cup {"new"}
  /\ Move(r, "new", "built")
  /\ mem' = [mem EXCEPT ![r] = disk]
  /\ \E selection \in Filters : want' = [want EXCEPT ![r] = selection]
  /\ UNCHANGED <<disk, lock, current, phase, attempt, strikes, status, tried, ghosts>>

Free == lock \in Runs => at[lock] \in Over

(* acquire_lock, abstractly; the state is not loaded again.  A run may be  *)
(* refused while nobody works: the file lock was just taken, or the claim  *)
(* is of another host.                                                     *)
Acquire(r) ==
  /\ \/ Free /\ Move(r, "built", "preflight") /\ lock' = r
     \/ Move(r, "built", "refused") /\ UNCHANGED lock
  /\ UNCHANGED <<disk, mem, runVars, ghosts>>

Satisfied(r, m) ==
  \A d \in Deps[m] : d \in 1 .. (m - 1) \/ d \in mem[r].completed

(* The rest of _preflight_checks: dependencies of every milestone (wanted  *)
(* or not) and the budget.                                                 *)
Preflight(r) ==
  /\ Move(r, "preflight", "starting")
  /\ Milestones > 0
  /\ \A m \in Names : Satisfied(r, m)
  /\ mem[r].total < MaxTotal
  /\ UNCHANGED <<disk, mem, lock, runVars, ghosts>>

(* It fails, on one of these or on the work tree or a verify command.      *)
FailPreflight(r) ==
  /\ Move(r, "preflight", "refused")
  /\ lock' = Nobody
  /\ UNCHANGED <<disk, mem, runVars, ghosts>>

(* RUN_START, the run_start ceiling, and the loop begins.                  *)
EnterLoop(r) ==
  /\ Move(r, "starting", "loop")
  /\ UNCHANGED <<disk, mem, lock, runVars, ghosts>>

(* The run_start ceiling blocks: SystemExit(7), before the try whose       *)
(* finally would release the lock.                                         *)
BlockRunStart(r) ==
  /\ Ceilings
  /\ Move(r, "starting", "blocked")
  /\ UNCHANGED <<disk, mem, lock, runVars, ghosts>>

-----------------------------------------------------------------------------
(* The loop over the milestones                                            *)

(* A mutated form of BadDeps: a dependency that was skipped is forgotten.  *)
BadDepsIfFailed(r) == Deps[current[r]] \cap mem[r].failed

Settled(r) == mem[r].completed \cup mem[r].failed \cup mem[r].skipped
BadDeps(r) == Deps[current[r]] \cap (mem[r].failed \cup mem[r].skipped)
Next1(r)   == current' = [current EXCEPT ![r] = @ + 1]

(* A milestone that was not asked for or has an outcome already, failures  *)
(* of earlier runs included.                                               *)
PassOver(r) ==
  /\ Move(r, "loop", "loop")
  /\ current[r] \in Names
  /\ current[r] \notin want[r] \/ current[r] \in Settled(r)
  /\ Next1(r)
  /\ UNCHANGED <<disk, mem, lock, want, phase, attempt, strikes, status,
                 tried, ghosts>>

Due(r) ==
  /\ at[r] = "loop"
  /\ current[r] \in want[r] \ Settled(r)

(* A dependency has failed or was skipped itself.                          *)
SkipMilestone(r) ==
  /\ Due(r) /\ BadDeps(r) # {}
  /\ Save(r, [mem[r] EXCEPT !.skipped = @ \cup {current[r]}])
  /\ Next1(r)
  /\ UNCHANGED <<at, lock, want, phase, attempt, strikes, status, tried, ghosts>>

(* The budget is spent: leave the loop, whatever is left to do.            *)
BreakOnBudget(r) ==
  /\ Due(r) /\ BadDeps(r) = {}
  /\ mem[r].total >= MaxTotal
  /\ Move(r, "loop", "completing")
  /\ UNCHANGED <<disk, mem, lock, runVars, ghosts>>

StartMilestone(r) ==
  /\ Due(r) /\ BadDeps(r) = {}
  /\ mem[r].total < MaxTotal
  /\ Move(r, "loop", "phase")
  /\ phase' = [phase EXCEPT ![r] = Plan]
  /\ attempt' = [attempt EXCEPT ![r] = 1]
  /\ tried' = [tried EXCEPT ![r] = @ \cup {current[r]}]
  /\ UNCHANGED <<disk, mem, lock, want, current, strikes, status, ghosts>>

(* The milestone_start or the phase_e_retry ceiling blocks: SystemExit(7), *)
(* and the finally of run() releases the lock.                             *)
BlockInLoop(r) ==
  /\ Ceilings
  /\ \/ Due(r) /\ BadDeps(r) = {} /\ mem[r].total < MaxTotal
     \/ at[r] = "retry" /\ attempt[r] < Attempts
  /\ at' = [at EXCEPT ![r] = "blocked"]
  /\ lock' = Nobody
  /\ UNCHANGED <<disk, mem, runVars, ghosts>>

EndLoop(r) ==
  /\ Move(r, "loop", "completing")
  /\ current[r] = Milestones + 1
  /\ UNCHANGED <<disk, mem, lock, runVars, ghosts>>

-----------------------------------------------------------------------------
(* One milestone                                                           *)

(* The next phase, or the end of the milestone.                            *)
Advance(r) ==
  IF phase[r] = Ci
  THEN /\ at' = [at EXCEPT ![r] = "record"]
       /\ finished' = [finished EXCEPT ![current[r]] = @ + 1]
       /\ UNCHANGED phase
  ELSE /\ phase' = [phase EXCEPT ![r] = @ + 1]
       /\ UNCHANGED <<at, finished>>

(* A phase whose claude calls succeed; their cost is saved as it comes.    *)
PhaseSucceeds(r, cost) ==
  /\ at[r] = "phase"
  /\ mem[r].total < MaxTotal
  /\ Save(r, [mem[r] EXCEPT !.total = @ + cost])
  /\ Advance(r)
  /\ UNCHANGED <<lock, want, current, attempt, strikes, status, tried,
                 unrecorded, announced>>

(* A phase whose claude calls end in errors, or are refused by the budget  *)
(* gate and cost nothing: phases A, B and C raise _PhaseError, the others  *)
(* go on.                                                                  *)
PhaseFails(r, cost) ==
  /\ at[r] = "phase"
  /\ mem[r].total >= MaxTotal => cost = 0
  /\ Save(r, [mem[r] EXCEPT !.total = @ + cost])
  /\ IF phase[r] \in Checked
     THEN at' = [at EXCEPT ![r] = "retry"] /\ UNCHANGED <<phase, finished>>
     ELSE Advance(r)
  /\ UNCHANGED <<lock, want, current, attempt, strikes, status, tried,
                 unrecorded, announced>>

(* A mutated form of Retry: the attempts are not counted.                  *)
RetryUncounted(r) ==
  /\ attempt[r] < Attempts
  /\ Move(r, "retry", "phase")
  /\ phase' = [phase EXCEPT ![r] = Plan]
  /\ UNCHANGED <<disk, mem, lock, want, current, attempt, strikes, status,
                 tried, ghosts>>

(* All phases again, after a delay.                                        *)
Retry(r) ==
  /\ attempt[r] < Attempts
  /\ Move(r, "retry", "phase")
  /\ attempt' = [attempt EXCEPT ![r] = @ + 1]
  /\ phase' = [phase EXCEPT ![r] = Plan]
  /\ UNCHANGED <<disk, mem, lock, want, current, strikes, status, tried, ghosts>>

(* No attempt is left: MilestoneFailed and its triage ...                  *)
GiveUp(r) ==
  /\ attempt[r] = Attempts
  /\ Move(r, "retry", "failing")
  /\ UNCHANGED <<disk, mem, lock, runVars, ghosts>>

(* ... and only then the outcome is recorded.                              *)
RecordFailed(r) ==
  /\ Move(r, "failing", "striking")
  /\ Save(r, [mem[r] EXCEPT !.failed = @ \cup {current[r]}])
  /\ strikes' = [strikes EXCEPT ![r] = @ + 1]
  /\ UNCHANGED <<lock, want, current, phase, attempt, status, tried, ghosts>>

(* The circuit breaker, or three strikes when it is disabled, may end the  *)
(* loop.                                                                   *)
MustTripAtFour(r) == Breaker = "off" /\ strikes[r] > 3  \* a mutated form of MustTrip
MayTrip(r)  == Breaker = "enforce" \/ (Breaker = "off" /\ strikes[r] >= 3)
MustTrip(r) == Breaker = "off" /\ strikes[r] >= 3

Trip(r) ==
  /\ MayTrip(r)
  /\ Move(r, "striking", "completing")
  /\ UNCHANGED <<disk, mem, lock, runVars, ghosts>>

GoOn(r) ==
  /\ ~MustTrip(r)
  /\ Move(r, "striking", "loop")
  /\ Next1(r)
  /\ UNCHANGED <<disk, mem, lock, want, phase, attempt, strikes, status,
                 tried, ghosts>>

(* A mutated form of RecordCompleted: the outcome is not saved.            *)
RecordInMemory(r) ==
  /\ Move(r, "record", "announce")
  /\ mem' = [mem EXCEPT ![r].completed = @ \cup {current[r]}]
  /\ UNCHANGED <<disk, lock, runVars, ghosts>>

(* The milestone is recorded first ...                                     *)
RecordCompleted(r) ==
  /\ Move(r, "record", "announce")
  /\ Save(r, [mem[r] EXCEPT !.completed = @ \cup {current[r]}])
  /\ UNCHANGED <<lock, runVars, ghosts>>

(* ... and then announced, in the audit trail and the telemetry.           *)
Announce(r) ==
  /\ Move(r, "announce", "loop")
  /\ announced' = [announced EXCEPT ![current[r]] = @ + 1]
  /\ strikes' = [strikes EXCEPT ![r] = 0]
  /\ Next1(r)
  /\ UNCHANGED <<disk, mem, lock, want, phase, attempt, status, tried,
                 finished, unrecorded>>

-----------------------------------------------------------------------------
(* The end of a run                                                        *)

Verdict(r) ==
  IF mem[r].failed = {} THEN "complete"
  ELSE IF mem[r].completed # {} THEN "partial" ELSE "failed"

(* _completion_notification: RunCompleted and workflow-complete.json.      *)
Complete(r) ==
  /\ Move(r, "completing", "closing")
  /\ status' = [status EXCEPT ![r] = Verdict(r)]
  /\ UNCHANGED <<disk, mem, lock, want, current, phase, attempt, strikes,
                 tried, ghosts>>

(* The finally of run().                                                   *)
Close(r) ==
  /\ Move(r, "closing", "done")
  /\ lock' = Nobody
  /\ UNCHANGED <<disk, mem, runVars, ghosts>>

(* The run ends where it is: a finished milestone that it had not recorded *)
(* is forgotten.                                                           *)
EndHere(r, how) ==
  /\ at' = [at EXCEPT ![r] = how]
  /\ unrecorded' = IF at[r] = "record" THEN unrecorded \cup {current[r]} ELSE unrecorded
  /\ UNCHANGED <<runVars, mem, finished, announced>>

(* SIGINT or SIGTERM: the handler saves the state and releases the lock.   *)
Signal(r) ==
  /\ "signal" \in Faults
  /\ at[r] \in Locked \ {"preflight"}
  /\ EndHere(r, "interrupted")
  /\ disk' = mem[r]
  /\ lock' = Nobody

(* An exception that is not _PhaseError, a failed save for instance, goes  *)
(* through the finally of run().                                           *)
Raise(r) ==
  /\ "raise" \in Faults
  /\ at[r] \in Locked \ {"preflight", "starting", "closing"}
  /\ EndHere(r, "raised")
  /\ lock' = Nobody
  /\ UNCHANGED disk

(* The process dies, and its lock with it.                                 *)
Crash(r) ==
  /\ "crash" \in Faults
  /\ at[r] \in Locked
  /\ EndHere(r, "dead")
  /\ UNCHANGED <<disk, lock>>

-----------------------------------------------------------------------------
Step(r) ==
  \/ Construct(r) \/ Acquire(r) \/ Preflight(r) \/ FailPreflight(r)
  \/ EnterLoop(r) \/ BlockRunStart(r)
  \/ PassOver(r) \/ SkipMilestone(r) \/ BreakOnBudget(r) \/ StartMilestone(r)
  \/ BlockInLoop(r) \/ EndLoop(r)
  \/ \E cost \in 0 .. MaxCost : PhaseSucceeds(r, cost) \/ PhaseFails(r, cost)
  \/ Retry(r) \/ GiveUp(r) \/ RecordFailed(r) \/ Trip(r) \/ GoOn(r)
  \/ RecordCompleted(r) \/ Announce(r)
  \/ Complete(r) \/ Close(r)

Next == \E r \in Runs : Step(r) \/ Signal(r) \/ Raise(r) \/ Crash(r)

Spec == Init /\ [][Next]_vars

(* A run that is not killed keeps going: its sleeps and its subprocesses   *)
(* are bounded by timeouts.                                                *)
FairSpec == Spec /\ \A r \in Runs : WF_vars(Step(r))

-----------------------------------------------------------------------------
(* Properties                                                              *)

(* No milestone has two outcomes, in a run or in the file, through any     *)
(* retries, resumes and faults.                                            *)
OneOutcome ==
  \A s \in {disk} \cup {mem[r] : r \in Runs} :
    /\ s.completed \cap (s.failed \cup s.skipped) = {}
    /\ s.failed \cap s.skipped = {}

(* A run of all milestones works on one only when everything it depends on *)
(* is completed, whatever earlier runs left behind.                        *)
DependenciesFirst ==
  \A r \in Runs :
    want[r] = Names /\ at[r] \in {"phase", "retry", "record"} =>
      Deps[current[r]] \subseteq mem[r].completed

(* A run that reports "complete" leaves nothing failed or skipped, by this *)
(* or any earlier run.                                                     *)
CompleteMeansNoFailure ==
  \A r \in Runs : status[r] = "complete" => mem[r].failed \cup mem[r].skipped = {}

(* A milestone goes through all its phases, and is paid for, once, unless  *)
(* its run ended between the last phase and the record.                    *)
FinishedOnce == \A m \in Names : finished[m] <= 1 \/ m \in unrecorded

(* MilestoneCompleted is emitted at most once for a milestone, and only    *)
(* when the file already says so.                                          *)
AnnouncedFromRecord ==
  \A m \in Names : /\ announced[m] <= 1
                   /\ announced[m] = 1 => m \in disk.completed

(* The outcome of a milestone, as the file has it.                         *)
RecordedOutcome ==
  [m \in Names |-> IF m \in disk.completed THEN "completed"
                   ELSE IF m \in disk.failed THEN "failed"
                   ELSE IF m \in disk.skipped THEN "skipped" ELSE "pending"]

Needed == [m \in Names |-> Deps[m] \cap Names]

Ledger == INSTANCE OutcomeLedger
            WITH Milestone <- Names, Needs <- Needed, outcome <- RecordedOutcome

(* The file is a ledger of outcomes: through all runs that do not overlap, *)
(* whatever they select and whatever ends them, what is completed stays so *)
(* in the file, a milestone is completed or failed only with nothing that  *)
(* it depends on failed or skipped, and skipped only otherwise             *)
(* (orchestrator.py:494-520, 574-595, 679-683).                            *)
KeepsLedger == Ledger!Spec

(* What a run means for the others that contend for the lock.              *)
Turn == [r \in Runs |-> IF at[r] \in {"new", "built"} THEN "waiting"
                        ELSE IF at[r] \in Locked THEN "working" ELSE "over"]

Lock == INSTANCE LockSpec WITH turn <- Turn

(* Runs, overlapping or not, work one at a time and once each: the loop    *)
(* takes and gives up the lock as LockSpec has it.                         *)
KeepsLock == Lock!Spec

(* What the file says is completed stays completed.                        *)
CompletedStays == [][disk.completed \subseteq disk'.completed]_vars

(* Without the class-aware breaker, three consecutive failures of the run  *)
(* end its loop: it goes on to no other milestone.                         *)
ThreeStrikes ==
  Breaker = "off" => \A r \in Runs : at[r] \in {"loop", "phase"} => strikes[r] < 3

(* Every run that is begun ends, however its attempts fail: again and      *)
(* again no run is under way.                                              *)
EveryRunEnds == []<>(\A r \in Runs : at[r] \in Over \cup {"new"})

=============================================================================
