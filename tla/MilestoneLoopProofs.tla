------------------------ MODULE MilestoneLoopProofs ------------------------
(***************************************************************************)
(* The sequential run for any workflow, any number of runs and resumes,    *)
(* any selections, retries, ceilings, breaker and faults: one outcome per  *)
(* milestone, dependencies first, an honest status, three strikes; and     *)
(* for runs that do not overlap, that nothing is finished twice, announced *)
(* without being recorded or forgotten once it is completed.               *)
(***************************************************************************)
EXTENDS MilestoneLoop, TLAPS

(* A run that works on a milestone, and one between its outcome and the    *)
(* next milestone.                                                         *)
Working  == {"phase", "retry", "failing", "record"}
Settling == {"striking", "announce"}

-----------------------------------------------------------------------------
(* Types                                                                   *)

LEMMA StateFields ==
  ASSUME NEW s \in State
  PROVE  /\ s.completed \subseteq Names /\ s.failed \subseteq Names
         /\ s.skipped \subseteq Names /\ s.total \in Nat
         /\ \A m \in Names : /\ [s EXCEPT !.completed = @ \cup {m}] \in State
                             /\ [s EXCEPT !.failed = @ \cup {m}] \in State
                             /\ [s EXCEPT !.skipped = @ \cup {m}] \in State
         /\ \A cost \in Nat : [s EXCEPT !.total = @ + cost] \in State
  BY DEF State

(* What an outcome or a cost changes of a state, and what it leaves.       *)
LEMMA Outcomes ==
  ASSUME NEW s \in State, NEW m, NEW cost
  PROVE  /\ LET t == [s EXCEPT !.completed = @ \cup {m}]
            IN  t.completed = s.completed \cup {m} /\ t.failed = s.failed
                /\ t.skipped = s.skipped
         /\ LET t == [s EXCEPT !.failed = @ \cup {m}]
            IN  t.failed = s.failed \cup {m} /\ t.completed = s.completed
                /\ t.skipped = s.skipped
         /\ LET t == [s EXCEPT !.skipped = @ \cup {m}]
            IN  t.skipped = s.skipped \cup {m} /\ t.completed = s.completed
                /\ t.failed = s.failed
         /\ LET t == [s EXCEPT !.total = @ + cost]
            IN  t.completed = s.completed /\ t.failed = s.failed /\ t.skipped = s.skipped
  BY DEF State

LEMMA NextInRange ==
  ASSUME NEW m \in Names
  PROVE  m + 1 \in 1 .. Milestones + 1
  BY LoopAssumption DEF Names

LEMMA NextPhase ==
  ASSUME NEW p \in Phases, p # Ci
  PROVE  p + 1 \in Phases
  BY DEF Phases, Ci

LEMMA TypeInitial == Init => TypeOK
<1> SUFFICES ASSUME Init PROVE TypeOK
  OBVIOUS
<1>1. Fresh \in State
  BY DEF Fresh, State
<1>2. 1 \in 1 .. Milestones + 1 /\ 1 \in 1 .. Attempts
  BY LoopAssumption
<1> QED BY <1>1, <1>2 DEF Init, TypeOK, Points, Locked, Phases, Plan

LEMMA TypeStep == TypeOK /\ [Next]_vars => TypeOK'
<1> SUFFICES ASSUME TypeOK, [Next]_vars PROVE TypeOK'
  OBVIOUS
<1> USE LoopAssumption DEF TypeOK, Points, Locked, Over
<1>1. ASSUME NEW r \in Runs, Construct(r) PROVE TypeOK'
  <2>1. mem' \in [Runs -> State] /\ want' \in [Runs -> SUBSET Names]
    BY <1>1, StateFields DEF Construct
  <2>2. at' \in [Runs -> Points] /\ at'[r] = "built"
        /\ \A q \in Runs \ {r} : at'[q] = at[q] /\ want'[q] = want[q]
    BY <1>1 DEF Construct, Move
  <2> QED BY <1>1, <2>1, <2>2 DEF Construct, ghosts
<1>2. ASSUME NEW r \in Runs, Acquire(r) PROVE TypeOK'
  BY <1>2 DEF Acquire, Move, Free, runVars, ghosts
<1>3. ASSUME NEW r \in Runs,
             Preflight(r) \/ EnterLoop(r) \/ BlockRunStart(r) \/ BreakOnBudget(r)
             \/ EndLoop(r) \/ GiveUp(r) \/ Trip(r)
      PROVE  TypeOK'
  BY <1>3 DEF Preflight, EnterLoop, BlockRunStart, BreakOnBudget, EndLoop, GiveUp,
              Trip, Move, runVars, ghosts
<1>4. ASSUME NEW r \in Runs, FailPreflight(r) \/ BlockInLoop(r) \/ Close(r)
      PROVE  TypeOK'
  BY <1>4 DEF FailPreflight, BlockInLoop, Due, Close, Move, runVars, ghosts
<1>5. ASSUME NEW r \in Runs, PassOver(r) \/ GoOn(r) PROVE TypeOK'
  <2>1. current[r] \in Names
    BY <1>5 DEF PassOver, GoOn, Move
  <2>2. current' \in [Runs -> 1 .. Milestones + 1]
    BY <1>5, <2>1, NextInRange DEF PassOver, GoOn, Next1
  <2> QED BY <1>5, <2>2 DEF PassOver, GoOn, Next1, Move, ghosts
<1>6. ASSUME NEW r \in Runs, SkipMilestone(r) PROVE TypeOK'
  <2>1. current[r] \in Names
    BY <1>6 DEF SkipMilestone, Due
  <2>2. current' \in [Runs -> 1 .. Milestones + 1]
    BY <1>6, <2>1, NextInRange DEF SkipMilestone, Next1
  <2>3. mem' \in [Runs -> State] /\ disk' \in State
    BY <1>6, <2>1, StateFields DEF SkipMilestone, Save
  <2>4. \A q \in Runs \ {r} : current'[q] = current[q]
    BY <1>6 DEF SkipMilestone, Next1
  <2>5. at[r] = "loop"
    BY <1>6 DEF SkipMilestone, Due
  <2> QED BY <1>6, <2>2, <2>3, <2>4, <2>5 DEF SkipMilestone, ghosts
<1>7. ASSUME NEW r \in Runs, StartMilestone(r) PROVE TypeOK'
  BY <1>7 DEF StartMilestone, Due, Move, Phases, Plan, ghosts
<1>8. ASSUME NEW r \in Runs, NEW cost \in 0 .. MaxCost, PhaseSucceeds(r, cost)
      PROVE  TypeOK'
  <2>1. mem' \in [Runs -> State] /\ disk' \in State
    BY <1>8, StateFields DEF PhaseSucceeds, Save
  <2>2. phase' \in [Runs -> Phases]
    BY <1>8, NextPhase DEF PhaseSucceeds, Advance
  <2>3. at[r] = "phase" /\ current[r] \in want[r] /\ current[r] \in Names
    BY <1>8 DEF PhaseSucceeds
  <2>4. finished' \in [Names -> Nat]
    BY <1>8, <2>3 DEF PhaseSucceeds, Advance
  <2>5. \E point \in {"phase", "retry", "record"} : at' = [at EXCEPT ![r] = point]
    BY <1>8 DEF PhaseSucceeds, Advance
  <2> QED BY <1>8, <2>1, <2>2, <2>3, <2>4, <2>5 DEF PhaseSucceeds
<1>9. ASSUME NEW r \in Runs, NEW cost \in 0 .. MaxCost, PhaseFails(r, cost)
      PROVE  TypeOK'
  <2>1. mem' \in [Runs -> State] /\ disk' \in State
    BY <1>9, StateFields DEF PhaseFails, Save
  <2>2. phase' \in [Runs -> Phases]
    BY <1>9, NextPhase DEF PhaseFails, Advance
  <2>3. at[r] = "phase" /\ current[r] \in want[r] /\ current[r] \in Names
    BY <1>9 DEF PhaseFails
  <2>4. finished' \in [Names -> Nat]
    BY <1>9, <2>3 DEF PhaseFails, Advance
  <2>5. \E point \in {"phase", "retry", "record"} : at' = [at EXCEPT ![r] = point]
    BY <1>9 DEF PhaseFails, Advance
  <2> QED BY <1>9, <2>1, <2>2, <2>3, <2>4, <2>5 DEF PhaseFails
<1>10. ASSUME NEW r \in Runs, Retry(r) PROVE TypeOK'
  BY <1>10 DEF Retry, Move, Phases, Plan, ghosts
<1>11. ASSUME NEW r \in Runs, RecordFailed(r) PROVE TypeOK'
  <2>1. at[r] = "failing" /\ current[r] \in Names
    BY <1>11 DEF RecordFailed, Move
  <2>2. mem' \in [Runs -> State] /\ disk' \in State
    BY <1>11, <2>1, StateFields DEF RecordFailed, Save
  <2>3. strikes' \in [Runs -> Nat]
    BY <1>11 DEF RecordFailed
  <2>4. /\ lock' = lock /\ want' = want /\ current' = current /\ phase' = phase
        /\ attempt' = attempt /\ status' = status
        /\ tried' = tried /\ UNCHANGED ghosts /\ at' = [at EXCEPT ![r] = "striking"]
    BY <1>11 DEF RecordFailed, Move
  <2> QED BY <2>1, <2>2, <2>3, <2>4 DEF ghosts
<1>12. ASSUME NEW r \in Runs, RecordCompleted(r) PROVE TypeOK'
  BY <1>12, StateFields DEF RecordCompleted, Save, Move, runVars, ghosts
<1>13. ASSUME NEW r \in Runs, Announce(r) PROVE TypeOK'
  <2>1. at[r] = "announce" /\ current[r] \in Names
    BY <1>13 DEF Announce, Move
  <2>2. current' \in [Runs -> 1 .. Milestones + 1]
    BY <1>13, <2>1, NextInRange DEF Announce, Next1
  <2>3. announced' \in [Names -> Nat] /\ strikes' \in [Runs -> Nat]
    BY <1>13, <2>1 DEF Announce
  <2> QED BY <1>13, <2>1, <2>2, <2>3 DEF Announce, Next1, Move
<1>14. ASSUME NEW r \in Runs, Complete(r) PROVE TypeOK'
  BY <1>14 DEF Complete, Verdict, Move, ghosts
<1>15. ASSUME NEW r \in Runs, Signal(r) \/ Raise(r) \/ Crash(r) PROVE TypeOK'
  BY <1>15 DEF Signal, Raise, Crash, EndHere, runVars
<1>16. CASE UNCHANGED vars
  BY <1>16 DEF vars, runVars, ghosts
<1> HIDE DEF TypeOK, Points, Locked, Over
<1> QED
  BY <1>1, <1>2, <1>3, <1>4, <1>5, <1>6, <1>7, <1>8, <1>9, <1>10, <1>11, <1>12,
     <1>13, <1>14, <1>15, <1>16 DEF Next, Step

(* The state of every run and of the file has its type, and whoever is     *)
(* between preflight and the finally of run() holds the workflow lock.     *)
THEOREM TypeCorrect == Spec => []TypeOK
  BY TypeInitial, TypeStep, PTL DEF Spec

(* A step of one run leaves the others as they are.                        *)
LEMMA OtherRuns ==
  ASSUME TypeOK, NEW r \in Runs, NEW q \in Runs, q # r,
         Step(r) \/ Signal(r) \/ Raise(r) \/ Crash(r)
  PROVE  /\ at'[q] = at[q] /\ mem'[q] = mem[q] /\ want'[q] = want[q]
         /\ current'[q] = current[q] /\ strikes'[q] = strikes[q]
         /\ status'[q] = status[q]
<1> USE DEF TypeOK
<1>1. CASE Construct(r) \/ Acquire(r) \/ Preflight(r) \/ FailPreflight(r)
           \/ EnterLoop(r) \/ BlockRunStart(r)
  BY <1>1 DEF Construct, Acquire, Preflight, FailPreflight, EnterLoop, BlockRunStart,
              Move, runVars, ghosts
<1>2. CASE PassOver(r) \/ SkipMilestone(r) \/ BreakOnBudget(r) \/ StartMilestone(r)
           \/ BlockInLoop(r) \/ EndLoop(r)
  BY <1>2 DEF PassOver, SkipMilestone, BreakOnBudget, StartMilestone, BlockInLoop,
              EndLoop, Save, Next1, Move, runVars, ghosts
<1>3. ASSUME NEW cost \in 0 .. MaxCost, PhaseSucceeds(r, cost) \/ PhaseFails(r, cost)
      PROVE  /\ at'[q] = at[q] /\ mem'[q] = mem[q] /\ want'[q] = want[q]
             /\ current'[q] = current[q] /\ strikes'[q] = strikes[q]
             /\ status'[q] = status[q]
  BY <1>3 DEF PhaseSucceeds, PhaseFails, Save, Advance
<1>4. CASE Retry(r) \/ GiveUp(r) \/ RecordFailed(r) \/ Trip(r) \/ GoOn(r)
           \/ RecordCompleted(r) \/ Announce(r) \/ Complete(r) \/ Close(r)
  BY <1>4 DEF Retry, GiveUp, RecordFailed, Trip, GoOn, RecordCompleted, Announce,
              Complete, Close, Save, Next1, Move, runVars, ghosts
<1>5. CASE Signal(r) \/ Raise(r) \/ Crash(r)
  BY <1>5 DEF Signal, Raise, Crash, EndHere, runVars
<1> HIDE DEF TypeOK
<1> QED BY <1>1, <1>2, <1>3, <1>4, <1>5 DEF Step

-----------------------------------------------------------------------------
(* Outcomes                                                                *)

(* No milestone has two outcomes, and only a failure makes one skipped.    *)
Consistent(s) ==
  /\ s.completed \cap (s.failed \cup s.skipped) = {}
  /\ s.failed \cap s.skipped = {}
  /\ s.skipped # {} => s.failed # {}

(* What a run works on has no outcome and no bad dependency; its status    *)
(* comes at its end and agrees with its state.                             *)
OutcomeOf(r) ==
  /\ Consistent(mem[r])
  /\ at[r] \in Working => current[r] \notin Settled(r) /\ BadDeps(r) = {}
  /\ at[r] = "striking" => current[r] \in mem[r].failed
  /\ at[r] = "announce" => current[r] \in mem[r].completed
  /\ status[r] # "none" => at[r] \in {"closing"} \cup Over
  /\ status[r] = "complete" => mem[r].failed \cup mem[r].skipped = {}

OutcomeInv == TypeOK /\ Consistent(disk) /\ \A r \in Runs : OutcomeOf(r)

(* A step of another run changes nothing of this one.                      *)
LEMMA OutcomeFrame ==
  ASSUME NEW q \in Runs, OutcomeOf(q), at'[q] = at[q], mem'[q] = mem[q],
         current'[q] = current[q], status'[q] = status[q]
  PROVE  OutcomeOf(q)'
  BY DEF OutcomeOf, Consistent, Settled, BadDeps

LEMMA OutcomeInitial == Init => OutcomeInv
<1>1. Consistent(Fresh)
  BY DEF Consistent, Fresh
<1> QED BY <1>1, TypeInitial DEF Init, OutcomeInv, OutcomeOf, Working

LEMMA OutcomeStep == OutcomeInv /\ [Next]_vars => OutcomeInv'
<1> SUFFICES ASSUME OutcomeInv, [Next]_vars
             PROVE  Consistent(disk)' /\ \A r \in Runs : OutcomeOf(r)'
  BY TypeStep DEF OutcomeInv
<1> DEFINE Goal(r) == Consistent(disk)' /\ OutcomeOf(r)'
<1>t. /\ mem \in [Runs -> State] /\ at \in [Runs -> Points]
      /\ current \in [Runs -> 1 .. Milestones + 1] /\ want \in [Runs -> SUBSET Names]
      /\ status \in [Runs -> {"none", "complete", "partial", "failed"}]
      /\ Consistent(disk) /\ disk \in State
  BY DEF OutcomeInv, TypeOK
<1>i. \A r \in Runs : OutcomeOf(r)
  BY DEF OutcomeInv
<1>1. ASSUME NEW r \in Runs, Construct(r) PROVE Goal(r)
  BY <1>1, <1>t, <1>i DEF Construct, Move, ghosts, OutcomeOf, Working, Over
<1>2. ASSUME NEW r \in Runs,
             Acquire(r) \/ Preflight(r) \/ FailPreflight(r) \/ EnterLoop(r)
             \/ BlockRunStart(r) \/ BreakOnBudget(r) \/ BlockInLoop(r) \/ EndLoop(r)
             \/ Trip(r) \/ Close(r)
      PROVE  Goal(r)
  BY <1>2, <1>t, <1>i DEF Acquire, Preflight, FailPreflight, EnterLoop, BlockRunStart,
     BreakOnBudget, BlockInLoop, EndLoop, Trip, Close, Due, Move, runVars, ghosts,
     OutcomeOf, Working, Over
<1>3. ASSUME NEW r \in Runs, PassOver(r) \/ GoOn(r) PROVE Goal(r)
  BY <1>3, <1>t, <1>i DEF PassOver, GoOn, Move, OutcomeOf, Working, Over
<1>4. ASSUME NEW r \in Runs, SkipMilestone(r) PROVE Goal(r)
  <2> DEFINE s == [mem[r] EXCEPT !.skipped = @ \cup {current[r]}]
  <2>1. /\ at[r] = "loop" /\ current[r] \notin Settled(r) /\ BadDeps(r) # {}
        /\ mem'[r] = s /\ disk' = s /\ at' = at /\ status' = status
    BY <1>4, <1>t DEF SkipMilestone, Due, Save
  <2>2. /\ s.skipped = mem[r].skipped \cup {current[r]}
        /\ s.completed = mem[r].completed /\ s.failed = mem[r].failed
    BY <1>t, Outcomes
  <2>3. Consistent(s)
    BY <2>1, <2>2, <1>i DEF Consistent, OutcomeOf, Settled, BadDeps
  <2> HIDE DEF s
  <2> QED BY <2>1, <2>3, <1>i DEF OutcomeOf, Working, Over
<1>5. ASSUME NEW r \in Runs, StartMilestone(r) PROVE Goal(r)
  BY <1>5, <1>t, <1>i DEF StartMilestone, Due, Move, OutcomeOf, Working, Over, Settled,
     BadDeps
<1>6. ASSUME NEW r \in Runs, NEW cost \in 0 .. MaxCost,
             PhaseSucceeds(r, cost) \/ PhaseFails(r, cost)
      PROVE  Goal(r)
  <2> DEFINE s == [mem[r] EXCEPT !.total = @ + cost]
  <2>1. /\ at[r] = "phase" /\ at'[r] \in Working
        /\ mem'[r] = s /\ disk' = s /\ current' = current /\ status' = status
    BY <1>6, <1>t DEF PhaseSucceeds, PhaseFails, Save, Advance, Working
  <2>2. /\ s.skipped = mem[r].skipped
        /\ s.completed = mem[r].completed /\ s.failed = mem[r].failed
    BY <1>t, Outcomes
  <2> HIDE DEF s
  <2> QED BY <2>1, <2>2, <1>i DEF Consistent, OutcomeOf, Working, Over, Settled, BadDeps
<1>7. ASSUME NEW r \in Runs, Retry(r) \/ GiveUp(r) PROVE Goal(r)
  BY <1>7, <1>t, <1>i DEF Retry, GiveUp, Move, runVars, OutcomeOf, Working, Over,
     Settled, BadDeps
<1>8. ASSUME NEW r \in Runs, RecordFailed(r) PROVE Goal(r)
  <2> DEFINE s == [mem[r] EXCEPT !.failed = @ \cup {current[r]}]
  <2>1. /\ at[r] = "failing" /\ at'[r] = "striking"
        /\ mem'[r] = s /\ disk' = s /\ current' = current /\ status' = status
    BY <1>8, <1>t DEF RecordFailed, Save, Move
  <2>2. /\ s.failed = mem[r].failed \cup {current[r]}
        /\ s.completed = mem[r].completed /\ s.skipped = mem[r].skipped
    BY <1>t, Outcomes
  <2> HIDE DEF s
  <2> QED BY <2>1, <2>2, <1>i DEF Consistent, OutcomeOf, Working, Over, Settled
<1>9. ASSUME NEW r \in Runs, RecordCompleted(r) PROVE Goal(r)
  <2> DEFINE s == [mem[r] EXCEPT !.completed = @ \cup {current[r]}]
  <2>1. /\ at[r] = "record" /\ at'[r] = "announce"
        /\ mem'[r] = s /\ disk' = s /\ current' = current /\ status' = status
    BY <1>9, <1>t DEF RecordCompleted, Save, Move, runVars
  <2>2. /\ s.completed = mem[r].completed \cup {current[r]}
        /\ s.failed = mem[r].failed /\ s.skipped = mem[r].skipped
    BY <1>t, Outcomes
  <2> HIDE DEF s
  <2> QED BY <2>1, <2>2, <1>i DEF Consistent, OutcomeOf, Working, Over, Settled
<1>10. ASSUME NEW r \in Runs, Announce(r) PROVE Goal(r)
  BY <1>10, <1>t, <1>i DEF Announce, Move, OutcomeOf, Working, Over
<1>11. ASSUME NEW r \in Runs, Complete(r) PROVE Goal(r)
  BY <1>11, <1>t, <1>i DEF Complete, Verdict, Move, OutcomeOf, Consistent, Working, Over
<1>12. ASSUME NEW r \in Runs, Signal(r) \/ Raise(r) \/ Crash(r) PROVE Goal(r)
  BY <1>12, <1>t, <1>i DEF Signal, Raise, Crash, EndHere, runVars, OutcomeOf, Working,
     Over
<1>13. CASE UNCHANGED vars
  BY <1>13, <1>t, <1>i, OutcomeFrame DEF vars, runVars
<1>o. ASSUME NEW r \in Runs, Step(r) \/ Signal(r) \/ Raise(r) \/ Crash(r)
      PROVE  Goal(r)
  BY <1>o, <1>1, <1>2, <1>3, <1>4, <1>5, <1>6, <1>7, <1>8, <1>9, <1>10, <1>11, <1>12
     DEF Step
<1>f. ASSUME NEW r \in Runs, NEW q \in Runs, q # r,
             Step(r) \/ Signal(r) \/ Raise(r) \/ Crash(r)
      PROVE  OutcomeOf(q)'
  <2>1. /\ at'[q] = at[q] /\ mem'[q] = mem[q]
        /\ current'[q] = current[q] /\ status'[q] = status[q]
    BY <1>f, OtherRuns DEF OutcomeInv
  <2> QED BY <2>1, <1>i, OutcomeFrame
<1> HIDE DEF Goal
<1> QED
  <2>1. CASE Next
    BY <2>1, <1>o, <1>f DEF Next, Goal
  <2> QED BY <2>1, <1>13

LEMMA OutcomeHolds == Spec => []OutcomeInv
  BY OutcomeInitial, OutcomeStep, PTL DEF Spec

(* No milestone is in two of the lists completed, failed and skipped, in   *)
(* the file or in a run, through any retries, resumes and faults.          *)
THEOREM OneOutcomeEach == Spec => []OneOutcome
<1>1. OutcomeInv => OneOutcome
  BY DEF OutcomeInv, OutcomeOf, OneOutcome, Consistent
<1> QED BY <1>1, OutcomeHolds, PTL

(* A run that reports "complete" leaves nothing failed or skipped.         *)
THEOREM CompleteIsHonest == Spec => []CompleteMeansNoFailure
<1>1. OutcomeInv => CompleteMeansNoFailure
  BY DEF OutcomeInv, OutcomeOf, CompleteMeansNoFailure
<1> QED BY <1>1, OutcomeHolds, PTL

-----------------------------------------------------------------------------
(* Order                                                                   *)

InLoop == {"loop"} \cup Working \cup Settling

(* Preflight has found every dependency either completed or earlier in     *)
(* workflow.json, and what the loop has passed is settled as far as it was *)
(* asked for.                                                              *)
OrderOf(r) ==
  /\ at[r] \in {"new", "built", "preflight", "starting"} => current[r] = 1
  /\ at[r] \in {"starting"} \cup InLoop => \A m \in Names : Satisfied(r, m)
  /\ at[r] \in InLoop => \A m \in want[r] : m < current[r] => m \in Settled(r)

OrderInv == OutcomeInv /\ \A r \in Runs : OrderOf(r)

LEMMA OrderFrame ==
  ASSUME NEW q \in Runs, OrderOf(q), at'[q] = at[q], mem'[q] = mem[q],
         current'[q] = current[q], want'[q] = want[q]
  PROVE  OrderOf(q)'
  BY DEF OrderOf, Settled, Satisfied

LEMMA OrderInitial == Init => OrderInv
  BY OutcomeInitial DEF Init, OrderInv, OrderOf, InLoop, Working, Settling

(* Outcomes are only added, so what was satisfied or settled remains so.   *)
LEMMA OrderMonotone ==
  ASSUME NEW r \in Runs, OrderOf(r), at[r] \in InLoop, at'[r] \in InLoop,
         want'[r] = want[r],
         mem[r].completed \subseteq mem'[r].completed,
         Settled(r) \subseteq Settled(r)',
         \A m \in want[r] : m < current'[r] => m < current[r] \/ m \in Settled(r)'
  PROVE  OrderOf(r)'
  BY DEF OrderOf, Satisfied, InLoop, Working, Settling

LEMMA Below ==
  ASSUME NEW m \in Names, NEW c \in Names, m < c + 1
  PROVE  m < c \/ m = c
  BY LoopAssumption DEF Names

LEMMA OrderStep == OrderInv /\ [Next]_vars => OrderInv'
<1> SUFFICES ASSUME OrderInv, [Next]_vars PROVE \A r \in Runs : OrderOf(r)'
  BY OutcomeStep DEF OrderInv
<1>t. /\ mem \in [Runs -> State] /\ at \in [Runs -> Points]
      /\ current \in [Runs -> 1 .. Milestones + 1] /\ want \in [Runs -> SUBSET Names]
      /\ TypeOK
  BY DEF OrderInv, OutcomeInv, TypeOK
<1>i. \A r \in Runs : OrderOf(r) /\ OutcomeOf(r)
  BY DEF OrderInv, OutcomeInv
<1> DEFINE Passed(r) == \A m \in want[r] : m < current[r] + 1 => m < current[r] \/ m = current[r]
<1>p. ASSUME NEW r \in Runs, current[r] \in Names PROVE Passed(r)
  BY <1>p, <1>t, Below
<1> HIDE DEF Passed
<1>1. ASSUME NEW r \in Runs, Construct(r) \/ Acquire(r) \/ FailPreflight(r)
      PROVE  OrderOf(r)'
  BY <1>1, <1>t, <1>i DEF Construct, Acquire, FailPreflight, Move, runVars, ghosts,
     OrderOf, InLoop, Working, Settling
<1>2. ASSUME NEW r \in Runs, Preflight(r) PROVE OrderOf(r)'
  BY <1>2, <1>t, <1>i DEF Preflight, Move, runVars, OrderOf, Satisfied, InLoop,
     Working, Settling
<1>3. ASSUME NEW r \in Runs, EnterLoop(r) PROVE OrderOf(r)'
  <2>1. /\ at[r] = "starting" /\ at'[r] = "loop" /\ mem' = mem
        /\ current' = current /\ want' = want
    BY <1>3, <1>t DEF EnterLoop, Move, runVars
  <2>2. \A m \in want[r] : ~(m < current[r])
    BY <2>1, <1>t, <1>i DEF OrderOf, Names
  <2> QED BY <2>1, <2>2, <1>i DEF OrderOf, Satisfied
<1>4. ASSUME NEW r \in Runs,
             BlockRunStart(r) \/ BreakOnBudget(r) \/ BlockInLoop(r) \/ EndLoop(r)
             \/ Trip(r) \/ Complete(r) \/ Close(r)
      PROVE  OrderOf(r)'
  BY <1>4, <1>t DEF BlockRunStart, BreakOnBudget, BlockInLoop, EndLoop, Trip,
     Complete, Close, Move, OrderOf, InLoop, Working, Settling
<1>5. ASSUME NEW r \in Runs, PassOver(r) PROVE OrderOf(r)'
  <2>1. /\ at[r] = "loop" /\ at'[r] = "loop" /\ mem' = mem /\ want' = want
        /\ current'[r] = current[r] + 1 /\ Passed(r)
        /\ current[r] \in want[r] => current[r] \in Settled(r)
    BY <1>5, <1>t, <1>p DEF PassOver, Next1, Move
  <2>2. Settled(r)' = Settled(r)
    BY <2>1 DEF Settled
  <2> QED BY <2>1, <2>2, <1>i, OrderMonotone DEF InLoop, Passed
<1>6. ASSUME NEW r \in Runs, SkipMilestone(r) PROVE OrderOf(r)'
  <2> DEFINE s == [mem[r] EXCEPT !.skipped = @ \cup {current[r]}]
  <2>1. /\ at[r] = "loop" /\ at'[r] = "loop" /\ mem'[r] = s /\ want' = want
        /\ current'[r] = current[r] + 1 /\ Passed(r)
    BY <1>6, <1>t, <1>p DEF SkipMilestone, Due, Save, Next1
  <2>2. /\ s.skipped = mem[r].skipped \cup {current[r]}
        /\ s.completed = mem[r].completed /\ s.failed = mem[r].failed
    BY <1>t, Outcomes
  <2> HIDE DEF s
  <2>3. Settled(r)' = Settled(r) \cup {current[r]}
    BY <2>1, <2>2 DEF Settled
  <2>4. mem[r].completed \subseteq mem'[r].completed
    BY <2>1, <2>2
  <2> QED BY <2>1, <2>3, <2>4, <1>i, OrderMonotone DEF InLoop, Passed
<1>7. ASSUME NEW r \in Runs, StartMilestone(r) \/ Retry(r) \/ GiveUp(r)
      PROVE  OrderOf(r)'
  BY <1>7, <1>t, <1>i DEF StartMilestone, Retry, GiveUp, Move, runVars, OrderOf,
     Satisfied, Settled, InLoop, Working, Settling
<1>8. ASSUME NEW r \in Runs, NEW cost \in 0 .. MaxCost,
             PhaseSucceeds(r, cost) \/ PhaseFails(r, cost)
      PROVE  OrderOf(r)'
  <2> DEFINE s == [mem[r] EXCEPT !.total = @ + cost]
  <2>1. /\ at[r] = "phase" /\ at'[r] \in Working /\ mem'[r] = s
        /\ current' = current /\ want' = want
    BY <1>8, <1>t DEF PhaseSucceeds, PhaseFails, Save, Advance, Working
  <2>2. /\ s.skipped = mem[r].skipped
        /\ s.completed = mem[r].completed /\ s.failed = mem[r].failed
    BY <1>t, Outcomes
  <2> HIDE DEF s
  <2>3. Settled(r)' = Settled(r) /\ mem[r].completed \subseteq mem'[r].completed
    BY <2>1, <2>2 DEF Settled
  <2> QED BY <2>1, <2>3, <1>i, OrderMonotone DEF InLoop, Working
<1>9. ASSUME NEW r \in Runs, RecordFailed(r) PROVE OrderOf(r)'
  <2> DEFINE s == [mem[r] EXCEPT !.failed = @ \cup {current[r]}]
  <2>1. /\ at[r] = "failing" /\ at'[r] = "striking" /\ mem'[r] = s
        /\ current' = current /\ want' = want
    BY <1>9, <1>t DEF RecordFailed, Save, Move
  <2>2. /\ s.failed = mem[r].failed \cup {current[r]}
        /\ s.completed = mem[r].completed /\ s.skipped = mem[r].skipped
    BY <1>t, Outcomes
  <2> HIDE DEF s
  <2>3. Settled(r) \subseteq Settled(r)' /\ mem[r].completed \subseteq mem'[r].completed
    BY <2>1, <2>2 DEF Settled
  <2> QED BY <2>1, <2>3, <1>i, OrderMonotone DEF InLoop, Working, Settling
<1>10. ASSUME NEW r \in Runs, RecordCompleted(r) PROVE OrderOf(r)'
  <2> DEFINE s == [mem[r] EXCEPT !.completed = @ \cup {current[r]}]
  <2>1. /\ at[r] = "record" /\ at'[r] = "announce" /\ mem'[r] = s
        /\ current' = current /\ want' = want
    BY <1>10, <1>t DEF RecordCompleted, Save, Move, runVars
  <2>2. /\ s.completed = mem[r].completed \cup {current[r]}
        /\ s.failed = mem[r].failed /\ s.skipped = mem[r].skipped
    BY <1>t, Outcomes
  <2> HIDE DEF s
  <2>3. Settled(r) \subseteq Settled(r)' /\ mem[r].completed \subseteq mem'[r].completed
    BY <2>1, <2>2 DEF Settled
  <2> QED BY <2>1, <2>3, <1>i, OrderMonotone DEF InLoop, Working, Settling
<1>11. ASSUME NEW r \in Runs, Announce(r) \/ GoOn(r) PROVE OrderOf(r)'
  <2>1. /\ at[r] \in Settling /\ at'[r] = "loop" /\ mem' = mem /\ want' = want
        /\ current'[r] = current[r] + 1
    BY <1>11, <1>t DEF Announce, GoOn, Next1, Move, Settling
  <2>2. current[r] \in Settled(r)
    BY <2>1, <1>i DEF OutcomeOf, Settled, Settling
  <2>3. current[r] \in Names
    BY <2>1, <1>t DEF TypeOK, Locked, Settling
  <2>4. Settled(r)' = Settled(r)
    BY <2>1 DEF Settled
  <2> QED BY <2>1, <2>2, <2>3, <2>4, <1>p, <1>i, OrderMonotone DEF InLoop, Passed
<1>12. ASSUME NEW r \in Runs, Signal(r) \/ Raise(r) \/ Crash(r) PROVE OrderOf(r)'
  BY <1>12, <1>t DEF Signal, Raise, Crash, EndHere, OrderOf, InLoop, Working, Settling
<1>13. CASE UNCHANGED vars
  BY <1>13, <1>i, OrderFrame DEF vars, runVars
<1>o. ASSUME NEW r \in Runs, Step(r) \/ Signal(r) \/ Raise(r) \/ Crash(r)
      PROVE  OrderOf(r)'
  BY <1>o, <1>1, <1>2, <1>3, <1>4, <1>5, <1>6, <1>7, <1>8, <1>9, <1>10, <1>11, <1>12
     DEF Step
<1>f. ASSUME NEW r \in Runs, NEW q \in Runs, q # r,
             Step(r) \/ Signal(r) \/ Raise(r) \/ Crash(r)
      PROVE  OrderOf(q)'
  <2>1. /\ at'[q] = at[q] /\ mem'[q] = mem[q]
        /\ current'[q] = current[q] /\ want'[q] = want[q]
    BY <1>f, <1>t, OtherRuns
  <2> QED BY <2>1, <1>i, OrderFrame
<1> QED
  <2>1. CASE Next
    BY <2>1, <1>o, <1>f DEF Next
  <2> QED BY <2>1, <1>13

LEMMA OrderHolds == Spec => []OrderInv
  BY OrderInitial, OrderStep, PTL DEF Spec

(* A run of all milestones works on one only when everything it depends on *)
(* is completed, whatever earlier runs left behind.                        *)
THEOREM DependenciesComeFirst == Spec => []DependenciesFirst
<1>1. ASSUME OrderInv, NEW r \in Runs, want[r] = Names,
             at[r] \in {"phase", "retry", "record"}, NEW d \in Deps[current[r]]
      PROVE  d \in mem[r].completed
  <2>1. current[r] \in Names
    BY <1>1 DEF OrderInv, OutcomeInv, TypeOK, Locked
  <2>2. d \in 1 .. (current[r] - 1) \/ d \in mem[r].completed
    BY <1>1, <2>1 DEF OrderInv, OrderOf, InLoop, Working, Satisfied
  <2>3. ASSUME d \in 1 .. (current[r] - 1) PROVE d \in Names /\ d < current[r]
    BY <2>1, <2>3, LoopAssumption DEF Names
  <2>4. ASSUME d \in 1 .. (current[r] - 1) PROVE d \in Settled(r)
    BY <2>3, <2>4, <1>1 DEF OrderInv, OrderOf, InLoop, Working
  <2>5. BadDeps(r) = {}
    BY <1>1 DEF OrderInv, OutcomeInv, OutcomeOf, Working
  <2> QED BY <2>2, <2>4, <2>5, <1>1 DEF BadDeps, Settled
<1>2. OrderInv => DependenciesFirst
  BY <1>1 DEF DependenciesFirst
<1> QED BY <1>2, OrderHolds, PTL

-----------------------------------------------------------------------------
(* Three strikes                                                           *)

StrikesOf(r) ==
  /\ at[r] \in {"new", "built", "preflight", "starting"} => strikes[r] = 0
  /\ Breaker = "off" /\ at[r] \in {"loop", "announce"} \cup Working => strikes[r] < 3

StrikesInv == TypeOK /\ \A r \in Runs : StrikesOf(r)

LEMMA StrikesInitial == Init => StrikesInv
  BY TypeInitial DEF Init, StrikesInv, StrikesOf, Working

LEMMA StrikesStep == StrikesInv /\ [Next]_vars => StrikesInv'
<1> SUFFICES ASSUME StrikesInv, [Next]_vars PROVE \A r \in Runs : StrikesOf(r)'
  BY TypeStep DEF StrikesInv
<1>t. TypeOK /\ at \in [Runs -> Points] /\ strikes \in [Runs -> Nat]
  BY DEF StrikesInv, TypeOK
<1>i. \A r \in Runs : StrikesOf(r)
  BY DEF StrikesInv
<1>1. ASSUME NEW r \in Runs,
             Construct(r) \/ Acquire(r) \/ Preflight(r) \/ FailPreflight(r)
             \/ EnterLoop(r) \/ BlockRunStart(r)
      PROVE  StrikesOf(r)'
  BY <1>1, <1>t, <1>i DEF Construct, Acquire, Preflight, FailPreflight, EnterLoop,
     BlockRunStart, Move, runVars, ghosts, StrikesOf, Working
<1>2. ASSUME NEW r \in Runs,
             PassOver(r) \/ SkipMilestone(r) \/ StartMilestone(r) \/ Retry(r)
             \/ GiveUp(r) \/ RecordCompleted(r)
      PROVE  StrikesOf(r)'
  BY <1>2, <1>t, <1>i DEF PassOver, SkipMilestone, StartMilestone, Due, Retry, GiveUp,
     RecordCompleted, Move, runVars, ghosts, StrikesOf, Working
<1>3. ASSUME NEW r \in Runs, NEW cost \in 0 .. MaxCost,
             PhaseSucceeds(r, cost) \/ PhaseFails(r, cost)
      PROVE  StrikesOf(r)'
  <2>1. at[r] = "phase" /\ at'[r] \in Working /\ strikes' = strikes
    BY <1>3, <1>t DEF PhaseSucceeds, PhaseFails, Advance, Working
  <2> QED BY <2>1, <1>i DEF StrikesOf, Working
<1>4. ASSUME NEW r \in Runs, RecordFailed(r) \/ Announce(r) PROVE StrikesOf(r)'
  BY <1>4, <1>t DEF RecordFailed, Announce, Move, StrikesOf, Working
<1>5. ASSUME NEW r \in Runs, GoOn(r) PROVE StrikesOf(r)'
  BY <1>5, <1>t DEF GoOn, MustTrip, Move, StrikesOf, Working
<1>6. ASSUME NEW r \in Runs,
             BreakOnBudget(r) \/ BlockInLoop(r) \/ EndLoop(r) \/ Trip(r)
             \/ Complete(r) \/ Close(r) \/ Signal(r) \/ Raise(r) \/ Crash(r)
      PROVE  StrikesOf(r)'
  BY <1>6, <1>t DEF BreakOnBudget, BlockInLoop, EndLoop, Trip, Complete, Close,
     Signal, Raise, Crash, EndHere, Move, StrikesOf, Working
<1>7. CASE UNCHANGED vars
  BY <1>7, <1>i DEF vars, runVars, StrikesOf
<1>o. ASSUME NEW r \in Runs, Step(r) \/ Signal(r) \/ Raise(r) \/ Crash(r)
      PROVE  StrikesOf(r)'
  BY <1>o, <1>1, <1>2, <1>3, <1>4, <1>5, <1>6 DEF Step
<1>f. ASSUME NEW r \in Runs, NEW q \in Runs, q # r,
             Step(r) \/ Signal(r) \/ Raise(r) \/ Crash(r)
      PROVE  StrikesOf(q)'
  <2>1. at'[q] = at[q] /\ strikes'[q] = strikes[q]
    BY <1>f, <1>t, OtherRuns
  <2> QED BY <2>1, <1>i DEF StrikesOf
<1> QED
  <2>1. CASE Next
    BY <2>1, <1>o, <1>f DEF Next
  <2> QED BY <2>1, <1>7

(* Without the class-aware breaker, no milestone is started after three    *)
(* consecutive failures of the run.                                        *)
THEOREM ThreeStrikesEndTheLoop == Spec => []ThreeStrikes
<1>1. StrikesInv => ThreeStrikes
  BY DEF StrikesInv, StrikesOf, ThreeStrikes, Working
<1> QED BY <1>1, StrikesInitial, StrikesStep, PTL DEF Spec

-----------------------------------------------------------------------------
(* Runs that do not overlap                                                *)

Active(r) == at[r] \notin {"new"} \cup Over

(* At most one run is active, and its state is the file's; a finished      *)
(* milestone is recorded, forgotten or about to be recorded, and an        *)
(* announced one is recorded for good.                                     *)
OneActive == \A r, q \in Runs : Active(r) /\ Active(q) => r = q
InSync    == \A r \in Runs : Active(r) => mem[r] = disk
FinishedIsKnown ==
  \A m \in Names :
    \/ finished[m] = 0
    \/ m \in unrecorded
    \/ /\ finished[m] = 1
       /\ m \in disk.completed \/ \E r \in Runs : at[r] = "record" /\ current[r] = m
AnnouncedIsKnown ==
  \A m \in Names :
    \/ announced[m] = 0
    \/ /\ announced[m] = 1 /\ m \in disk.completed
       /\ \A r \in Runs : at[r] = "announce" => current[r] # m

SerialInv ==
  /\ OutcomeInv
  /\ ~Overlap => OneActive /\ InSync /\ FinishedIsKnown /\ AnnouncedIsKnown

LEMMA SerialInitial == Init => SerialInv
  BY OutcomeInitial DEF Init, SerialInv, OneActive, InSync, FinishedIsKnown,
     AnnouncedIsKnown, Active

(* What a step of an active run is to the others and to the record.        *)
LEMMA SerialStep ==
  SerialInv /\ [Next]_vars =>
    SerialInv' /\ (~Overlap => disk.completed \subseteq disk'.completed)
<1> SUFFICES ASSUME SerialInv, [Next]_vars, ~Overlap
             PROVE  /\ OneActive' /\ InSync' /\ FinishedIsKnown' /\ AnnouncedIsKnown'
                    /\ disk.completed \subseteq disk'.completed
  BY OutcomeStep DEF SerialInv
<1> DEFINE Goal == /\ OneActive' /\ InSync' /\ FinishedIsKnown' /\ AnnouncedIsKnown'
                   /\ disk.completed \subseteq disk'.completed
<1>t. /\ TypeOK /\ mem \in [Runs -> State] /\ at \in [Runs -> Points] /\ disk \in State
      /\ current \in [Runs -> 1 .. Milestones + 1]
      /\ finished \in [Names -> Nat] /\ announced \in [Names -> Nat]
      /\ unrecorded \subseteq Names
      /\ \A r \in Runs : at[r] \in Working \cup Settling => current[r] \in Names
  BY DEF SerialInv, OutcomeInv, TypeOK, Working, Settling, Locked
<1>i. OneActive /\ InSync /\ FinishedIsKnown /\ AnnouncedIsKnown
  BY DEF SerialInv
<1>u. \A r \in Runs : OutcomeOf(r)
  BY DEF SerialInv, OutcomeInv
(* The others are not active, before the step and after it.                *)
<1>a. ASSUME NEW r \in Runs, Active(r), NEW q \in Runs, q # r,
             Step(r) \/ Signal(r) \/ Raise(r) \/ Crash(r)
      PROVE  /\ ~Active(q) /\ ~Active(q)'
             /\ at[q] \notin {"record", "announce"} /\ at'[q] \notin {"record", "announce"}
  BY <1>a, <1>i, <1>t, OtherRuns DEF OneActive, Active, Over
(* So whatever the active run does, it stays the only one.                 *)
<1>b. ASSUME NEW r \in Runs, Active(r),
             Step(r) \/ Signal(r) \/ Raise(r) \/ Crash(r),
             Active(r)' => mem'[r] = disk'
      PROVE  OneActive' /\ InSync'
  BY <1>a, <1>b DEF OneActive, InSync
(* A step that changes neither the books nor completed.                    *)
<1>c. ASSUME NEW r \in Runs, Active(r),
             Step(r) \/ Signal(r) \/ Raise(r) \/ Crash(r),
             at[r] # "record", at'[r] \notin {"record", "announce"},
             Active(r)' => mem'[r] = disk',
             finished' = finished, unrecorded' = unrecorded, announced' = announced,
             disk'.completed = disk.completed
      PROVE  Goal
  <2>1. OneActive' /\ InSync'
    BY <1>b, <1>c
  <2>2. FinishedIsKnown'
    <3>1. \A q \in Runs : at[q] # "record"
      BY <1>c, <1>a
    <3> QED BY <3>1, <1>c, <1>i DEF FinishedIsKnown
  <2>3. AnnouncedIsKnown'
    <3>1. \A q \in Runs : at'[q] # "announce"
      BY <1>c, <1>a
    <3> QED BY <3>1, <1>c, <1>i DEF AnnouncedIsKnown
  <2> QED BY <2>1, <2>2, <2>3, <1>c
<1>1. ASSUME NEW r \in Runs, Construct(r) PROVE Goal
  <2>1. \A q \in Runs : at[q] \in Over \cup {"new"}
    BY <1>1 DEF Construct
  <2>2. /\ at' = [at EXCEPT ![r] = "built"] /\ mem' = [mem EXCEPT ![r] = disk]
        /\ disk' = disk /\ finished' = finished /\ announced' = announced
        /\ unrecorded' = unrecorded
    BY <1>1 DEF Construct, Move, ghosts
  <2>3. OneActive' /\ InSync'
    BY <2>1, <2>2, <1>t DEF OneActive, InSync, Active
  <2>4. \A q \in Runs : at[q] # "record" /\ at'[q] # "announce"
    BY <2>1, <2>2, <1>t DEF Over
  <2>5. FinishedIsKnown' /\ AnnouncedIsKnown'
    BY <2>2, <2>4, <1>i DEF FinishedIsKnown, AnnouncedIsKnown
  <2> QED BY <2>2, <2>3, <2>5
<1>2. ASSUME NEW r \in Runs,
             Acquire(r) \/ Preflight(r) \/ FailPreflight(r) \/ EnterLoop(r)
             \/ BlockRunStart(r) \/ PassOver(r) \/ BreakOnBudget(r)
             \/ StartMilestone(r) \/ BlockInLoop(r) \/ EndLoop(r) \/ Retry(r)
             \/ GiveUp(r) \/ Trip(r) \/ GoOn(r) \/ Complete(r) \/ Close(r)
      PROVE  Goal
  <2>1. /\ Active(r) /\ at[r] # "record" /\ at'[r] \notin {"record", "announce"}
        /\ mem' = mem /\ disk' = disk /\ finished' = finished
        /\ announced' = announced /\ unrecorded' = unrecorded
    BY <1>2, <1>t DEF Acquire, Preflight, FailPreflight, EnterLoop, BlockRunStart,
       PassOver, BreakOnBudget, StartMilestone, BlockInLoop, EndLoop, Retry, GiveUp,
       Trip, GoOn, Complete, Close, Due, Move, runVars, ghosts, Active, Over
  <2>2. mem'[r] = disk'
    BY <2>1, <1>i DEF InSync
  <2> QED BY <2>1, <2>2, <1>2, <1>c DEF Step
<1>3. ASSUME NEW r \in Runs, SkipMilestone(r) \/ RecordFailed(r) PROVE Goal
  <2>1. /\ Active(r) /\ at[r] # "record" /\ at'[r] \notin {"record", "announce"}
        /\ finished' = finished /\ announced' = announced /\ unrecorded' = unrecorded
        /\ mem'[r] = disk'
    BY <1>3, <1>t DEF SkipMilestone, RecordFailed, Due, Save, Move, ghosts, Active, Over
  <2>2. disk'.completed = mem[r].completed
    <3>1. \/ disk' = [mem[r] EXCEPT !.skipped = @ \cup {current[r]}]
          \/ disk' = [mem[r] EXCEPT !.failed = @ \cup {current[r]}]
      BY <1>3 DEF SkipMilestone, RecordFailed, Save
    <3>2. mem[r] \in State
      BY <1>t
    <3>3. CASE disk' = [mem[r] EXCEPT !.skipped = @ \cup {current[r]}]
      BY <3>2, <3>3, Outcomes
    <3>4. CASE disk' = [mem[r] EXCEPT !.failed = @ \cup {current[r]}]
      BY <3>2, <3>4, Outcomes
    <3> QED BY <3>1, <3>3, <3>4
  <2>3. disk'.completed = disk.completed
    BY <2>1, <2>2, <1>i DEF InSync
  <2> QED BY <2>1, <2>3, <1>3, <1>c DEF Step
<1>4. ASSUME NEW r \in Runs, NEW cost \in 0 .. MaxCost,
             PhaseSucceeds(r, cost) \/ PhaseFails(r, cost)
      PROVE  Goal
  <2>1. /\ Active(r) /\ at[r] = "phase" /\ mem'[r] = disk' /\ current' = current
        /\ announced' = announced /\ unrecorded' = unrecorded
        /\ \/ finished' = finished /\ at'[r] \in {"phase", "retry"}
           \/ /\ finished' = [finished EXCEPT ![current[r]] = @ + 1]
              /\ at'[r] = "record"
    BY <1>4, <1>t DEF PhaseSucceeds, PhaseFails, Save, Advance, Active, Over
  <2>2. disk'.completed = disk.completed
    <3>1. disk' = [mem[r] EXCEPT !.total = @ + cost]
      BY <1>4 DEF PhaseSucceeds, PhaseFails, Save
    <3>2. disk'.completed = mem[r].completed
      BY <3>1, <1>t, Outcomes
    <3> QED BY <3>2, <2>1, <1>i DEF InSync
  <2>s. Step(r)
    BY <1>4 DEF Step
  <2>3. CASE finished' = finished /\ at'[r] \in {"phase", "retry"}
    BY <2>1, <2>2, <2>3, <2>s, <1>c
  <2>4. CASE finished' = [finished EXCEPT ![current[r]] = @ + 1] /\ at'[r] = "record"
    <3>1. \A q \in Runs : at[q] # "record" /\ at'[q] # "announce"
      BY <2>1, <2>4, <2>s, <1>a
    <3>2. current[r] \in Names /\ current[r] \notin disk.completed
      BY <2>1, <1>t, <1>u, <1>i DEF OutcomeOf, Working, Settled, InSync
    <3>3. finished[current[r]] = 0 \/ current[r] \in unrecorded
      BY <3>1, <3>2, <1>i DEF FinishedIsKnown
    <3>4. \A m \in Names : m # current[r] => finished'[m] = finished[m]
      BY <2>4, <1>t
    <3>5. finished[current[r]] = 0 => finished'[current[r]] = 1
      BY <2>4, <3>2, <1>t
    <3>6. FinishedIsKnown'
      BY <3>1, <3>2, <3>3, <3>4, <3>5, <2>1, <2>2, <2>4, <1>i DEF FinishedIsKnown
    <3>7. AnnouncedIsKnown'
      BY <3>1, <2>1, <2>2, <1>i DEF AnnouncedIsKnown
    <3> QED BY <3>6, <3>7, <2>1, <2>2, <2>s, <1>b
  <2> QED BY <2>1, <2>3, <2>4
<1>5. ASSUME NEW r \in Runs, RecordCompleted(r) PROVE Goal
  <2>1. /\ Active(r) /\ at[r] = "record" /\ at'[r] = "announce" /\ mem'[r] = disk'
        /\ finished' = finished /\ announced' = announced /\ unrecorded' = unrecorded
        /\ current' = current
    BY <1>5, <1>t DEF RecordCompleted, Save, Move, runVars, ghosts, Active, Over
  <2>2. disk'.completed = disk.completed \cup {current[r]}
    <3>1. disk' = [mem[r] EXCEPT !.completed = @ \cup {current[r]}]
      BY <1>5 DEF RecordCompleted, Save
    <3>2. disk'.completed = mem[r].completed \cup {current[r]}
      BY <3>1, <1>t, Outcomes
    <3> QED BY <3>2, <2>1, <1>i DEF InSync
  <2>s. Step(r)
    BY <1>5 DEF Step
  <2>3. \A q \in Runs \ {r} : at[q] # "record" /\ at'[q] # "announce"
    BY <2>1, <2>s, <1>a
  <2>4. FinishedIsKnown'
    <3> SUFFICES ASSUME NEW m \in Names, m \notin unrecorded, finished[m] # 0
                 PROVE  finished[m] = 1 /\ m \in disk'.completed
      BY <2>1 DEF FinishedIsKnown
    <3>1. /\ finished[m] = 1
          /\ m \in disk.completed \/ \E q \in Runs : at[q] = "record" /\ current[q] = m
      BY <1>i DEF FinishedIsKnown
    <3> QED BY <3>1, <2>2, <2>3
  <2>5. AnnouncedIsKnown'
    <3>1. current[r] \notin disk.completed
      BY <2>1, <1>u, <1>i DEF OutcomeOf, Working, Settled, InSync
    <3> QED BY <3>1, <2>1, <2>2, <2>3, <1>i DEF AnnouncedIsKnown
  <2> QED BY <2>1, <2>2, <2>4, <2>5, <2>s, <1>b
<1>6. ASSUME NEW r \in Runs, Announce(r) PROVE Goal
  <2>1. /\ Active(r) /\ at[r] = "announce" /\ at'[r] = "loop" /\ mem' = mem
        /\ disk' = disk /\ finished' = finished /\ unrecorded' = unrecorded
        /\ announced' = [announced EXCEPT ![current[r]] = @ + 1]
    BY <1>6, <1>t DEF Announce, Move, Active, Over
  <2>s. Step(r)
    BY <1>6 DEF Step
  <2>2. \A q \in Runs : at[q] # "record" /\ at'[q] # "announce"
    BY <2>1, <2>s, <1>a
  <2>3. current[r] \in Names /\ current[r] \in disk.completed
    BY <2>1, <1>t, <1>u, <1>i DEF OutcomeOf, Settling, InSync
  <2>4. announced[current[r]] = 0
    BY <2>1, <2>3, <1>i DEF AnnouncedIsKnown
  <2>5. /\ announced'[current[r]] = 1
        /\ \A m \in Names : m # current[r] => announced'[m] = announced[m]
    BY <2>1, <2>3, <2>4, <1>t
  <2>6. AnnouncedIsKnown'
    BY <2>1, <2>2, <2>3, <2>5, <1>i DEF AnnouncedIsKnown
  <2>7. FinishedIsKnown'
    BY <2>1, <2>2, <1>i DEF FinishedIsKnown
  <2>8. mem'[r] = disk'
    BY <2>1, <1>i DEF InSync
  <2> QED BY <2>1, <2>6, <2>7, <2>8, <2>s, <1>b
<1>7. ASSUME NEW r \in Runs, Signal(r) \/ Raise(r) \/ Crash(r) PROVE Goal
  <2>1. /\ Active(r) /\ ~Active(r)' /\ at'[r] \in Over
        /\ finished' = finished /\ announced' = announced /\ current' = current
        /\ unrecorded' = IF at[r] = "record" THEN unrecorded \cup {current[r]}
                                             ELSE unrecorded
    BY <1>7, <1>t DEF Signal, Raise, Crash, EndHere, runVars, Active, Over, Locked
  <2>2. disk' = disk
    <3>1. mem[r] = disk
      BY <2>1, <1>i DEF InSync
    <3> QED BY <3>1, <1>7 DEF Signal, Raise, Crash
  <2>3. \A q \in Runs \ {r} : at[q] # "record" /\ at'[q] # "announce"
    BY <2>1, <1>7, <1>a
  <2>4. FinishedIsKnown'
    <3> SUFFICES ASSUME NEW m \in Names, m \notin unrecorded', finished[m] # 0
                 PROVE  finished[m] = 1 /\ m \in disk.completed
      BY <2>1, <2>2 DEF FinishedIsKnown
    <3>1. /\ finished[m] = 1
          /\ m \in disk.completed \/ \E q \in Runs : at[q] = "record" /\ current[q] = m
      BY <2>1, <1>i DEF FinishedIsKnown
    <3> QED BY <3>1, <2>1, <2>3
  <2>5. AnnouncedIsKnown'
    BY <2>1, <2>2, <2>3, <1>i DEF AnnouncedIsKnown, Over
  <2> QED BY <2>1, <2>2, <2>4, <2>5, <1>7, <1>b
<1>8. ASSUME UNCHANGED vars PROVE Goal
  <2>1. /\ disk' = disk /\ mem' = mem /\ at' = at /\ current' = current
        /\ finished' = finished /\ unrecorded' = unrecorded /\ announced' = announced
    BY <1>8 DEF vars, runVars, ghosts
  <2> QED BY <2>1, <1>i DEF OneActive, InSync, FinishedIsKnown, AnnouncedIsKnown, Active
<1> HIDE DEF Goal
<1>o. ASSUME NEW r \in Runs, Step(r) \/ Signal(r) \/ Raise(r) \/ Crash(r)
      PROVE  Goal
  BY <1>o, <1>1, <1>2, <1>3, <1>4, <1>5, <1>6, <1>7 DEF Step
<1>9. Goal
  <2>1. CASE Next
    BY <2>1, <1>o DEF Next
  <2> QED BY <2>1, <1>8
<1> QED BY <1>9 DEF Goal

LEMMA SerialHolds == Spec => []SerialInv
<1>1. SerialInv /\ [Next]_vars => SerialInv'
  BY SerialStep
<1> QED BY <1>1, SerialInitial, PTL DEF Spec

(* Of runs that do not overlap, no two take a milestone through all its    *)
(* phases, unless one ended between the last phase and the record.         *)
THEOREM FinishedAtMostOnce == ASSUME ~Overlap PROVE Spec => []FinishedOnce
<1>1. SerialInv => FinishedOnce
  BY DEF SerialInv, FinishedIsKnown, FinishedOnce
<1> QED BY <1>1, SerialHolds, PTL

(* They announce a milestone at most once, and only when it is recorded.   *)
THEOREM AnnouncedAsRecorded == ASSUME ~Overlap PROVE Spec => []AnnouncedFromRecord
<1>1. SerialInv => AnnouncedFromRecord
  BY DEF SerialInv, AnnouncedIsKnown, AnnouncedFromRecord
<1> QED BY <1>1, SerialHolds, PTL

(* And what the file says is completed stays completed.                    *)
THEOREM CompletedForEver == ASSUME ~Overlap PROVE Spec => CompletedStays
<1>1. SerialInv /\ [Next]_vars => [disk.completed \subseteq disk'.completed]_vars
  BY SerialStep
<1> QED BY <1>1, SerialHolds, PTL DEF Spec, CompletedStays

-----------------------------------------------------------------------------
(* The ledger of outcomes                                                  *)

LEMMA LedgerInitial == Init => Ledger!Init
  BY DEF Init, Fresh, Ledger!Init, RecordedOutcome

(* What leaves the three lists alone leaves the ledger alone.              *)
LEMMA SameLedger ==
  ASSUME disk'.completed = disk.completed, disk'.failed = disk.failed,
         disk'.skipped = disk.skipped
  PROVE  RecordedOutcome' = RecordedOutcome
  BY DEF RecordedOutcome

(* A milestone on none of the three lists is put on one of them.           *)
LEMMA OneMoreOutcome ==
  ASSUME NEW c \in Names, NEW result \in {"completed", "failed", "skipped"},
         c \notin disk.completed \cup disk.failed \cup disk.skipped,
         disk'.completed = IF result = "completed" THEN disk.completed \cup {c}
                                                   ELSE disk.completed,
         disk'.failed = IF result = "failed" THEN disk.failed \cup {c} ELSE disk.failed,
         disk'.skipped = IF result = "skipped" THEN disk.skipped \cup {c}
                                               ELSE disk.skipped
  PROVE  Ledger!Settle(c, result)
<1>1. RecordedOutcome[c] = "pending"
  BY DEF RecordedOutcome
<1>2. RecordedOutcome' = [RecordedOutcome EXCEPT ![c] = result]
  <2> SUFFICES ASSUME NEW m \in Names
               PROVE  RecordedOutcome'[m] = [RecordedOutcome EXCEPT ![c] = result][m]
    BY DEF RecordedOutcome
  <2>1. CASE m = c
    BY <2>1 DEF RecordedOutcome
  <2>2. CASE m # c
    BY <2>2 DEF RecordedOutcome
  <2> QED BY <2>1, <2>2
<1> QED BY <1>1, <1>2 DEF Ledger!Settle

(* The loop and the ledger agree on what has become hopeless.              *)
LEMMA HopelessMeansBad ==
  ASSUME TypeOK, NEW r \in Runs, current[r] \in Names, mem[r] = disk, Consistent(disk)
  PROVE  Ledger!Hopeless(current[r]) <=> BadDeps(r) # {}
<1>1. disk.failed \subseteq Names /\ disk.skipped \subseteq Names
  BY StateFields DEF TypeOK
<1>2. \A d \in Names : RecordedOutcome[d] \in {"failed", "skipped"}
                         <=> d \in disk.failed \cup disk.skipped
  BY DEF RecordedOutcome, Consistent
<1>3. Needed[current[r]] = Deps[current[r]] \cap Names
  BY DEF Needed
<1> QED BY <1>1, <1>2, <1>3 DEF Ledger!Hopeless, Ledger!Missed, BadDeps

LEMMA LedgerStep ==
  SerialInv /\ [Next]_vars /\ ~Overlap => [Ledger!Next]_RecordedOutcome
<1> SUFFICES ASSUME SerialInv, [Next]_vars, ~Overlap
             PROVE  Ledger!Next \/ RecordedOutcome' = RecordedOutcome
  OBVIOUS
<1> DEFINE Goal == Ledger!Next \/ RecordedOutcome' = RecordedOutcome
<1>t. /\ TypeOK /\ mem \in [Runs -> State] /\ disk \in State /\ Consistent(disk)
      /\ \A r \in Runs : at[r] \in Working => current[r] \in Names
  BY DEF SerialInv, OutcomeInv, TypeOK, Working, Locked
<1>i. InSync /\ \A r \in Runs : OutcomeOf(r)
  BY DEF SerialInv, OutcomeInv
<1>1. ASSUME disk' = disk PROVE Goal
  BY <1>1, SameLedger
<1>2. ASSUME NEW r \in Runs, NEW cost \in 0 .. MaxCost,
             PhaseSucceeds(r, cost) \/ PhaseFails(r, cost)
      PROVE  Goal
  <2>1. mem[r] = disk
    BY <1>2, <1>i DEF PhaseSucceeds, PhaseFails, InSync, Active, Over
  <2>2. disk' = [disk EXCEPT !.total = @ + cost]
    BY <1>2, <2>1 DEF PhaseSucceeds, PhaseFails, Save
  <2> QED BY <2>2, <1>t, Outcomes, SameLedger
<1>3. ASSUME NEW r \in Runs, SkipMilestone(r) PROVE Goal
  <2>1. mem[r] = disk /\ current[r] \in Names
    BY <1>3, <1>t, <1>i DEF SkipMilestone, Due, InSync, Active, Over, TypeOK
  <2>2. disk' = [disk EXCEPT !.skipped = @ \cup {current[r]}]
    BY <1>3, <2>1 DEF SkipMilestone, Save
  <2>3. /\ disk'.skipped = disk.skipped \cup {current[r]}
        /\ disk'.completed = disk.completed /\ disk'.failed = disk.failed
    BY <2>2, <1>t, Outcomes
  <2>4. current[r] \notin disk.completed \cup disk.failed \cup disk.skipped
    BY <1>3, <2>1 DEF SkipMilestone, Due, Settled
  <2>5. Ledger!Settle(current[r], "skipped")
    BY <2>1, <2>3, <2>4, OneMoreOutcome
  <2>6. Ledger!Hopeless(current[r])
    BY <1>3, <1>t, <2>1, HopelessMeansBad DEF SkipMilestone
  <2> QED BY <2>1, <2>5, <2>6 DEF Ledger!Next, Ledger!Skip
(* A milestone that the run works on has no outcome and is not hopeless.   *)
<1>w. ASSUME NEW r \in Runs, at[r] \in Working
      PROVE  /\ mem[r] = disk /\ current[r] \in Names /\ ~Ledger!Hopeless(current[r])
             /\ current[r] \notin disk.completed \cup disk.failed \cup disk.skipped
  <2>1. mem[r] = disk /\ current[r] \in Names
    BY <1>w, <1>t, <1>i DEF Working, InSync, Active, Over
  <2>2. current[r] \notin Settled(r) /\ BadDeps(r) = {}
    BY <1>w, <1>i DEF OutcomeOf
  <2> QED BY <2>1, <2>2, <1>t, HopelessMeansBad DEF Settled
<1>4. ASSUME NEW r \in Runs, RecordFailed(r) PROVE Goal
  <2>1. at[r] \in Working
    BY <1>4 DEF RecordFailed, Move, Working
  <2>2. disk' = [disk EXCEPT !.failed = @ \cup {current[r]}]
    BY <1>4, <1>w, <2>1 DEF RecordFailed, Save
  <2>3. /\ disk'.failed = disk.failed \cup {current[r]}
        /\ disk'.completed = disk.completed /\ disk'.skipped = disk.skipped
    BY <2>2, <1>t, Outcomes
  <2>4. Ledger!Settle(current[r], "failed")
    BY <1>w, <2>1, <2>3, OneMoreOutcome
  <2> QED BY <1>w, <2>1, <2>4 DEF Ledger!Next, Ledger!Fail
<1>5. ASSUME NEW r \in Runs, RecordCompleted(r) PROVE Goal
  <2>1. at[r] \in Working
    BY <1>5 DEF RecordCompleted, Move, Working
  <2>2. disk' = [disk EXCEPT !.completed = @ \cup {current[r]}]
    BY <1>5, <1>w, <2>1 DEF RecordCompleted, Save
  <2>3. /\ disk'.completed = disk.completed \cup {current[r]}
        /\ disk'.failed = disk.failed /\ disk'.skipped = disk.skipped
    BY <2>2, <1>t, Outcomes
  <2>4. Ledger!Settle(current[r], "completed")
    BY <1>w, <2>1, <2>3, OneMoreOutcome
  <2> QED BY <1>w, <2>1, <2>4 DEF Ledger!Next, Ledger!Achieve
<1>6. ASSUME NEW r \in Runs, Signal(r) PROVE Goal
  <2>1. mem[r] = disk
    BY <1>6, <1>i DEF Signal, InSync, Active, Over, Locked
  <2> QED BY <1>6, <2>1, <1>1 DEF Signal
<1>7. ASSUME NEW r \in Runs,
             Construct(r) \/ Acquire(r) \/ Preflight(r) \/ FailPreflight(r)
             \/ EnterLoop(r) \/ BlockRunStart(r) \/ PassOver(r) \/ BreakOnBudget(r)
             \/ StartMilestone(r) \/ BlockInLoop(r) \/ EndLoop(r) \/ Retry(r)
             \/ GiveUp(r) \/ Trip(r) \/ GoOn(r) \/ Announce(r) \/ Complete(r)
             \/ Close(r) \/ Raise(r) \/ Crash(r)
      PROVE  disk' = disk
  BY <1>7 DEF Construct, Acquire, Preflight, FailPreflight, EnterLoop, BlockRunStart,
     PassOver, BreakOnBudget, StartMilestone, BlockInLoop, EndLoop, Retry, GiveUp, Trip,
     GoOn, Announce, Complete, Close, Raise, Crash
<1>8. UNCHANGED vars => disk' = disk
  BY DEF vars
<1> HIDE DEF Goal
<1>9. ASSUME NEW r \in Runs, Step(r) \/ Signal(r) \/ Raise(r) \/ Crash(r)
      PROVE  Goal
  BY <1>9, <1>1, <1>2, <1>3, <1>4, <1>5, <1>6, <1>7 DEF Step
<1>10. Goal
  <2>1. CASE Next
    BY <2>1, <1>9 DEF Next
  <2> QED BY <2>1, <1>8, <1>1
<1> QED BY <1>10 DEF Goal

(* The runs of a project, when they do not overlap, implement the ledger.  *)
THEOREM RunsKeepTheLedger == ASSUME ~Overlap PROVE Spec => KeepsLedger
<1>1. SerialInv /\ [Next]_vars => [Ledger!Next]_RecordedOutcome
  BY LedgerStep
<1> QED BY <1>1, LedgerInitial, SerialHolds, PTL DEF Spec, KeepsLedger, Ledger!Spec

-----------------------------------------------------------------------------
(* The abstract lock                                                       *)

TurnAt(point) == IF point \in {"new", "built"} THEN "waiting"
                 ELSE IF point \in Locked THEN "working" ELSE "over"

LEMMA LockInitial == Init => Lock!Init
  BY DEF Init, Lock!Init, Turn

LEMMA TurnMoves ==
  ASSUME TypeOK, NEW r \in Runs, NEW point, at' = [at EXCEPT ![r] = point]
  PROVE  Turn[r] = TurnAt(at[r]) /\ Turn' = [Turn EXCEPT ![r] = TurnAt(point)]
  BY DEF TypeOK, Turn, TurnAt

(* A run that goes on with what it was doing, or that is over.             *)
LEMMA GoesOnOrEnds ==
  ASSUME TypeOK, NEW r \in Runs, NEW point, at' = [at EXCEPT ![r] = point],
         TurnAt(point) \in {TurnAt(at[r]), "over"}
  PROVE  [Lock!Next]_Turn
<1>1. Turn[r] = TurnAt(at[r]) /\ Turn' = [Turn EXCEPT ![r] = TurnAt(point)]
  BY TurnMoves
<1>2. CASE TurnAt(point) = TurnAt(at[r])
  BY <1>1, <1>2 DEF Turn
<1>3. CASE TurnAt(point) = "over" /\ TurnAt(at[r]) \in {"waiting", "working"}
  BY <1>1, <1>3 DEF Lock!Next, Lock!Leave, Lock!GiveUp, Lock!Become
<1> QED BY <1>2, <1>3 DEF TurnAt

LEMMA LockStep == TypeOK /\ [Next]_vars => [Lock!Next]_Turn
<1> SUFFICES ASSUME TypeOK, [Next]_vars PROVE [Lock!Next]_Turn
  OBVIOUS
<1> USE DEF Locked, Over, TurnAt
<1>1. ASSUME NEW r \in Runs, Acquire(r) PROVE [Lock!Next]_Turn
  <2>1. CASE Free /\ Move(r, "built", "preflight") /\ lock' = r
    (* Whoever works holds the lock, and its holder's run is not over.     *)
    <3>1. \A q \in Runs : at[q] \notin Locked
      BY <2>1 DEF Free, TypeOK
    <3>2. at[r] = "built" /\ at' = [at EXCEPT ![r] = "preflight"]
      BY <2>1 DEF Move
    <3>3. Turn[r] = "waiting" /\ Turn' = [Turn EXCEPT ![r] = "working"]
      BY <3>2, TurnMoves
    <3>4. \A q \in Runs : Turn[q] # "working"
      BY <3>1 DEF Turn
    <3> QED BY <3>3, <3>4 DEF Lock!Next, Lock!Enter, Lock!Become
  <2>2. CASE Move(r, "built", "refused")
    BY <2>2, GoesOnOrEnds DEF Move
  <2> QED BY <1>1, <2>1, <2>2 DEF Acquire
<1>2. ASSUME at' = at PROVE [Lock!Next]_Turn
  BY <1>2 DEF Turn
<1>3. ASSUME NEW r \in Runs, NEW point \in Locked, at[r] \in Locked,
             at' = [at EXCEPT ![r] = point]
      PROVE  [Lock!Next]_Turn
  BY <1>3, GoesOnOrEnds
<1>4. ASSUME NEW r \in Runs, NEW point \in Over, at' = [at EXCEPT ![r] = point]
      PROVE  [Lock!Next]_Turn
  BY <1>4, GoesOnOrEnds
<1>5. ASSUME NEW r \in Runs, Construct(r) PROVE [Lock!Next]_Turn
  BY <1>5, GoesOnOrEnds DEF Construct, Move
<1>6. ASSUME NEW r \in Runs,
             Preflight(r) \/ EnterLoop(r) \/ BreakOnBudget(r) \/ StartMilestone(r)
             \/ EndLoop(r) \/ PassOver(r) \/ Retry(r) \/ GiveUp(r) \/ RecordFailed(r)
             \/ Trip(r) \/ GoOn(r) \/ RecordCompleted(r) \/ Announce(r) \/ Complete(r)
      PROVE  at[r] \in Locked /\ \E point \in Locked : at' = [at EXCEPT ![r] = point]
  BY <1>6 DEF Preflight, EnterLoop, BreakOnBudget, StartMilestone, EndLoop, PassOver,
     Retry, GiveUp, RecordFailed, Trip, GoOn, RecordCompleted, Announce, Complete, Move, Due
<1>7. ASSUME NEW r \in Runs, NEW cost \in 0 .. MaxCost,
             PhaseSucceeds(r, cost) \/ PhaseFails(r, cost)
      PROVE  \/ at' = at
             \/ at[r] \in Locked /\ \E point \in Locked : at' = [at EXCEPT ![r] = point]
  BY <1>7 DEF PhaseSucceeds, Advance, PhaseFails
<1>8. ASSUME NEW r \in Runs,
             FailPreflight(r) \/ BlockRunStart(r) \/ BlockInLoop(r) \/ Close(r)
             \/ Signal(r) \/ Raise(r) \/ Crash(r)
      PROVE  \E point \in Over : at' = [at EXCEPT ![r] = point]
  BY <1>8 DEF FailPreflight, BlockRunStart, BlockInLoop, Close, Signal, Raise, Crash,
     EndHere, Move
<1>9. ASSUME NEW r \in Runs, SkipMilestone(r) PROVE at' = at
  BY <1>9 DEF SkipMilestone
<1>10. ASSUME NEW r \in Runs, Step(r) \/ Signal(r) \/ Raise(r) \/ Crash(r)
       PROVE  [Lock!Next]_Turn
  <2> HIDE DEF Locked, Over, TurnAt
  <2> QED BY <1>10, <1>1, <1>2, <1>3, <1>4, <1>5, <1>6, <1>7, <1>8, <1>9 DEF Step
<1>11. CASE UNCHANGED vars
  BY <1>2, <1>11 DEF vars
<1> QED BY <1>10, <1>11 DEF Next

(* Runs of the loop, overlapping or not and however they end, work one at  *)
(* a time and once each.                                                   *)
THEOREM RunsTakeTurns == Spec => KeepsLock
  BY LockInitial, LockStep, TypeCorrect, PTL DEF Spec, KeepsLock, Lock!Spec

=============================================================================
