----------------------------- MODULE BudgetGate -----------------------------
(***************************************************************************)
(* How the orchestrator accounts for what its `claude -p` calls cost, and  *)
(* how max_total_budget_usd stops them.                                    *)
(*                                                                         *)
(* Worker threads share two counters: `total` is state.total_cost_usd,     *)
(* `inFlight` is _in_flight_cost, the spend of calls that have not         *)
(* returned.  _run_claude charges every attempt to inFlight, takes the     *)
(* charge back when the call returns, and its caller adds the cost to      *)
(* total with _accumulate_cost, at once or after several more calls, or    *)
(* not at all when an error on the way discards the result.  The gate in   *)
(* front of every attempt reads the two counters one after the other.      *)
(*                                                                         *)
(* The state file is written by _accumulate_cost under _state_lock and by  *)
(* the phases without it; a crash resumes from the file.                   *)
(*                                                                         *)
(* Money is a natural number of units; only what the program has parsed    *)
(* counts as spent.                                                        *)
(***************************************************************************)
EXTENDS Integers

CONSTANTS
  Workers,       \* the threads that run milestones: one, or a parallel wave
  Nobody,        \* _state_lock is free
  MaxTotal,      \* max_total_budget_usd
  MaxCost,       \* the most one attempt costs
  Attempts,      \* len(RETRY_DELAYS) + 1
  BatchMax,      \* how many calls a caller makes before it settles
  Discards,      \* may an error on the way discard the cost of a result?
  SaveFails,     \* may a write of the state file fail?
  LateSaves,     \* do the phases save the state, without _state_lock?
  MaxCrashes,    \* bound: how often the process may die and resume
  MaxSpend       \* bound: no attempt starts that could spend more than this

ASSUME BudgetAssumption ==
  /\ Workers # {} /\ Nobody \notin Workers
  /\ MaxTotal \in Nat \ {0} /\ MaxCost \in Nat
  /\ Attempts \in Nat \ {0} /\ BatchMax \in Nat \ {0}
  /\ MaxCrashes \in Nat /\ MaxSpend \in Nat
  /\ {Discards, SaveFails, LateSaves} \subseteq BOOLEAN

VARIABLES
  total,      \* state.total_cost_usd
  alerted,    \* state.last_budget_alert_pct
  disk,       \* the two of them in workflow-state.json
  stateLock,  \* who holds _state_lock
  inFlight,   \* _in_flight_cost
  at,         \* where each worker is
  calls,      \* the calls of the worker's batch so far
  pending,    \* what they returned and the worker has not settled
  tries,      \* the attempts of the current call
  mine,       \* its my_charged, always equal to run_claude's accumulated_cost
  others,     \* what its gate read of _in_flight_cost, less mine
  copy,       \* the state a phase is about to write
  event,      \* the threshold of the BudgetAlert about to be emitted, or 0
  alerts,     \* ghost: how often each threshold's alert was emitted
  spent,      \* ghost: what all attempts have cost
  unsettled,  \* ghost: of it, returned to a caller that has not settled
  lost,       \* ghost: of it, discarded by an error or by a crash
  counted,    \* ghost: total + inFlight when the worker's gate read inFlight
  crashes,    \* how often the process has died
  alertFile   \* ghost: "kept", until a failed write or an older copy rolls
              \* the last alert in the file back

stateVars == <<total, alerted, disk, stateLock>>
batchVars == <<calls, pending>>
callVars  == <<tries, mine, others, counted>>
alertVars == <<copy, event, alerts, alertFile>>
books     == <<spent, unsettled, lost>>

vars == <<stateVars, inFlight, at, batchVars, callVars, alertVars, books, crashes>>

Thresholds == {50, 75, 90, 100}
Saved == [total : Nat, alerted : Thresholds \cup {0}]
Empty == [total |-> 0, alerted |-> 0]
Memory == [total |-> total, alerted |-> alerted]

(* "gate" to "handoff" are inside _run_claude; "save" and "alert" inside   *)
(* _accumulate_cost with _state_lock held; "write" inside save_state.      *)
Places == {"idle", "gate", "decide", "claude", "handoff", "returned",
           "save", "alert", "emit", "write"}

TypeOK ==
  /\ total \in Nat /\ alerted \in Thresholds \cup {0}
  /\ disk \in Saved
  /\ stateLock \in Workers \cup {Nobody}
  /\ inFlight \in Int
  /\ at \in [Workers -> Places]
  /\ calls \in [Workers -> Nat] /\ pending \in [Workers -> Nat]
  /\ tries \in [Workers -> Nat] /\ mine \in [Workers -> Nat]
  /\ others \in [Workers -> Int]
  /\ counted \in [Workers -> Int]
  /\ copy \in [Workers -> Saved]
  /\ event \in [Workers -> Thresholds \cup {0}]
  /\ alerts \in [Thresholds -> Nat]
  /\ spent \in Nat /\ unsettled \in Int /\ lost \in Int
  /\ crashes \in Nat /\ alertFile \in {"kept", "older"}
  /\ \A w \in Workers : at[w] \in {"save", "alert"} <=> stateLock = w
  /\ \A w \in Workers : at[w] = "emit" <=> event[w] # 0

Init ==
  /\ total = 0 /\ alerted = 0 /\ disk = Empty
  /\ stateLock = Nobody
  /\ inFlight = 0
  /\ at = [w \in Workers |-> "idle"]
  /\ calls = [w \in Workers |-> 0] /\ pending = [w \in Workers |-> 0]
  /\ tries = [w \in Workers |-> 0] /\ mine = [w \in Workers |-> 0]
  /\ others = [w \in Workers |-> 0]
  /\ counted = [w \in Workers |-> 0]
  /\ copy = [w \in Workers |-> Empty]
  /\ event = [w \in Workers |-> 0]
  /\ alerts = [t \in Thresholds |-> 0]
  /\ spent = 0 /\ unsettled = 0 /\ lost = 0
  /\ crashes = 0 /\ alertFile = "kept"

Move(w, from, to) == at[w] = from /\ at' = [at EXCEPT ![w] = to]

(* The worker's batch is over.                                             *)
EndBatch(w) ==
  /\ calls' = [calls EXCEPT ![w] = 0]
  /\ pending' = [pending EXCEPT ![w] = 0]

-----------------------------------------------------------------------------
(* _run_claude and run_claude                                              *)

(* A caller starts a call: the first, or one more before it settles.       *)
StartCall(w) ==
  /\ Move(w, "idle", "gate") \/ Move(w, "returned", "gate")
  /\ calls[w] < BatchMax
  /\ calls' = [calls EXCEPT ![w] = @ + 1]
  /\ UNCHANGED <<stateVars, inFlight, pending, callVars, alertVars, books, crashes>>

(* _ok, first half, under _in_flight_lock.                                 *)
ReadInFlight(w) ==
  /\ Move(w, "gate", "decide")
  /\ others' = [others EXCEPT ![w] = inFlight - mine[w]]
  /\ counted' = [counted EXCEPT ![w] = total + inFlight]
  /\ UNCHANGED <<stateVars, inFlight, batchVars, tries, mine, alertVars, books, crashes>>

(* A mutated form of Affordable: the gate of a call does not count what    *)
(* the call itself has already charged.                                    *)
AffordableWithoutMine(w) == total + others[w] < MaxTotal

Affordable(w) == total + others[w] + mine[w] < MaxTotal

(* _ok, second half: total is read later, and without a lock.  A refusal   *)
(* makes run_claude return an error result with what it has spent so far.  *)
DecideGate(w) ==
  /\ Move(w, "decide", IF Affordable(w) THEN "claude" ELSE "handoff")
  /\ UNCHANGED <<stateVars, inFlight, batchVars, callVars, alertVars, books, crashes>>

(* One `claude -p`: it is charged to inFlight as soon as its output is     *)
(* parsed.  An error result, a bad exit status or a timeout (the latter    *)
(* two cost nothing the program can see) is retried while attempts last.   *)
Attempt(w, cost, ok) ==
  /\ Move(w, "claude", IF ok \/ tries[w] + 1 = Attempts THEN "handoff" ELSE "gate")
  /\ spent + cost <= MaxSpend
  /\ spent' = spent + cost
  /\ inFlight' = inFlight + cost
  /\ mine' = [mine EXCEPT ![w] = @ + cost]
  /\ tries' = [tries EXCEPT ![w] = @ + 1]
  /\ UNCHANGED <<stateVars, batchVars, others, counted, alertVars,
                 unsettled, lost, crashes>>

(* The result reaches the caller.                                          *)
Return(w) ==
  /\ Move(w, "handoff", "returned")
  /\ pending' = [pending EXCEPT ![w] = @ + mine[w]]
  /\ unsettled' = unsettled + mine[w]
  /\ tries' = [tries EXCEPT ![w] = 0]
  /\ mine' = [mine EXCEPT ![w] = 0]
  /\ others' = [others EXCEPT ![w] = 0]
  /\ counted' = [counted EXCEPT ![w] = 0]
  /\ UNCHANGED <<stateVars, calls, alertVars, spent, lost, crashes>>

(* A mutated form of HandOff: the charge is never taken back.              *)
HandOffKeepingCharge(w) == Return(w) /\ UNCHANGED inFlight

(* The finally of _run_claude takes the charge back and the caller gets    *)
(* the cost: until it settles, this spend is in neither counter.           *)
HandOff(w) == Return(w) /\ inFlight' = inFlight - mine[w]

(* The gap curator, the compliance check or the feature verification fails *)
(* after its call, and reports a cost of 0.0.                              *)
Discard(w) ==
  /\ Discards
  /\ Move(w, "returned", "idle")
  /\ unsettled' = unsettled - pending[w]
  /\ lost' = lost + pending[w]
  /\ EndBatch(w)
  /\ UNCHANGED <<stateVars, inFlight, callVars, alertVars, spent, crashes>>

-----------------------------------------------------------------------------
(* _accumulate_cost                                                        *)

(* `if delta`: a result that cost nothing takes no lock.                   *)
SettleNothing(w) ==
  /\ pending[w] = 0
  /\ Move(w, "returned", "idle")
  /\ EndBatch(w)
  /\ UNCHANGED <<stateVars, inFlight, callVars, alertVars, books, crashes>>

(* Take _state_lock and add the cost to the total.                         *)
AddToTotal(w) ==
  /\ pending[w] > 0
  /\ stateLock = Nobody
  /\ Move(w, "returned", "save")
  /\ stateLock' = w
  /\ total' = total + pending[w]
  /\ unsettled' = unsettled - pending[w]
  /\ EndBatch(w)
  /\ UNCHANGED <<alerted, disk, inFlight, callVars, alertVars, spent, lost, crashes>>

(* save_state; an OSError is suppressed.                                   *)
SaveTotal(w) ==
  /\ Move(w, "save", "alert")
  /\ disk' \in {Memory} \cup (IF SaveFails THEN {disk} ELSE {})
  /\ UNCHANGED <<total, alerted, stateLock, inFlight, batchVars, callVars,
                 alertVars, books, crashes>>

Reached == {t \in Thresholds : 100 * total >= t * MaxTotal}

(* No new threshold: leave the lock.                                       *)
NoAlert(w) ==
  /\ Move(w, "alert", "idle")
  /\ \A t \in Reached : t <= alerted
  /\ stateLock' = Nobody
  /\ UNCHANGED <<total, alerted, disk, inFlight, batchVars, callVars, alertVars,
                 books, crashes>>

(* Note threshold t and leave the lock; the alert is still to be emitted.  *)
Note(w, t) ==
  /\ Move(w, "alert", "emit")
  /\ alerted' = t
  /\ event' = [event EXCEPT ![w] = t]
  /\ stateLock' = Nobody
  /\ UNCHANGED <<total, inFlight, batchVars, callVars, copy, alerts, books, crashes>>

(* A mutated form of RaiseAlert: the lowest new threshold is noted.        *)
RaiseLowestAlert(w, t) ==
  /\ t \in Reached /\ t > alerted
  /\ \A r \in Reached : r > alerted => t <= r
  /\ Note(w, t)
  /\ disk' = [total |-> total, alerted |-> t]
  /\ UNCHANGED alertFile

(* A mutated form of RaiseAlert: the threshold is noted in memory only.    *)
RaiseAlertUnsaved(w, t) ==
  /\ t \in Reached /\ t > alerted
  /\ \A r \in Reached : r <= t
  /\ Note(w, t)
  /\ UNCHANGED <<disk, alertFile>>

(* The highest threshold reached is new: note it and save it, both before  *)
(* the lock is left.                                                       *)
RaiseAlert(w, t) ==
  /\ t \in Reached /\ t > alerted
  /\ \A r \in Reached : r <= t
  /\ Note(w, t)
  /\ \/ disk' = [total |-> total, alerted |-> t] /\ UNCHANGED alertFile
     \/ SaveFails /\ UNCHANGED disk /\ alertFile' = "older"

(* The BudgetAlert is emitted outside the lock.                            *)
Emit(w) ==
  /\ Move(w, "emit", "idle")
  /\ alerts' = [alerts EXCEPT ![event[w]] = @ + 1]
  /\ event' = [event EXCEPT ![w] = 0]
  /\ UNCHANGED <<stateVars, inFlight, batchVars, callVars, copy, alertFile,
                 books, crashes>>

-----------------------------------------------------------------------------
(* The other writers of the state file, and crashes                        *)

(* A phase records its current_step: save_state copies the whole state ... *)
CopyState(w) ==
  /\ LateSaves
  /\ Move(w, "idle", "write")
  /\ copy' = [copy EXCEPT ![w] = Memory]
  /\ UNCHANGED <<stateVars, inFlight, batchVars, callVars, event, alerts,
                 alertFile, books, crashes>>

(* ... and writes that copy when it gets the lock of the path.             *)
WriteCopy(w) ==
  /\ Move(w, "write", "idle")
  /\ disk' = copy[w]
  /\ alertFile' = IF copy[w].alerted < disk.alerted THEN "older" ELSE alertFile
  /\ copy' = [copy EXCEPT ![w] = Empty]
  /\ UNCHANGED <<total, alerted, stateLock, inFlight, batchVars, callVars, event,
                 alerts, books, crashes>>

(* The process dies and is resumed: a new Orchestrator loads the file.     *)
CrashAndResume ==
  /\ crashes < MaxCrashes
  /\ crashes' = crashes + 1
  /\ total' = disk.total /\ alerted' = disk.alerted
  /\ stateLock' = Nobody
  /\ lost' = lost + (total - disk.total) + inFlight + unsettled
  /\ inFlight' = 0 /\ unsettled' = 0
  /\ at' = [w \in Workers |-> "idle"]
  /\ calls' = [w \in Workers |-> 0] /\ pending' = [w \in Workers |-> 0]
  /\ tries' = [w \in Workers |-> 0] /\ mine' = [w \in Workers |-> 0]
  /\ others' = [w \in Workers |-> 0]
  /\ counted' = [w \in Workers |-> 0]
  /\ copy' = [w \in Workers |-> Empty]
  /\ event' = [w \in Workers |-> 0]
  /\ UNCHANGED <<disk, alerts, spent, alertFile>>

-----------------------------------------------------------------------------
Next ==
  \/ \E w \in Workers :
       \/ StartCall(w) \/ ReadInFlight(w) \/ DecideGate(w)
       \/ \E cost \in 0 .. MaxCost, ok \in BOOLEAN : Attempt(w, cost, ok)
       \/ HandOff(w) \/ Discard(w)
       \/ SettleNothing(w) \/ AddToTotal(w) \/ SaveTotal(w)
       \/ NoAlert(w) \/ (\E t \in Thresholds : RaiseAlert(w, t)) \/ Emit(w)
       \/ CopyState(w) \/ WriteCopy(w)
  \/ CrashAndResume

Spec == Init /\ [][Next]_vars

-----------------------------------------------------------------------------
(* Properties                                                              *)

(* No cost is ever counted twice or forgotten silently: what was spent is  *)
(* in the total, in flight, with a caller that will settle it, or was lost *)
(* in one of the two ways the code knows (an error that discards a result, *)
(* a crash before the save).                                               *)
CostsConserved == spent = total + inFlight + unsettled + lost

(* An attempt starts only when what was spent, less what was lost and what *)
(* lies between _run_claude and _accumulate_cost, was under the cap when   *)
(* its gate read _in_flight_cost, however the other workers settle between *)
(* that read and the read of the total.                                    *)
GateCountsBothCounters ==
  \A w \in Workers : at[w] = "claude" => counted[w] < MaxTotal

(* A single worker whose calls are settled one by one overshoots the cap   *)
(* by less than one attempt, whatever is retried, saved late or resumed.   *)
SoleWorkerNearCap ==
  BatchMax = 1 => \A w \in Workers : Workers = {w} => spent - lost < MaxTotal + MaxCost

(* A threshold raises one BudgetAlert at most, over all workers and all    *)
(* resumes of the run.                                                     *)
AlertsOnce == \A t \in Thresholds : alerts[t] <= 1

(* The same as long as no write of the state file failed, and none put an  *)
(* older last_budget_alert_pct back.                                       *)
AlertsOnceBarRollback == alertFile = "kept" => AlertsOnce

(* No crossing is missed: between two settlements the highest threshold    *)
(* reached is the one recorded, and its alert has been emitted or is about *)
(* to be by the worker that crossed it.                                    *)
NoAlertMissed ==
  crashes = 0 /\ stateLock = Nobody =>
    \A t \in Reached :
      /\ t <= alerted
      /\ alerts[alerted] = 1 \/ \E w \in Workers : event[w] = alerted

=============================================================================
