-------------------------- MODULE BudgetGateProofs --------------------------
(***************************************************************************)
(* The accounting of BudgetGate for any number of workers, any cap, any    *)
(* costs and any number of retries, crashes and failed saves.              *)
(***************************************************************************)
EXTENDS BudgetGate, TLAPS

LEMMA EmptyIsSaved == Empty \in Saved
  BY DEF Empty, Saved

LEMMA TypeInitial == Init => TypeOK
  BY BudgetAssumption, EmptyIsSaved DEF Init, TypeOK, Places, Thresholds

(* Every step keeps the types and the agreement of _state_lock with the    *)
(* workers that are inside _accumulate_cost.                               *)
LEMMA TypeStep == TypeOK /\ [Next]_vars => TypeOK'
<1> SUFFICES ASSUME TypeOK, [Next]_vars PROVE TypeOK'
  OBVIOUS
<1> USE BudgetAssumption
    DEF TypeOK, Places, Saved, Thresholds, Move, EndBatch, Empty, Memory,
        stateVars, batchVars, callVars, alertVars, books
<1>1. ASSUME NEW w \in Workers, StartCall(w) PROVE TypeOK'
  BY <1>1 DEF StartCall
<1>2. ASSUME NEW w \in Workers, ReadInFlight(w) PROVE TypeOK'
  BY <1>2 DEF ReadInFlight
<1>3. ASSUME NEW w \in Workers, DecideGate(w) PROVE TypeOK'
  BY <1>3 DEF DecideGate
<1>4. ASSUME NEW w \in Workers, NEW cost \in 0 .. MaxCost, NEW ok \in BOOLEAN,
             Attempt(w, cost, ok)
      PROVE TypeOK'
  BY <1>4 DEF Attempt
<1>5. ASSUME NEW w \in Workers, HandOff(w) PROVE TypeOK'
  BY <1>5 DEF HandOff, Return
<1>6. ASSUME NEW w \in Workers, Discard(w) PROVE TypeOK'
  BY <1>6 DEF Discard
<1>7. ASSUME NEW w \in Workers, SettleNothing(w) PROVE TypeOK'
  BY <1>7 DEF SettleNothing
<1>8. ASSUME NEW w \in Workers, AddToTotal(w) PROVE TypeOK'
  BY <1>8 DEF AddToTotal
<1>9. ASSUME NEW w \in Workers, SaveTotal(w) PROVE TypeOK'
  BY <1>9 DEF SaveTotal
<1>10. ASSUME NEW w \in Workers, NoAlert(w) PROVE TypeOK'
  BY <1>10 DEF NoAlert
<1>11. ASSUME NEW w \in Workers, NEW t \in Thresholds, RaiseAlert(w, t) PROVE TypeOK'
  <2>1. disk' \in Saved /\ alertFile' \in {"kept", "older"}
    BY <1>11 DEF RaiseAlert
  <2>2. /\ at' = [at EXCEPT ![w] = "emit"] /\ at[w] = "alert"
        /\ event' = [event EXCEPT ![w] = t]
        /\ alerted' = t /\ stateLock' = Nobody
        /\ UNCHANGED <<total, inFlight, calls, pending, tries, mine, others, counted,
                       copy, alerts, spent, unsettled, lost, crashes>>
    BY <1>11 DEF RaiseAlert, Note
  <2>3. /\ at' \in [Workers -> Places]
        /\ event' \in [Workers -> Thresholds \cup {0}]
        /\ \A v \in Workers : at'[v] \in {"save", "alert"} <=> stateLock' = v
        /\ \A v \in Workers : at'[v] = "emit" <=> event'[v] # 0
    BY <2>2
  <2> QED BY <2>1, <2>2, <2>3
<1>12. ASSUME NEW w \in Workers, Emit(w) PROVE TypeOK'
  BY <1>12 DEF Emit
<1>13. ASSUME NEW w \in Workers, CopyState(w) PROVE TypeOK'
  BY <1>13 DEF CopyState
<1>14. ASSUME NEW w \in Workers, WriteCopy(w) PROVE TypeOK'
  BY <1>14 DEF WriteCopy
<1>15. CASE CrashAndResume
  BY <1>15 DEF CrashAndResume
<1>16. CASE UNCHANGED vars
  BY <1>16 DEF vars
<1> HIDE DEF TypeOK, Places, Saved, Thresholds, Move, EndBatch, Empty, Memory,
             stateVars, batchVars, callVars, alertVars, books
<1> QED
  BY <1>1, <1>2, <1>3, <1>4, <1>5, <1>6, <1>7, <1>8, <1>9, <1>10, <1>11, <1>12,
     <1>13, <1>14, <1>15, <1>16 DEF Next

(* Every variable keeps its type, and a worker is inside _accumulate_cost  *)
(* exactly when it holds _state_lock, in every run of any number of        *)
(* workers.                                                                *)
THEOREM TypeCorrect == Spec => []TypeOK
  BY TypeInitial, TypeStep, PTL DEF Spec

-----------------------------------------------------------------------------
(* The cost of every step leaves one account for another.                  *)
LEMMA Conserved == TypeOK /\ CostsConserved /\ [Next]_vars => CostsConserved'
<1> SUFFICES ASSUME TypeOK, CostsConserved, [Next]_vars PROVE CostsConserved'
  OBVIOUS
<1> USE DEF TypeOK, Saved, CostsConserved, stateVars, batchVars, callVars, alertVars, books
<1>1. ASSUME NEW w \in Workers, StartCall(w) PROVE CostsConserved'
  BY <1>1 DEF StartCall
<1>2. ASSUME NEW w \in Workers, ReadInFlight(w) PROVE CostsConserved'
  BY <1>2 DEF ReadInFlight
<1>3. ASSUME NEW w \in Workers, DecideGate(w) PROVE CostsConserved'
  BY <1>3 DEF DecideGate
<1>4. ASSUME NEW w \in Workers, NEW cost \in 0 .. MaxCost, NEW ok \in BOOLEAN,
             Attempt(w, cost, ok)
      PROVE CostsConserved'
  BY <1>4 DEF Attempt
<1>5. ASSUME NEW w \in Workers, HandOff(w) PROVE CostsConserved'
  BY <1>5 DEF HandOff, Return
<1>6. ASSUME NEW w \in Workers, Discard(w) PROVE CostsConserved'
  BY <1>6 DEF Discard, EndBatch
<1>7. ASSUME NEW w \in Workers, SettleNothing(w) PROVE CostsConserved'
  BY <1>7 DEF SettleNothing, EndBatch
<1>8. ASSUME NEW w \in Workers, AddToTotal(w) PROVE CostsConserved'
  BY <1>8 DEF AddToTotal, EndBatch
<1>9. ASSUME NEW w \in Workers, SaveTotal(w) PROVE CostsConserved'
  BY <1>9 DEF SaveTotal
<1>10. ASSUME NEW w \in Workers, NoAlert(w) PROVE CostsConserved'
  BY <1>10 DEF NoAlert
<1>11. ASSUME NEW w \in Workers, NEW t \in Thresholds,
             RaiseAlert(w, t)
      PROVE CostsConserved'
  BY <1>11 DEF RaiseAlert, Note
<1>12. ASSUME NEW w \in Workers, Emit(w) PROVE CostsConserved'
  BY <1>12 DEF Emit
<1>13. ASSUME NEW w \in Workers, CopyState(w) PROVE CostsConserved'
  BY <1>13 DEF CopyState
<1>14. ASSUME NEW w \in Workers, WriteCopy(w) PROVE CostsConserved'
  BY <1>14 DEF WriteCopy
<1>15. CASE CrashAndResume
  BY <1>15 DEF CrashAndResume
<1>16. CASE UNCHANGED vars
  BY <1>16 DEF vars
<1> HIDE DEF TypeOK, Saved, CostsConserved, stateVars, batchVars, callVars, alertVars,
             books
<1> QED
  BY <1>1, <1>2, <1>3, <1>4, <1>5, <1>6, <1>7, <1>8, <1>9, <1>10, <1>11, <1>12,
     <1>13, <1>14, <1>15, <1>16 DEF Next

(* No cost is counted twice or forgotten silently, however many workers    *)
(* charge, settle, fail and crash.                                         *)
THEOREM CostsAreConserved == Spec => []CostsConserved
<1>1. Init => CostsConserved
  BY DEF Init, CostsConserved
<1> QED BY <1>1, TypeCorrect, Conserved, PTL DEF Spec

-----------------------------------------------------------------------------
(* Between the two reads of a gate the total can only have grown, so the   *)
(* sum the gate compares is at least what the counters held at the first.  *)
GateInv ==
  /\ \A w \in Workers : at[w] = "decide" => counted[w] <= total + others[w] + mine[w]
  /\ GateCountsBothCounters

LEMMA GateStep == TypeOK /\ GateInv /\ [Next]_vars => GateInv'
<1> SUFFICES ASSUME TypeOK, GateInv, [Next]_vars PROVE GateInv'
  OBVIOUS
<1> USE BudgetAssumption DEF TypeOK, Places, Move, GateInv, GateCountsBothCounters, stateVars,
        batchVars, callVars, alertVars, books
<1>1. ASSUME NEW w \in Workers, StartCall(w) PROVE GateInv'
  BY <1>1 DEF StartCall
<1>2. ASSUME NEW w \in Workers, ReadInFlight(w) PROVE GateInv'
  BY <1>2 DEF ReadInFlight
<1>3. ASSUME NEW w \in Workers, DecideGate(w) PROVE GateInv'
  BY <1>3 DEF DecideGate, Affordable
<1>4. ASSUME NEW w \in Workers, NEW cost \in 0 .. MaxCost, NEW ok \in BOOLEAN,
             Attempt(w, cost, ok)
      PROVE GateInv'
  BY <1>4 DEF Attempt
<1>5. ASSUME NEW w \in Workers, HandOff(w) PROVE GateInv'
  BY <1>5 DEF HandOff, Return
<1>6. ASSUME NEW w \in Workers, Discard(w) PROVE GateInv'
  BY <1>6 DEF Discard, EndBatch
<1>7. ASSUME NEW w \in Workers, SettleNothing(w) PROVE GateInv'
  BY <1>7 DEF SettleNothing, EndBatch
<1>8. ASSUME NEW w \in Workers, AddToTotal(w) PROVE GateInv'
  BY <1>8 DEF AddToTotal, EndBatch
<1>9. ASSUME NEW w \in Workers, SaveTotal(w) PROVE GateInv'
  BY <1>9 DEF SaveTotal
<1>10. ASSUME NEW w \in Workers, NoAlert(w) PROVE GateInv'
  BY <1>10 DEF NoAlert
<1>11. ASSUME NEW w \in Workers, NEW t \in Thresholds,
             RaiseAlert(w, t)
      PROVE GateInv'
  BY <1>11 DEF RaiseAlert, Note
<1>12. ASSUME NEW w \in Workers, Emit(w) PROVE GateInv'
  BY <1>12 DEF Emit
<1>13. ASSUME NEW w \in Workers, CopyState(w) PROVE GateInv'
  BY <1>13 DEF CopyState
<1>14. ASSUME NEW w \in Workers, WriteCopy(w) PROVE GateInv'
  BY <1>14 DEF WriteCopy
<1>15. CASE CrashAndResume
  BY <1>15 DEF CrashAndResume
<1>16. CASE UNCHANGED vars
  BY <1>16 DEF vars
<1> HIDE DEF TypeOK, Places, Move, GateInv, GateCountsBothCounters, stateVars,
             batchVars, callVars, alertVars, books
<1> QED
  BY <1>1, <1>2, <1>3, <1>4, <1>5, <1>6, <1>7, <1>8, <1>9, <1>10, <1>11, <1>12,
     <1>13, <1>14, <1>15, <1>16 DEF Next

(* No attempt starts unless everything in the two counters was under the   *)
(* cap when its gate began to look, for any number of workers.             *)
THEOREM GateBinds == Spec => []GateCountsBothCounters
<1>1. Init => GateInv
  BY DEF Init, GateInv, GateCountsBothCounters
<1>2. GateInv => GateCountsBothCounters
  BY DEF GateInv
<1> QED BY <1>1, <1>2, TypeCorrect, GateStep, PTL DEF Spec

-----------------------------------------------------------------------------
(* A single worker that settles every call at once never has spend outside *)
(* the two counters while it is in a gate, so its gate sees everything.    *)
Sole(w) ==
  /\ disk.total <= total /\ copy[w].total <= total
  /\ inFlight = mine[w] /\ unsettled = pending[w]
  /\ at[w] # "returned" => pending[w] = 0
  /\ at[w] \notin {"gate", "decide", "claude", "handoff"} => mine[w] = 0
  /\ at[w] \in {"gate", "decide", "claude", "handoff", "returned"} => calls[w] >= 1
  /\ at[w] = "decide" => others[w] = 0
  /\ at[w] = "claude" => total + mine[w] < MaxTotal
  /\ total + inFlight + unsettled < MaxTotal + MaxCost

SoleInv == BatchMax = 1 => \A w \in Workers : Workers = {w} => Sole(w)

LEMMA SoleStep == TypeOK /\ SoleInv /\ [Next]_vars => SoleInv'
<1> SUFFICES ASSUME TypeOK, SoleInv, [Next]_vars, BatchMax = 1,
                    NEW u \in Workers, Workers = {u}
             PROVE  Sole(u)'
  BY DEF SoleInv
<1> SUFFICES ASSUME Sole(u) PROVE Sole(u)'
  BY DEF SoleInv
<1> USE BudgetAssumption DEF TypeOK, Places, Saved, Empty, Memory, Move, Sole, stateVars,
        batchVars, callVars, alertVars, books
<1>1. ASSUME NEW w \in Workers, StartCall(w) PROVE Sole(u)'
  BY <1>1 DEF StartCall
<1>2. ASSUME NEW w \in Workers, ReadInFlight(w) PROVE Sole(u)'
  BY <1>2 DEF ReadInFlight
<1>3. ASSUME NEW w \in Workers, DecideGate(w) PROVE Sole(u)'
  BY <1>3 DEF DecideGate, Affordable
<1>4. ASSUME NEW w \in Workers, NEW cost \in 0 .. MaxCost, NEW ok \in BOOLEAN,
             Attempt(w, cost, ok)
      PROVE Sole(u)'
  BY <1>4 DEF Attempt
<1>5. ASSUME NEW w \in Workers, HandOff(w) PROVE Sole(u)'
  BY <1>5 DEF HandOff, Return
<1>6. ASSUME NEW w \in Workers, Discard(w) PROVE Sole(u)'
  BY <1>6 DEF Discard, EndBatch
<1>7. ASSUME NEW w \in Workers, SettleNothing(w) PROVE Sole(u)'
  BY <1>7 DEF SettleNothing, EndBatch
<1>8. ASSUME NEW w \in Workers, AddToTotal(w) PROVE Sole(u)'
  BY <1>8 DEF AddToTotal, EndBatch
<1>9. ASSUME NEW w \in Workers, SaveTotal(w) PROVE Sole(u)'
  BY <1>9 DEF SaveTotal
<1>10. ASSUME NEW w \in Workers, NoAlert(w) PROVE Sole(u)'
  BY <1>10 DEF NoAlert
<1>11. ASSUME NEW w \in Workers, NEW t \in Thresholds,
             RaiseAlert(w, t)
      PROVE Sole(u)'
  BY <1>11 DEF RaiseAlert, Note
<1>12. ASSUME NEW w \in Workers, Emit(w) PROVE Sole(u)'
  BY <1>12 DEF Emit
<1>13. ASSUME NEW w \in Workers, CopyState(w) PROVE Sole(u)'
  BY <1>13 DEF CopyState
<1>14. ASSUME NEW w \in Workers, WriteCopy(w) PROVE Sole(u)'
  BY <1>14 DEF WriteCopy
<1>15. CASE CrashAndResume
  BY <1>15 DEF CrashAndResume
<1>16. CASE UNCHANGED vars
  BY <1>16 DEF vars
<1> HIDE DEF TypeOK, Places, Saved, Empty, Memory, Move, Sole, stateVars, batchVars,
             callVars, alertVars, books
<1> QED
  BY <1>1, <1>2, <1>3, <1>4, <1>5, <1>6, <1>7, <1>8, <1>9, <1>10, <1>11, <1>12,
     <1>13, <1>14, <1>15, <1>16 DEF Next

(* One worker, calls settled one by one: the run overshoots its cap by     *)
(* less than one attempt, through any retries, failed saves and resumes.   *)
THEOREM SoleWorkerStaysNearCap == Spec => []SoleWorkerNearCap
<1>1. Init => SoleInv
  BY BudgetAssumption DEF Init, SoleInv, Sole, Empty
<1>2. TypeOK /\ CostsConserved /\ SoleInv => SoleWorkerNearCap
  BY BudgetAssumption DEF TypeOK, CostsConserved, SoleInv, Sole, SoleWorkerNearCap
<1> QED BY <1>1, <1>2, TypeCorrect, CostsAreConserved, SoleStep, PTL DEF Spec

-----------------------------------------------------------------------------
(* An alert is emitted by the one worker that noted its threshold, and the *)
(* note outlives it: in memory while the process lives, and in the file.   *)
EmittedOnce ==
  \A t \in Thresholds :
    /\ alerts[t] \in {0, 1}
    /\ alerts[t] = 1 => alerted >= t /\ \A w \in Workers : event[w] # t

OneEmitter ==
  /\ \A w \in Workers : event[w] <= alerted
  /\ \A w, v \in Workers : event[w] # 0 /\ event[v] = event[w] => v = w

FileRemembers ==
  /\ \A t \in Thresholds : alerts[t] = 1 => disk.alerted >= t
  /\ \A w \in Workers : event[w] <= disk.alerted

AlertInv ==
  /\ crashes = 0 \/ alertFile = "kept" => EmittedOnce /\ OneEmitter
  /\ alertFile = "kept" => FileRemembers

LEMMA Levels ==
  TypeOK => /\ alerted \in Nat /\ disk.alerted \in Nat
            /\ event \in [Workers -> Nat]
            /\ \A w \in Workers : copy[w].alerted \in Nat
            /\ Thresholds \subseteq Nat \ {0}
<1> SUFFICES ASSUME TypeOK
             PROVE  /\ alerted \in Nat /\ disk.alerted \in Nat
                    /\ event \in [Workers -> Nat]
                    /\ \A w \in Workers : copy[w].alerted \in Nat
                    /\ Thresholds \subseteq Nat \ {0}
  OBVIOUS
<1>1. Thresholds \subseteq Nat \ {0} /\ Thresholds \cup {0} \subseteq Nat
  BY DEF Thresholds
<1>2. /\ alerted \in Thresholds \cup {0} /\ disk \in Saved
      /\ event \in [Workers -> Thresholds \cup {0}]
      /\ copy \in [Workers -> Saved]
  BY DEF TypeOK
<1>3. \A s \in Saved : s.alerted \in Nat
  BY <1>1 DEF Saved
<1>4. event \in [Workers -> Nat]
  BY <1>1, <1>2
<1> QED BY <1>1, <1>2, <1>3, <1>4

(* Noting a threshold gives it one emitter, and puts it into the file.     *)
LEMMA NoteStep ==
  ASSUME TypeOK, AlertInv, NEW w \in Workers, NEW t \in Thresholds, RaiseAlert(w, t)
  PROVE  AlertInv'
<1>1. /\ alerted' = t /\ t > alerted
      /\ event' = [event EXCEPT ![w] = t]
      /\ UNCHANGED <<alerts, crashes>>
  <2>1. Note(w, t) /\ t > alerted
    BY DEF RaiseAlert
  <2> QED BY <2>1 DEF Note
<1>2. ASSUME EmittedOnce, OneEmitter PROVE EmittedOnce'
  BY <1>1, <1>2, Levels DEF EmittedOnce, OneEmitter
<1>3. ASSUME EmittedOnce, OneEmitter PROVE OneEmitter'
  BY <1>1, <1>3, Levels DEF EmittedOnce, OneEmitter
<1>4. alertFile' = "kept" => alertFile = "kept" /\ disk'.alerted = t
  BY DEF RaiseAlert
<1>5. ASSUME EmittedOnce, OneEmitter, disk'.alerted = t PROVE FileRemembers'
  BY <1>1, <1>5, Levels DEF EmittedOnce, OneEmitter, FileRemembers
<1> QED BY <1>1, <1>2, <1>3, <1>4, <1>5 DEF AlertInv

(* A late write that is not older than the file leaves its alert there.    *)
LEMMA WriteCopyStep ==
  ASSUME TypeOK, AlertInv, NEW w \in Workers, WriteCopy(w)
  PROVE  AlertInv'
<1>1. /\ disk' = copy[w] /\ UNCHANGED <<alerts, alerted, event, crashes>>
      /\ alertFile' = IF copy[w].alerted < disk.alerted THEN "older" ELSE alertFile
  BY DEF WriteCopy
<1>2. EmittedOnce /\ OneEmitter => EmittedOnce' /\ OneEmitter'
  BY <1>1 DEF EmittedOnce, OneEmitter
<1>3. alertFile' = "kept" => alertFile = "kept" /\ copy[w].alerted >= disk.alerted
  BY <1>1, Levels
<1>4. FileRemembers /\ copy[w].alerted >= disk.alerted => FileRemembers'
  BY <1>1, Levels DEF FileRemembers
<1> QED BY <1>1, <1>2, <1>3, <1>4 DEF AlertInv

LEMMA AlertStep == TypeOK /\ AlertInv /\ [Next]_vars => AlertInv'
<1> SUFFICES ASSUME TypeOK, AlertInv, [Next]_vars PROVE AlertInv'
  OBVIOUS
<1> USE BudgetAssumption DEF TypeOK, Places, Saved, Thresholds, Empty, Memory, Move, AlertInv,
        EmittedOnce, OneEmitter, FileRemembers, stateVars, batchVars, callVars, alertVars, books
<1>1. ASSUME NEW w \in Workers, StartCall(w) PROVE AlertInv'
  BY <1>1 DEF StartCall
<1>2. ASSUME NEW w \in Workers, ReadInFlight(w) PROVE AlertInv'
  BY <1>2 DEF ReadInFlight
<1>3. ASSUME NEW w \in Workers, DecideGate(w) PROVE AlertInv'
  BY <1>3 DEF DecideGate
<1>4. ASSUME NEW w \in Workers, NEW cost \in 0 .. MaxCost, NEW ok \in BOOLEAN,
             Attempt(w, cost, ok)
      PROVE AlertInv'
  BY <1>4 DEF Attempt
<1>5. ASSUME NEW w \in Workers, HandOff(w) PROVE AlertInv'
  BY <1>5 DEF HandOff, Return
<1>6. ASSUME NEW w \in Workers, Discard(w) PROVE AlertInv'
  BY <1>6 DEF Discard, EndBatch
<1>7. ASSUME NEW w \in Workers, SettleNothing(w) PROVE AlertInv'
  BY <1>7 DEF SettleNothing, EndBatch
<1>8. ASSUME NEW w \in Workers, AddToTotal(w) PROVE AlertInv'
  BY <1>8 DEF AddToTotal, EndBatch
<1>9. ASSUME NEW w \in Workers, SaveTotal(w) PROVE AlertInv'
  BY <1>9 DEF SaveTotal
<1>10. ASSUME NEW w \in Workers, NoAlert(w) PROVE AlertInv'
  BY <1>10 DEF NoAlert
<1>11. ASSUME NEW w \in Workers, NEW t \in Thresholds,
             RaiseAlert(w, t)
      PROVE AlertInv'
  BY <1>11, NoteStep
<1>12. ASSUME NEW w \in Workers, Emit(w) PROVE AlertInv'
  BY <1>12 DEF Emit
<1>13. ASSUME NEW w \in Workers, CopyState(w) PROVE AlertInv'
  BY <1>13 DEF CopyState
<1>14. ASSUME NEW w \in Workers, WriteCopy(w) PROVE AlertInv'
  BY <1>14, WriteCopyStep
<1>15. CASE CrashAndResume
  BY <1>15 DEF CrashAndResume
<1>16. CASE UNCHANGED vars
  BY <1>16 DEF vars
<1> HIDE DEF TypeOK, Places, Saved, Thresholds, Empty, Memory, Move, AlertInv,
             EmittedOnce, OneEmitter, FileRemembers, stateVars, batchVars, callVars,
             alertVars, books
<1> QED
  BY <1>1, <1>2, <1>3, <1>4, <1>5, <1>6, <1>7, <1>8, <1>9, <1>10, <1>11, <1>12,
     <1>13, <1>14, <1>15, <1>16 DEF Next

(* As long as the file keeps the last alert, no threshold is alerted twice *)
(* by any number of workers and through any number of resumes.             *)
THEOREM AlertsAtMostOnce == Spec => []AlertsOnceBarRollback
<1>1. Init => AlertInv
  BY BudgetAssumption DEF Init, AlertInv, EmittedOnce, OneEmitter, FileRemembers, Empty, Thresholds
<1>2. AlertInv => AlertsOnceBarRollback
  BY DEF AlertInv, EmittedOnce, AlertsOnceBarRollback, AlertsOnce
<1> QED BY <1>1, <1>2, TypeCorrect, AlertStep, PTL DEF Spec

-----------------------------------------------------------------------------
(* Whoever leaves _state_lock has noted the highest threshold reached, and *)
(* the noted threshold has its alert.                                      *)
CrossInv ==
  crashes = 0 =>
    /\ stateLock = Nobody => \A t \in Reached : t <= alerted
    /\ alerted # 0 => alerts[alerted] = 1 \/ \E w \in Workers : event[w] = alerted

LEMMA NoteCrossing ==
  ASSUME TypeOK, NEW w \in Workers, NEW t \in Thresholds, RaiseAlert(w, t)
  PROVE  CrossInv'
<1>1. /\ alerted' = t /\ event' = [event EXCEPT ![w] = t] /\ total' = total
      /\ \A r \in Reached : r <= t
  BY DEF RaiseAlert, Note
<1>2. event'[w] = alerted'
  BY <1>1 DEF TypeOK
<1>3. Reached' = Reached
  BY <1>1 DEF Reached
<1> QED BY <1>1, <1>2, <1>3 DEF CrossInv

LEMMA CrossStep == TypeOK /\ AlertInv /\ CrossInv /\ [Next]_vars => CrossInv'
<1> SUFFICES ASSUME TypeOK, AlertInv, CrossInv, [Next]_vars PROVE CrossInv'
  OBVIOUS
<1> USE BudgetAssumption DEF TypeOK, Places, Saved, Thresholds, Empty, Memory, Move, AlertInv,
        EmittedOnce, OneEmitter, CrossInv, Reached, stateVars, batchVars, callVars, alertVars, books
<1>1. ASSUME NEW w \in Workers, StartCall(w) PROVE CrossInv'
  BY <1>1 DEF StartCall
<1>2. ASSUME NEW w \in Workers, ReadInFlight(w) PROVE CrossInv'
  BY <1>2 DEF ReadInFlight
<1>3. ASSUME NEW w \in Workers, DecideGate(w) PROVE CrossInv'
  BY <1>3 DEF DecideGate
<1>4. ASSUME NEW w \in Workers, NEW cost \in 0 .. MaxCost, NEW ok \in BOOLEAN,
             Attempt(w, cost, ok)
      PROVE CrossInv'
  BY <1>4 DEF Attempt
<1>5. ASSUME NEW w \in Workers, HandOff(w) PROVE CrossInv'
  BY <1>5 DEF HandOff, Return
<1>6. ASSUME NEW w \in Workers, Discard(w) PROVE CrossInv'
  BY <1>6 DEF Discard, EndBatch
<1>7. ASSUME NEW w \in Workers, SettleNothing(w) PROVE CrossInv'
  BY <1>7 DEF SettleNothing, EndBatch
<1>8. ASSUME NEW w \in Workers, AddToTotal(w) PROVE CrossInv'
  BY <1>8 DEF AddToTotal, EndBatch, Reached
<1>9. ASSUME NEW w \in Workers, SaveTotal(w) PROVE CrossInv'
  BY <1>9 DEF SaveTotal
<1>10. ASSUME NEW w \in Workers, NoAlert(w) PROVE CrossInv'
  BY <1>10 DEF NoAlert, Reached
<1>11. ASSUME NEW w \in Workers, NEW t \in Thresholds,
             RaiseAlert(w, t)
      PROVE CrossInv'
  BY <1>11, NoteCrossing
<1>12. ASSUME NEW w \in Workers, Emit(w) PROVE CrossInv'
  BY <1>12 DEF Emit
<1>13. ASSUME NEW w \in Workers, CopyState(w) PROVE CrossInv'
  BY <1>13 DEF CopyState
<1>14. ASSUME NEW w \in Workers, WriteCopy(w) PROVE CrossInv'
  BY <1>14 DEF WriteCopy
<1>15. CASE CrashAndResume
  BY <1>15 DEF CrashAndResume
<1>16. CASE UNCHANGED vars
  BY <1>16 DEF vars
<1> HIDE DEF TypeOK, Places, Saved, Thresholds, Empty, Memory, Move, AlertInv,
             EmittedOnce, OneEmitter, CrossInv, Reached, stateVars, batchVars,
             callVars, alertVars, books
<1> QED
  BY <1>1, <1>2, <1>3, <1>4, <1>5, <1>6, <1>7, <1>8, <1>9, <1>10, <1>11, <1>12,
     <1>13, <1>14, <1>15, <1>16 DEF Next

(* No crossing of a threshold is missed, whichever workers cross it.       *)
THEOREM EveryCrossingAlerts == Spec => []NoAlertMissed
<1>1. Init => AlertInv /\ CrossInv
  BY BudgetAssumption DEF Init, AlertInv, EmittedOnce, OneEmitter, FileRemembers, Empty, Thresholds,
                          CrossInv, Reached
<1>2. TypeOK /\ CrossInv => NoAlertMissed
  BY DEF TypeOK, Thresholds, CrossInv, Reached, NoAlertMissed
<1> QED BY <1>1, <1>2, TypeCorrect, AlertStep, CrossStep, PTL DEF Spec

=============================================================================
