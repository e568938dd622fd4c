---------------------------- MODULE PhasesProofs ----------------------------
(***************************************************************************)
(* The phases of a milestone for any numbers of milestones, retries, calls *)
(* and iterations, any reports and any crashes: what a session, a check or *)
(* a hook reads under .claude/ was written for it, and what ends a session *)
(* or a wait for CI covers what it is about.                               *)
(***************************************************************************)
EXTENDS Phases, FiniteSetTheorems, TLAPS

GateSteps == {"gates", "gatefix", "regate", "policy", "policyfix", "repolicy",
              "cover", "coverfix"}
Sitting   == {"talk", "close", "emit"}

(* The steps a phase has.                                                  *)
StepsOf(phase) ==
    CASE phase = "plan"      -> {"open"} \cup Sitting
      [] phase = "implement" -> {"open"} \cup GateSteps
      [] phase = "trust"     -> {"comply", "verify"}
      [] phase = "review"    -> {"open"} \cup Sitting \cup GateSteps
                                \cup {"strict", "comply", "verify", "again"}
      [] phase = "push"      -> {"open"}
      [] phase = "ci"        -> {"wait", "fix", "done"}
      [] OTHER               -> {"done"}

Place ==
    /\ pc.step \in StepsOf(pc.phase)
    /\ pc.phase # "none" => m \in Milestone

Forms ==
    /\ phaseFile # NoFile => "iteration" \in DOMAIN phaseFile
    /\ gapFile # NoFile => gapFile = [report |-> gapFile.report, by |-> gapFile.by]

Shape == TypeOK /\ Place /\ Forms

-----------------------------------------------------------------------------
(* Types                                                                   *)

LEMMA MilestoneAfter ==
  ASSUME NEW x \in Milestone
  PROVE  x \in 1 .. Milestones + 1 /\ x + 1 \in 1 .. Milestones + 1 /\ x \in 0 .. Milestones
  BY PhasesAssumption DEF Milestone

(* A milestone begins, or the run has no other.                            *)
LEMMA Begins ==
  ASSUME Shape, NEW x \in 1 .. Milestones + 1, NEW n \in 1 .. MaxRetries + 1,
         Begin(x, n)
  PROVE  /\ m' \in 1 .. Milestones + 1 /\ attempt' \in 1 .. MaxRetries + 1
         /\ pc' \in [phase : Phase \cup {"none"}, step : Steps]
         /\ pc'.phase \in {"plan", "none"} /\ Place'
         /\ call' \in 1 .. MaxCalls /\ ok' \in BOOLEAN /\ found' \in BOOLEAN
         /\ loop' \in Nat /\ green' \in BOOLEAN
         /\ remote' \in [ahead : BOOLEAN,
                         latest : {"none", "running", "passed", "failed"},
                         ofPush : BOOLEAN, pushed : BOOLEAN]
         /\ ~remote'.pushed
<1>1. 1 \in 1 .. MaxCalls /\ 0 \in Nat
  BY PhasesAssumption
<1>2. CASE x \in Milestone
  <2>1. pc' = [phase |-> "plan", step |-> "open"] /\ m' \in Milestone
    BY <1>2 DEF Begin, Go
  <2> QED BY <1>1, <2>1 DEF Begin, Shape, TypeOK, Place, StepsOf, Phase, Steps, Milestone
<1>3. CASE x \notin Milestone
  <2>1. pc' = [phase |-> "none", step |-> "done"]
    BY <1>3 DEF Begin, Go
  <2> QED BY <1>1, <2>1 DEF Begin, Shape, TypeOK, Place, StepsOf, Phase, Steps
<1> QED BY <1>2, <1>3

(* A phase that fails: what it changes, and the types it keeps.            *)
LEMMA Failing ==
  ASSUME Shape, pc.phase # "none", FailAttempt
  PROVE  /\ \E x \in 1 .. Milestones + 1, n \in 1 .. MaxRetries + 1 : Begin(x, n)
         /\ outcome' \in [Milestone -> {"pending", "completed", "failed"}]
<1>1. m \in Milestone
  BY DEF Shape, Place
<1>2. CASE attempt <= MaxRetries
  <2>1. attempt + 1 \in 1 .. MaxRetries + 1
    BY <1>2, PhasesAssumption DEF Shape, TypeOK
  <2> QED BY <1>1, <1>2, <2>1, MilestoneAfter DEF FailAttempt, Shape, TypeOK
<1>3. CASE ~(attempt <= MaxRetries)
  <2>1. 1 \in 1 .. MaxRetries + 1
    BY PhasesAssumption
  <2> QED BY <1>1, <1>3, <2>1, MilestoneAfter DEF FailAttempt, Shape, TypeOK
<1> QED BY <1>2, <1>3

LEMMA Goes ==
  ASSUME Shape, NEW p \in Phase, NEW s \in StepsOf(p) \cap Steps, m \in Milestone,
         Go(p, s), UNCHANGED m
  PROVE  pc' \in [phase : Phase \cup {"none"}, step : Steps] /\ Place'
<1>1. pc' = [phase |-> p, step |-> s]
  BY DEF Go
<1>2. pc'.phase = p /\ pc'.step = s
  BY <1>1
<1>3. pc'.step \in StepsOf(pc'.phase)
  BY <1>2
<1> QED BY <1>1, <1>3 DEF Place, Phase, Steps, Milestone

(* Which phase and step an action is taken in.                             *)
LEMMA Here ==
  ASSUME Shape, NEW p, NEW s, At(p, s)
  PROVE  pc.phase = p /\ pc.step = s /\ (p # "none" => m \in Milestone)
  BY DEF Shape, Place, At

LEMMA ShapeInitial == Init => Shape
<1> SUFFICES ASSUME Init PROVE Shape
  OBVIOUS
<1>1. 1 \in 1 .. Milestones + 1 /\ 1 \in Milestone /\ 1 \in 1 .. MaxRetries + 1
      /\ 1 \in 1 .. MaxCalls /\ 0 \in 0 .. Milestones /\ 0 \in 0 .. MaxCrashes
  BY PhasesAssumption DEF Milestone
<1>2. pc.phase = "plan" /\ pc.step = "open" /\ pc \in [phase : Phase \cup {"none"}, step : Steps]
  BY DEF Init, Phase, Steps
<1>3. Place
  BY <1>1, <1>2 DEF Init, Place, StepsOf
<1> QED BY <1>1, <1>2, <1>3 DEF Init, Shape, TypeOK, Forms

(* What a crash does: the milestone begins again, or nobody resumes.       *)
LEMMA Dying ==
  ASSUME Shape, pc.phase # "none", Die
  PROVE  Shape' /\ pc'.phase \in {"plan", "none"}
         /\ (~remote'.pushed \/ pc'.phase = "none")
<1>1. m \in Milestone /\ m \in 1 .. Milestones + 1 /\ 1 \in 1 .. MaxRetries + 1
  BY MilestoneAfter, PhasesAssumption DEF Shape, Place
<1>2. UNCHANGED <<outcome, planSha, phaseFile, gapFile, gateFile, specFile>>
      /\ leftover' \in BOOLEAN
  BY DEF Die, files
<1>3. Forms'
  BY <1>2 DEF Shape, Forms
<1>4. CASE crashes < MaxCrashes
  <2>1. Begin(m, 1) /\ crashes' = crashes + 1
    BY <1>4 DEF Die
  <2>2. crashes' \in 0 .. MaxCrashes
    BY <1>4, <2>1, PhasesAssumption DEF Shape, TypeOK
  <2>3. /\ m' \in 1 .. Milestones + 1 /\ attempt' \in 1 .. MaxRetries + 1
        /\ pc' \in [phase : Phase \cup {"none"}, step : Steps]
        /\ pc'.phase \in {"plan", "none"} /\ Place'
        /\ call' \in 1 .. MaxCalls /\ ok' \in BOOLEAN /\ found' \in BOOLEAN
        /\ loop' \in Nat /\ green' \in BOOLEAN
        /\ remote' \in [ahead : BOOLEAN,
                        latest : {"none", "running", "passed", "failed"},
                        ofPush : BOOLEAN, pushed : BOOLEAN]
        /\ ~remote'.pushed
    BY <1>1, <2>1, Begins
  <2> QED BY <1>2, <1>3, <2>2, <2>3 DEF Shape, TypeOK
<1>5. CASE ~(crashes < MaxCrashes)
  <2>1. pc' = [phase |-> "none", step |-> "done"]
        /\ UNCHANGED <<m, attempt, call, ok, loop, found, green, remote, crashes>>
    BY <1>5 DEF Die, Go
  <2>2. pc' \in [phase : Phase \cup {"none"}, step : Steps] /\ pc'.phase = "none" /\ Place'
    BY <2>1 DEF Place, StepsOf, Phase, Steps
  <2> QED BY <1>2, <1>3, <2>1, <2>2 DEF Shape, TypeOK
<1> QED BY <1>4, <1>5

LEMMA StampOfMe ==
  ASSUME Shape
  PROVE  Me \in Stamp
  BY DEF Shape, TypeOK, Me, Stamp

(* The hook blocks below the cap only, with a phase file.                  *)
LEMMA BlockedBelowCap ==
  ASSUME NEW results, Shape, Why(phaseFile, gapFile, results) = "blocked"
  PROVE  phaseFile # NoFile /\ phaseFile.iteration + 1 \in 0 .. MaxIterations
  BY GateAssumption DEF Shape, TypeOK, Why

LEMMA Increments ==
  ASSUME NEW phase, NEW file, NEW results, "iteration" \in DOMAIN phase
  PROVE  /\ "iteration" \in DOMAIN Increment(phase, file, results)
         /\ Increment(phase, file, results).iteration = phase.iteration + 1
<1> DEFINE important == Counted(file.report.important, file.report, results)
           keys == Keys(file.report.gaps)
<1>1. Increment(phase, file, results) \in
        {[phase EXCEPT !.iteration = @ + 1, !.prevImportant = important, !.prevKeys = keys],
         [phase EXCEPT !.iteration = @ + 1]}
  BY DEF Increment
<1> HIDE DEF important, keys
<1> QED BY <1>1

LEMMA GatesWhere ==
  ASSUME Shape, pc.step \in GateSteps
  PROVE  pc.phase \in {"implement", "review"}
<1>1. pc.phase \in Phase \cup {"none"} /\ pc.step \in StepsOf(pc.phase)
  BY DEF Shape, TypeOK, Place
<1> DEFINE p == pc.phase
           s == pc.step
<1>2. p \in Phase \cup {"none"} /\ s \in StepsOf(p) /\ s \in GateSteps
  BY <1>1
<1> HIDE DEF p, s
<1>3. p \in {"implement", "review"}
  BY <1>2 DEF StepsOf, GateSteps, Phase, Sitting
<1> QED BY <1>3 DEF p

LEMMA ShapeStep == Shape /\ [Next]_vars => Shape'
<1> SUFFICES ASSUME Shape, [Next]_vars PROVE Shape'
  OBVIOUS
<1>1. ASSUME OpenPlan \/ OpenReview PROVE Shape'
  <2>1. pc' \in [phase : Phase \cup {"none"}, step : Steps] /\ Place'
    BY <1>1, Here, Goes DEF OpenPlan, OpenReview, ledger, StepsOf, Steps, Phase, Sitting
  <2>2. phaseFile'.iteration = 0 /\ "iteration" \in DOMAIN phaseFile'
        /\ 0 \in 0 .. MaxIterations /\ 1 \in 1 .. MaxCalls
    BY <1>1, GateAssumption, PhasesAssumption DEF OpenPlan, OpenReview, SavePhaseState
  <2> QED BY <1>1, <2>1, <2>2 DEF OpenPlan, OpenReview, ledger, Shape, TypeOK, Forms
<1>2. ASSUME NEW p, Veto(p) PROVE Shape'
  <2>1. pc.phase # "none"
    BY <1>2, Here DEF Veto
  <2>2. PICK x \in 1 .. Milestones + 1, n \in 1 .. MaxRetries + 1 : Begin(x, n)
    BY <1>2, <2>1, Failing DEF Veto
  <2> QED BY <1>2, <2>1, <2>2, Failing, Begins DEF Veto, files, Shape, TypeOK, Forms
<1>3. ASSUME NEW p, WriteReport(p) PROVE Shape'
  <2>1. PICK r \in Reports : gapFile' = [report |-> r, by |-> Append(Me, p)]
    BY <1>3 DEF WriteReport
  <2> DEFINE by == Append(Me, p)
  <2>2. gapFile' = [report |-> r, by |-> by]
    BY <2>1
  <2> HIDE DEF by
  <2>3. gapFile' = [report |-> gapFile'.report, by |-> gapFile'.by] /\ gapFile'.report \in Reports
    BY <2>2
  <2> QED BY <1>3, <2>3 DEF WriteReport, ledger, Shape, TypeOK, Forms, Place
<1>4. ASSUME NEW p, Stop(p) PROVE Shape'
  <2> DEFINE why == Why(phaseFile, gapFile, Results)
  <2>1. CASE why = "blocked"
    <3>1. phaseFile' = Increment(phaseFile, gapFile, Results)
          /\ UNCHANGED <<pc, ok, call, ended>>
      BY <1>4, <2>1 DEF Stop
    <3>2. phaseFile'.iteration \in 0 .. MaxIterations /\ "iteration" \in DOMAIN phaseFile'
      BY <2>1, <3>1, BlockedBelowCap, Increments DEF Shape, Forms
    <3> QED BY <1>4, <3>1, <3>2 DEF Stop, ledger, Shape, TypeOK, Forms, Place
  <2>2. CASE why # "blocked"
    <3>1. ok' = TRUE /\ call' = 1 /\ Go(p, "close") /\ UNCHANGED phaseFile
      BY <1>4, <2>2 DEF Stop
    <3>2. pc' \in [phase : Phase \cup {"none"}, step : Steps] /\ Place'
      BY <1>4, <3>1, Here, Goes DEF Stop, ledger, StepsOf, Steps, Phase, Sitting, Session
    <3>3. 1 \in 1 .. MaxCalls
      BY PhasesAssumption
    <3> QED BY <1>4, <3>1, <3>2, <3>3 DEF Stop, ledger, Shape, TypeOK, Forms
  <2> QED BY <2>1, <2>2
<1>5. ASSUME NEW p, AttemptFails(p) PROVE Shape'
  <2>1. call' \in 1 .. MaxCalls
    BY <1>5, PhasesAssumption DEF AttemptFails, Shape, TypeOK
  <2>4. ok' \in BOOLEAN
    BY <1>5 DEF AttemptFails, Shape, TypeOK
  <2>5. UNCHANGED <<ledger, planSha, loop, found, files, remote, green, leftover>>
    BY <1>5 DEF AttemptFails
  <2>2. CASE UNCHANGED pc
    BY <2>1, <2>2, <2>4, <2>5 DEF ledger, files, Shape, TypeOK, Forms, Place
  <2>3. CASE Go(p, "close")
    <3>1. pc' \in [phase : Phase \cup {"none"}, step : Steps] /\ Place'
      BY <1>5, <2>3, Here, Goes
         DEF AttemptFails, ledger, StepsOf, Steps, Phase, Sitting, Session
    <3> QED BY <2>1, <2>4, <2>5, <3>1 DEF ledger, files, Shape, TypeOK, Forms
  <2> QED BY <1>5, <2>2, <2>3 DEF AttemptFails
<1>6. ASSUME NEW p, Curate(p) PROVE Shape'
  <2>1. pc' \in [phase : Phase \cup {"none"}, step : Steps] /\ Place'
    BY <1>6, Here, Goes DEF Curate, ledger, StepsOf, Steps, Phase, Sitting, Session
  <2>2. PICK r \in Reports : gapFile' = [gapFile EXCEPT !.report = r]
    BY <1>6 DEF Curate, Curated
  <2>3. gapFile = [report |-> gapFile.report, by |-> gapFile.by]
    BY <1>6 DEF Curate, Shape, Forms
  <2>4. gapFile' = [report |-> r, by |-> gapFile.by]
    BY <2>2, <2>3
  <2>5. gapFile' = [report |-> gapFile'.report, by |-> gapFile'.by] /\ gapFile'.report \in Reports
    BY <2>4
  <2> QED BY <1>6, <2>1, <2>5 DEF Curate, ledger, Shape, TypeOK, Forms
<1>7. ASSUME Crash \/ \E p : EmitRaises(p) PROVE Shape'
  BY <1>7, Dying, Here DEF Crash, EmitRaises, Session
<1>8. ASSUME ClosePlan \/ CloseReview PROVE Shape'
  <2> DEFINE p == pc.phase
  <2>1. p \in {"plan", "review"} /\ Clear /\ crashes' = crashes /\ leftover' \in BOOLEAN
    BY <1>8 DEF ClosePlan, CloseReview, ReportsClosed, Shape, TypeOK
  <2>2. m \in Milestone /\ p # "none"
    BY <2>1 DEF Shape, Place
  <2>3. Forms' /\ phaseFile' = NoFile /\ gapFile' = NoFile /\ gateFile' = NoFile
        /\ specFile' = NoFile
    BY <2>1 DEF Clear, Forms
  <2>4. planSha' \in 0 .. Milestones
    BY <1>8, <2>2, MilestoneAfter
       DEF ClosePlan, CloseReview, CapturePlanSha, Shape, TypeOK
  <2>5. CASE ok
    <3>1. UNCHANGED <<m, attempt, outcome, call, ok, loop, found, remote, green>>
          /\ (Go("implement", "open") \/ Go("review", "gates"))
      BY <1>8, <2>5 DEF ClosePlan, CloseReview
    <3>2. pc' \in [phase : Phase \cup {"none"}, step : Steps] /\ Place'
      BY <2>2, <3>1, Goes DEF StepsOf, Steps, Phase, GateSteps
    <3> QED BY <2>1, <2>3, <2>4, <3>1, <3>2 DEF Shape, TypeOK
  <2>6. CASE ~ok
    <3>1. FailAttempt
      BY <1>8, <2>6 DEF ClosePlan, CloseReview
    <3>2. PICK x \in 1 .. Milestones + 1, n \in 1 .. MaxRetries + 1 : Begin(x, n)
      BY <2>2, <3>1, Failing
    <3> QED BY <2>1, <2>2, <2>3, <2>4, <3>1, <3>2, Failing, Begins DEF Shape, TypeOK
  <2> QED BY <2>5, <2>6
<1>9. ASSUME Implement PROVE Shape'
  <2>1. pc.phase = "implement" /\ m \in Milestone /\ UNCHANGED <<planSha, files, ended, leftover, crashes>>
    BY <1>9, Here DEF Implement
  <2>2. CASE FailAttempt
    <3>1. PICK x \in 1 .. Milestones + 1, n \in 1 .. MaxRetries + 1 : Begin(x, n)
      BY <2>1, <2>2, Failing
    <3> QED BY <2>1, <2>2, <3>1, Failing, Begins DEF files, Shape, TypeOK, Forms
  <2>3. CASE ~FailAttempt
    <3>1. /\ Go("implement", "gates") /\ remote' = [remote EXCEPT !.ahead = TRUE]
          /\ UNCHANGED <<m, attempt, outcome, call, ok, loop, found, green>>
      BY <1>9, <2>3 DEF Implement
    <3>2. pc' \in [phase : Phase \cup {"none"}, step : Steps] /\ Place'
      BY <2>1, <3>1, Goes DEF StepsOf, Steps, Phase, GateSteps
    <3> QED BY <2>1, <3>1, <3>2 DEF files, Shape, TypeOK, Forms
  <2> QED BY <2>2, <2>3
<1>10. ASSUME NEW p, Gates(p) \/ Policies(p) \/ Fix(p) PROVE Shape'
  <2>1. pc.phase = p /\ pc.step \in GateSteps \ {"cover"}
    BY <1>10 DEF Gates, Policies, Fix, GateSteps
  <2>2. p \in {"implement", "review"} /\ m \in Milestone
    BY <2>1, GatesWhere DEF Shape, Place
  <2>3. \E s \in GateSteps : Go(p, s)
    BY <1>10 DEF Gates, Policies, Fix, GateSteps
  <2>4. pc' \in [phase : Phase \cup {"none"}, step : Steps] /\ Place'
    BY <1>10, <2>2, <2>3, Goes
       DEF Gates, Policies, Fix, ledger, StepsOf, Steps, Phase, GateSteps
  <2>5. gateFile' # NoFile => gateFile' \in {"passed", "failed"}
    BY <1>10 DEF Gates, Policies, Fix, files, VerifyQualityGates, Shape, TypeOK
  <2> QED BY <1>10, <2>4, <2>5
          DEF Gates, Policies, Fix, ledger, files, Shape, TypeOK, Forms
<1>11. ASSUME NEW p, Coverage(p) PROVE Shape'
  <2>1. pc.phase = p /\ pc.step = "cover" /\ p \in {"implement", "review"} /\ m \in Milestone
    BY <1>11, Here DEF Coverage, Shape, Place, StepsOf, TypeOK, Phase, GateSteps, Sitting
  <2>2. \/ Go(p, "coverfix")
        \/ p = "implement" /\ Go("trust", "comply")
        \/ p = "review" /\ Go("review", "strict")
    BY <1>11, <2>1 DEF Coverage
  <2>3. pc' \in [phase : Phase \cup {"none"}, step : Steps] /\ Place'
    BY <1>11, <2>1, <2>2, Goes DEF Coverage, ledger, StepsOf, Steps, Phase, GateSteps
  <2>4. loop' \in Nat
    BY <1>11 DEF Coverage, Shape, TypeOK
  <2> QED BY <1>11, <2>3, <2>4 DEF Coverage, ledger, files, Shape, TypeOK, Forms
<1>12. ASSUME NEW p, Comply(p) PROVE Shape'
  <2>1. pc.phase = p /\ pc.step = "comply" /\ p \in {"trust", "review"} /\ m \in Milestone
    BY <1>12, Here DEF Comply, Shape, Place, StepsOf, TypeOK, Phase, GateSteps, Sitting
  <2>2. pc' \in [phase : Phase \cup {"none"}, step : Steps] /\ Place'
    BY <1>12, <2>1, Goes DEF Comply, ledger, StepsOf, Steps, Phase
  <2>3. found' \in BOOLEAN
    BY <1>12 DEF Comply, RunSpecCompliance
  <2>4. specFile' = [by |-> Me] \/ specFile' = specFile
    BY <1>12 DEF Comply, RunSpecCompliance
  <2>5. specFile' # NoFile => specFile'.by \in Stamp
    BY <2>4, StampOfMe DEF Shape, TypeOK
  <2> QED BY <1>12, <2>2, <2>3, <2>5 DEF Comply, ledger, Shape, TypeOK, Forms
<1>13. ASSUME NEW p, Verify(p) PROVE Shape'
  <2>1. pc.phase = p /\ pc.step = "verify" /\ p \in {"trust", "review"} /\ m \in Milestone
    BY <1>13, Here DEF Verify, Shape, Place, StepsOf, TypeOK, Phase, GateSteps, Sitting
  <2>2. Go("review", "open") \/ Go("review", "again")
    BY <1>13, <2>1 DEF Verify
  <2>3. pc' \in [phase : Phase \cup {"none"}, step : Steps] /\ Place'
    BY <1>13, <2>1, <2>2, Goes DEF Verify, ledger, StepsOf, Steps, Phase
  <2>4. found' \in BOOLEAN
    BY <1>13 DEF Verify, RunFeatureVerification, Shape, TypeOK
  <2> QED BY <1>13, <2>3, <2>4 DEF Verify, ledger, files, Shape, TypeOK, Forms
<1>14. ASSUME StrictLoop PROVE Shape'
  <2>1. pc.phase = "review" /\ m \in Milestone
    BY <1>14 DEF StrictLoop, Shape, Place
  <2>2. (Go("review", "comply") \/ Go("push", "open")) /\ found' \in BOOLEAN
    BY <1>14 DEF StrictLoop, Shape, TypeOK
  <2>4. loop' \in Nat
    BY <1>14 DEF StrictLoop, Shape, TypeOK
  <2>3. pc' \in [phase : Phase \cup {"none"}, step : Steps] /\ Place'
    BY <1>14, <2>1, <2>2, Goes DEF StrictLoop, ledger, StepsOf, Steps, Phase
  <2> QED BY <1>14, <2>2, <2>3, <2>4 DEF StrictLoop, ledger, files, Shape, TypeOK, Forms
<1>15. ASSUME Push PROVE Shape'
  <2>1. pc' \in [phase : Phase \cup {"none"}, step : Steps] /\ Place'
    BY <1>15, Here, Goes DEF Push, ledger, StepsOf, Steps, Phase
  <2>2. remote' \in [ahead : BOOLEAN, latest : {"none", "running", "passed", "failed"},
                     ofPush : BOOLEAN, pushed : BOOLEAN]
    BY <1>15 DEF Push, Pushed, Shape, TypeOK
  <2> QED BY <1>15, <2>1, <2>2 DEF Push, ledger, files, Shape, TypeOK, Forms
<1>16. ASSUME CIRuns PROVE Shape'
  <2>1. remote' \in [ahead : BOOLEAN, latest : {"none", "running", "passed", "failed"},
                     ofPush : BOOLEAN, pushed : BOOLEAN]
    BY <1>16 DEF CIRuns, Shape, TypeOK
  <2> QED BY <1>16, <2>1 DEF CIRuns, ledger, files, Shape, TypeOK, Forms, Place
<1>17. ASSUME WaitForCI PROVE Shape'
  <2>1. (Go("ci", "fix") \/ Go("ci", "done")) /\ green' \in BOOLEAN
    BY <1>17 DEF WaitForCI, EndCI, Shape, TypeOK
  <2>2. pc' \in [phase : Phase \cup {"none"}, step : Steps] /\ Place'
    BY <1>17, <2>1, Here, Goes DEF WaitForCI, ledger, StepsOf, Steps, Phase
  <2> QED BY <1>17, <2>1, <2>2 DEF WaitForCI, ledger, files, Shape, TypeOK, Forms
<1>18. ASSUME FixCI PROVE Shape'
  <2>1. (Go("ci", "wait") \/ Go("ci", "fix") \/ Go("ci", "done")) /\ green' \in BOOLEAN
    BY <1>18 DEF FixCI, EndCI, Shape, TypeOK
  <2>2. pc' \in [phase : Phase \cup {"none"}, step : Steps] /\ Place'
    BY <1>18, <2>1, Here, Goes DEF FixCI, ledger, StepsOf, Steps, Phase
  <2>3. remote' \in [ahead : BOOLEAN, latest : {"none", "running", "passed", "failed"},
                     ofPush : BOOLEAN, pushed : BOOLEAN]
    BY <1>18 DEF FixCI, Pushed, Shape, TypeOK
  <2>4. loop' \in Nat
    BY <1>18 DEF FixCI, Shape, TypeOK
  <2> QED BY <1>18, <2>1, <2>2, <2>3, <2>4 DEF FixCI, ledger, files, Shape, TypeOK, Forms
<1>19. ASSUME Finish PROVE Shape'
  <2>1. m \in Milestone /\ m + 1 \in 1 .. Milestones + 1 /\ 1 \in 1 .. MaxRetries + 1
    BY <1>19, Here, MilestoneAfter, PhasesAssumption DEF Finish
  <2>2. Begin(m + 1, 1) /\ outcome' \in [Milestone -> {"pending", "completed", "failed"}]
    BY <1>19 DEF Finish, Shape, TypeOK
  <2> QED BY <1>19, <2>1, <2>2, Begins DEF Finish, files, Shape, TypeOK, Forms
<1>20. ASSUME UNCHANGED vars PROVE Shape'
  BY <1>20 DEF vars, ledger, files, Shape, TypeOK, Forms, Place
<1> QED BY <1>1, <1>2, <1>3, <1>4, <1>5, <1>6, <1>7, <1>8, <1>9, <1>10, <1>11, <1>12,
           <1>13, <1>14, <1>15, <1>16, <1>17, <1>18, <1>19, <1>20
        DEF Next, Driver, Step, AllDone

(* Every variable of the pipeline has its type, and the pipeline is at a   *)
(* step that the phase it is in has.                                       *)
THEOREM TypeCorrect == Spec => []Shape
  BY ShapeInitial, ShapeStep, PTL DEF Spec
-----------------------------------------------------------------------------
(* Whose the files are.  Only a session that ends without a crash clears   *)
(* the files, so that the first phase may find all of them; from then on   *)
(* every file is this attempt's, and the phase file is there during the    *)
(* review session only.                                                    *)

Sits == Session(pc.phase) /\ pc.step \in Sitting

PhaseFilePlace ==
    phaseFile # NoFile => pc.phase \in {"plan", "none"} \/ Sits

GapFilePlace ==
    gapFile # NoFile => leftover \/ (Sits /\ gapFile.by = Append(Me, pc.phase))

Later == pc.phase \notin {"plan", "none"}

OwnFiles ==
    /\ PhaseFilePlace /\ GapFilePlace
    /\ Later => planSha = m /\ (specFile # NoFile => specFile.by = Me)

(* Pushed in phase D or E only; a wait after the push, and the success     *)
(* that ends it, leave nothing unpushed.                                   *)
Pushes ==
    /\ pc.phase \notin {"ci", "none"} => ~remote.pushed
    /\ remote.pushed /\ (At("ci", "wait") \/ (At("ci", "done") /\ green)) => ~remote.ahead

Handing == OwnFiles /\ Pushes

LEMMA HandingInitial == Init => Handing
  BY DEF Init, Handing, OwnFiles, PhaseFilePlace, GapFilePlace, Later, Pushes, At

(* A milestone that begins, or a run that is over, owns nothing.           *)
LEMMA Restarted ==
  ASSUME pc'.phase \in {"plan", "none"}, gapFile' # NoFile => leftover',
         ~remote'.pushed \/ pc'.phase = "none"
  PROVE  Handing'
<1>1. ~At("ci", "wait")' /\ ~At("ci", "done")'
  BY DEF At
<1> QED BY <1>1 DEF Handing, OwnFiles, PhaseFilePlace, GapFilePlace, Later, Pushes

(* No report is on disk between sessions but one that a crash left.        *)
LEMMA NoReportBetween ==
  ASSUME Handing, ~Sits, gapFile # NoFile
  PROVE  leftover
  BY DEF Handing, OwnFiles, GapFilePlace

LEMMA FailingRestarts ==
  ASSUME Shape, pc.phase # "none", FailAttempt
  PROVE  pc'.phase \in {"plan", "none"} /\ ~remote'.pushed
  BY Failing, Begins

(* A step inside the phases that leaves the files of this attempt, but may *)
(* write its compliance report.                                            *)
LEMMA StepInside ==
  ASSUME Handing, ~Sits, ~Sits', Later,
         UNCHANGED <<m, attempt, crashes, planSha, phaseFile, gapFile, leftover>>,
         specFile' = specFile \/ specFile' = [by |-> Me]
  PROVE  OwnFiles'
<1>1. Me' = Me
  BY DEF Me
<1>2. specFile' # NoFile => specFile'.by = Me
  BY DEF Handing, OwnFiles
<1>3. phaseFile' = NoFile /\ (gapFile' # NoFile => leftover') /\ planSha' = m'
  BY DEF Handing, OwnFiles, PhaseFilePlace, GapFilePlace, Later
<1> QED BY <1>1, <1>2, <1>3 DEF OwnFiles, PhaseFilePlace, GapFilePlace

LEMMA GoesTo ==
  ASSUME NEW p, NEW s, Go(p, s)
  PROVE  pc'.phase = p /\ pc'.step = s
  BY DEF Go

(* Neither the wait for CI nor its end.                                    *)
LEMMA NotInCI ==
  ASSUME Handing, UNCHANGED remote, pc.phase \notin {"ci", "none"}, pc'.phase # "ci"
  PROVE  Pushes'
  BY DEF Handing, Pushes, At

LEMMA HandingStep == Shape /\ Handing /\ [Next]_vars => Handing'
<1> SUFFICES ASSUME Shape, Handing, [Next]_vars PROVE Handing'
  OBVIOUS
<1>1. ASSUME OpenPlan \/ OpenReview PROVE Handing'
  <2>1. pc'.phase = pc.phase /\ pc'.step = "talk" /\ pc.step = "open"
        /\ pc.phase \in {"plan", "review"}
    BY <1>1, Here, GoesTo DEF OpenPlan, OpenReview
  <2>2. UNCHANGED <<m, attempt, crashes, planSha, gapFile, specFile, remote, leftover>>
    BY <1>1 DEF OpenPlan, OpenReview, ledger
  <2>3. Sits' /\ ~Sits
    BY <2>1 DEF Sits, Session, Sitting
  <2>4. Me' = Me
    BY <2>2 DEF Me
  <2>5. OwnFiles'
    BY <2>1, <2>2, <2>3, <2>4
       DEF Handing, OwnFiles, PhaseFilePlace, GapFilePlace, Later
  <2>6. Pushes'
    BY <2>1, <2>2, NotInCI
  <2> QED BY <2>5, <2>6 DEF Handing
<1>2. ASSUME NEW p, Veto(p) PROVE Handing'
  <2>1. pc.phase # "none" /\ pc.step = "open"
    BY <1>2, Here DEF Veto
  <2>2. gapFile # NoFile => leftover
    BY <2>1, NoReportBetween DEF Sits, Sitting
  <2> QED BY <1>2, <2>1, <2>2, FailingRestarts, Restarted DEF Veto, files
<1>3. ASSUME NEW p, WriteReport(p) PROVE Handing'
  <2>1. pc.phase = p /\ Sits
    BY <1>3, Here DEF WriteReport, Sits, Sitting
  <2>2. UNCHANGED <<m, attempt, crashes, pc, planSha, phaseFile, specFile, remote, green,
                    leftover>>
    BY <1>3 DEF WriteReport, ledger
  <2> DEFINE by == Append(Me, p)
  <2>3. \E r : gapFile' = [report |-> r, by |-> by]
    BY <1>3 DEF WriteReport
  <2>4. Me' = Me /\ Sits' /\ by = Append(Me', pc'.phase)
    BY <2>1, <2>2 DEF Me, Sits
  <2> HIDE DEF by
  <2>5. gapFile'.by = by
    BY <2>3
  <2>6. Pushes'
    BY <2>2 DEF Handing, Pushes, At
  <2> QED BY <2>2, <2>4, <2>5, <2>6
          DEF Handing, OwnFiles, PhaseFilePlace, GapFilePlace, Later
<1>4. ASSUME NEW p, Stop(p) \/ AttemptFails(p) \/ Curate(p) PROVE Handing'
  <2>1. pc.phase = p /\ p \in {"plan", "review"} /\ Sits
    BY <1>4, Here DEF Stop, AttemptFails, Curate, Session, Sits, Sitting
  <2>2. UNCHANGED <<m, attempt, crashes, planSha, specFile, remote, leftover>>
    BY <1>4 DEF Stop, AttemptFails, Curate, ledger, files
  <2>3. pc' = pc \/ Go(p, "close") \/ Go(p, "emit")
    BY <1>4 DEF Stop, AttemptFails, Curate
  <2>4. pc'.phase = p /\ Sits'
    BY <2>1, <2>3, GoesTo DEF Sits, Sitting
  <2>5. gapFile' = gapFile \/ (gapFile # NoFile /\ gapFile'.by = gapFile.by)
    BY <1>4 DEF Stop, AttemptFails, Curate, files, Shape, Forms
  <2>6. Me' = Me
    BY <2>2 DEF Me
  <2>7. OwnFiles'
    BY <2>1, <2>2, <2>4, <2>5, <2>6
       DEF Handing, OwnFiles, PhaseFilePlace, GapFilePlace, Later
  <2>8. Pushes'
    BY <2>1, <2>2, <2>4, NotInCI
  <2> QED BY <2>7, <2>8 DEF Handing
<1>5. ASSUME Crash \/ \E p : EmitRaises(p) PROVE Handing'
  <2>1. pc.phase # "none" /\ Die
    BY <1>5, Here DEF Crash, EmitRaises, Session
  <2>2. gapFile' # NoFile => leftover'
    BY <2>1 DEF Die, files
  <2> QED BY <2>1, <2>2, Dying, Restarted
<1>6. ASSUME ClosePlan \/ CloseReview PROVE Handing'
  <2>1. pc.phase \in {"plan", "review"} /\ crashes' = crashes /\ phaseFile' = NoFile
        /\ gapFile' = NoFile /\ specFile' = NoFile
    BY <1>6 DEF ClosePlan, CloseReview, ReportsClosed, Clear
  <2>2. CASE ok
    <3>1. UNCHANGED <<m, attempt, remote>>
          /\ (Go("implement", "open") \/ Go("review", "gates"))
      BY <1>6, <2>2 DEF ClosePlan, CloseReview
    <3>2. pc'.phase \in {"implement", "review"}
      BY <3>1, GoesTo
    <3>3. planSha' = m'
      BY <1>6, <2>2 DEF ClosePlan, CloseReview, ReportsClosed, CapturePlanSha, Handing,
                        OwnFiles, Later
    <3>4. Pushes'
      BY <2>1, <3>1, <3>2, NotInCI
    <3> QED BY <2>1, <3>3, <3>4 DEF Handing, OwnFiles, PhaseFilePlace, GapFilePlace
  <2>3. CASE ~ok
    <3>1. FailAttempt
      BY <1>6, <2>3 DEF ClosePlan, CloseReview
    <3> QED BY <2>1, <3>1, FailingRestarts, Restarted
  <2> QED BY <2>2, <2>3
<1>7. ASSUME Implement PROVE Handing'
  <2>1. pc.phase = "implement" /\ pc.step = "open"
        /\ UNCHANGED <<planSha, phaseFile, gapFile, specFile, leftover, crashes>>
    BY <1>7, Here DEF Implement, files
  <2>2. ~Sits /\ Later
    BY <2>1 DEF Sits, Sitting, Later
  <2>3. CASE FailAttempt
    BY <2>1, <2>2, <2>3, NoReportBetween, FailingRestarts, Restarted
  <2>4. CASE ~FailAttempt
    <3>1. Go("implement", "gates") /\ remote' = [remote EXCEPT !.ahead = TRUE]
          /\ UNCHANGED <<m, attempt>>
      BY <1>7, <2>4 DEF Implement
    <3>2. pc'.phase = "implement" /\ pc'.step = "gates" /\ ~Sits'
      BY <3>1, GoesTo DEF Sits, Sitting
    <3>3. OwnFiles'
      BY <2>1, <2>2, <3>1, <3>2, StepInside
    <3>4. Pushes'
      BY <2>1, <3>1, <3>2 DEF Handing, Pushes, At, Shape, TypeOK
    <3> QED BY <3>3, <3>4 DEF Handing
  <2> QED BY <2>3, <2>4
<1>8. ASSUME NEW p, Gates(p) \/ Policies(p) \/ Fix(p) PROVE Handing'
  <2>1. pc.phase = p /\ pc.step \in GateSteps
    BY <1>8 DEF Gates, Policies, Fix, GateSteps
  <2>2. pc.phase \in {"implement", "review"} /\ ~Sits /\ Later
    BY <2>1, GatesWhere DEF Sits, Sitting, GateSteps, Later
  <2>3. \E s \in GateSteps : Go(p, s)
    BY <1>8 DEF Gates, Policies, Fix, GateSteps
  <2>4. pc'.phase = p /\ ~Sits'
    BY <2>3, GoesTo DEF Sits, Sitting, GateSteps
  <2>5. UNCHANGED <<m, attempt, crashes, planSha, phaseFile, gapFile, specFile, remote,
                    leftover>>
    BY <1>8 DEF Gates, Policies, Fix, ledger, files
  <2>6. OwnFiles'
    BY <2>2, <2>4, <2>5, StepInside
  <2>7. Pushes'
    BY <2>1, <2>2, <2>4, <2>5, NotInCI
  <2> QED BY <2>6, <2>7 DEF Handing
<1>9. ASSUME NEW p, Coverage(p) PROVE Handing'
  <2>1. pc.phase = p /\ pc.step = "cover" /\ p \in {"implement", "review"}
    BY <1>9, Here, GatesWhere DEF Coverage, GateSteps
  <2>2. \/ Go(p, "coverfix")
        \/ Go("trust", "comply")
        \/ Go(p, "strict")
    BY <1>9 DEF Coverage
  <2>3. pc'.phase \in {p, "trust"} /\ ~Sits' /\ ~Sits /\ Later
    BY <2>1, <2>2, GoesTo DEF Sits, Sitting, Later
  <2>4. UNCHANGED <<m, attempt, crashes, planSha, phaseFile, gapFile, specFile, remote,
                    leftover>>
    BY <1>9 DEF Coverage, ledger, files
  <2>5. OwnFiles'
    BY <2>3, <2>4, StepInside
  <2>6. Pushes'
    BY <2>1, <2>3, <2>4, NotInCI
  <2> QED BY <2>5, <2>6 DEF Handing
<1>10. ASSUME NEW p, Comply(p) \/ Verify(p) PROVE Handing'
  <2>1. pc.phase = p /\ pc.step \in {"comply", "verify"}
    BY <1>10, Here DEF Comply, Verify
  <2>2. p \in {"trust", "review"}
    BY <2>1 DEF Shape, Place, StepsOf, TypeOK, Phase, GateSteps, Sitting
  <2>3. Go(p, "verify") \/ Go("review", "open") \/ Go(p, "again")
    BY <1>10 DEF Comply, Verify
  <2>4. pc'.phase \in {p, "review"} /\ ~Sits' /\ ~Sits /\ Later
    BY <2>1, <2>2, <2>3, GoesTo DEF Sits, Sitting, Later
  <2>5. UNCHANGED <<m, attempt, crashes, planSha, phaseFile, gapFile, remote, leftover>>
        /\ (specFile' = specFile \/ specFile' = [by |-> Me])
    BY <1>10 DEF Comply, Verify, RunSpecCompliance, ledger, files
  <2>6. OwnFiles'
    BY <2>4, <2>5, StepInside
  <2>7. Pushes'
    BY <2>1, <2>2, <2>4, <2>5, NotInCI
  <2> QED BY <2>6, <2>7 DEF Handing
<1>11. ASSUME StrictLoop PROVE Handing'
  <2>1. pc.phase = "review" /\ pc.step \in {"strict", "again"}
    BY <1>11 DEF StrictLoop
  <2>2. Go("review", "comply") \/ Go("push", "open")
    BY <1>11 DEF StrictLoop
  <2>3. pc'.phase \in {"review", "push"} /\ ~Sits' /\ ~Sits /\ Later
    BY <2>1, <2>2, GoesTo DEF Sits, Sitting, Later
  <2>4. UNCHANGED <<m, attempt, crashes, planSha, phaseFile, gapFile, specFile, remote,
                    leftover>>
    BY <1>11 DEF StrictLoop, ledger, files
  <2>5. OwnFiles'
    BY <2>3, <2>4, StepInside
  <2>6. Pushes'
    BY <2>1, <2>3, <2>4, NotInCI
  <2> QED BY <2>5, <2>6 DEF Handing
<1>12. ASSUME Push \/ WaitForCI \/ FixCI \/ CIRuns PROVE Handing'
  <2>7. At("push", "open") \/ At("ci", "wait") \/ At("ci", "fix")
    BY <1>12 DEF Push, WaitForCI, FixCI, CIRuns
  <2>1. pc.phase \in {"push", "ci"} /\ ~Sits /\ Later
    BY <2>7, Here DEF Sits, Session, Later
  <2>2. pc' = pc \/ Go("ci", "wait") \/ Go("ci", "fix") \/ Go("ci", "done")
    BY <1>12 DEF Push, WaitForCI, FixCI, CIRuns, EndCI
  <2>3. ~Sits'
    BY <2>1, <2>2, GoesTo DEF Sits, Session
  <2>4. UNCHANGED <<m, attempt, crashes, planSha, phaseFile, gapFile, specFile, leftover>>
    BY <1>12 DEF Push, WaitForCI, FixCI, CIRuns, ledger, files
  <2>5. OwnFiles'
    BY <2>1, <2>3, <2>4, StepInside
  <2>6. Pushes'
    <3>1. ASSUME Push PROVE Pushes'
      BY <3>1 DEF Push, Pushed, Go, At, Handing, Pushes, Shape, TypeOK
    <3>2. ASSUME CIRuns PROVE Pushes'
      BY <3>2 DEF CIRuns, At, Handing, Pushes, Shape, TypeOK
    <3>3. ASSUME WaitForCI PROVE Pushes'
      BY <3>3 DEF WaitForCI, EndCI, Go, At, Handing, Pushes, Shape, TypeOK
    <3>4. ASSUME FixCI PROVE Pushes'
      BY <3>4 DEF FixCI, EndCI, Pushed, Go, At, Handing, Pushes, Shape, TypeOK
    <3> QED BY <1>12, <3>1, <3>2, <3>3, <3>4
  <2> QED BY <2>5, <2>6 DEF Handing
<1>13. ASSUME Finish PROVE Handing'
  <2>1. pc.phase = "ci" /\ m \in Milestone /\ ~Sits
    BY <1>13, Here DEF Finish, Sits, Session
  <2>2. m + 1 \in 1 .. Milestones + 1 /\ 1 \in 1 .. MaxRetries + 1
    BY <2>1, MilestoneAfter, PhasesAssumption
  <2>3. pc'.phase \in {"plan", "none"} /\ ~remote'.pushed
    BY <1>13, <2>2, Begins DEF Finish
  <2> QED BY <1>13, <2>1, <2>3, NoReportBetween, Restarted DEF Finish, files
<1>14. ASSUME UNCHANGED vars PROVE Handing'
  BY <1>14 DEF vars, ledger, files, Handing, OwnFiles, PhaseFilePlace, GapFilePlace, Later,
               Pushes, Sits, Me, At
<1> QED BY <1>1, <1>2, <1>3, <1>4, <1>5, <1>6, <1>7, <1>8, <1>9, <1>10, <1>11, <1>12,
           <1>13, <1>14
        DEF Next, Driver, Step, AllDone

LEMMA FilesHandedOver == Spec => [](Shape /\ Handing)
<1>1. Init => Shape /\ Handing
  BY ShapeInitial, HandingInitial
<1>2. (Shape /\ Handing) /\ [Next]_vars => (Shape /\ Handing)'
  BY ShapeStep, HandingStep
<1> QED BY <1>1, <1>2, PTL DEF Spec

(* The gap report whose numbers a session is reported with, and which the  *)
(* curator may replace, was written in that session, or a run died.        *)
THEOREM ReportOfTheSession == Spec => []GapReportIsOwn
<1>1. Handing => GapReportIsOwn
  BY DEF Handing, OwnFiles, GapFilePlace, GapReportIsOwn, At
<1> QED BY <1>1, FilesHandedOver, PTL

(* Features are verified against the compliance report of this attempt.    *)
THEOREM ReportOfTheAttempt == Spec => []VerifiesOwnReport
<1>1. Shape /\ Handing => VerifiesOwnReport
  <2> SUFFICES ASSUME Shape, Handing, pc.step = "verify" PROVE Later
    BY DEF Handing, OwnFiles, VerifiesOwnReport
  <2> QED BY DEF Shape, Place, StepsOf, Later, Sitting
<1> QED BY <1>1, FilesHandedOver, PTL

(* The review is about the commits since this milestone's plan, and the    *)
(* hook holds back no other session than the plan's and the review's.      *)
THEOREM HandedOverAlways == Spec => []HandedOver
<1>1. Handing => HandedOver
  BY DEF Handing, OwnFiles, PhaseFilePlace, Later, Sits, Session, HandedOver
<1> QED BY <1>1, FilesHandedOver, PTL

(* A pushed milestone whose CI counts as green has nothing unpushed.       *)
THEOREM GreenIsOfEverything == Spec => []GreenCoversEverything
<1>1. Handing => GreenCoversEverything
  BY DEF Handing, Pushes, GreenCoversEverything
<1> QED BY <1>1, FilesHandedOver, PTL

(* The type invariant that phases_resume checks.                           *)
THEOREM PhasesTyped == Spec => []TypeOK
<1>1. Shape => TypeOK
  BY DEF Shape
<1> QED BY <1>1, TypeCorrect, PTL
-----------------------------------------------------------------------------
(* What converges.  The hook trusts the numbers of the report; they are    *)
(* about its gaps, at most six (for which FallShort is exact).             *)
CountsAreOfGaps ==
    \A r \in Reports :
        r.kind = "object" =>
            /\ DOMAIN r.gaps = 1 .. Len(r.gaps) /\ Len(r.gaps) \in 0 .. 6
            /\ r.critical \in 0 .. Len(r.gaps)

(* The validator finds at most every gap invalid.                          *)
LEMMA RejectedBound ==
  ASSUME NEW report, NEW results, Len(report.gaps) \in Nat,
         DOMAIN report.gaps = 1 .. Len(report.gaps)
  PROVE  Rejected(report, results) \in 0 .. Len(report.gaps)
<1> DEFINE invalid == Invalid(report.gaps, results)
           all == 1 .. Len(report.gaps)
<1>1. invalid \subseteq all
  BY DEF Invalid
<1>2. IsFiniteSet(all) /\ Cardinality(all) = Len(report.gaps)
  BY FS_Interval
<1>3. IsFiniteSet(invalid) /\ Cardinality(invalid) \in Nat
      /\ Cardinality(invalid) <= Len(report.gaps)
  BY <1>1, <1>2, FS_Subset, FS_CardinalityType
<1> QED BY <1>3 DEF Rejected, InvalidCount

(* A product that rounds down to nothing has a factor that is small: not   *)
(* more was counted than was found invalid.                                *)
LEMMA ScaledAway ==
  ASSUME NEW n \in Nat, NEW invalid \in Nat, NEW total \in Nat,
         n <= total, invalid <= total, 0 < total,
         (n * (total - invalid)) \div total = 0
  PROVE  n <= invalid
<1> DEFINE rest == total - invalid
           product == n * rest
<1>1. rest \in Nat /\ product \in Nat /\ product \div total = 0
  OBVIOUS
<1> HIDE DEF product
<1>2. product < total
  BY <1>1
<1>3. SUFFICES ASSUME n > invalid PROVE FALSE
  OBVIOUS
<1>4. rest > 0
  BY <1>3
<1>5. PICK k \in Nat : n = invalid + 1 + k
  BY <1>3
<1>6. product = invalid * rest + rest + k * rest
  BY <1>1, <1>5 DEF product
<1>7. k * rest \in Nat /\ invalid * rest >= invalid
  BY <1>1, <1>4
<1> QED BY <1>1, <1>2, <1>6, <1>7

LEMMA CountedAway ==
  ASSUME CountsAreOfGaps, NEW report \in Reports, NEW results, report.kind = "object",
         Counted(report.critical, report, results) = 0
  PROVE  \/ report.critical <= Rejected(report, results)
         \/ Strict /\ \E t \in FallShort : /\ report.critical = t[1]
                                           /\ Rejected(report, results) = t[2]
<1> DEFINE n == report.critical
           invalid == Rejected(report, results)
           gaps == report.gaps
           total == IF gaps = <<>> THEN 1 ELSE Len(gaps)
<1>1. n \in 0 .. Len(gaps) /\ Len(gaps) \in 0 .. 6 /\ DOMAIN gaps = 1 .. Len(gaps)
  BY DEF CountsAreOfGaps
<1>2. invalid \in 0 .. Len(gaps)
  BY <1>1, RejectedBound
<1>3. CASE ~(Strict /\ invalid > 0)
  <2>1. n = 0
    BY <1>3 DEF Counted
  <2> QED BY <1>2, <2>1
<1>4. CASE Strict /\ invalid > 0
  <2>1. Len(gaps) > 0 /\ total = Len(gaps)
    BY <1>1, <1>2, <1>4
  <2>2. Scaled(n, invalid, total) = 0
    BY <1>4 DEF Counted
  <2>3. CASE <<n, invalid, total>> \in FallShort
    BY <1>4, <2>3
  <2>4. CASE <<n, invalid, total>> \notin FallShort
    <3>1. (n * (total - invalid)) \div total = 0
      BY <2>2, <2>4 DEF Scaled
    <3> HIDE DEF n, invalid, total, gaps
    <3>2. n <= invalid
      BY <1>1, <1>2, <2>1, <3>1, ScaledAway
    <3> QED BY <3>2 DEF n, invalid
  <2> QED BY <2>3, <2>4
<1> QED BY <1>3, <1>4

LEMMA ConvergedReport ==
  ASSUME Shape, NEW results, Why(phaseFile, gapFile, results) = "converged"
  PROVE  /\ gapFile.report \in Reports /\ gapFile.report.kind = "object"
         /\ Counted(gapFile.report.critical, gapFile.report, results) = 0
  BY PhasesAssumption DEF Shape, TypeOK, Why, Converged

LEMMA NoCriticalStep ==
  ASSUME CountsAreOfGaps, Shape, NoCriticalLeft, [Next]_vars
  PROVE  NoCriticalLeft'
<1>1. ASSUME NEW p, Stop(p) PROVE NoCriticalLeft'
  <2> DEFINE why == Why(phaseFile, gapFile, Results)
             critical == gapFile.report.critical
             invalid == Rejected(gapFile.report, Results)
  <2>1. CASE why = "blocked"
    BY <1>1, <2>1 DEF Stop, NoCriticalLeft
  <2>2. CASE why \notin {"blocked", "converged"}
    <3>1. ended' = Ended(why)
      BY <1>1, <2>2 DEF Stop
    <3> HIDE DEF why
    <3> QED BY <2>2, <3>1 DEF Ended, Going, NoCriticalLeft
  <2>3. CASE why = "converged"
    <3>1. \/ critical <= invalid
          \/ Strict /\ \E t \in FallShort : critical = t[1] /\ invalid = t[2]
      BY <2>3, ConvergedReport, CountedAway
    <3>2. ended' = [why |-> why, critical |-> critical, invalid |-> invalid]
      BY <1>1, <2>3 DEF Stop
    <3> HIDE DEF why, critical, invalid
    <3>3. ended'.critical = critical /\ ended'.invalid = invalid
      BY <3>2
    <3> QED BY <3>1, <3>3 DEF NoCriticalLeft
  <2> QED BY <2>1, <2>2, <2>3
<1>2. ASSUME NEW p, AttemptFails(p) PROVE NoCriticalLeft'
  BY <1>2 DEF AttemptFails, Ended, Going, NoCriticalLeft
<1>3. ASSUME Crash \/ ClosePlan \/ CloseReview \/ \E p : EmitRaises(p) PROVE NoCriticalLeft'
  <2>1. ended' = Going
    BY <1>3 DEF Crash, ClosePlan, CloseReview, ReportsClosed, EmitRaises, Die
  <2> QED BY <2>1 DEF Going, NoCriticalLeft
<1>4. ASSUME \/ OpenPlan \/ OpenReview \/ Implement \/ StrictLoop \/ Push
             \/ WaitForCI \/ FixCI \/ CIRuns \/ Finish \/ UNCHANGED vars
             \/ \E p : \/ Veto(p) \/ WriteReport(p) \/ Curate(p) \/ Gates(p) \/ Policies(p)
                       \/ Fix(p) \/ Coverage(p) \/ Comply(p) \/ Verify(p)
      PROVE  NoCriticalLeft'
  <2>1. ended' = ended
    BY <1>4 DEF OpenPlan, OpenReview, Implement, StrictLoop, Push, WaitForCI, FixCI, CIRuns,
                Finish, vars, Veto, WriteReport, Curate, Gates, Policies, Fix, Coverage,
                Comply, Verify
  <2> QED BY <2>1 DEF NoCriticalLeft
<1> QED BY <1>1, <1>2, <1>3, <1>4 DEF Next, Driver, Step, AllDone

(* A session that ends as converged has no critical gap left but those the *)
(* validator found invalid, and the truncated products.                    *)
THEOREM ConvergedMeansDone == ASSUME CountsAreOfGaps PROVE Spec => []NoCriticalLeft
<1>1. Init => NoCriticalLeft
  BY DEF Init, Going, NoCriticalLeft
<1>2. Shape /\ NoCriticalLeft /\ [Next]_vars => NoCriticalLeft'
  BY NoCriticalStep
<1> QED BY <1>1, <1>2, TypeCorrect, PTL DEF Spec
=============================================================================
