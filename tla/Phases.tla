------------------------------- MODULE Phases -------------------------------
(***************************************************************************)
(* What happens inside a milestone (phases/*.py, quality_gates.py,         *)
(* integrations/ci_fix.py, hooks/convergence_gate.py): the six phases with *)
(* their claude sessions, the files under .claude/ they hand to each other *)
(* and to the Stop hook, their fix loops, and CI; milestones one after the *)
(* other, retries, runs that die anywhere and are resumed.  What a session *)
(* costs is in BudgetGate, what a milestone's outcome means to the others  *)
(* in MilestoneLoop.                                                       *)
(***************************************************************************)
EXTENDS ConvergenceGate

CONSTANTS
    Milestones,     \* how many milestones, worked on in order
    MaxRetries,     \* max_retries of a milestone
    MaxCalls,       \* attempts of run_claude per session
    CuratorMin,     \* curator_min_gaps
    MaxCoverage,    \* coverage_max_attempts
    MaxStrict,      \* max_strict_iterations; 0 when strict_mode is off
    MaxFixes,       \* max_fix_attempts of the CI loop
    MaxCrashes,     \* exploration bound: how often the process dies
    Reports         \* gap reports that claude may write

ASSUME PhasesAssumption ==
    /\ {Milestones, MaxRetries, MaxCalls, MaxCoverage, MaxStrict, MaxFixes,
        CuratorMin, MaxCrashes} \subseteq Nat
    /\ Milestones > 0 /\ MaxCalls > 0 /\ MaxCoverage > 0
    /\ \A r \in Reports : r.kind \in {"object", "garbled", "array"}

VARIABLES
    m,          \* the milestone being worked on; Milestones + 1 at the end
    attempt,    \* of this milestone in this run
    outcome,    \* [milestone -> "pending", "completed" or "failed"], saved
    planSha,    \* plan_commit_sha in the saved state: whose plan it is
    pc,         \* [phase, step] of the milestone's pipeline
    call,       \* attempt of run_claude inside the session
    ok,         \* ~is_error of the phase's own session
    loop,       \* iterations of the coverage, strict or CI loop
    found,      \* do the last reports name something missing or broken?
    phaseFile,  \* .workflow-phase.json, read by the hook
    gapFile,    \* .gap-report.json: [report, by]
    gateFile,   \* .quality-gate-results.json: lint's result
    specFile,   \* .spec-compliance.json: [by]
    remote,     \* [ahead, latest, ofPush, pushed]: unpushed commits; the
                \* latest CI run, whether the last push caused it; and
                \* whether this milestone was pushed
    green,      \* ci_success
    crashes,
    ended,      \* ghost: how the last session ended, on which numbers
    leftover    \* ghost: a run ended and left a gap report behind

files == <<phaseFile, gapFile, gateFile, specFile>>
ledger == <<m, attempt, outcome, crashes>>
vars == <<ledger, planSha, pc, call, ok, loop, found, files, remote, green,
          ended, leftover>>

Milestone == 1 .. Milestones
At(phase, step) == pc = [phase |-> phase, step |-> step]
Go(phase, step) == pc' = [phase |-> phase, step |-> step]

(* The attempt of a milestone in a run: what another one wrote is old. *)
Me == <<m, attempt, crashes>>

Going == [why |-> "none", critical |-> 0, invalid |-> 0]
Ended(why) == [Going EXCEPT !.why = why]

Session(phase) == phase \in {"plan", "review"}
-----------------------------------------------------------------------------
Init ==
    /\ m = 1 /\ attempt = 1
    /\ outcome = [x \in Milestone |-> "pending"]
    /\ planSha = 0
    /\ pc = [phase |-> "plan", step |-> "open"]
    /\ call = 1 /\ ok = TRUE /\ loop = 0 /\ found = FALSE
    /\ phaseFile = NoFile /\ gapFile = NoFile
    /\ gateFile = NoFile /\ specFile = NoFile
    /\ remote = [ahead |-> FALSE, latest |-> "none", ofPush |-> TRUE,
                 pushed |-> FALSE]
    /\ green = FALSE
    /\ crashes = 0
    /\ ended = Going
    /\ leftover = FALSE

(* _run_milestone begins: with milestone x, attempt n. *)
Begin(x, n) ==
    /\ m' = x /\ attempt' = n
    /\ IF x \in Milestone THEN Go("plan", "open") ELSE Go("none", "done")
    /\ call' = 1 /\ ok' = TRUE /\ loop' = 0 /\ found' = FALSE /\ green' = FALSE
    /\ remote' = [remote EXCEPT !.pushed = FALSE]

(* A mutated form of FailAttempt: one retry too many.                       *)
FailAttemptLate ==
    IF attempt <= MaxRetries + 1
    THEN Begin(m, attempt + 1) /\ UNCHANGED outcome
    ELSE Begin(m + 1, 1) /\ outcome' = [outcome EXCEPT ![m] = "failed"]

(* _PhaseError: the next attempt, or the milestone has failed. *)
FailAttempt ==
    IF attempt <= MaxRetries
    THEN Begin(m, attempt + 1) /\ UNCHANGED outcome
    ELSE Begin(m + 1, 1) /\ outcome' = [outcome EXCEPT ![m] = "failed"]

(* The process dies; sw resume starts the milestone again, with the files   *)
(* as they are, or nobody resumes.                                          *)
Die ==
    /\ IF crashes < MaxCrashes
       THEN Begin(m, 1) /\ crashes' = crashes + 1
       ELSE /\ Go("none", "done")
            /\ UNCHANGED <<m, attempt, call, ok, loop, found, green, remote,
                           crashes>>
    /\ leftover' = (gapFile # NoFile)
    /\ ended' = Going
    /\ UNCHANGED <<outcome, planSha, files>>

Crash == pc.phase # "none" /\ crashes < MaxCrashes /\ Die
-----------------------------------------------------------------------------
(* Sessions of phases A and C.  The phase file is written anew, the gap     *)
(* report is not touched.                                                   *)
SavePhaseState(type) ==
    phaseFile' = [type |-> type, iteration |-> 0,
                  prevImportant |-> NoCount, prevKeys |-> {}]

OpenPlan ==
    /\ At("plan", "open") /\ Go("plan", "talk")
    /\ SavePhaseState("ultrathink")
    /\ call' = 1
    /\ UNCHANGED <<ledger, planSha, ok, loop, found, gapFile, gateFile, specFile,
                   remote, green, ended, leftover>>

OpenReview ==
    /\ At("review", "open") /\ Go("review", "talk")
    /\ SavePhaseState("review")
    /\ call' = 1
    /\ UNCHANGED <<ledger, planSha, ok, loop, found, gapFile, gateFile, specFile,
                   remote, green, ended, leftover>>

(* A plugin vetoes the phase before anything is written. *)
Veto(p) ==
    /\ p \in {"plan", "implement", "review", "push"} /\ At(p, "open")
    /\ FailAttempt
    /\ UNCHANGED <<planSha, files, ended, leftover, crashes>>

WriteReport(p) ==
    /\ At(p, "talk") /\ Session(p)
    /\ \E r \in Reports : gapFile' = [report |-> r, by |-> Append(Me, p)]
    /\ UNCHANGED <<ledger, planSha, pc, call, ok, loop, found, phaseFile,
                   gateFile, specFile, remote, green, ended, leftover>>

Results ==
    IF gateFile = NoFile THEN <<>>
    ELSE [tool \in {"lint"} |-> gateFile = "passed"]

(* claude tries to end its session and the hook decides. *)
Stop(p) ==
    LET why == Why(phaseFile, gapFile, Results) IN
    /\ At(p, "talk") /\ Session(p)
    /\ IF why = "blocked"
       THEN /\ phaseFile' = Increment(phaseFile, gapFile, Results)
            /\ UNCHANGED <<pc, ok, call, ended>>
       ELSE /\ ok' = TRUE /\ call' = 1
            /\ Go(p, "close")
            /\ ended' =
                 IF why = "converged"
                 THEN [why |-> why, critical |-> gapFile.report.critical,
                       invalid |-> Rejected(gapFile.report, Results)]
                 ELSE Ended(why)
            /\ UNCHANGED phaseFile
    /\ UNCHANGED <<ledger, planSha, loop, found, gapFile, gateFile,
                   specFile, remote, green, leftover>>

(* An attempt of run_claude times out or returns an error; the next one     *)
(* finds the phase file and the report as they are.  The budget may refuse  *)
(* it.                                                                      *)
AttemptFails(p) ==
    /\ At(p, "talk") /\ Session(p)
    /\ \/ /\ call < MaxCalls
          /\ call' = call + 1
          /\ UNCHANGED <<pc, ok, ended>>
       \/ /\ ok' = FALSE /\ call' = 1
          /\ Go(p, "close")
          /\ ended' = Ended("error")
    /\ UNCHANGED <<ledger, planSha, loop, found, files, remote, green, leftover>>

(* run_gap_curator: claude drops gaps of a report, and is believed.          *)
Curated(report) == {r \in Reports : r.kind = "object" /\ Len(r.gaps) <= Len(report.gaps)}

(* The curator puts another report in the place of one with enough gaps.    *)
Curate(p) ==
    /\ At(p, "close") /\ Session(p)
    /\ gapFile # NoFile
    /\ gapFile.report.kind = "object"
    /\ Len(gapFile.report.gaps) >= CuratorMin
    /\ \E r \in Curated(gapFile.report) : gapFile' = [gapFile EXCEPT !.report = r]
    /\ Go(p, "emit")
    /\ UNCHANGED <<ledger, planSha, call, ok, loop, found, phaseFile, gateFile,
                   specFile, remote, green, ended, leftover>>

(* A report that is no object: .get raises outside of any try.              *)
EmitRaises(p) ==
    /\ At(p, "close") /\ Session(p)
    /\ gapFile # NoFile
    /\ gapFile.report.kind = "array"
    /\ Die

(* A mutated form of Clear: only after a session that succeeded.            *)
ClearIfOk ==
    /\ phaseFile' = IF ok THEN NoFile ELSE phaseFile
    /\ gapFile' = IF ok THEN NoFile ELSE gapFile
    /\ gateFile' = IF ok THEN NoFile ELSE gateFile
    /\ specFile' = IF ok THEN NoFile ELSE specFile

(* A mutated form of Clear: the compliance report stays.                    *)
ClearKeepingCompliance ==
    /\ phaseFile' = NoFile /\ gapFile' = NoFile /\ gateFile' = NoFile
    /\ UNCHANGED specFile

(* clear_phase_state *)
Clear ==
    /\ phaseFile' = NoFile /\ gapFile' = NoFile
    /\ gateFile' = NoFile /\ specFile' = NoFile

(* A mutated form of CapturePlanSha: the plan of the first milestone stays. *)
CaptureOnce == planSha' = IF planSha = 0 THEN m ELSE planSha

CapturePlanSha == planSha' = m

(* Events, archive_reports, clear_phase_state, and only then the result is  *)
(* looked at.                                                               *)
ReportsClosed(p) ==
    /\ pc.phase = p /\ pc.step \in {"close", "emit"}
    /\ gapFile # NoFile => gapFile.report.kind # "array"
    /\ Clear
    /\ leftover' = (leftover /\ gapFile' # NoFile) /\ ended' = Going
    /\ UNCHANGED crashes

ClosePlan ==
    /\ ReportsClosed("plan")
    /\ IF ok
       THEN /\ Go("implement", "open")
            /\ CapturePlanSha
            /\ UNCHANGED <<m, attempt, outcome, call, ok, loop, found, remote,
                           green>>
       ELSE FailAttempt /\ UNCHANGED planSha

CloseReview ==
    /\ ReportsClosed("review")
    /\ IF ok
       THEN /\ Go("review", "gates")
            /\ UNCHANGED <<m, attempt, outcome, call, ok, loop, found, remote,
                           green>>
       ELSE FailAttempt
    /\ UNCHANGED planSha
-----------------------------------------------------------------------------
(* Phase B: its session has no phase file, so that the hook lets it end.    *)
Implement ==
    /\ At("implement", "open")
    /\ \/ /\ Go("implement", "gates")
          /\ remote' = [remote EXCEPT !.ahead = TRUE]
          /\ UNCHANGED <<m, attempt, outcome, call, ok, loop, found, green>>
       \/ FailAttempt
    /\ UNCHANGED <<planSha, files, ended, leftover, crashes>>

(* _verify_quality_gates: the results are cached for the hook.              *)
VerifyQualityGates == gateFile' \in {"passed", "failed"}

(* run_quality_gate_checkpoint after phases B and C.  A failed fix is only  *)
(* logged.                                                                  *)
Gates(p) ==
    /\ pc.phase = p /\ pc.step \in {"gates", "regate"}
    /\ VerifyQualityGates
    /\ Go(p, IF pc.step = "gates" /\ gateFile' = "failed" THEN "gatefix"
             ELSE "policy")
    /\ UNCHANGED <<ledger, planSha, call, ok, loop, found, phaseFile, gapFile,
                   specFile, remote, green, ended, leftover>>

Policies(p) ==
    /\ pc.phase = p /\ pc.step \in {"policy", "repolicy"}
    /\ \E passed \in BOOLEAN :
          Go(p, IF pc.step = "policy" /\ ~passed THEN "policyfix" ELSE "cover")
    /\ UNCHANGED <<ledger, planSha, call, ok, loop, found, files, remote, green,
                   ended, leftover>>

(* One call of claude; its result is not looked at.  There are unpushed     *)
(* commits since phase B.                                                   *)
Fix(p) ==
    /\ pc.phase = p /\ pc.step \in {"gatefix", "policyfix", "coverfix"}
    /\ Go(p, CASE pc.step = "gatefix" -> "regate"
               [] pc.step = "policyfix" -> "repolicy"
               [] OTHER -> "cover")
    /\ UNCHANGED <<ledger, planSha, call, ok, loop, found, files, remote, green,
                   ended, leftover>>

(* _check_coverage, whose verdict nobody looks at; the trailers only warn.  *)
Coverage(p) ==
    /\ At(p, "cover")
    /\ \/ /\ loop < MaxCoverage - 1
          /\ loop' = loop + 1
          /\ Go(p, "coverfix")
       \/ /\ loop' = 0
          /\ IF p = "implement" THEN Go("trust", "comply")
             ELSE Go(p, "strict")
    /\ UNCHANGED <<ledger, planSha, call, ok, found, files, remote, green, ended,
                   leftover>>
-----------------------------------------------------------------------------
(* run_spec_compliance: a report, an error (an empty report) or an          *)
(* exception (no report); only the first is written.                        *)
RunSpecCompliance ==
    \/ /\ specFile' = [by |-> Me]
       /\ found' \in BOOLEAN
    \/ /\ found' = FALSE
       /\ UNCHANGED specFile

Comply(p) ==
    /\ At(p, "comply") /\ Go(p, "verify")
    /\ RunSpecCompliance
    /\ UNCHANGED <<ledger, planSha, call, ok, loop, phaseFile, gapFile, gateFile,
                   remote, green, ended, leftover>>

(* run_feature_verification: nothing without the compliance report.         *)
RunFeatureVerification ==
    \/ specFile # NoFile /\ found' = TRUE
    \/ UNCHANGED found

(* Phase TbV is one pass, the strict loop asks again.                       *)
Verify(p) ==
    /\ At(p, "verify")
    /\ RunFeatureVerification
    /\ IF p = "trust" THEN Go("review", "open") ELSE Go(p, "again")
    /\ UNCHANGED <<ledger, planSha, call, ok, loop, files, remote, green, ended,
                   leftover>>

(* A mutated form of StrictLoop: its iterations are not counted.            *)
StrictLoopUncounted ==
    /\ pc.phase = "review" /\ pc.step \in {"strict", "again"}
    /\ IF found /\ loop < MaxStrict
       THEN Go("review", "comply") /\ UNCHANGED <<loop, found>>
       ELSE loop' = 0 /\ Go("push", "open") /\ found' = FALSE
    /\ UNCHANGED <<ledger, planSha, call, ok, files, remote, green, ended,
                   leftover>>

(* _run_strict_mode_loop: another iteration while something is missing or   *)
(* broken, as the last reports had it.                                      *)
StrictLoop ==
    /\ pc.phase = "review" /\ pc.step \in {"strict", "again"}
    /\ IF found /\ loop < MaxStrict
       THEN loop' = loop + 1 /\ Go("review", "comply") /\ UNCHANGED found
       ELSE loop' = 0 /\ Go("push", "open") /\ found' = FALSE
    /\ UNCHANGED <<ledger, planSha, call, ok, files, remote, green, ended,
                   leftover>>
-----------------------------------------------------------------------------
(* What a git push that succeeds does: the CI run it causes is not          *)
(* registered yet.                                                          *)
Pushed(r) == [r EXCEPT !.ahead = FALSE, !.ofPush = @ /\ ~r.ahead, !.pushed = TRUE]

(* Phase D: claude pushes, or does not; nobody looks.                       *)
Push ==
    /\ At("push", "open")
    /\ remote' \in {remote, Pushed(remote)}
    /\ Go("ci", "wait")
    /\ loop' = 0
    /\ UNCHANGED <<ledger, planSha, call, ok, found, files, green, ended, leftover>>

(* The CI service: the run of the last push appears, and completes.  It    *)
(* does so at any time, but only a waiting phase E looks.                  *)
CIRuns ==
    /\ At("ci", "wait")
    /\ \/ /\ ~remote.ofPush
          /\ remote' = [remote EXCEPT !.ofPush = TRUE, !.latest = "running"]
       \/ /\ remote.latest = "running"
          /\ \E status \in {"passed", "failed"} :
                remote' = [remote EXCEPT !.latest = status]
    /\ UNCHANGED <<ledger, planSha, pc, call, ok, loop, found, files, green, ended,
                   leftover>>

(* The end of phase E.                                                      *)
EndCI(success) == Go("ci", "done") /\ green' = success

(* wait_for_ci: the latest run, whatever caused it.  The deadline and three *)
(* errors of gh in a row are a timeout, which ends the first wait for good  *)
(* and counts as a failure later.                                           *)
WaitForCI ==
    /\ At("ci", "wait")
    /\ \/ remote.latest = "passed" /\ EndCI(TRUE)
       \/ /\ remote.latest = "failed" \/ loop > 0
          /\ IF loop < MaxFixes THEN Go("ci", "fix") /\ UNCHANGED green
             ELSE EndCI(FALSE)
       \/ loop = 0 /\ EndCI(FALSE)
    /\ UNCHANGED <<ledger, planSha, call, ok, loop, found, files, remote, ended,
                   leftover>>

(* A mutated form of FixCI: a push that fails is not noticed.               *)
FixCIUnchecked ==
    /\ At("ci", "fix")
    /\ loop' = loop + 1
    /\ \E commits \in BOOLEAN, pushes \in BOOLEAN :
          LET fixed == [remote EXCEPT !.ahead = @ \/ commits] IN
          remote' = IF pushes THEN Pushed(fixed) ELSE fixed
    /\ Go("ci", "wait")
    /\ UNCHANGED <<ledger, planSha, call, ok, found, files, green, ended, leftover>>

(* ci_fix_loop: claude commits a fix, or not; git push; if it succeeds the  *)
(* loop waits again, otherwise claude is called again.                      *)
FixCI ==
    /\ At("ci", "fix")
    /\ loop' = loop + 1
    /\ \E commits \in BOOLEAN, pushes \in BOOLEAN :
          LET fixed == [remote EXCEPT !.ahead = @ \/ commits] IN
          /\ remote' = IF pushes THEN Pushed(fixed) ELSE fixed
          /\ CASE pushes -> Go("ci", "wait") /\ UNCHANGED green
               [] ~pushes /\ loop + 1 < MaxFixes -> Go("ci", "fix") /\ UNCHANGED green
               [] OTHER -> EndCI(FALSE)
    /\ UNCHANGED <<ledger, planSha, call, ok, found, files, ended, leftover>>

(* The driver drops ci_success: red or green, the milestone is completed.   *)
Finish ==
    /\ At("ci", "done")
    /\ Begin(m + 1, 1)
    /\ outcome' = [outcome EXCEPT ![m] = "completed"]
    /\ UNCHANGED <<planSha, files, ended, leftover, crashes>>

AllDone == pc.phase = "none" /\ UNCHANGED vars
-----------------------------------------------------------------------------
Phase == {"plan", "implement", "trust", "review", "push", "ci"}

(* What the process does, each step of it bounded by a timeout.             *)
Step(p) ==
    \/ Stop(p) \/ AttemptFails(p) \/ Curate(p) \/ EmitRaises(p)
    \/ Gates(p) \/ Policies(p) \/ Fix(p) \/ Coverage(p)
    \/ Comply(p) \/ Verify(p)

Driver ==
    \/ Step(pc.phase)
    \/ OpenPlan \/ OpenReview \/ ClosePlan \/ CloseReview
    \/ Implement \/ StrictLoop \/ Push \/ WaitForCI \/ FixCI \/ Finish

Next ==
    \/ Driver \/ AllDone \/ Crash \/ CIRuns
    \/ Veto(pc.phase) \/ WriteReport(pc.phase)

Spec == Init /\ [][Next]_vars

FairSpec == Spec /\ WF_vars(Driver)
-----------------------------------------------------------------------------
(* Properties                                                              *)

Steps == {"open", "talk", "close", "emit", "gates", "gatefix", "regate",
          "policy", "policyfix", "repolicy", "cover", "coverfix", "comply",
          "verify", "strict", "again", "wait", "fix", "done"}
Stamp == (1 .. Milestones + 1) \X (1 .. MaxRetries + 1) \X (0 .. MaxCrashes)

TypeOK ==
    /\ m \in 1 .. Milestones + 1 /\ attempt \in 1 .. MaxRetries + 1
    /\ outcome \in [Milestone -> {"pending", "completed", "failed"}]
    /\ planSha \in 0 .. Milestones
    /\ pc \in [phase : Phase \cup {"none"}, step : Steps]
    /\ call \in 1 .. MaxCalls /\ ok \in BOOLEAN /\ found \in BOOLEAN
    /\ loop \in Nat
    /\ phaseFile # NoFile => phaseFile.iteration \in 0 .. MaxIterations
    /\ gapFile # NoFile => gapFile.report \in Reports
    /\ gateFile # NoFile => gateFile \in {"passed", "failed"}
    /\ specFile # NoFile => specFile.by \in Stamp
    /\ remote \in [ahead : BOOLEAN, latest : {"none", "running", "passed", "failed"},
                   ofPush : BOOLEAN, pushed : BOOLEAN]
    /\ green \in BOOLEAN /\ leftover \in BOOLEAN
    /\ crashes \in 0 .. MaxCrashes

(* The gap report whose numbers a session is reported with, and which the   *)
(* curator may replace, was written in that session: not by another phase,  *)
(* nor an attempt or a milestone before it.  A run that died is the one     *)
(* source of an older one.                                                  *)
GapReportIsOwn ==
    \A p \in {"plan", "review"} :
        At(p, "close") /\ gapFile # NoFile =>
            gapFile.by = Append(Me, p) \/ leftover

(* The features that are verified are those of the compliance report of the *)
(* same attempt, although a check that fails leaves the file as it was.     *)
VerifiesOwnReport ==
    pc.step = "verify" /\ specFile # NoFile => specFile.by = Me

(* Whatever happened before, the review is about the commits since this     *)
(* milestone's plan, and no claude but those of the plan and the review is   *)
(* held back by the hook.                                                   *)
HandedOver ==
    /\ pc.phase \in {"implement", "trust", "review", "push", "ci"} => planSha = m
    /\ pc.phase \in {"implement", "trust", "push", "ci"} => phaseFile = NoFile

(* A session that the hook lets end as converged has no critical gap left   *)
(* but those the validator found invalid.  The exceptions are the counts    *)
(* that int() truncates to zero.                                            *)
NoCriticalLeft ==
    ended.why = "converged" =>
        \/ ended.critical <= ended.invalid
        \/ Strict /\ \E t \in FallShort : ended.critical = t[1] /\ ended.invalid = t[2]

(* A CI run that is taken for green, of a milestone that was pushed, leaves *)
(* no commit behind that was not: a fix that could not be pushed is not     *)
(* passed over because an older run of the branch is green.                 *)
GreenCoversEverything ==
    At("ci", "done") /\ green /\ remote.pushed => ~remote.ahead

(* Every pipeline ends, with every milestone recorded or the run dead.      *)
PipelineEnds == <>(pc.phase = "none")
=============================================================================
