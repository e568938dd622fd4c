--------------------------- MODULE ConvergenceGate ---------------------------
(***************************************************************************)
(* The decision of the Stop hook (hooks/convergence_gate.py): whether      *)
(* claude may end its plan or review session.  It reads the phase file     *)
(* (type, iteration, prevImportant, prevKeys), the gap report and, through *)
(* the validator, the cached results of the quality gates.                 *)
(***************************************************************************)
EXTENDS GapValidator

CONSTANTS
    MaxIterations,  \* max_iterations: blocked stops per session
    Validate,       \* validation.gap_validator
    Strict,         \* validation.gap_validation_mode = "strict"
    NoFile,         \* a file that does not exist
    NoCount         \* previous_important_gaps before the first pass

ASSUME GateAssumption ==
    /\ MaxIterations \in Nat
    /\ Validate \in BOOLEAN /\ Strict \in BOOLEAN

(* normalize(): without line numbers and directories. *)
Keys(gaps) == {<<gaps[i].topic, FileKeys(gaps[i])>> : i \in DOMAIN gaps}

IsStuck(current, previous) ==
    /\ current # {} /\ previous # {}
    /\ 5 * Cardinality(current \cap previous) > 4 * Cardinality(current)

Rejected(report, results) ==
    IF Validate THEN InvalidCount(report.gaps, results) ELSE 0

(* The products critical * (1 - invalid / total) of up to six gaps that are *)
(* whole numbers and fall short of them as doubles: int() loses one.        *)
FallShort == {<<5, 4, 5>>, <<6, 5, 6>>}

(* int(n * (1 - min(1.0, invalid / total))) *)
Scaled(n, invalid, total) ==
    LET exact == (n * (total - invalid)) \div total
    IN  IF <<n, invalid, total>> \in FallShort THEN exact - 1 ELSE exact

Counted(n, report, results) ==
    LET invalid == Rejected(report, results)
        total   == IF report.gaps = <<>> THEN 1 ELSE Len(report.gaps)
    IN  IF Strict /\ invalid > 0 THEN Scaled(n, invalid, total) ELSE n

(* A mutated form of Converged: a plan may leave critical gaps.             *)
ConvergedOnImportant(phase, report, results) ==
    LET important == Counted(report.important, report, results)
    IN  IF phase.type = "review"
        THEN /\ Counted(report.critical, report, results) = 0
             /\ important = 0 /\ report.tests /\ report.lint
        ELSE important <= 3

Converged(phase, report, results) ==
    LET important == Counted(report.important, report, results)
    IN  /\ Counted(report.critical, report, results) = 0
        /\ phase.type = "review" =>
               important = 0 /\ report.tests /\ report.lint
        /\ phase.type = "ultrathink" =>
               \/ important <= 3
               \/ /\ phase.prevImportant # NoCount
                  /\ 2 * important <= phase.prevImportant

(* Why the hook lets the session end, or "blocked".  A report that is JSON *)
(* but no object crashes the hook, and only exit code 2 blocks.            *)
Why(phase, gapFile, results) ==
    IF phase = NoFile THEN "nophase"
    ELSE IF phase.iteration >= MaxIterations THEN "cap"
    ELSE IF gapFile = NoFile THEN "blocked"
    ELSE IF gapFile.report.kind = "garbled" THEN "blocked"
    ELSE IF gapFile.report.kind = "array" THEN "hookfailed"
    ELSE IF IsStuck(Keys(gapFile.report.gaps), phase.prevKeys) THEN "stuck"
    ELSE IF Converged(phase, gapFile.report, results) THEN "converged"
    ELSE "blocked"

(* _increment_iteration, with the tracking only after a readable report. *)
Increment(phase, gapFile, results) ==
    IF gapFile # NoFile /\ gapFile.report.kind = "object"
    THEN [phase EXCEPT
            !.iteration = @ + 1,
            !.prevImportant =
                Counted(gapFile.report.important, gapFile.report, results),
            !.prevKeys = Keys(gapFile.report.gaps)]
    ELSE [phase EXCEPT !.iteration = @ + 1]
=============================================================================
