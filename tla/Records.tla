------------------------------ MODULE Records ------------------------------
(***************************************************************************)
(* The three records of a run: the telemetry file, the hash-chained audit  *)
(* trail and the rows of the dashboard's database.                         *)
(*                                                                         *)
(* A run writes one line at a time into both files.  Each telemetry event  *)
(* is also queued for a thread of the run (db/writer.py), which writes the *)
(* queue to the database in batches.  A batch that fails is rolled back    *)
(* and is lost; `sw server sync` (db/sync_adapter.py) files the events     *)
(* again, from the telemetry file, in whatever state a run left the rows.  *)
(* Nothing keeps two syncs from overlapping, no column but a project's     *)
(* name is unique, and a transaction sees only what others have committed. *)
(* Other commands of the user append to the files without any lock, and a  *)
(* crash or a write that fails may leave half a line behind, to which the  *)
(* next line is glued.                                                     *)
(*                                                                         *)
(* A run has one milestone with one phase.  Runs follow each other, since  *)
(* the workflow lock lets one of them in at a time.  The row of the project*)
(* is taken to be there: a sync that fails on it is one that fails.        *)
(***************************************************************************)
EXTENDS Integers, Sequences, SequencesExt, FiniteSets

CONSTANTS
    MaxRuns,      \* runs of the workflow
    Commands,     \* commands of the user that may be under way at once
    Setups,       \* whether there is an audit trail, which runs have a database
    Refusable,    \* kinds of events whose rows the database may refuse
    MaxQueue,     \* events the writer's queue holds: 1000 in the code
    MaxEvents     \* commands, what the database refuses and lines that fail

ASSUME RecordsAssumption ==
    /\ {MaxRuns, MaxQueue, MaxEvents} \subseteq Nat
    /\ Setups \subseteq [audit : BOOLEAN, server : BOOLEAN, database : SUBSET (1..MaxRuns)]
    /\ "run_started" \notin Refusable

VARIABLES
    telemetry,  \* the telemetry file
    audit,      \* the audit trail
    run,        \* the number of the latest run
    step,       \* the step it takes next, 0 when no run is alive
    setup,      \* what the project has configured
    trail,      \* the hash its audit trail goes on from
    queue,      \* the events its writer has yet to take
    batch,      \* the events its writer has taken
    known,      \* the rows its writer knows
    db,         \* the rows of the database
    sync,       \* the events that each sync under way has read
    filed,      \* what the transaction of each sync is about to commit
    loaded,     \* the hash each command is about to append to
    fresh,      \* TRUE when a sync has read all there is and none has failed since
    refused,    \* the events whose rows were refused since
    shared,     \* the runs that more than one of the rest were filing
    broken,     \* how much of the audit trail preceded its first mishap
    events      \* the bounded things that have happened

auditVars  == <<audit, trail, loaded, broken>>
runVars    == <<run, step, setup>>
writerVars == <<queue, batch, known>>
syncVars   == <<sync, filed, fresh, refused, shared>>
vars == <<telemetry, auditVars, runVars, writerVars, db, syncVars, events>>

Standalone == 0
RunIds == 1..MaxRuns
NoRow  == 0
NoHash == 0
Lost   == -1
Unbroken == -1
Unloaded == -3

Event(r, kind) == [run |-> r, kind |-> kind]
Garbage == Event(Standalone, "garbage")

Kinds == {"run_started", "milestone_started", "phase_started", "phase_completed",
          "milestone_completed", "run_completed"}

----------------------------------------------------------------------------
(* Files                                                                    *)

(* A line after half a line is glued to it, and neither can be read.        *)
Line(file, line) ==
    IF file.torn THEN [file EXCEPT !.torn = FALSE]
    ELSE [file EXCEPT !.lines = Append(@, line)]

Tear(file, garbage) ==
    IF file.torn THEN file
    ELSE [lines |-> Append(file.lines, garbage), torn |-> TRUE]

(* What a reader of the telemetry file is left with.                        *)
Readable(file) ==
    FoldLeft(LAMBDA read, e : IF e = Garbage THEN read ELSE Append(read, e),
             <<>>, file.lines)

(* The audit trail keeps, of every entry, which line's hash it goes on from.*)
(* No two entries have the same hash: they differ in what they record.      *)
Illegible == -2

(* A mutated form of LoadLast: every process starts a chain of its own.     *)
LoadNone(file) == NoHash

LoadLast(file) ==
    LET Legible == {i \in DOMAIN file.lines : file.lines[i] /= Illegible}
    IN  IF Legible = {} THEN NoHash ELSE CHOOSE i \in Legible : \A j \in Legible : j <= i

(* The length of the chain that `sw audit verify` finds intact.             *)
Verified(file) ==
    CHOOSE n \in 0..Len(file.lines) :
        /\ \A i \in 1..n : file.lines[i] = i - 1
        /\ n < Len(file.lines) => file.lines[n + 1] /= n

----------------------------------------------------------------------------
(* Rows                                                                     *)

(* `next` is the next uuid; a row has an `id` and the id it belongs `of`.    *)
NoTables == [next |-> 1, runs |-> {}, milestones |-> {}, phases |-> {}, events |-> {}]

NoRows == [run |-> NoRow, milestone |-> NoRow, phase |-> NoRow]

Finish(rows, id) ==
    {IF x.id = id THEN [x EXCEPT !.status = "done"] ELSE x : x \in rows}

AddRun(s, r, status) ==
    [db |-> [s.db EXCEPT !.next = @ + 1,
                         !.runs = @ \cup
                             {[id |-> s.db.next, run |-> r, status |-> status]}],
     known |-> [s.known EXCEPT !.run = s.db.next]]

AddMilestone(s) ==
    [db |-> [s.db EXCEPT !.next = @ + 1,
                         !.milestones = @ \cup
                             {[id |-> s.db.next, of |-> s.known.run, status |-> "running"]}],
     known |-> [s.known EXCEPT !.milestone = s.db.next]]

AddPhase(s) ==
    [db |-> [s.db EXCEPT !.next = @ + 1,
                         !.phases = @ \cup
                             {[id |-> s.db.next, of |-> s.known.milestone,
                               status |-> "running"]}],
     known |-> [s.known EXCEPT !.phase = s.db.next]]

AddEvent(s, kind) ==
    [s EXCEPT !.db = [s.db EXCEPT !.events = @ \cup {[of |-> s.known.run, kind |-> kind]}]]

(* The events that both the writer and a sync treat alike.                  *)
Update(s, kind) ==
    CASE kind = "phase_started" /\ s.known.milestone /= NoRow
              /\ s.known.phase = NoRow -> AddPhase(s)
      [] kind = "phase_completed" ->
              [s EXCEPT !.db = [s.db EXCEPT !.phases = Finish(@, s.known.phase)]]
      [] kind = "milestone_completed" ->
              [s EXCEPT !.db = [s.db EXCEPT !.milestones = Finish(@, s.known.milestone)]]
      [] kind = "run_completed" ->
              [s EXCEPT !.db = [s.db EXCEPT !.runs = Finish(@, s.known.run)]]
      [] OTHER -> s

(* _write_event: what the writer files of one event.                        *)
WriteEvent(s, e) ==
    LET started == IF e.kind = "run_started" THEN AddRun(s, e.run, "running") ELSE s
        updated == IF /\ e.kind = "milestone_started"
                      /\ started.known.run /= NoRow
                      /\ started.known.milestone = NoRow
                   THEN AddMilestone(started)
                   ELSE Update(started, e.kind)
    IN  IF updated.known.run = NoRow THEN updated ELSE AddEvent(updated, e.kind)

(* `.first()` of a query that does not order its rows.                      *)
First(rows, pick) ==
    IF rows = {} THEN NoRow
    ELSE CHOOSE id \in {x.id : x \in rows} :
             \A x \in rows : IF pick = "oldest" THEN id <= x.id ELSE id >= x.id

RunRow(s, r, pick) == First({x \in s.db.runs : x.run = r}, pick)

(* A mutated form of Adopt: a run that starts is a new row.                 *)
AdoptBlindly(s, e, pick) ==
    IF e.kind \in {"run_started", "spec_lint_completed"}
    THEN AddRun(s, e.run, "running")
    ELSE [s EXCEPT !.known.run = IF @ = NoRow THEN RunRow(s, e.run, pick) ELSE @]

(* The row that a sync has for the run of an event, if any.  Project-level  *)
(* events have a run of their own, made when the first of them is met.      *)
Adopt(s, e, pick) ==
    LET row == RunRow(s, e.run, pick)
    IN  IF s.known.run /= NoRow THEN s
        ELSE IF row /= NoRow THEN [s EXCEPT !.known.run = row]
        ELSE IF e.kind = "run_started" THEN AddRun(s, e.run, "running")
        ELSE IF e.kind = "spec_lint_completed" THEN AddRun(s, e.run, "standalone")
        ELSE s

(* A mutated form of AdoptMilestone: a row that is there is left as it is.  *)
AdoptNoMilestone(s, pick) ==
    IF \/ s.known.milestone /= NoRow
       \/ \E x \in s.db.milestones : x.of = s.known.run
    THEN s ELSE AddMilestone(s)

AdoptMilestone(s, pick) ==
    LET row == First({x \in s.db.milestones : x.of = s.known.run}, pick)
    IN  IF s.known.milestone /= NoRow THEN s
        ELSE IF row /= NoRow THEN [s EXCEPT !.known.milestone = row]
        ELSE AddMilestone(s)

(* What a sync files of one event: nothing of a run without a row, no event *)
(* for the start of a run that has a row already, and none that is refused, *)
(* which a savepoint keeps from the rest.                                   *)
SyncEvent(s, e, pick, drop) ==
    LET adopted == Adopt(s, e, pick)
        updated == IF e.kind = "milestone_started" THEN AdoptMilestone(adopted, pick)
                   ELSE Update(adopted, e.kind)
    IN  IF \/ adopted.known.run = NoRow
           \/ /\ e.kind = "run_started"
              /\ RunRow(s, e.run, pick) /= NoRow
        THEN adopted
        ELSE IF e \in drop THEN updated
        ELSE AddEvent(updated, e.kind)

(* The rows that a sync knows are those of the run its events belong to.    *)
File(acc, e, pick, drop) ==
    LET s == SyncEvent([db |-> acc.db, known |-> acc.at[e.run]], e, pick, drop)
    IN  [db |-> s.db, at |-> [acc.at EXCEPT ![e.run] = s.known]]

SyncAll(rows, read, pick, drop) ==
    FoldLeft(LAMBDA acc, e : File(acc, e, pick, drop),
             [db |-> rows, at |-> [r \in 0..MaxRuns |-> NoRows]], read).db

(* What is there once a transaction that has seen less of it commits.  Rows *)
(* are never deleted, and one that is done is never opened again.           *)
Latest(old, new) ==
    LET Done(rows) == {x.id : x \in {y \in rows : y.status = "done"}}
        Had == {x.id : x \in old}
    IN  {x \in old : x.status = "done" \/ x.id \notin Done(new)}
        \cup {x \in new : x.id \notin Had}
        \cup {x \in new : x.status = "done" /\ x.id \notin Done(old)}

Merge(rows, more) ==
    [rows EXCEPT !.runs = Latest(@, more.runs),
                 !.milestones = Latest(@, more.milestones),
                 !.phases = Latest(@, more.phases),
                 !.events = @ \cup more.events]

WriteAll(rows, have, taken) ==
    FoldLeft(WriteEvent, [db |-> rows, known |-> have], taken)

----------------------------------------------------------------------------
(* A run                                                                    *)

Emits(kind)   == [does |-> "emit", what |-> kind]
Audits(event) == [does |-> "audit", what |-> event]
Loads         == [does |-> "load", what |-> "audit"]

(* The last step before a run's own entries go on from what it has loaded.  *)
Loading == 2

(* Without a key or the setting, the audit trail is disabled.               *)
Script ==
    IF setup.audit
    THEN <<Emits("run_started"), Loads, Audits("RUN_START"),
           Emits("milestone_started"), Audits("MILESTONE_START"),
           Emits("phase_started"), Emits("phase_completed"),
           Audits("MILESTONE_COMPLETE"), Emits("milestone_completed"),
           Emits("run_completed"), Audits("RUN_COMPLETE")>>
    ELSE <<Emits("run_started"), Emits("milestone_started"),
           Emits("phase_started"), Emits("phase_completed"),
           Emits("milestone_completed"), Emits("run_completed")>>
Closing == Len(Script) + 1

Live == step /= 0

(* A process that has loaded the trail and has entries yet to append.       *)
RunLoaded == Loading < step /\ step < Closing
CommandsLoaded == {c \in Commands : loaded[c] /= Unloaded}

(* The earliest mishap counts.                                              *)
BreakAfter(length) == broken' = IF broken = Unbroken THEN length ELSE broken

(* A sync under way, and one whose transaction has not begun to write.      *)
NoSync  == <<Garbage>>
Unfiled == [NoTables EXCEPT !.next = 0]
Syncing == {c \in Commands : sync[c] /= NoSync}

(* One of the bounded things that may happen besides.                       *)
Eventful == events < MaxEvents /\ events' = events + 1

Does(what) == step \in DOMAIN Script /\ Script[step].does = what
Now == Event(run, Script[step].what)

Start ==
    /\ ~Live /\ run < MaxRuns
    /\ run' = run + 1
    /\ step' = 1
    /\ fresh' = FALSE
    /\ UNCHANGED <<telemetry, auditVars, setup, writerVars, db, sync, filed, refused,
                   shared, events>>

(* The file first: a write that fails is passed over, with the line lost or *)
(* cut.  Then the queue, which drops what it has no room for.               *)
Emit ==
    /\ Does("emit")
    /\ \/ telemetry' = Line(telemetry, Now) /\ UNCHANGED events
       \/ telemetry' \in {telemetry, Tear(telemetry, Garbage)} /\ Eventful
    /\ queue' = IF run \in setup.database /\ Len(queue) < MaxQueue
                THEN Append(queue, Now) ELSE queue
    /\ step' = step + 1
    /\ UNCHANGED <<auditVars, run, setup, batch, known, db, syncVars>>

Load ==
    /\ Does("load")
    /\ trail' = LoadLast(audit)
    /\ step' = step + 1
    /\ UNCHANGED <<telemetry, audit, loaded, broken, run, setup, writerVars, db,
                   syncVars, events>>

(* An entry that is glued to half a line has a hash that no line bears.     *)
(* What a command that has loaded the trail by now appends is unsound.      *)
AppendEntry ==
    /\ Does("audit")
    /\ audit' = Line(audit, trail)
    /\ trail' = IF audit.torn THEN Lost ELSE Len(audit.lines) + 1
    /\ IF CommandsLoaded /= {} THEN BreakAfter(Len(audit.lines) + 1)
       ELSE UNCHANGED broken
    /\ step' = step + 1
    /\ UNCHANGED <<telemetry, loaded, run, setup, writerVars, db, syncVars, events>>

(* The end of a process takes its thread and all they knew with it.         *)
Exit ==
    /\ step' = 0 /\ queue' = <<>> /\ batch' = <<>>
    /\ known' = NoRows /\ trail' = NoHash

(* The writer's thread, and close() once it has joined the thread.          *)
TakeBatch ==
    /\ Live /\ batch = <<>> /\ queue /= <<>>
    /\ batch' = queue
    /\ queue' = <<>>
    /\ UNCHANGED <<telemetry, auditVars, runVars, known, db, syncVars, events>>

CommitBatch ==
    LET s == WriteAll(db, known, batch)
    IN  /\ Live /\ batch /= <<>>
        /\ db' = s.db
        /\ known' = s.known
        /\ batch' = <<>>
        /\ UNCHANGED <<telemetry, auditVars, runVars, queue, syncVars, events>>

(* A mutated form of LoseBatch: the uuids of the rows outlive them.         *)
LoseBatchKeepingRows ==
    LET s == WriteAll(db, known, batch)
    IN  /\ Live /\ batch /= <<>> /\ Eventful
        /\ batch' = <<>>
        /\ db' = [db EXCEPT !.next = s.db.next]
        /\ known' = s.known
        /\ UNCHANGED <<telemetry, auditVars, runVars, queue, syncVars>>

(* A rollback restores what the writer knew, and the batch is gone.         *)
LoseBatch ==
    /\ Live /\ batch /= <<>> /\ Eventful
    /\ batch' = <<>>
    /\ db' = [db EXCEPT !.next = WriteAll(db, known, batch).db.next]
    /\ known' = known
    /\ UNCHANGED <<telemetry, auditVars, runVars, queue, syncVars>>

Close ==
    /\ step = Closing /\ batch = <<>> /\ queue = <<>>
    /\ Exit
    /\ UNCHANGED <<telemetry, audit, loaded, broken, run, setup, db, syncVars, events>>

Crash ==
    /\ Live /\ Exit
    /\ UNCHANGED <<telemetry, audit, loaded, broken, run, setup, db, syncVars, events>>

(* The process dies in the middle of a line.                                *)
CrashInLine ==
    /\ Live /\ Exit /\ Eventful
    /\ UNCHANGED <<loaded, run, setup, db, syncVars>>
    /\ \/ /\ Does("emit")
          /\ telemetry' = Tear(telemetry, Garbage)
          /\ UNCHANGED <<audit, broken>>
       \/ /\ Does("audit")
          /\ audit' = Tear(audit, Illegible)
          /\ BreakAfter(Len(audit.lines))
          /\ UNCHANGED telemetry

----------------------------------------------------------------------------
(* Commands of the user                                                     *)

(* `sw lint-spec`: an event without a run, or what is left of its line.     *)
LintSpec ==
    /\ Eventful
    /\ telemetry' \in {Line(telemetry, Event(Standalone, "spec_lint_completed")),
                       Tear(telemetry, Garbage)}
    /\ fresh' = FALSE
    /\ UNCHANGED <<auditVars, runVars, writerVars, db, sync, filed, refused, shared>>

(* `sw budget reset`, `sw breaker reset`: a trail of their own, and no lock.*)
AuditLoad(c) ==
    /\ setup.audit /\ loaded[c] = Unloaded /\ Eventful
    /\ loaded' = [loaded EXCEPT ![c] = LoadLast(audit)]
    /\ UNCHANGED <<telemetry, audit, trail, broken, runVars, writerVars, db, syncVars>>

(* What the others that have loaded the trail by now append is unsound.     *)
AuditAppend(c) ==
    /\ loaded[c] /= Unloaded
    /\ loaded' = [loaded EXCEPT ![c] = Unloaded]
    /\ audit' = Line(audit, loaded[c])
    /\ IF RunLoaded \/ CommandsLoaded /= {c} THEN BreakAfter(Len(audit.lines) + 1)
       ELSE UNCHANGED broken
    /\ UNCHANGED <<telemetry, trail, runVars, writerVars, db, syncVars, events>>

(* The command dies in the middle of the line.                              *)
AuditTear(c) ==
    /\ loaded[c] /= Unloaded /\ Eventful
    /\ loaded' = [loaded EXCEPT ![c] = Unloaded]
    /\ audit' = Tear(audit, Illegible)
    /\ BreakAfter(Len(audit.lines))
    /\ UNCHANGED <<telemetry, trail, runVars, writerVars, db, syncVars>>

(* `sw server sync`, if it is told of a database: the file is read first.   *)
SyncRead(c) ==
    /\ setup.server /\ sync[c] = NoSync /\ Eventful
    /\ Readable(telemetry) /= <<>>
    /\ sync' = [sync EXCEPT ![c] = Readable(telemetry)]
    /\ shared' = shared \cup (IF Live THEN {run} ELSE {})
                        \cup (IF Syncing /= {} THEN 0..run ELSE {})
    /\ fresh' = ~Live
    /\ refused' = IF Syncing = {} THEN {} ELSE refused
    /\ UNCHANGED <<telemetry, auditVars, runVars, writerVars, db, filed>>

(* Its rows are made from those that are there, where nobody sees them yet. *)
SyncFile(c) ==
    /\ sync[c] /= NoSync /\ filed[c] = Unfiled
    /\ \E drop \in SUBSET {e \in Range(sync[c]) : e.kind \in Refusable},
          pick \in {"oldest", "newest"} :
           /\ IF drop = {} THEN UNCHANGED events ELSE Eventful
           /\ refused' = refused \cup drop
           /\ filed' = [filed EXCEPT ![c] = SyncAll(db, sync[c], pick, drop)]
    /\ db' = [db EXCEPT !.next = filed'[c].next]
    /\ UNCHANGED <<telemetry, auditVars, runVars, writerVars, sync, fresh, shared>>

SyncCommit(c) ==
    /\ filed[c] /= Unfiled
    /\ db' = Merge(db, filed[c])
    /\ sync' = [sync EXCEPT ![c] = NoSync]
    /\ filed' = [filed EXCEPT ![c] = Unfiled]
    /\ UNCHANGED <<telemetry, auditVars, runVars, writerVars, fresh, refused, shared,
                   events>>

(* The database is away, or refuses the row of a run: nothing is filed.     *)
SyncFails(c) ==
    /\ sync[c] /= NoSync /\ Eventful
    /\ sync' = [sync EXCEPT ![c] = NoSync]
    /\ filed' = [filed EXCEPT ![c] = Unfiled]
    /\ fresh' = FALSE
    /\ UNCHANGED <<telemetry, auditVars, runVars, writerVars, db, refused, shared>>

----------------------------------------------------------------------------
Init ==
    /\ telemetry = [lines |-> <<>>, torn |-> FALSE]
    /\ audit = [lines |-> <<>>, torn |-> FALSE]
    /\ trail = NoHash /\ loaded = [c \in Commands |-> Unloaded]
    /\ broken = Unbroken
    /\ run = 0 /\ step = 0 /\ setup \in Setups
    /\ queue = <<>> /\ batch = <<>> /\ known = NoRows
    /\ db = NoTables
    /\ sync = [c \in Commands |-> NoSync] /\ filed = [c \in Commands |-> Unfiled]
    /\ fresh = FALSE /\ refused = {} /\ shared = {}
    /\ events = 0

Command(c) ==
    \/ AuditLoad(c) \/ AuditAppend(c) \/ AuditTear(c)
    \/ SyncRead(c) \/ SyncFile(c) \/ SyncCommit(c) \/ SyncFails(c)

Next ==
    \/ Start \/ Emit \/ Load \/ AppendEntry
    \/ TakeBatch \/ CommitBatch \/ LoseBatch
    \/ Close \/ Crash \/ CrashInLine
    \/ LintSpec \/ \E c \in Commands : Command(c)

Spec == Init /\ [][Next]_vars

----------------------------------------------------------------------------
(* Properties                                                               *)

Events == [run : 0..MaxRuns, kind : Kinds \cup {"spec_lint_completed", "garbage"}]

Files(lines) == [lines : Seq(lines), torn : BOOLEAN]

RunRows   == [id : Nat \ {0}, run : 0..MaxRuns, status : {"running", "done", "standalone"}]
PartRows  == [id : Nat \ {0}, of : Nat, status : {"running", "done"}]
EventRows == [of : Nat, kind : Kinds \cup {"spec_lint_completed", "garbage"}]
Tables    == [next : Nat \ {0}, runs : SUBSET RunRows, milestones : SUBSET PartRows,
              phases : SUBSET PartRows, events : SUBSET EventRows]
Known     == [run : Nat, milestone : Nat, phase : Nat]

FilesTyped ==
    /\ telemetry \in Files(Events) /\ audit \in Files(Int)
    /\ trail \in Int /\ loaded \in [Commands -> Int] /\ broken \in Int

RunTyped ==
    /\ run \in 0..MaxRuns /\ step \in 0..Closing /\ (Live => run > 0)
    /\ setup \in Setups
    /\ queue \in Seq(Events) /\ Len(queue) <= MaxQueue /\ batch \in Seq(Events)
    /\ Live \/ (queue = <<>> /\ batch = <<>> /\ known = NoRows)

RowsTyped ==
    /\ known \in Known /\ db \in Tables
    /\ sync \in [Commands -> Seq(Events)]
    /\ filed \in [Commands -> Tables \cup {Unfiled}]
    /\ \A c \in Commands : filed[c] /= Unfiled => sync[c] /= NoSync
    /\ fresh \in BOOLEAN /\ refused \subseteq Events /\ shared \subseteq 0..MaxRuns
    /\ events \in 0..MaxEvents

(* The files hold lines of the kinds the program writes, only a live run    *)
(* has a queue, and rows refer to each other by their uuids: telemetry.py,  *)
(* audit.py, db/models.py.                                                  *)
TypeOK == FilesTyped /\ RunTyped /\ RowsTyped

(* The chain breaks only where a crash cut an entry in two, or where one    *)
(* process appended to a trail that another had loaded and goes on from:    *)
(* whatever was written before that is verified for ever (audit.py:87-164). *)
AuditVerifies ==
    Verified(audit) >= IF broken = Unbroken THEN Len(audit.lines) ELSE broken

(* A row belongs to a row that was committed, whichever batches and syncs   *)
(* failed or overlapped: the writer forgets the uuids of a batch that was   *)
(* rolled back (db/writer.py:88-113).                                       *)
NoOrphanRows ==
    LET Parents(rows) == {x.id : x \in rows}
    IN  /\ \A x \in db.milestones \cup db.events : x.of \in Parents(db.runs)
        /\ \A x \in db.phases : x.of \in Parents(db.milestones)

(* A run has one row, and one row for its milestone, in spite of everything *)
(* a writer lost and of the syncs that made up for it, unless two were at   *)
(* it at once: the run itself and a sync, or two syncs.  Each looks for the *)
(* row before it makes one, and no column is unique (db/models.py:45-130,   *)
(* db/sync_adapter.py:104-159), so that those do make two.                  *)
OneRowPerRun ==
    /\ \A x, y \in db.runs : x.run = y.run /\ x /= y => x.run \in shared
    /\ \A x, y \in db.milestones :
           x.of = y.of /\ x /= y =>
               \E r \in db.runs : r.id = x.of /\ r.run \in shared

Told(e) == \E i \in DOMAIN telemetry.lines : telemetry.lines[i] = e

(* However much the writer of a run has dropped, lost or left running, and  *)
(* whichever lines of the telemetry file went missing, a sync that no run   *)
(* and no failure disturbs makes the database say all that the file says,   *)
(* as long as the line that starts the run can be read.  Only the rows of   *)
(* events that the database refused are missing (db/sync_adapter.py:225-247)*)
(* and their run and milestone have the right status all the same.          *)
SyncCompletes ==
    (fresh /\ Syncing = {}) =>
        \A r \in RunIds :
            Told(Event(r, "run_started")) =>
                \E x \in db.runs :
                    /\ x.run = r
                    /\ Told(Event(r, "run_completed")) => x.status = "done"
                    /\ \A k \in Kinds :
                           Told(Event(r, k)) /\ Event(r, k) \notin refused =>
                               [of |-> x.id, kind |-> k] \in db.events
                    /\ Told(Event(r, "milestone_started"))
                          /\ Told(Event(r, "milestone_completed")) =>
                           \E m \in db.milestones : m.of = x.id /\ m.status = "done"
=============================================================================
