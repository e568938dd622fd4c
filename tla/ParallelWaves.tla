--------------------------- MODULE ParallelWaves ---------------------------
(***************************************************************************)
(* `sw run --parallel`: the milestones are planned in waves by their       *)
(* depends_on; each milestone of a wave runs in a thread of a pool, in a   *)
(* git worktree and branch of its own (sw-parallel/NAME); when all are     *)
(* through, the branches of those that succeeded are merged, all worktrees *)
(* and branches are removed, and only then the outcomes are recorded.      *)
(*                                                                         *)
(* A milestone is one step of its worker, whatever it calls: BudgetGate    *)
(* has the calls.  A run loads the state and takes the abstract workflow   *)
(* lock in one step: MilestoneLoop has what happens in between.  A run is  *)
(* signalled once at most.                                                 *)
(***************************************************************************)
EXTENDS Naturals, FiniteSets

CONSTANTS
  Runs,       \* the `sw run --parallel` commands
  Nobody,     \* the lock is free; no worktree at that path
  Names,      \* the milestones of workflow.json
  Deps,       \* their depends_on: [Names -> SUBSET Names], acyclic
  Filters,    \* the selections the commands may make
  Workers,    \* max_workers
  Conflicts,  \* may a merge fail, of a conflict say?
  Slips,      \* how many git commands fail of themselves or hang
  Faults      \* the other faults that may happen: see Fault

Fault == {"raise", "signal", "crash"}

ASSUME WavesAssumption ==
  /\ Nobody \notin Runs \cup Names
  /\ Deps \in [Names -> SUBSET Names]
  /\ Filters \subseteq SUBSET Names
  /\ Workers \in Nat \ {0}
  /\ Conflicts \in BOOLEAN
  /\ Slips \in Nat
  /\ Faults \subseteq Fault

VARIABLES
  disk,       \* workflow-state.json
  mem,        \* each run's self.state
  lock,       \* the holder of the workflow lock
  at,         \* where each run's main thread is
  left,       \* the milestones of the waves to come
  wave,       \* the milestones of this wave that it runs
  todo,       \* those the present loop over the wave has still to treat
  half,       \* the one whose worktree is removed and branch is not, or Nobody
  exit,       \* where the removal of worktrees leads
  stage,      \* the future of each milestone in the pool
  tree,       \* which run created the worktree .worktrees/NAME, or Nobody
  branches,   \* the branches sw-parallel/NAME
  base,       \* ghost: the milestones whose work is in that worktree's base
  main,       \* ghost: the milestones whose work is on HEAD
  unmerged,   \* ghost: those whose merge failed
  stuck,      \* ghost: those of which git failed to make or to remove the
              \* worktree or the branch, or never came to it
  slips,      \* ghost: how many git commands have failed so
  finished,   \* ghost: how often each milestone was run with success
  unrecorded, \* ghost: those whose run was ended before it recorded that
  signalled   \* ghost: the runs that received a signal

poolVars == <<left, wave, stage>>
gitVars  == <<tree, branches, base, main, unmerged, stuck, slips>>
ghosts   == <<finished, unrecorded, signalled>>
vars == <<disk, mem, lock, at, poolVars, todo, half, exit, gitVars, ghosts>>

State == [completed : SUBSET Names, failed : SUBSET Names, skipped : SUBSET Names]
Fresh == [completed |-> {}, failed |-> {}, skipped |-> {}]

(* "drain" is the pool after a signal: the executor waits for its futures  *)
(* before SystemExit goes on.                                              *)
Busy == {"loop", "create", "pool", "merge", "remove", "record"}
Over == {"refused", "raised", "interrupted", "dead", "done"}

(* The milestones of which the future is in state s.                       *)
In(r, s) == {m \in Names : stage[r][m] = s}

Types ==
  /\ disk \in State /\ mem \in [Runs -> State]
  /\ lock \in Runs \cup {Nobody}
  /\ at \in [Runs -> {"new", "drain"} \cup Busy \cup Over]
  /\ left \in [Runs -> SUBSET Names] /\ wave \in [Runs -> SUBSET Names]
  /\ todo \in [Runs -> SUBSET Names] /\ half \in [Runs -> Names \cup {Nobody}]
  /\ exit \in [Runs -> {"none", "record", "cleanup", "raised", "interrupted"}]
  /\ stage \in [Runs -> [Names -> {"none", "queued", "running", "ok", "bad"}]]
  /\ tree \in [Names -> Runs \cup {Nobody}] /\ branches \subseteq Names
  /\ base \in [Names -> SUBSET Names]
  /\ main \subseteq Names /\ unmerged \subseteq Names /\ stuck \subseteq Names
  /\ slips \in Nat
  /\ finished \in [Names -> Nat] /\ unrecorded \subseteq Names
  /\ signalled \subseteq Runs

(* A worker runs in the pool only.                                         *)
TypeOK ==
  /\ Types
  /\ \A r \in Runs : at[r] \in Busy \ {"pool"} => In(r, "running") = {}

Init ==
  /\ disk = Fresh /\ mem = [r \in Runs |-> Fresh]
  /\ lock = Nobody
  /\ at = [r \in Runs |-> "new"]
  /\ left = [r \in Runs |-> {}] /\ wave = [r \in Runs |-> {}]
  /\ todo = [r \in Runs |-> {}] /\ half = [r \in Runs |-> Nobody]
  /\ exit = [r \in Runs |-> "none"]
  /\ stage = [r \in Runs |-> [m \in Names |-> "none"]]
  /\ tree = [m \in Names |-> Nobody] /\ branches = {}
  /\ base = [m \in Names |-> {}] /\ main = {} /\ unmerged = {} /\ stuck = {} /\ slips = 0
  /\ finished = [m \in Names |-> 0] /\ unrecorded = {} /\ signalled = {}

Move(r, from, to) == at[r] = from /\ at' = [at EXCEPT ![r] = to]

(* The run will not record what its workers have finished.                 *)
Abandon(r) == unrecorded' = unrecorded \cup In(r, "ok")

-----------------------------------------------------------------------------
(* The waves                                                               *)

(* acquire_lock and the plan: everything selected and not completed, what  *)
(* failed or was skipped before included.  A dependency that is neither    *)
(* completed nor selected is a ValueError.  As in MilestoneLoop, a run may *)
(* be refused while nobody works.                                          *)
Begin(r) ==
  /\ at[r] = "new"
  /\ mem' = [mem EXCEPT ![r] = disk]
  /\ \/ /\ lock \in Runs => at[lock] \in Over
        /\ \E selected \in Filters :
             LET rest == selected \ disk.completed IN
             /\ left' = [left EXCEPT ![r] = rest]
             /\ IF \A m \in rest : Deps[m] \subseteq selected \cup disk.completed
                THEN at' = [at EXCEPT ![r] = "loop"] /\ lock' = r
                ELSE at' = [at EXCEPT ![r] = "raised"] /\ lock' = Nobody
     \/ /\ at' = [at EXCEPT ![r] = "refused"]
        /\ UNCHANGED <<left, lock>>
  /\ UNCHANGED <<disk, wave, stage, todo, half, exit, gitVars, ghosts>>

(* A mutated form of Ready: one wave for everything.                       *)
ReadyAtOnce(r) == left[r]

(* The next wave: the planner has settled it from depends_on alone.        *)
Ready(r) == {m \in left[r] : Deps[m] \cap left[r] = {}}

(* Those of it that do not depend on a failed milestone.                   *)
Runnable(r) == {m \in Ready(r) : Deps[m] \cap mem[r].failed = {}}

(* The others are skipped.                                                 *)
Skipping(r) == [mem[r] EXCEPT !.skipped = @ \cup (Ready(r) \ Runnable(r))]

(* A wave of which nothing is left: its skips stay in memory.              *)
SkipWave(r) ==
  /\ at[r] = "loop"
  /\ left[r] # {} /\ Runnable(r) = {}
  /\ mem' = [mem EXCEPT ![r] = Skipping(r)]
  /\ left' = [left EXCEPT ![r] = @ \ Ready(r)]
  /\ UNCHANGED <<disk, lock, at, wave, stage, todo, half, exit, gitVars, ghosts>>

StartWave(r) ==
  /\ Move(r, "loop", "create")
  /\ Runnable(r) # {}
  /\ mem' = [mem EXCEPT ![r] = Skipping(r)]
  /\ disk' = Skipping(r)
  /\ left' = [left EXCEPT ![r] = @ \ Ready(r)]
  /\ wave' = [wave EXCEPT ![r] = Runnable(r)]
  /\ todo' = [todo EXCEPT ![r] = Runnable(r)]
  /\ UNCHANGED <<lock, stage, half, exit, gitVars, ghosts>>

(* No wave is left: _completion_notification, and the finally of run().    *)
Complete(r) ==
  /\ Move(r, "loop", "done")
  /\ left[r] = {}
  /\ lock' = Nobody
  /\ UNCHANGED <<disk, mem, poolVars, todo, half, exit, gitVars, ghosts>>

-----------------------------------------------------------------------------
(* One wave                                                                *)

(* A mutated form of CreateTree: the worktree is on the commit the project *)
(* was at before any milestone.                                            *)
CreateTreeOnOldBase(r, m) ==
  /\ at[r] = "create" /\ m \in todo[r]
  /\ m \notin branches
  /\ tree' = [tree EXCEPT ![m] = r]
  /\ branches' = branches \cup {m}
  /\ base' = [base EXCEPT ![m] = {}]
  /\ todo' = [todo EXCEPT ![r] = @ \ {m}]
  /\ UNCHANGED <<disk, mem, lock, at, poolVars, half, exit, main, unmerged, stuck, slips,
                 ghosts>>

(* git worktree add -b sw-parallel/m: on HEAD, and only if there is no     *)
(* such branch.                                                            *)
CreateTree(r, m) ==
  /\ at[r] = "create" /\ m \in todo[r]
  /\ m \notin branches
  /\ tree' = [tree EXCEPT ![m] = r]
  /\ branches' = branches \cup {m}
  /\ base' = [base EXCEPT ![m] = main]
  /\ todo' = [todo EXCEPT ![r] = @ \ {m}]
  /\ UNCHANGED <<disk, mem, lock, at, poolVars, half, exit, main, unmerged, stuck, slips,
                 ghosts>>

(* The removal of worktrees: those of the wave, or all that git lists.     *)
Remove(r, which, then) ==
  /\ at' = [at EXCEPT ![r] = "remove"]
  /\ todo' = [todo EXCEPT ![r] = which]
  /\ exit' = [exit EXCEPT ![r] = then]

Listed == {m \in Names : tree[m] # Nobody}

(* A git command fails for a reason of its own, or exceeds its timeout.    *)
Slip == slips < Slips /\ slips' = slips + 1

(* The creation fails: the RuntimeError or the timeout leaves the executor *)
(* before its try, and _run_parallel calls cleanup_all and raises it       *)
(* again.  By then git may have made the branch, or the worktree too.      *)
FailCreate(r, m) ==
  /\ at[r] = "create" /\ m \in todo[r]
  /\ \/ m \in branches /\ UNCHANGED gitVars
     \/ Slip /\ UNCHANGED <<tree, branches, base, main, unmerged, stuck>>
     \/ /\ Slip
        /\ m \notin branches
        /\ tree' \in {tree, [tree EXCEPT ![m] = r]}
        /\ branches' = branches \cup {m}
        /\ base' = [base EXCEPT ![m] = main]
        /\ stuck' = stuck \cup {m}
        /\ UNCHANGED <<main, unmerged>>
  /\ Remove(r, {}, "cleanup")
  /\ UNCHANGED <<disk, mem, lock, poolVars, half, ghosts>>

(* A mutated form of OpenPool: the workers start while worktrees are       *)
(* still being created.                                                    *)
OpenPoolEarly(r) ==
  /\ Move(r, "create", "pool")
  /\ stage' = [stage EXCEPT ![r] =
                 [m \in Names |-> IF m \in wave[r] THEN "queued" ELSE "none"]]
  /\ UNCHANGED <<disk, mem, lock, left, wave, todo, half, exit, gitVars, ghosts>>

(* The futures are submitted.                                              *)
OpenPool(r) ==
  /\ Move(r, "create", "pool")
  /\ todo[r] = {}
  /\ stage' = [stage EXCEPT ![r] =
                 [m \in Names |-> IF m \in wave[r] THEN "queued" ELSE "none"]]
  /\ UNCHANGED <<disk, mem, lock, left, wave, todo, half, exit, gitVars, ghosts>>

Pooled(r) == at[r] \in {"pool", "drain"}

StartWorker(r, m) ==
  /\ Pooled(r)
  /\ stage[r][m] = "queued"
  /\ Cardinality(In(r, "running")) < Workers
  /\ stage' = [stage EXCEPT ![r][m] = "running"]
  /\ UNCHANGED <<disk, mem, lock, at, left, wave, todo, half, exit, gitVars, ghosts>>

(* A claude call of a worker is settled: the whole state is saved.         *)
WorkerSaves(r, m) ==
  /\ Pooled(r)
  /\ stage[r][m] = "running"
  /\ disk' = mem[r]
  /\ UNCHANGED <<mem, lock, at, poolVars, todo, half, exit, gitVars, ghosts>>

(* The milestone is through; there is no retry in a worker.                *)
WorkerSucceeds(r, m) ==
  /\ Pooled(r)
  /\ stage[r][m] = "running" /\ tree[m] # Nobody
  /\ stage' = [stage EXCEPT ![r][m] = "ok"]
  /\ finished' = [finished EXCEPT ![m] = @ + 1]
  /\ unrecorded' = IF at[r] = "drain" THEN unrecorded \cup {m} ELSE unrecorded
  /\ UNCHANGED <<disk, mem, lock, at, left, wave, todo, half, exit, gitVars, signalled>>

WorkerFails(r, m) ==
  /\ Pooled(r)
  /\ stage[r][m] = "running"
  /\ stage' = [stage EXCEPT ![r][m] = "bad"]
  /\ UNCHANGED <<disk, mem, lock, at, left, wave, todo, half, exit, gitVars, ghosts>>

PoolEmpty(r) == In(r, "queued") \cup In(r, "running") = {}

ClosePool(r) ==
  /\ Move(r, "pool", "merge")
  /\ PoolEmpty(r)
  /\ todo' = [todo EXCEPT ![r] = In(r, "ok")]
  /\ UNCHANGED <<disk, mem, lock, poolVars, half, exit, gitVars, ghosts>>

(* After a signal the worktrees are removed, and nothing is merged.        *)
CloseDrain(r) ==
  /\ at[r] = "drain"
  /\ PoolEmpty(r)
  /\ Remove(r, wave[r], "interrupted")
  /\ UNCHANGED <<disk, mem, lock, poolVars, half, gitVars, ghosts>>

(* A mutated form of MergeBranch: nothing is merged.                       *)
MergeNothing(r, m) ==
  /\ at[r] = "merge" /\ m \in todo[r] /\ m \in branches
  /\ todo' = [todo EXCEPT ![r] = @ \ {m}]
  /\ UNCHANGED <<disk, mem, lock, at, poolVars, half, exit, gitVars, ghosts>>

MergeBranch(r, m) ==
  /\ at[r] = "merge" /\ m \in todo[r] /\ m \in branches
  /\ main' = main \cup {m}
  /\ todo' = [todo EXCEPT ![r] = @ \ {m}]
  /\ UNCHANGED <<disk, mem, lock, at, poolVars, half, exit, tree, branches, base,
                 unmerged, stuck, slips, ghosts>>

(* A conflict: the merge is aborted, and nobody looks at the MergeResult.  *)
FailMerge(r, m) ==
  /\ at[r] = "merge" /\ m \in todo[r]
  /\ Conflicts \/ m \notin branches
  /\ unmerged' = unmerged \cup {m}
  /\ todo' = [todo EXCEPT ![r] = @ \ {m}]
  /\ UNCHANGED <<disk, mem, lock, at, poolVars, half, exit, tree, branches, base, main,
                 stuck, slips, ghosts>>

EndMerges(r) ==
  /\ at[r] = "merge" /\ todo[r] = {}
  /\ Remove(r, wave[r], "record")
  /\ UNCHANGED <<disk, mem, lock, poolVars, half, gitVars, ghosts>>

(* git merge exceeds its timeout: the results of the wave are gone.        *)
RaiseInMerge(r) ==
  /\ Slip
  /\ at[r] = "merge" /\ todo[r] # {}
  /\ Abandon(r)
  /\ Remove(r, wave[r], "cleanup")
  /\ UNCHANGED <<disk, mem, lock, poolVars, half, tree, branches, base, main, unmerged,
                 stuck, finished, signalled>>

-----------------------------------------------------------------------------
(* Removal and record                                                      *)

(* git worktree remove --force ..., whose return code nobody looks at.     *)
RemoveTree(r, m) ==
  /\ at[r] = "remove" /\ m \in todo[r] /\ half[r] = Nobody
  /\ \/ tree' = [tree EXCEPT ![m] = Nobody] /\ UNCHANGED <<stuck, slips>>
     \/ Slip /\ stuck' = stuck \cup {m} /\ UNCHANGED tree
  /\ half' = [half EXCEPT ![r] = m]
  /\ todo' = [todo EXCEPT ![r] = @ \ {m}]
  /\ UNCHANGED <<disk, mem, lock, at, poolVars, exit, branches, base, main, unmerged,
                 ghosts>>

(* A mutated form of DeleteBranch: only the branches of a failed wave are  *)
(* deleted.                                                                *)
KeepBranch(r) ==
  /\ at[r] = "remove" /\ half[r] # Nobody
  /\ branches' = IF exit[r] = "record" THEN branches ELSE branches \ {half[r]}
  /\ half' = [half EXCEPT ![r] = Nobody]
  /\ UNCHANGED <<disk, mem, lock, at, poolVars, todo, exit, tree, base, main, unmerged,
                 stuck, slips, ghosts>>

(* ... and git branch -D, which git refuses for a branch that is checked   *)
(* out in a worktree; again nobody looks.                                  *)
DeleteBranch(r) ==
  /\ at[r] = "remove" /\ half[r] # Nobody
  /\ \/ /\ tree[half[r]] = Nobody
        /\ branches' = branches \ {half[r]}
        /\ stuck' = stuck \ {half[r]}
        /\ UNCHANGED slips
     \/ tree[half[r]] # Nobody /\ UNCHANGED <<branches, stuck, slips>>
     \/ Slip /\ stuck' = stuck \cup {half[r]} /\ UNCHANGED branches
  /\ half' = [half EXCEPT ![r] = Nobody]
  /\ UNCHANGED <<disk, mem, lock, at, poolVars, todo, exit, tree, base, main, unmerged,
                 ghosts>>

(* One of the two exceeds its timeout, whatever it has done by then: the   *)
(* exception goes to cleanup_all, also in the place of a SystemExit, or    *)
(* out of it.                                                              *)
RaiseInRemoval(r) ==
  /\ Slip
  /\ at[r] = "remove" /\ half[r] # Nobody
  /\ branches' = branches \/ (tree[half[r]] = Nobody /\ branches' = branches \ {half[r]})
  /\ \/ /\ exit[r] # "raised"
        /\ Remove(r, {}, "cleanup")
        /\ stuck' = stuck \cup {half[r]}
        /\ UNCHANGED lock
     \/ /\ exit[r] = "raised"
        /\ at' = [at EXCEPT ![r] = "raised"]
        /\ lock' = Nobody
        /\ stuck' = stuck \cup {half[r]} \cup todo[r]
        /\ UNCHANGED <<todo, exit>>
  /\ half' = [half EXCEPT ![r] = Nobody]
  /\ Abandon(r)
  /\ UNCHANGED <<disk, mem, poolVars, tree, base, main, unmerged, finished, signalled>>

Removed(r) == at[r] = "remove" /\ todo[r] = {} /\ half[r] = Nobody

(* cleanup_all removes what git lists by now, and that is nothing when the *)
(* listing fails.  The run leaves through the finally of run(), which      *)
(* releases the lock, whoever has it by then.                              *)
EndRemoval(r) ==
  /\ Removed(r)
  /\ \/ /\ exit[r] = "record"
        /\ at' = [at EXCEPT ![r] = "record"]
        /\ UNCHANGED <<lock, todo, exit, stuck, slips>>
     \/ /\ exit[r] = "cleanup"
        /\ \/ Remove(r, Listed, "raised") /\ UNCHANGED <<stuck, slips>>
           \/ Remove(r, {}, "raised") /\ Slip /\ stuck' = stuck \cup Listed
        /\ UNCHANGED lock
     \/ /\ exit[r] \in {"raised", "interrupted"}
        /\ at' = [at EXCEPT ![r] = exit[r]]
        /\ lock' = Nobody
        /\ UNCHANGED <<todo, exit, stuck, slips>>
  /\ UNCHANGED <<disk, mem, poolVars, half, tree, branches, base, main, unmerged, ghosts>>

Outcome(r) == [mem[r] EXCEPT !.completed = @ \cup In(r, "ok"),
                             !.failed = @ \cup In(r, "bad")]

Reset(r) ==
  /\ wave' = [wave EXCEPT ![r] = {}]
  /\ stage' = [stage EXCEPT ![r] = [m \in Names |-> "none"]]

(* A mutated form of RecordWave: the outcomes stay in memory.              *)
RecordUnsaved(r) ==
  /\ Move(r, "record", "loop")
  /\ mem' = [mem EXCEPT ![r] = Outcome(r)]
  /\ Reset(r)
  /\ UNCHANGED <<disk, lock, left, todo, half, exit, gitVars, ghosts>>

(* Under _state_lock: the outcomes of the whole wave, and one save.        *)
RecordWave(r) ==
  /\ Move(r, "record", "loop")
  /\ mem' = [mem EXCEPT ![r] = Outcome(r)]
  /\ disk' = Outcome(r)
  /\ Reset(r)
  /\ UNCHANGED <<lock, left, todo, half, exit, gitVars, ghosts>>

-----------------------------------------------------------------------------
(* Faults                                                                  *)

(* A save or an emission fails between waves.                              *)
Raise(r) ==
  /\ "raise" \in Faults
  /\ at[r] \in {"loop", "record"}
  /\ at' = [at EXCEPT ![r] = "raised"]
  /\ lock' = Nobody
  /\ Abandon(r)
  /\ UNCHANGED <<disk, mem, poolVars, todo, half, exit, gitVars, finished, signalled>>

(* SIGINT or SIGTERM, in the main thread: the handler saves the state and  *)
(* releases the lock.  The pool is left only when its futures are through, *)
(* queued ones included; the loop of merges through the removal; every     *)
(* other place at once.                                                    *)
Signal(r) ==
  /\ "signal" \in Faults
  /\ at[r] \in Busy /\ r \notin signalled
  /\ signalled' = signalled \cup {r}
  /\ disk' = mem[r]
  /\ lock' = Nobody
  /\ Abandon(r)
  /\ CASE at[r] = "pool"  -> at' = [at EXCEPT ![r] = "drain"] /\ UNCHANGED <<todo, exit>>
       [] at[r] = "merge" -> Remove(r, wave[r], "interrupted")
       [] OTHER -> at' = [at EXCEPT ![r] = "interrupted"] /\ UNCHANGED <<todo, exit>>
  /\ UNCHANGED <<mem, poolVars, half, gitVars, finished>>

(* The process dies, and its workers and its lock with it.                 *)
Crash(r) ==
  /\ "crash" \in Faults
  /\ at[r] \in Busy \cup {"drain"}
  /\ at' = [at EXCEPT ![r] = "dead"]
  /\ Abandon(r)
  /\ UNCHANGED <<disk, mem, lock, poolVars, todo, half, exit, gitVars, finished,
                 signalled>>

-----------------------------------------------------------------------------
Next ==
  \E r \in Runs :
    \/ Begin(r) \/ SkipWave(r) \/ StartWave(r) \/ Complete(r)
    \/ \E m \in Names :
         \/ CreateTree(r, m) \/ FailCreate(r, m)
         \/ StartWorker(r, m) \/ WorkerSaves(r, m)
         \/ WorkerSucceeds(r, m) \/ WorkerFails(r, m)
         \/ MergeBranch(r, m) \/ FailMerge(r, m) \/ RemoveTree(r, m)
    \/ OpenPool(r) \/ ClosePool(r) \/ CloseDrain(r) \/ EndMerges(r) \/ RaiseInMerge(r)
    \/ DeleteBranch(r) \/ RaiseInRemoval(r) \/ EndRemoval(r) \/ RecordWave(r)
    \/ Raise(r) \/ Signal(r) \/ Crash(r)

Spec == Init /\ [][Next]_vars

-----------------------------------------------------------------------------
(* Properties                                                              *)

Working(r) == IF Pooled(r) THEN In(r, "running") ELSE {}

(* A worker starts a milestone only when everything it depends on has      *)
(* settled without a failure, in this run or an earlier one.               *)
NoFailedOrPendingDependency ==
  \A r \in Runs : \A m \in Working(r) :
    /\ Deps[m] \subseteq mem[r].completed \cup mem[r].skipped
    /\ Deps[m] \cap mem[r].failed = {}

(* A worker has the work of the completed milestones it depends on in its  *)
(* worktree, unless a merge failed.                                        *)
BuiltOnDependencies ==
  \A r \in Runs : \A m \in Working(r) :
    (Deps[m] \cap mem[r].completed) \ unmerged \subseteq base[m]

(* What is recorded as completed is on HEAD ("On success, each worktree is *)
(* merged back to main").                                                  *)
CompletedIsMerged == disk.completed \subseteq main

(* Only a failed merge loses work that is recorded as completed.           *)
LostOnlyToConflict == disk.completed \subseteq main \cup unmerged

(* As long as no run was signalled, nobody removes the worktree or the     *)
(* branch of a worker under it.                                            *)
TreeOutlivesWorker ==
  signalled = {} =>
    \A r \in Runs : \A m \in Working(r) : tree[m] = r /\ m \in branches

(* Runs that end by themselves, whatever failed in them, leave neither     *)
(* worktrees nor branches behind for the next run to stumble over, but     *)
(* those that git itself failed to make, to list or to remove.             *)
NothingLeftBehind ==
  signalled = {} /\ (\A r \in Runs : at[r] \in {"new", "refused", "raised", "done"}) =>
    Listed \cup branches \subseteq stuck

(* As long as no run was signalled, a milestone is run with success once,  *)
(* unless its run ended before it recorded it.                             *)
FinishedOnce ==
  signalled = {} => \A m \in Names : finished[m] <= 1 \/ m \in unrecorded

(* What a run means for the others that contend for the lock.              *)
Turn == [r \in Runs |-> IF at[r] = "new" THEN "waiting"
                        ELSE IF at[r] \in Busy THEN "working" ELSE "over"]

Lock == INSTANCE LockSpec WITH turn <- Turn

(* As long as no run was signalled, parallel runs work one at a time and   *)
(* once each.  The handler releases the lock while the pool goes on, and   *)
(* the end of the run releases it again, whoever has it by then.           *)
KeepsLockUnsignalled ==
  Lock!Init /\ [][signalled' = {} => [Lock!Next]_Turn]_vars

=============================================================================
