------------------------ MODULE ParallelWavesProofs ------------------------
(***************************************************************************)
(* Waves of parallel milestones for any workflow, any number of commands,  *)
(* selections, workers and faults: dependencies first and in the worktree, *)
(* nothing lost but to a merge that failed; and as long as nobody sends a  *)
(* signal, worktrees that outlive their workers, nothing left behind but   *)
(* where git failed, and each milestone finished once.                     *)
(***************************************************************************)
EXTENDS ParallelWaves, TLAPS

Stage == {"none", "queued", "running", "ok", "bad"}

(* What a run does.                                                        *)
Step(r) ==
  \/ Begin(r) \/ SkipWave(r) \/ StartWave(r) \/ Complete(r)
  \/ \E m \in Names :
       \/ CreateTree(r, m) \/ FailCreate(r, m)
       \/ StartWorker(r, m) \/ WorkerSaves(r, m)
       \/ WorkerSucceeds(r, m) \/ WorkerFails(r, m)
       \/ MergeBranch(r, m) \/ FailMerge(r, m) \/ RemoveTree(r, m)
  \/ OpenPool(r) \/ ClosePool(r) \/ CloseDrain(r) \/ EndMerges(r) \/ RaiseInMerge(r)
  \/ DeleteBranch(r) \/ RaiseInRemoval(r) \/ EndRemoval(r) \/ RecordWave(r)
  \/ Raise(r) \/ Signal(r) \/ Crash(r)

LEMMA NextIsStep == Next <=> \E r \in Runs : Step(r)
  BY DEF Next, Step

-----------------------------------------------------------------------------
(* Types                                                                   *)

LEMMA StateFields ==
  ASSUME NEW s \in State
  PROVE  s.completed \subseteq Names /\ s.failed \subseteq Names /\ s.skipped \subseteq Names
  BY DEF State

LEMMA SkippingFields ==
  ASSUME Types, NEW r \in Runs
  PROVE  /\ Skipping(r) \in State
         /\ Skipping(r).completed = mem[r].completed
         /\ Skipping(r).failed = mem[r].failed
         /\ Skipping(r).skipped = mem[r].skipped \cup (Ready(r) \ Runnable(r))
<1> DEFINE over == Ready(r) \ Runnable(r)
<1>1. over \subseteq Names /\ mem[r] \in State
  BY DEF Types, Ready, Runnable
<1> HIDE DEF over
<1>2. [mem[r] EXCEPT !.skipped = @ \cup over] \in State
      /\ [mem[r] EXCEPT !.skipped = @ \cup over].completed = mem[r].completed
      /\ [mem[r] EXCEPT !.skipped = @ \cup over].failed = mem[r].failed
      /\ [mem[r] EXCEPT !.skipped = @ \cup over].skipped = mem[r].skipped \cup over
  BY <1>1 DEF State
<1> QED BY <1>2 DEF Skipping, over

LEMMA OutcomeFields ==
  ASSUME Types, NEW r \in Runs
  PROVE  /\ Outcome(r) \in State
         /\ Outcome(r).completed = mem[r].completed \cup In(r, "ok")
         /\ Outcome(r).failed = mem[r].failed \cup In(r, "bad")
         /\ Outcome(r).skipped = mem[r].skipped
<1> DEFINE done == In(r, "ok")
           bad == In(r, "bad")
<1>1. done \subseteq Names /\ bad \subseteq Names /\ mem[r] \in State
  BY DEF Types, In
<1> HIDE DEF done, bad
<1>2. [mem[r] EXCEPT !.completed = @ \cup done, !.failed = @ \cup bad] \in State
      /\ [mem[r] EXCEPT !.completed = @ \cup done, !.failed = @ \cup bad].completed
           = mem[r].completed \cup done
      /\ [mem[r] EXCEPT !.completed = @ \cup done, !.failed = @ \cup bad].failed
           = mem[r].failed \cup bad
      /\ [mem[r] EXCEPT !.completed = @ \cup done, !.failed = @ \cup bad].skipped
           = mem[r].skipped
  BY <1>1 DEF State
<1> QED BY <1>2 DEF Outcome, done, bad

(* The future of a milestone changes, and nothing else in the pool.        *)
LEMMA StageSet ==
  ASSUME Types, NEW r \in Runs, NEW m \in Names, NEW s \in Stage,
         stage' = [stage EXCEPT ![r][m] = s]
  PROVE  /\ stage' \in [Runs -> [Names -> Stage]] /\ stage'[r][m] = s
         /\ \A q \in Runs, n \in Names : q # r \/ n # m => stage'[q][n] = stage[q][n]
         /\ \A q \in Runs : q # r => stage'[q] = stage[q]
  BY DEF Types, Stage

LEMMA TypesInitial == Init => Types
  BY DEF Init, Types, State, Fresh, Busy, Over

LEMMA TypesStep == Types /\ [Next]_vars => Types'
<1> SUFFICES ASSUME Types, [Next]_vars PROVE Types'
  OBVIOUS
<1>1. ASSUME NEW r \in Runs, Begin(r) PROVE Types'
  <2>1. PICK rest \in SUBSET Names : left' = [left EXCEPT ![r] = rest] \/ left' = left
    BY <1>1, WavesAssumption DEF Begin
  <2> QED BY <1>1, <2>1 DEF Begin, Types, Busy, Over, gitVars, ghosts
<1>2. ASSUME NEW r \in Runs, SkipWave(r) \/ StartWave(r) PROVE Types'
  <2>1. Skipping(r) \in State /\ Runnable(r) \subseteq Names
    BY SkippingFields DEF Runnable, Ready, Types
  <2>2. ASSUME SkipWave(r) PROVE Types'
    BY <2>1, <2>2 DEF SkipWave, Types, gitVars, ghosts
  <2>3. ASSUME StartWave(r) PROVE Types'
    BY <2>1, <2>3 DEF StartWave, Move, Types, Busy, gitVars, ghosts
  <2> QED BY <1>2, <2>2, <2>3
<1>3. ASSUME NEW r \in Runs, Complete(r) PROVE Types'
  BY <1>3 DEF Complete, Move, Types, Over, poolVars, gitVars, ghosts
<1>4. ASSUME NEW r \in Runs, NEW m \in Names,
             CreateTree(r, m) \/ MergeBranch(r, m) \/ FailMerge(r, m) \/ RemoveTree(r, m)
      PROVE  Types'
  <2>1. ASSUME CreateTree(r, m) PROVE Types'
    BY <2>1 DEF CreateTree, Types, poolVars, ghosts
  <2>2. ASSUME MergeBranch(r, m) \/ FailMerge(r, m) PROVE Types'
    BY <2>2 DEF MergeBranch, FailMerge, Types, poolVars, ghosts
  <2>3. ASSUME RemoveTree(r, m) PROVE Types'
    BY <2>3 DEF RemoveTree, Slip, Types, poolVars, ghosts
  <2> QED BY <1>4, <2>1, <2>2, <2>3
<1>5. ASSUME NEW r \in Runs, NEW m \in Names, FailCreate(r, m) PROVE Types'
  <2>1. /\ at' \in [Runs -> {"new", "drain"} \cup Busy \cup Over]
        /\ todo' \in [Runs -> SUBSET Names]
        /\ exit' \in [Runs -> {"none", "record", "cleanup", "raised", "interrupted"}]
    BY <1>5 DEF FailCreate, Remove, Types, Busy
  <2>2. /\ tree' \in [Names -> Runs \cup {Nobody}] /\ branches' \subseteq Names
        /\ base' \in [Names -> SUBSET Names] /\ main' \subseteq Names
        /\ unmerged' \subseteq Names /\ stuck' \subseteq Names /\ slips' \in Nat
    <3>1. CASE UNCHANGED gitVars
      BY <3>1 DEF gitVars, Types
    <3>2. CASE Slip /\ UNCHANGED <<tree, branches, base, main, unmerged, stuck>>
      BY <3>2 DEF Slip, Types
    <3>3. CASE /\ Slip /\ tree' \in {tree, [tree EXCEPT ![m] = r]}
               /\ branches' = branches \cup {m} /\ base' = [base EXCEPT ![m] = main]
               /\ stuck' = stuck \cup {m} /\ UNCHANGED <<main, unmerged>>
      <4>1. tree' = tree \/ tree' = [tree EXCEPT ![m] = r]
        BY <3>3
      <4>2. tree' \in [Names -> Runs \cup {Nobody}]
        BY <4>1 DEF Types
      <4>3. base' \in [Names -> SUBSET Names]
        BY <3>3 DEF Types
      <4> QED BY <3>3, <4>2, <4>3 DEF Slip, Types
    <3> QED BY <1>5, <3>1, <3>2, <3>3 DEF FailCreate
  <2> QED BY <1>5, <2>1, <2>2 DEF FailCreate, Types, poolVars, ghosts
<1>6. ASSUME NEW r \in Runs, NEW m \in Names,
             StartWorker(r, m) \/ WorkerSucceeds(r, m) \/ WorkerFails(r, m)
      PROVE  Types'
  <2>1. \E s \in Stage : stage' = [stage EXCEPT ![r][m] = s]
    BY <1>6 DEF StartWorker, WorkerSucceeds, WorkerFails, Stage
  <2>2. stage' \in [Runs -> [Names -> Stage]]
    BY <2>1, StageSet
  <2>5. finished' = finished \/ finished' = [finished EXCEPT ![m] = @ + 1]
    BY <1>6 DEF StartWorker, WorkerSucceeds, WorkerFails, ghosts
  <2>6. finished' \in [Names -> Nat]
    BY <2>5 DEF Types
  <2>3. finished' \in [Names -> Nat] /\ unrecorded' \subseteq Names /\ signalled' = signalled
    BY <1>6, <2>6 DEF StartWorker, WorkerSucceeds, WorkerFails, ghosts, Types
  <2>4. UNCHANGED <<disk, mem, lock, at, left, wave, todo, half, exit, gitVars>>
    BY <1>6 DEF StartWorker, WorkerSucceeds, WorkerFails
  <2> QED BY <2>2, <2>3, <2>4 DEF Types, gitVars, Stage
<1>7. ASSUME NEW r \in Runs, NEW m \in Names, WorkerSaves(r, m) PROVE Types'
  BY <1>7 DEF WorkerSaves, Types, poolVars, gitVars, ghosts
<1>8. ASSUME NEW r \in Runs, OpenPool(r) PROVE Types'
  BY <1>8 DEF OpenPool, Move, Types, Busy, gitVars, ghosts
<1>9. ASSUME NEW r \in Runs, ClosePool(r) \/ CloseDrain(r) \/ EndMerges(r) \/ EndRemoval(r)
      PROVE  Types'
  <2>1. In(r, "ok") \subseteq Names /\ Listed \subseteq Names
    BY DEF In, Listed
  <2>2. ASSUME ClosePool(r) PROVE Types'
    BY <2>1, <2>2 DEF ClosePool, Move, Types, Busy, poolVars, gitVars, ghosts
  <2>3. ASSUME CloseDrain(r) \/ EndMerges(r) PROVE Types'
    BY <2>3 DEF CloseDrain, EndMerges, Remove, Types, Busy, poolVars, gitVars, ghosts
  <2>4. ASSUME EndRemoval(r) PROVE Types'
    <3>1. /\ at' \in [Runs -> {"new", "drain"} \cup Busy \cup Over]
          /\ todo' \in [Runs -> SUBSET Names] /\ lock' \in Runs \cup {Nobody}
          /\ exit' \in [Runs -> {"none", "record", "cleanup", "raised", "interrupted"}]
      BY <2>1, <2>4 DEF EndRemoval, Remove, Types, Busy, Over
    <3>2. stuck' \subseteq Names /\ slips' \in Nat
      BY <2>1, <2>4 DEF EndRemoval, Slip, Types
    <3> QED BY <2>4, <3>1, <3>2 DEF EndRemoval, Types, poolVars, ghosts
  <2> QED BY <1>9, <2>2, <2>3, <2>4
<1>10. ASSUME NEW r \in Runs, RaiseInMerge(r) \/ Raise(r) \/ Crash(r) PROVE Types'
  <2>1. In(r, "ok") \subseteq Names
    BY DEF In
  <2>2. ASSUME RaiseInMerge(r) PROVE Types'
    BY <2>1, <2>2 DEF RaiseInMerge, Slip, Abandon, Remove, Types, Busy, poolVars
  <2>3. ASSUME Raise(r) PROVE Types'
    BY <2>1, <2>3 DEF Raise, Abandon, Types, Over, poolVars, gitVars
  <2>4. ASSUME Crash(r) PROVE Types'
    BY <2>1, <2>4 DEF Crash, Abandon, Types, Over, poolVars, gitVars
  <2> QED BY <1>10, <2>2, <2>3, <2>4
<1>11. ASSUME NEW r \in Runs, DeleteBranch(r) \/ RaiseInRemoval(r) PROVE Types'
  <2>1. ASSUME DeleteBranch(r) PROVE Types'
    BY <2>1 DEF DeleteBranch, Slip, Types, poolVars, ghosts
  <2>2. ASSUME RaiseInRemoval(r) PROVE Types'
    <3>1. half[r] \in Names /\ In(r, "ok") \subseteq Names
      BY <2>2 DEF RaiseInRemoval, Types, In
    <3>2. at' \in [Runs -> {"new", "drain"} \cup Busy \cup Over]
          /\ lock' \in Runs \cup {Nobody} /\ todo' \in [Runs -> SUBSET Names]
          /\ exit' \in [Runs -> {"none", "record", "cleanup", "raised", "interrupted"}]
      BY <2>2 DEF RaiseInRemoval, Remove, Types, Busy, Over
    <3>3. /\ branches' \subseteq Names /\ stuck' \subseteq Names /\ slips' \in Nat
          /\ half' \in [Runs -> Names \cup {Nobody}] /\ unrecorded' \subseteq Names
      BY <2>2, <3>1 DEF RaiseInRemoval, Slip, Abandon, Types
    <3> QED BY <2>2, <3>2, <3>3 DEF RaiseInRemoval, Types, poolVars
  <2> QED BY <1>11, <2>1, <2>2
<1>12. ASSUME NEW r \in Runs, RecordWave(r) PROVE Types'
  BY <1>12, OutcomeFields DEF RecordWave, Reset, Move, Types, Busy, gitVars, ghosts
<1>13. ASSUME NEW r \in Runs, Signal(r) PROVE Types'
  <2>1. \/ at' = [at EXCEPT ![r] = "drain"] /\ UNCHANGED <<todo, exit>>
        \/ Remove(r, wave[r], "interrupted")
        \/ at' = [at EXCEPT ![r] = "interrupted"] /\ UNCHANGED <<todo, exit>>
    BY <1>13 DEF Signal
  <2>2. at' \in [Runs -> {"new", "drain"} \cup Busy \cup Over]
        /\ todo' \in [Runs -> SUBSET Names]
        /\ exit' \in [Runs -> {"none", "record", "cleanup", "raised", "interrupted"}]
    BY <2>1 DEF Remove, Types, Busy, Over
  <2> QED BY <1>13, <2>2 DEF Signal, Abandon, In, Types, poolVars, gitVars
<1>14. ASSUME UNCHANGED vars PROVE Types'
  BY <1>14 DEF vars, Types, poolVars, gitVars, ghosts
<1> QED BY <1>1, <1>2, <1>3, <1>4, <1>5, <1>6, <1>7, <1>8, <1>9, <1>10, <1>11, <1>12,
           <1>13, <1>14
        DEF Next

(* A run changes its own thread, plan and pool only.                       *)
LEMMA Frame ==
  ASSUME Types, NEW r \in Runs, Step(r), NEW q \in Runs, q # r
  PROVE  /\ at'[q] = at[q] /\ mem'[q] = mem[q] /\ left'[q] = left[q]
         /\ wave'[q] = wave[q] /\ stage'[q] = stage[q] /\ todo'[q] = todo[q]
         /\ half'[q] = half[q] /\ exit'[q] = exit[q]
<1> USE DEF Types
<1>1. CASE Begin(r)
  BY <1>1 DEF Begin
<1>2. CASE SkipWave(r) \/ StartWave(r) \/ Complete(r) \/ RecordWave(r)
  BY <1>2 DEF SkipWave, StartWave, Complete, RecordWave, Reset, Move, poolVars
<1>3. ASSUME NEW m \in Names,
             \/ CreateTree(r, m) \/ FailCreate(r, m) \/ WorkerSaves(r, m)
             \/ MergeBranch(r, m) \/ FailMerge(r, m) \/ RemoveTree(r, m)
      PROVE  /\ at'[q] = at[q] /\ mem'[q] = mem[q] /\ left'[q] = left[q]
             /\ wave'[q] = wave[q] /\ stage'[q] = stage[q] /\ todo'[q] = todo[q]
             /\ half'[q] = half[q] /\ exit'[q] = exit[q]
  BY <1>3 DEF CreateTree, FailCreate, WorkerSaves, MergeBranch, FailMerge, RemoveTree,
              Remove, poolVars
<1>4. ASSUME NEW m \in Names, StartWorker(r, m) \/ WorkerSucceeds(r, m) \/ WorkerFails(r, m)
      PROVE  /\ at'[q] = at[q] /\ mem'[q] = mem[q] /\ left'[q] = left[q]
             /\ wave'[q] = wave[q] /\ stage'[q] = stage[q] /\ todo'[q] = todo[q]
             /\ half'[q] = half[q] /\ exit'[q] = exit[q]
  BY <1>4 DEF StartWorker, WorkerSucceeds, WorkerFails
<1>5. CASE OpenPool(r) \/ ClosePool(r) \/ CloseDrain(r) \/ EndMerges(r) \/ RaiseInMerge(r)
  BY <1>5 DEF OpenPool, ClosePool, CloseDrain, EndMerges, RaiseInMerge, Remove, Move,
              poolVars
<1>6. CASE DeleteBranch(r) \/ RaiseInRemoval(r) \/ EndRemoval(r) \/ Raise(r) \/ Crash(r)
  BY <1>6 DEF DeleteBranch, RaiseInRemoval, EndRemoval, Raise, Crash, Remove, poolVars
<1>7. CASE Signal(r)
  BY <1>7 DEF Signal, Remove, poolVars
<1> QED BY <1>1, <1>2, <1>3, <1>4, <1>5, <1>6, <1>7 DEF Step

-----------------------------------------------------------------------------
(* The plan of a run                                                       *)

(* The removal after a wave of which the results are kept.                 *)
Recording(r) == at[r] = "remove" /\ exit[r] = "record"

Going(r)  == at[r] \in {"loop", "create", "pool", "merge", "record"} \/ Recording(r)
Staged(r) == at[r] \in {"pool", "drain", "merge", "record"} \/ Recording(r)

(* Which milestones have a future, and which of them are through.          *)
Stages(r) ==
  /\ at[r] \in {"new", "loop", "create"} => \A m \in Names : stage[r][m] = "none"
  /\ at[r] \in {"new", "loop"} => wave[r] = {}
  /\ Staged(r) => \A m \in Names : m \in wave[r] <=> stage[r][m] # "none"
  /\ at[r] \in {"merge", "remove", "record"} =>
       \A m \in Names : stage[r][m] \in {"none", "ok", "bad"}

Settled(r) == mem[r].completed \cup mem[r].failed \cup mem[r].skipped

(* Every dependency of what is planned is planned or settled, and those of *)
(* the wave are settled without a failure; nothing completed is planned.   *)
Plans(r) ==
  /\ Going(r) => \A m \in left[r] \cup wave[r] :
                   Deps[m] \subseteq left[r] \cup wave[r] \cup Settled(r)
  /\ at[r] \in {"create", "pool", "drain"} =>
       \A m \in wave[r] : Deps[m] \subseteq Settled(r) /\ Deps[m] \cap mem[r].failed = {}
  /\ left[r] \cap wave[r] = {}
  /\ at[r] \in Busy \cup {"drain"} => (left[r] \cup wave[r]) \cap mem[r].completed = {}

Halves(r) ==
  at[r] \in {"new", "drain"} \cup (Busy \ {"remove"}) => half[r] = Nobody

Local(r) == Stages(r) /\ Plans(r) /\ Halves(r)

LEMMA LocalInitial == Init => \A r \in Runs : Local(r)
  BY DEF Init, Local, Stages, Plans, Halves, Staged, Going, Recording, Busy

(* Nothing that Local is about changes.                                    *)
LEMMA LocalStays ==
  ASSUME NEW r \in Runs, Local(r), at'[r] = at[r], mem'[r] = mem[r], left'[r] = left[r],
         wave'[r] = wave[r], stage'[r] = stage[r], exit'[r] = exit[r],
         half'[r] = half[r] \/ at[r] = "remove"
  PROVE  Local(r)'
  BY DEF Local, Stages, Plans, Halves, Staged, Going, Recording, Settled, Busy

(* The run is over.                                                        *)
LEMMA LocalOver ==
  ASSUME NEW r \in Runs, Local(r), at'[r] \in Over, left'[r] = left[r], wave'[r] = wave[r]
  PROVE  Local(r)'
  BY DEF Local, Stages, Plans, Halves, Staged, Going, Recording, Busy, Over

(* A worktree could not be created, a merge or a drained pool is left: the *)
(* results of the wave are not recorded.                                   *)
LEMMA LocalGivesUp ==
  ASSUME NEW r \in Runs, Local(r), at'[r] = "remove", exit'[r] # "record",
         at[r] \in Busy \cup {"drain"},
         \A m \in Names : stage[r][m] \in {"none", "ok", "bad"},
         mem'[r] = mem[r], left'[r] = left[r], wave'[r] = wave[r], stage'[r] = stage[r]
  PROVE  Local(r)'
  BY DEF Local, Stages, Plans, Halves, Staged, Going, Recording, Busy

(* One step further with the wave.                                         *)
LEMMA LocalGoesOn ==
  ASSUME NEW r \in Runs, Local(r), Going(r), Staged(r),
         at'[r] \in {"merge", "record"} \/ (at'[r] = "remove" /\ exit'[r] = "record"),
         \A m \in Names : stage[r][m] \in {"none", "ok", "bad"},
         mem'[r] = mem[r], left'[r] = left[r], wave'[r] = wave[r], stage'[r] = stage[r],
         half[r] = Nobody, half'[r] = half[r]
  PROVE  Local(r)'
  BY DEF Local, Stages, Plans, Halves, Staged, Going, Recording, Settled, Busy

LEMMA LocalStep ==
  ASSUME Types, \A r \in Runs : Local(r), [Next]_vars
  PROVE  \A r \in Runs : Local(r)'
<1>1. CASE UNCHANGED vars
  BY <1>1, LocalStays DEF vars, poolVars
<1>2. SUFFICES ASSUME NEW r \in Runs, Step(r), Local(r) PROVE Local(r)'
  <2>1. ASSUME NEW r \in Runs, Step(r), NEW q \in Runs, q # r PROVE Local(q)'
    BY <2>1, Frame, LocalStays
  <2> QED BY <1>1, <1>2, <2>1, NextIsStep
<1> USE DEF Types
<1>3. CASE Begin(r)
  <2>1. /\ at[r] = "new" /\ at'[r] \in {"loop", "raised", "refused"}
        /\ mem'[r] = disk /\ UNCHANGED <<wave, stage, half>>
    BY <1>3 DEF Begin
  <2>2. CASE at'[r] = "loop"
    <3>1. PICK selected \in Filters :
            LET rest == selected \ disk.completed
            IN  left' = [left EXCEPT ![r] = rest]
                /\ \A m \in rest : Deps[m] \subseteq selected \cup disk.completed
      BY <1>3, <2>2 DEF Begin
    <3>2. left'[r] = selected \ disk.completed
      BY <3>1
    <3> QED BY <2>1, <2>2, <3>1, <3>2
            DEF Local, Stages, Plans, Halves, Staged, Going, Recording, Settled, Busy
  <2>3. CASE at'[r] \in Over
    BY <2>1, <2>3 DEF Local, Stages, Plans, Halves, Staged, Going, Recording, Busy, Over
  <2> QED BY <2>1, <2>2, <2>3 DEF Over
<1>4. CASE SkipWave(r)
  <2>1. /\ at[r] = "loop" /\ at'[r] = "loop" /\ mem'[r] = Skipping(r)
        /\ left'[r] = left[r] \ Ready(r) /\ Runnable(r) = {}
        /\ UNCHANGED <<wave, stage, half>>
    BY <1>4 DEF SkipWave
  <2>2. Settled(r)' = Settled(r) \cup Ready(r) /\ mem'[r].completed = mem[r].completed
    BY <2>1, SkippingFields DEF Settled
  <2> QED BY <2>1, <2>2 DEF Local, Stages, Plans, Halves, Staged, Going, Recording, Busy
<1>5. CASE StartWave(r)
  <2>1. /\ at[r] = "loop" /\ at'[r] = "create" /\ mem'[r] = Skipping(r)
        /\ left'[r] = left[r] \ Ready(r) /\ wave'[r] = Runnable(r)
        /\ UNCHANGED <<stage, half>>
    BY <1>5 DEF StartWave, Move
  <2>2. Settled(r)' = Settled(r) \cup (Ready(r) \ Runnable(r))
        /\ mem'[r].completed = mem[r].completed /\ mem'[r].failed = mem[r].failed
    BY <2>1, SkippingFields DEF Settled
  <2>3. Runnable(r) \subseteq Ready(r) /\ Ready(r) \subseteq left[r]
        /\ \A m \in Runnable(r) : /\ Deps[m] \cap left[r] = {}
                                  /\ Deps[m] \cap mem[r].failed = {}
    BY DEF Runnable, Ready
  <2>4. wave[r] = {} /\ \A m \in left[r] : Deps[m] \subseteq left[r] \cup Settled(r)
    BY <2>1 DEF Local, Stages, Plans, Going
  <2>5. \A m \in Runnable(r) : Deps[m] \subseteq Settled(r)
    BY <2>3, <2>4
  <2>6. Stages(r)' /\ Halves(r)'
    BY <2>1 DEF Local, Stages, Halves, Staged, Recording, Busy
  <2>7. Plans(r)'
    BY <2>1, <2>2, <2>3, <2>4, <2>5 DEF Local, Plans, Going, Busy
  <2> QED BY <2>6, <2>7 DEF Local
<1>6. CASE Complete(r) \/ Raise(r) \/ Crash(r)
  <2>1. at'[r] \in Over /\ left'[r] = left[r] /\ wave'[r] = wave[r]
    BY <1>6 DEF Complete, Raise, Crash, Move, Over, poolVars
  <2> QED BY <2>1, LocalOver
<1>7. ASSUME NEW m \in Names,
             \/ CreateTree(r, m) \/ WorkerSaves(r, m) \/ MergeBranch(r, m)
             \/ FailMerge(r, m) \/ RemoveTree(r, m)
      PROVE  Local(r)'
  <2>1. UNCHANGED <<at, mem, left, wave, stage, exit>> /\ (half' = half \/ at[r] = "remove")
    BY <1>7 DEF CreateTree, WorkerSaves, MergeBranch, FailMerge, RemoveTree, poolVars
  <2> QED BY <2>1, LocalStays
<1>8. ASSUME NEW m \in Names, FailCreate(r, m) PROVE Local(r)'
  <2>1. at[r] = "create" /\ at'[r] = "remove" /\ exit'[r] = "cleanup"
        /\ UNCHANGED <<mem, left, wave, stage>>
    BY <1>8 DEF FailCreate, Remove, poolVars
  <2>2. \A n \in Names : stage[r][n] = "none"
    BY <2>1 DEF Local, Stages
  <2> QED BY <2>1, <2>2, LocalGivesUp DEF Busy
<1>9. ASSUME NEW m \in Names, StartWorker(r, m) \/ WorkerSucceeds(r, m) \/ WorkerFails(r, m)
      PROVE  Local(r)'
  <2>1. /\ at[r] \in {"pool", "drain"} /\ stage[r][m] # "none"
        /\ \E s \in Stage \ {"none"} : stage' = [stage EXCEPT ![r][m] = s]
        /\ UNCHANGED <<at, mem, left, wave, half, exit>>
    BY <1>9 DEF StartWorker, WorkerSucceeds, WorkerFails, Pooled, Stage
  <2>2. \A n \in Names : stage'[r][n] = "none" <=> stage[r][n] = "none"
    BY <2>1, StageSet
  <2>3. Stages(r)'
    BY <2>1, <2>2 DEF Local, Stages, Staged, Recording
  <2> QED BY <2>1, <2>3 DEF Local, Plans, Halves, Going, Recording, Settled
<1>10. CASE OpenPool(r)
  <2>1. /\ at[r] = "create" /\ at'[r] = "pool"
        /\ stage'[r] = [m \in Names |-> IF m \in wave[r] THEN "queued" ELSE "none"]
        /\ UNCHANGED <<mem, left, wave, half, exit>>
    BY <1>10 DEF OpenPool, Move
  <2> QED BY <2>1 DEF Local, Stages, Plans, Halves, Staged, Going, Recording, Settled, Busy
<1>11. CASE ClosePool(r)
  <2>1. /\ at[r] = "pool" /\ at'[r] = "merge" /\ PoolEmpty(r)
        /\ UNCHANGED <<mem, left, wave, stage, half>>
    BY <1>11 DEF ClosePool, Move, poolVars
  <2>2. \A m \in Names : stage[r][m] \in {"none", "ok", "bad"}
    BY <2>1 DEF PoolEmpty, In
  <2> QED BY <2>1, <2>2, LocalGoesOn DEF Going, Staged, Local, Halves, Busy
<1>12. CASE CloseDrain(r)
  <2>1. /\ at[r] = "drain" /\ at'[r] = "remove" /\ exit'[r] = "interrupted" /\ PoolEmpty(r)
        /\ UNCHANGED <<mem, left, wave, stage, half>>
    BY <1>12 DEF CloseDrain, Remove, poolVars
  <2>2. \A m \in Names : stage[r][m] \in {"none", "ok", "bad"}
    BY <2>1 DEF PoolEmpty, In
  <2> QED BY <2>1, <2>2, LocalGivesUp
<1>13. CASE EndMerges(r)
  <2>1. /\ at[r] = "merge" /\ at'[r] = "remove" /\ exit'[r] = "record"
        /\ UNCHANGED <<mem, left, wave, stage, half>>
    BY <1>13 DEF EndMerges, Remove, poolVars
  <2> QED BY <2>1, LocalGoesOn DEF Going, Staged, Local, Stages, Halves, Busy
<1>14. CASE RaiseInMerge(r)
  <2>1. /\ at[r] = "merge" /\ at'[r] = "remove" /\ exit'[r] = "cleanup"
        /\ UNCHANGED <<mem, left, wave, stage, half>>
    BY <1>14 DEF RaiseInMerge, Remove, poolVars
  <2> QED BY <2>1, LocalGivesUp DEF Local, Stages, Busy
<1>15. CASE DeleteBranch(r)
  <2>1. at[r] = "remove" /\ UNCHANGED <<at, mem, left, wave, stage, exit>>
    BY <1>15 DEF DeleteBranch, poolVars
  <2> QED BY <2>1, LocalStays
<1>19. CASE RaiseInRemoval(r)
  <2>1. at[r] = "remove" /\ UNCHANGED <<mem, left, wave, stage>>
    BY <1>19 DEF RaiseInRemoval, poolVars
  <2>2. CASE at'[r] = "remove" /\ exit'[r] = "cleanup"
    BY <2>1, <2>2, LocalGivesUp DEF Local, Stages, Busy
  <2>3. CASE at'[r] = "raised"
    BY <2>1, <2>3, LocalOver DEF Over
  <2> QED BY <1>19, <2>2, <2>3 DEF RaiseInRemoval, Remove
<1>16. CASE EndRemoval(r)
  <2>1. at[r] = "remove" /\ half[r] = Nobody /\ UNCHANGED <<mem, left, wave, stage, half>>
    BY <1>16 DEF EndRemoval, Removed, poolVars
  <2>2. CASE exit[r] = "record"
    <3>1. at'[r] = "record"
      BY <1>16, <2>2 DEF EndRemoval
    <3> QED BY <2>1, <2>2, <3>1, LocalGoesOn
            DEF Going, Staged, Recording, Local, Stages
  <2>3. CASE exit[r] = "cleanup"
    <3>1. at'[r] = "remove" /\ exit'[r] = "raised"
      BY <1>16, <2>3 DEF EndRemoval, Remove
    <3> QED BY <2>1, <3>1, LocalGivesUp DEF Local, Stages, Busy
  <2>4. CASE exit[r] \in {"raised", "interrupted"}
    <3>1. at'[r] \in Over
      BY <1>16, <2>4 DEF EndRemoval, Over
    <3> QED BY <2>1, <3>1, LocalOver
  <2> QED BY <1>16, <2>2, <2>3, <2>4 DEF EndRemoval
<1>17. CASE RecordWave(r)
  <2>1. /\ at[r] = "record" /\ at'[r] = "loop" /\ mem'[r] = Outcome(r)
        /\ wave'[r] = {} /\ \A m \in Names : stage'[r][m] = "none"
        /\ UNCHANGED <<left, half>>
    BY <1>17 DEF RecordWave, Reset, Move
  <2>2. mem'[r].completed = mem[r].completed \cup In(r, "ok")
        /\ Settled(r)' = Settled(r) \cup In(r, "ok") \cup In(r, "bad")
    BY <2>1, OutcomeFields DEF Settled
  <2>3. wave[r] = In(r, "ok") \cup In(r, "bad")
    BY <2>1 DEF Local, Stages, Staged, In
  <2>4. Stages(r)' /\ Halves(r)'
    BY <2>1 DEF Local, Stages, Halves, Staged, Recording, Busy
  <2>5. Plans(r)'
    BY <2>1, <2>2, <2>3 DEF Local, Plans, Going, Recording, Busy
  <2> QED BY <2>4, <2>5 DEF Local
<1>18. CASE Signal(r)
  <2>1. at[r] \in Busy /\ UNCHANGED <<mem, left, wave, stage, half>>
    BY <1>18 DEF Signal, poolVars
  <2>2. CASE at[r] = "pool"
    <3>1. at'[r] = "drain" /\ UNCHANGED exit
      BY <1>18, <2>2 DEF Signal
    <3> QED BY <2>1, <2>2, <3>1
            DEF Local, Stages, Plans, Halves, Staged, Going, Recording, Settled, Busy
  <2>3. CASE at[r] = "merge"
    <3>1. at'[r] = "remove" /\ exit'[r] = "interrupted"
      BY <1>18, <2>3 DEF Signal, Remove
    <3> QED BY <2>1, <2>3, <3>1, LocalGivesUp DEF Local, Stages
  <2>4. CASE at[r] \notin {"pool", "merge"}
    <3>1. at'[r] = "interrupted"
      BY <1>18, <2>4 DEF Signal
    <3> QED BY <2>1, <3>1, LocalOver DEF Over
  <2> QED BY <2>2, <2>3, <2>4
<1> QED BY <1>2, <1>3, <1>4, <1>5, <1>6, <1>7, <1>8, <1>9, <1>10, <1>11, <1>12, <1>13,
           <1>14, <1>15, <1>16, <1>17, <1>18, <1>19 DEF Step

Planned == Types /\ \A r \in Runs : Local(r)

LEMMA PlannedAlways == Spec => []Planned
<1>1. Init => Planned
  BY TypesInitial, LocalInitial DEF Planned
<1>2. Planned /\ [Next]_vars => Planned'
  BY TypesStep, LocalStep DEF Planned
<1> QED BY <1>1, <1>2, PTL DEF Spec

(* Every variable has its type, and a worker runs in the pool only.        *)
THEOREM WavesTyped == Spec => []TypeOK
<1>1. Planned => TypeOK
  BY DEF Planned, Local, Stages, TypeOK, In, Busy
<1> QED BY <1>1, PlannedAlways, PTL

LEMMA WorkersInWave ==
  ASSUME Planned, NEW r \in Runs, NEW m \in Working(r)
  PROVE  at[r] \in {"pool", "drain"} /\ m \in Names /\ m \in wave[r]
         /\ stage[r][m] = "running"
  BY DEF Planned, Local, Stages, Staged, Working, Pooled, In

(* A worker starts a milestone only when everything it depends on has      *)
(* settled without a failure, whatever the plan skipped, lost or repeats.  *)
THEOREM DependenciesSettleFirst == Spec => []NoFailedOrPendingDependency
<1>1. Planned => NoFailedOrPendingDependency
  BY WorkersInWave DEF Planned, Local, Plans, Settled, NoFailedOrPendingDependency
<1> QED BY <1>1, PlannedAlways, PTL

-----------------------------------------------------------------------------
(* The work on HEAD                                                        *)

Landed == main \cup unmerged

(* A milestone of the wave that has its worktree.                          *)
HasTree(r, m) ==
  /\ m \in wave[r]
  /\ at[r] \in {"pool", "drain"} \/ (at[r] = "create" /\ m \notin todo[r])

Based(r, m) == (Deps[m] \cap mem[r].completed) \ unmerged \subseteq base[m]

(* What a run believes completed has been merged or failed to, and so has  *)
(* what it is about to record; its worktrees were made on such a HEAD.     *)
MergedIn(r) ==
  /\ mem[r].completed \subseteq Landed
  /\ at[r] = "merge" => In(r, "ok") \subseteq Landed \cup todo[r]
  /\ at[r] = "record" \/ Recording(r) => In(r, "ok") \subseteq Landed
  /\ \A m \in Names : HasTree(r, m) => Based(r, m)

Merges ==
  /\ disk.completed \subseteq Landed
  /\ \A m \in Names : base[m] \subseteq main
  /\ \A r \in Runs : MergedIn(r)

LEMMA MergesInitial == Init => Merges
  BY DEF Init, Merges, MergedIn, Landed, HasTree, Recording, Fresh, In

(* HEAD, the failed merges and the base of a worktree only grow, whichever *)
(* run acts.                                                               *)
LEMMA HistoryGrows ==
  ASSUME Planned, Merges, NEW r \in Runs, Step(r)
  PROVE  /\ main \subseteq main' /\ unmerged \subseteq unmerged'
         /\ \A m \in Names : base[m] \subseteq base'[m] /\ base'[m] \subseteq main'
<1> USE DEF Planned, Types, Merges
<1>1. CASE UNCHANGED <<base, main, unmerged>>
  BY <1>1
<1>2. ASSUME NEW m \in Names, CreateTree(r, m)
      PROVE  /\ main \subseteq main' /\ unmerged \subseteq unmerged'
             /\ \A n \in Names : base[n] \subseteq base'[n] /\ base'[n] \subseteq main'
  BY <1>2 DEF CreateTree
<1>6. ASSUME NEW m \in Names, FailCreate(r, m)
      PROVE  /\ main \subseteq main' /\ unmerged \subseteq unmerged'
             /\ \A n \in Names : base[n] \subseteq base'[n] /\ base'[n] \subseteq main'
  <2>1. UNCHANGED <<main, unmerged>> /\ (base' = base \/ base' = [base EXCEPT ![m] = main])
    BY <1>6 DEF FailCreate, gitVars
  <2>2. CASE base' = [base EXCEPT ![m] = main]
    BY <2>1, <2>2
  <2> QED BY <2>1, <2>2
<1>3. ASSUME NEW m \in Names, MergeBranch(r, m) \/ FailMerge(r, m)
      PROVE  /\ main \subseteq main' /\ unmerged \subseteq unmerged'
             /\ \A n \in Names : base[n] \subseteq base'[n] /\ base'[n] \subseteq main'
  BY <1>3 DEF MergeBranch, FailMerge
<1>4. ASSUME NEW m \in Names,
             \/ StartWorker(r, m) \/ WorkerSaves(r, m) \/ WorkerSucceeds(r, m)
             \/ WorkerFails(r, m) \/ RemoveTree(r, m)
      PROVE  UNCHANGED <<base, main, unmerged>>
  BY <1>4 DEF StartWorker, WorkerSaves, WorkerSucceeds, WorkerFails, RemoveTree,
              gitVars
<1>5. ASSUME \/ Begin(r) \/ SkipWave(r) \/ StartWave(r) \/ Complete(r) \/ OpenPool(r)
             \/ ClosePool(r) \/ CloseDrain(r) \/ EndMerges(r) \/ RaiseInMerge(r)
             \/ DeleteBranch(r) \/ RaiseInRemoval(r) \/ EndRemoval(r) \/ RecordWave(r)
             \/ Raise(r) \/ Signal(r) \/ Crash(r)
      PROVE  UNCHANGED <<base, main, unmerged>>
  BY <1>5 DEF Begin, SkipWave, StartWave, Complete, OpenPool, ClosePool, CloseDrain, EndMerges,
              RaiseInMerge, DeleteBranch, RaiseInRemoval, EndRemoval, RecordWave, Raise, Signal, Crash, gitVars
<1> QED BY <1>1, <1>2, <1>3, <1>4, <1>5, <1>6 DEF Step

LEMMA GrowthKeeps ==
  ASSUME Planned, Merges, NEW r \in Runs, Step(r)
  PROVE  /\ Landed \subseteq Landed'
         /\ \A q \in Runs, m \in Names :
              Based(q, m) /\ mem'[q].completed = mem[q].completed => Based(q, m)'
  BY HistoryGrows DEF Landed, Based

(* The run that acts: where its pool and its knowledge do not change.      *)
LEMMA MergedStays ==
  ASSUME Planned, Merges, NEW r \in Runs, Step(r), NEW q \in Runs,
         mem'[q].completed = mem[q].completed,
         at'[q] = "merge" => In(q, "ok")' \subseteq Landed' \cup todo'[q],
         (at'[q] = "record" \/ Recording(q)') => In(q, "ok")' \subseteq Landed',
         \A m \in Names : HasTree(q, m)' => HasTree(q, m)
  PROVE  MergedIn(q)'
  BY GrowthKeeps DEF Merges, MergedIn

LEMMA MergedElsewhere ==
  ASSUME Planned, Merges, NEW r \in Runs, Step(r), NEW q \in Runs, q # r
  PROVE  MergedIn(q)'
<1>1. /\ at'[q] = at[q] /\ mem'[q] = mem[q] /\ wave'[q] = wave[q] /\ stage'[q] = stage[q]
      /\ todo'[q] = todo[q] /\ exit'[q] = exit[q]
  BY Frame DEF Planned
<1>2. In(q, "ok")' = In(q, "ok") /\ (Recording(q)' <=> Recording(q))
      /\ \A m \in Names : HasTree(q, m)' => HasTree(q, m)
  BY <1>1 DEF In, Recording, HasTree
<1> QED BY <1>1, <1>2, MergedStays, GrowthKeeps DEF Merges, MergedIn

(* The run that acts, without a change of what it believes completed.      *)
LEMMA MergedHere ==
  ASSUME Planned, Merges, NEW r \in Runs, Step(r), ~Begin(r), ~RecordWave(r)
  PROVE  MergedIn(r)'
<1> USE DEF Planned, Types
<1>1. CASE SkipWave(r) \/ StartWave(r)
  <2>1. mem'[r].completed = mem[r].completed
    BY <1>1, SkippingFields DEF SkipWave, StartWave
  <2>2. at[r] = "loop" /\ wave[r] = {} /\ at'[r] \in {"loop", "create"}
    BY <1>1 DEF SkipWave, StartWave, Move, Local, Stages
  <2>3. \A m \in Names : ~HasTree(r, m)'
    BY <1>1, <2>2 DEF SkipWave, StartWave, HasTree
  <2> QED BY <2>1, <2>2, <2>3, MergedStays DEF Recording
<1>2. CASE Complete(r) \/ Raise(r) \/ Crash(r)
  <2>1. at'[r] \in Over /\ UNCHANGED mem
    BY <1>2 DEF Complete, Raise, Crash, Move, Over
  <2> QED BY <2>1, MergedStays DEF HasTree, Recording, Over
<1>3. ASSUME NEW m \in Names, CreateTree(r, m) PROVE MergedIn(r)'
  <2>1. /\ at[r] = "create" /\ base'[m] = main
        /\ todo'[r] = todo[r] \ {m} /\ UNCHANGED <<mem, at, wave, unmerged>>
    BY <1>3 DEF CreateTree, poolVars
  <2>2. Based(r, m)'
    BY <2>1 DEF Based, Merges, MergedIn, Landed
  <2>3. \A n \in Names \ {m} : HasTree(r, n)' => HasTree(r, n)
    BY <2>1 DEF HasTree
  <2> QED BY <2>1, <2>2, <2>3, GrowthKeeps DEF Merges, MergedIn, Recording
<1>4. ASSUME NEW m \in Names, FailCreate(r, m) PROVE MergedIn(r)'
  <2>1. at'[r] = "remove" /\ exit'[r] = "cleanup" /\ UNCHANGED mem
    BY <1>4 DEF FailCreate, Remove
  <2> QED BY <2>1, MergedStays DEF HasTree, Recording
<1>5. ASSUME NEW m \in Names,
             StartWorker(r, m) \/ WorkerSaves(r, m) \/ WorkerSucceeds(r, m) \/ WorkerFails(r, m)
      PROVE  MergedIn(r)'
  <2>1. Pooled(r) /\ UNCHANGED <<mem, at, wave>>
    BY <1>5 DEF StartWorker, WorkerSaves, WorkerSucceeds, WorkerFails, poolVars
  <2> QED BY <2>1, MergedStays DEF HasTree, Recording, Pooled
<1>6. ASSUME NEW m \in Names, MergeBranch(r, m) \/ FailMerge(r, m) PROVE MergedIn(r)'
  <2>1. /\ at[r] = "merge" /\ m \in Landed' /\ todo'[r] = todo[r] \ {m}
        /\ UNCHANGED <<mem, at, wave, stage>>
    BY <1>6 DEF MergeBranch, FailMerge, Landed, poolVars
  <2>2. In(r, "ok")' = In(r, "ok") /\ In(r, "ok") \subseteq Landed \cup todo[r]
    BY <2>1 DEF In, Merges, MergedIn
  <2> QED BY <2>1, <2>2, MergedStays, GrowthKeeps DEF HasTree, Recording
<1>7. ASSUME NEW m \in Names, RemoveTree(r, m) PROVE MergedIn(r)'
  <2>1. at[r] = "remove" /\ UNCHANGED <<mem, at, wave, stage, exit>>
    BY <1>7 DEF RemoveTree, poolVars
  <2>2. In(r, "ok")' = In(r, "ok") /\ (Recording(r)' => Recording(r))
    BY <2>1 DEF In, Recording
  <2> QED BY <2>1, <2>2, MergedStays, GrowthKeeps DEF HasTree, Merges, MergedIn
<1>8. CASE OpenPool(r)
  <2>1. at[r] = "create" /\ at'[r] = "pool" /\ todo[r] = {} /\ UNCHANGED <<mem, wave>>
    BY <1>8 DEF OpenPool, Move
  <2> QED BY <2>1, MergedStays DEF HasTree, Recording
<1>9. CASE ClosePool(r)
  <2>1. at'[r] = "merge" /\ todo'[r] = In(r, "ok") /\ UNCHANGED <<mem, stage>>
    BY <1>9 DEF ClosePool, Move, poolVars
  <2>2. In(r, "ok")' = In(r, "ok")
    BY <2>1 DEF In
  <2> QED BY <2>1, <2>2, MergedStays DEF HasTree, Recording
<1>10. CASE CloseDrain(r) \/ RaiseInMerge(r)
  <2>1. at'[r] = "remove" /\ exit'[r] # "record" /\ UNCHANGED mem
    BY <1>10 DEF CloseDrain, RaiseInMerge, Remove
  <2> QED BY <2>1, MergedStays DEF HasTree, Recording
<1>11. CASE EndMerges(r)
  <2>1. at[r] = "merge" /\ todo[r] = {} /\ at'[r] = "remove" /\ UNCHANGED <<mem, stage>>
    BY <1>11 DEF EndMerges, Remove, poolVars
  <2>2. In(r, "ok")' = In(r, "ok") /\ In(r, "ok") \subseteq Landed
    BY <2>1 DEF In, Merges, MergedIn
  <2> QED BY <2>1, <2>2, MergedStays, GrowthKeeps DEF HasTree, Recording
<1>12. CASE DeleteBranch(r)
  <2>1. at[r] = "remove" /\ UNCHANGED <<mem, at, stage, exit>>
    BY <1>12 DEF DeleteBranch, poolVars
  <2>2. In(r, "ok")' = In(r, "ok") /\ (Recording(r)' => Recording(r))
    BY <2>1 DEF In, Recording
  <2> QED BY <2>1, <2>2, MergedStays, GrowthKeeps DEF HasTree, Merges, MergedIn
<1>15. CASE RaiseInRemoval(r)
  <2>1. at'[r] = "raised" \/ (at'[r] = "remove" /\ exit'[r] = "cleanup")
    BY <1>15 DEF RaiseInRemoval, Remove
  <2>2. UNCHANGED mem
    BY <1>15 DEF RaiseInRemoval
  <2> QED BY <2>1, <2>2, MergedStays DEF HasTree, Recording
<1>13. CASE EndRemoval(r)
  <2>1. at[r] = "remove" /\ UNCHANGED <<mem, stage>>
    BY <1>13 DEF EndRemoval, Removed, poolVars
  <2>2. \/ exit[r] = "record" /\ at'[r] = "record"
        \/ at'[r] = "remove" /\ exit'[r] = "raised"
        \/ at'[r] \in {"raised", "interrupted"}
    BY <1>13 DEF EndRemoval, Remove
  <2>3. In(r, "ok")' = In(r, "ok") /\ (exit[r] = "record" => In(r, "ok") \subseteq Landed)
    BY <2>1 DEF In, Recording, Merges, MergedIn
  <2> QED BY <2>1, <2>2, <2>3, MergedStays, GrowthKeeps DEF HasTree, Recording
<1>14. CASE Signal(r)
  <2>1. \/ at[r] = "pool" /\ at'[r] = "drain"
        \/ at'[r] = "remove" /\ exit'[r] = "interrupted"
        \/ at'[r] = "interrupted"
    BY <1>14 DEF Signal, Remove
  <2>2. UNCHANGED <<mem, wave>>
    BY <1>14 DEF Signal, poolVars
  <2> QED BY <2>1, <2>2, MergedStays DEF HasTree, Recording
<1> QED BY <1>1, <1>2, <1>3, <1>4, <1>5, <1>6, <1>7, <1>8, <1>9, <1>10, <1>11, <1>12,
           <1>13, <1>14, <1>15 DEF Step

LEMMA MergesStep == Planned /\ Merges /\ [Next]_vars => Merges'
<1> SUFFICES ASSUME Planned, Merges, [Next]_vars PROVE Merges'
  OBVIOUS
<1>1. CASE UNCHANGED vars
  BY <1>1 DEF vars, gitVars, poolVars, Merges, MergedIn, Landed, HasTree, Based, Recording, In
<1>2. ASSUME NEW r \in Runs, Step(r) PROVE Merges'
  <2>1. \A m \in Names : base'[m] \subseteq main'
    BY <1>2, HistoryGrows
  <2>2. MergedIn(r)'
    <3>1. CASE Begin(r)
      <4>1. mem'[r] = disk /\ at'[r] \in {"loop", "raised", "refused"}
        BY <3>1 DEF Begin, Planned, Types
      <4>2. mem'[r].completed \subseteq Landed'
        BY <1>2, <4>1, GrowthKeeps DEF Merges
      <4> QED BY <4>1, <4>2 DEF MergedIn, HasTree, Recording
    <3>2. CASE RecordWave(r)
      <4>1. at[r] = "record" /\ at'[r] = "loop" /\ mem'[r] = Outcome(r)
        BY <3>2 DEF RecordWave, Move, Planned, Types
      <4>2. mem'[r].completed \subseteq Landed
        BY <4>1, OutcomeFields DEF Planned, Merges, MergedIn
      <4> QED BY <1>2, <4>1, <4>2, GrowthKeeps DEF MergedIn, HasTree, Recording
    <3> QED BY <1>2, <3>1, <3>2, MergedHere
  <2>3. \A q \in Runs : MergedIn(q)'
    BY <1>2, <2>2, MergedElsewhere
  <2>4. \/ disk' = disk \/ disk' = mem[r] \/ (disk' = mem'[r])
    BY <1>2 DEF Step, Begin, SkipWave, StartWave, Complete, CreateTree, FailCreate,
                StartWorker, WorkerSaves, WorkerSucceeds, WorkerFails, MergeBranch,
                FailMerge, RemoveTree, OpenPool, ClosePool, CloseDrain, EndMerges,
                RaiseInMerge, DeleteBranch, RaiseInRemoval, EndRemoval, RecordWave, Raise, Signal, Crash,
                Planned, Types
  <2>5. disk'.completed \subseteq Landed'
    BY <1>2, <2>2, <2>4, GrowthKeeps DEF Merges, MergedIn
  <2> QED BY <2>1, <2>3, <2>5 DEF Merges
<1> QED BY <1>1, <1>2, NextIsStep

LEMMA MergesAlways == Spec => [](Planned /\ Merges)
<1>1. Init => Planned /\ Merges
  BY TypesInitial, LocalInitial, MergesInitial DEF Planned
<1>2. (Planned /\ Merges) /\ [Next]_vars => (Planned /\ Merges)'
  BY TypesStep, LocalStep, MergesStep DEF Planned
<1> QED BY <1>1, <1>2, PTL DEF Spec

(* A worker has the completed work it depends on in its worktree, unless a *)
(* merge of that failed.                                                   *)
THEOREM WorktreesAreBuiltOnWork == Spec => []BuiltOnDependencies
<1>1. Planned /\ Merges => BuiltOnDependencies
  BY WorkersInWave DEF Merges, MergedIn, HasTree, Based, BuiltOnDependencies
<1> QED BY <1>1, MergesAlways, PTL

(* What is recorded as completed is on HEAD, or its merge failed.          *)
THEOREM OnlyConflictsLose == Spec => []LostOnlyToConflict
<1>1. Merges => LostOnlyToConflict
  BY DEF Merges, Landed, LostOnlyToConflict
<1> QED BY <1>1, MergesAlways, PTL

-----------------------------------------------------------------------------
(* Runs that nobody signals.  The handler releases the lock before the     *)
(* pool has ended; without it the lock keeps one run at work, whose state  *)
(* is the saved one and whose worktrees nobody else touches.               *)

SerialIn(r) ==
  /\ at[r] \in Busy => lock = r /\ mem[r].completed = disk.completed
  /\ at[r] # "drain"
  /\ \A m \in Names : HasTree(r, m) => tree[m] = r /\ m \in branches
  /\ at[r] = "merge" => todo[r] \subseteq branches
  /\ at[r] = "remove" /\ exit[r] # "record" => In(r, "ok") \subseteq unrecorded

Serial == signalled = {} => \A r \in Runs : SerialIn(r)

LEMMA SerialInitial == Init => Serial
  BY DEF Init, Serial, SerialIn, HasTree, Busy

(* Who acts is working, or begins.                                         *)
LEMMA ActorWorks ==
  ASSUME NEW r \in Runs, Step(r)
  PROVE  Begin(r) \/ at[r] \in Busy \cup {"drain"}
  BY DEF Step, SkipWave, StartWave, Complete, CreateTree, FailCreate, StartWorker, WorkerSaves,
         WorkerSucceeds, WorkerFails, Pooled, MergeBranch, FailMerge, RemoveTree, OpenPool,
         ClosePool, CloseDrain, EndMerges, RaiseInMerge, DeleteBranch, RaiseInRemoval, EndRemoval, Removed,
         RecordWave, Raise, Signal, Crash, Move, Busy

LEMMA SignalsStay ==
  ASSUME NEW r \in Runs, Step(r), signalled' = {}
  PROVE  signalled = {} /\ ~Signal(r)
  BY DEF Step, Begin, SkipWave, StartWave, Complete, CreateTree, FailCreate, StartWorker,
         WorkerSaves, WorkerSucceeds, WorkerFails, MergeBranch, FailMerge, RemoveTree,
         OpenPool, ClosePool, CloseDrain, EndMerges, RaiseInMerge, DeleteBranch, RaiseInRemoval, EndRemoval,
         RecordWave, Raise, Signal, Crash, ghosts

(* While another run works, a run can only be refused.                     *)
LEMMA OneAtWork ==
  ASSUME Planned, Serial, signalled = {}, NEW r \in Runs, Step(r),
         NEW q \in Runs, q # r, at[q] \in Busy
  PROVE  /\ Begin(r) /\ at'[r] = "refused"
         /\ UNCHANGED <<disk, lock, tree, branches, finished, unrecorded>>
<1>1. lock = q /\ at[q] \notin Over /\ Begin(r)
  BY ActorWorks DEF Serial, SerialIn, Busy, Over
<1> QED BY <1>1 DEF Begin, Planned, Types, gitVars, ghosts

LEMMA SerialElsewhere ==
  ASSUME Planned, Serial, signalled = {}, NEW r \in Runs, Step(r), NEW q \in Runs, q # r
  PROVE  SerialIn(q)'
<1>1. /\ at'[q] = at[q] /\ mem'[q] = mem[q] /\ wave'[q] = wave[q] /\ stage'[q] = stage[q]
      /\ todo'[q] = todo[q] /\ exit'[q] = exit[q]
  BY Frame DEF Planned
<1>2. SerialIn(q)
  BY DEF Serial
<1>3. CASE at[q] \in Busy
  BY <1>1, <1>2, <1>3, OneAtWork DEF SerialIn, HasTree, In
<1>4. CASE at[q] \notin Busy
  BY <1>1, <1>2, <1>4 DEF SerialIn, HasTree, Busy
<1> QED BY <1>3, <1>4

LEMMA SerialHere ==
  ASSUME Planned, Serial, signalled = {}, NEW r \in Runs, Step(r), ~Signal(r)
  PROVE  SerialIn(r)'
<1> USE DEF Planned, Types
<1>0. SerialIn(r) /\ Local(r)
  BY DEF Serial
<1>1. CASE Begin(r)
  <2>1. mem'[r] = disk /\ disk' = disk /\ at'[r] \in {"loop", "raised", "refused"}
        /\ (at'[r] = "loop" => lock' = r)
    BY <1>1 DEF Begin
  <2> QED BY <2>1 DEF SerialIn, HasTree, Busy
<1>2. CASE SkipWave(r) \/ StartWave(r)
  <2>1. at[r] = "loop" /\ at'[r] \in {"loop", "create"} /\ lock' = lock
        /\ (disk' = disk \/ disk' = Skipping(r)) /\ mem'[r] = Skipping(r)
    BY <1>2 DEF SkipWave, StartWave, Move
  <2>2. \A m \in Names : ~HasTree(r, m)'
    <3>1. CASE SkipWave(r)
      BY <2>1, <3>1 DEF HasTree, SkipWave
    <3>2. CASE StartWave(r)
      BY <2>1, <3>2 DEF HasTree, StartWave
    <3> QED BY <1>2, <3>1, <3>2
  <2> QED BY <1>0, <2>1, <2>2, SkippingFields DEF SerialIn, Busy
<1>3. CASE Complete(r) \/ Raise(r) \/ Crash(r)
  <2>1. at'[r] \in Over
    BY <1>3 DEF Complete, Raise, Crash, Move, Over
  <2> QED BY <2>1 DEF SerialIn, HasTree, Busy, Over
<1>4. ASSUME NEW m \in Names, CreateTree(r, m) PROVE SerialIn(r)'
  <2>1. /\ at[r] = "create" /\ todo'[r] = todo[r] \ {m} /\ tree' = [tree EXCEPT ![m] = r]
        /\ branches' = branches \cup {m} /\ UNCHANGED <<disk, mem, lock, at, wave>>
    BY <1>4 DEF CreateTree, poolVars
  <2>2. \A n \in Names \ {m} : HasTree(r, n)' => HasTree(r, n)
    BY <2>1 DEF HasTree
  <2> QED BY <1>0, <2>1, <2>2 DEF SerialIn
<1>5. ASSUME NEW m \in Names, FailCreate(r, m) PROVE SerialIn(r)'
  <2>1. at[r] = "create" /\ at'[r] = "remove" /\ UNCHANGED <<disk, mem, lock, stage>>
    BY <1>5 DEF FailCreate, Remove, poolVars
  <2>2. In(r, "ok")' = {}
    BY <1>0, <2>1 DEF In, Local, Stages
  <2> QED BY <1>0, <2>1, <2>2 DEF SerialIn, HasTree, Busy
<1>6. ASSUME NEW m \in Names,
             StartWorker(r, m) \/ WorkerSaves(r, m) \/ WorkerSucceeds(r, m) \/ WorkerFails(r, m)
      PROVE  SerialIn(r)'
  <2>1. at[r] = "pool" /\ (disk' = disk \/ disk' = mem[r])
        /\ UNCHANGED <<mem, lock, at, wave, tree, branches>>
    BY <1>0, <1>6 DEF StartWorker, WorkerSaves, WorkerSucceeds, WorkerFails, Pooled, SerialIn,
                      poolVars, gitVars
  <2> QED BY <1>0, <2>1 DEF SerialIn, HasTree, Busy
<1>7. ASSUME NEW m \in Names, MergeBranch(r, m) \/ FailMerge(r, m) PROVE SerialIn(r)'
  <2>1. at[r] = "merge" /\ todo'[r] \subseteq todo[r]
        /\ UNCHANGED <<disk, mem, lock, at, branches>>
    BY <1>7 DEF MergeBranch, FailMerge
  <2> QED BY <1>0, <2>1 DEF SerialIn, HasTree
<1>8. ASSUME (\E m \in Names : RemoveTree(r, m)) \/ DeleteBranch(r) PROVE SerialIn(r)'
  <2>1. at[r] = "remove" /\ UNCHANGED <<disk, mem, lock, at, stage, exit, unrecorded>>
    BY <1>8 DEF RemoveTree, DeleteBranch, poolVars, ghosts
  <2>2. In(r, "ok")' = In(r, "ok")
    BY <2>1 DEF In
  <2> QED BY <1>0, <2>1, <2>2 DEF SerialIn, HasTree
<1>9. CASE OpenPool(r)
  <2>1. at[r] = "create" /\ at'[r] = "pool" /\ todo[r] = {}
        /\ UNCHANGED <<disk, mem, lock, wave, tree, branches>>
    BY <1>9 DEF OpenPool, Move, gitVars
  <2> QED BY <1>0, <2>1 DEF SerialIn, HasTree, Busy
<1>10. CASE ClosePool(r)
  <2>1. at[r] = "pool" /\ at'[r] = "merge" /\ todo'[r] = In(r, "ok")
        /\ UNCHANGED <<disk, mem, lock, branches>>
    BY <1>10 DEF ClosePool, Move, gitVars
  <2>2. In(r, "ok") \subseteq wave[r] /\ wave[r] \subseteq branches
    BY <1>0, <2>1 DEF In, Local, Stages, Staged, SerialIn, HasTree
  <2> QED BY <1>0, <2>1, <2>2 DEF SerialIn, HasTree, Busy
<1>11. CASE EndMerges(r)
  <2>1. at[r] = "merge" /\ at'[r] = "remove" /\ exit'[r] = "record"
        /\ UNCHANGED <<disk, mem, lock>>
    BY <1>11 DEF EndMerges, Remove
  <2> QED BY <1>0, <2>1 DEF SerialIn, HasTree, Busy
<1>12. CASE RaiseInMerge(r)
  <2>1. at[r] = "merge" /\ at'[r] = "remove" /\ unrecorded' = unrecorded \cup In(r, "ok")
        /\ UNCHANGED <<disk, mem, lock, stage>>
    BY <1>12 DEF RaiseInMerge, Remove, Abandon, poolVars
  <2>2. In(r, "ok")' = In(r, "ok")
    BY <2>1 DEF In
  <2> QED BY <1>0, <2>1, <2>2 DEF SerialIn, HasTree, Busy
<1>13. CASE EndRemoval(r)
  <2>1. at[r] = "remove" /\ UNCHANGED <<disk, mem, stage, unrecorded>>
    BY <1>13 DEF EndRemoval, Removed, poolVars, ghosts
  <2>2. In(r, "ok")' = In(r, "ok")
    BY <2>1 DEF In
  <2>3. \/ at'[r] = "record" /\ lock' = lock
        \/ exit[r] = "cleanup" /\ at'[r] = "remove" /\ lock' = lock
        \/ at'[r] \in {"raised", "interrupted"}
    BY <1>13 DEF EndRemoval, Remove
  <2> QED BY <1>0, <2>1, <2>2, <2>3 DEF SerialIn, HasTree, Busy
<1>16. CASE RaiseInRemoval(r)
  <2>1. /\ at[r] = "remove" /\ UNCHANGED <<disk, mem, stage>>
        /\ unrecorded' = unrecorded \cup In(r, "ok")
        /\ (at'[r] = "remove" /\ lock' = lock) \/ at'[r] = "raised"
    BY <1>16 DEF RaiseInRemoval, Remove, Abandon, poolVars
  <2>2. In(r, "ok")' = In(r, "ok")
    BY <2>1 DEF In
  <2> QED BY <1>0, <2>1, <2>2 DEF SerialIn, HasTree, Busy
<1>14. CASE RecordWave(r)
  <2>1. at[r] = "record" /\ at'[r] = "loop" /\ mem'[r] = Outcome(r) /\ disk' = Outcome(r)
        /\ lock' = lock
    BY <1>14 DEF RecordWave, Move
  <2> QED BY <1>0, <2>1 DEF SerialIn, HasTree, Busy
<1>15. ~CloseDrain(r)
  BY <1>0 DEF CloseDrain, SerialIn
<1> QED BY <1>1, <1>2, <1>3, <1>4, <1>5, <1>6, <1>7, <1>8, <1>9, <1>10, <1>11, <1>12,
           <1>13, <1>14, <1>15, <1>16 DEF Step

LEMMA SerialStep == Planned /\ Serial /\ [Next]_vars => Serial'
<1> SUFFICES ASSUME Planned, Serial, [Next]_vars, signalled' = {}
             PROVE  \A r \in Runs : SerialIn(r)'
  BY DEF Serial
<1>1. CASE UNCHANGED vars
  BY <1>1 DEF vars, poolVars, gitVars, ghosts, Serial, SerialIn, HasTree, In
<1>2. ASSUME NEW r \in Runs, Step(r) PROVE \A q \in Runs : SerialIn(q)'
  BY <1>2, SignalsStay, SerialElsewhere, SerialHere
<1> QED BY <1>1, <1>2, NextIsStep

LEMMA SerialAlways == Spec => [](Planned /\ Serial)
<1>1. Init => Planned /\ Serial
  BY TypesInitial, LocalInitial, SerialInitial DEF Planned
<1>2. (Planned /\ Serial) /\ [Next]_vars => (Planned /\ Serial)'
  BY TypesStep, LocalStep, SerialStep DEF Planned
<1> QED BY <1>1, <1>2, PTL DEF Spec

(* Without a signal nobody removes the worktree or the branch of a worker. *)
THEOREM WorkersKeepTheirTrees == Spec => []TreeOutlivesWorker
<1>1. Planned /\ Serial => TreeOutlivesWorker
  BY WorkersInWave DEF Serial, SerialIn, HasTree, TreeOutlivesWorker
<1> QED BY <1>1, SerialAlways, PTL
-----------------------------------------------------------------------------
(* Finished once.  A success that is recorded nowhere is in the pool of    *)
(* the run at work; what is completed is in no plan.                       *)

InPool(m) == \E r \in Runs : at[r] \in Busy /\ stage[r][m] = "ok"

CountedOnce(m) ==
  \/ finished[m] = 0
  \/ finished[m] = 1 /\ (m \in disk.completed \/ InPool(m))

Counting == signalled = {} => \A m \in Names \ unrecorded : CountedOnce(m)

LEMMA CountingInitial == Init => Counting
  BY DEF Init, Counting, CountedOnce

(* The saved state forgets no completion; an abandoned one stays so.       *)
LEMMA CompletionsStay ==
  ASSUME Planned, Serial, signalled = {}, NEW r \in Runs, Step(r), ~Signal(r)
  PROVE  disk.completed \subseteq disk'.completed /\ unrecorded \subseteq unrecorded'
<1>1. disk' = disk \/ (at[r] \in Busy /\ disk' \in {mem[r], Skipping(r), Outcome(r)})
  <2>1. at[r] \in Busy \/ Begin(r)
    BY ActorWorks DEF Serial, SerialIn
  <2> QED BY <2>1
       DEF Step, Begin, SkipWave, StartWave, Complete, CreateTree, FailCreate, StartWorker,
           WorkerSaves, WorkerSucceeds, WorkerFails, MergeBranch, FailMerge, RemoveTree,
           OpenPool, ClosePool, CloseDrain, EndMerges, RaiseInMerge, DeleteBranch, RaiseInRemoval, EndRemoval,
           RecordWave, Raise, Crash
<1>2. disk.completed \subseteq disk'.completed
  BY <1>1, SkippingFields, OutcomeFields DEF Planned, Serial, SerialIn
<1>3. unrecorded \subseteq unrecorded'
  BY DEF Step, Begin, SkipWave, StartWave, Complete, CreateTree, FailCreate, StartWorker,
         WorkerSaves, WorkerSucceeds, WorkerFails, MergeBranch, FailMerge, RemoveTree,
         OpenPool, ClosePool, CloseDrain, EndMerges, RaiseInMerge, DeleteBranch, RaiseInRemoval, EndRemoval,
         RecordWave, Raise, Crash, Abandon, ghosts
<1> QED BY <1>2, <1>3

(* A success leaves the pool of the run at work only for the record, or    *)
(* among those abandoned.                                                  *)
LEMMA PoolKeeps ==
  ASSUME Planned, Serial, signalled = {}, NEW r \in Runs, Step(r), ~Signal(r),
         NEW m \in Names, InPool(m), m \notin unrecorded'
  PROVE  m \in disk'.completed \/ InPool(m)'
<1> USE DEF Planned, Types
<1>1. PICK q \in Runs : at[q] \in Busy /\ stage[q][m] = "ok"
  BY DEF InPool
<1>2. CASE q # r
  BY <1>1, <1>2, Frame DEF InPool
<1>3. CASE q = r
  <2>0. /\ Local(r) /\ SerialIn(r) /\ m \in In(r, "ok") /\ ~Begin(r)
        /\ m \notin unrecorded /\ at[r] \notin {"loop", "create"}
    BY <1>1, <1>3, CompletionsStay DEF Serial, In, Local, Stages, Begin, Busy
  <2>1. SUFFICES ASSUME m \notin disk'.completed PROVE at'[r] \in Busy /\ stage'[r][m] = "ok"
    BY <1>1, <1>3 DEF InPool
  <2>2. CASE SkipWave(r) \/ StartWave(r) \/ Complete(r) \/ OpenPool(r)
             \/ \E n \in Names : CreateTree(r, n) \/ FailCreate(r, n)
    BY <2>0, <2>2 DEF SkipWave, StartWave, Complete, OpenPool, CreateTree, FailCreate, Move
  <2>3. ASSUME NEW n \in Names, StartWorker(r, n) \/ WorkerSucceeds(r, n) \/ WorkerFails(r, n)
        PROVE  at'[r] \in Busy /\ stage'[r][m] = "ok"
    <3>1. \E s \in Stage : stage' = [stage EXCEPT ![r][n] = s]
      BY <2>3 DEF StartWorker, WorkerSucceeds, WorkerFails, Stage
    <3>2. stage[r][n] # "ok" /\ at' = at
      BY <2>3 DEF StartWorker, WorkerSucceeds, WorkerFails
    <3> QED BY <1>1, <1>3, <3>1, <3>2, StageSet
  <2>4. CASE \/ \E n \in Names : \/ WorkerSaves(r, n) \/ MergeBranch(r, n) \/ FailMerge(r, n)
                                 \/ RemoveTree(r, n)
             \/ DeleteBranch(r)
    BY <1>1, <1>3, <2>4 DEF WorkerSaves, MergeBranch, FailMerge, RemoveTree, DeleteBranch,
                            poolVars
  <2>5. CASE ClosePool(r) \/ EndMerges(r)
    BY <1>1, <1>3, <2>5 DEF ClosePool, EndMerges, Remove, Move, Busy, poolVars
  <2>6. CASE RaiseInMerge(r) \/ RaiseInRemoval(r) \/ Raise(r) \/ Crash(r)
    BY <2>0, <2>6 DEF RaiseInMerge, RaiseInRemoval, Raise, Crash, Abandon
  <2>7. CASE CloseDrain(r)
    BY <2>0, <2>7 DEF CloseDrain, SerialIn
  <2>8. CASE EndRemoval(r)
    <3>1. exit[r] = "record" /\ at'[r] = "record" /\ stage' = stage
      BY <2>0, <2>8 DEF EndRemoval, Removed, SerialIn, poolVars
    <3> QED BY <1>1, <1>3, <3>1 DEF Busy
  <2>9. CASE RecordWave(r)
    BY <2>0, <2>1, <2>9, OutcomeFields DEF RecordWave
  <2> QED BY <2>0, <2>2, <2>3, <2>4, <2>5, <2>6, <2>7, <2>8, <2>9 DEF Step
<1> QED BY <1>2, <1>3

(* A worker succeeds with a milestone that was not finished before.        *)
LEMMA FirstSuccess ==
  ASSUME Planned, Serial, Counting, signalled = {}, NEW r \in Runs, NEW m \in Names,
         WorkerSucceeds(r, m), m \notin unrecorded
  PROVE  finished[m] = 0
<1>1. at[r] = "pool" /\ stage[r][m] = "running"
  BY DEF WorkerSucceeds, Pooled, Serial, SerialIn
<1>2. m \in wave[r] /\ m \notin mem[r].completed
  BY <1>1 DEF Planned, Local, Stages, Staged, Plans, Busy
<1>3. m \notin disk.completed
  BY <1>1, <1>2 DEF Serial, SerialIn, Busy
<1>4. ~InPool(m)
  BY <1>1 DEF InPool, Serial, SerialIn, Busy
<1> QED BY <1>3, <1>4 DEF Counting, CountedOnce

LEMMA CountingStep == Planned /\ Serial /\ Counting /\ [Next]_vars => Counting'
<1> SUFFICES ASSUME Planned, Serial, Counting, [Next]_vars, signalled' = {},
                    NEW m \in Names \ unrecorded'
             PROVE  CountedOnce(m)'
  BY DEF Counting
<1>1. CASE UNCHANGED vars
  BY <1>1 DEF vars, poolVars, ghosts, Counting, CountedOnce, InPool
<1>2. ASSUME NEW r \in Runs, Step(r) PROVE CountedOnce(m)'
  <2>1. signalled = {} /\ ~Signal(r)
    BY <1>2, SignalsStay
  <2>2. disk.completed \subseteq disk'.completed /\ m \notin unrecorded
    BY <1>2, <2>1, CompletionsStay
  <2>3. CASE WorkerSucceeds(r, m)
    <3>1. finished[m] = 0 /\ finished'[m] = finished[m] + 1
      BY <2>1, <2>2, <2>3, FirstSuccess DEF WorkerSucceeds, Planned, Types
    <3>2. at[r] = "pool" /\ at' = at /\ stage' = [stage EXCEPT ![r][m] = "ok"]
      BY <2>1, <2>3 DEF WorkerSucceeds, Pooled, Serial, SerialIn
    <3>3. stage'[r][m] = "ok"
      BY <3>2, StageSet DEF Planned, Stage
    <3> QED BY <3>1, <3>2, <3>3 DEF CountedOnce, InPool, Busy
  <2>4. CASE ~WorkerSucceeds(r, m)
    <3>1. finished'[m] = finished[m]
      <4>1. ASSUME NEW n \in Names, WorkerSucceeds(r, n) PROVE finished'[m] = finished[m]
        BY <2>4, <4>1 DEF WorkerSucceeds, Planned, Types
      <4>2. CASE \A n \in Names : ~WorkerSucceeds(r, n)
        BY <1>2, <2>1, <4>2
           DEF Step, Begin, SkipWave, StartWave, Complete, CreateTree, FailCreate, StartWorker,
               WorkerSaves, WorkerFails, MergeBranch, FailMerge, RemoveTree, OpenPool,
               ClosePool, CloseDrain, EndMerges, RaiseInMerge, DeleteBranch, RaiseInRemoval, EndRemoval,
               RecordWave, Raise, Crash, ghosts
      <4> QED BY <4>1, <4>2
    <3>2. CountedOnce(m)
      BY <2>1, <2>2 DEF Counting
    <3>3. InPool(m) => m \in disk'.completed \/ InPool(m)'
      BY <1>2, <2>1, PoolKeeps
    <3> QED BY <2>2, <3>1, <3>2, <3>3 DEF CountedOnce
  <2> QED BY <2>3, <2>4
<1> QED BY <1>1, <1>2, NextIsStep

(* Without a signal a milestone is run with success once, unless its run   *)
(* ended before it recorded that.                                          *)
THEOREM FinishedOnceUnsignalled == Spec => []FinishedOnce
<1> DEFINE Inv == Planned /\ Serial /\ Counting
<1>1. Init => Inv
  BY TypesInitial, LocalInitial, SerialInitial, CountingInitial DEF Planned
<1>2. Inv /\ [Next]_vars => Inv'
  BY TypesStep, LocalStep, SerialStep, CountingStep DEF Planned
<1>3. Inv => FinishedOnce
  BY DEF Counting, CountedOnce, FinishedOnce
<1> QED BY <1>1, <1>2, <1>3, PTL DEF Spec
-----------------------------------------------------------------------------
(* Nothing left behind.  Until a run is signalled or dies, the worktrees   *)
(* and branches are those of the run at work, at the point it has reached, *)
(* and those that git failed to make or to remove; the latter only have a  *)
(* branch without a worktree, or a worktree that has outlived its removal. *)

Calm == signalled = {} /\ \A r \in Runs : at[r] # "dead"

Left == (Listed \cup branches) \ stuck

Owned(r) ==
  IF at[r] \in {"loop", "record"} THEN {}
  ELSE IF at[r] = "create" THEN wave[r] \ todo[r]
  ELSE IF at[r] \in {"pool", "merge"} THEN wave[r]
  ELSE IF exit[r] = "cleanup" THEN Listed
  ELSE todo[r]

Holds(r) ==
  /\ Left \subseteq Owned(r) \cup {half[r]}
  /\ branches \subseteq Listed \cup stuck \cup {half[r]}
  /\ half[r] \in Listed => half[r] \in stuck
  /\ at[r] = "create" => todo[r] \subseteq wave[r]

Idle == \A r \in Runs : at[r] \notin Busy

Clean ==
  Calm => /\ Idle => Left = {}
          /\ \A r \in Runs : at[r] \in Busy => Holds(r)

LEMMA CleanInitial == Init => Clean
  BY DEF Init, Clean, Left, Listed, Busy, Idle

(* The run at work, one step further.                                      *)
LEMMA HoldsStep ==
  ASSUME Planned, NEW r \in Runs, at[r] \in Busy, Holds(r), Step(r), ~Signal(r), ~Crash(r)
  PROVE  IF at'[r] \in Busy THEN Holds(r)' ELSE Left' = {}
<1> USE DEF Planned, Types
<1> DEFINE Goal == IF at'[r] \in Busy THEN Holds(r)' ELSE Left' = {}
<1>0. Local(r) /\ Nobody \notin Names /\ Listed \subseteq Names
  BY WavesAssumption DEF Listed
<1>1. CASE SkipWave(r)
  BY <1>1 DEF SkipWave, Holds, Owned, Left, Listed, Busy, gitVars
<1>2. CASE StartWave(r)
  <2>1. /\ at[r] = "loop" /\ at'[r] = "create" /\ wave'[r] = todo'[r]
        /\ UNCHANGED <<half, tree, branches, stuck>>
    BY <1>2 DEF StartWave, Move, gitVars
  <2>2. Listed' = Listed /\ Left' = Left
    BY <2>1 DEF Left, Listed
  <2>3. Owned(r) = {} /\ Owned(r)' = {}
    BY <2>1 DEF Owned
  <2> QED BY <2>1, <2>2, <2>3 DEF Holds, Busy
<1>3. CASE Complete(r) \/ Raise(r)
  <2>1. /\ at'[r] \notin Busy /\ at[r] \in {"loop", "record"} /\ half[r] = Nobody
        /\ UNCHANGED <<tree, branches, stuck>>
    BY <1>0, <1>3 DEF Complete, Raise, Move, Local, Halves, Busy, gitVars
  <2> QED BY <1>0, <2>1 DEF Holds, Owned, Left, Listed
<1>4. ASSUME NEW m \in Names, CreateTree(r, m) PROVE Goal
  <2>1. /\ at[r] = "create" /\ m \in todo[r] /\ todo'[r] = todo[r] \ {m}
        /\ tree' = [tree EXCEPT ![m] = r] /\ branches' = branches \cup {m} /\ half[r] = Nobody
        /\ UNCHANGED <<at, wave, half, stuck>>
    BY <1>0, <1>4 DEF CreateTree, Local, Halves, Busy, poolVars
  <2>2. m \in wave[r] /\ todo'[r] \subseteq wave'[r]
    BY <2>1 DEF Holds
  <2>3. Listed' = Listed \cup {m}
    BY <2>1, WavesAssumption DEF Listed
  <2> QED BY <1>0, <2>1, <2>2, <2>3 DEF Holds, Owned, Left, Busy
<1>5. ASSUME NEW m \in Names, FailCreate(r, m) PROVE Goal
  <2>1. /\ at[r] = "create" /\ at'[r] = "remove" /\ exit'[r] = "cleanup" /\ half[r] = Nobody
        /\ half' = half
    BY <1>0, <1>5 DEF FailCreate, Remove, Local, Halves, Busy
  <2>2. \/ UNCHANGED <<tree, branches, stuck>>
        \/ /\ tree' \in {tree, [tree EXCEPT ![m] = r]}
           /\ branches' = branches \cup {m} /\ stuck' = stuck \cup {m}
    BY <1>5 DEF FailCreate, gitVars
  <2>3. Listed \subseteq Listed' /\ Listed' \subseteq Listed \cup {m}
    BY <2>2, WavesAssumption DEF Listed
  <2>4. CASE UNCHANGED <<tree, branches, stuck>>
    BY <1>0, <2>1, <2>4 DEF Holds, Owned, Left, Listed, Busy
  <2>5. CASE branches' = branches \cup {m} /\ stuck' = stuck \cup {m}
    BY <1>0, <2>1, <2>3, <2>5 DEF Holds, Owned, Left, Busy
  <2> QED BY <2>2, <2>4, <2>5
<1>6. ASSUME NEW m \in Names,
             \/ StartWorker(r, m) \/ WorkerSaves(r, m) \/ WorkerSucceeds(r, m)
             \/ WorkerFails(r, m)
      PROVE  Goal
  <2>1. UNCHANGED <<at, wave, todo, half, exit, tree, branches, stuck>>
    BY <1>6 DEF StartWorker, WorkerSaves, WorkerSucceeds, WorkerFails, poolVars, gitVars
  <2> QED BY <2>1 DEF Holds, Owned, Left, Listed
<1>7. ASSUME NEW m \in Names, MergeBranch(r, m) \/ FailMerge(r, m) PROVE Goal
  <2>1. at[r] = "merge" /\ UNCHANGED <<at, wave, half, exit, tree, branches, stuck>>
    BY <1>7 DEF MergeBranch, FailMerge, poolVars
  <2> QED BY <2>1 DEF Holds, Owned, Left, Listed, Busy
<1>8. ASSUME NEW m \in Names, RemoveTree(r, m) PROVE Goal
  <2>1. /\ at[r] = "remove" /\ m \in todo[r] /\ half[r] = Nobody /\ half'[r] = m
        /\ todo'[r] = todo[r] \ {m} /\ UNCHANGED <<at, exit, branches>>
    BY <1>8 DEF RemoveTree
  <2>2. \/ Listed' = Listed \ {m} /\ stuck' = stuck
        \/ Listed' = Listed /\ stuck' = stuck \cup {m}
    BY <1>8 DEF RemoveTree, Listed
  <2> QED BY <1>0, <2>1, <2>2 DEF Holds, Owned, Left, Busy
<1>9. CASE OpenPool(r) \/ ClosePool(r) \/ EndMerges(r) \/ RaiseInMerge(r)
  <2>1. /\ half[r] = Nobody /\ wave[r] \subseteq Names
        /\ UNCHANGED <<wave, half, tree, branches, stuck>>
        /\ \/ at[r] = "create" /\ at'[r] = "pool" /\ todo[r] = {}
           \/ at[r] = "pool" /\ at'[r] = "merge"
           \/ at[r] = "merge" /\ at'[r] = "remove" /\ todo'[r] = wave[r]
    BY <1>0, <1>9 DEF OpenPool, ClosePool, EndMerges, RaiseInMerge, Remove, Move, Local,
                      Halves, Busy, poolVars, gitVars
  <2>2. Listed' = Listed /\ Left' = Left
    BY <2>1 DEF Listed, Left
  <2>3. CASE exit'[r] = "cleanup" /\ at'[r] = "remove"
    BY <1>0, <2>1, <2>2, <2>3 DEF Holds, Owned, Left, Busy
  <2> QED BY <1>0, <2>1, <2>2, <2>3 DEF Holds, Owned, Busy
<1>10. CASE DeleteBranch(r)
  <2>1. /\ at[r] = "remove" /\ half[r] # Nobody /\ half'[r] = Nobody
        /\ UNCHANGED <<at, todo, exit, tree>> /\ half[r] \in Names
    BY <1>10 DEF DeleteBranch
  <2>2. \/ /\ half[r] \notin Listed /\ branches' = branches \ {half[r]}
           /\ stuck' = stuck \ {half[r]}
        \/ half[r] \in Listed /\ UNCHANGED <<branches, stuck>>
        \/ stuck' = stuck \cup {half[r]} /\ UNCHANGED branches
    BY <1>10, <2>1 DEF DeleteBranch, Listed
  <2>3. Listed' = Listed
    BY <2>1 DEF Listed
  <2> QED BY <1>0, <2>1, <2>2, <2>3 DEF Holds, Owned, Left, Busy
<1>14. CASE RaiseInRemoval(r)
  <2>1. /\ at[r] = "remove" /\ half[r] # Nobody /\ half'[r] = Nobody /\ tree' = tree
        /\ branches' \subseteq branches
    BY <1>14 DEF RaiseInRemoval
  <2>2. \/ /\ at'[r] = "remove" /\ exit'[r] = "cleanup" /\ stuck' = stuck \cup {half[r]}
        \/ /\ exit[r] = "raised" /\ at'[r] = "raised"
           /\ stuck' = stuck \cup {half[r]} \cup todo[r]
    BY <1>14 DEF RaiseInRemoval, Remove
  <2>3. Listed' = Listed
    BY <2>1 DEF Listed
  <2> QED BY <1>0, <2>1, <2>2, <2>3 DEF Holds, Owned, Left, Busy
<1>11. CASE EndRemoval(r)
  <2>1. /\ at[r] = "remove" /\ todo[r] = {} /\ half[r] = Nobody
        /\ UNCHANGED <<half, tree, branches>>
    BY <1>11 DEF EndRemoval, Removed
  <2>2. Listed' = Listed
    BY <2>1 DEF Listed
  <2>3. CASE exit[r] = "cleanup"
    <3>1. /\ at'[r] = "remove" /\ exit'[r] = "raised"
          /\ \/ todo'[r] = Listed /\ stuck' = stuck
             \/ stuck' = stuck \cup Listed
      BY <1>11, <2>3 DEF EndRemoval, Remove
    <3> QED BY <1>0, <2>1, <2>2, <3>1 DEF Holds, Owned, Left, Busy
  <2>4. CASE exit[r] # "cleanup"
    <3>1. (at'[r] = "record" \/ at'[r] \notin Busy) /\ stuck' = stuck
      BY <1>11, <2>4 DEF EndRemoval, Busy
    <3>2. Left = {}
      BY <1>0, <2>1, <2>4 DEF Holds, Owned, Left
    <3> QED BY <1>0, <2>1, <2>2, <3>1, <3>2 DEF Holds, Owned, Left
  <2> QED BY <2>3, <2>4
<1>12. CASE RecordWave(r)
  <2>1. at[r] = "record" /\ at'[r] = "loop" /\ UNCHANGED <<half, tree, branches, stuck>>
    BY <1>12 DEF RecordWave, Move, gitVars
  <2> QED BY <2>1 DEF Holds, Owned, Left, Listed, Busy
<1>13. ~Begin(r) /\ ~CloseDrain(r)
  BY DEF Begin, CloseDrain, Busy
<1> QED BY <1>1, <1>2, <1>3, <1>4, <1>5, <1>6, <1>7, <1>8, <1>9, <1>10, <1>11, <1>12,
           <1>13, <1>14 DEF Step

LEMMA CleanStep == Planned /\ Serial /\ Clean /\ [Next]_vars => Clean'
<1> SUFFICES ASSUME Planned, Serial, Clean, [Next]_vars, Calm'
             PROVE  /\ Idle' => Left' = {}
                    /\ \A q \in Runs : at'[q] \in Busy => Holds(q)'
  BY DEF Clean
<1> USE DEF Planned, Types
<1>1. CASE UNCHANGED vars
  BY <1>1 DEF vars, poolVars, gitVars, ghosts, Clean, Calm, Idle, Holds, Owned, Left, Listed
<1>2. ASSUME NEW r \in Runs, Step(r)
      PROVE  /\ Idle' => Left' = {}
             /\ \A q \in Runs : at'[q] \in Busy => Holds(q)'
  <2>1. signalled = {} /\ ~Signal(r)
    BY <1>2, SignalsStay DEF Calm
  <2>2. ~Crash(r) /\ at'[r] # "dead"
    BY <1>2 DEF Calm, Crash
  <2>3. \A q \in Runs : at[q] # "dead"
    BY <1>2, <2>2, Frame, ActorWorks DEF Calm, Begin, Busy
  <2>4. /\ Idle => Left = {}
        /\ \A q \in Runs : at[q] \in Busy => Holds(q)
    BY <2>1, <2>3 DEF Clean, Calm
  <2>5. CASE Begin(r)
    <3>1. UNCHANGED <<wave, todo, half, exit, tree, branches, stuck>> /\ at[r] = "new"
          /\ at'[r] \in {"loop", "raised", "refused"}
      BY <2>5 DEF Begin, gitVars
    <3>2. Listed' = Listed /\ Left' = Left /\ \A q \in Runs \ {r} : at'[q] = at[q]
      BY <1>2, <3>1, Frame DEF Listed, Left
    <3>3. ASSUME NEW q \in Runs, q # r, at'[q] \in Busy PROVE Holds(q)'
      BY <2>4, <3>1, <3>2, <3>3 DEF Holds, Owned, Left
    <3>4. CASE at'[r] = "loop"
      <4>1. Idle
        BY <1>2, <2>1, <3>1, <3>4, OneAtWork DEF Idle, Busy
      <4>2. half[r] = Nobody
        BY <3>1 DEF Local, Halves
      <4>3. Nobody \notin todo[r]
        BY WavesAssumption
      <4>4. Holds(r)'
        BY <2>4, <3>1, <3>2, <3>4, <4>1, <4>2, <4>3 DEF Holds, Owned, Left
      <4> QED BY <3>3, <3>4, <4>4 DEF Idle, Busy
    <3>5. CASE at'[r] # "loop"
      <4>1. at'[r] \notin Busy /\ (Idle' => Idle)
        BY <3>1, <3>2, <3>5 DEF Idle, Busy
      <4> QED BY <2>4, <3>1, <3>2, <3>3, <4>1
    <3> QED BY <3>4, <3>5
  <2>6. CASE ~Begin(r)
    <3>1. at[r] \in Busy
      BY <1>2, <2>1, <2>6, ActorWorks DEF Serial, SerialIn
    <3>2. IF at'[r] \in Busy THEN Holds(r)' ELSE Left' = {}
      BY <1>2, <2>1, <2>2, <2>4, <3>1, HoldsStep
    <3>3. \A q \in Runs \ {r} : at'[q] \notin Busy
      BY <1>2, <2>1, <2>6, Frame, OneAtWork
    <3> QED BY <3>2, <3>3 DEF Idle
  <2> QED BY <2>5, <2>6
<1> QED BY <1>1, <1>2, NextIsStep

(* Runs that end by themselves, whatever failed in them, leave neither     *)
(* worktrees nor branches behind, but those that git itself failed to      *)
(* make, to list or to remove.                                             *)
THEOREM RepositoryIsLeftClean == Spec => []NothingLeftBehind
<1> DEFINE Inv == Planned /\ Serial /\ Clean
<1>1. Init => Inv
  BY TypesInitial, LocalInitial, SerialInitial, CleanInitial DEF Planned
<1>2. Inv /\ [Next]_vars => Inv'
  BY TypesStep, LocalStep, SerialStep, CleanStep DEF Planned
<1>3. Inv => NothingLeftBehind
  BY DEF Clean, Calm, Idle, Busy, Left, NothingLeftBehind
<1> QED BY <1>1, <1>2, <1>3, PTL DEF Spec

-----------------------------------------------------------------------------
(* Without conflicts and signals.  Every merge finds its branch.           *)

Intact == ~Conflicts /\ signalled = {} => unmerged = {}

LEMMA IntactStep == Planned /\ Serial /\ Intact /\ [Next]_vars => Intact'
<1> SUFFICES ASSUME Planned, Serial, Intact, [Next]_vars, ~Conflicts, signalled' = {}
             PROVE  unmerged' = {}
  BY DEF Intact
<1>1. CASE UNCHANGED vars
  BY <1>1 DEF vars, gitVars, ghosts, Intact
<1>2. ASSUME NEW r \in Runs, Step(r) PROVE unmerged' = {}
  <2>1. signalled = {} /\ unmerged = {}
    BY <1>2, SignalsStay DEF Intact
  <2>2. ASSUME NEW m \in Names PROVE ~FailMerge(r, m)
    BY <2>1 DEF FailMerge, Serial, SerialIn
  <2>3. unmerged' = unmerged
    BY <1>2, <2>2 DEF Step, Begin, SkipWave, StartWave, Complete, CreateTree, FailCreate,
       StartWorker, WorkerSaves, WorkerSucceeds, WorkerFails, MergeBranch, RemoveTree,
       OpenPool, ClosePool, CloseDrain, EndMerges, RaiseInMerge, DeleteBranch, RaiseInRemoval, EndRemoval,
       RecordWave, Raise, Signal, Crash, gitVars
  <2> QED BY <2>1, <2>3
<1> QED BY <1>1, <1>2, NextIsStep

(* What waves_conflict refutes in general holds where no merge fails       *)
(* and nobody sends a signal, whatever else fails: what is recorded as     *)
(* completed is on HEAD.                                                   *)
THEOREM MergedWithoutConflicts ==
  ASSUME ~Conflicts PROVE Spec => [](signalled = {} => CompletedIsMerged)
<1> DEFINE Inv == Planned /\ Serial /\ Merges /\ Intact
<1>1. Init => Inv
  BY TypesInitial, LocalInitial, SerialInitial, MergesInitial DEF Init, Intact, Planned
<1>2. Inv /\ [Next]_vars => Inv'
  BY TypesStep, LocalStep, SerialStep, MergesStep, IntactStep DEF Planned
<1>3. Inv => (signalled = {} => CompletedIsMerged)
  BY DEF Merges, Landed, Intact, CompletedIsMerged
<1> QED BY <1>1, <1>2, <1>3, PTL DEF Spec
-----------------------------------------------------------------------------
(* The abstract lock                                                       *)

TurnAt(point) == IF point = "new" THEN "waiting"
                 ELSE IF point \in Busy THEN "working" ELSE "over"

LEMMA LockInitial == Init => Lock!Init
  BY DEF Init, Lock!Init, Turn

LEMMA TurnMoves ==
  ASSUME Types, NEW r \in Runs, NEW point, at' = [at EXCEPT ![r] = point]
  PROVE  Turn[r] = TurnAt(at[r]) /\ Turn' = [Turn EXCEPT ![r] = TurnAt(point)]
  BY DEF Types, Turn, TurnAt

(* A run that goes on with what it was doing, or that is over.             *)
LEMMA GoesOnOrEnds ==
  ASSUME Types, NEW r \in Runs, NEW point, at' = [at EXCEPT ![r] = point],
         TurnAt(point) \in {TurnAt(at[r]), "over"}
  PROVE  [Lock!Next]_Turn
<1>1. Turn[r] = TurnAt(at[r]) /\ Turn' = [Turn EXCEPT ![r] = TurnAt(point)]
  BY TurnMoves
<1>2. CASE TurnAt(point) = TurnAt(at[r])
  BY <1>1, <1>2 DEF Turn
<1>3. CASE TurnAt(point) = "over" /\ TurnAt(at[r]) \in {"waiting", "working"}
  BY <1>1, <1>3 DEF Lock!Next, Lock!Leave, Lock!GiveUp, Lock!Become
<1> QED BY <1>2, <1>3 DEF TurnAt

(* While nobody is signalled, who acts goes on working or is over, unless  *)
(* it begins.                                                              *)
LEMMA WorkersGoOnOrEnd ==
  ASSUME Planned, Serial, signalled' = {}, NEW r \in Runs, Step(r), ~Begin(r)
  PROVE  [Lock!Next]_Turn
<1>1. signalled = {} /\ ~Signal(r)
  BY SignalsStay
<1>2. at[r] \in Busy
  BY <1>1, ActorWorks DEF Serial, SerialIn
<1>3. \/ at' = at
      \/ \E point \in Busy \cup Over : at' = [at EXCEPT ![r] = point]
  BY <1>1, <1>2 DEF Step, SkipWave, StartWave, Complete, CreateTree, FailCreate, StartWorker,
         WorkerSaves, WorkerSucceeds, WorkerFails, MergeBranch, FailMerge, RemoveTree,
         OpenPool, ClosePool, CloseDrain, EndMerges, RaiseInMerge, DeleteBranch, RaiseInRemoval, EndRemoval,
         Remove, RecordWave, Raise, Crash, Move, Busy, Over
<1>4. CASE at' = at
  BY <1>4 DEF Turn
<1>5. ASSUME NEW point \in Busy \cup Over, at' = [at EXCEPT ![r] = point]
      PROVE  [Lock!Next]_Turn
  BY <1>2, <1>5, GoesOnOrEnds DEF Planned, TurnAt, Busy, Over
<1> QED BY <1>3, <1>4, <1>5

LEMMA LockStep ==
  Planned /\ Serial /\ [Next]_vars => (signalled' = {} => [Lock!Next]_Turn)
<1> SUFFICES ASSUME Planned, Serial, [Next]_vars, signalled' = {}
             PROVE  [Lock!Next]_Turn
  OBVIOUS
<1>1. ASSUME NEW r \in Runs, Begin(r) PROVE [Lock!Next]_Turn
  <2>1. at[r] = "new" /\ signalled = {}
    BY <1>1 DEF Begin, ghosts
  <2>2. ASSUME NEW point \in Over, at' = [at EXCEPT ![r] = point]
        PROVE  [Lock!Next]_Turn
    BY <2>2, GoesOnOrEnds DEF Planned, TurnAt, Busy, Over
  <2>3. CASE at' = [at EXCEPT ![r] = "loop"] /\ (lock \in Runs => at[lock] \in Over)
    (* Whoever works holds the lock, and its holder's run is not over.     *)
    <3>1. \A q \in Runs : at[q] \notin Busy
      BY <2>1, <2>3 DEF Serial, SerialIn, Busy, Over
    <3>2. Turn[r] = "waiting" /\ Turn' = [Turn EXCEPT ![r] = "working"]
      BY <2>1, <2>3, TurnMoves DEF Planned, TurnAt, Busy
    <3>3. \A q \in Runs : Turn[q] # "working"
      BY <3>1 DEF Turn
    <3> QED BY <3>2, <3>3 DEF Lock!Next, Lock!Enter, Lock!Become
  <2> QED BY <1>1, <2>2, <2>3 DEF Begin, Over
<1>2. CASE UNCHANGED vars
  BY <1>2 DEF vars, Turn
<1> QED BY <1>1, <1>2, WorkersGoOnOrEnd, NextIsStep

(* Parallel runs that nobody signals work one at a time and once each.     *)
THEOREM UnsignalledTakeTurns == Spec => KeepsLockUnsignalled
<1>1. Planned /\ Serial /\ [Next]_vars => [signalled' = {} => [Lock!Next]_Turn]_vars
  BY LockStep
<1> QED BY <1>1, LockInitial, SerialAlways, PTL DEF Spec, KeepsLockUnsignalled

=============================================================================
