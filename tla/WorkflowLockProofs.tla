------------------------- MODULE WorkflowLockProofs -------------------------
(***************************************************************************)
(* Mutual exclusion of the orchestration lock, for any number of runs and  *)
(* of force-clean commands, any placement on hosts and every combination   *)
(* of hung heartbeats, slow joins and signals: the lock can only be lost   *)
(* through one of the five recorded hazards, and as long as none has       *)
(* happened a released claim stays released.                               *)
(***************************************************************************)
EXTENDS WorkflowLock, TLAPS

(* What the steps of acquire_lock rely on: the file lock is held from the  *)
(* read of the claim to the end; whoever signs or owns has its claim on    *)
(* disk; and nobody owns the lock while another run is about to claim it.  *)
AcquirersHoldFileLock == \A p \in Procs : pc[p] \in Acquiring => flock = p
SignersHaveClaim      == \A p \in Procs : Owns(p) \/ pc[p] = "sign" => claimant = p
NoOwnerBeforeClaim    == \A p, q \in Procs : pc[p] = "claim" => ~Owns(q)

(* What the release relies on: a heartbeat is only alive in a running run  *)
(* and writes its own claim; a claim belongs to a run that has signed it   *)
(* and has not unlinked it, or that is dead.                               *)
HeartbeatsWriteOwnClaim ==
  \A p \in Procs : /\ hb[p] # "off" => pc[p] = "running"
                   /\ hb[p] = "writing" => hbSeen[p] = p
ClaimIsOfUnreleased ==
  \A p \in Procs : claimant = p => pc[p] \in Owning \cup {"sign", "unlinkMeta", "dead"}

IInv ==
  /\ TypeOK
  /\ hazards = {} => /\ AcquirersHoldFileLock
                     /\ SignersHaveClaim
                     /\ NoOwnerBeforeClaim
                     /\ HeartbeatsWriteOwnClaim
                     /\ ClaimIsOfUnreleased

-----------------------------------------------------------------------------
(* The type invariant is inductive by itself.                              *)
LEMMA TypeInitial == Init => TypeOK
  BY LockAssumption DEF Init, TypeOK, Points, Identities, Hazards

LEMMA TypeStep == TypeOK /\ [Next]_vars => TypeOK'
<1> SUFFICES ASSUME TypeOK, [Next]_vars PROVE TypeOK'
  OBVIOUS
<1> USE LockAssumption DEF TypeOK, Points, Identities, Hazards, Acquiring, Owning,
                           Releasing, Over, Actors
<1>1. ASSUME NEW p \in Procs, TryFileLock(p) PROVE TypeOK'
  BY <1>1 DEF TryFileLock
<1>2. ASSUME NEW p \in Procs, Judge(p) PROVE TypeOK'
  BY <1>2 DEF Judge, DropFileLock
<1>3. ASSUME NEW p \in Procs, Claim(p) PROVE TypeOK'
  BY <1>3 DEF Claim
<1>4. ASSUME NEW p \in Procs, Sign(p) PROVE TypeOK'
  BY <1>4 DEF Sign, DropFileLock
<1>5. ASSUME NEW p \in Procs, StartRun(p) PROVE TypeOK'
  BY <1>5 DEF StartRun
<1>6. ASSUME NEW p \in Procs, FailPreflight(p) PROVE TypeOK'
  BY <1>6 DEF FailPreflight
<1>7. ASSUME NEW p \in Procs, ReadHeartbeat(p) PROVE TypeOK'
  BY <1>7 DEF ReadHeartbeat
<1>8. ASSUME NEW p \in Procs, WriteHeartbeat(p) PROVE TypeOK'
  BY <1>8 DEF WriteHeartbeat
<1>9. ASSUME NEW p \in Procs, Finish(p) PROVE TypeOK'
  BY <1>9 DEF Finish, StopHeartbeat
<1>10. ASSUME NEW p \in Procs, Signal(p) PROVE TypeOK'
  <2>1. handler' \in [Procs -> {"absent", "ready", "ran"}]
    BY <1>10 DEF Signal
  <2>2. /\ hb' \in [Procs -> {"off", "waiting", "writing"}]
        /\ \A q \in Procs : hb'[q] = "writing" => hbSeen[q] \in Identities
    <3>1. hb' \in {hb, [hb EXCEPT ![p] = "off"]}
      BY <1>10 DEF Signal, StopHeartbeat
    <3> QED BY <3>1
  <2>3. pc' \in [Actors -> Points]
    BY <1>10 DEF Signal
  <2>4. hazards' \subseteq Hazards
    BY <1>10 DEF Signal, StopHeartbeat
  <2> QED BY <1>10, <2>1, <2>2, <2>3, <2>4 DEF Signal
<1>11. ASSUME NEW p \in Procs, Exit(p) PROVE TypeOK'
  BY <1>11 DEF Exit
<1>12. ASSUME NEW p \in Procs, Die(p) PROVE TypeOK'
  BY <1>12 DEF Die, DropFileLock, Alive
<1>13. ASSUME NEW a \in Actors, UnlinkMeta(a) PROVE TypeOK'
  BY <1>13 DEF UnlinkMeta
<1>14. ASSUME NEW a \in Actors, UnlinkFlock(a) PROVE TypeOK'
  BY <1>14 DEF UnlinkFlock
<1>15. ASSUME NEW c \in Cleaners, ForceClean(c) PROVE TypeOK'
  BY <1>15 DEF ForceClean
<1>16. CASE HeartbeatAges
  BY <1>16 DEF HeartbeatAges
<1>17. CASE UNCHANGED vars
  BY <1>17 DEF vars
<1> HIDE DEF TypeOK, Points, Identities, Hazards, Acquiring, Owning, Releasing, Over
<1> QED
  BY <1>1, <1>2, <1>3, <1>4, <1>5, <1>6, <1>7, <1>8, <1>9,
     <1>10, <1>11, <1>12, <1>13, <1>14, <1>15, <1>16, <1>17 DEF Next

(* Every variable keeps its type, at every step of every run.              *)
THEOREM TypeCorrect == Spec => []TypeOK
  BY TypeInitial, TypeStep, PTL DEF Spec

-----------------------------------------------------------------------------
LEMMA Initially == Init => IInv
  BY TypeInitial, LockAssumption DEF Init, IInv, AcquirersHoldFileLock, SignersHaveClaim,
     NoOwnerBeforeClaim, HeartbeatsWriteOwnClaim, ClaimIsOfUnreleased, Acquiring,
     Owns, Owning, Actors

LEMMA Inductive == IInv /\ [Next]_vars => IInv'
<1> SUFFICES ASSUME IInv, [Next]_vars, hazards' = {}
             PROVE  /\ AcquirersHoldFileLock'
                    /\ SignersHaveClaim'
                    /\ NoOwnerBeforeClaim'
                    /\ HeartbeatsWriteOwnClaim'
                    /\ ClaimIsOfUnreleased'
  BY TypeStep DEF IInv
<1> DEFINE Claims == /\ AcquirersHoldFileLock /\ SignersHaveClaim /\ NoOwnerBeforeClaim
                     /\ HeartbeatsWriteOwnClaim /\ ClaimIsOfUnreleased
<1> USE LockAssumption DEF Actors, Acquiring, Owning, Owns
<1>t. TypeOK
  BY DEF IInv
(* The hazards are never forgotten, so none has happened before either.    *)
<1>h. hazards = {} /\ Claims
  <2>1. hazards = {}
    BY <1>t DEF Next, vars, TypeOK, TryFileLock, Judge, Claim, Sign, StartRun,
       FailPreflight, ReadHeartbeat, WriteHeartbeat, Finish, Signal, StopHeartbeat,
       Exit, Die, UnlinkMeta, UnlinkFlock, ForceClean, HeartbeatAges
  <2> QED BY <2>1 DEF IInv
<1>a. /\ \A p \in Procs : pc[p] \in Acquiring => flock = p
      /\ \A p \in Procs : Owns(p) \/ pc[p] = "sign" => claimant = p
      /\ \A p, q \in Procs : pc[p] = "claim" => ~Owns(q)
      /\ \A p \in Procs : hb[p] # "off" => pc[p] = "running"
      /\ \A p \in Procs : hb[p] = "writing" => hbSeen[p] = p
      /\ \A p \in Procs :
           claimant = p => pc[p] \in Owning \cup {"sign", "unlinkMeta", "dead"}
  BY <1>h DEF AcquirersHoldFileLock, SignersHaveClaim, NoOwnerBeforeClaim,
              HeartbeatsWriteOwnClaim, ClaimIsOfUnreleased
<1> USE DEF AcquirersHoldFileLock, SignersHaveClaim, NoOwnerBeforeClaim,
            HeartbeatsWriteOwnClaim, ClaimIsOfUnreleased
<1>1. ASSUME NEW p \in Procs, TryFileLock(p) PROVE Claims'
  BY <1>1, <1>a, <1>t DEF TryFileLock, TypeOK
<1>2. ASSUME NEW p \in Procs, Judge(p) PROVE Claims'
  <2>1. CASE pc' = [pc EXCEPT ![p] = "claim"] /\ flock' = flock
    (* With no hazard, the claim that was found is not that of a live run, *)
    (* so nobody owns the lock.                                            *)
    <3>1. ~Alive(claimant)
      BY <1>2, <2>1, <1>t, <1>h DEF Judge, TypeOK
    <3>2. \A q \in Procs : ~Owns(q)
      BY <3>1, <1>a DEF Alive, Over
    <3> QED BY <1>2, <2>1, <3>2, <1>a, <1>t DEF Judge, TypeOK
  <2>2. CASE pc' = [pc EXCEPT ![p] = "refused"] /\ DropFileLock(p)
    BY <1>2, <2>2, <1>a, <1>t DEF Judge, DropFileLock, TypeOK
  <2> QED BY <1>2, <2>1, <2>2 DEF Judge
<1>3. ASSUME NEW p \in Procs, Claim(p) PROVE Claims'
  (* p holds the file lock and nobody owns, so no other claim is relied on *)
  <2>1. \A q \in Procs \ {p} : pc[q] \notin Acquiring /\ ~Owns(q)
    BY <1>3, <1>a DEF Claim
  <2> QED BY <1>3, <2>1, <1>a, <1>t DEF Claim, TypeOK
<1>4. ASSUME NEW p \in Procs, Sign(p) PROVE Claims'
  <2>1. \A q \in Procs \ {p} : pc[q] \notin Acquiring
    BY <1>4, <1>a DEF Sign
  <2> QED BY <1>4, <2>1, <1>a, <1>t DEF Sign, DropFileLock, TypeOK
<1>5. ASSUME NEW p \in Procs, StartRun(p) PROVE Claims'
  BY <1>5, <1>a, <1>t DEF StartRun, TypeOK
<1>6. ASSUME NEW p \in Procs, FailPreflight(p) PROVE Claims'
  BY <1>6, <1>a, <1>t DEF FailPreflight, TypeOK
<1>7. ASSUME NEW p \in Procs, ReadHeartbeat(p) PROVE Claims'
  <2>1. claimant = p
    BY <1>7, <1>a DEF ReadHeartbeat
  <2> QED BY <1>7, <2>1, <1>a, <1>t DEF ReadHeartbeat, TypeOK
<1>8. ASSUME NEW p \in Procs, WriteHeartbeat(p) PROVE Claims'
  <2>1. claimant \in {NoClaim, hbSeen[p]}
    BY <1>8, <1>h DEF WriteHeartbeat
  <2>2. CASE claimant = NoClaim
    BY <2>2, <1>8, <1>a DEF WriteHeartbeat
  <2>3. CASE claimant = hbSeen[p]
    BY <2>3, <1>8, <1>a DEF WriteHeartbeat
  <2> QED BY <2>1, <2>2, <2>3
(* No join was abandoned, so the heartbeat is off when the release starts. *)
<1>s. ASSUME NEW p \in Procs, StopHeartbeat(p) PROVE hb' = [hb EXCEPT ![p] = "off"]
  BY <1>s DEF StopHeartbeat
<1>9. ASSUME NEW p \in Procs, Finish(p) PROVE Claims'
  BY <1>9, <1>s, <1>a, <1>t DEF Finish, TypeOK
<1>10. ASSUME NEW p \in Procs, Signal(p) PROVE Claims'
  BY <1>10, <1>s, <1>a, <1>t DEF Signal, Releasing, TypeOK
<1>11. ASSUME NEW p \in Procs, Exit(p) PROVE Claims'
  BY <1>11, <1>a, <1>t DEF Exit, TypeOK
<1>12. ASSUME NEW p \in Procs, Die(p) PROVE Claims'
  BY <1>12, <1>a, <1>t DEF Die, DropFileLock, TypeOK
<1>13. ASSUME NEW a \in Actors, UnlinkMeta(a) PROVE Claims'
  (* Whoever relies on its claim is alive and is not the releasing actor.  *)
  <2>1. claimant = a \/ ~Alive(claimant)
    BY <1>13, <1>h, <1>t DEF UnlinkMeta, TypeOK
  <2>2. \A q \in Procs : ~(Owns(q) \/ pc[q] = "sign")
    BY <2>1, <1>13, <1>a DEF UnlinkMeta, Alive, Over
  <2> QED BY <1>13, <2>2, <1>a, <1>t DEF UnlinkMeta, TypeOK
<1>14. ASSUME NEW a \in Actors, UnlinkFlock(a) PROVE Claims'
  <2>1. \A q \in Procs : pc[q] \notin Acquiring
    <3>1. flock = Nobody
      BY <1>14, <1>h DEF UnlinkFlock
    <3> QED BY <3>1, <1>a
  <2>2. \E point \in {"unlinkMeta", "closing", "exited"} : pc' = [pc EXCEPT ![a] = point]
    BY <1>14 DEF UnlinkFlock
  <2> QED BY <1>14, <2>1, <2>2, <1>a, <1>t DEF UnlinkFlock, TypeOK
<1>15. ASSUME NEW c \in Cleaners, ForceClean(c) PROVE Claims'
  BY <1>15, <1>a, <1>t DEF ForceClean, TypeOK
<1>16. CASE HeartbeatAges
  BY <1>16, <1>a DEF HeartbeatAges
<1>17. CASE UNCHANGED vars
  BY <1>17, <1>a DEF vars
<1> QED
  BY <1>1, <1>2, <1>3, <1>4, <1>5, <1>6, <1>7, <1>8, <1>9, <1>10, <1>11,
     <1>12, <1>13, <1>14, <1>15, <1>16, <1>17 DEF Next

LEMMA InvariantHolds == Spec => []IInv
  BY Initially, Inductive, PTL DEF Spec

(* Two runs own the orchestration lock together only after a release       *)
(* unlinked a lock file in use, a heartbeat wrote back a replaced claim, a *)
(* live process was judged stale, or a foreign claim was removed.          *)
THEOREM ExclusionUnlessHazard == Spec => []ExclusionBarHazards
<1>1. IInv => ExclusionBarHazards
  BY DEF IInv, SignersHaveClaim, ExclusionBarHazards, MutualExclusion
<1> QED BY <1>1, InvariantHolds, PTL

(* Until one of them happens, the claim on disk names the owner.           *)
THEOREM ClaimUnlessHazard == Spec => []ClaimBarHazards
<1>1. IInv => ClaimBarHazards
  BY DEF IInv, SignersHaveClaim, ClaimBarHazards, ClaimNamesOwner
<1> QED BY <1>1, InvariantHolds, PTL

(* Until one of them happens, nothing brings a released claim back.        *)
THEOREM ReleaseLeavesNothing == Spec => []ReleasedClaimIsGone
<1>1. IInv => ReleasedClaimIsGone
  BY DEF IInv, ClaimIsOfUnreleased, ReleasedClaimIsGone, Owning
<1> QED BY <1>1, InvariantHolds, PTL

-----------------------------------------------------------------------------
(* Contention                                                              *)

(* Nobody has claimed the lock yet, and no force-clean has begun.          *)
Untouched ==
  /\ \A p \in Procs : pc[p] \in {"idle", "judge", "refused"}
  /\ \A c \in Cleaners : pc[c] = "idle"

Foreign == claimant \in Ghosts /\ \E p \in Procs : HostOf[p] # HostOf[claimant]

(* Until then the claim is what the first run finds, and who refused a run *)
(* either still judges that claim or has found it to be of another host.   *)
(* Exclusion is not needed for this, nor the absence of a hazard.          *)
Contention ==
  Untouched =>
    /\ claimant \in Ghosts \cup {NoClaim}
    /\ \A p \in Procs : hb[p] = "off" /\ (flock = p <=> pc[p] = "judge")
    /\ (\E p \in Procs : pc[p] = "refused") => flock # Nobody \/ Foreign

LEMMA ContentionInitially == Init => Contention
  BY LockAssumption DEF Init, Contention, Untouched, Actors

LEMMA ContentionStep == TypeOK /\ Contention /\ [Next]_vars => Contention'
<1> SUFFICES ASSUME TypeOK, Contention, [Next]_vars, Untouched'
             PROVE  Contention'
  BY DEF Contention
<1> DEFINE Claims == /\ claimant \in Ghosts \cup {NoClaim}
                     /\ \A p \in Procs : hb[p] = "off" /\ (flock = p <=> pc[p] = "judge")
                     /\ (\E p \in Procs : pc[p] = "refused") => flock # Nobody \/ Foreign
<1> SUFFICES Claims'
  BY DEF Contention
<1> USE LockAssumption DEF Actors
<1>t. pc \in [Actors -> Points] /\ flock \in Procs \cup {Nobody}
  BY DEF TypeOK
<1>u. /\ \A p \in Procs : pc'[p] \in {"idle", "judge", "refused"}
      /\ \A c \in Cleaners : pc'[c] = "idle"
  BY DEF Untouched
(* Before a step that leaves everything untouched everything was.          *)
<1>b. Untouched => Claims
  BY DEF Contention
<1>1. ASSUME NEW p \in Procs, TryFileLock(p) PROVE Claims'
  <2>1. Untouched
    BY <1>1, <1>t, <1>u DEF TryFileLock, Untouched
  <2> QED BY <1>1, <2>1, <1>b, <1>t DEF TryFileLock, Foreign
<1>2. ASSUME NEW p \in Procs, Judge(p) PROVE Claims'
  <2>1. Untouched
    BY <1>2, <1>t, <1>u DEF Judge, Untouched
  <2>2. /\ claimant # NoClaim /\ ~Stale(p, claimant)
        /\ pc' = [pc EXCEPT ![p] = "refused"]
        /\ flock' = IF flock = p THEN Nobody ELSE flock
        /\ UNCHANGED <<hb, claimant>>
    BY <1>2, <1>t, <1>u DEF Judge, DropFileLock
  (* The claim is of a dead process, which this host would have seen.      *)
  <2>3. Foreign
    BY <2>1, <2>2, <1>b DEF Stale, Alive, Foreign
  <2> QED BY <2>1, <2>2, <2>3, <1>b, <1>t DEF Foreign
<1>3. ASSUME NEW p \in Procs,
             Claim(p) \/ Sign(p) \/ StartRun(p) \/ FailPreflight(p) \/ Finish(p)
                \/ Signal(p) \/ Exit(p) \/ Die(p)
      PROVE  FALSE
  <2>1. \E point \in {"sign", "preflight", "running", "unlinkMeta", "exited", "dead"} :
            pc' = [pc EXCEPT ![p] = point]
    BY <1>3 DEF Claim, Sign, StartRun, FailPreflight, Finish, Signal, Exit, Die
  <2> QED BY <2>1, <1>t, <1>u
<1>4. ASSUME NEW a \in Actors, UnlinkMeta(a) \/ UnlinkFlock(a) PROVE FALSE
  <2>1. \E point \in {"unlinkMeta", "unlinkFlock", "closing", "exited"} :
            pc' = [pc EXCEPT ![a] = point]
    BY <1>4 DEF UnlinkMeta, UnlinkFlock
  <2> QED BY <2>1, <1>t, <1>u
<1>5. ASSUME NEW c \in Cleaners, ForceClean(c) PROVE FALSE
  BY <1>5, <1>t, <1>u DEF ForceClean
<1>6. ASSUME NEW p \in Procs, ReadHeartbeat(p) \/ WriteHeartbeat(p) PROVE FALSE
  <2>1. Untouched /\ hb[p] # "off"
    BY <1>6, <1>u DEF ReadHeartbeat, WriteHeartbeat, Untouched
  <2> QED BY <2>1, <1>b
<1>7. ASSUME HeartbeatAges \/ UNCHANGED vars PROVE Claims'
  BY <1>7, <1>u, <1>b DEF HeartbeatAges, vars, Untouched, Foreign
<1> QED
  BY <1>1, <1>2, <1>3, <1>4, <1>5, <1>6, <1>7 DEF Next

(* However many runs contend, on whatever hosts: they are all told that    *)
(* another orchestration is running only if a force-clean interfered or a  *)
(* dead process of another host has left its claim (state.py:341-374).     *)
THEOREM ContentionAdmitsOne == Spec => []SomebodyGetsIn
<1>1. TypeOK /\ Contention => SomebodyGetsIn
  BY LockAssumption DEF TypeOK, Contention, Untouched, Foreign, SomebodyGetsIn
<1>2. Spec => []Contention
  BY TypeCorrect, ContentionInitially, ContentionStep, PTL DEF Spec
<1> QED BY <1>1, <1>2, TypeCorrect, PTL

-----------------------------------------------------------------------------
(* The abstract lock                                                       *)

TurnAt(point) == IF point \in {"idle"} \cup Acquiring THEN "waiting"
                 ELSE IF point \in Owning THEN "working" ELSE "over"

LEMMA LockInitial == Init => Lock!Init
  BY DEF Init, Lock!Init, Turn, Acquiring, Actors

LEMMA TurnMoves ==
  ASSUME TypeOK, NEW p \in Procs, NEW point, pc' = [pc EXCEPT ![p] = point]
  PROVE  Turn[p] = TurnAt(pc[p]) /\ Turn' = [Turn EXCEPT ![p] = TurnAt(point)]
  BY DEF TypeOK, Actors, Turn, TurnAt, Owns

(* A process that goes on with what it was doing, or whose run is over,    *)
(* and whatever a force-clean does.                                        *)
LEMMA GoesOnOrEnds ==
  ASSUME TypeOK, NEW p \in Procs, NEW point, pc' = [pc EXCEPT ![p] = point],
         TurnAt(point) \in {TurnAt(pc[p]), "over"}
  PROVE  [Lock!Next]_Turn
<1>1. Turn[p] = TurnAt(pc[p]) /\ Turn' = [Turn EXCEPT ![p] = TurnAt(point)]
  BY TurnMoves
<1>2. CASE TurnAt(point) = TurnAt(pc[p])
  BY <1>1, <1>2 DEF Turn
<1>3. CASE TurnAt(point) = "over" /\ TurnAt(pc[p]) \in {"waiting", "working"}
  BY <1>1, <1>3 DEF Lock!Next, Lock!Leave, Lock!GiveUp, Lock!Become
<1> QED BY <1>2, <1>3 DEF TurnAt

LEMMA CleanersTakeNoTurn ==
  ASSUME TypeOK, NEW c \in Cleaners, NEW point, pc' = [pc EXCEPT ![c] = point]
  PROVE  [Lock!Next]_Turn
<1>1. \A p \in Procs : pc'[p] = pc[p]
  BY LockAssumption DEF TypeOK, Actors
<1> QED BY <1>1 DEF Turn, Owns

LEMMA LockStep ==
  IInv /\ [Next]_vars => (hazards' = {} => [Lock!Next]_Turn)
<1> SUFFICES ASSUME IInv, [Next]_vars, hazards' = {}
             PROVE  [Lock!Next]_Turn
  OBVIOUS
<1>t. TypeOK
  BY DEF IInv
<1> USE DEF Acquiring, Owning, Releasing, Over, TurnAt
<1>1. ASSUME NEW p \in Procs, Sign(p) PROVE [Lock!Next]_Turn
  (* Whoever owned the lock would have its own claim on disk.              *)
  <2>1. hazards = {} /\ pc[p] = "sign" /\ pc' = [pc EXCEPT ![p] = "preflight"]
    BY <1>1 DEF Sign
  <2>2. \A q \in Procs : ~Owns(q)
    BY <2>1 DEF IInv, SignersHaveClaim, Owns
  <2>3. Turn[p] = "waiting" /\ Turn' = [Turn EXCEPT ![p] = "working"]
    BY <2>1, <1>t, TurnMoves
  <2>4. \A q \in Procs : Turn[q] # "working"
    BY <2>2 DEF Turn
  <2> QED BY <2>3, <2>4 DEF Lock!Next, Lock!Enter, Lock!Become
<1>2. ASSUME NEW p \in Procs,
             TryFileLock(p) \/ Judge(p) \/ Claim(p) \/ StartRun(p) \/ Exit(p)
      PROVE  [Lock!Next]_Turn
  <2>1. \E point \in {"judge", "claim", "sign", "refused", "running", "exited"} :
          /\ pc' = [pc EXCEPT ![p] = point]
          /\ \/ point \in {"refused", "exited"}
             \/ point \in Acquiring /\ pc[p] \in {"idle"} \cup Acquiring
             \/ point \in Owning /\ pc[p] \in Owning
    BY <1>2 DEF TryFileLock, Judge, Claim, StartRun, Exit
  <2> QED BY <2>1, <1>t, GoesOnOrEnds
<1>8. ASSUME NEW p \in Procs, FailPreflight(p) \/ Finish(p) \/ Signal(p) \/ Die(p)
      PROVE  [Lock!Next]_Turn
  <2>1. \E point \in {"unlinkMeta", "dead"} : pc' = [pc EXCEPT ![p] = point]
    BY <1>8 DEF FailPreflight, Finish, Signal, Die
  <2> QED BY <2>1, <1>t, GoesOnOrEnds
<1>3. ASSUME NEW a \in Actors, UnlinkMeta(a) \/ UnlinkFlock(a) PROVE [Lock!Next]_Turn
  <2>1. \E point \in {"unlinkMeta", "unlinkFlock", "closing", "exited"} :
            pc' = [pc EXCEPT ![a] = point]
    BY <1>3 DEF UnlinkMeta, UnlinkFlock
  <2>2. CASE a \in Procs
    <3>1. \A point \in {"unlinkMeta", "unlinkFlock", "closing", "exited"} :
            TurnAt(point) = "over"
      OBVIOUS
    <3> QED BY <2>1, <2>2, <3>1, <1>t, GoesOnOrEnds
  <2> QED BY <2>1, <2>2, <1>t, CleanersTakeNoTurn DEF Actors
<1>4. ASSUME NEW c \in Cleaners, ForceClean(c) PROVE [Lock!Next]_Turn
  <2>1. \E point \in {"unlinkMeta", "refused"} : pc' = [pc EXCEPT ![c] = point]
    BY <1>4 DEF ForceClean
  <2> QED BY <2>1, <1>t, CleanersTakeNoTurn
<1>5. ASSUME pc' = pc PROVE [Lock!Next]_Turn
  BY <1>5 DEF Turn, Owns
<1>6. ASSUME NEW p \in Procs, ReadHeartbeat(p) \/ WriteHeartbeat(p) PROVE [Lock!Next]_Turn
  BY <1>5, <1>6 DEF ReadHeartbeat, WriteHeartbeat
<1>7. CASE HeartbeatAges \/ UNCHANGED vars
  BY <1>5, <1>7 DEF HeartbeatAges, vars
<1> QED
  BY <1>1, <1>2, <1>3, <1>4, <1>6, <1>7, <1>8 DEF Next

(* All the files of the lock amount to LockSpec, which the other modules   *)
(* take in one step, until one of the five hazards happens.                *)
THEOREM FilesMakeALock == Spec => KeepsLockBarHazards
<1>1. IInv /\ [Next]_vars => [hazards' = {} => [Lock!Next]_Turn]_vars
  BY LockStep
<1> QED BY <1>1, LockInitial, InvariantHolds, PTL DEF Spec, KeepsLockBarHazards

=============================================================================
