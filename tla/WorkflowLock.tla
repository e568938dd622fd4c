---------------------------- MODULE WorkflowLock ----------------------------
(***************************************************************************)
(* The per-project orchestration lock of state.py: the files under        *)
(* .claude/ that `sw run` processes and `sw lock force-clean` commands     *)
(* fight over.                                                             *)
(*                                                                         *)
(*  - .workflow.lock.filelock is locked with flock for the length of one   *)
(*    acquire_lock call only.  `flock` is the process whose flock is on    *)
(*    the inode the PATH names now: once another process unlinks the path, *)
(*    the holder keeps a lock nobody else can see.                         *)
(*  - .workflow.lock.json is the claim: an identity (pid, start time,      *)
(*    host) and a heartbeat.  `claimant` is the identity, `fresh` says     *)
(*    that the heartbeat is younger than HEARTBEAT_STALE_SECONDS.          *)
(*                                                                         *)
(* Every process makes one run; a reused pid has another start time, so an *)
(* identity is the process itself.  Each read or write of a file is a step *)
(* of its own, because no step of the heartbeat or of a release takes the  *)
(* file lock.                                                              *)
(***************************************************************************)
EXTENDS Naturals, FiniteSets

CONSTANTS
  Procs,      \* the `sw run` processes
  Cleaners,   \* the `sw lock force-clean` commands
  Ghosts,     \* the identities of processes that died before the model starts
  NoClaim,    \* .workflow.lock.json does not exist
  Nobody,     \* nobody holds the file lock
  HostOf,     \* the host of every identity: [Procs \cup Ghosts -> hosts]
  Ageing,     \* may a heartbeat grow older than HEARTBEAT_STALE_SECONDS?
  SlowJoin,   \* may HeartbeatThread.stop() give up its join after 2 seconds?
  Signals     \* may SIGINT or SIGTERM reach a run?

ASSUME LockAssumption ==
  /\ Procs # {}
  /\ Procs \cap Cleaners = {}
  /\ Ghosts \cap (Procs \cup Cleaners) = {}
  /\ NoClaim \notin Procs \cup Cleaners \cup Ghosts
  /\ Nobody \notin Procs
  /\ {Ageing, SlowJoin, Signals} \subseteq BOOLEAN

VARIABLES
  pc,        \* where each process or command is
  handler,   \* signal handlers: not yet installed, installed, or one has run
  hb,        \* the heartbeat thread of each process
  hbSeen,    \* the claim its read-modify-write has read
  claimant,  \* the identity in .workflow.lock.json, or NoClaim
  fresh,     \* is that claim's heartbeat recent?
  flock,     \* who holds the lock of the inode at .workflow.lock.filelock
  hazards    \* ghost: which exclusion hazards have happened so far

vars == <<pc, handler, hb, hbSeen, claimant, fresh, flock, hazards>>

Identities == Procs \cup Ghosts
Actors     == Procs \cup Cleaners

(* Program points.  "judge" to "sign" are inside acquire_lock with the     *)
(* file lock held; "preflight" and "running" own the workflow lock;        *)
(* "unlinkMeta" and "unlinkFlock" are the two effective steps of           *)
(* release_lock; "closing" is what run() does after it; the last three are *)
(* the ways a process is over.                                             *)
Acquiring == {"judge", "claim", "sign"}
Owning    == {"preflight", "running"}
Releasing == {"unlinkMeta", "unlinkFlock"}
Over      == {"refused", "exited", "dead"}
Points    == {"idle", "closing"} \cup Acquiring \cup Owning \cup Releasing \cup Over

Hazards == {"inode unlinked", "claim overwritten", "live claim taken over",
            "foreign claim removed", "join abandoned"}

Alive(q) == q \in Procs /\ pc[q] \notin Over \cup {"idle"}
Owns(p)  == pc[p] \in Owning

TypeOK ==
  /\ pc \in [Actors -> Points]
  /\ handler \in [Procs -> {"absent", "ready", "ran"}]
  /\ hb \in [Procs -> {"off", "waiting", "writing"}]
  /\ hbSeen \in [Procs -> Identities \cup {NoClaim}]
  /\ \A p \in Procs : hb[p] = "writing" => hbSeen[p] \in Identities
  /\ claimant \in Identities \cup {NoClaim}
  /\ fresh \in BOOLEAN
  /\ flock \in Procs \cup {Nobody}
  /\ hazards \subseteq Hazards

Init ==
  /\ pc = [a \in Actors |-> "idle"]
  /\ handler = [p \in Procs |-> "absent"]
  /\ hb = [p \in Procs |-> "off"]
  /\ hbSeen = [p \in Procs |-> NoClaim]
  /\ claimant \in {NoClaim} \cup Ghosts
  /\ fresh \in BOOLEAN
  /\ flock = Nobody
  /\ hazards = {}

-----------------------------------------------------------------------------
(* acquire_lock                                                            *)

(* A mutated form of Stale: only a live pid whose heartbeat is old is      *)
(* stale, a dead one never.                                                *)
StaleIfHung(p, q) ==
  /\ HostOf[q] = HostOf[p]
  /\ Alive(q) /\ ~fresh

(* _is_lock_stale: a claim of another host is never stale; on this host it *)
(* is stale when its process is gone or its heartbeat is too old.          *)
Stale(p, q) ==
  /\ HostOf[q] = HostOf[p]
  /\ ~Alive(q) \/ ~fresh

(* A mutated form of TryFileLock: the lock file is opened, never locked.   *)
OpenFileLock(p) ==
  /\ pc[p] = "idle"
  /\ flock' = p
  /\ pc' = [pc EXCEPT ![p] = "judge"]
  /\ UNCHANGED <<handler, hb, hbSeen, claimant, fresh, hazards>>

(* FileLock.acquire(blocking=False): Timeout makes acquire_lock return     *)
(* False, and run() return.                                                *)
TryFileLock(p) ==
  /\ pc[p] = "idle"
  /\ \/ /\ flock = Nobody
        /\ flock' = p
        /\ pc' = [pc EXCEPT ![p] = "judge"]
     \/ /\ flock # Nobody
        /\ pc' = [pc EXCEPT ![p] = "refused"]
        /\ UNCHANGED flock
  /\ UNCHANGED <<handler, hb, hbSeen, claimant, fresh, hazards>>

(* The file lock is released by whoever still holds the inode at the path; *)
(* a lock on an unlinked inode goes away unseen.                           *)
DropFileLock(p) == flock' = IF flock = p THEN Nobody ELSE flock

(* A mutated form of Judge: any claim is thought stale.                    *)
JudgeNothing(p) ==
  /\ pc[p] = "judge"
  /\ pc' = [pc EXCEPT ![p] = "claim"]
  /\ UNCHANGED <<handler, hb, hbSeen, claimant, fresh, flock, hazards>>

(* Read the claim and decide.  Taking over the claim of a live process     *)
(* that owns the lock is the hazard a hung heartbeat opens.                *)
Judge(p) ==
  /\ pc[p] = "judge"
  /\ \/ /\ claimant # NoClaim => Stale(p, claimant)
        /\ pc' = [pc EXCEPT ![p] = "claim"]
        /\ hazards' = IF Alive(claimant)
                      THEN hazards \cup {"live claim taken over"} ELSE hazards
        /\ UNCHANGED flock
     \/ /\ claimant # NoClaim /\ ~Stale(p, claimant)
        /\ pc' = [pc EXCEPT ![p] = "refused"]
        /\ DropFileLock(p)
        /\ UNCHANGED hazards
  /\ UNCHANGED <<handler, hb, hbSeen, claimant, fresh>>

(* _write_lock_meta with this process's identity and a new heartbeat.      *)
Claim(p) ==
  /\ pc[p] = "claim"
  /\ claimant' = p
  /\ fresh' = TRUE
  /\ pc' = [pc EXCEPT ![p] = "sign"]
  /\ UNCHANGED <<handler, hb, hbSeen, flock, hazards>>

(* Write the pid file (never read back by the lock), release the file lock *)
(* in the finally, return True: from here the process owns the lock.       *)
Sign(p) ==
  /\ pc[p] = "sign"
  /\ DropFileLock(p)
  /\ pc' = [pc EXCEPT ![p] = "preflight"]
  /\ UNCHANGED <<handler, hb, hbSeen, claimant, fresh, hazards>>

-----------------------------------------------------------------------------
(* The run and its heartbeat                                               *)

(* The other preflight checks pass; HeartbeatThread.start() and            *)
(* _install_shutdown_handlers() follow.                                    *)
StartRun(p) ==
  /\ pc[p] = "preflight"
  /\ pc' = [pc EXCEPT ![p] = "running"]
  /\ hb' = [hb EXCEPT ![p] = "waiting"]
  /\ handler' = [handler EXCEPT ![p] = "ready"]
  /\ UNCHANGED <<hbSeen, claimant, fresh, flock, hazards>>

(* A later preflight check fails: release_lock and return False.           *)
FailPreflight(p) ==
  /\ pc[p] = "preflight"
  /\ pc' = [pc EXCEPT ![p] = "unlinkMeta"]
  /\ UNCHANGED <<handler, hb, hbSeen, claimant, fresh, flock, hazards>>

(* update_lock_heartbeat, first half: read the claim; no claim, no write.  *)
ReadHeartbeat(p) ==
  /\ hb[p] = "waiting"
  /\ claimant # NoClaim
  /\ hb' = [hb EXCEPT ![p] = "writing"]
  /\ hbSeen' = [hbSeen EXCEPT ![p] = claimant]
  /\ UNCHANGED <<pc, handler, claimant, fresh, flock, hazards>>

(* Second half: the claim that was READ is written back with a new         *)
(* heartbeat, whatever the file says by now.  The loop then sees the stop  *)
(* event if stop() was called meanwhile.                                   *)
WriteHeartbeat(p) ==
  /\ hb[p] = "writing"
  /\ claimant' = hbSeen[p]
  /\ fresh' = TRUE
  /\ hb' = [hb EXCEPT ![p] = IF pc[p] = "running" THEN "waiting" ELSE "off"]
  /\ hazards' = IF claimant \notin {NoClaim, hbSeen[p]}
                THEN hazards \cup {"claim overwritten"} ELSE hazards
  /\ UNCHANGED <<pc, handler, hbSeen, flock>>

(* More than HEARTBEAT_STALE_SECONDS pass without a write.                 *)
HeartbeatAges ==
  /\ Ageing
  /\ fresh
  /\ fresh' = FALSE
  /\ UNCHANGED <<pc, handler, hb, hbSeen, claimant, flock, hazards>>

(* A mutated form of StopHeartbeat: the event is set, nothing is joined.   *)
SignalHeartbeat(p) ==
  /\ hb' = [hb EXCEPT ![p] = IF hb[p] = "writing" THEN "writing" ELSE "off"]
  /\ UNCHANGED hazards

(* HeartbeatThread.stop(): a waiting thread ends; a writing one is joined, *)
(* for two seconds at most.                                                *)
StopHeartbeat(p) ==
  \/ /\ hb[p] # "writing"
     /\ hb' = [hb EXCEPT ![p] = "off"]
     /\ UNCHANGED hazards
  \/ /\ hb[p] = "writing"
     /\ SlowJoin
     /\ hazards' = hazards \cup {"join abandoned"}
     /\ UNCHANGED hb

(* The finally of run(), after a completed or an abandoned milestone loop. *)
Finish(p) ==
  /\ pc[p] = "running"
  /\ StopHeartbeat(p)
  /\ pc' = [pc EXCEPT ![p] = "unlinkMeta"]
  /\ UNCHANGED <<handler, hbSeen, claimant, fresh, flock>>

(* _handler: stop the heartbeat, release the lock, raise SystemExit.  The  *)
(* finally of run() then releases once more; a signal that interrupts that *)
(* last release replaces it by the handler's.                              *)
Signal(p) ==
  /\ Signals
  /\ handler[p] # "absent"
  /\ pc[p] \in {"running"} \cup Releasing
  /\ StopHeartbeat(p)
  /\ handler' = IF pc[p] = "running" THEN [handler EXCEPT ![p] = "ran"] ELSE handler
  /\ pc' = [pc EXCEPT ![p] = "unlinkMeta"]
  /\ UNCHANGED <<hbSeen, claimant, fresh, flock>>

-----------------------------------------------------------------------------
(* release_lock, by a run or by `sw lock force-clean`                      *)

(* Nothing compares the claim with the caller before it is unlinked.       *)
UnlinkMeta(a) ==
  /\ pc[a] = "unlinkMeta"
  /\ claimant' = NoClaim
  /\ pc' = [pc EXCEPT ![a] = "unlinkFlock"]
  /\ hazards' = IF claimant # a /\ Alive(claimant)
                THEN hazards \cup {"foreign claim removed"} ELSE hazards
  /\ UNCHANGED <<handler, hb, hbSeen, fresh, flock>>

(* The path of the file lock goes away, under a holder if there is one.    *)
UnlinkFlock(a) ==
  /\ pc[a] = "unlinkFlock"
  /\ flock' = Nobody
  /\ hazards' = IF flock # Nobody
                THEN hazards \cup {"inode unlinked"} ELSE hazards
  /\ IF a \in Procs /\ handler[a] = "ran"
     THEN /\ pc' = [pc EXCEPT ![a] = "unlinkMeta"]
          /\ handler' = [handler EXCEPT ![a] = "ready"]
     ELSE /\ pc' = [pc EXCEPT ![a] = IF a \in Procs THEN "closing" ELSE "exited"]
          /\ UNCHANGED handler
  /\ UNCHANGED <<hb, hbSeen, claimant, fresh>>

(* `sw lock force-clean`: wait until the file lock is free, let go of it,  *)
(* and only then release; after five seconds without it, give up.          *)
ForceClean(c) ==
  /\ pc[c] = "idle"
  /\ \/ /\ flock = Nobody
        /\ pc' = [pc EXCEPT ![c] = "unlinkMeta"]
     \/ /\ flock # Nobody
        /\ pc' = [pc EXCEPT ![c] = "refused"]
  /\ UNCHANGED <<handler, hb, hbSeen, claimant, fresh, flock, hazards>>

(* The process ends after its run, and its heartbeat thread with it.       *)
Exit(p) ==
  /\ pc[p] = "closing"
  /\ pc' = [pc EXCEPT ![p] = "exited"]
  /\ hb' = [hb EXCEPT ![p] = "off"]
  /\ UNCHANGED <<handler, hbSeen, claimant, fresh, flock, hazards>>

(* The process is killed, or leaves run() by a path that releases nothing  *)
(* (an exception before the try of run(), the run_start ceiling gate).     *)
Die(p) ==
  /\ Alive(p)
  /\ pc' = [pc EXCEPT ![p] = "dead"]
  /\ hb' = [hb EXCEPT ![p] = "off"]
  /\ DropFileLock(p)
  /\ UNCHANGED <<handler, hbSeen, claimant, fresh, hazards>>

-----------------------------------------------------------------------------
Next ==
  \/ \E p \in Procs :
       \/ TryFileLock(p) \/ Judge(p) \/ Claim(p) \/ Sign(p)
       \/ StartRun(p) \/ FailPreflight(p)
       \/ ReadHeartbeat(p) \/ WriteHeartbeat(p)
       \/ Finish(p) \/ Signal(p) \/ Exit(p) \/ Die(p)
  \/ \E a \in Actors : UnlinkMeta(a) \/ UnlinkFlock(a)
  \/ \E c \in Cleaners : ForceClean(c)
  \/ HeartbeatAges

Spec == Init /\ [][Next]_vars

-----------------------------------------------------------------------------
(* Properties                                                              *)

(* At most one process runs its milestones, what the lock is for: two      *)
(* orchestrators would rewrite the same state and bill everything twice.   *)
MutualExclusion == \A p, q \in Procs : Owns(p) /\ Owns(q) => p = q

(* The lock excludes as long as none of five things has happened: a        *)
(* release unlinked the file lock under an acquirer, a heartbeat wrote     *)
(* back a claim that had been replaced, the claim of a live process was    *)
(* judged stale, a release removed the claim of another live process, or a *)
(* heartbeat was not waited for.  Crashes at any point, failed preflights, *)
(* claims of dead processes and of other hosts do not break it.            *)
ExclusionBarHazards == hazards = {} => MutualExclusion

(* While a process owns the lock, the claim on disk names it, so every     *)
(* other acquire_lock is judged against the right process.                 *)
ClaimNamesOwner == \A p \in Procs : Owns(p) => claimant = p

(* The same, as long as none of the five hazards has happened.             *)
ClaimBarHazards == hazards = {} => ClaimNamesOwner

(* A run that has released the lock has left no claim behind, neither its  *)
(* own writes nor a heartbeat's bring it back; the heartbeat is stopped    *)
(* before the release for this reason.                                     *)
ReleasedClaimIsGone ==
  hazards = {} => \A p \in Procs : pc[p] \in {"closing", "exited"} => claimant # p

(* Contention never refuses everybody: all runs are told that another      *)
(* orchestration is running only when a dead process of another host has   *)
(* left its claim, or a force-clean has meanwhile removed it.              *)
SomebodyGetsIn ==
  (\A p \in Procs : pc[p] = "refused")
    => \/ \E c \in Cleaners : pc[c] # "idle"
       \/ claimant \in Ghosts /\ \E p \in Procs : HostOf[p] # HostOf[claimant]

(* What a process means for the others that contend for the lock.          *)
Turn == [p \in Procs |-> IF pc[p] \in {"idle"} \cup Acquiring THEN "waiting"
                         ELSE IF Owns(p) THEN "working" ELSE "over"]

Lock == INSTANCE LockSpec WITH Runs <- Procs, turn <- Turn

(* Until one of the five hazards happens, all these reads and writes of    *)
(* files amount to the lock that the other modules take in one step.       *)
KeepsLockBarHazards ==
  Lock!Init /\ [][hazards' = {} => [Lock!Next]_Turn]_vars

=============================================================================
