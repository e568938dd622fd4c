------------------------------ MODULE LockSpec ------------------------------
(***************************************************************************)
(* What the orchestration lock promises the runs of a project, whatever    *)
(* files it is made of: they work one at a time, each once at most, and    *)
(* whoever is through, dead or refused never comes back.  Who is turned    *)
(* away, and whether anybody gets in, is left open.                        *)
(***************************************************************************)
CONSTANT Runs  \* the processes that contend for the lock

VARIABLE turn  \* what each is doing: waiting, working, or it is over

Init == turn = [r \in Runs |-> "waiting"]

Become(r, what) == turn' = [turn EXCEPT ![r] = what]

Enter(r) ==
  /\ turn[r] = "waiting"
  /\ \A q \in Runs : turn[q] # "working"
  /\ Become(r, "working")

Leave(r)  == turn[r] = "working" /\ Become(r, "over")
GiveUp(r) == turn[r] = "waiting" /\ Become(r, "over")

Next == \E r \in Runs : Enter(r) \/ Leave(r) \/ GiveUp(r)

Spec == Init /\ [][Next]_turn

=============================================================================
