---------------------------- MODULE CostCeilings ----------------------------
(***************************************************************************)
(* budget_ceiling.py: what a project spent in a rolling window, read from  *)
(* the RunCompleted events of its telemetry, and whether a gate lets a run *)
(* go on.                                                                  *)
(*                                                                         *)
(* A ledger is the sequence of those events, [at |-> time, cost |-> the    *)
(* total they report].  Times start at 1, so that a reset checkpoint of 0  *)
(* is no checkpoint.  Lines that do not parse are not modelled.            *)
(***************************************************************************)
EXTENDS Naturals, Sequences, Functions

CONSTANTS
  Duration,    \* how long each window is: [Windows -> Nat]
  Ceiling,     \* cost_ceilings, 0 where none is configured: [Windows -> Nat]
  CeilingMode  \* "warn" or "block" for each window

Windows == {"day", "week", "month"}
Keys    == Windows \cup {"daily", "weekly", "monthly"}

ASSUME CeilingAssumption ==
  /\ Duration \in [Windows -> Nat] /\ Ceiling \in [Windows -> Nat]
  /\ CeilingMode \in [Windows -> {"warn", "block"}]

ConfigKeyByWindow == [day |-> "daily", week |-> "weekly", month |-> "monthly"]

(* A mutated form of InWindow: what is just as old as the window is out.   *)
InsideWindow(w, at, now) == at + Duration[w] > now /\ at <= now

InWindow(w, at, now) == at + Duration[w] >= now /\ at <= now

Contributing(ledger, w, now, checkpoint) ==
  {i \in DOMAIN ledger : InWindow(w, ledger[i].at, now) /\ ledger[i].at > checkpoint}

(* load_window_spend.                                                      *)
WindowSpend(ledger, w, now, checkpoint) ==
  SumFunctionOnSet([i \in DOMAIN ledger |-> ledger[i].cost],
                   Contributing(ledger, w, now, checkpoint))

(* A projected cost is a fraction, [num, den].  Without a contributing     *)
(* event ("no_history") a window never objects.                            *)
Exceeds(ledger, w, now, checkpoint, projected) ==
  /\ Ceiling[w] > 0
  /\ Contributing(ledger, w, now, checkpoint) # {}
  /\ WindowSpend(ledger, w, now, checkpoint) * projected.den + projected.num
       >= Ceiling[w] * projected.den

(* evaluate_ceilings: does some window block?  The checkpoint of a window  *)
(* is looked up under the key its ceiling has in the configuration.        *)
Blocked(ledger, now, checkpoints, projected) ==
  \E w \in Windows :
    /\ CeilingMode[w] = "block"
    /\ Exceeds(ledger, w, now, checkpoints[ConfigKeyByWindow[w]], projected)
=============================================================================
