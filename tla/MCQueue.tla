------------------------------- MODULE MCQueue -------------------------------
(* OrdinaryLane and WakeLanes for TLC, side by side: moving chooses the one   *)
(* that moves, the other stays in its initial state, where no fair action is  *)
(* enabled.  Rows and owners of OrdinaryLane are interchangeable: rows are    *)
(* used in order and the first owner is fixed.                                *)
EXTENDS OrdinaryLane, FiniteSets

CONSTANTS
    FirstOwner,
    WakeLane, Watched, MaxParallel, Sem, NoSem, MaxRows     \* of WakeLanes

ASSUME WakeAssumption ==
    /\ IsFiniteSet(WakeLane) /\ NoSem \notin Sem
    /\ MaxParallel \in Nat /\ MaxRows \in Nat

VARIABLES
    moving,
    accepting, wakeRunning, wakeAgain, drain, heads, laneRunning, laneAgain, sem, tasks,
    tail, gone, busy, owed

Wake == INSTANCE WakeLanes WITH Lane <- WakeLane

wakeVars ==
    <<accepting, wakeRunning, wakeAgain, drain, heads, laneRunning, laneAgain, sem, tasks,
      tail, gone, busy, owed>>

InOrder(st) == \A m, n \in Msg : st[m] # "free" /\ n < m => st[n] # "free"

\* Bound: the agent is transferred once.
OneTransfer == owner # FirstOwner => owner' = owner

MCInit ==
    /\ moving \in {"rows", "wakes"}
    /\ Init /\ Wake!Init
    /\ owner = FirstOwner

MCNext ==
    /\ UNCHANGED moving
    /\ \/ moving = "rows" /\ Next /\ InOrder(status') /\ OneTransfer /\ UNCHANGED wakeVars
       \/ moving = "wakes" /\ Wake!Next /\ UNCHANGED vars

MCSpec == MCInit /\ [][MCNext]_<<moving, vars, wakeVars>> /\ Wake!Fairness

\* Flags and tasks agree, the semaphore bounds the parallel turns, shutdown
\* leaves nothing behind and a noted wake is served.
WakeSafety == Wake!WakeSafety

\* While admission stays open a claimable head does not wait for ever.
ClaimableIsServed == Wake!ClaimableIsServed
=============================================================================
