------------------------------- MODULE MCLanes -------------------------------
(* The ways of a message for TLC, side by side: its acceptance (ChatIntake), *)
(* an ordinary conversation and the Shared lane.  moving chooses the one     *)
(* that moves, the others stay in their initial states, where no fair action *)
(* is enabled.                                                               *)
EXTENDS OrdinaryLane

CONSTANTS
    Orig,                                                       \* of SharedLane
    Web, Event, Group, Hook, Body, NoBody, MaxSockets           \* of ChatIntake

VARIABLES
    moving,
    \* SharedLane
    sStatus, sStamp, sBound, sTurns, sGuest, sConsumed, sOwner, sGate,
    sAt, kind, batch, members, frozen, ready, window, scope, gen, conn, linkOwner,
    receipt, since, sResult, sIntents, sProbes, pass,
    \* ChatIntake
    envelope, order, line, socket, link, inbox, tx, row, queued, paidIn,
    used, period, elapsed, admin, acked, posts, faults

Shared == INSTANCE SharedLane WITH
    Quiet <- 1, Window <- 1, PendingMax <- 1, BatchMax <- 1, MaxPasses <- 1, MaxGen <- 1,
    status <- sStatus, stamp <- sStamp, bound <- sBound, turns <- sTurns, guest <- sGuest,
    consumed <- sConsumed, owner <- sOwner, gate <- sGate, at <- sAt,
    result <- sResult, intents <- sIntents, probes <- sProbes
Intake == INSTANCE ChatIntake WITH
    QuotaLimit <- 1, MaxFaults <- 1, MaxPosts <- 1, MaxPeriods <- 1

sharedVars ==
    <<sStatus, sStamp, sBound, sTurns, sGuest, sConsumed, sOwner, sGate,
      sAt, kind, batch, members, frozen, ready, window, scope, gen, conn, linkOwner,
      receipt, since, sResult, sIntents, sProbes, pass>>
intakeVars ==
    <<envelope, order, line, socket, link, inbox, tx, row, queued, paidIn,
      used, period, elapsed, admin, acked, posts, faults>>

\* Rows are numbers and used in order.
InOrder(st) ==
    \A m, n \in Msg : st[m] # "free" /\ n < m => st[n] # "free"

MCInit ==
    /\ moving \in {"intake", "ordinary", "shared"}
    /\ Init /\ Shared!Init /\ Intake!Init
    /\ moving # "intake" => admin

MCNext ==
    /\ UNCHANGED moving
    /\ \/ moving = "ordinary" /\ Next /\ InOrder(status') /\ UNCHANGED <<sharedVars, intakeVars>>
       \/ moving = "shared" /\ Shared!Next /\ InOrder(sStatus') /\ UNCHANGED <<vars, intakeVars>>
       \/ moving = "intake" /\ Intake!Next /\ UNCHANGED <<vars, sharedVars>>

MCSpec ==
    /\ MCInit /\ [][MCNext]_<<moving, vars, sharedVars, intakeVars>>
    /\ Fairness /\ Shared!Fairness /\ Intake!Fairness

\* A waiting row of the Shared lane is claimed or cancelled, past bursts that
\* collect and heads that are stale.
WaitingMovesOn == Shared!WaitingMovesOn

\* A submission ends as accepted or rejected in the browser, whatever answers
\* and connections were lost.
TurnsSettle == Intake!TurnsSettle
=============================================================================
