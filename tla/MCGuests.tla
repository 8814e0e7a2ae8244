------------------------------- MODULE MCGuests -------------------------------
(* AgentStart and GuestUpdate for TLC, side by side: moving chooses the one  *)
(* that moves, the other stays in its initial states, where no fair action   *)
(* is enabled.                                                               *)
EXTENDS AgentStart

CONSTANTS MaxRuns, MaxWrites

ASSUME UpdateBound == MaxRuns \in Nat /\ MaxWrites \in Nat

VARIABLES
    moving,
    agent, off, box, run, dir, snap, work, writing, kept    \* of GuestUpdate

Update == INSTANCE GuestUpdate WITH row <- agent, w <- work
updateVars == <<agent, off, box, run, dir, snap, work, writing, kept>>
MCInit ==
    /\ moving \in {"start", "update"}
    /\ Init /\ Update!Init
    /\ moving = "start" => agent.status = "running"

MCNext ==
    /\ UNCHANGED moving
    /\ \/ moving = "start" /\ Next /\ UNCHANGED updateVars
       \/ moving = "update" /\ Update!Next /\ UNCHANGED vars

MCSpec ==
    /\ MCInit /\ [][MCNext]_<<moving, vars, updateVars>>
    /\ Fairness /\ Update!Fairness

\* What holds through a crash at any step of an upgrade: one guest at a time,
\* no accepted write lost and no rolled-back one kept, a whole service between
\* runs, and a disabled agent left disabled.
UpdateSafety == Update!UpdateSafety

\* The inductive invariants of both.
GuestInv == StartInv /\ Update!UpdateInv

\* Every run ends, and the leftovers of a success go.
RunsFinish == Update!RunsFinish
=============================================================================
