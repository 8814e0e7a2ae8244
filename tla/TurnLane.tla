------------------------------ MODULE TurnLane ------------------------------
(***************************************************************************)
(* What the gateway queue promises of one agent's work, whatever lane      *)
(* implementation carries it: a job waits, is handed to the guest while no *)
(* other job of its lane is, may be taken back only as long as it can no   *)
(* longer run from that hand-over, runs at most once, and ends once.       *)
(***************************************************************************)
EXTENDS Naturals

CONSTANTS Job, Lane

VARIABLES
    phase,  \* none, waiting, active or done
    lane,   \* the lane of a job that has arrived
    ran     \* how often the guest started the job

vars == <<phase, lane, ran>>

Phase == {"none", "waiting", "active", "done"}

Init ==
    /\ phase = [j \in Job |-> "none"]
    /\ lane \in [Job -> Lane]
    /\ ran = [j \in Job |-> 0]

\* A job may choose its lane until it has arrived.
Choose(j) ==
    /\ phase[j] = "none"
    /\ \E l \in Lane : lane' = [lane EXCEPT ![j] = l]
    /\ UNCHANGED <<phase, ran>>

Arrive(j) ==
    /\ phase[j] = "none"
    /\ phase' = [phase EXCEPT ![j] = "waiting"]
    /\ \E l \in Lane : lane' = [lane EXCEPT ![j] = l]
    /\ UNCHANGED ran

Start(j) ==
    /\ phase[j] = "waiting"
    /\ \A k \in Job : phase[k] = "active" => lane[k] # lane[j]
    /\ phase' = [phase EXCEPT ![j] = "active"]
    /\ UNCHANGED <<lane, ran>>

TakeBack(j) ==
    /\ phase[j] = "active"
    /\ ran[j] = 0
    /\ phase' = [phase EXCEPT ![j] = "waiting"]
    /\ UNCHANGED <<lane, ran>>

\* The guest is not told when a job is declared done, so it may still run it.
Run(j) ==
    /\ phase[j] \in {"active", "done"}
    /\ ran[j] = 0
    /\ ran' = [ran EXCEPT ![j] = 1]
    /\ UNCHANGED <<phase, lane>>

\* Jobs end by a report or by cancellation, which may take several at once.
Finish(js) ==
    /\ \A j \in js : phase[j] \in {"waiting", "active"}
    /\ phase' = [j \in Job |-> IF j \in js THEN "done" ELSE phase[j]]
    /\ UNCHANGED <<lane, ran>>

Next ==
    \/ \E j \in Job : Choose(j) \/ Arrive(j) \/ Start(j) \/ TakeBack(j) \/ Run(j)
    \/ \E js \in SUBSET Job : Finish(js)

Spec == Init /\ [][Next]_vars
=============================================================================
