----------------------------- MODULE NativeTurn -----------------------------
(***************************************************************************)
(* One native turn of a guest: what happens to a gateway row between the   *)
(* moment a wake claims it and the moment the claim is released, settled   *)
(* or retained.  It is the part OrdinaryLane and SharedLane share: the     *)
(* in-process worker (_run_inbox_wake), the RPC adapter                    *)
(* (execute_gateway_turn), the guest it talks to, the work gate and the    *)
(* ownership of the agent.  The two lanes add how rows are accepted,       *)
(* claimed and settled.                                                    *)
(*                                                                         *)
(* A worker lives in memory only: a crash or a shutdown forgets it at any  *)
(* point, while the guest goes on with whatever reached it.                *)
(***************************************************************************)
EXTENDS Naturals

CONSTANTS
    Msg,        \* ids of gateway_messages rows
    Owner,      \* values of agents.creator_id (with its tenant)
    Stamp       \* values of delivered_at, the claim's compare-and-set key

ASSUME StampAssumption == /\ Stamp # {} 
                          /\ 0 \notin Stamp

VARIABLES
    status,     \* gateway_messages.status, and an insert that is not committed
    stamp,      \* gateway_messages.delivered_at; 0 is NULL
    bound,      \* rows whose reply_binding_id is set
    turns,      \* workers inside _run_inbox_wake that hold a claim
    guest,      \* what the guest (external) knows of a row's request
    consumed,   \* how often the guest has consumed the row's input
    owner,      \* agents.creator_id and tenant_id
    gate        \* assert_work_allowed would pass

turnVars == <<status, stamp, bound, turns, guest, consumed, owner, gate>>

RowStatus == {"free", "begun", "dropped", "pending", "delivered", "completed"}

\* idle: nothing sent; sent: the adapter runs; rejected: refused before
\* admission; accepted: a pending input; interrupted: its restart-recovery
\* tombstone; running: input consumed; done: a terminal answer exists.
GuestState == {"idle", "sent", "rejected", "accepted", "interrupted", "running", "done"}

\* The agent record a worker carries is the one captured when it was woken.
Turn == [msg : Msg, stamp : Stamp, owner : Owner, pc : {"claimed", "submitted", "release", "settle"}]

TurnTypeOK ==
    /\ status \in [Msg -> RowStatus]
    /\ stamp \in [Msg -> Stamp \cup {0}]
    /\ bound \subseteq Msg
    /\ turns \subseteq Turn
    /\ guest \in [Msg -> GuestState]
    /\ consumed \in [Msg -> Nat]
    /\ owner \in Owner
    /\ gate \in BOOLEAN

TurnInit ==
    /\ status = [m \in Msg |-> "free"]
    /\ stamp = [m \in Msg |-> 0]
    /\ bound = {}
    /\ turns = {}
    /\ guest = [m \in Msg |-> "idle"]
    /\ consumed = [m \in Msg |-> 0]
    /\ owner \in Owner
    /\ gate = TRUE

At(t, pc) == (turns \ {t}) \cup {[t EXCEPT !.pc = pc]}

-----------------------------------------------------------------------------
(* A claim: the row becomes delivered under a delivered_at no live record  *)
(* of the row carries, and the worker starts with that record.             *)

Deliver(m, o, binds) ==
    \E s \in Stamp :
        /\ \A t \in turns : t.msg = m => t.stamp # s
        /\ status' = [status EXCEPT ![m] = "delivered"]
        /\ stamp' = [stamp EXCEPT ![m] = s]
        /\ bound' = IF binds THEN bound \cup {m} ELSE bound \ {m}
        /\ turns' = turns \cup {[msg |-> m, stamp |-> s, owner |-> o, pc |-> "claimed"]}

-----------------------------------------------------------------------------
(* The worker and its adapter.                                             *)

\* Guest missing or stopped, payload unwritable, workspace lock busy, gate
\* closed or owner changed: every one of these is found before the request
\* is sent, so the worker goes on to return its claim.
RefuseBeforeSubmit(t) ==
    /\ t.pc = "claimed"
    /\ turns' = At(t, "release")
    /\ UNCHANGED <<status, stamp, bound, guest, consumed, owner, gate>>

\* The fresh agent row still has the captured owner, and the gate is checked
\* again right before the adapter is started in the guest.
Submit(t) ==
    /\ t.pc = "claimed"
    /\ owner = t.owner
    /\ gate
    /\ guest' = [guest EXCEPT ![t.msg] = "sent"]
    /\ turns' = At(t, "submitted")
    /\ UNCHANGED <<status, stamp, bound, consumed, owner, gate>>

\* Mutant: every failure of the adapter counts as not admitted.
SeeAnyFailure(t) ==
    /\ t.pc = "submitted"
    /\ turns' = At(t, "release")
    /\ UNCHANGED <<status, stamp, bound, guest, consumed, owner, gate>>

\* not_admitted: bootstrap refusal, or a request the gateway rejected.
SeeNotAdmitted(t) ==
    /\ t.pc = "submitted"
    /\ guest[t.msg] = "rejected"
    /\ turns' = At(t, "release")
    /\ UNCHANGED <<status, stamp, bound, guest, consumed, owner, gate>>

\* terminal: the matching run answered on the same request.
SeeTerminal(t) ==
    /\ t.pc = "submitted"
    /\ guest[t.msg] = "done"
    /\ turns' = At(t, "settle")
    /\ UNCHANGED <<status, stamp, bound, guest, consumed, owner, gate>>

\* Mutant: an uncertain outcome is released like a refused one.
SeeUncertainReleases(t) ==
    /\ t.pc = "submitted"
    /\ turns' = At(t, "release")
    /\ UNCHANGED <<status, stamp, bound, guest, consumed, owner, gate>>

\* uncertain: the adapter failed, its output is invalid or names another
\* run, or the connection was lost.  The claim is retained.
SeeUncertain(t) ==
    /\ t.pc = "submitted"
    /\ turns' = turns \ {t}
    /\ UNCHANGED <<status, stamp, bound, guest, consumed, owner, gate>>

\* release_delivery: a compare-and-set on delivered and delivered_at.
Release(t) ==
    /\ t.pc = "release"
    /\ turns' = turns \ {t}
    /\ IF status[t.msg] = "delivered" /\ stamp[t.msg] = t.stamp
       THEN /\ status' = [status EXCEPT ![t.msg] = "pending"]
            /\ stamp' = [stamp EXCEPT ![t.msg] = 0]
       ELSE UNCHANGED <<status, stamp>>
    /\ UNCHANGED <<bound, guest, consumed, owner, gate>>

\* A crash, a cancellation or an unexpected exception ends the worker
\* wherever it is; nothing is undone.
WorkerLost(t) ==
    /\ turns' = turns \ {t}
    /\ UNCHANGED <<status, stamp, bound, guest, consumed, owner, gate>>

-----------------------------------------------------------------------------
(* The guest (external): it decides on a request that was sent, whether or *)
(* not the engine is still there.                                          *)

GuestStep(m, from, to) ==
    /\ guest[m] = from
    /\ guest' = [guest EXCEPT ![m] = to]
    /\ UNCHANGED <<status, stamp, bound, turns, owner, gate>>

GuestReject(m) == GuestStep(m, "sent", "rejected") /\ UNCHANGED consumed
GuestAccept(m) == GuestStep(m, "sent", "accepted") /\ UNCHANGED consumed
GuestInterrupt(m) == GuestStep(m, "accepted", "interrupted") /\ UNCHANGED consumed
GuestConsume(m) == 
    /\ GuestStep(m, "accepted", "running") 
    /\ consumed' = [consumed EXCEPT ![m] = @ + 1]
GuestAnswer(m) == GuestStep(m, "running", "done") /\ UNCHANGED consumed

-----------------------------------------------------------------------------
(* The agent's surroundings.                                               *)

\* Mutant: no trigger, so bindings outlive the owner.
TransferKeepsBindings(o) ==
    /\ o # owner
    /\ \A t \in turns : t.pc # "submitted"
    /\ owner' = o
    /\ UNCHANGED <<status, stamp, bound, turns, guest, consumed, gate>>

\* apply_ownership_change waits for the exclusive workspace lock, of which an
\* adapter in progress holds the shared side.  The trigger on agents deletes
\* every reply binding, which nulls the reference in the rows.
TransferOwner(o) ==
    /\ o # owner
    /\ \A t \in turns : t.pc # "submitted"
    /\ owner' = o
    /\ bound' = {}
    /\ UNCHANGED <<status, stamp, turns, guest, consumed, gate>>

\* An update run or a mandatory notice closes the gate, its end opens it.
SetGate ==
    /\ gate' = ~gate
    /\ UNCHANGED <<status, stamp, bound, turns, guest, consumed, owner>>

TurnStep(t) ==
    \/ RefuseBeforeSubmit(t)
    \/ Submit(t)
    \/ SeeNotAdmitted(t)
    \/ SeeTerminal(t)
    \/ SeeUncertain(t)
    \/ Release(t)
    \/ WorkerLost(t)

GuestNext(m) ==
    \/ GuestReject(m)
    \/ GuestAccept(m)
    \/ GuestInterrupt(m)
    \/ GuestConsume(m)
    \/ GuestAnswer(m)

TurnNext ==
    \/ \E t \in turns : TurnStep(t)
    \/ \E m \in Msg : GuestNext(m)
    \/ \E o \in Owner : TransferOwner(o)
    \/ SetGate

-----------------------------------------------------------------------------
(* Properties both lanes check.                                            *)

\* A row has at most one worker...
OneWorker == \A t, u \in turns : t.msg = u.msg => t = u

\* ...whose row is completed, or delivered under the worker's delivered_at.
WorkerHoldsRow ==
    \A t \in turns :
        \/ status[t.msg] = "completed"
        \/ status[t.msg] = "delivered" /\ stamp[t.msg] = t.stamp

\* The guest has nothing to run before the request is sent, after it was
\* refused, and for a row that nobody holds.
Unadmitted(m) == guest[m] \in {"idle", "rejected"}

UnsentIsUnadmitted ==
    /\ \A t \in turns : t.pc \in {"claimed", "release"} => Unadmitted(t.msg)
    /\ \A m \in Msg : status[m] \notin {"delivered", "completed"} => Unadmitted(m)

ConsumedOnceRun ==
    \A m \in Msg : consumed[m] = IF guest[m] \in {"running", "done"} THEN 1 ELSE 0

\* What the claim protocol keeps, through releases, uncertain outcomes,
\* crashes, reports and transfers: one worker per row, which still holds it,
\* and a row goes back to pending only when the guest cannot run it.
ClaimInv ==
    /\ OneWorker
    /\ WorkerHoldsRow
    /\ UnsentIsUnadmitted
    /\ ConsumedOnceRun

\* A row's input is consumed by the guest at most once, across releases,
\* uncertain outcomes, crashes and restarts: a claim is returned to pending
\* only when the request provably did not reach the agent.
ConsumedAtMostOnce == \A m \in Msg : consumed[m] <= 1
=============================================================================
