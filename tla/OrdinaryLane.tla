---------------------------- MODULE OrdinaryLane ----------------------------
(***************************************************************************)
(* The ordinary conversations of one agent in the gateway queue:           *)
(* acceptance of a message, the claim of a lane head, settlement by the    *)
(* native worker, by POST /gateway/report and by the reconciler's          *)
(* interruption notice.                                                    *)
(*                                                                         *)
(* A lane is a conversation; a row without one is a lane of its own.       *)
(* created_at of an ordinary row is the START of the inserting             *)
(* transaction, so rows can become visible out of order.                   *)
(***************************************************************************)
EXTENDS NativeTurn

CONSTANTS
    Lane,       \* conversation ids of web and IM sessions
    NoLane,     \* NULL or empty conversation_id
    Relayed     \* rows whose answer also has an IM or agent destination

ASSUME LaneAssumption == NoLane \notin Lane
ASSUME RelayedAssumption == Relayed \subseteq Msg

VARIABLES
    conv,       \* gateway_messages.conversation_id
    at,         \* gateway_messages.created_at
    clock,      \* database clock, as far as created_at orders rows
    session,    \* chat sessions that exist
    result,     \* gateway_messages.result, by who reported it
    answers,    \* assistant chat_messages inserted for the row
    intents,    \* rows with an outstanding delivery intent
    probes,     \* delivered rows the reconciler has just read evidence for
    claimedFor  \* owner of the agent when the row was last claimed

rowVars == <<conv, at, clock, session>>
reportVars == <<result, answers, intents>>
vars == <<turnVars, rowVars, reportVars, probes, claimedFor>>

NoResult == "none"
Reporter == {"native", "http", "http_empty", "notice"}

TypeOK ==
    /\ TurnTypeOK
    /\ conv \in [Msg -> Lane \cup {NoLane}]
    /\ at \in [Msg -> Nat]
    /\ clock \in Nat
    /\ session \subseteq Lane
    /\ result \in [Msg -> Reporter \cup {NoResult}]
    /\ answers \in [Msg -> Nat]
    /\ intents \subseteq Msg
    /\ probes \subseteq [msg : Msg, owner : Owner]
    /\ claimedFor \in [Msg -> Owner]

Init ==
    /\ TurnInit
    /\ conv = [m \in Msg |-> NoLane]
    /\ at = [m \in Msg |-> 0]
    /\ clock = 0
    /\ session = Lane
    /\ result = [m \in Msg |-> NoResult]
    /\ answers = [m \in Msg |-> 0]
    /\ intents = {}
    /\ probes = {}
    /\ claimedFor = [m \in Msg |-> owner]

-----------------------------------------------------------------------------
(* Lanes.                                                                  *)

Older(p, m) == at[p] < at[m]

SameLane(m, n) == conv[m] = conv[n] /\ conv[m] # NoLane

\* Mutant: the claim does not look for a delivered row of the conversation.
NeverBusy(m) == m \notin Msg

LaneBusy(m) == \E d \in Msg : SameLane(m, d) /\ status[d] = "delivered"

\* Mutants: any pending row is claimable; only rows of conversations are.
AnyPending(m) == status[m] = "pending"
ConversationHead(m) ==
    /\ status[m] = "pending" /\ conv[m] # NoLane
    /\ ~ \E p \in Msg : SameLane(m, p) /\ status[p] = "pending" /\ Older(p, m)

\* lane_head, lane_heads_page: the oldest visible pending row of its lane.
IsLaneHead(m) ==
    /\ status[m] = "pending"
    /\ ~ \E p \in Msg : SameLane(m, p) /\ status[p] = "pending" /\ Older(p, m)

-----------------------------------------------------------------------------
(* Acceptance.                                                             *)

\* The transaction that accepts the message starts: created_at is now().
BeginEnqueue(m, l) ==
    /\ status[m] = "free"
    /\ l \in session \cup {NoLane}
    /\ status' = [status EXCEPT ![m] = "begun"]
    /\ conv' = [conv EXCEPT ![m] = l]
    /\ clock' = clock + 1
    /\ at' = [at EXCEPT ![m] = clock']
    /\ UNCHANGED <<stamp, bound, turns, guest, consumed, owner, gate, session,
                   reportVars, probes, claimedFor>>

\* No row is inserted: an equal message of the sender is pending already, the
\* session or agent refuses, or the transaction rolls back.
AbortEnqueue(m) ==
    /\ status[m] = "begun"
    /\ status' = [status EXCEPT ![m] = "dropped"]
    /\ UNCHANGED <<stamp, bound, turns, guest, consumed, owner, gate, rowVars,
                   reportVars, probes, claimedFor>>

\* insert_prepared_message and its commit.  The session is locked until the
\* commit; an agent that may not take new work refuses, as the gate does.
CommitEnqueue(m) ==
    /\ status[m] = "begun"
    /\ conv[m] \in session \cup {NoLane}
    /\ gate
    /\ status' = [status EXCEPT ![m] = "pending"]
    /\ UNCHANGED <<stamp, bound, turns, guest, consumed, owner, gate, rowVars,
                   reportVars, probes, claimedFor>>

-----------------------------------------------------------------------------
(* Claim: one transaction under the agent's row lock.  The captured agent  *)
(* record must still name the owner; a model that cannot be resolved or    *)
(* written rolls the claim back, which is the action not taken.            *)

Claim(m) ==
    /\ gate
    /\ IsLaneHead(m)
    /\ ~LaneBusy(m)
    /\ Deliver(m, owner, conv[m] \in session)
    /\ claimedFor' = [claimedFor EXCEPT ![m] = owner]
    /\ UNCHANGED <<guest, consumed, owner, gate, rowVars, reportVars, probes>>

-----------------------------------------------------------------------------
(* Settlement.                                                             *)

\* record_report for an ordinary row: complete() takes pending and delivered
\* rows alike; the answer goes to the chat once, unless it is empty or the
\* row has no conversation.
Record(m, by) ==
    /\ status' = [status EXCEPT ![m] = "completed"]
    /\ result' = [result EXCEPT ![m] = by]
    /\ answers' = [answers EXCEPT ![m] =
                      IF conv[m] # NoLane /\ by # "http_empty" THEN @ + 1 ELSE @]
    /\ intents' = IF m \in Relayed THEN intents \cup {m} ELSE intents
    /\ UNCHANGED <<stamp, bound, guest, consumed, owner, gate, rowVars, claimedFor>>

\* Mutants: the result is recorded whoever owns the agent now; whatever the
\* status of the row.
SettleForAnyOwner(t) ==
    /\ t.pc = "settle"
    /\ turns' = turns \ {t}
    /\ IF status[t.msg] = "delivered"
       THEN Record(t.msg, "native")
       ELSE UNCHANGED <<status, stamp, bound, guest, consumed, owner, gate, rowVars, reportVars, claimedFor>>
    /\ UNCHANGED probes
SettleAnyStatus(t) ==
    /\ t.pc = "settle"
    /\ turns' = turns \ {t}
    /\ IF owner = t.owner
       THEN Record(t.msg, "native")
       ELSE UNCHANGED <<status, stamp, bound, guest, consumed, owner, gate, rowVars, reportVars, claimedFor>>
    /\ UNCHANGED probes

\* settle_native_report, without a binding: a changed owner or a row that is
\* no longer delivered refuses the result, and the worker ends.
SettleNative(t) ==
    /\ t.pc = "settle"
    /\ turns' = turns \ {t}
    /\ IF owner = t.owner /\ status[t.msg] = "delivered"
       THEN Record(t.msg, "native")
       ELSE UNCHANGED <<status, stamp, bound, guest, consumed, owner, gate, rowVars, reportVars, claimedFor>>
    /\ UNCHANGED probes

\* Mutant: duplicate reports are recorded again.
ReportAgain(m, by) ==
    /\ status[m] \in {"pending", "delivered", "completed"}
    /\ Record(m, by)
    /\ UNCHANGED <<turns, probes>>

\* POST /gateway/report with the agent's key; a completed row is a duplicate
\* report and is ignored.
ReportHttp(m, by) ==
    /\ status[m] \in {"pending", "delivered"}
    /\ Record(m, by)
    /\ UNCHANGED <<turns, probes>>

\* Mutants: an accepted input passes for an interrupted one; the reconciler
\* leaves rows to the worker that claimed them.
ProbeAccepted(m) ==
    /\ status[m] = "delivered" /\ m \in bound
    /\ guest[m] \in {"accepted", "interrupted"}
    /\ probes' = probes \cup {[msg |-> m, owner |-> owner]}
    /\ UNCHANGED <<turnVars, rowVars, reportVars, claimedFor>>
ProbeWithWorker(m) ==
    /\ status[m] = "delivered" /\ m \in bound /\ guest[m] = "interrupted"
    /\ \E t \in turns : t.msg = m
    /\ probes' = probes \cup {[msg |-> m, owner |-> owner]}
    /\ UNCHANGED <<turnVars, rowVars, reportVars, claimedFor>>

\* The reconciler reads the row, its binding, the agent and the guest's
\* interruption record...
ProbeInterrupted(m) ==
    /\ status[m] = "delivered"
    /\ m \in bound
    /\ guest[m] = "interrupted"
    /\ probes' = probes \cup {[msg |-> m, owner |-> owner]}
    /\ UNCHANGED <<turnVars, rowVars, reportVars, claimedFor>>

\* ...and settles in a later transaction that checks owner, status and
\* binding again.
SettleInterrupted(p) ==
    /\ probes' = probes \ {p}
    /\ IF owner = p.owner /\ status[p.msg] = "delivered" /\ p.msg \in bound
       THEN Record(p.msg, "notice")
       ELSE UNCHANGED <<status, stamp, bound, guest, consumed, owner, gate, rowVars, reportVars, claimedFor>>
    /\ UNCHANGED turns

-----------------------------------------------------------------------------
(* Around the lane.                                                        *)

\* The relay acknowledges or terminates the delivery (ReportRelay).
RelayDone(m) ==
    /\ m \in intents
    /\ intents' = intents \ {m}
    /\ UNCHANGED <<turnVars, rowVars, result, answers, probes, claimedFor>>

\* delete_session: refused while a delivery is outstanding; the reply binding
\* of the session goes with it.
DeleteSession(l) ==
    /\ l \in session
    /\ ~ \E m \in Msg : conv[m] = l /\ m \in intents
    /\ session' = session \ {l}
    /\ bound' = {m \in bound : conv[m] # l}
    /\ UNCHANGED <<status, stamp, turns, guest, consumed, owner, gate, conv, at, clock,
                   reportVars, probes, claimedFor>>

Enqueue(m) ==
    \/ \E l \in Lane \cup {NoLane} : BeginEnqueue(m, l)
    \/ AbortEnqueue(m)
    \/ CommitEnqueue(m)

Next ==
    \/ \E m \in Msg :
          \/ Enqueue(m)
          \/ Claim(m)
          \/ \E by \in {"http", "http_empty"} : ReportHttp(m, by)
          \/ ProbeInterrupted(m)
          \/ RelayDone(m)
    \/ \E t \in turns : SettleNative(t)
    \/ \E p \in probes : SettleInterrupted(p)
    \/ \E l \in Lane : DeleteSession(l)
    \/ TurnNext /\ UNCHANGED <<rowVars, reportVars, probes, claimedFor>>

Spec == Init /\ [][Next]_vars

\* The reconciler scans every second and never stops, so a head that stays
\* claimable is claimed even when every wake was lost; workers, started
\* transactions and reconciler passes that are not lost go on.
TurnStepOf(m) == \E t \in turns : t.msg = m /\ TurnStep(t)

Fairness ==
    /\ \A m \in Msg :
          /\ SF_vars(Claim(m))
          /\ WF_vars(CommitEnqueue(m) \/ AbortEnqueue(m))
          /\ WF_vars(TurnStepOf(m) /\ UNCHANGED <<rowVars, reportVars, probes, claimedFor>>)
          /\ WF_vars(ProbeInterrupted(m))
    /\ WF_vars(\E t \in turns : SettleNative(t))
    /\ WF_vars(\E p \in probes : SettleInterrupted(p))

FairSpec == Spec /\ Fairness

-----------------------------------------------------------------------------
(* Safety.                                                                 *)

\* At most one turn of a conversation is in the guest's hands: the claim's
\* NOT EXISTS guards, under the agent lock, across any number of workers.
OneActivePerLane ==
    \A m, n \in Msg :
        SameLane(m, n) /\ status[m] = "delivered" /\ status[n] = "delivered" => m = n

\* First report wins: a completed row keeps its result and reporter, whatever
\* a late native answer, a second HTTP report or the reconciler still tries.
FirstReportWins ==
    [][\A m \in Msg : status[m] = "completed" =>
          /\ status'[m] = "completed"
          /\ result'[m] = result[m]
          /\ answers'[m] = answers[m]]_vars

\* The assistant's answer is in the chat exactly once when, and only when,
\* the row was completed with a text in a conversation.
AnsweredExactlyOnce ==
    \A m \in Msg : answers[m] =
        IF status[m] = "completed" /\ conv[m] # NoLane /\ result[m] # "http_empty" THEN 1 ELSE 0

\* "The agent was interrupted before it could start this request" is only
\* ever said of a request the agent did not start, and never will.
NoticeIsTrue ==
    \A m \in Msg : result[m] = "notice" => consumed[m] = 0 /\ guest[m] = "interrupted"

\* What a worker or the reconciler settles, it settles for the owner on whose
\* behalf the row was claimed: a transfer in between leaves the row alone.
SettledForClaimant ==
    [][\A m \in Msg : status[m] # "completed" /\ result'[m] \in {"native", "notice"} =>
          owner = claimedFor[m]]_vars

\* Claiming a row passes over no older pending row of the conversation that
\* is visible, and finds the conversation idle.
ClaimsTheHead ==
    [][\A m \in Msg : status[m] = "pending" /\ status'[m] = "delivered" =>
          \A n \in Msg \ {m} : SameLane(m, n) =>
              /\ status[n] # "delivered"
              /\ status[n] = "pending" => Older(m, n)]_vars

\* What the conversation sees: inputs run once, answers appear once, and
\* interruption notices are true, across releases, reports and transfers.
QueueSafety == ConsumedAtMostOnce /\ AnsweredExactlyOnce /\ NoticeIsTrue

\* What no step does to a row, however late: change a result, or settle it for
\* an owner it was not claimed for.
RowRules == FirstReportWins /\ SettledForClaimant

\* A row has a result exactly when it is completed.
ResultInv == \A m \in Msg : result[m] = NoResult <=> status[m] # "completed"

\* The evidence a probe or a notice rests on cannot go away: nobody sends the
\* request of an interrupted row again.
EvidenceInv ==
    /\ \A p \in probes : guest[p.msg] = "interrupted"
    /\ \A m \in Msg : result[m] = "notice" => guest[m] = "interrupted"

\* A worker carries the owner of its claim, and a binding is gone as soon as
\* the owner is.
ClaimantInv ==
    /\ \A t \in turns : t.owner = claimedFor[t.msg]
    /\ \A m \in bound : claimedFor[m] = owner

\* The inductive invariant behind every safety property of this module.
IInv ==
    /\ TypeOK
    /\ ClaimInv
    /\ OneActivePerLane
    /\ ResultInv
    /\ AnsweredExactlyOnce
    /\ EvidenceInv
    /\ ClaimantInv

-----------------------------------------------------------------------------
(* Refinement of TurnLane: a row without a conversation is a lane of its    *)
(* own, and a row is known once its transaction has committed.             *)

PhaseOf(m) == CASE status[m] = "pending" -> "waiting"
                [] status[m] = "delivered" -> "active"
                [] status[m] = "completed" -> "done"
                [] OTHER -> "none"

LaneOf(m) == IF conv[m] = NoLane THEN <<"row", m>> ELSE <<"conversation", conv[m]>>

PhaseMap == [m \in Msg |-> PhaseOf(m)]
LaneMap == [m \in Msg |-> LaneOf(m)]
LaneName == ({"row"} \X Msg) \cup ({"conversation"} \X Lane)

Abstract == INSTANCE TurnLane WITH
    Job <- Msg, Lane <- LaneName, phase <- PhaseMap, lane <- LaneMap, ran <- consumed

\* Every step of the ordinary queue is a step TurnLane allows, or none.
RefinesTurnLane == Abstract!Spec

-----------------------------------------------------------------------------
(* Liveness.                                                               *)

\* Accepted work is not forgotten: if the gate keeps opening, a pending row
\* is claimed or reported, or its conversation is occupied by a delivered
\* row, whatever wakes were lost.
PendingIsDispatched ==
    []<>gate => \A m \in Msg : status[m] = "pending" ~> (status[m] # "pending" \/ LaneBusy(m))

\* Exact interruption evidence on a bound row ends the wait of its lane.
InterruptedIsSettled ==
    \A m \in Msg : (status[m] = "delivered" /\ m \in bound /\ guest[m] = "interrupted")
                      ~> (status[m] = "completed" \/ m \notin bound)

\* The queue's progress: accepted work is dispatched, and a lane whose input
\* the guest lost does not wait for ever.
QueueProgress == PendingIsDispatched /\ InterruptedIsSettled

\* c4-dynamic-chat.md: ordinary claims "can be returned to pending or
\* reclaimed after the configured stale-delivery timeout".
StaleClaimIsReturned ==
    \A m \in Msg : status[m] = "delivered" ~> status[m] # "delivered"
=============================================================================
