----------------------------- MODULE SharedLane -----------------------------
(***************************************************************************)
(* The Shared conversation of one agent: a single FIFO lane that web       *)
(* messages ("stored" rows) and bursts of Personal WhatsApp originals      *)
(* enter.  A burst is an anchor row with a batch header; originals join it *)
(* while it is the pending tail of the lane and not yet due, it is sealed  *)
(* when due and claimed as one turn.                                       *)
(*                                                                         *)
(* The Shared chat session's row lock serializes acceptance, claiming,     *)
(* settlement and cancellation; release_delivery alone does not take it.   *)
(* A claim transaction works through up to MaxPasses cancelled heads while *)
(* it holds that lock: pass counts them, 0 means the lock is free.         *)
(***************************************************************************)
EXTENDS NativeTurn, Sequences, FiniteSetsExt

CONSTANTS
    Orig,           \* native events of the Personal connection
    Quiet,          \* WHATSAPP_PERSONAL_BURST_QUIET_SECONDS
    Window,         \* WHATSAPP_PERSONAL_BURST_MAX_SECONDS
    PendingMax,     \* WHATSAPP_PERSONAL_BURST_PENDING_COUNT
    BatchMax,       \* WHATSAPP_PERSONAL_BURST_BODY_BYTES, in originals
    MaxPasses,      \* _MAX_PASSES of the claim transaction
    MaxGen          \* bound: how often the route is revoked

ASSUME LimitAssumption ==
    /\ {Quiet, Window, PendingMax, BatchMax, MaxPasses} \subseteq Nat \ {0}
    /\ MaxGen \in Nat

VARIABLES
    at,         \* gateway_messages.created_at
    kind,       \* how the row entered the lane: stored, or burst (a batch's anchor)
    batch,      \* personal_burst_batches.state; none without a header
    members,    \* personal_burst_inputs of the batch, by ordinal
    frozen,     \* personal_burst_batches.frozen_body
    ready,      \* ready_at - now, 0 once it is due
    window,     \* first_at + Window - now
    scope,      \* pinned fences of the batch: route generation and owner
    gen,        \* generation of the current connection
    conn,       \* state of the connection; disconnected also when not desired
    linkOwner,  \* owner_id of the connection
    receipt,    \* what became of each native event
    since,      \* tail of the lane when the original was accepted
    result,     \* gateway_messages.result, by who reported it
    intents,    \* rows with an outstanding reply intent
    probes,     \* delivered rows the reconciler has just read evidence for
    pass        \* passes of the claim transaction that holds the lane lock

burstVars == <<batch, members, frozen, ready, window, scope>>
routeVars == <<gen, conn, linkOwner>>
intakeVars == <<at, kind, receipt, since>>
vars == <<turnVars, burstVars, routeVars, intakeVars, result, intents, probes, pass>>

NoResult == "none"
BatchState == {"none", "pending", "sealed", "claimed", "completed", "cancelled"}
Scope == [gen : 0..MaxGen, owner : Owner]

TypeOK ==
    /\ TurnTypeOK
    /\ at \in [Msg -> Nat]
    /\ kind \in [Msg -> {"stored", "burst"}]
    /\ batch \in [Msg -> BatchState]
    /\ members \in [Msg -> Seq(Orig)]
    /\ frozen \in [Msg -> Seq(Orig)]
    /\ ready \in [Msg -> Nat]
    /\ window \in [Msg -> Nat]
    /\ scope \in [Msg -> Scope]
    /\ gen \in 0..MaxGen
    /\ conn \in {"connected", "reconnecting", "disconnected"}
    /\ linkOwner \in Owner
    /\ receipt \in [Orig -> {"new", "accepted", "rejected"}]
    /\ since \in [Orig -> Nat]
    /\ result \in [Msg -> {NoResult, "answer", "notice", "cancelled"}]
    /\ intents \subseteq Msg
    /\ probes \subseteq [msg : Msg, owner : Owner]
    /\ pass \in 0..MaxPasses

Init ==
    /\ TurnInit
    /\ at = [m \in Msg |-> 0]
    /\ kind = [m \in Msg |-> "stored"]
    /\ batch = [m \in Msg |-> "none"]
    /\ members = [m \in Msg |-> <<>>]
    /\ frozen = [m \in Msg |-> <<>>]
    /\ ready = [m \in Msg |-> 0]
    /\ window = [m \in Msg |-> 0]
    /\ scope = [m \in Msg |-> [gen |-> 0, owner |-> owner]]
    /\ gen = 0
    /\ conn = "connected"
    /\ linkOwner = owner
    /\ receipt = [o \in Orig |-> "new"]
    /\ since = [o \in Orig |-> 0]
    /\ result = [m \in Msg |-> NoResult]
    /\ intents = {}
    /\ probes = {}
    /\ pass = 0

-----------------------------------------------------------------------------
(* The lane.  A cancelled row loses its conversation and leaves it.        *)

InLane(m) == status[m] # "free" /\ result[m] # "cancelled"
Pending(m) == status[m] = "pending"
\* Mutant: the claim does not look for a delivered row.
NeverBusy == FALSE

LaneBusy == \E m \in Msg : status[m] = "delivered"

\* Mutants: the lane has no order.
AnyPending(m) == Pending(m)

IsHead(m) == Pending(m) /\ \A p \in Msg : Pending(p) => at[m] <= at[p]
IsTail(m) == Pending(m) /\ \A p \in Msg : Pending(p) => at[p] <= at[m]

\* Mutant: the tail is looked for among pending rows only.
PendingTailAt == Max({0} \cup {at[m] : m \in {n \in Msg : Pending(n)}})

\* Newest created_at of the lane, whatever the status of its row.
TailAt == Max({0} \cup {at[m] : m \in {n \in Msg : InLane(n)}})

Due(m) == batch[m] = "pending" => ready[m] = 0

\* Mutant: only a missing connection makes a batch stale.
Unlinked(m) == batch[m] # "none" /\ conn = "disconnected"

\* stale_reason: ownership_lost, disconnected or route_stale.
Stale(m) ==
    /\ batch[m] # "none"
    /\ \/ scope[m] # [gen |-> gen, owner |-> owner]
       \/ linkOwner # owner
       \/ conn = "disconnected"

Joined(o, m) == \E i \in DOMAIN members[m] : members[m][i] = o

\* pending_usage: originals of unclaimed batches.
Waiting == {o \in Orig : \E m \in Msg : batch[m] \in {"pending", "sealed"} /\ Joined(o, m)}

Lesser(a, b) == IF a < b THEN a ELSE b

-----------------------------------------------------------------------------
(* Acceptance.  Every insert takes the lane lock first and lands strictly  *)
(* after the tail (next_created_at; the wall clock can only add to it).    *)

\* A web or other channel message, insert_prepared_message.
EnqueueStored(m) ==
    /\ pass = 0
    /\ gate
    /\ status[m] = "free"
    /\ status' = [status EXCEPT ![m] = "pending"]
    /\ at' = [at EXCEPT ![m] = TailAt + 1]
    /\ UNCHANGED <<stamp, bound, turns, guest, consumed, owner, gate, kind, receipt, since,
                   burstVars, routeVars, result, intents, probes, pass>>

\* accept_channel_event up to the reserved receipt: the source is the live
\* connection, of the agent's owner.  A replayed event finds its receipt and
\* changes nothing.
MayAdmit(o) ==
    /\ pass = 0
    /\ gate
    /\ receipt[o] = "new"
    /\ conn = "connected"
    /\ linkOwner = owner

\* Mutant: a sealed batch takes further originals.
CanAppendSealed(m) ==
    /\ IsTail(m)
    /\ batch[m] \in {"pending", "sealed"}
    /\ scope[m] = [gen |-> gen, owner |-> owner]
    /\ Len(members[m]) < BatchMax

\* append_member: the pending tail of the lane is an equal-scope batch that is
\* not due and has room.
CanAppend(m) ==
    /\ IsTail(m)
    /\ batch[m] = "pending"
    /\ ready[m] > 0
    /\ scope[m] = [gen |-> gen, owner |-> owner]
    /\ Len(members[m]) < BatchMax

\* Mutant: the receipt is not kept.
AcceptWithoutReceipt(o) ==
    /\ receipt' = receipt
    /\ since' = [since EXCEPT ![o] = TailAt]

Accept(o) ==
    /\ receipt' = [receipt EXCEPT ![o] = "accepted"]
    /\ since' = [since EXCEPT ![o] = TailAt]

\* Mutants: the pending cap counts for new batches only; each original extends
\* the burst by a full quiet period.
AppendOverCap(o, m) ==
    /\ MayAdmit(o)
    /\ CanAppend(m)
    /\ Accept(o)
    /\ members' = [members EXCEPT ![m] = Append(@, o)]
    /\ ready' = [ready EXCEPT ![m] = Lesser(window[m], Quiet)]
    /\ UNCHANGED <<turnVars, batch, frozen, window, scope, routeVars, at, kind,
                   result, intents, probes, pass>>
AppendExtends(o, m) ==
    /\ MayAdmit(o)
    /\ Cardinality(Waiting) < PendingMax
    /\ CanAppend(m)
    /\ Accept(o)
    /\ members' = [members EXCEPT ![m] = Append(@, o)]
    /\ ready' = [ready EXCEPT ![m] = Quiet]
    /\ UNCHANGED <<turnVars, batch, frozen, window, scope, routeVars, at, kind,
                   result, intents, probes, pass>>

AppendMember(o, m) ==
    /\ MayAdmit(o)
    /\ Cardinality(Waiting) < PendingMax
    /\ CanAppend(m)
    /\ Accept(o)
    /\ members' = [members EXCEPT ![m] = Append(@, o)]
    /\ ready' = [ready EXCEPT ![m] = Lesser(window[m], Quiet)]
    /\ UNCHANGED <<turnVars, batch, frozen, window, scope, routeVars, at, kind,
                   result, intents, probes, pass>>

\* create_burst_anchor and create_batch, with the reply intent pinned.
CreateBatch(o, m) ==
    /\ MayAdmit(o)
    /\ Cardinality(Waiting) < PendingMax
    /\ ~ \E t \in Msg : CanAppend(t)
    /\ status[m] = "free"
    /\ Accept(o)
    /\ status' = [status EXCEPT ![m] = "pending"]
    /\ at' = [at EXCEPT ![m] = TailAt + 1]
    /\ kind' = [kind EXCEPT ![m] = "burst"]
    /\ batch' = [batch EXCEPT ![m] = "pending"]
    /\ members' = [members EXCEPT ![m] = <<o>>]
    /\ ready' = [ready EXCEPT ![m] = Lesser(Quiet, Window)]
    /\ window' = [window EXCEPT ![m] = Window]
    /\ scope' = [scope EXCEPT ![m] = [gen |-> gen, owner |-> owner]]
    /\ intents' = intents \cup {m}
    /\ UNCHANGED <<stamp, bound, turns, guest, consumed, owner, gate, frozen, routeVars,
                   result, probes, pass>>

\* reject_personal_original: capacity, quota or an oversized text (the last
\* two can always happen); the outcome is as durable as an acceptance.
RejectOriginal(o) ==
    /\ MayAdmit(o)
    /\ receipt' = [receipt EXCEPT ![o] = "rejected"]
    /\ UNCHANGED <<turnVars, burstVars, routeVars, at, kind, since, result, intents, probes, pass>>

\* One unit of time for the batches that collect.
Tick ==
    /\ \E m \in Msg : batch[m] = "pending" /\ window[m] > 0
    /\ ready' = [m \in Msg |-> IF batch[m] = "pending" /\ ready[m] > 0 THEN ready[m] - 1 ELSE ready[m]]
    /\ window' = [m \in Msg |-> IF batch[m] = "pending" /\ window[m] > 0 THEN window[m] - 1 ELSE window[m]]
    /\ UNCHANGED <<turnVars, batch, members, frozen, scope, routeVars, intakeVars,
                   result, intents, probes, pass>>

-----------------------------------------------------------------------------
(* Claim.  One transaction: passes over the head under the lane lock.      *)

\* The unlocked peek finds a head that may be ready; scope, gate and lane
\* lock are taken in that order.
StartClaim ==
    /\ pass = 0
    /\ gate
    /\ ~LaneBusy
    /\ \E h \in Msg : IsHead(h) /\ Due(h)
    /\ pass' = 1
    /\ UNCHANGED <<turnVars, burstVars, routeVars, intakeVars, result, intents, probes>>

\* Empty or busy lane, head not due, connection between two sockets, model or
\* guest configuration unavailable: the transaction ends without a claim.  A
\* batch that was sealed on the way stays sealed.
EndClaim ==
    /\ pass > 0
    /\ pass' = 0
    /\ \/ UNCHANGED <<batch, frozen>>
       \/ \E h \in Msg :
             /\ IsHead(h) /\ ~LaneBusy /\ ~Stale(h) /\ conn = "connected"
             /\ batch[h] = "pending" /\ Due(h)
             /\ batch' = [batch EXCEPT ![h] = "sealed"]
             /\ frozen' = [frozen EXCEPT ![h] = members[h]]
    /\ UNCHANGED <<turnVars, members, ready, window, scope, routeVars, intakeVars,
                   result, intents, probes>>

\* Mutant: the reply intent survives the cancellation.
CancelKeepsIntents(ms) ==
    /\ status' = [m \in Msg |-> IF m \in ms THEN "completed" ELSE status[m]]
    /\ result' = [m \in Msg |-> IF m \in ms THEN "cancelled" ELSE result[m]]
    /\ UNCHANGED intents

\* A cancelled row is completed with the fixed result, leaves the lane, and
\* loses its undelivered reply intent.
CancelRows(ms) ==
    /\ status' = [m \in Msg |-> IF m \in ms THEN "completed" ELSE status[m]]
    /\ result' = [m \in Msg |-> IF m \in ms THEN "cancelled" ELSE result[m]]
    /\ intents' = intents \ ms

\* Mutants: passes are not counted against MaxPasses; a batch that was claimed
\* before is never stale.
CancelUncounted(h) ==
    /\ pass > 0
    /\ IsHead(h) /\ ~LaneBusy /\ kind[h] = "burst" /\ Due(h) /\ Stale(h)
    /\ CancelRows({h})
    /\ batch' = [batch EXCEPT ![h] = IF @ = "claimed" THEN "completed" ELSE "cancelled"]
    /\ pass' = pass + 1
    /\ UNCHANGED <<stamp, bound, turns, guest, consumed, owner, gate, members, frozen, ready,
                   window, scope, routeVars, intakeVars, probes>>
CancelUnclaimed(h) ==
    /\ pass > 0
    /\ IsHead(h) /\ ~LaneBusy /\ batch[h] \in {"pending", "sealed"} /\ Due(h) /\ Stale(h)
    /\ CancelRows({h})
    /\ batch' = [batch EXCEPT ![h] = "cancelled"]
    /\ pass' = IF pass < MaxPasses THEN pass + 1 ELSE 0
    /\ UNCHANGED <<stamp, bound, turns, guest, consumed, owner, gate, members, frozen, ready,
                   window, scope, routeVars, intakeVars, probes>>

\* A head is cancelled: an unclaimed batch ends cancelled, one that was claimed
\* before ends completed, and the next pass looks at the new head.
DropHead(h) ==
    /\ CancelRows({h})
    /\ batch' = [batch EXCEPT ![h] = CASE @ \in {"pending", "sealed"} -> "cancelled"
                                       [] @ = "claimed" -> "completed"
                                       [] OTHER -> @]
    /\ pass' = IF pass < MaxPasses THEN pass + 1 ELSE 0
    /\ UNCHANGED <<stamp, bound, turns, guest, consumed, owner, gate, members, frozen, ready,
                   window, scope, routeVars, intakeVars, probes>>

\* The head's batch is stale or already finished.
CancelHead(h) ==
    /\ pass > 0
    /\ IsHead(h) /\ ~LaneBusy
    /\ kind[h] = "burst"
    /\ \/ batch[h] \in {"none", "completed", "cancelled"}
       \/ Due(h) /\ Stale(h)
    /\ DropHead(h)

\* authorize_lane was refused (tenant inactive, principal gone, ownership
\* changing): a due batch is cancelled whatever its scope.
CancelRefused(h) ==
    /\ pass > 0
    /\ IsHead(h) /\ ~LaneBusy
    /\ batch[h] \in {"pending", "sealed", "claimed"}
    /\ Due(h)
    /\ DropHead(h)

\* _claim_stored: a stored row, or a batch that was claimed and released.
ClaimStored(h) ==
    /\ pass > 0
    /\ IsHead(h) /\ ~LaneBusy
    /\ \/ kind[h] = "stored"
       \/ batch[h] = "claimed" /\ ~Stale(h) /\ conn = "connected"
    /\ Deliver(h, owner, TRUE)
    /\ pass' = 0
    /\ UNCHANGED <<guest, consumed, owner, gate, burstVars, routeVars, intakeVars,
                   result, intents, probes>>

\* Mutant: the batch of a delivered anchor is left sealed.
ClaimWithoutMark(h) ==
    /\ pass > 0
    /\ IsHead(h) /\ ~LaneBusy
    /\ batch[h] \in {"pending", "sealed"} /\ Due(h)
    /\ ~Stale(h) /\ conn = "connected"
    /\ frozen' = [frozen EXCEPT ![h] = members[h]]
    /\ batch' = [batch EXCEPT ![h] = "sealed"]
    /\ Deliver(h, owner, TRUE)
    /\ pass' = 0
    /\ UNCHANGED <<guest, consumed, owner, gate, members, ready, window, scope, routeVars,
                   intakeVars, result, intents, probes>>

\* seal and _claim_joined: the body is frozen, the row delivered and the batch
\* claimed in the same transaction.
ClaimBatch(h) ==
    /\ pass > 0
    /\ IsHead(h) /\ ~LaneBusy
    /\ batch[h] \in {"pending", "sealed"} /\ Due(h)
    /\ ~Stale(h) /\ conn = "connected"
    /\ frozen' = [frozen EXCEPT ![h] = IF batch[h] = "sealed" THEN @ ELSE members[h]]
    /\ batch' = [batch EXCEPT ![h] = "claimed"]
    /\ Deliver(h, owner, TRUE)
    /\ pass' = 0
    /\ UNCHANGED <<guest, consumed, owner, gate, members, ready, window, scope, routeVars,
                   intakeVars, result, intents, probes>>

-----------------------------------------------------------------------------
(* Settlement: record_report under the lane lock, delivered rows only.     *)

Record(m, by) ==
    /\ status' = [status EXCEPT ![m] = "completed"]
    /\ result' = [result EXCEPT ![m] = by]
    /\ batch' = [batch EXCEPT ![m] = IF @ = "claimed" THEN "completed" ELSE @]
    /\ UNCHANGED <<stamp, bound, guest, consumed, owner, gate, members, frozen, ready, window,
                   scope, routeVars, intakeVars, intents, pass>>

Refused == UNCHANGED <<status, stamp, bound, guest, consumed, owner, gate, burstVars, routeVars,
                       intakeVars, result, intents, pass>>

SettleNative(t) ==
    /\ pass = 0
    /\ t.pc = "settle"
    /\ turns' = turns \ {t}
    /\ IF owner = t.owner /\ status[t.msg] = "delivered" THEN Record(t.msg, "answer") ELSE Refused
    /\ UNCHANGED probes

\* Mutant: a completed row takes a report.
ReportAgain(m) ==
    /\ pass = 0
    /\ status[m] \in {"delivered", "completed"}
    /\ Record(m, "answer")
    /\ UNCHANGED <<turns, probes>>

ReportHttp(m) ==
    /\ pass = 0
    /\ status[m] = "delivered"
    /\ Record(m, "answer")
    /\ UNCHANGED <<turns, probes>>

ProbeInterrupted(m) ==
    /\ status[m] = "delivered" /\ m \in bound /\ guest[m] = "interrupted"
    /\ probes' = probes \cup {[msg |-> m, owner |-> owner]}
    /\ UNCHANGED <<turnVars, burstVars, routeVars, intakeVars, result, intents, pass>>

SettleInterrupted(p) ==
    /\ pass = 0
    /\ probes' = probes \ {p}
    /\ IF owner = p.owner /\ status[p.msg] = "delivered" /\ p.msg \in bound
       THEN Record(p.msg, "notice") ELSE Refused
    /\ UNCHANGED turns

\* The relay ends the delivery of a completed row's reply (ReportRelay).
RelayDone(m) ==
    /\ m \in intents /\ status[m] = "completed"
    /\ intents' = intents \ {m}
    /\ UNCHANGED <<turnVars, burstVars, routeVars, intakeVars, result, probes, pass>>

-----------------------------------------------------------------------------
(* The Personal connection.                                                *)

\* revoke: new generation, not desired, and every unclaimed batch of the lane
\* is cancelled in the same transaction (cancel_open_for_agent).
Revoke ==
    /\ pass = 0
    /\ gen < MaxGen
    /\ gen' = gen + 1
    /\ conn' = "disconnected"
    /\ LET open == {m \in Msg : batch[m] \in {"pending", "sealed"}} IN
          /\ CancelRows(open)
          /\ batch' = [m \in Msg |-> IF m \in open THEN "cancelled" ELSE batch[m]]
    /\ UNCHANGED <<stamp, bound, turns, guest, consumed, owner, gate, members, frozen, ready,
                   window, scope, linkOwner, intakeVars, probes, pass>>

\* The owner links an account, or the child comes back after a restart.
Connect ==
    /\ conn # "connected"
    /\ conn' = "connected"
    /\ linkOwner' = IF conn = "disconnected" THEN owner ELSE linkOwner
    /\ UNCHANGED <<turnVars, burstVars, gen, intakeVars, result, intents, probes, pass>>

LoseSocket ==
    /\ conn = "connected"
    /\ conn' = "reconnecting"
    /\ UNCHANGED <<turnVars, burstVars, gen, linkOwner, intakeVars, result, intents, probes, pass>>

\* Scope locks of a claim transaction keep the owner until it ends.
Around ==
    /\ TurnNext
    /\ owner' # owner => pass = 0
    /\ UNCHANGED <<burstVars, routeVars, intakeVars, result, intents, probes, pass>>

Intake ==
    \/ \E m \in Msg : EnqueueStored(m)
    \/ \E o \in Orig : \E m \in Msg : AppendMember(o, m) \/ CreateBatch(o, m)
    \/ \E o \in Orig : RejectOriginal(o)
    \/ Tick

ClaimNext == 
    \/ StartClaim
    \/ EndClaim
    \/ \E h \in Msg : CancelHead(h) \/ CancelRefused(h) \/ ClaimStored(h) \/ ClaimBatch(h)

Settlement ==
    \/ \E t \in turns : SettleNative(t)
    \/ \E m \in Msg : ReportHttp(m) \/ ProbeInterrupted(m) \/ RelayDone(m)
    \/ \E p \in probes : SettleInterrupted(p)

Next ==
    \/ Intake
    \/ ClaimNext
    \/ Settlement
    \/ Revoke \/ Connect \/ LoseSocket
    \/ Around

Spec == Init /\ [][Next]_vars

\* Time passes; the reconciler retries a due head every second, so a claim
\* that keeps being possible is made; a transaction that holds the lock ends.
Fairness ==
    /\ WF_vars(Tick)
    /\ WF_vars(StartClaim)
    /\ WF_vars(EndClaim)
    /\ SF_vars(\E h \in Msg : CancelHead(h) \/ ClaimStored(h) \/ ClaimBatch(h))

FairSpec == Spec /\ Fairness

-----------------------------------------------------------------------------
(* Safety.                                                                 *)

\* One active turn per agent in the Shared lane, although rows are released
\* without the lane lock.
OneActive == \A m, n \in Msg : status[m] = "delivered" /\ status[n] = "delivered" => m = n

\* Strict FIFO: while a turn is with the guest no older row of the lane is
\* waiting, not even one that was released or one whose burst is not due.
NoOlderWaits ==
    \A m, n \in Msg : status[m] = "delivered" /\ Pending(n) => at[m] < at[n]

\* A batch header and its anchor row never disagree, across seal, claim,
\* release, settlement and both kinds of cancellation.
BatchFollowsRow ==
    \A m \in Msg :
        /\ (kind[m] = "burst") <=> (batch[m] # "none")
        /\ batch[m] \in {"pending", "sealed"} => Pending(m)
        /\ batch[m] = "claimed" => status[m] \in {"pending", "delivered"}
        /\ batch[m] = "completed" => status[m] = "completed"
        /\ (batch[m] = "cancelled") => result[m] = "cancelled"
        /\ status[m] = "delivered" /\ kind[m] = "burst" => batch[m] = "claimed"

\* The body a turn runs with holds every original accepted into it and is
\* never added to after it was frozen: an original is never acknowledged and
\* then left out.
FrozenIsComplete ==
    \A m \in Msg : batch[m] \in {"sealed", "claimed", "completed"} => frozen[m] = members[m]

\* Where an original is: a batch and a position in it.
Places(o) ==
    {p \in Msg \X (1..BatchMax) : p[2] \in DOMAIN members[p[1]] /\ members[p[1]][p[2]] = o}

\* Each accepted original is in exactly one batch, once; a rejected one in none.
AcceptedOnce ==
    \A o \in Orig : Cardinality(Places(o)) = IF receipt[o] = "accepted" THEN 1 ELSE 0

\* Originals waiting for their first dispatch stay under the cap.
WaitingIsBounded == Cardinality(Waiting) <= PendingMax

\* A burst is due at the latest when its collection window closes, however
\* late its last original came.
DueByWindow == \A m \in Msg : batch[m] = "pending" => ready[m] <= window[m]

\* No overtaking: a row that was in the lane when an original was accepted,
\* and still waits, is never behind the original's batch.
NoOvertaking ==
    \A o \in Orig : \A m, r \in Msg :
        Joined(o, m) /\ Pending(m) /\ Pending(r) /\ at[r] <= since[o] => at[r] <= at[m]

\* The lane's order: no turn runs while an older row waits, and no original
\* jumps ahead of a row that was there before it.
LaneOrder == NoOlderWaits /\ NoOvertaking

\* A burst and its row stay one thing: states agree, bodies are complete, every
\* original is in one of them, and neither the cap nor the window is exceeded.
BurstIntegrity ==
    /\ BatchFollowsRow
    /\ FrozenIsComplete
    /\ AcceptedOnce
    /\ WaitingIsBounded
    /\ DueByWindow

\* A cancelled burst is never answered: it reaches neither the guest again nor
\* the relay.
CancelledIsSilent ==
    \A m \in Msg : result[m] = "cancelled" =>
        /\ m \notin intents
        /\ consumed[m] = 0
        /\ status[m] = "completed"

\* Work of one owner's connection is not dispatched after the agent or the
\* connection moved on: a claim of a burst happens under the scope it was
\* accepted in.
ClaimedInScope ==
    [][\A m \in Msg : batch[m] # "none" /\ status[m] = "pending" /\ status'[m] = "delivered" =>
          scope[m] = [gen |-> gen, owner |-> owner] /\ linkOwner = owner]_vars

\* A result, once there, stays: late answers, reports, notices and
\* cancellations leave a completed row and its frozen body alone.
FirstReportWins ==
    [][\A m \in Msg : 
          /\ status[m] = "completed" => status'[m] = "completed" /\ result'[m] = result[m]
          /\ frozen[m] # <<>> => frozen'[m] = frozen[m]]_vars

\* What no step does to a burst: claim it out of its scope, or change it once
\* it is frozen or done.
BurstRules == ClaimedInScope /\ FirstReportWins

-----------------------------------------------------------------------------
(* The inductive invariant behind these properties.                        *)

\* Rows of the lane have different created_at, all up to the tail's...
DistinctAt == \A m, n \in Msg : InLane(m) /\ InLane(n) /\ at[m] = at[n] => m = n

TailIsLast ==
    /\ TailAt = 0 \/ \E m \in Msg : InLane(m) /\ at[m] = TailAt
    /\ \A m \in Msg : InLane(m) => at[m] <= TailAt

\* ...and were answered in that order.
DoneIsOlder ==
    \A m, n \in Msg :
        InLane(m) /\ status[m] = "completed" /\ status[n] \in {"pending", "delivered"}
            => at[m] < at[n]

\* A row is in the lane from its insert on.
Committed == \A m \in Msg : status[m] \in {"free", "pending", "delivered", "completed"}

\* Exactly the completed rows have a result.
ResultInv == \A m \in Msg : result[m] = NoResult <=> status[m] # "completed"

\* Nobody works on a cancelled row, and the guest cannot run it any more.
CancelledInv ==
    \A m \in Msg : result[m] = "cancelled" =>
        m \notin intents /\ Unadmitted(m) /\ \A t \in turns : t.msg # m

OrderInv ==
    /\ OneActive /\ NoOlderWaits
    /\ DistinctAt /\ TailIsLast /\ DoneIsOlder
    /\ Committed /\ ResultInv /\ CancelledInv

\* A body is frozen when its batch is sealed, not before.
FrozenLate == \A m \in Msg : batch[m] \in {"none", "pending"} => frozen[m] = <<>>

BatchInv == BatchFollowsRow /\ FrozenIsComplete /\ FrozenLate /\ DueByWindow

\* A member is an accepted original, has one place, and was accepted when the
\* tail of the lane was no later than its row.
MemberInv ==
    /\ \A m \in Msg : Len(members[m]) <= BatchMax
    /\ \A m \in Msg : batch[m] = "none" => members[m] = <<>>
    /\ \A o \in Orig : receipt[o] = "accepted" <=> \E m \in Msg : Joined(o, m)
    /\ \A m, n \in Msg : \A i \in DOMAIN members[m], j \in DOMAIN members[n] :
          members[m][i] = members[n][j] => m = n /\ i = j
    /\ \A o \in Orig, m \in Msg : Joined(o, m) => since[o] <= at[m]

IInv ==
    /\ TypeOK
    /\ ClaimInv
    /\ OrderInv
    /\ BatchInv
    /\ MemberInv
    /\ IsFiniteSet(Waiting) /\ WaitingIsBounded

-----------------------------------------------------------------------------
(* Liveness.                                                               *)

\* Nothing in the lane waits for ever behind an idle guest: if the gate stays
\* open and the connection ends up linked or unlinked, a waiting row is
\* claimed or cancelled, or another row is with the guest.  A burst that
\* collects becomes due, and a stale head does not block the lane.
WaitingMovesOn ==
    <>[]gate /\ <>[](conn # "reconnecting") =>
        \A m \in Msg : Pending(m) ~> (~Pending(m) \/ LaneBusy)

-----------------------------------------------------------------------------
(* Refinement of TurnLane: the lane is one.                                *)

PhaseOf(m) == CASE Pending(m) -> "waiting"
                [] status[m] = "delivered" -> "active"
                [] status[m] = "completed" -> "done"
                [] OTHER -> "none"

PhaseMap == [m \in Msg |-> PhaseOf(m)]
LaneMap == [m \in Msg |-> "shared"]

Abstract == INSTANCE TurnLane WITH
    Job <- Msg, Lane <- {"shared"}, phase <- PhaseMap, lane <- LaneMap, ran <- consumed

\* Every step of the Shared lane is a step TurnLane allows, or none.
RefinesTurnLane == Abstract!Spec
=============================================================================
