---------------------------- MODULE PersonalLink ----------------------------
(***************************************************************************)
(* The Personal WhatsApp link of one agent: the connection row, the        *)
(* supervisor tasks that claim it, the connector child each of them runs,  *)
(* and the send journal through which the report relay's chunks leave.     *)
(*                                                                         *)
(* Timeouts (the 30 s lease, the child's own lease, the 20 s and 25 s send *)
(* limits, the pairing limit) may fire whenever they are armed.  The       *)
(* frames a child has written are a set: handlers of different frames      *)
(* commute and a repeated one changes nothing.  Any pending row may be     *)
(* dispatched next, the code takes the oldest.  WhatsApp is external.      *)
(***************************************************************************)
EXTENDS Naturals

CONSTANTS
    Cmd,        \* command ids: chunks the relay wants sent
    Token,      \* claim tokens, one per run of a child
    NoToken,    \* none of them
    MaxGen      \* bound: how often users and lifecycle change the link

VARIABLES
    state,      \* whatsapp_personal_connections.state; qr counts as pending
    desired,
    purge,      \* purge_requested
    gen,        \* generation
    epoch,      \* auth_epoch
    holder,     \* claim_token
    leased,     \* lease_until > now()
    auth,       \* epochs with rows in whatsapp_personal_auth
    parent,     \* supervisor task of each claim
    carried,    \* command it is about to write to the pipe
    seen,       \* generation and epoch in the record it claimed
    child,      \* the connector process
    inbox,      \* send frames the child has not read
    entry,      \* the child's entry of each command
    outbox,     \* frames the parent has not read
    wire,       \* messages handed to a socket that WhatsApp has not decided
    acks,       \* what WhatsApp told the child
    row,        \* whatsapp_personal_sends.state
    rowRoute,   \* generation and epoch of the row
    rowClaim,   \* claim_token of the row
    relay,      \* where the relay is with each chunk
    shown       \* how often the chunk was shown in the chat

linkVars == <<state, desired, purge, gen, epoch, holder, leased, auth>>
parentVars == <<parent, carried, seen>>
childVars == <<child, inbox, entry, outbox>>
waVars == <<wire, acks, shown>>
sendVars == <<row, rowRoute, rowClaim>>
vars == <<linkVars, parentVars, childVars, waVars, sendVars, relay>>

Route == Nat \X Nat
LinkState == {"pending", "connected", "reconnecting", "paused", "expired",
              "disconnecting", "disconnected", "failed"}
ParentState == {"none", "start", "tick", "authorize", "send", "stop", "reap", "after",
                "gone", "crashed"}
ChildState == {"none", "init", "online", "offline", "stopping", "exited"}
RowState == {"none", "pending", "dispatch_started", "accepted", "rejected", "uncertain", "cancelled"}
Outcome == {"accepted", "rejected", "uncertain"}
CloseReason == {"quiet", "transport_failed", "logged_out"}
Frame == [type : {"auth", "identity"}]
            \cup [type : {"result"}, cmd : Cmd, outcome : Outcome]
            \cup [type : {"closed"}, reason : CloseReason]

TypeOK ==
    /\ state \in LinkState
    /\ desired \in BOOLEAN /\ purge \in BOOLEAN /\ leased \in BOOLEAN
    /\ gen \in Nat /\ epoch \in Nat
    /\ holder \in Token \cup {NoToken}
    /\ auth \subseteq Nat
    /\ parent \in [Token -> ParentState]
    /\ carried \in [Token -> SUBSET Cmd]
    /\ seen \in [Token -> Route]
    /\ child \in [Token -> ChildState]
    /\ inbox \in [Token -> SUBSET Cmd]
    /\ entry \in [Token -> [Cmd -> {"none", "queued", "active"} \cup Outcome]]
    /\ outbox \in [Token -> SUBSET Frame]
    /\ wire \subseteq Token \X Cmd
    /\ acks \subseteq [token : Token, cmd : Cmd, accepted : BOOLEAN]
    /\ row \in [Cmd -> RowState]
    /\ rowRoute \in [Cmd -> Route]
    /\ rowClaim \in [Cmd -> Token \cup {NoToken}]
    /\ relay \in [Cmd -> {"none", "checked", "retry", "delivered", "failed"}]
    /\ shown \in [Cmd -> Nat]

Init ==
    /\ state = "disconnected" /\ desired = FALSE /\ purge = FALSE /\ leased = FALSE
    /\ gen = 0 /\ epoch = 0
    /\ holder = NoToken
    /\ auth = {}
    /\ parent = [t \in Token |-> "none"]
    /\ carried = [t \in Token |-> {}]
    /\ seen = [t \in Token |-> <<0, 0>>]
    /\ child = [t \in Token |-> "none"]
    /\ inbox = [t \in Token |-> {}]
    /\ entry = [t \in Token |-> [c \in Cmd |-> "none"]]
    /\ outbox = [t \in Token |-> {}]
    /\ wire = {} /\ acks = {}
    /\ row = [c \in Cmd |-> "none"]
    /\ rowRoute = [c \in Cmd |-> <<0, 0>>]
    /\ rowClaim = [c \in Cmd |-> NoToken]
    /\ relay = [c \in Cmd |-> "none"]
    /\ shown = [c \in Cmd |-> 0]

-----------------------------------------------------------------------------
(* The connection row.                                                     *)

\* renew and _fence: the claim is current, wanted and leased.
Fence(t) == holder = t /\ seen[t] = <<gen, epoch>> /\ desired /\ leased

\* route_matches, of the route pinned in the relay's target.
RouteLive(c) == rowRoute[c] = <<gen, epoch>> /\ desired /\ state = "connected"

\* revoke: every fence of the old generation closes in the transaction that
\* cancels its pending sends and deletes the credentials.
Revoke(p) ==
    /\ desired' = FALSE
    /\ gen' = gen + 1
    /\ purge' = (purge \/ p)
    /\ state' = IF holder # NoToken THEN "disconnecting" ELSE IF p THEN "disconnected" ELSE "paused"
    /\ row' = [c \in Cmd |-> IF row[c] = "pending" THEN "cancelled" ELSE row[c]]
    /\ auth' = IF p THEN {} ELSE auth
    /\ UNCHANGED <<epoch, holder, leased, rowRoute, rowClaim>>

\* start: without a claim a new generation, resuming the stored credentials
\* unless a relink or a purge was asked for.
Start(relink) ==
    /\ gen < MaxGen
    /\ holder = NoToken
    /\ gen' = gen + 1
    /\ state' = "pending" /\ desired' = TRUE /\ purge' = FALSE
    /\ IF ~relink /\ ~purge
       THEN UNCHANGED <<epoch, auth>>
       ELSE epoch' = epoch + 1 /\ auth' = {}
    /\ UNCHANGED <<holder, leased, parentVars, childVars, waVars, sendVars, relay>>

\* start with relink under a claim: revoked and wanted again, the child is
\* torn down first.
Relink ==
    /\ gen < MaxGen
    /\ holder # NoToken
    /\ desired' = TRUE
    /\ gen' = gen + 1
    /\ purge' = TRUE
    /\ state' = "disconnecting"
    /\ row' = [c \in Cmd |-> IF row[c] = "pending" THEN "cancelled" ELSE row[c]]
    /\ auth' = {}
    /\ UNCHANGED <<epoch, holder, leased, rowRoute, rowClaim, parentVars, childVars, waVars, relay>>

\* disconnect, and the revocations of a stopped, deleted, transferred or
\* expired agent.
UserRevoke(p) ==
    /\ gen < MaxGen
    /\ Revoke(p)
    /\ UNCHANGED <<parentVars, childVars, waVars, relay>>

\* status: an attempt to pair that ran out of time.
ExpirePairing ==
    /\ state = "pending" /\ gen < MaxGen
    /\ desired' = FALSE
    /\ gen' = gen + 1
    /\ purge' = TRUE
    /\ state' = IF holder = NoToken THEN "expired" ELSE "disconnecting"
    /\ row' = [c \in Cmd |-> IF row[c] = "pending" THEN "cancelled" ELSE row[c]]
    /\ auth' = {}
    /\ UNCHANGED <<epoch, holder, leased, rowRoute, rowClaim, parentVars, childVars, waVars, relay>>

\* lease_until passes while the parent does not renew.
LeaseExpires ==
    /\ holder # NoToken /\ leased
    /\ leased' = FALSE
    /\ UNCHANGED <<state, desired, purge, gen, epoch, holder, auth, parentVars, childVars, waVars,
                   sendVars, relay>>

-----------------------------------------------------------------------------
(* The supervisor task of a claim.                                         *)

\* What a process had in memory goes with it.
Forget(t) ==
    /\ inbox' = [inbox EXCEPT ![t] = {}]
    /\ entry' = [entry EXCEPT ![t] = [c \in Cmd |-> "none"]]

Running(t) == parent[t] \in {"tick", "authorize", "send"}
To(t, pc) == parent' = [parent EXCEPT ![t] = pc]

\* Mutant: an expired lease is taken over.
ClaimExpired(t) ==
    /\ parent[t] = "none"
    /\ desired
    /\ IF holder = NoToken THEN state \in {"pending", "paused", "reconnecting"} ELSE ~leased
    /\ holder' = t /\ leased' = TRUE
    /\ seen' = [seen EXCEPT ![t] = <<gen, epoch>>]
    /\ To(t, "start")
    /\ UNCHANGED <<state, desired, purge, gen, epoch, auth, carried, childVars, waVars, sendVars, relay>>

\* claim, with a fresh token.
Claim(t) ==
    /\ parent[t] = "none"
    /\ desired /\ holder = NoToken
    /\ state \in {"pending", "paused", "reconnecting"}
    /\ holder' = t /\ leased' = TRUE
    /\ seen' = [seen EXCEPT ![t] = <<gen, epoch>>]
    /\ To(t, "start")
    /\ UNCHANGED <<state, desired, purge, gen, epoch, auth, carried, childVars, waVars, sendVars, relay>>

\* run: the stored credentials are read under the fence, then the child is
\* spawned.
Spawn(t) ==
    /\ parent[t] = "start"
    /\ IF Fence(t)
       THEN To(t, "tick") /\ child' = [child EXCEPT ![t] = "init"]
       ELSE To(t, "stop") /\ UNCHANGED child
    /\ UNCHANGED <<linkVars, carried, seen, inbox, entry, outbox, waVars, sendVars, relay>>

\* tick, first transaction: renew and give up on sends without an answer.
Renew(t) ==
    /\ parent[t] = "tick"
    /\ Fence(t)
    /\ To(t, "authorize")
    /\ \E late \in SUBSET {c \in Cmd : row[c] = "dispatch_started" /\ rowClaim[c] = t} :
          row' = [c \in Cmd |-> IF c \in late THEN "uncertain" ELSE row[c]]
    /\ UNCHANGED <<linkVars, carried, seen, childVars, waVars, rowRoute, rowClaim, relay>>

RenewFails(t) ==
    /\ parent[t] = "tick"
    /\ ~Fence(t)
    /\ To(t, "stop")
    /\ UNCHANGED <<linkVars, carried, seen, childVars, waVars, sendVars, relay>>

\* tick on a stopped agent, or when the pairing has expired.
TickRevokes(t) ==
    /\ parent[t] = "tick"
    /\ gen < MaxGen
    /\ \/ Revoke(FALSE)
       \/ Fence(t) /\ state = "pending" /\ Revoke(TRUE)
    /\ To(t, "stop")
    /\ UNCHANGED <<carried, seen, childVars, waVars, relay>>

Dispatchable(c) == row[c] = "pending" /\ rowRoute[c] = <<gen, epoch>>

\* authorize_dispatch: the journal says started before anything is sent.
Authorize(t) ==
    /\ parent[t] = "authorize"
    /\ holder = t /\ desired /\ seen[t][1] = gen /\ state = "connected" /\ leased
    /\ \E c \in Cmd :
          /\ Dispatchable(c)
          /\ row' = [row EXCEPT ![c] = "dispatch_started"]
          /\ rowClaim' = [rowClaim EXCEPT ![c] = t]
          /\ carried' = [carried EXCEPT ![t] = {c}]
    /\ To(t, "send")
    /\ UNCHANGED <<linkVars, seen, childVars, waVars, rowRoute, relay>>

NothingToDispatch(t) ==
    /\ parent[t] = "authorize"
    /\ \/ ~(holder = t /\ desired /\ seen[t][1] = gen /\ state = "connected" /\ leased)
       \/ \A c \in Cmd : ~Dispatchable(c)
    /\ To(t, "tick")
    /\ UNCHANGED <<linkVars, carried, seen, childVars, waVars, sendVars, relay>>

\* The send frame goes into the pipe; a broken pipe ends the task.
WriteSend(t) ==
    /\ parent[t] = "send"
    /\ carried' = [carried EXCEPT ![t] = {}]
    /\ IF child[t] = "exited"
       THEN To(t, "stop") /\ UNCHANGED inbox
       ELSE To(t, "tick") /\ inbox' = [inbox EXCEPT ![t] = @ \cup carried[t]]
    /\ UNCHANGED <<linkVars, seen, child, entry, outbox, waVars, sendVars, relay>>

\* Mutant: the credentials are stored without the fence.
StoreAuthUnfenced(t, f) ==
    /\ f.type = "auth"
    /\ auth' = auth \cup {seen[t][2]}
    /\ UNCHANGED <<state, desired, purge, gen, epoch, holder, leased, parent, sendVars>>

\* handle_frame, SendResult.
RecordResult(t, f) ==
    /\ f.type = "result"
    /\ row' = IF row[f.cmd] = "dispatch_started" /\ rowClaim[f.cmd] = t
              THEN [row EXCEPT ![f.cmd] = f.outcome] ELSE row
    /\ UNCHANGED <<linkVars, parent, rowRoute, rowClaim>>

\* handle_frame, AuthSet and CredsSet: a lost fence ends the task.
StoreAuth(t, f) ==
    /\ f.type = "auth"
    /\ IF Fence(t)
       THEN auth' = auth \cup {seen[t][2]} /\ UNCHANGED parent
       ELSE To(t, "stop") /\ UNCHANGED auth
    /\ UNCHANGED <<state, desired, purge, gen, epoch, holder, leased, sendVars>>

\* bind_identity; a lost fence is answered with 409 and ignored.
BindIdentity(t, f) ==
    /\ f.type = "identity"
    /\ state' = IF Fence(t) THEN "connected" ELSE state
    /\ UNCHANGED <<desired, purge, gen, epoch, holder, leased, auth, parent, sendVars>>

\* revoke_current_claim, only for the generation the child was started in.
HandleClosed(t, f) ==
    /\ f.type = "closed"
    /\ To(t, "stop")
    /\ IF f.reason # "quiet" /\ holder = t /\ seen[t] = <<gen, epoch>>
       THEN Revoke(f.reason = "logged_out")
       ELSE UNCHANGED <<linkVars, sendVars>>

ReadFrame(t, f) ==
    /\ Running(t) /\ f \in outbox[t]
    /\ outbox' = [outbox EXCEPT ![t] = @ \ {f}]
    /\ RecordResult(t, f) \/ StoreAuth(t, f) \/ BindIdentity(t, f) \/ HandleClosed(t, f)
    /\ UNCHANGED <<carried, seen, child, inbox, entry, waVars, relay>>

\* End of stream, an exception of a handler, or cancellation: the task group
\* ends and frames not yet read are lost.
EndTask(t) ==
    /\ Running(t)
    /\ To(t, "stop")
    /\ UNCHANGED <<linkVars, carried, seen, childVars, waVars, sendVars, relay>>

\* stop: shutdown frame, wait, kill; the process is gone afterwards.
KillChild(t) ==
    /\ parent[t] = "stop"
    /\ To(t, "reap")
    /\ child' = [child EXCEPT ![t] = IF @ = "none" THEN @ ELSE "exited"]
    /\ Forget(t)
    /\ outbox' = [outbox EXCEPT ![t] = {}]
    /\ carried' = [carried EXCEPT ![t] = {}]
    /\ UNCHANGED <<linkVars, seen, waVars, sendVars, relay>>

\* Mutant: what was being sent goes back to pending.
ReapedRequeues(t) ==
    /\ parent[t] = "reap"
    /\ To(t, "after")
    /\ holder' = NoToken /\ leased' = FALSE /\ purge' = FALSE
    /\ state' = IF desired THEN (IF purge THEN "pending" ELSE "reconnecting")
                           ELSE IF purge THEN "disconnected" ELSE "paused"
    /\ epoch' = IF desired /\ purge THEN epoch + 1 ELSE epoch
    /\ row' = [c \in Cmd |-> IF row[c] = "dispatch_started" /\ rowClaim[c] = t THEN "pending" ELSE row[c]]
    /\ UNCHANGED <<desired, gen, auth, carried, seen, childVars, waVars, rowRoute, rowClaim, relay>>

\* Mutant: a claim whose lease has expired is not given back.
ReapedLeased(t) ==
    /\ parent[t] = "reap"
    /\ To(t, "after")
    /\ IF holder = t /\ leased
       THEN /\ holder' = NoToken /\ leased' = FALSE /\ purge' = FALSE
            /\ state' = IF desired THEN (IF purge THEN "pending" ELSE "reconnecting")
                                   ELSE IF purge THEN "disconnected" ELSE "paused"
            /\ epoch' = IF desired /\ purge THEN epoch + 1 ELSE epoch
            /\ row' = [c \in Cmd |-> IF row[c] = "dispatch_started" /\ rowClaim[c] = t
                                     THEN "uncertain" ELSE row[c]]
       ELSE UNCHANGED <<holder, leased, purge, state, epoch, row>>
    /\ UNCHANGED <<desired, gen, auth, carried, seen, childVars, waVars, rowRoute, rowClaim, relay>>

\* reaped: the claim ends, what it had started is uncertain, a queued relink
\* starts over with new credentials.
Reaped(t) ==
    /\ parent[t] = "reap"
    /\ To(t, "after")
    /\ IF holder = t
       THEN /\ holder' = NoToken /\ leased' = FALSE /\ purge' = FALSE
            /\ state' = IF desired THEN (IF purge THEN "pending" ELSE "reconnecting")
                                   ELSE IF purge THEN "disconnected" ELSE "paused"
            /\ epoch' = IF desired /\ purge THEN epoch + 1 ELSE epoch
            /\ row' = [c \in Cmd |-> IF row[c] = "dispatch_started" /\ rowClaim[c] = t
                                     THEN "uncertain" ELSE row[c]]
       ELSE UNCHANGED <<holder, leased, purge, state, epoch, row>>
    /\ UNCHANGED <<desired, gen, auth, carried, seen, childVars, waVars, rowRoute, rowClaim, relay>>

\* run_child after a failure: fail_connection, unless the link moved on.
FailConnection(t) ==
    /\ parent[t] = "after"
    /\ To(t, "gone")
    /\ IF holder = NoToken /\ seen[t] = <<gen, epoch>>
       THEN /\ desired' = FALSE /\ gen' = gen + 1 /\ purge' = TRUE /\ state' = "failed"
            /\ row' = [c \in Cmd |-> IF row[c] = "pending" THEN "cancelled" ELSE row[c]]
            /\ auth' = {}
       ELSE UNCHANGED <<desired, gen, purge, state, row, auth>>
    /\ UNCHANGED <<epoch, holder, leased, carried, seen, childVars, waVars, rowRoute, rowClaim, relay>>

\* run_child after a child that ended by itself.
EndRun(t) ==
    /\ parent[t] = "after"
    /\ To(t, "gone")
    /\ UNCHANGED <<linkVars, carried, seen, childVars, waVars, sendVars, relay>>

\* The engine process dies: nothing is reaped, the child finds out by its
\* standard input or its lease.
Crash(t) ==
    /\ parent[t] \notin {"none", "gone", "crashed"}
    /\ To(t, "crashed")
    /\ carried' = [carried EXCEPT ![t] = {}]
    /\ outbox' = [outbox EXCEPT ![t] = {}]
    /\ UNCHANGED <<linkVars, seen, child, inbox, entry, waVars, sendVars, relay>>

-----------------------------------------------------------------------------
(* The connector child (TypeScript).                                       *)

Up(t) == child[t] \in {"init", "online", "offline"}
Result(c, o) == [type |-> "result", cmd |-> c, outcome |-> o]
Open(t) == {c \in Cmd : entry[t][c] \in {"queued", "active"}}

\* A frame nobody reads any more is lost.
Emit(t, frames) == outbox' = [outbox EXCEPT ![t] = IF Running(t) THEN @ \cup frames ELSE @]

\* finish of a set of entries with one outcome, and the frames it emits.
Finish(t, cs, o) ==
    /\ entry' = [entry EXCEPT ![t] = [c \in Cmd |-> IF c \in cs THEN o ELSE @[c]]]
    /\ Emit(t, {Result(c, o) : c \in cs})

\* Credentials change: written through the parent.
ChildSaves(t) ==
    /\ Up(t)
    /\ Emit(t, {[type |-> "auth"]})
    /\ UNCHANGED <<linkVars, parentVars, child, inbox, entry, waVars, sendVars, relay>>

\* connection open.
ChildOpens(t) ==
    /\ child[t] \in {"init", "offline"}
    /\ child' = [child EXCEPT ![t] = "online"]
    /\ Emit(t, {[type |-> "identity"]})
    /\ UNCHANGED <<linkVars, parentVars, inbox, entry, waVars, sendVars, relay>>

\* connection close with a reason to reconnect: open sends end uncertain.
ChildCloses(t) ==
    /\ child[t] = "online"
    /\ child' = [child EXCEPT ![t] = "offline"]
    /\ Finish(t, Open(t), "uncertain")
    /\ UNCHANGED <<linkVars, parentVars, inbox, waVars, sendVars, relay>>

\* Runtime.stop: lease expired, end of input, shutdown, logged out, failure.
ChildStops(t) ==
    /\ Up(t)
    /\ child' = [child EXCEPT ![t] = "stopping"]
    /\ Finish(t, Open(t), "uncertain")
    /\ UNCHANGED <<linkVars, parentVars, inbox, waVars, sendVars, relay>>

ChildExits(t) ==
    /\ child[t] = "stopping"
    /\ child' = [child EXCEPT ![t] = "exited"]
    /\ \E r \in CloseReason : Emit(t, {[type |-> "closed", reason |-> r]})
    /\ Forget(t)
    /\ UNCHANGED <<linkVars, parentVars, waVars, sendVars, relay>>

\* Mutant: a send without a connection waits for the next one, reported
\* rejected all the same.
SubmitKeeps(t, c) ==
    /\ Up(t) /\ c \in inbox[t]
    /\ inbox' = [inbox EXCEPT ![t] = @ \ {c}]
    /\ entry' = [entry EXCEPT ![t][c] = "queued"]
    /\ Emit(t, IF child[t] = "online" THEN {} ELSE {Result(c, "rejected")})
    /\ UNCHANGED <<linkVars, parentVars, child, waVars, sendVars, relay>>

\* Sends.submit: without a connection the command is rejected and the child
\* stops, so that a replay can never be authorized later.
Submit(t, c) ==
    /\ Up(t) /\ c \in inbox[t]
    /\ inbox' = [inbox EXCEPT ![t] = @ \ {c}]
    /\ IF entry[t][c] # "none"
       THEN /\ Emit(t, IF entry[t][c] \in Outcome THEN {Result(c, entry[t][c])} ELSE {})
            /\ UNCHANGED <<child, entry>>
       ELSE IF child[t] = "online"
       THEN /\ entry' = [entry EXCEPT ![t][c] = "queued"]
            /\ UNCHANGED <<child, outbox>>
       ELSE /\ child' = [child EXCEPT ![t] = "stopping"]
            /\ entry' = [entry EXCEPT ![t] = [d \in Cmd |-> IF d \in Open(t) THEN "uncertain" ELSE @[d]]]
            /\ Emit(t, {Result(c, "rejected")} \cup {Result(d, "uncertain") : d \in Open(t)})
    /\ UNCHANGED <<linkVars, parentVars, waVars, sendVars, relay>>

\* Sends.dispatch after the credential barrier: handed to the socket.
Dispatch(t, c) ==
    /\ child[t] = "online"
    /\ entry[t][c] = "queued"
    /\ entry' = [entry EXCEPT ![t][c] = "active"]
    /\ wire' = wire \cup {<<t, c>>}
    /\ UNCHANGED <<linkVars, parentVars, child, inbox, outbox, acks, shown, sendVars, relay>>

\* The barrier failed before anything was handed over.
DispatchFails(t, c) ==
    /\ Up(t)
    /\ entry[t][c] = "queued"
    /\ Finish(t, {c}, "rejected")
    /\ UNCHANGED <<linkVars, parentVars, child, inbox, waVars, sendVars, relay>>

\* The 20 s timer, or a transport exception after the hand-over.
SendTimesOut(t, c) ==
    /\ Up(t)
    /\ c \in Open(t)
    /\ Finish(t, {c}, "uncertain")
    /\ UNCHANGED <<linkVars, parentVars, child, inbox, waVars, sendVars, relay>>

\* Sends.ack: for an active entry of this socket.
ReceiveAck(t, c) ==
    /\ \E a \in acks :
          /\ a.token = t /\ a.cmd = c
          /\ acks' = acks \ {a}
          /\ IF child[t] = "online" /\ entry[t][c] = "active"
             THEN Finish(t, {c}, IF a.accepted THEN "accepted" ELSE "rejected")
             ELSE UNCHANGED <<entry, outbox>>
    /\ UNCHANGED <<linkVars, parentVars, child, inbox, wire, shown, sendVars, relay>>

-----------------------------------------------------------------------------
(* WhatsApp, and the relay.                                                *)

\* A message handed over is shown or not, and answered or not; nobody waits
\* for the answer of a send the child gave up.
WhatsAppDecides(t, c) ==
    /\ <<t, c>> \in wire
    /\ wire' = wire \ {<<t, c>>}
    /\ \E showing, answering \in BOOLEAN :
          /\ shown' = [shown EXCEPT ![c] = IF showing THEN @ + 1 ELSE @]
          /\ acks' = IF answering /\ entry[t][c] = "active"
                     THEN acks \cup {[token |-> t, cmd |-> c, accepted |-> showing]} ELSE acks
    /\ UNCHANGED <<linkVars, parentVars, childVars, sendVars, relay>>

\* First planning: the route is pinned in the target.
PlanSend(c) ==
    /\ relay[c] = "none"
    /\ desired /\ state = "connected"
    /\ rowRoute' = [rowRoute EXCEPT ![c] = <<gen, epoch>>]
    /\ relay' = [relay EXCEPT ![c] = "checked"]
    /\ UNCHANGED <<linkVars, parentVars, childVars, waVars, row, rowClaim>>

\* configured_outbound of a later attempt, in an earlier transaction than the
\* journal's.
Recheck(c) ==
    /\ relay[c] = "retry"
    /\ relay' = [relay EXCEPT ![c] = IF RouteLive(c) THEN "checked" ELSE "failed"]
    /\ UNCHANGED <<linkVars, parentVars, childVars, waVars, sendVars>>

\* enqueue: insert once, then report what became of the row.
Enqueue(c) ==
    /\ relay[c] = "checked"
    /\ row' = [row EXCEPT ![c] = IF @ = "none" THEN "pending" ELSE @]
    /\ relay' = [relay EXCEPT ![c] = CASE row[c] = "accepted" -> "delivered"
                                       [] row[c] \in {"rejected", "uncertain", "cancelled"} -> "failed"
                                       [] OTHER -> "retry"]
    /\ UNCHANGED <<linkVars, parentVars, childVars, waVars, rowRoute, rowClaim>>

-----------------------------------------------------------------------------
LinkNext ==
    \/ \E b \in BOOLEAN : Start(b) \/ UserRevoke(b)
    \/ Relink \/ ExpirePairing \/ LeaseExpires

TaskStep(t) ==
    \/ Spawn(t) \/ Renew(t) \/ RenewFails(t) \/ Authorize(t) \/ NothingToDispatch(t)
    \/ WriteSend(t) \/ KillChild(t) \/ Reaped(t)

ParentNext(t) ==
    \/ Claim(t) \/ TaskStep(t) \/ TickRevokes(t) \/ EndTask(t)
    \/ FailConnection(t) \/ EndRun(t) \/ Crash(t)
    \/ \E f \in outbox[t] : ReadFrame(t, f)

ChildNext(t) ==
    \/ ChildSaves(t) \/ ChildOpens(t) \/ ChildCloses(t) \/ ChildStops(t) \/ ChildExits(t)
    \/ \E c \in Cmd : \/ Submit(t, c) \/ Dispatch(t, c) \/ DispatchFails(t, c)
                      \/ SendTimesOut(t, c) \/ ReceiveAck(t, c)

RelayStep(c) == Enqueue(c) \/ Recheck(c)

Next ==
    \/ LinkNext
    \/ \E t \in Token : ParentNext(t) \/ ChildNext(t)
    \/ \E t \in Token, c \in Cmd : WhatsAppDecides(t, c)
    \/ \E c \in Cmd : PlanSend(c) \/ RelayStep(c)

Spec == Init /\ [][Next]_vars

\* Tasks of a live engine make progress and read what their child writes; a
\* child reads its frames, and its timers fire; the relay retries for ever.
Fairness ==
    /\ \A t \in Token :
          /\ WF_vars(TaskStep(t))
          /\ WF_vars(ChildExits(t))
          /\ \A f \in Frame : f.type \in {"result", "closed"} => WF_vars(ReadFrame(t, f))
          /\ \A c \in Cmd : WF_vars(Submit(t, c)) /\ WF_vars(SendTimesOut(t, c))
    /\ \A c \in Cmd : WF_vars(RelayStep(c))

FairSpec == Spec /\ Fairness

-----------------------------------------------------------------------------
(* Properties.                                                             *)

\* A chunk is never shown twice, although its row outlives claims, relinks,
\* lost results and crashes between journal, pipe and socket.
ShownAtMostOnce == \A c \in Cmd : shown[c] <= 1

Underway(c) == \E t \in Token : c \in carried[t] \cup inbox[t] \cup Open(t) \/ <<t, c>> \in wire

\* The journal never lies to the relay: accepted means shown; rejected,
\* cancelled or still pending means it was not and will not be shown under
\* this outcome.
OutcomeIsTrue ==
    \A c \in Cmd :
        /\ row[c] = "accepted" => shown[c] = 1
        /\ row[c] \in {"rejected", "cancelled", "pending", "none"} => shown[c] = 0 /\ ~Underway(c)
        /\ relay[c] = "delivered" => shown[c] = 1

\* At most one child lives, and it is the claim's: an expired lease never
\* takes over a child that was not reaped.
OneChild == \A t \in Token : child[t] \notin {"none", "exited"} => holder = t

\* Credentials deleted by a revocation do not come back through a child that
\* is still being torn down, and none survive their epoch.
PurgedStaysPurged ==
    /\ purge => auth = {}
    /\ auth \subseteq {epoch}

\* The link's safety: what is sent, what is said about it, by whom, and with
\* which credentials.
LinkSafety == ShownAtMostOnce /\ OutcomeIsTrue /\ OneChild /\ PurgedStaysPurged

\* Where a chunk is on its way through one child, and what was said about it.
Ahead(t, c) == c \in carried[t] \cup inbox[t] \/ entry[t][c] = "queued" \/ <<t, c>> \in wire
Answered(t, c, b) == \E a \in acks : a.token = t /\ a.cmd = c /\ a.accepted = b
Told(t, c, o) == \E f \in outbox[t] : f.type = "result" /\ f.cmd = c /\ f.outcome = o

\* A chunk goes one way, from journal to pipe, entry and socket, under the one
\* claim its row names, and what is said about it stays true on the way back.
Way(t, c) ==
    /\ c \in carried[t] => c \notin inbox[t]
    /\ c \in carried[t] \cup inbox[t] => entry[t][c] = "none"
    /\ <<t, c>> \in wire => c \notin carried[t] \cup inbox[t] /\ entry[t][c] # "queued"
    /\ Ahead(t, c) => shown[c] = 0
    /\ Answered(t, c, TRUE) \/ Told(t, c, "accepted") => shown[c] = 1
    /\ Answered(t, c, FALSE) => shown[c] = 0 /\ ~Ahead(t, c)
    /\ Told(t, c, "rejected") => shown[c] = 0 /\ ~Underway(c)
    /\ \/ Ahead(t, c) \/ entry[t][c] # "none"
       \/ \E b \in BOOLEAN : Answered(t, c, b)
       \/ \E o \in Outcome : Told(t, c, o)
       => rowClaim[c] = t /\ row[c] \notin {"none", "pending", "cancelled"}

OneWay == \A t \in Token, c \in Cmd : Way(t, c)

\* A process is spawned after its claim and gone before it is given back; a
\* purge in force under a claim is of a later generation than the claim's.
ClaimHeld ==
    /\ \A t \in Token :
          /\ parent[t] \in {"none", "start"} => child[t] = "none"
          /\ parent[t] \in {"reap", "after", "gone"} => child[t] \in {"none", "exited"}
          /\ seen[t][1] <= gen
    /\ desired /\ purge => holder # NoToken /\ seen[holder][1] < gen

\* The inductive invariant behind LinkSafety.
LinkInv == TypeOK /\ LinkSafety /\ OneWay /\ ClaimHeld

\* What the journal and the relay say of a chunk, for ChunkSend.
Phase(c) ==
    CASE row[c] \in {"none", "pending"} -> "waiting"
      [] row[c] = "dispatch_started" -> "sending"
      [] row[c] = "accepted" -> "accepted"
      [] row[c] \in {"rejected", "cancelled"} -> "refused"
      [] row[c] = "uncertain" -> "unknown"
Heard(c) == IF relay[c] \in {"delivered", "failed"} THEN relay[c] ELSE "nothing"

Promise == INSTANCE ChunkSend WITH
    phase <- [c \in Cmd |-> Phase(c)], heard <- [c \in Cmd |-> Heard(c)]

\* Claims, children and sockets together keep the promise to the relay: each
\* of their steps shows, answers or gives up a chunk as ChunkSend allows.
RefinesChunkSend == Promise!Spec

\* Unless the engine crashes, every chunk the relay takes up ends delivered or
\* failed, and every claim is given back once the link is revoked.
RepliesSettle ==
    [](\A t \in Token : parent[t] # "crashed") =>
        /\ \A c \in Cmd : relay[c] = "checked" ~> relay[c] \in {"delivered", "failed"}
        /\ (state = "disconnecting") ~> (holder = NoToken)
=============================================================================
