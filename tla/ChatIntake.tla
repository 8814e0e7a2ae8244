------------------------------ MODULE ChatIntake ------------------------------
(* Acceptance of human turns: the chat socket with its resending browser, and
   the webhooks of the channels with their redelivering providers. Both charge
   the quota of one user; the chat and direct messages write to one session,
   the agent's Shared chat, messages of a group to the group's.

   A transaction is several steps. What it wrote becomes visible when it
   commits; until then it holds the rows it locked, and whoever needs one of
   them waits. Which locks a handler holds follows from its pc. *)
EXTENDS Naturals, Sequences, FiniteSets

CONSTANTS
    Web,          \* client_submission_ids
    Event,        \* native event keys
    Group,        \* those of a group, which has a session of its own
    Hook,         \* webhook requests that can be in progress at a time
    Body,         \* contents, up to their fingerprint
    NoBody,
    QuotaLimit,   \* users.quota_message_limit
    MaxSockets,   \* bound: sockets the browser opens
    MaxFaults,    \* bound: lost connections and engine crashes
    MaxPosts,     \* bound: deliveries by the provider
    MaxPeriods    \* bound: quota periods

VARIABLES
    envelope,     \* the browser's frozen payload of a submission
    order,        \* submissions in the order they were first sent
    line,         \* what the browser shows: draft, unknown, accepted, rejected
    socket,       \* number of the socket the browser uses
    link,         \* down, up, or stopped (closed with 4001 or 4003)
    inbox,        \* frames a socket's handler has still to read
    tx,           \* one record for each handler
    row,          \* chat_messages by submission id, receipts by event key
    queued,       \* gateway messages committed for a request
    paidIn,       \* period in which a request was charged, 0 when it was not
    used, period, elapsed,     \* the user's quota counter and its period
    admin,        \* the user is exempt from the quota
    acked,        \* events acknowledged to the provider as accepted
    posts, faults

vars == <<envelope, order, line, socket, link, inbox, tx, row, queued, paidIn,
          used, period, elapsed, admin, acked, posts, faults>>
browser == <<envelope, order, line, socket, link, inbox>>
quota == <<used, period, elapsed, admin>>
durable == <<row, queued, paidIn, used, period, elapsed>>

Socket == 1 .. MaxSockets
Handler == Socket \cup Hook
Request == Web \cup Event

Idle == [pc |-> "idle", req |-> "none", body |-> NoBody, out |-> "none"]

Place == [pc : {"idle", "receipt", "lock", "check", "reserve", "charge",
                "insert", "answer"},
          req : Request \cup {"none"}, body : Body \cup {NoBody},
          out : {"none", "accepted", "rejected", "stopped"}]

TypeOK ==
    /\ envelope \in [Web -> Body \cup {NoBody}]
    /\ line \in [Web -> {"draft", "unknown", "accepted", "rejected"}]
    /\ socket \in 0 .. MaxSockets
    /\ link \in {"down", "up", "stopped"}
    /\ tx \in [Handler -> Place]
    /\ row \in [Request -> Body \cup {NoBody}]
    /\ queued \in [Request -> Nat]
    /\ paidIn \in [Request -> 0 .. MaxPeriods]
    /\ order \in Seq(Web) /\ inbox \in [Socket -> Seq(Web \X Body)]
    /\ used \in Nat /\ period \in 1 .. MaxPeriods

Init ==
    /\ envelope = [r \in Web |-> NoBody]
    /\ order = <<>>
    /\ line = [r \in Web |-> "draft"]
    /\ socket = 0 /\ link = "down"
    /\ inbox = [s \in Socket |-> <<>>]
    /\ tx = [h \in Handler |-> Idle]
    /\ row = [r \in Request |-> NoBody]
    /\ queued = [r \in Request |-> 0]
    /\ paidIn = [r \in Request |-> 0]
    /\ used = 0 /\ period = 1 /\ elapsed = FALSE
    /\ admin \in BOOLEAN
    /\ acked = {} /\ posts = 0 /\ faults = 0

-----------------------------------------------------------------------------
(* The browser. *)

\* Mutant: a retry sends whatever the composer holds.
FrozenEdited(r, b) == b

\* submit: the first payload sent under an id is frozen, so that a retry with
\* an edited text still sends the text the id stands for.
Frozen(r, b) == IF envelope[r] = NoBody THEN b ELSE envelope[r]

Submit(r, b) ==
    /\ link # "stopped" /\ line[r] \in {"draft", "rejected"}
    /\ envelope' = [envelope EXCEPT ![r] = Frozen(r, b)]
    /\ order' = IF envelope[r] = NoBody THEN Append(order, r) ELSE order
    /\ line' = [line EXCEPT ![r] = "unknown"]
    /\ inbox' = IF link = "up"
                THEN [inbox EXCEPT ![socket] = Append(@, <<r, Frozen(r, b)>>)]
                ELSE inbox
    /\ UNCHANGED <<socket, link, tx, durable, admin, acked, posts, faults>>

\* Mutant: nothing is sent again.
PendingNone == <<>>

\* pending: what is sent again when a socket opens, in the order it was first
\* sent.
Pending ==
    LET unknown[i \in 0 .. Len(order)] ==
            IF i = 0 THEN <<>>
            ELSE IF line[order[i]] = "unknown" THEN Append(unknown[i - 1], order[i])
            ELSE unknown[i - 1]
    IN  unknown[Len(order)]

Open ==
    /\ link = "down" /\ socket < MaxSockets
    /\ link' = "up" /\ socket' = socket + 1
    /\ inbox' = [inbox EXCEPT ![socket + 1] =
          [i \in DOMAIN Pending |-> <<Pending[i], envelope[Pending[i]]>>]]
    /\ UNCHANGED <<envelope, order, line, tx, durable, admin, acked, posts,
                   faults>>

\* A lost connection. The handler goes on with the frames it already has; the
\* browser ignores what it answers.
Drop ==
    /\ link = "up" /\ faults < MaxFaults
    /\ link' = "down" /\ faults' = faults + 1
    /\ \E n \in 0 .. Len(inbox[socket]) :
          inbox' = [inbox EXCEPT ![socket] = SubSeq(@, 1, n)]
    /\ UNCHANGED <<envelope, order, line, socket, tx, durable, admin, acked, posts>>

\* onReconnect reads the history again: rows with a submission id settle it.
Reconcile(r) ==
    /\ link = "up" /\ socket > 1 /\ row[r] # NoBody
    /\ line[r] # "accepted" /\ line' = [line EXCEPT ![r] = "accepted"]
    /\ UNCHANGED <<envelope, order, socket, link, inbox, tx, durable, admin, acked,
                   posts, faults>>

-----------------------------------------------------------------------------
(* The engine. *)

HoldsSession(h) ==
    tx[h].pc \in (IF h \in Hook THEN {"charge", "insert"}
                  ELSE {"check", "reserve", "charge", "insert"})
HoldsKey(h, r) ==
    /\ tx[h].req = r
    /\ tx[h].pc \in (IF h \in Hook THEN {"lock", "charge", "insert"}
                     ELSE {"charge", "insert"})
HoldsUser(h) == tx[h].pc = "insert" /\ ~admin

SameSession(r, q) == (r \in Group) = (q \in Group)
SessionFree(h) ==
    \A g \in Handler \ {h} :
        SameSession(tx[g].req, tx[h].req) => ~HoldsSession(g)
KeyFree(h) == \A g \in Handler \ {h} : ~HoldsKey(g, tx[h].req)
UserFree(h) == \A g \in Handler \ {h} : ~HoldsUser(g)

Goto(h, pc) == tx' = [tx EXCEPT ![h].pc = pc]

\* The end of a transaction, committed or rolled back, with its answer.
End(h, out) == tx' = [tx EXCEPT ![h].pc = "answer", ![h].out = out]

\* message_loop: one frame at a time, authorized anew.
Take(s) ==
    /\ tx[s].pc = "idle" /\ inbox[s] # <<>>
    /\ inbox' = [inbox EXCEPT ![s] = Tail(@)]
    /\ \E out \in {"none", "stopped"} :
          tx' = [tx EXCEPT ![s] =
                   [pc |-> IF out = "none" THEN "lock" ELSE "answer",
                    req |-> Head(inbox[s])[1], body |-> Head(inbox[s])[2],
                    out |-> out]]
    /\ UNCHANGED <<envelope, order, line, socket, link, durable, admin, acked, posts,
                   faults>>

\* A webhook request: an event for the first time or once more, perhaps with
\* another content (_authorize may refuse it).
Post(h, e, b) ==
    /\ tx[h].pc = "idle" /\ posts < MaxPosts
    /\ posts' = posts + 1
    /\ \E out \in {"none", "rejected"} :
          tx' = [tx EXCEPT ![h] =
                   [pc |-> IF out = "none" THEN "receipt" ELSE "answer",
                    req |-> e, body |-> b, out |-> out]]
    /\ UNCHANGED <<browser, durable, admin, acked, faults>>

\* _replay and _matching: what an earlier acceptance of the same key answers.
Replay(h) == IF row[tx[h].req] = tx[h].body THEN "accepted" ELSE "rejected"

\* Mutant: the receipt is looked up, not reserved.
ReserveReceiptLater(h) ==
    /\ h \in Hook /\ tx[h].pc = "receipt"
    /\ IF row[tx[h].req] = NoBody THEN Goto(h, "lock") ELSE End(h, Replay(h))
    /\ UNCHANGED <<browser, durable, admin, acked, posts, faults>>

\* channel_event_receipt_dao.reserve: inserts, or waits for a transaction that
\* inserted the key and then finds its receipt.
ReserveReceipt(h) ==
    /\ h \in Hook /\ tx[h].pc = "receipt" /\ KeyFree(h)
    /\ IF row[tx[h].req] = NoBody THEN Goto(h, "lock") ELSE End(h, Replay(h))
    /\ UNCHANGED <<browser, durable, admin, acked, posts, faults>>

\* lock_for_agent, and find_submission under it.
LockSession(h) ==
    /\ tx[h].pc = "lock" /\ SessionFree(h)
    /\ IF h \in Hook THEN Goto(h, "charge")
       ELSE IF row[tx[h].req] # NoBody THEN End(h, Replay(h))
       ELSE Goto(h, "check")
    /\ UNCHANGED <<browser, durable, admin, acked, posts, faults>>

\* Writable session, attachments, expiry, prepare_openclaw_message.
Check(s) ==
    /\ tx[s].pc = "check" /\ Goto(s, "reserve")
    /\ UNCHANGED <<browser, durable, admin, acked, posts, faults>>

\* reserve_submission: insert or, on conflict, find what is there.
Reserve(s) ==
    /\ tx[s].pc = "reserve" /\ KeyFree(s)
    /\ IF row[tx[s].req] = NoBody THEN Goto(s, "charge") ELSE End(s, Replay(s))
    /\ UNCHANGED <<browser, durable, admin, acked, posts, faults>>

\* charge_message_quota: one UPDATE, which waits for the user's row and then
\* sees what was committed; an elapsed period counts from zero.
Spent == IF elapsed THEN 0 ELSE used

\* Mutant: the limit is compared with a value read without the row's lock.
ChargeUnlocked(h) ==
    /\ tx[h].pc = "charge"
    /\ IF admin \/ Spent < QuotaLimit THEN Goto(h, "insert")
       ELSE End(h, "rejected")
    /\ UNCHANGED <<browser, durable, admin, acked, posts, faults>>

Charge(h) ==
    /\ tx[h].pc = "charge"
    /\ IF admin THEN Goto(h, "insert")
       ELSE /\ UserFree(h)
            /\ IF Spent < QuotaLimit THEN Goto(h, "insert")
               ELSE End(h, "rejected")
    /\ UNCHANGED <<browser, durable, admin, acked, posts, faults>>

\* Mutant: the counter is not reset with the period.
EffectsKeepUsed(h) ==
    LET r == tx[h].req
        now == IF elapsed THEN period + 1 ELSE period
    IN  /\ row' = [row EXCEPT ![r] = tx[h].body]
        /\ queued' = [queued EXCEPT ![r] = @ + 1]
        /\ IF admin THEN UNCHANGED <<paidIn, used, period, elapsed>>
           ELSE /\ paidIn' = [paidIn EXCEPT ![r] = now]
                /\ used' = used + 1 /\ period' = now /\ elapsed' = FALSE

\* What a commit makes visible, all at once: transcript row or receipt, charge,
\* gateway message.
Effects(h) ==
    LET r == tx[h].req
        now == IF elapsed THEN period + 1 ELSE period
    IN  /\ row' = [row EXCEPT ![r] = tx[h].body]
        /\ queued' = [queued EXCEPT ![r] = @ + 1]
        /\ IF admin THEN UNCHANGED <<paidIn, used, period, elapsed>>
           ELSE /\ paidIn' = [paidIn EXCEPT ![r] = now]
                /\ used' = Spent + 1 /\ period' = now /\ elapsed' = FALSE

\* enqueue_prepared_openclaw_message and the commit. A commit that took effect
\* may still raise: the turn is then answered as not sent.
Commit(h, out) ==
    /\ tx[h].pc = "insert" /\ Effects(h) /\ End(h, out)
    /\ UNCHANGED <<browser, admin, acked, posts, faults>>

\* A refusal or failure anywhere in the transaction: everything is rolled back.
Fail(h, out) ==
    /\ tx[h].pc \in {"receipt", "lock", "check", "reserve", "charge", "insert"}
    /\ End(h, out)
    /\ UNCHANGED <<browser, durable, admin, acked, posts, faults>>

\* The answer on the handler's socket; a refusal by status closes the socket
\* for good.
Answer(s) ==
    LET r == tx[s].req
        heard == link = "up" /\ s = socket
    IN  /\ tx[s].pc = "answer" /\ tx' = [tx EXCEPT ![s] = Idle]
        /\ line' = IF heard /\ tx[s].out # "stopped" /\ line[r] # "accepted"
                   THEN [line EXCEPT ![r] = tx[s].out] ELSE line
        /\ link' = IF heard /\ tx[s].out = "stopped" THEN "stopped" ELSE link
        /\ inbox' = IF tx[s].out = "stopped" THEN [inbox EXCEPT ![s] = <<>>]
                    ELSE inbox
        /\ UNCHANGED <<envelope, order, socket, durable, admin, acked, posts,
                       faults>>

\* The webhook's response. Policy refusals are acknowledged too; a failure is
\* answered with 503 and the provider may deliver again.
Respond(h) ==
    /\ tx[h].pc = "answer" /\ tx' = [tx EXCEPT ![h] = Idle]
    /\ acked' = IF tx[h].out = "accepted" THEN acked \cup {tx[h].req} ELSE acked
    /\ UNCHANGED <<browser, durable, admin, posts, faults>>

\* The process dies: open transactions roll back, sockets close.
Crash ==
    /\ faults < MaxFaults /\ faults' = faults + 1
    /\ tx' = [h \in Handler |-> Idle]
    /\ inbox' = [s \in Socket |-> <<>>]
    /\ link' = IF link = "up" THEN "down" ELSE link
    /\ UNCHANGED <<envelope, order, line, socket, durable, admin, acked, posts>>

PeriodElapses ==
    /\ ~elapsed /\ period < MaxPeriods /\ elapsed' = TRUE
    /\ \A h \in Handler : ~HoldsUser(h)
    /\ UNCHANGED <<browser, tx, row, queued, paidIn, used, period, admin,
                   acked, posts, faults>>

Work(h) ==
    \/ ReserveReceipt(h) \/ LockSession(h) \/ Charge(h) \/ Commit(h, "accepted")

Next ==
    \/ \E r \in Web : (\E b \in Body : Submit(r, b)) \/ Reconcile(r)
    \/ Open \/ Drop \/ Crash \/ PeriodElapses
    \/ \E s \in Socket : Take(s) \/ Check(s) \/ Reserve(s) \/ Answer(s)
    \/ \E h \in Hook, e \in Event, b \in Body : Post(h, e, b)
    \/ \E h \in Hook : Respond(h)
    \/ \E h \in Handler : Work(h) \/ Commit(h, "rejected")
                          \/ Fail(h, "rejected")
    \/ \E s \in Socket : Fail(s, "stopped")

Spec == Init /\ [][Next]_vars

\* A row lock is granted once it stays free, handlers run, and the browser
\* reopens its socket while a submission is unsettled.
Fairness ==
    /\ WF_vars(Open /\ Pending # <<>>)
    /\ \A s \in Socket :
          WF_vars(Take(s)) /\ WF_vars(Check(s)) /\ WF_vars(Reserve(s))
          /\ WF_vars(Answer(s))
    /\ \A h \in Hook : WF_vars(ReserveReceipt(h)) /\ WF_vars(Respond(h))
    /\ \A h \in Handler :
          WF_vars(LockSession(h)) /\ WF_vars(Charge(h))
          /\ WF_vars(Commit(h, "accepted"))

FairSpec == Spec /\ Fairness

-----------------------------------------------------------------------------
(* Properties. *)

\* A request, however often it is resent or redelivered, on however many
\* sockets, is queued once and paid once exactly when its row is committed.
EachOnce ==
    \A r \in Request :
        /\ queued[r] = IF row[r] = NoBody THEN 0 ELSE 1
        /\ (paidIn[r] # 0) <=> (row[r] # NoBody /\ ~admin)

\* The counter is the number of turns accepted in the current period and never
\* exceeds the limit, whoever else is charging the same user.
QuotaIsExact ==
    /\ used = Cardinality({r \in Request : paidIn[r] = period})
    /\ used <= QuotaLimit

\* What the browser shows as accepted is the committed turn with that very
\* content, and an acknowledged event has its receipt.
AcknowledgedIsDurable ==
    /\ \A r \in Web :
          line[r] = "accepted" => row[r] = envelope[r] /\ row[r] # NoBody
    /\ \A e \in acked : row[e] # NoBody

\* Acceptance of a turn (accept_submission, accept_channel_event) is one
\* decision: row, charge and gateway message together, once for each request,
\* within the quota, and told to the browser or provider only when committed.
IntakeSafety == EachOnce /\ QuotaIsExact /\ AcknowledgedIsDurable

\* What travels is the frozen payload: the frames on a socket, the turn its
\* handler works on, and the row it left.
Frame == {<<r, envelope[r]>> : r \in {q \in Web : envelope[q] # NoBody}}
FrozenTravels ==
    /\ inbox \in [Socket -> Seq(Frame)]
    /\ \A s \in Socket : tx[s].pc # "idle" => <<tx[s].req, tx[s].body>> \in Frame
    /\ \A h \in Hook : tx[h].pc # "idle" => tx[h].req \in Event /\ tx[h].body \in Body
    /\ \A r \in Web :
          /\ line[r] # "draft" => envelope[r] # NoBody
          /\ row[r] # NoBody => row[r] = envelope[r]

\* Who may still commit a request is alone with it, and it has no row yet; who
\* holds the user's row is alone with it, and the limit is not reached. An
\* answer tells what is committed, and nobody has paid for a later period.
LocksHold ==
    /\ \A g, h \in Handler : \A r \in Request :
          HoldsKey(g, r) /\ HoldsKey(h, r) => g = h /\ row[r] = NoBody
    /\ \A g, h \in Handler :
          HoldsUser(g) /\ HoldsUser(h) => g = h /\ Spent < QuotaLimit
    /\ \A h \in Handler : tx[h].pc = "answer" =>
          tx[h].out # "none" /\ (tx[h].out = "accepted" => row[tx[h].req] # NoBody)
    /\ \A r \in Request : paidIn[r] <= period
    /\ elapsed \in BOOLEAN /\ (elapsed => period < MaxPeriods)
    /\ admin \in BOOLEAN /\ acked \subseteq Event

\* The inductive invariant behind IntakeSafety.
IntakeInv == TypeOK /\ IntakeSafety /\ FrozenTravels /\ LocksHold

\* A turn the browser has sent ends as accepted or rejected, although sockets
\* drop and the engine may crash, unless the engine closes the chat for good.
TurnsSettle ==
    \A r \in Web :
        line[r] = "unknown"
            ~> (line[r] \in {"accepted", "rejected"} \/ link = "stopped")
=============================================================================
