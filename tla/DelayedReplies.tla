---------------------------- MODULE DelayedReplies ----------------------------
(* What a guest says on its own, after or beside the turns it was given, is    *)
(* recovered from its transcript: the loops of openclaw_delayed_replies walk   *)
(* the reply bindings, read new rows of each binding's session, record the     *)
(* replies in the chat and then publish them to the open browsers.             *)
(*                                                                             *)
(* A binding is the authorization epoch of a session: it goes with a change of *)
(* owner and with the chat's deletion, and a later claim makes a new one, with *)
(* a guest session of its own.  An agent has one bound session here, and a     *)
(* loop in its process memory only what it needs to skip idle transcripts.     *)
EXTENDS Naturals, Sequences, FiniteSets

CONSTANTS
    Proc,       \* processes that run the loop
    Agents,     \* bound: agents are 1 .. Agents, in the order of their ids
    Page,       \* AGENT_PAGE
    Rows,       \* PAGE_SIZE of a transcript
    Receipts,   \* RECEIPT_PAGE
    MaxRow,     \* bound: rows of a transcript
    MaxEpoch,   \* bound: bindings an agent gets
    Kinds,      \* bound: what rows are written
    Verdicts    \* bound: what _authorized may say

Agent == 1 .. Agents
Binding == Agent \X (1 .. MaxEpoch)
Seq_ == 1 .. MaxRow

VARIABLES
    live,       \* epoch of the agent's binding, 0 without one
    born,       \* epochs used
    allowed,    \* what _authorized says of the agent, the binding aside
    log,        \* the guest's transcript, by what its rows are
    file,       \* rows whose media file exists
    cursor,     \* openclaw_reply_bindings.cursor
    waiting,    \* receipts with pending_text, by checked_at
    chat,       \* the reply's chat message: 0 none, 1 text, 2 with its file
    flag,       \* receipts with publish_pending
    told,       \* the version last sent to the browsers
    cleared,    \* epochs whose chat was deleted
    idle,       \* _idle: no, fresh, or old once the backstop is due
    after,      \* _after
    proc        \* where a loop is

durable == <<cursor, waiting, chat, flag>>
guest == <<log, file>>
epochs == <<live, born, allowed, cleared>>
vars == <<durable, guest, epochs, told, idle, after, proc>>

\* text, media and file are terminal answers of runs that are no gateway rows:
\* text alone, with a file, a file alone.  Any other row, a gateway row's answer
\* among them, is native.
Kind == {"text", "media", "file", "native"}
Verdict == {"yes", "no", "expired"}
Resting == [pc |-> "scan", todo |-> <<>>, full |-> FALSE, same |-> FALSE, rows |-> {}, pubs |-> {}]
Snap == [b : Binding, from : 0 .. MaxRow, media : BOOLEAN, pubs : SUBSET Seq_]
Loop == [pc : {"scan", "open", "read", "record", "publish"}, todo : Seq(Snap),
         full : BOOLEAN, same : BOOLEAN, rows : SUBSET Seq_, pubs : SUBSET Seq_]

TypeOK ==
    /\ live \in [Agent -> 0 .. MaxEpoch] /\ born \in [Agent -> 0 .. MaxEpoch]
    /\ allowed \in [Agent -> Verdict] /\ cleared \subseteq Binding
    /\ log \in [Binding -> Seq(Kind)] /\ file \in [Binding -> SUBSET Seq_]
    /\ cursor \in [Binding -> 0 .. MaxRow]
    /\ waiting \in [Binding -> Seq(Seq_)] /\ flag \in [Binding -> SUBSET Seq_]
    /\ chat \in [Binding -> [Seq_ -> 0 .. 2]] /\ told \in [Binding -> [Seq_ -> 0 .. 2]]
    /\ idle \in [Proc -> [Binding -> {"no", "fresh", "old"}]]
    /\ after \in [Proc -> 0 .. Agents]
    /\ proc \in [Proc -> Loop]

Init ==
    /\ live = [a \in Agent |-> 0] /\ born = [a \in Agent |-> 0]
    /\ allowed = [a \in Agent |-> "yes"] /\ cleared = {}
    /\ log = [b \in Binding |-> <<>>] /\ file = [b \in Binding |-> {}]
    /\ cursor = [b \in Binding |-> 0]
    /\ waiting = [b \in Binding |-> <<>>] /\ flag = [b \in Binding |-> {}]
    /\ chat = [b \in Binding |-> [n \in Seq_ |-> 0]]
    /\ told = [b \in Binding |-> [n \in Seq_ |-> 0]]
    /\ idle = [p \in Proc |-> [b \in Binding |-> "no"]]
    /\ after = [p \in Proc |-> 0]
    /\ proc = [p \in Proc |-> Resting]

-----------------------------------------------------------------------------
(* One loop. *)

\* The k-th of a finite set of numbers, and all of them in order.
Nth(S, k) == CHOOSE n \in S : Cardinality({m \in S : m <= n}) = k
InOrder(S) == [k \in 1 .. Cardinality(S) |-> Nth(S, k)]

IsLive(b) == live[b[1]] = b[2]
Here(p) == Head(proc[p].todo)

Snapshot(a) ==
    LET b == <<a, live[a]>> IN
    [b |-> b, from |-> cursor[b], media |-> waiting[b] # <<>>, pubs |-> flag[b]]

\* page: the bindings of the next agents, with what they have pending.
NextAgents(p) ==
    LET bound == {a \in Agent : a > after[p] /\ live[a] # 0}
    IN  {a \in bound : Cardinality({c \in bound : c <= a}) <= Page}

ReadPage(p) ==
    LET as == NextAgents(p)
    IN  /\ proc[p].pc = "scan"
        /\ IF as = {}
           THEN after' = [after EXCEPT ![p] = 0] /\ UNCHANGED proc
           ELSE /\ proc' = [proc EXCEPT ![p] =
                      [Resting EXCEPT !.pc = "open", !.full = Cardinality(as) = Page,
                         !.todo = [k \in 1 .. Cardinality(as) |-> Snapshot(Nth(as, k))]]]
                /\ UNCHANGED after
        /\ UNCHANGED <<durable, guest, epochs, told, idle>>

\* The next group of the page; without one the next page, or the lap is over.
\* The budget may end the scan where something is left.
Leave(p) ==
    LET rest == Tail(proc[p].todo)
        a == Here(p).b[1]
    IN  \/ /\ rest # <<>>
           /\ after' = [after EXCEPT ![p] = a]
           /\ proc' = [proc EXCEPT ![p] = [Resting EXCEPT !.pc = "open", !.todo = rest, !.full = proc[p].full]]
        \/ /\ after' = [after EXCEPT ![p] = IF rest = <<>> /\ ~proc[p].full THEN 0 ELSE a]
           /\ proc' = [proc EXCEPT ![p] = Resting]

\* The hint is taken from the open files, before anything is read.
OpenTranscript(p) ==
    /\ proc[p].pc = "open"
    /\ proc' = [proc EXCEPT ![p].pc = "read", ![p].same = TRUE]
    /\ UNCHANGED <<durable, guest, epochs, told, idle, after>>

\* OSError or SQLiteError: the group is left for the next lap.
ReadFails(p) ==
    /\ proc[p].pc \in {"open", "read"}
    /\ Leave(p)
    /\ UNCHANGED <<durable, guest, epochs, told, idle>>

\* Mutant: no backstop.
StaleByHint(p, b) == idle[p][b] = "no"

Stale(p, b) == idle[p][b] # "fresh"

ReadRows(p) ==
    LET s == Here(p)
        end == IF Len(log[s.b]) < s.from + Rows THEN Len(log[s.b]) ELSE s.from + Rows
    IN  /\ proc[p].pc = "read"
        /\ IF s.media \/ s.pubs # {} \/ Stale(p, s.b)
           THEN /\ idle' = [idle EXCEPT ![p][s.b] = "no"]
                /\ proc' = [proc EXCEPT ![p].pc = "record", ![p].rows = (s.from + 1) .. end]
                /\ UNCHANGED after
           ELSE Leave(p) /\ UNCHANGED idle
        /\ UNCHANGED <<durable, guest, epochs, told>>

\* Mutant: the binding is not locked.
AuthorizedUnlocked(b) == allowed[b[1]] = "yes"

Authorized(b) == IsLive(b) /\ allowed[b[1]] = "yes"

\* recover_media and persist: what the chat has once the file was looked for;
\* a file once attached stays.
Version(b, n) ==
    IF log[b][n] \in {"media", "file"} /\ (n \in file[b] \/ chat[b][n] = 2) THEN 2
    ELSE IF log[b][n] = "file" THEN 0 ELSE 1
Shown(b, n) == [told[b] EXCEPT ![n] = IF n \in flag[b] THEN chat[b][n] ELSE @]
Lowest(ns) == Nth(ns, 1)
Missing(b, n) == log[b][n] \in {"media", "file"} /\ n \notin file[b]

\* Mutants: rows are taken as read, not checked against the cursor once it is
\* locked; the cursor moves but a missing file is not looked for again; all that
\* is pending is marked as published.
SaveUnchecked(b, seen) ==
    LET new == {n \in seen : log[b][n] # "native"}
        took == IF Len(waiting[b]) < Receipts THEN Len(waiting[b]) ELSE Receipts
        all == new \cup {waiting[b][k] : k \in 1 .. took}
        kept == {k \in 1 .. took : Missing(b, waiting[b][k])}
    IN  /\ chat' = [chat EXCEPT ![b] = [n \in Seq_ |-> IF n \in all THEN Version(b, n) ELSE @[n]]]
        /\ waiting' = [waiting EXCEPT ![b] =
               SubSeq(@, took + 1, Len(@)) \o [k \in 1 .. Cardinality(kept) |-> @[Nth(kept, k)]]
                   \o InOrder({n \in new : Missing(b, n) /\ n \notin {@[k] : k \in DOMAIN @}})]
        /\ flag' = [flag EXCEPT ![b] = @ \cup {n \in all : Version(b, n) # chat[b][n]}]
        /\ cursor' = [cursor EXCEPT ![b] = IF seen = {} THEN @ ELSE Nth(seen, Cardinality(seen))]
SaveNoReceipt(b, seen) ==
    LET new == {n \in seen : n > cursor[b] /\ log[b][n] # "native"}
    IN  /\ chat' = [chat EXCEPT ![b] = [n \in Seq_ |-> IF n \in new THEN Version(b, n) ELSE @[n]]]
        /\ flag' = [flag EXCEPT ![b] = @ \cup {n \in new : Version(b, n) # chat[b][n]}]
        /\ cursor' = [cursor EXCEPT ![b] = Cardinality(seen \cup (1 .. @))]
        /\ UNCHANGED waiting
PublishAll(p) ==
    /\ proc[p].pc = "publish" /\ proc[p].pubs # {} /\ Authorized(Here(p).b)
    /\ told' = [told EXCEPT ![Here(p).b] = Shown(Here(p).b, Lowest(proc[p].pubs))]
    /\ flag' = [flag EXCEPT ![Here(p).b] = {}]
    /\ proc' = [proc EXCEPT ![p].pubs = @ \ {Lowest(@)}]
    /\ UNCHANGED <<cursor, waiting, chat, guest, epochs, idle, after>>
\* Pending media first, in the order they were last looked for, then the new
\* replies that are not a gateway row's answer; persist for each, checkpoint.
Save(b, seen) ==
    LET new == {n \in seen : n > cursor[b] /\ log[b][n] # "native"}
        took == IF Len(waiting[b]) < Receipts THEN Len(waiting[b]) ELSE Receipts
        all == new \cup {waiting[b][k] : k \in 1 .. took}
        kept == {k \in 1 .. took : Missing(b, waiting[b][k])}
    IN  /\ chat' = [chat EXCEPT ![b] = [n \in Seq_ |-> IF n \in all THEN Version(b, n) ELSE @[n]]]
        /\ waiting' = [waiting EXCEPT ![b] =
               SubSeq(@, took + 1, Len(@)) \o [k \in 1 .. Cardinality(kept) |-> @[Nth(kept, k)]]
                   \o InOrder({n \in new : Missing(b, n)})]
        /\ flag' = [flag EXCEPT ![b] = @ \cup {n \in all : Version(b, n) # chat[b][n]}]
        /\ cursor' = [cursor EXCEPT ![b] = Cardinality(seen \cup (1 .. @))]

\* _record_page: one transaction under the binding's lock.
ToRecord(p) == proc[p].pc = "record" /\ (proc[p].rows # {} \/ Here(p).media)
RecordPage(p) ==
    LET b == Here(p).b IN
    /\ ToRecord(p) /\ Authorized(b)
    /\ Save(b, proc[p].rows)
    /\ proc' = [proc EXCEPT ![p].pc = "publish",
                           ![p].pubs = IF chat' # chat THEN flag'[b] ELSE Here(p).pubs]
    /\ UNCHANGED <<guest, epochs, told, idle, after>>

\* Nothing to record, or the binding is gone.
SkipRecord(p) ==
    /\ proc[p].pc = "record"
    /\ ToRecord(p) => allowed[Here(p).b[1]] = "yes" /\ ~IsLive(Here(p).b)
    /\ proc' = [proc EXCEPT ![p].pc = "publish", ![p].pubs = Here(p).pubs]
    /\ UNCHANGED <<durable, guest, epochs, told, idle, after>>

\* load_agent_for_new_work or check_agent_access refuses with 403, 404 or 409:
\* the group is left.
ToAuthorize(p) == ToRecord(p) \/ (proc[p].pc = "publish" /\ proc[p].pubs # {})
Refused(p) ==
    /\ ToAuthorize(p) /\ allowed[Here(p).b[1]] = "no"
    /\ Leave(p)
    /\ UNCHANGED <<durable, guest, epochs, told, idle>>

\* AgentExpired is no HTTPException: it ends the whole scan, and the next one
\* starts after the agent this one had last finished.
Expired(p) ==
    /\ ToAuthorize(p) /\ allowed[Here(p).b[1]] = "expired"
    /\ proc' = [proc EXCEPT ![p] = Resting]
    /\ UNCHANGED <<durable, guest, epochs, told, idle, after>>


\* _publish: the message is read again under the binding's lock, sent, and its
\* flag cleared with the commit.
Publish(p) ==
    LET b == Here(p).b  n == Lowest(proc[p].pubs) IN
    /\ proc[p].pc = "publish" /\ proc[p].pubs # {} /\ Authorized(b)
    /\ told' = [told EXCEPT ![b] = Shown(b, n)]
    /\ flag' = [flag EXCEPT ![b] = @ \ {n}]
    /\ proc' = [proc EXCEPT ![p].pubs = @ \ {n}]
    /\ UNCHANGED <<cursor, waiting, chat, guest, epochs, idle, after>>

\* The binding is gone.
SkipPublish(p) ==
    /\ proc[p].pc = "publish" /\ proc[p].pubs # {}
    /\ allowed[Here(p).b[1]] = "yes" /\ ~IsLive(Here(p).b)
    /\ proc' = [proc EXCEPT ![p].pubs = {}]
    /\ UNCHANGED <<durable, guest, epochs, told, idle, after>>

\* The group is done; an empty page is remembered with the hint it was read under.
EndGroup(p) ==
    /\ proc[p].pc = "publish" /\ proc[p].pubs = {}
    /\ idle' = [idle EXCEPT ![p][Here(p).b] = IF proc[p].rows = {} /\ proc[p].same THEN "fresh" ELSE "no"]
    /\ Leave(p)
    /\ UNCHANGED <<durable, guest, epochs, told>>

\* What was sent when a publication did not come to its commit.
MaybeTold(p) ==
    told' \in {told} \cup
        (IF proc[p].pc = "publish" /\ proc[p].pubs # {} /\ Authorized(Here(p).b)
         THEN {[told EXCEPT ![Here(p).b] = Shown(Here(p).b, Lowest(proc[p].pubs))]} ELSE {})

\* The database or the process fails; a failed scan keeps the loop's memory.
ScanFails(p) ==
    /\ proc[p].pc # "scan"
    /\ proc' = [proc EXCEPT ![p] = Resting]
    /\ MaybeTold(p)
    /\ UNCHANGED <<durable, guest, epochs, idle, after>>

Crash(p) ==
    /\ proc' = [proc EXCEPT ![p] = Resting]
    /\ after' = [after EXCEPT ![p] = 0]
    /\ idle' = [idle EXCEPT ![p] = [b \in Binding |-> "no"]]
    /\ MaybeTold(p)
    /\ UNCHANGED <<durable, guest, epochs>>

\* BACKSTOP seconds have passed since the empty page.
BackstopDue(p, b) ==
    /\ idle[p][b] = "fresh" /\ IsLive(b)
    /\ idle' = [idle EXCEPT ![p][b] = "old"]
    /\ UNCHANGED <<durable, guest, epochs, told, after, proc>>

-----------------------------------------------------------------------------
(* Around the loops. *)

\* The guest (external) writes a row; a write may leave size and time stamps
\* of the files as they were.
Append_(b, k, seen) ==
    /\ IsLive(b) /\ Len(log[b]) < MaxRow
    /\ log' = [log EXCEPT ![b] = Append(@, k)]
    /\ IF seen
       THEN /\ idle' = [p \in Proc |-> [idle[p] EXCEPT ![b] = "no"]]
            /\ proc' = [p \in Proc |-> IF proc[p].todo # <<>> /\ Here(p).b = b
                                       THEN [proc[p] EXCEPT !.same = FALSE] ELSE proc[p]]
       ELSE UNCHANGED <<idle, proc>>
    /\ UNCHANGED <<durable, file, epochs, told, after>>

FileAppears(b, n) ==
    /\ IsLive(b) /\ n \in DOMAIN log[b] /\ Missing(b, n)
    /\ file' = [file EXCEPT ![b] = @ \cup {n}]
    /\ UNCHANGED <<durable, log, epochs, told, idle, after, proc>>

\* bind_openclaw_reply, by a claim.
Bind(a) ==
    /\ live[a] = 0 /\ born[a] < MaxEpoch
    /\ born' = [born EXCEPT ![a] = @ + 1]
    /\ live' = [live EXCEPT ![a] = born[a] + 1]
    /\ UNCHANGED <<durable, guest, allowed, cleared, told, idle, after, proc>>

\* A binding goes with its receipts; what was known of it is of no more use.
Drop(a) ==
    LET b == <<a, live[a]>> IN
    /\ live' = [live EXCEPT ![a] = 0]
    /\ cursor' = [cursor EXCEPT ![b] = 0]
    /\ waiting' = [waiting EXCEPT ![b] = <<>>] /\ flag' = [flag EXCEPT ![b] = {}]
    /\ told' = [told EXCEPT ![b] = [n \in Seq_ |-> 0]]
    /\ idle' = [p \in Proc |-> [idle[p] EXCEPT ![b] = "no"]]

\* The agent's owner or tenant changes, or the session's agent, user or channel.
Revoke(a) ==
    /\ live[a] # 0 /\ Drop(a)
    /\ UNCHANGED <<chat, guest, born, allowed, cleared, after, proc>>

\* delete_for_conversation: binding and messages, in one transaction.
Clear(a) ==
    LET mine == {b \in Binding : b[1] = a /\ b[2] <= born[a]} IN
    /\ live[a] # 0 /\ Drop(a)
    /\ cleared' = cleared \cup mine
    /\ chat' = [b \in Binding |-> IF b \in mine THEN [n \in Seq_ |-> 0] ELSE chat[b]]
    /\ UNCHANGED <<guest, born, allowed, after, proc>>

\* The user is deactivated, access changes, the agent expires or is extended.
SetAllowed(a) ==
    /\ \E x \in Verdicts \ {allowed[a]} : allowed' = [allowed EXCEPT ![a] = x]
    /\ UNCHANGED <<durable, guest, live, born, cleared, told, idle, after, proc>>

LoopStep(p) ==
    \/ ReadPage(p) \/ OpenTranscript(p) \/ ReadRows(p) \/ RecordPage(p) \/ SkipRecord(p)
    \/ Refused(p) \/ Expired(p) \/ Publish(p) \/ SkipPublish(p) \/ EndGroup(p)

Calm ==
    \/ \E p \in Proc : LoopStep(p)
    \/ \E p \in Proc, b \in Binding : BackstopDue(p, b)
    \/ \E b \in Binding, k \in Kinds, seen \in BOOLEAN : Append_(b, k, seen)
    \/ \E b \in Binding, n \in Seq_ : FileAppears(b, n)
    \/ \E a \in Agent : Bind(a) \/ Revoke(a) \/ Clear(a) \/ SetAllowed(a)

Next == Calm \/ \E p \in Proc : ReadFails(p) \/ ScanFails(p) \/ Crash(p)

Spec == Init /\ [][Next]_vars

\* Loops go on, and the backstop's time passes.  From some time on processes
\* stay up and transcripts can be read.
Fairness ==
    /\ \A p \in Proc : WF_vars(LoopStep(p))
    /\ \A p \in Proc, b \in Binding : WF_vars(BackstopDue(p, b))
    /\ <>[][Calm]_vars

FairSpec == Spec /\ Fairness

-----------------------------------------------------------------------------
(* Properties. *)

\* The replies whose file is still looked for.
Waits(b) == {waiting[b][k] : k \in DOMAIN waiting[b]}

\* The cursor never passes a reply that is not in the chat, or whose file is
\* not looked for any more; native answers are never recorded a second time.
CursorIsSafe ==
    \A b \in Binding : IsLive(b) => \A n \in DOMAIN log[b] :
        /\ n <= cursor[b] /\ log[b][n] = "text" => chat[b][n] = 1
        /\ n <= cursor[b] /\ log[b][n] \in {"media", "file"} =>
              chat[b][n] = 2 \/ (n \in Waits(b) /\ (log[b][n] = "media" => chat[b][n] = 1))
        /\ log[b][n] = "native" => chat[b][n] = 0

\* What the chat has and no receipt marks as unpublished was published in its
\* current version, however two loops, crashes and late files interleave.
ToldIsCurrent ==
    \A b \in Binding : IsLive(b) => \A n \in Seq_ :
        chat[b][n] # 0 /\ n \notin flag[b] => told[b][n] = chat[b][n]

\* A chat that was deleted stays empty, whatever a loop had already read.
ClearedStaysEmpty == \A b \in cleared : \A n \in Seq_ : chat[b][n] = 0

\* Recovered replies: none skipped, none recorded twice, none resurrected, and
\* browsers told of the last version.
RecoverySafety == CursorIsSafe /\ ToldIsCurrent /\ ClearedStaysEmpty

\* What a loop read before it had the lock takes nothing back while the binding
\* lives: no row is read again, no older version of a reply replaces a newer one,
\* in the chat or with the browsers.
NothingTakenBack ==
    \A b \in Binding : IsLive(b) /\ IsLive(b)' =>
        /\ cursor'[b] >= cursor[b]
        /\ \A n \in Seq_ : chat'[b][n] >= chat[b][n] /\ told'[b][n] >= told[b][n]

\* The chat gets replies of a binding that lives, of an agent that may work then;
\* it loses them with its deletion only.
WrittenInScope ==
    \A b \in Binding :
        chat'[b] # chat[b] => b \in cleared' \/ (IsLive(b) /\ allowed[b[1]] = "yes")

\* What no step of a loop does, however late.
RecoveryRules == [][NothingTakenBack /\ WrittenInScope]_vars

\* Epochs are used once, in order: a binding not made yet has left nothing, and
\* one whose chat was deleted is not bound any more.
EpochsGrow ==
    /\ \A a \in Agent : live[a] \in {0, born[a]}
    /\ \A b \in cleared : b[2] <= born[b[1]] /\ ~IsLive(b)
    /\ \A b \in Binding : b[2] > born[b[1]] =>
          log[b] = <<>> /\ cursor[b] = 0 /\ waiting[b] = <<>> /\ \A n \in Seq_ : chat[b][n] = 0

\* Cursor, receipts and messages of a live binding are about rows it has, and
\* only a reply with a file waits for it.
RowsExist ==
    \A b \in Binding :
        /\ Len(log[b]) <= MaxRow
        /\ IsLive(b) =>
              /\ cursor[b] <= Len(log[b])
              /\ \A n \in Seq_ : n > Len(log[b]) => chat[b][n] = 0
              /\ \A n \in Waits(b) : n \in DOMAIN log[b] /\ log[b][n] \in {"media", "file"}

\* A loop's page is of bindings made before, each at a cursor it has reached, and
\* the rows it has read follow that cursor without a gap.
IsBehind(l) ==
    /\ \A k \in DOMAIN l.todo : LET s == l.todo[k] IN
          s.b[2] <= born[s.b[1]] /\ (IsLive(s.b) => s.from <= cursor[s.b])
    /\ l.pc # "scan" => l.todo # <<>>
    /\ l.pc = "record" => \E e \in 0 .. Len(log[Head(l.todo).b]) :
          l.rows = (Head(l.todo).from + 1) .. e
PagesAreBehind == \A p \in Proc : IsBehind(proc[p])

\* What a step needs of the state to keep RecoverySafety.
RecoveryInv == TypeOK /\ EpochsGrow /\ RowsExist /\ PagesAreBehind /\ RecoverySafety

\* A row whose last version the browsers have not been told of.
Owed(b, n) ==
    /\ IsLive(b) /\ n \in DOMAIN log[b]
    /\ log[b][n] # "native" /\ told[b][n] < Version(b, n)

\* A reply of a binding that stays, of an agent that may work, is told to the
\* browsers in the end, with its file once that exists.
ShownInTheEnd ==
    \A a \in Agent : <>[](live[a] # 0 /\ allowed[a] = "yes") =>
        \A e \in 1 .. MaxEpoch, n \in Seq_ :
            [](Owed(<<a, e>>, n) => <>~Owed(<<a, e>>, n))
=============================================================================
