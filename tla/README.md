# MaraClaw: a verification of its message dispatch

MaraClaw runs digital employees ("agents") in guest containers. Its engine
(`src/engine`, Python/asyncio over PostgreSQL and Redis) accepts messages for
agents from web chats, IM channels and other agents, hands each to the agent's
guest at most once, records the answer and delivers it where it belongs. Beside
that it runs tasks, schedules and triggers, starts, stops and upgrades the
guests, and meters what they store. This directory models those parts in TLA+,
checks them with TLC and proves their safety properties with TLAPS.

## 1. Inventory

`PROJECT.json` lists every component, the ones that are not modelled too. Those
with state of their own:

| Component | State | Operations | Correct when |
|---|---|---|---|
| Gateway queue (`gateway_message_dao`, `openclaw_enqueue`, `openclaw_native_claims`) | `gateway_messages`: status, created_at, delivered_at, conversation, reply binding | enqueue, claim head, release, complete, delete session | one active turn per conversation, oldest visible row first, no input runs twice |
| Native turn (`openclaw_routing._run_inbox_wake`, `openclaw_gateway_rpc`) | in memory only: the claimed record and the captured agent | submit, classify the outcome, release, settle, retain | a claim is returned only if the guest provably has nothing to run |
| Shared lane and bursts (`openclaw_shared_dispatch`, `personal_burst_*`) | `personal_burst_batches`, `personal_burst_inputs` beside the anchor row | admit, append, seal, claim, cancel | FIFO; header and row agree; every accepted original is in one frozen body |
| Reports (`openclaw_gateway_delivery`, `api/gateway`) | result, assistant `chat_messages`, delivery intents | record_report from three sources | first report wins, one answer in the chat, for the right owner |
| Dispatch reconciler | page cursors only | wake pending heads, settle interrupted inputs | lost wakes are repaired; a notice is true |
| Wake scheduler (`openclaw_routing`) | module-level flags, tasks, semaphores | schedule, drain, run lanes, open, close and drain admission | no lane stranded or run twice, parallelism bounded |
| Report relay (`gateway_report_relay`, its DAO) | `gateway_report_deliveries`: token, lease, plan, cursor, outcome | claim, plan, send, checkpoint, retry, terminate | in order, complete, one sender at a time, once to agents |
| Personal WhatsApp link | connection generation, owner, state, credentials, send journal | claim, renew, revoke, relink, dispatch | one child at a time, no chunk shown twice, purged credentials stay purged |
| Delayed replies | reply bindings, transcript cursors, receipts | scan, record, publish | each transcript reply once, in its last version |
| Chat and channel intake | submissions, receipts, quota | accept once, replay, refuse | idempotent acceptance, one charge |
| Tasks, schedules, triggers (`*_lease`, their loops) | lease token and expiry, runs, occurrences, fires | claim, renew, complete, release, recover | one run at a time, each occurrence and fire counted once, none stranded |
| Agent starts and stops | start operations, retry metadata, containers | begin, execute, publish, cancel | a cancelled start leaves nothing running; a stopped agent stays stopped |
| OpenClaw updates | update runs, containers, the agent's directory and its snapshot | request, cut over, publish, roll back, sweep | one guest on a directory, no write lost, a way back at every step |
| Storage ledger (`storage_runtime`) | claims and totals in bytes, objects of the provider | reserve, send, learn or lose the outcome, settle, delete, move to another plan | never charged less than what the store holds or may still hold |
| Ownership transfer | agents row | transfer | nothing of the old owner reaches the new one |

How they interact: intake decides once on a turn and inserts a queue row; after
the commit it schedules a wake in the process; the wake claims heads in the
database and runs native turns; the guest answers on the request, or later by
`POST /gateway/report`, or only in its transcript; settlement completes the row
and creates delivery intents in the same transaction; the relay turns intents
into IM messages, into entries of the Personal link's journal or into queue
rows of other agents. The reconciler repairs lost wakes and interrupted inputs.
Transfers, revocations, stops and updates act on all of it from the side,
through the work gate and the workspace lock.

Hard behaviours: several processes and tasks on one queue; network calls
between claim and settlement whose outcome can be unknown; crashes at every
await; evidence read in one transaction and used in the next; leases that
expire under a running worker; owners and routes that change while work waits;
provider requests that take effect after the client gave up; flags in memory
that decide whether anyone looks again. `PROJECT.json` lists them under
`hazards`, each at its line, with the properties that cover it.

## 2. Modules

| Module | Models | Theorems |
|---|---|---|
| `NativeTurn` | worker, RPC adapter, guest (external), gate, owner; extended by both lanes | `NativeTurnProofs` (lemmas) |
| `OrdinaryLane` | ordinary conversations, reports, the reconciler's notices, session deletion | `OrdinaryLaneProofs` |
| `SharedLane` | the Shared lane, bursts, the Personal connection as far as bursts depend on it | `SharedLaneProofs` |
| `TurnLane` | abstract specification: what the queue promises; both lanes implement it | in the two above |
| `WakeLanes` | the in-process wake scheduler | `OrdinaryLaneProofs` |
| `ReportRelay` | delivery intents and relay workers | `ReplyProofs` |
| `PersonalLink` | the Personal connection: supervisors, children, frames, send journal | `ReplyProofs` |
| `ChunkSend` | abstract specification: what the journal promises the relay about a chunk; `PersonalLink` implements it | `ReplyProofs` |
| `DelayedReplies` | replies recovered from guest transcripts | `ReplyProofs` |
| `ChatIntake` | acceptance of web turns and channel events, quota | `AdmissionProofs` |
| `StorageLedger` | the byte ledger of objects in managed S3 | `AdmissionProofs` |
| `LeaseHold` | the lease machine that background work shares | lemmas, in the module |
| `TaskRuns`, `ScheduleRuns`, `TriggerRuns` | its three users | `BackgroundProofs` |
| `AgentStart` | start operations, stops, sweeps | `GuestProofs` |
| `GuestUpdate` | an upgrade: cutover, publication, rollback, cleanup | `GuestProofs` |

An MC module puts components that share a theme side by side in one run:
`MCQueue` (`OrdinaryLane`, `WakeLanes`), `MCLanes` (both lanes and the intake,
for liveness), `MCReplies` (relay, link, delayed replies, for liveness),
`MCBackground`, `MCPersonalLink`, `MCGuests`, `MCAdmission`. A variable
(`moving`, `running`) is chosen at the start and says which of them moves; the
others stay in their initial states, where no fair action is enabled, so each
is checked as if alone and their states add instead of multiplying.
`MCSharedLane` chooses between two slices of one module in the same way.

### How state and actions correspond to the code

*Transactions.* A transaction that holds its locks to the end is one action.
Where the code commits and goes on (claim, RPC, settle; probe, settle; claim,
plan, send, checkpoint) there are several. Acceptance of an ordinary row is two
(`BeginEnqueue`, `CommitEnqueue`), because `created_at` is the start of the
transaction while the row becomes visible at its end; equal times, which the
code orders by id, do not occur. The Shared claim is one transaction of several
passes under the lane lock; `pass` makes them steps so that `release_delivery`,
which takes no lane lock, and the guest can come in between.

*NativeTurn.* `turns` holds the workers inside `_run_inbox_wake` with the
record they carry: `delivered_at` of their claim and the owner captured when
they were woken. `RefuseBeforeSubmit` is every early return and exception
before the adapter starts; `Submit` includes the fresh read of the agent and
the second gate check; the three `See...` actions are the outcomes;
`WorkerLost` is a crash, a cancellation or an unexpected exception. The guest
is external: it decides on a request that was sent, independently of the
engine. `TransferOwner` waits for adapters in progress (the workspace write
section) and drops the reply bindings (the trigger on `agents`). `SetGate`
abstracts update runs, notices and transfer cleanup to whether
`assert_work_allowed` passes.

*OrdinaryLane.* `Record` is `record_report`: it takes pending as well as
delivered rows, because an HTTP report may name either. `claimedFor` is a
history variable.

*SharedLane.* Time is relative: `ready` and `window` count down. Sizes are
counted in originals. `CancelRefused` is a refused `authorize_lane`; what makes
it refuse (an inactive company, a missing principal) is not state of the model,
so it may happen in any pass and is never assumed to. `Revoke` includes
`cancel_open_for_agent`, which runs in the same transaction. `since` is a
history variable. Branches the code keeps for safety and the model shows
unreachable (a marker without a header, a terminal header on a pending anchor,
`mark_claimed` failing after a claim) are kept as guards where they are
observable (`CancelHead`) and excluded by `BurstIntegrity`. A claim transaction
that rolls back is one that did not start: nobody else could see its passes.

*WakeLanes.* An action is what the event loop runs between two awaits. The
pages of `lane_heads_page` are read as one. Other processes' claims and
settlements (`Elsewhere`, `Settle`) may happen at any time. `owed` is a history
variable. A wake noted before the drain task's first step is dropped by it,
which is harmless: the task has not read anything yet.

*ReportRelay.* `lease`, `wait` and a job's `left` are the ticks that remain.
`Deadline` stands for `fail_after(45)`, `Lease` for the 60 s lease; that the
first is smaller is `RelayAssumption`, and the only relation between the two
the proof uses. A provider accepts or refuses a chunk while the worker waits
for it; one that processes a request after the client has given up is not
modelled, nor are two agents that answer each other without end. Personal
WhatsApp is in `PersonalLink`. The acknowledgement of a plan whose cursor is at
its end is not an action: the last checkpoint delivers the intent, so no open
intent is in that state.

*PersonalLink.* Timeouts may fire whenever they are armed; frames in flight are
sets, so they are late, reordered and lost with their process. An expired lease
never takes over from a child that was not reaped
(`test_whatsapp_personal_store.py:18`), so after an engine crash the claim is
never taken back: liveness assumes that the engine does not crash. The relay
may report a chunk as failed while its pending row can still be sent, when the
same generation reconnects. `Phase` and `Heard` read the state of `ChunkSend`
off the journal's rows.

*DelayedReplies.* An agent has one bound session; nothing is written to the
transcript of a binding that is gone; the hint that a loop keeps of an idle
transcript is a Boolean.

*ChatIntake.* Browser and provider resend; sockets and hooks are interleaved at
each transaction. The row lock of the reply session and the lane lock, taken
after the user's row, are left out: they are always taken in this order.
`check_agent_expired`'s mark is rolled back with the turn it refuses. A commit
that raises after it took effect is answered `enqueue_failed`; the retry with
the same id is a replay.

*StorageLedger.* `op` holds the operations with their claims, `wire` the requests
the provider may still apply, at any later time, in any order. Sizes are small
numbers; a plan gives the two limits. One thing is assumed of the environment:
objects under an agent's prefix get there through the ledger only
(`quota_keys.py:10` calls the prefix exclusively owned), so that the winner a
refused create adopts in `HeadWinner` is never larger than what is charged.

*LeaseHold, TaskRuns, ScheduleRuns, TriggerRuns.* Time is two events: the
guard's window closes, the row's lease expires; the first comes before the
second, as the margin in the code makes it. `TriggerRuns` leaves out OKR's
`mark_trigger_fired`, the reset of `fire_count` in `set_trigger`, the poll
baseline and the dedup windows. A batch may overshoot `max_fires`, and pending
executions of a trigger that switched itself off stay pending, as in the code.

*AgentStart.* The start runs under the workspace lock; disabling, expiry and
transfers do not. Not modelled: the path without Docker, `setup_pending`, agent
deletion, a second reconciler process. `cleanup_cancelled_start` is two steps,
`Cleanup`, which stops the guest, and `MarkClean`, which records it: a crash
between them repeats the stop.

*GuestUpdate.* Every Docker call, rename and transaction is a step.
`PublishUnacknowledged`, a commit whose acknowledgement is lost, is an action
of `LossySpec` only, which the run `update_lost_ack` checks. `EndWrite` makes
directories that are missing, as the writers do. A write asks for no status of
the agent, so it goes on beside an agent that a failed rollback has marked.

## 3. Runs

Each property of a passing run has a mutant, a plausible bug in the code, that
violates it.

| Run | Asks | Bounds | Why they are enough |
|---|---|---|---|
| `queue` | ordinary queue: safety, its inductive invariant, rules, refinement; wake flags | 2 rows, 1 conversation and rows without one, 2 owners and 1 transfer, 1 stamp; 2 lanes, 1 permit, 2 semaphores, 1 row per lane | two rows meet in a lane or outside it, every pair of reporters, a release followed by a second claim, a transfer at every point; the semaphore is remade while the old one is held, both lanes contend for one permit |
| `shared_safety` | Shared lane: safety, inductive invariant, rules, refinement | 2 rows, 3 originals, batches of 2, cap 2, 2 passes, 1 revocation, 2 owners; quiet 3 and window 4 on a lasting connection, 1 and 1 with owners and connections that change | a full batch, an original that does not fit, a stored row between bursts, the cap reached by appending and by creating; owner and generation change before, between and after acceptance and claim |
| `lanes_liveness` | every turn is settled, accepted work moves on | 2 rows, 1 original, 1 submission, 2 events | one row waits while another occupies the lane; stale heads use up the passes |
| `replies` | the relay's safety, inductive invariant and rules; everything is delivered or refused in the end | 1 IM and 1 agent intent, 2 tokens, lease 2, deadline 1, 2 chunks; 1 chunk of the link; 2 agents, pages of 1 | a stale attempt beside a fresh one, first and last chunk; an agent behind a full page |
| `background` | tasks, schedules, triggers: what their runs promise, the lease under them, that runs end | 2 claims, 2 rows (1 task), 1 trigger, 2 edits, 1 due occurrence, 1 drop | a late claim beside a fresh one, periodic and manual work on one schedule |
| `link_safety` | Personal link and recovered replies: the inductive invariants, the refinement of `ChunkSend`, what a late loop never takes back | 1 command, 2 supervisors, 2 generations, with a chunk to send or credentials to store; 2 loops over 2 bindings of a reply with a file or one of 2 plain replies, or 1 loop on 2 rows of every kind with pages of 1, expiry and transfers | a relink while the old child lives; two loops record and publish the same reply, the chat is deleted and bound again between; a loop has read one row of two, the other both; a file that comes after the cursor has moved |
| `guests` | starts, stops, upgrades | 2 operations, 2 containers; 2 upgrades, 1 write | a start replaces a cancelled one, a late attempt meets a new guest; a second upgrade after a rollback |
| `admission_safety` | intake and ledger | 1 submission, 2 events, 2 webhook requests, 3 sockets, at most 4 faults, posts and periods together (3 for a user exempt from the quota); 2 keys, 3 operations of which 2 write, 2 tiers | the same turn on two sockets and after a lost answer; late requests of two operations on one key, a downgrade |

One stamp is enough although a row is claimed repeatedly: `Deliver` asks for a
stamp no live worker of the row carries, so with one stamp a second claim
happens only when the first worker is gone, which the invariant proves to be so
anyway. Interchangeable values are symmetric sets, or are used in a canonical
order where a run checks liveness, for which symmetry is not sound.

*Deadlock.* It is checked in `queue`, `shared_safety` and `background`. The
other passing runs say `CHECK_DEADLOCK FALSE` because a component of theirs may
rest: a link that is off, an agent whose operations are used up, a submission
that was answered, operations that are all settled.

*Fairness.* Loops that the code runs for ever are fair: the reconciler, the
relay, the lease recovery, the update worker, the artifact sweep, the scan of
transcripts; so are the steps of a worker that is not lost, and time. Where
interference can undo an enabling (a claim, a lock, a queue's permit) it is
strong fairness, as the loop tries again and again. Faults are never fair. The
liveness of a component in which faults could come for ever is stated under
"from some time on only calm steps" (`<>[][Calm]_vars`,
`<>[][~Trouble]_vars`): crashes, refusals and edits end at some time. That a
destination that is asked again and again answers in the end (`SF` on
`Acknowledged`) is an assumption about providers, without which `EventuallyDone`
cannot hold. Session deletion, reports, transfers and guest steps are not fair.

*Disagreements with documentation.* Four runs check what a document, a test or
a comment says and find it violated.

- `ordinary_stale`: `docs/architectures/c4-dynamic-chat.md:59` says that stale
  claims return to pending. The code keeps a claim whose outcome is uncertain
  until someone reports on it; that is also the only choice under which
  `QueueSafety` can hold.
- `delayed_expired`: one expired agent with unread replies ends every scan of
  the recovery loop before the agents after it. With no agent expired the same
  property holds (`RepliesShown` in `replies`).
- `start_leak`: a new start replaces a cancelled one whose guest is not cleaned
  up, and nobody owns that guest any more.
- `update_lost_ack`: the acknowledgement of the publishing commit is lost and
  the published container is rolled back. `SuccessIsKept` proves that this is
  the only way.

*What the checks showed along the way.* The compare-and-set of
`release_delivery` is redundant given the rest of the protocol, and is a second
line of defence. A transfer between the guest's answer and its settlement
leaves the row delivered with nobody to settle it: the old owner's answer is
refused by design, and the lane waits for an HTTP report.

## 4. Proofs

All proofs are for every value of the constants that satisfies the named
assumptions. Those say that a null value is not one of the set it is missing
from (`StampAssumption`, `LaneAssumption`, `TokenAssumption` and parts of
others), that bounds are natural numbers (`LimitAssumption`, `BoundAssumption`,
`UpdateBound`, `ScheduleAssumption`), that rows, lanes or requests counted or
summed are finitely many (`ClaimAssumption`, `BackgroundAssumption`,
`LedgerAssumption`, `WakeAssumption`, `IntakeAssumption`), that submissions,
events, sockets and webhook requests are not confused (`IntakeAssumption`), and, the
only one about the code's numbers, that a relay attempt is cut off before its
lease ends (`RelayAssumption`).

Hardly any of the properties is inductive by itself. Each argument is an
invariant that is, checked by TLC on a run before it was proved, one lemma for
each action, and the properties as its consequences.

*Ordinary lanes* (`NativeTurnProofs`, `OrdinaryLaneProofs`). That an input is
consumed once needs that a released or unclaimed row has nothing in the guest
(`UnsentIsUnadmitted`), which needs that a row has one worker (`OneWorker`),
which needs that a pending row has none (`WorkerHoldsRow`). These, with
`ConsumedOnceRun`, are `ClaimInv`, proved once for the steps of `NativeTurn`
(`TurnNextInv`) and as frame lemmas for what a lane does to rows, so that both
lanes use them. `IInv` adds one active row per lane, that results and answers
follow the status, that interruption evidence cannot go away, and that workers
and bindings name the claimant. `Safety` (`QueueSafety`) and the action
properties `RowRules` follow; `Refinement` proves that the queue implements
`TurnLane`, a conversation, or a row that has none, being a lane. `ClaimsTheHead`
(`HeadFirst`) is a property of the claim alone: no other step delivers a row
(`OnlyClaimDelivers`).

*Wakes* (in `OrdinaryLaneProofs`). `WakeSafety` is inductive as it stands,
because it says what flags and tasks mean for each other: a lane is marked
running exactly while its task exists, a wake that arrives meanwhile is noted,
and the semaphore in use counts its holders, which are finitely many lanes. That
a running lane never loses a wake is the part that needs the others.

*Shared lane* (`SharedLaneProofs`). `IInv` is `ClaimInv` with three more parts.
`OrderInv`: one row is active, none older waits beside it, the `created_at` of
the lane's rows are distinct, what is done is older than what waits, and a new
row comes after the tail. `BatchInv`: header and row agree in every pair of states
they can be in, and a burst that can still grow is the pending tail.
`MemberInv`: originals belong to exactly one batch, at one place, and frozen
bodies are complete.
`TailAt` is a maximum over the rows, which are finitely many but without a
bound: `MaxOfBounded` proves that it exists from the finiteness of the waiting
rows (`WaitingIsBounded`). From `IInv` follow order, integrity, the silence of
cancelled bursts and `BurstRules`. `StepMovesRows` says what a step may do to
status and claims at all, and from it the refinement of `TurnLane` is a case
for each movement rather than for each action.

*Relay* (`ReplyProofs`). `RelayInv` says that an attempt under its
deadline owns its intent, with more lease than deadline left (`ActiveOwns`);
time takes the same from both. From it follow single sending, the order and
completeness of chunks, exactly-once delivery to agents and final outcomes.

*Personal link* (in `ReplyProofs`, whose lemmas use the names `MCReplies` gives
the link's state). `LinkInv` has two halves that no step needs together.
`Claims`: a child is spawned after its claim and gone before the claim is given
back, so at most one lives; and a purge in force under a claim is of a later
generation than the claim's, so a child that still writes credentials has lost
its fence (`ClaimHeld`). `Sends`: a chunk goes one way, from the journal through
the supervisor, the pipe and the child's entry to the socket, under the one
claim its row names, and what WhatsApp or a frame says about it stays true until
it is read (`OneWay`). Every step but two moves a chunk forward, or off its way,
and `Travels` shows once what that keeps; the two are the authorization, where
nobody has heard of the chunk, and WhatsApp's decision, where only the claim
that sent it has (`OneMoves`). `LinkRefinement` proves that the link implements
`ChunkSend`. An abstract chunk waits as long as its row can still be dispatched
and ends as the row ends. Several steps have no counterpart (a lease, a child, a
frame), and one may stand for several chunks at once (a claim that ends, a link
that is revoked). Three need `LinkInv`: what WhatsApp shows was sent, is not shown yet
and was not refused; the result a parent records is the truth about the chat;
what the relay takes for delivered was accepted.

*Recovered replies* (in `ReplyProofs`). A loop works on what it read in earlier
steps: its page of bindings, the rows, the pending publications. `RecoveryInv`
says why that does no harm. Epochs are used once and in order, so a binding
that a page names is live or will never be again, and one not made yet has left
nothing (`EpochsGrow`); cursor, receipts and messages are about rows that exist
(`RowsExist`); a page's cursor is one that its binding has reached, and the rows
read follow it without a gap (`PagesAreBehind`), so a record overlaps what
another loop recorded but never leaves a gap. `RecoverySafety` is its last part,
for any number of loops, agents, bindings and rows, and any size of the pages.
Receipts are a sequence that `Save` takes apart and joins again: `Rewait` says
what it holds afterwards, from facts about the k-th member of a set of numbers
(`NthIsMember`, `MemberIsNth`) that are proved by counting.
`RecoveryAssumption` says that pages and bounds are natural numbers.
`RecoveryGoesOn` proves the action property `RecoveryRules`: however late a loop
is, cursor, messages and what the browsers have of them only grow while the
binding lives, and a scan writes only for a binding that is live and an agent
that may work when it writes. Beside `RecoveryInv` it needs one more invariant,
`Versions`: browsers are not ahead of the chat, a plain text has no version with
a file and a file none without.

*Background work* (lemmas in `LeaseHold`, `BackgroundProofs`). `HoldInv` says
that a claim whose window is open owns a live lease on each row it covers,
except rows taken from it by the side door of the user of the lease (an edited
task, a cancelled manual run). It is proved once for the machine, as lemmas on
taking, renewing, losing and leaving a lease, and cited through the three
instances. Each user adds its books: the log of a task is the truth about its
latest run; an occurrence is logged, dropped or in its slot, and counted when
begun; fires are the executions ever started. `LeaseInvariant` joins the three
for the specification that `background` checks, and `BackgroundSafe` what
follows from them.

*Guests* (`GuestProofs`). Starts: `StartInv` says which steps of an attempt
stand for the operation that is current, that a guest is down before its cleanup
is recorded, and that a pending operation is newer than any stop (`veto`); from
it a cleaned operation has no guest
(`CleanedStartIsQuiet`), and a stopped agent runs again only by a later request
(`StoppedStaysStopped`). Upgrades: `UpdateInv` says of each step of the swap
and of the rollback what is done; that a container that is up has the agent's
name and only one has it, from which follows that one guest runs at a time; and
that a cutover has a way back (`WayBack`): either a snapshot that is exact and
an old guest that is down, or a directory that is exact and no new guest.
A failed rollback ends all promises but the first; an invariant that claimed
more would be false, which is why it is stated under `Sound`. `UpdateSafe` and
`GuestInvariant` follow. `SuccessIsKept` needs one thing more, that the agent's
own container exists and is only parked while the new one takes the name.

*Storage* (`AdmissionProofs`). `LedgerInv` says that each row's claim is that
of its operation, that requests, decisions and objects at the provider fit
them, what an operation knows when it settles (`Evidence`), and that the total
is the sum of the rows. Sums are over finite sets and induction is out of
reach here, so the facts about them are proved through least counterexamples
in the natural numbers (`FoldExists`, `SumUnfold`). `LedgerSafe` follows: the
store never holds, nor will hold, more than is charged.

*Acceptance* (in `AdmissionProofs`). `IntakeSafety` counts what is committed;
that a commit adds one to it needs that its request has no row and that the
limit is not reached yet, although both were read steps earlier. `LocksHold`
says why they still hold: who may commit a request is alone with it, and who
holds the user's row is alone with that. `FrozenTravels` says that a frame, the
turn its handler works on and the row it left are the frozen payload, so that
what the browser shows as accepted is what was committed. What is resent is
computed by recursion over the order of submission; `PendingIsUnknown` proves
of it what is needed, again by least counterexamples.

*Only model-checked.* Liveness, all of it: fairness and ENABLED are not in the
prover's reach (`ClaimableIsServed`, `QueueProgress`, `WaitingMovesOn`,
`TurnsSettle`, `EventuallyDone`, `RepliesSettle`, `RepliesShown`, `RunsEnd`,
`OccurrencesSettle`, `ExecutionsSettle`, `LifecycleSettles`, `RunsFinish`).
Every safety property of a passing run is stated by a theorem. What a run of
several components says of one is proved of that component's own specification;
`QueueInvariant`, `LeaseInvariant`, `BackgroundSafe`, `GuestInvariant` and `AdmissionInvariant`
make the connection where the run's invariant joins several of them.

## 5. Plan

Next models: departures (company transfers and agent deletion with their cleanup
jobs), agent setup, and the composition of queue and relay, an answer's way from
`Record` to the queue of another agent.

## 6. Not modelled

Text, formatting, model routing and media; websocket fan-out and presence
(best effort over durable state); authentication and cryptography; LLM
providers and tools; the frontends; the guest's internals; workspace
collaboration and company workflows. Components whose state is one row and one
transaction (tickets, admissions) have nothing a model checker would add. The
TypeScript connectors are modelled as far as `PersonalLink` talks to them.
