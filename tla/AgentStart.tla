----------------------------- MODULE AgentStart ------------------------------
(***************************************************************************)
(* Starting and stopping the guest container of one agent.  A start is a   *)
(* durable operation row, committed before Docker is touched, that a       *)
(* crashed attempt leaves to the reconciler.  Starts, stops and cleanups   *)
(* hold the agent's workspace lock; disabling, expiry and ownership        *)
(* transfer do not, and may fall between any two steps of a start.         *)
(***************************************************************************)
EXTENDS Naturals

CONSTANTS
    MaxOps,     \* bound on start operations
    MaxGuests   \* bound on containers ever created

ASSUME BoundAssumption == MaxOps \in Nat /\ MaxGuests \in Nat

VARIABLES
    row,        \* agents: status and recorded container (0: none)
    standing,   \* ELIGIBLE_SQL: in good standing, past its expiry, or disabled
    op,         \* agent_start_operations: the agent's one row
    retry,      \* next_retry_at of that operation: due, later or NULL
    updating,   \* an OpenClaw run is active
    guest,      \* the container under the agent's name (0: none)
    made,       \* containers created so far
    seen,       \* the operation the reconciler has read
    w,          \* the holder of the workspace lock
    veto        \* history: the newest operation when the agent was last stopped

env == <<standing, updating>>
vars == <<row, standing, op, retry, updating, guest, made, seen, w, veto>>

Work(pc, n, dueOnly, c) == [pc |-> pc, op |-> n, dueOnly |-> dueOnly, created |-> FALSE, cont |-> c]
NoWork == Work("none", 0, FALSE, 0)
NoGuest == [id |-> 0, label |-> 0, up |-> FALSE]

Pc == {"none", "reserve", "find", "resume", "ready", "publish", "recover", "cleanup", "clean", "stop", "persist"}

TypeOK ==
    /\ row \in [status : {"idle", "running", "stopped"}, container : 0..MaxGuests]
    /\ standing \in {"good", "expired", "off"}
    /\ op \in [id : 0..MaxOps, state : {"none", "pending", "succeeded", "cancelled"}, mine : BOOLEAN,
               expected : 0..MaxGuests, candidate : 0..MaxGuests, clean : BOOLEAN]
    /\ retry \in {"due", "later", "never"}
    /\ updating \in BOOLEAN
    /\ guest \in [id : 0..MaxGuests, label : 0..MaxOps, up : BOOLEAN]
    /\ made \in 0..MaxGuests
    /\ seen \in [id : 0..MaxOps, state : {"none", "pending", "cancelled"}]
    /\ w \in [pc : Pc, op : 0..MaxOps, dueOnly : BOOLEAN, created : BOOLEAN, cont : 0..MaxGuests]
    /\ veto \in 0..MaxOps

Init ==
    /\ row = [status |-> "idle", container |-> 0]
    /\ standing = "good" /\ updating = FALSE
    /\ op = [id |-> 0, state |-> "none", mine |-> TRUE, expected |-> 0, candidate |-> 0, clean |-> FALSE]
    /\ retry = "never"
    /\ guest = NoGuest /\ made = 0
    /\ seen = [id |-> 0, state |-> "none"]
    /\ w = NoWork
    /\ veto = 0

-----------------------------------------------------------------------------
Free == w.pc = "none"
Pending(n) == op.id = n /\ op.state = "pending"
Cancelled(n) == op.id = n /\ op.state = "cancelled"

\* active_agent: the operation still stands for the agent as it is now.
Active(n) == Pending(n) /\ op.mine /\ row.container = op.expected /\ standing = "good"

\* cancel, with the trigger that clears the schedule of what is not pending.
Cancel ==
    IF op.state = "pending"
    THEN op' = [op EXCEPT !.state = "cancelled"] /\ retry' = "never"
    ELSE UNCHANGED <<op, retry>>

Goto(pc) == w' = [w EXCEPT !.pc = pc]
Release == w' = NoWork

-----------------------------------------------------------------------------
\* start_agent_guest: begin joins an operation that still stands, or replaces
\* the row by a new one.
RequestStart ==
    /\ Free /\ ~updating /\ standing = "good"
    /\ IF Active(op.id)
       THEN UNCHANGED <<op, retry>> /\ w' = Work("reserve", op.id, FALSE, 0)
       ELSE /\ op.id < MaxOps
            /\ op' = [id |-> op.id + 1, state |-> "pending", mine |-> TRUE,
                      expected |-> row.container, candidate |-> 0, clean |-> FALSE]
            /\ retry' = "due"
            /\ w' = Work("reserve", op.id + 1, FALSE, 0)
    /\ UNCHANGED <<row, env, guest, made, seen, veto>>

\* Mutant: the scan lists starts only.
ScanStarts ==
    /\ seen.id = 0 /\ ~w.dueOnly
    /\ op.state = "pending" /\ retry = "due"
    /\ seen' = [id |-> op.id, state |-> op.state]
    /\ UNCHANGED <<row, env, op, retry, guest, made, w, veto>>

\* outstanding: due starts and cancelled ones that still need their cleanup.
\* The reconciler takes one operation after the other.
Scan ==
    /\ seen.id = 0 /\ ~w.dueOnly
    /\ \/ op.state = "pending" /\ retry = "due"
       \/ op.state = "cancelled" /\ ~op.clean
    /\ seen' = [id |-> op.id, state |-> op.state]
    /\ UNCHANGED <<row, env, op, retry, guest, made, w, veto>>

\* defer: an active update, or the lock not had within a second.
Defer ==
    /\ seen.id # 0
    /\ ~Free \/ (updating /\ seen.state = "pending")
    /\ retry' = IF Pending(seen.id) THEN "later" ELSE retry
    /\ seen' = [id |-> 0, state |-> "none"]
    /\ UNCHANGED <<row, env, op, guest, made, w, veto>>

\* reconcile_agent_start under the lock: clean up what was cancelled when read,
\* else recover: cancel what no longer stands, or attempt it again.
Reconcile ==
    /\ seen.id # 0 /\ Free
    /\ seen.state = "pending" => ~updating
    /\ IF seen.state = "pending" /\ op.id = seen.id /\ op.state = "pending" /\ ~Active(op.id)
       THEN Cancel ELSE UNCHANGED <<op, retry>>
    /\ w' = Work(IF seen.state = "pending" /\ Active(seen.id) THEN "reserve" ELSE "cleanup",
                  seen.id, TRUE, 0)
    /\ seen' = [id |-> 0, state |-> "none"]
    /\ UNCHANGED <<row, env, guest, made, veto>>

\* reserve: an attempt is charged to the schedule before Docker is called.  An
\* explicit start does not wait for its time.
Reserve ==
    /\ w.pc = "reserve"
    /\ IF Active(w.op) /\ (w.dueOnly => retry = "due")
       THEN retry' = "later" /\ Goto("find")
       ELSE UNCHANGED retry /\ Release
    /\ UNCHANGED <<row, env, op, guest, made, seen, veto>>

\* fail: a refusal by configuration or ownership waits for an operator, any
\* other failure for its time.
Fail(lasting) ==
    /\ retry' = IF Pending(w.op) /\ lasting THEN "never" ELSE retry
    /\ Release

\* start_guest adopts the guest of the name: observe records it in a pending
\* or a cancelled operation, and only a pending one goes on.
Observe ==
    /\ w.pc = "find" /\ guest.id # 0
    /\ IF op.id = w.op /\ op.state \in {"pending", "cancelled"}
       THEN op' = [op EXCEPT !.candidate = guest.id]
       ELSE UNCHANGED op
    /\ IF Pending(w.op)
       THEN w' = [w EXCEPT !.pc = IF guest.up THEN "ready" ELSE "resume", !.cont = guest.id] /\ UNCHANGED retry
       ELSE Fail(FALSE)
    /\ UNCHANGED <<row, env, guest, made, seen, veto>>

Resume ==
    /\ w.pc = "resume"
    /\ guest' = IF guest.id = w.cont THEN [guest EXCEPT !.up = TRUE] ELSE guest
    /\ Goto("ready")
    /\ UNCHANGED <<row, env, op, retry, made, seen, veto>>

\* replace_container(create_only): the container carries its operation's label.
Create ==
    /\ w.pc = "find" /\ guest.id = 0 /\ made < MaxGuests
    /\ guest' = [id |-> made + 1, label |-> w.op, up |-> TRUE]
    /\ made' = made + 1
    /\ w' = [w EXCEPT !.pc = "ready", !.created = TRUE, !.cont = made + 1]
    /\ UNCHANGED <<row, env, op, retry, seen, veto>>

\* Admission, preflight, ownership or Docker refuses.
Refuse(lasting) ==
    /\ w.pc \in {"find", "resume"}
    /\ Fail(lasting)
    /\ UNCHANGED <<row, env, op, guest, made, seen, veto>>

\* guest_ready passes twice, or its time is up: a container this attempt made
\* is stopped again.
Ready ==
    /\ w.pc = "ready" /\ guest.id = w.cont /\ guest.up
    /\ Goto("publish")
    /\ UNCHANGED <<row, env, op, retry, guest, made, seen, veto>>

NotReady ==
    /\ w.pc = "ready"
    /\ guest' = IF w.created /\ guest.id = w.cont THEN [guest EXCEPT !.up = FALSE] ELSE guest
    /\ Fail(FALSE)
    /\ UNCHANGED <<row, env, op, made, seen, veto>>

\* Mutant: publication compares the container and the owner, not the state.
PublishCancelled ==
    /\ w.pc = "publish"
    /\ IF op.id = w.op /\ op.mine /\ row.container = op.expected
       THEN /\ row' = [status |-> "running", container |-> w.cont]
            /\ op' = [op EXCEPT !.state = "succeeded", !.candidate = w.cont]
            /\ retry' = "never" /\ Release
       ELSE Goto("recover") /\ UNCHANGED <<row, op, retry>>
    /\ UNCHANGED <<env, guest, made, seen, veto>>

\* publish: compares operation, owner and expected container, and rechecks
\* the agent's standing, in one transaction.
Publish ==
    /\ w.pc = "publish"
    /\ IF Active(w.op)
       THEN /\ row' = [status |-> "running", container |-> w.cont]
            /\ op' = [op EXCEPT !.state = "succeeded", !.candidate = w.cont]
            /\ retry' = "never" /\ Release
       ELSE Goto("recover") /\ UNCHANGED <<row, op, retry>>
    /\ UNCHANGED <<env, guest, made, seen, veto>>

\* The flush or the publication itself fails, and published finds nothing.
PublishFails ==
    /\ w.pc = "publish"
    /\ Fail(FALSE)
    /\ UNCHANGED <<row, env, op, guest, made, seen, veto>>

RecoverUnpublished ==
    /\ w.pc = "recover"
    /\ IF Pending(w.op) /\ ~Active(w.op) THEN Cancel ELSE UNCHANGED <<op, retry>>
    /\ Goto("cleanup")
    /\ UNCHANGED <<row, env, guest, made, seen, veto>>

\* Mutant: only a guest the operation has observed is stopped.
CleanupObserved ==
    /\ w.pc = "cleanup"
    /\ IF Cancelled(w.op)
       THEN /\ guest' = IF guest.id = op.candidate THEN [guest EXCEPT !.up = FALSE] ELSE guest
            /\ Goto("clean")
       ELSE UNCHANGED guest /\ Release
    /\ UNCHANGED <<row, env, op, retry, made, seen, veto>>

\* cleanup_cancelled_start: stop the guest observed by the operation, or
\* labelled with it.  A start that came through recover also fails.
Cleanup ==
    /\ w.pc = "cleanup"
    /\ IF Cancelled(w.op)
       THEN /\ guest' = IF guest.id # 0 /\ (guest.id = op.candidate \/ guest.label = op.id)
                        THEN [guest EXCEPT !.up = FALSE] ELSE guest
            /\ Goto("clean")
       ELSE UNCHANGED guest /\ Release
    /\ UNCHANGED <<row, env, op, retry, made, seen, veto>>

\* cleanup_complete, once the guest is down.
MarkClean ==
    /\ w.pc = "clean"
    /\ op' = IF Cancelled(w.op) THEN [op EXCEPT !.clean = TRUE] ELSE op
    /\ Release
    /\ UNCHANGED <<row, env, retry, guest, made, seen, veto>>

CleanupFails ==
    /\ w.pc \in {"cleanup", "clean"}
    /\ Release
    /\ UNCHANGED <<row, env, op, retry, guest, made, seen, veto>>

-----------------------------------------------------------------------------
\* stop_agent_guest: cancel, stop, save; the lock is held throughout.
RequestStop ==
    /\ Free /\ ~updating
    /\ Cancel
    /\ w' = Work("stop", 0, FALSE, row.container)
    /\ UNCHANGED <<row, env, guest, made, seen, veto>>

\* stop_container: a failure keeps the reference for the worker, a guest that
\* is missing drops it.
StopGuest(fails) ==
    /\ w.pc = "stop"
    /\ IF fails THEN UNCHANGED guest /\ Goto("persist")
       ELSE /\ guest' = [guest EXCEPT !.up = FALSE]
            /\ w' = [w EXCEPT !.pc = "persist", !.cont = IF guest.id = 0 THEN 0 ELSE @]
    /\ UNCHANGED <<row, env, op, retry, made, seen, veto>>

PersistStop ==
    /\ w.pc = "persist"
    /\ row' = [status |-> "stopped", container |-> w.cont]
    /\ veto' = op.id
    /\ Release
    /\ UNCHANGED <<env, op, retry, guest, made, seen>>

\* stop_containers: read again under the lock, then one Docker call.
StopSweep ==
    /\ Free /\ row.status = "stopped" /\ row.container # 0
    /\ guest' = [guest EXCEPT !.up = FALSE]
    /\ row' = [row EXCEPT !.container = IF guest.id = 0 THEN 0 ELSE @]
    /\ UNCHANGED <<env, op, retry, made, seen, w, veto>>

\* prepare_container_stops: without the lock.
ExpirySweep ==
    /\ standing = "expired" /\ (row.status # "stopped" \/ op.state = "pending")
    /\ row' = [row EXCEPT !.status = "stopped"]
    /\ Cancel
    /\ veto' = op.id
    /\ UNCHANGED <<env, guest, made, seen, w>>

\* disable_for_tenant, disable_for_creator: without the lock.
Disable ==
    /\ standing # "off"
    /\ standing' = "off"
    /\ row' = [row EXCEPT !.status = "stopped"]
    /\ Cancel
    /\ veto' = op.id
    /\ UNCHANGED <<updating, guest, made, seen, w>>

\* touch_openclaw: a poll of the guest.
Poll ==
    /\ guest.up /\ row.status = "idle" /\ standing = "good" /\ op.state # "pending"
    /\ row' = [row EXCEPT !.status = "running"]
    /\ UNCHANGED <<env, op, retry, guest, made, seen, w, veto>>

-----------------------------------------------------------------------------
\* Reinstatement, the agent's expiry, an ownership transfer, an update run,
\* the retry time, an operator who removes the container (while the bound leaves
\* room for another).
Reinstate == standing # "good" /\ standing' = "good"
             /\ UNCHANGED <<row, op, retry, updating, guest, made, seen, w, veto>>
ExpiryPasses == standing = "good" /\ standing' = "expired"
                /\ UNCHANGED <<row, op, retry, updating, guest, made, seen, w, veto>>
Transfer == op.state = "pending" /\ op.mine /\ op' = [op EXCEPT !.mine = FALSE]
            /\ UNCHANGED <<row, env, retry, guest, made, seen, w, veto>>
UpdateRun == updating' = ~updating /\ UNCHANGED <<row, standing, op, retry, guest, made, seen, w, veto>>
RetryDue == retry = "later" /\ retry' = "due"
            /\ UNCHANGED <<row, env, op, guest, made, seen, w, veto>>
GuestRemoved == guest.id # 0 /\ made < MaxGuests /\ guest' = NoGuest
                /\ UNCHANGED <<row, env, op, retry, made, seen, w, veto>>

\* The engine dies: the lock and the reconciler's list are gone.
Crash ==
    /\ ~Free \/ seen.id # 0
    /\ Release /\ seen' = [id |-> 0, state |-> "none"]
    /\ UNCHANGED <<row, env, op, retry, guest, made, veto>>

\* What goes wrong in an attempt; a guest that is up and never ready.
GuestHangs == NotReady /\ guest.id = w.cont /\ guest.up
Trouble ==
    \/ Crash \/ GuestHangs \/ PublishFails \/ CleanupFails
    \/ \E b \in BOOLEAN : Refuse(b)
    \/ StopGuest(TRUE)

Calm ==
    \/ RequestStart \/ Scan \/ Defer \/ Reconcile \/ Reserve \/ Observe \/ Resume \/ Create
    \/ StopGuest(FALSE) \/ Ready \/ (NotReady /\ ~(guest.id = w.cont /\ guest.up))
    \/ Publish \/ RecoverUnpublished \/ Cleanup \/ MarkClean
    \/ RequestStop \/ PersistStop \/ StopSweep \/ ExpirySweep \/ Disable \/ Poll
    \/ Reinstate \/ ExpiryPasses \/ Transfer \/ UpdateRun \/ RetryDue \/ GuestRemoved

Next == Calm \/ Trouble

Spec == Init /\ [][Next]_vars

\* The reconciler and the stop worker run for ever and find the lock free
\* again and again, and from some time on attempts succeed.
Fairness ==
    /\ WF_vars(Scan /\ Free /\ ~updating) /\ WF_vars(Reconcile)
    /\ WF_vars(Reserve \/ Observe \/ Resume \/ Create \/ Ready \/ NotReady \/ Publish)
    /\ WF_vars(RecoverUnpublished) /\ WF_vars(Cleanup \/ MarkClean) /\ WF_vars(RetryDue)
    /\ WF_vars(\E b \in BOOLEAN : StopGuest(b)) /\ WF_vars(PersistStop)
    /\ SF_vars(StopSweep)
    /\ <>[][Calm]_vars

FairSpec == Spec /\ Fairness

-----------------------------------------------------------------------------
\* A cancelled start that counts as cleaned up has left nothing running: the
\* guest it made, or had found, is down.
CleanedIsQuiet ==
    op.state = "cancelled" /\ op.clean /\ guest.up => guest.label # op.id /\ guest.id # op.candidate

\* What a start test says of the operation row, for any guest: it "survives
\* ... until its writer is quiesced".  A guest that is up and that neither
\* the agent nor an open operation accounts for is nobody's to stop.
EveryWriterIsOwned ==
    guest.up => row.container # 0 \/ row.status # "stopped"
                \/ op.state = "pending" \/ (op.state = "cancelled" /\ ~op.clean)

\* Recovery never revives: an agent that was stopped, disabled or expired runs
\* again only by a start requested afterwards.
NoRevival == [][row.status = "stopped" /\ row'.status = "running" => op'.id > veto]_vars

\* The inductive invariant.  Who works for an operation under the lock works
\* for the newest one, and nobody else can clean it up; while an agent is being
\* stopped no start is pending, and before a cleanup is recorded the guest is
\* down.
LockStands ==
    /\ w.pc \in {"reserve", "find", "resume", "ready", "publish", "recover"} =>
          w.op = op.id /\ ~op.clean
    /\ w.pc = "resume" => w.cont # 0
    /\ w.pc \in {"stop", "persist"} => op.state # "pending"
    /\ w.pc = "clean" =>
          /\ Cancelled(w.op)
          /\ guest.up => guest.label # op.id /\ guest.id # op.candidate
PendingIsNew == veto <= op.id /\ (op.state = "pending" => ~op.clean /\ veto < op.id)
StartInv ==
    TypeOK /\ LockStands /\ PendingIsNew /\ CleanedIsQuiet /\ (guest.up => guest.id # 0)

\* Once users and updates leave the agent alone, a start intent settles:
\* published, or cancelled and its guest stopped, or left to an operator.  And
\* a stopped agent's guest goes down unless the agent is started again.
Disturbance == RequestStart \/ RequestStop \/ Reinstate \/ ExpiryPasses
Unsettled ==
    (op.state = "pending" /\ retry # "never") \/ (op.state = "cancelled" /\ ~op.clean)
LifecycleSettles ==
    /\ <>[]~updating /\ <>[][~Disturbance]_vars => (Unsettled ~> ~Unsettled)
    /\ (row.status = "stopped" /\ row.container # 0 /\ guest.up) ~> (~guest.up \/ row.status # "stopped")
=============================================================================
