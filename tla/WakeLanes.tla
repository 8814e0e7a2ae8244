----------------------------- MODULE WakeLanes ------------------------------
(***************************************************************************)
(* The in-process wake scheduler of one agent: _schedule_inbox_wake, the   *)
(* drain task it starts, and one task per lane, which run turns one after  *)
(* the other under the agent's semaphore.  All of it runs on one event     *)
(* loop, so an action is what happens between two awaits; the flags        *)
(* _wake_running, _wake_again, _lane_running and _lane_again carry what a  *)
(* task may miss while it waits.                                           *)
(*                                                                         *)
(* The queue itself is the database's: rows of a lane are numbered, other  *)
(* processes claim and settle them too.  The claim and the outcome of a    *)
(* turn are those of OrdinaryLane and SharedLane, by their effect here.    *)
(***************************************************************************)
EXTENDS Naturals, FiniteSets

CONSTANTS
    Lane,           \* conversations of the agent
    Watched,        \* any one of them: the liveness property is about it
    MaxParallel,    \* OPENCLAW_AGENT_MAX_PARALLEL_TURNS, at least 1
    Sem,            \* identities of asyncio.Semaphore objects
    NoSem,          \* not in Sem
    MaxRows         \* bound: rows per lane

VARIABLES
    accepting,      \* _wake_admission.accepting
    wakeRunning,    \* agent.id in _wake_running
    wakeAgain,      \* agent.id in _wake_again
    drain,          \* the _run task: none, new (not yet started), list (awaits
                    \* the heads), page (has them)
    heads,          \* the heads it has read, by lane; 0 is none
    laneRunning,    \* lanes in _lane_running
    laneAgain,      \* lanes in _lane_again
    sem,            \* _wake_semaphores[agent.id], or NoSem
    tasks,          \* run_lane tasks
    tail,           \* rows of the lane ever committed
    gone,           \* rows of the lane completed; the next one is the oldest
    busy,           \* lanes whose oldest row is delivered
    owed            \* history: a wake found the lane running, and no lane_head
                    \* was read since

flagVars == <<wakeRunning, wakeAgain, laneRunning, laneAgain, sem>>
rowVars == <<tail, gone, busy>>
vars == <<accepting, flagVars, drain, heads, tasks, rowVars, owed>>

\* gate: waits for the semaphore; turn: before the claim; run: with a claim;
\* list: awaits lane_head; head: has its answer in row (0 is None).
Task == [lane : Lane, sem : Sem, row : 0..MaxRows, pc : {"gate", "turn", "run", "list", "head"}]

TypeOK ==
    /\ {accepting, wakeRunning, wakeAgain} \subseteq BOOLEAN
    /\ drain \in {"none", "new", "list", "page"}
    /\ heads \in [Lane -> 0..MaxRows]
    /\ laneRunning \subseteq Lane
    /\ laneAgain \subseteq Lane
    /\ sem \in Sem \cup {NoSem}
    /\ tasks \subseteq Task
    /\ tail \in [Lane -> 0..MaxRows]
    /\ gone \in [Lane -> 0..MaxRows]
    /\ busy \subseteq Lane
    /\ owed \subseteq Lane

Init ==
    /\ accepting = TRUE
    /\ wakeRunning = FALSE
    /\ wakeAgain = FALSE
    /\ drain = "none"
    /\ heads = [l \in Lane |-> 0]
    /\ laneRunning = {}
    /\ laneAgain = {}
    /\ sem = NoSem
    /\ tasks = {}
    /\ tail = [l \in Lane |-> 0]
    /\ gone = [l \in Lane |-> 0]
    /\ busy = {}
    /\ owed = {}

-----------------------------------------------------------------------------
(* The queue.                                                              *)

\* Mutant: the numbering runs past the newest row.
HeadPastTail(l) == IF l \in busy THEN gone[l] + 2 ELSE gone[l] + 1

\* lane_head: the oldest pending row, also behind a delivered one; 0 is None.
HeadOf(l) ==
    LET first == IF l \in busy THEN gone[l] + 2 ELSE gone[l] + 1
    IN  IF first <= tail[l] THEN first ELSE 0

Claimable(l) == l \notin busy /\ HeadOf(l) # 0

\* Another process claims the head, or a row is released by it.
Elsewhere(l) ==
    /\ ~ \E t \in tasks : t.lane = l /\ t.pc = "run" /\ gone[l] < t.row
    /\ \/ Claimable(l) /\ busy' = busy \cup {l}
       \/ l \in busy /\ busy' = busy \ {l}
    /\ UNCHANGED <<accepting, flagVars, drain, heads, tasks, tail, gone, owed>>

\* The oldest row is completed by a report, a notice or a cancellation, or by
\* another process.
Settle(l) ==
    /\ gone[l] < tail[l]
    /\ gone' = [gone EXCEPT ![l] = @ + 1]
    /\ busy' = busy \ {l}
    /\ UNCHANGED <<accepting, flagVars, drain, heads, tasks, tail, owed>>

Commit(l) ==
    /\ tail[l] < MaxRows
    /\ tail' = [tail EXCEPT ![l] = @ + 1]
    /\ UNCHANGED <<accepting, flagVars, drain, heads, tasks, gone, busy, owed>>

-----------------------------------------------------------------------------
(* The drain task.                                                         *)

\* _schedule_inbox_wake outside of a transaction: a wake during a drain is only
\* noted.
Schedule ==
    /\ accepting
    /\ IF wakeRunning
       THEN wakeAgain' = TRUE /\ UNCHANGED <<wakeRunning, drain>>
       ELSE wakeRunning' = TRUE /\ drain' = "new" /\ UNCHANGED wakeAgain
    /\ UNCHANGED <<accepting, laneRunning, laneAgain, sem, heads, tasks, rowVars, owed>>

\* The new task's first step drops the notes made before it ran.
StartDrain ==
    /\ drain = "new"
    /\ drain' = "list"
    /\ wakeAgain' = FALSE
    /\ UNCHANGED <<accepting, wakeRunning, laneRunning, laneAgain, sem, heads, tasks, rowVars, owed>>

\* lane_heads_page, read in the database.
ReadHeads ==
    /\ drain = "list"
    /\ heads' = [l \in Lane |-> HeadOf(l)]
    /\ drain' = "page"
    /\ UNCHANGED <<accepting, flagVars, tasks, rowVars, owed>>

\* Mutant: the end of a drain drops the semaphore under running lanes.
ForgetEarly(running, lanes, s) == IF running \/ lanes = Lane THEN s ELSE NoSem

\* _forget_idle_semaphore, given the flags after the step.
Forget(running, lanes, s) == IF running \/ lanes # {} THEN s ELSE NoSem

\* _start_lane for every head; a lane that runs is told to look again.  Then
\* the drain goes round again, or ends.
ApplyHeads ==
    LET found == IF accepting THEN {l \in Lane : heads[l] # 0} ELSE {}
        started == found \ laneRunning
        again == wakeAgain /\ accepting
    IN
    /\ drain = "page"
    /\ \E s \in Sem :
          /\ IF sem # NoSem THEN s = sem ELSE \A t \in tasks : t.sem # s
          /\ laneRunning' = laneRunning \cup started
          /\ laneAgain' = laneAgain \cup (found \cap laneRunning)
          /\ owed' = owed \cup (found \cap laneRunning)
          /\ tasks' = tasks \cup {[lane |-> l, sem |-> s, row |-> heads[l], pc |-> "gate"] : l \in started}
          /\ sem' = Forget(again, laneRunning', IF started # {} THEN s ELSE sem)
    /\ wakeAgain' = FALSE
    /\ wakeRunning' = again
    /\ drain' = IF again THEN "list" ELSE "none"
    /\ heads' = [l \in Lane |-> 0]
    /\ UNCHANGED <<accepting, rowVars>>

\* Mutant: a failed drain stays in _wake_running.
DrainFailsFlagged ==
    /\ drain = "list"
    /\ drain' = "none"
    /\ heads' = [l \in Lane |-> 0]
    /\ UNCHANGED <<accepting, flagVars, tasks, rowVars, owed>>

\* The query fails, or the task is cancelled by the drain at shutdown.
DrainFails ==
    /\ drain = "list" \/ (drain = "page" /\ ~accepting)
    /\ drain' = "none"
    /\ wakeRunning' = FALSE
    /\ wakeAgain' = FALSE
    /\ heads' = [l \in Lane |-> 0]
    /\ sem' = Forget(FALSE, laneRunning, sem)
    /\ UNCHANGED <<accepting, laneRunning, laneAgain, tasks, rowVars, owed>>

-----------------------------------------------------------------------------
(* A lane task.                                                            *)

To(t, u) == tasks' = (tasks \ {t}) \cup {u}

\* Mutant: the lane's flag outlives its task.
EndLaneFlagged(t) ==
    /\ tasks' = tasks \ {t}
    /\ laneAgain' = laneAgain \ {t.lane}
    /\ UNCHANGED <<laneRunning, sem>>

\* The finally block of run_lane.
EndLane(t) ==
    /\ tasks' = tasks \ {t}
    /\ laneRunning' = laneRunning \ {t.lane}
    /\ laneAgain' = laneAgain \ {t.lane}
    /\ sem' = Forget(wakeRunning, laneRunning', sem)

Permits(s) == MaxParallel - Cardinality({t \in tasks : t.sem = s /\ t.pc \in {"turn", "run"}})

\* The semaphore is taken; a closed admission ends the lane.
Enter(t) ==
    /\ t.pc = "gate"
    /\ Permits(t.sem) > 0
    /\ IF accepting
       THEN To(t, [t EXCEPT !.pc = "turn"]) /\ UNCHANGED <<laneRunning, laneAgain, sem, owed>>
       ELSE EndLane(t) /\ owed' = owed \ {t.lane}
    /\ UNCHANGED <<accepting, wakeRunning, wakeAgain, drain, heads, rowVars>>

\* The rest of the loop body after _run_inbox_wake: with a noted wake the note
\* is dropped BEFORE the lane is looked at again; without one the lane ends.
AfterTurn(t) ==
    IF t.lane \in laneAgain
    THEN /\ laneAgain' = laneAgain \ {t.lane}
         /\ To(t, [t EXCEPT !.pc = "list"])
         /\ UNCHANGED <<laneRunning, sem, owed>>
    ELSE EndLane(t) /\ UNCHANGED owed

ClaimRow(t) ==
    /\ t.pc = "turn"
    /\ t.lane \notin busy
    /\ t.row = HeadOf(t.lane)
    /\ busy' = busy \cup {t.lane}
    /\ To(t, [t EXCEPT !.pc = "run"])
    /\ UNCHANGED <<accepting, flagVars, drain, heads, tail, gone, owed>>

\* The row is not the pending head any more, the lane is occupied, the gate is
\* closed or the claim is refused otherwise.
ClaimMissed(t) ==
    /\ t.pc = "turn"
    /\ AfterTurn(t)
    /\ UNCHANGED <<accepting, wakeRunning, wakeAgain, drain, heads, rowVars>>

\* The turn is over: settled, released, or retained as uncertain.  A row that
\* someone else has completed meanwhile is left alone.
EndTurn(t) ==
    /\ t.pc = "run"
    /\ AfterTurn(t)
    /\ \/ /\ gone[t.lane] < t.row /\ gone' = [gone EXCEPT ![t.lane] = t.row]
          /\ busy' = busy \ {t.lane}
       \/ /\ gone[t.lane] < t.row /\ busy' = busy \ {t.lane} /\ UNCHANGED gone
       \/ UNCHANGED <<busy, gone>>
    /\ UNCHANGED <<accepting, wakeRunning, wakeAgain, drain, heads, tail>>

ReadLane(t) ==
    /\ t.pc = "list"
    /\ To(t, [t EXCEPT !.pc = "head", !.row = HeadOf(t.lane)])
    /\ owed' = owed \ {t.lane}
    /\ UNCHANGED <<accepting, flagVars, drain, heads, rowVars>>

\* Mutant: an empty lane ends its task, whatever was noted during the read.
TakeHeadOnce(t) ==
    /\ t.pc = "head"
    /\ IF t.row # 0
       THEN To(t, [t EXCEPT !.pc = "gate"]) /\ UNCHANGED <<laneRunning, laneAgain, sem>>
       ELSE EndLane(t)
    /\ UNCHANGED <<accepting, wakeRunning, wakeAgain, drain, heads, rowVars, owed>>

\* With a head the loop goes on; without one it looks again only if another
\* wake was noted during the read.
TakeHead(t) ==
    /\ t.pc = "head"
    /\ \/ /\ t.row # 0
          /\ To(t, [t EXCEPT !.pc = "gate"])
          /\ UNCHANGED <<laneRunning, laneAgain, sem, owed>>
       \/ /\ t.row = 0
          /\ AfterTurn(t)
    /\ UNCHANGED <<accepting, wakeRunning, wakeAgain, drain, heads, rowVars>>

\* The query fails (a turn catches its own exceptions), or the task is
\* cancelled at shutdown: the finally block runs; a claimed row keeps its claim.
LaneFails(t) ==
    /\ t.pc = "list" \/ ~accepting
    /\ EndLane(t)
    /\ owed' = owed \ {t.lane}
    /\ UNCHANGED <<accepting, wakeRunning, wakeAgain, drain, heads, rowVars>>

-----------------------------------------------------------------------------
(* Lifecycle.                                                              *)

CloseAdmission ==
    /\ accepting
    /\ accepting' = FALSE
    /\ UNCHANGED <<flagVars, drain, heads, tasks, rowVars, owed>>

Drained == ~accepting /\ tasks = {} /\ drain = "none"

\* The next lifespan of the process finds the module's tables as they are.
OpenAdmission ==
    /\ Drained
    /\ accepting' = TRUE
    /\ UNCHANGED <<flagVars, drain, heads, tasks, rowVars, owed>>

LaneStep(t) == Enter(t) \/ ClaimRow(t) \/ ClaimMissed(t) \/ EndTurn(t) \/ ReadLane(t) \/ TakeHead(t)

Next ==
    \/ \E l \in Lane : Commit(l) \/ Settle(l) \/ Elsewhere(l)
    \/ Schedule
    \/ StartDrain
    \/ ReadHeads
    \/ ApplyHeads
    \/ DrainFails
    \/ \E t \in tasks : LaneStep(t) \/ LaneFails(t)
    \/ CloseAdmission
    \/ OpenAdmission

Spec == Init /\ [][Next]_vars

-----------------------------------------------------------------------------
(* Properties.                                                             *)

\* Flags and tasks agree: a flag without its task would leave the agent, or
\* the conversation, without a runner for ever, also in the next lifespan of
\* the process, and a task without its flag would let a second one start.
FlagsFollowTasks ==
    /\ wakeRunning <=> drain # "none"
    /\ wakeAgain => wakeRunning
    /\ laneRunning = {t.lane : t \in tasks}
    /\ laneAgain \subseteq laneRunning
    /\ \A t, u \in tasks : t.lane = u.lane => t = u

\* All tasks wait for the same semaphore, and an idle agent has none.
OneSemaphore ==
    /\ \A t \in tasks : t.sem = sem
    /\ sem # NoSem => wakeRunning \/ laneRunning # {}

\* No more turns than OPENCLAW_AGENT_MAX_PARALLEL_TURNS at a time, although the
\* semaphore is dropped and made anew whenever the agent is idle.
InTurn == {t \in tasks : t.pc \in {"turn", "run"}}
ParallelBound == Cardinality(InTurn) <= MaxParallel

\* A wake that finds its lane running is honoured: unless the task fails or
\* admission closes, the note is kept until the task is about to look again.
NotedWakeIsServed ==
    \A l \in owed : l \in laneAgain \/ \E t \in tasks : t.lane = l /\ t.pc = "list"

\* The wake scheduler's books: flags, semaphore, bound and noted wakes, across
\* failures, shutdown and the next lifespan.
WakeSafety ==
    TypeOK /\ FlagsFollowTasks /\ OneSemaphore /\ ParallelBound /\ NotedWakeIsServed

-----------------------------------------------------------------------------
(* Liveness.  The reconciler wakes the agent every second as long as a head *)
(* is claimable, every task makes progress, and the waiters of the          *)
(* semaphore are served in their order.  From some time on queries succeed  *)
(* and the claim of a head that can be claimed is not refused.              *)

ForLane(l, A(_)) == \E t \in tasks : t.lane = l /\ A(t)

Refused(t) == ClaimMissed(t) /\ t.lane \notin busy /\ t.row = HeadOf(t.lane)
Calm ==
    \/ \E l \in Lane : Commit(l) \/ Settle(l) \/ Elsewhere(l)
    \/ Schedule \/ StartDrain \/ ReadHeads \/ ApplyHeads \/ CloseAdmission \/ OpenAdmission
    \/ \E t \in tasks : LaneFails(t) \/ (LaneStep(t) /\ ~Refused(t))

Fairness ==
    /\ WF_vars(Schedule /\ \E l \in Lane : Claimable(l))
    /\ WF_vars(StartDrain \/ ReadHeads \/ ApplyHeads)
    /\ \A l \in Lane : WF_vars(ForLane(l, LaneStep))
    /\ SF_vars(ForLane(Watched, Enter))
    /\ <>[][Calm]_vars

FairSpec == Spec /\ Fairness

\* While admission stays open a claimable head of a lane does not wait for ever, however
\* the wakes for it were coalesced, dropped or overtaken.
ClaimableIsServed ==
    <>[]accepting => (Claimable(Watched) ~> ~Claimable(Watched))
=============================================================================
