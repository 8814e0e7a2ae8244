--------------------------- MODULE BackgroundProofs ---------------------------
(* The three users of the lease of background work, for any number of rows    *)
(* and claims.  The lemmas about the lease itself are LeaseHold's, cited of   *)
(* each user's own rows: Tasks!ShutHolds is ShutHolds of kOwner, kLive, ...   *)
EXTENDS MCBackground, FiniteSetTheorems, TLAPS

-----------------------------------------------------------------------------
(* Task runs.                                                                 *)

\* The lease's assumption, and its invariant after a step.
LEMMA TaskClaims == Tasks!ClaimAssumption
BY ClaimAssumption, BackgroundAssumption DEF Tasks!IsFiniteSet, IsFiniteSet

LEMMA TaskLease == Tasks!HoldInv(edited)' <=> Tasks!Holds(edited')
BY DEF Tasks!HoldInv, Tasks!HeldIsOwned, Tasks!Holds

\* The types of what a task run adds to the lease.
TaskTypes ==
    /\ status \in [Task -> Tasks!Status]
    /\ log \in [Task -> Tasks!Entry]
    /\ author \in [Task -> Claim \cup {NoClaim}]
    /\ edited \subseteq Claim
    /\ edits \in 0 .. MaxEdits

\* The invariant of task runs by its parts.
LEMMA TaskParts ==
    /\ Tasks!TaskInv <=> Tasks!HoldInv(edited) /\ TaskTypes /\ Tasks!LogIsTrue
    /\ Tasks!TaskInv' <=> Tasks!Holds(edited') /\ TaskTypes' /\ Tasks!LogIsTrue'
BY TaskLease DEF Tasks!TaskInv, Tasks!TypeOK, Tasks!Status, Tasks!Entry, TaskTypes, Tasks!HoldInv,
                 Tasks!Holds

\* A run settles its task under the fence of its lease, or finds it lost; both
\* end the claim.
LEMMA TaskSettles ==
    ASSUME Tasks!TaskInv, NEW c \in Claim, NEW i \in Task,
           NEW s \in Tasks!Status, NEW e \in Tasks!Entry, s = "done" => e = "completed",
           Tasks!Settle(c, i, s, e), Tasks!Step(c, "free", FALSE),
           UNCHANGED <<kCovers, author, edited, edits>>
    PROVE  Tasks!TaskInv'
<1>1. Tasks!HoldInv(edited) /\ TaskTypes /\ Tasks!LogIsTrue /\ Tasks!Step(c, "free", FALSE)
    BY TaskParts DEF Tasks!Step
<1>2. CASE Tasks!Fenced(c, i)
  <2>1. /\ Tasks!Clear({i}) /\ kOwner[i] = c
        /\ status' = [status EXCEPT ![i] = s] /\ log' = [log EXCEPT ![i] = e]
    BY <1>2 DEF Tasks!Settle, Tasks!Clear, Tasks!Fenced
  <2>2. Tasks!Holds(edited')
    BY <1>1, <2>1, TaskClaims, Tasks!LeaveHolds
  <2>3. TaskTypes'
    BY <1>1, <2>1 DEF TaskTypes
  <2>4. Tasks!LogIsTrue'
    BY <1>1, <2>1 DEF TaskTypes, Tasks!LogIsTrue, Tasks!Clear
  <2> QED BY <2>2, <2>3, <2>4, TaskParts
<1>3. CASE ~Tasks!Fenced(c, i)
  <2>1. UNCHANGED <<kOwner, kLive, status, log>>
    BY <1>3 DEF Tasks!Settle
  <2>2. Tasks!Holds(edited')
    BY <1>1, <2>1, TaskClaims, Tasks!ShutHolds DEF Tasks!Phase
  <2>3. TaskTypes' /\ Tasks!LogIsTrue'
    BY <1>1, <2>1 DEF TaskTypes, Tasks!LogIsTrue
  <2> QED BY <2>2, <2>3, TaskParts
<1> QED BY <1>2, <1>3

\* A claim takes a task that nobody leases; the log is about it from now on.
LEMMA ClaimTaskInv ==
    ASSUME Tasks!TaskInv, NEW c \in Claim, NEW i \in Task, Tasks!ClaimTask(c, i)
    PROVE  Tasks!TaskInv'
<1>1. Tasks!HoldInv(edited) /\ TaskTypes /\ Tasks!LogIsTrue
    BY TaskParts
<1>2. /\ kOwner[i] = NoClaim \/ ~kLive[i]
      /\ kPhase[c] \in {"free", "dead"} /\ Tasks!Take(c, {i})
      /\ status' = [status EXCEPT ![i] = "doing"] /\ log' = [log EXCEPT ![i] = "none"]
      /\ author' = [author EXCEPT ![i] = c] /\ edited' = edited \ {c} /\ edits' = edits
    BY DEF Tasks!ClaimTask, Tasks!Unused, Tasks!Take
<1>3. Tasks!Holds(edited')
    BY <1>1, <1>2, TaskClaims, Tasks!TakeHolds
<1>4. TaskTypes'
    BY <1>1, <1>2 DEF TaskTypes, Tasks!Status, Tasks!Entry
<1>5. Tasks!LogIsTrue'
    BY <1>1, <1>2 DEF TaskTypes, Tasks!LogIsTrue, Tasks!Take
<1> QED BY <1>3, <1>4, <1>5, TaskParts

\* What leaves tokens and rows alone leaves the log true.
LEMMA TaskRest ==
    ASSUME Tasks!TaskInv, Tasks!Holds(edited), UNCHANGED <<kOwner, status, log, author, edited, edits>>
    PROVE  Tasks!TaskInv'
<1>1. TaskTypes /\ Tasks!LogIsTrue
    BY TaskParts
<1>2. TaskTypes' /\ Tasks!LogIsTrue'
    BY <1>1 DEF TaskTypes, Tasks!LogIsTrue
<1> QED BY <1>2, TaskParts

\* The first renewal, the heartbeat, the guard's confirms and a lost hold.
LEMMA KeepAliveInv ==
    ASSUME Tasks!TaskInv, NEW c \in Claim, Tasks!KeepAlive(c)
    PROVE  Tasks!TaskInv'
<1>1. Tasks!HoldInv(edited) /\ UNCHANGED <<status, log, author, edited, edits>>
    BY TaskParts DEF Tasks!KeepAlive, Tasks!rowVars
<1>2. CASE Tasks!Enter(c, TRUE) \/ Tasks!Confirm(c, TRUE)
  <2>1. Tasks!Renew(c, TRUE)
    BY <1>2 DEF Tasks!Enter, Tasks!Confirm, Tasks!Renew, Tasks!Renewable, Tasks!Step
  <2>2. Tasks!Holds(edited) /\ kOwner' = kOwner
    BY <1>1, <2>1, TaskClaims, Tasks!RenewHolds DEF Tasks!Renew
  <2> QED BY <1>1, <2>2, TaskRest
<1>3. CASE Tasks!Fire(c)
  <2>1. Tasks!Fire(c)
    BY <1>3 DEF Tasks!Fire, Tasks!Step
  <2> QED BY <1>1, <2>1, TaskClaims, Tasks!TroubleHolds, TaskRest
<1>4. CASE Tasks!Step(c, "lost", FALSE) /\ UNCHANGED <<kOwner, kLive, kCovers>>
  <2>1. Tasks!Step(c, "lost", FALSE)
    BY <1>4 DEF Tasks!Step
  <2> QED BY <1>1, <1>4, <2>1, TaskClaims, Tasks!ShutHolds, TaskRest DEF Tasks!Phase
<1> QED BY <1>2, <1>3, <1>4 DEF Tasks!KeepAlive

\* The end of the work, the settling statements and the recovery.
LEMMA RunEnds ==
    ASSUME Tasks!TaskInv, NEW c \in Claim,
           Tasks!EndRun(c) \/ Tasks!Complete(c) \/ Tasks!Release(c)
    PROVE  Tasks!TaskInv'
<1>1. Tasks!HoldInv(edited) /\ kCovers[c] \subseteq Task
    BY TaskParts DEF Tasks!HoldInv, Tasks!HoldTypeOK
<1>2. CASE Tasks!EndRun(c)
  <2>1. Tasks!Step(c, "ended", FALSE) /\ UNCHANGED <<kOwner, kLive, kCovers, status, log, author, edited, edits>>
    BY <1>2 DEF Tasks!EndRun, Tasks!Step, Tasks!rowVars
  <2> QED BY <1>1, <2>1, TaskClaims, Tasks!ShutHolds, TaskRest DEF Tasks!Phase
<1>3. CASE Tasks!Complete(c)
  <2>1. PICK i \in kCovers[c], s \in {"done", "pending"} : Tasks!Settle(c, i, s, "completed")
    BY <1>3 DEF Tasks!Complete
  <2>2. Tasks!Step(c, "free", FALSE) /\ UNCHANGED <<kCovers, author, edited, edits>>
    BY <1>3 DEF Tasks!Complete
  <2>3. i \in Task /\ s \in Tasks!Status /\ "completed" \in Tasks!Entry
    BY <1>1 DEF Tasks!Status, Tasks!Entry
  <2> QED BY <2>1, <2>2, <2>3, TaskSettles
<1>4. CASE Tasks!Release(c)
  <2>1. Tasks!Step(c, "free", FALSE) /\ UNCHANGED <<kCovers, author, edited, edits>>
    BY <1>4 DEF Tasks!Release
  <2>2. CASE UNCHANGED <<kOwner, kLive, status, log>>
    <3>1. Tasks!Step(c, "free", FALSE)
        BY <2>1 DEF Tasks!Step
    <3> QED BY <1>1, <2>1, <2>2, <3>1, TaskClaims, Tasks!ShutHolds, TaskRest DEF Tasks!Phase
  <2>3. ASSUME NEW i \in kCovers[c], Tasks!Settle(c, i, "pending", "released")
        PROVE  Tasks!TaskInv'
    <3>1. i \in Task /\ "pending" \in Tasks!Status /\ "released" \in Tasks!Entry
        BY <1>1 DEF Tasks!Status, Tasks!Entry
    <3> QED BY <2>1, <2>3, <3>1, TaskSettles
  <2> QED BY <1>4, <2>2, <2>3 DEF Tasks!Release
<1> QED BY <1>2, <1>3, <1>4

\* The recovery loop takes a task from an expired lease, whose run can only
\* find it lost.
LEMMA RecoverInv ==
    ASSUME Tasks!TaskInv, NEW i \in Task, Tasks!Recover(i)
    PROVE  Tasks!TaskInv'
<1>1. Tasks!HoldInv(edited) /\ TaskTypes /\ Tasks!LogIsTrue
    BY TaskParts
<1>2. /\ ~kLive[i] /\ Tasks!Clear({i}) /\ UNCHANGED <<kCovers, kPhase, kWindow, author, edited, edits>>
      /\ status' = [status EXCEPT ![i] = "pending"] /\ log' = [log EXCEPT ![i] = "recovered"]
    BY DEF Tasks!Recover, Tasks!Clear
<1>3. Tasks!Holds(edited')
    BY <1>1, <1>2, TaskClaims, Tasks!ClearHolds
<1>4. TaskTypes'
    BY <1>1, <1>2 DEF TaskTypes, Tasks!Status, Tasks!Entry
<1>5. Tasks!LogIsTrue'
    BY <1>1, <1>2 DEF TaskTypes, Tasks!LogIsTrue, Tasks!Clear
<1> QED BY <1>3, <1>4, <1>5, TaskParts

\* A user's edit takes the task from its run, which is excused until it renews.
LEMMA EditInv ==
    ASSUME MaxEdits \in Nat, Tasks!TaskInv, NEW i \in Task, NEW s \in Tasks!Status, Tasks!EditStatus(i, s)
    PROVE  Tasks!TaskInv'
<1>1. Tasks!HoldInv(edited) /\ TaskTypes /\ Tasks!LogIsTrue /\ Tasks!HoldTypeOK
    BY TaskParts DEF Tasks!HoldInv
<1>2. edits' = edits + 1 /\ edits < MaxEdits /\ UNCHANGED <<kCovers, kPhase, kWindow, log, author>>
    BY DEF Tasks!EditStatus
<1>3. edits' \in 0 .. MaxEdits /\ edits' # 0
    BY <1>1, <1>2 DEF TaskTypes
<1>4. CASE s # status[i]
  <2>1. /\ Tasks!Clear({i}) /\ status' = [status EXCEPT ![i] = s]
        /\ edited' = IF kOwner[i] = NoClaim THEN edited ELSE edited \cup {kOwner[i]}
    BY <1>4 DEF Tasks!EditStatus, Tasks!Clear
  <2>2. /\ edited \subseteq edited' /\ edited' \subseteq Claim
        /\ kOwner[i] = NoClaim \/ kOwner[i] \in edited'
    BY <1>1, <2>1 DEF Tasks!HoldTypeOK, TaskTypes
  <2>3. Tasks!Holds(edited')
    BY <1>1, <1>2, <2>1, <2>2, TaskClaims, Tasks!ClearHolds
  <2>4. TaskTypes'
    BY <1>1, <1>2, <1>3, <2>1, <2>2 DEF TaskTypes
  <2>5. Tasks!LogIsTrue'
    BY <1>1, <1>2, <1>3, <2>1 DEF TaskTypes, Tasks!LogIsTrue, Tasks!Clear
  <2> QED BY <2>3, <2>4, <2>5, TaskParts
<1>5. CASE s = status[i]
  <2>1. UNCHANGED <<kOwner, kLive, status, edited>>
    BY <1>5 DEF Tasks!EditStatus
  <2>2. Tasks!Holds(edited')
    BY <1>1, <1>2, <2>1 DEF Tasks!HoldInv, Tasks!Holds, Tasks!HoldTypeOK, Tasks!WindowIsWork,
                            Tasks!HeldIsOwned
  <2>3. TaskTypes' /\ Tasks!LogIsTrue'
    BY <1>1, <1>2, <1>3, <2>1 DEF TaskTypes, Tasks!LogIsTrue
  <2> QED BY <2>2, <2>3, TaskParts
<1> QED BY <1>4, <1>5

\* Every step of task runs keeps their invariant.
LEMMA TaskStep ==
    ASSUME MaxEdits \in Nat, Tasks!TaskInv, [Tasks!Next]_Tasks!vars
    PROVE  Tasks!TaskInv'
<1>1. ASSUME NEW c \in Claim, NEW i \in Task, Tasks!ClaimTask(c, i) PROVE Tasks!TaskInv'
    BY <1>1, ClaimTaskInv
<1>2. ASSUME NEW c \in Claim,
             Tasks!KeepAlive(c) \/ Tasks!EndRun(c) \/ Tasks!Complete(c) \/ Tasks!Release(c)
      PROVE  Tasks!TaskInv'
    BY <1>2, KeepAliveInv, RunEnds
<1>3. ASSUME NEW i \in Task, Tasks!Recover(i) PROVE Tasks!TaskInv'
    BY <1>3, RecoverInv
<1>4. ASSUME NEW i \in Task, NEW s \in Tasks!Status, Tasks!EditStatus(i, s) PROVE Tasks!TaskInv'
    BY <1>4, EditInv
<1>5. CASE Tasks!Environment
  <2>1. Tasks!HoldInv(edited) /\ UNCHANGED <<status, log, author, edited, edits>>
    BY <1>5, TaskParts DEF Tasks!Environment, Tasks!rowVars
  <2>2. \/ \E c \in Claim : Tasks!WindowCloses(c) \/ Tasks!Die(c)
        \/ \E i \in Task : Tasks!LeaseExpires(i)
    BY <1>5 DEF Tasks!Environment, Tasks!WindowCloses, Tasks!Die, Tasks!LeaseExpires, Tasks!Step
  <2>3. Tasks!Holds(edited) /\ UNCHANGED <<kOwner, kCovers>>
    BY <2>1, <2>2, TaskClaims, Tasks!TroubleHolds
  <2> QED BY <2>1, <2>3, TaskRest
<1>6. CASE UNCHANGED Tasks!vars
  <2>1. Tasks!HoldInv(edited) /\ UNCHANGED <<kOwner, kLive, kCovers, kPhase, kWindow, status, log, author, edited, edits>>
    BY <1>6, TaskParts DEF Tasks!vars, Tasks!holdVars, Tasks!rowVars
  <2>2. Tasks!Holds(edited)
    BY <2>1 DEF Tasks!HoldInv, Tasks!Holds, Tasks!HoldTypeOK, Tasks!WindowIsWork, Tasks!HeldIsOwned
  <2> QED BY <2>1, <2>2, TaskRest
<1> QED BY <1>1, <1>2, <1>3, <1>4, <1>5, <1>6 DEF Tasks!Next

\* The inductive invariant of task runs.
THEOREM TaskInvariant == ASSUME MaxEdits \in Nat PROVE Tasks!Spec => []Tasks!TaskInv
<1>1. Tasks!Init => Tasks!TaskInv
  <2> SUFFICES ASSUME Tasks!Init PROVE Tasks!TaskInv
    OBVIOUS
  <2>1. Tasks!HoldInv(edited)
    BY DEF Tasks!Init, Tasks!HoldInit, Tasks!RowInit, Tasks!HoldInv, Tasks!HoldTypeOK, Tasks!Phase,
           Tasks!WindowIsWork, Tasks!HeldIsOwned
  <2>2. TaskTypes /\ Tasks!LogIsTrue
    BY DEF Tasks!Init, Tasks!HoldInit, Tasks!RowInit, TaskTypes, Tasks!Status, Tasks!Entry,
           Tasks!LogIsTrue
  <2> QED BY <2>1, <2>2, TaskParts
<1>2. Tasks!TaskInv /\ [Tasks!Next]_Tasks!vars => Tasks!TaskInv'
    BY TaskStep
<1> QED BY <1>1, <1>2, PTL DEF Tasks!Spec

\* One run works on a task at a time, and the log of a task is the truth about
\* its latest run, for any number of tasks and claims.
THEOREM TasksSafe == ASSUME MaxEdits \in Nat PROVE Tasks!Spec => []TaskSafety
<1>1. Tasks!TaskInv => TaskSafety
    BY TaskParts DEF TaskSafety, Tasks!TaskSafety, Tasks!HeldIsOwned, Tasks!HoldInv
<1> QED BY <1>1, TaskInvariant, PTL

-----------------------------------------------------------------------------
(* Schedules.                                                                 *)

\* The types of what a schedule adds to the lease.
ScheduleTypes ==
    /\ enabled \in BOOLEAN /\ due \in BOOLEAN /\ pending \in BOOLEAN
    /\ started \in [Item -> BOOLEAN]
    /\ count \in Nat
    /\ manual \in [Manual -> {"none", "open", "finished", "cancelled"}]
    /\ begun \in [Claim -> BOOLEAN]
    /\ ran \subseteq Item
    /\ fresh \in 0 .. MaxDue /\ logged \in Nat /\ dropped \in Nat
    /\ revoked \subseteq Claim

\* What the invariant says of the slot, of starts and of manual runs.
SlotInv == EachOccurrenceLogged /\ SlotIsLeased
StartInv == OneRow /\ BegunIsStarted /\ RanWasStarted /\ CancelledIsFree

\* The invariant of schedules by its parts.
LEMMA ScheduleParts ==
    /\ ScheduleInv <=> HoldInv(revoked) /\ ScheduleTypes /\ SlotInv /\ CountedLater /\ StartInv
    /\ ScheduleInv' <=> Holds(revoked') /\ ScheduleTypes' /\ SlotInv' /\ CountedLater' /\ StartInv'
BY DEF ScheduleInv, TypeOK, ScheduleTypes, HoldInv, HeldIsOwned, Holds, SlotInv, StartInv

\* The manual runs that were started, and how they grow.
Begun == {m \in Manual : started[m]}

LEMMA BegunCounts ==
    ASSUME ScheduleTypes
    PROVE  /\ Cardinality(Begun) \in Nat
           /\ \A m \in Manual : ~started[m] => Cardinality(Begun \cup {m}) = Cardinality(Begun) + 1
<1>1. IsFiniteSet(Begun)
    BY ClaimAssumption, FS_Subset DEF Begun, Manual
<1>2. \A m \in Manual : ~started[m] => m \notin Begun
    BY DEF Begun
<1> QED BY <1>1, <1>2, FS_CardinalityType, FS_AddElement

\* What leaves counts and starts alone leaves the count right.
LEMMA CountKept ==
    ASSUME CountedLater, ScheduleTypes, UNCHANGED <<started, count, fresh>>, pending' => pending
    PROVE  CountedLater'
<1>1. Cardinality(Begun) \in Nat /\ count \in Int /\ fresh \in Int
    BY BegunCounts DEF ScheduleTypes
<1>2. count + (IF pending /\ ~started[Sched] THEN 1 ELSE 0) <= fresh + Cardinality(Begun)
    BY DEF CountedLater, Begun
<1>3. count + (IF pending' /\ ~started[Sched] THEN 1 ELSE 0) <= fresh + Cardinality(Begun)
    BY <1>1, <1>2
<1> QED BY <1>3 DEF CountedLater, Begun

\* What leaves tokens and rows alone.
LEMMA ScheduleRest ==
    ASSUME ScheduleInv, Holds(revoked), ScheduleTypes',
           UNCHANGED <<owner, covers, pending, manual, countVars, begun, ran, revoked>>
    PROVE  ScheduleInv'
<1>1. ScheduleTypes /\ SlotInv /\ CountedLater /\ StartInv
    BY ScheduleParts
<1>2. SlotInv' /\ StartInv'
    BY <1>1 DEF SlotInv, EachOccurrenceLogged, SlotIsLeased, StartInv, OneRow, BegunIsStarted,
                RanWasStarted, CancelledIsFree, countVars
<1>3. CountedLater'
    BY <1>1, CountKept DEF countVars
<1> QED BY <1>2, <1>3, ScheduleParts

\* A user switches the schedule on, and its time comes.
LEMMA SwitchInv == ASSUME ScheduleInv, BecomesDue \/ Enable PROVE ScheduleInv'
<1>1. /\ HoldInv(revoked) /\ ScheduleTypes
      /\ UNCHANGED <<owner, live, covers, phase, window, pending, manual, countVars, begun, ran, revoked>>
      /\ enabled' \in BOOLEAN /\ due' \in BOOLEAN
    BY ScheduleParts DEF BecomesDue, Enable, holdVars, ScheduleTypes
<1>2. Holds(revoked)
    BY <1>1 DEF HoldInv, Holds, HoldTypeOK, WindowIsWork, HeldIsOwned
<1>3. ScheduleTypes'
    BY <1>1 DEF ScheduleTypes, countVars
<1> QED BY <1>1, <1>2, <1>3, ScheduleRest

\* A claim on a row that nobody leases: the lease's part, and what a claim
\* without a past has begun.
LEMMA TakeItemHolds ==
    ASSUME ScheduleInv, NEW c \in Claim, NEW i \in Item, TakeItem(c, i),
           owner[i] = NoClaim \/ ~live[i]
    PROVE  /\ Holds(revoked') /\ revoked' \subseteq Claim
           /\ begun' \in [Claim -> BOOLEAN]
           /\ \A j \in Item : owner'[j] = IF j = i THEN c ELSE owner[j]
           /\ OneRow'
           /\ \A d \in Claim : begun'[d] => d # c /\ begun[d] /\ covers'[d] = covers[d]
<1>1. HoldInv(revoked) /\ ScheduleTypes /\ StartInv /\ HoldTypeOK
    BY ScheduleParts DEF HoldInv
<1>2. /\ phase[c] \in {"free", "dead"} /\ Take(c, {i})
      /\ begun' = [begun EXCEPT ![c] = FALSE] /\ revoked' = revoked \ {c}
    BY DEF TakeItem, Unused
<1>3. Holds(revoked')
    BY <1>1, <1>2, TakeHolds
<1>4. covers' = [covers EXCEPT ![c] = {i}] /\ \A j \in Item : owner'[j] = IF j = i THEN c ELSE owner[j]
    BY <1>2 DEF Take
<1>5. OneRow'
    BY <1>1, <1>4 DEF StartInv, OneRow, HoldTypeOK
<1> QED BY <1>1, <1>2, <1>3, <1>4, <1>5 DEF ScheduleTypes, HoldTypeOK

\* claim_due with a new occurrence, with an expired one, and claim_pending.
LEMMA ClaimNextInv == ASSUME ScheduleInv, NEW c \in Claim, ClaimNext(c) PROVE ScheduleInv'
<1>1. HoldInv(revoked) /\ ScheduleTypes /\ SlotInv /\ CountedLater /\ StartInv
    BY ScheduleParts
<1>2. c # NoClaim /\ Sched \in Item /\ Sched \notin Manual /\ MaxDue \in Nat
    BY ClaimAssumption, ScheduleAssumption DEF Manual
<1>3. CASE ClaimDue(c)
  <2>1. /\ enabled /\ due /\ ~pending /\ fresh < MaxDue /\ TakeItem(c, Sched)
        /\ due' = FALSE /\ pending' = TRUE /\ started' = [started EXCEPT ![Sched] = FALSE]
        /\ fresh' = fresh + 1 /\ UNCHANGED <<enabled, manual, count, logged, dropped, ran>>
    BY <1>3 DEF ClaimDue
  <2>2. owner[Sched] = NoClaim
    BY <1>1, <2>1 DEF SlotInv, SlotIsLeased
  <2>3. /\ Holds(revoked') /\ revoked' \subseteq Claim /\ begun' \in [Claim -> BOOLEAN]
        /\ \A j \in Item : owner'[j] = IF j = Sched THEN c ELSE owner[j]
        /\ OneRow'
        /\ \A d \in Claim : begun'[d] => d # c /\ begun[d] /\ covers'[d] = covers[d]
    BY <1>2, <2>1, <2>2, TakeItemHolds
  <2>4. /\ started' \in [Item -> BOOLEAN] /\ ~started'[Sched]
        /\ \A i \in Item : i # Sched => started'[i] = started[i]
    BY <1>1, <1>2, <2>1 DEF ScheduleTypes
  <2>5. ScheduleTypes'
    <3>1. fresh' \in 0 .. MaxDue
        BY <1>1, <1>2, <2>1 DEF ScheduleTypes
    <3> QED BY <1>1, <2>1, <2>3, <2>4, <3>1 DEF ScheduleTypes
  <2>6. SlotInv'
    BY <1>1, <1>2, <2>1, <2>3 DEF SlotInv, EachOccurrenceLogged, SlotIsLeased, ScheduleTypes
  <2>7. CountedLater'
    <3>1. Begun' = Begun
        BY <2>4 DEF Begun, Manual
    <3>2. Cardinality(Begun) \in Nat /\ count \in Int /\ fresh \in Int
        BY <1>1, BegunCounts DEF ScheduleTypes
    <3>3. count <= fresh + Cardinality(Begun)
        BY <1>1, <2>1, <3>2 DEF CountedLater, Begun
    <3>4. count' + 1 <= fresh' + Cardinality(Begun')
        BY <2>1, <3>1, <3>2, <3>3
    <3> QED BY <2>1, <2>4, <3>4 DEF CountedLater, Begun
  <2>8. StartInv'
    <3>1. BegunIsStarted'
        BY <1>1, <2>3, <2>4 DEF StartInv, BegunIsStarted, HoldInv, HoldTypeOK
    <3>2. RanWasStarted' /\ CancelledIsFree'
        BY <1>1, <1>2, <2>1, <2>3, <2>4 DEF StartInv, RanWasStarted, CancelledIsFree, ScheduleTypes, Manual
    <3> QED BY <2>3, <3>1, <3>2 DEF StartInv
  <2> QED BY <2>3, <2>5, <2>6, <2>7, <2>8, ScheduleParts
<1>4. ASSUME NEW i \in Item, TakeItem(c, i), ~live[i] \/ owner[i] = NoClaim,
             UNCHANGED <<schedVars, countVars, ran>>,
             i = Sched => pending, i # Sched => manual[i] = "open"
      PROVE  ScheduleInv'
  <2>1. UNCHANGED <<enabled, due, pending, manual, started, count, fresh, logged, dropped, ran>>
    BY <1>4 DEF schedVars, countVars
  <2>2. /\ Holds(revoked') /\ revoked' \subseteq Claim /\ begun' \in [Claim -> BOOLEAN]
        /\ \A j \in Item : owner'[j] = IF j = i THEN c ELSE owner[j]
        /\ OneRow'
        /\ \A d \in Claim : begun'[d] => d # c /\ begun[d] /\ covers'[d] = covers[d]
    BY <1>4, TakeItemHolds
  <2>3. ScheduleTypes'
    BY <1>1, <2>1, <2>2 DEF ScheduleTypes
  <2>4. SlotInv'
    BY <1>1, <1>2, <1>4, <2>1, <2>2 DEF SlotInv, EachOccurrenceLogged, SlotIsLeased
  <2>5. CountedLater'
    BY <1>1, <2>1, CountKept
  <2>6. StartInv'
    <3>1. BegunIsStarted'
        BY <1>1, <2>1, <2>2 DEF StartInv, BegunIsStarted
    <3>2. RanWasStarted' /\ CancelledIsFree'
        BY <1>1, <1>4, <2>1, <2>2 DEF StartInv, RanWasStarted, CancelledIsFree, Manual
    <3> QED BY <2>2, <3>1, <3>2 DEF StartInv
  <2> QED BY <2>2, <2>3, <2>4, <2>5, <2>6, ScheduleParts
<1>5. CASE Reclaim(c)
    BY <1>2, <1>4, <1>5 DEF Reclaim
<1>6. ASSUME NEW m \in Manual, ClaimManual(c, m) PROVE ScheduleInv'
    BY <1>4, <1>6 DEF ClaimManual, Manual
<1> QED BY <1>3, <1>5, <1>6 DEF ClaimNext

\* A manual run is accepted, or cancelled while nobody has started it.
LEMMA ManualInv ==
    ASSUME ScheduleInv, NEW m \in Manual, AcceptManual(m) \/ CancelManual(m)
    PROVE  ScheduleInv'
<1>1. HoldInv(revoked) /\ ScheduleTypes /\ SlotInv /\ CountedLater /\ StartInv /\ HoldTypeOK
    BY ScheduleParts DEF HoldInv
<1>2. m \in Item /\ m # Sched /\ UNCHANGED <<covers, phase, window, enabled, due, pending, countVars, begun, ran>>
    BY DEF AcceptManual, CancelManual, Manual, holdVars
<1>3. UNCHANGED <<started, count, fresh, logged, dropped>>
    BY <1>2 DEF countVars
<1>4. CountedLater'
    BY <1>1, <1>2, <1>3, CountKept
<1>5. CASE AcceptManual(m)
  <2>1. /\ manual' = [manual EXCEPT ![m] = "open"] /\ UNCHANGED <<owner, live, revoked>>
    BY <1>5 DEF AcceptManual, holdVars
  <2>2. Holds(revoked')
    BY <1>1, <1>2, <2>1 DEF HoldInv, Holds, HoldTypeOK, WindowIsWork, HeldIsOwned
  <2>3. ScheduleTypes'
    BY <1>1, <1>2, <1>3, <2>1 DEF ScheduleTypes
  <2>4. SlotInv' /\ StartInv'
    BY <1>1, <1>2, <1>3, <2>1 DEF SlotInv, EachOccurrenceLogged, SlotIsLeased, StartInv, OneRow,
                           BegunIsStarted, RanWasStarted, CancelledIsFree, ScheduleTypes
  <2> QED BY <1>4, <2>2, <2>3, <2>4, ScheduleParts
<1>6. CASE CancelManual(m)
  <2>1. /\ ~started[m] /\ manual' = [manual EXCEPT ![m] = "cancelled"] /\ Clear({m})
        /\ revoked' = revoked \cup Holders({m})
    BY <1>6 DEF CancelManual
  <2>2. /\ revoked' \subseteq Claim /\ revoked \subseteq revoked'
        /\ owner[m] = NoClaim \/ owner[m] \in revoked'
    BY <1>1, <1>2, <2>1 DEF Holders, HoldTypeOK, ScheduleTypes
  <2>3. Holds(revoked')
    BY <1>1, <1>2, <2>1, <2>2, ClearHolds
  <2>4. ScheduleTypes'
    BY <1>1, <1>2, <1>3, <2>1, <2>2 DEF ScheduleTypes
  <2>5. \A i \in Item : owner'[i] = IF i = m THEN NoClaim ELSE owner[i]
    BY <2>1 DEF Clear
  <2>6. SlotInv'
    BY <1>1, <1>2, <1>3, <2>5, ScheduleAssumption DEF SlotInv, EachOccurrenceLogged, SlotIsLeased
  <2>7. StartInv'
    BY <1>1, <1>2, <1>3, <2>1, <2>5 DEF StartInv, OneRow, BegunIsStarted, RanWasStarted,
                                        CancelledIsFree, ScheduleTypes, Manual
  <2> QED BY <1>4, <2>3, <2>4, <2>6, <2>7, ScheduleParts
<1> QED BY <1>5, <1>6

\* Disabling clears the slot and excuses its holder.
LEMMA DisableInv == ASSUME ScheduleInv, Disable PROVE ScheduleInv'
<1>1. HoldInv(revoked) /\ ScheduleTypes /\ SlotInv /\ CountedLater /\ StartInv /\ HoldTypeOK
    BY ScheduleParts DEF HoldInv
<1>2. /\ enabled' = FALSE /\ due' = FALSE /\ pending' = FALSE
      /\ dropped' = IF pending THEN dropped + 1 ELSE dropped
      /\ Clear({Sched}) /\ revoked' = revoked \cup Holders({Sched})
      /\ UNCHANGED <<covers, phase, window, manual, started, count, fresh, logged, begun, ran>>
    BY DEF Disable
<1>3. /\ revoked' \subseteq Claim /\ revoked \subseteq revoked' /\ Sched \in Item
      /\ owner[Sched] = NoClaim \/ owner[Sched] \in revoked'
    BY <1>1, <1>2, ScheduleAssumption DEF Holders, HoldTypeOK, ScheduleTypes
<1>4. Holds(revoked')
    BY <1>1, <1>2, <1>3, ClearHolds
<1>5. ScheduleTypes'
  <2>1. dropped' \in Nat
    BY <1>1, <1>2 DEF ScheduleTypes
  <2> QED BY <1>1, <1>2, <1>3, <2>1 DEF ScheduleTypes
<1>6. \A i \in Item : owner'[i] = IF i = Sched THEN NoClaim ELSE owner[i]
    BY <1>2 DEF Clear
<1>7. SlotInv'
    BY <1>1, <1>2, <1>3, <1>6 DEF SlotInv, EachOccurrenceLogged, SlotIsLeased, ScheduleTypes
<1>8. CountedLater'
    BY <1>1, <1>2, CountKept
<1>9. StartInv'
    BY <1>1, <1>2, <1>6 DEF StartInv, OneRow, BegunIsStarted, RanWasStarted, CancelledIsFree, Manual
<1> QED BY <1>4, <1>5, <1>7, <1>8, <1>9, ScheduleParts

\* The work: renewals, the start, acts, the last confirm and the give-up.
LEMMA HoldStep == ASSUME ScheduleInv, NEW c \in Claim, Hold(c) PROVE ScheduleInv'
<1>1. HoldInv(revoked) /\ ScheduleTypes /\ UNCHANGED <<schedVars, countVars, begun, ran, revoked>>
    BY ScheduleParts DEF Hold
<1>2. Holds(revoked) /\ UNCHANGED <<owner, covers>>
  <2>1. CASE Enter(c, TRUE) \/ Confirm(c, TRUE)
    BY <1>1, <2>1, RenewHolds DEF Enter, Confirm, Renew
  <2>2. CASE Fire(c)
    BY <1>1, <2>2, TroubleHolds
  <2> QED BY <2>1, <2>2 DEF Hold
<1>3. ScheduleTypes'
    BY <1>1 DEF ScheduleTypes, schedVars, countVars
<1> QED BY <1>1, <1>2, <1>3, ScheduleRest DEF schedVars

\* A started row is counted once, whichever attempt starts it first.
LEMMA StartStep == ASSUME ScheduleInv, NEW c \in Claim, Start(c) PROVE ScheduleInv'
<1>1. HoldInv(revoked) /\ ScheduleTypes /\ SlotInv /\ CountedLater /\ StartInv /\ HoldTypeOK
    BY ScheduleParts DEF HoldInv
<1>2. UNCHANGED <<enabled, due, pending, manual, fresh, logged, dropped, ran, revoked, covers>>
    BY DEF Start, schedVars, holdVars
<1>3. ASSUME NEW i \in covers[c], Fenced(c, i), UNCHANGED holdVars,
             started' = [started EXCEPT ![i] = TRUE],
             count' = IF started[i] THEN count ELSE count + 1,
             begun' = [begun EXCEPT ![c] = TRUE]
      PROVE  ScheduleInv'
  <2>1. i \in Item /\ owner[i] = c /\ c # NoClaim /\ UNCHANGED <<owner, live, covers, phase, window>>
    BY <1>1, <1>3, ClaimAssumption DEF HoldTypeOK, Fenced, holdVars
  <2>2. Holds(revoked')
    BY <1>1, <1>2, <2>1 DEF HoldInv, Holds, HoldTypeOK, WindowIsWork, HeldIsOwned
  <2>3. /\ started' \in [Item -> BOOLEAN] /\ started'[i]
        /\ \A j \in Item : j # i => started'[j] = started[j]
        /\ \A j \in Item : started[j] => started'[j]
    BY <1>1, <1>3, <2>1 DEF ScheduleTypes
  <2>4. ScheduleTypes'
    <3>1. count' \in Nat /\ begun' \in [Claim -> BOOLEAN]
        BY <1>1, <1>3 DEF ScheduleTypes
    <3> QED BY <1>1, <1>2, <2>3, <3>1 DEF ScheduleTypes
  <2>5. SlotInv'
    BY <1>1, <1>2, <2>1 DEF SlotInv, EachOccurrenceLogged, SlotIsLeased
  <2>6. CountedLater'
    <3>1. Cardinality(Begun) \in Nat /\ count \in Int /\ fresh \in Int
        BY <1>1, BegunCounts DEF ScheduleTypes
    <3>2. count + (IF pending /\ ~started[Sched] THEN 1 ELSE 0) <= fresh + Cardinality(Begun)
        BY <1>1 DEF CountedLater, Begun
    <3>3. CASE started[i]
      <4>1. started' = started /\ count' = count
        BY <1>1, <1>3, <2>1, <2>3, <3>3 DEF ScheduleTypes
      <4> QED BY <1>1, <1>2, <4>1, CountKept
    <3>4. CASE ~started[i] /\ i = Sched
      <4>1. pending /\ Begun' = Begun
        BY <1>1, <2>1, <2>3, <3>4 DEF SlotInv, SlotIsLeased, Begun, Manual
      <4>2. count' = count + 1 /\ fresh' = fresh /\ count + 1 <= fresh + Cardinality(Begun)
        BY <1>2, <1>3, <3>1, <3>2, <3>4, <4>1
      <4>3. count' <= fresh' + Cardinality(Begun')
        BY <3>1, <4>1, <4>2
      <4>4. count' + 0 <= fresh' + Cardinality(Begun')
        BY <3>1, <4>2, <4>3
      <4> QED BY <2>3, <3>4, <4>4 DEF CountedLater, Begun
    <3>5. CASE ~started[i] /\ i # Sched
      <4>1. i \in Manual /\ Begun' = Begun \cup {i} /\ started'[Sched] = started[Sched]
        BY <2>1, <2>3, <3>5, ScheduleAssumption DEF Begun, Manual
      <4>2. Cardinality(Begun') = Cardinality(Begun) + 1
        BY <1>1, <3>5, <4>1, BegunCounts
      <4>3. count' = count + 1 /\ fresh' = fresh /\ pending' = pending
        BY <1>2, <1>3, <3>5
      <4>4. count' + (IF pending' /\ ~started'[Sched] THEN 1 ELSE 0) <= fresh' + Cardinality(Begun')
        BY <3>1, <3>2, <4>1, <4>2, <4>3
      <4> QED BY <4>4 DEF CountedLater, Begun
    <3> QED BY <3>3, <3>4, <3>5
  <2>7. StartInv'
    <3>1. OneRow'
        BY <1>1, <2>1 DEF StartInv, OneRow
    <3>2. BegunIsStarted'
      <4> SUFFICES ASSUME NEW d \in Claim, begun'[d], NEW m \in covers[d] \ {Sched} PROVE started'[m]
        BY <2>1 DEF BegunIsStarted
      <4>1. m \in Item
        BY <1>1 DEF HoldTypeOK
      <4>2. CASE d = c
        BY <1>1, <1>3, <2>3, <4>2 DEF StartInv, OneRow
      <4>3. CASE d # c
        <5>1. begun[d]
            BY <1>1, <1>3, <4>3 DEF ScheduleTypes
        <5> QED BY <1>1, <2>3, <4>1, <5>1 DEF StartInv, BegunIsStarted
      <4> QED BY <4>2, <4>3
    <3>3. RanWasStarted'
        BY <1>1, <1>2, <2>3 DEF StartInv, RanWasStarted, ScheduleTypes
    <3>4. CancelledIsFree'
        BY <1>1, <1>2, <2>1, <2>3 DEF StartInv, CancelledIsFree, Manual
    <3> QED BY <3>1, <3>2, <3>3, <3>4 DEF StartInv
  <2> QED BY <2>2, <2>4, <2>5, <2>6, <2>7, ScheduleParts
<1>4. CASE Step(c, "lost", FALSE) /\ UNCHANGED <<owner, live, covers, started, count, begun>>
  <2>1. Holds(revoked)
    BY <1>1, <1>4, ShutHolds DEF Phase
  <2>2. ScheduleTypes'
    BY <1>1, <1>2, <1>4 DEF ScheduleTypes
  <2> QED BY <1>2, <1>4, <2>1, <2>2, ScheduleRest DEF countVars
<1> QED BY <1>3, <1>4 DEF Start

\* Acts are behind the guard of a claim that has started its row.
LEMMA ActStep == ASSUME ScheduleInv, NEW c \in Claim, Act(c) PROVE ScheduleInv'
<1>1. HoldInv(revoked) /\ ScheduleTypes /\ SlotInv /\ CountedLater /\ StartInv /\ HoldTypeOK
    BY ScheduleParts DEF HoldInv
<1>2. /\ begun[c] /\ ran' = ran \cup covers[c]
      /\ UNCHANGED <<owner, live, covers, phase, window, enabled, due, pending, manual,
                     started, count, fresh, logged, dropped, begun, revoked>>
    BY DEF Act, holdVars, schedVars, countVars
<1>3. Holds(revoked')
    BY <1>1, <1>2 DEF HoldInv, Holds, HoldTypeOK, WindowIsWork, HeldIsOwned
<1>4. ScheduleTypes'
    BY <1>1, <1>2 DEF ScheduleTypes, HoldTypeOK
<1>5. SlotInv'
    BY <1>1, <1>2 DEF SlotInv, EachOccurrenceLogged, SlotIsLeased
<1>6. CountedLater'
    BY <1>1, <1>2, CountKept
<1>7. StartInv'
    BY <1>1, <1>2 DEF StartInv, OneRow, BegunIsStarted, RanWasStarted, CancelledIsFree
<1> QED BY <1>3, <1>4, <1>5, <1>6, <1>7, ScheduleParts

\* The last confirm, and the end of a claim that lost its row.
LEMMA EndStep == ASSUME ScheduleInv, NEW c \in Claim, EndWork(c) \/ GiveUp(c) PROVE ScheduleInv'
<1>1. /\ HoldInv(revoked) /\ ScheduleTypes
      /\ UNCHANGED <<owner, live, covers, schedVars, countVars, begun, ran, revoked>>
    BY ScheduleParts DEF EndWork, GiveUp
<1>2. ScheduleTypes'
    BY <1>1 DEF ScheduleTypes, schedVars, countVars
<1>3. Holds(revoked)
  <2>1. CASE EndWork(c)
    <3>1. window[c] /\ Step(c, "ended", TRUE)
        BY <2>1 DEF EndWork
    <3>2. window' = window /\ phase' = [phase EXCEPT ![c] = "ended"]
        BY <1>1, <3>1 DEF HoldInv, HoldTypeOK, Step
    <3> QED BY <1>1, <3>2 DEF HoldInv, Holds, HoldTypeOK, Phase, WindowIsWork, HeldIsOwned
  <2>2. CASE GiveUp(c)
    <3>1. Step(c, "free", FALSE)
        BY <2>2 DEF GiveUp
    <3> QED BY <1>1, <3>1, ShutHolds DEF Phase
  <2> QED BY <2>1, <2>2
<1> QED BY <1>1, <1>2, <1>3, ScheduleRest DEF schedVars

\* The slot is emptied and its entry written in one transaction.
LEMMA FinishStep == ASSUME ScheduleInv, NEW c \in Claim, Finish(c) PROVE ScheduleInv'
<1>1. HoldInv(revoked) /\ ScheduleTypes /\ SlotInv /\ CountedLater /\ StartInv /\ HoldTypeOK
    BY ScheduleParts DEF HoldInv
<1>2. PICK i \in covers[c] :
          /\ Fenced(c, i) /\ Clear({i})
          /\ IF i = Sched
             THEN pending' = FALSE /\ logged' = logged + 1 /\ UNCHANGED manual
             ELSE manual' = [manual EXCEPT ![i] = "finished"] /\ UNCHANGED <<pending, logged>>
    BY DEF Finish
<1>3. /\ Step(c, "free", FALSE)
      /\ UNCHANGED <<covers, enabled, due, started, count, fresh, dropped, begun, ran, revoked>>
    BY DEF Finish
<1>4. i \in Item /\ owner[i] = c /\ c # NoClaim /\ Sched \in Item
    BY <1>1, <1>2, ClaimAssumption, ScheduleAssumption DEF HoldTypeOK, Fenced
<1>5. Holds(revoked')
  <2>1. Clear({i}) /\ UNCHANGED <<covers, revoked>> /\ {i} \in SUBSET Item
    BY <1>2, <1>3, <1>4
  <2>2. Holds(revoked)
    BY <1>1, <1>3, <1>4, <2>1, LeaveHolds
  <2> QED BY <2>1, <2>2
<1>6. \A j \in Item : owner'[j] = IF j = i THEN NoClaim ELSE owner[j]
    BY <1>2 DEF Clear
<1>7. CASE i = Sched
  <2>1. pending /\ pending' = FALSE /\ logged' = logged + 1 /\ manual' = manual
    BY <1>1, <1>2, <1>4, <1>7 DEF SlotInv, SlotIsLeased
  <2>2. ScheduleTypes'
    <3>1. logged' \in Nat
        BY <1>1, <2>1 DEF ScheduleTypes
    <3> QED BY <1>1, <1>3, <2>1, <3>1 DEF ScheduleTypes
  <2>3. SlotInv'
    BY <1>1, <1>3, <1>4, <1>6, <1>7, <2>1 DEF SlotInv, EachOccurrenceLogged, SlotIsLeased, ScheduleTypes
  <2>4. CountedLater'
    BY <1>1, <1>3, <2>1, CountKept
  <2>5. StartInv'
    BY <1>1, <1>3, <1>6, <2>1 DEF StartInv, OneRow, BegunIsStarted, RanWasStarted, CancelledIsFree, Manual
  <2> QED BY <1>5, <2>2, <2>3, <2>4, <2>5, ScheduleParts
<1>8. CASE i # Sched
  <2>1. i \in Manual /\ manual' = [manual EXCEPT ![i] = "finished"] /\ UNCHANGED <<pending, logged>>
    BY <1>2, <1>4, <1>8 DEF Manual
  <2>2. ScheduleTypes'
    BY <1>1, <1>3, <2>1 DEF ScheduleTypes
  <2>3. SlotInv'
    BY <1>1, <1>3, <1>4, <1>6, <1>8, <2>1 DEF SlotInv, EachOccurrenceLogged, SlotIsLeased
  <2>4. CountedLater'
    BY <1>1, <1>3, <2>1, CountKept
  <2>5. StartInv'
    BY <1>1, <1>3, <1>6, <2>1 DEF StartInv, OneRow, BegunIsStarted, RanWasStarted, CancelledIsFree,
                                ScheduleTypes, Manual
  <2> QED BY <1>5, <2>2, <2>3, <2>4, <2>5, ScheduleParts
<1> QED BY <1>7, <1>8

\* Every step of a schedule keeps its invariant.
LEMMA ScheduleStep == ScheduleInv /\ [Next]_vars => ScheduleInv'
<1> SUFFICES ASSUME ScheduleInv, [Next]_vars PROVE ScheduleInv'
    OBVIOUS
<1>1. CASE BecomesDue \/ Disable \/ Enable
    BY <1>1, SwitchInv, DisableInv
<1>2. ASSUME NEW m \in Manual, AcceptManual(m) \/ CancelManual(m) PROVE ScheduleInv'
    BY <1>2, ManualInv
<1>3. ASSUME NEW c \in Claim,
             \/ ClaimNext(c) \/ Hold(c) \/ Start(c) \/ Act(c)
             \/ EndWork(c) \/ Finish(c) \/ GiveUp(c)
      PROVE  ScheduleInv'
    BY <1>3, ClaimNextInv, HoldStep, StartStep, ActStep, EndStep, FinishStep
<1>4. CASE Environment
  <2>1. HoldInv(revoked) /\ ScheduleTypes /\ UNCHANGED <<schedVars, countVars, begun, ran, revoked>>
    BY <1>4, ScheduleParts DEF Environment
  <2>2. Holds(revoked) /\ UNCHANGED <<owner, covers>>
    BY <1>4, <2>1, TroubleHolds DEF Environment
  <2>3. ScheduleTypes'
    BY <2>1 DEF ScheduleTypes, schedVars, countVars
  <2> QED BY <2>1, <2>2, <2>3, ScheduleRest DEF schedVars
<1>5. CASE UNCHANGED vars
  <2>1. /\ HoldInv(revoked) /\ ScheduleTypes
        /\ UNCHANGED <<owner, live, covers, phase, window, schedVars, countVars, begun, ran, revoked>>
    BY <1>5, ScheduleParts DEF vars, holdVars
  <2>2. Holds(revoked)
    BY <2>1 DEF HoldInv, Holds, HoldTypeOK, WindowIsWork, HeldIsOwned
  <2>3. ScheduleTypes'
    BY <2>1 DEF ScheduleTypes, schedVars, countVars
  <2> QED BY <2>1, <2>2, <2>3, ScheduleRest DEF schedVars
<1> QED BY <1>1, <1>2, <1>3, <1>4, <1>5 DEF Next

\* The inductive invariant of a schedule.
THEOREM ScheduleInvariant == Spec => []ScheduleInv
<1>1. Init => ScheduleInv
  <2> SUFFICES ASSUME Init PROVE ScheduleInv
    OBVIOUS
  <2>1. HoldInv(revoked)
    BY DEF Init, HoldInit, HoldInv, HoldTypeOK, Phase, WindowIsWork, HeldIsOwned
  <2>2. ScheduleTypes
    <3>1. 0 \in 0 .. MaxDue
        BY ScheduleAssumption
    <3> QED BY <3>1 DEF Init, RowInit, ScheduleTypes
  <2>3. SlotInv /\ StartInv
    BY ScheduleAssumption
       DEF Init, HoldInit, RowInit, SlotInv, EachOccurrenceLogged, SlotIsLeased, StartInv, OneRow,
           BegunIsStarted, RanWasStarted, CancelledIsFree
  <2>4. CountedLater
    <3>1. Cardinality(Begun) \in Nat
        BY <2>2, BegunCounts
    <3>2. count = 0 /\ fresh = 0 /\ pending = FALSE
        BY DEF Init, RowInit
    <3> QED BY <3>1, <3>2 DEF CountedLater, Begun
  <2> QED BY <2>1, <2>2, <2>3, <2>4, ScheduleParts
<1>2. ScheduleInv /\ [Next]_vars => ScheduleInv'
    BY ScheduleStep
<1> QED BY <1>1, <1>2, PTL DEF Spec

\* One attempt works on an occurrence or a manual run at a time, each claimed
\* occurrence is logged, dropped or in its slot, each is counted at most once,
\* and a cancelled manual run has done nothing.
THEOREM SchedulesSafe == Spec => []ScheduleSafety
<1>1. ScheduleInv => ScheduleSafety
  <2> SUFFICES ASSUME ScheduleInv PROVE ScheduleSafety
    OBVIOUS
  <2>1. HoldInv(revoked) /\ ScheduleTypes /\ SlotInv /\ CountedLater /\ StartInv
    BY ScheduleParts
  <2>2. CountedOnce
    <3>1. Cardinality(Begun) \in Nat /\ count \in Int /\ fresh \in Int
        BY <2>1, BegunCounts DEF ScheduleTypes
    <3>2. count + (IF pending /\ ~started[Sched] THEN 1 ELSE 0) <= fresh + Cardinality(Begun)
        BY <2>1 DEF CountedLater, Begun
    <3>3. count <= fresh + Cardinality(Begun)
        BY <3>1, <3>2
    <3> QED BY <3>3 DEF CountedOnce, Begun
  <2>3. CancelledNeverRan
    BY <2>1 DEF StartInv, RanWasStarted, CancelledIsFree, CancelledNeverRan, Manual
  <2> QED BY <2>1, <2>2, <2>3 DEF HoldInv, SlotInv, ScheduleSafety
<1> QED BY <1>1, ScheduleInvariant, PTL

-----------------------------------------------------------------------------
(* Trigger executions.                                                        *)

\* The lease's assumption, and its invariant after a step.
LEMMA TriggerClaims == Triggers!ClaimAssumption
BY ClaimAssumption DEF Triggers!IsFiniteSet, IsFiniteSet

LEMMA TriggerLease == Triggers!HoldInv({})' <=> Triggers!Holds({})
BY DEF Triggers!HoldInv, Triggers!HeldIsOwned, Triggers!Holds

\* The types of what triggers add to the lease.
ExecStatus == {"none", "pending", "processing", "completed", "failed"}
TriggerTypes ==
    /\ active \in [Trigger -> BOOLEAN] /\ selfOff \in [Trigger -> BOOLEAN]
    /\ fires \in [Trigger -> Nat]
    /\ found \subseteq Item
    /\ execution \in [Item -> ExecStatus]
    /\ first \in [Item -> BOOLEAN]
    /\ outcome \in [Claim -> {"completed", "failed"}]

\* What is known of executions, apart from their count.
ExecInv == Triggers!LeasedIsProcessing /\ Triggers!DueIsNew

\* The invariant of triggers by its parts.
LEMMA TriggerParts ==
    /\ Triggers!TriggerInv <=> Triggers!HoldInv({}) /\ TriggerTypes /\ ExecInv /\ Triggers!FiresCounted
    /\ Triggers!TriggerInv' <=> Triggers!Holds({}) /\ TriggerTypes' /\ ExecInv' /\ Triggers!FiresCounted'
BY TriggerLease DEF Triggers!TriggerInv, Triggers!TypeOK, TriggerTypes, ExecStatus, ExecInv,
                    Triggers!HoldInv, Triggers!Holds

\* The executions of a trigger that were ever started.
Fired(t) == {i \in Item : first[i] /\ Of[i] = t}

LEMMA FiredFinite == ASSUME NEW t PROVE IsFiniteSet(Fired(t)) /\ Cardinality(Fired(t)) \in Nat
BY ClaimAssumption, FS_Subset, FS_CardinalityType DEF Fired

\* The instance counts as FiniteSets does.
LEMMA SameCount == ASSUME NEW S PROVE Triggers!Cardinality(S) = Cardinality(S)
BY DEF Triggers!Cardinality, Cardinality, Triggers!IsFiniteSet, IsFiniteSet

\* What leaves starts and fires alone leaves the count right.
LEMMA FiresKept ==
    ASSUME Triggers!FiresCounted, UNCHANGED <<first, fires>>
    PROVE  Triggers!FiresCounted'
BY DEF Triggers!FiresCounted

\* What leaves tokens and executions alone.
LEMMA TriggerRest ==
    ASSUME Triggers!TriggerInv, Triggers!Holds({}), TriggerTypes',
           UNCHANGED <<tOwner, found, execution, first, fires>>
    PROVE  Triggers!TriggerInv'
<1>1. ExecInv /\ Triggers!FiresCounted
    BY TriggerParts
<1>2. ExecInv'
    BY <1>1 DEF ExecInv, Triggers!LeasedIsProcessing, Triggers!DueIsNew
<1> QED BY <1>1, <1>2, FiresKept, TriggerParts

\* An execution is found due and enqueued.
LEMMA EnqueueInv ==
    ASSUME Triggers!TriggerInv, NEW i \in Item, Triggers!Evaluate(i) \/ Triggers!Enqueue(i)
    PROVE  Triggers!TriggerInv'
<1>1. Triggers!HoldInv({}) /\ TriggerTypes /\ ExecInv /\ Triggers!FiresCounted
    BY TriggerParts
<1>2. UNCHANGED <<tOwner, tLive, tCovers, tPhase, tWindow, active, selfOff, fires, first, outcome>>
    BY DEF Triggers!Evaluate, Triggers!Enqueue, Triggers!holdVars, Triggers!trigVars
<1>3. Triggers!Holds({})
    BY <1>1, <1>2 DEF Triggers!HoldInv, Triggers!Holds, Triggers!HoldTypeOK, Triggers!WindowIsWork,
                      Triggers!HeldIsOwned
<1>4. CASE Triggers!Evaluate(i)
  <2>1. execution[i] = "none" /\ found' = found \cup {i} /\ execution' = execution
    BY <1>4 DEF Triggers!Evaluate
  <2>2. TriggerTypes' /\ ExecInv'
    BY <1>1, <1>2, <2>1 DEF TriggerTypes, ExecInv, Triggers!LeasedIsProcessing, Triggers!DueIsNew
  <2> QED BY <1>1, <1>2, <1>3, <2>2, FiresKept, TriggerParts
<1>5. CASE Triggers!Enqueue(i)
  <2>1. i \in found /\ found' = found \ {i} /\ execution' = [execution EXCEPT ![i] = "pending"]
    BY <1>5 DEF Triggers!Enqueue
  <2>2. execution[i] = "none"
    BY <1>1, <2>1 DEF ExecInv, Triggers!DueIsNew
  <2>3. TriggerTypes'
    BY <1>1, <1>2, <2>1 DEF TriggerTypes, ExecStatus
  <2>4. ExecInv'
    BY <1>1, <1>2, <2>1, <2>2 DEF TriggerTypes, ExecInv, Triggers!LeasedIsProcessing, Triggers!DueIsNew
  <2> QED BY <1>1, <1>2, <1>3, <2>3, <2>4, FiresKept, TriggerParts
<1> QED BY <1>4, <1>5

\* A batch is claimed: each execution fires its trigger when it is first
\* started.
LEMMA ClaimBatchInv ==
    ASSUME Triggers!TriggerInv, NEW c \in Claim, NEW S \in SUBSET Item, Triggers!ClaimBatch(c, S)
    PROVE  Triggers!TriggerInv'
<1>1. Triggers!HoldInv({}) /\ TriggerTypes /\ ExecInv /\ Triggers!FiresCounted
    BY TriggerParts
<1>2. /\ \A i \in S : Triggers!Claimable(i)
      /\ tPhase[c] \in {"free", "dead"} /\ Triggers!Take(c, S)
      /\ execution' = [i \in Item |-> IF i \in S THEN "processing" ELSE execution[i]]
      /\ first' = [i \in Item |-> i \in S \/ first[i]]
      /\ fires' = [t \in Trigger |-> fires[t] + Triggers!FirstStarts(S, t)]
      /\ active' = [t \in Trigger |-> active[t] /\ ~Triggers!LastFire(S, t)]
      /\ selfOff' = [t \in Trigger |-> selfOff[t] \/ (active[t] /\ Triggers!LastFire(S, t))]
      /\ UNCHANGED <<found, outcome>>
    BY DEF Triggers!ClaimBatch, Triggers!Unused, Triggers!Take
<1>3. \A i \in S : execution[i] \in {"pending", "processing"} /\ (tOwner[i] = NoClaim \/ ~tLive[i])
  <2> SUFFICES ASSUME NEW i \in S
               PROVE  execution[i] \in {"pending", "processing"} /\ (tOwner[i] = NoClaim \/ ~tLive[i])
    OBVIOUS
  <2>1. CASE execution[i] = "pending"
    BY <1>1, <2>1 DEF ExecInv, Triggers!LeasedIsProcessing
  <2>2. CASE execution[i] = "processing" /\ ~tLive[i]
    BY <2>2
  <2> QED BY <1>2, <2>1, <2>2 DEF Triggers!Claimable
<1>4. Triggers!Holds({})
  <2>1. Triggers!Holds({} \ {c})
    BY <1>1, <1>2, <1>3, TriggerClaims, Triggers!TakeHolds
  <2>2. {} \ {c} \subseteq {}
    OBVIOUS
  <2> QED BY <2>1, <2>2, TriggerClaims, Triggers!HoldsMore
<1>5. \A t \in Trigger : /\ Triggers!FirstStarts(S, t) \in Nat
                         /\ Cardinality(Fired(t)') = Cardinality(Fired(t)) + Triggers!FirstStarts(S, t)
  <2> SUFFICES ASSUME NEW t \in Trigger
               PROVE  /\ Triggers!FirstStarts(S, t) \in Nat
                      /\ Cardinality(Fired(t)') = Cardinality(Fired(t)) + Triggers!FirstStarts(S, t)
    OBVIOUS
  <2> DEFINE new == {i \in S : ~first[i] /\ Of[i] = t}
  <2>1. IsFiniteSet(new) /\ Cardinality(new) \in Nat
    BY ClaimAssumption, FS_Subset, FS_CardinalityType
  <2>2. Fired(t)' = Fired(t) \cup new /\ Fired(t) \cap new = {}
    BY <1>2 DEF Fired
  <2>3. IsFiniteSet(Fired(t)) /\ Cardinality(Fired(t)) \in Nat
    BY FiredFinite
  <2>4. Triggers!FirstStarts(S, t) = Cardinality(new)
    BY SameCount DEF Triggers!FirstStarts
  <2> HIDE DEF new
  <2>5. Cardinality(Fired(t) \cup new) = Cardinality(Fired(t)) + Cardinality(new)
    <3>1. /\ IsFiniteSet(Fired(t) \cup new)
          /\ Cardinality(Fired(t) \cup new)
               = Cardinality(Fired(t)) + Cardinality(new) - Cardinality(Fired(t) \cap new)
        BY <2>1, <2>3, FS_Union
    <3>2. Cardinality(Fired(t) \cap new) = 0
        BY <2>2, FS_EmptySet
    <3> QED BY <2>1, <2>3, <3>1, <3>2
  <2> QED BY <2>1, <2>2, <2>4, <2>5
<1>6. Triggers!FiresCounted'
  <2> SUFFICES ASSUME NEW t \in Trigger PROVE fires'[t] = Cardinality(Fired(t)')
    BY SameCount DEF Triggers!FiresCounted, Fired
  <2>1. fires[t] = Cardinality(Fired(t))
    BY <1>1, SameCount DEF Triggers!FiresCounted, Fired
  <2> QED BY <1>2, <1>5, <2>1
<1>7. TriggerTypes'
  <2>1. fires' \in [Trigger -> Nat]
    BY <1>1, <1>2, <1>5 DEF TriggerTypes
  <2>2. execution' \in [Item -> ExecStatus] /\ first' \in [Item -> BOOLEAN]
    BY <1>1, <1>2 DEF TriggerTypes, ExecStatus
  <2>3. active' \in [Trigger -> BOOLEAN] /\ selfOff' \in [Trigger -> BOOLEAN]
    BY <1>1, <1>2 DEF TriggerTypes
  <2> QED BY <1>1, <1>2, <2>1, <2>2, <2>3 DEF TriggerTypes
<1>8. ExecInv'
  <2>1. \A i \in Item : tOwner'[i] = IF i \in S THEN c ELSE tOwner[i]
    BY <1>2 DEF Triggers!Take
  <2>2. c # NoClaim
    BY ClaimAssumption
  <2> QED BY <1>1, <1>2, <1>3, <2>1, <2>2
          DEF TriggerTypes, ExecInv, Triggers!LeasedIsProcessing, Triggers!DueIsNew
<1> QED BY <1>4, <1>6, <1>7, <1>8, TriggerParts

\* Renewals, and the end of the invocation.
LEMMA InvocationInv ==
    ASSUME Triggers!TriggerInv, NEW c \in Claim,
           Triggers!Hold(c) \/ \E o \in {"completed", "failed"} : Triggers!EndInvocation(c, o)
    PROVE  Triggers!TriggerInv'
<1>1. Triggers!HoldInv({}) /\ TriggerTypes
    BY TriggerParts
<1>2. CASE Triggers!Hold(c)
  <2>1. UNCHANGED <<active, selfOff, fires, found, execution, first, outcome>>
    BY <1>2 DEF Triggers!Hold, Triggers!trigVars, Triggers!execVars
  <2>2. CASE Triggers!Enter(c, FALSE) \/ Triggers!Confirm(c, FALSE)
    <3>1. Triggers!Renew(c, FALSE)
        BY <2>2 DEF Triggers!Enter, Triggers!Confirm, Triggers!Renew, Triggers!Renewable, Triggers!Step
    <3>2. Triggers!Holds({}) /\ tOwner' = tOwner
        BY <1>1, <3>1, TriggerClaims, Triggers!RenewHolds DEF Triggers!Renew
    <3>3. TriggerTypes'
        BY <1>1, <2>1 DEF TriggerTypes
    <3> QED BY <2>1, <3>2, <3>3, TriggerRest
  <2>3. CASE Triggers!Fire(c)
    <3>1. Triggers!Fire(c)
        BY <2>3 DEF Triggers!Fire, Triggers!Step
    <3>2. Triggers!Holds({}) /\ tOwner' = tOwner
        BY <1>1, <3>1, TriggerClaims, Triggers!TroubleHolds
    <3>3. TriggerTypes'
        BY <1>1, <2>1 DEF TriggerTypes
    <3> QED BY <2>1, <3>2, <3>3, TriggerRest
  <2> QED BY <1>2, <2>2, <2>3 DEF Triggers!Hold
<1>3. ASSUME NEW o \in {"completed", "failed"}, Triggers!EndInvocation(c, o)
      PROVE  Triggers!TriggerInv'
  <2>1. /\ Triggers!Step(c, "ended", FALSE) /\ outcome' = [outcome EXCEPT ![c] = o]
        /\ UNCHANGED <<tOwner, tLive, tCovers, active, selfOff, fires, found, execution, first>>
    BY <1>3 DEF Triggers!EndInvocation, Triggers!Step, Triggers!trigVars, Triggers!execVars
  <2>2. Triggers!Holds({})
    BY <1>1, <2>1, TriggerClaims, Triggers!ShutHolds DEF Triggers!Phase
  <2>3. TriggerTypes'
    BY <1>1, <2>1 DEF TriggerTypes
  <2> QED BY <2>1, <2>2, <2>3, TriggerRest
<1> QED BY <1>2, <1>3

\* An execution is settled and its token cleared.
LEMMA SettledInv ==
    ASSUME Triggers!TriggerInv, NEW i \in Item, NEW s \in {"completed", "failed"},
           Triggers!Holds({}), Triggers!Clear({i}), execution[i] = "processing",
           execution' = [execution EXCEPT ![i] = s],
           UNCHANGED <<active, selfOff, fires, found, first, outcome>>
    PROVE  Triggers!TriggerInv'
<1>1. TriggerTypes /\ ExecInv /\ Triggers!FiresCounted
    BY TriggerParts
<1>2. TriggerTypes'
    BY <1>1 DEF TriggerTypes, ExecStatus
<1>3. ExecInv'
    BY <1>1 DEF TriggerTypes, ExecInv, Triggers!LeasedIsProcessing, Triggers!DueIsNew, Triggers!Clear
<1> QED BY <1>1, <1>2, <1>3, FiresKept, TriggerParts

\* finish marks one execution of the batch, if the invocation still owns it.
LEMMA MarkInv ==
    ASSUME Triggers!TriggerInv, NEW c \in Claim, NEW i \in Item, Triggers!Mark(c, i)
    PROVE  Triggers!TriggerInv'
<1>1. Triggers!HoldInv({}) /\ TriggerTypes /\ ExecInv /\ Triggers!FiresCounted /\ Triggers!HoldTypeOK
    BY TriggerParts DEF Triggers!HoldInv
<1>2. /\ tPhase[c] \in {"ended", "lost"} /\ i \in tCovers[c]
      /\ tCovers' = [tCovers EXCEPT ![c] = @ \ {i}]
      /\ IF tCovers[c] = {i} THEN Triggers!Step(c, "free", FALSE) ELSE UNCHANGED <<tPhase, tWindow>>
      /\ UNCHANGED <<active, selfOff, fires, found, first, outcome>>
    BY DEF Triggers!Mark, Triggers!Step, Triggers!trigVars
<1>3. /\ tCovers' \in [Claim -> SUBSET Item] /\ i \notin tCovers'[c]
      /\ \A d \in Claim : tCovers'[d] \subseteq tCovers[d]
    BY <1>1, <1>2 DEF Triggers!HoldTypeOK
<1>4. /\ tPhase' \in [Claim -> Triggers!Phase] /\ tWindow' \in [Claim -> BOOLEAN]
      /\ \A d \in Claim : tWindow'[d] => tWindow[d] /\ tPhase'[d] = tPhase[d]
    BY <1>1, <1>2 DEF Triggers!HoldTypeOK, Triggers!Phase, Triggers!Step
<1>5. Triggers!WindowIsWork'
    BY <1>1, <1>4 DEF Triggers!HoldInv, Triggers!WindowIsWork
<1>6. CASE execution[i] = "processing" /\ tOwner[i] = c
  <2>1. PICK s \in {"completed", "failed"} : execution' = [execution EXCEPT ![i] = s]
    BY <1>1, <1>6 DEF Triggers!Mark, TriggerTypes
  <2>2. Triggers!Clear({i})
    BY <1>6 DEF Triggers!Mark, Triggers!Clear
  <2>3. tOwner' \in [Item -> Claim \cup {NoClaim}] /\ tLive' \in [Item -> BOOLEAN]
    BY <1>1, <2>2 DEF Triggers!HoldTypeOK, Triggers!Clear
  <2>4. ASSUME NEW d \in Claim, tWindow'[d], NEW j \in tCovers'[d] PROVE tOwner'[j] = d /\ tLive'[j]
    <3>1. j \in Item /\ tOwner[j] = d /\ tLive[j]
        BY <1>1, <1>3, <1>4, <2>4 DEF Triggers!HoldInv, Triggers!HeldIsOwned, Triggers!HoldTypeOK
    <3>2. j # i
        BY <1>3, <1>6, <2>4, <3>1
    <3> QED BY <2>2, <3>1, <3>2 DEF Triggers!Clear
  <2>5. Triggers!Holds({})
    BY <1>3, <1>4, <1>5, <2>3, <2>4 DEF Triggers!Holds, Triggers!HoldTypeOK
  <2> QED BY <1>2, <1>6, <2>1, <2>2, <2>5, SettledInv
<1>7. CASE ~(execution[i] = "processing" /\ tOwner[i] = c)
  <2>1. UNCHANGED <<execution, tOwner, tLive>>
    BY <1>7 DEF Triggers!Mark
  <2>2. ASSUME NEW d \in Claim, tWindow'[d], NEW j \in tCovers'[d] PROVE tOwner'[j] = d /\ tLive'[j]
    BY <1>1, <1>3, <1>4, <2>1, <2>2 DEF Triggers!HoldInv, Triggers!HeldIsOwned
  <2>3. Triggers!Holds({})
    BY <1>1, <1>3, <1>4, <1>5, <2>1, <2>2 DEF Triggers!Holds, Triggers!HoldTypeOK
  <2>4. TriggerTypes'
    BY <1>1, <1>2, <2>1 DEF TriggerTypes
  <2> QED BY <1>2, <2>1, <2>3, <2>4, TriggerRest
<1> QED BY <1>6, <1>7

\* An execution that nobody may take up again is failed; a user switches a
\* trigger.
LEMMA SwitchedInv ==
    ASSUME Triggers!TriggerInv,
           \/ \E i \in Item : Triggers!FailAbandoned(i)
           \/ \E t \in Trigger, on \in BOOLEAN : Triggers!SetEnabled(t, on)
    PROVE  Triggers!TriggerInv'
<1>1. Triggers!HoldInv({}) /\ TriggerTypes
    BY TriggerParts
<1>2. ASSUME NEW i \in Item, Triggers!FailAbandoned(i) PROVE Triggers!TriggerInv'
  <2>1. /\ execution[i] = "processing" /\ ~tLive[i]
        /\ execution' = [execution EXCEPT ![i] = "failed"] /\ Triggers!Clear({i})
        /\ UNCHANGED <<tCovers, tPhase, tWindow, active, selfOff, fires, found, first, outcome>>
    BY <1>2 DEF Triggers!FailAbandoned, Triggers!Clear, Triggers!trigVars
  <2>2. Triggers!Holds({})
    BY <1>1, <2>1, TriggerClaims, Triggers!ClearHolds
  <2> QED BY <2>1, <2>2, SettledInv
<1>3. ASSUME NEW t \in Trigger, NEW on \in BOOLEAN, Triggers!SetEnabled(t, on)
      PROVE  Triggers!TriggerInv'
  <2>1. /\ active' = [active EXCEPT ![t] = on] /\ selfOff' = [selfOff EXCEPT ![t] = FALSE]
        /\ UNCHANGED <<tOwner, tLive, tCovers, tPhase, tWindow, fires, found, execution, first, outcome>>
    BY <1>3 DEF Triggers!SetEnabled, Triggers!holdVars, Triggers!execVars
  <2>2. Triggers!Holds({})
    BY <1>1, <2>1 DEF Triggers!HoldInv, Triggers!Holds, Triggers!HoldTypeOK, Triggers!WindowIsWork,
                      Triggers!HeldIsOwned
  <2>3. TriggerTypes'
    BY <1>1, <2>1 DEF TriggerTypes
  <2> QED BY <2>1, <2>2, <2>3, TriggerRest
<1> QED BY <1>2, <1>3

\* Every step of the triggers keeps their invariant.
LEMMA TriggerStep == Triggers!TriggerInv /\ [Triggers!Next]_Triggers!vars => Triggers!TriggerInv'
<1> SUFFICES ASSUME Triggers!TriggerInv, [Triggers!Next]_Triggers!vars PROVE Triggers!TriggerInv'
    OBVIOUS
<1>1. ASSUME NEW i \in Item, Triggers!Evaluate(i) \/ Triggers!Enqueue(i) \/ Triggers!FailAbandoned(i)
      PROVE  Triggers!TriggerInv'
    BY <1>1, EnqueueInv, SwitchedInv
<1>2. ASSUME NEW c \in Claim, NEW S \in SUBSET Item, Triggers!ClaimBatch(c, S)
      PROVE  Triggers!TriggerInv'
    BY <1>2, ClaimBatchInv
<1>3. ASSUME NEW c \in Claim,
             Triggers!Hold(c) \/ \E o \in {"completed", "failed"} : Triggers!EndInvocation(c, o)
      PROVE  Triggers!TriggerInv'
    BY <1>3, InvocationInv
<1>4. ASSUME NEW c \in Claim, NEW i \in Item, Triggers!Mark(c, i) PROVE Triggers!TriggerInv'
    BY <1>4, MarkInv
<1>5. ASSUME NEW t \in Trigger, NEW on \in BOOLEAN, Triggers!SetEnabled(t, on)
      PROVE  Triggers!TriggerInv'
    BY <1>5, SwitchedInv
<1>6. CASE Triggers!Environment \/ UNCHANGED Triggers!vars
  <2>1. /\ Triggers!HoldInv({}) /\ TriggerTypes
        /\ UNCHANGED <<active, selfOff, fires, found, execution, first, outcome>>
    BY <1>6, TriggerParts DEF Triggers!Environment, Triggers!vars, Triggers!trigVars, Triggers!execVars
  <2>2. Triggers!Holds({}) /\ tOwner' = tOwner
    <3>1. CASE Triggers!Environment
      <4>1. \/ \E c \in Claim : Triggers!WindowCloses(c) \/ Triggers!Die(c)
            \/ \E i \in Item : Triggers!LeaseExpires(i)
        BY <3>1 DEF Triggers!Environment, Triggers!WindowCloses, Triggers!Die, Triggers!LeaseExpires,
                    Triggers!Step
      <4> QED BY <2>1, <4>1, TriggerClaims, Triggers!TroubleHolds
    <3>2. CASE UNCHANGED Triggers!vars
        BY <2>1, <3>2 DEF Triggers!vars, Triggers!holdVars, Triggers!HoldInv, Triggers!Holds,
                          Triggers!HoldTypeOK, Triggers!WindowIsWork, Triggers!HeldIsOwned
    <3> QED BY <1>6, <3>1, <3>2
  <2>3. TriggerTypes'
    BY <2>1 DEF TriggerTypes
  <2> QED BY <2>1, <2>2, <2>3, TriggerRest
<1> QED BY <1>1, <1>2, <1>3, <1>4, <1>5, <1>6 DEF Triggers!Next

\* The inductive invariant of trigger executions.
THEOREM TriggerInvariant == Triggers!Spec => []Triggers!TriggerInv
<1>1. Triggers!Init => Triggers!TriggerInv
  <2> SUFFICES ASSUME Triggers!Init PROVE Triggers!TriggerInv
    OBVIOUS
  <2>1. Triggers!HoldInv({})
    BY DEF Triggers!Init, Triggers!HoldInit, Triggers!HoldInv, Triggers!HoldTypeOK, Triggers!Phase,
           Triggers!WindowIsWork, Triggers!HeldIsOwned
  <2>2. TriggerTypes /\ ExecInv
    BY DEF Triggers!Init, Triggers!HoldInit, Triggers!RowInit, TriggerTypes, ExecStatus, ExecInv,
           Triggers!LeasedIsProcessing, Triggers!DueIsNew
  <2>3. Triggers!FiresCounted
    <3> SUFFICES ASSUME NEW t \in Trigger PROVE fires[t] = Cardinality(Fired(t))
        BY SameCount DEF Triggers!FiresCounted, Fired
    <3>1. Fired(t) = {} /\ fires[t] = 0
        BY DEF Triggers!Init, Triggers!RowInit, Fired
    <3> QED BY <3>1, FS_EmptySet
  <2> QED BY <2>1, <2>2, <2>3, TriggerParts
<1>2. Triggers!TriggerInv /\ [Triggers!Next]_Triggers!vars => Triggers!TriggerInv'
    BY TriggerStep
<1> QED BY <1>1, <1>2, PTL DEF Triggers!Spec

\* Fires are counted once per execution, one invocation acts for an execution
\* at a time, and token and status agree, for any number of triggers.
THEOREM TriggersSafe == Triggers!Spec => []TriggerSafety
<1>1. Triggers!TriggerInv => TriggerSafety
    BY TriggerParts DEF TriggerSafety, Triggers!TriggerSafety, Triggers!HeldIsOwned, Triggers!HoldInv, ExecInv
<1> QED BY <1>1, TriggerInvariant, PTL

-----------------------------------------------------------------------------
(* The three together.                                                        *)

\* Each of the three moves by its own specification, or rests, in the
\* specification that TLC checks.
LEMMA EachRuns == MCSpec => Tasks!Spec /\ Spec /\ Triggers!Spec
<1>1. MCInit => Tasks!Init /\ Init /\ Triggers!Init
    BY DEF MCInit
<1>2. [MCNext]_<<running, vars, taskVars, triggerVars>>
         => [Tasks!Next]_Tasks!vars /\ [Next]_vars /\ [Triggers!Next]_Triggers!vars
  <2> SUFFICES ASSUME [MCNext]_<<running, vars, taskVars, triggerVars>>
               PROVE  [Tasks!Next]_Tasks!vars /\ [Next]_vars /\ [Triggers!Next]_Triggers!vars
    OBVIOUS
  <2>1. /\ UNCHANGED taskVars => UNCHANGED Tasks!vars
        /\ UNCHANGED triggerVars => UNCHANGED Triggers!vars
    BY DEF taskVars, triggerVars, Tasks!vars, Tasks!holdVars, Tasks!rowVars,
           Triggers!vars, Triggers!holdVars, Triggers!trigVars, Triggers!execVars
  <2>2. /\ Runs("task") => UNCHANGED <<vars, triggerVars>>
        /\ Runs("schedule") => UNCHANGED <<taskVars, triggerVars>>
        /\ Runs("trigger") => UNCHANGED <<taskVars, vars>>
    BY DEF Runs
  <2> QED BY <2>1, <2>2 DEF MCNext
<1> QED BY <1>1, <1>2, PTL DEF MCSpec, Tasks!Spec, Spec, Triggers!Spec

\* The inductive invariants of the three, of the specification that TLC checks.
THEOREM LeaseInvariant == ASSUME MaxEdits \in Nat PROVE MCSpec => []LeaseInv
BY EachRuns, TaskInvariant, ScheduleInvariant, TriggerInvariant, PTL DEF LeaseInv

\* What the three promise, of the specification that TLC checks: the runs of a
\* task, of a schedule and of a trigger's execution, whoever lost a lease.
THEOREM BackgroundSafe == ASSUME MaxEdits \in Nat PROVE MCSpec => []RunSafety
BY EachRuns, TasksSafe, SchedulesSafe, TriggersSafe, PTL DEF RunSafety
=============================================================================
