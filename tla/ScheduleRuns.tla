---------------------------- MODULE ScheduleRuns ----------------------------
(***************************************************************************)
(* One schedule: its periodic occurrences and the manual runs users ask    *)
(* for.  claim_due and claim_pending lease them, _execute_periodic_        *)
(* schedule and execute_manual_run work under a ScheduleLeaseHold, and     *)
(* users disable the schedule or cancel a manual run meanwhile.            *)
(***************************************************************************)
EXTENDS LeaseHold

CONSTANTS
    Sched,      \* the schedule's own row, in Item; the others are manual runs
    MaxDue,     \* bound: occurrences
    MaxDrops    \* bound: occurrences given up by disabling

ASSUME ScheduleAssumption == Sched \in Item /\ MaxDue \in Nat

VARIABLES
    enabled,    \* is_enabled
    due,        \* next_run_at <= now
    pending,    \* pending_due_at is set
    started,    \* pending_started_at, started_at
    count,      \* run_count
    manual,     \* agent_schedule_manual_runs
    begun,      \* the claim passed start
    ran,        \* items some process has acted for
    fresh,      \* occurrences claimed
    logged,     \* occurrences with their activity entry
    dropped,    \* occurrences given up by disabling
    revoked     \* claims cleared by a user

schedVars == <<enabled, due, pending, manual>>
countVars == <<started, count, fresh, logged, dropped>>
vars == <<holdVars, schedVars, countVars, begun, ran, revoked>>

Manual == Item \ {Sched}

TypeOK ==
    /\ HoldTypeOK
    /\ enabled \in BOOLEAN /\ due \in BOOLEAN /\ pending \in BOOLEAN
    /\ started \in [Item -> BOOLEAN]
    /\ count \in Nat
    /\ manual \in [Manual -> {"none", "open", "finished", "cancelled"}]
    /\ begun \in [Claim -> BOOLEAN]
    /\ ran \subseteq Item
    /\ fresh \in 0 .. MaxDue /\ logged \in Nat /\ dropped \in Nat
    /\ revoked \subseteq Claim

RowInit ==
    /\ enabled = TRUE /\ due = FALSE /\ pending = FALSE
    /\ started = [i \in Item |-> FALSE]
    /\ count = 0
    /\ manual = [m \in Manual |-> "none"]
    /\ begun = [c \in Claim |-> FALSE]
    /\ ran = {}
    /\ fresh = 0 /\ logged = 0 /\ dropped = 0
    /\ revoked = {}
Init == HoldInit /\ RowInit

-----------------------------------------------------------------------------
BecomesDue ==
    /\ enabled /\ ~due /\ fresh < MaxDue
    /\ due' = TRUE
    /\ UNCHANGED <<holdVars, enabled, pending, manual, countVars, begun, ran, revoked>>

\* A claim starts without a past.
TakeItem(c, i) ==
    /\ Unused(c, {i}) /\ Take(c, {i})
    /\ begun' = [begun EXCEPT ![c] = FALSE]
    /\ revoked' = revoked \ {c}

\* claim_due, a new occurrence: the slot is filled and next_run_at moves on.
ClaimDue(c) ==
    /\ enabled /\ due /\ ~pending /\ fresh < MaxDue
    /\ TakeItem(c, Sched)
    /\ due' = FALSE /\ pending' = TRUE
    /\ started' = [started EXCEPT ![Sched] = FALSE]
    /\ fresh' = fresh + 1
    /\ UNCHANGED <<enabled, manual, count, logged, dropped, ran>>

\* Mutant: a reclaimed occurrence counts as a new one.
ReclaimUnstarted(c) ==
    /\ enabled /\ pending /\ ~live[Sched]
    /\ TakeItem(c, Sched)
    /\ started' = [started EXCEPT ![Sched] = FALSE]
    /\ UNCHANGED <<schedVars, count, fresh, logged, dropped, ran>>

\* Mutant: an occurrence that was started is not taken up again.
ReclaimWaiting(c) ==
    /\ enabled /\ pending /\ ~live[Sched] /\ ~started[Sched]
    /\ TakeItem(c, Sched)
    /\ UNCHANGED <<schedVars, countVars, ran>>

\* claim_due, the expired lease of an occurrence.
Reclaim(c) ==
    /\ enabled /\ pending /\ ~live[Sched]
    /\ TakeItem(c, Sched)
    /\ UNCHANGED <<schedVars, countVars, ran>>

\* claim_pending.
ClaimManual(c, m) ==
    /\ manual[m] = "open"
    /\ owner[m] = NoClaim \/ ~live[m]
    /\ TakeItem(c, m)
    /\ UNCHANGED <<schedVars, countVars, ran>>

\* accept: a repeated key is the same run.
AcceptManual(m) ==
    /\ manual[m] = "none"
    /\ manual' = [manual EXCEPT ![m] = "open"]
    /\ UNCHANGED <<holdVars, enabled, due, pending, countVars, begun, ran, revoked>>

-----------------------------------------------------------------------------
(* The work.                                                               *)

\* __aenter__, the heartbeat and confirm.  A renewal that raises is tried
\* again until the deadline.
Hold(c) ==
    /\ Enter(c, TRUE) \/ Confirm(c, TRUE) \/ Fire(c)
    /\ UNCHANGED <<schedVars, countVars, begun, ran, revoked>>

Fenced(c, i) == owner[i] = c /\ live[i]

\* Mutant: the first start of a manual run is not fenced on its claim.
StartUnfenced(c) ==
    /\ phase[c] = "work" /\ ~begun[c]
    /\ \E i \in covers[c] :
          /\ started' = [started EXCEPT ![i] = TRUE]
          /\ count' = IF started[i] THEN count ELSE count + 1
          /\ begun' = [begun EXCEPT ![c] = TRUE]
    /\ UNCHANGED <<holdVars, schedVars, fresh, logged, dropped, ran, revoked>>

\* start_occurrence and start: run_count once for all attempts.
Start(c) ==
    /\ phase[c] = "work" /\ ~begun[c]
    /\ \E i \in covers[c] :
          IF Fenced(c, i)
          THEN /\ started' = [started EXCEPT ![i] = TRUE]
               /\ count' = IF started[i] THEN count ELSE count + 1
               /\ begun' = [begun EXCEPT ![c] = TRUE]
               /\ UNCHANGED holdVars
          ELSE /\ Step(c, "lost", FALSE)
               /\ UNCHANGED <<owner, live, covers, started, count, begun>>
    /\ UNCHANGED <<schedVars, fresh, logged, dropped, ran, revoked>>

\* A tool call of the model loop, behind ensure_held.
Act(c) ==
    /\ phase[c] = "work" /\ begun[c] /\ window[c]
    /\ ran' = ran \cup covers[c]
    /\ UNCHANGED <<holdVars, schedVars, countVars, begun, revoked>>

\* The last confirm; without start where the agent is not running.
EndWork(c) ==
    /\ phase[c] = "work" /\ window[c]
    /\ Renewable(c, TRUE) = covers[c]
    /\ Step(c, "ended", TRUE)
    /\ UNCHANGED <<owner, live, covers, schedVars, countVars, begun, ran, revoked>>

\* finish: the slot is emptied and the entry written in one transaction that
\* both the fence and the local deadline must let through.
Finish(c) ==
    /\ phase[c] = "ended" /\ window[c]
    /\ \E i \in covers[c] :
          /\ Fenced(c, i)
          /\ Clear({i})
          /\ IF i = Sched
             THEN /\ pending' = FALSE /\ logged' = logged + 1
                  /\ UNCHANGED manual
             ELSE /\ manual' = [manual EXCEPT ![i] = "finished"]
                  /\ UNCHANGED <<pending, logged>>
    /\ Step(c, "free", FALSE)
    /\ UNCHANGED <<covers, enabled, due, started, count, fresh, dropped, begun, ran, revoked>>

\* The transaction is rolled back, or the lease was lost before: the work
\* stays recoverable.
GiveUp(c) ==
    /\ \/ phase[c] = "lost"
       \/ phase[c] = "ended" /\ ~(window[c] /\ \A i \in covers[c] : Fenced(c, i))
    /\ Step(c, "free", FALSE)
    /\ UNCHANGED <<owner, live, covers, schedVars, countVars, begun, ran, revoked>>

-----------------------------------------------------------------------------
(* Users.                                                                  *)

Holders(S) == {owner[i] : i \in S} \ {NoClaim}

\* update and disable_for_*: the slot is cleared with the switch; also what
\* claim_due does with an expression it cannot compute.
Disable ==
    /\ enabled /\ (pending => dropped < MaxDrops)
    /\ enabled' = FALSE /\ due' = FALSE /\ pending' = FALSE
    /\ dropped' = IF pending THEN dropped + 1 ELSE dropped
    /\ Clear({Sched})
    /\ revoked' = revoked \cup Holders({Sched})
    /\ UNCHANGED <<covers, phase, window, manual, started, count, fresh, logged, begun, ran>>

Enable ==
    /\ ~enabled
    /\ enabled' = TRUE
    /\ UNCHANGED <<holdVars, due, pending, manual, countVars, begun, ran, revoked>>

\* cancel_pending: until somebody has started it.
CancelManual(m) ==
    /\ manual[m] = "open" /\ ~started[m]
    /\ manual' = [manual EXCEPT ![m] = "cancelled"]
    /\ Clear({m})
    /\ revoked' = revoked \cup Holders({m})
    /\ UNCHANGED <<covers, phase, window, enabled, due, pending, countVars, begun, ran>>

Environment ==
    /\ \/ \E c \in Claim : WindowCloses(c) \/ Die(c)
       \/ \E i \in Item : LeaseExpires(i)
    /\ UNCHANGED <<schedVars, countVars, begun, ran, revoked>>

ClaimNext(c) == ClaimDue(c) \/ Reclaim(c) \/ \E m \in Manual : ClaimManual(c, m)

Next ==
    \/ BecomesDue \/ Disable \/ Enable
    \/ \E m \in Manual : AcceptManual(m) \/ CancelManual(m)
    \/ \E c \in Claim : \/ ClaimNext(c) \/ Hold(c) \/ Start(c) \/ Act(c)
                        \/ EndWork(c) \/ Finish(c) \/ GiveUp(c)
    \/ Environment

Spec == Init /\ [][Next]_vars

\* The scheduler ticks for ever, time passes, and from some time on processes
\* survive and renew in time.
Fairness ==
    /\ \A i \in Item : WF_vars(LeaseExpires(i) /\ UNCHANGED <<schedVars, countVars, begun, ran, revoked>>)
    /\ WF_vars(\E c \in Claim : Reclaim(c))
    /\ \A m \in Manual : WF_vars(\E c \in Claim : ClaimManual(c, m))
    /\ \A c \in Claim : /\ WF_vars(Hold(c)) /\ WF_vars(GiveUp(c))
                        /\ WF_vars(EndWork(c)) /\ WF_vars(Finish(c))
    /\ <>[][~Trouble]_vars

FairSpec == Spec /\ Fairness

-----------------------------------------------------------------------------
\* Every claimed occurrence has one activity entry, is dropped by a user, or
\* is still in its slot: an attempt that loses its lease adds none and takes
\* none away.
EachOccurrenceLogged == fresh = logged + dropped + (IF pending THEN 1 ELSE 0)

\* run_count moves once for an occurrence or manual run, however often it is
\* attempted.
CountedOnce == count <= fresh + Cardinality({m \in Manual : started[m]})

\* Nothing was done for a manual run that a user has cancelled.
CancelledNeverRan == \A m \in Manual : manual[m] = "cancelled" => m \notin ran

\* An occupied slot is always leased, by somebody or by an expired claim, so
\* that a tick finds it.
SlotIsLeased == pending <=> owner[Sched] # NoClaim

\* Attempts of different processes at one occurrence or manual run: only one
\* works, and counting, logging and cancelling agree on what happened.
ScheduleSafety ==
    HeldIsOwned(revoked) /\ EachOccurrenceLogged /\ CountedOnce /\ CancelledNeverRan /\ SlotIsLeased

\* The inductive invariant: an occurrence in its slot that was not started is
\* not counted yet, a claim is for one row, and only what was started was run.
CountedLater ==
    count + (IF pending /\ ~started[Sched] THEN 1 ELSE 0)
      <= fresh + Cardinality({m \in Manual : started[m]})
OneRow == \A c \in Claim : \A i, j \in covers[c] : i = j
BegunIsStarted == \A c \in Claim : begun[c] => \A m \in covers[c] \ {Sched} : started[m]
RanWasStarted == \A m \in ran \ {Sched} : started[m]
CancelledIsFree == \A m \in Manual : manual[m] = "cancelled" => ~started[m] /\ owner[m] = NoClaim

ScheduleInv ==
    /\ TypeOK /\ HoldInv(revoked) /\ EachOccurrenceLogged /\ SlotIsLeased
    /\ CountedLater /\ OneRow /\ BegunIsStarted /\ RanWasStarted /\ CancelledIsFree

\* An occurrence leaves its slot and an accepted manual run is finished or
\* cancelled, although processes die in the middle of them.
OccurrencesSettle ==
    /\ pending ~> ~pending
    /\ \A m \in Manual : manual[m] = "open" ~> manual[m] \in {"finished", "cancelled"}
=============================================================================
