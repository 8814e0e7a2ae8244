----------------------------- MODULE TriggerRuns -----------------------------
(***************************************************************************)
(* Executions of an agent's triggers: evaluated and enqueued under an      *)
(* idempotency key, claimed in batches, invoked together under one         *)
(* ExecutionLeaseHold, and marked one by one.  A trigger is switched off   *)
(* by its user, or by itself when it has fired for the last time.          *)
(***************************************************************************)
EXTENDS LeaseHold

CONSTANTS
    Trigger,
    Of,         \* the trigger of each execution, in [Item -> Trigger]
    MaxFires    \* max_fires of every trigger

VARIABLES
    enabled,    \* is_enabled
    selfOff,    \* self_disabled
    fires,      \* fire_count
    due,        \* executions whose trigger was found due and is not enqueued
    status,     \* trigger_executions.status
    started,    \* started_at
    outcome     \* how the invocation under the claim ended

trigVars == <<enabled, selfOff, fires>>
execVars == <<due, status, started>>
vars == <<holdVars, trigVars, execVars, outcome>>

TypeOK ==
    /\ HoldTypeOK
    /\ enabled \in [Trigger -> BOOLEAN]
    /\ selfOff \in [Trigger -> BOOLEAN]
    /\ fires \in [Trigger -> Nat]
    /\ due \subseteq Item
    /\ status \in [Item -> {"none", "pending", "processing", "completed", "failed"}]
    /\ started \in [Item -> BOOLEAN]
    /\ outcome \in [Claim -> {"completed", "failed"}]

RowInit ==
    /\ enabled = [t \in Trigger |-> TRUE]
    /\ selfOff = [t \in Trigger |-> FALSE]
    /\ fires = [t \in Trigger |-> 0]
    /\ due = {}
    /\ status = [i \in Item |-> "none"]
    /\ started = [i \in Item |-> FALSE]
    /\ outcome = [c \in Claim |-> "failed"]
Init == HoldInit /\ RowInit

-----------------------------------------------------------------------------
\* evaluate_trigger, or a webhook that finds its trigger.
Evaluate(i) ==
    /\ status[i] = "none" /\ i \notin due
    /\ enabled[Of[i]] /\ fires[Of[i]] < MaxFires
    /\ due' = due \cup {i}
    /\ UNCHANGED <<holdVars, trigVars, status, started, outcome>>

\* try_enqueue, some time later.
Enqueue(i) ==
    /\ i \in due
    /\ due' = due \ {i}
    /\ status' = [status EXCEPT ![i] = "pending"]
    /\ UNCHANGED <<holdVars, trigVars, started, outcome>>

\* Mutant: only an enabled trigger's work is reclaimed.
ClaimableEnabled(i) ==
    \/ status[i] = "pending" /\ enabled[Of[i]]
    \/ status[i] = "processing" /\ ~live[i] /\ enabled[Of[i]]

\* claim_pending: new work of an enabled trigger, and processing work whose
\* lease has expired unless a user has switched its trigger off.
Claimable(i) ==
    \/ status[i] = "pending" /\ enabled[Of[i]]
    \/ status[i] = "processing" /\ ~live[i] /\ (enabled[Of[i]] \/ selfOff[Of[i]])

\* record_first_starts: each execution once, however often it is claimed.
FirstStarts(S, t) == Cardinality({i \in S : ~started[i] /\ Of[i] = t})
LastFire(S, t) == FirstStarts(S, t) > 0 /\ fires[t] + FirstStarts(S, t) >= MaxFires

\* Mutant: every claim counts as a fire.
ClaimCounts(c, S) ==
    /\ S # {} /\ \A i \in S : Claimable(i)
    /\ Unused(c, S) /\ Take(c, S)
    /\ status' = [i \in Item |-> IF i \in S THEN "processing" ELSE status[i]]
    /\ started' = [i \in Item |-> i \in S \/ started[i]]
    /\ fires' = [t \in Trigger |-> fires[t] + Cardinality({i \in S : Of[i] = t})]
    /\ enabled' = [t \in Trigger |-> enabled[t] /\ ~LastFire(S, t)]
    /\ selfOff' = [t \in Trigger |-> selfOff[t] \/ (enabled[t] /\ LastFire(S, t))]
    /\ UNCHANGED <<due, outcome>>

\* claim_pending_trigger_executions: rows that are not locked, all or some.
ClaimBatch(c, S) ==
    /\ S # {} /\ \A i \in S : Claimable(i)
    /\ Unused(c, S) /\ Take(c, S)
    /\ status' = [i \in Item |-> IF i \in S THEN "processing" ELSE status[i]]
    /\ started' = [i \in Item |-> i \in S \/ started[i]]
    /\ fires' = [t \in Trigger |-> fires[t] + FirstStarts(S, t)]
    /\ enabled' = [t \in Trigger |-> enabled[t] /\ ~LastFire(S, t)]
    /\ selfOff' = [t \in Trigger |-> selfOff[t] \/ (enabled[t] /\ LastFire(S, t))]
    /\ UNCHANGED <<due, outcome>>

\* ExecutionLeaseHold: renewal asks for the token only, not for the expiry.
Hold(c) ==
    /\ Enter(c, FALSE) \/ Confirm(c, FALSE) \/ Fire(c)
    /\ UNCHANGED <<trigVars, execVars, outcome>>

\* _run_trigger_invocation returns, with or without an error.
EndInvocation(c, o) ==
    /\ phase[c] = "work"
    /\ o = "completed" => window[c] /\ Renewable(c, FALSE) = covers[c]
    /\ Step(c, "ended", FALSE)
    /\ outcome' = [outcome EXCEPT ![c] = o]
    /\ UNCHANGED <<owner, live, covers, trigVars, execVars>>

\* Mutant: the execution is marked whoever owns it.
MarkAny(c, i) ==
    /\ phase[c] \in {"ended", "lost"} /\ i \in covers[c]
    /\ status' = [status EXCEPT ![i] = IF phase[c] = "lost" THEN "failed" ELSE outcome[c]]
    /\ Clear({i})
    /\ covers' = [covers EXCEPT ![c] = @ \ {i}]
    /\ IF covers[c] = {i} THEN Step(c, "free", FALSE) ELSE UNCHANGED <<phase, window>>
    /\ UNCHANGED <<trigVars, due, started, outcome>>

\* finish, a statement of its own for each execution of the batch.
Mark(c, i) ==
    /\ phase[c] \in {"ended", "lost"} /\ i \in covers[c]
    /\ IF status[i] = "processing" /\ owner[i] = c
       THEN /\ status' = [status EXCEPT ![i] = IF phase[c] = "lost" THEN "failed" ELSE outcome[c]]
            /\ Clear({i})
       ELSE UNCHANGED <<status, owner, live>>
    /\ covers' = [covers EXCEPT ![c] = @ \ {i}]
    /\ IF covers[c] = {i} THEN Step(c, "free", FALSE) ELSE UNCHANGED <<phase, window>>
    /\ UNCHANGED <<trigVars, due, started, outcome>>

\* fail_expired_for_disabled_triggers, before each claim.
FailAbandoned(i) ==
    /\ status[i] = "processing" /\ ~live[i]
    /\ ~enabled[Of[i]] /\ ~selfOff[Of[i]]
    /\ status' = [status EXCEPT ![i] = "failed"]
    /\ Clear({i})
    /\ UNCHANGED <<covers, phase, window, trigVars, due, started, outcome>>

\* update by a user, a tool or an expired trigger: also clears self_disabled.
SetEnabled(t, on) ==
    /\ enabled[t] # on \/ selfOff[t]
    /\ enabled' = [enabled EXCEPT ![t] = on]
    /\ selfOff' = [selfOff EXCEPT ![t] = FALSE]
    /\ UNCHANGED <<holdVars, fires, execVars, outcome>>

Environment ==
    /\ \/ \E c \in Claim : WindowCloses(c) \/ Die(c)
       \/ \E i \in Item : LeaseExpires(i)
    /\ UNCHANGED <<trigVars, execVars, outcome>>

Next ==
    \/ \E i \in Item : Evaluate(i) \/ Enqueue(i) \/ FailAbandoned(i)
    \/ \E c \in Claim, S \in SUBSET Item : ClaimBatch(c, S)
    \/ \E c \in Claim : Hold(c) \/ \E o \in {"completed", "failed"} : EndInvocation(c, o)
    \/ \E c \in Claim, i \in Item : Mark(c, i)
    \/ \E t \in Trigger, on \in BOOLEAN : SetEnabled(t, on)
    \/ Environment

Spec == Init /\ [][Next]_vars

\* Every tick of the daemon fails the abandoned and claims the rest; time passes, and from some time on processes
\* survive and renew in time.
Fairness ==
    /\ \A i \in Item :
          /\ WF_vars(LeaseExpires(i) /\ UNCHANGED <<trigVars, execVars, outcome>>)
          /\ WF_vars(\/ FailAbandoned(i)
                     \/ \E c \in Claim, S \in SUBSET Item : i \in S /\ ClaimBatch(c, S))
    /\ \A c \in Claim :
          /\ WF_vars(Hold(c)) /\ WF_vars(EndInvocation(c, "failed"))
          /\ WF_vars(\E i \in Item : Mark(c, i))
    /\ <>[][~Trouble]_vars

FairSpec == Spec /\ Fairness

-----------------------------------------------------------------------------
\* fire_count is the number of executions ever started: a lease that expires
\* and is reclaimed does not fire the trigger again.
FiresCounted == \A t \in Trigger : fires[t] = Cardinality({i \in Item : started[i] /\ Of[i] = t})

\* Token and status agree, so that a settled execution can neither be renewed
\* nor marked again by an invocation that outlived its lease.
LeasedIsProcessing == \A i \in Item : status[i] = "processing" <=> owner[i] # NoClaim

\* One invocation acts for an execution at a time, it fires its trigger once,
\* and a settled one stays settled.
TriggerSafety == HeldIsOwned({}) /\ FiresCounted /\ LeasedIsProcessing

\* The inductive invariant.
DueIsNew == \A i \in due : status[i] = "none"
TriggerInv == TypeOK /\ HoldInv({}) /\ FiresCounted /\ LeasedIsProcessing /\ DueIsNew

\* A claimed execution is completed or failed in the end: reclaimed after a
\* crash, or given up when its trigger was switched off.
ExecutionsSettle ==
    \A i \in Item : status[i] = "processing" ~> status[i] \in {"completed", "failed"}
=============================================================================
