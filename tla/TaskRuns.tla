------------------------------ MODULE TaskRuns ------------------------------
(***************************************************************************)
(* Runs of agent tasks: execute_task under a TaskLeaseGuard, the settling  *)
(* statements of TaskDAO, the recovery loop, and users who edit a task's   *)
(* status while it runs.                                                   *)
(***************************************************************************)
EXTENDS LeaseHold

CONSTANT MaxEdits       \* bound: how often users edit

VARIABLES
    status,     \* tasks.status
    log,        \* the last entry of task_logs for the task's latest claim
    author,     \* whose run that entry speaks of
    edited,     \* claims a user's edit has revoked
    edits

rowVars == <<status, log, author>>
vars == <<holdVars, rowVars, edited, edits>>

Status == {"pending", "doing", "done"}
Entry == {"none", "completed", "released", "recovered"}

TypeOK ==
    /\ HoldTypeOK
    /\ status \in [Item -> Status]
    /\ log \in [Item -> Entry]
    /\ author \in [Item -> Claim \cup {NoClaim}]
    /\ edited \subseteq Claim
    /\ edits \in 0 .. MaxEdits

RowInit ==
    /\ status = [i \in Item |-> "pending"]
    /\ log = [i \in Item |-> "none"]
    /\ author = [i \in Item |-> NoClaim]
    /\ edited = {}
    /\ edits = 0
Init == HoldInit /\ RowInit

\* Mutant: a second run starts although the lease of the first lasts.
ClaimRunning(c, i) ==
    /\ Unused(c, {}) /\ Take(c, {i})
    /\ status' = [status EXCEPT ![i] = "doing"]
    /\ log' = [log EXCEPT ![i] = "none"]
    /\ author' = [author EXCEPT ![i] = c]
    /\ edited' = edited \ {c}
    /\ UNCHANGED edits

\* claim: by the trigger route or execute_task.
ClaimTask(c, i) ==
    /\ owner[i] = NoClaim \/ ~live[i]
    /\ Unused(c, {}) /\ Take(c, {i})
    /\ status' = [status EXCEPT ![i] = "doing"]
    /\ log' = [log EXCEPT ![i] = "none"]
    /\ author' = [author EXCEPT ![i] = c]
    /\ edited' = edited \ {c}
    /\ UNCHANGED edits

\* run_under_lease: the first renewal, keep_alive and the guard's confirms.
\* A renewal that raises counts as lost at once.
KeepAlive(c) ==
    /\ \/ Enter(c, TRUE)
       \/ Confirm(c, TRUE)
       \/ Fire(c)
       \/ phase[c] \in {"taken", "work"} /\ Step(c, "lost", FALSE) /\ UNCHANGED <<owner, live, covers>>
    /\ UNCHANGED <<rowVars, edited, edits>>

\* _run returns: keep_alive is cancelled and nothing renews any more.
EndRun(c) ==
    /\ phase[c] = "work" /\ window[c]
    /\ Step(c, "ended", FALSE)
    /\ UNCHANGED <<owner, live, covers, rowVars, edited, edits>>

\* _settle: one statement, fenced on the token and an unexpired lease.
Fenced(c, i) == owner[i] = c /\ live[i]
Settle(c, i, s, e) ==
    IF Fenced(c, i)
    THEN /\ Clear({i})
         /\ status' = [status EXCEPT ![i] = s]
         /\ log' = [log EXCEPT ![i] = e]
    ELSE UNCHANGED <<owner, live, status, log>>

\* _complete: a todo is done, a supervision stays pending.
Complete(c) ==
    /\ phase[c] = "ended"
    /\ \E i \in covers[c], s \in {"done", "pending"} : Settle(c, i, s, "completed")
    /\ Step(c, "free", FALSE)
    /\ UNCHANGED <<covers, author, edited, edits>>

\* Mutant: the claim is given up by token alone.
ReleaseExpired(c) ==
    /\ phase[c] = "lost"
    /\ \E i \in covers[c] :
          /\ Clear({i})
          /\ status' = [status EXCEPT ![i] = "pending"]
          /\ log' = [log EXCEPT ![i] = "released"]
    /\ Step(c, "free", FALSE)
    /\ UNCHANGED <<covers, author, edited, edits>>

\* _release after a failure, a cancellation or a lost lease; the statement
\* itself may fail and leave the row to the recovery.
Release(c) ==
    /\ phase[c] = "lost"
    /\ \/ \E i \in covers[c] : Settle(c, i, "pending", "released")
       \/ UNCHANGED <<owner, live, status, log>>
    /\ Step(c, "free", FALSE)
    /\ UNCHANGED <<covers, author, edited, edits>>

\* Mutant: only runs whose process has told are recovered.
RecoverReleased(i) ==
    /\ owner[i] # NoClaim /\ ~live[i]
    /\ phase[owner[i]] = "free"
    /\ Clear({i})
    /\ status' = [status EXCEPT ![i] = "pending"]
    /\ log' = [log EXCEPT ![i] = "recovered"]
    /\ UNCHANGED <<covers, phase, window, author, edited, edits>>

\* recover_expired, one row.
Recover(i) ==
    /\ owner[i] # NoClaim /\ ~live[i]
    /\ Clear({i})
    /\ status' = [status EXCEPT ![i] = "pending"]
    /\ log' = [log EXCEPT ![i] = "recovered"]
    /\ UNCHANGED <<covers, phase, window, author, edited, edits>>

\* update with a status: a change revokes the claim in the same statement.
EditStatus(i, s) ==
    /\ edits < MaxEdits
    /\ edits' = edits + 1
    /\ IF s # status[i]
       THEN /\ Clear({i})
            /\ status' = [status EXCEPT ![i] = s]
            /\ edited' = IF owner[i] = NoClaim THEN edited ELSE edited \cup {owner[i]}
       ELSE UNCHANGED <<owner, live, status, edited>>
    /\ UNCHANGED <<covers, phase, window, log, author>>

\* Time and crashes.
Environment ==
    /\ \/ \E c \in Claim : WindowCloses(c) \/ Die(c)
       \/ \E i \in Item : LeaseExpires(i)
    /\ UNCHANGED <<rowVars, edited, edits>>

Next ==
    \/ \E c \in Claim, i \in Item : ClaimTask(c, i)
    \/ \E c \in Claim : KeepAlive(c) \/ EndRun(c) \/ Complete(c) \/ Release(c)
    \/ \E i \in Item : Recover(i) \/ \E s \in Status : EditStatus(i, s)
    \/ Environment

Spec == Init /\ [][Next]_vars

\* Time passes, the worker role's recovery loop runs for ever, and runs are
\* bounded by their rounds.
Fairness ==
    /\ \A i \in Item : /\ WF_vars(Recover(i))
                       /\ WF_vars(LeaseExpires(i) /\ UNCHANGED <<rowVars, edited, edits>>)
    /\ \A c \in Claim : /\ WF_vars(EndRun(c))
                        /\ WF_vars(Complete(c)) /\ WF_vars(Release(c))
                        /\ WF_vars((Enter(c, TRUE) \/ Fire(c)) /\ UNCHANGED <<rowVars, edited, edits>>)

FairSpec == Spec /\ Fairness

-----------------------------------------------------------------------------
\* What is logged is about the latest run and agrees with the row: a run that
\* lost its task neither settles it nor speaks for it.
LogIsTrue ==
    \A i \in Item :
        /\ owner[i] # NoClaim => status[i] = "doing" /\ log[i] = "none" /\ author[i] = owner[i]
        /\ status[i] = "done" /\ edits = 0 => log[i] = "completed"

\* No two runs work on a task, except for the moment an edit takes the task
\* from a run that has not renewed yet; no settled task is touched by its
\* former run.
TaskSafety == HeldIsOwned(edited) /\ LogIsTrue

\* The inductive invariant.
TaskInv == TypeOK /\ HoldInv(edited) /\ LogIsTrue

\* Every run ends: completed, released, revoked or recovered, whatever died.
RunsEnd == \A i \in Item, c \in Claim : (owner[i] = c) ~> (owner[i] # c)
=============================================================================
