----------------------------- MODULE MCBackground -----------------------------
(* The three users of LeaseHold for TLC, side by side: running chooses the   *)
(* one that moves, the others stay in their initial states, where no fair    *)
(* action is enabled.  LeaseHold's own variables are those of the schedule.  *)
EXTENDS ScheduleRuns

CONSTANTS
    Task, MaxEdits,             \* TaskRuns: its rows
    Trigger, Of, MaxFires       \* TriggerRuns: its rows are Item

ASSUME BackgroundAssumption == IsFiniteSet(Task)

VARIABLES
    running,
    \* TaskRuns
    kOwner, kLive, kCovers, kPhase, kWindow, status, log, author, edited, edits,
    \* TriggerRuns
    tOwner, tLive, tCovers, tPhase, tWindow, active, selfOff, fires, found, execution, first, outcome

Tasks == INSTANCE TaskRuns WITH
    Item <- Task,
    owner <- kOwner, live <- kLive, covers <- kCovers, phase <- kPhase, window <- kWindow
Triggers == INSTANCE TriggerRuns WITH
    owner <- tOwner, live <- tLive, covers <- tCovers, phase <- tPhase, window <- tWindow,
    enabled <- active, due <- found, status <- execution, started <- first

taskVars == <<kOwner, kLive, kCovers, kPhase, kWindow, status, log, author, edited, edits>>
triggerVars ==
    <<tOwner, tLive, tCovers, tPhase, tWindow, active, selfOff, fires, found, execution, first, outcome>>

\* One trigger for all the executions.
OneTrigger == [i \in Item |-> CHOOSE t \in Trigger : TRUE]

MCInit ==
    /\ running \in {"task", "schedule", "trigger"}
    /\ Init /\ Tasks!Init /\ Triggers!Init

Runs(c) ==
    /\ running = c
    /\ UNCHANGED running
    /\ c # "task" => UNCHANGED taskVars
    /\ c # "schedule" => UNCHANGED vars
    /\ c # "trigger" => UNCHANGED triggerVars

MCNext ==
    \/ Tasks!Next /\ Runs("task")
    \/ Next /\ Runs("schedule")
    \/ Triggers!Next /\ Runs("trigger")

MCSpec ==
    /\ MCInit /\ [][MCNext]_<<running, vars, taskVars, triggerVars>>
    /\ Fairness /\ Tasks!Fairness /\ Triggers!Fairness

\* A task has one run at a time; a run that lost its task neither settles it
\* nor speaks for it.
TaskSafety == Tasks!TaskSafety

\* Every run of a task ends: completed, released, revoked or recovered.
RunsEnd == Tasks!RunsEnd

\* Fires are counted once per execution, one invocation acts for an execution
\* at a time, and a settled one stays settled.
TriggerSafety == Triggers!TriggerSafety

\* What the runs of the three promise, whichever worker's lease was lost: one run
\* at a time for a task, a slot and an execution; late ones are fenced; each
\* occurrence and each fire is accounted for once.
RunSafety == TaskSafety /\ ScheduleSafety /\ TriggerSafety

\* The inductive invariants of the three: the lease, and what each adds to it.
LeaseInv == Tasks!TaskInv /\ ScheduleInv /\ Triggers!TriggerInv

\* A claimed execution is completed or failed in the end, also when its
\* trigger was switched off meanwhile.
ExecutionsSettle == Triggers!ExecutionsSettle
=============================================================================
