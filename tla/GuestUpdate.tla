----------------------------- MODULE GuestUpdate -----------------------------
(***************************************************************************)
(* An OpenClaw upgrade of one agent's guest: a run is requested, cut over  *)
(* by the worker under the agent's workspace lock, and published or rolled *)
(* back.  Every Docker call, rename and transaction is a step between      *)
(* which the engine may die; a run found in cutover is then rolled back.   *)
(*                                                                         *)
(* Container 0 is the guest the agent starts with and container r the one  *)
(* run r makes.  The agent's directory is the set of writes it holds: user *)
(* writes, and for every container that ever wrote, its number negated.    *)
(***************************************************************************)
EXTENDS Integers, FiniteSets

CONSTANTS
    MaxRuns,    \* bound on upgrade requests
    MaxWrites   \* bound on user writes

Run == 1..MaxRuns
Box == 0..MaxRuns
Write == 1..MaxWrites
Of(c) == -1 - c

VARIABLES
    row,        \* agents: status and recorded container
    off,        \* the agent's tenant or creator is disabled
    box,        \* containers: name, up, restart policy unless-stopped
    run,        \* openclaw_update_runs
    dir,        \* the agent's directory: present, and what it holds
    snap,       \* the committed snapshot of each run
    w,          \* the worker that holds the workspace lock exclusively
    writing,    \* a user write holds it shared
    kept        \* history: writes the engine has accepted

vars == <<row, off, box, run, dir, snap, w, writing, kept>>

NoDir == [has |-> FALSE, of |-> {}]
Work(pc, r, was, code) == [pc |-> pc, run |-> r, was |-> was, code |-> code]
NoWork == Work("none", 0, "none", "none")
Gone == [name |-> "none", up |-> FALSE, keep |-> FALSE]

Init ==
    /\ \E s \in {"running", "stopped"} :
          /\ row = [status |-> s, container |-> 0]
          /\ box = [c \in Box |-> IF c = 0 THEN [name |-> "canonical", up |-> s = "running", keep |-> TRUE]
                                  ELSE Gone]
    /\ off = FALSE
    /\ run = [r \in Run |-> [state |-> "none", code |-> "none", old |-> 0, new |-> 0]]
    /\ dir = [has |-> TRUE, of |-> {}]
    /\ snap = [r \in Run |-> NoDir]
    /\ w = NoWork
    /\ writing = FALSE
    /\ kept = {}

-----------------------------------------------------------------------------
Active(r) == run[r].state \in {"pending", "cutover"}
NoneActive == \A r \in Run : ~Active(r)
Free == w.pc = "none" /\ ~writing
R == run[w.run]

At(p, q) == w.pc = p /\ w' = [w EXCEPT !.pc = q]
Named(n) == {c \in Box : box[c].name = n}

\* request_upgrade, create_pending: one active run for an agent.
Request(r) ==
    /\ run[r].state = "none" /\ NoneActive /\ (r > 1 => run[r - 1].state # "none")
    /\ row.status \in {"running", "stopped"}
    /\ run' = [run EXCEPT ![r].state = "pending"]
    /\ UNCHANGED <<row, off, box, dir, snap, w, writing, kept>>

\* process: the image is pulled before the lock is asked for.
PullFails(r) ==
    /\ run[r].state = "pending"
    /\ run' = [run EXCEPT ![r].state = "failed", ![r].code = "pull_failed"]
    /\ UNCHANGED <<row, off, box, dir, snap, w, writing, kept>>

\* _cutover: the journal and the state in one statement, before any change.
BeginCutover(r) ==
    /\ Free /\ run[r].state = "pending"
    /\ IF row.status \in {"running", "stopped"} /\ box[row.container].name # "none"
       THEN /\ run' = [run EXCEPT ![r] = [state |-> "cutover", code |-> "none", old |-> row.container, new |-> 0]]
            /\ w' = Work("policy", r, row.status, "none")
       ELSE /\ run' = [run EXCEPT ![r].state = "failed", ![r].code = "not_running"]
            /\ UNCHANGED w
    /\ UNCHANGED <<row, off, box, dir, snap, writing, kept>>

\* A run found in cutover under the lock was interrupted.
Interrupted(r) ==
    /\ Free /\ run[r].state = "cutover"
    /\ w' = Work("undo_writers", r, "none", "interrupted")
    /\ UNCHANGED <<row, off, box, run, dir, snap, writing, kept>>

-----------------------------------------------------------------------------
\* _swap, one step for each call.
Policy ==
    /\ At("policy", "stop")
    /\ box' = [box EXCEPT ![R.old].keep = FALSE]
    /\ UNCHANGED <<row, off, run, dir, snap, writing, kept>>

StopOld ==
    /\ At("stop", "park")
    /\ box' = [box EXCEPT ![R.old].up = FALSE]
    /\ UNCHANGED <<row, off, run, dir, snap, writing, kept>>

Park ==
    /\ At("park", "snapshot")
    /\ box' = [box EXCEPT ![R.old].name = "parked"]
    /\ UNCHANGED <<row, off, run, dir, snap, writing, kept>>

\* commit_snapshot: a copy published by one rename.
Snapshot ==
    /\ At("snapshot", "create")
    /\ snap' = [snap EXCEPT ![w.run] = dir]
    /\ UNCHANGED <<row, off, box, run, dir, writing, kept>>

\* start_container, replace_container: whatever has the name goes first.
Create ==
    /\ At("create", "journal")
    /\ box' = [c \in Box |-> IF c = w.run THEN [name |-> "canonical", up |-> TRUE, keep |-> TRUE]
                             ELSE IF c \in Named("canonical") THEN Gone ELSE box[c]]
    /\ UNCHANGED <<row, off, run, dir, snap, writing, kept>>

SetJournal ==
    /\ At("journal", "ready")
    /\ run' = [run EXCEPT ![w.run].new = w.run]
    /\ UNCHANGED <<row, off, box, dir, snap, writing, kept>>

\* Ready; an agent that was stopped is left stopped.
Ready ==
    /\ At("ready", "publish")
    /\ box' = [box EXCEPT ![w.run].up = w.was # "stopped"]
    /\ UNCHANGED <<row, off, run, dir, snap, writing, kept>>

\* Mutant: publication does not ask whether the status is still the same.
PublishBlind ==
    /\ w.pc = "publish"
    /\ IF row.container = R.old
       THEN /\ row' = [status |-> w.was, container |-> w.run]
            /\ run' = [run EXCEPT ![w.run].state = "succeeded"]
            /\ kept' = kept \cup (dir.of \cap {Of(w.run)})
            /\ w' = [w EXCEPT !.pc = "drop_old"]
       ELSE /\ w' = [w EXCEPT !.pc = "undo_writers", !.code = "publish_conflict"]
            /\ UNCHANGED <<row, run, kept>>
    /\ UNCHANGED <<off, box, dir, snap, writing>>

\* publish_success: the agent repointed and the run succeeded, or nothing.
Publish ==
    /\ w.pc = "publish"
    /\ IF row.container = R.old /\ row.status = w.was /\ ~off
       THEN /\ row' = [row EXCEPT !.container = w.run]
            /\ run' = [run EXCEPT ![w.run].state = "succeeded"]
            /\ kept' = kept \cup (dir.of \cap {Of(w.run)})
            /\ w' = [w EXCEPT !.pc = "drop_old"]
       ELSE /\ w' = [w EXCEPT !.pc = "undo_writers", !.code = "publish_conflict"]
            /\ UNCHANGED <<row, run, kept>>
    /\ UNCHANGED <<off, box, dir, snap, writing>>

\* The publication commits, but its acknowledgement is lost: _cutover rolls
\* back.
PublishUnacknowledged ==
    /\ w.pc = "publish"
    /\ row.container = R.old /\ row.status = w.was /\ ~off
    /\ row' = [row EXCEPT !.container = w.run]
    /\ run' = [run EXCEPT ![w.run].state = "succeeded"]
    /\ kept' = kept \cup (dir.of \cap {Of(w.run)})
    /\ w' = [w EXCEPT !.pc = "undo_writers", !.code = "cutover_failed"]
    /\ UNCHANGED <<off, box, dir, snap, writing>>

\* A call of the swap fails, the new guest does not start or is not ready.
SwapFails ==
    /\ w.pc \in {"policy", "stop", "park", "snapshot", "create", "journal", "ready", "publish"}
    /\ w' = [w EXCEPT !.pc = "undo_writers", !.code = "cutover_failed"]
    /\ UNCHANGED <<row, off, box, run, dir, snap, writing, kept>>

\* _cleanup_success: each part may fail, and is left to the artifact sweep.
DropOld ==
    /\ At("drop_old", "drop_snapshot")
    /\ box' = IF R.old = row.container THEN box ELSE [box EXCEPT ![R.old] = Gone]
    /\ UNCHANGED <<row, off, run, dir, snap, writing, kept>>

DropOldFails ==
    /\ At("drop_old", "drop_snapshot")
    /\ UNCHANGED <<row, off, box, run, dir, snap, writing, kept>>

DropSnapshot ==
    /\ w.pc = "drop_snapshot" /\ w' = NoWork
    /\ snap' = [snap EXCEPT ![w.run] = NoDir]
    /\ UNCHANGED <<row, off, box, run, dir, writing, kept>>

\* reconcile_success_artifacts.
SweepArtifacts(r) ==
    /\ Free /\ run[r].state = "succeeded" /\ NoneActive
    /\ box[run[r].old].name # "none" \/ snap[r].has
    /\ w' = Work("drop_old", r, "none", "none")
    /\ UNCHANGED <<row, off, box, run, dir, snap, writing, kept>>

-----------------------------------------------------------------------------
\* _restore_original.  The writers are the journalled container and whatever
\* has the canonical name, but never the original (0: nothing journalled).
Writers == (({R.new} \ {0}) \cup Named("canonical")) \ {R.old}

UndoWriters ==
    /\ At("undo_writers", "undo_stop")
    /\ box' = [c \in Box |-> IF c \in Writers THEN Gone ELSE box[c]]
    /\ UNCHANGED <<row, off, run, dir, snap, writing, kept>>

UndoStop ==
    /\ At("undo_stop", "undo_aside")
    /\ box' = [box EXCEPT ![R.old].up = FALSE]
    /\ UNCHANGED <<row, off, run, dir, snap, writing, kept>>

\* Mutant: the directory is moved aside whether or not a snapshot remains.
UndoAsideAlways ==
    /\ At("undo_aside", "undo_restore")
    /\ dir' = NoDir
    /\ UNCHANGED <<row, off, box, run, snap, writing, kept>>

\* restore_snapshot: two renames, and none when no snapshot remains.
UndoAside ==
    /\ At("undo_aside", "undo_restore")
    /\ dir' = IF snap[w.run].has THEN NoDir ELSE dir
    /\ UNCHANGED <<row, off, box, run, snap, writing, kept>>

UndoRestore ==
    /\ At("undo_restore", "undo_name")
    /\ IF snap[w.run].has
       THEN dir' = snap[w.run] /\ snap' = [snap EXCEPT ![w.run] = NoDir]
       ELSE UNCHANGED <<dir, snap>>
    /\ UNCHANGED <<row, off, box, run, writing, kept>>

\* Docker refuses a name that is taken.
UndoName ==
    /\ At("undo_name", "undo_start")
    /\ Named("canonical") \subseteq {R.old}
    /\ box' = [box EXCEPT ![R.old].name = "canonical", ![R.old].keep = TRUE]
    /\ UNCHANGED <<row, off, run, dir, snap, writing, kept>>

\* _desired_running: the agent is read again.
UndoStart ==
    /\ At("undo_start", "undo_done")
    /\ box' = [box EXCEPT ![R.old].up = row.status = "running"]
    /\ UNCHANGED <<row, off, run, dir, snap, writing, kept>>

\* Mutant: only a run that has not begun its cutover is failed.
FinishPending(code) ==
    IF run[w.run].state = "pending" THEN [run EXCEPT ![w.run].state = "failed", ![w.run].code = code] ELSE run

\* finish_failed: an active run only.
FinishFailed(code) ==
    IF Active(w.run) THEN [run EXCEPT ![w.run].state = "failed", ![w.run].code = code] ELSE run

\* pin_image, drop_snapshot, finish_failed.
UndoDone ==
    /\ w.pc = "undo_done" /\ w' = NoWork
    /\ run' = FinishFailed(w.code)
    /\ snap' = [snap EXCEPT ![w.run] = NoDir]
    /\ UNCHANGED <<row, off, box, dir, writing, kept>>

\* A step of the rollback fails: the agent is marked, the artifacts stay.
UndoFails ==
    /\ w.pc \in {"undo_writers", "undo_stop", "undo_aside", "undo_restore", "undo_name", "undo_start", "undo_done"}
    /\ w' = [w EXCEPT !.pc = "give_up"]
    /\ row' = [row EXCEPT !.status = "error"]
    /\ UNCHANGED <<off, box, run, dir, snap, writing, kept>>

GiveUp ==
    /\ w.pc = "give_up" /\ w' = NoWork
    /\ run' = FinishFailed("rollback_failed")
    /\ UNCHANGED <<row, off, box, dir, snap, writing, kept>>
-----------------------------------------------------------------------------
\* Mutant: the write holds no lock.
BeginWriteUnlocked ==
    /\ ~writing /\ ~(Write \subseteq kept)
    /\ writing' = TRUE
    /\ UNCHANGED <<row, off, box, run, dir, snap, w, kept>>

\* guest_write_section: the gate checked again under the shared lock, and the
\* write itself some time later.
BeginWrite ==
    /\ Free /\ NoneActive /\ ~(Write \subseteq kept)
    /\ writing' = TRUE
    /\ UNCHANGED <<row, off, box, run, dir, snap, w, kept>>

\* Writers make the directories they miss.
EndWrite(n) ==
    /\ writing /\ n \notin kept
    /\ writing' = FALSE
    /\ dir' = [has |-> TRUE, of |-> dir.of \cup {n}]
    /\ kept' = kept \cup {n}
    /\ UNCHANGED <<row, off, box, run, snap, w>>

WriteFails ==
    /\ writing /\ writing' = FALSE
    /\ UNCHANGED <<row, off, box, run, dir, snap, w, kept>>

\* A guest that is up writes; what the agent's own guest writes is to stay.
GuestWrites(c) ==
    /\ box[c].up /\ dir.has
    /\ dir' = [dir EXCEPT !.of = @ \cup {Of(c)}]
    /\ kept' = IF c = row.container THEN kept \cup {Of(c)} ELSE kept
    /\ UNCHANGED <<row, off, box, run, snap, w, writing>>

\* The agent is disabled; its container is stopped under the lock.
Disable ==
    /\ ~off /\ off' = TRUE
    /\ row' = [row EXCEPT !.status = "stopped"]
    /\ UNCHANGED <<box, run, dir, snap, w, writing, kept>>

StopSweep ==
    /\ Free /\ row.status = "stopped"
    /\ \E c \in {row.container} \cup Named("canonical") : box[c].up
    /\ box' = [c \in Box |-> [box[c] EXCEPT !.up = @ /\ c \notin {row.container} \cup Named("canonical")]]
    /\ UNCHANGED <<row, off, run, dir, snap, w, writing, kept>>

\* sweep_orphan_containers: a duplicate of the recorded container, when no run
\* is active.
OrphanSweep(c) ==
    /\ Free /\ NoneActive
    /\ c # row.container /\ box[c].name # "none" /\ box[row.container].name # "none"
    /\ box' = [box EXCEPT ![c] = Gone]
    /\ UNCHANGED <<row, off, run, dir, snap, w, writing, kept>>

\* The Docker daemon restarts: what is not kept does not come back.
DaemonRestart ==
    /\ \E c \in Box : box[c].up /\ ~box[c].keep
    /\ box' = [c \in Box |-> [box[c] EXCEPT !.up = @ /\ box[c].keep]]
    /\ UNCHANGED <<row, off, run, dir, snap, w, writing, kept>>

\* The engine dies: locks are released, everything else stays as it is.
Crash ==
    /\ w.pc # "none" \/ writing
    /\ w' = NoWork /\ writing' = FALSE
    /\ UNCHANGED <<row, off, box, run, dir, snap, kept>>

Swap == Policy \/ StopOld \/ Park \/ Snapshot \/ Create \/ SetJournal \/ Ready \/ Publish
Cleanup == DropOld \/ DropSnapshot
Undo == UndoWriters \/ UndoStop \/ UndoAside \/ UndoRestore \/ UndoName \/ UndoStart \/ UndoDone

Alive ==
    \/ Swap \/ SwapFails
    \/ Cleanup \/ DropOldFails
    \/ Undo \/ UndoFails \/ GiveUp
    \/ \E r \in Run : Request(r) \/ PullFails(r) \/ BeginCutover(r) \/ Interrupted(r) \/ SweepArtifacts(r)
    \/ BeginWrite \/ WriteFails \/ \E n \in Write : EndWrite(n)
    \/ \E c \in Box : GuestWrites(c) \/ OrphanSweep(c)
    \/ Disable \/ StopSweep \/ DaemonRestart

Next == Alive \/ Crash

Spec == Init /\ [][Next]_vars

\* The worker polls for ever and its sweep gets the lock between two writes;
\* users finish their writes, and from some time on the worker stays up; no
\* step is required to succeed.
Fairness ==
    /\ \A r \in Run : WF_vars(BeginCutover(r)) /\ WF_vars(Interrupted(r)) /\ SF_vars(SweepArtifacts(r))
    /\ WF_vars(Swap) /\ WF_vars(Cleanup) /\ WF_vars(Undo) /\ WF_vars(GiveUp)
    /\ WF_vars(\E n \in Write : EndWrite(n))
    /\ <>[][Alive]_vars

FairSpec == Spec /\ Fairness

\* The same with a database that may raise after it has committed.
LossySpec == Init /\ [][Next \/ PublishUnacknowledged]_vars

-----------------------------------------------------------------------------
\* A run that failed without failing its rollback, or no run at all.
Settled == w.pc = "none" /\ NoneActive /\ \A r \in Run : run[r].code # "rollback_failed"

\* The old and the new guest never run at once on the same directory.
OneWriter == Cardinality({c \in Box : box[c].up}) <= 1

\* Between runs the directory holds every accepted write, and nothing a guest
\* wrote that was rolled back: a rollback is exact.
StateIsExact ==
    Settled => /\ dir.has /\ kept \subseteq dir.of
               /\ \A r \in Run : run[r].state = "failed" => Of(r) \notin dir.of

\* Between runs the recorded container exists under the agent's name, and it
\* is up if the agent is running.
ServiceIsWhole ==
    Settled => /\ box[row.container].name = "canonical"
               /\ row.status = "running" => box[row.container].up

\* An agent disabled during its upgrade is not published as running.
NeverResurrected == off => row.status # "running"

\* What holds through a crash at any step of an upgrade: one guest at a time,
\* no accepted write lost and no rolled-back one kept, a whole service between
\* runs, and a disabled agent left disabled.
UpdateSafety == OneWriter /\ StateIsExact /\ ServiceIsWhole /\ NeverResurrected

\* The inductive invariant.  Its first parts hold whatever failed.
SwapPc == {"policy", "stop", "park", "snapshot", "create", "journal", "ready", "publish"}
UndoPc == {"undo_writers", "undo_stop", "undo_aside", "undo_restore", "undo_name", "undo_start",
           "undo_done", "give_up"}
CleanupPc == {"drop_old", "drop_snapshot"}
Writing == Write \cup {Of(c) : c \in Box}
Directory == [has : BOOLEAN, of : SUBSET Writing]

TypeOK ==
    /\ row \in [status : {"running", "stopped", "error"}, container : Box]
    /\ off \in BOOLEAN
    /\ box \in [Box -> [name : {"none", "canonical", "parked"}, up : BOOLEAN, keep : BOOLEAN]]
    /\ run \in [Run -> [state : {"none", "pending", "cutover", "succeeded", "failed"},
                        code : {"none", "pull_failed", "not_running", "interrupted", "cutover_failed",
                                "publish_conflict", "rollback_failed"},
                        old : Box, new : Box]]
    /\ dir \in Directory
    /\ snap \in [Run -> Directory]
    /\ w \in [pc : {"none"} \cup SwapPc \cup UndoPc \cup CleanupPc, run : Box,
              was : {"none", "running", "stopped"},
              code : {"none", "interrupted", "cutover_failed", "publish_conflict"}]
    /\ writing \in BOOLEAN
    /\ kept \subseteq Writing

\* Runs are one at a time, and a run leaves no trace before its cutover.
RunsInOrder ==
    /\ \A q, r \in Run : Active(q) /\ Active(r) => q = r
    /\ \A r \in Run : run[r].state \in {"none", "pending"} => box[r] = Gone /\ snap[r] = NoDir
    /\ \A r \in Run : run[r].state # "failed" => run[r].code = "none"
    /\ \A r \in Run : run[r].state = "cutover" => run[r].old = row.container /\ ~writing
    /\ row.container # 0 => run[row.container].state = "succeeded"

\* A guest that is up has the agent's name, and only one has it.
OneName ==
    /\ \A c \in Box : box[c].up => box[c].name = "canonical"
    /\ \A c, d \in Named("canonical") : c = d

\* Where the holder of the lock stands in the swap or in the rollback.
WorkIsDone ==
    /\ w.pc # "none" => w.run \in Run /\ ~writing
    /\ w.pc \in SwapPc \cup UndoPc => R.state = "cutover"
    /\ w.pc \in CleanupPc => R.state = "succeeded"
    /\ w.pc \in {"policy", "stop", "park", "snapshot"} => ~snap[w.run].has
    /\ w.pc \in {"park", "snapshot", "create"} => ~box[R.old].up
    /\ w.pc \in {"journal", "ready", "publish"} => box[w.run].name = "canonical" /\ box[w.run].keep
    /\ w.pc = "publish" => box[w.run].up = (w.was # "stopped")
    /\ w.pc \in UndoPc \ {"undo_writers", "give_up"} => Named("canonical") \subseteq {R.old}
    /\ w.pc \in {"undo_name", "undo_start", "undo_done"} => ~snap[w.run].has
    /\ w.pc \in {"undo_start", "undo_done"} => box[R.old].name = "canonical" /\ box[R.old].keep
    /\ w.pc = "undo_done" => (row.status = "running" => box[R.old].up)

\* The rest holds until a rollback fails.  A directory is exact when it holds
\* every accepted write and nothing of a run that was not published.
Sound == \A r \in Run : run[r].code # "rollback_failed"
NoCutover == \A r \in Run : run[r].state # "cutover"
Exact(d) ==
    d.has /\ kept \subseteq d.of /\ \A r \in Run : run[r].state # "succeeded" => Of(r) \notin d.of
Whole ==
    /\ box[row.container].name = "canonical" /\ box[row.container].keep
    /\ row.status = "running" => box[row.container].up

\* During a cutover either the snapshot is exact and the old guest is down, or
\* the directory still is and there is no new guest.
WayBack ==
    \A r \in Run : run[r].state = "cutover" =>
        IF snap[r].has THEN Exact(snap[r]) /\ ~box[row.container].up
        ELSE Exact(dir) /\ box[r].name # "canonical"

\* On the way forward nothing is lost either.
WayOn ==
    /\ w.pc \in SwapPc =>
          /\ dir.has /\ kept \subseteq dir.of
          /\ \A r \in Run \ {w.run} : run[r].state # "succeeded" => Of(r) \notin dir.of
    /\ w.pc = "create" => snap[w.run].has

UpdateInv ==
    /\ TypeOK /\ RunsInOrder /\ OneName /\ WorkIsDone /\ NeverResurrected
    /\ Sound =>
          /\ \A c \in Named("canonical") :
                c = row.container \/ (c # 0 /\ run[c].state = "cutover")
          /\ NoCutover => Whole /\ Exact(dir)
          /\ WayBack /\ WayOn

\* The test says that a store error after publication "never_rolls_back_success".
SuccessStays == \A r \in Run : run[r].state = "succeeded" /\ row.container = r => box[r].name # "none"

\* Every run ends, one at a time, and the leftovers of a success go.
Leftover == NoneActive /\ \E r \in Run : run[r].state = "succeeded" /\ snap[r].has
RunsFinish == (~NoneActive ~> NoneActive) /\ (Leftover ~> ~Leftover)
=============================================================================
