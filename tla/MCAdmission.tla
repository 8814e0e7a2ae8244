----------------------------- MODULE MCAdmission -----------------------------
(* What is charged, for TLC: StorageLedger and ChatIntake, side by side.      *)
(* moving chooses the one that moves, the other stays in its initial state.   *)
(* Two tiers: files of at most 1 byte and 2 bytes altogether, files of at     *)
(* most 2 bytes and 3 bytes altogether.  Keys and operations are              *)
(* interchangeable; so are contents and webhook requests: the first text a    *)
(* submission freezes is 1, and a request takes the first free hook.  A user  *)
(* who is exempt from the quota has one fault, delivery or period less.       *)
EXTENDS StorageLedger, TLC

CONSTANTS
    small, large,
    Web, Event, Group, Hook, Body, NoBody, QuotaLimit,
    MaxSockets, MaxFaults, MaxPosts, MaxPeriods     \* of ChatIntake

ASSUME IntakeAssumption ==
    /\ IsFiniteSet(Web) /\ IsFiniteSet(Event) /\ Web \cap Event = {}
    /\ NoBody \notin Body
    /\ Hook \cap 1 .. MaxSockets = {}
    /\ {QuotaLimit, MaxSockets} \subseteq Nat /\ MaxPeriods \in Nat \ {0}

VARIABLES
    moving,
    envelope, order, line, socket, link, inbox, tx, turn, queued, paidIn,
    used, period, elapsed, admin, acked, posts, faults

Intake == INSTANCE ChatIntake WITH row <- turn

intakeVars ==
    <<envelope, order, line, socket, link, inbox, tx, turn, queued, paidIn,
      used, period, elapsed, admin, acked, posts, faults>>

MCInit ==
    /\ moving \in {"ledger", "intake"}
    /\ Init /\ Intake!Init
    /\ moving = "ledger" => admin
    /\ moving = "intake" => plan = NoPlan

Canonical ==
    /\ \A r \in Web : envelope[r] = NoBody => envelope'[r] # 2
    /\ \A h, g \in Hook : h < g /\ tx[h].pc = "idle" /\ tx[g].pc = "idle" => tx'[g].pc = "idle"

Writes == {o \in Op : op[o].kind \in {"write", "create"}}

MCNext ==
    /\ UNCHANGED moving
    /\ \/ moving = "ledger" /\ Next /\ Cardinality(Writes') <= 2 /\ UNCHANGED intakeVars
       \/ /\ moving = "intake" /\ Intake!Next /\ UNCHANGED vars
          /\ Canonical /\ faults' + posts' + period' <= IF admin THEN 3 ELSE 4

MCSpec == MCInit /\ [][MCNext]_<<moving, vars, intakeVars>>

MCStorageLimit == (small :> 2) @@ (large :> 3)
MCFileLimit == (small :> 1) @@ (large :> 2)
Symmetry == Permutations(Key) \cup Permutations(Op)

\* Acceptance of a turn is one decision: row, charge and gateway message
\* together, once for each request, within the quota, and told to the browser
\* or provider only when committed.
IntakeSafety == Intake!IntakeSafety

\* The inductive invariants of both.
AdmissionInv == LedgerInv /\ Intake!IntakeInv
=============================================================================
