------------------------------ MODULE LeaseHold ------------------------------
(***************************************************************************)
(* The lease under which background work runs: the token and expiry in the *)
(* rows, and the guard in the process that works (ExecutionLeaseHold,      *)
(* ScheduleLeaseHold and TaskLeaseGuard are the same machine).  TaskRuns,  *)
(* ScheduleRuns and TriggerRuns add the rows.                              *)
(*                                                                         *)
(* Time is abstracted to two events.  The window of a claim closes when    *)
(* the guard's own deadline passes; a lease expires when the row's expiry  *)
(* does.  Both are set by the same renewal, the window from its start and  *)
(* shorter by a margin (60 s, 5 s for tasks), so a row's lease outlives    *)
(* the window of the claim that holds it.                                  *)
(***************************************************************************)
EXTENDS Naturals, FiniteSets

CONSTANTS
    Item,       \* rows that can be leased
    Claim,      \* lease tokens
    NoClaim

ASSUME ClaimAssumption == NoClaim \notin Claim /\ IsFiniteSet(Item)

VARIABLES
    owner,      \* token in the row
    live,       \* lease_expires_at > now
    covers,     \* rows the claim was made for
    phase,      \* the process working under the claim
    window      \* ensure_held passes

holdVars == <<owner, live, covers, phase, window>>

\* A claim is taken, working, has ended its work, lost its lease, or died
\* with its process.
Phase == {"free", "taken", "work", "ended", "lost", "dead"}

HoldTypeOK ==
    /\ owner \in [Item -> Claim \cup {NoClaim}]
    /\ live \in [Item -> BOOLEAN]
    /\ covers \in [Claim -> SUBSET Item]
    /\ phase \in [Claim -> Phase]
    /\ window \in [Claim -> BOOLEAN]

HoldInit ==
    /\ owner = [i \in Item |-> NoClaim]
    /\ live = [i \in Item |-> FALSE]
    /\ covers = [c \in Claim |-> {}]
    /\ phase = [c \in Claim |-> "free"]
    /\ window = [c \in Claim |-> FALSE]

\* A token no process uses and no row names, but for rows about to get a new
\* one, is as good as a new token.
Unused(c, S) == phase[c] \in {"free", "dead"} /\ \A i \in Item \ S : owner[i] # c

\* The rows S get a fresh token and a full lease.
Take(c, S) ==
    /\ owner' = [i \in Item |-> IF i \in S THEN c ELSE owner[i]]
    /\ live' = [i \in Item |-> i \in S \/ live[i]]
    /\ covers' = [covers EXCEPT ![c] = S]
    /\ phase' = [phase EXCEPT ![c] = "taken"]
    /\ UNCHANGED window

\* The rows S lose their token, whoever holds it.
Clear(S) ==
    /\ owner' = [i \in Item |-> IF i \in S THEN NoClaim ELSE owner[i]]
    /\ live' = [i \in Item |-> i \notin S /\ live[i]]

Step(c, p, w) ==
    /\ phase' = [phase EXCEPT ![c] = p]
    /\ window' = [window EXCEPT ![c] = w]

\* Renewal of every row of the claim; strict where the row's lease must still
\* be unexpired.
Renewable(c, strict) == {i \in covers[c] : owner[i] = c /\ (strict => live[i])}

\* Mutant: a batch is held while any of its rows is.
RenewAny(c, strict) ==
    /\ live' = [i \in Item |-> i \in Renewable(c, strict) \/ live[i]]
    /\ IF Renewable(c, strict) # {} THEN Step(c, "work", TRUE) ELSE Step(c, "lost", FALSE)
    /\ UNCHANGED <<owner, covers>>

\* One row lost is a lost hold.
Renew(c, strict) ==
    /\ live' = [i \in Item |-> i \in Renewable(c, strict) \/ live[i]]
    /\ IF Renewable(c, strict) = covers[c] THEN Step(c, "work", TRUE) ELSE Step(c, "lost", FALSE)
    /\ UNCHANGED <<owner, covers>>

\* __aenter__, and the heartbeat or a confirm of the work itself.
Enter(c, strict) == phase[c] = "taken" /\ Renew(c, strict)
Confirm(c, strict) == phase[c] = "work" /\ window[c] /\ Renew(c, strict)

\* The local deadline passes.
WindowCloses(c) ==
    /\ window[c]
    /\ window' = [window EXCEPT ![c] = FALSE]
    /\ UNCHANGED <<owner, live, covers, phase>>

\* _fire: the heartbeat finds the deadline passed and cancels the work.
Fire(c) ==
    /\ phase[c] = "work" /\ ~window[c]
    /\ Step(c, "lost", FALSE)
    /\ UNCHANGED <<owner, live, covers>>

\* The row's expiry passes; not before the holder's own window has closed.
LeaseExpires(i) ==
    /\ owner[i] # NoClaim /\ live[i]
    /\ ~window[owner[i]]
    /\ live' = [live EXCEPT ![i] = FALSE]
    /\ UNCHANGED <<owner, covers, phase, window>>

\* The process dies, or its task is cancelled: the rows stay as they are.
Die(c) ==
    /\ phase[c] \notin {"free", "dead"}
    /\ Step(c, "dead", FALSE)
    /\ UNCHANGED <<owner, live, covers>>

\* A process dies or is late: its window closes, or its lease runs out before
\* the first renewal or the last write.
Trouble ==
    \E c \in Claim :
       \/ Die(c) \/ WindowCloses(c)
       \/ phase[c] \in {"taken", "ended"} /\ \E i \in Item : owner[i] = c /\ LeaseExpires(i)

\* Whoever passes ensure_held owns what it works on, and the lease lasts: a
\* guard on the local clock keeps a superseded process from acting.  Claims
\* revoked on purpose are excused until they renew.
HeldIsOwned(excused) ==
    \A c \in Claim \ excused : window[c] => \A i \in covers[c] : owner[i] = c /\ live[i]

\* A window is open only while a claim works or writes its result.
WindowIsWork == \A c \in Claim : window[c] => phase[c] \in {"work", "ended"}

\* The part of the users' inductive invariants that speaks of the lease.
HoldInv(excused) == HoldTypeOK /\ WindowIsWork /\ HeldIsOwned(excused)

-----------------------------------------------------------------------------
(* Lemmas: how the operators above keep it.                                   *)

\* The lease's invariant after a step, where S are the claims that are excused
\* then.
Holds(S) ==
    /\ HoldTypeOK' /\ WindowIsWork'
    /\ \A c \in Claim \ S : window'[c] => \A i \in covers'[c] : owner'[i] = c /\ live'[i]

\* Fewer claims need be excused than are.
LEMMA HoldsMore == ASSUME NEW S, NEW R, S \subseteq R, Holds(S) PROVE Holds(R)
BY DEF Holds

\* A claim's process goes on and its window is shut.
LEMMA ShutHolds ==
    ASSUME NEW S, HoldInv(S), NEW c \in Claim, NEW p \in Phase,
           Step(c, p, FALSE), UNCHANGED <<owner, live, covers>>
    PROVE  Holds(S)
BY DEF HoldInv, HoldTypeOK, WindowIsWork, HeldIsOwned, Holds, Step

\* Rows without a lasting lease get a fresh claim.
LEMMA TakeHolds ==
    ASSUME NEW S, HoldInv(S), NEW c \in Claim, NEW R \in SUBSET Item,
           phase[c] \in {"free", "dead"}, Take(c, R),
           \A i \in R : owner[i] = NoClaim \/ ~live[i]
    PROVE  Holds(S \ {c})
<1>1. /\ owner' \in [Item -> Claim \cup {NoClaim}] /\ live' \in [Item -> BOOLEAN]
      /\ covers' \in [Claim -> SUBSET Item] /\ phase' \in [Claim -> Phase] /\ window' = window
      /\ window \in [Claim -> BOOLEAN]
    BY DEF HoldInv, HoldTypeOK, Take, Phase
<1>2. ~window[c]
    BY DEF HoldInv, WindowIsWork
<1>3. WindowIsWork'
    BY <1>1, <1>2 DEF HoldInv, HoldTypeOK, WindowIsWork, Take
<1>4. ASSUME NEW d \in Claim \ (S \ {c}), window[d]
      PROVE  \A i \in covers'[d] : owner'[i] = d /\ live'[i]
  <2>1. d # c /\ d \in Claim \ S /\ covers'[d] = covers[d]
    BY <1>2, <1>4 DEF HoldInv, HoldTypeOK, Take
  <2>2. \A i \in covers[d] : i \in Item /\ owner[i] = d /\ live[i] /\ i \notin R
    BY <1>4, <2>1, ClaimAssumption DEF HoldInv, HoldTypeOK, HeldIsOwned
  <2> QED BY <2>1, <2>2 DEF Take
<1> QED BY <1>1, <1>3, <1>4 DEF Holds, HoldTypeOK

\* A renewal holds all rows of the claim, or the claim is lost.
LEMMA RenewHolds ==
    ASSUME NEW S, HoldInv(S), NEW c \in Claim, NEW strict \in BOOLEAN, Renew(c, strict)
    PROVE  Holds(S)
<1>1. /\ owner' = owner /\ covers' = covers
      /\ live' = [i \in Item |-> i \in Renewable(c, strict) \/ live[i]]
      /\ HoldTypeOK /\ Renewable(c, strict) \subseteq Item
    BY DEF Renew, HoldInv, HoldTypeOK, Renewable
<1>2. live' \in [Item -> BOOLEAN] /\ \A i \in Item : live[i] => live'[i]
    BY <1>1 DEF HoldTypeOK
<1>3. CASE Renewable(c, strict) = covers[c]
  <2>1. Step(c, "work", TRUE)
    BY <1>3 DEF Renew
  <2>2. \A i \in covers[c] : i \in Item /\ owner[i] = c /\ live'[i]
    BY <1>1, <1>3 DEF Renewable
  <2> QED BY <1>1, <1>2, <2>1, <2>2 DEF HoldInv, HoldTypeOK, Phase, WindowIsWork, HeldIsOwned, Holds, Step
<1>4. CASE Renewable(c, strict) # covers[c]
  <2>1. Step(c, "lost", FALSE)
    BY <1>4 DEF Renew
  <2> QED BY <1>1, <1>2, <2>1 DEF HoldInv, HoldTypeOK, Phase, WindowIsWork, HeldIsOwned, Holds, Step
<1> QED BY <1>3, <1>4

\* Time and crashes: a window closes, a lease expires after its holder's
\* window, a process dies.
LEMMA TroubleHolds ==
    ASSUME NEW S, HoldInv(S),
           \/ \E c \in Claim : WindowCloses(c) \/ Die(c) \/ Fire(c)
           \/ \E i \in Item : LeaseExpires(i)
    PROVE  Holds(S) /\ UNCHANGED <<owner, covers>>
<1>1. ASSUME NEW c \in Claim, WindowCloses(c) PROVE Holds(S) /\ UNCHANGED <<owner, covers>>
    BY <1>1 DEF WindowCloses, HoldInv, HoldTypeOK, WindowIsWork, HeldIsOwned, Holds
<1>2. ASSUME NEW c \in Claim, Die(c) PROVE Holds(S) /\ UNCHANGED <<owner, covers>>
    BY <1>2, ShutHolds DEF Die, Phase
<1>3. ASSUME NEW c \in Claim, Fire(c) PROVE Holds(S) /\ UNCHANGED <<owner, covers>>
    BY <1>3, ShutHolds DEF Fire, Phase
<1>4. ASSUME NEW i \in Item, LeaseExpires(i) PROVE Holds(S) /\ UNCHANGED <<owner, covers>>
  <2>1. /\ owner[i] # NoClaim /\ ~window[owner[i]] /\ live' = [live EXCEPT ![i] = FALSE]
        /\ UNCHANGED <<owner, covers, phase, window>>
    BY <1>4 DEF LeaseExpires
  <2>2. HoldTypeOK' /\ WindowIsWork'
    BY <2>1 DEF HoldInv, HoldTypeOK, WindowIsWork
  <2>3. ASSUME NEW d \in Claim \ S, window[d], NEW j \in covers[d]
        PROVE  owner[j] = d /\ live'[j]
    <3>1. owner[j] = d /\ live[j] /\ j \in Item
        BY <2>3 DEF HoldInv, HeldIsOwned, HoldTypeOK
    <3>2. j # i
        BY <2>1, <2>3, <3>1
    <3> QED BY <2>1, <3>1, <3>2 DEF HoldInv, HoldTypeOK
  <2> QED BY <2>1, <2>2, <2>3 DEF Holds
<1> QED BY <1>1, <1>2, <1>3, <1>4

\* Rows lose their token when their holders are excused or cannot act on them.
LEMMA ClearHolds ==
    ASSUME NEW S, HoldInv(S), NEW R \in SUBSET Item, NEW T, S \subseteq T, Clear(R),
           UNCHANGED <<covers, phase, window>>,
           \A i \in R : owner[i] = NoClaim \/ ~live[i] \/ owner[i] \in T
    PROVE  Holds(T)
<1>1. /\ owner' \in [Item -> Claim \cup {NoClaim}] /\ live' \in [Item -> BOOLEAN]
    BY DEF HoldInv, HoldTypeOK, Clear
<1>2. ASSUME NEW d \in Claim \ T, window[d], NEW i \in covers[d]
      PROVE  owner'[i] = d /\ live'[i]
  <2>1. owner[i] = d /\ live[i] /\ i \in Item
    BY <1>2 DEF HoldInv, HeldIsOwned, HoldTypeOK
  <2>2. i \notin R
    BY <1>2, <2>1, ClaimAssumption
  <2> QED BY <2>1, <2>2 DEF Clear
<1> QED BY <1>1, <1>2 DEF HoldInv, HoldTypeOK, WindowIsWork, Holds

\* A claim ends with its last write: it gives up its row, if it still has it.
LEMMA LeaveHolds ==
    ASSUME NEW S, HoldInv(S), NEW c \in Claim, NEW R \in SUBSET Item,
           Clear(R), Step(c, "free", FALSE), UNCHANGED covers,
           \A i \in R : owner[i] = c
    PROVE  Holds(S)
<1>1. /\ owner' \in [Item -> Claim \cup {NoClaim}] /\ live' \in [Item -> BOOLEAN]
    BY DEF HoldInv, HoldTypeOK, Clear
<1>2. /\ phase' \in [Claim -> Phase] /\ window' \in [Claim -> BOOLEAN] /\ ~window'[c]
      /\ \A d \in Claim : d # c => window'[d] = window[d] /\ phase'[d] = phase[d]
    BY DEF HoldInv, HoldTypeOK, Step, Phase
<1>3. ASSUME NEW d \in Claim \ S, window'[d], NEW i \in covers[d]
      PROVE  owner'[i] = d /\ live'[i]
  <2>1. d # c /\ window[d]
    BY <1>2, <1>3
  <2>2. owner[i] = d /\ live[i] /\ i \in Item
    BY <1>3, <2>1 DEF HoldInv, HeldIsOwned, HoldTypeOK
  <2>3. i \notin R
    BY <2>1, <2>2
  <2> QED BY <2>2, <2>3 DEF Clear
<1> QED BY <1>1, <1>2, <1>3 DEF HoldInv, HoldTypeOK, WindowIsWork, Holds
=============================================================================
