----------------------------- MODULE GuestProofs -----------------------------
(* The guest container of an agent: its starts and stops, and its upgrades,   *)
(* for any number of operations, containers, runs and writes.                 *)
EXTENDS MCGuests, FiniteSetTheorems, TLAPS

-----------------------------------------------------------------------------
(* Starts and stops.                                                          *)

\* The rows, the guest and the worker, each by itself.
AgentRow == [status : {"idle", "running", "stopped"}, container : 0..MaxGuests]
OpRow == [id : 0..MaxOps, state : {"none", "pending", "succeeded", "cancelled"}, mine : BOOLEAN,
          expected : 0..MaxGuests, candidate : 0..MaxGuests, clean : BOOLEAN]
GuestRow == [id : 0..MaxGuests, label : 0..MaxOps, up : BOOLEAN]
WorkRow == [pc : Pc, op : 0..MaxOps, dueOnly : BOOLEAN, created : BOOLEAN, cont : 0..MaxGuests]

StartTypes ==
    /\ row \in AgentRow /\ op \in OpRow /\ guest \in GuestRow /\ w \in WorkRow
    /\ standing \in {"good", "expired", "off"}
    /\ retry \in {"due", "later", "never"}
    /\ updating \in BOOLEAN
    /\ made \in 0..MaxGuests
    /\ seen \in [id : 0..MaxOps, state : {"none", "pending", "cancelled"}]
    /\ veto \in 0..MaxOps

\* A cancellation leaves nothing pending and all else as it was.
LEMMA CancelRow ==
    ASSUME op \in OpRow, retry \in {"due", "later", "never"}, Cancel
    PROVE  /\ op' \in OpRow /\ retry' \in {"due", "later", "never"}
           /\ op'.id = op.id /\ op'.clean = op.clean /\ op'.candidate = op.candidate
           /\ op'.state # "pending"
           /\ op.state # "cancelled" => op'.state \in {op.state, "cancelled"}
           /\ op.state = "cancelled" => op' = op
           /\ op'.state = "cancelled" => op.state \in {"pending", "cancelled"}
BY DEF Cancel, OpRow

\* The lock is released, or its holder goes on at another step.
LEMMA WorkRows ==
    /\ NoWork \in WorkRow /\ NoWork.pc = "none"
    /\ w \in WorkRow => \A p \in Pc : [w EXCEPT !.pc = p] \in WorkRow
<1>1. 0 \in 0..MaxOps /\ 0 \in 0..MaxGuests /\ "none" \in Pc
    BY BoundAssumption DEF Pc
<1> QED BY <1>1 DEF Work, NoWork, WorkRow

\* An operation that still stands is a pending one.
LEMMA ActiveRow == ASSUME NEW n, Active(n) PROVE op.id = n /\ op.state = "pending"
BY DEF Active, Pending

\* The invariant by its parts.
LEMMA StartParts ==
    /\ StartInv <=> StartTypes /\ LockStands /\ PendingIsNew /\ CleanedIsQuiet /\ (guest.up => guest.id # 0)
    /\ StartInv' <=> StartTypes' /\ LockStands' /\ PendingIsNew' /\ CleanedIsQuiet'
                      /\ (guest'.up => guest'.id # 0)
BY DEF StartInv, TypeOK, StartTypes, AgentRow, OpRow, GuestRow, WorkRow

\* A start is asked for: the operation that stands is joined, or a new one made.
LEMMA RequestStartInv == ASSUME StartInv, RequestStart PROVE StartInv'
<1>1. /\ row \in AgentRow /\ op \in OpRow /\ w \in WorkRow /\ veto \in 0..MaxOps
      /\ PendingIsNew /\ CleanedIsQuiet
    BY StartParts DEF StartTypes
<1>2. UNCHANGED <<row, standing, updating, guest, made, seen, veto>>
    BY DEF RequestStart, env
<1>3. op.id \in 0..MaxOps /\ op.id \in Nat /\ row.container \in 0..MaxGuests
    BY <1>1, BoundAssumption DEF OpRow, AgentRow
<1>4. CASE Active(op.id)
  <2>1. UNCHANGED <<op, retry>> /\ w' = Work("reserve", op.id, FALSE, 0)
    BY <1>4 DEF RequestStart
  <2>2. op.state = "pending"
    BY <1>4, ActiveRow
  <2>3. w' \in WorkRow /\ w'.pc = "reserve" /\ w'.op = op.id
    BY <1>3, <2>1, BoundAssumption DEF Work, WorkRow, Pc
  <2>4. StartTypes'
    BY <1>2, <2>1, <2>3, StartParts DEF StartTypes
  <2> QED BY <1>1, <1>2, <2>1, <2>2, <2>3, <2>4, StartParts DEF LockStands, PendingIsNew, CleanedIsQuiet
<1>5. CASE ~Active(op.id)
  <2>1. /\ op.id < MaxOps
        /\ op' = [id |-> op.id + 1, state |-> "pending", mine |-> TRUE,
                  expected |-> row.container, candidate |-> 0, clean |-> FALSE]
        /\ retry' = "due"
        /\ w' = Work("reserve", op.id + 1, FALSE, 0)
    BY <1>5 DEF RequestStart
  <2>2. op.id + 1 \in 0..MaxOps /\ 0 \in 0..MaxGuests
    BY <1>3, <2>1, BoundAssumption
  <2>3. op' \in OpRow
    BY <1>3, <2>1, <2>2 DEF OpRow
  <2>4. op'.id = op.id + 1 /\ ~op'.clean /\ op'.state = "pending"
    BY <2>1
  <2>5. w' \in WorkRow /\ w'.pc = "reserve" /\ w'.op = op'.id
    BY <2>1, <2>2, <2>4, BoundAssumption DEF Work, WorkRow, Pc
  <2>6. StartTypes'
    BY <1>2, <2>1, <2>3, <2>5, StartParts DEF StartTypes
  <2>7. veto < op'.id
    BY <1>1, <1>3, <2>4, BoundAssumption DEF PendingIsNew
  <2>8. LockStands' /\ CleanedIsQuiet'
    BY <2>4, <2>5 DEF LockStands, CleanedIsQuiet
  <2>9. PendingIsNew'
    BY <1>1, <1>2, <2>3, <2>4, <2>7, BoundAssumption DEF PendingIsNew, OpRow
  <2> QED BY <1>1, <1>2, <2>6, <2>8, <2>9, StartParts
<1> QED BY <1>4, <1>5

\* The reconciler takes the lock for the operation it has read: for an attempt
\* if that one still stands, else for a cleanup.
LEMMA ReconcileInv == ASSUME StartInv, Reconcile PROVE StartInv'
<1>1. StartTypes /\ LockStands /\ PendingIsNew /\ CleanedIsQuiet
    BY StartParts
<1>2. UNCHANGED <<row, standing, updating, guest, made, veto>>
    BY DEF Reconcile, env
<1>3. /\ op' \in OpRow /\ retry' \in {"due", "later", "never"}
      /\ op'.id = op.id /\ op'.clean = op.clean /\ op'.candidate = op.candidate
      /\ op'.state = "pending" => op.state = "pending"
      /\ op'.state = "cancelled" => op.state \in {"pending", "cancelled"}
  <2>1. CASE UNCHANGED <<op, retry>>
    BY <1>1, <2>1 DEF StartTypes
  <2>2. CASE Cancel
    BY <1>1, <2>2, CancelRow DEF StartTypes
  <2> QED BY <2>1, <2>2 DEF Reconcile
<1>4. seen.id \in 0..MaxOps /\ seen' = [id |-> 0, state |-> "none"]
    BY <1>1 DEF Reconcile, StartTypes
<1>5. CASE seen.state = "pending" /\ Active(seen.id)
  <2>1. op.id = seen.id /\ op.state = "pending" /\ op' = op
    BY <1>5, ActiveRow DEF Reconcile
  <2>2. w' = Work("reserve", seen.id, TRUE, 0)
    BY <1>5 DEF Reconcile
  <2>3. w' \in WorkRow /\ w'.pc = "reserve" /\ w'.op = op'.id
    BY <1>4, <2>1, <2>2, BoundAssumption DEF Work, WorkRow, Pc
  <2>4. StartTypes'
    BY <1>1, <1>2, <1>3, <1>4, <2>3, BoundAssumption DEF StartTypes
  <2> QED BY <1>1, <1>2, <2>1, <2>3, <2>4, StartParts DEF LockStands, PendingIsNew, CleanedIsQuiet
<1>6. CASE ~(seen.state = "pending" /\ Active(seen.id))
  <2>1. w' = Work("cleanup", seen.id, TRUE, 0)
    BY <1>6 DEF Reconcile
  <2>2. w' \in WorkRow /\ w'.pc = "cleanup"
    BY <1>4, <2>1, BoundAssumption DEF Work, WorkRow, Pc
  <2>3. StartTypes'
    BY <1>1, <1>2, <1>3, <1>4, <2>2, BoundAssumption DEF StartTypes
  <2> QED BY <1>1, <1>2, <1>3, <2>2, <2>3, StartParts DEF LockStands, PendingIsNew, CleanedIsQuiet
<1> QED BY <1>5, <1>6

\* What leaves operation, guest and veto alone, and whose worker holds what it
\* held or nothing.
LEMMA WorkGoesOn ==
    ASSUME StartInv, StartTypes', op' = op, guest' = guest, veto' = veto,
           \/ w'.pc = "none"
           \/ w' = w
           \/ /\ w'.op = w.op /\ w'.pc \notin {"resume", "clean", "stop", "persist"}
              /\ w.pc \in {"reserve", "find", "resume", "ready", "publish", "recover"}
    PROVE  StartInv'
<1>1. LockStands /\ PendingIsNew /\ CleanedIsQuiet
    BY StartParts
<1>2. LockStands'
    BY <1>1 DEF LockStands, Cancelled
<1> QED BY <1>1, <1>2, StartParts DEF PendingIsNew, CleanedIsQuiet

\* A step of the attempt that changes nothing but where it stands and when it
\* is tried again.
LEMMA AttemptInv ==
    ASSUME StartInv, Reserve \/ Ready \/ PublishFails \/ CleanupFails \/ \E b \in BOOLEAN : Refuse(b)
    PROVE  StartInv'
<1>1. StartTypes /\ w \in WorkRow
    BY StartParts DEF StartTypes
<1>2. UNCHANGED <<row, standing, op, updating, guest, made, seen, veto>>
    BY DEF Reserve, Ready, PublishFails, CleanupFails, Refuse, env
<1>3. retry' \in {"due", "later", "never"}
    BY <1>1 DEF Reserve, Ready, PublishFails, CleanupFails, Refuse, Fail, StartTypes
<1>4. \/ w' = NoWork
      \/ w.pc = "reserve" /\ w' = [w EXCEPT !.pc = "find"]
      \/ w.pc = "ready" /\ w' = [w EXCEPT !.pc = "publish"]
    BY DEF Reserve, Ready, PublishFails, CleanupFails, Refuse, Fail, Goto, Release
<1>5. w' \in WorkRow
    BY <1>1, <1>4, WorkRows DEF Pc
<1>6. StartTypes'
    BY <1>1, <1>2, <1>3, <1>5 DEF StartTypes
<1>7. \/ w'.pc = "none"
      \/ /\ w'.op = w.op /\ w'.pc \notin {"resume", "clean", "stop", "persist"}
         /\ w.pc \in {"reserve", "find", "resume", "ready", "publish", "recover"}
    BY <1>1, <1>4, WorkRows DEF WorkRow
<1> QED BY <1>2, <1>6, <1>7, WorkGoesOn

\* The guest of the name is adopted by the attempt.
LEMMA ObserveInv == ASSUME StartInv, Observe PROVE StartInv'
<1>1. StartTypes /\ LockStands /\ PendingIsNew /\ CleanedIsQuiet /\ op \in OpRow /\ w \in WorkRow
    BY StartParts DEF StartTypes
<1>2. /\ w.pc = "find" /\ guest.id # 0 /\ w.op = op.id /\ ~op.clean /\ guest.id \in 0..MaxGuests
      /\ UNCHANGED <<row, standing, updating, guest, made, seen, veto>>
    BY <1>1 DEF Observe, env, LockStands, StartTypes, GuestRow
<1>3. op' = op \/ op' = [op EXCEPT !.candidate = guest.id]
    BY DEF Observe
<1>4. op' \in OpRow /\ op'.id = op.id /\ op'.state = op.state /\ ~op'.clean
    BY <1>1, <1>2, <1>3 DEF OpRow
<1>5. /\ retry' \in {"due", "later", "never"} /\ w' \in WorkRow
      /\ w'.pc \in {"none", "ready", "resume"}
      /\ w'.pc # "none" => w'.op = op.id /\ w'.cont # 0
  <2>1. CASE Pending(w.op)
    <3>1. /\ UNCHANGED retry
          /\ w' = [w EXCEPT !.pc = IF guest.up THEN "ready" ELSE "resume", !.cont = guest.id]
        BY <2>1 DEF Observe
    <3> QED BY <1>1, <1>2, <3>1 DEF StartTypes, WorkRow, Pc
  <2>2. CASE ~Pending(w.op)
    <3>1. Fail(FALSE)
        BY <2>2 DEF Observe
    <3> QED BY <1>1, <3>1, WorkRows DEF Fail, Release, StartTypes
  <2> QED BY <2>1, <2>2
<1>6. StartTypes'
    BY <1>1, <1>2, <1>4, <1>5 DEF StartTypes
<1> QED BY <1>1, <1>2, <1>4, <1>5, <1>6, StartParts DEF LockStands, PendingIsNew, CleanedIsQuiet

\* A container is resumed or made for the newest operation, which nobody can
\* have cleaned up.
LEMMA GuestUpInv == ASSUME StartInv, Resume \/ Create PROVE StartInv'
<1>1. /\ StartTypes /\ LockStands /\ PendingIsNew /\ CleanedIsQuiet
      /\ w \in WorkRow /\ guest \in GuestRow /\ made \in 0..MaxGuests
    BY StartParts DEF StartTypes
<1>2. /\ w.pc \in {"find", "resume"} /\ w.op = op.id /\ ~op.clean /\ w.op \in 0..MaxOps
      /\ UNCHANGED <<row, standing, op, retry, updating, seen, veto>>
    BY <1>1 DEF Resume, Create, LockStands, env, WorkRow
<1>3. /\ guest' \in GuestRow /\ made' \in 0..MaxGuests /\ (guest'.up => guest'.id # 0)
      /\ w' \in WorkRow /\ w'.pc = "ready" /\ w'.op = w.op
  <2>1. CASE Resume
    <3>1. /\ w.cont # 0 /\ made' = made /\ w' = [w EXCEPT !.pc = "ready"]
          /\ guest' = IF guest.id = w.cont THEN [guest EXCEPT !.up = TRUE] ELSE guest
        BY <1>1, <2>1 DEF Resume, Goto, LockStands
    <3>2. w' \in WorkRow /\ w'.pc = "ready" /\ w'.op = w.op
        BY <1>1, <3>1 DEF WorkRow, Pc
    <3>3. guest' \in GuestRow /\ guest'.id = guest.id /\ (guest'.up => guest.up \/ guest.id = w.cont)
        BY <1>1, <3>1 DEF GuestRow
    <3> QED BY <1>1, <3>1, <3>2, <3>3, StartParts
  <2>2. CASE Create
    <3>1. /\ made < MaxGuests /\ made' = made + 1
          /\ guest' = [id |-> made + 1, label |-> w.op, up |-> TRUE]
          /\ w' = [w EXCEPT !.pc = "ready", !.created = TRUE, !.cont = made + 1]
        BY <2>2 DEF Create
    <3>2. made + 1 \in 0..MaxGuests /\ made + 1 # 0
        BY <1>1, <3>1, BoundAssumption
    <3>3. w' \in WorkRow /\ w'.pc = "ready" /\ w'.op = w.op
        BY <1>1, <3>1, <3>2 DEF WorkRow, Pc
    <3> QED BY <1>2, <3>1, <3>2, <3>3 DEF GuestRow
  <2> QED BY <2>1, <2>2
<1>4. StartTypes'
    BY <1>1, <1>2, <1>3 DEF StartTypes
<1> QED BY <1>1, <1>2, <1>3, <1>4, StartParts DEF LockStands, PendingIsNew, CleanedIsQuiet

\* A guest goes down, or its container goes, and nothing else is known of it.
LEMMA GuestDownInv ==
    ASSUME StartInv, StartTypes', op' = op, veto' = veto, w'.pc \in {"none", w.pc, "persist"},
           w'.pc = w.pc => w' = w, w'.pc = "persist" => w.pc \in {"stop", "persist"},
           guest' = guest \/ ~guest'.up
    PROVE  StartInv'
<1>1. LockStands /\ PendingIsNew /\ CleanedIsQuiet /\ (guest.up => guest.id # 0)
    BY StartParts
<1>2. LockStands'
    BY <1>1 DEF LockStands, Cancelled
<1> QED BY <1>1, <1>2, StartParts DEF PendingIsNew, CleanedIsQuiet

\* The attempt is not ready in time, the guest is stopped, or somebody removes
\* its container.
LEMMA DownInv ==
    ASSUME StartInv, NotReady \/ StopSweep \/ GuestRemoved \/ \E b \in BOOLEAN : StopGuest(b)
    PROVE  StartInv'
<1>1. StartTypes /\ LockStands /\ guest \in GuestRow /\ row \in AgentRow /\ w \in WorkRow
    BY StartParts DEF StartTypes
<1>2. UNCHANGED <<standing, op, updating, made, seen, veto>>
    BY DEF NotReady, StopSweep, GuestRemoved, StopGuest, env
<1>3. guest' \in GuestRow /\ (guest' = guest \/ ~guest'.up)
  <2>1. guest' = guest \/ guest' = [guest EXCEPT !.up = FALSE] \/ guest' = NoGuest
    BY DEF NotReady, StopSweep, GuestRemoved, StopGuest
  <2>2. NoGuest \in GuestRow /\ ~NoGuest.up
    BY BoundAssumption DEF NoGuest, GuestRow
  <2>3. [guest EXCEPT !.up = FALSE] \in GuestRow /\ ~[guest EXCEPT !.up = FALSE].up
    BY <1>1 DEF GuestRow
  <2> QED BY <1>1, <2>1, <2>2, <2>3
<1>4. row' \in AgentRow /\ retry' \in {"due", "later", "never"}
  <2>1. row' = row \/ row' = [row EXCEPT !.container = IF guest.id = 0 THEN 0 ELSE @]
    BY DEF NotReady, StopSweep, GuestRemoved, StopGuest
  <2>2. row' \in AgentRow
    BY <1>1, <2>1, BoundAssumption DEF AgentRow
  <2>3. retry' \in {"due", "later", "never"}
    BY <1>1 DEF NotReady, StopSweep, GuestRemoved, StopGuest, Fail, StartTypes
  <2> QED BY <2>2, <2>3
<1>5. /\ w' \in WorkRow /\ w'.pc \in {"none", w.pc, "persist"}
      /\ w'.pc = w.pc => w' = w
      /\ w'.pc = "persist" => w.pc \in {"stop", "persist"}
  <2>1. CASE NotReady
    BY <1>1, <2>1, WorkRows DEF NotReady, Fail, Release
  <2>2. CASE StopSweep \/ GuestRemoved
    BY <1>1, <2>2 DEF StopSweep, GuestRemoved
  <2>3. ASSUME NEW b \in BOOLEAN, StopGuest(b)
        PROVE  w' \in WorkRow /\ w'.pc = "persist" /\ w.pc = "stop"
    <3>1. /\ w.pc = "stop"
          /\ \/ w' = [w EXCEPT !.pc = "persist"]
             \/ w' = [w EXCEPT !.pc = "persist", !.cont = IF guest.id = 0 THEN 0 ELSE w.cont]
        BY <2>3 DEF StopGuest, Goto
    <3>2. CASE w' = [w EXCEPT !.pc = "persist"]
        BY <1>1, <3>1, <3>2 DEF WorkRow, Pc
    <3>3. ASSUME NEW c \in 0..MaxGuests, w' = [w EXCEPT !.pc = "persist", !.cont = c]
          PROVE  w' \in WorkRow /\ w'.pc = "persist"
        BY <1>1, <3>3 DEF WorkRow, Pc
    <3>4. 0 \in 0..MaxGuests /\ w.cont \in 0..MaxGuests
        BY <1>1, BoundAssumption DEF WorkRow
    <3> QED BY <3>1, <3>2, <3>3, <3>4
  <2> QED BY <2>1, <2>2, <2>3
<1>6. StartTypes'
    BY <1>1, <1>2, <1>3, <1>4, <1>5 DEF StartTypes
<1> QED BY <1>2, <1>3, <1>5, <1>6, GuestDownInv

\* A publication ends the operation, or finds that it no longer stands.
LEMMA PublishInv == ASSUME StartInv, Publish PROVE StartInv'
<1>1. /\ StartTypes /\ LockStands /\ PendingIsNew /\ CleanedIsQuiet
      /\ op \in OpRow /\ w \in WorkRow /\ w.cont \in 0..MaxGuests
    BY StartParts DEF StartTypes, WorkRow
<1>2. w.pc = "publish" /\ UNCHANGED <<standing, updating, guest, made, seen, veto>>
    BY DEF Publish, env
<1>3. CASE Active(w.op)
  <2>1. /\ row' = [status |-> "running", container |-> w.cont]
        /\ op' = [op EXCEPT !.state = "succeeded", !.candidate = w.cont]
        /\ retry' = "never" /\ w' = NoWork
    BY <1>3 DEF Publish, Release
  <2>2. op' \in OpRow /\ op'.id = op.id /\ op'.state = "succeeded"
    BY <1>1, <2>1 DEF OpRow
  <2>3. row' \in AgentRow
    BY <1>1, <2>1 DEF AgentRow
  <2>4. StartTypes'
    BY <1>1, <1>2, <2>1, <2>2, <2>3, WorkRows DEF StartTypes
  <2> QED BY <1>1, <1>2, <2>1, <2>2, <2>4, StartParts, WorkRows DEF LockStands, PendingIsNew, CleanedIsQuiet
<1>4. CASE ~Active(w.op)
  <2>1. UNCHANGED <<row, op, retry>> /\ w' = [w EXCEPT !.pc = "recover"]
    BY <1>4 DEF Publish, Goto
  <2>2. w' \in WorkRow /\ w'.pc = "recover" /\ w'.op = w.op
    BY <1>1, <2>1 DEF WorkRow, Pc
  <2>3. StartTypes'
    BY <1>1, <1>2, <2>1, <2>2 DEF StartTypes
  <2> QED BY <1>2, <2>1, <2>2, <2>3, WorkGoesOn
<1> QED BY <1>3, <1>4

\* A cancellation may fall between any two steps of an attempt, but while the
\* attempt holds the lock nobody cleans the operation up.
LEMMA CancelInv ==
    ASSUME StartInv, UNCHANGED <<guest, made, seen, updating>>, row' \in AgentRow,
           standing' \in {"good", "expired", "off"},
           Cancel,
           veto' \in {veto, op.id},
           w' \in WorkRow, w' = w \/ w'.pc \in {"none", "cleanup", "stop"}
    PROVE  StartInv'
<1>1. /\ StartTypes /\ LockStands /\ PendingIsNew /\ CleanedIsQuiet /\ op \in OpRow
      /\ (guest.up => guest.id # 0)
    BY StartParts DEF StartTypes
<1>2. /\ op' \in OpRow /\ retry' \in {"due", "later", "never"}
      /\ op'.id = op.id /\ op'.clean = op.clean /\ op'.candidate = op.candidate
      /\ op'.state # "pending"
      /\ op'.state = "cancelled" => op.state \in {"pending", "cancelled"}
      /\ op.state = "cancelled" => op' = op
    BY <1>1, CancelRow DEF StartTypes
<1>3. op.id \in 0..MaxOps /\ veto' \in 0..MaxOps /\ veto' <= op'.id
    BY <1>1, <1>2, BoundAssumption DEF StartTypes, OpRow, PendingIsNew
<1>4. StartTypes'
    BY <1>1, <1>2, <1>3 DEF StartTypes
<1>5. LockStands'
    BY <1>1, <1>2 DEF LockStands, Cancelled
<1>6. PendingIsNew' /\ CleanedIsQuiet'
    BY <1>1, <1>2, <1>3 DEF PendingIsNew, CleanedIsQuiet
<1> QED BY <1>1, <1>4, <1>5, <1>6, StartParts

\* Stops, expiry and disabling cancel; a stop under the lock begins.
LEMMA StoppedInv ==
    ASSUME StartInv, RequestStop \/ ExpirySweep \/ Disable
    PROVE  StartInv'
<1>1. StartTypes /\ row \in AgentRow /\ w \in WorkRow
    BY StartParts DEF StartTypes
<1>2. CASE RequestStop
  <2>1. /\ Cancel /\ w' = Work("stop", 0, FALSE, row.container)
        /\ UNCHANGED <<row, standing, updating, guest, made, seen, veto>>
    BY <1>2 DEF RequestStop, env
  <2>2. w' \in WorkRow /\ w'.pc = "stop"
    BY <1>1, <2>1, BoundAssumption DEF Work, WorkRow, AgentRow, Pc
  <2> QED BY <1>1, <2>1, <2>2, CancelInv DEF StartTypes
<1>3. CASE ExpirySweep \/ Disable
  <2>1. /\ Cancel /\ row' = [row EXCEPT !.status = "stopped"] /\ veto' = op.id
        /\ standing' \in {standing, "off"} /\ UNCHANGED <<updating, guest, made, seen, w>>
    BY <1>3 DEF ExpirySweep, Disable, env
  <2>2. row' \in AgentRow
    BY <1>1, <2>1 DEF AgentRow
  <2> QED BY <1>1, <2>1, <2>2, CancelInv DEF StartTypes
<1> QED BY <1>2, <1>3

\* What could not be published is cancelled before its cleanup, unless it
\* still stands.
LEMMA RecoverInv == ASSUME StartInv, RecoverUnpublished PROVE StartInv'
<1>1. StartTypes /\ w \in WorkRow
    BY StartParts DEF StartTypes
<1>2. /\ w.pc = "recover" /\ w' = [w EXCEPT !.pc = "cleanup"]
      /\ UNCHANGED <<row, standing, updating, guest, made, seen, veto>>
    BY DEF RecoverUnpublished, Goto, env
<1>3. w' \in WorkRow /\ w'.pc = "cleanup" /\ w'.op = w.op
    BY <1>1, <1>2 DEF WorkRow, Pc
<1>4. CASE Cancel
    BY <1>1, <1>2, <1>3, <1>4, CancelInv DEF StartTypes
<1>5. CASE UNCHANGED <<op, retry>>
  <2>1. StartTypes'
    BY <1>1, <1>2, <1>3, <1>5 DEF StartTypes
  <2> QED BY <1>2, <1>3, <1>5, <2>1, WorkGoesOn
<1> QED BY <1>4, <1>5 DEF RecoverUnpublished

\* The guest of a cancelled operation, the one it made or had found, goes down.
LEMMA CleanupInv == ASSUME StartInv, Cleanup PROVE StartInv'
<1>1. /\ StartTypes /\ PendingIsNew /\ CleanedIsQuiet
      /\ op \in OpRow /\ guest \in GuestRow /\ w \in WorkRow /\ (guest.up => guest.id # 0)
    BY StartParts DEF StartTypes
<1>2. UNCHANGED <<row, standing, op, retry, updating, made, seen, veto>>
    BY DEF Cleanup, env
<1>3. CASE Cancelled(w.op)
  <2>1. /\ guest' = IF guest.id # 0 /\ (guest.id = op.candidate \/ guest.label = op.id)
                    THEN [guest EXCEPT !.up = FALSE] ELSE guest
        /\ w' = [w EXCEPT !.pc = "clean"]
    BY <1>3 DEF Cleanup, Goto
  <2>2. /\ guest' \in GuestRow /\ guest'.id = guest.id /\ guest'.label = guest.label
        /\ guest'.up => guest.up /\ guest.id # op.candidate /\ guest.label # op.id
    BY <1>1, <2>1 DEF GuestRow
  <2>3. w' \in WorkRow /\ w'.pc = "clean" /\ w'.op = w.op
    BY <1>1, <2>1 DEF WorkRow, Pc
  <2>4. StartTypes'
    BY <1>1, <1>2, <2>2, <2>3 DEF StartTypes
  <2>5. LockStands'
    BY <1>2, <1>3, <2>2, <2>3 DEF LockStands, Cancelled
  <2> QED BY <1>1, <1>2, <2>2, <2>4, <2>5, StartParts DEF PendingIsNew, CleanedIsQuiet
<1>4. CASE ~Cancelled(w.op)
  <2>1. w' = NoWork /\ guest' = guest
    BY <1>4 DEF Cleanup, Release
  <2>2. StartTypes'
    BY <1>1, <1>2, <2>1, WorkRows DEF StartTypes
  <2> QED BY <1>2, <2>1, <2>2, WorkGoesOn, WorkRows
<1> QED BY <1>3, <1>4

\* The guest is down before the cancelled operation counts as clean.
LEMMA MarkCleanInv == ASSUME StartInv, MarkClean PROVE StartInv'
<1>1. /\ StartTypes /\ LockStands /\ PendingIsNew /\ CleanedIsQuiet /\ op \in OpRow
      /\ (guest.up => guest.id # 0)
    BY StartParts DEF StartTypes
<1>2. /\ w.pc = "clean" /\ w' = NoWork
      /\ UNCHANGED <<row, standing, retry, updating, guest, made, seen, veto>>
    BY DEF MarkClean, Release, env
<1>3. /\ op.id = w.op /\ op.state = "cancelled"
      /\ guest.up => guest.label # op.id /\ guest.id # op.candidate
    BY <1>1, <1>2 DEF LockStands, Cancelled
<1>4. op' = [op EXCEPT !.clean = TRUE]
    BY <1>3 DEF MarkClean, Cancelled
<1>5. op' \in OpRow /\ op'.id = op.id /\ op'.state = "cancelled" /\ op'.candidate = op.candidate
    BY <1>1, <1>3, <1>4 DEF OpRow
<1>6. StartTypes'
    BY <1>1, <1>2, <1>5, WorkRows DEF StartTypes
<1>7. LockStands'
    BY <1>2, WorkRows DEF LockStands
<1> QED BY <1>1, <1>2, <1>3, <1>5, <1>6, <1>7, StartParts DEF PendingIsNew, CleanedIsQuiet

\* The lock is lost with its process, or released with the agent saved as
\* stopped.
LEMMA ReleasedInv == ASSUME StartInv, PersistStop \/ Crash PROVE StartInv'
<1>1. /\ StartTypes /\ LockStands /\ PendingIsNew /\ CleanedIsQuiet /\ op \in OpRow /\ w \in WorkRow
      /\ (guest.up => guest.id # 0)
    BY StartParts DEF StartTypes
<1>2. w' = NoWork /\ UNCHANGED <<standing, op, retry, updating, guest, made>>
    BY DEF PersistStop, Crash, Release, env
<1>3. /\ row' \in AgentRow /\ seen' \in [id : 0..MaxOps, state : {"none", "pending", "cancelled"}]
      /\ veto' \in {veto, op.id} /\ (veto' # veto => op.state # "pending")
  <2>1. CASE PersistStop
    <3>1. /\ row' = [status |-> "stopped", container |-> w.cont] /\ seen' = seen /\ veto' = op.id
          /\ w.pc = "persist"
        BY <2>1 DEF PersistStop
    <3> QED BY <1>1, <3>1 DEF LockStands, AgentRow, WorkRow, StartTypes
  <2>2. CASE Crash
    BY <1>1, <2>2, BoundAssumption DEF Crash, StartTypes
  <2> QED BY <2>1, <2>2
<1>4. veto' \in 0..MaxOps /\ veto' <= op.id
    BY <1>1, <1>3, BoundAssumption DEF StartTypes, OpRow, PendingIsNew
<1>5. StartTypes'
    BY <1>1, <1>2, <1>3, <1>4, WorkRows DEF StartTypes
<1> QED BY <1>1, <1>2, <1>3, <1>4, <1>5, StartParts, WorkRows DEF LockStands, PendingIsNew, CleanedIsQuiet

\* What a user, the clock or the reconciler's list changes between the steps.
LEMMA AroundInv ==
    ASSUME StartInv,
           Scan \/ Defer \/ Poll \/ Reinstate \/ ExpiryPasses \/ UpdateRun \/ RetryDue \/ Transfer
    PROVE  StartInv'
<1>1. StartTypes /\ LockStands /\ PendingIsNew /\ CleanedIsQuiet /\ op \in OpRow /\ row \in AgentRow
    BY StartParts DEF StartTypes
<1>2. UNCHANGED <<guest, made, w, veto>>
    BY DEF Scan, Defer, Poll, Reinstate, ExpiryPasses, UpdateRun, RetryDue, Transfer, env
<1>3. /\ op' \in OpRow /\ op'.id = op.id /\ op'.state = op.state /\ op'.clean = op.clean
      /\ op'.candidate = op.candidate
  <2>1. op' = op \/ op' = [op EXCEPT !.mine = FALSE]
    BY DEF Scan, Defer, Poll, Reinstate, ExpiryPasses, UpdateRun, RetryDue, Transfer, env
  <2> QED BY <1>1, <2>1 DEF OpRow
<1>4. row' \in AgentRow
  <2>1. row' = row \/ row' = [row EXCEPT !.status = "running"]
    BY DEF Scan, Defer, Poll, Reinstate, ExpiryPasses, UpdateRun, RetryDue, Transfer
  <2> QED BY <1>1, <2>1 DEF AgentRow
<1>5. /\ standing' \in {"good", "expired", "off"} /\ retry' \in {"due", "later", "never"}
      /\ updating' \in BOOLEAN
    BY <1>1 DEF Scan, Defer, Poll, Reinstate, ExpiryPasses, UpdateRun, RetryDue, Transfer, env, StartTypes
<1>6. seen' \in [id : 0..MaxOps, state : {"none", "pending", "cancelled"}]
  <2>1. \/ seen' = seen \/ seen' = [id |-> 0, state |-> "none"]
        \/ seen' = [id |-> op.id, state |-> op.state] /\ op.state \in {"pending", "cancelled"}
    BY DEF Scan, Defer, Poll, Reinstate, ExpiryPasses, UpdateRun, RetryDue, Transfer
  <2> QED BY <1>1, <2>1, BoundAssumption DEF StartTypes, OpRow
<1>7. StartTypes'
    BY <1>1, <1>2, <1>3, <1>4, <1>5, <1>6 DEF StartTypes
<1> QED BY <1>1, <1>2, <1>3, <1>7, StartParts DEF LockStands, Cancelled, PendingIsNew, CleanedIsQuiet

\* Every step of the life cycle keeps its invariant.
LEMMA StartStep == StartInv /\ [Next]_vars => StartInv'
<1> SUFFICES ASSUME StartInv, [Next]_vars PROVE StartInv'
    OBVIOUS
<1>1. CASE Calm
  <2>1. \/ RequestStart \/ Scan \/ Defer \/ Reconcile \/ Reserve \/ Observe \/ Resume \/ Create
        \/ (\E b \in BOOLEAN : StopGuest(b)) \/ Ready \/ NotReady
        \/ Publish \/ RecoverUnpublished \/ Cleanup \/ MarkClean
        \/ RequestStop \/ PersistStop \/ StopSweep \/ ExpirySweep \/ Disable \/ Poll
        \/ Reinstate \/ ExpiryPasses \/ Transfer \/ UpdateRun \/ RetryDue \/ GuestRemoved
    BY <1>1 DEF Calm
  <2> QED BY <2>1, RequestStartInv, ReconcileInv, AttemptInv, ObserveInv, GuestUpInv, DownInv, PublishInv,
             RecoverInv, CleanupInv, MarkCleanInv, StoppedInv, ReleasedInv, AroundInv
<1>2. CASE Trouble
  <2>1. Crash \/ NotReady \/ PublishFails \/ CleanupFails \/ (\E b \in BOOLEAN : Refuse(b)) \/ StopGuest(TRUE)
    BY <1>2 DEF Trouble, GuestHangs
  <2> QED BY <2>1, AttemptInv, DownInv, ReleasedInv
<1>3. CASE UNCHANGED vars
  <2>1. StartTypes /\ UNCHANGED <<row, standing, op, retry, updating, guest, made, seen, w, veto>>
    BY <1>3, StartParts DEF vars, env
  <2>2. StartTypes'
    BY <2>1 DEF StartTypes
  <2> QED BY <2>1, <2>2, WorkGoesOn
<1> QED BY <1>1, <1>2, <1>3 DEF Next

\* The inductive invariant of starts and stops.
THEOREM StartInvariant == Spec => []StartInv
<1>1. Init => StartInv
  <2> SUFFICES ASSUME Init PROVE StartInv
    OBVIOUS
  <2>1. row \in AgentRow /\ op \in OpRow /\ w \in WorkRow
    BY WorkRows, BoundAssumption DEF Init, AgentRow, OpRow
  <2>2. guest \in GuestRow /\ ~guest.up
    BY BoundAssumption DEF Init, GuestRow, NoGuest
  <2>3. StartTypes
    <3>1. 0 \in 0..MaxOps /\ 0 \in 0..MaxGuests
        BY BoundAssumption
    <3> QED BY <2>1, <2>2, <3>1 DEF Init, StartTypes
  <2> QED BY <2>1, <2>2, <2>3, StartParts, WorkRows DEF Init, LockStands, PendingIsNew, CleanedIsQuiet
<1> QED BY <1>1, StartStep, PTL DEF Spec

\* What a cancelled start has made or found is down once the start counts as
\* cleaned up, for any number of starts and containers.
THEOREM CleanedStartIsQuiet == Spec => []CleanedIsQuiet
<1>1. StartInv => CleanedIsQuiet
    BY StartParts
<1> QED BY <1>1, StartInvariant, PTL

\* An agent that was stopped runs again only by a start requested afterwards.
THEOREM StoppedStaysStopped == Spec => NoRevival
<1>1. StartInv /\ [Next]_vars => [row.status = "stopped" /\ row'.status = "running" => op'.id > veto]_vars
  <2> SUFFICES ASSUME StartInv, Next, row.status = "stopped", row'.status = "running"
               PROVE  op'.id > veto
    OBVIOUS
  <2>1. row \in AgentRow /\ op \in OpRow /\ PendingIsNew /\ veto \in 0..MaxOps
    BY StartParts DEF StartTypes
  <2>2. Publish
    <3>1. CASE StopSweep
        BY <2>1, <3>1 DEF StopSweep, AgentRow
    <3>2. CASE ExpirySweep \/ Disable
        BY <2>1, <3>2 DEF ExpirySweep, Disable, AgentRow
    <3>3. CASE Poll
        BY <3>3 DEF Poll
    <3>4. CASE Trouble
      <4>1. UNCHANGED row
        BY <3>4 DEF Trouble, Crash, GuestHangs, NotReady, PublishFails, CleanupFails, Refuse, StopGuest
      <4> QED BY <4>1
    <3>5. CASE Calm
      <4>1. CASE RequestStart \/ Scan \/ Defer \/ Reconcile \/ Reserve \/ Observe \/ Resume \/ Create
        <5>1. UNCHANGED row
            BY <4>1 DEF RequestStart, Scan, Defer, Reconcile, Reserve, Observe, Resume, Create
        <5> QED BY <5>1
      <4>2. CASE StopGuest(FALSE) \/ Ready \/ NotReady \/ RecoverUnpublished \/ Cleanup \/ MarkClean \/ RequestStop
        <5>1. UNCHANGED row
            BY <4>2 DEF StopGuest, Ready, NotReady, RecoverUnpublished, Cleanup, MarkClean, RequestStop
        <5> QED BY <5>1
      <4>3. CASE Reinstate \/ ExpiryPasses \/ Transfer \/ UpdateRun \/ RetryDue \/ GuestRemoved
        <5>1. UNCHANGED row
            BY <4>3 DEF Reinstate, ExpiryPasses, Transfer, UpdateRun, RetryDue, GuestRemoved
        <5> QED BY <5>1
      <4>4. CASE PersistStop
        BY <4>4 DEF PersistStop
      <4> QED BY <3>1, <3>2, <3>3, <3>5, <4>1, <4>2, <4>3, <4>4 DEF Calm
    <3> QED BY <3>4, <3>5 DEF Next
  <2>3. Active(w.op)
    BY <2>2 DEF Publish
  <2>4. op.state = "pending" /\ op' = [op EXCEPT !.state = "succeeded", !.candidate = w.cont]
    BY <2>2, <2>3, ActiveRow DEF Publish
  <2>5. op'.id = op.id /\ veto < op.id
    BY <2>1, <2>4 DEF OpRow, PendingIsNew
  <2> QED BY <2>1, <2>5, BoundAssumption DEF OpRow
<1> QED BY <1>1, StartInvariant, PTL DEF Spec, NoRevival
-----------------------------------------------------------------------------
(* Upgrades.                                                                  *)

\* The rows, the containers and the holder of the lock, each by itself.
GuestRowT == [status : {"running", "stopped", "error"}, container : Update!Box]
BoxT == [name : {"none", "canonical", "parked"}, up : BOOLEAN, keep : BOOLEAN]
RunT == [state : {"none", "pending", "cutover", "succeeded", "failed"},
         code : {"none", "pull_failed", "not_running", "interrupted", "cutover_failed",
                 "publish_conflict", "rollback_failed"},
         old : Update!Box, new : Update!Box]
UpdatePc == {"none"} \cup Update!SwapPc \cup Update!UndoPc \cup Update!CleanupPc
HeldT == [pc : UpdatePc, run : Update!Box, was : {"none", "running", "stopped"},
          code : {"none", "interrupted", "cutover_failed", "publish_conflict"}]

UpdateTypes ==
    /\ agent \in GuestRowT /\ off \in BOOLEAN /\ box \in [Update!Box -> BoxT] /\ run \in [Update!Run -> RunT]
    /\ dir \in Update!Directory /\ snap \in [Update!Run -> Update!Directory] /\ work \in HeldT
    /\ writing \in BOOLEAN /\ kept \subseteq Update!Writing

\* What holds until a rollback fails.
Way ==
    /\ \A c \in Update!Box : box[c].name = "canonical" =>
          c = agent.container \/ (c # 0 /\ run[c].state = "cutover")
    /\ Update!NoCutover => Update!Whole /\ Update!Exact(dir)
    /\ Update!WayBack /\ Update!WayOn

\* One name, container by container.
Names ==
    \A c \in Update!Box :
       /\ box[c].up => box[c].name = "canonical"
       /\ \A d \in Update!Box : box[c].name = "canonical" /\ box[d].name = "canonical" => c = d

\* The invariant by its parts.
LEMMA UpdateParts ==
    /\ Update!UpdateInv <=> UpdateTypes /\ Update!RunsInOrder /\ Names /\ Update!WorkIsDone /\ Update!NeverResurrected
                     /\ (Update!Sound => Way)
    /\ Update!UpdateInv' <=> UpdateTypes' /\ Update!RunsInOrder' /\ Names' /\ Update!WorkIsDone' /\ Update!NeverResurrected'
                      /\ (Update!Sound' => Way')
<1>1. Update!TypeOK <=> UpdateTypes
    BY DEF Update!TypeOK, UpdateTypes, GuestRowT, BoxT, RunT, UpdatePc, HeldT
<1>2. Update!TypeOK' <=> UpdateTypes'
    BY DEF Update!TypeOK, UpdateTypes, GuestRowT, BoxT, RunT, UpdatePc, HeldT
<1>3. Update!OneName <=> Names
    BY DEF Update!OneName, Names, Update!Named
<1>4. Update!OneName' <=> Names'
    BY DEF Update!OneName, Names, Update!Named
<1>5. Way <=> /\ \A c \in Update!Named("canonical") :
                    c = agent.container \/ (c # 0 /\ run[c].state = "cutover")
              /\ Update!NoCutover => Update!Whole /\ Update!Exact(dir)
              /\ Update!WayBack /\ Update!WayOn
    BY DEF Way, Update!Named
<1>6. Way' <=> /\ \A c \in Update!Named("canonical")' :
                    c = agent.container' \/ (c # 0 /\ run'[c].state = "cutover")
               /\ Update!NoCutover' => Update!Whole' /\ Update!Exact(dir)'
               /\ Update!WayBack' /\ Update!WayOn'
    BY DEF Way, Update!Named
<1>7. Update!UpdateInv <=> UpdateTypes /\ Update!RunsInOrder /\ Names /\ Update!WorkIsDone /\ Update!NeverResurrected
                     /\ (Update!Sound => Way)
    BY <1>1, <1>3, <1>5 DEF Update!UpdateInv
<1>8. Update!UpdateInv' <=> UpdateTypes' /\ Update!RunsInOrder' /\ Names' /\ Update!WorkIsDone' /\ Update!NeverResurrected'
                     /\ (Update!Sound' => Way')
    BY <1>2, <1>4, <1>6 DEF Update!UpdateInv
<1> QED BY <1>7, <1>8

\* A guest's mark is no user's write, and no other guest's.
LEMMA Marks ==
    /\ \A c, d \in Update!Box : Update!Of(c) = Update!Of(d) => c = d
    /\ \A c \in Update!Box : Update!Of(c) \in Update!Writing /\ Update!Of(c) \notin Update!Write
    /\ 0 \in Update!Box /\ 0 \notin Update!Run /\ Update!Run \subseteq Update!Box
    /\ \A c \in Update!Box : c # 0 => c \in Update!Run
<1>1. MaxRuns \in Nat /\ MaxWrites \in Nat
    BY UpdateBound
<1>2. \A c \in Update!Box : c \in Int /\ c >= 0
    BY <1>1 DEF Update!Box
<1>3. \A n \in Update!Write : n \in Int /\ n >= 1
    BY <1>1 DEF Update!Write
<1>4. \A c \in Update!Box : Update!Of(c) \in Int /\ Update!Of(c) < 0 /\ c = -1 - Update!Of(c)
    BY <1>2 DEF Update!Of
<1>5. \A c, d \in Update!Box : Update!Of(c) = Update!Of(d) => c = d
    BY <1>4
<1>6. \A c \in Update!Box : Update!Of(c) \in Update!Writing
    BY DEF Update!Writing
<1>7. \A c \in Update!Box : Update!Of(c) \notin Update!Write
    BY <1>3, <1>4
<1>8. 0 \in Update!Box /\ 0 \notin Update!Run /\ Update!Run \subseteq Update!Box
    BY <1>1 DEF Update!Box, Update!Run
<1>9. \A c \in Update!Box : c # 0 => c \in Update!Run
    BY <1>1 DEF Update!Box, Update!Run
<1> QED BY <1>5, <1>6, <1>7, <1>8, <1>9

\* The holder of the lock goes on at another step.
LEMMA Goes ==
    ASSUME work \in HeldT, NEW p, NEW q \in UpdatePc, Update!At(p, q)
    PROVE  /\ work.pc = p /\ work' \in HeldT /\ work'.pc = q
           /\ work'.run = work.run /\ work'.was = work.was /\ work'.code = work.code
BY DEF Update!At, HeldT

\* What the invariant says of the run whose cutover the holder is in.
LEMMA HeldRun ==
    ASSUME Update!UpdateInv, work.pc \in Update!SwapPc \cup Update!UndoPc
    PROVE  /\ work.run \in Update!Run /\ work.run \in Update!Box /\ run[work.run].state = "cutover" /\ ~writing
           /\ run[work.run].old = agent.container /\ agent.container \in Update!Box /\ agent.container # work.run
           /\ \A r \in Update!Run : run[r].state = "cutover" => r = work.run
           /\ \A r \in Update!Run : run[r].state \in {"none", "pending"} => r # agent.container /\ r # work.run
<1>1. UpdateTypes /\ Update!RunsInOrder /\ Update!WorkIsDone
    BY UpdateParts
<1>2. work.run \in Update!Run /\ work.run \in Update!Box /\ run[work.run].state = "cutover" /\ ~writing
    BY <1>1, Marks DEF Update!WorkIsDone, Update!R, Update!UndoPc, Update!SwapPc
<1>3. run[work.run].old = agent.container
    BY <1>1, <1>2 DEF Update!RunsInOrder
<1>4. agent.container \in Update!Box
    BY <1>1 DEF UpdateTypes, GuestRowT
<1>5. agent.container \notin Update!Run \/ run[agent.container].state = "succeeded"
    BY <1>1, Marks DEF Update!RunsInOrder
<1>6. \A r \in Update!Run : run[r].state = "cutover" => r = work.run
    BY <1>1, <1>2 DEF Update!RunsInOrder, Update!Active
<1> QED BY <1>2, <1>3, <1>4, <1>5, <1>6

\* Work that stops, or goes on outside the swap, and changes nothing else.
LEMMA OnlyWorkMoves ==
    ASSUME Update!UpdateInv, UNCHANGED <<agent, off, box, run, dir, snap, kept>>,
           writing' \in BOOLEAN, Update!NoneActive \/ (writing' => writing),
           work' \in HeldT, work'.pc \notin Update!SwapPc, Update!WorkIsDone'
    PROVE  Update!UpdateInv'
<1>1. UpdateTypes /\ Update!RunsInOrder /\ Names /\ Update!NeverResurrected /\ (Update!Sound => Way)
    BY UpdateParts
<1>2. UpdateTypes' /\ Names' /\ Update!NeverResurrected'
    BY <1>1 DEF UpdateTypes, Names, Update!NeverResurrected
<1>3. Update!RunsInOrder'
    BY <1>1 DEF Update!RunsInOrder, Update!NoneActive, Update!Active
<1>4. Update!Sound' => Way'
  <2>1. SUFFICES ASSUME Update!Sound PROVE Way'
    BY DEF Update!Sound
  <2>2. Update!Whole' = Update!Whole /\ Update!NoCutover' = Update!NoCutover /\ (Update!WayBack => Update!WayBack')
    BY DEF Update!Whole, Update!NoCutover, Update!WayBack, Update!Exact
  <2>3. Update!Exact(dir) => Update!Exact(dir)'
    BY DEF Update!Exact
  <2>4. Update!WayOn'
    BY DEF Update!WayOn, Update!SwapPc
  <2> QED BY <1>1, <2>1, <2>2, <2>3, <2>4 DEF Way
<1> QED BY <1>2, <1>3, <1>4, UpdateParts

\* An interrupted cutover, a call that fails, the sweep of what a success left.
LEMMA InterruptedKeeps ==
    ASSUME Update!UpdateInv, NEW r \in Update!Run, Update!Interrupted(r)
    PROVE Update!UpdateInv'
<1>1. UpdateTypes /\ Update!RunsInOrder
    BY UpdateParts
<1>2. work' = Update!Work("undo_writers", r, "none", "interrupted")
    BY DEF Update!Interrupted
<1>3. work' \in HeldT /\ work'.pc = "undo_writers" /\ work'.run = r
    BY <1>2, Marks DEF Update!Work, HeldT, UpdatePc, Update!UndoPc
<1>4. Update!WorkIsDone'
    BY <1>1, <1>3 DEF Update!Interrupted, Update!Free, Update!WorkIsDone, Update!R, Update!SwapPc,
       Update!UndoPc, Update!CleanupPc
<1> QED BY <1>1, <1>3, <1>4, OnlyWorkMoves DEF Update!Interrupted, Update!SwapPc, UpdateTypes

LEMMA SwapFailsKeeps == ASSUME Update!UpdateInv, Update!SwapFails PROVE Update!UpdateInv'
<1>1. UpdateTypes /\ work \in HeldT
    BY UpdateParts DEF UpdateTypes
<1>2. work' \in HeldT /\ work'.pc = "undo_writers" /\ work'.run = work.run
    BY <1>1 DEF Update!SwapFails, HeldT, UpdatePc, Update!UndoPc
<1>3. work.run \in Update!Run /\ run[work.run].state = "cutover" /\ ~writing
    BY HeldRun DEF Update!SwapFails, Update!SwapPc
<1>4. Update!WorkIsDone'
    BY <1>2, <1>3 DEF Update!SwapFails, Update!WorkIsDone, Update!R, Update!SwapPc, Update!UndoPc,
       Update!CleanupPc
<1> QED BY <1>1, <1>2, <1>4, OnlyWorkMoves DEF Update!SwapFails, Update!SwapPc, UpdateTypes

LEMMA DropOldFailsKeeps == ASSUME Update!UpdateInv, Update!DropOldFails PROVE Update!UpdateInv'
<1>1. UpdateTypes /\ Update!WorkIsDone /\ work \in HeldT
    BY UpdateParts DEF UpdateTypes
<1>2. work.pc = "drop_old" /\ work' \in HeldT /\ work'.pc = "drop_snapshot" /\ work'.run = work.run
    BY <1>1, Goes DEF Update!DropOldFails, UpdatePc, Update!CleanupPc
<1>3. Update!WorkIsDone'
    BY <1>1, <1>2 DEF Update!DropOldFails, Update!WorkIsDone, Update!R, Update!SwapPc,
       Update!UndoPc, Update!CleanupPc
<1> QED BY <1>1, <1>2, <1>3, OnlyWorkMoves DEF Update!DropOldFails, Update!SwapPc, UpdateTypes

LEMMA SweepArtifactsKeeps ==
    ASSUME Update!UpdateInv, NEW r \in Update!Run, Update!SweepArtifacts(r)
    PROVE Update!UpdateInv'
<1>1. UpdateTypes
    BY UpdateParts
<1>2. work' = Update!Work("drop_old", r, "none", "none")
    BY DEF Update!SweepArtifacts
<1>3. work' \in HeldT /\ work'.pc = "drop_old" /\ work'.run = r
    BY <1>2, Marks DEF Update!Work, HeldT, UpdatePc, Update!CleanupPc
<1>4. Update!WorkIsDone'
    BY <1>3 DEF Update!SweepArtifacts, Update!Free, Update!WorkIsDone, Update!R, Update!SwapPc,
       Update!UndoPc, Update!CleanupPc
<1> QED BY <1>1, <1>3, <1>4, OnlyWorkMoves DEF Update!SweepArtifacts, Update!SwapPc, UpdateTypes

\* A crash releases the locks; a user's write that begins or fails only its own.
LEMMA CrashKeeps == ASSUME Update!UpdateInv, Update!Crash PROVE Update!UpdateInv'
<1>1. Update!NoWork \in HeldT /\ Update!NoWork.pc = "none"
    BY Marks DEF Update!NoWork, Update!Work, HeldT, UpdatePc
<1>2. Update!WorkIsDone'
    BY <1>1 DEF Update!Crash, Update!WorkIsDone, Update!SwapPc, Update!UndoPc, Update!CleanupPc
<1> QED BY <1>1, <1>2, OnlyWorkMoves DEF Update!Crash, Update!SwapPc

LEMMA WritesKeeps ==
    ASSUME Update!UpdateInv, Update!BeginWrite \/ Update!WriteFails
    PROVE Update!UpdateInv'
<1>1. UpdateTypes /\ Update!RunsInOrder /\ Names /\ Update!WorkIsDone /\ Update!NeverResurrected /\ (Update!Sound => Way)
    BY UpdateParts
<1>2. UNCHANGED <<agent, off, box, run, dir, snap, kept, work>> /\ writing' \in BOOLEAN
    BY DEF Update!BeginWrite, Update!WriteFails
<1>3. UpdateTypes' /\ Names' /\ Update!NeverResurrected'
    BY <1>1, <1>2 DEF UpdateTypes, Names, Update!NeverResurrected
<1>4. Update!RunsInOrder'
    BY <1>1, <1>2 DEF Update!RunsInOrder, Update!NoneActive, Update!Active, Update!BeginWrite,
       Update!WriteFails
<1>5. Update!WorkIsDone'
    BY <1>1, <1>2 DEF Update!WorkIsDone, Update!Free, Update!BeginWrite, Update!WriteFails,
       Update!R, Update!Named
<1>6. Update!Sound' => Way'
    BY <1>1, <1>2 DEF Update!Sound, Way, Update!NoCutover, Update!Whole, Update!Exact,
       Update!WayBack, Update!WayOn
<1> QED BY <1>3, <1>4, <1>5, <1>6, UpdateParts

\* A request: one more run, that has touched nothing.
LEMMA UpgradeRequestKeeps ==
    ASSUME Update!UpdateInv, NEW r \in Update!Run, Update!Request(r)
    PROVE Update!UpdateInv'
<1>1. UpdateTypes /\ Update!RunsInOrder /\ Names /\ Update!WorkIsDone /\ Update!NeverResurrected /\ (Update!Sound => Way)
    BY UpdateParts
<1>2. /\ Update!NoneActive /\ run[r].state = "none"
      /\ UNCHANGED <<agent, off, box, dir, snap, work, writing, kept>>
    BY DEF Update!Request
<1>3. /\ run' \in [Update!Run -> RunT] /\ run'[r].state = "pending"
      /\ \A q \in Update!Run :
            /\ run'[q].code = run[q].code /\ run'[q].old = run[q].old
            /\ run'[q].new = run[q].new
            /\ q # r => run'[q] = run[q]
    BY <1>1 DEF Update!Request, UpdateTypes, RunT
<1>4. UpdateTypes' /\ Names' /\ Update!NeverResurrected'
    BY <1>1, <1>2, <1>3 DEF UpdateTypes, Names, Update!NeverResurrected
<1>5. \A q \in Update!Run : q # r => run[q].state \notin {"pending", "cutover"}
    BY <1>2 DEF Update!NoneActive, Update!Active
<1>6. Update!RunsInOrder'
    BY <1>1, <1>2, <1>3, <1>5, Marks DEF Update!RunsInOrder, Update!Active, UpdateTypes, GuestRowT
<1>7. Update!WorkIsDone'
  <2>1. work.pc # "none" => work.run \in Update!Run /\ work.run # r
    BY <1>1, <1>2 DEF Update!WorkIsDone, UpdateTypes, HeldT, UpdatePc, Update!R
  <2> QED BY <1>1, <1>2, <1>3, <2>1 DEF Update!WorkIsDone, Update!R, Update!Named, Update!SwapPc,
             Update!UndoPc, Update!CleanupPc
<1>8. Update!Sound' => Way'
  <2>1. SUFFICES ASSUME Update!Sound' PROVE Way'
    OBVIOUS
  <2>2. Way
    BY <1>1, <1>3, <2>1 DEF Update!Sound
  <2>3. \A q \in Update!Run : run'[q].state = "succeeded" <=> run[q].state = "succeeded"
    BY <1>2, <1>3
  <2>4. \A q \in Update!Run : run'[q].state = "cutover" <=> run[q].state = "cutover"
    BY <1>2, <1>3
  <2> QED BY <1>2, <2>2, <2>3, <2>4, Marks DEF Way, Update!NoCutover, Update!Whole, Update!Exact,
             Update!WayBack, Update!WayOn
<1> QED BY <1>4, <1>6, <1>7, <1>8, UpdateParts

\* A pending run fails before it has touched anything.
LEMMA PendingFailsKeeps ==
    ASSUME Update!UpdateInv, NEW r \in Update!Run, NEW code \in {"pull_failed", "not_running"},
           run[r].state = "pending", UNCHANGED <<agent, off, box, dir, snap, work, writing, kept>>,
           run' = [run EXCEPT ![r].state = "failed", ![r].code = code]
    PROVE  Update!UpdateInv'
<1>1. UpdateTypes /\ Update!RunsInOrder /\ Names /\ Update!WorkIsDone /\ Update!NeverResurrected /\ (Update!Sound => Way)
    BY UpdateParts
<1>3. /\ run' \in [Update!Run -> RunT] /\ run'[r].state = "failed" /\ run'[r].code = code
      /\ \A q \in Update!Run :
            /\ run'[q].old = run[q].old
            /\ run'[q].new = run[q].new
            /\ q # r => run'[q] = run[q]
    BY <1>1 DEF UpdateTypes, RunT
<1>4. UpdateTypes' /\ Names' /\ Update!NeverResurrected'
    BY <1>1, <1>3 DEF UpdateTypes, Names, Update!NeverResurrected
<1>6. Update!RunsInOrder'
    BY <1>1, <1>3, Marks DEF Update!RunsInOrder, Update!Active, UpdateTypes, GuestRowT
<1>7. Update!WorkIsDone'
  <2>1. work.pc # "none" => work.run \in Update!Run /\ work.run # r
    BY <1>1 DEF Update!WorkIsDone, UpdateTypes, HeldT, UpdatePc, Update!R
  <2> QED BY <1>1, <1>3, <2>1 DEF Update!WorkIsDone, Update!R, Update!Named, Update!SwapPc,
             Update!UndoPc, Update!CleanupPc
<1>8. Update!Sound' => Way'
  <2>1. SUFFICES ASSUME Update!Sound' PROVE Way'
    OBVIOUS
  <2>2. Way
    BY <1>1, <1>3, <2>1 DEF Update!Sound, Update!RunsInOrder
  <2>3. \A q \in Update!Run : run'[q].state = "succeeded" <=> run[q].state = "succeeded"
    BY <1>3
  <2>4. \A q \in Update!Run : run'[q].state = "cutover" <=> run[q].state = "cutover"
    BY <1>3
  <2> QED BY <2>2, <2>3, <2>4, Marks DEF Way, Update!NoCutover, Update!Whole, Update!Exact,
             Update!WayBack, Update!WayOn
<1> QED BY <1>4, <1>6, <1>7, <1>8, UpdateParts

\* A cutover begins with the agent's own container and no snapshot.
LEMMA BeginCutoverKeeps ==
    ASSUME Update!UpdateInv, NEW r \in Update!Run, Update!BeginCutover(r)
    PROVE Update!UpdateInv'
<1>1. UpdateTypes /\ Update!RunsInOrder /\ Names /\ Update!WorkIsDone /\ Update!NeverResurrected /\ (Update!Sound => Way)
    BY UpdateParts
<1>2. CASE ~(agent.status \in {"running", "stopped"} /\ box[agent.container].name # "none")
    BY <1>2, PendingFailsKeeps DEF Update!BeginCutover
<1>3. CASE agent.status \in {"running", "stopped"} /\ box[agent.container].name # "none"
  <2>1. /\ work.pc = "none" /\ ~writing /\ run[r].state = "pending"
        /\ run' = [run EXCEPT ![r] = [state |-> "cutover", code |-> "none", old |-> agent.container, new |-> 0]]
        /\ work' = Update!Work("policy", r, agent.status, "none")
        /\ UNCHANGED <<agent, off, box, dir, snap, writing, kept>>
    BY <1>3 DEF Update!BeginCutover, Update!Free
  <2>2. /\ run' \in [Update!Run -> RunT] /\ run'[r].state = "cutover" /\ run'[r].code = "none"
        /\ run'[r].old = agent.container
        /\ \A q \in Update!Run : q # r => run'[q] = run[q]
    BY <1>1, <2>1, Marks DEF UpdateTypes, RunT, GuestRowT
  <2>3. work' \in HeldT /\ work'.pc = "policy" /\ work'.run = r
    BY <1>3, <2>1, Marks DEF Update!Work, HeldT, UpdatePc, Update!SwapPc
  <2>4. UpdateTypes' /\ Names' /\ Update!NeverResurrected'
    BY <1>1, <2>1, <2>2, <2>3 DEF UpdateTypes, Names, Update!NeverResurrected
  <2>5. \A q \in Update!Run : q # r => run[q].state \notin {"pending", "cutover"}
    BY <1>1, <2>1 DEF Update!RunsInOrder, Update!Active
  <2>6. Update!RunsInOrder'
    BY <1>1, <2>1, <2>2, <2>5 DEF Update!RunsInOrder, Update!Active
  <2>7. box[r] = Update!Gone /\ snap[r] = Update!NoDir
    BY <1>1, <2>1 DEF Update!RunsInOrder
  <2>8. Update!WorkIsDone'
    <3>1. work'.pc \notin Update!UndoPc \cup Update!CleanupPc
        BY <2>3 DEF Update!UndoPc, Update!CleanupPc
    <3>2. ~snap'[r].has /\ run'[r].state = "cutover" /\ ~writing'
        BY <2>1, <2>2, <2>7 DEF Update!NoDir
    <3> QED BY <2>1, <2>3, <3>1, <3>2 DEF Update!WorkIsDone, Update!R, Update!UndoPc
  <2>9. Update!Sound' => Way'
    <3>1. SUFFICES ASSUME Update!Sound' PROVE Way'
      OBVIOUS
    <3>2. Way
      BY <1>1, <2>1, <2>2, <3>1 DEF Update!Sound, Update!RunsInOrder
    <3>3. \A q \in Update!Run : run'[q].state = "succeeded" <=> run[q].state = "succeeded"
      BY <2>1, <2>2
    <3>4. Update!NoCutover
      BY <2>1, <2>5 DEF Update!NoCutover
    <3>5. Update!Exact(dir) /\ Update!Exact(dir)'
      BY <2>1, <3>2, <3>3, <3>4 DEF Way, Update!Exact
    <3>6. \A q \in Update!Run : run'[q].state = "cutover" => q = r
      BY <2>2, <2>5
    <3>7. Update!WayBack'
      BY <2>1, <2>7, <3>5, <3>6 DEF Update!WayBack, Update!NoDir, Update!Gone
    <3>8. Update!WayOn'
      BY <2>1, <2>3, <3>3, <3>5 DEF Update!WayOn, Update!Exact
    <3>9. ~Update!NoCutover'
      BY <2>2 DEF Update!NoCutover
    <3>10. \A c \in Update!Box : box[c].name = "canonical" => c = agent.container
      BY <3>2, <3>4, UpdateBound DEF Way, Update!NoCutover, Update!Box, Update!Run
    <3> QED BY <2>1, <3>7, <3>8, <3>9, <3>10 DEF Way
  <2> QED BY <2>4, <2>6, <2>8, <2>9, UpdateParts
<1> QED BY <1>2, <1>3

\* The journal names the new container.
LEMMA SetJournalKeeps == ASSUME Update!UpdateInv, Update!SetJournal PROVE Update!UpdateInv'
<1>1. UpdateTypes /\ Update!RunsInOrder /\ Names /\ Update!WorkIsDone /\ Update!NeverResurrected /\ (Update!Sound => Way)
    BY UpdateParts
<1>2. /\ work.pc = "journal" /\ work' \in HeldT /\ work'.pc = "ready"
      /\ work'.run = work.run /\ work'.was = work.was /\ work'.code = work.code
    BY <1>1, Goes DEF Update!SetJournal, UpdateTypes, UpdatePc, Update!SwapPc
<1>3. /\ work.run \in Update!Run /\ work.run \in Update!Box /\ ~writing
      /\ UNCHANGED <<agent, off, box, dir, snap, writing, kept>>
    BY <1>2, HeldRun DEF Update!SetJournal, Update!SwapPc
<1>4. /\ run' \in [Update!Run -> RunT]
      /\ \A q \in Update!Run :
            /\ run'[q].state = run[q].state /\ run'[q].code = run[q].code
            /\ run'[q].old = run[q].old
    BY <1>1, <1>3 DEF Update!SetJournal, UpdateTypes, RunT
<1>5. UpdateTypes' /\ Names' /\ Update!NeverResurrected'
    BY <1>1, <1>2, <1>3, <1>4 DEF UpdateTypes, Names, Update!NeverResurrected
<1>6. Update!RunsInOrder'
    BY <1>1, <1>3, <1>4, Marks DEF Update!RunsInOrder, Update!Active, UpdateTypes, GuestRowT
<1>7. Update!WorkIsDone'
    BY <1>1, <1>2, <1>3, <1>4 DEF Update!WorkIsDone, Update!R, Update!Named, Update!SwapPc,
       Update!UndoPc, Update!CleanupPc
<1>8. Update!Sound' => Way'
    BY <1>1, <1>2, <1>3, <1>4, Marks DEF Update!Sound, Way, Update!NoCutover, Update!Whole,
       Update!Exact, Update!WayBack, Update!WayOn, Update!SwapPc
<1> QED BY <1>5, <1>6, <1>7, <1>8, UpdateParts

\* Containers change, and with them where the holder of the lock stands.
LEMMA BoxMoves ==
    ASSUME Update!UpdateInv, UNCHANGED <<agent, off, run, dir, snap, writing, kept>>,
           box' \in [Update!Box -> BoxT], work' \in HeldT, Names', Update!WorkIsDone', Update!Sound => Way',
           \A r \in Update!Run : run[r].state \in {"none", "pending"} => box'[r] = Update!Gone
    PROVE  Update!UpdateInv'
<1>1. UpdateTypes /\ Update!RunsInOrder /\ Update!NeverResurrected
    BY UpdateParts
<1>2. UpdateTypes' /\ Update!NeverResurrected'
    BY <1>1 DEF UpdateTypes, Update!NeverResurrected
<1>3. Update!RunsInOrder'
    BY <1>1 DEF Update!RunsInOrder, Update!Active
<1>4. Update!Sound' = Update!Sound
    BY DEF Update!Sound
<1> QED BY <1>2, <1>3, <1>4, UpdateParts

\* The holder of the lock goes on from p to q, in the cutover of its run: the
\* only one, of which the old container is the agent's.
HolderGoes(p, q) ==
    /\ work.pc = p /\ work' \in HeldT /\ work'.pc = q
    /\ work'.run = work.run /\ work'.was = work.was /\ work'.code = work.code
    /\ work.run \in Update!Run /\ work.run \in Update!Box /\ run[work.run].state = "cutover" /\ ~writing
    /\ run[work.run].old = agent.container /\ agent.container \in Update!Box /\ agent.container # work.run
    /\ \A r \in Update!Run : run[r].state = "cutover" => r = work.run
    /\ \A r \in Update!Run : run[r].state \in {"none", "pending"} => r # agent.container /\ r # work.run

LEMMA HeldGoes ==
    ASSUME Update!UpdateInv, NEW p \in Update!SwapPc \cup Update!UndoPc, NEW q \in UpdatePc, Update!At(p, q)
    PROVE  /\ HolderGoes(p, q)
           /\ UpdateTypes /\ Update!RunsInOrder /\ Names /\ Update!WorkIsDone /\ (Update!Sound => Way)
<1>1. UpdateTypes /\ Update!RunsInOrder /\ Names /\ Update!WorkIsDone /\ (Update!Sound => Way)
    BY UpdateParts
<1>2. /\ work.pc = p /\ work' \in HeldT /\ work'.pc = q
      /\ work'.run = work.run /\ work'.was = work.was /\ work'.code = work.code
    BY <1>1, Goes DEF UpdateTypes
<1> QED BY <1>1, <1>2, HeldRun DEF HolderGoes

\* The restart policy of the old guest is taken away.
LEMMA PolicyKeeps == ASSUME Update!UpdateInv, Update!Policy PROVE Update!UpdateInv'
<1>1. Update!At("policy", "stop") /\ UNCHANGED <<agent, off, run, dir, snap, writing, kept>>
    BY DEF Update!Policy
<1>2. /\ HolderGoes("policy", "stop")
      /\ UpdateTypes /\ Update!RunsInOrder /\ Names /\ Update!WorkIsDone /\ (Update!Sound => Way)
    BY <1>1, HeldGoes DEF Update!SwapPc, UpdatePc
<1>3. /\ box' \in [Update!Box -> BoxT]
      /\ \A c \in Update!Box :
            /\ box'[c].name = box[c].name /\ box'[c].up = box[c].up
            /\ c # agent.container => box'[c] = box[c]
    BY <1>2 DEF HolderGoes, Update!Policy, Update!R, UpdateTypes, BoxT
<1>4. Names'
    BY <1>2, <1>3 DEF HolderGoes, Names
<1>5. Update!WorkIsDone'
    BY <1>1, <1>2 DEF HolderGoes, Update!WorkIsDone, Update!R, Update!SwapPc, Update!UndoPc,
       Update!CleanupPc
<1>6. ASSUME Update!Sound PROVE Way'
    BY <1>1, <1>2, <1>3, <1>6 DEF HolderGoes, Way, Update!NoCutover, Update!Exact, Update!WayBack,
       Update!WayOn, Update!SwapPc
<1>7. \A r \in Update!Run : run[r].state \in {"none", "pending"} => box'[r] = Update!Gone
    BY <1>2, <1>3, Marks DEF HolderGoes, Update!RunsInOrder
<1> QED BY <1>1, <1>2, <1>3, <1>4, <1>5, <1>6, <1>7, BoxMoves DEF HolderGoes

\* One container is started or stopped.
LEMMA BoxTurns ==
    ASSUME box \in [Update!Box -> BoxT], NEW d \in Update!Box, NEW u \in BOOLEAN,
           box' = [box EXCEPT ![d].up = u]
    PROVE  /\ box' \in [Update!Box -> BoxT] /\ box'[d].up = u
           /\ \A c \in Update!Box :
                 /\ box'[c].name = box[c].name /\ box'[c].keep = box[c].keep
                 /\ c # d => box'[c] = box[c]
<1> DEFINE b == [box[d] EXCEPT !.up = u]
<1>1. b \in BoxT /\ b.up = u /\ b.name = box[d].name /\ b.keep = box[d].keep
    BY DEF BoxT
<1>2. box' = [box EXCEPT ![d] = b]
    OBVIOUS
<1> HIDE DEF b
<1> QED BY <1>1, <1>2

\* The old guest stops.
LEMMA StopOldKeeps == ASSUME Update!UpdateInv, Update!StopOld PROVE Update!UpdateInv'
<1>1. Update!At("stop", "park") /\ UNCHANGED <<agent, off, run, dir, snap, writing, kept>>
    BY DEF Update!StopOld
<1>2. /\ HolderGoes("stop", "park")
      /\ UpdateTypes /\ Update!RunsInOrder /\ Names /\ Update!WorkIsDone /\ (Update!Sound => Way)
    BY <1>1, HeldGoes DEF Update!SwapPc, UpdatePc
<1>3. /\ box' \in [Update!Box -> BoxT] /\ ~box'[agent.container].up
      /\ \A c \in Update!Box :
            /\ box'[c].name = box[c].name /\ box'[c].keep = box[c].keep
            /\ c # agent.container => box'[c] = box[c]
  <2>1. box' = [box EXCEPT ![agent.container].up = FALSE]
    BY <1>2 DEF HolderGoes, Update!StopOld, Update!R
  <2> QED BY <1>2, <2>1, BoxTurns DEF HolderGoes, UpdateTypes
<1>4. Names'
    BY <1>2, <1>3 DEF HolderGoes, Names
<1>5. Update!WorkIsDone'
    BY <1>1, <1>2, <1>3 DEF HolderGoes, Update!WorkIsDone, Update!R, Update!SwapPc, Update!UndoPc,
       Update!CleanupPc
<1>6. ASSUME Update!Sound PROVE Way'
    BY <1>1, <1>2, <1>3, <1>6, Marks DEF HolderGoes, Way, Update!NoCutover, Update!Exact,
       Update!WayBack, Update!WayOn, Update!SwapPc
<1>7. \A r \in Update!Run : run[r].state \in {"none", "pending"} => box'[r] = Update!Gone
    BY <1>2, <1>3, Marks DEF HolderGoes, Update!RunsInOrder
<1> QED BY <1>1, <1>2, <1>3, <1>4, <1>5, <1>6, <1>7, BoxMoves DEF HolderGoes

\* The old guest gives up its name.
LEMMA ParkKeeps == ASSUME Update!UpdateInv, Update!Park PROVE Update!UpdateInv'
<1>1. Update!At("park", "snapshot") /\ UNCHANGED <<agent, off, run, dir, snap, writing, kept>>
    BY DEF Update!Park
<1>2. /\ HolderGoes("park", "snapshot")
      /\ UpdateTypes /\ Update!RunsInOrder /\ Names /\ Update!WorkIsDone /\ (Update!Sound => Way)
    BY <1>1, HeldGoes DEF Update!SwapPc, UpdatePc
<1>3. /\ box' \in [Update!Box -> BoxT] /\ box'[agent.container].name = "parked"
      /\ \A c \in Update!Box :
            /\ box'[c].up = box[c].up /\ box'[c].keep = box[c].keep
            /\ c # agent.container => box'[c] = box[c]
    BY <1>2 DEF HolderGoes, Update!Park, Update!R, UpdateTypes, BoxT
<1>4. ~box[agent.container].up
    BY <1>2 DEF HolderGoes, Update!WorkIsDone, Update!R
<1>5. Names'
    BY <1>2, <1>3, <1>4 DEF HolderGoes, Names
<1>6. Update!WorkIsDone'
    BY <1>1, <1>2, <1>3 DEF HolderGoes, Update!WorkIsDone, Update!R, Update!SwapPc, Update!UndoPc,
       Update!CleanupPc
<1>7. ASSUME Update!Sound PROVE Way'
    BY <1>1, <1>2, <1>3, <1>4, <1>7, Marks DEF HolderGoes, Way, Update!NoCutover, Update!Exact,
       Update!WayBack, Update!WayOn, Update!SwapPc
<1>8. \A r \in Update!Run : run[r].state \in {"none", "pending"} => box'[r] = Update!Gone
    BY <1>2, <1>3, Marks DEF HolderGoes, Update!RunsInOrder
<1> QED BY <1>1, <1>2, <1>3, <1>5, <1>6, <1>7, <1>8, BoxMoves DEF HolderGoes

\* The new guest takes the name, from whatever has it.
LEMMA CreateKeeps == ASSUME Update!UpdateInv, Update!Create PROVE Update!UpdateInv'
<1>1. Update!At("create", "journal") /\ UNCHANGED <<agent, off, run, dir, snap, writing, kept>>
    BY DEF Update!Create
<1>2. /\ HolderGoes("create", "journal")
      /\ UpdateTypes /\ Update!RunsInOrder /\ Names /\ Update!WorkIsDone /\ (Update!Sound => Way)
    BY <1>1, HeldGoes DEF Update!SwapPc, UpdatePc
<1>3. /\ box' \in [Update!Box -> BoxT]
      /\ box'[work.run] = [name |-> "canonical", up |-> TRUE, keep |-> TRUE]
      /\ \A c \in Update!Box : c # work.run =>
            box'[c] = IF box[c].name = "canonical" THEN Update!Gone ELSE box[c]
  <2>1. box' = [c \in Update!Box |-> IF c = work.run THEN [name |-> "canonical", up |-> TRUE, keep |-> TRUE]
                              ELSE IF box[c].name = "canonical" THEN Update!Gone ELSE box[c]]
    BY DEF Update!Create, Update!Named
  <2>2. Update!Gone \in BoxT /\ [name |-> "canonical", up |-> TRUE, keep |-> TRUE] \in BoxT
    BY DEF Update!Gone, BoxT
  <2>3. \A c \in Update!Box : box[c] \in BoxT
    BY <1>2 DEF UpdateTypes
  <2> QED BY <1>2, <2>1, <2>2, <2>3 DEF HolderGoes
<1>4. Names'
    BY <1>2, <1>3 DEF HolderGoes, Names, Update!Gone
<1>5. Update!WorkIsDone'
    BY <1>1, <1>2, <1>3 DEF HolderGoes, Update!WorkIsDone, Update!R, Update!SwapPc, Update!UndoPc,
       Update!CleanupPc
<1>6. ASSUME Update!Sound PROVE Way'
  <2>1. snap[work.run].has /\ Update!WayBack
    BY <1>2, <1>6 DEF HolderGoes, Way, Update!WayOn
  <2>2. Update!Exact(snap[work.run]) /\ ~box[agent.container].up
    BY <1>2, <2>1 DEF HolderGoes, Update!WayBack
  <2>3. ~box'[agent.container].up
    BY <1>2, <1>3, <2>2 DEF HolderGoes, Update!Gone
  <2>4. Update!WayBack'
    BY <1>1, <1>2, <2>1, <2>2, <2>3 DEF HolderGoes, Update!WayBack, Update!Exact
  <2>5. Update!WayOn'
    BY <1>1, <1>2, <1>6 DEF HolderGoes, Way, Update!WayOn, Update!SwapPc
  <2>6. ~Update!NoCutover'
    BY <1>1, <1>2 DEF HolderGoes, Update!NoCutover
  <2>7. \A c \in Update!Box : box'[c].name = "canonical" => c = work.run
    BY <1>3 DEF Update!Gone
  <2> QED BY <1>1, <1>2, <2>4, <2>5, <2>6, <2>7, Marks DEF HolderGoes, Way
<1>7. \A r \in Update!Run : run[r].state \in {"none", "pending"} => box'[r] = Update!Gone
    BY <1>2, <1>3, Marks DEF HolderGoes, Update!RunsInOrder
<1> QED BY <1>1, <1>2, <1>3, <1>4, <1>5, <1>6, <1>7, BoxMoves DEF HolderGoes

\* The new guest is ready, and stays up unless the agent had been stopped.
LEMMA ReadyKeeps == ASSUME Update!UpdateInv, Update!Ready PROVE Update!UpdateInv'
<1>1. Update!At("ready", "publish") /\ UNCHANGED <<agent, off, run, dir, snap, writing, kept>>
    BY DEF Update!Ready
<1>2. /\ HolderGoes("ready", "publish")
      /\ UpdateTypes /\ Update!RunsInOrder /\ Names /\ Update!WorkIsDone /\ (Update!Sound => Way)
    BY <1>1, HeldGoes DEF Update!SwapPc, UpdatePc
<1>3. /\ box' \in [Update!Box -> BoxT] /\ box'[work.run].up = (work.was # "stopped")
      /\ \A c \in Update!Box :
            /\ box'[c].name = box[c].name /\ box'[c].keep = box[c].keep
            /\ c # work.run => box'[c] = box[c]
  <2> DEFINE up == work.was # "stopped"
  <2>1. box' = [box EXCEPT ![work.run].up = up]
    BY DEF Update!Ready
  <2>2. box \in [Update!Box -> BoxT] /\ work.run \in Update!Box /\ up \in BOOLEAN
    BY <1>2 DEF HolderGoes, UpdateTypes
  <2> HIDE DEF up
  <2>3. /\ box' \in [Update!Box -> BoxT] /\ box'[work.run].up = up
        /\ \A c \in Update!Box :
              /\ box'[c].name = box[c].name /\ box'[c].keep = box[c].keep
              /\ c # work.run => box'[c] = box[c]
    BY <2>1, <2>2, BoxTurns
  <2> QED BY <2>3 DEF up
<1>4. box[work.run].name = "canonical" /\ box[work.run].keep
    BY <1>2 DEF HolderGoes, Update!WorkIsDone
<1>5. Names'
    BY <1>2, <1>3, <1>4 DEF HolderGoes, Names
<1>6. Update!WorkIsDone'
    BY <1>1, <1>2, <1>3, <1>4 DEF HolderGoes, Update!WorkIsDone, Update!R, Update!SwapPc,
       Update!UndoPc, Update!CleanupPc
<1>7. ASSUME Update!Sound PROVE Way'
    BY <1>1, <1>2, <1>3, <1>4, <1>7, Marks DEF HolderGoes, Way, Update!NoCutover, Update!Exact,
       Update!WayBack, Update!WayOn, Update!SwapPc
<1>8. \A r \in Update!Run : run[r].state \in {"none", "pending"} => box'[r] = Update!Gone
    BY <1>2, <1>3, Marks DEF HolderGoes, Update!RunsInOrder
<1> QED BY <1>1, <1>2, <1>3, <1>5, <1>6, <1>7, <1>8, BoxMoves DEF HolderGoes

\* The rollback removes every writer but the original.
LEMMA UndoWritersKeeps == ASSUME Update!UpdateInv, Update!UndoWriters PROVE Update!UpdateInv'
<1>1. Update!At("undo_writers", "undo_stop") /\ UNCHANGED <<agent, off, run, dir, snap, writing, kept>>
    BY DEF Update!UndoWriters
<1>2. /\ HolderGoes("undo_writers", "undo_stop")
      /\ UpdateTypes /\ Update!RunsInOrder /\ Names /\ Update!WorkIsDone /\ (Update!Sound => Way)
    BY <1>1, HeldGoes DEF Update!UndoPc, UpdatePc
<1>3. /\ box' \in [Update!Box -> BoxT]
      /\ \A c \in Update!Box : box'[c] = Update!Gone \/ box'[c] = box[c]
      /\ \A c \in Update!Box : c # agent.container => box'[c].name # "canonical"
      /\ box'[agent.container] = box[agent.container]
  <2>1. box' = [c \in Update!Box |-> IF c \in Update!Writers THEN Update!Gone ELSE box[c]]
    BY DEF Update!UndoWriters
  <2>2. Update!Gone \in BoxT /\ \A c \in Update!Box : box[c] \in BoxT
    BY <1>2 DEF Update!Gone, BoxT, UpdateTypes
  <2>3. \A c \in Update!Box : c # agent.container /\ box[c].name = "canonical" => c \in Update!Writers
    BY <1>2 DEF HolderGoes, Update!Writers, Update!Named, Update!R
  <2>4. agent.container \notin Update!Writers
    BY <1>2 DEF HolderGoes, Update!Writers, Update!R
  <2> QED BY <1>2, <2>1, <2>2, <2>3, <2>4 DEF HolderGoes, Update!Gone
<1>4. Names'
    BY <1>2, <1>3 DEF HolderGoes, Names, Update!Gone
<1>5. Update!WorkIsDone'
    BY <1>1, <1>2, <1>3 DEF HolderGoes, Update!WorkIsDone, Update!R, Update!Named, Update!SwapPc,
       Update!UndoPc, Update!CleanupPc
<1>6. ASSUME Update!Sound PROVE Way'
    BY <1>1, <1>2, <1>3, <1>6, Marks
    DEF HolderGoes, Way, Update!NoCutover, Update!Exact, Update!WayBack, Update!WayOn,
    Update!SwapPc, Update!UndoPc, Update!Gone
<1>7. \A r \in Update!Run : run[r].state \in {"none", "pending"} => box'[r] = Update!Gone
    BY <1>2, <1>3, Marks DEF HolderGoes, Update!RunsInOrder
<1> QED BY <1>1, <1>2, <1>3, <1>4, <1>5, <1>6, <1>7, BoxMoves DEF HolderGoes

\* The original is stopped before its directory is put back.
LEMMA UndoStopKeeps == ASSUME Update!UpdateInv, Update!UndoStop PROVE Update!UpdateInv'
<1>1. Update!At("undo_stop", "undo_aside") /\ UNCHANGED <<agent, off, run, dir, snap, writing, kept>>
    BY DEF Update!UndoStop
<1>2. /\ HolderGoes("undo_stop", "undo_aside")
      /\ UpdateTypes /\ Update!RunsInOrder /\ Names /\ Update!WorkIsDone /\ (Update!Sound => Way)
    BY <1>1, HeldGoes DEF Update!UndoPc, UpdatePc
<1>3. /\ box' \in [Update!Box -> BoxT] /\ ~box'[agent.container].up
      /\ \A c \in Update!Box :
            /\ box'[c].name = box[c].name /\ box'[c].keep = box[c].keep
            /\ c # agent.container => box'[c] = box[c]
  <2>1. box' = [box EXCEPT ![agent.container].up = FALSE]
    BY <1>2 DEF HolderGoes, Update!UndoStop, Update!R
  <2> QED BY <1>2, <2>1, BoxTurns DEF HolderGoes, UpdateTypes
<1>4. Names'
    BY <1>2, <1>3 DEF HolderGoes, Names
<1>5. Update!WorkIsDone'
    BY <1>1, <1>2, <1>3 DEF HolderGoes, Update!WorkIsDone, Update!R, Update!Named, Update!SwapPc,
       Update!UndoPc, Update!CleanupPc
<1>6. ASSUME Update!Sound PROVE Way'
    BY <1>1, <1>2, <1>3, <1>6, Marks DEF HolderGoes, Way, Update!NoCutover, Update!Exact,
       Update!WayBack, Update!WayOn, Update!SwapPc
<1>7. \A r \in Update!Run : run[r].state \in {"none", "pending"} => box'[r] = Update!Gone
    BY <1>2, <1>3, Marks DEF HolderGoes, Update!RunsInOrder
<1> QED BY <1>1, <1>2, <1>3, <1>4, <1>5, <1>6, <1>7, BoxMoves DEF HolderGoes

\* The original gets its name and its restart policy back.
LEMMA UndoNameKeeps == ASSUME Update!UpdateInv, Update!UndoName PROVE Update!UpdateInv'
<1>1. Update!At("undo_name", "undo_start") /\ UNCHANGED <<agent, off, run, dir, snap, writing, kept>>
    BY DEF Update!UndoName
<1>2. /\ HolderGoes("undo_name", "undo_start")
      /\ UpdateTypes /\ Update!RunsInOrder /\ Names /\ Update!WorkIsDone /\ (Update!Sound => Way)
    BY <1>1, HeldGoes DEF Update!UndoPc, UpdatePc
<1>3. /\ box' \in [Update!Box -> BoxT]
      /\ box'[agent.container].name = "canonical" /\ box'[agent.container].keep
      /\ \A c \in Update!Box :
            /\ box'[c].up = box[c].up
            /\ c # agent.container => box'[c] = box[c]
    BY <1>2 DEF HolderGoes, Update!UndoName, Update!R, UpdateTypes, BoxT
<1>4. \A c \in Update!Box : box[c].name = "canonical" => c = agent.container
    BY <1>2 DEF HolderGoes, Update!UndoName, Update!Named, Update!R
<1>5. Names'
    BY <1>2, <1>3, <1>4 DEF HolderGoes, Names
<1>6. Update!WorkIsDone'
    BY <1>1, <1>2, <1>3, <1>4 DEF HolderGoes, Update!WorkIsDone, Update!R, Update!Named,
       Update!SwapPc, Update!UndoPc, Update!CleanupPc
<1>7. ASSUME Update!Sound PROVE Way'
    BY <1>1, <1>2, <1>3, <1>4, <1>7, Marks
    DEF HolderGoes, Way, Update!NoCutover, Update!Exact, Update!WayBack, Update!WayOn, Update!SwapPc
<1>8. \A r \in Update!Run : run[r].state \in {"none", "pending"} => box'[r] = Update!Gone
    BY <1>2, <1>3, Marks DEF HolderGoes, Update!RunsInOrder
<1> QED BY <1>1, <1>2, <1>3, <1>5, <1>6, <1>7, <1>8, BoxMoves DEF HolderGoes

\* The original is started if the agent is to run.
LEMMA UndoStartKeeps == ASSUME Update!UpdateInv, Update!UndoStart PROVE Update!UpdateInv'
<1>1. Update!At("undo_start", "undo_done") /\ UNCHANGED <<agent, off, run, dir, snap, writing, kept>>
    BY DEF Update!UndoStart
<1>2. /\ HolderGoes("undo_start", "undo_done")
      /\ UpdateTypes /\ Update!RunsInOrder /\ Names /\ Update!WorkIsDone /\ (Update!Sound => Way)
    BY <1>1, HeldGoes DEF Update!UndoPc, UpdatePc
<1>3. /\ box' \in [Update!Box -> BoxT] /\ box'[agent.container].up = (agent.status = "running")
      /\ \A c \in Update!Box :
            /\ box'[c].name = box[c].name /\ box'[c].keep = box[c].keep
            /\ c # agent.container => box'[c] = box[c]
  <2>1. box' = [box EXCEPT ![agent.container].up = agent.status = "running"]
    BY <1>2 DEF HolderGoes, Update!UndoStart, Update!R
  <2> QED BY <1>2, <2>1, BoxTurns DEF HolderGoes, UpdateTypes
<1>4. /\ box[agent.container].name = "canonical" /\ box[agent.container].keep
      /\ ~snap[work.run].has
      /\ \A c \in Update!Box : box[c].name = "canonical" => c = agent.container
    BY <1>2 DEF HolderGoes, Update!WorkIsDone, Update!R, Update!Named, Update!UndoPc
<1>5. Names'
    BY <1>2, <1>3, <1>4 DEF HolderGoes, Names
<1>6. Update!WorkIsDone'
  <2>1. Update!R = run[work.run] /\ Update!R' = run[work.run]
    BY <1>1, <1>2 DEF HolderGoes, Update!R
  <2>2. Update!Named("canonical")' = Update!Named("canonical")
    BY <1>3 DEF Update!Named
  <2>3. Update!Named("canonical") \subseteq {agent.container}
    BY <1>4 DEF Update!Named
  <2> QED BY <1>1, <1>2, <1>3, <1>4, <2>1, <2>2, <2>3
          DEF HolderGoes, Update!WorkIsDone, Update!SwapPc, Update!UndoPc, Update!CleanupPc
<1>7. ASSUME Update!Sound PROVE Way'
    BY <1>1, <1>2, <1>3, <1>4, <1>7, Marks
    DEF HolderGoes, Way, Update!NoCutover, Update!Exact, Update!WayBack, Update!WayOn, Update!SwapPc
<1>8. \A r \in Update!Run : run[r].state \in {"none", "pending"} => box'[r] = Update!Gone
    BY <1>2, <1>3, Marks DEF HolderGoes, Update!RunsInOrder
<1> QED BY <1>1, <1>2, <1>3, <1>5, <1>6, <1>7, <1>8, BoxMoves DEF HolderGoes

\* The old container goes, if it is not the agent's.
LEMMA DropOldKeeps == ASSUME Update!UpdateInv, Update!DropOld PROVE Update!UpdateInv'
<1>1. UpdateTypes /\ Update!RunsInOrder /\ Names /\ Update!WorkIsDone /\ (Update!Sound => Way)
    BY UpdateParts
<1>2. /\ work.pc = "drop_old" /\ work' \in HeldT /\ work'.pc = "drop_snapshot" /\ work'.run = work.run
      /\ UNCHANGED <<agent, off, run, dir, snap, writing, kept>>
    BY <1>1, Goes DEF Update!DropOld, UpdateTypes, UpdatePc, Update!CleanupPc
<1>3. work.run \in Update!Run /\ run[work.run].old \in Update!Box /\ agent.container \in Update!Box /\ Update!Gone \in BoxT
    BY <1>1, <1>2 DEF Update!WorkIsDone, UpdateTypes, RunT, GuestRowT, Update!Gone, BoxT
<1>4. /\ box' \in [Update!Box -> BoxT] /\ box'[agent.container] = box[agent.container]
      /\ \A c \in Update!Box : box'[c] = Update!Gone \/ box'[c] = box[c]
    BY <1>1, <1>3 DEF Update!DropOld, Update!R, UpdateTypes
<1>5. Names'
    BY <1>1, <1>4 DEF Names, Update!Gone
<1>6. Update!WorkIsDone'
    BY <1>1, <1>2, <1>3 DEF Update!WorkIsDone, Update!R, Update!SwapPc, Update!UndoPc,
       Update!CleanupPc
<1>7. ASSUME Update!Sound PROVE Way'
    BY <1>1, <1>2, <1>3, <1>4, <1>7, Marks
    DEF Way, Update!NoCutover, Update!Exact, Update!Whole, Update!WayBack, Update!WayOn,
    Update!SwapPc, Update!Gone
<1>8. \A r \in Update!Run : run[r].state \in {"none", "pending"} => box'[r] = Update!Gone
    BY <1>1, <1>4, Marks DEF Update!RunsInOrder
<1> QED BY <1>2, <1>4, <1>5, <1>6, <1>7, <1>8, BoxMoves

\* A container that does not exist.
LEMMA GoneRow == \A b \in BoxT : b = Update!Gone <=> b.name = "none" /\ ~b.up /\ ~b.keep
BY DEF BoxT, Update!Gone

\* The containers of a stopped agent are stopped, and those of nobody removed,
\* while no one holds the lock.
LEMMA StopSweepKeeps == ASSUME Update!UpdateInv, Update!StopSweep PROVE Update!UpdateInv'
<1>1. UpdateTypes /\ Update!RunsInOrder /\ Names /\ Update!WorkIsDone /\ (Update!Sound => Way)
    BY UpdateParts
<1>2. /\ work.pc = "none" /\ agent.status = "stopped"
      /\ UNCHANGED <<agent, off, run, dir, snap, work, writing, kept>>
    BY DEF Update!StopSweep, Update!Free
<1>3. /\ box' \in [Update!Box -> BoxT]
      /\ \A c \in Update!Box :
            /\ box'[c].name = box[c].name /\ box'[c].keep = box[c].keep
            /\ box'[c].up => box[c].up
            /\ box[c] = Update!Gone => box'[c] = Update!Gone
  <2>1. \A c \in Update!Box : box[c] \in BoxT
    BY <1>1 DEF UpdateTypes
  <2>2. \E s \in SUBSET Update!Box : box' = [c \in Update!Box |-> [box[c] EXCEPT !.up = @ /\ c \notin s]]
    <3>1. agent.container \in Update!Box /\ Update!Named("canonical") \subseteq Update!Box
      BY <1>1 DEF UpdateTypes, GuestRowT, Update!Named
    <3> QED BY <3>1 DEF Update!StopSweep
  <2>3. PICK s \in SUBSET Update!Box : box' = [c \in Update!Box |-> [box[c] EXCEPT !.up = @ /\ c \notin s]]
    BY <2>2
  <2>4. \A c \in Update!Box : box'[c] = [box[c] EXCEPT !.up = @ /\ c \notin s]
    BY <2>3
  <2>5. ASSUME NEW c \in Update!Box
        PROVE  /\ box'[c] \in BoxT
               /\ box'[c].name = box[c].name /\ box'[c].keep = box[c].keep
               /\ box'[c].up => box[c].up
               /\ box[c] = Update!Gone => box'[c] = Update!Gone
    <3>1. box[c] \in BoxT /\ box'[c] = [box[c] EXCEPT !.up = @ /\ c \notin s]
      BY <2>1, <2>4
    <3>2. CASE c \in s
      <4>1. box'[c] = [box[c] EXCEPT !.up = FALSE]
        BY <3>1, <3>2
      <4>2. /\ box'[c] \in BoxT /\ ~box'[c].up
            /\ box'[c].name = box[c].name /\ box'[c].keep = box[c].keep
        BY <3>1, <4>1 DEF BoxT
      <4> QED BY <3>1, <4>2, GoneRow
    <3>3. CASE c \notin s
      <4>1. box'[c] = [box[c] EXCEPT !.up = box[c].up]
        BY <3>1, <3>3 DEF BoxT
      <4> QED BY <3>1, <4>1 DEF BoxT, Update!Gone
    <3> QED BY <3>2, <3>3
  <2>6. box' \in [Update!Box -> BoxT]
    BY <2>3, <2>5
  <2> QED BY <2>5, <2>6
<1>4. Names'
    BY <1>1, <1>3 DEF Names
<1>5. Update!WorkIsDone'
    BY <1>2 DEF Update!WorkIsDone, Update!SwapPc, Update!UndoPc, Update!CleanupPc
<1>6. ASSUME Update!Sound PROVE Way'
    BY <1>1, <1>2, <1>3, <1>6, Marks
    DEF Way, Update!NoCutover, Update!Exact, Update!Whole, Update!WayBack, Update!WayOn,
    UpdateTypes, GuestRowT
<1>7. \A r \in Update!Run : run[r].state \in {"none", "pending"} => box'[r] = Update!Gone
    BY <1>1, <1>3, Marks DEF Update!RunsInOrder
<1>8. work' \in HeldT
    BY <1>1, <1>2 DEF UpdateTypes
<1> QED BY <1>2, <1>3, <1>4, <1>5, <1>6, <1>7, <1>8, BoxMoves

LEMMA OrphanSweepKeeps ==
    ASSUME Update!UpdateInv, NEW d \in Update!Box, Update!OrphanSweep(d)
    PROVE Update!UpdateInv'
<1>1. UpdateTypes /\ Update!RunsInOrder /\ Names /\ Update!WorkIsDone /\ (Update!Sound => Way)
    BY UpdateParts
<1>2. /\ work.pc = "none" /\ d # agent.container
      /\ UNCHANGED <<agent, off, run, dir, snap, work, writing, kept>>
    BY DEF Update!OrphanSweep, Update!Free
<1>3. /\ box' \in [Update!Box -> BoxT]
      /\ \A c \in Update!Box : box'[c] = IF c = d THEN Update!Gone ELSE box[c]
    BY <1>1 DEF Update!OrphanSweep, UpdateTypes, Update!Gone, BoxT
<1>4. Names'
    BY <1>1, <1>3 DEF Names, Update!Gone
<1>5. Update!WorkIsDone'
    BY <1>2 DEF Update!WorkIsDone, Update!SwapPc, Update!UndoPc, Update!CleanupPc
<1>6. ASSUME Update!Sound PROVE Way'
    BY <1>1, <1>2, <1>3, <1>6, Marks
    DEF Way, Update!NoCutover, Update!Exact, Update!Whole, Update!WayBack, Update!WayOn,
    UpdateTypes, GuestRowT, Update!Gone
<1>7. \A r \in Update!Run : run[r].state \in {"none", "pending"} => box'[r] = Update!Gone
    BY <1>1, <1>3, Marks DEF Update!RunsInOrder
<1>8. work' \in HeldT
    BY <1>1, <1>2 DEF UpdateTypes
<1> QED BY <1>2, <1>3, <1>4, <1>5, <1>6, <1>7, <1>8, BoxMoves

\* The daemon restarts: only what is not kept is gone down, at any step.
LEMMA DaemonRestartKeeps == ASSUME Update!UpdateInv, Update!DaemonRestart PROVE Update!UpdateInv'
<1>1. UpdateTypes /\ Update!RunsInOrder /\ Names /\ Update!WorkIsDone /\ (Update!Sound => Way)
    BY UpdateParts
<1>2. UNCHANGED <<agent, off, run, dir, snap, work, writing, kept>>
    BY DEF Update!DaemonRestart
<1>3. \A c \in Update!Box : box[c] \in BoxT
    BY <1>1 DEF UpdateTypes
<1>4. box' = [c \in Update!Box |-> [box[c] EXCEPT !.up = @ /\ box[c].keep]]
    BY DEF Update!DaemonRestart
<1>5. ASSUME NEW c \in Update!Box
      PROVE  /\ box'[c] \in BoxT
             /\ box'[c].name = box[c].name /\ box'[c].keep = box[c].keep
             /\ box'[c].up = (box[c].up /\ box[c].keep)
             /\ box'[c].up => box[c].up
             /\ box[c].up /\ box[c].keep => box'[c].up
             /\ box[c] = Update!Gone => box'[c] = Update!Gone
    BY <1>3, <1>4 DEF BoxT, Update!Gone
<1>6. box' \in [Update!Box -> BoxT]
    BY <1>4, <1>5
<1>7. Names'
    BY <1>1, <1>5 DEF Names
<1>8. Update!WorkIsDone'
  <2>1. ASSUME work.pc # "none" PROVE work.run \in Update!Run /\ work.run \in Update!Box /\ Update!R.old \in Update!Box
    BY <1>1, <2>1, Marks DEF Update!WorkIsDone, UpdateTypes, RunT, Update!R
  <2>2. Update!Named("canonical")' = Update!Named("canonical")
    BY <1>5 DEF Update!Named
  <2>3. Update!R' = Update!R
    BY <1>2 DEF Update!R
  <2>4. ASSUME work.pc # "none", NEW c \in {work.run, Update!R.old}
        PROVE  /\ box'[c].name = box[c].name /\ box'[c].keep = box[c].keep
               /\ ~box[c].up => ~box'[c].up
               /\ box[c].keep => box'[c].up = box[c].up
    <3>1. c \in Update!Box
        BY <2>1, <2>4
    <3>2. box[c].up \in BOOLEAN /\ box'[c].up = (box[c].up /\ box[c].keep)
        BY <1>3, <1>5, <3>1 DEF BoxT
    <3> QED BY <1>5, <3>1, <3>2
  <2> QED BY <1>1, <1>2, <1>5, <2>1, <2>2, <2>3, <2>4
          DEF Update!WorkIsDone, Update!SwapPc, Update!UndoPc, Update!CleanupPc
<1>9. ASSUME Update!Sound PROVE Way'
  <2>1. agent.container \in Update!Box
    BY <1>1 DEF UpdateTypes, GuestRowT
  <2> QED BY <1>1, <1>2, <1>5, <1>9, <2>1, Marks
          DEF Way, Update!NoCutover, Update!Exact, Update!Whole, Update!WayBack, Update!WayOn
<1>10. \A r \in Update!Run : run[r].state \in {"none", "pending"} => box'[r] = Update!Gone
    BY <1>1, <1>5, Marks DEF Update!RunsInOrder
<1>11. work' \in HeldT
    BY <1>1, <1>2 DEF UpdateTypes
<1> QED BY <1>2, <1>6, <1>7, <1>8, <1>9, <1>10, <1>11, BoxMoves

\* The snapshot is the directory as the old guest left it.
LEMMA SnapshotKeeps == ASSUME Update!UpdateInv, Update!Snapshot PROVE Update!UpdateInv'
<1>1. Update!At("snapshot", "create") /\ UNCHANGED <<agent, off, box, run, dir, writing, kept>>
    BY DEF Update!Snapshot
<1>2. /\ HolderGoes("snapshot", "create") /\ Update!NeverResurrected
      /\ UpdateTypes /\ Update!RunsInOrder /\ Names /\ Update!WorkIsDone /\ (Update!Sound => Way)
    BY <1>1, HeldGoes, UpdateParts DEF Update!SwapPc, UpdatePc
<1>3. /\ snap' \in [Update!Run -> Update!Directory] /\ snap'[work.run] = dir
      /\ \A r \in Update!Run : r # work.run => snap'[r] = snap[r]
    BY <1>2 DEF HolderGoes, Update!Snapshot, UpdateTypes
<1>4. UpdateTypes' /\ Names' /\ Update!NeverResurrected'
    BY <1>1, <1>2, <1>3 DEF HolderGoes, UpdateTypes, Names, Update!NeverResurrected
<1>5. Update!RunsInOrder'
    BY <1>1, <1>2, <1>3 DEF HolderGoes, Update!RunsInOrder, Update!Active
<1>6. Update!WorkIsDone'
    BY <1>1, <1>2 DEF HolderGoes, Update!WorkIsDone, Update!R, Update!SwapPc, Update!UndoPc,
       Update!CleanupPc
<1>7. ASSUME Update!Sound' PROVE Way'
  <2>1. Way
    BY <1>1, <1>2, <1>7 DEF Update!Sound
  <2>2. ~snap[work.run].has /\ ~box[agent.container].up
    BY <1>2 DEF HolderGoes, Update!WorkIsDone, Update!R
  <2>3. Update!Exact(dir)
    BY <1>2, <2>1, <2>2 DEF HolderGoes, Way, Update!WayBack
  <2>4. Update!Exact(dir)'
    BY <1>1, <2>3 DEF Update!Exact
  <2>5. Update!WayBack'
    BY <1>1, <1>2, <1>3, <2>2, <2>4 DEF HolderGoes, Update!WayBack, Update!Exact
  <2>6. Update!WayOn'
    BY <1>1, <1>2, <1>3, <2>1, <2>3 DEF HolderGoes, Way, Update!WayOn, Update!Exact, Update!SwapPc
  <2>7. ~Update!NoCutover'
    BY <1>1, <1>2 DEF HolderGoes, Update!NoCutover
  <2> QED BY <1>1, <2>1, <2>5, <2>6, <2>7 DEF Way
<1> QED BY <1>4, <1>5, <1>6, <1>7, UpdateParts

\* The snapshot of a published run goes.
LEMMA DropSnapshotKeeps == ASSUME Update!UpdateInv, Update!DropSnapshot PROVE Update!UpdateInv'
<1>1. UpdateTypes /\ Update!RunsInOrder /\ Names /\ Update!WorkIsDone /\ Update!NeverResurrected /\ (Update!Sound => Way)
    BY UpdateParts
<1>2. /\ work.pc = "drop_snapshot" /\ work' = Update!NoWork
      /\ UNCHANGED <<agent, off, box, run, dir, writing, kept>>
    BY DEF Update!DropSnapshot
<1>3. work' \in HeldT /\ work'.pc = "none"
    BY <1>2, Marks DEF Update!NoWork, Update!Work, HeldT, UpdatePc
<1>4. work.run \in Update!Run /\ run[work.run].state = "succeeded"
    BY <1>1, <1>2 DEF Update!WorkIsDone, Update!R, Update!CleanupPc
<1>5. /\ snap' \in [Update!Run -> Update!Directory]
      /\ \A r \in Update!Run : r # work.run => snap'[r] = snap[r]
    BY <1>1, <1>4 DEF Update!DropSnapshot, UpdateTypes, Update!NoDir, Update!Directory
<1>6. UpdateTypes' /\ Names' /\ Update!NeverResurrected'
    BY <1>1, <1>2, <1>3, <1>5 DEF UpdateTypes, Names, Update!NeverResurrected
<1>7. Update!RunsInOrder'
    BY <1>1, <1>2, <1>4, <1>5 DEF Update!RunsInOrder, Update!Active
<1>8. Update!WorkIsDone'
    BY <1>3 DEF Update!WorkIsDone, Update!SwapPc, Update!UndoPc, Update!CleanupPc
<1>9. Update!Sound' => Way'
    BY <1>1, <1>2, <1>3, <1>4, <1>5
    DEF Update!Sound, Way, Update!NoCutover, Update!Whole, Update!Exact, Update!WayBack,
    Update!WayOn, Update!SwapPc
<1> QED BY <1>6, <1>7, <1>8, <1>9, UpdateParts

\* The directory is moved aside only when its snapshot remains.
LEMMA UndoAsideKeeps == ASSUME Update!UpdateInv, Update!UndoAside PROVE Update!UpdateInv'
<1>1. Update!At("undo_aside", "undo_restore") /\ UNCHANGED <<agent, off, box, run, snap, writing, kept>>
    BY DEF Update!UndoAside
<1>2. /\ HolderGoes("undo_aside", "undo_restore") /\ Update!NeverResurrected
      /\ UpdateTypes /\ Update!RunsInOrder /\ Names /\ Update!WorkIsDone /\ (Update!Sound => Way)
    BY <1>1, HeldGoes, UpdateParts DEF Update!UndoPc, UpdatePc
<1>3. dir' \in Update!Directory /\ (~snap[work.run].has => dir' = dir)
    BY <1>2 DEF Update!UndoAside, UpdateTypes, Update!NoDir, Update!Directory
<1>4. UpdateTypes' /\ Names' /\ Update!NeverResurrected'
    BY <1>1, <1>2, <1>3 DEF HolderGoes, UpdateTypes, Names, Update!NeverResurrected
<1>5. Update!RunsInOrder'
    BY <1>1, <1>2 DEF Update!RunsInOrder, Update!Active
<1>6. Update!WorkIsDone'
    BY <1>1, <1>2 DEF HolderGoes, Update!WorkIsDone, Update!R, Update!Named, Update!SwapPc,
       Update!UndoPc, Update!CleanupPc
<1>7. Update!Sound' => Way'
    BY <1>1, <1>2, <1>3 DEF HolderGoes, Update!Sound, Way, Update!NoCutover, Update!Exact,
       Update!WayBack, Update!WayOn, Update!SwapPc
<1> QED BY <1>4, <1>5, <1>6, <1>7, UpdateParts

\* The snapshot, exact, becomes the directory.
LEMMA UndoRestoreKeeps == ASSUME Update!UpdateInv, Update!UndoRestore PROVE Update!UpdateInv'
<1>1. Update!At("undo_restore", "undo_name") /\ UNCHANGED <<agent, off, box, run, writing, kept>>
    BY DEF Update!UndoRestore
<1>2. /\ HolderGoes("undo_restore", "undo_name") /\ Update!NeverResurrected
      /\ UpdateTypes /\ Update!RunsInOrder /\ Names /\ Update!WorkIsDone /\ (Update!Sound => Way)
    BY <1>1, HeldGoes, UpdateParts DEF Update!UndoPc, UpdatePc
<1>3. /\ snap' \in [Update!Run -> Update!Directory] /\ ~snap'[work.run].has
      /\ \A r \in Update!Run : r # work.run => snap'[r] = snap[r]
      /\ dir' \in Update!Directory /\ dir' = IF snap[work.run].has THEN snap[work.run] ELSE dir
  <2>1. work.run \in Update!Run /\ Update!NoDir \in Update!Directory /\ ~Update!NoDir.has
    BY <1>2 DEF HolderGoes, Update!NoDir, Update!Directory
  <2>2. CASE snap[work.run].has
    BY <1>2, <2>1, <2>2 DEF Update!UndoRestore, UpdateTypes
  <2>3. CASE ~snap[work.run].has
    BY <1>2, <2>1, <2>3 DEF Update!UndoRestore, UpdateTypes
  <2> QED BY <2>2, <2>3
<1>4. UpdateTypes' /\ Names' /\ Update!NeverResurrected'
    BY <1>1, <1>2, <1>3 DEF HolderGoes, UpdateTypes, Names, Update!NeverResurrected
<1>5. Update!RunsInOrder'
    BY <1>1, <1>2, <1>3 DEF HolderGoes, Update!RunsInOrder, Update!Active
<1>6. Update!WorkIsDone'
    BY <1>1, <1>2, <1>3 DEF HolderGoes, Update!WorkIsDone, Update!R, Update!Named, Update!SwapPc,
       Update!UndoPc, Update!CleanupPc
<1>7. ASSUME Update!Sound' PROVE Way'
  <2>1. Way
    BY <1>1, <1>2, <1>7 DEF Update!Sound
  <2>2. box[work.run].name # "canonical"
    BY <1>2 DEF HolderGoes, Update!WorkIsDone, Update!R, Update!Named, Update!UndoPc
  <2>3. Update!Exact(dir)'
    BY <1>1, <1>2, <1>3, <2>1 DEF HolderGoes, Way, Update!WayBack, Update!Exact
  <2>4. Update!WayBack'
    BY <1>1, <1>2, <1>3, <2>2, <2>3 DEF HolderGoes, Update!WayBack
  <2>5. Update!WayOn'
    BY <1>2 DEF HolderGoes, Update!WayOn, Update!SwapPc
  <2>6. ~Update!NoCutover'
    BY <1>1, <1>2 DEF HolderGoes, Update!NoCutover
  <2> QED BY <1>1, <2>1, <2>4, <2>5, <2>6 DEF Way
<1> QED BY <1>4, <1>5, <1>6, <1>7, UpdateParts

\* A user's write is finished: no cutover is under way.
LEMMA EndWriteKeeps ==
    ASSUME Update!UpdateInv, NEW n \in Update!Write, Update!EndWrite(n)
    PROVE Update!UpdateInv'
<1>1. UpdateTypes /\ Update!RunsInOrder /\ Names /\ Update!WorkIsDone /\ Update!NeverResurrected /\ (Update!Sound => Way)
    BY UpdateParts
<1>2. /\ writing /\ writing' = FALSE
      /\ dir' = [has |-> TRUE, of |-> dir.of \cup {n}] /\ kept' = kept \cup {n}
      /\ UNCHANGED <<agent, off, box, run, snap, work>>
    BY DEF Update!EndWrite
<1>3. work.pc = "none"
    BY <1>1, <1>2 DEF Update!WorkIsDone, UpdateTypes, HeldT
<1>4. UpdateTypes' /\ Names' /\ Update!NeverResurrected'
  <2>1. n \in Update!Writing /\ dir.of \subseteq Update!Writing /\ kept \subseteq Update!Writing
    BY <1>1 DEF UpdateTypes, Update!Directory, Update!Writing
  <2>2. dir' \in Update!Directory /\ kept' \subseteq Update!Writing
    BY <1>2, <2>1 DEF Update!Directory
  <2> QED BY <1>1, <1>2, <2>2 DEF UpdateTypes, Names, Update!NeverResurrected
<1>5. Update!RunsInOrder'
    BY <1>1, <1>2 DEF Update!RunsInOrder, Update!Active
<1>6. Update!WorkIsDone'
    BY <1>2, <1>3 DEF Update!WorkIsDone, Update!SwapPc, Update!UndoPc, Update!CleanupPc
<1>7. ASSUME Update!Sound' PROVE Way'
  <2>1. Way
    BY <1>1, <1>2, <1>7 DEF Update!Sound
  <2>2. Update!NoCutover /\ Update!NoCutover'
    BY <1>1, <1>2 DEF Update!RunsInOrder, Update!NoCutover
  <2>3. Update!Exact(dir)'
    BY <1>2, <2>1, <2>2, Marks DEF Way, Update!Exact
  <2>4. Update!WayBack' /\ Update!WayOn'
    BY <1>2, <1>3, <2>2 DEF Update!NoCutover, Update!WayBack, Update!WayOn, Update!SwapPc
  <2> QED BY <1>2, <2>1, <2>2, <2>3, <2>4 DEF Way, Update!Whole
<1> QED BY <1>4, <1>5, <1>6, <1>7, UpdateParts

\* A guest that is up writes: it is the agent's own, or the new one of a
\* cutover whose snapshot is already made.
LEMMA GuestWritesKeeps ==
    ASSUME Update!UpdateInv, NEW c \in Update!Box, Update!GuestWrites(c)
    PROVE Update!UpdateInv'
<1>1. UpdateTypes /\ Update!RunsInOrder /\ Names /\ Update!WorkIsDone /\ Update!NeverResurrected /\ (Update!Sound => Way)
    BY UpdateParts
<1>2. /\ box[c].up /\ dir.has /\ UNCHANGED <<agent, off, box, run, snap, work, writing>>
      /\ dir' = [dir EXCEPT !.of = @ \cup {Update!Of(c)}]
      /\ kept' = IF c = agent.container THEN kept \cup {Update!Of(c)} ELSE kept
    BY DEF Update!GuestWrites
<1>3. Update!Of(c) \in Update!Writing /\ dir \in Update!Directory /\ kept \subseteq Update!Writing
    BY <1>1, Marks DEF UpdateTypes
<1>4. dir' \in Update!Directory /\ dir'.has = dir.has /\ dir'.of = dir.of \cup {Update!Of(c)}
    BY <1>2, <1>3 DEF Update!Directory
<1>5. UpdateTypes' /\ Names' /\ Update!NeverResurrected'
    BY <1>1, <1>2, <1>3, <1>4 DEF UpdateTypes, Names, Update!NeverResurrected
<1>6. Update!RunsInOrder'
    BY <1>1, <1>2 DEF Update!RunsInOrder, Update!Active
<1>7. Update!WorkIsDone'
    BY <1>1, <1>2 DEF Update!WorkIsDone, Update!R, Update!Named
<1>8. ASSUME Update!Sound' PROVE Way'
  <2>1. Way /\ agent.container \in Update!Box
    BY <1>1, <1>2, <1>8 DEF Update!Sound, UpdateTypes, GuestRowT
  <2>2. c = agent.container \/ (c \in Update!Run /\ run[c].state = "cutover")
    BY <1>1, <1>2, <2>1, Marks DEF Names, Way
  <2>3. kept' \subseteq kept \cup {Update!Of(c)} /\ (c # agent.container => kept' = kept)
    BY <1>2
  <2>4. \A r \in Update!Run : run[r].state # "succeeded" => r # agent.container
    BY <1>1, Marks DEF Update!RunsInOrder
  <2>5. \A r \in Update!Run : r # c => Update!Of(r) # Update!Of(c)
    BY Marks
  <2>6. ASSUME Update!Exact(dir), c = agent.container PROVE Update!Exact(dir)'
    BY <1>2, <1>4, <2>3, <2>4, <2>5, <2>6 DEF Update!Exact
  <2>7. Update!WayBack'
    <3>1. SUFFICES ASSUME NEW r \in Update!Run, run[r].state = "cutover"
                   PROVE  IF snap[r].has THEN Update!Exact(snap[r])' /\ ~box[agent.container].up
                          ELSE Update!Exact(dir)' /\ box[r].name # "canonical"
      BY <1>2 DEF Update!WayBack, Update!Exact
    <3>2. CASE snap[r].has
      <4>1. Update!Exact(snap[r]) /\ ~box[agent.container].up
        BY <2>1, <3>1, <3>2 DEF Way, Update!WayBack
      <4>2. kept' = kept
        BY <1>2, <4>1
      <4> QED BY <1>2, <3>2, <4>1, <4>2 DEF Update!Exact
    <3>3. CASE ~snap[r].has
      <4>1. Update!Exact(dir) /\ box[r].name # "canonical"
        BY <2>1, <3>1, <3>3 DEF Way, Update!WayBack
      <4>2. box[c].name = "canonical"
        BY <1>1, <1>2 DEF Names
      <4>3. c = agent.container
        BY <1>1, <2>2, <3>1, <4>1, <4>2 DEF Update!RunsInOrder, Update!Active
      <4> QED BY <2>6, <3>3, <4>1, <4>3
    <3> QED BY <3>2, <3>3
  <2>8. Update!WayOn'
    <3>1. SUFFICES ASSUME work.pc \in Update!SwapPc
                   PROVE  /\ dir'.has /\ kept' \subseteq dir'.of
                          /\ \A r \in Update!Run \ {work.run} : run[r].state # "succeeded" => Update!Of(r) \notin dir'.of
      BY <1>2, <2>1 DEF Update!WayOn, Way, Update!SwapPc
    <3>2. c = agent.container \/ c = work.run
      BY <2>2, <3>1, HeldRun
    <3> QED BY <1>2, <1>4, <2>1, <2>3, <2>4, <2>5, <3>1, <3>2 DEF Way, Update!WayOn
  <2>9. Update!NoCutover' => Update!Whole' /\ Update!Exact(dir)'
    BY <1>2, <2>1, <2>2, <2>6 DEF Way, Update!NoCutover, Update!Whole
  <2> QED BY <1>2, <2>1, <2>7, <2>8, <2>9 DEF Way
<1> QED BY <1>5, <1>6, <1>7, <1>8, UpdateParts

\* The agent is disabled.
LEMMA DisableKeeps == ASSUME Update!UpdateInv, Update!Disable PROVE Update!UpdateInv'
<1>1. UpdateTypes /\ Update!RunsInOrder /\ Names /\ Update!WorkIsDone /\ (Update!Sound => Way)
    BY UpdateParts
<1>2. /\ agent' \in GuestRowT /\ agent'.status = "stopped" /\ agent'.container = agent.container
      /\ UNCHANGED <<box, run, dir, snap, work, writing, kept>> /\ off' \in BOOLEAN
    BY <1>1 DEF Update!Disable, UpdateTypes, GuestRowT
<1>3. UpdateTypes' /\ Names' /\ Update!NeverResurrected'
    BY <1>1, <1>2 DEF UpdateTypes, Names, Update!NeverResurrected
<1>4. Update!RunsInOrder'
    BY <1>1, <1>2 DEF Update!RunsInOrder, Update!Active
<1>5. Update!WorkIsDone'
    BY <1>1, <1>2 DEF Update!WorkIsDone, Update!R, Update!Named
<1>6. Update!Sound' => Way'
    BY <1>1, <1>2 DEF Update!Sound, Way, Update!NoCutover, Update!Exact, Update!Whole,
       Update!WayBack, Update!WayOn
<1> QED BY <1>3, <1>4, <1>5, <1>6, UpdateParts

\* A rollback that fails marks the agent.
LEMMA UndoFailsKeeps == ASSUME Update!UpdateInv, Update!UndoFails PROVE Update!UpdateInv'
<1>1. /\ UpdateTypes /\ Update!RunsInOrder /\ Names /\ Update!WorkIsDone /\ Update!NeverResurrected /\ (Update!Sound => Way)
      /\ work.pc \in Update!UndoPc /\ UNCHANGED <<off, box, run, dir, snap, writing, kept>>
    BY UpdateParts DEF Update!UndoFails, Update!UndoPc
<1>2. /\ agent' \in GuestRowT /\ agent'.status = "error" /\ agent'.container = agent.container
      /\ work' \in HeldT /\ work'.pc = "give_up" /\ work'.run = work.run
    BY <1>1 DEF Update!UndoFails, UpdateTypes, GuestRowT, HeldT, UpdatePc, Update!UndoPc
<1>3. work.run \in Update!Run /\ run[work.run].state = "cutover" /\ ~writing
    BY <1>1, HeldRun
<1>4. UpdateTypes' /\ Names' /\ Update!NeverResurrected'
    BY <1>1, <1>2 DEF UpdateTypes, Names, Update!NeverResurrected
<1>5. Update!RunsInOrder'
    BY <1>1, <1>2 DEF Update!RunsInOrder, Update!Active
<1>6. Update!WorkIsDone'
    BY <1>1, <1>2, <1>3 DEF Update!WorkIsDone, Update!R, Update!SwapPc, Update!UndoPc,
       Update!CleanupPc
<1>7. Update!Sound' => Way'
    BY <1>1, <1>2, <1>3 DEF Update!Sound, Way, Update!NoCutover, Update!Exact, Update!WayBack,
       Update!WayOn, Update!SwapPc
<1> QED BY <1>4, <1>5, <1>6, <1>7, UpdateParts

\* Publication: the agent gets the new container and the run has succeeded, or
\* the cutover is rolled back.
LEMMA PublishKeeps == ASSUME Update!UpdateInv, Update!Publish PROVE Update!UpdateInv'
<1>1. UpdateTypes /\ Update!RunsInOrder /\ Names /\ Update!WorkIsDone /\ Update!NeverResurrected /\ (Update!Sound => Way)
    BY UpdateParts
<1>2. work.pc = "publish" /\ UNCHANGED <<off, box, dir, snap, writing>>
    BY DEF Update!Publish
<1>3. /\ work.run \in Update!Run /\ work.run \in Update!Box /\ run[work.run].state = "cutover" /\ ~writing
      /\ run[work.run].old = agent.container /\ agent.container \in Update!Box /\ agent.container # work.run
      /\ \A r \in Update!Run : run[r].state = "cutover" => r = work.run
      /\ \A r \in Update!Run : run[r].state \in {"none", "pending"} => r # agent.container /\ r # work.run
    BY <1>2, HeldRun DEF Update!SwapPc
<1>4. CASE ~(agent.container = Update!R.old /\ agent.status = work.was /\ ~off)
  <2>1. /\ work' \in HeldT /\ work'.pc = "undo_writers" /\ work'.run = work.run
        /\ UNCHANGED <<agent, run, kept>>
    BY <1>1, <1>4 DEF Update!Publish, UpdateTypes, HeldT, UpdatePc, Update!UndoPc
  <2>2. Update!WorkIsDone'
    BY <1>2, <1>3, <2>1 DEF Update!WorkIsDone, Update!R, Update!SwapPc, Update!UndoPc,
       Update!CleanupPc
  <2> QED BY <1>1, <1>2, <2>1, <2>2, OnlyWorkMoves DEF Update!SwapPc, UpdateTypes
<1>5. CASE agent.container = Update!R.old /\ agent.status = work.was /\ ~off
  <2>1. /\ agent' = [agent EXCEPT !.container = work.run]
        /\ run' = [run EXCEPT ![work.run].state = "succeeded"]
        /\ kept' = kept \cup (dir.of \cap {Update!Of(work.run)})
        /\ work' = [work EXCEPT !.pc = "drop_old"]
    BY <1>5 DEF Update!Publish
  <2>2. /\ agent' \in GuestRowT /\ agent'.status = agent.status /\ agent'.container = work.run
        /\ work' \in HeldT /\ work'.pc = "drop_old" /\ work'.run = work.run
    BY <1>1, <1>3, <2>1 DEF UpdateTypes, GuestRowT, HeldT, UpdatePc, Update!CleanupPc
  <2>3. /\ run' \in [Update!Run -> RunT] /\ run'[work.run].state = "succeeded"
        /\ \A r \in Update!Run :
              /\ run'[r].code = run[r].code /\ run'[r].old = run[r].old
              /\ r # work.run => run'[r] = run[r]
    BY <1>1, <1>3, <2>1 DEF UpdateTypes, RunT
  <2>4. UpdateTypes' /\ Names' /\ Update!NeverResurrected'
    <3>1. kept' \subseteq Update!Writing
      BY <1>1, <2>1 DEF UpdateTypes, Update!Directory
    <3> QED BY <1>1, <1>2, <2>2, <2>3, <3>1 DEF UpdateTypes, Names, Update!NeverResurrected
  <2>5. Update!RunsInOrder'
    BY <1>1, <1>2, <1>3, <2>2, <2>3 DEF Update!RunsInOrder, Update!Active
  <2>6. Update!WorkIsDone'
    BY <1>2, <1>3, <2>2, <2>3 DEF Update!WorkIsDone, Update!R, Update!SwapPc, Update!UndoPc,
       Update!CleanupPc
  <2>7. ASSUME Update!Sound' PROVE Way'
    <3>1. Way
      BY <1>1, <2>3, <2>7 DEF Update!Sound
    <3>2. /\ box[work.run].name = "canonical" /\ box[work.run].keep
          /\ box[work.run].up = (work.was # "stopped")
      BY <1>1, <1>2 DEF Update!WorkIsDone
    <3>3. \A c \in Update!Box : box[c].name = "canonical" => c = work.run
      BY <1>1, <1>3, <3>2 DEF Names
    <3>4. Update!Whole'
      BY <1>2, <1>5, <2>2, <3>2 DEF Update!Whole
    <3>5. /\ dir.has /\ kept \subseteq dir.of
          /\ \A r \in Update!Run \ {work.run} : run[r].state # "succeeded" => Update!Of(r) \notin dir.of
      BY <1>2, <3>1 DEF Way, Update!WayOn, Update!SwapPc
    <3>6. Update!Exact(dir)'
      BY <1>2, <2>1, <2>3, <3>5 DEF Update!Exact
    <3>7. Update!NoCutover'
      BY <1>3, <2>3 DEF Update!NoCutover
    <3>8. Update!WayBack' /\ Update!WayOn'
      BY <2>2, <3>7 DEF Update!NoCutover, Update!WayBack, Update!WayOn, Update!SwapPc
    <3> QED BY <1>2, <2>2, <3>3, <3>4, <3>6, <3>8 DEF Way
  <2> QED BY <2>4, <2>5, <2>6, <2>7, UpdateParts
<1> QED BY <1>4, <1>5

\* The run of the rollback fails.
LEMMA FailedRun ==
    ASSUME Update!UpdateInv, work.pc \in Update!UndoPc,
           NEW code \in {"none", "interrupted", "cutover_failed", "publish_conflict", "rollback_failed"},
           run' = Update!FinishFailed(code)
    PROVE  /\ work.run \in Update!Run
           /\ run' \in [Update!Run -> RunT] /\ run'[work.run].state = "failed" /\ run'[work.run].code = code
           /\ \A r \in Update!Run :
                 /\ run'[r].old = run[r].old
                 /\ r # work.run => run'[r] = run[r]
<1>1. UpdateTypes
    BY UpdateParts
<1>2. work.run \in Update!Run /\ run[work.run].state = "cutover"
    BY HeldRun
<1>3. run' = [run EXCEPT ![work.run].state = "failed", ![work.run].code = code]
    BY <1>2 DEF Update!FinishFailed, Update!Active
<1> QED BY <1>1, <1>2, <1>3 DEF UpdateTypes, RunT

LEMMA UndoDoneKeeps == ASSUME Update!UpdateInv, Update!UndoDone PROVE Update!UpdateInv'
<1>1. UpdateTypes /\ Update!RunsInOrder /\ Names /\ Update!WorkIsDone /\ Update!NeverResurrected /\ (Update!Sound => Way)
    BY UpdateParts
<1>2. work.pc = "undo_done" /\ work' = Update!NoWork /\ UNCHANGED <<agent, off, box, dir, writing, kept>>
    BY DEF Update!UndoDone
<1>3. /\ work.run \in Update!Run /\ work.run \in Update!Box /\ run[work.run].state = "cutover" /\ ~writing
      /\ run[work.run].old = agent.container /\ agent.container \in Update!Box /\ agent.container # work.run
      /\ \A r \in Update!Run : run[r].state = "cutover" => r = work.run
      /\ \A r \in Update!Run : run[r].state \in {"none", "pending"} => r # agent.container /\ r # work.run
    BY <1>2, HeldRun DEF Update!UndoPc
<1>4. work.code \in {"none", "interrupted", "cutover_failed", "publish_conflict"}
    BY <1>1 DEF UpdateTypes, HeldT
<1>5. /\ run' \in [Update!Run -> RunT] /\ run'[work.run].state = "failed" /\ run'[work.run].code = work.code
      /\ \A r \in Update!Run :
            /\ run'[r].old = run[r].old
            /\ r # work.run => run'[r] = run[r]
    BY <1>2, <1>4, FailedRun DEF Update!UndoDone, Update!UndoPc
<1>6. work' \in HeldT /\ work'.pc = "none"
    BY <1>2, Marks DEF Update!NoWork, Update!Work, HeldT, UpdatePc
<1>7. /\ snap' \in [Update!Run -> Update!Directory]
      /\ \A r \in Update!Run : r # work.run => snap'[r] = snap[r]
    BY <1>1, <1>3 DEF Update!UndoDone, UpdateTypes, Update!NoDir, Update!Directory
<1>8. UpdateTypes' /\ Names' /\ Update!NeverResurrected'
    BY <1>1, <1>2, <1>5, <1>6, <1>7 DEF UpdateTypes, Names, Update!NeverResurrected
<1>9. Update!RunsInOrder'
    BY <1>1, <1>2, <1>3, <1>5, <1>7, Marks DEF Update!RunsInOrder, Update!Active
<1>10. Update!WorkIsDone'
    BY <1>6 DEF Update!WorkIsDone, Update!SwapPc, Update!UndoPc, Update!CleanupPc
<1>11. ASSUME Update!Sound' PROVE Way'
  <2>1. Update!Sound
    BY <1>1, <1>3, <1>5, <1>11 DEF Update!Sound, Update!RunsInOrder
  <2>2. Way
    BY <1>1, <2>1
  <2>3. /\ box[agent.container].name = "canonical" /\ box[agent.container].keep
        /\ agent.status = "running" => box[agent.container].up
        /\ ~snap[work.run].has
        /\ \A c \in Update!Box : box[c].name = "canonical" => c = agent.container
    BY <1>1, <1>2, <1>3 DEF Update!WorkIsDone, Update!R, Update!Named, Update!UndoPc
  <2>4. Update!Whole'
    BY <1>2, <2>3 DEF Update!Whole
  <2>5. Update!Exact(dir)
    BY <1>3, <2>2, <2>3 DEF Way, Update!WayBack
  <2>6. Update!Exact(dir)'
    BY <1>2, <1>3, <1>5, <2>5 DEF Update!Exact
  <2>7. Update!NoCutover'
    BY <1>3, <1>5 DEF Update!NoCutover
  <2>8. Update!WayBack' /\ Update!WayOn'
    BY <1>6, <2>7 DEF Update!NoCutover, Update!WayBack, Update!WayOn, Update!SwapPc
  <2> QED BY <1>2, <2>3, <2>4, <2>6, <2>8 DEF Way
<1> QED BY <1>8, <1>9, <1>10, <1>11, UpdateParts

LEMMA GiveUpKeeps == ASSUME Update!UpdateInv, Update!GiveUp PROVE Update!UpdateInv'
<1>1. UpdateTypes /\ Update!RunsInOrder /\ Names /\ Update!WorkIsDone /\ Update!NeverResurrected
    BY UpdateParts
<1>2. work.pc = "give_up" /\ work' = Update!NoWork /\ UNCHANGED <<agent, off, box, dir, snap, writing, kept>>
    BY DEF Update!GiveUp
<1>3. /\ \A r \in Update!Run : run[r].state = "cutover" => r = work.run
      /\ \A r \in Update!Run : run[r].state \in {"none", "pending"} => r # agent.container /\ r # work.run
      /\ agent.container # work.run
    BY <1>2, HeldRun DEF Update!UndoPc
<1>4. /\ work.run \in Update!Run
      /\ run' \in [Update!Run -> RunT] /\ run'[work.run].state = "failed" /\ run'[work.run].code = "rollback_failed"
      /\ \A r \in Update!Run :
            /\ run'[r].old = run[r].old
            /\ r # work.run => run'[r] = run[r]
    BY <1>2, FailedRun DEF Update!GiveUp, Update!UndoPc
<1>5. work' \in HeldT /\ work'.pc = "none"
    BY <1>2, Marks DEF Update!NoWork, Update!Work, HeldT, UpdatePc
<1>6. UpdateTypes' /\ Names' /\ Update!NeverResurrected'
    BY <1>1, <1>2, <1>4, <1>5 DEF UpdateTypes, Names, Update!NeverResurrected
<1>7. Update!RunsInOrder'
    BY <1>1, <1>2, <1>3, <1>4, Marks DEF Update!RunsInOrder, Update!Active, UpdateTypes, GuestRowT
<1>8. Update!WorkIsDone'
    BY <1>5 DEF Update!WorkIsDone, Update!SwapPc, Update!UndoPc, Update!CleanupPc
<1>9. ~Update!Sound'
    BY <1>4 DEF Update!Sound
<1> QED BY <1>6, <1>7, <1>8, <1>9, UpdateParts

\* In the initial states no run has begun.
LEMMA UpdateInitInv == Update!Init => Update!UpdateInv
<1> SUFFICES ASSUME Update!Init PROVE Update!UpdateInv
    OBVIOUS
<1>1. PICK s \in {"running", "stopped"} :
          /\ agent = [status |-> s, container |-> 0]
          /\ box = [c \in Update!Box |-> IF c = 0 THEN [name |-> "canonical", up |-> s = "running", keep |-> TRUE]
                                  ELSE Update!Gone]
    BY DEF Update!Init
<1>2. /\ off = FALSE /\ dir = [has |-> TRUE, of |-> {}] /\ writing = FALSE /\ kept = {}
      /\ run = [r \in Update!Run |-> [state |-> "none", code |-> "none", old |-> 0, new |-> 0]]
      /\ snap = [r \in Update!Run |-> Update!NoDir] /\ work = Update!NoWork
    BY DEF Update!Init
<1>3. agent \in GuestRowT /\ agent.container = 0 /\ agent.status = s
    BY <1>1, Marks DEF GuestRowT
<1>4. /\ \A c \in Update!Box : box[c] \in BoxT /\ (c # 0 => box[c] = Update!Gone)
      /\ box[0].name = "canonical" /\ box[0].keep /\ (box[0].up <=> s = "running")
    BY <1>1, Marks DEF BoxT, Update!Gone
<1>5. box \in [Update!Box -> BoxT]
    BY <1>1, <1>4
<1>6. /\ run \in [Update!Run -> RunT]
      /\ \A r \in Update!Run : run[r].state = "none" /\ run[r].code = "none"
    BY <1>2, Marks DEF RunT
<1>7. snap \in [Update!Run -> Update!Directory] /\ \A r \in Update!Run : snap[r] = Update!NoDir
    BY <1>2 DEF Update!NoDir, Update!Directory
<1>8. work \in HeldT /\ work.pc = "none"
    BY <1>2, Marks DEF Update!NoWork, Update!Work, HeldT, UpdatePc
<1>9. UpdateTypes
    BY <1>2, <1>3, <1>5, <1>6, <1>7, <1>8 DEF UpdateTypes, Update!Directory
<1>10. Update!RunsInOrder
    BY <1>3, <1>4, <1>6, <1>7, Marks DEF Update!RunsInOrder, Update!Active
<1>11. Names
    BY <1>4 DEF Names, Update!Gone
<1>12. Update!WorkIsDone /\ Update!NeverResurrected
    BY <1>2, <1>8 DEF Update!WorkIsDone, Update!NeverResurrected, Update!SwapPc, Update!UndoPc,
       Update!CleanupPc
<1>13. Way
  <2>1. Update!Exact(dir)
    BY <1>2 DEF Update!Exact
  <2>2. Update!WayBack /\ Update!WayOn
    BY <1>6, <1>8 DEF Update!WayBack, Update!WayOn, Update!SwapPc
  <2> QED BY <1>3, <1>4, <2>1, <2>2 DEF Way, Update!Whole, Update!Gone
<1> QED BY <1>9, <1>10, <1>11, <1>12, <1>13, UpdateParts

\* Every step preserves the invariant.
LEMMA UpdateStepInv == ASSUME Update!UpdateInv, [Update!Next]_Update!vars PROVE Update!UpdateInv'
<1>1. CASE UNCHANGED Update!vars
    BY <1>1 DEF Update!vars, Update!UpdateInv, Update!TypeOK, Update!RunsInOrder, Update!OneName,
       Update!WorkIsDone, Update!NeverResurrected,
                Update!Sound, Update!NoCutover, Update!Whole, Update!Exact, Update!WayBack,
                Update!WayOn, Update!Named, Update!R, Update!Active
<1>2. CASE Update!Crash
    BY <1>2, CrashKeeps
<1>3. CASE Update!Swap \/ Update!SwapFails
    BY <1>3, PolicyKeeps, StopOldKeeps, ParkKeeps, SnapshotKeeps, CreateKeeps, SetJournalKeeps,
       ReadyKeeps,
       PublishKeeps, SwapFailsKeeps DEF Update!Swap
<1>4. CASE Update!Cleanup \/ Update!DropOldFails
    BY <1>4, DropOldKeeps, DropSnapshotKeeps, DropOldFailsKeeps DEF Update!Cleanup
<1>5. CASE Update!Undo \/ Update!UndoFails \/ Update!GiveUp
    BY <1>5, UndoWritersKeeps, UndoStopKeeps, UndoAsideKeeps, UndoRestoreKeeps, UndoNameKeeps,
       UndoStartKeeps,
       UndoDoneKeeps, UndoFailsKeeps, GiveUpKeeps DEF Update!Undo
<1>6. ASSUME NEW r \in Update!Run,
             Update!Request(r) \/ Update!PullFails(r) \/ Update!BeginCutover(r) \/ Update!Interrupted(r) \/ Update!SweepArtifacts(r)
      PROVE  Update!UpdateInv'
  <2>1. CASE Update!PullFails(r)
      BY <2>1, PendingFailsKeeps DEF Update!PullFails
  <2> QED BY <1>6, <2>1, UpgradeRequestKeeps, BeginCutoverKeeps, InterruptedKeeps, SweepArtifactsKeeps
<1>7. CASE Update!BeginWrite \/ Update!WriteFails \/ \E n \in Update!Write : Update!EndWrite(n)
    BY <1>7, WritesKeeps, EndWriteKeeps
<1>8. CASE \E c \in Update!Box : Update!GuestWrites(c) \/ Update!OrphanSweep(c)
    BY <1>8, GuestWritesKeeps, OrphanSweepKeeps
<1>9. CASE Update!Disable \/ Update!StopSweep \/ Update!DaemonRestart
    BY <1>9, DisableKeeps, StopSweepKeeps, DaemonRestartKeeps
<1> QED BY <1>1, <1>2, <1>3, <1>4, <1>5, <1>6, <1>7, <1>8, <1>9 DEF Update!Next, Update!Alive

\* The inductive invariant, whatever crashes, fails or restarts.
THEOREM UpdateInvariant == Update!Spec => []Update!UpdateInv
BY UpdateInitInv, UpdateStepInv, PTL DEF Update!Spec


\* The agent's own container exists; it is only parked when the new one takes
\* the name.
OwnStays ==
    /\ box[agent.container].name # "none"
    /\ work.pc \in {"snapshot", "create"} => box[agent.container].name = "parked"

\* Only the steps that move containers, the work or the agent matter to it.
LEMMA OwnStaysStep ==
    ASSUME Update!UpdateInv, Update!UpdateInv', OwnStays, [Update!Next]_Update!vars
    PROVE OwnStays'
<1>1. /\ UpdateTypes /\ UpdateTypes' /\ Update!WorkIsDone
      /\ agent.container \in Update!Box /\ box \in [Update!Box -> BoxT] /\ work \in HeldT
    BY UpdateParts DEF UpdateTypes, GuestRowT
<1>2. ASSUME agent' = agent, box'[agent.container].name = box[agent.container].name,
             work'.pc \notin {"snapshot", "create"} \/ work' = work
      PROVE  OwnStays'
    BY <1>2 DEF OwnStays
<1>3. CASE Update!Park
  <2>1. box'[agent.container].name = "parked" /\ agent' = agent
    BY <1>1, <1>3, HeldGoes DEF Update!Park, HolderGoes, Update!R, Update!SwapPc, UpdatePc, BoxT
  <2> QED BY <2>1 DEF OwnStays
<1>4. CASE Update!Snapshot
    BY <1>4 DEF OwnStays, Update!Snapshot, Update!At
<1>5. CASE Update!Create
  <2>1. Update!At("create", "journal") /\ agent' = agent /\ box[agent.container].name = "parked"
    BY <1>5 DEF Update!Create, Update!At, OwnStays
  <2>2. HolderGoes("create", "journal")
    BY <2>1, HeldGoes DEF Update!SwapPc, UpdatePc
  <2>3. box'[agent.container] = box[agent.container]
    BY <1>5, <2>1, <2>2 DEF Update!Create, HolderGoes, Update!Named
  <2> QED BY <1>2, <2>1, <2>2, <2>3 DEF HolderGoes
<1>6. CASE Update!Publish
  <2>1. work.pc = "publish" /\ box' = box /\ box[work.run].name = "canonical"
    BY <1>1, <1>6 DEF Update!Publish, Update!WorkIsDone
  <2>2. work'.pc \notin {"snapshot", "create"}
    BY <1>1, <1>6 DEF Update!Publish, HeldT
  <2>3. agent'.container \in {agent.container, work.run}
    BY <1>1, <1>6 DEF Update!Publish, UpdateTypes, GuestRowT
  <2> QED BY <2>1, <2>2, <2>3 DEF OwnStays
<1>7. CASE Update!Policy \/ Update!StopOld \/ Update!SetJournal \/ Update!Ready
  <2>1. /\ agent' = agent /\ work'.pc \notin {"snapshot", "create"}
        /\ \A c \in Update!Box : box'[c].name = box[c].name
    BY <1>1, <1>7 DEF Update!Policy, Update!StopOld, Update!SetJournal, Update!Ready, Update!At,
       HeldT, BoxT
  <2> QED BY <1>1, <1>2, <2>1
<1>8. CASE Update!UndoWriters
  <2>1. Update!At("undo_writers", "undo_stop") /\ agent' = agent
    BY <1>8 DEF Update!UndoWriters
  <2>2. HolderGoes("undo_writers", "undo_stop")
    BY <2>1, HeldGoes DEF Update!UndoPc, UpdatePc
  <2>3. box'[agent.container] = box[agent.container]
    BY <1>8, <2>2 DEF Update!UndoWriters, Update!Writers, HolderGoes, Update!R
  <2> QED BY <1>2, <2>1, <2>2, <2>3 DEF HolderGoes
<1>9. CASE Update!UndoName
  <2>1. Update!At("undo_name", "undo_start") /\ agent' = agent
    BY <1>9 DEF Update!UndoName
  <2>2. HolderGoes("undo_name", "undo_start")
    BY <2>1, HeldGoes DEF Update!UndoPc, UpdatePc
  <2>3. box'[agent.container].name = "canonical"
    BY <1>1, <1>9, <2>2 DEF Update!UndoName, HolderGoes, Update!R, BoxT
  <2> QED BY <2>1, <2>2, <2>3 DEF OwnStays, HolderGoes
<1>10. CASE Update!UndoStop \/ Update!UndoAside \/ Update!UndoRestore \/ Update!UndoStart \/ Update!UndoDone
  <2>1. /\ agent' = agent /\ work'.pc \notin {"snapshot", "create"}
        /\ \A c \in Update!Box : box'[c].name = box[c].name
    BY <1>1, <1>10 DEF Update!UndoStop, Update!UndoAside, Update!UndoRestore, Update!UndoStart,
       Update!UndoDone, Update!At, Update!NoWork, Update!Work, HeldT, BoxT
  <2> QED BY <1>1, <1>2, <2>1
<1>11. CASE Update!DropOld
  <2>1. agent' = agent /\ work'.pc = "drop_snapshot"
    BY <1>1, <1>11 DEF Update!DropOld, Update!At, HeldT
  <2>2. box'[agent.container] = box[agent.container]
    BY <1>1, <1>11 DEF Update!DropOld
  <2> QED BY <1>2, <2>1, <2>2
<1>12. CASE Update!SwapFails \/ Update!UndoFails \/ Update!GiveUp \/ Update!DropOldFails \/ Update!DropSnapshot \/ Update!Disable \/ Update!Crash
  <2>1. /\ box' = box /\ agent'.container = agent.container
        /\ work'.pc \notin {"snapshot", "create"} \/ work' = work
    <3>1. CASE Update!SwapFails \/ Update!DropOldFails
        BY <1>1, <3>1 DEF Update!SwapFails, Update!DropOldFails, Update!At, HeldT
    <3>2. CASE Update!UndoFails
        BY <1>1, <3>2 DEF Update!UndoFails, HeldT, UpdateTypes, GuestRowT
    <3>3. CASE Update!GiveUp \/ Update!DropSnapshot \/ Update!Crash
        BY <3>3 DEF Update!GiveUp, Update!DropSnapshot, Update!Crash, Update!NoWork, Update!Work
    <3>4. CASE Update!Disable
        BY <1>1, <3>4 DEF Update!Disable, UpdateTypes, GuestRowT
    <3> QED BY <1>12, <3>1, <3>2, <3>3, <3>4
  <2> QED BY <2>1 DEF OwnStays
<1>13. CASE Update!StopSweep \/ Update!DaemonRestart
  <2>1. agent' = agent /\ work' = work
    BY <1>13 DEF Update!StopSweep, Update!DaemonRestart
  <2>2. \A c \in Update!Box : box'[c].name = box[c].name
    BY <1>1, <1>13 DEF Update!StopSweep, Update!DaemonRestart, BoxT
  <2> QED BY <1>1, <1>2, <2>1, <2>2
<1>14. ASSUME NEW r \in Update!Run,
              Update!Request(r) \/ Update!PullFails(r) \/ Update!BeginCutover(r) \/ Update!Interrupted(r) \/ Update!SweepArtifacts(r)
       PROVE  OwnStays'
  <2>1. box' = box /\ agent' = agent /\ (work' = work \/ work'.pc \notin {"snapshot", "create"})
    BY <1>14 DEF Update!Request, Update!PullFails, Update!BeginCutover, Update!Interrupted,
       Update!SweepArtifacts, Update!Work
  <2> QED BY <1>2, <2>1
<1>15. ASSUME NEW c \in Update!Box, Update!GuestWrites(c) \/ Update!OrphanSweep(c) PROVE OwnStays'
  <2>1. agent' = agent /\ work' = work /\ box'[agent.container] = box[agent.container]
    BY <1>1, <1>15 DEF Update!GuestWrites, Update!OrphanSweep
  <2> QED BY <1>2, <2>1
<1>16. CASE Update!BeginWrite \/ Update!WriteFails \/ (\E n \in Update!Write : Update!EndWrite(n)) \/ UNCHANGED Update!vars
    BY <1>2, <1>16 DEF Update!BeginWrite, Update!WriteFails, Update!EndWrite, Update!vars
<1> QED BY <1>3, <1>4, <1>5, <1>6, <1>7, <1>8, <1>9, <1>10, <1>11, <1>12, <1>13, <1>14, <1>15, <1>16
        DEF Update!Next, Update!Alive, Update!Swap, Update!Cleanup, Update!Undo

\* A published run is never rolled back: the loss of the acknowledgement, which
\* is no step of this specification, is the only way to it.
THEOREM SuccessIsKept == Update!Spec => []Update!SuccessStays
<1>1. Update!Init => OwnStays
    BY Marks DEF Update!Init, OwnStays, Update!NoWork, Update!Work
<1>2. OwnStays => Update!SuccessStays
    BY DEF OwnStays, Update!SuccessStays
<1> QED BY <1>1, <1>2, OwnStaysStep, UpdateInvariant, PTL DEF Update!Spec
\* Two names for one operator.
LEMMA SameCardinality == \A S : Update!Cardinality(S) = Cardinality(S)
BY DEF Update!Cardinality, Cardinality, Update!IsFiniteSet, IsFiniteSet

\* What is up has the one name: at most one container is up.
LEMMA OneIsUp == ASSUME Update!UpdateInv PROVE Update!OneWriter
<1> DEFINE Up == {c \in Update!Box : box[c].up}
<1>1. \A c, d \in Up : c = d
    BY UpdateParts DEF Names
<1>2. Up = {} \/ \E c : Up = {c}
    BY <1>1
<1>3. Cardinality(Up) = 0 \/ Cardinality(Up) = 1
  <2>1. CASE Up = {}
    BY <2>1, FS_EmptySet
  <2>2. CASE \E c : Up = {c}
    BY <2>2, FS_Singleton
  <2> QED BY <1>2, <2>1, <2>2
<1>4. Cardinality(Up) <= 1
    BY <1>3
<1> QED BY <1>4, SameCardinality DEF Update!OneWriter

\* What holds through a crash at any step of an upgrade: one guest at a time,
\* no accepted write lost and no rolled-back one kept, a whole service between
\* runs, and a disabled agent left disabled.
LEMMA UpdateIsSafe == Update!UpdateInv => Update!UpdateSafety
<1> SUFFICES ASSUME Update!UpdateInv PROVE Update!UpdateSafety
    OBVIOUS
<1>1. UpdateTypes /\ Update!NeverResurrected /\ (Update!Sound => Way)
    BY UpdateParts
<1>2. ASSUME Update!Settled PROVE Update!Whole /\ Update!Exact(dir)
  <2>1. Update!Sound /\ Update!NoCutover
    BY <1>2 DEF Update!Settled, Update!Sound, Update!NoneActive, Update!NoCutover, Update!Active
  <2> QED BY <1>1, <2>1 DEF Way
<1>3. Update!StateIsExact
    BY <1>2 DEF Update!StateIsExact, Update!Exact
<1>4. Update!ServiceIsWhole
    BY <1>2 DEF Update!ServiceIsWhole, Update!Whole
<1> QED BY <1>1, <1>3, <1>4, OneIsUp DEF Update!UpdateSafety

\* The same of every behaviour.
THEOREM UpdateSafe == Update!Spec => []UpdateSafety
BY UpdateInvariant, UpdateIsSafe, PTL DEF UpdateSafety

-----------------------------------------------------------------------------
(* Both, side by side.                                                        *)

\* In the specification that TLC checks each of the two takes its own steps.
LEMMA EachMoves == MCSpec => Spec /\ Update!Spec
<1>1. MCInit => Init /\ Update!Init
    BY DEF MCInit
<1>2. [MCNext]_<<moving, vars, updateVars>> => [Next]_vars /\ [Update!Next]_Update!vars
  <2>1. UNCHANGED updateVars => UNCHANGED Update!vars
    BY DEF updateVars, Update!vars
  <2> QED BY <2>1 DEF MCNext
<1> QED BY <1>1, <1>2, PTL DEF MCSpec, Spec, Update!Spec

\* The inductive invariants of both, of the specification that TLC checks.
THEOREM GuestInvariant == MCSpec => []GuestInv
BY EachMoves, StartInvariant, UpdateInvariant, PTL DEF GuestInv
=============================================================================
