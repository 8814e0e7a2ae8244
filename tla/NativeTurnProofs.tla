-------------------------- MODULE NativeTurnProofs --------------------------
(***************************************************************************)
(* The claim protocol of NativeTurn is inductive: every step of a worker,  *)
(* of the guest and of the agent's surroundings keeps TurnTypeOK and       *)
(* ClaimInv, and so do the steps the lanes add: a claim of a pending row   *)
(* and the settlement or cancellation of rows.  OrdinaryLaneProofs and     *)
(* SharedLaneProofs cite these lemmas.                                     *)
(***************************************************************************)
EXTENDS NativeTurn, TLAPS

TurnInv == TurnTypeOK /\ ClaimInv

\* Initially nothing is claimed and the guest knows of no row.
LEMMA TurnInitInv == TurnInit => TurnInv
BY StampAssumption DEF TurnInit, TurnInv, TurnTypeOK, ClaimInv, OneWorker, WorkerHoldsRow,
   UnsentIsUnadmitted, Unadmitted, ConsumedOnceRun, RowStatus, GuestState

\* A worker that only moves on or ends, with row and guest as they are, keeps
\* the invariant if where it moves to is justified.
LEMMA MoveInv ==
    ASSUME TurnInv, NEW t \in turns,
           NEW pc \in {"claimed", "submitted", "release", "settle"},
           pc \in {"claimed", "release"} => Unadmitted(t.msg),
           turns' = At(t, pc) \/ turns' = turns \ {t},
           UNCHANGED <<status, stamp, bound, guest, consumed, owner, gate>>
    PROVE  TurnInv'
<1>1. t \in Turn
  BY DEF TurnInv, TurnTypeOK
<1>2. turns' \subseteq Turn
  BY <1>1 DEF TurnInv, TurnTypeOK, At, Turn
<1>3. TurnTypeOK'
  BY <1>2 DEF TurnInv, TurnTypeOK
<1>4. OneWorker' /\ WorkerHoldsRow'
  BY <1>1 DEF TurnInv, TurnTypeOK, ClaimInv, OneWorker, WorkerHoldsRow, At, Turn
<1>5. UnsentIsUnadmitted' /\ ConsumedOnceRun'
  BY <1>1 DEF TurnInv, TurnTypeOK, ClaimInv, UnsentIsUnadmitted, Unadmitted, ConsumedOnceRun, At, Turn
<1> QED
  BY <1>3, <1>4, <1>5 DEF TurnInv, ClaimInv

\* Sending the request: the row is held, so the guest may now act on it.
LEMMA SubmitInv ==
    ASSUME TurnInv, NEW t \in turns, Submit(t)
    PROVE  TurnInv'
<1>1. t \in Turn /\ t.msg \in Msg
  BY DEF TurnInv, TurnTypeOK, Turn
<1>2. turns' \subseteq Turn
  BY <1>1 DEF TurnInv, TurnTypeOK, Submit, At, Turn
<1>3. TurnTypeOK'
  BY <1>1, <1>2 DEF TurnInv, TurnTypeOK, Submit, GuestState
<1>4. OneWorker' /\ WorkerHoldsRow'
  BY <1>1 DEF TurnInv, TurnTypeOK, ClaimInv, OneWorker, WorkerHoldsRow, Submit, At, Turn
<1>5. UnsentIsUnadmitted'
  BY <1>1 DEF TurnInv, TurnTypeOK, ClaimInv, OneWorker, WorkerHoldsRow, UnsentIsUnadmitted,
     Unadmitted, Submit, At, Turn
<1>6. ConsumedOnceRun'
  BY <1>1 DEF TurnInv, TurnTypeOK, ClaimInv, UnsentIsUnadmitted, Unadmitted, ConsumedOnceRun, Submit
<1> QED
  BY <1>3, <1>4, <1>5, <1>6 DEF TurnInv, ClaimInv

\* Returning a claim: no other worker has the row, and the guest cannot run it.
LEMMA ReleaseInv ==
    ASSUME TurnInv, NEW t \in turns, Release(t)
    PROVE  TurnInv'
<1>1. t \in Turn /\ t.msg \in Msg
  BY DEF TurnInv, TurnTypeOK, Turn
<1>2. \A u \in turns' : u \in turns /\ u.msg \in Msg /\ u.msg # t.msg
  BY DEF TurnInv, TurnTypeOK, ClaimInv, OneWorker, Release, Turn
<1>3. TurnTypeOK'
  BY <1>1 DEF TurnInv, TurnTypeOK, Release, RowStatus
<1>4. OneWorker'
  BY DEF TurnInv, ClaimInv, OneWorker, Release
<1>5. WorkerHoldsRow'
  BY <1>1, <1>2 DEF TurnInv, TurnTypeOK, ClaimInv, WorkerHoldsRow, Release
<1>6. UnsentIsUnadmitted' /\ ConsumedOnceRun'
  BY <1>1 DEF TurnInv, TurnTypeOK, ClaimInv, UnsentIsUnadmitted, Unadmitted, ConsumedOnceRun, Release
<1> QED
  BY <1>3, <1>4, <1>5, <1>6 DEF TurnInv, ClaimInv

\* Every step of a worker keeps it, its loss included.
LEMMA TurnStepInv ==
    ASSUME TurnInv, NEW t \in turns, TurnStep(t)
    PROVE  TurnInv'
<1>1. CASE RefuseBeforeSubmit(t)
  BY <1>1, MoveInv DEF RefuseBeforeSubmit, TurnInv, ClaimInv, UnsentIsUnadmitted
<1>2. CASE Submit(t)
  BY <1>2, SubmitInv
<1>3. CASE SeeNotAdmitted(t)
  BY <1>3, MoveInv DEF SeeNotAdmitted, Unadmitted
<1>4. CASE SeeTerminal(t)
  BY <1>4, MoveInv DEF SeeTerminal
<1>5. CASE SeeUncertain(t)
  BY <1>5, MoveInv DEF SeeUncertain
<1>6. CASE Release(t)
  BY <1>6, ReleaseInv
<1>7. CASE WorkerLost(t)
  BY <1>7, MoveInv DEF WorkerLost
<1> QED
  BY <1>1, <1>2, <1>3, <1>4, <1>5, <1>6, <1>7 DEF TurnStep

\* The guest goes from one state of a request to the next; what it consumes it
\* consumes when it starts to run.
LEMMA GuestNextInv ==
    ASSUME TurnInv, NEW m \in Msg, GuestNext(m)
    PROVE  TurnInv'
<1>1. TurnTypeOK'
  BY DEF TurnInv, TurnTypeOK, GuestNext, GuestReject, GuestAccept, GuestInterrupt, GuestConsume,
     GuestAnswer, GuestStep, GuestState
<1>2. OneWorker' /\ WorkerHoldsRow'
  BY DEF TurnInv, ClaimInv, OneWorker, WorkerHoldsRow, GuestNext, GuestReject, GuestAccept,
     GuestInterrupt, GuestConsume, GuestAnswer, GuestStep
<1>3. UnsentIsUnadmitted'
  BY DEF TurnInv, TurnTypeOK, ClaimInv, UnsentIsUnadmitted, Unadmitted, Turn, GuestNext,
     GuestReject, GuestAccept, GuestInterrupt, GuestConsume, GuestAnswer, GuestStep
<1>4. ConsumedOnceRun'
  BY DEF TurnInv, TurnTypeOK, ClaimInv, ConsumedOnceRun, GuestNext,
     GuestReject, GuestAccept, GuestInterrupt, GuestConsume, GuestAnswer, GuestStep
<1> QED
  BY <1>1, <1>2, <1>3, <1>4 DEF TurnInv, ClaimInv

\* So do the guest, a transfer and the gate.
LEMMA TurnNextInv == TurnInv /\ TurnNext => TurnInv'
<1> SUFFICES ASSUME TurnInv, TurnNext PROVE TurnInv'
  OBVIOUS
<1>1. ASSUME NEW t \in turns, TurnStep(t) PROVE TurnInv'
  BY <1>1, TurnStepInv
<1>2. ASSUME NEW m \in Msg, GuestNext(m) PROVE TurnInv'
  BY <1>2, GuestNextInv
<1>3. ASSUME NEW o \in Owner, TransferOwner(o) PROVE TurnInv'
  <2>1. TurnTypeOK'
    BY <1>3 DEF TransferOwner, TurnInv, TurnTypeOK
  <2>2. ClaimInv'
    BY <1>3 DEF TransferOwner, TurnInv, ClaimInv, OneWorker, WorkerHoldsRow,
       UnsentIsUnadmitted, Unadmitted, ConsumedOnceRun
  <2> QED
    BY <2>1, <2>2 DEF TurnInv
<1>4. ASSUME SetGate PROVE TurnInv'
  <2>1. gate' \in BOOLEAN
    BY <1>4 DEF SetGate
  <2>2. TurnTypeOK'
    BY <1>4, <2>1 DEF SetGate, TurnInv, TurnTypeOK
  <2>3. ClaimInv'
    BY <1>4 DEF SetGate, TurnInv, ClaimInv, OneWorker, WorkerHoldsRow,
       UnsentIsUnadmitted, Unadmitted, ConsumedOnceRun
  <2> QED
    BY <2>2, <2>3 DEF TurnInv
<1> QED
  BY <1>1, <1>2, <1>3, <1>4 DEF TurnNext

-----------------------------------------------------------------------------
(* What the lanes add.                                                     *)

\* A claim of a pending row: by WorkerHoldsRow no worker is left on it.
LEMMA DeliverInv ==
    ASSUME TurnInv, NEW m \in Msg, NEW binds \in BOOLEAN, status[m] = "pending",
           Deliver(m, owner, binds), UNCHANGED <<guest, consumed, owner, gate>>
    PROVE  TurnInv'
<1> PICK s \in Stamp :
        /\ status' = [status EXCEPT ![m] = "delivered"]
        /\ stamp' = [stamp EXCEPT ![m] = s]
        /\ bound' = IF binds THEN bound \cup {m} ELSE bound \ {m}
        /\ turns' = turns \cup {[msg |-> m, stamp |-> s, owner |-> owner, pc |-> "claimed"]}
  BY DEF Deliver
<1>1. \A t \in turns : t.msg # m
  BY DEF TurnInv, ClaimInv, WorkerHoldsRow
<1>2. turns' \subseteq Turn
  BY DEF TurnInv, TurnTypeOK, Turn
<1>3. bound' \subseteq Msg
  BY DEF TurnInv, TurnTypeOK
<1>4. TurnTypeOK'
  BY <1>2, <1>3 DEF TurnInv, TurnTypeOK, RowStatus
<1>5. OneWorker'
  BY <1>1 DEF TurnInv, ClaimInv, OneWorker
<1>6. WorkerHoldsRow'
  BY <1>1 DEF TurnInv, TurnTypeOK, ClaimInv, WorkerHoldsRow, Turn
<1>7. UnsentIsUnadmitted' /\ ConsumedOnceRun'
  BY <1>1 DEF TurnInv, TurnTypeOK, ClaimInv, UnsentIsUnadmitted, Unadmitted, ConsumedOnceRun, Turn
<1> QED
  BY <1>4, <1>5, <1>6, <1>7 DEF TurnInv, ClaimInv

\* A row changes its status without losing a claim: it is completed, or it is
\* on its way to pending and nobody works on it.  Workers may end with it.
LEMMA RowInv ==
    ASSUME TurnInv, NEW m \in Msg, NEW to \in RowStatus,
           status' = [status EXCEPT ![m] = to],
           to = "completed" \/ (status[m] \notin {"delivered", "completed"} /\ to # "delivered"),
           turns' \subseteq turns, bound' \subseteq bound,
           UNCHANGED <<stamp, guest, consumed, owner, gate>>
    PROVE  TurnInv'
<1>1. TurnTypeOK'
  BY DEF TurnInv, TurnTypeOK
<1>2. OneWorker'
  BY DEF TurnInv, ClaimInv, OneWorker
<1>3. WorkerHoldsRow'
  BY DEF TurnInv, TurnTypeOK, ClaimInv, WorkerHoldsRow, Turn
<1>4. UnsentIsUnadmitted' /\ ConsumedOnceRun'
  BY DEF TurnInv, TurnTypeOK, ClaimInv, UnsentIsUnadmitted, Unadmitted, ConsumedOnceRun, Turn
<1> QED
  BY <1>1, <1>2, <1>3, <1>4 DEF TurnInv, ClaimInv

\* Rows and guest untouched, workers may end, bindings may go.
LEMMA FrameInv ==
    ASSUME TurnInv, turns' \subseteq turns, bound' \subseteq bound,
           UNCHANGED <<status, stamp, guest, consumed, owner, gate>>
    PROVE  TurnInv'
BY DEF TurnInv, TurnTypeOK, ClaimInv, OneWorker, WorkerHoldsRow, UnsentIsUnadmitted, Unadmitted,
   ConsumedOnceRun

\* The same for several rows that are completed at once.
LEMMA RowsInv ==
    ASSUME TurnInv, NEW ms \in SUBSET Msg,
           status' = [m \in Msg |-> IF m \in ms THEN "completed" ELSE status[m]],
           turns' \subseteq turns, bound' \subseteq bound,
           UNCHANGED <<stamp, guest, consumed, owner, gate>>
    PROVE  TurnInv'
<1>1. TurnTypeOK'
  BY DEF TurnInv, TurnTypeOK, RowStatus
<1>2. OneWorker'
  BY DEF TurnInv, ClaimInv, OneWorker
<1>3. WorkerHoldsRow'
  BY DEF TurnInv, TurnTypeOK, ClaimInv, WorkerHoldsRow, Turn
<1>4. UnsentIsUnadmitted' /\ ConsumedOnceRun'
  BY DEF TurnInv, TurnTypeOK, ClaimInv, UnsentIsUnadmitted, Unadmitted, ConsumedOnceRun, Turn
<1> QED
  BY <1>1, <1>2, <1>3, <1>4 DEF TurnInv, ClaimInv

\* What the steps of this module leave alone: a row's status but for a release
\* of a delivered row, and whatever nobody works on and the guest cannot run.
LEMMA TurnNextMoves ==
    ASSUME TurnInv, TurnNext
    PROVE  /\ \A m \in Msg : status'[m] = status[m] \/ (status[m] = "delivered" /\ status'[m] = "pending")
           /\ \A t \in turns' : \E u \in turns : t.msg = u.msg
           /\ \A m \in Msg : Unadmitted(m) /\ (\A t \in turns : t.msg # m) => Unadmitted(m)'
<1>0. turns \subseteq Turn /\ status \in [Msg -> RowStatus] /\ guest \in [Msg -> GuestState]
  BY DEF TurnInv, TurnTypeOK
<1>1. ASSUME NEW t \in turns, TurnStep(t)
      PROVE  /\ \A m \in Msg : status'[m] = status[m] \/ (status[m] = "delivered" /\ status'[m] = "pending")
             /\ \A u \in turns' : \E v \in turns : u.msg = v.msg
             /\ \A m \in Msg : t.msg # m => guest'[m] = guest[m]
  <2> USE DEF TurnStep, RefuseBeforeSubmit, Submit, SeeNotAdmitted, SeeTerminal, SeeUncertain,
              Release, WorkerLost
  <2>1. t \in Turn /\ t.msg \in Msg
    BY <1>0 DEF Turn
  <2>2. \A m \in Msg : status'[m] = status[m] \/ (status[m] = "delivered" /\ status'[m] = "pending")
    BY <1>0, <1>1, <2>1
  <2>3. \A m \in Msg : t.msg # m => guest'[m] = guest[m]
    BY <1>0, <1>1, <2>1
  <2>4. turns' \subseteq turns \/ \E pc : turns' = At(t, pc)
    BY <1>1
  <2>5. \A pc : [t EXCEPT !.pc = pc].msg = t.msg
    BY <2>1 DEF Turn
  <2>6. \A u \in turns' : \E v \in turns : u.msg = v.msg
    BY <2>4, <2>5 DEF At
  <2> QED
    BY <2>2, <2>3, <2>6
<1>2. ASSUME NEW m \in Msg, GuestNext(m)
      PROVE  UNCHANGED <<status, turns>> /\ \A n \in Msg : Unadmitted(n) => 
                guest'[n] = guest[n] \/ guest[n] = "sent" \/ Unadmitted(n)'
  BY <1>0, <1>2 DEF GuestNext, GuestReject, GuestAccept, GuestInterrupt, GuestConsume, GuestAnswer,
     GuestStep, Unadmitted
<1>3. ASSUME NEW o \in Owner, TransferOwner(o) PROVE UNCHANGED <<status, guest, turns>>
  BY <1>3 DEF TransferOwner
<1>4. ASSUME SetGate PROVE UNCHANGED <<status, guest, turns>>
  BY <1>4 DEF SetGate
<1>5. CASE \E t \in turns : TurnStep(t)
  BY <1>1, <1>5 DEF Unadmitted
<1>6. CASE \E m \in Msg : GuestNext(m)
  BY <1>2, <1>6 DEF Unadmitted
<1>7. CASE \E o \in Owner : TransferOwner(o)
  BY <1>3, <1>7 DEF Unadmitted
<1>8. CASE SetGate
  BY <1>4, <1>8 DEF Unadmitted
<1> QED
  BY <1>5, <1>6, <1>7, <1>8 DEF TurnNext

\* What workers, guest and surroundings do to the rows: a release returns a row
\* the guest has not run, and the guest runs a row that was handed over once.
LEMMA TurnNextRows ==
    ASSUME TurnInv, TurnNext
    PROVE  \/ \E m \in Msg : /\ status[m] = "delivered" /\ consumed[m] = 0
                             /\ status' = [status EXCEPT ![m] = "pending"]
                             /\ UNCHANGED consumed
           \/ \E m \in Msg : /\ status[m] \in {"delivered", "completed"} /\ consumed[m] = 0
                             /\ consumed' = [consumed EXCEPT ![m] = 1]
                             /\ UNCHANGED status
           \/ UNCHANGED <<status, consumed>>
<1>0. /\ status \in [Msg -> RowStatus] /\ guest \in [Msg -> GuestState]
      /\ consumed \in [Msg -> Nat] /\ turns \subseteq Turn /\ ClaimInv
  BY DEF TurnInv, TurnTypeOK
<1>1. ASSUME NEW t \in turns, Release(t), status[t.msg] = "delivered", stamp[t.msg] = t.stamp
      PROVE  \E m \in Msg : /\ status[m] = "delivered" /\ consumed[m] = 0
                            /\ status' = [status EXCEPT ![m] = "pending"]
                            /\ UNCHANGED consumed
  <2>1. t.msg \in Msg
    BY <1>0 DEF Turn
  <2>2. consumed[t.msg] = 0
    BY <1>0, <1>1, <2>1 DEF Release, ClaimInv, UnsentIsUnadmitted, Unadmitted, ConsumedOnceRun
  <2> QED
    BY <1>1, <2>1, <2>2 DEF Release
<1>2. ASSUME NEW m \in Msg, GuestConsume(m)
      PROVE  /\ status[m] \in {"delivered", "completed"} /\ consumed[m] = 0
             /\ consumed' = [consumed EXCEPT ![m] = 1]
             /\ UNCHANGED status
  <2>1. /\ guest[m] = "accepted" /\ UNCHANGED status
        /\ consumed' = [consumed EXCEPT ![m] = @ + 1]
    BY <1>2 DEF GuestConsume, GuestStep
  <2>2. consumed[m] = 0
    BY <2>1, <1>0 DEF ClaimInv, ConsumedOnceRun
  <2>3. status[m] \in {"delivered", "completed"}
    BY <2>1, <1>0 DEF ClaimInv, UnsentIsUnadmitted, Unadmitted
  <2> QED
    BY <2>1, <2>2, <2>3, <1>0
<1>3. ASSUME NEW t \in turns, TurnStep(t)
      PROVE  \/ Release(t) /\ status[t.msg] = "delivered" /\ stamp[t.msg] = t.stamp
             \/ UNCHANGED <<status, consumed>>
  BY <1>3 DEF TurnStep, RefuseBeforeSubmit, Submit, SeeNotAdmitted, SeeTerminal, SeeUncertain, Release, WorkerLost
<1>4. ASSUME NEW m \in Msg, GuestNext(m)
      PROVE  GuestConsume(m) \/ UNCHANGED <<status, consumed>>
  BY <1>4 DEF GuestNext, GuestReject, GuestAccept, GuestInterrupt, GuestAnswer, GuestStep
<1>5. CASE SetGate \/ \E o \in Owner : TransferOwner(o)
  BY <1>5 DEF SetGate, TransferOwner
<1> QED
  BY <1>1, <1>2, <1>3, <1>4, <1>5 DEF TurnNext
=============================================================================
