------------------------- MODULE OrdinaryLaneProofs -------------------------
(***************************************************************************)
(* The safety of the ordinary lanes, for every set of rows, conversations, *)
(* owners and claim stamps: IInv is inductive, and from it follow one      *)
(* active turn per conversation, consumption at most once, one answer per  *)
(* report, truthful interruption notices, settlement for the claimant,     *)
(* claims in order, and the refinement of TurnLane.  The last part is      *)
(* about the wakes that start the lanes' tasks.                            *)
(***************************************************************************)
EXTENDS MCQueue, NativeTurnProofs, FiniteSetTheorems

\* An empty queue satisfies the invariant.
LEMMA InitInv == Init => IInv
<1> SUFFICES ASSUME Init PROVE IInv
  OBVIOUS
<1>1. TurnInv
  BY TurnInitInv DEF Init
<1>2. TypeOK
  BY <1>1, LaneAssumption DEF Init, TurnInit, TypeOK, TurnInv
<1> QED
  BY <1>1, <1>2 DEF Init, TurnInit, IInv, TurnInv, OneActivePerLane, SameLane, ResultInv, NoResult,
     AnsweredExactlyOnce, EvidenceInv, ClaimantInv

\* What a step does to the lane's own state when the status of no row becomes
\* delivered or completed and no report is recorded.
LEMMA QuietInv ==
    ASSUME IInv, TurnInv', TypeOK',
           \A m \in Msg : conv'[m] # conv[m] => status[m] = "free" /\ status'[m] = "begun",
           \A m \in Msg : status'[m] = "delivered" <=> status[m] = "delivered" /\ status'[m] # "pending",
           \A m \in Msg : status'[m] = "completed" <=> status[m] = "completed",
           UNCHANGED <<result, answers, claimedFor>>,
           \A p \in probes' : p \in probes \/ guest[p.msg] = "interrupted",
           \A m \in Msg : guest[m] = "interrupted" => guest'[m] = "interrupted",
           \A t \in turns' : \E u \in turns : t.msg = u.msg /\ t.owner = u.owner,
           bound' = {} \/ (bound' \subseteq bound /\ owner' = owner)
    PROVE  IInv'
<1>1. OneActivePerLane'
  BY DEF IInv, OneActivePerLane, SameLane
<1>2. ResultInv' /\ AnsweredExactlyOnce'
  BY DEF IInv, ResultInv, AnsweredExactlyOnce, NoResult
<1>3. EvidenceInv'
  BY DEF IInv, EvidenceInv, TypeOK, TurnInv, TurnTypeOK
<1>4. ClaimantInv'
  BY DEF IInv, ClaimantInv
<1> QED
  BY <1>1, <1>2, <1>3, <1>4 DEF IInv, TurnInv

-----------------------------------------------------------------------------
(* The steps.                                                              *)

\* A row that begins, aborts or commits is in nobody's hands.
LEMMA EnqueueInv ==
    ASSUME IInv, NEW m \in Msg, Enqueue(m)
    PROVE  IInv'
<1> USE DEF rowVars, reportVars
<1>1. /\ TurnInv
      /\ status \in [Msg -> RowStatus]
      /\ conv \in [Msg -> Lane \cup {NoLane}] /\ at \in [Msg -> Nat] /\ clock \in Nat
  BY DEF IInv, TurnInv, TypeOK, TurnTypeOK
<1>2. ASSUME NEW l \in Lane \cup {NoLane}, BeginEnqueue(m, l) PROVE IInv'
  <2>1. TurnInv'
    BY <1>1, <1>2, RowInv DEF BeginEnqueue, RowStatus
  <2>2. TypeOK'
    BY <1>1, <1>2, <2>1 DEF BeginEnqueue, IInv, TypeOK, TurnInv
  <2> QED
    BY <1>1, <1>2, <2>1, <2>2, QuietInv DEF BeginEnqueue
<1>3. CASE AbortEnqueue(m)
  <2>1. TurnInv'
    BY <1>1, <1>3, RowInv DEF AbortEnqueue, RowStatus
  <2>2. TypeOK'
    BY <1>1, <1>3, <2>1 DEF AbortEnqueue, IInv, TypeOK, TurnInv
  <2> QED
    BY <1>1, <1>3, <2>1, <2>2, QuietInv DEF AbortEnqueue
<1>4. CASE CommitEnqueue(m)
  <2>1. TurnInv'
    BY <1>1, <1>4, RowInv DEF CommitEnqueue, RowStatus
  <2>2. TypeOK'
    BY <1>1, <1>4, <2>1 DEF CommitEnqueue, IInv, TypeOK, TurnInv
  <2> QED
    BY <1>1, <1>4, <2>1, <2>2, QuietInv DEF CommitEnqueue
<1> QED
  BY <1>2, <1>3, <1>4 DEF Enqueue

\* A claim finds its conversation without a delivered row, and no worker of
\* an earlier claim is left on the row.
LEMMA ClaimStepInv ==
    ASSUME IInv, NEW m \in Msg, Claim(m)
    PROVE  IInv'
<1> USE DEF rowVars, reportVars
<1>1. TurnInv /\ owner \in Owner /\ status \in [Msg -> RowStatus] /\ status[m] = "pending"
  BY DEF IInv, TurnInv, TypeOK, TurnTypeOK, Claim, IsLaneHead
<1>2. (conv[m] \in session) \in BOOLEAN
  OBVIOUS
<1>3. TurnInv'
  BY <1>1, <1>2, DeliverInv DEF Claim
<1>4. TypeOK'
  BY <1>1, <1>3 DEF Claim, IInv, TypeOK, TurnInv
<1>5. status' = [status EXCEPT ![m] = "delivered"]
  BY DEF Claim, Deliver
<1>6. OneActivePerLane'
  BY <1>1, <1>5 DEF Claim, LaneBusy, IInv, OneActivePerLane, SameLane
<1>7. ResultInv' /\ AnsweredExactlyOnce'
  BY <1>1, <1>5 DEF Claim, IInv, ResultInv, AnsweredExactlyOnce, NoResult
<1>8. EvidenceInv'
  BY DEF Claim, IInv, EvidenceInv
<1>9. ClaimantInv'
  <2>1. \A t \in turns : t.msg # m /\ t.msg \in Msg
    BY <1>1 DEF TurnInv, ClaimInv, WorkerHoldsRow, TurnTypeOK, Turn
  <2>2. claimedFor' = [claimedFor EXCEPT ![m] = owner] /\ owner' = owner
    BY DEF Claim
  <2>3. claimedFor \in [Msg -> Owner] /\ bound \subseteq Msg
    BY DEF IInv, TypeOK, TurnTypeOK
  <2>4. \A t \in turns' : t \in turns \/ (t.msg = m /\ t.owner = owner)
    <3>1. PICK s \in Stamp :
             turns' = turns \cup {[msg |-> m, stamp |-> s, owner |-> owner, pc |-> "claimed"]}
      BY DEF Claim, Deliver
    <3> QED
      BY <3>1
  <2>5. bound' \subseteq bound \cup {m}
    BY DEF Claim, Deliver
  <2> QED
    BY <2>1, <2>2, <2>3, <2>4, <2>5 DEF IInv, ClaimantInv
<1> QED
  BY <1>3, <1>4, <1>6, <1>7, <1>8, <1>9 DEF IInv, TurnInv

\* A report is recorded for a row that is not completed yet; an interruption
\* notice only with the evidence.
LEMMA RecordInv ==
    ASSUME IInv, NEW m \in Msg, NEW by \in Reporter,
           status[m] # "completed", by = "notice" => guest[m] = "interrupted",
           Record(m, by), turns' \subseteq turns, probes' \subseteq probes
    PROVE  IInv'
<1> USE DEF rowVars, reportVars
<1>1. TurnInv /\ status \in [Msg -> RowStatus]
  BY DEF IInv, TurnInv, TypeOK, TurnTypeOK
<1>2. TurnInv'
  BY <1>1, RowInv DEF Record, RowStatus
<1>3. TypeOK'
  BY <1>2 DEF Record, IInv, TypeOK, TurnInv
<1>4. OneActivePerLane'
  BY <1>1 DEF Record, IInv, OneActivePerLane, SameLane
<1>5. ResultInv'
  BY <1>1 DEF Record, IInv, TypeOK, ResultInv, NoResult, Reporter
<1>6. AnsweredExactlyOnce'
  BY <1>1 DEF Record, IInv, TypeOK, AnsweredExactlyOnce
<1>7. EvidenceInv'
  BY <1>1 DEF Record, IInv, TypeOK, EvidenceInv
<1>8. ClaimantInv'
  BY DEF Record, IInv, ClaimantInv
<1> QED
  BY <1>2, <1>3, <1>4, <1>5, <1>6, <1>7, <1>8 DEF IInv, TurnInv

\* A settlement that is refused ends a worker or a probe and nothing else.
LEMMA RefusedInv ==
    ASSUME IInv, turns' \subseteq turns, probes' \subseteq probes,
           UNCHANGED <<status, stamp, bound, guest, consumed, owner, gate, rowVars, reportVars, claimedFor>>
    PROVE  IInv'
<1> USE DEF rowVars, reportVars
<1>1. TurnInv'
  BY FrameInv DEF IInv, TurnInv, TypeOK
<1>2. TypeOK'
  BY <1>1 DEF IInv, TypeOK, TurnInv
<1> QED
  BY <1>1, <1>2, QuietInv DEF IInv

\* Native answers, HTTP reports and notices are recorded or refused.
LEMMA SettlementInv ==
    ASSUME IInv,
           \/ \E t \in turns : SettleNative(t)
           \/ \E m \in Msg : \E by \in {"http", "http_empty"} : ReportHttp(m, by)
           \/ \E p \in probes : SettleInterrupted(p)
    PROVE  IInv'
<1>1. ASSUME NEW t \in turns, SettleNative(t) PROVE IInv'
  <2>1. t.msg \in Msg /\ turns' \subseteq turns /\ probes' = probes
    BY <1>1 DEF SettleNative, IInv, TypeOK, TurnTypeOK, Turn
  <2>2. CASE status[t.msg] = "delivered" /\ Record(t.msg, "native")
    BY <2>1, <2>2, RecordInv DEF Reporter
  <2>3. CASE UNCHANGED <<status, stamp, bound, guest, consumed, owner, gate, rowVars, reportVars, claimedFor>>
    BY <2>1, <2>3, RefusedInv
  <2> QED
    BY <1>1, <2>2, <2>3 DEF SettleNative
<1>2. ASSUME NEW m \in Msg, NEW by \in {"http", "http_empty"}, ReportHttp(m, by) PROVE IInv'
  <2>1. status[m] # "completed" /\ Record(m, by) /\ turns' = turns /\ probes' = probes
    BY <1>2 DEF ReportHttp
  <2> QED
    BY <2>1, RecordInv DEF Reporter
<1>3. ASSUME NEW p \in probes, SettleInterrupted(p) PROVE IInv'
  <2>1. p.msg \in Msg /\ turns' = turns /\ probes' \subseteq probes /\ guest[p.msg] = "interrupted"
    BY <1>3 DEF SettleInterrupted, IInv, TypeOK, EvidenceInv
  <2>2. CASE status[p.msg] = "delivered" /\ Record(p.msg, "notice")
    BY <2>1, <2>2, RecordInv DEF Reporter
  <2>3. CASE UNCHANGED <<status, stamp, bound, guest, consumed, owner, gate, rowVars, reportVars, claimedFor>>
    BY <2>1, <2>3, RefusedInv
  <2> QED
    BY <1>3, <2>2, <2>3 DEF SettleInterrupted
<1> QED
  BY <1>1, <1>2, <1>3

\* Probes, the relay and the deletion of a session touch no row's status.
LEMMA AroundInv ==
    ASSUME IInv,
           \/ \E m \in Msg : ProbeInterrupted(m) \/ RelayDone(m)
           \/ \E l \in Lane : DeleteSession(l)
    PROVE  IInv'
<1> USE DEF rowVars, reportVars, turnVars
<1>0. TurnInv /\ status \in [Msg -> RowStatus]
  BY DEF IInv, TypeOK, TurnInv, TurnTypeOK
<1>1. ASSUME NEW m \in Msg, ProbeInterrupted(m) PROVE IInv'
  <2>1. TurnInv'
    BY <1>0, <1>1, FrameInv DEF ProbeInterrupted
  <2>2. TypeOK'
    BY <1>1, <2>1 DEF ProbeInterrupted, IInv, TypeOK, TurnInv, TurnTypeOK
  <2> QED
    BY <1>0, <1>1, <2>1, <2>2, QuietInv DEF ProbeInterrupted
<1>2. ASSUME NEW m \in Msg, RelayDone(m) PROVE IInv'
  <2>1. TurnInv'
    BY <1>0, <1>2, FrameInv DEF RelayDone
  <2>2. TypeOK'
    BY <1>2, <2>1 DEF RelayDone, IInv, TypeOK, TurnInv
  <2> QED
    BY <1>0, <1>2, <2>1, <2>2, QuietInv DEF RelayDone
<1>3. ASSUME NEW l \in Lane, DeleteSession(l) PROVE IInv'
  <2>1. TurnInv'
    BY <1>0, <1>3, FrameInv DEF DeleteSession
  <2>2. TypeOK'
    BY <1>3, <2>1 DEF DeleteSession, IInv, TypeOK, TurnInv
  <2> QED
    BY <1>0, <1>3, <2>1, <2>2, QuietInv DEF DeleteSession
<1> QED
  BY <1>1, <1>2, <1>3

\* A step of a worker, the guest or the surroundings moves no row out of
\* pending or into delivered, and keeps an interruption on record.
LEMMA TurnNextQuiet ==
    ASSUME TurnInv, TurnNext
    PROVE  /\ \A m \in Msg : status'[m] = "delivered" <=> status[m] = "delivered" /\ status'[m] # "pending"
           /\ \A m \in Msg : status'[m] = "completed" <=> status[m] = "completed"
           /\ \A m \in Msg : guest[m] = "interrupted" => guest'[m] = "interrupted"
           /\ \A t \in turns' : \E u \in turns : t.msg = u.msg /\ t.owner = u.owner
           /\ bound' = {} \/ (bound' \subseteq bound /\ owner' = owner)
<1>0. turns \subseteq Turn /\ status \in [Msg -> RowStatus] /\ guest \in [Msg -> GuestState]
  BY DEF TurnInv, TurnTypeOK
<1>1. ASSUME NEW t \in turns, TurnStep(t)
      PROVE  /\ \A m \in Msg : status'[m] = status[m] \/ (status[m] = "delivered" /\ status'[m] = "pending")
             /\ \A m \in Msg : guest[m] = "interrupted" => guest'[m] = "interrupted"
             /\ \A u \in turns' : \E v \in turns : u.msg = v.msg /\ u.owner = v.owner
             /\ bound' = bound /\ owner' = owner
  <2> USE DEF TurnStep, RefuseBeforeSubmit, Submit, SeeNotAdmitted, SeeTerminal, SeeUncertain,
              Release, WorkerLost
  <2>1. t \in Turn /\ t.msg \in Msg
    BY <1>0 DEF Turn
  <2>2. \A m \in Msg : status'[m] = status[m] \/ (status[m] = "delivered" /\ status'[m] = "pending")
    BY <1>0, <1>1, <2>1
  <2>3. \A m \in Msg : guest[m] = "interrupted" => guest'[m] = "interrupted"
    <3>1. CASE Submit(t)
      <4>1. guest[t.msg] # "interrupted"
        BY <3>1 DEF TurnInv, ClaimInv, UnsentIsUnadmitted, Unadmitted
      <4> QED
        BY <1>0, <2>1, <3>1, <4>1
    <3>2. CASE guest' = guest
      BY <3>2
    <3> QED
      BY <1>1, <3>1, <3>2
  <2>4. turns' \subseteq turns \/ \E pc : turns' = At(t, pc)
    BY <1>1
  <2>5. \A pc : [t EXCEPT !.pc = pc].msg = t.msg /\ [t EXCEPT !.pc = pc].owner = t.owner
    BY <2>1 DEF Turn
  <2>6. \A u \in turns' : \E v \in turns : u.msg = v.msg /\ u.owner = v.owner
    BY <2>4, <2>5 DEF At
  <2>7. bound' = bound /\ owner' = owner
    BY <1>1
  <2> QED
    BY <2>2, <2>3, <2>6, <2>7
<1>2. ASSUME NEW m \in Msg, GuestNext(m)
      PROVE  /\ UNCHANGED <<status, bound, turns, owner>>
             /\ \A n \in Msg : guest[n] = "interrupted" => guest'[n] = "interrupted"
  BY <1>0, <1>2 DEF GuestNext, GuestReject, GuestAccept, GuestInterrupt, GuestConsume, GuestAnswer, GuestStep
<1>3. ASSUME NEW o \in Owner, TransferOwner(o) PROVE UNCHANGED <<status, guest, turns>> /\ bound' = {}
  BY <1>3 DEF TransferOwner
<1>4. ASSUME SetGate PROVE UNCHANGED <<status, guest, turns, bound, owner>>
  BY <1>4 DEF SetGate
<1>5. CASE \E t \in turns : TurnStep(t)
  BY <1>1, <1>5
<1>6. CASE \E m \in Msg : GuestNext(m)
  BY <1>2, <1>6
<1>7. CASE \E o \in Owner : TransferOwner(o)
  BY <1>3, <1>7
<1>8. CASE SetGate
  BY <1>4, <1>8
<1> QED
  BY <1>5, <1>6, <1>7, <1>8 DEF TurnNext

\* The steps of NativeTurn keep the lane's invariant too.
LEMMA TurnInvStep ==
    ASSUME IInv, TurnNext, UNCHANGED <<rowVars, reportVars, probes, claimedFor>>
    PROVE  IInv'
<1> USE DEF rowVars, reportVars
<1>1. TurnInv
  BY DEF IInv, TypeOK, TurnInv
<1>2. TurnInv'
  BY <1>1, TurnNextInv
<1>3. TypeOK'
  BY <1>2 DEF IInv, TypeOK, TurnInv
<1> QED
  BY <1>1, <1>2, <1>3, TurnNextQuiet, QuietInv

\* Every step, or none, keeps the invariant.
LEMMA NextInv == IInv /\ [Next]_vars => IInv'
<1> SUFFICES ASSUME IInv, [Next]_vars PROVE IInv'
  OBVIOUS
<1>1. CASE \E m \in Msg : Enqueue(m)
  BY <1>1, EnqueueInv
<1>2. CASE \E m \in Msg : Claim(m)
  BY <1>2, ClaimStepInv
<1>3. CASE \/ \E t \in turns : SettleNative(t)
           \/ \E m \in Msg : \E by \in {"http", "http_empty"} : ReportHttp(m, by)
           \/ \E p \in probes : SettleInterrupted(p)
  BY <1>3, SettlementInv
<1>4. CASE \/ \E m \in Msg : ProbeInterrupted(m) \/ RelayDone(m)
           \/ \E l \in Lane : DeleteSession(l)
  BY <1>4, AroundInv
<1>5. CASE TurnNext /\ UNCHANGED <<rowVars, reportVars, probes, claimedFor>>
  BY <1>5, TurnInvStep
<1>6. CASE UNCHANGED vars
  BY <1>6, RefusedInv DEF vars, turnVars
<1> QED
  BY <1>1, <1>2, <1>3, <1>4, <1>5, <1>6 DEF Next

-----------------------------------------------------------------------------
(* Invariants.                                                             *)

\* The inductive invariant: enqueue, claim, release, settlement, transfer and
\* loss of a worker keep it, whatever their order.
THEOREM Invariance == Spec => []IInv
BY InitInv, NextInv, PTL DEF Spec

\* A conversation has at most one delivered row (claim_ordinary_head).
THEOREM LaneSafety == Spec => []OneActivePerLane
<1>1. IInv => OneActivePerLane
  BY DEF IInv
<1> QED
  BY <1>1, Invariance, PTL

\* The guest consumes the input of a row at most once: release_delivery takes
\* back no claim the guest can still run.
THEOREM ConsumptionSafety == Spec => []ConsumedAtMostOnce
<1>1. IInv => ConsumedAtMostOnce
  <2> SUFFICES ASSUME IInv, NEW m \in Msg PROVE consumed[m] <= 1
    BY DEF ConsumedAtMostOnce
  <2>1. consumed[m] = 0 \/ consumed[m] = 1
    BY DEF IInv, ClaimInv, ConsumedOnceRun
  <2> QED
    BY <2>1
<1> QED
  BY <1>1, Invariance, PTL

\* record_report puts the answer into the chat once, for whichever reporter
\* comes first.
THEOREM AnswerSafety == Spec => []AnsweredExactlyOnce
<1>1. IInv => AnsweredExactlyOnce
  BY DEF IInv
<1> QED
  BY <1>1, Invariance, PTL

\* The interruption notice is true, although the evidence for it is read
\* before the settling transaction begins.
THEOREM NoticeSafety == Spec => []NoticeIsTrue
<1>1. IInv => NoticeIsTrue
  BY DEF IInv, ClaimInv, ConsumedOnceRun, EvidenceInv, NoticeIsTrue
<1> QED
  BY <1>1, Invariance, PTL

-----------------------------------------------------------------------------
(* Action properties.                                                      *)

\* What the steps other than a recorded report leave alone.
LEMMA OnlyRecordReports ==
    ASSUME IInv, [Next]_vars
    PROVE  \/ UNCHANGED <<result, answers>> /\ \A m \in Msg : status[m] = "completed" => status'[m] = "completed"
           \/ \E t \in turns : t.msg \in Msg /\ owner = t.owner /\ status[t.msg] = "delivered" /\ Record(t.msg, "native")
           \/ \E m \in Msg, by \in {"http", "http_empty"} : status[m] # "completed" /\ Record(m, by)
           \/ \E p \in probes : p.msg \in bound /\ status[p.msg] = "delivered" /\ Record(p.msg, "notice")
<1> USE DEF rowVars, reportVars, turnVars
<1>0. /\ TurnInv
      /\ status \in [Msg -> RowStatus]
      /\ \A t \in turns : t.msg \in Msg
  BY DEF IInv, TypeOK, TurnInv, TurnTypeOK, Turn
<1>1. CASE \E m \in Msg : Enqueue(m)
  BY <1>0, <1>1 DEF Enqueue, BeginEnqueue, AbortEnqueue, CommitEnqueue
<1>2. CASE \E m \in Msg : Claim(m)
  BY <1>0, <1>2 DEF Claim, IsLaneHead, Deliver
<1>3. CASE \E t \in turns : SettleNative(t)
  BY <1>0, <1>3 DEF SettleNative
<1>4. CASE \E m \in Msg : \E by \in {"http", "http_empty"} : ReportHttp(m, by)
  BY <1>4 DEF ReportHttp
<1>5. CASE \E p \in probes : SettleInterrupted(p)
  BY <1>5 DEF SettleInterrupted
<1>6. CASE \/ \E m \in Msg : ProbeInterrupted(m) \/ RelayDone(m)
           \/ \E l \in Lane : DeleteSession(l)
  BY <1>6 DEF ProbeInterrupted, RelayDone, DeleteSession
<1>7. CASE TurnNext /\ UNCHANGED <<rowVars, reportVars, probes, claimedFor>>
  BY <1>0, <1>7, TurnNextQuiet
<1>8. CASE UNCHANGED vars
  BY <1>8 DEF vars
<1> QED
  BY <1>1, <1>2, <1>3, <1>4, <1>5, <1>6, <1>7, <1>8 DEF Next

\* complete() and the checks before it: the first report of a row is final.
THEOREM FirstReport == Spec => FirstReportWins
<1>1. IInv /\ [Next]_vars =>
        [\A m \in Msg : status[m] = "completed" =>
            /\ status'[m] = "completed"
            /\ result'[m] = result[m]
            /\ answers'[m] = answers[m]]_vars
  BY OnlyRecordReports DEF IInv, TypeOK, TurnTypeOK, Record
<1> QED
  BY <1>1, Invariance, PTL DEF Spec, FirstReportWins

\* settle_native_report refuses a changed owner: native answers and notices
\* are recorded for the owner the row was claimed for.
THEOREM SettlementOwner == Spec => SettledForClaimant
<1>1. IInv /\ [Next]_vars =>
        [\A m \in Msg : status[m] # "completed" /\ result'[m] \in {"native", "notice"} =>
            owner = claimedFor[m]]_vars
  BY OnlyRecordReports DEF IInv, TypeOK, TurnTypeOK, Record, ResultInv, NoResult, ClaimantInv
<1> QED
  BY <1>1, Invariance, PTL DEF Spec, SettledForClaimant

-----------------------------------------------------------------------------
(* The order of a lane.                                                    *)

\* created_at tells the rows ever begun apart.
Spaced ==
    /\ clock \in Nat /\ at \in [Msg -> Nat]
    /\ \A m \in Msg : at[m] <= clock /\ (at[m] = 0 <=> status[m] = "free")
    /\ \A m, n \in Msg : at[m] = at[n] => m = n \/ at[m] = 0

\* A step of a worker, the guest or the surroundings begins no row.
LEMMA TurnBegins ==
    ASSUME TurnInv, TurnNext, NEW m \in Msg
    PROVE  status'[m] = "free" <=> status[m] = "free"
<1>1. status \in [Msg -> RowStatus] /\ turns \subseteq Turn
  BY DEF TurnInv, TurnTypeOK
<1>2. CASE \E t \in turns : TurnStep(t)
  BY <1>1, <1>2 DEF TurnStep, RefuseBeforeSubmit, Submit, SeeNotAdmitted, SeeTerminal,
     SeeUncertain, Release, WorkerLost, Turn
<1>3. CASE \E g \in Msg : GuestNext(g)
  BY <1>3 DEF GuestNext, GuestReject, GuestAccept, GuestInterrupt, GuestConsume, GuestAnswer, GuestStep
<1>4. CASE (\E o \in Owner : TransferOwner(o)) \/ SetGate
  BY <1>4 DEF TransferOwner, SetGate
<1> QED
  BY <1>2, <1>3, <1>4 DEF TurnNext

\* A row begins with a created_at of its own and keeps it.
LEMMA SpacedStep ==
    ASSUME IInv, Spaced, [Next]_vars
    PROVE  Spaced'
<1> USE DEF rowVars, reportVars, turnVars
<1>0. /\ TurnInv /\ status \in [Msg -> RowStatus]
      /\ \A t \in turns : t.msg \in Msg
      /\ \A p \in probes : p.msg \in Msg
  BY DEF IInv, TypeOK, TurnInv, TurnTypeOK, Turn
<1>1. ASSUME NEW m \in Msg, NEW l \in Lane \cup {NoLane}, BeginEnqueue(m, l) PROVE Spaced'
  <2>1. /\ clock' = clock + 1 /\ clock' \in Nat /\ clock' > clock /\ at' = [at EXCEPT ![m] = clock']
        /\ status' = [status EXCEPT ![m] = "begun"] /\ status[m] = "free"
    BY <1>1 DEF BeginEnqueue, Spaced
  <2> QED
    BY <1>0, <2>1 DEF Spaced
<1>2. ASSUME UNCHANGED <<at, clock>>, \A m \in Msg : status'[m] = "free" <=> status[m] = "free"
      PROVE  Spaced'
  BY <1>2 DEF Spaced
<1>3. CASE \E m \in Msg : AbortEnqueue(m) \/ CommitEnqueue(m)
  BY <1>0, <1>2, <1>3 DEF AbortEnqueue, CommitEnqueue
<1>4. CASE \E m \in Msg : Claim(m)
  BY <1>0, <1>2, <1>4 DEF Claim, IsLaneHead, Deliver
<1>5. CASE \E t \in turns : SettleNative(t)
  BY <1>0, <1>2, <1>5 DEF SettleNative, Record
<1>6. CASE \E m \in Msg, by \in {"http", "http_empty"} : ReportHttp(m, by)
  BY <1>0, <1>2, <1>6 DEF ReportHttp, Record
<1>7. CASE \E p \in probes : SettleInterrupted(p)
  BY <1>0, <1>2, <1>7 DEF SettleInterrupted, Record
<1>8. CASE (\E m \in Msg : ProbeInterrupted(m) \/ RelayDone(m)) \/ (\E l \in Lane : DeleteSession(l))
  BY <1>2, <1>8 DEF ProbeInterrupted, RelayDone, DeleteSession
<1>9. CASE TurnNext /\ UNCHANGED <<rowVars, reportVars, probes, claimedFor>>
  BY <1>0, <1>2, <1>9, TurnBegins
<1>10. CASE UNCHANGED vars
  BY <1>2, <1>10 DEF vars
<1> QED
  BY <1>1, <1>3, <1>4, <1>5, <1>6, <1>7, <1>8, <1>9, <1>10 DEF Next, Enqueue

\* Only a claim delivers a pending row.
LEMMA OnlyClaimDelivers ==
    ASSUME IInv, [Next]_vars, NEW m \in Msg, status[m] = "pending", status'[m] = "delivered"
    PROVE  IsLaneHead(m) /\ ~LaneBusy(m)
<1> USE DEF rowVars, reportVars, turnVars
<1>0. /\ TurnInv /\ status \in [Msg -> RowStatus]
      /\ \A t \in turns : t.msg \in Msg
      /\ \A p \in probes : p.msg \in Msg
  BY DEF IInv, TypeOK, TurnInv, TurnTypeOK, Turn
<1>1. CASE \E n \in Msg : Enqueue(n)
  BY <1>0, <1>1 DEF Enqueue, BeginEnqueue, AbortEnqueue, CommitEnqueue
<1>2. CASE \E n \in Msg : Claim(n)
  <2>1. PICK n \in Msg : Claim(n)
    BY <1>2
  <2>2. n = m
    BY <1>0, <2>1 DEF Claim, Deliver
  <2> QED
    BY <2>1, <2>2 DEF Claim
<1>3. CASE \E t \in turns : SettleNative(t)
  BY <1>0, <1>3 DEF SettleNative, Record
<1>4. CASE \E n \in Msg, by \in {"http", "http_empty"} : ReportHttp(n, by)
  BY <1>0, <1>4 DEF ReportHttp, Record
<1>5. CASE \E p \in probes : SettleInterrupted(p)
  BY <1>0, <1>5 DEF SettleInterrupted, Record
<1>6. CASE (\E n \in Msg : ProbeInterrupted(n) \/ RelayDone(n)) \/ (\E l \in Lane : DeleteSession(l))
  BY <1>6 DEF ProbeInterrupted, RelayDone, DeleteSession
<1>7. CASE TurnNext /\ UNCHANGED <<rowVars, reportVars, probes, claimedFor>>
  BY <1>0, <1>7, TurnNextQuiet
<1>8. CASE UNCHANGED vars
  BY <1>8 DEF vars
<1> QED
  BY <1>1, <1>2, <1>3, <1>4, <1>5, <1>6, <1>7, <1>8 DEF Next

\* claim_next and lane_head: a row is claimed in an idle conversation, before
\* every other visible pending row of it.
THEOREM HeadFirst == Spec => ClaimsTheHead
<1>1. Init => Spaced
  BY DEF Init, TurnInit, Spaced
<1>2. IInv /\ Spaced /\ [Next]_vars =>
        [\A m \in Msg : status[m] = "pending" /\ status'[m] = "delivered" =>
            \A n \in Msg \ {m} : SameLane(m, n) =>
                /\ status[n] # "delivered"
                /\ status[n] = "pending" => Older(m, n)]_vars
  <2> SUFFICES ASSUME IInv, Spaced, [Next]_vars, NEW m \in Msg, status[m] = "pending",
                      status'[m] = "delivered", NEW n \in Msg \ {m}, SameLane(m, n)
               PROVE  status[n] # "delivered" /\ (status[n] = "pending" => Older(m, n))
    OBVIOUS
  <2>1. IsLaneHead(m) /\ ~LaneBusy(m)
    BY OnlyClaimDelivers
  <2>2. at[m] # at[n] /\ at[m] \in Nat /\ at[n] \in Nat
    BY DEF Spaced
  <2> QED
    BY <2>1, <2>2 DEF IsLaneHead, LaneBusy, Older
<1> QED
  BY <1>1, <1>2, SpacedStep, Invariance, PTL DEF Spec, ClaimsTheHead

-----------------------------------------------------------------------------
(* Refinement.                                                             *)

\* An empty queue is an initial state of TurnLane.
LEMMA InitRefines == Init => Abstract!Init
<1> SUFFICES ASSUME Init PROVE Abstract!Init
  OBVIOUS
<1>1. PhaseMap = [m \in Msg |-> "none"]
  BY DEF Init, TurnInit, PhaseMap, PhaseOf
<1>2. LaneMap \in [Msg -> LaneName]
  BY DEF Init, LaneMap, LaneOf, LaneName
<1> QED
  BY <1>1, <1>2 DEF Abstract!Init, Init, TurnInit

\* The row's conversation decides its abstract lane, and only that.
LEMMA LaneOfRow ==
    ASSUME TypeOK, NEW m \in Msg
    PROVE  /\ LaneOf(m) \in LaneName
           /\ \A n \in Msg : LaneOf(m) = LaneOf(n) => m = n \/ SameLane(m, n)
BY LaneAssumption DEF TypeOK, LaneOf, LaneName, SameLane

\* Only status moves a phase, and only conv a lane.
LEMMA Unmoved ==
    /\ UNCHANGED status => UNCHANGED PhaseMap
    /\ UNCHANGED conv => UNCHANGED LaneMap
BY DEF PhaseMap, PhaseOf, LaneMap, LaneOf

\* How a change of one row's status moves its phase.
LEMMA PhaseMoves ==
    ASSUME status \in [Msg -> RowStatus], NEW m \in Msg, NEW to \in RowStatus,
           status' = [status EXCEPT ![m] = to]
    PROVE  PhaseMap' = [PhaseMap EXCEPT ![m] =
                CASE to = "pending" -> "waiting"
                  [] to = "delivered" -> "active"
                  [] to = "completed" -> "done"
                  [] OTHER -> "none"]
BY DEF PhaseMap, PhaseOf, RowStatus

\* A row chooses its lane while it is uncommitted, and arrives with its commit.
LEMMA EnqueueRefines ==
    ASSUME IInv, NEW m \in Msg, Enqueue(m)
    PROVE  [Abstract!Next]_Abstract!vars
<1> USE DEF rowVars, reportVars
<1>0. /\ status \in [Msg -> RowStatus] 
      /\ conv \in [Msg -> Lane \cup {NoLane}]
      /\ TypeOK
  BY DEF IInv, TypeOK, TurnTypeOK
<1>1. ASSUME NEW l \in Lane \cup {NoLane}, BeginEnqueue(m, l) PROVE Abstract!Choose(m)
  <2>1. PhaseMap[m] = "none"
    BY <1>1 DEF BeginEnqueue, PhaseMap, PhaseOf
  <2>2. UNCHANGED PhaseMap
    BY <1>0, <1>1 DEF BeginEnqueue, PhaseMap, PhaseOf
  <2>3. LaneMap' = [LaneMap EXCEPT ![m] = IF l = NoLane THEN <<"row", m>> ELSE <<"conversation", l>>]
    BY <1>0, <1>1 DEF BeginEnqueue, LaneMap, LaneOf
  <2>4. (IF l = NoLane THEN <<"row", m>> ELSE <<"conversation", l>>) \in LaneName
    BY DEF LaneName
  <2> QED
    BY <1>1, <2>1, <2>2, <2>3, <2>4 DEF Abstract!Choose, BeginEnqueue
<1>2. CASE AbortEnqueue(m)
  <2>1. UNCHANGED PhaseMap
    BY <1>0, <1>2 DEF AbortEnqueue, PhaseMap, PhaseOf
  <2> QED
    BY <1>2, <2>1, Unmoved DEF AbortEnqueue, Abstract!vars
<1>3. CASE CommitEnqueue(m)
  <2>1. PhaseMap[m] = "none"
    BY <1>3 DEF CommitEnqueue, PhaseMap, PhaseOf
  <2>2. PhaseMap' = [PhaseMap EXCEPT ![m] = "waiting"]
    BY <1>0, <1>3, PhaseMoves DEF CommitEnqueue, RowStatus
  <2>3. LaneMap' = [LaneMap EXCEPT ![m] = LaneOf(m)] /\ LaneOf(m) \in LaneName
    BY <1>0, <1>3, LaneOfRow DEF CommitEnqueue, LaneMap, LaneOf
  <2>4. Abstract!Arrive(m)
    BY <1>3, <2>1, <2>2, <2>3 DEF Abstract!Arrive, CommitEnqueue
  <2> QED
    BY <2>4 DEF Abstract!Next
<1> QED
  BY <1>1, <1>2, <1>3 DEF Enqueue, Abstract!Next

\* A claim starts a job whose lane has no active one.
LEMMA ClaimRefines ==
    ASSUME IInv, NEW m \in Msg, Claim(m)
    PROVE  Abstract!Start(m)
<1> USE DEF rowVars, reportVars
<1>0. status \in [Msg -> RowStatus] /\ TypeOK
  BY DEF IInv, TypeOK, TurnTypeOK
<1>1. PhaseMap[m] = "waiting"
  BY DEF Claim, IsLaneHead, PhaseMap, PhaseOf
<1>2. \A k \in Msg : PhaseMap[k] = "active" => LaneMap[k] # LaneMap[m]
  <2> SUFFICES ASSUME NEW k \in Msg, PhaseMap[k] = "active" PROVE LaneOf(m) # LaneOf(k)
    BY DEF LaneMap
  <2>1. status[k] = "delivered" /\ status[m] = "pending"
    BY <1>0 DEF PhaseMap, PhaseOf, Claim, IsLaneHead, RowStatus
  <2> QED
    BY <1>0, <2>1, LaneOfRow DEF Claim, LaneBusy
<1>3. status' = [status EXCEPT ![m] = "delivered"]
  BY DEF Claim, Deliver
<1>4. PhaseMap' = [PhaseMap EXCEPT ![m] = "active"]
  BY <1>0, <1>3, PhaseMoves DEF RowStatus
<1>5. UNCHANGED <<LaneMap, consumed>>
  BY Unmoved DEF Claim
<1> QED
  BY <1>1, <1>2, <1>4, <1>5 DEF Abstract!Start

\* Whoever reports a row finishes its job.
LEMMA RecordRefines ==
    ASSUME IInv, NEW m \in Msg, NEW by, status[m] \in {"pending", "delivered"}, Record(m, by)
    PROVE  Abstract!Next
<1> USE DEF rowVars, reportVars
<1>0. status \in [Msg -> RowStatus]
  BY DEF IInv, TypeOK, TurnTypeOK
<1>1. PhaseMap[m] \in {"waiting", "active"}
  BY <1>0 DEF PhaseMap, PhaseOf
<1>2. PhaseMap' = [j \in Msg |-> IF j \in {m} THEN "done" ELSE PhaseMap[j]]
  BY <1>0 DEF Record, PhaseMap, PhaseOf
<1>3. UNCHANGED <<LaneMap, consumed>>
  BY Unmoved DEF Record
<1>4. Abstract!Finish({m})
  BY <1>1, <1>2, <1>3 DEF Abstract!Finish
<1> QED
  BY <1>4 DEF Abstract!Next

\* A worker's release takes the job back, which has not run; the guest runs
\* only a job that was handed over.
LEMMA TurnRefines ==
    ASSUME IInv, TurnNext, UNCHANGED conv
    PROVE  [Abstract!Next]_Abstract!vars
<1>0. status \in [Msg -> RowStatus] /\ TurnInv /\ UNCHANGED LaneMap
  BY Unmoved DEF IInv, TypeOK, TurnTypeOK, TurnInv
<1>1. ASSUME NEW m \in Msg, status[m] = "delivered", consumed[m] = 0,
             status' = [status EXCEPT ![m] = "pending"], UNCHANGED consumed
      PROVE  Abstract!TakeBack(m)
  <2>1. PhaseMap[m] = "active"
    BY <1>1 DEF PhaseMap, PhaseOf
  <2>2. PhaseMap' = [PhaseMap EXCEPT ![m] = "waiting"]
    BY <1>0, <1>1, PhaseMoves DEF RowStatus
  <2> QED
    BY <1>0, <1>1, <2>1, <2>2 DEF Abstract!TakeBack
<1>2. ASSUME NEW m \in Msg, status[m] \in {"delivered", "completed"}, consumed[m] = 0,
             consumed' = [consumed EXCEPT ![m] = 1], UNCHANGED status
      PROVE  Abstract!Run(m)
  <2>1. PhaseMap[m] \in {"active", "done"}
    BY <1>2 DEF PhaseMap, PhaseOf
  <2> QED
    BY <1>0, <1>2, <2>1, Unmoved DEF Abstract!Run
<1>3. CASE UNCHANGED <<status, consumed>>
  BY <1>0, <1>3, Unmoved DEF Abstract!vars
<1> QED
  BY <1>0, <1>1, <1>2, <1>3, TurnNextRows DEF Abstract!Next

\* Every step of the queue is a step of TurnLane, or none.
LEMMA StepRefines == IInv /\ [Next]_vars => [Abstract!Next]_Abstract!vars
<1> SUFFICES ASSUME IInv, [Next]_vars PROVE [Abstract!Next]_Abstract!vars
  OBVIOUS
<1> USE DEF rowVars, reportVars, turnVars
<1>0. /\ \A t \in turns : t.msg \in Msg
      /\ \A p \in probes : p.msg \in Msg
  BY DEF IInv, TypeOK, TurnTypeOK, Turn
<1>1. ASSUME UNCHANGED <<status, conv, consumed>> PROVE UNCHANGED Abstract!vars
  BY <1>1, Unmoved DEF Abstract!vars
<1>2. CASE \E m \in Msg : Enqueue(m)
  BY <1>2, EnqueueRefines
<1>3. CASE \E m \in Msg : Claim(m)
  BY <1>3, ClaimRefines DEF Abstract!Next
<1>4. CASE \E t \in turns : SettleNative(t)
  BY <1>0, <1>1, <1>4, RecordRefines DEF SettleNative
<1>5. CASE \E m \in Msg : \E by \in {"http", "http_empty"} : ReportHttp(m, by)
  BY <1>5, RecordRefines DEF ReportHttp
<1>6. CASE \E p \in probes : SettleInterrupted(p)
  BY <1>0, <1>1, <1>6, RecordRefines DEF SettleInterrupted
<1>7. CASE \/ \E m \in Msg : ProbeInterrupted(m) \/ RelayDone(m)
           \/ \E l \in Lane : DeleteSession(l)
  BY <1>1, <1>7 DEF ProbeInterrupted, RelayDone, DeleteSession
<1>8. CASE TurnNext /\ UNCHANGED <<rowVars, reportVars, probes, claimedFor>>
  BY <1>8, TurnRefines
<1>9. CASE UNCHANGED vars
  BY <1>1, <1>9 DEF vars
<1> QED
  BY <1>2, <1>3, <1>4, <1>5, <1>6, <1>7, <1>8, <1>9 DEF Next

\* Inputs consumed once, answers given once, notices true (record_report,
\* release_delivery, the reconciler's notices).
THEOREM Safety == Spec => []QueueSafety
BY ConsumptionSafety, AnswerSafety, NoticeSafety, PTL DEF QueueSafety

\* No step rewrites a result or settles for another owner.
THEOREM Rules == Spec => RowRules
BY FirstReport, SettlementOwner DEF RowRules

\* The ordinary queue implements TurnLane, with a conversation, or a row that
\* has none, as a lane.
THEOREM Refinement == Spec => RefinesTurnLane
BY InitRefines, StepRefines, Invariance, PTL DEF Spec, RefinesTurnLane, Abstract!Spec

-----------------------------------------------------------------------------
(* Wakes.                                                                  *)

\* Wakes counts with the same operators.
LEMMA SameCount ==
    /\ \A S : Wake!Cardinality(S) = Cardinality(S)
    /\ \A S : Wake!IsFiniteSet(S) = IsFiniteSet(S)
BY DEF Wake!Cardinality, Cardinality, Wake!IsFiniteSet, IsFiniteSet

\* There are no more tasks than lanes.
LEMMA FewTasks ==
    ASSUME Wake!TypeOK, Wake!FlagsFollowTasks
    PROVE  IsFiniteSet(tasks)
<1> DEFINE f == [t \in tasks |-> t.lane]
<1>1. f \in Injection(tasks, WakeLane)
  BY DEF Wake!TypeOK, Wake!Task, Wake!FlagsFollowTasks, Injection, IsInjective
<1> QED
  BY <1>1, WakeAssumption, FS_Injection

\* The bound holds as long as at most one task enters its turn for one that
\* leaves.
LEMMA BoundKept ==
    ASSUME Wake!WakeSafety, NEW t \in tasks, NEW u,
           Wake!InTurn' \subseteq Wake!InTurn \/
           (t \in Wake!InTurn /\ Wake!InTurn' \subseteq (Wake!InTurn \ {t}) \cup {u})
    PROVE  Wake!ParallelBound'
<1>1. /\ IsFiniteSet(Wake!InTurn) /\ Cardinality(Wake!InTurn) \in Nat
      /\ Cardinality(Wake!InTurn) <= MaxParallel
  BY FewTasks, SameCount, FS_Subset, FS_CardinalityType
     DEF Wake!WakeSafety, Wake!InTurn, Wake!ParallelBound
<1>2. \A S \in SUBSET Wake!InTurn : Cardinality(S) \in Nat /\ Cardinality(S) <= MaxParallel
  BY <1>1, FS_Subset, FS_CardinalityType, WakeAssumption
<1>3. CASE Wake!InTurn' \subseteq Wake!InTurn
  BY <1>2, <1>3, SameCount DEF Wake!ParallelBound
<1>4. CASE t \in Wake!InTurn /\ Wake!InTurn' \subseteq (Wake!InTurn \ {t}) \cup {u}
  <2> DEFINE Most == (Wake!InTurn \ {t}) \cup {u}
  <2>1. /\ IsFiniteSet(Wake!InTurn \ {t})
        /\ Cardinality(Wake!InTurn \ {t}) = Cardinality(Wake!InTurn) - 1
    BY <1>1, <1>4, FS_RemoveElement
  <2>2. /\ IsFiniteSet(Most) /\ Cardinality(Most) \in Nat
        /\ Cardinality(Most) <= Cardinality(Wake!InTurn \ {t}) + 1
    <3>1. Cardinality(Wake!InTurn \ {t}) \in Nat
      BY <2>1, FS_CardinalityType
    <3>2. /\ IsFiniteSet(Most)
          /\ Cardinality(Most) = IF u \in Wake!InTurn \ {t} THEN Cardinality(Wake!InTurn \ {t})
                                                           ELSE Cardinality(Wake!InTurn \ {t}) + 1
      BY <2>1, FS_AddElement
    <3> QED
      BY <3>1, <3>2
  <2>3. Cardinality(Wake!InTurn') \in Nat /\ Cardinality(Wake!InTurn') <= Cardinality(Most)
    BY <1>4, <2>2, FS_Subset, FS_CardinalityType
  <2>4. Cardinality(Wake!InTurn') <= MaxParallel
    BY <1>1, <2>1, <2>2, <2>3, WakeAssumption
  <2> QED
    BY <2>4, SameCount DEF Wake!ParallelBound
<1> QED
  BY <1>3, <1>4

\* A task goes on: flags and semaphore stay in step with the tasks.
LEMMA TaskMoves ==
    ASSUME Wake!WakeSafety, NEW t \in tasks, NEW u \in Wake!Task, u.lane = t.lane, u.sem = t.sem,
           Wake!To(t, u), laneAgain' \in {laneAgain, laneAgain \ {t.lane}},
           UNCHANGED <<accepting, wakeRunning, wakeAgain, drain, laneRunning, sem, heads, tail>>,
           gone' \in [WakeLane -> 0..MaxRows], busy' \subseteq WakeLane, owed' \subseteq owed
    PROVE  Wake!TypeOK' /\ Wake!FlagsFollowTasks' /\ Wake!OneSemaphore'
<1>1. tasks' = (tasks \ {t}) \cup {u}
  BY DEF Wake!To
<1>2. Wake!TypeOK'
  BY <1>1 DEF Wake!WakeSafety, Wake!TypeOK
<1>3. {s.lane : s \in tasks'} = {s.lane : s \in tasks}
  BY <1>1
<1>4. Wake!FlagsFollowTasks'
  BY <1>1, <1>3 DEF Wake!WakeSafety, Wake!FlagsFollowTasks
<1>5. Wake!OneSemaphore'
  BY <1>1 DEF Wake!WakeSafety, Wake!OneSemaphore
<1> QED
  BY <1>2, <1>4, <1>5

\* A task ends with its flags; the last one takes the semaphore along.
LEMMA TaskEnds ==
    ASSUME Wake!WakeSafety, NEW t \in tasks, Wake!EndLane(t),
           UNCHANGED <<accepting, wakeRunning, wakeAgain, drain, heads, tail>>,
           gone' \in [WakeLane -> 0..MaxRows], busy' \subseteq WakeLane, owed' \subseteq owed,
           t.lane \in owed' => t.lane \notin laneAgain /\ t.pc # "list"
    PROVE  Wake!WakeSafety'
<1>1. /\ tasks' = tasks \ {t} /\ laneRunning' = laneRunning \ {t.lane}
      /\ laneAgain' = laneAgain \ {t.lane}
      /\ sem' = IF wakeRunning \/ laneRunning' # {} THEN sem ELSE NoSem
  BY DEF Wake!EndLane, Wake!Forget
<1>2. \A s \in tasks' : s.lane # t.lane
  BY <1>1 DEF Wake!WakeSafety, Wake!FlagsFollowTasks
<1>3. laneRunning' = {s.lane : s \in tasks'}
  BY <1>1, <1>2 DEF Wake!WakeSafety, Wake!FlagsFollowTasks
<1>4. Wake!TypeOK'
  BY <1>1 DEF Wake!WakeSafety, Wake!TypeOK
<1>5. Wake!FlagsFollowTasks'
  BY <1>1, <1>3 DEF Wake!WakeSafety, Wake!FlagsFollowTasks
<1>6. Wake!OneSemaphore'
  BY <1>1, <1>3 DEF Wake!WakeSafety, Wake!OneSemaphore
<1>7. Wake!ParallelBound'
  BY <1>1, BoundKept DEF Wake!InTurn
<1>8. Wake!NotedWakeIsServed'
  <2> SUFFICES ASSUME NEW l \in owed'
               PROVE  l \in laneAgain' \/ \E s \in tasks' : s.lane = l /\ s.pc = "list"
    BY DEF Wake!NotedWakeIsServed
  <2>1. l \in laneAgain \/ \E s \in tasks : s.lane = l /\ s.pc = "list"
    BY DEF Wake!WakeSafety, Wake!NotedWakeIsServed
  <2>2. l # t.lane
    BY <2>1 DEF Wake!WakeSafety, Wake!FlagsFollowTasks
  <2> QED
    BY <1>1, <2>1, <2>2
<1> QED
  BY <1>4, <1>5, <1>6, <1>7, <1>8 DEF Wake!WakeSafety

\* The notes survive a task that goes on, as long as its own is kept or turned
\* into a read.
LEMMA NotesKept ==
    ASSUME Wake!WakeSafety, NEW t \in tasks, NEW u, u.lane = t.lane, Wake!To(t, u),
           owed' \subseteq owed, laneAgain \ {t.lane} \subseteq laneAgain',
           t.lane \in owed' => \/ u.pc = "list"
                               \/ t.pc # "list" /\ (t.lane \in laneAgain => t.lane \in laneAgain')
    PROVE  Wake!NotedWakeIsServed'
<1> SUFFICES ASSUME NEW l \in owed'
             PROVE  l \in laneAgain' \/ \E s \in tasks' : s.lane = l /\ s.pc = "list"
  BY DEF Wake!NotedWakeIsServed
<1>1. l \in laneAgain \/ \E s \in tasks : s.lane = l /\ s.pc = "list"
  BY DEF Wake!WakeSafety, Wake!NotedWakeIsServed
<1>2. tasks' = (tasks \ {t}) \cup {u}
  BY DEF Wake!To
<1>3. CASE l # t.lane
  BY <1>1, <1>2, <1>3
<1>4. CASE l = t.lane /\ u.pc = "list"
  BY <1>2, <1>4
<1>5. CASE l = t.lane /\ u.pc # "list"
  BY <1>1, <1>5 DEF Wake!WakeSafety, Wake!FlagsFollowTasks
<1> QED
  BY <1>3, <1>4, <1>5

\* The head of a lane is one of its rows.
LEMMA HeadIsRow ==
    ASSUME Wake!TypeOK, NEW l \in WakeLane
    PROVE  Wake!HeadOf(l) \in 0..MaxRows
<1>1. tail[l] \in 0..MaxRows /\ gone[l] \in 0..MaxRows
  BY DEF Wake!TypeOK
<1> QED
  BY <1>1, WakeAssumption DEF Wake!HeadOf


\* Steps of the queue and of the process change no flag and no task.
LEMMA QueueMoves ==
    ASSUME Wake!WakeSafety,
           UNCHANGED <<wakeRunning, wakeAgain, laneRunning, laneAgain, sem, heads, tasks, drain, owed>>,
           accepting' \in BOOLEAN, tail' \in [WakeLane -> 0..MaxRows],
           gone' \in [WakeLane -> 0..MaxRows], busy' \subseteq WakeLane
    PROVE  Wake!WakeSafety'
<1>1. Wake!TypeOK' /\ Wake!FlagsFollowTasks' /\ Wake!OneSemaphore' /\ Wake!NotedWakeIsServed'
  BY DEF Wake!WakeSafety, Wake!TypeOK, Wake!FlagsFollowTasks, Wake!OneSemaphore,
         Wake!NotedWakeIsServed
<1>2. Wake!ParallelBound'
  BY SameCount DEF Wake!WakeSafety, Wake!ParallelBound, Wake!InTurn
<1> QED
  BY <1>1, <1>2 DEF Wake!WakeSafety

\* Rows come and go.
LEMMA WakeRowsInv ==
    ASSUME Wake!WakeSafety, NEW l \in WakeLane,
           Wake!Commit(l) \/ Wake!Settle(l) \/ Wake!Elsewhere(l)
    PROVE  Wake!WakeSafety'
<1> USE DEF Wake!flagVars
<1>0. Wake!TypeOK /\ tail[l] \in 0..MaxRows /\ gone[l] \in 0..MaxRows
  BY DEF Wake!WakeSafety, Wake!TypeOK
<1>1. CASE Wake!Commit(l)
  <2>1. tail' \in [WakeLane -> 0..MaxRows]
    BY <1>0, <1>1, WakeAssumption DEF Wake!Commit, Wake!TypeOK
  <2> QED
    BY <1>0, <1>1, <2>1, QueueMoves DEF Wake!Commit, Wake!TypeOK
<1>2. CASE Wake!Settle(l)
  <2>1. gone' \in [WakeLane -> 0..MaxRows] /\ busy' \subseteq WakeLane
    BY <1>0, <1>2, WakeAssumption DEF Wake!Settle, Wake!TypeOK
  <2> QED
    BY <1>0, <1>2, <2>1, QueueMoves DEF Wake!Settle, Wake!TypeOK
<1>3. CASE Wake!Elsewhere(l)
  <2>1. busy' \subseteq WakeLane
    BY <1>0, <1>3 DEF Wake!Elsewhere, Wake!TypeOK
  <2> QED
    BY <1>0, <1>3, <2>1, QueueMoves DEF Wake!Elsewhere, Wake!TypeOK
<1> QED
  BY <1>1, <1>2, <1>3

\* Only the flags and the position of the drain task move.
LEMMA DrainMoves ==
    ASSUME Wake!WakeSafety,
           UNCHANGED <<accepting, laneRunning, laneAgain, tasks, tail, gone, busy, owed>>,
           {wakeRunning', wakeAgain'} \subseteq BOOLEAN, drain' \in {"none", "new", "list", "page"},
           heads' \in [WakeLane -> 0..MaxRows],
           wakeRunning' <=> drain' # "none", wakeAgain' => wakeRunning',
           \/ sem' = sem /\ (wakeRunning => wakeRunning')
           \/ sem' = Wake!Forget(wakeRunning', laneRunning, sem)
    PROVE  Wake!WakeSafety'
<1>1. Wake!TypeOK' /\ Wake!FlagsFollowTasks' /\ Wake!NotedWakeIsServed'
  BY DEF Wake!WakeSafety, Wake!TypeOK, Wake!FlagsFollowTasks, Wake!NotedWakeIsServed, Wake!Forget
<1>2. Wake!OneSemaphore'
  BY DEF Wake!WakeSafety, Wake!FlagsFollowTasks, Wake!OneSemaphore, Wake!Forget
<1>3. Wake!ParallelBound'
  BY SameCount DEF Wake!WakeSafety, Wake!ParallelBound, Wake!InTurn
<1> QED
  BY <1>1, <1>2, <1>3 DEF Wake!WakeSafety

\* The drain is asked for, starts, reads the heads and may fail.
LEMMA DrainInv ==
    ASSUME Wake!WakeSafety,
           Wake!Schedule \/ Wake!StartDrain \/ Wake!ReadHeads \/ Wake!DrainFails
    PROVE  Wake!WakeSafety'
<1> USE DEF Wake!flagVars, Wake!rowVars
<1>0. Wake!TypeOK /\ Wake!FlagsFollowTasks
  BY DEF Wake!WakeSafety
<1>1. CASE Wake!Schedule
  BY <1>0, <1>1, DrainMoves DEF Wake!Schedule, Wake!TypeOK, Wake!FlagsFollowTasks
<1>2. CASE Wake!StartDrain
  BY <1>0, <1>2, DrainMoves DEF Wake!StartDrain, Wake!TypeOK, Wake!FlagsFollowTasks
<1>3. CASE Wake!ReadHeads
  BY <1>0, <1>3, DrainMoves, HeadIsRow DEF Wake!ReadHeads, Wake!TypeOK, Wake!FlagsFollowTasks
<1>4. CASE Wake!DrainFails
  <2>1. [l \in WakeLane |-> 0] \in [WakeLane -> 0..MaxRows]
    BY WakeAssumption
  <2> QED
    BY <1>0, <1>4, <2>1, DrainMoves DEF Wake!DrainFails, Wake!TypeOK, Wake!FlagsFollowTasks
<1> QED
  BY <1>1, <1>2, <1>3, <1>4

\* The heads start the lanes that have no task, under the agent's semaphore,
\* and leave a note with the others.
LEMMA ApplyHeadsInv == ASSUME Wake!WakeSafety, Wake!ApplyHeads PROVE Wake!WakeSafety'
<1> USE DEF Wake!rowVars
<1>0. Wake!TypeOK /\ Wake!FlagsFollowTasks /\ Wake!OneSemaphore
  BY DEF Wake!WakeSafety
<1> DEFINE found == IF accepting THEN {l \in WakeLane : heads[l] # 0} ELSE {}
           started == found \ laneRunning
           again == wakeAgain /\ accepting
           fresh(s) == {[lane |-> l, sem |-> s, row |-> heads[l], pc |-> "gate"] : l \in started}
<1>1. PICK s \in Sem :
          /\ IF sem # NoSem THEN s = sem ELSE \A t \in tasks : t.sem # s
          /\ laneRunning' = laneRunning \cup started
          /\ laneAgain' = laneAgain \cup (found \cap laneRunning)
          /\ owed' = owed \cup (found \cap laneRunning)
          /\ tasks' = tasks \cup fresh(s)
          /\ sem' = Wake!Forget(again, laneRunning', IF started # {} THEN s ELSE sem)
  BY DEF Wake!ApplyHeads
<1>2. /\ wakeAgain' = FALSE /\ wakeRunning' = again /\ drain' = IF again THEN "list" ELSE "none"
      /\ heads' = [l \in WakeLane |-> 0] /\ UNCHANGED <<accepting, tail, gone, busy>>
  BY DEF Wake!ApplyHeads
<1>3. /\ found \subseteq WakeLane /\ laneRunning \subseteq WakeLane /\ again \in BOOLEAN
      /\ fresh(s) \subseteq Wake!Task
  BY <1>0 DEF Wake!TypeOK, Wake!Task
<1>4. \A u \in fresh(s) : u.lane \in started /\ u.sem = s /\ u.pc = "gate"
  OBVIOUS
<1>5. sem = NoSem => tasks = {}
  BY <1>0, WakeAssumption DEF Wake!TypeOK, Wake!Task, Wake!OneSemaphore
<1>6. Wake!TypeOK'
  <2>1. [l \in WakeLane |-> 0] \in [WakeLane -> 0..MaxRows]
    BY WakeAssumption
  <2>2. {accepting', wakeRunning', wakeAgain'} \subseteq BOOLEAN /\ drain' \in {"none", "new", "list", "page"}
    BY <1>0, <1>2, <1>3 DEF Wake!TypeOK
  <2>3. laneRunning' \subseteq WakeLane /\ laneAgain' \subseteq WakeLane /\ owed' \subseteq WakeLane
    BY <1>0, <1>1, <1>3 DEF Wake!TypeOK
  <2>4. sem' \in Sem \cup {NoSem} /\ tasks' \subseteq Wake!Task
    BY <1>0, <1>1, <1>3 DEF Wake!TypeOK, Wake!Forget
  <2> QED
    BY <1>0, <1>2, <2>1, <2>2, <2>3, <2>4 DEF Wake!TypeOK
<1>7. Wake!FlagsFollowTasks'
  <2>1. laneRunning' = {t.lane : t \in tasks'}
    <3>1. started = {u.lane : u \in fresh(s)}
      <4>1. ASSUME NEW l \in started PROVE \E u \in fresh(s) : u.lane = l
        <5>1. [lane |-> l, sem |-> s, row |-> heads[l], pc |-> "gate"] \in fresh(s)
          OBVIOUS
        <5> QED
          BY <5>1
      <4> QED
        BY <1>4, <4>1
    <3> QED
      BY <1>0, <1>1, <3>1 DEF Wake!FlagsFollowTasks
  <2>2. \A t, u \in tasks' : t.lane = u.lane => t = u
    <3>1. \A t \in tasks, u \in fresh(s) : t.lane # u.lane
      BY <1>0, <1>4 DEF Wake!FlagsFollowTasks
    <3>2. \A t, u \in fresh(s) : t.lane = u.lane => t = u
      OBVIOUS
    <3> QED
      BY <1>0, <1>1, <3>1, <3>2 DEF Wake!FlagsFollowTasks
  <2>3. laneAgain' \subseteq laneRunning'
    BY <1>0, <1>1 DEF Wake!FlagsFollowTasks
  <2> QED
    BY <1>2, <2>1, <2>2, <2>3 DEF Wake!FlagsFollowTasks
<1>8. Wake!OneSemaphore'
  <2>1. \A t \in tasks' : t.sem = s
    BY <1>0, <1>1, <1>4, <1>5 DEF Wake!OneSemaphore
  <2>2. tasks' # {} => sem' = s
    <3>1. tasks' # {} => laneRunning' # {}
      BY <1>7 DEF Wake!FlagsFollowTasks
    <3>2. tasks' # {} /\ started = {} => sem = s
      BY <1>1, <1>4, <1>5
    <3> QED
      BY <1>1, <3>1, <3>2 DEF Wake!Forget
  <2>3. sem' # NoSem => wakeRunning' \/ laneRunning' # {}
    BY <1>1, <1>2 DEF Wake!Forget
  <2> QED
    BY <2>1, <2>2, <2>3 DEF Wake!OneSemaphore
<1>9. Wake!ParallelBound'
  <2>1. Wake!InTurn' = Wake!InTurn
    BY <1>1, <1>4 DEF Wake!InTurn
  <2> QED
    BY <2>1, SameCount DEF Wake!WakeSafety, Wake!ParallelBound
<1>10. Wake!NotedWakeIsServed'
  BY <1>1 DEF Wake!WakeSafety, Wake!NotedWakeIsServed
<1> QED
  BY <1>6, <1>7, <1>8, <1>9, <1>10 DEF Wake!WakeSafety

\* After a turn, or an empty read, the task looks again or ends.
LEMMA AfterTurnInv ==
    ASSUME Wake!WakeSafety, NEW t \in tasks, Wake!AfterTurn(t), t.pc # "list",
           UNCHANGED <<accepting, wakeRunning, wakeAgain, drain, heads, tail>>,
           gone' \in [WakeLane -> 0..MaxRows], busy' \subseteq WakeLane
    PROVE  Wake!WakeSafety'
<1>1. CASE t.lane \in laneAgain
  <2> DEFINE u == [t EXCEPT !.pc = "list"]
  <2>1. /\ laneAgain' = laneAgain \ {t.lane} /\ Wake!To(t, u)
        /\ UNCHANGED <<laneRunning, sem, owed>>
    BY <1>1 DEF Wake!AfterTurn
  <2>2. u \in Wake!Task /\ u.lane = t.lane /\ u.sem = t.sem /\ u.pc = "list"
    BY DEF Wake!WakeSafety, Wake!TypeOK, Wake!Task
  <2> HIDE DEF u
  <2>3. Wake!TypeOK' /\ Wake!FlagsFollowTasks' /\ Wake!OneSemaphore'
    BY <2>1, <2>2, TaskMoves
  <2>4. Wake!NotedWakeIsServed'
    BY <2>1, <2>2, NotesKept
  <2>5. Wake!ParallelBound'
    BY <2>1, <2>2, BoundKept DEF Wake!To, Wake!InTurn
  <2> QED
    BY <2>3, <2>4, <2>5 DEF Wake!WakeSafety
<1>2. CASE t.lane \notin laneAgain
  BY <1>2, TaskEnds DEF Wake!AfterTurn
<1> QED
  BY <1>1, <1>2

\* The first waiter gets a permit: there was one left.
LEMMA EnterInv == ASSUME Wake!WakeSafety, NEW t \in tasks, Wake!Enter(t) PROVE Wake!WakeSafety'
<1> USE DEF Wake!rowVars
<1>0. Wake!TypeOK
  BY DEF Wake!WakeSafety
<1>1. CASE ~accepting
  BY <1>0, <1>1, TaskEnds DEF Wake!Enter, Wake!TypeOK
<1>2. CASE accepting
  <2> DEFINE u == [t EXCEPT !.pc = "turn"]
  <2>1. /\ t.pc = "gate" /\ Wake!To(t, u) /\ Wake!Permits(t.sem) > 0
        /\ UNCHANGED <<accepting, wakeRunning, wakeAgain, drain, heads, tail, gone, busy>>
        /\ UNCHANGED <<laneRunning, laneAgain, sem, owed>>
    BY <1>2 DEF Wake!Enter
  <2>2. u \in Wake!Task /\ u.lane = t.lane /\ u.sem = t.sem /\ u.pc = "turn"
    BY <1>0 DEF Wake!TypeOK, Wake!Task
  <2> HIDE DEF u
  <2>3. Wake!TypeOK' /\ Wake!FlagsFollowTasks' /\ Wake!OneSemaphore'
    BY <1>0, <2>1, <2>2, TaskMoves DEF Wake!TypeOK
  <2>4. Wake!NotedWakeIsServed'
    BY <2>1, <2>2, NotesKept
  <2>5. /\ IsFiniteSet(Wake!InTurn) /\ Cardinality(Wake!InTurn) \in Nat
        /\ Cardinality(Wake!InTurn) < MaxParallel
    <3>1. Wake!InTurn = {v \in tasks : v.sem = t.sem /\ v.pc \in {"turn", "run"}}
      BY DEF Wake!WakeSafety, Wake!OneSemaphore, Wake!InTurn
    <3>2. IsFiniteSet(Wake!InTurn) /\ Cardinality(Wake!InTurn) \in Nat
      BY FewTasks, FS_Subset, FS_CardinalityType DEF Wake!WakeSafety, Wake!InTurn
    <3>3. MaxParallel - Cardinality(Wake!InTurn) > 0
      BY <2>1, <3>1, SameCount DEF Wake!Permits
    <3> QED
      BY <3>2, <3>3, WakeAssumption
  <2>6. Wake!ParallelBound'
    <3>1. Wake!InTurn' = Wake!InTurn \cup {u}
      BY <2>1, <2>2 DEF Wake!To, Wake!InTurn
    <3>2. Cardinality(Wake!InTurn \cup {u}) =
            IF u \in Wake!InTurn THEN Cardinality(Wake!InTurn) ELSE Cardinality(Wake!InTurn) + 1
      BY <2>5, FS_AddElement
    <3>3. IsFiniteSet(Wake!InTurn \cup {u}) /\ Cardinality(Wake!InTurn \cup {u}) \in Nat
      BY <2>5, FS_AddElement, FS_CardinalityType
    <3>4. Cardinality(Wake!InTurn') <= MaxParallel
      BY <2>5, <3>1, <3>2, <3>3, WakeAssumption
    <3> QED
      BY <3>4, SameCount DEF Wake!ParallelBound
  <2> QED
    BY <2>3, <2>4, <2>6 DEF Wake!WakeSafety
<1> QED
  BY <1>1, <1>2

\* A claim, and a read of the lane's head.
LEMMA ClaimAndReadInv ==
    ASSUME Wake!WakeSafety, NEW t \in tasks, Wake!ClaimRow(t) \/ Wake!ReadLane(t)
    PROVE  Wake!WakeSafety'
<1> USE DEF Wake!rowVars, Wake!flagVars
<1>0. Wake!TypeOK /\ t \in Wake!Task /\ t.lane \in WakeLane
  BY DEF Wake!WakeSafety, Wake!TypeOK, Wake!Task
<1>1. PICK u \in Wake!Task :
          /\ Wake!To(t, u) /\ u.lane = t.lane /\ u.sem = t.sem
          /\ \/ t.pc = "turn" /\ u.pc = "run" /\ owed' = owed
             \/ t.pc = "list" /\ u.pc = "head" /\ owed' = owed \ {t.lane}
  <2>1. CASE Wake!ClaimRow(t)
    <3>1. [t EXCEPT !.pc = "run"] \in Wake!Task
      BY <1>0 DEF Wake!Task
    <3> QED
      BY <1>0, <2>1, <3>1 DEF Wake!ClaimRow, Wake!Task
  <2>2. CASE Wake!ReadLane(t)
    <3>1. [t EXCEPT !.pc = "head", !.row = Wake!HeadOf(t.lane)] \in Wake!Task
      BY <1>0, HeadIsRow DEF Wake!Task
    <3> QED
      BY <1>0, <2>2, <3>1 DEF Wake!ReadLane, Wake!Task
  <2> QED
    BY <2>1, <2>2
<1>2. /\ UNCHANGED <<accepting, wakeRunning, wakeAgain, drain, laneRunning, laneAgain, sem, heads, tail, gone>>
      /\ busy' \subseteq WakeLane
  BY <1>0 DEF Wake!ClaimRow, Wake!ReadLane, Wake!TypeOK
<1>3. Wake!TypeOK' /\ Wake!FlagsFollowTasks' /\ Wake!OneSemaphore'
  BY <1>0, <1>1, <1>2, TaskMoves DEF Wake!TypeOK
<1>4. Wake!NotedWakeIsServed'
  BY <1>1, <1>2, NotesKept
<1>5. Wake!ParallelBound'
  BY <1>1, BoundKept DEF Wake!To, Wake!InTurn
<1> QED
  BY <1>3, <1>4, <1>5 DEF Wake!WakeSafety

\* The end of a turn, of a missed claim and of a read.
LEMMA TurnEndsInv ==
    ASSUME Wake!WakeSafety, NEW t \in tasks,
           Wake!ClaimMissed(t) \/ Wake!EndTurn(t) \/ Wake!TakeHead(t) \/ Wake!LaneFails(t)
    PROVE  Wake!WakeSafety'
<1> USE DEF Wake!rowVars
<1>0. Wake!TypeOK /\ t \in Wake!Task /\ t.row \in 0..MaxRows
  BY DEF Wake!WakeSafety, Wake!TypeOK, Wake!Task
<1>1. CASE Wake!ClaimMissed(t)
  BY <1>0, <1>1, AfterTurnInv DEF Wake!ClaimMissed, Wake!TypeOK
<1>2. CASE Wake!EndTurn(t)
  <2>1. gone' \in [WakeLane -> 0..MaxRows] /\ busy' \subseteq WakeLane
    BY <1>0, <1>2 DEF Wake!EndTurn, Wake!TypeOK
  <2> QED
    BY <1>2, <2>1, AfterTurnInv DEF Wake!EndTurn
<1>3. CASE Wake!TakeHead(t) /\ t.row = 0
  BY <1>0, <1>3, AfterTurnInv DEF Wake!TakeHead, Wake!TypeOK
<1>4. CASE Wake!TakeHead(t) /\ t.row # 0
  <2> DEFINE u == [t EXCEPT !.pc = "gate"]
  <2>1. /\ t.pc = "head" /\ Wake!To(t, u)
        /\ UNCHANGED <<accepting, wakeRunning, wakeAgain, drain, heads, tail, gone, busy>>
        /\ UNCHANGED <<laneRunning, laneAgain, sem, owed>>
    BY <1>4 DEF Wake!TakeHead
  <2>2. u \in Wake!Task /\ u.lane = t.lane /\ u.sem = t.sem /\ u.pc = "gate"
    BY <1>0 DEF Wake!Task
  <2> HIDE DEF u
  <2>3. Wake!TypeOK' /\ Wake!FlagsFollowTasks' /\ Wake!OneSemaphore'
    BY <1>0, <2>1, <2>2, TaskMoves DEF Wake!TypeOK
  <2>4. Wake!NotedWakeIsServed'
    BY <2>1, <2>2, NotesKept
  <2>5. Wake!ParallelBound'
    BY <2>1, <2>2, BoundKept DEF Wake!To, Wake!InTurn
  <2> QED
    BY <2>3, <2>4, <2>5 DEF Wake!WakeSafety
<1>5. CASE Wake!LaneFails(t)
  BY <1>0, <1>5, TaskEnds DEF Wake!LaneFails, Wake!TypeOK
<1> QED
  BY <1>1, <1>2, <1>3, <1>4, <1>5

\* Every step of the wake scheduler keeps its books.
LEMMA WakeStep == Wake!WakeSafety /\ [Wake!Next]_(Wake!vars) => Wake!WakeSafety'
<1> SUFFICES ASSUME Wake!WakeSafety, [Wake!Next]_(Wake!vars) PROVE Wake!WakeSafety'
  OBVIOUS
<1>0. Wake!TypeOK
  BY DEF Wake!WakeSafety
<1>1. CASE Wake!CloseAdmission \/ Wake!OpenAdmission \/ UNCHANGED Wake!vars
  BY <1>0, <1>1, QueueMoves
     DEF Wake!CloseAdmission, Wake!OpenAdmission, Wake!vars, Wake!flagVars, Wake!rowVars, Wake!TypeOK
<1>2. CASE \E t \in tasks : Wake!LaneStep(t) \/ Wake!LaneFails(t)
  BY <1>2, EnterInv, ClaimAndReadInv, TurnEndsInv DEF Wake!LaneStep
<1> QED
  BY <1>1, <1>2, WakeRowsInv, DrainInv, ApplyHeadsInv DEF Wake!Next

\* An idle agent's books are in order.
LEMMA WakeInit == Wake!Init => Wake!WakeSafety
<1> SUFFICES ASSUME Wake!Init PROVE Wake!WakeSafety
  OBVIOUS
<1>1. Wake!TypeOK
  <2>1. [l \in WakeLane |-> 0] \in [WakeLane -> 0..MaxRows]
    BY WakeAssumption
  <2> QED
    BY <2>1 DEF Wake!Init, Wake!TypeOK
<1>4. Wake!FlagsFollowTasks /\ Wake!OneSemaphore /\ Wake!NotedWakeIsServed
  BY DEF Wake!Init, Wake!FlagsFollowTasks, Wake!OneSemaphore, Wake!NotedWakeIsServed
<1>2. Wake!InTurn = {}
  BY DEF Wake!Init, Wake!InTurn
<1>3. Wake!ParallelBound
  BY <1>2, SameCount, FS_EmptySet, WakeAssumption DEF Wake!ParallelBound
<1> QED
  BY <1>1, <1>3, <1>4 DEF Wake!WakeSafety

\* _schedule_inbox_wake, its drain and its lane tasks: no flag without a task,
\* no second task of a lane, one semaphore, the bound on parallel turns, and no
\* note forgotten.
THEOREM WakesSafe == Wake!Spec => []WakeSafety
BY WakeInit, WakeStep, PTL DEF Wake!Spec, WakeSafety

\* Both invariants, of the specification that TLC checks.
THEOREM QueueInvariant == MCSpec => [](IInv /\ WakeSafety)
<1>1. MCInit => IInv /\ Wake!WakeSafety
  BY InitInv, WakeInit DEF MCInit
<1>2. IInv /\ Wake!WakeSafety /\ [MCNext]_<<moving, vars, wakeVars>> => IInv' /\ Wake!WakeSafety'
  <2> SUFFICES ASSUME IInv, Wake!WakeSafety, [MCNext]_<<moving, vars, wakeVars>>
               PROVE  IInv' /\ Wake!WakeSafety'
    OBVIOUS
  <2>1. CASE UNCHANGED vars
    <3>1. [Next]_vars
      BY <2>1
    <3>2. IInv'
      BY <3>1, NextInv
    <3>3. [Wake!Next]_(Wake!vars)
      BY <2>1 DEF MCNext, wakeVars, Wake!vars, Wake!flagVars, Wake!rowVars
    <3> QED
      BY <3>2, <3>3, WakeStep
  <2>2. CASE UNCHANGED wakeVars
    <3>1. UNCHANGED Wake!vars
      BY <2>2 DEF wakeVars, Wake!vars, Wake!flagVars, Wake!rowVars
    <3>2. [Next]_vars
      BY <2>2 DEF MCNext
    <3> QED
      BY <3>1, <3>2, NextInv, WakeStep
  <2> QED
    BY <2>1, <2>2 DEF MCNext
<1> QED
  BY <1>1, <1>2, PTL DEF MCSpec, WakeSafety
=============================================================================
