-------------------------- MODULE SharedLaneProofs --------------------------
(***************************************************************************)
(* The safety of the Shared lane, for every set of rows, originals, owners *)
(* and claim stamps and for every limit: IInv is inductive, and from it    *)
(* follow the lane's order, the integrity of bursts, the silence of        *)
(* cancelled ones, the rules of claims and results, and the refinement of  *)
(* TurnLane.                                                               *)
(***************************************************************************)
EXTENDS SharedLane, NativeTurnProofs, FiniteSetTheorems, WellFoundedInduction

-----------------------------------------------------------------------------
(* The tail of the lane.                                                   *)

\* A bounded set of numbers with 0 has a maximum.
LEMMA MaxOfBounded ==
    ASSUME NEW S \in SUBSET Nat, 0 \in S, NEW k \in Nat, \A x \in S : x <= k
    PROVE  Max(S) \in S /\ \A x \in S : x <= Max(S)
<1> DEFINE U == {u \in Nat : \A x \in S : x <= u}
           R == OpToRel(<, Nat)
<1>1. U # {} /\ U \subseteq Nat
  OBVIOUS
<1>2. PICK u \in U : \A v \in U : ~ (<<v, u>> \in R)
  <2> HIDE DEF U, R
  <2>1. IsWellFoundedOn(R, Nat)
    BY NatLessThanWellFounded DEF R
  <2> QED
    BY <1>1, <2>1, WFMin
<1>3. \A v \in U : ~ (v < u)
  BY <1>2 DEF OpToRel
<1>4. u \in S
  <2> SUFFICES ASSUME u \notin S PROVE FALSE
    OBVIOUS
  <2>1. u # 0 /\ u \in Nat
    OBVIOUS
  <2>2. \A x \in S : x \in Nat /\ x <= u /\ x # u
    OBVIOUS
  <2>3. u - 1 \in Nat /\ \A x \in S : x <= u - 1
    BY <2>1, <2>2
  <2>4. u - 1 \in U /\ u - 1 < u
    BY <2>1, <2>3
  <2> QED
    BY <1>3, <2>4
<1>5. \A x \in S : u >= x
  OBVIOUS
<1>6. Max(S) \in S /\ \A x \in S : Max(S) >= x
  <2> HIDE DEF U, R
  <2> QED
    BY <1>4, <1>5 DEF Max
<1> QED
  BY <1>6

\* The tail of a set of rows whose created_at is bounded.
LEMMA TailOfRows ==
    ASSUME NEW a \in [Msg -> Nat], NEW L \in SUBSET Msg, NEW k \in Nat, \A m \in L : a[m] <= k
    PROVE  LET tail == Max({0} \cup {a[m] : m \in L})
           IN  /\ tail = 0 \/ \E m \in L : a[m] = tail
               /\ \A m \in L : a[m] <= tail
<1> DEFINE S == {0} \cup {a[m] : m \in L}
<1>1. S \in SUBSET Nat /\ 0 \in S /\ \A x \in S : x <= k
  OBVIOUS
<1>2. Max(S) \in S /\ \A x \in S : x <= Max(S)
  <2> HIDE DEF S
  <2> QED
    BY <1>1, MaxOfBounded
<1> HIDE DEF S
<1>3. (Max(S) = 0 \/ \E m \in L : a[m] = Max(S)) /\ \A m \in L : a[m] <= Max(S)
  BY <1>2 DEF S
<1> QED
  BY <1>3 DEF S

\* The tail is a number, and not before any row of the lane.
LEMMA TailType == TypeOK /\ TailIsLast => TailAt \in Nat
BY DEF TypeOK, TailIsLast

\* What a step does to the tail as long as it inserts no row more than one
\* after it.
LEMMA TailNext ==
    ASSUME TypeOK, TypeOK', TailIsLast, 
           \A m \in Msg : InLane(m)' => (InLane(m) /\ at'[m] = at[m]) \/ at'[m] = TailAt + 1
    PROVE  TailIsLast'
<1>1. TailAt \in Nat /\ TailAt + 1 \in Nat
  BY TailType
<1> DEFINE L == {n \in Msg : InLane(n)'}
<1>2. at' \in [Msg -> Nat] /\ at \in [Msg -> Nat]
  BY DEF TypeOK
<1>3. \A m \in L : at'[m] <= TailAt + 1
  BY <1>1, <1>2 DEF TailIsLast
<1>4. LET tail == Max({0} \cup {at'[m] : m \in L})
      IN  /\ tail = 0 \/ \E m \in L : at'[m] = tail
          /\ \A m \in L : at'[m] <= tail
  <2> HIDE DEF L
  <2>1. L \in SUBSET Msg
    BY DEF L
  <2> QED
    BY <1>1, <1>2, <1>3, <2>1, TailOfRows
<1>5. TailAt' = Max({0} \cup {at'[m] : m \in L})
  BY DEF TailAt
<1> QED
  BY <1>4, <1>5 DEF TailIsLast
-----------------------------------------------------------------------------
(* The order of the lane, step by step.                                    *)

\* Rows, results, workers, intents and guest are not touched to the rows' harm.
LEMMA OrderKept ==
    ASSUME TypeOK, TypeOK', OrderInv, UNCHANGED <<status, at, result>>,
           intents' \subseteq intents, turns' \subseteq turns, UNCHANGED guest
    PROVE  OrderInv'
<1> USE DEF InLane, Pending
<1>1. TailIsLast'
  BY TailNext DEF OrderInv
<1>2. OneActive' /\ NoOlderWaits' /\ DistinctAt' /\ DoneIsOlder' /\ Committed' /\ ResultInv'
  BY DEF OrderInv, OneActive, NoOlderWaits, DistinctAt, DoneIsOlder, Committed, ResultInv
<1>3. CancelledInv'
  BY DEF OrderInv, CancelledInv, Unadmitted
<1> QED
  BY <1>1, <1>2, <1>3 DEF OrderInv

\* A row that is inserted lands after every row of the lane.
LEMMA OrderInsert ==
    ASSUME TypeOK, TypeOK', OrderInv, NEW m \in Msg, status[m] = "free",
           status' = [status EXCEPT ![m] = "pending"],
           at' = [at EXCEPT ![m] = TailAt + 1],
           intents' \subseteq intents \cup {m}, UNCHANGED <<result, turns, guest>>
    PROVE  OrderInv'
<1> USE DEF InLane, Pending
<1>1. /\ status \in [Msg -> RowStatus] /\ at \in [Msg -> Nat] /\ TailAt \in Nat
      /\ result[m] = NoResult
  BY TailType DEF TypeOK, TurnTypeOK, OrderInv, ResultInv
<1>2. \A n \in Msg : InLane(n) => at[n] <= TailAt /\ n # m
  BY DEF OrderInv, TailIsLast
<1>3. TailIsLast'
  BY <1>1, TailNext DEF OrderInv
<1>4. OneActive' /\ ResultInv'
  BY <1>1 DEF OrderInv, OneActive, ResultInv
<1>5. \A n \in Msg : status[n] \in {"pending", "delivered"} => InLane(n)
  BY DEF OrderInv, ResultInv, NoResult
<1>6. NoOlderWaits'
  BY <1>1, <1>2, <1>5 DEF OrderInv, NoOlderWaits
<1>7. DistinctAt'
  BY <1>1, <1>2 DEF OrderInv, DistinctAt
<1>8. DoneIsOlder' /\ Committed'
  BY <1>1, <1>2 DEF OrderInv, DoneIsOlder, Committed
<1>9. CancelledInv'
  BY <1>1 DEF OrderInv, CancelledInv, Unadmitted, NoResult
<1> QED
  BY <1>3, <1>4, <1>6, <1>7, <1>8, <1>9 DEF OrderInv

\* Pending rows that are cancelled leave the lane; nobody works on them.
LEMMA OrderCancel ==
    ASSUME TypeOK, TypeOK', ClaimInv, OrderInv, NEW ms \in SUBSET Msg,
           \A m \in ms : Pending(m), CancelRows(ms), UNCHANGED <<at, turns, guest>>
    PROVE  OrderInv'
<1> USE DEF InLane, Pending, CancelRows
<1>1. /\ status \in [Msg -> RowStatus] /\ result \in [Msg -> {NoResult, "answer", "notice", "cancelled"}]
      /\ \A t \in turns : t.msg \in Msg
  BY DEF TypeOK, TurnTypeOK, Turn
<1>2. TailIsLast'
  BY <1>1, TailNext DEF OrderInv
<1>3. OneActive' /\ NoOlderWaits' /\ DistinctAt'
  BY <1>1 DEF OrderInv, OneActive, NoOlderWaits, DistinctAt
<1>4. DoneIsOlder' /\ Committed' /\ ResultInv'
  BY <1>1 DEF OrderInv, DoneIsOlder, Committed, ResultInv, NoResult
<1>5. \A m \in ms : Unadmitted(m) /\ \A t \in turns : t.msg # m
  BY <1>1 DEF ClaimInv, UnsentIsUnadmitted, WorkerHoldsRow
<1>6. CancelledInv'
  BY <1>1, <1>5 DEF OrderInv, CancelledInv, Unadmitted
<1> QED
  BY <1>2, <1>3, <1>4, <1>6 DEF OrderInv

\* The head of an idle lane goes to the guest.
LEMMA OrderClaim ==
    ASSUME TypeOK, TypeOK', OrderInv, NEW h \in Msg, IsHead(h), ~LaneBusy,
           status' = [status EXCEPT ![h] = "delivered"],
           \A t \in turns' : t \in turns \/ t.msg = h,
           UNCHANGED <<at, result, intents, guest>>
    PROVE  OrderInv'
<1> USE DEF InLane, Pending, IsHead, LaneBusy
<1>1. /\ status \in [Msg -> RowStatus] /\ at \in [Msg -> Nat]
      /\ result[h] = NoResult
  BY DEF TypeOK, TurnTypeOK, OrderInv, ResultInv
<1>2. TailIsLast'
  BY <1>1, TailNext DEF OrderInv
<1>3. OneActive' /\ DistinctAt' /\ ResultInv'
  BY <1>1 DEF OrderInv, OneActive, DistinctAt, ResultInv
<1>4. NoOlderWaits'
  <2> SUFFICES ASSUME NEW n \in Msg, status[n] = "pending", n # h PROVE at[h] < at[n]
    BY <1>1 DEF NoOlderWaits
  <2>1. at[h] <= at[n] /\ at[h] # at[n]
    BY <1>1 DEF OrderInv, DistinctAt, ResultInv, NoResult
  <2> QED
    BY <1>1, <2>1
<1>5. DoneIsOlder' /\ Committed'
  BY <1>1 DEF OrderInv, DoneIsOlder, Committed
<1>6. CancelledInv'
  BY <1>1 DEF OrderInv, CancelledInv, Unadmitted, NoResult
<1> QED
  BY <1>2, <1>3, <1>4, <1>5, <1>6 DEF OrderInv

\* The row that is with the guest is answered.
LEMMA OrderRecord ==
    ASSUME TypeOK, TypeOK', OrderInv, NEW m \in Msg, NEW by \in {"answer", "notice"},
           status[m] = "delivered",
           status' = [status EXCEPT ![m] = "completed"],
           result' = [result EXCEPT ![m] = by],
           turns' \subseteq turns, UNCHANGED <<at, intents, guest>>
    PROVE  OrderInv'
<1> USE DEF InLane, Pending
<1>1. /\ status \in [Msg -> RowStatus] /\ at \in [Msg -> Nat]
      /\ result \in [Msg -> {NoResult, "answer", "notice", "cancelled"}]
      /\ result[m] = NoResult
  BY DEF TypeOK, TurnTypeOK, OrderInv, ResultInv
<1>2. TailIsLast'
  BY <1>1, TailNext DEF OrderInv, NoResult
<1>3. OneActive' /\ NoOlderWaits' /\ ResultInv'
  BY <1>1 DEF OrderInv, OneActive, NoOlderWaits, ResultInv, NoResult
<1>4. DistinctAt'
  BY <1>1 DEF OrderInv, DistinctAt, NoResult
<1>5. DoneIsOlder' /\ Committed'
  BY <1>1 DEF OrderInv, DoneIsOlder, Committed, NoOlderWaits, OneActive, NoResult
<1>6. CancelledInv'
  BY <1>1 DEF OrderInv, CancelledInv, Unadmitted
<1> QED
  BY <1>2, <1>3, <1>4, <1>5, <1>6 DEF OrderInv

\* A release returns the only row that is with the guest to its place.
LEMMA OrderTurn ==
    ASSUME TypeOK, TypeOK', ClaimInv, OrderInv, TurnNext, UNCHANGED <<at, result, intents>>
    PROVE  OrderInv'
<1> USE DEF InLane, Pending
<1>1. TurnInv /\ at \in [Msg -> Nat]
  BY DEF TurnInv, TypeOK
<1>2. /\ \A m \in Msg : status'[m] = status[m] \/ (status[m] = "delivered" /\ status'[m] = "pending")
      /\ \A t \in turns' : \E u \in turns : t.msg = u.msg
      /\ \A m \in Msg : Unadmitted(m) /\ (\A t \in turns : t.msg # m) => Unadmitted(m)'
  BY <1>1, TurnNextMoves
<1>3. TailIsLast'
  BY <1>2, TailNext DEF OrderInv
<1>4. OneActive' /\ NoOlderWaits' 
  BY <1>1, <1>2 DEF OrderInv, OneActive, NoOlderWaits
<1>5. DistinctAt' /\ DoneIsOlder' /\ Committed' /\ ResultInv'
  BY <1>1, <1>2 DEF OrderInv, DistinctAt, DoneIsOlder, Committed, ResultInv
<1>6. CancelledInv'
  BY <1>2 DEF OrderInv, CancelledInv
<1> QED
  BY <1>3, <1>4, <1>5, <1>6 DEF OrderInv
-----------------------------------------------------------------------------
(* Originals and bursts.                                                   *)

\* The originals that wait do not become more...
LEMMA WaitKept ==
    ASSUME IsFiniteSet(Waiting), WaitingIsBounded, PendingMax \in Nat, Waiting' \subseteq Waiting
    PROVE  IsFiniteSet(Waiting)' /\ WaitingIsBounded'
<1>1. IsFiniteSet(Waiting') /\ Cardinality(Waiting') <= Cardinality(Waiting)
  BY FS_Subset
<1>2. Cardinality(Waiting) \in Nat /\ Cardinality(Waiting') \in Nat
  BY <1>1, FS_CardinalityType
<1> QED
  BY <1>1, <1>2 DEF WaitingIsBounded

\* ...or by one, where there was room.
LEMMA WaitGrows ==
    ASSUME IsFiniteSet(Waiting), Cardinality(Waiting) < PendingMax, PendingMax \in Nat,
           NEW o, Waiting' \subseteq Waiting \cup {o}
    PROVE  IsFiniteSet(Waiting)' /\ WaitingIsBounded'
<1>1. /\ IsFiniteSet(Waiting \cup {o})
      /\ Cardinality(Waiting \cup {o}) = IF o \in Waiting THEN Cardinality(Waiting) ELSE Cardinality(Waiting) + 1
  BY FS_AddElement
<1>2. IsFiniteSet(Waiting') /\ Cardinality(Waiting') <= Cardinality(Waiting \cup {o})
  BY <1>1, FS_Subset
<1>3. Cardinality(Waiting) \in Nat /\ Cardinality(Waiting') \in Nat
  BY <1>2, FS_CardinalityType
<1> QED
  BY <1>1, <1>2, <1>3 DEF WaitingIsBounded

\* An original that an unclaimed batch holds was there before, unless a batch
\* got a new member.
LEMMA WaitingMoves ==
    ASSUME UNCHANGED members,
           \A m \in Msg : batch'[m] \in {"pending", "sealed"} => batch[m] \in {"pending", "sealed"}
    PROVE  Waiting' \subseteq Waiting
BY DEF Waiting, Joined

\* No member comes or goes.
LEMMA MembersKept ==
    ASSUME MemberInv, UNCHANGED <<members, receipt, since>>,
           \A m \in Msg : batch'[m] = "none" => batch[m] = "none",
           \A m \in Msg : at'[m] = at[m] \/ batch[m] = "none"
    PROVE  MemberInv'
<1> USE DEF MemberInv, Joined
<1>1. \A o \in Orig, m \in Msg : Joined(o, m)' => since'[o] <= at'[m]
  BY DEF Joined
<1> QED
  BY <1>1

\* What is left of the invariant when no original is accepted.
LEMMA NoNewMember ==
    ASSUME IInv, TypeOK', TurnInv', OrderInv', BatchInv', 
           UNCHANGED <<members, receipt, since>>,
           \A m \in Msg : batch'[m] = batch[m] \/ batch'[m] \notin {"none", "pending"},
           \A m \in Msg : batch'[m] = "sealed" => batch[m] \in {"pending", "sealed"},
           \A m \in Msg : at'[m] = at[m] \/ batch[m] = "none"
    PROVE  IInv'
<1>1. MemberInv'
  BY MembersKept DEF IInv
<1>2. IsFiniteSet(Waiting)' /\ WaitingIsBounded'
  BY WaitingMoves, WaitKept, LimitAssumption DEF IInv
<1> QED
  BY <1>1, <1>2 DEF IInv, TurnInv

\* A row that is free has no batch and no member; a batch that is not decided
\* yet belongs to a row that waits.
LEMMA FreeRows ==
    ASSUME IInv
    PROVE  /\ \A m \in Msg : status[m] = "free" => 
                 batch[m] = "none" /\ kind[m] = "stored" /\ members[m] = <<>> /\ frozen[m] = <<>> /\ result[m] = NoResult
           /\ \A m \in Msg : Pending(m) => batch[m] \in {"none", "pending", "sealed", "claimed"}
           /\ TurnInv
<1>1. BatchFollowsRow /\ ResultInv /\ FrozenLate
  BY DEF IInv, OrderInv, BatchInv
<1>2. batch \in [Msg -> BatchState] /\ kind \in [Msg -> {"stored", "burst"}]
  BY DEF IInv, TypeOK
<1>3. \A m \in Msg : status[m] = "free" => batch[m] = "none" /\ kind[m] = "stored" /\ result[m] = NoResult
  BY <1>1, <1>2 DEF BatchFollowsRow, ResultInv, Pending, BatchState, NoResult
<1>4. \A m \in Msg : status[m] = "free" => members[m] = <<>> /\ frozen[m] = <<>>
  BY <1>1, <1>3 DEF IInv, MemberInv, FrozenLate
<1>5. \A m \in Msg : Pending(m) => batch[m] \in {"none", "pending", "sealed", "claimed"}
  BY <1>1, <1>2 DEF BatchFollowsRow, ResultInv, Pending, BatchState, NoResult
<1> QED
  BY <1>3, <1>4, <1>5 DEF IInv, TypeOK, TurnInv

\* A batch stays what it is while its row is neither inserted, claimed nor
\* completed.
LEMMA BatchKept ==
    ASSUME TypeOK, BatchInv, UNCHANGED <<kind, batch, frozen, members, result>>,
           \A m \in Msg : batch[m] = "pending" => ready'[m] <= window'[m],
           \A m \in Msg : \/ status'[m] = status[m]
                          \/ status[m] = "delivered" /\ status'[m] = "pending"
                          \/ status[m] = "free" /\ kind[m] = "stored" /\ status'[m] = "pending"
    PROVE  BatchInv'
<1> USE DEF Pending, BatchInv
<1>1. BatchFollowsRow'
  BY DEF BatchFollowsRow
<1>2. FrozenIsComplete' /\ FrozenLate' /\ DueByWindow'
  BY DEF FrozenIsComplete, FrozenLate, DueByWindow
<1> QED
  BY <1>1, <1>2
-----------------------------------------------------------------------------
(* The steps.                                                              *)

\* An empty lane satisfies the invariant.
LEMMA InitInv == Init => IInv
<1> SUFFICES ASSUME Init PROVE IInv
  OBVIOUS
<1> USE LimitAssumption DEF Init, TurnInit
<1>1. TurnInv
  BY TurnInitInv
<1>2. TypeOK
  BY <1>1 DEF TypeOK, TurnInv, BatchState, Scope, NoResult
<1>3. OrderInv
  <2>1. \A m \in Msg : ~InLane(m)
    BY DEF InLane
  <2>2. LET tail == Max({0} \cup {at[m] : m \in {n \in Msg : InLane(n)}})
        IN  tail = 0 \/ \E m \in {n \in Msg : InLane(n)} : at[m] = tail
    <3>1. /\ at \in [Msg -> Nat] /\ {n \in Msg : InLane(n)} \in SUBSET Msg
          /\ \A m \in {n \in Msg : InLane(n)} : at[m] <= 0
      BY <2>1
    <3> QED
      BY <3>1, TailOfRows
  <2>3. TailIsLast
    BY <2>1, <2>2 DEF TailIsLast, TailAt
  <2> QED
    BY <2>1, <2>3 DEF OrderInv, OneActive, NoOlderWaits, DistinctAt, DoneIsOlder, Committed, ResultInv, CancelledInv,
       NoResult, Pending
<1>4. BatchInv
  BY DEF BatchInv, BatchFollowsRow, FrozenIsComplete, FrozenLate, DueByWindow
<1>5. MemberInv
  BY DEF MemberInv, Joined
<1>6. IsFiniteSet(Waiting) /\ WaitingIsBounded
  <2>1. Waiting = {}
    BY DEF Waiting
  <2> QED
    BY <2>1, FS_EmptySet DEF WaitingIsBounded
<1> QED
  BY <1>1, <1>2, <1>3, <1>4, <1>5, <1>6 DEF IInv, TurnInv

\* A stored message enters at the tail.
LEMMA EnqueueStoredInv ==
    ASSUME IInv, NEW m \in Msg, EnqueueStored(m)
    PROVE  IInv'
<1> USE DEF EnqueueStored, burstVars, routeVars
<1>1. TurnInv /\ TypeOK /\ OrderInv /\ BatchInv /\ TailAt \in Nat
  BY TailType DEF IInv, OrderInv, TypeOK, TurnInv
<1>2. status \in [Msg -> RowStatus] /\ at \in [Msg -> Nat]
  BY <1>1 DEF TypeOK, TurnTypeOK
<1>3. batch[m] = "none" /\ kind[m] = "stored"
  BY FreeRows
<1>4. TurnInv'
  BY <1>1, <1>2, RowInv DEF RowStatus
<1>5. TypeOK'
  BY <1>1, <1>2, <1>4 DEF TypeOK, TurnInv
<1>6. OrderInv'
  BY <1>1, <1>5, OrderInsert
<1>7. BatchInv'
  BY <1>1, <1>2, <1>3, BatchKept DEF BatchInv, DueByWindow
<1> QED
  BY <1>2, <1>3, <1>4, <1>5, <1>6, <1>7, NoNewMember

\* An original joins the pending tail: its row is not before any other, and
\* the burst is not due later than its window.
LEMMA AppendMemberInv ==
    ASSUME IInv, NEW o \in Orig, NEW m \in Msg, AppendMember(o, m)
    PROVE  IInv'
<1> USE DEF AppendMember, Accept, CanAppend, MayAdmit, turnVars, routeVars
<1>0. /\ TurnInv /\ TypeOK /\ OrderInv /\ BatchInv /\ MemberInv /\ TailAt \in Nat
      /\ Quiet \in Nat /\ BatchMax \in Nat /\ PendingMax \in Nat
  BY TailType, LimitAssumption DEF IInv, OrderInv, TypeOK, TurnInv
<1>1. /\ members \in [Msg -> Seq(Orig)] /\ receipt \in [Orig -> {"new", "accepted", "rejected"}]
      /\ since \in [Orig -> Nat] /\ at \in [Msg -> Nat] /\ ready \in [Msg -> Nat] /\ window \in [Msg -> Nat]
  BY <1>0 DEF TypeOK
<1>2. TurnInv'
  BY <1>0, FrameInv
<1>3. TypeOK'
  <2>1. members' \in [Msg -> Seq(Orig)]
    BY <1>1
  <2>2. ready' \in [Msg -> Nat]
    BY <1>0, <1>1 DEF Lesser
  <2>3. receipt' \in [Orig -> {"new", "accepted", "rejected"}] /\ since' \in [Orig -> Nat]
    BY <1>0, <1>1
  <2> QED
    BY <1>0, <1>2, <2>1, <2>2, <2>3 DEF TypeOK, TurnInv
<1>4. OrderInv'
  BY <1>0, <1>3, OrderKept
<1>5. BatchInv'
  <2>1. BatchFollowsRow' /\ FrozenLate'
    BY <1>0 DEF BatchInv, BatchFollowsRow, FrozenLate, Pending
  <2>2. FrozenIsComplete'
    BY <1>0, <1>1 DEF BatchInv, FrozenIsComplete
  <2>3. DueByWindow'
    BY <1>0, <1>1 DEF BatchInv, DueByWindow, Lesser
  <2> QED
    BY <2>1, <2>2, <2>3 DEF BatchInv
<1>6. /\ Len(members'[m]) = Len(members[m]) + 1
      /\ DOMAIN members'[m] = 1..(Len(members[m]) + 1)
      /\ DOMAIN members[m] = 1..Len(members[m])
      /\ \A i \in DOMAIN members[m] : members'[m][i] = members[m][i]
      /\ members'[m][Len(members[m]) + 1] = o
      /\ \A n \in Msg : n # m => members'[n] = members[n]
      /\ Len(members[m]) \in Nat
  BY <1>1
<1>7. \A n \in Msg : ~Joined(o, n)
  BY <1>0 DEF MemberInv
<1>8. \A p \in Orig, n \in Msg : Joined(p, n)' <=> Joined(p, n) \/ (p = o /\ n = m)
  BY <1>6 DEF Joined
<1>9. TailAt <= at[m]
  <2>1. InLane(m) /\ status[m] = "pending"
    BY <1>0 DEF IsTail, Pending, InLane, OrderInv, ResultInv, NoResult
  <2>2. ASSUME NEW n \in Msg, InLane(n) PROVE at[n] <= at[m]
    <3>1. CASE status[n] = "pending"
      BY <3>1 DEF IsTail, Pending
    <3>2. CASE status[n] = "delivered"
      BY <1>0, <1>1, <2>1, <3>2 DEF Pending, OrderInv, NoOlderWaits
    <3>3. CASE status[n] = "completed"
      BY <1>0, <1>1, <2>1, <2>2, <3>3 DEF OrderInv, DoneIsOlder, Committed
    <3> QED
      BY <1>0, <2>2, <3>1, <3>2, <3>3 DEF OrderInv, DoneIsOlder, Committed, InLane
  <2> QED
    BY <1>0, <1>1, <2>2 DEF OrderInv, TailIsLast
<1>10. ASSUME NEW n \in Msg, NEW i \in DOMAIN members'[n]
       PROVE  \/ i \in DOMAIN members[n] /\ members[n][i] # o /\ members'[n][i] = members[n][i]
              \/ n = m /\ i = Len(members[m]) + 1 /\ members'[n][i] = o
  <2>1. ASSUME i \in DOMAIN members[n] PROVE members[n][i] # o
    BY <1>7, <2>1 DEF Joined
  <2>2. CASE n # m
    BY <1>6, <2>1, <2>2
  <2>3. CASE n = m
    BY <1>6, <2>1, <2>3
  <2> QED
    BY <2>2, <2>3
<1>11. MemberInv'
  <2>1. \A n \in Msg : Len(members'[n]) <= BatchMax
    BY <1>0, <1>6 DEF MemberInv
  <2>2. \A n \in Msg : batch'[n] = "none" => members'[n] = <<>>
    BY <1>0, <1>6 DEF MemberInv
  <2>3. \A p \in Orig : receipt'[p] = "accepted" <=> \E n \in Msg : Joined(p, n)'
    BY <1>0, <1>1, <1>8 DEF MemberInv
  <2>4. ASSUME NEW n \in Msg, NEW k \in Msg, NEW i \in DOMAIN members'[n], NEW j \in DOMAIN members'[k],
               members'[n][i] = members'[k][j]
        PROVE  n = k /\ i = j
    <3>1. \/ i \in DOMAIN members[n] /\ members[n][i] # o /\ members'[n][i] = members[n][i]
          \/ n = m /\ i = Len(members[m]) + 1 /\ members'[n][i] = o
      BY <1>10, <2>4
    <3>2. \/ j \in DOMAIN members[k] /\ members[k][j] # o /\ members'[k][j] = members[k][j]
          \/ k = m /\ j = Len(members[m]) + 1 /\ members'[k][j] = o
      BY <1>10, <2>4
    <3> QED
      BY <1>0, <2>4, <3>1, <3>2 DEF MemberInv
  <2>5. \A p \in Orig, n \in Msg : Joined(p, n)' => since'[p] <= at'[n]
    BY <1>0, <1>1, <1>7, <1>8, <1>9 DEF MemberInv
  <2> QED
    BY <2>1, <2>2, <2>3, <2>4, <2>5 DEF MemberInv
<1>12. Waiting' \subseteq Waiting \cup {o}
  BY <1>8 DEF Waiting
<1>13. IsFiniteSet(Waiting)' /\ WaitingIsBounded'
  BY <1>0, <1>12, WaitGrows DEF IInv
<1> QED
  BY <1>2, <1>3, <1>4, <1>5, <1>11, <1>13 DEF IInv, TurnInv

\* A burst begins at the tail: a row that was free, and an original that is
\* in no other.
LEMMA CreateBatchInv ==
    ASSUME IInv, NEW o \in Orig, NEW m \in Msg, CreateBatch(o, m)
    PROVE  IInv'
<1> USE DEF CreateBatch, Accept, MayAdmit, routeVars
<1>0. /\ TurnInv /\ TypeOK /\ OrderInv /\ BatchInv /\ MemberInv /\ TailAt \in Nat
      /\ Quiet \in Nat /\ Window \in Nat /\ BatchMax \in Nat \ {0} /\ PendingMax \in Nat
  BY TailType, LimitAssumption DEF IInv, OrderInv, TypeOK, TurnInv
<1>1. /\ members \in [Msg -> Seq(Orig)] /\ receipt \in [Orig -> {"new", "accepted", "rejected"}]
      /\ since \in [Orig -> Nat] /\ at \in [Msg -> Nat] /\ ready \in [Msg -> Nat] /\ window \in [Msg -> Nat]
      /\ status \in [Msg -> RowStatus] /\ kind \in [Msg -> {"stored", "burst"}] /\ batch \in [Msg -> BatchState]
      /\ scope \in [Msg -> Scope] /\ gen \in 0..MaxGen /\ owner \in Owner /\ intents \subseteq Msg
  BY <1>0 DEF TypeOK, TurnTypeOK
<1>2. batch[m] = "none" /\ kind[m] = "stored" /\ members[m] = <<>> /\ frozen[m] = <<>> /\ result[m] = NoResult
  BY FreeRows
<1>3. TurnInv'
  BY <1>0, <1>1, RowInv DEF RowStatus
<1>4. TypeOK'
  <2>1. members' \in [Msg -> Seq(Orig)] /\ batch' \in [Msg -> BatchState] /\ kind' \in [Msg -> {"stored", "burst"}]
    BY <1>1 DEF BatchState
  <2>2. ready' \in [Msg -> Nat] /\ window' \in [Msg -> Nat] /\ at' \in [Msg -> Nat]
    BY <1>0, <1>1 DEF Lesser
  <2>3. receipt' \in [Orig -> {"new", "accepted", "rejected"}] /\ since' \in [Orig -> Nat]
    BY <1>0, <1>1
  <2>4. scope' \in [Msg -> Scope] /\ intents' \subseteq Msg
    BY <1>1 DEF Scope
  <2> QED
    BY <1>0, <1>3, <2>1, <2>2, <2>3, <2>4 DEF TypeOK, TurnInv
<1>5. OrderInv'
  BY <1>0, <1>4, OrderInsert
<1>6. BatchInv'
  <2>1. BatchFollowsRow'
    BY <1>0, <1>1, <1>2 DEF BatchInv, BatchFollowsRow, Pending
  <2>2. FrozenIsComplete' /\ FrozenLate'
    BY <1>0, <1>1, <1>2 DEF BatchInv, FrozenIsComplete, FrozenLate
  <2>3. DueByWindow'
    BY <1>0, <1>1 DEF BatchInv, DueByWindow, Lesser
  <2> QED
    BY <2>1, <2>2, <2>3 DEF BatchInv
<1>7. /\ Len(members'[m]) = 1 /\ DOMAIN members'[m] = {1} /\ members'[m][1] = o
      /\ \A n \in Msg : n # m => members'[n] = members[n]
      /\ \A n \in Msg : n # m => at'[n] = at[n]
      /\ at'[m] = TailAt + 1
      /\ DOMAIN members[m] = {}
  BY <1>1, <1>2
<1>8. \A n \in Msg : ~Joined(o, n)
  BY <1>0 DEF MemberInv
<1>9. \A p \in Orig, n \in Msg : Joined(p, n)' <=> Joined(p, n) \/ (p = o /\ n = m)
  BY <1>7 DEF Joined
<1>10. ASSUME NEW n \in Msg, NEW i \in DOMAIN members'[n]
       PROVE  \/ n # m /\ i \in DOMAIN members[n] /\ members[n][i] # o /\ members'[n][i] = members[n][i]
              \/ n = m /\ i = 1 /\ members'[n][i] = o
  BY <1>7, <1>8 DEF Joined
<1>11. MemberInv'
  <2>1. \A n \in Msg : Len(members'[n]) <= BatchMax
    BY <1>0, <1>7 DEF MemberInv
  <2>2. \A n \in Msg : batch'[n] = "none" => members'[n] = <<>>
    BY <1>0, <1>1, <1>7 DEF MemberInv
  <2>3. \A p \in Orig : receipt'[p] = "accepted" <=> \E n \in Msg : Joined(p, n)'
    BY <1>0, <1>1, <1>9 DEF MemberInv
  <2>4. ASSUME NEW n \in Msg, NEW k \in Msg, NEW i \in DOMAIN members'[n], NEW j \in DOMAIN members'[k],
               members'[n][i] = members'[k][j]
        PROVE  n = k /\ i = j
    <3>1. \/ n # m /\ i \in DOMAIN members[n] /\ members[n][i] # o /\ members'[n][i] = members[n][i]
          \/ n = m /\ i = 1 /\ members'[n][i] = o
      BY <1>10, <2>4
    <3>2. \/ k # m /\ j \in DOMAIN members[k] /\ members[k][j] # o /\ members'[k][j] = members[k][j]
          \/ k = m /\ j = 1 /\ members'[k][j] = o
      BY <1>10, <2>4
    <3> QED
      BY <1>0, <2>4, <3>1, <3>2 DEF MemberInv
  <2>5. ASSUME NEW p \in Orig, NEW n \in Msg, Joined(p, n)' PROVE since'[p] <= at'[n]
    <3>1. CASE p = o /\ n = m
      BY <1>0, <1>1, <1>7, <3>1
    <3>2. CASE Joined(p, n)
      <4>1. n # m /\ p # o
        BY <1>7, <1>8, <3>2 DEF Joined
      <4> QED
        BY <1>0, <1>1, <1>7, <3>2, <4>1 DEF MemberInv
    <3> QED
      BY <1>9, <2>5, <3>1, <3>2
  <2> QED
    BY <2>1, <2>2, <2>3, <2>4, <2>5 DEF MemberInv
<1>12. Waiting' \subseteq Waiting \cup {o}
  <2>1. \A p \in Orig : ~Joined(p, m)
    BY <1>7 DEF Joined
  <2>2. \A n \in Msg : n # m => batch'[n] = batch[n]
    BY <1>1
  <2> QED
    BY <1>9, <2>1, <2>2 DEF Waiting
<1>13. IsFiniteSet(Waiting)' /\ WaitingIsBounded'
  BY <1>0, <1>12, WaitGrows DEF IInv
<1> QED
  BY <1>3, <1>4, <1>5, <1>6, <1>11, <1>13 DEF IInv, TurnInv

\* An original is refused, or time passes.
LEMMA IntakeInv == IInv /\ Intake => IInv'
<1> SUFFICES ASSUME IInv, Intake PROVE IInv'
  OBVIOUS
<1> USE DEF turnVars, burstVars, routeVars, intakeVars
<1>0. TurnInv /\ TypeOK /\ OrderInv /\ BatchInv /\ MemberInv
  BY DEF IInv, TypeOK, TurnInv
<1>1. ASSUME NEW o \in Orig, RejectOriginal(o) PROVE IInv'
  <2> USE DEF RejectOriginal, MayAdmit
  <2>1. TurnInv'
    BY <1>0, <1>1, FrameInv
  <2>2. TypeOK'
    BY <1>0, <1>1, <2>1 DEF TypeOK, TurnInv
  <2>3. OrderInv'
    BY <1>0, <1>1, <2>2, OrderKept
  <2>4. BatchInv'
    BY <1>0, <1>1, BatchKept DEF BatchInv, DueByWindow
  <2>5. MemberInv'
    BY <1>0, <1>1 DEF MemberInv, Joined, TypeOK
  <2>6. IsFiniteSet(Waiting)' /\ WaitingIsBounded'
    BY <1>1, WaitingMoves, WaitKept, LimitAssumption DEF IInv
  <2> QED
    BY <2>1, <2>2, <2>3, <2>4, <2>5, <2>6 DEF IInv, TurnInv
<1>2. CASE Tick
  <2> USE <1>2 DEF Tick
  <2>1. TurnInv'
    BY <1>0, FrameInv
  <2>2. ready \in [Msg -> Nat] /\ window \in [Msg -> Nat]
    BY <1>0 DEF TypeOK
  <2>3. ready' \in [Msg -> Nat] /\ window' \in [Msg -> Nat]
    BY <2>2
  <2>4. TypeOK'
    BY <1>0, <2>1, <2>3 DEF TypeOK, TurnInv
  <2>5. OrderInv'
    BY <1>0, <2>4, OrderKept
  <2>6. \A m \in Msg : batch[m] = "pending" => ready'[m] <= window'[m]
    BY <1>0, <2>2 DEF BatchInv, DueByWindow
  <2>7. BatchInv'
    BY <1>0, <2>6, BatchKept
  <2> QED
    BY <2>1, <2>4, <2>5, <2>7, NoNewMember
<1> QED
  BY <1>1, <1>2, EnqueueStoredInv, AppendMemberInv, CreateBatchInv DEF Intake

\* A claim transaction that ends without a claim may have sealed the head.
LEMMA EndClaimInv ==
    ASSUME IInv, EndClaim
    PROVE  IInv'
<1> USE DEF EndClaim, turnVars, routeVars, intakeVars
<1>0. TurnInv /\ TypeOK /\ OrderInv /\ BatchInv
  BY DEF IInv, TypeOK, TurnInv
<1>1. /\ batch \in [Msg -> BatchState] /\ frozen \in [Msg -> Seq(Orig)] /\ members \in [Msg -> Seq(Orig)]
      /\ 0 \in 0..MaxPasses
  BY <1>0, LimitAssumption DEF TypeOK
<1>2. TurnInv'
  BY <1>0, FrameInv
<1>3. CASE UNCHANGED <<batch, frozen>>
  <2>1. TypeOK'
    BY <1>0, <1>1, <1>2, <1>3 DEF TypeOK, TurnInv
  <2>2. OrderInv' 
    BY <1>0, <2>1, OrderKept
  <2>3. BatchInv'
    BY <1>0, <1>3, BatchKept DEF BatchInv, DueByWindow
  <2> QED
    BY <1>2, <1>3, <2>1, <2>2, <2>3, NoNewMember
<1>4. ASSUME NEW h \in Msg, batch[h] = "pending",
             batch' = [batch EXCEPT ![h] = "sealed"], frozen' = [frozen EXCEPT ![h] = members[h]]
      PROVE  IInv'
  <2>1. batch' \in [Msg -> BatchState] /\ frozen' \in [Msg -> Seq(Orig)]
    BY <1>1, <1>4 DEF BatchState
  <2>2. TypeOK'
    BY <1>0, <1>1, <1>2, <2>1 DEF TypeOK, TurnInv
  <2>3. OrderInv' 
    BY <1>0, <2>2, OrderKept
  <2>4. BatchFollowsRow'
    BY <1>0, <1>1, <1>4 DEF BatchInv, BatchFollowsRow, Pending
  <2>5. FrozenIsComplete' /\ FrozenLate' /\ DueByWindow'
    BY <1>0, <1>1, <1>4 DEF BatchInv, FrozenIsComplete, FrozenLate, DueByWindow
  <2>6. \A m \in Msg : batch'[m] = batch[m] \/ (batch[m] = "pending" /\ batch'[m] = "sealed")
    BY <1>1, <1>4
  <2> QED
    BY <1>2, <2>2, <2>3, <2>4, <2>5, <2>6, NoNewMember DEF BatchInv
<1> QED
  BY <1>3, <1>4

\* A cancelled head leaves with its batch.
LEMMA DropHeadInv ==
    ASSUME IInv, NEW h \in Msg, IsHead(h), pass > 0, DropHead(h)
    PROVE  IInv'
<1> USE DEF DropHead, routeVars, intakeVars
<1>0. /\ TurnInv /\ TypeOK /\ OrderInv /\ BatchInv /\ ClaimInv
      /\ MaxPasses \in Nat
  BY LimitAssumption DEF IInv, TypeOK, TurnInv
<1>1. /\ batch \in [Msg -> BatchState] /\ status \in [Msg -> RowStatus] /\ pass \in 0..MaxPasses
      /\ result \in [Msg -> {NoResult, "answer", "notice", "cancelled"}] /\ intents \subseteq Msg
  BY <1>0 DEF TypeOK, TurnTypeOK
<1>2. Pending(h) /\ batch[h] \in {"none", "pending", "sealed", "claimed"}
  BY FreeRows DEF IsHead
<1>3. /\ status' = [status EXCEPT ![h] = "completed"] 
      /\ result' = [result EXCEPT ![h] = "cancelled"]
      /\ intents' \subseteq intents
  BY <1>1 DEF CancelRows
<1>4. TurnInv'
  BY <1>0, <1>3, RowInv DEF RowStatus
<1>5. \A m \in Msg : batch'[m] = IF m # h THEN batch[m] 
                                 ELSE CASE batch[h] \in {"pending", "sealed"} -> "cancelled"
                                        [] batch[h] = "claimed" -> "completed"
                                        [] OTHER -> batch[h]
  BY <1>1
<1>6. TypeOK'
  <2>1. batch' \in [Msg -> BatchState]
    BY <1>1, <1>2, <1>5 DEF BatchState
  <2>2. pass' \in 0..MaxPasses
    BY <1>0, <1>1
  <2> QED
    BY <1>0, <1>1, <1>3, <1>4, <2>1, <2>2 DEF TypeOK, TurnInv
<1>7. OrderInv'
  BY <1>0, <1>2, <1>6, OrderCancel
<1>8. BatchInv'
  <2>1. BatchFollowsRow'
    BY <1>0, <1>1, <1>2, <1>3, <1>5 DEF BatchInv, BatchFollowsRow, Pending
  <2>2. FrozenIsComplete' /\ FrozenLate' /\ DueByWindow'
    BY <1>0, <1>1, <1>2, <1>5 DEF BatchInv, FrozenIsComplete, FrozenLate, DueByWindow
  <2> QED
    BY <2>1, <2>2 DEF BatchInv
<1>9. \A m \in Msg : batch'[m] = batch[m] \/ batch'[m] \in {"cancelled", "completed"}
  BY <1>2, <1>5
<1> QED
  BY <1>4, <1>6, <1>7, <1>8, <1>9, NoNewMember

\* A claim of the head, of a stored row or a burst: the body is frozen at the
\* latest now.
LEMMA HeadClaimInv ==
    ASSUME IInv, NEW h \in Msg, IsHead(h), ~LaneBusy, Deliver(h, owner, TRUE), pass' = 0,
           UNCHANGED <<guest, consumed, owner, gate, kind, members, ready, window, scope, routeVars,
                       at, receipt, since, result, intents, probes>>,
           \/ kind[h] = "stored" /\ UNCHANGED <<batch, frozen>>
           \/ batch[h] = "claimed" /\ UNCHANGED <<batch, frozen>>
           \/ /\ batch[h] \in {"pending", "sealed"}
              /\ frozen' = [frozen EXCEPT ![h] = IF batch[h] = "sealed" THEN @ ELSE members[h]]
              /\ batch' = [batch EXCEPT ![h] = "claimed"]
    PROVE  IInv'
<1> USE DEF routeVars
<1>0. /\ TurnInv /\ TypeOK /\ OrderInv /\ BatchInv /\ Pending(h)
      /\ owner \in Owner /\ MaxPasses \in Nat
  <2>1. TurnInv /\ TypeOK /\ OrderInv /\ BatchInv /\ Pending(h)
    BY DEF IInv, TypeOK, TurnInv, IsHead
  <2> QED
    BY <2>1, LimitAssumption DEF TypeOK, TurnTypeOK
<1>1. /\ batch \in [Msg -> BatchState] /\ frozen \in [Msg -> Seq(Orig)] /\ members \in [Msg -> Seq(Orig)]
      /\ status \in [Msg -> RowStatus] /\ kind \in [Msg -> {"stored", "burst"}]
  BY <1>0 DEF TypeOK, TurnTypeOK
<1>2. TurnInv'
  <2>1. TRUE \in BOOLEAN /\ status[h] = "pending"
    BY <1>0 DEF Pending
  <2> QED
    BY <1>0, <2>1, DeliverInv
<1>3. /\ status' = [status EXCEPT ![h] = "delivered"]
      /\ \A t \in turns' : t \in turns \/ t.msg = h
  BY DEF Deliver
<1>4. batch' \in [Msg -> BatchState] /\ frozen' \in [Msg -> Seq(Orig)]
  BY <1>1 DEF BatchState
<1>5. TypeOK'
  BY <1>0, <1>2, <1>4 DEF TypeOK, TurnInv
<1>6. OrderInv'
  BY <1>0, <1>3, <1>5, OrderClaim
<1>7. /\ \A m \in Msg : m # h => batch'[m] = batch[m] /\ frozen'[m] = frozen[m] /\ status'[m] = status[m]
      /\ status'[h] = "delivered"
      /\ \/ kind[h] = "stored" /\ batch'[h] = batch[h] /\ frozen'[h] = frozen[h]
         \/ batch[h] = "claimed" /\ batch'[h] = "claimed" /\ frozen'[h] = frozen[h]
         \/ batch[h] = "pending" /\ batch'[h] = "claimed" /\ frozen'[h] = members[h]
         \/ batch[h] = "sealed" /\ batch'[h] = "claimed" /\ frozen'[h] = frozen[h]
  BY <1>1, <1>3
<1>8. BatchInv'
  <2>1. BatchFollowsRow'
    BY <1>0, <1>1, <1>7 DEF BatchInv, BatchFollowsRow, Pending
  <2>2. FrozenIsComplete'
    BY <1>0, <1>7 DEF BatchInv, FrozenIsComplete
  <2>3. FrozenLate' /\ DueByWindow'
    BY <1>0, <1>7 DEF BatchInv, FrozenLate, DueByWindow
  <2> QED
    BY <2>1, <2>2, <2>3 DEF BatchInv
<1>9. \A m \in Msg : batch'[m] = batch[m] \/ batch'[m] = "claimed"
  BY <1>7
<1> QED
  BY <1>2, <1>5, <1>6, <1>8, <1>9, NoNewMember

\* A claim transaction begins, passes over cancelled heads, and ends.
LEMMA ClaimNextInv == IInv /\ ClaimNext => IInv'
<1> SUFFICES ASSUME IInv, ClaimNext PROVE IInv'
  OBVIOUS
<1> USE DEF burstVars, intakeVars
<1>1. CASE StartClaim
  <2> USE <1>1 DEF StartClaim, turnVars, routeVars
  <2>0. TurnInv /\ TypeOK /\ OrderInv /\ BatchInv
    BY DEF IInv, TypeOK, TurnInv
  <2>5. 1 \in 0..MaxPasses
    BY LimitAssumption
  <2>1. TurnInv'
    BY <2>0, FrameInv
  <2>2. TypeOK'
    BY <2>0, <2>1, <2>5 DEF TypeOK, TurnInv
  <2>3. OrderInv'
    BY <2>0, <2>2, OrderKept
  <2>4. BatchInv'
    BY <2>0, BatchKept DEF BatchInv, DueByWindow
  <2> QED
    BY <2>1, <2>2, <2>3, <2>4, NoNewMember
<1>2. ASSUME NEW h \in Msg, CancelHead(h) \/ CancelRefused(h) PROVE IInv'
  BY <1>2, DropHeadInv DEF CancelHead, CancelRefused
<1>3. ASSUME NEW h \in Msg, ClaimStored(h) PROVE IInv'
  BY <1>3, HeadClaimInv DEF ClaimStored
<1>4. ASSUME NEW h \in Msg, ClaimBatch(h) PROVE IInv'
  BY <1>4, HeadClaimInv DEF ClaimBatch
<1> QED
  BY <1>1, <1>2, <1>3, <1>4, EndClaimInv DEF ClaimNext

\* The row that is with the guest is completed, with its batch.
LEMMA RecordInv ==
    ASSUME IInv, NEW m \in Msg, NEW by \in {"answer", "notice"}, status[m] = "delivered", Record(m, by),
           turns' \subseteq turns, probes' \subseteq probes
    PROVE  IInv'
<1> USE DEF Record, routeVars, intakeVars
<1>0. TurnInv /\ TypeOK /\ OrderInv /\ BatchInv
  BY DEF IInv, TypeOK, TurnInv
<1>1. /\ batch \in [Msg -> BatchState] /\ status \in [Msg -> RowStatus]
      /\ result \in [Msg -> {NoResult, "answer", "notice", "cancelled"}]
  BY <1>0 DEF TypeOK, TurnTypeOK
<1>2. TurnInv'
  BY <1>0, RowInv DEF RowStatus
<1>3. /\ batch' \in [Msg -> BatchState]
      /\ result' \in [Msg -> {NoResult, "answer", "notice", "cancelled"}]
  BY <1>1 DEF BatchState
<1>4. TypeOK'
  BY <1>0, <1>2, <1>3 DEF TypeOK, TurnInv
<1>5. OrderInv'
  BY <1>0, <1>4, OrderRecord
<1>6. \A n \in Msg : batch'[n] = batch[n] \/ (n = m /\ batch[n] = "claimed" /\ batch'[n] = "completed")
  BY <1>1
<1>7. \/ batch[m] = "none" /\ batch'[m] = "none"
      \/ batch[m] = "claimed" /\ batch'[m] = "completed"
  <2>1. batch[m] \in {"none", "claimed"}
    BY <1>0, <1>1 DEF BatchInv, BatchFollowsRow, OrderInv, ResultInv, BatchState, Pending, NoResult
  <2> QED
    BY <1>1, <2>1
<1>8. BatchInv'
  <2>1. BatchFollowsRow'
    <3> SUFFICES ASSUME NEW n \in Msg
        PROVE /\ (kind[n] = "burst") <=> (batch'[n] # "none")
              /\ batch'[n] \in {"pending", "sealed"} => status'[n] = "pending"
              /\ batch'[n] = "claimed" => status'[n] \in {"pending", "delivered"}
              /\ batch'[n] = "completed" => status'[n] = "completed"
              /\ (batch'[n] = "cancelled") => result'[n] = "cancelled"
              /\ status'[n] = "delivered" /\ kind[n] = "burst" => batch'[n] = "claimed"
      BY DEF BatchFollowsRow, Pending
    <3>1. BatchFollowsRow
      BY <1>0 DEF BatchInv
    <3>2. CASE n = m
      BY <1>1, <1>7, <3>1, <3>2 DEF BatchFollowsRow
    <3>3. CASE n # m
      BY <1>1, <3>1, <3>3 DEF BatchFollowsRow, Pending
    <3> QED
      BY <3>2, <3>3
  <2>2. FrozenIsComplete' /\ FrozenLate' /\ DueByWindow'
    BY <1>0, <1>6 DEF BatchInv, FrozenIsComplete, FrozenLate, DueByWindow
  <2> QED
    BY <2>1, <2>2 DEF BatchInv
<1> QED
  BY <1>2, <1>4, <1>5, <1>6, <1>8, NoNewMember

\* What touches no row and no batch: refused settlements, probes, the relay,
\* the connection.
LEMMA QuietInv ==
    ASSUME IInv, TypeOK', turns' \subseteq turns, intents' \subseteq intents,
           UNCHANGED <<status, stamp, bound, guest, consumed, owner, gate, burstVars, intakeVars, result>>
    PROVE  IInv'
<1> USE DEF burstVars, intakeVars
<1>0. TurnInv /\ TypeOK /\ OrderInv /\ BatchInv
  BY DEF IInv, TypeOK, TurnInv
<1>1. TurnInv'
  BY <1>0, FrameInv
<1>2. OrderInv'
  BY <1>0, OrderKept
<1>3. BatchInv'
  BY <1>0, BatchKept DEF BatchInv, DueByWindow
<1> QED
  BY <1>1, <1>2, <1>3, NoNewMember

\* Answers and notices are recorded for a delivered row, or refused.
LEMMA SettlementInv == IInv /\ Settlement => IInv'
<1> SUFFICES ASSUME IInv, Settlement PROVE IInv'
  OBVIOUS
<1>0. /\ \A t \in turns : t.msg \in Msg
      /\ \A p \in probes : p.msg \in Msg
      /\ TypeOK
  BY DEF IInv, TypeOK, TurnTypeOK, Turn
<1>1. ASSUME turns' \subseteq turns, probes' \subseteq probes, Refused PROVE IInv'
  <2>1. TypeOK'
    BY <1>0, <1>1 DEF TypeOK, TurnTypeOK, Refused, burstVars, routeVars, intakeVars
  <2> QED
    BY <1>1, <2>1, QuietInv DEF Refused
<1>2. ASSUME NEW t \in turns, SettleNative(t) PROVE IInv'
  BY <1>0, <1>1, <1>2, RecordInv DEF SettleNative
<1>3. ASSUME NEW m \in Msg, ReportHttp(m) PROVE IInv'
  BY <1>3, RecordInv DEF ReportHttp
<1>4. ASSUME NEW m \in Msg, ProbeInterrupted(m) PROVE IInv'
  <2>1. owner \in Owner /\ probes \subseteq [msg : Msg, owner : Owner]
    BY <1>0 DEF TypeOK, TurnTypeOK
  <2>2. probes' \subseteq [msg : Msg, owner : Owner]
    BY <1>4, <2>1 DEF ProbeInterrupted
  <2>3. TypeOK'
    BY <1>0, <1>4, <2>2 DEF TypeOK, TurnTypeOK, ProbeInterrupted, turnVars, burstVars, routeVars, intakeVars
  <2> QED
    BY <1>4, <2>3, QuietInv DEF ProbeInterrupted, turnVars
<1>5. ASSUME NEW m \in Msg, RelayDone(m) PROVE IInv'
  <2>1. TypeOK'
    BY <1>0, <1>5 DEF TypeOK, TurnTypeOK, RelayDone, turnVars, burstVars, routeVars, intakeVars
  <2> QED
    BY <1>5, <2>1, QuietInv DEF RelayDone, turnVars
<1>6. ASSUME NEW p \in probes, SettleInterrupted(p) PROVE IInv'
  BY <1>0, <1>1, <1>6, RecordInv DEF SettleInterrupted
<1> QED
  BY <1>2, <1>3, <1>4, <1>5, <1>6 DEF Settlement

\* Revocation cancels every unclaimed burst, whose rows all wait.
LEMMA RevokeInv == IInv /\ Revoke => IInv'
<1> SUFFICES ASSUME IInv, Revoke PROVE IInv'
  OBVIOUS
<1>a. TurnInv /\ TypeOK /\ OrderInv /\ BatchInv /\ ClaimInv
  BY DEF IInv, TypeOK, TurnInv
<1>b. gen < MaxGen
  BY DEF Revoke
<1>c. gen + 1 \in 0..MaxGen
  <2>1. gen \in 0..MaxGen
    BY <1>a DEF TypeOK
  <2> QED BY <1>b, <2>1, LimitAssumption
<1>0. /\ TurnInv /\ TypeOK /\ OrderInv /\ BatchInv /\ ClaimInv
      /\ gen + 1 \in 0..MaxGen
  BY <1>a, <1>c
<1> USE DEF Revoke, intakeVars
<1> DEFINE open == {m \in Msg : batch[m] \in {"pending", "sealed"}}
<1>1. /\ batch \in [Msg -> BatchState] /\ status \in [Msg -> RowStatus]
      /\ result \in [Msg -> {NoResult, "answer", "notice", "cancelled"}] /\ intents \subseteq Msg
  BY <1>0 DEF TypeOK, TurnTypeOK
<1>2. \A m \in open : Pending(m)
  BY <1>0 DEF BatchInv, BatchFollowsRow
<1>3. CancelRows(open) /\ open \in SUBSET Msg
  OBVIOUS
<1>4. batch' = [m \in Msg |-> IF m \in open THEN "cancelled" ELSE batch[m]]
  OBVIOUS
<1> HIDE DEF open
<1>5. TurnInv'
  BY <1>0, <1>3, RowsInv DEF CancelRows
<1>6. /\ batch' \in [Msg -> BatchState] /\ intents' \subseteq Msg
      /\ result' \in [Msg -> {NoResult, "answer", "notice", "cancelled"}]
  BY <1>1, <1>3, <1>4 DEF CancelRows, BatchState
<1>7. TypeOK'
  BY <1>0, <1>5, <1>6 DEF TypeOK, TurnInv
<1>8. OrderInv'
  BY <1>0, <1>2, <1>3, <1>7, OrderCancel
<1>9. BatchInv'
  <2>1. BatchFollowsRow'
    BY <1>0, <1>1, <1>2, <1>3, <1>4 DEF BatchInv, BatchFollowsRow, Pending, CancelRows, open
  <2>2. FrozenIsComplete' /\ FrozenLate' /\ DueByWindow'
    BY <1>0, <1>4 DEF BatchInv, FrozenIsComplete, FrozenLate, DueByWindow
  <2> QED
    BY <2>1, <2>2 DEF BatchInv
<1>10. \A m \in Msg : batch'[m] = batch[m] \/ batch'[m] = "cancelled"
  BY <1>4
<1> QED
  BY <1>5, <1>7, <1>8, <1>9, <1>10, NoNewMember

\* Worker, guest, transfer and gate.
LEMMA AroundInv == IInv /\ Around => IInv'
<1> SUFFICES ASSUME IInv, Around PROVE IInv'
  OBVIOUS
<1> USE DEF Around, burstVars, routeVars, intakeVars
<1>0. TurnInv /\ TypeOK /\ OrderInv /\ BatchInv /\ ClaimInv
  BY DEF IInv, TypeOK, TurnInv
<1>1. TurnInv'
  BY <1>0, TurnNextInv
<1>2. TypeOK'
  BY <1>0, <1>1 DEF TypeOK, TurnInv
<1>3. OrderInv'
  BY <1>0, <1>2, OrderTurn
<1>4. BatchInv'
  BY <1>0, TurnNextMoves, BatchKept DEF BatchInv, DueByWindow
<1> QED
  BY <1>1, <1>2, <1>3, <1>4, NoNewMember

\* Every step, or none, keeps the invariant.
LEMMA NextInv == IInv /\ [Next]_vars => IInv'
<1> SUFFICES ASSUME IInv, [Next]_vars PROVE IInv'
  OBVIOUS
<1>0. TypeOK
  BY DEF IInv
<1>1. CASE Connect
  <2>1. TypeOK'
    BY <1>0, <1>1 DEF TypeOK, TurnTypeOK, Connect, turnVars, burstVars, intakeVars
  <2> QED
    BY <1>1, <2>1, QuietInv DEF Connect, turnVars
<1>2. CASE LoseSocket
  <2>1. TypeOK'
    BY <1>0, <1>2 DEF TypeOK, TurnTypeOK, LoseSocket, turnVars, burstVars, intakeVars
  <2> QED
    BY <1>2, <2>1, QuietInv DEF LoseSocket, turnVars
<1>3. CASE UNCHANGED vars
  <2>1. TypeOK'
    BY <1>0, <1>3 DEF TypeOK, TurnTypeOK, vars, turnVars, burstVars, routeVars, intakeVars
  <2> QED
    BY <1>3, <2>1, QuietInv DEF vars, turnVars
<1> QED
  BY <1>1, <1>2, <1>3, IntakeInv, ClaimNextInv, SettlementInv, RevokeInv, AroundInv DEF Next

-----------------------------------------------------------------------------
(* Invariants.                                                             *)

\* The inductive invariant: acceptance, sealing, claims, releases, reports,
\* cancellations and transfers keep it, whatever their order.
THEOREM Invariance == Spec => []IInv
BY InitInv, NextInv, PTL DEF Spec

\* A worker of the Shared lane holds its row, and a row goes back to pending
\* only when the guest cannot run it (release_delivery).
THEOREM ClaimSafety == Spec => []ClaimInv
<1>1. IInv => ClaimInv
  BY DEF IInv
<1> QED
  BY <1>1, Invariance, PTL

\* The lane is first in, first out, and no original overtakes a row that was
\* there before it (append_member, next_created_at).
THEOREM OrderSafety == Spec => []LaneOrder
<1>1. IInv => LaneOrder
  <2> SUFFICES ASSUME IInv PROVE NoOvertaking
    BY DEF IInv, OrderInv, LaneOrder
  <2>1. /\ at \in [Msg -> Nat] /\ since \in [Orig -> Nat]
        /\ \A o \in Orig, m \in Msg : Joined(o, m) => since[o] <= at[m]
    BY DEF IInv, TypeOK, MemberInv
  <2> QED
    BY <2>1 DEF NoOvertaking
<1> QED
  BY <1>1, Invariance, PTL

\* Two places of an original are one; without a place it is not accepted.
LEMMA OnePlace == IInv => AcceptedOnce
<1> SUFFICES ASSUME IInv, NEW o \in Orig
             PROVE  Cardinality(Places(o)) = IF receipt[o] = "accepted" THEN 1 ELSE 0
  BY DEF AcceptedOnce
<1>1. MemberInv /\ members \in [Msg -> Seq(Orig)] /\ BatchMax \in Nat
  BY LimitAssumption DEF IInv, TypeOK
<1>2. ASSUME NEW m \in Msg PROVE DOMAIN members[m] \subseteq 1..BatchMax
  <2>1. members[m] \in Seq(Orig) /\ Len(members[m]) <= BatchMax
    BY <1>1 DEF MemberInv
  <2>2. DOMAIN members[m] = 1..Len(members[m]) /\ Len(members[m]) \in Nat
    BY <2>1
  <2> QED
    BY <1>1, <2>1, <2>2
<1>3. \A p \in Places(o), q \in Places(o) : p = q
  <2> SUFFICES ASSUME NEW p \in Places(o), NEW q \in Places(o) PROVE p = q
    OBVIOUS
  <2>1. /\ p = <<p[1], p[2]>> /\ q = <<q[1], q[2]>>
        /\ p[1] \in Msg /\ q[1] \in Msg
        /\ p[2] \in DOMAIN members[p[1]] /\ q[2] \in DOMAIN members[q[1]]
        /\ members[p[1]][p[2]] = members[q[1]][q[2]]
    BY DEF Places
  <2>2. p[1] = q[1] /\ p[2] = q[2]
    BY <1>1, <2>1 DEF MemberInv
  <2> QED
    BY <2>1, <2>2
<1>4. (\E m \in Msg : Joined(o, m)) <=> Places(o) # {}
  <2>1. ASSUME NEW m \in Msg, Joined(o, m) PROVE Places(o) # {}
    <3>1. PICK i \in DOMAIN members[m] : members[m][i] = o
      BY <2>1 DEF Joined
    <3>2. <<m, i>> \in Places(o)
      BY <1>2, <3>1 DEF Places
    <3> QED
      BY <3>2
  <2>2. ASSUME NEW p \in Places(o) PROVE p[1] \in Msg /\ Joined(o, p[1])
    BY DEF Places, Joined
  <2> QED
    BY <2>1, <2>2
<1>5. CASE receipt[o] = "accepted"
  <2>1. PICK p \in Places(o) : TRUE
    BY <1>1, <1>4, <1>5 DEF MemberInv
  <2>2. Places(o) = {p}
    BY <1>3
  <2> QED
    BY <1>5, <2>2, FS_Singleton
<1>6. CASE receipt[o] # "accepted"
  <2>1. Places(o) = {}
    BY <1>1, <1>4, <1>6 DEF MemberInv
  <2> QED
    BY <1>6, <2>1, FS_EmptySet
<1> QED
  BY <1>5, <1>6

\* A burst and its row agree, bodies are complete and final, every accepted
\* original is in one burst, and cap and window hold.
THEOREM BurstSafety == Spec => []BurstIntegrity
<1>1. IInv => BurstIntegrity
  BY OnePlace DEF IInv, BatchInv, BurstIntegrity
<1> QED
  BY <1>1, Invariance, PTL

\* What was cancelled is neither run by the guest nor sent by the relay.
THEOREM CancellationSafety == Spec => []CancelledIsSilent
<1>1. IInv => CancelledIsSilent
  BY DEF IInv, OrderInv, ResultInv, CancelledInv, ClaimInv, ConsumedOnceRun, Unadmitted,
     CancelledIsSilent, NoResult
<1> QED
  BY <1>1, Invariance, PTL
-----------------------------------------------------------------------------
(* Action properties.                                                      *)

\* What a step does to the rows: it inserts one, claims the head of an idle
\* lane, cancels waiting ones, reports the active one, or leaves them to the
\* workers and the guest.
RowsMove ==
    \/ \E m \in Msg : /\ status[m] = "free"
                      /\ status' = [status EXCEPT ![m] = "pending"]
                      /\ UNCHANGED <<result, consumed>>
    \/ \E h \in Msg : ClaimStored(h) \/ ClaimBatch(h)
    \/ \E ms \in SUBSET Msg : /\ \A m \in ms : Pending(m)
                              /\ CancelRows(ms)
                              /\ UNCHANGED consumed
    \/ \E m \in Msg : \E by \in {"answer", "notice"} : /\ status[m] = "delivered"
                                                       /\ Record(m, by)
    \/ TurnNext /\ UNCHANGED <<result, frozen>>
    \/ UNCHANGED <<status, result, consumed>>

\* Every step moves the rows only as RowsMove says.
LEMMA StepMovesRows == IInv /\ [Next]_vars => RowsMove
<1> SUFFICES ASSUME IInv, [Next]_vars PROVE RowsMove
  OBVIOUS
<1> USE DEF turnVars, burstVars, routeVars, intakeVars
<1>0. /\ \A t \in turns : t.msg \in Msg
      /\ \A p \in probes : p.msg \in Msg
      /\ BatchFollowsRow
  BY DEF IInv, TypeOK, TurnTypeOK, Turn, BatchInv
<1>1. ASSUME Intake PROVE RowsMove
  BY <1>1 DEF Intake, EnqueueStored, AppendMember, CreateBatch, RejectOriginal, Tick, RowsMove
<1>2. ASSUME ClaimNext PROVE RowsMove
  <2>1. ASSUME NEW h \in Msg, CancelHead(h) \/ CancelRefused(h) PROVE RowsMove
    <3>1. {h} \in SUBSET Msg /\ (\A m \in {h} : Pending(m)) /\ CancelRows({h}) /\ UNCHANGED consumed
      BY <2>1 DEF CancelHead, CancelRefused, DropHead, IsHead
    <3> QED
      BY <3>1 DEF RowsMove
  <2>2. CASE StartClaim \/ EndClaim
    BY <2>2 DEF StartClaim, EndClaim, RowsMove
  <2>3. ASSUME NEW h \in Msg, ClaimStored(h) \/ ClaimBatch(h) PROVE RowsMove
    BY <2>3 DEF RowsMove
  <2> QED
    BY <1>2, <2>1, <2>2, <2>3 DEF ClaimNext
<1>3. ASSUME Settlement PROVE RowsMove
  <2>1. ASSUME NEW t \in turns, SettleNative(t) PROVE RowsMove
    BY <1>0, <2>1 DEF SettleNative, Refused, RowsMove
  <2>2. ASSUME NEW m \in Msg, ReportHttp(m) \/ ProbeInterrupted(m) \/ RelayDone(m) PROVE RowsMove
    BY <2>2 DEF ReportHttp, ProbeInterrupted, RelayDone, RowsMove
  <2>3. ASSUME NEW p \in probes, SettleInterrupted(p) PROVE RowsMove
    BY <1>0, <2>3 DEF SettleInterrupted, Refused, RowsMove
  <2> QED
    BY <1>3, <2>1, <2>2, <2>3 DEF Settlement
<1>4. CASE Revoke
  <2>1. LET open == {m \in Msg : batch[m] \in {"pending", "sealed"}} IN
           open \in SUBSET Msg /\ (\A m \in open : Pending(m)) /\ CancelRows(open) /\ UNCHANGED consumed
    BY <1>0, <1>4 DEF Revoke, BatchFollowsRow
  <2> QED
    BY <2>1 DEF RowsMove
<1>5. CASE Connect \/ LoseSocket \/ UNCHANGED vars
  BY <1>5 DEF Connect, LoseSocket, vars, RowsMove
<1>6. CASE Around
  BY <1>6 DEF Around, RowsMove
<1> QED
  BY <1>1, <1>2, <1>3, <1>4, <1>5, <1>6 DEF Next

\* A burst is claimed under the scope it was accepted in (stale_reason).
LEMMA ClaimIsScoped ==
    ASSUME IInv, [Next]_vars, NEW m \in Msg,
           batch[m] # "none", status[m] = "pending", status'[m] = "delivered"
    PROVE  scope[m] = [gen |-> gen, owner |-> owner] /\ linkOwner = owner
<1>0. status \in [Msg -> RowStatus] /\ BatchFollowsRow /\ TurnInv
  BY DEF IInv, TypeOK, TurnTypeOK, BatchInv, TurnInv
<1>1. CASE \E h \in Msg : ClaimStored(h) \/ ClaimBatch(h)
  <2>1. PICK h \in Msg : ClaimStored(h) \/ ClaimBatch(h)
    BY <1>1
  <2>2. h = m
    BY <1>0, <2>1 DEF ClaimStored, ClaimBatch, Deliver
  <2>3. kind[m] = "burst"
    BY <1>0 DEF BatchFollowsRow
  <2>4. ~Stale(m)
    BY <2>1, <2>2, <2>3 DEF ClaimStored, ClaimBatch
  <2> QED
    BY <2>4 DEF Stale
<1>2. CASE TurnNext
  BY <1>0, <1>2, TurnNextMoves
<1>3. ASSUME NEW n \in Msg, status' = [status EXCEPT ![n] = "pending"] \/ status' = [status EXCEPT ![n] = "completed"]
      PROVE FALSE
  BY <1>0, <1>3
<1>4. ASSUME NEW ms \in SUBSET Msg, CancelRows(ms) PROVE FALSE
  BY <1>4 DEF CancelRows
<1>5. CASE UNCHANGED status
  BY <1>5
<1>6. RowsMove
  BY StepMovesRows
<1> QED
  BY <1>1, <1>2, <1>3, <1>4, <1>5, <1>6 DEF RowsMove, Record

\* No step rewrites the result of a completed row.
LEMMA ResultStays ==
    ASSUME IInv, [Next]_vars, NEW m \in Msg, status[m] = "completed"
    PROVE  status'[m] = "completed" /\ result'[m] = result[m]
<1>0. /\ status \in [Msg -> RowStatus] /\ TurnInv
      /\ result \in [Msg -> {NoResult, "answer", "notice", "cancelled"}]
  BY DEF IInv, TypeOK, TurnTypeOK, TurnInv
<1>1. ASSUME NEW h \in Msg, ClaimStored(h) \/ ClaimBatch(h)
      PROVE  status'[m] = "completed" /\ result'[m] = result[m]
  BY <1>0, <1>1 DEF ClaimStored, ClaimBatch, Deliver, IsHead, Pending
<1>2. CASE TurnNext /\ UNCHANGED result
  BY <1>0, <1>2, TurnNextMoves
<1>3. ASSUME NEW n \in Msg, status[n] = "free", status' = [status EXCEPT ![n] = "pending"], UNCHANGED result
      PROVE  status'[m] = "completed" /\ result'[m] = result[m]
  BY <1>0, <1>3
<1>4. ASSUME NEW ms \in SUBSET Msg, \A n \in ms : Pending(n), CancelRows(ms)
      PROVE  status'[m] = "completed" /\ result'[m] = result[m]
  BY <1>4 DEF CancelRows, Pending
<1>5. ASSUME NEW n \in Msg, NEW by, status[n] = "delivered", Record(n, by)
      PROVE  status'[m] = "completed" /\ result'[m] = result[m]
  BY <1>0, <1>5 DEF Record
<1>6. RowsMove
  BY StepMovesRows
<1> QED
  BY <1>1, <1>2, <1>3, <1>4, <1>5, <1>6 DEF RowsMove

\* No step rewrites a frozen body.
LEMMA BodyStays ==
    ASSUME IInv, [Next]_vars, NEW m \in Msg, frozen[m] # <<>>
    PROVE  frozen'[m] = frozen[m]
<1> USE DEF burstVars
<1>0. frozen \in [Msg -> Seq(Orig)] /\ FrozenLate
  BY DEF IInv, TypeOK, BatchInv
<1>1. CASE EndClaim
  BY <1>0, <1>1 DEF EndClaim, FrozenLate
<1>2. ASSUME NEW h \in Msg, ClaimBatch(h) PROVE frozen'[m] = frozen[m]
  BY <1>0, <1>2 DEF ClaimBatch, FrozenLate
<1>3. CASE UNCHANGED frozen
  BY <1>3
<1>4. CASE Intake
  BY <1>3, <1>4 DEF Intake, EnqueueStored, AppendMember, CreateBatch, RejectOriginal, Tick
<1>5. CASE ClaimNext
  BY <1>1, <1>2, <1>3, <1>5 DEF ClaimNext, StartClaim, CancelHead, CancelRefused, DropHead, ClaimStored
<1>6. CASE Settlement
  BY <1>3, <1>6 DEF Settlement, SettleNative, ReportHttp, ProbeInterrupted, RelayDone, SettleInterrupted,
     Record, Refused
<1>7. CASE Revoke \/ Connect \/ LoseSocket \/ Around \/ UNCHANGED vars
  BY <1>3, <1>7 DEF Revoke, Connect, LoseSocket, Around, vars
<1> QED
  BY <1>4, <1>5, <1>6, <1>7 DEF Next

\* A burst is claimed in its scope only, and neither a result nor a frozen body
\* is rewritten (stale_reason, record_report, seal).
THEOREM Rules == Spec => BurstRules
<1>1. IInv /\ [Next]_vars =>
         [\A m \in Msg : batch[m] # "none" /\ status[m] = "pending" /\ status'[m] = "delivered" =>
             scope[m] = [gen |-> gen, owner |-> owner] /\ linkOwner = owner]_vars
  BY ClaimIsScoped
<1>2. IInv /\ [Next]_vars =>
         [\A m \in Msg :
             /\ status[m] = "completed" => status'[m] = "completed" /\ result'[m] = result[m]
             /\ frozen[m] # <<>> => frozen'[m] = frozen[m]]_vars
  BY ResultStays, BodyStays
<1> QED
  BY <1>1, <1>2, Invariance, PTL DEF Spec, BurstRules, ClaimedInScope, FirstReportWins

-----------------------------------------------------------------------------
(* Refinement.                                                             *)

\* An empty lane is an initial state of TurnLane.
LEMMA InitRefines == Init => Abstract!Init
<1> SUFFICES ASSUME Init PROVE Abstract!Init
  OBVIOUS
<1>1. PhaseMap = [m \in Msg |-> "none"]
  BY DEF Init, TurnInit, PhaseMap, PhaseOf, Pending
<1>2. LaneMap \in [Msg -> {"shared"}]
  BY DEF LaneMap
<1> QED
  BY <1>1, <1>2 DEF Abstract!Init, Init, TurnInit

\* Only status moves a phase, and the lane of a row is always the same.
LEMMA Unmoved ==
    /\ UNCHANGED status => UNCHANGED PhaseMap
    /\ UNCHANGED LaneMap
BY DEF PhaseMap, PhaseOf, LaneMap, Pending

\* How a change of one row's status moves its phase.
LEMMA PhaseMoves ==
    ASSUME status \in [Msg -> RowStatus], NEW m \in Msg, NEW to \in RowStatus,
           status' = [status EXCEPT ![m] = to]
    PROVE  PhaseMap' = [PhaseMap EXCEPT ![m] =
                CASE to = "pending" -> "waiting"
                  [] to = "delivered" -> "active"
                  [] to = "completed" -> "done"
                  [] OTHER -> "none"]
BY DEF PhaseMap, PhaseOf, RowStatus, Pending

\* A claim starts a job while no other is active.
LEMMA ClaimRefines ==
    ASSUME IInv, NEW h \in Msg, ClaimStored(h) \/ ClaimBatch(h)
    PROVE  Abstract!Start(h)
<1>0. status \in [Msg -> RowStatus]
  BY DEF IInv, TypeOK, TurnTypeOK
<1>1. /\ status[h] = "pending" /\ ~LaneBusy
      /\ status' = [status EXCEPT ![h] = "delivered"] /\ UNCHANGED consumed
  BY DEF ClaimStored, ClaimBatch, Deliver, IsHead, Pending
<1>2. PhaseMap[h] = "waiting"
  BY <1>1 DEF PhaseMap, PhaseOf, Pending
<1>3. \A k \in Msg : PhaseMap[k] # "active"
  BY <1>0, <1>1 DEF PhaseMap, PhaseOf, LaneBusy, RowStatus, Pending
<1>4. PhaseMap' = [PhaseMap EXCEPT ![h] = "active"]
  BY <1>0, <1>1, PhaseMoves DEF RowStatus
<1> QED
  BY <1>1, <1>2, <1>3, <1>4, Unmoved DEF Abstract!Start

\* Rows that are cancelled or reported finish their jobs.
LEMMA FinishRefines ==
    ASSUME IInv, NEW ms \in SUBSET Msg, \A m \in ms : status[m] \in {"pending", "delivered"},
           status' = [m \in Msg |-> IF m \in ms THEN "completed" ELSE status[m]], UNCHANGED consumed
    PROVE  Abstract!Finish(ms)
<1>1. \A m \in ms : PhaseMap[m] \in {"waiting", "active"}
  BY DEF PhaseMap, PhaseOf, Pending
<1>2. PhaseMap' = [m \in Msg |-> IF m \in ms THEN "done" ELSE PhaseMap[m]]
  BY DEF PhaseMap, PhaseOf, Pending
<1> QED
  BY <1>1, <1>2, Unmoved DEF Abstract!Finish

\* A worker's release takes the job back, which has not run; the guest runs
\* only a job that was handed over.
LEMMA TurnRefines ==
    ASSUME IInv, TurnNext
    PROVE  [Abstract!Next]_Abstract!vars
<1>0. status \in [Msg -> RowStatus] /\ TurnInv
  BY DEF IInv, TypeOK, TurnTypeOK, TurnInv
<1>1. ASSUME NEW m \in Msg, status[m] = "delivered", consumed[m] = 0,
             status' = [status EXCEPT ![m] = "pending"], UNCHANGED consumed
      PROVE  Abstract!TakeBack(m)
  <2>1. PhaseMap[m] = "active"
    BY <1>1 DEF PhaseMap, PhaseOf, Pending
  <2>2. PhaseMap' = [PhaseMap EXCEPT ![m] = "waiting"]
    BY <1>0, <1>1, PhaseMoves DEF RowStatus
  <2> QED
    BY <1>1, <2>1, <2>2, Unmoved DEF Abstract!TakeBack
<1>2. ASSUME NEW m \in Msg, status[m] \in {"delivered", "completed"}, consumed[m] = 0,
             consumed' = [consumed EXCEPT ![m] = 1], UNCHANGED status
      PROVE  Abstract!Run(m)
  <2>1. PhaseMap[m] \in {"active", "done"}
    BY <1>2 DEF PhaseMap, PhaseOf, Pending
  <2> QED
    BY <1>2, <2>1, Unmoved DEF Abstract!Run
<1>3. CASE UNCHANGED <<status, consumed>>
  BY <1>3, Unmoved DEF Abstract!vars
<1> QED
  BY <1>0, <1>1, <1>2, <1>3, TurnNextRows DEF Abstract!Next

\* Every step of the lane is a step of TurnLane, or none.
LEMMA StepRefines == IInv /\ [Next]_vars => [Abstract!Next]_Abstract!vars
<1> SUFFICES ASSUME IInv, [Next]_vars PROVE [Abstract!Next]_Abstract!vars
  OBVIOUS
<1>0. status \in [Msg -> RowStatus]
  BY DEF IInv, TypeOK, TurnTypeOK
<1>1. ASSUME NEW m \in Msg, status[m] = "free", status' = [status EXCEPT ![m] = "pending"], UNCHANGED consumed
      PROVE  Abstract!Arrive(m)
  <2>1. PhaseMap[m] = "none"
    BY <1>1 DEF PhaseMap, PhaseOf, Pending
  <2>2. PhaseMap' = [PhaseMap EXCEPT ![m] = "waiting"]
    BY <1>0, <1>1, PhaseMoves DEF RowStatus
  <2>3. LaneMap' = [LaneMap EXCEPT ![m] = "shared"]
    BY DEF LaneMap
  <2> QED
    BY <1>1, <2>1, <2>2, <2>3 DEF Abstract!Arrive
<1>2. ASSUME NEW h \in Msg, ClaimStored(h) \/ ClaimBatch(h) PROVE Abstract!Next
  BY <1>2, ClaimRefines DEF Abstract!Next
<1>3. ASSUME NEW ms \in SUBSET Msg, \A m \in ms : Pending(m), CancelRows(ms), UNCHANGED consumed
      PROVE  Abstract!Next
  BY <1>3, FinishRefines DEF CancelRows, Pending, Abstract!Next
<1>4. ASSUME NEW m \in Msg, NEW by, status[m] = "delivered", Record(m, by)
      PROVE  Abstract!Next
  <2>1. status' = [n \in Msg |-> IF n \in {m} THEN "completed" ELSE status[n]]
    BY <1>0, <1>4 DEF Record
  <2>2. Abstract!Finish({m})
    BY <1>4, <2>1, FinishRefines DEF Record
  <2> QED
    BY <2>2 DEF Abstract!Next
<1>5. CASE TurnNext
  BY <1>5, TurnRefines
<1>6. CASE UNCHANGED <<status, consumed>>
  BY <1>6, Unmoved DEF Abstract!vars
<1>7. RowsMove
  BY StepMovesRows
<1> QED
  BY <1>1, <1>2, <1>3, <1>4, <1>5, <1>6, <1>7 DEF RowsMove, Abstract!Next

\* The Shared lane implements TurnLane with a single lane: web messages and
\* bursts are handed to the guest one at a time, run at most once, and taken
\* back only before they ran.
THEOREM Refinement == Spec => RefinesTurnLane
BY InitRefines, StepRefines, Invariance, PTL DEF Spec, RefinesTurnLane, Abstract!Spec
=============================================================================
