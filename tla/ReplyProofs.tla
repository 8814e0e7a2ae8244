----------------------------- MODULE ReplyProofs -----------------------------
(***************************************************************************)
(* The way of an answer into a chat: the report relay, and the personal    *)
(* link through which some of its chunks leave.                            *)
(*                                                                         *)
(* The delivery of answers is safe for every number of intents, claim      *)
(* tokens and chunks, and for every lease that outlasts the deadline of an *)
(* attempt.  The heart is ActiveOwns: an attempt under its deadline still  *)
(* holds the lease, so what it does between its transactions is alone.     *)
(*                                                                         *)
(* The link is safe for every number of chunks, claims and changes of the  *)
(* link, with MCReplies's names of its state: its Token, state, inbox and  *)
(* shown are Run, linked, pipe and displayed.                              *)
(*                                                                         *)
(* The recovery of replies is safe for every number of loops, agents,      *)
(* bindings and rows and every size of the pages; MCReplies's name of the  *)
(* cursor is read.                                                         *)
(***************************************************************************)
EXTENDS MCReplies, FiniteSets, Sequences, FiniteSetTheorems, SequenceTheorems,
        WellFoundedInduction, TLAPS

\* The provers' view of a job.
LEMMA JobFields ==
    ASSUME NEW j \in Job
    PROVE  /\ j.intent \in Intent /\ j.token \in Token /\ j.ord \in Nat /\ j.left \in Nat
           /\ \A pc \in {"start", "send", "sent", "retry", "reject"} :
                 LET k == [j EXCEPT !.pc = pc] IN
                    /\ k \in Job /\ k.pc = pc
                    /\ k.intent = j.intent /\ k.token = j.token /\ k.ord = j.ord /\ k.left = j.left
BY DEF Job

\* Without claims the invariant holds.
LEMMA InitInv == Init => RelayInv
BY RelayAssumption DEF Init, RelayInv, TypeOK, ActiveOwns, JobInv, CursorFollows, DeliveredIsComplete, AgentOnce

\* A passed fence excludes every other attempt that is still active.
LEMMA FenceExcludes ==
    ASSUME RelayInv, NEW j \in jobs, Fence(j), NEW k \in jobs, k.intent = j.intent, Active(k)
    PROVE  k = j
BY DEF RelayInv, ActiveOwns, Owns, Fence, JobInv

\* A step that gives up the claim after a passed fence.
LEMMA UnclaimKeeps ==
    ASSUME RelayInv, NEW j \in jobs, Fence(j), Unclaim(j.intent), jobs' = jobs \ {j},
           UNCHANGED <<plan, shown>>,
           \A i \in Intent \ {j.intent} : state'[i] = state[i] /\ cursor'[i] = cursor[i]
    PROVE  ActiveOwns' /\ JobInv' /\ jobs' \subseteq Job /\ token' \in [Intent -> Token \cup {NoToken}]
           /\ lease' \in [Intent -> Nat]
<1>1. /\ jobs \subseteq Job /\ token \in [Intent -> Token \cup {NoToken}] /\ lease \in [Intent -> Nat]
      /\ j.intent \in Intent
  BY DEF RelayInv, TypeOK, Job
<1>2. \A k \in jobs' : k \in jobs /\ k.intent \in Intent /\ (Active(k) => k.intent # j.intent)
  BY <1>1, FenceExcludes DEF Job
<1>3. ActiveOwns'
  BY <1>1, <1>2 DEF RelayInv, ActiveOwns, Owns, Unclaim, Active
<1>4. JobInv'
  BY <1>1, <1>2 DEF RelayInv, JobInv, Active
<1> QED
  BY <1>1, <1>3, <1>4 DEF Unclaim

\* A step that only moves an attempt on.
LEMMA MoveKeeps ==
    ASSUME RelayInv, NEW j \in jobs, NEW pc \in {"start", "send", "sent", "retry", "reject"},
           jobs' = At(j, pc), Active(j),
           UNCHANGED <<token, lease, state, cursor>>
    PROVE  ActiveOwns' /\ jobs' \subseteq Job
<1> DEFINE n == [j EXCEPT !.pc = pc]
<1>1. jobs \subseteq Job /\ j \in Job
  BY DEF RelayInv, TypeOK
<1>2. n \in Job /\ n.intent = j.intent /\ n.token = j.token /\ n.left = j.left
  BY <1>1, JobFields
<1>3. jobs' = (jobs \ {j}) \cup {n}
  BY DEF At
<1> HIDE DEF n
<1> QED
  BY <1>1, <1>2, <1>3 DEF RelayInv, ActiveOwns, Owns, Active

-----------------------------------------------------------------------------
(* The steps.                                                              *)

\* A source that completes makes its intent claimable, no more.
LEMMA CompleteInv == ASSUME RelayInv, NEW i \in Intent, Complete(i) PROVE RelayInv'
BY DEF Complete, intentVars, RelayInv, TypeOK, ActiveOwns, Owns, Active, JobInv, CursorFollows,
   DeliveredIsComplete, AgentOnce

\* A claim needs an expired lease, and then no attempt is active.
LEMMA ClaimInv == ASSUME RelayInv, NEW i \in Intent, Claim(i) PROVE RelayInv'
<1> PICK k \in Token :
        /\ \A j \in jobs : j.intent = i => j.token # k
        /\ token' = [token EXCEPT ![i] = k]
        /\ jobs' = jobs \cup {[intent |-> i, token |-> k, ord |-> cursor[i], left |-> Deadline, pc |-> "start"]}
  BY DEF Claim
<1> DEFINE n == [intent |-> i, token |-> k, ord |-> cursor[i], left |-> Deadline, pc |-> "start"]
<1>1. n \in Job /\ n.intent = i /\ n.token = k /\ n.ord = cursor[i] /\ n.left = Deadline /\ n.pc = "start"
  BY RelayAssumption DEF RelayInv, TypeOK, Job
<1>2. jobs' = jobs \cup {n}
  OBVIOUS
<1> HIDE DEF n
<1>3. \A j \in jobs : j \in Job /\ j.intent \in Intent /\ (Active(j) => j.intent # i)
  <2> SUFFICES ASSUME NEW j \in jobs PROVE j \in Job /\ j.intent \in Intent /\ (Active(j) => j.intent # i)
    OBVIOUS
  <2>1. j \in Job /\ j.left \in Nat /\ j.intent \in Intent
    BY JobFields DEF RelayInv, TypeOK
  <2>2. ASSUME Active(j), j.intent = i PROVE FALSE
    <3>1. lease[i] > j.left /\ lease[i] = 0
      BY <2>2 DEF RelayInv, ActiveOwns, Owns, Claim
    <3> QED
      BY <2>1, <3>1
  <2> QED
    BY <2>1, <2>2
<1>4. TypeOK'
  BY <1>1, <1>2, RelayAssumption DEF Claim, RelayInv, TypeOK
<1>5. ActiveOwns'
  BY <1>1, <1>2, <1>3, RelayAssumption DEF Claim, RelayInv, TypeOK, ActiveOwns, Owns, Active
<1>6. JobInv'
  BY <1>1, <1>2, <1>3 DEF Claim, RelayInv, JobInv, Active
<1>7. CursorFollows' /\ DeliveredIsComplete' /\ AgentOnce'
  BY DEF Claim, RelayInv, CursorFollows, DeliveredIsComplete, AgentOnce
<1> QED
  BY <1>4, <1>5, <1>6, <1>7 DEF RelayInv

\* Planning happens once, before anything is sent.
LEMMA PrepareSendInv == ASSUME RelayInv, NEW j \in jobs, PrepareSend(j) PROVE RelayInv'
<1> DEFINE n == [j EXCEPT !.pc = "send"]
<1>1. j \in Job /\ j.intent \in Intent /\ Active(j) /\ jobs' = (jobs \ {j}) \cup {n}
  BY DEF PrepareSend, RelayInv, TypeOK, Job, Active, At
<1>2. n \in Job /\ n.intent = j.intent /\ n.token = j.token /\ n.ord = j.ord /\ n.pc = "send"
  BY <1>1, JobFields
<1> HIDE DEF n
<1>3. /\ plan' \in [Intent -> Nat] /\ plan'[j.intent] > 0 
      /\ \A i \in Intent : plan[i] > 0 => plan'[i] = plan[i]
  BY <1>1, RelayAssumption DEF PrepareSend, RelayInv, TypeOK
<1>4. ActiveOwns' /\ jobs' \subseteq Job
  BY <1>1, MoveKeeps DEF PrepareSend
<1>5. TypeOK'
  BY <1>3, <1>4 DEF PrepareSend, RelayInv, TypeOK
<1>6. JobInv'
  <2>1. \A k \in jobs : k.intent \in Intent
    BY DEF RelayInv, TypeOK, Job
  <2> QED
    BY <1>1, <1>2, <1>3, <2>1 DEF PrepareSend, RelayInv, JobInv, Active
<1>7. DeliveredIsComplete'
  BY <1>1, <1>3, RelayAssumption DEF PrepareSend, RelayInv, DeliveredIsComplete
<1>8. CursorFollows' /\ AgentOnce'
  BY DEF PrepareSend, RelayInv, CursorFollows, AgentOnce
<1> QED
  BY <1>4, <1>5, <1>6, <1>7, <1>8 DEF RelayInv

\* The chunk that is accepted is the one at the cursor, of the only sender.
LEMMA ProviderAcceptsInv ==
    ASSUME RelayInv, NEW j \in jobs, NEW pc \in {"sent", "retry"}, ProviderAccepts(j, pc)
    PROVE  RelayInv'
<1> DEFINE n == [j EXCEPT !.pc = pc]
<1>1. j \in Job /\ j.intent \in Intent /\ j.ord \in Nat /\ Active(j) /\ jobs' = (jobs \ {j}) \cup {n}
  BY JobFields DEF ProviderAccepts, RelayInv, TypeOK, Active, At
<1>2. n \in Job /\ n.intent = j.intent /\ n.token = j.token /\ n.ord = j.ord /\ n.pc = pc
  BY <1>1 DEF Job
<1> HIDE DEF n
<1>3. Owns(j) /\ j.ord = cursor[j.intent] /\ j.intent \in ImIntent /\ plan[j.intent] > 0
  BY <1>1 DEF ProviderAccepts, RelayInv, ActiveOwns, JobInv
<1>4. ActiveOwns' /\ jobs' \subseteq Job
  BY <1>1, MoveKeeps DEF ProviderAccepts, intentVars
<1>5. TypeOK'
  BY <1>1, <1>4 DEF ProviderAccepts, intentVars, RelayInv, TypeOK
<1>6. JobInv'
  <2>1. \A k \in jobs : k.intent \in Intent /\ (k # j /\ k.pc = "sent" => k.intent # j.intent)
    BY <1>1 DEF RelayInv, TypeOK, Job, ActiveOwns, Owns, JobInv, Active
  <2>2. shown \in [Intent -> Nat] /\ shown' = [shown EXCEPT ![j.intent] = j.ord + 1]
    BY DEF RelayInv, TypeOK, ProviderAccepts
  <2> QED
    BY <1>1, <1>2, <1>3, <2>1, <2>2 DEF ProviderAccepts, intentVars, RelayInv, JobInv, Active
<1>7. CursorFollows'
  BY <1>1, <1>3 DEF ProviderAccepts, intentVars, RelayInv, TypeOK, CursorFollows
<1>8. DeliveredIsComplete'
  BY <1>1, <1>3, RelayAssumption DEF ProviderAccepts, intentVars, RelayInv, TypeOK, DeliveredIsComplete, Owns
<1>9. AgentOnce'
  BY DEF ProviderAccepts, intentVars, RelayInv, AgentOnce
<1> QED
  BY <1>4, <1>5, <1>6, <1>7, <1>8, <1>9 DEF RelayInv

\* The cursor moves over the chunk that was just shown.
LEMMA CheckpointInv == ASSUME RelayInv, NEW j \in jobs, Checkpoint(j) PROVE RelayInv'
<1>1. j \in Job /\ j.intent \in ImIntent /\ j.intent \in Intent /\ j.ord \in Nat
  BY JobFields DEF Checkpoint, RelayInv, TypeOK, JobInv
<1>2. shown[j.intent] = j.ord + 1 /\ plan[j.intent] > 0 /\ state[j.intent] = "open"
  BY DEF Checkpoint, RelayInv, JobInv, Fence
<1>3. /\ ActiveOwns' /\ JobInv' /\ jobs' \subseteq Job
      /\ token' \in [Intent -> Token \cup {NoToken}] /\ lease' \in [Intent -> Nat]
  BY UnclaimKeeps DEF Checkpoint, RelayInv, TypeOK
<1>4. TypeOK'
  <2>1. cursor' \in [Intent -> Nat] /\ wait' \in [Intent -> Nat]
    BY <1>1 DEF Checkpoint, RelayInv, TypeOK
  <2>2. state' \in [Intent -> {"open", "delivered", "terminal"}]
    BY <1>1 DEF Checkpoint, RelayInv, TypeOK
  <2> QED
    BY <1>3, <2>1, <2>2 DEF Checkpoint, RelayInv, TypeOK
<1>5. CursorFollows'
  BY <1>1, <1>2 DEF Checkpoint, RelayInv, TypeOK, CursorFollows
<1>6. DeliveredIsComplete'
  BY <1>1, <1>2, RelayAssumption DEF Checkpoint, RelayInv, TypeOK, DeliveredIsComplete
<1>7. AgentOnce'
  BY <1>1, <1>2 DEF Checkpoint, RelayInv, TypeOK, AgentOnce
<1> QED
  BY <1>3, <1>4, <1>5, <1>6, <1>7 DEF RelayInv

\* The outcomes that give up the claim without moving the cursor: an agent's
\* reply, a terminal outcome and a retry.
LEMMA OutcomeInv ==
    ASSUME RelayInv, NEW j \in jobs, DeliverAgent(j) \/ FinishIdentity(j) \/ FinishTerminal(j) \/ Retry(j)
    PROVE  RelayInv'
<1> USE DEF DeliverAgent, FinishIdentity, FinishTerminal, Retry
<1>1. j \in Job /\ j.intent \in Intent
  BY JobFields DEF RelayInv, TypeOK
<1>2. Fence(j) /\ state[j.intent] = "open" /\ Unclaim(j.intent) /\ jobs' = jobs \ {j} 
      /\ UNCHANGED <<source, plan, shown, cursor>>
  BY DEF Fence
<1>3. /\ ActiveOwns' /\ JobInv' /\ jobs' \subseteq Job
      /\ token' \in [Intent -> Token \cup {NoToken}] /\ lease' \in [Intent -> Nat]
  BY <1>2, UnclaimKeeps DEF RelayInv, TypeOK
<1>4. TypeOK'
  <2>1. wait' \in [Intent -> Nat] /\ inbox' \in [Intent -> Nat]
    BY <1>1, RelayAssumption DEF RelayInv, TypeOK
  <2>2. state' \in [Intent -> {"open", "delivered", "terminal"}]
    BY <1>1 DEF RelayInv, TypeOK
  <2> QED
    BY <1>2, <1>3, <2>1, <2>2 DEF RelayInv, TypeOK
<1>5. CursorFollows'
  BY <1>2 DEF RelayInv, CursorFollows
<1>6. DeliveredIsComplete'
  BY <1>1, <1>2, RelayAssumption DEF RelayInv, TypeOK, DeliveredIsComplete
<1>7. AgentOnce'
  BY <1>1, <1>2 DEF RelayInv, TypeOK, AgentOnce
<1> QED
  BY <1>3, <1>4, <1>5, <1>6, <1>7 DEF RelayInv

\* An attempt that fails, loses its claim or dies changes no intent.
LEMMA EndInv ==
    ASSUME RelayInv, NEW j \in jobs, Fail(j) \/ LostClaim(j) \/ WorkerLost(j)
    PROVE  RelayInv'
<1>1. UNCHANGED <<source, intentVars, shown, inbox>>
  BY DEF Fail, LostClaim, Lost, WorkerLost
<1>2. CASE jobs' = jobs \ {j}
  BY <1>1, <1>2 DEF intentVars, RelayInv, TypeOK, ActiveOwns, Owns, Active, JobInv, CursorFollows,
     DeliveredIsComplete, AgentOnce
<1>3. ASSUME NEW pc \in {"retry", "reject"}, jobs' = At(j, pc), Active(j) PROVE RelayInv'
  <2> DEFINE n == [j EXCEPT !.pc = pc]
  <2>1. j \in Job /\ jobs' = (jobs \ {j}) \cup {n}
    BY <1>3 DEF At, RelayInv, TypeOK
  <2>2. n \in Job /\ n.intent = j.intent /\ n.token = j.token /\ n.pc = pc
    BY <2>1 DEF Job
  <2> HIDE DEF n
  <2>3. ActiveOwns' /\ jobs' \subseteq Job
    BY <1>1, <1>3, MoveKeeps DEF intentVars
  <2>4. JobInv'
    BY <1>1, <2>1, <2>2 DEF intentVars, RelayInv, JobInv, Active
  <2> QED
    BY <1>1, <2>3, <2>4 DEF intentVars, RelayInv, TypeOK, CursorFollows, DeliveredIsComplete, AgentOnce
<1> QED
  BY <1>2, <1>3 DEF Fail, LostClaim, Lost, WorkerLost

\* Time takes the same from a lease and from the deadline of its attempt, and
\* does not pass over an attempt whose deadline is used up.
LEMMA TickInv == ASSUME RelayInv, Tick PROVE RelayInv'
<1> DEFINE older(j) == [j EXCEPT !.left = IF @ > 0 THEN @ - 1 ELSE 0]
<1>1. \A j \in jobs : /\ j \in Job /\ j.intent \in Intent /\ j.left \in Nat
                      /\ older(j) \in Job
                      /\ older(j).left = IF j.left > 0 THEN j.left - 1 ELSE 0
                      /\ older(j).intent = j.intent /\ older(j).token = j.token
                      /\ older(j).ord = j.ord /\ older(j).pc = j.pc
  BY DEF RelayInv, TypeOK, Job
<1>2. jobs' = {older(j) : j \in jobs}
  BY DEF Tick
<1> HIDE DEF older
<1>3. TypeOK'
  BY <1>1, <1>2 DEF Tick, RelayInv, TypeOK
<1>4. ActiveOwns'
  <2> SUFFICES ASSUME NEW k \in jobs', Active(k)
               PROVE  token'[k.intent] = k.token /\ state'[k.intent] = "open" /\ lease'[k.intent] > k.left
    BY DEF ActiveOwns, Owns, Active
  <2>1. PICK j \in jobs : k = older(j)
    BY <1>2
  <2>2. Active(j)
    BY <1>1, <2>1 DEF Active
  <2>3. j.left > 0 /\ token[j.intent] = j.token /\ state[j.intent] = "open" /\ lease[j.intent] > j.left
    BY <2>2 DEF Tick, RelayInv, ActiveOwns, Owns
  <2>4. lease'[j.intent] = IF lease[j.intent] > 0 THEN lease[j.intent] - 1 ELSE 0
    BY <1>1 DEF Tick
  <2>5. lease[j.intent] \in Nat
    BY <1>1 DEF RelayInv, TypeOK
  <2> QED
    BY <1>1, <2>1, <2>3, <2>4, <2>5 DEF Tick
<1>5. JobInv'
  BY <1>1, <1>2 DEF Tick, RelayInv, JobInv, Active
<1>6. CursorFollows' /\ DeliveredIsComplete' /\ AgentOnce'
  BY DEF Tick, RelayInv, CursorFollows, DeliveredIsComplete, AgentOnce
<1> QED
  BY <1>3, <1>4, <1>5, <1>6 DEF RelayInv

\* Every step, or none, keeps the invariant.
LEMMA NextInv == RelayInv /\ [Next]_vars => RelayInv'
<1> SUFFICES ASSUME RelayInv, [Next]_vars PROVE RelayInv'
  OBVIOUS
<1>1. CASE \E i \in Intent : Complete(i) \/ Claim(i)
  BY <1>1, CompleteInv, ClaimInv
<1>2. ASSUME NEW j \in jobs, JobStep(j) PROVE RelayInv'
  BY <1>2, PrepareSendInv, ProviderAcceptsInv, CheckpointInv, OutcomeInv, EndInv DEF JobStep
<1>3. CASE Tick
  BY <1>3, TickInv
<1>4. CASE UNCHANGED vars
  BY <1>4 DEF vars, intentVars, RelayInv, TypeOK, ActiveOwns, Owns, Active, JobInv, CursorFollows,
     DeliveredIsComplete, AgentOnce
<1> QED
  BY <1>1, <1>2, <1>3, <1>4 DEF Next

-----------------------------------------------------------------------------
(* Theorems.                                                               *)

\* The inductive invariant: claims, sends, checkpoints, retries, crashes and
\* the passing of time keep it.
THEOREM Invariance == Spec => []RelayInv
BY InitInv, NextInv, PTL DEF Spec

\* claim_batch and the deadline of deliver_claim: no two workers deliver the
\* same intent at the same time.
THEOREM SingleSender == Spec => []OneSender
<1>1. RelayInv => OneSender
  BY DEF RelayInv, ActiveOwns, Owns, JobInv, OneSender
<1> QED
  BY <1>1, Invariance, PTL

\* _deliver_agent: one inbox row per acknowledged intent, none otherwise.
THEOREM AgentExactlyOnce == Spec => []AgentOnce
<1>1. RelayInv => AgentOnce
  BY DEF RelayInv
<1> QED
  BY <1>1, Invariance, PTL

\* checkpoint_chunk: a delivered answer was shown to its last chunk.
THEOREM CompleteDelivery == Spec => []DeliveredIsComplete
<1>1. RelayInv => DeliveredIsComplete
  BY DEF RelayInv
<1> QED
  BY <1>1, Invariance, PTL

\* A reader sees no chunk before its predecessors, and after a crash at most
\* the last chunk again.
THEOREM OrderedChunks == Spec => ChunksInOrder
<1>1. RelayInv /\ [Next]_vars => [\A i \in Intent : shown'[i] # shown[i] => shown'[i] = shown[i] + 1]_vars
  <2> SUFFICES ASSUME RelayInv, [Next]_vars, NEW i \in Intent, shown'[i] # shown[i]
               PROVE  shown'[i] = shown[i] + 1
    OBVIOUS
  <2>1. PICK j \in jobs, pc \in {"sent", "retry"} : ProviderAccepts(j, pc)
    BY DEF Next, Complete, Claim, JobStep, PrepareSend, Checkpoint, DeliverAgent, FinishIdentity, Fail,
       Retry, FinishTerminal, LostClaim, Lost, WorkerLost, Tick, vars
  <2>2. j.intent \in Intent /\ j.ord = cursor[j.intent]
    BY <2>1 DEF ProviderAccepts, RelayInv, TypeOK, Job, JobInv, Active
  <2>3. shown' = [shown EXCEPT ![j.intent] = cursor[j.intent] + 1]
    BY <2>1, <2>2 DEF ProviderAccepts
  <2> QED
    BY <2>2, <2>3 DEF RelayInv, TypeOK, CursorFollows
<1> QED
  BY <1>1, Invariance, PTL DEF Spec, ChunksInOrder

\* Delivered and terminal are final, im_plan is written once, next_chunk only
\* grows.
THEOREM FinalOutcome == Spec => Final
<1> DEFINE Kept(i) ==
        /\ state[i] # "open" => state'[i] = state[i] /\ shown'[i] = shown[i] /\ inbox'[i] = inbox[i]
        /\ plan[i] > 0 => plan'[i] = plan[i]
        /\ cursor'[i] >= cursor[i]
<1>1. RelayInv /\ [Next]_vars => [\A i \in Intent : Kept(i)]_vars
  <2> SUFFICES ASSUME RelayInv, [Next]_vars, NEW i \in Intent PROVE Kept(i)
    OBVIOUS
  <2>0. TypeOK /\ cursor[i] \in Nat
    BY DEF RelayInv, TypeOK
  <2>1. CASE UNCHANGED <<state, plan, cursor, shown, inbox>>
    BY <2>0, <2>1
  <2>2. ASSUME NEW j \in jobs, JobStep(j) PROVE Kept(i)
    <3>1. j.intent \in Intent /\ j.ord \in Nat
      BY <2>0 DEF TypeOK, Job
    <3>2. CASE PrepareSend(j)
      BY <2>0, <3>1, <3>2 DEF PrepareSend, TypeOK
    <3>3. ASSUME NEW pc \in {"sent", "retry"}, ProviderAccepts(j, pc) PROVE Kept(i)
      <4>1. state[j.intent] = "open"
        BY <3>3 DEF ProviderAccepts, RelayInv, ActiveOwns, Owns, Active
      <4> QED
        BY <2>0, <3>1, <3>3, <4>1 DEF ProviderAccepts, intentVars, TypeOK
    <3>4. CASE Checkpoint(j)
      BY <2>0, <3>1, <3>4 DEF Checkpoint, Fence, TypeOK
    <3>5. CASE DeliverAgent(j) \/ FinishIdentity(j) \/ FinishTerminal(j) \/ Retry(j)
      BY <2>0, <3>1, <3>5 DEF DeliverAgent, FinishIdentity, FinishTerminal, Retry, Fence, TypeOK
    <3>6. CASE Fail(j) \/ LostClaim(j) \/ WorkerLost(j)
      BY <2>0, <3>6 DEF Fail, LostClaim, Lost, WorkerLost, intentVars
    <3> QED
      BY <2>2, <3>2, <3>3, <3>4, <3>5, <3>6 DEF JobStep
  <2> QED
    BY <2>1, <2>2 DEF Next, Complete, Claim, Tick, vars, intentVars
<1> QED
  BY <1>1, Invariance, PTL DEF Spec, Final

\* deliver_claim and deliver_agent: what a destination sees.
THEOREM Safety == Spec => []RelaySafety
BY SingleSender, CompleteDelivery, AgentExactlyOnce, PTL DEF RelaySafety

\* The fenced statements of the delivery DAO: what no attempt does.
THEOREM Rules == Spec => RelayRules
BY OrderedChunks, FinalOutcome DEF RelayRules

-----------------------------------------------------------------------------
(* The two halves of the link's invariant.                                    *)

\* Who speaks for the link, and with which credentials.
Claims == Link!ClaimHeld /\ Link!OneChild /\ Link!PurgedStaysPurged

\* What is sent, and what is said about it.
Sends == Link!OneWay /\ Link!ShownAtMostOnce /\ Link!OutcomeIsTrue

-----------------------------------------------------------------------------
(* The link: claims, processes and credentials.                               *)

\* What the claim's part of the invariant is about.
LEMMA ClaimFrame ==
    ASSUME Claims,
           UNCHANGED <<desired, purge, gen, epoch, holder, auth, parent, seen, child>>
    PROVE  Claims'
BY DEF Claims, Link!ClaimHeld, Link!OneChild, Link!PurgedStaysPurged

\* One task or process moves under an unchanged link.
LEMMA ClaimMoves ==
    ASSUME Link!TypeOK, Claims, NEW t \in Run,
           NEW p \in Link!ParentState, NEW k \in Link!ChildState,
           parent' = [parent EXCEPT ![t] = p], child' = [child EXCEPT ![t] = k],
           UNCHANGED <<desired, purge, gen, epoch, holder, auth, seen>>,
           p \in {"none", "start"} => k = "none",
           p \in {"reap", "after", "gone"} => k \in {"none", "exited"},
           k \notin {"none", "exited"} => holder = t
    PROVE  Claims'
<1>1. /\ parent'[t] = p /\ child'[t] = k
      /\ \A u \in Run \ {t} : parent'[u] = parent[u] /\ child'[u] = child[u]
  BY DEF Link!TypeOK
<1>2. Link!ClaimHeld'
  BY <1>1 DEF Claims, Link!ClaimHeld
<1>3. Link!OneChild'
  BY <1>1 DEF Claims, Link!OneChild
<1> QED BY <1>2, <1>3 DEF Claims, Link!PurgedStaysPurged

\* A task moves on, its process stays.
LEMMA TaskMoves ==
    ASSUME Link!TypeOK, Claims, NEW t \in Run, NEW p \in Link!ParentState,
           Link!To(t, p), UNCHANGED <<desired, purge, gen, epoch, holder, auth, seen, child>>,
           \/ p \in {"tick", "authorize", "send", "stop", "crashed"}
           \/ p \in {"after", "gone"} /\ parent[t] \in {"reap", "after"}
    PROVE  Claims'
<1>1. child[t] \in Link!ChildState /\ child' = [child EXCEPT ![t] = child[t]]
  BY DEF Link!TypeOK
<1>2. parent[t] \in {"reap", "after"} => child[t] \in {"none", "exited"}
  BY DEF Claims, Link!ClaimHeld
<1>3. child[t] \notin {"none", "exited"} => holder = t
  BY DEF Claims, Link!OneChild
<1>4. parent' = [parent EXCEPT ![t] = p]
  BY DEF Link!To
<1> QED BY <1>1, <1>2, <1>3, <1>4, ClaimMoves

\* The link moves to another generation: a purge deletes the credentials, and
\* a link that is wanted and purged has a claim of an earlier generation.
LEMMA LinkMoves ==
    ASSUME Link!TypeOK, Claims,
           gen' = gen + 1, UNCHANGED <<holder, seen, child>>,
           \A t \in Run : /\ parent'[t] \in {"none", "start"} => parent[t] \in {"none", "start"}
                          /\ parent'[t] \in {"reap", "after", "gone"} =>
                                 parent[t] \in {"reap", "after", "gone"},
           desired' /\ purge' => holder # NoToken,
           purge' => auth' = {},
           auth' = {} \/ (auth' = auth /\ epoch' = epoch)
    PROVE  Claims'
<1>1. gen \in Nat /\ (holder # NoToken => holder \in Run) /\ \A t \in Run : seen[t][1] \in Nat
  BY DEF Link!TypeOK, Link!Route
<1>2. Link!ClaimHeld'
  BY <1>1 DEF Claims, Link!ClaimHeld
<1> QED BY <1>2 DEF Claims, Link!OneChild, Link!PurgedStaysPurged

\* The user's and the lifecycle's changes.
LEMMA LinkNextClaims ==
    ASSUME Link!TypeOK, Claims, Link!LinkNext
    PROVE  Claims'
<1> USE DEF Link!parentVars, Link!childVars
<1>1. ASSUME NEW b \in BOOLEAN, Link!Start(b) PROVE Claims'
  BY <1>1, LinkMoves DEF Link!Start
<1>2. ASSUME NEW b \in BOOLEAN, Link!UserRevoke(b) PROVE Claims'
  <2>1. purge' => auth' = {}
    BY <1>2 DEF Link!UserRevoke, Link!Revoke, Claims, Link!PurgedStaysPurged
  <2> QED BY <1>2, <2>1, LinkMoves DEF Link!UserRevoke, Link!Revoke
<1>3. CASE Link!Relink
  BY <1>3, LinkMoves DEF Link!Relink
<1>4. CASE Link!ExpirePairing
  BY <1>4, LinkMoves DEF Link!ExpirePairing
<1>5. CASE Link!LeaseExpires
  BY <1>5, ClaimFrame DEF Link!LeaseExpires
<1> QED BY <1>1, <1>2, <1>3, <1>4, <1>5 DEF Link!LinkNext

\* A frame is read: credentials are stored under the fence only, and the end of
\* a process revokes only the generation it was started in.
LEMMA ReadFrameClaims ==
    ASSUME Link!TypeOK, Claims, NEW t \in Run, NEW f, Link!ReadFrame(t, f)
    PROVE  Claims'
<1>0. UNCHANGED <<seen, child>>
  BY DEF Link!ReadFrame
<1>1. CASE Link!RecordResult(t, f)
  BY <1>0, <1>1, ClaimFrame DEF Link!RecordResult, Link!linkVars
<1>2. CASE Link!BindIdentity(t, f)
  BY <1>0, <1>2, ClaimFrame DEF Link!BindIdentity
<1>3. CASE Link!StoreAuth(t, f)
  <2>1. CASE Link!Fence(t)
    <3>1. seen[t] = <<gen, epoch>> /\ desired /\ holder = t
      BY <2>1 DEF Link!Fence
    <3>2. seen[t][1] = gen /\ seen[t][2] = epoch /\ gen \in Nat
      BY <3>1 DEF Link!TypeOK
    <3>3. ~purge
      BY <3>1, <3>2 DEF Claims, Link!ClaimHeld
    <3>4. auth' \subseteq {epoch} /\ UNCHANGED <<desired, purge, gen, epoch, holder, parent>>
      BY <1>3, <2>1, <3>2 DEF Link!StoreAuth, Claims, Link!PurgedStaysPurged
    <3> QED BY <1>0, <3>3, <3>4 DEF Claims, Link!ClaimHeld, Link!OneChild, Link!PurgedStaysPurged
  <2>2. CASE ~Link!Fence(t)
    <3>1. Link!To(t, "stop") /\ UNCHANGED <<desired, purge, gen, epoch, holder, auth>>
      BY <1>3, <2>2 DEF Link!StoreAuth
    <3> QED BY <1>0, <3>1, TaskMoves DEF Link!ParentState
  <2> QED BY <2>1, <2>2
<1>4. CASE Link!HandleClosed(t, f)
  <2>0. Link!To(t, "stop")
    BY <1>4 DEF Link!HandleClosed
  <2>1. CASE UNCHANGED Link!linkVars
    BY <1>0, <2>0, <2>1, TaskMoves DEF Link!linkVars, Link!ParentState
  <2>2. CASE Link!Revoke(f.reason = "logged_out")
    <3>1. purge' => auth' = {}
      BY <2>2 DEF Link!Revoke, Claims, Link!PurgedStaysPurged
    <3>2. \A u \in Run : parent'[u] = parent[u] \/ parent'[u] = "stop"
      BY <2>0 DEF Link!To, Link!TypeOK
    <3> QED BY <1>0, <2>2, <3>1, <3>2, LinkMoves DEF Link!Revoke
  <2> QED BY <1>4, <2>1, <2>2 DEF Link!HandleClosed
<1> QED BY <1>1, <1>2, <1>3, <1>4 DEF Link!ReadFrame

\* A task of the supervisor.
LEMMA ParentClaims ==
    ASSUME Link!TypeOK, Claims, NEW t \in Run, Link!ParentNext(t)
    PROVE  Claims'
<1> USE DEF Link!linkVars, Link!childVars, Link!ParentState
<1>0. t # NoToken /\ parent \in [Run -> Link!ParentState] /\ child \in [Run -> Link!ChildState]
  BY RunAssumption DEF Link!TypeOK
<1>1. CASE Link!Claim(t)
  <2>1. /\ parent[t] = "none" /\ desired /\ holder = NoToken /\ holder' = t
        /\ seen' = [seen EXCEPT ![t] = <<gen, epoch>>] /\ parent' = [parent EXCEPT ![t] = "start"]
        /\ UNCHANGED <<desired, purge, gen, epoch, auth, child>>
    BY <1>1 DEF Link!Claim, Link!To
  <2>2. ~purge
    BY <2>1 DEF Claims, Link!ClaimHeld
  <2>3. seen'[t] = <<gen, epoch>> /\ \A u \in Run \ {t} : seen'[u] = seen[u]
    BY <2>1 DEF Link!TypeOK
  <2>4. seen'[t][1] = gen /\ gen \in Nat
    BY <2>3 DEF Link!TypeOK
  <2>5. Link!ClaimHeld'
    BY <1>0, <2>1, <2>2, <2>3, <2>4 DEF Claims, Link!ClaimHeld
  <2>6. Link!OneChild'
    BY <1>0, <2>1, RunAssumption DEF Claims, Link!OneChild
  <2> QED BY <2>1, <2>5, <2>6 DEF Claims, Link!PurgedStaysPurged
<1>2. CASE Link!Spawn(t)
  <2>1. CASE Link!Fence(t)
    BY <1>2, <2>1, ClaimMoves DEF Link!Spawn, Link!Fence, Link!To, Link!ChildState
  <2>2. CASE ~Link!Fence(t)
    BY <1>2, <2>2, TaskMoves DEF Link!Spawn
  <2> QED BY <2>1, <2>2
<1>3. CASE \/ Link!Renew(t) \/ Link!RenewFails(t) \/ Link!Authorize(t)
           \/ Link!NothingToDispatch(t) \/ Link!WriteSend(t)
  <2>1. UNCHANGED <<desired, purge, gen, epoch, holder, auth, seen, child>>
    BY <1>3 DEF Link!Renew, Link!RenewFails, Link!Authorize, Link!NothingToDispatch, Link!WriteSend
  <2>2. \E p \in {"tick", "authorize", "send", "stop"} : Link!To(t, p)
    BY <1>3 DEF Link!Renew, Link!RenewFails, Link!Authorize, Link!NothingToDispatch, Link!WriteSend
  <2> QED BY <2>1, <2>2, TaskMoves
<1>4. CASE Link!TickRevokes(t)
  <2>1. PICK b \in BOOLEAN : Link!Revoke(b)
    BY <1>4 DEF Link!TickRevokes
  <2>2. purge' => auth' = {}
    BY <2>1 DEF Link!Revoke, Claims, Link!PurgedStaysPurged
  <2>3. \A u \in Run : parent'[u] = parent[u] \/ parent'[u] = "stop"
    BY <1>0, <1>4 DEF Link!TickRevokes, Link!To
  <2> QED BY <1>4, <2>1, <2>2, <2>3, LinkMoves DEF Link!Revoke, Link!TickRevokes
<1>5. CASE Link!EndTask(t)
  BY <1>5, TaskMoves DEF Link!EndTask
<1>6. CASE Link!KillChild(t)
  <2>1. /\ parent' = [parent EXCEPT ![t] = "reap"]
        /\ UNCHANGED <<desired, purge, gen, epoch, holder, auth, seen>>
    BY <1>6 DEF Link!KillChild, Link!To
  <2>2. PICK k \in {"none", "exited"} : child' = [child EXCEPT ![t] = k]
    BY <1>6 DEF Link!KillChild
  <2> QED BY <2>1, <2>2, ClaimMoves DEF Link!ChildState
<1>7. CASE Link!Reaped(t)
  <2>1. CASE holder = t
    <3>1. /\ parent[t] = "reap" /\ parent' = [parent EXCEPT ![t] = "after"]
          /\ holder' = NoToken /\ purge' = FALSE /\ UNCHANGED <<desired, gen, auth, seen, child>>
          /\ epoch' = epoch \/ purge
      BY <1>7, <2>1 DEF Link!Reaped, Link!To
    <3>2. Link!ClaimHeld'
      BY <1>0, <3>1 DEF Claims, Link!ClaimHeld
    <3>3. Link!OneChild'
      BY <2>1, <3>1 DEF Claims, Link!OneChild, Link!ClaimHeld
    <3> QED BY <3>1, <3>2, <3>3 DEF Claims, Link!PurgedStaysPurged
  <2>2. CASE holder # t
    BY <1>7, <2>2, TaskMoves DEF Link!Reaped
  <2> QED BY <2>1, <2>2
<1>8. CASE Link!FailConnection(t)
  <2>1. CASE holder = NoToken /\ seen[t] = <<gen, epoch>>
    <3>1. \A u \in Run : parent'[u] = parent[u] \/ (parent[u] = "after" /\ parent'[u] = "gone")
      BY <1>0, <1>8 DEF Link!FailConnection, Link!To
    <3> QED BY <1>8, <2>1, <3>1, LinkMoves DEF Link!FailConnection
  <2>2. CASE ~(holder = NoToken /\ seen[t] = <<gen, epoch>>)
    BY <1>8, <2>2, TaskMoves DEF Link!FailConnection
  <2> QED BY <2>1, <2>2
<1>9. CASE Link!EndRun(t) \/ Link!Crash(t)
  BY <1>9, TaskMoves DEF Link!EndRun, Link!Crash
<1>10. ASSUME NEW f \in outbox[t], Link!ReadFrame(t, f) PROVE Claims'
  BY <1>10, ReadFrameClaims
<1> QED
  BY <1>1, <1>2, <1>3, <1>4, <1>5, <1>6, <1>7, <1>8, <1>9, <1>10 DEF Link!ParentNext, Link!TaskStep

\* The process moves on its own, while it lives.
LEMMA ChildClaims ==
    ASSUME Link!TypeOK, Claims, NEW t \in Run, Link!ChildNext(t)
    PROVE  Claims'
<1> USE DEF Link!linkVars, Link!parentVars
<1>1. UNCHANGED <<desired, purge, gen, epoch, holder, auth, parent, seen>>
  BY DEF Link!ChildNext, Link!ChildSaves, Link!ChildOpens, Link!ChildCloses, Link!ChildStops,
         Link!ChildExits, Link!Submit, Link!Dispatch, Link!DispatchFails, Link!SendTimesOut,
         Link!ReceiveAck
<1>2. CASE child' = child
  BY <1>1, <1>2, ClaimFrame
<1>3. CASE child' # child
  <2>1. child[t] \notin {"none", "exited"}
    BY <1>3 DEF Link!ChildNext, Link!ChildSaves, Link!ChildOpens, Link!ChildCloses, Link!ChildStops,
                Link!ChildExits, Link!Submit, Link!Dispatch, Link!DispatchFails, Link!SendTimesOut,
                Link!ReceiveAck, Link!Up
  <2>2. PICK k \in Link!ChildState : child' = [child EXCEPT ![t] = k]
    BY <1>3 DEF Link!ChildNext, Link!ChildSaves, Link!ChildOpens, Link!ChildCloses, Link!ChildStops,
                Link!ChildExits, Link!Submit, Link!Dispatch, Link!DispatchFails, Link!SendTimesOut,
                Link!ReceiveAck, Link!ChildState
  <2>3. holder = t /\ parent[t] \notin {"none", "start", "reap", "after", "gone"}
    BY <2>1 DEF Claims, Link!OneChild, Link!ClaimHeld
  <2>4. parent' = [parent EXCEPT ![t] = parent[t]] /\ parent[t] \in Link!ParentState
    BY <1>1 DEF Link!TypeOK
  <2> QED BY <1>1, <2>2, <2>3, <2>4, ClaimMoves
<1> QED BY <1>2, <1>3

-----------------------------------------------------------------------------
(* The link: types.                                                           *)

LEMMA FramesOf ==
    ASSUME NEW c \in Cmd, NEW o \in Link!Outcome, NEW r \in Link!CloseReason, NEW x \in {"auth", "identity"}
    PROVE  /\ [type |-> x] \in Link!Frame /\ Link!Result(c, o) \in Link!Frame
           /\ [type |-> "closed", reason |-> r] \in Link!Frame
           /\ Link!Result(c, o).type = "result" /\ Link!Result(c, o).cmd = c
           /\ Link!Result(c, o).outcome = o
           /\ [type |-> x].type # "result" /\ [type |-> "closed", reason |-> r].type # "result"
BY DEF Link!Frame, Link!Result

\* What a process emits is told by it, and nothing else is new.
LEMMA EmitTells ==
    ASSUME Link!TypeOK, NEW t \in Run, NEW frames \in SUBSET Link!Frame, Link!Emit(t, frames)
    PROVE  /\ outbox' \in [Run -> SUBSET Link!Frame]
           /\ \A u \in Run, c \in Cmd, o \in Link!Outcome :
                 Link!Told(u, c, o)' => \/ Link!Told(u, c, o)
                                        \/ u = t /\ \E f \in frames : f.type = "result" /\ f.cmd = c /\ f.outcome = o
<1>1. /\ outbox \in [Run -> SUBSET Link!Frame]
      /\ outbox' = [outbox EXCEPT ![t] = IF Link!Running(t) THEN @ \cup frames ELSE @]
  BY DEF Link!TypeOK, Link!Emit
<1>2. /\ \A u \in Run \ {t} : outbox'[u] = outbox[u]
      /\ outbox'[t] = outbox[t] \/ outbox'[t] = outbox[t] \cup frames
  BY <1>1
<1> QED BY <1>1, <1>2 DEF Link!Told

\* A set of sends ends with one outcome, which is told of them.
LEMMA FinishTells ==
    ASSUME Link!TypeOK, NEW t \in Run, NEW cs \in SUBSET Cmd, NEW o \in Link!Outcome, Link!Finish(t, cs, o)
    PROVE  /\ outbox' \in [Run -> SUBSET Link!Frame]
           /\ entry' \in [Run -> [Cmd -> {"none", "queued", "active"} \cup Link!Outcome]]
           /\ \A u \in Run, c \in Cmd : entry'[u][c] = IF u = t /\ c \in cs THEN o ELSE entry[u][c]
           /\ \A u \in Run, c \in Cmd, p \in Link!Outcome :
                 Link!Told(u, c, p)' => Link!Told(u, c, p) \/ (u = t /\ c \in cs /\ p = o)
<1> DEFINE frames == {Link!Result(c, o) : c \in cs}
<1>1. frames \in SUBSET Link!Frame
  BY FramesOf DEF Link!CloseReason
<1>2. \A f \in frames : \E c \in cs : f.cmd = c /\ f.outcome = o
  BY DEF Link!Result
<1>3. Link!Emit(t, frames)
  BY DEF Link!Finish
<1>4. \A f \in frames : f.cmd \in cs /\ f.outcome = o
  BY <1>2
<1> HIDE DEF frames
<1>5. /\ outbox' \in [Run -> SUBSET Link!Frame]
      /\ \A u \in Run, c \in Cmd, p \in Link!Outcome :
            Link!Told(u, c, p)' => Link!Told(u, c, p) \/ (u = t /\ c \in cs /\ p = o)
  BY <1>1, <1>3, <1>4, EmitTells
<1>6. entry' = [entry EXCEPT ![t] = [c \in Cmd |-> IF c \in cs THEN o ELSE entry[t][c]]]
  BY DEF Link!Finish, Link!TypeOK
<1>7. entry \in [Run -> [Cmd -> {"none", "queued", "active"} \cup Link!Outcome]]
  BY DEF Link!TypeOK
<1> QED BY <1>5, <1>6, <1>7 DEF Sends

\* The link, a task's position and the journal's states change.
LEMMA RowTypes ==
    ASSUME Link!TypeOK, UNCHANGED <<carried, seen, Link!childVars, Link!waVars, rowRoute, rowClaim, relay>>,
           linked' \in Link!LinkState, {desired', purge', leased'} \subseteq BOOLEAN,
           {gen', epoch'} \subseteq Nat, holder' \in Run \cup {NoToken}, auth' \subseteq Nat,
           parent' \in [Run -> Link!ParentState], row' \in [Cmd -> Link!RowState]
    PROVE  Link!TypeOK'
BY DEF Link!TypeOK, Link!childVars, Link!waVars

\* The states a revocation gives.
LEMMA RevokeTypes ==
    ASSUME Link!TypeOK, NEW b \in BOOLEAN, Link!Revoke(b)
    PROVE  /\ linked' \in Link!LinkState /\ {desired', purge', leased'} \subseteq BOOLEAN
           /\ {gen', epoch'} \subseteq Nat /\ holder' \in Run \cup {NoToken} /\ auth' \subseteq Nat
           /\ row' \in [Cmd -> Link!RowState] /\ UNCHANGED <<rowRoute, rowClaim>>
<1>1. linked' \in Link!LinkState
  BY DEF Link!Revoke, Link!LinkState
<1>2. row' \in [Cmd -> Link!RowState]
  BY DEF Link!Revoke, Link!TypeOK, Link!RowState
<1>3. gen' \in Nat /\ desired' = FALSE /\ auth' \subseteq Nat
  <2>1. gen' = gen + 1 /\ desired' = FALSE /\ auth' \in {auth, {}}
    BY DEF Link!Revoke
  <2> QED BY <2>1 DEF Link!TypeOK
<1>4. purge' \in BOOLEAN
  BY Zenon DEF Link!Revoke
<1> QED BY <1>1, <1>2, <1>3, <1>4 DEF Link!Revoke, Link!TypeOK

LEMMA LinkTypes == ASSUME Link!TypeOK, Link!LinkNext PROVE Link!TypeOK'
<1> USE DEF Link!parentVars, Link!sendVars
<1>0. parent \in [Run -> Link!ParentState] /\ row \in [Cmd -> Link!RowState]
  BY DEF Link!TypeOK
<1>1. ASSUME NEW b \in BOOLEAN, Link!Start(b) PROVE Link!TypeOK'
  <2>0. gen' = gen + 1 /\ (epoch' = epoch \/ epoch' = epoch + 1) /\ auth' \in {auth, {}}
    BY <1>1 DEF Link!Start
  <2>1. gen' \in Nat /\ epoch' \in Nat /\ auth' \subseteq Nat
    BY <2>0 DEF Link!TypeOK
  <2>2. linked' \in Link!LinkState /\ desired' = TRUE /\ purge' = FALSE
    BY <1>1 DEF Link!Start, Link!LinkState
  <2> QED BY <1>1, <1>0, <2>1, <2>2, RowTypes DEF Link!Start, Link!TypeOK
<1>2. ASSUME NEW b \in BOOLEAN, Link!UserRevoke(b) PROVE Link!TypeOK'
  BY <1>0, <1>2, RevokeTypes, RowTypes DEF Link!UserRevoke
<1>3. CASE Link!Relink
  BY <1>3 DEF Link!Relink, Link!TypeOK, Link!RowState, Link!LinkState, Link!childVars, Link!waVars
<1>4. CASE Link!ExpirePairing
  <2>1. row' \in [Cmd -> Link!RowState]
    BY <1>4, <1>0 DEF Link!ExpirePairing, Link!RowState
  <2>2. linked' \in Link!LinkState
    BY <1>4 DEF Link!ExpirePairing, Link!LinkState
  <2>3. gen' \in Nat /\ purge' = TRUE /\ desired' = FALSE /\ auth' = {}
    BY <1>4 DEF Link!ExpirePairing, Link!TypeOK
  <2> QED BY <1>4, <1>0, <2>1, <2>2, <2>3, RowTypes DEF Link!ExpirePairing, Link!TypeOK
<1>5. CASE Link!LeaseExpires
  BY <1>5 DEF Link!LeaseExpires, Link!TypeOK, Link!childVars, Link!waVars
<1> QED BY <1>1, <1>2, <1>3, <1>4, <1>5 DEF Link!LinkNext

LEMMA ReadTypes == ASSUME Link!TypeOK, NEW t \in Run, NEW f, Link!ReadFrame(t, f) PROVE Link!TypeOK'
<1>0. /\ f \in Link!Frame /\ outbox' \in [Run -> SUBSET Link!Frame]
      /\ UNCHANGED <<carried, seen, child, pipe, entry, wire, acks, displayed, relay>>
  BY DEF Link!ReadFrame, Link!TypeOK, Link!waVars
<1>1. CASE Link!RecordResult(t, f)
  <2>1. f.type = "result" => f.cmd \in Cmd /\ f.outcome \in Link!Outcome
    BY <1>0 DEF Link!Frame
  <2> QED BY <1>0, <1>1, <2>1 DEF Link!RecordResult, Link!linkVars, Link!TypeOK, Link!RowState,
                                  Link!Outcome
<1>2. CASE Link!StoreAuth(t, f)
  <2>1. seen[t][2] \in Nat
    BY DEF Link!TypeOK, Link!Route
  <2> QED BY <1>0, <1>2, <2>1 DEF Link!StoreAuth, Link!To, Link!TypeOK, Link!ParentState,
                                  Link!sendVars
<1>3. CASE Link!BindIdentity(t, f)
  BY <1>0, <1>3 DEF Link!BindIdentity, Link!TypeOK, Link!LinkState, Link!sendVars
<1>4. CASE Link!HandleClosed(t, f)
  <2>1. parent' \in [Run -> Link!ParentState]
    BY <1>4 DEF Link!HandleClosed, Link!To, Link!TypeOK, Link!ParentState
  <2>2. CASE UNCHANGED <<Link!linkVars, Link!sendVars>>
    BY <1>0, <2>1, <2>2 DEF Link!linkVars, Link!sendVars, Link!TypeOK
  <2>3. CASE Link!Revoke(f.reason = "logged_out")
    <3>1. PICK b \in BOOLEAN : Link!Revoke(b)
      BY <2>3
    <3> QED BY <1>0, <2>1, <3>1, RevokeTypes DEF Link!TypeOK
  <2> QED BY <1>4, <2>2, <2>3 DEF Link!HandleClosed
<1> QED BY <1>1, <1>2, <1>3, <1>4 DEF Link!ReadFrame

LEMMA ParentTypes == ASSUME Link!TypeOK, NEW t \in Run, Link!ParentNext(t) PROVE Link!TypeOK'
<1> USE DEF Link!linkVars, Link!childVars, Link!waVars, Link!sendVars, Link!ParentState, Link!To
<1>0. parent \in [Run -> Link!ParentState] /\ row \in [Cmd -> Link!RowState]
  BY DEF Link!TypeOK
<1>1. CASE Link!Claim(t)
  BY <1>1 DEF Link!Claim, Link!TypeOK, Link!Route
<1>2. CASE Link!Spawn(t)
  BY <1>2 DEF Link!Spawn, Link!TypeOK, Link!ChildState
<1>3. CASE Link!Renew(t)
  BY <1>3 DEF Link!Renew, Link!TypeOK, Link!RowState
<1>4. CASE Link!RenewFails(t) \/ Link!NothingToDispatch(t) \/ Link!EndTask(t) \/ Link!EndRun(t)
  BY <1>4 DEF Link!RenewFails, Link!NothingToDispatch, Link!EndTask, Link!EndRun, Link!TypeOK
<1>5. CASE Link!TickRevokes(t)
  <2>1. PICK b \in BOOLEAN : Link!Revoke(b)
    BY <1>5 DEF Link!TickRevokes
  <2>2. parent' \in [Run -> Link!ParentState]
    BY <1>0, <1>5 DEF Link!TickRevokes
  <2> QED BY <1>5, <2>1, <2>2, RevokeTypes, RowTypes DEF Link!TickRevokes
<1>6. CASE Link!Authorize(t)
  BY <1>6 DEF Link!Authorize, Link!TypeOK, Link!RowState
<1>7. CASE Link!WriteSend(t)
  <2>0. /\ pipe' = pipe \/ pipe' = [pipe EXCEPT ![t] = @ \cup carried[t]]
        /\ \E p \in {"stop", "tick"} : parent' = [parent EXCEPT ![t] = p]
    BY <1>7 DEF Link!WriteSend
  <2>1. pipe' \in [Run -> SUBSET Cmd] /\ parent' \in [Run -> Link!ParentState]
    BY <1>0, <2>0 DEF Link!TypeOK
  <2> QED BY <1>7, <2>1 DEF Link!WriteSend, Link!TypeOK
<1>8. CASE Link!KillChild(t)
  BY <1>8 DEF Link!KillChild, Link!Forget, Link!TypeOK, Link!ChildState
<1>9. CASE Link!Reaped(t)
  <2>1. parent' \in [Run -> Link!ParentState]
    BY <1>0, <1>9 DEF Link!Reaped
  <2>2. CASE holder = t
    <3>1. row' \in [Cmd -> Link!RowState]
      BY <1>0, <1>9, <2>2 DEF Link!Reaped, Link!RowState
    <3>2. linked' \in Link!LinkState
      BY <1>9, <2>2 DEF Link!Reaped, Link!LinkState
    <3>3. epoch' \in Nat /\ purge' = FALSE /\ leased' = FALSE /\ holder' = NoToken
      BY <1>9, <2>2 DEF Link!Reaped, Link!TypeOK
    <3> QED BY <1>9, <2>1, <3>1, <3>2, <3>3, RowTypes DEF Link!Reaped, Link!TypeOK
  <2>3. CASE holder # t
    BY <1>9, <2>1, <2>3, RowTypes DEF Link!Reaped, Link!TypeOK
  <2> QED BY <2>2, <2>3
<1>10. CASE Link!FailConnection(t)
  <2>1. parent' \in [Run -> Link!ParentState]
    BY <1>0, <1>10 DEF Link!FailConnection
  <2>2. CASE holder = NoToken /\ seen[t] = <<gen, epoch>>
    <3>1. row' \in [Cmd -> Link!RowState]
      BY <1>0, <1>10, <2>2 DEF Link!FailConnection, Link!RowState
    <3>2. /\ linked' \in Link!LinkState /\ desired' = FALSE /\ purge' = TRUE /\ auth' = {}
          /\ gen' \in Nat
      BY <1>10, <2>2 DEF Link!FailConnection, Link!LinkState, Link!TypeOK
    <3> QED BY <1>10, <2>1, <3>1, <3>2, RowTypes DEF Link!FailConnection, Link!TypeOK
  <2>3. CASE ~(holder = NoToken /\ seen[t] = <<gen, epoch>>)
    BY <1>10, <2>1, <2>3, RowTypes DEF Link!FailConnection, Link!TypeOK
  <2> QED BY <2>2, <2>3
<1>11. CASE Link!Crash(t)
  BY <1>11 DEF Link!Crash, Link!TypeOK
<1>12. ASSUME NEW f \in outbox[t], Link!ReadFrame(t, f) PROVE Link!TypeOK'
  BY <1>12, ReadTypes
<1> QED
  BY <1>1, <1>2, <1>3, <1>4, <1>5, <1>6, <1>7, <1>8, <1>9, <1>10, <1>11, <1>12
     DEF Link!ParentNext, Link!TaskStep

\* A process changes itself, its entries and what it emits.
LEMMA ChildTypes ==
    ASSUME Link!TypeOK, UNCHANGED <<Link!linkVars, Link!parentVars, Link!sendVars, relay, displayed>>,
           child' \in [Run -> Link!ChildState], pipe' \in [Run -> SUBSET Cmd],
           entry' \in [Run -> [Cmd -> {"none", "queued", "active"} \cup Link!Outcome]],
           outbox' \in [Run -> SUBSET Link!Frame], wire' \subseteq Run \X Cmd,
           acks' \subseteq [token : Run, cmd : Cmd, accepted : BOOLEAN]
    PROVE  Link!TypeOK'
BY DEF Link!TypeOK, Link!linkVars, Link!parentVars, Link!sendVars

-----------------------------------------------------------------------------
(* The link: what is sent and what is said about it.                          *)

\* Where a chunk has got to, in whole or not at all.
Keeps(t, c) ==
    /\ c \in carried'[t] => c \in carried[t]
    /\ c \in pipe'[t] => c \in pipe[t] \/ (c \in carried[t] /\ c \notin carried'[t])
    /\ entry'[t][c] = "queued" => entry[t][c] = "queued" \/ (c \in pipe[t] /\ <<t, c>> \notin wire')
    /\ entry'[t][c] = "active" => entry[t][c] \in {"queued", "active"}
    /\ entry'[t][c] # "none" =>
          entry[t][c] # "none" \/ (c \in pipe[t] /\ c \notin carried'[t] \cup pipe'[t])
    /\ <<t, c>> \in wire' => <<t, c>> \in wire \/ (entry[t][c] = "queued" /\ entry'[t][c] # "queued")

\* A step that only moves chunks along their way, or off it, keeps the
\* promises, when what it tells is true and the journal believes only what it
\* was told.
LEMMA Travels ==
    ASSUME Link!TypeOK, Link!TypeOK', Sends, UNCHANGED <<displayed, rowClaim>>,
           \A t \in Run, c \in Cmd :
               /\ Keeps(t, c)
               /\ \A b \in BOOLEAN : Link!Answered(t, c, b)' => Link!Answered(t, c, b)
               /\ \A o \in Link!Outcome : Link!Told(t, c, o)' =>
                     \/ Link!Told(t, c, o)
                     \/ /\ c \in pipe[t] \/ entry[t][c] # "none"
                        /\ o = "accepted" => displayed[c] = 1
                        /\ o = "rejected" => displayed[c] = 0 /\ ~Link!Underway(c)',
           \A c \in Cmd :
               \/ row'[c] = row[c]
               \/ row[c] \in {"none", "pending"} /\ row'[c] \in {"pending", "cancelled"}
               \/ row[c] = "dispatch_started" /\ row'[c] = "uncertain"
               \/ row'[c] \in Link!Outcome /\ row[c] = "dispatch_started"
                  /\ \E t \in Run : Link!Told(t, c, row'[c]),
           \A c \in Cmd : relay'[c] = "delivered" => relay[c] = "delivered" \/ row[c] = "accepted"
    PROVE  Sends'
<1>1. \A c \in Cmd : Link!Underway(c)' => Link!Underway(c)
  <2> SUFFICES ASSUME NEW c \in Cmd, NEW t \in Run,
                      \/ c \in carried'[t] \cup pipe'[t] \/ <<t, c>> \in wire'
                      \/ entry'[t][c] \in {"queued", "active"}
               PROVE  \/ c \in carried[t] \cup pipe[t] \/ <<t, c>> \in wire
                      \/ entry[t][c] \in {"queued", "active"}
    BY DEF Link!Underway, Link!Open
  <2> QED BY DEF Keeps
<1>2. \A t \in Run, c \in Cmd : Link!Ahead(t, c)' => Link!Ahead(t, c)
  BY DEF Link!Ahead, Keeps
<1>3. \A c \in Cmd : row[c] \notin {"none", "pending", "cancelled"} =>
                     row'[c] \notin {"none", "pending", "cancelled"}
  BY DEF Link!Outcome
<1>4. ASSUME NEW t \in Run, NEW c \in Cmd,
             \/ Link!Ahead(t, c)' \/ entry'[t][c] # "none"
             \/ \E b \in BOOLEAN : Link!Answered(t, c, b)'
             \/ \E o \in Link!Outcome : Link!Told(t, c, o)'
      PROVE  rowClaim'[c] = t /\ row'[c] \notin {"none", "pending", "cancelled"}
  <2>1. \/ Link!Ahead(t, c) \/ entry[t][c] # "none"
        \/ \E b \in BOOLEAN : Link!Answered(t, c, b)
        \/ \E o \in Link!Outcome : Link!Told(t, c, o)
    BY <1>2, <1>4 DEF Link!Ahead, Keeps
  <2>2. rowClaim[c] = t /\ row[c] \notin {"none", "pending", "cancelled"}
    BY <2>1 DEF Sends, Link!OneWay, Link!Way
  <2> QED BY <1>3, <2>2
<1>5. Link!OneWay'
  <2> SUFFICES ASSUME NEW t \in Run, NEW c \in Cmd PROVE Link!Way(t, c)'
    BY DEF Sends, Link!OneWay
  <2>0. Link!Way(t, c) /\ Keeps(t, c)
    BY DEF Sends, Link!OneWay
  <2>1. /\ c \in carried'[t] => c \notin pipe'[t]
        /\ c \in carried'[t] \cup pipe'[t] => entry'[t][c] = "none"
        /\ <<t, c>> \in wire' => c \notin carried'[t] \cup pipe'[t] /\ entry'[t][c] # "queued"
    <3>1. /\ c \in carried[t] => c \notin pipe[t]
          /\ c \in carried[t] \cup pipe[t] => entry[t][c] = "none"
          /\ <<t, c>> \in wire => c \notin carried[t] \cup pipe[t] /\ entry[t][c] # "queued"
      BY <2>0 DEF Link!Way
    <3> QED BY <2>0, <3>1 DEF Keeps
  <2>2. Link!Ahead(t, c)' => displayed'[c] = 0
    BY <1>2, <2>0 DEF Link!Way
  <2>3. Link!Answered(t, c, TRUE)' \/ Link!Told(t, c, "accepted")' => displayed'[c] = 1
    BY <2>0 DEF Link!Way, Link!Outcome
  <2>4. Link!Answered(t, c, FALSE)' => displayed'[c] = 0 /\ ~Link!Ahead(t, c)'
    BY <1>2, <2>0 DEF Link!Way
  <2>5. Link!Told(t, c, "rejected")' => displayed'[c] = 0 /\ ~Link!Underway(c)'
    BY <1>1, <2>0 DEF Link!Way, Link!Outcome
  <2> QED BY <1>4, <2>1, <2>2, <2>3, <2>4, <2>5 DEF Link!Way
<1>6. Link!OutcomeIsTrue'
  <2> SUFFICES ASSUME NEW c \in Cmd
               PROVE  /\ row'[c] = "accepted" => displayed'[c] = 1
                      /\ row'[c] \in {"rejected", "cancelled", "pending", "none"} =>
                            displayed'[c] = 0 /\ ~Link!Underway(c)'
                      /\ relay'[c] = "delivered" => displayed'[c] = 1
    BY DEF Sends, Link!OutcomeIsTrue
  <2>0. ASSUME row'[c] \in Link!Outcome, row[c] = "dispatch_started", \E t \in Run : Link!Told(t, c, row'[c])
        PROVE  /\ row'[c] = "accepted" => displayed[c] = 1
               /\ row'[c] = "rejected" => displayed[c] = 0 /\ ~Link!Underway(c)
    <3>1. PICK t \in Run : Link!Told(t, c, row'[c])
      BY <2>0
    <3>2. /\ Link!Told(t, c, "accepted") => displayed[c] = 1
          /\ Link!Told(t, c, "rejected") => displayed[c] = 0 /\ ~Link!Underway(c)
      BY DEF Sends, Link!OneWay, Link!Way
    <3>3. CASE row'[c] = "accepted"
      <4>1. Link!Told(t, c, "accepted")
        BY <3>1, <3>3
      <4> QED BY <3>2, <3>3, <4>1
    <3>4. CASE row'[c] = "rejected"
      <4>1. Link!Told(t, c, "rejected")
        BY <3>1, <3>4
      <4> QED BY <3>2, <3>4, <4>1
    <3> QED BY <3>3, <3>4
  <2>1. row'[c] = "accepted" => displayed'[c] = 1
    BY <2>0 DEF Sends, Link!OutcomeIsTrue, Link!Outcome
  <2>2. row'[c] \in {"rejected", "cancelled", "pending", "none"} => displayed'[c] = 0 /\ ~Link!Underway(c)'
    <3>1. CASE row'[c] = row[c] \/ row[c] \in {"none", "pending"}
      BY <1>1, <3>1 DEF Sends, Link!OutcomeIsTrue
    <3>2. CASE row'[c] = "uncertain"
      BY <3>2
    <3>3. CASE row'[c] \in Link!Outcome /\ row[c] = "dispatch_started" /\ \E t \in Run : Link!Told(t, c, row'[c])
      BY <1>1, <2>0, <3>3 DEF Link!Outcome
    <3> QED BY <3>1, <3>2, <3>3
  <2>3. relay'[c] = "delivered" => displayed'[c] = 1
    BY DEF Sends, Link!OutcomeIsTrue
  <2> QED BY <2>1, <2>2, <2>3
<1> QED BY <1>5, <1>6 DEF Sends, Link!ShownAtMostOnce

\* The journal alone changes: pending rows are cancelled or started ones given
\* up, and the relay learns what became of a row.
LEMMA JournalOnly ==
    ASSUME Link!TypeOK, Link!TypeOK', Sends,
           UNCHANGED <<carried, pipe, entry, outbox, wire, acks, displayed, rowClaim>>,
           \A c \in Cmd :
               \/ row'[c] = row[c]
               \/ row[c] \in {"none", "pending"} /\ row'[c] \in {"pending", "cancelled"}
               \/ row[c] = "dispatch_started" /\ row'[c] = "uncertain",
           \A c \in Cmd : relay'[c] = "delivered" => relay[c] = "delivered" \/ row[c] = "accepted"
    PROVE  Sends'
<1>1. \A t \in Run, c \in Cmd : /\ \A b \in BOOLEAN : Link!Answered(t, c, b)' => Link!Answered(t, c, b)
                                /\ \A o \in Link!Outcome : Link!Told(t, c, o)' => Link!Told(t, c, o)
  BY DEF Link!Answered, Link!Told
<1> QED BY <1>1, Travels DEF Keeps

LEMMA LinkSends ==
    ASSUME Link!TypeOK, Link!TypeOK', Sends,
           Link!LinkNext \/ \E c \in Cmd : Link!PlanSend(c) \/ Link!RelayStep(c)
    PROVE  Sends'
<1> USE DEF Link!parentVars, Link!childVars, Link!waVars, Link!sendVars
<1>0. /\ row \in [Cmd -> Link!RowState]
      /\ relay \in [Cmd -> {"none", "checked", "retry", "delivered", "failed"}]
  BY DEF Link!TypeOK
<1>1. CASE Link!LinkNext
  <2>1. /\ UNCHANGED <<carried, pipe, entry, outbox, wire, acks, displayed, rowClaim, relay>>
        /\ \A c \in Cmd : row'[c] = row[c] \/ (row[c] = "pending" /\ row'[c] = "cancelled")
    BY <1>1 DEF Link!LinkNext, Link!Start, Link!UserRevoke, Link!Revoke, Link!Relink,
                Link!ExpirePairing, Link!LeaseExpires
  <2> QED BY <2>1, JournalOnly
<1>2. ASSUME NEW c \in Cmd, Link!PlanSend(c) PROVE Sends'
  <2>1. \A d \in Cmd : relay'[d] = "delivered" => relay[d] = "delivered"
    BY <1>0, <1>2 DEF Link!PlanSend
  <2> QED BY <1>2, <2>1, JournalOnly DEF Link!PlanSend
<1>3. ASSUME NEW c \in Cmd, Link!Recheck(c) PROVE Sends'
  <2>1. \A d \in Cmd : relay'[d] = "delivered" => relay[d] = "delivered"
    BY <1>0, <1>3 DEF Link!Recheck
  <2> QED BY <1>3, <2>1, JournalOnly DEF Link!Recheck
<1>4. ASSUME NEW c \in Cmd, Link!Enqueue(c) PROVE Sends'
  <2>1. \A d \in Cmd : relay'[d] = "delivered" => relay[d] = "delivered" \/ row[d] = "accepted"
    BY <1>0, <1>4 DEF Link!Enqueue
  <2>2. \A d \in Cmd : row'[d] = row[d] \/ (row[d] = "none" /\ row'[d] = "pending")
    BY <1>0, <1>4 DEF Link!Enqueue
  <2> QED BY <1>4, <2>1, <2>2, JournalOnly DEF Link!Enqueue
<1> QED BY <1>1, <1>2, <1>3, <1>4 DEF Link!RelayStep

\* A result is believed for the row its claim started, and for that only.
LEMMA ReadSends ==
    ASSUME Link!TypeOK, Link!TypeOK', Sends,
           NEW t \in Run, NEW f, Link!ReadFrame(t, f)
    PROVE  Sends'
<1>1. /\ f \in outbox[t] /\ outbox' = [outbox EXCEPT ![t] = @ \ {f}] /\ f \in Link!Frame
      /\ UNCHANGED <<carried, pipe, entry, wire, acks, displayed, relay>>
  BY DEF Link!ReadFrame, Link!waVars, Link!TypeOK
<1>2. \A u \in Run, c \in Cmd : /\ \A b \in BOOLEAN : Link!Answered(u, c, b)' => Link!Answered(u, c, b)
                                /\ \A o \in Link!Outcome : Link!Told(u, c, o)' => Link!Told(u, c, o)
  <2>1. \A u \in Run : outbox'[u] \subseteq outbox[u]
    BY <1>1 DEF Link!TypeOK
  <2> QED BY <1>1, <2>1 DEF Link!Answered, Link!Told
<1>3. /\ rowClaim' = rowClaim
      /\ \A c \in Cmd :
            \/ row'[c] = row[c]
            \/ row[c] = "pending" /\ row'[c] = "cancelled"
            \/ row'[c] \in Link!Outcome /\ row[c] = "dispatch_started"
               /\ \E u \in Run : Link!Told(u, c, row'[c])
  <2>0. row \in [Cmd -> Link!RowState]
    BY DEF Link!TypeOK
  <2>1. CASE Link!RecordResult(t, f)
    <3>1. f.cmd \in Cmd /\ f.outcome \in Link!Outcome
      BY <1>1, <2>1 DEF Link!RecordResult, Link!Frame
    <3>2. Link!Told(t, f.cmd, f.outcome)
      BY <1>1, <2>1 DEF Link!RecordResult, Link!Told
    <3> QED BY <2>0, <2>1, <3>1, <3>2 DEF Link!RecordResult
  <2>2. CASE Link!StoreAuth(t, f) \/ Link!BindIdentity(t, f)
    BY <2>2 DEF Link!StoreAuth, Link!BindIdentity, Link!sendVars
  <2>3. CASE Link!HandleClosed(t, f)
    BY <2>3 DEF Link!HandleClosed, Link!Revoke, Link!sendVars
  <2> QED BY <2>1, <2>2, <2>3 DEF Link!ReadFrame
<1> QED BY <1>1, <1>2, <1>3, Travels DEF Keeps

\* One chunk of one claim gets no further.
Stays(t, c) ==
    /\ c \in carried'[t] => c \in carried[t]
    /\ c \in pipe'[t] => c \in pipe[t]
    /\ <<t, c>> \in wire' => <<t, c>> \in wire
    /\ entry'[t][c] = entry[t][c]
    /\ \A b \in BOOLEAN : Link!Answered(t, c, b)' => Link!Answered(t, c, b)
    /\ \A o \in Link!Outcome : Link!Told(t, c, o)' => Link!Told(t, c, o)

\* A claim that has nothing to do with a chunk.
Silent(t, c) ==
    /\ ~Link!Ahead(t, c) /\ entry[t][c] = "none"
    /\ \A b \in BOOLEAN : ~Link!Answered(t, c, b)
    /\ \A o \in Link!Outcome : ~Link!Told(t, c, o)

\* Only the claim the row names has to do with a started row.
LEMMA Stranger ==
    ASSUME NEW t \in Run, NEW c \in Cmd, Link!Way(t, c),
           rowClaim[c] # t \/ row[c] \in {"none", "pending", "cancelled"}
    PROVE  Silent(t, c)
<1>1. ~(\/ Link!Ahead(t, c) \/ entry[t][c] # "none"
        \/ \E b \in BOOLEAN : Link!Answered(t, c, b)
        \/ \E o \in Link!Outcome : Link!Told(t, c, o))
  BY DEF Link!Way
<1> QED BY <1>1 DEF Silent

\* A chunk on its way was not shown, its row is its claim's and says so, and
\* nobody else has heard of it.
LEMMA Going ==
    ASSUME Sends, NEW t \in Run, NEW c \in Cmd, Link!Ahead(t, c)
    PROVE  /\ displayed[c] = 0 /\ rowClaim[c] = t /\ relay[c] # "delivered"
           /\ row[c] \notin {"none", "pending", "cancelled", "rejected", "accepted"}
           /\ \A b \in BOOLEAN : ~Link!Answered(t, c, b)
           /\ ~Link!Told(t, c, "accepted") /\ ~Link!Told(t, c, "rejected")
           /\ \A u \in Run \ {t} : Silent(u, c)
<1>1. Link!Way(t, c)
  BY DEF Sends, Link!OneWay
<1>2. Link!Underway(c)
  BY DEF Link!Ahead, Link!Underway, Link!Open
<1>3. displayed[c] = 0 /\ rowClaim[c] = t /\ row[c] \notin {"none", "pending", "cancelled"}
  BY <1>1 DEF Link!Way
<1>9. displayed[c] # 1
  BY <1>3
<1>4. \A b \in BOOLEAN : ~Link!Answered(t, c, b)
  <2>1. ~Link!Answered(t, c, TRUE)
    BY <1>1, <1>9 DEF Link!Way
  <2>2. ~Link!Answered(t, c, FALSE)
    BY <1>1 DEF Link!Way
  <2> QED BY <2>1, <2>2
<1>7. ~Link!Told(t, c, "accepted")
  BY <1>1, <1>9 DEF Link!Way
<1>8. ~Link!Told(t, c, "rejected")
  BY <1>1, <1>2 DEF Link!Way
<1>5. row[c] # "rejected" /\ row[c] # "accepted" /\ relay[c] # "delivered"
  BY <1>2, <1>3 DEF Sends, Link!OutcomeIsTrue
<1>6. \A u \in Run \ {t} : Silent(u, c)
  BY <1>3, Stranger DEF Sends, Link!OneWay
<1> QED BY <1>3, <1>4, <1>5, <1>6, <1>7, <1>8

\* One chunk of one claim moves, of which nobody else has heard.
LEMMA OneMoves ==
    ASSUME Link!TypeOK, Sends, NEW t \in Run, NEW c \in Cmd,
           \A u \in Run, d \in Cmd : u # t \/ d # c => Stays(u, d),
           \A d \in Cmd \ {c} :
              displayed'[d] = displayed[d] /\ row'[d] = row[d] /\ rowClaim'[d] = rowClaim[d],
           relay' = relay,
           \A u \in Run \ {t} : Silent(u, c),
           Link!Way(t, c)', relay[c] # "delivered", displayed'[c] <= 1,
           row'[c] \notin {"none", "pending", "cancelled", "rejected", "accepted"}
    PROVE  Sends'
<1>1. \A d \in Cmd \ {c} : Link!Underway(d)' => Link!Underway(d)
  BY DEF Link!Underway, Link!Open, Stays
<1>2. \A u \in Run, d \in Cmd : u # t \/ d # c => (Link!Ahead(u, d)' => Link!Ahead(u, d))
  BY DEF Link!Ahead, Stays
<1>3. ASSUME NEW u \in Run, NEW d \in Cmd, d # c PROVE Link!Way(u, d)'
  <2>0. Link!Way(u, d) /\ Stays(u, d)
    BY <1>3 DEF Sends, Link!OneWay
  <2>1. /\ d \in carried'[u] => d \notin pipe'[u]
        /\ d \in carried'[u] \cup pipe'[u] => entry'[u][d] = "none"
        /\ <<u, d>> \in wire' => d \notin carried'[u] \cup pipe'[u] /\ entry'[u][d] # "queued"
    BY <2>0 DEF Link!Way, Stays
  <2>2. Link!Ahead(u, d)' => displayed'[d] = 0
    BY <1>2, <1>3, <2>0 DEF Link!Way
  <2>3. Link!Answered(u, d, TRUE)' \/ Link!Told(u, d, "accepted")' => displayed'[d] = 1
    BY <1>3, <2>0 DEF Link!Way, Stays, Link!Outcome
  <2>4. Link!Answered(u, d, FALSE)' => displayed'[d] = 0 /\ ~Link!Ahead(u, d)'
    BY <1>2, <1>3, <2>0 DEF Link!Way, Stays
  <2>5. Link!Told(u, d, "rejected")' => displayed'[d] = 0 /\ ~Link!Underway(d)'
    BY <1>1, <1>3, <2>0 DEF Link!Way, Stays, Link!Outcome
  <2>6. ASSUME \/ Link!Ahead(u, d)' \/ entry'[u][d] # "none"
               \/ \E b \in BOOLEAN : Link!Answered(u, d, b)'
               \/ \E o \in Link!Outcome : Link!Told(u, d, o)'
        PROVE  rowClaim'[d] = u /\ row'[d] \notin {"none", "pending", "cancelled"}
    <3>1. \/ Link!Ahead(u, d) \/ entry[u][d] # "none"
          \/ \E b \in BOOLEAN : Link!Answered(u, d, b)
          \/ \E o \in Link!Outcome : Link!Told(u, d, o)
      BY <1>2, <1>3, <2>0, <2>6 DEF Stays
    <3> QED BY <1>3, <2>0, <3>1 DEF Link!Way
  <2> QED BY <2>1, <2>2, <2>3, <2>4, <2>5, <2>6 DEF Link!Way
<1>4. ASSUME NEW u \in Run, u # t PROVE Link!Way(u, c)'
  <2>1. Silent(u, c) /\ Stays(u, c)
    BY <1>4
  <2>2. /\ ~Link!Ahead(u, c)' /\ entry'[u][c] = "none"
        /\ \A b \in BOOLEAN : ~Link!Answered(u, c, b)'
        /\ \A o \in Link!Outcome : ~Link!Told(u, c, o)'
    BY <1>2, <1>4, <2>1 DEF Silent, Stays
  <2>3. c \notin carried'[u] \cup pipe'[u] /\ <<u, c>> \notin wire'
    BY <2>2 DEF Link!Ahead
  <2> QED BY <2>2, <2>3 DEF Link!Way, Link!Outcome
<1>5. Link!OneWay'
  BY <1>3, <1>4 DEF Sends, Link!OneWay
<1>6. Link!OutcomeIsTrue'
  BY <1>1 DEF Sends, Link!OutcomeIsTrue
<1>7. Link!ShownAtMostOnce'
  BY DEF Sends, Link!ShownAtMostOnce
<1> QED BY <1>5, <1>6, <1>7 DEF Sends

\* The first thing that happens to a chunk: its row is started, and its task
\* carries it.
LEMMA AuthorizeSends ==
    ASSUME Link!TypeOK, Sends, NEW t \in Run, Link!Authorize(t)
    PROVE  Sends'
<1> USE DEF Link!childVars, Link!waVars
<1>1. PICK c \in Cmd : /\ row[c] = "pending" /\ row' = [row EXCEPT ![c] = "dispatch_started"]
                       /\ rowClaim' = [rowClaim EXCEPT ![c] = t]
                       /\ carried' = [carried EXCEPT ![t] = {c}]
                       /\ UNCHANGED <<pipe, entry, outbox, wire, acks, displayed, relay>>
  BY DEF Link!Authorize, Link!Dispatchable
<1>2. /\ row'[c] = "dispatch_started" /\ rowClaim'[c] = t /\ carried'[t] = {c}
      /\ \A d \in Cmd \ {c} : row'[d] = row[d] /\ rowClaim'[d] = rowClaim[d]
      /\ \A u \in Run \ {t} : carried'[u] = carried[u]
  BY <1>1 DEF Link!TypeOK
<1>3. \A u \in Run : Silent(u, c)
  BY <1>1, Stranger DEF Sends, Link!OneWay
<1>4. displayed[c] = 0 /\ relay[c] # "delivered"
  BY <1>1 DEF Sends, Link!OutcomeIsTrue
<1>5. \A u \in Run, d \in Cmd : /\ \A b \in BOOLEAN : Link!Answered(u, d, b)' <=> Link!Answered(u, d, b)
                                /\ \A o \in Link!Outcome : Link!Told(u, d, o)' <=> Link!Told(u, d, o)
  BY <1>1 DEF Link!Answered, Link!Told
<1>6. c \notin pipe'[t] /\ <<t, c>> \notin wire' /\ entry'[t][c] = "none"
  BY <1>1, <1>3 DEF Silent, Link!Ahead
<1>7. Link!Way(t, c)'
  <2>1. /\ ~Link!Answered(t, c, TRUE)' /\ ~Link!Answered(t, c, FALSE)'
        /\ ~Link!Told(t, c, "accepted")' /\ ~Link!Told(t, c, "rejected")'
    BY <1>3, <1>5 DEF Silent, Link!Outcome
  <2>2. rowClaim'[c] = t /\ row'[c] \notin {"none", "pending", "cancelled"} /\ displayed'[c] = 0
    BY <1>1, <1>2, <1>4
  <2> QED BY <1>6, <2>1, <2>2 DEF Link!Way
<1>8. \A u \in Run, d \in Cmd : u # t \/ d # c => Stays(u, d)
  <2>1. \A u \in Run, d \in Cmd : u # t \/ d # c => (d \in carried'[u] => d \in carried[u])
    BY <1>2
  <2> QED BY <1>1, <1>5, <2>1 DEF Stays
<1> QED BY <1>1, <1>2, <1>3, <1>4, <1>7, <1>8, OneMoves

\* What was handed over is shown or not, and the answer says which.
LEMMA WhatsAppSends ==
    ASSUME Link!TypeOK, Sends, NEW t \in Run, NEW c \in Cmd,
           Link!WhatsAppDecides(t, c)
    PROVE  Link!TypeOK' /\ Sends'
<1> USE DEF Link!childVars, Link!parentVars, Link!sendVars
<1>0. PICK s \in {0, 1} : \E A \in SUBSET [token : {t}, cmd : {c}, accepted : {s = 1}] :
         displayed' = [displayed EXCEPT ![c] = @ + s] /\ acks' = acks \cup A
  <2>1. PICK showing \in BOOLEAN, answering \in BOOLEAN :
          /\ displayed' = [displayed EXCEPT ![c] = IF showing THEN @ + 1 ELSE @]
          /\ acks' = IF answering /\ entry[t][c] = "active"
                     THEN acks \cup {[token |-> t, cmd |-> c, accepted |-> showing]} ELSE acks
    BY DEF Link!WhatsAppDecides
  <2> DEFINE s == IF showing THEN 1 ELSE 0
             A == IF answering /\ entry[t][c] = "active"
                  THEN {[token |-> t, cmd |-> c, accepted |-> showing]} ELSE {}
  <2>2. displayed' = [displayed EXCEPT ![c] = @ + s]
    <3>1. displayed[c] \in Nat /\ displayed \in [Cmd -> Nat]
      BY DEF Link!TypeOK
    <3>2. (IF showing THEN displayed[c] + 1 ELSE displayed[c]) = displayed[c] + s
      BY <3>1
    <3> QED BY <2>1, <3>2
  <2>3. acks' = acks \cup A
    BY <2>1
  <2>4. s \in {0, 1} /\ A \subseteq [token : {t}, cmd : {c}, accepted : {s = 1}]
    OBVIOUS
  <2> QED BY <2>2, <2>3, <2>4
<1>1. PICK A \in SUBSET [token : {t}, cmd : {c}, accepted : {s = 1}] :
         /\ displayed' = [displayed EXCEPT ![c] = @ + s] /\ acks' = acks \cup A
         /\ wire' = wire \ {<<t, c>>} /\ <<t, c>> \in wire
         /\ UNCHANGED <<Link!linkVars, carried, pipe, entry, outbox, row, rowClaim, relay>>
  BY <1>0 DEF Link!WhatsAppDecides
<1>2. Link!Ahead(t, c)
  BY <1>1 DEF Link!Ahead
<1>3. /\ c \notin carried[t] \cup pipe[t] /\ entry[t][c] # "queued"
  BY <1>1 DEF Sends, Link!OneWay, Link!Way
<1>4. displayed[c] = 0 /\ displayed'[c] = s /\ \A d \in Cmd \ {c} : displayed'[d] = displayed[d]
  BY <1>1, <1>2, Going DEF Link!TypeOK
<1>5. \A u \in Run, d \in Cmd : \A o \in Link!Outcome : Link!Told(u, d, o)' <=> Link!Told(u, d, o)
  BY <1>1 DEF Link!Told
<1>6. \A u \in Run, d \in Cmd :
         u # t \/ d # c => \A b \in BOOLEAN : Link!Answered(u, d, b)' <=> Link!Answered(u, d, b)
  BY <1>1 DEF Link!Answered
<1>7. \A b \in BOOLEAN : Link!Answered(t, c, b)' => b = (s = 1)
  <2>1. \A b \in BOOLEAN : ~Link!Answered(t, c, b)
    BY <1>2, Going
  <2> QED BY <1>1, <2>1 DEF Link!Answered
<1>8. ~Link!Ahead(t, c)'
  BY <1>1, <1>3 DEF Link!Ahead
<1>9. Link!Way(t, c)'
  <2>1. /\ rowClaim'[c] = t /\ row'[c] \notin {"none", "pending", "cancelled"}
        /\ ~Link!Told(t, c, "accepted")' /\ ~Link!Told(t, c, "rejected")'
    BY <1>1, <1>2, <1>5, Going DEF Link!Outcome
  <2>2. /\ Link!Answered(t, c, TRUE)' => displayed'[c] = 1
        /\ Link!Answered(t, c, FALSE)' => displayed'[c] = 0
    BY <1>4, <1>7
  <2>3. c \notin carried'[t] \cup pipe'[t] /\ entry'[t][c] # "queued" /\ <<t, c>> \notin wire'
    BY <1>1, <1>3
  <2> QED BY <1>8, <2>1, <2>2, <2>3 DEF Link!Way
<1>10. Link!TypeOK'
  <2>1. displayed' \in [Cmd -> Nat]
    BY <1>1 DEF Link!TypeOK
  <2>2. acks' \subseteq [token : Run, cmd : Cmd, accepted : BOOLEAN] /\ wire' \subseteq Run \X Cmd
    BY <1>1 DEF Link!TypeOK
  <2> QED BY <2>1, <2>2 DEF Link!WhatsAppDecides, Link!TypeOK, Link!linkVars
<1>11. \A u \in Run, d \in Cmd : u # t \/ d # c => Stays(u, d)
  BY <1>1, <1>5, <1>6 DEF Stays
<1>12. /\ \A u \in Run \ {t} : Silent(u, c)
       /\ relay[c] # "delivered"
       /\ row'[c] \notin {"none", "pending", "cancelled", "rejected", "accepted"}
  BY <1>1, <1>2, Going
<1> QED BY <1>1, <1>4, <1>9, <1>10, <1>11, <1>12, OneMoves

\* A task of the supervisor: it writes what it carries, forgets, or changes the
\* journal.
LEMMA ParentSends ==
    ASSUME Link!TypeOK, Link!TypeOK', Sends, NEW t \in Run, Link!ParentNext(t)
    PROVE  Sends'
<1> USE DEF Link!linkVars, Link!childVars, Link!waVars, Link!sendVars
<1>0. row \in [Cmd -> Link!RowState] /\ outbox \in [Run -> SUBSET Link!Frame]
  BY DEF Link!TypeOK
<1>1. CASE \/ Link!Claim(t) \/ Link!Spawn(t) \/ Link!RenewFails(t) \/ Link!NothingToDispatch(t)
           \/ Link!EndTask(t) \/ Link!EndRun(t)
  BY <1>1, JournalOnly DEF Link!Claim, Link!Spawn, Link!RenewFails, Link!NothingToDispatch,
                           Link!EndTask, Link!EndRun
<1>2. CASE Link!Renew(t)
  <2>1. \A c \in Cmd : row'[c] = row[c] \/ (row[c] = "dispatch_started" /\ row'[c] = "uncertain")
    BY <1>0, <1>2 DEF Link!Renew
  <2> QED BY <1>2, <2>1, JournalOnly DEF Link!Renew
<1>3. CASE Link!TickRevokes(t)
  <2>1. /\ \A c \in Cmd : row'[c] = row[c] \/ (row[c] = "pending" /\ row'[c] = "cancelled")
        /\ rowClaim' = rowClaim
    BY <1>3 DEF Link!TickRevokes, Link!Revoke
  <2> QED BY <1>3, <2>1, JournalOnly DEF Link!TickRevokes
<1>4. CASE Link!Authorize(t)
  BY <1>4, AuthorizeSends
<1>5. CASE Link!WriteSend(t)
  <2>1. \A u \in Run : /\ carried'[u] = IF u = t THEN {} ELSE carried[u]
                       /\ pipe'[u] \subseteq pipe[u] \cup (IF u = t THEN carried[t] ELSE {})
    BY <1>5 DEF Link!WriteSend, Link!TypeOK
  <2>2. UNCHANGED <<entry, outbox, wire, acks, displayed, row, rowClaim, relay>>
    BY <1>5 DEF Link!WriteSend
  <2>3. \A u \in Run, c \in Cmd : Keeps(u, c)
    BY <2>1, <2>2 DEF Keeps
  <2> QED BY <2>2, <2>3, Travels DEF Link!Answered, Link!Told
<1>6. CASE Link!KillChild(t)
  <2>1. \A u \in Run : /\ carried'[u] \subseteq carried[u] /\ pipe'[u] \subseteq pipe[u]
                       /\ outbox'[u] \subseteq outbox[u]
    BY <1>6 DEF Link!KillChild, Link!Forget, Link!TypeOK
  <2>2. \A u \in Run, c \in Cmd : entry'[u][c] = entry[u][c] \/ entry'[u][c] = "none"
    BY <1>6 DEF Link!KillChild, Link!Forget, Link!TypeOK
  <2>3. UNCHANGED <<wire, acks, displayed, row, rowClaim, relay>>
    BY <1>6 DEF Link!KillChild
  <2>4. \A u \in Run, c \in Cmd : Keeps(u, c)
    BY <2>1, <2>2, <2>3 DEF Keeps
  <2>5. \A u \in Run, c \in Cmd : /\ \A b \in BOOLEAN : Link!Answered(u, c, b)' => Link!Answered(u, c, b)
                                  /\ \A o \in Link!Outcome : Link!Told(u, c, o)' => Link!Told(u, c, o)
    BY <2>1, <2>3 DEF Link!Answered, Link!Told
  <2> QED BY <2>3, <2>4, <2>5, Travels
<1>7. CASE Link!Reaped(t)
  <2>1. /\ \A c \in Cmd : row'[c] = row[c] \/ (row[c] = "dispatch_started" /\ row'[c] = "uncertain")
        /\ UNCHANGED <<carried, pipe, entry, outbox, wire, acks, displayed, rowClaim, relay>>
    BY <1>0, <1>7 DEF Link!Reaped
  <2> QED BY <2>1, JournalOnly
<1>8. CASE Link!FailConnection(t)
  <2>1. /\ \A c \in Cmd : row'[c] = row[c] \/ (row[c] = "pending" /\ row'[c] = "cancelled")
        /\ UNCHANGED <<carried, pipe, entry, outbox, wire, acks, displayed, rowClaim, relay>>
    BY <1>0, <1>8 DEF Link!FailConnection
  <2> QED BY <2>1, JournalOnly
<1>9. CASE Link!Crash(t)
  <2>1. \A u \in Run : carried'[u] \subseteq carried[u] /\ outbox'[u] \subseteq outbox[u]
    BY <1>9 DEF Link!Crash, Link!TypeOK
  <2>2. UNCHANGED <<pipe, entry, wire, acks, displayed, row, rowClaim, relay>>
    BY <1>9 DEF Link!Crash
  <2>3. \A u \in Run, c \in Cmd : Keeps(u, c)
    BY <2>1, <2>2 DEF Keeps
  <2>4. \A u \in Run, c \in Cmd : /\ \A b \in BOOLEAN : Link!Answered(u, c, b)' => Link!Answered(u, c, b)
                                  /\ \A o \in Link!Outcome : Link!Told(u, c, o)' => Link!Told(u, c, o)
    BY <2>1, <2>2 DEF Link!Answered, Link!Told
  <2> QED BY <2>2, <2>3, <2>4, Travels
<1>10. ASSUME NEW f \in outbox[t], Link!ReadFrame(t, f) PROVE Sends'
  BY <1>10, ReadSends
<1> QED
  BY <1>1, <1>2, <1>3, <1>4, <1>5, <1>6, <1>7, <1>8, <1>9, <1>10 DEF Link!ParentNext, Link!TaskStep

\* A chunk that its claim has no more is nowhere.
LEMMA Nowhere ==
    ASSUME Sends, NEW t \in Run, NEW c \in Cmd, rowClaim[c] = t,
           UNCHANGED carried, wire' \subseteq wire,
           \A u \in Run \ {t} : pipe'[u] = pipe[u] /\ entry'[u] = entry[u],
           c \notin carried[t] \cup pipe'[t], <<t, c>> \notin wire', entry'[t][c] \notin {"queued", "active"}
    PROVE  ~Link!Underway(c)'
<1>1. ASSUME NEW u \in Run \ {t}
      PROVE  c \notin carried[u] \cup pipe[u] /\ <<u, c>> \notin wire /\ entry[u][c] = "none"
  <2>1. Silent(u, c)
    BY Stranger DEF Sends, Link!OneWay
  <2> QED BY <2>1 DEF Silent, Link!Ahead
<1> QED BY <1>1 DEF Link!Underway, Link!Open

\* The process ends some of its sends: a rejected one was not handed over, or
\* WhatsApp refused it, an accepted one was shown.
LEMMA FinishSends ==
    ASSUME Link!TypeOK, Link!TypeOK', Sends,
           NEW t \in Run, NEW cs \in SUBSET Cmd, NEW o \in Link!Outcome, Link!Finish(t, cs, o),
           UNCHANGED <<carried, pipe, wire, displayed, row, rowClaim, relay>>, acks' \subseteq acks,
           \A c \in cs : /\ entry[t][c] # "none"
                         /\ o = "accepted" => displayed[c] = 1
                         /\ o = "rejected" => displayed[c] = 0 /\ <<t, c>> \notin wire
    PROVE  Sends'
<1>1. /\ \A u \in Run, c \in Cmd : entry'[u][c] = IF u = t /\ c \in cs THEN o ELSE entry[u][c]
      /\ \A u \in Run, c \in Cmd, p \in Link!Outcome :
            Link!Told(u, c, p)' => Link!Told(u, c, p) \/ (u = t /\ c \in cs /\ p = o)
  <2>1. \A u \in Run, c \in Cmd : entry'[u][c] = IF u = t /\ c \in cs THEN o ELSE entry[u][c]
    <3>1. entry' = [entry EXCEPT ![t] = [c \in Cmd |-> IF c \in cs THEN o ELSE @[c]]]
      BY DEF Link!Finish
    <3> QED BY <3>1 DEF Link!TypeOK
  <2>2. \A u \in Run, c \in Cmd, p \in Link!Outcome :
           Link!Told(u, c, p)' => Link!Told(u, c, p) \/ (u = t /\ c \in cs /\ p = o)
    BY FinishTells
  <2> QED BY <2>1, <2>2
<1>2. ASSUME NEW c \in cs, o = "rejected" PROVE ~Link!Underway(c)'
  <2>1. rowClaim[c] = t /\ c \notin carried[t] \cup pipe[t]
    BY DEF Sends, Link!OneWay, Link!Way
  <2>2. \A u \in Run \ {t} : entry'[u] = entry[u]
    BY DEF Link!Finish, Link!TypeOK
  <2>3. entry'[t][c] = "rejected"
    BY <1>1, <1>2
  <2> QED BY <1>2, <2>1, <2>2, <2>3, Nowhere
<1>3. \A u \in Run, c \in Cmd : Keeps(u, c)
  BY <1>1 DEF Keeps, Link!Outcome
<1>4. \A u \in Run, c \in Cmd : \A b \in BOOLEAN : Link!Answered(u, c, b)' => Link!Answered(u, c, b)
  BY DEF Link!Answered
<1>5. ASSUME NEW u \in Run, NEW c \in Cmd, NEW p \in Link!Outcome, Link!Told(u, c, p)'
      PROVE  \/ Link!Told(u, c, p)
             \/ /\ c \in pipe[u] \/ entry[u][c] # "none"
                /\ p = "accepted" => displayed[c] = 1
                /\ p = "rejected" => displayed[c] = 0 /\ ~Link!Underway(c)'
  BY <1>1, <1>2, <1>5
<1> QED BY <1>3, <1>4, <1>5, Travels

\* A process emits frames about no send.
LEMMA EmitSends ==
    ASSUME Link!TypeOK, Link!TypeOK', Sends,
           NEW t \in Run, NEW frames \in SUBSET Link!Frame, Link!Emit(t, frames),
           \A f \in frames : f.type # "result",
           UNCHANGED <<carried, wire, acks, displayed, row, rowClaim, relay>>,
           \/ UNCHANGED <<pipe, entry>>
           \/ Link!Forget(t)
    PROVE  Sends'
<1>1. \A u \in Run, c \in Cmd : \A o \in Link!Outcome : Link!Told(u, c, o)' => Link!Told(u, c, o)
  BY EmitTells
<1>2. \A u \in Run, c \in Cmd : /\ c \in pipe'[u] => c \in pipe[u]
                                /\ entry'[u][c] = entry[u][c] \/ entry'[u][c] = "none"
  BY DEF Link!Forget, Link!TypeOK
<1>3. \A u \in Run, c \in Cmd : Keeps(u, c)
  BY <1>2 DEF Keeps
<1>4. \A u \in Run, c \in Cmd : \A b \in BOOLEAN : Link!Answered(u, c, b)' => Link!Answered(u, c, b)
  BY DEF Link!Answered
<1> QED BY <1>1, <1>3, <1>4, Travels

\* Sends.submit: the command leaves the pipe, for the queue or for good.
LEMMA SubmitSends ==
    ASSUME Link!TypeOK, Sends, NEW t \in Run, NEW c \in Cmd, Link!Submit(t, c)
    PROVE  Link!TypeOK' /\ Sends'
<1> USE DEF Link!parentVars, Link!waVars, Link!sendVars
<1>0. /\ c \in pipe[t] /\ pipe' = [pipe EXCEPT ![t] = @ \ {c}]
      /\ UNCHANGED <<Link!linkVars, Link!parentVars, Link!waVars, Link!sendVars, relay>>
  BY DEF Link!Submit
<1>1. /\ Link!Ahead(t, c) /\ entry[t][c] = "none" /\ c \notin carried[t] /\ <<t, c>> \notin wire
      /\ rowClaim[c] = t /\ displayed[c] = 0
  <2>1. Link!Way(t, c) /\ Link!Ahead(t, c)
    BY <1>0 DEF Sends, Link!OneWay, Link!Ahead
  <2> QED BY <1>0, <2>1 DEF Link!Way
<1>2. /\ pipe' \in [Run -> SUBSET Cmd] /\ pipe'[t] = pipe[t] \ {c}
      /\ \A u \in Run \ {t} : pipe'[u] = pipe[u]
  BY <1>0 DEF Link!TypeOK
<1>3. \A u \in Run, d \in Cmd : \A b \in BOOLEAN : Link!Answered(u, d, b)' => Link!Answered(u, d, b)
  BY <1>0 DEF Link!Answered
<1>4. /\ entry \in [Run -> [Cmd -> {"none", "queued", "active"} \cup Link!Outcome]]
      /\ child \in [Run -> Link!ChildState]
  BY DEF Link!TypeOK
<1>5. CASE child[t] = "online"
  <2>1. entry' = [entry EXCEPT ![t][c] = "queued"] /\ UNCHANGED <<child, outbox>>
    BY <1>1, <1>5 DEF Link!Submit
  <2>2. Link!TypeOK'
    BY <1>0, <1>2, <1>4, <2>1, ChildTypes DEF Link!TypeOK
  <2>3. \A u \in Run, d \in Cmd : entry'[u][d] = IF u = t /\ d = c THEN "queued" ELSE entry[u][d]
    BY <1>4, <2>1
  <2>4. \A u \in Run, d \in Cmd : Keeps(u, d)
    BY <1>0, <1>1, <1>2, <2>3 DEF Keeps
  <2>5. \A u \in Run, d \in Cmd : \A o \in Link!Outcome : Link!Told(u, d, o)' => Link!Told(u, d, o)
    BY <2>1 DEF Link!Told
  <2> QED BY <1>0, <1>3, <2>2, <2>4, <2>5, Travels
<1>6. CASE child[t] # "online"
  <2> DEFINE frames == {Link!Result(c, "rejected")} \cup {Link!Result(d, "uncertain") : d \in Link!Open(t)}
  <2>1. /\ child' = [child EXCEPT ![t] = "stopping"] /\ Link!Emit(t, frames)
        /\ entry' = [entry EXCEPT ![t] = [d \in Cmd |-> IF d \in Link!Open(t) THEN "uncertain" ELSE @[d]]]
    BY <1>1, <1>6 DEF Link!Submit
  <2>2. frames \in SUBSET Link!Frame
    BY FramesOf DEF Link!Outcome, Link!CloseReason, Link!Open
  <2>3. \A f \in frames : \/ f.cmd = c /\ f.outcome = "rejected"
                          \/ f.cmd \in Link!Open(t) /\ f.outcome = "uncertain"
    BY DEF Link!Result
  <2> HIDE DEF frames
  <2>4. /\ outbox' \in [Run -> SUBSET Link!Frame]
        /\ \A u \in Run, d \in Cmd, o \in Link!Outcome :
              Link!Told(u, d, o)' => \/ Link!Told(u, d, o)
                                     \/ u = t /\ d = c /\ o = "rejected"
                                     \/ u = t /\ d \in Link!Open(t) /\ o = "uncertain"
    BY <2>1, <2>2, <2>3, EmitTells
  <2>5. \A u \in Run, d \in Cmd :
           entry'[u][d] = IF u = t /\ d \in Link!Open(t) THEN "uncertain" ELSE entry[u][d]
    BY <1>4, <2>1
  <2>6. /\ child' \in [Run -> Link!ChildState]
        /\ entry' \in [Run -> [Cmd -> {"none", "queued", "active"} \cup Link!Outcome]]
    BY <1>4, <2>1 DEF Link!ChildState, Link!Outcome
  <2>7. Link!TypeOK'
    BY <1>0, <1>2, <2>4, <2>6, ChildTypes DEF Link!TypeOK
  <2>8. ~Link!Underway(c)'
    <3>1. \A u \in Run \ {t} : entry'[u] = entry[u]
      BY <1>4, <2>1
    <3>2. entry'[t][c] \notin {"queued", "active"} /\ c \notin pipe'[t]
      BY <1>1, <1>2, <2>5
    <3> QED BY <1>0, <1>1, <1>2, <3>1, <3>2, Nowhere
  <2>9. \A u \in Run, d \in Cmd : Keeps(u, d)
    BY <1>0, <1>2, <2>5 DEF Keeps, Link!Open
  <2>10. ASSUME NEW u \in Run, NEW d \in Cmd, NEW o \in Link!Outcome, Link!Told(u, d, o)'
         PROVE  \/ Link!Told(u, d, o)
                \/ /\ d \in pipe[u] \/ entry[u][d] # "none"
                   /\ o = "accepted" => displayed[d] = 1
                   /\ o = "rejected" => displayed[d] = 0 /\ ~Link!Underway(d)'
    BY <1>0, <1>1, <2>4, <2>8, <2>10 DEF Link!Open
  <2> QED BY <1>0, <1>3, <2>7, <2>9, <2>10, Travels
<1> QED BY <1>5, <1>6

\* The process and its socket.
LEMMA ChildSends ==
    ASSUME Link!TypeOK, Sends, NEW t \in Run, Link!ChildNext(t)
    PROVE  Link!TypeOK' /\ Sends'
<1> USE DEF Link!parentVars, Link!waVars, Link!sendVars
<1>0. /\ child \in [Run -> Link!ChildState] /\ pipe \in [Run -> SUBSET Cmd]
      /\ wire \subseteq Run \X Cmd
      /\ entry \in [Run -> [Cmd -> {"none", "queued", "active"} \cup Link!Outcome]]
      /\ acks \subseteq [token : Run, cmd : Cmd, accepted : BOOLEAN]
      /\ Link!Open(t) \in SUBSET Cmd
  BY DEF Link!TypeOK, Link!Open
<1>1. CASE Link!ChildSaves(t) \/ Link!ChildOpens(t) \/ Link!ChildExits(t)
  <2>1. PICK frames \in SUBSET Link!Frame : Link!Emit(t, frames) /\ \A f \in frames : f.type # "result"
    <3>1. ASSUME NEW x \in {"auth", "identity"}, Link!Emit(t, {[type |-> x]})
          PROVE  \E frames \in SUBSET Link!Frame : Link!Emit(t, frames) /\ \A f \in frames : f.type # "result"
      <4>1. [type |-> x] \in Link!Frame /\ [type |-> x].type # "result"
        BY DEF Link!Frame
      <4> QED BY <3>1, <4>1
    <3>2. ASSUME NEW r \in Link!CloseReason, Link!Emit(t, {[type |-> "closed", reason |-> r]})
          PROVE  \E frames \in SUBSET Link!Frame : Link!Emit(t, frames) /\ \A f \in frames : f.type # "result"
      <4>1. /\ [type |-> "closed", reason |-> r] \in Link!Frame
            /\ [type |-> "closed", reason |-> r].type # "result"
        BY DEF Link!Frame
      <4> QED BY <3>2, <4>1
    <3> QED BY <1>1, <3>1, <3>2 DEF Link!ChildSaves, Link!ChildOpens, Link!ChildExits
  <2>2. outbox' \in [Run -> SUBSET Link!Frame]
    BY <2>1, EmitTells
  <2>3. /\ UNCHANGED <<Link!linkVars, Link!parentVars, Link!waVars, Link!sendVars, relay>>
        /\ UNCHANGED <<pipe, entry>> \/ Link!Forget(t)
    BY <1>1 DEF Link!ChildSaves, Link!ChildOpens, Link!ChildExits
  <2>4. child' \in [Run -> Link!ChildState]
    BY <1>0, <1>1 DEF Link!ChildSaves, Link!ChildOpens, Link!ChildExits, Link!ChildState
  <2>5. /\ pipe' \in [Run -> SUBSET Cmd]
        /\ entry' \in [Run -> [Cmd -> {"none", "queued", "active"} \cup Link!Outcome]]
    BY <1>0, <2>3 DEF Link!Forget
  <2>6. Link!TypeOK'
    BY <1>0, <2>2, <2>3, <2>4, <2>5, ChildTypes
  <2> QED BY <2>1, <2>3, <2>6, EmitSends
<1>2. ASSUME NEW cs \in SUBSET Cmd, NEW o \in Link!Outcome, Link!Finish(t, cs, o),
             UNCHANGED <<Link!linkVars, Link!parentVars, pipe, wire, displayed, Link!sendVars, relay>>,
             child' \in [Run -> Link!ChildState], acks' \subseteq acks,
             \A c \in cs : /\ entry[t][c] # "none"
                           /\ o = "accepted" => displayed[c] = 1
                           /\ o = "rejected" => displayed[c] = 0 /\ <<t, c>> \notin wire
      PROVE  Link!TypeOK' /\ Sends'
  <2>1. /\ outbox' \in [Run -> SUBSET Link!Frame]
        /\ entry' \in [Run -> [Cmd -> {"none", "queued", "active"} \cup Link!Outcome]]
    BY <1>2, FinishTells
  <2>2. Link!TypeOK'
    BY <1>0, <1>2, <2>1, ChildTypes
  <2> QED BY <1>2, <2>2, FinishSends
<1>3. CASE Link!ChildCloses(t) \/ Link!ChildStops(t)
  <2>1. child' \in [Run -> Link!ChildState]
    BY <1>0, <1>3 DEF Link!ChildCloses, Link!ChildStops, Link!ChildState
  <2>2. \A c \in Link!Open(t) : entry[t][c] # "none"
    BY DEF Link!Open
  <2> QED BY <1>0, <1>2, <1>3, <2>1, <2>2 DEF Link!ChildCloses, Link!ChildStops, Link!Outcome
<1>4. ASSUME NEW c \in Cmd, Link!DispatchFails(t, c)
      PROVE  Link!TypeOK' /\ Sends'
  <2>1. entry[t][c] = "queued" /\ Link!Finish(t, {c}, "rejected")
    BY <1>4 DEF Link!DispatchFails
  <2>2. displayed[c] = 0 /\ <<t, c>> \notin wire
    BY <2>1 DEF Sends, Link!OneWay, Link!Way, Link!Ahead
  <2> QED BY <1>0, <1>2, <1>4, <2>1, <2>2 DEF Link!DispatchFails, Link!Outcome
<1>5. ASSUME NEW c \in Cmd, Link!SendTimesOut(t, c)
      PROVE  Link!TypeOK' /\ Sends'
  <2>1. entry[t][c] # "none" /\ Link!Finish(t, {c}, "uncertain")
    BY <1>5 DEF Link!SendTimesOut, Link!Open
  <2> QED BY <1>0, <1>2, <1>5, <2>1 DEF Link!SendTimesOut, Link!Outcome
<1>6. ASSUME NEW c \in Cmd, Link!ReceiveAck(t, c)
      PROVE  Link!TypeOK' /\ Sends'
  <2>1. PICK a \in acks : /\ a.token = t /\ a.cmd = c /\ acks' = acks \ {a}
                          /\ IF child[t] = "online" /\ entry[t][c] = "active"
                             THEN Link!Finish(t, {c}, IF a.accepted THEN "accepted" ELSE "rejected")
                             ELSE UNCHANGED <<entry, outbox>>
    BY <1>6 DEF Link!ReceiveAck
  <2>2. a.accepted \in BOOLEAN /\ Link!Answered(t, c, a.accepted)
    BY <1>0, <2>1 DEF Link!Answered
  <2>3. CASE child[t] = "online" /\ entry[t][c] = "active"
    <3>1. CASE a.accepted = TRUE
      <4>1. Link!Answered(t, c, TRUE)
        BY <2>2, <3>1
      <4>2. displayed[c] = 1
        BY <4>1 DEF Sends, Link!OneWay, Link!Way
      <4>3. Link!Finish(t, {c}, "accepted")
        BY <2>1, <2>3, <3>1
      <4> QED BY <1>0, <1>2, <1>6, <2>1, <2>3, <4>2, <4>3 DEF Link!ReceiveAck, Link!Outcome
    <3>2. CASE a.accepted = FALSE
      <4>1. Link!Answered(t, c, FALSE)
        BY <2>2, <3>2
      <4>2. displayed[c] = 0 /\ <<t, c>> \notin wire
        BY <4>1 DEF Sends, Link!OneWay, Link!Way, Link!Ahead
      <4>3. Link!Finish(t, {c}, "rejected")
        BY <2>1, <2>3, <3>2
      <4>4. \A d \in {c} : entry[t][d] # "none" /\ displayed[d] = 0 /\ <<t, d>> \notin wire
        BY <2>3, <4>2
      <4> QED BY <1>0, <1>2, <1>6, <2>1, <4>3, <4>4 DEF Link!ReceiveAck, Link!Outcome
    <3> QED BY <2>2, <3>1, <3>2
  <2>4. CASE ~(child[t] = "online" /\ entry[t][c] = "active")
    <3>1. /\ UNCHANGED <<Link!linkVars, Link!parentVars, Link!childVars, wire, displayed, Link!sendVars, relay>>
          /\ acks' \subseteq acks
      BY <1>6, <2>1, <2>4 DEF Link!ReceiveAck, Link!childVars
    <3>2. Link!TypeOK'
      BY <1>0, <3>1, ChildTypes DEF Link!childVars, Link!TypeOK
    <3>3. \A u \in Run, d \in Cmd : /\ Keeps(u, d)
                                    /\ \A b \in BOOLEAN : Link!Answered(u, d, b)' => Link!Answered(u, d, b)
                                    /\ \A o \in Link!Outcome : Link!Told(u, d, o)' => Link!Told(u, d, o)
      BY <3>1 DEF Keeps, Link!Answered, Link!Told, Link!childVars
    <3> QED BY <3>1, <3>2, <3>3, Travels
  <2> QED BY <2>3, <2>4
<1>7. ASSUME NEW c \in Cmd, Link!Dispatch(t, c)
      PROVE  Link!TypeOK' /\ Sends'
  <2>1. /\ entry[t][c] = "queued" /\ entry' = [entry EXCEPT ![t][c] = "active"]
        /\ wire' = wire \cup {<<t, c>>}
        /\ UNCHANGED <<Link!linkVars, Link!parentVars, child, pipe, outbox, acks, displayed,
                       Link!sendVars, relay>>
    BY <1>7 DEF Link!Dispatch
  <2>2. /\ entry' \in [Run -> [Cmd -> {"none", "queued", "active"} \cup Link!Outcome]]
        /\ \A u \in Run, d \in Cmd : entry'[u][d] = IF u = t /\ d = c THEN "active" ELSE entry[u][d]
    BY <1>0, <2>1
  <2>3. Link!TypeOK'
    BY <1>0, <2>1, <2>2, ChildTypes DEF Link!TypeOK
  <2>4. \A u \in Run, d \in Cmd : Keeps(u, d)
    BY <2>1, <2>2 DEF Keeps
  <2> QED BY <2>1, <2>3, <2>4, Travels DEF Link!Answered, Link!Told
<1>8. ASSUME NEW c \in Cmd, Link!Submit(t, c)
      PROVE  Link!TypeOK' /\ Sends'
  BY <1>8, SubmitSends
<1> QED BY <1>1, <1>3, <1>4, <1>5, <1>6, <1>7, <1>8 DEF Link!ChildNext

-----------------------------------------------------------------------------
(* The link's theorems.                                                       *)

LEMMA LinkInit == ASSUME Link!Init PROVE Link!LinkInv
<1> USE DEF Link!Init
<1>1. Link!TypeOK
  BY DEF Link!TypeOK, Link!LinkState, Link!ParentState, Link!ChildState, Link!RowState, Link!Route
<1>2. Link!OneWay
  BY DEF Sends, Link!OneWay, Link!Way, Link!Ahead, Link!Answered, Link!Told, Link!Underway,
         Link!Open
<1>3. Link!OutcomeIsTrue
  BY DEF Sends, Link!OutcomeIsTrue, Link!Underway, Link!Open
<1>4. Link!ClaimHeld
  BY DEF Claims, Link!ClaimHeld
<1>5. Link!ShownAtMostOnce /\ Link!OneChild /\ Link!PurgedStaysPurged
  BY DEF Sends, Link!ShownAtMostOnce, Claims, Link!OneChild, Link!PurgedStaysPurged
<1> QED BY <1>1, <1>2, <1>3, <1>4, <1>5 DEF Link!LinkInv, Link!LinkSafety, Sends, Claims

LEMMA LinkStep == ASSUME Link!LinkInv, [Link!Next]_(Link!vars) PROVE Link!LinkInv'
<1>0. Link!TypeOK /\ Sends /\ Claims
  BY DEF Link!LinkInv, Link!LinkSafety, Sends, Claims
<1>1. CASE Link!LinkNext
  <2>1. Link!TypeOK'
    BY <1>0, <1>1, LinkTypes
  <2>2. Sends'
    BY <1>0, <1>1, <2>1, LinkSends
  <2>3. Claims'
    BY <1>0, <1>1, LinkNextClaims
  <2> QED BY <2>1, <2>2, <2>3 DEF Link!LinkInv, Link!LinkSafety, Sends, Claims
<1>2. ASSUME NEW t \in Run, Link!ParentNext(t) PROVE Link!LinkInv'
  <2>1. Link!TypeOK'
    BY <1>0, <1>2, ParentTypes
  <2>2. Sends'
    BY <1>0, <1>2, <2>1, ParentSends
  <2>3. Claims'
    BY <1>0, <1>2, ParentClaims
  <2> QED BY <2>1, <2>2, <2>3 DEF Link!LinkInv, Link!LinkSafety, Sends, Claims
<1>3. ASSUME NEW t \in Run, Link!ChildNext(t) PROVE Link!LinkInv'
  <2>1. Link!TypeOK' /\ Sends'
    BY <1>0, <1>3, ChildSends
  <2>2. Claims'
    BY <1>0, <1>3, ChildClaims
  <2> QED BY <2>1, <2>2 DEF Link!LinkInv, Link!LinkSafety, Sends, Claims
<1>4. ASSUME NEW t \in Run, NEW c \in Cmd, Link!WhatsAppDecides(t, c) PROVE Link!LinkInv'
  <2>1. Link!TypeOK' /\ Sends'
    BY <1>0, <1>4, WhatsAppSends
  <2>2. Claims'
    BY <1>0, <1>4, ClaimFrame DEF Link!WhatsAppDecides, Link!linkVars, Link!parentVars,
                                  Link!childVars
  <2> QED BY <2>1, <2>2 DEF Link!LinkInv, Link!LinkSafety, Sends, Claims
<1>5. ASSUME NEW c \in Cmd, Link!PlanSend(c) \/ Link!RelayStep(c) PROVE Link!LinkInv'
  <2>0. /\ row \in [Cmd -> Link!RowState] /\ rowRoute \in [Cmd -> Link!Route]
        /\ relay \in [Cmd -> {"none", "checked", "retry", "delivered", "failed"}]
        /\ <<gen, epoch>> \in Link!Route
    BY <1>0 DEF Link!TypeOK, Link!Route
  <2>1. /\ row' \in [Cmd -> Link!RowState] /\ rowRoute' \in [Cmd -> Link!Route]
        /\ relay' \in [Cmd -> {"none", "checked", "retry", "delivered", "failed"}]
    BY <1>5, <2>0 DEF Link!PlanSend, Link!RelayStep, Link!Enqueue, Link!Recheck, Link!sendVars,
                      Link!RowState
  <2>2. UNCHANGED <<Link!linkVars, Link!parentVars, Link!childVars, Link!waVars, rowClaim>>
    BY <1>5 DEF Link!PlanSend, Link!RelayStep, Link!Enqueue, Link!Recheck, Link!sendVars
  <2>3. Link!TypeOK'
    BY <1>0, <2>1, <2>2 DEF Link!TypeOK, Link!linkVars, Link!parentVars, Link!childVars, Link!waVars
  <2>4. Sends'
    BY <1>0, <1>5, <2>3, LinkSends
  <2>5. Claims'
    BY <1>0, <2>2, ClaimFrame DEF Link!linkVars, Link!parentVars, Link!childVars
  <2> QED BY <2>3, <2>4, <2>5 DEF Link!LinkInv, Link!LinkSafety, Sends, Claims
<1>6. CASE UNCHANGED Link!vars
  <2> USE <1>6 DEF Link!vars, Link!linkVars, Link!parentVars, Link!childVars, Link!waVars, Link!sendVars
  <2>1. Link!TypeOK'
    BY <1>0 DEF Link!TypeOK
  <2>2. Sends'
    BY <1>0, <2>1, JournalOnly
  <2>3. Claims'
    BY <1>0, ClaimFrame
  <2> QED BY <2>1, <2>2, <2>3 DEF Link!LinkInv, Link!LinkSafety, Sends, Claims
<1> QED BY <1>1, <1>2, <1>3, <1>4, <1>5, <1>6 DEF Link!Next

\* The inductive invariant of the link, for any number of chunks, claims and
\* changes of the link.
THEOREM LinkInvariant == Link!Spec => []LinkInv
BY LinkInit, LinkStep, PTL DEF Link!Spec, LinkInv

\* A chunk is shown at most once and the journal says so truly; one process at
\* most speaks for the link; purged credentials stay purged.
THEOREM LinkSafe == Link!Spec => []Link!LinkSafety
<1>1. Link!LinkInv => Link!LinkSafety
  BY DEF Link!LinkInv
<1> QED BY <1>1, LinkInvariant, PTL DEF LinkInv

-----------------------------------------------------------------------------
(* The link implements ChunkSend.                                             *)

\* The journal says the same after a step that leaves it alone.
LEMMA JournalRests ==
    ASSUME UNCHANGED <<row, relay, displayed>> PROVE UNCHANGED Link!Promise!vars
BY DEF Link!Promise!vars, Link!Phase, Link!Heard

\* A revocation cancels what waits.
LEMMA CancelRefuses ==
    ASSUME Link!TypeOK, UNCHANGED <<relay, displayed>>,
           row' = [c \in Cmd |-> IF row[c] = "pending" THEN "cancelled" ELSE row[c]]
    PROVE  Link!Promise!Next
<1> DEFINE cs == {c \in Cmd : row[c] = "pending"}
<1>1. \A c \in Cmd : IF c \in cs THEN Link!Phase(c) = "waiting" /\ Link!Phase(c)' = "refused"
                                 ELSE Link!Phase(c)' = Link!Phase(c)
  BY DEF Link!Phase
<1>2. UNCHANGED <<displayed, [c \in Cmd |-> Link!Heard(c)]>>
  BY DEF Link!Heard
<1>3. Link!Promise!Refuse(cs)
  BY <1>1, <1>2 DEF Link!Promise!Refuse
<1> QED BY <1>3 DEF Link!Promise!Next

\* Started chunks without an answer are given up.
LEMMA LateGivesUp ==
    ASSUME Link!TypeOK, UNCHANGED <<relay, displayed>>,
           NEW cs \in SUBSET Cmd, \A c \in cs : row[c] = "dispatch_started",
           row' = [c \in Cmd |-> IF c \in cs THEN "uncertain" ELSE row[c]]
    PROVE  Link!Promise!Next
<1>1. \A c \in Cmd : IF c \in cs THEN Link!Phase(c) = "sending" /\ Link!Phase(c)' = "unknown"
                                 ELSE Link!Phase(c)' = Link!Phase(c)
  BY DEF Link!Phase
<1>2. UNCHANGED <<displayed, [c \in Cmd |-> Link!Heard(c)]>>
  BY DEF Link!Heard
<1>3. Link!Promise!GiveUp(cs)
  BY <1>1, <1>2 DEF Link!Promise!GiveUp
<1> QED BY <1>3 DEF Link!Promise!Next

\* The record of a result is a true answer.
LEMMA ResultAnswers ==
    ASSUME Link!LinkInv, NEW t \in Run, NEW f \in outbox[t], Link!RecordResult(t, f),
           UNCHANGED <<relay, displayed>>
    PROVE  [Link!Promise!Next]_(Link!Promise!vars)
<1>0. Link!TypeOK /\ Sends /\ row \in [Cmd -> Link!RowState] /\ f \in Link!Frame
  BY DEF Link!LinkInv, Link!LinkSafety, Sends, Link!TypeOK
<1>1. f.cmd \in Cmd /\ f.outcome \in Link!Outcome /\ Link!Told(t, f.cmd, f.outcome)
  BY <1>0 DEF Link!RecordResult, Link!Frame, Link!Told
<1>2. CASE row' = row
  BY <1>2, JournalRests
<1>3. CASE row[f.cmd] = "dispatch_started" /\ row' = [row EXCEPT ![f.cmd] = f.outcome]
  <2> DEFINE c == f.cmd
             o == f.outcome
  <2>0. c \in Cmd /\ o \in Link!Outcome /\ Link!Told(t, c, o) /\ row[c] = "dispatch_started"
        /\ row' = [row EXCEPT ![c] = o]
    BY <1>1, <1>3
  <2> HIDE DEF c, o
  <2>1. CASE o = "uncertain"
    <3>1. row' = [d \in Cmd |-> IF d \in {c} THEN "uncertain" ELSE row[d]]
      BY <1>0, <2>0, <2>1
    <3> QED BY <1>0, <2>0, <3>1, LateGivesUp
  <2>2. CASE o # "uncertain"
    <3>1. /\ Link!Told(t, c, "accepted") => displayed[c] = 1
          /\ Link!Told(t, c, "rejected") => displayed[c] = 0
      BY <1>0, <2>0 DEF Sends, Link!OneWay, Link!Way
    <3>2. o = IF displayed[c] = 1 THEN "accepted" ELSE "rejected"
      BY <2>0, <2>2, <3>1 DEF Link!Outcome
    <3>3. /\ Link!Phase(c) = "sending"
          /\ Link!Phase(c)' = IF displayed[c] = 1 THEN "accepted" ELSE "refused"
          /\ \A d \in Cmd \ {c} : Link!Phase(d)' = Link!Phase(d)
      BY <1>0, <2>0, <3>2 DEF Link!Phase
    <3>4. UNCHANGED <<displayed, [d \in Cmd |-> Link!Heard(d)]>>
      BY DEF Link!Heard
    <3>5. Link!Promise!Answer(c)
      BY <2>0, <3>3, <3>4 DEF Link!Promise!Answer
    <3> QED BY <2>0, <3>5 DEF Link!Promise!Next
  <2> QED BY <2>1, <2>2
<1> QED BY <1>2, <1>3 DEF Link!RecordResult

\* What the supervisor of a claim does to the journal.
LEMMA ParentRefines ==
    ASSUME Link!LinkInv, NEW t \in Run, Link!ParentNext(t)
    PROVE  [Link!Promise!Next]_(Link!Promise!vars)
<1> USE DEF Link!waVars, Link!sendVars
<1>0. Link!TypeOK /\ row \in [Cmd -> Link!RowState]
  BY DEF Link!LinkInv, Link!TypeOK
<1>1. CASE Link!Claim(t) \/ Link!Spawn(t) \/ Link!RenewFails(t) \/ Link!NothingToDispatch(t)
           \/ Link!WriteSend(t) \/ Link!KillChild(t) \/ Link!EndTask(t) \/ Link!EndRun(t)
           \/ Link!Crash(t)
  <2>1. UNCHANGED <<row, relay, displayed>>
    BY <1>1 DEF Link!Claim, Link!Spawn, Link!RenewFails, Link!NothingToDispatch, Link!WriteSend,
       Link!KillChild, Link!EndTask, Link!EndRun, Link!Crash
  <2> QED BY <2>1, JournalRests
<1>2. CASE Link!Renew(t)
  <2>1. PICK late \in SUBSET {c \in Cmd : row[c] = "dispatch_started" /\ rowClaim[c] = t} :
           row' = [c \in Cmd |-> IF c \in late THEN "uncertain" ELSE row[c]]
    BY <1>2 DEF Link!Renew
  <2>2. UNCHANGED <<relay, displayed>>
    BY <1>2 DEF Link!Renew
  <2> QED BY <1>0, <2>1, <2>2, LateGivesUp
<1>3. CASE Link!Reaped(t)
  <2> DEFINE cs == {c \in Cmd : row[c] = "dispatch_started" /\ rowClaim[c] = t}
  <2>1. UNCHANGED <<relay, displayed>>
    BY <1>3 DEF Link!Reaped
  <2>2. \/ row' = row
        \/ row' = [c \in Cmd |-> IF c \in cs THEN "uncertain" ELSE row[c]]
    BY <1>3 DEF Link!Reaped
  <2>3. cs \subseteq Cmd /\ \A c \in cs : row[c] = "dispatch_started"
    OBVIOUS
  <2> HIDE DEF cs
  <2> QED BY <1>0, <2>1, <2>2, <2>3, LateGivesUp, JournalRests
<1>4. CASE Link!Authorize(t)
  <2>1. PICK c \in Cmd : row[c] = "pending" /\ row' = [row EXCEPT ![c] = "dispatch_started"]
    BY <1>4 DEF Link!Authorize, Link!Dispatchable
  <2>2. UNCHANGED <<relay, displayed>>
    BY <1>4 DEF Link!Authorize
  <2>3. /\ Link!Phase(c) = "waiting" /\ Link!Phase(c)' = "sending"
        /\ \A d \in Cmd \ {c} : Link!Phase(d)' = Link!Phase(d)
    BY <1>0, <2>1 DEF Link!Phase
  <2>4. UNCHANGED <<displayed, [d \in Cmd |-> Link!Heard(d)]>>
    BY <2>2 DEF Link!Heard
  <2>5. Link!Promise!Start(c)
    BY <2>3, <2>4 DEF Link!Promise!Start
  <2> QED BY <2>5 DEF Link!Promise!Next
<1>5. CASE Link!TickRevokes(t) \/ Link!FailConnection(t)
  <2>1. /\ UNCHANGED <<relay, displayed>>
        /\ \/ row' = row
           \/ row' = [c \in Cmd |-> IF row[c] = "pending" THEN "cancelled" ELSE row[c]]
    BY <1>5 DEF Link!TickRevokes, Link!Revoke, Link!FailConnection
  <2> QED BY <1>0, <2>1, CancelRefuses, JournalRests
<1>6. ASSUME NEW f \in outbox[t], Link!ReadFrame(t, f)
      PROVE  [Link!Promise!Next]_(Link!Promise!vars)
  <2>1. UNCHANGED <<relay, displayed>>
    BY <1>6 DEF Link!ReadFrame
  <2>2. CASE Link!RecordResult(t, f)
    BY <2>1, <2>2, ResultAnswers
  <2>3. CASE Link!StoreAuth(t, f) \/ Link!BindIdentity(t, f) \/ Link!HandleClosed(t, f)
    <3>1. \/ row' = row
          \/ row' = [c \in Cmd |-> IF row[c] = "pending" THEN "cancelled" ELSE row[c]]
      BY <2>3 DEF Link!StoreAuth, Link!BindIdentity, Link!HandleClosed, Link!Revoke
    <3> QED BY <1>0, <2>1, <3>1, CancelRefuses, JournalRests
  <2> QED BY <1>6, <2>2, <2>3 DEF Link!ReadFrame
<1> QED BY <1>1, <1>2, <1>3, <1>4, <1>5, <1>6 DEF Link!ParentNext, Link!TaskStep

\* What WhatsApp still shows was sent, is not yet shown and was not refused.
LEMMA WhatsAppRefines ==
    ASSUME Link!LinkInv, NEW t \in Run, NEW c \in Cmd, Link!WhatsAppDecides(t, c)
    PROVE  [Link!Promise!Next]_(Link!Promise!vars)
<1>0. Link!TypeOK /\ Sends
  BY DEF Link!LinkInv, Link!LinkSafety, Sends
<1>1. UNCHANGED <<row, relay>>
  BY DEF Link!WhatsAppDecides, Link!sendVars
<1>2. /\ displayed \in [Cmd -> Nat] /\ row \in [Cmd -> Link!RowState]
      /\ displayed' = displayed \/ displayed' = [displayed EXCEPT ![c] = @ + 1]
  BY <1>0 DEF Link!TypeOK, Link!WhatsAppDecides
<1>3. CASE displayed' = displayed
  BY <1>1, <1>3, JournalRests
<1>4. CASE displayed' = [displayed EXCEPT ![c] = @ + 1]
  <2>1. Link!Ahead(t, c) /\ Link!Underway(c)
    BY DEF Link!WhatsAppDecides, Link!Ahead, Link!Underway
  <2>2. displayed[c] = 0 /\ row[c] \notin {"none", "pending", "cancelled"}
    BY <1>0, <2>1 DEF Sends, Link!OneWay, Link!Way
  <2>3. row[c] # "accepted" /\ row[c] # "rejected"
    BY <1>0, <2>1, <2>2 DEF Sends, Link!OutcomeIsTrue
  <2>4. Link!Phase(c) \in {"sending", "unknown"}
    BY <1>2, <2>2, <2>3 DEF Link!Phase, Link!RowState
  <2>5. displayed' = [displayed EXCEPT ![c] = 1]
    BY <1>2, <1>4, <2>2
  <2>6. UNCHANGED <<[d \in Cmd |-> Link!Phase(d)], [d \in Cmd |-> Link!Heard(d)]>>
    BY <1>1 DEF Link!Phase, Link!Heard
  <2>7. Link!Promise!Show(c)
    BY <2>2, <2>4, <2>5, <2>6 DEF Link!Promise!Show
  <2> QED BY <2>7 DEF Link!Promise!Next
<1> QED BY <1>2, <1>3, <1>4

\* What the relay hears of a chunk.
LEMMA RelayRefines ==
    ASSUME Link!LinkInv, NEW c \in Cmd, Link!PlanSend(c) \/ Link!RelayStep(c)
    PROVE  [Link!Promise!Next]_(Link!Promise!vars)
<1> DEFINE State == {"none", "checked", "retry", "delivered", "failed"}
<1>0. /\ row \in [Cmd -> Link!RowState] /\ relay \in [Cmd -> State]
      /\ UNCHANGED displayed
  BY DEF Link!LinkInv, Link!TypeOK, Link!PlanSend, Link!RelayStep, Link!Enqueue, Link!Recheck,
         Link!waVars
<1>1. \A d \in Cmd : Link!Phase(d)' = Link!Phase(d)
  BY <1>0 DEF Link!Phase, Link!PlanSend, Link!RelayStep, Link!Enqueue, Link!Recheck, Link!sendVars
<1>2. \E w \in State :
         /\ relay' = [relay EXCEPT ![c] = w]
         /\ relay[c] \in {"none", "checked", "retry"}
         /\ w = "delivered" => row[c] = "accepted"
  BY <1>0 DEF Link!PlanSend, Link!RelayStep, Link!Enqueue, Link!Recheck, Link!RowState
<1>3. PICK w \in State :
         /\ relay' = [relay EXCEPT ![c] = w]
         /\ relay[c] \in {"none", "checked", "retry"}
         /\ w = "delivered" => row[c] = "accepted"
  BY <1>2
<1>4. Link!Heard(c) = "nothing" /\ \A d \in Cmd \ {c} : Link!Heard(d)' = Link!Heard(d)
  BY <1>0, <1>3 DEF Link!Heard
<1>5. CASE w \in {"delivered", "failed"}
  <2>1. Link!Heard(c)' = w /\ (w = "delivered" => Link!Phase(c) = "accepted")
    BY <1>0, <1>3, <1>5 DEF Link!Heard, Link!Phase
  <2>2. Link!Promise!Hear(c, w)
    BY <1>0, <1>1, <1>4, <2>1 DEF Link!Promise!Hear
  <2> QED BY <1>5, <2>2 DEF Link!Promise!Next
<1>6. CASE w \notin {"delivered", "failed"}
  <2>1. \A d \in Cmd : Link!Heard(d)' = Link!Heard(d)
    BY <1>0, <1>3, <1>4, <1>6 DEF Link!Heard
  <2> QED BY <1>0, <1>1, <2>1 DEF Link!Promise!vars
<1> QED BY <1>5, <1>6

\* Every step of the link is a step of ChunkSend, or none.
LEMMA ChunkRefines ==
    ASSUME Link!LinkInv, [Link!Next]_(Link!vars) PROVE [Link!Promise!Next]_(Link!Promise!vars)
<1> USE DEF Link!waVars, Link!sendVars
<1>0. Link!TypeOK
  BY DEF Link!LinkInv
<1>1. CASE Link!LinkNext
  <2>1. /\ UNCHANGED <<relay, displayed>>
        /\ \/ row' = row
           \/ row' = [c \in Cmd |-> IF row[c] = "pending" THEN "cancelled" ELSE row[c]]
    BY <1>1 DEF Link!LinkNext, Link!Start, Link!UserRevoke, Link!Revoke, Link!Relink,
                Link!ExpirePairing, Link!LeaseExpires
  <2> QED BY <1>0, <2>1, CancelRefuses, JournalRests
<1>2. ASSUME NEW t \in Run, Link!ChildNext(t)
      PROVE  [Link!Promise!Next]_(Link!Promise!vars)
  <2>1. UNCHANGED <<row, relay, displayed>>
    BY <1>2 DEF Link!ChildNext, Link!ChildSaves, Link!ChildOpens, Link!ChildCloses, Link!ChildStops,
       Link!ChildExits, Link!Submit, Link!Dispatch, Link!DispatchFails, Link!SendTimesOut,
       Link!ReceiveAck
  <2> QED BY <2>1, JournalRests
<1>3. CASE UNCHANGED Link!vars
  BY <1>3, JournalRests DEF Link!vars
<1> QED BY <1>1, <1>2, <1>3, ParentRefines, WhatsAppRefines, RelayRefines DEF Link!Next

\* Nothing is planned, shown or heard at first.
LEMMA ChunkInit == ASSUME Link!Init PROVE Link!Promise!Init
BY DEF Link!Init, Link!Promise!Init, Link!Phase, Link!Heard

\* For every number of chunks, claims and changes, the link is to the relay a
\* journal that shows a chunk at most once and answers it truly and for good.
THEOREM LinkRefinement == Link!Spec => RefinesChunkSend
BY ChunkInit, ChunkRefines, LinkInvariant, PTL
   DEF Link!Spec, LinkInv, RefinesChunkSend, Link!RefinesChunkSend, Link!Promise!Spec

-----------------------------------------------------------------------------
(* The members of a finite set of numbers in order.                           *)

\* The instance counts as FiniteSets does.
LEMMA LateCounts == \A S : Late!Cardinality(S) = Cardinality(S)
BY DEF Late!Cardinality, Cardinality

\* A function over an initial segment of the numbers is a sequence.
LEMMA IsSequence ==
    ASSUME NEW S, NEW n \in Nat, NEW f, f = [k \in 1 .. n |-> f[k]], \A k \in 1 .. n : f[k] \in S
    PROVE  f \in Seq(S) /\ Len(f) = n /\ DOMAIN f = 1 .. n
<1>1. f \in [1 .. n -> S]
    OBVIOUS
<1> QED BY <1>1

\* A set of numbers has a least one.
LEMMA Least ==
    ASSUME NEW S \in SUBSET Nat, S # {}
    PROVE  \E n \in S : \A m \in S : n <= m
<1>1. PICK n \in S : \A m \in S : <<m, n>> \notin OpToRel(<, Nat)
    BY WFMin, NatLessThanWellFounded
<1>2. ASSUME NEW m \in S, m < n PROVE FALSE
  <2>1. m \in Nat /\ n \in Nat
    OBVIOUS
  <2>2. <<m, n>> \in OpToRel(<, Nat)
    BY <1>2, <2>1 DEF OpToRel
  <2> QED BY <1>1, <2>2
<1>3. \A m \in S : m \in Nat
    OBVIOUS
<1> QED BY <1>2, <1>3

\* How many of a set are up to a number grows by its members, one by one.
Rank(S, n) == Cardinality({m \in S : m <= n})

LEMMA Ranks ==
    ASSUME NEW N \in Nat, NEW S \in SUBSET (1 .. N)
    PROVE  /\ \A n \in Nat : Rank(S, n) \in Nat
           /\ Rank(S, 0) = 0 /\ Rank(S, N) = Cardinality(S) /\ Cardinality(S) \in Nat
           /\ IsFiniteSet(S)
           /\ \A n \in Nat : Rank(S, n + 1) = Rank(S, n) + (IF n + 1 \in S THEN 1 ELSE 0)
<1>1. IsFiniteSet(S) /\ (\A T \in SUBSET S : IsFiniteSet(T)) /\ \A n \in S : n \in 1 .. N
  <2>1. IsFiniteSet(1 .. N)
    BY FS_Interval
  <2> QED BY <2>1, FS_Subset
<1>2. \A n \in Nat : Rank(S, n) \in Nat
    BY <1>1, FS_CardinalityType DEF Rank
<1>3. {m \in S : m <= 0} = {} /\ {m \in S : m <= N} = S
  <2>1. \A m \in S : ~(m <= 0) /\ m <= N
    BY <1>1
  <2> QED BY <2>1
<1>4. ASSUME NEW n \in Nat
      PROVE  Rank(S, n + 1) = Rank(S, n) + (IF n + 1 \in S THEN 1 ELSE 0)
  <2> DEFINE T == {m \in S : m <= n}
  <2>1. CASE n + 1 \in S
    <3>1. {m \in S : m <= n + 1} = T \cup {n + 1} /\ n + 1 \notin T
      <4>1. \A m \in S : m <= n + 1 <=> m <= n \/ m = n + 1
        BY <1>1
      <4>2. n + 1 \notin T
        BY <2>1
      <4> QED BY <2>1, <4>1, <4>2
    <3>2. IsFiniteSet(T)
        BY <1>1
    <3> HIDE DEF T
    <3>3. Cardinality(T \cup {n + 1}) = Cardinality(T) + 1
        BY <3>1, <3>2, FS_AddElement
    <3> QED BY <2>1, <3>1, <3>3 DEF Rank, T
  <2>2. CASE n + 1 \notin S
    <3>1. {m \in S : m <= n + 1} = T
      <4>1. \A m \in S : m <= n + 1 <=> m <= n
        BY <1>1, <2>2
      <4> QED BY <4>1
    <3>2. Rank(S, n + 1) = Rank(S, n)
        BY <3>1 DEF Rank
    <3> QED BY <1>2, <2>2, <3>2
  <2> QED BY <2>1, <2>2
<1> QED BY <1>1, <1>2, <1>3, <1>4, FS_EmptySet, FS_CardinalityType DEF Rank

\* The k-th member is one, and every member is the k-th for a k.
LEMMA NthIsMember ==
    ASSUME NEW N \in Nat, NEW S \in SUBSET (1 .. N), NEW k \in 1 .. Cardinality(S)
    PROVE  Late!Nth(S, k) \in S
<1> DEFINE Past == {n \in 0 .. N : k <= Rank(S, n)}
<1>1. Past \in SUBSET Nat /\ N \in Past
    BY Ranks
<1>2. PICK n \in Past : \A m \in Past : n <= m
    BY <1>1, Least
<1>3. n # 0 /\ n - 1 \in 0 .. N /\ n - 1 \notin Past /\ n = (n - 1) + 1
  <2>1. n \in 0 .. N /\ k <= Rank(S, n) /\ k \in Nat /\ k >= 1
    BY Ranks
  <2>2. n # 0
    BY <2>1, Ranks
  <2>3. n - 1 \in 0 .. N /\ n = (n - 1) + 1 /\ ~(n <= n - 1)
    BY <2>1, <2>2
  <2> QED BY <1>2, <2>2, <2>3
<1>4. Rank(S, n - 1) < k /\ k <= Rank(S, n) /\ Rank(S, n - 1) \in Nat
    BY <1>2, <1>3, Ranks
<1>5. n \in S /\ Rank(S, n) = k
  <2>1. Rank(S, n) = Rank(S, n - 1) + (IF n \in S THEN 1 ELSE 0) /\ k \in Nat
    BY <1>3, Ranks
  <2> QED BY <1>4, <2>1
<1> QED BY <1>5, LateCounts DEF Late!Nth, Rank

LEMMA MemberIsNth ==
    ASSUME NEW N \in Nat, NEW S \in SUBSET (1 .. N), NEW n \in S
    PROVE  \E k \in 1 .. Cardinality(S) : Late!Nth(S, k) = n
<1> DEFINE Upto(m) == {i \in S : i <= m}
<1>1. IsFiniteSet(S) /\ (\A T \in SUBSET S : IsFiniteSet(T)) /\ \A m \in S : m \in 1 .. N
  <2>1. IsFiniteSet(1 .. N)
    BY FS_Interval
  <2> QED BY <2>1, FS_Subset
<1>2. ASSUME NEW i \in S, NEW j \in S, i < j PROVE Cardinality(Upto(i)) # Cardinality(Upto(j))
  <2>1. \A m \in S : (m <= i => m <= j) /\ j <= j /\ ~(j <= i)
    BY <1>1, <1>2
  <2>2. Upto(i) \in SUBSET Upto(j) /\ j \in Upto(j) /\ j \notin Upto(i)
    BY <2>1
  <2>3. IsFiniteSet(Upto(j))
    BY <1>1
  <2> HIDE DEF Upto
  <2> QED BY <2>2, <2>3, FS_Subset
<1>3. \A i \in S : Cardinality(Upto(i)) = Cardinality(Upto(n)) => i = n
    BY <1>2
<1>4. Upto(n) \in SUBSET S /\ n \in Upto(n) /\ IsFiniteSet(Upto(n))
    BY <1>1
<1>5. Cardinality(Upto(n)) \in 1 .. Cardinality(S)
  <2> HIDE DEF Upto
  <2>1. Cardinality(Upto(n)) \in Nat /\ Cardinality(S) \in Nat /\ Cardinality(Upto(n)) <= Cardinality(S)
    BY <1>1, <1>4, FS_Subset, FS_CardinalityType
  <2>2. Cardinality(Upto(n)) # 0
    BY <1>4, FS_EmptySet
  <2> QED BY <2>1, <2>2
<1>6. Late!Nth(S, Cardinality(Upto(n))) = n
    BY <1>3, LateCounts DEF Late!Nth
<1> QED BY <1>5, <1>6

-----------------------------------------------------------------------------
(* Steps of a loop that leave rows and bindings alone.                        *)

\* A loop goes on with what it knows; what it told the browsers was current.
LEMMA LoopKeeps ==
    ASSUME Late!RecoveryInv, NEW p \in Proc, NEW l \in Late!Loop, Late!IsBehind(l),
           proc' = [proc EXCEPT ![p] = l],
           UNCHANGED <<read, waiting, chat, Late!guest, Late!epochs>>,
           idle' \in [Proc -> [Late!Binding -> {"no", "fresh", "old"}]],
             after' \in [Proc -> 0 .. Agents],
           told' \in [Late!Binding -> [Late!Seq_ -> 0 .. 2]], flag' \in [Late!Binding -> SUBSET Late!Seq_], Late!ToldIsCurrent'
    PROVE  Late!RecoveryInv'
<1>1. \A q \in Proc : proc'[q] \in Late!Loop /\ (proc'[q] = l \/ proc'[q] = proc[q])
    BY DEF Late!RecoveryInv, Late!TypeOK
<1>2. Late!TypeOK'
    BY <1>1 DEF Late!RecoveryInv, Late!TypeOK, Late!guest, Late!epochs
<1>3. ASSUME NEW q \in Proc PROVE Late!IsBehind(proc[q])'
  <2>1. PICK m : m = proc'[q] /\ Late!IsBehind(m)
    BY <1>1 DEF Late!RecoveryInv, Late!PagesAreBehind
  <2> QED BY <2>1 DEF Late!IsBehind, Late!IsLive, Late!guest, Late!epochs
<1>4. Late!EpochsGrow' /\ Late!RowsExist'
    BY
       DEF Late!RecoveryInv, Late!EpochsGrow, Late!RowsExist, Late!Waits, Late!IsLive, Late!guest,
           Late!epochs
<1>5. Late!CursorIsSafe' /\ Late!ClearedStaysEmpty'
    BY
       DEF Late!RecoveryInv, Late!RecoverySafety, Late!CursorIsSafe, Late!ClearedStaysEmpty,
           Late!Waits, Late!IsLive, Late!guest, Late!epochs
<1> QED BY <1>2, <1>3, <1>4, <1>5 DEF Late!RecoveryInv, Late!RecoverySafety, Late!PagesAreBehind

\* The same when nothing is told.
LEMMA QuietLoopKeeps ==
    ASSUME Late!RecoveryInv, NEW p \in Proc, NEW l \in Late!Loop, Late!IsBehind(l),
           proc' = [proc EXCEPT ![p] = l], UNCHANGED <<Late!durable, Late!guest, Late!epochs, told>>,
           idle' \in [Proc -> [Late!Binding -> {"no", "fresh", "old"}]],
             after' \in [Proc -> 0 .. Agents]
    PROVE  Late!RecoveryInv'
<1>1. Late!ToldIsCurrent' /\ UNCHANGED <<read, waiting, chat, Late!guest, Late!epochs>>
    BY
       DEF Late!RecoveryInv, Late!RecoverySafety, Late!ToldIsCurrent, Late!durable, Late!epochs,
           Late!IsLive
<1>2. told' \in [Late!Binding -> [Late!Seq_ -> 0 .. 2]] /\ flag' \in [Late!Binding -> SUBSET Late!Seq_]
    BY DEF Late!RecoveryInv, Late!TypeOK, Late!durable
<1> QED BY <1>1, <1>2, LoopKeeps

\* A loop at rest knows nothing.
LEMMA RestingIsBehind == Late!Resting \in Late!Loop /\ Late!IsBehind(Late!Resting)
BY DEF Late!Resting, Late!Loop, Late!IsBehind

\* The group a loop works on is of its page.
LEMMA HereIsOfPage ==
    ASSUME Late!RecoveryInv, NEW p \in Proc, proc[p].pc # "scan"
    PROVE  /\ proc[p] \in Late!Loop /\ Late!Here(p) \in Late!Snap /\ Late!Here(p).b \in Late!Binding /\ Late!Here(p).from \in 0 .. MaxRow
           /\ proc[p].todo # <<>> /\ Tail(proc[p].todo) \in Seq(Late!Snap)
           /\ Late!Here(p).b[1] \in Late!Agent /\ Late!Here(p).b[2] \in 1 .. MaxEpoch
           /\ Late!Here(p).b[2] <= born[Late!Here(p).b[1]]
           /\ Late!IsLive(Late!Here(p).b) => Late!Here(p).from <= read[Late!Here(p).b]
<1>1. proc[p] \in Late!Loop /\ Late!IsBehind(proc[p]) /\ proc[p].todo # <<>>
    BY DEF Late!RecoveryInv, Late!TypeOK, Late!PagesAreBehind, Late!IsBehind
<1>2. proc[p].todo \in Seq(Late!Snap)
    BY <1>1 DEF Late!Loop
<1>3. Late!Here(p) = proc[p].todo[1] /\ 1 \in DOMAIN proc[p].todo /\ Late!Here(p) \in Late!Snap /\ Tail(proc[p].todo) \in Seq(Late!Snap)
    BY <1>1, <1>2 DEF Late!Here
<1>4. Late!Here(p).b \in Late!Binding /\ Late!Here(p).from \in 0 .. MaxRow
    BY <1>3 DEF Late!Snap
<1>5. Late!Here(p).b[1] \in Late!Agent /\ Late!Here(p).b[2] \in 1 .. MaxEpoch
    BY <1>4 DEF Late!Binding
<1> QED BY <1>1, <1>3, <1>4, <1>5 DEF Late!IsBehind

\* The rest of a page is as far behind as the page.
LEMMA LeaveGoesOn ==
    ASSUME Late!RecoveryInv, NEW p \in Proc, proc[p].pc # "scan", Late!Leave(p)
    PROVE  /\ \E l \in Late!Loop : Late!IsBehind(l) /\ proc' = [proc EXCEPT ![p] = l]
           /\ after' \in [Proc -> 0 .. Agents]
<1> DEFINE rest == Tail(proc[p].todo)
           next == [Late!Resting EXCEPT !.pc = "open", !.todo = rest, !.full = proc[p].full]
<1>1. /\ proc[p] \in Late!Loop /\ rest \in Seq(Late!Snap) /\ Late!Here(p).b[1] \in 0 .. Agents
      /\ proc[p].todo # <<>> /\ proc[p].todo \in Seq(Late!Snap)
    BY HereIsOfPage, RecoveryAssumption DEF Late!Agent, Late!Loop
<1>2. after' \in [Proc -> 0 .. Agents]
    BY <1>1, RecoveryAssumption DEF Late!Leave, Late!RecoveryInv, Late!TypeOK
<1>3. CASE rest # <<>> /\ proc' = [proc EXCEPT ![p] = next]
  <2>1. next \in Late!Loop /\ next.pc = "open" /\ next.todo = rest
    BY <1>1 DEF Late!Loop, Late!Resting
  <2>2. Late!IsBehind(proc[p])
    BY DEF Late!RecoveryInv, Late!PagesAreBehind
  <2>3. \A k \in DOMAIN rest : k + 1 \in DOMAIN proc[p].todo /\ rest[k] = proc[p].todo[k + 1]
    BY <1>1
  <2>4. Late!IsBehind(next)
    <3>1. ASSUME NEW k \in DOMAIN rest
          PROVE  LET s == rest[k] IN s.b[2] <= born[s.b[1]] /\ (Late!IsLive(s.b) => s.from <= read[s.b])
        BY <2>2, <2>3 DEF Late!IsBehind
    <3> HIDE DEF next, rest
    <3> QED BY <1>3, <2>1, <3>1 DEF Late!IsBehind
  <2> QED BY <1>2, <1>3, <2>1, <2>4
<1>4. CASE proc' = [proc EXCEPT ![p] = Late!Resting]
    BY <1>2, <1>4, RestingIsBehind
<1> QED BY <1>3, <1>4 DEF Late!Leave

\* A page is of bindings as they are.
LEMMA SnapshotIsNow ==
    ASSUME Late!RecoveryInv, NEW a \in Late!Agent, live[a] # 0
    PROVE  LET s == Late!Snapshot(a) IN
           s \in Late!Snap /\ s.b[2] <= born[s.b[1]] /\ s.from <= read[s.b]
<1> DEFINE b == <<a, live[a]>>
<1>1. live[a] \in 1 .. MaxEpoch /\ born[a] \in Nat /\ live[a] <= born[a]
    BY RecoveryAssumption DEF Late!RecoveryInv, Late!TypeOK, Late!EpochsGrow
<1>2. b \in Late!Binding /\ b[1] = a /\ b[2] = live[a]
    BY <1>1 DEF Late!Binding
<1>3. read[b] \in 0 .. MaxRow /\ flag[b] \in SUBSET Late!Seq_
    BY <1>2 DEF Late!RecoveryInv, Late!TypeOK
<1>4. Late!Snapshot(a) = [b |-> b, from |-> read[b], media |-> waiting[b] # <<>>, pubs |-> flag[b]]
    BY DEF Late!Snapshot
<1> HIDE DEF b
<1>5. Late!Snapshot(a) \in Late!Snap /\ Late!Snapshot(a).b = b /\ Late!Snapshot(a).from = read[b]
    BY <1>2, <1>3, <1>4 DEF Late!Snap
<1> QED BY <1>1, <1>2, <1>3, <1>5

LEMMA ReadPageKeeps ==
    ASSUME Late!RecoveryInv, NEW p \in Proc, Late!ReadPage(p)
    PROVE  Late!RecoveryInv'
<1> DEFINE as == Late!NextAgents(p)
           page == [k \in 1 .. Cardinality(as) |-> Late!Snapshot(Late!Nth(as, k))]
           l == [Late!Resting EXCEPT !.pc = "open", !.full = Cardinality(as) = Page, !.todo = page]
<1>1. /\ UNCHANGED <<Late!durable, Late!guest, Late!epochs, told, idle>>
      /\ idle \in [Proc -> [Late!Binding -> {"no", "fresh", "old"}]] /\ after \in [Proc -> 0 .. Agents]
      /\ proc \in [Proc -> Late!Loop]
    BY DEF Late!ReadPage, Late!RecoveryInv, Late!TypeOK
<1>2. CASE as = {}
  <2>1. proc' = [proc EXCEPT ![p] = proc[p]] /\ after' = [after EXCEPT ![p] = 0] /\ Late!IsBehind(proc[p])
    BY <1>1, <1>2 DEF Late!ReadPage, Late!RecoveryInv, Late!PagesAreBehind
  <2>2. after' \in [Proc -> 0 .. Agents] /\ proc[p] \in Late!Loop
    BY <1>1, <2>1, RecoveryAssumption
  <2> QED BY <1>1, <2>1, <2>2, QuietLoopKeeps
<1>3. CASE as # {}
  <2>1. proc' = [proc EXCEPT ![p] = l] /\ after' = after
    BY <1>3, LateCounts DEF Late!ReadPage
  <2>2. as \in SUBSET (1 .. Agents) /\ Agents \in Nat /\ \A a \in as : a \in Late!Agent /\ live[a] # 0
    BY RecoveryAssumption DEF Late!NextAgents, Late!Agent
  <2> HIDE DEF as
  <2>3. Cardinality(as) \in Nat /\ \A k \in 1 .. Cardinality(as) : Late!Nth(as, k) \in as
    BY <2>2, Ranks, NthIsMember
  <2>4. \A k \in 1 .. Cardinality(as) :
           page[k] \in Late!Snap /\ page[k].b[2] <= born[page[k].b[1]] /\ page[k].from <= read[page[k].b]
    BY <2>2, <2>3, SnapshotIsNow
  <2>5. page \in Seq(Late!Snap) /\ Len(page) = Cardinality(as) /\ DOMAIN page = 1 .. Cardinality(as)
    <3>1. page = [k \in 1 .. Cardinality(as) |-> page[k]] /\ \A k \in 1 .. Cardinality(as) : page[k] \in Late!Snap
        BY <2>4
    <3> HIDE DEF page
    <3> QED BY <2>3, <3>1, IsSequence
  <2>6. page # <<>>
    <3>1. Cardinality(as) # 0
      <4>1. IsFiniteSet(as)
        BY <2>2, Ranks
      <4> QED BY <1>3, <4>1, FS_EmptySet
    <3> HIDE DEF page
    <3> QED BY <2>5, <3>1
  <2> HIDE DEF page
  <2>7. l \in Late!Loop /\ l.pc = "open" /\ l.todo = page
    BY <2>5 DEF Late!Loop, Late!Resting
  <2>8. Late!IsBehind(l)
    BY <2>4, <2>5, <2>6, <2>7 DEF Late!IsBehind
  <2> HIDE DEF l
  <2> QED BY <1>1, <2>1, <2>7, <2>8, QuietLoopKeeps
<1> QED BY <1>2, <1>3

\* A loop that goes on in its group.
LEMMA GroupGoesOn ==
    ASSUME Late!RecoveryInv, NEW p \in Proc, proc[p].pc # "scan",
           NEW pc \in {"open", "read", "publish"}, NEW same \in BOOLEAN, NEW pubs \in SUBSET Late!Seq_
    PROVE  LET l == [proc[p] EXCEPT !.pc = pc, !.same = same, !.pubs = pubs] IN
           l \in Late!Loop /\ Late!IsBehind(l)
<1> DEFINE l == [proc[p] EXCEPT !.pc = pc, !.same = same, !.pubs = pubs]
<1>1. proc[p] \in Late!Loop /\ Late!IsBehind(proc[p])
    BY DEF Late!RecoveryInv, Late!TypeOK, Late!PagesAreBehind
<1>2. l \in Late!Loop /\ l.todo = proc[p].todo /\ l.pc = pc
    BY <1>1 DEF Late!Loop
<1> HIDE DEF l
<1>3. Late!IsBehind(l)
    BY <1>1, <1>2 DEF Late!IsBehind
<1> QED BY <1>2, <1>3 DEF l

\* Records with some fields overwritten.
LEMMA Overwrites ==
    ASSUME Late!RecoveryInv, NEW p \in Proc
    PROVE  /\ [proc EXCEPT ![p].pc = "read", ![p].same = TRUE]
              = [proc EXCEPT ![p] = [proc[p] EXCEPT !.pc = "read", !.same = TRUE,
                !.pubs = proc[p].pubs]]
           /\ \A pubs : [proc EXCEPT ![p].pc = "publish", ![p].pubs = pubs]
              = [proc EXCEPT ![p] = [proc[p] EXCEPT !.pc = "publish", !.same = proc[p].same,
                !.pubs = pubs]]
           /\ \A pubs : proc[p].pc = "publish" => [proc EXCEPT ![p].pubs = pubs]
              = [proc EXCEPT ![p] = [proc[p] EXCEPT !.pc = "publish", !.same = proc[p].same,
                !.pubs = pubs]]
BY DEF Late!RecoveryInv, Late!TypeOK, Late!Loop

LEMMA OpenKeeps ==
    ASSUME Late!RecoveryInv, NEW p \in Proc, Late!OpenTranscript(p)
    PROVE  Late!RecoveryInv'
<1>1. /\ UNCHANGED <<Late!durable, Late!guest, Late!epochs, told, idle, after>> /\ proc[p].pc # "scan"
      /\ idle \in [Proc -> [Late!Binding -> {"no", "fresh", "old"}]] /\ after \in [Proc -> 0 .. Agents]
      /\ proc[p].pubs \in SUBSET Late!Seq_
    BY DEF Late!OpenTranscript, Late!RecoveryInv, Late!TypeOK, Late!Loop
<1>2. proc' = [proc EXCEPT ![p] = [proc[p] EXCEPT !.pc = "read", !.same = TRUE, !.pubs = proc[p].pubs]]
    BY Overwrites DEF Late!OpenTranscript
<1> QED BY <1>1, <1>2, GroupGoesOn, QuietLoopKeeps

\* The rows a loop reads follow the cursor of its page.
LEMMA ReadRowsKeeps ==
    ASSUME Late!RecoveryInv, NEW p \in Proc, Late!ReadRows(p)
    PROVE  Late!RecoveryInv'
<1> DEFINE s == Late!Here(p)
           end == IF Len(log[s.b]) < s.from + Rows THEN Len(log[s.b]) ELSE s.from + Rows
           l == [proc[p] EXCEPT !.pc = "record", !.rows = (s.from + 1) .. end]
<1>1. /\ UNCHANGED <<Late!durable, Late!guest, Late!epochs, told>> /\ proc[p].pc # "scan"
      /\ idle \in [Proc -> [Late!Binding -> {"no", "fresh", "old"}]] /\ after \in [Proc -> 0 .. Agents]
      /\ proc \in [Proc -> Late!Loop] /\ Late!IsBehind(proc[p])
    BY DEF Late!ReadRows, Late!RecoveryInv, Late!TypeOK, Late!PagesAreBehind
<1>2. CASE Late!Leave(p) /\ UNCHANGED idle
    BY <1>1, <1>2, LeaveGoesOn, QuietLoopKeeps
<1>3. CASE /\ idle' = [idle EXCEPT ![p][s.b] = "no"] /\ UNCHANGED after
           /\ proc' = [proc EXCEPT ![p].pc = "record", ![p].rows = (s.from + 1) .. end]
  <2>1. s.b \in Late!Binding /\ s.from \in 0 .. MaxRow /\ proc[p].todo # <<>>
    BY <1>1, HereIsOfPage
  <2>2. Len(log[s.b]) \in 0 .. MaxRow
    BY <2>1 DEF Late!RecoveryInv, Late!TypeOK, Late!RowsExist
  <2>3. end \in 0 .. Len(log[s.b]) /\ (s.from + 1) .. end \in SUBSET Late!Seq_
    <3> DEFINE len == Len(log[s.b])
    <3>1. MaxRow \in Nat /\ Rows \in Nat /\ s.from \in Nat /\ len \in Nat /\ len <= MaxRow
        BY <2>1, <2>2, RecoveryAssumption
    <3> HIDE DEF len, s
    <3> QED BY <3>1 DEF Late!Seq_, len
  <2>4. idle' \in [Proc -> [Late!Binding -> {"no", "fresh", "old"}]]
    BY <1>1, <1>3, <2>1
  <2> HIDE DEF end, s
  <2>5. l \in Late!Loop /\ l.todo = proc[p].todo /\ l.pc = "record" /\ l.rows = (s.from + 1) .. end
    BY <1>1, <2>3 DEF Late!Loop
  <2>6. proc' = [proc EXCEPT ![p] = l]
    BY <1>1, <1>3 DEF Late!Loop
  <2> HIDE DEF l
  <2>7. Late!IsBehind(l)
    BY <1>1, <2>1, <2>3, <2>5 DEF Late!IsBehind, s, Late!Here
  <2> QED BY <1>1, <1>3, <2>4, <2>5, <2>6, <2>7, QuietLoopKeeps
<1> QED BY <1>2, <1>3 DEF Late!ReadRows

LEMMA LeavesKeep ==
    ASSUME Late!RecoveryInv, NEW p \in Proc, Late!ReadFails(p) \/ Late!Refused(p) \/ Late!EndGroup(p)
    PROVE  Late!RecoveryInv'
<1>1. idle \in [Proc -> [Late!Binding -> {"no", "fresh", "old"}]] /\ Late!Leave(p)
    BY DEF Late!ReadFails, Late!Refused, Late!EndGroup, Late!RecoveryInv, Late!TypeOK
<1>2. UNCHANGED <<Late!durable, Late!guest, Late!epochs, told>> /\ proc[p].pc # "scan"
    BY DEF Late!ReadFails, Late!Refused, Late!EndGroup, Late!ToAuthorize, Late!ToRecord
<1>3. idle' \in [Proc -> [Late!Binding -> {"no", "fresh", "old"}]]
    BY <1>1, <1>2, HereIsOfPage DEF Late!ReadFails, Late!Refused, Late!EndGroup
<1> QED BY <1>1, <1>2, <1>3, LeaveGoesOn, QuietLoopKeeps

LEMMA SkipsKeep ==
    ASSUME Late!RecoveryInv, NEW p \in Proc, Late!SkipRecord(p) \/ Late!SkipPublish(p)
    PROVE  Late!RecoveryInv'
<1>1. /\ UNCHANGED <<Late!durable, Late!guest, Late!epochs, told, idle, after>> /\ proc[p].pc # "scan"
      /\ idle \in [Proc -> [Late!Binding -> {"no", "fresh", "old"}]] /\ after \in [Proc -> 0 .. Agents]
      /\ proc[p].same \in BOOLEAN
    BY DEF Late!SkipRecord, Late!SkipPublish, Late!RecoveryInv, Late!TypeOK, Late!Loop
<1>2. PICK pubs \in SUBSET Late!Seq_ :
         proc' = [proc EXCEPT ![p] = [proc[p] EXCEPT !.pc = "publish", !.same = proc[p].same,
           !.pubs = pubs]]
  <2>1. Late!Here(p).pubs \in SUBSET Late!Seq_
    BY <1>1, HereIsOfPage DEF Late!Snap
  <2>2. CASE Late!SkipRecord(p)
    <3> DEFINE pubs == Late!Here(p).pubs
    <3>1. proc' = [proc EXCEPT ![p].pc = "publish", ![p].pubs = pubs]
        BY <2>2 DEF Late!SkipRecord
    <3> HIDE DEF pubs
    <3>2. proc' = [proc EXCEPT ![p] = [proc[p] EXCEPT !.pc = "publish", !.same = proc[p].same,
                                                       !.pubs = pubs]]
        BY <3>1 DEF Late!RecoveryInv, Late!TypeOK, Late!Loop
    <3> QED BY <2>1, <3>2 DEF pubs
  <2>3. CASE Late!SkipPublish(p)
    <3>1. proc' = [proc EXCEPT ![p].pubs = {}] /\ proc[p].pc = "publish"
        BY <2>3 DEF Late!SkipPublish
    <3>2. proc' = [proc EXCEPT ![p] = [proc[p] EXCEPT !.pc = "publish", !.same = proc[p].same,
                                                       !.pubs = {}]]
        BY <3>1 DEF Late!RecoveryInv, Late!TypeOK, Late!Loop
    <3> QED BY <3>2
  <2> QED BY <2>2, <2>3
<1> QED BY <1>1, <1>2, GroupGoesOn, QuietLoopKeeps

-----------------------------------------------------------------------------
(* What the browsers are told.                                                *)

\* A message sent in its current version, with or without its mark removed.
LEMMA TellingIsCurrent ==
    ASSUME Late!RecoveryInv, NEW b \in Late!Binding, NEW n \in Late!Seq_, UNCHANGED <<chat,
      Late!epochs>>,
           \/ told' = told /\ flag' = flag
           \/ /\ told' = [told EXCEPT ![b] = Late!Shown(b, n)]
              /\ flag' = flag \/ flag' = [flag EXCEPT ![b] = @ \ {n}]
    PROVE  /\ told' \in [Late!Binding -> [Late!Seq_ -> 0 .. 2]] /\ flag' \in [Late!Binding -> SUBSET Late!Seq_]
           /\ Late!ToldIsCurrent'
<1>1. /\ told \in [Late!Binding -> [Late!Seq_ -> 0 .. 2]] /\ chat \in [Late!Binding -> [Late!Seq_ -> 0 .. 2]]
      /\ flag \in [Late!Binding -> SUBSET Late!Seq_] /\ Late!ToldIsCurrent
    BY DEF Late!RecoveryInv, Late!TypeOK, Late!RecoverySafety
<1>2. CASE told' = told /\ flag' = flag
    BY <1>1, <1>2 DEF Late!ToldIsCurrent, Late!IsLive, Late!epochs
<1>3. CASE /\ told' = [told EXCEPT ![b] = Late!Shown(b, n)]
           /\ flag' = flag \/ flag' = [flag EXCEPT ![b] = @ \ {n}]
  <2>1. Late!Shown(b, n) = [told[b] EXCEPT ![n] = IF n \in flag[b] THEN chat[b][n] ELSE told[b][n]]
    BY <1>1 DEF Late!Shown
  <2>2. /\ Late!Shown(b, n) \in [Late!Seq_ -> 0 .. 2] /\ Late!Shown(b,
             n)[n] = IF n \in flag[b] THEN chat[b][n] ELSE told[b][n]
        /\ \A m \in Late!Seq_ : m # n => Late!Shown(b, n)[m] = told[b][m]
    BY <1>1, <2>1
  <2>3. told' \in [Late!Binding -> [Late!Seq_ -> 0 .. 2]] /\ flag' \in [Late!Binding -> SUBSET Late!Seq_]
    BY <1>1, <1>3, <2>2
  <2>4. ASSUME NEW c \in Late!Binding, NEW m \in Late!Seq_, chat[c][m] # 0 /\ m \notin flag'[c],
          Late!IsLive(c)
        PROVE  told'[c][m] = chat[c][m]
    BY <1>1, <1>3, <2>2, <2>4 DEF Late!ToldIsCurrent
  <2>5. Late!ToldIsCurrent'
    BY <2>4 DEF Late!ToldIsCurrent, Late!IsLive, Late!epochs
  <2> QED BY <2>3, <2>5
<1> QED BY <1>2, <1>3

\* The message published next is one of those still to publish.
LEMMA LowestIsMember ==
    ASSUME Late!RecoveryInv, NEW p \in Proc, proc[p].pubs # {}
    PROVE  Late!Lowest(proc[p].pubs) \in proc[p].pubs /\ Late!Lowest(proc[p].pubs) \in Late!Seq_ /\ proc[p].pubs \in SUBSET Late!Seq_
<1> DEFINE ns == proc[p].pubs
<1>1. ns \in SUBSET (1 .. MaxRow) /\ MaxRow \in Nat
    BY RecoveryAssumption DEF Late!RecoveryInv, Late!TypeOK, Late!Loop, Late!Seq_
<1> HIDE DEF ns
<1>2. Cardinality(ns) \in Nat /\ IsFiniteSet(ns)
    BY <1>1, Ranks
<1>3. Cardinality(ns) # 0
    BY <1>2, FS_EmptySet DEF ns
<1>4. 1 \in 1 .. Cardinality(ns)
    BY <1>2, <1>3
<1>5. Late!Nth(ns, 1) \in ns
    BY <1>1, <1>4, NthIsMember
<1> QED BY <1>1, <1>5 DEF Late!Lowest, Late!Seq_, ns

LEMMA PublishKeeps ==
    ASSUME Late!RecoveryInv, NEW p \in Proc, Late!Publish(p)
    PROVE  Late!RecoveryInv'
<1> DEFINE b == Late!Here(p).b
           n == Late!Lowest(proc[p].pubs)
<1>1. /\ proc[p].pc = "publish" /\ proc[p].pubs # {} /\ b \in Late!Binding /\ n \in Late!Seq_ /\ proc[p].pubs \in SUBSET Late!Seq_
      /\ proc[p].same \in BOOLEAN
    BY HereIsOfPage, LowestIsMember DEF Late!Publish, Late!Loop
<1>2. /\ told' = [told EXCEPT ![b] = Late!Shown(b, n)] /\ flag' = [flag EXCEPT ![b] = @ \ {n}]
      /\ UNCHANGED <<read, waiting, chat, Late!guest, Late!epochs, idle, after>>
    BY DEF Late!Publish
<1>3. proc' = [proc EXCEPT ![p] = [proc[p] EXCEPT !.pc = "publish", !.same = proc[p].same,
                                                  !.pubs = proc[p].pubs \ {n}]]
  <2>1. proc' = [proc EXCEPT ![p].pubs = proc[p].pubs \ {n}]
    BY DEF Late!Publish
  <2> HIDE DEF n
  <2> QED BY <1>1, <2>1 DEF Late!RecoveryInv, Late!TypeOK, Late!Loop
<1>4. /\ told' \in [Late!Binding -> [Late!Seq_ -> 0 .. 2]] /\ flag' \in [Late!Binding -> SUBSET Late!Seq_] /\ Late!ToldIsCurrent'
    BY <1>1, <1>2, TellingIsCurrent
<1>5. /\ idle' \in [Proc -> [Late!Binding -> {"no", "fresh", "old"}]] /\ after' \in [Proc -> 0 .. Agents]
    BY <1>2 DEF Late!RecoveryInv, Late!TypeOK
<1>6. proc[p].pubs \ {n} \in SUBSET Late!Seq_
    BY <1>1
<1> HIDE DEF b, n
<1> QED BY <1>1, <1>2, <1>3, <1>4, <1>5, <1>6, GroupGoesOn, LoopKeeps

\* A scan that fails may have told what it was about to.
LEMMA MaybeToldIsCurrent ==
    ASSUME Late!RecoveryInv, NEW p \in Proc, Late!MaybeTold(p), UNCHANGED <<Late!durable, Late!epochs>>
    PROVE  /\ told' \in [Late!Binding -> [Late!Seq_ -> 0 .. 2]] /\ flag' \in [Late!Binding -> SUBSET Late!Seq_]
           /\ Late!ToldIsCurrent'
<1>1. chat' = chat /\ flag' = flag
    BY DEF Late!durable
<1>2. CASE told' = told
    BY <1>1, <1>2
       DEF Late!RecoveryInv, Late!TypeOK, Late!RecoverySafety, Late!ToldIsCurrent, Late!IsLive,
           Late!epochs
<1>3. CASE told' # told
  <2>1. /\ proc[p].pc = "publish" /\ proc[p].pubs # {}
        /\ told' = [told EXCEPT ![Late!Here(p).b] = Late!Shown(Late!Here(p).b,
             Late!Lowest(proc[p].pubs))]
    BY <1>3 DEF Late!MaybeTold
  <2>2. Late!Here(p).b \in Late!Binding /\ Late!Lowest(proc[p].pubs) \in Late!Seq_
    BY <2>1, HereIsOfPage, LowestIsMember
  <2> QED BY <1>1, <2>1, <2>2, TellingIsCurrent
<1> QED BY <1>2, <1>3

LEMMA FailuresKeep ==
    ASSUME Late!RecoveryInv, NEW p \in Proc, Late!ScanFails(p) \/ Late!Crash(p) \/ Late!Expired(p)
    PROVE  Late!RecoveryInv'
<1>1. /\ proc' = [proc EXCEPT ![p] = Late!Resting] /\ UNCHANGED <<Late!durable, Late!guest,
           Late!epochs>>
      /\ Late!MaybeTold(p)
    BY DEF Late!ScanFails, Late!Crash, Late!Expired, Late!MaybeTold
<1>2. idle' \in [Proc -> [Late!Binding -> {"no", "fresh", "old"}]] /\ after' \in [Proc -> 0 .. Agents]
  <2>1. /\ idle \in [Proc -> [Late!Binding -> {"no", "fresh", "old"}]] /\ after \in [Proc -> 0 .. Agents]
        /\ 0 \in 0 .. Agents
    BY RecoveryAssumption DEF Late!RecoveryInv, Late!TypeOK
  <2>2. CASE UNCHANGED <<idle, after>>
    BY <2>1, <2>2
  <2>3. CASE Late!Crash(p)
    BY <2>1, <2>3 DEF Late!Crash
  <2> QED BY <2>2, <2>3 DEF Late!ScanFails, Late!Expired
<1>3. UNCHANGED <<read, waiting, chat, Late!guest, Late!epochs>>
    BY <1>1 DEF Late!durable
<1> QED BY <1>1, <1>2, <1>3, MaybeToldIsCurrent, RestingIsBehind, LoopKeeps

LEMMA BackstopKeeps ==
    ASSUME Late!RecoveryInv, NEW p \in Proc, NEW b \in Late!Binding, Late!BackstopDue(p, b)
    PROVE  Late!RecoveryInv'
<1>1. UNCHANGED <<Late!durable, Late!guest, Late!epochs, told, after,
        proc>> /\ proc[p] \in Late!Loop /\ Late!IsBehind(proc[p])
    BY DEF Late!BackstopDue, Late!RecoveryInv, Late!TypeOK, Late!PagesAreBehind
<1>2. idle' \in [Proc -> [Late!Binding -> {"no", "fresh", "old"}]] /\ after' \in [Proc -> 0 .. Agents]
    BY DEF Late!BackstopDue, Late!RecoveryInv, Late!TypeOK
<1>3. proc' = [proc EXCEPT ![p] = proc[p]]
    BY <1>1 DEF Late!RecoveryInv, Late!TypeOK
<1> QED BY <1>1, <1>2, <1>3, QuietLoopKeeps

-----------------------------------------------------------------------------
(* What a page records.                                                       *)

\* Members of a sequence.
In(n, s) == \E k \in DOMAIN s : s[k] = n

LEMMA InConcat ==
    ASSUME NEW S, NEW s \in Seq(S), NEW t \in Seq(S)
    PROVE  s \o t \in Seq(S) /\ \A n : In(n, s \o t) <=> In(n, s) \/ In(n, t)
<1>1. /\ s \o t \in Seq(S) /\ Len(s \o t) = Len(s) + Len(t) /\ Len(s) \in Nat /\ Len(t) \in Nat
      /\ DOMAIN s = 1 .. Len(s) /\ DOMAIN t = 1 .. Len(t) /\ DOMAIN (s \o t) = 1 .. Len(s) + Len(t)
      /\ \A k \in 1 .. Len(s) : (s \o t)[k] = s[k]
      /\ \A k \in 1 .. Len(t) : (s \o t)[Len(s) + k] = t[k]
    OBVIOUS
<1> DEFINE u == s \o t
<1> HIDE DEF u
<1>3. ASSUME NEW n, In(n, u) PROVE In(n, s) \/ In(n, t)
  <2>1. PICK k \in 1 .. Len(s) + Len(t) : u[k] = n
    BY <1>1, <1>3 DEF In, u
  <2>2. CASE k <= Len(s)
    BY <1>1, <2>1, <2>2 DEF In, u
  <2>3. CASE k > Len(s)
    <3>1. k - Len(s) \in 1 .. Len(t) /\ Len(s) + (k - Len(s)) = k
        BY <1>1, <2>1, <2>3
    <3> QED BY <1>1, <2>1, <3>1 DEF In, u
  <2> QED BY <1>1, <2>1, <2>2, <2>3
<1>4. ASSUME NEW n, In(n, s) PROVE In(n, u)
  <2>1. PICK k \in 1 .. Len(s) : s[k] = n
    BY <1>1, <1>4 DEF In
  <2>2. k \in 1 .. Len(s) + Len(t) /\ u[k] = n
    BY <1>1, <2>1 DEF u
  <2> QED BY <1>1, <2>2 DEF In, u
<1>5. ASSUME NEW n, In(n, t) PROVE In(n, u)
  <2>1. PICK k \in 1 .. Len(t) : t[k] = n
    BY <1>1, <1>5 DEF In
  <2>2. Len(s) + k \in 1 .. Len(s) + Len(t) /\ u[Len(s) + k] = n
    BY <1>1, <2>1 DEF u
  <2> QED BY <1>1, <2>2 DEF In, u
<1> QED BY <1>1, <1>3, <1>4, <1>5 DEF u

\* The receipts after a page: those not looked at, those looked at in vain, and
\* the new ones without their file.
Kept(w, K) == [k \in 1 .. Cardinality(K) |-> w[Late!Nth(K, k)]]
Rest(w, t, K, M) == SubSeq(w, t + 1, Len(w)) \o Kept(w, K) \o Late!InOrder(M)

LEMMA Rewait ==
    ASSUME NEW w \in Seq(Late!Seq_), NEW t \in 0 .. Len(w), NEW K \in SUBSET (1 .. t),
           NEW M \in SUBSET Late!Seq_
    PROVE  /\ Rest(w, t, K, M) \in Seq(Late!Seq_)
           /\ \A n : In(n, Rest(w, t, K, M)) <=> n \in M \/ \E k \in ((t + 1) .. Len(w)) \cup K : w[k] = n
<1> DEFINE x == SubSeq(w, t + 1, Len(w))
           y == Kept(w, K)
           z == Late!InOrder(M)
<1>0. Len(w) \in Nat /\ t \in Nat /\ t <= Len(w) /\ DOMAIN w = 1 .. Len(w) /\ \A k \in 1 .. Len(w) : w[k] \in Late!Seq_
    OBVIOUS
<1>1. x \in Seq(Late!Seq_) /\ \A n : In(n, x) <=> \E k \in (t + 1) .. Len(w) : w[k] = n
  <2>1. /\ x \in Seq(Late!Seq_) /\ Len(x) = Len(w) - t /\ DOMAIN x = 1 .. Len(w) - t
        /\ \A k \in 1 .. Len(w) - t : x[k] = w[t + k]
    <3>1. t + 1 \in Int /\ Len(w) \in Int /\ \A k \in (t + 1) .. Len(w) : w[k] \in Late!Seq_
        BY <1>0
    <3>2. /\ x \in Seq(Late!Seq_) /\ Len(x) = (IF t + 1 <= Len(w) THEN Len(w) - (t + 1) + 1 ELSE 0)
          /\ \A k \in 1 .. Len(w) - (t + 1) + 1 : x[k] = w[(t + 1) + k - 1]
        BY <3>1, SubSeqProperties
    <3> HIDE DEF x
    <3>3. Len(x) = Len(w) - t /\ Len(w) - (t + 1) + 1 = Len(w) - t /\ \A k \in Int : (t + 1) + k - 1 = t + k
      <4> DEFINE n == Len(w)
      <4>1. n \in Nat /\ t \in Nat /\ t <= n
        BY <1>0
      <4> HIDE DEF n
      <4>2. Len(x) = n - t /\ n - (t + 1) + 1 = n - t /\ \A k \in Int : (t + 1) + k - 1 = t + k
        BY <3>2, <4>1 DEF n
      <4> QED BY <4>2 DEF n
    <3> QED BY <3>2, <3>3
  <2> HIDE DEF x
  <2>2. ASSUME NEW n, In(n, x) PROVE \E k \in (t + 1) .. Len(w) : w[k] = n
    <3>1. PICK k \in 1 .. Len(w) - t : w[t + k] = n
        BY <2>1, <2>2 DEF In
    <3>2. t + k \in (t + 1) .. Len(w)
        BY <1>0
    <3> QED BY <3>1, <3>2
  <2>3. ASSUME NEW k \in (t + 1) .. Len(w) PROVE In(w[k], x)
    <3>1. k - t \in 1 .. Len(w) - t /\ t + (k - t) = k
        BY <1>0
    <3> QED BY <2>1, <3>1 DEF In
  <2> QED BY <2>1, <2>2, <2>3
<1>2. y \in Seq(Late!Seq_) /\ \A n : In(n, y) <=> \E k \in K : w[k] = n
  <2>1. Cardinality(K) \in Nat
    BY <1>0, Ranks
  <2>2. \A k \in 1 .. Cardinality(K) : Late!Nth(K, k) \in K
    BY <1>0, NthIsMember
  <2>3. \A k \in K : k \in 1 .. Len(w) /\ w[k] \in Late!Seq_
    BY <1>0
  <2>4. y = [k \in 1 .. Cardinality(K) |-> y[k]] /\ \A k \in 1 .. Cardinality(K) : y[k] = w[Late!Nth(K, k)] /\ y[k] \in Late!Seq_
    BY <2>2, <2>3 DEF Kept
  <2> HIDE DEF y
  <2>5. y \in Seq(Late!Seq_) /\ DOMAIN y = 1 .. Cardinality(K)
    BY <2>1, <2>4, IsSequence
  <2>6. ASSUME NEW k \in K PROVE In(w[k], y)
    <3>1. PICK j \in 1 .. Cardinality(K) : Late!Nth(K, j) = k
        BY <1>0, MemberIsNth
    <3> QED BY <2>4, <2>5, <3>1 DEF In
  <2>7. ASSUME NEW n, In(n, y) PROVE \E k \in K : w[k] = n
    BY <2>2, <2>4, <2>5, <2>7 DEF In
  <2> QED BY <2>5, <2>6, <2>7
<1>3. z \in Seq(Late!Seq_) /\ \A n : In(n, z) <=> n \in M
  <2>1. Cardinality(M) \in Nat /\ MaxRow \in Nat /\ M \in SUBSET (1 .. MaxRow)
    BY Ranks, RecoveryAssumption DEF Late!Seq_
  <2>2. \A k \in 1 .. Cardinality(M) : Late!Nth(M, k) \in M
    BY <2>1, NthIsMember
  <2>3. z = [k \in 1 .. Cardinality(M) |-> z[k]] /\ \A k \in 1 .. Cardinality(M) : z[k] = Late!Nth(M, k) /\ z[k] \in Late!Seq_
    BY <2>2, LateCounts DEF Late!InOrder
  <2> HIDE DEF z
  <2>4. z \in Seq(Late!Seq_) /\ DOMAIN z = 1 .. Cardinality(M)
    BY <2>1, <2>3, IsSequence
  <2>5. ASSUME NEW n \in M PROVE In(n, z)
    <3>1. PICK j \in 1 .. Cardinality(M) : Late!Nth(M, j) = n
        BY <2>1, MemberIsNth
    <3> QED BY <2>3, <2>4, <3>1 DEF In
  <2>6. ASSUME NEW n, In(n, z) PROVE n \in M
    BY <2>2, <2>3, <2>4, <2>6 DEF In
  <2> QED BY <2>4, <2>5, <2>6
<1>4. Rest(w, t, K, M) = x \o y \o z
    BY DEF Rest
<1> HIDE DEF x, y, z
<1>5. \A s, r \in Seq(Late!Seq_) : s \o r \in Seq(Late!Seq_) /\ \A n : In(n, s \o r) <=> In(n,
        s) \/ In(n, r)
    BY InConcat
<1>6. x \o y \in Seq(Late!Seq_) /\ \A n : In(n, x \o y) <=> In(n, x) \/ In(n, y)
    BY <1>1, <1>2, <1>5
<1>7. x \o y \o z \in Seq(Late!Seq_) /\ \A n : In(n, x \o y \o z) <=> In(n, x \o y) \/ In(n, z)
    BY <1>3, <1>5, <1>6
<1> QED BY <1>1, <1>2, <1>3, <1>4, <1>6, <1>7

\* What a page records of a binding: a cursor moved over rows that are all
\* recorded, and receipts for those that still miss their file.
Records(b, k, all, v) ==
    /\ read' = [read EXCEPT ![b] = k] /\ read[b] <= k
    /\ waiting' = [waiting EXCEPT ![b] = v]
    /\ chat' = [chat EXCEPT ![b] = [n \in Late!Seq_ |-> IF n \in all THEN Late!Version(b, n) ELSE @[n]]]
    /\ flag' = [flag EXCEPT ![b] = @ \cup {n \in all : Late!Version(b, n) # chat[b][n]}]
    /\ \A n \in all : log[b][n] # "native"
    /\ \A n \in DOMAIN log[b] : n \in all \/ n <= read[b] \/ n > k \/ log[b][n] = "native"
    /\ \A n : In(n, v) => n \in Late!Waits(b) \/ (n \in all /\ Late!Missing(b, n))
    /\ \A n \in all : Late!Missing(b, n) => In(n, v)
    /\ \A n \in Late!Waits(b) \ all : In(n, v)

LEMMA SaveRecords ==
    ASSUME Late!RecoveryInv, NEW b \in Late!Binding, Late!IsLive(b),
           NEW from \in 0 .. read[b], NEW e \in 0 .. Len(log[b]), Late!Save(b, (from + 1) .. e)
    PROVE  \E k \in 0 .. Len(log[b]), all \in SUBSET (DOMAIN log[b]),
             v \in Seq(Late!Seq_) : Records(b, k, all, v)
<1> DEFINE noticed == (from + 1) .. e
           c == read[b]
           w == waiting[b]
           len == Len(log[b])
           k == IF e > c THEN e ELSE c
           new == {n \in noticed : n > c /\ log[b][n] # "native"}
           took == IF Len(w) < Receipts THEN Len(w) ELSE Receipts
           all == new \cup {w[i] : i \in 1 .. took}
           kept == {i \in 1 .. took : Late!Missing(b, w[i])}
           fresh == {n \in new : Late!Missing(b, n)}
           v == SubSeq(w, took + 1, Len(w)) \o [i \in 1 .. Cardinality(kept) |-> w[Late!Nth(kept,
             i)]] \o Late!InOrder(fresh)
<1>1. /\ c \in Nat /\ len \in 0 .. MaxRow /\ c <= len /\ e \in Nat /\ e <= len /\ from \in Nat /\ from <= c
      /\ w \in Seq(Late!Seq_) /\ DOMAIN log[b] = 1 .. len /\ MaxRow \in Nat
    BY RecoveryAssumption DEF Late!RecoveryInv, Late!TypeOK, Late!RowsExist
<1>2. /\ chat' = [chat EXCEPT ![b] = [n \in Late!Seq_ |-> IF n \in all THEN Late!Version(b,
           n) ELSE @[n]]]
      /\ waiting' = [waiting EXCEPT ![b] = v]
      /\ flag' = [flag EXCEPT ![b] = @ \cup {n \in all : Late!Version(b, n) # chat[b][n]}]
      /\ read' = [read EXCEPT ![b] = Cardinality(noticed \cup (1 .. c))]
    BY LateCounts DEF Late!Save
<1>3. Len(w) \in Nat /\ took \in 0 .. Len(w) /\ DOMAIN w = 1 .. Len(w)
    BY <1>1, RecoveryAssumption
<1>4. \A i \in 1 .. Len(w) : w[i] \in Late!Waits(b) /\ w[i] \in 1 .. len /\ log[b][w[i]] \in {"media", "file"}
    BY <1>1, <1>3 DEF Late!Waits, Late!RecoveryInv, Late!RowsExist
<1>5. \A n : n \in Late!Waits(b) <=> \E i \in 1 .. Len(w) : w[i] = n
    BY <1>3 DEF Late!Waits
<1>6. new \in SUBSET (1 .. len) /\ fresh \in SUBSET Late!Seq_
    BY <1>1 DEF Late!Seq_
<1>7. all \in SUBSET (DOMAIN log[b]) /\ \A n \in all : log[b][n] # "native"
  <2>1. \A i \in 1 .. took : i \in 1 .. Len(w)
    BY <1>3
  <2> QED BY <1>1, <1>4, <1>6, <2>1
<1>8. v \in Seq(Late!Seq_) /\ \A n : In(n, v) <=> n \in fresh \/ \E i \in ((took + 1) .. Len(w)) \cup kept : w[i] = n
  <2>1. kept \in SUBSET (1 .. took)
    OBVIOUS
  <2>2. v = Rest(w, took, kept, fresh) /\ w \in Seq(Late!Seq_)
    BY <1>1 DEF Rest, Kept
  <2>3. took \in 0 .. Len(w) /\ fresh \in SUBSET Late!Seq_
    BY <1>3, <1>6
  <2> HIDE DEF v, kept, fresh, took, w
  <2>4. Rest(w, took, kept, fresh) \in Seq(Late!Seq_)
    BY <2>1, <2>2, <2>3, Rewait
  <2>5. \A n : In(n, Rest(w, took, kept, fresh)) <=>
               n \in fresh \/ \E i \in ((took + 1) .. Len(w)) \cup kept : w[i] = n
    BY <2>1, <2>2, <2>3, Rewait
  <2> QED BY <2>2, <2>4, <2>5
<1>9. noticed \cup (1 .. c) = 1 .. k /\ k \in 0 .. len /\ c <= k
  <2>1. \A n \in Int : n \in noticed \cup (1 .. c) <=> n \in 1 .. k
    BY <1>1
  <2> QED BY <1>1, <2>1
<1>10. read' = [read EXCEPT ![b] = k]
  <2>1. Cardinality(1 .. k) = k
    <3>1. k \in Nat
        BY <1>1
    <3> HIDE DEF k
    <3>2. Cardinality(1 .. k) = IF 1 > k THEN 0 ELSE k - 1 + 1
        BY <3>1, FS_Interval
    <3> QED BY <3>1, <3>2
  <2> QED BY <1>2, <1>9, <2>1
<1>11. \A n \in DOMAIN log[b] : n \in all \/ n <= c \/ n > k \/ log[b][n] = "native"
    BY <1>1
<1> HIDE DEF v, k
<1>12. \A n : In(n, v) => n \in Late!Waits(b) \/ (n \in all /\ Late!Missing(b, n))
  <2>1. \A i \in (took + 1) .. Len(w) : i \in 1 .. Len(w)
    BY <1>3
  <2>2. \A i \in kept : w[i] \in all /\ Late!Missing(b, w[i])
    OBVIOUS
  <2>3. \A n \in fresh : n \in all /\ Late!Missing(b, n)
    OBVIOUS
  <2> QED BY <1>5, <1>8, <2>1, <2>2, <2>3
<1>13. \A n \in all : Late!Missing(b, n) => In(n, v)
  <2>1. \A n \in new : Late!Missing(b, n) => n \in fresh
    OBVIOUS
  <2>2. \A i \in 1 .. took : Late!Missing(b, w[i]) => i \in kept
    OBVIOUS
  <2> HIDE DEF new, fresh, kept
  <2> QED BY <1>8, <2>1, <2>2
<1>14. \A n \in Late!Waits(b) \ all : In(n, v)
  <2> SUFFICES ASSUME NEW n \in Late!Waits(b) \ all PROVE In(n, v)
    OBVIOUS
  <2>1. PICK i \in 1 .. Len(w) : w[i] = n
    BY <1>5
  <2>2. ~(i <= took)
    BY <2>1
  <2>3. i \in (took + 1) .. Len(w)
    BY <1>3, <2>2
  <2> QED BY <1>8, <2>1, <2>3
<1>15. Records(b, k, all, v)
    BY <1>2, <1>7, <1>9, <1>10, <1>11, <1>12, <1>13, <1>14 DEF Records
<1> HIDE DEF all
<1> QED BY <1>7, <1>8, <1>9, <1>15

\* What is recorded is what the chat has of it then.
LEMMA RecordTypes ==
    ASSUME Late!RecoveryInv, NEW b \in Late!Binding, NEW k \in 0 .. Len(log[b]),
           NEW all \in SUBSET (DOMAIN log[b]), NEW v \in Seq(Late!Seq_), Records(b, k, all, v)
    PROVE  /\ read' \in [Late!Binding -> 0 .. MaxRow] /\ waiting' \in [Late!Binding -> Seq(Late!Seq_)]
           /\ chat' \in [Late!Binding -> [Late!Seq_ -> 0 .. 2]] /\ flag' \in [Late!Binding -> SUBSET Late!Seq_]
           /\ read'[b] = k /\ waiting'[b] = v
           /\ \A n \in Late!Seq_ : chat'[b][n] = IF n \in all THEN Late!Version(b, n) ELSE chat[b][n]
           /\ flag'[b] = flag[b] \cup {n \in all : Late!Version(b, n) # chat[b][n]}
           /\ \A d \in Late!Binding : d # b =>
                 /\ read'[d] = read[d] /\ waiting'[d] = waiting[d] /\ chat'[d] = chat[d] /\ flag'[d] = flag[d]
           /\ all \in SUBSET Late!Seq_ /\ DOMAIN log[b] \in SUBSET Late!Seq_
<1>1. /\ Len(log[b]) \in 0 .. MaxRow /\ DOMAIN log[b] = 1 .. Len(log[b]) /\ MaxRow \in Nat
      /\ read \in [Late!Binding -> 0 .. MaxRow] /\ waiting \in [Late!Binding -> Seq(Late!Seq_)]
      /\ chat \in [Late!Binding -> [Late!Seq_ -> 0 .. 2]] /\ flag \in [Late!Binding -> SUBSET Late!Seq_]
    BY RecoveryAssumption DEF Late!RecoveryInv, Late!TypeOK, Late!RowsExist
<1>2. all \in SUBSET Late!Seq_ /\ DOMAIN log[b] \in SUBSET Late!Seq_ /\ k \in 0 .. MaxRow
    BY <1>1 DEF Late!Seq_
<1>3. \A n : Late!Version(b, n) \in 0 .. 2
    BY DEF Late!Version
<1>4. read' \in [Late!Binding -> 0 .. MaxRow] /\ waiting' \in [Late!Binding -> Seq(Late!Seq_)] /\ read'[b] = k /\ waiting'[b] = v
    BY <1>1, <1>2 DEF Records
<1> DEFINE g == [n \in Late!Seq_ |-> IF n \in all THEN Late!Version(b, n) ELSE chat[b][n]]
<1>5. g \in [Late!Seq_ -> 0 .. 2]
    BY <1>1, <1>3
<1>6. chat' = [chat EXCEPT ![b] = g]
    BY <1>1 DEF Records
<1>7. chat' \in [Late!Binding -> [Late!Seq_ -> 0 .. 2]] /\ chat'[b] = g
  <2> HIDE DEF g
  <2> QED BY <1>1, <1>5, <1>6
<1>8. flag' \in [Late!Binding -> SUBSET Late!Seq_] /\ flag'[b] = flag[b] \cup {n \in all : Late!Version(b, n) # chat[b][n]}
    BY <1>1, <1>2 DEF Records
<1>9. \A d \in Late!Binding : d # b =>
         read'[d] = read[d] /\ waiting'[d] = waiting[d] /\ chat'[d] = chat[d] /\ flag'[d] = flag[d]
    BY <1>1 DEF Records
<1> QED BY <1>2, <1>4, <1>7, <1>8, <1>9

LEMMA RecordKeepsRows ==
    ASSUME Late!RecoveryInv, NEW b \in Late!Binding, Late!IsLive(b), NEW k \in 0 .. Len(log[b]),
           NEW all \in SUBSET (DOMAIN log[b]), NEW v \in Seq(Late!Seq_), Records(b, k, all, v),
           UNCHANGED <<Late!guest, Late!epochs, told>>
    PROVE  Late!EpochsGrow' /\ Late!RowsExist' /\ Late!CursorIsSafe' /\ Late!ToldIsCurrent' /\ Late!ClearedStaysEmpty'
<1>1. /\ read'[b] = k /\ waiting'[b] = v
      /\ \A n \in Late!Seq_ : chat'[b][n] = IF n \in all THEN Late!Version(b, n) ELSE chat[b][n]
      /\ flag'[b] = flag[b] \cup {n \in all : Late!Version(b, n) # chat[b][n]}
      /\ \A d \in Late!Binding : d # b =>
            /\ read'[d] = read[d] /\ waiting'[d] = waiting[d] /\ chat'[d] = chat[d] /\ flag'[d] = flag[d]
      /\ all \in SUBSET Late!Seq_ /\ DOMAIN log[b] \in SUBSET Late!Seq_
  <2>1. read'[b] = k /\ waiting'[b] = v
    <3>1. read \in [Late!Binding -> 0 .. MaxRow] /\ waiting \in [Late!Binding -> Seq(Late!Seq_)]
        BY DEF Late!RecoveryInv, Late!TypeOK
    <3> QED BY <3>1 DEF Records
  <2>2. \A n \in Late!Seq_ : chat'[b][n] = IF n \in all THEN Late!Version(b, n) ELSE chat[b][n]
    BY RecordTypes
  <2>3. flag'[b] = flag[b] \cup {n \in all : Late!Version(b, n) # chat[b][n]}
    BY RecordTypes
  <2>4. \A d \in Late!Binding : d # b =>
            /\ read'[d] = read[d] /\ waiting'[d] = waiting[d] /\ chat'[d] = chat[d] /\ flag'[d] = flag[d]
    BY RecordTypes
  <2>5. all \in SUBSET Late!Seq_ /\ DOMAIN log[b] \in SUBSET Late!Seq_
    BY RecordTypes
  <2> QED BY <2>1, <2>2, <2>3, <2>4, <2>5
<1>2. UNCHANGED <<log, file, live, born, cleared, told>>
    BY DEF Late!guest, Late!epochs
<1>3. \A d \in Late!Binding : Late!IsLive(d)' <=> Late!IsLive(d)
    BY <1>2 DEF Late!IsLive
<1>4. Len(log[b]) \in Nat /\ DOMAIN log[b] = 1 .. Len(log[b]) /\ born[b[1]] \in Nat /\ b[2] \in Nat
    BY RecoveryAssumption DEF Late!RecoveryInv, Late!TypeOK, Late!Binding
<1>5. \A n : (n \in Late!Waits(b))' <=> In(n, v)
    BY <1>1 DEF Late!Waits, In
<1>6. \A d \in Late!Binding : d # b => Late!Waits(d)' = Late!Waits(d)
    BY <1>1 DEF Late!Waits
<1>7. Late!EpochsGrow'
  <2>1. ~(b[2] > born[b[1]])
    <3>1. b[1] \in Late!Agent /\ b[2] = live[b[1]] /\ b[2] # 0
        BY DEF Late!IsLive, Late!Binding
    <3> QED BY <1>4, <3>1 DEF Late!RecoveryInv, Late!EpochsGrow
  <2>2. \A a \in Late!Agent : live'[a] \in {0, born'[a]}
    BY <1>2 DEF Late!RecoveryInv, Late!EpochsGrow
  <2>3. \A d \in cleared' : d[2] <= born'[d[1]] /\ ~Late!IsLive(d)'
    BY <1>2 DEF Late!RecoveryInv, Late!EpochsGrow, Late!IsLive
  <2>4. ASSUME NEW d \in Late!Binding, d[2] > born'[d[1]]
        PROVE  log'[d] = <<>> /\ read'[d] = 0 /\ waiting'[d] = <<>> /\ \A n \in Late!Seq_ : chat'[d][n] = 0
    <3>1. d # b /\ d[2] > born[d[1]]
        BY <1>2, <2>1, <2>4
    <3> QED BY <1>1, <1>2, <3>1 DEF Late!RecoveryInv, Late!EpochsGrow
  <2> QED BY <2>2, <2>3, <2>4 DEF Late!EpochsGrow
<1>8. Late!RowsExist'
  <2>1. \A n \in Late!Seq_ : n > Len(log[b]) => chat'[b][n] = 0
    BY <1>1, <1>4 DEF Late!RecoveryInv, Late!RowsExist
  <2>2. \A n : In(n, v) => n \in DOMAIN log[b] /\ log[b][n] \in {"media", "file"}
    BY DEF Late!RecoveryInv, Late!RowsExist, Records, Late!Missing
  <2>3. k <= Len(log[b])
    BY <1>4
  <2> QED BY <1>1, <1>2, <1>3, <1>5, <1>6, <2>1, <2>2, <2>3 DEF Late!RecoveryInv, Late!RowsExist
<1>9. Late!CursorIsSafe'
  <2>1. ASSUME NEW n \in DOMAIN log[b], n <= k, log[b][n] = "text" PROVE chat'[b][n] = 1
    <3>1. n \in all \/ chat[b][n] = 1
        BY <2>1 DEF Records, Late!RecoveryInv, Late!RecoverySafety, Late!CursorIsSafe
    <3>2. Late!Version(b, n) = 1
        BY <2>1 DEF Late!Version
    <3> QED BY <1>1, <2>1, <3>1, <3>2
  <2>2. ASSUME NEW n \in DOMAIN log[b], n <= k, log[b][n] \in {"media", "file"}
        PROVE  chat'[b][n] = 2 \/ (In(n, v) /\ (log[b][n] = "media" => chat'[b][n] = 1))
    <3>1. CASE n \in all
      <4>1. chat'[b][n] = Late!Version(b, n)
        BY <1>1, <3>1
      <4>2. Late!Missing(b, n) => In(n, v)
        BY <3>1 DEF Records
      <4> QED BY <2>2, <4>1, <4>2 DEF Late!Version, Late!Missing
    <3>2. CASE n \notin all
      <4>1. chat'[b][n] = chat[b][n] /\ n <= read[b]
        BY <1>1, <2>2, <3>2 DEF Records
      <4>2. n \in Late!Waits(b) => In(n, v)
        BY <3>2 DEF Records
      <4> QED BY <2>2, <4>1, <4>2 DEF Late!RecoveryInv, Late!RecoverySafety, Late!CursorIsSafe
    <3> QED BY <3>1, <3>2
  <2>3. ASSUME NEW n \in DOMAIN log[b], log[b][n] = "native" PROVE chat'[b][n] = 0
    <3>1. n \notin all
        BY <2>3 DEF Records
    <3> QED BY <1>1, <2>3, <3>1 DEF Late!RecoveryInv, Late!RecoverySafety, Late!CursorIsSafe
  <2>4. ASSUME NEW d \in Late!Binding, d # b, Late!IsLive(d), NEW n \in DOMAIN log[d]
        PROVE /\ n <= read'[d] /\ log[d][n] = "text" => chat'[d][n] = 1
              /\ n <= read'[d] /\ log[d][n] \in {"media", "file"} =>
                    chat'[d][n] = 2 \/ ((n \in Late!Waits(d))' /\ (log[d][n] = "media" => chat'[d][n] = 1))
              /\ log[d][n] = "native" => chat'[d][n] = 0
    BY <1>1, <1>6, <2>4 DEF Late!RecoveryInv, Late!RecoverySafety, Late!CursorIsSafe
  <2>5. ASSUME NEW d \in Late!Binding, Late!IsLive(d), NEW n \in DOMAIN log[d]
        PROVE /\ n <= read'[d] /\ log[d][n] = "text" => chat'[d][n] = 1
              /\ n <= read'[d] /\ log[d][n] \in {"media", "file"} =>
                    chat'[d][n] = 2 \/ ((n \in Late!Waits(d))' /\ (log[d][n] = "media" => chat'[d][n] = 1))
              /\ log[d][n] = "native" => chat'[d][n] = 0
    <3>1. CASE d # b
        BY <2>4, <2>5, <3>1
    <3>2. CASE d = b
        BY <1>1, <1>5, <2>1, <2>2, <2>3, <2>5, <3>2
    <3> QED BY <3>1, <3>2
  <2> QED BY <1>2, <1>3, <2>5 DEF Late!CursorIsSafe
<1>10. Late!ToldIsCurrent'
  <2>1. ASSUME NEW n \in Late!Seq_, chat'[b][n] # 0, n \notin flag'[b] PROVE told[b][n] = chat'[b][n]
    <3>1. chat'[b][n] = chat[b][n] /\ n \notin flag[b]
        BY <1>1, <2>1
    <3> QED BY <2>1, <3>1 DEF Late!RecoveryInv, Late!RecoverySafety, Late!ToldIsCurrent
  <2> QED BY <1>1, <1>2, <1>3, <2>1 DEF Late!RecoveryInv, Late!RecoverySafety, Late!ToldIsCurrent
<1>11. Late!ClearedStaysEmpty'
  <2>1. b \notin cleared /\ cleared \subseteq Late!Binding
    BY DEF Late!RecoveryInv, Late!EpochsGrow, Late!TypeOK
  <2> QED BY <1>1, <1>2, <2>1 DEF Late!RecoveryInv, Late!RecoverySafety, Late!ClearedStaysEmpty
<1> QED BY <1>7, <1>8, <1>9, <1>10, <1>11

\* A page records the binding it is of, while that lives.
LEMMA PageRecords ==
    ASSUME Late!RecoveryInv, NEW p \in Proc, Late!RecordPage(p)
    PROVE  LET b == Late!Here(p).b IN
           /\ b \in Late!Binding /\ Late!IsLive(b) /\ allowed[b[1]] = "yes"
           /\ \E k \in 0 .. Len(log[b]), all \in SUBSET (DOMAIN log[b]),
                 v \in Seq(Late!Seq_) : Records(b, k, all, v)
<1> DEFINE b == Late!Here(p).b
<1>1. /\ proc[p].pc = "record" /\ Late!IsLive(b) /\ allowed[b[1]] = "yes"
      /\ Late!Save(b, proc[p].rows)
    BY DEF Late!RecordPage, Late!ToRecord, Late!Authorized
<1>2. /\ b \in Late!Binding /\ Late!Here(p).from \in 0 .. MaxRow /\ Late!Here(p).from <= read[b]
      /\ proc[p].todo # <<>> /\ Late!Here(p) = Head(proc[p].todo)
    BY <1>1, HereIsOfPage DEF Late!Here
<1>3. PICK e \in 0 .. Len(log[b]) : proc[p].rows = (Late!Here(p).from + 1) .. e
    BY <1>1, <1>2 DEF Late!RecoveryInv, Late!PagesAreBehind, Late!IsBehind
<1>4. Late!Here(p).from \in 0 .. read[b]
    BY <1>2, RecoveryAssumption DEF Late!RecoveryInv, Late!TypeOK
<1>5. Late!Save(b, (Late!Here(p).from + 1) .. e)
    BY <1>1, <1>3
<1> HIDE DEF b
<1>6. \E k \in 0 .. Len(log[b]), all \in SUBSET (DOMAIN log[b]), v \in Seq(Late!Seq_) : Records(b, k, all, v)
    BY <1>1, <1>2, <1>4, <1>5, SaveRecords
<1> QED BY <1>1, <1>2, <1>6 DEF b

LEMMA RecordKeeps ==
    ASSUME Late!RecoveryInv, NEW p \in Proc, Late!RecordPage(p)
    PROVE  Late!RecoveryInv'
<1> DEFINE b == Late!Here(p).b
           pubs == IF chat' # chat THEN flag'[b] ELSE Late!Here(p).pubs
<1>1. /\ proc[p].pc = "record" /\ Late!IsLive(b) /\ Late!Save(b, proc[p].rows)
      /\ UNCHANGED <<Late!guest, Late!epochs, told, idle, after>>
      /\ proc' = [proc EXCEPT ![p].pc = "publish", ![p].pubs = pubs]
    BY DEF Late!RecordPage, Late!ToRecord, Late!Authorized
<1>2. /\ b \in Late!Binding /\ Late!Here(p).from \in 0 .. MaxRow /\ Late!Here(p).from <= read[b] /\ Late!Here(p) \in Late!Snap
      /\ proc[p].todo # <<>> /\ Late!Here(p) = Head(proc[p].todo) /\ b[2] <= born[b[1]]
    BY <1>1, HereIsOfPage DEF Late!Here
<1>5. PICK k \in 0 .. Len(log[b]), all \in SUBSET (DOMAIN log[b]),
        v \in Seq(Late!Seq_) : Records(b, k, all, v)
    BY PageRecords
<1>6. /\ read' \in [Late!Binding -> 0 .. MaxRow] /\ waiting' \in [Late!Binding -> Seq(Late!Seq_)]
      /\ chat' \in [Late!Binding -> [Late!Seq_ -> 0 .. 2]] /\ flag' \in [Late!Binding -> SUBSET Late!Seq_]
      /\ read'[b] = k /\ \A d \in Late!Binding : d # b => read'[d] = read[d]
  <2> HIDE DEF b, pubs
  <2>1. b \in Late!Binding /\ Records(b, k, all, v)
    BY <1>2, <1>5
  <2>2. /\ read' \in [Late!Binding -> 0 .. MaxRow] /\ waiting' \in [Late!Binding -> Seq(Late!Seq_)]
        /\ chat' \in [Late!Binding -> [Late!Seq_ -> 0 .. 2]] /\ flag' \in [Late!Binding -> SUBSET Late!Seq_]
    BY <2>1, RecordTypes
  <2>3. read'[b] = k /\ \A d \in Late!Binding : d # b => read'[d] = read[d]
    BY <2>1 DEF Records, Late!RecoveryInv, Late!TypeOK
  <2> QED BY <2>2, <2>3
<1>7. Late!EpochsGrow' /\ Late!RowsExist' /\ Late!CursorIsSafe' /\ Late!ToldIsCurrent' /\ Late!ClearedStaysEmpty'
    BY <1>1, <1>2, <1>5, RecordKeepsRows
<1>8. pubs \in SUBSET Late!Seq_ /\ proc[p].same \in BOOLEAN /\ proc \in [Proc -> Late!Loop]
    BY <1>2, <1>6 DEF Late!Snap, Late!RecoveryInv, Late!TypeOK, Late!Loop
<1> HIDE DEF b, pubs
<1> DEFINE l == [proc[p] EXCEPT !.pc = "publish", !.same = proc[p].same, !.pubs = pubs]
<1>9. proc' = [proc EXCEPT ![p] = l] /\ l \in Late!Loop /\ Late!IsBehind(l)
  <2>1. proc' = [proc EXCEPT ![p] = l]
    BY <1>1, <1>8 DEF Late!Loop
  <2> QED BY <1>1, <1>8, <2>1, GroupGoesOn
<1> HIDE DEF l
<1>10. Late!TypeOK'
  <2>1. proc' \in [Proc -> Late!Loop]
    BY <1>8, <1>9
  <2> QED BY <1>1, <1>6, <2>1 DEF Late!RecoveryInv, Late!TypeOK, Late!guest, Late!epochs
<1>11. ASSUME NEW q \in Proc PROVE Late!IsBehind(proc[q])'
  <2>1. PICK m \in Late!Loop : m = proc'[q] /\ Late!IsBehind(m)
    BY <1>8, <1>9 DEF Late!RecoveryInv, Late!PagesAreBehind
  <2>2. read[b] <= read'[b]
    BY <1>5, <1>6 DEF Records
  <2>3. \A i \in DOMAIN m.todo : m.todo[i].b \in Late!Binding /\ m.todo[i].from \in 0 .. MaxRow
    <3>1. m.todo \in Seq(Late!Snap)
        BY DEF Late!Loop
    <3>2. \A i \in DOMAIN m.todo : m.todo[i] \in Late!Snap
        BY <3>1
    <3> QED BY <3>2 DEF Late!Snap
  <2>4. read \in [Late!Binding -> 0 .. MaxRow]
    BY DEF Late!RecoveryInv, Late!TypeOK
  <2>5. \A d \in Late!Binding, f \in 0 .. MaxRow : f <= read[d] => f <= read'[d]
    <3> SUFFICES ASSUME NEW d \in Late!Binding, NEW f \in 0 .. MaxRow, f <= read[d] PROVE f <= read'[d]
        OBVIOUS
    <3>1. read[d] \in Int /\ read'[d] \in Int /\ f \in Int
        BY <1>6, <2>4, RecoveryAssumption
    <3>2. read[d] <= read'[d]
        BY <1>6, <2>2, <3>1
    <3> QED BY <3>1, <3>2
  <2>6. UNCHANGED <<log, born, live>>
    BY <1>1 DEF Late!guest, Late!epochs
  <2>7. \A d : Late!IsLive(d)' <=> Late!IsLive(d)
    BY <2>6 DEF Late!IsLive
  <2>8. ASSUME NEW i \in DOMAIN m.todo
        PROVE  LET s == m.todo[i] IN s.b[2] <= born[s.b[1]] /\ (Late!IsLive(s.b) => s.from <= read'[s.b])
    BY <2>1, <2>3, <2>5 DEF Late!IsBehind
  <2> QED BY <2>1, <2>6, <2>7, <2>8 DEF Late!IsBehind
<1> QED BY <1>7, <1>10, <1>11 DEF Late!RecoveryInv, Late!RecoverySafety, Late!PagesAreBehind

-----------------------------------------------------------------------------
(* Steps around the loops.                                                    *)

\* What a loop knows holds on when rows are added and epochs go.
LEMMA BehindStays ==
    ASSUME Late!RecoveryInv, NEW l \in Late!Loop, Late!IsBehind(l),
           \A d \in Late!Binding :
              /\ born[d[1]] <= born'[d[1]] /\ born'[d[1]] \in Nat
              /\ Len(log[d]) <= Len(log'[d]) /\ Len(log'[d]) \in Nat
              /\ d[2] <= born[d[1]] /\ Late!IsLive(d)' => Late!IsLive(d) /\ read'[d] = read[d]
    PROVE  Late!IsBehind(l)'
<1>1. /\ l.todo \in Seq(Late!Snap) /\ \A i \in DOMAIN l.todo : l.todo[i].b \in Late!Binding
  <2>1. l.todo \in Seq(Late!Snap)
    BY DEF Late!Loop
  <2>2. \A i \in DOMAIN l.todo : l.todo[i] \in Late!Snap
    BY <2>1
  <2> QED BY <2>1, <2>2 DEF Late!Snap
<1>2. \A d \in Late!Binding : born[d[1]] \in Nat /\ Len(log[d]) \in Nat /\ d[2] \in Nat
    BY RecoveryAssumption DEF Late!RecoveryInv, Late!TypeOK, Late!Binding
<1>3. \A i \in DOMAIN l.todo : LET s == l.todo[i] IN
         s.b[2] <= born'[s.b[1]] /\ (Late!IsLive(s.b)' => s.from <= read'[s.b])
  <2> SUFFICES ASSUME NEW i \in DOMAIN l.todo
               PROVE  /\ l.todo[i].b[2] <= born'[l.todo[i].b[1]]
                      /\ Late!IsLive(l.todo[i].b)' => l.todo[i].from <= read'[l.todo[i].b]
    OBVIOUS
  <2>1. PICK d \in Late!Binding : d = l.todo[i].b
    BY <1>1
  <2>2. d[2] <= born[d[1]] /\ (Late!IsLive(d) => l.todo[i].from <= read[d])
    BY <2>1 DEF Late!IsBehind
  <2>3. d[2] <= born'[d[1]]
    BY <1>2, <2>2
  <2>4. Late!IsLive(d)' => l.todo[i].from <= read'[d]
    BY <2>2
  <2> QED BY <2>1, <2>3, <2>4
<1>4. l.pc # "scan" => l.todo # <<>>
    BY DEF Late!IsBehind
<1>5. ASSUME l.pc = "record"
      PROVE  \E e \in 0 .. Len(log'[Head(l.todo).b]) : l.rows = (Head(l.todo).from + 1) .. e
  <2>1. Head(l.todo).b \in Late!Binding
    BY <1>1, <1>4, <1>5
  <2>2. PICK e \in 0 .. Len(log[Head(l.todo).b]) : l.rows = (Head(l.todo).from + 1) .. e
    BY <1>5 DEF Late!IsBehind
  <2>3. e \in 0 .. Len(log'[Head(l.todo).b])
    BY <1>2, <2>1
  <2> QED BY <2>2, <2>3
<1> QED BY <1>3, <1>4, <1>5 DEF Late!IsBehind, Late!IsLive

\* The parts of the invariant that rows, epochs and messages make up, without
\* the loops.
Recorded == Late!EpochsGrow /\ Late!RowsExist /\ Late!RecoverySafety

LEMMA AppendRecords ==
    ASSUME Late!RecoveryInv, NEW b \in Late!Binding, NEW k \in Kinds, NEW noticed \in BOOLEAN,
      Late!Append_(b, k, noticed)
    PROVE  Recorded'
<1>1. /\ Late!IsLive(b) /\ Len(log[b]) < MaxRow /\ log' = [log EXCEPT ![b] = Append(@, k)]
      /\ UNCHANGED <<Late!durable, file, Late!epochs, told>>
    BY DEF Late!Append_
<1>2. UNCHANGED <<read, waiting, chat, flag, file, live, born, cleared, told>>
    BY <1>1 DEF Late!durable, Late!epochs
<1>3. log \in [Late!Binding -> Seq(Late!Kind)] /\ k \in Late!Kind /\ MaxRow \in Nat /\ read \in [Late!Binding -> 0 .. MaxRow]
    BY RecoveryAssumption DEF Late!RecoveryInv, Late!TypeOK
<1>4. /\ \A d \in Late!Binding : d # b => log'[d] = log[d]
      /\ log'[b] = Append(log[b], k) /\ log[b] \in Seq(Late!Kind)
    BY <1>1, <1>3
<1>5. /\ Len(log[b]) \in Nat /\ Len(log'[b]) = Len(log[b]) + 1 /\ DOMAIN log'[b] = 1 .. Len(log[b]) + 1
      /\ DOMAIN log[b] = 1 .. Len(log[b]) /\ \A n \in DOMAIN log[b] : log'[b][n] = log[b][n]
    BY <1>3, <1>4
<1>6. \A d \in Late!Binding : (Late!IsLive(d)' <=> Late!IsLive(d)) /\ Late!Waits(d)' = Late!Waits(d)
    BY <1>2 DEF Late!IsLive, Late!Waits
<1>7. Late!EpochsGrow'
  <2>1. ~(b[2] > born[b[1]])
    <3>1. b[1] \in Late!Agent /\ b[2] = live[b[1]] /\ b[2] # 0 /\ b[2] \in Nat
        BY <1>1 DEF Late!IsLive, Late!Binding
    <3> QED BY <3>1 DEF Late!RecoveryInv, Late!EpochsGrow
  <2>2. \A d \in cleared : d \in Late!Binding
    BY DEF Late!RecoveryInv, Late!TypeOK
  <2> QED BY <1>2, <1>4, <1>6, <2>1, <2>2 DEF Late!RecoveryInv, Late!EpochsGrow
<1>8. Late!RowsExist'
  <2>1. /\ Len(log'[b]) <= MaxRow
        /\ read[b] <= Len(log'[b])
        /\ \A n \in Late!Seq_ : n > Len(log'[b]) => chat[b][n] = 0
    BY <1>1, <1>3, <1>5 DEF Late!RecoveryInv, Late!RowsExist, Late!Seq_
  <2>2. \A n \in Late!Waits(b) : n \in DOMAIN log'[b] /\ log'[b][n] \in {"media", "file"}
    BY <1>1, <1>5 DEF Late!RecoveryInv, Late!RowsExist
  <2> QED BY <1>2, <1>4, <1>6, <2>1, <2>2 DEF Late!RecoveryInv, Late!RowsExist
<1>9. Late!CursorIsSafe'
  <2>1. ASSUME NEW n \in DOMAIN log'[b], n \notin DOMAIN log[b] PROVE n > read[b] /\ chat[b][n] = 0
    <3>1. n = Len(log[b]) + 1
        BY <1>5, <2>1
    <3>2. n \in Late!Seq_ /\ n > Len(log[b]) /\ read[b] <= Len(log[b]) /\ read[b] \in Nat
        BY <1>1, <1>3, <1>5, <3>1 DEF Late!Seq_, Late!RecoveryInv, Late!RowsExist
    <3> QED BY <1>1, <1>5, <3>2 DEF Late!RecoveryInv, Late!RowsExist
  <2>2. ASSUME NEW n \in DOMAIN log'[b]
        PROVE /\ n <= read[b] /\ log'[b][n] = "text" => chat[b][n] = 1
              /\ n <= read[b] /\ log'[b][n] \in {"media", "file"} =>
                    chat[b][n] = 2 \/ (n \in Late!Waits(b) /\ (log'[b][n] = "media" => chat[b][n] = 1))
              /\ log'[b][n] = "native" => chat[b][n] = 0
    <3>1. CASE n \in DOMAIN log[b]
        BY <1>1, <1>5, <3>1 DEF Late!RecoveryInv, Late!RecoverySafety, Late!CursorIsSafe
    <3>2. CASE n \notin DOMAIN log[b]
      <4>1. n > read[b] /\ chat[b][n] = 0 /\ n \in Nat /\ read[b] \in Nat
        BY <1>3, <1>5, <2>1, <3>2
      <4> QED BY <4>1
    <3> QED BY <3>1, <3>2
  <2>3. ASSUME NEW d \in Late!Binding, d # b
        PROVE  log'[d] = log[d] /\ read'[d] = read[d] /\ chat'[d] = chat[d] /\ Late!Waits(d)' = Late!Waits(d)
               /\ (Late!IsLive(d)' => Late!IsLive(d))
    BY <1>2, <1>4, <1>6, <2>3
  <2>4. \A n \in DOMAIN log'[b] :
          /\ read'[b] = read[b] /\ chat'[b] = chat[b] /\ Late!Waits(b)' = Late!Waits(b)
    BY <1>2, <1>4, <1>6
  <2> QED BY <2>2, <2>3, <2>4 DEF Late!RecoveryInv, Late!RecoverySafety, Late!CursorIsSafe
<1>10. Late!ToldIsCurrent' /\ Late!ClearedStaysEmpty'
    BY <1>2, <1>6
       DEF Late!RecoveryInv, Late!RecoverySafety, Late!ToldIsCurrent, Late!ClearedStaysEmpty
<1> QED BY <1>7, <1>8, <1>9, <1>10 DEF Recorded, Late!RecoverySafety

LEMMA AppendKeeps ==
    ASSUME Late!RecoveryInv, NEW b \in Late!Binding, NEW k \in Kinds, NEW noticed \in BOOLEAN,
      Late!Append_(b, k, noticed)
    PROVE  Late!RecoveryInv'
<1>1. /\ log' = [log EXCEPT ![b] = Append(@, k)] /\ UNCHANGED <<Late!durable, file, Late!epochs,
           told, after>>
    BY DEF Late!Append_
<1>2. k \in Late!Kind /\ \A p \in Proc : proc[p] \in Late!Loop /\ [proc[p] EXCEPT !.same = FALSE] \in Late!Loop
  <2>1. k \in Late!Kind /\ \A p \in Proc : proc[p] \in Late!Loop
    BY RecoveryAssumption DEF Late!RecoveryInv, Late!TypeOK
  <2>2. \A l \in Late!Loop : [l EXCEPT !.same = FALSE] \in Late!Loop
    BY DEF Late!Loop
  <2> QED BY <2>1, <2>2
<1>3. /\ log' \in [Late!Binding -> Seq(Late!Kind)] /\ idle' \in [Proc -> [Late!Binding -> {"no",
           "fresh", "old"}]]
      /\ proc' \in [Proc -> Late!Loop]
  <2>1. log \in [Late!Binding -> Seq(Late!Kind)] /\ idle \in [Proc -> [Late!Binding -> {"no",
          "fresh", "old"}]] /\ proc \in [Proc -> Late!Loop]
    BY DEF Late!RecoveryInv, Late!TypeOK
  <2>2. log' \in [Late!Binding -> Seq(Late!Kind)]
    BY <1>1, <1>2, <2>1
  <2>3. idle' = idle \/ idle' = [p \in Proc |-> [idle[p] EXCEPT ![b] = "no"]]
    BY DEF Late!Append_
  <2>4. idle' \in [Proc -> [Late!Binding -> {"no", "fresh", "old"}]]
    BY <2>1, <2>3
  <2>5. \/ proc' = proc
        \/ proc' = [p \in Proc |-> IF proc[p].todo # <<>> /\ Late!Here(p).b = b
                                   THEN [proc[p] EXCEPT !.same = FALSE] ELSE proc[p]]
    BY DEF Late!Append_
  <2>6. proc' \in [Proc -> Late!Loop]
    BY <1>2, <2>1, <2>5
  <2> QED BY <2>2, <2>4, <2>6
<1>4. Late!TypeOK'
    BY <1>1, <1>3 DEF Late!RecoveryInv, Late!TypeOK, Late!durable, Late!epochs
<1>5. \A d \in Late!Binding :
         /\ born[d[1]] <= born'[d[1]] /\ born'[d[1]] \in Nat
         /\ Len(log[d]) <= Len(log'[d]) /\ Len(log'[d]) \in Nat
         /\ d[2] <= born[d[1]] /\ Late!IsLive(d)' => Late!IsLive(d) /\ read'[d] = read[d]
  <2> SUFFICES ASSUME NEW d \in Late!Binding
               PROVE  /\ born[d[1]] <= born'[d[1]] /\ born'[d[1]] \in Nat
                      /\ Len(log[d]) <= Len(log'[d]) /\ Len(log'[d]) \in Nat
                      /\ d[2] <= born[d[1]] /\ Late!IsLive(d)' => Late!IsLive(d) /\ read'[d] = read[d]
    OBVIOUS
  <2>1. log[d] \in Seq(Late!Kind) /\ log'[d] \in {log[d], Append(log[d], k)} /\ born[d[1]] \in Nat
    BY <1>1, RecoveryAssumption DEF Late!RecoveryInv, Late!TypeOK, Late!Binding
  <2>2. Len(log[d]) <= Len(log'[d]) /\ Len(log'[d]) \in Nat
    BY <1>2, <2>1
  <2> QED BY <1>1, <2>1, <2>2 DEF Late!durable, Late!epochs, Late!IsLive
<1>6. ASSUME NEW p \in Proc PROVE Late!IsBehind(proc[p])'
  <2>1. PICK m \in Late!Loop : m = proc'[p] /\ m.todo = proc[p].todo /\ m.pc = proc[p].pc /\ m.rows = proc[p].rows
    <3>1. proc'[p] \in {proc[p], [proc[p] EXCEPT !.same = FALSE]}
        BY DEF Late!Append_
    <3>2. \A l \in {proc[p], [proc[p] EXCEPT !.same = FALSE]} :
             l \in Late!Loop /\ l.todo = proc[p].todo /\ l.pc = proc[p].pc /\ l.rows = proc[p].rows
        BY <1>2 DEF Late!Loop
    <3> QED BY <3>1, <3>2
  <2>2. Late!IsBehind(m)
    BY <2>1 DEF Late!IsBehind, Late!RecoveryInv, Late!PagesAreBehind
  <2>3. Late!IsBehind(m)'
    BY <1>5, <2>2, BehindStays
  <2> QED BY <2>1, <2>3 DEF Late!IsBehind
<1> QED BY <1>4, <1>6, AppendRecords DEF Late!RecoveryInv, Recorded, Late!PagesAreBehind

\* Loops and their memory stay when only epochs go or come, or files appear.
LEMMA PagesStay ==
    ASSUME Late!RecoveryInv, UNCHANGED <<log, proc>>,
           \A a \in Late!Agent : born[a] <= born'[a] /\ born'[a] \in Nat,
           \A d \in Late!Binding : d[2] <= born[d[1]] /\ Late!IsLive(d)' => Late!IsLive(d) /\ read'[d] = read[d]
    PROVE  Late!PagesAreBehind'
<1>1. \A d \in Late!Binding :
         /\ born[d[1]] <= born'[d[1]] /\ born'[d[1]] \in Nat
         /\ Len(log[d]) <= Len(log'[d]) /\ Len(log'[d]) \in Nat
         /\ d[2] <= born[d[1]] /\ Late!IsLive(d)' => Late!IsLive(d) /\ read'[d] = read[d]
  <2>1. \A d \in Late!Binding : d[1] \in Late!Agent /\ Len(log[d]) \in Nat
    BY DEF Late!RecoveryInv, Late!TypeOK, Late!Binding
  <2> QED BY <2>1
<1>2. ASSUME NEW p \in Proc PROVE Late!IsBehind(proc[p])'
  <2>1. PICK m \in Late!Loop : m = proc'[p] /\ Late!IsBehind(m)
    BY DEF Late!RecoveryInv, Late!TypeOK, Late!PagesAreBehind
  <2>2. Late!IsBehind(m)'
    BY <1>1, <2>1, BehindStays
  <2> QED BY <2>1, <2>2 DEF Late!IsBehind
<1> QED BY <1>2 DEF Late!PagesAreBehind

LEMMA FileKeeps ==
    ASSUME Late!RecoveryInv, NEW b \in Late!Binding, NEW n \in Late!Seq_, Late!FileAppears(b, n)
    PROVE  Late!RecoveryInv'
<1>1. UNCHANGED <<read, waiting, chat, flag, log, live, born, allowed, cleared, told, idle, after,
        proc>>
    BY DEF Late!FileAppears, Late!durable, Late!epochs
<1>2. Late!TypeOK'
    BY <1>1 DEF Late!FileAppears, Late!RecoveryInv, Late!TypeOK
<1>3. \A d \in Late!Binding : (Late!IsLive(d)' <=> Late!IsLive(d)) /\ Late!Waits(d)' = Late!Waits(d)
    BY <1>1 DEF Late!IsLive, Late!Waits
<1>4. Late!EpochsGrow'
  <2>1. \A d \in cleared : d \in Late!Binding
    BY DEF Late!RecoveryInv, Late!TypeOK
  <2> QED BY <1>1, <1>3, <2>1 DEF Late!RecoveryInv, Late!EpochsGrow
<1>5. Late!RowsExist' /\ Late!RecoverySafety'
    BY <1>1, <1>3
       DEF Late!RecoveryInv, Late!RowsExist, Late!RecoverySafety, Late!CursorIsSafe,
           Late!ToldIsCurrent, Late!ClearedStaysEmpty
<1>6. Late!PagesAreBehind'
  <2>1. \A a \in Late!Agent : born[a] <= born'[a] /\ born'[a] \in Nat
    BY <1>1, RecoveryAssumption DEF Late!RecoveryInv, Late!TypeOK
  <2> QED BY <1>1, <1>3, <2>1, PagesStay
<1> QED BY <1>2, <1>4, <1>5, <1>6 DEF Late!RecoveryInv

LEMMA SetAllowedKeeps ==
    ASSUME Late!RecoveryInv, NEW a \in Late!Agent, Late!SetAllowed(a)
    PROVE  Late!RecoveryInv'
<1>1. UNCHANGED <<read, waiting, chat, flag, log, file, live, born, cleared, told, idle, after, proc>>
    BY DEF Late!SetAllowed, Late!durable, Late!guest
<1>2. Late!TypeOK'
    BY <1>1, RecoveryAssumption DEF Late!SetAllowed, Late!RecoveryInv, Late!TypeOK
<1>3. \A d \in Late!Binding : (Late!IsLive(d)' <=> Late!IsLive(d)) /\ Late!Waits(d)' = Late!Waits(d)
    BY <1>1 DEF Late!IsLive, Late!Waits
<1>4. Late!EpochsGrow'
  <2>1. \A d \in cleared : d \in Late!Binding
    BY DEF Late!RecoveryInv, Late!TypeOK
  <2> QED BY <1>1, <1>3, <2>1 DEF Late!RecoveryInv, Late!EpochsGrow
<1>5. Late!RowsExist' /\ Late!RecoverySafety'
    BY <1>1, <1>3
       DEF Late!RecoveryInv, Late!RowsExist, Late!RecoverySafety, Late!CursorIsSafe,
           Late!ToldIsCurrent, Late!ClearedStaysEmpty
<1>6. Late!PagesAreBehind'
  <2>1. \A c \in Late!Agent : born[c] <= born'[c] /\ born'[c] \in Nat
    BY <1>1, RecoveryAssumption DEF Late!RecoveryInv, Late!TypeOK
  <2> QED BY <1>1, <1>3, <2>1, PagesStay
<1> QED BY <1>2, <1>4, <1>5, <1>6 DEF Late!RecoveryInv

\* A claim makes a binding that has left nothing yet.
LEMMA BindKeeps ==
    ASSUME Late!RecoveryInv, NEW a \in Late!Agent, Late!Bind(a)
    PROVE  Late!RecoveryInv'
<1> DEFINE b == <<a, born[a] + 1>>
<1>1. /\ live[a] = 0 /\ born[a] < MaxEpoch
      /\ born' = [born EXCEPT ![a] = @ + 1] /\ live' = [live EXCEPT ![a] = born[a] + 1]
      /\ UNCHANGED <<read, waiting, chat, flag, log, file, allowed, cleared, told, idle, after, proc>>
    BY DEF Late!Bind, Late!durable, Late!guest
<1>2. /\ live \in [Late!Agent -> 0 .. MaxEpoch] /\ born \in [Late!Agent -> 0 .. MaxEpoch] /\ MaxEpoch \in Nat
      /\ cleared \subseteq Late!Binding
    BY RecoveryAssumption DEF Late!RecoveryInv, Late!TypeOK
<1>3. /\ live' \in [Late!Agent -> 0 .. MaxEpoch] /\ born' \in [Late!Agent -> 0 .. MaxEpoch]
      /\ born'[a] = born[a] + 1 /\ live'[a] = born[a] + 1
      /\ \A c \in Late!Agent : c # a => live'[c] = live[c] /\ born'[c] = born[c]
    BY <1>1, <1>2
<1>4. Late!TypeOK'
    BY <1>1, <1>3 DEF Late!RecoveryInv, Late!TypeOK
<1>5. /\ \A d \in Late!Binding : d = <<d[1], d[2]>> /\ d[1] \in Late!Agent /\ d[2] \in 1 .. MaxEpoch
      /\ b \in Late!Binding /\ b[1] = a /\ b[2] = born[a] + 1
    BY <1>1, <1>2 DEF Late!Binding
<1> HIDE DEF b
<1>6. \A d \in Late!Binding : Late!IsLive(d)' => d = b \/ Late!IsLive(d)
    BY <1>3, <1>5 DEF Late!IsLive, b
<1>7. \A d \in Late!Binding : d[2] <= born[d[1]] => d # b
  <2>1. born[a] \in Nat
    BY <1>2
  <2> QED BY <1>5, <2>1
<1>8. log[b] = <<>> /\ read[b] = 0 /\ waiting[b] = <<>> /\ \A n \in Late!Seq_ : chat[b][n] = 0
  <2>1. born[a] \in Nat /\ b[2] > born[b[1]]
    BY <1>2, <1>5
  <2> QED BY <1>5, <2>1 DEF Late!RecoveryInv, Late!EpochsGrow
<1>9. \A d \in Late!Binding : Late!Waits(d)' = Late!Waits(d)
    BY <1>1 DEF Late!Waits
<1>10. Late!Waits(b) = {}
    BY <1>8 DEF Late!Waits
<1>11. Late!EpochsGrow'
  <2>1. \A c \in Late!Agent : live'[c] \in {0, born'[c]}
    BY <1>3 DEF Late!RecoveryInv, Late!EpochsGrow
  <2>2. \A c \in Late!Agent : born[c] \in Nat /\ born'[c] \in Nat /\ born[c] <= born'[c]
    BY <1>2, <1>3
  <2>3. ASSUME NEW d \in cleared PROVE d[2] <= born'[d[1]] /\ ~Late!IsLive(d)'
    <3>1. d \in Late!Binding /\ d[2] <= born[d[1]] /\ ~Late!IsLive(d)
        BY <1>2 DEF Late!RecoveryInv, Late!EpochsGrow
    <3>2. d # b /\ d[2] \in Nat /\ d[1] \in Late!Agent
        BY <1>2, <1>5, <1>7, <3>1
    <3> QED BY <1>6, <2>2, <3>1, <3>2
  <2>4. ASSUME NEW d \in Late!Binding, d[2] > born'[d[1]]
        PROVE  log[d] = <<>> /\ read[d] = 0 /\ waiting[d] = <<>> /\ \A n \in Late!Seq_ : chat[d][n] = 0
    <3>1. d[2] > born[d[1]]
      <4>1. d[2] \in Nat /\ d[1] \in Late!Agent
        BY <1>2, <1>5
      <4> QED BY <2>2, <2>4, <4>1
    <3> QED BY <3>1 DEF Late!RecoveryInv, Late!EpochsGrow
  <2> QED BY <1>1, <2>1, <2>3, <2>4 DEF Late!EpochsGrow
<1>12. Late!RowsExist'
  <2>1. \A d \in Late!Binding : Len(log[d]) <= MaxRow
    BY DEF Late!RecoveryInv, Late!RowsExist
  <2>2. ASSUME NEW d \in Late!Binding, Late!IsLive(d)'
        PROVE  /\ read[d] <= Len(log[d])
               /\ \A n \in Late!Seq_ : n > Len(log[d]) => chat[d][n] = 0
               /\ \A n \in Late!Waits(d) : n \in DOMAIN log[d] /\ log[d][n] \in {"media", "file"}
    BY <1>6, <1>8, <1>10, <2>2 DEF Late!RecoveryInv, Late!RowsExist
  <2> QED BY <1>1, <1>9, <2>1, <2>2 DEF Late!RowsExist
<1>13. Late!CursorIsSafe'
  <2>1. ASSUME NEW d \in Late!Binding, Late!IsLive(d)', NEW n \in DOMAIN log[d]
        PROVE  Late!IsLive(d)
    <3>1. d # b
        BY <1>8, <2>1
    <3> QED BY <1>6, <2>1, <3>1
  <2> QED BY <1>1, <1>9, <2>1 DEF Late!RecoveryInv, Late!RecoverySafety, Late!CursorIsSafe
<1>14. Late!ToldIsCurrent'
  <2>1. ASSUME NEW d \in Late!Binding, Late!IsLive(d)', NEW n \in Late!Seq_, chat[d][n] # 0
        PROVE  Late!IsLive(d)
    <3>1. d # b
        BY <1>8, <2>1
    <3> QED BY <1>6, <2>1, <3>1
  <2> QED BY <1>1, <2>1 DEF Late!RecoveryInv, Late!RecoverySafety, Late!ToldIsCurrent
<1>15. Late!ClearedStaysEmpty'
    BY <1>1 DEF Late!RecoveryInv, Late!RecoverySafety, Late!ClearedStaysEmpty
<1>16. Late!PagesAreBehind'
  <2>1. \A c \in Late!Agent : born[c] <= born'[c] /\ born'[c] \in Nat
    BY <1>2, <1>3
  <2> QED BY <1>1, <1>6, <1>7, <2>1, PagesStay
<1> QED BY <1>4, <1>11, <1>12, <1>13, <1>14, <1>15, <1>16 DEF Late!RecoveryInv, Late!RecoverySafety

\* A binding goes, and with its chat the messages of its epochs.
LEMMA DropKeeps ==
    ASSUME Late!RecoveryInv, NEW a \in Late!Agent, live[a] # 0, Late!Drop(a),
      UNCHANGED <<Late!guest, born, allowed, after, proc>>,
           NEW mine \in SUBSET {d \in Late!Binding : d[1] = a /\ d[2] <= born[a]},
           cleared' = cleared \cup mine,
           chat' = [d \in Late!Binding |-> IF d \in mine THEN [n \in Late!Seq_ |-> 0] ELSE chat[d]]
    PROVE  Late!RecoveryInv'
<1> DEFINE b == <<a, live[a]>>
<1>1. /\ live' = [live EXCEPT ![a] = 0] /\ read' = [read EXCEPT ![b] = 0]
      /\ waiting' = [waiting EXCEPT ![b] = <<>>] /\ flag' = [flag EXCEPT ![b] = {}]
      /\ told' = [told EXCEPT ![b] = [n \in Late!Seq_ |-> 0]]
      /\ idle' = [p \in Proc |-> [idle[p] EXCEPT ![b] = "no"]]
      /\ UNCHANGED <<log, file, born, allowed, after, proc>>
    BY DEF Late!Drop, Late!guest
<1>2. /\ live \in [Late!Agent -> 0 .. MaxEpoch] /\ born \in [Late!Agent -> 0 .. MaxEpoch] /\ MaxEpoch \in Nat /\ MaxRow \in Nat
      /\ cleared \subseteq Late!Binding /\ read \in [Late!Binding -> 0 .. MaxRow] /\ waiting \in [Late!Binding -> Seq(Late!Seq_)]
      /\ flag \in [Late!Binding -> SUBSET Late!Seq_] /\ told \in [Late!Binding -> [Late!Seq_ -> 0 .. 2]]
      /\ chat \in [Late!Binding -> [Late!Seq_ -> 0 .. 2]] /\ idle \in [Proc -> [Late!Binding -> {"no", "fresh", "old"}]]
    BY RecoveryAssumption DEF Late!RecoveryInv, Late!TypeOK
<1>3. /\ live' \in [Late!Agent -> 0 .. MaxEpoch] /\ live'[a] = 0 /\ \A c \in Late!Agent : c # a => live'[c] = live[c]
    BY <1>1, <1>2
<1>4. /\ \A d \in Late!Binding : d = <<d[1], d[2]>> /\ d[1] \in Late!Agent /\ d[2] \in 1 .. MaxEpoch
      /\ b \in Late!Binding /\ b[1] = a /\ b[2] = live[a]
    BY <1>2 DEF Late!Binding
<1> HIDE DEF b
<1>5. /\ read' \in [Late!Binding -> 0 .. MaxRow] /\ waiting' \in [Late!Binding -> Seq(Late!Seq_)]
      /\ flag' \in [Late!Binding -> SUBSET Late!Seq_] /\ told' \in [Late!Binding -> [Late!Seq_ -> 0 .. 2]]
      /\ idle' \in [Proc -> [Late!Binding -> {"no", "fresh", "old"}]]
  <2> DEFINE zero == [n \in Late!Seq_ |-> 0]
  <2>1. zero \in [Late!Seq_ -> 0 .. 2] /\ <<>> \in Seq(Late!Seq_) /\ told' = [told EXCEPT ![b] = zero]
    BY <1>1
  <2> HIDE DEF zero
  <2>2. told' \in [Late!Binding -> [Late!Seq_ -> 0 .. 2]]
    BY <1>2, <2>1
  <2>3. waiting' \in [Late!Binding -> Seq(Late!Seq_)]
    BY <1>1, <1>2, <2>1
  <2>4. read' \in [Late!Binding -> 0 .. MaxRow]
    <3>1. 0 \in 0 .. MaxRow /\ read' = [read EXCEPT ![b] = 0] /\ read \in [Late!Binding -> 0 .. MaxRow]
        BY <1>1, <1>2
    <3> QED BY <3>1
  <2>5. flag' \in [Late!Binding -> SUBSET Late!Seq_]
    BY <1>1, <1>2
  <2>6. idle' \in [Proc -> [Late!Binding -> {"no", "fresh", "old"}]]
    BY <1>1, <1>2
  <2> QED BY <2>2, <2>3, <2>4, <2>5, <2>6
<1>6. chat' \in [Late!Binding -> [Late!Seq_ -> 0 .. 2]] /\ cleared' \subseteq Late!Binding
  <2>1. [n \in Late!Seq_ |-> 0] \in [Late!Seq_ -> 0 .. 2]
    OBVIOUS
  <2> QED BY <1>2, <2>1
<1>7. Late!TypeOK'
    BY <1>1, <1>3, <1>5, <1>6 DEF Late!RecoveryInv, Late!TypeOK
<1>8. \A d \in Late!Binding : Late!IsLive(d)' => Late!IsLive(d) /\ d # b /\ d[1] # a
  <2> SUFFICES ASSUME NEW d \in Late!Binding, Late!IsLive(d)' PROVE Late!IsLive(d) /\ d # b /\ d[1] # a
    OBVIOUS
  <2>1. live'[d[1]] = d[2] /\ d[2] # 0
    BY <1>4 DEF Late!IsLive
  <2>2. d[1] # a
    BY <1>3, <2>1
  <2> QED BY <1>3, <1>4, <2>1, <2>2 DEF Late!IsLive
<1>9. \A d \in Late!Binding : d # b =>
         read'[d] = read[d] /\ waiting'[d] = waiting[d] /\ flag'[d] = flag[d] /\ told'[d] = told[d]
    BY <1>1, <1>2
<1>10. \A d \in Late!Binding : d[1] # a => chat'[d] = chat[d]
    OBVIOUS
<1>11. \A d \in Late!Binding : d # b => Late!Waits(d)' = Late!Waits(d)
    BY <1>9 DEF Late!Waits
<1>12. Late!EpochsGrow'
  <2>1. \A c \in Late!Agent : live'[c] \in {0, born[c]}
    BY <1>3 DEF Late!RecoveryInv, Late!EpochsGrow
  <2>2. ASSUME NEW d \in cleared' PROVE d[2] <= born[d[1]] /\ ~Late!IsLive(d)'
    <3>1. CASE d \in mine
      <4>1. d[1] = a /\ d[2] <= born[a] /\ d \in Late!Binding
        BY <3>1
      <4> QED BY <1>8, <4>1
    <3>2. CASE d \in cleared
        BY <1>2, <1>8, <3>2 DEF Late!RecoveryInv, Late!EpochsGrow
    <3> QED BY <2>2, <3>1, <3>2
  <2>3. ASSUME NEW d \in Late!Binding, d[2] > born[d[1]]
        PROVE  log[d] = <<>> /\ read'[d] = 0 /\ waiting'[d] = <<>> /\ \A n \in Late!Seq_ : chat'[d][n] = 0
    <3>1. log[d] = <<>> /\ read[d] = 0 /\ waiting[d] = <<>> /\ \A n \in Late!Seq_ : chat[d][n] = 0
        BY <2>3 DEF Late!RecoveryInv, Late!EpochsGrow
    <3> QED BY <1>1, <1>2, <3>1
  <2> QED BY <1>1, <2>1, <2>2, <2>3 DEF Late!EpochsGrow
<1>13. Late!RowsExist'
  <2>1. \A d \in Late!Binding : Len(log[d]) <= MaxRow
    BY DEF Late!RecoveryInv, Late!RowsExist
  <2>2. ASSUME NEW d \in Late!Binding, Late!IsLive(d)'
        PROVE  /\ read'[d] <= Len(log[d])
               /\ \A n \in Late!Seq_ : n > Len(log[d]) => chat'[d][n] = 0
               /\ \A n \in Late!Waits(d)' : n \in DOMAIN log[d] /\ log[d][n] \in {"media", "file"}
    BY <1>8, <1>9, <1>10, <1>11, <2>2 DEF Late!RecoveryInv, Late!RowsExist
  <2> QED BY <1>1, <2>1, <2>2 DEF Late!RowsExist
<1>14. Late!CursorIsSafe' /\ Late!ToldIsCurrent'
    BY <1>1, <1>8, <1>9, <1>10, <1>11
       DEF Late!RecoveryInv, Late!RecoverySafety, Late!CursorIsSafe, Late!ToldIsCurrent
<1>15. Late!ClearedStaysEmpty'
  <2>1. \A d \in cleared' : d \in Late!Binding /\ (d \in mine \/ d \in cleared)
    BY <1>6
  <2> QED BY <2>1 DEF Late!RecoveryInv, Late!RecoverySafety, Late!ClearedStaysEmpty
<1>16. Late!PagesAreBehind'
  <2>1. \A c \in Late!Agent : born[c] <= born'[c] /\ born'[c] \in Nat
    BY <1>1, <1>2
  <2> QED BY <1>1, <1>8, <1>9, <2>1, PagesStay
<1> QED BY <1>7, <1>12, <1>13, <1>14, <1>15, <1>16 DEF Late!RecoveryInv, Late!RecoverySafety

LEMMA RevokeKeeps ==
    ASSUME Late!RecoveryInv, NEW a \in Late!Agent, Late!Revoke(a)
    PROVE  Late!RecoveryInv'
<1>1. /\ live[a] # 0 /\ Late!Drop(a) /\ UNCHANGED <<Late!guest, born, allowed, after, proc>>
      /\ cleared' = cleared \cup {} /\ chat' = chat
    BY DEF Late!Revoke
<1>2. chat' = [d \in Late!Binding |-> IF d \in {} THEN [n \in Late!Seq_ |-> 0] ELSE chat[d]]
    BY <1>1 DEF Late!RecoveryInv, Late!TypeOK
<1>3. {} \in SUBSET {d \in Late!Binding : d[1] = a /\ d[2] <= born[a]}
    OBVIOUS
<1> QED BY <1>1, <1>2, <1>3, DropKeeps

LEMMA ClearKeeps ==
    ASSUME Late!RecoveryInv, NEW a \in Late!Agent, Late!Clear(a)
    PROVE  Late!RecoveryInv'
<1> DEFINE mine == {d \in Late!Binding : d[1] = a /\ d[2] <= born[a]}
<1>1. /\ live[a] # 0 /\ Late!Drop(a) /\ UNCHANGED <<Late!guest, born, allowed, after, proc>>
      /\ cleared' = cleared \cup mine
      /\ chat' = [d \in Late!Binding |-> IF d \in mine THEN [n \in Late!Seq_ |-> 0] ELSE chat[d]]
    BY DEF Late!Clear
<1> QED BY <1>1, DropKeeps

-----------------------------------------------------------------------------
LEMMA RecoveryInit == ASSUME Late!Init PROVE Late!RecoveryInv
<1>1. /\ [n \in Late!Seq_ |-> 0] \in [Late!Seq_ -> 0 .. 2] /\ <<>> \in Seq(Late!Kind) /\ <<>> \in Seq(Late!Seq_)
      /\ Late!Resting \in Late!Loop /\ Late!IsBehind(Late!Resting) /\ MaxEpoch \in Nat /\ MaxRow \in Nat /\ Agents \in Nat
    BY RestingIsBehind, RecoveryAssumption DEF Late!Kind
<1>2. Late!TypeOK
    BY <1>1 DEF Late!Init, Late!TypeOK, Late!Verdict
<1>3. \A b \in Late!Binding : ~Late!IsLive(b) /\ b[1] \in Late!Agent /\ b[2] \in Nat /\ log[b] = <<>> /\ waiting[b] = <<>>
                         /\ read[b] = 0 /\ \A n \in Late!Seq_ : chat[b][n] = 0
    BY DEF Late!Init, Late!IsLive, Late!Binding
<1>4. Late!EpochsGrow
    BY <1>3 DEF Late!Init, Late!EpochsGrow
<1>5. Late!RowsExist /\ Late!RecoverySafety
  <2>1. \A b \in Late!Binding : Len(log[b]) <= MaxRow
    BY <1>1, <1>3
  <2> QED BY <1>3, <2>1
         DEF Late!Init, Late!RowsExist, Late!RecoverySafety, Late!CursorIsSafe, Late!ToldIsCurrent,
             Late!ClearedStaysEmpty
<1>6. Late!PagesAreBehind
    BY <1>1 DEF Late!Init, Late!PagesAreBehind
<1> QED BY <1>2, <1>4, <1>5, <1>6 DEF Late!RecoveryInv

LEMMA RecoveryStep ==
    ASSUME Late!RecoveryInv, [Late!Next]_(Late!vars)
    PROVE  Late!RecoveryInv'
<1>1. CASE UNCHANGED Late!vars
  <2>1. UNCHANGED <<read, waiting, chat, flag, log, file, live, born, allowed, cleared, told, idle,
          after, proc>>
    BY <1>1 DEF Late!vars, Late!durable, Late!guest, Late!epochs
  <2>2. Late!TypeOK' /\ Late!EpochsGrow'
    BY <2>1 DEF Late!RecoveryInv, Late!TypeOK, Late!EpochsGrow, Late!IsLive
  <2>3. Late!RowsExist' /\ Late!RecoverySafety'
    BY <2>1
       DEF Late!RecoveryInv, Late!RowsExist, Late!RecoverySafety, Late!CursorIsSafe,
           Late!ToldIsCurrent, Late!ClearedStaysEmpty, Late!Waits, Late!IsLive
  <2>4. Late!PagesAreBehind'
    BY <2>1 DEF Late!RecoveryInv, Late!PagesAreBehind, Late!IsBehind, Late!IsLive
  <2> QED BY <2>2, <2>3, <2>4 DEF Late!RecoveryInv
<1>2. ASSUME NEW p \in Proc, Late!LoopStep(p) PROVE Late!RecoveryInv'
    BY <1>2, ReadPageKeeps, OpenKeeps, ReadRowsKeeps, RecordKeeps, LeavesKeep, SkipsKeep, FailuresKeep,
       PublishKeeps
       DEF Late!LoopStep
<1>3. ASSUME NEW p \in Proc, Late!ReadFails(p) \/ Late!ScanFails(p) \/ Late!Crash(p)
      PROVE Late!RecoveryInv'
    BY <1>3, LeavesKeep, FailuresKeep
<1>4. ASSUME NEW p \in Proc, NEW b \in Late!Binding, Late!BackstopDue(p, b) PROVE Late!RecoveryInv'
    BY <1>4, BackstopKeeps
<1>5. ASSUME NEW b \in Late!Binding, NEW k \in Kinds, NEW noticed \in BOOLEAN, Late!Append_(b, k, noticed)
      PROVE Late!RecoveryInv'
    BY <1>5, AppendKeeps
<1>6. ASSUME NEW b \in Late!Binding, NEW n \in Late!Seq_, Late!FileAppears(b, n) PROVE Late!RecoveryInv'
    BY <1>6, FileKeeps
<1>7. ASSUME NEW a \in Late!Agent, Late!Bind(a) \/ Late!Revoke(a) \/ Late!Clear(a) \/ Late!SetAllowed(a)
      PROVE Late!RecoveryInv'
    BY <1>7, BindKeeps, RevokeKeeps, ClearKeeps, SetAllowedKeeps
<1> QED BY <1>1, <1>2, <1>3, <1>4, <1>5, <1>6, <1>7 DEF Late!Next, Late!Calm

\* The inductive invariant of the recovery of replies, for any number of loops,
\* agents, bindings and rows: epochs are used once and in order, cursors and
\* receipts are about rows that exist, and what a loop has read is behind them.
THEOREM RecoveryInvariant == Late!Spec => []RecoveryInv
<1>1. Late!Init => Late!RecoveryInv
    BY RecoveryInit
<1>2. Late!RecoveryInv /\ [Late!Next]_(Late!vars) => Late!RecoveryInv'
    BY RecoveryStep
<1> QED BY <1>1, <1>2, PTL DEF Late!Spec, RecoveryInv

\* No reply is passed over or recorded twice, browsers have the last version of
\* what is not marked as unpublished, and a deleted chat stays empty.
THEOREM RecoverySafe == Late!Spec => []Late!RecoverySafety
<1>1. Late!RecoveryInv => Late!RecoverySafety
    BY DEF Late!RecoveryInv
<1> QED BY <1>1, RecoveryInvariant, PTL DEF RecoveryInv

-----------------------------------------------------------------------------
(* What no step of a loop takes back.                                         *)

\* Browsers are not ahead of the chat, and a text has no version with a file, a
\* file no version without.
Versions ==
    /\ \A d \in Late!Binding, n \in Late!Seq_ :
          told[d][n] <= IF Late!IsLive(d) THEN chat[d][n] ELSE 0
    /\ \A d \in Late!Binding : \A n \in DOMAIN log[d] :
          /\ log[d][n] = "text" => chat[d][n] # 2
          /\ log[d][n] = "file" => chat[d][n] # 1

\* A step that goes on only.
Forward == Versions' /\ Late!NothingTakenBack /\ Late!WrittenInScope

\* The numbers that are compared.
LEMMA VersionTypes ==
    ASSUME Late!RecoveryInv
    PROVE  /\ \A d \in Late!Binding : read[d] \in Nat
           /\ \A d \in Late!Binding, n \in Late!Seq_ : chat[d][n] \in 0 .. 2 /\ told[d][n] \in 0 .. 2
           /\ MaxRow \in Nat
BY RecoveryAssumption DEF Late!RecoveryInv, Late!TypeOK

\* A step that leaves rows, messages and bindings alone.
LEMMA RestForward ==
    ASSUME Late!RecoveryInv, Versions, UNCHANGED <<read, chat, told, live, log>>
    PROVE  Forward
<1>1. Versions'
    BY DEF Versions, Late!IsLive
<1>2. Late!NothingTakenBack
    BY VersionTypes DEF Late!NothingTakenBack
<1>3. Late!WrittenInScope
    BY DEF Late!WrittenInScope
<1> QED BY <1>1, <1>2, <1>3 DEF Forward

\* The browsers get what the chat has.
LEMMA TellForward ==
    ASSUME Late!RecoveryInv, Versions, UNCHANGED <<read, chat, live, log>>,
           NEW b \in Late!Binding, Late!IsLive(b), NEW n \in Late!Seq_,
           told' = [told EXCEPT ![b] = Late!Shown(b, n)]
    PROVE  Forward
<1>1. told \in [Late!Binding -> [Late!Seq_ -> 0 .. 2]]
    BY DEF Late!RecoveryInv, Late!TypeOK
<1>2. \A m \in Late!Seq_ : Late!Shown(b, n)[m] \in {told[b][m], chat[b][m]}
    BY <1>1 DEF Late!Shown
<1>3. \A d \in Late!Binding, m \in Late!Seq_ :
         told'[d][m] = told[d][m] \/ (d = b /\ told'[d][m] = chat[d][m])
    BY <1>1, <1>2
<1>4. \A d \in Late!Binding, m \in Late!Seq_ :
         /\ told'[d][m] <= IF Late!IsLive(d) THEN chat[d][m] ELSE 0
         /\ told'[d][m] >= told[d][m]
    BY <1>3, VersionTypes DEF Versions
<1>5. Versions'
    BY <1>4 DEF Versions, Late!IsLive
<1>6. Late!NothingTakenBack
    BY <1>4, VersionTypes DEF Late!NothingTakenBack
<1>7. Late!WrittenInScope
    BY DEF Late!WrittenInScope
<1> QED BY <1>5, <1>6, <1>7 DEF Forward

\* A version recorded is not older than the one the chat has.
LEMMA RecordForward ==
    ASSUME Late!RecoveryInv, Versions, NEW p \in Proc, Late!RecordPage(p)
    PROVE  Forward
<1> DEFINE b == Late!Here(p).b
<1>1. b \in Late!Binding /\ Late!IsLive(b) /\ allowed[b[1]] = "yes"
    BY PageRecords
<1>2. PICK k \in 0 .. Len(log[b]), all \in SUBSET (DOMAIN log[b]), v \in Seq(Late!Seq_) : Records(b, k, all, v)
    BY PageRecords
<1>3. UNCHANGED <<told, live, log>>
    BY DEF Late!RecordPage, Late!guest, Late!epochs
<1> HIDE DEF b
<1>4. /\ read \in [Late!Binding -> 0 .. MaxRow] /\ chat \in [Late!Binding -> [Late!Seq_ -> 0 .. 2]]
      /\ all \in SUBSET Late!Seq_ /\ DOMAIN log[b] \in SUBSET Late!Seq_
  <2>1. all \in SUBSET Late!Seq_ /\ DOMAIN log[b] \in SUBSET Late!Seq_
    BY <1>1, <1>2, RecordTypes
  <2> QED BY <2>1 DEF Late!RecoveryInv, Late!TypeOK
<1>5. ASSUME NEW n \in Late!Seq_
      PROVE  chat'[b][n] = IF n \in all THEN Late!Version(b, n) ELSE chat[b][n]
    BY <1>1, <1>2, <1>4, <1>5 DEF Records
<1>6. \A d \in Late!Binding : d # b => read'[d] = read[d] /\ chat'[d] = chat[d]
    BY <1>1, <1>2, <1>4 DEF Records
<1>7. read'[b] = k /\ k \in Nat /\ read[b] <= k
  <2>1. k \in Int /\ 0 <= k
    OBVIOUS
  <2> QED BY <1>1, <1>2, <1>4, <2>1 DEF Records
<1>8. ASSUME NEW n \in all
      PROVE  /\ Late!Version(b, n) \in 0 .. 2 /\ Late!Version(b, n) >= chat[b][n]
             /\ log[b][n] = "text" => Late!Version(b, n) # 2
             /\ log[b][n] = "file" => Late!Version(b, n) # 1
  <2>1. n \in DOMAIN log[b] /\ n \in Late!Seq_ /\ chat[b][n] \in {0, 1, 2} /\ log[b] \in Seq(Late!Kind)
    BY <1>1, <1>4, <1>8 DEF Late!RecoveryInv, Late!TypeOK
  <2>2. log[b][n] \in {"text", "media", "file"}
    <3>1. log[b][n] \in Late!Kind
        BY <2>1
    <3> QED BY <1>2, <3>1 DEF Records, Late!Kind
  <2>3. /\ log[b][n] = "text" => chat[b][n] # 2
        /\ log[b][n] = "file" => chat[b][n] # 1
    BY <1>1, <2>1 DEF Versions
  <2> QED BY <2>1, <2>2, <2>3 DEF Late!Version
<1>9. \A n \in Late!Seq_ : chat'[b][n] \in 0 .. 2 /\ chat'[b][n] >= chat[b][n]
    BY <1>1, <1>5, <1>8, VersionTypes
<1>10. Versions'
  <2>1. ASSUME NEW d \in Late!Binding, NEW n \in Late!Seq_
        PROVE  told[d][n] <= IF Late!IsLive(d) THEN chat'[d][n] ELSE 0
    <3>1. told[d][n] <= IF Late!IsLive(d) THEN chat[d][n] ELSE 0
        BY DEF Versions
    <3>2. CASE d = b
        BY <1>1, <1>9, <3>1, <3>2, VersionTypes
    <3>3. CASE d # b
        BY <1>6, <3>1, <3>3
    <3> QED BY <3>2, <3>3
  <2>2. ASSUME NEW d \in Late!Binding, NEW n \in DOMAIN log[d]
        PROVE  /\ log[d][n] = "text" => chat'[d][n] # 2
               /\ log[d][n] = "file" => chat'[d][n] # 1
    <3>1. /\ log[d][n] = "text" => chat[d][n] # 2
          /\ log[d][n] = "file" => chat[d][n] # 1
        BY DEF Versions
    <3>2. CASE d = b
      <4>1. n \in Late!Seq_
        BY <1>4, <3>2
      <4>2. CASE n \in all
        BY <1>5, <1>8, <3>2, <4>1, <4>2
      <4>3. CASE n \notin all
        BY <1>5, <3>1, <3>2, <4>1, <4>3
      <4> QED BY <4>2, <4>3
    <3>3. CASE d # b
        BY <1>6, <3>1, <3>3
    <3> QED BY <3>2, <3>3
  <2> QED BY <1>3, <2>1, <2>2 DEF Versions, Late!IsLive
<1>11. Late!NothingTakenBack
  <2>1. \A d \in Late!Binding : read'[d] >= read[d]
    BY <1>6, <1>7, VersionTypes
  <2>2. \A d \in Late!Binding, n \in Late!Seq_ : chat'[d][n] >= chat[d][n] /\ told'[d][n] >= told[d][n]
    BY <1>3, <1>6, <1>9, VersionTypes
  <2> QED BY <2>1, <2>2 DEF Late!NothingTakenBack
<1>12. Late!WrittenInScope
    BY <1>1, <1>6 DEF Late!WrittenInScope
<1> QED BY <1>10, <1>11, <1>12 DEF Forward

\* A row just written has no message yet.
LEMMA AppendForward ==
    ASSUME Late!RecoveryInv, Versions,
           NEW b \in Late!Binding, NEW k, NEW noticed, Late!Append_(b, k, noticed)
    PROVE  Forward
<1>1. /\ UNCHANGED <<read, chat, told, live>> /\ Late!IsLive(b) /\ log' = [log EXCEPT ![b] = Append(@, k)]
    BY DEF Late!Append_, Late!durable, Late!epochs
<1>2. log \in [Late!Binding -> Seq(Late!Kind)] /\ Len(log[b]) \in Nat /\ Len(log[b]) < MaxRow /\ MaxRow \in Nat
    BY RecoveryAssumption DEF Late!RecoveryInv, Late!TypeOK, Late!Append_
<1>3. \A n \in Late!Seq_ : n > Len(log[b]) => chat[b][n] = 0
    BY <1>1 DEF Late!RecoveryInv, Late!RowsExist
<1>4. ASSUME NEW d \in Late!Binding, NEW n \in DOMAIN log'[d]
      PROVE  /\ log'[d][n] = "text" => chat[d][n] # 2
             /\ log'[d][n] = "file" => chat[d][n] # 1
  <2>1. CASE n \in DOMAIN log[d]
    <3>1. log'[d][n] = log[d][n]
        BY <1>1, <1>2, <2>1
    <3> QED BY <2>1, <3>1 DEF Versions
  <2>2. CASE n \notin DOMAIN log[d]
    <3>1. d = b /\ n = Len(log[b]) + 1
        BY <1>1, <1>2, <2>2
    <3>2. n \in Late!Seq_ /\ n > Len(log[b])
        BY <1>2, <3>1 DEF Late!Seq_
    <3> QED BY <1>3, <3>1, <3>2
  <2> QED BY <2>1, <2>2
<1>5. Versions'
    BY <1>1, <1>4 DEF Versions, Late!IsLive
<1>6. Late!NothingTakenBack
    BY <1>1, VersionTypes DEF Late!NothingTakenBack
<1>7. Late!WrittenInScope
    BY <1>1 DEF Late!WrittenInScope
<1> QED BY <1>5, <1>6, <1>7 DEF Forward

\* A new binding has told nothing.
LEMMA BindForward ==
    ASSUME Late!RecoveryInv, Versions, NEW a \in Late!Agent, Late!Bind(a)
    PROVE  Forward
<1>1. UNCHANGED <<read, chat, told, log>>
    BY DEF Late!Bind, Late!durable, Late!guest
<1>2. \A d \in Late!Binding : Late!IsLive(d) => Late!IsLive(d)'
  <2>1. live' = [live EXCEPT ![a] = born[a] + 1] /\ live[a] = 0
    BY DEF Late!Bind
  <2>2. live \in [Late!Agent -> 0 .. MaxEpoch]
    BY DEF Late!RecoveryInv, Late!TypeOK
  <2>3. \A d \in Late!Binding : d[1] \in Late!Agent /\ d[2] # 0
    BY DEF Late!Binding
  <2> QED BY <2>1, <2>2, <2>3 DEF Late!IsLive
<1>3. ASSUME NEW d \in Late!Binding, NEW n \in Late!Seq_
      PROVE  told[d][n] <= IF Late!IsLive(d)' THEN chat[d][n] ELSE 0
  <2>1. told[d][n] <= IF Late!IsLive(d) THEN chat[d][n] ELSE 0
    BY DEF Versions
  <2>2. chat[d][n] \in 0 .. 2 /\ told[d][n] \in 0 .. 2
    BY VersionTypes
  <2> QED BY <1>2, <2>1, <2>2
<1>4. Versions'
    BY <1>1, <1>3 DEF Versions
<1>5. Late!NothingTakenBack
    BY <1>1, VersionTypes DEF Late!NothingTakenBack
<1>6. Late!WrittenInScope
    BY <1>1 DEF Late!WrittenInScope
<1> QED BY <1>4, <1>5, <1>6 DEF Forward

\* What goes with a binding was that binding's; its chat goes by deletion only.
LEMMA DropForward ==
    ASSUME Late!RecoveryInv, Versions, NEW a \in Late!Agent, Late!Revoke(a) \/ Late!Clear(a)
    PROVE  Forward
<1> DEFINE b == <<a, live[a]>>
           mine == {d \in Late!Binding : d[1] = a /\ d[2] <= born[a]}
<1>1. /\ live[a] # 0 /\ live' = [live EXCEPT ![a] = 0] /\ read' = [read EXCEPT ![b] = 0]
      /\ told' = [told EXCEPT ![b] = [n \in Late!Seq_ |-> 0]] /\ log' = log
    BY DEF Late!Revoke, Late!Clear, Late!Drop, Late!guest
<1>2. \/ chat' = chat
      \/ /\ cleared' = cleared \cup mine
         /\ chat' = [d \in Late!Binding |-> IF d \in mine THEN [n \in Late!Seq_ |-> 0] ELSE chat[d]]
    BY DEF Late!Revoke, Late!Clear
<1>3. /\ live \in [Late!Agent -> 0 .. MaxEpoch] /\ read \in [Late!Binding -> 0 .. MaxRow]
      /\ told \in [Late!Binding -> [Late!Seq_ -> 0 .. 2]]
    BY DEF Late!RecoveryInv, Late!TypeOK
<1>4. \A d \in Late!Binding : d = <<d[1], d[2]>> /\ d[1] \in Late!Agent /\ d[2] # 0
    BY DEF Late!Binding
<1>5. \A d \in Late!Binding : Late!IsLive(d)' <=> Late!IsLive(d) /\ d[1] # a
    BY <1>1, <1>3, <1>4 DEF Late!IsLive
<1>6. \A d \in Late!Binding : d[1] # a => read'[d] = read[d] /\ chat'[d] = chat[d] /\ told'[d] = told[d]
  <2>1. b[1] = a /\ \A d \in mine : d[1] = a
    OBVIOUS
  <2> HIDE DEF b, mine
  <2> QED BY <1>1, <1>2, <1>3, <2>1
<1>7. ASSUME NEW d \in Late!Binding, d[1] = a, NEW n \in Late!Seq_ PROVE told'[d][n] = 0
  <2>1. CASE d = b
    BY <1>1, <1>3, <2>1
  <2>2. CASE d # b
    <3>1. ~Late!IsLive(d)
        BY <1>4, <1>7, <2>2 DEF Late!IsLive
    <3>2. told[d][n] = 0
      <4>1. told[d][n] <= 0 /\ told[d][n] \in 0 .. 2
        BY <3>1, VersionTypes DEF Versions
      <4> QED BY <4>1
    <3> QED BY <1>1, <1>3, <2>2, <3>2
  <2> QED BY <2>1, <2>2
<1>8. ASSUME NEW d \in Late!Binding, NEW n \in Late!Seq_
      PROVE  told'[d][n] <= IF Late!IsLive(d)' THEN chat'[d][n] ELSE 0
  <2>1. CASE d[1] = a
    BY <1>5, <1>7, <2>1
  <2>2. CASE d[1] # a
    BY <1>5, <1>6, <2>2 DEF Versions
  <2> QED BY <2>1, <2>2
<1>9. ASSUME NEW d \in Late!Binding, NEW n \in DOMAIN log[d]
      PROVE  /\ log[d][n] = "text" => chat'[d][n] # 2
             /\ log[d][n] = "file" => chat'[d][n] # 1
  <2>1. n \in Late!Seq_
    BY RecoveryAssumption DEF Late!RecoveryInv, Late!TypeOK, Late!RowsExist, Late!Seq_
  <2>2. chat'[d][n] \in {chat[d][n], 0}
    BY <1>2, <2>1
  <2> QED BY <2>2 DEF Versions
<1>10. Versions'
    BY <1>1, <1>8, <1>9 DEF Versions
<1>11. Late!NothingTakenBack
    BY <1>5, <1>6, VersionTypes DEF Late!NothingTakenBack
<1>12. Late!WrittenInScope
    BY <1>2 DEF Late!WrittenInScope
<1> QED BY <1>10, <1>11, <1>12 DEF Forward

LEMMA VersionsInit == ASSUME Late!Init PROVE Versions
<1>1. \A d \in Late!Binding : log[d] = <<>> /\ \A n \in Late!Seq_ : told[d][n] = 0 /\ chat[d][n] = 0
    BY DEF Late!Init
<1> QED BY <1>1 DEF Versions

\* No step goes back.
LEMMA StepForward ==
    ASSUME Late!RecoveryInv, Versions, Late!Next PROVE Forward
<1> USE DEF Late!durable, Late!guest, Late!epochs
<1>1. ASSUME NEW p \in Proc,
             \/ Late!ReadPage(p) \/ Late!OpenTranscript(p) \/ Late!ReadRows(p) \/ Late!SkipRecord(p)
             \/ Late!Refused(p) \/ Late!Expired(p) \/ Late!SkipPublish(p) \/ Late!EndGroup(p)
             \/ Late!ReadFails(p)
      PROVE  Forward
  <2>1. UNCHANGED <<read, chat, told, live, log>>
    BY <1>1 DEF Late!ReadPage, Late!OpenTranscript, Late!ReadRows, Late!SkipRecord, Late!Refused,
       Late!Expired, Late!SkipPublish, Late!EndGroup, Late!ReadFails
  <2> QED BY <2>1, RestForward
<1>2. ASSUME NEW p \in Proc, Late!RecordPage(p) PROVE Forward
    BY <1>2, RecordForward
<1>3. ASSUME NEW p \in Proc, Late!Publish(p) \/ Late!ScanFails(p) \/ Late!Crash(p) PROVE Forward
  <2> DEFINE b == Late!Here(p).b
             n == Late!Lowest(proc[p].pubs)
  <2>1. UNCHANGED <<read, chat, live, log>>
    BY <1>3 DEF Late!Publish, Late!ScanFails, Late!Crash
  <2>2. \/ told' = told
        \/ /\ proc[p].pc = "publish" /\ proc[p].pubs # {} /\ Late!IsLive(b)
           /\ told' = [told EXCEPT ![b] = Late!Shown(b, n)]
    BY <1>3 DEF Late!Publish, Late!ScanFails, Late!Crash, Late!MaybeTold, Late!Authorized
  <2>3. proc[p].pc = "publish" /\ proc[p].pubs # {} => b \in Late!Binding /\ n \in Late!Seq_
    BY HereIsOfPage, LowestIsMember
  <2> HIDE DEF b, n
  <2> QED BY <2>1, <2>2, <2>3, RestForward, TellForward
<1>4. ASSUME NEW p \in Proc, NEW b \in Late!Binding, Late!BackstopDue(p, b) PROVE Forward
  <2>1. UNCHANGED <<read, chat, told, live, log>>
    BY <1>4 DEF Late!BackstopDue
  <2> QED BY <2>1, RestForward
<1>5. ASSUME NEW b \in Late!Binding, NEW k \in Kinds, NEW noticed \in BOOLEAN, Late!Append_(b, k, noticed)
      PROVE  Forward
    BY <1>5, AppendForward
<1>6. ASSUME NEW b \in Late!Binding, NEW n \in Late!Seq_, Late!FileAppears(b, n) PROVE Forward
  <2>1. UNCHANGED <<read, chat, told, live, log>>
    BY <1>6 DEF Late!FileAppears
  <2> QED BY <2>1, RestForward
<1>7. ASSUME NEW a \in Late!Agent, Late!Bind(a) \/ Late!Revoke(a) \/ Late!Clear(a) \/ Late!SetAllowed(a)
      PROVE  Forward
  <2>1. CASE Late!SetAllowed(a)
    <3>1. UNCHANGED <<read, chat, told, live, log>>
        BY <2>1 DEF Late!SetAllowed
    <3> QED BY <3>1, RestForward
  <2> QED BY <1>7, <2>1, BindForward, DropForward
<1> QED BY <1>1, <1>2, <1>3, <1>4, <1>5, <1>6, <1>7 DEF Late!Next, Late!Calm, Late!LoopStep

\* However late a loop is, it takes back no cursor, no message and nothing the
\* browsers were told, and it writes for a live binding of an agent that may
\* work, for any number of loops, agents, bindings and rows.
THEOREM RecoveryGoesOn == Late!Spec => RecoveryRules
<1> DEFINE Inv == Late!RecoveryInv /\ Versions
           OnlyOn == Late!NothingTakenBack /\ Late!WrittenInScope
<1>1. Late!Init => Inv
    BY RecoveryInit, VersionsInit
<1>2. Inv /\ [Late!Next]_(Late!vars) => Inv' /\ [OnlyOn]_(Late!vars)
  <2> SUFFICES ASSUME Inv, [Late!Next]_(Late!vars) PROVE Inv' /\ [OnlyOn]_(Late!vars)
    OBVIOUS
  <2>1. Late!RecoveryInv'
    BY RecoveryStep
  <2>2. CASE Late!Next
    BY <2>1, <2>2, StepForward DEF Forward
  <2>3. CASE UNCHANGED Late!vars
    <3>1. UNCHANGED <<read, chat, told, live, log>>
        BY <2>3 DEF Late!vars, Late!durable, Late!guest, Late!epochs
    <3> QED BY <2>1, <2>3, <3>1, RestForward DEF Forward
  <2> QED BY <2>2, <2>3
<1> HIDE DEF Inv, OnlyOn
<1>3. Late!Spec => [][OnlyOn]_(Late!vars)
    BY <1>1, <1>2, PTL DEF Late!Spec
<1> QED BY <1>3 DEF OnlyOn, RecoveryRules, Late!RecoveryRules
=============================================================================
