---------------------------- MODULE ReportRelay ----------------------------
(***************************************************************************)
(* Durable delivery of completed answers: gateway_report_deliveries rows   *)
(* ("intents"), the leases of the workers that deliver them, the immutable *)
(* chunk plan of an IM destination with its cursor, and the agent          *)
(* destination whose inbox row and acknowledgement commit together.        *)
(*                                                                         *)
(* Time is relative: lease, wait and left count the ticks that remain.     *)
(* An IM provider answers on the request: it accepts or refuses a chunk    *)
(* while the worker waits for it.  Personal WhatsApp, whose sends go       *)
(* through a journal of their own, is not one of these destinations.       *)
(*                                                                         *)
(* A worker's attempt is cut off after Deadline (fail_after(45)); its      *)
(* lease lasts Lease (60 s) and is never renewed.  What a worker does      *)
(* after a network wait is fenced by its token and an unexpired lease.     *)
(***************************************************************************)
EXTENDS Naturals

CONSTANTS
    Intent,
    ImIntent,   \* the intents with an IM destination; the others go to agents
    Token,      \* claim tokens
    NoToken,
    Lease,      \* lease_seconds of claim_batch
    Deadline,   \* fail_after of deliver_claim
    MaxChunks,  \* bound: chunks of a plan
    MaxDelay    \* bound: retry delay

ASSUME RelayAssumption ==
    /\ ImIntent \subseteq Intent
    /\ NoToken \notin Token
    /\ Lease \in Nat /\ Deadline \in Nat /\ Deadline < Lease
    /\ MaxChunks \in Nat \ {0}
    /\ MaxDelay \in Nat \ {0}

VARIABLES
    source,     \* intents whose source message is completed
    token,      \* claim_token
    lease,      \* lease_expires_at - now, 0 when expired or NULL
    wait,       \* available_at - now
    state,      \* open, delivered (delivered_at) or terminal (terminal_at)
    plan,       \* number of chunks of im_plan; 0 is NULL
    cursor,     \* next_chunk
    jobs,       \* attempts in progress, with the claim record they carry
    shown,      \* ordinal + 1 of the chunk the provider last accepted; 0 none
    inbox       \* replies enqueued for the destination agent

intentVars == <<token, lease, wait, state, plan, cursor>>
vars == <<source, intentVars, jobs, shown, inbox>>

\* start: claimed, preparing; send: validated and planned, the request may be
\* out; sent: the provider has acknowledged; retry, reject: the attempt ended
\* in a retryable or a conclusive error that is still to be recorded.
Job == [intent : Intent, token : Token, ord : Nat, left : Nat,
        pc : {"start", "send", "sent", "retry", "reject"}]

\* The attempt is still under its deadline: it may write or send.
Active(j) == j.pc \in {"start", "send", "sent"}

TypeOK ==
    /\ source \subseteq Intent
    /\ token \in [Intent -> Token \cup {NoToken}]
    /\ lease \in [Intent -> Nat]
    /\ wait \in [Intent -> Nat]
    /\ state \in [Intent -> {"open", "delivered", "terminal"}]
    /\ plan \in [Intent -> Nat]
    /\ cursor \in [Intent -> Nat]
    /\ jobs \subseteq Job
    /\ shown \in [Intent -> Nat]
    /\ inbox \in [Intent -> Nat]

Init ==
    /\ source = {}
    /\ token = [i \in Intent |-> NoToken]
    /\ lease = [i \in Intent |-> 0]
    /\ wait = [i \in Intent |-> 0]
    /\ state = [i \in Intent |-> "open"]
    /\ plan = [i \in Intent |-> 0]
    /\ cursor = [i \in Intent |-> 0]
    /\ jobs = {}
    /\ shown = [i \in Intent |-> 0]
    /\ inbox = [i \in Intent |-> 0]

\* _FENCE: every write and lock of a claim requires the token, an open intent
\* and an unexpired lease.
Fence(j) ==
    /\ token[j.intent] = j.token
    /\ state[j.intent] = "open"
    /\ lease[j.intent] > 0

At(j, pc) == (jobs \ {j}) \cup {[j EXCEPT !.pc = pc]}

\* The claim is given up together with the write that records the outcome.
Unclaim(i) ==
    /\ token' = [token EXCEPT ![i] = NoToken]
    /\ lease' = [lease EXCEPT ![i] = 0]

\* LostClaimError: the fence failed, the attempt ends and changes nothing.
Lost(j) ==
    /\ ~Fence(j)
    /\ jobs' = jobs \ {j}
    /\ UNCHANGED <<intentVars, shown, inbox>>

-----------------------------------------------------------------------------
\* record_report completes the source; until then the intent is not claimable.
Complete(i) ==
    /\ i \notin source
    /\ source' = source \cup {i}
    /\ UNCHANGED <<intentVars, jobs, shown, inbox>>

\* Mutants: a live lease does not exclude a claim; an expired one does.
ClaimLeased(i) ==
    /\ i \in source /\ state[i] = "open" /\ wait[i] = 0
    /\ \E k \in Token :
          /\ \A j \in jobs : j.intent = i => j.token # k
          /\ k # token[i]
          /\ token' = [token EXCEPT ![i] = k]
          /\ jobs' = jobs \cup {[intent |-> i, token |-> k, ord |-> cursor[i],
                                 left |-> Deadline, pc |-> "start"]}
    /\ lease' = [lease EXCEPT ![i] = Lease]
    /\ UNCHANGED <<source, wait, state, plan, cursor, shown, inbox>>
ClaimUntaken(i) ==
    /\ i \in source /\ state[i] = "open" /\ wait[i] = 0 /\ token[i] = NoToken
    /\ \E k \in Token :
          /\ \A j \in jobs : j.intent = i => j.token # k
          /\ token' = [token EXCEPT ![i] = k]
          /\ jobs' = jobs \cup {[intent |-> i, token |-> k, ord |-> cursor[i],
                                 left |-> Deadline, pc |-> "start"]}
    /\ lease' = [lease EXCEPT ![i] = Lease]
    /\ UNCHANGED <<source, wait, state, plan, cursor, shown, inbox>>

\* claim_batch: a due, open intent without a live lease gets a new token.
Claim(i) ==
    /\ i \in source
    /\ state[i] = "open"
    /\ wait[i] = 0
    /\ lease[i] = 0
    /\ \E k \in Token :
          /\ \A j \in jobs : j.intent = i => j.token # k
          /\ k # token[i]
          /\ token' = [token EXCEPT ![i] = k]
          /\ jobs' = jobs \cup {[intent |-> i, token |-> k, ord |-> cursor[i],
                                 left |-> Deadline, pc |-> "start"]}
    /\ lease' = [lease EXCEPT ![i] = Lease]
    /\ UNCHANGED <<source, wait, state, plan, cursor, shown, inbox>>

\* The transaction before the first byte goes out: fence, identity checks, and
\* the plan when there is none yet; committed before the send.
PrepareSend(j) ==
    /\ j.pc = "start" /\ j.left > 0
    /\ j.intent \in ImIntent
    /\ Fence(j)
    /\ \/ plan[j.intent] > 0 /\ UNCHANGED plan
       \/ /\ plan[j.intent] = 0
          /\ \E n \in 1..MaxChunks : plan' = [plan EXCEPT ![j.intent] = n]
    /\ jobs' = At(j, "send")
    /\ UNCHANGED <<source, token, lease, wait, state, cursor, shown, inbox>>

\* The provider accepts chunk next_chunk of the claim record; whether the
\* worker learns of it is another matter.
ProviderAccepts(j, pc) ==
    /\ j.pc = "send" /\ j.left > 0
    /\ shown' = [shown EXCEPT ![j.intent] = j.ord + 1]
    /\ jobs' = At(j, pc)
    /\ UNCHANGED <<source, intentVars, inbox>>

\* Mutants: the cursor moves before the provider has answered; the intent is
\* delivered one chunk early.
CheckpointEarly(j) ==
    /\ j.pc \in {"send", "sent"} /\ j.left > 0
    /\ Fence(j)
    /\ cursor[j.intent] = j.ord
    /\ cursor' = [cursor EXCEPT ![j.intent] = j.ord + 1]
    /\ state' = [state EXCEPT ![j.intent] = IF j.ord + 1 = plan[j.intent] THEN "delivered" ELSE "open"]
    /\ wait' = [wait EXCEPT ![j.intent] = 0]
    /\ Unclaim(j.intent)
    /\ jobs' = jobs \ {j}
    /\ UNCHANGED <<source, plan, shown, inbox>>
CheckpointShort(j) ==
    /\ j.pc = "sent" /\ j.left > 0
    /\ Fence(j)
    /\ cursor[j.intent] = j.ord
    /\ cursor' = [cursor EXCEPT ![j.intent] = j.ord + 1]
    /\ state' = [state EXCEPT ![j.intent] = IF j.ord + 2 >= plan[j.intent] THEN "delivered" ELSE "open"]
    /\ wait' = [wait EXCEPT ![j.intent] = 0]
    /\ Unclaim(j.intent)
    /\ jobs' = jobs \ {j}
    /\ UNCHANGED <<source, plan, shown, inbox>>

\* checkpoint_chunk: one ordinal further; the last one delivers the intent.
Checkpoint(j) ==
    /\ j.pc = "sent" /\ j.left > 0
    /\ Fence(j)
    /\ cursor[j.intent] = j.ord
    /\ cursor' = [cursor EXCEPT ![j.intent] = j.ord + 1]
    /\ state' = [state EXCEPT ![j.intent] = IF j.ord + 1 = plan[j.intent] THEN "delivered" ELSE "open"]
    /\ wait' = [wait EXCEPT ![j.intent] = 0]
    /\ Unclaim(j.intent)
    /\ jobs' = jobs \ {j}
    /\ UNCHANGED <<source, plan, shown, inbox>>

\* Mutant: the reply is enqueued without the acknowledgement.
DeliverAgentUnacked(j) ==
    /\ j.pc = "start" /\ j.left > 0
    /\ j.intent \notin ImIntent
    /\ Fence(j)
    /\ inbox[j.intent] < MaxChunks
    /\ inbox' = [inbox EXCEPT ![j.intent] = @ + 1]
    /\ Unclaim(j.intent)
    /\ jobs' = jobs \ {j}
    /\ UNCHANGED <<source, wait, state, plan, cursor, shown>>

\* _deliver_agent: the reply is enqueued and the intent acknowledged in one
\* transaction; a lost fence rolls both back.
DeliverAgent(j) ==
    /\ j.pc = "start" /\ j.left > 0
    /\ j.intent \notin ImIntent
    /\ Fence(j)
    /\ inbox' = [inbox EXCEPT ![j.intent] = @ + 1]
    /\ state' = [state EXCEPT ![j.intent] = "delivered"]
    /\ Unclaim(j.intent)
    /\ jobs' = jobs \ {j}
    /\ UNCHANGED <<source, wait, plan, cursor, shown>>

\* An identity that is gone or changed ends the intent before anything is
\* sent.
FinishIdentity(j) ==
    /\ j.pc = "start" /\ j.left > 0
    /\ Fence(j)
    /\ state' = [state EXCEPT ![j.intent] = "terminal"]
    /\ Unclaim(j.intent)
    /\ jobs' = jobs \ {j}
    /\ UNCHANGED <<source, wait, plan, cursor, shown, inbox>>

\* Preflight, contention on identity locks, changed configuration, provider
\* errors and the deadline end in retry.  A conclusive rejection of an IM
\* payload ends in reject, and so does a route that is gone or whose reply
\* window has closed, which is found before the first transaction as well.
Fail(j) ==
    /\ Active(j)
    /\ \/ jobs' = At(j, "retry")
       \/ /\ j.intent \in ImIntent
          /\ j.pc \in {"start", "send"} /\ j.left > 0
          /\ jobs' = At(j, "reject")
    /\ UNCHANGED <<source, intentVars, shown, inbox>>

Retry(j) ==
    /\ j.pc = "retry"
    /\ Fence(j)
    /\ \E d \in 1..MaxDelay : wait' = [wait EXCEPT ![j.intent] = d]
    /\ Unclaim(j.intent)
    /\ jobs' = jobs \ {j}
    /\ UNCHANGED <<source, state, plan, cursor, shown, inbox>>

\* Mutant: a rejection is recorded without the fence.
FinishUnfenced(j) ==
    /\ j.pc = "reject"
    /\ state' = [state EXCEPT ![j.intent] = "terminal"]
    /\ Unclaim(j.intent)
    /\ jobs' = jobs \ {j}
    /\ UNCHANGED <<source, wait, plan, cursor, shown, inbox>>

FinishTerminal(j) ==
    /\ j.pc = "reject"
    /\ Fence(j)
    /\ state' = [state EXCEPT ![j.intent] = "terminal"]
    /\ Unclaim(j.intent)
    /\ jobs' = jobs \ {j}
    /\ UNCHANGED <<source, wait, plan, cursor, shown, inbox>>

LostClaim(j) == 
    /\ j.pc # "send" 
    /\ Lost(j) 
    /\ UNCHANGED source

\* Process crash or shutdown: the lease stays and expires by itself.
WorkerLost(j) ==
    /\ jobs' = jobs \ {j}
    /\ UNCHANGED <<source, intentVars, shown, inbox>>

\* Mutant: no deadline cuts an attempt off.
TickOverDeadline ==
    /\ lease' = [i \in Intent |-> IF lease[i] > 0 THEN lease[i] - 1 ELSE 0]
    /\ wait' = [i \in Intent |-> IF wait[i] > 0 THEN wait[i] - 1 ELSE 0]
    /\ UNCHANGED <<source, token, state, plan, cursor, jobs, shown, inbox>>

\* Time passes, except over an attempt that has used up its deadline: it is
\* cancelled there.  Recording the outcome is not under the deadline.
Tick ==
    /\ \A j \in jobs : Active(j) => j.left > 0
    /\ lease' = [i \in Intent |-> IF lease[i] > 0 THEN lease[i] - 1 ELSE 0]
    /\ wait' = [i \in Intent |-> IF wait[i] > 0 THEN wait[i] - 1 ELSE 0]
    /\ jobs' = {[j EXCEPT !.left = IF @ > 0 THEN @ - 1 ELSE 0] : j \in jobs}
    /\ UNCHANGED <<source, token, state, plan, cursor, shown, inbox>>

JobStep(j) ==
    \/ PrepareSend(j)
    \/ \E pc \in {"sent", "retry"} : ProviderAccepts(j, pc)
    \/ Checkpoint(j)
    \/ DeliverAgent(j)
    \/ FinishIdentity(j)
    \/ Fail(j)
    \/ Retry(j)
    \/ FinishTerminal(j)
    \/ LostClaim(j)
    \/ WorkerLost(j)

Next ==
    \/ \E i \in Intent : Complete(i) \/ Claim(i)
    \/ \E j \in jobs : JobStep(j)
    \/ Tick

Spec == Init /\ [][Next]_vars

-----------------------------------------------------------------------------
(* Safety.                                                                 *)

\* The attempt owns its intent as long as its deadline has not passed: the
\* deadline is shorter than the lease, so nobody else can have claimed it.
Owns(j) == token[j.intent] = j.token /\ state[j.intent] = "open" /\ lease[j.intent] > j.left

ActiveOwns == \A j \in jobs : Active(j) => Owns(j)

\* Two workers never send to the same destination at the same time, although
\* no transaction spans the network call and leases are never renewed.
OneSender ==
    \A j, k \in jobs : j.intent = k.intent /\ Active(j) /\ Active(k) => j = k

\* A reader of the conversation sees the chunks in order; after a lost
\* checkpoint only the current chunk can appear again.
ChunksInOrder == [][\A i \in Intent : shown'[i] # shown[i] => shown'[i] = shown[i] + 1]_vars

\* The cursor counts exactly what was shown, or is one behind: every
\* checkpointed chunk was accepted, and a chunk is sent only when all chunks
\* before it are checkpointed.
CursorFollows == \A i \in Intent : shown[i] \in {cursor[i], cursor[i] + 1}

\* A delivered IM answer was shown completely.
DeliveredIsComplete ==
    \A i \in ImIntent : state[i] = "delivered" => cursor[i] = plan[i] /\ shown[i] = plan[i] /\ plan[i] > 0

\* The destination agent gets the reply exactly once, and exactly when the
\* intent is acknowledged.
AgentOnce ==
    \A i \in Intent \ ImIntent : inbox[i] = IF state[i] = "delivered" THEN 1 ELSE 0

\* Delivered and terminal intents are final, a plan is never rewritten, the
\* cursor never goes back, and nothing is shown for a finished intent.
Final ==
    [][\A i \in Intent :
          /\ state[i] # "open" => state'[i] = state[i] /\ shown'[i] = shown[i] /\ inbox'[i] = inbox[i]
          /\ plan[i] > 0 => plan'[i] = plan[i]
          /\ cursor'[i] >= cursor[i]]_vars

\* What an attempt carries fits the row it works for: claims of one intent
\* differ in their token, the claimed ordinal is the cursor, only planned IM
\* intents are sent, and an acknowledged chunk was shown.
JobInv ==
    /\ \A j, k \in jobs : j.intent = k.intent /\ j.token = k.token => j = k
    /\ \A j \in jobs : Active(j) => j.ord = cursor[j.intent]
    /\ \A j \in jobs : j.pc \in {"send", "sent"} => j.intent \in ImIntent /\ plan[j.intent] > 0
    /\ \A j \in jobs : j.pc = "sent" => shown[j.intent] = j.ord + 1

\* What the destination sees: one sender at a time, whole answers, and agents
\* told exactly once.
RelaySafety == OneSender /\ DeliveredIsComplete /\ AgentOnce

\* What no attempt does, however late: show chunks out of order, or touch an
\* outcome, a plan or a cursor that is settled.
RelayRules == ChunksInOrder /\ Final

\* The inductive invariant.
RelayInv ==
    /\ TypeOK
    /\ ActiveOwns
    /\ JobInv
    /\ CursorFollows
    /\ DeliveredIsComplete
    /\ AgentOnce

-----------------------------------------------------------------------------
(* Liveness: the relay polls every second, an attempt that is not lost goes *)
(* on, and a destination that keeps being asked answers in the end.        *)

Acknowledged(j) == ProviderAccepts(j, "sent")

JobOf(i, A(_)) == \E j \in jobs : j.intent = i /\ A(j)

Fairness ==
    /\ WF_vars(Tick)
    /\ \A i \in Intent :
          /\ WF_vars(Claim(i))
          /\ WF_vars(JobOf(i, JobStep))
    /\ \A i \in ImIntent :
          /\ SF_vars(JobOf(i, PrepareSend))
          /\ SF_vars(JobOf(i, Acknowledged))
          /\ SF_vars(JobOf(i, Checkpoint))
    /\ \A i \in Intent \ ImIntent : SF_vars(JobOf(i, DeliverAgent))

FairSpec == Spec /\ Fairness

\* A completed answer is delivered or conclusively refused in the end, through
\* crashes, lost leases and retries.
EventuallyDone == \A i \in Intent : i \in source ~> state[i] # "open"
=============================================================================
