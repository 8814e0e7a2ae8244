------------------------------ MODULE MCReplies ------------------------------
(* ReportRelay, PersonalLink and DelayedReplies for TLC, side by side: moving *)
(* chooses the one that moves, the others stay in their initial states, where *)
(* no fair action is enabled.                                                 *)
EXTENDS ReportRelay

CONSTANTS
    Cmd, Run, MaxGen,   \* of PersonalLink: a run has one token
    Proc, Agents, Page, Rows, Receipts, MaxRow, MaxEpoch, Kinds, Verdicts   \* of DelayedReplies

ASSUME RunAssumption == NoToken \notin Run

VARIABLES
    moving,
    linked, desired, purge, gen, epoch, holder, leased, auth, parent, carried, seen,
    child, pipe, entry, outbox, wire, acks, row, rowRoute, rowClaim, relay, displayed,
    live, born, allowed, log, file, read, waiting, chat, flag, told, cleared, idle, after, proc

Link == INSTANCE PersonalLink WITH
    Token <- Run, state <- linked, inbox <- pipe, shown <- displayed

Late == INSTANCE DelayedReplies WITH cursor <- read

ASSUME RecoveryAssumption ==
    /\ Agents \in Nat /\ MaxRow \in Nat /\ MaxEpoch \in Nat
    /\ Page \in Nat /\ Rows \in Nat /\ Receipts \in Nat
    /\ Kinds \subseteq Late!Kind /\ Verdicts \subseteq Late!Verdict

linkVars ==
    <<linked, desired, purge, gen, epoch, holder, leased, auth, parent, carried, seen,
      child, pipe, entry, outbox, wire, acks, row, rowRoute, rowClaim, relay, displayed>>
delayedVars ==
    <<live, born, allowed, log, file, read, waiting, chat, flag, told, cleared, idle, after, proc>>
mcVars == <<moving, vars, linkVars, delayedVars>>

Moves(c) ==
    /\ moving = c
    /\ UNCHANGED moving
    /\ c # "relay" => UNCHANGED vars
    /\ c # "link" => UNCHANGED linkVars
    /\ c # "delayed" => UNCHANGED delayedVars

\* Bound: of the two agents one has replies of its own, the other fills a page.
OneWrites == \E a \in 1 .. Agents : \A b \in DOMAIN log' : b[1] # a => log'[b] = <<>>

MCInit ==
    /\ Init /\ Link!Init /\ Late!Init
    /\ moving \in {"relay", "link", "delayed"}

MCNext ==
    \/ Next /\ Moves("relay")
    \/ Link!Next /\ Moves("link")
    \/ Late!Next /\ OneWrites /\ Moves("delayed")

MCSpec ==
    /\ MCInit /\ [][MCNext]_mcVars
    /\ Fairness /\ Link!Fairness /\ Late!Fairness

\* Without an engine crash every chunk handed to the journal ends delivered or
\* failed, and a revoked claim is given back.
RepliesSettle == Link!RepliesSettle

\* What is said of a chunk stays true, and it goes one way under the claim its
\* row names; one child at a time, and purged credentials stay purged.
LinkInv == Link!LinkInv

\* To the relay the link is a journal that answers each chunk once and truly.
RefinesChunkSend == Link!RefinesChunkSend

\* A reply the guest gave on its own reaches the browsers in its last version,
\* when its agent stays allowed to work.
RepliesShown == Late!ShownInTheEnd

\* No reply is skipped, recorded twice or resurrected after its chat was
\* deleted, and what is marked as published was, in its last version.
RecoveryInv == Late!RecoveryInv

\* A slow loop takes back nothing of what a faster one did, and writes for a
\* live binding of an agent that may work, or not at all.
RecoveryRules == Late!RecoveryRules
=============================================================================
