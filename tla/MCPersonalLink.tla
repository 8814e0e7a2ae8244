---------------------------- MODULE MCPersonalLink ---------------------------
(* PersonalLink and DelayedReplies of MCReplies for TLC with larger bounds,   *)
(* side by side: moving chooses the link with a chunk to send (sends) or with *)
(* credentials to store (keys), two recovery loops of one agent over two      *)
(* bindings (twice), or one loop over a longer transcript (long).  Commands,  *)
(* claim tokens and loops are interchangeable.                                *)
EXTENDS MCReplies, TLC

LinkMCInit ==
    /\ Init /\ Link!Init /\ Late!Init
    /\ moving \in {"sends", "keys", "twice", "long"}

\* Children with credentials on their way to the parent.
Saved == {t \in Run : \E f \in outbox[t] : f.type = "auth"}

\* Bounds: two loops have one reply with a file to recover from each binding, or
\* two plain replies of the first one; a loop alone has one binding.
OneReply ==
    \/ \A b \in DOMAIN log : log[b] \in {<<>>, <<"media">>}
    \/ \A b \in DOMAIN log : IF b[2] = 1 THEN log[b] \in {<<>>, <<"text">>, <<"text", "text">>} ELSE log[b] = <<>>
OneLoop ==
    \E p \in Proc : \A q \in Proc \ {p} :
        proc[q] = Late!Resting /\ after[q] = 0 /\ \A b \in DOMAIN log : idle[q][b] = "no"

LinkMCNext ==
    /\ UNCHANGED <<moving, vars>>
    /\ \/ moving = "sends" /\ Link!Next /\ Saved' = {} /\ UNCHANGED delayedVars
       \/ moving = "keys" /\ Link!Next /\ UNCHANGED <<relay, delayedVars>>
       \/ moving = "twice" /\ Late!Next /\ OneReply' /\ UNCHANGED <<allowed, linkVars>>
       \/ moving = "long" /\ Late!Next /\ OneLoop' /\ born'[1] <= 1 /\ UNCHANGED linkVars

LinkMCSpec == LinkMCInit /\ [][LinkMCNext]_mcVars

Symmetry == Permutations(Run) \cup Permutations(Cmd) \cup Permutations(Proc)
=============================================================================
