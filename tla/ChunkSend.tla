------------------------------ MODULE ChunkSend ------------------------------
(***************************************************************************)
(* What the Personal link promises the report relay about each chunk,      *)
(* whatever becomes of its claims, children and connections: a chunk is    *)
(* shown at most once, never before the journal says that it is being sent *)
(* or after it was refused; it is answered once, truly, and for good.      *)
(***************************************************************************)
EXTENDS Naturals

CONSTANT Cmd

VARIABLES
    phase,  \* what the journal says: waiting, sending, or how it ended
    shown,  \* how often the chat shows the chunk
    heard   \* what the relay has concluded

vars == <<phase, shown, heard>>

Init ==
    /\ phase = [c \in Cmd |-> "waiting"]
    /\ shown = [c \in Cmd |-> 0]
    /\ heard = [c \in Cmd |-> "nothing"]

\* From here on the chunk may be shown, so it is never sent again.
Start(c) ==
    /\ phase[c] = "waiting"
    /\ phase' = [phase EXCEPT ![c] = "sending"]
    /\ UNCHANGED <<shown, heard>>

\* A send that was given up may still be shown.
Show(c) ==
    /\ phase[c] \in {"sending", "unknown"}
    /\ shown[c] = 0
    /\ shown' = [shown EXCEPT ![c] = 1]
    /\ UNCHANGED <<phase, heard>>

Answer(c) ==
    /\ phase[c] = "sending"
    /\ phase' = [phase EXCEPT ![c] = IF shown[c] = 1 THEN "accepted" ELSE "refused"]
    /\ UNCHANGED <<shown, heard>>

\* The link is revoked, a claim ends: several chunks at once.
Refuse(cs) ==
    /\ \A c \in cs : phase[c] = "waiting"
    /\ phase' = [c \in Cmd |-> IF c \in cs THEN "refused" ELSE phase[c]]
    /\ UNCHANGED <<shown, heard>>

GiveUp(cs) ==
    /\ \A c \in cs : phase[c] = "sending"
    /\ phase' = [c \in Cmd |-> IF c \in cs THEN "unknown" ELSE phase[c]]
    /\ UNCHANGED <<shown, heard>>

\* The relay believes in a delivery only when the journal does; it may fail
\* the chunk at any time, as when the link it was planned for is gone.
Hear(c, what) ==
    /\ heard[c] = "nothing"
    /\ what = "delivered" => phase[c] = "accepted"
    /\ heard' = [heard EXCEPT ![c] = what]
    /\ UNCHANGED <<phase, shown>>

Next ==
    \/ \E c \in Cmd : Start(c) \/ Show(c) \/ Answer(c)
    \/ \E cs \in SUBSET Cmd : Refuse(cs) \/ GiveUp(cs)
    \/ \E c \in Cmd, what \in {"delivered", "failed"} : Hear(c, what)

Spec == Init /\ [][Next]_vars
=============================================================================
