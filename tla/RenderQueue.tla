---- MODULE RenderQueue ----
(***************************************************************************)
(* What the API and the workers together promise about clips: each is a    *)
(* request for one video.  It is asked for, worked on once, and shown or   *)
(* given up; asking again is possible only when nobody works on it; what   *)
(* is shown is the video that was asked for; what is being deleted is not  *)
(* shown any more and ends up deleted.  Rows, messages, locks and files    *)
(* are Pipeline's business; PipelineQueue says how it keeps this promise.  *)
(***************************************************************************)
CONSTANTS
    Clips,      \* clip ids
    Windows,    \* what can be asked for
    None,       \* nothing asked for
    Nothing     \* nothing shown

VARIABLES
    phase,      \* clips.status, "none" without a row
    wanted,     \* the window last asked for
    claimed,    \* clips somebody has taken it upon himself to render
    doomed,     \* clips under deletion
    shown       \* the video a viewer of the clip may count on

queue == <<phase, wanted, claimed, doomed, shown>>

Open == {"queued", "rendering"}
Closed == {"ready", "failed"}

Init ==
    /\ phase = [c \in Clips |-> "none"]
    /\ wanted = [c \in Clips |-> None]
    /\ claimed = {}
    /\ doomed = {}
    /\ shown = [c \in Clips |-> Nothing]

\* A run asks for several clips at once, some of a project already under deletion.
Create(cs, w) ==
    /\ \A c \in cs : phase[c] = "none"
    /\ phase' = [c \in Clips |-> IF c \in cs THEN "queued" ELSE phase[c]]
    /\ wanted' = [c \in Clips |-> IF c \in cs THEN w ELSE wanted[c]]
    /\ claimed' = claimed \cup cs
    /\ \E ds \in SUBSET cs : doomed' = doomed \cup ds
    /\ UNCHANGED shown

Take(c) ==
    /\ c \in claimed /\ phase[c] \in Open
    /\ phase' = [phase EXCEPT ![c] = "rendering"]
    /\ UNCHANGED <<wanted, claimed, doomed, shown>>

\* What was asked for is shown, and the claim is discharged.
Finish(c) ==
    /\ c \in claimed /\ phase[c] \in Open
    /\ phase' = [phase EXCEPT ![c] = "ready"]
    /\ claimed' = claimed \ {c}
    /\ shown' = [shown EXCEPT ![c] = IF c \in doomed THEN Nothing ELSE wanted[c]]
    /\ UNCHANGED <<wanted, doomed>>

GiveUp(c) ==
    /\ c \in claimed /\ phase[c] \in Open
    /\ phase' = [phase EXCEPT ![c] = "failed"]
    /\ claimed' = claimed \ {c}
    /\ UNCHANGED <<wanted, doomed, shown>>

\* The user asks again, for the same window or another.
Retry(c, w) ==
    /\ c \notin claimed /\ phase[c] \in Closed
    /\ phase' = [phase EXCEPT ![c] = "queued"]
    /\ wanted' = [wanted EXCEPT ![c] = w]
    /\ claimed' = claimed \cup {c}
    /\ shown' = [shown EXCEPT ![c] = Nothing]
    /\ UNCHANGED doomed

Doom(cs) ==
    /\ \A c \in cs : phase[c] # "none"
    /\ doomed' = doomed \cup cs
    /\ shown' = [c \in Clips |-> IF c \in cs THEN Nothing ELSE shown[c]]
    /\ UNCHANGED <<phase, wanted, claimed>>

Remove(cs) ==
    /\ cs \subseteq doomed
    /\ phase' = [c \in Clips |-> IF c \in cs THEN "none" ELSE phase[c]]
    /\ wanted' = [c \in Clips |-> IF c \in cs THEN None ELSE wanted[c]]
    /\ claimed' = claimed \ cs
    /\ doomed' = doomed \ cs
    /\ UNCHANGED shown

\* A refused message or a killed worker: the claim is gone and the clip stays as it is.
Forget(cs) ==
    /\ cs \subseteq claimed
    /\ claimed' = claimed \ cs
    /\ UNCHANGED <<phase, wanted, doomed, shown>>

Next ==
    \/ \E cs \in SUBSET Clips :
           \/ \E w \in Windows : Create(cs, w)
           \/ Doom(cs) \/ Remove(cs) \/ Forget(cs)
    \/ \E c \in Clips :
           \/ Take(c) \/ Finish(c) \/ GiveUp(c)
           \/ \E w \in Windows : Retry(c, w)

Spec == Init /\ [][Next]_queue
====
