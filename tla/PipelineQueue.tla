---- MODULE PipelineQueue ----
(***************************************************************************)
(* Pipeline implements RenderQueue: how rows, files, Celery messages and   *)
(* API requests stand for what is asked, claimed, doomed and shown.        *)
(***************************************************************************)
EXTENDS Pipeline

\* Who may cause a render of clip c: a render task that has not written its outcome,
\* a detect task that has yet to enqueue it, a regenerate request about to.
Holds(t, c) ==
    \/ Unsettled(t) /\ task[t].clip = c
    \/ pc[t] = "fanout" /\ c \in todo[t]
Asks(h, c) == handler[h].pc = "enqueueRender" /\ handler[h].clip = c
Claimed(c) == (\E t \in Tasks : Holds(t, c)) \/ (\E h \in Handlers : Asks(h, c))

\* A viewer may count on the file of a ready clip that no request is deleting.
Playable(c) == clip[c].status = "ready" /\ ~Removing(c)

Phase == [c \in Clips |-> clip[c].status]
Wanted == [c \in Clips |-> clip[c].window]
Claims == {c \in Clips : HasRow(c) /\ Claimed(c)}
Doomed == {c \in Clips : HasRow(c) /\ Removing(c)}
Shown == [c \in Clips |-> IF Playable(c) THEN file[c] ELSE "absent"]

Queue == INSTANCE RenderQueue WITH
    Nothing <- "absent",
    phase <- Phase, wanted <- Wanted, claimed <- Claims, doomed <- Doomed, shown <- Shown

\* However requests, messages, deletions and lost processes interleave, the users of a
\* clip see it asked for, claimed once, shown as asked or given up, as RenderQueue says.
ClipsAreQueued == Queue!Spec
====
