---- MODULE PipelineProofs ----
(***************************************************************************)
(* Two invariants of Pipeline for every value of its constants: its types, *)
(* and at most one render of a clip at a time.                             *)
(*                                                                         *)
(* The second is not inductive by itself.  What keeps renders apart is     *)
(* that every clip is claimed at most once: by a render message, by an     *)
(* entry of a highlight task's todo, or by a request that has passed       *)
(* regenerate_clip's status check (ClaimInv).  Steps that claim nothing    *)
(* new share one lemma, ClaimFrame.                                        *)
(***************************************************************************)
EXTENDS PipelineQueue, TLAPS

\* The row constructor yields rows, whose fields have the types of the clips table.
LEMMA Rows ==
    /\ NoClip \in ClipRows /\ NoClip.status = "none" /\ NoClip.project = None
    /\ \A s \in ClipStatus, p \in Projects \cup {None}, w \in Windows, b \in BOOLEAN :
          Row(s, p, w, b) \in ClipRows
    /\ \A r \in ClipRows :
           /\ r.project \in Projects \cup {None} /\ r.path \in BOOLEAN
           /\ r.status # "none" => r.status \in ClipStatus /\ r.window \in Windows
<1>1. NoClip \in ClipRows /\ NoClip.status = "none" /\ NoClip.project = None
  BY DEF ClipRows, Row, NoClip
<1>2. ASSUME NEW s \in ClipStatus, NEW p \in Projects \cup {None}, NEW w \in Windows, NEW b \in BOOLEAN
      PROVE  Row(s, p, w, b) \in ClipRows
  BY DEF ClipRows, Row
<1>3. ASSUME NEW r \in ClipRows
      PROVE  /\ r.project \in Projects \cup {None} /\ r.path \in BOOLEAN
             /\ r.status # "none" => r.status \in ClipStatus /\ r.window \in Windows
  <2>1. CASE r = NoClip BY <2>1 DEF NoClip, Row
  <2>2. CASE r # NoClip BY <2>2 DEF ClipRows
  <2> QED BY <2>1, <2>2
<1> QED BY <1>1, <1>2, <1>3

\* What the two message constructors yield, and what a message of each kind holds:
\* a render names its clip, the other tasks their project.
LEMMA MessagesTyped ==
    /\ NoTask \in Messages /\ NoTask.kind = "none" /\ NoTask.project = None /\ NoTask.clip = None
    /\ \A k, p, c : /\ Message(k, p, c).kind = k
                    /\ Message(k, p, c).project = p
                    /\ Message(k, p, c).clip = c
    /\ \A k \in {"transcribe", "detect"}, p \in Projects : Message(k, p, None) \in Messages
    /\ \A p \in Projects \cup {None}, c \in Clips : Message("render", p, c) \in Messages
    /\ \A m \in Messages : \/ m = NoTask
                           \/ /\ m.kind \in {"transcribe", "detect"}
                              /\ m.project \in Projects /\ m.clip = None
                           \/ /\ m.kind = "render"
                              /\ m.project \in Projects \cup {None} /\ m.clip \in Clips
BY DEF Messages, Message, NoTask

\* What a request in progress holds at each of its steps.
LEMMA HandlersTyped ==
    /\ NoRequest \in HandlerStates /\ NoRequest.pc = "idle"
    /\ NoRequest.project = None /\ NoRequest.clip = None
    /\ \A s, p, c : /\ Serving(s, p, c).pc = s
                    /\ Serving(s, p, c).project = p
                    /\ Serving(s, p, c).clip = c
    /\ \A s \in {"starting", "enqueueRun", "deletingProject"}, p \in Projects :
           Serving(s, p, None) \in HandlerStates
    /\ \A s \in {"regenerating", "enqueueRender", "deletingClip"}, c \in Clips :
           Serving(s, None, c) \in HandlerStates
    /\ \A m \in HandlerStates :
           \/ m = NoRequest
           \/ /\ m.pc \in {"starting", "enqueueRun", "deletingProject"}
              /\ m.project \in Projects /\ m.clip = None
           \/ /\ m.pc \in {"regenerating", "enqueueRender", "deletingClip"}
              /\ m.project = None /\ m.clip \in Clips
BY DEF HandlerStates, Serving, NoRequest

\* A task that moves to a step of its own kind, its message unchanged, stays typed.
LEMMA JumpTyped ==
    ASSUME TasksOK, NEW t \in Tasks, NEW next \in TaskPc, Goto(t, next),
           Steps(task[t].kind, next), next # "encode",
           next = "encoding" => pc[t] = "encode"
    PROVE  TasksOK'
<1> USE DEF Goto, locals
<1>1. pc' \in [Tasks -> TaskPc] BY DEF TasksOK
<1>2. \A u \in Tasks : Steps(task[u].kind, pc'[u]) BY DEF TasksOK
<1>3. \A u \in Tasks : pc'[u] \in {"encode", "encoding"} => loaded[u] \in Windows BY DEF TasksOK
<1> QED BY <1>1, <1>2, <1>3 DEF TasksOK

\* A task that returns leaves a typed, free slot.
LEMMA EndTyped ==
    ASSUME TasksOK, NEW t \in Tasks, End(t)
    PROVE  TasksOK'
<1> USE MessagesTyped DEF End
<1>1. task' \in [Tasks -> Messages] BY DEF TasksOK
<1>2. pc' \in [Tasks -> TaskPc] BY DEF TasksOK, TaskPc
<1>3. \A u \in Tasks : Steps(task'[u].kind, pc'[u])
  <2>1. Steps("none", "free") BY DEF Steps
  <2> QED BY <2>1 DEF TasksOK
<1>4. \A u \in Tasks : pc'[u] \in {"encode", "encoding"} => loaded'[u] \in Windows BY DEF TasksOK
<1>5. /\ todo' \in [Tasks -> SUBSET Clips]
      /\ loaded' \in [Tasks -> Windows \cup {None}]
      /\ verdict' \in [Tasks -> {"none", "ready", "failed"}]
  BY DEF TasksOK
<1> QED BY <1>1, <1>2, <1>3, <1>4, <1>5 DEF TasksOK

\* A message put in a slot, with its task still to start, keeps the slots typed.
LEMMA DeliverTyped ==
    ASSUME TasksOK, NEW u \in Tasks, NEW m \in Messages, m # NoTask, Deliver(u, m)
    PROVE  TasksOK'
<1> USE MessagesTyped DEF Deliver, locals
<1>1. task' \in [Tasks -> Messages] BY DEF TasksOK
<1>2. pc' \in [Tasks -> TaskPc] BY DEF TasksOK, TaskPc
<1>3. \A t \in Tasks : Steps(task'[t].kind, pc'[t])
  <2>1. Steps(m.kind, "sent") BY DEF Steps
  <2> QED BY <2>1 DEF TasksOK
<1>4. \A t \in Tasks : pc'[t] \in {"encode", "encoding"} => loaded'[t] \in Windows BY DEF TasksOK
<1> QED BY <1>1, <1>2, <1>3, <1>4 DEF TasksOK

\* The empty system is typed.
LEMMA TypeInit == Init => TypeOK
<1> SUFFICES ASSUME Init PROVE TypeOK OBVIOUS
<1> USE DEF Init
<1>1. RowsOK BY Rows DEF RowsOK
<1>2. TasksOK
  <2>1. Steps("none", "free") BY DEF Steps
  <2> QED BY <2>1, MessagesTyped DEF TasksOK, TaskPc
<1> QED BY <1>1, <1>2, BoundsAssumption, HandlersTyped DEF TypeOK

\* Every step of a request, a task or the environment keeps the types.
LEMMA TypeStep == TypeOK /\ [Next]_vars => TypeOK'
<1> SUFFICES ASSUME TypeOK, [Next]_vars PROVE TypeOK' OBVIOUS
<1> USE Rows, MessagesTyped, HandlersTyped DEF At, Sent, rows, tasks
<1>1. ASSUME NEW p \in Projects, CreateProject(p) PROVE TypeOK'
  <2> USE <1>1 DEF CreateProject
  <2>1. TasksOK' BY DEF TypeOK, TasksOK, locals
  <2>2. RowsOK' BY DEF TypeOK, RowsOK, ProjectStatus
  <2> QED BY <2>1, <2>2 DEF TypeOK
<1>2. ASSUME NEW h \in Handlers, NEW p \in Projects, StartLock(h, p) PROVE TypeOK'
  <2> USE <1>2 DEF StartLock
  <2>1. TasksOK' BY DEF TypeOK, TasksOK, locals
  <2>2. RowsOK' BY DEF TypeOK, RowsOK, Request, RemoveMedia
  <2> QED BY <2>1, <2>2, BoundsAssumption DEF TypeOK, Request
<1>3. ASSUME NEW h \in Handlers, NEW p \in Projects, DeleteProjectMedia(h, p) PROVE TypeOK'
  <2> USE <1>3 DEF DeleteProjectMedia
  <2>1. TasksOK' BY DEF TypeOK, TasksOK, locals
  <2>2. RowsOK' BY DEF TypeOK, RowsOK, Request, RemoveMedia
  <2> QED BY <2>1, <2>2, BoundsAssumption DEF TypeOK, Request
<1>4. ASSUME NEW h \in Handlers, NEW c \in Clips, RegenerateLock(h, c) PROVE TypeOK'
  <2> USE <1>4 DEF RegenerateLock
  <2>1. TasksOK' BY DEF TypeOK, TasksOK, locals
  <2>2. RowsOK' BY DEF TypeOK, RowsOK, Request
  <2> QED BY <2>1, <2>2, BoundsAssumption DEF TypeOK, Request
<1>5. ASSUME NEW h \in Handlers, NEW c \in Clips, DeleteClipMedia(h, c) PROVE TypeOK'
  <2> USE <1>5 DEF DeleteClipMedia
  <2>1. TasksOK' BY DEF TypeOK, TasksOK, locals
  <2>2. RowsOK' BY DEF TypeOK, RowsOK, HasRow, Request, RemoveMedia
  <2> QED BY <2>1, <2>2, BoundsAssumption DEF TypeOK, Request
<1>6. ASSUME NEW h \in Handlers, StartCommit(h) PROVE TypeOK'
  <2> USE <1>6 DEF StartCommit
  <2>1. TasksOK' BY DEF TypeOK, TasksOK, locals
  <2>2. RowsOK' BY DEF TypeOK, RowsOK, ProjectStatus, ClipStatus
  <2> QED BY <2>1, <2>2 DEF TypeOK
<1>7. ASSUME NEW h \in Handlers, StartEnqueue(h) PROVE TypeOK'
  <2> USE <1>7 DEF StartEnqueue
  <2>1. TasksOK' BY DeliverTyped DEF TypeOK, FreeTasks
  <2>2. RowsOK' BY DEF TypeOK, RowsOK
  <2> QED BY <2>1, <2>2 DEF TypeOK, Reply
<1>8. ASSUME NEW h \in Handlers, StartEnqueueFails(h) PROVE TypeOK'
  <2> USE <1>8 DEF StartEnqueueFails
  <2>1. TasksOK' BY DEF TypeOK, TasksOK, locals
  <2>2. RowsOK' BY DEF TypeOK, RowsOK, ProjectStatus
  <2> QED BY <2>1, <2>2 DEF TypeOK, Reply
<1>9. ASSUME NEW h \in Handlers, StartOrphaned(h) PROVE TypeOK'
  <2> USE <1>9 DEF StartOrphaned
  <2>1. TasksOK' BY DEF TypeOK, TasksOK, locals
  <2>2. RowsOK' BY DEF TypeOK, RowsOK
  <2> QED BY <2>1, <2>2 DEF TypeOK, Reply
<1>10. ASSUME NEW h \in Handlers, RegenerateCommit(h) PROVE TypeOK'
  <2> USE <1>10 DEF RegenerateCommit
  <2>1. TasksOK' BY DEF TypeOK, TasksOK, locals
  <2>2. RowsOK'
    <3> DEFINE c == handler[h].clip
    <3>1. PICK w \in Windows : clip' = [clip EXCEPT ![c] = Row("queued", clip[c].project, w, clip[c].path)]
      OBVIOUS
    <3>2. clip \in [Clips -> ClipRows] BY DEF TypeOK, RowsOK
    <3>3. c \in Clips => Row("queued", clip[c].project, w, clip[c].path) \in ClipRows
      BY <3>2 DEF ClipStatus
    <3> HIDE DEF c
    <3>4. clip' \in [Clips -> ClipRows] BY ONLY <3>1, <3>2, <3>3
    <3> QED BY <3>4 DEF TypeOK, RowsOK
  <2> QED BY <2>1, <2>2 DEF TypeOK
<1>11. ASSUME NEW h \in Handlers, RegenerateEnqueue(h) PROVE TypeOK'
  <2> USE <1>11 DEF RegenerateEnqueue
  <2>1. TasksOK' BY DeliverTyped DEF TypeOK, FreeTasks
  <2>2. RowsOK' BY DEF TypeOK, RowsOK
  <2> QED BY <2>1, <2>2 DEF TypeOK, Reply
<1>12. ASSUME NEW h \in Handlers, RegenerateEnqueueFails(h) PROVE TypeOK'
  <2> USE <1>12 DEF RegenerateEnqueueFails
  <2>1. TasksOK' BY DEF TypeOK, TasksOK, locals
  <2>2. RowsOK' BY DEF TypeOK, RowsOK, ClipStatus, Marked, HasRow
  <2> QED BY <2>1, <2>2 DEF TypeOK, Reply
<1>13. ASSUME NEW h \in Handlers, RegenerateOrphaned(h) PROVE TypeOK'
  <2> USE <1>13 DEF RegenerateOrphaned
  <2>1. TasksOK' BY DEF TypeOK, TasksOK, locals
  <2>2. RowsOK' BY DEF TypeOK, RowsOK
  <2> QED BY <2>1, <2>2 DEF TypeOK, Reply
<1>14. ASSUME NEW h \in Handlers, DeleteClipCommit(h) PROVE TypeOK'
  <2> USE <1>14 DEF DeleteClipCommit
  <2>1. TasksOK' BY DEF TypeOK, TasksOK, locals
  <2>2. RowsOK' BY DEF TypeOK, RowsOK, ClipStatus
  <2> QED BY <2>1, <2>2 DEF TypeOK, Reply
<1>15. ASSUME NEW h \in Handlers, DeleteProjectCommit(h) PROVE TypeOK'
  <2> USE <1>15 DEF DeleteProjectCommit
  <2>1. TasksOK' BY DEF TypeOK, TasksOK, locals
  <2>2. RowsOK' BY DEF TypeOK, RowsOK, ProjectStatus, ClipStatus
  <2> QED BY <2>1, <2>2 DEF TypeOK, Reply
<1>16. ASSUME NEW t \in Tasks, TranscribeStart(t) PROVE TypeOK'
  <2> USE <1>16 DEF TranscribeStart
  <2>1. TasksOK' BY JumpTyped DEF TypeOK, TasksOK, Steps, TaskPc
  <2>2. RowsOK' BY DEF TypeOK, RowsOK, ProjectStatus
  <2> QED BY <2>1, <2>2 DEF TypeOK
<1>17. ASSUME NEW t \in Tasks, Ingest(t) PROVE TypeOK'
  <2> USE <1>17 DEF Ingest
  <2>1. TasksOK' BY JumpTyped DEF TypeOK, TasksOK, Steps, TaskPc
  <2>2. RowsOK' BY DEF TypeOK, RowsOK
  <2> QED BY <2>1, <2>2 DEF TypeOK
<1>18. ASSUME NEW t \in Tasks, Transcribed(t) PROVE TypeOK'
  <2> USE <1>18 DEF Transcribed
  <2>1. TasksOK' BY JumpTyped DEF TypeOK, TasksOK, Steps, TaskPc
  <2>2. RowsOK' BY DEF TypeOK, RowsOK, ProjectStatus
  <2> QED BY <2>1, <2>2 DEF TypeOK
<1>19. ASSUME NEW t \in Tasks, Chain(t) PROVE TypeOK'
  <2> USE <1>19 DEF Chain
  <2>1. TasksOK'
    <3>1. PICK u \in FreeTasks :
              /\ task' = [task EXCEPT ![u] = Message("detect", task[t].project, None)]
              /\ pc' = [pc EXCEPT ![u] = "sent", ![t] = "close"]
      OBVIOUS
    <3>2. u \in Tasks /\ u # t BY DEF FreeTasks
    <3>3. task[t].kind = "transcribe" /\ task[t].project \in Projects BY DEF TypeOK, TasksOK, Steps
    <3>4. task' \in [Tasks -> Messages] BY <3>1, <3>2, <3>3 DEF TypeOK, TasksOK
    <3>5. pc' \in [Tasks -> TaskPc] BY <3>1, <3>2 DEF TypeOK, TasksOK, TaskPc
    <3>6. \A v \in Tasks : Steps(task'[v].kind, pc'[v])
      BY <3>1, <3>2, <3>3 DEF TypeOK, TasksOK, Steps
    <3>7. \A v \in Tasks : pc'[v] \in {"encode", "encoding"} => loaded[v] \in Windows
      BY <3>1, <3>2 DEF TypeOK, TasksOK
    <3> QED BY <3>4, <3>5, <3>6, <3>7 DEF TypeOK, TasksOK, locals
  <2>2. RowsOK' BY DEF TypeOK, RowsOK
  <2> QED BY <2>1, <2>2 DEF TypeOK
<1>20. ASSUME NEW t \in Tasks, DetectStart(t) PROVE TypeOK'
  <2> USE <1>20 DEF DetectStart
  <2>1. TasksOK' BY JumpTyped DEF TypeOK, TasksOK, Steps, TaskPc
  <2>2. RowsOK' BY DEF TypeOK, RowsOK
  <2> QED BY <2>1, <2>2 DEF TypeOK
<1>21. ASSUME NEW t \in Tasks, NoCandidates(t) PROVE TypeOK'
  <2> USE <1>21 DEF NoCandidates
  <2>1. TasksOK' BY JumpTyped DEF TypeOK, TasksOK, Steps, TaskPc
  <2>2. RowsOK' BY DEF TypeOK, RowsOK, ProjectStatus
  <2> QED BY <2>1, <2>2 DEF TypeOK
<1>22. ASSUME NEW t \in Tasks, Close(t) PROVE TypeOK'
  <2> USE <1>22 DEF Close
  <2>1. TasksOK' BY EndTyped DEF TypeOK
  <2>2. RowsOK' BY DEF TypeOK, RowsOK
  <2> QED BY <2>1, <2>2 DEF TypeOK, End
<1>23. ASSUME NEW t \in Tasks, CreateClips(t) PROVE TypeOK'
  <2> USE <1>23 DEF CreateClips
  <2>1. TasksOK' BY DEF TypeOK, TasksOK, Steps, TaskPc, FreeTasks, locals, FreshClips
  <2>2. RowsOK'
    <3> DEFINE p == task[t].project
    <3>1. PICK cs \in SUBSET FreshClips, w \in Windows :
              clip' = [c \in Clips |-> IF c \in cs THEN Row("queued", p, w, FALSE) ELSE clip[c]]
      OBVIOUS
    <3>2. p \in Projects BY DEF TypeOK, TasksOK, Steps
    <3>3. Row("queued", p, w, FALSE) \in ClipRows BY <3>2 DEF ClipStatus
    <3>4. clip' \in [Clips -> ClipRows] BY <3>1, <3>3 DEF TypeOK, RowsOK
    <3> QED BY <3>4 DEF TypeOK, RowsOK
  <2> QED BY <2>1, <2>2 DEF TypeOK
<1>24. ASSUME NEW t \in Tasks, FanOut(t) PROVE TypeOK'
  <2> USE <1>24 DEF FanOut
  <2>1. TasksOK' BY DEF TypeOK, TasksOK, Steps, TaskPc, FreeTasks, locals
  <2>2. RowsOK' BY DEF TypeOK, RowsOK
  <2> QED BY <2>1, <2>2 DEF TypeOK
<1>25. ASSUME NEW t \in Tasks, Raise(t) PROVE TypeOK'
  <2> USE <1>25 DEF Raise
  <2>1. TasksOK' BY DEF TypeOK, TasksOK, Steps, TaskPc, FreeTasks, locals
  <2>2. RowsOK' BY DEF TypeOK, RowsOK
  <2> QED BY <2>1, <2>2 DEF TypeOK
<1>26. ASSUME NEW t \in Tasks, FailJob(t) PROVE TypeOK'
  <2> USE <1>26 DEF FailJob
  <2>1. TasksOK' BY JumpTyped DEF TypeOK, TasksOK, Steps, TaskPc
  <2>2. RowsOK' BY DEF TypeOK, RowsOK
  <2> QED BY <2>1, <2>2 DEF TypeOK
<1>27. ASSUME NEW t \in Tasks, FailProject(t) PROVE TypeOK'
  <2> USE <1>27 DEF FailProject
  <2>1. TasksOK' BY EndTyped DEF TypeOK
  <2>2. RowsOK' BY DEF TypeOK, RowsOK, ProjectStatus
  <2> QED BY <2>1, <2>2 DEF TypeOK, End
<1>28. ASSUME NEW t \in Tasks, ProjectGone(t) PROVE TypeOK'
  <2> USE <1>28 DEF ProjectGone
  <2>1. TasksOK' BY EndTyped DEF TypeOK, Abandon
  <2>2. RowsOK' BY DEF TypeOK, RowsOK, Abandon
  <2> QED BY <2>1, <2>2 DEF TypeOK, End, Abandon
<1>29. ASSUME NEW t \in Tasks, RenderClipGone(t) PROVE TypeOK'
  <2> USE <1>29 DEF RenderClipGone
  <2>1. TasksOK' BY EndTyped DEF TypeOK
  <2>2. RowsOK' BY DEF TypeOK, RowsOK
  <2> QED BY <2>1, <2>2 DEF TypeOK, End
<1>30. ASSUME NEW t \in Tasks, RenderStart(t) PROVE TypeOK'
  <2> USE <1>30 DEF RenderStart
  <2>1. TasksOK'
    <3> DEFINE c == task[t].clip
    <3>1. c \in Clips /\ task[t].kind = "render" BY DEF TypeOK, TasksOK
    <3>2. clip[c].project \in Projects \cup {None} /\ clip[c].window \in Windows
      BY <3>1 DEF TypeOK, RowsOK, HasRow
    <3>3. Message("render", clip[c].project, c) \in Messages BY <3>1, <3>2
    <3> HIDE DEF c
    <3> QED BY <3>1, <3>2, <3>3, SMTT(30) DEF TypeOK, TasksOK, Steps, TaskPc, locals, c
  <2>2. RowsOK' BY DEF TypeOK, RowsOK, ClipStatus, Marked, HasRow
  <2> QED BY <2>1, <2>2 DEF TypeOK
<1>31. ASSUME NEW t \in Tasks, EncodeBegins(t) PROVE TypeOK'
  <2> USE <1>31 DEF EncodeBegins
  <2>1. TasksOK' BY JumpTyped DEF TypeOK, TasksOK, Steps, TaskPc
  <2>2. RowsOK' BY DEF TypeOK, RowsOK
  <2> QED BY <2>1, <2>2 DEF TypeOK
<1>32. ASSUME NEW t \in Tasks, EncodeEnds(t) PROVE TypeOK'
  <2> USE <1>32 DEF EncodeEnds
  <2>1. TasksOK' BY JumpTyped DEF TypeOK, TasksOK, Steps, TaskPc
  <2>2. RowsOK'
    <3>1. loaded[t] \in Windows BY DEF TypeOK, TasksOK
    <3> QED BY <3>1 DEF TypeOK, RowsOK
  <2> QED BY <2>1, <2>2 DEF TypeOK
<1>33. ASSUME NEW t \in Tasks, Publish(t) PROVE TypeOK'
  <2> USE <1>33 DEF Publish
  <2>1. TasksOK' BY JumpTyped DEF TypeOK, TasksOK, Steps, TaskPc
  <2>2. RowsOK' BY DEF TypeOK, RowsOK, ClipStatus, HasRow
  <2> QED BY <2>1, <2>2 DEF TypeOK
<1>34. ASSUME NEW t \in Tasks, PublishRaises(t) PROVE TypeOK'
  <2> USE <1>34 DEF PublishRaises
  <2>1. TasksOK' BY JumpTyped DEF TypeOK, TasksOK, Steps, TaskPc
  <2>2. RowsOK' BY DEF TypeOK, RowsOK
  <2> QED BY <2>1, <2>2 DEF TypeOK
<1>35. ASSUME NEW t \in Tasks, FailClip(t) PROVE TypeOK'
  <2> USE <1>35 DEF FailClip
  <2>1. TasksOK' BY JumpTyped DEF TypeOK, TasksOK, Steps, TaskPc
  <2>2. RowsOK' BY DEF TypeOK, RowsOK, ClipStatus, Marked, HasRow
  <2> QED BY <2>1, <2>2 DEF TypeOK
<1>36. ASSUME NEW t \in Tasks, TallyStops(t) PROVE TypeOK'
  <2> USE <1>36 DEF TallyStops
  <2>1. TasksOK' BY EndTyped DEF TypeOK
  <2>2. RowsOK' BY DEF TypeOK, RowsOK
  <2> QED BY <2>1, <2>2 DEF TypeOK, End
<1>37. ASSUME NEW t \in Tasks, Tally(t) PROVE TypeOK'
  <2> USE <1>37 DEF Tally
  <2>1. TasksOK' BY DEF TypeOK, TasksOK, Steps, TaskPc, FreeTasks, locals
  <2>2. RowsOK' BY DEF TypeOK, RowsOK
  <2> QED BY <2>1, <2>2 DEF TypeOK
<1>38. ASSUME NEW t \in Tasks, CheckStops(t) PROVE TypeOK'
  <2> USE <1>38 DEF CheckStops
  <2>1. TasksOK' BY EndTyped DEF TypeOK
  <2>2. RowsOK' BY DEF TypeOK, RowsOK
  <2> QED BY <2>1, <2>2 DEF TypeOK, End
<1>39. ASSUME NEW t \in Tasks, Check(t) PROVE TypeOK'
  <2> USE <1>39 DEF Check
  <2>1. TasksOK' BY JumpTyped DEF TypeOK, TasksOK, Steps, TaskPc
  <2>2. RowsOK' BY DEF TypeOK, RowsOK
  <2> QED BY <2>1, <2>2 DEF TypeOK
<1>40. ASSUME NEW t \in Tasks, FinalizeReady(t) PROVE TypeOK'
  <2> USE <1>40 DEF FinalizeReady
  <2>1. TasksOK' BY JumpTyped DEF TypeOK, TasksOK, Steps, TaskPc
  <2>2. RowsOK' BY DEF TypeOK, RowsOK, ProjectStatus
  <2> QED BY <2>1, <2>2 DEF TypeOK
<1>41. ASSUME NEW t \in Tasks, FinalizeFailed(t) PROVE TypeOK'
  <2> USE <1>41 DEF FinalizeFailed
  <2>1. TasksOK' BY EndTyped DEF TypeOK
  <2>2. RowsOK' BY DEF TypeOK, RowsOK, ProjectStatus
  <2> QED BY <2>1, <2>2 DEF TypeOK, End
<1>42. ASSUME NEW t \in Tasks, BillStops(t) PROVE TypeOK'
  <2> USE <1>42 DEF BillStops
  <2>1. TasksOK' BY EndTyped DEF TypeOK
  <2>2. RowsOK' BY DEF TypeOK, RowsOK
  <2> QED BY <2>1, <2>2 DEF TypeOK, End
<1>43. ASSUME NEW t \in Tasks, Bill(t) PROVE TypeOK'
  <2> USE <1>43 DEF Bill
  <2>1. TasksOK' BY JumpTyped DEF TypeOK, TasksOK, Steps, TaskPc
  <2>2. RowsOK' BY DEF TypeOK, RowsOK
  <2> QED BY <2>1, <2>2 DEF TypeOK
<1>44. ASSUME NEW t \in Tasks, Record(t) PROVE TypeOK'
  <2> USE <1>44 DEF Record
  <2>1. TasksOK' BY EndTyped DEF TypeOK
  <2>2. RowsOK'
    <3> DEFINE p == task[t].project
    <3>1. usage \in [Projects -> Nat] BY DEF TypeOK, RowsOK
    <3>2. usage' = [q \in Projects |-> IF q = p THEN usage[p] + 1 ELSE usage[q]] BY <3>1
    <3> HIDE DEF p
    <3>3. usage' \in [Projects -> Nat] BY ONLY <3>1, <3>2
    <3> QED BY <3>3 DEF TypeOK, RowsOK
  <2> QED BY <2>1, <2>2 DEF TypeOK, End
<1>45. ASSUME NEW t \in Tasks, FinalizeGone(t) PROVE TypeOK'
  <2> USE <1>45 DEF FinalizeGone
  <2>1. TasksOK' BY EndTyped DEF TypeOK, Abandon
  <2>2. RowsOK' BY DEF TypeOK, RowsOK, Abandon
  <2> QED BY <2>1, <2>2 DEF TypeOK, End, Abandon
<1>46. ASSUME NEW t \in Tasks, Redeliver(t) PROVE TypeOK'
  <2> USE <1>46 DEF Redeliver
  <2>1. TasksOK'
    <3>1. Original(t) \in Messages /\ Original(t) # NoTask BY SMTT(30) DEF TypeOK, TasksOK, Steps, Original
    <3> QED BY <3>1, DeliverTyped DEF TypeOK, FreeTasks
  <2>2. RowsOK' BY DEF TypeOK, RowsOK, Fault, Original
  <2> QED BY <2>1, <2>2, BoundsAssumption DEF TypeOK, Fault
<1>47. ASSUME NEW t \in Tasks, WorkerLost(t) PROVE TypeOK'
  <2> USE <1>47 DEF WorkerLost
  <2>1. TasksOK' BY DEF TypeOK, TasksOK, Steps, TaskPc, FreeTasks, locals, Fault, Original
  <2>2. RowsOK' BY DEF TypeOK, RowsOK, Fault, Original
  <2> QED BY <2>1, <2>2, BoundsAssumption DEF TypeOK, Fault
<1>48. ASSUME NEW t \in Tasks, ChildLost(t) PROVE TypeOK'
  <2> USE <1>48 DEF ChildLost
  <2>1. TasksOK' BY EndTyped DEF TypeOK, Fault
  <2>2. RowsOK' BY DEF TypeOK, RowsOK, Fault
  <2> QED BY <2>1, <2>2, BoundsAssumption DEF TypeOK, End, Fault
<1>49. CASE UNCHANGED vars BY <1>49 DEF vars, TypeOK, RowsOK, TasksOK, locals
<1> QED BY <1>1, <1>2, <1>3, <1>4, <1>5, <1>6, <1>7, <1>8, <1>9, <1>10, <1>11, <1>12, <1>13,
         <1>14, <1>15, <1>16, <1>17, <1>18, <1>19, <1>20, <1>21, <1>22, <1>23, <1>24, <1>25,
         <1>26, <1>27, <1>28, <1>29, <1>30, <1>31, <1>32, <1>33, <1>34, <1>35, <1>36, <1>37,
         <1>38, <1>39, <1>40, <1>41, <1>42, <1>43, <1>44, <1>45, <1>46, <1>47, <1>48, <1>49
     DEF Next, NewRequest, HandlerStep, TaskStep, PipelineStep, RenderStep, FinalizeStep,
         Environment, AtRest

\* A spec of every behaviour is typed: rows, messages and requests keep their shapes,
\* and a task is only ever at a step of its own kind.
THEOREM TypeCorrect == Spec => []TypeOK
<1>1. Init => TypeOK BY TypeInit
<1>2. TypeOK /\ [Next]_vars => TypeOK' BY TypeStep
<1> QED BY <1>1, <1>2, PTL DEF Spec

----
\* A regenerate request that has locked the clip and will edit it.
Edits(h, c) == handler[h].pc = "regenerating" /\ handler[h].clip = c

\* The strengthening of RenderExclusive.  A clip has at most one cause of a render,
\* none while it is ready or failed, and a request that locked it for an edit found
\* it so and keeps it so.
ClaimInv ==
    /\ \A c \in Clips : \A t, u \in Tasks : Holds(t, c) /\ Holds(u, c) => t = u
    /\ \A c \in Clips : \A h, g \in Handlers : Asks(h, c) /\ Asks(g, c) => h = g
    /\ \A c \in Clips : \A t \in Tasks, h \in Handlers : ~(Holds(t, c) /\ Asks(h, c))
    /\ \A c \in Clips : Claimed(c) => clip[c].status \notin {"ready", "failed"}
    /\ \A c \in Clips : \A h, g \in Handlers : Edits(h, c) /\ Edits(g, c) => h = g
    /\ \A c \in Clips : \A h \in Handlers : Edits(h, c) => clip[c].status \in {"ready", "failed"}

\* Most steps only release claims, and settle a clip only when none is left on it.
LEMMA ClaimFrame ==
    ASSUME ClaimInv,
           \A c \in Clips, t \in Tasks : Holds(t, c)' => Holds(t, c),
           \A c \in Clips, h \in Handlers : Asks(h, c)' => Asks(h, c),
           \A c \in Clips, h \in Handlers : Edits(h, c)' => Edits(h, c),
           \A c \in Clips : \/ clip'[c].status = clip[c].status
                            \/ /\ ~LockedClip(c)
                               /\ clip'[c].status \in {"ready", "failed"} => ~Claimed(c)'
    PROVE  ClaimInv'
<1>1. \A c \in Clips : Claimed(c)' => Claimed(c) BY DEF Claimed
<1>2. \A c \in Clips, h \in Handlers : Edits(h, c) => LockedClip(c) BY DEF Edits, LockedClip
<1>3. \A c \in Clips : Claimed(c)' => clip'[c].status \notin {"ready", "failed"}
  BY <1>1 DEF ClaimInv
<1>4. \A c \in Clips, h \in Handlers : Edits(h, c)' => clip'[c].status \in {"ready", "failed"}
  BY <1>2 DEF ClaimInv
<1> QED BY <1>3, <1>4 DEF ClaimInv

\* Nothing is claimed in the empty system.
LEMMA ClaimInit == Init => ClaimInv
BY MessagesTyped, HandlersTyped, Rows
   DEF Init, ClaimInv, Claimed, Holds, Asks, Edits, Unsettled

\* Every step but a second delivery keeps each clip claimed at most once.
LEMMA ClaimStep ==
    ASSUME {"redeliver", "workerLost"} \cap Faults = {}
    PROVE  TypeOK /\ ClaimInv /\ [Next]_vars => ClaimInv'
<1> SUFFICES ASSUME TypeOK, ClaimInv, [Next]_vars PROVE ClaimInv' OBVIOUS
<1> USE MessagesTyped, HandlersTyped, Rows DEF At, Sent, rows, tasks, locals
<1> USE DEF Holds, Asks, Edits, Unsettled
<1>1. ASSUME NEW p \in Projects, CreateProject(p) PROVE ClaimInv'
  <2> USE <1>1 DEF CreateProject
  <2>1. UNCHANGED <<task, pc, todo>> OBVIOUS
  <2>2. UNCHANGED handler OBVIOUS
  <2>3. \A c \in Clips : clip'[c].status = clip[c].status OBVIOUS
  <2> QED BY <2>1, <2>2, <2>3, ClaimFrame
<1>2. ASSUME NEW h \in Handlers, NEW p \in Projects, StartLock(h, p) PROVE ClaimInv'
  <2> USE <1>2 DEF StartLock
  <2>1. UNCHANGED <<task, pc, todo>> OBVIOUS
  <2>2. \A c \in Clips, g \in Handlers : (Asks(g, c)' => Asks(g, c)) /\ (Edits(g, c)' => Edits(g, c))
    BY DEF TypeOK, Reply, Request, RemoveMedia
  <2>3. \A c \in Clips : clip'[c].status = clip[c].status OBVIOUS
  <2> QED BY <2>1, <2>2, <2>3, ClaimFrame
<1>3. ASSUME NEW h \in Handlers, NEW p \in Projects, DeleteProjectMedia(h, p) PROVE ClaimInv'
  <2> USE <1>3 DEF DeleteProjectMedia
  <2>1. UNCHANGED <<task, pc, todo>> OBVIOUS
  <2>2. \A c \in Clips, g \in Handlers : (Asks(g, c)' => Asks(g, c)) /\ (Edits(g, c)' => Edits(g, c))
    BY DEF TypeOK, Reply, Request, RemoveMedia
  <2>3. \A c \in Clips : clip'[c].status = clip[c].status OBVIOUS
  <2> QED BY <2>1, <2>2, <2>3, ClaimFrame
<1>4. ASSUME NEW h \in Handlers, NEW c \in Clips, RegenerateLock(h, c) PROVE ClaimInv'
  <2> USE <1>4 DEF RegenerateLock
  <2>1. UNCHANGED <<task, pc, todo, clip>> OBVIOUS
  <2>2. clip[c].status \in {"ready", "failed"} BY DEF TypeOK, RowsOK, HasRow, ActiveClip, ClipStatus
  <2>3. handler' = [handler EXCEPT ![h] = Serving("regenerating", None, c)] OBVIOUS
  <2>4. ~LockedClip(c) OBVIOUS
  <2>5. \A d \in Clips, g \in Handlers : /\ Asks(g, d)' => Asks(g, d)
                                         /\ Edits(g, d)' => Edits(g, d) \/ (g = h /\ d = c)
    <3>1. handler \in [Handlers -> HandlerStates] BY DEF TypeOK
    <3>2. \A g \in Handlers : handler'[g] = IF g = h THEN Serving("regenerating", None, c) ELSE handler[g]
      BY <2>3, <3>1
    <3> HIDE <1>4 DEF RegenerateLock
    <3> QED BY <3>2
  <2>6. \A g \in Handlers : ~Edits(g, c) BY <2>4 DEF LockedClip
  <2>7. \A d \in Clips : Claimed(d)' => Claimed(d) BY <2>1, <2>5 DEF Claimed
  <2> QED BY <2>1, <2>2, <2>5, <2>6, <2>7 DEF ClaimInv
<1>5. ASSUME NEW h \in Handlers, NEW c \in Clips, DeleteClipMedia(h, c) PROVE ClaimInv'
  <2> USE <1>5 DEF DeleteClipMedia
  <2>1. UNCHANGED <<task, pc, todo>> OBVIOUS
  <2>2. \A d \in Clips, g \in Handlers : (Asks(g, d)' => Asks(g, d)) /\ (Edits(g, d)' => Edits(g, d))
    BY DEF TypeOK, Reply, Request, RemoveMedia
  <2>3. \A d \in Clips : clip'[d].status = clip[d].status OBVIOUS
  <2> QED BY <2>1, <2>2, <2>3, ClaimFrame
<1>6. ASSUME NEW h \in Handlers, StartCommit(h) PROVE ClaimInv'
  <2> USE <1>6 DEF StartCommit
  <2>1. UNCHANGED <<task, pc, todo>> OBVIOUS
  <2>2. \A c \in Clips, g \in Handlers : (Asks(g, c)' => Asks(g, c)) /\ (Edits(g, c)' => Edits(g, c))
    BY DEF TypeOK, Reply
  <2>3. \A c \in Clips : \/ clip'[c].status = clip[c].status
                         \/ ~LockedClip(c) /\ clip'[c].status = "none"
    <3> SUFFICES ASSUME NEW c \in Clips
                 PROVE  \/ clip'[c].status = clip[c].status
                        \/ ~LockedClip(c) /\ clip'[c].status = "none"
      OBVIOUS
    <3>0. PICK p : p = handler[h].project OBVIOUS
    <3>1. /\ clip'[c] = IF c \in ClipsOf(p) THEN NoClip ELSE clip[c]
          /\ ~LockedClips(p)
      BY ONLY <3>0, <1>6 DEF StartCommit
    <3>2. CASE c \in ClipsOf(p)
      <4>1. ~LockedClip(c) BY <3>1, <3>2 DEF LockedClips
      <4>2. clip'[c] = NoClip BY <3>1, <3>2
      <4> QED BY <4>1, <4>2
    <3>3. CASE c \notin ClipsOf(p) BY <3>1, <3>3
    <3> QED BY <3>2, <3>3
  <2> QED BY <2>1, <2>2, <2>3, ClaimFrame
<1>7. ASSUME NEW h \in Handlers, StartEnqueue(h) PROVE ClaimInv'
  <2> USE <1>7 DEF StartEnqueue
  <2>1. \A c \in Clips, t \in Tasks : Holds(t, c)' => Holds(t, c)
    BY DEF Deliver, FreeTasks, TypeOK, TasksOK
  <2>2. \A c \in Clips, g \in Handlers : (Asks(g, c)' => Asks(g, c)) /\ (Edits(g, c)' => Edits(g, c))
    BY DEF TypeOK, Reply
  <2> QED BY <2>1, <2>2, ClaimFrame
<1>8. ASSUME NEW h \in Handlers, StartEnqueueFails(h) PROVE ClaimInv'
  <2> USE <1>8 DEF StartEnqueueFails
  <2>1. UNCHANGED <<task, pc, todo>> OBVIOUS
  <2>2. \A c \in Clips, g \in Handlers : (Asks(g, c)' => Asks(g, c)) /\ (Edits(g, c)' => Edits(g, c))
    BY DEF TypeOK, Reply
  <2>3. \A c \in Clips : clip'[c].status = clip[c].status OBVIOUS
  <2> QED BY <2>1, <2>2, <2>3, ClaimFrame
<1>9. ASSUME NEW h \in Handlers, StartOrphaned(h) PROVE ClaimInv'
  <2> USE <1>9 DEF StartOrphaned
  <2>1. UNCHANGED <<task, pc, todo>> OBVIOUS
  <2>2. \A c \in Clips, g \in Handlers : (Asks(g, c)' => Asks(g, c)) /\ (Edits(g, c)' => Edits(g, c))
    BY DEF TypeOK, Reply
  <2>3. \A c \in Clips : clip'[c].status = clip[c].status OBVIOUS
  <2> QED BY <2>1, <2>2, <2>3, ClaimFrame
<1>10. ASSUME NEW h \in Handlers, RegenerateCommit(h) PROVE ClaimInv'
  <2> USE <1>10 DEF RegenerateCommit
  <2>0. PICK c \in Clips : c = handler[h].clip BY DEF TypeOK
  <2>1. UNCHANGED <<task, pc, todo>> OBVIOUS
  <2>2. Edits(h, c) /\ c \in Clips BY <2>0
  <2>3. ~Claimed(c) BY <2>2 DEF ClaimInv
  <2>4. handler' = [handler EXCEPT ![h] = Serving("enqueueRender", None, c)] BY <2>0
  <2>5. \A d \in Clips, g \in Handlers : /\ Asks(g, d)' => Asks(g, d) \/ (g = h /\ d = c)
                                         /\ Edits(g, d)' => Edits(g, d) /\ d # c
    BY <2>2, <2>4 DEF TypeOK, ClaimInv
  <2>6. clip'[c].status = "queued" /\ \A d \in Clips : d # c => clip'[d] = clip[d]
    BY <2>0 DEF TypeOK, RowsOK, Row
  <2>7. \A d \in Clips : d # c /\ Claimed(d)' => Claimed(d) BY <2>1, <2>5 DEF Claimed
  <2>8. \A t \in Tasks, d \in Clips : Holds(t, d)' <=> Holds(t, d) BY <2>1
  <2>9. (\A t \in Tasks : ~Holds(t, c)) /\ (\A g \in Handlers : ~Asks(g, c)) BY <2>3 DEF Claimed
  <2> HIDE <1>10 DEF Holds, Asks, Edits, RegenerateCommit
  <2>10. \A d \in Clips : d # c => clip'[d].status = clip[d].status BY <2>6
  <2>11. \A d \in Clips : Claimed(d)' => clip'[d].status \notin {"ready", "failed"}
    BY <2>6, <2>7, <2>10 DEF ClaimInv
  <2>12. \A d \in Clips : \A t \in Tasks, g \in Handlers : ~(Holds(t, d)' /\ Asks(g, d)')
    BY <2>5, <2>8, <2>9 DEF ClaimInv
  <2>13. \A d \in Clips : \A g, k \in Handlers : Asks(g, d)' /\ Asks(k, d)' => g = k
    <3>1. \A d \in Clips : \A g, k \in Handlers : Asks(g, d) /\ Asks(k, d) => g = k BY DEF ClaimInv
    <3>2. \A g \in Handlers : ~Asks(g, c) BY <2>0, <2>9
    <3> QED BY ONLY <2>5, <3>1, <3>2
  <2>14. \A d \in Clips : \A g \in Handlers : Edits(g, d)' => clip'[d].status \in {"ready", "failed"}
    BY <2>5, <2>10 DEF ClaimInv
  <2> QED BY <2>5, <2>8, <2>11, <2>12, <2>13, <2>14 DEF ClaimInv
<1>11. ASSUME NEW h \in Handlers, RegenerateEnqueue(h) PROVE ClaimInv'
  <2> USE <1>11 DEF RegenerateEnqueue
  <2>0. PICK c \in Clips : c = handler[h].clip BY DEF TypeOK
  <2>1. PICK u \in FreeTasks : Deliver(u, Message("render", None, c)) BY <2>0
  <2>2. Asks(h, c) BY <2>0
  <2>3. u \in Tasks BY DEF FreeTasks
  <2>4. \A d \in Clips, t \in Tasks : Holds(t, d)' => Holds(t, d) \/ (t = u /\ d = c)
    <3>1. /\ task \in [Tasks -> Messages] /\ pc \in [Tasks -> TaskPc]
          /\ task' = [task EXCEPT ![u] = Message("render", None, c)]
          /\ pc' = [pc EXCEPT ![u] = "sent"]
          /\ todo' = todo
      BY <2>1 DEF Deliver, TypeOK, TasksOK
    <3>2. \A t \in Tasks : t # u => task'[t] = task[t] /\ pc'[t] = pc[t] BY <3>1
    <3>3. task'[u].clip = c /\ pc'[u] = "sent" BY <2>3, <3>1
    <3> HIDE <1>11 DEF RegenerateEnqueue
    <3> QED BY <3>1, <3>2, <3>3
  <2>5. \A d \in Clips, g \in Handlers : (Asks(g, d)' => Asks(g, d) /\ g # h) /\ (Edits(g, d)' => Edits(g, d))
    BY DEF Reply, TypeOK
  <2>6. UNCHANGED clip OBVIOUS
  <2>7. \A d \in Clips : Claimed(d)' => Claimed(d) BY <2>2, <2>4, <2>5 DEF Claimed
  <2>8. \A t \in Tasks, g \in Handlers : ~Holds(t, c) /\ (Asks(g, c) => g = h) BY <2>2 DEF ClaimInv
  <2> HIDE <1>11 DEF Holds, Asks, Edits, RegenerateEnqueue
  <2> QED BY <2>2, <2>4, <2>5, <2>6, <2>7, <2>8 DEF ClaimInv
<1>12. ASSUME NEW h \in Handlers, RegenerateEnqueueFails(h) PROVE ClaimInv'
  <2> USE <1>12 DEF RegenerateEnqueueFails
  <2>1. UNCHANGED <<task, pc, todo>> OBVIOUS
  <2>2. \A c \in Clips, g \in Handlers : (Asks(g, c)' => Asks(g, c)) /\ (Edits(g, c)' => Edits(g, c))
    BY DEF TypeOK, Reply
  <2>3. \A c \in Clips : \/ clip'[c].status = clip[c].status
                         \/ ~LockedClip(c) /\ ~Claimed(c)'
    <3>0. PICK d \in Clips : d = handler[h].clip BY DEF TypeOK
    <3>1. Asks(h, d) BY <3>0
    <3>2. ~Asks(h, d)' BY DEF TypeOK, Reply
    <3>3. ~Claimed(d)'
      <4> HIDE DEF Holds, Asks
      <4>1. \A t \in Tasks : ~Holds(t, d) BY <3>1 DEF ClaimInv
      <4>2. \A g \in Handlers : Asks(g, d) => g = h BY <3>1 DEF ClaimInv
      <4>3. \A t \in Tasks : ~Holds(t, d)' BY <2>1, <4>1 DEF Holds
      <4>4. \A g \in Handlers : ~Asks(g, d)' BY <2>2, <3>1, <3>2, <4>2
      <4> QED BY <4>3, <4>4 DEF Claimed
    <3>4. \A c \in Clips : c # d => clip'[c] = clip[c] BY <3>0 DEF TypeOK, RowsOK
    <3>5. ~LockedClip(d) BY <3>0
    <3> HIDE <1>12 DEF Holds, Asks, RegenerateEnqueueFails
    <3> QED BY <3>3, <3>4, <3>5
  <2> QED BY <2>1, <2>2, <2>3, ClaimFrame
<1>13. ASSUME NEW h \in Handlers, RegenerateOrphaned(h) PROVE ClaimInv'
  <2> USE <1>13 DEF RegenerateOrphaned
  <2>1. UNCHANGED <<task, pc, todo>> OBVIOUS
  <2>2. \A c \in Clips, g \in Handlers : (Asks(g, c)' => Asks(g, c)) /\ (Edits(g, c)' => Edits(g, c))
    BY DEF TypeOK, Reply
  <2>3. \A c \in Clips : clip'[c].status = clip[c].status OBVIOUS
  <2> QED BY <2>1, <2>2, <2>3, ClaimFrame
<1>14. ASSUME NEW h \in Handlers, DeleteClipCommit(h) PROVE ClaimInv'
  <2> USE <1>14 DEF DeleteClipCommit
  <2>1. UNCHANGED <<task, pc, todo>> OBVIOUS
  <2>2. \A c \in Clips, g \in Handlers : (Asks(g, c)' => Asks(g, c)) /\ (Edits(g, c)' => Edits(g, c))
    BY DEF TypeOK, Reply
  <2>3. \A c \in Clips : \/ clip'[c].status = clip[c].status
                         \/ ~LockedClip(c) /\ clip'[c].status = "none"
    <3>0. PICK d : d = handler[h].clip OBVIOUS
    <3>1. clip' = [clip EXCEPT ![d] = NoClip] /\ ~LockedClip(d) BY <3>0
    <3>2. clip \in [Clips -> ClipRows] BY DEF TypeOK, RowsOK
    <3> HIDE <1>14 DEF DeleteClipCommit
    <3> QED BY <3>1, <3>2
  <2> QED BY <2>1, <2>2, <2>3, ClaimFrame
<1>15. ASSUME NEW h \in Handlers, DeleteProjectCommit(h) PROVE ClaimInv'
  <2> USE <1>15 DEF DeleteProjectCommit
  <2>1. UNCHANGED <<task, pc, todo>> OBVIOUS
  <2>2. \A c \in Clips, g \in Handlers : (Asks(g, c)' => Asks(g, c)) /\ (Edits(g, c)' => Edits(g, c))
    BY DEF TypeOK, Reply
  <2>3. \A c \in Clips : \/ clip'[c].status = clip[c].status
                         \/ ~LockedClip(c) /\ clip'[c].status = "none"
    <3> SUFFICES ASSUME NEW c \in Clips
                 PROVE  \/ clip'[c].status = clip[c].status
                        \/ ~LockedClip(c) /\ clip'[c].status = "none"
      OBVIOUS
    <3>0. PICK p : p = handler[h].project OBVIOUS
    <3>1. /\ clip'[c] = IF c \in ClipsOf(p) THEN NoClip ELSE clip[c]
          /\ ~LockedClips(p)
      BY ONLY <3>0, <1>15 DEF DeleteProjectCommit
    <3>2. CASE c \in ClipsOf(p)
      <4>1. ~LockedClip(c) BY <3>1, <3>2 DEF LockedClips
      <4>2. clip'[c] = NoClip BY <3>1, <3>2
      <4> QED BY <4>1, <4>2
    <3>3. CASE c \notin ClipsOf(p) BY <3>1, <3>3
    <3> QED BY <3>2, <3>3
  <2> QED BY <2>1, <2>2, <2>3, ClaimFrame
<1>16. ASSUME NEW t \in Tasks, TranscribeStart(t) PROVE ClaimInv'
  <2> USE <1>16 DEF TranscribeStart
  <2>1. \A c \in Clips, u \in Tasks : Holds(u, c)' => Holds(u, c)
    BY DEF TypeOK, TasksOK, Goto, End
  <2>2. UNCHANGED handler OBVIOUS
  <2>3. \A c \in Clips : clip'[c].status = clip[c].status BY DEF TypeOK, RowsOK
  <2> QED BY <2>1, <2>2, <2>3, ClaimFrame
<1>17. ASSUME NEW t \in Tasks, Ingest(t) PROVE ClaimInv'
  <2> USE <1>17 DEF Ingest
  <2>1. \A c \in Clips, u \in Tasks : Holds(u, c)' => Holds(u, c)
    BY DEF TypeOK, TasksOK, Goto, End
  <2>2. UNCHANGED handler OBVIOUS
  <2>3. \A c \in Clips : clip'[c].status = clip[c].status BY DEF TypeOK, RowsOK
  <2> QED BY <2>1, <2>2, <2>3, ClaimFrame
<1>18. ASSUME NEW t \in Tasks, Transcribed(t) PROVE ClaimInv'
  <2> USE <1>18 DEF Transcribed
  <2>1. \A c \in Clips, u \in Tasks : Holds(u, c)' => Holds(u, c)
    BY DEF TypeOK, TasksOK, Goto, End
  <2>2. UNCHANGED handler OBVIOUS
  <2>3. \A c \in Clips : clip'[c].status = clip[c].status BY DEF TypeOK, RowsOK
  <2> QED BY <2>1, <2>2, <2>3, ClaimFrame
<1>19. ASSUME NEW t \in Tasks, Chain(t) PROVE ClaimInv'
  <2> USE <1>19 DEF Chain
  <2>1. \A c \in Clips, u \in Tasks : Holds(u, c)' => Holds(u, c)
    BY DEF TypeOK, TasksOK, Goto, End, FreeTasks
  <2>2. UNCHANGED handler OBVIOUS
  <2>3. \A c \in Clips : clip'[c].status = clip[c].status BY DEF TypeOK, RowsOK, FreeTasks
  <2> QED BY <2>1, <2>2, <2>3, ClaimFrame
<1>20. ASSUME NEW t \in Tasks, DetectStart(t) PROVE ClaimInv'
  <2> USE <1>20 DEF DetectStart
  <2>1. \A c \in Clips, u \in Tasks : Holds(u, c)' => Holds(u, c)
    BY DEF TypeOK, TasksOK, Goto, End
  <2>2. UNCHANGED handler OBVIOUS
  <2>3. \A c \in Clips : clip'[c].status = clip[c].status BY DEF TypeOK, RowsOK
  <2> QED BY <2>1, <2>2, <2>3, ClaimFrame
<1>21. ASSUME NEW t \in Tasks, NoCandidates(t) PROVE ClaimInv'
  <2> USE <1>21 DEF NoCandidates
  <2>1. \A c \in Clips, u \in Tasks : Holds(u, c)' => Holds(u, c)
    BY DEF TypeOK, TasksOK, Goto, End
  <2>2. UNCHANGED handler OBVIOUS
  <2>3. \A c \in Clips : clip'[c].status = clip[c].status BY DEF TypeOK, RowsOK
  <2> QED BY <2>1, <2>2, <2>3, ClaimFrame
<1>22. ASSUME NEW t \in Tasks, Close(t) PROVE ClaimInv'
  <2> USE <1>22 DEF Close
  <2>1. \A c \in Clips, u \in Tasks : Holds(u, c)' => Holds(u, c)
    BY DEF TypeOK, TasksOK, Goto, End
  <2>2. UNCHANGED handler OBVIOUS
  <2>3. \A c \in Clips : clip'[c].status = clip[c].status BY DEF TypeOK, RowsOK
  <2> QED BY <2>1, <2>2, <2>3, ClaimFrame
<1>23. ASSUME NEW t \in Tasks, CreateClips(t) PROVE ClaimInv'
  <2> USE <1>23 DEF CreateClips
  <2>1. PICK cs \in SUBSET FreshClips, w \in Windows :
           /\ clip' = [c \in Clips |-> IF c \in cs THEN Row("queued", task[t].project, w, FALSE) ELSE clip[c]]
           /\ todo' = [todo EXCEPT ![t] = cs]
           /\ pc' = [pc EXCEPT ![t] = "fanout"]
    BY ONLY <1>23 DEF CreateClips
  <2>2. cs \subseteq Clips BY DEF FreshClips
  <2>3. \A c \in cs : /\ \A u \in Tasks : ~Holds(u, c)
                     /\ \A h \in Handlers : ~Asks(h, c) /\ ~Edits(h, c)
    BY DEF FreshClips
  <2>4. \A c \in Clips, u \in Tasks : Holds(u, c)' => Holds(u, c) \/ (u = t /\ c \in cs)
    <3>1. task' = task /\ todo \in [Tasks -> SUBSET Clips] /\ pc \in [Tasks -> TaskPc]
      BY DEF TypeOK, TasksOK
    <3>2. \A u \in Tasks : u # t => todo'[u] = todo[u] /\ pc'[u] = pc[u] BY <2>1, <3>1
    <3>3. todo'[t] = cs /\ pc'[t] = "fanout" BY <2>1, <3>1
    <3> HIDE <1>23 DEF CreateClips
    <3> QED BY <3>1, <3>2, <3>3
  <2>5. UNCHANGED handler OBVIOUS
  <2>6. \A c \in cs : clip'[c].status = "queued" BY <2>1, <2>2 DEF Row
  <2>7. \A c \in Clips : c \notin cs => clip'[c] = clip[c] BY <2>1
  <2>8. \A c \in Clips : c \notin cs /\ Claimed(c)' => Claimed(c) BY <2>4, <2>5 DEF Claimed
  <2>9. \A c \in Clips, h \in Handlers : (Asks(h, c)' <=> Asks(h, c)) /\ (Edits(h, c)' <=> Edits(h, c)) BY <2>5
  <2> HIDE <1>23 DEF Holds, Asks, Edits, CreateClips
  <2> QED BY <2>3, <2>4, <2>6, <2>7, <2>8, <2>9 DEF ClaimInv
<1>24. ASSUME NEW t \in Tasks, FanOut(t) PROVE ClaimInv'
  <2> USE <1>24 DEF FanOut
  <2>1. PICK c \in todo[t], u \in FreeTasks :
           /\ task' = [task EXCEPT ![u] = Message("render", None, c)]
           /\ pc' = [pc EXCEPT ![u] = "sent"]
           /\ todo' = [todo EXCEPT ![t] = @ \ {c}]
    OBVIOUS
  <2>2. u \in Tasks /\ u # t /\ pc[u] = "free" BY DEF FreeTasks
  <2>3. c \in Clips /\ Holds(t, c) BY DEF TypeOK, TasksOK
  <2>4. \A d \in Clips, v \in Tasks : Holds(v, d)' => IF v = u THEN d = c
                                                    ELSE Holds(v, d) /\ (v = t => d # c)
    BY <2>1, <2>2 DEF TypeOK, TasksOK
  <2>5. UNCHANGED <<handler, clip>> OBVIOUS
  <2>6. \A d \in Clips : Claimed(d)' => Claimed(d) BY <2>3, <2>4, <2>5 DEF Claimed
  <2>7. \A d \in Clips, h \in Handlers : (Asks(h, d)' <=> Asks(h, d)) /\ (Edits(h, d)' <=> Edits(h, d)) BY <2>5
  <2> HIDE <1>24 DEF Holds, Asks, Edits, FanOut
  <2> QED BY <2>3, <2>4, <2>5, <2>6, <2>7 DEF ClaimInv
<1>25. ASSUME NEW t \in Tasks, Raise(t) PROVE ClaimInv'
  <2> USE <1>25 DEF Raise
  <2>1. \A c \in Clips, u \in Tasks : Holds(u, c)' => Holds(u, c)
    <3>1. /\ task' = task /\ pc' = [pc EXCEPT ![t] = "failJob"] /\ todo' = [todo EXCEPT ![t] = {}]
          /\ pc[t] \in {"ingest", "asr", "detect", "encode", "encoding", "chain", "fanout"}
      OBVIOUS
    <3>2. /\ todo \in [Tasks -> SUBSET Clips] /\ pc \in [Tasks -> TaskPc]
          /\ Steps(task[t].kind, pc[t])
      BY DEF TypeOK, TasksOK
    <3>3. Unsettled(t)' => Unsettled(t) BY <3>1, <3>2 DEF Steps
    <3>4. todo'[t] = {} /\ \A u \in Tasks : u # t => pc'[u] = pc[u] /\ todo'[u] = todo[u]
      BY <3>1, <3>2
    <3> HIDE <1>25 DEF Raise
    <3> QED BY <3>1, <3>2, <3>3, <3>4
  <2>2. UNCHANGED handler OBVIOUS
  <2>3. \A c \in Clips : clip'[c].status = clip[c].status BY DEF TypeOK, RowsOK
  <2> QED BY <2>1, <2>2, <2>3, ClaimFrame
<1>26. ASSUME NEW t \in Tasks, FailJob(t) PROVE ClaimInv'
  <2> USE <1>26 DEF FailJob
  <2>1. \A c \in Clips, u \in Tasks : Holds(u, c)' => Holds(u, c)
    BY DEF TypeOK, TasksOK, Goto, End
  <2>2. UNCHANGED handler OBVIOUS
  <2>3. \A c \in Clips : clip'[c].status = clip[c].status BY DEF TypeOK, RowsOK
  <2> QED BY <2>1, <2>2, <2>3, ClaimFrame
<1>27. ASSUME NEW t \in Tasks, FailProject(t) PROVE ClaimInv'
  <2> USE <1>27 DEF FailProject
  <2>1. \A c \in Clips, u \in Tasks : Holds(u, c)' => Holds(u, c)
    BY DEF TypeOK, TasksOK, Goto, End
  <2>2. UNCHANGED handler OBVIOUS
  <2>3. \A c \in Clips : clip'[c].status = clip[c].status BY DEF TypeOK, RowsOK
  <2> QED BY <2>1, <2>2, <2>3, ClaimFrame
<1>28. ASSUME NEW t \in Tasks, ProjectGone(t) PROVE ClaimInv'
  <2> USE <1>28 DEF ProjectGone
  <2>1. \A c \in Clips, u \in Tasks : Holds(u, c)' => Holds(u, c)
    BY DEF TypeOK, TasksOK, Goto, End, Abandon
  <2>2. UNCHANGED handler OBVIOUS
  <2>3. \A c \in Clips : clip'[c].status = clip[c].status BY DEF TypeOK, RowsOK, Abandon
  <2> QED BY <2>1, <2>2, <2>3, ClaimFrame
<1>29. ASSUME NEW t \in Tasks, RenderClipGone(t) PROVE ClaimInv'
  <2> USE <1>29 DEF RenderClipGone
  <2>1. \A c \in Clips, u \in Tasks : Holds(u, c)' => Holds(u, c)
    BY DEF TypeOK, TasksOK, Goto, End
  <2>2. UNCHANGED handler OBVIOUS
  <2>3. \A c \in Clips : clip'[c].status = clip[c].status BY DEF TypeOK, RowsOK
  <2> QED BY <2>1, <2>2, <2>3, ClaimFrame
<1>30. ASSUME NEW t \in Tasks, RenderStart(t) PROVE ClaimInv'
  <2> USE <1>30 DEF RenderStart
  <2>1. \A c \in Clips, u \in Tasks : Holds(u, c)' => Holds(u, c)
    BY DEF TypeOK, TasksOK, Goto, End
  <2>2. UNCHANGED handler OBVIOUS
  <2>3. \A c \in Clips : \/ clip'[c].status = clip[c].status
                         \/ ~LockedClip(c) /\ clip'[c].status = "rendering"
    <3>0. PICK d : d = task[t].clip OBVIOUS
    <3>1. clip' = [clip EXCEPT ![d] = Marked(d, "rendering")] /\ ~LockedClip(d) BY <3>0
    <3>2. Marked(d, "rendering").status = "rendering" BY DEF Marked, Row
    <3>3. clip \in [Clips -> ClipRows] BY DEF TypeOK, RowsOK
    <3> HIDE <1>30 DEF RenderStart
    <3> QED BY <3>1, <3>2, <3>3
  <2> QED BY <2>1, <2>2, <2>3, ClaimFrame
<1>31. ASSUME NEW t \in Tasks, EncodeBegins(t) PROVE ClaimInv'
  <2> USE <1>31 DEF EncodeBegins
  <2>1. \A c \in Clips, u \in Tasks : Holds(u, c)' => Holds(u, c)
    BY DEF TypeOK, TasksOK, Goto, End
  <2>2. UNCHANGED handler OBVIOUS
  <2>3. \A c \in Clips : clip'[c].status = clip[c].status BY DEF TypeOK, RowsOK
  <2> QED BY <2>1, <2>2, <2>3, ClaimFrame
<1>32. ASSUME NEW t \in Tasks, EncodeEnds(t) PROVE ClaimInv'
  <2> USE <1>32 DEF EncodeEnds
  <2>1. \A c \in Clips, u \in Tasks : Holds(u, c)' => Holds(u, c)
    BY DEF TypeOK, TasksOK, Goto, End
  <2>2. UNCHANGED handler OBVIOUS
  <2>3. \A c \in Clips : clip'[c].status = clip[c].status BY DEF TypeOK, RowsOK
  <2> QED BY <2>1, <2>2, <2>3, ClaimFrame
<1>33. ASSUME NEW t \in Tasks, Publish(t) PROVE ClaimInv'
  <2> USE <1>33 DEF Publish
  <2>1. \A c \in Clips, u \in Tasks : Holds(u, c)' => Holds(u, c)
    BY DEF TypeOK, TasksOK, Goto, End
  <2>2. UNCHANGED handler OBVIOUS
  <2>3. \A c \in Clips : \/ clip'[c].status = clip[c].status
                         \/ ~LockedClip(c) /\ ~Claimed(c)'
    <3>0. PICK d \in Clips : d = task[t].clip BY DEF TypeOK, TasksOK, Steps
    <3>1. Holds(t, d) BY <3>0 DEF TypeOK, TasksOK, Steps
    <3>2. ~Claimed(d)'
      <4>1. ~Holds(t, d)' BY <3>0 DEF Goto, TypeOK, TasksOK, Steps
      <4> HIDE DEF Holds, Asks
      <4>2. /\ \A u \in Tasks : Holds(u, d) => u = t
            /\ \A h \in Handlers : ~Asks(h, d)
        BY <3>1 DEF ClaimInv
      <4>3. \A h \in Handlers : ~Asks(h, d)' BY <4>2, <2>2 DEF Asks
      <4>4. \A u \in Tasks : ~Holds(u, d)' BY <4>1, <4>2, <2>1
      <4> QED BY <4>3, <4>4 DEF Claimed
    <3>3. \A c \in Clips : c # d => clip'[c] = clip[c] BY <3>0 DEF TypeOK, RowsOK
    <3>4. ~LockedClip(d) BY <3>0
    <3> HIDE <1>33 DEF Publish
    <3> QED BY <3>2, <3>3, <3>4
  <2> QED BY <2>1, <2>2, <2>3, ClaimFrame
<1>34. ASSUME NEW t \in Tasks, PublishRaises(t) PROVE ClaimInv'
  <2> USE <1>34 DEF PublishRaises
  <2>1. \A c \in Clips, u \in Tasks : Holds(u, c)' => Holds(u, c)
    BY DEF TypeOK, TasksOK, Goto, End
  <2>2. UNCHANGED handler OBVIOUS
  <2>3. \A c \in Clips : clip'[c].status = clip[c].status BY DEF TypeOK, RowsOK
  <2> QED BY <2>1, <2>2, <2>3, ClaimFrame
<1>35. ASSUME NEW t \in Tasks, FailClip(t) PROVE ClaimInv'
  <2> USE <1>35 DEF FailClip
  <2>1. \A c \in Clips, u \in Tasks : Holds(u, c)' => Holds(u, c)
    BY DEF TypeOK, TasksOK, Goto, End
  <2>2. UNCHANGED handler OBVIOUS
  <2>3. \A c \in Clips : \/ clip'[c].status = clip[c].status
                         \/ ~LockedClip(c) /\ ~Claimed(c)'
    <3>0. PICK d \in Clips : d = task[t].clip BY DEF TypeOK, TasksOK, Steps
    <3>1. Holds(t, d) BY <3>0 DEF TypeOK, TasksOK, Steps
    <3>2. ~Claimed(d)'
      <4>1. ~Holds(t, d)' BY <3>0 DEF Goto, TypeOK, TasksOK, Steps
      <4> HIDE DEF Holds, Asks
      <4>2. /\ \A u \in Tasks : Holds(u, d) => u = t
            /\ \A h \in Handlers : ~Asks(h, d)
        BY <3>1 DEF ClaimInv
      <4>3. \A h \in Handlers : ~Asks(h, d)' BY <4>2, <2>2 DEF Asks
      <4>4. \A u \in Tasks : ~Holds(u, d)' BY <4>1, <4>2, <2>1
      <4> QED BY <4>3, <4>4 DEF Claimed
    <3>3. \A c \in Clips : c # d => clip'[c] = clip[c] BY <3>0 DEF TypeOK, RowsOK
    <3>4. ~LockedClip(d) BY <3>0
    <3> HIDE <1>35 DEF FailClip
    <3> QED BY <3>2, <3>3, <3>4
  <2> QED BY <2>1, <2>2, <2>3, ClaimFrame
<1>36. ASSUME NEW t \in Tasks, TallyStops(t) PROVE ClaimInv'
  <2> USE <1>36 DEF TallyStops
  <2>1. \A c \in Clips, u \in Tasks : Holds(u, c)' => Holds(u, c)
    BY DEF TypeOK, TasksOK, Goto, End
  <2>2. UNCHANGED handler OBVIOUS
  <2>3. \A c \in Clips : clip'[c].status = clip[c].status BY DEF TypeOK, RowsOK
  <2> QED BY <2>1, <2>2, <2>3, ClaimFrame
<1>37. ASSUME NEW t \in Tasks, Tally(t) PROVE ClaimInv'
  <2> USE <1>37 DEF Tally
  <2>1. \A c \in Clips, u \in Tasks : Holds(u, c)' => Holds(u, c)
    BY DEF TypeOK, TasksOK, Goto, End
  <2>2. UNCHANGED handler OBVIOUS
  <2>3. \A c \in Clips : clip'[c].status = clip[c].status BY DEF TypeOK, RowsOK
  <2> QED BY <2>1, <2>2, <2>3, ClaimFrame
<1>38. ASSUME NEW t \in Tasks, CheckStops(t) PROVE ClaimInv'
  <2> USE <1>38 DEF CheckStops
  <2>1. \A c \in Clips, u \in Tasks : Holds(u, c)' => Holds(u, c)
    BY DEF TypeOK, TasksOK, Goto, End
  <2>2. UNCHANGED handler OBVIOUS
  <2>3. \A c \in Clips : clip'[c].status = clip[c].status BY DEF TypeOK, RowsOK
  <2> QED BY <2>1, <2>2, <2>3, ClaimFrame
<1>39. ASSUME NEW t \in Tasks, Check(t) PROVE ClaimInv'
  <2> USE <1>39 DEF Check
  <2>1. \A c \in Clips, u \in Tasks : Holds(u, c)' => Holds(u, c)
    BY DEF TypeOK, TasksOK, Goto, End
  <2>2. UNCHANGED handler OBVIOUS
  <2>3. \A c \in Clips : clip'[c].status = clip[c].status BY DEF TypeOK, RowsOK
  <2> QED BY <2>1, <2>2, <2>3, ClaimFrame
<1>40. ASSUME NEW t \in Tasks, FinalizeReady(t) PROVE ClaimInv'
  <2> USE <1>40 DEF FinalizeReady
  <2>1. \A c \in Clips, u \in Tasks : Holds(u, c)' => Holds(u, c)
    BY DEF TypeOK, TasksOK, Goto, End
  <2>2. UNCHANGED handler OBVIOUS
  <2>3. \A c \in Clips : clip'[c].status = clip[c].status BY DEF TypeOK, RowsOK
  <2> QED BY <2>1, <2>2, <2>3, ClaimFrame
<1>41. ASSUME NEW t \in Tasks, FinalizeFailed(t) PROVE ClaimInv'
  <2> USE <1>41 DEF FinalizeFailed
  <2>1. \A c \in Clips, u \in Tasks : Holds(u, c)' => Holds(u, c)
    BY DEF TypeOK, TasksOK, Goto, End
  <2>2. UNCHANGED handler OBVIOUS
  <2>3. \A c \in Clips : clip'[c].status = clip[c].status BY DEF TypeOK, RowsOK
  <2> QED BY <2>1, <2>2, <2>3, ClaimFrame
<1>42. ASSUME NEW t \in Tasks, BillStops(t) PROVE ClaimInv'
  <2> USE <1>42 DEF BillStops
  <2>1. \A c \in Clips, u \in Tasks : Holds(u, c)' => Holds(u, c)
    BY DEF TypeOK, TasksOK, Goto, End
  <2>2. UNCHANGED handler OBVIOUS
  <2>3. \A c \in Clips : clip'[c].status = clip[c].status BY DEF TypeOK, RowsOK
  <2> QED BY <2>1, <2>2, <2>3, ClaimFrame
<1>43. ASSUME NEW t \in Tasks, Bill(t) PROVE ClaimInv'
  <2> USE <1>43 DEF Bill
  <2>1. \A c \in Clips, u \in Tasks : Holds(u, c)' => Holds(u, c)
    BY DEF TypeOK, TasksOK, Goto, End
  <2>2. UNCHANGED handler OBVIOUS
  <2>3. \A c \in Clips : clip'[c].status = clip[c].status BY DEF TypeOK, RowsOK
  <2> QED BY <2>1, <2>2, <2>3, ClaimFrame
<1>44. ASSUME NEW t \in Tasks, Record(t) PROVE ClaimInv'
  <2> USE <1>44 DEF Record
  <2>1. \A c \in Clips, u \in Tasks : Holds(u, c)' => Holds(u, c)
    BY DEF TypeOK, TasksOK, Goto, End
  <2>2. UNCHANGED handler OBVIOUS
  <2>3. \A c \in Clips : clip'[c].status = clip[c].status BY DEF TypeOK, RowsOK
  <2> QED BY <2>1, <2>2, <2>3, ClaimFrame
<1>45. ASSUME NEW t \in Tasks, FinalizeGone(t) PROVE ClaimInv'
  <2> USE <1>45 DEF FinalizeGone
  <2>1. \A c \in Clips, u \in Tasks : Holds(u, c)' => Holds(u, c)
    BY DEF TypeOK, TasksOK, Goto, End, Abandon
  <2>2. UNCHANGED handler OBVIOUS
  <2>3. \A c \in Clips : clip'[c].status = clip[c].status BY DEF TypeOK, RowsOK, Abandon
  <2> QED BY <2>1, <2>2, <2>3, ClaimFrame
<1>46. ASSUME NEW t \in Tasks, Redeliver(t) PROVE ClaimInv'
  BY <1>46 DEF Redeliver, Fault
<1>47. ASSUME NEW t \in Tasks, WorkerLost(t) PROVE ClaimInv'
  BY <1>47 DEF WorkerLost, Fault
<1>48. ASSUME NEW t \in Tasks, ChildLost(t) PROVE ClaimInv'
  <2> USE <1>48 DEF ChildLost
  <2>1. \A c \in Clips, u \in Tasks : Holds(u, c)' => Holds(u, c)
    BY DEF TypeOK, TasksOK, Goto, End, Fault
  <2>2. UNCHANGED handler OBVIOUS
  <2>3. \A c \in Clips : clip'[c].status = clip[c].status BY DEF TypeOK, RowsOK, Fault
  <2> QED BY <2>1, <2>2, <2>3, ClaimFrame
<1>49. CASE UNCHANGED vars BY <1>49, ClaimFrame DEF vars
<1> QED BY <1>1, <1>2, <1>3, <1>4, <1>5, <1>6, <1>7, <1>8, <1>9, <1>10, <1>11, <1>12, <1>13,
         <1>14, <1>15, <1>16, <1>17, <1>18, <1>19, <1>20, <1>21, <1>22, <1>23, <1>24, <1>25,
         <1>26, <1>27, <1>28, <1>29, <1>30, <1>31, <1>32, <1>33, <1>34, <1>35, <1>36, <1>37,
         <1>38, <1>39, <1>40, <1>41, <1>42, <1>43, <1>44, <1>45, <1>46, <1>47, <1>48, <1>49
     DEF Next, NewRequest, HandlerStep, TaskStep, PipelineStep, RenderStep, FinalizeStep,
         Environment, AtRest

\* As long as no message is delivered twice, two renders of one clip never wait or run
\* at the same time, for any number of workers and of concurrent requests.
THEOREM OneRenderPerClip ==
    ASSUME {"redeliver", "workerLost"} \cap Faults = {}
    PROVE  Spec => []RenderExclusive
<1>1. Init => TypeOK /\ ClaimInv BY TypeInit, ClaimInit
<1>2. TypeOK /\ ClaimInv /\ [Next]_vars => (TypeOK /\ ClaimInv)' BY TypeStep, ClaimStep
<1>3. TypeOK /\ ClaimInv => RenderExclusive
  BY MessagesTyped DEF ClaimInv, Holds, RenderExclusive, Unsettled, TypeOK, TasksOK
<1> QED BY <1>1, <1>2, <1>3, PTL DEF Spec
====
