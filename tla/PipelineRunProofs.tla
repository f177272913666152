---- MODULE PipelineRunProofs ----
(***************************************************************************)
(* What a run of a project promises to users who start a project only when *)
(* no task of an earlier run lingers (PatientSpec), for every value of the *)
(* constants and any number of runs: one run at a time, at most TopN       *)
(* clips, ready only when every clip has settled, and somebody to finish   *)
(* what is analyzing.  All four rest on RunInv, which says who may be at   *)
(* work on a project while a run of it has yet to create its clips.        *)
(***************************************************************************)
EXTENDS PipelineProofs, FiniteSetTheorems

\* A request about to start a run; and whether a run has yet to create its clips.
Begins(h, p) == handler[h].pc \in {"starting", "enqueueRun"} /\ handler[h].project = p
Runs(t, p) == Running(t) /\ task[t].project = p
Opens(p) ==
    \/ \E h \in Handlers : Begins(h, p) /\ handler[h].pc = "enqueueRun"
    \/ \E t \in Tasks : Runs(t, p)

\* A run begins with one request, beside which no task works for the project; then it is
\* one task, beside which only the tasks closing behind it do; and until it has created
\* its clips the project has none and shows that it is being processed.
RunInv ==
    /\ \A p \in Projects : \A h, g \in Handlers : Begins(h, p) /\ Begins(g, p) => h = g
    /\ \A p \in Projects : \A h \in Handlers, t \in Tasks : Begins(h, p) => task[t].project # p
    /\ \A p \in Projects : \A t, u \in Tasks :
           Runs(t, p) /\ task[u].project = p => u = t \/ pc[u] = "close"
    /\ \A p \in Projects : Opens(p) => ClipsOf(p) = {} /\ status[p] \in ActiveStatuses \cup {"absent"}

\* A clip without a row belongs to no project.
LEMMA RowlessClips == TypeOK => \A c \in Clips : ~HasRow(c) => clip[c].project \notin Projects
BY Rows, IdsAssumption DEF TypeOK, RowsOK, HasRow, ClipRows, ClipStatus, Row

\* A step that begins no run, hands none on and lets nobody else work for a project; where
\* a run has yet to create its clips it adds none and writes no outcome.
LEMMA RunFrame ==
    ASSUME RunInv,
           \A p \in Projects : \A h \in Handlers : Begins(h, p)' => handler'[h] = handler[h],
           \A p \in Projects : \A t \in Tasks : task'[t].project = p =>
               /\ task[t].project = p
               /\ Running(t)' => Running(t)
               /\ pc[t] = "close" => pc'[t] = "close",
           \A p \in Projects : Opens(p)' =>
               /\ ClipsOf(p)' \subseteq ClipsOf(p)
               /\ status'[p] = status[p] \/ status'[p] \in ActiveStatuses \cup {"absent"}
    PROVE  RunInv'
<1>1. \A p \in Projects, h \in Handlers : Begins(h, p)' => Begins(h, p)
  BY DEF Begins
<1>2. \A p \in Projects, t \in Tasks : Runs(t, p)' => Runs(t, p)
  BY DEF Runs
<1>3. \A p \in Projects : Opens(p)' => Opens(p)
  BY <1>1, <1>2 DEF Opens
<1> QED BY <1>1, <1>2, <1>3 DEF RunInv

\* Nobody works in the empty system.
LEMMA RunInit == Init => RunInv
BY MessagesTyped, HandlersTyped, IdsAssumption DEF Init, RunInv, Begins, Runs, Opens, Running

\* No step but a second delivery lets two runs of a project meet.
LEMMA RunStep ==
    ASSUME {"redeliver", "workerLost"} \cap Faults = {}
    PROVE  TypeOK /\ RunInv /\ [Next /\ PatientStarts]_vars => RunInv'
<1> SUFFICES ASSUME TypeOK, RunInv, [Next /\ PatientStarts]_vars PROVE RunInv' OBVIOUS
<1> USE MessagesTyped, HandlersTyped, IdsAssumption, RowlessClips DEF TypeOK, RowsOK, TasksOK, Exists
<1> USE DEF rows, tasks, locals, At, Sent, Reply, Goto, End, Abandon, Begins, Runs, Opens, Running, ClipsOf, HasRow, Marked, Row, ActiveStatuses
<1>1. ASSUME NEW p \in Projects, CreateProject(p) PROVE RunInv'
  <2> USE <1>1 DEF CreateProject, FreshProjects
  <2>1. ~Opens(p)' OBVIOUS
  <2>2. \A q \in Projects \ {p} : status'[q] = status[q] OBVIOUS
  <2>3. QED BY <2>1, <2>2, RunFrame
<1>2. ASSUME NEW h \in Handlers, NEW p \in Projects, StartLock(h, p) PROVE RunInv'
  <2> USE <1>2 DEF StartLock, Request
  <2>1. handler'[h].pc = "starting" /\ handler'[h].project = p /\ handler[h].pc = "idle" OBVIOUS
  <2>2. ~Opens(p) BY DEF RunInv
  <2>3. \A t \in Tasks : task[t].project # p
    <3>1. PatientStarts BY <2>1 DEF vars
    <3>2. \A t \in Tasks : ~Lingers(t, p) BY <2>1, <3>1 DEF PatientStarts
    <3>3. QED BY <2>2, <3>2 DEF Lingers
  <2>4. \A g \in Handlers : ~Begins(g, p) BY <2>2 DEF LockedProject
  <2>5. \A q \in Projects, g \in Handlers : Begins(g, q)' =>
            (g = h /\ q = p) \/ (g # h /\ handler'[g] = handler[g] /\ Begins(g, q))
    BY <2>1
  <2>6. \A q \in Projects : ~Opens(q) => ~Opens(q)' BY <2>1, <2>5
  <2>7. UNCHANGED <<task, pc, clip, status>> OBVIOUS
  <2> HIDE DEF Begins, Opens
  <2>8. \A q \in Projects : \A g, f \in Handlers : Begins(g, q)' /\ Begins(f, q)' => g = f
    <3>1. \A q \in Projects : \A g, f \in Handlers : Begins(g, q) /\ Begins(f, q) => g = f
      BY DEF RunInv
    <3>2. QED BY <2>4, <2>5, <3>1
  <2>9. \A q \in Projects : \A g \in Handlers, t \in Tasks : Begins(g, q)' => task'[t].project # q
    BY <2>3, <2>5, <2>7 DEF RunInv
  <2>10. QED BY <2>6, <2>7, <2>8, <2>9 DEF RunInv
<1>3. ASSUME NEW h \in Handlers, NEW p \in Projects, DeleteProjectMedia(h, p) PROVE RunInv'
  BY <1>3, RunFrame DEF DeleteProjectMedia, Request
<1>4. ASSUME NEW h \in Handlers, NEW c \in Clips, RegenerateLock(h, c) PROVE RunInv'
  BY <1>4, RunFrame DEF RegenerateLock, Request
<1>5. ASSUME NEW h \in Handlers, NEW c \in Clips, DeleteClipMedia(h, c) PROVE RunInv'
  BY <1>5, RunFrame DEF DeleteClipMedia, Request
<1>6. ASSUME NEW h \in Handlers, StartCommit(h) PROVE RunInv'
  <2> USE <1>6 DEF StartCommit
  <2>0. PICK p \in Projects : p = handler[h].project BY DEF HandlerStates
  <2>1. p = handler[h].project /\ Begins(h, p) /\ Begins(h, p)' BY <2>0
  <2>2. \A q \in Projects, g \in Handlers : Begins(g, q)' => Begins(g, q) BY <2>1
  <2>3. ClipsOf(p)' = {} /\ status'[p] = "transcribing" BY <2>1, Rows
  <2>4. \A q \in Projects \ {p} : ClipsOf(q)' \subseteq ClipsOf(q) /\ status'[q] = status[q] BY <2>1, Rows
  <2>5. \A q \in Projects \ {p} : Opens(q)' => Opens(q) BY <2>1
  <2>6. UNCHANGED <<task, pc>> OBVIOUS
  <2> HIDE DEF Begins, Opens, ClipsOf
  <2>7. \A q \in Projects : Opens(q)' => ClipsOf(q)' = {} /\ status'[q] \in ActiveStatuses \cup {"absent"}
    BY <2>3, <2>4, <2>5 DEF RunInv
  <2>8. QED BY <2>2, <2>6, <2>7 DEF RunInv
<1>7. ASSUME NEW h \in Handlers, StartEnqueue(h) PROVE RunInv'
  <2> USE <1>7 DEF StartEnqueue
  <2>0. PICK p \in Projects : p = handler[h].project BY DEF HandlerStates
  <2>1. p = handler[h].project /\ Begins(h, p) /\ Opens(p) BY <2>0
  <2>2. PICK t \in FreeTasks : Deliver(t, Message("transcribe", p, None)) BY <2>1
  <2> USE <2>2 DEF Deliver, FreeTasks
  <2>3. \A q \in Projects, g \in Handlers : Begins(g, q)' => Begins(g, q) /\ q # p
    BY <2>1 DEF RunInv
  <2>4. \A q \in Projects : \A u \in Tasks : task'[u].project = q =>
            IF u = t THEN q = p ELSE task[u].project = q /\ task'[u] = task[u] /\ pc'[u] = pc[u] /\ q # p
    BY <2>1 DEF RunInv
  <2>5. \A q \in Projects, u \in Tasks : Runs(u, q)' => (u = t /\ q = p) \/ (u # t /\ q # p /\ Runs(u, q))
    BY <2>4
  <2>6. \A q \in Projects : Opens(q)' => Opens(q) BY <2>1, <2>3, <2>5
  <2>7. UNCHANGED <<status, clip>> OBVIOUS
  <2> HIDE DEF Begins, Opens, ClipsOf, Runs, Deliver
  <2>8. \A q \in Projects : \A g \in Handlers, u \in Tasks : Begins(g, q)' => task'[u].project # q
    BY <2>3, <2>4 DEF RunInv
  <2>9. \A q \in Projects : \A u, v \in Tasks :
            Runs(u, q)' /\ task'[v].project = q => v = u \/ pc'[v] = "close"
    BY <2>4, <2>5 DEF RunInv
  <2>10. QED BY <2>3, <2>6, <2>7, <2>8, <2>9 DEF RunInv, ClipsOf
<1>8. ASSUME NEW h \in Handlers, StartEnqueueFails(h) PROVE RunInv'
  <2> USE <1>8 DEF StartEnqueueFails
  <2>1. PICK p \in Projects : p = handler[h].project /\ Begins(h, p)
    BY DEF HandlerStates
  <2>2. ~Opens(p)' BY <2>1 DEF RunInv
  <2>3. \A q \in Projects \ {p} : status'[q] = status[q] BY <2>1
  <2>4. QED BY <2>2, <2>3, RunFrame
<1>9. ASSUME NEW h \in Handlers, StartOrphaned(h) PROVE RunInv'
  BY <1>9, RunFrame DEF StartOrphaned
<1>10. ASSUME NEW h \in Handlers, RegenerateCommit(h) PROVE RunInv'
  BY <1>10, RunFrame DEF RegenerateCommit
<1>11. ASSUME NEW h \in Handlers, RegenerateEnqueue(h) PROVE RunInv'
  <2> USE <1>11 DEF RegenerateEnqueue
  <2>1. PICK t \in FreeTasks : Deliver(t, Message("render", None, handler[h].clip)) OBVIOUS
  <2>2. \A u \in Tasks : task'[u].project \in Projects => u # t /\ task'[u] = task[u] /\ pc'[u] = pc[u]
    BY <2>1 DEF Deliver
  <2>3. QED BY <2>2, RunFrame
<1>12. ASSUME NEW h \in Handlers, RegenerateEnqueueFails(h) PROVE RunInv'
  BY <1>12, RunFrame DEF RegenerateEnqueueFails
<1>13. ASSUME NEW h \in Handlers, RegenerateOrphaned(h) PROVE RunInv'
  BY <1>13, RunFrame DEF RegenerateOrphaned
<1>14. ASSUME NEW h \in Handlers, DeleteClipCommit(h) PROVE RunInv'
  <2> USE <1>14 DEF DeleteClipCommit
  <2>1. \A p \in Projects : ClipsOf(p)' \subseteq ClipsOf(p) BY Rows DEF HandlerStates
  <2>2. QED BY <2>1, RunFrame
<1>15. ASSUME NEW h \in Handlers, DeleteProjectCommit(h) PROVE RunInv'
  <2> USE <1>15 DEF DeleteProjectCommit
  <2>1. \A p \in Projects : ClipsOf(p)' \subseteq ClipsOf(p) BY Rows
  <2>2. QED BY <2>1, RunFrame
<1>16. ASSUME NEW t \in Tasks, TranscribeStart(t) PROVE RunInv'
  BY <1>16, RunFrame DEF TranscribeStart
<1>17. ASSUME NEW t \in Tasks, Ingest(t) PROVE RunInv'
  BY <1>17, RunFrame DEF Ingest
<1>18. ASSUME NEW t \in Tasks, Transcribed(t) PROVE RunInv'
  BY <1>18, RunFrame DEF Transcribed
<1>19. ASSUME NEW t \in Tasks, Chain(t) PROVE RunInv'
  <2> USE <1>19 DEF Chain
  <2>1. task[t].kind = "transcribe" /\ task[t].project \in Projects BY DEF Steps, Messages
  <2>2. PICK p \in Projects : p = task[t].project /\ Runs(t, p) BY <2>1
  <2>3. PICK u \in FreeTasks : /\ task' = [task EXCEPT ![u] = Message("detect", p, None)]
                               /\ pc' = [pc EXCEPT ![u] = "sent", ![t] = "close"]
    BY <2>2
  <2> USE <2>3 DEF FreeTasks
  <2>4. u # t /\ pc'[t] = "close" /\ ~Running(t)' OBVIOUS
  <2>5. \A v \in Tasks \ {t, u} : task'[v] = task[v] /\ pc'[v] = pc[v] OBVIOUS
  <2>6. \A v \in Tasks \ {t, u} : task[v].project = p => pc[v] = "close" BY <2>2 DEF RunInv
  <2>7. \A q \in Projects, v \in Tasks : Runs(v, q)' => (v = u /\ q = p) \/ (v \notin {t, u} /\ Runs(v, q) /\ q # p)
    BY <2>4, <2>5, <2>6
  <2>8. \A q \in Projects, v \in Tasks : task'[v].project = q =>
            (v = u /\ q = p) \/ (v = t /\ q = p) \/ (v \notin {t, u} /\ task[v].project = q)
    BY <2>2, <2>4, <2>5
  <2>9. UNCHANGED <<status, clip, handler>> OBVIOUS
  <2>10. \A q \in Projects, h \in Handlers : Begins(h, q)' => Begins(h, q) BY <2>9
  <2>11. \A q \in Projects : Opens(q)' => Opens(q) BY <2>2, <2>7, <2>10
  <2> HIDE DEF Begins, Opens, ClipsOf, Runs, Running
  <2>12. \A q \in Projects : \A v, w \in Tasks :
            Runs(v, q)' /\ task'[w].project = q => w = v \/ pc'[w] = "close"
    BY <2>4, <2>5, <2>6, <2>7, <2>8 DEF RunInv
  <2>13. \A q \in Projects : \A h \in Handlers, v \in Tasks : Begins(h, q)' => task'[v].project # q
    BY <2>2, <2>8, <2>10 DEF RunInv, Runs
  <2>14. QED BY <2>9, <2>10, <2>11, <2>12, <2>13 DEF RunInv, ClipsOf
<1>20. ASSUME NEW t \in Tasks, DetectStart(t) PROVE RunInv'
  BY <1>20, RunFrame DEF DetectStart
<1>21. ASSUME NEW t \in Tasks, NoCandidates(t) PROVE RunInv'
  <2> USE <1>21 DEF NoCandidates
  <2>1. PICK p \in Projects : p = task[t].project BY SMTT(20) DEF Steps, Messages, HandlerStates
  <2>2. ~Opens(p)' BY <2>1 DEF RunInv
  <2>3. \A q \in Projects \ {p} : status'[q] = status[q] BY <2>1
  <2>4. QED BY <2>2, <2>3, RunFrame
<1>22. ASSUME NEW t \in Tasks, Close(t) PROVE RunInv'
  BY <1>22, RunFrame DEF Close
<1>23. ASSUME NEW t \in Tasks, CreateClips(t) PROVE RunInv'
  <2> USE <1>23 DEF CreateClips, FreshClips
  <2>1. task[t].kind = "detect" /\ task[t].project \in Projects
    <3>1. pc[t] = "detect" OBVIOUS
    <3> HIDE DEF CreateClips
    <3> QED BY <3>1 DEF Steps
  <2>2. PICK p \in Projects : p = task[t].project /\ Runs(t, p) BY <2>1
  <2>3. ~Opens(p)' BY <2>2 DEF RunInv
  <2>4. \A q \in Projects \ {p} : ClipsOf(q)' \subseteq ClipsOf(q) BY <2>2
  <2> QED BY <2>3, <2>4, RunFrame
<1>24. ASSUME NEW t \in Tasks, FanOut(t) PROVE RunInv'
  BY <1>24, RunFrame DEF FanOut
<1>25. ASSUME NEW t \in Tasks, Raise(t) PROVE RunInv'
  BY <1>25, RunFrame DEF Raise
<1>26. ASSUME NEW t \in Tasks, FailJob(t) PROVE RunInv'
  BY <1>26, RunFrame DEF FailJob
<1>27. ASSUME NEW t \in Tasks, FailProject(t) PROVE RunInv'
  <2> USE <1>27 DEF FailProject
  <2>1. PICK p \in Projects : p = task[t].project BY SMTT(20) DEF Steps, Messages, HandlerStates
  <2>2. ~Opens(p)' BY <2>1 DEF RunInv
  <2>3. \A q \in Projects \ {p} : status'[q] = status[q] BY <2>1
  <2>4. QED BY <2>2, <2>3, RunFrame
<1>28. ASSUME NEW t \in Tasks, ProjectGone(t) PROVE RunInv'
  BY <1>28, RunFrame DEF ProjectGone
<1>29. ASSUME NEW t \in Tasks, RenderClipGone(t) PROVE RunInv'
  BY <1>29, RunFrame DEF RenderClipGone
<1>30. ASSUME NEW t \in Tasks, RenderStart(t) PROVE RunInv'
  <2> USE <1>30 DEF RenderStart
  <2> DEFINE c == task[t].clip
             p == clip[c].project
  <2>1. c \in Clips BY DEF Messages
  <2>2. \A q \in Projects : p = q => (\A h \in Handlers : ~Begins(h, q)) /\ \A u \in Tasks : ~Runs(u, q)
    <3>1. \A q \in Projects : p = q => c \in ClipsOf(q) BY <2>1
    <3> SUFFICES ASSUME NEW q \in Projects, p = q
                 PROVE  (\A h \in Handlers : ~Begins(h, q)) /\ \A u \in Tasks : ~Runs(u, q)
      OBVIOUS
    <3>2. ~LockedProject(q) OBVIOUS
    <3>3. ~Opens(q)
      <4> HIDE DEF ClipsOf, Opens, c, p, RenderStart
      <4> QED BY <3>1 DEF RunInv
    <3> HIDE DEF RenderStart, c, p, ClipsOf
    <3> QED BY <3>2, <3>3 DEF LockedProject
  <2>3. task'[t].project = p /\ ~Running(t)' OBVIOUS
  <2>4. \A u \in Tasks \ {t} : task'[u] = task[u] /\ pc'[u] = pc[u] OBVIOUS
  <2>5. \A q \in Projects : ClipsOf(q)' = ClipsOf(q)
    <3>1. clip'[c].project = clip[c].project /\ HasRow(c) /\ HasRow(c)' BY <2>1
    <3>2. \A d \in Clips \ {c} : clip'[d] = clip[d] OBVIOUS
    <3> HIDE DEF c, p
    <3> QED BY <3>1, <3>2
  <2>6. UNCHANGED <<handler, status>> OBVIOUS
  <2>7. \A q \in Projects, u \in Tasks : Runs(u, q)' => u # t /\ Runs(u, q) BY <2>3, <2>4
  <2>8. \A q \in Projects, h \in Handlers : Begins(h, q)' => Begins(h, q) BY <2>6
  <2> HIDE DEF Begins, Opens, ClipsOf, Runs, Running, c, p, RenderStart
  <2>9. \A q \in Projects : Opens(q)' => Opens(q) BY <2>6, <2>7, <2>8 DEF Opens
  <2>10. \A q \in Projects : \A u, v \in Tasks :
            Runs(u, q)' /\ task'[v].project = q => v = u \/ pc'[v] = "close"
    <3> SUFFICES ASSUME NEW q \in Projects, NEW u \in Tasks, NEW v \in Tasks,
                        Runs(u, q)', task'[v].project = q, v # u
                 PROVE  pc'[v] = "close"
      OBVIOUS
    <3>1. u # t /\ Runs(u, q) BY <2>7
    <3>2. p # q BY <2>2, <3>1
    <3>3. v # t /\ task[v].project = q BY <2>3, <2>4, <3>2
    <3>4. pc[v] = "close" BY <3>1, <3>3 DEF RunInv
    <3> QED BY <2>4, <3>3, <3>4
  <2>11. \A q \in Projects : \A h \in Handlers, v \in Tasks : Begins(h, q)' => task'[v].project # q
    <3> SUFFICES ASSUME NEW q \in Projects, NEW h \in Handlers, NEW v \in Tasks,
                        Begins(h, q)', task'[v].project = q
                 PROVE  FALSE
      OBVIOUS
    <3>1. Begins(h, q) BY <2>8
    <3>2. p # q BY <2>2, <3>1
    <3>3. task[v].project = q BY <2>3, <2>4, <3>2
    <3> QED BY <3>1, <3>3 DEF RunInv
  <2>12. QED BY <2>5, <2>6, <2>8, <2>9, <2>10, <2>11 DEF RunInv
<1>31. ASSUME NEW t \in Tasks, EncodeBegins(t) PROVE RunInv'
  BY <1>31, RunFrame DEF EncodeBegins
<1>32. ASSUME NEW t \in Tasks, EncodeEnds(t) PROVE RunInv'
  BY <1>32, RunFrame DEF EncodeEnds
<1>33. ASSUME NEW t \in Tasks, Publish(t) PROVE RunInv'
  BY <1>33, RunFrame DEF Publish
<1>34. ASSUME NEW t \in Tasks, PublishRaises(t) PROVE RunInv'
  BY <1>34, RunFrame DEF PublishRaises
<1>35. ASSUME NEW t \in Tasks, FailClip(t) PROVE RunInv'
  BY <1>35, RunFrame DEF FailClip
<1>36. ASSUME NEW t \in Tasks, TallyStops(t) PROVE RunInv'
  BY <1>36, RunFrame DEF TallyStops
<1>37. ASSUME NEW t \in Tasks, Tally(t) PROVE RunInv'
  BY <1>37, RunFrame DEF Tally
<1>38. ASSUME NEW t \in Tasks, CheckStops(t) PROVE RunInv'
  BY <1>38, RunFrame DEF CheckStops
<1>39. ASSUME NEW t \in Tasks, Check(t) PROVE RunInv'
  BY <1>39, RunFrame DEF Check
<1>40. ASSUME NEW t \in Tasks, FinalizeReady(t) PROVE RunInv'
  <2> USE <1>40 DEF FinalizeReady
  <2>1. CASE task[t].project \notin Projects BY <2>1, RunFrame
  <2>2. ASSUME NEW p \in Projects, p = task[t].project PROVE RunInv'
    <3>0. \A u \in Tasks : Runs(u, p) /\ task[t].project = p => t = u \/ pc[t] = "close"
      BY <2>2 DEF RunInv
    <3>1. \A u \in Tasks : ~Runs(u, p) BY <2>2, <3>0
    <3>2. \A h \in Handlers : ~Begins(h, p) BY <2>2 DEF RunInv
    <3>3. ~Opens(p)' BY <3>1, <3>2
    <3>4. \A q \in Projects \ {p} : status'[q] = status[q] BY <2>2
    <3>5. QED BY <3>3, <3>4, RunFrame
  <2>3. QED BY <2>1, <2>2
<1>41. ASSUME NEW t \in Tasks, FinalizeFailed(t) PROVE RunInv'
  <2> USE <1>41 DEF FinalizeFailed
  <2>1. CASE task[t].project \notin Projects BY <2>1, RunFrame
  <2>2. ASSUME NEW p \in Projects, p = task[t].project PROVE RunInv'
    <3>0. \A u \in Tasks : Runs(u, p) /\ task[t].project = p => t = u \/ pc[t] = "close"
      BY <2>2 DEF RunInv
    <3>1. \A u \in Tasks : ~Runs(u, p) BY <2>2, <3>0
    <3>2. \A h \in Handlers : ~Begins(h, p) BY <2>2 DEF RunInv
    <3>3. ~Opens(p)' BY <3>1, <3>2
    <3>4. \A q \in Projects \ {p} : status'[q] = status[q] BY <2>2
    <3>5. QED BY <3>3, <3>4, RunFrame
  <2>3. QED BY <2>1, <2>2
<1>42. ASSUME NEW t \in Tasks, BillStops(t) PROVE RunInv'
  BY <1>42, RunFrame DEF BillStops
<1>43. ASSUME NEW t \in Tasks, Bill(t) PROVE RunInv'
  BY <1>43, RunFrame DEF Bill
<1>44. ASSUME NEW t \in Tasks, Record(t) PROVE RunInv'
  BY <1>44, RunFrame DEF Record
<1>45. ASSUME NEW t \in Tasks, FinalizeGone(t) PROVE RunInv'
  BY <1>45, RunFrame DEF FinalizeGone
<1>46. ASSUME NEW t \in Tasks, Redeliver(t) PROVE RunInv'
  BY <1>46 DEF Redeliver, Fault
<1>47. ASSUME NEW t \in Tasks, WorkerLost(t) PROVE RunInv'
  BY <1>47 DEF WorkerLost, Fault
<1>48. ASSUME NEW t \in Tasks, ChildLost(t) PROVE RunInv'
  BY <1>48, RunFrame DEF ChildLost
<1>49. CASE UNCHANGED vars BY <1>49, RunFrame DEF vars
<1> QED BY <1>1, <1>2, <1>3, <1>4, <1>5, <1>6, <1>7, <1>8, <1>9, <1>10, <1>11, <1>12, <1>13,
         <1>14, <1>15, <1>16, <1>17, <1>18, <1>19, <1>20, <1>21, <1>22, <1>23, <1>24, <1>25,
         <1>26, <1>27, <1>28, <1>29, <1>30, <1>31, <1>32, <1>33, <1>34, <1>35, <1>36, <1>37,
         <1>38, <1>39, <1>40, <1>41, <1>42, <1>43, <1>44, <1>45, <1>46, <1>47, <1>48, <1>49
     DEF Next, NewRequest, HandlerStep, TaskStep, PipelineStep, RenderStep, FinalizeStep,
         Environment, AtRest

\* In PatientSpec the types and RunInv hold, unless messages are delivered twice.
LEMMA RunInvariance ==
    ASSUME {"redeliver", "workerLost"} \cap Faults = {}
    PROVE  PatientSpec => [](TypeOK /\ RunInv)
<1>1. Init => TypeOK /\ RunInv BY TypeInit, RunInit
<1>2. TypeOK /\ RunInv /\ [Next /\ PatientStarts]_vars => (TypeOK /\ RunInv)' BY TypeStep, RunStep
<1> QED BY <1>1, <1>2, PTL DEF PatientSpec

\* However many requests start, edit and delete it at once, two tasks are never both on
\* the way to creating a project's clips: start_processing refuses what is being processed.
THEOREM OneRunAtATime ==
    ASSUME {"redeliver", "workerLost"} \cap Faults = {}
    PROVE  PatientSpec => []OneRunPerProject
<1>1. TypeOK /\ RunInv => OneRunPerProject
  <2> SUFFICES ASSUME TypeOK, RunInv, NEW t \in Tasks, NEW u \in Tasks, Running(t), Running(u),
                      task[t].project = task[u].project
               PROVE  t = u
    BY DEF OneRunPerProject
  <2>1. task[t].project \in Projects
    BY MessagesTyped DEF TypeOK, TasksOK, Messages, Running
  <2>2. Runs(t, task[t].project) /\ pc[u] # "close" BY DEF Runs, Running
  <2> QED BY <2>1, <2>2 DEF RunInv
<1> QED BY <1>1, RunInvariance, PTL

\* A project that gains no clips, or has at most TopN after all.
LEMMA TopFrame ==
    ASSUME IsFiniteSet(Clips), AtMostTopN,
           \A p \in Projects : ClipsOf(p)' \subseteq ClipsOf(p) \/ Cardinality(ClipsOf(p)') <= TopN
    PROVE  AtMostTopN'
<1> SUFFICES ASSUME NEW p \in Projects PROVE Cardinality(ClipsOf(p)') <= TopN
  BY DEF AtMostTopN
<1>1. CASE ClipsOf(p)' \subseteq ClipsOf(p)
  <2>1. IsFiniteSet(ClipsOf(p)) BY FS_Subset DEF ClipsOf
  <2>2. Cardinality(ClipsOf(p)') <= Cardinality(ClipsOf(p)) BY <1>1, <2>1, FS_Subset
  <2>3. IsFiniteSet(ClipsOf(p)') BY <1>1, <2>1, FS_Subset
  <2>4. Cardinality(ClipsOf(p)) \in Nat /\ Cardinality(ClipsOf(p)') \in Nat
    BY <2>1, <2>3, FS_CardinalityType
  <2>5. Cardinality(ClipsOf(p)) <= TopN BY DEF AtMostTopN
  <2> HIDE DEF ClipsOf
  <2> QED BY <2>2, <2>4, <2>5, TopNAssumption
<1>2. QED BY <1>1

\* Clips are added only where there are none.
LEMMA TopStep ==
    ASSUME {"redeliver", "workerLost"} \cap Faults = {}, IsFiniteSet(Clips)
    PROVE  TypeOK /\ RunInv /\ AtMostTopN /\ [Next /\ PatientStarts]_vars => AtMostTopN'
<1> SUFFICES ASSUME TypeOK, RunInv, AtMostTopN, [Next /\ PatientStarts]_vars PROVE AtMostTopN' OBVIOUS
<1> USE RowlessClips DEF TypeOK, RowsOK, TasksOK, rows, tasks, At, Sent, ClipsOf, HasRow, Marked, Row, Abandon
<1>1. ASSUME NEW p \in Projects, CreateProject(p) PROVE AtMostTopN'
  BY <1>1, TopFrame DEF CreateProject
<1>2. ASSUME NEW h \in Handlers, NEW p \in Projects, StartLock(h, p) PROVE AtMostTopN'
  BY <1>2, TopFrame DEF StartLock, Request
<1>3. ASSUME NEW h \in Handlers, NEW p \in Projects, DeleteProjectMedia(h, p) PROVE AtMostTopN'
  BY <1>3, TopFrame DEF DeleteProjectMedia, Request
<1>4. ASSUME NEW h \in Handlers, NEW c \in Clips, RegenerateLock(h, c) PROVE AtMostTopN'
  BY <1>4, TopFrame DEF RegenerateLock, Request
<1>5. ASSUME NEW h \in Handlers, NEW c \in Clips, DeleteClipMedia(h, c) PROVE AtMostTopN'
  BY <1>5, TopFrame DEF DeleteClipMedia, Request
<1>6. ASSUME NEW h \in Handlers, StartCommit(h) PROVE AtMostTopN'
  <2>1. \A p \in Projects : ClipsOf(p)' \subseteq ClipsOf(p) BY <1>6, Rows DEF StartCommit
  <2> QED BY <2>1, TopFrame
<1>7. ASSUME NEW h \in Handlers, StartEnqueue(h) PROVE AtMostTopN'
  BY <1>7, TopFrame DEF StartEnqueue
<1>8. ASSUME NEW h \in Handlers, StartEnqueueFails(h) PROVE AtMostTopN'
  BY <1>8, TopFrame DEF StartEnqueueFails
<1>9. ASSUME NEW h \in Handlers, StartOrphaned(h) PROVE AtMostTopN'
  BY <1>9, TopFrame DEF StartOrphaned
<1>10. ASSUME NEW h \in Handlers, RegenerateCommit(h) PROVE AtMostTopN'
  <2>1. \A p \in Projects : ClipsOf(p)' \subseteq ClipsOf(p) BY <1>10, Rows DEF RegenerateCommit
  <2> QED BY <2>1, TopFrame
<1>11. ASSUME NEW h \in Handlers, RegenerateEnqueue(h) PROVE AtMostTopN'
  BY <1>11, TopFrame DEF RegenerateEnqueue
<1>12. ASSUME NEW h \in Handlers, RegenerateEnqueueFails(h) PROVE AtMostTopN'
  <2>1. \A p \in Projects : ClipsOf(p)' \subseteq ClipsOf(p) BY <1>12, Rows DEF RegenerateEnqueueFails
  <2> QED BY <2>1, TopFrame
<1>13. ASSUME NEW h \in Handlers, RegenerateOrphaned(h) PROVE AtMostTopN'
  BY <1>13, TopFrame DEF RegenerateOrphaned
<1>14. ASSUME NEW h \in Handlers, DeleteClipCommit(h) PROVE AtMostTopN'
  <2>1. \A p \in Projects : ClipsOf(p)' \subseteq ClipsOf(p) BY <1>14, Rows DEF DeleteClipCommit, HandlerStates
  <2> QED BY <2>1, TopFrame
<1>15. ASSUME NEW h \in Handlers, DeleteProjectCommit(h) PROVE AtMostTopN'
  <2>1. \A p \in Projects : ClipsOf(p)' \subseteq ClipsOf(p) BY <1>15, Rows DEF DeleteProjectCommit
  <2> QED BY <2>1, TopFrame
<1>16. ASSUME NEW t \in Tasks, TranscribeStart(t) PROVE AtMostTopN'
  BY <1>16, TopFrame DEF TranscribeStart
<1>17. ASSUME NEW t \in Tasks, Ingest(t) PROVE AtMostTopN'
  BY <1>17, TopFrame DEF Ingest
<1>18. ASSUME NEW t \in Tasks, Transcribed(t) PROVE AtMostTopN'
  BY <1>18, TopFrame DEF Transcribed
<1>19. ASSUME NEW t \in Tasks, Chain(t) PROVE AtMostTopN'
  BY <1>19, TopFrame DEF Chain
<1>20. ASSUME NEW t \in Tasks, DetectStart(t) PROVE AtMostTopN'
  BY <1>20, TopFrame DEF DetectStart
<1>21. ASSUME NEW t \in Tasks, NoCandidates(t) PROVE AtMostTopN'
  BY <1>21, TopFrame DEF NoCandidates
<1>22. ASSUME NEW t \in Tasks, Close(t) PROVE AtMostTopN'
  BY <1>22, TopFrame DEF Close
<1>23. ASSUME NEW t \in Tasks, CreateClips(t) PROVE AtMostTopN'
  <2> USE <1>23 DEF CreateClips
  <2>1. task[t].project \in Projects BY MessagesTyped DEF Steps, Messages
  <2>2. PICK p \in Projects : p = task[t].project /\ Runs(t, p) BY <2>1 DEF Runs, Running, Steps
  <2> HIDE DEF Row
  <2>3. PICK cs \in SUBSET FreshClips, w \in Windows :
            /\ Cardinality(cs) <= TopN
            /\ clip' = [c \in Clips |-> IF c \in cs THEN Row("queued", task[t].project, w, FALSE)
                                                    ELSE clip[c]]
    BY <2>2, Zenon
  <2> USE DEF Row
  <2>4. ClipsOf(p) = {} BY <2>2 DEF RunInv, Opens
  <2>5. cs \subseteq Clips BY DEF FreshClips
  <2>6. ClipsOf(p)' = cs BY <2>2, <2>3, <2>4, <2>5
  <2>7. \A q \in Projects \ {p} : ClipsOf(q)' \subseteq ClipsOf(q) BY <2>2, <2>3, <2>5
  <2> HIDE DEF ClipsOf
  <2>8. Cardinality(ClipsOf(p)') <= TopN BY <2>3, <2>6
  <2> QED BY <2>7, <2>8, TopFrame
<1>24. ASSUME NEW t \in Tasks, FanOut(t) PROVE AtMostTopN'
  BY <1>24, TopFrame DEF FanOut
<1>25. ASSUME NEW t \in Tasks, Raise(t) PROVE AtMostTopN'
  BY <1>25, TopFrame DEF Raise
<1>26. ASSUME NEW t \in Tasks, FailJob(t) PROVE AtMostTopN'
  BY <1>26, TopFrame DEF FailJob
<1>27. ASSUME NEW t \in Tasks, FailProject(t) PROVE AtMostTopN'
  BY <1>27, TopFrame DEF FailProject
<1>28. ASSUME NEW t \in Tasks, ProjectGone(t) PROVE AtMostTopN'
  BY <1>28, TopFrame DEF ProjectGone
<1>29. ASSUME NEW t \in Tasks, RenderClipGone(t) PROVE AtMostTopN'
  BY <1>29, TopFrame DEF RenderClipGone
<1>30. ASSUME NEW t \in Tasks, RenderStart(t) PROVE AtMostTopN'
  <2>1. \A p \in Projects : ClipsOf(p)' \subseteq ClipsOf(p) BY <1>30, Rows DEF RenderStart
  <2> QED BY <2>1, TopFrame
<1>31. ASSUME NEW t \in Tasks, EncodeBegins(t) PROVE AtMostTopN'
  BY <1>31, TopFrame DEF EncodeBegins
<1>32. ASSUME NEW t \in Tasks, EncodeEnds(t) PROVE AtMostTopN'
  BY <1>32, TopFrame DEF EncodeEnds
<1>33. ASSUME NEW t \in Tasks, Publish(t) PROVE AtMostTopN'
  <2>1. \A p \in Projects : ClipsOf(p)' \subseteq ClipsOf(p) BY <1>33, Rows DEF Publish
  <2> QED BY <2>1, TopFrame
<1>34. ASSUME NEW t \in Tasks, PublishRaises(t) PROVE AtMostTopN'
  BY <1>34, TopFrame DEF PublishRaises
<1>35. ASSUME NEW t \in Tasks, FailClip(t) PROVE AtMostTopN'
  <2>1. \A p \in Projects : ClipsOf(p)' \subseteq ClipsOf(p) BY <1>35, Rows DEF FailClip
  <2> QED BY <2>1, TopFrame
<1>36. ASSUME NEW t \in Tasks, TallyStops(t) PROVE AtMostTopN'
  BY <1>36, TopFrame DEF TallyStops
<1>37. ASSUME NEW t \in Tasks, Tally(t) PROVE AtMostTopN'
  BY <1>37, TopFrame DEF Tally
<1>38. ASSUME NEW t \in Tasks, CheckStops(t) PROVE AtMostTopN'
  BY <1>38, TopFrame DEF CheckStops
<1>39. ASSUME NEW t \in Tasks, Check(t) PROVE AtMostTopN'
  BY <1>39, TopFrame DEF Check
<1>40. ASSUME NEW t \in Tasks, FinalizeReady(t) PROVE AtMostTopN'
  BY <1>40, TopFrame DEF FinalizeReady
<1>41. ASSUME NEW t \in Tasks, FinalizeFailed(t) PROVE AtMostTopN'
  BY <1>41, TopFrame DEF FinalizeFailed
<1>42. ASSUME NEW t \in Tasks, BillStops(t) PROVE AtMostTopN'
  BY <1>42, TopFrame DEF BillStops
<1>43. ASSUME NEW t \in Tasks, Bill(t) PROVE AtMostTopN'
  BY <1>43, TopFrame DEF Bill
<1>44. ASSUME NEW t \in Tasks, Record(t) PROVE AtMostTopN'
  BY <1>44, TopFrame DEF Record
<1>45. ASSUME NEW t \in Tasks, FinalizeGone(t) PROVE AtMostTopN'
  BY <1>45, TopFrame DEF FinalizeGone
<1>46. ASSUME NEW t \in Tasks, Redeliver(t) PROVE AtMostTopN'
  BY <1>46 DEF Redeliver, Fault
<1>47. ASSUME NEW t \in Tasks, WorkerLost(t) PROVE AtMostTopN'
  BY <1>47 DEF WorkerLost, Fault
<1>48. ASSUME NEW t \in Tasks, ChildLost(t) PROVE AtMostTopN'
  BY <1>48, TopFrame DEF ChildLost
<1>49. CASE UNCHANGED vars BY <1>49, TopFrame DEF vars
<1> QED BY <1>1, <1>2, <1>3, <1>4, <1>5, <1>6, <1>7, <1>8, <1>9, <1>10, <1>11, <1>12, <1>13,
         <1>14, <1>15, <1>16, <1>17, <1>18, <1>19, <1>20, <1>21, <1>22, <1>23, <1>24, <1>25,
         <1>26, <1>27, <1>28, <1>29, <1>30, <1>31, <1>32, <1>33, <1>34, <1>35, <1>36, <1>37,
         <1>38, <1>39, <1>40, <1>41, <1>42, <1>43, <1>44, <1>45, <1>46, <1>47, <1>48, <1>49
     DEF Next, NewRequest, HandlerStep, TaskStep, PipelineStep, RenderStep, FinalizeStep,
         Environment, AtRest

\* A project never has more than TopN clips, however often it is run, edited and deleted.
THEOREM TopNClips ==
    ASSUME {"redeliver", "workerLost"} \cap Faults = {}, IsFiniteSet(Clips)
    PROVE  PatientSpec => []AtMostTopN
<1>1. Init => AtMostTopN
  <2> SUFFICES ASSUME Init, NEW p \in Projects PROVE Cardinality(ClipsOf(p)) <= TopN
    BY DEF AtMostTopN
  <2>1. ClipsOf(p) = {} BY Rows DEF Init, ClipsOf, HasRow
  <2> QED BY <2>1, FS_EmptySet, TopNAssumption
<1>2. TypeOK /\ RunInv /\ AtMostTopN /\ [Next /\ PatientStarts]_vars => AtMostTopN' BY TopStep
<1> QED BY <1>1, <1>2, RunInvariance, PTL DEF PatientSpec

----
\* A finalizer about to make a project ready.
Sees(t, p) == task[t].project = p /\ pc[t] \in {"check", "finalize"} /\ verdict[t] = "ready"

\* Nobody edits a clip or deletes one by itself.
LeftAlone == \A h \in Handlers :
    handler[h].pc \notin {"regenerating", "enqueueRender", "deletingClip"}

\* What such a finalizer saw of the clips is still so.
SeenInv ==
    /\ \A p \in Projects : \A t \in Tasks :
           Sees(t, p) /\ Exists(p) => Settled(ClipsOf(p)) /\ AnyReady(ClipsOf(p))
    /\ LeftAlone

\* A step that leaves the clips of a project with such a finalizer as they are.
LEMMA SeenFrame ==
    ASSUME SeenInv,
           \A h \in Handlers : \/ handler'[h] = handler[h]
                               \/ handler'[h].pc \notin {"regenerating", "enqueueRender", "deletingClip"},
           \A p \in Projects : \A t \in Tasks : Sees(t, p)' /\ Exists(p)' =>
               /\ Sees(t, p) /\ Exists(p)
               /\ \A c \in Clips : clip[c].project = p \/ clip'[c].project = p => clip'[c] = clip[c]
    PROVE  SeenInv'
<1>1. LeftAlone' BY DEF LeftAlone, SeenInv
<1>2. ASSUME NEW p \in Projects, NEW t \in Tasks, Sees(t, p)', Exists(p)'
      PROVE  (Settled(ClipsOf(p)) /\ AnyReady(ClipsOf(p)))'
  <2>1. Settled(ClipsOf(p)) /\ AnyReady(ClipsOf(p)) BY <1>2 DEF SeenInv
  <2>2. \A c \in Clips : clip[c].project = p \/ clip'[c].project = p => clip'[c] = clip[c] BY <1>2
  <2>3. ClipsOf(p)' = ClipsOf(p) BY <2>2 DEF ClipsOf, HasRow
  <2>4. \A c \in ClipsOf(p) : clip'[c] = clip[c] BY <2>2 DEF ClipsOf
  <2> QED BY <2>1, <2>3, <2>4 DEF Settled, AnyReady
<1> QED BY <1>1, <1>2 DEF SeenInv

\* Nobody finalizes in the empty system.
LEMMA SeenInit == Init => SeenInv
BY HandlersTyped DEF Init, SeenInv, Sees, LeftAlone

\* The clips of a project that is being finalized change only when a user changes them:
\* no render of them is left, and a new run cannot have begun.
LEMMA SeenStep ==
    ASSUME {"redeliver", "workerLost"} \cap Faults = {}, {"regenerate", "deleteClip"} \cap UserOps = {}
    PROVE  TypeOK /\ RunInv /\ ClaimInv /\ SeenInv /\ [Next /\ PatientStarts]_vars => SeenInv'
<1> SUFFICES ASSUME TypeOK, RunInv, ClaimInv, SeenInv, [Next /\ PatientStarts]_vars PROVE SeenInv' OBVIOUS
<1> USE MessagesTyped, HandlersTyped, IdsAssumption DEF TypeOK, RowsOK, TasksOK, Exists
<1> USE DEF rows, tasks, locals, At, Sent, Reply, Goto, End, Deliver, FreeTasks, Abandon, HasRow, Marked, Row, Sees
<1>1. ASSUME NEW p \in Projects, CreateProject(p) PROVE SeenInv'
  <2> USE <1>1 DEF CreateProject, FreshProjects
  <2>1. \A u \in Tasks : ~Sees(u, p)' OBVIOUS
  <2>2. \A q \in Projects \ {p} : status'[q] = status[q] OBVIOUS
  <2> QED BY <2>1, <2>2, SeenFrame
<1>2. ASSUME NEW h \in Handlers, NEW p \in Projects, StartLock(h, p) PROVE SeenInv'
  BY <1>2, SeenFrame DEF StartLock, Request
<1>3. ASSUME NEW h \in Handlers, NEW p \in Projects, DeleteProjectMedia(h, p) PROVE SeenInv'
  BY <1>3, SeenFrame DEF DeleteProjectMedia, Request
<1>4. ASSUME NEW h \in Handlers, NEW c \in Clips, RegenerateLock(h, c) PROVE SeenInv'
  BY <1>4, SeenFrame DEF RegenerateLock, Request
<1>5. ASSUME NEW h \in Handlers, NEW c \in Clips, DeleteClipMedia(h, c) PROVE SeenInv'
  BY <1>5, SeenFrame DEF DeleteClipMedia, Request
<1>6. ASSUME NEW h \in Handlers, StartCommit(h) PROVE SeenInv'
  <2> USE <1>6 DEF StartCommit
  <2>1. PICK p \in Projects : p = handler[h].project BY DEF HandlerStates
  <2>2. \A u \in Tasks : task[u].project # p BY <2>1 DEF RunInv, Begins
  <2>3. \A q \in Projects \ {p} : \A c \in Clips : clip[c].project = q => clip'[c] = clip[c]
    BY <2>1 DEF ClipsOf
  <2>4. \A c \in Clips : clip'[c] = clip[c] \/ clip'[c] = NoClip BY <2>1
  <2>5. \A q \in Projects \ {p} : status'[q] = status[q] BY <2>1
  <2>6. \A u \in Tasks : ~Sees(u, p)' BY <2>2
  <2>7. \A q \in Projects \ {p} : \A c \in Clips : clip'[c].project = q => clip'[c] = clip[c]
    BY <2>4, Rows
  <2> QED BY <2>3, <2>5, <2>6, <2>7, SeenFrame
<1>7. ASSUME NEW h \in Handlers, StartEnqueue(h) PROVE SeenInv'
  BY <1>7, SeenFrame DEF StartEnqueue
<1>8. ASSUME NEW h \in Handlers, StartEnqueueFails(h) PROVE SeenInv'
  BY <1>8, SeenFrame DEF StartEnqueueFails
<1>9. ASSUME NEW h \in Handlers, StartOrphaned(h) PROVE SeenInv'
  BY <1>9, SeenFrame DEF StartOrphaned
<1>10. ASSUME NEW h \in Handlers, RegenerateCommit(h) PROVE SeenInv'
  BY <1>10 DEF RegenerateCommit, SeenInv, LeftAlone
<1>11. ASSUME NEW h \in Handlers, RegenerateEnqueue(h) PROVE SeenInv'
  BY <1>11 DEF RegenerateEnqueue, SeenInv, LeftAlone
<1>12. ASSUME NEW h \in Handlers, RegenerateEnqueueFails(h) PROVE SeenInv'
  BY <1>12 DEF RegenerateEnqueueFails, SeenInv, LeftAlone
<1>13. ASSUME NEW h \in Handlers, RegenerateOrphaned(h) PROVE SeenInv'
  BY <1>13 DEF RegenerateOrphaned, SeenInv, LeftAlone
<1>14. ASSUME NEW h \in Handlers, DeleteClipCommit(h) PROVE SeenInv'
  BY <1>14 DEF DeleteClipCommit, SeenInv, LeftAlone
<1>15. ASSUME NEW h \in Handlers, DeleteProjectCommit(h) PROVE SeenInv'
  <2> USE <1>15 DEF DeleteProjectCommit
  <2>1. PICK p \in Projects : p = handler[h].project BY DEF HandlerStates
  <2>2. ~Exists(p)' BY <2>1
  <2>3. \A q \in Projects \ {p} : \A c \in Clips :
            clip[c].project = q \/ clip'[c].project = q => clip'[c] = clip[c]
    BY <2>1, Rows DEF ClipsOf
  <2>4. \A q \in Projects \ {p} : status'[q] = status[q] BY <2>1
  <2>5. \A u \in Tasks, q \in Projects : Sees(u, q)' => Sees(u, q) OBVIOUS
  <2>6. \A g \in Handlers : handler'[g] = handler[g] \/ handler'[g].pc = "idle" OBVIOUS
  <2>7. \A q \in Projects : Exists(q)' => q # p /\ Exists(q) BY <2>2, <2>4
  <2> HIDE DEF Sees, HasRow, Exists, DeleteProjectCommit
  <2> QED BY <2>3, <2>5, <2>6, <2>7, SeenFrame
<1>16. ASSUME NEW t \in Tasks, TranscribeStart(t) PROVE SeenInv'
  BY <1>16, SeenFrame DEF TranscribeStart
<1>17. ASSUME NEW t \in Tasks, Ingest(t) PROVE SeenInv'
  BY <1>17, SeenFrame DEF Ingest
<1>18. ASSUME NEW t \in Tasks, Transcribed(t) PROVE SeenInv'
  BY <1>18, SeenFrame DEF Transcribed
<1>19. ASSUME NEW t \in Tasks, Chain(t) PROVE SeenInv'
  BY <1>19, SeenFrame DEF Chain
<1>20. ASSUME NEW t \in Tasks, DetectStart(t) PROVE SeenInv'
  BY <1>20, SeenFrame DEF DetectStart
<1>21. ASSUME NEW t \in Tasks, NoCandidates(t) PROVE SeenInv'
  BY <1>21, SeenFrame DEF NoCandidates
<1>22. ASSUME NEW t \in Tasks, Close(t) PROVE SeenInv'
  BY <1>22, SeenFrame DEF Close
<1>23. ASSUME NEW t \in Tasks, CreateClips(t) PROVE SeenInv'
  <2> USE <1>23 DEF CreateClips
  <2>1. task[t].project \in Projects /\ Runs(t, task[t].project)
    BY MessagesTyped DEF Steps, Messages, Runs, Running
  <2>2. \A u \in Tasks : task[u].project = task[t].project => ~Sees(u, task[t].project)
    BY <2>1 DEF RunInv
  <2>3. \A u \in Tasks : Sees(u, task[t].project)' => u # t /\ Sees(u, task[t].project)
    BY <2>1
  <2>4. \A q \in Projects \ {task[t].project} : \A c \in Clips :
            clip[c].project = q \/ clip'[c].project = q => clip'[c] = clip[c]
    BY RowlessClips DEF FreshClips
  <2>5. \A u \in Tasks, q \in Projects : Sees(u, q)' => Sees(u, q) OBVIOUS
  <2> QED BY <2>2, <2>3, <2>4, <2>5, SeenFrame
<1>24. ASSUME NEW t \in Tasks, FanOut(t) PROVE SeenInv'
  BY <1>24, SeenFrame DEF FanOut
<1>25. ASSUME NEW t \in Tasks, Raise(t) PROVE SeenInv'
  BY <1>25, SeenFrame DEF Raise
<1>26. ASSUME NEW t \in Tasks, FailJob(t) PROVE SeenInv'
  BY <1>26, SeenFrame DEF FailJob
<1>27. ASSUME NEW t \in Tasks, FailProject(t) PROVE SeenInv'
  BY <1>27, SeenFrame DEF FailProject
<1>28. ASSUME NEW t \in Tasks, ProjectGone(t) PROVE SeenInv'
  BY <1>28, SeenFrame DEF ProjectGone
<1>29. ASSUME NEW t \in Tasks, RenderClipGone(t) PROVE SeenInv'
  BY <1>29, SeenFrame DEF RenderClipGone
<1>30. ASSUME NEW t \in Tasks, RenderStart(t) PROVE SeenInv'
  <2> USE <1>30 DEF RenderStart
  <2> DEFINE c == task[t].clip
  <2>1. c \in Clips BY DEF Messages, Steps
  <2>2. HasRow(c) => clip[c].status \notin {"ready", "failed"}
    BY <2>1 DEF ClaimInv, Claimed, Holds, Unsettled, Steps
  <2>3. \A q \in Projects : HasRow(c) /\ clip[c].project = q /\ Exists(q) => \A u \in Tasks : ~Sees(u, q)
    <3>1. HasRow(c) => clip[c].status \in ActiveClip
      BY <2>1, <2>2, Rows DEF ClipStatus, ActiveClip
    <3>2. \A q \in Projects : HasRow(c) /\ clip[c].project = q => c \in ClipsOf(q)
      BY <2>1 DEF ClipsOf
    <3>3. \A q \in Projects : HasRow(c) /\ clip[c].project = q => ~Settled(ClipsOf(q))
      BY <3>1, <3>2 DEF Settled
    <3> HIDE DEF Sees, HasRow, c
    <3> QED BY <3>3 DEF SeenInv
  <2>4. \A d \in Clips \ {c} : clip'[d] = clip[d] OBVIOUS
  <2>5. clip'[c].project = clip[c].project /\ (~HasRow(c) => clip'[c] = clip[c]) BY <2>1
  <2>6. \A u \in Tasks, q \in Projects : Sees(u, q)' => Sees(u, q) BY DEF Sees
  <2>7. status' = status /\ handler' = handler OBVIOUS
  <2>8. \A q \in Projects, u \in Tasks : Sees(u, q)' /\ Exists(q)' => Sees(u, q) /\ Exists(q)
    BY <2>6, <2>7 DEF Exists
  <2> HIDE DEF Sees, Exists, HasRow, RenderStart, c
  <2>9. \A q \in Projects, u \in Tasks : Sees(u, q)' /\ Exists(q)' =>
            \A d \in Clips : clip[d].project = q \/ clip'[d].project = q => clip'[d] = clip[d]
    BY <2>1, <2>3, <2>4, <2>5, <2>8
  <2> QED BY <2>7, <2>8, <2>9, SeenFrame
<1>31. ASSUME NEW t \in Tasks, EncodeBegins(t) PROVE SeenInv'
  BY <1>31, SeenFrame DEF EncodeBegins
<1>32. ASSUME NEW t \in Tasks, EncodeEnds(t) PROVE SeenInv'
  BY <1>32, SeenFrame DEF EncodeEnds
<1>33. ASSUME NEW t \in Tasks, Publish(t) PROVE SeenInv'
  <2> USE <1>33 DEF Publish
  <2> DEFINE c == task[t].clip
  <2>1. c \in Clips BY DEF Messages, Steps
  <2>2. HasRow(c) => clip[c].status \notin {"ready", "failed"}
    BY <2>1 DEF ClaimInv, Claimed, Holds, Unsettled, Steps
  <2>3. \A q \in Projects : HasRow(c) /\ clip[c].project = q /\ Exists(q) => \A u \in Tasks : ~Sees(u, q)
    <3>1. HasRow(c) => clip[c].status \in ActiveClip
      BY <2>1, <2>2, Rows DEF ClipStatus, ActiveClip
    <3>2. \A q \in Projects : HasRow(c) /\ clip[c].project = q => c \in ClipsOf(q)
      BY <2>1 DEF ClipsOf
    <3>3. \A q \in Projects : HasRow(c) /\ clip[c].project = q => ~Settled(ClipsOf(q))
      BY <3>1, <3>2 DEF Settled
    <3> HIDE DEF Sees, HasRow, c
    <3> QED BY <3>3 DEF SeenInv
  <2>4. \A d \in Clips \ {c} : clip'[d] = clip[d] OBVIOUS
  <2>5. clip'[c].project = clip[c].project /\ (~HasRow(c) => clip'[c] = clip[c]) BY <2>1
  <2>6. \A u \in Tasks, q \in Projects : Sees(u, q)' => Sees(u, q) BY DEF Sees
  <2>7. status' = status /\ handler' = handler OBVIOUS
  <2> QED BY <2>1, <2>3, <2>4, <2>5, <2>6, <2>7, SeenFrame DEF Exists
<1>34. ASSUME NEW t \in Tasks, PublishRaises(t) PROVE SeenInv'
  BY <1>34, SeenFrame DEF PublishRaises
<1>35. ASSUME NEW t \in Tasks, FailClip(t) PROVE SeenInv'
  <2> USE <1>35 DEF FailClip
  <2> DEFINE c == task[t].clip
  <2>1. c \in Clips BY DEF Messages, Steps
  <2>2. HasRow(c) => clip[c].status \notin {"ready", "failed"}
    BY <2>1 DEF ClaimInv, Claimed, Holds, Unsettled, Steps
  <2>3. \A q \in Projects : HasRow(c) /\ clip[c].project = q /\ Exists(q) => \A u \in Tasks : ~Sees(u, q)
    <3>1. HasRow(c) => clip[c].status \in ActiveClip
      BY <2>1, <2>2, Rows DEF ClipStatus, ActiveClip
    <3>2. \A q \in Projects : HasRow(c) /\ clip[c].project = q => c \in ClipsOf(q)
      BY <2>1 DEF ClipsOf
    <3>3. \A q \in Projects : HasRow(c) /\ clip[c].project = q => ~Settled(ClipsOf(q))
      BY <3>1, <3>2 DEF Settled
    <3> HIDE DEF Sees, HasRow, c
    <3> QED BY <3>3 DEF SeenInv
  <2>4. \A d \in Clips \ {c} : clip'[d] = clip[d] OBVIOUS
  <2>5. clip'[c].project = clip[c].project /\ (~HasRow(c) => clip'[c] = clip[c]) BY <2>1
  <2>6. \A u \in Tasks, q \in Projects : Sees(u, q)' => Sees(u, q) BY DEF Sees
  <2>7. status' = status /\ handler' = handler OBVIOUS
  <2> QED BY <2>1, <2>3, <2>4, <2>5, <2>6, <2>7, SeenFrame DEF Exists
<1>36. ASSUME NEW t \in Tasks, TallyStops(t) PROVE SeenInv'
  BY <1>36, SeenFrame DEF TallyStops
<1>37. ASSUME NEW t \in Tasks, Tally(t) PROVE SeenInv'
  <2> USE <1>37 DEF Tally
  <2>1. \A u \in Tasks, p \in Projects : Sees(u, p)' /\ u # t => Sees(u, p) OBVIOUS
  <2>2. \A p \in Projects : Sees(t, p)' => Settled(ClipsOf(p)) /\ AnyReady(ClipsOf(p)) OBVIOUS
  <2>3. \A p \in Projects : Settled(ClipsOf(p))' <=> Settled(ClipsOf(p)) BY DEF Settled, ClipsOf, HasRow
  <2>4. \A p \in Projects : AnyReady(ClipsOf(p))' <=> AnyReady(ClipsOf(p)) BY DEF AnyReady, ClipsOf, HasRow
  <2>5. UNCHANGED <<status, handler>> OBVIOUS
  <2> HIDE DEF Sees
  <2> QED BY <2>1, <2>2, <2>3, <2>4, <2>5 DEF SeenInv, LeftAlone
<1>38. ASSUME NEW t \in Tasks, CheckStops(t) PROVE SeenInv'
  BY <1>38, SeenFrame DEF CheckStops
<1>39. ASSUME NEW t \in Tasks, Check(t) PROVE SeenInv'
  BY <1>39, SeenFrame DEF Check
<1>40. ASSUME NEW t \in Tasks, FinalizeReady(t) PROVE SeenInv'
  BY <1>40, SeenFrame DEF FinalizeReady
<1>41. ASSUME NEW t \in Tasks, FinalizeFailed(t) PROVE SeenInv'
  BY <1>41, SeenFrame DEF FinalizeFailed
<1>42. ASSUME NEW t \in Tasks, BillStops(t) PROVE SeenInv'
  BY <1>42, SeenFrame DEF BillStops
<1>43. ASSUME NEW t \in Tasks, Bill(t) PROVE SeenInv'
  BY <1>43, SeenFrame DEF Bill
<1>44. ASSUME NEW t \in Tasks, Record(t) PROVE SeenInv'
  BY <1>44, SeenFrame DEF Record
<1>45. ASSUME NEW t \in Tasks, FinalizeGone(t) PROVE SeenInv'
  BY <1>45, SeenFrame DEF FinalizeGone
<1>46. ASSUME NEW t \in Tasks, Redeliver(t) PROVE SeenInv'
  BY <1>46 DEF Redeliver, Fault
<1>47. ASSUME NEW t \in Tasks, WorkerLost(t) PROVE SeenInv'
  BY <1>47 DEF WorkerLost, Fault
<1>48. ASSUME NEW t \in Tasks, ChildLost(t) PROVE SeenInv'
  BY <1>48, SeenFrame DEF ChildLost
<1>49. CASE UNCHANGED vars BY <1>49, SeenFrame DEF vars
<1> QED BY <1>1, <1>2, <1>3, <1>4, <1>5, <1>6, <1>7, <1>8, <1>9, <1>10, <1>11, <1>12, <1>13,
         <1>14, <1>15, <1>16, <1>17, <1>18, <1>19, <1>20, <1>21, <1>22, <1>23, <1>24, <1>25,
         <1>26, <1>27, <1>28, <1>29, <1>30, <1>31, <1>32, <1>33, <1>34, <1>35, <1>36, <1>37,
         <1>38, <1>39, <1>40, <1>41, <1>42, <1>43, <1>44, <1>45, <1>46, <1>47, <1>48, <1>49
     DEF Next, NewRequest, HandlerStep, TaskStep, PipelineStep, RenderStep, FinalizeStep,
         Environment, AtRest

\* A project becomes ready only when all its clips have settled and one of them can be
\* watched: unless its user edits or deletes clips meanwhile, the finalizer's verdict is
\* still true when it is written.
THEOREM ReadyIsEarned ==
    ASSUME {"redeliver", "workerLost"} \cap Faults = {}, {"regenerate", "deleteClip"} \cap UserOps = {}
    PROVE  PatientSpec => ReadyOnlyWhenSettled
<1>1. Init => TypeOK /\ RunInv /\ ClaimInv /\ SeenInv BY TypeInit, RunInit, ClaimInit, SeenInit
<1>2. TypeOK /\ RunInv /\ ClaimInv /\ SeenInv /\ [Next /\ PatientStarts]_vars
          => (TypeOK /\ RunInv /\ ClaimInv /\ SeenInv)'
  BY TypeStep, RunStep, ClaimStep, SeenStep
<1>3. TypeOK /\ SeenInv /\ [Next]_vars =>
          [\A p \in Projects : status[p] # "ready" /\ status'[p] = "ready" =>
               Settled(ClipsOf(p)) /\ AnyReady(ClipsOf(p))]_vars
  <2> SUFFICES ASSUME TypeOK, SeenInv, Next, NEW p \in Projects, status[p] # "ready", status'[p] = "ready"
               PROVE  Settled(ClipsOf(p)) /\ AnyReady(ClipsOf(p))
    OBVIOUS
  <2>1. PICK t \in Tasks : FinalizeReady(t) /\ task[t].project = p
    <3> USE DEF TypeOK, RowsOK, rows, tasks
    <3>1. ASSUME NEW q \in Projects, CreateProject(q) PROVE FALSE BY <3>1 DEF CreateProject
    <3>2. ASSUME NEW h \in Handlers, NewRequest(h) PROVE FALSE
      BY <3>2 DEF NewRequest, StartLock, DeleteProjectMedia, RegenerateLock, DeleteClipMedia
    <3>3. ASSUME NEW h \in Handlers, HandlerStep(h) PROVE FALSE
      BY <3>3 DEF HandlerStep, StartCommit, StartEnqueue, StartEnqueueFails, StartOrphaned,
                  RegenerateCommit, RegenerateEnqueue, RegenerateEnqueueFails, RegenerateOrphaned,
                  DeleteClipCommit, DeleteProjectCommit
    <3>4. ASSUME NEW t \in Tasks, PipelineStep(t) PROVE FALSE
      BY <3>4 DEF PipelineStep, TranscribeStart, Ingest, Transcribed, Chain, DetectStart, NoCandidates,
                  Close, CreateClips, FanOut, Raise, FailJob, FailProject, ProjectGone, Abandon
    <3>5. ASSUME NEW t \in Tasks, RenderStep(t) PROVE FALSE
      BY <3>5 DEF RenderStep, RenderClipGone, RenderStart, EncodeBegins, EncodeEnds, Publish,
                  PublishRaises, FailClip
    <3>6. ASSUME NEW t \in Tasks, FinalizeStep(t) PROVE FinalizeReady(t) /\ task[t].project = p
      BY <3>6 DEF FinalizeStep, TallyStops, Tally, CheckStops, Check, FinalizeReady, FinalizeFailed,
                  BillStops, Bill, Record, FinalizeGone, Abandon
    <3>7. ASSUME NEW t \in Tasks, Environment(t) PROVE FALSE
      BY <3>7 DEF Environment, Redeliver, WorkerLost, ChildLost
    <3>8. ~AtRest BY DEF AtRest, vars
    <3> QED BY <3>1, <3>2, <3>3, <3>4, <3>5, <3>6, <3>7, <3>8 DEF Next, TaskStep
  <2> QED BY <2>1 DEF SeenInv, Sees, FinalizeReady, At, Exists
<1> QED BY <1>1, <1>2, <1>3, PTL DEF PatientSpec, ReadyOnlyWhenSettled

----
\* What will move an analyzing project on: its run, a render of one of its clips, a fan-out
\* with clips left, a task that will mark it failed, a finalizer.
Fails(t, p) == task[t].kind # "render" /\ pc[t] \in {"failJob", "failProject"} /\ task[t].project = p

Pushes(t, p) ==
    \/ Runs(t, p)
    \/ Unsettled(t) /\ task[t].clip \in ClipsOf(p)
    \/ pc[t] = "fanout" /\ task[t].project = p /\ todo[t] # {}
    \/ Fails(t, p)
    \/ pc[t] \in {"tally", "check", "finalize"} /\ task[t].project = p

\* What will settle a clip of a project, or mark the project failed.
Tends(t, c, p) ==
    \/ Unsettled(t) /\ task[t].clip = c
    \/ pc[t] = "fanout" /\ task[t].project = p /\ c \in todo[t]
    \/ Fails(t, p)

\* A render that has started and whose clip is still there.
Underway(t) == Unsettled(t) /\ pc[t] # "sent" /\ HasRow(task[t].clip)

PushInv ==
    /\ \A p \in Projects : status[p] = "analyzing" => \E t \in Tasks : Pushes(t, p)
    /\ \A p \in Projects : \A c \in ClipsOf(p) :
           status[p] = "analyzing" /\ clip[c].status \in ActiveClip => \E t \in Tasks : Tends(t, c, p)
    /\ \A p \in Projects : \A t \in Tasks :
           pc[t] = "fanout" /\ task[t].project = p /\ Exists(p) => todo[t] \subseteq ClipsOf(p)
    /\ \A p \in Projects : \A t \in Tasks :
           task[t].kind = "render" /\ task[t].project = p /\ Exists(p) => ClipsOf(p) # {}
    /\ \A t \in Tasks : Underway(t) => task[t].project = clip[task[t].clip].project

\* A step after which whatever pushed a project or tended a clip still does, or has passed
\* it on, and that adds no clips.
LEMMA PushFrame ==
    ASSUME PushInv,
           \A p \in Projects : status'[p] = "analyzing" =>
               status[p] = "analyzing" \/ (ClipsOf(p) = {} /\ \E t \in Tasks : Pushes(t, p)'),
           \A p \in Projects : Exists(p)' =>
               \/ Exists(p) /\ ClipsOf(p)' = ClipsOf(p)
               \/ status'[p] # "analyzing" /\ \A t \in Tasks : task'[t].project # p,
           \A c \in Clips : clip'[c].status \in ActiveClip =>
               clip[c].status \in ActiveClip \/ \E u \in Tasks : Unsettled(u)' /\ task'[u].clip = c,
           \A p \in Projects, t \in Tasks : status'[p] = "analyzing" /\ Pushes(t, p) =>
               Pushes(t, p)' \/ \E u \in Tasks : Pushes(u, p)',
           \A p \in Projects, c \in Clips, t \in Tasks :
               /\ status'[p] = "analyzing" /\ c \in ClipsOf(p)
               /\ clip'[c].status \in ActiveClip /\ Tends(t, c, p)
               => Tends(t, c, p)' \/ \E u \in Tasks : Tends(u, c, p)',
           \A p \in Projects, t \in Tasks : pc'[t] = "fanout" /\ task'[t].project = p =>
               pc[t] = "fanout" /\ task[t].project = p /\ todo'[t] \subseteq todo[t],
           \A p \in Projects, t \in Tasks : task'[t].kind = "render" /\ task'[t].project = p =>
               (task[t].kind = "render" /\ task[t].project = p) \/ ClipsOf(p) # {},
           \A t \in Tasks : Underway(t)' =>
               \/ /\ Underway(t) /\ task'[t] = task[t]
                  /\ clip'[task[t].clip].project = clip[task[t].clip].project
               \/ task'[t].project = clip'[task'[t].clip].project
    PROVE  PushInv'
<1>1. \A p \in Projects : status'[p] = "analyzing" => \E t \in Tasks : Pushes(t, p)'
  BY DEF PushInv
<1>2. ASSUME NEW p \in Projects, NEW c \in ClipsOf(p)', status'[p] = "analyzing",
             clip'[c].status \in ActiveClip
      PROVE  \E t \in Tasks : Tends(t, c, p)'
  <2>1. ClipsOf(p)' = ClipsOf(p) BY <1>2 DEF Exists
  <2>2. c \in ClipsOf(p) /\ c \in Clips BY <2>1 DEF ClipsOf
  <2>3. CASE \E u \in Tasks : Unsettled(u)' /\ task'[u].clip = c
    BY <2>3 DEF Tends
  <2>4. CASE clip[c].status \in ActiveClip
    <3>1. status[p] = "analyzing" BY <1>2, <2>2
    <3>2. PICK t \in Tasks : Tends(t, c, p) BY <2>2, <2>4, <3>1 DEF PushInv
    <3> QED BY <1>2, <2>2, <3>2
  <2> QED BY <1>2, <2>2, <2>3, <2>4
<1>3. \A p \in Projects, t \in Tasks :
          pc'[t] = "fanout" /\ task'[t].project = p /\ Exists(p)' => todo'[t] \subseteq ClipsOf(p)'
  BY DEF PushInv
<1>4. \A p \in Projects, t \in Tasks :
          task'[t].kind = "render" /\ task'[t].project = p /\ Exists(p)' => ClipsOf(p)' # {}
  BY DEF PushInv
<1>5. \A t \in Tasks : Underway(t)' => task'[t].project = clip'[task'[t].clip].project
  BY DEF PushInv
<1> QED BY <1>1, <1>2, <1>3, <1>4, <1>5 DEF PushInv

\* Nothing is analyzing in the empty system.
LEMMA PushInit == Init => PushInv
BY MessagesTyped, IdsAssumption DEF Init, PushInv, Underway, Unsettled

\* What the creation of a run's clips does to the rows and to the task.
LEMMA Creation ==
    ASSUME NEW t \in Tasks, CreateClips(t)
    PROVE  /\ At(t, "detect") /\ task' = task /\ status' = status
           /\ pc' = [pc EXCEPT ![t] = "fanout"]
           /\ \E cs \in SUBSET FreshClips, w \in Windows :
                  /\ cs # {}
                  /\ clip' = [c \in Clips |-> IF c \in cs THEN Row("queued", task[t].project, w, FALSE)
                                                          ELSE clip[c]]
                  /\ todo' = [todo EXCEPT ![t] = cs]
BY DEF CreateClips

\* What the verdict that a project failed changes.
LEMMA Verdict ==
    ASSUME TypeOK, NEW t \in Tasks, FinalizeFailed(t)
    PROVE  /\ task[t].kind = "render" /\ pc[t] = "finalize" /\ pc'[t] = "free"
           /\ \A u \in Tasks \ {t} : task'[u] = task[u] /\ pc'[u] = pc[u] /\ todo'[u] = todo[u]
           /\ \A q \in Projects : status'[q] = IF q = task[t].project THEN "failed" ELSE status[q]
           /\ clip' = clip /\ task'[t] = NoTask /\ Exists(task[t].project)
<1>1. task[t].kind = "render" /\ pc[t] = "finalize" BY DEF TypeOK, TasksOK, Steps, FinalizeFailed, At
<1>2. pc' = [pc EXCEPT ![t] = "free"] /\ task' = [task EXCEPT ![t] = NoTask]
      /\ todo' = [todo EXCEPT ![t] = {}]
  BY DEF FinalizeFailed, End
<1>3. status' = [status EXCEPT ![task[t].project] = "failed"] /\ clip' = clip /\ Exists(task[t].project)
  BY DEF FinalizeFailed
<1> QED BY <1>1, <1>2, <1>3 DEF TypeOK, RowsOK, TasksOK

\* Unless something stops a task in its middle or a user takes its clips away, whoever
\* stops working for an analyzing project leaves somebody who will finish it.
LEMMA PushStep ==
    ASSUME Faults \subseteq {"broker"}, {"regenerate", "deleteClip"} \cap UserOps = {}
    PROVE  TypeOK /\ RunInv /\ SeenInv /\ PushInv /\ [Next /\ PatientStarts]_vars => PushInv'
<1> SUFFICES ASSUME TypeOK, RunInv, SeenInv, PushInv, [Next /\ PatientStarts]_vars PROVE PushInv' OBVIOUS
<1> USE MessagesTyped, HandlersTyped, IdsAssumption DEF TypeOK, RowsOK, TasksOK, Exists, Steps
<1> USE DEF rows, tasks, locals, At, Sent, Reply, Goto, End, Deliver, FreeTasks, Abandon, HasRow, Marked, Row
<1> USE DEF Pushes, Tends, Fails, Underway, Unsettled, Runs, Running, ClipsOf
<1>1. ASSUME NEW p \in Projects, CreateProject(p) PROVE PushInv'
  <2> USE <1>1 DEF CreateProject, FreshProjects
  <2>1. \A q \in Projects \ {p} : status'[q] = status[q] OBVIOUS
  <2>2. status'[p] = "pending" /\ \A t \in Tasks : task'[t].project # p OBVIOUS
  <2> QED BY <2>1, <2>2, PushFrame
<1>2. ASSUME NEW h \in Handlers, NEW p \in Projects, StartLock(h, p) PROVE PushInv'
  BY <1>2, PushFrame DEF StartLock, Request
<1>3. ASSUME NEW h \in Handlers, NEW p \in Projects, DeleteProjectMedia(h, p) PROVE PushInv'
  BY <1>3, PushFrame DEF DeleteProjectMedia, Request
<1>4. ASSUME NEW h \in Handlers, NEW c \in Clips, RegenerateLock(h, c) PROVE PushInv'
  BY <1>4, PushFrame DEF RegenerateLock, Request
<1>5. ASSUME NEW h \in Handlers, NEW c \in Clips, DeleteClipMedia(h, c) PROVE PushInv'
  BY <1>5, PushFrame DEF DeleteClipMedia, Request
<1>6. ASSUME NEW h \in Handlers, StartCommit(h) PROVE PushInv'
  <2> USE <1>6 DEF StartCommit
  <2>1. PICK p \in Projects : p = handler[h].project BY DEF HandlerStates
  <2>2. \A u \in Tasks : task'[u].project # p BY <2>1 DEF RunInv, Begins
  <2>3. \A q \in Projects \ {p} : ClipsOf(q)' = ClipsOf(q) /\ status'[q] = status[q] BY <2>1, Rows
  <2>4. \A c \in Clips : clip'[c] = clip[c] \/ clip'[c] = NoClip BY <2>1
  <2>5. status'[p] = "transcribing" BY <2>1
  <2>6. UNCHANGED <<task, pc, todo>> OBVIOUS
  <2>7. \A c \in Clips : HasRow(c)' => clip'[c] = clip[c] BY <2>4, Rows
  <2>8. \A c \in Clips : clip'[c].status \in ActiveClip => clip'[c] = clip[c] BY <2>4, Rows DEF ActiveClip
  <2>9. \A q \in Projects, u \in Tasks : status'[q] = "analyzing" /\ Pushes(u, q) => Pushes(u, q)'
    <3>1. \A q \in Projects : status'[q] = "analyzing" => ClipsOf(q)' = ClipsOf(q) BY <2>3, <2>5
    <3> HIDE MessagesTyped, HandlersTyped, IdsAssumption
    <3> HIDE DEF StartCommit
    <3> QED BY <2>6, <3>1
  <2>10. \A q \in Projects, c \in Clips, u \in Tasks : Tends(u, c, q) => Tends(u, c, q)' BY <2>6
  <2>11. \A u \in Tasks : Underway(u)' => Underway(u) /\ clip'[task[u].clip] = clip[task[u].clip]
    <3> SUFFICES ASSUME NEW u \in Tasks, Underway(u)'
                 PROVE  Underway(u) /\ clip'[task[u].clip] = clip[task[u].clip]
      OBVIOUS
    <3>1. Unsettled(u) /\ pc[u] # "sent" /\ HasRow(task[u].clip)' BY <2>6
    <3>2. task[u].clip \in Clips BY <3>1 DEF Messages
    <3>3. clip'[task[u].clip] = clip[task[u].clip] BY <3>1, <3>2, <2>7
    <3> HIDE MessagesTyped, HandlersTyped, IdsAssumption
    <3> QED BY <3>1, <3>3
  <2>12. \A q \in Projects : Exists(q)' => q = p \/ Exists(q) BY <2>3
  <2> HIDE MessagesTyped, HandlersTyped, IdsAssumption
  <2> HIDE DEF Pushes, Tends, ClipsOf, StartCommit, Underway, Exists, Unsettled, HasRow, TypeOK, RowsOK, TasksOK
  <2>13. \A q \in Projects : Exists(q)' =>
             \/ Exists(q) /\ ClipsOf(q)' = ClipsOf(q)
             \/ status'[q] # "analyzing" /\ \A u \in Tasks : task'[u].project # q
    BY <2>2, <2>3, <2>5, <2>6, <2>12
  <2>14. \A q \in Projects : status'[q] = "analyzing" => status[q] = "analyzing" BY <2>3, <2>5
  <2>15. \A c \in Clips : clip'[c].status \in ActiveClip => clip[c].status \in ActiveClip BY <2>8
  <2>16. \A u \in Tasks : Underway(u)' => /\ Underway(u) /\ task'[u] = task[u]
                                        /\ clip'[task[u].clip].project = clip[task[u].clip].project
    BY <2>6, <2>11
  <2> QED BY <2>6, <2>9, <2>10, <2>13, <2>14, <2>15, <2>16, PushFrame
<1>7. ASSUME NEW h \in Handlers, StartEnqueue(h) PROVE PushInv'
  BY <1>7, PushFrame DEF StartEnqueue
<1>8. ASSUME NEW h \in Handlers, StartEnqueueFails(h) PROVE PushInv'
  BY <1>8, PushFrame DEF StartEnqueueFails
<1>9. ASSUME NEW h \in Handlers, StartOrphaned(h) PROVE PushInv'
  BY <1>9, PushFrame DEF StartOrphaned
<1>10. ASSUME NEW h \in Handlers, RegenerateCommit(h) PROVE PushInv'
  BY <1>10 DEF RegenerateCommit, SeenInv, LeftAlone
<1>11. ASSUME NEW h \in Handlers, RegenerateEnqueue(h) PROVE PushInv'
  BY <1>11 DEF RegenerateEnqueue, SeenInv, LeftAlone
<1>12. ASSUME NEW h \in Handlers, RegenerateEnqueueFails(h) PROVE PushInv'
  BY <1>12 DEF RegenerateEnqueueFails, SeenInv, LeftAlone
<1>13. ASSUME NEW h \in Handlers, RegenerateOrphaned(h) PROVE PushInv'
  BY <1>13 DEF RegenerateOrphaned, SeenInv, LeftAlone
<1>14. ASSUME NEW h \in Handlers, DeleteClipCommit(h) PROVE PushInv'
  BY <1>14 DEF DeleteClipCommit, SeenInv, LeftAlone
<1>15. ASSUME NEW h \in Handlers, DeleteProjectCommit(h) PROVE PushInv'
  <2> USE <1>15 DEF DeleteProjectCommit
  <2>1. PICK p \in Projects : p = handler[h].project BY DEF HandlerStates
  <2>2. status'[p] = "absent" BY <2>1
  <2>3. \A q \in Projects \ {p} : ClipsOf(q)' = ClipsOf(q) /\ status'[q] = status[q] BY <2>1, Rows
  <2>4. \A c \in Clips : clip'[c] = clip[c] \/ clip'[c] = NoClip BY <2>1
  <2>5. UNCHANGED <<task, pc, todo>> OBVIOUS
  <2>6. \A c \in Clips : HasRow(c)' => clip'[c] = clip[c] BY <2>4, Rows
  <2>7. \A c \in Clips : clip'[c].status \in ActiveClip => clip'[c] = clip[c] BY <2>4, Rows DEF ActiveClip
  <2>8. \A q \in Projects, u \in Tasks : status'[q] = "analyzing" /\ Pushes(u, q) => Pushes(u, q)'
    <3>1. \A q \in Projects : status'[q] = "analyzing" => ClipsOf(q)' = ClipsOf(q) BY <2>2, <2>3
    <3> HIDE MessagesTyped, HandlersTyped, IdsAssumption
    <3> HIDE DEF DeleteProjectCommit
    <3> QED BY <2>5, <3>1
  <2>9. \A q \in Projects, c \in Clips, u \in Tasks : Tends(u, c, q) => Tends(u, c, q)' BY <2>5
  <2>10. \A q \in Projects : Exists(q)' => Exists(q) /\ q # p BY <2>2, <2>3
  <2>11. \A u \in Tasks : Underway(u)' => Underway(u) /\ clip'[task[u].clip] = clip[task[u].clip]
    <3> SUFFICES ASSUME NEW u \in Tasks, Underway(u)'
                 PROVE  Underway(u) /\ clip'[task[u].clip] = clip[task[u].clip]
      OBVIOUS
    <3>1. Unsettled(u) /\ pc[u] # "sent" /\ HasRow(task[u].clip)' BY <2>5
    <3>2. task[u].clip \in Clips BY <3>1 DEF Messages
    <3>3. clip'[task[u].clip] = clip[task[u].clip] BY <3>1, <3>2, <2>6
    <3> HIDE MessagesTyped, HandlersTyped, IdsAssumption
    <3> QED BY <3>1, <3>3
  <2> HIDE MessagesTyped, HandlersTyped, IdsAssumption
  <2> HIDE DEF Pushes, Tends, ClipsOf, DeleteProjectCommit, Underway, Exists, Unsettled, HasRow, TypeOK,
                RowsOK, TasksOK
  <2>12. \A q \in Projects : Exists(q)' => Exists(q) /\ ClipsOf(q)' = ClipsOf(q) BY <2>3, <2>10
  <2>13. \A q \in Projects : status'[q] = "analyzing" => status[q] = "analyzing" BY <2>2, <2>3
  <2>14. \A c \in Clips : clip'[c].status \in ActiveClip => clip[c].status \in ActiveClip BY <2>7
  <2>15. \A u \in Tasks : Underway(u)' => /\ Underway(u) /\ task'[u] = task[u]
                                        /\ clip'[task[u].clip].project = clip[task[u].clip].project
    BY <2>5, <2>11
  <2> QED BY <2>5, <2>8, <2>9, <2>12, <2>13, <2>14, <2>15, PushFrame
<1>16. ASSUME NEW t \in Tasks, TranscribeStart(t) PROVE PushInv'
  BY <1>16, PushFrame DEF TranscribeStart
<1>17. ASSUME NEW t \in Tasks, Ingest(t) PROVE PushInv'
  BY <1>17, PushFrame DEF Ingest
<1>18. ASSUME NEW t \in Tasks, Transcribed(t) PROVE PushInv'
  <2> USE <1>18 DEF Transcribed
  <2>0. task[t].kind = "transcribe" /\ task[t].project \in Projects BY DEF Messages
  <2>1. PICK p \in Projects : p = task[t].project /\ Runs(t, p) /\ Runs(t, p)' BY <2>0
  <2>2. ClipsOf(p) = {} /\ Pushes(t, p)'
    <3>1. Opens(p) BY <2>1 DEF Opens
    <3>2. ClipsOf(p) = {}
      <4> HIDE DEF ClipsOf, Transcribed
      <4> QED BY <3>1 DEF RunInv
    <3> QED BY <2>1, <3>2
  <2>3. \A q \in Projects \ {p} : status'[q] = status[q] BY <2>1
  <2>4. Exists(p) BY <2>1
  <2>5. UNCHANGED <<clip, task, todo>> OBVIOUS
  <2>6. \A q \in Projects : ClipsOf(q)' = ClipsOf(q) /\ (Exists(q)' => Exists(q)) BY <2>3, <2>4, <2>5
  <2>7. \A q \in Projects, u \in Tasks : Pushes(u, q) => Pushes(u, q)' BY <2>1, <2>5
  <2>8. \A q \in Projects, c \in Clips, u \in Tasks : Tends(u, c, q) => Tends(u, c, q)' BY <2>1, <2>5
  <2>9. \A u \in Tasks : Underway(u)' => Underway(u) BY <2>1, <2>5
  <2>10. \A u \in Tasks : pc'[u] = "fanout" => pc[u] = "fanout" BY <2>1
  <2> HIDE DEF Pushes, Tends, ClipsOf, Underway, Exists, Transcribed
  <2> QED BY <2>2, <2>3, <2>5, <2>6, <2>7, <2>8, <2>9, <2>10, PushFrame
<1>19. ASSUME NEW t \in Tasks, Chain(t) PROVE PushInv'
  <2> USE <1>19 DEF Chain
  <2>1. task[t].kind = "transcribe" /\ task[t].project \in Projects BY DEF Messages
  <2>2. PICK p \in Projects : p = task[t].project BY <2>1
  <2>3. PICK u \in FreeTasks : /\ task' = [task EXCEPT ![u] = Message("detect", p, None)]
                               /\ pc' = [pc EXCEPT ![u] = "sent", ![t] = "close"]
    BY <2>2
  <2>4. u # t /\ pc[u] = "free" /\ Pushes(u, p)' BY <2>3
  <2>5. \A v \in Tasks \ {t, u} : task'[v] = task[v] /\ pc'[v] = pc[v] BY <2>3
  <2>6. \A q \in Projects, v \in Tasks : Pushes(v, q) => (v = t /\ q = p) \/ Pushes(v, q)'
    BY <2>1, <2>2, <2>4, <2>5
  <2>7. \A q \in Projects, c \in Clips, v \in Tasks : Tends(v, c, q) => Tends(v, c, q)'
    BY <2>1, <2>4, <2>5
  <2>8. \A v \in Tasks : Underway(v)' => Underway(v) /\ task'[v] = task[v] BY <2>3, <2>4, <2>5
  <2>9. \A q \in Projects, v \in Tasks : pc'[v] = "fanout" => pc[v] = "fanout" /\ task'[v] = task[v]
    BY <2>3, <2>4, <2>5
  <2>10. \A v \in Tasks : task'[v].kind = "render" => task'[v] = task[v] BY <2>1, <2>3, <2>4, <2>5
  <2>11. UNCHANGED <<status, clip, todo>> OBVIOUS
  <2>12. \A q \in Projects : ClipsOf(q)' = ClipsOf(q) /\ (Exists(q)' => Exists(q)) BY <2>11
  <2> HIDE DEF Pushes, Tends, ClipsOf, Underway, Exists, Chain
  <2> QED BY <2>4, <2>6, <2>7, <2>8, <2>9, <2>10, <2>11, <2>12, PushFrame
<1>20. ASSUME NEW t \in Tasks, DetectStart(t) PROVE PushInv'
  BY <1>20, PushFrame DEF DetectStart
<1>21. ASSUME NEW t \in Tasks, NoCandidates(t) PROVE PushInv'
  BY <1>21, PushFrame DEF NoCandidates
<1>22. ASSUME NEW t \in Tasks, Close(t) PROVE PushInv'
  BY <1>22, PushFrame DEF Close
<1>23. ASSUME NEW t \in Tasks, CreateClips(t) PROVE PushInv'
  <2>1. task[t].kind = "detect" /\ task[t].project \in Projects BY <1>23, Creation DEF Messages
  <2>2. PICK p \in Projects : p = task[t].project /\ Runs(t, p) BY <2>1, <1>23, Creation
  <2>3. PICK cs \in SUBSET FreshClips : \E w \in Windows :
            /\ cs # {}
            /\ clip' = [c \in Clips |-> IF c \in cs THEN Row("queued", task[t].project, w, FALSE)
                                                    ELSE clip[c]]
            /\ todo' = [todo EXCEPT ![t] = cs]
    <3> HIDE DEF Row, At, ClipsOf, Exists, HasRow
    <3> QED BY <1>23, Creation, Zenon
  <2>4. cs \subseteq Clips /\ \A c \in cs : ~HasRow(c) /\ \A u \in Tasks : task[u].clip # c
    BY DEF FreshClips
  <2>5. \A c \in Clips \ cs : clip'[c] = clip[c] BY <2>3
  <2>6. \A c \in cs : HasRow(c)' /\ clip'[c].project = p BY <2>2, <2>3, <2>4
  <2>7. ClipsOf(p) = {}
    <3>1. Opens(p) BY <2>2 DEF Opens
    <3> HIDE DEF ClipsOf
    <3> QED BY <3>1 DEF RunInv
  <2>8. ClipsOf(p)' = cs
    <3>1. \A c \in Clips \ cs : ~(HasRow(c)' /\ clip'[c].project = p) BY <2>5, <2>7
    <3> HIDE DEF HasRow
    <3> QED BY <2>4, <2>6, <3>1
  <2>9. \A q \in Projects \ {p} : ClipsOf(q)' = ClipsOf(q)
    <3> SUFFICES ASSUME NEW q \in Projects \ {p} PROVE ClipsOf(q)' = ClipsOf(q) OBVIOUS
    <3>1. \A c \in cs : ~(HasRow(c)' /\ clip'[c].project = q) /\ ~HasRow(c) BY <2>4, <2>6
    <3>2. \A c \in Clips \ cs : (HasRow(c)' <=> HasRow(c)) /\ clip'[c] = clip[c] BY <2>5
    <3> HIDE DEF HasRow
    <3> QED BY <2>4, <3>1, <3>2
  <2>10. \A u \in Tasks : task'[u] = task[u] /\ (u # t => pc'[u] = pc[u] /\ todo'[u] = todo[u])
    BY <1>23, Creation, <2>3
  <2>11. pc'[t] = "fanout" /\ pc[t] = "detect" /\ todo'[t] = cs /\ status' = status
    BY <1>23, Creation, <2>3
  <2>12. Pushes(t, p)' BY <2>2, <2>3, <2>10, <2>11
  <2>13. \A c \in cs : Tends(t, c, p)' BY <2>2, <2>10, <2>11
  <2>14. \A q \in Projects \ {p}, u \in Tasks : Pushes(u, q) => Pushes(u, q)'
    <3> SUFFICES ASSUME NEW q \in Projects \ {p}, NEW u \in Tasks, Pushes(u, q) PROVE Pushes(u, q)'
      OBVIOUS
    <3> HIDE DEF ClipsOf
    <3>1. u # t BY <2>1, <2>2, <2>11
    <3>2. task'[u] = task[u] /\ pc'[u] = pc[u] /\ todo'[u] = todo[u] BY <3>1, <2>10
    <3>3. ClipsOf(q)' = ClipsOf(q) BY <2>9
    <3> HIDE MessagesTyped, HandlersTyped, IdsAssumption
    <3> QED BY <3>2, <3>3
  <2>15. \A q \in Projects \ {p}, c \in Clips, u \in Tasks : Tends(u, c, q) => Tends(u, c, q)'
    BY <2>1, <2>2, <2>10
  <2>16. \A q \in Projects \ {p} : \A c \in ClipsOf(q) : clip'[c] = clip[c] BY <2>4, <2>5
  <2>17. \A u \in Tasks : Underway(u)' => Underway(u) /\ clip'[task[u].clip] = clip[task[u].clip]
    BY <2>1, <2>4, <2>5, <2>10, <2>11 DEF Messages
  <2>18. \A u \in Tasks : task[u].project = p /\ u # t => pc[u] = "close" BY <2>2 DEF RunInv
  <2> HIDE DEF Pushes, Tends, Underway, ClipsOf, Exists
  <2>19. \A q \in Projects : status'[q] = "analyzing" => \E u \in Tasks : Pushes(u, q)'
    <3> SUFFICES ASSUME NEW q \in Projects, status'[q] = "analyzing", q # p
                 PROVE  \E u \in Tasks : Pushes(u, q)'
      BY <2>12
    <3>1. PICK u \in Tasks : Pushes(u, q) BY <2>11 DEF PushInv
    <3> QED BY <2>14, <3>1
  <2>20. \A q \in Projects : \A c \in ClipsOf(q)' :
             status'[q] = "analyzing" /\ clip'[c].status \in ActiveClip => \E u \in Tasks : Tends(u, c, q)'
    <3> SUFFICES ASSUME NEW q \in Projects, NEW c \in ClipsOf(q)', status'[q] = "analyzing",
                        clip'[c].status \in ActiveClip
                 PROVE  \E u \in Tasks : Tends(u, c, q)'
      OBVIOUS
    <3>1. CASE q = p BY <3>1, <2>8, <2>13
    <3>2. CASE q # p
      <4>1. c \in ClipsOf(q) /\ c \in Clips BY <3>2, <2>9 DEF ClipsOf
      <4>2. status[q] = "analyzing" /\ clip[c].status \in ActiveClip BY <3>2, <4>1, <2>11, <2>16
      <4> QED BY <3>2, <4>1, <4>2, <2>15 DEF PushInv
    <3> QED BY <3>1, <3>2
  <2>21. \A q \in Projects, u \in Tasks :
             pc'[u] = "fanout" /\ task'[u].project = q /\ Exists(q)' => todo'[u] \subseteq ClipsOf(q)'
    <3>1. \A q \in Projects : Exists(q)' => Exists(q) BY <2>11 DEF Exists
    <3>2. \A u \in Tasks \ {t} : pc'[u] = "fanout" => pc[u] = "fanout" /\ task[u].project # p
      BY <2>10, <2>18
    <3> QED BY <2>2, <2>8, <2>9, <2>10, <2>11, <3>1, <3>2 DEF PushInv
  <2>22. \A q \in Projects, u \in Tasks :
             task'[u].kind = "render" /\ task'[u].project = q /\ Exists(q)' => ClipsOf(q)' # {}
    <3>1. \A q \in Projects : Exists(q)' => Exists(q) BY <2>11 DEF Exists
    <3>2. ClipsOf(p)' # {} BY <2>3, <2>8
    <3>3. \A q \in Projects \ {p}, u \in Tasks :
              task[u].kind = "render" /\ task[u].project = q /\ Exists(q) => ClipsOf(q) # {}
      BY DEF PushInv
    <3> HIDE MessagesTyped, HandlersTyped, IdsAssumption
    <3> QED BY <2>9, <2>10, <3>1, <3>2, <3>3
  <2>23. \A u \in Tasks : Underway(u)' => task'[u].project = clip'[task'[u].clip].project
    <3> SUFFICES ASSUME NEW u \in Tasks, Underway(u)' PROVE task'[u].project = clip'[task'[u].clip].project
      OBVIOUS
    <3>1. task[u].project = clip[task[u].clip].project BY <2>17 DEF PushInv
    <3> QED BY <2>10, <2>17, <3>1
  <2> QED BY <2>19, <2>20, <2>21, <2>22, <2>23 DEF PushInv
<1>24. ASSUME NEW t \in Tasks, FanOut(t) PROVE PushInv'
  <2> USE <1>24 DEF FanOut
  <2>1. task[t].kind = "detect" /\ task[t].project \in Projects BY DEF Messages
  <2>2. PICK p \in Projects : p = task[t].project BY <2>1
  <2>3. PICK c \in todo[t], u \in FreeTasks :
            /\ task' = [task EXCEPT ![u] = Message("render", None, c)]
            /\ pc' = [pc EXCEPT ![u] = "sent"]
            /\ todo' = [todo EXCEPT ![t] = todo[t] \ {c}]
    OBVIOUS
  <2>4. u # t /\ pc[u] = "free" /\ c \in Clips /\ Unsettled(u)' /\ task'[u].clip = c BY <2>3
  <2>5. \A v \in Tasks \ {u} : task'[v] = task[v] /\ pc'[v] = pc[v] BY <2>3
  <2>6. \A v \in Tasks \ {t} : todo'[v] = todo[v] BY <2>3
  <2>7. UNCHANGED <<status, clip>> OBVIOUS
  <2>8. \A q \in Projects : ClipsOf(q)' = ClipsOf(q) /\ (Exists(q)' => Exists(q)) BY <2>7
  <2>9. Exists(p) => Pushes(u, p)' BY <2>2, <2>3, <2>4, <2>8 DEF PushInv
  <2>10. \A q \in Projects, v \in Tasks : Pushes(v, q) => (v = t /\ q = p) \/ Pushes(v, q)'
    BY <2>1, <2>2, <2>4, <2>5, <2>6, <2>8
  <2>11. \A q \in Projects, d \in Clips, v \in Tasks :
             Tends(v, d, q) => Tends(v, d, q)' \/ (d = c /\ Tends(u, d, q)')
    BY <2>1, <2>3, <2>4, <2>5, <2>6
  <2>12. \A v \in Tasks : Underway(v)' => Underway(v) /\ task'[v] = task[v] BY <2>3, <2>4, <2>5, <2>7
  <2>13. \A v \in Tasks : pc'[v] = "fanout" => pc[v] = "fanout" /\ task'[v] = task[v] /\ todo'[v] \subseteq todo[v]
    BY <2>3, <2>4, <2>5, <2>6
  <2>14. \A q \in Projects, v \in Tasks : task'[v].project = q => task'[v] = task[v] BY <2>3, <2>5
  <2> HIDE MessagesTyped, HandlersTyped, IdsAssumption
  <2> HIDE DEF Pushes, Tends, ClipsOf, Underway, FanOut, TypeOK, RowsOK, TasksOK
  <2> QED BY <2>7, <2>8, <2>9, <2>10, <2>11, <2>12, <2>13, <2>14, PushFrame
<1>25. ASSUME NEW t \in Tasks, Raise(t) PROVE PushInv'
  BY <1>25, PushFrame DEF Raise
<1>26. ASSUME NEW t \in Tasks, FailJob(t) PROVE PushInv'
  BY <1>26, PushFrame DEF FailJob
<1>27. ASSUME NEW t \in Tasks, FailProject(t) PROVE PushInv'
  <2> USE <1>27 DEF FailProject
  <2>1. pc'[t] = "free" /\ task'[t] = NoTask /\ clip' = clip OBVIOUS
  <2>2. \A u \in Tasks \ {t} : task'[u] = task[u] /\ pc'[u] = pc[u] /\ todo'[u] = todo[u] OBVIOUS
  <2>3. task[t].kind # "render" /\ pc[t] = "failProject" OBVIOUS
  <2>4. \A q \in Projects : status'[q] = IF q = task[t].project THEN "failed" ELSE status[q] OBVIOUS
  <2>5. \A q \in Projects : Exists(q)' => Exists(q) OBVIOUS
  <2>6. \A q \in Projects : task'[t].project # q BY <2>1
  <2> HIDE DEF FailProject
  <2>7. \A q \in Projects : ClipsOf(q)' = ClipsOf(q) BY <2>1
  <2>8. \A q \in Projects, u \in Tasks : status'[q] = "analyzing" /\ Pushes(u, q) => Pushes(u, q)'
    <3> HIDE DEF Pushes
    <3> SUFFICES ASSUME NEW q \in Projects, NEW u \in Tasks, status'[q] = "analyzing", Pushes(u, q)
                 PROVE  Pushes(u, q)'
      OBVIOUS
    <3> USE DEF Pushes
    <3>1. q # task[t].project BY <2>3, <2>4
    <3>2. ClipsOf(q)' = ClipsOf(q) BY <2>7
    <3> HIDE MessagesTyped, HandlersTyped, IdsAssumption
    <3> HIDE DEF ClipsOf
    <3>3. u # t BY <3>1, <2>3, <2>4
    <3> QED BY <3>2, <3>3, <2>2
  <2>9. \A q \in Projects, c \in Clips, u \in Tasks :
            status'[q] = "analyzing" /\ Tends(u, c, q) => Tends(u, c, q)'
    BY <2>2, <2>3, <2>4
  <2>10. \A u \in Tasks : Underway(u)' => u # t /\ Underway(u) BY <2>1, <2>2
  <2>11. \A u \in Tasks : pc'[u] = "fanout" => u # t BY <2>1
  <2> HIDE MessagesTyped, HandlersTyped, IdsAssumption
  <2> HIDE DEF Pushes, Tends, ClipsOf, Underway, Exists, TypeOK, RowsOK, TasksOK
  <2> QED BY <2>1, <2>2, <2>4, <2>5, <2>6, <2>7, <2>8, <2>9, <2>10, <2>11, PushFrame
<1>28. ASSUME NEW t \in Tasks, ProjectGone(t) PROVE PushInv'
  BY <1>28, PushFrame DEF ProjectGone
<1>29. ASSUME NEW t \in Tasks, RenderClipGone(t) PROVE PushInv'
  BY <1>29, PushFrame DEF RenderClipGone
<1>30. ASSUME NEW t \in Tasks, RenderStart(t) PROVE PushInv'
  <2> USE <1>30 DEF RenderStart
  <2>1. PICK c \in Clips : c = task[t].clip BY DEF Messages
  <2>2. \A d \in Clips \ {c} : clip'[d] = clip[d] BY <2>1
  <2>3. clip'[c].project = clip[c].project /\ HasRow(c) /\ HasRow(c)' BY <2>1
  <2>4. \A q \in Projects : ClipsOf(q)' = ClipsOf(q)
    <3>1. \A d \in Clips : (HasRow(d)' <=> HasRow(d)) /\ clip'[d].project = clip[d].project BY <2>2, <2>3
    <3> HIDE DEF RenderStart, HasRow
    <3> QED BY <3>1
  <2>5. task'[t].project = clip'[c].project /\ task'[t].clip = c /\ Unsettled(t)' BY <2>1, <2>3
  <2>6. \A u \in Tasks \ {t} : task'[u] = task[u] /\ pc'[u] = pc[u] OBVIOUS
  <2>7. UNCHANGED <<status, todo>> OBVIOUS
  <2>8. \A q \in Projects, u \in Tasks : Pushes(u, q) => Pushes(u, q)'
    <3> SUFFICES ASSUME NEW q \in Projects, NEW u \in Tasks, Pushes(u, q) PROVE Pushes(u, q)' OBVIOUS
    <3>1. ClipsOf(q)' = ClipsOf(q) BY <2>4
    <3>2. u = t => task[u].clip \in ClipsOf(q)
      <4> HIDE DEF ClipsOf
      <4> QED OBVIOUS
    <3> HIDE MessagesTyped, HandlersTyped, IdsAssumption
    <3> HIDE DEF ClipsOf, RenderStart
    <3>3. CASE u = t BY <3>1, <3>2, <3>3, <2>1, <2>5
    <3>4. CASE u # t BY <3>1, <3>4, <2>6, <2>7
    <3> QED BY <3>3, <3>4
  <2>9. \A q \in Projects, d \in Clips, u \in Tasks : Tends(u, d, q) => Tends(u, d, q)'
    BY <2>1, <2>5, <2>6, <2>7
  <2>10. \A q \in Projects : task'[t].project = q => ClipsOf(q) # {} BY <2>3, <2>5
  <2>11. \A u \in Tasks \ {t} : Underway(u)' =>
             Underway(u) /\ clip'[task[u].clip].project = clip[task[u].clip].project
    BY <2>1, <2>2, <2>3, <2>6 DEF Messages
  <2>12. \A u \in Tasks : pc'[u] = "fanout" => u # t /\ pc[u] = "fanout" BY <2>6
  <2>13. \A d \in Clips : clip'[d].status \in ActiveClip => d = c \/ clip[d].status \in ActiveClip BY <2>2
  <2>14. \A u \in Tasks : Underway(u)' =>
             \/ /\ Underway(u) /\ task'[u] = task[u]
                /\ clip'[task[u].clip].project = clip[task[u].clip].project
             \/ task'[u].project = clip'[task'[u].clip].project
    <3> HIDE DEF Underway, RenderStart
    <3> QED BY <2>5, <2>6, <2>11
  <2>15. \A q \in Projects, u \in Tasks : task'[u].kind = "render" /\ task'[u].project = q =>
             (task[u].kind = "render" /\ task[u].project = q) \/ ClipsOf(q) # {}
    BY <2>6, <2>10
  <2> HIDE MessagesTyped, HandlersTyped, IdsAssumption
  <2> HIDE DEF Pushes, Tends, ClipsOf, Underway, Unsettled, RenderStart, HasRow, Marked, Row
  <2> QED BY <2>4, <2>5, <2>6, <2>7, <2>8, <2>9, <2>12, <2>13, <2>14, <2>15, PushFrame
<1>31. ASSUME NEW t \in Tasks, EncodeBegins(t) PROVE PushInv'
  BY <1>31, PushFrame DEF EncodeBegins
<1>32. ASSUME NEW t \in Tasks, EncodeEnds(t) PROVE PushInv'
  BY <1>32, PushFrame DEF EncodeEnds
<1>33. ASSUME NEW t \in Tasks, Publish(t) PROVE PushInv'
  <2> USE <1>33 DEF Publish
  <2>1. PICK c \in Clips : c = task[t].clip BY DEF Messages
  <2>2. \A d \in Clips \ {c} : clip'[d] = clip[d] BY <2>1
  <2>3. clip'[c].project = clip[c].project /\ (HasRow(c) <=> HasRow(c)') BY <2>1
  <2>4. \A q \in Projects : ClipsOf(q)' = ClipsOf(q) BY <2>2, <2>3
  <2>5. \A u \in Tasks : task'[u] = task[u] /\ (u # t => pc'[u] = pc[u]) OBVIOUS
  <2>6. HasRow(c) => task[t].project = clip[c].project BY <2>1 DEF PushInv
  <2>7. UNCHANGED <<status, todo>> OBVIOUS
  <2>8. \A q \in Projects : Pushes(t, q) => c \in ClipsOf(q) BY <2>1
  <2>9. \A q \in Projects : c \in ClipsOf(q) => Pushes(t, q)' BY <2>6
  <2>10. \A q \in Projects, u \in Tasks \ {t} : Pushes(u, q) => Pushes(u, q)' BY <2>4, <2>5, <2>7
  <2>11. clip'[c].status \notin ActiveClip BY <2>1, <2>3, Rows DEF ActiveClip
  <2>12. \A q \in Projects, d \in Clips, u \in Tasks : Tends(u, d, q) => (u = t /\ d = c) \/ Tends(u, d, q)'
    BY <2>1, <2>5, <2>7
  <2>13. \A u \in Tasks : Underway(u)' =>
             Underway(u) /\ clip'[task[u].clip].project = clip[task[u].clip].project
    BY <2>1, <2>2, <2>3, <2>5 DEF Messages
  <2>14. \A u \in Tasks : pc'[u] = "fanout" => pc[u] = "fanout" BY <2>5
  <2>15. \A d \in Clips : clip'[d].status \in ActiveClip => clip[d].status \in ActiveClip BY <2>2, <2>11
  <2> HIDE DEF Pushes, Tends, ClipsOf, Underway, Unsettled, Publish, HasRow
  <2> QED BY <2>4, <2>5, <2>7, <2>8, <2>9, <2>10, <2>11, <2>12, <2>13, <2>14, <2>15, PushFrame
<1>34. ASSUME NEW t \in Tasks, PublishRaises(t) PROVE PushInv'
  BY <1>34, PushFrame DEF PublishRaises
<1>35. ASSUME NEW t \in Tasks, FailClip(t) PROVE PushInv'
  <2> USE <1>35 DEF FailClip
  <2>1. PICK c \in Clips : c = task[t].clip BY DEF Messages
  <2>2. \A d \in Clips \ {c} : clip'[d] = clip[d] BY <2>1
  <2>3. clip'[c].project = clip[c].project /\ (HasRow(c) <=> HasRow(c)') BY <2>1
  <2>4. \A q \in Projects : ClipsOf(q)' = ClipsOf(q) BY <2>2, <2>3
  <2>5. \A u \in Tasks : task'[u] = task[u] /\ (u # t => pc'[u] = pc[u]) OBVIOUS
  <2>6. HasRow(c) => task[t].project = clip[c].project BY <2>1 DEF PushInv
  <2>7. UNCHANGED <<status, todo>> OBVIOUS
  <2>8. \A q \in Projects : Pushes(t, q) => c \in ClipsOf(q) BY <2>1
  <2>9. \A q \in Projects : c \in ClipsOf(q) => Pushes(t, q)' BY <2>6
  <2>10. \A q \in Projects, u \in Tasks \ {t} : Pushes(u, q) => Pushes(u, q)' BY <2>4, <2>5, <2>7
  <2>11. clip'[c].status \notin ActiveClip BY <2>1, <2>3, Rows DEF ActiveClip
  <2>12. \A q \in Projects, d \in Clips, u \in Tasks : Tends(u, d, q) => (u = t /\ d = c) \/ Tends(u, d, q)'
    BY <2>1, <2>5, <2>7
  <2>13. \A u \in Tasks : Underway(u)' =>
             Underway(u) /\ clip'[task[u].clip].project = clip[task[u].clip].project
    BY <2>1, <2>2, <2>3, <2>5 DEF Messages
  <2>14. \A u \in Tasks : pc'[u] = "fanout" => pc[u] = "fanout" BY <2>5
  <2>15. \A d \in Clips : clip'[d].status \in ActiveClip => clip[d].status \in ActiveClip BY <2>2, <2>11
  <2> HIDE DEF Pushes, Tends, ClipsOf, Underway, Unsettled, FailClip, HasRow
  <2> QED BY <2>4, <2>5, <2>7, <2>8, <2>9, <2>10, <2>11, <2>12, <2>13, <2>14, <2>15, PushFrame
<1>36. ASSUME NEW t \in Tasks, TallyStops(t) PROVE PushInv'
  <2> USE <1>36 DEF TallyStops
  <2>1. \A u \in Tasks \ {t} : task'[u] = task[u] /\ pc'[u] = pc[u] /\ todo'[u] = todo[u] OBVIOUS
  <2>2. pc'[t] = "free" /\ task'[t] = NoTask OBVIOUS
  <2>3. UNCHANGED <<status, clip>> OBVIOUS
  <2>4. \A q \in Projects : ClipsOf(q)' = ClipsOf(q) BY <2>3
  <2>5. \A q \in Projects, u \in Tasks \ {t} : Pushes(u, q) => Pushes(u, q)' BY <2>1, <2>4
  <2>6. \A q \in Projects, c \in Clips, u \in Tasks : Tends(u, c, q) => u # t /\ Tends(u, c, q)' BY <2>1
  <2>7. ASSUME NEW p \in Projects, status[p] = "analyzing", Pushes(t, p)
        PROVE  \E u \in Tasks : Pushes(u, p)'
    <3>1. task[t].project = p /\ task[t].kind = "render" BY <2>7
    <3> HIDE DEF ClipsOf, Pushes, Tends, TallyStops
    <3>2. ClipsOf(p) # {} BY <2>7, <3>1 DEF PushInv
    <3>3. PICK c \in ClipsOf(p) : clip[c].status \in ActiveClip BY <2>7, <3>1, <3>2 DEF Settled, TallyStops
    <3>4. PICK u \in Tasks : Tends(u, c, p) BY <2>7, <3>3 DEF PushInv
    <3>5. c \in Clips BY <3>3 DEF ClipsOf
    <3>6. u # t BY <2>6, <3>4, <3>5
    <3>7. Pushes(u, p) BY <3>3, <3>4 DEF Tends, Pushes
    <3> QED BY <2>5, <3>6, <3>7
  <2>8. \A u \in Tasks : Underway(u)' => u # t /\ Underway(u) BY <2>1, <2>2, <2>3
  <2>9. \A u \in Tasks : pc'[u] = "fanout" => u # t BY <2>2
  <2>10. \A q \in Projects : task'[t].project # q BY <2>2
  <2>11. \A q \in Projects, u \in Tasks : task'[u].project = q => task'[u] = task[u] BY <2>1, <2>10
  <2> HIDE MessagesTyped, HandlersTyped, IdsAssumption
  <2> HIDE DEF Pushes, Tends, ClipsOf, Underway, TallyStops
  <2> QED BY <2>1, <2>3, <2>4, <2>5, <2>6, <2>7, <2>8, <2>9, <2>11, PushFrame
<1>37. ASSUME NEW t \in Tasks, Tally(t) PROVE PushInv'
  BY <1>37, PushFrame DEF Tally
<1>38. ASSUME NEW t \in Tasks, CheckStops(t) PROVE PushInv'
  BY <1>38, PushFrame DEF CheckStops
<1>39. ASSUME NEW t \in Tasks, Check(t) PROVE PushInv'
  BY <1>39, PushFrame DEF Check
<1>40. ASSUME NEW t \in Tasks, FinalizeReady(t) PROVE PushInv'
  BY <1>40, PushFrame DEF FinalizeReady
<1>41. ASSUME NEW t \in Tasks, FinalizeFailed(t) PROVE PushInv'
  <2>1. /\ task[t].kind = "render" /\ pc[t] = "finalize" /\ pc'[t] = "free"
        /\ \A u \in Tasks \ {t} : task'[u] = task[u] /\ pc'[u] = pc[u] /\ todo'[u] = todo[u]
        /\ \A q \in Projects : status'[q] = IF q = task[t].project THEN "failed" ELSE status[q]
        /\ clip' = clip /\ task'[t] = NoTask /\ Exists(task[t].project)
    BY <1>41, Verdict
  <2>2. \A q \in Projects : task'[t].project # q BY <2>1
  <2>3. \A q \in Projects : Exists(q)' => Exists(q) BY <2>1
  <2>4. \A q \in Projects : ClipsOf(q)' = ClipsOf(q) BY <2>1
  <2>5. \A q \in Projects, u \in Tasks : status'[q] = "analyzing" /\ Pushes(u, q) => Pushes(u, q)'
    <3> HIDE DEF Pushes
    <3> SUFFICES ASSUME NEW q \in Projects, NEW u \in Tasks, status'[q] = "analyzing", Pushes(u, q)
                 PROVE  Pushes(u, q)'
      OBVIOUS
    <3> USE DEF Pushes
    <3>1. q # task[t].project BY <2>1
    <3>2. ClipsOf(q)' = ClipsOf(q) BY <2>4
    <3> HIDE MessagesTyped, HandlersTyped, IdsAssumption
    <3> HIDE DEF ClipsOf
    <3>3. u # t BY <3>1, <2>1
    <3> QED BY <3>2, <3>3, <2>1
  <2>6. \A q \in Projects, c \in Clips, u \in Tasks : Tends(u, c, q) => Tends(u, c, q)' BY <2>1
  <2>7. \A u \in Tasks : Underway(u)' => u # t /\ Underway(u) BY <2>1
  <2>8. \A u \in Tasks : pc'[u] = "fanout" => u # t BY <2>1
  <2> HIDE MessagesTyped, HandlersTyped, IdsAssumption
  <2> HIDE DEF Pushes, Tends, ClipsOf, Underway, Exists, TypeOK, RowsOK, TasksOK
  <2> QED BY <2>1, <2>2, <2>3, <2>4, <2>5, <2>6, <2>7, <2>8, PushFrame
<1>42. ASSUME NEW t \in Tasks, BillStops(t) PROVE PushInv'
  BY <1>42, PushFrame DEF BillStops
<1>43. ASSUME NEW t \in Tasks, Bill(t) PROVE PushInv'
  BY <1>43, PushFrame DEF Bill
<1>44. ASSUME NEW t \in Tasks, Record(t) PROVE PushInv'
  BY <1>44, PushFrame DEF Record
<1>45. ASSUME NEW t \in Tasks, FinalizeGone(t) PROVE PushInv'
  BY <1>45, PushFrame DEF FinalizeGone
<1>46. ASSUME NEW t \in Tasks, Redeliver(t) PROVE PushInv'
  BY <1>46 DEF Redeliver, Fault
<1>47. ASSUME NEW t \in Tasks, WorkerLost(t) PROVE PushInv'
  BY <1>47 DEF WorkerLost, Fault
<1>48. ASSUME NEW t \in Tasks, ChildLost(t) PROVE PushInv'
  BY <1>48 DEF ChildLost, Fault
<1>49. CASE UNCHANGED vars BY <1>49, PushFrame DEF vars
<1> QED BY <1>1, <1>2, <1>3, <1>4, <1>5, <1>6, <1>7, <1>8, <1>9, <1>10, <1>11, <1>12, <1>13,
         <1>14, <1>15, <1>16, <1>17, <1>18, <1>19, <1>20, <1>21, <1>22, <1>23, <1>24, <1>25,
         <1>26, <1>27, <1>28, <1>29, <1>30, <1>31, <1>32, <1>33, <1>34, <1>35, <1>36, <1>37,
         <1>38, <1>39, <1>40, <1>41, <1>42, <1>43, <1>44, <1>45, <1>46, <1>47, <1>48, <1>49
     DEF Next, NewRequest, HandlerStep, TaskStep, PipelineStep, RenderStep, FinalizeStep,
         Environment, AtRest

\* An analyzing project always has somebody working for it, and so is never shown as
\* analyzing for ever, if its user waits and deletes or edits no clip of it meanwhile.
THEOREM AnalyzingDriven ==
    ASSUME Faults \subseteq {"broker"}, {"regenerate", "deleteClip"} \cap UserOps = {}
    PROVE  PatientSpec => []AnalyzingIsDriven
<1>1. {"redeliver", "workerLost"} \cap Faults = {} OBVIOUS
<1>2. Init => TypeOK /\ RunInv /\ ClaimInv /\ SeenInv /\ PushInv
  BY TypeInit, RunInit, ClaimInit, SeenInit, PushInit
<1>3. TypeOK /\ RunInv /\ ClaimInv /\ SeenInv /\ PushInv /\ [Next /\ PatientStarts]_vars
          => (TypeOK /\ RunInv /\ ClaimInv /\ SeenInv /\ PushInv)'
  BY <1>1, TypeStep, RunStep, ClaimStep, SeenStep, PushStep
<1>4. TypeOK /\ PushInv => AnalyzingIsDriven
  <2> SUFFICES ASSUME TypeOK, PushInv, NEW p \in Projects, status[p] = "analyzing"
               PROVE  \E t \in Tasks : Drives(t, p)
    BY DEF AnalyzingIsDriven
  <2>1. PICK t \in Tasks : Pushes(t, p) BY DEF PushInv
  <2>2. Drives(t, p)
    BY <2>1 DEF Pushes, Drives, Fails, Runs, Running, Unsettled
  <2> QED BY <2>2
<1> QED BY <1>2, <1>3, <1>4, PTL DEF PatientSpec
====
