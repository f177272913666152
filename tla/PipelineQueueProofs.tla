---- MODULE PipelineQueueProofs ----
(***************************************************************************)
(* What a clip's row and its file promise each other, and that the whole   *)
(* run keeps the promise RenderQueue states, for every value of the        *)
(* constants, as long as no message is delivered twice.  The rows alone do *)
(* not show either: ClaimInv says that nobody else writes the file and     *)
(* nobody edits the row, FileInv what is on disk while a render is under   *)
(* way.  With both, every step of Pipeline is a step of RenderQueue or     *)
(* changes nothing RenderQueue speaks of.                                  *)
(***************************************************************************)
EXTENDS PipelineProofs


Working(t, c) == pc[t] \in {"encode", "encoding", "publish"} /\ task[t].clip = c

\* Two encoders never met; a render works on the window its row shows; what it is about
\* to publish is on disk; and so is what is already published.
FileInv ==
    /\ \A c \in Clips : file[c] # "mixed"
    /\ \A c \in Clips : \A t \in Tasks :
           Working(t, c) /\ HasRow(c) => loaded[t] = clip[c].window
    /\ \A c \in Clips : \A t \in Tasks :
           Working(t, c) /\ pc[t] = "publish" /\ HasRow(c) /\ ~Removing(c) => file[c] = loaded[t]
    /\ ReadyShowsWindow

\* A step that writes no file, starts no render and publishes nothing.
LEMMA FileFrame ==
    ASSUME FileInv, file' = file,
           \A c \in Clips : \A t \in Tasks : Working(t, c)' =>
               Working(t, c) /\ pc'[t] = pc[t] /\ loaded'[t] = loaded[t],
           \A c \in Clips : HasRow(c)' =>
               \/ HasRow(c) /\ clip'[c].window = clip[c].window
               \/ \A t \in Tasks : ~Working(t, c)',
           \A c \in Clips : clip'[c].status = "ready" => clip'[c] = clip[c],
           \A c \in Clips : Removing(c) => Removing(c)' \/ ~HasRow(c)'
    PROVE  FileInv'
<1>1. \A c \in Clips : HasRow(c)' /\ ~Removing(c)' => ~Removing(c) OBVIOUS
<1>2. ReadyShowsWindow' BY <1>1 DEF FileInv, ReadyShowsWindow, HasRow
<1>3. ASSUME NEW c \in Clips, NEW t \in Tasks, Working(t, c)', HasRow(c)'
      PROVE  /\ loaded'[t] = clip'[c].window
             /\ pc'[t] = "publish" /\ ~Removing(c)' => file'[c] = loaded'[t]
  BY <1>1, <1>3 DEF FileInv
<1> QED BY <1>2, <1>3 DEF FileInv

\* A request that removes media says so until the rows are gone.
LEMMA RemoveFrame ==
    ASSUME FileInv, UNCHANGED <<clip, task, pc, loaded>>,
           \A c \in Clips : \/ file'[c] = file[c]
                            \/ file'[c] = "absent" /\ Removing(c)',
           \A c \in Clips : Removing(c) => Removing(c)'
    PROVE  FileInv'
<1>1. \A c \in Clips : ~Removing(c)' => file'[c] = file[c] /\ ~Removing(c) OBVIOUS
<1>2. ReadyShowsWindow' BY <1>1 DEF FileInv, ReadyShowsWindow
<1>3. \A c \in Clips : file'[c] # "mixed" BY DEF FileInv
<1>4. ASSUME NEW c \in Clips, NEW t \in Tasks, Working(t, c)', HasRow(c)'
      PROVE  /\ loaded'[t] = clip'[c].window
             /\ pc'[t] = "publish" /\ ~Removing(c)' => file'[c] = loaded'[t]
  BY <1>1, <1>4 DEF FileInv, Working, HasRow
<1> QED BY <1>2, <1>3, <1>4 DEF FileInv

\* One render holds a clip at a time, and keeps it from being settled or edited.
LEMMA WorkingHolds ==
    ASSUME TypeOK, ClaimInv, NEW c \in Clips, NEW t \in Tasks, Working(t, c)
    PROVE  /\ Holds(t, c) /\ task[t].kind = "render"
           /\ clip[c].status \notin {"ready", "failed"}
           /\ \A u \in Tasks : Working(u, c) => u = t
           /\ \A h \in Handlers : ~Edits(h, c)
<1>1. \A u \in Tasks : Working(u, c) => Holds(u, c) /\ task[u].kind = "render"
  BY DEF TypeOK, TasksOK, Steps, Working, Holds, Unsettled
<1> QED BY <1>1 DEF ClaimInv, Claimed

\* Nothing is stored or worked on in the empty system.
LEMMA FileInit == Init => FileInv
BY Rows, MessagesTyped, IdsAssumption DEF Init, FileInv, ReadyShowsWindow, Working, HasRow

\* Every step keeps rows and files in line.
LEMMA FileStep == TypeOK /\ ClaimInv /\ FileInv /\ [Next]_vars => FileInv'
<1> SUFFICES ASSUME TypeOK, ClaimInv, FileInv, [Next]_vars PROVE FileInv' OBVIOUS
<1> USE Rows, MessagesTyped, HandlersTyped DEF TypeOK, RowsOK, TasksOK, Working, Removing, HasRow
<1> USE DEF rows, tasks, locals, At, Sent, Goto, End, Deliver, FreeTasks, Abandon, Fault, Reply, Row, Marked
<1>1. ASSUME NEW p \in Projects, CreateProject(p) PROVE FileInv'
  BY <1>1, FileFrame DEF CreateProject, FreshProjects
<1>2. ASSUME NEW h \in Handlers, NEW p \in Projects, StartLock(h, p) PROVE FileInv'
  <2> USE <1>2 DEF StartLock, Request, RemoveMedia, ClipsOf
  <2>1. UNCHANGED <<clip, task, pc, loaded>> OBVIOUS
  <2>2. \A c \in Clips : Removing(c) => Removing(c)' OBVIOUS
  <2>3. \A c \in Clips : file'[c] = file[c] \/ (file'[c] = "absent" /\ Removing(c)')
    BY SMTT(30)
  <2> QED BY <2>1, <2>2, <2>3, RemoveFrame
<1>3. ASSUME NEW h \in Handlers, NEW p \in Projects, DeleteProjectMedia(h, p) PROVE FileInv'
  <2> USE <1>3 DEF DeleteProjectMedia, Request, RemoveMedia, ClipsOf
  <2>1. UNCHANGED <<clip, task, pc, loaded>> OBVIOUS
  <2>2. \A c \in Clips : Removing(c) => Removing(c)' OBVIOUS
  <2>3. \A c \in Clips : file'[c] = file[c] \/ (file'[c] = "absent" /\ Removing(c)')
    BY SMTT(30)
  <2> QED BY <2>1, <2>2, <2>3, RemoveFrame
<1>4. ASSUME NEW h \in Handlers, NEW c \in Clips, RegenerateLock(h, c) PROVE FileInv'
  BY <1>4, FileFrame DEF RegenerateLock, Request
<1>5. ASSUME NEW h \in Handlers, NEW c \in Clips, DeleteClipMedia(h, c) PROVE FileInv'
  <2> USE <1>5 DEF DeleteClipMedia, Request, RemoveMedia
  <2>1. UNCHANGED <<clip, task, pc, loaded>> OBVIOUS
  <2>2. \A d \in Clips : Removing(d) => Removing(d)' OBVIOUS
  <2>3. file'[c] \in {file[c], "absent"} /\ \A d \in Clips \ {c} : file'[d] = file[d] OBVIOUS
  <2>4. Removing(c)'
    <3>1. handler'[h].pc = "deletingClip" /\ handler'[h].clip = c OBVIOUS
    <3> QED BY ONLY <3>1 DEF Removing
  <2>5. \A d \in Clips : file'[d] = file[d] \/ (file'[d] = "absent" /\ Removing(d)') BY <2>3, <2>4
  <2> QED BY <2>1, <2>2, <2>5, RemoveFrame
<1>6. ASSUME NEW h \in Handlers, StartCommit(h) PROVE FileInv'
  BY <1>6, FileFrame DEF StartCommit, ClipsOf
<1>7. ASSUME NEW h \in Handlers, StartEnqueue(h) PROVE FileInv'
  BY <1>7, FileFrame DEF StartEnqueue
<1>8. ASSUME NEW h \in Handlers, StartEnqueueFails(h) PROVE FileInv'
  BY <1>8, FileFrame DEF StartEnqueueFails
<1>9. ASSUME NEW h \in Handlers, StartOrphaned(h) PROVE FileInv'
  BY <1>9, FileFrame DEF StartOrphaned
<1>10. ASSUME NEW h \in Handlers, RegenerateCommit(h) PROVE FileInv'
  <2> USE <1>10 DEF RegenerateCommit
  <2>1. PICK c \in Clips : c = handler[h].clip OBVIOUS
  <2>2. \A t \in Tasks : ~Working(t, c) BY <2>1, WorkingHolds DEF Edits
  <2>3. \A d \in Clips \ {c} : clip'[d] = clip[d] BY <2>1
  <2>4. clip'[c].status = "queued" /\ clip'[c].project = clip[c].project BY <2>1
  <2>5. UNCHANGED <<task, pc, loaded, file>> OBVIOUS
  <2>6. \A d \in Clips : HasRow(d)' =>
            \/ HasRow(d) /\ clip'[d].window = clip[d].window
            \/ \A t \in Tasks : ~Working(t, d)'
    BY <2>2, <2>3, <2>5
  <2>7. \A d \in Clips : clip'[d].status = "ready" => clip'[d] = clip[d] BY <2>3, <2>4
  <2>8. \A d \in Clips : Removing(d) => Removing(d)' BY <2>1, <2>3, <2>4
  <2> QED BY <2>5, <2>6, <2>7, <2>8, FileFrame
<1>11. ASSUME NEW h \in Handlers, RegenerateEnqueue(h) PROVE FileInv'
  BY <1>11, FileFrame DEF RegenerateEnqueue
<1>12. ASSUME NEW h \in Handlers, RegenerateEnqueueFails(h) PROVE FileInv'
  BY <1>12, FileFrame DEF RegenerateEnqueueFails
<1>13. ASSUME NEW h \in Handlers, RegenerateOrphaned(h) PROVE FileInv'
  BY <1>13, FileFrame DEF RegenerateOrphaned
<1>14. ASSUME NEW h \in Handlers, DeleteClipCommit(h) PROVE FileInv'
  BY <1>14, FileFrame, SMTT(30), ZenonT(60) DEF DeleteClipCommit
<1>15. ASSUME NEW h \in Handlers, DeleteProjectCommit(h) PROVE FileInv'
  BY <1>15, FileFrame DEF DeleteProjectCommit, ClipsOf
<1>16. ASSUME NEW t \in Tasks, TranscribeStart(t) PROVE FileInv'
  BY <1>16, FileFrame DEF TranscribeStart
<1>17. ASSUME NEW t \in Tasks, Ingest(t) PROVE FileInv'
  BY <1>17, FileFrame DEF Ingest
<1>18. ASSUME NEW t \in Tasks, Transcribed(t) PROVE FileInv'
  BY <1>18, FileFrame DEF Transcribed
<1>19. ASSUME NEW t \in Tasks, Chain(t) PROVE FileInv'
  BY <1>19, FileFrame DEF Chain
<1>20. ASSUME NEW t \in Tasks, DetectStart(t) PROVE FileInv'
  BY <1>20, FileFrame DEF DetectStart
<1>21. ASSUME NEW t \in Tasks, NoCandidates(t) PROVE FileInv'
  BY <1>21, FileFrame DEF NoCandidates
<1>22. ASSUME NEW t \in Tasks, Close(t) PROVE FileInv'
  BY <1>22, FileFrame DEF Close
<1>23. ASSUME NEW t \in Tasks, CreateClips(t) PROVE FileInv'
  <2> USE <1>23 DEF CreateClips
  <2>1. PICK cs \in SUBSET FreshClips, w \in Windows :
            clip' = [d \in Clips |-> IF d \in cs THEN Row("queued", task[t].project, w, FALSE)
                                   ELSE clip[d]]
    BY ONLY <1>23 DEF CreateClips
  <2>2. file' = file /\ handler' = handler /\ task' = task /\ loaded' = loaded OBVIOUS
  <2>3. \A u \in Tasks, d \in Clips : Working(u, d)' => Working(u, d) /\ pc'[u] = pc[u] OBVIOUS
  <2>4. \A d \in cs : d \in Clips /\ ~HasRow(d) /\ \A u \in Tasks : ~Working(u, d)
    BY DEF FreshClips
  <2>5. \A d \in cs : clip'[d].status = "queued" /\ ~Removing(d)
    <3>1. \A d \in cs : clip[d].project = None BY <2>4 DEF ClipRows, ClipStatus, NoClip
    <3>2. \A d \in cs : \A h \in Handlers : handler[h].clip # d BY DEF FreshClips
    <3>3. \A d \in cs : ~Removing(d)
      <4>1. \A h \in Handlers : handler[h].pc \in {"starting", "deletingProject"} =>
                handler[h].project \in Projects
        OBVIOUS
      <4> QED BY ONLY <3>1, <3>2, <4>1, IdsAssumption DEF Removing
    <3> QED BY <2>1, <2>4, <3>3
  <2>6. \A d \in Clips \ cs : clip'[d] = clip[d] BY <2>1
  <2>7. \A d \in Clips : Removing(d) => Removing(d)'
    <3> HIDE DEF HasRow, Working
    <3> QED BY ONLY <2>2, <2>5, <2>6 DEF Removing
  <2>8. \A d \in Clips : HasRow(d)' =>
            \/ HasRow(d) /\ clip'[d].window = clip[d].window
            \/ \A u \in Tasks : ~Working(u, d)'
    BY <2>3, <2>4, <2>6
  <2>9. \A c \in Clips : \A u \in Tasks : Working(u, c)' =>
            Working(u, c) /\ pc'[u] = pc[u] /\ loaded'[u] = loaded[u]
    BY <2>2, <2>3
  <2>10. \A d \in Clips : clip'[d].status = "ready" => clip'[d] = clip[d] BY <2>5, <2>6
  <2> HIDE DEF Removing, HasRow, Working
  <2> QED BY ONLY FileInv, <2>2, <2>7, <2>8, <2>9, <2>10, FileFrame
<1>24. ASSUME NEW t \in Tasks, FanOut(t) PROVE FileInv'
  BY <1>24, FileFrame DEF FanOut
<1>25. ASSUME NEW t \in Tasks, Raise(t) PROVE FileInv'
  BY <1>25, FileFrame DEF Raise
<1>26. ASSUME NEW t \in Tasks, FailJob(t) PROVE FileInv'
  BY <1>26, FileFrame DEF FailJob
<1>27. ASSUME NEW t \in Tasks, FailProject(t) PROVE FileInv'
  BY <1>27, FileFrame DEF FailProject
<1>28. ASSUME NEW t \in Tasks, ProjectGone(t) PROVE FileInv'
  BY <1>28, FileFrame DEF ProjectGone
<1>29. ASSUME NEW t \in Tasks, RenderClipGone(t) PROVE FileInv'
  BY <1>29, FileFrame DEF RenderClipGone
<1>30. ASSUME NEW t \in Tasks, RenderStart(t) PROVE FileInv'
  <2> USE <1>30 DEF RenderStart
  <2>1. PICK c \in Clips : c = task[t].clip OBVIOUS
  <2>2. clip'[c].status = "rendering" /\ clip'[c].window = clip[c].window BY <2>1
  <2>3. \A d \in Clips \ {c} : clip'[d] = clip[d] BY <2>1
  <2>4. \A u \in Tasks \ {t} : task'[u] = task[u] /\ pc'[u] = pc[u] /\ loaded'[u] = loaded[u] OBVIOUS
  <2>5. task'[t].clip = c /\ pc'[t] = "encode" /\ loaded'[t] = clip[c].window BY <2>1
  <2>6. \A d \in Clips : (HasRow(d)' => HasRow(d)) /\ clip'[d].window = clip[d].window
                       /\ clip'[d].project = clip[d].project
    BY <2>1, <2>3
  <2>7. \A d \in Clips : Removing(d)' = Removing(d) BY <2>6
  <2>8. ReadyShowsWindow'
    <3>1. UNCHANGED file OBVIOUS
    <3>2. \A d \in Clips : clip'[d].status = "ready" => clip'[d] = clip[d] BY <2>2, <2>3
    <3> HIDE DEF Removing, HasRow, Working, RenderStart
    <3> QED BY ONLY FileInv, <2>7, <3>1, <3>2 DEF FileInv, ReadyShowsWindow
  <2>9. ASSUME NEW d \in Clips, NEW u \in Tasks, Working(u, d)', HasRow(d)'
        PROVE  /\ loaded'[u] = clip'[d].window
               /\ pc'[u] = "publish" /\ ~Removing(d)' => file'[d] = loaded'[u]
    <3>1. CASE u = t BY <2>5, <2>6, <2>9, <3>1
    <3>2. CASE u # t
      <4>1. Working(u, d) /\ HasRow(d) BY <2>4, <2>6, <2>9, <3>2
      <4>2. UNCHANGED file OBVIOUS
      <4>3. task'[u] = task[u] /\ pc'[u] = pc[u] /\ loaded'[u] = loaded[u] BY <2>4, <3>2
      <4> HIDE DEF Removing, HasRow, Working, RenderStart
      <4> QED BY ONLY FileInv, <2>6, <2>7, <4>1, <4>2, <4>3 DEF FileInv
    <3> QED BY <3>1, <3>2
  <2>10. file' = file OBVIOUS
  <2> HIDE DEF Working, Removing, HasRow, RenderStart
  <2> QED BY ONLY FileInv, <2>8, <2>9, <2>10 DEF FileInv
<1>31. ASSUME NEW t \in Tasks, EncodeBegins(t) PROVE FileInv'
  <2> USE <1>31 DEF EncodeBegins
  <2>1. PICK c \in Clips : c = task[t].clip /\ Working(t, c) BY DEF Steps
  <2>2. clip[c].status # "ready" /\ (\A u \in Tasks : Working(u, c) => u = t) BY <2>1, WorkingHolds
  <2>3. \A d \in Clips \ {c} : file'[d] = file[d] BY <2>1
  <2>4. file'[c] = "partial" /\ pc'[t] = "encoding" BY <2>1, <2>2
  <2>5. \A u \in Tasks \ {t} : pc'[u] = pc[u] OBVIOUS
  <2>6. UNCHANGED <<clip, handler, task, loaded>> OBVIOUS
  <2>7. ReadyShowsWindow' BY <2>2, <2>3, <2>6 DEF FileInv, ReadyShowsWindow
  <2>8. ASSUME NEW d \in Clips, NEW u \in Tasks, Working(u, d)', HasRow(d)'
        PROVE  /\ loaded'[u] = clip'[d].window
               /\ pc'[u] = "publish" /\ ~Removing(d)' => file'[d] = loaded'[u]
    BY <2>1, <2>2, <2>3, <2>4, <2>5, <2>6, <2>8 DEF FileInv
  <2>9. file'[c] # "mixed" BY <2>4, IdsAssumption
  <2>10. \A d \in Clips : file'[d] # "mixed" BY <2>3, <2>9 DEF FileInv
  <2> QED BY <2>7, <2>8, <2>10 DEF FileInv
<1>32. ASSUME NEW t \in Tasks, EncodeEnds(t) PROVE FileInv'
  <2> USE <1>32 DEF EncodeEnds
  <2>1. PICK c \in Clips : c = task[t].clip /\ Working(t, c) BY DEF Steps
  <2>2. clip[c].status # "ready" /\ (\A u \in Tasks : Working(u, c) => u = t) BY <2>1, WorkingHolds
  <2>3. \A d \in Clips \ {c} : file'[d] = file[d] BY <2>1
  <2>4. file'[c] = loaded[t] /\ loaded[t] \in Windows /\ pc'[t] \in {"publish", "failJob"}
    BY <2>1 DEF FileInv
  <2>5. \A u \in Tasks \ {t} : pc'[u] = pc[u] OBVIOUS
  <2>6. UNCHANGED <<clip, handler, task, loaded>> OBVIOUS
  <2>7. ReadyShowsWindow' BY <2>2, <2>3, <2>6 DEF FileInv, ReadyShowsWindow
  <2>8. ASSUME NEW d \in Clips, NEW u \in Tasks, Working(u, d)', HasRow(d)'
        PROVE  /\ loaded'[u] = clip'[d].window
               /\ pc'[u] = "publish" /\ ~Removing(d)' => file'[d] = loaded'[u]
    BY <2>1, <2>2, <2>3, <2>4, <2>5, <2>6, <2>8 DEF FileInv
  <2>9. file'[c] # "mixed" BY <2>4, IdsAssumption
  <2>10. \A d \in Clips : file'[d] # "mixed" BY <2>3, <2>9 DEF FileInv
  <2> QED BY <2>7, <2>8, <2>10 DEF FileInv
<1>33. ASSUME NEW t \in Tasks, Publish(t) PROVE FileInv'
  <2> USE <1>33 DEF Publish
  <2>1. PICK c \in Clips : c = task[t].clip /\ Working(t, c) /\ pc[t] = "publish"
    BY DEF Steps
  <2>2. \A u \in Tasks : Working(u, c) => u = t BY <2>1, WorkingHolds
  <2>3. \A d \in Clips \ {c} : clip'[d] = clip[d] BY <2>1
  <2>4. /\ clip'[c].path /\ clip'[c].window = clip[c].window /\ HasRow(c)
        /\ clip'[c].project = clip[c].project
    BY <2>1
  <2>5. \A d \in Clips : Removing(d)' = Removing(d) BY <2>3, <2>4
  <2>6. loaded[t] = clip[c].window /\ (~Removing(c) => file[c] = loaded[t])
    <3> HIDE DEF Removing, HasRow, Working
    <3> QED BY ONLY <2>1, <2>4, FileInv, t \in Tasks DEF FileInv
  <2>7. ReadyShowsWindow' BY <2>3, <2>4, <2>5, <2>6 DEF FileInv, ReadyShowsWindow
  <2>8. ~Working(t, c)' /\ \A u \in Tasks \ {t} : pc'[u] = pc[u] BY <2>1
  <2>9. ASSUME NEW d \in Clips, NEW u \in Tasks, Working(u, d)', HasRow(d)'
        PROVE  /\ loaded'[u] = clip'[d].window
               /\ pc'[u] = "publish" /\ ~Removing(d)' => file'[d] = loaded'[u]
    BY <2>1, <2>2, <2>3, <2>5, <2>8, <2>9 DEF FileInv
  <2> QED BY <2>7, <2>9 DEF FileInv
<1>34. ASSUME NEW t \in Tasks, PublishRaises(t) PROVE FileInv'
  BY <1>34, FileFrame DEF PublishRaises
<1>35. ASSUME NEW t \in Tasks, FailClip(t) PROVE FileInv'
  BY <1>35, FileFrame DEF FailClip
<1>36. ASSUME NEW t \in Tasks, TallyStops(t) PROVE FileInv'
  BY <1>36, FileFrame DEF TallyStops
<1>37. ASSUME NEW t \in Tasks, Tally(t) PROVE FileInv'
  BY <1>37, FileFrame DEF Tally
<1>38. ASSUME NEW t \in Tasks, CheckStops(t) PROVE FileInv'
  BY <1>38, FileFrame DEF CheckStops
<1>39. ASSUME NEW t \in Tasks, Check(t) PROVE FileInv'
  BY <1>39, FileFrame DEF Check
<1>40. ASSUME NEW t \in Tasks, FinalizeReady(t) PROVE FileInv'
  BY <1>40, FileFrame DEF FinalizeReady
<1>41. ASSUME NEW t \in Tasks, FinalizeFailed(t) PROVE FileInv'
  BY <1>41, FileFrame DEF FinalizeFailed
<1>42. ASSUME NEW t \in Tasks, BillStops(t) PROVE FileInv'
  BY <1>42, FileFrame DEF BillStops
<1>43. ASSUME NEW t \in Tasks, Bill(t) PROVE FileInv'
  BY <1>43, FileFrame DEF Bill
<1>44. ASSUME NEW t \in Tasks, Record(t) PROVE FileInv'
  BY <1>44, FileFrame DEF Record
<1>45. ASSUME NEW t \in Tasks, FinalizeGone(t) PROVE FileInv'
  BY <1>45, FileFrame DEF FinalizeGone
<1>46. ASSUME NEW t \in Tasks, Redeliver(t) PROVE FileInv'
  BY <1>46, FileFrame DEF Redeliver, Original
<1>47. ASSUME NEW t \in Tasks, WorkerLost(t) PROVE FileInv'
  BY <1>47, FileFrame DEF WorkerLost, Original
<1>48. ASSUME NEW t \in Tasks, ChildLost(t) PROVE FileInv'
  BY <1>48, FileFrame DEF ChildLost
<1>49. CASE UNCHANGED vars BY <1>49, FileFrame DEF vars
<1> QED BY <1>1, <1>2, <1>3, <1>4, <1>5, <1>6, <1>7, <1>8, <1>9, <1>10, <1>11, <1>12, <1>13,
         <1>14, <1>15, <1>16, <1>17, <1>18, <1>19, <1>20, <1>21, <1>22, <1>23, <1>24, <1>25,
         <1>26, <1>27, <1>28, <1>29, <1>30, <1>31, <1>32, <1>33, <1>34, <1>35, <1>36, <1>37,
         <1>38, <1>39, <1>40, <1>41, <1>42, <1>43, <1>44, <1>45, <1>46, <1>47, <1>48, <1>49
     DEF Next, NewRequest, HandlerStep, TaskStep, PipelineStep, RenderStep, FinalizeStep,
         Environment, AtRest

\* As long as no message is delivered twice, a clip shown ready has its complete video on
\* disk, of the very window its row shows, unless a request is deleting it: whatever
\* edits, restarts, deletions, broker failures and killed pool processes interfere.
THEOREM ReadyClipShown ==
    ASSUME {"redeliver", "workerLost"} \cap Faults = {}
    PROVE  Spec => []ReadyShowsWindow
<1>1. Init => TypeOK /\ ClaimInv /\ FileInv BY TypeInit, ClaimInit, FileInit
<1>2. TypeOK /\ ClaimInv /\ FileInv /\ [Next]_vars => (TypeOK /\ ClaimInv /\ FileInv)'
  BY TypeStep, ClaimStep, FileStep
<1>3. FileInv => ReadyShowsWindow BY DEF FileInv
<1> QED BY <1>1, <1>2, <1>3, PTL DEF Spec

----
(* The refinement. *)

\* What RenderQueue speaks of is unchanged when rows, claims and deletions are and no
\* playable file is touched.
LEMMA Unmoved ==
    ASSUME clip' = clip,
           \A c \in Clips : HasRow(c) => (Claimed(c)' <=> Claimed(c)),
           \A c \in Clips : HasRow(c) => (Removing(c)' <=> Removing(c)),
           \A c \in Clips : clip[c].status = "ready" => file'[c] = file[c]
    PROVE  UNCHANGED Queue!queue
<1>1. \A c \in Clips : HasRow(c)' <=> HasRow(c) BY DEF HasRow
<1>2. Claims' = Claims BY <1>1 DEF Claims
<1>3. Doomed' = Doomed BY <1>1 DEF Doomed
<1>4. \A c \in Clips : clip[c].status = "ready" => HasRow(c) BY DEF HasRow
<1>5. \A c \in Clips : Playable(c)' <=> Playable(c) BY <1>4 DEF Playable
<1>6. \A c \in Clips : Playable(c) => file'[c] = file[c] BY DEF Playable
<1>7. Shown' = Shown BY <1>5, <1>6 DEF Shown
<1>8. Phase' = Phase /\ Wanted' = Wanted BY DEF Phase, Wanted
<1> QED BY <1>2, <1>3, <1>7, <1>8 DEF Queue!queue

\* A task that moves between points where its claims are the same.
LEMMA TaskQuiet ==
    ASSUME clip' = clip, handler' = handler,
           \A c \in Clips : clip[c].status = "ready" => file'[c] = file[c],
           \A c \in Clips : \A t \in Tasks : HasRow(c) => (Holds(t, c)' <=> Holds(t, c))
    PROVE  UNCHANGED Queue!queue
<1>1. \A c \in Clips : HasRow(c) => (Claimed(c)' <=> Claimed(c)) BY DEF Claimed, Asks
<1>2. \A c \in Clips : Removing(c)' <=> Removing(c) BY DEF Removing
<1> QED BY <1>1, <1>2, Unmoved

\* A request that moves without taking, handing on or dropping a deletion.
LEMMA RequestQuiet ==
    ASSUME clip' = clip, file' = file,
           \A c \in Clips : HasRow(c) => (Claimed(c)' <=> Claimed(c)),
           \A h \in Handlers :
               \/ handler'[h] = handler[h]
               \/ {handler[h].pc, handler'[h].pc}
                      \cap {"deletingClip", "starting", "deletingProject"} = {}
    PROVE  UNCHANGED Queue!queue
<1>1. \A c \in Clips : Removing(c)' <=> Removing(c) BY DEF Removing
<1> QED BY <1>1, Unmoved

\* Claims are dropped and nothing else changes.
LEMMA Forgets ==
    ASSUME clip' = clip, handler' = handler, file' = file,
           \A c \in Clips : \A t \in Tasks : Holds(t, c)' => Holds(t, c)
    PROVE  Queue!Next
<1>1. \A c \in Clips : HasRow(c)' <=> HasRow(c) BY DEF HasRow
<1>2. \A c \in Clips : Removing(c)' <=> Removing(c) BY DEF Removing
<1>3. \A c \in Clips : Claimed(c)' => Claimed(c) BY DEF Claimed, Asks
<1>4. \A c \in Clips : Playable(c)' <=> Playable(c) BY <1>2 DEF Playable
<1>5. Shown' = Shown BY <1>4 DEF Shown
<1>6. Doomed' = Doomed BY <1>1, <1>2 DEF Doomed
<1>7. Phase' = Phase /\ Wanted' = Wanted BY DEF Phase, Wanted
<1> DEFINE cs == Claims \ Claims'
<1>8. Claims' = Claims \ cs BY <1>1, <1>3 DEF Claims
<1>9. cs \in SUBSET Clips /\ cs \subseteq Claims BY DEF Claims
<1>10. Queue!Forget(cs) BY <1>5, <1>6, <1>7, <1>8, <1>9 DEF Queue!Forget
<1> QED BY <1>9, <1>10 DEF Queue!Next

\* A request begins to delete the clips cs: their files go, nothing else does.
LEMMA Dooms ==
    ASSUME NEW cs \in SUBSET Clips, \A c \in cs : HasRow(c),
           clip' = clip, task' = task, pc' = pc, todo' = todo,
           \A c \in Clips \ cs : file'[c] = file[c],
           \A c \in Clips : HasRow(c) => (Removing(c)' <=> Removing(c) \/ c \in cs),
           \A h \in Handlers, c \in Clips : Asks(h, c)' <=> Asks(h, c)
    PROVE  Queue!Next
<1>1. \A c \in Clips : HasRow(c)' <=> HasRow(c) BY DEF HasRow
<1>2. \A c \in Clips : Claimed(c)' <=> Claimed(c) BY DEF Claimed, Holds, Unsettled
<1>3. Claims' = Claims BY <1>1, <1>2 DEF Claims
<1>4. Doomed' = Doomed \cup cs BY <1>1 DEF Doomed
<1>5. \A c \in Clips : clip[c].status = "ready" => HasRow(c) BY DEF HasRow
<1>6. \A c \in Clips : Playable(c)' <=> Playable(c) /\ c \notin cs BY <1>5 DEF Playable
<1>7. Shown' = [c \in Clips |-> IF c \in cs THEN "absent" ELSE Shown[c]]
  BY <1>6 DEF Shown
<1>8. Phase' = Phase /\ Wanted' = Wanted BY DEF Phase, Wanted
<1>9. \A c \in cs : Phase[c] # "none" BY DEF Phase, HasRow
<1>10. Queue!Doom(cs) BY <1>3, <1>4, <1>7, <1>8, <1>9 DEF Queue!Doom
<1> QED BY <1>10 DEF Queue!Next

\* It deletes their rows.
LEMMA Removes ==
    ASSUME NEW cs \in SUBSET Clips, \A c \in cs : HasRow(c) /\ Removing(c),
           clip' = [c \in Clips |-> IF c \in cs THEN NoClip ELSE clip[c]],
           file' = file, task' = task, pc' = pc, todo' = todo,
           \A c \in Clips \ cs : HasRow(c) => (Removing(c)' <=> Removing(c)),
           \A h \in Handlers, c \in Clips : Asks(h, c)' <=> Asks(h, c)
    PROVE  Queue!Next
<1>1. \A c \in Clips : HasRow(c)' <=> HasRow(c) /\ c \notin cs BY DEF HasRow, NoClip, Row
<1>2. \A c \in Clips : Claimed(c)' <=> Claimed(c) BY DEF Claimed, Holds, Unsettled
<1>3. Claims' = Claims \ cs BY <1>1, <1>2 DEF Claims
<1>4. Doomed' = Doomed \ cs BY <1>1 DEF Doomed
<1>5. \A c \in Clips : clip[c].status = "ready" => HasRow(c) BY DEF HasRow
<1>6. \A c \in Clips : Playable(c)' <=> Playable(c)
  BY <1>5 DEF Playable, NoClip, Row
<1>7. Shown' = Shown BY <1>6 DEF Shown
<1>8. Phase' = [c \in Clips |-> IF c \in cs THEN "none" ELSE Phase[c]]
  BY DEF Phase, NoClip, Row
<1>9. Wanted' = [c \in Clips |-> IF c \in cs THEN None ELSE Wanted[c]]
  BY DEF Wanted, NoClip, Row
<1>10. cs \subseteq Doomed BY DEF Doomed
<1>11. Queue!Remove(cs) BY <1>3, <1>4, <1>7, <1>8, <1>9, <1>10 DEF Queue!Remove
<1> QED BY <1>11 DEF Queue!Next

\* The one claim on clip c is settled as status st, with window and project unchanged.
LEMMA Settles ==
    ASSUME TypeOK, ClaimInv, NEW c \in Clips, HasRow(c), Claimed(c), ~Claimed(c)',
           \A d \in Clips \ {c} : Claimed(d)' <=> Claimed(d),
           \A d \in Clips : Removing(d)' <=> Removing(d)
    PROVE  /\ c \in Claims /\ Phase[c] \in Queue!Open
           /\ \A r : r.status # "none" /\ clip' = [clip EXCEPT ![c] = r] =>
                 Claims' = Claims \ {c} /\ Doomed' = Doomed
<1>1. clip[c].status \in ClipStatus /\ clip[c].status \notin {"ready", "failed"}
  BY Rows DEF TypeOK, RowsOK, HasRow, ClaimInv
<1>2. c \in Claims /\ Phase[c] \in Queue!Open
  BY <1>1 DEF Claims, Phase, Queue!Open, ClipStatus
<1>3. ASSUME NEW r, r.status # "none", clip' = [clip EXCEPT ![c] = r]
      PROVE  Claims' = Claims \ {c} /\ Doomed' = Doomed
  <2>1. \A d \in Clips : HasRow(d)' <=> HasRow(d) BY <1>3 DEF TypeOK, RowsOK, HasRow
  <2> QED BY <2>1 DEF Claims, Doomed
<1> QED BY <1>2, <1>3

\* The clip is given up.
LEMMA Fails ==
    ASSUME TypeOK, ClaimInv, NEW c \in Clips, HasRow(c), Claimed(c), ~Claimed(c)',
           \A d \in Clips \ {c} : Claimed(d)' <=> Claimed(d),
           \A d \in Clips : Removing(d)' <=> Removing(d),
           clip' = [clip EXCEPT ![c] = Marked(c, "failed")], file' = file
    PROVE  Queue!Next
<1>1. /\ Marked(c, "failed").status = "failed"
      /\ Marked(c, "failed").window = clip[c].window
  BY DEF Marked, Row
<1>2. c \in Claims /\ Phase[c] \in Queue!Open /\ Claims' = Claims \ {c} /\ Doomed' = Doomed
  BY <1>1, Settles
<1>3. clip \in [Clips -> ClipRows] BY DEF TypeOK, RowsOK
<1>4. Phase' = [Phase EXCEPT ![c] = "failed"] BY <1>1, <1>3 DEF Phase
<1>5. Wanted' = Wanted BY <1>1, <1>3 DEF Wanted
<1>6. clip[c].status # "ready" BY <1>2 DEF Phase, Queue!Open
<1>7. \A d \in Clips : Playable(d)' <=> Playable(d) BY <1>1, <1>3, <1>6 DEF Playable
<1>8. Shown' = Shown BY <1>7 DEF Shown
<1> QED BY <1>2, <1>4, <1>5, <1>8 DEF Queue!GiveUp, Queue!Next

----
\* Every step of Pipeline is a step of RenderQueue or leaves what it speaks of alone.
LEMMA QueueStep ==
    ASSUME {"redeliver", "workerLost"} \cap Faults = {}
    PROVE  TypeOK /\ ClaimInv /\ FileInv /\ [Next]_vars => [Queue!Next]_(Queue!queue)
<1> SUFFICES ASSUME TypeOK, ClaimInv, FileInv, [Next]_vars
    PROVE  Queue!Next \/ UNCHANGED Queue!queue
  OBVIOUS
<1> USE Rows, MessagesTyped, HandlersTyped
<1> USE DEF TypeOK, RowsOK, TasksOK, HasRow, rows, tasks, locals, At, Sent, Goto, End, Deliver,
            FreeTasks, Abandon, Fault, Reply, Row, Marked
<1> DEFINE Goal == Queue!Next \/ UNCHANGED Queue!queue
<1>1. ASSUME NEW p \in Projects, CreateProject(p) PROVE Goal
  BY <1>1, RequestQuiet DEF CreateProject, Claimed, Holds, Unsettled, Asks
<1>2. ASSUME NEW h \in Handlers, NEW p \in Projects, StartLock(h, p) PROVE Goal
  <2> USE <1>2 DEF StartLock, Request, RemoveMedia, ClipsOf
  <2>1. \A c \in Clips \ ClipsOf(p) : file'[c] = file[c] OBVIOUS
  <2>2. \A c \in Clips : HasRow(c) => (Removing(c)' <=> Removing(c) \/ c \in ClipsOf(p))
    <3>1. handler[h].pc = "idle" /\ \A g \in Handlers \ {h} : handler'[g] = handler[g] OBVIOUS
    <3>2. handler'[h].pc \in {"starting", "deletingProject"} /\ handler'[h].project = p OBVIOUS
    <3>3. clip' = clip OBVIOUS
    <3> QED BY ONLY h \in Handlers, <3>1, <3>2, <3>3 DEF Removing, ClipsOf, HasRow
  <2>3. \A g \in Handlers, c \in Clips : Asks(g, c)' <=> Asks(g, c) BY DEF Asks
  <2>4. clip' = clip /\ task' = task /\ pc' = pc /\ todo' = todo OBVIOUS
  <2>5. ClipsOf(p) \in SUBSET Clips /\ \A c \in ClipsOf(p) : HasRow(c) OBVIOUS
  <2> HIDE DEF ClipsOf, HasRow
  <2> QED BY ONLY <2>1, <2>2, <2>3, <2>4, <2>5, Dooms
<1>3. ASSUME NEW h \in Handlers, NEW p \in Projects, DeleteProjectMedia(h, p) PROVE Goal
  <2> USE <1>3 DEF DeleteProjectMedia, Request, RemoveMedia, ClipsOf
  <2>1. \A c \in Clips \ ClipsOf(p) : file'[c] = file[c] OBVIOUS
  <2>2. \A c \in Clips : HasRow(c) => (Removing(c)' <=> Removing(c) \/ c \in ClipsOf(p))
    <3>1. handler[h].pc = "idle" /\ \A g \in Handlers \ {h} : handler'[g] = handler[g] OBVIOUS
    <3>2. handler'[h].pc \in {"starting", "deletingProject"} /\ handler'[h].project = p OBVIOUS
    <3>3. clip' = clip OBVIOUS
    <3> QED BY ONLY h \in Handlers, <3>1, <3>2, <3>3 DEF Removing, ClipsOf, HasRow
  <2>3. \A g \in Handlers, c \in Clips : Asks(g, c)' <=> Asks(g, c) BY DEF Asks
  <2>4. clip' = clip /\ task' = task /\ pc' = pc /\ todo' = todo OBVIOUS
  <2>5. ClipsOf(p) \in SUBSET Clips /\ \A c \in ClipsOf(p) : HasRow(c) OBVIOUS
  <2> HIDE DEF ClipsOf, HasRow
  <2> QED BY ONLY <2>1, <2>2, <2>3, <2>4, <2>5, Dooms
<1>4. ASSUME NEW h \in Handlers, NEW c \in Clips, DeleteClipMedia(h, c) PROVE Goal
  <2> USE <1>4 DEF DeleteClipMedia, Request, RemoveMedia
  <2>1. \A d \in Clips \ {c} : file'[d] = file[d] OBVIOUS
  <2>2. \A d \in Clips : HasRow(d) => (Removing(d)' <=> Removing(d) \/ d \in {c})
    <3>1. handler[h].pc = "idle" /\ \A g \in Handlers \ {h} : handler'[g] = handler[g] OBVIOUS
    <3>2. handler'[h].pc = "deletingClip" /\ handler'[h].clip = c OBVIOUS
    <3>3. clip' = clip OBVIOUS
    <3> QED BY ONLY h \in Handlers, <3>1, <3>2, <3>3 DEF Removing
  <2>3. \A g \in Handlers, d \in Clips : Asks(g, d)' <=> Asks(g, d) BY DEF Asks
  <2>4. clip' = clip /\ task' = task /\ pc' = pc /\ todo' = todo OBVIOUS
  <2>5. {c} \in SUBSET Clips /\ \A d \in {c} : HasRow(d) OBVIOUS
  <2> HIDE DEF HasRow
  <2> QED BY ONLY <2>1, <2>2, <2>3, <2>4, <2>5, Dooms
<1>5. ASSUME NEW h \in Handlers, NEW c \in Clips, RegenerateLock(h, c) PROVE Goal
  BY <1>5, RequestQuiet DEF RegenerateLock, Request, Claimed, Holds, Unsettled, Asks
<1>6. ASSUME NEW h \in Handlers, StartCommit(h) PROVE Goal
  <2> USE <1>6 DEF StartCommit, ClipsOf
  <2>1. PICK p \in Projects : p = handler[h].project OBVIOUS
  <2>2. \A c \in ClipsOf(p) : HasRow(c) /\ Removing(c) BY <2>1 DEF Removing
  <2>3. \A c \in Clips \ ClipsOf(p) : HasRow(c) => (Removing(c)' <=> Removing(c))
    <3>1. handler[h].pc # "deletingClip" /\ handler[h].project = p BY <2>1
    <3>2. handler'[h].pc \in {"idle", "enqueueRun"} BY <2>1
    <3>3. \A g \in Handlers \ {h} : handler'[g] = handler[g] OBVIOUS
    <3>4. \A c \in Clips \ ClipsOf(p) : clip'[c] = clip[c] BY <2>1
    <3> QED BY ONLY h \in Handlers, <3>1, <3>2, <3>3, <3>4 DEF Removing, ClipsOf, HasRow
  <2>4. \A g \in Handlers, c \in Clips : Asks(g, c)' <=> Asks(g, c) BY DEF Asks
  <2>5. clip' = [c \in Clips |-> IF c \in ClipsOf(p) THEN NoClip ELSE clip[c]] BY <2>1
  <2>6. file' = file /\ task' = task /\ pc' = pc /\ todo' = todo OBVIOUS
  <2>7. ClipsOf(p) \in SUBSET Clips OBVIOUS
  <2> HIDE DEF ClipsOf, HasRow
  <2> QED BY ONLY <2>2, <2>3, <2>4, <2>5, <2>6, <2>7, Removes
<1>7. ASSUME NEW h \in Handlers, DeleteProjectCommit(h) PROVE Goal
  <2> USE <1>7 DEF DeleteProjectCommit, ClipsOf
  <2>1. PICK p \in Projects : p = handler[h].project OBVIOUS
  <2>2. \A c \in ClipsOf(p) : HasRow(c) /\ Removing(c) BY <2>1 DEF Removing
  <2>3. \A c \in Clips \ ClipsOf(p) : HasRow(c) => (Removing(c)' <=> Removing(c))
    <3>1. handler[h].pc # "deletingClip" /\ handler[h].project = p BY <2>1
    <3>2. handler'[h].pc \in {"idle", "enqueueRun"} BY <2>1
    <3>3. \A g \in Handlers \ {h} : handler'[g] = handler[g] OBVIOUS
    <3>4. \A c \in Clips \ ClipsOf(p) : clip'[c] = clip[c] BY <2>1
    <3> QED BY ONLY h \in Handlers, <3>1, <3>2, <3>3, <3>4 DEF Removing, ClipsOf, HasRow
  <2>4. \A g \in Handlers, c \in Clips : Asks(g, c)' <=> Asks(g, c) BY DEF Asks
  <2>5. clip' = [c \in Clips |-> IF c \in ClipsOf(p) THEN NoClip ELSE clip[c]] BY <2>1
  <2>6. file' = file /\ task' = task /\ pc' = pc /\ todo' = todo OBVIOUS
  <2>7. ClipsOf(p) \in SUBSET Clips OBVIOUS
  <2> HIDE DEF ClipsOf, HasRow
  <2> QED BY ONLY <2>2, <2>3, <2>4, <2>5, <2>6, <2>7, Removes
<1>8. ASSUME NEW h \in Handlers, DeleteClipCommit(h) PROVE Goal
  <2> USE <1>8 DEF DeleteClipCommit
  <2>1. PICK c \in Clips : c = handler[h].clip OBVIOUS
  <2>2. \A g \in Handlers, d \in Clips : Asks(g, d)' <=> Asks(g, d) BY DEF Asks
  <2>3. \A d \in Clips \ {c} : HasRow(d) => (Removing(d)' <=> Removing(d))
    <3>1. handler[h].pc = "deletingClip" /\ handler[h].clip = c BY <2>1
    <3>2. handler'[h].pc = "idle" BY <2>1
    <3>3. \A g \in Handlers \ {h} : handler'[g] = handler[g] OBVIOUS
    <3>4. \A d \in Clips \ {c} : clip'[d] = clip[d] BY <2>1
    <3> QED BY ONLY h \in Handlers, <3>1, <3>2, <3>3, <3>4 DEF Removing
  <2>4. CASE HasRow(c)
    <3>1. Removing(c) BY <2>1 DEF Removing
    <3>2. clip' = [d \in Clips |-> IF d \in {c} THEN NoClip ELSE clip[d]] BY <2>1
    <3>3. file' = file /\ task' = task /\ pc' = pc /\ todo' = todo OBVIOUS
    <3>4. {c} \in SUBSET Clips /\ \A d \in {c} : HasRow(d) /\ Removing(d) BY <2>4, <3>1
    <3> HIDE DEF HasRow
    <3> QED BY ONLY <2>2, <2>3, <3>2, <3>3, <3>4, Removes
  <2>5. CASE ~HasRow(c)
    <3>1. clip[c] = NoClip BY <2>5, SMTT(30) DEF ClipRows, ClipStatus
    <3>2. clip' = clip BY <2>1, <3>1
    <3>3. \A d \in Clips : Claimed(d)' <=> Claimed(d) BY <2>2 DEF Claimed, Holds, Unsettled
    <3> QED BY <2>3, <2>5, <3>2, <3>3, Unmoved
  <2> QED BY <2>4, <2>5
<1>9. ASSUME NEW h \in Handlers, StartEnqueue(h) PROVE Goal
  BY <1>9, RequestQuiet DEF StartEnqueue, Claimed, Holds, Unsettled, Asks
<1>10. ASSUME NEW h \in Handlers, StartEnqueueFails(h) PROVE Goal
  BY <1>10, RequestQuiet DEF StartEnqueueFails, Claimed, Holds, Unsettled, Asks
<1>11. ASSUME NEW h \in Handlers, StartOrphaned(h) PROVE Goal
  BY <1>11, RequestQuiet DEF StartOrphaned, Claimed, Holds, Unsettled, Asks
<1>12. ASSUME NEW h \in Handlers, RegenerateOrphaned(h) PROVE Goal
  BY <1>12, RequestQuiet DEF RegenerateOrphaned, Claimed, Holds, Unsettled, Asks
<1>13. ASSUME NEW h \in Handlers, RegenerateEnqueue(h) PROVE Goal
  <2> USE <1>13 DEF RegenerateEnqueue
  <2>1. PICK u \in FreeTasks : Deliver(u, Message("render", None, handler[h].clip)) OBVIOUS
  <2>2. \A c \in Clips : Holds(u, c)' <=> Asks(h, c) BY <2>1 DEF Holds, Unsettled, Asks
  <2>3. \A c \in Clips : ~Holds(u, c) /\ ~Asks(h, c)' BY <2>1 DEF Holds, Unsettled, Asks
  <2>4. \A c \in Clips : \A t \in Tasks \ {u} : Holds(t, c)' <=> Holds(t, c)
    BY <2>1 DEF Holds, Unsettled
  <2>5. \A c \in Clips : \A g \in Handlers \ {h} : Asks(g, c)' <=> Asks(g, c) BY DEF Asks
  <2>6. \A c \in Clips : Claimed(c)' <=> Claimed(c)
    BY <2>1, <2>2, <2>3, <2>4, <2>5 DEF Claimed
  <2> QED BY <2>6, RequestQuiet
<1>14. ASSUME NEW h \in Handlers, RegenerateCommit(h) PROVE Goal
  <2> USE <1>14 DEF RegenerateCommit
  <2>0. PICK c \in Clips : c = handler[h].clip OBVIOUS
  <2>1. PICK w \in Windows :
            clip' = [clip EXCEPT ![c] = Row("queued", clip[c].project, w, clip[c].path)]
    BY <2>0
  <2>2. Edits(h, c) /\ clip[c].status \in {"ready", "failed"} BY <2>0 DEF Edits, ClaimInv
  <2>3. ~Claimed(c) BY <2>2 DEF ClaimInv
  <2>4. Asks(h, c)' /\ \A d \in Clips \ {c} : ~Asks(h, d)' BY <2>0 DEF Asks
  <2>5. \A d \in Clips : ~Asks(h, d) BY <2>0 DEF Asks
  <2>6. \A d \in Clips : \A g \in Handlers \ {h} : Asks(g, d)' <=> Asks(g, d) BY DEF Asks
  <2>7. \A d \in Clips : \A t \in Tasks : Holds(t, d)' <=> Holds(t, d) BY DEF Holds, Unsettled
  <2>8. \A d \in Clips : Claimed(d)' <=> Claimed(d) \/ d = c
    BY <2>4, <2>5, <2>6, <2>7 DEF Claimed
  <2>9. \A d \in Clips : clip'[d].project = clip[d].project BY <2>1
  <2>10. \A d \in Clips : Removing(d)' <=> Removing(d)
    <3>1. handler[h].pc = "regenerating" /\ handler'[h].pc = "enqueueRender" OBVIOUS
    <3>2. \A g \in Handlers \ {h} : handler'[g] = handler[g] OBVIOUS
    <3> QED BY ONLY <2>9, h \in Handlers, <3>1, <3>2 DEF Removing
  <2>11. \A d \in Clips : HasRow(d)' <=> HasRow(d) BY <2>1, <2>2
  <2>12. Claims' = Claims \cup {c} BY <2>1, <2>2, <2>8, <2>11 DEF Claims
  <2>13. Doomed' = Doomed BY <2>10, <2>11 DEF Doomed
  <2>14. Phase' = [Phase EXCEPT ![c] = "queued"] BY <2>1 DEF Phase
  <2>15. Wanted' = [Wanted EXCEPT ![c] = w] BY <2>1 DEF Wanted
  <2>16. \A d \in Clips : Playable(d)' <=> Playable(d) /\ d # c BY <2>1, <2>10 DEF Playable
  <2>17. Shown' = [Shown EXCEPT ![c] = "absent"]
    <3>1. file' = file OBVIOUS
    <3> QED BY ONLY <2>16, <3>1, c \in Clips DEF Shown
  <2>18. c \notin Claims /\ Phase[c] \in Queue!Closed
    BY <2>2, <2>3 DEF Claims, Phase, Queue!Closed
  <2>19. Queue!Retry(c, w)
    BY <2>12, <2>13, <2>14, <2>15, <2>17, <2>18 DEF Queue!Retry
  <2> QED BY <2>1, <2>19 DEF Queue!Next
<1>15. ASSUME NEW h \in Handlers, RegenerateEnqueueFails(h) PROVE Goal
  <2> USE <1>15 DEF RegenerateEnqueueFails
  <2>1. PICK c \in Clips : c = handler[h].clip OBVIOUS
  <2>2. Asks(h, c) /\ \A d \in Clips : ~Asks(h, d)' BY <2>1 DEF Asks
  <2>3. \A d \in Clips : \A t \in Tasks : Holds(t, d)' <=> Holds(t, d) BY DEF Holds, Unsettled
  <2>4. \A d \in Clips : \A g \in Handlers \ {h} : Asks(g, d)' <=> Asks(g, d) BY DEF Asks
  <2>5. \A d \in Clips \ {c} : ~Asks(h, d) BY <2>1 DEF Asks
  <2>6. Claimed(c) /\ ~Claimed(c)'
    BY <2>2, <2>3, <2>4 DEF Claimed, ClaimInv
  <2>7. \A d \in Clips \ {c} : Claimed(d)' <=> Claimed(d)
    BY <2>2, <2>3, <2>4, <2>5 DEF Claimed
  <2>8. handler[h].pc = "enqueueRender" /\ handler'[h].pc = "idle" BY <2>1
  <2>9. \A g \in Handlers \ {h} : handler'[g] = handler[g] OBVIOUS
  <2>10. clip' = [clip EXCEPT ![c] = Marked(c, "failed")] /\ file' = file BY <2>1
  <2>11. \A d \in Clips : Removing(d)' <=> Removing(d)
    <3>1. \A d \in Clips : clip'[d].project = clip[d].project BY <2>10
    <3> QED BY ONLY <2>8, <2>9, <3>1, h \in Handlers DEF Removing
  <2>12. HasRow(c) BY <2>1
  <2> QED BY ONLY TypeOK, ClaimInv, <2>6, <2>7, <2>10, <2>11, <2>12, Fails
<1>16. ASSUME NEW t \in Tasks, TranscribeStart(t) PROVE Goal
  BY <1>16, TaskQuiet DEF TranscribeStart, Holds, Unsettled, Steps
<1>17. ASSUME NEW t \in Tasks, Ingest(t) PROVE Goal
  BY <1>17, TaskQuiet DEF Ingest, Holds, Unsettled, Steps
<1>18. ASSUME NEW t \in Tasks, Transcribed(t) PROVE Goal
  BY <1>18, TaskQuiet DEF Transcribed, Holds, Unsettled, Steps
<1>19. ASSUME NEW t \in Tasks, Chain(t) PROVE Goal
  BY <1>19, TaskQuiet DEF Chain, Holds, Unsettled, Steps
<1>20. ASSUME NEW t \in Tasks, DetectStart(t) PROVE Goal
  BY <1>20, TaskQuiet DEF DetectStart, Holds, Unsettled, Steps
<1>21. ASSUME NEW t \in Tasks, NoCandidates(t) PROVE Goal
  BY <1>21, TaskQuiet DEF NoCandidates, Holds, Unsettled, Steps
<1>22. ASSUME NEW t \in Tasks, Close(t) PROVE Goal
  BY <1>22, TaskQuiet DEF Close, Holds, Unsettled, Steps
<1>23. ASSUME NEW t \in Tasks, FailJob(t) PROVE Goal
  BY <1>23, TaskQuiet DEF FailJob, Holds, Unsettled, Steps
<1>24. ASSUME NEW t \in Tasks, FailProject(t) PROVE Goal
  BY <1>24, TaskQuiet DEF FailProject, Holds, Unsettled, Steps
<1>25. ASSUME NEW t \in Tasks, ProjectGone(t) PROVE Goal
  BY <1>25, TaskQuiet DEF ProjectGone, Holds, Unsettled, Steps
<1>26. ASSUME NEW t \in Tasks, RenderClipGone(t) PROVE Goal
  BY <1>26, TaskQuiet DEF RenderClipGone, Holds, Unsettled, Steps
<1>27. ASSUME NEW t \in Tasks, PublishRaises(t) PROVE Goal
  BY <1>27, TaskQuiet DEF PublishRaises, Holds, Unsettled, Steps
<1>28. ASSUME NEW t \in Tasks, TallyStops(t) PROVE Goal
  BY <1>28, TaskQuiet DEF TallyStops, Holds, Unsettled, Steps
<1>29. ASSUME NEW t \in Tasks, Tally(t) PROVE Goal
  BY <1>29, TaskQuiet DEF Tally, Holds, Unsettled, Steps
<1>30. ASSUME NEW t \in Tasks, CheckStops(t) PROVE Goal
  BY <1>30, TaskQuiet DEF CheckStops, Holds, Unsettled, Steps
<1>31. ASSUME NEW t \in Tasks, Check(t) PROVE Goal
  BY <1>31, TaskQuiet DEF Check, Holds, Unsettled, Steps
<1>32. ASSUME NEW t \in Tasks, FinalizeReady(t) PROVE Goal
  BY <1>32, TaskQuiet DEF FinalizeReady, Holds, Unsettled, Steps
<1>33. ASSUME NEW t \in Tasks, FinalizeFailed(t) PROVE Goal
  BY <1>33, TaskQuiet DEF FinalizeFailed, Holds, Unsettled, Steps
<1>34. ASSUME NEW t \in Tasks, BillStops(t) PROVE Goal
  BY <1>34, TaskQuiet DEF BillStops, Holds, Unsettled, Steps
<1>35. ASSUME NEW t \in Tasks, Bill(t) PROVE Goal
  BY <1>35, TaskQuiet DEF Bill, Holds, Unsettled, Steps
<1>36. ASSUME NEW t \in Tasks, Record(t) PROVE Goal
  BY <1>36, TaskQuiet DEF Record, Holds, Unsettled, Steps
<1>37. ASSUME NEW t \in Tasks, FinalizeGone(t) PROVE Goal
  BY <1>37, TaskQuiet DEF FinalizeGone, Holds, Unsettled, Steps
<1>38. ASSUME NEW t \in Tasks, EncodeBegins(t) PROVE Goal
  <2> USE <1>38 DEF EncodeBegins
  <2>1. PICK c \in Clips : c = task[t].clip /\ Working(t, c) BY DEF Steps, Working
  <2>2. clip[c].status # "ready" BY <2>1, WorkingHolds
  <2>3. \A d \in Clips : clip[d].status = "ready" => file'[d] = file[d] BY <2>1, <2>2
  <2>4. \A d \in Clips : \A u \in Tasks : Holds(u, d)' <=> Holds(u, d)
    BY DEF Holds, Unsettled, Steps
  <2> QED BY <2>3, <2>4, TaskQuiet
<1>39. ASSUME NEW t \in Tasks, EncodeEnds(t) PROVE Goal
  <2> USE <1>39 DEF EncodeEnds
  <2>1. PICK c \in Clips : c = task[t].clip /\ Working(t, c) BY DEF Steps, Working
  <2>2. clip[c].status # "ready" BY <2>1, WorkingHolds
  <2>3. \A d \in Clips : clip[d].status = "ready" => file'[d] = file[d] BY <2>1, <2>2
  <2>4. \A d \in Clips : \A u \in Tasks : Holds(u, d)' <=> Holds(u, d)
    BY DEF Holds, Unsettled, Steps
  <2> QED BY <2>3, <2>4, TaskQuiet
<1>40. ASSUME NEW t \in Tasks, FanOut(t) PROVE Goal
  <2> USE <1>40 DEF FanOut
  <2>1. PICK c \in todo[t], u \in FreeTasks :
            /\ task' = [task EXCEPT ![u] = Message("render", None, c)]
            /\ pc' = [pc EXCEPT ![u] = "sent"]
            /\ todo' = [todo EXCEPT ![t] = @ \ {c}]
    OBVIOUS
  <2>2. c \in Clips /\ u \in Tasks /\ u # t OBVIOUS
  <2>3. Holds(t, c) /\ Holds(u, c)' BY <2>1, <2>2 DEF Holds, Unsettled
  <2>4. \A d \in Clips \ {c} : \A v \in Tasks : Holds(v, d)' <=> Holds(v, d)
    BY <2>1, <2>2 DEF Holds, Unsettled
  <2>5. handler' = handler /\ clip' = clip /\ file' = file OBVIOUS
  <2>6. \A d \in Clips : Claimed(d)' <=> Claimed(d)
    BY ONLY <2>2, <2>3, <2>4, <2>5, t \in Tasks DEF Claimed, Asks
  <2> QED BY <2>5, <2>6, RequestQuiet
<1>41. ASSUME NEW t \in Tasks, Raise(t) PROVE Goal
  <2> USE <1>41 DEF Raise
  <2>1. \A c \in Clips : \A u \in Tasks \ {t} : Holds(u, c)' => Holds(u, c)
    BY DEF Holds, Unsettled
  <2>2. pc'[t] = "failJob" /\ task' = task OBVIOUS
  <2>3. task[t].kind = "render" => pc[t] \in {"encode", "encoding"} BY DEF Steps
  <2>4. \A c \in Clips : Holds(t, c)' => Holds(t, c) BY ONLY <2>2, <2>3 DEF Holds, Unsettled
  <2> QED BY <2>1, <2>4, Forgets
<1>42. ASSUME NEW t \in Tasks, ChildLost(t) PROVE Goal
  <2> USE <1>42 DEF ChildLost
  <2>1. \A c \in Clips : \A u \in Tasks : Holds(u, c)' => Holds(u, c)
    BY DEF Holds, Unsettled, Steps
  <2> QED BY <2>1, Forgets
<1>43. ASSUME NEW t \in Tasks, Redeliver(t) PROVE Goal
  BY <1>43 DEF Redeliver
<1>44. ASSUME NEW t \in Tasks, WorkerLost(t) PROVE Goal
  BY <1>44 DEF WorkerLost
<1>45. ASSUME NEW t \in Tasks, RenderStart(t) PROVE Goal
  <2> USE <1>45 DEF RenderStart
  <2>1. PICK c \in Clips : c = task[t].clip OBVIOUS
  <2>2. HasRow(c) /\ Holds(t, c) BY <2>1 DEF Holds, Unsettled
  <2>3. clip' = [clip EXCEPT ![c] = Marked(c, "rendering")] BY <2>1
  <2>0. clip'[c].status = "rendering" /\ \A d \in Clips \ {c} : clip'[d] = clip[d] BY <2>3
  <2>4. \A d \in Clips : \A u \in Tasks : Holds(u, d)' <=> Holds(u, d)
    BY <2>1 DEF Holds, Unsettled
  <2>5. handler' = handler /\ file' = file OBVIOUS
  <2>6. \A d \in Clips : Claimed(d)' <=> Claimed(d) BY ONLY <2>4, <2>5 DEF Claimed, Asks
  <2>7. \A d \in Clips : clip'[d].project = clip[d].project /\ clip'[d].window = clip[d].window
    BY <2>3
  <2>8. \A d \in Clips : Removing(d)' <=> Removing(d) BY ONLY <2>5, <2>7 DEF Removing
  <2>9. \A d \in Clips : HasRow(d)' <=> HasRow(d) BY <2>2, <2>3
  <2>10. Claimed(c) BY ONLY <2>2, t \in Tasks DEF Claimed
  <2>11. clip[c].status \notin {"ready", "failed"} BY <2>10 DEF ClaimInv
  <2>12. c \in Claims /\ Phase[c] \in Queue!Open
    BY <2>2, <2>10, <2>11 DEF Claims, Phase, Queue!Open, ClipStatus
  <2>13. Claims' = Claims /\ Doomed' = Doomed
    BY ONLY <2>6, <2>8, <2>9 DEF Claims, Doomed
  <2>14. \A d \in Clips : Playable(d)' <=> Playable(d)
    BY ONLY <2>0, <2>8, <2>11 DEF Playable
  <2>15. Shown' = Shown BY ONLY <2>5, <2>14 DEF Shown
  <2>16. Phase' = [Phase EXCEPT ![c] = "rendering"]
    BY ONLY <2>0, c \in Clips DEF Phase
  <2>17. Wanted' = Wanted BY ONLY <2>7 DEF Wanted
  <2>18. Queue!Take(c) BY ONLY <2>12, <2>13, <2>15, <2>16, <2>17 DEF Queue!Take
  <2> QED BY <2>18 DEF Queue!Next
<1>46. ASSUME NEW t \in Tasks, Publish(t) PROVE Goal
  <2> USE <1>46 DEF Publish
  <2>1. PICK c \in Clips : c = task[t].clip /\ Working(t, c) BY DEF Steps, Working
  <2>2. HasRow(c) /\ Holds(t, c) BY <2>1, WorkingHolds
  <2>3. clip' = [clip EXCEPT ![c] = Row("ready", clip[c].project, clip[c].window, TRUE)]
    BY <2>1
  <2>4. \A d \in Clips : ~Holds(t, d)' BY DEF Holds, Unsettled
  <2>5. \A d \in Clips : \A u \in Tasks \ {t} : Holds(u, d)' <=> Holds(u, d)
    BY DEF Holds, Unsettled
  <2>6. \A d \in Clips \ {c} : ~Holds(t, d) BY <2>1 DEF Holds, Unsettled, Working
  <2>7. handler' = handler /\ file' = file OBVIOUS
  <2>8. Claimed(c) BY ONLY <2>2, t \in Tasks DEF Claimed
  <2>9. ~Claimed(c)' BY <2>2, <2>4, <2>5, <2>7 DEF Claimed, ClaimInv, Asks
  <2>10. \A d \in Clips \ {c} : Claimed(d)' <=> Claimed(d)
    BY ONLY <2>4, <2>5, <2>6, <2>7, t \in Tasks DEF Claimed, Asks
  <2>11. \A d \in Clips : clip'[d].project = clip[d].project /\ clip'[d].window = clip[d].window
    BY <2>3
  <2>12. \A d \in Clips : Removing(d)' <=> Removing(d) BY ONLY <2>7, <2>11 DEF Removing
  <2>13. c \in Claims /\ Phase[c] \in Queue!Open /\ Claims' = Claims \ {c} /\ Doomed' = Doomed
    <3>1. Row("ready", clip[c].project, clip[c].window, TRUE).status # "none" OBVIOUS
    <3> HIDE DEF HasRow, Row
    <3> QED BY ONLY TypeOK, ClaimInv, <2>2, <2>3, <2>8, <2>9, <2>10, <2>12, <3>1, Settles
  <2>14. Phase' = [Phase EXCEPT ![c] = "ready"]
    <3>1. clip'[c].status = "ready" /\ \A d \in Clips \ {c} : clip'[d] = clip[d] BY <2>3
    <3> QED BY ONLY <3>1, c \in Clips DEF Phase
  <2>15. Wanted' = Wanted BY ONLY <2>11 DEF Wanted
  <2>16. ~Removing(c) => file[c] = clip[c].window
    <3>1. pc[t] = "publish" OBVIOUS
    <3> HIDE DEF Removing, HasRow
    <3> QED BY ONLY <2>1, <2>2, <3>1, FileInv, t \in Tasks DEF FileInv
  <2>17. Shown' = [Shown EXCEPT ![c] = IF c \in Doomed THEN "absent" ELSE Wanted[c]]
    <3>1. \A d \in Clips \ {c} : Playable(d)' <=> Playable(d)
      BY <2>3, <2>12 DEF Playable
    <3>2. Playable(c)' <=> ~Removing(c) BY <2>3, <2>12 DEF Playable
    <3>3. c \in Doomed <=> Removing(c) BY ONLY <2>2, c \in Clips DEF Doomed
    <3> QED BY ONLY <2>7, <2>16, <3>1, <3>2, <3>3, c \in Clips DEF Shown, Wanted
  <2>18. Queue!Finish(c) BY ONLY <2>13, <2>14, <2>15, <2>17 DEF Queue!Finish
  <2> QED BY <2>18 DEF Queue!Next
<1>47. ASSUME NEW t \in Tasks, FailClip(t) PROVE Goal
  <2> USE <1>47 DEF FailClip
  <2>1. PICK c \in Clips : c = task[t].clip /\ task[t].kind = "render" BY DEF Steps
  <2>2. Holds(t, c) BY <2>1 DEF Holds, Unsettled
  <2>3. \A d \in Clips : ~Holds(t, d)' BY DEF Holds, Unsettled
  <2>4. \A d \in Clips : \A u \in Tasks \ {t} : Holds(u, d)' <=> Holds(u, d)
    BY DEF Holds, Unsettled
  <2>5. \A d \in Clips \ {c} : ~Holds(t, d) BY <2>1 DEF Holds, Unsettled
  <2>6. handler' = handler /\ file' = file OBVIOUS
  <2>7. \A d \in Clips \ {c} : Claimed(d)' <=> Claimed(d)
    BY ONLY <2>3, <2>4, <2>5, <2>6, t \in Tasks DEF Claimed, Asks
  <2>8. Claimed(c) BY ONLY <2>2, t \in Tasks DEF Claimed
  <2>9. ~Claimed(c)'
    BY ONLY <2>2, <2>3, <2>4, <2>6, ClaimInv, t \in Tasks DEF Claimed, ClaimInv, Asks
  <2>10. CASE HasRow(c)
    <3>1. clip' = [clip EXCEPT ![c] = Marked(c, "failed")] BY <2>1, <2>10
    <3>2. \A d \in Clips : clip'[d].project = clip[d].project BY <3>1
    <3>3. \A d \in Clips : Removing(d)' <=> Removing(d) BY ONLY <2>6, <3>2 DEF Removing
    <3> HIDE DEF HasRow, Marked
    <3> QED BY ONLY TypeOK, ClaimInv, <2>6, <2>7, <2>8, <2>9, <2>10, <3>1, <3>3, Fails
  <2>11. CASE ~HasRow(c)
    <3>1. clip' = clip BY <2>1, <2>11
    <3>2. \A d \in Clips : HasRow(d) => (Claimed(d)' <=> Claimed(d)) BY <2>7, <2>11
    <3> QED BY <2>6, <3>1, <3>2, RequestQuiet
  <2> QED BY <2>10, <2>11
<1>48. ASSUME NEW t \in Tasks, CreateClips(t) PROVE Goal
  <2> USE <1>48 DEF CreateClips
  <2>1. PICK cs \in SUBSET FreshClips, w \in Windows :
            /\ clip' = [d \in Clips |-> IF d \in cs THEN Row("queued", task[t].project, w, FALSE)
                                      ELSE clip[d]]
            /\ todo' = [todo EXCEPT ![t] = cs]
    BY ONLY <1>48 DEF CreateClips
  <2>2. /\ file' = file /\ handler' = handler /\ task' = task
        /\ pc[t] = "detect" /\ pc' = [pc EXCEPT ![t] = "fanout"]
    OBVIOUS
  <2>3. \A d \in cs : /\ d \in Clips /\ ~HasRow(d)
                       /\ \A u \in Tasks : task[u].clip # d /\ d \notin todo[u]
                       /\ \A h \in Handlers : handler[h].clip # d
    BY DEF FreshClips
  <2>4. \A d \in cs : clip'[d].status = "queued" /\ clip'[d].window = w BY <2>1, <2>3
  <2>5. \A d \in Clips \ cs : clip'[d] = clip[d] BY <2>1
  <2>6. \A d \in cs : Holds(t, d)' BY <2>1, <2>2, <2>3 DEF Holds
  <2>7. \A d \in Clips \ cs : \A u \in Tasks : Holds(u, d)' <=> Holds(u, d)
    BY <2>1, <2>2, <2>3 DEF Holds, Unsettled, Steps
  <2>8. \A d \in Clips \ cs : Claimed(d)' <=> Claimed(d)
    BY ONLY <2>2, <2>7 DEF Claimed, Asks
  <2>9. \A d \in Clips : HasRow(d)' <=> HasRow(d) \/ d \in cs
    BY ONLY <2>4, <2>5 DEF HasRow
  <2>10. \A d \in Clips \ cs : Removing(d)' <=> Removing(d) BY ONLY <2>2, <2>5 DEF Removing
  <2> DEFINE ds == {d \in cs : Removing(d)'}
  <2> HIDE DEF Removing, HasRow
  <2>11. Claims' = Claims \cup cs
    <3>1. \A d \in cs : Claimed(d)' BY ONLY <2>6, t \in Tasks DEF Claimed
    <3> QED BY ONLY <2>3, <2>8, <2>9, <3>1 DEF Claims
  <2>12. Doomed' = Doomed \cup ds BY ONLY <2>3, <2>9, <2>10 DEF Doomed
  <2>13. Phase' = [d \in Clips |-> IF d \in cs THEN "queued" ELSE Phase[d]]
    BY ONLY <2>3, <2>4, <2>5 DEF Phase
  <2>14. Wanted' = [d \in Clips |-> IF d \in cs THEN w ELSE Wanted[d]]
    BY ONLY <2>3, <2>4, <2>5 DEF Wanted
  <2>15. \A d \in Clips : Playable(d)' <=> Playable(d)
    BY ONLY <2>3, <2>4, <2>5, <2>10 DEF Playable, HasRow
  <2>16. Shown' = Shown BY ONLY <2>2, <2>15 DEF Shown
  <2>17. \A d \in cs : Phase[d] = "none" BY ONLY <2>3 DEF Phase, HasRow
  <2>18. cs \in SUBSET Clips /\ ds \in SUBSET cs BY <2>3
  <2>19. Queue!Create(cs, w)
    BY ONLY <2>11, <2>12, <2>13, <2>14, <2>16, <2>17, <2>18 DEF Queue!Create
  <2> QED BY <2>18, <2>19 DEF Queue!Next
<1>49. ASSUME UNCHANGED vars PROVE Goal
  BY <1>49, RequestQuiet DEF vars, Claimed, Holds, Unsettled, Asks
<1> QED BY <1>1, <1>2, <1>3, <1>4, <1>5, <1>6, <1>7, <1>8, <1>9, <1>10, <1>11, <1>12,
         <1>13, <1>14, <1>15, <1>16, <1>17, <1>18, <1>19, <1>20, <1>21, <1>22, <1>23,
         <1>24, <1>25, <1>26, <1>27, <1>28, <1>29, <1>30, <1>31, <1>32, <1>33, <1>34,
         <1>35, <1>36, <1>37, <1>38, <1>39, <1>40, <1>41, <1>42, <1>43, <1>44, <1>45,
         <1>46, <1>47, <1>48, <1>49
     DEF Next, NewRequest, HandlerStep, TaskStep, PipelineStep, RenderStep, FinalizeStep,
         Environment, AtRest

\* Pipeline starts as RenderQueue does.
LEMMA QueueInit == Init => Queue!Init
<1> SUFFICES ASSUME Init PROVE Queue!Init OBVIOUS
<1> USE Rows, MessagesTyped, HandlersTyped DEF Init
<1>1. \A c \in Clips : ~HasRow(c) /\ ~Playable(c) BY DEF HasRow, Playable
<1>2. Claims = {} /\ Doomed = {} BY <1>1 DEF Claims, Doomed
<1>3. Shown = [c \in Clips |-> "absent"] BY <1>1 DEF Shown
<1>4. Phase = [c \in Clips |-> "none"] BY DEF Phase
<1>5. Wanted = [c \in Clips |-> None] BY DEF Wanted, NoClip, Row
<1> QED BY <1>2, <1>3, <1>4, <1>5 DEF Queue!Init

\* As long as no message is delivered twice, whatever starts, edits, deletions, refused
\* messages and killed pool processes interleave, and however many projects, clips, tasks
\* and requests there are, the rows, messages, locks and files of Pipeline implement the
\* queue: a clip is claimed once, shown as last asked, and never asked for again while
\* somebody works on it.
THEOREM PipelineIsAQueue ==
    ASSUME {"redeliver", "workerLost"} \cap Faults = {}
    PROVE  Spec => ClipsAreQueued
<1>1. Init => TypeOK /\ ClaimInv /\ FileInv BY TypeInit, ClaimInit, FileInit
<1>2. TypeOK /\ ClaimInv /\ FileInv /\ [Next]_vars => (TypeOK /\ ClaimInv /\ FileInv)'
  BY TypeStep, ClaimStep, FileStep
<1>3. TypeOK /\ ClaimInv /\ FileInv /\ [Next]_vars => [Queue!Next]_(Queue!queue)
  BY QueueStep
<1> QED BY <1>1, <1>2, <1>3, QueueInit, PTL DEF Spec, ClipsAreQueued, Queue!Spec
====
