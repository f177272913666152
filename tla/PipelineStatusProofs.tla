---- MODULE PipelineStatusProofs ----
(***************************************************************************)
(* What project, clip and job statuses promise, for every value of the     *)
(* constants, in three parts:                                              *)
(*  - start_processing's row lock does its work under every fault of the   *)
(*    model;                                                               *)
(*  - what only a task can move on always has such a task, under every     *)
(*    fault but a killed pool process;                                     *)
(*  - a project shown ready is billed or about to be, and no task returns  *)
(*    with its job row running, unless something stops a task in its       *)
(*    middle that no code reacts to.                                       *)
(* Each part shares a lemma for the steps that touch nothing it speaks of. *)
(***************************************************************************)
EXTENDS PipelineProofs

-----------------------------------------------------------------------------
\* What a request checked under its lock.

Starting(h, p) == handler[h].pc = "starting" /\ handler[h].project = p

\* StartHoldsIdleProject with what keeps it: one request holds a project's lock.
LockInv ==
    /\ \A p \in Projects : \A h, g \in Handlers : Starting(h, p) /\ Starting(g, p) => h = g
    /\ \A p \in Projects : \A h \in Handlers :
           Starting(h, p) => status[p] \notin ActiveStatuses \cup {"absent"}

\* A step that takes no new lock and writes no status another request has locked.
LEMMA LockFrame ==
    ASSUME LockInv,
           \A p \in Projects : \A h \in Handlers : Starting(h, p)' => Starting(h, p),
           \A p \in Projects : \/ status'[p] = status[p]
                              \/ \A h \in Handlers : ~Starting(h, p)'
    PROVE  LockInv'
BY DEF LockInv

\* Nothing is locked in the empty system.
LEMMA LockInit == Init => LockInv
BY HandlersTyped DEF Init, LockInv, Starting

\* Every step keeps the lock invariant: only StartLock locks, and only an idle project
\* that nobody has locked.
LEMMA LockStep == TypeOK /\ LockInv /\ [Next]_vars => LockInv'
<1> SUFFICES ASSUME TypeOK, LockInv, [Next]_vars PROVE LockInv' OBVIOUS
<1> USE HandlersTyped DEF TypeOK, RowsOK, Starting, LockedProject, Reply, rows
<1>1. ASSUME NEW p \in Projects, CreateProject(p) PROVE LockInv'
  BY <1>1, LockFrame DEF CreateProject, FreshProjects
<1>2. ASSUME NEW h \in Handlers, NEW p \in Projects, StartLock(h, p) PROVE LockInv'
  <2> USE <1>2 DEF StartLock, Request
  <2>1. status' = status BY DEF rows
  <2>2. \A q \in Projects : \A g \in Handlers : Starting(g, q)' => Starting(g, q) \/ (g = h /\ q = p)
    OBVIOUS
  <2>3. \A g \in Handlers : ~Starting(g, p) OBVIOUS
  <2>4. status[p] \notin ActiveStatuses \cup {"absent"} BY DEF Exists
  <2> QED BY <2>1, <2>2, <2>3, <2>4 DEF LockInv
<1>3. ASSUME NEW h \in Handlers, NEW p \in Projects, DeleteProjectMedia(h, p) PROVE LockInv'
  BY <1>3, LockFrame DEF DeleteProjectMedia, Request
<1>4. ASSUME NEW h \in Handlers, NEW c \in Clips, RegenerateLock(h, c) PROVE LockInv'
  BY <1>4, LockFrame DEF RegenerateLock, Request
<1>5. ASSUME NEW h \in Handlers, NEW c \in Clips, DeleteClipMedia(h, c) PROVE LockInv'
  BY <1>5, LockFrame DEF DeleteClipMedia, Request
<1>6. ASSUME NEW h \in Handlers, StartCommit(h) PROVE LockInv'
  <2> USE <1>6 DEF StartCommit
  <2>1. PICK p \in Projects : p = handler[h].project OBVIOUS
  <2>2. Starting(h, p) BY <2>1
  <2>3. \A g \in Handlers : ~Starting(g, p)' BY <2>1, <2>2 DEF LockInv
  <2>4. \A q \in Projects \ {p} : status'[q] = status[q] BY <2>1
  <2> QED BY <2>3, <2>4, LockFrame
<1>7. ASSUME NEW h \in Handlers, StartEnqueue(h) PROVE LockInv'
  BY <1>7, LockFrame DEF StartEnqueue
<1>8. ASSUME NEW h \in Handlers, StartEnqueueFails(h) PROVE LockInv'
  BY <1>8, LockFrame DEF StartEnqueueFails
<1>9. ASSUME NEW h \in Handlers, StartOrphaned(h) PROVE LockInv'
  BY <1>9, LockFrame DEF StartOrphaned
<1>10. ASSUME NEW h \in Handlers, RegenerateCommit(h) PROVE LockInv'
  BY <1>10, LockFrame DEF RegenerateCommit
<1>11. ASSUME NEW h \in Handlers, RegenerateEnqueue(h) PROVE LockInv'
  BY <1>11, LockFrame DEF RegenerateEnqueue
<1>12. ASSUME NEW h \in Handlers, RegenerateEnqueueFails(h) PROVE LockInv'
  BY <1>12, LockFrame DEF RegenerateEnqueueFails
<1>13. ASSUME NEW h \in Handlers, RegenerateOrphaned(h) PROVE LockInv'
  BY <1>13, LockFrame DEF RegenerateOrphaned
<1>14. ASSUME NEW h \in Handlers, DeleteClipCommit(h) PROVE LockInv'
  BY <1>14, LockFrame DEF DeleteClipCommit
<1>15. ASSUME NEW h \in Handlers, DeleteProjectCommit(h) PROVE LockInv'
  BY <1>15, LockFrame DEF DeleteProjectCommit
<1>16. ASSUME NEW t \in Tasks, TranscribeStart(t) PROVE LockInv'
  BY <1>16, LockFrame DEF TranscribeStart
<1>17. ASSUME NEW t \in Tasks, Ingest(t) PROVE LockInv'
  BY <1>17, LockFrame DEF Ingest
<1>18. ASSUME NEW t \in Tasks, Transcribed(t) PROVE LockInv'
  BY <1>18, LockFrame DEF Transcribed
<1>19. ASSUME NEW t \in Tasks, Chain(t) PROVE LockInv'
  BY <1>19, LockFrame DEF Chain
<1>20. ASSUME NEW t \in Tasks, DetectStart(t) PROVE LockInv'
  BY <1>20, LockFrame DEF DetectStart
<1>21. ASSUME NEW t \in Tasks, NoCandidates(t) PROVE LockInv'
  BY <1>21, LockFrame DEF NoCandidates
<1>22. ASSUME NEW t \in Tasks, Close(t) PROVE LockInv'
  BY <1>22, LockFrame DEF Close
<1>23. ASSUME NEW t \in Tasks, CreateClips(t) PROVE LockInv'
  BY <1>23, LockFrame DEF CreateClips
<1>24. ASSUME NEW t \in Tasks, FanOut(t) PROVE LockInv'
  BY <1>24, LockFrame DEF FanOut
<1>25. ASSUME NEW t \in Tasks, Raise(t) PROVE LockInv'
  BY <1>25, LockFrame DEF Raise
<1>26. ASSUME NEW t \in Tasks, FailJob(t) PROVE LockInv'
  BY <1>26, LockFrame DEF FailJob
<1>27. ASSUME NEW t \in Tasks, FailProject(t) PROVE LockInv'
  BY <1>27, LockFrame DEF FailProject
<1>28. ASSUME NEW t \in Tasks, ProjectGone(t) PROVE LockInv'
  BY <1>28, LockFrame DEF ProjectGone, Abandon
<1>29. ASSUME NEW t \in Tasks, RenderClipGone(t) PROVE LockInv'
  BY <1>29, LockFrame DEF RenderClipGone
<1>30. ASSUME NEW t \in Tasks, RenderStart(t) PROVE LockInv'
  BY <1>30, LockFrame DEF RenderStart
<1>31. ASSUME NEW t \in Tasks, EncodeBegins(t) PROVE LockInv'
  BY <1>31, LockFrame DEF EncodeBegins
<1>32. ASSUME NEW t \in Tasks, EncodeEnds(t) PROVE LockInv'
  BY <1>32, LockFrame DEF EncodeEnds
<1>33. ASSUME NEW t \in Tasks, Publish(t) PROVE LockInv'
  BY <1>33, LockFrame DEF Publish
<1>34. ASSUME NEW t \in Tasks, PublishRaises(t) PROVE LockInv'
  BY <1>34, LockFrame DEF PublishRaises
<1>35. ASSUME NEW t \in Tasks, FailClip(t) PROVE LockInv'
  BY <1>35, LockFrame DEF FailClip
<1>36. ASSUME NEW t \in Tasks, TallyStops(t) PROVE LockInv'
  BY <1>36, LockFrame DEF TallyStops
<1>37. ASSUME NEW t \in Tasks, Tally(t) PROVE LockInv'
  BY <1>37, LockFrame DEF Tally
<1>38. ASSUME NEW t \in Tasks, CheckStops(t) PROVE LockInv'
  BY <1>38, LockFrame DEF CheckStops
<1>39. ASSUME NEW t \in Tasks, Check(t) PROVE LockInv'
  BY <1>39, LockFrame DEF Check
<1>40. ASSUME NEW t \in Tasks, FinalizeReady(t) PROVE LockInv'
  BY <1>40, LockFrame DEF FinalizeReady
<1>41. ASSUME NEW t \in Tasks, FinalizeFailed(t) PROVE LockInv'
  BY <1>41, LockFrame DEF FinalizeFailed
<1>42. ASSUME NEW t \in Tasks, BillStops(t) PROVE LockInv'
  BY <1>42, LockFrame DEF BillStops
<1>43. ASSUME NEW t \in Tasks, Bill(t) PROVE LockInv'
  BY <1>43, LockFrame DEF Bill
<1>44. ASSUME NEW t \in Tasks, Record(t) PROVE LockInv'
  BY <1>44, LockFrame DEF Record
<1>45. ASSUME NEW t \in Tasks, FinalizeGone(t) PROVE LockInv'
  BY <1>45, LockFrame DEF FinalizeGone, Abandon
<1>46. ASSUME NEW t \in Tasks, Redeliver(t) PROVE LockInv'
  BY <1>46, LockFrame DEF Redeliver
<1>47. ASSUME NEW t \in Tasks, WorkerLost(t) PROVE LockInv'
  BY <1>47, LockFrame DEF WorkerLost
<1>48. ASSUME NEW t \in Tasks, ChildLost(t) PROVE LockInv'
  BY <1>48, LockFrame DEF ChildLost
<1>49. CASE UNCHANGED vars BY <1>49, LockFrame DEF vars
<1> QED BY <1>1, <1>2, <1>3, <1>4, <1>5, <1>6, <1>7, <1>8, <1>9, <1>10, <1>11, <1>12, <1>13,
         <1>14, <1>15, <1>16, <1>17, <1>18, <1>19, <1>20, <1>21, <1>22, <1>23, <1>24, <1>25,
         <1>26, <1>27, <1>28, <1>29, <1>30, <1>31, <1>32, <1>33, <1>34, <1>35, <1>36, <1>37,
         <1>38, <1>39, <1>40, <1>41, <1>42, <1>43, <1>44, <1>45, <1>46, <1>47, <1>48, <1>49
     DEF Next, NewRequest, HandlerStep, TaskStep, PipelineStep, RenderStep, FinalizeStep,
         Environment, AtRest

\* Until it commits, a start holds a project that exists and that no run is driving,
\* however many API processes, tasks and faults there are: the status start_processing
\* checked under FOR UPDATE is the status it overwrites.
THEOREM StartLockHolds == Spec => []StartHoldsIdleProject
<1>1. Init => TypeOK /\ LockInv BY TypeInit, LockInit
<1>2. TypeOK /\ LockInv /\ [Next]_vars => (TypeOK /\ LockInv)' BY TypeStep, LockStep
<1>3. TypeOK /\ LockInv => StartHoldsIdleProject
  BY HandlersTyped DEF LockInv, Starting, StartHoldsIdleProject, TypeOK
<1> QED BY <1>1, <1>2, <1>3, PTL DEF Spec

-----------------------------------------------------------------------------
\* Who moves a status on.

Enqueues(h, p) == handler[h].pc = "enqueueRun" /\ handler[h].project = p
Transcribes(t, p) ==
    /\ task[t].kind = "transcribe" /\ task[t].project = p
    /\ pc[t] \in {"sent", "ingest", "asr", "failJob", "failProject"}
Renders(t, c) == Unsettled(t) /\ task[t].clip = c

\* A step that leaves every transcribing project its driver, or another one.
LEMMA TranscribingFrame ==
    ASSUME TranscribingIsDriven,
           \A p \in Projects : status'[p] = "transcribing" =>
               \/ status[p] = "transcribing" \/ \E h \in Handlers : Enqueues(h, p)'
               \/ \E t \in Tasks : Transcribes(t, p)',
           \A p \in Projects : \A h \in Handlers : Enqueues(h, p) =>
               \/ Enqueues(h, p)' \/ status'[p] # "transcribing"
               \/ \E t \in Tasks : Transcribes(t, p)',
           \A p \in Projects : \A t \in Tasks : Transcribes(t, p) =>
               Transcribes(t, p)' \/ status'[p] # "transcribing"
    PROVE  TranscribingIsDriven'
BY DEF TranscribingIsDriven, Enqueues, Transcribes

\* A step that leaves every rendering clip its render.
LEMMA RenderingFrame ==
    ASSUME RenderingIsDriven,
           \A c \in Clips : clip'[c].status = "rendering" =>
               clip[c].status = "rendering" \/ \E t \in Tasks : Renders(t, c)',
           \A c \in Clips : \A t \in Tasks : Renders(t, c) =>
               Renders(t, c)' \/ clip'[c].status # "rendering"
    PROVE  RenderingIsDriven'
BY DEF RenderingIsDriven, Renders

\* No step but the loss of a pool process takes the driver of a transcribing project
\* without a new status, a new message or a new request in its place.
LEMMA TranscribingStep ==
    ASSUME "childLost" \notin Faults
    PROVE  TypeOK /\ TranscribingIsDriven /\ [Next]_vars => TranscribingIsDriven'
<1> SUFFICES ASSUME TypeOK, TranscribingIsDriven, [Next]_vars PROVE TranscribingIsDriven' OBVIOUS
<1> USE HandlersTyped, MessagesTyped DEF TypeOK, RowsOK, TasksOK, Enqueues, Transcribes, Exists
<1> USE DEF rows, tasks, locals, At, Sent, Reply, Goto, End, Deliver, FreeTasks, Abandon, Fault
<1>1. ASSUME NEW p \in Projects, CreateProject(p) PROVE TranscribingIsDriven'
  BY <1>1, TranscribingFrame DEF CreateProject
<1>2. ASSUME NEW h \in Handlers, NEW p \in Projects, StartLock(h, p) PROVE TranscribingIsDriven'
  BY <1>2, TranscribingFrame DEF StartLock, Request
<1>3. ASSUME NEW h \in Handlers, NEW p \in Projects, DeleteProjectMedia(h, p) PROVE TranscribingIsDriven'
  BY <1>3, TranscribingFrame DEF DeleteProjectMedia, Request
<1>4. ASSUME NEW h \in Handlers, NEW c \in Clips, RegenerateLock(h, c) PROVE TranscribingIsDriven'
  BY <1>4, TranscribingFrame DEF RegenerateLock, Request
<1>5. ASSUME NEW h \in Handlers, NEW c \in Clips, DeleteClipMedia(h, c) PROVE TranscribingIsDriven'
  BY <1>5, TranscribingFrame DEF DeleteClipMedia, Request
<1>6. ASSUME NEW h \in Handlers, StartCommit(h) PROVE TranscribingIsDriven'
  <2> USE <1>6 DEF StartCommit
  <2>1. PICK p \in Projects : p = handler[h].project OBVIOUS
  <2>2. Enqueues(h, p)' BY <2>1
  <2>3. \A q \in Projects \ {p} : status'[q] = status[q] BY <2>1
  <2> QED BY <2>2, <2>3, TranscribingFrame
<1>7. ASSUME NEW h \in Handlers, StartEnqueue(h) PROVE TranscribingIsDriven'
  BY <1>7, TranscribingFrame DEF StartEnqueue
<1>8. ASSUME NEW h \in Handlers, StartEnqueueFails(h) PROVE TranscribingIsDriven'
  BY <1>8, TranscribingFrame DEF StartEnqueueFails
<1>9. ASSUME NEW h \in Handlers, StartOrphaned(h) PROVE TranscribingIsDriven'
  BY <1>9, TranscribingFrame DEF StartOrphaned
<1>10. ASSUME NEW h \in Handlers, RegenerateCommit(h) PROVE TranscribingIsDriven'
  BY <1>10, TranscribingFrame DEF RegenerateCommit
<1>11. ASSUME NEW h \in Handlers, RegenerateEnqueue(h) PROVE TranscribingIsDriven'
  BY <1>11, TranscribingFrame DEF RegenerateEnqueue
<1>12. ASSUME NEW h \in Handlers, RegenerateEnqueueFails(h) PROVE TranscribingIsDriven'
  BY <1>12, TranscribingFrame DEF RegenerateEnqueueFails
<1>13. ASSUME NEW h \in Handlers, RegenerateOrphaned(h) PROVE TranscribingIsDriven'
  BY <1>13, TranscribingFrame DEF RegenerateOrphaned
<1>14. ASSUME NEW h \in Handlers, DeleteClipCommit(h) PROVE TranscribingIsDriven'
  BY <1>14, TranscribingFrame DEF DeleteClipCommit
<1>15. ASSUME NEW h \in Handlers, DeleteProjectCommit(h) PROVE TranscribingIsDriven'
  BY <1>15, TranscribingFrame DEF DeleteProjectCommit
<1>16. ASSUME NEW t \in Tasks, TranscribeStart(t) PROVE TranscribingIsDriven'
  BY <1>16, TranscribingFrame DEF TranscribeStart
<1>17. ASSUME NEW t \in Tasks, Ingest(t) PROVE TranscribingIsDriven'
  BY <1>17, TranscribingFrame DEF Ingest
<1>18. ASSUME NEW t \in Tasks, Transcribed(t) PROVE TranscribingIsDriven'
  BY <1>18, TranscribingFrame DEF Transcribed
<1>19. ASSUME NEW t \in Tasks, Chain(t) PROVE TranscribingIsDriven'
  BY <1>19, TranscribingFrame DEF Chain
<1>20. ASSUME NEW t \in Tasks, DetectStart(t) PROVE TranscribingIsDriven'
  BY <1>20, TranscribingFrame DEF DetectStart
<1>21. ASSUME NEW t \in Tasks, NoCandidates(t) PROVE TranscribingIsDriven'
  BY <1>21, TranscribingFrame DEF NoCandidates
<1>22. ASSUME NEW t \in Tasks, Close(t) PROVE TranscribingIsDriven'
  BY <1>22, TranscribingFrame DEF Close
<1>23. ASSUME NEW t \in Tasks, CreateClips(t) PROVE TranscribingIsDriven'
  BY <1>23, TranscribingFrame DEF CreateClips
<1>24. ASSUME NEW t \in Tasks, FanOut(t) PROVE TranscribingIsDriven'
  BY <1>24, TranscribingFrame DEF FanOut
<1>25. ASSUME NEW t \in Tasks, Raise(t) PROVE TranscribingIsDriven'
  BY <1>25, TranscribingFrame DEF Raise
<1>26. ASSUME NEW t \in Tasks, FailJob(t) PROVE TranscribingIsDriven'
  BY <1>26, TranscribingFrame DEF FailJob
<1>27. ASSUME NEW t \in Tasks, FailProject(t) PROVE TranscribingIsDriven'
  BY <1>27, TranscribingFrame DEF FailProject
<1>28. ASSUME NEW t \in Tasks, ProjectGone(t) PROVE TranscribingIsDriven'
  BY <1>28, TranscribingFrame DEF ProjectGone
<1>29. ASSUME NEW t \in Tasks, RenderClipGone(t) PROVE TranscribingIsDriven'
  BY <1>29, TranscribingFrame DEF RenderClipGone
<1>30. ASSUME NEW t \in Tasks, RenderStart(t) PROVE TranscribingIsDriven'
  BY <1>30, TranscribingFrame DEF RenderStart
<1>31. ASSUME NEW t \in Tasks, EncodeBegins(t) PROVE TranscribingIsDriven'
  BY <1>31, TranscribingFrame DEF EncodeBegins
<1>32. ASSUME NEW t \in Tasks, EncodeEnds(t) PROVE TranscribingIsDriven'
  BY <1>32, TranscribingFrame DEF EncodeEnds
<1>33. ASSUME NEW t \in Tasks, Publish(t) PROVE TranscribingIsDriven'
  BY <1>33, TranscribingFrame DEF Publish
<1>34. ASSUME NEW t \in Tasks, PublishRaises(t) PROVE TranscribingIsDriven'
  BY <1>34, TranscribingFrame DEF PublishRaises
<1>35. ASSUME NEW t \in Tasks, FailClip(t) PROVE TranscribingIsDriven'
  BY <1>35, TranscribingFrame DEF FailClip
<1>36. ASSUME NEW t \in Tasks, TallyStops(t) PROVE TranscribingIsDriven'
  BY <1>36, TranscribingFrame DEF TallyStops
<1>37. ASSUME NEW t \in Tasks, Tally(t) PROVE TranscribingIsDriven'
  BY <1>37, TranscribingFrame DEF Tally
<1>38. ASSUME NEW t \in Tasks, CheckStops(t) PROVE TranscribingIsDriven'
  BY <1>38, TranscribingFrame DEF CheckStops
<1>39. ASSUME NEW t \in Tasks, Check(t) PROVE TranscribingIsDriven'
  BY <1>39, TranscribingFrame DEF Check
<1>40. ASSUME NEW t \in Tasks, FinalizeReady(t) PROVE TranscribingIsDriven'
  BY <1>40, TranscribingFrame DEF FinalizeReady
<1>41. ASSUME NEW t \in Tasks, FinalizeFailed(t) PROVE TranscribingIsDriven'
  BY <1>41, TranscribingFrame DEF FinalizeFailed
<1>42. ASSUME NEW t \in Tasks, BillStops(t) PROVE TranscribingIsDriven'
  BY <1>42, TranscribingFrame DEF BillStops
<1>43. ASSUME NEW t \in Tasks, Bill(t) PROVE TranscribingIsDriven'
  BY <1>43, TranscribingFrame DEF Bill
<1>44. ASSUME NEW t \in Tasks, Record(t) PROVE TranscribingIsDriven'
  BY <1>44, TranscribingFrame DEF Record
<1>45. ASSUME NEW t \in Tasks, FinalizeGone(t) PROVE TranscribingIsDriven'
  BY <1>45, TranscribingFrame DEF FinalizeGone
<1>46. ASSUME NEW t \in Tasks, Redeliver(t) PROVE TranscribingIsDriven'
  BY <1>46, TranscribingFrame DEF Redeliver
<1>47. ASSUME NEW t \in Tasks, WorkerLost(t) PROVE TranscribingIsDriven'
  <2> USE <1>47 DEF WorkerLost
  <2>1. \A p \in Projects : Transcribes(t, p) => Transcribes(t, p)' BY DEF Original
  <2> QED BY <2>1, TranscribingFrame
<1>48. ASSUME NEW t \in Tasks, ChildLost(t) PROVE TranscribingIsDriven'
  BY <1>48, TranscribingFrame DEF ChildLost
<1>49. CASE UNCHANGED vars BY <1>49, TranscribingFrame DEF vars
<1> QED BY <1>1, <1>2, <1>3, <1>4, <1>5, <1>6, <1>7, <1>8, <1>9, <1>10, <1>11, <1>12, <1>13,
         <1>14, <1>15, <1>16, <1>17, <1>18, <1>19, <1>20, <1>21, <1>22, <1>23, <1>24, <1>25,
         <1>26, <1>27, <1>28, <1>29, <1>30, <1>31, <1>32, <1>33, <1>34, <1>35, <1>36, <1>37,
         <1>38, <1>39, <1>40, <1>41, <1>42, <1>43, <1>44, <1>45, <1>46, <1>47, <1>48, <1>49
     DEF Next, NewRequest, HandlerStep, TaskStep, PipelineStep, RenderStep, FinalizeStep,
         Environment, AtRest

\* No step but the loss of a pool process takes the render of a rendering clip without
\* a new status or a new delivery.
LEMMA RenderingStep ==
    ASSUME "childLost" \notin Faults
    PROVE  TypeOK /\ RenderingIsDriven /\ [Next]_vars => RenderingIsDriven'
<1> SUFFICES ASSUME TypeOK, RenderingIsDriven, [Next]_vars PROVE RenderingIsDriven' OBVIOUS
<1> USE MessagesTyped, Rows DEF TypeOK, RowsOK, TasksOK, Renders, Unsettled, HasRow, Row
<1> USE DEF rows, tasks, locals, At, Sent, Goto, End, Deliver, FreeTasks, Abandon, Fault, Marked
<1>1. ASSUME NEW p \in Projects, CreateProject(p) PROVE RenderingIsDriven'
  BY <1>1, RenderingFrame DEF CreateProject
<1>2. ASSUME NEW h \in Handlers, NEW p \in Projects, StartLock(h, p) PROVE RenderingIsDriven'
  BY <1>2, RenderingFrame DEF StartLock
<1>3. ASSUME NEW h \in Handlers, NEW p \in Projects, DeleteProjectMedia(h, p) PROVE RenderingIsDriven'
  BY <1>3, RenderingFrame DEF DeleteProjectMedia
<1>4. ASSUME NEW h \in Handlers, NEW c \in Clips, RegenerateLock(h, c) PROVE RenderingIsDriven'
  BY <1>4, RenderingFrame DEF RegenerateLock
<1>5. ASSUME NEW h \in Handlers, NEW c \in Clips, DeleteClipMedia(h, c) PROVE RenderingIsDriven'
  BY <1>5, RenderingFrame DEF DeleteClipMedia
<1>6. ASSUME NEW h \in Handlers, StartCommit(h) PROVE RenderingIsDriven'
  BY <1>6, RenderingFrame DEF StartCommit, ClipsOf
<1>7. ASSUME NEW h \in Handlers, StartEnqueue(h) PROVE RenderingIsDriven'
  BY <1>7, RenderingFrame DEF StartEnqueue
<1>8. ASSUME NEW h \in Handlers, StartEnqueueFails(h) PROVE RenderingIsDriven'
  BY <1>8, RenderingFrame DEF StartEnqueueFails
<1>9. ASSUME NEW h \in Handlers, StartOrphaned(h) PROVE RenderingIsDriven'
  BY <1>9, RenderingFrame DEF StartOrphaned
<1>10. ASSUME NEW h \in Handlers, RegenerateCommit(h) PROVE RenderingIsDriven'
  BY <1>10, RenderingFrame DEF RegenerateCommit
<1>11. ASSUME NEW h \in Handlers, RegenerateEnqueue(h) PROVE RenderingIsDriven'
  BY <1>11, RenderingFrame DEF RegenerateEnqueue
<1>12. ASSUME NEW h \in Handlers, RegenerateEnqueueFails(h) PROVE RenderingIsDriven'
  BY <1>12, RenderingFrame DEF RegenerateEnqueueFails
<1>13. ASSUME NEW h \in Handlers, RegenerateOrphaned(h) PROVE RenderingIsDriven'
  BY <1>13, RenderingFrame DEF RegenerateOrphaned
<1>14. ASSUME NEW h \in Handlers, DeleteClipCommit(h) PROVE RenderingIsDriven'
  BY <1>14, RenderingFrame DEF DeleteClipCommit
<1>15. ASSUME NEW h \in Handlers, DeleteProjectCommit(h) PROVE RenderingIsDriven'
  BY <1>15, RenderingFrame DEF DeleteProjectCommit, ClipsOf
<1>16. ASSUME NEW t \in Tasks, TranscribeStart(t) PROVE RenderingIsDriven'
  BY <1>16, RenderingFrame DEF TranscribeStart
<1>17. ASSUME NEW t \in Tasks, Ingest(t) PROVE RenderingIsDriven'
  BY <1>17, RenderingFrame DEF Ingest
<1>18. ASSUME NEW t \in Tasks, Transcribed(t) PROVE RenderingIsDriven'
  BY <1>18, RenderingFrame DEF Transcribed
<1>19. ASSUME NEW t \in Tasks, Chain(t) PROVE RenderingIsDriven'
  BY <1>19, RenderingFrame DEF Chain
<1>20. ASSUME NEW t \in Tasks, DetectStart(t) PROVE RenderingIsDriven'
  BY <1>20, RenderingFrame DEF DetectStart
<1>21. ASSUME NEW t \in Tasks, NoCandidates(t) PROVE RenderingIsDriven'
  BY <1>21, RenderingFrame DEF NoCandidates
<1>22. ASSUME NEW t \in Tasks, Close(t) PROVE RenderingIsDriven'
  BY <1>22, RenderingFrame DEF Close
<1>23. ASSUME NEW t \in Tasks, CreateClips(t) PROVE RenderingIsDriven'
  BY <1>23, RenderingFrame DEF CreateClips, FreshClips
<1>24. ASSUME NEW t \in Tasks, FanOut(t) PROVE RenderingIsDriven'
  BY <1>24, RenderingFrame DEF FanOut
<1>25. ASSUME NEW t \in Tasks, Raise(t) PROVE RenderingIsDriven'
  BY <1>25, RenderingFrame DEF Raise
<1>26. ASSUME NEW t \in Tasks, FailJob(t) PROVE RenderingIsDriven'
  BY <1>26, RenderingFrame DEF FailJob
<1>27. ASSUME NEW t \in Tasks, FailProject(t) PROVE RenderingIsDriven'
  BY <1>27, RenderingFrame DEF FailProject
<1>28. ASSUME NEW t \in Tasks, ProjectGone(t) PROVE RenderingIsDriven'
  BY <1>28, RenderingFrame DEF ProjectGone
<1>29. ASSUME NEW t \in Tasks, RenderClipGone(t) PROVE RenderingIsDriven'
  BY <1>29, RenderingFrame DEF RenderClipGone
<1>30. ASSUME NEW t \in Tasks, RenderStart(t) PROVE RenderingIsDriven'
  BY <1>30, RenderingFrame, SMTT(30) DEF RenderStart
<1>31. ASSUME NEW t \in Tasks, EncodeBegins(t) PROVE RenderingIsDriven'
  BY <1>31, RenderingFrame DEF EncodeBegins
<1>32. ASSUME NEW t \in Tasks, EncodeEnds(t) PROVE RenderingIsDriven'
  BY <1>32, RenderingFrame DEF EncodeEnds
<1>33. ASSUME NEW t \in Tasks, Publish(t) PROVE RenderingIsDriven'
  BY <1>33, RenderingFrame DEF Publish
<1>34. ASSUME NEW t \in Tasks, PublishRaises(t) PROVE RenderingIsDriven'
  BY <1>34, RenderingFrame DEF PublishRaises
<1>35. ASSUME NEW t \in Tasks, FailClip(t) PROVE RenderingIsDriven'
  BY <1>35, RenderingFrame DEF FailClip
<1>36. ASSUME NEW t \in Tasks, TallyStops(t) PROVE RenderingIsDriven'
  BY <1>36, RenderingFrame DEF TallyStops
<1>37. ASSUME NEW t \in Tasks, Tally(t) PROVE RenderingIsDriven'
  BY <1>37, RenderingFrame DEF Tally
<1>38. ASSUME NEW t \in Tasks, CheckStops(t) PROVE RenderingIsDriven'
  BY <1>38, RenderingFrame DEF CheckStops
<1>39. ASSUME NEW t \in Tasks, Check(t) PROVE RenderingIsDriven'
  BY <1>39, RenderingFrame DEF Check
<1>40. ASSUME NEW t \in Tasks, FinalizeReady(t) PROVE RenderingIsDriven'
  BY <1>40, RenderingFrame DEF FinalizeReady
<1>41. ASSUME NEW t \in Tasks, FinalizeFailed(t) PROVE RenderingIsDriven'
  BY <1>41, RenderingFrame DEF FinalizeFailed
<1>42. ASSUME NEW t \in Tasks, BillStops(t) PROVE RenderingIsDriven'
  BY <1>42, RenderingFrame DEF BillStops
<1>43. ASSUME NEW t \in Tasks, Bill(t) PROVE RenderingIsDriven'
  BY <1>43, RenderingFrame DEF Bill
<1>44. ASSUME NEW t \in Tasks, Record(t) PROVE RenderingIsDriven'
  BY <1>44, RenderingFrame DEF Record
<1>45. ASSUME NEW t \in Tasks, FinalizeGone(t) PROVE RenderingIsDriven'
  BY <1>45, RenderingFrame DEF FinalizeGone
<1>46. ASSUME NEW t \in Tasks, Redeliver(t) PROVE RenderingIsDriven'
  BY <1>46, RenderingFrame DEF Redeliver, Original
<1>47. ASSUME NEW t \in Tasks, WorkerLost(t) PROVE RenderingIsDriven'
  BY <1>47, RenderingFrame DEF WorkerLost, Original
<1>48. ASSUME NEW t \in Tasks, ChildLost(t) PROVE RenderingIsDriven'
  BY <1>48, RenderingFrame DEF ChildLost
<1>49. CASE UNCHANGED vars BY <1>49, RenderingFrame DEF vars
<1> QED BY <1>1, <1>2, <1>3, <1>4, <1>5, <1>6, <1>7, <1>8, <1>9, <1>10, <1>11, <1>12, <1>13,
         <1>14, <1>15, <1>16, <1>17, <1>18, <1>19, <1>20, <1>21, <1>22, <1>23, <1>24, <1>25,
         <1>26, <1>27, <1>28, <1>29, <1>30, <1>31, <1>32, <1>33, <1>34, <1>35, <1>36, <1>37,
         <1>38, <1>39, <1>40, <1>41, <1>42, <1>43, <1>44, <1>45, <1>46, <1>47, <1>48, <1>49
     DEF Next, NewRequest, HandlerStep, TaskStep, PipelineStep, RenderStep, FinalizeStep,
         Environment, AtRest

\* As long as no pool process is killed alone, a transcribing project has a request about
\* to enqueue its run or a transcribe task that will write its outcome: through broker
\* failures, redelivery, lost workers and any number of concurrent requests.
THEOREM TranscribingDriven ==
    ASSUME "childLost" \notin Faults
    PROVE  Spec => []TranscribingIsDriven
<1>1. Init => TypeOK /\ TranscribingIsDriven BY TypeInit DEF Init, TranscribingIsDriven
<1>2. TypeOK /\ TranscribingIsDriven /\ [Next]_vars => (TypeOK /\ TranscribingIsDriven)'
  BY TypeStep, TranscribingStep
<1> QED BY <1>1, <1>2, PTL DEF Spec

\* Under the same condition a rendering clip has a render that will write its outcome,
\* so it can always be finished, and then regenerated.
THEOREM RenderingDriven ==
    ASSUME "childLost" \notin Faults
    PROVE  Spec => []RenderingIsDriven
<1>1. Init => TypeOK /\ RenderingIsDriven BY TypeInit, Rows DEF Init, RenderingIsDriven
<1>2. TypeOK /\ RenderingIsDriven /\ [Next]_vars => (TypeOK /\ RenderingIsDriven)'
  BY TypeStep, RenderingStep
<1> QED BY <1>1, <1>2, PTL DEF Spec

-----------------------------------------------------------------------------
\* What tasks leave behind.

Bills(t, p) == task[t].project = p /\ pc[t] \in {"bill", "record"}

\* A step that shows no project ready, and takes no usage or finalizer from a ready one,
\* without a new finalizer or usage row in its place.
LEMMA BillingFrame ==
    ASSUME ReadyIsBilled,
           \A p \in Projects : status'[p] = "ready" =>
               \/ status[p] = "ready" /\ (usage[p] > 0 => usage'[p] > 0)
               \/ usage'[p] > 0 \/ \E t \in Tasks : Bills(t, p)',
           \A p \in Projects : \A t \in Tasks : Bills(t, p) =>
               Bills(t, p)' \/ status'[p] # "ready" \/ usage'[p] > 0
    PROVE  ReadyIsBilled'
BY DEF ReadyIsBilled, Bills

\* No step but the loss of a worker or of a pool process leaves a ready project unbilled.
LEMMA BillingStep ==
    ASSUME {"workerLost", "childLost"} \cap Faults = {}
    PROVE  TypeOK /\ ReadyIsBilled /\ [Next]_vars => ReadyIsBilled'
<1> SUFFICES ASSUME TypeOK, ReadyIsBilled, [Next]_vars PROVE ReadyIsBilled' OBVIOUS
<1> USE MessagesTyped DEF TypeOK, RowsOK, TasksOK, Bills, Exists
<1> USE DEF rows, tasks, locals, At, Sent, Goto, End, Deliver, FreeTasks, Abandon, Fault
<1>1. ASSUME NEW p \in Projects, CreateProject(p) PROVE ReadyIsBilled'
  BY <1>1, BillingFrame DEF CreateProject
<1>2. ASSUME NEW h \in Handlers, NEW p \in Projects, StartLock(h, p) PROVE ReadyIsBilled'
  BY <1>2, BillingFrame DEF StartLock
<1>3. ASSUME NEW h \in Handlers, NEW p \in Projects, DeleteProjectMedia(h, p) PROVE ReadyIsBilled'
  BY <1>3, BillingFrame DEF DeleteProjectMedia
<1>4. ASSUME NEW h \in Handlers, NEW c \in Clips, RegenerateLock(h, c) PROVE ReadyIsBilled'
  BY <1>4, BillingFrame DEF RegenerateLock
<1>5. ASSUME NEW h \in Handlers, NEW c \in Clips, DeleteClipMedia(h, c) PROVE ReadyIsBilled'
  BY <1>5, BillingFrame DEF DeleteClipMedia
<1>6. ASSUME NEW h \in Handlers, StartCommit(h) PROVE ReadyIsBilled'
  BY <1>6, BillingFrame DEF StartCommit
<1>7. ASSUME NEW h \in Handlers, StartEnqueue(h) PROVE ReadyIsBilled'
  BY <1>7, BillingFrame DEF StartEnqueue
<1>8. ASSUME NEW h \in Handlers, StartEnqueueFails(h) PROVE ReadyIsBilled'
  BY <1>8, BillingFrame DEF StartEnqueueFails
<1>9. ASSUME NEW h \in Handlers, StartOrphaned(h) PROVE ReadyIsBilled'
  BY <1>9, BillingFrame DEF StartOrphaned
<1>10. ASSUME NEW h \in Handlers, RegenerateCommit(h) PROVE ReadyIsBilled'
  BY <1>10, BillingFrame DEF RegenerateCommit
<1>11. ASSUME NEW h \in Handlers, RegenerateEnqueue(h) PROVE ReadyIsBilled'
  BY <1>11, BillingFrame DEF RegenerateEnqueue
<1>12. ASSUME NEW h \in Handlers, RegenerateEnqueueFails(h) PROVE ReadyIsBilled'
  BY <1>12, BillingFrame DEF RegenerateEnqueueFails
<1>13. ASSUME NEW h \in Handlers, RegenerateOrphaned(h) PROVE ReadyIsBilled'
  BY <1>13, BillingFrame DEF RegenerateOrphaned
<1>14. ASSUME NEW h \in Handlers, DeleteClipCommit(h) PROVE ReadyIsBilled'
  BY <1>14, BillingFrame DEF DeleteClipCommit
<1>15. ASSUME NEW h \in Handlers, DeleteProjectCommit(h) PROVE ReadyIsBilled'
  BY <1>15, BillingFrame DEF DeleteProjectCommit
<1>16. ASSUME NEW t \in Tasks, TranscribeStart(t) PROVE ReadyIsBilled'
  BY <1>16, BillingFrame DEF TranscribeStart
<1>17. ASSUME NEW t \in Tasks, Ingest(t) PROVE ReadyIsBilled'
  BY <1>17, BillingFrame DEF Ingest
<1>18. ASSUME NEW t \in Tasks, Transcribed(t) PROVE ReadyIsBilled'
  BY <1>18, BillingFrame DEF Transcribed
<1>19. ASSUME NEW t \in Tasks, Chain(t) PROVE ReadyIsBilled'
  BY <1>19, BillingFrame DEF Chain
<1>20. ASSUME NEW t \in Tasks, DetectStart(t) PROVE ReadyIsBilled'
  BY <1>20, BillingFrame DEF DetectStart
<1>21. ASSUME NEW t \in Tasks, NoCandidates(t) PROVE ReadyIsBilled'
  BY <1>21, BillingFrame DEF NoCandidates
<1>22. ASSUME NEW t \in Tasks, Close(t) PROVE ReadyIsBilled'
  BY <1>22, BillingFrame DEF Close
<1>23. ASSUME NEW t \in Tasks, CreateClips(t) PROVE ReadyIsBilled'
  BY <1>23, BillingFrame DEF CreateClips
<1>24. ASSUME NEW t \in Tasks, FanOut(t) PROVE ReadyIsBilled'
  BY <1>24, BillingFrame DEF FanOut
<1>25. ASSUME NEW t \in Tasks, Raise(t) PROVE ReadyIsBilled'
  BY <1>25, BillingFrame DEF Raise
<1>26. ASSUME NEW t \in Tasks, FailJob(t) PROVE ReadyIsBilled'
  BY <1>26, BillingFrame DEF FailJob
<1>27. ASSUME NEW t \in Tasks, FailProject(t) PROVE ReadyIsBilled'
  BY <1>27, BillingFrame DEF FailProject
<1>28. ASSUME NEW t \in Tasks, ProjectGone(t) PROVE ReadyIsBilled'
  BY <1>28, BillingFrame DEF ProjectGone
<1>29. ASSUME NEW t \in Tasks, RenderClipGone(t) PROVE ReadyIsBilled'
  BY <1>29, BillingFrame DEF RenderClipGone
<1>30. ASSUME NEW t \in Tasks, RenderStart(t) PROVE ReadyIsBilled'
  BY <1>30, BillingFrame DEF RenderStart
<1>31. ASSUME NEW t \in Tasks, EncodeBegins(t) PROVE ReadyIsBilled'
  BY <1>31, BillingFrame DEF EncodeBegins
<1>32. ASSUME NEW t \in Tasks, EncodeEnds(t) PROVE ReadyIsBilled'
  BY <1>32, BillingFrame DEF EncodeEnds
<1>33. ASSUME NEW t \in Tasks, Publish(t) PROVE ReadyIsBilled'
  BY <1>33, BillingFrame DEF Publish
<1>34. ASSUME NEW t \in Tasks, PublishRaises(t) PROVE ReadyIsBilled'
  BY <1>34, BillingFrame DEF PublishRaises
<1>35. ASSUME NEW t \in Tasks, FailClip(t) PROVE ReadyIsBilled'
  BY <1>35, BillingFrame DEF FailClip
<1>36. ASSUME NEW t \in Tasks, TallyStops(t) PROVE ReadyIsBilled'
  BY <1>36, BillingFrame DEF TallyStops
<1>37. ASSUME NEW t \in Tasks, Tally(t) PROVE ReadyIsBilled'
  BY <1>37, BillingFrame DEF Tally
<1>38. ASSUME NEW t \in Tasks, CheckStops(t) PROVE ReadyIsBilled'
  BY <1>38, BillingFrame DEF CheckStops
<1>39. ASSUME NEW t \in Tasks, Check(t) PROVE ReadyIsBilled'
  BY <1>39, BillingFrame DEF Check
<1>40. ASSUME NEW t \in Tasks, FinalizeReady(t) PROVE ReadyIsBilled'
  BY <1>40, BillingFrame DEF FinalizeReady
<1>41. ASSUME NEW t \in Tasks, FinalizeFailed(t) PROVE ReadyIsBilled'
  BY <1>41, BillingFrame DEF FinalizeFailed
<1>42. ASSUME NEW t \in Tasks, BillStops(t) PROVE ReadyIsBilled'
  BY <1>42, BillingFrame DEF BillStops
<1>43. ASSUME NEW t \in Tasks, Bill(t) PROVE ReadyIsBilled'
  BY <1>43, BillingFrame DEF Bill
<1>44. ASSUME NEW t \in Tasks, Record(t) PROVE ReadyIsBilled'
  BY <1>44, BillingFrame DEF Record
<1>45. ASSUME NEW t \in Tasks, FinalizeGone(t) PROVE ReadyIsBilled'
  BY <1>45, BillingFrame DEF FinalizeGone
<1>46. ASSUME NEW t \in Tasks, Redeliver(t) PROVE ReadyIsBilled'
  BY <1>46, BillingFrame DEF Redeliver
<1>47. ASSUME NEW t \in Tasks, WorkerLost(t) PROVE ReadyIsBilled'
  BY <1>47, BillingFrame DEF WorkerLost
<1>48. ASSUME NEW t \in Tasks, ChildLost(t) PROVE ReadyIsBilled'
  BY <1>48, BillingFrame DEF ChildLost
<1>49. CASE UNCHANGED vars BY <1>49, BillingFrame DEF vars
<1> QED BY <1>1, <1>2, <1>3, <1>4, <1>5, <1>6, <1>7, <1>8, <1>9, <1>10, <1>11, <1>12, <1>13,
         <1>14, <1>15, <1>16, <1>17, <1>18, <1>19, <1>20, <1>21, <1>22, <1>23, <1>24, <1>25,
         <1>26, <1>27, <1>28, <1>29, <1>30, <1>31, <1>32, <1>33, <1>34, <1>35, <1>36, <1>37,
         <1>38, <1>39, <1>40, <1>41, <1>42, <1>43, <1>44, <1>45, <1>46, <1>47, <1>48, <1>49
     DEF Next, NewRequest, HandlerStep, TaskStep, PipelineStep, RenderStep, FinalizeStep,
         Environment, AtRest

\* What NoRunningJobLeftBehind rests on.  A job row is running only while its task is at
\* work on it, and not when the row has gone with its project.
JobInv == \A t \in Tasks :
    /\ job[t] = "running" => pc[t] \in {"ingest", "asr", "detect", "encode", "encoding",
                                       "publish", "failJob"}
    /\ task[t].kind \in {"transcribe", "detect"} /\ job[t] = "running" => Exists(task[t].project)

\* Every step keeps job rows and tasks in line.
LEMMA JobStep == TypeOK /\ JobInv /\ [Next]_vars => JobInv'
<1> SUFFICES ASSUME TypeOK, JobInv, [Next]_vars PROVE JobInv' OBVIOUS
<1> USE MessagesTyped DEF TypeOK, RowsOK, TasksOK, JobInv, Exists
<1> USE DEF rows, tasks, locals, At, Sent, Goto, End, Deliver, FreeTasks, Abandon, Fault
<1>1. ASSUME NEW p \in Projects, CreateProject(p) PROVE JobInv'
  BY <1>1 DEF CreateProject, FreshProjects
<1>2. ASSUME NEW h \in Handlers, NEW p \in Projects, StartLock(h, p) PROVE JobInv'
  BY <1>2 DEF StartLock
<1>3. ASSUME NEW h \in Handlers, NEW p \in Projects, DeleteProjectMedia(h, p) PROVE JobInv'
  BY <1>3 DEF DeleteProjectMedia
<1>4. ASSUME NEW h \in Handlers, NEW c \in Clips, RegenerateLock(h, c) PROVE JobInv'
  BY <1>4 DEF RegenerateLock
<1>5. ASSUME NEW h \in Handlers, NEW c \in Clips, DeleteClipMedia(h, c) PROVE JobInv'
  BY <1>5 DEF DeleteClipMedia
<1>6. ASSUME NEW h \in Handlers, StartCommit(h) PROVE JobInv'
  BY <1>6 DEF StartCommit
<1>7. ASSUME NEW h \in Handlers, StartEnqueue(h) PROVE JobInv'
  BY <1>7 DEF StartEnqueue
<1>8. ASSUME NEW h \in Handlers, StartEnqueueFails(h) PROVE JobInv'
  BY <1>8 DEF StartEnqueueFails
<1>9. ASSUME NEW h \in Handlers, StartOrphaned(h) PROVE JobInv'
  BY <1>9 DEF StartOrphaned
<1>10. ASSUME NEW h \in Handlers, RegenerateCommit(h) PROVE JobInv'
  BY <1>10 DEF RegenerateCommit
<1>11. ASSUME NEW h \in Handlers, RegenerateEnqueue(h) PROVE JobInv'
  BY <1>11 DEF RegenerateEnqueue
<1>12. ASSUME NEW h \in Handlers, RegenerateEnqueueFails(h) PROVE JobInv'
  BY <1>12 DEF RegenerateEnqueueFails
<1>13. ASSUME NEW h \in Handlers, RegenerateOrphaned(h) PROVE JobInv'
  BY <1>13 DEF RegenerateOrphaned
<1>14. ASSUME NEW h \in Handlers, DeleteClipCommit(h) PROVE JobInv'
  BY <1>14 DEF DeleteClipCommit
<1>15. ASSUME NEW h \in Handlers, DeleteProjectCommit(h) PROVE JobInv'
  BY <1>15 DEF DeleteProjectCommit
<1>16. ASSUME NEW t \in Tasks, TranscribeStart(t) PROVE JobInv'
  BY <1>16 DEF TranscribeStart
<1>17. ASSUME NEW t \in Tasks, Ingest(t) PROVE JobInv'
  BY <1>17 DEF Ingest
<1>18. ASSUME NEW t \in Tasks, Transcribed(t) PROVE JobInv'
  BY <1>18 DEF Transcribed
<1>19. ASSUME NEW t \in Tasks, Chain(t) PROVE JobInv'
  BY <1>19 DEF Chain
<1>20. ASSUME NEW t \in Tasks, DetectStart(t) PROVE JobInv'
  BY <1>20 DEF DetectStart
<1>21. ASSUME NEW t \in Tasks, NoCandidates(t) PROVE JobInv'
  BY <1>21 DEF NoCandidates
<1>22. ASSUME NEW t \in Tasks, Close(t) PROVE JobInv'
  BY <1>22 DEF Close
<1>23. ASSUME NEW t \in Tasks, CreateClips(t) PROVE JobInv'
  BY <1>23 DEF CreateClips
<1>24. ASSUME NEW t \in Tasks, FanOut(t) PROVE JobInv'
  BY <1>24 DEF FanOut
<1>25. ASSUME NEW t \in Tasks, Raise(t) PROVE JobInv'
  BY <1>25 DEF Raise
<1>26. ASSUME NEW t \in Tasks, FailJob(t) PROVE JobInv'
  BY <1>26 DEF FailJob
<1>27. ASSUME NEW t \in Tasks, FailProject(t) PROVE JobInv'
  BY <1>27 DEF FailProject
<1>28. ASSUME NEW t \in Tasks, ProjectGone(t) PROVE JobInv'
  BY <1>28 DEF ProjectGone
<1>29. ASSUME NEW t \in Tasks, RenderClipGone(t) PROVE JobInv'
  BY <1>29 DEF RenderClipGone
<1>30. ASSUME NEW t \in Tasks, RenderStart(t) PROVE JobInv'
  BY <1>30 DEF RenderStart
<1>31. ASSUME NEW t \in Tasks, EncodeBegins(t) PROVE JobInv'
  BY <1>31 DEF EncodeBegins
<1>32. ASSUME NEW t \in Tasks, EncodeEnds(t) PROVE JobInv'
  BY <1>32 DEF EncodeEnds
<1>33. ASSUME NEW t \in Tasks, Publish(t) PROVE JobInv'
  BY <1>33 DEF Publish
<1>34. ASSUME NEW t \in Tasks, PublishRaises(t) PROVE JobInv'
  BY <1>34 DEF PublishRaises
<1>35. ASSUME NEW t \in Tasks, FailClip(t) PROVE JobInv'
  BY <1>35 DEF FailClip
<1>36. ASSUME NEW t \in Tasks, TallyStops(t) PROVE JobInv'
  BY <1>36 DEF TallyStops
<1>37. ASSUME NEW t \in Tasks, Tally(t) PROVE JobInv'
  BY <1>37 DEF Tally
<1>38. ASSUME NEW t \in Tasks, CheckStops(t) PROVE JobInv'
  BY <1>38 DEF CheckStops
<1>39. ASSUME NEW t \in Tasks, Check(t) PROVE JobInv'
  BY <1>39 DEF Check
<1>40. ASSUME NEW t \in Tasks, FinalizeReady(t) PROVE JobInv'
  BY <1>40 DEF FinalizeReady
<1>41. ASSUME NEW t \in Tasks, FinalizeFailed(t) PROVE JobInv'
  BY <1>41 DEF FinalizeFailed
<1>42. ASSUME NEW t \in Tasks, BillStops(t) PROVE JobInv'
  BY <1>42 DEF BillStops
<1>43. ASSUME NEW t \in Tasks, Bill(t) PROVE JobInv'
  BY <1>43 DEF Bill
<1>44. ASSUME NEW t \in Tasks, Record(t) PROVE JobInv'
  BY <1>44 DEF Record
<1>45. ASSUME NEW t \in Tasks, FinalizeGone(t) PROVE JobInv'
  BY <1>45 DEF FinalizeGone
<1>46. ASSUME NEW t \in Tasks, Redeliver(t) PROVE JobInv'
  BY <1>46 DEF Redeliver
<1>47. ASSUME NEW t \in Tasks, WorkerLost(t) PROVE JobInv'
  BY <1>47 DEF WorkerLost
<1>48. ASSUME NEW t \in Tasks, ChildLost(t) PROVE JobInv'
  BY <1>48 DEF ChildLost
<1>49. CASE UNCHANGED vars BY <1>49 DEF vars
<1> QED BY <1>1, <1>2, <1>3, <1>4, <1>5, <1>6, <1>7, <1>8, <1>9, <1>10, <1>11, <1>12, <1>13,
         <1>14, <1>15, <1>16, <1>17, <1>18, <1>19, <1>20, <1>21, <1>22, <1>23, <1>24, <1>25,
         <1>26, <1>27, <1>28, <1>29, <1>30, <1>31, <1>32, <1>33, <1>34, <1>35, <1>36, <1>37,
         <1>38, <1>39, <1>40, <1>41, <1>42, <1>43, <1>44, <1>45, <1>46, <1>47, <1>48, <1>49
     DEF Next, NewRequest, HandlerStep, TaskStep, PipelineStep, RenderStep, FinalizeStep,
         Environment, AtRest

\* A task that returns has settled its job row, or the row went with its project.
LEMMA ReturnStep ==
    ASSUME "childLost" \notin Faults
    PROVE  TypeOK /\ JobInv /\ [Next]_vars =>
               \A t \in Tasks : pc[t] # "free" /\ pc'[t] = "free" => job[t] # "running"
<1> SUFFICES ASSUME TypeOK, JobInv, [Next]_vars, NEW u \in Tasks, pc[u] # "free", pc'[u] = "free"
             PROVE  job[u] # "running"
  OBVIOUS
<1> USE MessagesTyped DEF TypeOK, RowsOK, TasksOK, JobInv, Exists
<1> USE DEF rows, tasks, locals, At, Sent, Goto, End, Deliver, FreeTasks, Abandon, Fault
<1>1. ASSUME NEW p \in Projects, CreateProject(p) PROVE job[u] # "running"
  BY <1>1 DEF CreateProject
<1>2. ASSUME NEW h \in Handlers, NEW p \in Projects, StartLock(h, p) PROVE job[u] # "running"
  BY <1>2 DEF StartLock
<1>3. ASSUME NEW h \in Handlers, NEW p \in Projects, DeleteProjectMedia(h, p) PROVE job[u] # "running"
  BY <1>3 DEF DeleteProjectMedia
<1>4. ASSUME NEW h \in Handlers, NEW c \in Clips, RegenerateLock(h, c) PROVE job[u] # "running"
  BY <1>4 DEF RegenerateLock
<1>5. ASSUME NEW h \in Handlers, NEW c \in Clips, DeleteClipMedia(h, c) PROVE job[u] # "running"
  BY <1>5 DEF DeleteClipMedia
<1>6. ASSUME NEW h \in Handlers, StartCommit(h) PROVE job[u] # "running"
  BY <1>6 DEF StartCommit
<1>7. ASSUME NEW h \in Handlers, StartEnqueue(h) PROVE job[u] # "running"
  BY <1>7 DEF StartEnqueue
<1>8. ASSUME NEW h \in Handlers, StartEnqueueFails(h) PROVE job[u] # "running"
  BY <1>8 DEF StartEnqueueFails
<1>9. ASSUME NEW h \in Handlers, StartOrphaned(h) PROVE job[u] # "running"
  BY <1>9 DEF StartOrphaned
<1>10. ASSUME NEW h \in Handlers, RegenerateCommit(h) PROVE job[u] # "running"
  BY <1>10 DEF RegenerateCommit
<1>11. ASSUME NEW h \in Handlers, RegenerateEnqueue(h) PROVE job[u] # "running"
  BY <1>11 DEF RegenerateEnqueue
<1>12. ASSUME NEW h \in Handlers, RegenerateEnqueueFails(h) PROVE job[u] # "running"
  BY <1>12 DEF RegenerateEnqueueFails
<1>13. ASSUME NEW h \in Handlers, RegenerateOrphaned(h) PROVE job[u] # "running"
  BY <1>13 DEF RegenerateOrphaned
<1>14. ASSUME NEW h \in Handlers, DeleteClipCommit(h) PROVE job[u] # "running"
  BY <1>14 DEF DeleteClipCommit
<1>15. ASSUME NEW h \in Handlers, DeleteProjectCommit(h) PROVE job[u] # "running"
  BY <1>15 DEF DeleteProjectCommit
<1>16. ASSUME NEW t \in Tasks, TranscribeStart(t) PROVE job[u] # "running"
  BY <1>16 DEF TranscribeStart
<1>17. ASSUME NEW t \in Tasks, Ingest(t) PROVE job[u] # "running"
  BY <1>17 DEF Ingest
<1>18. ASSUME NEW t \in Tasks, Transcribed(t) PROVE job[u] # "running"
  BY <1>18 DEF Transcribed
<1>19. ASSUME NEW t \in Tasks, Chain(t) PROVE job[u] # "running"
  BY <1>19 DEF Chain
<1>20. ASSUME NEW t \in Tasks, DetectStart(t) PROVE job[u] # "running"
  BY <1>20 DEF DetectStart
<1>21. ASSUME NEW t \in Tasks, NoCandidates(t) PROVE job[u] # "running"
  BY <1>21 DEF NoCandidates
<1>22. ASSUME NEW t \in Tasks, Close(t) PROVE job[u] # "running"
  <2>1. End(t) /\ pc[t] \in {"close", "fanout"} BY <1>22 DEF Close
  <2>2. u = t BY <2>1
  <2> QED BY <2>1, <2>2
<1>23. ASSUME NEW t \in Tasks, CreateClips(t) PROVE job[u] # "running"
  BY <1>23 DEF CreateClips
<1>24. ASSUME NEW t \in Tasks, FanOut(t) PROVE job[u] # "running"
  BY <1>24 DEF FanOut
<1>25. ASSUME NEW t \in Tasks, Raise(t) PROVE job[u] # "running"
  BY <1>25 DEF Raise
<1>26. ASSUME NEW t \in Tasks, FailJob(t) PROVE job[u] # "running"
  BY <1>26 DEF FailJob
<1>27. ASSUME NEW t \in Tasks, FailProject(t) PROVE job[u] # "running"
  <2>1. End(t) /\ pc[t] = "failProject" BY <1>27 DEF FailProject
  <2>2. u = t BY <2>1
  <2> QED BY <2>1, <2>2
<1>28. ASSUME NEW t \in Tasks, ProjectGone(t) PROVE job[u] # "running"
  BY <1>28 DEF ProjectGone
<1>29. ASSUME NEW t \in Tasks, RenderClipGone(t) PROVE job[u] # "running"
  <2>1. End(t) /\ pc[t] = "sent" BY <1>29 DEF RenderClipGone
  <2>2. u = t BY <2>1
  <2> QED BY <2>1, <2>2
<1>30. ASSUME NEW t \in Tasks, RenderStart(t) PROVE job[u] # "running"
  BY <1>30 DEF RenderStart
<1>31. ASSUME NEW t \in Tasks, EncodeBegins(t) PROVE job[u] # "running"
  BY <1>31 DEF EncodeBegins
<1>32. ASSUME NEW t \in Tasks, EncodeEnds(t) PROVE job[u] # "running"
  BY <1>32 DEF EncodeEnds
<1>33. ASSUME NEW t \in Tasks, Publish(t) PROVE job[u] # "running"
  BY <1>33 DEF Publish
<1>34. ASSUME NEW t \in Tasks, PublishRaises(t) PROVE job[u] # "running"
  BY <1>34 DEF PublishRaises
<1>35. ASSUME NEW t \in Tasks, FailClip(t) PROVE job[u] # "running"
  BY <1>35 DEF FailClip
<1>36. ASSUME NEW t \in Tasks, TallyStops(t) PROVE job[u] # "running"
  <2>1. End(t) /\ pc[t] = "tally" BY <1>36 DEF TallyStops
  <2>2. u = t BY <2>1
  <2> QED BY <2>1, <2>2
<1>37. ASSUME NEW t \in Tasks, Tally(t) PROVE job[u] # "running"
  BY <1>37 DEF Tally
<1>38. ASSUME NEW t \in Tasks, CheckStops(t) PROVE job[u] # "running"
  <2>1. End(t) /\ pc[t] = "check" BY <1>38 DEF CheckStops
  <2>2. u = t BY <2>1
  <2> QED BY <2>1, <2>2
<1>39. ASSUME NEW t \in Tasks, Check(t) PROVE job[u] # "running"
  BY <1>39 DEF Check
<1>40. ASSUME NEW t \in Tasks, FinalizeReady(t) PROVE job[u] # "running"
  BY <1>40 DEF FinalizeReady
<1>41. ASSUME NEW t \in Tasks, FinalizeFailed(t) PROVE job[u] # "running"
  <2>1. End(t) /\ pc[t] = "finalize" BY <1>41 DEF FinalizeFailed
  <2>2. u = t BY <2>1
  <2> QED BY <2>1, <2>2
<1>42. ASSUME NEW t \in Tasks, BillStops(t) PROVE job[u] # "running"
  <2>1. End(t) /\ pc[t] = "bill" BY <1>42 DEF BillStops
  <2>2. u = t BY <2>1
  <2> QED BY <2>1, <2>2
<1>43. ASSUME NEW t \in Tasks, Bill(t) PROVE job[u] # "running"
  BY <1>43 DEF Bill
<1>44. ASSUME NEW t \in Tasks, Record(t) PROVE job[u] # "running"
  <2>1. End(t) /\ pc[t] = "record" BY <1>44 DEF Record
  <2>2. u = t BY <2>1
  <2> QED BY <2>1, <2>2
<1>45. ASSUME NEW t \in Tasks, FinalizeGone(t) PROVE job[u] # "running"
  <2>1. End(t) /\ pc[t] \in {"finalize", "bill", "record"} BY <1>45 DEF FinalizeGone
  <2>2. u = t BY <2>1
  <2> QED BY <2>1, <2>2
<1>46. ASSUME NEW t \in Tasks, Redeliver(t) PROVE job[u] # "running"
  BY <1>46 DEF Redeliver
<1>47. ASSUME NEW t \in Tasks, WorkerLost(t) PROVE job[u] # "running"
  BY <1>47 DEF WorkerLost
<1>48. ASSUME NEW t \in Tasks, ChildLost(t) PROVE job[u] # "running"
  BY <1>48 DEF ChildLost
<1>49. CASE UNCHANGED vars BY <1>49 DEF vars
<1> QED BY <1>1, <1>2, <1>3, <1>4, <1>5, <1>6, <1>7, <1>8, <1>9, <1>10, <1>11, <1>12, <1>13,
         <1>14, <1>15, <1>16, <1>17, <1>18, <1>19, <1>20, <1>21, <1>22, <1>23, <1>24, <1>25,
         <1>26, <1>27, <1>28, <1>29, <1>30, <1>31, <1>32, <1>33, <1>34, <1>35, <1>36, <1>37,
         <1>38, <1>39, <1>40, <1>41, <1>42, <1>43, <1>44, <1>45, <1>46, <1>47, <1>48, <1>49
     DEF Next, NewRequest, HandlerStep, TaskStep, PipelineStep, RenderStep, FinalizeStep,
         Environment, AtRest

\* As long as no worker or pool process is lost, a project shown ready has its usage
\* recorded or a finalizer about to record it, whatever users restart, edit or delete.
THEOREM ReadyBilled ==
    ASSUME {"workerLost", "childLost"} \cap Faults = {}
    PROVE  Spec => []ReadyIsBilled
<1>1. Init => TypeOK /\ ReadyIsBilled BY TypeInit DEF Init, ReadyIsBilled
<1>2. TypeOK /\ ReadyIsBilled /\ [Next]_vars => (TypeOK /\ ReadyIsBilled)'
  BY TypeStep, BillingStep
<1> QED BY <1>1, <1>2, PTL DEF Spec

\* As long as no pool process is killed, a task that returns leaves no job row running.
THEOREM JobsSettled ==
    ASSUME "childLost" \notin Faults
    PROVE  Spec => NoRunningJobLeftBehind
<1>1. Init => TypeOK /\ JobInv BY TypeInit DEF Init, JobInv
<1>2. TypeOK /\ JobInv /\ [Next]_vars => (TypeOK /\ JobInv)' BY TypeStep, JobStep
<1>3. TypeOK /\ JobInv /\ [Next]_vars =>
        [\A t \in Tasks : pc[t] # "free" /\ pc'[t] = "free" => job[t] # "running"]_vars
  BY ReturnStep
<1> QED BY <1>1, <1>2, <1>3, PTL DEF Spec, NoRunningJobLeftBehind
====
