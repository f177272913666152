---- MODULE Pipeline ----
(***************************************************************************)
(* The ClipForge run of a project: three kinds of Celery task              *)
(* (transcribe -> detect highlights -> render each clip), the API requests *)
(* that start, edit and delete what those tasks work on, the Postgres rows *)
(* both sides write, and the rendered files on the media volume.           *)
(*                                                                         *)
(* Grain.  A worker or request transaction with no external call inside it *)
(* is one step.  It is cut in two wherever the code reads, then does       *)
(* something slow or takes another snapshot, then writes: ASR, ffmpeg,     *)
(* file deletion, `.delay`, and every query of the finalizer.  Row locks   *)
(* taken with FOR UPDATE are held from the step that takes them to the     *)
(* step that commits; a write they exclude is disabled meanwhile.          *)
(***************************************************************************)
EXTENDS Naturals, FiniteSets

CONSTANTS
    Projects,     \* project ids
    Clips,        \* clip ids
    Windows,      \* what a regenerate request edits: start, end, caption style
    Tasks,        \* slots for Celery messages not yet acknowledged
    Handlers,     \* API requests that may be in progress at once
    TopN,         \* DEFAULT_TOP_N of highlight_service
    UserOps,      \* requests the users of this instance make
    Faults,       \* failures of the environment this instance has
    MaxRequests,  \* bound: requests in a behaviour
    MaxFaults,    \* bound: redeliveries and lost workers in a behaviour
    None          \* no row, no id

AllUserOps == {"start", "regenerate", "deleteClip", "deleteProject"}
AllFaults  == {"broker", "redeliver", "workerLost", "childLost"}

ASSUME TopNAssumption == TopN \in Nat \ {0}
ASSUME BoundsAssumption == MaxRequests \in Nat /\ MaxFaults \in Nat
ASSUME OptionsAssumption == UserOps \subseteq AllUserOps /\ Faults \subseteq AllFaults
ASSUME IdsAssumption ==
    /\ None \notin Projects \cup Clips \cup Windows
    /\ {"absent", "partial", "mixed"} \cap Windows = {}

VARIABLES
    status,    \* projects.status, "absent" when there is no such row
    source,    \* whether projects.source_file_path is set
    usage,     \* number of usage_records rows of the project
    clip,      \* the clips row: status, project, window, video_file_path set
    file,      \* what clip_<id>.mp4 holds: nothing, a window, or garbage
    task,      \* unacknowledged Celery messages: task name, ids it works on
    pc,        \* where the task running that message is
    todo,      \* created_clip_ids still to be enqueued
    loaded,    \* the clip window a render read
    verdict,   \* what a finalizer is going to write
    job,       \* processing_jobs.status of the row the task in that slot made
    handler,   \* API requests in progress
    requests,  \* how many requests were made
    faults     \* how many redeliveries and losses happened

rows == <<status, source, usage, clip>>
locals == <<todo, loaded, verdict>>
tasks == <<task, pc, job, locals>>
vars == <<rows, file, tasks, handler, requests, faults>>

ProjectStatus == {"pending", "transcribing", "analyzing", "ready", "failed"}
\* Mutant: analyzing left out of _ACTIVE_STATUSES.
OnlyTranscribingActive == {"transcribing"}

ActiveStatuses == {"transcribing", "analyzing"}
ClipStatus == {"queued", "rendering", "ready", "failed"}
ActiveClip == {"queued", "rendering"}

Row(s, p, w, stored) == [status |-> s, project |-> p, window |-> w, path |-> stored]
Message(k, p, c) == [kind |-> k, project |-> p, clip |-> c]
Serving(step, p, c) == [pc |-> step, project |-> p, clip |-> c]

NoClip == Row("none", None, None, FALSE)
NoTask == Message("none", None, None)
NoRequest == Serving("idle", None, None)

ClipRows == {NoClip} \cup
    [status : ClipStatus, project : Projects \cup {None}, window : Windows, path : BOOLEAN]
Messages == {NoTask}
    \cup [kind : {"transcribe", "detect"}, project : Projects, clip : {None}]
    \cup [kind : {"render"}, project : Projects \cup {None}, clip : Clips]
HandlerStates == {NoRequest}
    \cup [pc : {"starting", "enqueueRun", "deletingProject"}, project : Projects, clip : {None}]
    \cup [pc : {"regenerating", "enqueueRender", "deletingClip"}, project : {None}, clip : Clips]

\* Where a task of each kind can be.
Steps(kind, at) ==
    \/ kind = "none" /\ at = "free"
    \/ kind = "transcribe" /\ at \in {"sent", "ingest", "asr", "chain", "close",
                                      "failJob", "failProject"}
    \/ kind = "detect" /\ at \in {"sent", "detect", "fanout", "close", "failJob", "failProject"}
    \/ kind = "render" /\ at \in {"sent", "encode", "encoding", "publish", "failJob", "failClip",
                                  "tally", "check", "finalize", "bill", "record"}

TaskPc == {"free", "sent", "ingest", "asr", "chain", "detect", "fanout", "close",
           "failJob", "failProject", "encode", "encoding", "publish", "failClip",
           "tally", "check", "finalize", "bill", "record"}

RowsOK ==
    /\ status \in [Projects -> ProjectStatus \cup {"absent"}]
    /\ source \in [Projects -> BOOLEAN]
    /\ usage \in [Projects -> Nat]
    /\ clip \in [Clips -> ClipRows]
    /\ file \in [Clips -> Windows \cup {"absent", "partial", "mixed"}]

TasksOK ==
    /\ task \in [Tasks -> Messages]
    /\ pc \in [Tasks -> TaskPc]
    /\ \A t \in Tasks : Steps(task[t].kind, pc[t])
    /\ todo \in [Tasks -> SUBSET Clips]
    /\ loaded \in [Tasks -> Windows \cup {None}]
    /\ \A t \in Tasks : pc[t] \in {"encode", "encoding"} => loaded[t] \in Windows
    /\ verdict \in [Tasks -> {"none", "ready", "failed"}]

TypeOK ==
    /\ RowsOK
    /\ TasksOK
    /\ job \in [Tasks -> {"none", "running", "completed", "failed"}]
    /\ handler \in [Handlers -> HandlerStates]
    /\ requests \in 0..MaxRequests
    /\ faults \in 0..MaxFaults

Init ==
    /\ status = [p \in Projects |-> "absent"]
    /\ source = [p \in Projects |-> FALSE]
    /\ usage = [p \in Projects |-> 0]
    /\ clip = [c \in Clips |-> NoClip]
    /\ file = [c \in Clips |-> "absent"]
    /\ task = [t \in Tasks |-> NoTask]
    /\ pc = [t \in Tasks |-> "free"]
    /\ todo = [t \in Tasks |-> {}]
    /\ loaded = [t \in Tasks |-> None]
    /\ verdict = [t \in Tasks |-> "none"]
    /\ job = [t \in Tasks |-> "none"]
    /\ handler = [h \in Handlers |-> NoRequest]
    /\ requests = 0
    /\ faults = 0

----
(* Rows, locks and messages. *)

Exists(p) == status[p] # "absent"
HasRow(c) == clip[c].status # "none"
ClipsOf(p) == {c \in Clips : HasRow(c) /\ clip[c].project = p}

\* Mutants: the queries without with_for_update().
ProjectNotLocked(p) == FALSE
ClipNotLocked(c) == FALSE

\* SELECT ... FOR UPDATE of start_processing, held until its commit.  It blocks
\* every UPDATE of the row and every INSERT whose foreign key names it.
LockedProject(p) == \E h \in Handlers : handler[h].pc = "starting" /\ handler[h].project = p

\* SELECT ... FOR UPDATE of regenerate_clip, held until its commit.
LockedClip(c) == \E h \in Handlers : handler[h].pc = "regenerating" /\ handler[h].clip = c
LockedClips(p) == \E c \in ClipsOf(p) : LockedClip(c)

FreeTasks == {t \in Tasks : pc[t] = "free"}

\* `.delay`: message m waits in slot u.
Deliver(u, m) ==
    /\ task' = [task EXCEPT ![u] = m]
    /\ pc' = [pc EXCEPT ![u] = "sent"]
    /\ UNCHANGED locals

\* Ids are never reused.  A slot whose row, file and messages are all gone cannot
\* be told apart from an id never issued, so it may stand for the next one.
FreshProjects == {p \in Projects : ~Exists(p)
                     /\ (\A t \in Tasks : task[t].project # p)
                     /\ (\A h \in Handlers : handler[h].project # p)}
FreshClips == {c \in Clips : ~HasRow(c) /\ file[c] = "absent"
                     /\ (\A t \in Tasks : task[t].clip # c /\ c \notin todo[t])
                     /\ (\A h \in Handlers : handler[h].clip # c)}

Goto(t, next) == pc' = [pc EXCEPT ![t] = next] /\ UNCHANGED <<task, locals>>

\* The task returns and its message is acknowledged.
End(t) ==
    /\ task' = [task EXCEPT ![t] = NoTask]
    /\ pc' = [pc EXCEPT ![t] = "free"]
    /\ job' = [job EXCEPT ![t] = "none"]
    /\ todo' = [todo EXCEPT ![t] = {}]
    /\ loaded' = [loaded EXCEPT ![t] = None]
    /\ verdict' = [verdict EXCEPT ![t] = "none"]

\* A clip row with another status.
Marked(c, s) == Row(s, clip[c].project, clip[c].window, clip[c].path)

\* A task that found its project gone: the UPDATE or INSERT fails, the job row went
\* with the project, and the exception handler finds nothing left to mark.
Abandon(t) == ~Exists(task[t].project) /\ End(t) /\ UNCHANGED <<rows, file>>

\* delete_clip_media: removes the file of each clip whose row names one.
RemoveMedia(cs) ==
    file' = [c \in Clips |-> IF c \in cs /\ clip[c].path THEN "absent" ELSE file[c]]

----
(* API requests: project_service, clip_service. *)

Request(h, op) ==
    /\ op \in UserOps
    /\ handler[h].pc = "idle"
    /\ requests < MaxRequests
    /\ requests' = requests + 1

Reply(h) == handler' = [handler EXCEPT ![h] = NoRequest]

\* create_project: from an upload the source file is stored already, from a URL not yet.
CreateProject(p) ==
    /\ p \in FreshProjects
    /\ status' = [status EXCEPT ![p] = "pending"]
    /\ \E uploaded \in BOOLEAN : source' = [source EXCEPT ![p] = uploaded]
    /\ UNCHANGED <<usage, clip, file, tasks, handler, requests, faults>>

\* start_processing up to the flush: takes the row lock, refuses an active project,
\* deletes the media of the previous run's clips.
StartLock(h, p) ==
    /\ Request(h, "start")
    /\ Exists(p) /\ ~LockedProject(p)
    /\ status[p] \notin ActiveStatuses
    /\ RemoveMedia(ClipsOf(p))
    /\ handler' = [handler EXCEPT ![h] = Serving("starting", p, None)]
    /\ UNCHANGED <<rows, tasks, faults>>

\* Its commit: the old clips and usage rows are gone and the project is transcribing.
StartCommit(h) ==
    LET p == handler[h].project IN
    /\ handler[h].pc = "starting"
    /\ ~LockedClips(p)
    /\ clip' = [c \in Clips |-> IF c \in ClipsOf(p) THEN NoClip ELSE clip[c]]
    /\ usage' = [usage EXCEPT ![p] = 0]
    /\ status' = [status EXCEPT ![p] = "transcribing"]
    /\ handler' = [handler EXCEPT ![h] = Serving("enqueueRun", p, None)]
    /\ UNCHANGED <<source, file, tasks, requests, faults>>

StartEnqueue(h) ==
    /\ handler[h].pc = "enqueueRun"
    /\ \E t \in FreeTasks :
           Deliver(t, Message("transcribe", handler[h].project, None))
    /\ Reply(h)
    /\ UNCHANGED <<rows, file, job, requests, faults>>

\* Mutant: the broker's refusal is reported but the project stays transcribing.
StartEnqueueIgnored(h) ==
    /\ handler[h].pc = "enqueueRun"
    /\ "broker" \in Faults
    /\ Reply(h)
    /\ UNCHANGED <<rows, file, tasks, requests, faults>>

\* The broker refused the message: the project is marked failed.
StartEnqueueFails(h) ==
    LET p == handler[h].project IN
    /\ handler[h].pc = "enqueueRun"
    /\ "broker" \in Faults
    /\ Exists(p) /\ ~LockedProject(p)
    /\ status' = [status EXCEPT ![p] = "failed"]
    /\ Reply(h)
    /\ UNCHANGED <<source, usage, clip, file, tasks, requests, faults>>

\* db.refresh after the commit raises when the row was deleted meanwhile.
StartOrphaned(h) ==
    /\ handler[h].pc = "enqueueRun" /\ ~Exists(handler[h].project)
    /\ Reply(h)
    /\ UNCHANGED <<rows, file, tasks, requests, faults>>

\* Mutant: regenerate_clip without the "already queued or rendering" conflict.
RegenerateAnyway(h, c) ==
    /\ Request(h, "regenerate")
    /\ HasRow(c) /\ ~LockedClip(c)
    /\ handler' = [handler EXCEPT ![h] = Serving("regenerating", None, c)]
    /\ UNCHANGED <<rows, file, tasks, faults>>

\* regenerate_clip up to its validations: takes the row lock, refuses an active clip.
RegenerateLock(h, c) ==
    /\ Request(h, "regenerate")
    /\ HasRow(c) /\ ~LockedClip(c)
    /\ clip[c].status \notin ActiveClip
    /\ handler' = [handler EXCEPT ![h] = Serving("regenerating", None, c)]
    /\ UNCHANGED <<rows, file, tasks, faults>>

RegenerateCommit(h) ==
    LET c == handler[h].clip IN
    /\ handler[h].pc = "regenerating"
    /\ \E w \in Windows :
           clip' = [clip EXCEPT ![c] = Row("queued", clip[c].project, w, clip[c].path)]
    /\ handler' = [handler EXCEPT ![h] = Serving("enqueueRender", None, c)]
    /\ UNCHANGED <<status, source, usage, file, tasks, requests, faults>>

RegenerateEnqueue(h) ==
    /\ handler[h].pc = "enqueueRender"
    /\ \E t \in FreeTasks :
           Deliver(t, Message("render", None, handler[h].clip))
    /\ Reply(h)
    /\ UNCHANGED <<rows, file, job, requests, faults>>

\* The broker refused the message: the clip is marked failed, its project untouched.
RegenerateEnqueueFails(h) ==
    LET c == handler[h].clip IN
    /\ handler[h].pc = "enqueueRender"
    /\ "broker" \in Faults
    /\ HasRow(c) /\ ~LockedClip(c)
    /\ clip' = [clip EXCEPT ![c] = Marked(c, "failed")]
    /\ Reply(h)
    /\ UNCHANGED <<status, source, usage, file, tasks, requests, faults>>

RegenerateOrphaned(h) ==
    /\ handler[h].pc = "enqueueRender" /\ ~HasRow(handler[h].clip)
    /\ Reply(h)
    /\ UNCHANGED <<rows, file, tasks, requests, faults>>

\* delete_clip removes the media first, whatever the clip's status ...
DeleteClipMedia(h, c) ==
    /\ Request(h, "deleteClip")
    /\ HasRow(c)
    /\ RemoveMedia({c})
    /\ handler' = [handler EXCEPT ![h] = Serving("deletingClip", None, c)]
    /\ UNCHANGED <<rows, tasks, faults>>

\* ... then the row.
DeleteClipCommit(h) ==
    LET c == handler[h].clip IN
    /\ handler[h].pc = "deletingClip"
    /\ ~LockedClip(c)
    /\ clip' = [clip EXCEPT ![c] = NoClip]
    /\ Reply(h)
    /\ UNCHANGED <<status, source, usage, file, tasks, requests, faults>>

DeleteProjectMedia(h, p) ==
    /\ Request(h, "deleteProject")
    /\ Exists(p)
    /\ RemoveMedia(ClipsOf(p))
    /\ handler' = [handler EXCEPT ![h] = Serving("deletingProject", p, None)]
    /\ UNCHANGED <<rows, tasks, faults>>

\* The row goes, its clips and jobs by cascade; its usage rows lose their project_id.
DeleteProjectCommit(h) ==
    LET p == handler[h].project IN
    /\ handler[h].pc = "deletingProject"
    /\ ~LockedProject(p) /\ ~LockedClips(p)
    /\ status' = [status EXCEPT ![p] = "absent"]
    /\ source' = [source EXCEPT ![p] = FALSE]
    /\ usage' = [usage EXCEPT ![p] = 0]
    /\ clip' = [c \in Clips |-> IF c \in ClipsOf(p) THEN NoClip ELSE clip[c]]
    /\ job' = [t \in Tasks |-> IF task[t].project = p THEN "none" ELSE job[t]]
    /\ Reply(h)
    /\ UNCHANGED <<file, task, pc, locals, requests, faults>>

----
(* Celery tasks: tasks/pipeline.py. *)

At(t, point) == pc[t] = point
Sent(t, k) == At(t, "sent") /\ task[t].kind = k

\* transcribe_project up to its first commit.
TranscribeStart(t) ==
    LET p == task[t].project IN
    /\ Sent(t, "transcribe")
    /\ Exists(p) /\ ~LockedProject(p)
    /\ job' = [job EXCEPT ![t] = "running"]
    /\ status' = [status EXCEPT ![p] = "transcribing"]
    /\ Goto(t, IF source[p] THEN "asr" ELSE "ingest")
    /\ UNCHANGED <<source, usage, clip, file, handler, requests, faults>>

\* _ingest_youtube_source: download, store, commit.
Ingest(t) ==
    LET p == task[t].project IN
    /\ At(t, "ingest")
    /\ Exists(p) /\ ~LockedProject(p)
    /\ source' = [source EXCEPT ![p] = TRUE]
    /\ Goto(t, "asr")
    /\ UNCHANGED <<status, usage, clip, file, job, handler, requests, faults>>

\* The transcript is in: job completed, project analyzing, one commit.
Transcribed(t) ==
    LET p == task[t].project IN
    /\ At(t, "asr")
    /\ Exists(p) /\ ~LockedProject(p)
    /\ job' = [job EXCEPT ![t] = "completed"]
    /\ status' = [status EXCEPT ![p] = "analyzing"]
    /\ Goto(t, "chain")
    /\ UNCHANGED <<source, usage, clip, file, handler, requests, faults>>

\* detect_highlights_task.delay, after that commit.
Chain(t) ==
    /\ At(t, "chain")
    /\ \E u \in FreeTasks :
           /\ task' = [task EXCEPT ![u] = Message("detect", task[t].project, None)]
           /\ pc' = [pc EXCEPT ![u] = "sent", ![t] = "close"]
    /\ UNCHANGED <<rows, file, job, locals, handler, requests, faults>>

DetectStart(t) ==
    LET p == task[t].project IN
    /\ Sent(t, "detect")
    /\ Exists(p) /\ ~LockedProject(p)
    /\ job' = [job EXCEPT ![t] = "running"]
    /\ Goto(t, "detect")
    /\ UNCHANGED <<rows, file, handler, requests, faults>>

\* Mutant: no candidates, and the project is left analyzing.
NoCandidatesIgnored(t) ==
    /\ At(t, "detect")
    /\ job' = [job EXCEPT ![t] = "failed"]
    /\ Goto(t, "close")
    /\ UNCHANGED <<rows, file, handler, requests, faults>>

\* No candidates: job and project failed in one commit, nothing is enqueued.
NoCandidates(t) ==
    LET p == task[t].project IN
    /\ At(t, "detect")
    /\ Exists(p) /\ ~LockedProject(p)
    /\ status' = [status EXCEPT ![p] = "failed"]
    /\ job' = [job EXCEPT ![t] = "failed"]
    /\ Goto(t, "close")
    /\ UNCHANGED <<source, usage, clip, file, handler, requests, faults>>

\* Nothing left to do: the session is closed and the task returns.
Close(t) ==
    /\ \/ At(t, "close")
       \/ At(t, "fanout") /\ todo[t] = {}
    /\ End(t)
    /\ UNCHANGED <<rows, file, handler, requests, faults>>

\* Mutant: every candidate becomes a clip, the selection is not cut to the top N.
CreateAllClips(t) ==
    /\ At(t, "detect") /\ Exists(task[t].project) /\ FreshClips # {}
    /\ \E w \in Windows :
           clip' = [c \in Clips |-> IF c \in FreshClips
                       THEN Row("queued", task[t].project, w, FALSE)
                       ELSE clip[c]]
    /\ pc' = [pc EXCEPT ![t] = "fanout"]
    /\ todo' = [todo EXCEPT ![t] = FreshClips]
    /\ job' = [job EXCEPT ![t] = "completed"]
    /\ UNCHANGED <<status, source, usage, file, task, loaded, verdict, handler, requests, faults>>

\* At most TopN candidates: their queued rows and the completed job in one commit.
CreateClips(t) ==
    LET p == task[t].project IN
    /\ At(t, "detect")
    /\ Exists(p) /\ ~LockedProject(p)
    /\ \E cs \in SUBSET FreshClips, w \in Windows :
           /\ cs # {} /\ Cardinality(cs) <= TopN
           /\ clip' = [c \in Clips |-> IF c \in cs
                           THEN Row("queued", p, w, FALSE)
                           ELSE clip[c]]
           /\ todo' = [todo EXCEPT ![t] = cs]
    /\ pc' = [pc EXCEPT ![t] = "fanout"]
    /\ job' = [job EXCEPT ![t] = "completed"]
    /\ UNCHANGED <<status, source, usage, file, task, loaded, verdict, handler, requests, faults>>

\* render_clip_task.delay for one created clip.
FanOut(t) ==
    /\ At(t, "fanout")
    /\ \E c \in todo[t], u \in FreeTasks :
           /\ task' = [task EXCEPT ![u] = Message("render", None, c)]
           /\ pc' = [pc EXCEPT ![u] = "sent"]
           /\ todo' = [todo EXCEPT ![t] = @ \ {c}]
    /\ UNCHANGED <<rows, file, job, loaded, verdict, handler, requests, faults>>

\* Download, ASR, highlight provider or ffmpeg raised, or the broker refused the next
\* message: the exception handler takes over.  ffmpeg may leave a truncated file.
Raise(t) ==
    /\ \/ pc[t] \in {"ingest", "asr", "detect", "encode", "encoding"}
       \/ "broker" \in Faults /\ At(t, "chain")
       \/ "broker" \in Faults /\ At(t, "fanout") /\ todo[t] # {}
    /\ pc' = [pc EXCEPT ![t] = "failJob"]
    /\ todo' = [todo EXCEPT ![t] = {}]
    /\ UNCHANGED <<rows, file, task, job, loaded, verdict, handler, requests, faults>>

\* Mutant: the job row is forgotten on the failure path.
FailJobForgotten(t) ==
    /\ At(t, "failJob")
    /\ Goto(t, IF task[t].kind = "render" THEN "failClip" ELSE "failProject")
    /\ UNCHANGED <<rows, file, job, handler, requests, faults>>

\* _fail_job, then _fail_project or, for a render, the clip.
FailJob(t) ==
    /\ At(t, "failJob")
    /\ job' = [job EXCEPT ![t] = IF job[t] = "none" THEN "none" ELSE "failed"]
    /\ Goto(t, IF task[t].kind = "render" THEN "failClip" ELSE "failProject")
    /\ UNCHANGED <<rows, file, handler, requests, faults>>

FailProject(t) ==
    LET p == task[t].project IN
    /\ At(t, "failProject")
    /\ Exists(p) /\ ~LockedProject(p)
    /\ status' = [status EXCEPT ![p] = "failed"]
    /\ End(t)
    /\ UNCHANGED <<source, usage, clip, file, handler, requests, faults>>

\* A transcribe or detect task, at any step that reads or writes its project's row.
ProjectGone(t) ==
    /\ task[t].kind \in {"transcribe", "detect"}
    /\ pc[t] \in {"sent", "ingest", "asr", "detect", "failProject"}
    /\ Abandon(t)
    /\ UNCHANGED <<handler, requests, faults>>

----
(* Rendering one clip. *)

\* render_clip_task returns at once, without finalizing, when its clip is gone.
RenderClipGone(t) ==
    /\ Sent(t, "render") /\ ~HasRow(task[t].clip)
    /\ End(t)
    /\ UNCHANGED <<rows, file, handler, requests, faults>>

\* Mutant: a render marks its project "rendering", a status the enum does not have.
RenderMarksProject(t) ==
    LET c == task[t].clip IN
    /\ Sent(t, "render") /\ HasRow(c)
    /\ status' = [status EXCEPT ![clip[c].project] = "rendering"]
    /\ clip' = [clip EXCEPT ![c] = Marked(c, "rendering")]
    /\ Goto(t, "encode")
    /\ UNCHANGED <<source, usage, file, job, handler, requests, faults>>

\* Up to the first commit.  The window is re-read right after it, before ffmpeg starts.
RenderStart(t) ==
    LET c == task[t].clip IN
    /\ Sent(t, "render") /\ HasRow(c)
    /\ ~LockedClip(c) /\ ~LockedProject(clip[c].project)
    /\ job' = [job EXCEPT ![t] = "running"]
    /\ clip' = [clip EXCEPT ![c] = Marked(c, "rendering")]
    /\ task' = [task EXCEPT ![t] = Message("render", clip[c].project, c)]
    /\ pc' = [pc EXCEPT ![t] = "encode"]
    /\ loaded' = [loaded EXCEPT ![t] = clip[c].window]
    /\ UNCHANGED <<status, source, usage, file, todo, verdict, handler, requests, faults>>

\* ffmpeg -y opens clip_<id>.mp4 and truncates it; two encoders write one file.
EncodeBegins(t) ==
    LET c == task[t].clip IN
    /\ At(t, "encode")
    /\ file' = [file EXCEPT ![c] = IF \E u \in Tasks \ {t} : At(u, "encoding") /\ task[u].clip = c
                                   THEN "mixed" ELSE "partial"]
    /\ Goto(t, "encoding")
    /\ UNCHANGED <<rows, job, handler, requests, faults>>

\* ffmpeg and then the thumbnail step, which needs the file to be there and may fail
\* by itself, leaving a finished video that no row names.
EncodeEnds(t) ==
    LET c == task[t].clip IN
    /\ At(t, "encoding") /\ file[c] # "absent"
    /\ file' = [file EXCEPT ![c] = IF file[c] = "mixed" THEN "mixed" ELSE loaded[t]]
    /\ \E next \in {"publish", "failJob"} : Goto(t, next)
    /\ UNCHANGED <<rows, job, handler, requests, faults>>

\* The final commit of a successful render; on a deleted row it raises instead.
Publish(t) ==
    LET c == task[t].clip IN
    /\ At(t, "publish") /\ HasRow(c) /\ ~LockedClip(c)
    /\ clip' = [clip EXCEPT ![c] = Row("ready", clip[c].project, clip[c].window, TRUE)]
    /\ job' = [job EXCEPT ![t] = "completed"]
    /\ Goto(t, "tally")
    /\ UNCHANGED <<status, source, usage, file, handler, requests, faults>>

PublishRaises(t) ==
    /\ At(t, "publish") /\ ~HasRow(task[t].clip)
    /\ Goto(t, "failJob")
    /\ UNCHANGED <<rows, file, job, handler, requests, faults>>

\* Mutants: the failure path leaves the clip rendering; it does not finalize.
FailClipForgotten(t) ==
    /\ At(t, "failClip")
    /\ Goto(t, "tally")
    /\ UNCHANGED <<rows, file, job, handler, requests, faults>>

FailClipAndReturn(t) ==
    LET c == task[t].clip IN
    /\ At(t, "failClip")
    /\ clip' = IF HasRow(c) THEN [clip EXCEPT ![c] = Marked(c, "failed")] ELSE clip
    /\ End(t)
    /\ UNCHANGED <<status, source, usage, file, handler, requests, faults>>

FailClip(t) ==
    LET c == task[t].clip IN
    /\ At(t, "failClip")
    /\ ~LockedClip(c)
    /\ clip' = IF HasRow(c) THEN [clip EXCEPT ![c] = Marked(c, "failed")] ELSE clip
    /\ Goto(t, "tally")
    /\ UNCHANGED <<status, source, usage, file, job, handler, requests, faults>>

----
(* _maybe_finalize_project: two queries, a commit, and _record_usage_once. *)

\* Mutant: queued clips do not keep the project open.
NoneRendering(cs) == \A c \in cs : clip[c].status # "rendering"

Settled(cs) == \A c \in cs : clip[c].status \notin ActiveClip
AnyReady(cs) == \E c \in cs : clip[c].status = "ready"

\* The first query, the clips: none left, or one still active, and nothing is done.
TallyStops(t) ==
    LET cs == ClipsOf(task[t].project) IN
    /\ At(t, "tally") /\ (cs = {} \/ ~Settled(cs))
    /\ End(t)
    /\ UNCHANGED <<rows, file, handler, requests, faults>>

Tally(t) ==
    LET cs == ClipsOf(task[t].project) IN
    /\ At(t, "tally") /\ cs # {} /\ Settled(cs)
    /\ pc' = [pc EXCEPT ![t] = "check"]
    /\ verdict' = [verdict EXCEPT ![t] = IF AnyReady(cs) THEN "ready" ELSE "failed"]
    /\ UNCHANGED <<rows, file, task, job, todo, loaded, handler, requests, faults>>

\* The second query, the project.  A status equal to the one read is not written.
CheckStops(t) ==
    /\ At(t, "check") /\ status[task[t].project] \in {"absent", "failed"}
    /\ End(t)
    /\ UNCHANGED <<rows, file, handler, requests, faults>>

Check(t) ==
    LET p == task[t].project IN
    /\ At(t, "check") /\ status[p] \notin {"absent", "failed"}
    /\ Goto(t, IF status[p] = verdict[t] THEN "bill" ELSE "finalize")
    /\ UNCHANGED <<rows, file, job, handler, requests, faults>>

\* Mutant: the project becomes ready and the usage is not recorded.
FinalizeUnbilled(t) ==
    LET p == task[t].project IN
    /\ At(t, "finalize") /\ verdict[t] = "ready" /\ Exists(p)
    /\ status' = [status EXCEPT ![p] = "ready"]
    /\ Goto(t, "close")
    /\ UNCHANGED <<source, usage, clip, file, job, handler, requests, faults>>

\* The commit, whatever the status has become since it was read.
FinalizeReady(t) ==
    LET p == task[t].project IN
    /\ At(t, "finalize") /\ verdict[t] = "ready"
    /\ Exists(p) /\ ~LockedProject(p)
    /\ status' = [status EXCEPT ![p] = "ready"]
    /\ Goto(t, "bill")
    /\ UNCHANGED <<source, usage, clip, file, job, handler, requests, faults>>

FinalizeFailed(t) ==
    LET p == task[t].project IN
    /\ At(t, "finalize") /\ verdict[t] = "failed"
    /\ Exists(p) /\ ~LockedProject(p)
    /\ status' = [status EXCEPT ![p] = "failed"]
    /\ End(t)
    /\ UNCHANGED <<source, usage, clip, file, handler, requests, faults>>

\* has_usage_record, then the INSERT.
BillStops(t) ==
    LET p == task[t].project IN
    /\ At(t, "bill") /\ Exists(p) /\ usage[p] > 0
    /\ End(t)
    /\ UNCHANGED <<rows, file, handler, requests, faults>>

Bill(t) ==
    LET p == task[t].project IN
    /\ At(t, "bill") /\ Exists(p) /\ usage[p] = 0
    /\ Goto(t, "record")
    /\ UNCHANGED <<rows, file, job, handler, requests, faults>>

Record(t) ==
    LET p == task[t].project IN
    /\ At(t, "record")
    /\ Exists(p) /\ ~LockedProject(p)
    /\ usage' = [usage EXCEPT ![p] = @ + 1]
    /\ End(t)
    /\ UNCHANGED <<status, source, clip, file, handler, requests, faults>>

FinalizeGone(t) ==
    /\ pc[t] \in {"finalize", "bill", "record"}
    /\ Abandon(t)
    /\ UNCHANGED <<handler, requests, faults>>

----
(* What the broker and the machines may do. *)

Original(t) ==
    Message(task[t].kind, IF task[t].kind = "render" THEN None ELSE task[t].project, task[t].clip)

Fault(f) == f \in Faults /\ faults < MaxFaults /\ faults' = faults + 1

\* Redis visibility timeout: an unacknowledged message is delivered a second time
\* while the first delivery is still being worked on.
Redeliver(t) ==
    /\ Fault("redeliver")
    /\ pc[t] # "free"
    /\ \E u \in FreeTasks : Deliver(u, Original(t))
    /\ UNCHANGED <<rows, file, job, handler, requests>>

\* The worker and its connection are lost: acks_late gives the message to another.
\* The job row stays as it was; nothing refers to it any more.
WorkerLost(t) ==
    /\ Fault("workerLost")
    /\ pc[t] \notin {"free", "sent"}
    /\ task' = [task EXCEPT ![t] = Original(t)]
    /\ pc' = [pc EXCEPT ![t] = "sent"]
    /\ job' = [job EXCEPT ![t] = "none"]
    /\ todo' = [todo EXCEPT ![t] = {}]
    /\ loaded' = [loaded EXCEPT ![t] = None]
    /\ verdict' = [verdict EXCEPT ![t] = "none"]
    /\ UNCHANGED <<rows, file, handler, requests>>

\* Only the pool process is lost (out of memory): the parent acknowledges the message.
ChildLost(t) ==
    /\ Fault("childLost")
    /\ pc[t] \notin {"free", "sent"}
    /\ End(t)
    /\ UNCHANGED <<rows, file, handler, requests>>

----
HandlerStep(h) ==
    \/ StartCommit(h)      \/ StartEnqueue(h)      \/ StartEnqueueFails(h)
    \/ StartOrphaned(h)    \/ RegenerateCommit(h)  \/ RegenerateEnqueue(h)
    \/ RegenerateEnqueueFails(h)                   \/ RegenerateOrphaned(h)
    \/ DeleteClipCommit(h) \/ DeleteProjectCommit(h)

NewRequest(h) ==
    \/ \E p \in Projects : StartLock(h, p) \/ DeleteProjectMedia(h, p)
    \/ \E c \in Clips : RegenerateLock(h, c) \/ DeleteClipMedia(h, c)

PipelineStep(t) ==
    \/ TranscribeStart(t)  \/ Ingest(t)        \/ Transcribed(t)  \/ Chain(t)
    \/ DetectStart(t)      \/ NoCandidates(t)  \/ Close(t)
    \/ CreateClips(t)      \/ FanOut(t)
    \/ Raise(t)            \/ FailJob(t)       \/ FailProject(t)  \/ ProjectGone(t)

RenderStep(t) ==
    \/ RenderClipGone(t)   \/ RenderStart(t)   \/ EncodeBegins(t) \/ EncodeEnds(t)
    \/ Publish(t)          \/ PublishRaises(t) \/ FailClip(t)

FinalizeStep(t) ==
    \/ TallyStops(t)       \/ Tally(t)         \/ CheckStops(t)   \/ Check(t)
    \/ FinalizeReady(t)    \/ FinalizeFailed(t)
    \/ BillStops(t)        \/ Bill(t)          \/ Record(t)       \/ FinalizeGone(t)

TaskStep(t) == PipelineStep(t) \/ RenderStep(t) \/ FinalizeStep(t)

Environment(t) == Redeliver(t) \/ WorkerLost(t) \/ ChildLost(t)

\* Nothing in flight: the system may rest here for ever.  Stopping anywhere else is
\* a deadlock.
AtRest ==
    /\ \A t \in Tasks : pc[t] = "free"
    /\ \A h \in Handlers : handler[h].pc = "idle"
    /\ UNCHANGED vars

Next ==
    \/ \E p \in Projects : CreateProject(p)
    \/ \E h \in Handlers : NewRequest(h) \/ HandlerStep(h)
    \/ \E t \in Tasks : TaskStep(t) \/ Environment(t)
    \/ AtRest

Spec == Init /\ [][Next]_vars

\* Requests under way are answered and delivered tasks run on; users and the
\* environment owe nothing.
Fairness ==
    /\ \A h \in Handlers : WF_vars(HandlerStep(h))
    /\ \A t \in Tasks : WF_vars(TaskStep(t))

FairSpec == Spec /\ Fairness

\* A task on the way to creating its project's clips, and one that works for a project
\* and is not: a render, a finalizer, or a task that is failing or closing.
Running(t) ==
    /\ task[t].kind \in {"transcribe", "detect"}
    /\ pc[t] \in {"sent", "ingest", "asr", "chain", "detect"}

Lingers(t, p) == task[t].project = p /\ ~Running(t)

\* A project is started only when no task of an earlier run lingers.  Nothing in the code
\* asks for it; starts of a project that is being processed are left to the code to refuse.
PatientStarts == \A h \in Handlers :
    handler[h].pc # "starting" /\ handler'[h].pc = "starting" =>
        \A t \in Tasks : ~Lingers(t, handler'[h].project)

PatientSpec == Init /\ [][Next /\ PatientStarts]_vars
PatientFairSpec == PatientSpec /\ Fairness

----
(* Safety. *)

Unsettled(t) ==
    task[t].kind = "render" /\ pc[t] \in {"sent", "encode", "encoding", "publish",
                                               "failJob", "failClip"}

\* At most one render of a clip is queued or running: regenerate_clip's lock and
\* status check, and one message per created clip, see to it.  Two would write the same
\* clip_<id>.mp4 at once.
RenderExclusive ==
    \A t, u \in Tasks : Unsettled(t) /\ Unsettled(u) /\ task[t].clip = task[u].clip => t = u

\* A request about to remove media whose rows it has yet to delete.
Removing(c) ==
    \E h \in Handlers :
        \/ handler[h].pc = "deletingClip" /\ handler[h].clip = c
        \/ handler[h].pc \in {"starting", "deletingProject"} /\ handler[h].project = clip[c].project

\* A clip the API calls ready has a complete file on disk, cut to the very window the
\* row shows, unless a request is in the middle of deleting it.
ReadyShowsWindow ==
    \A c \in Clips : clip[c].status = "ready" /\ ~Removing(c) =>
                         clip[c].path /\ file[c] = clip[c].window

\* A transcribing project has something that will move it on: the request that has
\* yet to enqueue its run, or a transcribe task that has not written its outcome.
TranscribingIsDriven ==
    \A p \in Projects : status[p] = "transcribing" =>
        \/ \E h \in Handlers : handler[h].pc = "enqueueRun" /\ handler[h].project = p
        \/ \E t \in Tasks : /\ task[t].kind = "transcribe" /\ task[t].project = p
                            /\ pc[t] \in {"sent", "ingest", "asr", "failJob", "failProject"}

\* A rendering clip has a render task that has not written its outcome.  Without one
\* it could be neither finished nor regenerated.
RenderingIsDriven ==
    \A c \in Clips : clip[c].status = "rendering" =>
        \E t \in Tasks : Unsettled(t) /\ task[t].clip = c

\* A project shown ready has its usage recorded, or a finalizer is about to.
ReadyIsBilled ==
    \A p \in Projects : status[p] = "ready" =>
        \/ usage[p] > 0
        \/ \E t \in Tasks : task[t].project = p /\ pc[t] \in {"bill", "record"}

\* From its status check to its commit, start_processing holds a project that no run
\* is driving: the row lock keeps the checked status true.
StartHoldsIdleProject ==
    \A h \in Handlers : handler[h].pc = "starting" =>
        status[handler[h].project] \notin ActiveStatuses \cup {"absent"}

\* While a project is analyzing some task works for it: its run's transcribe or detect
\* task, a render of one of its clips, or a finalizer.  Otherwise it would show
\* "analyzing" for ever, and start_processing would refuse to run it again.
Drives(t, p) ==
    /\ pc[t] # "free"
    /\ \/ task[t].project = p
       \/ task[t].kind = "render" /\ task[t].clip \in ClipsOf(p)

AnalyzingIsDriven ==
    \A p \in Projects : status[p] = "analyzing" => \E t \in Tasks : Drives(t, p)

\* A project never has more clips than the selection keeps: reprocessing clears the
\* previous run's and a run creates its clips once.
AtMostTopN == \A p \in Projects : Cardinality(ClipsOf(p)) <= TopN

\* A project's usage is recorded once per run, however many finalizers see the run
\* complete.
BilledOnce == \A p \in Projects : usage[p] <= 1

\* One run of a project at a time: a project already processing is refused, so no two
\* of its tasks are both on the way to creating clips.  This is so for users who start a
\* project only once the tasks its last run left behind have returned (PatientSpec): one
\* of those may write a status over the new run's.
OneRunPerProject ==
    \A t, u \in Tasks :
        Running(t) /\ Running(u) /\ task[t].project = task[u].project => t = u

----
(* Action properties. *)

\* A project becomes ready only when every clip has settled and one can be watched.
ReadyOnlyWhenSettled ==
    [][\A p \in Projects : status[p] # "ready" /\ status'[p] = "ready" =>
           Settled(ClipsOf(p)) /\ AnyReady(ClipsOf(p))]_vars

\* A task that runs to its end leaves no job row saying it is still running.
NoRunningJobLeftBehind ==
    [][\A t \in Tasks : pc[t] # "free" /\ pc'[t] = "free" =>
           job[t] # "running"]_vars

----
(* Liveness, under FairSpec. *)

\* A run that was started ends: the project becomes ready or failed, or is deleted.
RunEnds ==
    \A p \in Projects :
        status[p] \in ActiveStatuses ~> status[p] \in {"ready", "failed", "absent"}

\* A clip waiting for a render, or being rendered, gets its outcome or is deleted.
RenderEnds ==
    \A c \in Clips : clip[c].status \in ActiveClip ~> clip[c].status \notin ActiveClip
====
