---- MODULE Library ----
(***************************************************************************)
(* What one user owns: projects rows, source files on the media volume, a  *)
(* plan limit and this month's usage.  The API creates projects from       *)
(* uploads and URLs, starts their runs under the monthly quota and deletes *)
(* them; a worker downloads the source of a URL project and the finalizers *)
(* of a run record its usage.  The rest of a run is one step here, and a   *)
(* project has one run at a time: Pipeline has its tasks, and what is      *)
(* deleted of its clips.                                                   *)
(*                                                                         *)
(* Grain.  A request or task is cut where it moves data (upload, probe,    *)
(* download), between a file operation and the commit that names the file, *)
(* and wherever it takes a row lock another transaction may hold.          *)
(***************************************************************************)
EXTENDS Naturals, FiniteSets

CONSTANTS
    Projects,       \* project ids
    Files,          \* names of stored source files
    Handlers,       \* API requests that may be in progress at once
    RunMinutes,     \* minutes a run records: the length of a source
    RunClips,       \* clips a run records
    MinutesLimit,   \* plan_limits.monthly_minutes_limit
    ClipsLimit,     \* plan_limits.monthly_clips_limit
    Together,       \* finalizers of a project that may run at once: the worker's pool processes
    MaxRequests,    \* bound: requests in a behaviour
    MaxFaults,      \* bound: crashes and failed commits in a behaviour
    None            \* no id, no file

ASSUME AmountsAssumption ==
    /\ RunMinutes \in Nat \ {0} /\ RunClips \in Nat \ {0}
    /\ MinutesLimit \in Nat /\ ClipsLimit \in Nat
    /\ Together \in Nat \ {0}
ASSUME LibraryBounds == MaxRequests \in Nat /\ MaxFaults \in Nat
ASSUME LibraryIds == None \notin Projects \cup Files /\ IsFiniteSet(Projects)

VARIABLES
    status,    \* projects.status, "active" while transcribing or analyzing
    path,      \* projects.source_file_path
    clips,     \* whether the project has clips rows
    disk,      \* files on the media volume
    bill,      \* how many usage records the project has
    past,      \* how many of them are of earlier months
    kept,      \* this month's records whose project is deleted
    plan,      \* whether the user's plan_limits row exists
    looking,   \* finalizers that have made the project ready and not yet looked at its usage
    recording, \* finalizers that have found no usage record of it
    request,   \* API requests in progress
    worker,    \* where the run of the project is
    tmp,       \* projects whose download directory exists
    fetched,   \* the file a worker has stored and not yet committed
    strays,    \* files left behind by a failed commit, a crash or a deletion under way
    robbed,    \* projects whose deletion failed after their file was removed
    requests,  \* how many requests were made
    faults     \* how many crashes and failed commits happened

rows == <<status, path, clips>>
finalizers == <<looking, recording>>
usage == <<bill, past, kept, plan, finalizers>>
ingest == <<worker, tmp, fetched>>
ghosts == <<strays, robbed>>
bounds == <<requests, faults>>
vars == <<rows, disk, usage, request, ingest, ghosts, bounds>>

Serving(step, p, f) == [pc |-> step, project |-> p, file |-> f]
NoRequest == Serving("idle", None, None)

UploadPc == {"streaming", "probing", "saving"}
StartPc == {"planning", "checked", "locked"}
DeletePc == {"deletingClips", "deletingRow"}

RequestStates == {NoRequest}
    \cup [pc : UploadPc, project : {None}, file : Files]
    \cup [pc : StartPc, project : Projects, file : {None}]
    \cup [pc : DeletePc, project : Projects, file : Files \cup {None}]

TypeOK ==
    /\ status \in [Projects -> {"absent", "pending", "active", "ready", "failed"}]
    /\ path \in [Projects -> Files \cup {None}]
    /\ clips \in [Projects -> {"none", "some"}]
    /\ disk \subseteq Files
    /\ bill \in [Projects -> Nat]
    /\ past \in [Projects -> Nat] /\ \A p \in Projects : past[p] <= bill[p]
    /\ kept \in Nat
    /\ plan \in {"absent", "present"}
    /\ looking \in [Projects -> Nat]
    /\ recording \in [Projects -> Nat]
    /\ request \in [Handlers -> RequestStates]
    /\ worker \in [Projects -> {"none", "queued", "download", "storing", "run"}]
    /\ tmp \subseteq Projects
    /\ fetched \in [Projects -> Files \cup {None}]
    /\ strays \subseteq Files
    /\ robbed \subseteq Projects
    /\ requests \in 0..MaxRequests
    /\ faults \in 0..MaxFaults

Init ==
    /\ status = [p \in Projects |-> "absent"]
    /\ path = [p \in Projects |-> None]
    /\ clips = [p \in Projects |-> "none"]
    /\ disk = {}
    /\ bill = [p \in Projects |-> 0]
    /\ past = [p \in Projects |-> 0]
    /\ kept = 0
    /\ plan = "absent"
    /\ looking = [p \in Projects |-> 0]
    /\ recording = [p \in Projects |-> 0]
    /\ request = [h \in Handlers |-> NoRequest]
    /\ worker = [p \in Projects |-> "none"]
    /\ tmp = {}
    /\ fetched = [p \in Projects |-> None]
    /\ strays = {}
    /\ robbed = {}
    /\ requests = 0
    /\ faults = 0

----
Exists(p) == status[p] # "absent"

Finalizing(p) == looking[p] + recording[p]

\* Ids and names are never reused: a slot stands for a new one when nothing refers to it.
FreshProjects == {p \in Projects : ~Exists(p) /\ worker[p] = "none"
                      /\ bill[p] = 0 /\ Finalizing(p) = 0
                      /\ (\A h \in Handlers : request[h].project # p)}
FreshFiles == {f \in Files : f \notin disk
                   /\ (\A p \in Projects : path[p] # f /\ fetched[p] # f)
                   /\ (\A h \in Handlers : request[h].file # f)}

\* Row locks: the project's from start_processing's FOR UPDATE to its commit, the clips'
\* from delete_project's first DELETE to its commit.
ProjectLocked(p) == \E h \in Handlers : request[h].pc = "locked" /\ request[h].project = p
ClipsLocked(p) == \E h \in Handlers : /\ request[h].pc = "deletingRow"
                                      /\ request[h].project = p /\ clips[p] = "some"

\* Bound: as many projects at a time as there are ids for, those being uploaded included.
RoomForProject == Cardinality({h \in Handlers : request[h].pc \in UploadPc})
                      < Cardinality(FreshProjects)

NewRequest(h, step, p, f) ==
    /\ request[h].pc = "idle"
    /\ requests < MaxRequests
    /\ requests' = requests + 1
    /\ request' = [request EXCEPT ![h] = Serving(step, p, f)]
    /\ UNCHANGED faults

GoOn(h, step) ==
    /\ request' = [request EXCEPT ![h] = Serving(step, request[h].project, request[h].file)]
    /\ UNCHANGED bounds

Reply(h) == request' = [request EXCEPT ![h] = NoRequest] /\ UNCHANGED bounds

----
(* Creating a project. *)

\* The stored name is new; the file is there from the first byte.
UploadBegins(h) ==
    /\ RoomForProject
    /\ \E f \in FreshFiles : NewRequest(h, "streaming", None, f) /\ disk' = disk \cup {f}
    /\ UNCHANGED <<rows, usage, ingest, ghosts>>

Streamed(h) ==
    /\ request[h].pc = "streaming"
    /\ GoOn(h, "probing")
    /\ UNCHANGED <<rows, disk, usage, ingest, ghosts>>

Probed(h) ==
    /\ request[h].pc = "probing"
    /\ GoOn(h, "saving")
    /\ UNCHANGED <<rows, disk, usage, ingest, ghosts>>

\* Mutant: a video that is too long is refused but stays stored.
RejectWithoutDelete(h) ==
    /\ request[h].pc \in {"streaming", "probing"}
    /\ disk' = IF request[h].pc = "streaming" THEN disk \ {request[h].file} ELSE disk
    /\ Reply(h)
    /\ UNCHANGED <<rows, usage, ingest, ghosts>>

\* Too large or a broken stream; then empty, not a video, without a duration, too long.
UploadRejected(h) ==
    /\ request[h].pc \in {"streaming", "probing"}
    /\ disk' = disk \ {request[h].file}
    /\ Reply(h)
    /\ UNCHANGED <<rows, usage, ingest, ghosts>>

AddRow(p, f) ==
    /\ status' = [status EXCEPT ![p] = "pending"]
    /\ path' = [path EXCEPT ![p] = f]
    /\ UNCHANGED clips

SaveUpload(h) ==
    /\ request[h].pc = "saving"
    /\ \E p \in FreshProjects : AddRow(p, request[h].file)
    /\ Reply(h)
    /\ UNCHANGED <<disk, usage, ingest, ghosts>>

\* A single-video URL; nothing is downloaded yet.
CreateFromUrl(p) ==
    /\ p \in FreshProjects /\ RoomForProject
    /\ AddRow(p, None)
    /\ UNCHANGED <<disk, usage, request, ingest, ghosts, bounds>>

----
(* Starting a run under the quota. *)

\* This month's usage records of projects that are there, each by its place among its
\* project's; and of all projects.
Recorded == UNION {{p} \X ((past[p] + 1)..bill[p]) : p \in Projects}
Used == kept + Cardinality(Recorded)

\* check_within_limits: what is recorded this month, whatever is running.
Within(runs) == runs * RunMinutes <= MinutesLimit /\ runs * RunClips <= ClipsLimit
WithinLimits == Within(Used)

\* get_or_create_plan_limit finds no row and is about to insert one.
StartUnplanned(h, p) ==
    /\ plan = "absent" /\ Exists(p)
    /\ NewRequest(h, "planning", p, None)
    /\ UNCHANGED <<rows, disk, usage, ingest, ghosts>>

\* Mutant: a request that lost the race to insert goes on looking for its own row.
CreatePlanAlone(h) ==
    /\ request[h].pc = "planning" /\ plan = "absent"
    /\ plan' = "present"
    /\ IF WithinLimits THEN GoOn(h, "checked") ELSE Reply(h)
    /\ UNCHANGED <<rows, disk, bill, past, kept, finalizers, ingest, ghosts>>

\* The insert; when another request was first, user_id is not unique and this one fails.
CreatePlan(h) ==
    /\ request[h].pc = "planning"
    /\ plan' = "present"
    /\ IF plan = "absent" /\ WithinLimits THEN GoOn(h, "checked") ELSE Reply(h)
    /\ UNCHANGED <<rows, disk, bill, past, kept, finalizers, ingest, ghosts>>

\* get_usage_summary inserts the plan row too, when it is the first to miss it.
UsageSummary(h) ==
    /\ request[h].pc = "idle" /\ plan = "absent"
    /\ plan' = "present"
    /\ UNCHANGED <<rows, disk, bill, past, kept, finalizers, request, ingest, ghosts, bounds>>

StartChecked(h, p) ==
    /\ plan = "present" /\ WithinLimits /\ Exists(p)
    /\ NewRequest(h, "checked", p, None)
    /\ UNCHANGED <<rows, disk, usage, ingest, ghosts>>

\* FOR UPDATE, then the refusals.
StartRefused(h) ==
    LET p == request[h].project IN
    /\ request[h].pc = "checked" /\ ~ProjectLocked(p)
    /\ status[p] \in {"absent", "active"}
    /\ Reply(h)
    /\ UNCHANGED <<rows, disk, usage, ingest, ghosts>>

StartLock(h) ==
    LET p == request[h].project IN
    /\ request[h].pc = "checked" /\ ~ProjectLocked(p)
    /\ status[p] \notin {"absent", "active"}
    /\ GoOn(h, "locked")
    /\ UNCHANGED <<rows, disk, usage, ingest, ghosts>>

\* delete_usage_records_for_project.
ClearUsage(p) == bill' = [bill EXCEPT ![p] = 0] /\ past' = [past EXCEPT ![p] = 0]

\* Mutant: clearing the previous run removes the source too.
StartClearingSource(h) ==
    LET p == request[h].project IN
    /\ request[h].pc = "locked" /\ ~ClipsLocked(p)
    /\ status' = [status EXCEPT ![p] = "active"]
    /\ clips' = [clips EXCEPT ![p] = "none"]
    /\ ClearUsage(p)
    /\ worker' = [worker EXCEPT ![p] = "queued"]
    /\ disk' = disk \ {path[p]}
    /\ Reply(h)
    /\ UNCHANGED <<path, kept, plan, finalizers, tmp, fetched, ghosts>>

\* _clear_previous_run and the commit: the previous run's usage record goes too.
StartCommit(h) ==
    LET p == request[h].project IN
    /\ request[h].pc = "locked" /\ ~ClipsLocked(p)
    /\ status' = [status EXCEPT ![p] = "active"]
    /\ clips' = [clips EXCEPT ![p] = "none"]
    /\ ClearUsage(p)
    /\ worker' = [worker EXCEPT ![p] = "queued"]
    /\ Reply(h)
    /\ UNCHANGED <<path, disk, kept, plan, finalizers, tmp, fetched, ghosts>>

\* The broker does not take the task.
StartUnqueued(h) ==
    LET p == request[h].project IN
    /\ request[h].pc = "locked" /\ ~ClipsLocked(p)
    /\ status' = [status EXCEPT ![p] = "failed"]
    /\ clips' = [clips EXCEPT ![p] = "none"]
    /\ ClearUsage(p)
    /\ Reply(h)
    /\ UNCHANGED <<path, disk, kept, plan, finalizers, ingest, ghosts>>

----
(* Deleting a project. *)

\* The source file first ...
DeleteMedia(h, p) ==
    /\ Exists(p)
    /\ NewRequest(h, "deletingClips", p, path[p])
    /\ disk' = disk \ {path[p]}
    /\ UNCHANGED <<rows, usage, ingest, ghosts>>

\* ... then the rows, clips before the project.
DeleteClips(h) ==
    LET p == request[h].project IN
    /\ request[h].pc = "deletingClips" /\ Exists(p)
    /\ ~ClipsLocked(p)
    /\ GoOn(h, "deletingRow")
    /\ UNCHANGED <<rows, disk, usage, ingest, ghosts>>

\* Mutant: a deletion gives its minutes and clips back.
KeptRefunded(p) == kept - (bill[p] - past[p])

\* Mutant: its usage records are deleted with it.
KeptDropped(p) == kept

KeptWithout(p) == kept + (bill[p] - past[p])

\* Usage records outlive their project, with project_id null.  So does a source file a
\* worker stored since this request looked.
DeleteRow(h) ==
    LET p == request[h].project IN
    /\ request[h].pc = "deletingRow" /\ Exists(p)
    /\ ~ProjectLocked(p)
    /\ status' = [status EXCEPT ![p] = "absent"]
    /\ path' = [path EXCEPT ![p] = None]
    /\ clips' = [clips EXCEPT ![p] = "none"]
    /\ kept' = KeptWithout(p)
    /\ ClearUsage(p)
    /\ strays' = strays \cup ({path[p]} \ {request[h].file, None})
    /\ robbed' = robbed \ {p}
    /\ Reply(h)
    /\ UNCHANGED <<disk, plan, finalizers, ingest>>

\* Another request deleted it first.
DeleteGone(h) ==
    /\ request[h].pc \in DeletePc /\ ~Exists(request[h].project)
    /\ Reply(h)
    /\ UNCHANGED <<rows, disk, usage, ingest, ghosts>>

\* start_processing holds the project and waits for its clips, delete_project holds the
\* clips and waits for the project: PostgreSQL fails one of them.
Robbed(h) == IF request[h].pc \in DeletePc /\ Exists(request[h].project)
             THEN robbed \cup {request[h].project} ELSE robbed

DeadlockVictim(h) ==
    LET p == request[h].project IN
    /\ request[h].pc \in {"locked", "deletingRow"}
    /\ ProjectLocked(p) /\ ClipsLocked(p)
    /\ robbed' = Robbed(h)
    /\ Reply(h)
    /\ UNCHANGED <<rows, disk, usage, ingest, strays>>

----
(* The worker: ingestion of a URL source, then the run. *)

Step(p, next) == worker' = [worker EXCEPT ![p] = next]

\* The run fails: its project says so if it is still there.
Fail(p) ==
    /\ Step(p, "none")
    /\ status' = IF Exists(p) THEN [status EXCEPT ![p] = "failed"] ELSE status
    /\ UNCHANGED <<path, clips>>

\* A source stored before is not fetched again.
TaskGone(p) ==
    /\ worker[p] = "queued" /\ ~Exists(p)
    /\ Step(p, "none")
    /\ UNCHANGED <<rows, disk, usage, request, tmp, fetched, ghosts, bounds>>

TaskStarts(p) ==
    /\ worker[p] = "queued" /\ Exists(p) /\ ~ProjectLocked(p)
    /\ IF path[p] = None THEN Step(p, "download") /\ tmp' = tmp \cup {p}
                         ELSE Step(p, "run") /\ UNCHANGED tmp
    /\ UNCHANGED <<rows, disk, usage, request, fetched, ghosts, bounds>>

\* Mutant: a failed download leaves its directory.
DownloadFailsUncleaned(p) ==
    /\ worker[p] = "download" /\ ~ProjectLocked(p)
    /\ Fail(p)
    /\ UNCHANGED <<disk, usage, request, tmp, fetched, ghosts, bounds>>

\* Private, removed, a playlist, live, of unknown length, too long, no file to be found,
\* or the move into storage failed.
DownloadFails(p) ==
    /\ worker[p] = "download" /\ ~ProjectLocked(p)
    /\ Fail(p)
    /\ tmp' = tmp \ {p}
    /\ UNCHANGED <<disk, usage, request, fetched, ghosts, bounds>>

\* save_file moves the download under a new name; the directory goes in any case.
StoreDownload(p) ==
    /\ worker[p] = "download"
    /\ \E f \in FreshFiles :
           /\ disk' = disk \cup {f}
           /\ fetched' = [fetched EXCEPT ![p] = f]
    /\ tmp' = tmp \ {p}
    /\ Step(p, "storing")
    /\ UNCHANGED <<rows, usage, request, ghosts, bounds>>

CommitSource(p) ==
    /\ worker[p] = "storing" /\ Exists(p) /\ ~ProjectLocked(p)
    /\ path' = [path EXCEPT ![p] = fetched[p]]
    /\ fetched' = [fetched EXCEPT ![p] = None]
    /\ Step(p, "run")
    /\ UNCHANGED <<status, clips, disk, usage, request, tmp, ghosts, bounds>>

\* The project was deleted during the download: nothing will name the file.
CommitSourceGone(p) ==
    /\ worker[p] = "storing" /\ ~Exists(p)
    /\ strays' = strays \cup ({fetched[p]} \ {None})
    /\ fetched' = [fetched EXCEPT ![p] = None]
    /\ Step(p, "none")
    /\ UNCHANGED <<rows, disk, usage, request, tmp, robbed, bounds>>

\* The renders of the run have ended, the last few of them at once: their finalizers find
\* every clip settled, commit the ready status and go on to the usage.
RunSucceeds(p) ==
    /\ worker[p] = "run" /\ Exists(p) /\ ~ProjectLocked(p)
    /\ path[p] \in disk
    /\ \E n \in 1..(Together - Finalizing(p)) : looking' = [looking EXCEPT ![p] = @ + n]
    /\ status' = [status EXCEPT ![p] = "ready"]
    /\ clips' = [clips EXCEPT ![p] = "some"]
    /\ Step(p, "none")
    /\ UNCHANGED <<path, disk, bill, past, kept, plan, recording, request, tmp, fetched,
                   ghosts, bounds>>

\* A clip of a ready project is rendered again, edited or delivered twice: that ends with
\* a finalizer too.
Rerendered(p) ==
    /\ status[p] = "ready" /\ clips[p] = "some" /\ Finalizing(p) < Together
    /\ looking' = [looking EXCEPT ![p] = @ + 1]
    /\ UNCHANGED <<rows, disk, bill, past, kept, plan, recording, request, ingest, ghosts, bounds>>

\* Mutant: whether the run has its record already is not asked.
LookAway(p) ==
    /\ looking[p] > 0
    /\ looking' = [looking EXCEPT ![p] = @ - 1]
    /\ recording' = [recording EXCEPT ![p] = @ + 1]
    /\ UNCHANGED <<rows, disk, bill, past, kept, plan, request, ingest, ghosts, bounds>>

\* has_usage_record, without a lock.
LookForUsage(p) ==
    /\ looking[p] > 0
    /\ looking' = [looking EXCEPT ![p] = @ - 1]
    /\ recording' = [recording EXCEPT ![p] = IF bill[p] = 0 THEN @ + 1 ELSE @]
    /\ UNCHANGED <<rows, disk, bill, past, kept, plan, request, ingest, ghosts, bounds>>

\* record_usage: the foreign key wants the project, and waits for a lock on it.
RecordUsage(p) ==
    /\ recording[p] > 0 /\ ~ProjectLocked(p)
    /\ recording' = [recording EXCEPT ![p] = @ - 1]
    /\ bill' = [bill EXCEPT ![p] = IF Exists(p) THEN @ + 1 ELSE @]
    /\ UNCHANGED <<rows, disk, past, kept, plan, looking, request, ingest, ghosts, bounds>>

RunFails(p) ==
    /\ worker[p] = "run" /\ ~ProjectLocked(p)
    /\ Fail(p)
    /\ UNCHANGED <<disk, usage, request, tmp, fetched, ghosts, bounds>>

----
(* What may happen to them. *)

Fault == faults < MaxFaults /\ faults' = faults + 1

\* The API stops, or a commit fails: locks are released, nothing is undone on disk.
RequestLost(h) ==
    /\ Fault
    /\ request[h].pc # "idle"
    /\ strays' = IF request[h].pc \in UploadPc THEN strays \cup {request[h].file} ELSE strays
    /\ robbed' = Robbed(h)
    /\ request' = [request EXCEPT ![h] = NoRequest]
    /\ UNCHANGED <<rows, disk, usage, ingest, requests>>

\* The worker is lost and its task delivered again.
WorkerLost(p) ==
    /\ Fault
    /\ worker[p] \in {"download", "storing", "run"}
    /\ Step(p, "queued")
    /\ strays' = strays \cup ({fetched[p]} \ {None})
    /\ fetched' = [fetched EXCEPT ![p] = None]
    /\ UNCHANGED <<rows, disk, usage, request, tmp, robbed, requests>>

\* A finalizer's process is lost, or its transaction fails and is only logged.
FinalizerLost(p) ==
    /\ Fault
    /\ \/ looking[p] > 0 /\ looking' = [looking EXCEPT ![p] = @ - 1] /\ UNCHANGED recording
       \/ recording[p] > 0 /\ recording' = [recording EXCEPT ![p] = @ - 1] /\ UNCHANGED looking
    /\ UNCHANGED <<rows, disk, bill, past, kept, plan, request, ingest, ghosts, requests>>

\* A new calendar month: earlier records no longer count.
NewMonth ==
    /\ Used > 0
    /\ past' = bill
    /\ kept' = 0
    /\ UNCHANGED <<rows, disk, bill, plan, finalizers, request, ingest, ghosts, bounds>>

----
UploadStep(h) == Streamed(h) \/ Probed(h) \/ UploadRejected(h) \/ SaveUpload(h)
StartStep(h) == CreatePlan(h) \/ StartRefused(h) \/ StartLock(h)
                    \/ StartCommit(h) \/ StartUnqueued(h)
DeleteStep(h) == DeleteClips(h) \/ DeleteRow(h) \/ DeleteGone(h) \/ DeadlockVictim(h)
RequestStep(h) == UploadStep(h) \/ StartStep(h) \/ DeleteStep(h)

WorkerStep(p) ==
    \/ TaskGone(p)     \/ TaskStarts(p)        \/ DownloadFails(p) \/ StoreDownload(p)
    \/ CommitSource(p) \/ CommitSourceGone(p)  \/ RunSucceeds(p)   \/ RunFails(p)

FinalizerStep(p) == Rerendered(p) \/ LookForUsage(p) \/ RecordUsage(p) \/ FinalizerLost(p)

AtRest ==
    /\ \A h \in Handlers : request[h].pc = "idle"
    /\ \A p \in Projects : worker[p] = "none"
    /\ \A p \in Projects : Finalizing(p) = 0
    /\ UNCHANGED vars

Next ==
    \/ \E h \in Handlers : UploadBegins(h) \/ UsageSummary(h) \/ RequestStep(h) \/ RequestLost(h)
    \/ \E h \in Handlers, p \in Projects :
           StartUnplanned(h, p) \/ StartChecked(h, p) \/ DeleteMedia(h, p)
    \/ \E p \in Projects : CreateFromUrl(p) \/ WorkerStep(p) \/ WorkerLost(p) \/ FinalizerStep(p)
    \/ NewMonth \/ AtRest

Spec == Init /\ [][Next]_vars

----
(* Safety. *)

Deleting(p) == \E h \in Handlers : request[h].pc \in DeletePc /\ request[h].project = p

\* A project's row never names a file that is gone, except while the project is being
\* deleted, or after its deletion failed between the file and the row.
SourceOnDisk ==
    \A p \in Projects : path[p] # None /\ ~Deleting(p) /\ p \notin robbed => path[p] \in disk

\* Every stored file is named by one row, or in the hands of the request or worker about
\* to name it.  Only a crash, a failed commit or a deletion during the download leave one
\* that nothing names.
FilesAccountedFor ==
    \A f \in disk \ strays :
        \/ \E p \in Projects : path[p] = f \/ fetched[p] = f
        \/ \E h \in Handlers : request[h].pc \in UploadPc /\ request[h].file = f

\* A download directory belongs to a download under way, unless its worker was lost.
NoDownloadLeft == faults = 0 => tmp = {p \in Projects : worker[p] = "download"}

\* The quota is read before a run and recorded after it, once by each of the finalizers that
\* found no record, so it is overrun; but each project the user has room for adds no more
\* records than it may have finalizers at once, whatever is started again, rendered again
\* or deleted meanwhile.
OverrunBounded ==
    \E n \in 0..MinutesLimit :
        Within(n) /\ Used <= n + Cardinality(Projects) * Together

\* Deleting a project never gives back what its runs used of the quota.
DeletionKeepsUsage == [][\A p \in Projects : Exists(p) /\ ~Exists(p)' => Used' = Used]_vars

----
(* Liveness. *)

FairSpec == Spec /\ \A h \in Handlers : WF_vars(RequestStep(h))

\* Every request is answered: the lock orders of start and delete cannot stop both.
RequestsAnswered == \A h \in Handlers : request[h].pc # "idle" ~> request[h].pc = "idle"
====
