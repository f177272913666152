# ClipsForge: TLA+ specifications, model checking and proofs

ClipsForge turns a long video into short vertical clips: an API takes an upload or a
YouTube URL, Celery tasks transcribe it, pick highlights and render each of them with
ffmpeg, and a browser polls the result. This directory specifies the parts of it that
hold state and race with each other and the algorithms that decide what a clip is, checks
them with TLC on small instances and proves with TLAPS what matters most.

## The system

| component | state it keeps | operations | talks to |
|---|---|---|---|
| Pipeline tasks (`tasks/pipeline.py`, `celery_app.py`) | `projects.status`, `clips`, `processing_jobs`, `usage_records`; the Celery messages not yet acknowledged | `transcribe_project`, `detect_highlights_task`, `render_clip_task`, `_maybe_finalize_project`, `_fail_job`, `_fail_project` | each task enqueues the next; ASR, highlight provider, ffmpeg; the media volume |
| Project service (`project_service.py`) | the project row, under a row lock while it starts a run | create from an upload or a URL, start (checks the quota, clears the previous run), delete | usage; enqueues `transcribe_project`; stores and deletes media |
| Clip service (`clip_service.py`) | the clip row, under a row lock while it is edited | regenerate (validates the window), delete | enqueues `render_clip_task`; deletes media |
| Media (`media_cleanup.py`, `render_service.py`, `storage.py`, `media_probe.py`) | `clip_<id>.mp4`, thumbnails, source files, temporary subtitle files | caption and render, store, probe, delete | written by renders and uploads, deleted by the API |
| Usage metering (`usage_service.py`) | `usage_records`, `plan_limits` | record once per run, refund, monthly quota, summary | finalizer, start |
| Highlight detection (`highlight_service.py`) | none | windows, snapping to sentence ends, de-duplication, top N | detect task |
| Speech recognition (`asr_service.py`) | a temporary directory | extraction, parts, offsets | transcribe task |
| YouTube ingestion (`youtube_service.py`) | a download directory | URL predicate, download | project service, transcribe task |
| Sessions (`auth_service.py`, `auth/jwt.py`, `dependencies.py`) | `refresh_tokens`, `users` | register, login, refresh (rotation), logout | browser |
| Browser session client (`services/api.ts`, `AuthContext.tsx`) | tokens in local storage | retry after 401, logout | sessions |
| Browser data hooks (`useProjects.ts`, `useClips.ts`, `useAuthenticatedMedia.ts`) | query cache, object URLs | polling, invalidation | project and clip API |
| Export, publishing, shell, UI | none of their own (publishing refuses every request) | read and stream, map errors to HTTP | |

### What is hard about it

* **Transactions, then messages.** A start or an edit commits and only then calls
  `.delay`; a task commits its outcome and only then enqueues the next one. Broker
  refusals, crashes and other requests fit in between.
* **Read, then write.** The finalizer runs two queries, decides, commits, queries the
  usage and inserts, with no lock: other finalizers and requests move meanwhile.
* **Slow steps in the middle.** ASR and ffmpeg run between two transactions for minutes;
  rows and files they work on may be edited, deleted or re-created.
* **At-least-once delivery.** `task_acks_late` gives the message of a lost worker to
  another one; the Redis visibility timeout gives a long task's message away while it is
  still running; a pool process that is killed has its message acknowledged.
* **Two stores.** Rows and files change at different moments.
* **Check now, record later.** The quota is read before a run, its usage written after it.
* **Opposite lock orders.** A start locks the project and then its clips, a deletion the
  clips and then the project.
* **Arithmetic on boundaries.** Audio is cut by size into parts of equal duration, windows
  snap to sentence ends, captions are rebased to a clip that may begin in mid-sentence.

`PROJECT.json` lists each hazard at the line where it bites, with the property that
covers it or the reason why none does yet.

## The modules

| module | what it is |
|---|---|
| `Pipeline` | the run of a project: API requests, Celery tasks, rows, rendered files |
| `MCPipeline` | symmetry of its small instances; the `.cfg` files give the constants |
| `RenderQueue` | the abstract specification of rendering: what a user may count on of a clip |
| `PipelineQueue` | the refinement mapping under which `Pipeline` implements `RenderQueue` |
| `Library` | what one user owns: projects, source files, plan and usage; uploads, URL projects, quota, deletion, the worker's download |
| `Transcription`, `Highlights`, `Captions` | what ASR, highlight detection and one render do with a source |
| `Ranking` | places in a finite set under an order: what a sort puts where |
| `ClipMaking` | their composition: from audio to captioned clips, and an edit |
| `MCClipMaking` | the transcripts, replies and edits of its small instance |
| `Sessions` | sign-in, rotation of refresh tokens and logout in the API, with the browser's interceptors and local storage |
| `PipelineProofs` | types and exclusion of renders, for every value of the constants |
| `PipelineStatusProofs` | the start lock, what drives a run, what tasks leave behind |
| `PipelineRunProofs` | one run of a project at a time, and what such a run promises |
| `PipelineQueueProofs` | rendered files, and the refinement |
| `HighlightsProofs` | lemmas about the operators of `Ranking` and `Highlights` |
| `ClipMakingProofs` | the transcript, the windows picked, the captions; every cut of the audio |
| `LibraryProofs` | types, source files, download directories, the quota |
| `SessionsProofs` | types, one usable refresh token per sign-in, a stored token that stays usable |

`Pipeline`, `Library` and `ClipMaking` look at the same tasks from three sides. `Pipeline`
has every transaction and message of one project's run and treats what the slow steps
compute as a choice; `Library` has several projects, their sources, the quota and the
finalizers that bill it, and the rest of a run as one step; `ClipMaking` has what is computed, in the order the tasks call it.

### How `Pipeline` corresponds to the code

| variable | code |
|---|---|
| `status`, `source` | `projects.status` (`"absent"`: no row), `projects.source_file_path is not None` |
| `clip` | the `clips` row: status, project, window (start, end and caption style together), `video_file_path is not None` |
| `usage` | number of `usage_records` that name the project |
| `file` | what `clip_<id>.mp4` holds: nothing, the encoding of a window, a partial file, or what two encoders left |
| `task`, `pc` | one slot per unacknowledged message, and where the task that runs it is (`"sent"`: nowhere yet) |
| `todo`, `loaded`, `verdict` | the local variables `created_clip_ids`, the window a render read, and the status a finalizer decided on |
| `job` | `processing_jobs.status` of the row made by the task in that slot |
| `handler` | API requests in progress, at the point between their steps |
| `requests`, `faults` | bounds of the model only |

A transaction with no slow call in it is one action. The cuts follow the code:

* `StartLock` / `StartCommit` / `StartEnqueue` (or `StartEnqueueFails`) are
  `start_processing`: `SELECT ... FOR UPDATE` with its status check and the media
  deletion of `_clear_previous_run`, the commit, and the `.delay` after it with the
  `except` branch. `RegenerateLock` ... are `regenerate_clip` in the same way.
  `DeleteClipMedia` / `DeleteClipCommit` and their project versions delete files, then rows.
* `TranscribeStart`, `Ingest`, `Transcribed`, `Chain`, `DetectStart`, `NoCandidates`,
  `CreateClips`, `FanOut` are the commits and enqueues of the first two tasks;
  `RenderStart`, `EncodeBegins`, `EncodeEnds`, `Publish` those of a render. The session
  expires its objects on commit, so what a task reads after one is read afresh.
* `Raise` is any exception of a slow step or of a refused `.delay`; `FailJob`, then
  `FailProject` or `FailClip`, are the separate transactions of the `except` branches.
* `Tally`, `Check`, `FinalizeReady`/`FinalizeFailed`, `Bill`, `Record` are the queries and
  commits of `_maybe_finalize_project` and `_record_usage_once`, one action each.
* `Redeliver`, `WorkerLost`, `ChildLost` are the environment.

Locks. A row locked with `FOR UPDATE` blocks UPDATE and DELETE of the row and INSERTs
whose foreign key names it (`LockedProject`, `LockedClip` in the guards); plain reads do
not wait (READ COMMITTED). Deleting a project cascades to clips and jobs and clears
`usage_records.project_id`. A task that finds a row gone fails its UPDATE, and its
exception handler finds nothing to mark (`Abandon`, `PublishRaises`).

The shipped deployment is one uvicorn process whose `async def` routes call synchronous
services, so requests run one after the other: `Handlers = {h1}`. Two handlers are two
API processes, the case the row locks are written for.

### What `RenderQueue` promises, and how `Pipeline` keeps it

To its users a clip is a request for one video: asked for (`Create`, `Retry`), claimed once
and worked on (`Take`), shown as last asked (`Finish`) or given up (`GiveUp`); it can be asked
for again only when nobody has claimed it, and what a deletion has begun to remove is not
shown any more (`Doom`, `Remove`). `PipelineQueue` maps rows, messages and requests to this:

| `RenderQueue` | in `Pipeline` |
|---|---|
| `phase`, `wanted` | status and window of the row |
| `claimed` | clips with a row and an unsettled render task, an entry in the `todo` of a fan-out, or a regenerate about to enqueue |
| `doomed` | clips with a row that a delete or start request is removing the files of |
| `shown` | what the file holds, when the clip is ready and not doomed |

All of the enqueueing, retrying of commits and file handling is a stutter. The mapping is a
refinement as long as no message is delivered twice (`redeliver` and `workerLost` excluded):
a second delivery is a second claim.

### How `Sessions` corresponds to the code

| variable | code |
|---|---|
| `row` | the `refresh_tokens` row of each pair of tokens: live, revoked or expired, its user; also whether its access token (which no table holds) has expired, and, for the properties only, the sign-in it goes back to |
| `stored`, `shown` | the pair in local storage, and `user` of `AuthContext` |
| `call` | the requests the browser waits for: kind, where they are, the pair whose access token they carry, the pair they refresh with or were given, the refresh token a logout names |
| `ops`, `faults`, `logins` | bounds, and the number of the next sign-in |

`Serve`, `ServeLogin`, `ServeLogout` and `Deny` are the API's answers; `CheckRefresh` /
`RefuseRefresh`, `Rotate` and `Issue` are `refresh_access_token` up to its last check, its
first and its second commit. `AskRefresh` (or `NothingToAsk`), `Resend`, `Settle`,
`ShowUser`, `SignedIn` and `SignedOut` are the continuations of the response interceptor and of
`AuthContext`. The routes call synchronous services and await nothing, so with `OneProcess`
no request is taken while another one is between its commits (`Admitted`).

There is no clock. Whether a token has expired is open until the API looks at it; once it was
found expired it stays so, and a refresh token outlives its access token
(`ACCESS_TOKEN_EXPIRE_MINUTES`, `REFRESH_TOKEN_EXPIRE_DAYS`). A request that carries a valid
token is one of a page behind `ProtectedRoute`; which one does not matter. `Lose` is a network
failure or a stopped API at any point. `Reload` forgets the requests in progress; the ones the API
had not taken are dropped, since what it would do with them later it may also do before.

### How `Library` corresponds to the code

| variable | code |
|---|---|
| `status`, `path`, `clips` | the `projects` row, `source_file_path`, whether it has `clips` rows |
| `disk` | source files on the media volume |
| `bill`, `past` | how many `usage_records` the project has, and how many of them are of earlier months |
| `kept` | this month's records whose project was deleted (`project_id` is null) |
| `looking`, `recording` | finalizers of the project between the commit of `ready` and `has_usage_record`, and between that and the insert |
| `plan` | whether the user's `plan_limits` row exists |
| `request` | API requests in progress: where they are, their project, the file they hold |
| `worker`, `tmp`, `fetched` | where the run is, its download directory, the file it stored and has not committed |
| `strays`, `robbed` | for the properties only: files a failure left without a row, projects whose deletion failed after the file was gone |

`UploadBegins`, `Streamed`, `Probed`, `UploadRejected` and `SaveUpload` are `_ingest_upload`
and `save_stream`: the file exists from its first byte, and every refusal removes it.
`StartUnplanned` / `CreatePlan` and `StartChecked` are `check_within_limits` with the row
`get_or_create_plan_limit` inserts, whose unique `user_id` fails the second of two inserts;
`UsageSummary` inserts the same row. `StartRefused`, `StartLock`, `StartCommit` and
`StartUnqueued` are the rest of `start_processing`. `DeleteMedia`, `DeleteClips`, `DeleteRow`
and `DeleteGone` are `delete_project`: file, clips, project. `DeadlockVictim` is PostgreSQL
failing one of two transactions that wait for each other. `TaskStarts`, `DownloadFails`,
`StoreDownload`, `CommitSource`, `CommitSourceGone` are the ingestion of a URL project;
`RunSucceeds` and `RunFails` stand for the rest of a run, up to the finalizers: as many as
`Together`, the worker's pool processes, may find the last clips settled at once, and each goes on to
`LookForUsage` and `RecordUsage` by itself, so a run may be billed twice here as in `Pipeline`.
`Rerendered` is one more finalizer after an edit or a second delivery. `RequestLost` is a failed
commit or a stopped API at any step, `WorkerLost` a lost worker, `FinalizerLost` a finalizer that is
lost or whose transaction fails, `NewMonth` the turn of the month.

A request is cut where it moves data, between a file operation and the commit that names the
file, and where it takes a row lock another transaction may hold. Ids and file names are
recycled once nothing refers to them, as in `Pipeline`. Two handlers are two API processes.

### How `ClipMaking` corresponds to the code

`Transcription` is `transcribe` in `asr_service.py`: the extracted track goes out whole or, when
it is over the size limit, in parts of equal duration, whose segments are shifted by their
offset; leaving it removes the temporary directory. What the API hears of a part is external
(`Hears`): an utterance that lies within the part as it is, and one that an edge of the part goes
through in any words of `Fragments` or not at all, independently in the two parts it falls into. The
code cuts with `-c copy` and no overlap, so nothing restores what a cut goes through. `Highlights` has the operators of
`highlight_service.py`: the scan, snapping a start and an end to sentences, the normalization
of the LLM's suggestions, de-duplication and the choice of the best. `Captions` is
`render_clip_video`: slicing the transcript, rebasing and clamping cues, the subtitle file,
ffmpeg, the thumbnail. `ClipMaking` runs them in the tasks' order and adds `MoveWindow`,
`regenerate_clip` after `_validate_regeneration_window`.

Sorting is stated by rank (`Sorted`: the element with `k - 1` elements before it stands at
place `k`), and what the code's loops accumulate by functions and sets: the results are those of
the code, and theorems can speak of every input.

Times are integers in half seconds, so the rounding of keys to whole seconds, half to even, is
visible. A text is a model value that ends a sentence or does not and has a weight, the part of
`_score_snippet` that text adds.

## The runs

All instances of `Pipeline` have one project: no step reads or writes two. Ids are recycled once nothing
refers to them (`FreshProjects`, `FreshClips`), so a behaviour may create more clips than
`Clips` has members. `MaxRequests` and `MaxFaults` are the only cut-offs.

| run | instance | shows |
|---|---|---|
| `pipeline_edits` | 2 handlers, 2 clips, 2 windows, 3 slots, all requests, broker failure, a killed pool process, 3 requests | `TypeOK`, `RenderExclusive`, `ReadyShowsWindow`, `StartHoldsIdleProject`: the two row locks do their work; `ClipsAreQueued`: `Pipeline` implements `RenderQueue` |
| `pipeline_faults` | 1 handler, 2 clips per run, all requests, broker failure, one redelivery or lost worker, 2 requests | `TranscribingIsDriven`, `RenderingIsDriven`: nothing is left in a state that only a task can leave, with no such task |
| `pipeline_run` | 3 clips, 2 per run, broker failure, start and delete the project, 2 requests, patient users (`PatientFairSpec`) | `OneRunPerProject`, `AnalyzingIsDriven`, `AtMostTopN`, `ReadyIsBilled`, `ReadyOnlyWhenSettled`, `NoRunningJobLeftBehind`, `RunEnds`: one run at a time, and one its user waits for ends well |
| `pipeline_renders` | 1 clip, start, regenerate and delete it, 3 requests, fair | `RenderEnds` |
| `sessions` | 6 pairs, 2 requests at a time, 3 begun by the user, one loss or reload | `TypeOK`, `OneLivePerLogin`, `StoredIsUsable`: rotation leaves one usable token, and requests refused together do not sign the user out |
| `library` | 2 projects, 2 file names, 2 API processes, 2 finalizers of a project at once, 3 requests, one crash, failed commit or lost finalizer; a run of 70 minutes under a limit of 60; fair | `TypeOK`, `SourceOnDisk`, `FilesAccountedFor`, `NoDownloadLeft`: rows and files in step; `OverrunBounded`, `DeletionKeepsUsage`: the quota, double billing included; `RequestsAnswered`: no request waits for ever |
| `clip_making` | four minutes of audio in one, two or three parts, 146 recordings of up to three utterances, any loss or mishearing at a cut, 43 replies of the LLM, the best 2, edits | `TypeOK`, `SpeechInPlace`, `SpeechGivesAClip`, `WindowsEndWell`, `ReplyWindowsBounded`, `BestAreKept`, `CaptionsInSync`, `NoTemporaryFiles` |
| `billed_twice`, `stuck_analyzing`, `two_runs`, `redelivered`, `logout_refreshed` | the smallest instance of each | the disagreements below |

Why the bounds are enough. Three slots hold a detect task with two renders, two renders
with a transcribe task, or a render, its redelivery and a finalizer; two clips are what a
race between two finalizers needs; two windows tell the edited one from the one encoded;
three requests are a start, an edit and a third that interferes. `pipeline_edits` takes
one clip per run (its properties relate requests to one clip or one project) and
`pipeline_run` a third clip id, so that selecting too many would show; its two requests are a run
and a second one, or a deletion at any point of the run. `WorkerLost` and
`Redeliver` may strike at any step of any task, once per behaviour.

In `sessions`, two requests at a time are what a race between two refreshes needs, and three
begun are a sign-in and the two, or a sign-in, a request and a logout; each page load and each
sign-in adds a `GET /auth/me` of its own. Six pairs suffice: with these bounds a sign-in or a
refresh never finds `FreshPairs` empty. One user is enough, because
no step compares two.

In `library`, two projects and two requests give every pair of requests on one project and on
two, and the deadlock of a start and a deletion; three requests are an upload, its start and one more
that interferes (URL projects and summaries are not counted). One record alone overruns the 60
minutes, and the bound of `OverrunBounded`, four records, is reached: both projects are started before
either records, and each is billed by two finalizers. One fault may strike any request, worker or
finalizer at any step.

In `clip_making` the utterances are chosen for their boundaries: sentences and parts of sentences,
short and long, across the edges between parts, that end less than 40 seconds, 40 to 90 and more
than 90 after a start, of equal starts, one inside another that outlasts it (so that the last segment
ends before a sentence does), blank, at the very end of the track and just before it. What is left of
an utterance at a cut may end with a sentence where the utterance did not. The replies include moments before, in and after the transcript, half a second
apart, and numbers that are not finite. The edits move a window to where something, part of
something and nothing is said.

Deadlock is checked in every run: a state from which no request and no task can move on
while something is in flight would be reported. `AtRest` allows an idle system to stay so.

Fairness. `FairSpec` asks that a request under way and a delivered message are not
neglected for ever: uvicorn finishes what it accepted, and the worker's pool takes every
message and runs its task on. ASR and the highlight provider are called with timeouts;
ffmpeg's render and yt-dlp are not, and that they end is an assumption of the two
liveness runs of `Pipeline`, listed as a hazard. Fairness is weak and per handler and per slot: it
chooses neither outcomes nor who is first. Nothing is asked of users (what `PatientSpec` asks of
them is no fairness), the broker or the environment. `FairSpec` of `Library` is fair to each
request only: uvicorn finishes what it accepted, and a transaction that waits in a
cycle of locks is failed by PostgreSQL (`DeadlockVictim`). Workers need no fairness there, because
no request waits for one.

### What the runs found

* `billed_twice`: two renders that finish together both find every clip settled and no
  usage row, and both insert one. `_record_usage_once` promises that this cannot happen.
* `stuck_analyzing`: when the last waiting clip is deleted, its render returns before it
  knows its project; nobody finalizes and the project shows `analyzing` for ever, which
  also keeps it from being started again.
* `two_runs`: a finalizer that read the project before a restart writes `ready` over
  `transcribing`; the project can then be started a third time beside the run in progress.
* `redelivered`: the highlight task creates new rows each time it runs, so one that is
  lost between its commit and its last enqueue leaves clips that stay `queued`, and a
  project that stays `analyzing`.
* `logout_refreshed`: a logout that finds its access token expired is refreshed and sent again
  with the refresh token it started with, which that refresh has just rotated away. The
  API answers 204 and the successor stays valid until it expires.

Each is stated as the property the code's own comments or documents promise, quoted in
`PROJECT.json`. Where a property is false because of one of them, the passing run that
checks it leaves the cause out and says so above: `AnalyzingIsDriven` and `RunEnds` with
no deletion of single clips and no lost workers (the project may be deleted), `AtMostTopN` with no
redelivery (a highlight task that runs twice exceeds it), and both with `OneRunPerProject` for
patient users: `PatientSpec` has a project started only when no task of an earlier run lingers,
that is, works for the project without being on the way to its clips. A start of a project that is
being processed is left for the code to refuse. Nothing in the code makes users wait, and one
clip per run does not help: four requests suffice for a late finalizer to let a second run in
beside the first. Two more limits are hazards without a
property: after a killed pool process or an API crash between commit and `.delay` nothing
in the code moves the rows on, and with a broker that fails during the fan-out the clips not
yet enqueued stay `queued` in a failed project (`RenderEnds` is checked with a working broker).

Smaller disagreements between text and code, met while modelling and not given a run:

* `usage_service.py:138-139` says that nothing calls `check_within_limits` to reject processing;
  `project_service.py:217` does.
* The docstring at `highlight_service.py:221-223` has every window in the product's target range;
  with no sentence end in that range the heuristic detector keeps one of any length
  (`WindowsEndWell` claims the length only where a sentence end allows it).
* Both detectors snap to sentence ends and then cut at `ordered[-1].end`, the end of the segment that
  begins last. When segments overlap an earlier one may end later, and a clip whose sentence ends
  after that point is cut there, in mid-sentence (`WindowsEndWell` names this exception).
* The diagram at `docs/ARCHITECTURE.md:199` has the segments of the chunks "de-duplicated"; the code
  does not, as the text at `docs/ARCHITECTURE.md:203` and `docs/CODE_REVIEW.md:31-41` say. Words at a
  cut may be lost or misheard, and `SpeechInPlace` promises nothing of them.
* `docs/ARCHITECTURE.md:184` says that failed downloads can leak temporary files; the code removes the
  directory on every error (`NoDownloadLeft`).
* `docs/ARCHITECTURE.md:182` says that LLM timestamps are not snapped to transcript boundaries; they
  now are.
* The docstring at `pipeline.py:235-237` gives the caption fallback to projects without a
  transcript; the code also uses it for a window in which nothing is said, whose captions then
  are the words of the clip's first window (`CaptionsInSync` leaves such windows out).
* `ClipsGrid.tsx:38` promises that clips will appear once generation starts, but a clip list that
  is empty is never polled.
* `_validate_regeneration_window` compares with a duration stored without its fraction, so a clip
  that ends in the last fraction of a second cannot be regenerated with its own window.

## The proofs

Proved for every number of projects, clips, windows, slots and handlers (of accounts, pairs
and requests in `Sessions`; of projects, files and requests in `Library`, the projects finitely
many; of texts, sources, transcripts, replies and edits in `ClipMaking`) and every value of the
bounds, each from an inductive invariant whose step lemma has one step per action:

| theorem | module | property | faults allowed |
|---|---|---|---|
| `TypeCorrect` | `PipelineProofs` | `TypeOK` | all |
| `OneRenderPerClip` | `PipelineProofs` | `RenderExclusive` | broker, killed pool process |
| `ReadyClipShown` | `PipelineQueueProofs` | `ReadyShowsWindow` | broker, killed pool process |
| `PipelineIsAQueue` | `PipelineQueueProofs` | `ClipsAreQueued` | broker, killed pool process |
| `StartLockHolds` | `PipelineStatusProofs` | `StartHoldsIdleProject` | all |
| `TranscribingDriven`, `RenderingDriven` | `PipelineStatusProofs` | `TranscribingIsDriven`, `RenderingIsDriven` | broker, redelivery, lost worker |
| `ReadyBilled` | `PipelineStatusProofs` | `ReadyIsBilled` | broker, redelivery |
| `JobsSettled` | `PipelineStatusProofs` | `NoRunningJobLeftBehind` | broker, redelivery, lost worker |
| `OneRunAtATime` | `PipelineRunProofs` | `OneRunPerProject` | broker, killed pool process; patient users |
| `TopNClips` | `PipelineRunProofs` | `AtMostTopN` | broker, killed pool process; patient users |
| `ReadyIsEarned` | `PipelineRunProofs` | `ReadyOnlyWhenSettled` | broker, killed pool process; patient users who leave the clips alone |
| `AnalyzingDriven` | `PipelineRunProofs` | `AnalyzingIsDriven` | broker; patient users who leave the clips alone |
| `LibraryTypes` | `LibraryProofs` | `TypeOK` | all |
| `SourcesAreOnDisk` | `LibraryProofs` | `SourceOnDisk` | all |
| `NoFileForgotten` | `LibraryProofs` | `FilesAccountedFor` | all |
| `DownloadsAreCleared` | `LibraryProofs` | `NoDownloadLeft` | all |
| `UsageOutlivesProject` | `LibraryProofs` | `DeletionKeepsUsage` | all |
| `OverrunIsBounded` | `LibraryProofs` | `OverrunBounded` | all |
| `SessionTypes` | `SessionsProofs` | `TypeOK` | all |
| `OneLiveToken` | `SessionsProofs` | `OneLivePerLogin` | all, with one API process |
| `StoredStaysUsable` | `SessionsProofs` | `StoredIsUsable` | all (the property speaks of histories without one) |
| `ClipMakingTypes` | `ClipMakingProofs` | `TypeOK` | an exception in any step; no killed process |
| `TranscriptInPlace` | `ClipMakingProofs` | `SpeechInPlace` | the same |
| `SpeechIsClipped` | `ClipMakingProofs` | `SpeechGivesAClip` | the same |
| `WindowsSitWell` | `ClipMakingProofs` | `WindowsEndWell` | the same |
| `ReplyIsBounded` | `ClipMakingProofs` | `ReplyWindowsBounded` | the same |
| `BestKept` | `ClipMakingProofs` | `BestAreKept` | the same |
| `CaptionsSync` | `ClipMakingProofs` | `CaptionsInSync` | the same |
| `NothingTemporary` | `ClipMakingProofs` | `NoTemporaryFiles` | the same |

The restrictions on faults are hypotheses of the theorems on the constant `Faults`, and each is
needed: two deliveries of one render message are two renders of one clip, and nothing in the code
reacts to a worker or a pool process lost where it is excluded. Restarts, edits and
deletions by any number of concurrent requests are allowed, but in `PipelineRunProofs`. There
users are patient (`PatientSpec`; `two_runs` is what an impatient one gets), and two theorems take
editing and deleting of clips out of `UserOps`: a clip that is edited between a finalizer's queries
and its commit is not settled when the project becomes ready, and `stuck_analyzing` deletes one.
Any number of runs, and deleting the project at any time, are allowed there too.

* `TypeOK` is inductive: besides the types it says that a task is at a step its kind of
  message has (`Steps`) and that an encoding render has read a window, without which
  `EncodeEnds` could write a file of no window.
* `RenderExclusive` is not: the second render of a clip would come from a request that has
  checked the status and not yet enqueued, or from a highlight task that has yet to
  enqueue a clip it created. `ClaimInv` says that every clip has at most one *claim* (a render
  that has not written its outcome, an entry of some `todo`, a request about to enqueue),
  that a claimed clip is neither ready nor failed, and that a clip locked for an edit is
  ready or failed and locked by one request. Most of the 49 actions only release claims
  (`ClaimFrame`); the proof deals by itself with those that make or pass on one.
* `ReadyShowsWindow` needs, on top of `ClaimInv`, what is on disk while a render is under
  way: no file was written by two encoders, a render works on the window its row shows
  (nobody may edit a claimed clip), and what it is about to publish is on disk (`FileInv`).
* `StartHoldsIdleProject` needs that a row is locked by one request only (`LockInv`).
* `TranscribingIsDriven`, `RenderingIsDriven` and `ReadyIsBilled` are inductive with the
  types; `NoRunningJobLeftBehind` follows from what job rows say while a task works (`JobInv`).
* `ClipsAreQueued` rests on `ClaimInv` and `FileInv`: each of the 49 actions is one abstract step or
  a stutter, and `ClaimInv` is what makes the step the right one: a render that settles holds the
  only claim on its clip, a regenerate finds none, and a highlight task claims clips that had no
  row. `Finish` needs `FileInv`: what is published is the window the row asks for. A few lemmas
  (`Unmoved`, `TaskQuiet`, `RequestQuiet`, `Forgets`, `Dooms`, `Removes`, `Settles`) say what the
  mapping does with a kind of change; the step lemma only says which kind an action is.
* `OneRunPerProject` needs to know who may be at work while a run has yet to create its clips
  (`RunInv`): one request that has locked the project or is about to enqueue, beside which no task
  works for it; then one task, beside which only those that are closing their job rows do, the
  transcribe task after it has enqueued its successor. Until then the project has no clips and is
  active or gone, so that every start is refused. `AtMostTopN` follows: `CreateClips` finds none.
* `ReadyOnlyWhenSettled` is about a finalizer that has read and not yet written. `SeenInv`: what it
  saw of the clips is still so. Nobody edits a clip; a settled clip has no render (`ClaimInv`); and
  no start clears the clips, because the finalizer lingers.
* `AnalyzingIsDriven` is far from inductive: the task that drives a project changes at every
  commit and enqueue. `PushInv` keeps for each analyzing project a task that moves it on by itself
  (its run, an unsettled render, a fan-out with clips left, a failing task, a finalizer), and for
  each clip that has not settled a task that will settle it or mark the project failed (`Tends`).
  The second is what the step of a finalizer that sees work left needs: it returns, and the task
  that tends that clip takes over.
* The `Library` properties are layered. `RunInv`: a project is locked by one start, never while a
  run is under way, and a worker that fetches a source works for a project that has none.
  `HoldInv`: a stored file has at most one holder, be it a row, a worker about to commit it or an
  upload. `DiskInv`: what is held is on disk and what a deletion took is not. Without the second,
  a deletion could remove a file another project names; without the first, a rerun could
  overwrite a path and forget its file.
* `OverrunBounded` is not inductive: it says nothing of runs under way. `BillInv` bounds what one
  project can be billed: its records and the finalizers about to insert one are together at most
  `Together`, because a finalizer goes on to insert only when it finds no record, and then all that may
  insert are among the `Together` at work. `BudgetInv` keeps the number `n` of records that the last
  look at the quota saw, within the limits, such that what is recorded of deleted projects and
  `Together` for each project that has a record, runs or is about to run are together at most
  `n` plus `Together` for each project there is room for (`Room`, `Spenders`). A look that lets a start
  through makes its own `n`; without one nothing new comes in: a deletion moves records from one
  summand to the other, and a run that ends, or is rendered again, keeps its project where it was.

* `OneLivePerLogin`: the step that issues a pair may only do so if nothing of the sign-in is
  live. Between the two commits of a rotation that is `RotatedIsBare`; it holds because what was
  checked is live until it is revoked (`CheckedIsLive`), because it was the only one, and because
  one process rotates one token at a time (`OneRotation`). With several processes
  `OneRotation` fails and so does the property, hence the hypothesis `OneProcess`.
* `StoredIsUsable` needs that the pair a login or a refresh is bringing to the browser is live,
  known to that request alone and named by no logout (`GrantedIsNew`), so that it is still usable
  when it is stored, and that a request that is over has no kind left (`IdleIsQuiet`).
  It holds with any number of API processes.

* `ClipMaking` has an invariant for each of its parts. `HeardInv`: what has been heard after `part`
  parts has in place, moment by moment, what was said in that much of the track and no cut goes
  through, segments in order and of positive length. An utterance that an edge of a part goes
  through is one that a cut goes through (`EdgesAreCuts`), because the ends of the track cut nothing. `RunInv`: the transcript stays such a rendition of the source, and what was
  picked is what the detectors' operators give for it. `ShotInv`: the cues on disk and in the video
  are those of the window and transcript in hand.
* What the operators give is the subject of the lemmas of `HighlightsProofs`, each resting on the
  one before: every place of a finite ordered set has exactly one element (`RankPlaces`), so a sort
  lists the set in order (`SortedInOrder`) and leaves a transcript as it is (`OrderedTrack`); a
  snapped start is a segment's and a snapped end is one, a sentence's if there is any after the
  start and one 40 to 90 seconds on where there is such (`SnapStartIsAStart`, `SnapEndIsAnEnd`);
  cutting at the last segment's end keeps that but for what lies beyond (`WindowEnds`); so the candidates of either detector suit
  (`HeuristicCandidatesSuit`, `LlmCandidatesSuit`); and a selection leaves out only candidates that
  lose to a better one of their key or to `TopN` better ones (`SelectIsBest`).

The assumptions on constants of `Pipeline` are `TopNAssumption`, `BoundsAssumption`,
`OptionsAssumption` and `IdsAssumption`; those of `Sessions` say that `None` is no account or
pair and give the ranges of the rest; those of `Library` are `AmountsAssumption` (a run costs
something, the worker has at least one process), `LibraryBounds` and `LibraryIds` (`None` is no id, finitely many projects).
`AudioAssumption` of `Transcription` says that an instance's parts divide its durations. Of
`ClipMaking`, `SpeechAssumption` says that utterances have a positive length, lie within the track
and are in the order of their starts, as a recording has them; `FragmentAssumption` that what is misheard
is a text like any other; `ReplyAssumption` that what
the LLM's list yields is numbers, or `NaN` for what `_validate_and_normalize_candidates` finds not
finite; `NumberAssumption` that weights count, that at least one clip is wanted and that the form sends numbers. `TopNClips`
takes `Clips` to be finite, without which clips could not be counted. TLC evaluates the named
assumptions in every run that uses their modules.

Only model-checked: liveness (`RunEnds`, `RenderEnds`, `RequestsAnswered`), which is out of the proof
system's reach. Every invariant and every other action property of the passing runs is a theorem.
The five runs that end in a counterexample show what does not hold and leave nothing to prove.

## The plan

Done: the modules, runs and theorems above. Next, in this order:

1. **`Polling`**: the browser hooks against a run: what the page shows catches up with the
   rows, and polling stops only when nothing can change (two hazards say where it does not).
2. **`AnalyzingDriven` and `ReadyIsEarned`** with fewer hypotheses: regenerations, which enqueue a
   render that finalizes again.
3. **`Sessions`, continued**: registration and its race on the unique address, an abstract
   specification of a sign-in that rotation implements, and that every request ends under fairness.
4. **Clip export** beside deletion and re-rendering: what a stream that has begun delivers.

Instances will stay at one or two users, two or three tokens, tabs or projects.

## Not modelled

* What the speech API hears within a part (its words are taken as they are), what the LLM suggests, what yt-dlp fetches and
  ffmpeg encodes: they succeed with some result or raise. The prompt, caption styles, filters
  and the choice of a font.
* The YouTube URL predicate and request validation, which decide on one text or body alone;
  ownership checks and listing queries, which change nothing.
* Registration, deactivated accounts and password hashing; the browser's polling hooks; clip
  export, which reads a row and streams its file.
* Three or more transactions in one cycle of locks; the order in which one transaction takes
  the locks of several clips. A crash of the API is modelled in `Library`, not in `Pipeline`,
  where no code would react to it.
* The wording of errors, logging, HTTP. Publishing to platforms (stubs), the application shell
  and the presentation layer of the browser.
* A process killed in the middle of `transcribe` or `render_clip_video`: the temporary files it leaves
  are outside `NoTemporaryFiles`, which is about steps that return or raise.
* The rounding of caption times to milliseconds (times are half seconds), and whether the rounded
  start is a good key: `BestAreKept` takes the keys as the rounding gives them.
* Writes that change nothing (SQLAlchemy sends no UPDATE for an unchanged attribute) are
  modelled as writes except in the finalizer, where the difference matters (`Check`).
