---- MODULE LibraryProofs ----
(***************************************************************************)
(* Library for every number of projects, files and requests: types, who    *)
(* holds a stored file, what a run and a start may rely on, and how far    *)
(* the monthly quota can be overrun.                                       *)
(***************************************************************************)
EXTENDS Library, FiniteSetTheorems, TLAPS

\* What a request in progress holds at each of its steps.
LEMMA RequestTyped ==
    /\ NoRequest \in RequestStates /\ NoRequest.pc = "idle"
    /\ NoRequest.project = None /\ NoRequest.file = None
    /\ \A s, p, f : /\ Serving(s, p, f).pc = s
                    /\ Serving(s, p, f).project = p
                    /\ Serving(s, p, f).file = f
    /\ \A s \in UploadPc, f \in Files : Serving(s, None, f) \in RequestStates
    /\ \A s \in StartPc, p \in Projects : Serving(s, p, None) \in RequestStates
    /\ \A s \in DeletePc, p \in Projects, f \in Files \cup {None} :
           Serving(s, p, f) \in RequestStates
    /\ \A r \in RequestStates :
           \/ r = NoRequest
           \/ r.pc \in UploadPc /\ r.project = None /\ r.file \in Files
           \/ r.pc \in StartPc /\ r.project \in Projects /\ r.file = None
           \/ r.pc \in DeletePc /\ r.project \in Projects /\ r.file \in Files \cup {None}
BY DEF RequestStates, NoRequest, Serving

\* A request that moves on within its kind keeps what it holds.
LEMMA Onward ==
    ASSUME NEW r \in RequestStates
    PROVE  /\ r.pc \in UploadPc =>
                 \A s \in UploadPc : Serving(s, r.project, r.file) \in RequestStates
           /\ r.pc \in StartPc =>
                 \A s \in StartPc : Serving(s, r.project, r.file) \in RequestStates
           /\ r.pc \in DeletePc =>
                 \A s \in DeletePc : Serving(s, r.project, r.file) \in RequestStates
BY RequestTyped DEF UploadPc, StartPc, DeletePc

\* The system starts well typed.
LEMMA LibraryTypeInit == Init => TypeOK
BY RequestTyped, LibraryBounds DEF Init, TypeOK

\* Every step keeps the types.
LEMMA LibraryTypeStep == TypeOK /\ [Next]_vars => TypeOK'
<1> SUFFICES ASSUME TypeOK, [Next]_vars PROVE TypeOK' OBVIOUS
<1> USE RequestTyped, Onward, LibraryBounds, LibraryIds
    DEF TypeOK, UploadPc, StartPc, DeletePc, rows, usage, finalizers, ingest, ghosts, bounds
<1> USE DEF NewRequest, GoOn, Reply, AddRow, Step, Fail, Fault, Robbed, FreshProjects, FreshFiles,
            KeptWithout, ClearUsage, Finalizing
<1>1. ASSUME NEW h \in Handlers, UploadBegins(h) PROVE TypeOK'
  BY <1>1 DEF UploadBegins
<1>2. ASSUME NEW h \in Handlers, Streamed(h) PROVE TypeOK'
  BY <1>2 DEF Streamed
<1>3. ASSUME NEW h \in Handlers, Probed(h) PROVE TypeOK'
  BY <1>3 DEF Probed
<1>4. ASSUME NEW h \in Handlers, UploadRejected(h) PROVE TypeOK'
  BY <1>4 DEF UploadRejected
<1>5. ASSUME NEW h \in Handlers, SaveUpload(h) PROVE TypeOK'
  BY <1>5 DEF SaveUpload
<1>6. ASSUME NEW h \in Handlers, CreatePlan(h) PROVE TypeOK'
  <2>1. \/ request' = [request EXCEPT ![h] = Serving("checked", request[h].project, request[h].file)]
        \/ request' = [request EXCEPT ![h] = NoRequest]
    BY <1>6 DEF CreatePlan
  <2>2. request[h].pc = "planning" BY <1>6 DEF CreatePlan
  <2>3. request[h] \in RequestStates /\ request[h].pc \in StartPc BY <2>2
  <2>4. Serving("checked", request[h].project, request[h].file) \in RequestStates
    BY ONLY <2>3, Onward DEF StartPc
  <2>5. request' \in [Handlers -> RequestStates]
    BY ONLY <2>1, <2>4, TypeOK, RequestTyped DEF TypeOK
  <2>6. plan' = "present" /\ UNCHANGED <<rows, disk, bill, past, kept, finalizers, ingest, ghosts, bounds>>
    BY <1>6 DEF CreatePlan
  <2> QED BY <2>5, <2>6
<1>7. ASSUME NEW h \in Handlers, StartRefused(h) PROVE TypeOK'
  BY <1>7 DEF StartRefused
<1>8. ASSUME NEW h \in Handlers, StartLock(h) PROVE TypeOK'
  BY <1>8 DEF StartLock
<1>9. ASSUME NEW h \in Handlers, StartCommit(h) PROVE TypeOK'
  BY <1>9 DEF StartCommit
<1>10. ASSUME NEW h \in Handlers, StartUnqueued(h) PROVE TypeOK'
  <2> USE <1>10 DEF StartUnqueued
  <2>1. PICK p \in Projects : p = request[h].project OBVIOUS
  <2>2. bill' = [bill EXCEPT ![p] = 0] /\ past' = [past EXCEPT ![p] = 0] BY <2>1
  <2>3. \A q \in Projects : past'[q] <= bill'[q] BY <2>2
  <2>4. request' \in [Handlers -> RequestStates] OBVIOUS
  <2> QED BY <2>1, <2>2, <2>3, <2>4
<1>11. ASSUME NEW h \in Handlers, DeleteClips(h) PROVE TypeOK'
  BY <1>11 DEF DeleteClips
<1>12. ASSUME NEW h \in Handlers, DeleteRow(h) PROVE TypeOK'
  <2> USE <1>12 DEF DeleteRow
  <2>1. PICK p \in Projects : p = request[h].project OBVIOUS
  <2>2. kept' \in Nat BY <2>1
  <2>3. strays' \subseteq Files BY <2>1
  <2>4. request' \in [Handlers -> RequestStates] OBVIOUS
  <2>5. path' \in [Projects -> Files \cup {None}] BY <2>1
  <2> QED BY <2>1, <2>2, <2>3, <2>4, <2>5
<1>13. ASSUME NEW h \in Handlers, DeleteGone(h) PROVE TypeOK'
  BY <1>13 DEF DeleteGone
<1>14. ASSUME NEW h \in Handlers, DeadlockVictim(h) PROVE TypeOK'
  <2> USE <1>14 DEF DeadlockVictim
  <2>1. robbed' \subseteq Projects BY ONLY <1>14, TypeOK, RequestTyped
                                   DEF DeadlockVictim, Robbed, TypeOK, DeletePc, UploadPc, StartPc
  <2>2. request' \in [Handlers -> RequestStates] OBVIOUS
  <2>3. UNCHANGED <<rows, disk, usage, ingest, strays, bounds>> OBVIOUS
  <2> QED BY ONLY <2>1, <2>2, <2>3, TypeOK DEF TypeOK, rows, usage, finalizers, ingest, bounds
<1>15. ASSUME NEW h \in Handlers, RequestLost(h) PROVE TypeOK'
  <2> USE <1>15 DEF RequestLost
  <2>1. strays' \subseteq Files /\ robbed' \subseteq Projects
    <3>1. CASE request[h].pc \in UploadPc
      <4>1. robbed' = robbed BY <3>1 DEF Robbed
      <4>2. request[h].file \in Files BY <3>1
      <4>3. strays' = strays \cup {request[h].file} BY <3>1
      <4> QED BY ONLY <4>1, <4>2, <4>3, TypeOK DEF TypeOK
    <3>2. CASE request[h].pc \notin UploadPc
      <4>1. strays' = strays BY <3>2
      <4> QED BY ONLY <4>1, <1>15, TypeOK, RequestTyped
           DEF RequestLost, Robbed, TypeOK, DeletePc, UploadPc, StartPc
    <3> QED BY <3>1, <3>2
  <2>2. request' \in [Handlers -> RequestStates] OBVIOUS
  <2>3. faults' \in 0..MaxFaults OBVIOUS
  <2>4. UNCHANGED <<rows, disk, usage, ingest, requests>> OBVIOUS
  <2> QED BY ONLY <2>1, <2>2, <2>3, <2>4, TypeOK DEF TypeOK, rows, usage, finalizers, ingest
<1>16. ASSUME NEW h \in Handlers, NEW p \in Projects, StartUnplanned(h, p) PROVE TypeOK'
  BY <1>16 DEF StartUnplanned
<1>17. ASSUME NEW h \in Handlers, NEW p \in Projects, StartChecked(h, p) PROVE TypeOK'
  BY <1>17 DEF StartChecked
<1>18. ASSUME NEW h \in Handlers, NEW p \in Projects, DeleteMedia(h, p) PROVE TypeOK'
  BY <1>18 DEF DeleteMedia
<1>19. ASSUME NEW p \in Projects, CreateFromUrl(p) PROVE TypeOK'
  BY <1>19 DEF CreateFromUrl
<1>20. ASSUME NEW p \in Projects, TaskGone(p) PROVE TypeOK'
  BY <1>20 DEF TaskGone
<1>21. ASSUME NEW p \in Projects, TaskStarts(p) PROVE TypeOK'
  <2> USE <1>21 DEF TaskStarts
  <2>1. worker' \in {[worker EXCEPT ![p] = "download"], [worker EXCEPT ![p] = "run"]} OBVIOUS
  <2>2. worker' \in [Projects -> {"none", "queued", "download", "storing", "run"}]
    BY ONLY <2>1, TypeOK, p \in Projects DEF TypeOK
  <2>3. tmp' \subseteq Projects BY ONLY <2>1, <1>21, TypeOK, p \in Projects DEF TaskStarts, TypeOK
  <2> QED BY <2>2, <2>3
<1>22. ASSUME NEW p \in Projects, DownloadFails(p) PROVE TypeOK'
  BY <1>22 DEF DownloadFails
<1>23. ASSUME NEW p \in Projects, StoreDownload(p) PROVE TypeOK'
  BY <1>23 DEF StoreDownload
<1>24. ASSUME NEW p \in Projects, CommitSource(p) PROVE TypeOK'
  BY <1>24 DEF CommitSource
<1>25. ASSUME NEW p \in Projects, CommitSourceGone(p) PROVE TypeOK'
  BY <1>25 DEF CommitSourceGone
<1>26. ASSUME NEW p \in Projects, RunSucceeds(p) PROVE TypeOK'
  BY <1>26 DEF RunSucceeds
<1>27. ASSUME NEW p \in Projects, RunFails(p) PROVE TypeOK'
  BY <1>27 DEF RunFails
<1>28. ASSUME NEW p \in Projects, WorkerLost(p) PROVE TypeOK'
  BY <1>28 DEF WorkerLost
<1>29. ASSUME NewMonth PROVE TypeOK'
  BY <1>29 DEF NewMonth
<1>30. CASE UNCHANGED vars
  BY <1>30 DEF vars
<1>31. ASSUME NEW h \in Handlers, UsageSummary(h) PROVE TypeOK'
  BY <1>31 DEF UsageSummary
<1>32. ASSUME NEW p \in Projects, Rerendered(p) PROVE TypeOK'
  BY <1>32 DEF Rerendered
<1>33. ASSUME NEW p \in Projects, LookForUsage(p) PROVE TypeOK'
  BY <1>33 DEF LookForUsage
<1>34. ASSUME NEW p \in Projects, RecordUsage(p) PROVE TypeOK'
  BY <1>34 DEF RecordUsage
<1>35. ASSUME NEW p \in Projects, FinalizerLost(p) PROVE TypeOK'
  <2>1. faults' \in 0..MaxFaults BY <1>35 DEF FinalizerLost
  <2>2. /\ looking' \in [Projects -> Nat]
        /\ recording' \in [Projects -> Nat]
    BY ONLY <1>35, TypeOK DEF FinalizerLost, TypeOK
  <2>3. UNCHANGED <<rows, disk, bill, past, kept, plan, request, ingest, ghosts, requests>>
    BY <1>35 DEF FinalizerLost
  <2> QED BY ONLY <2>1, <2>2, <2>3, TypeOK DEF TypeOK, rows, ingest, ghosts
<1> QED BY <1>1, <1>2, <1>3, <1>4, <1>5, <1>6, <1>7, <1>8, <1>9, <1>10, <1>11, <1>12,
         <1>13, <1>14, <1>15, <1>16, <1>17, <1>18, <1>19, <1>20, <1>21, <1>22, <1>23,
         <1>24, <1>25, <1>26, <1>27, <1>28, <1>29, <1>30, <1>31,
         <1>32, <1>33, <1>34, <1>35
     DEF Next, RequestStep, UploadStep, StartStep, DeleteStep, WorkerStep, FinalizerStep, AtRest

\* Rows, files, requests and tasks are well formed however many there are.
THEOREM LibraryTypes == Spec => []TypeOK
<1>1. Init => TypeOK BY LibraryTypeInit
<1>2. TypeOK /\ [Next]_vars => TypeOK' BY LibraryTypeStep
<1> QED BY <1>1, <1>2, PTL DEF Spec

----
\* start_processing's lock and status check are what a run may rely on: one lock at a
\* time, on a project no worker runs; and a worker downloads only what has no source yet.
Locks(h, p) == request[h].pc = "locked" /\ request[h].project = p
Fetching(p) == worker[p] \in {"download", "storing"}

RunInv ==
    /\ \A p \in Projects : \A h, g \in Handlers : Locks(h, p) /\ Locks(g, p) => h = g
    /\ \A p \in Projects : \A h \in Handlers : Locks(h, p) => status[p] \notin {"absent", "active"}
    /\ \A p \in Projects : worker[p] # "none" => status[p] \in {"absent", "active"}
    /\ \A p \in Projects : Fetching(p) /\ Exists(p) => path[p] = None
    /\ NoDownloadLeft

\* A step of requests that takes no lock and leaves rows and workers alone.
LEMMA RunFrame ==
    ASSUME RunInv, UNCHANGED <<status, path, worker, tmp>>, faults' = 0 => faults = 0,
           \A p \in Projects : \A h \in Handlers : Locks(h, p)' => Locks(h, p)
    PROVE  RunInv'
BY DEF RunInv, Fetching, Exists, NoDownloadLeft

\* Every step keeps the start lock, the workers and their download directories in step.
LEMMA RunStep == TypeOK /\ RunInv /\ [Next]_vars => RunInv'
<1> SUFFICES ASSUME TypeOK, RunInv, [Next]_vars PROVE RunInv' OBVIOUS
<1> USE RequestTyped
    DEF TypeOK, UploadPc, StartPc, DeletePc, rows, usage, finalizers, ingest, ghosts, bounds, Locks, ProjectLocked
<1> USE DEF NewRequest, GoOn, Reply, AddRow, Step, Fail, Fault, ClearUsage
<1>1. ASSUME NEW h \in Handlers, UploadBegins(h) PROVE RunInv'
  BY <1>1, RunFrame DEF UploadBegins
<1>2. ASSUME NEW h \in Handlers, Streamed(h) PROVE RunInv'
  BY <1>2, RunFrame DEF Streamed
<1>3. ASSUME NEW h \in Handlers, Probed(h) PROVE RunInv'
  BY <1>3, RunFrame DEF Probed
<1>4. ASSUME NEW h \in Handlers, UploadRejected(h) PROVE RunInv'
  BY <1>4, RunFrame DEF UploadRejected
<1>5. ASSUME NEW h \in Handlers, SaveUpload(h) PROVE RunInv'
  BY <1>5 DEF SaveUpload, RunInv, FreshProjects, Exists, Fetching, NoDownloadLeft
<1>6. ASSUME NEW h \in Handlers, CreatePlan(h) PROVE RunInv'
  <2>1. \/ request' = [request EXCEPT ![h] = Serving("checked", request[h].project, request[h].file)]
        \/ request' = [request EXCEPT ![h] = NoRequest]
    BY <1>6 DEF CreatePlan
  <2>2. \A p \in Projects : \A g \in Handlers : Locks(g, p)' => Locks(g, p)
    <3>1. request'[h].pc # "locked" /\ \A g \in Handlers \ {h} : request'[g] = request[g]
      BY ONLY <2>1, TypeOK, h \in Handlers DEF TypeOK, Serving, NoRequest
    <3> QED BY ONLY <3>1 DEF Locks
  <2>3. UNCHANGED <<status, path, worker, tmp, faults>> BY <1>6 DEF CreatePlan
  <2> QED BY ONLY <2>2, <2>3, RunInv, RunFrame
<1>7. ASSUME NEW h \in Handlers, StartRefused(h) PROVE RunInv'
  BY <1>7, RunFrame DEF StartRefused
<1>8. ASSUME NEW h \in Handlers, StartLock(h) PROVE RunInv'
  BY <1>8 DEF StartLock, RunInv, Exists, Fetching, NoDownloadLeft
<1>9. ASSUME NEW h \in Handlers, StartCommit(h) PROVE RunInv'
  BY <1>9 DEF StartCommit, RunInv, Exists, Fetching, NoDownloadLeft
<1>10. ASSUME NEW h \in Handlers, StartUnqueued(h) PROVE RunInv'
  BY <1>10 DEF StartUnqueued, RunInv, Exists, Fetching, NoDownloadLeft
<1>11. ASSUME NEW h \in Handlers, DeleteClips(h) PROVE RunInv'
  BY <1>11, RunFrame DEF DeleteClips
<1>12. ASSUME NEW h \in Handlers, DeleteRow(h) PROVE RunInv'
  BY <1>12 DEF DeleteRow, RunInv, Exists, Fetching, NoDownloadLeft
<1>13. ASSUME NEW h \in Handlers, DeleteGone(h) PROVE RunInv'
  BY <1>13, RunFrame DEF DeleteGone
<1>14. ASSUME NEW h \in Handlers, DeadlockVictim(h) PROVE RunInv'
  BY <1>14, RunFrame DEF DeadlockVictim
<1>15. ASSUME NEW h \in Handlers, RequestLost(h) PROVE RunInv'
  BY <1>15, RunFrame DEF RequestLost
<1>16. ASSUME NEW h \in Handlers, NEW p \in Projects, StartUnplanned(h, p) PROVE RunInv'
  BY <1>16, RunFrame DEF StartUnplanned
<1>17. ASSUME NEW h \in Handlers, NEW p \in Projects, StartChecked(h, p) PROVE RunInv'
  BY <1>17, RunFrame DEF StartChecked
<1>18. ASSUME NEW h \in Handlers, NEW p \in Projects, DeleteMedia(h, p) PROVE RunInv'
  BY <1>18, RunFrame DEF DeleteMedia
<1>19. ASSUME NEW p \in Projects, CreateFromUrl(p) PROVE RunInv'
  BY <1>19 DEF CreateFromUrl, RunInv, Exists, Fetching, NoDownloadLeft, FreshProjects
<1>20. ASSUME NEW p \in Projects, TaskGone(p) PROVE RunInv'
  BY <1>20 DEF TaskGone, RunInv, Exists, Fetching, NoDownloadLeft
<1>21. ASSUME NEW p \in Projects, TaskStarts(p) PROVE RunInv'
  BY <1>21 DEF TaskStarts, RunInv, Exists, Fetching, NoDownloadLeft
<1>22. ASSUME NEW p \in Projects, DownloadFails(p) PROVE RunInv'
  BY <1>22 DEF DownloadFails, RunInv, Exists, Fetching, NoDownloadLeft
<1>23. ASSUME NEW p \in Projects, StoreDownload(p) PROVE RunInv'
  BY <1>23 DEF StoreDownload, RunInv, Exists, Fetching, NoDownloadLeft
<1>24. ASSUME NEW p \in Projects, CommitSource(p) PROVE RunInv'
  BY <1>24 DEF CommitSource, RunInv, Exists, Fetching, NoDownloadLeft
<1>25. ASSUME NEW p \in Projects, CommitSourceGone(p) PROVE RunInv'
  BY <1>25 DEF CommitSourceGone, RunInv, Exists, Fetching, NoDownloadLeft
<1>26. ASSUME NEW p \in Projects, RunSucceeds(p) PROVE RunInv'
  BY <1>26 DEF RunSucceeds, RunInv, Exists, Fetching, NoDownloadLeft
<1>27. ASSUME NEW p \in Projects, RunFails(p) PROVE RunInv'
  BY <1>27 DEF RunFails, RunInv, Exists, Fetching, NoDownloadLeft
<1>28. ASSUME NEW p \in Projects, WorkerLost(p) PROVE RunInv'
  BY <1>28 DEF WorkerLost, RunInv, Exists, Fetching, NoDownloadLeft
<1>29. ASSUME NewMonth PROVE RunInv'
  BY <1>29, RunFrame DEF NewMonth
<1>30. CASE UNCHANGED vars
  BY <1>30, RunFrame DEF vars
<1>31. ASSUME NEW h \in Handlers, UsageSummary(h) PROVE RunInv'
  BY <1>31, RunFrame DEF UsageSummary
<1>32. ASSUME NEW p \in Projects, Rerendered(p) PROVE RunInv'
  BY <1>32, RunFrame DEF Rerendered
<1>33. ASSUME NEW p \in Projects, LookForUsage(p) PROVE RunInv'
  BY <1>33, RunFrame DEF LookForUsage
<1>34. ASSUME NEW p \in Projects, RecordUsage(p) PROVE RunInv'
  BY <1>34, RunFrame DEF RecordUsage
<1>35. ASSUME NEW p \in Projects, FinalizerLost(p) PROVE RunInv'
  BY <1>35, RunFrame DEF FinalizerLost
<1> QED BY <1>1, <1>2, <1>3, <1>4, <1>5, <1>6, <1>7, <1>8, <1>9, <1>10, <1>11, <1>12,
         <1>13, <1>14, <1>15, <1>16, <1>17, <1>18, <1>19, <1>20, <1>21, <1>22, <1>23,
         <1>24, <1>25, <1>26, <1>27, <1>28, <1>29, <1>30, <1>31,
         <1>32, <1>33, <1>34, <1>35
     DEF Next, RequestStep, UploadStep, StartStep, DeleteStep, WorkerStep, FinalizerStep, AtRest

----
\* Who holds a stored file: one row, one worker or one upload, and none that a deletion
\* has removed.
Uploads(h, f) == request[h].pc \in UploadPc /\ request[h].file = f
Deletes(h, p) == request[h].pc \in DeletePc /\ request[h].project = p

HoldInv ==
    /\ \A p \in Projects : path[p] # None => Exists(p)
    /\ \A p, q \in Projects : path[p] # None /\ path[p] = path[q] => p = q
    /\ \A p \in Projects : fetched[p] # None <=> worker[p] = "storing"
    /\ \A p, q \in Projects : fetched[p] # None => path[q] # fetched[p]
    /\ \A p, q \in Projects : fetched[p] # None /\ fetched[p] = fetched[q] => p = q
    /\ \A p \in Projects : \A h \in Handlers : ~Uploads(h, path[p]) /\ ~Uploads(h, fetched[p])
    /\ \A f \in Files : \A h, g \in Handlers : Uploads(h, f) /\ Uploads(g, f) => h = g

DiskInv ==
    /\ \A p \in Projects : fetched[p] # None => fetched[p] \in disk
    /\ \A f \in Files : \A h \in Handlers : Uploads(h, f) => f \in disk
    /\ \A h \in Handlers : request[h].pc \in DeletePc => request[h].file \notin disk
    /\ SourceOnDisk
    /\ FilesAccountedFor

\* A step that names and stores no file.
LEMMA HoldFrame ==
    ASSUME HoldInv, UNCHANGED <<path, fetched>>,
           \A p \in Projects : Exists(p) => Exists(p)',
           \A p \in Projects : worker'[p] = "storing" <=> worker[p] = "storing",
           \A h \in Handlers : \A f : Uploads(h, f)' => Uploads(h, f)
    PROVE  HoldInv'
BY DEF HoldInv

\* Every step leaves each file with at most one that is about to name it.
LEMMA HoldStep == TypeOK /\ RunInv /\ HoldInv /\ [Next]_vars => HoldInv'
<1> SUFFICES ASSUME TypeOK, RunInv, HoldInv, [Next]_vars PROVE HoldInv' OBVIOUS
<1> USE RequestTyped, LibraryIds
    DEF TypeOK, UploadPc, StartPc, DeletePc, rows, usage, finalizers, ingest, ghosts, bounds, Uploads, Exists
<1> USE DEF NewRequest, GoOn, Reply, AddRow, Step, Fail, Fault, ClearUsage
<1>1. ASSUME NEW h \in Handlers, UploadBegins(h) PROVE HoldInv'
  BY <1>1 DEF UploadBegins, HoldInv, FreshFiles, FreshProjects, RunInv, Fetching
<1>2. ASSUME NEW h \in Handlers, Streamed(h) PROVE HoldInv'
  BY <1>2, HoldFrame DEF Streamed
<1>3. ASSUME NEW h \in Handlers, Probed(h) PROVE HoldInv'
  BY <1>3, HoldFrame DEF Probed
<1>4. ASSUME NEW h \in Handlers, UploadRejected(h) PROVE HoldInv'
  BY <1>4, HoldFrame DEF UploadRejected
<1>5. ASSUME NEW h \in Handlers, SaveUpload(h) PROVE HoldInv'
  BY <1>5 DEF SaveUpload, HoldInv, FreshFiles, FreshProjects, RunInv, Fetching
<1>6. ASSUME NEW h \in Handlers, CreatePlan(h) PROVE HoldInv'
  <2>1. \/ request' = [request EXCEPT ![h] = Serving("checked", request[h].project, request[h].file)]
        \/ request' = [request EXCEPT ![h] = NoRequest]
    BY <1>6 DEF CreatePlan
  <2>2. request[h].pc = "planning" BY <1>6 DEF CreatePlan
  <2>3. /\ request'[h].pc \in {"checked", "idle"}
        /\ \A g \in Handlers \ {h} : request'[g] = request[g]
    BY <2>1
  <2>4. UNCHANGED <<status, path, worker, fetched, disk, strays, robbed>> BY <1>6 DEF CreatePlan
  <2>5. \A g \in Handlers : \A f : Uploads(g, f)' <=> Uploads(g, f) BY <2>2, <2>3
  <2>6. \A p \in Projects : Exists(p) => Exists(p)' BY <2>4
  <2>7. \A p \in Projects : worker'[p] = "storing" <=> worker[p] = "storing" BY <2>4
  <2>8. UNCHANGED <<path, fetched>> BY <2>4
  <2> HIDE DEF Uploads, Exists
  <2> QED BY ONLY <2>5, <2>6, <2>7, <2>8, HoldInv, HoldFrame
<1>7. ASSUME NEW h \in Handlers, StartRefused(h) PROVE HoldInv'
  BY <1>7, HoldFrame DEF StartRefused
<1>8. ASSUME NEW h \in Handlers, StartLock(h) PROVE HoldInv'
  BY <1>8, HoldFrame DEF StartLock
<1>9. ASSUME NEW h \in Handlers, StartCommit(h) PROVE HoldInv'
  BY <1>9, HoldFrame DEF StartCommit, RunInv, Locks
<1>10. ASSUME NEW h \in Handlers, StartUnqueued(h) PROVE HoldInv'
  BY <1>10, HoldFrame DEF StartUnqueued, RunInv, Locks
<1>11. ASSUME NEW h \in Handlers, DeleteClips(h) PROVE HoldInv'
  BY <1>11, HoldFrame DEF DeleteClips
<1>12. ASSUME NEW h \in Handlers, DeleteRow(h) PROVE HoldInv'
  BY <1>12 DEF DeleteRow, HoldInv, FreshFiles, FreshProjects, RunInv, Fetching
<1>13. ASSUME NEW h \in Handlers, DeleteGone(h) PROVE HoldInv'
  BY <1>13, HoldFrame DEF DeleteGone
<1>14. ASSUME NEW h \in Handlers, DeadlockVictim(h) PROVE HoldInv'
  BY <1>14, HoldFrame DEF DeadlockVictim
<1>15. ASSUME NEW h \in Handlers, RequestLost(h) PROVE HoldInv'
  BY <1>15, HoldFrame DEF RequestLost
<1>16. ASSUME NEW h \in Handlers, NEW p \in Projects, StartUnplanned(h, p) PROVE HoldInv'
  BY <1>16, HoldFrame DEF StartUnplanned
<1>17. ASSUME NEW h \in Handlers, NEW p \in Projects, StartChecked(h, p) PROVE HoldInv'
  BY <1>17, HoldFrame DEF StartChecked
<1>18. ASSUME NEW h \in Handlers, NEW p \in Projects, DeleteMedia(h, p) PROVE HoldInv'
  BY <1>18, HoldFrame DEF DeleteMedia
<1>19. ASSUME NEW p \in Projects, CreateFromUrl(p) PROVE HoldInv'
  BY <1>19 DEF CreateFromUrl, HoldInv, FreshFiles, FreshProjects, RunInv, Fetching
<1>20. ASSUME NEW p \in Projects, TaskGone(p) PROVE HoldInv'
  BY <1>20, HoldFrame DEF TaskGone
<1>21. ASSUME NEW p \in Projects, TaskStarts(p) PROVE HoldInv'
  BY <1>21, HoldFrame DEF TaskStarts
<1>22. ASSUME NEW p \in Projects, DownloadFails(p) PROVE HoldInv'
  BY <1>22, HoldFrame DEF DownloadFails
<1>23. ASSUME NEW p \in Projects, StoreDownload(p) PROVE HoldInv'
  BY <1>23 DEF StoreDownload, HoldInv, FreshFiles, FreshProjects, RunInv, Fetching
<1>24. ASSUME NEW p \in Projects, CommitSource(p) PROVE HoldInv'
  BY <1>24 DEF CommitSource, HoldInv, FreshFiles, FreshProjects, RunInv, Fetching
<1>25. ASSUME NEW p \in Projects, CommitSourceGone(p) PROVE HoldInv'
  BY <1>25 DEF CommitSourceGone, HoldInv, FreshFiles, FreshProjects, RunInv, Fetching
<1>26. ASSUME NEW p \in Projects, RunSucceeds(p) PROVE HoldInv'
  BY <1>26, HoldFrame DEF RunSucceeds
<1>27. ASSUME NEW p \in Projects, RunFails(p) PROVE HoldInv'
  BY <1>27, HoldFrame DEF RunFails
<1>28. ASSUME NEW p \in Projects, WorkerLost(p) PROVE HoldInv'
  BY <1>28 DEF WorkerLost, HoldInv, FreshFiles, FreshProjects, RunInv, Fetching
<1>29. ASSUME NewMonth PROVE HoldInv'
  BY <1>29, HoldFrame DEF NewMonth
<1>30. CASE UNCHANGED vars
  BY <1>30, HoldFrame DEF vars
<1>31. ASSUME NEW h \in Handlers, UsageSummary(h) PROVE HoldInv'
  BY <1>31, HoldFrame DEF UsageSummary
<1>32. ASSUME NEW p \in Projects, Rerendered(p) PROVE HoldInv'
  BY <1>32, HoldFrame DEF Rerendered
<1>33. ASSUME NEW p \in Projects, LookForUsage(p) PROVE HoldInv'
  BY <1>33, HoldFrame DEF LookForUsage
<1>34. ASSUME NEW p \in Projects, RecordUsage(p) PROVE HoldInv'
  BY <1>34, HoldFrame DEF RecordUsage
<1>35. ASSUME NEW p \in Projects, FinalizerLost(p) PROVE HoldInv'
  BY <1>35, HoldFrame DEF FinalizerLost
<1> QED BY <1>1, <1>2, <1>3, <1>4, <1>5, <1>6, <1>7, <1>8, <1>9, <1>10, <1>11, <1>12,
         <1>13, <1>14, <1>15, <1>16, <1>17, <1>18, <1>19, <1>20, <1>21, <1>22, <1>23,
         <1>24, <1>25, <1>26, <1>27, <1>28, <1>29, <1>30, <1>31,
         <1>32, <1>33, <1>34, <1>35
     DEF Next, RequestStep, UploadStep, StartStep, DeleteStep, WorkerStep, FinalizerStep, AtRest

\* Rows, claims on files and disk in step: a step that neither adds nor removes a file.
LEMMA DiskFrame ==
    ASSUME DiskInv, UNCHANGED <<path, fetched, disk>>, strays \subseteq strays',
           \A h \in Handlers : \A f :
               /\ Uploads(h, f)' => Uploads(h, f)
               /\ Uploads(h, f) => Uploads(h, f)' \/ f \in strays',
           \A h \in Handlers :
               (request[h].pc \in DeletePc)' =>
                   request[h].pc \in DeletePc /\ request'[h].file = request[h].file,
           \A p \in Projects :
               path[p] # None /\ (Deleting(p) \/ p \in robbed) => (Deleting(p) \/ p \in robbed)'
    PROVE  DiskInv'
<1>1. SourceOnDisk' BY DEF DiskInv, SourceOnDisk
<1>2. FilesAccountedFor'
  <2> SUFFICES ASSUME NEW f \in disk \ strays'
      PROVE  \/ \E p \in Projects : path[p] = f \/ fetched[p] = f
             \/ \E h \in Handlers : Uploads(h, f)'
    BY DEF FilesAccountedFor, Uploads
  <2> QED BY DEF DiskInv, FilesAccountedFor, Uploads
<1> QED BY <1>1, <1>2 DEF DiskInv

\* Every step keeps on disk what rows name and what requests and workers hold, and every
\* stored file accounted for.
LEMMA DiskStep == TypeOK /\ RunInv /\ HoldInv /\ DiskInv /\ [Next]_vars => DiskInv'
<1> SUFFICES ASSUME TypeOK, RunInv, HoldInv, DiskInv, [Next]_vars PROVE DiskInv' OBVIOUS
<1> USE RequestTyped, LibraryIds
    DEF TypeOK, UploadPc, StartPc, DeletePc, rows, usage, finalizers, ingest, ghosts, bounds, Uploads, Exists,
        Deleting
<1> USE DEF NewRequest, GoOn, Reply, AddRow, Step, Fail, Fault, ClearUsage
<1>1. ASSUME NEW h \in Handlers, UploadBegins(h) PROVE DiskInv'
  <2> USE <1>1 DEF UploadBegins, FreshFiles, FreshProjects
  <2>1. \A q \in Projects : fetched'[q] # None => fetched'[q] \in disk'
    BY DEF DiskInv, HoldInv
  <2>2. \A f \in Files : \A g \in Handlers : Uploads(g, f)' => f \in disk'
    BY DEF DiskInv, HoldInv
  <2>3. \A g \in Handlers : request'[g].pc \in DeletePc => request'[g].file \notin disk'
    BY DEF DiskInv, HoldInv
  <2>4. SourceOnDisk'
    <3>1. /\ request[h].pc = "idle" /\ request'[h].pc = "streaming"
          /\ \A g \in Handlers \ {h} : request'[g] = request[g]
      OBVIOUS
    <3>2. UNCHANGED <<path, robbed>> /\ disk \subseteq disk' OBVIOUS
    <3>3. \A q \in Projects : Deleting(q) => Deleting(q)' BY <3>1
    <3> HIDE DEF Deleting
    <3> QED BY ONLY <3>2, <3>3, DiskInv DEF DiskInv, SourceOnDisk
  <2>5. FilesAccountedFor'
    <3>1. PICK f \in Files : /\ disk' = disk \cup {f}
                            /\ request'[h].pc = "streaming" /\ request'[h].file = f
      OBVIOUS
    <3>2. request[h].pc = "idle" /\ \A g \in Handlers \ {h} : request'[g] = request[g] OBVIOUS
    <3>3. UNCHANGED <<path, fetched, strays>> OBVIOUS
    <3> QED BY ONLY <3>1, <3>2, <3>3, DiskInv, h \in Handlers
         DEF DiskInv, FilesAccountedFor, UploadPc
  <2> QED BY <2>1, <2>2, <2>3, <2>4, <2>5 DEF DiskInv
<1>2. ASSUME NEW h \in Handlers, Streamed(h) PROVE DiskInv'
  BY <1>2, DiskFrame DEF Streamed
<1>3. ASSUME NEW h \in Handlers, Probed(h) PROVE DiskInv'
  BY <1>3, DiskFrame DEF Probed
<1>4. ASSUME NEW h \in Handlers, UploadRejected(h) PROVE DiskInv'
  <2> USE <1>4 DEF UploadRejected, FreshFiles, FreshProjects
  <2>1. \A q \in Projects : fetched'[q] # None => fetched'[q] \in disk'
    BY DEF DiskInv, HoldInv
  <2>2. \A f \in Files : \A g \in Handlers : Uploads(g, f)' => f \in disk'
    BY DEF DiskInv, HoldInv
  <2>3. \A g \in Handlers : request'[g].pc \in DeletePc => request'[g].file \notin disk'
    BY DEF DiskInv, HoldInv
  <2>4. SourceOnDisk'
    <3>1. request[h].pc \in UploadPc /\ request'[h].pc = "idle" OBVIOUS
    <3>2. \A g \in Handlers \ {h} : request'[g] = request[g] OBVIOUS
    <3>3. UNCHANGED <<path, robbed>> OBVIOUS
    <3>4. \A q \in Projects : path[q] \in disk => path[q] \in disk' BY DEF HoldInv
    <3> QED BY <3>1, <3>2, <3>3, <3>4 DEF DiskInv, SourceOnDisk
  <2>5. FilesAccountedFor'
    BY DEF DiskInv, HoldInv, FilesAccountedFor, RunInv, Fetching
  <2> QED BY <2>1, <2>2, <2>3, <2>4, <2>5 DEF DiskInv
<1>5. ASSUME NEW h \in Handlers, SaveUpload(h) PROVE DiskInv'
  <2> USE <1>5 DEF SaveUpload, FreshFiles, FreshProjects
  <2>1. \A q \in Projects : fetched'[q] # None => fetched'[q] \in disk'
    BY DEF DiskInv, HoldInv
  <2>2. \A f \in Files : \A g \in Handlers : Uploads(g, f)' => f \in disk'
    BY DEF DiskInv, HoldInv
  <2>3. \A g \in Handlers : request'[g].pc \in DeletePc => request'[g].file \notin disk'
    BY DEF DiskInv, HoldInv
  <2>4. SourceOnDisk'
    BY DEF DiskInv, HoldInv, SourceOnDisk
  <2>5. FilesAccountedFor'
    <3>1. PICK q \in Projects : q \in FreshProjects /\ path' = [path EXCEPT ![q] = request[h].file]
      OBVIOUS
    <3>2. path[q] = None /\ path'[q] = request[h].file BY <3>1 DEF HoldInv
    <3>3. \A r \in Projects \ {q} : path'[r] = path[r] BY <3>1
    <3>4. \A g \in Handlers \ {h} : request'[g] = request[g] OBVIOUS
    <3>5. UNCHANGED <<disk, fetched, strays>> OBVIOUS
    <3> QED BY ONLY <3>2, <3>3, <3>4, <3>5, DiskInv, TypeOK, LibraryIds, q \in Projects
         DEF DiskInv, FilesAccountedFor, TypeOK
  <2> QED BY <2>1, <2>2, <2>3, <2>4, <2>5 DEF DiskInv
<1>6. ASSUME NEW h \in Handlers, CreatePlan(h) PROVE DiskInv'
  <2>1. \/ request' = [request EXCEPT ![h] = Serving("checked", request[h].project, request[h].file)]
        \/ request' = [request EXCEPT ![h] = NoRequest]
    BY <1>6 DEF CreatePlan
  <2>2. request[h].pc = "planning" BY <1>6 DEF CreatePlan
  <2>3. /\ request'[h].pc \in {"checked", "idle"}
        /\ \A g \in Handlers \ {h} : request'[g] = request[g]
    BY <2>1
  <2>4. UNCHANGED <<status, path, worker, fetched, disk, strays, robbed>> BY <1>6 DEF CreatePlan
  <2>5. \A g \in Handlers : \A f : Uploads(g, f)' <=> Uploads(g, f) BY <2>2, <2>3
  <2>6. \A g \in Handlers : request'[g].pc \in DeletePc \/ request[g].pc \in DeletePc =>
            request'[g] = request[g]
    BY <2>2, <2>3
  <2>7. \A p \in Projects : Deleting(p) => Deleting(p)' BY <2>6
  <2>8. \A g \in Handlers : \A f :
            /\ Uploads(g, f)' => Uploads(g, f)
            /\ Uploads(g, f) => Uploads(g, f)' \/ f \in strays'
    BY ONLY <2>5
  <2>9. \A g \in Handlers :
            (request[g].pc \in DeletePc)' =>
                request[g].pc \in DeletePc /\ request'[g].file = request[g].file
    BY <2>6
  <2>10. \A p \in Projects :
            path[p] # None /\ (Deleting(p) \/ p \in robbed) => (Deleting(p) \/ p \in robbed)'
    BY <2>4, <2>7
  <2>11. UNCHANGED <<path, fetched, disk>> /\ strays \subseteq strays' BY <2>4
  <2> HIDE DEF Uploads, Deleting, DeletePc
  <2> QED BY ONLY <2>8, <2>9, <2>10, <2>11, DiskInv, DiskFrame
<1>7. ASSUME NEW h \in Handlers, StartRefused(h) PROVE DiskInv'
  BY <1>7, DiskFrame DEF StartRefused
<1>8. ASSUME NEW h \in Handlers, StartLock(h) PROVE DiskInv'
  BY <1>8, DiskFrame DEF StartLock
<1>9. ASSUME NEW h \in Handlers, StartCommit(h) PROVE DiskInv'
  BY <1>9, DiskFrame DEF StartCommit
<1>10. ASSUME NEW h \in Handlers, StartUnqueued(h) PROVE DiskInv'
  BY <1>10, DiskFrame DEF StartUnqueued
<1>11. ASSUME NEW h \in Handlers, DeleteClips(h) PROVE DiskInv'
  <2> USE <1>11 DEF DeleteClips
  <2>1. \A g \in Handlers \ {h} : request'[g] = request[g] OBVIOUS
  <2>2. /\ request[h].pc = "deletingClips" /\ request'[h].pc = "deletingRow"
        /\ request'[h].file = request[h].file /\ request'[h].project = request[h].project
    OBVIOUS
  <2>3. UNCHANGED <<path, fetched, disk, strays, robbed>> OBVIOUS
  <2> QED BY ONLY <2>1, <2>2, <2>3, DiskInv, DiskFrame, h \in Handlers
       DEF Uploads, Deleting, UploadPc, DeletePc
<1>12. ASSUME NEW h \in Handlers, DeleteRow(h) PROVE DiskInv'
  <2> USE <1>12 DEF DeleteRow, FreshFiles, FreshProjects
  <2>1. \A q \in Projects : fetched'[q] # None => fetched'[q] \in disk'
    BY DEF DiskInv, HoldInv
  <2>2. \A f \in Files : \A g \in Handlers : Uploads(g, f)' => f \in disk'
    BY DEF DiskInv, HoldInv
  <2>3. \A g \in Handlers : request'[g].pc \in DeletePc => request'[g].file \notin disk'
    BY DEF DiskInv, HoldInv
  <2>4. SourceOnDisk'
    BY DEF DiskInv, HoldInv, SourceOnDisk
  <2>5. FilesAccountedFor'
    BY SMTT(30) DEF DiskInv, HoldInv, FilesAccountedFor, RunInv, Fetching
  <2> QED BY <2>1, <2>2, <2>3, <2>4, <2>5 DEF DiskInv
<1>13. ASSUME NEW h \in Handlers, DeleteGone(h) PROVE DiskInv'
  BY <1>13, DiskFrame DEF DeleteGone, HoldInv, Robbed
<1>14. ASSUME NEW h \in Handlers, DeadlockVictim(h) PROVE DiskInv'
  BY <1>14, DiskFrame DEF DeadlockVictim, HoldInv, Robbed
<1>15. ASSUME NEW h \in Handlers, RequestLost(h) PROVE DiskInv'
  BY <1>15, DiskFrame DEF RequestLost, HoldInv, Robbed
<1>16. ASSUME NEW h \in Handlers, NEW p \in Projects, StartUnplanned(h, p) PROVE DiskInv'
  BY <1>16, DiskFrame DEF StartUnplanned
<1>17. ASSUME NEW h \in Handlers, NEW p \in Projects, StartChecked(h, p) PROVE DiskInv'
  BY <1>17, DiskFrame DEF StartChecked
<1>18. ASSUME NEW h \in Handlers, NEW p \in Projects, DeleteMedia(h, p) PROVE DiskInv'
  <2> USE <1>18 DEF DeleteMedia, FreshFiles, FreshProjects
  <2>1. \A q \in Projects : fetched'[q] # None => fetched'[q] \in disk'
    BY DEF DiskInv, HoldInv
  <2>2. \A f \in Files : \A g \in Handlers : Uploads(g, f)' => f \in disk'
    BY DEF DiskInv, HoldInv
  <2>3. \A g \in Handlers : request'[g].pc \in DeletePc => request'[g].file \notin disk'
    BY DEF DiskInv, HoldInv
  <2>4. SourceOnDisk'
    <3>1. request[h].pc = "idle" /\ Deleting(p)' OBVIOUS
    <3>2. \A g \in Handlers \ {h} : request'[g] = request[g] OBVIOUS
    <3>3. \A q \in Projects : Deleting(q) => Deleting(q)' BY <3>1, <3>2
    <3>4. UNCHANGED <<path, robbed>> OBVIOUS
    <3>5. \A q \in Projects \ {p} : path[q] # None /\ path[q] \in disk => path[q] \in disk'
      BY DEF HoldInv
    <3> HIDE DEF Deleting
    <3> QED BY ONLY <3>1, <3>3, <3>4, <3>5, DiskInv DEF DiskInv, SourceOnDisk
  <2>5. FilesAccountedFor'
    <3>1. request[h].pc = "idle" /\ \A g \in Handlers \ {h} : request'[g] = request[g] OBVIOUS
    <3>2. UNCHANGED <<path, fetched, strays>> /\ disk' \subseteq disk OBVIOUS
    <3> QED BY ONLY <3>1, <3>2, DiskInv DEF DiskInv, FilesAccountedFor, UploadPc
  <2> QED BY <2>1, <2>2, <2>3, <2>4, <2>5 DEF DiskInv
<1>19. ASSUME NEW p \in Projects, CreateFromUrl(p) PROVE DiskInv'
  <2> USE <1>19 DEF CreateFromUrl, FreshFiles, FreshProjects
  <2>1. \A q \in Projects : fetched'[q] # None => fetched'[q] \in disk'
    BY DEF DiskInv, HoldInv
  <2>2. \A f \in Files : \A g \in Handlers : Uploads(g, f)' => f \in disk'
    BY DEF DiskInv, HoldInv
  <2>3. \A g \in Handlers : request'[g].pc \in DeletePc => request'[g].file \notin disk'
    BY DEF DiskInv, HoldInv
  <2>4. SourceOnDisk'
    BY DEF DiskInv, HoldInv, SourceOnDisk
  <2>5. FilesAccountedFor'
    BY DEF DiskInv, HoldInv, FilesAccountedFor, RunInv, Fetching
  <2> QED BY <2>1, <2>2, <2>3, <2>4, <2>5 DEF DiskInv
<1>20. ASSUME NEW p \in Projects, TaskGone(p) PROVE DiskInv'
  BY <1>20, DiskFrame DEF TaskGone
<1>21. ASSUME NEW p \in Projects, TaskStarts(p) PROVE DiskInv'
  BY <1>21, DiskFrame DEF TaskStarts
<1>22. ASSUME NEW p \in Projects, DownloadFails(p) PROVE DiskInv'
  BY <1>22, DiskFrame DEF DownloadFails
<1>23. ASSUME NEW p \in Projects, StoreDownload(p) PROVE DiskInv'
  <2> USE <1>23 DEF StoreDownload, FreshFiles
  <2>1. \A q \in Projects : fetched'[q] # None => fetched'[q] \in disk'
    BY DEF DiskInv, HoldInv
  <2>2. \A f \in Files : \A g \in Handlers : Uploads(g, f)' => f \in disk'
    BY DEF DiskInv, HoldInv
  <2>3. \A g \in Handlers : request'[g].pc \in DeletePc => request'[g].file \notin disk'
    BY DEF DiskInv, HoldInv
  <2>4. SourceOnDisk'
    BY DEF DiskInv, HoldInv, SourceOnDisk
  <2>5. FilesAccountedFor'
    BY SMTT(30) DEF DiskInv, HoldInv, FilesAccountedFor
  <2> QED BY <2>1, <2>2, <2>3, <2>4, <2>5 DEF DiskInv
<1>24. ASSUME NEW p \in Projects, CommitSource(p) PROVE DiskInv'
  <2> USE <1>24 DEF CommitSource, FreshFiles, FreshProjects
  <2>1. \A q \in Projects : fetched'[q] # None => fetched'[q] \in disk'
    BY DEF DiskInv, HoldInv
  <2>2. \A f \in Files : \A g \in Handlers : Uploads(g, f)' => f \in disk'
    BY DEF DiskInv, HoldInv
  <2>3. \A g \in Handlers : request'[g].pc \in DeletePc => request'[g].file \notin disk'
    BY DEF DiskInv, HoldInv
  <2>4. SourceOnDisk'
    BY DEF DiskInv, HoldInv, SourceOnDisk
  <2>5. FilesAccountedFor'
    BY DEF DiskInv, HoldInv, FilesAccountedFor, RunInv, Fetching
  <2> QED BY <2>1, <2>2, <2>3, <2>4, <2>5 DEF DiskInv
<1>25. ASSUME NEW p \in Projects, CommitSourceGone(p) PROVE DiskInv'
  <2> USE <1>25 DEF CommitSourceGone, FreshFiles
  <2>1. \A q \in Projects : fetched'[q] # None => fetched'[q] \in disk'
    BY DEF DiskInv, HoldInv
  <2>2. \A f \in Files : \A g \in Handlers : Uploads(g, f)' => f \in disk'
    BY DEF DiskInv, HoldInv
  <2>3. \A g \in Handlers : request'[g].pc \in DeletePc => request'[g].file \notin disk'
    BY DEF DiskInv, HoldInv
  <2>4. SourceOnDisk'
    BY DEF DiskInv, HoldInv, SourceOnDisk
  <2>5. FilesAccountedFor'
    BY DEF DiskInv, HoldInv, FilesAccountedFor
  <2> QED BY <2>1, <2>2, <2>3, <2>4, <2>5 DEF DiskInv
<1>26. ASSUME NEW p \in Projects, RunSucceeds(p) PROVE DiskInv'
  BY <1>26, DiskFrame DEF RunSucceeds
<1>27. ASSUME NEW p \in Projects, RunFails(p) PROVE DiskInv'
  BY <1>27, DiskFrame DEF RunFails
<1>28. ASSUME NEW p \in Projects, WorkerLost(p) PROVE DiskInv'
  <2> USE <1>28 DEF WorkerLost, FreshFiles, FreshProjects
  <2>1. \A q \in Projects : fetched'[q] # None => fetched'[q] \in disk'
    BY DEF DiskInv, HoldInv
  <2>2. \A f \in Files : \A g \in Handlers : Uploads(g, f)' => f \in disk'
    BY DEF DiskInv, HoldInv
  <2>3. \A g \in Handlers : request'[g].pc \in DeletePc => request'[g].file \notin disk'
    BY DEF DiskInv, HoldInv
  <2>4. SourceOnDisk'
    BY DEF DiskInv, HoldInv, SourceOnDisk
  <2>5. FilesAccountedFor'
    BY DEF DiskInv, HoldInv, FilesAccountedFor, RunInv, Fetching
  <2> QED BY <2>1, <2>2, <2>3, <2>4, <2>5 DEF DiskInv
<1>29. ASSUME NewMonth PROVE DiskInv'
  BY <1>29, DiskFrame DEF NewMonth
<1>30. CASE UNCHANGED vars
  BY <1>30, DiskFrame DEF vars
<1>31. ASSUME NEW h \in Handlers, UsageSummary(h) PROVE DiskInv'
  BY <1>31, DiskFrame DEF UsageSummary
<1>32. ASSUME NEW p \in Projects, Rerendered(p) PROVE DiskInv'
  BY <1>32, DiskFrame DEF Rerendered
<1>33. ASSUME NEW p \in Projects, LookForUsage(p) PROVE DiskInv'
  BY <1>33, DiskFrame DEF LookForUsage
<1>34. ASSUME NEW p \in Projects, RecordUsage(p) PROVE DiskInv'
  BY <1>34, DiskFrame DEF RecordUsage
<1>35. ASSUME NEW p \in Projects, FinalizerLost(p) PROVE DiskInv'
  BY <1>35, DiskFrame DEF FinalizerLost
<1> QED BY <1>1, <1>2, <1>3, <1>4, <1>5, <1>6, <1>7, <1>8, <1>9, <1>10, <1>11, <1>12,
         <1>13, <1>14, <1>15, <1>16, <1>17, <1>18, <1>19, <1>20, <1>21, <1>22, <1>23,
         <1>24, <1>25, <1>26, <1>27, <1>28, <1>29, <1>30, <1>31,
         <1>32, <1>33, <1>34, <1>35
     DEF Next, RequestStep, UploadStep, StartStep, DeleteStep, WorkerStep, FinalizerStep, AtRest

\* Nothing is stored or held at first.
LEMMA HoldingInit == Init => RunInv /\ HoldInv /\ DiskInv
BY RequestTyped DEF Init, RunInv, HoldInv, DiskInv, Locks, Fetching, Uploads, Exists,
   NoDownloadLeft, SourceOnDisk, FilesAccountedFor, UploadPc, StartPc, DeletePc

\* Rows, disk, requests and workers stay in step.
LEMMA Holding == Spec => [](TypeOK /\ RunInv /\ HoldInv /\ DiskInv)
<1> DEFINE IInv == TypeOK /\ RunInv /\ HoldInv /\ DiskInv
<1>1. Init => IInv BY LibraryTypeInit, HoldingInit
<1>2. IInv /\ [Next]_vars => IInv' BY LibraryTypeStep, RunStep, HoldStep, DiskStep
<1> QED BY <1>1, <1>2, PTL DEF Spec

\* No row names a file that is gone, but for a deletion under way or failed: the commit
\* that names a file follows its write, and delete_project removes only what its row named.
THEOREM SourcesAreOnDisk == Spec => []SourceOnDisk
<1>1. DiskInv => SourceOnDisk BY DEF DiskInv
<1> QED BY <1>1, Holding, PTL

\* No stored file is forgotten without a crash, a failed commit or a deletion during the
\* download: every refusal of _ingest_upload removes what save_stream stored.
THEOREM NoFileForgotten == Spec => []FilesAccountedFor
<1>1. DiskInv => FilesAccountedFor BY DEF DiskInv
<1> QED BY <1>1, Holding, PTL

\* download_youtube_video leaves no directory behind unless its worker is lost.
THEOREM DownloadsAreCleared == Spec => []NoDownloadLeft
<1>1. RunInv => NoDownloadLeft BY DEF RunInv
<1> QED BY <1>1, Holding, PTL

----
\* This month's records of live projects are finitely many.
LEMMA RecordedFinite ==
    ASSUME TypeOK
    PROVE  IsFiniteSet(Recorded) /\ Cardinality(Recorded) \in Nat
<1> DEFINE own == [p \in Projects |-> {p} \X ((past[p] + 1)..bill[p])]
<1>1. \A p \in Projects : IsFiniteSet(own[p])
  <2> SUFFICES ASSUME NEW p \in Projects PROVE IsFiniteSet(own[p]) OBVIOUS
  <2>1. past[p] + 1 \in Int /\ bill[p] \in Int BY DEF TypeOK
  <2>2. IsFiniteSet((past[p] + 1)..bill[p]) BY ONLY <2>1, FS_Interval
  <2>3. IsFiniteSet({p}) BY FS_Singleton
  <2> QED BY <2>2, <2>3, FS_Product
<1>2. IsFiniteSet({own[p] : p \in Projects})
  <2> DEFINE all == {own[p] : p \in Projects}
  <2>1. own \in Surjection(Projects, all)
    <3> HIDE DEF own
    <3>1. own \in [Projects -> all] BY own = [p \in Projects |-> own[p]] DEF own
    <3> QED BY <3>1 DEF Surjection
  <2> QED BY <2>1, LibraryIds, FS_Surjection DEF ExistsSurjection
<1>3. Recorded = UNION {own[p] : p \in Projects} BY DEF Recorded
<1>4. IsFiniteSet(Recorded)
  <2> HIDE DEF own
  <2> QED BY <1>1, <1>2, <1>3, FS_UNION
<1> QED BY <1>4, FS_CardinalityType

\* A deletion moves its records from one to the other, and no step does both a deletion
\* and anything else to the records.
LEMMA DeletionKeepsUsed ==
    ASSUME TypeOK, [Next]_vars, NEW p \in Projects, Exists(p), ~Exists(p)'
    PROVE  Used' = Used
<1>1. PICK h \in Handlers : DeleteRow(h)
  BY LibraryIds, SMTT(30) DEF TypeOK, Exists, Next, RequestStep, UploadStep, StartStep, DeleteStep, WorkerStep,
     FinalizerStep, AtRest, vars, rows, UploadBegins, Streamed, Probed, UploadRejected, SaveUpload, CreatePlan,
     StartRefused, StartLock, StartCommit, StartUnqueued, DeleteClips, DeleteGone, DeadlockVictim,
     RequestLost, StartUnplanned, StartChecked, UsageSummary, DeleteMedia, CreateFromUrl, TaskGone, TaskStarts,
     DownloadFails, StoreDownload, CommitSource, CommitSourceGone, RunSucceeds, RunFails,
     WorkerLost, NewMonth, AddRow, Fail, FreshProjects, Rerendered, LookForUsage, RecordUsage, FinalizerLost
<1> DEFINE q == request[h].project
           gone == {q} \X ((past[q] + 1)..bill[q])
<1>2. /\ q \in Projects
      /\ kept' = kept + (bill[q] - past[q])
      /\ bill' = [bill EXCEPT ![q] = 0]
      /\ past' = [past EXCEPT ![q] = 0]
  BY <1>1, RequestTyped DEF DeleteRow, TypeOK, UploadPc, StartPc, DeletePc, KeptWithout, ClearUsage
<1>3. /\ kept \in Nat /\ bill \in [Projects -> Nat] /\ past \in [Projects -> Nat]
      /\ past[q] <= bill[q]
  BY <1>2 DEF TypeOK
<1> HIDE DEF q
<1>4. Cardinality(gone) = bill[q] - past[q]
  <2>1. past[q] + 1 \in Int /\ bill[q] \in Int BY ONLY <1>2, <1>3
  <2>2. /\ IsFiniteSet((past[q] + 1)..bill[q])
        /\ Cardinality((past[q] + 1)..bill[q])
               = IF past[q] + 1 > bill[q] THEN 0 ELSE bill[q] - (past[q] + 1) + 1
    BY ONLY <2>1, FS_Interval
  <2>3. Cardinality((past[q] + 1)..bill[q]) = bill[q] - past[q] BY ONLY <1>2, <1>3, <2>2
  <2>4. IsFiniteSet({q}) /\ Cardinality({q}) = 1 BY ONLY FS_Singleton
  <2>5. Cardinality(gone) = Cardinality({q}) * Cardinality((past[q] + 1)..bill[q])
    BY ONLY <2>2, <2>4, FS_Product
  <2>6. 1 * (bill[q] - past[q]) = bill[q] - past[q] BY ONLY <1>2, <1>3
  <2> QED BY ONLY <2>3, <2>4, <2>5, <2>6
<1>5. gone \subseteq Recorded BY <1>2 DEF Recorded
<1>6. Recorded' = Recorded \ gone
  <2>1. \A r \in Projects : {r} \X ((past'[r] + 1)..bill'[r]) =
            IF r = q THEN {} ELSE {r} \X ((past[r] + 1)..bill[r])
    BY ONLY <1>2, <1>3
  <2>2. Recorded' \subseteq Recorded \ gone BY ONLY <2>1 DEF Recorded
  <2>3. Recorded \ gone \subseteq Recorded' BY ONLY <2>1 DEF Recorded
  <2> QED BY ONLY <2>2, <2>3
<1>7. Cardinality(Recorded') = Cardinality(Recorded) - (bill[q] - past[q])
  <2>1. Recorded \cap gone = gone BY ONLY <1>5
  <2>2. Cardinality(Recorded \ gone) = Cardinality(Recorded) - Cardinality(Recorded \cap gone)
    BY RecordedFinite, FS_Difference
  <2> QED BY ONLY <2>1, <2>2, <1>4, <1>6
<1> QED BY ONLY <1>2, <1>3, <1>7, RecordedFinite, TypeOK DEF Used

\* delete_project gives back nothing of the quota its runs used: usage_records outlive the
\* project, their project_id set to null.
THEOREM UsageOutlivesProject == Spec => DeletionKeepsUsage
<1>1. TypeOK /\ [Next]_vars =>
          [\A p \in Projects : Exists(p) /\ ~Exists(p)' => Used' = Used]_vars
  BY DeletionKeepsUsed
<1> QED BY <1>1, LibraryTypes, PTL DEF Spec, DeletionKeepsUsage

----
\* The finalizers of a project that are at work at once are what its records can come
\* from: once one is there, the others that found none are the last to add theirs.
BillInv ==
    /\ \A p \in Projects : Finalizing(p) <= Together
    /\ \A p \in Projects : bill[p] + recording[p] <= Together
    /\ \A p \in Projects : bill[p] > 0 => Exists(p)

\* A step that records nothing, has no finalizer do anything and deletes no project.
LEMMA BillFrame ==
    ASSUME BillInv, UNCHANGED <<bill, looking, recording>>,
           \A p \in Projects : Exists(p) => Exists(p)'
    PROVE  BillInv'
BY DEF BillInv, Finalizing

\* A step that starts or deletes a project and clears its records.
LEMMA BillCleared ==
    ASSUME TypeOK, BillInv, NEW q \in Projects, bill' = [bill EXCEPT ![q] = 0],
           UNCHANGED <<looking, recording>>, \A p \in Projects \ {q} : Exists(p) => Exists(p)'
    PROVE  BillInv'
BY AmountsAssumption DEF BillInv, Finalizing, TypeOK

\* No step lets a project have more records, and finalizers about to add one, than it may
\* have finalizers at once.
LEMMA BillStep == TypeOK /\ BillInv /\ [Next]_vars => BillInv'
<1> SUFFICES ASSUME TypeOK, BillInv, [Next]_vars PROVE BillInv' OBVIOUS
<1> USE RequestTyped, LibraryIds, AmountsAssumption
    DEF TypeOK, UploadPc, StartPc, DeletePc, rows, usage, finalizers, ingest, ghosts, bounds, Exists
<1> USE DEF NewRequest, GoOn, Reply, AddRow, Step, Fail, Fault, ClearUsage
<1>1. ASSUME NEW h \in Handlers, UploadBegins(h) PROVE BillInv'
  BY <1>1, BillFrame DEF UploadBegins
<1>2. ASSUME NEW h \in Handlers, Streamed(h) PROVE BillInv'
  BY <1>2, BillFrame DEF Streamed
<1>3. ASSUME NEW h \in Handlers, Probed(h) PROVE BillInv'
  BY <1>3, BillFrame DEF Probed
<1>4. ASSUME NEW h \in Handlers, UploadRejected(h) PROVE BillInv'
  BY <1>4, BillFrame DEF UploadRejected
<1>5. ASSUME NEW h \in Handlers, SaveUpload(h) PROVE BillInv'
  BY <1>5, BillFrame DEF SaveUpload, FreshProjects
<1>6. ASSUME NEW h \in Handlers, CreatePlan(h) PROVE BillInv'
  BY <1>6, BillFrame DEF CreatePlan
<1>7. ASSUME NEW h \in Handlers, StartRefused(h) PROVE BillInv'
  BY <1>7, BillFrame DEF StartRefused
<1>8. ASSUME NEW h \in Handlers, StartLock(h) PROVE BillInv'
  BY <1>8, BillFrame DEF StartLock
<1>9. ASSUME NEW h \in Handlers, StartCommit(h) PROVE BillInv'
  <2>1. request[h].project \in Projects /\ bill' = [bill EXCEPT ![request[h].project] = 0]
    BY <1>9 DEF StartCommit
  <2>2. UNCHANGED <<looking, recording>> BY <1>9 DEF StartCommit
  <2>3. \A p \in Projects \ {request[h].project} : Exists(p) => Exists(p)' BY <1>9 DEF StartCommit
  <2> QED BY ONLY TypeOK, BillInv, <2>1, <2>2, <2>3, BillCleared
<1>10. ASSUME NEW h \in Handlers, StartUnqueued(h) PROVE BillInv'
  <2>1. request[h].project \in Projects /\ bill' = [bill EXCEPT ![request[h].project] = 0]
    BY <1>10 DEF StartUnqueued
  <2>2. UNCHANGED <<looking, recording>> BY <1>10 DEF StartUnqueued
  <2>3. \A p \in Projects \ {request[h].project} : Exists(p) => Exists(p)' BY <1>10 DEF StartUnqueued
  <2> QED BY ONLY TypeOK, BillInv, <2>1, <2>2, <2>3, BillCleared
<1>11. ASSUME NEW h \in Handlers, DeleteClips(h) PROVE BillInv'
  BY <1>11, BillFrame DEF DeleteClips
<1>12. ASSUME NEW h \in Handlers, DeleteRow(h) PROVE BillInv'
  <2>1. request[h].project \in Projects /\ bill' = [bill EXCEPT ![request[h].project] = 0]
    BY <1>12 DEF DeleteRow
  <2>2. UNCHANGED <<looking, recording>> BY <1>12 DEF DeleteRow
  <2>3. \A p \in Projects \ {request[h].project} : Exists(p) => Exists(p)' BY <1>12 DEF DeleteRow
  <2> QED BY ONLY TypeOK, BillInv, <2>1, <2>2, <2>3, BillCleared
<1>13. ASSUME NEW h \in Handlers, DeleteGone(h) PROVE BillInv'
  BY <1>13, BillFrame DEF DeleteGone
<1>14. ASSUME NEW h \in Handlers, DeadlockVictim(h) PROVE BillInv'
  BY <1>14, BillFrame DEF DeadlockVictim
<1>15. ASSUME NEW h \in Handlers, RequestLost(h) PROVE BillInv'
  BY <1>15, BillFrame DEF RequestLost
<1>16. ASSUME NEW h \in Handlers, NEW p \in Projects, StartUnplanned(h, p) PROVE BillInv'
  BY <1>16, BillFrame DEF StartUnplanned
<1>17. ASSUME NEW h \in Handlers, NEW p \in Projects, StartChecked(h, p) PROVE BillInv'
  BY <1>17, BillFrame DEF StartChecked
<1>18. ASSUME NEW h \in Handlers, NEW p \in Projects, DeleteMedia(h, p) PROVE BillInv'
  BY <1>18, BillFrame DEF DeleteMedia
<1>19. ASSUME NEW p \in Projects, CreateFromUrl(p) PROVE BillInv'
  BY <1>19, BillFrame DEF CreateFromUrl, FreshProjects
<1>20. ASSUME NEW p \in Projects, TaskGone(p) PROVE BillInv'
  BY <1>20, BillFrame DEF TaskGone
<1>21. ASSUME NEW p \in Projects, TaskStarts(p) PROVE BillInv'
  BY <1>21, BillFrame DEF TaskStarts
<1>22. ASSUME NEW p \in Projects, DownloadFails(p) PROVE BillInv'
  BY <1>22, BillFrame DEF DownloadFails
<1>23. ASSUME NEW p \in Projects, StoreDownload(p) PROVE BillInv'
  BY <1>23, BillFrame DEF StoreDownload
<1>24. ASSUME NEW p \in Projects, CommitSource(p) PROVE BillInv'
  BY <1>24, BillFrame DEF CommitSource
<1>25. ASSUME NEW p \in Projects, CommitSourceGone(p) PROVE BillInv'
  BY <1>25, BillFrame DEF CommitSourceGone
<1>26. ASSUME NEW p \in Projects, RunSucceeds(p) PROVE BillInv'
  BY <1>26 DEF RunSucceeds, BillInv, Finalizing
<1>27. ASSUME NEW p \in Projects, RunFails(p) PROVE BillInv'
  BY <1>27, BillFrame DEF RunFails
<1>28. ASSUME NEW p \in Projects, WorkerLost(p) PROVE BillInv'
  BY <1>28, BillFrame DEF WorkerLost
<1>29. ASSUME NewMonth PROVE BillInv'
  BY <1>29, BillFrame DEF NewMonth
<1>30. CASE UNCHANGED vars
  BY <1>30, BillFrame DEF vars
<1>31. ASSUME NEW h \in Handlers, UsageSummary(h) PROVE BillInv'
  BY <1>31, BillFrame DEF UsageSummary
<1>32. ASSUME NEW p \in Projects, Rerendered(p) PROVE BillInv'
  BY <1>32 DEF Rerendered, BillInv, Finalizing
<1>33. ASSUME NEW p \in Projects, LookForUsage(p) PROVE BillInv'
  BY <1>33 DEF LookForUsage, BillInv, Finalizing
<1>34. ASSUME NEW p \in Projects, RecordUsage(p) PROVE BillInv'
  BY <1>34 DEF RecordUsage, BillInv, Finalizing
<1>35. ASSUME NEW p \in Projects, FinalizerLost(p) PROVE BillInv'
  <2>1. /\ \A q \in Projects : looking'[q] <= looking[q] /\ recording'[q] <= recording[q]
        /\ looking' \in [Projects -> Nat] /\ recording' \in [Projects -> Nat]
    BY ONLY <1>35, TypeOK DEF FinalizerLost, TypeOK
  <2>2. UNCHANGED <<bill, status>> BY <1>35 DEF FinalizerLost
  <2> QED BY ONLY <2>1, <2>2, TypeOK, BillInv, AmountsAssumption
       DEF BillInv, Finalizing, TypeOK, Exists
<1> QED BY <1>1, <1>2, <1>3, <1>4, <1>5, <1>6, <1>7, <1>8, <1>9, <1>10, <1>11, <1>12,
         <1>13, <1>14, <1>15, <1>16, <1>17, <1>18, <1>19, <1>20, <1>21, <1>22, <1>23,
         <1>24, <1>25, <1>26, <1>27, <1>28, <1>29, <1>30, <1>31,
         <1>32, <1>33, <1>34, <1>35
     DEF Next, RequestStep, UploadStep, StartStep, DeleteStep, WorkerStep, FinalizerStep, AtRest

----
\* The quota is read before a run is committed.  What can still come in after the last
\* look at it is the records of each project that has, runs or is about to run.
Starting(p) == \E h \in Handlers : request[h].pc \in {"checked", "locked"} /\ request[h].project = p
Spending(p) ==
    /\ Exists(p)
    /\ \/ bill[p] > 0 \/ Finalizing(p) > 0
       \/ status[p] \in {"active", "ready"} \/ Starting(p)
Spenders == {p \in Projects : Spending(p)}

\* As many records as the finalizers of these projects can add.
Room(S) == Cardinality(S) * Together

BudgetInv ==
    \E n \in 0..MinutesLimit : Within(n) /\ kept + Room(Spenders) <= n + Room(Projects)

\* A limit on minutes limits the number of runs.
LEMMA WithinBounds == \A n \in Nat : Within(n) => n \in 0..MinutesLimit
<1> SUFFICES ASSUME NEW n \in Nat, Within(n) PROVE n <= MinutesLimit OBVIOUS
<1>1. n * RunMinutes <= MinutesLimit BY DEF Within
<1>2. RunMinutes >= 1 /\ RunMinutes \in Nat /\ MinutesLimit \in Nat BY AmountsAssumption
<1>3. n * RunMinutes >= n
  <2>1. PICK m \in Nat : RunMinutes = m + 1
    <3>1. RunMinutes - 1 \in Nat /\ RunMinutes = (RunMinutes - 1) + 1 BY <1>2
    <3> QED BY <3>1
  <2>2. n * (m + 1) = n * m + n OBVIOUS
  <2>3. n * m \in Nat OBVIOUS
  <2> QED BY <2>1, <2>2, <2>3
<1>4. n * RunMinutes \in Nat BY <1>2
<1> QED BY <1>1, <1>2, <1>3, <1>4

\* Fewer projects have less room, by at least one project's when one is missing.
LEMMA RoomShrinks ==
    ASSUME NEW U, IsFiniteSet(U), NEW S, S \subseteq U
    PROVE  /\ Room(S) \in Nat /\ Room(U) \in Nat /\ Room(S) <= Room(U)
           /\ S # U => Room(S) + Together <= Room(U)
<1>1. /\ IsFiniteSet(S) /\ Cardinality(S) \in Nat /\ Cardinality(U) \in Nat
      /\ Cardinality(S) <= Cardinality(U)
      /\ S # U => Cardinality(S) < Cardinality(U)
  BY FS_Subset, FS_CardinalityType
<1>2. Together \in Nat BY AmountsAssumption
<1>3. \A a, d \in Nat : /\ (a + d) * Together = a * Together + d * Together
                        /\ d * Together \in Nat /\ (d + 1) * Together = d * Together + Together
  BY ONLY <1>2
<1>4. PICK d \in Nat : Cardinality(U) = Cardinality(S) + d
  <2>1. Cardinality(U) - Cardinality(S) \in Nat BY ONLY <1>1
  <2> QED BY ONLY <1>1, <2>1
<1>5. Room(U) = Room(S) + d * Together BY ONLY <1>1, <1>3, <1>4 DEF Room
<1>6. Room(S) \in Nat /\ d * Together \in Nat BY ONLY <1>1, <1>3 DEF Room
<1>7. S # U => d * Together >= Together
  <2>1. S # U => d - 1 \in Nat /\ d = (d - 1) + 1 BY ONLY <1>1, <1>4
  <2>2. S # U => d * Together = (d - 1) * Together + Together BY ONLY <1>3, <2>1
  <2> QED BY ONLY <1>2, <1>3, <2>1, <2>2
<1> QED BY ONLY <1>2, <1>5, <1>6, <1>7

\* The records of live projects fit into the room of those that spend.
LEMMA RecordedFits == TypeOK /\ BillInv => Cardinality(Recorded) <= Room(Spenders)
<1> SUFFICES ASSUME TypeOK, BillInv PROVE Cardinality(Recorded) <= Room(Spenders) OBVIOUS
<1>1. Recorded \subseteq Spenders \X (1..Together)
  <2> SUFFICES ASSUME NEW p \in Projects, NEW i \in (past[p] + 1)..bill[p]
               PROVE  p \in Spenders /\ i \in 1..Together
    BY DEF Recorded
  <2>1. past[p] \in Nat /\ bill[p] \in Nat /\ recording[p] \in Nat BY DEF TypeOK
  <2>2. i \in 1..Together /\ bill[p] > 0 BY <2>1, AmountsAssumption DEF BillInv
  <2> QED BY <2>2 DEF BillInv, Spenders, Spending
<1>2. IsFiniteSet(Spenders) BY LibraryIds, FS_Subset, Spenders \subseteq Projects DEF Spenders
<1>3. IsFiniteSet(1..Together) /\ Cardinality(1..Together) = Together
  <2>1. 1 \in Int /\ Together \in Int /\ ~(1 > Together) BY AmountsAssumption
  <2>2. /\ IsFiniteSet(1..Together)
        /\ Cardinality(1..Together) = IF 1 > Together THEN 0 ELSE Together - 1 + 1
    BY ONLY <2>1, FS_Interval
  <2> QED BY ONLY <2>1, <2>2
<1>4. /\ IsFiniteSet(Spenders \X (1..Together))
      /\ Cardinality(Spenders \X (1..Together)) = Room(Spenders)
  BY ONLY <1>2, <1>3, FS_Product DEF Room
<1> QED BY ONLY <1>1, <1>4, FS_Subset

\* Nobody new spends and nothing more is kept: the last look at the quota still bounds it.
LEMMA BudgetFrame ==
    ASSUME BudgetInv, TypeOK, kept' \in Nat, kept' <= kept,
           \A p \in Projects : Spending(p)' => Spending(p)
    PROVE  BudgetInv'
<1>1. Spenders' \subseteq Spenders /\ Spenders \subseteq Projects BY DEF Spenders
<1>2. IsFiniteSet(Spenders) /\ IsFiniteSet(Projects) BY <1>1, LibraryIds, FS_Subset
<1>3. /\ Room(Spenders') \in Nat /\ Room(Spenders) \in Nat /\ Room(Spenders') <= Room(Spenders)
      /\ Room(Projects) \in Nat
  BY ONLY <1>1, <1>2, RoomShrinks
<1>4. PICK n \in 0..MinutesLimit : Within(n) /\ kept + Room(Spenders) <= n + Room(Projects)
  BY DEF BudgetInv
<1>5. kept' + Room(Spenders') <= n + Room(Projects)
  <2>1. kept \in Nat /\ n \in Nat BY AmountsAssumption DEF TypeOK
  <2> QED BY <1>3, <1>4, <2>1
<1>6. Within(n)' BY <1>4 DEF Within
<1> QED BY <1>4, <1>5, <1>6 DEF BudgetInv, Room

\* A look at the quota that lets a start through: it bounds all that may come.
LEMMA BudgetChecked ==
    ASSUME TypeOK, WithinLimits, UNCHANGED kept
    PROVE  BudgetInv'
<1>1. kept \in Nat BY DEF TypeOK
<1>2. Used \in Nat /\ Used >= kept BY <1>1, RecordedFinite DEF Used
<1>3. Used \in 0..MinutesLimit /\ Within(Used) BY <1>2, WithinBounds DEF WithinLimits
<1>4. Spenders' \subseteq Projects BY DEF Spenders
<1>5. Room(Spenders') \in Nat /\ Room(Projects) \in Nat /\ Room(Spenders') <= Room(Projects)
  BY ONLY <1>4, LibraryIds, RoomShrinks
<1>6. kept' + Room(Spenders') <= Used + Room(Projects) BY <1>1, <1>2, <1>5
<1>7. \E n \in 0..MinutesLimit : Within(n)' /\ kept' + Room(Spenders') <= n + Room(Projects)
  BY <1>3, <1>6 DEF Within
<1> QED BY <1>7 DEF BudgetInv, Room

\* Every step keeps the last look at the quota a bound on what is recorded.
LEMMA BudgetStep == TypeOK /\ RunInv /\ BillInv /\ BudgetInv /\ [Next]_vars => BudgetInv'
<1> SUFFICES ASSUME TypeOK, RunInv, BillInv, BudgetInv, [Next]_vars PROVE BudgetInv' OBVIOUS
<1> USE RequestTyped, LibraryIds
    DEF TypeOK, UploadPc, StartPc, DeletePc, rows, usage, finalizers, ingest, ghosts, bounds, Exists,
        Spending, Starting, Finalizing
<1> USE DEF NewRequest, GoOn, Reply, AddRow, Step, Fail, Fault, ClearUsage
<1>1. ASSUME NEW h \in Handlers, UploadBegins(h) PROVE BudgetInv'
  BY <1>1, BudgetFrame DEF UploadBegins
<1>2. ASSUME NEW h \in Handlers, Streamed(h) PROVE BudgetInv'
  BY <1>2, BudgetFrame DEF Streamed
<1>3. ASSUME NEW h \in Handlers, Probed(h) PROVE BudgetInv'
  BY <1>3, BudgetFrame DEF Probed
<1>4. ASSUME NEW h \in Handlers, UploadRejected(h) PROVE BudgetInv'
  BY <1>4, BudgetFrame DEF UploadRejected
<1>5. ASSUME NEW h \in Handlers, SaveUpload(h) PROVE BudgetInv'
  BY <1>5, BudgetFrame DEF SaveUpload, FreshProjects
<1>6. ASSUME NEW h \in Handlers, CreatePlan(h) PROVE BudgetInv'
  <2> USE <1>6 DEF CreatePlan
  <2>1. CASE plan = "absent" /\ WithinLimits BY <2>1, BudgetChecked
  <2>2. CASE ~(plan = "absent" /\ WithinLimits)
    <3>1. request' = [request EXCEPT ![h] = NoRequest] BY <2>2
    <3> QED BY <3>1, BudgetFrame
  <2> QED BY <2>1, <2>2
<1>7. ASSUME NEW h \in Handlers, StartRefused(h) PROVE BudgetInv'
  BY <1>7, BudgetFrame DEF StartRefused
<1>8. ASSUME NEW h \in Handlers, StartLock(h) PROVE BudgetInv'
  BY <1>8, BudgetFrame DEF StartLock
<1>9. ASSUME NEW h \in Handlers, StartCommit(h) PROVE BudgetInv'
  BY <1>9, BudgetFrame DEF StartCommit, RunInv, Locks
<1>10. ASSUME NEW h \in Handlers, StartUnqueued(h) PROVE BudgetInv'
  BY <1>10, BudgetFrame DEF StartUnqueued, RunInv, Locks
<1>11. ASSUME NEW h \in Handlers, DeleteClips(h) PROVE BudgetInv'
  BY <1>11, BudgetFrame DEF DeleteClips
<1>12. ASSUME NEW h \in Handlers, DeleteRow(h) PROVE BudgetInv'
  <2> USE <1>12 DEF DeleteRow
  <2> DEFINE q == request[h].project
  <2>0. q \in Projects /\ Exists(q) OBVIOUS
  <2>1. /\ bill[q] \in Nat /\ past[q] \in Nat /\ past[q] <= bill[q] /\ bill[q] <= Together
        /\ kept' = kept + (bill[q] - past[q])
    BY <2>0, AmountsAssumption DEF KeptWithout, BillInv
  <2>2. \A p \in Projects : Spending(p)' => Spending(p) /\ p # q BY <2>0
  <2>3. CASE bill[q] = 0
    <3>1. kept' = kept BY <2>1, <2>3
    <3> QED BY <3>1, <2>2, BudgetFrame
  <2>4. CASE bill[q] > 0
    <3>1. q \in Spenders /\ q \notin Spenders' BY <2>0, <2>2, <2>4 DEF Spenders
    <3>2. Spenders' \subseteq Spenders /\ Spenders' # Spenders /\ Spenders \subseteq Projects
      BY <2>2, <3>1 DEF Spenders
    <3> HIDE DEF q
    <3>3. IsFiniteSet(Spenders) BY ONLY <3>2, LibraryIds, FS_Subset
    <3>4. /\ Room(Spenders') + Together <= Room(Spenders)
          /\ Room(Spenders') \in Nat /\ Room(Spenders) \in Nat /\ Room(Projects) \in Nat
      BY ONLY <3>2, <3>3, LibraryIds, RoomShrinks
    <3>5. PICK n \in 0..MinutesLimit : Within(n) /\ kept + Room(Spenders) <= n + Room(Projects)
      BY DEF BudgetInv
    <3>6. kept' + Room(Spenders') <= n + Room(Projects)
      <4>1. kept \in Nat /\ n \in Nat /\ Together \in Nat BY AmountsAssumption
      <4> QED BY ONLY <2>1, <3>4, <3>5, <4>1
    <3>7. Within(n)' BY <3>5 DEF Within
    <3> QED BY ONLY <3>5, <3>6, <3>7 DEF BudgetInv, Room
  <2> QED BY <2>1, <2>3, <2>4
<1>13. ASSUME NEW h \in Handlers, DeleteGone(h) PROVE BudgetInv'
  BY <1>13, BudgetFrame DEF DeleteGone
<1>14. ASSUME NEW h \in Handlers, DeadlockVictim(h) PROVE BudgetInv'
  BY <1>14, BudgetFrame DEF DeadlockVictim
<1>15. ASSUME NEW h \in Handlers, RequestLost(h) PROVE BudgetInv'
  BY <1>15, BudgetFrame DEF RequestLost
<1>16. ASSUME NEW h \in Handlers, NEW p \in Projects, StartUnplanned(h, p) PROVE BudgetInv'
  BY <1>16, BudgetFrame DEF StartUnplanned
<1>17. ASSUME NEW h \in Handlers, NEW p \in Projects, StartChecked(h, p) PROVE BudgetInv'
  BY <1>17, BudgetChecked DEF StartChecked
<1>18. ASSUME NEW h \in Handlers, NEW p \in Projects, DeleteMedia(h, p) PROVE BudgetInv'
  BY <1>18, BudgetFrame DEF DeleteMedia
<1>19. ASSUME NEW p \in Projects, CreateFromUrl(p) PROVE BudgetInv'
  BY <1>19, BudgetFrame DEF CreateFromUrl, FreshProjects
<1>20. ASSUME NEW p \in Projects, TaskGone(p) PROVE BudgetInv'
  BY <1>20, BudgetFrame DEF TaskGone
<1>21. ASSUME NEW p \in Projects, TaskStarts(p) PROVE BudgetInv'
  BY <1>21, BudgetFrame DEF TaskStarts
<1>22. ASSUME NEW p \in Projects, DownloadFails(p) PROVE BudgetInv'
  BY <1>22, BudgetFrame DEF DownloadFails
<1>23. ASSUME NEW p \in Projects, StoreDownload(p) PROVE BudgetInv'
  BY <1>23, BudgetFrame DEF StoreDownload
<1>24. ASSUME NEW p \in Projects, CommitSource(p) PROVE BudgetInv'
  BY <1>24, BudgetFrame DEF CommitSource
<1>25. ASSUME NEW p \in Projects, CommitSourceGone(p) PROVE BudgetInv'
  BY <1>25, BudgetFrame DEF CommitSourceGone
<1>26. ASSUME NEW p \in Projects, RunSucceeds(p) PROVE BudgetInv'
  BY <1>26, BudgetFrame DEF RunSucceeds, RunInv, Locks
<1>27. ASSUME NEW p \in Projects, RunFails(p) PROVE BudgetInv'
  BY <1>27, BudgetFrame DEF RunFails
<1>28. ASSUME NEW p \in Projects, WorkerLost(p) PROVE BudgetInv'
  BY <1>28, BudgetFrame DEF WorkerLost
<1>29. ASSUME NewMonth PROVE BudgetInv'
  BY <1>29, BudgetFrame DEF NewMonth
<1>30. CASE UNCHANGED vars
  BY <1>30, BudgetFrame DEF vars
<1>31. ASSUME NEW h \in Handlers, UsageSummary(h) PROVE BudgetInv'
  BY <1>31, BudgetFrame DEF UsageSummary
<1>32. ASSUME NEW p \in Projects, Rerendered(p) PROVE BudgetInv'
  BY <1>32, BudgetFrame DEF Rerendered
<1>33. ASSUME NEW p \in Projects, LookForUsage(p) PROVE BudgetInv'
  BY <1>33, BudgetFrame DEF LookForUsage
<1>34. ASSUME NEW p \in Projects, RecordUsage(p) PROVE BudgetInv'
  BY <1>34, BudgetFrame DEF RecordUsage
<1>35. ASSUME NEW p \in Projects, FinalizerLost(p) PROVE BudgetInv'
  <2>1. /\ \A q \in Projects : looking'[q] <= looking[q] /\ recording'[q] <= recording[q]
        /\ looking' \in [Projects -> Nat] /\ recording' \in [Projects -> Nat]
    BY ONLY <1>35, TypeOK DEF FinalizerLost, TypeOK
  <2>2. UNCHANGED <<bill, status, kept, request>> BY <1>35 DEF FinalizerLost
  <2>3. \A q \in Projects : Finalizing(q)' > 0 => Finalizing(q) > 0 BY ONLY <2>1, TypeOK DEF Finalizing, TypeOK
  <2>4. \A q \in Projects : Spending(q)' => Spending(q)
    BY ONLY <2>2, <2>3 DEF Spending, Starting, Exists
  <2> QED BY ONLY <2>2, <2>4, TypeOK, BudgetInv, BudgetFrame DEF TypeOK
<1> QED BY <1>1, <1>2, <1>3, <1>4, <1>5, <1>6, <1>7, <1>8, <1>9, <1>10, <1>11, <1>12,
         <1>13, <1>14, <1>15, <1>16, <1>17, <1>18, <1>19, <1>20, <1>21, <1>22, <1>23,
         <1>24, <1>25, <1>26, <1>27, <1>28, <1>29, <1>30, <1>31,
         <1>32, <1>33, <1>34, <1>35
     DEF Next, RequestStep, UploadStep, StartStep, DeleteStep, WorkerStep, FinalizerStep, AtRest

\* Nothing is recorded and no start is let through at first.
LEMMA BudgetInit == Init => BillInv /\ BudgetInv
<1> SUFFICES ASSUME Init PROVE BillInv /\ BudgetInv OBVIOUS
<1>1. BillInv BY AmountsAssumption DEF Init, BillInv, Finalizing
<1>2. kept = 0 BY DEF Init
<1>3. 0 \in 0..MinutesLimit /\ Within(0) BY AmountsAssumption DEF Within
<1>4. Spenders \subseteq Projects BY DEF Spenders
<1>5. Room(Spenders) \in Nat /\ Room(Projects) \in Nat /\ Room(Spenders) <= Room(Projects)
  BY ONLY <1>4, LibraryIds, RoomShrinks
<1>6. kept + Room(Spenders) <= 0 + Room(Projects) BY ONLY <1>2, <1>5
<1> QED BY <1>1, <1>3, <1>6 DEF BudgetInv

\* check_within_limits cannot be overrun by more than one record for each finalizer that
\* the projects there is room for may have at once, however many starts, runs and
\* finalizers are under way and however often two of them bill the same run.
THEOREM OverrunIsBounded == Spec => []OverrunBounded
<1> DEFINE IInv == TypeOK /\ RunInv /\ BillInv /\ BudgetInv
<1>1. Init => IInv BY LibraryTypeInit, HoldingInit, BudgetInit
<1>2. IInv /\ [Next]_vars => IInv' BY LibraryTypeStep, RunStep, BillStep, BudgetStep
<1>3. IInv => OverrunBounded
  <2> SUFFICES ASSUME TypeOK, BillInv, BudgetInv PROVE OverrunBounded OBVIOUS
  <2>1. PICK n \in 0..MinutesLimit : Within(n) /\ kept + Room(Spenders) <= n + Room(Projects)
    BY DEF BudgetInv
  <2>2. Spenders \subseteq Projects BY DEF Spenders
  <2>3. Room(Spenders) \in Nat /\ Room(Projects) \in Nat BY ONLY <2>2, LibraryIds, RoomShrinks
  <2>4. Used <= n + Room(Projects)
    <3>1. kept \in Nat /\ n \in Nat BY AmountsAssumption DEF TypeOK
    <3>2. Cardinality(Recorded) \in Nat BY RecordedFinite
    <3>3. Cardinality(Recorded) <= Room(Spenders) BY RecordedFits
    <3> QED BY ONLY <2>1, <2>3, <3>1, <3>2, <3>3 DEF Used
  <2> QED BY <2>1, <2>4 DEF OverrunBounded, Room
<1> QED BY <1>1, <1>2, <1>3, PTL DEF Spec
====
