---------------------------- MODULE JobLifecycle ----------------------------
(***************************************************************************)
(* The life of a download job of music-bot, from the request or the        *)
(* recommendation that creates its row to the row's final status.          *)
(*                                                                         *)
(* Processes: the single worker thread (worker.py, jobs.py), pipeline      *)
(* threads (main.run_pipeline, started at boot, by the scheduler and by    *)
(* POST /api/pipeline/run), the uvicorn event loop (api.start_download,    *)
(* api.delete_downloads_bulk) and the main thread that reloads the queue   *)
(* at boot.  Durable: the downloads table and the music files.  Lost in a  *)
(* crash: the work queue and every thread's local state.                   *)
(*                                                                         *)
(* Abstracted: what YouTube, MusicBrainz and ListenBrainz answer is any    *)
(* answer; tag_and_import places the file in one step; the order in which  *)
(* a thread walks a set of tracks is any order.                            *)
(***************************************************************************)
EXTENDS DownloadStore, Sequences

CONSTANTS
    ManualJobs,   \* ids start_download can draw ("manual-" + uuid4)
    Nameless,     \* tracks an earlier version recorded without artist and title
    Pipes,        \* pipeline threads that can exist at the same time
    NoJob,
    MaxRuns,      \* bound: pipelines started by the scheduler or the API
    MaxCrashes,   \* bound: process exits
    MaxFaults     \* bound: statements that raise (disk full, locked db)

ASSUME LifecycleAssumption ==
    /\ ManualJobs \subseteq Jobs
    /\ Nameless \subseteq Jobs \ ManualJobs
    /\ NoJob \notin Jobs
    /\ Pipes # {}

LBJobs == Jobs \ ManualJobs

VARIABLES
    db,        \* state.db, table downloads
    disk,      \* files present in the music library
    phase,     \* the process: down, boot, reload, up, stopping
    queue,     \* worker._work_queue
    wpc, wjob, wpath,                \* worker thread: step, job, dest path
    ppc, recs, plan, retry, bare, phold,   \* each pipeline thread
    rtodo, rcut, rhold,              \* _reload_pending_jobs: rows read, in hand
    apiPut, apiDel,                  \* event loop: between two calls of a handler
    stranded,  \* history: jobs whose last error could not be written to the db
    runs, crashes, faults            \* counters behind the bounds

durable  == <<db, disk>>
worker   == <<wpc, wjob, wpath>>
pipeline == <<ppc, recs, plan, retry, bare, phold>>
reload   == <<rtodo, rcut, rhold>>
handlers == <<apiPut, apiDel>>
bounds   == <<runs, crashes, faults>>
vars == <<durable, phase, queue, worker, pipeline, reload, handlers,
          stranded, bounds>>

\* "last": blocked in the get that was under way when the stop was signalled.
WorkerSteps == {"idle", "last", "check", "skip", "begin", "download", "import",
                "record", "info", "scan"}
Phases == {"down", "boot", "reload", "up", "stopping"}

\* Every variable has its type; the worker has a job unless it is waiting for
\* one, and a destination path when it is about to record one (jobs.py).
TypeOK ==
    /\ db \in Table
    /\ disk \subseteq Paths
    /\ phase \in Phases
    /\ queue \in Seq(Jobs)
    /\ wpc \in WorkerSteps
    /\ wjob \in Jobs \cup {NoJob}
    /\ wpath \in Paths \cup {NoPath}
    /\ (wjob = NoJob) <=> (wpc \in {"idle", "last"})
    /\ wpc \in {"skip", "record"} => wpath # NoPath
    /\ ppc \in [Pipes -> {"off", "filter", "enqueue"}]
    /\ recs \in [Pipes -> SUBSET LBJobs]
    /\ plan \in [Pipes -> SUBSET LBJobs]
    /\ retry \in [Pipes -> SUBSET Jobs]
    /\ bare \in [Pipes -> SUBSET LBJobs]
    /\ phold \in [Pipes -> Jobs \cup {NoJob}]
    /\ rtodo \subseteq Jobs /\ rcut \subseteq Jobs /\ rhold \in Jobs \cup {NoJob}
    /\ apiPut \in Jobs \cup {NoJob} /\ apiDel \subseteq Jobs
    /\ stranded \subseteq Jobs
    /\ runs \in Nat /\ crashes \in Nat /\ faults \in Nat

Nothing == [p \in Pipes |-> {}]
NobodyHolds == [p \in Pipes |-> NoJob]

\* What an earlier version, which did not look names up, may have left of a track
\* (comment in main.py step 5; US-31 and US-33 of docs/backlog.md).
OldRows == [status   : {"failed"},
            attempts : 1..MaxAttempts,
            song     : {NoSong},
            file     : {NoPath}]

Init ==
    /\ db \in [Jobs -> OldRows \cup {NoRow}]
    /\ \A j \in Jobs \ Nameless : db[j] = NoRow
    /\ disk = {}
    /\ phase = "down"
    /\ queue = <<>>
    /\ wpc = "idle" /\ wjob = NoJob /\ wpath = NoPath
    /\ ppc = [p \in Pipes |-> "off"]
    /\ recs = Nothing /\ plan = Nothing /\ retry = Nothing /\ bare = Nothing
    /\ phold = NobodyHolds
    /\ rtodo = {} /\ rcut = {} /\ rhold = NoJob
    /\ apiPut = NoJob /\ apiDel = {}
    /\ stranded = {}
    /\ runs = 0 /\ crashes = 0 /\ faults = 0

Enqueue(j) == queue' = Append(queue, j)

Fault == faults < MaxFaults /\ faults' = faults + 1 /\ UNCHANGED <<runs, crashes>>

-----------------------------------------------------------------------------
(* The worker thread: worker_loop and run_download_job. *)

WorkerAlive == phase # "down"

\* Mutant: the finished job is not let go.
JobStays == wpc' = "idle" /\ wpath' = NoPath /\ UNCHANGED wjob

\* The worker is idle again, whatever it was doing.
JobLeaves == wpc' = "idle" /\ wjob' = NoJob /\ wpath' = NoPath

WorkerMoves(from, to) == WorkerAlive /\ wpc = from /\ wpc' = to

\* _work_queue.get; the shutdown event is tested before each get, so that a
\* get that is under way when it is set may still return a job.
TakeJob ==
    /\ \/ WorkerMoves("idle", "check") /\ phase # "stopping"
       \/ WorkerMoves("last", "check")
    /\ queue # <<>>
    /\ wjob' = Head(queue)
    /\ queue' = Tail(queue)
    /\ UNCHANGED <<durable, phase, wpath, pipeline, reload, handlers, stranded, bounds>>

\* The get times out, and the loop ends.
LastGetTimesOut ==
    /\ WorkerMoves("last", "idle")
    /\ UNCHANGED <<durable, phase, queue, wjob, wpath, pipeline, reload, handlers, stranded, bounds>>

FileIsThere(j) == db[j].file # NoPath /\ db[j].file \in disk

\* get_download_by_mbid and os.path.exists: is the file here already?
CheckExisting ==
    /\ \/ /\ WorkerMoves("check", "skip")
          /\ FileIsThere(wjob)
          /\ wpath' = db[wjob].file
       \/ /\ WorkerMoves("check", "begin")
          /\ ~FileIsThere(wjob)
          /\ UNCHANGED wpath
    /\ UNCHANGED <<durable, phase, queue, wjob, pipeline, reload, handlers, stranded, bounds>>

\* The file is there: mark_done with the path that was read before.
SkipDownload ==
    /\ WorkerMoves("skip", "scan")
    /\ db' = MarkDone(db, wjob, wpath)
    /\ UNCHANGED <<disk, phase, queue, wjob, wpath, pipeline, reload, handlers, stranded, bounds>>

\* Staging leftovers removed; mark_downloading.
BeginDownload ==
    /\ WorkerMoves("begin", "download")
    /\ db' = MarkDownloading(db, wjob)
    /\ UNCHANGED <<disk, phase, queue, wjob, wpath, pipeline, reload, handlers, stranded, bounds>>

\* download_track or download_track_by_id brought a file into staging.
Downloaded ==
    /\ WorkerMoves("download", "import")
    /\ UNCHANGED <<durable, phase, queue, wjob, wpath, pipeline, reload, handlers, stranded, bounds>>

\* Mutant: the early return forgets mark_failed.
DownloadFailsUnmarked ==
    /\ WorkerAlive /\ wpc = "download"
    /\ JobLeaves
    /\ UNCHANGED <<durable, phase, queue, pipeline, reload, handlers, stranded, bounds>>

\* No file came, or the download raised.
DownloadFails ==
    /\ WorkerAlive /\ wpc = "download"
    /\ db' = MarkFailed(db, wjob)
    /\ JobLeaves
    /\ UNCHANGED <<disk, phase, queue, pipeline, reload, handlers, stranded, bounds>>

\* tag_and_import returned False or raised: nothing was copied, or copy2
\* stopped half-way and left its destination behind.
ImportFails ==
    /\ WorkerAlive /\ wpc = "import"
    /\ db' = MarkFailed(db, wjob)
    /\ \E P \in {{}} \cup {{p} : p \in Paths} : disk' = disk \cup P
    /\ JobLeaves
    /\ UNCHANGED <<phase, queue, pipeline, reload, handlers, stranded, bounds>>

\* tag_and_import: the file is copied to p, or p exists and counts as imported.
Import ==
    /\ WorkerMoves("import", "record")
    /\ \E p \in Paths : disk' = disk \cup {p} /\ wpath' = p
    /\ UNCHANGED <<db, phase, queue, wjob, pipeline, reload, handlers, stranded, bounds>>

RecordDone ==
    /\ WorkerMoves("record", "info")
    /\ db' = MarkDone(db, wjob, wpath)
    /\ UNCHANGED <<disk, phase, queue, wjob, wpath, pipeline, reload, handlers, stranded, bounds>>

\* update_track_info: the canonical artist and title replace the requested ones.
RecordInfo ==
    /\ WorkerMoves("info", "scan")
    /\ \E s \in Songs : db' = UpdateTrackInfo(db, wjob, s)
    /\ UNCHANGED <<disk, phase, queue, wjob, wpath, pipeline, reload, handlers, stranded, bounds>>

\* trigger_scan and wait_for_scan (at most 300 s, errors ignored); emit done.
ScanEnds ==
    /\ WorkerAlive /\ wpc = "scan"
    /\ JobLeaves
    /\ UNCHANGED <<durable, phase, queue, pipeline, reload, handlers, stranded, bounds>>

\* A statement raised, or the scan had an answer that is no object: the except clause
\* marks the row failed, which may have been done by then.
JobRaises ==
    /\ WorkerAlive /\ wpc \in {"check", "skip", "begin", "record", "info", "scan"}
    /\ Fault
    /\ db' = MarkFailed(db, wjob)
    /\ JobLeaves
    /\ UNCHANGED <<disk, phase, queue, pipeline, reload, handlers, stranded>>

\* ... and that mark_failed raised too: swallowed, the row keeps its status.
JobRaisesTwice ==
    /\ WorkerAlive /\ wpc \in WorkerSteps \ {"idle", "last"}
    /\ Fault
    /\ stranded' = stranded \cup {wjob}
    /\ JobLeaves
    /\ UNCHANGED <<durable, phase, queue, pipeline, reload, handlers>>

WorkerStep ==
    \/ TakeJob \/ LastGetTimesOut \/ CheckExisting \/ SkipDownload \/ BeginDownload
    \/ Downloaded \/ DownloadFails \/ Import \/ ImportFails
    \/ RecordDone \/ RecordInfo \/ ScanEnds

-----------------------------------------------------------------------------
(* A pipeline thread p: run_pipeline. *)

\* The fetch ends with some LB tracks, or with none when ListenBrainz fails.
Starts(p) ==
    /\ ppc[p] = "off"
    /\ ppc' = [ppc EXCEPT ![p] = "filter"]
    /\ \E R \in SUBSET LBJobs : recs' = [recs EXCEPT ![p] = R]
    /\ UNCHANGED <<plan, retry, bare, phold>>

\* The scheduler (its last iteration may follow the shutdown event) or the API.
StartPipeline(p) ==
    /\ phase \in {"up", "stopping"}
    /\ runs < MaxRuns /\ runs' = runs + 1
    /\ Starts(p)
    /\ UNCHANGED <<durable, phase, queue, worker, reload, handlers, stranded, crashes, faults>>

\* Step 3: one track that is not downloaded yet enters new_tracks.
FilterTrack(p, j) ==
    /\ phase # "down" /\ ppc[p] = "filter" /\ j \in recs[p]
    /\ recs' = [recs EXCEPT ![p] = @ \ {j}]
    /\ plan' = IF IsDownloaded(db, j) THEN plan
               ELSE [plan EXCEPT ![p] = @ \cup {j}]
    /\ UNCHANGED <<durable, phase, queue, worker, ppc, retry, bare, phold, reload,
                   handlers, stranded, bounds>>

\* Step 4: failed rows with attempts left go in front of new_tracks; those without
\* artist or title are bare.
GatherRetryable(p) ==
    /\ phase # "down" /\ ppc[p] = "filter" /\ recs[p] = {}
    /\ LET again == Retryable(db) \ plan[p]
       IN /\ retry' = [retry EXCEPT ![p] = again]
          /\ bare' = [bare EXCEPT ![p] = {j \in again \cap LBJobs : db[j].song = NoSong}]
          /\ ppc' = [ppc EXCEPT ![p] =
                        IF again \cup plan[p] = {} THEN "off" ELSE "enqueue"]
    /\ UNCHANGED <<durable, phase, queue, worker, recs, plan, phold, reload,
                   handlers, stranded, bounds>>

NextTracks(p) == IF retry[p] # {} THEN retry[p] ELSE plan[p]

\* Mutant: enqueue_job before mark_pending.
PlanTrackUnmarked(p, j) ==
    /\ phase # "down" /\ ppc[p] = "enqueue" /\ phold[p] = NoJob
    /\ j \in NextTracks(p)
    /\ retry' = [retry EXCEPT ![p] = @ \ {j}]
    /\ plan' = [plan EXCEPT ![p] = @ \ {j}]
    /\ bare' = [bare EXCEPT ![p] = @ \ {j}]
    /\ phold' = [phold EXCEPT ![p] = j]
    /\ UNCHANGED <<durable, phase, queue, worker, ppc, recs, reload, handlers,
                   stranded, bounds>>

\* Step 5, mark_pending: a retried track keeps its failed row.  A bare one is
\* planned when MusicBrainz knows its names.
PlanTrack(p, j) ==
    /\ phase # "down" /\ ppc[p] = "enqueue" /\ phold[p] = NoJob
    /\ j \in NextTracks(p)
    /\ \E s \in Songs : db' = MarkPending(db, j, s)
    /\ retry' = [retry EXCEPT ![p] = @ \ {j}]
    /\ plan' = [plan EXCEPT ![p] = @ \ {j}]
    /\ bare' = [bare EXCEPT ![p] = @ \ {j}]
    /\ phold' = [phold EXCEPT ![p] = j]
    /\ UNCHANGED <<disk, phase, queue, worker, ppc, recs, reload, handlers,
                   stranded, bounds>>

\* Step 5, a bare track that MusicBrainz cannot name either: its row is failed,
\* whatever it has become since.
SkipTrack(p, j) ==
    /\ phase # "down" /\ ppc[p] = "enqueue" /\ phold[p] = NoJob
    /\ j \in retry[p] \cap bare[p]
    /\ db' = MarkFailed(db, j)
    /\ retry' = [retry EXCEPT ![p] = @ \ {j}]
    /\ bare' = [bare EXCEPT ![p] = @ \ {j}]
    /\ UNCHANGED <<disk, phase, queue, worker, ppc, recs, plan, phold, reload, handlers,
                   stranded, bounds>>

\* Step 5, enqueue_job.
PutTrack(p) ==
    /\ phase # "down"
    /\ phold[p] # NoJob
    /\ Enqueue(phold[p])
    /\ phold' = [phold EXCEPT ![p] = NoJob]
    /\ UNCHANGED <<durable, phase, worker, ppc, recs, plan, retry, bare, reload,
                   handlers, stranded, bounds>>

PipelineEnds(p) ==
    /\ phase # "down" /\ ppc[p] = "enqueue"
    /\ phold[p] = NoJob /\ retry[p] = {} /\ plan[p] = {}
    /\ ppc' = [ppc EXCEPT ![p] = "off"]
    /\ UNCHANGED <<durable, phase, queue, worker, recs, plan, retry, bare, phold,
                   reload, handlers, stranded, bounds>>

\* A statement raised: the thread ends (the scheduler logs it and lives on).
PipelineRaises(p) ==
    /\ phase # "down" /\ ppc[p] # "off" /\ phold[p] = NoJob
    /\ Fault
    /\ ppc' = [ppc EXCEPT ![p] = "off"]
    /\ recs' = [recs EXCEPT ![p] = {}]
    /\ plan' = [plan EXCEPT ![p] = {}]
    /\ retry' = [retry EXCEPT ![p] = {}]
    /\ bare' = [bare EXCEPT ![p] = {}]
    /\ UNCHANGED <<durable, phase, queue, worker, phold, reload, handlers, stranded>>

PipelineStep(p) ==
    \/ \E j \in Jobs : FilterTrack(p, j) \/ PlanTrack(p, j) \/ SkipTrack(p, j)
    \/ GatherRetryable(p) \/ PutTrack(p) \/ PipelineEnds(p)

-----------------------------------------------------------------------------
(* The event loop: a handler without await runs alone among the handlers. *)

LoopIsFree == phase = "up" /\ apiPut = NoJob /\ apiDel = {}

\* start_download, first half.  A duplicate answers 409 and changes nothing.
Accept(j, s) ==
    /\ LoopIsFree
    /\ ~HasRow(db, j) /\ ~HasActiveDuplicate(db, s)
    /\ db' = MarkPendingIfNotDuplicate(db, j, s)
    /\ apiPut' = j
    /\ UNCHANGED <<disk, phase, queue, worker, pipeline, reload, apiDel, stranded, bounds>>

\* start_download, second half: enqueue_job.
PutAccepted ==
    /\ apiPut # NoJob
    /\ Enqueue(apiPut)
    /\ apiPut' = NoJob
    /\ UNCHANGED <<durable, phase, worker, pipeline, reload, apiDel, stranded, bounds>>

\* delete_downloads_bulk, one turn of its loop: the recorded file of j is removed,
\* or was not there.  A file that cannot be removed leaves everything as it is.
RemoveFile(j) ==
    /\ phase = "up" /\ apiPut = NoJob
    /\ j \notin apiDel /\ HasRow(db, j)
    /\ disk' = disk \ {db[j].file}
    /\ apiDel' = apiDel \cup {j}
    /\ UNCHANGED <<db, phase, queue, worker, pipeline, reload, apiPut, stranded, bounds>>

\* After the loop: mark_ignored_bulk, whatever the rows have become since.
MarkIgnored ==
    /\ apiDel # {}
    /\ db' = MarkIgnoredBulk(db, apiDel)
    /\ apiDel' = {}
    /\ UNCHANGED <<disk, phase, queue, worker, pipeline, reload, apiPut, stranded, bounds>>

\* mark_ignored_bulk raised: 500, the files are gone and the rows unchanged.
DeleteRaises ==
    /\ apiDel # {}
    /\ Fault
    /\ apiDel' = {}
    /\ UNCHANGED <<durable, phase, queue, worker, pipeline, reload, apiPut, stranded>>

-----------------------------------------------------------------------------
(* The process: boot, recovery, graceful stop, exit. *)

\* init_db, then the worker thread starts.
Boot ==
    /\ phase = "down"
    /\ phase' = "boot"
    /\ UNCHANGED <<durable, queue, worker, pipeline, reload, handlers, stranded, bounds>>

\* Mutant: only the jobs that were running are recovered.
ReadInterrupted ==
    /\ phase = "boot"
    /\ phase' = "reload"
    /\ rtodo' = {}
    /\ rcut' = {j \in PendingJobs(db) : db[j].status = "downloading"}
    /\ UNCHANGED <<durable, queue, worker, pipeline, rhold, handlers, stranded, bounds>>

\* _reload_pending_jobs: get_pending_jobs.
ReadPending ==
    /\ phase = "boot"
    /\ phase' = "reload"
    /\ rtodo' = {j \in PendingJobs(db) : db[j].status = "pending"}
    /\ rcut' = {j \in PendingJobs(db) : db[j].status = "downloading"}
    /\ UNCHANGED <<durable, queue, worker, pipeline, rhold, handlers, stranded, bounds>>

\* A row read as pending goes back to the queue.
RequeuePending(j) ==
    /\ phase = "reload" /\ rhold = NoJob /\ j \in rtodo
    /\ Enqueue(j)
    /\ rtodo' = rtodo \ {j}
    /\ UNCHANGED <<durable, phase, worker, pipeline, rcut, rhold, handlers,
                   stranded, bounds>>

\* A row read as downloading was interrupted: one more failed attempt, then
\* back to the queue unless the attempts are used up.
FailInterrupted(j) ==
    /\ phase = "reload" /\ rhold = NoJob /\ j \in rcut
    /\ db' = MarkFailed(db, j)
    /\ rcut' = rcut \ {j}
    /\ rhold' = IF db'[j].attempts >= MaxAttempts THEN NoJob ELSE j
    /\ UNCHANGED <<disk, phase, queue, worker, pipeline, rtodo, handlers,
                   stranded, bounds>>

RequeueInterrupted ==
    /\ phase = "reload"
    /\ rhold # NoJob
    /\ Enqueue(rhold)
    /\ rhold' = NoJob
    /\ UNCHANGED <<durable, phase, worker, pipeline, rtodo, rcut, handlers,
                   stranded, bounds>>

\* The reload returns; the initial pipeline and the scheduler start; uvicorn.
ReloadEnds ==
    /\ phase = "reload" /\ rtodo = {} /\ rcut = {} /\ rhold = NoJob
    /\ phase' = "up"
    /\ \E p \in Pipes : Starts(p)
    /\ UNCHANGED <<durable, queue, worker, reload, handlers, stranded, bounds>>

\* SIGTERM: uvicorn has returned, _shutdown_event is set; the worker finishes
\* its job or its last get; pipeline threads are daemons and run until the exit.
StopSignal ==
    /\ LoopIsFree
    /\ crashes < MaxCrashes
    /\ phase' = "stopping"
    /\ wpc' = IF wpc = "idle" THEN "last" ELSE wpc
    /\ UNCHANGED <<durable, queue, wjob, wpath, pipeline, reload, handlers, stranded, bounds>>

\* The process ends, at any point: kill, crash, or the end of a stop.
Exit ==
    /\ phase # "down"
    /\ crashes < MaxCrashes
    /\ crashes' = crashes + 1
    /\ phase' = "down"
    /\ queue' = <<>>
    /\ JobLeaves
    /\ ppc' = [p \in Pipes |-> "off"]
    /\ recs' = Nothing /\ plan' = Nothing /\ retry' = Nothing /\ bare' = Nothing
    /\ phold' = NobodyHolds
    /\ rtodo' = {} /\ rcut' = {} /\ rhold' = NoJob
    /\ apiPut' = NoJob /\ apiDel' = {}
    /\ stranded' = {}
    /\ UNCHANGED <<durable, runs, faults>>

BootStep ==
    \/ Boot \/ ReadPending \/ RequeueInterrupted \/ ReloadEnds
    \/ \E j \in Jobs : RequeuePending(j) \/ FailInterrupted(j)

-----------------------------------------------------------------------------
Next ==
    \/ WorkerStep \/ JobRaises \/ JobRaisesTwice
    \/ \E p \in Pipes : StartPipeline(p) \/ PipelineStep(p) \/ PipelineRaises(p)
    \/ \E j \in ManualJobs, s \in Songs : Accept(j, s)
    \/ \E j \in Jobs : RemoveFile(j)
    \/ PutAccepted \/ MarkIgnored \/ DeleteRaises
    \/ BootStep \/ StopSignal \/ Exit

Spec == Init /\ [][Next]_vars

\* Every thread that has something to do goes on: each external call has a
\* timeout, docker restarts the container, a stop ends within 40 s.
Fairness ==
    /\ WF_vars(WorkerStep)
    /\ \A p \in Pipes : WF_vars(PipelineStep(p))
    /\ WF_vars(PutAccepted) /\ WF_vars(MarkIgnored)
    /\ WF_vars(BootStep)
    /\ WF_vars(phase = "stopping" /\ Exit)

FairSpec == Spec /\ Fairness

-----------------------------------------------------------------------------
(* Properties. *)

Items(q) == {q[i] : i \in 1..Len(q)}

Queued == Items(queue)

\* Somebody is bound to give j a verdict, or to put it in the queue.
Carried(j) ==
    \/ j \in Queued
    \/ j = wjob /\ wpc \notin {"info", "scan"}
    \/ \E p \in Pipes : j = phold[p]
    \/ j = apiPut \/ j = rhold \/ j \in rtodo \cup rcut

\* The worker has j, or a copy of j that was planned before may still be run.
InFlight(j) == Carried(j) \/ j = wjob \/ \E p \in Pipes : j \in plan[p] \cup retry[p]

Owed(j) == db[j].status \in {"pending", "downloading"}

\* No accepted work is lost: while the process runs and has read the table, a
\* pending or downloading row belongs to a job somebody carries.  The one
\* exception is a job whose error could not be written (jobs.py:150-153).
NoLostWork ==
    phase \in {"reload", "up", "stopping"} =>
        \A j \in Jobs : Owed(j) => Carried(j) \/ j \in stranded

\* The table knows every job that is queued, in hand or running: the worker's
\* UPDATE statements never miss their row.
CarriedHasRow == \A j \in Jobs : Carried(j) \/ j = wjob => HasRow(db, j)

\* A row is downloading only while the worker is between mark_downloading and
\* its verdict on that very job (or recovery is about to fail it).
DownloadingIsRunning ==
    \A j \in Jobs :
        db[j].status = "downloading" =>
            \/ j = wjob /\ wpc \notin {"info", "scan"}
            \/ j \in rcut \/ j \in stranded \/ phase \in {"down", "boot"}

\* What nothing may bring back by itself: a finished or deleted track, or a
\* manual track that has used up its attempts, with no copy in flight.
Settled(j) ==
    /\ ~InFlight(j)
    /\ \/ db[j].status \in {"done", "ignored"}
       \/ db[j].status = "failed" /\ db[j].attempts >= MaxAttempts /\ j \in ManualJobs

\* Settled tracks stay settled across pipelines, requests, stops and crashes.
SettledStaysSettled == [][\A j \in Jobs : Settled(j) => Settled(j)']_vars

\* Whatever is accepted or interrupted gets a verdict.
OwedIsSettled == \A j \in Jobs : Owed(j) ~> ~Owed(j)

\* A failed track with attempts left is tried again after every boot, unless
\* the process ends before (or somebody deletes the track).
BootRetriesFailed ==
    \A j \in Jobs, k \in 0..(MaxAttempts - 1) :
        (phase = "boot" /\ db[j].status = "failed" /\ db[j].attempts = k)
            ~> \/ db[j].status # "failed" \/ db[j].attempts > k
               \/ phase \in {"down", "stopping"}

\* A claim of the documentation that the code does not keep.

\* docs/requirements.md FR-06, docs/data-model.md: a track is tried at most 3
\* times; a failed one with 3 attempts is a permanent failure.
AttemptsWithinBudget == \A j \in Jobs : db[j].attempts <= MaxAttempts

\* The machinery keeps the promises of DurableWork: queue, threads and recovery
\* together never forget a row that is owed a verdict, and never start on a
\* done or ignored one that nobody has in hand.
Durable == INSTANCE DurableWork WITH
    st   <- [j \in Jobs |-> IF Owed(j) THEN "owed" ELSE db[j].status],
    live <- {j \in Jobs : InFlight(j) \/ j \in stranded},
    up   <- phase \in {"reload", "up", "stopping"}

KeepsPromises == Durable!Spec
=============================================================================
