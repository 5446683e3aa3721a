# Verification of music-bot (brain-stream)

music-bot asks ListenBrainz for recommendations and its users for requests, downloads
the tracks from YouTube, tags them and files them in a music library that Navidrome
serves. One Python process does it all: a FastAPI server, a worker thread, a scheduler
thread, pipeline threads and a SQLite table. This directory holds TLA+ models of that
process, TLC runs on small instances, and theorems checked by TLAPS.

All paths below are relative to the repository; the Python code is in `src/src/`.

## 1. The system

| Component | Code | State | Operations |
|---|---|---|---|
| State store | `state.py` | SQLite table `downloads` (status, attempts, song, file_path), `settings` | one committed statement per function |
| Work queue, worker thread | `worker.py` | `_work_queue` in memory, `_shutdown_event` | `enqueue_job`, `worker_loop` |
| Job executor | `jobs.py` | locals of `run_download_job` | skip check, download, import, verdict, scan |
| Recommendation pipeline | `main.py:run_pipeline` | locals of each thread; `cf_offset`, `cf_first_mbid` in `settings` | fetch, filter, gather retries, enqueue |
| Scheduler, manual trigger | `main.py`, `api.py` | `_shutdown_event`, interval setting | start a pipeline |
| Recovery, stop | `main.py:main`, `_reload_pending_jobs` | rows read at boot | requeue, fail the interrupted, join the worker |
| Requests and deletes | `api.py` | – (event loop) | `start_download`, `delete_downloads_bulk` |
| SSE queues and streams | `worker.py`, `api.py:sse_stream` | `_job_queues`: a queue and a time per job | create, get, touch, remove, emit, sweep; streams |
| Library editing | `api.py` (edit, rematch), `utils/fs.py`, `pipeline/tagger.py` | music files and the `file_path` of rows | place, move, re-tag, delete |
| Downloader | `pipeline/downloader.py` | thread pool of yt-dlp calls, staging files | search, candidates, format fallback |
| Rate limiter | `api.py` | timestamps per key | check, cleanup |
| MusicBrainz, ListenBrainz, Navidrome clients, tagger and enrichment | `pipeline/` | none to speak of | HTTP, tag formats |
| Configuration, logging, page | `config.py`, `utils/logger.py`, `static/` | – | parsing, formatting |

How they interact. A request or a pipeline first writes the row of a job and then puts
the job in the queue; the worker takes jobs one at a time and writes its verdict into
the row; deletes, edits and further pipelines write the same rows at any time, each
statement being its own transaction. The queue, every thread's list of tracks and the
event queues die with the process; the table and the files do not, and
`_reload_pending_jobs` rebuilds the queue from the table at boot. Each job that came
from a request has an event queue, which the worker fills and any number of streams
drain. Handlers without `await` run alone on the event loop; the worker and the
pipelines run beside them; `edit` and `rematch` do await.

What is hard here: a row is read by one thread and used minutes later (`is_downloaded`,
`get_retryable`, `get_pending_jobs`); the row and the queue are written in two steps and
the process may end between any two; a statement may raise in the middle of a list; the
error handler of a job may itself fail; a delete may hit a running job; an event may be
emitted before its queue is announced, after it was swept, or into a stream whose client
has left; a call to yt-dlp that timed out goes on and writes its file later.
`PROJECT.json` lists these hazards line by line, each with the properties that cover it or
the reason why none does.

What makes each part correct:

- *Job machinery*: what is accepted is not lost, across exits at any point; the worker's
  UPDATEs hit a row; `downloading` means being run; a finished track, a deleted one or a
  requested one that has used up its attempts is not taken up again by itself once no copy
  of it is in flight; everything owed a verdict gets one.
- *SSE*: the sweep takes only queues nobody reads; a client gets each event once, in
  order, and the verdict.
- *Library*: a `done` row names a whole file of its own; no file is lost or
  overwritten by a move.
- *CF cursor*: no recommendation is passed over, however many pipelines move the cursor;
  every one comes up in the end, after failures too.
- *Downloader*: what goes to the importer is what was asked for, or similar enough, and not
  something an earlier run or another candidate has left; a run that returns without a file
  has tried every candidate worth trying and then a last search (an exception other than
  `DownloadError` ends it sooner); nobody waits for ever for a call that hangs.
- *Rate limiter*: never more than the limit in any window; no refusal below it; idle
  entries go.

## 2. Modules

| Module | What it is |
|---|---|
| `DownloadStore` | the table as a value; one operator per statement and per query |
| `DownloadStoreProofs` | what each statement does to the table: lemmas for the other proofs |
| `DurableWork` | abstract: a durable verdict per job, a volatile set of jobs being taken care of |
| `JobLifecycle` | worker, pipelines, requests, deletes, boot, recovery, stop, exit |
| `JobLifecycleProofs` | type correctness and the safety theorems of `JobLifecycle` |
| `JobRefinementProofs` | `JobLifecycle` implements `DurableWork` |
| `SseStreams` | the event queue of one job, its emitters, streams and sweep |
| `SseStreamsProofs` | type correctness and the safety theorems of `SseStreams` |
| `Library` | the rows and the files they record: imports, edits, rematches, deletes, exits |
| `LibraryProofs` | type correctness and the safety theorems of `Library` |
| `CfCursor` | the cursor through the recommendations, its pipelines, failures and new models |
| `CfCursorProofs` | type correctness and the safety theorem of `CfCursor` |
| `DownloadRun` | abstract: a run tries each target once and each format of it once, the search last |
| `Downloader` | the runs of a download: candidates, formats, the pool of yt-dlp calls, the staging files |
| `DownloaderProofs` | type correctness and the safety theorems of `Downloader` |
| `SlidingWindow` | abstract: a limiter that forgets nothing |
| `RateLimiter` | the sliding window of one client and rule, and the cleanup |
| `RateLimiterProofs` | type correctness and the safety theorems of `RateLimiter` |
| `MCJobLifecycle`, `MCSseStreams`, `MCLibrary`, `MCCfCursor`, `MCDownloader`, `MCRateLimiter` | names for the model values of the runs |

### DownloadStore and JobLifecycle

| Variable | Code |
|---|---|
| `db` | the `downloads` table: status, attempts, (artist, track_name), file_path |
| `disk` | the files in the library |
| `phase` | down; boot (init_db done, worker started); reload; up (uvicorn serves); stopping (event set, worker being joined) |
| `queue` | `worker._work_queue` |
| `wpc`, `wjob`, `wpath` | where the worker is in `run_download_job`, its job, the destination path it holds |
| `ppc`, `recs`, `plan`, `retry`, `bare`, `phold` | per pipeline thread: its step, tracks fetched, `new_tracks`, the retries put in front of them and those among them without artist or title, the track between `mark_pending` and `enqueue_job` |
| `rtodo`, `rcut`, `rhold` | the rows `get_pending_jobs` returned (pending, downloading), the job between `mark_failed` and `enqueue_job` |
| `apiPut`, `apiDel` | the event loop between two calls of a handler: the row just inserted; the jobs whose files were just removed |
| `stranded` | history: jobs whose last error could not be written (`jobs.py:150-153` swallows it) |

One action stands for the code between two points at which another thread can be seen:
a committed statement, an external call, a queue operation. `run_download_job` is
CheckExisting, SkipDownload or BeginDownload, Downloaded or DownloadFails, Import or
ImportFails, RecordDone, RecordInfo, ScanEnds; JobRaises is the `except` clause and
JobRaisesTwice the `except` inside it. `run_pipeline` is FilterTrack for each track,
GatherRetryable, then for each planned track PlanTrack and PutTrack, or SkipTrack when it
is a retry whose row has no name and MusicBrainz knows none. `start_download` is Accept and PutAccepted; a duplicate changes
nothing. `delete_downloads_bulk` is RemoveFile for each row and MarkIgnored. Boot,
ReadPending, RequeuePending, FailInterrupted, RequeueInterrupted and ReloadEnds are the
start of `main`; StopSignal is `_shutdown_worker`; Exit is the end of the process,
at any point.

Abstractions. A song is one value for (artist, track_name). The pipeline, the reload
and the bulk delete walk their lists in any order (the code walks one particular order;
no property depends on it). What external services answer is any answer.
`tag_and_import` is one step that places the file or finds it there; a failing one may
leave a partial copy behind, which counts as present. A delete walks any set of rows;
the interval at which the scheduler starts pipelines is any interval. What is fetched has
names (`listenbrainz.py:38`, `:110`), and so has every row the pipeline writes; a row without
one is an earlier version's, which the branch at `main.py:150` is for. `Init` lets a track of
`Nameless` have such a row, failed, with any number of attempts (`OldRows`). Columns nothing
branches on are left out. Faults are statements that raise, anywhere (`Fault`); they are bounded,
not excluded.

### SseStreams

`entry` and `age` are the job's entry in `_job_queues` and the time since its
`last_active`; `q` is the `queue.Queue` object, which streams hold even when the entry
is gone; `hpc` is whoever puts the job in the work queue (`start_download` once, then
pipelines that retry it); `jpc` is the worker; `row` says whether the row has been failed;
`spc`, `wait` are the streams and how long their `get` has been blocked; `sent` and `seen`
are histories, kept as long as one client may be alone on the job.

The row is failed before the event is emitted, so a pipeline may put the job in the queue
again in between (PutRetry asks `row`). Every step of the job may fail, the scan after
`mark_done` included (StepFails).

The generator looks its queue up a second time after the handler did (`api.py:232`,
`:237`), so a sweep or a verdict may come in between. A generator runs in a pool thread:
a client that leaves while the thread is blocked in `get` leaves the thread behind
("gone"), and that `get` still takes the next event. A queue is not touched by opening
a stream; only by an emit or by a `get` that timed out.

Time is in ticks, and what can return returns before the next tick (maximal progress).
The other jobs appear only through the sweeps that follow them, and the process does not
exit. Of a message the status is kept.

### Library

| Variable | Code |
|---|---|
| `db` | the `downloads` table, as above |
| `disk` | what is at each path of the library: nothing, or a file of a job that is growing (copy2 is writing it), cut, or whole |
| `copies` | how many times a job stands in the work queue |
| `wpc`, `wjob`, `wpath` | the worker: step, job, the path it looks at, copies to or records |
| `hpc`, `hjob`, `hfrom`, `hto` | the move under way in `edit_metadata` or `rematch_apply` |
| `gone` | the rows `delete_downloads_bulk` has removed the files of |
| `rjob`, `rpath` | a rematch that awaits MusicBrainz: its mbid (none for a song id) and the path it found |
| `spoilt`, `astray` | history: what the properties leave out |

This is the same worker as in JobLifecycle, cut where files matter: TakeJob reads the
row, LookForFile asks whether its file exists, SkipDownload records the path that was
read, Place asks whether the destination exists, CopyStarts and CopyEnds are the two ends
of `copy2`. A handler runs to its `await` alone, but the worker runs beside it: between
the check that a destination is free (StartMove) and the rename (Move), between the
rename and the UPDATE (RecordMove), between the removal of a file (RemoveFile) and
MarkIgnored. A rematch reads its path, awaits, and goes on with the path it read
(RematchReads, RematchResumes); edits and deletes may come in between.

Abstractions. The names of a track lead to a path of its set `Home`; how
(`sanitize_path_component`, `resolve_dir`, canonical names, the extension) is left open.
The destination an edit or a rematch asks for is any path of that set. Music and staging
are on one file system per folder, so `shutil.move` inside the library is a rename. Tags,
cover art and folders are left out, except that a copy may fail because its folder is
gone (CopyFails). The queue is a multiset; accepting a job and the reload after a restart
are one step each, since JobLifecycle takes them apart. A job may be enqueued whatever its
row says by then: a plan may be stale, and a recommended track whose attempts are used up is
planned again.

What the code does not promise is named in the model and left out of OwnFile: a job whose
file is moved or deleted while the worker is about to record it, or whose copy was cut, or
whose move or delete was not written to the table (`spoilt`); a track moved by its song id
(`astray`). Both properties speak of the tracks whose names are their own (`OwnNames`): the
code gives two rows that lead to one path one file, and the first delete removes it for
both. What such rows do to each other does not reach a third track: the theorems suppose
nothing of the other tracks' names.

### CfCursor

| Variable | Code |
|---|---|
| `offset`, `first` | settings `cf_offset`, `cf_first_mbid` |
| `model` | the model ListenBrainz answers from; its list is `Ranks[model]` |
| `pc`, `off`, `mbid`, `found` | per thread in `run_pipeline`: its step, the offset it read, the first mbid it compares or stores, the tracks fetched |
| `handed`, `lost` | history: tracks put in the work queue; fetched and dropped |
| `base`, `src` | history: the model in which `offset`, and what a thread read of it, count (0: a page of one list was added to an offset of another) |
| `mishaps` | counter behind the bound |

Each read or write of a setting and each request is an action, so that two pipelines, an
exit and a new model come in between any two. The first fetch is Start, ReadFirst, Probe,
KeepFirst, Fetch, StoreTop, Advance, or Rewind when nothing came; the second, when LB
Radio had nothing, is ReadAgain, Refetch, AdvanceAgain. CfRaises and AgainRaises are the
two `except` clauses, HandOverRaises a run that dies in the filtering or the enqueueing.

Abstractions. A page is what the list holds between two places; `kept` are the tracks for
which `lookup_recording` found names. A lookup that fails is a mishap; the names of the
recordings in `Nameless` are never found, which is no mishap. The cursor advances by what
was kept, so pages overlap behind a nameless track, and a page without any name is taken
for the end of the list: what lies behind it never comes, and `Reachable` leaves it out.
A new model that is noticed is stored (KeepFirst) before the offset is; a run that dies in
between leaves the old offset in the new list. CursorSkipsNothing counts offsets in the
list they were read in (`base`), and EverythingComes shows that the tracks such a run has
skipped come in a later pass. A fetch is one step: the list
does not change between the request and the lookups. LB Radio has tracks or not. What
follows the fetches is one step here; JobLifecycle takes it apart.

### Downloader

| Variable | Code |
|---|---|
| `waiting`, `thread` | `_yt_executor`: its queue of calls and what each of its threads runs |
| `staged` | `staging/{mbid}.flac` and `.opus`: a video, and whether a call that had been given up wrote it |
| `pc`, `mbid`, `video` | the worker in `download_track` or `download_track_by_id`: step, job, the job's `video_id` |
| `remaining`, `attempted`, `target`, `opts` | `remaining_entries`, `attempted_urls`, `download_target`, what is left of `opts_list` |
| `given` | which file was returned |
| `loop` | the event loop: free, or waiting in `search_candidates` |
| `answer`, `asked` | history: the entries of the search; the video a job was requested with |
| `unsettled`, `tries`, `asks`, `exits` | jobs without a finished download; counters behind the bounds |

A run is BeginSearch, an answer (MetaEnds, MetaTimesOut), then Choose or ChooseSearch,
TryFormat and the end of the call for each target and format: Fetched, FindsFile (a file
is there that this call has not written), Dissimilar (the last search brought another
title), FetchFails (a `DownloadError`, or nothing brought), FetchTimesOut, FetchBlocked;
TargetFails when the formats are used up; Imported or ImportFails. Any other exception
leaves `download_track` at once, with candidates and last search untried (FetchRaises, and
CallRaises where the call is made), and `run_download_job` marks the job failed (JobFails);
`download_track_by_id` catches them all. BeginPick is `download_track_by_id`, which shares the steps from
TryFormat on. `_run_with_timeout` is Submit, a thread that takes the call (Takes), and
either the end of the call or GivesUp: the call then belongs to nobody, keeps its place in
the queue or its thread, and ends with a file (LateWrite) or without (LateEnd), or never.

A search that finds nothing has an empty list of entries, which is false, so
`info.get("entries") or [info]` (`downloader.py:362`) makes the result itself a candidate:
`Playlist`, an entry that is no video. It has the query for its title, and downloading it
runs the search again: it raises at line 458 when the list is empty again, fails, or brings
any video, which nothing compares with the track.

Abstractions. An entry is its video, or `Playlist`. What makes a title live, a cover or similar, and a
score what it is, are sets and a function of videos; the order of the two filters is the
code's, so a clean entry with another title keeps a similar live performance out. yt-dlp
brings the video of its target, for a search any video; of a playlist some videos may have
been written before one fails (LeavesFile). Its intermediate files (`.part`, `.webm`) are
left out, and so are entries without a title, which the last search accepts. The
steps before and after the download are in JobLifecycle and Library. A job's video is known
to its first run only, because the retry and the reload enqueue it without.

ReturnedIsAcceptable has two exceptions (`Expected`). The files of calls given up: nothing
in the code stops them from replacing a file, or from being found in its place, during a
later run or candidate of the same job. And the runs that have tried the empty search as a
candidate. What it says is that these are the only ways in which a wrong file gets there.
The second is noted and not claimed against a document: the comment at `downloader.py:442` and
`tests/unit/test_downloader.py:239` call `ytsearch1` the fallback when there are no
entries, which it is when the request fails, and not when the list is empty.
GivesUpLast speaks of the runs that return, not of those that raise.
FirstRunBringsThePick says where there is no such way: before the first run of a job the
pool and the staging directory hold nothing of it, so whatever that run imports, late file
or not, is the video it was started with. PickedIsImported claims the same of all runs and
is violated.

`DownloadRun` is what a run looks like without threads, calls and files: it is running, has
a file ready or has raised, has heard which entries there are, has tried some targets, and has formats
of the last one left. The mapping (`Run`) takes `pc` for the phase, `answer` for what was
heard, `attempted` and the run's own video for what was tried, the length of `opts` for the
formats left. A run without a video of its own may give up in the abstract once the search
has been tried, one with its own only when its formats are used up: FetchBlocked and
Dissimilar are the former, TargetFails is both. It raises (Raise) only while it tries a
target of its own choice, never with a video of its own, and has failed then (Fail). What the pool does besides is invisible.
The worthy entries (clean, similar, with a url) are those the search has to wait for.

### RateLimiter

| Variable | Code |
|---|---|
| `store` | the stamps of one key in `_rate_store`; empty is no entry |
| `now` | `time.time()`, in ticks |
| `accepted`, `refusals` | history: times of the requests let through, number of those refused |

Accept and Refuse are `rate_limit_middleware` for a request that a rule applies to, up to
`call_next`: there is no `await` in between, so it is one step, and Cleanup is one key's
part of a round of `_periodic_rate_cleanup`. The keys share nothing, so one is enough.
A stamp stands for an accepted request, which keeps two requests of one tick apart, as the
list does. The clock is taken not to go back; `time.time()` may be set back, and then old
stamps count for longer.

`SlidingWindow` has the clock, the log of all requests let through and the number of those
refused, and no store: a request is let through exactly when fewer than Limit entries of
the log lie in the window. The mapping takes `accepted` for the log; pruning and the
cleanup change nothing there, which is what is to be shown of them.

### DurableWork

Three variables: `st` (none, owed, done, failed, ignored), `live`, `up`. Jobs are
accepted or taken up, worked on, settled, let go, deleted; one may be failed from the start
(a row of an earlier version); a crash empties `live`; the recovery takes up exactly what is owed. The mapping in `JobLifecycle` (`Durable`) reads
`st` off the rows, `live` off everything that holds a job (queue, worker, pipelines,
handlers, reload, stranded), `up` off the phase. Nothing but a live job changes from
`done` to something else, so the refinement says in one formula what the machinery
guarantees: nothing owed is forgotten, nothing done is redone by itself. The two promises
are formulas of the abstract module, OwedIsLive and ClosedStaysClosed, and are proved from
it alone.

## 3. Runs

| Run | Instance | Checks |
|---|---|---|
| `lifecycle_two_pipelines` | 1 recommended job, with or without an old nameless row, + 1 manual job, 2 pipeline threads, 1 extra pipeline run, 1 restart | CarriedHasRow, SettledStaysSettled |
| `lifecycle_faults` | the same jobs, 1 pipeline thread (the one of each boot), 2 restarts, 1 raising statement | TypeOK, NoLostWork, DownloadingIsRunning, KeepsPromises |
| `lifecycle_liveness` | the same jobs, no old row, 1 pipeline thread, 1 restart, fair threads | OwedIsSettled, BootRetriesFailed |
| `sse_streams` | 2 streams opened in time, a job tried twice, fair threads | TypeOK, SweptIsOrphaned, OnlyClientMissesNothing, OnlyClientIsTold |
| `library` | 2 tracks, one with two paths; 2 + 1 puts; one exit or raising statement | TypeOK, OwnFile, MusicIsKept |
| `cf_cursor` | 2 pipeline threads, lists of 1 and 3 tracks (one without a name), pages of 2 and 1, 2 mishaps, fair scheduler | TypeOK, CursorSkipsNothing, EverythingComes |
| `downloader` | 3 videos (clean and similar, live, another title) and the empty search, 2 pool threads, a job run twice, 1 request for candidates, 1 exit; waits are fair | TypeOK, ReturnedIsAcceptable, FirstRunBringsThePick, GivesUpLast, RunsInOrder, RunsEnd, LoopGoesOn |
| `rate_limiter` | 2 requests per 3 ticks, 12 ticks, 2 refusals, fair clock and cleanup | TypeOK, NeverTooMany, RefusedOnlyWhenFull, DecidesByTheWindow, QuietClientIsForgotten |
| `attempts_budget` | 1 track, 3 pipeline runs | **violates** AttemptsWithinBudget |
| `library_cut_copy` | as `library` | **violates** RecordedIsCopied |
| `library_song_id` | as `library`, no exit, nothing raises | **violates** RowFollowsFile |
| `downloader_pick` | as `downloader`, without fairness | **violates** PickedIsImported |

Deadlock is checked in the run of CfCursor, where a pipeline can always be started;
not in the others (`CHECK_DEADLOCK FALSE`): an idle system with its bounds used up has
nothing to do.

What the passing runs show. No interleaving of worker, pipelines, requests, deletes and
reload loses an accepted job, with an exit between any two steps and a statement that
raises anywhere, except the one case the code knows about (an error whose `mark_failed`
fails too strands the job until the next restart). The worker never works without a row.
A settled track (done, deleted, or a request that has used up its attempts, with no copy
in flight) stays settled. With fair threads every owed row gets a verdict and a boot
retries what failed. A client that comes in time and is alone on its job misses nothing.
Apart from the cases named above, a done track names a whole file of its own through
every interleaving of imports, edits, rematches and deletes; and the last whole file of a
track is lost only by its delete, by a new copy of the same track written over it, or when
a cut copy is renamed over it in the gap between the check and the rename. The cursor
passes over no track, whichever of two pipelines reads, advances or rewinds it; and since
it starts over at the end of the list, whatever a failure, a stale offset or a new model
that went unnoticed made a run miss is handed over in a later pass.

A download returns a file of the video that was asked for, or of one similar to the track,
whatever the runs and candidates before it left behind, unless a call that had been given
up put it there or an empty search was taken for a candidate; the first run of a pick brings
the pick in every case. A run that returns nothing has passed over no clean and similar entry
and has tried the last search after them; whatever times out, hangs, raises or arrives late,
a run tries each target once and each format once. With both pool threads hanging for ever each wait still ends by its
timeout, for the worker and for the event loop; that the event loop waits at all is what
the model shows of `search_candidates`. The limiter lets no window have more than its limit
and refuses nobody whose window is not full: it decides as if it kept every stamp for ever;
the store of a client that stays away empties.

What the violating runs show (PROJECT.json, findings, quotes the documents):

- *attempts_budget*: a retried track keeps its `failed` row while it waits in the queue or
  in a pipeline's list, so each further pipeline run plans one more copy, and each failing copy
  adds an attempt, with no look at how many there are: more than the documented 3. The
  shortest trace is of this kind. There is a direct way too, with one copy at a time:
  `is_downloaded` (`state.py:70`) is false for a failed row, so the filter at `main.py:127`
  lets a recommended track through whose attempts are used up.
- *library_cut_copy*: an exit in the middle of `copy2` leaves a cut file at the final
  path; the retry takes it for a duplicate and the row becomes done.
- *library_song_id*: a rematch by song id moves the file and never updates the row.
- *downloader_pick*: the video picked in the dialog is in no column; a run after a restart,
  or a retry, searches by name and imports what it finds.

Three properties are narrower than the documents, because the code keeps no more.
SettledStaysSettled speaks of tracks with no copy in flight: `mark_downloading`, `mark_done`
and `mark_failed` write over whatever status is there, so a track deleted while its job is
queued or running leaves `ignored`. OnlyClientIsTold speaks of a client alone on its job:
streams of one job take events from one queue, each event reaches one of them, and the
other lives on keep-alives when the verdict is gone. EverythingComes promises a later pass,
not that the cursor goes back to the top as soon as the model is new.

### Bounds

`MaxAttempts` is 2 in the two large runs and 3 (the code's value) elsewhere; 2 still has
a first failure that is retried and a second that is not. One recommended and one manual
job cover both kinds, and two jobs are what the queue needs to hold copies of one behind
another; the two actors that can race on one row are the worker and one other thread, so
two pipelines add the races between planners. One restart follows every reachable
state, the second one follows what a recovery left half-done. One song makes every pair
of requests a duplicate pair; one path makes every pair of rows share a file, the worst
case for the skip check. Counters `runs`, `crashes`, `faults` exist only for the bounds
and are not part of the theorems' argument, which holds for all values of
MaxRuns, MaxCrashes and MaxFaults.

In SseStreams the timeout of a `get` is one tick and the lifetime of a queue two: what
matters is their order and that the one plus the connection delay does or does not fit
into the other. The code has 30 s and 30 min. `OpenWithin` is how late a client
connects; 1 fits (1 + 1 <= 2). A later one can have its queue swept from under its first
`get`, since opening a stream does not touch the queue: `TimelyClients` is an assumption
of the theorems, not a promise of the code. Two puts are the request and one retry, two
streams are enough to compete.

In Library one track with two paths is what a move needs, and a second track is what the
worker can be busy with while a handler works on the first; two puts of the first give two
copies of one job, or a retry. A third track that shares the path of the second is in no
run for its size (with no mishap: 734,494 states, all parts of IInv hold); the theorems cover
it. One mishap, an exit or something that raises, may come at
any step; every property that fails with one is among the violating runs or the cases
left out.

In CfCursor a list of one track and a longer one of which it is the second are what a
stale offset needs to hit a page of the wrong list. Pages of two and of one split a list,
let a page lose a part to a lookup, and let two pipelines hold overlapping pages. Two
mishaps allow a failure in the pass that makes up for another.

In the runs of JobLifecycle with a nameless track the recommended track may have an old row or
none, with every number of attempts up to the maximum; the liveness run and the one of the
attempts need none.

In Downloader three videos are the three kinds that the two filters tell apart, and the
two that may be chosen have different scores; two runs of one job let a file of the first
meet the second, and two threads, the code's number, can both hang. `PreferFlac` is false,
so a search has one format and a pick has two: going from one format to the next is in the
picks, going from one candidate to the next in the searches. The empty search counts as clean
and similar, as the query does. One exit may come anywhere. In
RateLimiter twelve ticks are four windows; requests stop a window before the end, so that
the last can expire.

### Fairness

Every thread that can take a step takes one eventually: each external call of the worker
has a timeout (yt-dlp, HTTP, the scan wait of 300 s), so a job's step ends; a pipeline's
fetches have timeouts; a handler without `await` runs to its end; docker-compose
restarts the container (`restart: unless-stopped`) and stops it after a grace period of
40 s, so `down` and `stopping` are left. Nothing is assumed about users, the scheduler,
crashes or faults. In SseStreams also time passes and a `get` that can return does;
nothing is assumed of clients and of other jobs. In CfCursor only the
scheduler thread is fair: it starts a run again and again (`_run_scheduler`), and each of
its requests has a timeout. Nothing is assumed of manually started pipelines. Mishaps
and new models are bounded: a ListenBrainz that always fails delivers nothing. In
Downloader only the worker and the event loop are fair, whose every wait has a timeout;
nothing is assumed of the pool's threads. In RateLimiter the clock ticks and the cleanup
task comes round every 300 s.

## 4. Theorems

All are proved for every value of the constants, from the assumptions
`StoreAssumption` (attempts are positive, the null values are not values),
`LifecycleAssumption` (manual ids are ids, nameless tracks are recommended ones, there is a
pipeline thread), `SseAssumption`
(timeouts are numbers, a get waits at least one tick), `LibraryAssumption` (names
lead to paths, the null job is no job), `CursorAssumption` (the lists are sequences of
mbids, there is one, a page holds at least one track), `DownloaderAssumption` (the kinds
are sets of entries, a score is a number, neither search is a video), `NullAssumption` (the null
values are not values) and `LimiterAssumption` (window and limit are positive).

| Module | Theorem | Property |
|---|---|---|
| `JobLifecycleProofs` | TypeCorrect | TypeOK |
| | InductiveInvariant | IInv |
| | WorkIsNotLost | NoLostWork |
| | CarriedJobsHaveRows | CarriedHasRow |
| | DownloadingRowsAreRunning | DownloadingIsRunning |
| | SettledTracksStaySettled | SettledStaysSettled |
| `JobRefinementProofs` | LifecycleKeepsPromises | KeepsPromises |
| | OwedJobsAreTakenCareOf | OwedIsLive of DurableWork |
| | ClosedJobsStayClosed | ClosedStaysClosed of DurableWork |
| `SseStreamsProofs` | TypeCorrect | TypeOK |
| | SweepSparesReaders | SweptIsOrphaned |
| | OnlyClientIsSentEverything | OnlyClientMissesNothing |
| `LibraryProofs` | TypeCorrect | TypeOK |
| | InductiveInvariant | IInv |
| | DoneRowsNameTheirFile | OwnFile |
| | MusicStays | MusicIsKept |
| `CfCursorProofs` | TypeCorrect | TypeOK |
| | InductiveInvariant | IInv |
| | NoTrackIsSkipped | CursorSkipsNothing |
| `DownloaderProofs` | TypeCorrect | TypeOK |
| | InductiveInvariant | IInv |
| | ReturnedVideosAreAcceptable | ReturnedIsAcceptable |
| | CandidatesComeFirst | GivesUpLast |
| | RunsKeepInvariant | RunInv |
| | RunsGoInOrder | RunsInOrder |
| | FirstRunsBringThePick | FirstRunBringsThePick |
| `RateLimiterProofs` | TypeCorrect | TypeOK |
| | InductiveInvariant | IInv |
| | LimitIsKept | NeverTooMany |
| | RefusalsAreEarned | RefusedOnlyWhenFull |
| | LimiterKeepsWindow | DecidesByTheWindow |

*Job machinery.* NoLostWork is not inductive alone: `mark_downloading` makes a row owed
only if the worker has the job, and the worker lets go of a job only after a verdict
that hits the row, so it needs CarriedHasRow; both need the types (the worker has a job
unless it waits for one). `IInv == TypeOK /\ CarriedHasRow /\ NoLostWork` is inductive.
The argument goes by thread: the worker's own job (lemma OwnJobSafe), and everything
else as a thread that leaves the worker alone (OtherThreadSafe); each statement of the
table has a lemma (`DownloadStoreProofs`: MarkFailedEffect, ...) that says which status and attempts it changes,
so that no proof opens the table. DownloadingIsRunning is inductive with the types.
SettledStaysSettled needs the types only: the two filters of the pipeline keep a settled
track out, and what is not in flight cannot be written. Of the tracks that have used up
their attempts only the requested ones are settled: a failed row is no reason for the first
filter, and a recommended track meets no other.

*Refinement.* Two more invariants: before the reload nothing is carried (DownIsEmpty),
so that a recovery starts from the empty set, and a filtering pipeline has no retries
left from before (FilteringHasNoRetry). NoLostWork is what makes a job that is let go a
job nobody is owed an answer about. OwedJobsAreTakenCareOf is proved of the abstract module
(lemma AbstractStep), without a look at the machinery; ClosedJobsStayClosed carries the
other promise over to JobLifecycle, where it speaks of pipelines, recovery and deletes.

*SSE.* Both theorems assume `TimelyClients == OpenWithin + KeepAlive <= Ttl`, which
holds of clients that connect soon enough and fails of later ones. While a stream reads, its queue is younger than
OpenWithin plus the time its `get` has waited (AttendedIsRecent), so no sweep finds it
expired. For the second, a client that is alone is the only one to take from the queue
(OnlyClientHasQueue), nothing was emitted before the queue existed, and so what it was
sent and what is still queued is what was emitted.

*Library.* A done row keeps naming its file because nobody else's step reaches that file:
a step writes or removes only at paths that the names of its own track lead to, and a move
enters the paths of a track that owns its names only from these paths (DiskPlaced,
RowsPlaced, WorkerPlaced, HandlerPlaced; lemmas OwnPath, MoveWithinTrack). This is said of
one such track at a time, so that the others may share names as they will. A file that is found is whole unless
it is being written, which only the worker does to the file of the job in hand, or was
cut, which puts its job among the exceptions (CopyInProgress). JobInProgress says that the
job in hand is not done before it is recorded and that what is about to be recorded is
there; MoveInProgress keeps the destination of a move free while its source is being
written, which is what stops a growing copy from replacing a whole file. IInv is TypeOK
with these parts and OwnFile. Steps that touch no file follow from two lemmas
(QuietWorker, QuietHandler); the five that do (CopyStarts, the end of a copy, Move,
RemoveFile, Exit) have one each. MusicIsKept is a property of steps from IInv.

*CF cursor.* A stored offset is as good as what the thread that stores it had read and
fetched, so the invariant says of each thread what CursorSkipsNothing says of the cursor:
everything before the place it has reached is covered (ReachedIsCovered), where the
place reached is the offset it read plus, once it has fetched, the length of what it
holds; for that the thread must hold nothing before its first fetch (NothingYet). A page
is as long as the places it covers (PageIsRange, KeptIsWithinPage: what was kept counts no
further than the page reaches), and what is covered stays covered (CoveredGrows).

*Downloader.* A call that ends while the worker waits must be the call the worker made
last, or its file would count as another target's. So the invariant says who is waited for:
at most one call in queue and threads together (OneIsAwaited), and that one has the
worker's job, target and format (CallsAreCurrent); a timeout leaves none. Each way a call
can move through the pool has a lemma (SubmitAwaited, TakesKeepsCalls, AwaitedEnds,
AwaitedIsGivenUp). From it: what is downloaded is acceptable but for a search (RightTarget),
so the job's files are, from the sweep at the start of its run on (StagedIsAcceptable); a
run that downloads the empty search has tried it (PlaylistIsTried), which is the exception
the property makes.
NoneForgotten keeps each worthy entry among those left or tried, with nothing left when the
last search is tried; that a worthy entry is left while any is (BestIsLeft) needs that a
non-empty set of scores has a least one. GivesUpLast is a property of steps from IInv.

That the runs implement DownloadRun goes over StepsOfRun, which forgets the pool and the
files and leaves eleven things that can happen to a run; OnlyInWaitingSteps and PoolTellsStep
say that a call that ends for the worker ends in the step that waits for it. RunInv adds to
IInv what a run has tried: nothing before the answer (FreshRun), nothing that was not in it
but the search and nothing after the search (TriesAreAnswers), and at most two formats of
each (FormatsOnce); each abstract step is then one step (StepInOrder). So a run makes
finitely many calls however many videos there are, which is the part of RunsEnd that is not
about time; that each wait ends stays with TLC. FirstRunBringsThePick follows from IInv and
PickIsFollowed: while a job has had no run, or only the one of its pick, every call in the
pool and every file in the staging directory that is the job's is for that pick, given up or
not (CallsKept, FilesKept, OwnCallFollows).

*Rate limiter.* NeverTooMany is about the history of all accepted requests, while the code
looks at the stamps it has kept: RecentIsStored says that no stamp inside the window is
dropped, by pruning or cleanup, and InOrder that stamps are in the order of time, so
Limit + 1 requests within a window would all be in the store. The same fact gives the
refinement: what is recent in the store is what is inside the window in the whole log
(RecentIsInside), so both count the same, and what the cleanup removes was outside.

Only model-checked: liveness (OwedIsSettled, BootRetriesFailed, OnlyClientIsTold,
EverythingComes, RunsEnd, LoopGoesOn, QuietClientIsForgotten), which is out of the prover's
reach, and the violated claims.

## 5. Not modelled, and why

See the components of `PROJECT.json`. HTTP clients, tag formats, logging, configuration,
the page and the read-only endpoints are conversions and I/O without state of the kind a
model checker helps with. `init_db` migrations run once, alone. The ranking of MusicBrainz
results and the similarity of titles are string arithmetic: which result wins is a matter
of weights and thresholds, and a model over a few abstract strings would not be about them.

Of two rows that lead to one file (hazards main.py:130 and tagger.py:736) Library states
nothing, since the code promises nothing for them; of the tracks beside them it does. The default thread pool of the
event loop, of which each open stream blocks a thread (hazard api.py:240), is left out.

## 6. What could come next

1. The event loop's pool as a bounded resource of SseStreams.
2. Library: which of two rows of one file keeps what.
