----------------------------- MODULE Downloader ------------------------------
(***************************************************************************)
(* How the worker downloads a track: download_track with its candidates,   *)
(* formats and last search, download_track_by_id, and the pool of threads  *)
(* in which every call to yt-dlp runs.  A call that times out is given up  *)
(* by its caller and by nobody else: it keeps its thread, or its place in  *)
(* the pool's queue, and writes to the staging directory when it is done.  *)
(* The event loop uses the same pool, for search_candidates, and waits.    *)
(*                                                                         *)
(* External: what YouTube answers, how long a call takes and what it does. *)
(* Abstracted: the files that yt-dlp keeps while it works (.part, .webm).  *)
(***************************************************************************)
EXTENDS Naturals, Sequences, FiniteSets

CONSTANTS
    Mbids,
    Videos, NoVideo,
    Playlist,    \* the result of a search that found nothing: its title is the
                 \* query, and its url runs the search again
    Clean,       \* entries whose titles name no live performance, no cover
    Similar,     \* entries whose titles are similar enough to the track
    Linked,      \* entries that have a url
    Score,       \* the score of an entry, lower is better
    PreferFlac,  \* cfg.download.prefer_flac
    Search,      \* the target of the last search, ytsearch1
    Threads,     \* of _yt_executor
    NoCall, NoFile,
    MaxTries,    \* bound: runs of a job
    MaxAsks,     \* bound: requests for candidates
    MaxExits     \* bound: exits of the process

Entries == Videos \cup {Playlist}
Targets == Entries \cup {Search}
Formats == {"flac", "opus"}

ASSUME DownloaderAssumption ==
    /\ Clean \subseteq Entries /\ Similar \subseteq Entries /\ Linked \subseteq Entries
    /\ Score \in [Entries -> Nat]
    /\ PreferFlac \in BOOLEAN
    /\ NoVideo \notin Targets /\ Search \notin Entries /\ Playlist \notin Videos
    /\ MaxTries \in Nat /\ MaxAsks \in Nat /\ MaxExits \in Nat

\* Metadata, candidates for the page, or a download to the staging directory;
\* by is who waits for it, nobody after a timeout.
Call == [kind: {"meta", "candidates"}, by: {"worker", "loop", "nobody"}]
          \cup [kind: {"fetch"}, by: {"worker", "nobody"},
                mbid: Mbids, target: Targets, format: Formats]

\* late: written by a call that had been given up.
File == [video: Videos, late: BOOLEAN]

ASSUME NullAssumption == NoCall \notin Call /\ NoFile \notin File

VARIABLES
    waiting,    \* the pool's queue of calls
    thread,     \* the call each pool thread runs
    staged,     \* the staging directory: a file per mbid and format
    pc, mbid, video,               \* the worker: step, job, its video_id
    remaining, attempted, target,  \* locals of download_track
    opts,       \* the formats that are left to try
    given,      \* the format of the file that was returned
    loop,       \* the event loop runs, or waits in search_candidates
    answer,     \* history: the entries YouTube answered with
    asked,      \* history: the video that was asked for, per job
    unsettled,  \* the jobs without a finished download
    tries, asks, exits  \* counters behind the bounds

pool == <<waiting, thread>>
locals == <<mbid, video, remaining, attempted, target, opts, given, answer>>
jobs == <<asked, unsettled, tries>>
vars == <<pool, staged, pc, locals, loop, jobs, asks, exits>>

Steps == {"idle", "meta", "choose", "try", "fetch", "import", "raised"}

\* Every variable has its type.
TypeOK ==
    /\ waiting \in Seq(Call)
    /\ thread \in [Threads -> Call \cup {NoCall}]
    /\ staged \in [Mbids -> [Formats -> File \cup {NoFile}]]
    /\ pc \in Steps
    /\ pc # "idle" => mbid \in Mbids
    /\ video \in Videos \cup {NoVideo}
    /\ remaining \subseteq Entries /\ attempted \subseteq Targets
    /\ target \in Targets \cup {NoVideo}
    /\ pc \in {"try", "fetch"} => target \in Targets
    /\ opts \in Seq(Formats)
    /\ pc = "fetch" => opts # <<>>
    /\ given \in Formats
    /\ answer \subseteq Entries
    /\ loop \in {"free", "waits"}
    /\ asked \in [Mbids -> Videos \cup {NoVideo}]
    /\ unsettled \subseteq Mbids
    /\ tries \in [Mbids -> Nat] /\ asks \in Nat /\ exits \in Nat

NoFiles == [f \in Formats |-> NoFile]

Init ==
    /\ waiting = <<>> /\ thread = [t \in Threads |-> NoCall]
    /\ staged = [m \in Mbids |-> NoFiles]
    /\ pc = "idle" /\ mbid \in Mbids /\ video = NoVideo
    /\ remaining = {} /\ attempted = {} /\ answer = {}
    /\ target = NoVideo /\ opts = <<>> /\ given = "flac"
    /\ loop = "free"
    /\ asked = [m \in Mbids |-> NoVideo] /\ unsettled = Mbids
    /\ tries = [m \in Mbids |-> 0] /\ asks = 0 /\ exits = 0

-----------------------------------------------------------------------------
(* The choice of a candidate. *)

\* Clean entries only, if there are any; of these the similar ones.
Eligible(entries) ==
    LET clean == entries \cap Clean IN
    (IF clean # {} THEN clean ELSE entries) \cap Similar

\* _select_best_entry; equal scores are told apart by the order of the answer.
Best(entries) ==
    {e \in Eligible(entries) : \A f \in Eligible(entries) : Score[e] <= Score[f]}

-----------------------------------------------------------------------------
(* The pool. *)

Submit(c) == waiting' = Append(waiting, c)

Takes(t) ==
    /\ thread[t] = NoCall /\ waiting # <<>>
    /\ thread' = [thread EXCEPT ![t] = Head(waiting)]
    /\ waiting' = Tail(waiting)
    /\ UNCHANGED <<staged, pc, locals, loop, jobs, asks, exits>>

Runs(t, kind, by) == thread[t] # NoCall /\ thread[t].kind = kind /\ thread[t].by = by

Frees(t) == thread' = [thread EXCEPT ![t] = NoCall] /\ UNCHANGED waiting

\* What a download may bring: the video, or any for a search.
Brings(c) == IF c.target \in Videos THEN {c.target} ELSE Videos

Writes(c, v, late) ==
    staged' = [staged EXCEPT ![c.mbid][c.format] = [video |-> v, late |-> late]]

\* A download that fails brings nothing, but of a playlist the videos before the
\* one that failed.
LeavesFile(c) ==
    \/ UNCHANGED staged
    \/ c.target = Playlist /\ \E v \in Videos : Writes(c, v, FALSE)

\* A caller stops waiting; the call stays where it is.
GivenUp(c, by) == IF c # NoCall /\ c.by = by THEN [c EXCEPT !.by = "nobody"] ELSE c
GivesUp(by) ==
    /\ waiting' = [i \in DOMAIN waiting |-> GivenUp(waiting[i], by)]
    /\ thread' = [t \in Threads |-> GivenUp(thread[t], by)]

\* A call that was given up ends, with a file or without.
LateWrite(t) ==
    /\ Runs(t, "fetch", "nobody") /\ Frees(t)
    /\ \E v \in Brings(thread[t]) : Writes(thread[t], v, TRUE)
    /\ UNCHANGED <<pc, locals, loop, jobs, asks, exits>>

LateEnd(t) ==
    /\ \E kind \in {"meta", "candidates", "fetch"} : Runs(t, kind, "nobody")
    /\ Frees(t)
    /\ UNCHANGED <<staged, pc, locals, loop, jobs, asks, exits>>

-----------------------------------------------------------------------------
(* The worker. *)

\* A job's own video is known to its first run only: a retry by the pipeline
\* and the reload put the job in the queue without it.
JobVideo(m) == IF tries[m] = 0 THEN Videos \cup {NoVideo} ELSE {NoVideo}

FetchCall(m, x, f) ==
    [kind |-> "fetch", by |-> "worker", mbid |-> m, target |-> x, format |-> f]

SearchOpts == IF PreferFlac THEN <<"flac", "opus">> ELSE <<"opus">>

\* A run of a job, with what every run begins with.
Begins(m, v) ==
    /\ pc = "idle" /\ m \in unsettled /\ tries[m] < MaxTries
    /\ v \in JobVideo(m)
    /\ mbid' = m /\ video' = v
    /\ tries' = [tries EXCEPT ![m] = @ + 1]
    /\ asked' = IF tries[m] = 0 THEN [asked EXCEPT ![m] = v] ELSE asked
    /\ UNCHANGED <<remaining, attempted, answer, given>>

\* Mutant: the files an earlier run left stay.
BeginUnswept(m) ==
    /\ Begins(m, NoVideo)
    /\ pc' = "meta"
    /\ Submit([kind |-> "meta", by |-> "worker"])
    /\ UNCHANGED <<thread, staged, target, opts, loop, unsettled, asks, exits>>

\* The files an earlier run left are removed; download_track asks for the
\* entries of its search ...
BeginSearch(m) ==
    /\ Begins(m, NoVideo)
    /\ staged' = [staged EXCEPT ![m] = NoFiles]
    /\ pc' = "meta"
    /\ Submit([kind |-> "meta", by |-> "worker"])
    /\ UNCHANGED <<thread, target, opts, loop, unsettled, asks, exits>>

\* ... and download_track_by_id has its target.
BeginPick(m) ==
    \E v \in Videos :
       /\ Begins(m, v)
       /\ staged' = [staged EXCEPT ![m] = NoFiles]
       /\ pc' = "try" /\ target' = v /\ opts' = <<"flac", "opus">>
       /\ UNCHANGED <<pool, loop, unsettled, asks, exits>>

\* Mutant: without entries the download starts at once.
AnsweredAtOnce(entries) ==
    /\ pc' = IF entries = {} THEN "try" ELSE "choose"
    /\ answer' = entries
    /\ remaining' = IF Best(entries) = {} THEN {} ELSE entries
    /\ UNCHANGED <<mbid, video, attempted, target, opts, given>>

\* The entries, of which none may do.
Answered(entries) ==
    /\ pc' = "choose"
    /\ answer' = entries
    /\ remaining' = IF Best(entries) = {} THEN {} ELSE entries
    /\ UNCHANGED <<mbid, video, attempted, target, opts, given>>

\* A request that fails brings none; a search that finds nothing brings the
\* result itself as the one entry (`info.get("entries") or [info]`).
MetaEnds(t) ==
    /\ Runs(t, "meta", "worker") /\ Frees(t)
    /\ \E entries \in (SUBSET Videos) \cup {{Playlist}} : Answered(entries)
    /\ UNCHANGED <<staged, loop, jobs, asks, exits>>

MetaTimesOut ==
    /\ pc = "meta" /\ GivesUp("worker")
    /\ Answered({})
    /\ UNCHANGED <<staged, loop, jobs, asks, exits>>

\* The next candidate, unless it has no url or was tried.
Choose ==
    /\ pc = "choose"
    /\ \E e \in Best(remaining) :
          IF e \in Linked \ attempted
          THEN /\ pc' = "try" /\ target' = e
               /\ attempted' = attempted \cup {e} /\ opts' = SearchOpts
               /\ UNCHANGED remaining
          ELSE /\ remaining' = remaining \ {e}
               /\ UNCHANGED <<pc, target, attempted, opts>>
    /\ UNCHANGED <<pool, staged, mbid, video, given, answer, loop, jobs, asks, exits>>

\* None is left that will do: the last search.
ChooseSearch ==
    /\ pc = "choose" /\ Best(remaining) = {}
    /\ pc' = "try" /\ target' = Search
    /\ attempted' = attempted \cup {Search} /\ opts' = SearchOpts
    /\ remaining' = {}
    /\ UNCHANGED <<pool, staged, mbid, video, given, answer, loop, jobs, asks, exits>>

TryFormat ==
    /\ pc = "try" /\ opts # <<>>
    /\ pc' = "fetch"
    /\ Submit(FetchCall(mbid, target, Head(opts)))
    /\ UNCHANGED <<thread, staged, locals, loop, jobs, asks, exits>>

\* The end of a run: locals are gone.
Ends ==
    /\ pc' = "idle"
    /\ video' = NoVideo /\ target' = NoVideo /\ opts' = <<>> /\ given' = "flac"
    /\ remaining' = {} /\ attempted' = {} /\ answer' = {}
    /\ UNCHANGED mbid

\* Mutant: break where the loop should continue.
NextTargetBreaks == Ends

\* Mutant: continue after the last search.
NextTargetContinues ==
    IF video # NoVideo
    THEN Ends
    ELSE /\ pc' = "choose" /\ remaining' = remaining \ {target}
         /\ UNCHANGED <<mbid, video, attempted, target, opts, given, answer>>

\* Mutant: a pick that fails falls back to the search.
NextTargetFallsBack ==
    IF target = Search
    THEN Ends
    ELSE /\ pc' = "choose" /\ remaining' = remaining \ {target}
         /\ UNCHANGED <<mbid, video, attempted, target, opts, given, answer>>

\* The next candidate after this one has failed.  After the last search, or
\* the video that was asked for, the job is marked failed.
NextTarget ==
    IF target = Search \/ video # NoVideo
    THEN Ends
    ELSE /\ pc' = "choose" /\ remaining' = remaining \ {target}
         /\ UNCHANGED <<mbid, video, attempted, target, opts, given, answer>>

\* Every format has failed.
TargetFails ==
    /\ pc = "try" /\ opts = <<>>
    /\ NextTarget
    /\ UNCHANGED <<pool, staged, loop, jobs, asks, exits>>

\* The file that is looked for first is returned.
Returns(files) ==
    /\ pc' = "import"
    /\ given' = IF files["flac"] # NoFile THEN "flac" ELSE "opus"
    /\ UNCHANGED <<mbid, video, remaining, attempted, target, opts, answer>>

\* The last search has brought another track: its files are removed.
Dissimilar(t) ==
    /\ Runs(t, "fetch", "worker") /\ Frees(t)
    /\ thread[t].target = Search /\ Videos \ Similar # {}
    /\ staged' = [staged EXCEPT ![mbid] = NoFiles]
    /\ Ends
    /\ UNCHANGED <<loop, jobs, asks, exits>>

Fetched(t) ==
    /\ Runs(t, "fetch", "worker") /\ Frees(t)
    /\ \E v \in Brings(thread[t]) :
          /\ thread[t].target = Search => v \in Similar
          /\ Writes(thread[t], v, FALSE)
    /\ Returns(staged'[mbid])
    /\ UNCHANGED <<loop, jobs, asks, exits>>

\* A file that a call given up earlier has put there is found as well: yt-dlp
\* keeps it, or has brought none itself.
FindsFile(t) ==
    /\ Runs(t, "fetch", "worker") /\ Frees(t)
    /\ \E f \in Formats : staged[mbid][f] # NoFile
    /\ Returns(staged[mbid])
    /\ UNCHANGED <<staged, loop, jobs, asks, exits>>

\* A DownloadError, or no file: the next format.
NextFormat ==
    /\ pc' = "try" /\ opts' = Tail(opts)
    /\ UNCHANGED <<mbid, video, remaining, attempted, target, given, answer>>

FetchFails(t) ==
    /\ Runs(t, "fetch", "worker") /\ Frees(t)
    /\ LeavesFile(thread[t])
    /\ NextFormat
    /\ UNCHANGED <<loop, jobs, asks, exits>>

\* Mutant: the result is awaited without a timeout.
FetchIsAwaited == pc = "fetch" /\ FALSE /\ UNCHANGED vars

FetchTimesOut ==
    /\ pc = "fetch" /\ GivesUp("worker")
    /\ NextFormat
    /\ UNCHANGED <<staged, loop, jobs, asks, exits>>

\* A DownloadError that says one may not have the video: no other format of it.
FetchBlocked(t) ==
    /\ Runs(t, "fetch", "worker") /\ video = NoVideo /\ Frees(t)
    /\ LeavesFile(thread[t])
    /\ NextTarget
    /\ UNCHANGED <<loop, jobs, asks, exits>>

\* Any other exception (an OSError of yt-dlp, the first of an empty list of
\* entries) leaves download_track; download_track_by_id takes it for a failure.
FetchRaises(t) ==
    /\ Runs(t, "fetch", "worker") /\ video = NoVideo /\ Frees(t)
    /\ LeavesFile(thread[t])
    /\ pc' = "raised"
    /\ UNCHANGED <<locals, loop, jobs, asks, exits>>

\* The same where the call is made: YoutubeDL refuses its options, or the pool has
\* been shut down under a worker that outlived the 30 s of a stop.
CallRaises ==
    /\ pc = "try" /\ opts # <<>>
    /\ IF video = NoVideo THEN pc' = "raised" /\ UNCHANGED locals ELSE NextFormat
    /\ UNCHANGED <<pool, staged, loop, jobs, asks, exits>>

\* run_download_job marks the job failed.
JobFails ==
    /\ pc = "raised" /\ Ends
    /\ UNCHANGED <<pool, staged, loop, jobs, asks, exits>>

\* tag_and_import has copied the file and removed it from staging ...
Imported ==
    /\ pc = "import" /\ Ends
    /\ staged' = [staged EXCEPT ![mbid][given] = NoFile]
    /\ unsettled' = unsettled \ {mbid}
    /\ UNCHANGED <<pool, loop, asked, tries, asks, exits>>

\* ... or has failed, and leaves it.
ImportFails ==
    /\ pc = "import" /\ Ends
    /\ UNCHANGED <<pool, staged, loop, jobs, asks, exits>>

-----------------------------------------------------------------------------
(* The event loop, and the end of the process. *)

\* GET /api/download/candidates: the call is made on the event loop itself.
AskCandidates ==
    /\ loop = "free" /\ asks < MaxAsks
    /\ loop' = "waits" /\ asks' = asks + 1
    /\ Submit([kind |-> "candidates", by |-> "loop"])
    /\ UNCHANGED <<thread, staged, pc, locals, jobs, exits>>

CandidatesEnd(t) ==
    /\ Runs(t, "candidates", "loop") /\ Frees(t)
    /\ loop' = "free"
    /\ UNCHANGED <<staged, pc, locals, jobs, asks, exits>>

\* Mutant: the same for the event loop.
CandidatesAreAwaited == loop = "waits" /\ FALSE /\ UNCHANGED vars

CandidatesTimeOut ==
    /\ loop = "waits" /\ GivesUp("loop")
    /\ loop' = "free"
    /\ UNCHANGED <<staged, pc, locals, jobs, asks, exits>>

\* Threads and calls go, files stay; the job is run again after the restart.
Exit ==
    /\ exits < MaxExits /\ exits' = exits + 1
    /\ waiting' = <<>> /\ thread' = [t \in Threads |-> NoCall]
    /\ Ends /\ loop' = "free"
    /\ UNCHANGED <<staged, jobs, asks>>

Worker ==
    \/ MetaTimesOut
    \/ Choose
    \/ ChooseSearch
    \/ TryFormat
    \/ TargetFails
    \/ FetchTimesOut
    \/ CallRaises
    \/ JobFails
    \/ Imported
    \/ ImportFails

Begin == \E m \in Mbids : BeginSearch(m) \/ BeginPick(m)

Pool ==
    \E t \in Threads :
       \/ Takes(t)
       \/ MetaEnds(t)
       \/ Fetched(t)
       \/ FindsFile(t)
       \/ Dissimilar(t)
       \/ FetchFails(t)
       \/ FetchBlocked(t)
       \/ FetchRaises(t)
       \/ CandidatesEnd(t)
       \/ LateWrite(t)
       \/ LateEnd(t)

Next == Begin \/ Worker \/ Pool \/ AskCandidates \/ CandidatesTimeOut \/ Exit

Spec == Init /\ [][Next]_vars

\* A wait ends, by its timeout at the latest; what runs in the pool may hang.
FairSpec == Spec /\ WF_vars(Worker) /\ WF_vars(CandidatesTimeOut)

-----------------------------------------------------------------------------

\* The videos, and the empty search, a run may choose.
Acceptable == IF video = NoVideo THEN Similar ELSE {video}

\* A download that was given up may put its file in place of the right one, and a
\* run that has taken an empty search for a candidate brings anything.
Expected(file) == file.late \/ Playlist \in attempted \/ file.video \in Acceptable

\* The file that is handed to the importer is there until it is done, and it
\* is the video that was asked for, or a similar one: nothing that an earlier
\* run, another candidate or a last search gone wrong has left behind (but for
\* the two exceptions of Expected).
ReturnedIsAcceptable ==
    pc = "import" => staged[mbid][given] # NoFile /\ Expected(staged[mbid][given])

\* The entries of the answer that must not be passed over.
Worthy == answer \cap Clean \cap Similar \cap Linked

\* A run without a video of its own returns without a file only when every clean,
\* similar entry of the answer has been tried, and after them the last search.
\* (An exception that is no DownloadError ends it sooner: step "raised".)
GivesUpLast ==
    [][/\ pc \notin {"idle", "import", "raised"} /\ pc' = "idle"
       /\ video = NoVideo /\ exits' = exits
       => target = Search /\ Worthy \subseteq attempted]_vars

\* Whatever the pool is doing, a run goes through its targets as if a call to
\* yt-dlp were a call like any other: each target once, each format of it once,
\* the search last, unless a call raises what the run does not expect (DownloadRun).
\* So it is over after finitely many calls.
Phase == CASE pc = "idle" -> "idle" [] pc = "import" -> "ready"
           [] pc = "raised" -> "raised" [] OTHER -> "running"

Run == INSTANCE DownloadRun WITH
           Must <- Clean \cap Similar \cap Linked,
           MaxFormats <- 2,
           phase <- Phase, wanted <- video, heard <- answer,
           tried <- attempted \cup ({video} \ {NoVideo}),
           left <- Len(opts)
RunsInOrder == Run!Spec

\* Every run ends, whatever hangs in the pool.
RunsEnd == pc # "idle" ~> pc = "idle"

\* A search for candidates does not stop the event loop for good.
LoopGoesOn == loop = "waits" ~> loop = "free"

\* The first run of a job with a video of its own imports that video or nothing,
\* though it may time out, go on to the other format and find a late file.
FirstRunBringsThePick ==
    pc = "import" /\ tries[mbid] = 1 /\ asked[mbid] # NoVideo =>
       staged[mbid][given].video = asked[mbid]

\* A job with a video of its own gets that video.
PickedIsImported ==
    pc = "import" /\ asked[mbid] # NoVideo =>
       staged[mbid][given].video = asked[mbid]

-----------------------------------------------------------------------------
(* What the safety properties rest on. *)

\* The worker waits for one call at most, and it is the one it made last.
Awaited(c) == c # NoCall /\ c.by = "worker"
NoneAwaited ==
    /\ \A i \in DOMAIN waiting : ~Awaited(waiting[i])
    /\ \A t \in Threads : ~Awaited(thread[t])

IsCurrent(c) ==
    Awaited(c) =>
       /\ pc = c.kind
       /\ pc = "fetch" => c = FetchCall(mbid, target, Head(opts))
CallsAreCurrent ==
    /\ \A i \in DOMAIN waiting : IsCurrent(waiting[i])
    /\ \A t \in Threads : IsCurrent(thread[t])

OneIsAwaited ==
    /\ \A i, j \in DOMAIN waiting :
          Awaited(waiting[i]) /\ Awaited(waiting[j]) => i = j
    /\ \A t, u \in Threads : Awaited(thread[t]) /\ Awaited(thread[u]) => t = u
    /\ \A i \in DOMAIN waiting, t \in Threads :
          ~(Awaited(waiting[i]) /\ Awaited(thread[t]))

\* What is downloaded is acceptable, but for the last search.
RightTarget ==
    /\ pc \in {"meta", "choose"} => video = NoVideo
    /\ pc \in {"try", "fetch"} =>
          target \in Acceptable \/ (target = Search /\ video = NoVideo)

\* The job's staged files are, once the worker has looked at them.
StagedIsAcceptable ==
    pc # "idle" =>
       /\ \A f \in Formats : staged[mbid][f] # NoFile => Expected(staged[mbid][f])
       /\ pc = "import" => staged[mbid][given] # NoFile

\* A candidate is left or has been tried; the last search comes when none is left.
NoneForgotten ==
    video = NoVideo =>
       /\ pc \in {"choose", "try", "fetch"} => Worthy \subseteq remaining \cup attempted
       /\ pc \in {"try", "fetch"} => target \in attempted
       /\ pc \in {"try", "fetch"} /\ target = Search => remaining = {}

IInv == /\ TypeOK
        /\ CallsAreCurrent
        /\ OneIsAwaited
        /\ RightTarget
        /\ StagedIsAcceptable
        /\ NoneForgotten

\* A run has tried nothing before it has heard the answer, nothing that was not
\* in the answer but the search, and nothing after the search.
FreshRun ==
    /\ pc = "idle" => video = NoVideo
    /\ pc \in {"idle", "meta"} => remaining = {} /\ answer = {} /\ opts = <<>>
    /\ pc = "choose" => Search \notin attempted

TriesAreAnswers ==
    /\ remaining \subseteq answer
    /\ pc \in {"idle", "meta"} \/ video # NoVideo => attempted = {}
    /\ Search \in attempted /\ pc \in {"try", "fetch"} => target = Search

FormatsOnce == Len(opts) <= 2

\* What is in the pool and in the staging directory for a job whose first run
\* got a video of its own: that video, and before the first run nothing.
Picked(m) == IF tries[m] = 0 THEN {} ELSE {asked[m]}
OnlyPick(m) == tries[m] = 0 \/ (tries[m] = 1 /\ asked[m] # NoVideo)

FollowsPick(c) ==
    c # NoCall /\ c.kind = "fetch" /\ OnlyPick(c.mbid) => c.target \in Picked(c.mbid)

PickIsFollowed ==
    /\ pc # "idle" => tries[mbid] # 0 /\ (tries[mbid] = 1 => video = asked[mbid])
    /\ \A i \in DOMAIN waiting : FollowsPick(waiting[i])
    /\ \A t \in Threads : FollowsPick(thread[t])
    /\ \A m \in Mbids, f \in Formats :
          staged[m][f] # NoFile /\ OnlyPick(m) => staged[m][f].video \in Picked(m)

RunInv == IInv /\ FreshRun /\ TriesAreAnswers /\ FormatsOnce
=============================================================================
