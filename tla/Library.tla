------------------------------ MODULE Library ------------------------------
(***************************************************************************)
(* The music library of music-bot: the files under music_dir and the rows  *)
(* of state.db that record them.  The worker thread places new files       *)
(* (run_download_job, tag_and_import); the handlers on the event loop edit,*)
(* rematch and delete tracks; an exit may cut any of them in half.         *)
(*                                                                         *)
(* Abstracted: a path is a value, and the names an artist, album and title *)
(* can lead to (resolve_dir, sanitize_path_component, the extension) are   *)
(* the set Home; of a file only the job it was downloaded for and whether  *)
(* the copy is complete; tags, cover art, folders; the order of the queue. *)
(* A job is put in the queue in one step and a restart reloads the table   *)
(* in one step (JobLifecycle takes both apart); one rematch awaits at a    *)
(* time.                                                                   *)
(***************************************************************************)
EXTENDS DownloadStore

CONSTANTS
    Home,        \* job -> the paths its names can lead to
    NoJob,
    MaxPuts,     \* bound: how often each job is put in the queue
    MaxMishaps   \* bound: exits, and statements and file operations that raise

ASSUME LibraryAssumption ==
    /\ Home \in [Jobs -> SUBSET Paths]
    /\ NoJob \notin Jobs

VARIABLES
    db,      \* state.db, table downloads
    disk,    \* the library: what is at each path
    copies,  \* how many times a job stands in the work queue
    wpc, wjob, wpath,       \* worker: step, job, path in hand
    hpc, hjob, hfrom, hto,  \* the handler that has the event loop: a move ...
    gone,                   \* ... or a delete, and what it is done with
    rjob, rpath,            \* a rematch that awaits: its job and path
    spoilt,  \* history: jobs cut in half, or moved or deleted in its hands
    astray,  \* history: jobs whose file was moved by its Navidrome song id
    puts, mishaps           \* counters behind the bounds

queue   == <<copies, puts>>
worker  == <<wpc, wjob, wpath>>
handler == <<hpc, hjob, hfrom, hto, gone>>
rematch == <<rjob, rpath>>
history == <<spoilt, astray>>
vars == <<db, disk, queue, worker, handler, rematch, history, mishaps>>

NoFile == [of |-> NoJob, is |-> "absent"]
File == [of : Jobs, is : {"growing", "cut", "whole"}]

Exists(p) == disk[p] # NoFile

WorkerSteps == {"idle", "look", "skip", "begin", "download", "copy",
                "copying", "record", "info"}
HandlerSteps == {"idle", "move", "record", "delete"}

\* Every variable has its type; worker and handler have in hand what their step
\* needs (jobs.py, api.py:353-409, 567-896).
TypeOK ==
    /\ db \in Table
    /\ disk \in [Paths -> File \cup {NoFile}]
    /\ copies \in [Jobs -> Nat]
    /\ wpc \in WorkerSteps
    /\ wjob \in Jobs \cup {NoJob}
    /\ wpath \in Paths \cup {NoPath}
    /\ (wjob = NoJob) <=> (wpc = "idle")
    /\ wpc \in {"look", "skip", "copy", "copying", "record"} => wpath # NoPath
    /\ hpc \in HandlerSteps
    /\ hjob \in Jobs \cup {NoJob}
    /\ hfrom \in Paths \cup {NoPath} /\ hto \in Paths \cup {NoPath}
    /\ hpc = "record" => hjob # NoJob
    /\ gone \subseteq Jobs
    /\ hpc \in {"move", "record"} => hfrom # NoPath /\ hto # NoPath
    /\ hpc = "move" => Exists(hfrom)
    /\ rjob \in Jobs \cup {NoJob}
    /\ rpath \in Paths \cup {NoPath}
    /\ spoilt \subseteq Jobs /\ astray \subseteq Jobs
    /\ puts \in [Jobs -> Nat] /\ mishaps \in Nat

Init ==
    /\ db = [j \in Jobs |-> NoRow]
    /\ disk = [p \in Paths |-> NoFile]
    /\ copies = [j \in Jobs |-> 0]
    /\ wpc = "idle" /\ wjob = NoJob /\ wpath = NoPath
    /\ hpc = "idle" /\ hjob = NoJob /\ hfrom = NoPath /\ hto = NoPath
    /\ gone = {}
    /\ rjob = NoJob /\ rpath = NoPath
    /\ spoilt = {} /\ astray = {}
    /\ puts = [j \in Jobs |-> 0] /\ mishaps = 0

Mishap == mishaps < MaxMishaps /\ mishaps' = mishaps + 1

-----------------------------------------------------------------------------
(* The queue: start_download, run_pipeline. *)

\* A request for a new track, or a pipeline: mark_pending, which leaves an
\* existing row alone, and enqueue_job.  Whatever the row says by now: a plan may
\* be stale.
Enqueue(j) ==
    /\ puts[j] < MaxPuts[j] /\ puts' = [puts EXCEPT ![j] = @ + 1]
    /\ \E s \in Songs : db' = MarkPending(db, j, s)
    /\ copies' = [copies EXCEPT ![j] = @ + 1]
    /\ UNCHANGED <<disk, worker, handler, rematch, history, mishaps>>

-----------------------------------------------------------------------------
(* The worker: run_download_job and tag_and_import. *)

WorkerMoves(from, to) == wpc = from /\ wpc' = to /\ UNCHANGED wjob

\* Mutant: the job stays in hand.
JobStays == wpc' = "idle" /\ wpath' = NoPath /\ UNCHANGED wjob

JobLeaves == wpc' = "idle" /\ wjob' = NoJob /\ wpath' = NoPath

\* The job is taken and its row is read (get_download_by_mbid) ...
TakeJob(j) ==
    /\ wpc = "idle"
    /\ copies[j] > 0 /\ copies' = [copies EXCEPT ![j] = @ - 1]
    /\ wjob' = j
    /\ wpath' = db[j].file
    /\ wpc' = IF db[j].file = NoPath THEN "begin" ELSE "look"
    /\ UNCHANGED <<db, disk, puts, handler, rematch, history, mishaps>>

\* Mutant: the path that is recorded is taken at its word.
TrustRow ==
    /\ WorkerMoves("look", "skip")
    /\ UNCHANGED <<db, disk, queue, wpath, handler, rematch, history, mishaps>>

\* ... and os.path.exists of the path it has recorded.
LookForFile ==
    /\ WorkerMoves("look", IF Exists(wpath) THEN "skip" ELSE "begin")
    /\ UNCHANGED <<db, disk, queue, wpath, handler, rematch, history, mishaps>>

\* The file is there: mark_done with the path that was read.
SkipDownload ==
    /\ wpc = "skip"
    /\ db' = MarkDone(db, wjob, wpath)
    /\ JobLeaves
    /\ UNCHANGED <<disk, queue, handler, rematch, history, mishaps>>

BeginDownload ==
    /\ WorkerMoves("begin", "download")
    /\ db' = MarkDownloading(db, wjob)
    /\ UNCHANGED <<disk, queue, wpath, handler, rematch, history, mishaps>>

\* Nothing was downloaded, or it is not in the staging folder any more.
DownloadFails ==
    /\ wpc = "download"
    /\ db' = MarkFailed(db, wjob)
    /\ JobLeaves
    /\ UNCHANGED <<disk, queue, handler, rematch, history, mishaps>>

\* Mutant: what is at the destination is removed to make room.
PlaceAnew ==
    /\ wpc = "download"
    /\ \E p \in Home[wjob] :
          /\ wpath' = p
          /\ WorkerMoves("download", "copy")
          /\ disk' = [disk EXCEPT ![p] = NoFile]
    /\ UNCHANGED <<db, queue, handler, rematch, history, mishaps>>

\* It was downloaded, and its destination is settled; a file that is there
\* already counts as imported.
Place ==
    /\ wpc = "download"
    /\ \E p \in Home[wjob] :
          /\ wpath' = p
          /\ WorkerMoves("download", IF Exists(p) THEN "record" ELSE "copy")
    /\ UNCHANGED <<db, disk, queue, handler, rematch, history, mishaps>>

\* copy2 opens its destination: what was there is overwritten.
CopyStarts ==
    /\ WorkerMoves("copy", "copying")
    /\ disk' = [disk EXCEPT ![wpath] = [of |-> wjob, is |-> "growing"]]
    /\ UNCHANGED <<db, queue, wpath, handler, rematch, history, mishaps>>

\* The file being written, wherever it has been moved, becomes what it is to be.
Settle(what) ==
    disk' = [p \in Paths |->
               IF disk[p].is = "growing" THEN [disk[p] EXCEPT !.is = what] ELSE disk[p]]

CopyEnds ==
    /\ WorkerMoves("copying", "record")
    /\ Settle("whole")
    /\ UNCHANGED <<db, queue, wpath, handler, rematch, history, mishaps>>

\* copy2 raised (a handler may have removed the new, still empty folder):
\* tag_and_import returns False, and what was written stays.
CopyFails ==
    /\ wpc \in {"copy", "copying"}
    /\ Mishap
    /\ db' \in {MarkFailed(db, wjob), db}
    /\ Settle("cut")
    /\ spoilt' = IF wpc = "copying" THEN spoilt \cup {wjob} ELSE spoilt
    /\ JobLeaves
    /\ UNCHANGED <<queue, handler, rematch, astray>>

RecordDone ==
    /\ WorkerMoves("record", "info")
    /\ db' = MarkDone(db, wjob, wpath)
    /\ UNCHANGED <<disk, queue, wpath, handler, rematch, history, mishaps>>

\* update_track_info with the canonical names; the scan; done.
RecordInfo ==
    /\ wpc = "info"
    /\ \E s \in Songs : db' = UpdateTrackInfo(db, wjob, s)
    /\ JobLeaves
    /\ UNCHANGED <<disk, queue, handler, rematch, history, mishaps>>

\* A statement raised: the except clause marks the row failed, or raises too and
\* leaves the row as it is.
JobRaises ==
    /\ wpc \in {"look", "skip", "begin", "download", "record", "info"}
    /\ Mishap
    /\ db' \in {MarkFailed(db, wjob), db}
    /\ JobLeaves
    /\ UNCHANGED <<disk, queue, handler, rematch, history>>

WorkerStep ==
    \/ \E j \in Jobs : TakeJob(j)
    \/ LookForFile \/ SkipDownload \/ BeginDownload
    \/ DownloadFails \/ Place \/ CopyStarts \/ CopyEnds \/ CopyFails
    \/ RecordDone \/ RecordInfo \/ JobRaises

-----------------------------------------------------------------------------
(* The handlers.  Without await they have the event loop to themselves: one *)
(* at a time, interleaved with the worker.                                  *)

\* The worker is about to record the path it has found or written for j.
InHand(j) == j = wjob /\ wpc \in {"skip", "copying", "record"}

LoopFree == hpc = "idle"

HandlerEnds == hpc' = "idle" /\ hjob' = NoJob /\ hfrom' = NoPath /\ hto' = NoPath

\* expected_path, from the new names; a file that is there already is a 409.
StartMove(j, from) ==
    \E to \in Home[IF j = NoJob THEN disk[from].of ELSE j] :
       /\ to = from \/ ~Exists(to)
       /\ hjob' = j /\ hfrom' = from /\ hto' = to
       /\ hpc' = IF to # from THEN "move" ELSE "record"
       /\ j = NoJob => to # from
       /\ UNCHANGED gone

\* edit_metadata: the row as it is, whatever its status.
EditMetadata(j) ==
    /\ LoopFree
    /\ db[j].file # NoPath /\ Exists(db[j].file)
    /\ StartMove(j, db[j].file)
    /\ UNCHANGED <<db, disk, queue, worker, rematch, history, mishaps>>

\* rematch_apply finds the file, by mbid in the row or by song id in Navidrome,
\* and awaits MusicBrainz.
RematchReads ==
    /\ LoopFree /\ rpath = NoPath
    /\ \/ \E j \in Jobs : /\ db[j].file # NoPath
                           /\ rjob' = j /\ rpath' = db[j].file
       \/ \E p \in Paths : rjob' = NoJob /\ rpath' = p
    /\ Exists(rpath')
    /\ UNCHANGED <<db, disk, queue, worker, handler, history, mishaps>>

\* The tags are written, which fails when the file has gone, and the move begins.
RematchResumes ==
    /\ LoopFree /\ rpath # NoPath
    /\ Exists(rpath)
    /\ StartMove(rjob, rpath)
    /\ rjob' = NoJob /\ rpath' = NoPath
    /\ UNCHANGED <<db, disk, queue, worker, history, mishaps>>

\* A lookup or the tag writer raised, 409, or the names lead to the same path.
RematchDropped ==
    /\ LoopFree /\ rpath # NoPath
    /\ rjob' = NoJob /\ rpath' = NoPath
    /\ UNCHANGED <<db, disk, queue, worker, handler, history, mishaps>>

\* shutil.move: a rename, which replaces what is at its destination by now.
Move ==
    /\ hpc = "move"
    /\ disk' = [disk EXCEPT ![hto] = disk[hfrom], ![hfrom] = NoFile]
    /\ spoilt' = IF InHand(hjob) THEN spoilt \cup {hjob} ELSE spoilt
    /\ IF hjob = NoJob
       THEN astray' = astray \cup {disk[hfrom].of} /\ HandlerEnds
       ELSE hpc' = "record" /\ UNCHANGED <<astray, hjob, hfrom, hto>>
    /\ UNCHANGED <<db, queue, worker, gone, rematch, mishaps>>

MoveFails ==
    /\ hpc = "move"
    /\ Mishap
    /\ HandlerEnds
    /\ UNCHANGED <<db, disk, queue, worker, gone, rematch, history>>

\* update_track_info with the names and the path the file has now.
RecordMove ==
    /\ hpc = "record"
    /\ \E s \in Songs : db' = UpdateMovedTrack(db, hjob, s, hto)
    /\ HandlerEnds
    /\ UNCHANGED <<disk, queue, worker, gone, rematch, history, mishaps>>

\* It raised: a warning in the log, and the row keeps the old path.
RecordMoveFails ==
    /\ hpc = "record"
    /\ Mishap
    /\ spoilt' = IF hfrom # hto THEN spoilt \cup {hjob} ELSE spoilt
    /\ HandlerEnds
    /\ UNCHANGED <<db, disk, queue, worker, gone, rematch, astray>>

\* delete_downloads_bulk: the file of one row after another (a file that cannot
\* be removed leaves its row out) ...
RemoveFile(j) ==
    /\ hpc \in {"idle", "delete"} /\ hpc' = "delete"
    /\ HasRow(db, j) /\ j \notin gone
    /\ gone' = gone \cup {j}
    /\ disk' = [p \in Paths |-> IF p = db[j].file THEN NoFile ELSE disk[p]]
    /\ spoilt' = IF InHand(j) THEN spoilt \cup {j} ELSE spoilt
    /\ UNCHANGED <<db, queue, worker, hjob, hfrom, hto, rematch, astray, mishaps>>

\* ... and then all rows in one statement.
MarkIgnored ==
    /\ hpc = "delete" /\ hpc' = "idle"
    /\ db' = MarkIgnoredBulk(db, gone)
    /\ gone' = {}
    /\ UNCHANGED <<disk, queue, worker, hjob, hfrom, hto, rematch, history, mishaps>>

MarkIgnoredFails ==
    /\ hpc = "delete" /\ hpc' = "idle"
    /\ Mishap
    /\ spoilt' = spoilt \cup gone
    /\ gone' = {}
    /\ UNCHANGED <<db, disk, queue, worker, hjob, hfrom, hto, rematch, astray>>

HandlerStep ==
    \/ \E j \in Jobs : EditMetadata(j) \/ RemoveFile(j)
    \/ RematchReads \/ RematchResumes \/ RematchDropped
    \/ Move \/ MoveFails \/ RecordMove \/ RecordMoveFails
    \/ MarkIgnored \/ MarkIgnoredFails

-----------------------------------------------------------------------------
\* The process ends between any two steps and starts again.  What was being
\* copied stays as it is; _reload_pending_jobs counts a running job as failed.
Exit ==
    /\ Mishap
    /\ db' = [j \in Jobs |-> IF db[j].status = "downloading"
                             THEN MarkFailed(db, j)[j] ELSE db[j]]
    /\ copies' = [j \in Jobs |->
                    IF \/ db[j].status = "pending"
                       \/ db[j].status = "downloading" /\ j \in Retryable(db')
                    THEN 1 ELSE 0]
    /\ Settle("cut")
    /\ spoilt' = spoilt \cup gone
                    \cup {j \in Jobs : wpc = "copying" /\ j = wjob}
                    \cup {j \in Jobs : hpc = "record" /\ hfrom # hto /\ j = hjob}
    /\ JobLeaves /\ HandlerEnds
    /\ gone' = {} /\ rjob' = NoJob /\ rpath' = NoPath
    /\ UNCHANGED <<puts, astray>>

Next ==
    \/ \E j \in Jobs : Enqueue(j)
    \/ WorkerStep
    \/ HandlerStep
    \/ Exit

Spec == Init /\ [][Next]_vars

-----------------------------------------------------------------------------
(* Properties. *)

\* No other track has names that lead to a path of j.
OwnNames(j) == \A i \in Jobs : i # j => Home[i] \cap Home[j] = {}

\* A file of j has been moved and its row not yet updated.
MoveUnrecorded(j) == hpc = "record" /\ hjob = j /\ hfrom # hto

Holds(j, p) == p # NoPath /\ disk[p] = [of |-> j, is |-> "whole"]

\* A track is done when its row names a complete file of its own, whatever was
\* imported, edited, rematched or deleted meanwhile and wherever the process was
\* stopped.  Left out: a file moved or deleted while the worker has it in hand, a
\* cut copy, a move or delete that was not recorded, a rematch by song id.
OwnFile ==
    \A j \in Jobs \ (spoilt \cup astray) :
        OwnNames(j) /\ db[j].status = "done" /\ j \notin gone /\ ~MoveUnrecorded(j)
            => Holds(j, db[j].file)

HasMusic(j) == \E p \in Paths : Holds(j, p)

\* Music leaves the library only by a delete of its track, or when the worker
\* writes a new copy of the same track over it: no move, import, fault or exit
\* loses the last complete file of a track.  One exception: a move that saw its
\* destination free may rename a cut copy over the one the worker put there since.
MusicIsKept ==
    [][\A j \in Jobs : OwnNames(j) /\ HasMusic(j) /\ ~HasMusic(j)' =>
          \/ j \in gone' \ gone
          \/ j = wjob /\ wpc = "copy" /\ wpc' = "copying"
          \/ hpc = "move" /\ disk[hfrom].is = "cut"]_vars

\* docs/architecture.md:297: a file that file_path names and that exists has been
\* copied to the end, so that the download can be skipped.
RecordedIsCopied ==
    \A j \in Jobs : db[j].file # NoPath => disk[db[j].file].is # "cut"

\* docs/api-spec.md:502: a rematch that moves the file, by mbid or by song id,
\* updates file_path; so a done row that nothing else disturbed names its file.
RowFollowsFile ==
    \A j \in Jobs \ spoilt :
        db[j].status = "done" /\ j \notin gone /\ ~MoveUnrecorded(j)
            => Exists(db[j].file)
=============================================================================
