--------------------------- MODULE DownloadStore ---------------------------
(***************************************************************************)
(* The `downloads` table of state.db (src/state.py), as a pure data type.  *)
(* A table maps every possible mbid to its row; an mbid without a row maps *)
(* to NoRow.  Each operator is one committed SQL statement: it takes the   *)
(* table and returns the table after it.  (artist, track_name) is one      *)
(* member of Songs; columns nothing branches on (album, error_msg,         *)
(* downloaded_at, source, mb_recording_id) are left out.                   *)
(***************************************************************************)
EXTENDS Naturals

CONSTANTS
    Jobs,         \* mbids: MusicBrainz UUIDs and "manual-xxxxxxxx" ids
    Songs,        \* (artist, track_name) pairs
    Paths,        \* destination files in the music library
    NoSong, NoPath,
    MaxAttempts   \* 3 in the code: get_retryable, _reload_pending_jobs

ASSUME StoreAssumption ==
    /\ MaxAttempts \in Nat \ {0}
    /\ NoSong \notin Songs
    /\ NoPath \notin Paths

Statuses == {"pending", "downloading", "done", "failed", "ignored"}

Row == [status   : Statuses \cup {"none"},
        attempts : Nat,
        song     : Songs \cup {NoSong},
        file     : Paths \cup {NoPath}]

NoRow == [status |-> "none", attempts |-> 0, song |-> NoSong, file |-> NoPath]

Table == [Jobs -> Row]

HasRow(t, j) == t[j].status # "none"

\* UPDATE ... WHERE mbid = j: no effect when there is no such row.
Update(t, j, row) == IF HasRow(t, j) THEN [t EXCEPT ![j] = row] ELSE t

-----------------------------------------------------------------------------
(* Statements that change the table. *)

\* INSERT OR IGNORE: an existing row, whatever its status, is left alone.
MarkPending(t, j, s) ==
    IF HasRow(t, j)
    THEN t
    ELSE [t EXCEPT ![j] = [NoRow EXCEPT !.status = "pending", !.song = s]]

MarkDownloading(t, j) == Update(t, j, [t[j] EXCEPT !.status = "downloading"])

MarkDone(t, j, p) == Update(t, j, [t[j] EXCEPT !.status = "done", !.file = p])

MarkFailed(t, j) ==
    Update(t, j, [t[j] EXCEPT !.status = "failed", !.attempts = @ + 1])

MarkIgnoredBulk(t, S) ==
    [j \in Jobs |-> IF j \in S /\ HasRow(t, j)
                    THEN [t[j] EXCEPT !.status = "ignored"]
                    ELSE t[j]]

\* update_track_info after a download: the canonical artist and title.
UpdateTrackInfo(t, j, s) == Update(t, j, [t[j] EXCEPT !.song = s])

\* update_track_info after an edit or a rematch: new names, and where the file is.
UpdateMovedTrack(t, j, s, p) == Update(t, j, [t[j] EXCEPT !.song = s, !.file = p])

-----------------------------------------------------------------------------
(* Queries. *)

\* Mutant: deleted tracks are forgotten.
IsDownloadedUnlessIgnored(t, j) ==
    t[j].status \in {"done", "pending", "downloading"}

IsDownloaded(t, j) ==
    t[j].status \in {"done", "ignored", "pending", "downloading"}

\* Mutant: off by one.
RetryableTooFew(t) ==
    {j \in Jobs : t[j].status = "failed" /\ t[j].attempts + 1 < MaxAttempts}

\* Mutant: deleted rows count as failed ones.
RetryableOrIgnored(t) ==
    {j \in Jobs : /\ t[j].status \in {"failed", "ignored"}
                  /\ t[j].attempts < MaxAttempts}

Retryable(t) ==
    {j \in Jobs : t[j].status = "failed" /\ t[j].attempts < MaxAttempts}

PendingJobs(t) == {j \in Jobs : t[j].status \in {"pending", "downloading"}}

HasActiveDuplicate(t, s) ==
    \E j \in Jobs : /\ t[j].song = s
                    /\ t[j].status \in {"done", "downloading", "pending"}

\* One statement: INSERT ... WHERE NOT EXISTS (an active row of the song).
MarkPendingIfNotDuplicate(t, j, s) ==
    IF HasActiveDuplicate(t, s) THEN t ELSE MarkPending(t, j, s)
=============================================================================
