------------------------ MODULE DownloadStoreProofs ------------------------
(***************************************************************************)
(* What the statements of state.py do to the table: each keeps it          *)
(* well-typed, touches at most the rows it names, and neither creates nor  *)
(* drops a row unless it is an INSERT.                                     *)
(***************************************************************************)
EXTENDS DownloadStore, TLAPS

\* An UPDATE changes the named row only, and only if it exists.
LEMMA UpdateEffect ==
    ASSUME NEW t \in Table, NEW j \in Jobs, NEW row \in Row
    PROVE  /\ Update(t, j, row) \in Table
           /\ \A i \in Jobs : Update(t, j, row)[i] =
                                IF i = j /\ HasRow(t, j) THEN row ELSE t[i]
  BY DEF Update, Table, HasRow

\* A row of the table has the columns of a row.
LEMMA RowFields ==
    ASSUME NEW t \in Table, NEW j \in Jobs
    PROVE  /\ t[j] \in Row
           /\ t[j].status \in Statuses \cup {"none"}
           /\ t[j].attempts \in Nat
           /\ t[j].file \in Paths \cup {NoPath}
  BY DEF Table, Row

\* mark_downloading
LEMMA MarkDownloadingEffect ==
    ASSUME NEW t \in Table, NEW j \in Jobs
    PROVE  /\ MarkDownloading(t, j) \in Table
           /\ \A i \in Jobs : MarkDownloading(t, j)[i].status =
                IF i = j /\ HasRow(t, j) THEN "downloading" ELSE t[i].status
           /\ \A i \in Jobs : MarkDownloading(t, j)[i].attempts = t[i].attempts
  <1> DEFINE row == [t[j] EXCEPT !.status = "downloading"]
  <1>1. row \in Row /\ row.status = "downloading" /\ row.attempts = t[j].attempts
    BY DEF Table, Row, Statuses
  <1>2. MarkDownloading(t, j) = Update(t, j, row)
    BY DEF MarkDownloading
  <1> HIDE DEF row
  <1>3. QED
    BY <1>1, <1>2, UpdateEffect

\* mark_done
LEMMA MarkDoneEffect ==
    ASSUME NEW t \in Table, NEW j \in Jobs, NEW p \in Paths
    PROVE  /\ MarkDone(t, j, p) \in Table
           /\ \A i \in Jobs : MarkDone(t, j, p)[i].status =
                IF i = j /\ HasRow(t, j) THEN "done" ELSE t[i].status
           /\ \A i \in Jobs : MarkDone(t, j, p)[i].attempts = t[i].attempts
  <1> DEFINE row == [t[j] EXCEPT !.status = "done", !.file = p]
  <1>1. row \in Row /\ row.status = "done" /\ row.attempts = t[j].attempts
    BY DEF Table, Row, Statuses
  <1>2. MarkDone(t, j, p) = Update(t, j, row)
    BY DEF MarkDone
  <1> HIDE DEF row
  <1>3. QED
    BY <1>1, <1>2, UpdateEffect

\* mark_failed
LEMMA MarkFailedEffect ==
    ASSUME NEW t \in Table, NEW j \in Jobs
    PROVE  /\ MarkFailed(t, j) \in Table
           /\ \A i \in Jobs : MarkFailed(t, j)[i].status =
                IF i = j /\ HasRow(t, j) THEN "failed" ELSE t[i].status
           /\ \A i \in Jobs : MarkFailed(t, j)[i].attempts =
                IF i = j /\ HasRow(t, j) THEN t[i].attempts + 1 ELSE t[i].attempts
  <1> DEFINE row == [t[j] EXCEPT !.status = "failed", !.attempts = @ + 1]
  <1>0. t[j] \in Row /\ t[j].attempts + 1 \in Nat
    BY RowFields
  <1>1. row \in Row /\ row.status = "failed" /\ row.attempts = t[j].attempts + 1
    BY <1>0 DEF Row, Statuses
  <1>2. MarkFailed(t, j) = Update(t, j, row)
    BY DEF MarkFailed
  <1> HIDE DEF row
  <1>3. QED
    BY <1>1, <1>2, UpdateEffect

\* update_track_info
LEMMA UpdateTrackInfoEffect ==
    ASSUME NEW t \in Table, NEW j \in Jobs, NEW s \in Songs
    PROVE  /\ UpdateTrackInfo(t, j, s) \in Table
           /\ \A i \in Jobs : UpdateTrackInfo(t, j, s)[i].status = t[i].status
           /\ \A i \in Jobs : UpdateTrackInfo(t, j, s)[i].attempts = t[i].attempts
  <1> DEFINE row == [t[j] EXCEPT !.song = s]
  <1>1. row \in Row /\ row.status = t[j].status /\ row.attempts = t[j].attempts
    BY DEF Table, Row, Statuses
  <1>2. UpdateTrackInfo(t, j, s) = Update(t, j, row)
    BY DEF UpdateTrackInfo
  <1> HIDE DEF row
  <1>3. QED
    BY <1>1, <1>2, UpdateEffect

\* mark_pending: only a missing row is created.
LEMMA MarkPendingEffect ==
    ASSUME NEW t \in Table, NEW j \in Jobs, NEW s \in Songs
    PROVE  /\ MarkPending(t, j, s) \in Table
           /\ \A i \in Jobs : MarkPending(t, j, s)[i].status =
                IF i = j /\ ~HasRow(t, j) THEN "pending" ELSE t[i].status
           /\ \A i \in Jobs : HasRow(t, i) => MarkPending(t, j, s)[i] = t[i]
  <1> DEFINE row == [NoRow EXCEPT !.status = "pending", !.song = s]
  <1>1. row \in Row /\ row.status = "pending"
    BY DEF Row, Statuses, NoRow
  <1>2. MarkPending(t, j, s) = IF HasRow(t, j) THEN t ELSE [t EXCEPT ![j] = row]
    BY DEF MarkPending
  <1> HIDE DEF row
  <1>3. QED
    BY <1>1, <1>2 DEF Table, HasRow

\* mark_ignored_bulk
LEMMA MarkIgnoredEffect ==
    ASSUME NEW t \in Table, NEW S \in SUBSET Jobs
    PROVE  /\ MarkIgnoredBulk(t, S) \in Table
           /\ \A i \in Jobs : MarkIgnoredBulk(t, S)[i].status =
                IF i \in S /\ HasRow(t, i) THEN "ignored" ELSE t[i].status
           /\ \A i \in Jobs : MarkIgnoredBulk(t, S)[i].attempts = t[i].attempts
  <1>1. \A i \in Jobs : [t[i] EXCEPT !.status = "ignored"] \in Row
    BY DEF Table, Row, Statuses
  <1>2. \A i \in Jobs : /\ [t[i] EXCEPT !.status = "ignored"].status = "ignored"
                        /\ [t[i] EXCEPT !.status = "ignored"].attempts = t[i].attempts
    BY DEF Table, Row
  <1> QED
    BY <1>1, <1>2 DEF MarkIgnoredBulk, Table, HasRow

-----------------------------------------------------------------------------
(* Where the files are. *)

\* mark_downloading and mark_failed leave file_path alone.
LEMMA FilesStay ==
    ASSUME NEW t \in Table, NEW j \in Jobs, NEW i \in Jobs
    PROVE  /\ MarkDownloading(t, j)[i].file = t[i].file
           /\ MarkFailed(t, j)[i].file = t[i].file
  <1>1. ASSUME NEW r \in Row, r.file = t[j].file
        PROVE  Update(t, j, r)[i].file = t[i].file
    BY <1>1, UpdateEffect
  <1>2. t[j] \in Row /\ t[j].attempts + 1 \in Nat
    BY RowFields
  <1>3. /\ [t[j] EXCEPT !.status = "downloading"] \in Row
        /\ [t[j] EXCEPT !.status = "downloading"].file = t[j].file
    BY <1>2 DEF Row, Statuses
  <1>4. /\ [t[j] EXCEPT !.status = "failed", !.attempts = @ + 1] \in Row
        /\ [t[j] EXCEPT !.status = "failed", !.attempts = @ + 1].file = t[j].file
    BY <1>2 DEF Row, Statuses
  <1>5. QED
    BY <1>1, <1>3, <1>4 DEF MarkDownloading, MarkFailed

\* So does update_track_info after a download; a row that is created has no file.
LEMMA NamedFilesStay ==
    ASSUME NEW t \in Table, NEW j \in Jobs, NEW s \in Songs, NEW i \in Jobs
    PROVE  /\ UpdateTrackInfo(t, j, s)[i].file = t[i].file
           /\ MarkPending(t, j, s)[i].file \in {t[i].file, NoPath}
  <1>1. /\ [t[j] EXCEPT !.song = s] \in Row
        /\ [t[j] EXCEPT !.song = s].file = t[j].file
    <2> DEFINE row == [t[j] EXCEPT !.song = s]
    <2>1. row \in Row
      BY DEF Table, Row
    <2>2. row.file = t[j].file
      BY DEF Table, Row
    <2>3. QED
      BY <2>1, <2>2
  <1>2. UpdateTrackInfo(t, j, s)[i].file = t[i].file
    BY <1>1, UpdateEffect DEF UpdateTrackInfo
  <1>3. MarkPending(t, j, s)[i].file \in {t[i].file, NoPath}
    BY DEF MarkPending, NoRow, Table
  <1>4. QED
    BY <1>2, <1>3

\* mark_done
LEMMA MarkDoneFile ==
    ASSUME NEW t \in Table, NEW j \in Jobs, NEW p \in Paths, NEW i \in Jobs
    PROVE  MarkDone(t, j, p)[i].file =
             IF i = j /\ HasRow(t, j) THEN p ELSE t[i].file
  <1> DEFINE row == [t[j] EXCEPT !.status = "done", !.file = p]
  <1>1. row \in Row /\ row.file = p
    BY RowFields DEF Row, Statuses
  <1>2. MarkDone(t, j, p) = Update(t, j, row)
    BY DEF MarkDone
  <1> HIDE DEF row
  <1>3. QED
    BY <1>1, <1>2, UpdateEffect

\* mark_ignored_bulk
LEMMA MarkIgnoredFile ==
    ASSUME NEW t \in Table, NEW S \in SUBSET Jobs, NEW i \in Jobs
    PROVE  MarkIgnoredBulk(t, S)[i].file = t[i].file
  BY RowFields DEF MarkIgnoredBulk, Row

\* update_track_info after a move
LEMMA UpdateMovedEffect ==
    ASSUME NEW t \in Table, NEW j \in Jobs, NEW s \in Songs, NEW p \in Paths
    PROVE  /\ UpdateMovedTrack(t, j, s, p) \in Table
           /\ \A i \in Jobs : UpdateMovedTrack(t, j, s, p)[i].status = t[i].status
           /\ \A i \in Jobs : UpdateMovedTrack(t, j, s, p)[i].file =
                                IF i = j /\ HasRow(t, j) THEN p ELSE t[i].file
  <1> DEFINE row == [t[j] EXCEPT !.song = s, !.file = p]
  <1>1. row \in Row /\ row.status = t[j].status /\ row.file = p
    BY RowFields DEF Row, Statuses
  <1>2. UpdateMovedTrack(t, j, s, p) = Update(t, j, row)
    BY DEF UpdateMovedTrack
  <1> HIDE DEF row
  <1>3. QED
    BY <1>1, <1>2, UpdateEffect
=============================================================================
