--------------------------- MODULE LibraryProofs ---------------------------
(***************************************************************************)
(* Theorems of Library, for every set of tracks, names and paths and every *)
(* value of the bounds.                                                    *)
(***************************************************************************)
EXTENDS Library, DownloadStoreProofs

-----------------------------------------------------------------------------
(* Types. *)

\* Whatever is being written becomes cut or whole.
LEMMA SettleType ==
    ASSUME disk \in [Paths -> File \cup {NoFile}], NEW what \in {"cut", "whole"},
           Settle(what)
    PROVE  /\ disk' \in [Paths -> File \cup {NoFile}]
           /\ \A p \in Paths : /\ disk'[p].of = disk[p].of
                               /\ disk'[p].is =
                                    IF disk[p].is = "growing" THEN what ELSE disk[p].is
                               /\ Exists(p)' <=> Exists(p)
  <1>1. ASSUME NEW p \in Paths
        PROVE  /\ disk'[p] \in File \cup {NoFile}
               /\ disk'[p].of = disk[p].of
               /\ disk'[p].is = IF disk[p].is = "growing" THEN what ELSE disk[p].is
               /\ (disk'[p] = NoFile) <=> (disk[p] = NoFile)
    <2>1. CASE disk[p] = NoFile
      BY <2>1 DEF Settle, NoFile
    <2>2. CASE disk[p] \in File
      <3>1. /\ [disk[p] EXCEPT !.is = what] \in File
            /\ [disk[p] EXCEPT !.is = what].of = disk[p].of
            /\ [disk[p] EXCEPT !.is = what].is = what
        BY <2>2 DEF File
      <3>2. disk[p] # NoFile /\ [disk[p] EXCEPT !.is = what] # NoFile
        BY <2>2, <3>1 DEF File, NoFile
      <3>3. QED
        BY <2>2, <3>1, <3>2 DEF Settle
    <2>3. QED
      BY <2>1, <2>2
  <1>2. disk' = [p \in Paths |-> disk'[p]]
    BY DEF Settle
  <1>3. QED
    BY <1>1, <1>2 DEF Exists

\* The worker's steps.
LEMMA WorkerType == ASSUME TypeOK, WorkerStep PROVE TypeOK'
  <1> USE LibraryAssumption, StoreAssumption
      DEF TypeOK, queue, handler, rematch, history, WorkerMoves, WorkerSteps, JobLeaves,
          Mishap
  <1>1. ASSUME NEW j \in Jobs, TakeJob(j) PROVE TypeOK'
    <2>1. db[j].file \in Paths \cup {NoPath}
      BY RowFields
    <2>2. QED
      BY <1>1, <2>1 DEF TakeJob, Exists
  <1>2. CASE LookForFile
    BY <1>2 DEF LookForFile, Exists
  <1>3. CASE SkipDownload
    <2>1. db' \in Table
      BY <1>3, MarkDoneEffect DEF SkipDownload
    <2>2. QED
      BY <1>3, <2>1 DEF SkipDownload, Exists
  <1>4. CASE BeginDownload
    <2>1. db' \in Table
      BY <1>4, MarkDownloadingEffect DEF BeginDownload
    <2>2. QED
      BY <1>4, <2>1 DEF BeginDownload, Exists
  <1>5. CASE DownloadFails
    <2>1. db' \in Table
      BY <1>5, MarkFailedEffect DEF DownloadFails
    <2>2. QED
      BY <1>5, <2>1 DEF DownloadFails, Exists
  <1>6. CASE Place
    <2>1. PICK p \in Home[wjob] : /\ wpath' = p /\ wjob' = wjob
                                  /\ wpc' \in {"record", "copy"}
      BY <1>6 DEF Place
    <2>2. p \in Paths /\ wjob \in Jobs
      BY <1>6 DEF Place
    <2>3. QED
      BY <1>6, <2>1, <2>2 DEF Place, Exists
  <1>7. CASE CopyStarts
    <2>1. [of |-> wjob, is |-> "growing"] \in File
      BY <1>7 DEF CopyStarts, File
    <2>2. disk' \in [Paths -> File \cup {NoFile}]
      BY <1>7, <2>1 DEF CopyStarts
    <2>3. ASSUME hpc = "move" PROVE Exists(hfrom)'
      BY <1>7, <2>1, <2>3 DEF CopyStarts, Exists, NoFile, File
    <2>4. QED
      BY <1>7, <2>2, <2>3 DEF CopyStarts
  <1>8. CASE CopyEnds
    BY <1>8, SettleType DEF CopyEnds
  <1>9. CASE CopyFails
    <2>1. db' \in Table /\ wjob \in Jobs
      BY <1>9, MarkFailedEffect DEF CopyFails
    <2>2. QED
      BY <1>9, <2>1, SettleType DEF CopyFails
  <1>10. CASE RecordDone
    <2>1. db' \in Table
      BY <1>10, MarkDoneEffect DEF RecordDone
    <2>2. QED
      BY <1>10, <2>1 DEF RecordDone, Exists
  <1>11. CASE RecordInfo
    <2>1. db' \in Table
      BY <1>11, UpdateTrackInfoEffect DEF RecordInfo
    <2>2. QED
      BY <1>11, <2>1 DEF RecordInfo, Exists
  <1>12. CASE JobRaises
    <2>1. db' \in Table
      BY <1>12, MarkFailedEffect DEF JobRaises
    <2>2. QED
      BY <1>12, <2>1 DEF JobRaises, Exists
  <1>13. QED
    BY <1>1, <1>2, <1>3, <1>4, <1>5, <1>6, <1>7, <1>8, <1>9, <1>10, <1>11, <1>12
       DEF WorkerStep

\* A move is prepared for a file that is there.
LEMMA StartMoveType ==
    ASSUME TypeOK, NEW j \in Jobs \cup {NoJob}, NEW from \in Paths, Exists(from),
           StartMove(j, from)
    PROVE  /\ hpc' \in {"move", "record"} /\ (hpc' = "record" => j # NoJob)
           /\ hjob' = j /\ hfrom' = from /\ hto' \in Paths
           /\ hpc' = "move" => hto' # from /\ ~Exists(hto')
           /\ hpc' = "record" => hto' = from
           /\ hto' \in Home[IF j = NoJob THEN disk[from].of ELSE j]
           /\ gone' = gone
  <1>1. disk[from].of \in Jobs
    BY DEF TypeOK, Exists, File
  <1>2. PICK to \in Home[IF j = NoJob THEN disk[from].of ELSE j] :
           /\ to = from \/ ~Exists(to)
           /\ hjob' = j /\ hfrom' = from /\ hto' = to
           /\ hpc' = IF to # from THEN "move" ELSE "record"
           /\ j = NoJob => to # from
           /\ UNCHANGED gone
    BY DEF StartMove
  <1>3. to \in Paths
    BY <1>1, LibraryAssumption
  <1>4. QED
    BY <1>2, <1>3

\* The handlers' steps.
LEMMA HandlerType == ASSUME TypeOK, HandlerStep PROVE TypeOK'
  <1> USE LibraryAssumption, StoreAssumption
      DEF TypeOK, queue, worker, handler, rematch, history, HandlerSteps, HandlerEnds,
          LoopFree, Mishap
  <1>1. ASSUME NEW j \in Jobs, EditMetadata(j) PROVE TypeOK'
    <2>1. db[j].file \in Paths
      BY <1>1, RowFields DEF EditMetadata
    <2>2. QED
      BY <1>1, <2>1, StartMoveType DEF EditMetadata, Exists
  <1>2. ASSUME NEW j \in Jobs, RemoveFile(j) PROVE TypeOK'
    <2>1. disk' \in [Paths -> File \cup {NoFile}]
      BY <1>2 DEF RemoveFile
    <2>2. QED
      BY <1>2, <2>1 DEF RemoveFile
  <1>3. CASE RematchReads
    <2>1. \A j \in Jobs : db[j].file \in Paths \cup {NoPath}
      BY RowFields
    <2>2. rjob' \in Jobs \cup {NoJob} /\ rpath' \in Paths
      BY <1>3, <2>1 DEF RematchReads
    <2>3. QED
      BY <1>3, <2>2 DEF RematchReads
  <1>4. CASE RematchResumes
    <2>1. rpath \in Paths
      BY <1>4 DEF RematchResumes
    <2>2. QED
      BY <1>4, <2>1, StartMoveType DEF RematchResumes, Exists
  <1>5. CASE RematchDropped
    BY <1>5 DEF RematchDropped
  <1>6. CASE Move
    <2>1. hfrom \in Paths /\ hto \in Paths
      BY <1>6 DEF Move
    <2>2. disk' \in [Paths -> File \cup {NoFile}]
      BY <1>6, <2>1 DEF Move
    <2>3. disk[hfrom].of \in Jobs
      BY <1>6, <2>1 DEF Move, Exists, File
    <2>4. spoilt' \subseteq Jobs /\ astray' \subseteq Jobs
      BY <1>6, <2>3 DEF Move, InHand
    <2>5. QED
      BY <1>6, <2>1, <2>2, <2>4 DEF Move
  <1>7. CASE MoveFails
    BY <1>7 DEF MoveFails
  <1>8. CASE RecordMove
    <2>1. db' \in Table
      BY <1>8, UpdateMovedEffect DEF RecordMove
    <2>2. QED
      BY <1>8, <2>1 DEF RecordMove
  <1>9. CASE RecordMoveFails
    BY <1>9 DEF RecordMoveFails
  <1>10. CASE MarkIgnored
    <2>1. db' \in Table
      BY <1>10, MarkIgnoredEffect DEF MarkIgnored
    <2>2. QED
      BY <1>10, <2>1 DEF MarkIgnored
  <1>11. CASE MarkIgnoredFails
    BY <1>11 DEF MarkIgnoredFails
  <1>12. QED
    BY <1>1, <1>2, <1>3, <1>4, <1>5, <1>6, <1>7, <1>8, <1>9, <1>10, <1>11
       DEF HandlerStep

\* A request or a pipeline, and the end of the process.
LEMMA OutsideType ==
    ASSUME TypeOK, (\E j \in Jobs : Enqueue(j)) \/ Exit
    PROVE  TypeOK'
  <1> USE LibraryAssumption, StoreAssumption
      DEF TypeOK, worker, handler, rematch, history, JobLeaves, HandlerEnds, Mishap,
          WorkerSteps, HandlerSteps
  <1>1. ASSUME NEW j \in Jobs, Enqueue(j) PROVE TypeOK'
    <2>1. db' \in Table
      BY <1>1, MarkPendingEffect DEF Enqueue
    <2>2. QED
      BY <1>1, <2>1 DEF Enqueue, Exists
  <1>2. CASE Exit
    <2>1. \A j \in Jobs : db[j] \in Row /\ MarkFailed(db, j)[j] \in Row
      BY RowFields, MarkFailedEffect DEF Table
    <2>2. db' \in Table
      BY <1>2, <2>1 DEF Exit, Table
    <2>3. copies' \in [Jobs -> Nat]
      BY <1>2 DEF Exit
    <2>4. disk' \in [Paths -> File \cup {NoFile}]
      BY <1>2, SettleType DEF Exit
    <2>5. spoilt' \subseteq Jobs
      BY <1>2 DEF Exit
    <2>6. QED
      BY <1>2, <2>2, <2>3, <2>4, <2>5 DEF Exit
  <1>3. QED
    BY <1>1, <1>2

\* Every step preserves TypeOK.
LEMMA TypeStep == ASSUME TypeOK, [Next]_vars PROVE TypeOK'
  <1>1. CASE UNCHANGED vars
    BY <1>1 DEF TypeOK, vars, queue, worker, handler, rematch, history, Exists
  <1>2. CASE Next
    BY <1>2, WorkerType, HandlerType, OutsideType DEF Next
  <1>3. QED
    BY <1>1, <1>2

\* TypeOK holds in every reachable state (jobs.py, api.py:353-409, 567-896).
THEOREM TypeCorrect == Spec => []TypeOK
  <1>1. Init => TypeOK
    <2> SUFFICES ASSUME Init PROVE TypeOK
      OBVIOUS
    <2>1. db \in Table
      BY StoreAssumption DEF Init, Table, Row, NoRow
    <2>2. QED
      BY <2>1 DEF Init, TypeOK, WorkerSteps, HandlerSteps
  <1>2. TypeOK /\ [Next]_vars => TypeOK'
    BY TypeStep
  <1>3. QED
    BY <1>1, <1>2, PTL DEF Spec
-----------------------------------------------------------------------------
(* A done row names its own file.  What the threads have in hand must be    *)
(* known for that: where files, rows, worker and handlers may point, which  *)
(* file is being written, and what stands between a check and its use.      *)

\* A path that only the names of j lead to has a file of j, and files of j lie
\* nowhere else.
DiskPlaced ==
    \A j \in Jobs, p \in Paths :
        OwnNames(j) /\ Exists(p) => (disk[p].of = j <=> p \in Home[j])

\* The names of a track lead to the paths that rows, worker and handlers know of it.
RowsPlaced == \A j \in Jobs : db[j].file # NoPath => db[j].file \in Home[j]

WorkerPlaced ==
    wpc \in {"look", "skip", "copy", "copying", "record"} => wpath \in Home[wjob]

HandlerPlaced ==
    /\ hpc \in {"move", "record"} /\ hjob # NoJob => hfrom \in Home[hjob] /\ hto \in Home[hjob]
    /\ hpc = "move" => \A j \in Jobs : OwnNames(j) => (hfrom \in Home[j] <=> hto \in Home[j])
    /\ rpath # NoPath /\ rjob # NoJob => rpath \in Home[rjob]

\* Only the worker writes, one file at a time; a cut copy is accounted for.
CopyInProgress ==
    \A p \in Paths : /\ disk[p].is = "growing" => wpc = "copying" /\ disk[p].of = wjob
                     /\ disk[p].is = "cut" => disk[p].of \in spoilt

\* The destination of a move is still free if its source is being written.
MoveInProgress ==
    /\ hpc = "move" => hfrom # hto
    /\ hpc = "move" /\ (disk[hfrom].is = "growing" \/ (wpc = "copy" /\ wpath = hfrom))
         => ~Exists(hto)
    /\ hpc = "record" => Exists(hto)

\* The job in hand is not done before it is recorded, and what is recorded is there.
JobInProgress ==
    /\ wpc \in {"download", "copy", "copying", "record"} => db[wjob].status # "done"
    /\ wjob \in Jobs \ (spoilt \cup astray) /\ OwnNames(wjob) =>
         /\ wpc \in {"skip", "record"} => Holds(wjob, wpath)
         /\ wpc = "copying" => disk[wpath] = [of |-> wjob, is |-> "growing"]

Parts == /\ DiskPlaced /\ RowsPlaced /\ WorkerPlaced /\ HandlerPlaced
         /\ CopyInProgress /\ MoveInProgress /\ JobInProgress /\ OwnFile

IInv == TypeOK /\ Parts

\* A file at a path that is only j's is a file of j.
LEMMA OwnPath ==
    ASSUME TypeOK, DiskPlaced, NEW j \in Jobs, OwnNames(j), NEW p \in Home[j], Exists(p)
    PROVE  disk[p].of = j /\ p \in Paths /\ disk[p].is \in {"growing", "cut", "whole"}
  <1>1. p \in Paths
    BY LibraryAssumption
  <1>2. disk[p] \in File
    BY <1>1 DEF TypeOK, Exists
  <1>3. QED
    BY <1>1, <1>2 DEF DiskPlaced, File

\* It is whole unless the worker is writing it or a copy was cut.
LEMMA OwnPathHolds ==
    ASSUME TypeOK, DiskPlaced, CopyInProgress,
           NEW j \in Jobs \ spoilt, OwnNames(j), NEW p \in Home[j], Exists(p),
           wpc # "copying" \/ wjob # j
    PROVE  Holds(j, p)
  <1>1. disk[p].of = j /\ p \in Paths /\ disk[p].is = "whole"
    BY OwnPath DEF CopyInProgress
  <1>2. disk[p] = [of |-> j, is |-> "whole"]
    BY <1>1 DEF TypeOK, Exists, File
  <1>3. QED
    BY <1>1, <1>2, StoreAssumption DEF Holds

\* A step of the worker that writes no file.
LEMMA QuietWorker ==
    ASSUME IInv, TypeOK', RowsPlaced', WorkerPlaced',
           UNCHANGED <<disk, handler, rematch, history>>,
           wpc # "copying", wpc' # "copying",
           wpc' = "copy" => ~Exists(wpath)',
           wpc' \in {"skip", "record"} => Exists(wpath)',
           wpc' \in {"download", "copy", "record"} => db'[wjob'].status # "done",
           \A i \in Jobs : db'[i].status = "done" =>
                \/ db[i].status = "done" /\ db'[i].file = db[i].file
                \/ i = wjob /\ wpc \in {"skip", "record"} /\ db'[i].file = wpath
    PROVE  Parts'
  <1> USE DEF handler, rematch, history
  <1>1. \A p \in Paths \cup {NoPath} : Exists(p)' <=> Exists(p)
    BY DEF Exists
  <1>2. DiskPlaced' /\ HandlerPlaced'
    BY <1>1 DEF IInv, Parts, DiskPlaced, HandlerPlaced
  <1>3. CopyInProgress'
    BY DEF IInv, Parts, CopyInProgress
  <1>4. MoveInProgress'
    BY <1>1 DEF IInv, TypeOK, Parts, MoveInProgress, CopyInProgress
  <1>5. JobInProgress'
    <2>1. ASSUME wpc' \in {"skip", "record"}, wjob' \in Jobs \ (spoilt \cup astray),
                 OwnNames(wjob')
          PROVE  Holds(wjob, wpath)'
      <3>1. wjob' \in Jobs \ spoilt /\ wpath' \in Home[wjob'] /\ Exists(wpath')
        BY <2>1, <1>1 DEF TypeOK, WorkerPlaced, Exists
      <3>2. Holds(wjob', wpath')
        BY <2>1, <3>1, OwnPathHolds DEF IInv, Parts
      <3>3. QED
        BY <3>2 DEF Holds
    <2>2. QED
      BY <2>1 DEF JobInProgress, OwnNames
  <1>6. OwnFile'
    <2> SUFFICES ASSUME NEW i \in Jobs \ (spoilt \cup astray), OwnNames(i),
                        db'[i].status = "done", i \notin gone, ~MoveUnrecorded(i)
                 PROVE  Holds(i, db'[i].file)
      BY DEF OwnFile, OwnNames, Holds, MoveUnrecorded
    <2>1. QED
      BY DEF IInv, Parts, OwnFile, JobInProgress, Holds
  <1>7. QED
    BY <1>2, <1>3, <1>4, <1>5, <1>6 DEF Parts

\* A job that failed, or raised: no row becomes done, no file_path changes.
LEMMA FailedRows ==
    ASSUME NEW t \in Table, NEW j \in Jobs, NEW u \in {MarkFailed(t, j), t}, NEW i \in Jobs
    PROVE  /\ u[i].file = t[i].file
           /\ u[i].status = "done" => t[i].status = "done"
  BY MarkFailedEffect, FilesStay

\* The worker's steps that write no file.
LEMMA WorkerQuiet ==
    ASSUME IInv, TypeOK',
           \/ (\E j \in Jobs : TakeJob(j)) \/ LookForFile \/ SkipDownload
           \/ BeginDownload \/ DownloadFails \/ Place
           \/ (wpc = "copy" /\ CopyFails)
           \/ RecordDone \/ RecordInfo \/ JobRaises
    PROVE  Parts'
  <1> USE DEF WorkerMoves, JobLeaves, queue
  <1>0. TypeOK /\ RowsPlaced /\ WorkerPlaced /\ JobInProgress
    BY DEF IInv, Parts
  <1>1. ASSUME NEW j \in Jobs, TakeJob(j) PROVE Parts'
    <2>1. RowsPlaced' /\ WorkerPlaced'
      BY <1>0, <1>1 DEF TakeJob, RowsPlaced, WorkerPlaced
    <2>2. QED
      BY <1>0, <1>1, <2>1, QuietWorker DEF TakeJob
  <1>2. CASE LookForFile
    <2>1. RowsPlaced' /\ WorkerPlaced'
      BY <1>0, <1>2 DEF LookForFile, RowsPlaced, WorkerPlaced
    <2>2. QED
      BY <1>0, <1>2, <2>1, QuietWorker DEF LookForFile, Exists
  <1>3. ASSUME wpc \in {"skip", "record"}, db' = MarkDone(db, wjob, wpath),
               wpc' \in {"idle", "info"}, UNCHANGED <<disk, handler, rematch, history>>
        PROVE  Parts'
    <2>1. wjob \in Jobs /\ wpath \in Paths /\ wpath \in Home[wjob] /\ db \in Table
      BY <1>0, <1>3 DEF TypeOK, WorkerPlaced
    <2>2. \A i \in Jobs : db'[i].file =
                            IF i = wjob /\ HasRow(db, wjob) THEN wpath ELSE db[i].file
      BY <1>3, <2>1, MarkDoneFile
    <2>3. RowsPlaced' /\ WorkerPlaced'
      BY <1>0, <1>3, <2>1, <2>2 DEF RowsPlaced, WorkerPlaced
    <2>4. \A i \in Jobs : db'[i].status = "done" =>
                \/ db[i].status = "done" /\ db'[i].file = db[i].file
                \/ i = wjob /\ db'[i].file = wpath
      BY <1>3, <2>1, <2>2, MarkDoneEffect
    <2>5. QED
      BY <1>3, <2>3, <2>4, QuietWorker
  <1>4. CASE BeginDownload
    <2>1. wjob \in Jobs /\ db \in Table
      BY <1>0, <1>4 DEF TypeOK, BeginDownload
    <2>2. \A i \in Jobs : /\ db'[i].file = db[i].file
                          /\ db'[i].status = "done" => db[i].status = "done" /\ i # wjob
      BY <1>4, <2>1, MarkDownloadingEffect, FilesStay DEF BeginDownload, HasRow
    <2>3. RowsPlaced' /\ WorkerPlaced'
      BY <1>0, <1>4, <2>2 DEF BeginDownload, RowsPlaced, WorkerPlaced
    <2>4. QED
      BY <1>4, <2>1, <2>2, <2>3, QuietWorker DEF BeginDownload
  <1>5. ASSUME wpc \in WorkerSteps \ {"idle", "copying"}, db' \in {MarkFailed(db, wjob), db},
               wpc' = "idle", UNCHANGED <<disk, handler, rematch, history>>
        PROVE  Parts'
    <2>1. wjob \in Jobs /\ db \in Table
      BY <1>0, <1>5 DEF TypeOK
    <2>2. \A i \in Jobs : /\ db'[i].file = db[i].file
                          /\ db'[i].status = "done" => db[i].status = "done"
      BY <1>5, <2>1, FailedRows
    <2>3. RowsPlaced' /\ WorkerPlaced'
      BY <1>0, <1>5, <2>2 DEF RowsPlaced, WorkerPlaced
    <2>4. QED
      BY <1>5, <2>2, <2>3, QuietWorker
  <1>6. CASE Place
    <2>1. PICK p \in Home[wjob] : /\ wpath' = p
                                  /\ wpc' = IF Exists(p) THEN "record" ELSE "copy"
      BY <1>6 DEF Place
    <2>2. RowsPlaced' /\ WorkerPlaced'
      BY <1>0, <1>6, <2>1 DEF Place, RowsPlaced, WorkerPlaced
    <2>3. Exists(wpath)' <=> Exists(p)
      BY <1>6, <2>1 DEF Place, Exists
    <2>4. db'[wjob'].status # "done"
      BY <1>0, <1>6 DEF Place, JobInProgress
    <2>5. QED
      BY <1>6, <2>1, <2>2, <2>3, <2>4, QuietWorker DEF Place
  <1>7. CASE wpc = "copy" /\ CopyFails
    <2>1. \A p \in Paths : disk[p].is # "growing"
      BY <1>7 DEF IInv, Parts, CopyInProgress
    <2>2. disk' = disk
      BY <1>0, <1>7, <2>1 DEF CopyFails, Settle, TypeOK
    <2>3. QED
      BY <1>5, <1>7, <2>2 DEF CopyFails, WorkerSteps, history
  <1>8. CASE RecordInfo
    <2>1. wjob \in Jobs /\ db \in Table
      BY <1>0, <1>8 DEF TypeOK, RecordInfo
    <2>2. \A i \in Jobs : /\ db'[i].file = db[i].file
                          /\ db'[i].status = "done" => db[i].status = "done"
      BY <1>8, <2>1, UpdateTrackInfoEffect, NamedFilesStay DEF RecordInfo
    <2>3. RowsPlaced' /\ WorkerPlaced'
      BY <1>0, <1>8, <2>2 DEF RecordInfo, RowsPlaced, WorkerPlaced
    <2>4. QED
      BY <1>8, <2>2, <2>3, QuietWorker DEF RecordInfo
  <1>9. CASE SkipDownload
    BY <1>3, <1>9 DEF SkipDownload
  <1>10. CASE RecordDone
    BY <1>3, <1>10 DEF RecordDone
  <1>11. CASE DownloadFails
    BY <1>5, <1>11 DEF DownloadFails, WorkerSteps
  <1>12. CASE JobRaises
    BY <1>5, <1>12 DEF JobRaises, WorkerSteps
  <1>13. QED
    BY <1>1, <1>2, <1>4, <1>6, <1>7, <1>8, <1>9, <1>10, <1>11, <1>12

\* A new copy begins: what the worker overwrites is a file of the same track.
LEMMA CopyStartsParts ==
    ASSUME IInv, CopyStarts
    PROVE  Parts'
  <1> USE DEF CopyStarts, WorkerMoves, handler, rematch, history
  <1>0. /\ TypeOK /\ DiskPlaced /\ WorkerPlaced /\ HandlerPlaced
        /\ CopyInProgress /\ MoveInProgress /\ JobInProgress /\ RowsPlaced
    BY DEF IInv, Parts
  <1>1. wjob \in Jobs /\ wpath \in Home[wjob] /\ wpath \in Paths
    BY <1>0 DEF TypeOK, WorkerPlaced
  <1>2. disk'[wpath] = [of |-> wjob, is |-> "growing"] /\ disk'[wpath] # NoFile
    BY <1>0, <1>1 DEF TypeOK, NoFile
  <1>3. \A p \in Paths : p # wpath => disk'[p] = disk[p]
    BY <1>0 DEF TypeOK
  <1>4. \A p \in Paths : Exists(p) => Exists(p)'
    BY <1>2, <1>3 DEF Exists
  <1>5. DiskPlaced' /\ RowsPlaced' /\ WorkerPlaced'
    <2>1. DiskPlaced'
      BY <1>0, <1>1, <1>2, <1>3 DEF DiskPlaced, Exists, OwnNames
    <2>2. QED
      BY <1>0, <2>1 DEF RowsPlaced, WorkerPlaced
  <1>6. HandlerPlaced'
    BY <1>0 DEF HandlerPlaced, OwnNames
  <1>7. CopyInProgress'
    BY <1>0, <1>2, <1>3 DEF CopyInProgress
  <1>8. MoveInProgress'
    <2>1. ASSUME hpc = "move", disk'[hfrom].is = "growing" PROVE ~Exists(hto)'
      <3>1. hfrom \in Paths /\ hto \in Paths
        BY <1>0, <2>1 DEF TypeOK
      <3>2. hfrom = wpath
        BY <1>0, <1>3, <2>1, <3>1 DEF CopyInProgress
      <3>3. hto # wpath /\ ~Exists(hto)
        BY <1>0, <2>1, <3>2 DEF MoveInProgress
      <3>4. QED
        BY <1>3, <3>1, <3>3 DEF Exists
    <2>2. hpc = "record" => Exists(hto)'
      BY <1>0, <1>4 DEF MoveInProgress, TypeOK
    <2>3. QED
      BY <1>0, <2>1, <2>2 DEF MoveInProgress
  <1>9. JobInProgress'
    BY <1>0, <1>2 DEF JobInProgress
  <1>10. OwnFile'
    <2> SUFFICES ASSUME NEW i \in Jobs \ (spoilt \cup astray), OwnNames(i),
                        db[i].status = "done", i \notin gone, ~MoveUnrecorded(i)
                 PROVE  Holds(i, db[i].file)'
      BY DEF OwnFile, OwnNames, MoveUnrecorded
    <2>1. i # wjob
      BY <1>0 DEF JobInProgress
    <2>2. Holds(i, db[i].file)
      BY DEF IInv, Parts, OwnFile
    <2>3. db[i].file \in Home[i] /\ db[i].file \in Paths
      BY <1>0, <2>2, LibraryAssumption DEF RowsPlaced, Holds
    <2>4. db[i].file # wpath
      BY <1>1, <2>1, <2>3 DEF OwnNames
    <2>5. QED
      BY <1>3, <2>2, <2>3, <2>4 DEF Holds
  <1>11. QED
    BY <1>5, <1>6, <1>7, <1>8, <1>9, <1>10 DEF Parts

\* Settling what is being written keeps the files, their places and whole ones.
LEMMA SettlePlaced ==
    ASSUME TypeOK, DiskPlaced, NEW what \in {"cut", "whole"}, Settle(what)
    PROVE  /\ DiskPlaced'
           /\ \A j \in Jobs : \A p \in Paths : Holds(j, p) => Holds(j, p)'
  <1>1. DiskPlaced'
    BY SettleType DEF TypeOK, DiskPlaced
  <1>2. ASSUME NEW j \in Jobs, NEW p \in Paths, Holds(j, p) PROVE Holds(j, p)'
    BY <1>2 DEF Settle, Holds
  <1>3. QED
    BY <1>1, <1>2

\* A copy ends, well or not.
LEMMA CopyEndsParts ==
    ASSUME IInv, CopyEnds \/ (wpc = "copying" /\ CopyFails)
    PROVE  Parts'
  <1> USE DEF WorkerMoves, JobLeaves, handler, rematch
  <1>0. /\ TypeOK /\ DiskPlaced /\ WorkerPlaced /\ HandlerPlaced
        /\ CopyInProgress /\ MoveInProgress /\ JobInProgress /\ RowsPlaced
    BY DEF IInv, Parts
  <1>1. PICK what \in {"cut", "whole"} : Settle(what) /\ (what = "whole" => CopyEnds)
                                        /\ (what = "cut" => CopyFails)
    BY DEF CopyEnds, CopyFails
  <1>2. wjob \in Jobs /\ db \in Table /\ wpc = "copying" /\ wpath \in Paths \cup {NoPath}
    BY <1>0 DEF TypeOK, CopyEnds
  <1>3. /\ \A i \in Jobs : db'[i].file = db[i].file
        /\ \A i \in Jobs : db'[i].status = "done" => db[i].status = "done"
        /\ UNCHANGED <<handler, rematch, astray>>
        /\ spoilt \subseteq spoilt'
    BY <1>2, FailedRows DEF CopyEnds, CopyFails, history
  <1>4. \A p \in Paths : /\ disk'[p].of = disk[p].of
                         /\ disk'[p].is =
                              IF disk[p].is = "growing" THEN what ELSE disk[p].is
                         /\ Exists(p)' <=> Exists(p)
    BY <1>0, <1>1, SettleType DEF TypeOK
  <1>5. DiskPlaced' /\ RowsPlaced' /\ WorkerPlaced'
    <2>1. DiskPlaced' /\ RowsPlaced'
      BY <1>0, <1>1, <1>3, SettlePlaced DEF RowsPlaced
    <2>2. CASE CopyEnds
      BY <1>0, <2>1, <2>2 DEF CopyEnds, WorkerPlaced
    <2>3. CASE CopyFails
      BY <2>1, <2>3 DEF CopyFails, WorkerPlaced
    <2>4. QED
      BY <2>1, <2>2, <2>3
  <1>6. HandlerPlaced'
    BY <1>0, <1>3, <1>4 DEF HandlerPlaced, TypeOK
  <1>7. CopyInProgress'
    <2>1. ASSUME NEW p \in Paths PROVE disk'[p].is # "growing"
      BY <1>4
    <2>2. ASSUME NEW p \in Paths, disk'[p].is = "cut" PROVE disk'[p].of \in spoilt'
      <3>1. CASE disk[p].is = "cut"
        BY <1>0, <1>3, <1>4, <3>1 DEF CopyInProgress
      <3>2. CASE disk[p].is = "growing"
        <4>1. what = "cut" /\ disk[p].of = wjob
          BY <1>0, <1>4, <2>2, <3>2 DEF CopyInProgress
        <4>2. spoilt' = spoilt \cup {wjob}
          BY <1>1, <1>2, <4>1 DEF CopyFails
        <4>3. QED
          BY <1>4, <4>1, <4>2
      <3>3. QED
        BY <1>4, <2>2, <3>1, <3>2
    <2>3. QED
      BY <2>1, <2>2 DEF CopyInProgress
  <1>8. MoveInProgress'
    BY <1>0, <1>1, <1>3, <1>4 DEF MoveInProgress, TypeOK, CopyEnds, CopyFails
  <1>9. JobInProgress'
    <2>1. CASE CopyEnds
      <3>1. wjob' = wjob /\ wpath' = wpath /\ wpath \in Paths /\ db' = db
            /\ wpc' = "record" /\ spoilt' = spoilt
        BY <1>0, <2>1, StoreAssumption DEF CopyEnds, TypeOK, history
      <3>2. Settle("whole")
        BY <2>1 DEF CopyEnds
      <3>3. ASSUME wjob \notin spoilt \cup astray, OwnNames(wjob)
            PROVE  Holds(wjob, wpath)'
        <4>1. disk[wpath] = [of |-> wjob, is |-> "growing"]
          BY <1>0, <1>2, <3>3 DEF JobInProgress
        <4>2. disk'[wpath] = [of |-> wjob, is |-> "whole"]
          BY <3>1, <3>2, <4>1 DEF Settle
        <4>3. QED
          BY <3>1, <4>2, StoreAssumption DEF Holds
      <3>4. QED
        BY <1>0, <1>2, <1>3, <3>1, <3>3 DEF JobInProgress, OwnNames
    <2>2. CASE CopyFails
      BY <2>2 DEF CopyFails, JobInProgress
    <2>3. QED
      BY <2>1, <2>2
  <1>10. OwnFile'
    <2> SUFFICES ASSUME NEW i \in Jobs \ (spoilt' \cup astray'), OwnNames(i),
                        db'[i].status = "done", i \notin gone', ~MoveUnrecorded(i)'
                 PROVE  Holds(i, db[i].file)' /\ db'[i].file = db[i].file
      BY DEF OwnFile, OwnNames, Holds
    <2>1. Holds(i, db[i].file) /\ db'[i].file = db[i].file
      BY <1>3 DEF IInv, Parts, OwnFile, MoveUnrecorded
    <2>2. db[i].file \in Paths
      BY <1>0, <2>1, LibraryAssumption DEF RowsPlaced, Holds
    <2>3. QED
      BY <1>0, <1>1, <2>1, <2>2, SettlePlaced
  <1>11. QED
    BY <1>5, <1>6, <1>7, <1>8, <1>9, <1>10 DEF Parts

\* The worker's steps preserve the invariant.
LEMMA WorkerParts == ASSUME IInv, TypeOK', WorkerStep PROVE Parts'
  <1>1. wpc \in {"copy", "copying"} \/ ~CopyFails
    BY DEF CopyFails
  <1>2. QED
    BY <1>1, WorkerQuiet, CopyStartsParts, CopyEndsParts DEF WorkerStep

\* A step of the others that moves no file: a row that is done keeps its file, or
\* is given the place to which its file has been moved.
LEMMA QuietHandler ==
    ASSUME IInv, TypeOK', RowsPlaced', HandlerPlaced', MoveInProgress',
           UNCHANGED <<disk, worker, astray>>, spoilt \subseteq spoilt',
           \A i \in Jobs : db'[i].status = "done" => db[i].status = "done",
           \A i \in Jobs \ spoilt' :
                db'[i].status = "done" /\ i \notin gone' /\ ~MoveUnrecorded(i)' =>
                  \/ db'[i].file = db[i].file /\ i \notin gone /\ ~MoveUnrecorded(i)
                  \/ hpc = "record" /\ i = hjob /\ db'[i].file = hto
    PROVE  Parts'
  <1> USE DEF worker
  <1>1. DiskPlaced' /\ WorkerPlaced' /\ CopyInProgress'
    BY DEF IInv, Parts, DiskPlaced, WorkerPlaced, CopyInProgress, Exists
  <1>2. JobInProgress'
    BY DEF IInv, TypeOK, Parts, JobInProgress, Holds
  <1>3. OwnFile'
    <2> SUFFICES ASSUME NEW i \in Jobs \ (spoilt' \cup astray'), OwnNames(i),
                        db'[i].status = "done", i \notin gone', ~MoveUnrecorded(i)'
                 PROVE  Holds(i, db'[i].file)
      BY DEF OwnFile, OwnNames, Holds
    <2>1. CASE db'[i].file = db[i].file /\ i \notin gone /\ ~MoveUnrecorded(i)
      BY <2>1 DEF IInv, Parts, OwnFile
    <2>2. CASE hpc = "record" /\ i = hjob /\ db'[i].file = hto
      <3>1. hto \in Home[i] /\ Exists(hto)
        BY <2>2, LibraryAssumption DEF IInv, Parts, HandlerPlaced, MoveInProgress
      <3>2. wpc # "copying" \/ wjob # i
        BY DEF IInv, Parts, JobInProgress
      <3>3. QED
        BY <2>2, <3>1, <3>2, OwnPathHolds DEF IInv, Parts
    <2>3. QED
      BY <2>1, <2>2
  <1>4. QED
    BY <1>1, <1>2, <1>3 DEF Parts

\* A request or a pipeline touches no row that is there.
LEMMA EnqueueParts ==
    ASSUME IInv, TypeOK', NEW j \in Jobs, Enqueue(j)
    PROVE  Parts'
  <1> USE DEF Enqueue, worker, handler, rematch, history
  <1>1. PICK s \in Songs : db' = MarkPending(db, j, s)
    OBVIOUS
  <1>2. db \in Table
    BY DEF IInv, TypeOK
  <1>3. \A i \in Jobs : db'[i].file \in {db[i].file, NoPath}
    BY <1>1, <1>2, NamedFilesStay
  <1>4. \A i \in Jobs : db'[i].status = "done" =>
                           db[i].status = "done" /\ db'[i] = db[i]
    <2> SUFFICES ASSUME NEW i \in Jobs, db'[i].status = "done"
                 PROVE  HasRow(db, i)
      BY <1>1, <1>2, MarkPendingEffect
    <2>1. QED
      BY <1>1, <1>2, MarkPendingEffect DEF HasRow
  <1>5. RowsPlaced'
    BY <1>3 DEF IInv, Parts, RowsPlaced
  <1>6. HandlerPlaced' /\ MoveInProgress'
    BY DEF IInv, Parts, HandlerPlaced, MoveInProgress, Exists
  <1>7. QED
    BY <1>4, <1>5, <1>6, QuietHandler DEF MoveUnrecorded

\* An edit or a rematch prepares its move.
LEMMA StartMoveParts ==
    ASSUME IInv, TypeOK', NEW j \in Jobs \cup {NoJob}, NEW from \in Paths,
           LoopFree, Exists(from), StartMove(j, from), j # NoJob => from \in Home[j],
           rpath' # NoPath /\ rjob' # NoJob => rpath' \in Home[rjob'],
           UNCHANGED <<db, disk, worker, history>>
    PROVE  Parts'
  <1> USE DEF LoopFree, history
  <1>1. /\ hpc' \in {"move", "record"} /\ (hpc' = "record" => j # NoJob)
        /\ hjob' = j /\ hfrom' = from /\ hto' \in Paths
        /\ hpc' = "move" => hto' # from /\ ~Exists(hto')
        /\ hpc' = "record" => hto' = from
        /\ hto' \in Home[IF j = NoJob THEN disk[from].of ELSE j]
        /\ gone' = gone
    BY StartMoveType DEF IInv
  <1>2. HandlerPlaced' /\ RowsPlaced'
    <2>1. ASSUME NEW i \in Jobs, OwnNames(i) PROVE from \in Home[i] <=> hto' \in Home[i]
      <3>1. from \in Home[i] <=> i = IF j = NoJob THEN disk[from].of ELSE j
        BY <2>1 DEF IInv, Parts, DiskPlaced, OwnNames
      <3>2. (IF j = NoJob THEN disk[from].of ELSE j) \in Jobs
        BY DEF IInv, TypeOK, Exists, File
      <3>3. QED
        BY <1>1, <2>1, <3>1, <3>2 DEF OwnNames
    <2>2. QED
      BY <1>1, <2>1 DEF IInv, Parts, HandlerPlaced, RowsPlaced, OwnNames
  <1>3. MoveInProgress'
    BY <1>1 DEF MoveInProgress, Exists
  <1>4. QED
    BY <1>1, <1>2, <1>3, QuietHandler DEF MoveUnrecorded

\* The handlers' steps that move no file.
LEMMA HandlerQuiet ==
    ASSUME IInv, TypeOK',
           \/ (\E j \in Jobs : EditMetadata(j))
           \/ RematchReads \/ RematchResumes \/ RematchDropped
           \/ MoveFails \/ RecordMove \/ RecordMoveFails
           \/ MarkIgnored \/ MarkIgnoredFails
    PROVE  Parts'
  <1> USE DEF HandlerEnds, rematch, history
  <1>0. TypeOK /\ RowsPlaced /\ HandlerPlaced /\ MoveInProgress
    BY DEF IInv, Parts
  <1>1. ASSUME NEW j \in Jobs, EditMetadata(j) PROVE Parts'
    <2>1. db[j].file \in Home[j] /\ db[j].file \in Paths /\ j \in Jobs \cup {NoJob}
      BY <1>0, <1>1, LibraryAssumption DEF EditMetadata, RowsPlaced
    <2>2. QED
      BY <1>0, <1>1, <2>1, StartMoveParts DEF EditMetadata, HandlerPlaced
  <1>2. CASE RematchReads
    <2>1. rpath' # NoPath /\ rjob' # NoJob => rpath' \in Home[rjob']
      BY <1>0, <1>2 DEF RematchReads, RowsPlaced
    <2>2. HandlerPlaced' /\ MoveInProgress' /\ RowsPlaced'
      BY <1>0, <1>2, <2>1 DEF RematchReads, LoopFree, handler, HandlerPlaced, MoveInProgress,
                              RowsPlaced
    <2>3. QED
      BY <1>2, <2>2, QuietHandler DEF RematchReads, handler, MoveUnrecorded
  <1>3. CASE RematchResumes
    <2>1. rpath \in Paths /\ rjob \in Jobs \cup {NoJob}
      BY <1>0, <1>3 DEF RematchResumes, TypeOK
    <2>2. rjob # NoJob => rpath \in Home[rjob]
      BY <1>0, <1>3 DEF RematchResumes, HandlerPlaced
    <2>3. QED
      BY <1>3, <2>1, <2>2, StartMoveParts DEF RematchResumes
  <1>4. CASE RematchDropped
    <2>1. HandlerPlaced' /\ MoveInProgress' /\ RowsPlaced'
      BY <1>0, <1>4 DEF RematchDropped, LoopFree, handler, HandlerPlaced, MoveInProgress,
                        RowsPlaced
    <2>2. QED
      BY <1>4, <2>1, QuietHandler DEF RematchDropped, handler, MoveUnrecorded
  <1>5. ASSUME hpc \in {"move", "record"}, HandlerEnds,
               UNCHANGED <<db, disk, worker, gone, rematch, astray>>,
               spoilt \subseteq spoilt', MoveUnrecorded(hjob) => hjob \in spoilt'
        PROVE  Parts'
    <2>1. HandlerPlaced' /\ MoveInProgress' /\ RowsPlaced'
      BY <1>0, <1>5 DEF HandlerPlaced, MoveInProgress, RowsPlaced
    <2>2. QED
      BY <1>5, <2>1, QuietHandler DEF MoveUnrecorded
  <1>6. CASE MoveFails
    BY <1>5, <1>6 DEF MoveFails, MoveUnrecorded
  <1>7. CASE RecordMoveFails
    BY <1>5, <1>7 DEF RecordMoveFails, MoveUnrecorded
  <1>8. CASE RecordMove
    <2>1. /\ db \in Table /\ hjob \in Jobs /\ hto \in Paths /\ hto \in Home[hjob]
          /\ hpc = "record"
      BY <1>0, <1>8, LibraryAssumption DEF RecordMove, TypeOK, HandlerPlaced
    <2>2. \A i \in Jobs : /\ db'[i].status = db[i].status
                          /\ db'[i].file = IF i = hjob /\ HasRow(db, hjob)
                                           THEN hto ELSE db[i].file
      BY <1>8, <2>1, UpdateMovedEffect DEF RecordMove
    <2>3. HandlerPlaced' /\ MoveInProgress' /\ RowsPlaced'
      BY <1>0, <1>8, <2>1, <2>2 DEF RecordMove, HandlerPlaced, MoveInProgress, RowsPlaced
    <2>4. \A i \in Jobs : db'[i].status = "done" =>
             \/ db'[i].file = db[i].file /\ ~MoveUnrecorded(i)
             \/ i = hjob /\ db'[i].file = hto
      BY <2>2 DEF MoveUnrecorded, HasRow
    <2>5. QED
      BY <1>8, <2>1, <2>2, <2>3, <2>4, QuietHandler DEF RecordMove
  <1>9. CASE MarkIgnored \/ MarkIgnoredFails
    <2>1. db \in Table /\ gone \in SUBSET Jobs /\ hpc = "delete"
      BY <1>0, <1>9 DEF MarkIgnored, MarkIgnoredFails, TypeOK
    <2>2. \A i \in Jobs : /\ db'[i].file = db[i].file
                          /\ db'[i].status = "done" =>
                               db[i].status = "done" /\ (i \in spoilt' \/ i \notin gone)
      BY <1>9, <2>1, MarkIgnoredEffect, MarkIgnoredFile
         DEF MarkIgnored, MarkIgnoredFails, HasRow
    <2>3. HandlerPlaced' /\ MoveInProgress' /\ RowsPlaced'
      BY <1>0, <1>9, <2>2 DEF MarkIgnored, MarkIgnoredFails, HandlerPlaced, MoveInProgress,
                              RowsPlaced
    <2>4. QED
      BY <1>9, <2>1, <2>2, <2>3, QuietHandler
         DEF MarkIgnored, MarkIgnoredFails, MoveUnrecorded
  <1>10. QED
    BY <1>1, <1>2, <1>3, <1>4, <1>6, <1>7, <1>8, <1>9

\* The destination of a move is a path of the track whose file is moved, if that
\* path is nobody else's.
LEMMA MoveWithinTrack ==
    ASSUME IInv, hpc = "move", NEW k, k = disk[hfrom].of
    PROVE  /\ hfrom \in Paths /\ hto \in Paths /\ hfrom # hto /\ Exists(hfrom)
           /\ k \in Jobs
           /\ \A j \in Jobs : OwnNames(j) => /\ j = k <=> hfrom \in Home[j]
                                             /\ j = k <=> hto \in Home[j]
           /\ OwnNames(k) /\ hjob # NoJob => hjob = k
  <1>0. TypeOK /\ DiskPlaced /\ HandlerPlaced /\ MoveInProgress
    BY DEF IInv, Parts
  <1>1. hfrom \in Paths /\ hto \in Paths /\ hfrom # hto /\ Exists(hfrom)
    BY <1>0 DEF TypeOK, MoveInProgress
  <1>2. k \in Jobs
    BY <1>0, <1>1 DEF TypeOK, Exists, File
  <1>3. \A j \in Jobs : OwnNames(j) => /\ j = k <=> hfrom \in Home[j]
                                       /\ j = k <=> hto \in Home[j]
    BY <1>0, <1>1 DEF DiskPlaced, HandlerPlaced
  <1>4. ASSUME OwnNames(k), hjob # NoJob PROVE hjob = k
    <2>1. hjob \in Jobs /\ hfrom \in Home[hjob]
      BY <1>0, <1>4 DEF TypeOK, HandlerPlaced
    <2>2. hfrom \in Home[k]
      BY <1>2, <1>3, <1>4
    <2>3. QED
      BY <1>2, <1>4, <2>1, <2>2 DEF OwnNames
  <1>5. QED
    BY <1>1, <1>2, <1>3, <1>4

\* A rename.
LEMMA MoveParts == ASSUME IInv, Move PROVE Parts'
  <1> USE DEF Move, HandlerEnds, worker, rematch
  <1> DEFINE k == disk[hfrom].of
  <1>0. /\ TypeOK /\ DiskPlaced /\ RowsPlaced /\ WorkerPlaced /\ HandlerPlaced
        /\ CopyInProgress /\ MoveInProgress /\ JobInProgress
    BY DEF IInv, Parts
  <1>1. hfrom \in Paths /\ hto \in Paths /\ hfrom # hto /\ Exists(hfrom)
    BY MoveWithinTrack
  <1>2. /\ k \in Jobs
        /\ \A j \in Jobs : OwnNames(j) => /\ j = k <=> hfrom \in Home[j]
                                          /\ j = k <=> hto \in Home[j]
        /\ OwnNames(k) /\ hjob # NoJob => hjob = k
    BY MoveWithinTrack
  <1>3. /\ disk'[hto] = disk[hfrom] /\ disk'[hfrom] = NoFile
        /\ \A p \in Paths \ {hfrom, hto} : disk'[p] = disk[p]
    BY <1>0, <1>1 DEF TypeOK
  <1> HIDE DEF k
  \* The files of other tracks stay as they are.
  <1>4. ASSUME NEW i \in Jobs, i # k, OwnNames(i), NEW p \in Home[i]
        PROVE  disk'[p] = disk[p]
    <2>1. p # hfrom /\ p # hto
      BY <1>2, <1>4
    <2>2. p \in Paths
      BY LibraryAssumption
    <2>3. QED
      BY <1>3, <2>1, <2>2
  <1>5. DiskPlaced' /\ RowsPlaced' /\ WorkerPlaced' /\ HandlerPlaced'
    <2>1. ASSUME NEW i \in Jobs, OwnNames(i), NEW p \in Paths, disk'[p] # NoFile
          PROVE  disk'[p].of = i <=> p \in Home[i]
      <3>1. CASE p = hto
        BY <1>2, <1>3, <2>1, <3>1 DEF k
      <3>2. CASE p # hto
        <4>1. disk'[p] = disk[p] /\ Exists(p)
          BY <1>3, <2>1, <3>2 DEF Exists
        <4>2. QED
          BY <1>0, <2>1, <4>1 DEF DiskPlaced
      <3>3. QED
        BY <3>1, <3>2
    <2>2. DiskPlaced'
      BY <2>1 DEF DiskPlaced, Exists, OwnNames
    <2>3. QED
      BY <1>0, <2>2 DEF RowsPlaced, WorkerPlaced, HandlerPlaced
  <1>6. CopyInProgress'
    <2>1. spoilt \subseteq spoilt' /\ NoFile.is = "absent"
      BY DEF NoFile
    <2>2. QED
      BY <1>0, <1>1, <1>3, <2>1 DEF CopyInProgress
  <1>7. MoveInProgress'
    BY <1>1, <1>3 DEF MoveInProgress, Exists
  <1>8. JobInProgress'
    <2>1. ASSUME wpc \in {"skip", "copying", "record"}, OwnNames(wjob),
                 wjob \in Jobs \ (spoilt' \cup astray')
          PROVE  /\ wjob # k /\ wjob \notin spoilt \cup astray
                 /\ wpath \in Home[wjob]
      <3>1. wjob \in Jobs /\ wpath \in Home[wjob]
        BY <1>0, <2>1 DEF TypeOK, WorkerPlaced
      <3>2. wjob # k
        BY <1>2, <2>1 DEF InHand, k
      <3>3. QED
        BY <2>1, <3>1, <3>2
    <2>2. QED
      BY <1>0, <1>4, <2>1 DEF JobInProgress, Holds, OwnNames
  <1>9. OwnFile'
    <2> SUFFICES ASSUME NEW i \in Jobs \ (spoilt' \cup astray'), OwnNames(i),
                        db[i].status = "done", i \notin gone, ~MoveUnrecorded(i)'
                 PROVE  Holds(i, db[i].file)'
      BY DEF OwnFile, OwnNames
    <2>1. i # k
      BY <1>1, <1>2 DEF MoveUnrecorded, k
    <2>2. Holds(i, db[i].file)
      BY DEF IInv, Parts, OwnFile, MoveUnrecorded
    <2>3. db[i].file \in Home[i]
      BY <1>0, <2>2 DEF RowsPlaced, Holds
    <2>4. QED
      BY <1>4, <2>1, <2>2, <2>3 DEF Holds
  <1>10. QED
    BY <1>5, <1>6, <1>7, <1>8, <1>9 DEF Parts

\* A delete removes a file of the track that is deleted.
LEMMA RemoveFileParts ==
    ASSUME IInv, NEW j \in Jobs, RemoveFile(j)
    PROVE  Parts'
  <1> USE DEF RemoveFile, worker, rematch
  <1>0. /\ TypeOK /\ DiskPlaced /\ RowsPlaced /\ WorkerPlaced /\ HandlerPlaced
        /\ CopyInProgress /\ MoveInProgress /\ JobInProgress
    BY DEF IInv, Parts
  <1>1. \A p \in Paths : disk'[p] \in {disk[p], NoFile}
    OBVIOUS
  <1>2. ASSUME NEW i \in Jobs, i # j, OwnNames(i), NEW p \in Home[i]
        PROVE  disk'[p] = disk[p]
    <2>1. p \in Paths /\ p # db[j].file
      BY <1>0, <1>2, LibraryAssumption, StoreAssumption DEF OwnNames, RowsPlaced
    <2>2. QED
      BY <2>1
  <1>3. /\ DiskPlaced' /\ RowsPlaced' /\ WorkerPlaced' /\ HandlerPlaced'
        /\ MoveInProgress'
    BY <1>0, <1>1 DEF DiskPlaced, Exists, RowsPlaced, WorkerPlaced, HandlerPlaced,
                      MoveInProgress
  <1>4. CopyInProgress'
    <2>1. spoilt \subseteq spoilt' /\ NoFile.is = "absent"
      BY DEF NoFile
    <2>2. QED
      BY <1>0, <1>1, <2>1 DEF CopyInProgress
  <1>5. JobInProgress'
    <2>1. ASSUME wpc \in {"skip", "copying", "record"}, OwnNames(wjob),
                 wjob \in Jobs \ (spoilt' \cup astray')
          PROVE  /\ wjob # j /\ wjob \notin spoilt \cup astray
                 /\ wpath \in Home[wjob]
      BY <1>0, <2>1 DEF TypeOK, WorkerPlaced, InHand
    <2>2. QED
      BY <1>0, <1>2, <2>1 DEF JobInProgress, Holds, OwnNames
  <1>6. OwnFile'
    <2> SUFFICES ASSUME NEW i \in Jobs \ (spoilt' \cup astray'), OwnNames(i),
                        db[i].status = "done", i \notin gone', ~MoveUnrecorded(i)'
                 PROVE  Holds(i, db[i].file)'
      BY DEF OwnFile, OwnNames
    <2>1. i # j /\ Holds(i, db[i].file)
      BY DEF IInv, Parts, OwnFile, MoveUnrecorded
    <2>2. db[i].file \in Home[i]
      BY <1>0, <2>1 DEF RowsPlaced, Holds
    <2>3. QED
      BY <1>2, <2>1, <2>2 DEF Holds
  <1>7. QED
    BY <1>3, <1>4, <1>5, <1>6 DEF Parts

\* The end of the process cuts short what is being written.
LEMMA ExitParts == ASSUME IInv, Exit PROVE Parts'
  <1> USE DEF Exit, JobLeaves, HandlerEnds
  <1>0. /\ TypeOK /\ DiskPlaced /\ RowsPlaced /\ CopyInProgress
    BY DEF IInv, Parts
  <1>1. \A i \in Jobs : /\ db'[i].file = db[i].file
                        /\ db'[i].status = "done" => db[i].status = "done"
    BY <1>0, FailedRows DEF TypeOK
  <1>2. \A p \in Paths : /\ disk'[p].of = disk[p].of
                         /\ disk'[p].is =
                              IF disk[p].is = "growing" THEN "cut" ELSE disk[p].is
    BY <1>0, SettleType DEF TypeOK
  <1>3. DiskPlaced' /\ \A i \in Jobs : \A p \in Paths : Holds(i, p) => Holds(i, p)'
    BY <1>0, SettlePlaced
  <1>4. RowsPlaced' /\ WorkerPlaced' /\ HandlerPlaced' /\ MoveInProgress'
    BY <1>0, <1>1 DEF RowsPlaced, WorkerPlaced, HandlerPlaced, MoveInProgress
  <1>5. CopyInProgress'
    <2>1. ASSUME NEW p \in Paths, disk[p].is = "growing" PROVE disk[p].of \in spoilt'
      BY <1>0, <2>1 DEF CopyInProgress, TypeOK
    <2>2. QED
      BY <1>0, <1>2, <2>1 DEF CopyInProgress
  <1>6. JobInProgress'
    BY LibraryAssumption DEF JobInProgress
  <1>7. OwnFile'
    <2> SUFFICES ASSUME NEW i \in Jobs \ (spoilt' \cup astray'), OwnNames(i),
                        db'[i].status = "done"
                 PROVE  Holds(i, db[i].file)' /\ db'[i].file = db[i].file
      BY DEF OwnFile, OwnNames, Holds
    <2>1. Holds(i, db[i].file)
      BY <1>1 DEF IInv, Parts, OwnFile, MoveUnrecorded
    <2>2. db[i].file \in Paths
      BY <1>0, <2>1, LibraryAssumption DEF RowsPlaced, Holds
    <2>3. QED
      BY <1>1, <1>3, <2>1, <2>2
  <1>8. QED
    BY <1>3, <1>4, <1>5, <1>6, <1>7 DEF Parts

\* Every step preserves the invariant.
LEMMA PartsStep == ASSUME IInv, [Next]_vars PROVE IInv'
  <1>1. TypeOK'
    BY TypeStep DEF IInv
  <1>2. CASE UNCHANGED vars
    <2>1. UNCHANGED <<db, disk, handler, rematch, worker, history>>
      BY <1>2 DEF vars
    <2>2. UNCHANGED <<db, disk, hpc, hjob, hfrom, hto, gone, rjob, rpath, wpc, wjob, wpath,
                      spoilt, astray>>
      BY <2>1 DEF handler, rematch, worker, history
    <2>3. /\ DiskPlaced' /\ RowsPlaced' /\ WorkerPlaced' /\ HandlerPlaced'
          /\ CopyInProgress' /\ MoveInProgress'
      BY <2>2 DEF IInv, Parts, DiskPlaced, RowsPlaced, WorkerPlaced, HandlerPlaced,
                  CopyInProgress, MoveInProgress, Exists
    <2>4. JobInProgress' /\ OwnFile'
      BY <2>2 DEF IInv, Parts, JobInProgress, OwnFile, Holds, MoveUnrecorded
    <2>5. QED
      BY <1>1, <2>3, <2>4 DEF IInv, Parts
  <1>3. CASE \E j \in Jobs : Enqueue(j)
    BY <1>1, <1>3, EnqueueParts DEF IInv
  <1>4. CASE WorkerStep
    BY <1>1, <1>4, WorkerParts DEF IInv
  <1>5. CASE HandlerStep
    BY <1>1, <1>5, HandlerQuiet, MoveParts, RemoveFileParts DEF IInv, HandlerStep
  <1>6. CASE Exit
    BY <1>1, <1>6, ExitParts DEF IInv
  <1>7. QED
    BY <1>2, <1>3, <1>4, <1>5, <1>6 DEF Next

\* The strengthening of OwnFile is inductive, whichever tracks share names.
THEOREM InductiveInvariant == Spec => []IInv
  <1>1. Init => Parts
    <2> SUFFICES ASSUME Init PROVE Parts
      OBVIOUS
    <2>1. \A j \in Jobs : db[j].file = NoPath /\ db[j].status = "none"
      BY DEF Init, NoRow
    <2>2. \A p \in Paths : ~Exists(p) /\ disk[p].is = "absent"
      BY DEF Init, Exists, NoFile
    <2>3. QED
      BY <2>1, <2>2 DEF Init, Parts, DiskPlaced, RowsPlaced, WorkerPlaced, HandlerPlaced,
                        CopyInProgress, MoveInProgress, JobInProgress, OwnFile
  <1>2. IInv /\ [Next]_vars => IInv'
    BY PartsStep
  <1>3. Init /\ TypeOK => IInv
    BY <1>1 DEF IInv
  <1>4. QED
    BY <1>2, <1>3, TypeCorrect, PTL DEF Spec

\* A done row names a complete file of its own track (state.mark_done,
\* tag_and_import, api._move_file_and_update_state, delete_downloads_bulk).
THEOREM DoneRowsNameTheirFile == Spec => []OwnFile
  <1>1. IInv => OwnFile
    BY DEF IInv, Parts
  <1>2. QED
    BY <1>1, InductiveInvariant, PTL

\* What a step may do to the files of a track.
LEMMA MusicStep ==
    ASSUME IInv, [Next]_vars, NEW j \in Jobs, OwnNames(j), HasMusic(j), ~HasMusic(j)'
    PROVE  \/ j \in gone' \ gone
           \/ j = wjob /\ wpc = "copy" /\ wpc' = "copying"
           \/ hpc = "move" /\ disk[hfrom].is = "cut"
  <1>0. TypeOK /\ DiskPlaced /\ RowsPlaced /\ WorkerPlaced /\ CopyInProgress /\ MoveInProgress
    BY DEF IInv, Parts
  <1>1. PICK p \in Paths : Holds(j, p) /\ ~Holds(j, p)'
    BY DEF HasMusic
  <1>2. Exists(p) /\ disk[p] = [of |-> j, is |-> "whole"]
    BY <1>1, LibraryAssumption DEF Holds, Exists, NoFile
  <1>3. p \in Home[j] /\ \A i \in Jobs : p \in Home[i] => i = j
    BY <1>0, <1>2 DEF DiskPlaced, OwnNames
  <1>4. disk' # disk
    BY <1>1 DEF Holds
  <1>5. \A what \in {"cut", "whole"} : ~Settle(what)
    BY <1>0, <1>1, SettlePlaced
  <1>6. CASE CopyStarts
    <2>1. p = wpath
      BY <1>0, <1>1, <1>6 DEF CopyStarts, Holds, TypeOK
    <2>2. wjob \in Jobs /\ wpath \in Home[wjob]
      BY <1>0, <1>6 DEF CopyStarts, WorkerMoves, TypeOK, WorkerPlaced
    <2>3. QED
      BY <1>3, <1>6, <2>1, <2>2 DEF CopyStarts, WorkerMoves
  <1>7. CASE Move
    <2> DEFINE k == disk[hfrom].of
    <2>1. /\ hfrom \in Paths /\ hto \in Paths /\ hfrom # hto /\ Exists(hfrom)
          /\ j = k <=> hto \in Home[j]
      BY <1>7, MoveWithinTrack DEF Move
    <2>2. /\ disk'[hto] = disk[hfrom]
          /\ \A q \in Paths \ {hfrom, hto} : disk'[q] = disk[q]
      BY <1>0, <1>7, <2>1 DEF Move, TypeOK
    <2>3. \A q \in Paths : disk'[q] # [of |-> j, is |-> "whole"]
      BY StoreAssumption DEF HasMusic, Holds
    <2>4. disk[hfrom] # [of |-> j, is |-> "whole"]
      BY <2>1, <2>2, <2>3
    <2>5. p = hto
      BY <1>1, <1>2, <2>2, <2>4 DEF Holds
    <2>6. k = j /\ disk[hfrom].is # "growing"
      BY <1>0, <1>2, <1>3, <1>7, <2>1, <2>5 DEF Move, MoveInProgress
    <2>7. disk[hfrom] \in File
      BY <1>0, <2>1 DEF TypeOK, Exists
    <2>8. disk[hfrom].is # "whole"
      BY <2>4, <2>6, <2>7 DEF File
    <2>9. QED
      BY <1>7, <2>6, <2>7, <2>8 DEF Move, File
  <1>8. ASSUME NEW i \in Jobs, RemoveFile(i) PROVE j \in gone' \ gone
    <2>1. p = db[i].file
      BY <1>0, <1>1, <1>8 DEF RemoveFile, Holds, TypeOK
    <2>2. i = j
      BY <1>0, <1>3, <2>1, StoreAssumption DEF RowsPlaced
    <2>3. QED
      BY <1>8, <2>2 DEF RemoveFile
  <1>9. QED
    BY <1>4, <1>5, <1>6, <1>7, <1>8
       DEF Next, vars, Enqueue, WorkerStep, TakeJob, LookForFile, SkipDownload, BeginDownload,
           DownloadFails, Place, CopyEnds, CopyFails, RecordDone, RecordInfo, JobRaises,
           HandlerStep, EditMetadata, RematchReads, RematchResumes, RematchDropped, MoveFails,
           RecordMove, RecordMoveFails, MarkIgnored, MarkIgnoredFails, Exit

\* No move, import, fault or exit loses the last complete file of a track
\* (tag_and_import, api._move_file_and_update_state).
THEOREM MusicStays == Spec => MusicIsKept
  <1>1. IInv /\ [Next]_vars =>
          [\A j \in Jobs : OwnNames(j) /\ HasMusic(j) /\ ~HasMusic(j)' =>
              \/ j \in gone' \ gone
              \/ j = wjob /\ wpc = "copy" /\ wpc' = "copying"
              \/ hpc = "move" /\ disk[hfrom].is = "cut"]_vars
    BY MusicStep
  <1>2. QED
    BY <1>1, InductiveInvariant, PTL DEF Spec, MusicIsKept
=============================================================================
