------------------------- MODULE JobLifecycleProofs -------------------------
(***************************************************************************)
(* Theorems of JobLifecycle, for every set of jobs, songs, paths and       *)
(* pipeline threads and every value of the bounds.                         *)
(***************************************************************************)
EXTENDS JobLifecycle, DownloadStoreProofs

-----------------------------------------------------------------------------
(* The work queue. *)

\* queue.put adds one job and loses none.
LEMMA AppendItems ==
    ASSUME NEW q \in Seq(Jobs), NEW j \in Jobs
    PROVE  /\ Append(q, j) \in Seq(Jobs)
           /\ Items(Append(q, j)) = Items(q) \cup {j}
  <1>1. /\ Append(q, j) \in Seq(Jobs) /\ Len(q) \in Nat
        /\ Len(Append(q, j)) = Len(q) + 1
        /\ \A i \in 1..Len(q) : Append(q, j)[i] = q[i]
        /\ Append(q, j)[Len(q) + 1] = j
    OBVIOUS
  <1>2. 1..Len(Append(q, j)) = 1..Len(q) \cup {Len(q) + 1}
    BY <1>1
  <1>3. QED
    BY <1>1, <1>2 DEF Items

\* queue.get takes the first job and keeps the others.
LEMMA TailItems ==
    ASSUME NEW q \in Seq(Jobs), q # <<>>
    PROVE  /\ Head(q) \in Jobs /\ Tail(q) \in Seq(Jobs)
           /\ Items(q) = Items(Tail(q)) \cup {Head(q)}
  <1>1. /\ Head(q) \in Jobs /\ Tail(q) \in Seq(Jobs)
        /\ Len(q) \in Nat \ {0} /\ Len(Tail(q)) = Len(q) - 1
        /\ \A i \in 1..Len(Tail(q)) : Tail(q)[i] = q[i + 1]
        /\ Head(q) = q[1]
    OBVIOUS
  <1>2. Items(q) \subseteq Items(Tail(q)) \cup {Head(q)}
    <2> SUFFICES ASSUME NEW i \in 1..Len(q)
                 PROVE  q[i] \in Items(Tail(q)) \cup {Head(q)}
      BY DEF Items
    <2>1. CASE i = 1
      BY <1>1, <2>1
    <2>2. CASE i # 1
      <3>1. i - 1 \in 1..Len(Tail(q)) /\ (i - 1) + 1 = i
        BY <1>1, <2>2
      <3>2. Tail(q)[i - 1] = q[i]
        BY <1>1, <3>1
      <3>3. QED
        BY <3>1, <3>2 DEF Items
    <2>3. QED
      BY <2>1, <2>2
  <1>3. Items(Tail(q)) \cup {Head(q)} \subseteq Items(q)
    <2>1. \A i \in 1..Len(Tail(q)) : i + 1 \in 1..Len(q)
      BY <1>1
    <2>2. 1 \in 1..Len(q)
      BY <1>1
    <2>3. QED
      BY <1>1, <2>1, <2>2 DEF Items
  <1>4. QED
    BY <1>1, <1>2, <1>3

-----------------------------------------------------------------------------
(* Type correctness. *)

\* The table before the first boot: tracks an earlier version gave up, or nothing.
LEMMA InitRows ==
    ASSUME Init
    PROVE  db \in Table /\ \A j \in Jobs : db[j].status \in {"none", "failed"}
  <1>1. OldRows \cup {NoRow} \subseteq Row
    BY StoreAssumption DEF OldRows, NoRow, Row, Statuses
  <1>2. \A r \in OldRows \cup {NoRow} : r.status \in {"none", "failed"}
    BY DEF OldRows, NoRow
  <1>3. db \in [Jobs -> OldRows \cup {NoRow}]
    BY DEF Init
  <1>4. QED
    BY <1>1, <1>2, <1>3 DEF Table

\* Before the first boot nothing runs.
LEMMA InitType == Init => TypeOK
  BY InitRows, StoreAssumption, LifecycleAssumption
     DEF Init, TypeOK, Phases, WorkerSteps, Nothing, NobodyHolds, LBJobs

\* The worker's own steps.
LEMMA WorkerType ==
    ASSUME TypeOK, WorkerStep \/ JobRaises \/ JobRaisesTwice
    PROVE  TypeOK'
  <1> USE LifecycleAssumption, StoreAssumption
      DEF TypeOK, WorkerMoves, WorkerAlive, WorkerSteps, JobLeaves, durable,
          worker, pipeline, reload, handlers, bounds, Fault
  <1>1. CASE TakeJob
    BY <1>1, TailItems DEF TakeJob
  <1>2. CASE CheckExisting
    <2>1. wjob \in Jobs
      BY <1>2 DEF CheckExisting
    <2>2. db[wjob].file \in Paths \cup {NoPath}
      BY <2>1, RowFields
    <2>3. QED
      BY <1>2, <2>1, <2>2 DEF CheckExisting, FileIsThere
  <1>3. CASE SkipDownload
    <2>1. db' \in Table
      BY <1>3, MarkDoneEffect DEF SkipDownload
    <2>2. QED
      BY <1>3, <2>1 DEF SkipDownload
  <1>4. CASE BeginDownload
    <2>1. db' \in Table
      BY <1>4, MarkDownloadingEffect DEF BeginDownload
    <2>2. QED
      BY <1>4, <2>1 DEF BeginDownload
  <1>5. CASE Downloaded
    BY <1>5 DEF Downloaded
  <1>6. CASE DownloadFails
    <2>1. db' \in Table
      BY <1>6, MarkFailedEffect DEF DownloadFails
    <2>2. QED
      BY <1>6, <2>1 DEF DownloadFails
  <1>7. CASE Import
    BY <1>7 DEF Import
  <1>8. CASE ImportFails
    <2>1. db' \in Table
      BY <1>8, MarkFailedEffect DEF ImportFails
    <2>2. QED
      BY <1>8, <2>1 DEF ImportFails
  <1>9. CASE RecordDone
    <2>1. db' \in Table
      BY <1>9, MarkDoneEffect DEF RecordDone
    <2>2. QED
      BY <1>9, <2>1 DEF RecordDone
  <1>10. CASE RecordInfo
    <2>1. db' \in Table
      BY <1>10, UpdateTrackInfoEffect DEF RecordInfo
    <2>2. QED
      BY <1>10, <2>1 DEF RecordInfo
  <1>11. CASE ScanEnds
    BY <1>11 DEF ScanEnds
  <1>12. CASE JobRaises
    <2>1. db' \in Table
      BY <1>12, MarkFailedEffect DEF JobRaises
    <2>2. QED
      BY <1>12, <2>1 DEF JobRaises
  <1>13. CASE JobRaisesTwice
    BY <1>13 DEF JobRaisesTwice
  <1>14. CASE LastGetTimesOut
    BY <1>14 DEF LastGetTimesOut
  <1>15. QED
    BY <1>1, <1>2, <1>3, <1>4, <1>5, <1>6, <1>7, <1>8, <1>9, <1>10, <1>11,
       <1>12, <1>13, <1>14 DEF WorkerStep

\* A pipeline thread's steps.
LEMMA PipelineType ==
    ASSUME TypeOK, NEW p \in Pipes,
           StartPipeline(p) \/ PipelineStep(p) \/ PipelineRaises(p)
    PROVE  TypeOK'
  <1> USE LifecycleAssumption, StoreAssumption
      DEF TypeOK, durable, worker, pipeline, reload, handlers, bounds, Fault, LBJobs
  <1>1. CASE StartPipeline(p)
    BY <1>1 DEF StartPipeline, Starts, Phases
  <1>2. ASSUME NEW j \in Jobs, FilterTrack(p, j) PROVE TypeOK'
    BY <1>2 DEF FilterTrack
  <1>3. ASSUME NEW j \in Jobs, PlanTrack(p, j) PROVE TypeOK'
    <2>1. db' \in Table
      BY <1>3, MarkPendingEffect DEF PlanTrack
    <2>2. /\ retry' \in [Pipes -> SUBSET Jobs]
          /\ plan' \in [Pipes -> SUBSET LBJobs]
          /\ phold' \in [Pipes -> Jobs \cup {NoJob}]
      BY <1>3 DEF PlanTrack
    <2>3. QED
      BY <1>3, <2>1, <2>2 DEF PlanTrack
  <1>9. ASSUME NEW j \in Jobs, SkipTrack(p, j) PROVE TypeOK'
    <2>1. db' \in Table
      BY <1>9, MarkFailedEffect DEF SkipTrack
    <2>2. QED
      BY <1>9, <2>1 DEF SkipTrack
  <1>4. CASE GatherRetryable(p)
    BY <1>4 DEF GatherRetryable, Retryable
  <1>5. CASE PutTrack(p)
    BY <1>5, AppendItems DEF PutTrack, Enqueue
  <1>6. CASE PipelineEnds(p)
    BY <1>6 DEF PipelineEnds
  <1>7. CASE PipelineRaises(p)
    BY <1>7 DEF PipelineRaises
  <1>8. QED
    BY <1>1, <1>2, <1>3, <1>9, <1>4, <1>5, <1>6, <1>7 DEF PipelineStep

Handlers ==
    \/ \E j \in ManualJobs, s \in Songs : Accept(j, s)
    \/ \E j \in Jobs : RemoveFile(j)
    \/ PutAccepted \/ MarkIgnored \/ DeleteRaises

\* The HTTP handlers.
LEMMA HandlerType == ASSUME TypeOK, Handlers PROVE TypeOK'
  <1> USE LifecycleAssumption, StoreAssumption
      DEF TypeOK, durable, worker, pipeline, reload, handlers, bounds, Fault
  <1>1. ASSUME NEW j \in ManualJobs, NEW s \in Songs, Accept(j, s) PROVE TypeOK'
    <2>1. db' \in Table
      BY <1>1, MarkPendingEffect DEF Accept, MarkPendingIfNotDuplicate
    <2>2. QED
      BY <1>1, <2>1 DEF Accept, MarkPendingIfNotDuplicate
  <1>2. ASSUME NEW j \in Jobs, RemoveFile(j) PROVE TypeOK'
    BY <1>2 DEF RemoveFile
  <1>3. CASE PutAccepted
    BY <1>3, AppendItems DEF PutAccepted, Enqueue
  <1>4. CASE MarkIgnored
    <2>1. db' \in Table
      BY <1>4, MarkIgnoredEffect DEF MarkIgnored
    <2>2. QED
      BY <1>4, <2>1 DEF MarkIgnored
  <1>5. CASE DeleteRaises
    BY <1>5 DEF DeleteRaises
  <1>6. QED
    BY <1>1, <1>2, <1>3, <1>4, <1>5 DEF Handlers

\* Boot, recovery, stop and exit.
LEMMA ProcessType ==
    ASSUME TypeOK, BootStep \/ StopSignal \/ Exit
    PROVE  TypeOK'
  <1> USE LifecycleAssumption, StoreAssumption
      DEF TypeOK, durable, worker, pipeline, reload, handlers, bounds, Phases, LBJobs
  <1>1. CASE Boot
    BY <1>1 DEF Boot
  <1>2. CASE ReadPending
    BY <1>2 DEF ReadPending, PendingJobs
  <1>3. ASSUME NEW j \in Jobs, RequeuePending(j) PROVE TypeOK'
    BY <1>3, AppendItems DEF RequeuePending, Enqueue
  <1>4. ASSUME NEW j \in Jobs, FailInterrupted(j) PROVE TypeOK'
    <2>1. db' \in Table
      BY <1>4, MarkFailedEffect DEF FailInterrupted
    <2>2. QED
      BY <1>4, <2>1 DEF FailInterrupted
  <1>5. CASE RequeueInterrupted
    BY <1>5, AppendItems DEF RequeueInterrupted, Enqueue
  <1>6. CASE ReloadEnds
    BY <1>6 DEF ReloadEnds, Starts
  <1>7. CASE StopSignal
    BY <1>7 DEF StopSignal, WorkerSteps
  <1>8. CASE Exit
    BY <1>8 DEF Exit, Nothing, NobodyHolds, JobLeaves, WorkerSteps
  <1>9. QED
    BY <1>1, <1>2, <1>3, <1>4, <1>5, <1>6, <1>7, <1>8 DEF BootStep

\* Every step of the system preserves TypeOK.
LEMMA TypeStep == ASSUME TypeOK, [Next]_vars PROVE TypeOK'
  <1>1. CASE UNCHANGED vars
    BY <1>1 DEF TypeOK, vars, durable, worker, pipeline, reload, handlers, bounds
  <1>2. CASE Next
    BY <1>2, WorkerType, PipelineType, HandlerType, ProcessType DEF Next, Handlers
  <1>3. QED
    BY <1>1, <1>2

\* TypeOK holds in every reachable state.
THEOREM TypeCorrect == Spec => []TypeOK
  <1>1. TypeOK /\ [Next]_vars => TypeOK'
    BY TypeStep
  <1>2. QED
    BY InitType, <1>1, PTL DEF Spec

-----------------------------------------------------------------------------
(* No accepted work is lost.  NoLostWork alone is not inductive: that the   *)
(* worker's verdict reaches the row needs the row to be there.              *)

IInv == TypeOK /\ CarriedHasRow /\ NoLostWork

\* With no row pending or downloading there is nothing to lose.
LEMMA InitSafe == Init => CarriedHasRow /\ NoLostWork
  BY LifecycleAssumption
     DEF Init, CarriedHasRow, NoLostWork, Carried, Queued, Items, Nothing, NobodyHolds

Elsewhere == <<phase, queue, pipeline, reload, handlers>>

\* A step of the worker on its own job is safe if it keeps the rows, makes no
\* other job owed, and does not turn away from its job while that is owed.
LEMMA OwnJobSafe ==
    ASSUME IInv, UNCHANGED Elsewhere, stranded \subseteq stranded',
           wjob' \in {wjob, NoJob},
           \A i \in Jobs : HasRow(db, i) => HasRow(db', i),
           \A i \in Jobs : Owed(i)' =>
                \/ Owed(i) /\ (i # wjob \/ wpc \in {"info", "scan"})
                \/ i = wjob /\ wjob' = wjob /\ wpc' \notin {"info", "scan"}
                \/ i \in stranded'
    PROVE  CarriedHasRow' /\ NoLostWork'
  <1> USE LifecycleAssumption
      DEF IInv, Elsewhere, pipeline, reload, handlers
  <1>1. \A i \in Jobs : i # wjob => (Carried(i)' <=> Carried(i))
    BY DEF Carried, Queued, TypeOK
  <1>2. \A i \in Jobs : Carried(i)' \/ i = wjob' => Carried(i) \/ i = wjob
    BY <1>1
  <1>3. CarriedHasRow'
    BY <1>2 DEF CarriedHasRow
  <1>4. ASSUME phase' \in {"reload", "up", "stopping"}, NEW i \in Jobs, Owed(i)'
        PROVE  Carried(i)' \/ i \in stranded'
    <2>1. CASE Owed(i) /\ i # wjob
      BY <1>1, <1>4, <2>1 DEF NoLostWork
    <2>2. CASE Owed(i) /\ i = wjob /\ wpc \in {"info", "scan"}
      BY <1>4, <2>2 DEF NoLostWork, Carried, Queued
    <2>3. CASE i = wjob /\ wjob' = wjob /\ wpc' \notin {"info", "scan"}
      BY <2>3 DEF Carried
    <2>4. QED
      BY <1>4, <2>1, <2>2, <2>3
  <1>5. QED
    BY <1>3, <1>4 DEF NoLostWork

\* The worker takes the head of the queue, and leaves a job with a verdict.
LEMMA WorkerSafe ==
    ASSUME IInv, WorkerStep \/ JobRaises \/ JobRaisesTwice
    PROVE  CarriedHasRow' /\ NoLostWork'
  <1>1. CASE TakeJob
    <2>1. /\ wjob = NoJob /\ wjob' = Head(queue) /\ wpc' = "check"
          /\ queue \in Seq(Jobs) /\ queue # <<>> /\ queue' = Tail(queue)
          /\ UNCHANGED <<db, phase, phold, apiPut, rtodo, rcut, rhold, stranded>>
      BY <1>1 DEF IInv, TypeOK, TakeJob, WorkerMoves, durable, pipeline, reload, handlers
    <2>2. Items(queue) = Items(queue') \cup {wjob'} /\ wjob' \in Jobs
      BY <2>1, TailItems
    <2>3. \A i \in Jobs : Carried(i)' <=> Carried(i)
      BY <2>1, <2>2, LifecycleAssumption DEF Carried, Queued
    <2>4. Carried(wjob')
      BY <2>2 DEF Carried, Queued
    <2>5. QED
      BY <2>1, <2>2, <2>3, <2>4 DEF IInv, CarriedHasRow, NoLostWork, Owed
  <1>2. wpc \notin {"idle", "last"} =>
           /\ wjob \in Jobs /\ HasRow(db, wjob) /\ db \in Table
           /\ wpc \in {"skip", "record"} => wpath \in Paths
    BY DEF IInv, TypeOK, CarriedHasRow
  <1> USE <1>2
      DEF WorkerMoves, WorkerAlive, WorkerSteps, JobLeaves, durable, worker, pipeline, reload,
          handlers, Elsewhere, HasRow, Owed
  <1>3. CASE CheckExisting
    BY <1>3, OwnJobSafe DEF CheckExisting
  <1>4. CASE SkipDownload
    BY <1>4, OwnJobSafe, MarkDoneEffect DEF SkipDownload
  <1>5. CASE BeginDownload
    BY <1>5, OwnJobSafe, MarkDownloadingEffect DEF BeginDownload
  <1>6. CASE Downloaded
    BY <1>6, OwnJobSafe DEF Downloaded
  <1>7. CASE DownloadFails
    BY <1>7, OwnJobSafe, MarkFailedEffect DEF DownloadFails
  <1>8. CASE Import
    BY <1>8, OwnJobSafe DEF Import
  <1>9. CASE ImportFails
    BY <1>9, OwnJobSafe, MarkFailedEffect DEF ImportFails
  <1>10. CASE RecordDone
    BY <1>10, OwnJobSafe, MarkDoneEffect DEF RecordDone
  <1>11. CASE RecordInfo
    BY <1>11, OwnJobSafe, UpdateTrackInfoEffect DEF RecordInfo
  <1>12. CASE ScanEnds
    BY <1>12, OwnJobSafe DEF ScanEnds
  <1>13. CASE JobRaises
    BY <1>13, OwnJobSafe, MarkFailedEffect DEF JobRaises
  <1>14. CASE JobRaisesTwice
    BY <1>14, OwnJobSafe DEF JobRaisesTwice
  <1>15. CASE LastGetTimesOut
    <2>1. wjob = NoJob
      BY <1>15 DEF LastGetTimesOut, IInv, TypeOK
    <2>2. QED
      BY <1>15, <2>1, OwnJobSafe, LifecycleAssumption DEF LastGetTimesOut
  <1>16. QED
    BY <1>1, <1>3, <1>4, <1>5, <1>6, <1>7, <1>8, <1>9, <1>10, <1>11, <1>12, <1>13,
       <1>14, <1>15 DEF WorkerStep

\* A step of another thread is safe if it keeps the rows, keeps carrying what
\* is still owed, and has a row for whatever it newly carries.
LEMMA OtherThreadSafe ==
    ASSUME IInv, UNCHANGED <<wjob, stranded>>,
           phase' \in {"reload", "up", "stopping"} => phase \in {"reload", "up", "stopping"},
           \A i \in Jobs : HasRow(db, i) => HasRow(db', i),
           \A i \in Jobs : Carried(i)' => Carried(i) \/ HasRow(db', i),
           \A i \in Jobs : Owed(i)' => Carried(i)' \/ (Owed(i) /\ (Carried(i) => Carried(i)'))
    PROVE  CarriedHasRow' /\ NoLostWork'
  BY DEF IInv, CarriedHasRow, NoLostWork, worker

\* Pipeline threads plan, insert and enqueue without dropping what they hold.
LEMMA PipelineSafe ==
    ASSUME IInv, NEW p \in Pipes,
           StartPipeline(p) \/ PipelineStep(p) \/ PipelineRaises(p)
    PROVE  CarriedHasRow' /\ NoLostWork'
  <1> USE LifecycleAssumption DEF durable, worker, reload, handlers, Carried, Owed, HasRow
  <1>1. ASSUME UNCHANGED <<durable, phase, queue, worker, phold, reload, handlers, stranded>>
        PROVE  CarriedHasRow' /\ NoLostWork'
    BY <1>1, OtherThreadSafe DEF Queued
  <1>2. CASE StartPipeline(p) \/ GatherRetryable(p) \/ PipelineEnds(p) \/ PipelineRaises(p)
    BY <1>1, <1>2 DEF StartPipeline, Starts, GatherRetryable, PipelineEnds, PipelineRaises
  <1>3. ASSUME NEW j \in Jobs, FilterTrack(p, j) PROVE CarriedHasRow' /\ NoLostWork'
    BY <1>1, <1>3 DEF FilterTrack
  <1>4. ASSUME NEW j \in Jobs, PlanTrack(p, j) PROVE CarriedHasRow' /\ NoLostWork'
    <2>1. /\ phold[p] = NoJob /\ phold' = [phold EXCEPT ![p] = j]
          /\ phold \in [Pipes -> Jobs \cup {NoJob}] /\ db \in Table
          /\ UNCHANGED <<phase, queue, worker, reload, handlers, stranded>>
      BY <1>4 DEF PlanTrack, IInv, TypeOK
    <2>2. PICK s \in Songs : db' = MarkPending(db, j, s)
      BY <1>4 DEF PlanTrack
    <2>3. \A i \in Jobs : db'[i].status =
                            IF i = j /\ ~HasRow(db, j) THEN "pending" ELSE db[i].status
      BY <2>1, <2>2, MarkPendingEffect
    <2>4. \A i \in Jobs : Carried(i)' <=> Carried(i) \/ i = j
      BY <2>1 DEF Queued
    <2>5. QED
      BY <2>1, <2>3, <2>4, OtherThreadSafe
  <1>7. ASSUME NEW j \in Jobs, SkipTrack(p, j) PROVE CarriedHasRow' /\ NoLostWork'
    <2>0. /\ db \in Table /\ db' = MarkFailed(db, j)
          /\ UNCHANGED <<phase, queue, worker, phold, reload, handlers, stranded>>
      BY <1>7 DEF SkipTrack, IInv, TypeOK
    <2>1. \A i \in Jobs : db'[i].status =
                            IF i = j /\ HasRow(db, j) THEN "failed" ELSE db[i].status
      BY <2>0, MarkFailedEffect
    <2>2. \A i \in Jobs : Carried(i)' <=> Carried(i)
      BY <2>0 DEF Queued
    <2>3. QED
      BY <2>0, <2>1, <2>2, OtherThreadSafe
  <1>5. CASE PutTrack(p)
    <2>1. /\ phold[p] \in Jobs /\ phold' = [phold EXCEPT ![p] = NoJob]
          /\ phold \in [Pipes -> Jobs \cup {NoJob}] /\ queue \in Seq(Jobs)
          /\ queue' = Append(queue, phold[p])
          /\ UNCHANGED <<db, phase, worker, reload, handlers, stranded>>
      BY <1>5 DEF PutTrack, Enqueue, IInv, TypeOK
    <2>2. Queued' = Queued \cup {phold[p]}
      BY <2>1, AppendItems DEF Queued
    <2>3. \A i \in Jobs : Carried(i)' <=> Carried(i)
      BY <2>1, <2>2, LifecycleAssumption
    <2>4. QED
      BY <2>1, <2>3, OtherThreadSafe
  <1>6. QED
    BY <1>2, <1>3, <1>4, <1>5, <1>7 DEF PipelineStep

\* The handlers insert before they enqueue, and a delete makes nothing owed.
LEMMA HandlerSafe == ASSUME IInv, Handlers PROVE CarriedHasRow' /\ NoLostWork'
  <1> USE LifecycleAssumption
      DEF durable, worker, pipeline, reload, handlers, Carried, Owed, HasRow
  <1>1. ASSUME NEW j \in ManualJobs, NEW s \in Songs, Accept(j, s)
        PROVE  CarriedHasRow' /\ NoLostWork'
    <2>1. /\ j \in Jobs /\ db \in Table /\ db' = MarkPending(db, j, s)
          /\ apiPut = NoJob /\ apiPut' = j /\ db[j].status = "none"
          /\ UNCHANGED <<phase, queue, worker, pipeline, reload, stranded>>
      BY <1>1 DEF Accept, LoopIsFree, MarkPendingIfNotDuplicate, IInv, TypeOK
    <2>2. \A i \in Jobs : db'[i].status = IF i = j THEN "pending" ELSE db[i].status
      BY <2>1, MarkPendingEffect
    <2>3. \A i \in Jobs : Carried(i)' <=> Carried(i) \/ i = j
      BY <2>1 DEF Queued
    <2>4. QED
      BY <2>1, <2>2, <2>3, OtherThreadSafe
  <1>2. ASSUME NEW j \in Jobs, RemoveFile(j)
        PROVE  CarriedHasRow' /\ NoLostWork'
    BY <1>2, OtherThreadSafe DEF RemoveFile, Queued
  <1>3. CASE PutAccepted
    <2>1. /\ apiPut \in Jobs /\ apiPut' = NoJob /\ queue \in Seq(Jobs)
          /\ queue' = Append(queue, apiPut)
          /\ UNCHANGED <<db, phase, worker, pipeline, reload, stranded>>
      BY <1>3 DEF PutAccepted, Enqueue, IInv, TypeOK
    <2>2. Queued' = Queued \cup {apiPut}
      BY <2>1, AppendItems DEF Queued
    <2>3. \A i \in Jobs : Carried(i)' <=> Carried(i)
      BY <2>1, <2>2
    <2>4. QED
      BY <2>1, <2>3, OtherThreadSafe
  <1>4. CASE MarkIgnored
    <2>1. /\ db \in Table /\ apiDel \in SUBSET Jobs /\ db' = MarkIgnoredBulk(db, apiDel)
          /\ UNCHANGED <<phase, queue, worker, pipeline, reload, apiPut, stranded>>
      BY <1>4 DEF MarkIgnored, IInv, TypeOK
    <2>2. \A i \in Jobs : db'[i].status =
                 IF i \in apiDel /\ HasRow(db, i) THEN "ignored" ELSE db[i].status
      BY <2>1, MarkIgnoredEffect
    <2>3. QED
      BY <2>1, <2>2, OtherThreadSafe DEF Queued
  <1>5. CASE DeleteRaises
    BY <1>5, OtherThreadSafe DEF DeleteRaises, Queued
  <1>6. QED
    BY <1>1, <1>2, <1>3, <1>4, <1>5 DEF Handlers

\* Recovery takes every owed row in hand, and gives an interrupted one a
\* verdict before it lets it go.
LEMMA ProcessSafe ==
    ASSUME IInv, BootStep \/ StopSignal \/ Exit
    PROVE  CarriedHasRow' /\ NoLostWork'
  <1> USE LifecycleAssumption
      DEF durable, worker, pipeline, reload, handlers, Carried, Owed, HasRow
  <1>1. CASE Boot
    BY <1>1 DEF Boot, IInv, CarriedHasRow, NoLostWork, Queued
  <1>2. CASE ReadPending
    <2>1. /\ rtodo' = {j \in PendingJobs(db) : db[j].status = "pending"}
          /\ rcut' = {j \in PendingJobs(db) : db[j].status = "downloading"}
          /\ UNCHANGED <<db, queue, worker, phold, rhold, apiPut, stranded>>
      BY <1>2 DEF ReadPending
    <2>2. \A j \in Jobs : j \in rtodo' \cup rcut' <=> Owed(j)
      BY <2>1 DEF PendingJobs
    <2>3. QED
      BY <2>1, <2>2 DEF IInv, CarriedHasRow, NoLostWork, Queued
  <1>3. ASSUME NEW j \in Jobs, RequeuePending(j) PROVE CarriedHasRow' /\ NoLostWork'
    <2>1. /\ queue \in Seq(Jobs) /\ queue' = Append(queue, j)
          /\ j \in rtodo /\ rtodo' = rtodo \ {j}
          /\ UNCHANGED <<db, phase, worker, pipeline, rcut, rhold, handlers, stranded>>
      BY <1>3 DEF RequeuePending, Enqueue, IInv, TypeOK
    <2>2. Queued' = Queued \cup {j}
      BY <2>1, AppendItems DEF Queued
    <2>3. \A i \in Jobs : Carried(i)' <=> Carried(i)
      BY <2>1, <2>2
    <2>4. QED
      BY <2>1, <2>3, OtherThreadSafe
  <1>4. ASSUME NEW j \in Jobs, FailInterrupted(j) PROVE CarriedHasRow' /\ NoLostWork'
    <2>1. /\ db \in Table /\ db' = MarkFailed(db, j) /\ rhold = NoJob
          /\ j \in rcut /\ rcut' = rcut \ {j} /\ rhold' \in {NoJob, j}
          /\ UNCHANGED <<phase, queue, worker, pipeline, rtodo, handlers, stranded>>
      BY <1>4 DEF FailInterrupted, IInv, TypeOK
    <2>2. HasRow(db, j)
      BY <2>1 DEF IInv, CarriedHasRow
    <2>3. \A i \in Jobs : db'[i].status = IF i = j THEN "failed" ELSE db[i].status
      BY <2>1, <2>2, MarkFailedEffect
    <2>4. \A i \in Jobs : /\ Carried(i)' => Carried(i)
                          /\ Carried(i) /\ i # j => Carried(i)'
      BY <2>1 DEF Queued
    <2>5. QED
      BY <2>1, <2>3, <2>4, OtherThreadSafe
  <1>5. CASE RequeueInterrupted
    <2>1. /\ rhold \in Jobs /\ rhold' = NoJob /\ queue \in Seq(Jobs)
          /\ queue' = Append(queue, rhold)
          /\ UNCHANGED <<db, phase, worker, pipeline, rtodo, rcut, handlers, stranded>>
      BY <1>5 DEF RequeueInterrupted, Enqueue, IInv, TypeOK
    <2>2. Queued' = Queued \cup {rhold}
      BY <2>1, AppendItems DEF Queued
    <2>3. \A i \in Jobs : Carried(i)' <=> Carried(i)
      BY <2>1, <2>2
    <2>4. QED
      BY <2>1, <2>3, OtherThreadSafe
  <1>6. CASE ReloadEnds
    BY <1>6, OtherThreadSafe DEF ReloadEnds, Starts, Queued
  <1>7. CASE StopSignal
    BY <1>7, OtherThreadSafe DEF StopSignal, LoopIsFree, Queued
  <1>8. CASE Exit
    BY <1>8 DEF Exit, JobLeaves, NobodyHolds, CarriedHasRow, NoLostWork, Queued, Items
  <1>9. QED
    BY <1>1, <1>2, <1>3, <1>4, <1>5, <1>6, <1>7, <1>8 DEF BootStep

\* The inductive invariant.
THEOREM InductiveInvariant == Spec => []IInv
  <1>1. Init => IInv
    BY InitType, InitSafe DEF IInv
  <1>2. IInv /\ [Next]_vars => IInv'
    <2> SUFFICES ASSUME IInv, [Next]_vars PROVE CarriedHasRow' /\ NoLostWork'
      <3>1. IInv /\ [Next]_vars => TypeOK'
        BY TypeStep DEF IInv
      <3>2. QED
        BY <3>1 DEF IInv
    <2>1. CASE UNCHANGED vars
      BY <2>1 DEF IInv, CarriedHasRow, NoLostWork, Carried, Queued, Owed, vars,
                  durable, worker, pipeline, reload, handlers, bounds
    <2>2. CASE Next
      BY <2>2, WorkerSafe, PipelineSafe, HandlerSafe, ProcessSafe DEF Next, Handlers
    <2>3. QED
      BY <2>1, <2>2
  <1>3. QED
    BY <1>1, <1>2, PTL DEF Spec

\* No accepted work is lost (worker queue, pipelines, requests, recovery).
THEOREM WorkIsNotLost == Spec => []NoLostWork
  BY InductiveInvariant, PTL DEF IInv

\* Every job queued, in hand or running has its row in state.db.
THEOREM CarriedJobsHaveRows == Spec => []CarriedHasRow
  BY InductiveInvariant, PTL DEF IInv

-----------------------------------------------------------------------------
(* A downloading row is being run.                                          *)

\* The worker may leave only its own job, and only with a verdict.
LEMMA DownloadingOwn ==
    ASSUME DownloadingIsRunning, UNCHANGED <<phase, rcut>>, stranded \subseteq stranded',
           \A i \in Jobs : db'[i].status = "downloading" =>
                \/ db[i].status = "downloading" /\ (i # wjob \/ wpc \in {"info", "scan"})
                \/ i = wjob' /\ wpc' \notin {"info", "scan"}
                \/ i \in stranded'
    PROVE  DownloadingIsRunning'
  BY DEF DownloadingIsRunning

\* The other threads make no row downloading.
LEMMA DownloadingOther ==
    ASSUME DownloadingIsRunning, UNCHANGED <<wjob, stranded>>,
           wpc' \in {"info", "scan"} => wpc = wpc',
           phase \in {"down", "boot"} => phase' \in {"down", "boot"},
           \A i \in Jobs : db'[i].status = "downloading" =>
                db[i].status = "downloading" /\ (i \in rcut => i \in rcut')
    PROVE  DownloadingIsRunning'
  BY DEF DownloadingIsRunning

\* From mark_downloading to mark_done or mark_failed, whichever way the job goes.
LEMMA WorkerDownloading ==
    ASSUME TypeOK, DownloadingIsRunning, WorkerStep \/ JobRaises \/ JobRaisesTwice
    PROVE  DownloadingIsRunning'
  <1>1. /\ db \in Table
        /\ wjob = NoJob \/ wjob \in Jobs
        /\ (wjob = NoJob) <=> (wpc \in {"idle", "last"})
        /\ wpc \in {"skip", "record"} => wpath \in Paths
    BY DEF TypeOK
  <1> USE <1>1, LifecycleAssumption
      DEF WorkerMoves, WorkerAlive, WorkerSteps, JobLeaves, durable, reload, HasRow
  <1>2. CASE TakeJob
    BY <1>2, DownloadingOwn DEF TakeJob
  <1>3. CASE LastGetTimesOut \/ CheckExisting \/ Downloaded \/ Import
    BY <1>3, DownloadingOwn DEF LastGetTimesOut, CheckExisting, Downloaded, Import
  <1>4. CASE SkipDownload \/ RecordDone
    BY <1>4, DownloadingOwn, MarkDoneEffect DEF SkipDownload, RecordDone
  <1>5. CASE BeginDownload
    BY <1>5, DownloadingOwn, MarkDownloadingEffect DEF BeginDownload
  <1>6. CASE DownloadFails \/ ImportFails \/ JobRaises
    BY <1>6, DownloadingOwn, MarkFailedEffect DEF DownloadFails, ImportFails, JobRaises
  <1>7. CASE RecordInfo
    BY <1>7, DownloadingOwn, UpdateTrackInfoEffect DEF RecordInfo
  <1>8. CASE ScanEnds
    BY <1>8, DownloadingOwn DEF ScanEnds
  <1>9. CASE JobRaisesTwice
    BY <1>9, DownloadingOwn DEF JobRaisesTwice
  <1>10. QED
    BY <1>2, <1>3, <1>4, <1>5, <1>6, <1>7, <1>8, <1>9 DEF WorkerStep

\* Pipelines and handlers only create pending rows or ignore existing ones.
LEMMA OthersDownloading ==
    ASSUME TypeOK, DownloadingIsRunning,
           \/ Handlers
           \/ \E p \in Pipes : StartPipeline(p) \/ PipelineStep(p) \/ PipelineRaises(p)
    PROVE  DownloadingIsRunning'
  <1>1. db \in Table /\ apiDel \in SUBSET Jobs
    BY DEF TypeOK
  <1> USE <1>1, LifecycleAssumption DEF durable, worker, reload, handlers, pipeline
  <1>2. ASSUME UNCHANGED <<db, phase, worker, rcut, stranded>> PROVE DownloadingIsRunning'
    BY <1>2, DownloadingOther
  <1>3. ASSUME NEW p \in Pipes,
               StartPipeline(p) \/ GatherRetryable(p) \/ PutTrack(p) \/ PipelineEnds(p)
                 \/ PipelineRaises(p) \/ \E j \in Jobs : FilterTrack(p, j)
        PROVE  DownloadingIsRunning'
    BY <1>2, <1>3 DEF StartPipeline, GatherRetryable, PutTrack, PipelineEnds,
                      PipelineRaises, FilterTrack
  <1>4. ASSUME NEW p \in Pipes, NEW j \in Jobs, PlanTrack(p, j)
        PROVE  DownloadingIsRunning'
    <2>1. PICK s \in Songs : db' = MarkPending(db, j, s)
      BY <1>4 DEF PlanTrack
    <2>2. QED
      BY <1>4, <2>1, MarkPendingEffect, DownloadingOther DEF PlanTrack
  <1>9. ASSUME NEW p \in Pipes, NEW j \in Jobs, SkipTrack(p, j)
        PROVE  DownloadingIsRunning'
    BY <1>9, MarkFailedEffect, DownloadingOther DEF SkipTrack
  <1>5. ASSUME NEW j \in ManualJobs, NEW s \in Songs, Accept(j, s)
        PROVE  DownloadingIsRunning'
    <2>1. db' = MarkPending(db, j, s) /\ j \in Jobs
      BY <1>5 DEF Accept, MarkPendingIfNotDuplicate
    <2>2. QED
      BY <1>5, <2>1, MarkPendingEffect, DownloadingOther DEF Accept
  <1>6. CASE PutAccepted \/ DeleteRaises \/ \E j \in Jobs : RemoveFile(j)
    BY <1>2, <1>6 DEF PutAccepted, DeleteRaises, RemoveFile
  <1>7. CASE MarkIgnored
    BY <1>7, MarkIgnoredEffect, DownloadingOther DEF MarkIgnored
  <1>8. QED
    BY <1>3, <1>4, <1>9, <1>5, <1>6, <1>7 DEF Handlers, PipelineStep

\* Recovery holds every row it found downloading until it has failed it.
LEMMA ProcessDownloading ==
    ASSUME TypeOK, DownloadingIsRunning, BootStep \/ StopSignal \/ Exit
    PROVE  DownloadingIsRunning'
  <1>1. db \in Table
    BY DEF TypeOK
  <1> USE <1>1 DEF durable, worker, reload, pipeline, handlers
  <1>2. CASE Boot \/ RequeueInterrupted \/ ReloadEnds \/ StopSignal
             \/ \E j \in Jobs : RequeuePending(j)
    BY <1>2, DownloadingOther
       DEF Boot, RequeueInterrupted, ReloadEnds, StopSignal, LoopIsFree, RequeuePending
  <1>3. CASE ReadPending
    BY <1>3 DEF ReadPending, PendingJobs, DownloadingIsRunning
  <1>4. ASSUME NEW j \in Jobs, FailInterrupted(j) PROVE DownloadingIsRunning'
    BY <1>4, MarkFailedEffect, DownloadingOther DEF FailInterrupted, HasRow
  <1>5. CASE Exit
    BY <1>5 DEF Exit, DownloadingIsRunning
  <1>6. QED
    BY <1>2, <1>3, <1>4, <1>5 DEF BootStep

\* A row is downloading only while the worker runs that job, recovery is about
\* to fail it, or its last error could not be written.
THEOREM DownloadingRowsAreRunning == Spec => []DownloadingIsRunning
  <1>1. Init => DownloadingIsRunning
    BY DEF Init, DownloadingIsRunning, NoRow
  <1>2. TypeOK /\ DownloadingIsRunning /\ [Next]_vars => DownloadingIsRunning'
    <2>1. ASSUME DownloadingIsRunning, UNCHANGED vars PROVE DownloadingIsRunning'
      BY <2>1 DEF DownloadingIsRunning, vars, durable, worker, reload
    <2>2. QED
      BY <2>1, WorkerDownloading, OthersDownloading, ProcessDownloading DEF Next, Handlers
  <1>3. QED
    BY <1>1, <1>2, TypeCorrect, PTL DEF Spec

-----------------------------------------------------------------------------
(* Settled tracks stay settled.                                             *)

\* It is enough that the job does not get in flight and its row keeps its
\* attempts, and its status unless a delete makes it ignored.
LEMMA SettledKept ==
    ASSUME NEW j \in Jobs, Settled(j), InFlight(j)' => InFlight(j),
           db'[j].status \in {db[j].status, "ignored"},
           db'[j].attempts = db[j].attempts
    PROVE  Settled(j)'
  BY DEF Settled

\* The worker does not have j, and does not find it in the queue.
LEMMA WorkerSettled ==
    ASSUME TypeOK, WorkerStep \/ JobRaises \/ JobRaisesTwice,
           NEW j \in Jobs, Settled(j)
    PROVE  Settled(j)'
  <1>1. ~InFlight(j) /\ j \notin Queued /\ j # wjob
    BY DEF Settled, InFlight, Carried
  <1>2. CASE TakeJob
    <2>1. /\ queue \in Seq(Jobs) /\ queue # <<>> /\ queue' = Tail(queue)
          /\ wjob' = Head(queue)
          /\ UNCHANGED <<db, pipeline, reload, handlers>>
      BY <1>2 DEF TypeOK, TakeJob, durable
    <2>2. j \notin Items(queue') /\ j # wjob'
      BY <1>1, <2>1, TailItems DEF Queued
    <2>3. ~InFlight(j)'
      BY <1>1, <2>1, <2>2 DEF InFlight, Carried, Queued, pipeline, reload, handlers
    <2>4. QED
      BY <2>1, <2>3, SettledKept
  <1>3. ASSUME wjob' \in {wjob, NoJob}, UNCHANGED <<queue, pipeline, reload, handlers>>,
               db'[j].status = db[j].status, db'[j].attempts = db[j].attempts
        PROVE  Settled(j)'
    <2>1. ~InFlight(j)'
      BY <1>1, <1>3, LifecycleAssumption
         DEF InFlight, Carried, Queued, pipeline, reload, handlers
    <2>2. QED
      BY <1>3, <2>1, SettledKept
  <1>4. /\ db \in Table /\ (wpc \notin {"idle", "last"} => wjob \in Jobs)
        /\ wpc \in {"skip", "record"} => wpath \in Paths
    BY DEF TypeOK
  <1> USE <1>1, <1>3, <1>4
      DEF WorkerMoves, WorkerAlive, WorkerSteps, JobLeaves, durable
  <1>5. CASE \/ LastGetTimesOut \/ CheckExisting \/ Downloaded \/ Import
            \/ ScanEnds \/ JobRaisesTwice
    BY <1>5 DEF LastGetTimesOut, CheckExisting, Downloaded, Import, ScanEnds, JobRaisesTwice
  <1>6. CASE SkipDownload \/ RecordDone
    BY <1>6, MarkDoneEffect DEF SkipDownload, RecordDone
  <1>7. CASE BeginDownload
    BY <1>7, MarkDownloadingEffect DEF BeginDownload
  <1>8. CASE DownloadFails \/ ImportFails \/ JobRaises
    BY <1>8, MarkFailedEffect DEF DownloadFails, ImportFails, JobRaises
  <1>9. CASE RecordInfo
    BY <1>9, UpdateTrackInfoEffect DEF RecordInfo
  <1>10. QED
    BY <1>2, <1>5, <1>6, <1>7, <1>8, <1>9 DEF WorkerStep

\* The pipeline's two filters keep j out: is_downloaded and get_retryable.
LEMMA PipelineSettled ==
    ASSUME TypeOK, NEW p \in Pipes,
           StartPipeline(p) \/ PipelineStep(p) \/ PipelineRaises(p),
           NEW j \in Jobs, Settled(j)
    PROVE  Settled(j)'
  <1> USE LifecycleAssumption DEF durable, worker, reload, handlers
  <1>1. /\ ~InFlight(j) /\ HasRow(db, j)
        /\ db \in Table /\ db[j].attempts \in Nat
    BY RowFields DEF Settled, HasRow, TypeOK
  <1>2. CASE StartPipeline(p) \/ PipelineEnds(p) \/ PipelineRaises(p)
    BY <1>1, <1>2, SettledKept
       DEF StartPipeline, Starts, PipelineEnds, PipelineRaises, InFlight, Carried,
           Queued, TypeOK
  <1>3. ASSUME NEW i \in Jobs, FilterTrack(p, i) PROVE Settled(j)'
    <2>1. i = j => IsDownloaded(db, j)
      BY <1>3 DEF FilterTrack, Settled, IsDownloaded, TypeOK, LBJobs
    <2>2. QED
      BY <1>1, <1>3, <2>1, SettledKept
         DEF FilterTrack, InFlight, Carried, Queued, TypeOK
  <1>4. ASSUME NEW i \in Jobs, PlanTrack(p, i) PROVE Settled(j)'
    <2>1. i # j
      BY <1>1, <1>4 DEF PlanTrack, NextTracks, InFlight
    <2>2. PICK s \in Songs : db' = MarkPending(db, i, s)
      BY <1>4 DEF PlanTrack
    <2>3. db'[j] = db[j]
      BY <1>1, <2>2, MarkPendingEffect
    <2>4. QED
      BY <1>1, <1>4, <2>1, <2>3, SettledKept
         DEF PlanTrack, InFlight, Carried, Queued, TypeOK
  <1>8. ASSUME NEW i \in Jobs, SkipTrack(p, i) PROVE Settled(j)'
    <2>1. i # j
      BY <1>1, <1>8 DEF SkipTrack, NextTracks, InFlight
    <2>2. db'[j] = db[j]
      BY <1>1, <1>8, <2>1, MarkFailedEffect
         DEF SkipTrack, MarkFailed, Update, Table
    <2>3. QED
      BY <1>1, <1>8, <2>2, SettledKept DEF SkipTrack, InFlight, Carried, Queued, TypeOK
  <1>5. CASE GatherRetryable(p)
    <2>1. j \notin Retryable(db)
      BY <1>1, StoreAssumption DEF Retryable, Settled
    <2>2. QED
      BY <1>1, <1>5, <2>1, SettledKept
         DEF GatherRetryable, InFlight, Carried, Queued, TypeOK
  <1>6. CASE PutTrack(p)
    <2>1. phold[p] # j /\ phold[p] \in Jobs /\ queue \in Seq(Jobs)
      BY <1>1, <1>6 DEF PutTrack, InFlight, Carried, TypeOK
    <2>2. Queued' = Queued \cup {phold[p]}
      BY <1>6, <2>1, AppendItems DEF PutTrack, Enqueue, Queued
    <2>3. QED
      BY <1>1, <1>6, <2>1, <2>2, SettledKept
         DEF PutTrack, InFlight, Carried, TypeOK
  <1>7. QED
    BY <1>2, <1>3, <1>4, <1>8, <1>5, <1>6 DEF PipelineStep

\* A request draws a fresh id; a delete only makes the row ignored.
LEMMA HandlerSettled ==
    ASSUME TypeOK, Handlers, NEW j \in Jobs, Settled(j)
    PROVE  Settled(j)'
  <1> USE LifecycleAssumption DEF durable, worker, pipeline, reload, handlers
  <1>1. ~InFlight(j) /\ HasRow(db, j) /\ db \in Table
    BY DEF Settled, HasRow, TypeOK
  <1>2. ASSUME NEW i \in ManualJobs, NEW s \in Songs, Accept(i, s) PROVE Settled(j)'
    <2>1. i \in Jobs /\ i # j /\ db' = MarkPending(db, i, s)
      BY <1>1, <1>2 DEF Accept, MarkPendingIfNotDuplicate
    <2>2. db'[j] = db[j]
      BY <1>1, <2>1, MarkPendingEffect
    <2>3. QED
      BY <1>1, <1>2, <2>1, <2>2, SettledKept DEF Accept, InFlight, Carried, Queued
  <1>3. CASE DeleteRaises \/ \E i \in Jobs : RemoveFile(i)
    BY <1>1, <1>3, SettledKept DEF DeleteRaises, RemoveFile, InFlight, Carried, Queued
  <1>4. CASE PutAccepted
    <2>1. apiPut # j /\ apiPut \in Jobs /\ queue \in Seq(Jobs)
      BY <1>1, <1>4 DEF PutAccepted, InFlight, Carried, TypeOK
    <2>2. Queued' = Queued \cup {apiPut}
      BY <1>4, <2>1, AppendItems DEF PutAccepted, Enqueue, Queued
    <2>3. QED
      BY <1>1, <1>4, <2>1, <2>2, SettledKept DEF PutAccepted, InFlight, Carried
  <1>5. CASE MarkIgnored
    <2>1. /\ db'[j].status \in {db[j].status, "ignored"}
          /\ db'[j].attempts = db[j].attempts
      BY <1>1, <1>5, MarkIgnoredEffect DEF MarkIgnored, TypeOK
    <2>2. QED
      BY <1>1, <1>5, <2>1, SettledKept DEF MarkIgnored, InFlight, Carried, Queued
  <1>6. QED
    BY <1>2, <1>3, <1>4, <1>5 DEF Handlers

\* Recovery takes up pending and downloading rows only.
LEMMA ProcessSettled ==
    ASSUME TypeOK, BootStep \/ StopSignal \/ Exit, NEW j \in Jobs, Settled(j)
    PROVE  Settled(j)'
  <1> USE LifecycleAssumption DEF durable, worker, pipeline, reload, handlers
  <1>1. ~InFlight(j) /\ db \in Table
    BY DEF Settled, TypeOK
  <1>2. CASE Boot \/ StopSignal \/ ReloadEnds
    BY <1>1, <1>2, SettledKept
       DEF Boot, StopSignal, ReloadEnds, Starts, InFlight, Carried, Queued
  <1>3. CASE ReadPending
    <2>1. j \notin PendingJobs(db)
      BY DEF Settled, PendingJobs
    <2>2. QED
      BY <1>1, <1>3, <2>1, SettledKept DEF ReadPending, InFlight, Carried, Queued
  <1>4. ASSUME NEW i \in Jobs, RequeuePending(i) PROVE Settled(j)'
    <2>1. i # j /\ queue \in Seq(Jobs)
      BY <1>1, <1>4 DEF RequeuePending, InFlight, Carried, TypeOK
    <2>2. Queued' = Queued \cup {i}
      BY <1>4, <2>1, AppendItems DEF RequeuePending, Enqueue, Queued
    <2>3. QED
      BY <1>1, <1>4, <2>1, <2>2, SettledKept DEF RequeuePending, InFlight, Carried
  <1>5. ASSUME NEW i \in Jobs, FailInterrupted(i) PROVE Settled(j)'
    <2>1. i # j /\ rhold' \in {NoJob, i}
      BY <1>1, <1>5 DEF FailInterrupted, InFlight, Carried
    <2>2. db'[j].status = db[j].status /\ db'[j].attempts = db[j].attempts
      BY <1>1, <1>5, <2>1, MarkFailedEffect DEF FailInterrupted
    <2>3. QED
      BY <1>1, <1>5, <2>1, <2>2, SettledKept
         DEF FailInterrupted, InFlight, Carried, Queued
  <1>6. CASE RequeueInterrupted
    <2>1. rhold # j /\ rhold \in Jobs /\ queue \in Seq(Jobs)
      BY <1>1, <1>6 DEF RequeueInterrupted, InFlight, Carried, TypeOK
    <2>2. Queued' = Queued \cup {rhold}
      BY <1>6, <2>1, AppendItems DEF RequeueInterrupted, Enqueue, Queued
    <2>3. QED
      BY <1>1, <1>6, <2>1, <2>2, SettledKept DEF RequeueInterrupted, InFlight, Carried
  <1>7. CASE Exit
    BY <1>1, <1>7, SettledKept
       DEF Exit, JobLeaves, Nothing, NobodyHolds, InFlight, Carried, Queued, Items
  <1>8. QED
    BY <1>2, <1>3, <1>4, <1>5, <1>6, <1>7 DEF BootStep

\* A finished or deleted track, or a requested one that has used up its attempts,
\* stays so while no copy of it is in flight.
THEOREM SettledTracksStaySettled == Spec => SettledStaysSettled
  <1>1. TypeOK /\ [Next]_vars => [\A j \in Jobs : Settled(j) => Settled(j)']_vars
    BY WorkerSettled, PipelineSettled, HandlerSettled, ProcessSettled DEF Next, Handlers
  <1>2. QED
    BY TypeCorrect, <1>1, PTL DEF Spec, SettledStaysSettled
=============================================================================
