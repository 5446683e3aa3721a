------------------------ MODULE JobRefinementProofs ------------------------
(***************************************************************************)
(* JobLifecycle implements DurableWork, for every value of the constants:  *)
(* initial states map to initial states, and every step of a thread maps   *)
(* to a step of the abstract specification or to a stutter.                *)
(***************************************************************************)
EXTENDS JobLifecycleProofs

\* The refinement mapping of Durable, by name.
St   == [j \in Jobs |-> IF Owed(j) THEN "owed" ELSE db[j].status]
Live == {j \in Jobs : InFlight(j) \/ j \in stranded}
Up   == phase \in {"reload", "up", "stopping"}

-----------------------------------------------------------------------------
(* What the mapping needs beside IInv: a process that has not read the      *)
(* table yet carries nothing, so that recovery starts from an empty set.    *)

NothingInHand ==
    /\ queue = <<>> /\ wpc = "idle" /\ wjob = NoJob
    /\ ppc = [p \in Pipes |-> "off"]
    /\ plan = Nothing /\ retry = Nothing /\ phold = NobodyHolds
    /\ rtodo = {} /\ rcut = {} /\ rhold = NoJob
    /\ apiPut = NoJob /\ apiDel = {}
    /\ stranded = {}

DownIsEmpty == phase \in {"down", "boot"} => NothingInHand

\* Before the reload no thread can move but the one that boots.
LEMMA DownStep == ASSUME TypeOK, DownIsEmpty, [Next]_vars PROVE DownIsEmpty'
  <1> SUFFICES ASSUME phase' \in {"down", "boot"} PROVE NothingInHand'
    BY DEF DownIsEmpty
  <1> USE DEF NothingInHand, durable, worker, pipeline, reload, handlers, bounds
  <1>1. CASE UNCHANGED vars
    BY <1>1 DEF vars, DownIsEmpty, Nothing, NobodyHolds
  <1>2. CASE WorkerStep \/ JobRaises \/ JobRaisesTwice
    <2>1. phase' = phase /\ (wpc # "idle" \/ queue # <<>>)
      BY <1>2 DEF WorkerStep, TakeJob, LastGetTimesOut, CheckExisting, SkipDownload,
           BeginDownload, Downloaded, DownloadFails, Import, ImportFails, RecordDone,
           RecordInfo, ScanEnds, JobRaises, JobRaisesTwice, WorkerMoves, WorkerSteps
    <2>2. QED
      BY <2>1 DEF DownIsEmpty
  <1>3. ASSUME NEW p \in Pipes,
               StartPipeline(p) \/ PipelineStep(p) \/ PipelineRaises(p)
        PROVE  FALSE
    <2>1. phase' = phase /\ (ppc[p] # "off" \/ phold[p] # NoJob \/ phase \in {"up", "stopping"})
      BY <1>3 DEF StartPipeline, PipelineStep, PipelineRaises, FilterTrack, PlanTrack, SkipTrack,
           GatherRetryable, PutTrack, PipelineEnds
    <2>2. QED
      BY <2>1 DEF DownIsEmpty, NobodyHolds
  <1>4. CASE Handlers
    <2>1. phase' = phase /\ (phase = "up" \/ apiPut # NoJob \/ apiDel # {})
      BY <1>4 DEF Handlers, Accept, LoopIsFree, RemoveFile, PutAccepted, MarkIgnored,
           DeleteRaises
    <2>2. QED
      BY <2>1 DEF DownIsEmpty
  <1>5. CASE Boot
    BY <1>5 DEF Boot, DownIsEmpty, Nothing, NobodyHolds
  <1>6. CASE Exit
    BY <1>6 DEF Exit, JobLeaves, Nothing, NobodyHolds
  <1>7. CASE StopSignal \/ (BootStep /\ ~Boot)
    BY <1>7 DEF StopSignal, BootStep, ReadPending, RequeueInterrupted, ReloadEnds,
         RequeuePending, FailInterrupted
  <1>8. QED
    BY <1>1, <1>2, <1>3, <1>4, <1>5, <1>6, <1>7 DEF Next, Handlers, BootStep

\* A thread that is not enqueueing has no retry list from an earlier run.
FilteringHasNoRetry == \A p \in Pipes : ppc[p] # "enqueue" => retry[p] = {}

\* The lists of retries are filled and emptied by their own thread only.
LEMMA RetryStep ==
    ASSUME TypeOK, FilteringHasNoRetry, [Next]_vars
    PROVE  FilteringHasNoRetry'
  <1> USE DEF TypeOK, FilteringHasNoRetry, durable, worker, pipeline, reload, handlers, bounds
  <1>1. CASE UNCHANGED <<ppc, retry>>
    BY <1>1
  <1>2. ASSUME NEW p \in Pipes,
               StartPipeline(p) \/ PipelineStep(p) \/ PipelineRaises(p)
        PROVE  FilteringHasNoRetry'
    BY <1>2 DEF StartPipeline, Starts, PipelineStep, PipelineRaises, FilterTrack, PlanTrack, SkipTrack,
         GatherRetryable, PutTrack, PipelineEnds
  <1>3. CASE ReloadEnds
    BY <1>3 DEF ReloadEnds, Starts
  <1>4. CASE Exit
    BY <1>4 DEF Exit, Nothing
  <1>5. CASE Handlers \/ StopSignal \/ (BootStep /\ ~ReloadEnds)
    <2>1. UNCHANGED <<ppc, retry>>
      BY <1>5 DEF Handlers, Accept, RemoveFile, PutAccepted, MarkIgnored, DeleteRaises,
           StopSignal, BootStep, Boot, ReadPending, RequeueInterrupted, RequeuePending,
           FailInterrupted
    <2>2. QED
      BY <1>1, <2>1
  <1>6. CASE WorkerStep \/ JobRaises \/ JobRaisesTwice
    <2>1. UNCHANGED <<ppc, retry>>
      BY <1>6 DEF WorkerStep, TakeJob, LastGetTimesOut, CheckExisting, SkipDownload,
           BeginDownload, Downloaded, DownloadFails, Import, ImportFails, RecordDone,
           RecordInfo, ScanEnds, JobRaises, JobRaisesTwice
    <2>2. QED
      BY <1>1, <2>1
  <1>7. QED
    BY <1>1, <1>2, <1>3, <1>4, <1>5, <1>6 DEF Next, Handlers, BootStep, vars

RInv == IInv /\ DownIsEmpty /\ FilteringHasNoRetry

\* The invariant under which every step refines a step of DurableWork.
LEMMA RefinementInvariant == Spec => []RInv
  <1>1. Init => DownIsEmpty
    BY DEF Init, DownIsEmpty, NothingInHand
  <1>2. TypeOK /\ DownIsEmpty /\ [Next]_vars => DownIsEmpty'
    BY DownStep
  <1>3. Init => FilteringHasNoRetry
    BY DEF Init, FilteringHasNoRetry, Nothing
  <1>4. TypeOK /\ FilteringHasNoRetry /\ [Next]_vars => FilteringHasNoRetry'
    BY RetryStep
  <1>5. QED
    BY <1>1, <1>2, <1>3, <1>4, TypeCorrect, InductiveInvariant, PTL DEF Spec, RInv

-----------------------------------------------------------------------------
(* The forms an abstract step can take, in the words of the mapping.        *)

\* Nothing the abstract specification sees has changed.
LEMMA AsStutter ==
    ASSUME UNCHANGED <<St, Live, Up>>
    PROVE  [Durable!Next]_(Durable!vars)
  BY DEF Durable!vars, St, Live, Up

\* Jobs are taken up.
LEMMA AsTakeUp ==
    ASSUME Up, Up', St' = St, NEW S \in SUBSET Jobs, Live' = Live \cup S,
           \A j \in S : St[j] \in {"none", "failed"}
    PROVE  [Durable!Next]_(Durable!vars)
  <1>1. Durable!TakeUp(S)
    BY DEF Durable!TakeUp, St, Live, Up
  <1>2. QED
    BY <1>1 DEF Durable!Next

\* Jobs nobody is owed an answer about are let go.
LEMMA AsLetGo ==
    ASSUME Up, Up', St' = St, NEW S \in SUBSET Live, Live' = Live \ S,
           \A j \in S : St[j] # "owed"
    PROVE  [Durable!Next]_(Durable!vars)
  <1>1. Durable!LetGo(S) /\ S \in SUBSET Jobs
    BY DEF Durable!LetGo, St, Live, Up
  <1>2. QED
    BY <1>1 DEF Durable!Next

\* One job becomes owed: a request, or work on a live job.
LEMMA AsOwed ==
    ASSUME Up, Up', NEW j \in Jobs, St' = [St EXCEPT ![j] = "owed"],
           \/ j \in Live /\ Live' = Live
           \/ St[j] = "none" /\ Live' = Live \cup {j}
    PROVE  [Durable!Next]_(Durable!vars)
  <1>1. CASE j \in Live /\ Live' = Live
    <2>1. Durable!Work(j)
      BY <1>1 DEF Durable!Work, St, Live, Up
    <2>2. QED
      BY <2>1 DEF Durable!Next
  <1>2. CASE St[j] = "none" /\ Live' = Live \cup {j}
    <2>1. Durable!Accept(j)
      BY <1>2 DEF Durable!Accept, St, Live, Up
    <2>2. QED
      BY <2>1 DEF Durable!Next
  <1>3. QED
    BY <1>1, <1>2

\* A live job gets a verdict.
LEMMA AsSettle ==
    ASSUME Up, Up', NEW j \in Jobs, NEW v \in {"done", "failed"},
           St' = [St EXCEPT ![j] = v], St[j] # "none",
           j \in Live, Live' \in {Live, Live \ {j}}
    PROVE  [Durable!Next]_(Durable!vars)
  <1>1. Durable!Settle(j, v)
    BY DEF Durable!Settle, St, Live, Up
  <1>2. QED
    BY <1>1 DEF Durable!Next, Durable!Verdicts

\* Rows are deleted by the user.
LEMMA AsDelete ==
    ASSUME Up, Up', NEW S \in SUBSET Jobs, Live' = Live, \A j \in S : St[j] # "none",
           St' = [j \in Jobs |-> IF j \in S THEN "ignored" ELSE St[j]]
    PROVE  [Durable!Next]_(Durable!vars)
  <1>1. Durable!Delete(S)
    BY DEF Durable!Delete, St, Live, Up
  <1>2. QED
    BY <1>1 DEF Durable!Next

\* The process exits: nothing is taken care of any more.
LEMMA AsCrash ==
    ASSUME ~Up', St' = St, Live' = {}
    PROVE  [Durable!Next]_(Durable!vars)
  <1>1. Durable!Crash
    BY DEF Durable!Crash, St, Live, Up
  <1>2. QED
    BY <1>1 DEF Durable!Next

\* The table has been read again: what is owed, and nothing else, is taken care of.
LEMMA AsRecover ==
    ASSUME ~Up, Up', St' = St, Live' = {j \in Jobs : St[j] = "owed"}
    PROVE  [Durable!Next]_(Durable!vars)
  <1>1. Durable!Recover
    BY DEF Durable!Recover, St, Live, Up
  <1>2. QED
    BY <1>1 DEF Durable!Next

\* A statement that leaves every status alone is invisible.
LEMMA SameStatuses ==
    ASSUME \A i \in Jobs : db'[i].status = db[i].status
    PROVE  St' = St
  BY DEF St, Owed

\* A statement that gives j the status v changes the abstract state of j only.
LEMMA NewStatus ==
    ASSUME NEW j \in Jobs, NEW v,
           \A i \in Jobs : db'[i].status = IF i = j THEN v ELSE db[i].status
    PROVE  St' = [St EXCEPT ![j] = IF v \in {"pending", "downloading"} THEN "owed" ELSE v]
  BY DEF St, Owed

-----------------------------------------------------------------------------
(* The worker.                                                              *)

\* As long as the worker keeps its job, the same jobs are taken care of.
LEMMA WorkerKeepsLive ==
    ASSUME UNCHANGED <<queue, wjob, pipeline, reload, handlers>>,
           stranded' = stranded \/ (stranded' = stranded \cup {wjob} /\ wjob \in Jobs)
    PROVE  Live' = Live
  BY DEF Live, InFlight, Carried, Queued, pipeline, reload, handlers

\* When it leaves its job, that job may still be taken care of by others.
LEMMA WorkerLeavesLive ==
    ASSUME UNCHANGED <<queue, pipeline, reload, handlers, stranded>>,
           wjob \in Jobs, wjob' = NoJob
    PROVE  /\ Live' \in {Live, Live \ {wjob}}
           /\ wpc \in {"info", "scan"} /\ Carried(wjob) => Live' = Live
  <1>1. \A i \in Jobs : i # wjob => (i \in Live' <=> i \in Live)
    BY LifecycleAssumption DEF Live, InFlight, Carried, Queued, pipeline, reload, handlers
  <1>2. wjob \in Live
    BY DEF Live, InFlight
  <1>3. Live \subseteq Jobs /\ Live' \subseteq Jobs
    BY DEF Live
  <1>4. wpc \in {"info", "scan"} /\ Carried(wjob) => wjob \in Live'
    BY DEF Live, InFlight, Carried, Queued, pipeline, reload, handlers
  <1>5. QED
    BY <1>1, <1>2, <1>3, <1>4

\* A step of run_download_job is a Work, a Settle, a LetGo or a stutter.
LEMMA WorkerRefines ==
    ASSUME RInv, WorkerStep \/ JobRaises \/ JobRaisesTwice
    PROVE  [Durable!Next]_(Durable!vars)
  <1>1. phase' = phase /\ (wpc # "idle" \/ queue # <<>>) /\ phase # "down"
    BY DEF WorkerStep, TakeJob, LastGetTimesOut, CheckExisting, SkipDownload,
         BeginDownload, Downloaded, DownloadFails, Import, ImportFails, RecordDone,
         RecordInfo, ScanEnds, JobRaises, JobRaisesTwice, WorkerMoves, WorkerAlive,
         WorkerSteps
  <1>2. Up /\ Up' /\ UNCHANGED Up
    BY <1>1 DEF Up, RInv, IInv, TypeOK, Phases, DownIsEmpty, NothingInHand
  <1>3. /\ db \in Table /\ queue \in Seq(Jobs)
        /\ wpc \in {"skip", "record"} => wpath \in Paths
        /\ wpc \notin {"idle", "last"} =>
              wjob \in Jobs /\ HasRow(db, wjob) /\ wjob \in Live /\ St[wjob] # "none"
    BY DEF RInv, IInv, TypeOK, CarriedHasRow, Live, InFlight, St, Owed, HasRow
  <1>4. CASE TakeJob
    <2>1. /\ wjob = NoJob /\ wjob' = Head(queue) /\ queue # <<>> /\ queue' = Tail(queue)
          /\ UNCHANGED <<db, plan, retry, phold, apiPut, rtodo, rcut, rhold, stranded>>
          /\ wpc' = "check"
      BY <1>4 DEF RInv, IInv, TypeOK, TakeJob, WorkerMoves, durable, pipeline, reload, handlers
    <2>2. Items(queue) = Items(queue') \cup {wjob'} /\ wjob' \in Jobs
      BY <1>3, <2>1, TailItems
    <2>3. \A i \in Jobs : InFlight(i)' <=> InFlight(i)
      BY <2>1, <2>2, LifecycleAssumption DEF InFlight, Carried, Queued
    <2>4. Live' = Live /\ St' = St
      BY <2>1, <2>3 DEF Live, St, Owed
    <2>5. QED
      BY <1>2, <2>4, AsStutter
  <1> USE <1>3 DEF WorkerMoves, WorkerAlive, WorkerSteps, JobLeaves, durable, HasRow
  <1>5. CASE LastGetTimesOut \/ CheckExisting \/ Downloaded \/ Import \/ RecordInfo
    <2>1. UNCHANGED <<queue, wjob, pipeline, reload, handlers, stranded>>
      BY <1>5 DEF LastGetTimesOut, CheckExisting, Downloaded, Import, RecordInfo
    <2>2. \A i \in Jobs : db'[i].status = db[i].status
      BY <1>5, UpdateTrackInfoEffect
         DEF LastGetTimesOut, CheckExisting, Downloaded, Import, RecordInfo
    <2>3. QED
      BY <1>2, <2>1, <2>2, SameStatuses, WorkerKeepsLive, AsStutter
  <1>6. CASE BeginDownload
    <2>1. /\ UNCHANGED <<queue, wjob, pipeline, reload, handlers, stranded>>
          /\ wjob \in Jobs
          /\ \A i \in Jobs : db'[i].status = IF i = wjob THEN "downloading" ELSE db[i].status
      BY <1>6, MarkDownloadingEffect DEF BeginDownload
    <2>2. St' = [St EXCEPT ![wjob] = "owed"]
      BY <2>1, NewStatus
    <2>3. QED
      BY <1>2, <1>6, <2>1, <2>2, WorkerKeepsLive, AsOwed DEF BeginDownload
  <1>7. CASE SkipDownload \/ RecordDone
    <2>1. /\ UNCHANGED <<queue, wjob, pipeline, reload, handlers, stranded>>
          /\ wjob \in Jobs
          /\ \A i \in Jobs : db'[i].status = IF i = wjob THEN "done" ELSE db[i].status
      BY <1>7, MarkDoneEffect DEF SkipDownload, RecordDone
    <2>2. St' = [St EXCEPT ![wjob] = "done"]
      BY <2>1, NewStatus
    <2>3. QED
      BY <1>2, <1>7, <2>1, <2>2, WorkerKeepsLive, AsSettle DEF SkipDownload, RecordDone
  <1>8. CASE DownloadFails \/ ImportFails \/ JobRaises
    <2>1. /\ UNCHANGED <<queue, pipeline, reload, handlers, stranded>>
          /\ wjob \in Jobs /\ wjob' = NoJob
          /\ \A i \in Jobs : db'[i].status = IF i = wjob THEN "failed" ELSE db[i].status
      BY <1>8, MarkFailedEffect DEF DownloadFails, ImportFails, JobRaises
    <2>2. St' = [St EXCEPT ![wjob] = "failed"]
      BY <2>1, NewStatus
    <2>3. QED
      BY <1>2, <1>8, <2>1, <2>2, WorkerLeavesLive, AsSettle
         DEF DownloadFails, ImportFails, JobRaises
  <1>9. CASE ScanEnds
    <2>1. /\ UNCHANGED <<db, queue, pipeline, reload, handlers, stranded>>
          /\ wjob \in Jobs /\ wjob' = NoJob /\ wpc = "scan"
      BY <1>9 DEF ScanEnds
    <2>2. St' = St
      BY <2>1, SameStatuses
    <2>3. CASE Live' = Live
      BY <1>2, <2>2, <2>3, AsStutter
    <2>4. CASE Live' # Live
      <3>1. Live' = Live \ {wjob} /\ ~Carried(wjob) /\ wjob \notin stranded
        BY <2>1, <2>4, WorkerLeavesLive, <1>3 DEF Live
      <3>2. ~Owed(wjob)
        BY <1>2, <2>1, <3>1 DEF RInv, IInv, NoLostWork, Up
      <3>3. St[wjob] # "owed"
        BY <1>3, <2>1, <3>2, RowFields DEF St, Statuses
      <3>4. {wjob} \in SUBSET Live
        BY <1>3, <2>1
      <3>5. QED
        BY <1>2, <2>2, <3>1, <3>3, <3>4, AsLetGo
    <2>5. QED
      BY <2>3, <2>4
  <1>10. CASE JobRaisesTwice
    <2>1. /\ UNCHANGED <<db, queue, pipeline, reload, handlers>>
          /\ wjob \in Jobs /\ wjob' = NoJob /\ stranded' = stranded \cup {wjob}
      BY <1>10 DEF JobRaisesTwice
    <2>2. \A i \in Jobs : i # wjob => (i \in Live' <=> i \in Live)
      BY <2>1, LifecycleAssumption
         DEF Live, InFlight, Carried, Queued, pipeline, reload, handlers
    <2>3. wjob \in Live /\ wjob \in Live'
      BY <2>1 DEF Live, InFlight
    <2>4. Live' = Live
      BY <2>2, <2>3 DEF Live
    <2>5. QED
      BY <1>2, <2>1, <2>4, SameStatuses, AsStutter
  <1>11. QED
    BY <1>4, <1>5, <1>6, <1>7, <1>8, <1>9, <1>10 DEF WorkerStep

-----------------------------------------------------------------------------
(* Pipelines.                                                               *)

\* Filtering and gathering take up jobs, a raise lets them go, mark_pending works
\* on a job that was planned, and the rest is invisible.
LEMMA PipelineRefines ==
    ASSUME RInv, NEW p \in Pipes,
           StartPipeline(p) \/ PipelineStep(p) \/ PipelineRaises(p)
    PROVE  [Durable!Next]_(Durable!vars)
  <1>1. phase' = phase /\ (ppc[p] # "off" \/ phold[p] # NoJob \/ phase \in {"up", "stopping"})
        /\ phase # "down"
    BY DEF StartPipeline, PipelineStep, PipelineRaises, FilterTrack, PlanTrack, SkipTrack,
         GatherRetryable, PutTrack, PipelineEnds
  <1>2. Up /\ Up' /\ UNCHANGED Up
    BY <1>1 DEF Up, RInv, IInv, TypeOK, Phases, DownIsEmpty, NothingInHand, NobodyHolds
  <1>3. /\ db \in Table /\ queue \in Seq(Jobs)
        /\ plan \in [Pipes -> SUBSET LBJobs] /\ retry \in [Pipes -> SUBSET Jobs]
        /\ phold \in [Pipes -> Jobs \cup {NoJob}]
    BY DEF RInv, IInv, TypeOK
  <1>4. \A j \in Jobs : St[j] = IF Owed(j) THEN "owed" ELSE db[j].status
    BY DEF St
  <1> USE <1>3, LifecycleAssumption DEF durable, worker, reload, handlers, LBJobs
  <1>5. CASE StartPipeline(p) \/ PipelineEnds(p)
    <2>1. UNCHANGED <<db, queue, worker, plan, retry, phold, reload, handlers, stranded>>
      BY <1>5 DEF StartPipeline, Starts, PipelineEnds
    <2>2. Live' = Live
      BY <2>1 DEF Live, InFlight, Carried, Queued
    <2>3. QED
      BY <1>2, <2>1, <2>2, SameStatuses, AsStutter
  <1>6. ASSUME NEW j \in Jobs, FilterTrack(p, j) PROVE [Durable!Next]_(Durable!vars)
    <2>1. UNCHANGED <<db, queue, worker, retry, phold, reload, handlers, stranded>>
      BY <1>6 DEF FilterTrack
    <2>2. CASE IsDownloaded(db, j)
      <3>1. Live' = Live
        BY <1>6, <2>1, <2>2 DEF FilterTrack, Live, InFlight, Carried, Queued
      <3>2. QED
        BY <1>2, <2>1, <3>1, SameStatuses, AsStutter
    <2>3. CASE ~IsDownloaded(db, j)
      <3>1. plan' = [plan EXCEPT ![p] = @ \cup {j}]
        BY <1>6, <2>3 DEF FilterTrack
      <3>2. \A i \in Jobs : InFlight(i)' <=> (InFlight(i) \/ i = j)
        BY <2>1, <3>1 DEF InFlight, Carried, Queued
      <3>3. Live' = Live \cup {j}
        BY <2>1, <3>2 DEF Live
      <3>4. St[j] \in {"none", "failed"}
        BY <1>4, <2>3, RowFields DEF IsDownloaded, Owed, Statuses
      <3>5. St' = St
        BY <2>1, SameStatuses
      <3>6. {j} \in SUBSET Jobs /\ \A i \in {j} : St[i] \in {"none", "failed"}
        BY <3>4
      <3>7. QED
        BY <1>2, <3>3, <3>5, <3>6, AsTakeUp
    <2>4. QED
      BY <2>2, <2>3
  <1>7. CASE GatherRetryable(p)
    <2> DEFINE again == Retryable(db) \ plan[p]
    <2>1. /\ UNCHANGED <<db, queue, worker, plan, phold, reload, handlers, stranded>>
          /\ retry' = [retry EXCEPT ![p] = again]
      BY <1>7 DEF GatherRetryable
    <2>2. again \subseteq Jobs /\ \A j \in again : St[j] = "failed"
      BY <1>4 DEF Retryable, Owed
    <2> HIDE DEF again
    <2>3. CASE retry[p] = {}
      <3>1. \A i \in Jobs : InFlight(i)' <=> (InFlight(i) \/ i \in again)
        BY <2>1, <2>3 DEF InFlight, Carried, Queued
      <3>2. Live' = Live \cup again
        BY <2>1, <2>2, <3>1 DEF Live
      <3>3. St' = St
        BY <2>1, SameStatuses
      <3>4. QED
        BY <1>2, <2>2, <3>2, <3>3, AsTakeUp
    <2>4. QED
      BY <2>3, <1>7 DEF RInv, FilteringHasNoRetry, GatherRetryable
  <1>8. ASSUME NEW j \in Jobs, PlanTrack(p, j) PROVE [Durable!Next]_(Durable!vars)
    <2>1. /\ UNCHANGED <<queue, worker, reload, handlers, stranded>>
          /\ retry' = [retry EXCEPT ![p] = @ \ {j}] /\ plan' = [plan EXCEPT ![p] = @ \ {j}]
          /\ phold' = [phold EXCEPT ![p] = j] /\ phold[p] = NoJob
          /\ j \in retry[p] \cup plan[p]
      BY <1>8 DEF PlanTrack, NextTracks
    <2>2. \A i \in Jobs : InFlight(i)' <=> InFlight(i)
      BY <2>1 DEF InFlight, Carried, Queued
    <2>3. Live' = Live /\ j \in Live
      BY <2>1, <2>2 DEF Live, InFlight
    <2>4. PICK s \in Songs : db' = MarkPending(db, j, s)
      BY <1>8 DEF PlanTrack
    <2>5. CASE HasRow(db, j)
      <3>1. db' = db
        BY <2>4, <2>5 DEF MarkPending
      <3>2. QED
        BY <1>2, <2>3, <3>1, SameStatuses, AsStutter
    <2>6. CASE ~HasRow(db, j)
      <3>1. \A i \in Jobs : db'[i].status = IF i = j THEN "pending" ELSE db[i].status
        BY <2>4, <2>6, MarkPendingEffect
      <3>2. St' = [St EXCEPT ![j] = "owed"]
        BY <3>1, NewStatus
      <3>3. QED
        BY <1>2, <2>3, <3>2, AsOwed
    <2>7. QED
      BY <2>5, <2>6
  <1>12. ASSUME NEW j \in Jobs, SkipTrack(p, j) PROVE [Durable!Next]_(Durable!vars)
    <2>1. /\ UNCHANGED <<queue, worker, phold, reload, handlers, stranded>>
          /\ retry' = [retry EXCEPT ![p] = @ \ {j}] /\ plan' = plan
          /\ j \in retry[p] \cup plan[p] /\ db' = MarkFailed(db, j)
      BY <1>12 DEF SkipTrack
    <2>2. \A i \in Jobs : /\ i # j => (InFlight(i)' <=> InFlight(i))
                          /\ Carried(i)' <=> Carried(i)
      BY <2>1 DEF InFlight, Carried, Queued
    <2>3. j \in Live /\ Live' \in {Live, Live \ {j}}
      BY <2>1, <2>2 DEF Live, InFlight
    <2>4. CASE HasRow(db, j)
      <3>1. \A i \in Jobs : db'[i].status = IF i = j THEN "failed" ELSE db[i].status
        BY <2>1, <2>4, MarkFailedEffect
      <3>2. St' = [St EXCEPT ![j] = "failed"]
        BY <3>1, NewStatus
      <3>3. St[j] # "none"
        BY <1>4, <2>4 DEF HasRow
      <3>4. QED
        BY <1>2, <2>3, <3>2, <3>3, AsSettle
    <2>5. CASE ~HasRow(db, j)
      <3>1. \A i \in Jobs : db'[i].status = db[i].status
        BY <2>1, <2>5, MarkFailedEffect
      <3>2. St' = St /\ {j} \in SUBSET Live /\ \A i \in {j} : St[i] # "owed"
        BY <1>4, <2>3, <2>5, <3>1, SameStatuses DEF HasRow, Owed
      <3>3. CASE Live' = Live
        BY <1>2, <3>2, <3>3, AsStutter
      <3>4. CASE Live' = Live \ {j}
        BY <1>2, <3>2, <3>4, AsLetGo
      <3>5. QED
        BY <2>3, <3>3, <3>4
    <2>6. QED
      BY <2>4, <2>5
  <1>9. CASE PutTrack(p)
    <2>1. /\ UNCHANGED <<db, worker, retry, plan, reload, handlers, stranded>>
          /\ phold[p] \in Jobs /\ phold' = [phold EXCEPT ![p] = NoJob]
          /\ queue' = Append(queue, phold[p])
      BY <1>9 DEF PutTrack, Enqueue
    <2>2. Queued' = Queued \cup {phold[p]}
      BY <2>1, AppendItems DEF Queued
    <2>3. \A i \in Jobs : InFlight(i)' <=> InFlight(i)
      BY <2>1, <2>2 DEF InFlight, Carried
    <2>4. Live' = Live
      BY <2>1, <2>3 DEF Live
    <2>5. QED
      BY <1>2, <2>1, <2>4, SameStatuses, AsStutter
  <1>10. CASE PipelineRaises(p)
    <2> DEFINE S == Live \ Live'
    <2>1. /\ UNCHANGED <<db, queue, worker, phold, reload, handlers, stranded>>
          /\ retry' = [retry EXCEPT ![p] = {}] /\ plan' = [plan EXCEPT ![p] = {}]
      BY <1>10 DEF PipelineRaises
    <2>2. \A i \in Jobs : /\ InFlight(i)' => InFlight(i)
                          /\ Carried(i) => InFlight(i)'
      BY <2>1 DEF InFlight, Carried, Queued
    <2>3. Live' \subseteq Live /\ \A i \in Jobs : Carried(i) \/ i \in stranded => i \in Live'
      BY <2>1, <2>2 DEF Live
    <2>4. \A i \in S : i \in Jobs /\ ~Owed(i)
      BY <1>2, <2>3 DEF RInv, IInv, NoLostWork, Up, Live
    <2>5. \A i \in S : St[i] # "owed"
      BY <1>4, <2>4, RowFields DEF Statuses
    <2>6. St' = St /\ S \in SUBSET Live /\ Live' = Live \ S
      BY <2>1, <2>3, SameStatuses
    <2> HIDE DEF S
    <2>7. QED
      BY <1>2, <2>5, <2>6, AsLetGo
  <1>11. QED
    BY <1>5, <1>6, <1>7, <1>8, <1>12, <1>9, <1>10 DEF PipelineStep

-----------------------------------------------------------------------------
(* Requests and deletes.                                                    *)

\* A request is an Accept, the end of a delete a Delete, the rest is invisible.
LEMMA HandlerRefines == ASSUME RInv, Handlers PROVE [Durable!Next]_(Durable!vars)
  <1>1. /\ phase' = phase
        /\ phase = "up" \/ apiPut # NoJob \/ apiDel # {}
    BY DEF Handlers, Accept, LoopIsFree, RemoveFile, PutAccepted, MarkIgnored, DeleteRaises
  <1>2. Up /\ Up' /\ UNCHANGED Up
    BY <1>1 DEF Up, RInv, IInv, TypeOK, Phases, DownIsEmpty, NothingInHand
  <1>3. /\ db \in Table /\ queue \in Seq(Jobs)
        /\ apiDel \in SUBSET Jobs /\ apiPut \in Jobs \cup {NoJob}
    BY DEF RInv, IInv, TypeOK
  <1> USE <1>3, LifecycleAssumption DEF durable, worker, reload, handlers, pipeline
  <1>4. ASSUME NEW j \in ManualJobs, NEW s \in Songs, Accept(j, s)
        PROVE  [Durable!Next]_(Durable!vars)
    <2>1. /\ j \in Jobs /\ ~HasRow(db, j) /\ db' = MarkPending(db, j, s)
          /\ apiPut = NoJob /\ apiPut' = j
          /\ UNCHANGED <<queue, worker, pipeline, reload, stranded>>
      BY <1>4 DEF Accept, LoopIsFree, MarkPendingIfNotDuplicate
    <2>2. \A i \in Jobs : db'[i].status = IF i = j THEN "pending" ELSE db[i].status
      BY <2>1, MarkPendingEffect
    <2>3. St' = [St EXCEPT ![j] = "owed"]
      BY <2>1, <2>2, NewStatus
    <2>4. St[j] = "none"
      BY <2>1 DEF HasRow, St, Owed
    <2>5. \A i \in Jobs : InFlight(i)' <=> (InFlight(i) \/ i = j)
      BY <2>1 DEF InFlight, Carried, Queued
    <2>6. Live' = Live \cup {j}
      BY <2>1, <2>5 DEF Live
    <2>7. QED
      BY <1>2, <2>1, <2>3, <2>4, <2>6, AsOwed
  <1>5. CASE DeleteRaises \/ \E j \in Jobs : RemoveFile(j)
    <2>1. UNCHANGED <<db, queue, worker, pipeline, reload, apiPut, stranded>>
      BY <1>5 DEF DeleteRaises, RemoveFile
    <2>2. Live' = Live
      BY <2>1 DEF Live, InFlight, Carried, Queued
    <2>3. QED
      BY <1>2, <2>1, <2>2, SameStatuses, AsStutter
  <1>6. CASE PutAccepted
    <2>1. /\ UNCHANGED <<db, worker, pipeline, reload, stranded>>
          /\ apiPut \in Jobs /\ apiPut' = NoJob /\ queue' = Append(queue, apiPut)
      BY <1>6 DEF PutAccepted, Enqueue
    <2>2. Queued' = Queued \cup {apiPut}
      BY <2>1, AppendItems DEF Queued
    <2>3. \A i \in Jobs : InFlight(i)' <=> InFlight(i)
      BY <2>1, <2>2 DEF InFlight, Carried
    <2>4. Live' = Live
      BY <2>1, <2>3 DEF Live
    <2>5. QED
      BY <1>2, <2>1, <2>4, SameStatuses, AsStutter
  <1>7. CASE MarkIgnored
    <2> DEFINE S == {j \in apiDel : HasRow(db, j)}
    <2>1. /\ UNCHANGED <<queue, worker, pipeline, reload, apiPut, stranded>>
          /\ db' = MarkIgnoredBulk(db, apiDel)
      BY <1>7 DEF MarkIgnored
    <2>2. \A i \in Jobs : db'[i].status = IF i \in S THEN "ignored" ELSE db[i].status
      BY <2>1, MarkIgnoredEffect
    <2>3. S \in SUBSET Jobs /\ \A j \in S : St[j] # "none"
      BY DEF HasRow, St, Owed
    <2> HIDE DEF S
    <2>4. St' = [j \in Jobs |-> IF j \in S THEN "ignored" ELSE St[j]]
      BY <2>2 DEF St, Owed
    <2>5. Live' = Live
      BY <2>1 DEF Live, InFlight, Carried, Queued
    <2>6. QED
      BY <1>2, <2>3, <2>4, <2>5, AsDelete
  <1>8. QED
    BY <1>4, <1>5, <1>6, <1>7 DEF Handlers

-----------------------------------------------------------------------------
(* Boot, recovery, stop and exit.                                           *)

\* An exit is a Crash, the read of the table a Recover, each row failed by the
\* reload a Settle; the rest is invisible.
LEMMA ProcessRefines ==
    ASSUME RInv, BootStep \/ StopSignal \/ Exit
    PROVE  [Durable!Next]_(Durable!vars)
  <1>1. /\ db \in Table /\ queue \in Seq(Jobs)
        /\ rtodo \subseteq Jobs /\ rcut \subseteq Jobs /\ rhold \in Jobs \cup {NoJob}
    BY DEF RInv, IInv, TypeOK
  <1> USE <1>1, LifecycleAssumption DEF durable, worker, reload, handlers, pipeline
  <1>2. CASE Boot
    <2>1. UNCHANGED <<db, queue, worker, pipeline, reload, handlers, stranded>> /\ UNCHANGED Up
      BY <1>2 DEF Boot, Up
    <2>2. Live' = Live
      BY <2>1 DEF Live, InFlight, Carried, Queued
    <2>3. QED
      BY <2>1, <2>2, SameStatuses, AsStutter
  <1>3. CASE ReadPending
    <2>1. /\ ~Up /\ Up' /\ NothingInHand
          /\ UNCHANGED <<db, queue, worker, pipeline, rhold, handlers, stranded>>
          /\ rtodo' \cup rcut' = {j \in Jobs : Owed(j)}
      BY <1>3 DEF ReadPending, Up, RInv, DownIsEmpty, PendingJobs, Owed
    <2>2. \A i \in Jobs : InFlight(i)' <=> Owed(i)
      BY <2>1 DEF NothingInHand, InFlight, Carried, Queued, Items, Nothing, NobodyHolds
    <2>3. Live' = {j \in Jobs : Owed(j)}
      BY <2>1, <2>2 DEF Live, NothingInHand
    <2>4. \A j \in Jobs : St[j] = "owed" <=> Owed(j)
      BY RowFields DEF St, Statuses
    <2>5. St' = St /\ Live' = {j \in Jobs : St[j] = "owed"}
      BY <2>1, <2>3, <2>4, SameStatuses
    <2>6. QED
      BY <2>1, <2>5, AsRecover
  <1>4. ASSUME NEW j \in Jobs, RequeuePending(j) PROVE [Durable!Next]_(Durable!vars)
    <2>1. /\ UNCHANGED <<db, worker, pipeline, rcut, rhold, handlers, stranded>> /\ UNCHANGED Up
          /\ queue' = Append(queue, j) /\ rtodo' = rtodo \ {j} /\ j \in rtodo
      BY <1>4 DEF RequeuePending, Enqueue, Up
    <2>2. Queued' = Queued \cup {j}
      BY <2>1, AppendItems DEF Queued
    <2>3. \A i \in Jobs : InFlight(i)' <=> InFlight(i)
      BY <2>1, <2>2 DEF InFlight, Carried
    <2>4. Live' = Live
      BY <2>1, <2>3 DEF Live
    <2>5. QED
      BY <2>1, <2>4, SameStatuses, AsStutter
  <1>5. ASSUME NEW j \in Jobs, FailInterrupted(j) PROVE [Durable!Next]_(Durable!vars)
    <2>1. /\ UNCHANGED <<queue, worker, pipeline, rtodo, handlers, stranded>> /\ Up /\ Up'
          /\ rcut' = rcut \ {j} /\ rhold = NoJob /\ rhold' \in {NoJob, j} /\ j \in rcut
          /\ db' = MarkFailed(db, j)
      BY <1>5 DEF FailInterrupted, Up
    <2>2. j \in Live /\ HasRow(db, j) /\ St[j] # "none"
      BY <2>1 DEF Live, InFlight, Carried, RInv, IInv, CarriedHasRow, HasRow, St, Owed
    <2>3. \A i \in Jobs : db'[i].status = IF i = j THEN "failed" ELSE db[i].status
      BY <2>1, <2>2, MarkFailedEffect
    <2>4. St' = [St EXCEPT ![j] = "failed"]
      BY <2>3, NewStatus
    <2>5. \A i \in Jobs : i # j => (i \in Live' <=> i \in Live)
      BY <2>1 DEF Live, InFlight, Carried, Queued
    <2>6. Live' \in {Live, Live \ {j}}
      BY <2>2, <2>5 DEF Live
    <2>7. QED
      BY <2>1, <2>2, <2>4, <2>6, AsSettle
  <1>6. CASE RequeueInterrupted
    <2>1. /\ UNCHANGED <<db, worker, pipeline, rtodo, rcut, handlers, stranded>> /\ UNCHANGED Up
          /\ rhold \in Jobs /\ rhold' = NoJob /\ queue' = Append(queue, rhold)
      BY <1>6 DEF RequeueInterrupted, Enqueue, Up
    <2>2. Queued' = Queued \cup {rhold}
      BY <2>1, AppendItems DEF Queued
    <2>3. \A i \in Jobs : InFlight(i)' <=> InFlight(i)
      BY <2>1, <2>2 DEF InFlight, Carried
    <2>4. Live' = Live
      BY <2>1, <2>3 DEF Live
    <2>5. QED
      BY <2>1, <2>4, SameStatuses, AsStutter
  <1>7. CASE ReloadEnds
    <2>1. /\ UNCHANGED <<db, queue, worker, plan, retry, phold, reload, handlers, stranded>>
          /\ UNCHANGED Up
      BY <1>7 DEF ReloadEnds, Starts, Up
    <2>2. Live' = Live
      BY <2>1 DEF Live, InFlight, Carried, Queued
    <2>3. QED
      BY <2>1, <2>2, SameStatuses, AsStutter
  <1>8. CASE StopSignal
    <2>1. /\ UNCHANGED <<db, queue, wjob, pipeline, reload, handlers, stranded>>
          /\ UNCHANGED Up
      BY <1>8 DEF StopSignal, LoopIsFree, Up
    <2>2. QED
      BY <2>1, WorkerKeepsLive, SameStatuses, AsStutter
  <1>9. CASE Exit
    <2>1. ~Up' /\ UNCHANGED db /\ stranded' = {}
      BY <1>9 DEF Exit, Up
    <2>2. \A i \in Jobs : ~InFlight(i)'
      BY <1>9 DEF Exit, JobLeaves, Nothing, NobodyHolds, InFlight, Carried, Queued, Items
    <2>3. St' = St /\ Live' = {}
      BY <2>1, <2>2, SameStatuses DEF Live
    <2>4. QED
      BY <2>1, <2>3, AsCrash
  <1>10. QED
    BY <1>2, <1>3, <1>4, <1>5, <1>6, <1>7, <1>8, <1>9 DEF BootStep

-----------------------------------------------------------------------------
\* JobLifecycle implements DurableWork: queue, threads and recovery together keep
\* every promise the abstract specification makes.
THEOREM LifecycleKeepsPromises == Spec => KeepsPromises
  <1>1. ASSUME Init PROVE Durable!Init
    <2>1. \A j \in Jobs : ~Owed(j)
      BY <1>1, InitRows DEF Owed
    <2>2. [j \in Jobs |-> IF Owed(j) THEN "owed" ELSE db[j].status]
             \in [Jobs -> {"none", "failed"}]
      BY <1>1, <2>1, InitRows
    <2>3. \A j \in Jobs : ~InFlight(j) /\ j \notin stranded
      <3>1. Queued = {}
        BY <1>1 DEF Init, Queued, Items
      <3>2. \A p \in Pipes : phold[p] = NoJob /\ plan[p] = {} /\ retry[p] = {}
        BY <1>1 DEF Init, Nothing, NobodyHolds
      <3>3. QED
        BY <1>1, <3>1, <3>2, LifecycleAssumption DEF Init, InFlight, Carried
    <2>4. ~(phase \in {"reload", "up", "stopping"})
      BY <1>1 DEF Init
    <2>5. QED
      BY <2>2, <2>3, <2>4 DEF Durable!Init
  <1>2. RInv /\ [Next]_vars => [Durable!Next]_(Durable!vars)
    <2>1. ASSUME UNCHANGED vars PROVE [Durable!Next]_(Durable!vars)
      <3>1. UNCHANGED <<db, queue, wpc, wjob, plan, retry, phold, apiPut, rhold, rtodo,
                        rcut, stranded, phase>>
        BY <2>1 DEF vars, durable, worker, pipeline, reload, handlers
      <3>2. UNCHANGED <<St, Live, Up>>
        BY <3>1 DEF St, Owed, Live, InFlight, Carried, Queued, Up
      <3>3. QED
        BY <3>2, AsStutter
    <2>2. QED
      BY <2>1, WorkerRefines, PipelineRefines, HandlerRefines, ProcessRefines
         DEF Next, Handlers
  <1>3. QED
    BY <1>1, <1>2, RefinementInvariant, PTL DEF Spec, KeepsPromises, Durable!Spec

-----------------------------------------------------------------------------
(* What follows from the abstract specification alone. *)

\* The promises of DurableWork, in the names of the mapping.
OwedAreLive == Up => \A j \in Jobs : St[j] = "owed" => j \in Live
IsClosed(j) == St[j] \in {"done", "ignored"} /\ j \notin Live

\* No step of DurableWork breaks one.
LEMMA AbstractStep ==
    ASSUME OwedAreLive, [Durable!Next]_(Durable!vars)
    PROVE  OwedAreLive' /\ \A j \in Jobs : IsClosed(j) => IsClosed(j)'
  <1> DEFINE Goal == OwedAreLive' /\ \A j \in Jobs : IsClosed(j) => IsClosed(j)'
  <1>1. ASSUME NEW S \in SUBSET Jobs, Durable!TakeUp(S) PROVE Goal
    <2>1. /\ UNCHANGED <<St, Up>> /\ Live' = Live \cup S
          /\ \A j \in S : St[j] \in {"none", "failed"}
      BY <1>1 DEF Durable!TakeUp, St, Live, Up
    <2>2. QED
      BY <2>1 DEF OwedAreLive, IsClosed
  <1>2. ASSUME NEW S \in SUBSET Jobs, Durable!LetGo(S) PROVE Goal
    <2>1. /\ UNCHANGED <<St, Up>> /\ Live' = Live \ S
          /\ \A j \in S : St[j] # "owed"
      BY <1>2 DEF Durable!LetGo, St, Live, Up
    <2>2. QED
      BY <2>1 DEF OwedAreLive, IsClosed
  <1>3. ASSUME NEW S \in SUBSET Jobs, Durable!Delete(S) PROVE Goal
    <2>1. /\ UNCHANGED <<Live, Up>>
          /\ \A j \in Jobs : St'[j] = IF j \in S THEN "ignored" ELSE St[j]
      BY <1>3 DEF Durable!Delete, St, Live, Up
    <2>2. QED
      BY <2>1 DEF OwedAreLive, IsClosed
  <1>4. ASSUME NEW k \in Jobs, Durable!Accept(k) PROVE Goal
    <2>1. /\ UNCHANGED Up /\ Live' = Live \cup {k} /\ St[k] = "none"
          /\ \A j \in Jobs : St'[j] = IF j = k THEN "owed" ELSE St[j]
      BY <1>4 DEF Durable!Accept, St, Live, Up
    <2>2. QED
      BY <2>1 DEF OwedAreLive, IsClosed
  <1>5. ASSUME NEW k \in Jobs, Durable!Work(k) PROVE Goal
    <2>1. /\ UNCHANGED <<Live, Up>> /\ k \in Live
          /\ \A j \in Jobs : St'[j] = IF j = k THEN "owed" ELSE St[j]
      BY <1>5 DEF Durable!Work, St, Live, Up
    <2>2. QED
      BY <2>1 DEF OwedAreLive, IsClosed
  <1>6. ASSUME NEW k \in Jobs, NEW v \in Durable!Verdicts, Durable!Settle(k, v) PROVE Goal
    <2>1. /\ UNCHANGED Up /\ k \in Live /\ v # "owed"
          /\ Live' = Live \/ Live' = Live \ {k}
          /\ \A j \in Jobs : St'[j] = IF j = k THEN v ELSE St[j]
      BY <1>6 DEF Durable!Settle, Durable!Verdicts, St, Live, Up
    <2>2. QED
      BY <2>1 DEF OwedAreLive, IsClosed
  <1>7. ASSUME Durable!Crash PROVE Goal
    <2>1. ~Up' /\ Live' = {} /\ UNCHANGED St
      BY <1>7 DEF Durable!Crash, St, Live, Up
    <2>2. QED
      BY <2>1 DEF OwedAreLive, IsClosed
  <1>8. ASSUME Durable!Recover PROVE Goal
    <2>1. UNCHANGED St /\ Live' = {j \in Jobs : St[j] = "owed"}
      BY <1>8 DEF Durable!Recover, St, Live, Up
    <2>2. QED
      BY <2>1 DEF OwedAreLive, IsClosed
  <1>9. CASE UNCHANGED Durable!vars
    <2>1. UNCHANGED <<St, Live, Up>>
      BY <1>9 DEF Durable!vars, St, Live, Up
    <2>2. QED
      BY <2>1 DEF OwedAreLive, IsClosed
  <1>10. QED
    BY <1>1, <1>2, <1>3, <1>4, <1>5, <1>6, <1>7, <1>8, <1>9 DEF Durable!Next

\* Every behaviour of DurableWork takes care of what is owed, after any number of
\* crashes, and so does the job machinery.
THEOREM OwedJobsAreTakenCareOf == Durable!Spec => []Durable!OwedIsLive
  <1>1. Durable!OwedIsLive <=> OwedAreLive
    BY DEF Durable!OwedIsLive, OwedAreLive, St, Live, Up
  <1>2. Durable!Init => OwedAreLive
    BY DEF Durable!Init, OwedAreLive, Up
  <1>3. OwedAreLive /\ [Durable!Next]_(Durable!vars) => OwedAreLive'
    BY AbstractStep
  <1>4. QED
    BY <1>1, <1>2, <1>3, PTL DEF Durable!Spec

\* A job that was done or deleted and let go is never taken up again.
THEOREM ClosedJobsStayClosed == Spec => Durable!ClosedStaysClosed
  <1> DEFINE Step == \A j \in Jobs : Durable!Closed(j) => Durable!Closed(j)'
  <1>1. /\ \A j \in Jobs : Durable!Closed(j) <=> IsClosed(j)
        /\ \A j \in Jobs : Durable!Closed(j)' <=> IsClosed(j)'
    BY DEF Durable!Closed, IsClosed, St, Live
  <1>2. Durable!OwedIsLive => OwedAreLive
    BY DEF Durable!OwedIsLive, OwedAreLive, St, Live, Up
  <1>3. OwedAreLive /\ [Durable!Next]_(Durable!vars) => [Step]_(Durable!vars)
    <2>1. ASSUME OwedAreLive, [Durable!Next]_(Durable!vars) PROVE Step
      <3>1. \A j \in Jobs : IsClosed(j) => IsClosed(j)'
        BY <2>1, AbstractStep
      <3>2. QED
        BY <1>1, <3>1
    <2> HIDE DEF Step
    <2>2. QED
      BY <2>1
  <1>4. QED
    BY <1>2, <1>3, OwedJobsAreTakenCareOf, LifecycleKeepsPromises, PTL
       DEF Durable!Spec, KeepsPromises, Durable!ClosedStaysClosed
=============================================================================
