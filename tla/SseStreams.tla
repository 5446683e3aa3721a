----------------------------- MODULE SseStreams -----------------------------
(***************************************************************************)
(* The progress of one manual download as its clients see it: the event    *)
(* queue that start_download creates for the job (worker._job_queues), the *)
(* events that run_download_job and enqueue_job emit into it, the streams  *)
(* that GET /api/sse/{job_id} opens on it, and the sweep of idle queues    *)
(* that the worker runs after every job.                                   *)
(*                                                                         *)
(* Time passes in ticks.  A get that has something to return, or whose     *)
(* timeout is over, returns before the next tick, its stream goes on, and  *)
(* what is put in the work queue is announced; everything else takes as    *)
(* long as it takes.                                                       *)
(*                                                                         *)
(* Abstracted: the other jobs, which only matter by the sweep that follows *)
(* each of them; messages, of which only the status is kept; the process   *)
(* never exits (an exit loses the queue and closes every stream).          *)
(***************************************************************************)
EXTENDS Naturals, Sequences

CONSTANTS
    Streams,     \* requests GET /api/sse/{job_id} for this job
    KeepAlive,   \* timeout of a stream's get, 30 s
    Ttl,         \* _QUEUE_TTL, 30 min
    OpenWithin,  \* a client opens its stream at most so long after the last activity
    MaxPuts      \* bound: how often the job is put in the work queue

ASSUME SseAssumption ==
    /\ KeepAlive \in Nat \ {0}
    /\ Ttl \in Nat /\ OpenWithin \in Nat
    /\ MaxPuts \in Nat

Terminal == {"done", "failed"}
Events == {"queued", "downloading", "tagging", "scanning"} \cup Terminal

VARIABLES
    entry,   \* the job's entry in _job_queues
    age,     \* time since the entry's last_active, up to Ttl + 1; else 0
    q,       \* the queue object; streams keep it when the entry is gone
    hpc,     \* who puts the job in the work queue: start_download, then a retry
    jpc,     \* what the worker does with the job
    copies,  \* how many times the job stands in the work queue
    puts,    \* how many times it was put there
    row,     \* whether the row has been failed, which a pipeline may have seen
    spc,     \* the streams: generator state
    wait,    \* how long the get of an open stream has been blocked
    sent,    \* history: what the job has emitted ...
    seen     \* ... and an open stream has sent to its client, while one may be alone

registry == <<entry, age>>
job      == <<hpc, jpc, copies, puts, row>>
streams  == <<spc, wait, seen>>
vars == <<registry, q, job, streams, sent>>

Entries == {"none", "here", "removed", "swept"}
HandlerSteps == {"start", "created", "accepted", "put", "free", "refused"}
JobSteps == {"idle", "picked", "downloading", "tagging", "scanning", "failing", "over"}

\* "last": suspended after the terminal event; "gone": the client has left, and
\* the thread is still blocked in the get.
StreamSteps == {"off", "checked", "reading", "last", "gone", "ended"}

Blocked(s) == spc[s] \in {"reading", "gone"}

\* Every variable has its type; a refused request leaves no queue behind; a get
\* is never blocked for longer than its timeout (api.py:198-261).
TypeOK ==
    /\ entry \in Entries
    /\ age \in 0..(Ttl + 1)
    /\ q \in Seq(Events)
    /\ hpc \in HandlerSteps
    /\ jpc \in JobSteps
    /\ copies \in Nat /\ puts \in Nat /\ row \in {"new", "failed"}
    /\ spc \in [Streams -> StreamSteps]
    /\ wait \in [Streams -> 0..KeepAlive]
    /\ sent \in Seq(Events)
    /\ seen \in [Streams -> Seq(Events)]
    /\ entry = "none" <=> hpc = "start"
    /\ entry # "here" => age = 0
    /\ hpc = "refused" => entry # "here"

Init ==
    /\ entry = "none" /\ age = 0 /\ q = <<>>
    /\ hpc = "start" /\ jpc = "idle" /\ copies = 0 /\ puts = 0 /\ row = "new"
    /\ spc = [s \in Streams |-> "off"]
    /\ wait = [s \in Streams |-> 0]
    /\ sent = <<>> /\ seen = [s \in Streams |-> <<>>]

-----------------------------------------------------------------------------
(* The registry: operations under _job_queues_lock. *)

OnlyStream(s) == \A r \in Streams \ {s} : spc[r] = "off"
MayBeAlone(s) == OnlyStream(s) /\ spc[s] \in {"off", "checked", "reading", "last"}

\* emit: appended and touched if the job has an entry, dropped otherwise.
Emit(e) ==
    /\ sent' = IF \E s \in Streams : MayBeAlone(s) THEN Append(sent, e) ELSE <<>>
    /\ IF entry = "here"
       THEN q' = Append(q, e) /\ age' = 0
       ELSE UNCHANGED <<q, age>>
    /\ UNCHANGED entry

\* touch_sse_queue
Touch == age' = 0 /\ UNCHANGED entry

\* remove_sse_queue
Remove == IF entry = "here" THEN entry' = "removed" /\ age' = 0 ELSE UNCHANGED registry

-----------------------------------------------------------------------------
(* start_download, and pipelines that enqueue the job again after a failure. *)

HandlerMoves(from, to) == hpc = from /\ hpc' = to

CreateQueue ==
    /\ HandlerMoves("start", "created")
    /\ entry' = "here" /\ age' = 0
    /\ UNCHANGED <<q, jpc, copies, puts, row, streams, sent>>

\* mark_pending_if_not_duplicate inserted the row.
AcceptRequest ==
    /\ HandlerMoves("created", "accepted")
    /\ UNCHANGED <<registry, q, jpc, copies, puts, row, streams, sent>>

\* Mutant: the 409 leaves the queue behind.
RefuseUncleaned ==
    /\ HandlerMoves("created", "refused")
    /\ UNCHANGED <<registry, q, jpc, copies, puts, row, streams, sent>>

\* ... or found an active duplicate: 409.
RefuseRequest ==
    /\ HandlerMoves("created", "refused")
    /\ Remove
    /\ UNCHANGED <<q, jpc, copies, puts, row, streams, sent>>

Put == copies' = copies + 1 /\ puts' = puts + 1

\* enqueue_job: first the work queue ...
PutRequest ==
    /\ HandlerMoves("accepted", "put")
    /\ Put
    /\ UNCHANGED <<registry, q, jpc, row, streams, sent>>

\* ... by a pipeline too, some time after it has seen the row failed ...
PutRetry ==
    /\ HandlerMoves("free", "put")
    /\ row = "failed" /\ puts < MaxPuts
    /\ Put
    /\ UNCHANGED <<registry, q, jpc, row, streams, sent>>

\* ... then the event, which the worker may have overtaken.
Announce ==
    /\ HandlerMoves("put", "free")
    /\ Emit("queued")
    /\ UNCHANGED <<jpc, copies, puts, row, streams>>

-----------------------------------------------------------------------------
(* The worker: run_download_job and the sweep that follows every job. *)

JobMoves(from, to) ==
    /\ jpc = from /\ jpc' = to
    /\ row' = IF to = "failing" THEN "failed" ELSE row
    /\ UNCHANGED <<hpc, puts>>

TakeJob ==
    /\ JobMoves("idle", "picked")
    /\ copies > 0 /\ copies' = copies - 1
    /\ UNCHANGED <<registry, q, streams, sent>>

\* The job goes on to the step it announces; a file that is there is skipped.
Progress ==
    /\ \/ JobMoves("picked", "downloading") /\ Emit("downloading")
       \/ JobMoves("picked", "scanning") /\ Emit("scanning")
       \/ JobMoves("downloading", "tagging") /\ Emit("tagging")
       \/ JobMoves("tagging", "scanning") /\ Emit("scanning")
    /\ UNCHANGED <<copies, streams>>

JobDone ==
    /\ JobMoves("scanning", "over")
    /\ Emit("done")
    /\ UNCHANGED <<copies, streams>>

\* The step returned nothing, or something raised: mark_failed, and a pipeline may
\* retry the job before it has said so.
StepFails ==
    /\ \E step \in {"picked", "downloading", "tagging", "scanning"} : JobMoves(step, "failing")
    /\ UNCHANGED <<registry, q, copies, streams, sent>>

\* Mutant: an early return without emit.
JobFailedSilently ==
    /\ JobMoves("failing", "over")
    /\ UNCHANGED <<registry, q, copies, streams, sent>>

JobFailed ==
    /\ JobMoves("failing", "over")
    /\ Emit("failed")
    /\ UNCHANGED <<copies, streams>>

\* Mutant: no idle time is long enough to be kept.
SweepAnyAge ==
    /\ jpc \in {"idle", "over"} /\ jpc' = "idle"
    /\ IF age > 0 THEN entry' = "swept" /\ age' = 0 ELSE UNCHANGED registry
    /\ UNCHANGED <<q, hpc, copies, puts, row, streams, sent>>

\* This job or another one has ended: _cleanup_expired_queues.
Sweep ==
    /\ jpc \in {"idle", "over"} /\ jpc' = "idle"
    /\ IF age > Ttl THEN entry' = "swept" /\ age' = 0 ELSE UNCHANGED registry
    /\ UNCHANGED <<q, hpc, copies, puts, row, streams, sent>>

WorkerStep == TakeJob \/ Progress \/ JobDone \/ StepFails \/ JobFailed \/ (jpc = "over" /\ Sweep)

-----------------------------------------------------------------------------
(* A stream s: sse_stream and its generator, which runs in a pool thread. *)

StreamMoves(s, from, to) == spc[s] = from /\ spc' = [spc EXCEPT ![s] = to]

StreamEnds(s, from) ==
    /\ StreamMoves(s, from, "ended")
    /\ wait' = [wait EXCEPT ![s] = 0]
    /\ seen' = [seen EXCEPT ![s] = <<>>]

\* start_download holds the event loop until it has answered; a pipeline does not.
LoopIsFree == hpc = "free" \/ (hpc = "put" /\ puts > 1)

\* The handler finds the queue; without one it answers 404 and nothing changes.
\* (The history ends with the second client.)
Open(s) ==
    /\ LoopIsFree
    /\ StreamMoves(s, "off", "checked")
    /\ entry = "here" /\ age <= OpenWithin
    /\ IF OnlyStream(s)
       THEN UNCHANGED <<sent, seen>>
       ELSE sent' = <<>> /\ seen' = [r \in Streams |-> <<>>]
    /\ UNCHANGED <<registry, q, job, wait>>

\* The generator looks the queue up again: it may be gone, and None has no get.
Begin(s) ==
    /\ \/ entry = "here" /\ StreamMoves(s, "checked", "reading") /\ UNCHANGED <<wait, seen>>
       \/ entry # "here" /\ StreamEnds(s, "checked")
    /\ UNCHANGED <<registry, q, job, sent>>

\* get returned an event, which is sent to the client.
Deliver(s) ==
    /\ q # <<>>
    /\ StreamMoves(s, "reading", IF Head(q) \in Terminal THEN "last" ELSE "reading")
    /\ q' = Tail(q)
    /\ seen' = [seen EXCEPT ![s] = IF OnlyStream(s) THEN Append(@, Head(q)) ELSE <<>>]
    /\ wait' = [wait EXCEPT ![s] = 0]
    /\ UNCHANGED <<registry, job, sent>>

\* Mutant: the keep-alive does not touch the queue.
KeepsAliveOnly(s) ==
    /\ q = <<>> /\ wait[s] = KeepAlive
    /\ StreamMoves(s, "reading", "reading")
    /\ wait' = [wait EXCEPT ![s] = 0]
    /\ UNCHANGED <<registry, q, job, seen, sent>>

\* get timed out: the queue is touched and a keep-alive comment sent.
SendsKeepAlive(s) ==
    /\ q = <<>> /\ wait[s] = KeepAlive
    /\ StreamMoves(s, "reading", "reading")
    /\ wait' = [wait EXCEPT ![s] = 0]
    /\ Touch
    /\ UNCHANGED <<q, job, seen, sent>>

\* After the terminal event the queue is removed and the response ends.
Finish(s) ==
    /\ StreamEnds(s, "last")
    /\ Remove
    /\ UNCHANGED <<q, job, sent>>

\* The client leaves: a generator that waits for the client ends as it stands, a
\* get that is blocked in its thread stays there.
Leave(s) ==
    /\ \/ StreamMoves(s, "reading", "gone") /\ UNCHANGED <<wait, seen>>
       \/ \E from \in {"checked", "reading", "last"} : StreamEnds(s, from)
    /\ UNCHANGED <<registry, q, job, sent>>

\* That get returns, with an event nobody will see or with none.
LastGetReturns(s) ==
    /\ StreamEnds(s, "gone")
    /\ \/ q # <<>> /\ q' = Tail(q) /\ UNCHANGED registry
       \/ q = <<>> /\ wait[s] = KeepAlive /\ Touch /\ UNCHANGED q
    /\ UNCHANGED <<job, sent>>

StreamStep(s) ==
    Begin(s) \/ Deliver(s) \/ SendsKeepAlive(s) \/ Finish(s) \/ LastGetReturns(s)

-----------------------------------------------------------------------------
\* Time passes when nothing is about to be done at once.
Tick ==
    /\ hpc \in {"start", "free", "refused"}
    /\ \A s \in Streams : /\ spc[s] \notin {"checked", "last"}
                          /\ Blocked(s) => q = <<>> /\ wait[s] < KeepAlive
    /\ age' = IF entry = "here" /\ age <= Ttl THEN age + 1 ELSE age
    /\ wait' = [s \in Streams |-> IF Blocked(s) THEN wait[s] + 1 ELSE wait[s]]
    /\ UNCHANGED <<entry, q, job, spc, seen, sent>>

HandlerStep == AcceptRequest \/ PutRequest \/ Announce

Next ==
    \/ CreateQueue \/ RefuseRequest \/ HandlerStep \/ PutRetry
    \/ WorkerStep \/ Sweep
    \/ \E s \in Streams : Open(s) \/ Leave(s) \/ StreamStep(s)
    \/ Tick

Spec == Init /\ [][Next]_vars

\* Time passes, and threads go on: each step of a job has a timeout, a get that
\* can return does.  Nothing is assumed of clients and of other jobs.
Fairness ==
    /\ WF_vars(HandlerStep) /\ WF_vars(WorkerStep)
    /\ \A s \in Streams : WF_vars(StreamStep(s))
    /\ WF_vars(Tick)

FairSpec == Spec /\ Fairness

-----------------------------------------------------------------------------
(* Properties. *)

\* The sweep only takes queues that nobody reads: a stream that is open keeps
\* its queue alive (the race note of the design document, P0-4).
SweptIsOrphaned == entry = "swept" => \A s \in Streams : spc[s] # "reading"

\* A client that is alone on its job is sent every event of the job once and in
\* the order of emission, whatever was emitted before it came (worker.emit).
OnlyClientMissesNothing ==
    \A s \in Streams :
        OnlyStream(s) /\ spc[s] \in {"checked", "reading", "last"}
            => seen[s] \o q = sent

\* A client that stays alone on its job is told the verdict, and its stream ends.
OnlyClientIsTold ==
    \A s \in Streams :
        (spc[s] = "reading" /\ OnlyStream(s)) ~> (spc[s] # "reading" \/ ~OnlyStream(s))
=============================================================================
