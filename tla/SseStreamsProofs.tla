-------------------------- MODULE SseStreamsProofs --------------------------
(***************************************************************************)
(* Theorems of SseStreams, for every set of streams and every timeout.     *)
(***************************************************************************)
EXTENDS SseStreams, SequenceTheorems, TLAPS

-----------------------------------------------------------------------------
(* Type correctness. *)

\* What an emit does to the queue, whichever event it is.
LEMMA EmitType ==
    ASSUME TypeOK, NEW e \in Events, Emit(e)
    PROVE  /\ entry' = entry /\ age' \in 0..(Ttl + 1) /\ (entry # "here" => age' = 0)
           /\ q' \in Seq(Events) /\ sent' \in Seq(Events)
  <1>1. /\ Append(q, e) \in Seq(Events) /\ Append(sent, e) \in Seq(Events)
        /\ <<>> \in Seq(Events)
    BY AppendProperties, EmptySeq DEF TypeOK
  <1>2. 0 \in 0..(Ttl + 1)
    BY SseAssumption
  <1>3. CASE entry = "here"
    BY <1>1, <1>2, <1>3 DEF TypeOK, Emit
  <1>4. CASE entry # "here"
    BY <1>1, <1>4 DEF TypeOK, Emit
  <1>5. QED
    BY <1>3, <1>4

\* A stream that ends leaves nothing behind.
LEMMA StreamEndsType ==
    ASSUME TypeOK, NEW s \in Streams, NEW from, StreamEnds(s, from)
    PROVE  /\ spc' \in [Streams -> StreamSteps]
           /\ wait' \in [Streams -> 0..KeepAlive]
           /\ seen' \in [Streams -> Seq(Events)]
  <1>1. <<>> \in Seq(Events) /\ 0 \in 0..KeepAlive
    BY EmptySeq, SseAssumption
  <1>2. QED
    BY <1>1 DEF TypeOK, StreamEnds, StreamMoves, StreamSteps

\* The handlers and the retries.
LEMMA HandlerType ==
    ASSUME TypeOK, CreateQueue \/ RefuseRequest \/ HandlerStep \/ PutRetry
    PROVE  TypeOK'
  <1> USE SseAssumption DEF HandlerMoves, HandlerSteps, job, registry, streams
  <1>1. CASE CreateQueue
    BY <1>1 DEF TypeOK, CreateQueue, Entries
  <1>2. CASE RefuseRequest
    BY <1>2 DEF TypeOK, RefuseRequest, Remove, Entries
  <1>3. CASE AcceptRequest
    BY <1>3 DEF TypeOK, AcceptRequest
  <1>4. CASE PutRequest
    BY <1>4 DEF TypeOK, PutRequest, Put
  <1>5. CASE PutRetry
    BY <1>5 DEF TypeOK, PutRetry, Put
  <1>6. CASE Announce
    <2>1. Emit("queued") /\ "queued" \in Events
      BY <1>6 DEF Announce, Events
    <2>2. QED
      BY <1>6, <2>1, EmitType DEF TypeOK, Announce
  <1>7. QED
    BY <1>1, <1>2, <1>3, <1>4, <1>5, <1>6 DEF HandlerStep

\* The worker and its sweep.
LEMMA WorkerType == ASSUME TypeOK, WorkerStep \/ Sweep PROVE TypeOK'
  <1> USE SseAssumption DEF JobMoves, JobSteps, job, registry, streams
  <1>1. CASE TakeJob
    BY <1>1 DEF TypeOK, TakeJob
  <1>2. ASSUME NEW e \in Events, Emit(e), NEW step \in JobSteps, jpc' = step,
               row' \in {"new", "failed"}, UNCHANGED <<hpc, puts, copies, streams>>
        PROVE  TypeOK'
    BY <1>2, EmitType DEF TypeOK
  <1>3. CASE Progress
    BY <1>2, <1>3 DEF Progress, Events, TypeOK
  <1>4. CASE JobDone
    BY <1>2, <1>4 DEF JobDone, Events, Terminal, TypeOK
  <1>5. CASE StepFails
    BY <1>5 DEF TypeOK, StepFails
  <1>6. CASE JobFailed
    BY <1>2, <1>6 DEF JobFailed, Events, Terminal, TypeOK
  <1>7. CASE Sweep
    BY <1>7 DEF TypeOK, Sweep, Entries
  <1>8. QED
    BY <1>1, <1>3, <1>4, <1>5, <1>6, <1>7 DEF WorkerStep

\* The streams.
LEMMA StreamType ==
    ASSUME TypeOK, NEW s \in Streams, Open(s) \/ Leave(s) \/ StreamStep(s)
    PROVE  TypeOK'
  <1> USE SseAssumption DEF job, registry
  <1>0. <<>> \in Seq(Events)
    BY EmptySeq
  <1>1. CASE Open(s)
    BY <1>0, <1>1 DEF TypeOK, Open, StreamMoves, StreamSteps
  <1>2. CASE Begin(s)
    <2>1. CASE StreamEnds(s, "checked")
      BY <1>2, <2>1, StreamEndsType DEF TypeOK, Begin
    <2>2. CASE StreamMoves(s, "checked", "reading") /\ UNCHANGED <<wait, seen>>
      BY <1>2, <2>2 DEF TypeOK, Begin, StreamMoves, StreamSteps
    <2>3. QED
      BY <1>2, <2>1, <2>2 DEF Begin
  <1>3. CASE Deliver(s)
    <2>1. Head(q) \in Events /\ Tail(q) \in Seq(Events)
      BY <1>3, HeadTailProperties DEF Deliver, TypeOK
    <2>2. QED
      BY <1>0, <1>3, <2>1 DEF TypeOK, Deliver, StreamMoves, StreamSteps
  <1>4. CASE SendsKeepAlive(s)
    BY <1>4 DEF TypeOK, SendsKeepAlive, StreamMoves, StreamSteps, Touch
  <1>5. CASE Finish(s)
    BY <1>5, StreamEndsType DEF TypeOK, Finish, Remove, Entries
  <1>6. CASE LastGetReturns(s)
    <2>1. q # <<>> => Tail(q) \in Seq(Events)
      BY HeadTailProperties DEF TypeOK
    <2>2. StreamEnds(s, "gone")
      BY <1>6 DEF LastGetReturns
    <2>3. CASE q # <<>> /\ q' = Tail(q) /\ UNCHANGED registry
      BY <1>6, <2>1, <2>2, <2>3, StreamEndsType DEF TypeOK, LastGetReturns
    <2>4. CASE q = <<>> /\ Touch /\ UNCHANGED q
      BY <1>6, <2>2, <2>4, StreamEndsType DEF TypeOK, LastGetReturns, Touch
    <2>5. QED
      BY <1>6, <2>3, <2>4 DEF LastGetReturns
  <1>7. CASE Leave(s)
    <2>1. CASE \E from \in {"checked", "reading", "last"} : StreamEnds(s, from)
      BY <1>7, <2>1, StreamEndsType DEF TypeOK, Leave
    <2>2. CASE StreamMoves(s, "reading", "gone") /\ UNCHANGED <<wait, seen>>
      BY <1>7, <2>2 DEF TypeOK, Leave, StreamMoves, StreamSteps
    <2>3. QED
      BY <1>7, <2>1, <2>2 DEF Leave
  <1>8. QED
    BY <1>1, <1>2, <1>3, <1>4, <1>5, <1>6, <1>7 DEF StreamStep

\* Time.
LEMMA TickType == ASSUME TypeOK, Tick PROVE TypeOK'
  <1>1. wait' \in [Streams -> 0..KeepAlive]
    BY SseAssumption DEF TypeOK, Tick, Blocked
  <1>2. QED
    BY <1>1, SseAssumption DEF TypeOK, Tick, job

\* Every variable keeps its type, a refused request leaves no queue, and no get
\* is blocked for longer than its timeout (api.sse_stream).
THEOREM TypeCorrect == Spec => []TypeOK
  <1>1. Init => TypeOK
    BY SseAssumption DEF Init, TypeOK, Entries, HandlerSteps, JobSteps, StreamSteps
  <1>2. TypeOK /\ [Next]_vars => TypeOK'
    <2> SUFFICES ASSUME TypeOK, [Next]_vars PROVE TypeOK'
      OBVIOUS
    <2>1. CASE UNCHANGED vars
      BY <2>1 DEF TypeOK, vars, registry, job, streams
    <2>2. CASE Next
      BY <2>2, HandlerType, WorkerType, StreamType, TickType DEF Next
    <2>3. QED
      BY <2>1, <2>2
  <1>3. QED
    BY <1>1, <1>2, PTL DEF Spec

-----------------------------------------------------------------------------
(* The sweep and the streams.                                               *)

\* Clients come early enough: before the sweep can take the queue during the
\* first get of their stream.
TimelyClients == OpenWithin + KeepAlive <= Ttl

Attending == {"checked", "reading", "last"}

\* The entry of an attended queue was active not long ago: when the stream was
\* opened, when its get was last touched, or when the event it got was emitted.
AttendedIsRecent ==
    \A s \in Streams :
        entry = "here" =>
            /\ spc[s] \in {"checked", "last"} => age <= OpenWithin
            /\ spc[s] = "reading" => age <= OpenWithin + wait[s]
            /\ spc[s] = "reading" /\ q # <<>> => age <= OpenWithin

SweptIsUnattended == entry = "swept" => \A s \in Streams : spc[s] \notin Attending

SInv == TypeOK /\ AttendedIsRecent /\ SweptIsUnattended

\* No step of the worker or of a handler makes an attended queue old; the sweep
\* finds it recent.
LEMMA JobStepsKeepRecent ==
    ASSUME TimelyClients, SInv,
           CreateQueue \/ RefuseRequest \/ HandlerStep \/ PutRetry \/ WorkerStep \/ Sweep
    PROVE  AttendedIsRecent' /\ SweptIsUnattended'
  <1> USE SseAssumption DEF job, registry, streams
  <1>1. ASSUME NEW e, Emit(e), UNCHANGED streams
        PROVE  AttendedIsRecent' /\ SweptIsUnattended'
    <2>1. CASE entry = "here"
      BY <1>1, <2>1 DEF SInv, TypeOK, Emit, AttendedIsRecent, SweptIsUnattended
    <2>2. CASE entry # "here"
      BY <1>1, <2>2 DEF SInv, Emit, AttendedIsRecent, SweptIsUnattended
    <2>3. QED
      BY <2>1, <2>2
  <1>2. ASSUME UNCHANGED <<registry, q, streams>>
        PROVE  AttendedIsRecent' /\ SweptIsUnattended'
    BY <1>2 DEF SInv, AttendedIsRecent, SweptIsUnattended
  <1>3. CASE CreateQueue
    BY <1>3 DEF SInv, TypeOK, CreateQueue, AttendedIsRecent, SweptIsUnattended
  <1>4. CASE RefuseRequest
    BY <1>4 DEF SInv, RefuseRequest, Remove, AttendedIsRecent, SweptIsUnattended
  <1>5. CASE Sweep
    <2>1. CASE age > Ttl
      <3>1. \A s \in Streams : wait[s] \in 0..KeepAlive
        BY DEF SInv, TypeOK
      <3>2. entry = "here"
        BY <2>1 DEF SInv, TypeOK
      <3>3. age \in Nat /\ \A w \in 0..KeepAlive : ~(age <= OpenWithin + w)
        BY <2>1 DEF SInv, TypeOK, TimelyClients
      <3>4. ~(age <= OpenWithin)
        BY <2>1, <3>3 DEF TimelyClients
      <3>5. \A s \in Streams : spc[s] \notin Attending
        BY <3>1, <3>2, <3>3, <3>4 DEF SInv, AttendedIsRecent, Attending
      <3>6. QED
        BY <1>5, <2>1, <3>5 DEF Sweep, AttendedIsRecent, SweptIsUnattended
    <2>2. CASE ~(age > Ttl)
      BY <1>2, <1>5, <2>2 DEF Sweep
    <2>3. QED
      BY <2>1, <2>2
  <1>6. CASE AcceptRequest \/ PutRequest \/ PutRetry \/ TakeJob \/ StepFails
    BY <1>2, <1>6 DEF AcceptRequest, PutRequest, PutRetry, TakeJob, StepFails
  <1>7. CASE Announce \/ Progress \/ JobDone \/ JobFailed
    BY <1>1, <1>7 DEF Announce, Progress, JobDone, JobFailed
  <1>8. QED
    BY <1>3, <1>4, <1>5, <1>6, <1>7 DEF HandlerStep, WorkerStep

\* A stream that waits touches its queue in time, and one that is let through
\* finds a recent queue.
LEMMA StreamStepsKeepRecent ==
    ASSUME SInv, NEW s \in Streams, Open(s) \/ Leave(s) \/ StreamStep(s)
    PROVE  AttendedIsRecent' /\ SweptIsUnattended'
  <1> USE SseAssumption DEF job, registry, SInv, AttendedIsRecent, SweptIsUnattended
  <1>1. ASSUME NEW from, StreamEnds(s, from), UNCHANGED q,
               UNCHANGED registry \/ Touch \/ Remove
        PROVE  AttendedIsRecent' /\ SweptIsUnattended'
    BY <1>1 DEF TypeOK, StreamEnds, StreamMoves, Touch, Remove, Attending
  <1>2. CASE Open(s)
    BY <1>2 DEF TypeOK, Open, StreamMoves, Attending
  <1>3. CASE Begin(s)
    <2>1. CASE StreamEnds(s, "checked")
      BY <1>1, <1>3, <2>1 DEF Begin
    <2>2. CASE entry = "here" /\ StreamMoves(s, "checked", "reading") /\ UNCHANGED <<wait, seen>>
      BY <1>3, <2>2 DEF TypeOK, Begin, StreamMoves, Attending
    <2>3. QED
      BY <1>3, <2>1, <2>2 DEF Begin
  <1>4. CASE Deliver(s)
    BY <1>4 DEF TypeOK, Deliver, StreamMoves, Attending
  <1>5. CASE SendsKeepAlive(s)
    BY <1>5 DEF TypeOK, SendsKeepAlive, StreamMoves, Touch, Attending
  <1>6. CASE Finish(s)
    BY <1>1, <1>6 DEF Finish
  <1>7. CASE LastGetReturns(s)
    <2>1. CASE q # <<>> /\ q' = Tail(q) /\ UNCHANGED registry
      BY <1>7, <2>1 DEF TypeOK, LastGetReturns, StreamEnds, StreamMoves, Attending
    <2>2. CASE Touch /\ UNCHANGED q
      BY <1>1, <1>7, <2>2 DEF LastGetReturns
    <2>3. QED
      BY <1>7, <2>1, <2>2 DEF LastGetReturns
  <1>8. CASE Leave(s)
    <2>1. CASE \E from \in {"checked", "reading", "last"} : StreamEnds(s, from)
      BY <1>1, <1>8, <2>1 DEF Leave
    <2>2. CASE StreamMoves(s, "reading", "gone") /\ UNCHANGED <<wait, seen>>
      BY <1>8, <2>2 DEF TypeOK, Leave, StreamMoves, Attending
    <2>3. QED
      BY <1>8, <2>1, <2>2 DEF Leave
  <1>9. QED
    BY <1>2, <1>3, <1>4, <1>5, <1>6, <1>7, <1>8 DEF StreamStep

\* While time passes for the queue, it passes for the gets that are blocked.
LEMMA TickKeepsRecent ==
    ASSUME SInv, Tick PROVE AttendedIsRecent' /\ SweptIsUnattended'
  <1>1. SweptIsUnattended'
    BY DEF SInv, Tick, SweptIsUnattended
  <1>2. ASSUME NEW s \in Streams, entry = "here", spc[s] \in {"checked", "last", "reading"}
        PROVE  /\ spc[s] = "reading" /\ q = <<>>
               /\ age' <= OpenWithin + wait'[s]
    <2>1. spc[s] = "reading" /\ q = <<>> /\ wait'[s] = wait[s] + 1
      BY <1>2 DEF Tick, Blocked
    <2>2. age \in Nat /\ wait[s] \in Nat /\ age <= OpenWithin + wait[s]
      BY <1>2, <2>1, SseAssumption DEF SInv, TypeOK, AttendedIsRecent
    <2>3. age' <= age + 1
      BY <2>2 DEF Tick
    <2>4. QED
      BY <2>1, <2>2, <2>3, SseAssumption DEF Tick, SInv, TypeOK
  <1>3. UNCHANGED <<entry, spc, q>>
    BY DEF Tick
  <1>4. AttendedIsRecent'
    BY <1>2, <1>3 DEF AttendedIsRecent
  <1>5. QED
    BY <1>1, <1>4

\* The sweep's invariant: an attended queue is a recent one.
LEMMA RecencyInvariant == ASSUME TimelyClients PROVE Spec => []SInv
  <1>1. Init => SInv
    BY TypeCorrect, SseAssumption DEF Init, SInv, TypeOK, AttendedIsRecent, SweptIsUnattended,
       Attending, Entries, HandlerSteps, JobSteps, StreamSteps
  <1>2. TypeOK' /\ SInv /\ [Next]_vars => SInv'
    <2> SUFFICES ASSUME TypeOK', SInv, [Next]_vars
                 PROVE  AttendedIsRecent' /\ SweptIsUnattended'
      BY DEF SInv
    <2>1. CASE UNCHANGED vars
      BY <2>1 DEF SInv, vars, registry, streams, AttendedIsRecent, SweptIsUnattended
    <2>2. CASE Next
      BY <2>2, JobStepsKeepRecent, StreamStepsKeepRecent, TickKeepsRecent DEF Next
    <2>3. QED
      BY <2>1, <2>2
  <1>3. QED
    BY <1>1, <1>2, TypeCorrect, PTL DEF Spec

\* When clients come in time, the sweep takes no queue that somebody reads
\* (worker._cleanup_expired_queues, worker.touch_sse_queue).
THEOREM SweepSparesReaders ==
    ASSUME TimelyClients PROVE Spec => []SweptIsOrphaned
  <1>1. SInv => SweptIsOrphaned
    BY DEF SInv, SweptIsUnattended, SweptIsOrphaned, Attending
  <1>2. QED
    BY <1>1, RecencyInvariant, PTL

-----------------------------------------------------------------------------
(* The only client of a job.                                                *)

\* An event moves from the front of the queue to what the client has seen.
LEMMA DeliveryIsExact ==
    ASSUME NEW b \in Seq(Events), NEW p \in Seq(Events), p # <<>>
    PROVE  Append(b, Head(p)) \o Tail(p) = b \o p
  <1> DEFINE e == Head(p)
             t == Tail(p)
  <1>1. e \in Events /\ t \in Seq(Events)
    BY HeadTailProperties
  <1>2. p = <<e>> \o t
    BY HeadTailProperties
  <1>3. <<e>> \in Seq(Events) /\ Append(b, e) = b \o <<e>>
    BY <1>1, AppendIsConcat
  <1> HIDE DEF e, t
  <1>4. (b \o <<e>>) \o t = b \o (<<e>> \o t)
    BY <1>1, <1>3, ConcatAssociative
  <1>5. QED
    BY <1>2, <1>3, <1>4 DEF e, t

\* An event that is emitted goes to the end of what the client will have seen.
LEMMA EmissionIsExact ==
    ASSUME NEW b \in Seq(Events), NEW p \in Seq(Events), NEW e \in Events
    PROVE  b \o Append(p, e) = Append(b \o p, e)
  <1>1. Append(p, e) = p \o <<e>> /\ <<e>> \in Seq(Events)
    BY AppendIsConcat
  <1>2. b \o p \in Seq(Events)
    BY ConcatProperties
  <1>3. Append(b \o p, e) = (b \o p) \o <<e>>
    BY <1>2, AppendIsConcat
  <1>4. QED
    BY <1>1, <1>3, ConcatAssociative

\* Until the request is accepted nobody streams, and until its queue exists
\* nothing has happened.
NothingBefore ==
    /\ hpc \in {"start", "created", "accepted", "refused"} =>
           \A s \in Streams : spc[s] = "off"
    /\ hpc = "start" => copies = 0 /\ jpc = "idle" /\ sent = <<>> /\ q = <<>>

OffSawNothing == \A s \in Streams : spc[s] = "off" => seen[s] = <<>>

\* The only client finds the queue in its place ...
OnlyClientHasQueue ==
    \A s \in Streams : OnlyStream(s) /\ spc[s] \in Attending => entry = "here"

\* ... and all that was emitted is in it, or was sent to that client.
QueueIsWhole ==
    \A s \in Streams :
        OnlyStream(s) /\ spc[s] \in Attending \cup {"off"} /\ entry = "here"
            => seen[s] \o q = sent

WInv == SInv /\ NothingBefore /\ OffSawNothing /\ OnlyClientHasQueue /\ QueueIsWhole

WholeParts == NothingBefore /\ OffSawNothing /\ OnlyClientHasQueue /\ QueueIsWhole

\* Whatever the job emits is appended to the queue of its only client.
LEMMA EmissionsKeepWhole ==
    ASSUME WInv, hpc # "start", hpc' # "start", NEW e \in Events, Emit(e), UNCHANGED streams,
           hpc' \in {"created", "accepted", "refused"} => hpc' = hpc
    PROVE  WholeParts'
  <1> USE DEF streams
  <1>1. UNCHANGED <<spc, wait, seen, entry>>
    BY DEF Emit
  <1>2. NothingBefore' /\ OffSawNothing' /\ OnlyClientHasQueue'
    BY <1>1 DEF WInv, NothingBefore, OffSawNothing, OnlyClientHasQueue, OnlyStream
  <1>3. ASSUME NEW s \in Streams, OnlyStream(s), spc[s] \in Attending \cup {"off"},
               entry = "here"
        PROVE  seen[s] \o q' = sent'
    <2>1. q' = Append(q, e) /\ sent' = Append(sent, e) /\ seen[s] \o q = sent
      BY <1>3 DEF Emit, WInv, QueueIsWhole, MayBeAlone, Attending
    <2>2. seen[s] \in Seq(Events) /\ q \in Seq(Events)
      BY DEF WInv, SInv, TypeOK
    <2>3. QED
      BY <2>1, <2>2, EmissionIsExact
  <1>4. QueueIsWhole'
    BY <1>1, <1>3 DEF QueueIsWhole, OnlyStream
  <1>5. QED
    BY <1>2, <1>4 DEF WholeParts

\* Handlers, retries and the worker.
LEMMA JobStepsKeepWhole ==
    ASSUME TimelyClients, WInv, TypeOK',
           CreateQueue \/ RefuseRequest \/ HandlerStep \/ PutRetry \/ WorkerStep \/ Sweep
    PROVE  WholeParts'
  <1> USE DEF job, registry, streams, HandlerMoves, JobMoves
  <1>1. ASSUME UNCHANGED <<registry, q, sent, streams>>, hpc # "start", hpc' # "start",
               hpc' \in {"created", "accepted", "refused"} => hpc \in {"created", "accepted", "refused"}
        PROVE  WholeParts'
    BY <1>1 DEF WInv, WholeParts, NothingBefore, OffSawNothing, OnlyClientHasQueue,
       QueueIsWhole, OnlyStream
  <1>2. CASE CreateQueue
    <2>1. /\ \A s \in Streams : spc[s] = "off" /\ seen[s] = <<>>
          /\ sent = <<>> /\ q = <<>> /\ <<>> \o <<>> = <<>>
      BY <1>2, ConcatEmptySeq, EmptySeq DEF CreateQueue, WInv, NothingBefore, OffSawNothing
    <2>2. UNCHANGED <<q, sent, spc, seen>> /\ hpc' = "created"
      BY <1>2 DEF CreateQueue
    <2>3. QED
      BY <2>1, <2>2 DEF WholeParts, NothingBefore, OffSawNothing, OnlyClientHasQueue,
         QueueIsWhole, OnlyStream, Attending
  <1>3. CASE RefuseRequest
    BY <1>3 DEF RefuseRequest, Remove, WInv, WholeParts, NothingBefore, OffSawNothing,
       OnlyClientHasQueue, QueueIsWhole, OnlyStream, Attending
  <1>4. CASE Sweep
    <2>1. CASE age > Ttl
      <3>1. SweptIsUnattended' /\ UNCHANGED <<hpc, copies, q, sent, spc, seen>>
            /\ entry' = "swept" /\ jpc' = "idle"
        BY <1>4, <2>1, JobStepsKeepRecent DEF WInv, Sweep
      <3>2. QED
        BY <3>1 DEF WInv, WholeParts, NothingBefore, OffSawNothing, OnlyClientHasQueue,
           QueueIsWhole, OnlyStream, SweptIsUnattended
    <2>2. CASE ~(age > Ttl)
      BY <1>4, <2>2 DEF Sweep, WInv, WholeParts, NothingBefore, OffSawNothing,
         OnlyClientHasQueue, QueueIsWhole, OnlyStream
    <2>3. QED
      BY <2>1, <2>2
  <1>5. CASE AcceptRequest \/ PutRequest \/ PutRetry
    BY <1>1, <1>5 DEF AcceptRequest, PutRequest, PutRetry
  <1>6. CASE TakeJob \/ StepFails
    <2>1. hpc # "start"
      BY <1>6 DEF TakeJob, StepFails, WInv, NothingBefore
    <2>2. QED
      BY <1>1, <1>6, <2>1 DEF TakeJob, StepFails
  <1>7. CASE Announce
    <2>1. Emit("queued") /\ "queued" \in Events
      BY <1>7 DEF Announce, Events
    <2>2. QED
      BY <1>7, <2>1, EmissionsKeepWhole DEF Announce
  <1>8. CASE Progress \/ JobDone \/ JobFailed
    <2>1. hpc # "start" /\ UNCHANGED <<hpc, streams>>
      BY <1>8 DEF Progress, JobDone, JobFailed, WInv, NothingBefore
    <2>2. \E e \in Events : Emit(e)
      BY <1>8 DEF Progress, JobDone, JobFailed, Events, Terminal
    <2>3. QED
      BY <2>1, <2>2, EmissionsKeepWhole
  <1>9. QED
    BY <1>2, <1>3, <1>4, <1>5, <1>6, <1>7, <1>8 DEF HandlerStep, WorkerStep

\* Streams: an event is delivered to the only client or not at all.
LEMMA StreamStepsKeepWhole ==
    ASSUME WInv, NEW s \in Streams, Open(s) \/ Leave(s) \/ StreamStep(s)
    PROVE  WholeParts'
  <1> USE DEF job, registry
  <1>1. hpc \notin {"start", "created", "accepted", "refused"} /\ UNCHANGED job
    BY DEF WInv, NothingBefore, Open, LoopIsFree, Leave, StreamStep, Begin, Deliver,
       SendsKeepAlive, Finish, LastGetReturns, StreamMoves, StreamEnds
  <1>2. NothingBefore'
    BY <1>1 DEF NothingBefore
  \* A stream that ends was there: nobody else is the only client any more.
  <1>3. ASSUME NEW from, StreamEnds(s, from), from # "off"
        PROVE  WholeParts'
    <2>1. \A r \in Streams : OnlyStream(r)' => r = s
      BY <1>3 DEF StreamEnds, StreamMoves, OnlyStream, WInv, SInv, TypeOK
    <2>2. spc'[s] = "ended" /\ \A r \in Streams : spc'[r] = "off" => spc[r] = "off" /\ seen'[r] = seen[r]
      BY <1>3 DEF StreamEnds, StreamMoves, WInv, SInv, TypeOK
    <2>3. QED
      BY <1>2, <2>1, <2>2 DEF WInv, WholeParts, OffSawNothing, OnlyClientHasQueue,
         QueueIsWhole, Attending
  \* A stream that goes on without an event.
  <1>4. ASSUME NEW to, NEW from, StreamMoves(s, from, to), to # "off",
               UNCHANGED <<entry, q, sent, seen>>,
               to \in Attending => entry = "here" /\ from \in Attending \cup {"off"}
        PROVE  WholeParts'
    <2>1. \A r \in Streams : spc'[r] = IF r = s THEN to ELSE spc[r]
      BY <1>4 DEF StreamMoves, WInv, SInv, TypeOK
    <2>2. \A r \in Streams : OnlyStream(r)' => OnlyStream(r)
      BY <2>1, <1>4 DEF OnlyStream
    <2>3. OffSawNothing' /\ OnlyClientHasQueue'
      BY <1>4, <2>1, <2>2 DEF WInv, OffSawNothing, OnlyClientHasQueue
    <2>4. QueueIsWhole'
      BY <1>4, <2>1, <2>2 DEF WInv, QueueIsWhole, StreamMoves, OnlyStream, Attending
    <2>5. QED
      BY <1>2, <2>3, <2>4 DEF WholeParts
  <1>5. CASE Open(s)
    <2>1. CASE OnlyStream(s)
      BY <1>4, <1>5, <2>1 DEF Open, Attending
    <2>2. CASE ~OnlyStream(s)
      <3>1. /\ \A r \in Streams : seen'[r] = <<>>
            /\ \A r \in Streams : spc'[r] = IF r = s THEN "checked" ELSE spc[r]
        BY <1>5, <2>2 DEF Open, StreamMoves, WInv, SInv, TypeOK
      <3>2. \A r \in Streams : ~OnlyStream(r)'
        BY <2>2, <3>1 DEF OnlyStream
      <3>3. QED
        BY <1>2, <3>1, <3>2 DEF WholeParts, OffSawNothing, OnlyClientHasQueue, QueueIsWhole
    <2>3. QED
      BY <2>1, <2>2
  <1>6. CASE Begin(s)
    BY <1>3, <1>4, <1>6 DEF Begin, Attending
  <1>7. CASE Deliver(s)
    <2> DEFINE to == IF Head(q) \in Terminal THEN "last" ELSE "reading"
    <2>1. /\ q # <<>> /\ spc[s] = "reading" /\ to \in Attending
          /\ \A r \in Streams : spc'[r] = IF r = s THEN to ELSE spc[r]
          /\ OnlyStream(s) => seen'[s] = Append(seen[s], Head(q))
          /\ \A r \in Streams : r # s => seen'[r] = seen[r]
          /\ q' = Tail(q) /\ UNCHANGED <<entry, sent>>
      BY <1>7 DEF Deliver, StreamMoves, WInv, SInv, TypeOK, Attending
    <2> HIDE DEF to
    <2>2. \A r \in Streams : OnlyStream(r)' => r = s /\ OnlyStream(r)
      BY <2>1 DEF OnlyStream, Attending
    <2>3. OnlyStream(s) => seen'[s] \o q' = seen[s] \o q
      BY <2>1, DeliveryIsExact DEF WInv, SInv, TypeOK
    <2>4. OffSawNothing' /\ OnlyClientHasQueue'
      BY <2>1, <2>2 DEF WInv, OffSawNothing, OnlyClientHasQueue, Attending
    <2>5. QueueIsWhole'
      BY <2>1, <2>2, <2>3 DEF WInv, QueueIsWhole, Attending
    <2>6. QED
      BY <1>2, <2>4, <2>5 DEF WholeParts
  <1>8. CASE SendsKeepAlive(s)
    <2>1. CASE entry = "here"
      BY <1>4, <1>8, <2>1 DEF SendsKeepAlive, Touch, Attending
    <2>2. CASE entry # "here"
      BY <1>2, <1>8, <2>2 DEF SendsKeepAlive, Touch, StreamMoves, WInv, SInv, TypeOK,
         WholeParts, OffSawNothing, OnlyClientHasQueue, QueueIsWhole, OnlyStream
    <2>3. QED
      BY <2>1, <2>2
  <1>9. CASE Finish(s)
    BY <1>3, <1>9 DEF Finish
  <1>10. CASE LastGetReturns(s)
    BY <1>3, <1>10 DEF LastGetReturns
  <1>11. CASE Leave(s)
    BY <1>3, <1>4, <1>11 DEF Leave, Attending
  <1>12. QED
    BY <1>5, <1>6, <1>7, <1>8, <1>9, <1>10, <1>11 DEF StreamStep

\* Time changes nothing of it.
LEMMA TickKeepsWhole == ASSUME WInv, Tick PROVE WholeParts'
  BY DEF WInv, Tick, job, WholeParts, NothingBefore, OffSawNothing, OnlyClientHasQueue,
     QueueIsWhole, OnlyStream

\* When clients come in time, the only client of a job is sent every event once
\* and in order (worker.emit, api.sse_stream).
THEOREM OnlyClientIsSentEverything ==
    ASSUME TimelyClients PROVE Spec => []OnlyClientMissesNothing
  <1>1. Init /\ SInv => WInv
    BY DEF Init, WInv, NothingBefore, OffSawNothing, OnlyClientHasQueue, QueueIsWhole, Attending
  <1>2. WInv /\ SInv' /\ [Next]_vars => WInv'
    <2> SUFFICES ASSUME WInv, SInv', [Next]_vars PROVE WholeParts'
      BY DEF WInv, WholeParts
    <2>1. CASE UNCHANGED vars
      BY <2>1 DEF WInv, WholeParts, vars, registry, streams, job, NothingBefore,
         OffSawNothing, OnlyClientHasQueue, QueueIsWhole, OnlyStream
    <2>2. CASE Next
      BY <2>2, JobStepsKeepWhole, StreamStepsKeepWhole, TickKeepsWhole DEF Next, SInv
    <2>3. QED
      BY <2>1, <2>2
  <1>3. WInv => OnlyClientMissesNothing
    BY DEF WInv, OnlyClientHasQueue, QueueIsWhole, OnlyClientMissesNothing, Attending
  <1>4. QED
    BY <1>1, <1>2, <1>3, RecencyInvariant, PTL DEF Spec
=============================================================================
