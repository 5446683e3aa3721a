-------------------------- MODULE DownloaderProofs ---------------------------
(***************************************************************************)
(* Theorems of Downloader, for all videos and answers, any number of pool  *)
(* threads and of jobs.                                                    *)
(***************************************************************************)
EXTENDS Downloader, SequenceTheorems, WellFoundedInduction, TLAPS

-----------------------------------------------------------------------------
(* Calls and the pool. *)

\* What makes a call, and a file.
LEMMA CallTypes ==
    /\ [kind |-> "meta", by |-> "worker"] \in Call
    /\ [kind |-> "candidates", by |-> "loop"] \in Call
    /\ \A m \in Mbids, x \in Targets, f \in Formats :
          /\ FetchCall(m, x, f) \in Call
          /\ Awaited(FetchCall(m, x, f)) /\ FetchCall(m, x, f).kind = "fetch"
          /\ FetchCall(m, x, f).mbid = m /\ FetchCall(m, x, f).target = x
          /\ FetchCall(m, x, f).format = f
    /\ \A c \in Call : /\ c # NoCall
                       /\ c.by \in {"worker", "loop", "nobody"}
                       /\ c.kind \in {"meta", "candidates", "fetch"}
                       /\ c.kind = "fetch" => /\ c.mbid \in Mbids
                                              /\ c.target \in Targets
                                              /\ c.format \in Formats
    /\ \A v \in Videos, late \in BOOLEAN :
          /\ [video |-> v, late |-> late] \in File
          /\ [video |-> v, late |-> late] # NoFile
  BY NullAssumption DEF Call, FetchCall, Awaited, File

\* A call that is given up is still a call, and nobody waits for it.
LEMMA GivenUpCall ==
    ASSUME NEW c \in Call \cup {NoCall}, NEW by \in {"worker", "loop"}
    PROVE  /\ GivenUp(c, by) \in Call \cup {NoCall}
           /\ c \in Call => GivenUp(c, by) \in Call
           /\ by = "worker" => ~Awaited(GivenUp(c, by))
           /\ Awaited(GivenUp(c, by)) => GivenUp(c, by) = c
  <1>1. CASE c # NoCall /\ c.by = by
    <2> DEFINE d == [c EXCEPT !.by = "nobody"]
    <2>1. GivenUp(c, by) = d
      BY <1>1 DEF GivenUp
    <2>2. d \in Call /\ d.by = "nobody"
      BY <1>1 DEF Call
    <2>3. QED
      BY <1>1, <2>1, <2>2 DEF Awaited
  <1>2. CASE ~(c # NoCall /\ c.by = by)
    BY <1>2 DEF GivenUp, Awaited
  <1>3. QED
    BY <1>1, <1>2

\* A caller that gives up leaves queue and threads in place.
LEMMA GivesUpEffect ==
    ASSUME TypeOK, NEW by \in {"worker", "loop"}, GivesUp(by)
    PROVE  /\ waiting' \in Seq(Call) /\ DOMAIN waiting' = DOMAIN waiting
           /\ \A i \in DOMAIN waiting : waiting'[i] = GivenUp(waiting[i], by)
           /\ thread' \in [Threads -> Call \cup {NoCall}]
           /\ \A t \in Threads : thread'[t] = GivenUp(thread[t], by)
  <1>1. /\ DOMAIN waiting = 1 .. Len(waiting) /\ Len(waiting) \in Nat
        /\ \A i \in DOMAIN waiting : waiting[i] \in Call
    BY DEF TypeOK
  <1>2. waiting' \in [1 .. Len(waiting) -> Call]
    BY <1>1, GivenUpCall DEF GivesUp
  <1>3. waiting' \in Seq(Call)
    BY <1>1, <1>2, SeqDef
  <1>4. thread' \in [Threads -> Call \cup {NoCall}]
    BY GivenUpCall DEF TypeOK, GivesUp
  <1>5. QED
    BY <1>1, <1>3, <1>4 DEF GivesUp

\* A call at the end of the queue.
LEMMA SubmitEffect ==
    ASSUME TypeOK, NEW c \in Call, Submit(c)
    PROVE  /\ waiting' \in Seq(Call)
           /\ DOMAIN waiting' = 1 .. (Len(waiting) + 1)
           /\ DOMAIN waiting = 1 .. Len(waiting) /\ Len(waiting) \in Nat
           /\ \A i \in DOMAIN waiting : waiting'[i] = waiting[i]
           /\ waiting'[Len(waiting) + 1] = c
  BY AppendProperties DEF TypeOK, Submit

\* The first call of the queue gets a thread.
LEMMA TakesEffect ==
    ASSUME TypeOK, NEW t \in Threads, Takes(t)
    PROVE  /\ waiting' \in Seq(Call)
           /\ thread' \in [Threads -> Call \cup {NoCall}]
           /\ 1 \in DOMAIN waiting /\ thread[t] = NoCall
           /\ \A u \in Threads : thread'[u] = IF u = t THEN waiting[1] ELSE thread[u]
           /\ \A i \in DOMAIN waiting' :
                 /\ i + 1 \in DOMAIN waiting /\ i + 1 # 1 /\ i \in Nat
                 /\ waiting'[i] = waiting[i + 1]
  <1>1. waiting \in Seq(Call) /\ waiting # <<>>
    BY DEF TypeOK, Takes
  <1>2. /\ Head(waiting) = waiting[1] /\ Head(waiting) \in Call
        /\ 1 \in DOMAIN waiting /\ Len(waiting) \in Nat
        /\ DOMAIN waiting = 1 .. Len(waiting)
    BY <1>1, HeadTailProperties
  <1>3. /\ Tail(waiting) \in Seq(Call) /\ Len(Tail(waiting)) = Len(waiting) - 1
        /\ \A i \in 1 .. Len(Tail(waiting)) : Tail(waiting)[i] = waiting[i + 1]
    BY <1>1, HeadTailProperties
  <1>4. DOMAIN Tail(waiting) = 1 .. (Len(waiting) - 1)
    BY <1>3
  <1>5. \A i \in DOMAIN waiting' :
                 /\ i + 1 \in DOMAIN waiting /\ i + 1 # 1 /\ i \in Nat
                 /\ waiting'[i] = waiting[i + 1]
    BY <1>2, <1>3, <1>4 DEF Takes
  <1>6. QED
    BY <1>2, <1>3, <1>5 DEF Takes, TypeOK

\* A thread is free again.
LEMMA FreesEffect ==
    ASSUME TypeOK, NEW t \in Threads, Frees(t)
    PROVE  /\ waiting' = waiting
           /\ thread' \in [Threads -> Call \cup {NoCall}]
           /\ \A u \in Threads : thread'[u] = IF u = t THEN NoCall ELSE thread[u]
  BY DEF TypeOK, Frees

-----------------------------------------------------------------------------
(* Who waits for what. *)

\* When nobody waits, every claim about the worker's call holds.
LEMMA NoneAwaitedSuffices ==
    NoneAwaited => CallsAreCurrent /\ OneIsAwaited
  BY DEF NoneAwaited, CallsAreCurrent, OneIsAwaited, IsCurrent

\* In the steps that wait for nothing the pool runs nothing for the worker.
LEMMA OnlyInWaitingSteps ==
    ASSUME IInv, pc \notin {"meta", "fetch"} PROVE NoneAwaited
  <1>1. \A c \in Call \cup {NoCall} : IsCurrent(c) /\ Awaited(c) => FALSE
    BY CallTypes DEF IInv, TypeOK, Steps, IsCurrent, Awaited
  <1>2. QED
    BY <1>1 DEF IInv, TypeOK, CallsAreCurrent, NoneAwaited

\* The worker's call has ended or was given up.
LEMMA AwaitedEnds ==
    ASSUME IInv, NEW t \in Threads, Awaited(thread[t]), Frees(t)
    PROVE  NoneAwaited'
  <1>1. /\ \A i \in DOMAIN waiting : ~Awaited(waiting[i])
        /\ \A u \in Threads : Awaited(thread[u]) => u = t
    BY DEF IInv, OneIsAwaited
  <1>2. QED
    BY <1>1, FreesEffect DEF IInv, NoneAwaited, Awaited

\* After a timeout no call is the worker's any more.
LEMMA AwaitedIsGivenUp ==
    ASSUME IInv, GivesUp("worker") PROVE NoneAwaited'
  BY GivesUpEffect, GivenUpCall DEF IInv, TypeOK, NoneAwaited

\* What is awaited is not touched.
LEMMA AwaitedStays ==
    ASSUME IInv, UNCHANGED <<pc, mbid, target, opts>>,
           \A i \in DOMAIN waiting' :
              Awaited(waiting'[i]) => i \in DOMAIN waiting /\ waiting'[i] = waiting[i],
           \A t \in Threads : Awaited(thread'[t]) => thread'[t] = thread[t]
    PROVE  CallsAreCurrent' /\ OneIsAwaited'
  <1>1. CallsAreCurrent'
    BY DEF IInv, CallsAreCurrent, IsCurrent
  <1>2. OneIsAwaited'
    BY DEF IInv, OneIsAwaited
  <1>3. QED
    BY <1>1, <1>2

\* The worker makes a call.
LEMMA SubmitAwaited ==
    ASSUME IInv, NoneAwaited, UNCHANGED thread, NEW c \in Call, Submit(c),
           pc' = c.kind, pc' = "fetch" => c = FetchCall(mbid', target', Head(opts'))
    PROVE  CallsAreCurrent' /\ OneIsAwaited'
  <1> DEFINE n == Len(waiting) + 1
  <1>1. /\ DOMAIN waiting' = 1 .. n /\ DOMAIN waiting = 1 .. Len(waiting)
        /\ n \in Nat /\ Len(waiting) \in Nat
        /\ waiting'[n] = c
        /\ \A i \in DOMAIN waiting : waiting'[i] = waiting[i]
    BY SubmitEffect DEF IInv
  <1>2. \A i \in DOMAIN waiting' : i # n => ~Awaited(waiting'[i])
    BY <1>1 DEF NoneAwaited
  <1>3. \A t \in Threads : ~Awaited(thread'[t])
    BY DEF NoneAwaited
  <1>4. CallsAreCurrent'
    <2>1. \A i \in DOMAIN waiting' : Awaited(waiting'[i]) => waiting'[i] = c
      BY <1>1, <1>2
    <2>2. QED
      BY <1>3, <2>1 DEF CallsAreCurrent, IsCurrent
  <1>5. OneIsAwaited'
    BY <1>2, <1>3 DEF OneIsAwaited
  <1>6. QED
    BY <1>4, <1>5

\* A call that gets its thread is awaited as it was in the queue.
LEMMA TakesKeepsCalls ==
    ASSUME IInv, NEW t \in Threads, Takes(t)
    PROVE  CallsAreCurrent' /\ OneIsAwaited'
  <1>1. /\ 1 \in DOMAIN waiting /\ ~Awaited(thread[t])
        /\ \A u \in Threads : thread'[u] = IF u = t THEN waiting[1] ELSE thread[u]
        /\ \A i \in DOMAIN waiting' :
              /\ i + 1 \in DOMAIN waiting /\ i + 1 # 1 /\ i \in Nat
              /\ waiting'[i] = waiting[i + 1]
    BY TakesEffect DEF IInv, Awaited
  <1>2. UNCHANGED <<pc, mbid, target, opts>>
    BY DEF Takes, locals
  <1>3. CallsAreCurrent'
    BY <1>1, <1>2 DEF IInv, CallsAreCurrent, IsCurrent
  <1>4. OneIsAwaited'
    <2>1. \A i, j \in DOMAIN waiting' :
             Awaited(waiting'[i]) /\ Awaited(waiting'[j]) => i = j
      BY <1>1 DEF IInv, OneIsAwaited
    <2>2. \A u, w \in Threads : Awaited(thread'[u]) /\ Awaited(thread'[w]) => u = w
      BY <1>1 DEF IInv, OneIsAwaited
    <2>3. \A i \in DOMAIN waiting', u \in Threads :
             ~(Awaited(waiting'[i]) /\ Awaited(thread'[u]))
      BY <1>1 DEF IInv, OneIsAwaited
    <2>4. QED
      BY <2>1, <2>2, <2>3 DEF OneIsAwaited
  <1>5. QED
    BY <1>3, <1>4

\* What the pool is doing for the worker is what the worker waits for.
LEMMA RunningIsCurrent ==
    ASSUME IInv, NEW t \in Threads, NEW kind, Runs(t, kind, "worker")
    PROVE  /\ Awaited(thread[t]) /\ thread[t] \in Call /\ pc = kind
           /\ kind = "fetch" => thread[t] = FetchCall(mbid, target, Head(opts))
  BY DEF IInv, TypeOK, CallsAreCurrent, IsCurrent, Runs, Awaited

-----------------------------------------------------------------------------
(* Types. *)

\* What is left of a list of formats is one.
LEMMA QueueOfFormats ==
    /\ SearchOpts \in Seq(Formats) /\ SearchOpts # <<>>
    /\ <<"flac", "opus">> \in Seq(Formats) /\ <<>> \in Seq(Formats)
    /\ \A o \in Seq(Formats) : o # <<>> => Head(o) \in Formats /\ Tail(o) \in Seq(Formats)
  <1>1. \A o \in Seq(Formats) : o # <<>> => Head(o) \in Formats /\ Tail(o) \in Seq(Formats)
    BY HeadTailProperties
  <1>2. "flac" \in Formats /\ "opus" \in Formats
    BY DEF Formats
  <1> HIDE DEF Formats
  <1>3. /\ <<"flac", "opus">> \in Seq(Formats) /\ <<"opus">> \in Seq(Formats)
        /\ <<>> \in Seq(Formats)
        /\ <<"flac", "opus">> # <<>> /\ <<"opus">> # <<>>
    BY <1>2
  <1>4. QED
    BY <1>1, <1>3 DEF SearchOpts

\* The staging directory with a file more, or without one.
LEMMA FileTypes ==
    ASSUME TypeOK, NEW c \in Call, c.kind = "fetch", NEW v \in Videos,
           NEW late \in BOOLEAN, Writes(c, v, late)
    PROVE  /\ staged' \in [Mbids -> [Formats -> File \cup {NoFile}]]
           /\ \A m \in Mbids, f \in Formats :
                 staged'[m][f] = IF m = c.mbid /\ f = c.format
                                 THEN [video |-> v, late |-> late]
                                 ELSE staged[m][f]
  BY CallTypes DEF TypeOK, Writes

\* The staging directory once a job's files are removed.
LEMMA SweptTypes ==
    ASSUME TypeOK, NEW m \in Mbids, staged' = [staged EXCEPT ![m] = NoFiles]
    PROVE  /\ staged' \in [Mbids -> [Formats -> File \cup {NoFile}]]
           /\ \A f \in Formats : staged'[m][f] = NoFile
  BY DEF TypeOK, NoFiles

\* A call brings videos.
LEMMA BringsVideos ==
    ASSUME NEW c \in Call, c.kind = "fetch" PROVE Brings(c) \subseteq Videos
  BY CallTypes DEF Brings

\* The best entries are similar, and are of the answer.
LEMMA BestTypes ==
    ASSUME NEW entries \in SUBSET Entries
    PROVE  /\ Best(entries) \subseteq entries /\ Best(entries) \subseteq Similar
           /\ Best(entries) \subseteq Entries
  BY DEF Best, Eligible

\* What the answer to a search may be.
LEMMA Answers == \A entries \in (SUBSET Videos) \cup {{Playlist}} : entries \in SUBSET Entries
  BY DEF Entries

\* A download that fails leaves the files, but for that of an empty search.
LEMMA LeftFiles ==
    ASSUME IInv, NEW t \in Threads, Runs(t, "fetch", "worker"), LeavesFile(thread[t])
    PROVE  /\ staged' \in [Mbids -> [Formats -> File \cup {NoFile}]]
           /\ UNCHANGED staged \/ target = Playlist
  <1>1. /\ TypeOK /\ thread[t] \in Call /\ thread[t].kind = "fetch" /\ pc = "fetch"
        /\ thread[t] = FetchCall(mbid, target, Head(opts))
    BY RunningIsCurrent DEF IInv, Runs
  <1>2. thread[t].target = target
    BY <1>1 DEF FetchCall
  <1>3. CASE UNCHANGED staged
    BY <1>1, <1>3 DEF TypeOK
  <1>4. CASE thread[t].target = Playlist /\ \E v \in Videos : Writes(thread[t], v, FALSE)
    BY <1>1, <1>2, <1>4, FileTypes
  <1>5. QED
    BY <1>3, <1>4 DEF LeavesFile

\* What is left at the end of a run.
LEMMA EndsTypes ==
    ASSUME TypeOK, Ends
    PROVE  /\ pc' = "idle" /\ video' = NoVideo /\ remaining' = {} /\ attempted' = {}
           /\ target' = NoVideo /\ opts' \in Seq(Formats) /\ given' \in Formats
           /\ answer' = {}
  BY DEF Ends, Formats

\* Every step keeps the types, one action after another.
LEMMA TypeStep == IInv /\ [Next]_vars => TypeOK'
  <1> SUFFICES ASSUME IInv, [Next]_vars PROVE TypeOK'
    OBVIOUS
  <1> USE DEF pool, locals, jobs
  <1>0. TypeOK
    BY DEF IInv
  <1>1. ASSUME NEW m \in Mbids, BeginSearch(m) PROVE TypeOK'
    <2>1. waiting' \in Seq(Call)
      BY <1>0, <1>1, CallTypes, SubmitEffect DEF BeginSearch
    <2>2. staged' \in [Mbids -> [Formats -> File \cup {NoFile}]]
      BY <1>0, <1>1, SweptTypes DEF BeginSearch
    <2>3. QED
      BY <1>0, <1>1, <2>1, <2>2 DEF BeginSearch, Begins, TypeOK, Steps
  <1>2. ASSUME NEW m \in Mbids, BeginPick(m) PROVE TypeOK'
    <2>1. staged' \in [Mbids -> [Formats -> File \cup {NoFile}]]
      BY <1>0, <1>2, SweptTypes DEF BeginPick
    <2>2. QED
      BY <1>0, <1>2, <2>1, QueueOfFormats
         DEF BeginPick, Begins, TypeOK, Steps, Targets, Entries
  <1>3. CASE MetaTimesOut
    <2>1. /\ waiting' \in Seq(Call)
          /\ thread' \in [Threads -> Call \cup {NoCall}]
      BY <1>0, <1>3, GivesUpEffect DEF MetaTimesOut
    <2>2. QED
      BY <1>0, <1>3, <2>1 DEF MetaTimesOut, Answered, TypeOK, Steps
  <1>4. CASE Choose
    BY <1>0, <1>4, QueueOfFormats, BestTypes DEF Choose, TypeOK, Steps, Targets
  <1>5. CASE ChooseSearch
    BY <1>0, <1>5, QueueOfFormats DEF ChooseSearch, TypeOK, Steps, Targets
  <1>6. CASE TryFormat
    <2>1. FetchCall(mbid, target, Head(opts)) \in Call
      BY <1>0, <1>6, CallTypes, QueueOfFormats DEF TryFormat, TypeOK
    <2>2. waiting' \in Seq(Call)
      BY <1>0, <1>6, <2>1, SubmitEffect DEF TryFormat
    <2>3. QED
      BY <1>0, <1>6, <2>2 DEF TryFormat, TypeOK, Steps
  <1>7. CASE TargetFails
    BY <1>0, <1>7, EndsTypes DEF TargetFails, NextTarget, Ends, TypeOK, Steps
  <1>8. CASE FetchTimesOut
    <2>1. /\ waiting' \in Seq(Call)
          /\ thread' \in [Threads -> Call \cup {NoCall}]
      BY <1>0, <1>8, GivesUpEffect DEF FetchTimesOut
    <2>2. opts' \in Seq(Formats) /\ target \in Targets /\ mbid \in Mbids
      BY <1>0, <1>8, QueueOfFormats DEF FetchTimesOut, NextFormat, TypeOK
    <2>3. QED
      BY <1>0, <1>8, <2>1, <2>2 DEF FetchTimesOut, NextFormat, TypeOK, Steps
  <1>9. CASE Imported
    <2>1. staged' \in [Mbids -> [Formats -> File \cup {NoFile}]]
      BY <1>0, <1>9 DEF Imported, TypeOK
    <2>2. QED
      BY <1>0, <1>9, <2>1, EndsTypes DEF Imported, Ends, TypeOK, Steps
  <1>10. CASE ImportFails
    BY <1>0, <1>10, EndsTypes DEF ImportFails, Ends, TypeOK, Steps
  <1>11. ASSUME NEW t \in Threads, Takes(t) PROVE TypeOK'
    <2>1. /\ waiting' \in Seq(Call)
          /\ thread' \in [Threads -> Call \cup {NoCall}]
      BY <1>0, <1>11, TakesEffect
    <2>2. QED
      BY <1>0, <1>11, <2>1 DEF Takes, TypeOK
  <1>12. ASSUME NEW t \in Threads, MetaEnds(t) PROVE TypeOK'
    <2>1. /\ waiting' \in Seq(Call)
          /\ thread' \in [Threads -> Call \cup {NoCall}]
      BY <1>0, <1>12, FreesEffect DEF MetaEnds, TypeOK
    <2>2. PICK entries \in SUBSET Entries : Answered(entries)
      BY <1>12, Answers DEF MetaEnds
    <2>3. mbid \in Mbids
      BY <1>0, <1>12, RunningIsCurrent DEF MetaEnds, TypeOK
    <2>4. QED
      BY <1>0, <1>12, <2>1, <2>2, <2>3 DEF MetaEnds, Answered, TypeOK, Steps
  <1>13. ASSUME NEW t \in Threads, Fetched(t) PROVE TypeOK'
    <2>1. /\ thread[t] \in Call /\ thread[t].kind = "fetch" /\ pc = "fetch"
      BY <1>13, RunningIsCurrent DEF Fetched, Runs
    <2>2. staged' \in [Mbids -> [Formats -> File \cup {NoFile}]]
      BY <1>0, <1>13, <2>1, FileTypes, BringsVideos DEF Fetched
    <2>3. given' \in Formats /\ pc' = "import"
      BY <1>13 DEF Fetched, Returns, Formats
    <2>4. /\ waiting' \in Seq(Call)
          /\ thread' \in [Threads -> Call \cup {NoCall}]
      BY <1>0, <1>13, FreesEffect DEF Fetched, TypeOK
    <2>5. QED
      BY <1>0, <1>13, <2>1, <2>2, <2>3, <2>4 DEF Fetched, Returns, TypeOK, Steps
  <1>14. ASSUME NEW t \in Threads, Dissimilar(t) PROVE TypeOK'
    <2>1. pc = "fetch"
      BY <1>14, RunningIsCurrent DEF Dissimilar
    <2>2. staged' \in [Mbids -> [Formats -> File \cup {NoFile}]]
      BY <1>0, <1>14, <2>1, SweptTypes DEF Dissimilar, TypeOK
    <2>3. QED
      BY <1>0, <1>14, <2>2, FreesEffect, EndsTypes DEF Dissimilar, Ends, TypeOK, Steps
  <1>15. ASSUME NEW t \in Threads, FetchFails(t) PROVE TypeOK'
    <2>1. pc = "fetch"
      BY <1>15, RunningIsCurrent DEF FetchFails
    <2>2. opts' \in Seq(Formats) /\ target \in Targets /\ mbid \in Mbids
      BY <1>0, <1>15, <2>1, QueueOfFormats DEF FetchFails, NextFormat, TypeOK
    <2>3. staged' \in [Mbids -> [Formats -> File \cup {NoFile}]]
      BY <1>15, LeftFiles DEF FetchFails
    <2>4. QED
      BY <1>0, <1>15, <2>2, <2>3, FreesEffect DEF FetchFails, NextFormat, TypeOK, Steps
  <1>16. ASSUME NEW t \in Threads, FetchBlocked(t) PROVE TypeOK'
    <2>1. pc = "fetch"
      BY <1>16, RunningIsCurrent DEF FetchBlocked
    <2>2. staged' \in [Mbids -> [Formats -> File \cup {NoFile}]]
      BY <1>16, LeftFiles DEF FetchBlocked
    <2>3. QED
      BY <1>0, <1>16, <2>1, <2>2, FreesEffect, EndsTypes
         DEF FetchBlocked, NextTarget, Ends, TypeOK, Steps
  <1>17. ASSUME NEW t \in Threads, CandidatesEnd(t) PROVE TypeOK'
    BY <1>0, <1>17, FreesEffect DEF CandidatesEnd, TypeOK
  <1>18. ASSUME NEW t \in Threads, LateWrite(t) PROVE TypeOK'
    <2>1. thread[t] \in Call /\ thread[t].kind = "fetch"
      BY <1>0, <1>18 DEF LateWrite, Runs, TypeOK
    <2>2. staged' \in [Mbids -> [Formats -> File \cup {NoFile}]]
      BY <1>0, <1>18, <2>1, FileTypes, BringsVideos DEF LateWrite
    <2>3. QED
      BY <1>0, <1>18, <2>2, FreesEffect DEF LateWrite, TypeOK
  <1>19. ASSUME NEW t \in Threads, LateEnd(t) PROVE TypeOK'
    BY <1>0, <1>19, FreesEffect DEF LateEnd, TypeOK
  <1>20. ASSUME NEW t \in Threads, FindsFile(t) PROVE TypeOK'
    <2>1. pc = "fetch" /\ pc' = "import" /\ given' \in Formats
      BY <1>20, RunningIsCurrent DEF FindsFile, Returns, Formats
    <2>2. /\ waiting' \in Seq(Call)
          /\ thread' \in [Threads -> Call \cup {NoCall}]
      BY <1>0, <1>20, FreesEffect DEF FindsFile, TypeOK
    <2>3. QED
      BY <1>0, <1>20, <2>1, <2>2 DEF FindsFile, Returns, TypeOK, Steps
  <1>21. CASE AskCandidates
    <2>1. waiting' \in Seq(Call)
      BY <1>0, <1>21, CallTypes, SubmitEffect DEF AskCandidates
    <2>2. QED
      BY <1>0, <1>21, <2>1 DEF AskCandidates, TypeOK
  <1>22. CASE CandidatesTimeOut
    <2>1. /\ waiting' \in Seq(Call)
          /\ thread' \in [Threads -> Call \cup {NoCall}]
      BY <1>0, <1>22, GivesUpEffect DEF CandidatesTimeOut
    <2>2. QED
      BY <1>0, <1>22, <2>1 DEF CandidatesTimeOut, TypeOK
  <1>23. CASE Exit
    <2>1. <<>> \in Seq(Call)
      OBVIOUS
    <2>2. thread' \in [Threads -> Call \cup {NoCall}]
      BY <1>23 DEF Exit
    <2>3. QED
      BY <1>0, <1>23, <2>1, <2>2, EndsTypes DEF Exit, Ends, TypeOK, Steps
  <1>24. CASE UNCHANGED vars
    BY <1>0, <1>24 DEF vars, TypeOK
  <1>26. ASSUME NEW t \in Threads, FetchRaises(t) PROVE TypeOK'
    <2>1. mbid \in Mbids /\ staged' \in [Mbids -> [Formats -> File \cup {NoFile}]]
      BY <1>0, <1>26, RunningIsCurrent, LeftFiles DEF FetchRaises, TypeOK
    <2>2. QED
      BY <1>0, <1>26, <2>1, FreesEffect DEF FetchRaises, TypeOK, Steps
  <1>27. CASE CallRaises
    <2>1. Tail(opts) \in Seq(Formats)
      BY <1>0, <1>27, QueueOfFormats DEF CallRaises, TypeOK
    <2>2. QED
      BY <1>0, <1>27, <2>1 DEF CallRaises, NextFormat, TypeOK, Steps
  <1>28. CASE JobFails
    BY <1>0, <1>28, EndsTypes DEF JobFails, Ends, TypeOK, Steps
  <1>25. QED
    BY <1>1, <1>2, <1>3, <1>4, <1>5, <1>6, <1>7, <1>8, <1>9, <1>10, <1>11, <1>12,
       <1>13, <1>14, <1>15, <1>16, <1>17, <1>18, <1>19, <1>20, <1>21, <1>22, <1>23,
       <1>24, <1>26, <1>27, <1>28
       DEF Next, Begin, Worker, Pool

-----------------------------------------------------------------------------
(* The calls. *)

\* A step that leaves the pool and the worker's call alone.
LEMMA QuietCalls ==
    ASSUME IInv, UNCHANGED pool,
           NoneAwaited \/ UNCHANGED <<pc, mbid, target, opts>>
    PROVE  CallsAreCurrent' /\ OneIsAwaited'
  <1>1. CASE NoneAwaited
    <2>1. NoneAwaited'
      BY <1>1 DEF NoneAwaited, pool
    <2>2. QED
      BY <2>1 DEF NoneAwaited, CallsAreCurrent, OneIsAwaited, IsCurrent
  <1>2. CASE UNCHANGED <<pc, mbid, target, opts>>
    BY <1>2 DEF pool, IInv, CallsAreCurrent, OneIsAwaited, IsCurrent
  <1>3. QED
    BY <1>1, <1>2

\* A call that the worker does not wait for ends.
LEMMA OthersEnd ==
    ASSUME IInv, NEW t \in Threads, Frees(t), UNCHANGED <<pc, mbid, target, opts>>
    PROVE  CallsAreCurrent' /\ OneIsAwaited'
  <1>1. /\ waiting' = waiting
        /\ \A u \in Threads : Awaited(thread'[u]) => thread'[u] = thread[u]
    BY FreesEffect DEF IInv, Awaited
  <1>2. QED
    BY <1>1, AwaitedStays

\* The worker waits for its last call only, whatever moves in the pool.
LEMMA CallsStep == IInv /\ TypeOK' /\ [Next]_vars => CallsAreCurrent' /\ OneIsAwaited'
  <1> SUFFICES ASSUME IInv, TypeOK', [Next]_vars
               PROVE  CallsAreCurrent' /\ OneIsAwaited'
    OBVIOUS
  <1> DEFINE Goal == CallsAreCurrent' /\ OneIsAwaited'
  <1>0. TypeOK /\ (NoneAwaited' => Goal)
    BY DEF IInv, NoneAwaited, CallsAreCurrent, OneIsAwaited, IsCurrent
  <1>1. ASSUME NEW m \in Mbids, BeginSearch(m) PROVE Goal
    <2> DEFINE c == [kind |-> "meta", by |-> "worker"]
    <2>1. NoneAwaited
      BY <1>1, OnlyInWaitingSteps DEF BeginSearch, Begins
    <2>2. c \in Call /\ Submit(c) /\ UNCHANGED thread /\ pc' = c.kind /\ pc' = "meta"
      BY <1>1, CallTypes DEF BeginSearch
    <2> HIDE DEF c
    <2>3. QED
      BY <2>1, <2>2, SubmitAwaited
  <1>2. ASSUME NEW m \in Mbids, BeginPick(m) PROVE Goal
    BY <1>2, OnlyInWaitingSteps, QuietCalls DEF BeginPick, Begins
  <1>3. CASE MetaTimesOut
    BY <1>0, <1>3, AwaitedIsGivenUp DEF MetaTimesOut
  <1>4. CASE Choose \/ ChooseSearch
    BY <1>4, OnlyInWaitingSteps, QuietCalls DEF Choose, ChooseSearch
  <1>5. CASE TryFormat
    <2> DEFINE c == FetchCall(mbid, target, Head(opts))
    <2>1. NoneAwaited
      BY <1>5, OnlyInWaitingSteps DEF TryFormat
    <2>2. c \in Call
      BY <1>0, <1>5, CallTypes, QueueOfFormats DEF TryFormat, TypeOK
    <2>3. UNCHANGED <<mbid, target, opts>> /\ pc' = "fetch"
      BY <1>5 DEF TryFormat, locals
    <2>4. c.kind = "fetch"
      BY DEF FetchCall
    <2>5. pc' = c.kind /\ c = FetchCall(mbid', target', Head(opts'))
      BY <2>3, <2>4
    <2>6. Submit(c) /\ UNCHANGED thread
      BY <1>5 DEF TryFormat
    <2> HIDE DEF c
    <2>7. QED
      BY <2>1, <2>2, <2>5, <2>6, SubmitAwaited
  <1>6. CASE TargetFails \/ CallRaises \/ JobFails
    BY <1>6, OnlyInWaitingSteps, QuietCalls DEF TargetFails, CallRaises, JobFails
  <1>7. CASE FetchTimesOut
    BY <1>0, <1>7, AwaitedIsGivenUp DEF FetchTimesOut
  <1>8. CASE Imported \/ ImportFails
    BY <1>8, OnlyInWaitingSteps, QuietCalls DEF Imported, ImportFails
  <1>9. ASSUME NEW t \in Threads, Takes(t) PROVE Goal
    BY <1>9, TakesKeepsCalls
  <1>10. ASSUME NEW t \in Threads,
                MetaEnds(t) \/ Fetched(t) \/ FindsFile(t) \/ Dissimilar(t)
                  \/ FetchFails(t) \/ FetchBlocked(t) \/ FetchRaises(t)
         PROVE  Goal
    <2>1. Frees(t) /\ Awaited(thread[t])
      BY <1>10 DEF MetaEnds, Fetched, FindsFile, Dissimilar, FetchFails, FetchBlocked,
                   FetchRaises, Runs, Awaited
    <2>2. QED
      BY <1>0, <2>1, AwaitedEnds
  <1>11. ASSUME NEW t \in Threads, CandidatesEnd(t) \/ LateWrite(t) \/ LateEnd(t)
         PROVE  Goal
    BY <1>11, OthersEnd DEF CandidatesEnd, LateWrite, LateEnd, locals
  <1>12. CASE AskCandidates
    <2> DEFINE c == [kind |-> "candidates", by |-> "loop"]
    <2>1. c \in Call /\ ~Awaited(c) /\ Submit(c)
      BY <1>12, CallTypes DEF AskCandidates, Awaited
    <2> HIDE DEF c
    <2>2. UNCHANGED <<pc, mbid, target, opts, thread>>
      BY <1>12 DEF AskCandidates, locals
    <2>3. \A i \in DOMAIN waiting' :
             Awaited(waiting'[i]) => i \in DOMAIN waiting /\ waiting'[i] = waiting[i]
      <3>1. /\ DOMAIN waiting' = 1 .. (Len(waiting) + 1)
            /\ DOMAIN waiting = 1 .. Len(waiting) /\ Len(waiting) \in Nat
            /\ \A i \in DOMAIN waiting : waiting'[i] = waiting[i]
            /\ waiting'[Len(waiting) + 1] = c
        BY <1>0, <2>1, SubmitEffect
      <3>2. QED
        BY <2>1, <3>1
    <2>4. QED
      BY <2>2, <2>3, AwaitedStays
  <1>13. CASE CandidatesTimeOut
    <2>1. /\ \A i \in DOMAIN waiting' :
                Awaited(waiting'[i]) => i \in DOMAIN waiting /\ waiting'[i] = waiting[i]
          /\ \A t \in Threads : Awaited(thread'[t]) => thread'[t] = thread[t]
      BY <1>0, <1>13, GivesUpEffect, GivenUpCall DEF CandidatesTimeOut, TypeOK
    <2>2. UNCHANGED <<pc, mbid, target, opts>>
      BY <1>13 DEF CandidatesTimeOut, locals
    <2>3. QED
      BY <2>1, <2>2, AwaitedStays
  <1>14. CASE Exit
    <2>1. NoneAwaited'
      BY <1>14 DEF Exit, NoneAwaited, Awaited
    <2>2. QED
      BY <1>0, <2>1
  <1>15. CASE UNCHANGED vars
    BY <1>15, QuietCalls DEF vars, locals
  <1>16. QED
    BY <1>1, <1>2, <1>3, <1>4, <1>5, <1>6, <1>7, <1>8, <1>9, <1>10, <1>11, <1>12,
       <1>13, <1>14, <1>15 DEF Next, Begin, Worker, Pool

-----------------------------------------------------------------------------
(* What is downloaded, and what is in the staging directory. *)

\* An empty search that is downloaded has been tried.
LEMMA PlaylistIsTried ==
    ASSUME IInv, pc \in {"try", "fetch"}, target = Playlist PROVE Playlist \in attempted
  <1>1. video = NoVideo
    BY DownloaderAssumption DEF IInv, TypeOK, RightTarget, Acceptable, Entries
  <1>2. QED
    BY <1>1 DEF IInv, NoneForgotten

\* The worker tries acceptable targets, or the search.
LEMMA TargetStep == IInv /\ [Next]_vars => RightTarget'
  <1> SUFFICES ASSUME IInv, [Next]_vars PROVE RightTarget'
    OBVIOUS
  <1> USE DEF pool, locals, jobs
  <1>0. TypeOK /\ RightTarget
    BY DEF IInv
  <1>1. ASSUME UNCHANGED <<pc, video, target>> PROVE RightTarget'
    BY <1>0, <1>1 DEF RightTarget, Acceptable
  <1>2. ASSUME pc' \in {"idle", "import", "raised"} PROVE RightTarget'
    BY <1>2 DEF RightTarget
  <1>3. ASSUME NEW m \in Mbids, BeginSearch(m) PROVE RightTarget'
    BY <1>3 DEF BeginSearch, Begins, RightTarget
  <1>4. ASSUME NEW m \in Mbids, BeginPick(m) PROVE RightTarget'
    BY <1>4, DownloaderAssumption
       DEF BeginPick, Begins, RightTarget, Acceptable, Targets, Entries
  <1>5. ASSUME pc = "meta", NEW entries, Answered(entries) PROVE RightTarget'
    BY <1>0, <1>5 DEF Answered, RightTarget
  <1>6. CASE Choose
    <2>1. video = NoVideo /\ video' = NoVideo
      BY <1>0, <1>6 DEF Choose, RightTarget
    <2>2. pc' = "choose" \/ (pc' = "try" /\ target' \in Similar)
      BY <1>0, <1>6, BestTypes DEF Choose, TypeOK
    <2>3. QED
      BY <2>1, <2>2 DEF RightTarget, Acceptable
  <1>7. CASE ChooseSearch
    BY <1>0, <1>7 DEF ChooseSearch, RightTarget
  <1>8. ASSUME pc \in {"try", "fetch"}, NextFormat PROVE RightTarget'
    BY <1>0, <1>8 DEF NextFormat, RightTarget, Acceptable
  <1>9. ASSUME NextTarget PROVE RightTarget'
    BY <1>9 DEF NextTarget, Ends, RightTarget
  <1>10. CASE TryFormat
    BY <1>0, <1>10 DEF TryFormat, RightTarget, Acceptable
  <1>11. ASSUME NEW t \in Threads, MetaEnds(t) PROVE RightTarget'
    BY <1>5, <1>11, RunningIsCurrent DEF MetaEnds
  <1>12. ASSUME NEW t \in Threads, FetchFails(t) PROVE RightTarget'
    BY <1>8, <1>12, RunningIsCurrent DEF FetchFails
  <1>13. CASE CallRaises
    BY <1>2, <1>8, <1>13 DEF CallRaises
  <1>14. QED
    BY <1>1, <1>2, <1>3, <1>4, <1>5, <1>6, <1>7, <1>8, <1>9, <1>10, <1>11, <1>12, <1>13
       DEF Next, Begin, Worker, Pool, vars, MetaTimesOut, TargetFails, FetchTimesOut, JobFails,
           Imported, ImportFails, Ends, Takes, Fetched, FindsFile, Returns, Dissimilar,
           FetchBlocked, FetchRaises, CandidatesEnd, LateWrite, LateEnd, AskCandidates,
           CandidatesTimeOut, Exit

\* A step that writes no file of the job.
LEMMA QuietFiles ==
    ASSUME IInv, UNCHANGED <<staged, mbid, video>>, pc = "idle" => pc' = "idle",
           pc' # "idle" => attempted \subseteq attempted',
           pc' = "import" => pc = "import" /\ given' = given
    PROVE  StagedIsAcceptable'
  BY DEF IInv, StagedIsAcceptable, Expected, Acceptable

\* A download fails: of an empty search it leaves any file.
LEMMA FailureFiles ==
    ASSUME IInv, NEW t \in Threads, Runs(t, "fetch", "worker"), LeavesFile(thread[t]),
           UNCHANGED <<mbid, video>>, pc' # "idle" => attempted' = attempted,
           pc' # "import"
    PROVE  StagedIsAcceptable'
  <1>1. pc = "fetch"
    BY RunningIsCurrent
  <1>2. CASE UNCHANGED staged
    BY <1>1, <1>2, QuietFiles
  <1>3. CASE target = Playlist
    BY <1>1, <1>3, PlaylistIsTried DEF StagedIsAcceptable, Expected
  <1>4. QED
    BY <1>2, <1>3, LeftFiles

\* The job's staged files are acceptable, or late.
LEMMA FilesStep == IInv /\ TypeOK' /\ [Next]_vars => StagedIsAcceptable'
  <1> SUFFICES ASSUME IInv, TypeOK', [Next]_vars PROVE StagedIsAcceptable'
    OBVIOUS
  <1> USE DEF pool, locals, jobs
  <1>0. TypeOK /\ RightTarget /\ StagedIsAcceptable
    BY DEF IInv
  <1>1. ASSUME pc' = "idle" PROVE StagedIsAcceptable'
    BY <1>1 DEF StagedIsAcceptable
  <1>2. ASSUME NEW m \in Mbids, BeginSearch(m) \/ BeginPick(m) PROVE StagedIsAcceptable'
    <2>1. mbid' = m /\ pc' # "import" /\ \A f \in Formats : staged'[m][f] = NoFile
      BY <1>0, <1>2, SweptTypes DEF BeginSearch, BeginPick, Begins
    <2>2. QED
      BY <2>1 DEF StagedIsAcceptable
  <1>3. ASSUME NEW t \in Threads, MetaEnds(t) PROVE StagedIsAcceptable'
    <2>1. pc = "meta"
      BY <1>3, RunningIsCurrent DEF MetaEnds
    <2>2. QED
      BY <1>3, <2>1, QuietFiles DEF MetaEnds, Answered
  <1>4. CASE MetaTimesOut \/ Choose \/ ChooseSearch \/ TryFormat \/ FetchTimesOut
    BY <1>4, QuietFiles DEF MetaTimesOut, Answered, Choose, ChooseSearch, TryFormat,
                            FetchTimesOut, NextFormat
  <1>5. ASSUME NextTarget, pc # "idle", UNCHANGED staged PROVE StagedIsAcceptable'
    BY <1>1, <1>5, QuietFiles DEF NextTarget, Ends
  <1>6. ASSUME NEW t \in Threads, FetchFails(t) \/ FetchBlocked(t) \/ FetchRaises(t)
        PROVE  StagedIsAcceptable'
    <2>1. CASE FetchFails(t) \/ FetchRaises(t)
      BY <2>1, FailureFiles DEF FetchFails, NextFormat, FetchRaises
    <2>2. CASE FetchBlocked(t)
      BY <1>1, <2>2, FailureFiles DEF FetchBlocked, NextTarget, Ends
    <2>3. QED
      BY <1>6, <2>1, <2>2
  <1>7. ASSUME NEW t \in Threads, Fetched(t) PROVE StagedIsAcceptable'
    <2> DEFINE c == thread[t]
    <2>1. /\ c \in Call /\ c.kind = "fetch" /\ pc = "fetch"
          /\ c.mbid = mbid /\ c.target = target /\ c.format \in Formats
          /\ mbid \in Mbids /\ target \in Targets
      <3>1. c \in Call /\ pc = "fetch" /\ c = FetchCall(mbid, target, Head(opts))
        BY <1>7, RunningIsCurrent DEF Fetched
      <3>2. mbid \in Mbids /\ target \in Targets /\ Head(opts) \in Formats
        BY <1>0, <3>1, QueueOfFormats DEF TypeOK
      <3>3. QED
        BY <3>1, <3>2, CallTypes
    <2>2. PICK v \in Brings(c) : /\ c.target = Search => v \in Similar
                                 /\ Writes(c, v, FALSE)
      BY <1>7 DEF Fetched
    <2>3. v \in Videos /\ (v \in Acceptable \/ Playlist \in attempted)
      <3>1. v \in Videos
        BY <2>1, <2>2, BringsVideos
      <3>2. CASE target \in Videos
        BY <1>0, <2>1, <2>2, <3>1, <3>2, DownloaderAssumption
           DEF RightTarget, Brings, Entries
      <3>3. CASE target = Search
        BY <1>0, <2>1, <2>2, <3>1, <3>3, DownloaderAssumption
           DEF RightTarget, Acceptable, TypeOK, Entries
      <3>4. CASE target = Playlist
        BY <2>1, <3>1, <3>4, PlaylistIsTried
      <3>5. QED
        BY <2>1, <3>1, <3>2, <3>3, <3>4 DEF Targets, Entries
    <2>4. \A f \in Formats : staged'[mbid][f] = IF f = c.format
                                                THEN [video |-> v, late |-> FALSE]
                                                ELSE staged[mbid][f]
      <3>1. /\ c \in Call /\ c.kind = "fetch" /\ v \in Videos /\ Writes(c, v, FALSE)
            /\ c.mbid = mbid /\ mbid \in Mbids
        BY <2>1, <2>2, <2>3
      <3> HIDE DEF c
      <3>2. \A m \in Mbids, f \in Formats :
               staged'[m][f] = IF m = c.mbid /\ f = c.format
                               THEN [video |-> v, late |-> FALSE]
                               ELSE staged[m][f]
        BY <1>0, <3>1, FileTypes
      <3>3. QED
        BY <3>1, <3>2
    <2>5. [video |-> v, late |-> FALSE] # NoFile
      BY <2>3, CallTypes
    <2>6. /\ pc' = "import" /\ UNCHANGED <<mbid, video, attempted>>
          /\ given' = IF staged'[mbid]["flac"] # NoFile THEN "flac" ELSE "opus"
      BY <1>7 DEF Fetched, Returns
    <2>7. staged'[mbid][given'] # NoFile
      BY <2>1, <2>4, <2>5, <2>6 DEF Formats
    <2>8. \A f \in Formats : staged[mbid][f] # NoFile => Expected(staged[mbid][f])
      BY <1>0, <2>1 DEF StagedIsAcceptable
    <2>9. ASSUME NEW f \in Formats, staged'[mbid][f] # NoFile
          PROVE  Expected(staged'[mbid][f])
      <3>1. CASE f = c.format
        BY <2>3, <2>4, <3>1 DEF Expected
      <3>2. CASE f # c.format
        BY <2>4, <2>8, <2>9, <3>2
      <3>3. QED
        BY <3>1, <3>2
    <2>10. Acceptable' = Acceptable
      BY <2>6 DEF Acceptable
    <2> HIDE DEF c
    <2>11. QED
      BY <2>6, <2>7, <2>9, <2>10 DEF StagedIsAcceptable, Expected
  <1>8. ASSUME NEW t \in Threads, LateWrite(t) PROVE StagedIsAcceptable'
    <2> DEFINE c == thread[t]
    <2>1. c \in Call /\ c.kind = "fetch"
      BY <1>0, <1>8 DEF LateWrite, Runs, TypeOK
    <2>2. PICK v \in Videos : Writes(c, v, TRUE)
      BY <1>8, <2>1, BringsVideos DEF LateWrite
    <2>3. \A m \in Mbids, f \in Formats :
             staged'[m][f] = IF m = c.mbid /\ f = c.format
                             THEN [video |-> v, late |-> TRUE]
                             ELSE staged[m][f]
      BY <1>0, <2>1, <2>2, FileTypes
    <2>4. [video |-> v, late |-> TRUE] # NoFile
      BY <2>2, CallTypes
    <2>5. UNCHANGED <<pc, mbid, video, given, attempted>> /\ Acceptable' = Acceptable
      BY <1>8 DEF LateWrite, Acceptable
    <2>6. pc # "idle" => mbid \in Mbids /\ given \in Formats
      BY <1>0 DEF TypeOK
    <2>7. QED
      BY <1>0, <2>3, <2>4, <2>5, <2>6 DEF StagedIsAcceptable, Expected
  <1>9. ASSUME NEW t \in Threads, Takes(t) \/ CandidatesEnd(t) \/ LateEnd(t)
        PROVE  StagedIsAcceptable'
    BY <1>9, QuietFiles DEF Takes, CandidatesEnd, LateEnd
  <1>10. CASE AskCandidates \/ CandidatesTimeOut \/ UNCHANGED vars
    BY <1>10, QuietFiles DEF AskCandidates, CandidatesTimeOut, vars
  <1>11. CASE TargetFails \/ CallRaises
    <2>1. CASE TargetFails
      BY <1>5, <2>1 DEF TargetFails
    <2>2. CASE CallRaises
      BY <2>2, QuietFiles DEF CallRaises, NextFormat
    <2>3. QED
      BY <1>11, <2>1, <2>2
  <1>12. ASSUME NEW t \in Threads, FindsFile(t) PROVE StagedIsAcceptable'
    <2>1. /\ UNCHANGED <<staged, mbid, video, attempted>> /\ Acceptable' = Acceptable
          /\ given' = IF staged[mbid]["flac"] # NoFile THEN "flac" ELSE "opus"
      BY <1>12 DEF FindsFile, Returns, Acceptable
    <2>2. staged[mbid][given'] # NoFile
      BY <1>12, <2>1 DEF FindsFile, Formats
    <2>3. pc # "idle"
      BY <1>12, RunningIsCurrent DEF FindsFile
    <2>4. QED
      BY <1>0, <2>1, <2>2, <2>3 DEF StagedIsAcceptable, Expected
  <1>13. QED
    BY <1>1, <1>2, <1>3, <1>4, <1>6, <1>7, <1>8, <1>9, <1>10, <1>11, <1>12
       DEF Next, Begin, Worker, Pool, JobFails, Imported, ImportFails, Ends, Dissimilar, Exit

-----------------------------------------------------------------------------
(* The choice of the next target. *)

\* There is a best entry unless none is eligible, and with it none that is
\* clean and similar.
LEMMA BestIsLeft ==
    ASSUME NEW entries \in SUBSET Entries, Best(entries) = {}
    PROVE  entries \cap Clean \cap Similar = {}
  <1>1. Eligible(entries) = {}
    <2>1. SUFFICES ASSUME Eligible(entries) # {} PROVE FALSE
      OBVIOUS
    <2> DEFINE scores == {Score[e] : e \in Eligible(entries)}
    <2>2. Eligible(entries) \subseteq Entries
      BY DEF Eligible
    <2>3. scores \subseteq Nat /\ scores # {}
      BY <2>1, <2>2, DownloaderAssumption
    <2> DEFINE R == {p \in Nat \X Nat : p[1] < p[2]}
    <2>4. PICK n \in scores : \A k \in scores : ~ (<<k, n>> \in R)
      <3>1. IsWellFoundedOn(R, Nat)
        BY NatLessThanWellFounded, Zenon DEF OpToRel
      <3> HIDE DEF scores, R
      <3>2. QED
        BY <2>3, <3>1, WFMin
    <2>5. \A k \in scores : n <= k
      <3>1. ASSUME NEW k \in scores PROVE n <= k
        <4>1. n \in Nat /\ k \in Nat
          BY <2>3
        <4>2. <<k, n>> \in Nat \X Nat /\ ~ (k < n)
          <5> HIDE DEF scores
          <5>1. QED
            BY <2>4, <4>1
        <4>3. QED
          BY <4>1, <4>2
      <3>2. QED
        BY <3>1
    <2>6. PICK e \in Eligible(entries) : Score[e] = n
      OBVIOUS
    <2>7. e \in Best(entries)
      BY <2>5, <2>6 DEF Best
    <2>8. QED
      BY <2>7
  <1>2. QED
    BY <1>1 DEF Eligible

\* No worthy candidate is forgotten.
LEMMA ChoiceStep == IInv /\ [Next]_vars => NoneForgotten'
  <1> SUFFICES ASSUME IInv, [Next]_vars PROVE NoneForgotten'
    OBVIOUS
  <1> USE DEF pool, locals, jobs
  <1>0. TypeOK /\ NoneForgotten /\ remaining \subseteq Entries /\ Search \notin Entries
    BY DownloaderAssumption DEF IInv, TypeOK
  <1>1. ASSUME UNCHANGED <<pc, locals>> PROVE NoneForgotten'
    BY <1>0, <1>1 DEF NoneForgotten, Worthy
  <1>2. ASSUME pc' \in {"idle", "meta", "import", "raised"} PROVE NoneForgotten'
    BY <1>2 DEF NoneForgotten
  <1>3. ASSUME NEW m \in Mbids, BeginPick(m) PROVE NoneForgotten'
    BY <1>3, DownloaderAssumption DEF BeginPick, Begins, NoneForgotten, Targets, Entries
  <1>4. ASSUME NEW entries \in SUBSET Entries, Answered(entries) PROVE NoneForgotten'
    <2>1. pc' = "choose" /\ answer' = entries
      BY <1>4 DEF Answered
    <2>2. Worthy' \subseteq remaining'
      <3>1. CASE Best(entries) = {}
        <4>1. entries \cap Clean \cap Similar = {}
          BY <3>1, BestIsLeft
        <4>2. QED
          BY <2>1, <4>1 DEF Worthy
      <3>2. CASE Best(entries) # {}
        BY <1>4, <3>2 DEF Answered, Worthy
      <3>3. QED
        BY <3>1, <3>2
    <2>3. QED
      BY <2>1, <2>2 DEF NoneForgotten
  <1>5. CASE Choose
    <2>1. /\ pc = "choose" /\ UNCHANGED <<video, answer>>
          /\ video = NoVideo => Worthy \subseteq remaining \cup attempted
      BY <1>0, <1>5 DEF Choose, NoneForgotten
    <2>2. PICK e \in Best(remaining) :
             IF e \in Linked \ attempted
             THEN /\ pc' = "try" /\ target' = e
                  /\ attempted' = attempted \cup {e} /\ UNCHANGED remaining
             ELSE /\ remaining' = remaining \ {e}
                  /\ UNCHANGED <<pc, target, attempted>>
      BY <1>5 DEF Choose
    <2>3. e # Search
      BY <1>0, BestTypes
    <2>4. CASE e \in Linked \ attempted
      BY <2>1, <2>2, <2>3, <2>4 DEF NoneForgotten, Worthy
    <2>5. CASE e \notin Linked \ attempted
      BY <2>1, <2>2, <2>5 DEF NoneForgotten, Worthy
    <2>6. QED
      BY <2>4, <2>5
  <1>6. CASE ChooseSearch
    <2>1. remaining \cap Clean \cap Similar = {}
      BY <1>0, <1>6, BestIsLeft DEF ChooseSearch
    <2>2. QED
      BY <1>0, <1>6, <2>1 DEF ChooseSearch, NoneForgotten, Worthy
  <1>7. CASE TryFormat
    BY <1>0, <1>7 DEF TryFormat, NoneForgotten, Worthy
  <1>8. ASSUME pc \in {"try", "fetch"}, NextFormat PROVE NoneForgotten'
    BY <1>0, <1>8 DEF NextFormat, NoneForgotten, Worthy
  <1>9. ASSUME pc \in {"try", "fetch"}, NextTarget PROVE NoneForgotten'
    BY <1>0, <1>9 DEF NextTarget, Ends, NoneForgotten, Worthy
  <1>10. ASSUME NEW t \in Threads, MetaEnds(t) PROVE NoneForgotten'
    BY <1>4, <1>10, Answers DEF MetaEnds
  <1>11. ASSUME NEW t \in Threads, FetchFails(t) PROVE NoneForgotten'
    BY <1>8, <1>11, RunningIsCurrent DEF FetchFails
  <1>12. ASSUME NEW t \in Threads, FetchBlocked(t) PROVE NoneForgotten'
    BY <1>9, <1>12, RunningIsCurrent DEF FetchBlocked
  <1>13. CASE MetaTimesOut
    BY <1>4, <1>13 DEF MetaTimesOut
  <1>14. CASE CallRaises
    BY <1>2, <1>8, <1>14 DEF CallRaises
  <1>15. QED
    BY <1>1, <1>2, <1>3, <1>5, <1>6, <1>7, <1>8, <1>9, <1>10, <1>11, <1>12, <1>13, <1>14
       DEF Next, Begin, Worker, Pool, vars, BeginSearch, TargetFails, FetchTimesOut, JobFails,
           Imported, ImportFails, Ends, Takes, Fetched, FindsFile, Returns, Dissimilar,
           FetchRaises, CandidatesEnd, LateWrite, LateEnd, AskCandidates, CandidatesTimeOut, Exit

-----------------------------------------------------------------------------
(* The theorems. *)

\* The strengthened invariant: the worker waits for its last call only, its
\* target and its files are acceptable, no candidate is forgotten.
THEOREM InductiveInvariant == Spec => []IInv
  <1>1. Init => IInv
    <2> SUFFICES ASSUME Init PROVE IInv
      OBVIOUS
    <2>1. TypeOK
      <3>1. waiting \in Seq(Call) /\ opts \in Seq(Formats)
        BY DEF Init
      <3>2. staged \in [Mbids -> [Formats -> File \cup {NoFile}]]
        BY DEF Init, NoFiles
      <3>3. QED
        BY <3>1, <3>2 DEF Init, TypeOK, Steps, Formats
    <2>2. NoneAwaited
      BY DEF Init, NoneAwaited, Awaited
    <2>3. RightTarget /\ StagedIsAcceptable /\ NoneForgotten
      BY DEF Init, RightTarget, StagedIsAcceptable, NoneForgotten
    <2>4. QED
      BY <2>1, <2>2, <2>3, NoneAwaitedSuffices DEF IInv
  <1>2. IInv /\ [Next]_vars => IInv'
    BY TypeStep, CallsStep, TargetStep, FilesStep, ChoiceStep DEF IInv
  <1>3. QED
    BY <1>1, <1>2, PTL DEF Spec

\* Every variable has its type.
THEOREM TypeCorrect == Spec => []TypeOK
  <1>1. IInv => TypeOK
    BY DEF IInv
  <1>2. QED
    BY <1>1, InductiveInvariant, PTL

\* The file that goes to the importer is there and is the video that was asked
\* for, or a similar one (but for the exceptions of Expected).
THEOREM ReturnedVideosAreAcceptable == Spec => []ReturnedIsAcceptable
  <1>1. IInv => ReturnedIsAcceptable
    <2> SUFFICES ASSUME IInv, pc = "import"
                 PROVE  staged[mbid][given] # NoFile /\ Expected(staged[mbid][given])
      BY DEF ReturnedIsAcceptable
    <2>1. given \in Formats
      BY DEF IInv, TypeOK
    <2>2. QED
      BY <2>1 DEF IInv, StagedIsAcceptable
  <1>2. QED
    BY <1>1, InductiveInvariant, PTL

\* A run that returns without a file has tried every worthy candidate and the last
\* search; only one that raises ends sooner.
THEOREM CandidatesComeFirst == Spec => GivesUpLast
  <1> DEFINE Fails == /\ pc \notin {"idle", "import", "raised"} /\ pc' = "idle"
                      /\ video = NoVideo /\ exits' = exits
             Step == Fails => target = Search /\ Worthy \subseteq attempted
  <1>1. IInv /\ [Next]_vars => Step
    <2> SUFFICES ASSUME IInv, [Next]_vars, Fails
                 PROVE  target = Search /\ Worthy \subseteq attempted
      OBVIOUS
    <2>1. pc \in {"try", "fetch"} /\ target = Search
      <3>1. CASE TargetFails
        BY <3>1 DEF TargetFails, NextTarget
      <3>2. ASSUME NEW t \in Threads, FetchBlocked(t)
            PROVE  pc \in {"try", "fetch"} /\ target = Search
        BY <3>2, RunningIsCurrent DEF FetchBlocked, NextTarget
      <3>3. ASSUME NEW t \in Threads, Dissimilar(t)
            PROVE  pc \in {"try", "fetch"} /\ target = Search
        BY <3>3, RunningIsCurrent DEF Dissimilar, FetchCall
      <3>4. ~Exit
        BY DEF IInv, TypeOK, Exit
      <3>5. QED
        BY <3>1, <3>2, <3>3, <3>4
           DEF Next, Begin, Worker, Pool, vars, locals, BeginSearch, BeginPick, MetaTimesOut,
               Answered, Choose, ChooseSearch, TryFormat, FetchTimesOut, NextFormat,
               CallRaises, JobFails, FetchRaises,
               Imported, ImportFails, Takes, MetaEnds, Fetched, FindsFile, Returns, FetchFails,
               CandidatesEnd, LateWrite, LateEnd, AskCandidates, CandidatesTimeOut
    <2>2. QED
      BY <2>1 DEF IInv, NoneForgotten
  <1>2. QED
    BY <1>1, InductiveInvariant, PTL DEF Spec, GivesUpLast

-----------------------------------------------------------------------------
(* Downloader implements DownloadRun. *)

\* The number of formats left, and of those a target begins with.
LEMMA FormatCounts ==
    ASSUME NEW o \in Seq(Formats)
    PROVE  /\ Len(o) \in Nat
           /\ o = <<>> <=> Len(o) = 0
           /\ o # <<>> => Len(Tail(o)) = Len(o) - 1
  BY EmptySeq, HeadTailProperties

\* Counting to two, as FormatLists needs it.
LEMMA UpToTwo == \A n \in Nat : (n <= 2 <=> n \in 0 .. 2) /\ (n \in 1 .. 2 => n <= 2)
  OBVIOUS

\* The lists a target begins with are not empty and have two formats at most.
LEMMA FormatLists ==
    /\ Len(SearchOpts) \in 1 .. 2 /\ Len(SearchOpts) <= 2
    /\ Len(<<"flac", "opus">>) = 2 /\ Len(<<"flac", "opus">>) <= 2
    /\ Len(<<>>) = 0 /\ Len(<<>>) <= 2
  <1>1. Len(SearchOpts) \in 1 .. 2 /\ Len(<<"flac", "opus">>) = 2
    BY DEF SearchOpts
  <1>2. Len(SearchOpts) \in Nat
    BY FormatCounts, QueueOfFormats
  <1>3. Len(SearchOpts) <= 2
    BY <1>1, <1>2, UpToTwo, Zenon
  <1>4. Len(<<>>) = 0
    BY FormatCounts, QueueOfFormats
  <1>5. QED
    BY <1>1, <1>3, <1>4

\* What the pool runs for the worker tells in which step the worker is.
LEMMA PoolTellsStep ==
    ASSUME IInv, NEW t \in Threads
    PROVE  /\ MetaEnds(t) => pc = "meta"
           /\ Fetched(t) \/ FindsFile(t) => pc = "fetch"
           /\ FetchFails(t) \/ FetchBlocked(t) \/ FetchRaises(t) => pc = "fetch"
           /\ Dissimilar(t) => pc = "fetch" /\ target = Search
  <1>1. Dissimilar(t) => pc = "fetch" /\ target = Search
    BY RunningIsCurrent DEF Dissimilar, FetchCall
  <1>2. QED
    BY <1>1, RunningIsCurrent
       DEF MetaEnds, Fetched, FindsFile, FetchFails, FetchBlocked, FetchRaises

\* The steps a run takes, without the pool and the files.
RunStarts == \E m \in Mbids : BeginSearch(m) \/ BeginPick(m)
RunHears == pc = "meta" /\ \E entries \in SUBSET Entries : Answered(entries)
RunMovesOn ==
    /\ (pc = "try" /\ opts = <<>>) \/ (pc = "fetch" /\ video = NoVideo)
    /\ NextTarget
RunFails == pc = "fetch" /\ target = Search /\ Ends
RunTriesFormat == pc \in {"try", "fetch"} /\ opts # <<>> /\ NextFormat
RunRaises ==
    /\ pc \in {"try", "fetch"} /\ opts # <<>> /\ video = NoVideo
    /\ pc' = "raised" /\ UNCHANGED locals
RunSucceeds ==
    /\ pc = "fetch" /\ pc' = "import"
    /\ UNCHANGED <<mbid, video, remaining, attempted, target, opts, answer>>
RunIsDone == pc \in {"import", "raised"} /\ Ends

\* Every step is one of these, as far as a run is concerned.
LEMMA StepsOfRun ==
    ASSUME IInv, [Next]_vars, ~Exit
    PROVE  /\ exits' = exits
           /\ \/ UNCHANGED <<pc, locals>>
              \/ RunStarts
              \/ RunHears
              \/ Choose
              \/ ChooseSearch
              \/ TryFormat
              \/ RunMovesOn
              \/ RunFails
              \/ RunTriesFormat
              \/ RunRaises
              \/ RunSucceeds
              \/ RunIsDone
  <1> DEFINE Goal == \/ UNCHANGED <<pc, locals>>
                     \/ RunStarts \/ RunHears \/ Choose \/ ChooseSearch \/ TryFormat
                     \/ RunMovesOn \/ RunFails \/ RunTriesFormat \/ RunRaises \/ RunSucceeds
                     \/ RunIsDone
  <1>0. pc = "fetch" => opts # <<>>
    BY DEF IInv, TypeOK
  <1>1. CASE Begin
    BY <1>1 DEF Begin, RunStarts, BeginSearch, BeginPick
  <1>2. CASE Worker
    <2>1. CASE MetaTimesOut
      <3>1. {} \in SUBSET Entries
        OBVIOUS
      <3>2. QED
        BY <2>1, <3>1 DEF MetaTimesOut, RunHears
    <2>2. CASE Choose \/ ChooseSearch \/ TryFormat
      BY <2>2 DEF Choose, ChooseSearch, TryFormat
    <2>3. CASE TargetFails
      BY <2>3 DEF TargetFails, RunMovesOn
    <2>4. CASE FetchTimesOut
      BY <1>0, <2>4 DEF FetchTimesOut, RunTriesFormat
    <2>5. CASE Imported \/ ImportFails \/ JobFails
      BY <2>5 DEF Imported, ImportFails, JobFails, RunIsDone, jobs
    <2>6. CASE CallRaises
      BY <2>6 DEF CallRaises, RunRaises, RunTriesFormat
    <2>7. QED
      BY <1>2, <2>1, <2>2, <2>3, <2>4, <2>5, <2>6 DEF Worker
  <1>3. CASE Pool
    <2> SUFFICES ASSUME NEW t \in Threads,
                        \/ Takes(t) \/ MetaEnds(t) \/ Fetched(t) \/ FindsFile(t)
                        \/ Dissimilar(t) \/ FetchFails(t) \/ FetchBlocked(t)
                        \/ FetchRaises(t) \/ CandidatesEnd(t) \/ LateWrite(t) \/ LateEnd(t)
                 PROVE  exits' = exits /\ Goal
      BY <1>3 DEF Pool
    <2>1. CASE Takes(t) \/ CandidatesEnd(t) \/ LateWrite(t) \/ LateEnd(t)
      BY <2>1 DEF Takes, CandidatesEnd, LateWrite, LateEnd
    <2>2. CASE MetaEnds(t)
      BY <2>2, PoolTellsStep, Answers DEF MetaEnds, RunHears
    <2>3. CASE Fetched(t) \/ FindsFile(t)
      BY <2>3, PoolTellsStep DEF Fetched, FindsFile, Returns, RunSucceeds
    <2>4. CASE Dissimilar(t)
      BY <2>4, PoolTellsStep DEF Dissimilar, RunFails
    <2>5. CASE FetchFails(t)
      BY <1>0, <2>5, PoolTellsStep DEF FetchFails, RunTriesFormat
    <2>6. CASE FetchBlocked(t)
      BY <2>6, PoolTellsStep DEF FetchBlocked, RunMovesOn
    <2>7. CASE FetchRaises(t)
      BY <1>0, <2>7, PoolTellsStep DEF FetchRaises, RunRaises
    <2>8. QED
      BY <2>1, <2>2, <2>3, <2>4, <2>5, <2>6, <2>7
  <1>4. CASE AskCandidates \/ CandidatesTimeOut \/ UNCHANGED vars
    BY <1>4 DEF AskCandidates, CandidatesTimeOut, vars
  <1>5. QED
    BY <1>1, <1>2, <1>3, <1>4 DEF Next

\* What a run has heard and tried stays in order.
LEMMA RunInvStep == RunInv /\ IInv' /\ [Next]_vars => RunInv'
  <1> SUFFICES ASSUME RunInv, IInv', [Next]_vars
               PROVE  FreshRun' /\ TriesAreAnswers' /\ FormatsOnce'
    BY DEF RunInv
  <1> USE DEF FreshRun, TriesAreAnswers, FormatsOnce
  <1>0. /\ IInv /\ FreshRun /\ TriesAreAnswers /\ FormatsOnce
        /\ opts \in Seq(Formats) /\ remaining \subseteq Entries /\ Search \notin Entries
        /\ pc \in {"meta", "choose"} => video = NoVideo
        /\ pc \in {"try", "fetch"} => target \in Targets
    BY DownloaderAssumption DEF RunInv, IInv, TypeOK, RightTarget
  <1>f. Len(SearchOpts) <= 2 /\ Len(<<"flac", "opus">>) <= 2 /\ Len(<<>>) <= 2
    BY FormatLists
  <1>1. ASSUME Ends PROVE FreshRun' /\ TriesAreAnswers' /\ FormatsOnce'
    <2>1. /\ pc' = "idle" /\ video' = NoVideo
          /\ remaining' = {} /\ attempted' = {} /\ answer' = {} /\ opts' = <<>>
      BY <1>1 DEF Ends
    <2>2. FreshRun' /\ TriesAreAnswers'
      BY <2>1
    <2>3. Len(opts') <= 2
      BY <1>f, <2>1, Zenon
    <2>4. QED
      BY <2>2, <2>3
  <1>2. CASE UNCHANGED <<pc, locals>>
    BY <1>0, <1>2 DEF locals
  <1>3. CASE RunStarts
    <2> PICK m \in Mbids : BeginSearch(m) \/ BeginPick(m)
      BY <1>3 DEF RunStarts
    <2>1. pc = "idle" /\ UNCHANGED <<remaining, attempted, answer>>
      BY DEF BeginSearch, BeginPick, Begins
    <2>2. CASE BeginSearch(m)
      BY <1>0, <2>1, <2>2 DEF BeginSearch
    <2>3. CASE BeginPick(m)
      BY <1>0, <1>f, <2>1, <2>3 DEF BeginPick
    <2>4. QED
      BY <2>2, <2>3
  <1>4. CASE RunHears
    BY <1>0, <1>4 DEF RunHears, Answered
  <1>5. CASE Choose
    <2> PICK e \in Best(remaining) :
           IF e \in Linked \ attempted
           THEN /\ pc' = "try" /\ target' = e
                /\ attempted' = attempted \cup {e} /\ opts' = SearchOpts
                /\ UNCHANGED remaining
           ELSE /\ remaining' = remaining \ {e}
                /\ UNCHANGED <<pc, target, attempted, opts>>
      BY <1>5 DEF Choose
    <2>1. pc = "choose" /\ UNCHANGED <<video, answer>> /\ e # Search
      BY <1>0, <1>5, BestTypes DEF Choose
    <2>2. CASE e \in Linked \ attempted
      BY <1>0, <1>f, <2>1, <2>2
    <2>3. CASE e \notin Linked \ attempted
      BY <1>0, <2>1, <2>3
    <2>4. QED
      BY <2>2, <2>3
  <1>6. CASE ChooseSearch
    BY <1>0, <1>6, <1>f DEF ChooseSearch
  <1>7. CASE TryFormat
    BY <1>0, <1>7 DEF TryFormat, locals
  <1>8. CASE RunMovesOn
    BY <1>0, <1>1, <1>8 DEF RunMovesOn, NextTarget
  <1>9. CASE RunFails \/ RunIsDone
    BY <1>1, <1>9 DEF RunFails, RunIsDone
  <1>10. CASE RunTriesFormat
    <2>1. Len(opts') <= 2
      BY <1>0, <1>10, FormatCounts DEF RunTriesFormat, NextFormat, IInv, TypeOK
    <2>2. QED
      BY <1>0, <1>10, <2>1 DEF RunTriesFormat, NextFormat
  <1>11. CASE RunSucceeds \/ RunRaises
    BY <1>0, <1>11 DEF RunSucceeds, RunRaises, locals
  <1>12. CASE Exit
    BY <1>1, <1>12 DEF Exit
  <1>13. QED
    BY <1>0, <1>2, <1>3, <1>4, <1>5, <1>6, <1>7, <1>8, <1>9, <1>10, <1>11, <1>12, StepsOfRun

\* What a run tries was in the answer and was not tried before.
THEOREM RunsKeepInvariant == Spec => []RunInv
  <1>1. Init => FreshRun /\ TriesAreAnswers /\ FormatsOnce
    BY FormatLists DEF Init, FreshRun, TriesAreAnswers, FormatsOnce
  <1>2. RunInv <=> IInv /\ FreshRun /\ TriesAreAnswers /\ FormatsOnce
    BY DEF RunInv
  <1>3. QED
    BY <1>1, <1>2, RunInvStep, InductiveInvariant, PTL DEF Spec

\* Every step of a run is a step of DownloadRun, and the others are none.
LEMMA StepInOrder ==
    ASSUME RunInv, RunInv', [Next]_vars
    PROVE  [Run!Next]_(Run!vars)
  <1> USE DEF Run!vars, Phase
  <1>0. /\ IInv /\ FreshRun /\ TriesAreAnswers /\ Len(opts) \in 0 .. 2
        /\ opts \in Seq(Formats) /\ video \in Videos \cup {NoVideo}
        /\ remaining \subseteq Entries /\ Search \notin Entries /\ NoVideo \notin Videos
        /\ pc \in {"meta", "choose"} => video = NoVideo
        /\ pc = "fetch" => opts # <<>>
        /\ (Len(opts) = 0) <=> (opts = <<>>)
    <2>1. /\ IInv /\ FreshRun /\ TriesAreAnswers /\ FormatsOnce
          /\ opts \in Seq(Formats) /\ video \in Videos \cup {NoVideo}
          /\ remaining \subseteq Entries
          /\ pc \in {"meta", "choose"} => video = NoVideo
          /\ pc = "fetch" => opts # <<>>
      BY DEF RunInv, IInv, TypeOK, RightTarget
    <2>2. Len(opts) \in Nat /\ ((Len(opts) = 0) <=> (opts = <<>>))
      BY <2>1, FormatCounts
    <2>3. Len(opts) \in 0 .. 2
      BY <2>1, <2>2, UpToTwo, Zenon DEF FormatsOnce
    <2>4. QED
      BY <2>1, <2>2, <2>3, DownloaderAssumption DEF Targets, Entries
  <1>1. ASSUME Ends PROVE Run!Stop
    BY <1>1, FormatLists DEF Ends, Run!Stop
  <1>2. CASE Exit
    BY <1>1, <1>2 DEF Exit, Run!Exit, Run!Next
  <1> SUFFICES ASSUME ~Exit PROVE [Run!Next]_(Run!vars)
    BY <1>2
  <1>3. exits' = exits
    BY <1>0, StepsOfRun
  <1>4. CASE UNCHANGED <<pc, locals>>
    BY <1>3, <1>4 DEF locals
  <1>5. CASE RunStarts
    <2> PICK m \in Mbids : BeginSearch(m) \/ BeginPick(m)
      BY <1>5 DEF RunStarts
    <2>1. pc = "idle" /\ video = NoVideo /\ attempted = {} /\ opts = <<>>
          /\ UNCHANGED <<attempted, answer>>
      BY <1>0 DEF BeginSearch, BeginPick, Begins, FreshRun, TriesAreAnswers
    <2>2. CASE BeginSearch(m)
      BY <1>3, <2>1, <2>2 DEF BeginSearch, Begins, Run!Begin, Run!Next
    <2>3. CASE BeginPick(m)
      <3>1. PICK v \in Videos : pc' = "try" /\ video' = v /\ opts' = <<"flac", "opus">>
        BY <2>3 DEF BeginPick, Begins
      <3>2. Len(opts') \in 1 .. 2
        BY <3>1, FormatLists
      <3>3. attempted' \cup ({video'} \ {NoVideo}) = {v}
        BY <1>0, <2>1, <3>1
      <3>4. QED
        BY <1>3, <2>1, <3>1, <3>2, <3>3 DEF Run!Begin, Run!Next
    <2>4. QED
      BY <2>2, <2>3
  <1>6. CASE RunHears
    <2>1. attempted = {} /\ video = NoVideo
      BY <1>0, <1>6 DEF RunHears, TriesAreAnswers
    <2>2. QED
      BY <1>3, <1>6, <2>1 DEF RunHears, Answered, Run!Hear, Run!Next
  <1>7. CASE Choose
    <2> PICK e \in Best(remaining) :
           IF e \in Linked \ attempted
           THEN /\ pc' = "try" /\ target' = e
                /\ attempted' = attempted \cup {e} /\ opts' = SearchOpts
                /\ UNCHANGED remaining
           ELSE /\ remaining' = remaining \ {e}
                /\ UNCHANGED <<pc, target, attempted, opts>>
      BY <1>7 DEF Choose
    <2>1. /\ pc = "choose" /\ video = NoVideo /\ UNCHANGED <<video, answer>>
          /\ e \in answer /\ e # Search /\ Search \notin attempted
      BY <1>0, <1>7, BestTypes DEF Choose, TriesAreAnswers, FreshRun
    <2>2. CASE e \in Linked \ attempted
      <3>1. Len(opts') \in 1 .. 2
        BY <2>2, FormatLists
      <3>2. Run!Try(e)
        BY <1>3, <2>1, <2>2, <3>1 DEF Run!Try
      <3>3. QED
        BY <2>1, <3>2 DEF Run!Next
    <2>3. CASE e \notin Linked \ attempted
      BY <1>3, <2>1, <2>3
    <2>4. QED
      BY <2>2, <2>3
  <1>8. CASE ChooseSearch
    <2>1. /\ pc = "choose" /\ pc' = "try" /\ video = NoVideo /\ Search \notin attempted
          /\ UNCHANGED <<video, answer>>
          /\ attempted' = attempted \cup {Search} /\ Len(opts') \in 1 .. 2
      BY <1>0, <1>8, FormatLists DEF ChooseSearch, FreshRun
    <2>2. Worthy \subseteq attempted
      <3>1. remaining \cap Clean \cap Similar = {}
        BY <1>0, <1>8, BestIsLeft DEF ChooseSearch
      <3>2. Worthy \subseteq remaining \cup attempted
        BY <1>0, <2>1 DEF IInv, NoneForgotten
      <3>3. QED
        BY <3>1, <3>2 DEF Worthy
    <2>3. Run!Try(Search)
      BY <1>3, <2>1, <2>2 DEF Run!Try, Worthy
    <2>4. QED
      BY <2>3 DEF Run!Next
  <1>9. CASE TryFormat
    BY <1>3, <1>9 DEF TryFormat, locals
  <1>10. ASSUME Ends, pc \in {"try", "fetch"}, target = Search \/ opts = <<>>,
                video # NoVideo => opts = <<>>, target = Search \/ video # NoVideo
         PROVE  Run!GiveUp
    <2>1. video = NoVideo => Search \in attempted
      BY <1>0, <1>10 DEF IInv, NoneForgotten
    <2>2. Phase = "running"
      BY <1>10
    <2>3. IF video = NoVideo THEN Search \in attempted \cup ({video} \ {NoVideo})
                             ELSE Len(opts) = 0
      BY <1>0, <1>10, <2>1
    <2>4. Run!Stop
      BY <1>1, <1>10
    <2>5. QED
      BY <1>3, <2>2, <2>3, <2>4 DEF Run!GiveUp
  <1>11. CASE RunMovesOn
    <2>1. CASE target = Search \/ video # NoVideo
      BY <1>10, <1>11, <2>1 DEF RunMovesOn, NextTarget, Run!Next
    <2>2. CASE ~ (target = Search \/ video # NoVideo)
      BY <1>3, <1>11, <2>2 DEF RunMovesOn, NextTarget
    <2>3. QED
      BY <2>1, <2>2
  <1>12. CASE RunFails
    <2>1. video = NoVideo
      BY <1>0, <1>12 DEF RunFails, IInv, RightTarget, Acceptable, Entries
    <2>2. QED
      BY <1>10, <1>12, <2>1 DEF RunFails, Run!Next
  <1>13. CASE RunTriesFormat
    <2>1. Len(opts') = Len(opts) - 1 /\ Len(opts) > 0
      BY <1>0, <1>13, FormatCounts DEF RunTriesFormat, NextFormat
    <2>2. QED
      BY <1>3, <1>13, <2>1 DEF RunTriesFormat, NextFormat, Run!FormatFails, Run!Next
  <1>14. CASE RunSucceeds
    BY <1>0, <1>3, <1>14 DEF RunSucceeds, Run!Succeed, Run!Next
  <1>15. CASE RunIsDone
    BY <1>1, <1>3, <1>15 DEF RunIsDone, Run!Done, Run!Fail, Run!Next
  <1>16. CASE RunRaises
    <2>1. Len(opts) > 0
      BY <1>0, <1>16 DEF RunRaises
    <2>2. QED
      BY <1>3, <1>16, <2>1 DEF RunRaises, locals, Run!Raise, Run!Next
  <1>17. QED
    BY <1>0, <1>4, <1>5, <1>6, <1>7, <1>8, <1>9, <1>11, <1>12, <1>13, <1>14, <1>15,
       <1>16, StepsOfRun

\* A run tries each target once and each format of it once, the search last, and
\* returns without a file only then; one that raises ends at once.  So it is
\* whatever the pool is doing.
THEOREM RunsGoInOrder == Spec => RunsInOrder
  <1>1. Init => Run!Init
    BY FormatLists DEF Init, Run!Init, Phase
  <1>2. RunInv /\ RunInv' /\ [Next]_vars => [Run!Next]_(Run!vars)
    BY StepInOrder
  <1>3. QED
    BY <1>1, <1>2, RunsKeepInvariant, PTL DEF Spec, RunsInOrder, Run!Spec

-----------------------------------------------------------------------------
(* The first run of a job with a video of its own. *)

FileFollows(m, file) == file # NoFile /\ OnlyPick(m) => file.video \in Picked(m)

\* A call that was given up is for what it was for.
LEMMA GivenUpFollows ==
    ASSUME NEW c \in Call \cup {NoCall}, NEW by \in {"worker", "loop"}, FollowsPick(c)
    PROVE  FollowsPick(GivenUp(c, by))
  <1>1. CASE c # NoCall /\ c.by = by
    <2> DEFINE d == [c EXCEPT !.by = "nobody"]
    <2>1. GivenUp(c, by) = d
      BY <1>1 DEF GivenUp
    <2>2. d.kind = c.kind /\ (c.kind = "fetch" => d.mbid = c.mbid /\ d.target = c.target)
      BY <1>1 DEF Call
    <2> HIDE DEF d
    <2>3. QED
      BY <1>1, <2>1, <2>2 DEF FollowsPick
  <1>2. CASE ~(c # NoCall /\ c.by = by)
    BY <1>2 DEF GivenUp
  <1>3. QED
    BY <1>1, <1>2

\* A step that begins no run, and adds no call and no file but for the pick.
LEMMA PickKept ==
    ASSUME PickIsFollowed, UNCHANGED <<asked, tries>>,
           pc' # "idle" => pc # "idle" /\ UNCHANGED <<mbid, video>>,
           \A i \in DOMAIN waiting' : FollowsPick(waiting'[i]),
           \A t \in Threads : FollowsPick(thread'[t]),
           \A m \in Mbids, f \in Formats : FileFollows(m, staged'[m][f])
    PROVE  PickIsFollowed'
  BY DEF PickIsFollowed, FollowsPick, FileFollows, OnlyPick, Picked

\* What the steps of the pool do to the calls.
LEMMA CallsKept ==
    ASSUME IInv, PickIsFollowed,
           \/ UNCHANGED pool
           \/ \E t \in Threads : Frees(t) \/ Takes(t)
           \/ \E by \in {"worker", "loop"} : GivesUp(by)
           \/ UNCHANGED thread /\ \E c \in Call : Submit(c) /\ FollowsPick(c)
           \/ Exit
    PROVE  /\ \A i \in DOMAIN waiting' : FollowsPick(waiting'[i])
           /\ \A t \in Threads : FollowsPick(thread'[t])
  <1> DEFINE Goal == /\ \A i \in DOMAIN waiting' : FollowsPick(waiting'[i])
                     /\ \A t \in Threads : FollowsPick(thread'[t])
  <1>0. /\ TypeOK
        /\ \A i \in DOMAIN waiting : FollowsPick(waiting[i]) /\ waiting[i] \in Call
        /\ \A t \in Threads : FollowsPick(thread[t]) /\ thread[t] \in Call \cup {NoCall}
    BY DEF IInv, TypeOK, PickIsFollowed
  <1>1. CASE UNCHANGED pool
    BY <1>0, <1>1 DEF pool
  <1>2. ASSUME NEW t \in Threads, Frees(t) PROVE Goal
    BY <1>0, <1>2, FreesEffect DEF FollowsPick
  <1>3. ASSUME NEW t \in Threads, Takes(t) PROVE Goal
    BY <1>0, <1>3, TakesEffect
  <1>4. ASSUME NEW by \in {"worker", "loop"}, GivesUp(by) PROVE Goal
    <2>1. \A i \in DOMAIN waiting : FollowsPick(GivenUp(waiting[i], by))
      BY <1>0, GivenUpFollows
    <2>2. \A t \in Threads : FollowsPick(GivenUp(thread[t], by))
      BY <1>0, GivenUpFollows
    <2>3. /\ DOMAIN waiting' = DOMAIN waiting
          /\ \A i \in DOMAIN waiting : waiting'[i] = GivenUp(waiting[i], by)
          /\ \A t \in Threads : thread'[t] = GivenUp(thread[t], by)
      BY <1>0, <1>4, GivesUpEffect
    <2>4. QED
      BY <2>1, <2>2, <2>3
  <1>5. ASSUME NEW c \in Call, Submit(c), FollowsPick(c), UNCHANGED thread PROVE Goal
    BY <1>0, <1>5, SubmitEffect
  <1>6. CASE Exit
    BY <1>6 DEF Exit, FollowsPick
  <1>7. QED
    BY <1>1, <1>2, <1>3, <1>4, <1>5, <1>6

\* Before its first run nothing is there of a job, so whatever comes is the pick.
LEMMA BeginKeepsPick ==
    ASSUME IInv, PickIsFollowed, NEW m \in Mbids, BeginSearch(m) \/ BeginPick(m)
    PROVE  PickIsFollowed'
  <1> USE DEF IInv, TypeOK
  <1>1. /\ mbid' = m /\ pc' # "idle" /\ tries[m] \in Nat
        /\ \A n \in Mbids : /\ tries'[n] = IF n = m THEN tries[m] + 1 ELSE tries[n]
                            /\ n # m => asked'[n] = asked[n]
        /\ tries[m] = 0 => asked'[m] = video'
        /\ \A n \in Mbids : n # m => staged'[n] = staged[n]
        /\ \A f \in Formats : staged'[m][f] = NoFile
    BY SweptTypes DEF BeginSearch, BeginPick, Begins
  <1>2. /\ \A i \in DOMAIN waiting' : FollowsPick(waiting'[i])
        /\ \A t \in Threads : FollowsPick(thread'[t])
    <2>1. FollowsPick([kind |-> "meta", by |-> "worker"])
      BY DEF FollowsPick
    <2>2. QED
      BY <2>1, CallsKept, CallTypes DEF BeginSearch, BeginPick
  <1>3. ASSUME NEW c, c = NoCall \/ c \in Call, FollowsPick(c) PROVE FollowsPick(c)'
    <2> SUFFICES ASSUME c # NoCall, c.kind = "fetch", OnlyPick(c.mbid)'
                 PROVE  c.target \in Picked(c.mbid)'
      BY DEF FollowsPick
    <2>1. c.mbid \in Mbids
      BY <1>3, CallTypes
    <2>2. CASE c.mbid = m
      BY <1>1, <1>3, <2>2 DEF FollowsPick, OnlyPick, Picked
    <2>3. CASE c.mbid # m
      BY <1>1, <1>3, <2>1, <2>3 DEF FollowsPick, OnlyPick, Picked
    <2>4. QED
      BY <2>2, <2>3
  <1>4. /\ waiting' \in Seq(Call) /\ thread' \in [Threads -> Call \cup {NoCall}]
    BY CallTypes, SubmitEffect DEF BeginSearch, BeginPick, pool
  <1>5. /\ \A i \in DOMAIN waiting' : FollowsPick(waiting[i])'
        /\ \A t \in Threads : FollowsPick(thread[t])'
    <2>1. \A i \in DOMAIN waiting' : waiting'[i] \in Call
      BY <1>4
    <2>2. QED
      BY <1>2, <1>3, <1>4, <2>1
  <1>6. \A n \in Mbids, f \in Formats :
           staged'[n][f] # NoFile /\ OnlyPick(n)' => staged'[n][f].video \in Picked(n)'
    BY <1>1 DEF PickIsFollowed, OnlyPick, Picked
  <1>7. QED
    BY <1>1, <1>5, <1>6 DEF PickIsFollowed

\* What the steps do to the files.
FilesChange ==
    \/ UNCHANGED staged
    \/ \E m \in Mbids : staged' = [staged EXCEPT ![m] = NoFiles]
    \/ \E m \in Mbids, f \in Formats : staged' = [staged EXCEPT ![m][f] = NoFile]
    \/ \E c \in Call : /\ c.kind = "fetch" /\ FollowsPick(c)
                       /\ \E v \in Brings(c), late \in BOOLEAN : Writes(c, v, late)

\* The staged files of a pick stay its own, whatever is removed or written.
LEMMA FilesKept ==
    ASSUME IInv, PickIsFollowed, FilesChange
    PROVE  \A m \in Mbids, f \in Formats : FileFollows(m, staged'[m][f])
  <1> DEFINE Goal == \A m \in Mbids, f \in Formats : FileFollows(m, staged'[m][f])
  <1>0. /\ TypeOK /\ staged \in [Mbids -> [Formats -> File \cup {NoFile}]]
        /\ \A m \in Mbids, f \in Formats : FileFollows(m, staged[m][f])
    BY DEF IInv, TypeOK, PickIsFollowed, FileFollows
  <1>1. CASE UNCHANGED staged
    BY <1>0, <1>1
  <1>2. ASSUME NEW m \in Mbids, staged' = [staged EXCEPT ![m] = NoFiles] PROVE Goal
    BY <1>0, <1>2 DEF NoFiles, FileFollows
  <1>3. ASSUME NEW m \in Mbids, NEW f \in Formats, staged' = [staged EXCEPT ![m][f] = NoFile]
        PROVE  Goal
    BY <1>0, <1>3 DEF FileFollows
  <1>4. ASSUME NEW c \in Call, c.kind = "fetch", FollowsPick(c),
               NEW v \in Brings(c), NEW late \in BOOLEAN, Writes(c, v, late)
        PROVE  Goal
    <2>1. /\ v \in Videos /\ c.mbid \in Mbids /\ c # NoCall
          /\ \A m \in Mbids, f \in Formats :
                staged'[m][f] = IF m = c.mbid /\ f = c.format
                                THEN [video |-> v, late |-> late] ELSE staged[m][f]
      BY <1>0, <1>4, BringsVideos, CallTypes, FileTypes
    <2>2. OnlyPick(c.mbid) => v \in Picked(c.mbid)
      <3> SUFFICES ASSUME OnlyPick(c.mbid) PROVE v \in Picked(c.mbid)
        OBVIOUS
      <3>1. c.target \in Picked(c.mbid)
        BY <1>4, <2>1 DEF FollowsPick
      <3>2. c.target = asked[c.mbid] /\ asked[c.mbid] \in Videos \cup {NoVideo}
        BY <1>0, <2>1, <3>1 DEF Picked, TypeOK
      <3>3. c.target \in Videos
        <4>1. c.target \in Targets /\ NoVideo \notin Targets
          BY <1>4, CallTypes, DownloaderAssumption
        <4>2. QED
          BY <3>2, <4>1
      <3>4. QED
        BY <1>4, <3>1, <3>3 DEF Brings
    <2>3. QED
      BY <1>0, <2>1, <2>2 DEF FileFollows
  <1>5. QED
    BY <1>1, <1>2, <1>3, <1>4 DEF FilesChange

\* What a run of the pick asks for is the pick.
LEMMA OwnCallFollows ==
    ASSUME IInv, PickIsFollowed, pc \in {"try", "fetch"}, opts # <<>>
    PROVE  /\ FetchCall(mbid, target, Head(opts)) \in Call
           /\ FollowsPick(FetchCall(mbid, target, Head(opts)))
  <1> DEFINE c == FetchCall(mbid, target, Head(opts))
  <1>1. mbid \in Mbids /\ target \in Targets /\ Head(opts) \in Formats
    BY QueueOfFormats DEF IInv, TypeOK
  <1>2. c \in Call /\ c.mbid = mbid /\ c.target = target
    BY <1>1, CallTypes
  <1>3. ASSUME OnlyPick(mbid) PROVE target \in Picked(mbid)
    <2>1. tries[mbid] = 1 /\ asked[mbid] # NoVideo /\ video = asked[mbid]
      BY <1>3 DEF PickIsFollowed, OnlyPick
    <2>2. target = video
      BY <2>1 DEF IInv, RightTarget, Acceptable
    <2>3. QED
      BY <2>1, <2>2 DEF Picked
  <1> HIDE DEF c
  <1>4. QED
    BY <1>2, <1>3 DEF FollowsPick, c

\* Every step keeps calls and files of a first run to its pick.
LEMMA PickStep == IInv /\ PickIsFollowed /\ [Next]_vars => PickIsFollowed'
  <1> SUFFICES ASSUME IInv, PickIsFollowed, [Next]_vars PROVE PickIsFollowed'
    OBVIOUS
  <1>1. CASE Begin
    BY <1>1, BeginKeepsPick DEF Begin
  <1> DEFINE Calls == \/ UNCHANGED pool
                      \/ \E t \in Threads : Frees(t) \/ Takes(t)
                      \/ \E by \in {"worker", "loop"} : GivesUp(by)
                      \/ UNCHANGED thread /\ \E c \in Call : Submit(c) /\ FollowsPick(c)
                      \/ Exit
             Goes == pc' # "idle" => pc # "idle" /\ UNCHANGED <<mbid, video>>
             Kept == UNCHANGED <<asked, tries>> /\ Calls /\ FilesChange /\ Goes
  <1>k. ASSUME Kept PROVE PickIsFollowed'
    <2>1. /\ \A i \in DOMAIN waiting' : FollowsPick(waiting'[i])
          /\ \A t \in Threads : FollowsPick(thread'[t])
      BY <1>k, CallsKept
    <2>2. \A m \in Mbids, f \in Formats : FileFollows(m, staged'[m][f])
      BY <1>k, FilesKept
    <2>3. QED
      BY <1>k, <2>1, <2>2, PickKept
  <1>2. CASE Worker
    <2> SUFFICES Kept
      BY <1>k
    <2>1. CASE MetaTimesOut \/ FetchTimesOut
      BY <2>1 DEF MetaTimesOut, FetchTimesOut, Answered, NextFormat, jobs, FilesChange
    <2>2. CASE Choose \/ ChooseSearch
      BY <2>2 DEF Choose, ChooseSearch, jobs, FilesChange
    <2>3. CASE TryFormat
      BY <2>3, OwnCallFollows DEF TryFormat, jobs, locals, FilesChange
    <2>4. CASE TargetFails
      BY <2>4 DEF TargetFails, NextTarget, Ends, jobs, FilesChange
    <2>5. CASE Imported
      BY <2>5 DEF Imported, Ends, FilesChange, IInv, TypeOK
    <2>6. CASE ImportFails \/ JobFails
      BY <2>6 DEF ImportFails, JobFails, Ends, jobs, FilesChange
    <2>7. CASE CallRaises
      BY <2>7 DEF CallRaises, NextFormat, jobs, locals, FilesChange
    <2>8. QED
      BY <1>2, <2>1, <2>2, <2>3, <2>4, <2>5, <2>6, <2>7 DEF Worker
  <1>3. CASE Pool
    <2> SUFFICES ASSUME NEW t \in Threads,
                        \/ Takes(t) \/ MetaEnds(t) \/ Fetched(t) \/ FindsFile(t)
                        \/ Dissimilar(t) \/ FetchFails(t) \/ FetchBlocked(t)
                        \/ FetchRaises(t) \/ CandidatesEnd(t) \/ LateWrite(t) \/ LateEnd(t)
                 PROVE  Kept
      BY <1>3, <1>k DEF Pool
    <2>1. CASE Takes(t) \/ CandidatesEnd(t) \/ LateEnd(t)
      BY <2>1 DEF Takes, CandidatesEnd, LateEnd, jobs, locals, FilesChange
    <2>2. CASE MetaEnds(t)
      BY <2>2, PoolTellsStep DEF MetaEnds, Answered, jobs, FilesChange
    <2>3. ASSUME NEW late \in BOOLEAN, NEW v \in Brings(thread[t]),
                 Writes(thread[t], v, late), thread[t] # NoCall, thread[t].kind = "fetch"
          PROVE  FilesChange
      BY <2>3 DEF FilesChange, PickIsFollowed, IInv, TypeOK
    <2>4. CASE Fetched(t)
      BY <2>3, <2>4, PoolTellsStep DEF Fetched, Runs, Returns, jobs
    <2>a. ASSUME LeavesFile(thread[t]), thread[t] # NoCall, thread[t].kind = "fetch"
          PROVE  FilesChange
      <3>1. CASE UNCHANGED staged
        BY <3>1 DEF FilesChange
      <3>2. ASSUME thread[t].target = Playlist, NEW v \in Videos, Writes(thread[t], v, FALSE)
            PROVE  FilesChange
        <4>1. v \in Brings(thread[t])
          BY <3>2, DownloaderAssumption DEF Brings
        <4>2. QED
          BY <2>3, <2>a, <3>2, <4>1
      <3>3. QED
        BY <2>a, <3>1, <3>2 DEF LeavesFile
    <2>5. CASE LateWrite(t)
      BY <2>3, <2>5 DEF LateWrite, Runs, jobs, locals
    <2>6. CASE FindsFile(t) \/ FetchFails(t) \/ FetchRaises(t)
      <3>1. CASE FindsFile(t)
        BY <3>1, PoolTellsStep DEF FindsFile, Returns, jobs, FilesChange
      <3>2. CASE FetchFails(t)
        BY <2>a, <3>2, PoolTellsStep DEF FetchFails, Runs, NextFormat, jobs
      <3>3. CASE FetchRaises(t)
        BY <2>a, <3>3, PoolTellsStep DEF FetchRaises, Runs, jobs, locals
      <3>4. QED
        BY <2>6, <3>1, <3>2, <3>3
    <2>7. CASE Dissimilar(t)
      BY <2>7, PoolTellsStep DEF Dissimilar, Ends, jobs, FilesChange, IInv, TypeOK
    <2>8. CASE FetchBlocked(t)
      BY <2>a, <2>8, PoolTellsStep DEF FetchBlocked, Runs, NextTarget, Ends, jobs
    <2>9. QED
      BY <2>1, <2>2, <2>4, <2>5, <2>6, <2>7, <2>8
  <1>4. CASE AskCandidates \/ CandidatesTimeOut \/ Exit \/ UNCHANGED vars
    <2> SUFFICES Kept
      BY <1>k
    <2>1. CASE AskCandidates
      <3>1. FollowsPick([kind |-> "candidates", by |-> "loop"])
        BY DEF FollowsPick
      <3>2. QED
        BY <2>1, <3>1, CallTypes DEF AskCandidates, jobs, locals, FilesChange
    <2>2. CASE CandidatesTimeOut
      BY <2>2 DEF CandidatesTimeOut, jobs, locals, FilesChange
    <2>3. CASE Exit
      BY <2>3 DEF Exit, Ends, jobs, FilesChange
    <2>4. CASE UNCHANGED vars
      BY <2>4 DEF vars, jobs, locals, FilesChange
    <2>5. QED
      BY <1>4, <2>1, <2>2, <2>3, <2>4
  <1>5. QED
    BY <1>1, <1>2, <1>3, <1>4 DEF Next

\* The first run of a job with a video of its own imports that video or nothing,
\* whatever times out and arrives late.
THEOREM FirstRunsBringThePick == Spec => []FirstRunBringsThePick
  <1>1. Init => PickIsFollowed
    BY DEF Init, PickIsFollowed, FollowsPick, NoFiles
  <1>2. IInv /\ PickIsFollowed => FirstRunBringsThePick
    <2> SUFFICES ASSUME IInv, PickIsFollowed, pc = "import", tries[mbid] = 1,
                        asked[mbid] # NoVideo
                 PROVE  staged[mbid][given].video = asked[mbid]
      BY DEF FirstRunBringsThePick
    <2>1. mbid \in Mbids /\ given \in Formats /\ staged[mbid][given] # NoFile
      BY DEF IInv, TypeOK, StagedIsAcceptable
    <2>2. QED
      BY <2>1 DEF PickIsFollowed, OnlyPick, Picked
  <1>3. QED
    BY <1>1, <1>2, PickStep, InductiveInvariant, PTL DEF Spec
=============================================================================
