---------------------------- MODULE DurableWork -----------------------------
(***************************************************************************)
(* What the job machinery of music-bot promises, without threads, queues   *)
(* or tables: a durable verdict per job, and a volatile set of jobs that   *)
(* are being taken care of.  A verdict survives every crash; while the     *)
(* process is up, a job that is owed a verdict is being taken care of; a   *)
(* job that is done or ignored is never taken up again once it is let go.  *)
(***************************************************************************)
CONSTANT Jobs

VARIABLES st,    \* durable: none, owed, done, failed or ignored
          live,  \* volatile: the jobs being taken care of
          up     \* the process runs and has recovered

vars == <<st, live, up>>

Verdicts == {"done", "failed"}

\* Jobs an earlier version has given up are failed from the start.
Init == st \in [Jobs -> {"none", "failed"}] /\ live = {} /\ up = FALSE

\* Jobs are taken up: new ones, or failed ones to try again.
TakeUp(S) ==
    /\ up
    /\ \A j \in S : st[j] \in {"none", "failed"}
    /\ live' = live \cup S
    /\ UNCHANGED <<st, up>>

\* A request: taken up and owed at once.
Accept(j) ==
    /\ up /\ st[j] = "none"
    /\ st' = [st EXCEPT ![j] = "owed"]
    /\ live' = live \cup {j}
    /\ UNCHANGED up

\* A live job is worked on, whatever it was before.
Work(j) ==
    /\ up /\ j \in live
    /\ st' = [st EXCEPT ![j] = "owed"]
    /\ UNCHANGED <<live, up>>

\* A live job gets a verdict, and may be let go in the same step.
Settle(j, v) ==
    /\ up /\ j \in live /\ st[j] # "none"
    /\ st' = [st EXCEPT ![j] = v]
    /\ live' \in {live, live \ {j}}
    /\ UNCHANGED up

\* Jobs nobody is owed an answer about are let go.
LetGo(S) ==
    /\ up /\ S \subseteq live
    /\ \A j \in S : st[j] # "owed"
    /\ live' = live \ S
    /\ UNCHANGED <<st, up>>

Delete(S) ==
    /\ up /\ \A j \in S : st[j] # "none"
    /\ st' = [j \in Jobs |-> IF j \in S THEN "ignored" ELSE st[j]]
    /\ UNCHANGED <<live, up>>

Crash == up' = FALSE /\ live' = {} /\ UNCHANGED st

\* Everything owed, and nothing else, is taken up again.
Recover ==
    /\ ~up /\ up' = TRUE
    /\ live' = {j \in Jobs : st[j] = "owed"}
    /\ UNCHANGED st

Next ==
    \/ \E S \in SUBSET Jobs : TakeUp(S) \/ LetGo(S) \/ Delete(S)
    \/ \E j \in Jobs : Accept(j) \/ Work(j) \/ \E v \in Verdicts : Settle(j, v)
    \/ Crash \/ Recover

Spec == Init /\ [][Next]_vars

-----------------------------------------------------------------------------

\* While the process is up, every job that is owed a verdict is being taken care
\* of, after any number of crashes.
OwedIsLive == up => \A j \in Jobs : st[j] = "owed" => j \in live

\* A job that was done or deleted and let go is never taken up again.
Closed(j) == st[j] \in {"done", "ignored"} /\ j \notin live
ClosedStaysClosed == [][\A j \in Jobs : Closed(j) => Closed(j)']_vars
=============================================================================
