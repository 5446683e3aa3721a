----------------------------- MODULE RateLimiter -----------------------------
(***************************************************************************)
(* The sliding window of rate_limit_middleware for one client address and  *)
(* one rule, and the cleanup that drops idle entries.  Entries of          *)
(* different keys share nothing.  The middleware does not await between    *)
(* its read of the entry and its write, so a request is one step.          *)
(*                                                                         *)
(* A time stamp is the number of an accepted request; accepted holds the   *)
(* times.  An entry without stamps is never kept, so an empty store is a   *)
(* missing entry.                                                          *)
(***************************************************************************)
EXTENDS Naturals, Sequences, FiniteSets

CONSTANTS
    Window,       \* _rate_window
    Limit,        \* of the rule, in _RATE_LIMITS
    MaxTime,      \* bound: ticks of the clock
    MaxRefusals   \* bound: refusals

ASSUME LimiterAssumption ==
    /\ Window \in Nat \ {0} /\ Limit \in Nat \ {0}
    /\ MaxTime \in Nat /\ MaxRefusals \in Nat

VARIABLES
    now,        \* time.time(), which is taken not to go back
    accepted,   \* history: the times of the requests let through, in order
    store,      \* the stamps in _rate_store
    refusals    \* history: how many requests were refused

vars == <<now, accepted, store, refusals>>

Stamps == DOMAIN accepted

\* Every variable has its type, and a stamp is of a request let through.
TypeOK ==
    /\ now \in Nat
    /\ accepted \in Seq(Nat)
    /\ store \subseteq Stamps
    /\ refusals \in Nat

Init == now = 0 /\ accepted = <<>> /\ store = {} /\ refusals = 0

\* Mutant: nothing is pruned.
Unpruned == store

\* Mutant: a stamp counts for one tick longer.
RecentOrJustPast == {i \in store : now - accepted[i] <= Window}

\* The stamps inside the window.
Recent == {i \in store : now - accepted[i] < Window}

\* The requests come early enough for the last to leave the window in time.
Early == now + Window < MaxTime

Accept ==
    /\ Early
    /\ Cardinality(Recent) < Limit
    /\ accepted' = Append(accepted, now)
    /\ store' = Recent \cup {Len(accepted) + 1}
    /\ UNCHANGED <<now, refusals>>

\* Mutant: a refused request is stamped too.
RefuseStamps ==
    /\ refusals < MaxRefusals
    /\ Cardinality(Recent) >= Limit
    /\ refusals' = refusals + 1
    /\ store' = Recent \cup {Len(accepted) + 1}
    /\ UNCHANGED <<now, accepted>>

\* 429 with Retry-After; the request leaves no stamp.
Refuse ==
    /\ refusals < MaxRefusals
    /\ Cardinality(Recent) >= Limit
    /\ refusals' = refusals + 1
    /\ store' = Recent
    /\ UNCHANGED <<now, accepted>>

\* Mutant: one old stamp is enough.
AnyExpired == \E i \in store : now - accepted[i] > Window

\* Mutant: only empty entries go.
NothingLeft == store = {}

Expired == \A i \in store : now - accepted[i] > Window

\* One round of _periodic_rate_cleanup, every 300 s.
Cleanup ==
    /\ Expired
    /\ store' = {}
    /\ UNCHANGED <<now, accepted, refusals>>

Tick ==
    /\ now < MaxTime
    /\ now' = now + 1
    /\ UNCHANGED <<accepted, store, refusals>>

Next == Accept \/ Refuse \/ Cleanup \/ Tick

Spec == Init /\ [][Next]_vars

\* Time passes and the cleanup task runs.
FairSpec == Spec /\ WF_vars(Tick) /\ WF_vars(Cleanup)

-----------------------------------------------------------------------------

\* Never too many: of Limit + 1 requests let through in a row the last comes
\* at least a window after the first, wherever the window starts and whatever
\* was pruned or cleaned up in between.
NeverTooMany ==
    \A i \in Stamps :
       i + Limit \in Stamps => accepted[i + Limit] - accepted[i] >= Window

\* A refusal is earned: Limit requests were let through within the window
\* that ends now.  So refused requests do not count, and who waits as long as
\* Retry-After says is let in.
RefusedOnlyWhenFull ==
    [][refusals' # refusals =>
          LET oldest == Len(accepted) + 1 - Limit IN
          oldest \in Stamps /\ now - accepted[oldest] < Window]_vars

\* The limiter decides like one that forgets nothing (SlidingWindow): a request
\* is let through exactly when fewer than Limit were within the window that ends
\* now, whatever was pruned from _rate_store or cleaned up in between.
ForgetsNothing == INSTANCE SlidingWindow WITH log <- accepted
DecidesByTheWindow == ForgetsNothing!Spec

\* A client that stays away is forgotten: its entry does not stay in memory.
QuietClientIsForgotten == <>[](store = {})

-----------------------------------------------------------------------------
(* What the safety properties rest on. *)

\* Requests are let through in the order of time.
InOrder ==
    /\ \A i \in Stamps : accepted[i] <= now
    /\ \A i, j \in Stamps : i <= j => accepted[i] <= accepted[j]

\* No stamp inside the window has been dropped.
RecentIsStored == \A i \in Stamps : now - accepted[i] < Window => i \in store

IInv == TypeOK /\ InOrder /\ RecentIsStored /\ NeverTooMany
=============================================================================
