---------------------------- MODULE SlidingWindow ----------------------------
(***************************************************************************)
(* What a rate limiter promises to a client, without a store: every        *)
(* request let through stays in the log, and the next one is let through   *)
(* if and only if fewer than Limit of them lie in the window that ends     *)
(* now.                                                                    *)
(***************************************************************************)
EXTENDS Naturals, Sequences, FiniteSets

CONSTANTS Window, Limit

VARIABLES now,      \* the clock
          log,      \* the times of the requests let through, in order
          refusals  \* how many were refused

vars == <<now, log, refusals>>

Inside == {i \in DOMAIN log : now - log[i] < Window}

Init == now = 0 /\ log = <<>> /\ refusals = 0

LetThrough ==
    /\ Cardinality(Inside) < Limit
    /\ log' = Append(log, now)
    /\ UNCHANGED <<now, refusals>>

Refuse ==
    /\ Cardinality(Inside) >= Limit
    /\ refusals' = refusals + 1
    /\ UNCHANGED <<now, log>>

Tick == now' = now + 1 /\ UNCHANGED <<log, refusals>>

Next == LetThrough \/ Refuse \/ Tick

Spec == Init /\ [][Next]_vars
=============================================================================
