---------------------------- MODULE MCRateLimiter ----------------------------
(***************************************************************************)
(* A rule of two requests in a window of three ticks, over four windows.   *)
(***************************************************************************)
EXTENDS RateLimiter
=============================================================================
