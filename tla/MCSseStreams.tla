---------------------------- MODULE MCSseStreams ----------------------------
(* SseStreams on small instances: names for the streams. *)
EXTENDS SseStreams

CONSTANTS a, b

MCStreams == {a, b}
=============================================================================
