----------------------------- MODULE MCCfCursor -----------------------------
(* CfCursor on small instances: two threads, a list of two recordings and a   *)
(* longer one that begins with the second of them.                            *)
EXTENDS CfCursor

CONSTANTS sched, manual, a, b, c

MCPipes == {sched, manual}
MCOnePipe == {sched}
MCMbids == {a, b, c}
MCRanks == <<<<a>>, <<b, c, a>>>>
=============================================================================
