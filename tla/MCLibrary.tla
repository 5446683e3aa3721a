----------------------------- MODULE MCLibrary -----------------------------
(* Names for the model values of the Library runs: track a has two paths its *)
(* names can lead to, track b one.                                           *)
EXTENDS Library, TLC

CONSTANTS a, b, a1, a2, b1

MCJobs == {a, b}
MCPaths == {a1, a2, b1}
MCHome == a :> {a1, a2} @@ b :> {b1}
MCMaxPuts == a :> 2 @@ b :> 1
=============================================================================
