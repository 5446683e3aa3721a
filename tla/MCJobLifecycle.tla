--------------------------- MODULE MCJobLifecycle ---------------------------
(* JobLifecycle on small instances: names for the model values and symmetry. *)
EXTENDS JobLifecycle, TLC

CONSTANTS l1, m1, p1, p2

MCJobs == {l1, m1}
MCManualJobs == {m1}
MCOneLB == {l1}
MCNone == {}
MCPipes == {p1}
MCTwoPipes == {p1, p2}
PipeSymmetry == Permutations(MCTwoPipes)
=============================================================================
