----------------------------- MODULE DownloadRun -----------------------------
(***************************************************************************)
(* What a run of a download promises, without threads, calls and files:    *)
(* it hears which videos there are, tries each target once and each format *)
(* of a target once, the search last, and gives up only when there is      *)
(* nothing left that it had to try.  An exception it does not expect from  *)
(* a target of its own choice ends it at once.                             *)
(***************************************************************************)
EXTENDS Naturals

CONSTANTS
    Videos, NoVideo,
    Entries,     \* what a search may answer with
    Must,        \* the entries that may not be passed over
    Search,      \* the last target of a run
    MaxFormats   \* how many formats a target is tried in at most

VARIABLES
    phase,   \* idle, running, ready: a file is there, or raised
    wanted,  \* the one video to get, NoVideo: what the search brings
    heard,   \* the entries there are
    tried,   \* the targets tried
    left,    \* how many formats of the last one are left
    exits    \* how often a run was cut off

vars == <<phase, wanted, heard, tried, left, exits>>

Init ==
    /\ phase = "idle" /\ wanted = NoVideo
    /\ heard = {} /\ tried = {} /\ left = 0 /\ exits = 0

Begin ==
    /\ phase = "idle" /\ phase' = "running"
    /\ \/ UNCHANGED <<wanted, tried, left>>
       \/ \E v \in Videos : wanted' = v /\ tried' = {v} /\ left' \in 1 .. MaxFormats
    /\ UNCHANGED <<heard, exits>>

Hear ==
    /\ phase = "running" /\ wanted = NoVideo /\ tried = {}
    /\ heard' \in SUBSET Entries
    /\ UNCHANGED <<phase, wanted, tried, left, exits>>

Try(x) ==
    /\ phase = "running" /\ wanted = NoVideo
    /\ tried \cap {x, Search} = {}
    /\ x = Search => heard \cap Must \subseteq tried
    /\ tried' = tried \cup {x}
    /\ left' \in 1 .. MaxFormats
    /\ UNCHANGED <<phase, wanted, heard, exits>>

FormatFails ==
    /\ phase = "running" /\ left > 0 /\ left' = left - 1
    /\ UNCHANGED <<phase, wanted, heard, tried, exits>>

Succeed ==
    /\ phase = "running" /\ left > 0 /\ phase' = "ready"
    /\ UNCHANGED <<wanted, heard, tried, left, exits>>

Stop ==
    /\ phase' = "idle" /\ wanted' = NoVideo
    /\ heard' = {} /\ tried' = {} /\ left' = 0

GiveUp ==
    /\ phase = "running"
    /\ IF wanted = NoVideo THEN Search \in tried ELSE left = 0
    /\ Stop /\ UNCHANGED exits

\* Only while a target is tried.
Raise ==
    /\ phase = "running" /\ wanted = NoVideo /\ left > 0 /\ phase' = "raised"
    /\ UNCHANGED <<wanted, heard, tried, left, exits>>

Fail == phase = "raised" /\ Stop /\ UNCHANGED exits

Done == phase = "ready" /\ Stop /\ UNCHANGED exits

Exit == Stop /\ exits' = exits + 1

Next ==
    \/ Begin \/ Hear \/ FormatFails \/ Succeed \/ GiveUp \/ Raise \/ Fail \/ Done \/ Exit
    \/ \E x \in heard \cup {Search} : Try(x)

Spec == Init /\ [][Next]_vars
=============================================================================
