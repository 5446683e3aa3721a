------------------------------ MODULE CfCursor ------------------------------
(***************************************************************************)
(* The cursor with which run_pipeline works its way through the            *)
(* recommendations of ListenBrainz: cf_offset and cf_first_mbid in the     *)
(* settings table, read, used for a fetch and written back by every        *)
(* pipeline thread (the scheduler's and the manually started ones), while  *)
(* ListenBrainz may replace its list by that of a new model.               *)
(*                                                                         *)
(* Abstracted: LB Radio answers with tracks or without; is_downloaded,     *)
(* retries and the enqueueing of what was fetched are one step at the end  *)
(* (JobLifecycle takes it apart).                                          *)
(***************************************************************************)
EXTENDS Naturals, Sequences, FiniteSets

CONSTANTS
    Pipes,       \* threads that run pipelines, one at a time each
    Scheduler,   \* the one that runs them again and again
    Mbids, NoMbid,
    Ranks,       \* external: the lists of ListenBrainz, one per model
    Nameless,    \* external: recordings whose names are never found
    Count,       \* cf_target
    RadioCount,  \* radio_target
    MaxMishaps   \* bound: empty lookups, requests and statements that raise, exits

ASSUME CursorAssumption ==
    /\ Scheduler \in Pipes
    /\ NoMbid \notin Mbids /\ Nameless \subseteq Mbids
    /\ Ranks \in Seq(Seq(Mbids)) /\ Ranks # <<>>
    /\ Count \in Nat \ {0} /\ RadioCount \in Nat

VARIABLES
    offset, first,  \* settings: cf_offset, cf_first_mbid (NoMbid: no row)
    model,          \* external: the model ListenBrainz answers from
    pc, off, mbid,  \* per pipeline: step, the offset it read, the mbid in hand
    found,          \* per pipeline: the tracks it has fetched
    handed,         \* history: tracks put in the work queue
    lost,           \* history: tracks fetched and dropped on the way
    base, src,      \* history: the model in which offset, off count (0: several)
    mishaps         \* counter behind the bound

settings == <<offset, first, base>>
fates == <<handed, lost>>
vars == <<settings, model, pc, off, mbid, found, src, fates, mishaps>>

Models == DOMAIN Ranks
Tracks == UNION {{m} \X DOMAIN Ranks[m] : m \in Models}

\* A track of the list of model m, by its place in it; places count from 1.
Page(m, o, n) == {t \in {m} \X (o + 1 .. o + n) : t[2] <= Len(Ranks[m])}

Named(page) == {t \in page : Ranks[t[1]][t[2]] \notin Nameless}

CfSteps == {"prev", "probe", "keep", "fetch", "top", "advance", "rewind"}
Steps == CfSteps \cup {"idle", "again", "refetch", "readvance", "hand"}

\* Every variable has its type; an idle thread has no tracks in hand.
TypeOK ==
    /\ offset \in Nat /\ first \in Mbids \cup {NoMbid}
    /\ model \in Models
    /\ pc \in [Pipes -> Steps]
    /\ off \in [Pipes -> Nat] /\ mbid \in [Pipes -> Mbids \cup {NoMbid}]
    /\ found \in [Pipes -> SUBSET Tracks]
    /\ \A p \in Pipes : pc[p] = "idle" => found[p] = {}
    /\ handed \subseteq Tracks /\ lost \subseteq Tracks
    /\ base \in Models \cup {0} /\ src \in [Pipes -> Models \cup {0}]
    /\ mishaps \in Nat

Init ==
    /\ offset = 0 /\ first = NoMbid
    /\ model = 1
    /\ pc = [p \in Pipes |-> "idle"]
    /\ off = [p \in Pipes |-> 0] /\ mbid = [p \in Pipes |-> NoMbid]
    /\ found = [p \in Pipes |-> {}]
    /\ handed = {} /\ lost = {}
    /\ base = 0 /\ src = [p \in Pipes |-> 0]
    /\ mishaps = 0

Mishap == mishaps < MaxMishaps /\ mishaps' = mishaps + 1

Moves(p, from, to) == pc[p] = from /\ pc' = [pc EXCEPT ![p] = to]

Advances(p, o) == offset' = o /\ base' = src[p]

\* Locals that are not read again.
ForgetMbid(p) == mbid' = [mbid EXCEPT ![p] = NoMbid]
Forget(p) ==
    /\ off' = [off EXCEPT ![p] = 0] /\ src' = [src EXCEPT ![p] = 0]
    /\ ForgetMbid(p)

-----------------------------------------------------------------------------
(* The first fetch. *)

\* A run begins with get_setting(cf_offset).
Start(p) ==
    /\ Moves(p, "idle", IF offset > 0 THEN "prev" ELSE "fetch")
    /\ off' = [off EXCEPT ![p] = offset]
    /\ src' = [src EXCEPT ![p] = base]
    /\ UNCHANGED <<settings, model, mbid, found, fates, mishaps>>

ReadFirst(p) ==
    /\ Moves(p, "prev", IF first = NoMbid THEN "fetch" ELSE "probe")
    /\ mbid' = [mbid EXCEPT ![p] = first]
    /\ UNCHANGED <<settings, model, off, found, src, fates, mishaps>>

\* Of a page one receives less than there is to receive.
Misses(page, kept) ==
    /\ kept \subseteq Named(page)
    /\ IF kept # Named(page) THEN Mishap ELSE UNCHANGED mishaps

\* The first track of the list is compared with the one that is stored ...
Probe(p) ==
    /\ Named(Page(model, 0, 1)) # {}
    /\ LET now == Ranks[model][1] IN
       IF now # mbid[p]
       THEN /\ Moves(p, "probe", "keep")
            /\ off' = [off EXCEPT ![p] = 0]
            /\ mbid' = [mbid EXCEPT ![p] = now]
       ELSE Moves(p, "probe", "fetch") /\ ForgetMbid(p) /\ UNCHANGED off
    /\ UNCHANGED <<settings, model, found, src, fates, mishaps>>

\* ... unless its names are not to be had, for once or at all.
ProbeIsEmpty(p) ==
    /\ Moves(p, "probe", "fetch")
    /\ Misses(Page(model, 0, 1), {}) /\ ForgetMbid(p)
    /\ UNCHANGED <<settings, model, off, found, src, fates>>

\* A new model: its first mbid is stored; the offset waits for the fetch.
KeepFirst(p) ==
    /\ Moves(p, "keep", "fetch")
    /\ first' = mbid[p] /\ ForgetMbid(p)
    /\ UNCHANGED <<offset, base, model, off, found, src, fates, mishaps>>

\* fetch_recommendations: a page of the list, less the tracks whose names a
\* lookup does not find.
Receives(p, o, n, kept) ==
    LET page == Page(model, o, n) IN
    /\ Misses(page, kept)
    /\ found' = [found EXCEPT ![p] = @ \cup kept]
    /\ lost' = lost \cup (page \ kept)

\* The model in which an offset counts after a fetch from it.
Counts(p, o) == src' = [src EXCEPT ![p] = IF o = 0 \/ @ = model THEN model ELSE 0]

Earliest(t, kept) == t \in kept /\ \A u \in kept : t[2] <= u[2]

Fetch(p) ==
    \E kept \in SUBSET Page(model, off[p], Count) \ {{}} :
       /\ Receives(p, off[p], Count, kept) /\ Counts(p, off[p])
       /\ IF off[p] = 0
          THEN /\ Moves(p, "fetch", "top")
               /\ \E t \in kept : /\ Earliest(t, kept)
                                 /\ mbid' = [mbid EXCEPT ![p] = Ranks[t[1]][t[2]]]
          ELSE Moves(p, "fetch", "advance") /\ UNCHANGED mbid
       /\ UNCHANGED <<settings, model, off, handed>>

\* Nothing came: the list is taken to be exhausted.
FetchIsEmpty(p) ==
    /\ Moves(p, "fetch", IF off[p] > 0 THEN "rewind" ELSE "hand")
    /\ Receives(p, off[p], Count, {}) /\ Forget(p)
    /\ UNCHANGED <<settings, model, handed>>

StoreTop(p) ==
    /\ Moves(p, "top", "advance")
    /\ first' = mbid[p] /\ ForgetMbid(p)
    /\ UNCHANGED <<offset, base, model, off, found, src, fates, mishaps>>

\* Mutant: what was read is added to what is stored by now.
AdvanceFurther(p) ==
    /\ \E to \in {"hand", "again"} : Moves(p, "advance", to)
    /\ Advances(p, offset + Cardinality(found[p])) /\ Forget(p)
    /\ UNCHANGED <<first, model, found, fates, mishaps>>

\* LB Radio then has tracks or not.
Advance(p) ==
    /\ \E to \in {"hand", "again"} : Moves(p, "advance", to)
    /\ Advances(p, off[p] + Cardinality(found[p])) /\ Forget(p)
    /\ UNCHANGED <<first, model, found, fates, mishaps>>

\* Mutant: the cursor stays at the end of the list.
StaysAtEnd(p) ==
    /\ Moves(p, "rewind", "hand") /\ Forget(p)
    /\ UNCHANGED <<settings, model, found, fates, mishaps>>

\* Nothing at this offset: the next run begins at the top.
Rewind(p) ==
    /\ Moves(p, "rewind", "hand")
    /\ offset' = 0 /\ Forget(p)
    /\ UNCHANGED <<base, first, model, found, fates, mishaps>>

\* A request or a statement raised: the run goes on with what it has.
CfRaises(p) ==
    /\ pc[p] \in CfSteps /\ pc' = [pc EXCEPT ![p] = "hand"]
    /\ Mishap /\ Forget(p)
    /\ UNCHANGED <<settings, model, found, fates>>

-----------------------------------------------------------------------------
(* The second fetch, when LB Radio had nothing. *)

ReadAgain(p) ==
    /\ Moves(p, "again", "refetch")
    /\ off' = [off EXCEPT ![p] = offset]
    /\ src' = [src EXCEPT ![p] = base]
    /\ UNCHANGED <<settings, model, mbid, found, fates, mishaps>>

Refetch(p) ==
    \E kept \in SUBSET Page(model, off[p], RadioCount) \ {{}} :
       /\ Moves(p, "refetch", "readvance")
       /\ Receives(p, off[p], RadioCount, kept) /\ Counts(p, off[p])
       /\ off' = [off EXCEPT ![p] = @ + Cardinality(kept)]
       /\ UNCHANGED <<settings, model, mbid, handed>>

RefetchIsEmpty(p) ==
    /\ Moves(p, "refetch", "hand")
    /\ Receives(p, off[p], RadioCount, {}) /\ Forget(p)
    /\ UNCHANGED <<settings, model, handed>>

AdvanceAgain(p) ==
    /\ Moves(p, "readvance", "hand")
    /\ Advances(p, off[p]) /\ Forget(p)
    /\ UNCHANGED <<first, model, found, fates, mishaps>>

AgainRaises(p) ==
    /\ pc[p] \in {"again", "refetch", "readvance"} /\ pc' = [pc EXCEPT ![p] = "hand"]
    /\ Mishap /\ Forget(p)
    /\ UNCHANGED <<settings, model, found, fates>>

-----------------------------------------------------------------------------
(* The end of a run. *)

RunEnds(p) ==
    /\ Moves(p, "hand", "idle")
    /\ found' = [found EXCEPT ![p] = {}]
    /\ UNCHANGED <<off, mbid, src>>

\* Mutant: the list is not emptied.
HandOverKeeps(p) ==
    /\ Moves(p, "hand", "idle")
    /\ handed' = handed \cup found[p]
    /\ UNCHANGED <<settings, model, off, mbid, found, src, lost, mishaps>>

\* What was fetched is put in the work queue, or is known there already.
HandOver(p) ==
    /\ RunEnds(p)
    /\ handed' = handed \cup found[p]
    /\ UNCHANGED <<settings, model, lost, mishaps>>

\* A statement raised on the way there: _run_scheduler logs it.
HandOverRaises(p) ==
    /\ RunEnds(p)
    /\ Mishap
    /\ \E some \in SUBSET found[p] : /\ handed' = handed \cup some
                                     /\ lost' = lost \cup (found[p] \ some)
    /\ UNCHANGED <<settings, model>>

PipelineStep(p) ==
    \/ ReadFirst(p) \/ Probe(p) \/ ProbeIsEmpty(p) \/ KeepFirst(p)
    \/ Fetch(p) \/ FetchIsEmpty(p) \/ StoreTop(p) \/ Advance(p) \/ Rewind(p) \/ CfRaises(p)
    \/ ReadAgain(p) \/ Refetch(p) \/ RefetchIsEmpty(p) \/ AdvanceAgain(p)
    \/ AgainRaises(p)
    \/ HandOver(p) \/ HandOverRaises(p)

\* The process ends and starts again; only the settings stay.
Exit ==
    /\ Mishap
    /\ lost' = lost \cup UNION {found[p] : p \in Pipes}
    /\ pc' = [p \in Pipes |-> "idle"]
    /\ off' = [p \in Pipes |-> 0] /\ mbid' = [p \in Pipes |-> NoMbid]
    /\ found' = [p \in Pipes |-> {}] /\ src' = [p \in Pipes |-> 0]
    /\ UNCHANGED <<settings, model, handed>>

\* External: ListenBrainz has trained a new model.
NewModel ==
    /\ model < Len(Ranks) /\ model' = model + 1
    /\ UNCHANGED <<settings, pc, off, mbid, found, src, fates, mishaps>>

Next ==
    \/ \E p \in Pipes : Start(p) \/ PipelineStep(p)
    \/ Exit
    \/ NewModel

Spec == Init /\ [][Next]_vars

\* The scheduler begins a run again and again, and a run it has begun goes on (its
\* requests have timeouts).  Nothing is assumed of the other threads.
Fairness == WF_vars(Start(Scheduler) \/ PipelineStep(Scheduler))

FairSpec == Spec /\ Fairness

-----------------------------------------------------------------------------
(* Properties. *)

InHand == UNION {found[p] : p \in Pipes}

\* The cursor passes over nothing: each track before cf_offset in the list it
\* counts in has been handed to the worker, is in the hands of a run, or was lost
\* by a lookup, an error or an exit - however many pipelines move the cursor at
\* the same time, whatever they had read before, and whichever rewinds it.
CursorSkipsNothing ==
    base # 0 => {base} \X (1 .. offset) \subseteq handed \cup InHand \cup lost

\* The tracks of a list with a name, up to the first page of which none has: there
\* the cursor goes back to the top.
Reachable(m) ==
    {t \in Named({m} \X DOMAIN Ranks[m]) :
        \A o \in 0 .. t[2] - 1 : Named(Page(m, o, Count)) # {}}

\* Whatever is lost on the way comes up again: when no more new models come, every
\* track of the last list that has a name has been handed to the worker in the end,
\* unless a page without names is before it.
EverythingComes == <>[](Reachable(model) \subseteq handed)
=============================================================================
