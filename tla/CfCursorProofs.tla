--------------------------- MODULE CfCursorProofs ---------------------------
(***************************************************************************)
(* Theorems of CfCursor, for all lists of recommendations, any number of   *)
(* threads and any page sizes.                                             *)
(***************************************************************************)
EXTENDS CfCursor, FiniteSetTheorems, TLAPS

-----------------------------------------------------------------------------
(* Lists and pages. *)

LEMMA ListTypes ==
    /\ Models = 1 .. Len(Ranks) /\ Len(Ranks) \in Nat /\ 1 \in Models
    /\ 0 \notin Models
    /\ \A m \in Models : /\ Len(Ranks[m]) \in Nat
                         /\ DOMAIN Ranks[m] = 1 .. Len(Ranks[m])
                         /\ \A i \in DOMAIN Ranks[m] : Ranks[m][i] \in Mbids
  <1>1. Ranks \in Seq(Seq(Mbids)) /\ Ranks # <<>>
    BY CursorAssumption
  <1>2. Models = 1 .. Len(Ranks) /\ Len(Ranks) \in Nat /\ Len(Ranks) # 0
    BY <1>1 DEF Models
  <1>3. \A m \in Models : Ranks[m] \in Seq(Mbids)
    BY <1>1, <1>2
  <1>4. QED
    BY <1>2, <1>3

\* What the list of a model holds between two places.
LEMMA PageIsRange ==
    ASSUME NEW m \in Models, NEW o \in Nat, NEW n \in Nat
    PROVE  /\ Page(m, o, n) \subseteq Tracks
           /\ \A t \in Page(m, o, n) : t[1] = m /\ Ranks[t[1]][t[2]] \in Mbids
           /\ IsFiniteSet(Page(m, o, n))
           /\ \A i \in (o + 1) .. (o + Cardinality(Page(m, o, n))) : <<m, i>> \in Page(m, o, n)
  <1> DEFINE e == IF o + n <= Len(Ranks[m]) THEN o + n ELSE Len(Ranks[m])
             R == (o + 1) .. e
  <1>1. Len(Ranks[m]) \in Nat /\ e \in Nat /\ DOMAIN Ranks[m] = 1 .. Len(Ranks[m])
    BY ListTypes
  <1>2. Page(m, o, n) = {m} \X R
    BY <1>1 DEF Page
  <1>3. R \subseteq DOMAIN Ranks[m]
    BY <1>1
  <1>4. Page(m, o, n) \subseteq Tracks
    BY <1>2, <1>3 DEF Tracks
  <1>5. \A t \in Page(m, o, n) : t[1] = m /\ Ranks[t[1]][t[2]] \in Mbids
    BY <1>2, <1>3, ListTypes
  <1>6. IsFiniteSet(R) /\ Cardinality(R) = IF o + 1 > e THEN 0 ELSE e - o
    <2>1. o + 1 \in Int /\ e \in Int
      BY <1>1
    <2>2. IsFiniteSet(R) /\ Cardinality(R) = IF o + 1 > e THEN 0 ELSE e - (o + 1) + 1
      BY <2>1, FS_Interval
    <2>3. QED
      BY <2>1, <2>2
  <1>7. IsFiniteSet({m}) /\ Cardinality({m}) = 1
    BY FS_Singleton
  <1>8. /\ IsFiniteSet(Page(m, o, n))
        /\ Cardinality(Page(m, o, n)) = Cardinality(R)
    <2> HIDE DEF R
    <2>1. /\ IsFiniteSet({m} \X R)
          /\ Cardinality({m} \X R) = Cardinality({m}) * Cardinality(R)
      BY <1>6, <1>7, FS_Product
    <2>2. Cardinality(R) \in Nat
      BY <1>6, FS_CardinalityType
    <2>3. QED
      BY <1>2, <1>7, <2>1, <2>2
  <1>9. \A i \in (o + 1) .. (o + Cardinality(Page(m, o, n))) : i \in R
    BY <1>1, <1>6, <1>8
  <1>10. QED
    BY <1>2, <1>4, <1>5, <1>8, <1>9

\* As many places as were kept of a page lie within the page.
LEMMA KeptIsWithinPage ==
    ASSUME NEW m \in Models, NEW o \in Nat, NEW n \in Nat,
           NEW kept \in SUBSET Page(m, o, n)
    PROVE  /\ Cardinality(kept) \in Nat
           /\ {m} \X ((o + 1) .. (o + Cardinality(kept))) \subseteq Page(m, o, n)
  <1>1. IsFiniteSet(Page(m, o, n))
    BY PageIsRange
  <1>2. Cardinality(Page(m, o, n)) \in Nat
    BY <1>1, FS_CardinalityType
  <1>3. IsFiniteSet(kept) /\ Cardinality(kept) <= Cardinality(Page(m, o, n))
    BY <1>1, FS_Subset
  <1>4. Cardinality(kept) \in Nat
    BY <1>3, FS_CardinalityType
  <1>5. \A i \in (o + 1) .. (o + Cardinality(kept)) : <<m, i>> \in Page(m, o, n)
    BY <1>2, <1>3, <1>4, PageIsRange
  <1>6. QED
    BY <1>4, <1>5

\* There are finitely many tracks.
LEMMA TracksFinite == \A S \in SUBSET Tracks : Cardinality(S) \in Nat
  <1> DEFINE L(m) == {m} \X DOMAIN Ranks[m]
             Lists == {L(m) : m \in Models}
             f == [m \in Models |-> L(m)]
  <1>1. \A m \in Models : IsFiniteSet(L(m))
    <2> TAKE m \in Models
    <2>1. DOMAIN Ranks[m] = 1 .. Len(Ranks[m]) /\ 1 \in Int /\ Len(Ranks[m]) \in Int
      BY ListTypes
    <2>2. IsFiniteSet(DOMAIN Ranks[m])
      BY <2>1, FS_Interval
    <2>3. IsFiniteSet({m})
      BY FS_Singleton
    <2>4. QED
      BY <2>2, <2>3, FS_Product
  <1>2. IsFiniteSet(Models)
    <2>1. Models = 1 .. Len(Ranks) /\ 1 \in Int /\ Len(Ranks) \in Int
      BY ListTypes
    <2>2. QED
      BY <2>1, FS_Interval
  <1>3. f \in Surjection(Models, Lists)
    BY DEF Surjection
  <1>4. IsFiniteSet(Lists)
    BY <1>2, <1>3, FS_Surjection
  <1>5. \A T \in Lists : IsFiniteSet(T)
    BY <1>1
  <1>6. IsFiniteSet(UNION Lists)
    BY <1>4, <1>5, FS_UNION
  <1>7. Tracks = UNION Lists
    BY DEF Tracks
  <1>8. IsFiniteSet(Tracks)
    BY <1>6, <1>7
  <1>9. QED
    BY <1>8, FS_Subset, FS_CardinalityType

-----------------------------------------------------------------------------
(* Type correctness. *)

\* What a fetch leaves of its page.
LEMMA ReceivesType ==
    ASSUME TypeOK, NEW p \in Pipes, NEW o \in Nat, NEW n \in Nat,
           NEW kept \in SUBSET Page(model, o, n), Receives(p, o, n, kept)
    PROVE  /\ found' \in [Pipes -> SUBSET Tracks]
           /\ \A q \in Pipes \ {p} : found'[q] = found[q]
           /\ lost' \subseteq Tracks
           /\ mishaps' \in Nat
  <1>1. Page(model, o, n) \subseteq Tracks
    BY PageIsRange DEF TypeOK
  <1>2. mishaps' \in Nat
    BY DEF TypeOK, Receives, Misses, Mishap
  <1>3. found' = [found EXCEPT ![p] = @ \cup kept] /\ lost' = lost \cup (Page(model, o, n) \ kept)
    BY DEF Receives
  <1>4. QED
    BY <1>1, <1>2, <1>3 DEF TypeOK

LEMMA FirstFetchType ==
    ASSUME TypeOK, NEW p \in Pipes,
           \/ Start(p) \/ ReadFirst(p) \/ Probe(p) \/ ProbeIsEmpty(p) \/ KeepFirst(p)
           \/ Fetch(p) \/ FetchIsEmpty(p) \/ StoreTop(p) \/ Advance(p) \/ Rewind(p) \/ CfRaises(p)
    PROVE  TypeOK'
  <1> USE CursorAssumption
      DEF Moves, Mishap, Forget, ForgetMbid, Steps, CfSteps, settings, fates
  <1>1. CASE Start(p)
    BY <1>1 DEF TypeOK, Start
  <1>2. CASE ReadFirst(p)
    BY <1>2 DEF TypeOK, ReadFirst
  <1>3. CASE Probe(p)
    <2>1. 1 \in DOMAIN Ranks[model]
      <3>1. PICK t \in Page(model, 0, 1) : TRUE
        BY <1>3 DEF Probe, Named
      <3>2. t[2] \in (0 + 1) .. (0 + 1) /\ t[2] <= Len(Ranks[model])
        BY <3>1 DEF Page
      <3>3. QED
        BY <3>2, ListTypes DEF TypeOK
    <2>2. Ranks[model][1] \in Mbids
      BY <2>1, ListTypes DEF TypeOK
    <2>3. CASE Ranks[model][1] # mbid[p]
      <3>1. pc' \in [Pipes -> Steps] /\ \A q \in Pipes : pc'[q] = "idle" => pc[q] = "idle"
        BY <1>3, <2>3 DEF TypeOK, Probe
      <3>2. off' \in [Pipes -> Nat]
        <4>1. off \in [Pipes -> Nat] /\ off' = [off EXCEPT ![p] = 0]
          BY <1>3, <2>3 DEF TypeOK, Probe
        <4>2. QED
          BY <4>1
      <3>3. mbid' \in [Pipes -> Mbids \cup {NoMbid}]
        BY <1>3, <2>2, <2>3 DEF TypeOK, Probe
      <3>4. UNCHANGED <<offset, first, base, model, found, src, handed, lost, mishaps>>
        BY <1>3 DEF Probe
      <3>5. QED
        BY <3>1, <3>2, <3>3, <3>4 DEF TypeOK
    <2>4. CASE Ranks[model][1] = mbid[p]
      BY <1>3, <2>4 DEF TypeOK, Probe
    <2>5. QED
      BY <2>3, <2>4
  <1>4. CASE ProbeIsEmpty(p)
    BY <1>4 DEF TypeOK, ProbeIsEmpty, Misses
  <1>5. CASE KeepFirst(p)
    BY <1>5 DEF TypeOK, KeepFirst
  <1>6. CASE Fetch(p)
    <2>1. PICK kept \in SUBSET Page(model, off[p], Count) \ {{}} :
             /\ Receives(p, off[p], Count, kept) /\ Counts(p, off[p])
             /\ IF off[p] = 0
                THEN /\ Moves(p, "fetch", "top")
                     /\ \E t \in kept : /\ Earliest(t, kept)
                                       /\ mbid' = [mbid EXCEPT ![p] = Ranks[t[1]][t[2]]]
                ELSE Moves(p, "fetch", "advance") /\ UNCHANGED mbid
             /\ UNCHANGED <<settings, model, off, handed>>
      BY <1>6 DEF Fetch
    <2>2. off[p] \in Nat /\ Count \in Nat /\ model \in Models
      BY DEF TypeOK
    <2>3. /\ found' \in [Pipes -> SUBSET Tracks] /\ \A q \in Pipes \ {p} : found'[q] = found[q]
          /\ lost' \subseteq Tracks /\ mishaps' \in Nat
      BY <2>1, <2>2, ReceivesType
    <2>4. mbid' \in [Pipes -> Mbids \cup {NoMbid}]
      <3>1. \A t \in kept : Ranks[t[1]][t[2]] \in Mbids
        BY <2>2, PageIsRange
      <3>2. QED
        BY <2>1, <3>1 DEF TypeOK
    <2>5. src' \in [Pipes -> Models \cup {0}]
      BY <2>1, <2>2 DEF TypeOK, Counts
    <2>6. pc' \in [Pipes -> Steps] /\ \A q \in Pipes : pc'[q] = "idle" => q # p /\ pc[q] = "idle"
      BY <2>1 DEF TypeOK
    <2>7. UNCHANGED <<offset, first, base, model, off, handed>>
      BY <2>1
    <2>8. \A q \in Pipes : pc'[q] = "idle" => found'[q] = {}
      BY <2>3, <2>6 DEF TypeOK
    <2>9. QED
      BY <2>3, <2>4, <2>5, <2>6, <2>7, <2>8 DEF TypeOK
  <1>7. CASE FetchIsEmpty(p)
    <2>1. off[p] \in Nat /\ Count \in Nat /\ {} \in SUBSET Page(model, off[p], Count)
      BY DEF TypeOK
    <2>2. Receives(p, off[p], Count, {})
      BY <1>7 DEF FetchIsEmpty
    <2>3. /\ found' \in [Pipes -> SUBSET Tracks] /\ \A q \in Pipes \ {p} : found'[q] = found[q]
          /\ lost' \subseteq Tracks /\ mishaps' \in Nat
      BY <2>1, <2>2, ReceivesType
    <2>4. pc' \in [Pipes -> Steps] /\ \A q \in Pipes : pc'[q] = "idle" => q # p /\ pc[q] = "idle"
      BY <1>7 DEF TypeOK, FetchIsEmpty
    <2>5. \A q \in Pipes : pc'[q] = "idle" => found'[q] = {}
      BY <2>3, <2>4 DEF TypeOK
    <2>6. QED
      BY <1>7, <2>3, <2>4, <2>5 DEF TypeOK, FetchIsEmpty
  <1>8. CASE StoreTop(p)
    BY <1>8 DEF TypeOK, StoreTop
  <1>9. CASE Advance(p)
    <2>1. off[p] + Cardinality(found[p]) \in Nat
      <3>1. found[p] \in SUBSET Tracks /\ off[p] \in Nat
        BY DEF TypeOK
      <3>2. Cardinality(found[p]) \in Nat
        BY <3>1, TracksFinite
      <3>3. QED
        BY <3>1, <3>2
    <2>2. QED
      BY <1>9, <2>1 DEF TypeOK, Advance, Advances
  <1>10. CASE Rewind(p)
    BY <1>10 DEF TypeOK, Rewind
  <1>11. CASE CfRaises(p)
    BY <1>11 DEF TypeOK, CfRaises
  <1>12. QED
    BY <1>1, <1>2, <1>3, <1>4, <1>5, <1>6, <1>7, <1>8, <1>9, <1>10, <1>11

LEMMA SecondFetchType ==
    ASSUME TypeOK, NEW p \in Pipes,
           \/ ReadAgain(p) \/ Refetch(p) \/ RefetchIsEmpty(p) \/ AdvanceAgain(p) \/ AgainRaises(p)
           \/ HandOver(p) \/ HandOverRaises(p)
    PROVE  TypeOK'
  <1> USE CursorAssumption
      DEF Moves, Mishap, Forget, ForgetMbid, Steps, CfSteps, settings, fates, RunEnds
  <1>1. CASE ReadAgain(p)
    BY <1>1 DEF TypeOK, ReadAgain
  <1>2. CASE Refetch(p)
    <2>1. PICK kept \in SUBSET Page(model, off[p], RadioCount) \ {{}} :
             /\ Moves(p, "refetch", "readvance")
             /\ Receives(p, off[p], RadioCount, kept) /\ Counts(p, off[p])
             /\ off' = [off EXCEPT ![p] = @ + Cardinality(kept)]
             /\ UNCHANGED <<settings, model, mbid, handed>>
      BY <1>2 DEF Refetch
    <2>2. off[p] \in Nat /\ RadioCount \in Nat /\ model \in Models
      BY DEF TypeOK
    <2>3. /\ found' \in [Pipes -> SUBSET Tracks] /\ \A q \in Pipes \ {p} : found'[q] = found[q]
          /\ lost' \subseteq Tracks /\ mishaps' \in Nat
      BY <2>1, <2>2, ReceivesType
    <2>4. Cardinality(kept) \in Nat
      BY <2>2, KeptIsWithinPage
    <2>5. off' \in [Pipes -> Nat] /\ src' \in [Pipes -> Models \cup {0}]
      BY <2>1, <2>2, <2>4 DEF TypeOK, Counts
    <2>6. pc' \in [Pipes -> Steps] /\ \A q \in Pipes : pc'[q] = "idle" => q # p /\ pc[q] = "idle"
      BY <2>1 DEF TypeOK
    <2>7. UNCHANGED <<offset, first, base, model, mbid, handed>>
      BY <2>1
    <2>8. \A q \in Pipes : pc'[q] = "idle" => found'[q] = {}
      BY <2>3, <2>6 DEF TypeOK
    <2>9. QED
      BY <2>3, <2>5, <2>6, <2>7, <2>8 DEF TypeOK
  <1>3. CASE RefetchIsEmpty(p)
    <2>1. off[p] \in Nat /\ RadioCount \in Nat /\ {} \in SUBSET Page(model, off[p], RadioCount)
      BY DEF TypeOK
    <2>2. Receives(p, off[p], RadioCount, {})
      BY <1>3 DEF RefetchIsEmpty
    <2>3. /\ found' \in [Pipes -> SUBSET Tracks] /\ \A q \in Pipes \ {p} : found'[q] = found[q]
          /\ lost' \subseteq Tracks /\ mishaps' \in Nat
      BY <2>1, <2>2, ReceivesType
    <2>4. pc' \in [Pipes -> Steps] /\ \A q \in Pipes : pc'[q] = "idle" => q # p /\ pc[q] = "idle"
      BY <1>3 DEF TypeOK, RefetchIsEmpty
    <2>5. \A q \in Pipes : pc'[q] = "idle" => found'[q] = {}
      BY <2>3, <2>4 DEF TypeOK
    <2>6. QED
      BY <1>3, <2>3, <2>4, <2>5 DEF TypeOK, RefetchIsEmpty
  <1>4. CASE AdvanceAgain(p)
    BY <1>4 DEF TypeOK, AdvanceAgain, Advances
  <1>5. CASE AgainRaises(p)
    BY <1>5 DEF TypeOK, AgainRaises
  <1>6. CASE HandOver(p)
    BY <1>6 DEF TypeOK, HandOver
  <1>7. CASE HandOverRaises(p)
    BY <1>7 DEF TypeOK, HandOverRaises
  <1>8. QED
    BY <1>1, <1>2, <1>3, <1>4, <1>5, <1>6, <1>7

LEMMA TypeInit == Init => TypeOK
  BY CursorAssumption, ListTypes DEF Init, TypeOK, Steps, CfSteps

LEMMA TypeStep == TypeOK /\ [Next]_vars => TypeOK'
  <1> SUFFICES ASSUME TypeOK, [Next]_vars PROVE TypeOK'
    OBVIOUS
  <1>1. CASE \E p \in Pipes : Start(p) \/ PipelineStep(p)
    BY <1>1, FirstFetchType, SecondFetchType DEF PipelineStep
  <1>2. CASE Exit
    BY <1>2 DEF TypeOK, Exit, Mishap, Steps, settings
  <1>3. CASE NewModel
    <2>1. model + 1 \in Models
      BY <1>3, ListTypes DEF TypeOK, NewModel
    <2>2. QED
      BY <1>3, <2>1 DEF TypeOK, NewModel, settings, fates
  <1>4. CASE UNCHANGED vars
    BY <1>4 DEF TypeOK, vars, settings, fates
  <1>5. QED
    BY <1>1, <1>2, <1>3, <1>4 DEF Next

\* Every variable keeps its type, and a thread that runs no pipeline has no tracks in
\* hand (the locals of run_pipeline, main.py:32-168).
THEOREM TypeCorrect == Spec => []TypeOK
  BY TypeInit, TypeStep, PTL DEF Spec

-----------------------------------------------------------------------------
(* The cursor passes over nothing. *)

\* Tracks that need not come up again.
Covered == handed \cup InHand \cup lost

\* How far the thread has got in the list: what it read, and the page it fetched
\* from there and has not yet added.
Reached(p) ==
    IF pc[p] \in {"top", "advance"} THEN off[p] + Cardinality(found[p]) ELSE off[p]

\* A thread passes over nothing either.
ReachedIsCovered(p) == src[p] # 0 => {src[p]} \X (1 .. Reached(p)) \subseteq Covered

\* The first fetch finds the thread with nothing in hand, so that the length of what
\* it has in hand is the length of the page.
NothingYet(p) == pc[p] \in {"idle", "prev", "probe", "keep", "fetch"} => found[p] = {}

IInv ==
    /\ TypeOK
    /\ CursorSkipsNothing
    /\ \A p \in Pipes : ReachedIsCovered(p) /\ NothingYet(p)

\* A step of one thread: what is covered stays so, and the thread and the cursor
\* are as they should be afterwards.
LEMMA OneThreadMoves ==
    ASSUME IInv, TypeOK', NEW p \in Pipes,
           Covered \subseteq Covered',
           CursorSkipsNothing',
           ReachedIsCovered(p)', NothingYet(p)',
           \A q \in Pipes \ {p} : /\ pc'[q] = pc[q] /\ off'[q] = off[q]
                                 /\ src'[q] = src[q] /\ found'[q] = found[q]
    PROVE  IInv'
  <1>1. ASSUME NEW q \in Pipes PROVE ReachedIsCovered(q)' /\ NothingYet(q)'
    <2>1. CASE q = p
      BY <2>1
    <2>2. CASE q # p
      <3>1. pc'[q] = pc[q] /\ off'[q] = off[q] /\ src'[q] = src[q] /\ found'[q] = found[q]
        BY <2>2
      <3>2. ReachedIsCovered(q) /\ NothingYet(q)
        BY DEF IInv
      <3>3. Reached(q)' = Reached(q)
        BY <3>1 DEF Reached
      <3>4. QED
        BY <3>1, <3>2, <3>3 DEF ReachedIsCovered, NothingYet
    <2>3. QED
      BY <2>1, <2>2
  <1>2. QED
    BY <1>1 DEF IInv

\* While the cursor stays, it keeps what it has passed.
LEMMA CursorStays ==
    ASSUME CursorSkipsNothing, Covered \subseteq Covered', UNCHANGED <<offset, base>>
    PROVE  CursorSkipsNothing'
  BY DEF CursorSkipsNothing, Covered

\* Nothing in hand is dropped.
LEMMA CoveredGrows ==
    ASSUME TypeOK, TypeOK', handed \subseteq handed', lost \subseteq lost',
           \A q \in Pipes : found[q] \subseteq found'[q] \cup handed' \cup lost'
    PROVE  Covered \subseteq Covered'
  <1>1. InHand \subseteq Covered'
    BY DEF InHand, Covered
  <1>2. QED
    BY <1>1 DEF Covered

\* A thread that has forgotten its offset counts in no list.
LEMMA ForgottenIsCovered ==
    ASSUME TypeOK, NEW p \in Pipes, Forget(p)
    PROVE  ReachedIsCovered(p)' /\ \A q \in Pipes \ {p} : off'[q] = off[q] /\ src'[q] = src[q]
  BY DEF TypeOK, Forget, ReachedIsCovered

\* Steps that neither move the cursor nor touch a track.
LEMMA QuietStep ==
    ASSUME IInv, TypeOK', NEW p \in Pipes,
           UNCHANGED <<offset, base, found, handed, lost>>,
           ReachedIsCovered(p)', NothingYet(p)',
           \A q \in Pipes \ {p} : pc'[q] = pc[q] /\ off'[q] = off[q] /\ src'[q] = src[q]
    PROVE  IInv'
  <1>1. Covered' = Covered
    BY DEF Covered, InHand
  <1>2. CursorSkipsNothing'
    BY <1>1, CursorStays DEF IInv
  <1>3. QED
    BY <1>1, <1>2, OneThreadMoves

LEMMA FirstFetchKeeps ==
    ASSUME IInv, TypeOK', NEW p \in Pipes,
           \/ Start(p) \/ ReadFirst(p) \/ Probe(p) \/ ProbeIsEmpty(p) \/ KeepFirst(p)
           \/ Fetch(p) \/ FetchIsEmpty(p) \/ StoreTop(p) \/ Advance(p) \/ Rewind(p) \/ CfRaises(p)
    PROVE  IInv'
  <1>1. TypeOK /\ CursorSkipsNothing /\ ReachedIsCovered(p) /\ NothingYet(p)
    BY DEF IInv
  <1> USE DEF Moves, settings, fates
  <1>2. CASE Start(p)
    <2>1. UNCHANGED <<offset, base, found, handed, lost>>
      BY <1>2 DEF Start
    <2>2. pc[p] = "idle" /\ pc'[p] \in {"prev", "fetch"} /\ off'[p] = offset /\ src'[p] = base
      BY <1>1, <1>2 DEF Start, TypeOK
    <2>3. Covered' = Covered /\ Reached(p)' = offset
      BY <2>1, <2>2 DEF Covered, InHand, Reached
    <2>4. ReachedIsCovered(p)' /\ NothingYet(p)'
      BY <1>1, <2>1, <2>2, <2>3 DEF ReachedIsCovered, NothingYet, CursorSkipsNothing, Covered
    <2>5. \A q \in Pipes \ {p} : pc'[q] = pc[q] /\ off'[q] = off[q] /\ src'[q] = src[q]
      BY <1>1, <1>2 DEF Start, TypeOK
    <2>6. QED
      BY <2>1, <2>4, <2>5, QuietStep
  <1>3. CASE ReadFirst(p) \/ ProbeIsEmpty(p) \/ KeepFirst(p) \/ StoreTop(p)
    <2>1. UNCHANGED <<offset, base, found, handed, lost, off, src>>
      BY <1>3 DEF ReadFirst, ProbeIsEmpty, KeepFirst, StoreTop
    <2>2. \/ pc[p] \in {"prev", "probe", "keep"} /\ pc'[p] \in {"probe", "fetch"}
          \/ pc[p] = "top" /\ pc'[p] = "advance"
      BY <1>1, <1>3 DEF ReadFirst, ProbeIsEmpty, KeepFirst, StoreTop, TypeOK
    <2>3. Covered' = Covered /\ Reached(p)' = Reached(p)
      BY <2>1, <2>2 DEF Covered, InHand, Reached
    <2>4. ReachedIsCovered(p)' /\ NothingYet(p)'
      BY <1>1, <2>1, <2>2, <2>3 DEF ReachedIsCovered, NothingYet
    <2>5. \A q \in Pipes \ {p} : pc'[q] = pc[q]
      BY <1>1, <1>3 DEF ReadFirst, ProbeIsEmpty, KeepFirst, StoreTop, TypeOK
    <2>6. QED
      BY <2>1, <2>4, <2>5, QuietStep
  <1>4. CASE Probe(p)
    <2>1. UNCHANGED <<offset, base, found, handed, lost, src>>
      BY <1>4 DEF Probe
    <2>2. pc[p] = "probe" /\ pc'[p] \in {"keep", "fetch"} /\ (off'[p] = 0 \/ off'[p] = off[p])
      BY <1>1, <1>4 DEF Probe, TypeOK
    <2>3. Covered' = Covered /\ Reached(p)' = off'[p] /\ Reached(p) = off[p]
      BY <2>1, <2>2 DEF Covered, InHand, Reached
    <2>4. ReachedIsCovered(p)' /\ NothingYet(p)'
      BY <1>1, <2>1, <2>2, <2>3 DEF ReachedIsCovered, NothingYet
    <2>5. \A q \in Pipes \ {p} : pc'[q] = pc[q] /\ off'[q] = off[q]
      BY <1>1, <1>4 DEF Probe, ForgetMbid, TypeOK
    <2>6. QED
      BY <2>1, <2>4, <2>5, QuietStep
  <1>5. CASE Fetch(p)
    <2>1. PICK kept \in SUBSET Page(model, off[p], Count) \ {{}} :
             /\ Receives(p, off[p], Count, kept) /\ Counts(p, off[p])
             /\ \E to \in {"top", "advance"} : Moves(p, "fetch", to)
             /\ UNCHANGED <<settings, model, off, handed>>
      BY <1>5 DEF Fetch
    <2>2. off[p] \in Nat /\ Count \in Nat /\ model \in Models /\ found[p] = {}
      BY <1>1, <2>1, CursorAssumption DEF TypeOK, NothingYet
    <2>3. found' = [found EXCEPT ![p] = kept] /\ lost' = lost \cup (Page(model, off[p], Count) \ kept)
      BY <1>1, <2>1, <2>2 DEF Receives, TypeOK
    <2>4. found'[p] = kept /\ \A q \in Pipes \ {p} : found'[q] = found[q]
      BY <1>1, <2>3 DEF TypeOK
    <2>5. Covered \subseteq Covered'
      <3>1. \A q \in Pipes : found[q] \subseteq found'[q] \cup handed' \cup lost'
        BY <2>2, <2>4
      <3>2. QED
        BY <1>1, <2>1, <2>3, <3>1, CoveredGrows
    <2>6. Page(model, off[p], Count) \subseteq Covered'
      BY <2>3, <2>4 DEF Covered, InHand
    <2>7. /\ Cardinality(kept) \in Nat
          /\ {model} \X ((off[p] + 1) .. (off[p] + Cardinality(kept))) \subseteq Covered'
      BY <2>2, <2>6, KeptIsWithinPage
    <2>8. /\ pc[p] = "fetch" /\ pc'[p] \in {"top", "advance"}
          /\ \A q \in Pipes \ {p} : pc'[q] = pc[q] /\ off'[q] = off[q] /\ src'[q] = src[q]
      BY <1>1, <2>1 DEF TypeOK, Counts
    <2>9. Reached(p)' = off[p] + Cardinality(kept) /\ Reached(p) = off[p]
      BY <2>1, <2>4, <2>8 DEF Reached
    <2>10. src'[p] # 0 => src'[p] = model /\ (off[p] = 0 \/ src[p] = model)
      BY <1>1, <2>1 DEF Counts, TypeOK
    <2>11. src'[p] # 0 => {model} \X (1 .. off[p]) \subseteq Covered'
      <3>1. off[p] = 0 => 1 .. off[p] = {}
        BY <2>2
      <3>2. 0 \notin Models
        BY ListTypes
      <3>3. QED
        BY <1>1, <2>2, <2>5, <2>9, <2>10, <3>1, <3>2 DEF ReachedIsCovered
    <2>12. ReachedIsCovered(p)'
      <3>1. 1 .. (off[p] + Cardinality(kept))
               = (1 .. off[p]) \cup ((off[p] + 1) .. (off[p] + Cardinality(kept)))
        BY <2>2, <2>7
      <3>2. QED
        BY <2>7, <2>9, <2>10, <2>11, <3>1 DEF ReachedIsCovered
    <2>13. NothingYet(p)'
      BY <2>8 DEF NothingYet
    <2>14. CursorSkipsNothing'
      BY <1>1, <2>1, <2>5, CursorStays
    <2>15. QED
      BY <2>4, <2>5, <2>8, <2>12, <2>13, <2>14, OneThreadMoves
  <1>6. CASE FetchIsEmpty(p)
    <2>1. Receives(p, off[p], Count, {}) /\ Forget(p) /\ UNCHANGED <<offset, base, handed>>
      BY <1>6 DEF FetchIsEmpty
    <2>2. found' = found /\ lost \subseteq lost'
      BY <1>1, <2>1 DEF Receives, TypeOK
    <2>3. Covered \subseteq Covered'
      BY <1>1, <2>1, <2>2, CoveredGrows
    <2>4. /\ pc'[p] \in {"rewind", "hand"}
          /\ \A q \in Pipes \ {p} : pc'[q] = pc[q]
      BY <1>1, <1>6 DEF FetchIsEmpty, TypeOK
    <2>5. NothingYet(p)'
      BY <2>4 DEF NothingYet
    <2>6. CursorSkipsNothing'
      BY <1>1, <2>1, <2>3, CursorStays
    <2>7. ReachedIsCovered(p)' /\ \A q \in Pipes \ {p} : off'[q] = off[q] /\ src'[q] = src[q]
      BY <1>1, <2>1, ForgottenIsCovered
    <2>8. QED
      BY <2>2, <2>3, <2>4, <2>5, <2>6, <2>7, OneThreadMoves
  <1>7. CASE Advance(p)
    <2>1. /\ offset' = off[p] + Cardinality(found[p]) /\ base' = src[p]
          /\ Forget(p) /\ UNCHANGED <<found, handed, lost>>
      BY <1>7 DEF Advance, Advances
    <2>2. /\ pc[p] = "advance" /\ pc'[p] \in {"hand", "again"}
          /\ \A q \in Pipes \ {p} : pc'[q] = pc[q]
      BY <1>1, <1>7 DEF Advance, TypeOK
    <2>3. Covered' = Covered /\ Reached(p) = offset'
      BY <2>1, <2>2 DEF Covered, InHand, Reached
    <2>4. CursorSkipsNothing'
      BY <1>1, <2>1, <2>3 DEF ReachedIsCovered, CursorSkipsNothing, Covered
    <2>5. NothingYet(p)'
      BY <2>2 DEF NothingYet
    <2>6. ReachedIsCovered(p)' /\ \A q \in Pipes \ {p} : off'[q] = off[q] /\ src'[q] = src[q]
      BY <1>1, <2>1, ForgottenIsCovered
    <2>7. QED
      BY <2>1, <2>2, <2>3, <2>4, <2>5, <2>6, OneThreadMoves
  <1>8. CASE Rewind(p)
    <2>1. offset' = 0 /\ base' = base /\ Forget(p) /\ UNCHANGED <<found, handed, lost>>
      BY <1>8 DEF Rewind
    <2>2. pc'[p] = "hand" /\ \A q \in Pipes \ {p} : pc'[q] = pc[q]
      BY <1>1, <1>8 DEF Rewind, TypeOK
    <2>3. Covered' = Covered
      BY <2>1 DEF Covered, InHand
    <2>4. CursorSkipsNothing'
      <3>1. 1 .. 0 = {}
        OBVIOUS
      <3>2. QED
        BY <2>1, <3>1 DEF CursorSkipsNothing
    <2>5. NothingYet(p)'
      BY <2>2 DEF NothingYet
    <2>6. ReachedIsCovered(p)' /\ \A q \in Pipes \ {p} : off'[q] = off[q] /\ src'[q] = src[q]
      BY <1>1, <2>1, ForgottenIsCovered
    <2>7. QED
      BY <2>1, <2>2, <2>3, <2>4, <2>5, <2>6, OneThreadMoves
  <1>9. CASE CfRaises(p)
    <2>1. Forget(p) /\ UNCHANGED <<offset, base, found, handed, lost>>
      BY <1>9 DEF CfRaises
    <2>2. pc'[p] = "hand" /\ \A q \in Pipes \ {p} : pc'[q] = pc[q]
      BY <1>1, <1>9 DEF CfRaises, TypeOK
    <2>3. NothingYet(p)'
      BY <2>2 DEF NothingYet
    <2>4. ReachedIsCovered(p)' /\ \A q \in Pipes \ {p} : off'[q] = off[q] /\ src'[q] = src[q]
      BY <1>1, <2>1, ForgottenIsCovered
    <2>5. QED
      BY <2>1, <2>2, <2>3, <2>4, QuietStep
  <1>10. QED
    BY <1>2, <1>3, <1>4, <1>5, <1>6, <1>7, <1>8, <1>9

LEMMA SecondFetchKeeps ==
    ASSUME IInv, TypeOK', NEW p \in Pipes,
           \/ ReadAgain(p) \/ Refetch(p) \/ RefetchIsEmpty(p) \/ AdvanceAgain(p) \/ AgainRaises(p)
    PROVE  IInv'
  <1>1. TypeOK /\ CursorSkipsNothing /\ ReachedIsCovered(p)
    BY DEF IInv
  <1> USE DEF Moves, settings, fates
  <1>2. CASE ReadAgain(p)
    <2>1. UNCHANGED <<offset, base, found, handed, lost>>
      BY <1>2 DEF ReadAgain
    <2>2. pc'[p] = "refetch" /\ off'[p] = offset /\ src'[p] = base
      BY <1>1, <1>2 DEF ReadAgain, TypeOK
    <2>3. Covered' = Covered /\ Reached(p)' = offset
      BY <2>1, <2>2 DEF Covered, InHand, Reached
    <2>4. ReachedIsCovered(p)' /\ NothingYet(p)'
      BY <1>1, <2>2, <2>3 DEF ReachedIsCovered, NothingYet, CursorSkipsNothing, Covered
    <2>5. \A q \in Pipes \ {p} : pc'[q] = pc[q] /\ off'[q] = off[q] /\ src'[q] = src[q]
      BY <1>1, <1>2 DEF ReadAgain, TypeOK
    <2>6. QED
      BY <2>1, <2>4, <2>5, QuietStep
  <1>3. CASE Refetch(p)
    <2>1. PICK kept \in SUBSET Page(model, off[p], RadioCount) \ {{}} :
             /\ Moves(p, "refetch", "readvance")
             /\ Receives(p, off[p], RadioCount, kept) /\ Counts(p, off[p])
             /\ off' = [off EXCEPT ![p] = @ + Cardinality(kept)]
             /\ UNCHANGED <<settings, model, mbid, handed>>
      BY <1>3 DEF Refetch
    <2>2. off[p] \in Nat /\ RadioCount \in Nat /\ model \in Models
      BY <1>1, CursorAssumption DEF TypeOK
    <2>3. /\ found' = [found EXCEPT ![p] = @ \cup kept]
          /\ lost' = lost \cup (Page(model, off[p], RadioCount) \ kept)
      BY <2>1 DEF Receives
    <2>4. found'[p] = found[p] \cup kept /\ \A q \in Pipes \ {p} : found'[q] = found[q]
      BY <1>1, <2>3 DEF TypeOK
    <2>5. Covered \subseteq Covered'
      <3>1. \A q \in Pipes : found[q] \subseteq found'[q] \cup handed' \cup lost'
        BY <2>4
      <3>2. QED
        BY <1>1, <2>1, <2>3, <3>1, CoveredGrows
    <2>6. Page(model, off[p], RadioCount) \subseteq Covered'
      BY <2>3, <2>4 DEF Covered, InHand
    <2>7. /\ Cardinality(kept) \in Nat
          /\ {model} \X ((off[p] + 1) .. (off[p] + Cardinality(kept))) \subseteq Covered'
      BY <2>2, <2>6, KeptIsWithinPage
    <2>8. /\ pc[p] = "refetch" /\ pc'[p] = "readvance" /\ off'[p] = off[p] + Cardinality(kept)
          /\ \A q \in Pipes \ {p} : pc'[q] = pc[q] /\ off'[q] = off[q] /\ src'[q] = src[q]
      BY <1>1, <2>1 DEF TypeOK, Counts
    <2>9. Reached(p)' = off[p] + Cardinality(kept) /\ Reached(p) = off[p]
      BY <2>8 DEF Reached
    <2>10. src'[p] # 0 => src'[p] = model /\ (off[p] = 0 \/ src[p] = model)
      BY <1>1, <2>1 DEF Counts, TypeOK
    <2>11. src'[p] # 0 => {model} \X (1 .. off[p]) \subseteq Covered'
      <3>1. off[p] = 0 => 1 .. off[p] = {}
        BY <2>2
      <3>2. 0 \notin Models
        BY ListTypes
      <3>3. QED
        BY <1>1, <2>2, <2>5, <2>9, <2>10, <3>1, <3>2 DEF ReachedIsCovered
    <2>12. ReachedIsCovered(p)'
      <3>1. 1 .. (off[p] + Cardinality(kept))
               = (1 .. off[p]) \cup ((off[p] + 1) .. (off[p] + Cardinality(kept)))
        BY <2>2, <2>7
      <3>2. QED
        BY <2>7, <2>9, <2>10, <2>11, <3>1 DEF ReachedIsCovered
    <2>13. NothingYet(p)'
      BY <2>8 DEF NothingYet
    <2>14. CursorSkipsNothing'
      BY <1>1, <2>1, <2>5, CursorStays
    <2>15. QED
      BY <2>4, <2>5, <2>8, <2>12, <2>13, <2>14, OneThreadMoves
  <1>4. CASE RefetchIsEmpty(p)
    <2>1. Receives(p, off[p], RadioCount, {}) /\ Forget(p) /\ UNCHANGED <<offset, base, handed>>
      BY <1>4 DEF RefetchIsEmpty
    <2>2. found' = found /\ lost \subseteq lost'
      BY <1>1, <2>1 DEF Receives, TypeOK
    <2>3. Covered \subseteq Covered'
      BY <1>1, <2>1, <2>2, CoveredGrows
    <2>4. pc'[p] = "hand" /\ \A q \in Pipes \ {p} : pc'[q] = pc[q]
      BY <1>1, <1>4 DEF RefetchIsEmpty, TypeOK
    <2>5. NothingYet(p)'
      BY <2>4 DEF NothingYet
    <2>6. CursorSkipsNothing'
      BY <1>1, <2>1, <2>3, CursorStays
    <2>7. ReachedIsCovered(p)' /\ \A q \in Pipes \ {p} : off'[q] = off[q] /\ src'[q] = src[q]
      BY <1>1, <2>1, ForgottenIsCovered
    <2>8. QED
      BY <2>2, <2>3, <2>4, <2>5, <2>6, <2>7, OneThreadMoves
  <1>5. CASE AdvanceAgain(p)
    <2>1. /\ offset' = off[p] /\ base' = src[p]
          /\ Forget(p) /\ UNCHANGED <<found, handed, lost>>
      BY <1>5 DEF AdvanceAgain, Advances
    <2>2. /\ pc[p] = "readvance" /\ pc'[p] = "hand"
          /\ \A q \in Pipes \ {p} : pc'[q] = pc[q]
      BY <1>1, <1>5 DEF AdvanceAgain, TypeOK
    <2>3. Covered' = Covered /\ Reached(p) = offset'
      BY <2>1, <2>2 DEF Covered, InHand, Reached
    <2>4. CursorSkipsNothing'
      BY <1>1, <2>1, <2>3 DEF ReachedIsCovered, CursorSkipsNothing, Covered
    <2>5. NothingYet(p)'
      BY <2>2 DEF NothingYet
    <2>6. ReachedIsCovered(p)' /\ \A q \in Pipes \ {p} : off'[q] = off[q] /\ src'[q] = src[q]
      BY <1>1, <2>1, ForgottenIsCovered
    <2>7. QED
      BY <2>1, <2>2, <2>3, <2>4, <2>5, <2>6, OneThreadMoves
  <1>6. CASE AgainRaises(p)
    <2>1. Forget(p) /\ UNCHANGED <<offset, base, found, handed, lost>>
      BY <1>6 DEF AgainRaises
    <2>2. pc'[p] = "hand" /\ \A q \in Pipes \ {p} : pc'[q] = pc[q]
      BY <1>1, <1>6 DEF AgainRaises, TypeOK
    <2>3. NothingYet(p)'
      BY <2>2 DEF NothingYet
    <2>4. ReachedIsCovered(p)' /\ \A q \in Pipes \ {p} : off'[q] = off[q] /\ src'[q] = src[q]
      BY <1>1, <2>1, ForgottenIsCovered
    <2>5. QED
      BY <2>1, <2>2, <2>3, <2>4, QuietStep
  <1>7. QED
    BY <1>2, <1>3, <1>4, <1>5, <1>6

\* What leaves the hands of a run is in the queue or lost.
LEMMA EndKeeps ==
    ASSUME IInv, TypeOK', NEW p \in Pipes, HandOver(p) \/ HandOverRaises(p)
    PROVE  IInv'
  <1>1. TypeOK /\ CursorSkipsNothing /\ ReachedIsCovered(p)
    BY DEF IInv
  <1>2. /\ Moves(p, "hand", "idle") /\ found' = [found EXCEPT ![p] = {}]
        /\ UNCHANGED <<offset, base, off, src>>
    BY DEF HandOver, HandOverRaises, RunEnds, settings
  <1>3. /\ handed \subseteq handed' /\ lost \subseteq lost'
        /\ found[p] \subseteq handed' \cup lost'
    BY DEF HandOver, HandOverRaises
  <1>4. /\ pc[p] = "hand" /\ pc'[p] = "idle" /\ found'[p] = {}
        /\ \A q \in Pipes \ {p} : pc'[q] = pc[q] /\ found'[q] = found[q]
    BY <1>1, <1>2 DEF TypeOK, Moves
  <1>5. Covered \subseteq Covered'
    <2>1. \A q \in Pipes : found[q] \subseteq found'[q] \cup handed' \cup lost'
      BY <1>3, <1>4
    <2>2. QED
      BY <1>1, <1>3, <2>1, CoveredGrows
  <1>6. CursorSkipsNothing'
    BY <1>1, <1>2, <1>5, CursorStays
  <1>7. Reached(p)' = Reached(p)
    BY <1>2, <1>4 DEF Reached
  <1>8. ReachedIsCovered(p)' /\ NothingYet(p)'
    BY <1>1, <1>2, <1>4, <1>5, <1>7 DEF ReachedIsCovered, NothingYet
  <1>9. QED
    BY <1>2, <1>4, <1>5, <1>6, <1>8, OneThreadMoves

LEMMA ExitKeeps == ASSUME IInv, TypeOK', Exit PROVE IInv'
  <1>1. TypeOK /\ CursorSkipsNothing
    BY DEF IInv
  <1>2. /\ UNCHANGED <<offset, base, handed>>
        /\ lost' = lost \cup InHand
        /\ \A q \in Pipes : pc'[q] = "idle" /\ found'[q] = {} /\ src'[q] = 0
    BY DEF Exit, settings, InHand
  <1>3. Covered \subseteq Covered'
    BY <1>2 DEF Covered
  <1>4. CursorSkipsNothing'
    BY <1>1, <1>2, <1>3, CursorStays
  <1>5. \A q \in Pipes : ReachedIsCovered(q)' /\ NothingYet(q)'
    BY <1>2 DEF ReachedIsCovered, NothingYet
  <1>6. QED
    BY <1>4, <1>5 DEF IInv

\* The list of a new model leaves what was counted in older ones.
LEMMA IdleKeeps == ASSUME IInv, TypeOK', NewModel \/ UNCHANGED vars PROVE IInv'
  <1>1. UNCHANGED <<offset, base, pc, off, found, src, handed, lost>>
    BY DEF NewModel, vars, settings, fates
  <1>2. Covered' = Covered /\ \A q \in Pipes : Reached(q)' = Reached(q)
    BY <1>1 DEF Covered, InHand, Reached
  <1>3. QED
    BY <1>1, <1>2, CursorStays DEF IInv, ReachedIsCovered, NothingYet

LEMMA InvInit == Init => IInv
  <1> SUFFICES ASSUME Init PROVE IInv
    OBVIOUS
  <1>1. CursorSkipsNothing /\ \A p \in Pipes : ReachedIsCovered(p) /\ NothingYet(p)
    BY DEF Init, CursorSkipsNothing, ReachedIsCovered, NothingYet
  <1>2. QED
    BY <1>1, TypeInit DEF IInv

LEMMA InvStep == IInv /\ [Next]_vars => IInv'
  <1> SUFFICES ASSUME IInv, [Next]_vars PROVE IInv'
    OBVIOUS
  <1>1. TypeOK'
    BY TypeStep DEF IInv
  <1>2. CASE \E p \in Pipes : Start(p) \/ PipelineStep(p)
    BY <1>1, <1>2, FirstFetchKeeps, SecondFetchKeeps, EndKeeps DEF PipelineStep
  <1>3. CASE Exit
    BY <1>1, <1>3, ExitKeeps
  <1>4. CASE NewModel \/ UNCHANGED vars
    BY <1>1, <1>4, IdleKeeps
  <1>5. QED
    BY <1>2, <1>3, <1>4 DEF Next

\* The types, the cursor and the threads that are about to move it, together.
THEOREM InductiveInvariant == Spec => []IInv
  BY InvInit, InvStep, PTL DEF Spec

\* However many pipelines read, use and write cf_offset at the same time
\* (main.py:43-82, 107-116), in whatever order, with requests that raise, lookups that
\* fail, exits and new models: no track before the cursor is passed over.
THEOREM NoTrackIsSkipped == Spec => []CursorSkipsNothing
  <1>1. IInv => CursorSkipsNothing
    BY DEF IInv
  <1>2. QED
    BY <1>1, InductiveInvariant, PTL
=============================================================================
