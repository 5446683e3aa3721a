-------------------------- MODULE RateLimiterProofs --------------------------
(***************************************************************************)
(* Theorems of RateLimiter, for every window and every limit.              *)
(***************************************************************************)
EXTENDS RateLimiter, FiniteSetTheorems, TLAPS

LEMMA StampTypes ==
    ASSUME TypeOK
    PROVE  /\ Len(accepted) \in Nat /\ Stamps = 1 .. Len(accepted)
           /\ \A i \in Stamps : accepted[i] \in Nat
  BY DEF TypeOK, Stamps

\* Type correctness.
THEOREM TypeCorrect == Spec => []TypeOK
  <1>1. Init => TypeOK
    BY DEF Init, TypeOK, Stamps
  <1>2. TypeOK /\ [Next]_vars => TypeOK'
    <2> SUFFICES ASSUME TypeOK, [Next]_vars PROVE TypeOK'
      OBVIOUS
    <2>1. CASE Accept
      <3>1. accepted' \in Seq(Nat) /\ Stamps' = Stamps \cup {Len(accepted) + 1}
        BY <2>1 DEF Accept, TypeOK, Stamps
      <3>2. QED
        BY <2>1, <3>1 DEF Accept, TypeOK, Recent
    <2>2. CASE Refuse
      BY <2>2 DEF Refuse, TypeOK, Recent, Stamps
    <2>3. CASE Cleanup
      BY <2>3 DEF Cleanup, TypeOK, Stamps
    <2>4. CASE Tick
      BY <2>4 DEF Tick, TypeOK, Stamps
    <2>5. CASE UNCHANGED vars
      BY <2>5 DEF vars, TypeOK, Stamps
    <2>6. QED
      BY <2>1, <2>2, <2>3, <2>4, <2>5 DEF Next
  <1>3. QED
    BY <1>1, <1>2, PTL DEF Spec

-----------------------------------------------------------------------------
(* The last Limit requests and the stamps inside the window. *)

\* If the window reaches back to request k, it holds every later one.
LEMMA WindowIsFull ==
    ASSUME IInv, NEW k \in Stamps, now - accepted[k] < Window
    PROVE  /\ IsFiniteSet(Recent)
           /\ Cardinality(Recent) >= Len(accepted) - k + 1
  <1>1. k .. Len(accepted) \subseteq Recent
    <2> SUFFICES ASSUME NEW i \in k .. Len(accepted) PROVE i \in Recent
      OBVIOUS
    <2>1. i \in Stamps /\ accepted[k] <= accepted[i]
      BY StampTypes DEF IInv, InOrder
    <2>2. now - accepted[i] < Window
      BY <2>1, StampTypes, LimiterAssumption DEF IInv, TypeOK
    <2>3. QED
      BY <2>1, <2>2 DEF IInv, RecentIsStored, Recent
  <1>2. k \in Int /\ Len(accepted) \in Int /\ k <= Len(accepted)
    BY StampTypes DEF IInv
  <1>3. /\ IsFiniteSet(k .. Len(accepted))
        /\ Cardinality(k .. Len(accepted)) = Len(accepted) - k + 1
    BY <1>2, FS_Interval
  <1>4. IsFiniteSet(Recent)
    <2>1. IsFiniteSet(1 .. Len(accepted))
      BY <1>2, FS_Interval
    <2>2. Recent \subseteq 1 .. Len(accepted)
      BY StampTypes DEF IInv, TypeOK, Recent
    <2>3. QED
      BY <2>1, <2>2, FS_Subset
  <1>5. QED
    BY <1>1, <1>3, <1>4, FS_Subset

\* If the window does not reach back to request k, it holds later ones only.
LEMMA WindowIsNotFull ==
    ASSUME IInv, NEW k \in Nat,
           k \in Stamps => now - accepted[k] >= Window,
           k <= Len(accepted)
    PROVE  /\ IsFiniteSet(Recent)
           /\ Cardinality(Recent) <= Len(accepted) - k
  <1>1. Len(accepted) \in Nat /\ Stamps = 1 .. Len(accepted)
    BY StampTypes DEF IInv
  <1>2. Recent \subseteq (k + 1) .. Len(accepted)
    <2> SUFFICES ASSUME NEW i \in Recent PROVE i > k /\ i <= Len(accepted) /\ i \in Int
      BY <1>1
    <2>1. i \in Stamps /\ now - accepted[i] < Window
      BY DEF IInv, TypeOK, Recent
    <2>2. ASSUME i <= k PROVE FALSE
      <3>1. k \in Stamps
        BY <1>1, <2>1, <2>2
      <3>2. accepted[i] <= accepted[k]
        BY <2>1, <2>2, <3>1 DEF IInv, InOrder
      <3>3. QED
        BY <2>1, <3>1, <3>2, StampTypes, LimiterAssumption DEF IInv, TypeOK
    <2>3. QED
      BY <1>1, <2>1, <2>2
  <1>3. /\ IsFiniteSet((k + 1) .. Len(accepted))
        /\ Cardinality((k + 1) .. Len(accepted)) = Len(accepted) - k
    <2>1. k + 1 \in Int /\ Len(accepted) \in Int
      BY <1>1
    <2>2. /\ IsFiniteSet((k + 1) .. Len(accepted))
          /\ Cardinality((k + 1) .. Len(accepted))
               = IF k + 1 > Len(accepted) THEN 0 ELSE Len(accepted) - (k + 1) + 1
      BY <2>1, FS_Interval
    <2>3. QED
      BY <1>1, <2>2
  <1>4. QED
    BY <1>2, <1>3, FS_Subset

-----------------------------------------------------------------------------

\* A request that is let through keeps the invariant.
LEMMA AcceptKeepsInvariant ==
    ASSUME IInv, TypeOK', Accept PROVE IInv'
  <1> DEFINE n == Len(accepted)
  <1>1. /\ n \in Nat /\ Stamps = 1 .. n /\ Stamps' = 1 .. (n + 1)
        /\ \A i \in Stamps : accepted'[i] = accepted[i] /\ accepted[i] \in Nat
        /\ accepted'[n + 1] = now /\ now' = now /\ now \in Nat
    BY DEF IInv, TypeOK, Accept, Stamps
  <1>2. InOrder'
    BY <1>1 DEF IInv, InOrder
  <1>3. RecentIsStored'
    BY <1>1 DEF IInv, RecentIsStored, Accept, Recent
  <1>4. NeverTooMany'
    <2> SUFFICES ASSUME NEW i \in Stamps', i + Limit \in Stamps'
                 PROVE  accepted'[i + Limit] - accepted'[i] >= Window
      BY DEF NeverTooMany
    <2>1. i \in Stamps
      BY <1>1, LimiterAssumption
    <2>2. CASE i + Limit \in Stamps
      BY <1>1, <2>1, <2>2 DEF IInv, NeverTooMany
    <2>3. CASE i + Limit = n + 1
      <3>1. ASSUME now - accepted[i] < Window PROVE FALSE
        <4>1. Cardinality(Recent) >= n - i + 1
          BY <2>1, <3>1, WindowIsFull
        <4>2. IsFiniteSet(Recent)
          BY <2>1, <3>1, WindowIsFull
        <4>3. Cardinality(Recent) < Limit /\ Cardinality(Recent) \in Nat
          BY <4>2, FS_CardinalityType DEF Accept
        <4>4. QED
          BY <1>1, <2>1, <2>3, <4>1, <4>3, LimiterAssumption
      <3>2. QED
        BY <1>1, <2>1, <2>3, <3>1, LimiterAssumption
    <2>4. QED
      BY <1>1, <2>1, <2>2, <2>3, LimiterAssumption
  <1>5. QED
    BY <1>2, <1>3, <1>4 DEF IInv

\* What NeverTooMany rests on is inductive.
THEOREM InductiveInvariant == Spec => []IInv
  <1>1. Init => IInv
    BY DEF Init, IInv, TypeOK, InOrder, RecentIsStored, NeverTooMany, Stamps
  <1>2. IInv /\ TypeOK' /\ [Next]_vars => IInv'
    <2> SUFFICES ASSUME IInv, TypeOK', [Next]_vars PROVE IInv'
      OBVIOUS
    <2>1. CASE Accept
      BY <2>1, AcceptKeepsInvariant
    <2>2. CASE Refuse
      BY <2>2 DEF Refuse, IInv, InOrder, RecentIsStored, NeverTooMany, Recent, Stamps
    <2>3. CASE Cleanup
      <3>1. \A i \in Stamps : now - accepted[i] < Window => FALSE
        BY <2>3, StampTypes, LimiterAssumption
           DEF Cleanup, Expired, IInv, TypeOK, RecentIsStored
      <3>2. QED
        BY <2>3, <3>1 DEF Cleanup, IInv, InOrder, RecentIsStored, NeverTooMany, Stamps
    <2>4. CASE Tick
      <3>1. now' = now + 1 /\ UNCHANGED <<accepted, store>> /\ Stamps' = Stamps
        BY <2>4 DEF Tick, Stamps
      <3>2. InOrder' /\ RecentIsStored'
        BY <3>1, StampTypes, LimiterAssumption DEF IInv, TypeOK, InOrder, RecentIsStored
      <3>3. QED
        BY <3>1, <3>2 DEF IInv, NeverTooMany
    <2>5. CASE UNCHANGED vars
      BY <2>5 DEF vars, IInv, InOrder, RecentIsStored, NeverTooMany, Stamps
    <2>6. QED
      BY <2>1, <2>2, <2>3, <2>4, <2>5 DEF Next
  <1>3. QED
    BY <1>1, <1>2, TypeCorrect, PTL DEF Spec

\* Never more than Limit requests in a window, wherever it starts.
THEOREM LimitIsKept == Spec => []NeverTooMany
  <1>1. IInv => NeverTooMany
    BY DEF IInv
  <1>2. QED
    BY <1>1, InductiveInvariant, PTL

\* No request is refused unless Limit were let through within a window.
THEOREM RefusalsAreEarned == Spec => RefusedOnlyWhenFull
  <1> DEFINE Full == LET oldest == Len(accepted) + 1 - Limit IN
                     oldest \in Stamps /\ now - accepted[oldest] < Window
  <1>1. ASSUME IInv, Refuse PROVE Full
    <2> DEFINE k == Len(accepted) + 1 - Limit
    <2>1. Len(accepted) \in Nat /\ Stamps = 1 .. Len(accepted) /\ now \in Nat
      BY <1>1, StampTypes DEF IInv, TypeOK
    <2>2. Cardinality(Recent) >= Limit
      BY <1>1 DEF Refuse
    <2>3. ASSUME k < 1 PROVE FALSE
      <3>1. IsFiniteSet(Recent) /\ Cardinality(Recent) <= Len(accepted) - 0
        BY <1>1, <2>1, WindowIsNotFull
      <3>2. Cardinality(Recent) \in Nat
        BY <3>1, FS_CardinalityType
      <3>3. QED
        BY <2>1, <2>2, <2>3, <3>1, <3>2, LimiterAssumption
    <2>4. k \in Stamps
      BY <2>1, <2>3, LimiterAssumption
    <2>5. ASSUME now - accepted[k] >= Window PROVE FALSE
      <3>1. IsFiniteSet(Recent) /\ Cardinality(Recent) <= Len(accepted) - k
        <4>1. k \in Nat /\ k <= Len(accepted)
          BY <2>1, <2>4
        <4> HIDE DEF k
        <4>2. QED
          BY <1>1, <2>5, <4>1, WindowIsNotFull
      <3>2. Cardinality(Recent) \in Nat
        BY <3>1, FS_CardinalityType
      <3>3. QED
        BY <2>1, <2>2, <3>1, <3>2, LimiterAssumption
    <2>6. accepted[k] \in Nat
      BY <1>1, <2>4, StampTypes DEF IInv
    <2>7. QED
      BY <2>1, <2>4, <2>5, <2>6, LimiterAssumption
  <1>2. IInv /\ [Next]_vars => [refusals' # refusals => Full]_vars
    <2> SUFFICES ASSUME IInv, [Next]_vars, refusals' # refusals PROVE Full
      OBVIOUS
    <2>1. Refuse
      BY DEF Next, vars, Accept, Cleanup, Tick
    <2>2. QED
      BY <2>1, <1>1
  <1>3. QED
    BY <1>2, InductiveInvariant, PTL DEF Spec, RefusedOnlyWhenFull

-----------------------------------------------------------------------------
(* The limiter implements SlidingWindow. *)

\* What is left in the store is what lies in the window, nothing less.
LEMMA RecentIsInside ==
    ASSUME IInv PROVE Recent = ForgetsNothing!Inside
  BY DEF IInv, TypeOK, RecentIsStored, Recent, Stamps, ForgetsNothing!Inside

\* Every step of the limiter is a step of one that forgets nothing, or none.
LEMMA StepKeepsWindow ==
    ASSUME IInv, [Next]_vars
    PROVE  [ForgetsNothing!Next]_(ForgetsNothing!vars)
  <1>1. CASE Accept
    <2>1. ForgetsNothing!LetThrough
      BY <1>1, RecentIsInside DEF Accept, ForgetsNothing!LetThrough, Cardinality, ForgetsNothing!Cardinality
    <2>2. QED
      BY <2>1 DEF ForgetsNothing!Next
  <1>2. CASE Refuse
    <2>1. ForgetsNothing!Refuse
      BY <1>2, RecentIsInside DEF Refuse, ForgetsNothing!Refuse, Cardinality, ForgetsNothing!Cardinality
    <2>2. QED
      BY <2>1 DEF ForgetsNothing!Next
  <1>3. CASE Cleanup
    BY <1>3 DEF Cleanup, ForgetsNothing!vars
  <1>4. CASE Tick
    BY <1>4 DEF Tick, ForgetsNothing!Tick, ForgetsNothing!Next
  <1>5. CASE UNCHANGED vars
    BY <1>5 DEF vars, ForgetsNothing!vars
  <1>6. QED
    BY <1>1, <1>2, <1>3, <1>4, <1>5 DEF Next

\* The limiter decides every request by the window alone.
THEOREM LimiterKeepsWindow == Spec => DecidesByTheWindow
  <1>1. Init => ForgetsNothing!Init
    BY DEF Init, ForgetsNothing!Init
  <1>2. IInv /\ [Next]_vars => [ForgetsNothing!Next]_(ForgetsNothing!vars)
    BY StepKeepsWindow
  <1>3. QED
    BY <1>1, <1>2, InductiveInvariant, PTL DEF Spec, DecidesByTheWindow, ForgetsNothing!Spec
=============================================================================
