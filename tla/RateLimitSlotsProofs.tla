------------------------ MODULE RateLimitSlotsProofs ------------------------
(***************************************************************************)
(* Proofs about RateLimitSlots for any requests and limits.  The counter   *)
(* of the key may be too low, through the result cache, and too high,      *)
(* through streams that were never started; the invariant below says by    *)
(* how much, and who has released.                                         *)
(***************************************************************************)
EXTENDS RateLimitSlots, FiniteSetTheorems, TLAPS

\* What is taken is in flight, and a slot was released by those only that are
\* past the point where it is.
Holding ==
    /\ taken \subseteq InFlight
    /\ \A r \in Requests :
          releases[r] <= IF rpc[r] \in {"final"} \union Ended THEN 1 ELSE 0

\* Without the cache and without an administrator nobody runs uncounted.
Counting ==
    hits = {} /\ owner /= "admin" =>
        /\ InFlight \subseteq taken
        /\ Cardinality(taken) <= slots

IInv == TypeOK /\ Holding /\ NeverOvercounted /\ Counting

-----------------------------------------------------------------------------

\* How the number of taken slots changes with a request.
LEMMA TakenCounts ==
    ASSUME NEW S, S \subseteq Requests, NEW r \in Requests
    PROVE /\ IsFiniteSet(S) /\ Cardinality(S) \in Nat
          /\ r \in S => /\ Cardinality(S \ {r}) = Cardinality(S) - 1
                        /\ Cardinality(S \cap {r}) = 1
          /\ r \notin S => /\ Cardinality(S \union {r}) = Cardinality(S) + 1
                           /\ S \ {r} = S
                           /\ Cardinality(S \cap {r}) = 0
<1>1. IsFiniteSet(S) /\ Cardinality(S) \in Nat
  BY FS_Subset, FS_CardinalityType, RateLimitAssumption
<1>2. CASE r \in S
  <2>1. S \cap {r} = {r}
    BY <1>2
  <2>2. Cardinality({r}) = 1
    BY FS_Singleton
  <2> QED BY <1>1, <1>2, <2>1, <2>2, FS_RemoveElement
<1>3. CASE r \notin S
  <2>1. S \cap {r} = {} /\ S \ {r} = S
    BY <1>3
  <2>2. Cardinality({}) = 0
    BY FS_EmptySet
  <2> QED BY <1>1, <1>3, <2>1, <2>2, FS_AddElement
<1> QED BY <1>1, <1>2, <1>3

LEMMA InitHolds == Init => IInv
<1> SUFFICES ASSUME Init PROVE IInv
  OBVIOUS
<1>1. TypeOK
  <2>1. "new" \in Places
    BY DEF Places
  <2>2. 0 \in 0..Limit
    BY RateLimitAssumption
  <2> QED BY <2>1, <2>2 DEF Init, TypeOK
<1>2. Cardinality({}) = 0
  BY FS_EmptySet
<1>3. InFlight = {}
  BY DEF InFlight, Init
<1>4. Holding
  BY <1>3 DEF Init, Holding, Ended
<1>5. NeverOvercounted
  BY <1>2 DEF Init, NeverOvercounted
<1>6. Counting
  BY <1>2, <1>3 DEF Init, Counting
<1> QED BY <1>1, <1>4, <1>5, <1>6 DEF IInv

\* A request that moves and changes neither the slots nor who holds them.
LEMMA MoveStep ==
    ASSUME IInv, NEW r \in Requests, NEW place \in Places,
           Goto(r, place), NoSlotChange, cached' \in BOOLEAN,
           hits' = hits \/ hits' = hits \union {r},
           \/ rpc[r] \in {"unstarted", "run"} /\ place \in {"unstarted", "streaming"}
           \/ /\ rpc[r] \in {"new", "lookup", "final"}
              /\ rpc[r] = "final" => place \in Ended
              /\ place = "run" => r \in hits' \/ owner = "admin"
              /\ place \notin {"unstarted", "streaming"}
    PROVE  IInv'
<1>1. TypeOK /\ rpc' = [rpc EXCEPT ![r] = place]
  BY DEF IInv, Goto
<1>2. /\ owner' = owner /\ slots' = slots /\ taken' = taken
      /\ releases' = releases /\ leaked' = leaked
  BY DEF NoSlotChange
<1>3. TypeOK'
  BY <1>1, <1>2 DEF TypeOK
<1>4. \A q \in Requests : q /= r => rpc'[q] = rpc[q]
  BY <1>1 DEF TypeOK
<1>5. rpc'[r] = place
  BY <1>1 DEF TypeOK
<1>6. Holding'
  <2>1. taken' \subseteq InFlight'
    BY <1>2, <1>4, <1>5 DEF IInv, Holding, InFlight
  <2>2. ASSUME NEW q \in Requests
        PROVE  releases'[q] <= IF rpc'[q] \in {"final"} \union Ended THEN 1 ELSE 0
    <3>1. releases[q] <= IF rpc[q] \in {"final"} \union Ended THEN 1 ELSE 0
      BY DEF IInv, Holding
    <3>2. CASE q /= r
      BY <1>2, <1>4, <3>1, <3>2
    <3>3. CASE q = r
      <4>1. releases[r] \in Nat
        BY <1>1 DEF TypeOK
      <4>2. CASE rpc[r] = "final"
        BY <1>2, <1>5, <3>1, <3>3, <4>1, <4>2
      <4>3. CASE rpc[r] /= "final"
        <5>1. rpc[r] \notin {"final"} \union Ended
          BY <4>3 DEF Ended
        <5> QED BY <1>2, <3>1, <3>3, <4>1, <5>1
      <4> QED BY <4>2, <4>3
    <3> QED BY <3>2, <3>3
  <2> QED BY <2>1, <2>2 DEF Holding
<1>7. NeverOvercounted'
  BY <1>2 DEF IInv, NeverOvercounted
<1>8. Counting'
  <2>1. SUFFICES ASSUME hits' = {}, owner /= "admin"
                 PROVE  InFlight' \subseteq taken /\ Cardinality(taken) <= slots
    BY <1>2 DEF Counting
  <2>2. hits = {} /\ place /= "run"
    BY <2>1
  <2>3. InFlight \subseteq taken /\ Cardinality(taken) <= slots
    BY <2>1, <2>2 DEF IInv, Counting
  <2>4. InFlight' \subseteq InFlight
    BY <1>4, <1>5, <2>2 DEF InFlight, Ended
  <2> QED BY <2>3, <2>4
<1> QED BY <1>3, <1>6, <1>7, <1>8 DEF IInv

\* The slot of a request is counted when the comparison lets it pass.
LEMMA CountedStep ==
    ASSUME IInv, NEW r \in Requests, Counted(r)
    PROVE  IInv'
<1>1. TypeOK /\ rpc' = [rpc EXCEPT ![r] = "run"] /\ rpc[r] = "lookup"
  BY DEF IInv, Counted, Goto
<1>2. /\ owner' = owner /\ slots' = slots + 1 /\ taken' = taken \union {r}
      /\ releases' = releases /\ leaked' = leaked /\ hits' = hits
  BY DEF Counted
<1>3. slots < Limit /\ cached' \in BOOLEAN
  BY <1>1, RateLimitAssumption DEF Counted, LimitOf, TypeOK
<1>4. TypeOK'
  <2>1. "run" \in Places
    BY DEF Places
  <2>2. slots' \in 0..Limit
    BY <1>1, <1>2, <1>3, RateLimitAssumption DEF TypeOK
  <2> QED BY <1>1, <1>2, <1>3, <2>1, <2>2 DEF TypeOK
<1>5. rpc'[r] = "run" /\ \A q \in Requests : q /= r => rpc'[q] = rpc[q]
  BY <1>1 DEF TypeOK
<1>6. r \notin taken
  BY <1>1 DEF IInv, Holding, InFlight
<1>7. Cardinality(taken') = Cardinality(taken) + 1 /\ Cardinality(taken) \in Nat
  BY <1>1, <1>2, <1>6, TakenCounts DEF TypeOK
<1>8. Holding'
  <2>1. taken' \subseteq InFlight'
    BY <1>2, <1>5 DEF IInv, Holding, InFlight
  <2>2. rpc[r] \notin {"final"} \union Ended
    BY <1>1 DEF Ended
  <2>3. \A q \in Requests :
           releases'[q] <= IF rpc'[q] \in {"final"} \union Ended THEN 1 ELSE 0
    <3>1. rpc'[r] \notin {"final"} \union Ended
      BY <1>5 DEF Ended
    <3> QED BY <1>2, <1>5, <2>2, <3>1 DEF IInv, Holding
  <2> QED BY <2>1, <2>3 DEF Holding
<1>9. NeverOvercounted'
  BY <1>1, <1>2, <1>7 DEF IInv, NeverOvercounted, TypeOK
<1>10. Counting'
  <2>1. SUFFICES ASSUME hits = {}, owner /= "admin"
                 PROVE  InFlight' \subseteq taken' /\ Cardinality(taken') <= slots'
    BY <1>2 DEF Counting
  <2>2. InFlight \subseteq taken /\ Cardinality(taken) <= slots
    BY <2>1 DEF IInv, Counting
  <2>3. InFlight' \subseteq taken'
    BY <1>2, <1>5, <2>2 DEF InFlight
  <2> QED BY <1>1, <1>2, <1>7, <2>2, <2>3 DEF TypeOK
<1> QED BY <1>4, <1>8, <1>9, <1>10 DEF IInv

\* A request in flight gives its slot back and goes to where it may not again.
LEMMA ReleaseStep ==
    ASSUME IInv, NEW r \in Requests, NEW place \in {"final", "failed", "answered"},
           rpc[r] \in {"run", "streaming"}, Goto(r, place), Release(r)
    PROVE  IInv'
<1>1. TypeOK /\ rpc' = [rpc EXCEPT ![r] = place]
  BY DEF IInv, Goto
<1>2. /\ owner' = owner /\ taken' = taken \ {r} /\ leaked' = leaked /\ hits' = hits
      /\ releases' = [releases EXCEPT ![r] = @ + 1] /\ cached' = cached
      /\ slots' = IF slots > 0 THEN slots - 1 ELSE 0
  BY DEF Release
<1>3. TypeOK'
  <2>1. place \in Places
    BY DEF Places, Ended
  <2>2. slots' \in 0..Limit
    BY <1>1, <1>2, RateLimitAssumption DEF TypeOK
  <2> QED BY <1>1, <1>2, <2>1, <2>2 DEF TypeOK
<1>4. rpc'[r] = place /\ \A q \in Requests : q /= r => rpc'[q] = rpc[q]
  BY <1>1 DEF TypeOK
<1>5. /\ Cardinality(taken) \in Nat
      /\ Cardinality(taken') = Cardinality(taken) \/
            (r \in taken /\ Cardinality(taken') = Cardinality(taken) - 1)
      /\ r \in taken => Cardinality(taken') = Cardinality(taken) - 1
  BY <1>1, <1>2, TakenCounts DEF TypeOK
<1>6. Holding'
  <2>1. taken' \subseteq InFlight'
    BY <1>2, <1>4 DEF IInv, Holding, InFlight
  <2>2. rpc[r] \notin {"final"} \union Ended /\ rpc'[r] \in {"final"} \union Ended
    BY <1>4 DEF Ended
  <2>3. releases[r] \in Nat /\ releases[r] <= 0
    BY <1>1, <2>2 DEF TypeOK, IInv, Holding
  <2>4. releases'[r] <= 1 /\ \A q \in Requests : q /= r => releases'[q] = releases[q]
    BY <1>1, <1>2, <2>3 DEF TypeOK
  <2>5. \A q \in Requests :
           releases'[q] <= IF rpc'[q] \in {"final"} \union Ended THEN 1 ELSE 0
    BY <1>4, <2>2, <2>4 DEF IInv, Holding
  <2> QED BY <2>1, <2>5 DEF Holding
<1>7. NeverOvercounted'
  <2>1. Cardinality(taken') \in Nat
    BY <1>1, <1>2, TakenCounts DEF TypeOK
  <2> QED BY <1>1, <1>2, <1>5, <2>1 DEF IInv, NeverOvercounted, TypeOK
<1>8. Counting'
  <2>1. SUFFICES ASSUME hits = {}, owner /= "admin"
                 PROVE  InFlight' \subseteq taken' /\ Cardinality(taken') <= slots'
    BY <1>2 DEF Counting
  <2>2. InFlight \subseteq taken /\ Cardinality(taken) <= slots
    BY <2>1 DEF IInv, Counting
  <2>3. r \in taken
    BY <1>1, <2>2 DEF InFlight
  <2>4. InFlight' \subseteq taken'
    BY <1>2, <1>4, <2>2 DEF InFlight
  <2> QED BY <1>1, <1>2, <1>5, <2>2, <2>3, <2>4 DEF TypeOK
<1> QED BY <1>3, <1>6, <1>7, <1>8 DEF IInv

\* The slot of a dropped stream is accounted for as leaked.
LEMMA DroppedStep ==
    ASSUME IInv, NEW r \in Requests, Dropped(r)
    PROVE  IInv'
<1>1. TypeOK /\ rpc' = [rpc EXCEPT ![r] = "gone"] /\ rpc[r] = "unstarted"
  BY DEF IInv, Dropped, Goto
<1>2. /\ owner' = owner /\ slots' = slots /\ taken' = taken \ {r} /\ hits' = hits
      /\ leaked' = leaked + Cardinality(taken \cap {r})
      /\ releases' = releases /\ cached' = cached
  BY DEF Dropped
<1>3. /\ Cardinality(taken) \in Nat
      /\ r \in taken => /\ Cardinality(taken') = Cardinality(taken) - 1
                        /\ Cardinality(taken \cap {r}) = 1
      /\ r \notin taken => /\ Cardinality(taken') = Cardinality(taken)
                           /\ Cardinality(taken \cap {r}) = 0
  BY <1>1, <1>2, TakenCounts DEF TypeOK
<1>4. /\ leaked \in Nat /\ leaked' \in Nat
      /\ Cardinality(taken') \in Nat /\ Cardinality(taken') <= Cardinality(taken)
      /\ Cardinality(taken') + leaked' = Cardinality(taken) + leaked
  <2>1. leaked \in Nat
    BY <1>1 DEF TypeOK
  <2>2. Cardinality(taken') \in Nat
    BY <1>1, <1>2, TakenCounts DEF TypeOK
  <2>3. CASE r \in taken
    BY <1>2, <1>3, <2>1, <2>2, <2>3
  <2>4. CASE r \notin taken
    BY <1>2, <1>3, <2>1, <2>2, <2>4
  <2> QED BY <2>3, <2>4
<1>5. TypeOK'
  <2>1. "gone" \in Places
    BY DEF Places, Ended
  <2> QED BY <1>1, <1>2, <1>4, <2>1 DEF TypeOK
<1>6. rpc'[r] = "gone" /\ \A q \in Requests : q /= r => rpc'[q] = rpc[q]
  BY <1>1 DEF TypeOK
<1>7. Holding'
  <2>1. taken' \subseteq InFlight'
    BY <1>2, <1>6 DEF IInv, Holding, InFlight
  <2>2. rpc[r] \notin {"final"} \union Ended /\ rpc'[r] \in {"final"} \union Ended
    BY <1>1, <1>6 DEF Ended
  <2>3. releases[r] \in Nat /\ releases[r] <= 0
    BY <1>1, <2>2 DEF TypeOK, IInv, Holding
  <2>4. \A q \in Requests :
           releases'[q] <= IF rpc'[q] \in {"final"} \union Ended THEN 1 ELSE 0
    BY <1>2, <1>6, <2>2, <2>3 DEF IInv, Holding
  <2> QED BY <2>1, <2>4 DEF Holding
<1>8. NeverOvercounted'
  BY <1>1, <1>2, <1>3, <1>4 DEF IInv, NeverOvercounted, TypeOK
<1>9. Counting'
  <2>1. SUFFICES ASSUME hits = {}, owner /= "admin"
                 PROVE  InFlight' \subseteq taken' /\ Cardinality(taken') <= slots'
    BY <1>2 DEF Counting
  <2>2. InFlight \subseteq taken /\ Cardinality(taken) <= slots
    BY <2>1 DEF IInv, Counting
  <2>3. InFlight' \subseteq taken'
    BY <1>2, <1>6, <2>2 DEF InFlight
  <2> QED BY <1>1, <1>2, <1>3, <1>4, <2>2, <2>3 DEF TypeOK
<1> QED BY <1>5, <1>7, <1>8, <1>9 DEF IInv

\* The expiry of the cached result touches nothing the invariant counts.
LEMMA ExpiryStep == IInv /\ CacheExpires => IInv'
BY DEF IInv, TypeOK, Holding, NeverOvercounted, Counting, InFlight, CacheExpires, NoSlotChange

LEMMA StutterStep == IInv /\ UNCHANGED vars => IInv'
BY DEF IInv, TypeOK, Holding, NeverOvercounted, Counting, InFlight, vars

LEMMA InvStep == IInv /\ [Next]_vars => IInv'
<1> SUFFICES ASSUME IInv, [Next]_vars PROVE IInv'
  OBVIOUS
<1>1. CASE UNCHANGED vars
  BY <1>1, StutterStep
<1>2. CASE CacheExpires
  BY <1>2, ExpiryStep
<1>3. ASSUME NEW r \in Requests, RequestStep(r) PROVE IInv'
  <2>0. /\ {"run", "lookup", "refused", "unstarted", "streaming", "answered", "late"}
             \subseteq Places
        /\ {"answered", "late"} \subseteq Ended
        /\ cached \in BOOLEAN
    BY DEF Places, Ended, IInv, TypeOK
  <2>1. CASE CacheAdmits(r)
    BY <2>0, <2>1, MoveStep DEF CacheAdmits
  <2>2. CASE LooksUp(r)
    BY <2>0, <2>2, MoveStep DEF LooksUp
  <2>3. CASE AdminPasses(r)
    <3>1. owner = "admin"
      BY <2>3 DEF AdminPasses, Seen
    <3> QED BY <2>0, <2>3, <3>1, MoveStep DEF AdminPasses
  <2>4. CASE Counted(r)
    BY <2>4, CountedStep
  <2>5. CASE Refused(r)
    BY <2>0, <2>5, MoveStep DEF Refused
  <2>6. CASE Fails(r)
    BY <2>6, ReleaseStep DEF Fails
  <2>7. CASE ReturnsStream(r)
    BY <2>0, <2>7, MoveStep DEF ReturnsStream
  <2>8. CASE Dropped(r)
    BY <2>8, DroppedStep
  <2>9. CASE StreamStarts(r)
    BY <2>0, <2>9, MoveStep DEF StreamStarts
  <2>10. CASE StreamEnds(r)
    BY <2>10, ReleaseStep DEF StreamEnds
  <2>11. CASE ReleasesEarly(r)
    BY <2>11, ReleaseStep DEF ReleasesEarly
  <2>12. CASE Answers(r)
    BY <2>0, <2>12, MoveStep DEF Answers
  <2>13. CASE AnswersLate(r)
    BY <2>0, <2>13, MoveStep DEF AnswersLate
  <2> QED
    BY <1>3, <2>1, <2>2, <2>3, <2>4, <2>5, <2>6, <2>7, <2>8, <2>9, <2>10, <2>11,
       <2>12, <2>13 DEF RequestStep
<1> QED BY <1>1, <1>2, <1>3 DEF Next

-----------------------------------------------------------------------------

\* The invariant holds throughout.
THEOREM InvAlways == Spec => []IInv
BY InitHolds, InvStep, PTL DEF Spec

\* Type correctness, for every number of requests: the counter never leaves
\* 0..Limit, not even through the requests the cache admits.
THEOREM TypeCorrect == Spec => []TypeOK
<1>1. IInv => TypeOK
  BY DEF IInv
<1> QED BY <1>1, InvAlways, PTL

\* The counter is never above what is held, but for dropped streams.
THEOREM NeverTooHigh == Spec => []NeverOvercounted
<1>1. IInv => NeverOvercounted
  BY DEF IInv
<1> QED BY <1>1, InvAlways, PTL

\* No request releases twice, on whatever path it leaves the route.
THEOREM NobodyReleasesTwice == Spec => []ReleasedOnce
<1>1. IInv => ReleasedOnce
  <2> SUFFICES ASSUME IInv, NEW r \in Requests PROVE releases[r] <= 1
    BY DEF ReleasedOnce
  <2>1. releases[r] \in Nat /\
        releases[r] <= IF rpc[r] \in {"final"} \union Ended THEN 1 ELSE 0
    BY DEF IInv, Holding, TypeOK
  <2> QED BY <2>1
<1> QED BY <1>1, InvAlways, PTL

\* The limit holds for a key whose requests all went through the counter.
THEOREM LimitKept == Spec => []LimitHoldsUncached
<1>1. IInv => LimitHoldsUncached
  <2> SUFFICES ASSUME IInv, hits = {}, owner /= "admin"
               PROVE  Cardinality(InFlight) <= Limit
    BY DEF LimitHoldsUncached
  <2>1. InFlight = taken /\ Cardinality(taken) <= slots
    BY DEF IInv, Counting, Holding
  <2>2. slots \in 0..Limit /\ taken \subseteq Requests
    BY DEF IInv, TypeOK
  <2>3. Cardinality(taken) \in Nat
    BY <2>2, FS_Subset, FS_CardinalityType, RateLimitAssumption
  <2> QED BY <2>1, <2>2, <2>3, RateLimitAssumption
<1> QED BY <1>1, InvAlways, PTL

=============================================================================
