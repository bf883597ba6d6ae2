------------------------ MODULE CircuitBreakerProofs ------------------------
(***************************************************************************)
(* Type correctness of the breaker for any processes and thresholds, and,  *)
(* for one process as start.sh deploys it, that an open circuit stays open *)
(* and that recovery is earned, as long as Redis answers.                  *)
(***************************************************************************)
EXTENDS CircuitBreaker, TLAPS

USE BreakerAssumption

\* The process that has calls at the provider works on the copy in Redis, but
\* for the counts of a closed circuit, which a reset clears here only.
OneCopy(w) ==
    redis /= Absent /\ inFlight[w] > 0 =>
        /\ mem[w].state = redis.state
        /\ redis.state /= "closed" => mem[w] = redis

\* A half-open copy counts no success that was not recorded since its probe.
Counts(w) ==
    /\ mem[w].state = "half_open" => mem[w].successes <= streak
    /\ redis.state = "half_open" => redis.successes <= streak

OneInv(w) == faults = 0 => OneCopy(w) /\ Counts(w)

-----------------------------------------------------------------------------

Records == [state: {"closed", "half_open", "open"}, failures: 0..MaxCount,
            successes: 0..MaxCount, age: 0..Timeout]

\* A closed or half-open copy is below the thresholds it is compared with.
Below(m) ==
    /\ m.state = "closed" => m.failures < FailureThreshold
    /\ m.state = "half_open" =>
          m.failures < HalfOpenMaxFailures /\ m.successes < SuccessThreshold

LEMMA Bounds ==
    /\ MaxCount \in Nat
    /\ FailureThreshold \in 1..MaxCount
    /\ HalfOpenMaxFailures \in 1..MaxCount
    /\ SuccessThreshold \in 1..MaxCount
    /\ \A n \in 0..MaxCount :
          Bump(n) \in 0..MaxCount /\ (n < MaxCount => Bump(n) = n + 1) /\ Bump(n) >= n
BY DEF MaxCount, Bump

LEMMA CopyRecord == \A m : m \in Copies <=> m \in Records /\ Below(m)
<1>1. ASSUME NEW m \in Copies PROVE m \in Records /\ Below(m)
  BY Bounds DEF Copies, Copy, Records, Below
<1>2. ASSUME NEW m \in Records, Below(m) PROVE m \in Copies
  <2>1. CASE m.state = "closed"
    <3>1. m \in Copy({"closed"}, 0..(FailureThreshold - 1), 0..MaxCount)
      BY <1>2, <2>1, Bounds DEF Records, Below, Copy
    <3> QED BY <3>1 DEF Copies
  <2>2. CASE m.state = "half_open"
    <3>1. m \in Copy({"half_open"}, 0..(HalfOpenMaxFailures - 1), 0..(SuccessThreshold - 1))
      BY <1>2, <2>2, Bounds DEF Records, Below, Copy
    <3> QED BY <3>1 DEF Copies
  <2>3. CASE m.state = "open"
    <3>1. m \in Copy({"open"}, 0..MaxCount, 0..MaxCount)
      BY <1>2, <2>3 DEF Records, Copy
    <3> QED BY <3>1 DEF Copies
  <2> QED BY <2>1, <2>2, <2>3 DEF Records
<1> QED BY <1>1, <1>2

\* The transitions of any record of a breaker give one, at a threshold or not.
LEMMA Transitions ==
    ASSUME NEW m \in Records
    PROVE  /\ Closed(m) \in Records /\ Closed(m).state = "closed" /\ Closed(m).failures = 0
           /\ Opened(m) \in Records /\ Opened(m).state = "open"
           /\ HalfOpened(m) \in Records /\ HalfOpened(m).state = "half_open"
           /\ HalfOpened(m).failures = 0 /\ HalfOpened(m).successes = 0
<1>1. 0 \in 0..MaxCount /\ 0 \in 0..Timeout
  BY Bounds
<1>2. Closed(m) \in Records
  BY <1>1, Zenon DEF Closed, Records
<1>3. Opened(m) \in Records
  BY <1>1, Zenon DEF Opened, Records
<1>4. HalfOpened(m) \in Records
  BY <1>1, Zenon DEF HalfOpened, Records
<1>5. Closed(m).state = "closed" /\ Closed(m).failures = 0
  BY DEF Closed, Records
<1>6. Opened(m).state = "open"
  BY DEF Opened, Records
<1>7. HalfOpened(m).state = "half_open"
  BY DEF HalfOpened, Records
<1>8. HalfOpened(m).failures = 0 /\ HalfOpened(m).successes = 0
  BY DEF HalfOpened, Records
<1> QED BY <1>2, <1>3, <1>4, <1>5, <1>6, <1>7, <1>8

\* What the transitions make of a copy.
LEMMA CopySteps ==
    ASSUME NEW m \in Copies
    PROVE  /\ Closed(m) \in Copies /\ Closed(m).state = "closed"
           /\ Opened(m) \in Copies /\ Opened(m).state = "open"
           /\ HalfOpened(m) \in Copies /\ HalfOpened(m).state = "half_open"
           /\ HalfOpened(m).successes = 0
           /\ Older(m) \in Copies /\ Older(m).state = m.state
           /\ Older(m).successes = m.successes /\ Older(m).age >= m.age
<1>1. m \in Records /\ Below(m)
  BY CopyRecord
<1>2. Closed(m) \in Records /\ Below(Closed(m)) /\ Closed(m).state = "closed"
  BY <1>1, Bounds, Transitions DEF Below
<1>3. Opened(m) \in Records /\ Below(Opened(m)) /\ Opened(m).state = "open"
  BY <1>1, Bounds, Transitions DEF Below
<1>4. /\ HalfOpened(m) \in Records /\ Below(HalfOpened(m))
      /\ HalfOpened(m).state = "half_open" /\ HalfOpened(m).successes = 0
  BY <1>1, Bounds, Transitions DEF Below
<1>5. /\ Older(m) \in Records /\ Below(Older(m)) /\ Older(m).state = m.state
      /\ Older(m).successes = m.successes /\ Older(m).age >= m.age
  BY <1>1, Bounds DEF Records, Below, Older
<1> QED BY <1>2, <1>3, <1>4, <1>5, CopyRecord

LEMMA SuccessSteps ==
    ASSUME NEW m \in Copies
    PROVE  /\ AfterSuccess(m) \in Copies
           /\ m.state = "open" => AfterSuccess(m).state = "open" /\ AfterSuccess(m).age = m.age
           /\ AfterSuccess(m).state = "half_open" =>
                 m.state = "half_open" /\ AfterSuccess(m).successes = m.successes + 1
           /\ m.state = "half_open" /\ AfterSuccess(m).state = "closed" =>
                 m.successes + 1 >= SuccessThreshold
<1>1. m \in Records /\ Below(m)
  BY CopyRecord
<1> DEFINE counted == [m EXCEPT !.failures = 0, !.successes = Bump(@)]
<1>0. 0 \in 0..MaxCount /\ Bump(m.successes) \in 0..MaxCount /\ Bump(m.failures) \in 0..MaxCount
  BY <1>1, Bounds DEF Records
<1>r. counted \in Records
  BY <1>0, <1>1, Zenon DEF Records
<1>2. /\ counted \in Records /\ counted.state = m.state /\ counted.age = m.age
      /\ counted.failures = 0 /\ counted.successes = Bump(m.successes)
  BY <1>1, <1>r DEF Records
<1>3. AfterSuccess(m) = IF m.state = "half_open" /\ counted.successes >= SuccessThreshold
                        THEN Closed(counted) ELSE counted
  BY DEF AfterSuccess
<1> HIDE DEF counted
<1>4. m.state = "half_open" => Bump(m.successes) = m.successes + 1
  BY <1>1, Bounds DEF Records, Below
<1>5. CASE m.state = "half_open" /\ counted.successes >= SuccessThreshold
  <2>1. Closed(counted) \in Records /\ Closed(counted).state = "closed" /\ Below(Closed(counted))
    BY <1>2, Bounds, Transitions DEF Below
  <2> QED BY <1>2, <1>3, <1>4, <1>5, <2>1, CopyRecord
<1>6. CASE ~(m.state = "half_open" /\ counted.successes >= SuccessThreshold)
  <2>1. Below(counted)
    BY <1>1, <1>2, <1>6, Bounds DEF Records, Below
  <2> QED BY <1>2, <1>3, <1>4, <1>6, <2>1, CopyRecord
<1> QED BY <1>5, <1>6

LEMMA FailureSteps ==
    ASSUME NEW m \in Copies, NEW rateTrips \in BOOLEAN
    PROVE  /\ AfterFailure(m, rateTrips) \in Copies
           /\ m.state = "open" => /\ AfterFailure(m, rateTrips).state = "open"
                                 /\ AfterFailure(m, rateTrips).age = m.age
           /\ AfterFailure(m, rateTrips).state = "half_open" =>
                 AfterFailure(m, rateTrips).successes = 0
           /\ AfterFailure(m, rateTrips).state = "closed" => m.state = "closed"
<1>1. m \in Records /\ Below(m)
  BY CopyRecord
<1> DEFINE counted == [m EXCEPT !.failures = Bump(@), !.successes = 0]
           trips == \/ m.state = "half_open" /\ counted.failures >= HalfOpenMaxFailures
                    \/ m.state = "closed" /\ counted.failures >= FailureThreshold
                    \/ m.state = "closed" /\ rateTrips
<1>0. 0 \in 0..MaxCount /\ Bump(m.successes) \in 0..MaxCount /\ Bump(m.failures) \in 0..MaxCount
  BY <1>1, Bounds DEF Records
<1>r. counted \in Records
  BY <1>0, <1>1, Zenon DEF Records
<1>2. /\ counted \in Records /\ counted.state = m.state /\ counted.age = m.age
      /\ counted.successes = 0 /\ counted.failures = Bump(m.failures)
  BY <1>1, <1>r DEF Records
<1>3. AfterFailure(m, rateTrips) = IF trips THEN Opened(counted) ELSE counted
  BY DEF AfterFailure
<1> HIDE DEF counted
<1>4. CASE trips
  <2>1. Opened(counted) \in Records /\ Opened(counted).state = "open" /\ Below(Opened(counted))
    BY <1>2, Bounds, Transitions DEF Below
  <2> QED BY <1>3, <1>4, <2>1, CopyRecord
<1>5. CASE ~trips
  <2>1. Below(counted)
    BY <1>2, <1>5, Bounds DEF Records, Below
  <2> QED BY <1>2, <1>3, <1>5, <2>1, CopyRecord
<1> QED BY <1>4, <1>5

-----------------------------------------------------------------------------

LEMMA TypeInit == Init => TypeOK
<1>1. Fresh \in Copies
  <2>1. Fresh \in Records /\ Below(Fresh)
    BY Bounds DEF Fresh, Records, Below
  <2> QED BY <2>1, CopyRecord
<1> QED BY <1>1, Bounds DEF Init, TypeOK

LEMMA TypeStep == TypeOK /\ [Next]_vars => TypeOK'
<1> SUFFICES ASSUME TypeOK, [Next]_vars PROVE TypeOK'
  OBVIOUS
<1>0. /\ mem \in [Workers -> Copies] /\ redis \in Copies \union {Absent}
      /\ inFlight \in [Workers -> 0..MaxInFlight] /\ faults \in 0..MaxRedisFaults
      /\ streak \in 0..MaxCount /\ MaxCount \in Nat
  BY Bounds DEF TypeOK
<1>k. ASSUME NEW w \in Workers, NEW m \in Copies PROVE Keep(w, m) => mem' \in [Workers -> Copies]
  BY <1>0 DEF Keep
<1>s. ASSUME NEW w \in Workers, NEW m \in Copies, NEW ok \in BOOLEAN
      PROVE  Save(w, m, ok) =>
               mem' \in [Workers -> Copies] /\ redis' \in Copies \union {Absent}
  BY <1>0, <1>k DEF Save
<1>l. \A w \in Workers, ok \in BOOLEAN : Loaded(w, ok) \in Copies
  BY <1>0 DEF Loaded
<1>a. \A ok \in BOOLEAN : Answers(ok) => faults' \in 0..MaxRedisFaults
  BY <1>0 DEF Answers
<1>1. CASE UNCHANGED vars
  BY <1>1 DEF vars, TypeOK
<1>2. ASSUME NEW w \in Workers, Attempt(w) PROVE TypeOK'
  <2>1. CASE AttemptAllowed(w)
    BY <1>0, <1>k, <1>l, <1>a, <2>1 DEF AttemptAllowed, TypeOK
  <2>2. CASE AttemptProbes(w)
    <3>1. PICK loads \in BOOLEAN, saves \in BOOLEAN :
             /\ Answers(loads /\ saves)
             /\ Save(w, HalfOpened(Loaded(w, loads)), saves)
      BY <2>2 DEF AttemptProbes
    <3>2. HalfOpened(Loaded(w, loads)) \in Copies
      BY <1>l, CopySteps
    <3>3. faults' \in 0..MaxRedisFaults
      BY <1>a, <3>1
    <3>4. inFlight' \in [Workers -> 0..MaxInFlight] /\ streak' = 0
      BY <1>0, <2>2 DEF AttemptProbes
    <3> QED BY <1>0, <1>s, <3>1, <3>2, <3>3, <3>4 DEF TypeOK
  <2>3. CASE AttemptRejected(w)
    BY <1>0, <1>k, <1>l, <1>a, <2>3 DEF AttemptRejected, TypeOK
  <2> QED BY <1>2, <2>1, <2>2, <2>3 DEF Attempt
<1>3. ASSUME NEW w \in Workers, Record(w) PROVE TypeOK'
  <2>1. mem[w] \in Copies
    BY <1>0
  <2>2. inFlight' \in [Workers -> 0..MaxInFlight]
    BY <1>0, <1>3 DEF Record, RecordSuccess, RecordFailure
  <2>3. streak' \in 0..MaxCount
    BY <1>0, <1>3, Bounds DEF Record, RecordSuccess, RecordFailure
  <2>4. PICK m \in Copies, ok \in BOOLEAN : Save(w, m, ok) /\ Answers(ok)
    BY <1>3, <2>1, SuccessSteps, FailureSteps DEF Record, RecordSuccess, RecordFailure
  <2> QED BY <1>s, <1>a, <2>2, <2>3, <2>4 DEF TypeOK
<1>4. ASSUME NEW w \in Workers, ResetOpen(w) \/ ResetClosed(w) PROVE TypeOK'
  <2>1. Closed(mem[w]) \in Copies
    BY <1>0, CopySteps
  <2> QED BY <1>0, <1>k, <1>s, <1>a, <1>4, <2>1 DEF ResetOpen, ResetClosed, TypeOK
<1>5. ASSUME NEW w \in Workers, GetState(w) \/ Restart(w) PROVE TypeOK'
  <2>1. CASE GetState(w)
    BY <1>0, <1>k, <1>l, <1>a, <2>1 DEF GetState, TypeOK
  <2>2. CASE Restart(w)
    <3>1. Fresh \in Copies
      BY CopyRecord, Bounds DEF Fresh, Records, Below
    <3> QED BY <1>0, <1>k, <2>2, <3>1 DEF Restart, TypeOK
  <2> QED BY <1>5, <2>1, <2>2
<1>6. CASE Expire
  BY <1>6 DEF Expire, TypeOK
<1>7. CASE Tick
  <2>1. mem' \in [Workers -> Copies]
    BY <1>0, <1>7, CopySteps DEF Tick
  <2>2. redis' \in Copies \union {Absent}
    BY <1>0, <1>7, CopySteps DEF Tick
  <2> QED BY <1>7, <2>1, <2>2 DEF Tick, TypeOK
<1> QED BY <1>1, <1>2, <1>3, <1>4, <1>5, <1>6, <1>7 DEF Next

\* A copy that is not open is always below its thresholds: whatever the
\* processes write over one another, no circuit sits at a threshold it has
\* reached.
THEOREM TypeCorrect == Spec => []TypeOK
BY TypeInit, TypeStep, PTL DEF Spec

-----------------------------------------------------------------------------

\* Without a fault every operation has answered, now and before.
LEMMA NoFault ==
    ASSUME TypeOK, faults' = 0, [Next]_vars
    PROVE  /\ faults = 0
           /\ \A ok \in BOOLEAN : Answers(ok) => ok
<1>1. faults \in Nat
  BY DEF TypeOK
<1>2. \A ok \in BOOLEAN : Answers(ok) => ok /\ faults = 0
  BY <1>1 DEF Answers
<1>3. CASE UNCHANGED vars \/ Tick \/ Expire
  BY <1>2, <1>3 DEF vars, Tick, Expire
<1>4. CASE \E w \in Workers : Attempt(w) \/ Record(w) \/ ResetOpen(w) \/ ResetClosed(w)
                               \/ GetState(w) \/ Restart(w)
  BY <1>2, <1>4 DEF Attempt, AttemptAllowed, AttemptProbes, AttemptRejected, Record, RecordSuccess,
                    RecordFailure, ResetOpen, ResetClosed, GetState, Restart
<1> QED BY <1>2, <1>3, <1>4 DEF Next

LEMMA OneInit ==
    ASSUME NEW w \in Workers, Init
    PROVE  OneInv(w)
BY DEF Init, Fresh, Absent, OneInv, OneCopy, Counts

\* What each kind of step makes of the copies of the only process, while Redis
\* answers.
LEMMA OneStep ==
    ASSUME NEW w, Workers = {w}, TypeOK, OneInv(w), [Next]_vars
    PROVE  OneInv(w)'
<1> SUFFICES ASSUME faults' = 0 PROVE OneCopy(w)' /\ Counts(w)'
  BY DEF OneInv
<1>0. /\ mem[w] \in Copies /\ mem \in [Workers -> Copies] /\ redis \in Copies \union {Absent}
      /\ inFlight \in [Workers -> Nat] /\ streak \in 0..MaxCount /\ MaxCount \in Nat
      /\ \A ok \in BOOLEAN : Answers(ok) => ok
      /\ OneCopy(w) /\ Counts(w)
      /\ \A m \in Copies : m /= Absent
      /\ \A m \in Copies : m.successes \in Nat /\ (m.state = "half_open" => m.successes < MaxCount)
  <2>1. \A m \in Copies : m /= Absent
    BY CopyRecord DEF Absent, Records
  <2>2. \A m \in Copies : m.successes \in Nat /\ (m.state = "half_open" => m.successes < MaxCount)
    BY CopyRecord, Bounds DEF Records, Below
  <2> QED BY <2>1, <2>2, NoFault, Bounds DEF OneInv, TypeOK
<1>a. Absent.state = "absent"
  BY DEF Absent
<1>k. \A m : Keep(w, m) => mem'[w] = m
  BY <1>0 DEF Keep
<1>l. \A ok \in BOOLEAN : ok => Loaded(w, ok) = IF redis /= Absent THEN redis ELSE mem[w]
  BY DEF Loaded
<1> USE DEF OneCopy, Counts
<1>1. CASE UNCHANGED vars
  BY <1>0, <1>1 DEF vars
<1>2. CASE AttemptAllowed(w) \/ AttemptRejected(w) \/ GetState(w)
  <2>1. /\ mem'[w] = IF redis /= Absent THEN redis ELSE mem[w]
        /\ redis' = redis /\ streak' = streak
    BY <1>0, <1>2, <1>k, <1>l DEF AttemptAllowed, AttemptRejected, GetState
  <2> QED BY <1>0, <2>1
<1>3. CASE AttemptProbes(w)
  <2>1. PICK m \in Copies : mem'[w] = HalfOpened(m) /\ redis' = HalfOpened(m) /\ streak' = 0
    <3>1. PICK loads \in BOOLEAN, saves \in BOOLEAN :
             /\ Answers(loads /\ saves)
             /\ Save(w, HalfOpened(Loaded(w, loads)), saves)
      BY <1>3 DEF AttemptProbes
    <3>2. loads /\ saves
      BY <1>0, <3>1
    <3>3. Loaded(w, loads) \in Copies
      BY <1>0, <1>l, <3>2
    <3> QED BY <1>3, <1>k, <3>1, <3>2, <3>3 DEF AttemptProbes, Save
  <2>2. HalfOpened(m).successes = 0
    BY CopySteps
  <2> QED BY <2>1, <2>2
<1>4. CASE RecordSuccess(w)
  <2>1. /\ mem'[w] = AfterSuccess(mem[w]) /\ redis' = AfterSuccess(mem[w])
        /\ streak' = Bump(streak)
    BY <1>0, <1>4, <1>k DEF RecordSuccess, Save
  <2>2. AfterSuccess(mem[w]).state = "half_open" => AfterSuccess(mem[w]).successes <= Bump(streak)
    <3> SUFFICES ASSUME AfterSuccess(mem[w]).state = "half_open"
                 PROVE  AfterSuccess(mem[w]).successes <= Bump(streak)
      OBVIOUS
    <3>1. /\ mem[w].successes <= streak /\ mem[w].successes < MaxCount /\ mem[w].successes \in Nat
          /\ AfterSuccess(mem[w]).successes = mem[w].successes + 1
      BY <1>0, SuccessSteps
    <3> QED BY <1>0, <3>1 DEF Bump
  <2> QED BY <2>1, <2>2
<1>5. CASE RecordFailure(w)
  <2>1. PICK rateTrips \in BOOLEAN :
          /\ mem'[w] = AfterFailure(mem[w], rateTrips) /\ redis' = AfterFailure(mem[w], rateTrips)
          /\ streak' = 0
    BY <1>0, <1>5, <1>k DEF RecordFailure, Save
  <2>2. AfterFailure(mem[w], rateTrips).state = "half_open" =>
           AfterFailure(mem[w], rateTrips).successes = 0
    BY <1>0, FailureSteps
  <2> QED BY <2>1, <2>2
<1>6. CASE ResetOpen(w)
  <2>1. mem'[w] = Closed(mem[w]) /\ redis' = Closed(mem[w])
    BY <1>0, <1>6, <1>k DEF ResetOpen, Save
  <2>2. Closed(mem[w]).state = "closed"
    BY <1>0, CopySteps
  <2> QED BY <2>1, <2>2
<1>7. CASE ResetClosed(w)
  <2>1. mem'[w] = Closed(mem[w]) /\ UNCHANGED <<redis, inFlight, streak>> /\ mem[w].state = "closed"
    BY <1>7, <1>k DEF ResetClosed
  <2>2. Closed(mem[w]).state = "closed"
    BY <1>0, CopySteps
  <2> QED BY <1>0, <2>1, <2>2
<1>8. CASE Restart(w)
  <2>1. mem'[w] = Fresh /\ inFlight'[w] = 0 /\ UNCHANGED <<redis, streak>>
    BY <1>0, <1>8, <1>k DEF Restart
  <2> QED BY <1>0, <2>1 DEF Fresh
<1>9. CASE Expire
  <2>1. redis' = Absent /\ UNCHANGED <<mem, inFlight, streak>>
    BY <1>9 DEF Expire
  <2> QED BY <1>0, <1>a, <2>1
<1>10. CASE Tick
  <2>1. /\ mem'[w] = Older(mem[w])
        /\ redis' = IF redis = Absent THEN redis ELSE Older(redis)
        /\ UNCHANGED <<inFlight, streak>>
    BY <1>10 DEF Tick
  <2>2. CASE redis = Absent
    BY <1>0, <1>a, <2>1, <2>2, CopySteps
  <2>3. CASE redis /= Absent
    <3>1. redis \in Copies
      BY <1>0, <2>3
    <3>2. /\ Older(mem[w]).state = mem[w].state /\ Older(mem[w]).successes = mem[w].successes
          /\ Older(redis).state = redis.state /\ Older(redis).successes = redis.successes
      BY <1>0, <3>1, CopySteps
    <3> QED BY <1>0, <2>1, <2>3, <3>2
  <2> QED BY <2>2, <2>3
<1> QED
  BY <1>1, <1>2, <1>3, <1>4, <1>5, <1>6, <1>7, <1>8, <1>9, <1>10 DEF Next, Attempt, Record

-----------------------------------------------------------------------------

\* The steps that OpenHolds and RecoveryEarned admit, under a name.
Holds ==
    Rejecting /\ faults' = 0 =>
          \/ \E w \in Workers : ResetOpen(w)
          \/ /\ redis'.state = "open"
             /\ redis'.age >= redis.age
             /\ \A w \in Workers : inFlight'[w] <= inFlight[w]

Earned ==
    redis.state = "half_open" /\ redis'.state = "closed" /\ faults' = 0 =>
          \/ \E w \in Workers : ResetOpen(w)
          \/ streak' >= SuccessThreshold

LEMMA HoldsIsProperty == [][Holds]_vars => OpenHolds
BY PTL DEF OpenHolds, Holds

LEMMA EarnedIsProperty == [][Earned]_vars => RecoveryEarned
BY PTL DEF RecoveryEarned, Earned

\* With one process and Redis answering, an open circuit sends nothing to the
\* provider and stays open for the whole timeout, unless an operator resets it:
\* calls admitted before it opened neither close it nor restart its clock.
THEOREM OpenCircuitHolds ==
    ASSUME NEW p, Workers = {p}
    PROVE  Spec => OpenHolds
<1>1. TypeOK /\ OneInv(p) /\ [Next]_vars => [Holds]_vars
  <2> SUFFICES ASSUME TypeOK, OneInv(p), Next, Rejecting, faults' = 0, ~ResetOpen(p)
               PROVE  /\ redis'.state = "open"
                      /\ redis'.age >= redis.age
                      /\ inFlight'[p] <= inFlight[p]
    BY DEF Holds
  <2>0. /\ redis \in Copies /\ redis.state = "open" /\ redis.age < Timeout /\ redis /= Absent
        /\ redis.age \in Nat
        /\ mem[p] \in Copies /\ inFlight[p] \in Nat /\ inFlight \in [Workers -> Nat]
        /\ \A ok \in BOOLEAN : Answers(ok) => ok
        /\ inFlight[p] > 0 => mem[p] = redis
    <3>1. redis \in Copies /\ redis.state = "open" /\ redis.age < Timeout /\ redis /= Absent
      BY DEF Rejecting, TypeOK, Absent
    <3>2. redis.age \in Nat
      BY <3>1, CopyRecord DEF Records
    <3>3. OneCopy(p)
      BY NoFault DEF OneInv
    <3>4. inFlight[p] > 0 => mem[p] = redis
      BY <3>1, <3>3 DEF OneCopy
    <3> QED BY <3>1, <3>2, <3>4, NoFault DEF TypeOK
  <2>1. \A ok \in BOOLEAN : Answers(ok) => Loaded(p, ok) = redis
    BY <2>0 DEF Loaded
  <2>2. ~AttemptAllowed(p)
    BY <2>0, <2>1 DEF AttemptAllowed
  <2>3. ~AttemptProbes(p)
    BY <2>0, <2>1 DEF AttemptProbes, Loaded
  <2>4. CASE AttemptRejected(p) \/ ResetClosed(p) \/ GetState(p) \/ Restart(p)
    BY <2>0, <2>4 DEF AttemptRejected, ResetClosed, GetState, Restart
  <2>5. CASE RecordSuccess(p)
    <3>1. /\ redis' = AfterSuccess(redis) /\ inFlight'[p] = inFlight[p] - 1
      BY <2>0, <2>5 DEF RecordSuccess, Save
    <3>2. AfterSuccess(redis).state = "open" /\ AfterSuccess(redis).age = redis.age
      BY <2>0, SuccessSteps
    <3> QED BY <2>0, <3>1, <3>2
  <2>6. CASE RecordFailure(p)
    <3>1. PICK rateTrips \in BOOLEAN :
            /\ redis' = AfterFailure(redis, rateTrips) /\ inFlight'[p] = inFlight[p] - 1
      BY <2>0, <2>6 DEF RecordFailure, Save
    <3>2. /\ AfterFailure(redis, rateTrips).state = "open"
          /\ AfterFailure(redis, rateTrips).age = redis.age
      BY <2>0, FailureSteps
    <3> QED BY <2>0, <3>1, <3>2
  <2>7. ~Expire
    BY <2>0 DEF Expire
  <2>8. CASE Tick
    BY <2>0, <2>8, CopySteps DEF Tick
  <2> QED BY <2>2, <2>3, <2>4, <2>5, <2>6, <2>7, <2>8 DEF Next, Attempt, Record
<1>2. Init => OneInv(p)
  BY OneInit
<1>3. TypeOK /\ OneInv(p) /\ [Next]_vars => OneInv(p)'
  BY OneStep
<1>4. Spec => [][Holds]_vars
  BY <1>1, <1>2, <1>3, TypeCorrect, PTL DEF Spec
<1> QED BY <1>4, HoldsIsProperty, PTL

\* With one process and Redis answering, a half-open circuit closes only on a
\* reset or after SuccessThreshold successes in a row since its probe.
THEOREM RecoveryIsEarned ==
    ASSUME NEW p, Workers = {p}
    PROVE  Spec => RecoveryEarned
<1>1. TypeOK /\ OneInv(p) /\ [Next]_vars => [Earned]_vars
  <2> SUFFICES ASSUME TypeOK, OneInv(p), Next, redis.state = "half_open",
                      redis'.state = "closed", faults' = 0, ~ResetOpen(p)
               PROVE  streak' >= SuccessThreshold
    BY DEF Earned
  <2>0. /\ redis \in Copies /\ redis /= Absent /\ mem[p] \in Copies
        /\ \A ok \in BOOLEAN : Answers(ok) => ok
        /\ redis.successes <= streak /\ redis.successes \in Nat /\ streak \in 0..MaxCount
        /\ inFlight[p] > 0 => mem[p] = redis
    <3>1. redis \in Copies /\ redis /= Absent
      BY DEF TypeOK, Absent
    <3>2. redis.successes \in Nat
      BY <3>1, CopyRecord DEF Records
    <3>3. OneCopy(p) /\ Counts(p)
      BY NoFault DEF OneInv
    <3> QED BY <3>1, <3>2, <3>3, NoFault DEF TypeOK, OneCopy, Counts
  <2>1. CASE RecordSuccess(p)
    <3>1. redis' = AfterSuccess(redis) /\ streak' = Bump(streak)
      BY <2>0, <2>1 DEF RecordSuccess, Save
    <3>2. redis.successes + 1 >= SuccessThreshold
      BY <2>0, <3>1, SuccessSteps
    <3> QED BY <2>0, <3>1, <3>2, Bounds DEF Bump
  <2>2. CASE RecordFailure(p)
    BY <2>0, <2>2, FailureSteps DEF RecordFailure, Save
  <2>3. CASE AttemptProbes(p)
    <3>1. PICK loads \in BOOLEAN, saves \in BOOLEAN :
             Answers(loads /\ saves) /\ Save(p, HalfOpened(Loaded(p, loads)), saves)
      BY <2>3 DEF AttemptProbes
    <3>2. Loaded(p, loads) \in Copies /\ saves
      BY <2>0, <3>1 DEF Loaded
    <3> QED BY <3>1, <3>2, CopySteps DEF Save
  <2>4. CASE AttemptAllowed(p) \/ AttemptRejected(p) \/ ResetClosed(p) \/ GetState(p) \/ Restart(p)
    BY <2>4 DEF AttemptAllowed, AttemptRejected, ResetClosed, GetState, Restart
  <2>5. CASE Expire
    BY <2>5 DEF Expire, Absent
  <2>6. CASE Tick
    BY <2>0, <2>6, CopySteps DEF Tick
  <2> QED BY <2>1, <2>2, <2>3, <2>4, <2>5, <2>6 DEF Next, Attempt, Record
<1>2. Init => OneInv(p)
  BY OneInit
<1>3. TypeOK /\ OneInv(p) /\ [Next]_vars => OneInv(p)'
  BY OneStep
<1>4. Spec => [][Earned]_vars
  BY <1>1, <1>2, <1>3, TypeCorrect, PTL DEF Spec
<1> QED BY <1>4, EarnedIsProperty, PTL

=============================================================================
