--------------------------- MODULE CircuitBreaker ---------------------------
(***************************************************************************)
(* The breaker of one provider, services/circuit_breaker.py: every process *)
(* keeps a copy of its state, reads the copy in Redis before a call and    *)
(* writes its own over it after one.  The body of each `with self._lock`   *)
(* is one action; the provider's call lies between two of them.            *)
(***************************************************************************)
EXTENDS Integers

CONSTANTS
    Workers,              \* processes that share one Redis
    FailureThreshold,
    SuccessThreshold,
    HalfOpenMaxFailures,
    Timeout,              \* timeout_seconds, in ticks of the model's clock
    MaxInFlight,          \* bound: calls a process has at the provider
    MaxRedisFaults        \* bound: Redis operations that fail

ASSUME BreakerAssumption ==
    /\ {FailureThreshold, SuccessThreshold, HalfOpenMaxFailures, Timeout, MaxInFlight}
          \subseteq Nat \ {0}
    /\ MaxRedisFaults \in Nat

VARIABLES
    mem,       \* each process's copy
    redis,     \* the shared copy, or Absent
    inFlight,  \* calls each process has admitted and not recorded
    faults,    \* Redis operations that have failed
    streak     \* history: successes recorded in a row since the last probe began

vars == <<mem, redis, inFlight, faults, streak>>

\* The counts are only compared with thresholds, and opened_at only with the
\* timeout: both are kept up to the value where they stop mattering.
MaxCount == FailureThreshold + HalfOpenMaxFailures + SuccessThreshold

Copy(states, failures, successes) ==
    [state: states, failures: failures, successes: successes, age: 0..Timeout]

Copies ==
    Copy({"closed"}, 0..(FailureThreshold - 1), 0..MaxCount)
      \union Copy({"half_open"}, 0..(HalfOpenMaxFailures - 1), 0..(SuccessThreshold - 1))
      \union Copy({"open"}, 0..MaxCount, 0..MaxCount)

Absent == [state |-> "absent"]

TypeOK ==
    /\ mem \in [Workers -> Copies]
    /\ redis \in Copies \union {Absent}
    /\ inFlight \in [Workers -> 0..MaxInFlight]
    /\ faults \in 0..MaxRedisFaults
    /\ streak \in 0..MaxCount

\* __init__: opened_at is 0.0, long ago.
Fresh == [state |-> "closed", failures |-> 0, successes |-> 0, age |-> Timeout]

Init ==
    /\ mem = [w \in Workers |-> Fresh]
    /\ redis = Absent
    /\ inFlight = [w \in Workers |-> 0]
    /\ faults = 0
    /\ streak = 0

-----------------------------------------------------------------------------
(***************************************************************************)
(* What _transition_to and _record_* make of a copy.                       *)
(***************************************************************************)

Bump(n) == IF n < MaxCount THEN n + 1 ELSE n

Closed(m) == [m EXCEPT !.state = "closed", !.failures = 0, !.successes = 0]
Opened(m) == [m EXCEPT !.state = "open", !.successes = 0, !.age = 0]

\* Mutant: the counters survive the transition to HALF_OPEN.
HalfOpenedAsWas(m) == [m EXCEPT !.state = "half_open"]

HalfOpened(m) == [m EXCEPT !.state = "half_open", !.failures = 0, !.successes = 0]

\* Mutant: enough successes close the circuit whatever state it is in.
AfterSuccessInAnyState(m) ==
    LET counted == [m EXCEPT !.failures = 0, !.successes = Bump(@)]
    IN  IF counted.successes >= SuccessThreshold THEN Closed(counted) ELSE counted

AfterSuccess(m) ==
    LET counted == [m EXCEPT !.failures = 0, !.successes = Bump(@)]
    IN  IF m.state = "half_open" /\ counted.successes >= SuccessThreshold
        THEN Closed(counted)
        ELSE counted

\* rateTrips: the failure rate over the window reaches its threshold.
AfterFailure(m, rateTrips) ==
    LET counted == [m EXCEPT !.failures = Bump(@), !.successes = 0]
        trips == \/ m.state = "half_open" /\ counted.failures >= HalfOpenMaxFailures
                 \/ m.state = "closed" /\ counted.failures >= FailureThreshold
                 \/ m.state = "closed" /\ rateTrips
    IN  IF trips THEN Opened(counted) ELSE counted

-----------------------------------------------------------------------------
(***************************************************************************)
(* _load_state_from_redis and _save_state_to_redis, which swallow every    *)
(* error; `ok` says whether Redis answers.                                 *)
(***************************************************************************)

Answers(ok) ==
    /\ ok \/ faults < MaxRedisFaults
    /\ faults' = IF ok THEN faults ELSE faults + 1

Loaded(w, ok) == IF ok /\ redis /= Absent THEN redis ELSE mem[w]

Keep(w, m) == mem' = [mem EXCEPT ![w] = m]

Save(w, m, ok) ==
    /\ Keep(w, m)
    /\ redis' = IF ok THEN m ELSE redis

-----------------------------------------------------------------------------
(***************************************************************************)
(* call(): _check_should_attempt, the provider, _record_success or         *)
(* _record_failure.                                                        *)
(***************************************************************************)

\* CLOSED and HALF_OPEN let every call through.
AttemptAllowed(w) == \E ok \in BOOLEAN :
    /\ inFlight[w] < MaxInFlight
    /\ Loaded(w, ok).state /= "open"
    /\ Answers(ok)
    /\ Keep(w, Loaded(w, ok))
    /\ inFlight' = [inFlight EXCEPT ![w] = @ + 1]
    /\ UNCHANGED <<redis, streak>>

\* OPEN for long enough: this call begins the recovery test.
AttemptProbes(w) == \E loads, saves \in BOOLEAN :
    /\ inFlight[w] < MaxInFlight
    /\ Loaded(w, loads).state = "open"
    /\ Loaded(w, loads).age = Timeout
    /\ Answers(loads /\ saves)
    /\ Save(w, HalfOpened(Loaded(w, loads)), saves)
    /\ inFlight' = [inFlight EXCEPT ![w] = @ + 1]
    /\ streak' = 0

\* Mutant: a rejected call counts as a failure that opens the circuit anew.
AttemptRejectedReopens(w) == \E ok \in BOOLEAN :
    /\ Loaded(w, ok).state = "open"
    /\ Loaded(w, ok).age < Timeout
    /\ Answers(ok)
    /\ Save(w, Opened(Loaded(w, ok)), ok)
    /\ UNCHANGED <<inFlight, streak>>

\* CircuitBreakerError, without a call.
AttemptRejected(w) == \E ok \in BOOLEAN :
    /\ Loaded(w, ok).state = "open"
    /\ Loaded(w, ok).age < Timeout
    /\ Answers(ok)
    /\ Keep(w, Loaded(w, ok))
    /\ UNCHANGED <<redis, inFlight, streak>>

\* The outcome is recorded in the process's own copy, as it is by now, and that
\* copy replaces the one in Redis.
RecordSuccess(w) == \E ok \in BOOLEAN :
    /\ inFlight[w] > 0
    /\ Answers(ok)
    /\ Save(w, AfterSuccess(mem[w]), ok)
    /\ inFlight' = [inFlight EXCEPT ![w] = @ - 1]
    /\ streak' = Bump(streak)

RecordFailure(w) == \E ok, rateTrips \in BOOLEAN :
    /\ inFlight[w] > 0
    /\ Answers(ok)
    /\ Save(w, AfterFailure(mem[w], rateTrips), ok)
    /\ inFlight' = [inFlight EXCEPT ![w] = @ - 1]
    /\ streak' = 0

-----------------------------------------------------------------------------

\* reset(): a copy that is CLOSED already is cleared but not saved.
ResetOpen(w) == \E ok \in BOOLEAN :
    /\ mem[w].state /= "closed"
    /\ Answers(ok)
    /\ Save(w, Closed(mem[w]), ok)
    /\ streak' = 0
    /\ UNCHANGED inFlight

ResetClosed(w) ==
    /\ mem[w].state = "closed"
    /\ Keep(w, Closed(mem[w]))
    /\ UNCHANGED <<redis, inFlight, faults, streak>>

\* get_state() of the status routes.
GetState(w) == \E ok \in BOOLEAN :
    /\ Answers(ok)
    /\ Keep(w, Loaded(w, ok))
    /\ UNCHANGED <<redis, inFlight, streak>>

\* The process is replaced; its calls are gone.
Restart(w) ==
    /\ Keep(w, Fresh)
    /\ inFlight' = [inFlight EXCEPT ![w] = 0]
    /\ UNCHANGED <<redis, faults, streak>>

\* The keys live for an hour after the last save, far longer than the timeout.
Expire ==
    /\ redis /= Absent
    /\ redis.age = Timeout
    /\ redis' = Absent
    /\ UNCHANGED <<mem, inFlight, faults, streak>>

Older(m) == [m EXCEPT !.age = IF @ < Timeout THEN @ + 1 ELSE @]

Tick ==
    /\ mem' = [w \in Workers |-> Older(mem[w])]
    /\ redis' = IF redis = Absent THEN redis ELSE Older(redis)
    /\ UNCHANGED <<inFlight, faults, streak>>

Attempt(w) == AttemptAllowed(w) \/ AttemptProbes(w) \/ AttemptRejected(w)
Record(w) == RecordSuccess(w) \/ RecordFailure(w)

Next ==
    \/ \E w \in Workers :
          \/ Attempt(w)
          \/ Record(w)
          \/ ResetOpen(w)
          \/ ResetClosed(w)
          \/ GetState(w)
          \/ Restart(w)
    \/ Expire
    \/ Tick

\* Time passes, a provider answers or times out, and requests keep coming.
Fairness ==
    /\ WF_vars(Tick)
    /\ \A w \in Workers : WF_vars(Attempt(w)) /\ WF_vars(Record(w))

Spec == Init /\ [][Next]_vars /\ Fairness

-----------------------------------------------------------------------------

Rejecting == redis.state = "open" /\ redis.age < Timeout

\* As long as Redis answers, an open circuit stays open for the whole timeout
\* unless an operator resets it: nothing is sent to the provider, and what calls
\* admitted earlier report neither closes it nor restarts its clock.
OpenHolds ==
    [][Rejecting /\ faults' = 0 =>
          \/ \E w \in Workers : ResetOpen(w)
          \/ /\ redis'.state = "open"
             /\ redis'.age >= redis.age
             /\ \A w \in Workers : inFlight'[w] <= inFlight[w]]_vars

\* As long as Redis answers, a half-open circuit closes only on a reset or after
\* SuccessThreshold successes in a row since the recovery test began, however
\* many calls of before the test still report.
RecoveryEarned ==
    [][redis.state = "half_open" /\ redis'.state = "closed" /\ faults' = 0 =>
          \/ \E w \in Workers : ResetOpen(w)
          \/ streak' >= SuccessThreshold]_vars

\* While requests keep coming an open circuit is tested again, whatever Redis
\* loses and however often the processes restart.
OpenEnds == redis.state = "open" ~> redis.state /= "open"

=============================================================================
