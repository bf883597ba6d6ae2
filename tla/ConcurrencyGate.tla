-------------------------- MODULE ConcurrencyGate --------------------------
(***************************************************************************)
(* The admission gate of middleware/concurrency_middleware.py over the     *)
(* asyncio.Semaphore of the Python the service is deployed on (3.12).  An  *)
(* action is what the event loop runs of one coroutine between two awaits. *)
(***************************************************************************)
EXTENDS Integers, FiniteSets, SequencesExt

CONSTANTS
    Clients,    \* each sends one request at a time, any number in all
    Limit,      \* CONCURRENCY_LIMIT
    QueueSize   \* CONCURRENCY_QUEUE_SIZE

ASSUME GateAssumption ==
    /\ IsFiniteSet(Clients)
    /\ Limit \in Nat \ {0}
    /\ QueueSize \in Nat

VARIABLES
    state,    \* where each client's request is
    value,    \* semaphore._value
    waiters,  \* semaphore._waiters, the clients of its futures
    waiting,  \* self._waiting
    active    \* self._active_count

vars == <<state, value, waiters, waiting, active>>

\* idle: no request, or it has been answered.  probing: in the zero-timeout
\* wait_for.  queued: its future is pending.  woken: its future has a result
\* and the slot is its own.  expired: its future was cancelled by the queue
\* timeout.  active: the application runs it.
States == {"idle", "probing", "queued", "woken", "expired", "active"}

In(s) == {c \in Clients : state[c] = s}

TypeOK ==
    /\ state \in [Clients -> States]
    /\ value \in 0..Limit
    /\ waiters \in Seq(Clients)
    /\ waiting \in 0..QueueSize
    /\ active \in 0..Limit

Init ==
    /\ state = [c \in Clients |-> "idle"]
    /\ value = Limit
    /\ waiters = <<>>
    /\ waiting = 0
    /\ active = 0

-----------------------------------------------------------------------------
(***************************************************************************)
(* asyncio.Semaphore.                                                      *)
(***************************************************************************)

\* Mutant: only the counter is looked at.
LockedOnZero == value = 0

\* A future that is done but still listed keeps newcomers out as well; only a
\* cancelled one does not.
Locked == value = 0 \/ \E c \in ToSet(waiters) : state[c] /= "expired"

Pending(i) == state[waiters[i]] = "queued"

\* _wake_up_next: the first waiter whose future is pending is handed one of
\* the `free` slots.  `without` is the client whose coroutine runs: it is not
\* pending any more.
Wake(free, without, after) ==
    \/ /\ free > 0
       /\ \E i \in DOMAIN waiters :
             /\ Pending(i) /\ \A j \in 1..(i - 1) : ~Pending(j)
             /\ state' = [state EXCEPT ![without] = after, ![waiters[i]] = "woken"]
       /\ value' = free - 1
    \/ /\ free = 0 \/ \A i \in DOMAIN waiters : ~Pending(i)
       /\ state' = [state EXCEPT ![without] = after]
       /\ value' = free

\* self._waiters.remove(fut)
Unlist(c) ==
    \E i \in DOMAIN waiters : waiters[i] = c /\ waiters' = RemoveAt(waiters, i)

-----------------------------------------------------------------------------
(***************************************************************************)
(* ConcurrencyMiddleware.__call__.                                         *)
(***************************************************************************)

\* wait_for with a timeout of 0 wraps acquire() in a task and cancels the task
\* before it has run: the fast path never takes a slot.
Arrive(c) ==
    /\ state[c] = "idle"
    /\ state' = [state EXCEPT ![c] = "probing"]
    /\ UNCHANGED <<value, waiters, waiting, active>>

Reject(c) ==
    /\ state[c] = "probing"
    /\ waiting >= QueueSize
    /\ state' = [state EXCEPT ![c] = "idle"]
    /\ UNCHANGED <<value, waiters, waiting, active>>

\* Mutant: the bound of the queue is off by one.
EnterQueuePastBound(c) ==
    /\ state[c] = "probing"
    /\ waiting <= QueueSize
    /\ Locked
    /\ state' = [state EXCEPT ![c] = "queued"]
    /\ waiters' = Append(waiters, c)
    /\ waiting' = waiting + 1
    /\ UNCHANGED <<value, active>>

\* acquire() returns without suspending, so _waiting goes up and down again
\* within the action.
EnterFree(c) ==
    /\ state[c] = "probing"
    /\ waiting < QueueSize
    /\ ~Locked
    /\ value' = value - 1
    /\ state' = [state EXCEPT ![c] = "active"]
    /\ active' = active + 1
    /\ UNCHANGED <<waiters, waiting>>

EnterQueue(c) ==
    /\ state[c] = "probing"
    /\ waiting < QueueSize
    /\ Locked
    /\ state' = [state EXCEPT ![c] = "queued"]
    /\ waiters' = Append(waiters, c)
    /\ waiting' = waiting + 1
    /\ UNCHANGED <<value, active>>

\* The woken coroutine runs: acquire() passes a spare slot on and returns.
Resume(c) ==
    /\ state[c] = "woken"
    /\ Unlist(c)
    /\ Wake(value, c, "active")
    /\ waiting' = waiting - 1
    /\ active' = active + 1

\* Mutant: the queued acquire() is awaited without a timeout.
QueueTimeoutUnarmed(c) == FALSE

\* The queue timeout cancels the pending future; the coroutine sees it later.
QueueTimeout(c) ==
    /\ state[c] = "queued"
    /\ state' = [state EXCEPT ![c] = "expired"]
    /\ UNCHANGED <<value, waiters, waiting, active>>

\* Mutant: the early return of the queue timeout leaves _waiting as it was.
LeaveCounted(c) ==
    /\ state[c] = "expired"
    /\ state' = [state EXCEPT ![c] = "idle"]
    /\ Unlist(c)
    /\ UNCHANGED <<value, waiting, active>>

\* Mutant: a request that timed out in the queue gives back a slot.
LeaveReleasing(c) ==
    /\ state[c] = "expired"
    /\ Unlist(c)
    /\ Wake(value + 1, c, "idle")
    /\ waiting' = waiting - 1
    /\ UNCHANGED active

Leave(c) ==
    /\ state[c] = "expired"
    /\ state' = [state EXCEPT ![c] = "idle"]
    /\ Unlist(c)
    /\ waiting' = waiting - 1
    /\ UNCHANGED <<value, active>>

\* Mutant: the slot of a request that timed out after it was woken is lost.
LeaveWokenWithSlot(c) ==
    /\ state[c] = "woken"
    /\ Unlist(c)
    /\ state' = [state EXCEPT ![c] = "idle"]
    /\ waiting' = waiting - 1
    /\ UNCHANGED <<value, active>>

\* The timeout fires after the wake-up and before the coroutine runs: acquire()
\* gives the slot back and wakes the next waiter.
LeaveWoken(c) ==
    /\ state[c] = "woken"
    /\ Unlist(c)
    /\ Wake(value + 1, c, "idle")
    /\ waiting' = waiting - 1
    /\ UNCHANGED active

\* Mutant: release() wakes nobody.
FinishQuietly(c) ==
    /\ state[c] = "active"
    /\ state' = [state EXCEPT ![c] = "idle"]
    /\ value' = value + 1
    /\ active' = active - 1
    /\ UNCHANGED <<waiters, waiting>>

\* The application returns, raises, or is cancelled by the request timeout:
\* the `finally` releases the slot in every case.
Finish(c) ==
    /\ state[c] = "active"
    /\ Wake(value + 1, c, "idle")
    /\ active' = active - 1
    /\ UNCHANGED <<waiters, waiting>>

Next == \E c \in Clients :
    \/ Arrive(c)
    \/ Reject(c)
    \/ EnterFree(c)
    \/ EnterQueue(c)
    \/ Resume(c)
    \/ QueueTimeout(c)
    \/ Leave(c)
    \/ LeaveWoken(c)
    \/ Finish(c)

\* The event loop runs every ready coroutine and fires every timer.  Nothing
\* obliges the application to finish.
Fairness == \A c \in Clients :
    /\ WF_vars(Reject(c) \/ EnterFree(c) \/ EnterQueue(c))
    /\ WF_vars(QueueTimeout(c))
    /\ WF_vars(Resume(c) \/ Leave(c) \/ LeaveWoken(c))

Spec == Init /\ [][Next]_vars /\ Fairness

-----------------------------------------------------------------------------

\* Every slot is free, held by a running request, or on its way to a woken
\* one: no release, timeout or wake-up in any order loses or forges a slot.
SlotsConserved == value + Cardinality(In("active")) + Cardinality(In("woken")) = Limit

\* The two counters of the middleware say how many requests run and wait.
CountersAgree ==
    /\ active = Cardinality(In("active"))
    /\ waiting = Cardinality(In("queued")) + Cardinality(In("woken"))
                    + Cardinality(In("expired"))

\* No wake-up is lost: while a request waits in the queue every free slot has a
\* woken coroutine behind it, which passes the slot on when it runs.
NoIdleSlot == In("queued") /= {} /\ value > 0 => In("woken") /= {}

\* A newcomer starts only when nobody is waiting, and a woken request passes no
\* request that queued before it and has not been handed a slot.
NoOvertaking ==
    [][\A c \in Clients : state[c] /= "active" /\ state'[c] = "active" =>
          \A d \in (In("queued") \union In("woken")) \ {c} :
              /\ state[c] = "woken"
              /\ state'[d] = "queued" =>
                    SelectInSeq(waiters, LAMBDA e : e = c)
                       < SelectInSeq(waiters, LAMBDA e : e = d)]_vars

\* Every request is admitted or answered with a 503, even if no running request
\* ever finishes.
Answered == \A c \in Clients :
    state[c] /= "idle" ~> state[c] \in {"idle", "active"}

\* A request is turned away only when no slot is free.
RefusedOnlyWhenFull ==
    [][\A c \in Clients : state[c] = "probing" /\ state'[c] = "idle" => value = 0]_vars

-----------------------------------------------------------------------------

\* The gate is an admission gate in the sense of Admission: probing, queued,
\* woken and expired are stages of waiting.
Stage(s) ==
    CASE s = "idle" -> "away" [] s = "active" -> "served" [] OTHER -> "waiting"

Status == [c \in Clients |-> Stage(state[c])]

Abstract == INSTANCE Admission WITH status <- Status

\* The middleware over the semaphore implements the abstract gate, its promise
\* that everybody who asks gets an answer included.
ImplementsAdmission == Abstract!Spec

=============================================================================
