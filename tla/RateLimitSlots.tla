--------------------------- MODULE RateLimitSlots ---------------------------
(***************************************************************************)
(* The concurrency limit of one API key: the counter and the result cache  *)
(* of services/rate_limiting.py, and the chat route and its stream, which  *)
(* have to give back what the check of the key took.  An action is what    *)
(* the event loop runs of one request between two awaits; check and        *)
(* increment have none between them.                                       *)
(***************************************************************************)
EXTENDS Integers, FiniteSets

CONSTANTS
    Requests,   \* requests made with the key
    Streaming,  \* those that ask for a stream
    Limit,      \* RateLimitConfig.concurrency_limit
    SevereLimit \* that of the configurations for suspect addresses

ASSUME RateLimitAssumption ==
    /\ IsFiniteSet(Requests)
    /\ Streaming \subseteq Requests
    /\ Limit \in Nat \ {0}
    /\ SevereLimit \in 0..Limit

VARIABLES
    owner,     \* what the lookups say of the key's user
    rpc,       \* where each request is
    slots,     \* concurrent_requests[api_key]
    cached,    \* whether _result_cache holds a fresh `allowed` of the key
    taken,     \* history: requests whose slot was counted, until released
    releases,  \* history: times each request has released
    leaked,    \* history: counted slots nobody will release
    hits       \* history: requests admitted from the cache

vars == <<owner, rpc, slots, cached, taken, releases, leaked, hits>>

Ended == {"refused", "failed", "answered", "late", "gone"}
Places == {"new", "lookup", "run", "unstarted", "streaming", "final"} \union Ended

TypeOK ==
    /\ owner \in {"user", "suspect", "admin"}
    /\ rpc \in [Requests -> Places]
    /\ slots \in 0..Limit
    /\ cached \in BOOLEAN
    /\ taken \subseteq Requests
    /\ releases \in [Requests -> Nat]
    /\ leaked \in Nat
    /\ hits \subseteq Requests

Init ==
    /\ owner \in {"user", "suspect", "admin"}
    /\ rpc = [r \in Requests |-> "new"]
    /\ slots = 0
    /\ cached = FALSE
    /\ taken = {}
    /\ releases = [r \in Requests |-> 0]
    /\ leaked = 0
    /\ hits = {}

-----------------------------------------------------------------------------

Goto(r, place) == rpc' = [rpc EXCEPT ![r] = place]

\* release_concurrency: whoever calls it, one slot less, down to none.
Release(r) ==
    /\ slots' = IF slots > 0 THEN slots - 1 ELSE 0
    /\ taken' = taken \ {r}
    /\ releases' = [releases EXCEPT ![r] = @ + 1]
    /\ UNCHANGED <<owner, cached, leaked, hits>>

NoSlotChange == UNCHANGED <<owner, slots, taken, releases, leaked>>

\* A cached result admits before anything is looked up, and counts nothing.
CacheAdmits(r) ==
    /\ rpc[r] = "new" /\ cached
    /\ Goto(r, "run")
    /\ hits' = hits \union {r}
    /\ NoSlotChange /\ UNCHANGED cached

\* The user, the admin tier and the limits of the key are awaited.
LooksUp(r) ==
    /\ rpc[r] = "new" /\ ~cached
    /\ Goto(r, "lookup")
    /\ NoSlotChange /\ UNCHANGED <<cached, hits>>

CacheExpires ==
    /\ cached
    /\ cached' = FALSE
    /\ NoSlotChange /\ UNCHANGED <<rpc, hits>>

\* What the lookups answer; a failed one makes the key an ordinary one.
Seen == {owner, "user"}

LimitOf(seen) == IF seen = "suspect" THEN SevereLimit ELSE Limit

AdminPasses(r) ==
    /\ rpc[r] = "lookup" /\ "admin" \in Seen
    /\ Goto(r, "run")
    /\ NoSlotChange /\ UNCHANGED <<cached, hits>>

\* Mutant: the comparison with the limit is off by one.
CountedPastLimit(r) ==
    /\ rpc[r] = "lookup"
    /\ \E seen \in Seen \ {"admin"} :
          slots <= LimitOf(seen) /\ cached' = (cached \/ seen = "user")
    /\ Goto(r, "run")
    /\ slots' = slots + 1
    /\ taken' = taken \union {r}
    /\ UNCHANGED <<owner, releases, leaked, hits>>

\* The counter is compared and counted up at once; only the result of the
\* ordinary limits is cached.
Counted(r) ==
    /\ rpc[r] = "lookup"
    /\ \E seen \in Seen \ {"admin"} :
          slots < LimitOf(seen) /\ cached' = (cached \/ seen = "user")
    /\ Goto(r, "run")
    /\ slots' = slots + 1
    /\ taken' = taken \union {r}
    /\ UNCHANGED <<owner, releases, leaked, hits>>

\* Mutant: the slot is counted before the burst and the window limits refuse.
RefusedCounted(r) ==
    /\ rpc[r] = "lookup"
    /\ Goto(r, "refused")
    /\ slots' = IF slots < Limit THEN slots + 1 ELSE slots
    /\ UNCHANGED <<owner, cached, taken, releases, leaked, hits>>

\* The concurrency limit refuses when it is reached, the burst and the window
\* limits whenever they are.
Refused(r) ==
    /\ rpc[r] = "lookup"
    /\ Goto(r, "refused")
    /\ NoSlotChange /\ UNCHANGED <<cached, hits>>

\* Mutant: an error of the route keeps the slot.
FailsHolding(r) ==
    /\ rpc[r] = "run"
    /\ Goto(r, "failed")
    /\ NoSlotChange /\ UNCHANGED <<cached, hits>>

\* The handlers of HTTPException and Exception release a slot that is held.
Fails(r) ==
    /\ rpc[r] = "run"
    /\ Goto(r, "failed")
    /\ Release(r)

\* The route has returned a response whose generator nobody has started.
ReturnsStream(r) ==
    /\ rpc[r] = "run" /\ r \in Streaming
    /\ Goto(r, "unstarted")
    /\ NoSlotChange /\ UNCHANGED <<cached, hits>>

\* The client is gone by then: a `finally` that was never entered does not run.
Dropped(r) ==
    /\ rpc[r] = "unstarted"
    /\ Goto(r, "gone")
    /\ taken' = taken \ {r}
    /\ leaked' = leaked + Cardinality(taken \cap {r})
    /\ UNCHANGED <<owner, slots, cached, releases, hits>>

StreamStarts(r) ==
    /\ rpc[r] = "unstarted"
    /\ Goto(r, "streaming")
    /\ NoSlotChange /\ UNCHANGED <<cached, hits>>

\* Mutant: nothing follows a stream.
StreamEndsHolding(r) ==
    /\ rpc[r] = "streaming"
    /\ Goto(r, "answered")
    /\ NoSlotChange /\ UNCHANGED <<cached, hits>>

\* Through its end, an error or a disconnect.
StreamEnds(r) ==
    /\ rpc[r] = "streaming"
    /\ Goto(r, "answered")
    /\ Release(r)

\* The response is ready and charged; the slot goes back before the last check.
ReleasesEarly(r) ==
    /\ rpc[r] = "run" /\ r \notin Streaming
    /\ Goto(r, "final")
    /\ Release(r)

Answers(r) ==
    /\ rpc[r] = "final"
    /\ \E seen \in Seen : seen = "admin" \/ slots < LimitOf(seen)
    /\ Goto(r, "answered")
    /\ NoSlotChange /\ UNCHANGED <<cached, hits>>

\* Mutant: concurrency_slot_held is still set when the last check refuses.
AnswersLateHeld(r) ==
    /\ rpc[r] = "final"
    /\ Goto(r, "late")
    /\ Release(r)

\* The last check, which counts tokens only, refuses like the first: because
\* another request has taken the slot, or the window of tokens is full.  The
\* client is refused a response it has been charged for.
AnswersLate(r) ==
    /\ rpc[r] = "final"
    /\ Goto(r, "late")
    /\ NoSlotChange /\ UNCHANGED <<cached, hits>>

RequestStep(r) ==
    \/ CacheAdmits(r)
    \/ LooksUp(r)
    \/ AdminPasses(r)
    \/ Counted(r)
    \/ Refused(r)
    \/ Fails(r)
    \/ ReturnsStream(r)
    \/ Dropped(r)
    \/ StreamStarts(r)
    \/ StreamEnds(r)
    \/ ReleasesEarly(r)
    \/ Answers(r)
    \/ AnswersLate(r)

Next == CacheExpires \/ \E r \in Requests : RequestStep(r)

\* The event loop runs every request; the calls to the providers time out.
Fairness == \A r \in Requests : WF_vars(RequestStep(r))

Spec == Init /\ [][Next]_vars /\ Fairness

-----------------------------------------------------------------------------

InFlight == {r \in Requests : rpc[r] \in {"run", "unstarted", "streaming"}}

\* The counter never stands above what is really taken: a key is not refused
\* for slots that nobody holds, except those that dropped streams have leaked.
NeverOvercounted == slots <= Cardinality(taken) + leaked

\* No request releases twice, whatever path it leaves by, so none takes the
\* slot of another one away.
ReleasedOnce == \A r \in Requests : releases[r] <= 1

\* At most Limit requests of a key run at a time, as long as none of them was
\* admitted from the cache; an administrator has no limit.
LimitHoldsUncached ==
    hits = {} /\ owner /= "admin" => Cardinality(InFlight) <= Limit

\* In the end every slot has come back, but for those of dropped streams.
SlotsComeBack == <>[](slots <= leaked)

\* At most Limit requests of a key run at a time.
ConcurrencyLimitHolds == owner /= "admin" => Cardinality(InFlight) <= Limit

=============================================================================
