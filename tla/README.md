# Gatewayz backend: TLA+ models and proofs

Gatewayz is a FastAPI gateway in front of many LLM providers. A request is
admitted, routed to a provider, failed over to another one when that fails, and
charged to the user's account, while payments and subscriptions change the same
account from the other side. This directory holds TLA+ models of the parts where
the order of events decides whether the result is right, the TLC runs that check
them on small instances, and TLAPS proofs for every instance. Paths below are
relative to the repository; `users.py` is `src/db/users.py`, and so on.

## 1. Inventory

| Component | State it keeps | Operations | Talks to |
|---|---|---|---|
| User balance (`users`, `credit_transactions` tables; `atomic_deduct_credits`, `atomic_add_credits`) | `subscription_allowance`, `purchased_credits`, ledger rows and their `request_id` | two stored procedures, single-row reads, updates, inserts | everything below that moves money |
| Credit deduction (`db/users.py`, `handlers/chat_handler.py`) | what one attempt read; the ledger | read, daily limit, procedure, legacy update, log, rollback | balance, provider loop |
| Provider loop (`routes/chat_dispatch.py`, `services/provider_failover.py`) | the index in the failover chain | try, charge, fail over, reject | providers, handler, breaker |
| Chat handler and SSE adapter (`handlers/chat_handler.py`, `adapters/chat/openai.py`) | a stream in progress | relay, charge at the end, give up | provider loop |
| Credit grants (`add_credits_to_user`) | purchased credits, keys | procedure with key, legacy read-modify-write | webhooks |
| Subscription allowance (`reset_` and `forfeit_subscription_allowance`) | the allowance | renewal, plan change, cancellation | webhooks |
| Daily usage limiter | none: sums the ledger | check | deduction |
| Concurrency gate (`middleware/concurrency_middleware.py`) | a semaphore, `_waiting`, `_active_count` | admit, queue, time out, release | every request of the process |
| Circuit breaker (`services/circuit_breaker.py`) | a copy per process, a copy in Redis | attempt, record, reset, read | provider clients, other processes |
| Stripe webhooks and subscription endpoints (`services/billing/payments.py`, `db/webhook_events.py`, `db/payments.py`) | claims of events, payment status, the user's status and tier, API keys, plan rows | claim, handle, release; poll; change, cancel | grants, allowance, Stripe |
| Rate limiting (`services/rate_limiting.py`, `routes/chat.py`) | windows and concurrency slots of a key, a result cache | check, count, release | the chat route and its stream |
| Catalog sync and caches (`services/model_catalog_sync.py`, `services/cache/*`) | the catalog, caches, a marker in Redis | sync, cache, suppress | routing |
| Health monitors, smart router, pricing, trials, API keys, ledger reconciliation, routes, metrics | tables, scores | read, write, report | the above |

What is hard in them:

* **One account, many writers.** Charges of concurrent requests, grants of
  redelivered payments and allowance changes interleave between any two database
  calls. Each flow reads the row, decides, and writes two or three calls later.
* **Two paths for each money movement.** A stored procedure, and a legacy path of
  separate calls taken on *any* failure of the procedure, a lost reply included:
  the procedure may commit while the legacy path runs or after it.
* **The charge is part of the attempt.** An error while charging makes the request
  fail over, be served again and be charged again. The error of a failed rollback
  ends in "Do NOT retry", and the loop, which sees a 502, retries.
* **Queues with timeouts.** The gate's queue timeout can meet the wake-up of the same
  request; four exits of one coroutine maintain two counters.
* **Events in any order, any number of times.** Stripe repeats an event that was not
  acknowledged, delivers two events of one cause in either order, and the success page polls
  for the same payment. A session and its intent grant the same money under different keys. A
  handler is five to ten statements without a transaction, any of which may fail, and the
  claim of its event outlives the process.
* **Slots taken in one function and given back in five.** The rate limiter counts a slot, and
  the route, its error handlers and the generator of the stream each give it back.
* **Copies of one state.** The breaker's copies are loaded before a call and saved
  after it, and calls admitted before a transition report after it.

What makes each component correct:

* account: never negative; nothing lost between writers; a request pays once for
  its answer and not at all without one; a payment is granted once; taken
  allowance stays taken; the ledger explains the balance;
* provider loop: it ends; failures before the first byte fail over;
* gate: slots and counters are conserved, no lost wake-up, first come first
  served, every request answered;
* breaker: open means no calls until the timeout, recovery is earned, open ends;
* webhooks: an event is in one pair of hands; what is marked as handled or completed was
  granted, and once, under both keys together; in whatever order they come, events and
  endpoints leave the keys, the plans and the allowance in agreement with the user;
* rate limit slots: acquired and released in pairs, so that the limit holds and no key is
  locked out;
* catalog guard (not modelled): nothing stale cached while a sync runs.

`PROJECT.json` lists every component, every hazard at its line, the map from
definitions to source lines, and the mutants that show each property can fail.

## 2. Modules

    UserBalance        the row, the ledger, each statement and procedure: one operator each
      CreditDeduction  a request through provider loop and deduct_credits
      CreditGrant      add_credits_to_user
      AllowanceJobs    reset_/forfeit_subscription_allowance
        Billing        the three above on one row: Init, Next, properties
          Account      what they promise together: one atomic step each
          MCBilling    small instances
          BillingProofs
    WebhookCalls       deliveries, polls and endpoint calls; claims, errors, deaths
      CheckoutHandlers      payments, over CreditGrant
      SubscriptionHandlers  subscriptions, over AllowanceJobs
        StripeWebhook  both on one account: Init, Next, properties
          MCStripe     which calls are made together
          StripeClaims, StripePayments, StripeAccounts   theorems
    ConcurrencyGate    the admission gate over asyncio.Semaphore
      Admission        what it promises: an abstract gate
      MCConcurrencyGate
      ConcurrencyGateProofs   theorems
    CircuitBreaker     copies per process and in Redis
      MCCircuitBreaker
      CircuitBreakerProofs
    RateLimitSlots     the concurrency counter of a key and who gives slots back
      MCRateLimitSlots
      RateLimitSlotsProofs
    AccountTypes       lemmas on types that BillingProofs and StripeClaims share

**UserBalance.** `allowance` and `purchased` are the two columns; `keys` the values of
`credit_transactions.request_id`; `usedToday` what the daily limiter sums;
`rpcDeployed` whether the procedures exist (the code supports both, a run checks
both). `faults` counts storage calls that failed or lost their reply, up to
`MaxFaults`. `credited`, `debited`, `overwritten` and `plan` are history. Money is
an integer; the code's floats and its rounding to six digits are not modelled.

**CreditDeduction.** `pc` follows a request: `provider` (the attempt), `streaming`,
`read` (the SELECT of `deduct_credits`), `limit` (the daily limit), `rpc`, `legacy`,
`log`, `rollback`, and the ends `ok`, `failed`, `dropped`. `snap` is what the attempt
read and `attempt` its place in the chain. An unanswered procedure call joins
`orphans` and may commit at any later time. `cause`, `debits`, `unacked`, `rows`
and `escaped` are history. Each action is one database call, from the guard to the
jump; `AttemptFails` is the `except` of the provider loop and decides between the
next provider and the end.

**CreditGrant, AllowanceJobs.** The same style for `add_credits_to_user` and the two
allowance functions. A delivery is one call for a payment, the `Key` is the payment's
idempotency key, and several deliveries may share one. A job with tier 0 is a forfeiture.

**Billing** interleaves them. `Charge(r)`, `Grant(d)` and `ChangeAllowance(j)` are steps
of one actor; `LateCharge` and `LateGrant` are orphaned procedure calls.

**Account** is the abstract account: `Pay`, `Credit` and `Renew` are single steps, a request pays
at most once and never more than there is, a payment is credited once, and a request ends
answered exactly when it has paid. Billing maps to it by `Paid`, `Outcome` and `Granted`
(`ImplementsAccount`). `Doubt` ends the promise: from the first storage call that fails, or the
first grant on the legacy path, Account allows anything. Charges on the legacy path are within it,
so the refinement covers a database without the procedures as long as nothing is granted there.

**WebhookCalls.** `cpc` follows a call from label to label, one per statement; `claim` is what
`claim_event` told it and `claims` the rows of `stripe_webhook_events`. `Raise` is the handler of
`handle_webhook`, which gives an event back only if the claim was real (`unavailable` is the
claim that could not be read and is handled without one). `Crash` ends a process between any two
statements. `outages` counts statements of these handlers that failed or lost their reply. The
webhook route and the endpoints are coroutines that call synchronous code, so within one process two
of them never interleave: they do when a second replica serves, as during a redeployment. `member`
is the user's status, tier and link to a subscription, `keyRow` the copy of both in the API keys.

**CheckoutHandlers** has `checkout.session.completed` and the poll of the success page, which share
one path, and the success and failure of an intent. A payment has a `SessionKey` and an `IntentKey`;
`intentSaved` says whether the row of the session already carries the id of the intent, by which
`_handle_payment_succeeded` finds it; `IntentFirst` are payments made without a session. Grants are
CreditGrant's, run by the call itself. `firstPurchase` is the bonus flag, `seen` the
status and tier a call read a statement earlier. `reopened` and `rushed` are history: payments set to failed after they were
completed, and two first purchases decided at once.

**SubscriptionHandlers** has the five subscription and invoice events and the endpoints that
upgrade, downgrade and cancel. `To[c]` is what Stripe says of the subscription when the call is
made, `Cause[c]` the endpoint call an event follows from; an event is sent only after its cause has
changed Stripe. `activePlans` counts active rows of `user_plans`, `remaining` is what a plan change
keeps of the old allowance, `spared` the events that leave the allowance to the endpoint because
they find the subscription stamped (`Stamped`: within two minutes of a change to the same tier; whether
the two minutes are over is a choice). The allowance is set through AllowanceJobs.
`SubscriptionAssumption` says of the calls what the code fixes: a creation writes the status active
(`payments.py:1883`) and a change goes on to plans and keys whatever the status is (`:2701-2720`), so
both have `To` active; a job's tier is that of its call, 0 for a cancellation; and an invoice that
follows from an endpoint call follows from a change and carries its tier, since Stripe bills no other
endpoint's call by proration (`:2310`).

**StripeWebhook** interleaves the two on the account of UserBalance. `mixed` is history: two calls
were between their first and last write to the account at once. The code has no lock there, so
what holds without it is stated without it.

**ConcurrencyGate.** An action is what the event loop runs of one coroutine between two
awaits. `value` and `waiters` are the semaphore of Python 3.12 (`runtime.txt`), its
`locked()`, `_wake_up_next()` and `acquire()` modelled from how the middleware uses them;
`waiting` and `active` are the counters. `probing` is the await of
`wait_for(acquire(), timeout=0)`, which never acquires; `woken` is a waiter that has
been handed a slot and has not run yet, the state all the hazards are about. `Admission` is the
abstract gate: away, waiting, served. The gate maps to it by `Status`, where a woken request still
waits, and implements its liveness too (`ImplementsAdmission`).

**CircuitBreaker.** The body of each `with self._lock` is one action. `mem[w]` is a
process's copy, `redis` the shared one, `inFlight` the calls between admission and record.
`age` is the time since `opened_at` up to `Timeout`; counts saturate at `MaxCount`, above
every threshold. Whether the failure rate trips is a choice of the action. The five Redis
keys are read as one. `consecutive_opens`, which nothing reads, is left out.

**RateLimitSlots.** `slots` is `concurrent_requests[api_key]`, `cached` whether `_result_cache`
holds a fresh `allowed`, `owner` what the lookups may say of the key's user (an administrator, or a
suspect address with smaller limits; a failed lookup makes the key ordinary). `rpc` follows a
request through the route: `lookup`, `run`, then a stream (`unstarted`, `streaming`) or the last
check of a plain answer (`final`). Check and count have no await between them and are one action.
`taken`, `releases`, `leaked` and `hits` are history. Whether the burst and window limits refuse is a
choice.

## 3. Runs

| Run | Question | Instance | Result |
|---|---|---|---|
| BillingCharges | is the account right under concurrent charges, a forfeiture and faults, and does it implement Account? | a plain (cost 4) and a streamed (cost 2) request, allowance 3, purchased 2, limit 6, chain of 2, 3 faults | holds, 183,176 states |
| BillingGrants | the same when a payment is delivered twice beside a charge and a plan change | 1 request, 2 deliveries of one payment, 1 plan change, 2 faults | holds, 1,254,296 states |
| BillingLostReply | can a retry double-charge? | 1 request, 1 fault | **yes** |
| BillingStaleSplit | is the allowance always spent first? | 1 request, 1 plan change, no fault | **no** |
| BillingStreamFailover | do streams fail over before their first chunk? | 1 plain, 1 streamed, chain of 2 | **no** |
| StripeWebhook | do payments and subscriptions come out right, whatever is repeated, reordered, lost or killed? | 19 groups of 2 or 3 of 24 calls, 1 outage, 1 lost reply of a grant, 1 death | holds, 1,051,874 states |
| ConcurrencyGate | are slots, counters, order and answers right, and does it implement Admission? | 5 clients, 2 slots, queue of 2 | holds, 3,152 states |
| ConcurrencyGateNoQueue | is a request refused only when no slot is free? | 1 client, 2 slots, queue of 0 | **no** |
| CircuitBreaker | does one process keep its circuit right? | 3 calls in flight, thresholds 3/2/2, timeout 2 ticks, 1 Redis fault | holds, 4,086 states |
| CircuitBreakerTwoProcesses | do two processes? | 2 processes, 1 call each, Redis always answers | **no** |
| RateLimitSlots | are slots given back, once, and does the limit hold without the cache? | 2 plain and 2 streamed requests, limit 2 (1 for a suspect address) | holds, 306,694 states |
| RateLimitCached | does the limit hold with the cache? | the same | **no** |

Why the bounds suffice. In BillingCharges the two requests together cost more than the
account holds, and the first needs both columns, so splits, component shortages and total
shortages all occur. Three faults let one `log_credit_transaction` lose all of its three
tries, or one procedure, one log and one rollback fail in turn. A chain of two has a first
and a last provider. Five clients at the gate can be active, woken, queued and expired at
once with a newcomer beside them. Three calls in flight exceed the success threshold by one,
so that calls admitted before a transition could close a circuit if the code let them. The
three runs of Billing that find a violation need one request and at most one fault. Four requests
at a limit of two leave two that meet a full counter, and one of each kind that meets a cached
result.

A group of StripeWebhook is a set of calls that concern each other: two deliveries of one event, a
session and its intent, an event and the endpoint that caused it, a renewal beside a cancellation, two
first purchases. Each behaviour makes the calls of one group. The constraint `Troubles` bounds what
goes wrong in it: outages, lost replies and deaths together are at most 4 less the number of calls, so
two with two calls and one with three. Two suffice for a failure and the death of the delivery that
repairs it, or a guard that could not read and a lost reply of the grant after it.

The runs with `CHECK_DEADLOCK FALSE` are those of Billing, StripeWebhook and RateLimitSlots, where
every actor ends. The gate and the breaker may never stop: deadlock is checked there.

### Fairness

* Billing: weak fairness of each request, delivery and job. Each runs on an event loop or a
  thread of its own, every external call it waits for has a timeout, and the loops are
  bounded. An orphaned call is given no fairness: it may never commit.
* Gate: weak fairness of the queue check, the queue timer and the woken or expired
  coroutine: the event loop runs what is ready. None of `Arrive` and none of `Finish`, so
  `Answered` holds even if the application hangs.
* Breaker: weak fairness of the clock, of requests and of their outcomes, since providers'
  calls time out. `OpenEnds` needs requests to keep coming: the code tests an open circuit
  only when one arrives.
* Rate limit slots: weak fairness of each request, for the reasons given for Billing. None of
  `CacheExpires`: `SlotsComeBack` does not need it.
* StripeWebhook states none: Stripe gives up in the end, so no call is bound to be repeated, and its
  properties are of safety, of the states where calls are over.

### Disagreements between the code and what it says

1. *Retries never double-charge* (`docs/CONCEPTUAL_MODEL.md:355`). A lost reply of
   `atomic_deduct_credits` sends the attempt to the legacy path, whose optimistic update
   fails on the row the procedure changed; the attempt becomes a 502, the request fails over
   and is charged again. The new attempt has a new id, and no id reaches the ledger's key.
   (BillingLostReply)
2. *Allowance first* (`users.py:888`). The split is computed from the read and applied by the
   procedure later; a renewal in between leaves allowance unspent. (BillingStaleSplit)
3. *Streams fail over before the first chunk* (`chat_dispatch.py:94-96`). The SSE adapter catches
   the error first. (BillingStreamFailover)
4. *Slot available: acquire immediately* (`concurrency_middleware.py:56`). The fast path is dead;
   with a queue size of 0 everything is refused. (ConcurrencyGateNoQueue)
5. *OPEN rejects everything for the timeout* (`docs/CIRCUIT_BREAKERS.md:78-80`) and *distributed
   deployments* (`circuit_breaker.py:97`). A process's stale CLOSED replaces OPEN. `start.sh`
   starts one worker, so this needs a second replica, as during a redeployment.
   (CircuitBreakerTwoProcesses)
6. *Maximum concurrent requests*, released on every exit by whoever acquired
   (`rate_limiting.py:71`, `:196-199`). A result from the 15-second cache (`:688-696`) admits
   without counting, while the route takes it for an admission and releases a slot when it ends. Any
   number of requests run while the entry is fresh, and each takes away the slot of another.
   (RateLimitCached)

Seen while reading, without a run:

* `CIRCUIT_BREAKERS.md` says any failure reopens a half-open circuit and limits its calls, while the
  code reopens after `half_open_max_failures` and limits nothing; `reset()` of a copy that is CLOSED
  already does not save.
* The docstring of `add_credits_to_user` promises at-most-once grants, which its legacy path cannot
  keep; the auto-refund of `CONCEPTUAL_MODEL.md:357` is reached only from the anonymous stream, which
  has no user to refund.
* The webhook route answers 200 whatever the handler raised (`routes/payments.py:125-128`, `:188`), so
  the retries for which `release_event` gives the event back come only from an operator's resend.
  The model lets a released event be delivered again; when it is not, the event stays unhandled but
  not claimed, which is all `ClaimMeansHandled` says.
* `customer.subscription.updated` delivered after `deleted` makes the user active again: the handler
  compares nothing with the state it finds. `AccountAgrees` holds: the keys follow the user.
* An update that is not active writes the user's tier as basic and returns before the keys
  (`payments.py:2020-2033`), so the keys keep the plan until another event comes. A purchase sets a user
  to inactive whose status is trial or expired *or* whose tier is basic (`payments.py:1173`), and the keys
  unless the status it read is active (`:1200`): of a user who is past due on a paid tier, or active on
  basic, one is written and the other is not. `AccountAgrees` names both (`OddlySeen`); the group of an unpaid invoice, an
  upgrade and a purchase reaches the second.
* The invoice of a renewal resets the allowance to the tier Stripe has for it and does not look at the
  user's; an update that comes after the two-minute stamp of a change to its tier is still spared
  when another call has set another allowance since. `AllowanceAgrees` names both.
* `get_allowance_from_tier` answers 0 for an error, and a reset to 0 is skipped without an exception,
  so the retry the comments count on does not come.
* The event of a scheduled cancellation refills the allowance, while the comment at `payments.py:3231`
  says to keep it; the negative ledger row of a forfeited or reduced allowance counts as daily usage.
* A failure event of an earlier try that comes late sets a completed payment to failed
  (`payments.py:1571`); the history variable `reopened` exempts it from `CreditedAtMostOnce`, and
  `IntentFirst` exempts payments without a session from `CompletedSessionIsCredited`, because
  `_handle_payment_succeeded` marks before it grants and swallows the error of the grant
  (`payments.py:1535`).
* A plain request that was served and charged is still answered 429 when another has taken its slot
  between its release and the last check (`chat.py:917-943`).

## 4. Proofs

TLC checked every property and every inductive invariant below on the instances above before it was
proved. The modules prove for any sets of actors and any values of the other constants that meet the
assumptions named in the component's modules; TLC evaluates those in the runs.

### Billing (`BillingProofs`)

| Theorem | Property |
|---|---|
| TypeCorrect | `TypeOK` |
| NeverNegative | `BalanceNeverNegative` |
| Conservation | `MoneyConserved` |
| ChargedOnce | `ChargedOncePerAnswer` |
| NothingVanishes | `NoVanishingMoney` |
| PlanRespected | `AllowanceWithinPlan` |
| GrantedOnce | `GrantAtMostOnce` |
| BillingRefinesAccount | `ImplementsAccount` |

Assumptions: `BalanceAssumption`, `RequestAssumption`, `GrantAssumption` and `JobAssumption`, which
say that costs and tiers are natural, amounts positive, the chain not empty.

The inductive invariant is `IInv == TypeOK /\ FaultsExplain /\ AccountInv /\ ChargeInv /\ GrantInv`.
None of the properties is inductive alone:

* `BalanceNeverNegative` needs what lies between the read and the write: the balances in `snap` were
  non-negative, so are the parts computed from them, and an optimistic update that succeeds found
  exactly those balances (`AccountInv`);
* `ChargedOncePerAnswer` and `NoVanishingMoney` need the count of debits at *every* `pc`, not only at
  the ends: none before the debit, one at `log` and `rollback`, and rows and escapes to match
  (`ChargeInv`);
* `GrantAtMostOnce` needs that without faults a granted key is in `keys`, and that no delivery is
  on the legacy path (`GrantInv`);
* `FaultsExplain` ties legacy paths, orphans and rollbacks to a missing procedure or a fault, which is
  what lets "without faults" conclude anything.

The proof has one lemma for each actor (a request, an orphaned call, a delivery, a job) and part of the
invariant, with a case for each action under it; `RowSafe` says once what every database operator of
UserBalance does to the account, and the cases cite it. `InvStep` puts the actors together under `Next`.

The refinement needs no more than `IInv`: without doubt a request is debited exactly when it is past
its debit (`PaidOnce`), so a statement that debits is `Pay` (`DebitPays`), any other statement ends the
request or does nothing Account can see (`NoDebit`), an orphaned call does not exist, and a grant finds
its key or is `Credit`. `DoubtStays` closes the other case.

### Webhooks (`StripeClaims`, `StripePayments`, `StripeAccounts`)

| Theorem | Property |
|---|---|
| TypeCorrect | `TypeOK` |
| NeverHandledTwiceAtOnce | `OneHandlerPerEvent` |
| ClaimsAreHonest | `ClaimMeansHandled` |
| PlansAlternate | `OneActivePlan` |
| CompletedIsCredited | `CompletedSessionIsCredited` |
| FinishedIsCredited | `FinishedMeansCredited` |
| NeverCreditedTwice | `CreditedAtMostOnce` |
| BonusGrantedOnce | `BonusOnce` |
| KeysAgree | `AccountAgrees` |
| AllowancesAgree | `AllowanceAgrees` |
| SparedIsReset | `SparedMeansReset` |

Assumptions: `CallAssumption`, `CheckoutAssumption`, `SubscriptionAssumption` and those of UserBalance,
CreditGrant and AllowanceJobs: each call has a kind, the calls that grant or reset are the deliveries
and jobs, the keys are those of sessions, intents and bonuses.

* `ClaimInv` adds `Routes` (a call is only at labels of its own handler) and `ClaimsHeld` (only a
  delivery that got past its start has a claim, an owner's event is in `claims`, and a call that gives
  its event back owned it). `FrameKeeps` treats claim, release and death; `Moved` says what every other
  statement leaves alone, and a lemma for each group of handlers shows its statements are of that kind.
* `PlansInTurn`: unless `mixed`, one call at a time is between its first and last write, and at
  `insert` no plan is active, through failures between deactivation and insert.
* `CreditInv`: every trace of a payment, a ledger key, a status, a saved intent, a label after the
  grant, stands for a grant that happened. `OnceInv`: with the procedure answering a key is granted
  exactly when it is in the ledger; a payment whose intent is saved is completed, so the handler of
  the intent never gets as far as a grant of its own, and the intent's key stays out of the ledger.
  Excused are the payments of `IntentFirst`, which have that one key, and those whose completion
  was undone.
* `BonusInv`: unless purchases `rushed`, one call at a time is between the decision on a bonus and the
  flag, the flag is down while it is there, and a bonus granted while the flag is down is its own.
  `BonusOnce` speaks of grants alone and says nothing of a second call about to grant.
* `KeysInv`: the user and the keys agree except between the two writes of one call. While a call is
  there the keys are a statement behind, so `KeysFollow` says what it has written (`Written`), or what
  it read before it converts (`Converted`); since the account is not `mixed` there is one such call.
* `PlacesInv`: at which labels each kind of call may be; the two that follow need it to know what a
  call at `allowance` still has to write.
* `SpareInv`: a spared delivery stands for a change to its tier that has begun, no call that gives an
  allowance has failed, and a change that has given one (`HasSet`) is the last that did, unless another
  call gave another allowance. `SparedMeansReset` looks at the end only; the invariant must hold
  while the change is between stamp and reset, which is the hazard.
* `AllowanceInv`: the allowance is settled (`Settled`) or one call is busy settling it (`Busy`), and what
  that call has written so far is what it was told (`Underway`).

### Gate (`ConcurrencyGateProofs`)

| Theorem | Property |
|---|---|
| TypeCorrect | `TypeOK` |
| SlotsAlwaysConserved | `SlotsConserved` |
| CountersAlwaysAgree | `CountersAgree` |
| GateRefinesAdmission | the safety part of `ImplementsAdmission` |
| NoWakeupLost | `NoIdleSlot` |
| NobodyOvertaken | `NoOvertaking` |

Assumption: `GateAssumption` (a finite set of clients, a positive limit). The three invariants are
inductive together, with the cardinality theorems; the refinement follows from them, since a woken
client's slot is one of the `Limit`. `NoIdleSlot` needs what the semaphore's list holds: exactly the
clients that wait in it, once each (`ListInv`), so that whoever releases or gives up finds the next
one there. `NoOvertaking` needs the order of that list too: no woken waiter stands behind a pending one
(`Ordered`), since a wake-up takes the first pending waiter and newcomers go to the end. `PlaceOf` and
`UnlistMovesUp` are the lemmas about positions in it.

### Rate limit slots (`RateLimitSlotsProofs`)

`TypeCorrect`, `NeverTooHigh` (`NeverOvercounted`), `NobodyReleasesTwice` (`ReleasedOnce`) and
`LimitKept` (`LimitHoldsUncached`), from `RateLimitAssumption`. The invariant adds `Holding` (a counted
slot belongs to a request in the route, and a request has released only when it is at the end of it)
and `Counting` (as long as nobody came in from the cache or as an administrator, every request in
progress is counted).

### Circuit breaker (`CircuitBreakerProofs`)

`TypeCorrect` for any number of processes; `OpenCircuitHolds` (`OpenHolds`) and `RecoveryIsEarned`
(`RecoveryEarned`) for one process, which is how `start.sh` deploys it and what
CircuitBreakerTwoProcesses shows to be needed. `OneInv` says that as long as Redis answers, a process
with a call in flight agrees with Redis on the state, and on everything when it is not CLOSED
(`OneCopy`), and that a half-open copy counts no success from before its probe (`Counts`).

### Only model-checked

Liveness: `RequestsSettle`, `Answered`, `OpenEnds`, `SlotsComeBack` and the liveness part of
`ImplementsAdmission`: the provers have neither fairness over quantified actions nor ENABLED. Every
invariant and action property of a passing run has a theorem.

## 5. Not modelled, and why

* The map covers a few percent of the repository's Python. Most of the rest is clients of some
  thirty providers, catalog data and its transformations, HTTP routes, administration, metrics and
  scores: input, output and formatting around tables, without states whose order matters.
* Admin users and a user who is not found return before any change. Trials, which are not charged,
  and anonymous requests, which nothing charges, are left out of CreditDeduction.
* `deduct_credits` looks an idempotency key up only when it is passed one; the chat path never does.
* A legacy UPDATE that commits after its caller saw a timeout *and* went on: a lost reply is modelled as
  commit-then-error, at the moment of the call.
* `keys` holds only the keys of grants. The rollover of the day resets the daily usage.
* Of the webhooks: the creation of sessions, intents and refunds, which change Stripe and insert a
  pending row; `is_trial` and `trial_converted`, expiry dates, `get_current_subscription`; more than one
  user, since no handler touches two. Subscribers start with a spent allowance.
* Of rate limiting: the burst and window counters, the fallback and the anonymous limiter, which hold
  no slots.
* Catalog sync and its guard. Two hazards are listed: the marker of a running sync has no owner, so
  overlapping syncs clear each other's, and a catalog read during a sync can be written after it.
* The user and auth caches, which are dropped after a charge and otherwise age; the utility breaker, a
  simpler variant of the one modelled; request priorities, on which nothing waits.
* Floating point, rounding, formatting, metrics, logging.
* Pricing and router scores (pure functions on floats), provider clients (external), routes and
  administration (I/O), the shadow ledger (no decision reads it).

## 6. What a next step would add

1. **CatalogSyncGuard**: overlapping syncs, expiry of the marker, cache writes beside them.
2. **ProviderFailover** with CircuitBreaker: the chain filtered by breakers, every provider tried at most
   once.
3. A bound on how far concurrent requests overshoot the daily limit, which needs the history of each
   check.
4. Proofs that the violations of section 3 are the only ones: the debits of a request bounded by lost
   replies, the calls through an open circuit by stale copies.
