---------------------------- MODULE WebhookCalls ----------------------------
(***************************************************************************)
(* The calls through which Stripe and its customer change one account: the *)
(* deliveries of webhook events, each framed by a row of                   *)
(* `stripe_webhook_events` (claim_event, release_event), the polls of the  *)
(* success page, and the subscription endpoints.  A call runs in a process *)
(* of its own, as it does when a second replica serves; each action is one *)
(* statement.  The handlers are in the modules that extend this one.       *)
(***************************************************************************)
EXTENDS Integers, FiniteSets

CONSTANTS
    Calls,        \* every call considered
    Kind,         \* what each call is
    Event,        \* the id of the event it delivers
    Cause,        \* the endpoint call that made Stripe send it, or itself
    Scenarios,    \* the calls that are made, and the user they find
    MaxOutages,   \* bound on statements of these calls that fail
    MaxCrashes    \* bound on calls whose process dies

WebhookKinds == {"checkout", "succeeded", "failed", "created", "updated",
                 "deleted", "invoicePaid", "invoiceFailed"}
EndpointKinds == {"change", "cancelNow", "cancelLater"}

Statuses == {"trial", "inactive", "active", "past_due", "canceled"}
Tiers == {"basic", "pro", "max"}
Members == [status : Statuses, tier : Tiers, linked : BOOLEAN]

ASSUME CallAssumption ==
    /\ IsFiniteSet(Calls)
    /\ Kind \in [Calls -> WebhookKinds \union EndpointKinds \union {"poll"}]
    /\ DOMAIN Event = Calls
    /\ Cause \in [Calls -> Calls]
    /\ Scenarios \subseteq [calls : SUBSET Calls, member : Members]
    /\ MaxOutages \in Nat
    /\ MaxCrashes \in Nat

VARIABLES
    cpc,       \* where each call is
    claim,     \* what claim_event answered it
    claims,    \* events that have a row in stripe_webhook_events
    outages,   \* statements that have failed or lost their reply
    member,    \* users.subscription_status, tier, and whether
               \* stripe_subscription_id is set
    keyRow     \* subscription_status and subscription_plan of api_keys_new

accountVars == <<member, keyRow>>
callVars == <<cpc, claim, claims, outages, accountVars>>

\* The ends of a call: not made, refused by its checks, handled, skipped as a
\* duplicate, ended by an exception, cut off by the death of its process.
Over == {"never", "refused", "done", "skipped", "failed", "crashed"}

Running(c) == cpc[c] \notin Over \union {"start"}

Delivers(c) == Kind[c] \in WebhookKinds

CallInit(s) ==
    /\ cpc = [c \in Calls |-> IF c \in s.calls THEN "start" ELSE "never"]
    /\ claim = [c \in Calls |-> "none"]
    /\ claims = {}
    /\ outages = 0
    /\ member = s.member
    /\ keyRow = [status |-> s.member.status, plan |-> s.member.tier]

-----------------------------------------------------------------------------

Goto(c, label) == cpc' = [cpc EXCEPT ![c] = label]

Up == outages' = outages

Down == outages < MaxOutages /\ outages' = outages + 1

\* Mutant: a handler that raises keeps the claim of its event.
RaiseUnreleased(c) == Goto(c, "failed")

\* A handler raises: a delivery that owns its event goes on to release it.
Raise(c) == Goto(c, IF claim[c] = "claimed" THEN "release" ELSE "failed")

\* An event is sent once the endpoint that causes it has changed Stripe.
Sent(c) == Cause[c] = c \/ cpc[Cause[c]] \notin {"never", "start", "refused"}

\* Mutant: the table is read, not the unique index hit, so two may own it.
ClaimChecked(c) ==
    /\ cpc[c] = "start" /\ Delivers(c) /\ Sent(c)
    /\ Up
    /\ claims' = claims \union {Event[c]}
    /\ claim' = [claim EXCEPT ![c] = "claimed"]
    /\ Goto(c, "find")
    /\ UNCHANGED accountVars

\* claim_event: the unique index picks one delivery.  An insert whose reply is
\* lost is run again and finds its own row, or leaves the table unavailable,
\* and then the handler runs without a claim.
ClaimEvent(c) ==
    /\ cpc[c] = "start" /\ Delivers(c) /\ Sent(c)
    /\ \/ /\ Event[c] \notin claims /\ Up
          /\ claims' = claims \union {Event[c]}
          /\ claim' = [claim EXCEPT ![c] = "claimed"]
          /\ Goto(c, "find")
       \/ /\ (Event[c] \in claims /\ Up) \/ Down
          /\ claims' = claims \union {Event[c]}
          /\ UNCHANGED claim
          /\ Goto(c, "skipped")
       \/ /\ Down
          /\ claims' \in {claims, claims \union {Event[c]}}
          /\ claim' = [claim EXCEPT ![c] = "unavailable"]
          /\ Goto(c, "find")
    /\ UNCHANGED accountVars

\* release_event swallows its own failure.
ReleaseEvent(c) ==
    /\ cpc[c] = "release"
    /\ \/ (Up \/ Down) /\ claims' = claims \ {Event[c]}
       \/ Down /\ UNCHANGED claims
    /\ Goto(c, "failed")
    /\ UNCHANGED <<claim, accountVars>>

\* The process dies; nothing of the handler's clean-up runs.
Crash(c) ==
    /\ Running(c)
    /\ Cardinality({d \in Calls : cpc[d] = "crashed"}) < MaxCrashes
    /\ Goto(c, "crashed")
    /\ UNCHANGED <<claim, claims, outages, accountVars>>

FrameStep(c) == ClaimEvent(c) \/ ReleaseEvent(c) \/ Crash(c)

=============================================================================
