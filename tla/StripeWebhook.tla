--------------------------- MODULE StripeWebhook ---------------------------
(***************************************************************************)
(* What Stripe and its customer do to one account: deliveries of webhook   *)
(* events, repeated and in any order, polls of the success page and        *)
(* subscription endpoints, interleaved between any two statements, while   *)
(* statements fail and processes die.  Composes the handlers of one-time   *)
(* payments and of subscriptions over the account of UserBalance.          *)
(***************************************************************************)
EXTENDS CheckoutHandlers, SubscriptionHandlers

VARIABLE mixed  \* history: two calls were rewriting the account at once

vars == <<callVars, payVars, grantVars, planVars, jobVars, balanceVars, mixed>>

Init ==
    /\ \E s \in Scenarios : CallInit(s) /\ SubscriptionInit(s)
    /\ PayInit
    /\ BalanceInit
    /\ mixed = FALSE

\* Calls that are between their first write to the account and their last.
Rewrites(c) ==
    cpc[c] \in {"member", "deactivate", "insert", "keys", "lookup", "remaining",
                "allowance", "convert", "convertKeys"}

Handle(c) ==
    \/ FrameStep(c) /\ UNCHANGED <<payVars, grantVars, planVars, jobVars, balanceVars>>
    \/ PaymentStep(c) /\ UNCHANGED <<planVars, jobVars>>
    \/ SubscriptionStep(c) /\ UNCHANGED <<payVars, grantVars>>

\* The process that runs a grant or a job is the one that made the call.
Grant(d) ==
    /\ cpc[d[1]] = IF d[2] = "bonus" THEN "bonus" ELSE "granting"
    /\ GrantStep(d)
    /\ UNCHANGED <<callVars, payVars, planVars, jobVars>>

LateGrant(d) ==
    OrphanGrants(d) /\ UNCHANGED <<callVars, payVars, planVars, jobVars>>

ChangeAllowance(c) ==
    /\ cpc[c] = "allowance"
    /\ JobStep(c)
    /\ UNCHANGED <<callVars, payVars, grantVars, planVars>>

Unfinished == {c \in Calls : cpc[c] \notin Over}

Step ==
    \/ \E c \in Unfinished : Handle(c)
    \/ \E d \in Deliveries : Grant(d)
    \/ \E d \in gorphans : LateGrant(d)
    \/ \E c \in Jobs : ChangeAllowance(c)

Next ==
    /\ Step
    /\ mixed' = (mixed \/ \E c \in Calls :
                           Rewrites(c)' /\ \E d \in Calls \ {c} : Rewrites(d)')

Spec == Init /\ [][Next]_vars

-----------------------------------------------------------------------------

Labels == Over \union {"start", "release", "find", "guard", "granting", "trial",
    "convert", "convertKeys", "bonusRead", "bonus", "mark", "settle", "touch",
    "member", "deactivate", "insert", "keys", "lookup", "remaining", "allowance",
    "audit"}

TypeOK ==
    /\ cpc \in [Calls -> Labels]
    /\ claim \in [Calls -> {"none", "claimed", "unavailable"}]
    /\ claims \subseteq {Event[c] : c \in Calls}
    /\ outages \in 0..MaxOutages
    /\ member \in Members
    /\ keyRow \in [status : Statuses, plan : Tiers]
    /\ payStatus \in [Payments -> {"pending", "completed", "failed"}]
    /\ intentSaved \subseteq Payments
    /\ firstPurchase \in BOOLEAN
    /\ seen \in [Calls -> [status : Statuses \union {"none"}, tier : Tiers \union {"none"}]]
    /\ reopened \subseteq Payments
    /\ rushed \in BOOLEAN
    /\ activePlans \in Nat
    /\ remaining \in [Calls -> Int]
    /\ spared \subseteq Calls
    /\ mixed \in BOOLEAN
    /\ BalanceTypeOK
    /\ GrantTypeOK
    /\ JobTypeOK

Died == \E c \in Calls : cpc[c] = "crashed"

AtRest == \A c \in Calls : cpc[c] \in Over \union {"start"}

\* No process died and no statement failed.
Undisturbed == ~Died /\ outages = 0 /\ faults = 0

Owners == {c \in Calls : claim[c] = "claimed" /\ Running(c)}

\* Two deliveries that were both told they own one event are never handled at
\* once: the unique index of stripe_webhook_events, through any releases,
\* lost replies and deaths.
OneHandlerPerEvent ==
    \A c, d \in Owners : Event[c] = Event[d] => c = d

\* While no statement of a handler fails, an event that is marked as processed
\* has been handled, is being handled, or was in the hands of a process that
\* died: a handler that raises gives the event back for Stripe to deliver.
ClaimMeansHandled ==
    outages = 0 =>
        \A e \in claims : \E c \in Calls :
            /\ Event[c] = e /\ claim[c] = "claimed"
            /\ Running(c) \/ cpc[c] \in {"done", "crashed"}

\* A payment of a checkout session that is marked completed has been credited,
\* whatever failed and whichever process died on the way: the handler grants
\* before it marks, and the handler of the intent finds a payment only by what
\* the first one saved.
CompletedSessionIsCredited ==
    \A p \in Payments \ IntentFirst :
        payStatus[p] = "completed" =>
            SessionKey(p) \in Keys /\ grants[SessionKey(p)] >= 1

\* A delivery or a poll that ends well leaves its payment credited, though the
\* guard may have been unable to read the payment.
FinishedMeansCredited ==
    \A c \in Calls :
        Kind[c] \in {"checkout", "poll"} /\ cpc[c] = "done" =>
        grants[SessionKey(Payment[c])] >= 1

GrantsOf(key) == IF key \in Keys THEN grants[key] ELSE 0

\* One payment is credited at most once, although the session and the intent
\* grant under different keys, deliveries repeat and race the success page, and
\* statements fail: with the stored procedure answering, unless a completed
\* payment has been set to failed.
CreditedAtMostOnce ==
    rpcDeployed /\ faults = 0 =>
        \A p \in Payments \ reopened :
            GrantsOf(SessionKey(p)) + GrantsOf(IntentKey(p)) <= 1

\* The bonus of the first purchase is granted once, unless two purchases decide
\* on it at the same time or something fails before it is recorded.
BonusOnce ==
    (\E k, l \in Keys :
        /\ k[1] = "bonus" /\ l[1] = "bonus" /\ grants[k] >= 1
        /\ k /= l /\ grants[l] >= 1)
    => rushed \/ ~Undisturbed

\* A status and a tier that do not go together: a purchase then clears the
\* trial of the user or of the keys and not of both.
OddlySeen(r) ==
    \/ r.status = "active" /\ r.tier = "basic"
    \/ r.status \in {"past_due", "canceled"} /\ r.tier /= "basic"

\* When no call is running, no statement failed, and no two calls rewrote the
\* account at the same time, the API keys carry the status and the tier of the
\* user, whatever the order the events came in.  Two kinds of calls break that
\* on their own: an update that takes the tier away, and a purchase by a user
\* whose status and tier do not go together.
AccountAgrees ==
    AtRest /\ ~mixed /\ ~Died /\ outages = 0 =>
        \/ keyRow = [status |-> member.status, plan |-> member.tier]
        \/ \E c \in Calls : /\ Kind[c] = "updated" /\ cpc[c] = "done"
                            /\ To[c].status /= "active"
        \/ \E c \in Calls : OddlySeen(seen[c])

\* Calls that have set another allowance than that of the tier.
GaveAnother(tier) ==
    {d \in ResetCalls : cpc[d] = "done" /\ Tier[d] /= TierAllowance[tier]}

\* Then an active subscriber was last given the allowance of the tier, if any
\* call gave one and the tier has one.  Two deliveries that come late break
\* that: an invoice of another tier, which does not look at the tier the user
\* has by then, and an update of this tier that leaves the allowance alone.
AllowanceAgrees ==
    AtRest /\ ~mixed /\ Undisturbed /\ member.status = "active" =>
        \/ plan = TierAllowance[member.tier]
        \/ TierAllowance[member.tier] = 0
        \/ \A c \in ResetCalls : cpc[c] /= "done"
        \/ \E d \in GaveAnother(member.tier) :
              Kind[d] = "invoicePaid" \/ \E c \in spared : To[c].tier = member.tier

\* A user never has two active plans, unless two calls were giving one at the
\* same time: each deactivates before it inserts, also when it is run again
\* after a failure half-way.
OneActivePlan == activePlans <= 1 \/ mixed

\* A delivery leaves the allowance alone because the endpoint that stamped the
\* subscription sets it: when all calls are over and nothing failed, the
\* allowance last given is the one of the tier, unless another call gave
\* another one.  (The endpoint stamps allowance_handled_at before it sets the
\* allowance, so a failure in between leaves the old one.)
SparedMeansReset ==
    (\A c \in Calls : cpc[c] \in Over) /\ Undisturbed =>
        \A c \in spared :
            \/ plan = TierAllowance[To[c].tier]
            \/ TierAllowance[To[c].tier] = 0
            \/ GaveAnother(To[c].tier) /= {}

=============================================================================
