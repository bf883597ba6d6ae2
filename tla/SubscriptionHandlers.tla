------------------------ MODULE SubscriptionHandlers ------------------------
(***************************************************************************)
(* Subscriptions in services/billing/payments.py: the handlers of the      *)
(* customer.subscription and invoice events, and the endpoints that change *)
(* or cancel a subscription.  Each writes the user, the plan rows, the API *)
(* keys and the allowance one after the other, with no transaction around  *)
(* them; where it fails, what it has written stays.  The allowance is set  *)
(* by the functions of AllowanceJobs, in all their steps.                  *)
(***************************************************************************)
EXTENDS WebhookCalls, AllowanceJobs

CONSTANTS
    To,            \* status and tier the call brings
    TierAllowance  \* subscription_products.allowance_per_month

Cancels == {"deleted", "cancelNow"}
Grows == {"created", "change", "updated"}

\* Mutant: a tier that is taken away is written under a name of its own.
NewTierUnresolved(c) ==
    IF Kind[c] \in Grows /\ To[c].status = "active" THEN To[c].tier ELSE "free"

\* The tier an update that is not active carries is overruled.
NewTier(c) ==
    IF Kind[c] \in Grows /\ To[c].status = "active" THEN To[c].tier ELSE "basic"

ResetCalls == {c \in Calls : Kind[c] \in Grows \union Cancels \union {"invoicePaid"}}

ASSUME SubscriptionAssumption ==
    /\ To \in [Calls -> [status : Statuses, tier : Tiers]]
    /\ TierAllowance \in [Tiers -> Nat]
    /\ \A c \in Calls : Kind[c] \in {"created", "change"} => To[c].status = "active"
    /\ \A c \in Calls :
          Kind[c] = "invoicePaid" /\ Cause[c] /= c =>
             Kind[Cause[c]] = "change" /\ To[Cause[c]].tier = To[c].tier
    /\ Jobs = ResetCalls
    /\ Tier = [c \in ResetCalls |->
                 IF Kind[c] \in Cancels THEN 0 ELSE TierAllowance[To[c].tier]]

VARIABLES
    activePlans,  \* rows of user_plans with is_active
    remaining,    \* the allowance a change read for its audit row
    spared        \* history: deliveries that left the allowance to an endpoint

planVars == <<activePlans, remaining, spared>>

SubscriptionInit(s) ==
    /\ activePlans = IF s.member.linked THEN 1 ELSE 0
    /\ remaining = [c \in Calls |-> 0]
    /\ spared = {}
    /\ jpc = [j \in Jobs |-> "done"]
    /\ stale = [j \in Jobs |-> 0]

-----------------------------------------------------------------------------

\* The call of reset_ or forfeit_subscription_allowance begins; JobStep runs it.
InvokeJob(c) == JobGoto(c, "read") /\ UNCHANGED stale

\* Stripe refuses to change a subscription it has ended.
StripeHasIt ==
    \A d \in Calls : Kind[d] \in Cancels => cpc[d] \in {"never", "start", "refused"}

\* An endpoint checks the user and the subscription and changes it in Stripe.
\* It raises when the reply of Stripe is lost.
EndpointBegins(c) ==
    /\ cpc[c] = "start" /\ Kind[c] \in EndpointKinds
    /\ \/ /\ (Up /\ ~(member.linked /\ StripeHasIt)) \/ Down
          /\ Goto(c, "refused")
          /\ UNCHANGED jobVars
       \/ /\ member.linked /\ StripeHasIt
          /\ \/ /\ Up
                /\ IF Kind[c] = "cancelNow"
                   THEN Goto(c, "allowance") /\ InvokeJob(c)
                   ELSE Goto(c, IF Kind[c] = "change" THEN "member" ELSE "touch")
                        /\ UNCHANGED jobVars
             \/ Down /\ Goto(c, "failed") /\ UNCHANGED jobVars
    /\ UNCHANGED <<claim, claims, accountVars, planVars, balanceVars>>

\* A cancellation at the end of the period writes nothing but updated_at.
CancelsLater(c) ==
    /\ cpc[c] = "touch"
    /\ (Up /\ Goto(c, "done")) \/ (Down /\ Goto(c, "failed"))
    /\ UNCHANGED <<claim, claims, accountVars, planVars, jobVars, balanceVars>>

\* What a delivery reads of the subscription may carry the stamp that an
\* endpoint put on it with the tier, less than two minutes ago.
Stamped(c) ==
    \E d \in Calls : /\ Kind[d] = "change" /\ To[d].tier = To[c].tier
                     /\ cpc[d] \notin {"never", "start", "refused"}

\* Every handler looks for its user first.
FindsUser(c) ==
    /\ cpc[c] = "find"
    /\ Kind[c] \notin {"checkout", "succeeded", "failed", "poll", "invoicePaid"}
    /\ \/ Down /\ Raise(c) /\ UNCHANGED jobVars
       \/ /\ Up
          /\ IF Kind[c] = "deleted" THEN Goto(c, "allowance") /\ InvokeJob(c)
                                   ELSE Goto(c, "member") /\ UNCHANGED jobVars
    /\ UNCHANGED <<claim, claims, accountVars, planVars, balanceVars>>

\* The invoice of a change is skipped by its billing_reason, that of a renewal
\* when the subscription is stamped.
ReadsInvoice(c) ==
    /\ cpc[c] = "find" /\ Kind[c] = "invoicePaid"
    /\ \/ Down /\ Raise(c) /\ UNCHANGED spared
       \/ Up /\ Cause[c] = c /\ Goto(c, "lookup") /\ UNCHANGED spared
       \/ Up /\ Stamped(c) /\ Goto(c, "done") /\ spared' = spared \union {c}
    /\ UNCHANGED <<activePlans, remaining, claim, claims>>
    /\ UNCHANGED <<accountVars, jobVars, balanceVars>>

NewMember(c) ==
    [status |-> CASE Kind[c] = "change" -> member.status
                  [] Kind[c] = "invoiceFailed" -> "past_due"
                  [] Kind[c] \in Cancels -> "canceled"
                  [] OTHER -> To[c].status,
     tier   |-> NewTier(c),
     linked |-> Kind[c] = "created" \/ (member.linked /\ Kind[c] \notin Cancels)]

\* An update that is not active ends here: plans and keys stay as they were.
WritesMember(c) ==
    /\ cpc[c] = "member"
    /\ \/ /\ Up
          /\ member' = NewMember(c)
          /\ Goto(c, IF Kind[c] \notin Grows THEN "keys"
                     ELSE IF To[c].status = "active" THEN "deactivate" ELSE "done")
       \/ /\ Down
          /\ member' \in {member, NewMember(c)}
          /\ Raise(c)
    /\ UNCHANGED <<claim, claims, keyRow, planVars, jobVars, balanceVars>>

\* Mutant: the plan is added beside the ones that are active.
KeepsPlans(c) ==
    /\ cpc[c] = "deactivate"
    /\ Up /\ Goto(c, "insert")
    /\ UNCHANGED <<claim, claims, accountVars, planVars, jobVars, balanceVars>>

\* A plan whose id cannot be read is passed over.
DeactivatesPlans(c) ==
    /\ cpc[c] = "deactivate"
    /\ \/ Up /\ Goto(c, "insert") /\ activePlans' = 0
       \/ Down /\ Goto(c, "keys") /\ UNCHANGED activePlans
       \/ Down /\ Raise(c) /\ activePlans' \in {activePlans, 0}
    /\ UNCHANGED <<remaining, spared>>
    /\ UNCHANGED <<claim, claims, accountVars, jobVars, balanceVars>>

InsertsPlan(c) ==
    /\ cpc[c] = "insert"
    /\ \/ Up /\ Goto(c, "keys") /\ activePlans' = activePlans + 1
       \/ Down /\ Raise(c) /\ activePlans' \in {activePlans, activePlans + 1}
    /\ UNCHANGED <<remaining, spared>>
    /\ UNCHANGED <<claim, claims, accountVars, jobVars, balanceVars>>

\* Mutant: a lost subscription leaves the plan of the keys alone.
NewKeyRowGrowing(c) ==
    [status |-> IF Kind[c] = "change" THEN keyRow.status ELSE NewMember(c).status,
     plan   |-> IF Kind[c] \in Grows THEN NewTier(c) ELSE keyRow.plan]

NewKeyRow(c) ==
    [status |-> IF Kind[c] = "change" THEN keyRow.status ELSE NewMember(c).status,
     plan   |-> NewTier(c)]

\* Mutant: an update leaves the allowance to the invoice.
WritesKeysOnly(c) ==
    /\ cpc[c] = "keys"
    /\ Up
    /\ keyRow' = NewKeyRow(c)
    /\ Goto(c, IF Kind[c] \in Grows \ {"updated"} THEN "lookup" ELSE "done")
    /\ UNCHANGED <<planVars, claim, claims, member, jobVars, balanceVars>>

\* An update that finds the subscription stamped leaves the allowance alone.
WritesKeys(c) ==
    /\ cpc[c] = "keys"
    /\ \/ /\ Up
          /\ keyRow' = NewKeyRow(c)
          /\ \/ /\ Goto(c, IF Kind[c] \in Grows THEN "lookup" ELSE "done")
                /\ UNCHANGED spared
             \/ /\ Kind[c] = "updated" /\ Stamped(c)
                /\ Goto(c, "done")
                /\ spared' = spared \union {c}
       \/ /\ Down
          /\ keyRow' \in {keyRow, NewKeyRow(c)}
          /\ Raise(c)
          /\ UNCHANGED spared
    /\ UNCHANGED <<activePlans, remaining>>
    /\ UNCHANGED <<claim, claims, member, jobVars, balanceVars>>

\* A tier without an allowance, or one that cannot be looked up, leaves the
\* allowance alone; a change then has no audit row either.
LooksUpAllowance(c) ==
    /\ cpc[c] = "lookup"
    /\ \/ /\ Up /\ TierAllowance[To[c].tier] > 0
          /\ IF Kind[c] = "change" THEN Goto(c, "remaining") /\ UNCHANGED jobVars
                                   ELSE Goto(c, "allowance") /\ InvokeJob(c)
       \/ /\ (Up /\ TierAllowance[To[c].tier] = 0) \/ Down
          /\ Goto(c, "done")
          /\ UNCHANGED jobVars
    /\ UNCHANGED <<claim, claims, accountVars, planVars, balanceVars>>

\* Mutant: the change leaves the allowance to the webhook, which leaves it too.
ReadsRemainingOnly(c) ==
    /\ cpc[c] = "remaining"
    /\ Up /\ remaining' = [remaining EXCEPT ![c] = allowance]
    /\ Goto(c, "audit")
    /\ UNCHANGED <<activePlans, spared, claim, claims>>
    /\ UNCHANGED <<accountVars, jobVars, balanceVars>>

ReadsRemaining(c) ==
    /\ cpc[c] = "remaining"
    /\ \E left \in {0, allowance} :
          /\ (Up /\ left = allowance) \/ (Down /\ left = 0)
          /\ remaining' = [remaining EXCEPT ![c] = left]
    /\ Goto(c, "allowance") /\ InvokeJob(c)
    /\ UNCHANGED <<activePlans, spared, claim, claims, accountVars, balanceVars>>

\* Only the immediate cancellation goes on when the allowance could not be set.
AllowanceEnds(c) ==
    /\ cpc[c] = "allowance"
    /\ \/ /\ jpc[c] = "done" \/ (jpc[c] = "failed" /\ Kind[c] = "cancelNow")
          /\ Goto(c, IF Kind[c] \in Cancels THEN "member"
                     ELSE IF Kind[c] = "change" THEN "audit" ELSE "done")
       \/ jpc[c] = "failed" /\ Kind[c] /= "cancelNow" /\ Raise(c)
    /\ UNCHANGED <<claim, claims, outages>>
    /\ UNCHANGED <<accountVars, planVars, jobVars, balanceVars>>

\* The audit row of a change to a lower allowance is negative, so the daily
\* limit counts it as usage.
LogsChange(c) ==
    /\ cpc[c] = "audit"
    /\ LET less == remaining[c] - TierAllowance[To[c].tier] IN
       \E lost \in 0..LogTries : \E n \in RowsLogged(lost) :
          Lose(lost) /\ LogUsage(IF less > 0 THEN less ELSE 0, n)
    /\ Goto(c, "done")
    /\ UNCHANGED <<claim, claims, outages, accountVars, planVars, jobVars>>

SubscriptionStep(c) ==
    \/ EndpointBegins(c)
    \/ CancelsLater(c)
    \/ FindsUser(c)
    \/ ReadsInvoice(c)
    \/ WritesMember(c)
    \/ DeactivatesPlans(c)
    \/ InsertsPlan(c)
    \/ WritesKeys(c)
    \/ LooksUpAllowance(c)
    \/ ReadsRemaining(c)
    \/ AllowanceEnds(c)
    \/ LogsChange(c)

=============================================================================
