------------------------------ MODULE Billing ------------------------------
(***************************************************************************)
(* The account of one user as the whole system works on it: the charges of *)
(* its chat requests, the grants of its payments and the allowance changes *)
(* of its subscription interleave between any two database calls.          *)
(***************************************************************************)
EXTENDS CreditDeduction, CreditGrant, AllowanceJobs

vars == <<balanceVars, requestVars, grantVars, jobVars>>

Init == BalanceInit /\ RequestInit /\ GrantInit /\ JobInit

Charge(r) == RequestStep(r) /\ UNCHANGED <<grantVars, jobVars>>

LateCharge(o) == OrphanCommits(o) /\ UNCHANGED <<grantVars, jobVars>>

Grant(d) == GrantStep(d) /\ UNCHANGED <<requestVars, jobVars>>

LateGrant(d) == OrphanGrants(d) /\ UNCHANGED <<requestVars, jobVars>>

ChangeAllowance(j) == JobStep(j) /\ UNCHANGED <<requestVars, grantVars>>

Next ==
    \/ \E r \in Requests : Charge(r)
    \/ \E o \in orphans : LateCharge(o)
    \/ \E d \in Deliveries : Grant(d)
    \/ \E d \in gorphans : LateGrant(d)
    \/ \E j \in Jobs : ChangeAllowance(j)

Spec == Init /\ [][Next]_vars

\* Every coroutine that can run is run by its event loop in the end.  An
\* orphaned call owes nobody a step.
Fairness ==
    /\ \A r \in Requests : WF_vars(Charge(r))
    /\ \A d \in Deliveries : WF_vars(Grant(d))
    /\ \A j \in Jobs : WF_vars(ChangeAllowance(j))

FairSpec == Spec /\ Fairness

-----------------------------------------------------------------------------

TypeOK == BalanceTypeOK /\ RequestTypeOK /\ GrantTypeOK /\ JobTypeOK

\* Neither column of the row is ever negative, although the parts a charge
\* takes were computed from an earlier read of the row: the component checks
\* of atomic_deduct_credits and the optimistic lock of the legacy path.
BalanceNeverNegative == allowance >= 0 /\ purchased >= 0

\* As long as no blind write has landed on a row that changed after it was
\* read, the balance is exactly what was put in less what was taken out: no
\* interleaving of charges, grants and allowance changes loses an update.
\* With the stored procedures and every call answered, no such write happens.
MoneyConserved ==
    /\ overwritten = 0 => allowance + purchased + debited = credited
    /\ overwritten > 0 => ~rpcDeployed \/ faults > 0

\* An answered request has been charged once, a failed or dropped one not at
\* all, except for the debits that lost replies kept from the code; and
\* without a failed storage call there are none of those, whatever the
\* concurrent charges and the failovers do.
ChargedOncePerAnswer ==
    /\ \A r \in Requests :
          /\ pc[r] = "ok" => debits[r] = unacked[r] + IF Cost[r] > 0 THEN 1 ELSE 0
          /\ pc[r] \in {"failed", "dropped"} => debits[r] = unacked[r]
          /\ unacked[r] > 0 => faults > 0

\* Once a request is over, each debit of it that stands has a row in the
\* ledger, unless a fault came between the update and the insert: the legacy
\* path rolls back what it could not log.
NoVanishingMoney ==
    \A r \in Requests :
        pc[r] \in Terminal => debits[r] <= rows[r] + escaped[r]

\* A charge computed from a row read before a renewal or a cancellation never
\* brings back allowance the subscription has since taken away.  Only the
\* rollback of a charge that could not be logged does, after a fault.
AllowanceWithinPlan == faults = 0 => allowance <= plan

\* A payment delivered several times is granted at most once when the stored
\* procedure exists and its replies arrive.
GrantAtMostOnce ==
    rpcDeployed /\ faults = 0 => \A k \in Keys : grants[k] <= 1

\* The account as Account sees it: the requests that were debited and how they
\* ended, the keys that were granted.  It is in doubt when a storage call has
\* failed, or a grant runs without its stored procedure.
Paid == {r \in Requests : debits[r] > 0}

Outcome ==
    [r \in Requests |-> IF pc[r] = "ok" THEN "answered"
                        ELSE IF pc[r] \in Terminal THEN "unanswered" ELSE "open"]

Granted == {k \in Keys : grants[k] > 0}

Doubt == faults > 0 \/ (~rpcDeployed /\ \E d \in Deliveries : gpc[d] /= "call")

Promised == INSTANCE Account
    WITH paid <- Paid, outcome <- Outcome, granted <- Granted, doubt <- Doubt

\* As long as nothing is in doubt, the calls of deduct_credits,
\* add_credits_to_user and the allowance functions, each spread over several
\* statements that interleave with those of the others and over the providers
\* of the chain, come to the same as one atomic charge, grant or change.
ImplementsAccount == Promised!Spec

\* Retries never double-charge: at most one debit of a request stands.
AtMostOneCharge == \A r \in Requests : debits[r] <= 1

\* A debit spends purchased credits only when it leaves no allowance.
AllowanceFirst ==
    [][debited' > debited /\ purchased' < purchased => allowance' = 0]_vars

\* A streamed request that fails before any content has been sent fails only
\* after every provider of the chain has been tried.
StreamsFailOver ==
    \A r \in Streaming :
        pc[r] = "failed" /\ cause[r] = "provider" => attempt[r] = ChainLength

\* Every request comes to an end through any failovers and fallbacks.
RequestsSettle == \A r \in Requests : <>(pc[r] \in Terminal)

=============================================================================
