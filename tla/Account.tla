------------------------------ MODULE Account ------------------------------
(***************************************************************************)
(* What the account of a user promises, whatever statements it is made of: *)
(* a request pays in one step, at most once, never more than there is, and *)
(* is answered when it has paid; a payment is credited in one step and     *)
(* once; a subscription sets the allowance.  The promise holds until       *)
(* something is in doubt, and from then on there is none.                  *)
(***************************************************************************)
EXTENDS Integers

CONSTANTS Requests, Cost, Deliveries, Key, Amount, Jobs, Tier, InitAllowance, InitPurchased

VARIABLES allowance, purchased, paid, outcome, granted, doubt

vars == <<allowance, purchased, paid, outcome, granted, doubt>>

Init ==
    /\ allowance = InitAllowance
    /\ purchased = InitPurchased
    /\ paid = {}
    /\ outcome = [r \in Requests |-> "open"]
    /\ granted = {}
    /\ doubt = FALSE

Become(r, end) == outcome' = [outcome EXCEPT ![r] = end]

\* A request pays from both columns, and may be answered in the same step.
Pay(r) ==
    /\ outcome[r] = "open"
    /\ r \notin paid
    /\ Cost[r] > 0
    /\ \E part \in 0..Cost[r] :
          /\ part <= allowance /\ allowance' = allowance - part
          /\ Cost[r] - part <= purchased /\ purchased' = purchased - (Cost[r] - part)
    /\ paid' = paid \union {r}
    /\ UNCHANGED outcome \/ Become(r, "answered")
    /\ UNCHANGED granted

\* It ends answered when it has paid and unanswered when it has not.
Close(r) ==
    /\ outcome[r] = "open"
    /\ \/ (r \in paid \/ Cost[r] = 0) /\ Become(r, "answered")
       \/ r \notin paid /\ Become(r, "unanswered")
    /\ UNCHANGED <<allowance, purchased, paid, granted>>

Credit(d) ==
    /\ Key[d] \notin granted
    /\ granted' = granted \union {Key[d]}
    /\ purchased' = purchased + Amount[d]
    /\ UNCHANGED <<allowance, paid, outcome>>

Renew(j) ==
    /\ allowance' = Tier[j]
    /\ UNCHANGED <<purchased, paid, outcome, granted>>

Next ==
    \/ \E r \in Requests : Pay(r) \/ Close(r)
    \/ \E d \in Deliveries : Credit(d)
    \/ \E j \in Jobs : Renew(j)

Spec == Init /\ [][doubt' \/ (~doubt /\ Next)]_vars

=============================================================================
