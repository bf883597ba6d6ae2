------------------------------ MODULE MCStripe ------------------------------
(***************************************************************************)
(* A small instance of StripeWebhook: the calls, what each is, and which   *)
(* of them are made together.                                              *)
(***************************************************************************)
EXTENDS StripeWebhook

Deliver(kind, payment, event) ==
    [kind |-> kind, payment |-> payment, event |-> event, cause |-> "", to |-> "basic",
     status |-> "active"]

Subscribe(kind, event, cause, status, to) ==
    [kind |-> kind, payment |-> "session", event |-> event, cause |-> cause, to |-> to,
     status |-> status]

\* The session and the intent of one payment, a second session, one below five
\* dollars, and a payment made without a session.
Catalogue ==
    [paid       |-> Deliver("checkout", "session", "e1"),
     paidAgain  |-> Deliver("checkout", "session", "e1"),
     page       |-> Deliver("poll", "session", "none"),
     other      |-> Deliver("checkout", "other", "e2"),
     cheap      |-> Deliver("checkout", "cheap", "e15"),
     intent     |-> Deliver("succeeded", "session", "e3"),
     decline    |-> Deliver("failed", "session", "e4"),
     direct     |-> Deliver("succeeded", "direct", "e5"),
     directAgain|-> Deliver("succeeded", "direct", "e5"),
     create     |-> Subscribe("created", "e6", "", "active", "pro"),
     createAgain|-> Subscribe("created", "e6", "", "active", "pro"),
     upgrade    |-> Subscribe("change", "none", "", "active", "max"),
     upgraded   |-> Subscribe("updated", "e7", "upgrade", "active", "max"),
     prorated   |-> Subscribe("invoicePaid", "e8", "upgrade", "active", "max"),
     downgrade  |-> Subscribe("change", "none", "", "active", "pro"),
     renew      |-> Subscribe("invoicePaid", "e9", "", "active", "pro"),
     renewMax   |-> Subscribe("invoicePaid", "e16", "", "active", "max"),
     unpaid     |-> Subscribe("invoiceFailed", "e10", "", "past_due", "pro"),
     overdue    |-> Subscribe("updated", "e11", "", "past_due", "pro"),
     delete     |-> Subscribe("deleted", "e12", "", "canceled", "pro"),
     cancel     |-> Subscribe("cancelNow", "none", "", "canceled", "pro"),
     cancelled  |-> Subscribe("deleted", "e13", "cancel", "canceled", "pro"),
     later      |-> Subscribe("cancelLater", "none", "", "active", "pro"),
     scheduled  |-> Subscribe("updated", "e14", "later", "active", "pro")]

MCCalls == DOMAIN Catalogue
MCKind == [c \in MCCalls |-> Catalogue[c].kind]
MCEvent == [c \in MCCalls |-> Catalogue[c].event]
MCCause == [c \in MCCalls |-> IF Catalogue[c].cause = "" THEN c ELSE Catalogue[c].cause]
MCPayment == [c \in MCCalls |-> Catalogue[c].payment]
MCTo == [c \in MCCalls |-> [status |-> Catalogue[c].status, tier |-> Catalogue[c].to]]
MCTierAllowance == [basic |-> 0, pro |-> 1, max |-> 2]
MCTier == [c \in ResetCalls |-> IF Kind[c] \in Cancels THEN 0 ELSE MCTierAllowance[MCTo[c].tier]]
MCAmount == [d \in GrantCalls |-> 1]

Newcomer == [status |-> "trial", tier |-> "basic", linked |-> FALSE]
\* Subscribers who have spent their allowance.
OnPro == [status |-> "active", tier |-> "pro", linked |-> TRUE]
OnMax == [status |-> "active", tier |-> "max", linked |-> TRUE]

Together(user, calls) == [calls |-> calls, member |-> user]

MCScenarios ==
    {Together(Newcomer, cs) : cs \in
        {{"paid", "paidAgain"}, {"paid", "page"}, {"paid", "other"}, {"cheap", "other"},
         {"paid", "decline", "intent"}, {"direct", "directAgain"},
         {"paid", "create"}, {"create", "createAgain"}, {"create", "delete"}}}
    \union
    {Together(OnPro, cs) : cs \in
        {{"upgrade", "upgraded", "prorated"}, {"cancel", "cancelled"},
         {"later", "scheduled"}, {"unpaid", "renew"}, {"unpaid", "overdue"},
         {"renew", "delete"}, {"upgrade", "renewMax"}, {"upgrade", "renew"},
         {"unpaid", "upgrade", "paid"}}}
    \union {Together(OnMax, {"downgrade", "paid"})}

Made == {c \in Calls : cpc[c] /= "never"}

\* Two things may go wrong, or one where three calls are made.
Troubles ==
    outages + faults + Cardinality({c \in Calls : cpc[c] = "crashed"})
        <= 4 - Cardinality(Made)

=============================================================================
