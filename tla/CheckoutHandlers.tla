-------------------------- MODULE CheckoutHandlers --------------------------
(***************************************************************************)
(* One-time payments in services/billing/payments.py: the handlers of      *)
(* checkout.session.completed, payment_intent.succeeded and                *)
(* payment_intent.payment_failed, and the success page, which runs the     *)
(* first of them itself.  The grants are calls of add_credits_to_user, in  *)
(* all their steps: see CreditGrant.                                       *)
(***************************************************************************)
EXTENDS WebhookCalls, CreditGrant

CONSTANTS
    Payments,      \* rows of `payments`
    Payment,       \* the payment each call is about
    IntentFirst,   \* payments made by create_payment_intent: no session
    Eligible       \* payments of five dollars or more

Credits == {c \in Calls : Kind[c] \in {"checkout", "poll", "succeeded"}}

\* The two grants a call may make.
Purchase(c) == <<c, "purchase">>
Bonus(c) == <<c, "bonus">>
GrantCalls == Credits \X {"purchase", "bonus"}

SessionKey(p) == <<"cs", p>>
IntentKey(p) == <<"pi", p>>
BonusKey(p) == <<"bonus", p>>

\* _grant_idempotency_key of the session, of the intent, of the bonus.
GrantKeys == [d \in GrantCalls |->
    LET p == Payment[d[1]] IN
    IF d[2] = "bonus" THEN BonusKey(p)
    ELSE IF Kind[d[1]] = "succeeded" THEN IntentKey(p) ELSE SessionKey(p)]

ASSUME CheckoutAssumption ==
    /\ Deliveries = GrantCalls
    /\ Key = GrantKeys
    /\ Payment \in [Calls -> Payments]
    /\ IntentFirst \subseteq Payments
    /\ Eligible \subseteq Payments
    /\ \A c \in Calls : Kind[c] \in {"checkout", "poll"} => Payment[c] \notin IntentFirst

VARIABLES
    payStatus,      \* payments.status
    intentSaved,    \* payments whose stripe_payment_intent_id is set
    firstPurchase,  \* users.has_made_first_purchase
    seen,           \* the status and the tier the checkout handler read
    reopened,       \* history: completed payments set to failed
    rushed          \* history: a bonus was decided beside another

payVars == <<payStatus, intentSaved, firstPurchase, seen, reopened, rushed>>

Unread == [status |-> "none", tier |-> "none"]

PayInit ==
    /\ payStatus = [p \in Payments |-> "pending"]
    /\ intentSaved = IntentFirst
    /\ firstPurchase = FALSE
    /\ seen = [c \in Calls |-> Unread]
    /\ reopened = {}
    /\ rushed = FALSE
    /\ gpc = [d \in Deliveries |-> "done"]
    /\ gread = [d \in Deliveries |-> [a |-> 0, p |-> 0]]
    /\ gorphans = {}
    /\ grants = [k \in Keys |-> 0]

-----------------------------------------------------------------------------

\* The call of add_credits_to_user begins; GrantStep runs it.
Invoke(d) == GrantGoto(d, "call") /\ UNCHANGED <<gread, gorphans, grants>>

\* The row of the payment, or None when the read fails.
Found(p, status) == (Up /\ status = payStatus[p]) \/ (Down /\ status = "none")

\* reconcile_checkout_session looks once more before it runs the handler.
PollBegins(c) ==
    /\ cpc[c] = "start" /\ Kind[c] = "poll"
    /\ \E status \in {"none", payStatus[Payment[c]]} :
          /\ Found(Payment[c], status)
          /\ Goto(c, IF status = "completed" THEN "done" ELSE "find")
    /\ UNCHANGED <<claim, claims, accountVars, payVars, grantVars, balanceVars>>

\* The metadata of the session is hydrated, which may raise.
FindsSession(c) ==
    /\ cpc[c] = "find" /\ Kind[c] \in {"checkout", "poll"}
    /\ (Up /\ Goto(c, "guard")) \/ (Down /\ Raise(c))
    /\ UNCHANGED <<claim, claims, accountVars, payVars, grantVars, balanceVars>>

\* Mutant: a payment that cannot be read is taken for a processed one.
GuardFailsClosed(c) ==
    /\ cpc[c] = "guard"
    /\ \E status \in {"none", payStatus[Payment[c]]} :
          /\ Found(Payment[c], status)
          /\ IF status \in {"completed", "none"}
             THEN Goto(c, "done") /\ UNCHANGED grantVars
             ELSE Goto(c, "granting") /\ Invoke(Purchase(c))
    /\ UNCHANGED <<claim, claims, accountVars, payVars, balanceVars>>

\* The status guard of the checkout handler lets a payment it cannot read pass.
Guard(c) ==
    /\ cpc[c] = "guard"
    /\ \E status \in {"none", payStatus[Payment[c]]} :
          /\ Found(Payment[c], status)
          /\ IF status = "completed"
             THEN Goto(c, "done") /\ UNCHANGED grantVars
             ELSE Goto(c, "granting") /\ Invoke(Purchase(c))
    /\ UNCHANGED <<claim, claims, accountVars, payVars, balanceVars>>

GrantRaises(c) ==
    /\ cpc[c] = "granting" /\ Kind[c] /= "succeeded"
    /\ gpc[Purchase(c)] = "failed"
    /\ Raise(c)
    /\ UNCHANGED <<claim, claims, outages>>
    /\ UNCHANGED <<accountVars, payVars, grantVars, balanceVars>>

\* Mutant: the payment is completed while the credits are still being granted.
CompletesEarly(c) ==
    /\ cpc[c] = "granting" /\ Kind[c] /= "succeeded"
    /\ gpc[Purchase(c)] \in {"call", "done"}
    /\ payStatus' = [payStatus EXCEPT ![Payment[c]] = "completed"]
    /\ intentSaved' = intentSaved \union {Payment[c]}
    /\ Up
    /\ Goto(c, "trial")
    /\ UNCHANGED <<claim, claims, firstPurchase, seen, reopened, rushed>>
    /\ UNCHANGED <<accountVars, grantVars, balanceVars>>

\* Mutant: the intent is recorded and the status is left for later.
CompletesIntentOnly(c) ==
    /\ cpc[c] = "granting" /\ Kind[c] /= "succeeded"
    /\ gpc[Purchase(c)] = "done"
    /\ intentSaved' = intentSaved \union {Payment[c]}
    /\ Up
    /\ Goto(c, "trial")
    /\ UNCHANGED <<claim, claims, payStatus, firstPurchase, seen, reopened, rushed>>
    /\ UNCHANGED <<accountVars, grantVars, balanceVars>>

\* One update sets the status and the id of the intent; its failure is logged.
Completes(c) ==
    /\ cpc[c] = "granting" /\ Kind[c] /= "succeeded"
    /\ gpc[Purchase(c)] = "done"
    /\ \/ /\ Up \/ Down
          /\ payStatus' = [payStatus EXCEPT ![Payment[c]] = "completed"]
          /\ intentSaved' = intentSaved \union {Payment[c]}
       \/ Down /\ UNCHANGED <<payStatus, intentSaved>>
    /\ Goto(c, "trial")
    /\ UNCHANGED <<claim, claims, firstPurchase, seen, reopened, rushed>>
    /\ UNCHANGED <<accountVars, grantVars, balanceVars>>

\* The trial is cleared from the status and the tier read here, whatever they
\* are by then; whatever fails only skips the rest of it.
ReadsTrial(c) ==
    /\ cpc[c] = "trial"
    /\ \/ /\ Up
          /\ seen' = [seen EXCEPT ![c] = [status |-> member.status, tier |-> member.tier]]
          /\ Goto(c, IF member.status = "trial" \/ member.tier = "basic"
                     THEN "convert" ELSE "convertKeys")
       \/ Down /\ UNCHANGED seen /\ Goto(c, "bonusRead")
    /\ UNCHANGED <<claim, claims, accountVars, grantVars, balanceVars>>
    /\ UNCHANGED <<payStatus, intentSaved, firstPurchase, reopened, rushed>>

ConvertsTrial(c) ==
    /\ cpc[c] = "convert"
    /\ \/ Up /\ Goto(c, "convertKeys") /\ member' = [member EXCEPT !.status = "inactive"]
       \/ /\ Down /\ Goto(c, "bonusRead")
          /\ member' \in {member, [member EXCEPT !.status = "inactive"]}
    /\ UNCHANGED <<claim, claims, keyRow, payVars, grantVars, balanceVars>>

ConvertsKeys(c) ==
    /\ cpc[c] = "convertKeys"
    /\ \/ /\ Up \/ Down
          /\ keyRow' = IF seen[c].status = "active" THEN keyRow
                       ELSE [keyRow EXCEPT !.status = "inactive"]
       \/ Down /\ UNCHANGED keyRow
    /\ Goto(c, "bonusRead")
    /\ UNCHANGED <<claim, claims, member, payVars, grantVars, balanceVars>>

ReadsFirst(c) ==
    /\ cpc[c] = "bonusRead"
    /\ \/ /\ Up /\ ~firstPurchase
          /\ rushed' = (rushed \/ \E d \in Calls : cpc[d] \in {"bonus", "mark"})
          /\ IF Payment[c] \in Eligible
             THEN Goto(c, "bonus") /\ Invoke(Bonus(c))
             ELSE Goto(c, "mark") /\ UNCHANGED grantVars
       \/ /\ (Up /\ firstPurchase) \/ Down
          /\ Goto(c, "done")
          /\ UNCHANGED <<rushed, grantVars>>
    /\ UNCHANGED <<claim, claims, accountVars, balanceVars>>
    /\ UNCHANGED <<payStatus, intentSaved, firstPurchase, seen, reopened>>

\* The mark follows the bonus; a bonus that could not be granted is swallowed.
BonusEnds(c) ==
    /\ cpc[c] = "bonus"
    /\ gpc[Bonus(c)] \in {"done", "failed"}
    /\ Goto(c, IF gpc[Bonus(c)] = "done" THEN "mark" ELSE "done")
    /\ UNCHANGED <<claim, claims, outages>>
    /\ UNCHANGED <<accountVars, payVars, grantVars, balanceVars>>

\* Mutant: the flag is set for purchases without a bonus only.
MarksSmallOnly(c) ==
    /\ cpc[c] = "mark"
    /\ Up /\ firstPurchase' = (firstPurchase \/ Payment[c] \notin Eligible)
    /\ Goto(c, "done")
    /\ UNCHANGED <<claim, claims, accountVars, grantVars, balanceVars>>
    /\ UNCHANGED <<payStatus, intentSaved, seen, reopened, rushed>>

MarksFirst(c) ==
    /\ cpc[c] = "mark"
    /\ \/ (Up \/ Down) /\ firstPurchase' = TRUE
       \/ Down /\ UNCHANGED firstPurchase
    /\ Goto(c, "done")
    /\ UNCHANGED <<claim, claims, accountVars, grantVars, balanceVars>>
    /\ UNCHANGED <<payStatus, intentSaved, seen, reopened, rushed>>

-----------------------------------------------------------------------------

\* The handlers of the intent find the payment by the id of the intent; that
\* of a success returns on a completed one, that of a failure never does.
LooksUpIntent(c) ==
    /\ cpc[c] = "find" /\ Kind[c] \in {"succeeded", "failed"}
    /\ \/ /\ Up /\ Payment[c] \in intentSaved
          /\ Kind[c] = "failed" \/ payStatus[Payment[c]] /= "completed"
          /\ Goto(c, "settle")
       \/ /\ Up
          /\ \/ Payment[c] \notin intentSaved
             \/ Kind[c] = "succeeded" /\ payStatus[Payment[c]] = "completed"
          /\ Goto(c, "done")
       \/ Down /\ Goto(c, "done")
    /\ UNCHANGED <<claim, claims, accountVars, payVars, grantVars, balanceVars>>

\* The payment is completed before its credits are granted.
MarksSucceeded(c) ==
    /\ cpc[c] = "settle" /\ Kind[c] = "succeeded"
    /\ \/ (Up \/ Down) /\ payStatus' = [payStatus EXCEPT ![Payment[c]] = "completed"]
       \/ Down /\ UNCHANGED payStatus
    /\ Goto(c, "granting") /\ Invoke(Purchase(c))
    /\ UNCHANGED <<claim, claims, accountVars, balanceVars>>
    /\ UNCHANGED <<intentSaved, firstPurchase, seen, reopened, rushed>>

\* What the grant raises is swallowed, and the event stays claimed.
IntentGranted(c) ==
    /\ cpc[c] = "granting" /\ Kind[c] = "succeeded"
    /\ gpc[Purchase(c)] \in {"done", "failed"}
    /\ Goto(c, "done")
    /\ UNCHANGED <<claim, claims, outages>>
    /\ UNCHANGED <<accountVars, payVars, grantVars, balanceVars>>

MarksFailed(c) ==
    /\ cpc[c] = "settle" /\ Kind[c] = "failed"
    /\ \/ /\ Up \/ Down
          /\ payStatus' = [payStatus EXCEPT ![Payment[c]] = "failed"]
          /\ reopened' = reopened \union {p \in {Payment[c]} : payStatus[p] = "completed"}
       \/ Down /\ UNCHANGED <<payStatus, reopened>>
    /\ Goto(c, "done")
    /\ UNCHANGED <<claim, claims, accountVars, grantVars, balanceVars>>
    /\ UNCHANGED <<intentSaved, firstPurchase, seen, rushed>>

PaymentStep(c) ==
    \/ PollBegins(c)
    \/ FindsSession(c)
    \/ Guard(c)
    \/ GrantRaises(c)
    \/ Completes(c)
    \/ ReadsTrial(c)
    \/ ConvertsTrial(c)
    \/ ConvertsKeys(c)
    \/ ReadsFirst(c)
    \/ BonusEnds(c)
    \/ MarksFirst(c)
    \/ LooksUpIntent(c)
    \/ MarksSucceeded(c)
    \/ IntentGranted(c)
    \/ MarksFailed(c)

=============================================================================
