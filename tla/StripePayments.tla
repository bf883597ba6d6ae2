--------------------------- MODULE StripePayments ---------------------------
(***************************************************************************)
(* Payments of StripeWebhook, for any calls and payments: a checkout that  *)
(* ends well or is marked completed has been credited, and with the stored *)
(* procedure answering a payment is credited once, although its session    *)
(* and its intent grant under different keys.                              *)
(***************************************************************************)
EXTENDS StripeClaims

USE CheckoutAssumption

\* Where a checkout call is once its grant has returned.
Granted == {"trial", "convert", "convertKeys", "bonusRead", "bonus", "mark", "done"}

Paid(p) == SessionKey(p) \in Keys /\ grants[SessionKey(p)] >= 1

\* Every trace of a payment of a session stands for a grant: a ledger key, a
\* grant that returned, an intent that was saved, a status.
CreditInv ==
    /\ \A k \in keys : grants[k] >= 1
    /\ \A d \in Deliveries : gpc[d] = "log" => grants[Key[d]] >= 1
    /\ \A c \in CheckoutCalls :
          /\ cpc[c] = "granting" /\ gpc[Purchase(c)] = "done" => Paid(Payment[c])
          /\ cpc[c] \in Granted => Paid(Payment[c])
    /\ \A c \in Calls : cpc[c] = "settle" => Payment[c] \in intentSaved
    /\ \A p \in intentSaved \ IntentFirst : Paid(p)
    /\ \A p \in Payments \ IntentFirst : payStatus[p] = "completed" => Paid(p)

\* The stored procedure has answered every time.
Quiet == rpcDeployed /\ faults = 0

\* Payments whose intent may be granted: they have no session, or their
\* completion was undone.
Excused == IntentFirst \union reopened

\* One update saves the intent and completes the payment, so the handler of the
\* intent finds a payment of a session only when it is completed.
OnceInv ==
    /\ Quiet =>
          /\ gorphans = {}
          /\ \A d \in Deliveries : gpc[d] \in {"call", "done"}
          /\ \A k \in Keys : grants[k] = IF k \in keys THEN 1 ELSE 0
          /\ \A p \in Payments \ Excused : IntentKey(p) \notin keys
    /\ \A p \in intentSaved \ Excused : payStatus[p] = "completed"
    /\ \A c \in Calls :
          Kind[c] = "succeeded" /\ cpc[c] \in {"settle", "granting"} => Payment[c] \in Excused

PayInv == CreditInv /\ OnceInv

-----------------------------------------------------------------------------

\* What a statement about a payment does to the grants, ...
PaysGrants(c) ==
    /\ UNCHANGED <<grants, gorphans>>
    /\ \A d \in Deliveries : gpc'[d] = gpc[d] \/ gpc'[d] = "call"
    /\ \A e \in CheckoutCalls \ {c} : gpc'[Purchase(e)] = gpc[Purchase(e)]
    /\ c \in CheckoutCalls /\ cpc'[c] = "granting" => gpc'[Purchase(c)] = "call"

\* ... to its call, ...
PaysCall(c) ==
    /\ c \in CheckoutCalls /\ cpc'[c] \in Granted => Paid(Payment[c])
    /\ cpc'[c] = "settle" => Payment[c] \in intentSaved
    /\ Kind[c] = "succeeded" /\ cpc'[c] \in {"settle", "granting"} => Payment[c] \in Excused

\* ... and to the payments.
PaysRows ==
    /\ intentSaved \subseteq intentSaved'
    /\ \A p \in intentSaved' : p \in intentSaved \/ Paid(p)
    /\ \A p \in Payments : payStatus'[p] = "completed" =>
          payStatus[p] = "completed" \/ p \in IntentFirst \/ Paid(p)
    /\ reopened \subseteq reopened'
    /\ \A p \in intentSaved' \ Excused' : payStatus'[p] = "completed"

\* Keys of different kinds, and calls of different deliveries, differ.
LEMMA Names ==
    /\ \A p, q : SessionKey(p) /= IntentKey(q) /\ SessionKey(p) /= BonusKey(q)
                 /\ IntentKey(p) /= BonusKey(q)
    /\ \A p, q : SessionKey(p) = SessionKey(q) => p = q
    /\ \A p, q : IntentKey(p) = IntentKey(q) => p = q
    /\ \A c, d : Purchase(c) /= Bonus(d) /\ (Purchase(c) = Purchase(d) => c = d)
BY DEF SessionKey, IntentKey, BonusKey, Purchase, Bonus

\* The keys of the grants a call may make.
LEMMA KeyOf ==
    /\ \A c \in Credits : Purchase(c) \in Deliveries /\ Bonus(c) \in Deliveries
    /\ \A c \in CheckoutCalls : c \in Credits /\ Key[Purchase(c)] = SessionKey(Payment[c])
                               /\ SessionKey(Payment[c]) \in Keys
    /\ \A d \in Deliveries :
          /\ Key[d] \in Keys /\ d[1] \in Credits /\ d[1] \in Calls
          /\ \A p : Key[d] = IntentKey(p) =>
                d[2] = "purchase" /\ Kind[d[1]] = "succeeded" /\ p = Payment[d[1]]
          /\ \A p : Key[d] = SessionKey(p) =>
                d[1] \in CheckoutCalls /\ p = Payment[d[1]]
    /\ \A p \in IntentFirst : SessionKey(p) \notin Keys
<1>1. ASSUME NEW c \in Credits
      PROVE  Purchase(c) \in Deliveries /\ Bonus(c) \in Deliveries
  BY DEF Purchase, Bonus, GrantCalls
<1>2. ASSUME NEW c \in CheckoutCalls
      PROVE  c \in Credits /\ Key[Purchase(c)] = SessionKey(Payment[c])
             /\ SessionKey(Payment[c]) \in Keys
  <2>1. c \in Credits /\ Kind[c] /= "succeeded"
    BY DEF CheckoutCalls, Credits
  <2>2. Purchase(c) \in GrantCalls
    BY <2>1 DEF Purchase, GrantCalls
  <2>3. Purchase(c)[1] = c /\ Purchase(c)[2] = "purchase"
    BY DEF Purchase
  <2>4. Key[Purchase(c)] = SessionKey(Payment[c])
    BY <2>1, <2>2, <2>3 DEF GrantKeys
  <2> QED BY <2>1, <2>2, <2>4 DEF Keys
<1>3. ASSUME NEW d \in Deliveries
      PROVE  /\ Key[d] \in Keys /\ d[1] \in Credits /\ d[1] \in Calls
             /\ \A p : Key[d] = IntentKey(p) =>
                   d[2] = "purchase" /\ Kind[d[1]] = "succeeded" /\ p = Payment[d[1]]
             /\ \A p : Key[d] = SessionKey(p) =>
                   d[1] \in CheckoutCalls /\ p = Payment[d[1]]
  <2>1. d[1] \in Credits /\ d[1] \in Calls /\ d[2] \in {"purchase", "bonus"}
    BY DEF GrantCalls, Credits
  <2>2. Key[d] = IF d[2] = "bonus" THEN BonusKey(Payment[d[1]])
                 ELSE IF Kind[d[1]] = "succeeded" THEN IntentKey(Payment[d[1]])
                 ELSE SessionKey(Payment[d[1]])
    BY DEF GrantKeys
  <2>3. d[1] \notin CheckoutCalls => Kind[d[1]] = "succeeded"
    BY <2>1 DEF Credits, CheckoutCalls
  <2>4. Key[d] \in Keys
    BY DEF Keys
  <2>5. \A p : Key[d] = IntentKey(p) =>
           d[2] = "purchase" /\ Kind[d[1]] = "succeeded" /\ p = Payment[d[1]]
    BY <2>1, <2>2, Names
  <2>6. \A p : Key[d] = SessionKey(p) => d[1] \in CheckoutCalls /\ p = Payment[d[1]]
    BY <2>2, <2>3, Names
  <2> QED BY <2>1, <2>4, <2>5, <2>6
<1>4. \A p \in IntentFirst : SessionKey(p) \notin Keys
  BY <1>3 DEF Keys, CheckoutCalls
<1> QED BY <1>1, <1>2, <1>3, <1>4

LEMMA PaymentPays ==
    ASSUME CallTypeOK, PayTypeOK, GrantTypeOK, Routes, PayInv, NEW c \in Calls, PaymentStep(c)
    PROVE  PaysGrants(c) /\ PaysCall(c) /\ PaysRows
<1>0. Payment[c] \in Payments /\ RouteOf(c) /\ CreditInv /\ OnceInv
  BY CallAssumption DEF Routes, PayInv
<1>k. \A e \in CheckoutCalls :
         /\ Purchase(e) \in Deliveries
         /\ e /= c => Purchase(e) /= Purchase(c) /\ Purchase(e) /= Bonus(c)
  BY KeyOf, Names
<1>f. ASSUME UNCHANGED grantVars, cpc'[c] /= "granting" PROVE PaysGrants(c)
  BY <1>f DEF PaysGrants, grantVars
<1>i. ASSUME NEW d \in {Purchase(c), Bonus(c)}, Invoke(d), cpc'[c] = "granting" => d = Purchase(c)
      PROVE  PaysGrants(c)
  <2>1. /\ UNCHANGED <<grants, gorphans>>
        /\ \A e \in Deliveries : gpc'[e] = IF e = d THEN "call" ELSE gpc[e]
    BY <1>i DEF Invoke, GrantGoto, GrantTypeOK
  <2> QED BY <1>i, <1>k, <2>1 DEF PaysGrants
<1>r. UNCHANGED <<payStatus, intentSaved, reopened>> => PaysRows
  BY <1>0 DEF PaysRows, OnceInv, Excused, PayTypeOK
<1>1. CASE PollBegins(c)
  <2>1. PaysGrants(c)
    BY <1>f, <1>1, Elsewhere DEF PollBegins
  <2>2. PaysCall(c)
    BY <1>0, <1>1, Elsewhere
    DEF PollBegins, PaysCall, RouteOf, CreditInv, CheckoutLabels, CheckoutCalls, Granted, Over
  <2>3. PaysRows
    BY <1>r, <1>1 DEF PollBegins, payVars
  <2> QED BY <2>1, <2>2, <2>3
<1>2. CASE FindsSession(c)
  <2>1. PaysGrants(c)
    BY <1>f, <1>2, Elsewhere DEF FindsSession
  <2>2. PaysCall(c)
    BY <1>0, <1>2, Elsewhere
    DEF FindsSession, PaysCall, RouteOf, CreditInv, CheckoutLabels, CheckoutCalls, Granted, Over
  <2>3. PaysRows
    BY <1>r, <1>2 DEF FindsSession, payVars
  <2> QED BY <2>1, <2>2, <2>3
<1>3. CASE Guard(c)
  <2>1. PaysGrants(c)
    BY <1>f, <1>i, <1>3, Elsewhere DEF Guard
  <2>2. PaysCall(c)
    BY <1>0, <1>3, Elsewhere
    DEF Guard, PaysCall, RouteOf, CreditInv, CheckoutLabels, CheckoutCalls, Granted, Over
  <2>3. PaysRows
    BY <1>r, <1>3 DEF Guard, payVars
  <2> QED BY <2>1, <2>2, <2>3
<1>4. CASE GrantRaises(c)
  <2>1. PaysGrants(c)
    BY <1>f, <1>4, Elsewhere DEF GrantRaises
  <2>2. PaysCall(c)
    BY <1>0, <1>4, Elsewhere
    DEF GrantRaises, PaysCall, RouteOf, CreditInv, CheckoutLabels, CheckoutCalls, Granted, Over
  <2>3. PaysRows
    BY <1>r, <1>4 DEF GrantRaises, payVars
  <2> QED BY <2>1, <2>2, <2>3
<1>5. CASE Completes(c)
  <2>1. PaysGrants(c)
    BY <1>f, <1>5, Elsewhere DEF Completes
  <2>2. PaysCall(c)
    BY <1>0, <1>5, Elsewhere
    DEF Completes, PaysCall, RouteOf, CreditInv, CheckoutLabels, CheckoutCalls, Granted, Over
  <2>3. PaysRows
    BY <1>0, <1>r, <1>5
    DEF Completes, PaysRows, CreditInv, OnceInv, Excused, PayTypeOK, RouteOf, CheckoutCalls, Credits
  <2> QED BY <2>1, <2>2, <2>3
<1>6. CASE ReadsTrial(c)
  <2>1. PaysGrants(c)
    BY <1>f, <1>6, Elsewhere DEF ReadsTrial
  <2>2. PaysCall(c)
    BY <1>0, <1>6, Elsewhere
    DEF ReadsTrial, PaysCall, RouteOf, CreditInv, CheckoutLabels, CheckoutCalls, Granted, Over
  <2>3. PaysRows
    BY <1>r, <1>6 DEF ReadsTrial, payVars
  <2> QED BY <2>1, <2>2, <2>3
<1>7. CASE ConvertsTrial(c)
  <2>1. PaysGrants(c)
    BY <1>f, <1>7, Elsewhere DEF ConvertsTrial
  <2>2. PaysCall(c)
    BY <1>0, <1>7, Elsewhere
    DEF ConvertsTrial, PaysCall, RouteOf, CreditInv, CheckoutLabels, CheckoutCalls, Granted, Over
  <2>3. PaysRows
    BY <1>r, <1>7 DEF ConvertsTrial, payVars
  <2> QED BY <2>1, <2>2, <2>3
<1>8. CASE ConvertsKeys(c)
  <2>1. PaysGrants(c)
    BY <1>f, <1>8, Elsewhere DEF ConvertsKeys
  <2>2. PaysCall(c)
    BY <1>0, <1>8, Elsewhere
    DEF ConvertsKeys, PaysCall, RouteOf, CreditInv, CheckoutLabels, CheckoutCalls, Granted, Over
  <2>3. PaysRows
    BY <1>r, <1>8 DEF ConvertsKeys, payVars
  <2> QED BY <2>1, <2>2, <2>3
<1>9. CASE ReadsFirst(c)
  <2>1. PaysGrants(c)
    BY <1>f, <1>i, <1>9, Elsewhere DEF ReadsFirst
  <2>2. PaysCall(c)
    BY <1>0, <1>9, Elsewhere
    DEF ReadsFirst, PaysCall, RouteOf, CreditInv, CheckoutLabels, CheckoutCalls, Granted, Over
  <2>3. PaysRows
    BY <1>r, <1>9 DEF ReadsFirst, payVars
  <2> QED BY <2>1, <2>2, <2>3
<1>10. CASE BonusEnds(c)
  <2>1. PaysGrants(c)
    BY <1>f, <1>10, Elsewhere DEF BonusEnds
  <2>2. PaysCall(c)
    BY <1>0, <1>10, Elsewhere
    DEF BonusEnds, PaysCall, RouteOf, CreditInv, CheckoutLabels, CheckoutCalls, Granted, Over
  <2>3. PaysRows
    BY <1>r, <1>10 DEF BonusEnds, payVars
  <2> QED BY <2>1, <2>2, <2>3
<1>11. CASE MarksFirst(c)
  <2>1. PaysGrants(c)
    BY <1>f, <1>11, Elsewhere DEF MarksFirst
  <2>2. PaysCall(c)
    BY <1>0, <1>11, Elsewhere
    DEF MarksFirst, PaysCall, RouteOf, CreditInv, CheckoutLabels, CheckoutCalls, Granted, Over
  <2>3. PaysRows
    BY <1>r, <1>11 DEF MarksFirst, payVars
  <2> QED BY <2>1, <2>2, <2>3
<1>12. CASE LooksUpIntent(c)
  <2>1. PaysGrants(c)
    BY <1>f, <1>12, Elsewhere DEF LooksUpIntent
  <2>2. PaysCall(c)
    BY <1>0, <1>12, Elsewhere
    DEF LooksUpIntent, PaysCall, RouteOf, CreditInv, OnceInv, CheckoutLabels, CheckoutCalls,
        Granted, Over
  <2>3. PaysRows
    BY <1>r, <1>12 DEF LooksUpIntent, payVars
  <2> QED BY <2>1, <2>2, <2>3
<1>13. CASE MarksSucceeded(c)
  <2>1. PaysGrants(c)
    BY <1>f, <1>i, <1>13, Elsewhere DEF MarksSucceeded
  <2>2. PaysCall(c)
    BY <1>0, <1>13, Elsewhere
    DEF MarksSucceeded, PaysCall, RouteOf, CreditInv, OnceInv, CheckoutLabels, CheckoutCalls,
        Granted, Over
  <2>3. PaysRows
    BY <1>0, <1>r, <1>13
    DEF MarksSucceeded, PaysRows, CreditInv, OnceInv, Excused, PayTypeOK, RouteOf,
        CheckoutCalls, Credits
  <2> QED BY <2>1, <2>2, <2>3
<1>14. CASE IntentGranted(c)
  <2>1. PaysGrants(c)
    BY <1>f, <1>14, Elsewhere DEF IntentGranted
  <2>2. PaysCall(c)
    BY <1>0, <1>14, Elsewhere
    DEF IntentGranted, PaysCall, RouteOf, CreditInv, CheckoutLabels, CheckoutCalls, Granted, Over
  <2>3. PaysRows
    BY <1>r, <1>14 DEF IntentGranted, payVars
  <2> QED BY <2>1, <2>2, <2>3
<1>15. CASE MarksFailed(c)
  <2>1. PaysGrants(c)
    BY <1>f, <1>15, Elsewhere DEF MarksFailed
  <2>2. PaysCall(c)
    BY <1>0, <1>15, Elsewhere
    DEF MarksFailed, PaysCall, RouteOf, CreditInv, CheckoutLabels, CheckoutCalls, Granted, Over
  <2>3. PaysRows
    BY <1>0, <1>r, <1>15
    DEF MarksFailed, PaysRows, CreditInv, OnceInv, Excused, PayTypeOK, RouteOf,
        CheckoutCalls, Credits
  <2> QED BY <2>1, <2>2, <2>3
<1> QED
  BY <1>1, <1>2, <1>3, <1>4, <1>5, <1>6, <1>7, <1>8, <1>9, <1>10, <1>11, <1>12, <1>13,
     <1>14, <1>15 DEF PaymentStep

\* A statement about a payment keeps the invariant.
LEMMA PaymentKeeps ==
    ASSUME CallTypeOK, PayTypeOK, GrantTypeOK, Routes, PayInv, NEW c \in Calls, PaymentStep(c)
    PROVE  PayInv'
<1>1. PaysGrants(c) /\ PaysCall(c) /\ PaysRows
  BY PaymentPays
<1>2. \A e \in Calls \ {c} : cpc'[e] = cpc[e]
  BY PlanMoves
<1>3. UNCHANGED <<keys, rpcDeployed, faults>>
  BY PaymentTypes DEF balanceVars, historyVars
<1>4. \A p : Paid(p)' <=> Paid(p)
  BY <1>1 DEF Paid, PaysGrants
<1>5. CreditInv'
  <2>1. (\A k \in keys : grants[k] >= 1)'
    BY <1>1, <1>3 DEF PaysGrants, PayInv, CreditInv
  <2>2. (\A d \in Deliveries : gpc[d] = "log" => grants[Key[d]] >= 1)'
    BY <1>1 DEF PaysGrants, PayInv, CreditInv
  <2>3. (\A e \in CheckoutCalls :
           /\ cpc[e] = "granting" /\ gpc[Purchase(e)] = "done" => Paid(Payment[e])
           /\ cpc[e] \in Granted => Paid(Payment[e]))'
    BY <1>1, <1>2, <1>4 DEF PaysGrants, PaysCall, PayInv, CreditInv, CheckoutCalls
  <2>4. (\A e \in Calls : cpc[e] = "settle" => Payment[e] \in intentSaved)'
    BY <1>1, <1>2 DEF PaysCall, PaysRows, PayInv, CreditInv
  <2>5. (\A p \in intentSaved \ IntentFirst : Paid(p))'
    BY <1>1, <1>4 DEF PaysRows, PayInv, CreditInv
  <2>6. (\A p \in Payments \ IntentFirst : payStatus[p] = "completed" => Paid(p))'
    BY <1>1, <1>4 DEF PaysRows, PayInv, CreditInv
  <2> QED BY <2>1, <2>2, <2>3, <2>4, <2>5, <2>6 DEF CreditInv
<1>6. OnceInv'
  <2>1. Quiet' => Quiet
    BY <1>3 DEF Quiet
  <2>2. Excused \subseteq Excused'
    BY <1>1 DEF Excused, PaysRows
  <2>3. Quiet' => /\ gorphans' = {}
                  /\ \A d \in Deliveries : gpc'[d] \in {"call", "done"}
    BY <1>1, <2>1 DEF PaysGrants, PayInv, OnceInv
  <2>4. Quiet' => /\ \A k \in Keys : grants'[k] = IF k \in keys' THEN 1 ELSE 0
                  /\ \A p \in Payments \ Excused' : IntentKey(p) \notin keys'
    BY <1>1, <1>3, <2>1, <2>2 DEF PaysGrants, PayInv, OnceInv
  <2>5. \A p \in intentSaved' \ Excused' : payStatus'[p] = "completed"
    BY <1>1 DEF PaysRows
  <2>6. \A e \in Calls : Kind[e] = "succeeded" /\ cpc'[e] \in {"settle", "granting"} =>
           Payment[e] \in Excused'
    BY <1>1, <1>2, <2>2 DEF PaysCall, PayInv, OnceInv
  <2> QED BY <2>3, <2>4, <2>5, <2>6 DEF OnceInv
<1> QED BY <1>5, <1>6 DEF PayInv

\* So does a step that leaves the payments and the grants alone, and takes no
\* call to a label that says something of them.
LEMMA OthersKeep ==
    ASSUME PayInv, BalanceTypeOK, UNCHANGED <<payVars, grantVars, keys, rpcDeployed>>,
           faults' >= faults,
           \A e \in Calls : \/ cpc'[e] = cpc[e]
                            \/ /\ cpc'[e] \notin {"settle", "granting"}
                               /\ e \in CheckoutCalls => cpc'[e] \notin Granted
    PROVE  PayInv'
<1> USE DEF payVars, grantVars
<1>1. \A p : Paid(p)' <=> Paid(p)
  BY DEF Paid
<1>2. CreditInv'
  BY <1>1 DEF PayInv, CreditInv, CheckoutCalls
<1>3. Quiet' => Quiet
  BY DEF Quiet, BalanceTypeOK
<1>4. OnceInv'
  BY <1>3 DEF PayInv, OnceInv, Excused
<1> QED BY <1>2, <1>4 DEF PayInv

LEMMA FrameLabels ==
    ASSUME CallTypeOK, NEW c \in Calls, FrameStep(c)
    PROVE  cpc'[c] \notin Granted \union {"settle", "granting"}
<1>1. \E label \in {"find", "skipped", "failed", "crashed"} : Goto(c, label)
  BY DEF FrameStep, ClaimEvent, ReleaseEvent, Crash
<1> QED BY <1>1, Elsewhere DEF Granted

LEMMA SubscriptionLabels ==
    ASSUME CallTypeOK, BalanceTypeOK, Routes, NEW c \in Calls, SubscriptionStep(c)
    PROVE  /\ c \notin CheckoutCalls
           /\ cpc'[c] \notin {"settle", "granting"}
           /\ UNCHANGED <<keys, rpcDeployed>> /\ faults' >= faults
<1>0. RouteOf(c) /\ faults \in Nat
  BY DEF Routes, BalanceTypeOK
<1> USE <1>0, Elsewhere DEF RouteOf, CheckoutLabels, CheckoutCalls, Over, EndpointKinds, balanceVars
<1>1. CASE EndpointBegins(c) \/ CancelsLater(c)
  BY <1>1 DEF EndpointBegins, CancelsLater
<1>2. CASE FindsUser(c) \/ ReadsInvoice(c)
  BY <1>2 DEF FindsUser, ReadsInvoice
<1>3. CASE WritesMember(c) \/ DeactivatesPlans(c) \/ InsertsPlan(c) \/ WritesKeys(c)
  BY <1>3 DEF WritesMember, DeactivatesPlans, InsertsPlan, WritesKeys
<1>4. CASE LooksUpAllowance(c) \/ ReadsRemaining(c) \/ AllowanceEnds(c)
  BY <1>4 DEF LooksUpAllowance, ReadsRemaining, AllowanceEnds
<1>5. CASE LogsChange(c)
  BY <1>5 DEF LogsChange, LogUsage, Lose, LogTries
<1> QED BY <1>1, <1>2, <1>3, <1>4, <1>5 DEF SubscriptionStep

LEMMA JobLabels ==
    ASSUME BalanceTypeOK, NEW j, JobStep(j)
    PROVE  UNCHANGED <<keys, rpcDeployed>> /\ faults' >= faults
<1>0. faults \in Nat
  BY DEF BalanceTypeOK
<1>1. CASE JobReads(j)
  BY <1>0, <1>1 DEF JobReads, RowUntouched, Answered, Lose
<1>2. CASE JobWrites(j)
  BY <1>0, <1>2 DEF JobWrites, RowUntouched, SetAllowance, Answered, Lose
<1>3. CASE JobLogs(j)
  BY <1>0, <1>3 DEF JobLogs, LogUsage, Lose, LogTries
<1> QED BY <1>1, <1>2, <1>3 DEF JobStep

-----------------------------------------------------------------------------

\* A step of a grant, on the grants already made: none is taken back, a key that
\* is written has been granted, and so has a grant that returns.
LEMMA GrantEffects ==
    ASSUME GrantTypeOK, CreditInv, NEW d \in Deliveries, GrantStep(d) \/ OrphanGrants(d)
    PROVE  /\ \A k \in Keys : grants'[k] >= grants[k]
           /\ \A k \in keys' : grants'[k] >= 1
           /\ \A e \in Deliveries \ {d} : gpc'[e] = gpc[e]
           /\ gpc'[d] = "log" => gpc[d] = "log" \/ grants'[Key[d]] >= 1
           /\ gpc'[d] = "done" => gpc[d] = "done" \/ grants'[Key[d]] >= 1
<1>0. /\ Key[d] \in Keys
      /\ \A k \in keys : k \in Keys /\ grants[k] >= 1
      /\ gpc[d] = "log" => grants[Key[d]] >= 1
      /\ \A k \in Keys : grants[k] \in Nat
  BY KeyOf DEF CreditInv, GrantTypeOK
<1>c. CountGrant(d) =>
        /\ grants'[Key[d]] = grants[Key[d]] + 1
        /\ \A k \in Keys \ {Key[d]} : grants'[k] = grants[k]
  BY <1>0 DEF CountGrant, GrantTypeOK
<1>g. \A label : GrantGoto(d, label) =>
        gpc'[d] = label /\ \A e \in Deliveries \ {d} : gpc'[e] = gpc[e]
  BY DEF GrantGoto, GrantTypeOK
<1>a. AtomicGrant(d) =>
        /\ \A k \in Keys : grants'[k] >= grants[k]
        /\ \A k \in keys' : grants'[k] >= 1
        /\ grants'[Key[d]] >= 1
  BY <1>0, <1>c DEF AtomicGrant, AtomicAdd
<1>1. CASE GrantRpc(d) \/ OrphanGrants(d)
  BY <1>1, <1>a, <1>g DEF GrantRpc, OrphanGrants
<1>2. CASE GrantUnanswered(d) \/ GrantReads(d)
  BY <1>2, <1>0, <1>g DEF GrantUnanswered, GrantReads, RowUntouched
<1>3. CASE GrantUpdates(d)
  <2>1. CASE CountGrant(d)
    BY <1>3, <2>1, <1>0, <1>c, <1>g DEF GrantUpdates, BlindAdd, RowUntouched
  <2>2. CASE UNCHANGED grants
    BY <1>3, <2>2, <1>0, <1>c, <1>g DEF GrantUpdates, BlindAdd, RowUntouched
  <2> QED BY <1>3, <2>1, <2>2 DEF GrantUpdates
<1>4. CASE GrantLogs(d)
  BY <1>4, <1>0, <1>g DEF GrantLogs
<1> QED BY <1>1, <1>2, <1>3, <1>4 DEF GrantStep

\* With the stored procedure answering, a step of a grant is its one call.
LEMMA QuietGrant ==
    ASSUME BalanceTypeOK, GrantTypeOK, OnceInv, NEW d \in Deliveries,
           GrantStep(d) \/ OrphanGrants(d), Quiet'
    PROVE  /\ Quiet /\ GrantRpc(d)
           /\ gorphans' = {}
           /\ \A e \in Deliveries : gpc'[e] \in {"call", "done"}
           /\ \A k \in Keys : grants'[k] = IF k \in keys' THEN 1 ELSE 0
           /\ keys' \subseteq keys \union {Key[d]}
<1>1. faults = 0 /\ ~Lose(1) /\ rpcDeployed
  <2>1. faults \in Nat /\ faults' = 0 /\ rpcDeployed'
    BY DEF BalanceTypeOK, Quiet
  <2>2. ~Lose(1)
    BY <2>1 DEF Lose
  <2>3. Answered
    BY <2>2 DEF GrantStep, GrantRpc, GrantUnanswered, GrantReads, GrantUpdates, GrantLogs,
            OrphanGrants
  <2>4. UNCHANGED rpcDeployed
    BY DEF GrantStep, GrantRpc, GrantUnanswered, GrantReads, GrantUpdates, GrantLogs,
           OrphanGrants, AtomicGrant, AtomicAdd, RowUntouched, BlindAdd
  <2> QED BY <2>1, <2>2, <2>3, <2>4 DEF Answered
<1>2. Quiet
  BY <1>1 DEF Quiet
<1>3. gorphans = {} /\ gpc[d] \in {"call", "done"}
  BY <1>2 DEF OnceInv
<1>4. GrantRpc(d)
  BY <1>1, <1>3 DEF GrantStep, GrantUnanswered, GrantReads, GrantUpdates, GrantLogs, OrphanGrants
<1>5. \A e \in Deliveries : gpc'[e] \in {"call", "done"}
  BY <1>2, <1>4 DEF OnceInv, GrantRpc, GrantGoto, GrantTypeOK
<1>6. keys' \subseteq keys \union {Key[d]}
  BY <1>4 DEF GrantRpc, AtomicGrant, AtomicAdd
<1>7. \A k \in Keys : grants'[k] = IF k \in keys' THEN 1 ELSE 0
  <2>1. Key[d] \in Keys /\ \A k \in Keys : grants[k] = IF k \in keys THEN 1 ELSE 0
    BY <1>2, KeyOf DEF OnceInv
  <2>2. CASE Key[d] \in keys
    BY <1>4, <2>1, <2>2 DEF GrantRpc, AtomicGrant, AtomicAdd
  <2>3. CASE Key[d] \notin keys
    BY <1>4, <2>1, <2>3 DEF GrantRpc, AtomicGrant, AtomicAdd, CountGrant, GrantTypeOK
  <2> QED BY <2>2, <2>3
<1> QED BY <1>2, <1>3, <1>4, <1>5, <1>6, <1>7 DEF GrantRpc

LEMMA GrantKeeps ==
    ASSUME BalanceTypeOK, GrantTypeOK, PayInv, NEW d \in Deliveries,
           Grant(d) \/ OrphanGrants(d), UNCHANGED <<cpc, payVars>>
    PROVE  PayInv'
<1>0. GrantStep(d) \/ OrphanGrants(d)
  BY DEF Grant
<1>1. CreditInv /\ OnceInv
  BY DEF PayInv
<1>2. /\ \A k \in Keys : grants'[k] >= grants[k] /\ grants[k] \in Nat /\ grants'[k] \in Nat
      /\ \A k \in keys' : grants'[k] >= 1
      /\ \A e \in Deliveries \ {d} : gpc'[e] = gpc[e]
      /\ gpc'[d] = "log" => gpc[d] = "log" \/ grants'[Key[d]] >= 1
      /\ gpc'[d] = "done" => gpc[d] = "done" \/ grants'[Key[d]] >= 1
  <2>1. grants' \in [Keys -> Nat]
    BY <1>0, GrantTypeStep DEF GrantTypeOK
  <2> QED BY <1>0, <1>1, <2>1, GrantEffects DEF GrantTypeOK
<1>3. \A p : Paid(p) => Paid(p)'
  BY <1>2 DEF Paid
<1>4. CreditInv'
  <2>1. (\A e \in Deliveries : gpc[e] = "log" => grants[Key[e]] >= 1)'
    BY <1>1, <1>2, KeyOf DEF CreditInv
  <2>2. ASSUME NEW c \in CheckoutCalls, cpc'[c] = "granting", gpc'[Purchase(c)] = "done"
        PROVE  Paid(Payment[c])'
    <3>1. /\ Purchase(c) \in Deliveries /\ Key[Purchase(c)] = SessionKey(Payment[c])
          /\ SessionKey(Payment[c]) \in Keys
      BY KeyOf
    <3>2. gpc[Purchase(c)] = "done" \/ grants'[SessionKey(Payment[c])] >= 1
      BY <1>2, <2>2, <3>1
    <3>3. gpc[Purchase(c)] = "done" => Paid(Payment[c])
      BY <1>1, <2>2 DEF CreditInv
    <3> QED BY <1>3, <3>1, <3>2, <3>3 DEF Paid
  <2>3. (\A c \in CheckoutCalls :
           /\ cpc[c] = "granting" /\ gpc[Purchase(c)] = "done" => Paid(Payment[c])
           /\ cpc[c] \in Granted => Paid(Payment[c]))'
    BY <1>1, <1>3, <2>2 DEF CreditInv, CheckoutCalls
  <2>4. (\A c \in Calls : cpc[c] = "settle" => Payment[c] \in intentSaved)'
    BY <1>1 DEF CreditInv, payVars
  <2>5. (/\ \A p \in intentSaved \ IntentFirst : Paid(p)
         /\ \A p \in Payments \ IntentFirst : payStatus[p] = "completed" => Paid(p))'
    BY <1>1, <1>3 DEF CreditInv, payVars
  <2> QED BY <1>2, <2>1, <2>3, <2>4, <2>5 DEF CreditInv
<1>5. OnceInv'
  <2>1. /\ \A p \in intentSaved' \ Excused' : payStatus'[p] = "completed"
        /\ \A c \in Calls : Kind[c] = "succeeded" /\ cpc'[c] \in {"settle", "granting"} =>
              Payment[c] \in Excused'
        /\ Excused' = Excused
    BY <1>1 DEF OnceInv, Excused, payVars
  <2>2. ASSUME Quiet', NEW p \in Payments \ Excused, IntentKey(p) \in keys' PROVE FALSE
    <3>1. Quiet /\ GrantRpc(d) /\ keys' \subseteq keys \union {Key[d]}
      BY <1>0, <1>1, <2>2, QuietGrant
    <3>2. Key[d] = IntentKey(p)
      BY <1>1, <2>2, <3>1 DEF OnceInv
    <3>3. d[2] = "purchase" /\ Kind[d[1]] = "succeeded" /\ p = Payment[d[1]] /\ d[1] \in Calls
      BY <3>2, KeyOf
    <3>4. d \notin gorphans
      BY <1>1, <3>1 DEF OnceInv
    <3>5. cpc[d[1]] = "granting"
      BY <3>3, <3>4 DEF Grant, OrphanGrants
    <3> QED BY <1>1, <2>2, <3>3, <3>5 DEF OnceInv
  <2> QED BY <1>0, <1>1, <2>1, <2>2, QuietGrant DEF OnceInv
<1> QED BY <1>4, <1>5 DEF PayInv

-----------------------------------------------------------------------------

LEMMA PayInvInit == Init => PayInv
<1> SUFFICES ASSUME Init PROVE PayInv
  OBVIOUS
<1>1. /\ keys = {} /\ gorphans = {} /\ intentSaved = IntentFirst
      /\ \A d \in Deliveries : gpc[d] = "done"
      /\ \A k \in Keys : grants[k] = 0
      /\ \A p \in Payments : payStatus[p] = "pending"
  BY DEF Init, PayInit, BalanceInit
<1>2. \A c \in Calls : cpc[c] \in {"start", "never"}
  BY DEF Init, CallInit
<1>3. CreditInv
  BY <1>1, <1>2 DEF CreditInv, CheckoutCalls, Granted
<1>4. OnceInv
  BY <1>1, <1>2 DEF OnceInv, Excused
<1> QED BY <1>3, <1>4 DEF PayInv

LEMMA PayInvStep == TypeOK /\ Routes /\ PayInv /\ [Next]_vars => PayInv'
<1> SUFFICES ASSUME TypeOK, Routes, PayInv, [Next]_vars PROVE PayInv'
  OBVIOUS
<1>0. /\ CallTypeOK /\ PayTypeOK /\ BalanceTypeOK /\ GrantTypeOK
      /\ faults \in Nat
      /\ gorphans \subseteq Deliveries
  BY TypeParts DEF AccountTypeOK, BalanceTypeOK, GrantTypeOK
<1>1. CASE UNCHANGED vars
  BY <1>0, <1>1, OthersKeep DEF vars, callVars, balanceVars, historyVars
<1>2. ASSUME NEW c \in Calls, Handle(c) PROVE PayInv'
  <2>1. CASE FrameStep(c) /\ UNCHANGED <<payVars, grantVars, balanceVars>>
    BY <1>0, <2>1, FrameLabels, PlanMoves, OthersKeep DEF balanceVars, historyVars
  <2>2. CASE PaymentStep(c)
    BY <1>0, <2>2, PaymentKeeps
  <2>3. CASE SubscriptionStep(c) /\ UNCHANGED <<payVars, grantVars>>
    BY <1>0, <2>3, SubscriptionLabels, PlanMoves, OthersKeep
  <2> QED BY <1>2, <2>1, <2>2, <2>3 DEF Handle
<1>3. ASSUME NEW d \in Deliveries, Grant(d) \/ LateGrant(d) PROVE PayInv'
  BY <1>0, <1>3, GrantKeeps DEF Grant, LateGrant, callVars
<1>4. ASSUME NEW j, ChangeAllowance(j) PROVE PayInv'
  BY <1>0, <1>4, JobLabels, OthersKeep DEF ChangeAllowance, callVars
<1>5. CASE Next
  BY <1>0, <1>2, <1>3, <1>4, <1>5, Steps DEF Next
<1> QED BY <1>1, <1>5

THEOREM PayInvAlways == Spec => []PayInv
<1>1. Spec => [](TypeOK /\ ClaimInv)
  BY TypeCorrect, ClaimInvAlways, PTL
<1>2. ClaimInv => Routes
  BY DEF ClaimInv
<1> QED BY <1>1, <1>2, PayInvInit, PayInvStep, PTL DEF Spec

\* A payment of a checkout session that is marked completed has been credited,
\* whatever failed and whichever process died on the way.
THEOREM CompletedIsCredited == Spec => []CompletedSessionIsCredited
<1>1. PayInv => CompletedSessionIsCredited
  BY DEF PayInv, CreditInv, CompletedSessionIsCredited, Paid
<1> QED BY <1>1, PayInvAlways, PTL

\* A delivery or a poll that ends well leaves its payment credited.
THEOREM FinishedIsCredited == Spec => []FinishedMeansCredited
<1>1. PayInv => FinishedMeansCredited
  BY DEF PayInv, CreditInv, FinishedMeansCredited, Paid, CheckoutCalls, Granted
<1> QED BY <1>1, PayInvAlways, PTL

\* With the stored procedure answering, a payment is credited at most once
\* under both of its keys together, for any deliveries and polls, unless its
\* completion was undone.
THEOREM NeverCreditedTwice == Spec => []CreditedAtMostOnce
<1>1. TypeOK /\ PayInv => CreditedAtMostOnce
  <2> SUFFICES ASSUME TypeOK, PayInv, Quiet, NEW p \in Payments \ reopened
               PROVE  GrantsOf(SessionKey(p)) + GrantsOf(IntentKey(p)) <= 1
    BY DEF CreditedAtMostOnce, Quiet
  <2>1. \A k : GrantsOf(k) \in {0, 1} /\ (k \notin keys \/ k \notin Keys => GrantsOf(k) = 0)
    BY DEF PayInv, OnceInv, GrantsOf
  <2>2. CASE p \in IntentFirst
    BY <2>1, <2>2, KeyOf
  <2>3. CASE p \notin IntentFirst
    BY <2>1, <2>3 DEF PayInv, OnceInv, Excused
  <2> QED BY <2>2, <2>3
<1>2. Spec => [](TypeOK /\ PayInv)
  BY TypeCorrect, PayInvAlways, PTL
<1> QED BY <1>1, <1>2, PTL

-----------------------------------------------------------------------------

\* Between the decision on a bonus and the mark of the first purchase.
Deciding(c) == cpc[c] \in {"bonus", "mark"}

BonusGranted(p) == BonusKey(p) \in Keys /\ grants[BonusKey(p)] >= 1

\* One call at a time decides, before the mark; a bonus granted without the
\* mark is that of the call, and there is no other.
BonusInv ==
    Undisturbed /\ ~rushed =>
        /\ gorphans = {}
        /\ \A d \in Deliveries : gpc[d] /= "failed"
        /\ \A c \in Calls : Deciding(c) =>
              ~firstPurchase /\ \A e \in Calls : Deciding(e) => e = c
        /\ \A p \in Payments : BonusGranted(p) =>
              firstPurchase \/ \E c \in Calls : Deciding(c) /\ Payment[c] = p
        /\ \A p, q \in Payments : BonusGranted(p) /\ BonusGranted(q) => p = q

\* What a statement about a payment does to the decision on a bonus: it does
\* not concern it, takes it, goes on with it, or ends it with the mark.
PaysBonus(c) ==
    /\ ~rushed' => ~rushed
    /\ ~rushed' /\ Deciding(c)' =>
          /\ firstPurchase' = firstPurchase
          /\ Deciding(c) \/ (~firstPurchase /\ \A e \in Calls : ~Deciding(e))
    /\ firstPurchase' = firstPurchase \/ (firstPurchase' /\ Deciding(c))
    /\ Deciding(c) =>
          Deciding(c)' \/ firstPurchase' \/ gpc[Bonus(c)] = "failed" \/ outages' > outages

LEMMA PaymentDecides ==
    ASSUME CallTypeOK, PayTypeOK, Routes, NEW c \in Calls, PaymentStep(c)
    PROVE  PaysBonus(c)
<1>0. outages \in Nat /\ rushed \in BOOLEAN /\ firstPurchase \in BOOLEAN
  BY DEF CallTypeOK, PayTypeOK
<1>1. CASE PollBegins(c) \/ FindsSession(c) \/ Guard(c) \/ GrantRaises(c) \/ Completes(c)
  BY <1>1, Elsewhere
  DEF PaysBonus, Deciding, payVars, PollBegins, FindsSession, Guard, GrantRaises, Completes
<1>2. CASE ReadsTrial(c) \/ ConvertsTrial(c) \/ ConvertsKeys(c)
  BY <1>2, Elsewhere DEF PaysBonus, Deciding, payVars, ReadsTrial, ConvertsTrial, ConvertsKeys
<1>3. CASE ReadsFirst(c)
  <2>1. ~Deciding(c) /\ firstPurchase' = firstPurchase
    BY <1>3 DEF ReadsFirst, Deciding
  <2>2. CASE ~firstPurchase /\ rushed' = (rushed \/ \E d \in Calls : Deciding(d))
    <3>1. ~rushed' => ~rushed /\ \A e \in Calls : ~Deciding(e)
      BY <2>2
    <3> QED BY <2>1, <2>2, <3>1 DEF PaysBonus
  <2>3. CASE Goto(c, "done") /\ UNCHANGED rushed
    <3>1. ~Deciding(c)'
      BY <2>3, Elsewhere DEF Deciding
    <3> QED BY <2>1, <2>3, <3>1 DEF PaysBonus
  <2> QED BY <1>3, <2>2, <2>3 DEF ReadsFirst, Deciding
<1>4. CASE BonusEnds(c)
  <2>1. firstPurchase' = firstPurchase /\ rushed' = rushed /\ Deciding(c)
    BY <1>4 DEF BonusEnds, payVars, Deciding
  <2>2. CASE gpc[Bonus(c)] = "failed"
    BY <2>1, <2>2 DEF PaysBonus
  <2>3. CASE gpc[Bonus(c)] = "done"
    <3>1. Goto(c, "mark")
      BY <1>4, <2>3 DEF BonusEnds
    <3>2. Deciding(c)'
      BY <3>1, Elsewhere DEF Deciding
    <3> QED BY <2>1, <3>2 DEF PaysBonus
  <2> QED BY <1>4, <2>2, <2>3 DEF BonusEnds
<1>5. CASE MarksFirst(c)
  BY <1>0, <1>5, Elsewhere DEF PaysBonus, Deciding, MarksFirst, Up, Down
<1>6. CASE LooksUpIntent(c) \/ MarksSucceeded(c) \/ IntentGranted(c) \/ MarksFailed(c)
  BY <1>6, Elsewhere
  DEF PaysBonus, Deciding, payVars, LooksUpIntent, MarksSucceeded, IntentGranted, MarksFailed
<1> QED BY <1>1, <1>2, <1>3, <1>4, <1>5, <1>6 DEF PaymentStep

\* The key of the bonus of a payment is that of no other grant.
LEMMA BonusKeys ==
    /\ \A p, q : BonusKey(p) = BonusKey(q) => p = q
    /\ \A d \in Deliveries : \A p : Key[d] = BonusKey(p) =>
          d[2] = "bonus" /\ p = Payment[d[1]]
    /\ \A k \in Keys : k[1] = "bonus" => \E p \in Payments : k = BonusKey(p)
<1>1. \A p, q : BonusKey(p) = BonusKey(q) => p = q
  BY DEF BonusKey
<1>2. ASSUME NEW d \in Deliveries
      PROVE  /\ Key[d] \in {BonusKey(Payment[d[1]]), IntentKey(Payment[d[1]]),
                            SessionKey(Payment[d[1]])}
             /\ Key[d] = BonusKey(Payment[d[1]]) => d[2] = "bonus"
             /\ Payment[d[1]] \in Payments
  <2>1. d[1] \in Credits /\ d[1] \in Calls /\ d[2] \in {"purchase", "bonus"}
    BY DEF GrantCalls, Credits
  <2>2. Key[d] = IF d[2] = "bonus" THEN BonusKey(Payment[d[1]])
                 ELSE IF Kind[d[1]] = "succeeded" THEN IntentKey(Payment[d[1]])
                 ELSE SessionKey(Payment[d[1]])
    BY DEF GrantKeys
  <2> QED BY <2>1, <2>2, Names
<1>3. \A p : SessionKey(p)[1] /= "bonus" /\ IntentKey(p)[1] /= "bonus"
  BY DEF SessionKey, IntentKey
<1> QED BY <1>1, <1>2, <1>3, Names DEF Keys

LEMMA BonusInit == Init => BonusInv
<1> SUFFICES ASSUME Init PROVE BonusInv
  OBVIOUS
<1>1. /\ gorphans = {}
      /\ \A d \in Deliveries : gpc[d] = "done"
      /\ \A k \in Keys : grants[k] = 0
  BY DEF Init, PayInit
<1>2. \A c \in Calls : cpc[c] \in {"start", "never"}
  BY DEF Init, CallInit
<1> QED BY <1>1, <1>2 DEF BonusInv, Deciding, BonusGranted

\* A statement about a payment keeps the invariant.
LEMMA PaymentBonus ==
    ASSUME CallTypeOK, PayTypeOK, BalanceTypeOK, GrantTypeOK, Routes, ClaimsHeld, PayInv,
           BonusInv, NEW c \in Calls, PaymentStep(c), Undisturbed', ~rushed'
    PROVE  BonusInv'
<1>1. PaysBonus(c) /\ PaysGrants(c)
  BY PaymentDecides, PaymentPays
<1>2. /\ \A e \in Calls \ {c} : cpc'[e] = cpc[e]
      /\ cpc[c] \notin Over
      /\ outages' >= outages /\ faults' = faults
  BY PlanMoves, PaymentMoves, PaymentTypes DEF balanceVars, Moved
<1>3. Undisturbed /\ ~rushed /\ outages' = 0 /\ outages = 0
  BY <1>1, <1>2, Disturbed DEF PaysBonus, Over, BalanceTypeOK
<1>4. /\ gorphans = {}
      /\ \A d \in Deliveries : gpc[d] /= "failed"
      /\ \A d \in Calls : Deciding(d) =>
            ~firstPurchase /\ \A e \in Calls : Deciding(e) => e = d
      /\ \A p \in Payments : BonusGranted(p) =>
            firstPurchase \/ \E d \in Calls : Deciding(d) /\ Payment[d] = p
      /\ \A p, q \in Payments : BonusGranted(p) /\ BonusGranted(q) => p = q
  BY <1>3 DEF BonusInv
<1>5. \A p : BonusGranted(p)' <=> BonusGranted(p)
  BY <1>1 DEF BonusGranted, PaysGrants
<1>6. \A e \in Calls \ {c} : Deciding(e)' <=> Deciding(e)
  BY <1>2 DEF Deciding
<1>7. Deciding(c) => Bonus(c) \in Deliveries
  <2>1. Deciding(c) => c \in CheckoutCalls
    BY DEF Routes, RouteOf, Deciding, CheckoutLabels
  <2> QED BY <2>1, KeyOf
<1>8. Deciding(c) => Deciding(c)' \/ firstPurchase'
  BY <1>1, <1>3, <1>4, <1>7 DEF PaysBonus
<1>9. gorphans' = {} /\ \A d \in Deliveries : gpc'[d] /= "failed"
  BY <1>1, <1>4 DEF PaysGrants
<1>10. ASSUME NEW d \in Calls, Deciding(d)'
       PROVE  ~firstPurchase' /\ \A e \in Calls : Deciding(e)' => e = d
  <2>1. CASE Deciding(d)
    BY <1>1, <1>4, <1>6, <1>10, <2>1 DEF PaysBonus
  <2>2. CASE ~Deciding(d)
    BY <1>1, <1>4, <1>6, <1>10, <2>2 DEF PaysBonus
  <2> QED BY <2>1, <2>2
<1>11. ASSUME NEW p \in Payments, BonusGranted(p)'
       PROVE  firstPurchase' \/ \E d \in Calls : Deciding(d)' /\ Payment[d] = p
  <2>1. CASE firstPurchase
    BY <1>1, <2>1 DEF PaysBonus
  <2>2. CASE ~firstPurchase
    <3>1. PICK d \in Calls : Deciding(d) /\ Payment[d] = p
      BY <1>4, <1>5, <1>11, <2>2
    <3> QED BY <1>6, <1>8, <3>1
  <2> QED BY <2>1, <2>2
<1> QED BY <1>4, <1>5, <1>9, <1>10, <1>11 DEF BonusInv

\* A grant that loses no reply neither fails nor leaves an orphan, and counts
\* its own key.
LEMMA CalmGrant ==
    ASSUME BalanceTypeOK, GrantTypeOK, NEW d \in Deliveries, GrantStep(d)
    PROVE  /\ faults' >= faults
           /\ \A k \in Keys \ {Key[d]} : grants'[k] = grants[k]
           /\ faults' = faults =>
                 /\ gorphans' \subseteq gorphans
                 /\ \A e \in Deliveries : gpc[e] /= "failed" => gpc'[e] /= "failed"
<1>0. faults \in Nat
  BY DEF BalanceTypeOK
<1>c. CountGrant(d) \/ UNCHANGED grants =>
        \A k \in Keys \ {Key[d]} : grants'[k] = grants[k]
  BY DEF CountGrant, GrantTypeOK
<1>g. \A label : GrantGoto(d, label) =>
        gpc'[d] = label /\ \A e \in Deliveries \ {d} : gpc'[e] = gpc[e]
  BY DEF GrantGoto, GrantTypeOK
<1>1. CASE GrantRpc(d)
  BY <1>0, <1>1, <1>c, <1>g DEF GrantRpc, AtomicGrant, Answered
<1>2. CASE GrantUnanswered(d)
  BY <1>0, <1>2, <1>c, <1>g DEF GrantUnanswered, Answered, Lose
<1>3. CASE GrantReads(d)
  BY <1>0, <1>3, <1>c, <1>g DEF GrantReads, Answered, Lose
<1>4. CASE GrantUpdates(d)
  BY <1>0, <1>4, <1>c, <1>g DEF GrantUpdates, Answered, Lose
<1>5. CASE GrantLogs(d)
  BY <1>0, <1>5, <1>c, <1>g DEF GrantLogs, Answered, Lose
<1> QED BY <1>1, <1>2, <1>3, <1>4, <1>5 DEF GrantStep

LEMMA GrantBonus ==
    ASSUME CallTypeOK, BalanceTypeOK, GrantTypeOK, BonusInv, NEW d \in Deliveries, Grant(d),
           Undisturbed', ~rushed'
    PROVE  BonusInv'
<1>1. UNCHANGED <<cpc, outages, rushed, firstPurchase>>
  BY DEF Grant, callVars, payVars
<1>2. /\ faults' >= faults
      /\ \A k \in Keys \ {Key[d]} : grants'[k] = grants[k]
      /\ faults' = faults =>
            /\ gorphans' \subseteq gorphans
            /\ \A e \in Deliveries : gpc[e] /= "failed" => gpc'[e] /= "failed"
  BY CalmGrant DEF Grant
<1>3. Undisturbed /\ ~rushed /\ faults' = faults
  BY <1>1, <1>2, Disturbed DEF CallTypeOK
<1>4. /\ gorphans = {}
      /\ \A e \in Deliveries : gpc[e] /= "failed"
      /\ \A c \in Calls : Deciding(c) =>
            ~firstPurchase /\ \A e \in Calls : Deciding(e) => e = c
      /\ \A p \in Payments : BonusGranted(p) =>
            firstPurchase \/ \E c \in Calls : Deciding(c) /\ Payment[c] = p
      /\ \A p, q \in Payments : BonusGranted(p) /\ BonusGranted(q) => p = q
  BY <1>3 DEF BonusInv
<1>5. \A c \in Calls : Deciding(c)' <=> Deciding(c)
  BY <1>1 DEF Deciding
<1>6. gorphans' = {} /\ \A e \in Deliveries : gpc'[e] /= "failed"
  BY <1>2, <1>3, <1>4
<1>7. d[1] \in Calls
  BY KeyOf
<1>8. \A p \in Payments : BonusGranted(p)' =>
         \/ BonusGranted(p)
         \/ Deciding(d[1]) /\ Payment[d[1]] = p
  BY <1>2, BonusKeys DEF BonusGranted, Grant, Deciding
<1>9. \A p \in Payments : BonusGranted(p)' =>
         firstPurchase' \/ \E c \in Calls : Deciding(c)' /\ Payment[c] = p
  BY <1>1, <1>4, <1>5, <1>7, <1>8
<1>10. ASSUME NEW p \in Payments, NEW q \in Payments, BonusGranted(p)', BonusGranted(q)'
       PROVE  p = q
  <2>1. CASE Deciding(d[1])
    BY <1>4, <1>7, <1>8, <1>10, <2>1
  <2>2. CASE ~Deciding(d[1])
    BY <1>4, <1>8, <1>10, <2>2
  <2> QED BY <2>1, <2>2
<1> QED BY <1>1, <1>4, <1>5, <1>6, <1>9, <1>10 DEF BonusInv

\* A step that leaves the grants, the payments and the decisions alone.
LEMMA OthersBonus ==
    ASSUME CallTypeOK, BalanceTypeOK, BonusInv, UNCHANGED <<payVars, grantVars>>,
           faults' >= faults, outages' >= outages, Undisturbed', ~rushed',
           \A c \in Calls : cpc[c] = "crashed" => cpc'[c] = "crashed",
           \A c \in Calls : Deciding(c)' <=> Deciding(c)
    PROVE  BonusInv'
<1>1. Undisturbed /\ ~rushed
  BY Disturbed DEF payVars
<1>2. \A p : BonusGranted(p)' <=> BonusGranted(p)
  BY DEF BonusGranted, grantVars
<1> QED BY <1>1, <1>2 DEF BonusInv, payVars, grantVars

LEMMA FrameBonus ==
    ASSUME CallTypeOK, NEW c \in Calls, FrameStep(c), Undisturbed'
    PROVE  /\ outages' >= outages
           /\ \A e \in Calls : cpc[e] = "crashed" => cpc'[e] = "crashed"
           /\ \A e \in Calls : Deciding(e)' <=> Deciding(e)
<1>1. /\ \A e \in Calls \ {c} : cpc'[e] = cpc[e]
      /\ outages' >= outages
      /\ \/ /\ cpc[c] \in {"start", "release"}
            /\ cpc'[c] \in {"find", "skipped", "failed"}
         \/ Running(c) /\ cpc'[c] = "crashed"
  <2>0. outages \in Nat
    BY DEF CallTypeOK
  <2>1. CASE ClaimEvent(c)
    <3>1. Up \/ Down
      BY <2>1 DEF ClaimEvent
    <3>2. cpc[c] = "start" /\ (Goto(c, "find") \/ Goto(c, "skipped"))
      BY <2>1 DEF ClaimEvent
    <3> QED BY <2>0, <3>1, <3>2, Elsewhere DEF Up, Down
  <2>2. CASE ReleaseEvent(c)
    <3>1. Up \/ Down
      BY <2>2 DEF ReleaseEvent
    <3>2. cpc[c] = "release" /\ Goto(c, "failed")
      BY <2>2 DEF ReleaseEvent
    <3> QED BY <2>0, <3>1, <3>2, Elsewhere DEF Up, Down
  <2>3. CASE Crash(c)
    BY <2>0, <2>3, Elsewhere DEF Crash
  <2> QED BY <2>1, <2>2, <2>3 DEF FrameStep
<1>2. cpc'[c] /= "crashed"
  BY DEF Undisturbed, Died
<1> QED BY <1>1, <1>2 DEF Deciding, Running, Over

LEMMA BonusStep ==
    TypeOK /\ ClaimInv /\ PayInv /\ BonusInv /\ [Next]_vars => BonusInv'
<1> SUFFICES ASSUME TypeOK, ClaimInv, PayInv, BonusInv, [Next]_vars, Undisturbed', ~rushed'
             PROVE  BonusInv'
  BY DEF BonusInv
<1>0. /\ CallTypeOK /\ PayTypeOK /\ BalanceTypeOK /\ GrantTypeOK
      /\ Routes /\ ClaimsHeld
      /\ faults \in Nat /\ outages \in Nat
  BY TypeParts DEF AccountTypeOK, BalanceTypeOK, ClaimInv, CallTypeOK
<1>1. CASE UNCHANGED vars
  <2>1. UNCHANGED <<payVars, grantVars, cpc, outages, faults>>
    BY <1>1 DEF vars, callVars, balanceVars
  <2> QED BY <1>0, <2>1, OthersBonus DEF Deciding
<1>2. ASSUME NEW c \in Calls, Handle(c) PROVE BonusInv'
  <2>1. CASE FrameStep(c) /\ UNCHANGED <<payVars, grantVars, balanceVars>>
    BY <1>0, <2>1, FrameBonus, OthersBonus DEF balanceVars
  <2>2. CASE PaymentStep(c)
    BY <1>0, <2>2, PaymentBonus
  <2>3. CASE SubscriptionStep(c) /\ UNCHANGED <<payVars, grantVars>>
    <3>1. /\ \A e \in Calls \ {c} : cpc'[e] = cpc[e]
          /\ cpc[c] \notin Over /\ outages' >= outages /\ faults' >= faults
          /\ c \notin CheckoutCalls
          /\ RouteOf(c) /\ RouteOf(c)'
      BY <1>0, <2>3, SubscriptionMoves, SubscriptionLabels DEF Moved, Routes
    <3>2. ~Deciding(c) /\ ~Deciding(c)'
      BY <3>1 DEF RouteOf, CheckoutLabels, Deciding
    <3>3. /\ \A e \in Calls : cpc[e] = "crashed" => cpc'[e] = "crashed"
          /\ \A e \in Calls : Deciding(e)' <=> Deciding(e)
      BY <3>1, <3>2 DEF Over, Deciding
    <3> QED BY <1>0, <2>3, <3>1, <3>3, OthersBonus
  <2> QED BY <1>2, <2>1, <2>2, <2>3 DEF Handle
<1>3. ASSUME NEW d \in Deliveries, Grant(d) PROVE BonusInv'
  BY <1>0, <1>3, GrantBonus
<1>4. ASSUME NEW d \in gorphans, LateGrant(d) PROVE BonusInv'
  <2>1. UNCHANGED <<cpc, outages, faults, rushed>>
    BY <1>4 DEF LateGrant, OrphanGrants, Answered, callVars, payVars
  <2>2. Undisturbed /\ ~rushed
    BY <1>0, <2>1, Disturbed
  <2> QED BY <1>4, <2>2 DEF BonusInv
<1>5. ASSUME NEW c, ChangeAllowance(c) PROVE BonusInv'
  <2>1. UNCHANGED <<payVars, grantVars, cpc, outages>> /\ faults' >= faults
    BY <1>0, <1>5, JobLabels DEF ChangeAllowance, callVars
  <2> QED BY <1>0, <2>1, OthersBonus DEF Deciding
<1> QED BY <1>1, <1>2, <1>3, <1>4, <1>5, Steps DEF Next

THEOREM BonusInvAlways == Spec => []BonusInv
<1>1. Spec => [](TypeOK /\ ClaimInv /\ PayInv)
  BY TypeCorrect, ClaimInvAlways, PayInvAlways, PTL
<1> QED BY <1>1, BonusInit, BonusStep, PTL DEF Spec

\* The bonus of the first purchase is granted once, for any calls, payments and
\* grants, unless two purchases decide on it at the same time or something
\* fails before it is recorded: the grant comes before the mark, and the
\* decision after it.
THEOREM BonusGrantedOnce == Spec => []BonusOnce
<1>1. BonusInv => BonusOnce
  <2> SUFFICES ASSUME BonusInv, Undisturbed, ~rushed,
                      NEW k \in Keys, NEW l \in Keys, k[1] = "bonus", l[1] = "bonus",
                      grants[k] >= 1, grants[l] >= 1
               PROVE  k = l
    BY DEF BonusOnce
  <2>1. PICK p \in Payments, q \in Payments : k = BonusKey(p) /\ l = BonusKey(q)
    BY BonusKeys
  <2>2. BonusGranted(p) /\ BonusGranted(q)
    BY <2>1 DEF BonusGranted
  <2> QED BY <2>1, <2>2 DEF BonusInv
<1> QED BY <1>1, BonusInvAlways, PTL

=============================================================================
