---------------------------- MODULE StripeClaims ----------------------------
(***************************************************************************)
(* Types, claims and plans of StripeWebhook, for any calls, payments and   *)
(* bounds: two deliveries never own one event at once, a claimed event has *)
(* been handled as long as no statement fails, and a user never has two    *)
(* active plans unless two calls rewrite the account at once.              *)
(***************************************************************************)
EXTENDS StripeWebhook, AccountTypes

USE BalanceAssumption, GrantAssumption, JobAssumption, CallAssumption,
    CheckoutAssumption, SubscriptionAssumption

\* The parts of TypeOK, one for each group of variables.
CallTypeOK ==
    /\ cpc \in [Calls -> Labels]
    /\ claim \in [Calls -> {"none", "claimed", "unavailable"}]
    /\ claims \subseteq {Event[c] : c \in Calls}
    /\ outages \in 0..MaxOutages
    /\ member \in Members
    /\ keyRow \in [status : Statuses, plan : Tiers]

PayTypeOK ==
    /\ payStatus \in [Payments -> {"pending", "completed", "failed"}]
    /\ intentSaved \subseteq Payments
    /\ firstPurchase \in BOOLEAN
    /\ seen \in [Calls -> [status : Statuses \union {"none"}, tier : Tiers \union {"none"}]]
    /\ reopened \subseteq Payments
    /\ rushed \in BOOLEAN

PlanTypeOK ==
    /\ activePlans \in Nat
    /\ remaining \in [Calls -> Int]
    /\ spared \subseteq Calls

AccountTypeOK == BalanceTypeOK /\ GrantTypeOK /\ JobTypeOK

LEMMA TypeParts ==
    TypeOK <=> CallTypeOK /\ PayTypeOK /\ PlanTypeOK /\ AccountTypeOK /\ mixed \in BOOLEAN
BY DEF TypeOK, CallTypeOK, PayTypeOK, PlanTypeOK, AccountTypeOK

LEMMA TypePartsPrimed ==
    TypeOK' <=> /\ CallTypeOK' /\ PayTypeOK' /\ PlanTypeOK' /\ AccountTypeOK'
                /\ mixed' \in BOOLEAN
BY DEF TypeOK, CallTypeOK, PayTypeOK, PlanTypeOK, AccountTypeOK

-----------------------------------------------------------------------------

\* A group whose variables stay keeps its type.
LEMMA Frames ==
    /\ CallTypeOK /\ UNCHANGED callVars => CallTypeOK'
    /\ PayTypeOK /\ UNCHANGED payVars => PayTypeOK'
    /\ PlanTypeOK /\ UNCHANGED planVars => PlanTypeOK'
    /\ BalanceTypeOK /\ UNCHANGED balanceVars => BalanceTypeOK'
    /\ GrantTypeOK /\ UNCHANGED grantVars /\ UNCHANGED balanceVars => GrantTypeOK'
    /\ JobTypeOK /\ UNCHANGED jobVars => JobTypeOK'
BY DEF CallTypeOK, PayTypeOK, PlanTypeOK, BalanceTypeOK, GrantTypeOK, JobTypeOK, callVars,
       accountVars, payVars, planVars, balanceVars, rowVars, historyVars, Row, grantVars, jobVars

\* A call goes to a label, or raises.
LEMMA Jumps ==
    ASSUME CallTypeOK, NEW c \in Calls
    PROVE  /\ \A label \in Labels : Goto(c, label) => cpc' \in [Calls -> Labels]
           /\ Raise(c) => cpc' \in [Calls -> Labels]
<1>1. {"failed", "release"} \subseteq Labels
  BY DEF Labels, Over
<1>2. ASSUME NEW label \in Labels, Goto(c, label) PROVE cpc' \in [Calls -> Labels]
  BY <1>2 DEF CallTypeOK, Goto
<1>3. ASSUME Raise(c) PROVE cpc' \in [Calls -> Labels]
  <2>1. Goto(c, "release") \/ Goto(c, "failed")
    BY <1>3 DEF Raise
  <2> QED BY <1>1, <1>2, <2>1
<1> QED BY <1>2, <1>3

\* A statement answers, or fails within the bound.
LEMMA Outages ==
    CallTypeOK /\ (Up \/ Down) => outages' \in 0..MaxOutages
BY DEF CallTypeOK, Up, Down

-----------------------------------------------------------------------------

LEMMA FrameTypes ==
    ASSUME CallTypeOK, NEW c \in Calls, FrameStep(c)
    PROVE  CallTypeOK'
<1>1. CASE ClaimEvent(c)
  <2>1. {"find", "skipped"} \subseteq Labels
    BY DEF Labels, Over
  <2>2. cpc' \in [Calls -> Labels]
    BY <1>1, <2>1, Jumps DEF ClaimEvent
  <2>3. outages' \in 0..MaxOutages
    BY <1>1, Outages DEF ClaimEvent
  <2>4. claims' \subseteq {Event[d] : d \in Calls}
    BY <1>1 DEF ClaimEvent, CallTypeOK
  <2>5. claim' \in [Calls -> {"none", "claimed", "unavailable"}]
    BY <1>1 DEF ClaimEvent, CallTypeOK
  <2> QED BY <1>1, <2>2, <2>3, <2>4, <2>5 DEF ClaimEvent, CallTypeOK, accountVars
<1>2. CASE ReleaseEvent(c)
  <2>1. "failed" \in Labels
    BY DEF Labels, Over
  <2>2. cpc' \in [Calls -> Labels]
    BY <1>2, <2>1, Jumps DEF ReleaseEvent
  <2>3. outages' \in 0..MaxOutages
    BY <1>2, Outages DEF ReleaseEvent
  <2> QED BY <1>2, <2>2, <2>3 DEF ReleaseEvent, CallTypeOK, accountVars
<1>3. CASE Crash(c)
  <2>1. "crashed" \in Labels
    BY DEF Labels, Over
  <2>2. cpc' \in [Calls -> Labels]
    BY <1>3, <2>1, Jumps DEF Crash
  <2> QED BY <1>3, <2>2 DEF Crash, CallTypeOK, accountVars
<1> QED BY <1>1, <1>2, <1>3 DEF FrameStep

\* A handler of a payment keeps the types of the calls and of the payments,
\* and begins a grant or leaves the grants alone.
LEMMA PaymentTypes ==
    ASSUME CallTypeOK, PayTypeOK, GrantTypeOK, NEW c \in Calls, PaymentStep(c)
    PROVE  CallTypeOK' /\ PayTypeOK' /\ GrantTypeOK' /\ UNCHANGED balanceVars
<1>0. /\ {"done", "find", "guard", "granting", "trial", "convert", "convertKeys",
          "bonusRead", "bonus", "mark", "settle"} \subseteq Labels
      /\ Payment[c] \in Payments
      /\ {"inactive"} \subseteq Statuses /\ "inactive" \in Statuses
  BY DEF Labels, Over, Statuses
<1>k. ASSUME NEW d, Invoke(d), UNCHANGED balanceVars PROVE GrantTypeOK'
  BY <1>k DEF GrantTypeOK, Invoke, GrantGoto, GrantPCs, balanceVars
<1>f. UNCHANGED grantVars /\ UNCHANGED balanceVars => GrantTypeOK'
  BY Frames
<1>1. CASE PollBegins(c)
  <2>1. cpc' \in [Calls -> Labels]
    BY <1>0, <1>1, Jumps DEF PollBegins
  <2>2. outages' \in 0..MaxOutages
    BY <1>1, Outages DEF PollBegins, Found
  <2> QED BY <1>1, <1>f, <2>1, <2>2, Frames DEF PollBegins, CallTypeOK, accountVars
<1>2. CASE FindsSession(c)
  <2>1. cpc' \in [Calls -> Labels]
    BY <1>0, <1>2, Jumps DEF FindsSession
  <2>2. outages' \in 0..MaxOutages
    BY <1>2, Outages DEF FindsSession
  <2> QED BY <1>2, <1>f, <2>1, <2>2, Frames DEF FindsSession, CallTypeOK, accountVars
<1>3. CASE Guard(c)
  <2>1. cpc' \in [Calls -> Labels]
    BY <1>0, <1>3, Jumps DEF Guard
  <2>2. outages' \in 0..MaxOutages
    BY <1>3, Outages DEF Guard, Found
  <2>3. GrantTypeOK'
    BY <1>3, <1>f, <1>k DEF Guard
  <2> QED BY <1>3, <2>1, <2>2, <2>3, Frames DEF Guard, CallTypeOK, accountVars
<1>4. CASE GrantRaises(c)
  <2>1. cpc' \in [Calls -> Labels]
    BY <1>4, Jumps DEF GrantRaises
  <2> QED BY <1>4, <1>f, <2>1, Frames DEF GrantRaises, CallTypeOK, accountVars
<1>5. CASE Completes(c)
  <2>1. cpc' \in [Calls -> Labels]
    BY <1>0, <1>5, Jumps DEF Completes
  <2>2. outages' \in 0..MaxOutages
    BY <1>5, Outages DEF Completes
  <2>3. PayTypeOK'
    BY <1>0, <1>5 DEF Completes, PayTypeOK
  <2> QED BY <1>5, <1>f, <2>1, <2>2, <2>3 DEF Completes, CallTypeOK, accountVars
<1>6. CASE ReadsTrial(c)
  <2>1. cpc' \in [Calls -> Labels]
    BY <1>0, <1>6, Jumps DEF ReadsTrial
  <2>2. outages' \in 0..MaxOutages
    BY <1>6, Outages DEF ReadsTrial
  <2>3. PayTypeOK'
    <3> DEFINE read == [status |-> member.status, tier |-> member.tier]
    <3>1. read \in [status : Statuses \union {"none"}, tier : Tiers \union {"none"}]
      BY DEF CallTypeOK, Members
    <3>2. seen' = seen \/ seen' = [seen EXCEPT ![c] = read]
      BY <1>6 DEF ReadsTrial
    <3> HIDE DEF read
    <3> QED BY <1>6, <3>1, <3>2 DEF ReadsTrial, PayTypeOK
  <2> QED BY <1>6, <1>f, <2>1, <2>2, <2>3 DEF ReadsTrial, CallTypeOK, accountVars
<1>7. CASE ConvertsTrial(c)
  <2>1. cpc' \in [Calls -> Labels]
    BY <1>0, <1>7, Jumps DEF ConvertsTrial
  <2>2. outages' \in 0..MaxOutages
    BY <1>7, Outages DEF ConvertsTrial
  <2>3. member' \in Members
    BY <1>0, <1>7 DEF ConvertsTrial, CallTypeOK, Members
  <2> QED BY <1>7, <1>f, <2>1, <2>2, <2>3, Frames DEF ConvertsTrial, CallTypeOK
<1>8. CASE ConvertsKeys(c)
  <2>1. cpc' \in [Calls -> Labels]
    BY <1>0, <1>8, Jumps DEF ConvertsKeys
  <2>2. outages' \in 0..MaxOutages
    BY <1>8, Outages DEF ConvertsKeys
  <2>3. keyRow' \in [status : Statuses, plan : Tiers]
    BY <1>0, <1>8 DEF ConvertsKeys, CallTypeOK
  <2> QED BY <1>8, <1>f, <2>1, <2>2, <2>3, Frames DEF ConvertsKeys, CallTypeOK
<1>9. CASE ReadsFirst(c)
  <2>1. cpc' \in [Calls -> Labels]
    BY <1>0, <1>9, Jumps DEF ReadsFirst
  <2>2. outages' \in 0..MaxOutages
    BY <1>9, Outages DEF ReadsFirst
  <2>3. GrantTypeOK'
    BY <1>9, <1>f, <1>k DEF ReadsFirst
  <2>4. PayTypeOK'
    BY <1>9 DEF ReadsFirst, PayTypeOK
  <2> QED BY <1>9, <2>1, <2>2, <2>3, <2>4 DEF ReadsFirst, CallTypeOK, accountVars
<1>10. CASE BonusEnds(c)
  <2>1. cpc' \in [Calls -> Labels]
    BY <1>0, <1>10, Jumps DEF BonusEnds
  <2> QED BY <1>10, <1>f, <2>1, Frames DEF BonusEnds, CallTypeOK, accountVars
<1>11. CASE MarksFirst(c)
  <2>1. cpc' \in [Calls -> Labels]
    BY <1>0, <1>11, Jumps DEF MarksFirst
  <2>2. outages' \in 0..MaxOutages
    BY <1>11, Outages DEF MarksFirst
  <2>3. PayTypeOK'
    BY <1>11 DEF MarksFirst, PayTypeOK
  <2> QED BY <1>11, <1>f, <2>1, <2>2, <2>3 DEF MarksFirst, CallTypeOK, accountVars
<1>12. CASE LooksUpIntent(c)
  <2>1. cpc' \in [Calls -> Labels]
    BY <1>0, <1>12, Jumps DEF LooksUpIntent
  <2>2. outages' \in 0..MaxOutages
    BY <1>12, Outages DEF LooksUpIntent
  <2> QED BY <1>12, <1>f, <2>1, <2>2, Frames DEF LooksUpIntent, CallTypeOK, accountVars
<1>13. CASE MarksSucceeded(c)
  <2>1. cpc' \in [Calls -> Labels]
    BY <1>0, <1>13, Jumps DEF MarksSucceeded
  <2>2. outages' \in 0..MaxOutages
    BY <1>13, Outages DEF MarksSucceeded
  <2>3. PayTypeOK'
    BY <1>0, <1>13 DEF MarksSucceeded, PayTypeOK
  <2> QED BY <1>13, <1>k, <2>1, <2>2, <2>3 DEF MarksSucceeded, CallTypeOK, accountVars
<1>14. CASE IntentGranted(c)
  <2>1. cpc' \in [Calls -> Labels]
    BY <1>0, <1>14, Jumps DEF IntentGranted
  <2> QED BY <1>14, <1>f, <2>1, Frames DEF IntentGranted, CallTypeOK, accountVars
<1>15. CASE MarksFailed(c)
  <2>1. cpc' \in [Calls -> Labels]
    BY <1>0, <1>15, Jumps DEF MarksFailed
  <2>2. outages' \in 0..MaxOutages
    BY <1>15, Outages DEF MarksFailed
  <2>3. PayTypeOK'
    BY <1>0, <1>15 DEF MarksFailed, PayTypeOK
  <2> QED BY <1>15, <1>f, <2>1, <2>2, <2>3 DEF MarksFailed, CallTypeOK, accountVars
<1> QED
  BY <1>1, <1>2, <1>3, <1>4, <1>5, <1>6, <1>7, <1>8, <1>9, <1>10, <1>11, <1>12, <1>13,
     <1>14, <1>15 DEF PaymentStep

\* A handler of a subscription keeps the types of the calls and of the plans,
\* and begins a job, logs a change, or leaves the account alone.
LEMMA SubscriptionTypes ==
    ASSUME CallTypeOK, PlanTypeOK, BalanceTypeOK, JobTypeOK, NEW c \in Calls,
           SubscriptionStep(c)
    PROVE  CallTypeOK' /\ PlanTypeOK' /\ BalanceTypeOK' /\ JobTypeOK' /\ UNCHANGED keys
<1>0. /\ {"done", "refused", "failed", "touch", "member", "deactivate", "insert", "keys",
          "lookup", "remaining", "allowance", "audit"} \subseteq Labels
      /\ To[c] \in [status : Statuses, tier : Tiers]
      /\ {"past_due", "canceled"} \subseteq Statuses /\ "basic" \in Tiers
      /\ TierAllowance[To[c].tier] \in Nat
  BY DEF Labels, Over, Statuses, Tiers
<1>k. InvokeJob(c) => JobTypeOK'
  BY DEF JobTypeOK, InvokeJob, JobGoto, JobPCs
<1>f. UNCHANGED jobVars => JobTypeOK'
  BY Frames
<1>b. UNCHANGED balanceVars => BalanceTypeOK' /\ UNCHANGED keys
  BY Frames DEF balanceVars
<1>n. NewTier(c) \in Tiers /\ NewMember(c) \in Members
      /\ NewKeyRow(c) \in [status : Statuses, plan : Tiers]
  <2>1. NewTier(c) \in Tiers
    BY <1>0 DEF NewTier
  <2>2. member \in Members /\ keyRow \in [status : Statuses, plan : Tiers]
    BY DEF CallTypeOK
  <2>3. NewMember(c).status \in Statuses
    BY <1>0, <2>2 DEF NewMember, Members
  <2>4. NewMember(c) \in Members
    BY <1>0, <2>1, <2>2, <2>3 DEF NewMember, Members
  <2> QED BY <2>1, <2>2, <2>3, <2>4 DEF NewKeyRow
<1>1. CASE EndpointBegins(c)
  <2>1. cpc' \in [Calls -> Labels]
    BY <1>0, <1>1, Jumps DEF EndpointBegins
  <2>2. outages' \in 0..MaxOutages
    BY <1>1, Outages DEF EndpointBegins
  <2>3. JobTypeOK'
    BY <1>1, <1>f, <1>k DEF EndpointBegins
  <2> QED BY <1>1, <1>b, <2>1, <2>2, <2>3, Frames DEF EndpointBegins, CallTypeOK, accountVars
<1>2. CASE CancelsLater(c)
  <2>1. cpc' \in [Calls -> Labels]
    BY <1>0, <1>2, Jumps DEF CancelsLater
  <2>2. outages' \in 0..MaxOutages
    BY <1>2, Outages DEF CancelsLater
  <2> QED BY <1>2, <1>b, <1>f, <2>1, <2>2, Frames DEF CancelsLater, CallTypeOK, accountVars
<1>3. CASE FindsUser(c)
  <2>1. cpc' \in [Calls -> Labels]
    <3>1. Raise(c) \/ Goto(c, "allowance") \/ Goto(c, "member")
      BY <1>3 DEF FindsUser
    <3> QED BY <1>0, <3>1, Jumps
  <2>2. outages' \in 0..MaxOutages
    BY <1>3, Outages DEF FindsUser
  <2>3. JobTypeOK'
    <3>1. InvokeJob(c) \/ UNCHANGED jobVars
      BY <1>3 DEF FindsUser
    <3> QED BY <1>f, <1>k, <3>1
  <2> QED BY <1>3, <1>b, <2>1, <2>2, <2>3, Frames DEF FindsUser, CallTypeOK, accountVars
<1>4. CASE WritesMember(c)
  <2>1. cpc' \in [Calls -> Labels]
    BY <1>0, <1>4, Jumps DEF WritesMember
  <2>2. outages' \in 0..MaxOutages
    BY <1>4, Outages DEF WritesMember
  <2>3. member' \in Members
    BY <1>4, <1>n DEF WritesMember, CallTypeOK
  <2> QED BY <1>4, <1>b, <1>f, <2>1, <2>2, <2>3, Frames DEF WritesMember, CallTypeOK
<1>5. CASE DeactivatesPlans(c)
  <2>1. cpc' \in [Calls -> Labels]
    BY <1>0, <1>5, Jumps DEF DeactivatesPlans
  <2>2. outages' \in 0..MaxOutages
    BY <1>5, Outages DEF DeactivatesPlans
  <2>3. PlanTypeOK'
    BY <1>5 DEF DeactivatesPlans, PlanTypeOK
  <2> QED BY <1>5, <1>b, <1>f, <2>1, <2>2, <2>3 DEF DeactivatesPlans, CallTypeOK, accountVars
<1>6. CASE InsertsPlan(c)
  <2>1. cpc' \in [Calls -> Labels]
    BY <1>0, <1>6, Jumps DEF InsertsPlan
  <2>2. outages' \in 0..MaxOutages
    BY <1>6, Outages DEF InsertsPlan
  <2>3. PlanTypeOK'
    BY <1>6 DEF InsertsPlan, PlanTypeOK
  <2> QED BY <1>6, <1>b, <1>f, <2>1, <2>2, <2>3 DEF InsertsPlan, CallTypeOK, accountVars
<1>7. CASE WritesKeys(c)
  <2>1. cpc' \in [Calls -> Labels]
    BY <1>0, <1>7, Jumps DEF WritesKeys
  <2>2. outages' \in 0..MaxOutages
    BY <1>7, Outages DEF WritesKeys
  <2>3. PlanTypeOK'
    BY <1>7 DEF WritesKeys, PlanTypeOK
  <2>4. keyRow' \in [status : Statuses, plan : Tiers]
    BY <1>7, <1>n DEF WritesKeys, CallTypeOK
  <2> QED BY <1>7, <1>b, <1>f, <2>1, <2>2, <2>3, <2>4 DEF WritesKeys, CallTypeOK
<1>8. CASE LooksUpAllowance(c)
  <2>1. cpc' \in [Calls -> Labels]
    BY <1>0, <1>8, Jumps DEF LooksUpAllowance
  <2>2. outages' \in 0..MaxOutages
    BY <1>8, Outages DEF LooksUpAllowance
  <2>3. JobTypeOK'
    BY <1>8, <1>f, <1>k DEF LooksUpAllowance
  <2> QED BY <1>8, <1>b, <2>1, <2>2, <2>3, Frames DEF LooksUpAllowance, CallTypeOK, accountVars
<1>9. CASE ReadsRemaining(c)
  <2>1. cpc' \in [Calls -> Labels]
    BY <1>0, <1>9, Jumps DEF ReadsRemaining
  <2>2. outages' \in 0..MaxOutages
    BY <1>9, Outages DEF ReadsRemaining
  <2>3. allowance \in Int
    BY DEF BalanceTypeOK, Row, Balances
  <2>4. PlanTypeOK'
    BY <1>9, <2>3 DEF ReadsRemaining, PlanTypeOK
  <2> QED BY <1>9, <1>b, <1>k, <2>1, <2>2, <2>4 DEF ReadsRemaining, CallTypeOK, accountVars
<1>10. CASE AllowanceEnds(c)
  <2>1. cpc' \in [Calls -> Labels]
    BY <1>0, <1>10, Jumps DEF AllowanceEnds
  <2> QED BY <1>10, <1>b, <1>f, <2>1, Frames DEF AllowanceEnds, CallTypeOK, accountVars
<1>11. CASE LogsChange(c)
  <2>1. cpc' \in [Calls -> Labels]
    BY <1>0, <1>11, Jumps DEF LogsChange
  <2> DEFINE less == remaining[c] - TierAllowance[To[c].tier]
  <2>2. PICK lost \in 0..LogTries : \E n \in RowsLogged(lost) :
           Lose(lost) /\ LogUsage(IF less > 0 THEN less ELSE 0, n)
    BY <1>11 DEF LogsChange
  <2>3. PICK n \in Int : Lose(lost) /\ LogUsage(IF less > 0 THEN less ELSE 0, n)
    BY <2>2 DEF RowsLogged, LogTries
  <2>4. (IF less > 0 THEN less ELSE 0) \in Int
    BY <1>0 DEF PlanTypeOK
  <2> HIDE DEF less
  <2>5. lost \in Nat
    BY DEF LogTries
  <2>6. LogUsage(IF less > 0 THEN less ELSE 0, n) => BalanceTypeOK'
    BY <2>3, <2>4, <2>5, RowTypes
  <2>7. UNCHANGED keys
    BY <2>3 DEF LogUsage
  <2> QED BY <1>11, <1>f, <2>1, <2>3, <2>6, <2>7, Frames DEF LogsChange, CallTypeOK, accountVars
<1>12. CASE ReadsInvoice(c)
  <2>1. cpc' \in [Calls -> Labels]
    BY <1>0, <1>12, Jumps DEF ReadsInvoice
  <2>2. outages' \in 0..MaxOutages
    BY <1>12, Outages DEF ReadsInvoice
  <2>3. PlanTypeOK'
    BY <1>12 DEF ReadsInvoice, PlanTypeOK
  <2> QED BY <1>12, <1>b, <1>f, <2>1, <2>2, <2>3 DEF ReadsInvoice, CallTypeOK, accountVars
<1> QED
  BY <1>1, <1>2, <1>3, <1>4, <1>5, <1>6, <1>7, <1>8, <1>9, <1>10, <1>11, <1>12
  DEF SubscriptionStep

-----------------------------------------------------------------------------

LEMMA TypeInit == Init => TypeOK
<1> SUFFICES ASSUME Init PROVE TypeOK
  OBVIOUS
<1>1. PICK s \in Scenarios : CallInit(s) /\ SubscriptionInit(s)
  BY DEF Init
<1>2. s.member \in Members
  OBVIOUS
<1>3. CallTypeOK
  <2>1. {"start", "never"} \subseteq Labels
    BY DEF Labels, Over
  <2>2. keyRow \in [status : Statuses, plan : Tiers]
    BY <1>1, <1>2 DEF CallInit, Members
  <2> QED BY <1>1, <1>2, <2>1, <2>2 DEF CallInit, CallTypeOK
<1>4. PayTypeOK
  BY DEF Init, PayInit, PayTypeOK, Unread
<1>5. PlanTypeOK
  BY <1>1 DEF SubscriptionInit, PlanTypeOK
<1>6. BalanceTypeOK
  BY DEF Init, BalanceInit, BalanceTypeOK, Row, Balances
<1>7. GrantTypeOK
  BY DEF Init, PayInit, BalanceInit, GrantTypeOK, GrantPCs, Balances
<1>8. JobTypeOK
  BY <1>1 DEF SubscriptionInit, JobTypeOK, JobPCs
<1> QED BY <1>3, <1>4, <1>5, <1>6, <1>7, <1>8, TypeParts DEF Init, AccountTypeOK

\* A step of Next is one of a call, of a grant or of a job.
LEMMA Steps ==
    ASSUME Step
    PROVE  \/ \E c \in Calls : Handle(c)
           \/ \E d \in Deliveries : Grant(d)
           \/ \E d \in gorphans : LateGrant(d)
           \/ \E c \in Jobs : ChangeAllowance(c)
BY DEF Step, Unfinished

LEMMA TypeStep == TypeOK /\ [Next]_vars => TypeOK'
<1> SUFFICES ASSUME TypeOK, [Next]_vars PROVE TypeOK'
  OBVIOUS
<1>0. CallTypeOK /\ PayTypeOK /\ PlanTypeOK /\ BalanceTypeOK /\ GrantTypeOK /\ JobTypeOK
  BY TypeParts DEF AccountTypeOK
<1>1. CASE UNCHANGED vars
  <2>1. mixed' \in BOOLEAN
    BY <1>1, TypeParts DEF vars
  <2> QED BY <1>0, <1>1, <2>1, Frames, TypePartsPrimed DEF vars, AccountTypeOK
<1>2. CASE Next
  <2>1. mixed' \in BOOLEAN
    BY <1>2 DEF Next
  <2>2. ASSUME NEW c \in Calls, Handle(c)
        PROVE  CallTypeOK' /\ PayTypeOK' /\ PlanTypeOK' /\ AccountTypeOK'
    <3>1. CASE FrameStep(c) /\ UNCHANGED <<payVars, grantVars, planVars, jobVars, balanceVars>>
      BY <1>0, <3>1, FrameTypes, Frames DEF AccountTypeOK
    <3>2. CASE PaymentStep(c) /\ UNCHANGED <<planVars, jobVars>>
      BY <1>0, <3>2, PaymentTypes, Frames DEF AccountTypeOK
    <3>3. CASE SubscriptionStep(c) /\ UNCHANGED <<payVars, grantVars>>
      <4>1. GrantTypeOK'
        BY <1>0, <3>3, SubscriptionTypes DEF GrantTypeOK, grantVars
      <4> QED BY <1>0, <3>3, <4>1, SubscriptionTypes, Frames DEF AccountTypeOK
    <3> QED BY <2>2, <3>1, <3>2, <3>3 DEF Handle
  <2>3. ASSUME NEW d \in Deliveries, Grant(d) \/ LateGrant(d)
        PROVE  CallTypeOK' /\ PayTypeOK' /\ PlanTypeOK' /\ AccountTypeOK'
    BY <1>0, <2>3, GrantTypeStep, Frames DEF Grant, LateGrant, AccountTypeOK
  <2>4. ASSUME NEW c \in Jobs, ChangeAllowance(c)
        PROVE  CallTypeOK' /\ PayTypeOK' /\ PlanTypeOK' /\ AccountTypeOK'
    <3>1. BalanceTypeOK' /\ JobTypeOK' /\ UNCHANGED keys
      BY <1>0, <2>4, JobTypeStep DEF ChangeAllowance
    <3>2. GrantTypeOK'
      BY <1>0, <2>4, <3>1 DEF ChangeAllowance, GrantTypeOK, grantVars
    <3> QED BY <1>0, <2>4, <3>1, <3>2, Frames DEF ChangeAllowance, AccountTypeOK
  <2>5. gorphans \subseteq Deliveries
    BY <1>0 DEF GrantTypeOK
  <2> QED BY <1>2, <2>1, <2>2, <2>3, <2>4, <2>5, Steps, TypePartsPrimed DEF Next
<1> QED BY <1>1, <1>2

\* Every variable keeps its type, whatever is delivered, fails or dies: the
\* tiers and statuses the handlers write are those the tables admit.
THEOREM TypeCorrect == Spec => []TypeOK
BY TypeInit, TypeStep, PTL DEF Spec

\* What follows is about calls and claims and needs none of the bounds.
HIDE BalanceAssumption
HIDE GrantAssumption
HIDE JobAssumption
HIDE CallAssumption
HIDE CheckoutAssumption
HIDE SubscriptionAssumption

-----------------------------------------------------------------------------

CheckoutCalls == {c \in Calls : Kind[c] \in {"checkout", "poll"}}

\* Labels that only the checkout handler has.
CheckoutLabels == {"guard", "trial", "convert", "convertKeys", "bonusRead", "bonus", "mark"}

\* A call is only ever at a label of its own handler.
RouteOf(c) ==
    /\ cpc[c] \in CheckoutLabels => c \in CheckoutCalls
    /\ c \in CheckoutCalls =>
          cpc[c] \in Over \union CheckoutLabels \union {"start", "release", "find", "granting"}
    /\ cpc[c] = "granting" => c \in Credits
    /\ cpc[c] = "touch" => ~Delivers(c)

Routes == \A c \in Calls : RouteOf(c)

\* What a claim says of the delivery that has it, and a release of its claim.
ClaimsHeld ==
    \A c \in Calls :
        /\ claim[c] = "claimed" =>
              Delivers(c) /\ cpc[c] \notin {"start", "never", "refused", "skipped"}
        /\ cpc[c] = "release" => claim[c] = "claimed"
        /\ c \in Owners => Event[c] \in claims

\* One call at a time rewrites the account, and inserts a plan when the others
\* are deactivated.
PlansInTurn ==
    ~mixed =>
        /\ \A c, d \in Calls : Rewrites(c) /\ Rewrites(d) => c = d
        /\ activePlans <= 1
        /\ \A c \in Calls : cpc[c] = "insert" => activePlans = 0

ClaimInv == Routes /\ ClaimsHeld /\ OneHandlerPerEvent /\ ClaimMeansHandled

-----------------------------------------------------------------------------

\* What a statement of a handler does to the calls: its own goes on, and gives
\* its event back or keeps the claim.
Moved(c) ==
    /\ UNCHANGED <<claim, claims>>
    /\ outages' >= outages
    /\ \A e \in Calls \ {c} : cpc'[e] = cpc[e]
    /\ cpc[c] \notin Over \union {"release"}
    /\ cpc'[c] \notin {"start", "never", "skipped"}
    /\ cpc'[c] = "release" => claim[c] = "claimed"
    /\ cpc'[c] \in {"refused", "failed"} => claim[c] /= "claimed"

\* A call goes to one label and the others stay, whether it raises or not.
LEMMA Elsewhere ==
    ASSUME CallTypeOK, NEW c \in Calls
    PROVE  /\ \A label : Goto(c, label) =>
                 cpc'[c] = label /\ \A e \in Calls \ {c} : cpc'[e] = cpc[e]
           /\ Raise(c) =>
                 /\ cpc'[c] = IF claim[c] = "claimed" THEN "release" ELSE "failed"
                 /\ \A e \in Calls \ {c} : cpc'[e] = cpc[e]
<1>1. ASSUME NEW label, Goto(c, label)
      PROVE  cpc'[c] = label /\ \A e \in Calls \ {c} : cpc'[e] = cpc[e]
  BY <1>1 DEF Goto, CallTypeOK
<1> QED BY <1>1 DEF Raise


\* Each statement about a payment, on the calls.
LEMMA PaymentMoves ==
    ASSUME CallTypeOK, Routes, ClaimsHeld, NEW c \in Calls, PaymentStep(c)
    PROVE  Moved(c) /\ RouteOf(c)'
<1> USE DEF Moved, RouteOf, CheckoutLabels, CheckoutCalls, Credits, Delivers, WebhookKinds,
            EndpointKinds, Cancels, Grows, Over, Up, Down, accountVars
<1>r. RouteOf(c)
  BY DEF Routes
<1>h. /\ claim[c] = "claimed" => Delivers(c) /\ cpc[c] /= "start"
      /\ outages \in Nat
  BY DEF ClaimsHeld, CallTypeOK
<1>1. CASE PollBegins(c)
  BY <1>1, <1>r, <1>h, Elsewhere DEF PollBegins, Found
<1>2. CASE FindsSession(c)
  BY <1>2, <1>r, <1>h, Elsewhere DEF FindsSession
<1>3. CASE Guard(c)
  BY <1>3, <1>r, <1>h, Elsewhere DEF Guard, Found
<1>4. CASE GrantRaises(c)
  BY <1>4, <1>r, <1>h, Elsewhere DEF GrantRaises
<1>5. CASE Completes(c)
  BY <1>5, <1>r, <1>h, Elsewhere DEF Completes
<1>6. CASE ReadsTrial(c)
  BY <1>6, <1>r, <1>h, Elsewhere DEF ReadsTrial
<1>7. CASE ConvertsTrial(c)
  BY <1>7, <1>r, <1>h, Elsewhere DEF ConvertsTrial
<1>8. CASE ConvertsKeys(c)
  BY <1>8, <1>r, <1>h, Elsewhere DEF ConvertsKeys
<1>9. CASE ReadsFirst(c)
  BY <1>9, <1>r, <1>h, Elsewhere DEF ReadsFirst
<1>10. CASE BonusEnds(c)
  BY <1>10, <1>r, <1>h, Elsewhere DEF BonusEnds
<1>11. CASE MarksFirst(c)
  BY <1>11, <1>r, <1>h, Elsewhere DEF MarksFirst
<1>12. CASE LooksUpIntent(c)
  BY <1>12, <1>r, <1>h, Elsewhere DEF LooksUpIntent
<1>13. CASE MarksSucceeded(c)
  BY <1>13, <1>r, <1>h, Elsewhere DEF MarksSucceeded
<1>14. CASE IntentGranted(c)
  BY <1>14, <1>r, <1>h, Elsewhere DEF IntentGranted
<1>15. CASE MarksFailed(c)
  BY <1>15, <1>r, <1>h, Elsewhere DEF MarksFailed
<1> QED
  BY <1>1, <1>2, <1>3, <1>4, <1>5, <1>6, <1>7, <1>8, <1>9, <1>10,
      <1>11, <1>12, <1>13, <1>14, <1>15 DEF PaymentStep

\* Each statement about a subscription, on the calls.
LEMMA SubscriptionMoves ==
    ASSUME CallTypeOK, Routes, ClaimsHeld, NEW c \in Calls, SubscriptionStep(c)
    PROVE  Moved(c) /\ RouteOf(c)'
<1> USE DEF Moved, RouteOf, CheckoutLabels, CheckoutCalls, Credits, Delivers, WebhookKinds,
            EndpointKinds, Cancels, Grows, Over, Up, Down, accountVars
<1>r. RouteOf(c)
  BY DEF Routes
<1>h. /\ claim[c] = "claimed" => Delivers(c) /\ cpc[c] /= "start"
      /\ outages \in Nat
  BY DEF ClaimsHeld, CallTypeOK
<1>1. CASE EndpointBegins(c)
  BY <1>1, <1>r, <1>h, Elsewhere DEF EndpointBegins
<1>2. CASE CancelsLater(c)
  BY <1>2, <1>r, <1>h, Elsewhere DEF CancelsLater
<1>3. CASE FindsUser(c)
  BY <1>3, <1>r, <1>h, Elsewhere DEF FindsUser
<1>4. CASE WritesMember(c)
  BY <1>4, <1>r, <1>h, Elsewhere DEF WritesMember
<1>5. CASE DeactivatesPlans(c)
  BY <1>5, <1>r, <1>h, Elsewhere DEF DeactivatesPlans
<1>6. CASE InsertsPlan(c)
  BY <1>6, <1>r, <1>h, Elsewhere DEF InsertsPlan
<1>7. CASE WritesKeys(c)
  BY <1>7, <1>r, <1>h, Elsewhere DEF WritesKeys
<1>8. CASE LooksUpAllowance(c)
  BY <1>8, <1>r, <1>h, Elsewhere DEF LooksUpAllowance
<1>9. CASE ReadsRemaining(c)
  BY <1>9, <1>r, <1>h, Elsewhere DEF ReadsRemaining
<1>10. CASE AllowanceEnds(c)
  BY <1>10, <1>r, <1>h, Elsewhere DEF AllowanceEnds
<1>11. CASE LogsChange(c)
  BY <1>11, <1>r, <1>h, Elsewhere DEF LogsChange
<1>12. CASE ReadsInvoice(c)
  BY <1>12, <1>r, <1>h, Elsewhere DEF ReadsInvoice
<1> QED
  BY <1>1, <1>2, <1>3, <1>4, <1>5, <1>6, <1>7, <1>8, <1>9, <1>10, <1>11, <1>12
  DEF SubscriptionStep

-----------------------------------------------------------------------------

\* What was disturbed stays disturbed.
LEMMA Disturbed ==
    ASSUME CallTypeOK, BalanceTypeOK, Undisturbed', faults' >= faults, outages' >= outages,
           \A c \in Calls : cpc[c] = "crashed" => cpc'[c] = "crashed"
    PROVE  Undisturbed /\ faults' = 0 /\ faults = 0 /\ outages' = 0 /\ outages = 0
BY DEF Undisturbed, Died, CallTypeOK, BalanceTypeOK

LEMMA MovedKeeps ==
    ASSUME CallTypeOK, ClaimInv, NEW c \in Calls, Moved(c), RouteOf(c)'
    PROVE  ClaimInv'
<1> USE DEF Moved, Owners, Running, Over
<1>1. Routes'
  BY DEF ClaimInv, Routes, RouteOf, Over, Delivers
<1>2. ClaimsHeld'
  BY DEF ClaimInv, ClaimsHeld, Delivers
<1>3. OneHandlerPerEvent'
  BY DEF ClaimInv, OneHandlerPerEvent, ClaimsHeld
<1>4. ClaimMeansHandled'
  <2> DEFINE away == {"start", "never", "refused", "skipped", "failed"}
  <2> SUFFICES ASSUME outages' = 0, NEW e \in claims'
               PROVE  \E d \in Calls : /\ Event[d] = e /\ claim'[d] = "claimed"
                                       /\ cpc'[d] \notin away
    BY DEF ClaimMeansHandled
  <2>1. outages = 0
    BY DEF CallTypeOK
  <2>2. PICK d \in Calls : Event[d] = e /\ claim[d] = "claimed" /\ cpc[d] \notin away
    BY <2>1 DEF ClaimInv, ClaimMeansHandled
  <2>3. claim'[d] = "claimed"
    BY <2>2
  <2>4. cpc'[d] \notin away
    BY <2>2
  <2> QED BY <2>2, <2>3, <2>4
<1> QED BY <1>1, <1>2, <1>3, <1>4 DEF ClaimInv

\* The insert of a claim, its release, the death of the process.
LEMMA FrameKeeps ==
    ASSUME CallTypeOK, ClaimInv, NEW c \in Calls, FrameStep(c)
    PROVE  ClaimInv'
<1> USE DEF Owners, Running, Over
<1>1. CASE ClaimEvent(c)
  <2>1. /\ \A e \in Calls \ {c} : cpc'[e] = cpc[e] /\ claim'[e] = claim[e]
        /\ cpc[c] = "start" /\ Delivers(c)
        /\ \/ /\ Event[c] \notin claims /\ claims' = claims \union {Event[c]}
              /\ outages' = outages
              /\ claim'[c] = "claimed" /\ cpc'[c] = "find"
           \/ /\ Event[c] \in claims /\ claims' = claims
              /\ outages' = outages
              /\ claim'[c] = claim[c] /\ cpc'[c] = "skipped"
           \/ /\ claims' \in {claims, claims \union {Event[c]}}
              /\ outages' = outages + 1
              /\ \/ claim'[c] = claim[c] /\ cpc'[c] = "skipped"
                 \/ claim'[c] = "unavailable" /\ cpc'[c] = "find"
    BY <1>1, Elsewhere DEF ClaimEvent, CallTypeOK, Up, Down
  <2>2. claim[c] /= "claimed"
    BY <2>1 DEF ClaimInv, ClaimsHeld
  <2>3. Routes'
    BY <2>1 DEF ClaimInv, Routes, RouteOf, CheckoutLabels
  <2>4. ClaimsHeld'
    BY <2>1, <2>2 DEF ClaimInv, ClaimsHeld
  <2>5. OneHandlerPerEvent'
    BY <2>1, <2>2 DEF ClaimInv, OneHandlerPerEvent, ClaimsHeld
  <2>6. ClaimMeansHandled'
    BY <2>1, <2>2 DEF ClaimInv, ClaimMeansHandled, CallTypeOK
  <2> QED BY <2>3, <2>4, <2>5, <2>6 DEF ClaimInv
<1>2. CASE ReleaseEvent(c)
  <2>1. /\ \A e \in Calls \ {c} : cpc'[e] = cpc[e]
        /\ cpc[c] = "release" /\ cpc'[c] = "failed" /\ claim' = claim
        /\ \/ claims' = claims \ {Event[c]} /\ outages' \in {outages, outages + 1}
           \/ claims' = claims /\ outages' = outages + 1
    BY <1>2, Elsewhere DEF ReleaseEvent, Up, Down
  <2>2. claim[c] = "claimed"
    BY <2>1 DEF ClaimInv, ClaimsHeld
  <2>3. Routes'
    BY <2>1 DEF ClaimInv, Routes, RouteOf, CheckoutLabels
  <2>4. ClaimsHeld'
    BY <2>1, <2>2 DEF ClaimInv, ClaimsHeld, OneHandlerPerEvent
  <2>5. OneHandlerPerEvent'
    BY <2>1 DEF ClaimInv, OneHandlerPerEvent
  <2>6. ClaimMeansHandled'
    BY <2>1 DEF ClaimInv, ClaimMeansHandled, CallTypeOK
  <2> QED BY <2>3, <2>4, <2>5, <2>6 DEF ClaimInv
<1>3. CASE Crash(c)
  <2>1. /\ \A e \in Calls \ {c} : cpc'[e] = cpc[e]
        /\ Running(c) /\ cpc'[c] = "crashed"
        /\ UNCHANGED <<claim, claims, outages>>
    BY <1>3, Elsewhere DEF Crash
  <2>2. Routes'
    BY <2>1 DEF ClaimInv, Routes, RouteOf, CheckoutLabels
  <2>3. ClaimsHeld'
    BY <2>1 DEF ClaimInv, ClaimsHeld
  <2>4. OneHandlerPerEvent'
    BY <2>1 DEF ClaimInv, OneHandlerPerEvent
  <2>5. ClaimMeansHandled'
    BY <2>1 DEF ClaimInv, ClaimMeansHandled
  <2> QED BY <2>2, <2>3, <2>4, <2>5 DEF ClaimInv
<1> QED BY <1>1, <1>2, <1>3 DEF FrameStep

LEMMA ClaimsRest == ClaimInv /\ UNCHANGED callVars => ClaimInv'
BY DEF ClaimInv, Routes, RouteOf, ClaimsHeld, OneHandlerPerEvent, ClaimMeansHandled, Owners,
       Running, callVars

LEMMA ClaimInit == Init => ClaimInv
<1> SUFFICES ASSUME Init PROVE ClaimInv
  OBVIOUS
<1>1. /\ \A c \in Calls : cpc[c] \in {"start", "never"} /\ claim[c] = "none"
      /\ claims = {}
  BY DEF Init, CallInit
<1>2. Routes
  BY <1>1 DEF Routes, RouteOf, CheckoutLabels, Over
<1>3. ClaimsHeld /\ OneHandlerPerEvent /\ ClaimMeansHandled
  BY <1>1 DEF ClaimsHeld, OneHandlerPerEvent, ClaimMeansHandled, Owners
<1> QED BY <1>2, <1>3 DEF ClaimInv

LEMMA ClaimStep == TypeOK /\ ClaimInv /\ [Next]_vars => ClaimInv'
<1> SUFFICES ASSUME TypeOK, ClaimInv, [Next]_vars PROVE ClaimInv'
  OBVIOUS
<1>0. CallTypeOK /\ Routes /\ ClaimsHeld /\ gorphans \subseteq Deliveries
  BY TypeParts DEF ClaimInv, AccountTypeOK, GrantTypeOK
<1>1. CASE UNCHANGED vars
  BY <1>1, ClaimsRest DEF vars
<1>2. ASSUME NEW c \in Calls, Handle(c) PROVE ClaimInv'
  <2>1. CASE FrameStep(c)
    BY <1>0, <2>1, FrameKeeps
  <2>2. CASE PaymentStep(c)
    BY <1>0, <2>2, PaymentMoves, MovedKeeps
  <2>3. CASE SubscriptionStep(c)
    BY <1>0, <2>3, SubscriptionMoves, MovedKeeps
  <2> QED BY <1>2, <2>1, <2>2, <2>3 DEF Handle
<1>3. ASSUME NEW d, Grant(d) \/ LateGrant(d) PROVE ClaimInv'
  BY <1>3, ClaimsRest DEF Grant, LateGrant
<1>4. ASSUME NEW c, ChangeAllowance(c) PROVE ClaimInv'
  BY <1>4, ClaimsRest DEF ChangeAllowance
<1> QED BY <1>1, <1>2, <1>3, <1>4, Steps DEF Next

-----------------------------------------------------------------------------

\* Only a deactivation leads to an insert, and only an insert adds a plan.
LEMMA PlanMoves ==
    ASSUME CallTypeOK, NEW c \in Calls
    PROVE  /\ PaymentStep(c) \/ FrameStep(c) =>
                 cpc'[c] /= "insert" /\ \A e \in Calls \ {c} : cpc'[e] = cpc[e]
           /\ SubscriptionStep(c) =>
                 /\ \A e \in Calls \ {c} : cpc'[e] = cpc[e]
                 /\ \/ cpc'[c] /= "insert" /\ activePlans' = activePlans
                    \/ cpc[c] = "deactivate" /\ activePlans' = 0
                    \/ cpc[c] = "deactivate" /\ cpc'[c] /= "insert"
                                             /\ activePlans' = activePlans
                    \/ /\ cpc[c] = "insert" /\ cpc'[c] /= "insert"
                       /\ activePlans' \in {activePlans, activePlans + 1}
<1>1. ASSUME PaymentStep(c)
      PROVE  cpc'[c] /= "insert" /\ \A e \in Calls \ {c} : cpc'[e] = cpc[e]
  <2> USE Elsewhere
  <2>1. CASE PollBegins(c) \/ FindsSession(c) \/ Guard(c) \/ GrantRaises(c) \/ Completes(c)
    BY <2>1 DEF PollBegins, FindsSession, Guard, GrantRaises, Completes
  <2>2. CASE ReadsTrial(c) \/ ConvertsTrial(c) \/ ConvertsKeys(c) \/ ReadsFirst(c)
             \/ BonusEnds(c) \/ MarksFirst(c)
    BY <2>2 DEF ReadsTrial, ConvertsTrial, ConvertsKeys, ReadsFirst, BonusEnds, MarksFirst
  <2>3. CASE LooksUpIntent(c) \/ MarksSucceeded(c) \/ IntentGranted(c) \/ MarksFailed(c)
    BY <2>3 DEF LooksUpIntent, MarksSucceeded, IntentGranted, MarksFailed
  <2> QED BY <1>1, <2>1, <2>2, <2>3 DEF PaymentStep
<1>2. ASSUME FrameStep(c)
      PROVE  cpc'[c] /= "insert" /\ \A e \in Calls \ {c} : cpc'[e] = cpc[e]
  <2>1. \E label \in {"find", "skipped", "failed", "crashed"} : Goto(c, label)
    BY <1>2 DEF FrameStep, ClaimEvent, ReleaseEvent, Crash
  <2> QED BY <2>1, Elsewhere
<1>3. CASE DeactivatesPlans(c)
  <2>1. CASE Goto(c, "insert") /\ activePlans' = 0
    <3>1. /\ cpc[c] = "deactivate"
          /\ \A e \in Calls \ {c} : cpc'[e] = cpc[e]
      BY <1>3, <2>1, Elsewhere DEF DeactivatesPlans
    <3> QED BY <1>1, <1>2, <2>1, <3>1
  <2>2. CASE (Goto(c, "keys") \/ Raise(c)) /\ activePlans' \in {activePlans, 0}
    <3>1. /\ cpc'[c] /= "insert" /\ cpc[c] = "deactivate"
          /\ \A e \in Calls \ {c} : cpc'[e] = cpc[e]
      BY <1>3, <2>2, Elsewhere DEF DeactivatesPlans
    <3> QED BY <1>1, <1>2, <2>2, <3>1
  <2> QED BY <1>3, <2>1, <2>2 DEF DeactivatesPlans
<1>4. CASE InsertsPlan(c)
  BY <1>4, Elsewhere DEF InsertsPlan
<1>5. CASE \/ EndpointBegins(c) \/ CancelsLater(c) \/ FindsUser(c) \/ WritesMember(c)
           \/ WritesKeys(c) \/ ReadsInvoice(c)
  BY <1>5, Elsewhere
  DEF EndpointBegins, CancelsLater, FindsUser, WritesMember, WritesKeys, ReadsInvoice, planVars
<1>6. CASE LooksUpAllowance(c) \/ ReadsRemaining(c) \/ AllowanceEnds(c) \/ LogsChange(c)
  BY <1>6, Elsewhere DEF LooksUpAllowance, ReadsRemaining, AllowanceEnds, LogsChange, planVars
<1> QED BY <1>1, <1>2, <1>3, <1>4, <1>5, <1>6 DEF SubscriptionStep

LEMMA PlanInit == Init => PlansInTurn
<1> SUFFICES ASSUME Init PROVE PlansInTurn
  OBVIOUS
<1>1. PICK s \in Scenarios : CallInit(s) /\ SubscriptionInit(s)
  BY DEF Init
<1>2. activePlans <= 1
  BY <1>1 DEF SubscriptionInit
<1>3. \A c \in Calls : cpc[c] \in {"start", "never"}
  BY <1>1 DEF CallInit
<1> QED BY <1>2, <1>3 DEF PlansInTurn, Rewrites

LEMMA PlanStep == TypeOK /\ PlansInTurn /\ [Next]_vars => PlansInTurn'
<1> SUFFICES ASSUME TypeOK, PlansInTurn, [Next]_vars, ~mixed'
             PROVE  /\ \A c, d \in Calls : Rewrites(c)' /\ Rewrites(d)' => c = d
                    /\ activePlans' <= 1
                    /\ \A c \in Calls : cpc'[c] = "insert" => activePlans' = 0
  BY DEF PlansInTurn
<1>0. CallTypeOK /\ activePlans \in Nat
  BY TypeParts DEF PlanTypeOK
<1>1. CASE UNCHANGED vars
  BY <1>1 DEF PlansInTurn, vars, Rewrites, callVars, planVars
<1>2. CASE Next
  <2>1. ~mixed /\ \A c, d \in Calls : Rewrites(c)' /\ Rewrites(d)' => c = d
    BY <1>2 DEF Next
  <2>2. /\ \A c, d \in Calls : Rewrites(c) /\ Rewrites(d) => c = d
        /\ activePlans <= 1
        /\ \A c \in Calls : cpc[c] = "insert" => activePlans = 0
    BY <2>1 DEF PlansInTurn
  <2>3. ASSUME NEW c \in Calls, Handle(c)
        PROVE  /\ activePlans' <= 1
               /\ \A d \in Calls : cpc'[d] = "insert" => activePlans' = 0
    <3>1. CASE (PaymentStep(c) \/ FrameStep(c)) /\ UNCHANGED planVars
      BY <1>0, <2>2, <3>1, PlanMoves DEF planVars
    <3>2. CASE SubscriptionStep(c)
      BY <1>0, <2>2, <3>2, PlanMoves DEF Rewrites
    <3> QED BY <2>3, <3>1, <3>2 DEF Handle
  <2>4. ASSUME UNCHANGED callVars, UNCHANGED planVars
        PROVE  /\ activePlans' <= 1
               /\ \A d \in Calls : cpc'[d] = "insert" => activePlans' = 0
    BY <2>2, <2>4 DEF callVars, planVars
  <2>5. \/ \E c \in Calls : Handle(c)
        \/ UNCHANGED callVars /\ UNCHANGED planVars
    BY <1>2, Steps DEF Next, Grant, LateGrant, ChangeAllowance
  <2> QED BY <2>1, <2>3, <2>4, <2>5
<1> QED BY <1>1, <1>2

-----------------------------------------------------------------------------

THEOREM ClaimInvAlways == Spec => []ClaimInv
<1>1. Spec => []TypeOK
  BY TypeCorrect
<1> QED BY <1>1, ClaimInit, ClaimStep, PTL DEF Spec

\* Two deliveries that were both told they own one event are never handled at
\* once, for any number of deliveries, lost replies and deaths: claim_event
\* takes the event, release_event gives it back, and nothing else does.
THEOREM NeverHandledTwiceAtOnce == Spec => []OneHandlerPerEvent
<1>1. ClaimInv => OneHandlerPerEvent
  BY DEF ClaimInv
<1> QED BY <1>1, ClaimInvAlways, PTL

\* While no statement of a handler fails, an event marked as processed has been
\* handled, is being handled, or was in the hands of a process that died.
THEOREM ClaimsAreHonest == Spec => []ClaimMeansHandled
<1>1. ClaimInv => ClaimMeansHandled
  BY DEF ClaimInv
<1> QED BY <1>1, ClaimInvAlways, PTL

\* Unless two calls rewrite the account at once, a user never has two active
\* plans, whatever fails between the deactivation and the insert.
THEOREM PlansAlternate == Spec => []OneActivePlan
<1>1. PlansInTurn => OneActivePlan
  BY DEF PlansInTurn, OneActivePlan
<1>2. Spec => []TypeOK
  BY TypeCorrect
<1> QED BY <1>1, <1>2, PlanInit, PlanStep, PTL DEF Spec

=============================================================================
