--------------------------- MODULE StripeAccounts ---------------------------
(***************************************************************************)
(* What the calls of StripeWebhook leave behind, for any calls, tiers and  *)
(* allowances: when they are over the API keys agree with the user, an     *)
(* active subscriber has the allowance of the tier, and a delivery that    *)
(* left the allowance to an endpoint was right to do so, each unless       *)
(* something failed or one of the named exceptions happened.               *)
(***************************************************************************)
EXTENDS StripeClaims

Calm == ~Died /\ outages = 0

Now == [status |-> member.status, tier |-> member.tier]

Agrees == keyRow = [status |-> member.status, plan |-> member.tier]

\* An update has taken the tier away and left the keys.
Overruled ==
    \E c \in Calls : Kind[c] = "updated" /\ cpc[c] = "done" /\ To[c].status /= "active"

Writing == {"deactivate", "insert", "keys"}

\* The user has been written and the keys have not, by a handler of a
\* subscription ...
Written(c) ==
    /\ member.tier = NewTier(c)
    /\ IF Kind[c] = "change" THEN keyRow.status = member.status
                             ELSE member.status = NewMember(c).status

OnTrial(r) == r.status = "trial" \/ r.tier = "basic"

\* ... or by the end of a trial.
Converted(c) ==
    /\ member.tier = seen[c].tier
    /\ member.status = IF OnTrial(seen[c]) THEN "inactive" ELSE seen[c].status
    /\ keyRow = [status |-> seen[c].status, plan |-> seen[c].tier]

\* Labels before the handler of a payment reads the user.
Early == {"start", "find", "guard", "settle", "granting", "trial"}

\* The keys agree except between the two writes of one call, which knows then
\* what it wrote.
KeysFollow ==
    \/ Overruled
    \/ \E c \in Calls : OddlySeen(seen[c])
    \/ /\ (\A c \in Calls : cpc[c] \notin Writing \union {"convertKeys"}) => Agrees
       /\ \A c \in Calls :
             /\ cpc[c] \in Writing => Written(c)
             /\ cpc[c] = "convert" => seen[c] = Now /\ OnTrial(Now)
             /\ cpc[c] = "convertKeys" => Converted(c)

KeysInv ==
    /\ \A c \in Calls : cpc[c] \in Early => seen[c] = Unread
    /\ ~mixed /\ Calm => KeysFollow

-----------------------------------------------------------------------------

PlanOnly == {"touch", "member", "deactivate", "insert", "keys", "lookup", "remaining",
             "allowance", "audit"}

\* Where the calls of each kind may be.
Places(kind) ==
    CASE kind = "deleted" ->
            Over \union {"start", "release", "find", "allowance", "member", "keys"}
      [] kind = "cancelNow" -> Over \union {"start", "allowance", "member", "keys"}
      [] kind = "change" -> (Over \ {"skipped"}) \union {"start"} \union (PlanOnly \ {"touch"})
      [] kind = "cancelLater" -> Over \union {"start", "touch"}
      [] kind = "invoicePaid" -> Over \union {"start", "release", "find", "lookup", "allowance"}
      [] kind = "invoiceFailed" -> Over \union {"start", "release", "find", "member", "keys"}
      [] kind \in {"created", "updated"} -> Over \union
            {"start", "release", "find", "member", "deactivate", "insert", "keys", "lookup",
             "allowance"}
      [] kind \in {"checkout", "poll", "succeeded", "failed"} -> Labels \ PlanOnly

PlacesInv == \A c \in Calls : cpc[c] \in Places(Kind[c])

\* A job may have set the allowance: it has written, or its call went on.
HasSet(c) ==
    \/ cpc[c] = "allowance" /\ jpc[c] \in {"log", "done"}
    \/ cpc[c] \in {"audit", "done"}
    \/ Kind[c] \in Cancels /\ cpc[c] \in {"member", "keys"}

\* A change has begun, and its subscription carries the stamp.
Begun(x) == Kind[x] = "change" /\ cpc[x] \notin {"never", "start", "refused"}

\* Every delivery that left the allowance alone has seen a stamp; no call that
\* gives an allowance has failed; and a change that has given one is the last
\* that did, unless another call gave another one.
SpareInv ==
    Undisturbed =>
        /\ \A c \in Calls :
              Kind[c] \notin Cancels /\ cpc[c] \in {"remaining", "allowance"} => Tier[c] > 0
        /\ \A c \in spared : \E x \in Calls : Begun(x) /\ To[x].tier = To[c].tier
        /\ \A c \in ResetCalls :
              /\ cpc[c] \notin {"failed", "release"}
              /\ cpc[c] = "allowance" => jpc[c] /= "failed"
        /\ \A x \in Calls :
              Kind[x] = "change" /\ Tier[x] > 0 /\ HasSet(x) =>
                 \/ plan = Tier[x]
                 \/ \E d \in ResetCalls : HasSet(d) /\ Tier[d] /= Tier[x]

\* The allowance is that of the tier of an active subscriber, or one of the
\* exceptions of AllowanceAgrees has happened.
Settled ==
    member.status = "active" =>
        \/ plan = TierAllowance[member.tier]
        \/ TierAllowance[member.tier] = 0
        \/ \A c \in ResetCalls : ~HasSet(c)
        \/ \E d \in ResetCalls :
              /\ HasSet(d) /\ Tier[d] /= TierAllowance[member.tier]
              /\ Kind[d] = "invoicePaid" \/ \E c \in spared : To[c].tier = member.tier

\* A call that writes the user and the allowance is between the two.
Busy(c) ==
    /\ Kind[c] \in Grows \union Cancels
    /\ cpc[c] \in {"member", "deactivate", "insert", "keys", "lookup", "remaining", "allowance"}

\* What a call between its writes has written.
Underway ==
    \A c \in Calls :
        /\ Kind[c] \in Grows =>
              /\ cpc[c] \in Writing \union {"lookup", "remaining", "allowance"} =>
                    member.tier = To[c].tier
              /\ cpc[c] = "allowance" /\ jpc[c] \in {"log", "done"} => plan = Tier[c]
        /\ Kind[c] \in Cancels /\ cpc[c] = "keys" => member.status /= "active"

AllowanceInv ==
    ~mixed /\ Undisturbed => Underway /\ (Settled \/ \E c \in Calls : Busy(c))

-----------------------------------------------------------------------------

Between == Writing \union {"convert", "convertKeys"}

Others(c) == \A e \in Calls \ {c} : cpc'[e] = cpc[e]

\* What a statement about a subscription that does not fail does to the user
\* and to the keys.
SubscriptionWrites(c) ==
    \/ UNCHANGED accountVars /\ cpc[c] \notin Between /\ cpc'[c] \notin Between
    \/ UNCHANGED accountVars /\ cpc[c] \in Writing /\ cpc'[c] \in Writing
    \/ /\ cpc[c] = "member" /\ member' = NewMember(c) /\ keyRow' = keyRow
       /\ \/ cpc'[c] \in Writing
          \/ cpc'[c] = "done" /\ Kind[c] \in Grows /\ To[c].status /= "active"
    \/ /\ cpc[c] = "keys" /\ cpc'[c] \notin Between
       /\ member' = member /\ keyRow' = NewKeyRow(c)

LEMMA SubscriptionKeys ==
    ASSUME CallTypeOK, NEW c \in Calls, SubscriptionStep(c)
    PROVE  /\ Others(c) /\ cpc'[c] \notin Early
           /\ outages' = outages => SubscriptionWrites(c)
<1>0. outages \in Nat
  BY DEF CallTypeOK
<1>d. Down => outages' /= outages
  BY <1>0 DEF Down
<1> USE Elsewhere DEF Others, Early, Between, Writing, SubscriptionWrites
<1>1. CASE EndpointBegins(c)
  BY <1>1 DEF EndpointBegins
<1>2. CASE CancelsLater(c) \/ FindsUser(c) \/ ReadsInvoice(c)
  BY <1>2 DEF CancelsLater, FindsUser, ReadsInvoice
<1>3. CASE WritesMember(c)
  <2>1. CASE Down
    BY <1>3, <1>d, <2>1 DEF WritesMember
  <2>2. CASE Up /\ member' = NewMember(c)
              /\ Goto(c, IF Kind[c] \notin Grows THEN "keys"
                         ELSE IF To[c].status = "active" THEN "deactivate" ELSE "done")
    <3>1. cpc[c] = "member" /\ keyRow' = keyRow
      BY <1>3 DEF WritesMember
    <3>2. /\ Others(c)
          /\ \/ cpc'[c] \in Writing
             \/ cpc'[c] = "done" /\ Kind[c] \in Grows /\ To[c].status /= "active"
      BY <2>2
    <3> QED BY <2>2, <3>1, <3>2
  <2> QED BY <1>3, <2>1, <2>2 DEF WritesMember
<1>4. CASE DeactivatesPlans(c)
  BY <1>4, <1>d DEF DeactivatesPlans
<1>5. CASE InsertsPlan(c)
  BY <1>5, <1>d DEF InsertsPlan
<1>6. CASE WritesKeys(c)
  BY <1>6, <1>d DEF WritesKeys
<1>7. CASE LooksUpAllowance(c)
  BY <1>7 DEF LooksUpAllowance
<1>8. CASE ReadsRemaining(c) \/ AllowanceEnds(c) \/ LogsChange(c)
  BY <1>8 DEF ReadsRemaining, AllowanceEnds, LogsChange
<1> QED BY <1>1, <1>2, <1>3, <1>4, <1>5, <1>6, <1>7, <1>8 DEF SubscriptionStep

\* What one about a payment does.
TrialWrites(c) ==
    \/ /\ UNCHANGED <<accountVars, seen>>
       /\ cpc[c] \notin Between /\ cpc'[c] \notin Between
    \/ /\ cpc[c] = "trial" /\ UNCHANGED accountVars
       /\ seen' = [seen EXCEPT ![c] = Now]
       /\ cpc'[c] = IF OnTrial(Now) THEN "convert" ELSE "convertKeys"
    \/ /\ cpc[c] = "convert" /\ cpc'[c] = "convertKeys" /\ UNCHANGED <<keyRow, seen>>
       /\ member' = [member EXCEPT !.status = "inactive"]
    \/ /\ cpc[c] = "convertKeys" /\ cpc'[c] \notin Between /\ UNCHANGED <<member, seen>>
       /\ keyRow' = IF seen[c].status = "active" THEN keyRow
                    ELSE [keyRow EXCEPT !.status = "inactive"]

LEMMA TrialKeys ==
    ASSUME CallTypeOK, PayTypeOK, NEW c \in Calls, PaymentStep(c)
    PROVE  /\ Others(c)
           /\ cpc'[c] \in Early => cpc[c] \in Early /\ UNCHANGED seen
           /\ UNCHANGED seen \/ cpc[c] = "trial"
           /\ \A e \in Calls \ {c} : seen'[e] = seen[e]
           /\ outages' = outages => TrialWrites(c)
<1>0. outages \in Nat
  BY DEF CallTypeOK
<1>d. Down => outages' /= outages
  BY <1>0 DEF Down
<1> USE Elsewhere DEF Others, Early, Between, Writing, TrialWrites, payVars
<1>1. CASE PollBegins(c) \/ FindsSession(c) \/ Guard(c)
  BY <1>1 DEF PollBegins, FindsSession, Guard
<1>2. CASE GrantRaises(c) \/ Completes(c) \/ IntentGranted(c)
  BY <1>2 DEF GrantRaises, Completes, IntentGranted
<1>3. CASE ReadsTrial(c)
  <2>1. CASE Down /\ UNCHANGED seen /\ Goto(c, "bonusRead")
    BY <1>3, <1>d, <2>1 DEF ReadsTrial
  <2>2. CASE /\ Up /\ seen' = [seen EXCEPT ![c] = Now]
             /\ Goto(c, IF OnTrial(Now) THEN "convert" ELSE "convertKeys")
    <3>1. cpc[c] = "trial" /\ UNCHANGED accountVars
      BY <1>3 DEF ReadsTrial
    <3>2. \A e \in Calls \ {c} : seen'[e] = seen[e]
      BY <2>2 DEF PayTypeOK
    <3> QED BY <2>2, <3>1, <3>2
  <2> QED BY <1>3, <2>1, <2>2 DEF ReadsTrial, Now, OnTrial
<1>4. CASE ConvertsTrial(c)
  BY <1>4, <1>d DEF ConvertsTrial
<1>5. CASE ConvertsKeys(c)
  BY <1>5, <1>d DEF ConvertsKeys
<1>6. CASE ReadsFirst(c) \/ BonusEnds(c) \/ MarksFirst(c)
  BY <1>6 DEF ReadsFirst, BonusEnds, MarksFirst
<1>7. CASE LooksUpIntent(c) \/ MarksSucceeded(c) \/ MarksFailed(c)
  BY <1>7 DEF LooksUpIntent, MarksSucceeded, MarksFailed
<1> QED BY <1>1, <1>2, <1>3, <1>4, <1>5, <1>6, <1>7 DEF PaymentStep

\* The claim of an event, its release and the death of a process touch neither.
LEMMA FrameKeys ==
    ASSUME CallTypeOK, NEW c \in Calls, FrameStep(c)
    PROVE  /\ Others(c) /\ UNCHANGED accountVars
           /\ outages' >= outages
           /\ cpc'[c] \in Early => cpc[c] \in Early
           /\ cpc[c] \notin Over /\ cpc'[c] \notin Between
           /\ cpc[c] \in Between => cpc'[c] = "crashed"
<1>0. outages \in Nat
  BY DEF CallTypeOK
<1>1. CASE ClaimEvent(c)
  <2>1. cpc[c] = "start" /\ UNCHANGED accountVars /\ (Up \/ Down)
        /\ (Goto(c, "find") \/ Goto(c, "skipped"))
    BY <1>1 DEF ClaimEvent
  <2> QED BY <1>0, <2>1, Elsewhere DEF Others, Early, Between, Writing, Over, Up, Down
<1>2. CASE ReleaseEvent(c)
  <2>1. cpc[c] = "release" /\ UNCHANGED accountVars /\ (Up \/ Down) /\ Goto(c, "failed")
    BY <1>2 DEF ReleaseEvent
  <2> QED BY <1>0, <2>1, Elsewhere DEF Others, Early, Between, Writing, Over, Up, Down
<1>3. CASE Crash(c)
  <2>1. /\ cpc[c] \notin Over /\ UNCHANGED <<accountVars, outages>> /\ Goto(c, "crashed")
    BY <1>3 DEF Crash, Running
  <2> QED BY <1>0, <2>1, Elsewhere DEF Others, Early, Between, Writing, Over
<1> QED BY <1>1, <1>2, <1>3 DEF FrameStep

\* One call at a time is between its first write to the account and its last.
InTurn == \A c, d \in Calls : Rewrites(c) /\ Rewrites(d) => c = d

\* A call that writes the account finds the keys as they should be when it
\* begins, since no other call is between its writes.
LEMMA SubscriptionFollows ==
    ASSUME CallTypeOK, KeysFollow, InTurn, InTurn', NEW c \in Calls, Others(c), UNCHANGED seen,
           SubscriptionWrites(c), cpc[c] \notin Over,
           Kind[c] \in {"created", "change"} => To[c].status = "active"
    PROVE  KeysFollow'
<1>0. member \in Members /\ keyRow \in [status : Statuses, plan : Tiers]
  BY DEF CallTypeOK
<1>1. CASE Overruled
  <2>1. Overruled'
    BY <1>1 DEF Overruled, Others, Over
  <2> QED BY <2>1 DEF KeysFollow
<1>2. CASE \E e \in Calls : OddlySeen(seen[e])
  BY <1>2 DEF KeysFollow, OddlySeen
<1>3. CASE /\ (\A e \in Calls : cpc[e] \notin Writing \union {"convertKeys"}) => Agrees
           /\ \A e \in Calls :
                 /\ cpc[e] \in Writing => Written(e)
                 /\ cpc[e] = "convert" => seen[e] = Now /\ OnTrial(Now)
                 /\ cpc[e] = "convertKeys" => Converted(e)
  <2>1. CASE UNCHANGED accountVars /\ cpc[c] \notin Between /\ cpc'[c] \notin Between
    BY <1>3, <2>1
    DEF KeysFollow, Others, Between, Agrees, Written, NewMember, Now, OnTrial, Converted, accountVars
  <2>2. CASE UNCHANGED accountVars /\ cpc[c] \in Writing /\ cpc'[c] \in Writing
    BY <1>3, <2>2
    DEF KeysFollow, Others, Writing, Agrees, Written, NewMember, Now, OnTrial, Converted, accountVars
  <2>3. CASE /\ cpc[c] = "member" /\ member' = NewMember(c) /\ keyRow' = keyRow
             /\ \/ cpc'[c] \in Writing
                \/ cpc'[c] = "done" /\ Kind[c] \in Grows /\ To[c].status /= "active"
    <3>1. \A e \in Calls \ {c} : cpc[e] \notin Between /\ cpc'[e] \notin Between
      BY <2>3 DEF InTurn, Rewrites, Between, Writing, Others
    <3>2. Agrees
      BY <1>3, <2>3, <3>1 DEF Between, Writing
    <3>3. CASE cpc'[c] \in Writing
      <4>1. Written(c)'
        BY <1>0, <2>3, <3>2 DEF Written, NewMember, Agrees, Cancels, Grows
      <4> QED BY <3>1, <3>3, <4>1 DEF KeysFollow, Between, Writing
    <3>4. CASE cpc'[c] = "done" /\ Kind[c] \in Grows /\ To[c].status /= "active"
      <4>1. Overruled'
        BY <3>4 DEF Overruled, Grows
      <4> QED BY <4>1 DEF KeysFollow
    <3> QED BY <2>3, <3>3, <3>4
  <2>4. CASE /\ cpc[c] = "keys" /\ cpc'[c] \notin Between
             /\ member' = member /\ keyRow' = NewKeyRow(c)
    <3>1. \A e \in Calls \ {c} : cpc[e] \notin Between /\ cpc'[e] \notin Between
      BY <2>4 DEF InTurn, Rewrites, Between, Writing, Others
    <3>2. Written(c)
      BY <1>3, <2>4 DEF Writing
    <3>3. Agrees'
      BY <2>4, <3>2 DEF Written, Agrees, NewKeyRow
    <3> QED BY <2>4, <3>1, <3>3 DEF KeysFollow, Between
  <2> QED BY <2>1, <2>2, <2>3, <2>4 DEF SubscriptionWrites
<1> QED BY <1>1, <1>2, <1>3 DEF KeysFollow

\* The end of a trial writes what it read, and so the same to both unless the
\* status and the tier it read do not go together.
LEMMA TrialFollows ==
    ASSUME CallTypeOK, CallTypeOK', PayTypeOK, KeysFollow, InTurn, InTurn', NEW c \in Calls, Others(c),
           \A e \in Calls \ {c} : seen'[e] = seen[e],
           TrialWrites(c), cpc[c] \notin Over, cpc[c] = "trial" => seen[c] = Unread
    PROVE  KeysFollow'
<1>0. /\ member \in Members /\ keyRow \in [status : Statuses, plan : Tiers]
      /\ seen \in [Calls -> [status : Statuses \union {"none"}, tier : Tiers \union {"none"}]]
  BY DEF CallTypeOK, PayTypeOK
<1>1. CASE Overruled
  <2>1. Overruled'
    BY <1>1 DEF Overruled, Others, Over
  <2> QED BY <2>1 DEF KeysFollow
<1>2. CASE \E e \in Calls : OddlySeen(seen[e])
  <2>1. PICK e \in Calls : OddlySeen(seen[e])
    BY <1>2
  <2>2. seen'[e] = seen[e]
    BY <2>1 DEF TrialWrites, OddlySeen, Unread
  <2> QED BY <2>1, <2>2 DEF KeysFollow, OddlySeen
<1>3. CASE /\ (\A e \in Calls : cpc[e] \notin Writing \union {"convertKeys"}) => Agrees
           /\ \A e \in Calls :
                 /\ cpc[e] \in Writing => Written(e)
                 /\ cpc[e] = "convert" => seen[e] = Now /\ OnTrial(Now)
                 /\ cpc[e] = "convertKeys" => Converted(e)
  <2>1. CASE UNCHANGED <<accountVars, seen>> /\ cpc[c] \notin Between /\ cpc'[c] \notin Between
    BY <1>3, <2>1
    DEF KeysFollow, Others, Between, Agrees, Written, NewMember, Now, OnTrial, Converted, accountVars
  <2>a. ASSUME cpc'[c] \in {"convert", "convertKeys"} \/ cpc[c] \in {"convert", "convertKeys"}
        PROVE  \A e \in Calls \ {c} : cpc[e] \notin Between /\ cpc'[e] \notin Between
    BY <2>a DEF InTurn, Rewrites, Between, Writing, Others
  <2>2. CASE /\ cpc[c] = "trial" /\ UNCHANGED accountVars
             /\ seen' = [seen EXCEPT ![c] = Now]
             /\ cpc'[c] = IF OnTrial(Now) THEN "convert" ELSE "convertKeys"
    <3>1. Agrees /\ \A e \in Calls \ {c} : cpc'[e] \notin Between
      BY <1>3, <2>2, <2>a DEF Between, Writing
    <3>2. seen'[c] = Now' /\ Now' = Now /\ Agrees'
      BY <1>0, <2>2, <3>1 DEF Now, Agrees, accountVars
    <3>3. cpc'[c] = "convertKeys" => Converted(c)'
      BY <2>2, <3>2 DEF Converted, OnTrial, Now, Agrees, accountVars
    <3>4. cpc'[c] = "convert" => OnTrial(Now)'
      BY <2>2, <3>2 DEF OnTrial
    <3> QED BY <2>2, <3>1, <3>2, <3>3, <3>4 DEF KeysFollow, Between, Writing
  <2>3. CASE /\ cpc[c] = "convert" /\ cpc'[c] = "convertKeys" /\ UNCHANGED <<keyRow, seen>>
             /\ member' = [member EXCEPT !.status = "inactive"]
    <3>1. /\ Agrees /\ \A e \in Calls \ {c} : cpc'[e] \notin Between
          /\ seen[c] = Now /\ OnTrial(seen[c])
      BY <1>3, <2>3, <2>a DEF Between, Writing
    <3>2. member.tier = seen[c].tier /\ keyRow = [status |-> seen[c].status, plan |-> seen[c].tier]
      BY <3>1 DEF Now, Agrees
    <3>3. member'.tier = member.tier /\ member'.status = "inactive"
      BY <1>0, <2>3 DEF Members
    <3>4. Converted(c)'
      BY <2>3, <3>1, <3>2, <3>3 DEF Converted, OnTrial
    <3> QED BY <2>3, <3>1, <3>4 DEF KeysFollow, Between, Writing
  <2>4. CASE /\ cpc[c] = "convertKeys" /\ cpc'[c] \notin Between /\ UNCHANGED <<member, seen>>
             /\ keyRow' = IF seen[c].status = "active" THEN keyRow
                          ELSE [keyRow EXCEPT !.status = "inactive"]
    <3>1. /\ \A e \in Calls \ {c} : cpc'[e] \notin Between
          /\ Converted(c)
      BY <1>3, <2>4, <2>a DEF Between, Writing
    <3>2. keyRow'.plan = member'.tier
      BY <1>0, <2>4, <3>1 DEF Converted
    <3>3. keyRow'.status = member'.status \/ OddlySeen(seen'[c])
      BY <1>0, <2>4, <3>1 DEF Converted, OnTrial, OddlySeen, Statuses, Tiers
    <3>4. keyRow'.status = member'.status => Agrees'
      BY <3>2 DEF CallTypeOK, Agrees
    <3> QED BY <2>4, <3>1, <3>3, <3>4 DEF KeysFollow, Between
  <2> QED BY <2>1, <2>2, <2>3, <2>4 DEF TrialWrites
<1> QED BY <1>1, <1>2, <1>3 DEF KeysFollow

\* A step that leaves the account alone, and takes no call between its writes
\* or away from there.
LEMMA RestFollows ==
    ASSUME KeysFollow, UNCHANGED <<accountVars, seen>>,
           \A c \in Calls : \/ cpc'[c] = cpc[c]
                            \/ /\ cpc[c] \notin Between \union Over
                               /\ cpc'[c] \notin Between
    PROVE  KeysFollow'
<1>1. Overruled => Overruled'
  BY DEF Overruled, Over
<1>2. CASE Overruled \/ \E c \in Calls : OddlySeen(seen[c])
  BY <1>1, <1>2 DEF KeysFollow, OddlySeen
<1>3. CASE ~(Overruled \/ \E c \in Calls : OddlySeen(seen[c]))
  BY <1>3 DEF KeysFollow, Between, Agrees, Written, NewMember, Now, OnTrial, Converted,
              accountVars
<1> QED BY <1>2, <1>3

LEMMA KeysInit == Init => KeysInv
<1> SUFFICES ASSUME Init PROVE KeysInv
  OBVIOUS
<1>1. PICK s \in Scenarios : CallInit(s)
  BY DEF Init
<1>2. /\ \A c \in Calls : cpc[c] \in {"start", "never"} /\ seen[c] = Unread
      /\ Agrees
  BY <1>1 DEF Init, CallInit, PayInit, Agrees
<1> QED BY <1>2 DEF KeysInv, KeysFollow, Writing

LEMMA KeysStep ==
    TypeOK /\ TypeOK' /\ ClaimInv /\ PlansInTurn /\ PlansInTurn' /\ KeysInv /\ [Next]_vars
        => KeysInv'
<1> SUFFICES ASSUME TypeOK, TypeOK', ClaimInv, PlansInTurn, PlansInTurn', KeysInv, [Next]_vars
             PROVE  KeysInv'
  OBVIOUS
<1>0. /\ CallTypeOK /\ CallTypeOK' /\ PayTypeOK /\ Routes /\ ClaimsHeld
      /\ outages \in Nat /\ outages' \in Nat
  BY TypeParts, TypePartsPrimed DEF ClaimInv, CallTypeOK
<1>m. ~mixed' => ~mixed
  BY DEF Next, vars
<1>i. /\ \A c \in Calls : cpc[c] \in Early => seen[c] = Unread
      /\ ~mixed /\ Calm => KeysFollow
      /\ ~mixed => InTurn
      /\ ~mixed' => ~mixed /\ InTurn'
  BY <1>m DEF KeysInv, PlansInTurn, InTurn
<1>1. CASE UNCHANGED vars
  <2>1. UNCHANGED <<cpc, outages, accountVars, seen>>
    BY <1>1 DEF vars, callVars, payVars
  <2>2. Calm' => Calm
    BY <2>1 DEF Calm, Died
  <2> QED BY <1>i, <2>1, <2>2, RestFollows DEF KeysInv
<1>2. ASSUME NEW c \in Calls, Handle(c) PROVE KeysInv'
  <2>1. CASE FrameStep(c) /\ UNCHANGED payVars
    <3>1. /\ Others(c) /\ UNCHANGED <<accountVars, seen>>
          /\ outages' >= outages
          /\ cpc'[c] \in Early => cpc[c] \in Early
          /\ cpc[c] \notin Over /\ cpc'[c] \notin Between
          /\ cpc[c] \in Between => cpc'[c] = "crashed"
      BY <1>0, <2>1, FrameKeys DEF payVars
    <3>2. Calm' => Calm /\ cpc[c] \notin Between
      BY <1>0, <3>1 DEF Calm, Died, Others, Over
    <3> QED BY <1>i, <3>1, <3>2, RestFollows DEF KeysInv, Others
  <2>2. CASE PaymentStep(c)
    <3>1. /\ Others(c) /\ cpc[c] \notin Over /\ outages' >= outages
          /\ cpc'[c] \in Early => cpc[c] \in Early /\ UNCHANGED seen
          /\ UNCHANGED seen \/ cpc[c] = "trial"
          /\ \A e \in Calls \ {c} : seen'[e] = seen[e]
          /\ outages' = outages => TrialWrites(c)
      BY <1>0, <2>2, TrialKeys, PaymentMoves DEF Moved
    <3>2. Calm' => Calm /\ outages' = outages
      BY <1>0, <3>1 DEF Calm, Died, Others, Over
    <3>3. ~mixed' /\ Calm' => KeysFollow'
      BY <1>0, <1>i, <3>1, <3>2, TrialFollows DEF Early
    <3> QED BY <1>i, <3>1, <3>3 DEF KeysInv, Others
  <2>3. CASE SubscriptionStep(c) /\ UNCHANGED payVars
    <3>1. /\ Others(c) /\ cpc[c] \notin Over /\ outages' >= outages
          /\ cpc'[c] \notin Early /\ UNCHANGED seen
          /\ outages' = outages => SubscriptionWrites(c)
      BY <1>0, <2>3, SubscriptionKeys, SubscriptionMoves DEF Moved, payVars
    <3>2. Calm' => Calm /\ outages' = outages
      BY <1>0, <3>1 DEF Calm, Died, Others, Over
    <3>3. Kind[c] \in {"created", "change"} => To[c].status = "active"
      BY SubscriptionAssumption
    <3>4. ~mixed' /\ Calm' => KeysFollow'
      BY <1>0, <1>i, <3>1, <3>2, <3>3, SubscriptionFollows
    <3> QED BY <1>i, <3>1, <3>4 DEF KeysInv, Others
  <2> QED BY <1>2, <2>1, <2>2, <2>3 DEF Handle
<1>3. ASSUME UNCHANGED callVars, UNCHANGED payVars PROVE KeysInv'
  <2>1. UNCHANGED <<cpc, outages, accountVars, seen>>
    BY <1>3 DEF callVars, payVars
  <2>2. Calm' => Calm
    BY <2>1 DEF Calm, Died
  <2> QED BY <1>i, <2>1, <2>2, RestFollows DEF KeysInv
<1>4. CASE Next
  BY <1>2, <1>3, <1>4, Steps DEF Next, Grant, LateGrant, ChangeAllowance
<1> QED BY <1>1, <1>4

THEOREM TurnsTaken == Spec => []PlansInTurn
<1>1. Spec => []TypeOK
  BY TypeCorrect
<1> QED BY <1>1, PlanInit, PlanStep, PTL DEF Spec

THEOREM KeysInvAlways == Spec => []KeysInv
<1>1. Spec => [](TypeOK /\ ClaimInv /\ PlansInTurn)
  BY TypeCorrect, ClaimInvAlways, TurnsTaken, PTL
<1> QED BY <1>1, KeysInit, KeysStep, PTL DEF Spec

\* When no call is running, no statement failed and no two calls rewrote the
\* account at once, the API keys carry the status and the tier of the user,
\* for any calls in any order, but for the two exceptions named.
THEOREM KeysAgree == Spec => []AccountAgrees
<1>1. KeysInv => AccountAgrees
  <2> SUFFICES ASSUME KeysInv, AtRest, ~mixed, ~Died, outages = 0
               PROVE  \/ Agrees \/ Overruled \/ \E c \in Calls : OddlySeen(seen[c])
    BY DEF AccountAgrees, Agrees, Overruled
  <2>1. KeysFollow
    BY DEF KeysInv, Calm
  <2>2. \A c \in Calls : cpc[c] \notin Writing \union {"convertKeys"}
    BY DEF AtRest, Over, Writing
  <2> QED BY <2>1, <2>2 DEF KeysFollow
<1> QED BY <1>1, KeysInvAlways, PTL

-----------------------------------------------------------------------------

LEMMA Kinds ==
    /\ \A c \in Calls : Kind[c] \in WebhookKinds \union EndpointKinds \union {"poll"}
    /\ \A c \in Calls : c \in ResetCalls <=> Kind[c] \in Grows \union Cancels \union {"invoicePaid"}
BY CallAssumption DEF ResetCalls

LEMMA JobTiers ==
    /\ Jobs = ResetCalls /\ ResetCalls \subseteq Calls
    /\ \A c \in ResetCalls : Tier[c] = IF Kind[c] \in Cancels THEN 0 ELSE TierAllowance[To[c].tier]
    /\ \A c \in Calls : TierAllowance[To[c].tier] \in Nat
    /\ \A c \in Calls : Kind[c] \in {"created", "change"} => To[c].status = "active"
BY SubscriptionAssumption DEF ResetCalls

\* Each statement keeps its call among the places of its kind.
LEMMA PlacesStep ==
    ASSUME CallTypeOK, PlacesInv, ClaimsHeld, NEW c \in Calls,
           FrameStep(c) \/ PaymentStep(c) \/ SubscriptionStep(c)
    PROVE  cpc'[c] \in Places(Kind[c]) /\ Others(c)
<1>0. /\ cpc[c] \in Places(Kind[c]) /\ cpc[c] \in Labels
      /\ claim[c] = "claimed" => Kind[c] \in WebhookKinds
      /\ Kind[c] \in WebhookKinds \union EndpointKinds \union {"poll"}
  BY Kinds DEF PlacesInv, CallTypeOK, ClaimsHeld, Delivers
<1> USE <1>0, Elsewhere DEF Others, Places, PlanOnly, Labels, Over, Cancels, Grows, WebhookKinds,
                             EndpointKinds
<1>1. CASE FrameStep(c)
  <2>1. CASE ClaimEvent(c)
    BY <2>1 DEF ClaimEvent, Delivers
  <2>2. CASE ReleaseEvent(c) \/ Crash(c)
    BY <2>2 DEF ReleaseEvent, Crash
  <2> QED BY <1>1, <2>1, <2>2 DEF FrameStep
<1>2. CASE PaymentStep(c)
  <2>1. CASE PollBegins(c) \/ FindsSession(c) \/ Guard(c) \/ GrantRaises(c) \/ Completes(c)
    BY <2>1 DEF PollBegins, FindsSession, Guard, GrantRaises, Completes
  <2>2. CASE ReadsTrial(c) \/ ConvertsTrial(c) \/ ConvertsKeys(c)
    BY <2>2 DEF ReadsTrial, ConvertsTrial, ConvertsKeys
  <2>3. CASE ReadsFirst(c) \/ BonusEnds(c) \/ MarksFirst(c)
    BY <2>3 DEF ReadsFirst, BonusEnds, MarksFirst
  <2>4. CASE LooksUpIntent(c) \/ MarksSucceeded(c) \/ IntentGranted(c) \/ MarksFailed(c)
    BY <2>4 DEF LooksUpIntent, MarksSucceeded, IntentGranted, MarksFailed
  <2> QED BY <1>2, <2>1, <2>2, <2>3, <2>4 DEF PaymentStep
<1>3. CASE SubscriptionStep(c)
  <2>1. CASE EndpointBegins(c)
    BY <2>1 DEF EndpointBegins
  <2>2. CASE CancelsLater(c) \/ FindsUser(c) \/ ReadsInvoice(c)
    BY <2>2 DEF CancelsLater, FindsUser, ReadsInvoice
  <2>3. CASE WritesMember(c)
    BY <2>3 DEF WritesMember
  <2>4. CASE DeactivatesPlans(c) \/ InsertsPlan(c)
    BY <2>4 DEF DeactivatesPlans, InsertsPlan
  <2>5. CASE WritesKeys(c)
    BY <2>5 DEF WritesKeys
  <2>6. CASE LooksUpAllowance(c) \/ ReadsRemaining(c)
    BY <2>6 DEF LooksUpAllowance, ReadsRemaining
  <2>7. CASE AllowanceEnds(c) \/ LogsChange(c)
    BY <2>7 DEF AllowanceEnds, LogsChange
  <2> QED BY <1>3, <2>1, <2>2, <2>3, <2>4, <2>5, <2>6, <2>7 DEF SubscriptionStep
<1> QED BY <1>1, <1>2, <1>3

THEOREM PlacesAlways == Spec => []PlacesInv
<1>1. Init => PlacesInv
  BY Kinds DEF Init, CallInit, PlacesInv, Places, Labels, Over, PlanOnly, Cancels, WebhookKinds,
               EndpointKinds
<1>2. TypeOK /\ ClaimInv /\ PlacesInv /\ [Next]_vars => PlacesInv'
  <2> SUFFICES ASSUME TypeOK, ClaimInv, PlacesInv, [Next]_vars PROVE PlacesInv'
    OBVIOUS
  <2>0. CallTypeOK /\ ClaimsHeld
    BY TypeParts DEF ClaimInv
  <2>1. UNCHANGED cpc => PlacesInv'
    BY DEF PlacesInv
  <2>2. ASSUME NEW c \in Calls, Handle(c) PROVE PlacesInv'
    BY <2>0, <2>2, PlacesStep DEF Handle, PlacesInv, Others
  <2> QED BY <2>1, <2>2, Steps DEF Next, vars, callVars, Grant, LateGrant, ChangeAllowance
<1>3. Spec => [](TypeOK /\ ClaimInv)
  BY TypeCorrect, ClaimInvAlways, PTL
<1> QED BY <1>1, <1>2, <1>3, PTL DEF Spec

-----------------------------------------------------------------------------

Goes(c, from, to) == cpc[c] = from /\ cpc'[c] = to

\* What a statement of a subscription that does not fail does to its call, to
\* the user and to the history, in the order of a handler.
Begins(c) ==
    /\ UNCHANGED <<member, spared>>
    /\ \/ Goes(c, "start", "refused")
       \/ Goes(c, "start", "touch") \/ (Goes(c, "touch", "done") /\ c \notin ResetCalls)
       \/ cpc[c] \in {"start", "find"} /\ cpc'[c] = "member" /\ Kind[c] \notin Cancels
       \/ Goes(c, "find", "lookup") /\ Kind[c] = "invoicePaid"
       \/ /\ cpc[c] \in {"start", "find"} /\ cpc'[c] = "allowance"
          /\ Kind[c] \in Cancels /\ jpc'[c] = "read"

Rewriting(c) ==
    /\ spared' = spared
    /\ \/ /\ cpc[c] = "member" /\ member' = NewMember(c)
          /\ \/ Kind[c] \notin Grows /\ cpc'[c] = "keys"
             \/ Kind[c] \in Grows /\ To[c].status = "active" /\ cpc'[c] = "deactivate"
             \/ Kind[c] \in Grows /\ To[c].status /= "active" /\ cpc'[c] = "done"
       \/ /\ member' = member
          /\ \/ Goes(c, "deactivate", "insert") \/ Goes(c, "insert", "keys")
             \/ Goes(c, "keys", IF Kind[c] \in Grows THEN "lookup" ELSE "done")

Spares(c) ==
    /\ member' = member
    /\ spared' = spared \union {c} /\ cpc'[c] = "done" /\ Stamped(c)
    /\ \/ cpc[c] = "find" /\ Kind[c] = "invoicePaid"
       \/ cpc[c] = "keys" /\ Kind[c] = "updated"

Allows(c) ==
    /\ UNCHANGED <<member, spared>>
    /\ \/ Goes(c, "lookup", "done") /\ TierAllowance[To[c].tier] = 0
       \/ /\ Goes(c, "lookup", "remaining") /\ TierAllowance[To[c].tier] > 0
          /\ Kind[c] = "change"
       \/ Goes(c, "lookup", "allowance") /\ TierAllowance[To[c].tier] > 0 /\ jpc'[c] = "read"
       \/ Goes(c, "remaining", "allowance") /\ jpc'[c] = "read"
       \/ /\ jpc[c] = "done"
          /\ Goes(c, "allowance", IF Kind[c] \in Cancels THEN "member"
                                  ELSE IF Kind[c] = "change" THEN "audit" ELSE "done")
       \/ Goes(c, "audit", "done")

LEMMA SubscriptionTurns ==
    ASSUME CallTypeOK, JobTypeOK, PlacesInv, NEW c \in Calls, SubscriptionStep(c),
           outages' = outages, cpc[c] = "allowance" => jpc[c] /= "failed"
    PROVE  /\ Others(c) /\ plan' = plan
           /\ \A e \in Jobs \ {c} : jpc'[e] = jpc[e]
           /\ Begins(c) \/ Rewriting(c) \/ Spares(c) \/ Allows(c)
<1>0. /\ outages \in Nat /\ cpc[c] \in Places(Kind[c])
      /\ Kind[c] \in Grows \union Cancels \union {"invoicePaid"} => c \in Jobs
  BY Kinds, JobTiers DEF PlacesInv, CallTypeOK
<1>d. ~Down
  BY <1>0 DEF Down
<1>j. /\ UNCHANGED jobVars => \A e \in Jobs : jpc'[e] = jpc[e]
      /\ InvokeJob(c) => /\ \A e \in Jobs \ {c} : jpc'[e] = jpc[e]
                         /\ c \in Jobs => jpc'[c] = "read"
      /\ UNCHANGED balanceVars => plan' = plan
  BY DEF jobVars, InvokeJob, JobGoto, JobTypeOK, balanceVars, historyVars
<1>l. /\ cpc[c] \in {"lookup", "remaining"} => c \in Jobs
      /\ cpc[c] = "touch" => c \notin ResetCalls
      /\ cpc[c] = "find" => Kind[c] /= "cancelNow"
  BY <1>0, Kinds DEF Places, PlanOnly, Over, Grows, Cancels, WebhookKinds, EndpointKinds
<1> USE <1>0, <1>d, <1>j, <1>l, Elsewhere DEF Others, Goes
<1>1. CASE EndpointBegins(c)
  BY <1>1 DEF EndpointBegins, EndpointKinds, Grows, Cancels, Begins, accountVars, planVars
<1>2. CASE CancelsLater(c)
  BY <1>2 DEF CancelsLater, Begins, accountVars, planVars
<1>3. CASE FindsUser(c)
  BY <1>3 DEF FindsUser, Begins, Grows, Cancels, accountVars, planVars
<1>4. CASE ReadsInvoice(c)
  BY <1>4 DEF ReadsInvoice, Begins, Spares, accountVars
<1>5. CASE WritesMember(c)
  BY <1>5 DEF WritesMember, Rewriting, planVars
<1>6. CASE DeactivatesPlans(c)
  BY <1>6 DEF DeactivatesPlans, Rewriting, accountVars
<1>7. CASE InsertsPlan(c)
  BY <1>7 DEF InsertsPlan, Rewriting, accountVars
<1>8. CASE WritesKeys(c)
  BY <1>8 DEF WritesKeys, Rewriting, Spares
<1>9. CASE LooksUpAllowance(c)
  BY <1>9 DEF LooksUpAllowance, Allows, accountVars, planVars
<1>10. CASE ReadsRemaining(c)
  BY <1>10 DEF ReadsRemaining, Allows, accountVars
<1>11. CASE AllowanceEnds(c)
  BY <1>11 DEF AllowanceEnds, Allows, accountVars, planVars
<1>12. CASE LogsChange(c)
  <2>1. plan' = plan
    BY <1>12 DEF LogsChange, LogUsage, historyVars
  <2> QED BY <1>12, <2>1 DEF LogsChange, Allows, accountVars, planVars
<1> QED BY <1>1, <1>2, <1>3, <1>4, <1>5, <1>6, <1>7, <1>8, <1>9, <1>10, <1>11, <1>12
        DEF SubscriptionStep

\* What a step of a job that does not fail does.
JobTurn(c) ==
    \/ /\ jpc[c] = "read" /\ plan' = plan
       /\ jpc'[c] = "write" \/ (jpc'[c] = "done" /\ Tier[c] = 0)
    \/ jpc[c] = "write" /\ plan' = Tier[c] /\ jpc'[c] = "log"
    \/ jpc[c] = "log" /\ plan' = plan /\ jpc'[c] = "done"

LEMMA JobTurns ==
    ASSUME JobTypeOK, faults \in Nat, faults' = faults, NEW c \in Jobs, JobStep(c)
    PROVE  JobTurn(c) /\ \A e \in Jobs \ {c} : jpc'[e] = jpc[e]
<1>1. /\ ~Lose(1)
      /\ RowUntouched => plan' = plan
      /\ \A label : JobGoto(c, label) =>
            jpc'[c] = label /\ \A e \in Jobs \ {c} : jpc'[e] = jpc[e]
  BY DEF Lose, RowUntouched, historyVars, JobGoto, JobTypeOK
<1>2. CASE JobReads(c)
  BY <1>1, <1>2 DEF JobReads, JobTurn, Forfeits
<1>3. CASE JobWrites(c)
  BY <1>1, <1>3 DEF JobWrites, JobTurn, SetAllowance
<1>4. CASE JobLogs(c)
  BY <1>1, <1>4 DEF JobLogs, JobTurn, LogUsage, historyVars
<1> QED BY <1>2, <1>3, <1>4 DEF JobStep

\* The calls that set no allowance, and the frame of those that do.
Aside(c) ==
    /\ UNCHANGED <<spared, jpc, plan>> /\ Others(c)
    /\ c \in ResetCalls => cpc[c] = "start" /\ cpc'[c] \in {"find", "skipped"}
    /\ \/ member' = member
       \/ cpc[c] = "convert" /\ member' = [member EXCEPT !.status = "inactive"]

LEMMA Asides ==
    ASSUME CallTypeOK, PayTypeOK, PlacesInv, NEW c \in Calls, ~Died', outages' = outages,
           c \in ResetCalls => cpc[c] /= "release",
           \/ FrameStep(c) /\ UNCHANGED <<planVars, jobVars, balanceVars>>
           \/ PaymentStep(c) /\ UNCHANGED <<planVars, jobVars>>
    PROVE  Aside(c)
<1>1. CASE FrameStep(c) /\ UNCHANGED <<planVars, jobVars, balanceVars>>
  <2>1. Others(c) /\ UNCHANGED accountVars
    BY <1>1, FrameKeys
  <2>2. c \in ResetCalls => cpc[c] = "start" /\ cpc'[c] \in {"find", "skipped"}
    <3>1. CASE ClaimEvent(c)
      BY <3>1, Elsewhere DEF ClaimEvent
    <3>2. CASE ReleaseEvent(c)
      BY <3>2 DEF ReleaseEvent
    <3>3. CASE Crash(c)
      BY <3>3, Elsewhere DEF Crash, Died
    <3> QED BY <1>1, <3>1, <3>2, <3>3 DEF FrameStep
  <2> QED BY <1>1, <2>1, <2>2 DEF Aside, planVars, jobVars, balanceVars, historyVars, accountVars
<1>2. CASE PaymentStep(c) /\ UNCHANGED <<planVars, jobVars>>
  <2>1. Others(c) /\ TrialWrites(c)
    BY <1>2, TrialKeys
  <2>2. c \notin ResetCalls /\ UNCHANGED balanceVars
    <3>0. cpc[c] \in Places(Kind[c]) /\ Kind[c] \in WebhookKinds \union EndpointKinds \union {"poll"}
      BY Kinds DEF PlacesInv
    <3> USE <3>0, Kinds DEF Places, PlanOnly, Over, Cancels, Grows, WebhookKinds, EndpointKinds
    <3>1. CASE PollBegins(c) \/ FindsSession(c) \/ Guard(c) \/ GrantRaises(c) \/ Completes(c)
      BY <3>1 DEF PollBegins, FindsSession, Guard, GrantRaises, Completes
    <3>2. CASE ReadsTrial(c) \/ ConvertsTrial(c) \/ ConvertsKeys(c)
      BY <3>2 DEF ReadsTrial, ConvertsTrial, ConvertsKeys
    <3>3. CASE ReadsFirst(c) \/ BonusEnds(c) \/ MarksFirst(c)
      BY <3>3 DEF ReadsFirst, BonusEnds, MarksFirst
    <3>4. CASE LooksUpIntent(c) \/ MarksSucceeded(c) \/ IntentGranted(c) \/ MarksFailed(c)
      BY <3>4 DEF LooksUpIntent, MarksSucceeded, IntentGranted, MarksFailed
    <3> QED BY <1>2, <3>1, <3>2, <3>3, <3>4 DEF PaymentStep
  <2> QED BY <1>2, <2>1, <2>2
          DEF Aside, TrialWrites, planVars, jobVars, balanceVars, historyVars, accountVars
<1> QED BY <1>1, <1>2

\* No grant is one of an allowance.
LEMMA GrantsAside ==
    ASSUME NEW d \in Deliveries, GrantStep(d) \/ OrphanGrants(d)
    PROVE  plan' = plan
<1> USE DEF historyVars
<1>1. AtomicGrant(d) => plan' = plan
  BY DEF AtomicGrant, AtomicAdd
<1>2. RowUntouched => plan' = plan
  BY DEF RowUntouched
<1>3. CASE GrantRpc(d) \/ OrphanGrants(d)
  BY <1>1, <1>3 DEF GrantRpc, OrphanGrants
<1>4. CASE GrantUnanswered(d) \/ GrantReads(d)
  BY <1>2, <1>4 DEF GrantUnanswered, GrantReads
<1>5. CASE GrantUpdates(d) \/ GrantLogs(d)
  BY <1>2, <1>5 DEF GrantUpdates, GrantLogs, BlindAdd
<1> QED BY <1>3, <1>4, <1>5 DEF GrantStep

\* A step that nothing disturbs is one of these.
Turns ==
    \/ UNCHANGED <<cpc, member, spared, jpc, plan>>
    \/ \E c \in Calls : Aside(c)
    \/ \E c \in Calls :
          /\ Others(c) /\ plan' = plan /\ \A e \in Jobs \ {c} : jpc'[e] = jpc[e]
          /\ Begins(c) \/ Rewriting(c) \/ Spares(c) \/ Allows(c)
    \/ \E c \in Jobs :
          /\ UNCHANGED <<cpc, member, spared>> /\ cpc[c] = "allowance"
          /\ JobTurn(c) /\ \A e \in Jobs \ {c} : jpc'[e] = jpc[e]

\* Nothing takes back a failure.
LEMMA FaultsStay ==
    ASSUME faults \in Nat
    PROVE  /\ \A c \in Calls : Handle(c) => faults' >= faults
           /\ \A d \in Deliveries : GrantStep(d) \/ OrphanGrants(d) => faults' >= faults
           /\ \A c \in Jobs : JobStep(c) => faults' >= faults
<1>1. /\ UNCHANGED balanceVars \/ Answered => faults' >= faults
      /\ \A n \in Nat : Lose(n) => faults' >= faults
      /\ 0..LogTries \subseteq Nat
  BY DEF balanceVars, Answered, Lose, LogTries
<1>2. ASSUME NEW c \in Calls, Handle(c) PROVE faults' >= faults
  <2>1. CASE FrameStep(c) /\ UNCHANGED balanceVars
    BY <1>1, <2>1
  <2>2. CASE PaymentStep(c)
    BY <1>1, <2>2
    DEF PaymentStep, PollBegins, FindsSession, Guard, GrantRaises, Completes, ReadsTrial,
        ConvertsTrial, ConvertsKeys, ReadsFirst, BonusEnds, MarksFirst, LooksUpIntent,
        MarksSucceeded, IntentGranted, MarksFailed
  <2>3. CASE SubscriptionStep(c)
    <3>1. CASE LogsChange(c)
      BY <1>1, <3>1 DEF LogsChange
    <3> QED
      BY <1>1, <2>3, <3>1
      DEF SubscriptionStep, EndpointBegins, CancelsLater, FindsUser, ReadsInvoice, WritesMember,
          DeactivatesPlans, InsertsPlan, WritesKeys, LooksUpAllowance, ReadsRemaining,
          AllowanceEnds
  <2> QED BY <1>2, <2>1, <2>2, <2>3 DEF Handle
<1>3. ASSUME NEW d \in Deliveries, GrantStep(d) \/ OrphanGrants(d) PROVE faults' >= faults
  BY <1>1, <1>3
  DEF GrantStep, OrphanGrants, GrantRpc, GrantUnanswered, GrantReads, GrantUpdates, GrantLogs
<1>4. ASSUME NEW c \in Jobs, JobStep(c) PROVE faults' >= faults
  BY <1>1, <1>4 DEF JobStep, JobReads, JobWrites, JobLogs
<1> QED BY <1>2, <1>3, <1>4

LEMMA Undisturbs ==
    TypeOK /\ PlacesInv /\ ClaimInv /\ SpareInv /\ [Next]_vars /\ Undisturbed'
        => Undisturbed /\ Turns
<1> SUFFICES ASSUME TypeOK, PlacesInv, ClaimInv, SpareInv, [Next]_vars, Undisturbed'
             PROVE  Undisturbed /\ Turns
  OBVIOUS
<1>0. /\ CallTypeOK /\ PayTypeOK /\ BalanceTypeOK /\ JobTypeOK /\ Routes /\ ClaimsHeld
      /\ outages \in Nat /\ faults \in Nat /\ gorphans \subseteq Deliveries /\ ~Died'
  BY TypeParts DEF ClaimInv, CallTypeOK, BalanceTypeOK, AccountTypeOK, GrantTypeOK, Undisturbed
<1>1. CASE UNCHANGED vars
  BY <1>1 DEF vars, callVars, planVars, jobVars, balanceVars, historyVars, accountVars,
              Undisturbed, Died, Turns
<1>2. ASSUME NEW c \in Calls, Handle(c) PROVE Undisturbed /\ Turns
  <2>1. outages' >= outages /\ Others(c) /\ cpc[c] \notin Over
    BY <1>0, <1>2, FrameKeys, PaymentMoves, SubscriptionMoves DEF Handle, Moved, Others
  <2>2. Undisturbed /\ outages' = outages
    BY <1>0, <1>2, <2>1, FaultsStay, Disturbed DEF Others, Over
  <2>3. c \in ResetCalls => cpc[c] /= "release" /\ (cpc[c] = "allowance" => jpc[c] /= "failed")
    BY <2>2 DEF SpareInv
  <2>4. CASE \/ FrameStep(c) /\ UNCHANGED <<planVars, jobVars, balanceVars>>
             \/ PaymentStep(c) /\ UNCHANGED <<planVars, jobVars>>
    <3>1. Aside(c)
      BY <1>0, <2>2, <2>3, <2>4, Asides
    <3> QED BY <2>2, <3>1 DEF Turns
  <2>5. CASE SubscriptionStep(c)
    <3>1. cpc[c] = "allowance" => c \in ResetCalls
      BY Kinds DEF PlacesInv, Places, PlanOnly, Over, Cancels, Grows, WebhookKinds, EndpointKinds
    <3>2. /\ Others(c) /\ plan' = plan
          /\ \A e \in Jobs \ {c} : jpc'[e] = jpc[e]
          /\ Begins(c) \/ Rewriting(c) \/ Spares(c) \/ Allows(c)
      BY <1>0, <2>2, <2>3, <2>5, <3>1, SubscriptionTurns
    <3> QED BY <2>2, <3>2 DEF Turns
  <2> QED BY <1>2, <2>4, <2>5 DEF Handle
<1>3. ASSUME NEW d \in Deliveries, Grant(d) \/ LateGrant(d) PROVE Undisturbed /\ Turns
  <2>1. UNCHANGED <<callVars, planVars, jobVars>> /\ (GrantStep(d) \/ OrphanGrants(d))
    BY <1>3 DEF Grant, LateGrant
  <2>2. Undisturbed
    BY <1>0, <2>1, FaultsStay, Disturbed DEF callVars
  <2> QED BY <2>1, <2>2, GrantsAside DEF Turns, callVars, planVars, jobVars, accountVars
<1>4. ASSUME NEW c \in Jobs, ChangeAllowance(c) PROVE Undisturbed /\ Turns
  <2>1. UNCHANGED <<callVars, planVars>> /\ cpc[c] = "allowance" /\ JobStep(c)
    BY <1>4 DEF ChangeAllowance
  <2>2. Undisturbed /\ faults' = faults
    BY <1>0, <2>1, FaultsStay, Disturbed DEF callVars
  <2>3. JobTurn(c) /\ \A e \in Jobs \ {c} : jpc'[e] = jpc[e]
    BY <1>0, <2>1, <2>2, JobTurns
  <2> QED BY <2>1, <2>2, <2>3 DEF Turns, callVars, planVars, accountVars
<1> QED BY <1>1, <1>2, <1>3, <1>4, Steps, <1>0 DEF Next

\* What a call has set it has set, and a change that has begun has begun.
LEMMA Remembered ==
    ASSUME PlacesInv, Turns
    PROVE  /\ \A c \in ResetCalls : HasSet(c) => HasSet(c)'
           /\ \A x \in Calls : Begun(x) => Begun(x)'
<1>1. CASE UNCHANGED <<cpc, member, spared, jpc, plan>>
  BY <1>1 DEF HasSet, Begun
<1>2. ASSUME NEW c \in Calls, Aside(c)
      PROVE  /\ \A d \in ResetCalls : HasSet(d) => HasSet(d)'
             /\ \A x \in Calls : Begun(x) => Begun(x)'
  <2>1. \A d \in ResetCalls \ {c} : HasSet(d) => HasSet(d)'
    BY <1>2, JobTiers DEF Aside, Others, HasSet
  <2>2. \A x \in Calls \ {c} : Begun(x) => Begun(x)'
    BY <1>2 DEF Aside, Others, Begun
  <2>3. c \in ResetCalls => ~HasSet(c) /\ ~Begun(c)
    BY <1>2 DEF Aside, HasSet, Begun
  <2>4. Kind[c] = "change" => c \in ResetCalls
    BY Kinds DEF Grows
  <2> QED BY <2>1, <2>2, <2>3, <2>4 DEF Begun
<1>3. ASSUME NEW c \in Calls, Others(c), \A e \in Jobs \ {c} : jpc'[e] = jpc[e],
             Begins(c) \/ Rewriting(c) \/ Spares(c) \/ Allows(c)
      PROVE  /\ \A d \in ResetCalls : HasSet(d) => HasSet(d)'
             /\ \A x \in Calls : Begun(x) => Begun(x)'
  <2>1. \A d \in ResetCalls \ {c} : HasSet(d) => HasSet(d)'
    BY <1>3, JobTiers DEF Others, HasSet
  <2>2. \A x \in Calls \ {c} : Begun(x) => Begun(x)'
    BY <1>3 DEF Others, Begun
  <2>3. HasSet(c) => HasSet(c)'
    BY <1>3 DEF Begins, Rewriting, Spares, Allows, Goes, HasSet, Cancels, Grows
  <2>4. Begun(c) => Begun(c)'
    BY <1>3 DEF Begins, Rewriting, Spares, Allows, Goes, Begun
  <2> QED BY <2>1, <2>2, <2>3, <2>4
<1>4. ASSUME NEW c \in Jobs, UNCHANGED cpc, JobTurn(c), \A e \in Jobs \ {c} : jpc'[e] = jpc[e]
      PROVE  /\ \A d \in ResetCalls : HasSet(d) => HasSet(d)'
             /\ \A x \in Calls : Begun(x) => Begun(x)'
  BY <1>4, JobTiers DEF JobTurn, HasSet, Begun
<1> QED BY <1>1, <1>2, <1>3, <1>4 DEF Turns

\* The calls that set an allowance are at their labels.
LEMMA ResetPlaces ==
    PlacesInv => \A c \in Calls :
        /\ cpc[c] \in {"lookup", "remaining", "allowance", "audit"} => c \in ResetCalls
        /\ Kind[c] = "change" => c \in ResetCalls
        /\ Kind[c] = "invoicePaid" => cpc[c] \notin {"member", "keys"}
        /\ cpc[c] \in {"deactivate", "insert"} => Kind[c] \in Grows
BY Kinds DEF PlacesInv, Places, PlanOnly, Over, Cancels, Grows, WebhookKinds, EndpointKinds

\* A call that counts as having set the allowance has set it to that of its
\* tier, or there is none, or it leaves the allowance alone.
LEMMA NewlySet ==
    ASSUME PlacesInv, PlacesInv', Turns, NEW e \in ResetCalls, HasSet(e)', ~HasSet(e)
    PROVE  \/ cpc[e] = "allowance" /\ plan' = Tier[e] /\ UNCHANGED <<cpc, member, spared>>
           \/ Tier[e] = 0 /\ plan' = plan
           \/ Spares(e) /\ Others(e) /\ plan' = plan
           \/ Rewriting(e) /\ cpc[e] = "member" /\ Kind[e] = "updated" /\ plan' = plan
<1>1. CASE UNCHANGED <<cpc, member, spared, jpc, plan>>
  BY <1>1 DEF HasSet
<1>2. ASSUME NEW c \in Calls, Aside(c) PROVE FALSE
  BY <1>2, JobTiers DEF Aside, Others, HasSet
<1>3. ASSUME NEW c \in Calls, Others(c), plan' = plan, \A d \in Jobs \ {c} : jpc'[d] = jpc[d],
             Begins(c) \/ Rewriting(c) \/ Spares(c) \/ Allows(c)
      PROVE  \/ Tier[e] = 0 /\ plan' = plan
             \/ Spares(e) /\ Others(e) /\ plan' = plan
             \/ Rewriting(e) /\ cpc[e] = "member" /\ Kind[e] = "updated" /\ plan' = plan
  <2>1. c = e
    BY <1>3, JobTiers DEF Others, HasSet
  <2>2. ~Begins(e)
    BY <2>1 DEF Begins, Goes, HasSet
  <2>3. Rewriting(e) => cpc[e] = "member" /\ Kind[e] = "updated"
    <3>1. cpc[e] \in {"member", "deactivate", "insert", "keys"} => Kind[e] \in Grows
      BY JobTiers, ResetPlaces, Kinds DEF HasSet
    <3>2. Kind[e] \in Grows => Kind[e] \notin Cancels
      BY DEF Cancels, Grows
    <3>3. Kind[e] \in Grows /\ To[e].status /= "active" => Kind[e] = "updated"
      BY JobTiers DEF Grows
    <3> QED BY <3>1, <3>2, <3>3 DEF Rewriting, Goes, HasSet
  <2>4. Allows(e) => Tier[e] = 0
    BY JobTiers DEF Allows, Goes, HasSet, Cancels, Grows
  <2> QED BY <1>3, <2>1, <2>2, <2>3, <2>4
<1>4. ASSUME NEW c \in Jobs, UNCHANGED <<cpc, member, spared>>, cpc[c] = "allowance", JobTurn(c),
             \A d \in Jobs \ {c} : jpc'[d] = jpc[d]
      PROVE  \/ cpc[e] = "allowance" /\ plan' = Tier[e] /\ UNCHANGED <<cpc, member, spared>>
             \/ Tier[e] = 0 /\ plan' = plan
  <2>1. c = e
    BY <1>4, JobTiers DEF HasSet
  <2> QED BY <1>4, <2>1 DEF JobTurn, HasSet
<1> QED BY <1>1, <1>2, <1>3, <1>4 DEF Turns

LEMMA SpareInit == Init => SpareInv
<1> SUFFICES ASSUME Init PROVE SpareInv
  OBVIOUS
<1>1. PICK s \in Scenarios : CallInit(s) /\ SubscriptionInit(s)
  BY DEF Init
<1>2. spared = {} /\ \A c \in Calls : cpc[c] \in {"start", "never"}
  BY <1>1 DEF CallInit, SubscriptionInit
<1> QED BY <1>2, JobTiers DEF SpareInv, HasSet

LEMMA SpareStep ==
    TypeOK /\ PlacesInv /\ PlacesInv' /\ ClaimInv /\ SpareInv /\ [Next]_vars => SpareInv'
<1> SUFFICES ASSUME TypeOK, PlacesInv, PlacesInv', ClaimInv, SpareInv, [Next]_vars, Undisturbed'
             PROVE  SpareInv'
  BY DEF SpareInv
<1>0. /\ Turns
      /\ \A c \in Calls :
            Kind[c] \notin Cancels /\ cpc[c] \in {"remaining", "allowance"} => Tier[c] > 0
      /\ \A c \in spared : \E x \in Calls : Begun(x) /\ To[x].tier = To[c].tier
      /\ \A c \in ResetCalls :
            /\ cpc[c] \notin {"failed", "release"}
            /\ cpc[c] = "allowance" => jpc[c] /= "failed"
      /\ \A x \in Calls :
            Kind[x] = "change" /\ Tier[x] > 0 /\ HasSet(x) =>
               \/ plan = Tier[x]
               \/ \E d \in ResetCalls : HasSet(d) /\ Tier[d] /= Tier[x]
  BY Undisturbs DEF SpareInv
<1>m. /\ \A c \in ResetCalls : HasSet(c) => HasSet(c)'
      /\ \A x \in Calls : Begun(x) => Begun(x)'
  BY <1>0, Remembered
<1>1. ASSUME NEW e \in Calls, Kind[e] \notin Cancels, cpc'[e] \in {"remaining", "allowance"}
      PROVE  Tier[e] > 0
  <2>1. CASE cpc'[e] = cpc[e]
    BY <1>0, <1>1, <2>1
  <2>2. CASE cpc'[e] /= cpc[e]
    <3>1. e \in ResetCalls
      BY <1>1, Kinds DEF PlacesInv, Places, PlanOnly, Over, Cancels, Grows, WebhookKinds,
                         EndpointKinds
    <3>2. Begins(e) \/ Rewriting(e) \/ Spares(e) \/ Allows(e)
      BY <1>0, <1>1, <2>2, <3>1 DEF Turns, Aside, Others
    <3>3. Tier[e] = TierAllowance[To[e].tier]
      BY <1>1, <3>1, JobTiers
    <3> QED BY <1>0, <1>1, <2>2, <3>2, <3>3 DEF Begins, Rewriting, Spares, Allows, Goes
  <2> QED BY <2>1, <2>2
<1>2. ASSUME NEW e \in spared' PROVE \E x \in Calls : Begun(x)' /\ To[x].tier = To[e].tier
  <2>1. CASE e \in spared
    BY <1>0, <1>m, <2>1
  <2>2. CASE e \notin spared
    <3>1. Stamped(e)
      BY <1>0, <1>2, <2>2 DEF Turns, Aside, Begins, Rewriting, Spares, Allows
    <3> QED BY <1>m, <3>1 DEF Stamped, Begun
  <2> QED BY <2>1, <2>2
<1>3. ASSUME NEW e \in ResetCalls
      PROVE  /\ cpc'[e] \notin {"failed", "release"}
             /\ cpc'[e] = "allowance" => jpc'[e] /= "failed"
  <2>1. UNCHANGED <<cpc, jpc>> \/ (\E c \in Calls : Aside(c)) =>
           /\ cpc'[e] \notin {"failed", "release"}
           /\ cpc'[e] = "allowance" => jpc'[e] /= "failed"
    BY <1>0, JobTiers DEF Aside, Others
  <2>2. ASSUME NEW c \in Calls, Others(c), \A d \in Jobs \ {c} : jpc'[d] = jpc[d],
               Begins(c) \/ Rewriting(c) \/ Spares(c) \/ Allows(c)
        PROVE  /\ cpc'[e] \notin {"failed", "release"}
               /\ cpc'[e] = "allowance" => jpc'[e] /= "failed"
    <3>1. CASE e /= c
      BY <1>0, <2>2, <3>1, JobTiers DEF Others
    <3>2. CASE e = c
      BY <2>2, <3>2 DEF Begins, Rewriting, Spares, Allows, Goes
    <3> QED BY <3>1, <3>2
  <2>3. ASSUME NEW c \in Jobs, UNCHANGED cpc, JobTurn(c), \A d \in Jobs \ {c} : jpc'[d] = jpc[d]
        PROVE  /\ cpc'[e] \notin {"failed", "release"}
               /\ cpc'[e] = "allowance" => jpc'[e] /= "failed"
    BY <1>0, <2>3, JobTiers DEF JobTurn
  <2> QED BY <1>0, <2>1, <2>2, <2>3 DEF Turns
<1>4. ASSUME NEW x \in Calls, Kind[x] = "change", Tier[x] > 0, HasSet(x)'
      PROVE  \/ plan' = Tier[x]
             \/ \E d \in ResetCalls : HasSet(d)' /\ Tier[d] /= Tier[x]
  <2>0. x \in ResetCalls
    BY <1>4, ResetPlaces
  <2>1. CASE ~HasSet(x)
    BY <1>4, <2>0, <2>1, <1>0, NewlySet DEF Spares
  <2>2. CASE HasSet(x) /\ plan' = plan
    BY <1>0, <1>4, <1>m, <2>2
  <2>3. CASE plan' /= plan
    <3>1. PICK c \in ResetCalls : HasSet(c)' /\ plan' = Tier[c]
      BY <1>0, <2>3, JobTiers DEF Turns, Aside, JobTurn, HasSet
    <3> QED BY <3>1
  <2> QED BY <2>1, <2>2, <2>3
<1> QED BY <1>1, <1>2, <1>3, <1>4 DEF SpareInv

THEOREM SpareInvAlways == Spec => []SpareInv
<1>1. Spec => [](TypeOK /\ ClaimInv /\ PlacesInv)
  BY TypeCorrect, ClaimInvAlways, PlacesAlways, PTL
<1> QED BY <1>1, SpareInit, SpareStep, PTL DEF Spec

\* A delivery leaves the allowance alone because the endpoint that stamped the
\* subscription sets it: when all calls are over and nothing failed, the
\* allowance last given is the one of the tier, unless another call gave
\* another one.  (The stamp, and the two readings of it, of the webhook and of
\* the change endpoint, for any calls in any order.)
THEOREM SparedIsReset == Spec => []SparedMeansReset
<1>1. TypeOK /\ PlacesInv /\ SpareInv => SparedMeansReset
  <2> SUFFICES ASSUME TypeOK, PlacesInv, SpareInv, \A c \in Calls : cpc[c] \in Over, Undisturbed,
                      NEW c \in spared
               PROVE  \/ plan = TierAllowance[To[c].tier]
                      \/ TierAllowance[To[c].tier] = 0
                      \/ GaveAnother(To[c].tier) /= {}
    BY DEF SparedMeansReset
  <2>0. c \in Calls
    BY TypeParts DEF PlanTypeOK
  <2>1. PICK x \in Calls : Begun(x) /\ To[x].tier = To[c].tier
    BY DEF SpareInv
  <2>2. x \in ResetCalls /\ Kind[x] = "change" /\ cpc[x] = "done"
    <3>1. Kind[x] = "change" /\ x \in ResetCalls
      BY <2>1, ResetPlaces DEF Begun
    <3>2. cpc[x] \notin {"failed", "crashed"} /\ cpc[x] /= "skipped"
      BY <3>1 DEF SpareInv, Undisturbed, Died, PlacesInv, Places, PlanOnly, Over, Cancels, Grows
    <3> QED BY <2>1, <3>1, <3>2 DEF Begun, Over
  <2>3. Tier[x] = TierAllowance[To[c].tier] /\ HasSet(x) /\ Tier[x] \in Nat
    BY <2>0, <2>1, <2>2, JobTiers DEF HasSet, Cancels
  <2>4. CASE \E d \in ResetCalls : HasSet(d) /\ Tier[d] /= Tier[x]
    <3>1. PICK d \in ResetCalls : HasSet(d) /\ Tier[d] /= Tier[x]
      BY <2>4
    <3>2. cpc[d] = "done"
      BY <3>1, JobTiers DEF HasSet, Over
    <3> QED BY <2>3, <3>1, <3>2 DEF GaveAnother
  <2>5. CASE ~\E d \in ResetCalls : HasSet(d) /\ Tier[d] /= Tier[x]
    BY <2>2, <2>3, <2>5 DEF SpareInv
  <2> QED BY <2>4, <2>5
<1>2. Spec => []TypeOK
  BY TypeCorrect
<1> QED BY <1>1, <1>2, PlacesAlways, SpareInvAlways, PTL

-----------------------------------------------------------------------------

\* The allowance stays settled where neither it nor the user changes and no
\* call counts as having set another.
LEMMA StaysSettled ==
    ASSUME Settled, member' = member, plan' = plan, spared \subseteq spared',
           \A e \in ResetCalls : HasSet(e)' <=> HasSet(e)
    PROVE  Settled'
BY DEF Settled

LEMMA AllowanceAside ==
    ASSUME member \in Members, Underway, Settled \/ \E e \in Calls : Busy(e),
           UNCHANGED <<cpc, member, spared, jpc, plan>> \/ \E c \in Calls : Aside(c)
    PROVE  Underway' /\ (Settled' \/ \E e \in Calls : Busy(e)')
<1>1. CASE UNCHANGED <<cpc, member, spared, jpc, plan>>
  BY <1>1 DEF Underway, Settled, HasSet, Busy
<1>2. ASSUME NEW c \in Calls, Aside(c)
      PROVE  Underway' /\ (Settled' \/ \E e \in Calls : Busy(e)')
  <2>1. /\ \A e \in ResetCalls \ {c} : cpc'[e] = cpc[e]
        /\ UNCHANGED <<spared, jpc, plan>>
        /\ c \in ResetCalls => cpc[c] = "start" /\ cpc'[c] \in {"find", "skipped"}
    BY <1>2, JobTiers DEF Aside, Others
  <2>2. \A e \in ResetCalls : (HasSet(e)' <=> HasSet(e)) /\ (Busy(e) => Busy(e)')
    BY <2>1 DEF HasSet, Busy
  <2>3. /\ member'.tier = member.tier
        /\ member'.status = "active" => member' = member
    BY <1>2 DEF Aside, Members
  <2>4. Settled => Settled'
    BY <2>1, <2>2, <2>3 DEF Settled
  <2>5. \A e \in Calls : Busy(e) => e \in ResetCalls
    BY Kinds DEF Busy
  <2>6. Underway'
    <3>1. \A e \in Calls : Kind[e] \in Grows \union Cancels => e \in ResetCalls
      BY Kinds
    <3>2. member'.status = member.status \/ member'.status /= "active"
      BY <2>3
    <3> QED BY <2>1, <2>3, <3>1, <3>2 DEF Underway, Writing
  <2> QED BY <2>2, <2>4, <2>5, <2>6
<1> QED BY <1>1, <1>2

LEMMA AllowanceJob ==
    ASSUME PlacesInv, SpareInv, Undisturbed, InTurn, Underway,
           Settled \/ \E e \in Calls : Busy(e),
           NEW c \in Jobs, UNCHANGED <<cpc, member, spared>>, cpc[c] = "allowance",
           JobTurn(c), \A e \in Jobs \ {c} : jpc'[e] = jpc[e]
    PROVE  Underway' /\ (Settled' \/ \E e \in Calls : Busy(e)')
<1>0. /\ c \in Calls /\ c \in ResetCalls
      /\ Kind[c] \in Grows \union Cancels \union {"invoicePaid"}
      /\ \A e \in Calls : Rewrites(e) => e = c
  BY JobTiers, Kinds DEF InTurn, Rewrites
<1>1. Underway'
  <2>1. \A e \in Calls : cpc[e] = "allowance" => e = c
    BY <1>0 DEF Rewrites
  <2>2. Kind[c] \in Grows /\ jpc'[c] \in {"log", "done"} => plan' = Tier[c]
    BY <1>0 DEF Underway, JobTurn, SpareInv, Grows, Cancels
  <2> QED BY <2>1, <2>2 DEF Underway
<1>2. CASE Kind[c] \in Grows \union Cancels
  BY <1>0, <1>1, <1>2 DEF Busy
<1>3. CASE Kind[c] = "invoicePaid"
  <2>1. Settled
    BY <1>0, <1>3 DEF Busy, Rewrites, Writing, Grows, Cancels
  <2>2. Tier[c] > 0
    BY <1>0, <1>3 DEF SpareInv, Cancels
  <2>3. CASE jpc[c] = "write"
    <3>1. plan' = Tier[c] /\ HasSet(c)' /\ c \in ResetCalls
      BY <1>0, <2>3 DEF JobTurn, HasSet
    <3> QED BY <1>1, <1>3, <3>1 DEF Settled
  <2>4. CASE jpc[c] /= "write"
    <3>1. \A e \in ResetCalls : HasSet(e)' <=> HasSet(e)
      BY <1>0, <2>2, <2>4, JobTiers DEF JobTurn, HasSet
    <3>2. plan' = plan
      BY <2>4 DEF JobTurn
    <3> QED BY <1>1, <2>1, <3>1, <3>2, StaysSettled
  <2> QED BY <2>3, <2>4
<1> QED BY <1>0, <1>2, <1>3

\* The delivery that leaves the allowance alone: the change that stamped the
\* subscription has set it, or still writes the user.
LEMMA AllowanceSpared ==
    ASSUME TypeOK, PlacesInv, PlacesInv', SpareInv, Undisturbed, Turns, InTurn, Underway,
           Settled \/ \E e \in Calls : Busy(e), NEW c \in Calls, Others(c), plan' = plan, Spares(c)
    PROVE  Settled' \/ \E e \in Calls : Busy(e)'
<1>1. PICK x \in Calls : Begun(x) /\ To[x].tier = To[c].tier
  BY DEF Spares, Stamped, Begun
<1>2. /\ x \in ResetCalls /\ Kind[x] = "change" /\ x /= c
      /\ cpc[x] \in {"member", "deactivate", "insert", "keys", "lookup", "remaining", "allowance",
                     "audit", "done"}
  <2>1. Kind[x] = "change" /\ x \in ResetCalls
    BY <1>1, ResetPlaces DEF Begun
  <2>2. cpc[x] \notin {"failed", "crashed"}
    BY <2>1 DEF SpareInv, Undisturbed, Died
  <2>3. cpc[x] \in Places(Kind[x])
    BY DEF PlacesInv
  <2> QED BY <1>1, <2>1, <2>2, <2>3 DEF Begun, Places, PlanOnly, Over, Cancels, Spares
<1>3. /\ \A e \in ResetCalls : HasSet(e) => HasSet(e)'
      /\ member' = member /\ spared' = spared \union {c}
  BY Remembered DEF Spares
<1>4. CASE Kind[c] = "invoicePaid"
  <2>1. \A e \in Calls : Busy(e) => Busy(e)'
    BY <1>4 DEF Busy, Others, Grows, Cancels
  <2>2. CASE Settled /\ ~HasSet(x)
    <3>1. Busy(x)
      BY <1>2, <2>2 DEF HasSet, Busy, Grows
    <3> QED BY <2>1, <3>1
  <2>3. CASE Settled /\ HasSet(x)
    BY <1>2, <1>3, <2>3 DEF Settled
  <2> QED BY <2>1, <2>2, <2>3
<1>5. CASE Kind[c] = "updated" /\ cpc[c] = "keys"
  <2>1. HasSet(x)
    BY <1>2, <1>5 DEF InTurn, Rewrites, HasSet
  <2>2. /\ member.tier = To[c].tier
        /\ Tier[x] = TierAllowance[member.tier] /\ Tier[x] \in Nat
    <3>1. member.tier = To[c].tier
      BY <1>5 DEF Underway, Writing, Grows
    <3> QED BY <1>1, <1>2, <3>1, JobTiers DEF Cancels
  <2>3. \/ plan = Tier[x] \/ Tier[x] = 0
        \/ \E d \in ResetCalls : HasSet(d) /\ Tier[d] /= Tier[x]
    BY <1>2, <2>1, <2>2 DEF SpareInv
  <2> QED BY <1>3, <2>2, <2>3 DEF Settled
<1> QED BY <1>4, <1>5 DEF Spares

LEMMA AllowanceRewriting ==
    ASSUME TypeOK, PlacesInv, InTurn, Underway, Settled \/ \E e \in Calls : Busy(e),
           NEW c \in Calls, Others(c), plan' = plan, Rewriting(c),
           \A e \in Jobs \ {c} : jpc'[e] = jpc[e]
    PROVE  Underway' /\ (Settled' \/ \E e \in Calls : Busy(e)')
<1>0. /\ cpc[c] \in Writing \union {"member"}
      /\ \A e \in Calls : Rewrites(e) => e = c
      /\ Kind[c] \in Grows \union Cancels \union {"invoiceFailed"}
  <2>1. cpc[c] \in Writing \union {"member"}
    BY DEF Rewriting, Goes, Writing
  <2>2. Kind[c] \in Grows \union Cancels \union {"invoiceFailed"}
    BY <2>1, Kinds DEF PlacesInv, Places, PlanOnly, Over, Writing, Grows, Cancels, WebhookKinds,
                       EndpointKinds
  <2> QED BY <2>1, <2>2 DEF InTurn, Rewrites, Writing
<1>1. \A e \in Calls \ {c} :
         /\ ~Busy(e)
         /\ cpc'[e] \notin Writing \union {"lookup", "remaining", "allowance"}
  BY <1>0 DEF Others, Rewrites, Busy, Writing
<1>2. Kind[c] \in Grows => Kind[c] \notin Cancels \union {"invoiceFailed"}
  BY DEF Grows, Cancels
<1>3. CASE cpc[c] = "member"
  <2>1. member' = NewMember(c)
    BY <1>3 DEF Rewriting, Goes
  <2>2. Kind[c] \in Cancels => member'.status /= "active"
    BY <2>1 DEF NewMember, Cancels
  <2>3. Kind[c] \in Grows /\ To[c].status = "active" => member'.tier = To[c].tier
    BY <2>1 DEF NewMember, NewTier
  <2>4. Underway'
    BY <1>1, <1>2, <1>3, <2>2, <2>3 DEF Rewriting, Goes, Underway, Writing
  <2>5. CASE Kind[c] = "invoiceFailed"
    <3>1. member'.status = "past_due"
      BY <2>1, <2>5 DEF NewMember, Cancels
    <3> QED BY <2>4, <3>1 DEF Settled
  <2>6. CASE Kind[c] \in Cancels
    <3>1. Busy(c)'
      BY <1>2, <1>3, <2>6 DEF Rewriting, Goes, Busy
    <3> QED BY <2>4, <3>1
  <2>7. CASE Kind[c] \in Grows
    <3>1. CASE To[c].status = "active"
      <4>1. Busy(c)'
        BY <1>3, <2>7, <3>1 DEF Rewriting, Goes, Busy
      <4> QED BY <2>4, <4>1
    <3>2. CASE To[c].status /= "active"
      <4>1. member'.status /= "active"
        BY <2>1, <2>7, <3>2, JobTiers DEF NewMember, Cancels, Grows
      <4> QED BY <2>4, <4>1 DEF Settled
    <3> QED BY <3>1, <3>2
  <2> QED BY <1>0, <2>5, <2>6, <2>7
<1>4. CASE cpc[c] \in Writing
  <2>1. member' = member /\ spared' = spared
    BY <1>4 DEF Rewriting, Goes, Writing
  <2>2. Underway'
    <3>1. cpc[c] \in {"deactivate", "insert"} => Kind[c] \in Grows
      BY ResetPlaces
    <3>2. /\ cpc'[c] \in Writing \union {"lookup", "done"}
          /\ cpc'[c] = "keys" => Kind[c] \in Grows
      BY <1>4, <3>1 DEF Rewriting, Goes, Writing
    <3>3. Kind[c] \in Grows => member'.tier = To[c].tier
      BY <1>4, <2>1 DEF Underway
    <3> QED BY <1>1, <1>2, <3>2, <3>3 DEF Underway, Writing
  <2>3. CASE Kind[c] \in Grows
    <3>1. Busy(c)'
      BY <1>4, <2>3 DEF Rewriting, Goes, Busy, Writing
    <3> QED BY <2>2, <3>1
  <2>4. CASE Kind[c] \in Cancels
    <3>1. CASE cpc[c] = "keys"
      BY <2>1, <2>2, <2>4, <3>1 DEF Underway, Settled
    <3>2. CASE cpc[c] /= "keys"
      BY <1>2, <1>4, <2>4, <3>2, ResetPlaces DEF Writing
    <3> QED BY <3>1, <3>2
  <2>5. CASE Kind[c] = "invoiceFailed"
    <3>1. Settled /\ c \notin ResetCalls
      BY <1>0, <1>1, <2>5, Kinds DEF Busy, Grows, Cancels
    <3>2. \A e \in ResetCalls : HasSet(e)' <=> HasSet(e)
      BY <3>1, JobTiers DEF Others, HasSet
    <3> QED BY <2>1, <2>2, <3>1, <3>2, StaysSettled
  <2> QED BY <1>0, <2>3, <2>4, <2>5
<1> QED BY <1>0, <1>3, <1>4

\* A call that begins touches nothing of this.
LEMMA AllowanceBegins ==
    ASSUME TypeOK, PlacesInv, Underway, Settled \/ \E e \in Calls : Busy(e),
           NEW c \in Calls, Others(c), plan' = plan, Begins(c), \A e \in Jobs \ {c} : jpc'[e] = jpc[e]
    PROVE  Underway' /\ (Settled' \/ \E e \in Calls : Busy(e)')
<1>1. /\ UNCHANGED <<member, spared>>
      /\ cpc[c] \in {"start", "find", "touch"}
      /\ \/ cpc'[c] \in {"refused", "touch"}
         \/ cpc'[c] = "done" /\ c \notin ResetCalls
         \/ cpc'[c] = "member" /\ Kind[c] \notin Cancels
         \/ cpc'[c] = "lookup" /\ Kind[c] = "invoicePaid"
         \/ cpc'[c] = "allowance" /\ Kind[c] \in Cancels /\ (c \in Jobs => jpc'[c] = "read")
  BY DEF Begins, Goes
<1>2. \A e \in Jobs \ {c} : cpc'[e] = cpc[e] /\ jpc'[e] = jpc[e]
  BY JobTiers DEF Others
<1>3. \A e \in Calls : Kind[e] \in Grows \union Cancels => e \in Jobs
  BY Kinds, JobTiers
<1>4. Kind[c] \in Grows => Kind[c] \notin Cancels \union {"invoicePaid"}
  BY DEF Grows, Cancels
<1>5. \A e \in ResetCalls : HasSet(e)' <=> HasSet(e)
  <2>1. c \in ResetCalls => ~HasSet(c) /\ ~HasSet(c)'
    BY <1>1, JobTiers DEF HasSet
  <2> QED BY <1>2, <2>1, JobTiers DEF HasSet
<1>6. \A e \in Calls : Busy(e) => Busy(e)'
  BY <1>1 DEF Busy, Others
<1>7. Underway'
  BY <1>1, <1>2, <1>3, <1>4 DEF Underway, Writing
<1> QED BY <1>1, <1>5, <1>6, <1>7, StaysSettled

LEMMA AllowanceAllows ==
    ASSUME TypeOK, PlacesInv, SpareInv, Undisturbed, InTurn, Underway,
           Settled \/ \E e \in Calls : Busy(e),
           NEW c \in Calls, Others(c), plan' = plan, Allows(c), \A e \in Jobs \ {c} : jpc'[e] = jpc[e]
    PROVE  Underway' /\ (Settled' \/ \E e \in Calls : Busy(e)')
<1>0. /\ UNCHANGED <<member, spared>>
      /\ cpc[c] \in {"lookup", "remaining", "allowance", "audit"}
      /\ c \in ResetCalls /\ c \in Jobs /\ Kind[c] \in Grows \union Cancels \union {"invoicePaid"}
      /\ Kind[c] \in Grows => Kind[c] \notin Cancels \union {"invoicePaid"}
      /\ Kind[c] = "invoicePaid" => Kind[c] \notin Cancels
      /\ Tier[c] = IF Kind[c] \in Cancels THEN 0 ELSE TierAllowance[To[c].tier]
  <2>1. /\ UNCHANGED <<member, spared>>
        /\ cpc[c] \in {"lookup", "remaining", "allowance", "audit"}
    BY DEF Allows, Goes
  <2>2. c \in ResetCalls
    BY <2>1, ResetPlaces
  <2> QED BY <2>1, <2>2, Kinds, JobTiers DEF Grows, Cancels
<1>1. Underway'
  <2>1. ASSUME NEW e \in Calls \ {c}, Kind[e] \in Grows \union Cancels
        PROVE  cpc'[e] = cpc[e] /\ jpc'[e] = jpc[e]
    BY <2>1, Kinds, JobTiers DEF Others
  <2>2. Kind[c] \in Grows =>
           /\ cpc'[c] \in Writing \union {"lookup", "remaining", "allowance"} =>
                 member.tier = To[c].tier
           /\ cpc'[c] = "allowance" => jpc'[c] = "read"
    BY <1>0 DEF Allows, Goes, Underway, Writing
  <2>3. cpc'[c] /= "keys"
    BY DEF Allows, Goes
  <2> QED BY <1>0, <2>1, <2>2, <2>3 DEF Underway
<1>2. CASE Kind[c] \in Cancels
  <2>1. cpc[c] = "allowance" /\ cpc'[c] = "member"
    <3>1. cpc[c] \notin {"lookup", "remaining", "audit"}
      BY <1>2 DEF PlacesInv, Places, PlanOnly, Over, Cancels
    <3> QED BY <1>0, <1>2, <3>1 DEF Allows, Goes
  <2>2. Busy(c)'
    BY <1>2, <2>1 DEF Busy
  <2> QED BY <1>1, <2>2
<1>3. CASE Kind[c] \in Grows
  <2>1. CASE cpc'[c] \in {"remaining", "allowance"}
    <3>1. Busy(c)'
      BY <1>3, <2>1 DEF Busy
    <3> QED BY <1>1, <3>1
  <2>2. CASE cpc[c] = "audit"
    <3>1. \A e \in ResetCalls : HasSet(e)' <=> HasSet(e)
      BY <1>0, <2>2, JobTiers DEF Allows, Goes, Others, HasSet
    <3>2. \A e \in Calls : Busy(e) => Busy(e)'
      BY <2>2 DEF Busy, Others
    <3> QED BY <1>0, <1>1, <3>1, <3>2, StaysSettled
  <2>3. CASE cpc[c] \in {"lookup", "remaining", "allowance"} /\ cpc'[c] \notin {"remaining", "allowance"}
    <3>1. member.tier = To[c].tier
      BY <1>3, <2>3 DEF Underway
    <3>2. TierAllowance[To[c].tier] = 0 \/ plan = Tier[c]
      BY <1>3, <2>3 DEF Allows, Goes, Underway
    <3>3. Settled'
      BY <1>0, <1>3, <3>1, <3>2 DEF Settled
    <3> QED BY <1>1, <3>3
  <2> QED BY <1>0, <2>1, <2>2, <2>3
<1>4. CASE Kind[c] = "invoicePaid"
  <2>0. cpc[c] \notin {"remaining", "audit"}
    BY <1>4 DEF PlacesInv, Places, PlanOnly, Over, Cancels
  <2>1. Settled
    BY <1>0, <1>4, <2>0 DEF InTurn, Rewrites, Busy, Writing
  <2>2. CASE cpc[c] = "lookup" /\ cpc'[c] = "done" /\ TierAllowance[To[c].tier] = 0
    <3>1. HasSet(c)' /\ Tier[c] = 0
      BY <1>0, <2>2 DEF HasSet
    <3> QED BY <1>0, <1>1, <1>4, <2>1, <3>1 DEF Settled
  <2>3. CASE cpc'[c] = "allowance" \/ cpc[c] = "allowance"
    <3>1. \A e \in ResetCalls : HasSet(e)' <=> HasSet(e)
      BY <1>0, <1>4, <2>0, <2>3, JobTiers DEF Allows, Goes, Others, HasSet
    <3> QED BY <1>0, <1>1, <2>1, <3>1, StaysSettled
  <2> QED BY <1>0, <1>4, <2>0, <2>2, <2>3 DEF Allows, Goes
<1> QED BY <1>0, <1>2, <1>3, <1>4

LEMMA AllowanceInit == Init => AllowanceInv
<1> SUFFICES ASSUME Init PROVE AllowanceInv
  OBVIOUS
<1>1. PICK s \in Scenarios : CallInit(s)
  BY DEF Init
<1>2. \A c \in Calls : cpc[c] \in {"start", "never"}
  BY <1>1 DEF CallInit
<1>3. Underway /\ Settled
  BY <1>2, JobTiers DEF Underway, Settled, HasSet, Writing
<1> QED BY <1>3 DEF AllowanceInv

LEMMA AllowanceStep ==
    TypeOK /\ PlacesInv /\ PlacesInv' /\ ClaimInv /\ PlansInTurn /\ SpareInv /\ AllowanceInv
        /\ [Next]_vars => AllowanceInv'
<1> SUFFICES ASSUME TypeOK, PlacesInv, PlacesInv', ClaimInv, PlansInTurn, SpareInv, AllowanceInv,
                    [Next]_vars, ~mixed', Undisturbed'
             PROVE  Underway' /\ (Settled' \/ \E c \in Calls : Busy(c)')
  BY DEF AllowanceInv
<1>0. /\ Undisturbed /\ Turns /\ InTurn /\ member \in Members
      /\ Underway /\ (Settled \/ \E c \in Calls : Busy(c))
  <2>1. ~mixed
    BY DEF Next, vars
  <2>2. Undisturbed /\ Turns
    BY Undisturbs
  <2> QED BY <2>1, <2>2, TypeParts DEF CallTypeOK, AllowanceInv, PlansInTurn, InTurn
<1>1. CASE UNCHANGED <<cpc, member, spared, jpc, plan>> \/ \E c \in Calls : Aside(c)
  BY <1>0, <1>1, AllowanceAside
<1>2. ASSUME NEW c \in Calls, Others(c), plan' = plan, \A e \in Jobs \ {c} : jpc'[e] = jpc[e],
             Begins(c) \/ Rewriting(c) \/ Spares(c) \/ Allows(c)
      PROVE  Underway' /\ (Settled' \/ \E e \in Calls : Busy(e)')
  <2>1. CASE Begins(c)
    BY <1>0, <1>2, <2>1, AllowanceBegins
  <2>2. CASE Rewriting(c)
    BY <1>0, <1>2, <2>2, AllowanceRewriting
  <2>3. CASE Spares(c)
    <3>1. Underway'
      <4>1. /\ \A e \in Calls \ {c} : cpc'[e] = cpc[e]
            /\ \A e \in Calls \ {c} : Kind[e] \in Grows => jpc'[e] = jpc[e]
            /\ cpc'[c] = "done" /\ member' = member
        BY <1>2, <2>3, Kinds, JobTiers DEF Others, Spares
      <4> QED BY <1>0, <1>2, <4>1 DEF Underway, Writing
    <3> QED BY <1>0, <1>2, <2>3, <3>1, AllowanceSpared
  <2>4. CASE Allows(c)
    BY <1>0, <1>2, <2>4, AllowanceAllows
  <2> QED BY <1>2, <2>1, <2>2, <2>3, <2>4
<1>3. ASSUME NEW c \in Jobs, UNCHANGED <<cpc, member, spared>>, cpc[c] = "allowance", JobTurn(c),
             \A e \in Jobs \ {c} : jpc'[e] = jpc[e]
      PROVE  Underway' /\ (Settled' \/ \E e \in Calls : Busy(e)')
  BY <1>0, <1>3, AllowanceJob
<1> QED BY <1>0, <1>1, <1>2, <1>3 DEF Turns

THEOREM AllowanceInvAlways == Spec => []AllowanceInv
<1>1. Spec => [](TypeOK /\ ClaimInv /\ PlacesInv /\ PlansInTurn /\ SpareInv)
  BY TypeCorrect, ClaimInvAlways, PlacesAlways, TurnsTaken, SpareInvAlways, PTL
<1> QED BY <1>1, AllowanceInit, AllowanceStep, PTL DEF Spec

\* When no call is running, nothing failed and no two calls rewrote the account
\* at once, an active subscriber has the allowance of the tier, if any call has
\* set one and the tier has one: the order in which the events of Stripe and
\* the endpoints come does not matter but for the two late deliveries named.
THEOREM AllowancesAgree == Spec => []AllowanceAgrees
<1>1. AllowanceInv => AllowanceAgrees
  <2> SUFFICES ASSUME AllowanceInv, AtRest, ~mixed, Undisturbed, member.status = "active"
               PROVE  \/ plan = TierAllowance[member.tier]
                      \/ TierAllowance[member.tier] = 0
                      \/ \A c \in ResetCalls : cpc[c] /= "done"
                      \/ \E d \in GaveAnother(member.tier) :
                            Kind[d] = "invoicePaid" \/ \E c \in spared : To[c].tier = member.tier
    BY DEF AllowanceAgrees
  <2>1. \A c \in Calls : ~Busy(c)
    BY DEF AtRest, Busy, Over
  <2>2. \A c \in ResetCalls : HasSet(c) => cpc[c] = "done"
    BY JobTiers DEF AtRest, HasSet, Over
  <2>3. \A c \in ResetCalls : cpc[c] = "done" => HasSet(c)
    BY DEF HasSet
  <2> QED BY <2>1, <2>2, <2>3 DEF AllowanceInv, Settled, GaveAnother
<1> QED BY <1>1, AllowanceInvAlways, PTL

=============================================================================
