--------------------------- MODULE BillingProofs ---------------------------
(***************************************************************************)
(* Proofs about Billing for every set of requests, deliveries and jobs,    *)
(* every cost, tier and amount, and every bound on faults: its properties, *)
(* from one inductive invariant, and that it implements Account.           *)
(***************************************************************************)
EXTENDS Billing, AccountTypes

USE BalanceAssumption, RequestAssumption, GrantAssumption, JobAssumption

-----------------------------------------------------------------------------
(***************************************************************************)
(* Type correctness.                                                       *)
(***************************************************************************)

\* What a failed attempt leaves in pc, attempt and cause has its type.
LEMMA FailTypes ==
    ASSUME RequestTypeOK, NEW r \in Requests, NEW why \in Causes, AttemptFails(r, why)
    PROVE  /\ pc' \in [Requests -> PCs]
           /\ attempt' \in [Requests -> 1..ChainLength]
           /\ cause' \in [Requests -> Causes]
  BY DEF RequestTypeOK, AttemptFails, FailsOver, Goto, Add, PCs, Terminal

LEMMA SplitTypes ==
    ASSUME RequestTypeOK, NEW r \in Requests
    PROVE  /\ snap[r] \in Balances
           /\ Part(r) \in Balances
           /\ Part(r).a + Part(r).p = Cost[r]
  BY DEF RequestTypeOK, Balances, Part, Split

\* A step of a request keeps the types; no charge writes a grant key.
LEMMA RequestTypeStep ==
    ASSUME BalanceTypeOK, RequestTypeOK, NEW r \in Requests, RequestStep(r)
    PROVE  BalanceTypeOK' /\ RequestTypeOK' /\ UNCHANGED keys
  <1> USE SplitTypes DEF RequestTypeOK, Goto, Add
  <1>1. CASE ProviderServes(r)
    BY <1>1, RowTypes DEF ProviderServes, PCs, Terminal, RowUntouched
  <1>2. CASE ProviderFails(r)
    <2>1. pc' \in [Requests -> PCs] /\ attempt' \in [Requests -> 1..ChainLength]
             /\ cause' \in [Requests -> Causes]
      BY <1>2, FailTypes DEF ProviderFails, PCs, Terminal, Causes
    <2> QED BY <1>2, <2>1, RowTypes DEF ProviderFails, RowUntouched
  <1>3. CASE StreamEnds(r)
    BY <1>3, RowTypes DEF StreamEnds, PCs, Terminal, RowUntouched
  <1>4. CASE StreamDropped(r) \/ StreamBreaks(r)
    BY <1>4, RowTypes DEF StreamDropped, StreamBreaks, PCs, Terminal, Causes, RowUntouched
  <1>5. CASE ReadBalances(r)
    <2>1. Row \in Balances
      BY DEF BalanceTypeOK
    <2>2. RequestTypeOK'
      BY <1>5, <2>1, FailTypes DEF ReadBalances, PCs, Terminal, Causes
    <2> QED BY <1>5, <2>2, RowTypes DEF ReadBalances, RowUntouched
  <1>6. CASE CheckDailyLimit(r)
    <2>1. RequestTypeOK'
      BY <1>6, FailTypes DEF CheckDailyLimit, PCs, Terminal, Causes
    <2> QED BY <1>6, <2>1, RowTypes DEF CheckDailyLimit, RowUntouched
  <1>7. CASE RpcCommits(r)
    BY <1>7, RowTypes DEF RpcCommits, PCs, Terminal, AtomicDeduct
  <1>8. CASE RpcRefuses(r)
    <2>1. RequestTypeOK'
      BY <1>8, FailTypes DEF RpcRefuses, Causes
    <2> QED BY <1>8, <2>1, RowTypes DEF RpcRefuses, RowUntouched
  <1>9. CASE RpcUnanswered(r)
    <2>1. RequestTypeOK'
      BY <1>9 DEF RpcUnanswered, PCs, Orphans
    <2> QED BY <1>9, <2>1, RowTypes DEF RpcUnanswered, RowUntouched
  <1>10. CASE LegacyRefuses(r)
    <2>1. RequestTypeOK'
      BY <1>10, FailTypes DEF LegacyRefuses, Causes
    <2> QED BY <1>10, <2>1, RowTypes DEF LegacyRefuses, RowUntouched
  <1>11. CASE LegacyDebits(r)
    <2>1. RequestTypeOK'
      BY <1>11, FailTypes DEF LegacyDebits, PCs, Causes
    <2> QED BY <1>11, <2>1, RowTypes DEF LegacyDebits, OptimisticDebit
  <1>12. CASE LegacyFails(r)
    <2>1. RequestTypeOK'
      BY <1>12, FailTypes DEF LegacyFails, Causes
    <2> QED BY <1>12, <2>1, RowTypes DEF LegacyFails, RowUntouched
  <1>13. CASE LegacyLogs(r)
    <2>1. PICK lost \in 0..LogTries : \E wrote \in 0..lost :
            /\ Lose(lost)
            /\ \/ /\ lost < LogTries
                  /\ LogUsage(Cost[r], wrote + 1)
                  /\ rows' = Add(rows, r, wrote + 1)
                  /\ Goto(r, "ok")
               \/ /\ lost > 0
                  /\ LogUsage(Cost[r], wrote)
                  /\ rows' = Add(rows, r, wrote)
                  /\ Goto(r, "rollback")
      BY <1>13 DEF LegacyLogs
    <2>2. RequestTypeOK'
      BY <1>13, <2>1 DEF LegacyLogs, LogTries, PCs, Terminal
    <2>3. BalanceTypeOK'
      BY <2>1, RowTypes DEF LogTries
    <2> QED BY <2>1, <2>2, <2>3 DEF LogUsage
  <1>14. CASE LegacyRollsBack(r)
    <2>1. RequestTypeOK'
      BY <1>14, FailTypes DEF LegacyRollsBack, Causes
    <2> QED BY <1>14, <2>1, RowTypes DEF LegacyRollsBack, BlindRestore, RowUntouched
  <1> QED
    BY <1>1, <1>2, <1>3, <1>4, <1>5, <1>6, <1>7, <1>8, <1>9, <1>10, <1>11, <1>12, <1>13,
       <1>14 DEF RequestStep

\* A call whose caller gave up is typed like any other when it commits.
LEMMA OrphanTypeStep ==
    ASSUME BalanceTypeOK, RequestTypeOK, NEW o \in orphans, OrphanCommits(o)
    PROVE  BalanceTypeOK' /\ RequestTypeOK' /\ UNCHANGED keys
  <1>1. o.req \in Requests /\ o.part \in Balances
    BY DEF RequestTypeOK, Orphans
  <1>2. RequestTypeOK'
    BY <1>1 DEF RequestTypeOK, OrphanCommits, Add
  <1> QED
    BY <1>1, <1>2, RowTypes DEF OrphanCommits, AtomicDeduct

LEMMA TypeInit == Init => TypeOK
  BY DEF Init, TypeOK, BalanceInit, RequestInit, GrantInit, JobInit, BalanceTypeOK,
         RequestTypeOK, GrantTypeOK, JobTypeOK, Row, Balances, PCs, Causes, GrantPCs, JobPCs

LEMMA TypeStep == TypeOK /\ [Next]_vars => TypeOK'
  <1> SUFFICES ASSUME TypeOK, [Next]_vars PROVE TypeOK'
    OBVIOUS
  <1> USE DEF TypeOK
  <1>1. ASSUME NEW r \in Requests, Charge(r) PROVE TypeOK'
    BY <1>1, RequestTypeStep DEF Charge, grantVars, jobVars, GrantTypeOK, JobTypeOK
  <1>2. ASSUME NEW o \in orphans, LateCharge(o) PROVE TypeOK'
    BY <1>2, OrphanTypeStep DEF LateCharge, grantVars, jobVars, GrantTypeOK, JobTypeOK
  <1>3. ASSUME NEW d \in Deliveries, Grant(d) \/ LateGrant(d) PROVE TypeOK'
    BY <1>3, GrantTypeStep DEF Grant, LateGrant, requestVars, jobVars, RequestTypeOK, JobTypeOK
  <1>4. ASSUME NEW j \in Jobs, ChangeAllowance(j) PROVE TypeOK'
    BY <1>4, JobTypeStep DEF ChangeAllowance, requestVars, grantVars, RequestTypeOK, GrantTypeOK
  <1>5. CASE UNCHANGED vars
    BY <1>5 DEF vars, balanceVars, rowVars, historyVars, requestVars, grantVars, jobVars,
                BalanceTypeOK, RequestTypeOK, GrantTypeOK, JobTypeOK, Row
  <1>6. gorphans \subseteq Deliveries
    BY DEF GrantTypeOK
  <1> QED
    BY <1>1, <1>2, <1>3, <1>4, <1>5, <1>6 DEF Next

\* Every variable keeps its type, whatever interleaves and whatever fails.
THEOREM TypeCorrect == Spec => []TypeOK
  BY TypeInit, TypeStep, PTL DEF Spec

-----------------------------------------------------------------------------
(***************************************************************************)
(* The inductive invariant.                                                *)
(***************************************************************************)

\* Whatever departs from the atomic path is explained by a failed or lost
\* call, or by a database without the stored procedures.
FaultsExplain ==
    /\ \A r \in Requests : pc[r] = "rollback" \/ unacked[r] > 0 => faults > 0
    /\ orphans /= {} => faults > 0
    /\ gorphans /= {} => faults > 0
    /\ \A d \in Deliveries :
          gpc[d] \in {"read", "update", "log"} => ~rpcDeployed \/ faults > 0
    /\ overwritten >= 0
    /\ overwritten > 0 => ~rpcDeployed \/ faults > 0

\* The row, and every copy of it that was read, is non-negative, and it adds
\* up as long as no blind write has hit a changed row.
AccountInv ==
    /\ BalanceNeverNegative
    /\ \A r \in Requests : snap[r].a >= 0 /\ snap[r].p >= 0
    /\ \A d \in Deliveries : gread[d].p >= 0
    /\ overwritten = 0 => allowance + purchased + debited = credited
    /\ AllowanceWithinPlan

\* A request between the update and the end of its attempt has one debit it
\* will still account for.
Pending(r) == IF pc[r] \in {"log", "rollback"} THEN 1 ELSE 0

Charged(r) == IF pc[r] = "ok" /\ Cost[r] > 0 THEN 1 ELSE 0

ChargeInv ==
    \A r \in Requests :
        /\ debits[r] = unacked[r] + Pending(r) + Charged(r)
        /\ debits[r] <= rows[r] + escaped[r] + Pending(r)
        /\ pc[r] \in {"limit", "rpc", "legacy", "log", "rollback"} => Cost[r] > 0

\* A key that is not in the ledger has not been granted.
GrantInv ==
    rpcDeployed /\ faults = 0 =>
        \A k \in Keys : grants[k] <= 1 /\ (k \notin keys => grants[k] = 0)

IInv == TypeOK /\ FaultsExplain /\ AccountInv /\ ChargeInv /\ GrantInv

LEMMA InvImplies ==
    IInv => /\ BalanceNeverNegative
            /\ MoneyConserved
            /\ ChargedOncePerAnswer
            /\ NoVanishingMoney
            /\ AllowanceWithinPlan
            /\ GrantAtMostOnce
  <1> SUFFICES ASSUME IInv
               PROVE  /\ MoneyConserved
                      /\ ChargedOncePerAnswer
                      /\ NoVanishingMoney
                      /\ GrantAtMostOnce
    BY DEF IInv, AccountInv
  <1>1. MoneyConserved
    BY DEF IInv, FaultsExplain, AccountInv, MoneyConserved
  <1>2. ChargedOncePerAnswer
    BY DEF IInv, TypeOK, RequestTypeOK, FaultsExplain, ChargeInv, Pending, Charged,
           ChargedOncePerAnswer
  <1>3. NoVanishingMoney
    BY DEF IInv, TypeOK, RequestTypeOK, ChargeInv, Pending, NoVanishingMoney, Terminal
  <1>4. GrantAtMostOnce
    BY DEF IInv, GrantInv, GrantAtMostOnce
  <1> QED BY <1>1, <1>2, <1>3, <1>4

LEMMA InvInit == Init => IInv
  <1> SUFFICES ASSUME Init PROVE IInv
    OBVIOUS
  <1> USE DEF Init, BalanceInit, RequestInit, GrantInit
  <1>1. TypeOK
    BY TypeInit
  <1>2. FaultsExplain
    BY DEF FaultsExplain
  <1>3. AccountInv
    BY DEF AccountInv, BalanceNeverNegative, AllowanceWithinPlan
  <1>4. ChargeInv
    BY DEF ChargeInv, Pending, Charged
  <1>5. GrantInv
    BY DEF GrantInv
  <1> QED BY <1>1, <1>2, <1>3, <1>4, <1>5 DEF IInv

\* Faults are counted up, never down.
LEMMA FaultsGrow ==
    ASSUME BalanceTypeOK, Answered \/ \E n \in Nat : Lose(n)
    PROVE  faults' >= faults /\ faults \in Nat /\ faults' \in Nat
  BY DEF BalanceTypeOK, Answered, Lose

\* What each database operation does to the account.
Books == overwritten = 0 => allowance + purchased + debited = credited

LEMMA RowSafe ==
    ASSUME BalanceTypeOK, BalanceNeverNegative, Books, AllowanceWithinPlan,
           overwritten >= 0, faults' >= faults
    PROVE  /\ RowUntouched =>
                  BalanceNeverNegative' /\ Books' /\ AllowanceWithinPlan'
           /\ \A part \in Balances : part.a >= 0 /\ AtomicDeduct(part) =>
                  BalanceNeverNegative' /\ Books' /\ AllowanceWithinPlan'
           /\ \A b \in Balances, part \in Balances :
                  0 <= part.a /\ Covers(b, part) /\ OptimisticDebit(b, part) =>
                  BalanceNeverNegative' /\ Books' /\ AllowanceWithinPlan'
           /\ \A b \in Balances, part \in Balances :
                  b.a >= 0 /\ b.p >= 0 /\ faults > 0 /\ BlindRestore(b, part) =>
                  BalanceNeverNegative' /\ Books' /\ AllowanceWithinPlan'
           /\ \A amount \in Int, n \in Int : LogUsage(amount, n) =>
                  BalanceNeverNegative' /\ Books' /\ AllowanceWithinPlan'
           /\ \A amount \in Nat : SetAllowance(amount) =>
                  BalanceNeverNegative' /\ Books' /\ AllowanceWithinPlan'
           /\ \A key : \A amount \in Nat : AtomicAdd(key, amount) =>
                  BalanceNeverNegative' /\ Books' /\ AllowanceWithinPlan'
           /\ \A b \in Balances, amount \in Nat : b.p >= 0 /\ BlindAdd(b, amount) =>
                  BalanceNeverNegative' /\ Books' /\ AllowanceWithinPlan'
  <1> USE DEF BalanceTypeOK, Balances, Row, rowVars, historyVars, BalanceNeverNegative, Books,
              AllowanceWithinPlan
  <1> DEFINE Safe == BalanceNeverNegative' /\ Books' /\ AllowanceWithinPlan'
  <1>1. RowUntouched => Safe
    BY DEF RowUntouched
  <1>2. ASSUME NEW part \in Balances, part.a >= 0, AtomicDeduct(part) PROVE Safe
    BY <1>2 DEF AtomicDeduct, Covers, SetRow, Minus
  <1>3. ASSUME NEW b \in Balances, NEW part \in Balances, 0 <= part.a, Covers(b, part),
               OptimisticDebit(b, part)
        PROVE  Safe
    BY <1>3 DEF OptimisticDebit, Covers, SetRow, Minus
  <1>4. ASSUME NEW b \in Balances, NEW part \in Balances, b.a >= 0, b.p >= 0, faults > 0,
               BlindRestore(b, part)
        PROVE  Safe
    BY <1>4 DEF BlindRestore, SetRow, Minus
  <1>5. ASSUME NEW amount \in Int, NEW n \in Int, LogUsage(amount, n) PROVE Safe
    BY <1>5 DEF LogUsage
  <1>6. ASSUME NEW amount \in Nat, SetAllowance(amount) PROVE Safe
    BY <1>6 DEF SetAllowance
  <1>7. ASSUME NEW key, NEW amount \in Nat, AtomicAdd(key, amount) PROVE Safe
    BY <1>7 DEF AtomicAdd
  <1>8. ASSUME NEW b \in Balances, NEW amount \in Nat, b.p >= 0, BlindAdd(b, amount)
        PROVE  Safe
    BY <1>8 DEF BlindAdd
  <1> QED BY <1>1, <1>2, <1>3, <1>4, <1>5, <1>6, <1>7, <1>8

\* The parts taken from a non-negative balance are non-negative, and a balance
\* that is large enough covers them.
LEMMA PartsCovered ==
    ASSUME TypeOK, AccountInv, NEW r \in Requests
    PROVE  /\ snap[r].a >= 0 /\ snap[r].p >= 0
           /\ Part(r).a >= 0
           /\ snap[r].a + snap[r].p >= Cost[r] => Covers(snap[r], Part(r))
  <1>1. snap[r] \in Balances /\ snap[r].a >= 0 /\ snap[r].p >= 0
    BY DEF TypeOK, RequestTypeOK, AccountInv
  <1> QED
    BY <1>1 DEF Balances, Part, Split, Covers

\* A failed attempt goes on to another provider or ends the request.
LEMMA FailedAttempt ==
    ASSUME RequestTypeOK, NEW r \in Requests, NEW why, AttemptFails(r, why)
    PROVE  /\ \A q \in Requests : q /= r => pc'[q] = pc[q]
           /\ pc'[r] \in {"provider", "failed"}
  BY DEF RequestTypeOK, AttemptFails, Goto

\* Every action of a request leaves the deployment and the keys alone and
\* heals no fault.
LEMMA RequestFrame ==
    ASSUME TypeOK, NEW r \in Requests, RequestStep(r)
    PROVE  /\ faults' >= faults /\ faults \in Nat /\ faults' \in Nat
           /\ UNCHANGED <<rpcDeployed, keys>>
  <1> USE DEF TypeOK
  <1>1. Answered \/ \E n \in Nat : Lose(n)
    BY DEF RequestStep, ProviderServes, ProviderFails, StreamEnds, StreamBreaks, StreamDropped,
           ReadBalances, CheckDailyLimit, RpcCommits, RpcRefuses, RpcUnanswered, LegacyRefuses,
           LegacyDebits, LegacyFails, LegacyLogs, LegacyRollsBack, LogTries
  <1>2. UNCHANGED rpcDeployed
    BY DEF RequestStep, ProviderServes, ProviderFails, StreamEnds, StreamBreaks, StreamDropped,
           ReadBalances, CheckDailyLimit, RpcCommits, RpcRefuses, RpcUnanswered, LegacyRefuses,
           LegacyDebits, LegacyFails, LegacyLogs, LegacyRollsBack, RowUntouched, AtomicDeduct,
           OptimisticDebit, BlindRestore, LogUsage
  <1> QED
    BY <1>1, <1>2, FaultsGrow, RequestTypeStep

\* The account over a step of a request.
LEMMA RequestAccountStep ==
    ASSUME IInv, NEW r \in Requests, RequestStep(r), UNCHANGED <<grantVars, jobVars>>
    PROVE  AccountInv'
  <1> USE DEF IInv, TypeOK
  <1> DEFINE Safe == BalanceNeverNegative' /\ Books' /\ AllowanceWithinPlan'
             Snaps == \A q \in Requests : snap'[q].a >= 0 /\ snap'[q].p >= 0
  <1>0. /\ BalanceNeverNegative /\ Books /\ AllowanceWithinPlan /\ overwritten >= 0
        /\ faults' >= faults
        /\ \A q \in Requests : snap[q].a >= 0 /\ snap[q].p >= 0
    BY RequestFrame DEF AccountInv, FaultsExplain, Books
  <1>s. SUFFICES Safe /\ Snaps
    BY DEF AccountInv, Books, grantVars
  <1>p. /\ Part(r) \in Balances /\ snap[r] \in Balances /\ Part(r).a >= 0
        /\ snap[r].a + snap[r].p >= Cost[r] => Covers(snap[r], Part(r))
    BY SplitTypes, PartsCovered
  <1>1. CASE RowUntouched /\ UNCHANGED snap
    BY <1>0, <1>1, RowSafe
  <1>2. CASE ReadBalances(r)
    <2>1. Safe
      BY <1>0, <1>2, RowSafe DEF ReadBalances
    <2>2. Snaps
      BY <1>0, <1>2 DEF ReadBalances, Row, BalanceNeverNegative, RequestTypeOK
    <2> QED BY <2>1, <2>2
  <1>3. CASE RpcCommits(r)
    BY <1>0, <1>p, <1>3, RowSafe DEF RpcCommits
  <1>4. CASE LegacyDebits(r)
    BY <1>0, <1>p, <1>4, RowSafe DEF LegacyDebits
  <1>5. CASE LegacyLogs(r)
    <2>1. \E n \in Int : LogUsage(Cost[r], n)
      BY <1>5 DEF LegacyLogs, LogTries
    <2> QED BY <1>0, <1>5, <2>1, RowSafe DEF LegacyLogs
  <1>6. CASE LegacyRollsBack(r)
    <2>1. faults > 0
      BY <1>6 DEF LegacyRollsBack, FaultsExplain
    <2>2. Safe
      BY <1>0, <1>p, <1>6, <2>1, RowSafe DEF LegacyRollsBack
    <2> QED BY <1>0, <1>6, <2>2 DEF LegacyRollsBack
  <1> QED
    BY <1>1, <1>2, <1>3, <1>4, <1>5, <1>6 DEF RequestStep, ProviderServes, ProviderFails,
       StreamEnds, StreamBreaks, StreamDropped, CheckDailyLimit, RpcRefuses, RpcUnanswered,
       LegacyRefuses,
       LegacyFails

\* The explanation by faults over a step of a request.
LEMMA RequestFaultStep ==
    ASSUME IInv, NEW r \in Requests, RequestStep(r), UNCHANGED <<grantVars, jobVars>>
    PROVE  FaultsExplain'
  <1> USE DEF IInv, TypeOK
  <1>0. faults' >= faults /\ faults \in Nat /\ faults' \in Nat /\ UNCHANGED rpcDeployed
    BY RequestFrame
  <1> DEFINE Others == \A q \in Requests : q /= r => pc'[q] = pc[q] /\ unacked'[q] = unacked[q]
             Self == pc'[r] = "rollback" \/ unacked'[r] > 0 => faults' > 0
             Orphaned == orphans' /= {} => faults' > 0
             Written == /\ overwritten' >= 0
                        /\ overwritten' > 0 => ~rpcDeployed \/ faults' > 0
  <1>s. SUFFICES Others /\ Self /\ Orphaned /\ Written
    BY <1>0 DEF FaultsExplain, grantVars
  <1>w. ASSUME overwritten' = overwritten PROVE Written
    BY <1>0, <1>w DEF FaultsExplain
  <1>q. ASSUME UNCHANGED <<unacked, orphans, overwritten>>,
               \A q \in Requests \ {r} : pc'[q] = pc[q], pc'[r] /= "rollback"
        PROVE  Others /\ Self /\ Orphaned /\ Written
    BY <1>0, <1>q, <1>w DEF FaultsExplain
  <1>1. CASE \/ ProviderServes(r) \/ StreamEnds(r) \/ StreamDropped(r) \/ StreamBreaks(r)
             \/ RpcCommits(r)
    <2>1. UNCHANGED <<unacked, orphans, overwritten>>
      BY <1>1 DEF ProviderServes, StreamEnds, StreamBreaks, StreamDropped, RpcCommits, RowUntouched,
                  AtomicDeduct, historyVars
    <2>2. pc'[r] /= "rollback" /\ \A q \in Requests \ {r} : pc'[q] = pc[q]
      BY <1>1 DEF ProviderServes, StreamEnds, StreamBreaks, StreamDropped, RpcCommits, Goto,
                  RequestTypeOK
    <2> QED BY <1>q, <2>1, <2>2
  <1>2. CASE \/ ProviderFails(r) \/ ReadBalances(r) \/ CheckDailyLimit(r) \/ RpcRefuses(r)
             \/ LegacyRefuses(r) \/ LegacyFails(r)
    <2>1. UNCHANGED <<unacked, orphans, overwritten>>
      BY <1>2 DEF ProviderFails, ReadBalances, CheckDailyLimit, RpcRefuses, LegacyRefuses,
                  LegacyFails, RowUntouched, historyVars
    <2>2. pc'[r] /= "rollback" /\ \A q \in Requests \ {r} : pc'[q] = pc[q]
      BY <1>2, FailedAttempt DEF ProviderFails, ReadBalances, CheckDailyLimit, RpcRefuses,
                  LegacyRefuses, LegacyFails, Goto, RequestTypeOK
    <2> QED BY <1>q, <2>1, <2>2
  <1>3. CASE RpcUnanswered(r)
    <2>1. Others /\ Self
      BY <1>0, <1>3 DEF RpcUnanswered, Goto, RequestTypeOK, FaultsExplain
    <2>2. Orphaned
      BY <1>0, <1>3 DEF RpcUnanswered, Lose, FaultsExplain
    <2>3. Written
      BY <1>3, <1>w DEF RpcUnanswered, RowUntouched, historyVars
    <2> QED BY <2>1, <2>2, <2>3
  <1>4. CASE LegacyDebits(r)
    <2>1. Written /\ Orphaned
      BY <1>0, <1>4, <1>w DEF LegacyDebits, OptimisticDebit, FaultsExplain
    <2>2. CASE Answered /\ Goto(r, "log") /\ UNCHANGED unacked
      BY <1>0, <2>1, <2>2 DEF Goto, RequestTypeOK, FaultsExplain
    <2>3. CASE Lose(1) /\ AttemptFails(r, "fault") /\ unacked' = Add(unacked, r, 1)
      BY <1>0, <2>1, <2>3, FailedAttempt DEF Add, RequestTypeOK, Lose
    <2> QED BY <1>4, <2>2, <2>3 DEF LegacyDebits
  <1>5. CASE LegacyLogs(r)
    <2>1. PICK lost \in 0..LogTries :
            /\ Lose(lost)
            /\ Goto(r, "ok") \/ (lost > 0 /\ Goto(r, "rollback"))
      BY <1>5 DEF LegacyLogs
    <2>2. Others /\ Self
      BY <1>0, <1>5, <2>1 DEF LegacyLogs, LogTries, Lose, Goto, RequestTypeOK, FaultsExplain
    <2>3. Orphaned /\ Written
      BY <1>0, <1>5, <1>w DEF LegacyLogs, LogUsage, historyVars, FaultsExplain
    <2> QED BY <2>2, <2>3
  <1>6. CASE LegacyRollsBack(r)
    <2>1. faults' > 0
      BY <1>0, <1>6 DEF LegacyRollsBack, FaultsExplain
    <2>2. Others
      BY <1>6, FailedAttempt DEF LegacyRollsBack, Add, RequestTypeOK
    <2>3. overwritten' >= 0
      BY <1>6 DEF LegacyRollsBack, BlindRestore, RowUntouched, historyVars, BalanceTypeOK,
                  FaultsExplain
    <2> QED BY <2>1, <2>2, <2>3
  <1> QED
    BY <1>1, <1>2, <1>3, <1>4, <1>5, <1>6 DEF RequestStep

\* The debits over a step of a request.
LEMMA RequestChargeStep ==
    ASSUME IInv, NEW r \in Requests, RequestStep(r)
    PROVE  ChargeInv'
  <1> USE DEF IInv, TypeOK, RequestTypeOK
  <1> DEFINE Others == \A q \in Requests \ {r} :
                 /\ pc'[q] = pc[q] /\ debits'[q] = debits[q] /\ unacked'[q] = unacked[q]
                 /\ rows'[q] = rows[q] /\ escaped'[q] = escaped[q]
             Self ==
                 /\ debits'[r] = unacked'[r] + Pending(r)' + Charged(r)'
                 /\ debits'[r] <= rows'[r] + escaped'[r] + Pending(r)'
                 /\ pc'[r] \in {"limit", "rpc", "legacy", "log", "rollback"} => Cost[r] > 0
  <1>s. SUFFICES Others /\ Self
    BY DEF ChargeInv, Pending, Charged
  <1>c. /\ debits[r] = unacked[r] + Pending(r) + Charged(r)
        /\ debits[r] <= rows[r] + escaped[r] + Pending(r)
        /\ pc[r] \in {"limit", "rpc", "legacy", "log", "rollback"} => Cost[r] > 0
        /\ Cost[r] \in Nat
    BY DEF ChargeInv
  <1>1. CASE \/ ProviderServes(r) \/ StreamEnds(r) \/ StreamDropped(r) \/ StreamBreaks(r)
             \/ RpcUnanswered(r)
    BY <1>1, <1>c DEF ProviderServes, StreamEnds, StreamBreaks, StreamDropped, RpcUnanswered,
                      Goto, Pending, Charged
  <1>2. CASE \/ ProviderFails(r) \/ ReadBalances(r) \/ CheckDailyLimit(r) \/ RpcRefuses(r)
             \/ LegacyRefuses(r) \/ LegacyFails(r)
    <2>1. UNCHANGED <<debits, unacked, rows, escaped>>
      BY <1>2 DEF ProviderFails, ReadBalances, CheckDailyLimit, RpcRefuses, LegacyRefuses,
                  LegacyFails
    <2>2. Others
      BY <1>2, <2>1, FailedAttempt DEF ProviderFails, ReadBalances, CheckDailyLimit, RpcRefuses,
                  LegacyRefuses, LegacyFails, Goto
    <2>3. \/ pc'[r] \in {"provider", "failed"}
          \/ pc'[r] = "ok" /\ Cost[r] = 0
          \/ pc'[r] \in {"limit", "rpc"} /\ Cost[r] > 0
      BY <1>2, <1>c, FailedAttempt DEF ProviderFails, ReadBalances, CheckDailyLimit, RpcRefuses,
                  LegacyRefuses, LegacyFails, Goto
    <2>4. pc[r] \in {"provider", "read", "limit", "rpc", "legacy"}
      BY <1>2 DEF ProviderFails, ReadBalances, CheckDailyLimit, RpcRefuses, LegacyRefuses,
                  LegacyFails
    <2>5. Self
      BY <1>c, <2>1, <2>3, <2>4 DEF Pending, Charged
    <2> QED BY <2>2, <2>5
  <1>3. CASE RpcCommits(r)
    BY <1>3, <1>c DEF RpcCommits, Goto, Add, Pending, Charged
  <1>4. CASE LegacyDebits(r)
    <2>1. CASE Answered /\ Goto(r, "log") /\ UNCHANGED <<unacked, escaped>>
      BY <1>4, <1>c, <2>1 DEF LegacyDebits, Goto, Add, Pending, Charged
    <2>2. CASE /\ AttemptFails(r, "fault")
               /\ unacked' = Add(unacked, r, 1) /\ escaped' = Add(escaped, r, 1)
      BY <1>4, <1>c, <2>2, FailedAttempt DEF LegacyDebits, Add, Pending, Charged
    <2> QED BY <1>4, <2>1, <2>2 DEF LegacyDebits
  <1>5. CASE LegacyLogs(r)
    <2>1. PICK n \in Nat : /\ rows' = Add(rows, r, n)
                           /\ (Goto(r, "ok") /\ n > 0) \/ Goto(r, "rollback")
      BY <1>5 DEF LegacyLogs, LogTries
    <2> QED BY <1>5, <1>c, <2>1 DEF LegacyLogs, Goto, Add, Pending, Charged
  <1>6. CASE LegacyRollsBack(r)
    <2>1. \/ debits' = Add(debits, r, -1) /\ UNCHANGED <<unacked, escaped>>
          \/ /\ unacked' = Add(unacked, r, 1) /\ escaped' = Add(escaped, r, 1)
             /\ UNCHANGED debits
      BY <1>6 DEF LegacyRollsBack
    <2>2. /\ \A q \in Requests \ {r} : pc'[q] = pc[q]
          /\ pc'[r] \in {"provider", "failed"}
      BY <1>6, FailedAttempt DEF LegacyRollsBack
    <2> QED BY <1>6, <1>c, <2>1, <2>2 DEF LegacyRollsBack, Add, Pending, Charged
  <1> QED
    BY <1>1, <1>2, <1>3, <1>4, <1>5, <1>6 DEF RequestStep

\* A late commit is one more debit that nobody was told of.
LEMMA OrphanInvStep ==
    ASSUME IInv, NEW o \in orphans, OrphanCommits(o), UNCHANGED <<grantVars, jobVars>>
    PROVE  IInv'
  <1> USE DEF IInv, TypeOK
  <1>0. /\ o.req \in Requests /\ o.part \in Balances
        /\ faults > 0 /\ UNCHANGED <<faults, rpcDeployed, overwritten, keys>>
    BY DEF RequestTypeOK, Orphans, FaultsExplain, OrphanCommits, Answered, AtomicDeduct
  <1>1. TypeOK'
    BY OrphanTypeStep DEF grantVars, jobVars, GrantTypeOK, JobTypeOK
  <1>2. FaultsExplain'
    BY <1>0 DEF FaultsExplain, grantVars
  <1>3. AccountInv'
    <2>1. BalanceNeverNegative' /\ Books' /\ AllowanceWithinPlan'
      BY <1>0 DEF OrphanCommits, AtomicDeduct, Covers, SetRow, Minus, Row, AccountInv, Books,
                  BalanceTypeOK, Balances, BalanceNeverNegative, AllowanceWithinPlan
    <2> QED BY <2>1 DEF AccountInv, Books, OrphanCommits, grantVars
  <1>4. ChargeInv'
    BY <1>0 DEF OrphanCommits, Add, RequestTypeOK, ChargeInv, Pending, Charged
  <1>5. GrantInv'
    BY <1>0 DEF GrantInv
  <1> QED BY <1>1, <1>2, <1>3, <1>4, <1>5

LEMMA RequestInvStep ==
    ASSUME IInv, NEW r \in Requests, RequestStep(r), UNCHANGED <<grantVars, jobVars>>
    PROVE  IInv'
  <1>1. TypeOK'
    BY RequestTypeStep DEF IInv, TypeOK, grantVars, jobVars, GrantTypeOK, JobTypeOK
  <1>2. GrantInv'
    <2>1. /\ faults' >= faults /\ faults \in Nat /\ faults' \in Nat
          /\ UNCHANGED <<rpcDeployed, keys>>
      BY RequestFrame DEF IInv
    <2>2. UNCHANGED grants
      BY DEF grantVars
    <2> QED BY <2>1, <2>2 DEF IInv, GrantInv
  <1> QED
    BY <1>1, <1>2, RequestAccountStep, RequestFaultStep, RequestChargeStep DEF IInv

\* An atomic grant adds the amount once and leaves its key behind.
LEMMA AtomicGrantSafe ==
    ASSUME IInv, NEW d \in Deliveries, Answered, AtomicGrant(d)
    PROVE  /\ BalanceNeverNegative' /\ Books' /\ AllowanceWithinPlan'
           /\ UNCHANGED <<faults, rpcDeployed, overwritten>>
           /\ GrantInv'
  <1> USE DEF IInv, TypeOK
  <1>1. Key[d] \in Keys /\ Amount[d] \in Nat
    BY DEF Keys
  <1>2. UNCHANGED <<faults, rpcDeployed, overwritten>> /\ faults \in Nat
    BY DEF AtomicGrant, AtomicAdd, Answered, BalanceTypeOK
  <1>3. BalanceNeverNegative' /\ Books' /\ AllowanceWithinPlan'
    BY <1>1, <1>2, RowSafe DEF AtomicGrant, AccountInv, Books, FaultsExplain
  <1>4. GrantInv'
    <2>1. CASE Key[d] \in keys
      BY <1>2, <2>1 DEF AtomicGrant, AtomicAdd, GrantInv
    <2>2. CASE Key[d] \notin keys
      BY <1>1, <1>2, <2>2 DEF AtomicGrant, AtomicAdd, GrantInv, CountGrant, GrantTypeOK
    <2> QED BY <2>1, <2>2
  <1> QED BY <1>2, <1>3, <1>4

LEMMA GrantInvStep ==
    ASSUME IInv, NEW d \in Deliveries, GrantStep(d) \/ OrphanGrants(d),
           UNCHANGED <<requestVars, jobVars>>
    PROVE  IInv'
  <1> USE DEF IInv, TypeOK
  <1> DEFINE Safe == BalanceNeverNegative' /\ Books' /\ AllowanceWithinPlan'
             Readings == \A e \in Deliveries : gread'[e].p >= 0
             Explained ==
                /\ faults' >= faults /\ UNCHANGED rpcDeployed
                /\ gorphans' /= {} => faults' > 0
                /\ \A e \in Deliveries :
                      gpc'[e] \in {"read", "update", "log"} => ~rpcDeployed \/ faults' > 0
                /\ overwritten' >= 0
                /\ overwritten' > 0 => ~rpcDeployed \/ faults' > 0
  <1>0. /\ BalanceNeverNegative /\ Books /\ AllowanceWithinPlan /\ overwritten >= 0
        /\ faults \in Nat
        /\ Amount[d] \in Nat /\ gread[d] \in Balances /\ gread[d].p >= 0
    BY DEF AccountInv, Books, FaultsExplain, GrantTypeOK, BalanceTypeOK
  <1>t. TypeOK'
    BY GrantTypeStep DEF requestVars, jobVars, RequestTypeOK, JobTypeOK
  <1>s. SUFFICES Safe /\ Readings /\ Explained /\ GrantInv'
    <2>1. AccountInv'
      BY <1>s DEF AccountInv, Books, requestVars
    <2>2. ChargeInv'
      BY DEF ChargeInv, Pending, Charged, requestVars
    <2>3. FaultsExplain'
      BY <1>s, <1>0, <1>t DEF FaultsExplain, requestVars, BalanceTypeOK
    <2> QED BY <1>s, <1>t, <2>1, <2>2, <2>3
  <1> USE DEF GrantGoto, GrantTypeOK
  <1>1. CASE GrantRpc(d)
    <2>1. Safe /\ GrantInv' /\ UNCHANGED <<faults, rpcDeployed, overwritten>>
      BY <1>1, AtomicGrantSafe DEF GrantRpc
    <2> QED BY <1>0, <1>1, <2>1 DEF GrantRpc, AccountInv, FaultsExplain
  <1>2. CASE GrantUnanswered(d)
    <2>1. faults' >= faults /\ UNCHANGED <<rpcDeployed, keys, grants, gread, overwritten>>
      BY <1>0, <1>2 DEF GrantUnanswered, Answered, Lose, RowUntouched, historyVars
    <2>2. Safe /\ Readings
      BY <1>0, <1>2, <2>1, RowSafe DEF GrantUnanswered, AccountInv
    <2>3. ~rpcDeployed \/ faults' > 0
      BY <1>0, <1>2 DEF GrantUnanswered, Lose
    <2>4. Explained
      BY <1>0, <1>2, <2>1, <2>3 DEF GrantUnanswered, Answered, Lose, FaultsExplain
    <2>5. GrantInv'
      BY <1>t, <1>0, <2>1 DEF GrantInv, BalanceTypeOK
    <2> QED BY <2>2, <2>4, <2>5
  <1>3. CASE GrantReads(d)
    <2>1. faults' >= faults /\ UNCHANGED <<rpcDeployed, keys, grants, gorphans, overwritten>>
      BY <1>0, <1>3 DEF GrantReads, Answered, Lose, RowUntouched, historyVars
    <2>2. Safe
      BY <1>0, <1>3, <2>1, RowSafe DEF GrantReads
    <2>3. Readings
      BY <1>0, <1>3 DEF GrantReads, Row, BalanceNeverNegative, AccountInv
    <2>4. Explained
      BY <1>0, <1>3, <1>t, <2>1 DEF GrantReads, FaultsExplain, BalanceTypeOK
    <2>5. GrantInv'
      BY <1>t, <1>0, <2>1 DEF GrantInv, BalanceTypeOK
    <2> QED BY <2>2, <2>3, <2>4, <2>5
  <1>4. CASE GrantUpdates(d)
    <2>1. /\ faults' >= faults /\ UNCHANGED <<rpcDeployed, gorphans, gread>>
          /\ ~rpcDeployed \/ faults > 0
      BY <1>0, <1>4 DEF GrantUpdates, Answered, Lose, RowUntouched, BlindAdd, FaultsExplain
    <2>2. Safe /\ Readings
      BY <1>0, <1>4, <2>1, RowSafe DEF GrantUpdates, AccountInv
    <2>3. overwritten' >= 0
      BY <1>0, <1>4 DEF GrantUpdates, RowUntouched, BlindAdd, historyVars, BalanceTypeOK
    <2>4. Explained
      BY <1>0, <1>4, <1>t, <2>1, <2>3 DEF GrantUpdates, FaultsExplain, BalanceTypeOK
    <2>5. GrantInv'
      BY <1>0, <1>t, <2>1 DEF GrantInv, BalanceTypeOK
    <2> QED BY <2>2, <2>4, <2>5
  <1>5. CASE GrantLogs(d)
    <2>1. /\ faults' >= faults
          /\ UNCHANGED <<rpcDeployed, gorphans, gread, rowVars, historyVars>>
          /\ ~rpcDeployed \/ faults > 0
      BY <1>0, <1>5 DEF GrantLogs, Answered, Lose, FaultsExplain
    <2>2. Safe /\ Readings
      BY <1>0, <2>1, <1>t DEF rowVars, historyVars, AccountInv, BalanceNeverNegative, Books,
                         AllowanceWithinPlan, BalanceTypeOK
    <2>3. Explained
      BY <1>0, <1>5, <1>t, <2>1 DEF GrantLogs, FaultsExplain, historyVars, BalanceTypeOK
    <2>4. GrantInv'
      BY <1>0, <1>t, <2>1 DEF GrantInv, BalanceTypeOK
    <2> QED BY <2>2, <2>3, <2>4
  <1>6. CASE OrphanGrants(d)
    <2>1. Safe /\ GrantInv' /\ UNCHANGED <<faults, rpcDeployed, overwritten>>
      BY <1>6, AtomicGrantSafe DEF OrphanGrants
    <2> QED BY <1>0, <1>6, <2>1 DEF OrphanGrants, AccountInv, FaultsExplain
  <1> QED
    BY <1>1, <1>2, <1>3, <1>4, <1>5, <1>6 DEF GrantStep

LEMMA JobInvStep ==
    ASSUME IInv, NEW j \in Jobs, JobStep(j), UNCHANGED <<requestVars, grantVars>>
    PROVE  IInv'
  <1> USE DEF IInv, TypeOK
  <1>0. /\ BalanceNeverNegative /\ Books /\ AllowanceWithinPlan /\ overwritten >= 0
        /\ faults \in Nat /\ Tier[j] \in Nat /\ stale[j] \in Int
    BY DEF AccountInv, Books, FaultsExplain, BalanceTypeOK, JobTypeOK
  <1>1. TypeOK'
    BY JobTypeStep DEF requestVars, grantVars, RequestTypeOK, GrantTypeOK
  <1>l. ASSUME JobLogs(j)
        PROVE  \E n \in Int : LogUsage(IF Forfeits(j) THEN stale[j] ELSE 0, n)
    BY <1>l DEF JobLogs, RowsLogged, LogTries
  <1>2. faults' >= faults /\ UNCHANGED <<rpcDeployed, overwritten, keys>>
    <2>1. faults' >= faults
      BY <1>0 DEF JobStep, JobReads, JobWrites, JobLogs, Answered, Lose, LogTries
    <2> QED
      BY <2>1, <1>l, JobTypeStep DEF JobStep, JobReads, JobWrites, RowUntouched, SetAllowance,
         LogUsage, historyVars
  <1>3. AccountInv'
    <2>1. BalanceNeverNegative' /\ Books' /\ AllowanceWithinPlan'
      BY <1>0, <1>2, <1>l, RowSafe DEF JobStep, JobReads, JobWrites
    <2> QED BY <2>1 DEF AccountInv, Books, requestVars, grantVars
  <1>4. FaultsExplain'
    BY <1>0, <1>1, <1>2 DEF FaultsExplain, requestVars, grantVars, BalanceTypeOK
  <1>5. ChargeInv'
    BY DEF ChargeInv, Pending, Charged, requestVars
  <1>6. GrantInv'
    BY <1>0, <1>1, <1>2 DEF GrantInv, grantVars, BalanceTypeOK
  <1> QED BY <1>1, <1>3, <1>4, <1>5, <1>6

LEMMA InvStep == IInv /\ [Next]_vars => IInv'
  <1> SUFFICES ASSUME IInv, [Next]_vars PROVE IInv'
    OBVIOUS
  <1>1. ASSUME NEW r \in Requests, Charge(r) PROVE IInv'
    BY <1>1, RequestInvStep DEF Charge
  <1>2. ASSUME NEW o \in orphans, LateCharge(o) PROVE IInv'
    BY <1>2, OrphanInvStep DEF LateCharge
  <1>3. ASSUME NEW d \in Deliveries, Grant(d) \/ LateGrant(d) PROVE IInv'
    BY <1>3, GrantInvStep DEF Grant, LateGrant
  <1>4. ASSUME NEW j \in Jobs, ChangeAllowance(j) PROVE IInv'
    BY <1>4, JobInvStep DEF ChangeAllowance
  <1>5. CASE UNCHANGED vars
    <2>1. TypeOK'
      BY <1>5, TypeStep DEF IInv
    <2>2. FaultsExplain' /\ GrantInv'
      BY <1>5 DEF IInv, FaultsExplain, GrantInv, vars, balanceVars, historyVars, requestVars,
                  grantVars
    <2>3. AccountInv' /\ ChargeInv'
      BY <1>5 DEF IInv, AccountInv, ChargeInv, Pending, Charged, BalanceNeverNegative,
                  AllowanceWithinPlan, vars, balanceVars, rowVars, historyVars, requestVars,
                  grantVars
    <2> QED BY <2>1, <2>2, <2>3 DEF IInv
  <1>6. gorphans \subseteq Deliveries
    BY DEF IInv, TypeOK, GrantTypeOK
  <1> QED
    BY <1>1, <1>2, <1>3, <1>4, <1>5, <1>6 DEF Next

LEMMA Invariance == Spec => []IInv
  BY InvInit, InvStep, PTL DEF Spec

-----------------------------------------------------------------------------
(***************************************************************************)
(* The properties of Billing, for every value of its constants.            *)
(***************************************************************************)

\* Neither balance column is ever negative, although charges are split by
\* balances read earlier.
THEOREM NeverNegative == Spec => []BalanceNeverNegative
  BY Invariance, InvImplies, PTL

\* No interleaving of charges, grants and allowance changes loses an update,
\* short of a blind write of a fallback path.
THEOREM Conservation == Spec => []MoneyConserved
  BY Invariance, InvImplies, PTL

\* An answered request is charged once and a failed one never, up to the
\* debits whose replies were lost.
THEOREM ChargedOnce == Spec => []ChargedOncePerAnswer
  BY Invariance, InvImplies, PTL

\* A debit that stands is in the ledger, or a fault kept it out.
THEOREM NothingVanishes == Spec => []NoVanishingMoney
  BY Invariance, InvImplies, PTL

\* Without a fault the allowance never exceeds what the subscription last gave.
THEOREM PlanRespected == Spec => []AllowanceWithinPlan
  BY Invariance, InvImplies, PTL

\* However often a payment is delivered, its stored procedure grants it once.
THEOREM GrantedOnce == Spec => []GrantAtMostOnce
  BY Invariance, InvImplies, PTL

-----------------------------------------------------------------------------
(***************************************************************************)
(* Billing implements Account.                                             *)
(***************************************************************************)

LEMMA AccountInit == Init => Promised!Init
  BY DEF Init, Promised!Init, BalanceInit, RequestInit, GrantInit, Paid, Outcome, Granted, Doubt,
         Terminal

\* Without a fault a request has been debited if it is past its debit.
LEMMA PaidOnce ==
    ASSUME IInv, faults = 0, NEW r \in Requests
    PROVE  /\ debits[r] = Pending(r) + Charged(r)
           /\ r \in Paid <=> debits[r] = 1
           /\ pc[r] /= "rollback"
  <1>1. unacked[r] = 0 /\ pc[r] /= "rollback"
    BY DEF IInv, TypeOK, RequestTypeOK, FaultsExplain
  <1> QED BY <1>1 DEF IInv, ChargeInv, Paid, Pending, Charged

\* A request that moves without a debit, and without a fault, closes or stays open.
LEMMA NoDebit ==
    ASSUME IInv, NEW r \in Requests, faults = 0, UNCHANGED <<debits, grants, rowVars>>,
           \A q \in Requests \ {r} : pc'[q] = pc[q],
           pc[r] \notin Terminal,
           pc'[r] = "ok" => r \in Paid \/ Cost[r] = 0,
           pc'[r] \in {"failed", "dropped"} => r \notin Paid
    PROVE  Promised!Close(r) \/ UNCHANGED <<allowance, purchased, Paid, Outcome, Granted>>
  <1>1. UNCHANGED <<allowance, purchased, Paid, Granted>>
    BY DEF rowVars, Paid, Granted
  <1>2. /\ \A q \in Requests \ {r} : Outcome'[q] = Outcome[q]
        /\ Outcome[r] = "open"
        /\ Outcome'[r] = IF pc'[r] = "ok" THEN "answered"
                         ELSE IF pc'[r] \in Terminal THEN "unanswered" ELSE "open"
    BY DEF Outcome, Terminal
  <1>3. /\ Outcome' = [q \in Requests |-> Outcome'[q]]
        /\ Outcome = [q \in Requests |-> Outcome[q]]
    BY DEF Outcome
  <1>4. CASE pc'[r] \notin Terminal
    <2>1. Outcome' = Outcome
      BY <1>2, <1>3, <1>4 DEF Terminal
    <2> QED BY <1>1, <2>1
  <1>5. CASE pc'[r] = "ok"
    <2>1. Outcome' = [Outcome EXCEPT ![r] = "answered"]
      BY <1>2, <1>3, <1>5
    <2> QED BY <1>1, <1>2, <1>5, <2>1 DEF Promised!Close, Promised!Become
  <1>6. CASE pc'[r] \in {"failed", "dropped"}
    <2>1. Outcome' = [Outcome EXCEPT ![r] = "unanswered"]
      BY <1>2, <1>3, <1>6 DEF Terminal
    <2> QED BY <1>1, <1>2, <1>6, <2>1 DEF Promised!Close, Promised!Become
  <1> QED BY <1>4, <1>5, <1>6 DEF Terminal

\* A debit that the balances cover is the payment of its request.
LEMMA DebitPays ==
    ASSUME IInv, NEW r \in Requests, faults = 0, NEW part \in Balances,
           part.a >= 0, part.p >= 0, part.a + part.p = Cost[r], Cost[r] > 0,
           Covers(Row, part), SetRow(Minus(Row, part)),
           debits[r] = 0, debits' = Add(debits, r, 1), UNCHANGED grants,
           pc[r] \notin Terminal,
           Goto(r, "ok") \/ Goto(r, "log")
    PROVE  Promised!Pay(r)
  <1> USE DEF IInv, TypeOK, RequestTypeOK, BalanceTypeOK, Balances, Row
  <1>1. Paid' = Paid \union {r} /\ r \notin Paid /\ Granted' = Granted
    BY DEF Paid, Granted, Add
  <1>2. Outcome[r] = "open" /\ \A q \in Requests \ {r} : Outcome'[q] = Outcome[q]
    BY DEF Outcome, Goto, Terminal
  <1>3. /\ Outcome' = [q \in Requests |-> Outcome'[q]]
        /\ Outcome = [q \in Requests |-> Outcome[q]]
    BY DEF Outcome
  <1>4. UNCHANGED Outcome \/ Promised!Become(r, "answered")
    <2>1. CASE Goto(r, "ok")
      <3>1. Outcome'[r] = "answered"
        BY <2>1 DEF Outcome, Goto
      <3> QED BY <1>2, <1>3, <3>1 DEF Promised!Become
    <2>2. CASE Goto(r, "log")
      <3>1. Outcome'[r] = "open"
        BY <2>2 DEF Outcome, Goto, Terminal
      <3> QED BY <1>2, <1>3, <3>1
    <2> QED BY <2>1, <2>2
  <1>5. \E n \in 0..Cost[r] :
           /\ n <= allowance /\ allowance' = allowance - n
           /\ Cost[r] - n <= purchased /\ purchased' = purchased - (Cost[r] - n)
    <2>1. /\ part.a \in 0..Cost[r] /\ Cost[r] - part.a = part.p
          /\ part.a <= allowance /\ part.p <= purchased
          /\ allowance' = allowance - part.a /\ purchased' = purchased - part.p
      BY DEF Covers, SetRow, Minus
    <2> QED BY <2>1
  <1> QED BY <1>1, <1>2, <1>4, <1>5 DEF Promised!Pay

\* While nothing fails, a step of a request is a payment, an end or nothing.
LEMMA RequestRefines ==
    ASSUME IInv, NEW r \in Requests, RequestStep(r), UNCHANGED grantVars, faults' = 0
    PROVE  \/ Promised!Pay(r) \/ Promised!Close(r)
           \/ UNCHANGED <<allowance, purchased, Paid, Outcome, Granted>>
  <1> USE DEF IInv, TypeOK, RequestTypeOK
  <1>0. faults = 0 /\ UNCHANGED grants
    BY RequestFrame DEF grantVars
  <1>l. ~\E n \in Nat \ {0} : Lose(n)
    BY <1>0 DEF Lose
  <1>p. /\ debits[r] = Pending(r) + Charged(r)
        /\ r \in Paid <=> debits[r] = 1
        /\ pc[r] /= "rollback"
    BY <1>0, PaidOnce
  <1>c. /\ pc[r] \in {"limit", "rpc", "legacy", "log"} => Cost[r] > 0
        /\ Part(r) \in Balances /\ Part(r).a >= 0 /\ Part(r).p >= 0
        /\ Part(r).a + Part(r).p = Cost[r]
        /\ snap[r] \in Balances
        /\ snap[r].a + snap[r].p >= Cost[r] => Covers(snap[r], Part(r))
    <2>1. /\ Cost[r] \in Nat /\ snap[r] \in Balances /\ Part(r) \in Balances
          /\ Part(r).a + Part(r).p = Cost[r]
      BY SplitTypes
    <2>2. /\ snap[r].a >= 0 /\ snap[r].p >= 0 /\ Part(r).a >= 0
          /\ snap[r].a + snap[r].p >= Cost[r] => Covers(snap[r], Part(r))
      BY PartsCovered
    <2>3. Part(r).p >= 0
      BY <2>1, <2>2 DEF Part, Split, Balances
    <2> QED BY <2>1, <2>2, <2>3 DEF ChargeInv
  <1>1. CASE \/ ProviderServes(r) \/ StreamEnds(r) \/ StreamDropped(r) \/ StreamBreaks(r)
             \/ RpcUnanswered(r)
    <2>1. /\ UNCHANGED <<debits, rowVars>>
          /\ pc[r] \in {"provider", "streaming", "rpc"}
          /\ \A q \in Requests \ {r} : pc'[q] = pc[q]
          /\ pc'[r] \in {"streaming", "read", "dropped", "failed", "legacy"}
      BY <1>1 DEF ProviderServes, StreamEnds, StreamBreaks, StreamDropped, RpcUnanswered,
                  RowUntouched, Goto
    <2>2. r \notin Paid
      BY <1>p, <2>1 DEF Pending, Charged
    <2> QED BY <1>0, <2>1, <2>2, NoDebit DEF Terminal
  <1>2. CASE \/ ProviderFails(r) \/ ReadBalances(r) \/ CheckDailyLimit(r) \/ RpcRefuses(r)
             \/ LegacyRefuses(r) \/ LegacyFails(r)
    <2>1. UNCHANGED <<debits, rowVars>>
      BY <1>2 DEF ProviderFails, ReadBalances, CheckDailyLimit, RpcRefuses, LegacyRefuses,
                  LegacyFails, RowUntouched
    <2>2. pc[r] \in {"provider", "read", "limit", "rpc", "legacy"}
      BY <1>2 DEF ProviderFails, ReadBalances, CheckDailyLimit, RpcRefuses, LegacyRefuses,
                  LegacyFails
    <2>3. /\ \A q \in Requests \ {r} : pc'[q] = pc[q]
          /\ \/ pc'[r] \in {"provider", "failed", "limit", "rpc"}
             \/ pc'[r] = "ok" /\ Cost[r] = 0
      BY <1>2, FailedAttempt DEF ProviderFails, ReadBalances, CheckDailyLimit, RpcRefuses,
                  LegacyRefuses, LegacyFails, Goto
    <2>4. r \notin Paid
      BY <1>p, <2>2 DEF Pending, Charged
    <2> QED BY <1>0, <2>1, <2>2, <2>3, <2>4, NoDebit DEF Terminal
  <1>3. CASE RpcCommits(r)
    <2>1. debits[r] = 0 /\ pc[r] \notin Terminal /\ Cost[r] > 0
      BY <1>3, <1>p, <1>c DEF RpcCommits, Pending, Charged, Terminal
    <2>2. /\ Covers(Row, Part(r)) /\ SetRow(Minus(Row, Part(r)))
          /\ debits' = Add(debits, r, 1) /\ Goto(r, "ok")
      BY <1>3 DEF RpcCommits, AtomicDeduct
    <2> QED BY <1>0, <1>c, <2>1, <2>2, DebitPays
  <1>4. CASE LegacyDebits(r)
    <2>1. debits[r] = 0 /\ pc[r] \notin Terminal /\ Cost[r] > 0
      BY <1>4, <1>p, <1>c DEF LegacyDebits, Pending, Charged, Terminal
    <2>2. /\ Covers(Row, Part(r)) /\ SetRow(Minus(Row, Part(r)))
          /\ debits' = Add(debits, r, 1) /\ Goto(r, "log")
      BY <1>4, <1>c, <1>l DEF LegacyDebits, OptimisticDebit
    <2> QED BY <1>0, <1>c, <2>1, <2>2, DebitPays
  <1>5. CASE LegacyLogs(r)
    <2>1. PICK lost \in 0..LogTries :
            /\ Lose(lost)
            /\ Goto(r, "ok") \/ (lost > 0 /\ Goto(r, "rollback"))
      BY <1>5 DEF LegacyLogs
    <2>2. Goto(r, "ok")
      BY <2>1, <1>l DEF LogTries
    <2>3. UNCHANGED <<debits, rowVars>> /\ pc[r] = "log"
      BY <1>5 DEF LegacyLogs, LogUsage
    <2>4. r \in Paid
      BY <1>p, <2>3 DEF Pending, Charged
    <2> QED BY <1>0, <2>2, <2>3, <2>4, NoDebit DEF Terminal, Goto
  <1> QED
    BY <1>p, <1>1, <1>2, <1>3, <1>4, <1>5 DEF RequestStep, LegacyRollsBack

\* So is a grant, until it takes the legacy path.
LEMMA GrantRefines ==
    ASSUME IInv, NEW d \in Deliveries, GrantStep(d) \/ OrphanGrants(d),
           UNCHANGED <<requestVars, jobVars>>, ~Doubt'
    PROVE  \/ Promised!Credit(d)
           \/ UNCHANGED <<allowance, purchased, Paid, Outcome, Granted>>
  <1> USE DEF IInv, TypeOK, GrantTypeOK
  <1>1. faults = 0
    BY DEF GrantStep, GrantRpc, GrantUnanswered, GrantReads, GrantUpdates, GrantLogs, OrphanGrants,
           Answered, Lose, Doubt, BalanceTypeOK
  <1>2. rpcDeployed /\ AtomicGrant(d)
    <2>1. CASE GrantRpc(d)
      BY <2>1 DEF GrantRpc
    <2>2. ~OrphanGrants(d)
      BY <1>1 DEF OrphanGrants, FaultsExplain
    <2>3. ASSUME gpc[d] /= "call" PROVE ~GrantStep(d)
      <3>1. CASE rpcDeployed
        <4>1. gpc[d] \notin {"call", "read", "update", "log"}
          BY <1>1, <2>3, <3>1 DEF FaultsExplain
        <4> QED
          BY <4>1 DEF GrantStep, GrantRpc, GrantUnanswered, GrantReads, GrantUpdates, GrantLogs
      <3>2. CASE ~rpcDeployed
        <4>1. ASSUME GrantStep(d) PROVE gpc'[d] /= "call" /\ rpcDeployed' = rpcDeployed
          BY <2>3, <4>1, GrantTypeStep
             DEF GrantStep, GrantRpc, GrantUnanswered, GrantReads, GrantUpdates, GrantLogs,
                 GrantGoto, RowUntouched, BlindAdd
        <4> QED BY <3>2, <4>1 DEF Doubt
      <3> QED BY <3>1, <3>2
    <2>4. ~GrantUnanswered(d)
      BY <1>1 DEF GrantUnanswered, GrantGoto, Lose, Doubt, RowUntouched
    <2> QED
      BY <2>1, <2>2, <2>3, <2>4 DEF GrantStep, GrantReads, GrantUpdates, GrantLogs
  <1>3. UNCHANGED <<allowance, Paid, Outcome>> /\ Key[d] \in Keys
    BY <1>2 DEF AtomicGrant, AtomicAdd, Paid, Outcome, requestVars, Keys
  <1>4. CASE Key[d] \in keys
    BY <1>2, <1>3, <1>4 DEF AtomicGrant, AtomicAdd, Granted
  <1>5. CASE Key[d] \notin keys
    <2>1. grants[Key[d]] = 0
      BY <1>1, <1>2, <1>3, <1>5 DEF GrantInv
    <2>2. purchased' = purchased + Amount[d] /\ CountGrant(d)
      BY <1>2, <1>5 DEF AtomicGrant, AtomicAdd
    <2>3. Key[d] \notin Granted /\ Granted' = Granted \union {Key[d]}
      BY <1>3, <2>1, <2>2 DEF Granted, CountGrant
    <2> QED BY <1>3, <2>2, <2>3 DEF Promised!Credit
  <1> QED BY <1>4, <1>5

\* A job sets the allowance in one of its steps.
LEMMA JobRefines ==
    ASSUME IInv, NEW j \in Jobs, JobStep(j), UNCHANGED <<requestVars, grantVars>>
    PROVE  \/ Promised!Renew(j)
           \/ UNCHANGED <<allowance, purchased, Paid, Outcome, Granted>>
  <1>1. UNCHANGED <<Paid, Outcome, Granted>>
    BY DEF Paid, Outcome, Granted, requestVars, grantVars
  <1> QED
    BY <1>1 DEF JobStep, JobReads, JobWrites, JobLogs, RowUntouched, LogUsage, rowVars,
                SetAllowance, Promised!Renew

\* A doubt is never dispelled.
LEMMA DoubtStays ==
    ASSUME IInv, Next, Doubt
    PROVE  Doubt'
  <1> USE DEF IInv, TypeOK
  <1>1. faults' >= faults /\ UNCHANGED rpcDeployed
    <2>1. ASSUME NEW r \in Requests, Charge(r) PROVE faults' >= faults /\ UNCHANGED rpcDeployed
      BY <2>1, RequestFrame DEF Charge
    <2>2. ASSUME NEW o \in orphans, LateCharge(o) PROVE faults' >= faults /\ UNCHANGED rpcDeployed
      BY <2>2 DEF LateCharge, OrphanCommits, Answered, AtomicDeduct, BalanceTypeOK
    <2>3. ASSUME NEW d, Grant(d) \/ LateGrant(d) PROVE faults' >= faults /\ UNCHANGED rpcDeployed
      BY <2>3 DEF Grant, LateGrant, GrantStep, GrantRpc, GrantUnanswered, GrantReads, GrantUpdates,
                  GrantLogs, OrphanGrants, Answered, Lose, AtomicGrant, AtomicAdd, RowUntouched,
                  BlindAdd, BalanceTypeOK
    <2>4. ASSUME NEW j, ChangeAllowance(j) PROVE faults' >= faults /\ UNCHANGED rpcDeployed
      BY <2>4 DEF ChangeAllowance, JobStep, JobReads, JobWrites, JobLogs, Answered, Lose, LogTries,
                  RowUntouched, SetAllowance, LogUsage, BalanceTypeOK
    <2> QED BY <2>1, <2>2, <2>3, <2>4 DEF Next
  <1>2. \A d \in Deliveries : gpc[d] /= "call" => gpc'[d] /= "call"
    <2>1. ASSUME NEW e \in Deliveries, GrantStep(e) \/ OrphanGrants(e)
          PROVE  \A d \in Deliveries : gpc[d] /= "call" => gpc'[d] /= "call"
      BY <2>1 DEF GrantStep, GrantRpc, GrantUnanswered, GrantReads, GrantUpdates, GrantLogs,
                  OrphanGrants, GrantGoto, GrantTypeOK
    <2>2. gorphans \subseteq Deliveries
      BY DEF GrantTypeOK
    <2> QED
      BY <2>1, <2>2 DEF Next, Grant, LateGrant, Charge, LateCharge, ChangeAllowance, grantVars
  <1>3. faults \in Nat /\ faults' \in Nat
    BY TypeStep DEF BalanceTypeOK
  <1> QED BY <1>1, <1>2, <1>3 DEF Doubt

LEMMA AccountStep ==
    IInv /\ [Next]_vars => [Doubt' \/ (~Doubt /\ Promised!Next)]_(Promised!vars)
  <1> SUFFICES ASSUME IInv, [Next]_vars, ~Doubt'
               PROVE  (~Doubt /\ Promised!Next) \/ UNCHANGED Promised!vars
    OBVIOUS
  <1> USE DEF Promised!vars
  <1>1. CASE UNCHANGED vars
    BY <1>1 DEF vars, balanceVars, rowVars, requestVars, grantVars, Paid, Outcome, Granted, Doubt
  <1>2. CASE Next
    <2>0. ~Doubt
      BY <1>2, DoubtStays
    <2>1. ~Doubt /\ UNCHANGED Doubt
      <3>1. Doubt \in BOOLEAN /\ Doubt' \in BOOLEAN
        BY DEF Doubt
      <3> QED BY <2>0, <3>1
    <2>2. ASSUME NEW r \in Requests, Charge(r)
          PROVE  Promised!Next \/ UNCHANGED <<allowance, purchased, Paid, Outcome, Granted>>
      <3>1. faults' \in Nat /\ ~(faults' > 0)
        BY <2>2, RequestFrame DEF Charge, Doubt, IInv
      <3> QED BY <2>2, <3>1, RequestRefines DEF Charge, Promised!Next
    <2>3. ~\E o \in orphans : LateCharge(o)
      BY <2>1 DEF Doubt, IInv, FaultsExplain
    <2>4. ASSUME NEW d \in Deliveries, Grant(d) \/ LateGrant(d)
          PROVE  Promised!Next \/ UNCHANGED <<allowance, purchased, Paid, Outcome, Granted>>
      BY <2>4, GrantRefines DEF Grant, LateGrant, Promised!Next
    <2>5. ASSUME NEW j \in Jobs, ChangeAllowance(j)
          PROVE  Promised!Next \/ UNCHANGED <<allowance, purchased, Paid, Outcome, Granted>>
      BY <2>5, JobRefines DEF ChangeAllowance, Promised!Next
    <2>6. gorphans \subseteq Deliveries
      BY DEF IInv, TypeOK, GrantTypeOK
    <2> QED
      BY <1>2, <2>1, <2>2, <2>3, <2>4, <2>5, <2>6 DEF Next
  <1> QED BY <1>1, <1>2

\* Charges, grants and allowance changes, each of several statements, come to
\* the same as single atomic ones until a storage call fails or a grant runs
\* without its stored procedure.
THEOREM BillingRefinesAccount == Spec => ImplementsAccount
  <1>1. Spec => [][Doubt' \/ (~Doubt /\ Promised!Next)]_(Promised!vars)
    BY AccountStep, Invariance, PTL DEF Spec
  <1>2. Spec => Promised!Init
    BY AccountInit DEF Spec
  <1> QED BY <1>1, <1>2 DEF ImplementsAccount, Promised!Spec

=============================================================================
