---------------------------- MODULE AccountTypes ----------------------------
(***************************************************************************)
(* Types of the account: every database operation of UserBalance, every    *)
(* step of a grant and every step of an allowance job keeps them.  The     *)
(* proofs about the modules that compose these rest on the lemmas here.    *)
(***************************************************************************)
EXTENDS CreditGrant, AllowanceJobs, TLAPS

USE BalanceAssumption, GrantAssumption, JobAssumption

\* Each database operation keeps the types of the row and of the ledger.
LEMMA RowTypes ==
    ASSUME BalanceTypeOK, Answered \/ \E n \in Nat : Lose(n)
    PROVE  /\ faults' \in 0..MaxFaults
           /\ RowUntouched => BalanceTypeOK'
           /\ \A part \in Balances : AtomicDeduct(part) => BalanceTypeOK'
           /\ \A b \in Balances, part \in Balances :
                 OptimisticDebit(b, part) \/ BlindRestore(b, part) => BalanceTypeOK'
           /\ \A amount \in Int, n \in Int : LogUsage(amount, n) => BalanceTypeOK'
           /\ \A amount \in Int : SetAllowance(amount) => BalanceTypeOK'
           /\ \A key : \A amount \in Int : AtomicAdd(key, amount) => BalanceTypeOK'
           /\ \A b \in Balances, amount \in Int : BlindAdd(b, amount) => BalanceTypeOK'
  <1> USE DEF BalanceTypeOK, Balances, Row, rowVars, historyVars
  <1>1. faults' \in 0..MaxFaults
    BY DEF Answered, Lose
  <1>2. RowUntouched => BalanceTypeOK'
    BY <1>1 DEF RowUntouched
  <1>3. ASSUME NEW part \in Balances, AtomicDeduct(part) PROVE BalanceTypeOK'
    BY <1>1, <1>3 DEF AtomicDeduct, SetRow, Minus
  <1>4. ASSUME NEW b \in Balances, NEW part \in Balances,
               OptimisticDebit(b, part) \/ BlindRestore(b, part)
        PROVE  BalanceTypeOK'
    BY <1>1, <1>4 DEF OptimisticDebit, BlindRestore, SetRow, Minus
  <1>5. ASSUME NEW amount \in Int, NEW n \in Int, LogUsage(amount, n) PROVE BalanceTypeOK'
    BY <1>1, <1>5 DEF LogUsage
  <1>6. ASSUME NEW amount \in Int, SetAllowance(amount) PROVE BalanceTypeOK'
    BY <1>1, <1>6 DEF SetAllowance
  <1>7. ASSUME NEW key, NEW amount \in Int, AtomicAdd(key, amount) PROVE BalanceTypeOK'
    BY <1>1, <1>7 DEF AtomicAdd
  <1>8. ASSUME NEW b \in Balances, NEW amount \in Int, BlindAdd(b, amount)
        PROVE  BalanceTypeOK'
    BY <1>1, <1>8 DEF BlindAdd
  <1> QED BY <1>1, <1>2, <1>3, <1>4, <1>5, <1>6, <1>7, <1>8

\* The stored procedure keeps the types, and writes no foreign key.
LEMMA AtomicGrantTypes ==
    ASSUME BalanceTypeOK, GrantTypeOK, NEW d \in Deliveries, Answered, AtomicGrant(d)
    PROVE  /\ BalanceTypeOK'
           /\ grants' \in [Keys -> Nat]
           /\ keys' \subseteq Keys
  <1>1. Key[d] \in Keys /\ Amount[d] \in Int
    BY DEF Keys
  <1>2. BalanceTypeOK'
    BY <1>1, RowTypes DEF AtomicGrant
  <1>3. keys' \subseteq Keys
    BY <1>1 DEF AtomicGrant, AtomicAdd, GrantTypeOK
  <1>4. grants' \in [Keys -> Nat]
    BY <1>1 DEF AtomicGrant, CountGrant, GrantTypeOK
  <1> QED
    BY <1>2, <1>3, <1>4

\* A step of a grant keeps the types.
LEMMA GrantTypeStep ==
    ASSUME BalanceTypeOK, GrantTypeOK, NEW d \in Deliveries, GrantStep(d) \/ OrphanGrants(d)
    PROVE  BalanceTypeOK' /\ GrantTypeOK'
  <1> USE DEF GrantTypeOK, GrantGoto, GrantPCs
  <1>0. /\ Key[d] \in Keys
        /\ Amount[d] \in Int
        /\ gread[d] \in Balances
        /\ Row \in Balances
    BY DEF Keys, BalanceTypeOK
  <1>1. CASE GrantRpc(d)
    BY <1>1, AtomicGrantTypes DEF GrantRpc
  <1>2. CASE GrantUnanswered(d)
    BY <1>2, RowTypes DEF GrantUnanswered, RowUntouched
  <1>3. CASE GrantReads(d)
    <2>1. GrantTypeOK'
      BY <1>0, <1>3 DEF GrantReads, RowUntouched
    <2> QED BY <1>3, <2>1, RowTypes DEF GrantReads
  <1>4. CASE GrantUpdates(d)
    <2>1. GrantTypeOK'
      BY <1>0, <1>4 DEF GrantUpdates, BlindAdd, RowUntouched, CountGrant
    <2> QED BY <1>0, <1>4, <2>1, RowTypes DEF GrantUpdates
  <1>5. CASE GrantLogs(d)
    <2>1. GrantTypeOK'
      BY <1>0, <1>5 DEF GrantLogs
    <2> QED
      BY <1>5, <2>1, RowTypes DEF GrantLogs, BalanceTypeOK, Row, rowVars, historyVars
  <1>6. CASE OrphanGrants(d)
    BY <1>6, AtomicGrantTypes DEF OrphanGrants
  <1> QED
    BY <1>1, <1>2, <1>3, <1>4, <1>5, <1>6 DEF GrantStep

\* A step of an allowance job keeps the types and writes no grant key.
LEMMA JobTypeStep ==
    ASSUME BalanceTypeOK, JobTypeOK, NEW j \in Jobs, JobStep(j)
    PROVE  BalanceTypeOK' /\ JobTypeOK' /\ UNCHANGED keys
  <1> USE DEF JobTypeOK, JobGoto, JobPCs
  <1>0. allowance \in Int /\ Tier[j] \in Int /\ stale[j] \in Int
    BY DEF BalanceTypeOK, Row, Balances
  <1>1. CASE JobReads(j)
    <2>1. JobTypeOK'
      BY <1>0, <1>1 DEF JobReads
    <2> QED BY <1>1, <2>1, RowTypes DEF JobReads, RowUntouched
  <1>2. CASE JobWrites(j)
    <2>1. JobTypeOK'
      BY <1>2 DEF JobWrites
    <2> QED BY <1>0, <1>2, <2>1, RowTypes DEF JobWrites, RowUntouched, SetAllowance
  <1>3. CASE JobLogs(j)
    <2>1. JobTypeOK'
      BY <1>3 DEF JobLogs
    <2>2. PICK lost \in 0..LogTries : \E n \in RowsLogged(lost) :
             Lose(lost) /\ LogUsage(IF Forfeits(j) THEN stale[j] ELSE 0, n)
      BY <1>3 DEF JobLogs
    <2>3. PICK n \in Int : Lose(lost) /\ LogUsage(IF Forfeits(j) THEN stale[j] ELSE 0, n)
      BY <2>2 DEF RowsLogged, LogTries
    <2>4. BalanceTypeOK'
      BY <1>0, <2>3, RowTypes DEF LogTries
    <2> QED BY <2>1, <2>3, <2>4 DEF LogUsage
  <1> QED
    BY <1>1, <1>2, <1>3 DEF JobStep

=============================================================================
