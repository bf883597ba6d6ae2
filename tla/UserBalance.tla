---------------------------- MODULE UserBalance ----------------------------
(***************************************************************************)
(* One user's row of the `users` table and the rows of                     *)
(* `credit_transactions` that carry an idempotency key, with the database  *)
(* operations the billing code performs on them.  Every operator below is  *)
(* one statement or one stored procedure: PostgreSQL runs it atomically,   *)
(* so it is one conjunct of an action of the modules that extend this one. *)
(*                                                                         *)
(* Money is counted in whole units.  The last group of variables is        *)
(* history that no code reads: it is there for the properties.             *)
(***************************************************************************)
EXTENDS Integers

CONSTANTS
    InitAllowance,   \* users.subscription_allowance at the start
    InitPurchased,   \* users.purchased_credits at the start
    MaxFaults        \* bound on storage calls that fail or lose their reply

ASSUME BalanceAssumption ==
    /\ InitAllowance \in Nat
    /\ InitPurchased \in Nat
    /\ MaxFaults \in Nat

VARIABLES
    allowance,    \* users.subscription_allowance
    purchased,    \* users.purchased_credits
    keys,         \* values of credit_transactions.request_id
    usedToday,    \* sum of today's negative amounts in credit_transactions
    rpcDeployed,  \* whether the stored procedures exist in this database
    faults,       \* storage calls that have failed or lost their reply
    credited,     \* history: money ever put into the account
    debited,      \* history: money ever taken out of it
    overwritten,  \* history: blind writes over a row changed since it was read
    plan          \* history: the allowance last granted by a subscription

rowVars     == <<allowance, purchased>>
historyVars == <<credited, debited, overwritten, plan>>
balanceVars == <<rowVars, keys, usedToday, rpcDeployed, faults, historyVars>>

Row == [a |-> allowance, p |-> purchased]

Balances == [a : Int, p : Int]

BalanceTypeOK ==
    /\ Row \in Balances
    /\ usedToday \in Int
    /\ rpcDeployed \in BOOLEAN
    /\ faults \in 0..MaxFaults
    /\ credited \in Int
    /\ debited \in Int
    /\ overwritten \in Nat
    /\ plan \in Int

BalanceInit ==
    /\ allowance = InitAllowance
    /\ purchased = InitPurchased
    /\ keys = {}
    /\ usedToday = 0
    /\ rpcDeployed \in BOOLEAN
    /\ faults = 0
    /\ credited = InitAllowance + InitPurchased
    /\ debited = 0
    /\ overwritten = 0
    /\ plan = InitAllowance

-----------------------------------------------------------------------------

\* A storage call answers, or `n` of them fail or lose their reply.
Lose(n) == faults + n <= MaxFaults /\ faults' = faults + n

Answered == faults' = faults

\* The part of `cost` paid from the allowance of balances `b`, the rest from
\* its purchased credits: allowance first.
Split(b, cost) ==
    LET fromAllowance == IF b.a <= cost THEN b.a ELSE cost
    IN  [a |-> fromAllowance, p |-> cost - fromAllowance]

\* Mutant: only the total is checked.
CoversTotalOnly(b, part) == part.a + part.p <= b.a + b.p

\* atomic_deduct_credits checks the total and then each component.
Covers(b, part) == part.a <= b.a /\ part.p <= b.p

Minus(b, part) == [a |-> b.a - part.a, p |-> b.p - part.p]

SetRow(b) == allowance' = b.a /\ purchased' = b.p

\* The UPDATE and the INSERT of atomic_deduct_credits, one transaction.
AtomicDeduct(part) ==
    /\ Covers(Row, part)
    /\ SetRow(Minus(Row, part))
    /\ debited' = debited + part.a + part.p
    /\ usedToday' = usedToday + part.a + part.p
    /\ UNCHANGED <<keys, rpcDeployed, credited, overwritten, plan>>

\* Mutant: only purchased_credits is compared with the value read.
OptimisticDebitOnPurchased(read, part) ==
    /\ purchased = read.p
    /\ SetRow(Minus(read, part))
    /\ debited' = debited + part.a + part.p
    /\ UNCHANGED <<keys, usedToday, rpcDeployed, credited, overwritten, plan>>

\* Mutant: only allowance is compared with the value read.
OptimisticDebitOnAllowance(read, part) ==
    /\ allowance = read.a
    /\ SetRow(Minus(read, part))
    /\ debited' = debited + part.a + part.p
    /\ UNCHANGED <<keys, usedToday, rpcDeployed, credited, overwritten, plan>>

\* The optimistic UPDATE of the legacy path: both columns must still hold the
\* values that were read.
OptimisticDebit(read, part) ==
    /\ Row = read
    /\ SetRow(Minus(read, part))
    /\ debited' = debited + part.a + part.p
    /\ UNCHANGED <<keys, usedToday, rpcDeployed, credited, overwritten, plan>>

\* The rollback of the legacy path writes the balances that were read back
\* over whatever the row holds by now.
BlindRestore(read, part) ==
    /\ SetRow(read)
    /\ debited' = debited - part.a - part.p
    /\ overwritten' = overwritten + IF Row = Minus(read, part) THEN 0 ELSE 1
    /\ UNCHANGED <<keys, usedToday, rpcDeployed, credited, plan>>

\* Mutant: the ledger row is inserted without its request_id.
AtomicAddUnkeyed(key, amount) ==
    /\ \/ key \in keys /\ UNCHANGED <<purchased, credited>>
       \/ /\ key \notin keys
          /\ purchased' = purchased + amount
          /\ credited' = credited + amount
    /\ UNCHANGED <<allowance, keys, usedToday, rpcDeployed, debited, overwritten, plan>>

\* atomic_add_credits: the key is looked up, the grant applied and the keyed
\* row inserted under the row lock.
AtomicAdd(key, amount) ==
    /\ \/ /\ key \in keys
          /\ UNCHANGED <<purchased, keys, credited>>
       \/ /\ key \notin keys
          /\ purchased' = purchased + amount
          /\ keys' = keys \union {key}
          /\ credited' = credited + amount
    /\ UNCHANGED <<allowance, usedToday, rpcDeployed, debited, overwritten, plan>>

\* The legacy grant writes purchased_credits computed from an earlier read.
BlindAdd(read, amount) ==
    /\ purchased' = read.p + amount
    /\ credited' = credited + amount
    /\ overwritten' = overwritten + IF purchased = read.p THEN 0 ELSE 1
    /\ UNCHANGED <<allowance, keys, usedToday, rpcDeployed, debited, plan>>

\* A renewal or a cancellation sets the allowance whatever it was.
SetAllowance(amount) ==
    /\ allowance' = amount
    /\ credited' = credited + amount
    /\ debited' = debited + allowance
    /\ plan' = amount
    /\ UNCHANGED <<purchased, keys, usedToday, rpcDeployed, overwritten>>

\* log_credit_transaction tries an insert max_retries + 1 times.
LogTries == 3

\* The rows it may have left when `lost` of the tries failed or lost their
\* reply: an insert whose reply was lost may have happened.
RowsLogged(lost) ==
    IF lost = 0 THEN {1} ELSE 0..(IF lost < LogTries THEN lost + 1 ELSE lost)

\* `n` unkeyed rows of `amount` negative credits are inserted.
LogUsage(amount, n) ==
    /\ usedToday' = usedToday + n * amount
    /\ UNCHANGED <<rowVars, keys, rpcDeployed, historyVars>>

RowUntouched == UNCHANGED <<rowVars, keys, usedToday, rpcDeployed, historyVars>>

=============================================================================
