---------------------------- MODULE CreditGrant ----------------------------
(***************************************************************************)
(* add_credits_to_user of db/users.py: a payment is turned into purchased  *)
(* credits.  Stripe may deliver the event of one payment several times and *)
(* two workers may run the grant at once; every delivery of a payment      *)
(* carries the payment's key as its request_id.                            *)
(***************************************************************************)
EXTENDS UserBalance

CONSTANTS
    Deliveries,  \* calls of add_credits_to_user
    Key,         \* the idempotency key of each
    Amount       \* the credits each adds

ASSUME GrantAssumption == Amount \in [Deliveries -> Nat \ {0}]

Keys == {Key[d] : d \in Deliveries}

VARIABLES
    gpc,      \* where each delivery is
    gread,    \* balances the legacy path read
    gorphans, \* atomic_add_credits calls whose caller has given up
    grants    \* history: times each key has been granted

grantVars == <<gpc, gread, gorphans, grants>>

GrantPCs == {"call", "read", "update", "log", "done", "failed"}

GrantTypeOK ==
    /\ gpc \in [Deliveries -> GrantPCs]
    /\ gread \in [Deliveries -> Balances]
    /\ gorphans \subseteq Deliveries
    /\ grants \in [Keys -> Nat]
    /\ keys \subseteq Keys

GrantInit ==
    /\ gpc = [d \in Deliveries |-> "call"]
    /\ gread = [d \in Deliveries |-> [a |-> 0, p |-> 0]]
    /\ gorphans = {}
    /\ grants = [k \in Keys |-> 0]

-----------------------------------------------------------------------------

GrantGoto(d, label) == gpc' = [gpc EXCEPT ![d] = label]

CountGrant(d) == grants' = [grants EXCEPT ![Key[d]] = @ + 1]

\* The stored procedure grants, or finds the key and grants nothing.
AtomicGrant(d) ==
    /\ AtomicAdd(Key[d], Amount[d])
    /\ IF Key[d] \in keys THEN UNCHANGED grants ELSE CountGrant(d)

GrantRpc(d) ==
    /\ gpc[d] = "call"
    /\ rpcDeployed
    /\ AtomicGrant(d)
    /\ Answered
    /\ GrantGoto(d, "done")
    /\ UNCHANGED <<gread, gorphans>>

\* Any exception of the call, a timeout included, selects the legacy path; the
\* call may still commit in the database.
GrantUnanswered(d) ==
    /\ gpc[d] = "call"
    /\ \/ ~rpcDeployed /\ Answered /\ UNCHANGED gorphans
       \/ rpcDeployed /\ Lose(1) /\ gorphans' = gorphans \union {d}
    /\ GrantGoto(d, "read")
    /\ RowUntouched
    /\ UNCHANGED <<gread, grants>>

OrphanGrants(d) ==
    /\ d \in gorphans
    /\ gorphans' = gorphans \ {d}
    /\ AtomicGrant(d)
    /\ Answered
    /\ UNCHANGED <<gpc, gread>>

GrantReads(d) ==
    /\ gpc[d] = "read"
    /\ \/ /\ Answered
          /\ gread' = [gread EXCEPT ![d] = Row]
          /\ GrantGoto(d, "update")
       \/ /\ Lose(1)
          /\ UNCHANGED gread
          /\ GrantGoto(d, "failed")
    /\ RowUntouched
    /\ UNCHANGED <<gorphans, grants>>

\* The balance read is overwritten whatever it is by now, and before the key
\* is written.
GrantUpdates(d) ==
    /\ gpc[d] = "update"
    /\ \/ /\ BlindAdd(gread[d], Amount[d])
          /\ CountGrant(d)
          /\ \/ Answered /\ GrantGoto(d, "log")
             \/ Lose(1) /\ GrantGoto(d, "failed")
       \/ /\ Lose(1)
          /\ GrantGoto(d, "failed")
          /\ RowUntouched
          /\ UNCHANGED grants
    /\ UNCHANGED <<gread, gorphans>>

\* The unique index rejects a key that is there; add_credits_to_user ignores
\* what log_credit_transaction returns.
GrantLogs(d) ==
    /\ gpc[d] = "log"
    /\ \/ (Answered \/ Lose(1)) /\ keys' = keys \union {Key[d]}
       \/ Lose(1) /\ UNCHANGED keys
    /\ GrantGoto(d, "done")
    /\ UNCHANGED <<rowVars, usedToday, rpcDeployed, historyVars>>
    /\ UNCHANGED <<gread, gorphans, grants>>

GrantStep(d) ==
    \/ GrantRpc(d)
    \/ GrantUnanswered(d)
    \/ GrantReads(d)
    \/ GrantUpdates(d)
    \/ GrantLogs(d)

=============================================================================
