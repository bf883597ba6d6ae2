-------------------------- MODULE CreditDeduction --------------------------
(***************************************************************************)
(* How a chat request is served and charged: the provider loop of          *)
(* routes/chat_dispatch.py around ChatInferenceHandler, and deduct_credits *)
(* of db/users.py, which the handler runs once per attempt in a thread of  *)
(* its own.  Each database call is one action, so the deductions of        *)
(* concurrent requests of the user interleave between any two calls.       *)
(*                                                                         *)
(* deduct_credits is called without its `request_id` argument (the id is   *)
(* only an entry of the metadata), so its idempotency lookup is skipped    *)
(* and a new attempt carries a new id: neither is a step of this module.   *)
(***************************************************************************)
EXTENDS UserBalance

CONSTANTS
    Requests,      \* chat requests of the user
    Streaming,     \* those that asked for a stream
    Cost,          \* what a served attempt of each costs
    ChainLength,   \* providers in the failover chain
    DailyLimit     \* DAILY_USAGE_LIMIT

ASSUME RequestAssumption ==
    /\ Streaming \subseteq Requests
    /\ Cost \in [Requests -> Nat]
    /\ ChainLength \in Nat \ {0}
    /\ DailyLimit \in Nat

VARIABLES
    pc,        \* where each request is
    attempt,   \* index of the provider being tried
    snap,      \* balances deduct_credits read from the database
    orphans,   \* atomic_deduct_credits calls whose caller has given up
    cause,     \* why the last failed attempt of each request failed
    debits,    \* history: debits of the request that stand
    unacked,   \* history: those its attempts did not learn of
    rows,      \* history: ledger rows of the request
    escaped    \* history: debits a fault left without a ledger row

requestVars == <<pc, attempt, snap, orphans, cause, debits, unacked, rows, escaped>>

Terminal == {"ok", "failed", "dropped"}

PCs == {"provider", "streaming", "read", "limit", "rpc", "legacy", "log",
        "rollback"} \union Terminal

Causes == {"none", "provider", "rejected", "stream", "limit", "funds", "split", "conflict",
           "fault"}

Orphans == [req : Requests, try : 1..ChainLength, part : Balances]

RequestTypeOK ==
    /\ pc \in [Requests -> PCs]
    /\ attempt \in [Requests -> 1..ChainLength]
    /\ snap \in [Requests -> Balances]
    /\ orphans \subseteq Orphans
    /\ cause \in [Requests -> Causes]
    /\ debits \in [Requests -> Int]
    /\ unacked \in [Requests -> Nat]
    /\ rows \in [Requests -> Nat]
    /\ escaped \in [Requests -> Nat]

RequestInit ==
    /\ pc = [r \in Requests |-> "provider"]
    /\ attempt = [r \in Requests |-> 1]
    /\ snap = [r \in Requests |-> [a |-> 0, p |-> 0]]
    /\ orphans = {}
    /\ cause = [r \in Requests |-> "none"]
    /\ debits = [r \in Requests |-> 0]
    /\ unacked = [r \in Requests |-> 0]
    /\ rows = [r \in Requests |-> 0]
    /\ escaped = [r \in Requests |-> 0]

-----------------------------------------------------------------------------

Goto(r, label) == pc' = [pc EXCEPT ![r] = label]

Add(f, r, n) == [f EXCEPT ![r] = @ + n]

\* The parts of the balance this attempt set out to take.
Part(r) == Split(snap[r], Cost[r])

\* Mutant: one provider too many.
FailsOverPastTheChain(r) == r \notin Streaming /\ attempt[r] <= ChainLength

\* The loop of dispatch_non_streaming tries the next provider whatever part of
\* handler.process raised, the charge included: every error of deduct_credits
\* is a RuntimeError, which map_provider_error turns into a 502.  The SSE
\* adapter of a streamed request catches the error instead and ends the
\* stream, so the loop of dispatch_streaming never sees it.
FailsOver(r) == r \notin Streaming /\ attempt[r] < ChainLength

\* Mutant: the same provider is tried again.
AttemptFailsInPlace(r, why) ==
    /\ cause' = [cause EXCEPT ![r] = why]
    /\ Goto(r, IF FailsOver(r) THEN "provider" ELSE "failed")
    /\ UNCHANGED attempt

AttemptFails(r, why) ==
    /\ cause' = [cause EXCEPT ![r] = why]
    /\ IF FailsOver(r)
       THEN attempt' = Add(attempt, r, 1) /\ Goto(r, "provider")
       ELSE Goto(r, "failed") /\ UNCHANGED attempt

\* The provider answers; a streamed answer is relayed before it is charged.
ProviderServes(r) ==
    /\ pc[r] = "provider"
    /\ Goto(r, IF r \in Streaming THEN "streaming" ELSE "read")
    /\ Answered /\ RowUntouched
    /\ UNCHANGED <<attempt, snap, orphans, cause, debits, unacked, rows, escaped>>

\* The pre-flight credit check or the provider refuses.  A status outside
\* FAILOVER_STATUS_CODES, a 429 say, rejects the request on the spot.
ProviderFails(r) ==
    /\ pc[r] = "provider"
    /\ \/ AttemptFails(r, "provider")
       \/ /\ Goto(r, "failed")
          /\ cause' = [cause EXCEPT ![r] = "rejected"]
          /\ UNCHANGED attempt
    /\ Answered /\ RowUntouched
    /\ UNCHANGED <<snap, orphans, debits, unacked, rows, escaped>>

\* The stream ends, or the client is seen to be gone between two chunks: what
\* was generated is charged.
StreamEnds(r) ==
    /\ pc[r] = "streaming"
    /\ Goto(r, "read")
    /\ Answered /\ RowUntouched
    /\ UNCHANGED <<attempt, snap, orphans, cause, debits, unacked, rows, escaped>>

\* The provider breaks the stream off: nothing is charged, and the client gets
\* an error chunk.
StreamBreaks(r) ==
    /\ pc[r] = "streaming"
    /\ Goto(r, "failed")
    /\ cause' = [cause EXCEPT ![r] = "stream"]
    /\ Answered /\ RowUntouched
    /\ UNCHANGED <<attempt, snap, orphans, debits, unacked, rows, escaped>>

\* The generator is closed while it waits in `yield`: GeneratorExit is not an
\* Exception, so process_stream neither charges nor records the request.
StreamDropped(r) ==
    /\ pc[r] = "streaming"
    /\ Goto(r, "dropped")
    /\ Answered /\ RowUntouched
    /\ UNCHANGED <<attempt, snap, orphans, cause, debits, unacked, rows, escaped>>

\* deduct_credits skips a charge below $0.000001 and otherwise reads both
\* balances.
ReadBalances(r) ==
    /\ pc[r] = "read"
    /\ \/ /\ Cost[r] = 0
          /\ Goto(r, "ok")
          /\ Answered
          /\ UNCHANGED <<attempt, snap, cause>>
       \/ /\ Cost[r] > 0
          /\ Goto(r, "limit")
          /\ snap' = [snap EXCEPT ![r] = Row]
          /\ Answered
          /\ UNCHANGED <<attempt, cause>>
       \/ /\ Cost[r] > 0
          /\ Lose(1)
          /\ AttemptFails(r, "fault")
          /\ UNCHANGED snap
    /\ RowUntouched
    /\ UNCHANGED <<orphans, debits, unacked, rows, escaped>>

\* The daily limit is checked against the ledger; a lookup that fails counts
\* as no usage.
CheckDailyLimit(r) ==
    /\ pc[r] = "limit"
    /\ \E used \in {0, usedToday} :
          /\ \/ used = usedToday /\ Answered
             \/ used = 0 /\ Lose(1)
          /\ \/ /\ used + Cost[r] <= DailyLimit
                /\ Goto(r, "rpc")
                /\ UNCHANGED <<attempt, cause>>
             \/ /\ used + Cost[r] > DailyLimit
                /\ AttemptFails(r, "limit")
    /\ RowUntouched
    /\ UNCHANGED <<snap, orphans, debits, unacked, rows, escaped>>

\* atomic_deduct_credits commits the debit and its ledger row.
RpcCommits(r) ==
    /\ pc[r] = "rpc"
    /\ rpcDeployed
    /\ AtomicDeduct(Part(r))
    /\ Answered
    /\ Goto(r, "ok")
    /\ debits' = Add(debits, r, 1)
    /\ rows' = Add(rows, r, 1)
    /\ UNCHANGED <<attempt, snap, orphans, cause, unacked, escaped>>

\* It refuses: the total is short, or only one component of the split that
\* was computed from the earlier read.
RpcRefuses(r) ==
    /\ pc[r] = "rpc"
    /\ rpcDeployed
    /\ ~Covers(Row, Part(r))
    /\ AttemptFails(r, IF allowance + purchased < Cost[r] THEN "funds" ELSE "split")
    /\ Answered /\ RowUntouched
    /\ UNCHANGED <<snap, orphans, debits, unacked, rows, escaped>>

\* It does not exist, fails, or does not answer in time: the legacy path is
\* taken, and a call that reached the database may still commit there.
RpcUnanswered(r) ==
    /\ pc[r] = "rpc"
    /\ \/ /\ ~rpcDeployed
          /\ Answered
          /\ UNCHANGED orphans
       \/ /\ rpcDeployed
          /\ Lose(1)
          /\ orphans' = orphans \union
                {[req |-> r, try |-> attempt[r], part |-> Part(r)]}
    /\ Goto(r, "legacy")
    /\ RowUntouched
    /\ UNCHANGED <<attempt, snap, cause, debits, unacked, rows, escaped>>

OrphanCommits(o) ==
    /\ o \in orphans
    /\ orphans' = orphans \ {o}
    /\ AtomicDeduct(o.part)
    /\ Answered
    /\ debits' = Add(debits, o.req, 1)
    /\ unacked' = Add(unacked, o.req, 1)
    /\ rows' = Add(rows, o.req, 1)
    /\ UNCHANGED <<pc, attempt, snap, cause, escaped>>

\* The legacy path rejects a balance that was short when it was read and
\* otherwise updates the row if neither column has changed.
LegacyRefuses(r) ==
    /\ pc[r] = "legacy"
    /\ \/ /\ snap[r].a + snap[r].p < Cost[r]
          /\ AttemptFails(r, "funds")
       \/ /\ snap[r].a + snap[r].p >= Cost[r]
          /\ Row /= snap[r]
          /\ AttemptFails(r, "conflict")
    /\ Answered /\ RowUntouched
    /\ UNCHANGED <<snap, orphans, debits, unacked, rows, escaped>>

LegacyDebits(r) ==
    /\ pc[r] = "legacy"
    /\ snap[r].a + snap[r].p >= Cost[r]
    /\ OptimisticDebit(snap[r], Part(r))
    /\ debits' = Add(debits, r, 1)
    /\ \/ /\ Answered
          /\ Goto(r, "log")
          /\ UNCHANGED <<attempt, cause, unacked, escaped>>
       \/ /\ Lose(1)
          /\ AttemptFails(r, "fault")
          /\ unacked' = Add(unacked, r, 1)
          /\ escaped' = Add(escaped, r, 1)
    /\ UNCHANGED <<snap, orphans, rows>>

\* The UPDATE fails without effect.
LegacyFails(r) ==
    /\ pc[r] = "legacy"
    /\ snap[r].a + snap[r].p >= Cost[r]
    /\ Lose(1)
    /\ AttemptFails(r, "fault")
    /\ RowUntouched
    /\ UNCHANGED <<snap, orphans, debits, unacked, rows, escaped>>

\* Mutant: a deduction that could not be logged is kept.
LegacyLogsOrCarriesOn(r) ==
    /\ pc[r] = "log"
    /\ \E lost \in 0..LogTries : \E wrote \in 0..lost :
          /\ Lose(lost)
          /\ \E n \in {wrote, wrote + 1} :
                /\ LogUsage(Cost[r], n)
                /\ rows' = Add(rows, r, n)
    /\ Goto(r, "ok")
    /\ UNCHANGED <<attempt, snap, orphans, cause, debits, unacked, escaped>>

\* log_credit_transaction answers None when its tries are used up or fail for
\* another reason than the connection.
LegacyLogs(r) ==
    /\ pc[r] = "log"
    /\ \E lost \in 0..LogTries : \E wrote \in 0..lost :
          /\ Lose(lost)
          /\ \/ /\ lost < LogTries
                /\ LogUsage(Cost[r], wrote + 1)
                /\ rows' = Add(rows, r, wrote + 1)
                /\ Goto(r, "ok")
             \/ /\ lost > 0
                /\ LogUsage(Cost[r], wrote)
                /\ rows' = Add(rows, r, wrote)
                /\ Goto(r, "rollback")
    /\ UNCHANGED <<attempt, snap, orphans, cause, debits, unacked, escaped>>

\* Mutant: the attempt fails and the row is left debited.
LegacyRaisesOnly(r) ==
    /\ pc[r] = "rollback"
    /\ Answered /\ RowUntouched
    /\ AttemptFails(r, "fault")
    /\ UNCHANGED <<snap, orphans, debits, unacked, rows, escaped>>

\* The row is put back as it was read.  The write may also fail, with or
\* without effect; every outcome is an error of the attempt.
LegacyRollsBack(r) ==
    /\ pc[r] = "rollback"
    /\ \/ /\ Answered \/ Lose(1)
          /\ BlindRestore(snap[r], Part(r))
          /\ debits' = Add(debits, r, -1)
          /\ UNCHANGED <<unacked, escaped>>
       \/ /\ Lose(1)
          /\ RowUntouched
          /\ unacked' = Add(unacked, r, 1)
          /\ escaped' = Add(escaped, r, 1)
          /\ UNCHANGED debits
    /\ AttemptFails(r, "fault")
    /\ UNCHANGED <<snap, orphans, rows>>

RequestStep(r) ==
    \/ ProviderServes(r)
    \/ ProviderFails(r)
    \/ StreamEnds(r)
    \/ StreamBreaks(r)
    \/ StreamDropped(r)
    \/ ReadBalances(r)
    \/ CheckDailyLimit(r)
    \/ RpcCommits(r)
    \/ RpcRefuses(r)
    \/ RpcUnanswered(r)
    \/ LegacyRefuses(r)
    \/ LegacyDebits(r)
    \/ LegacyFails(r)
    \/ LegacyLogs(r)
    \/ LegacyRollsBack(r)

=============================================================================
