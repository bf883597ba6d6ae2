--------------------------- MODULE AllowanceJobs ---------------------------
(***************************************************************************)
(* reset_subscription_allowance and forfeit_subscription_allowance of      *)
(* db/users.py, run by the handlers of Stripe's subscription events.  Both *)
(* read the row, set the allowance whatever it is by then, and log what    *)
(* they read.                                                              *)
(***************************************************************************)
EXTENDS UserBalance

CONSTANTS
    Jobs,   \* calls of the two functions
    Tier    \* the allowance each sets; 0 is a forfeiture

ASSUME JobAssumption == Tier \in [Jobs -> Nat]

VARIABLES
    jpc,    \* where each job is
    stale   \* the allowance it read

jobVars == <<jpc, stale>>

JobPCs == {"read", "write", "log", "done", "failed"}

JobTypeOK ==
    /\ jpc \in [Jobs -> JobPCs]
    /\ stale \in [Jobs -> Int]

JobInit ==
    /\ jpc = [j \in Jobs |-> "read"]
    /\ stale = [j \in Jobs |-> 0]

-----------------------------------------------------------------------------

Forfeits(j) == Tier[j] = 0

JobGoto(j, label) == jpc' = [jpc EXCEPT ![j] = label]

\* A forfeiture of nothing returns at once; a failed read ends either job.
JobReads(j) ==
    /\ jpc[j] = "read"
    /\ \/ /\ Answered
          /\ stale' = [stale EXCEPT ![j] = allowance]
          /\ JobGoto(j, IF Forfeits(j) /\ allowance = 0 THEN "done" ELSE "write")
       \/ /\ Lose(1)
          /\ UNCHANGED stale
          /\ JobGoto(j, "failed")
    /\ RowUntouched

JobWrites(j) ==
    /\ jpc[j] = "write"
    /\ \/ /\ SetAllowance(Tier[j])
          /\ \/ Answered /\ JobGoto(j, "log")
             \/ Lose(1) /\ JobGoto(j, "failed")
       \/ /\ Lose(1)
          /\ RowUntouched
          /\ JobGoto(j, "failed")
    /\ UNCHANGED stale

\* The row of a forfeiture is negative, so the daily limit counts it as usage;
\* the row of a reset is positive.  Neither function looks at the outcome.
JobLogs(j) ==
    /\ jpc[j] = "log"
    /\ \E lost \in 0..LogTries : \E n \in RowsLogged(lost) :
          Lose(lost) /\ LogUsage(IF Forfeits(j) THEN stale[j] ELSE 0, n)
    /\ JobGoto(j, "done")
    /\ UNCHANGED stale

JobStep(j) == JobReads(j) \/ JobWrites(j) \/ JobLogs(j)

=============================================================================
