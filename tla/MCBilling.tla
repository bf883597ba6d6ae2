----------------------------- MODULE MCBilling -----------------------------
(***************************************************************************)
(* Small instances of Billing for TLC.  An instance is a choice of the     *)
(* actors, made in the .cfg; the functions over them are defined here.     *)
(***************************************************************************)
EXTENDS Billing

CONSTANTS chat, stream, first, again, cancel, planChange

BothRequests == {chat, stream}
ChatOnly == {chat}
NoActors == {}

MCStreaming == Requests \cap {stream}
\* Together the requests cost more than the account holds, and the first one
\* needs both columns.
MCCost == [r \in Requests |-> IF r = chat THEN 4 ELSE 2]

\* Two deliveries of one payment.
MCDeliveries == {first, again}
MCKey == [d \in Deliveries |-> "payment"]
MCAmount == [d \in Deliveries |-> 1]

Cancellation == {cancel}
PlanChange == {planChange}
MCTier == [j \in Jobs |-> IF j = cancel THEN 0 ELSE 1]

=============================================================================
