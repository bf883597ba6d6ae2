----------------------------- MODULE Admission -----------------------------
(***************************************************************************)
(* What an admission gate promises, whatever it is made of: no more than   *)
(* Limit clients are served at a time, and whoever asks is served or       *)
(* turned away in the end, also when nobody who is served ever departs.    *)
(***************************************************************************)
EXTENDS Integers, FiniteSets

CONSTANTS Clients, Limit

VARIABLE status

Served == {c \in Clients : status[c] = "served"}

Init == status = [c \in Clients |-> "away"]

Become(c, next) == status' = [status EXCEPT ![c] = next]

Ask(c) == status[c] = "away" /\ Become(c, "waiting")

TurnAway(c) == status[c] = "waiting" /\ Become(c, "away")

Serve(c) ==
    /\ status[c] = "waiting"
    /\ Cardinality(Served) < Limit
    /\ Become(c, "served")

Depart(c) == status[c] = "served" /\ Become(c, "away")

Next == \E c \in Clients : Ask(c) \/ TurnAway(c) \/ Serve(c) \/ Depart(c)

SafeSpec == Init /\ [][Next]_status

Spec == SafeSpec /\ \A c \in Clients : WF_status(TurnAway(c) \/ Serve(c))

=============================================================================
