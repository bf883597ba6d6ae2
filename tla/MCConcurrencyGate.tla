------------------------- MODULE MCConcurrencyGate -------------------------
(***************************************************************************)
(* Small instances of ConcurrencyGate for TLC.  Every run checks liveness  *)
(* or an action property, so the clients are not declared symmetric.       *)
(***************************************************************************)
EXTENDS ConcurrencyGate

CONSTANTS c1, c2, c3, c4, c5

FiveClients == {c1, c2, c3, c4, c5}
OneClient == {c1}

=============================================================================
