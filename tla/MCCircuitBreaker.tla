-------------------------- MODULE MCCircuitBreaker --------------------------
(***************************************************************************)
(* Small instances of CircuitBreaker for TLC.                              *)
(***************************************************************************)
EXTENDS CircuitBreaker

CONSTANTS w1, w2

OneProcess == {w1}
TwoProcesses == {w1, w2}

=============================================================================
