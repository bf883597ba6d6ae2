-------------------------- MODULE MCRateLimitSlots --------------------------
(***************************************************************************)
(* Small instances of RateLimitSlots for TLC.                              *)
(***************************************************************************)
EXTENDS RateLimitSlots

CONSTANTS r1, r2, r3, r4

AllRequests == {r1, r2, r3, r4}
Streams == {r3, r4}

=============================================================================
