--------------------------- MODULE MCCallControl ---------------------------
(***************************************************************************)
(* Model checking of CallControl: two call slots, as cfg.max_calls says,   *)
(* and up to three accept queries open at once.                            *)
(***************************************************************************)
EXTENDS CallControl, FiniteSets

ASSUME TwoSlots == Cardinality(Calls) = 2
=============================================================================
