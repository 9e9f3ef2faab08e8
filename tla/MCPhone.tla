------------------------------- MODULE MCPhone -------------------------------
(***************************************************************************)
(* Model checking of Phone: the two call slots of cfg.max_calls, two       *)
(* registrars, and an account table with room for one more account than    *)
(* the code ever keeps.                                                    *)
(***************************************************************************)
EXTENDS Phone, FiniteSets

MCDomains == {"sip.one", "sip.two"}

ASSUME TwoSlots == Cardinality(Calls) = 2
=============================================================================
