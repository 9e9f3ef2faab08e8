---------------------------- MODULE MCPhoneBook ----------------------------
(***************************************************************************)
(* Model checking of PhoneBook: two contacts, so that there is a wrong one *)
(* to change, a field with an editor and one without, names on both sides  *)
(* of "unnamed", and ids for two saves.                                    *)
(***************************************************************************)
EXTENDS PhoneBook

MCFields == {"name", "picture"}
MCShown == {"name"}
MCTexts == {1, 3}
MCBlank == 2

ASSUME TwoSaves == MaxId >= Initial + 2
=============================================================================
