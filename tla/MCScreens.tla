------------------------------ MODULE MCScreens ------------------------------
(***************************************************************************)
(* Model checking of Screens.  Two settings fields of two texts: a save    *)
(* can mix the old value of one with the new value of the other.  A log    *)
(* buffer of six characters: texts of up to four characters are stored,    *)
(* texts of five and six are refused, and there is enough text to fill the *)
(* buffer several times.                                                   *)
(***************************************************************************)
EXTENDS Screens

MCFields == {"registrar", "user"}
MCTexts == {"default", "one"}
MCDefault == "default"

ASSUME FillsTheBuffer == MaxTotal >= 3 * MaxInfo
=============================================================================
