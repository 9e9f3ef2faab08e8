---------------------------- MODULE MCAmrPayload ----------------------------
(***************************************************************************)
(* Model checking of AmrPayload with up to four frames in a payload, after *)
(* which the table of contents has ended at each of the four places in an  *)
(* octet where it can.                                                     *)
(***************************************************************************)
EXTENDS AmrPayload

\* Speech of different lengths modulo 8, SID, and no data.
MCFrameTypes == [nb |-> {0, 4, 8, 15}, wb |-> {0, 3, 9, 15}]

\* Wide-band speech.
MCSpeech == [wb |-> 0 .. 8]
=============================================================================
