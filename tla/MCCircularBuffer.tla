-------------------------- MODULE MCCircularBuffer --------------------------
(***************************************************************************)
(* Model checking of CircularBuffer: the loop of pack_buffer takes up to   *)
(* three turns in a memory of five samples, and two sample values tell any *)
(* two arrangements apart.                                                 *)
(***************************************************************************)
EXTENDS CircularBuffer
=============================================================================
