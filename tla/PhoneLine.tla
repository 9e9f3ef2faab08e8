------------------------------ MODULE PhoneLine ------------------------------
(***************************************************************************)
(* What the call handling of the application promises its user: a phone    *)
(* with one line.  At any time at most one call is being dialled, is       *)
(* ringing or is being talked on; a call reaches the line only while the   *)
(* line is free, and it leaves the line for good.  The calls that the      *)
(* library is still tearing down are not on the line.                      *)
(*                                                                         *)
(* CallControl implements this specification while no peer replaces calls. *)
(***************************************************************************)
CONSTANT Calls

VARIABLE line

Phase == {"idle", "dialing", "ringing", "talking"}

LineTypeOK == line \in [Calls -> Phase]

Free == \A c \in Calls : line[c] = "idle"

LineInit == line = [c \in Calls |-> "idle"]

\* The user dials, or a peer rings: only a free line is taken.
Dial(c) == Free /\ line' = [line EXCEPT ![c] = "dialing"]
Ring(c) == Free /\ line' = [line EXCEPT ![c] = "ringing"]

\* The call that is dialled or that rings is answered.
Answer(c) ==
    /\ line[c] \in {"dialing", "ringing"}
    /\ line' = [line EXCEPT ![c] = "talking"]

\* Whatever was on the line has left it.
Release ==
    /\ ~Free
    /\ line' = [c \in Calls |-> "idle"]

LineNext ==
    \/ \E c \in Calls : Dial(c) \/ Ring(c) \/ Answer(c)
    \/ Release

LineSpec == LineInit /\ [][LineNext]_line

(***************************************************************************)
(* No two calls are on the line at once.                                   *)
(***************************************************************************)
OneParty ==
    \A c, d \in Calls : line[c] # "idle" /\ line[d] # "idle" => c = d
=============================================================================
