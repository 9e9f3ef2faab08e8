------------------------------- MODULE InfoLog -------------------------------
(***************************************************************************)
(* The log text of the document (CVoIPDocument::StoreInfoTextL) and the    *)
(* editor of the log view that shows it (CSIPExLogContainer::ShowInfoL).   *)
(*                                                                         *)
(* A text is its characters, and all that matters of a character is when   *)
(* it was stored: the k-th character ever stored is the number k.  The     *)
(* last character of a message is its line break.                          *)
(***************************************************************************)
EXTENDS Integers, Sequences

CONSTANTS
    MaxInfo,        \* KMaxInfoLength, 1024 in the code
    MaxNumber,      \* KMaxPhoneNumberLength, 40 in the code
    MaxTotal        \* bound on the characters stored in a run

ASSUME MaxInfoAssumption == MaxInfo \in Nat \ {0}
ASSUME MaxNumberAssumption == MaxNumber \in 0 .. MaxInfo
ASSUME MaxTotalAssumption == MaxTotal \in Nat

VARIABLES
    info,           \* iInfoText
    total,          \* how many characters have ever been stored
    open,           \* the log view is active: its container exists
    shown           \* the text in the container's editor

logVars == <<info, total, open, shown>>

LogTypeOK ==
    /\ info \in Seq(Nat)
    /\ total \in Nat
    /\ open \in BOOLEAN
    /\ shown \in Seq(Nat)

LogInit ==
    /\ info = << >>
    /\ total = 0
    /\ open = FALSE
    /\ shown = << >>

-----------------------------------------------------------------------------
\* The line break appended to a text of length len.
AppendLen(len) == len + 1

\* The texts the assertion at the head of StoreInfoTextL lets through.
Accepted(len) == AppendLen(len) < MaxInfo

NewText(len) == [i \in 1 .. AppendLen(len) |-> total + i]

\* Mutant: the room for the line break is forgotten in the test.
RoomMadeWithoutBreak(len) ==
    IF len + Len(info) > MaxInfo THEN SubSeq(info, AppendLen(len) + 1, Len(info)) ELSE info

\* Mutant: the whole text is dropped when it is full.
RoomMadeByReset(len) ==
    IF AppendLen(len) + Len(info) > MaxInfo THEN << >> ELSE info

\* Mutant: the newest characters are deleted instead of the oldest.
RoomMadeAtEnd(len) ==
    IF AppendLen(len) + Len(info) > MaxInfo
    THEN SubSeq(info, 1, Len(info) - AppendLen(len)) ELSE info

\* Delete(0, appendLen) when the new text does not fit; Delete stops at the end.
RoomMade(len) ==
    IF AppendLen(len) + Len(info) > MaxInfo
    THEN SubSeq(info, AppendLen(len) + 1, Len(info)) ELSE info

\* StoreInfoTextL of a text of that length.  A text that is too long leaves
\* before anything is changed.
StoreInfoText(len) ==
    /\ total + AppendLen(len) <= MaxTotal
    /\ \/ /\ Accepted(len)
          /\ info' = RoomMade(len) \o NewText(len)
          /\ total' = total + AppendLen(len)
       \/ /\ ~Accepted(len)
          /\ UNCHANGED <<info, total>>

\* Mutant: the message is stored and not shown.
PutMessageUnshown(len) ==
    /\ StoreInfoText(len)
    /\ UNCHANGED <<open, shown>>

\* CSIPExLogView::PutMessage: log lines of the library, progress of a call.
PutMessage(len) ==
    /\ StoreInfoText(len)
    /\ shown' = IF open /\ Accepted(len) THEN info' ELSE shown
    /\ UNCHANGED open

\* The numbers the assertion at the head of StorePhoneNumber lets through; the
\* log text takes them all.
NumberFits(len) == len + 1 < MaxNumber

\* DoInternetCall stores the chosen number from the contacts view and ends in
\* the log view.  StorePhoneNumber comes first, and the command leaves there,
\* with nothing stored or shown, if the number is too long.
InternetCall(len) ==
    /\ ~open
    /\ IF NumberFits(len)
       THEN StoreInfoText(len) /\ open' = TRUE /\ shown' = info'
       ELSE UNCHANGED logVars

\* DoActivateL makes a container, whose ConstructL ends in ShowInfoL.
ActivateView ==
    /\ ~open
    /\ open' = TRUE
    /\ shown' = info
    /\ UNCHANGED <<info, total>>

DeactivateView ==
    /\ open
    /\ open' = FALSE
    /\ shown' = << >>
    /\ UNCHANGED <<info, total>>

\* The process ends, and a new one starts with a new document.
LogRestart ==
    /\ info' = << >>
    /\ total' = 0
    /\ open' = FALSE
    /\ shown' = << >>

LogNext ==
    \/ \E len \in 0 .. MaxInfo : PutMessage(len) \/ InternetCall(len)
    \/ ActivateView
    \/ DeactivateView
    \/ LogRestart

LogSpec == LogInit /\ [][LogNext]_logVars

-----------------------------------------------------------------------------
(* Properties *)

\* The text never outgrows the buffer the document allocated for it
\* (VoIPDocument.cpp:52), nor the editor's limit of the same size: an append
\* beyond it would panic.
InfoFits == Len(info) <= MaxInfo

\* The text is a window on the newest characters stored, with no gap:
\* "oldest text will be removed" (VoIPDocument.h:45-46).
InfoIsRecent == \A i \in 1 .. Len(info) : info[i] = total - Len(info) + i

\* Making room never costs more than the new message brings: once the log
\* has filled it stays as full, until the process ends.
InfoNeverShrinks == [][LogRestart \/ Len(info') >= Len(info)]_logVars

\* What the active log view shows is the text of the document, whoever
\* stored it and whether the view was there at the time.
ShownIsInfo == open => shown = info
=============================================================================
