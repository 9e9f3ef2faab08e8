------------------------------- MODULE Billing -------------------------------
(***************************************************************************)
(* The billable commands of the contacts view: circuit call, Internet      *)
(* call, SMS and MMS.  Each asks NotifyBillableEvent for consent, lets the *)
(* user choose a number, and acts, through CPhoneHelper or by leaving the  *)
(* number in the document.                                                 *)
(*                                                                         *)
(* Every dialog runs a scheduler of its own, so a command is a step per    *)
(* dialog, and a circuit call that was dialled may complete in between.    *)
(* A command that leaves ends there, its items popped by the trap harness. *)
(***************************************************************************)
EXTENDS Integers

VARIABLES
    running,        \* the process is there: it has not panicked
    remembered,     \* the file billableevents.cfg exists
    command,        \* the command being carried out
    stage,          \* the dialog it waits for
    yes,            \* the user has agreed to this command
    never,          \* the user has ever agreed and asked not to be asked again
    dialling,       \* the active object of CPhoneHelper has a request
    depth,          \* items of the command on the cleanup stack
    last            \* the last billable action, and the consent to it

vars == <<running, remembered, command, stage, yes, never, dialling, depth, last>>
consent == <<remembered, never>>

Command == {"voice", "internet", "sms", "mms"}

TypeOK ==
    /\ {running, remembered, yes, never, dialling} \subseteq BOOLEAN
    /\ command \in Command \cup {"none"}
    /\ stage \in {"none", "notify", "remember", "select"}
    /\ depth \in -1 .. 1
    /\ last \in [what : Command \cup {"none"}, yes : BOOLEAN, never : BOOLEAN]

Init ==
    /\ running = TRUE
    /\ remembered = FALSE
    /\ command = "none"
    /\ stage = "none"
    /\ yes = FALSE
    /\ never = FALSE
    /\ dialling = FALSE
    /\ depth = 0
    /\ last = [what |-> "none", yes |-> FALSE, never |-> FALSE]

-----------------------------------------------------------------------------
InDialog(s) == running /\ stage = s

Over ==
    /\ command' = "none"
    /\ stage' = "none"
    /\ yes' = FALSE

\* From the consent to the next dialog: the contact under the cursor is read
\* and pushed (ReadContactItemLC), and the user chooses a number.  Or there
\* is no contact, or reading it leaves.
Proceed(c, agreed) ==
    \/ /\ command' = c
       /\ stage' = "select"
       /\ yes' = agreed
       /\ depth' = depth + 1
    \/ Over /\ UNCHANGED depth

-----------------------------------------------------------------------------
(* NotifyBillableEvent *)

\* The dialogs are for those who have no file.
Start ==
    /\ InDialog("none")
    /\ \E c \in Command :
          IF remembered
          THEN Proceed(c, FALSE)
          ELSE /\ command' = c
               /\ stage' = "notify"
               /\ UNCHANGED <<yes, depth>>
    /\ UNCHANGED <<running, consent, dialling, last>>

\* "Normal network charges apply for this action."
Agree ==
    /\ InDialog("notify")
    /\ stage' = "remember"
    /\ yes' = TRUE
    /\ UNCHANGED <<running, consent, command, dialling, depth, last>>

\* Mutant: the file is there for whoever has seen the dialog.
RefuseRemembered ==
    /\ InDialog("notify")
    /\ Over
    /\ remembered' = TRUE
    /\ UNCHANGED <<running, never, dialling, depth, last>>

Refuse ==
    /\ InDialog("notify")
    /\ Over
    /\ UNCHANGED <<running, consent, dialling, depth, last>>

\* "Do not show me this information again?"  The file may fail to be created,
\* which changes nothing else.
Remember ==
    /\ InDialog("remember")
    /\ \/ UNCHANGED consent
       \/ never' = TRUE /\ remembered' \in BOOLEAN
    /\ Proceed(command, TRUE)
    /\ UNCHANGED <<running, dialling, last>>

-----------------------------------------------------------------------------
(* The number is chosen, or not *)

\* Mutant: the contact is destroyed only if a number was chosen.
CancelSelectionKeepsItem ==
    /\ InDialog("select")
    /\ Over
    /\ UNCHANGED <<running, consent, dialling, depth, last>>

CancelSelection ==
    /\ InDialog("select")
    /\ Over
    /\ depth' = depth - 1
    /\ UNCHANGED <<running, consent, dialling, last>>

Billed == last' = [what |-> command, yes |-> yes, never |-> never]

\* make_callL dials and calls SetActive, which panics while the request for
\* an earlier call is outstanding.
DialCall ==
    /\ command = "voice"
    /\ Billed
    /\ dialling' = TRUE
    /\ running' = ~dialling
    /\ depth' = depth - 1

\* DoInternetCall stores the number in the document and shows the log view.
StoreNumber ==
    /\ command = "internet"
    /\ Billed
    /\ depth' = depth - 1
    /\ UNCHANGED <<running, dialling>>

\* DoSMS pops four items for the three it has pushed, and then its contact:
\* a panic, or what the framework has pushed before.
SendSMS ==
    /\ command = "sms"
    /\ Billed
    /\ depth' = depth - 2
    /\ running' = FALSE
    /\ UNCHANGED dialling

\* DoMMS pops the three items it has pushed, and its contact; the editor that
\* send_mms opens is one for an SMS.
SendMMS ==
    /\ command = "mms"
    /\ Billed
    /\ depth' = depth - 1
    /\ UNCHANGED <<running, dialling>>

\* The command leaves before it acts: a number too long, no memory.
Leave ==
    /\ depth' = 0
    /\ UNCHANGED <<running, dialling, last>>

AcceptSelection ==
    /\ InDialog("select")
    /\ Over
    /\ DialCall \/ StoreNumber \/ SendSMS \/ SendMMS \/ Leave
    /\ UNCHANGED consent

-----------------------------------------------------------------------------
\* RunL: the call is through, or has failed.
DialDone ==
    /\ running
    /\ dialling
    /\ dialling' = FALSE
    /\ UNCHANGED <<running, consent, command, stage, yes, depth, last>>

\* The process ends, by its own will or not, and is started again.
Restart ==
    /\ running' = TRUE
    /\ Over
    /\ dialling' = FALSE
    /\ depth' = 0
    /\ UNCHANGED <<consent, last>>

Next ==
    \/ Start \/ Agree \/ Refuse \/ Remember
    \/ CancelSelection \/ AcceptSelection
    \/ DialDone
    \/ Restart

Spec == Init /\ [][Next]_vars

-----------------------------------------------------------------------------
(* Properties *)

\* Nothing is billed that the user has not agreed to, for this command or once
\* and for all: whatever dialogs are refused, files fail to be created, and
\* restarts come in between, no command finds a consent that was not given.
BilledWithConsent == last.what # "none" => last.yes \/ last.never

\* A command that has returned leaves the cleanup stack as it found it:
\* DoSMS pops "recip, alias, title, messagetxt" (VoIPListBoxView.cpp:480).
StackBalanced == command = "none" => depth = 0
=============================================================================
