--------------------------- MODULE BillingProofs ---------------------------
(***************************************************************************)
(* Nothing is billed without consent, for any sequence of commands,        *)
(* answers, failures and restarts.                                         *)
(*                                                                         *)
(* The inductive invariant follows the consent from the dialog, or from    *)
(* the file, to the command that acts on it, and counts the items on the   *)
(* cleanup stack at each dialog: what a command pops is known only because *)
(* nothing is pushed but the contact it selects a number of.               *)
(***************************************************************************)
EXTENDS Billing, TLAPS

\* The file is there only for who asked for it, and a number is selected only
\* by who agreed.
ConsentFollows ==
    /\ remembered => never
    /\ stage = "select" => yes \/ never

\* A command waits for a dialog, and only while it selects a number is there
\* an item on the stack.
StackFollows ==
    /\ command = "none" <=> stage = "none"
    /\ running => depth = IF stage = "select" THEN 1 ELSE 0
    /\ ~running => last.what \in {"voice", "sms"} /\ stage = "none"
    /\ depth # 0 /\ stage = "none" => last.what = "sms"

BillingInv ==
    /\ TypeOK
    /\ ConsentFollows
    /\ StackFollows
    /\ BilledWithConsent

-----------------------------------------------------------------------------
(* The helpers of the actions *)

\* The types, flag by flag.
LEMMA Flags ==
  TypeOK => /\ running \in BOOLEAN /\ remembered \in BOOLEAN /\ yes \in BOOLEAN
            /\ never \in BOOLEAN /\ dialling \in BOOLEAN
  BY DEF TypeOK

LEMMA TypesKept ==
  ASSUME running' \in BOOLEAN, remembered' \in BOOLEAN, yes' \in BOOLEAN,
         never' \in BOOLEAN, dialling' \in BOOLEAN,
         command' \in Command \cup {"none"},
         stage' \in {"none", "notify", "remember", "select"},
         depth' \in -1 .. 1,
         last' \in [what : Command \cup {"none"}, yes : BOOLEAN, never : BOOLEAN]
  PROVE  TypeOK'
  BY DEF TypeOK

\* A step that ends a command keeps the types if it keeps or sets the flags.
LEMMA EndKeepsTypes ==
  ASSUME TypeOK, Over, UNCHANGED consent, running' \in BOOLEAN, dialling' \in BOOLEAN,
         depth' \in -1 .. 1,
         last' \in [what : Command \cup {"none"}, yes : BOOLEAN, never : BOOLEAN]
  PROVE  TypeOK'
  <1>1. remembered' \in BOOLEAN /\ never' \in BOOLEAN
    <2>1. remembered \in BOOLEAN /\ never \in BOOLEAN
      BY Flags
    <2> QED
      BY <2>1 DEF consent
  <1>2. /\ yes' \in BOOLEAN /\ command' \in Command \cup {"none"}
        /\ stage' \in {"none", "notify", "remember", "select"}
    BY DEF Over
  <1> QED
    BY <1>1, <1>2, TypesKept

\* Away from the selection nothing is asked of the consent but to keep the file.
LEMMA ConsentKept ==
  ASSUME ConsentFollows, UNCHANGED consent, stage' # "select"
  PROVE  ConsentFollows'
  BY Zenon DEF ConsentFollows, consent

\* What was billed stays billed with its consent.
LEMMA BilledKept ==
  ASSUME BilledWithConsent, UNCHANGED last
  PROVE  BilledWithConsent'
  BY Zenon DEF BilledWithConsent

\* A command that goes on to the selection has its consent; one that ends
\* leaves the stack as it was.
LEMMA ProceedKeeps ==
  ASSUME BillingInv, running, stage # "select", NEW c \in Command,
         NEW agreed \in BOOLEAN, agreed \/ never', Proceed(c, agreed),
         remembered' => never', never' \in BOOLEAN, remembered' \in BOOLEAN,
         UNCHANGED <<running, dialling, last>>
  PROVE  BillingInv'
  <1>1. depth = 0
    BY DEF BillingInv, StackFollows
  <1>2. CASE Over /\ UNCHANGED depth
    BY <1>1, <1>2 DEF BillingInv, TypeOK, ConsentFollows, StackFollows,
                      BilledWithConsent, Over
  <1>3. CASE /\ command' = c
             /\ stage' = "select"
             /\ yes' = agreed
             /\ depth' = depth + 1
    BY <1>1, <1>3 DEF BillingInv, TypeOK, ConsentFollows, StackFollows,
                      BilledWithConsent, Command
  <1> QED
    BY <1>2, <1>3 DEF Proceed

\* What is done to bill for is done with a consent, and recorded with it.
LEMMA BilledAgreed ==
  ASSUME BillingInv, stage = "select", command \in Command, Billed
  PROVE  /\ last' \in [what : Command \cup {"none"}, yes : BOOLEAN, never : BOOLEAN]
         /\ last'.what = command
         /\ last'.yes \/ last'.never
  <1>1. yes \in BOOLEAN /\ never \in BOOLEAN /\ (yes \/ never)
    BY DEF BillingInv, TypeOK, ConsentFollows
  <1> QED
    BY <1>1 DEF Billed

-----------------------------------------------------------------------------
LEMMA BillingInit == Init => BillingInv
  <1> SUFFICES ASSUME Init PROVE BillingInv
    OBVIOUS
  <1>1. TypeOK
    <2>1. {running, remembered, yes, never, dialling} \subseteq BOOLEAN
      BY DEF Init
    <2>2. /\ command \in Command \cup {"none"}
          /\ stage \in {"none", "notify", "remember", "select"}
          /\ depth \in -1 .. 1
      BY DEF Init
    <2>3. last \in [what : Command \cup {"none"}, yes : BOOLEAN, never : BOOLEAN]
      BY DEF Init
    <2> QED
      BY <2>1, <2>2, <2>3 DEF TypeOK
  <1>2. ConsentFollows
    BY DEF Init, ConsentFollows
  <1>3. StackFollows
    BY DEF Init, StackFollows
  <1>4. BilledWithConsent
    BY DEF Init, BilledWithConsent
  <1> QED
    BY <1>1, <1>2, <1>3, <1>4 DEF BillingInv

\* The commands that choose a number end with what they have pushed popped,
\* but for the SMS, which pops one item more.
LEMMA AcceptKeeps ==
  ASSUME BillingInv, AcceptSelection
  PROVE  BillingInv'
  <1>1. /\ running /\ stage = "select" /\ depth = 1 /\ command \in Command
        /\ command' = "none" /\ stage' = "none" /\ yes' = FALSE
        /\ UNCHANGED <<remembered, never>> /\ UNCHANGED consent /\ Over
    BY DEF AcceptSelection, InDialog, Over, consent, BillingInv, TypeOK, StackFollows
  <1>2. ConsentFollows'
    BY <1>1 DEF BillingInv, ConsentFollows
  <1>3. TypeOK /\ StackFollows /\ BilledWithConsent
    BY DEF BillingInv
  <1>4. TypeOK' /\ StackFollows' /\ BilledWithConsent'
    <2>1. CASE DialCall
      <3>1. /\ last'.what = "voice" /\ depth' = 0
            /\ dialling' = TRUE /\ running' = ~dialling
        BY <1>1, <2>1, BilledAgreed DEF DialCall
      <3>2. dialling' \in BOOLEAN /\ running' \in BOOLEAN
        BY <3>1
      <3>3. BilledWithConsent'
        BY <1>1, <2>1, BilledAgreed DEF DialCall, BilledWithConsent
      <3>4. TypeOK'
        BY <1>1, <1>3, <2>1, <3>1, <3>2, BilledAgreed, EndKeepsTypes DEF DialCall
      <3>5. StackFollows'
        BY <1>1, <3>1 DEF StackFollows
      <3> QED
        BY <3>3, <3>4, <3>5
    <2>2. ASSUME StoreNumber \/ SendMMS
          PROVE  TypeOK' /\ StackFollows' /\ BilledWithConsent'
      <3>1. Billed /\ depth' = 0 /\ UNCHANGED <<running, dialling>>
        <4>1. Billed /\ depth' = depth - 1 /\ UNCHANGED <<running, dialling>>
          BY <2>2, Zenon DEF StoreNumber, SendMMS
        <4> QED
          BY <1>1, <4>1
      <3>2. BilledWithConsent'
        BY <1>1, <3>1, BilledAgreed DEF BilledWithConsent
      <3>3. TypeOK'
        <4>1. running' \in BOOLEAN /\ dialling' \in BOOLEAN
          BY <1>3, <3>1, Flags
        <4> QED
          BY <1>1, <1>3, <3>1, <4>1, BilledAgreed, EndKeepsTypes
      <3>4. StackFollows'
        BY <1>1, <3>1 DEF StackFollows
      <3> QED
        BY <3>2, <3>3, <3>4
    <2>3. CASE SendSMS
      <3>1. /\ Billed /\ last'.what = "sms" /\ depth' = -1
            /\ running' = FALSE /\ UNCHANGED dialling
        BY <1>1, <2>3, BilledAgreed DEF SendSMS
      <3>2. BilledWithConsent'
        BY <1>1, <3>1, BilledAgreed DEF BilledWithConsent
      <3>3. TypeOK'
        <4>1. running' \in BOOLEAN /\ dialling' \in BOOLEAN
          BY <1>3, <3>1, Flags
        <4> QED
          BY <1>1, <1>3, <3>1, <4>1, BilledAgreed, EndKeepsTypes
      <3>4. StackFollows'
        BY <1>1, <3>1 DEF StackFollows
      <3> QED
        BY <3>2, <3>3, <3>4
    <2>4. CASE Leave
      <3>1. BilledWithConsent'
        BY <1>3, <2>4, BilledKept DEF Leave
      <3>2. TypeOK'
        <4>1. running' \in BOOLEAN /\ dialling' \in BOOLEAN
          BY <1>3, <2>4, Flags DEF Leave
        <4>2. /\ last' \in [what : Command \cup {"none"}, yes : BOOLEAN, never : BOOLEAN]
              /\ depth' \in -1 .. 1
          BY <1>3, <2>4 DEF Leave, TypeOK
        <4> QED
          BY <1>1, <1>3, <4>1, <4>2, EndKeepsTypes
      <3>3. StackFollows'
        BY <1>1, <2>4 DEF Leave, StackFollows
      <3> QED
        BY <3>1, <3>2, <3>3
    <2> QED
      BY <2>1, <2>2, <2>3, <2>4 DEF AcceptSelection
  <1> QED
    BY <1>2, <1>4 DEF BillingInv

LEMMA BillingStep == BillingInv /\ [Next]_vars => BillingInv'
  <1> SUFFICES ASSUME BillingInv, [Next]_vars
               PROVE  BillingInv'
    OBVIOUS
  <1> USE DEF BillingInv
  <1>1. CASE Start
    <2>1. PICK c \in Command :
             IF remembered
             THEN Proceed(c, FALSE)
             ELSE /\ command' = c
                  /\ stage' = "notify"
                  /\ UNCHANGED <<yes, depth>>
      BY <1>1 DEF Start
    <2>2. running /\ stage = "none" /\ UNCHANGED <<running, remembered, never, dialling, last>>
      BY <1>1 DEF Start, InDialog, consent
    <2>3. CASE remembered
      BY <2>1, <2>2, <2>3, ProceedKeeps DEF TypeOK, ConsentFollows
    <2>4. CASE ~remembered
      BY <2>1, <2>2, <2>4
      DEF TypeOK, ConsentFollows, StackFollows, BilledWithConsent, Command
    <2> QED
      BY <2>3, <2>4
  <1>2. CASE Agree
    BY <1>2, ConsentKept, BilledKept DEF Agree, InDialog, consent, TypeOK, StackFollows
  <1>3. CASE Refuse
    BY <1>3, ConsentKept, BilledKept
    DEF Refuse, Over, InDialog, consent, TypeOK, StackFollows
  <1>4. CASE Remember
    <2>1. /\ running /\ stage = "remember" /\ command \in Command
          /\ UNCHANGED <<running, dialling, last>>
          /\ Proceed(command, TRUE)
      BY <1>4 DEF Remember, InDialog, TypeOK, StackFollows
    <2>2. (remembered' => never') /\ never' \in BOOLEAN /\ remembered' \in BOOLEAN
      <3>1. CASE UNCHANGED consent
        <4>1. never \in BOOLEAN /\ remembered \in BOOLEAN
          BY DEF TypeOK
        <4> QED
          BY <3>1, <4>1, Zenon DEF consent, ConsentFollows
      <3>2. CASE never' = TRUE /\ remembered' \in BOOLEAN
        BY <3>2
      <3> QED
        BY <1>4, <3>1, <3>2 DEF Remember
    <2> QED
      BY <2>1, <2>2, ProceedKeeps
  <1>5. CASE CancelSelection
    <2>1. ConsentFollows' /\ BilledWithConsent'
      BY <1>5, ConsentKept, BilledKept DEF CancelSelection, Over
    <2>2. running /\ depth = 1
      BY <1>5 DEF CancelSelection, InDialog, StackFollows
    <2>3. TypeOK'
      <3>1. last' \in [what : Command \cup {"none"}, yes : BOOLEAN, never : BOOLEAN]
        BY <1>5 DEF CancelSelection, TypeOK
      <3>2. running' \in BOOLEAN /\ dialling' \in BOOLEAN
        BY <1>5, Flags DEF CancelSelection
      <3>3. UNCHANGED consent /\ Over /\ depth' \in -1 .. 1
        BY <1>5, <2>2 DEF CancelSelection
      <3> QED
        BY <3>1, <3>2, <3>3, EndKeepsTypes
    <2>4. StackFollows'
      BY <1>5, <2>2 DEF CancelSelection, Over, StackFollows
    <2> QED
      BY <2>1, <2>3, <2>4
  <1>6. CASE AcceptSelection
    BY <1>6, AcceptKeeps
  <1>7. CASE DialDone
    <2>1. ConsentFollows'
      BY <1>7, Zenon DEF DialDone, consent, ConsentFollows
    <2> QED
      BY <1>7, <2>1, BilledKept DEF DialDone, consent, TypeOK, StackFollows
  <1>8. CASE Restart
    <2>1. ConsentFollows' /\ BilledWithConsent'
      BY <1>8, ConsentKept, BilledKept DEF Restart, Over
    <2>2. TypeOK'
      <3>1. last' \in [what : Command \cup {"none"}, yes : BOOLEAN, never : BOOLEAN]
        BY <1>8 DEF Restart, TypeOK
      <3>2. running' \in BOOLEAN /\ dialling' \in BOOLEAN
        BY <1>8 DEF Restart
      <3>3. UNCHANGED consent /\ Over
        BY <1>8 DEF Restart, consent
      <3>4. depth' \in -1 .. 1
        BY <1>8 DEF Restart
      <3> QED
        BY <3>1, <3>2, <3>3, <3>4, EndKeepsTypes
    <2>3. StackFollows'
      BY <1>8 DEF Restart, Over, StackFollows
    <2> QED
      BY <2>1, <2>2, <2>3
  <1>9. CASE UNCHANGED vars
    <2>1. ConsentFollows'
      BY <1>9, Zenon DEF vars, ConsentFollows
    <2> QED
      BY <1>9, <2>1, BilledKept DEF vars, TypeOK, StackFollows
  <1> QED
    BY <1>1, <1>2, <1>3, <1>4, <1>5, <1>6, <1>7, <1>8, <1>9 DEF Next

\* The commands and their dialogs keep their bookkeeping.
THEOREM BillingInvariance == Spec => []BillingInv
  BY BillingInit, BillingStep, PTL DEF Spec

-----------------------------------------------------------------------------
(* What follows *)

\* The variables keep their types; above all no command but the SMS pops an
\* item it has not pushed, and none leaves more than one behind.
THEOREM BillingTypeCorrect == Spec => []TypeOK
  BY BillingInvariance, PTL DEF BillingInv

\* Nothing is billed that the user has not agreed to, for this command or
\* once and for all, however often dialogs are refused and the file is lost.
THEOREM ConsentAlways == Spec => []BilledWithConsent
  BY BillingInvariance, PTL DEF BillingInv

\* The SMS is the only command that unbalances the stack: every other one
\* leaves it as it found it, whether it acts, is cancelled or leaves.
THEOREM OnlySmsUnbalances == Spec => [](StackBalanced \/ last.what = "sms")
  <1>1. BillingInv => StackBalanced \/ last.what = "sms"
    BY DEF BillingInv, StackFollows, StackBalanced
  <1> QED
    BY <1>1, BillingInvariance, PTL
=============================================================================
