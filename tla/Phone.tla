-------------------------------- MODULE Phone --------------------------------
(***************************************************************************)
(* The calls and the library that carries them.  CallControl sees of the   *)
(* library only whether it is up, SipStack sees of the calls only the      *)
(* account they are made from.  The handlers that change both, SIP start,  *)
(* SIP stop and the calling case of the soft key, are one step of each.    *)
(***************************************************************************)
EXTENDS CallControl, SipStack

VARIABLE
    account         \* per slot, the account an outgoing call was made from

phoneVars == <<vars, stackVars, account>>

NoAccount == [id |-> -1, at |-> "none"]

AccountType == [id : AccIds \cup {-1}, at : Domains \cup {"none", "local"}]

PhoneInit ==
    /\ Init
    /\ StackInit
    /\ account = [c \in Calls |-> NoAccount]

\* pjsua_call_make_call copies the account to the call; the slot is cleared
\* when the call is gone.
RememberAccount ==
    account' = [c \in Calls |->
        IF call[c] = "null" /\ call'[c] = "calling"
        THEN [id |-> ua'.g_acc_id, at |-> ua'.acc[ua'.g_acc_id]]
        ELSE IF call'[c] = "null" THEN NoAccount ELSE account[c]]

\* What happens to calls while the library stays as it is.
CallStep ==
    /\ \/ LibraryStep
       \/ AcceptQuery \/ DeclineQuery
       \/ SoftKeyEndsCall \/ SoftKeyExits
       \/ SwitchTab \/ InternetCall \/ ExitCommand
    /\ UNCHANGED stackVars

\* What happens to the library while the calls stay as they are: the
\* registrar answers, and the user changes the settings between two calls.
RegistrationStep ==
    /\ \/ LibraryRuns /\ \E a \in AccIds : RegResult(a)
       \/ UserSeesViews /\ view = "list" /\ ChangeSettings
    /\ UNCHANGED vars

\* DoSIPStart
StartPhone ==
    /\ SIPStart
    /\ InitFails \/ LoadLeaves \/ StartLibrary
    /\ up' = ua'.up

\* DoSIPStop
StopPhone == SIPStop /\ StopLibrary

\* CallSoftKeyPressedL, CASE 3: a symbian_ua_init that fails, or settings that
\* cannot be read, end it before the number is taken.
CallFromKey ==
    /\ SoftKeyCalls
    /\ \/ number' /\ (InitFails \/ LoadLeaves)
       \/ ~number' /\ CallKey
    /\ up' = ua'.up

PhoneNext ==
    /\ CallStep \/ RegistrationStep \/ StartPhone \/ StopPhone \/ CallFromKey
    /\ RememberAccount

PhoneSpec == PhoneInit /\ [][PhoneNext]_phoneVars

-----------------------------------------------------------------------------
(* Properties *)

PhoneTypeOK == account \in [Calls -> AccountType]

\* An outgoing call keeps the account it was made from until it is gone, its
\* teardown included: symbian_ua_set_account, which deletes the account in
\* use (symbian_ua.cpp:450) or destroys the library (:481), is only reached
\* from CallSoftKeyPressedL when the library has no call left at all.
CallKeepsAccount ==
    \A c \in Calls :
        call[c] # "null" /\ account[c].id # -1 =>
            ua.up /\ ua.acc[account[c].id] = account[c].at

\* There is no call without the socket server and the connection it runs on,
\* even after an account was refused and left them open.
CallHasNetwork == (\E c \in Calls : call[c] # "null") => sock /\ conn
=============================================================================
