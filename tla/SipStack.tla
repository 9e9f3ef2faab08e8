------------------------------ MODULE SipStack ------------------------------
(***************************************************************************)
(* Bringing the SIP library up and down and choosing the account it calls  *)
(* from: symbian_ua_init, symbian_ua_destroy and symbian_ua_set_account    *)
(* with their callers DoSIPStart, DoSIPStop and the calling case of        *)
(* CallSoftKeyPressedL.  These functions are synchronous, so a handler is  *)
(* one step; what it does in order is written as functions from a state of *)
(* the library to the next.  Registrations complete in steps of their own. *)
(***************************************************************************)
EXTENDS Integers

CONSTANTS
    MaxAccs,        \* PJSUA_MAX_ACC, the size of the library's account table
    Domains         \* registrars the user may enter in the settings

Blank == "blank"    \* no registrar entered

ASSUME MaxAccsAssumption == MaxAccs \in Nat /\ MaxAccs >= 2
ASSUME DomainsAssumption == Domains \cap {Blank, "none", "local"} = {}

VARIABLES
    ua,             \* the library and g_acc_id, see UaType
    sock,           \* aSocketServer is open
    conn,           \* aConn is open
    leaked,         \* an open handle was overwritten by Connect or Open
    refused,        \* pjsua_acc_add has ever failed
    domain,         \* the registrar in the stored settings
    lastCall        \* the account last called from, the registrar set then

stackVars == <<ua, sock, conn, leaked, refused, domain, lastCall>>

AccIds == 0 .. MaxAccs - 1

RegState == {"none", "registering", "registered", "unregistering",
             "unregistered", "failed"}

UaType == [up : BOOLEAN,
           acc : [AccIds -> Domains \cup {"none", "local"}],
           reg : [AccIds -> RegState],
           g_acc_id : AccIds \cup {-1}]

CallType == [from : Domains \cup {"none", "local"}, wanted : Domains \cup {Blank}]

StackTypeOK ==
    /\ ua \in UaType
    /\ {sock, conn, leaked, refused} \subseteq BOOLEAN
    /\ domain \in Domains \cup {Blank}
    /\ lastCall \in CallType

NoAccounts == [a \in AccIds |-> "none"]

StackInit ==
    /\ ua = [up |-> FALSE, acc |-> NoAccounts, reg |-> NoAccounts, g_acc_id |-> -1]
    /\ sock = FALSE
    /\ conn = FALSE
    /\ leaked = FALSE
    /\ refused = FALSE
    /\ domain = Blank
    /\ lastCall = [from |-> "none", wanted |-> Blank]

-----------------------------------------------------------------------------
(* What the functions of symbian_ua.cpp do to the library *)

Accounts(u) == {a \in AccIds : u.acc[a] # "none"}

\* pjsua_destroy: the account table goes, g_acc_id is not the library's.
Destroyed(u) == [u EXCEPT !.up = FALSE, !.acc = NoAccounts, !.reg = NoAccounts]

\* Mutant: g_acc_id is the number of accounts, as if they counted from one.
StartedCountsFromOne ==
    [up |-> TRUE, acc |-> [NoAccounts EXCEPT ![0] = "local"], reg |-> NoAccounts,
     g_acc_id |-> 1]

\* symbian_ua_init after its last step: the local account is account 0.  The
\* status of pjsua_acc_add_local is not looked at; in an empty table it succeeds.
Started ==
    [up |-> TRUE, acc |-> [NoAccounts EXCEPT ![0] = "local"], reg |-> NoAccounts,
     g_acc_id |-> 0]

\* An empty registrar: unregister the account if its last status is 200.
Unregister(u) ==
    IF u.g_acc_id \in Accounts(u) /\ u.reg[u.g_acc_id] \in {"registered", "unregistered"}
    THEN [u EXCEPT !.reg[u.g_acc_id] = IF @ = "registered" THEN "unregistering" ELSE @,
                   !.g_acc_id = 0]
    ELSE u

\* Mutant: the old account is not deleted, only forgotten.
DeleteAccountForgets(u) == [u EXCEPT !.g_acc_id = 0]

\* pjsua_acc_del(g_acc_id) and "g_acc_id = 0".
DeleteAccount(u) ==
    [u EXCEPT !.acc[u.g_acc_id] = "none", !.reg[u.g_acc_id] = "none", !.g_acc_id = 0]

\* Mutant: the id of the new account is not stored.
AddAccountKeepsId(u, d, valid) ==
    LET free == AccIds \ Accounts(u)
        slot == CHOOSE a \in free : \A b \in free : a <= b
    IN  IF valid /\ free # {}
        THEN [u EXCEPT !.acc[slot] = d, !.reg[slot] = "registering"]
        ELSE Destroyed(u)

\* pjsua_acc_add: the lowest free entry, registering at once.  On failure the
\* library is destroyed, its sockets are not closed.
AddAccount(u, d, valid) ==
    LET free == AccIds \ Accounts(u)
        slot == CHOOSE a \in free : \A b \in free : a <= b
    IN  IF valid /\ free # {}
        THEN [u EXCEPT !.acc[slot] = d, !.reg[slot] = "registering", !.g_acc_id = slot]
        ELSE Destroyed(u)

\* Mutant: the account in use is never removed.
SetAccountAddsOnly(u, d, valid) ==
    IF d = Blank THEN Unregister(u) ELSE AddAccount(u, d, valid)

\* symbian_ua_set_account
SetAccount(u, d, valid) ==
    IF d = Blank THEN Unregister(u)
    ELSE IF \A a, b \in Accounts(u) : a = b THEN AddAccount(u, d, valid)
    ELSE IF u.g_acc_id \notin Accounts(u) THEN u         \* pjsua_acc_del fails
    ELSE AddAccount(DeleteAccount(u), d, valid)

-----------------------------------------------------------------------------
(* Actions *)

\* The user saves other settings.
ChangeSettings ==
    /\ domain' \in Domains \cup {Blank}
    /\ UNCHANGED <<ua, sock, conn, leaked, refused, lastCall>>

\* Where symbian_ua_init may fail, and the handles it has left open then.
Stage == {"Connect", "Open", "Start", "create", "init", "transport", "start"}
HandlesLeft(stage) == stage \notin {"Connect", "Open", "Start"}

\* Connect and Open write their handle whether it was open or not.
Overwrites(stage) ==
    stage # "Connect" /\ (sock \/ (stage # "Open" /\ conn))

\* The library is destroyed again, and g_acc_id is set by then if only
\* pjsua_start was left to do.
InitLeft(stage) == Destroyed(IF stage = "start" THEN Started ELSE ua)

\* Mutant: the caller does not clean up after a failed symbian_ua_init.
InitFailsUncleaned ==
    \E stage \in Stage :
        /\ ~ua.up
        /\ ua' = InitLeft(stage)
        /\ sock' = HandlesLeft(stage)
        /\ conn' = HandlesLeft(stage)
        /\ leaked' = (leaked \/ Overwrites(stage))
        /\ UNCHANGED <<refused, domain, lastCall>>

\* symbian_ua_init fails in DoSIPStart or CallSoftKeyPressedL, which then
\* call symbian_ua_destroy: both handles are closed, opened or not.
InitFails ==
    \E stage \in Stage :
        /\ ~ua.up
        /\ ua' = InitLeft(stage)
        /\ sock' = FALSE
        /\ conn' = FALSE
        /\ leaked' = (leaked \/ Overwrites(stage))
        /\ UNCHANGED <<refused, domain, lastCall>>

\* symbian_ua_init succeeds, if it has to be called at all.
Bring ==
    /\ sock' = TRUE
    /\ conn' = TRUE
    /\ leaked' = (leaked \/ (~ua.up /\ (sock \/ conn)))

\* The library symbian_ua_set_account and the settings are read for.
Connected == IF ua.up THEN ua ELSE Started

\* The file server fails LoadSettingValuesL: the handler leaves with the
\* library up, before symbian_ua_set_account.
LoadLeaves ==
    /\ Bring
    /\ ua' = Connected
    /\ UNCHANGED <<refused, domain, lastCall>>

\* symbian_ua_set_account with the stored settings, which pjsua_acc_add may
\* find wrong.
Account(u) ==
    /\ \E valid \in BOOLEAN : ua' = SetAccount(u, domain, valid)
    /\ refused' = (refused \/ ~ua'.up)

\* DoSIPStart
StartLibrary ==
    /\ ~ua.up
    /\ Bring
    /\ Account(Started)
    /\ UNCHANGED <<domain, lastCall>>

\* CallSoftKeyPressedL, CASE 3: connect if need be, set the account without
\* looking at the result, and call from g_acc_id if the library has it.
CallKey ==
    /\ Bring
    /\ Account(Connected)
    /\ lastCall' = IF ua'.g_acc_id \in Accounts(ua')
                   THEN [from |-> ua'.acc[ua'.g_acc_id], wanted |-> domain]
                   ELSE lastCall
    /\ UNCHANGED domain

\* Mutant: the account is marked unset with the size of the table.
StopLibraryMarksUnset ==
    /\ ua.up
    /\ ua' = [Destroyed(ua) EXCEPT !.g_acc_id = MaxAccs]
    /\ sock' = FALSE
    /\ conn' = FALSE
    /\ UNCHANGED <<leaked, refused, domain, lastCall>>

\* Mutant: the connection stays open.
StopLibraryKeepsHandles ==
    /\ ua.up
    /\ ua' = Destroyed(ua)
    /\ UNCHANGED <<sock, conn, leaked, refused, domain, lastCall>>

\* DoSIPStop: symbian_ua_destroy
StopLibrary ==
    /\ ua.up
    /\ ua' = Destroyed(ua)
    /\ sock' = FALSE
    /\ conn' = FALSE
    /\ UNCHANGED <<leaked, refused, domain, lastCall>>

\* The registrar has answered, or has not: on_reg_state.
RegResult(a) ==
    /\ ua.up
    /\ \E result \in RegState :
          /\ \/ ua.reg[a] = "registering" /\ result \in {"registered", "failed"}
             \/ ua.reg[a] = "registered" /\ result = "failed"
             \/ ua.reg[a] = "unregistering" /\ result \in {"unregistered", "failed"}
          /\ ua' = [ua EXCEPT !.reg[a] = result]
    /\ UNCHANGED <<sock, conn, leaked, refused, domain, lastCall>>

StackNext ==
    \/ ChangeSettings
    \/ InitFails \/ LoadLeaves \/ StartLibrary \/ CallKey \/ StopLibrary
    \/ \E a \in AccIds : RegResult(a)

StackSpec == StackInit /\ [][StackNext]_stackVars

-----------------------------------------------------------------------------
(* Properties *)

\* While the library runs, g_acc_id names one of its accounts: neither the
\* "g_acc_id = 0" of symbian_ua_set_account nor a restart leaves it naming
\* an entry that was deleted.
GlobalAccountExists == ua.up => ua.g_acc_id \in Accounts(ua)

\* The account table holds two accounts at most, however often accounts are
\* unregistered, replaced and leaked, so pjsua_acc_add never finds it full.
TwoAccounts == Accounts(ua) \subseteq {0, 1}

\* Only the account in g_acc_id is registered or being registered: an account
\* set aside by symbian_ua_set_account does not go on receiving calls.
OneRegistration ==
    \A a \in AccIds : ua.reg[a] \in {"registering", "registered"} => a = ua.g_acc_id

\* A call leaves from an account at the registrar the settings name, when
\* they name one.
CallsFromSettings == lastCall.wanted # Blank => lastCall.from = lastCall.wanted

\* The socket server and the connection are open exactly while the library
\* runs, at whatever stage an attempt to start it failed, and no open handle
\* is overwritten, until pjsua_acc_add refuses an account: only then does
\* symbian_ua_set_account take the library down without them.
HandlesFollowLibrary ==
    ~refused => sock = ua.up /\ conn = ua.up /\ ~leaked
=============================================================================
