---------------------------- MODULE PhoneProofs ----------------------------
(***************************************************************************)
(* Calls and library together do what each of them does alone: Phone       *)
(* implements CallControl and SipStack, so everything proved of them holds *)
(* of the phone.  And an outgoing call keeps its account and its network.  *)
(*                                                                         *)
(* The inductive invariant joins the two: both have the same idea of       *)
(* whether the library is up, there are calls only while it is, the        *)
(* network is open while it is, and a free call slot remembers no account. *)
(***************************************************************************)
EXTENDS Phone, CallControlProofs, SipStackProofs

\* The steps of the phone are steps of the calls, or leave them alone.
LEMMA CallsStep == [PhoneNext]_phoneVars => [Next]_vars
  BY DEF PhoneNext, phoneVars, CallStep, RegistrationStep, StartPhone, StopPhone,
         CallFromKey, Next, UserStep

\* They are steps of the library as well, or leave it alone.
LEMMA StackStep == [PhoneNext]_phoneVars => [StackNext]_stackVars
  BY DEF PhoneNext, phoneVars, CallStep, RegistrationStep, StartPhone, StopPhone,
         CallFromKey, StackNext

\* The phone implements the call handling: its queries, calls and keys behave
\* as CallControl says whatever registrations and settings do.
THEOREM PhoneImplementsCalls == PhoneSpec => Spec
  BY CallsStep, PTL DEF PhoneSpec, PhoneInit, Spec

\* The phone implements the life of the library and of its accounts, whatever
\* the calls do.
THEOREM PhoneImplementsStack == PhoneSpec => StackSpec
  BY StackStep, PTL DEF PhoneSpec, PhoneInit, StackSpec

-----------------------------------------------------------------------------
(* What joins the two *)

InCall(c) == call[c] # "null"

LibraryAgrees == up = ua.up

CallsNeedLibrary == \A c \in Calls : InCall(c) => up

NetworkOpen == up => sock /\ conn

FreeSlotsForget == \A c \in Calls : ~InCall(c) => account[c] = NoAccount

PhoneInv ==
    /\ LibraryAgrees
    /\ CallsNeedLibrary
    /\ NetworkOpen
    /\ FreeSlotsForget
    /\ CallKeepsAccount

\* The steps that leave the library alone.
LEMMA CallStepKeeps ==
  ASSUME PhoneInv, TypeOK, CallStep, RememberAccount
  PROVE  PhoneInv'
  <1>1. UNCHANGED stackVars /\ ua' = ua /\ sock' = sock /\ conn' = conn
    BY DEF CallStep, stackVars
  <1>2. up' = up
    BY DEF CallStep, LibraryStep, IncomingCall, CallProgress, CallDisconnected,
           CallReplaced, AcceptQuery, DeclineQuery, SoftKeyEndsCall, SoftKeyExits,
           SwitchTab, InternetCall, ExitCommand
  <1>3. \A c \in Calls : InCall(c)' => InCall(c) \/ (up /\ call'[c] # "calling")
    BY DEF CallStep, LibraryStep, IncomingCall, CallProgress, CallDisconnected,
           CallReplaced, AcceptQuery, DeclineQuery, SoftKeyEndsCall, SoftKeyExits,
           SwitchTab, InternetCall, ExitCommand, LibraryRuns, HungUp, Live, InCall,
           TypeOK, CallsOK, CallState
  <1>4. \A c \in Calls : account'[c] = IF InCall(c)' THEN account[c] ELSE NoAccount
    BY <1>3 DEF RememberAccount, InCall
  <1>5. LibraryAgrees' /\ CallsNeedLibrary' /\ NetworkOpen'
    BY <1>1, <1>2, <1>3 DEF PhoneInv, LibraryAgrees, CallsNeedLibrary, NetworkOpen
  <1>6. FreeSlotsForget'
    BY <1>4 DEF FreeSlotsForget
  <1>7. ASSUME NEW c \in Calls, InCall(c)', account'[c].id # -1
        PROVE  ua'.up /\ ua'.acc[account'[c].id] = account'[c].at
    <2>1. account'[c] = account[c]
      BY <1>4, <1>7
    <2>2. InCall(c)
      BY <1>7, <2>1 DEF PhoneInv, FreeSlotsForget, NoAccount
    <2> QED
      BY <1>1, <1>7, <2>1, <2>2 DEF PhoneInv, CallKeepsAccount, InCall
  <1>8. CallKeepsAccount'
    BY <1>7 DEF CallKeepsAccount, InCall
  <1> QED
    BY <1>5, <1>6, <1>8 DEF PhoneInv

\* A registrar's answer moves no account, and settings touch no library.
LEMMA RegistrationKeeps ==
  ASSUME PhoneInv, ua \in UaType, RegistrationStep, RememberAccount
  PROVE  PhoneInv'
  <1>1. /\ up' = up /\ call' = call /\ sock' = sock /\ conn' = conn
        /\ ua'.up = ua.up /\ ua'.acc = ua.acc
    BY DEF RegistrationStep, RegResult, ChangeSettings, vars, UaType
  <1>2. \A c \in Calls : account'[c] = IF InCall(c) THEN account[c] ELSE NoAccount
    BY <1>1 DEF RememberAccount, InCall
  <1> QED
    BY <1>1, <1>2 DEF PhoneInv, LibraryAgrees, CallsNeedLibrary, NetworkOpen,
       FreeSlotsForget, CallKeepsAccount, InCall

\* SIP start: without a library there are no calls to disturb.
LEMMA StartKeeps ==
  ASSUME PhoneInv, ua \in UaType, StartPhone, RememberAccount
  PROVE  PhoneInv'
  <1>1. ~up /\ call' = call /\ up' = ua'.up
    BY DEF StartPhone, SIPStart
  <1>2. \A c \in Calls : ~InCall(c)
    BY <1>1 DEF PhoneInv, CallsNeedLibrary
  <1>3. \A c \in Calls : ~InCall(c)' /\ account'[c] = NoAccount
    BY <1>1, <1>2 DEF RememberAccount, InCall
  <1>4. up' => sock' /\ conn'
    BY <1>1, InitLeftSound DEF StartPhone, InitFails, LoadLeaves, StartLibrary, Bring
  <1> QED
    BY <1>1, <1>3, <1>4 DEF PhoneInv, LibraryAgrees, CallsNeedLibrary, NetworkOpen,
       FreeSlotsForget, CallKeepsAccount, InCall

\* SIP stop takes library and calls down together.
LEMMA StopKeeps ==
  ASSUME PhoneInv, ua \in UaType, StopPhone, RememberAccount
  PROVE  PhoneInv'
  <1>1. up' = FALSE /\ ua'.up = FALSE
    BY DestroyedSound DEF StopPhone, SIPStop, StopLibrary
  <1>2. \A c \in Calls : ~InCall(c)'
    BY DEF StopPhone, SIPStop, InCall
  <1>3. \A c \in Calls : account'[c] = NoAccount
    BY <1>2 DEF RememberAccount, InCall
  <1> QED
    BY <1>1, <1>2, <1>3 DEF PhoneInv, LibraryAgrees, CallsNeedLibrary, NetworkOpen,
       FreeSlotsForget, CallKeepsAccount, InCall

\* The calling case of the soft key: it is reached without a call, so the
\* account it sets or deletes, and the library it may destroy, are nobody's.
LEMMA CallKeeps ==
  ASSUME PhoneInv, TypeOK, ua \in UaType, CallFromKey, RememberAccount
  PROVE  PhoneInv'
  <1>1. \A c \in Calls : ~InCall(c)
    BY DEF CallFromKey, SoftKeyCalls, AnyCall, InCall
  <1>2. up' = ua'.up
    BY DEF CallFromKey
  <1>3. \A c \in Calls : InCall(c)' => up' /\ call'[c] = "calling"
    BY <1>1 DEF CallFromKey, SoftKeyCalls, MakeCall, InCall, TypeOK, CallsOK
  <1>4. up' => sock' /\ conn'
    <2>1. InitFails => ~ua'.up
      BY InitLeftSound DEF InitFails
    <2>2. LoadLeaves \/ CallKey => sock' /\ conn'
      BY DEF LoadLeaves, CallKey, Bring
    <2>3. InitFails \/ LoadLeaves \/ CallKey
      BY DEF CallFromKey
    <2> QED
      BY <1>2, <2>1, <2>2, <2>3
  <1>5. \A c \in Calls :
          account'[c] = IF InCall(c)'
                        THEN [id |-> ua'.g_acc_id, at |-> ua'.acc[ua'.g_acc_id]]
                        ELSE NoAccount
    BY <1>1, <1>3 DEF RememberAccount, InCall
  <1>6. CallKeepsAccount'
    BY <1>2, <1>3, <1>5 DEF CallKeepsAccount, InCall
  <1> QED
    BY <1>2, <1>3, <1>4, <1>5, <1>6
    DEF PhoneInv, LibraryAgrees, CallsNeedLibrary, NetworkOpen, FreeSlotsForget

LEMMA PhoneInvariance == PhoneSpec => []PhoneInv
  <1>1. PhoneInit => PhoneInv
    <2> SUFFICES ASSUME PhoneInit PROVE PhoneInv
      OBVIOUS
    <2>1. up = FALSE /\ ua.up = FALSE
      BY DEF PhoneInit, Init, StackInit
    <2>2. \A c \in Calls : ~InCall(c) /\ account[c] = NoAccount
      BY DEF PhoneInit, Init, InCall
    <2> QED
      BY <2>1, <2>2 DEF PhoneInv, LibraryAgrees, CallsNeedLibrary, NetworkOpen,
         FreeSlotsForget, CallKeepsAccount, InCall
  <1>2. PhoneInv /\ TypeOK /\ StackTypeOK /\ [PhoneNext]_phoneVars => PhoneInv'
    <2>1. ASSUME PhoneInv, TypeOK, StackTypeOK, PhoneNext
          PROVE  PhoneInv'
      <3>1. ua \in UaType
        BY <2>1 DEF StackTypeOK
      <3> QED
        BY <2>1, <3>1, CallStepKeeps, RegistrationKeeps, StartKeeps, StopKeeps,
           CallKeeps DEF PhoneNext
    <2>2. ASSUME PhoneInv, UNCHANGED phoneVars
          PROVE  PhoneInv'
      BY <2>2 DEF phoneVars, vars, stackVars, PhoneInv, LibraryAgrees,
         CallsNeedLibrary, NetworkOpen, FreeSlotsForget, CallKeepsAccount, InCall
    <2> QED
      BY <2>1, <2>2
  <1>3. PhoneSpec => []TypeOK /\ []StackTypeOK
    BY PhoneImplementsCalls, PhoneImplementsStack, TypeCorrect, StackTypeCorrect, PTL
  <1> QED
    BY <1>1, <1>2, <1>3, PTL DEF PhoneSpec

-----------------------------------------------------------------------------
(* Theorems *)

\* symbian_ua_set_account never deletes or replaces the account of a call
\* that is not over, and never destroys the library under one.
THEOREM AccountKept == PhoneSpec => []CallKeepsAccount
  BY PhoneInvariance, PTL DEF PhoneInv

\* Every call has the socket server and the connection symbian_ua_init opened.
THEOREM NetworkAlways == PhoneSpec => []CallHasNetwork
  <1>1. PhoneInv => CallHasNetwork
    BY DEF PhoneInv, CallsNeedLibrary, NetworkOpen, CallHasNetwork, InCall
  <1> QED
    BY <1>1, PhoneInvariance, PTL

\* What a call remembers is an account of the library: g_acc_id names one
\* whenever a call is made from it.
THEOREM PhoneTypeCorrect == PhoneSpec => []PhoneTypeOK
  <1>1. PhoneInit => PhoneTypeOK
    BY DEF PhoneInit, PhoneTypeOK, AccountType, NoAccount
  <1>2. ASSUME PhoneTypeOK, TypeOK, StackInv', PhoneNext
        PROVE  PhoneTypeOK'
    <2>1. ua' \in UaType /\ (ua'.up => ua'.g_acc_id \in Accounts(ua'))
      BY <1>2 DEF StackInv, Sound, Table
    <2>2. NoAccount \in AccountType
      BY DEF NoAccount, AccountType
    <2>3. ASSUME NEW c \in Calls, call[c] = "null", call'[c] = "calling"
          PROVE  [id |-> ua'.g_acc_id, at |-> ua'.acc[ua'.g_acc_id]] \in AccountType
      <3>1. ~CallStep
        BY <1>2, <2>3
        DEF CallStep, LibraryStep, IncomingCall, CallProgress, CallDisconnected,
            CallReplaced, AcceptQuery, DeclineQuery, SoftKeyEndsCall, SoftKeyExits,
            SwitchTab, InternetCall, ExitCommand, HungUp, Live, TypeOK, CallsOK
      <3>2. ~RegistrationStep /\ ~StartPhone /\ ~StopPhone
        BY <2>3 DEF RegistrationStep, vars, StartPhone, SIPStart, StopPhone, SIPStop
      <3>3. CallFromKey
        BY <1>2, <3>1, <3>2 DEF PhoneNext
      <3>4. up' /\ up' = ua'.up
        BY <2>3, <3>3 DEF CallFromKey, SoftKeyCalls, MakeCall
      <3> QED
        BY <2>1, <3>4 DEF UaType, Accounts, AccountType
    <2> QED
      BY <1>2, <2>2, <2>3 DEF PhoneNext, RememberAccount, PhoneTypeOK
  <1>3. PhoneTypeOK /\ TypeOK /\ StackInv' /\ [PhoneNext]_phoneVars => PhoneTypeOK'
    BY <1>2 DEF phoneVars, PhoneTypeOK
  <1>4. PhoneSpec => []StackInv /\ []TypeOK
    BY PhoneImplementsStack, PhoneImplementsCalls, StackInvariance, TypeCorrect, PTL
  <1> QED
    BY <1>1, <1>3, <1>4, PTL DEF PhoneSpec
=============================================================================
