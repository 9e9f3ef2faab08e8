--------------------------- MODULE SipStackProofs ---------------------------
(***************************************************************************)
(* The safety properties of SipStack hold for every size of the library's  *)
(* account table and every set of registrars.                              *)
(*                                                                         *)
(* The inductive invariant says which accounts there can be: the entries 0 *)
(* and 1 and no other, entry 0 always, and no registration as long as      *)
(* there is only the local account symbian_ua_init has made.               *)
(***************************************************************************)
EXTENDS SipStack, TLAPS

\* An account symbian_ua_set_account has not set aside.
InUse(u, a) == u.reg[a] \in {"registering", "registered"} => a = u.g_acc_id

\* The table while the library runs.
Table(u) ==
    /\ 0 \in Accounts(u)
    /\ Accounts(u) \subseteq {0, 1}
    /\ u.g_acc_id \in Accounts(u)
    /\ 1 \notin Accounts(u) => u.reg[0] = "none"
    /\ \A a \in AccIds : InUse(u, a)

\* The table with the library down.
NoTable(u) == u.acc = NoAccounts /\ u.reg = NoAccounts

Sound(u) ==
    /\ u \in UaType
    /\ u.up => Table(u)
    /\ ~u.up => NoTable(u)

StackInv ==
    /\ StackTypeOK
    /\ Sound(ua)
    /\ CallsFromSettings
    /\ HandlesFollowLibrary

-----------------------------------------------------------------------------
(* The functions of symbian_ua.cpp *)

\* The first two entries of the table exist.
LEMMA FirstEntries == {0, 1} \subseteq AccIds
  BY MaxAccsAssumption DEF AccIds

\* symbian_ua_destroy leaves nothing of the account table.
LEMMA DestroyedSound ==
  ASSUME NEW u \in UaType
  PROVE  /\ Sound(Destroyed(u))
         /\ Accounts(Destroyed(u)) = {}
         /\ Destroyed(u).up = FALSE
  BY DEF UaType, Sound, NoTable, Destroyed, Accounts, NoAccounts, RegState

\* symbian_ua_init leaves one account, the local one, in use.
LEMMA StartedSound == Sound(Started) /\ Started.up
  BY FirstEntries
  DEF Started, Sound, Table, UaType, Accounts, NoAccounts, RegState, InUse

\* A symbian_ua_init that fails leaves nothing of the table either.
LEMMA InitLeftSound ==
  ASSUME ua \in UaType, NEW stage
  PROVE  Sound(InitLeft(stage)) /\ InitLeft(stage).up = FALSE
  BY StartedSound, DestroyedSound DEF InitLeft, Sound

\* A library that is connected is up and sound.
LEMMA ConnectedSound ==
  ASSUME Sound(ua)
  PROVE  Sound(Connected) /\ Connected.up
  BY StartedSound DEF Connected

\* If one of the first two entries is free, pjsua_acc_add takes the free one.
LEMMA FreeSlot ==
  ASSUME NEW u, NEW a \in {0, 1}, Accounts(u) = {a}
  PROVE  /\ AccIds \ Accounts(u) # {}
         /\ (CHOOSE s \in AccIds \ Accounts(u) :
                \A b \in AccIds \ Accounts(u) : s <= b) = 1 - a
  <1> DEFINE free == AccIds \ Accounts(u)
             Lowest(s) == s \in free /\ \A b \in free : s <= b
  <1>1. Lowest(1 - a)
    BY MaxAccsAssumption DEF AccIds
  <1>2. \A s : Lowest(s) => s = 1 - a
    BY <1>1, MaxAccsAssumption DEF AccIds
  <1> QED
    BY <1>1, <1>2

\* Adding an account next to a single one that is not registered.
LEMMA AddAccountSound ==
  ASSUME NEW u \in UaType, u.up,
         NEW a \in {0, 1}, Accounts(u) = {a},
         \A b \in AccIds : u.reg[b] \notin {"registering", "registered"},
         NEW d \in Domains, NEW valid \in BOOLEAN
  PROVE  LET r == AddAccount(u, d, valid)
         IN  /\ Sound(r)
             /\ r.g_acc_id \in Accounts(r) => r.acc[r.g_acc_id] = d
  <1> DEFINE r == AddAccount(u, d, valid)
             added == [u EXCEPT !.acc[1 - a] = d, !.reg[1 - a] = "registering",
                                !.g_acc_id = 1 - a]
  <1>1. r = IF valid THEN added ELSE Destroyed(u)
    BY FreeSlot DEF AddAccount
  <1>2. CASE ~valid
    BY <1>1, <1>2, DestroyedSound
  <1>3. CASE valid
    <2>1. AddAccount(u, d, valid) = added
      BY <1>1, <1>3
    <2>2. 1 - a \in {0, 1} /\ 1 - a \in AccIds /\ {a, 1 - a} = {0, 1}
      BY FirstEntries
    <2>3. /\ added.up
          /\ added.acc = [u.acc EXCEPT ![1 - a] = d]
          /\ added.reg = [u.reg EXCEPT ![1 - a] = "registering"]
          /\ added.g_acc_id = 1 - a
      BY DEF UaType
    <2>4. added \in UaType
      BY <2>2 DEF UaType, RegState
    <2>5. d # "none"
      BY DomainsAssumption
    <2>6. Accounts(added) = {0, 1}
      BY <2>2, <2>3, <2>5 DEF Accounts, UaType
    <2>7. \A b \in AccIds : InUse(added, b)
      BY <2>2, <2>3 DEF InUse, UaType
    <2>8. added.acc[added.g_acc_id] = d
      BY <2>2, <2>3 DEF UaType
    <2> HIDE DEF added, r
    <2>9. Table(added)
      BY <2>2, <2>3, <2>6, <2>7 DEF Table
    <2> QED
      BY <2>1, <2>3, <2>4, <2>8, <2>9 DEF Sound
  <1> QED
    BY <1>2, <1>3

\* Unregistering keeps both accounts, and goes back to account 0.
LEMMA UnregisterSound ==
  ASSUME NEW u, Sound(u), u.up
  PROVE  Sound(Unregister(u)) /\ Unregister(u).up
  <1> DEFINE g == u.g_acc_id
             r == [u EXCEPT !.reg[g] = IF @ = "registered" THEN "unregistering" ELSE @,
                            !.g_acc_id = 0]
  <1> USE FirstEntries
  <1>1. CASE Unregister(u) = u
    BY <1>1
  <1>2. CASE /\ Unregister(u) = r
             /\ g \in Accounts(u)
             /\ u.reg[g] \in {"registered", "unregistered"}
    <2>1. g \in AccIds /\ u \in UaType /\ Table(u)
      BY <1>2 DEF Sound, Accounts
    <2>2. /\ r.up
          /\ r.acc = u.acc
          /\ r.reg \in [AccIds -> RegState]
          /\ r.reg[g] \in {"unregistering", "unregistered"}
          /\ \A b \in AccIds \ {g} : r.reg[b] = u.reg[b]
          /\ r.g_acc_id = 0
      BY <1>2, <2>1 DEF UaType, RegState
    <2>3. r \in UaType
      BY <2>1, <2>2 DEF UaType
    <2>4. 1 \in Accounts(u)
      BY <1>2, <2>1 DEF Table
    <2> HIDE DEF r
    <2>5. Accounts(r) = Accounts(u)
      BY <2>2 DEF Accounts
    <2>6. \A b \in AccIds : InUse(r, b)
      BY <2>1, <2>2 DEF Table, InUse
    <2>7. Table(r)
      BY <2>1, <2>2, <2>4, <2>5, <2>6 DEF Table
    <2> QED
      BY <1>2, <2>2, <2>3, <2>7 DEF Sound
  <1> QED
    BY <1>1, <1>2 DEF Unregister

\* Deleting the account in use leaves one account, not registered.
LEMMA DeleteAccountLeavesOne ==
  ASSUME NEW u, Sound(u), u.up, 1 \in Accounts(u)
  PROVE  LET r == DeleteAccount(u)
         IN  /\ r \in UaType /\ r.up
             /\ \E a \in {0, 1} : Accounts(r) = {a}
             /\ \A b \in AccIds : r.reg[b] \notin {"registering", "registered"}
  <1> DEFINE g == u.g_acc_id
             r == DeleteAccount(u)
  <1>1. u \in UaType /\ Table(u) /\ Accounts(u) = {0, 1} /\ g \in {0, 1}
    BY DEF Sound, Table
  <1>2. g \in AccIds
    BY <1>1, FirstEntries
  <1>3. /\ r.up
        /\ r.acc = [u.acc EXCEPT ![g] = "none"]
        /\ r.reg = [u.reg EXCEPT ![g] = "none"]
        /\ r.g_acc_id = 0
    BY <1>1 DEF DeleteAccount, UaType
  <1>4. r \in UaType
    BY <1>1, <1>2, FirstEntries DEF DeleteAccount, UaType, RegState
  <1>5. Accounts(r) = {0, 1} \ {g}
    BY <1>1, <1>2, <1>3 DEF Accounts, UaType
  <1>6. \A b \in AccIds : r.reg[b] \notin {"registering", "registered"}
    BY <1>1, <1>2, <1>3 DEF Table, InUse, UaType
  <1> HIDE DEF r
  <1>7. {0, 1} \ {g} = {1 - g} /\ 1 - g \in {0, 1}
    BY <1>1
  <1> QED
    BY <1>3, <1>4, <1>5, <1>6, <1>7 DEF r

\* Setting the account: the library ends up sound, or down; and if it was
\* given a registrar, the account in use, if any, is at that registrar.
LEMMA SetAccountSound ==
  ASSUME NEW u, Sound(u), u.up,
         NEW d \in Domains \cup {Blank}, NEW valid \in BOOLEAN
  PROVE  LET r == SetAccount(u, d, valid)
         IN  /\ Sound(r)
             /\ d # Blank /\ r.g_acc_id \in Accounts(r) => r.acc[r.g_acc_id] = d
  <1>1. CASE d = Blank
    BY <1>1, UnregisterSound DEF SetAccount
  <1>2. CASE d # Blank /\ \A a, b \in Accounts(u) : a = b
    <2>1. Table(u) /\ u \in UaType
      BY DEF Sound
    <2>2. Accounts(u) = {0} /\ u.reg[0] = "none"
      BY <1>2, <2>1 DEF Table
    <2>3. \A b \in AccIds : u.reg[b] \notin {"registering", "registered"}
      BY <2>1, <2>2 DEF Table, InUse
    <2>4. SetAccount(u, d, valid) = AddAccount(u, d, valid) /\ d \in Domains
      BY <1>2 DEF SetAccount
    <2> QED
      BY <2>1, <2>2, <2>3, <2>4, AddAccountSound
  <1>3. CASE d # Blank /\ ~\A a, b \in Accounts(u) : a = b
    <2>1. u.g_acc_id \in Accounts(u) /\ 1 \in Accounts(u)
      BY <1>3 DEF Sound, Table
    <2>2. /\ SetAccount(u, d, valid) = AddAccount(DeleteAccount(u), d, valid)
          /\ d \in Domains
      BY <1>3, <2>1 DEF SetAccount
    <2>3. PICK a \in {0, 1} : Accounts(DeleteAccount(u)) = {a}
      BY <2>1, DeleteAccountLeavesOne
    <2> QED
      BY <2>1, <2>2, <2>3, DeleteAccountLeavesOne, AddAccountSound
  <1> QED
    BY <1>1, <1>2, <1>3

-----------------------------------------------------------------------------
(* The actions *)

\* With the stored settings, Account keeps the library sound, and a call that
\* follows leaves from the account they name.
LEMMA AccountSound ==
  ASSUME StackTypeOK, NEW u, Sound(u), u.up, Account(u)
  PROVE  /\ Sound(ua')
         /\ domain # Blank /\ ua'.g_acc_id \in Accounts(ua') => ua'.acc[ua'.g_acc_id] = domain
         /\ refused' \in BOOLEAN
         /\ ~refused' => ~refused /\ ua'.up
  <1>1. PICK valid \in BOOLEAN : ua' = SetAccount(u, domain, valid)
    BY DEF Account
  <1>2. domain \in Domains \cup {Blank}
    BY DEF StackTypeOK
  <1>3. /\ Sound(ua')
        /\ domain # Blank /\ ua'.g_acc_id \in Accounts(ua') => ua'.acc[ua'.g_acc_id] = domain
    BY <1>1, <1>2, SetAccountSound
  <1> QED
    BY <1>3 DEF Account, StackTypeOK

\* Starting the library opens both handles, and overwrites neither unless an
\* account was refused before.
LEMMA BringOpens ==
  ASSUME StackInv, Bring
  PROVE  /\ sock' = TRUE /\ conn' = TRUE
         /\ leaked' \in BOOLEAN
         /\ ~refused => ~leaked'
  BY DEF Bring, StackInv, StackTypeOK, HandlesFollowLibrary

LEMMA StackInitially == StackInit => StackInv
  <1> SUFFICES ASSUME StackInit PROVE StackInv
    OBVIOUS
  <1>1. ua \in UaType /\ ~ua.up /\ NoTable(ua)
    BY DEF StackInit, UaType, NoTable, NoAccounts, RegState
  <1>2. StackTypeOK
    BY <1>1 DEF StackInit, StackTypeOK, CallType
  <1> QED
    BY <1>1, <1>2 DEF StackInit, StackInv, Sound, CallsFromSettings, HandlesFollowLibrary

LEMMA StackInductive == StackInv /\ [StackNext]_stackVars => StackInv'
  <1> SUFFICES ASSUME StackInv, [StackNext]_stackVars PROVE StackInv'
    OBVIOUS
  <1>0. StackTypeOK /\ Sound(ua) /\ CallsFromSettings /\ HandlesFollowLibrary /\ ua \in UaType
    BY DEF StackInv, Sound
  <1>1. CASE ChangeSettings
    <2>1. StackTypeOK'
      BY <1>0, <1>1 DEF ChangeSettings, StackTypeOK
    <2>2. Sound(ua')
      BY <1>0, <1>1 DEF ChangeSettings
    <2> QED
      BY <1>0, <1>1, <2>1, <2>2
      DEF ChangeSettings, StackInv, CallsFromSettings, HandlesFollowLibrary
  <1>2. CASE InitFails
    <2>1. Sound(ua') /\ ua'.up = FALSE
      BY <1>0, <1>2, InitLeftSound DEF InitFails
    <2>2. leaked' \in BOOLEAN /\ (~refused => ~leaked')
      BY <1>0, <1>2 DEF InitFails, Overwrites, StackTypeOK, HandlesFollowLibrary
    <2>3. StackTypeOK'
      BY <1>0, <1>2, <2>1, <2>2 DEF InitFails, StackTypeOK, Sound
    <2>4. sock' = FALSE /\ conn' = FALSE /\ UNCHANGED <<refused, lastCall>>
      BY <1>2 DEF InitFails
    <2>5. CallsFromSettings' /\ HandlesFollowLibrary'
      BY <1>0, <2>1, <2>2, <2>4 DEF CallsFromSettings, HandlesFollowLibrary
    <2> QED
      BY <2>1, <2>3, <2>5 DEF StackInv
  <1>3. CASE StartLibrary
    <2>1. /\ Sound(ua')
          /\ refused' \in BOOLEAN
          /\ ~refused' => ~refused /\ ua'.up
      BY <1>0, <1>3, StartedSound, AccountSound DEF StartLibrary
    <2>2. /\ sock' = TRUE /\ conn' = TRUE /\ leaked' \in BOOLEAN
          /\ ~refused => ~leaked'
      BY <1>3, BringOpens DEF StartLibrary
    <2>3. StackTypeOK'
      BY <1>0, <1>3, <2>1, <2>2 DEF StartLibrary, StackTypeOK, Sound
    <2> QED
      BY <1>0, <1>3, <2>1, <2>2, <2>3
      DEF StartLibrary, StackInv, CallsFromSettings, HandlesFollowLibrary
  <1>4. CASE CallKey
    <2>1. /\ Sound(ua')
          /\ domain # Blank /\ ua'.g_acc_id \in Accounts(ua')
               => ua'.acc[ua'.g_acc_id] = domain
          /\ refused' \in BOOLEAN
          /\ ~refused' => ~refused /\ ua'.up
      BY <1>0, <1>4, ConnectedSound, AccountSound DEF CallKey
    <2>2. /\ sock' = TRUE /\ conn' = TRUE /\ leaked' \in BOOLEAN
          /\ ~refused => ~leaked'
      BY <1>4, BringOpens DEF CallKey
    <2>3. lastCall' \in CallType
      BY <1>0, <1>4, <2>1 DEF CallKey, StackTypeOK, CallType, Sound, UaType, Accounts
    <2>4. CallsFromSettings'
      BY <1>0, <1>4, <2>1 DEF CallKey, CallsFromSettings
    <2>5. StackTypeOK'
      BY <1>0, <1>4, <2>1, <2>2, <2>3 DEF CallKey, StackTypeOK, Sound
    <2> QED
      BY <1>4, <2>1, <2>2, <2>4, <2>5 DEF CallKey, StackInv, HandlesFollowLibrary
  <1>5. CASE StopLibrary
    <2>1. Sound(ua') /\ ua'.up = FALSE
      BY <1>0, <1>5, DestroyedSound DEF StopLibrary
    <2>2. StackTypeOK'
      BY <1>0, <1>5, <2>1 DEF StopLibrary, StackTypeOK, Sound
    <2> QED
      BY <1>0, <1>5, <2>1, <2>2
      DEF StopLibrary, StackInv, CallsFromSettings, HandlesFollowLibrary
  <1>6. ASSUME NEW a \in AccIds, RegResult(a)
        PROVE  StackInv'
    <2>1. PICK result \in RegState :
             /\ \/ ua.reg[a] = "registering" /\ result \in {"registered", "failed"}
                \/ ua.reg[a] = "registered" /\ result = "failed"
                \/ ua.reg[a] = "unregistering" /\ result \in {"unregistered", "failed"}
             /\ ua' = [ua EXCEPT !.reg[a] = result]
      BY <1>6 DEF RegResult
    <2>2. /\ ua'.up = ua.up
          /\ ua'.acc = ua.acc
          /\ ua'.g_acc_id = ua.g_acc_id
          /\ ua'.reg = [ua.reg EXCEPT ![a] = result]
          /\ ua' \in UaType
      BY <1>0, <2>1 DEF UaType
    <2>3. Accounts(ua') = Accounts(ua)
      BY <2>2 DEF Accounts
    <2>4. ua.up /\ Table(ua)
      BY <1>0, <1>6 DEF RegResult, Sound
    <2>5. \A b \in AccIds : InUse(ua', b)
      BY <1>0, <2>1, <2>2, <2>4 DEF Table, InUse, UaType
    <2>6. 1 \notin Accounts(ua') => ua'.reg[0] = "none"
      BY <1>0, <2>1, <2>2, <2>3, <2>4, FirstEntries DEF Table, UaType
    <2>7. Sound(ua')
      BY <2>2, <2>3, <2>4, <2>5, <2>6 DEF Sound, Table
    <2>8. StackTypeOK'
      BY <1>0, <1>6, <2>2 DEF RegResult, StackTypeOK
    <2> QED
      BY <1>0, <1>6, <2>2, <2>7, <2>8
      DEF RegResult, StackInv, CallsFromSettings, HandlesFollowLibrary
  <1>7. CASE LoadLeaves
    <2>1. Sound(ua') /\ ua'.up /\ UNCHANGED <<refused, domain, lastCall>>
      BY <1>0, <1>7, ConnectedSound DEF LoadLeaves
    <2>2. /\ sock' = TRUE /\ conn' = TRUE /\ leaked' \in BOOLEAN
          /\ ~refused => ~leaked'
      BY <1>7, BringOpens DEF LoadLeaves
    <2>3. StackTypeOK'
      BY <1>0, <2>1, <2>2 DEF StackTypeOK, Sound
    <2> QED
      BY <1>0, <2>1, <2>2, <2>3 DEF StackInv, CallsFromSettings, HandlesFollowLibrary
  <1>8. CASE UNCHANGED stackVars
    BY <1>8 DEF stackVars, StackInv, StackTypeOK, CallsFromSettings, HandlesFollowLibrary
  <1> QED
    BY <1>1, <1>2, <1>3, <1>4, <1>5, <1>6, <1>7, <1>8 DEF StackNext

LEMMA StackInvariance == StackSpec => []StackInv
  BY StackInitially, StackInductive, PTL DEF StackSpec

-----------------------------------------------------------------------------
(* Theorems *)

\* The variables keep their types: in particular g_acc_id is an entry of the
\* account table, or -1 before the first start.
THEOREM StackTypeCorrect == StackSpec => []StackTypeOK
  BY StackInvariance, PTL DEF StackInv

\* While the library runs, g_acc_id names an account (symbian_ua_set_account).
THEOREM AccountAlways == StackSpec => []GlobalAccountExists
  <1>1. StackInv => GlobalAccountExists
    BY DEF StackInv, Sound, Table, GlobalAccountExists
  <1> QED
    BY <1>1, StackInvariance, PTL

\* However large the table of the library is, two entries are enough for
\* symbian_ua_set_account.
THEOREM TwoAlways == StackSpec => []TwoAccounts
  <1>1. StackInv => TwoAccounts
    BY DEF StackInv, Sound, Table, NoTable, NoAccounts, Accounts, TwoAccounts
  <1> QED
    BY <1>1, StackInvariance, PTL

\* No account but the one in g_acc_id is, or is being, registered.
THEOREM OneAlways == StackSpec => []OneRegistration
  <1>1. StackInv => OneRegistration
    BY DEF StackInv, Sound, Table, NoTable, NoAccounts, InUse, OneRegistration
  <1> QED
    BY <1>1, StackInvariance, PTL

\* A call leaves from an account at the registrar of the settings, if any.
THEOREM CallsAlways == StackSpec => []CallsFromSettings
  BY StackInvariance, PTL DEF StackInv

\* Both network handles are open while the library runs and only then, until
\* an account is refused.
THEOREM HandlesAlways == StackSpec => []HandlesFollowLibrary
  BY StackInvariance, PTL DEF StackInv
=============================================================================
