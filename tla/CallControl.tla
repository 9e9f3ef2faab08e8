----------------------------- MODULE CallControl -----------------------------
(***************************************************************************)
(* The call handling of the S60 VoIP application: the glue symbian_ua.cpp  *)
(* over the pjsua library, the callbacks and the right soft key of the SIP *)
(* log view (SIPExLogView.cpp), and the SIP start / stop and Internet call *)
(* commands of the contacts view (VoIPListBoxView.cpp).                    *)
(*                                                                         *)
(* There is one thread.  What interleaves with it is the library: it calls *)
(* back whenever the scheduler runs, and the accept query opened by        *)
(* on_incoming_call runs a scheduler of its own until the user answers.    *)
(* Reentrant says whether the library delivers events in that inner loop;  *)
(* its sources are not in the repository, so both values are considered.   *)
(***************************************************************************)
EXTENDS Integers, Sequences

CONSTANTS
    Calls,          \* the call slots of the library (cfg.max_calls = 2)
    NoCall,         \* PJSUA_INVALID_ID
    MaxQueries,     \* bound on accept queries open one above the other
    Reentrant,      \* library events are delivered under an open query
    PeerReplaces    \* peers send INVITEs that replace an established call

ASSUME CallsAssumption == NoCall \notin Calls
ASSUME BoundAssumption == MaxQueries \in Nat \ {0}
ASSUME EnvAssumption   == Reentrant \in BOOLEAN /\ PeerReplaces \in BOOLEAN

VARIABLES
    running,        \* the process has not exited
    up,             \* pjsua_is_connected(): the library is initialised
    call,           \* per slot, the state of the library's INVITE session
    g_call_id,      \* the application's idea of its call
    queries,        \* the open accept queries, the last one on top; each
                    \*   remembers its call until the slot is given up
    view,           \* the active view: SIP log or contacts list, where the
                    \*   settings view, which has no call keys, counts as list
    label,          \* the text of the log view's right soft key
    number          \* the document holds a phone number to call

vars == <<running, up, call, g_call_id, queries, view, label, number>>
uiVars == <<view, label, number>>

CallState == {"null", "calling", "early", "confirmed", "ending"}

FlagsOK == running \in BOOLEAN /\ up \in BOOLEAN /\ number \in BOOLEAN

CallsOK ==
    /\ call \in [Calls -> CallState]
    /\ g_call_id \in Calls \cup {NoCall}
    /\ queries \in Seq(Calls \cup {NoCall})

KeyOK == view \in {"list", "log"} /\ label \in {"Call", "Hang Up", "Exit"}

TypeOK == FlagsOK /\ CallsOK /\ KeyOK

Init ==
    /\ running = TRUE
    /\ up = FALSE
    /\ call = [c \in Calls |-> "null"]
    /\ g_call_id = NoCall
    /\ queries = << >>
    /\ view = "list"
    /\ label = "Exit"
    /\ number = FALSE

-----------------------------------------------------------------------------
(* Helpers *)

\* Calls that are neither free nor being torn down.
Live(c) == call[c] \in {"calling", "early", "confirmed"}

\* Mutant: calls that are being ended do not count.
AnyCallLive == \E c \in Calls : Live(c)

\* symbian_ua_anycall: the library counts the calls it is still ending.
AnyCall == \E c \in Calls : call[c] # "null"

\* symbian_ua_endcall = pjsua_call_hangup_all: the end is asked for, and
\* reported later by Disconnected.
HungUp == [c \in Calls |-> IF Live(c) THEN "ending" ELSE call[c]]

\* SetCommandL changes the key of the current button group: the log view's
\* when that view is active and no query covers it.
SetLabel(l) ==
    label' = IF view = "log" /\ queries' = << >> THEN l ELSE label

\* The queries that asked about slot c are about no call any more.
Orphan(c) == [i \in DOMAIN queries |-> IF queries[i] = c THEN NoCall ELSE queries[i]]

LibraryRuns == running /\ up /\ (queries = << >> \/ Reentrant)
UserSeesViews == running /\ queries = << >>

-----------------------------------------------------------------------------
(* Callbacks of the library *)

\* Mutant: the busy test of on_incoming_call is missing.
IncomingCallNeverBusy(c) ==
    /\ LibraryRuns
    /\ call[c] = "null"
    /\ Len(queries) < MaxQueries
    /\ call' = [call EXCEPT ![c] = "early"]
    /\ g_call_id' = c
    /\ queries' = Append(queries, c)
    /\ UNCHANGED <<running, up>>
    /\ UNCHANGED uiVars

\* Mutant: the call is not remembered in g_call_id.
IncomingCallForgotten(c) ==
    /\ LibraryRuns
    /\ call[c] = "null"
    /\ Len(queries) < MaxQueries
    /\ call' = [call EXCEPT ![c] = "early"]
    /\ queries' = Append(queries, c)
    /\ UNCHANGED <<running, up, g_call_id>>
    /\ UNCHANGED uiVars

\* on_incoming_call, symbian_ua.cpp and SIPExLogView.cpp: busy while the
\* application has a call, otherwise ring and ask the user.
IncomingCall(c) ==
    /\ LibraryRuns
    /\ call[c] = "null"
    /\ \/ /\ g_call_id # NoCall
          /\ call' = [call EXCEPT ![c] = "ending"]
          /\ UNCHANGED <<g_call_id, queries>>
       \/ /\ g_call_id = NoCall
          /\ Len(queries) < MaxQueries
          /\ call' = [call EXCEPT ![c] = "early"]
          /\ g_call_id' = c
          /\ queries' = Append(queries, c)
    /\ UNCHANGED <<running, up>>
    /\ UNCHANGED uiVars

\* on_call_state in a state before DISCONNECTED: the remote party rings or
\* answers, or a handshake completes.  A call the application does not know
\* becomes its call when it has none.
CallProgress(c) ==
    /\ LibraryRuns
    /\ call[c] \in {"calling", "confirmed"}
    /\ \E s \in {call[c], "confirmed"} : call' = [call EXCEPT ![c] = s]
    /\ g_call_id' = IF g_call_id = NoCall THEN c ELSE g_call_id
    /\ UNCHANGED <<running, up, queries>>
    /\ UNCHANGED uiVars

\* Mutant: the end of any call clears g_call_id.
CallDisconnectedClears(c) ==
    /\ LibraryRuns
    /\ call[c] # "null"
    /\ call' = [call EXCEPT ![c] = "null"]
    /\ g_call_id' = NoCall
    /\ queries' = Orphan(c)
    /\ SetLabel("Exit")
    /\ UNCHANGED <<running, up, view, number>>

\* Mutant: the end of a call leaves g_call_id alone.
CallDisconnectedKeeps(c) ==
    /\ LibraryRuns
    /\ call[c] # "null"
    /\ call' = [call EXCEPT ![c] = "null"]
    /\ queries' = Orphan(c)
    /\ SetLabel("Exit")
    /\ UNCHANGED <<running, up, g_call_id, view, number>>

\* on_call_state in state DISCONNECTED, then on_call_end of the log view.
CallDisconnected(c) ==
    /\ LibraryRuns
    /\ call[c] # "null"
    /\ call' = [call EXCEPT ![c] = "null"]
    /\ g_call_id' = IF g_call_id = c THEN NoCall ELSE g_call_id
    /\ queries' = Orphan(c)
    /\ SetLabel("Exit")
    /\ UNCHANGED <<running, up, view, number>>

\* on_call_replaced only logs: the library has answered the new call itself
\* and ends the old one.
CallReplaced(old, new) ==
    /\ LibraryRuns
    /\ PeerReplaces
    /\ call[old] \in {"calling", "confirmed"}
    /\ call[new] = "null"
    /\ call' = [call EXCEPT ![old] = "ending", ![new] = "confirmed"]
    /\ UNCHANGED <<running, up, g_call_id, queries>>
    /\ UNCHANGED uiVars

-----------------------------------------------------------------------------
(* The user and the accept query *)

\* The rest of on_incoming_call: symbian_ua_answercall answers whatever call
\* g_call_id names now, and the library answers only a call that rings.
AcceptQuery ==
    /\ running
    /\ queries # << >>
    /\ queries' = SubSeq(queries, 1, Len(queries) - 1)
    /\ call' = [c \in Calls |->
                    IF c = g_call_id /\ call[c] = "early" THEN "confirmed" ELSE call[c]]
    /\ SetLabel("Hang Up")
    /\ UNCHANGED <<running, up, g_call_id, view, number>>

\* Mutant: declining only closes the query.
DeclineQuerySilently ==
    /\ running
    /\ queries # << >>
    /\ queries' = SubSeq(queries, 1, Len(queries) - 1)
    /\ UNCHANGED <<running, up, call, g_call_id>>
    /\ UNCHANGED uiVars

\* ... or symbian_ua_endcall ends every call there is.
DeclineQuery ==
    /\ running
    /\ queries # << >>
    /\ queries' = SubSeq(queries, 1, Len(queries) - 1)
    /\ call' = HungUp
    /\ UNCHANGED <<running, up, g_call_id>>
    /\ UNCHANGED uiVars

-----------------------------------------------------------------------------
(* CSIPExLogView::CallSoftKeyPressedL, case by case *)

SoftKeyEndsCall ==
    /\ UserSeesViews
    /\ view = "log"
    /\ AnyCall
    /\ call' = HungUp
    /\ UNCHANGED <<running, up, g_call_id, queries>>
    /\ UNCHANGED uiVars

\* Not handled: CSIPExLogView::HandleCommandL exits the application.
SoftKeyExits ==
    /\ UserSeesViews
    /\ view = "log"
    /\ ~AnyCall
    /\ ~number
    /\ running' = FALSE
    /\ UNCHANGED <<up, call, g_call_id, queries>>
    /\ UNCHANGED uiVars

\* Mutant: the key is not set back when the URL is refused.
MakeCallKeepsKey ==
    \/ /\ up'
       /\ \E c \in Calls : /\ call[c] = "null"
                           /\ call' = [call EXCEPT ![c] = "calling"]
                           /\ g_call_id' = c
       /\ SetLabel("Hang Up")
    \/ UNCHANGED <<call, g_call_id, label>>

\* symbian_ua_makecall: the status of pjsua_call_make_call is not looked at,
\* and g_call_id is written by the library when it succeeds.
MakeCall ==
    \/ /\ up'
       /\ \E c \in Calls : /\ call[c] = "null"
                           /\ call' = [call EXCEPT ![c] = "calling"]
                           /\ g_call_id' = c
       /\ SetLabel("Hang Up")
    \/ /\ UNCHANGED <<call, g_call_id>>    \* the library refused the call
       /\ SetLabel("Hang Up")
    \/ /\ UNCHANGED <<call, g_call_id>>    \* not a SIP URL: PJ_EINVAL
       /\ SetLabel("Exit")

\* Connect first if need be; a symbian_ua_set_account that cannot add the
\* account destroys the library, and the call is attempted all the same.
SoftKeyCalls ==
    /\ UserSeesViews
    /\ view = "log"
    /\ ~AnyCall
    /\ number
    /\ UNCHANGED <<running, queries, view>>
    /\ \/ /\ up' \in {up, TRUE}       \* symbian_ua_init failed, or the settings
          /\ UNCHANGED <<call, g_call_id, label, number>>       \* are unreadable
       \/ /\ up' \in BOOLEAN
          /\ number' = FALSE
          /\ MakeCall

-----------------------------------------------------------------------------
(* The contacts view and the tabs *)

\* DoSIPStart: initialise, then set the account; either may fail.
SIPStart ==
    /\ UserSeesViews
    /\ view = "list"
    /\ ~up
    /\ up' \in BOOLEAN
    /\ UNCHANGED <<running, call, g_call_id, queries>>
    /\ UNCHANGED uiVars

\* Mutant: SIP stop resets g_call_id the way set_account resets g_acc_id.
SIPStopResetsToZero ==
    /\ UserSeesViews
    /\ view = "list"
    /\ up
    /\ up' = FALSE
    /\ g_call_id' = 0
    /\ call' = [c \in Calls |-> "null"]
    /\ UNCHANGED <<running, queries>>
    /\ UNCHANGED uiVars

\* DoSIPStop: pjsua_destroy hangs up and waits about a second; the calls in
\* "heard" end within it and are reported, g_call_id is not reset otherwise.
SIPStop ==
    /\ UserSeesViews
    /\ view = "list"
    /\ up
    /\ up' = FALSE
    /\ \E heard \in SUBSET {c \in Calls : call[c] # "null"} :
          g_call_id' = IF g_call_id \in heard THEN NoCall ELSE g_call_id
    /\ call' = [c \in Calls |-> "null"]
    /\ UNCHANGED <<running, queries>>
    /\ UNCHANGED uiVars

\* CSIPExLogView::DoActivateL
ActivateLog ==
    /\ view' = "log"
    /\ label' = IF number' THEN "Call" ELSE "Exit"

\* Left and right arrow and EAknSoftkeyBack.
SwitchTab ==
    /\ UserSeesViews
    /\ \/ /\ view = "list"
          /\ UNCHANGED number
          /\ ActivateLog
       \/ /\ view = "log"
          /\ view' = "list"
          /\ UNCHANGED <<label, number>>
    /\ UNCHANGED <<running, up, call, g_call_id, queries>>

\* DoInternetCall: the chosen number is stored without its leading "+", and
\* may be blank then; the log view is shown.  A number too long for the
\* document (StorePhoneNumber) leaves before anything has changed.
InternetCall ==
    /\ UserSeesViews
    /\ view = "list"
    /\ number' \in BOOLEAN
    /\ ActivateLog
    /\ UNCHANGED <<running, up, call, g_call_id, queries>>

\* The Exit commands: CVoIPAppUi::HandleCommandL calls User::Exit at once.
ExitCommand ==
    /\ UserSeesViews
    /\ running' = FALSE
    /\ UNCHANGED <<up, call, g_call_id, queries>>
    /\ UNCHANGED uiVars

-----------------------------------------------------------------------------
LibraryStep ==
    \/ \E c \in Calls : IncomingCall(c) \/ CallProgress(c) \/ CallDisconnected(c)
    \/ \E old, new \in Calls : CallReplaced(old, new)

UserStep ==
    \/ AcceptQuery \/ DeclineQuery
    \/ SoftKeyEndsCall \/ SoftKeyExits \/ SoftKeyCalls
    \/ SIPStart \/ SIPStop \/ SwitchTab \/ InternetCall \/ ExitCommand

Next == LibraryStep \/ UserStep

Spec == Init /\ [][Next]_vars

\* The library tears down a call it was told to end: the peer answers, or a
\* transaction times out.  Nothing is asked of the user or of the peers.
Fairness ==
    \A c \in Calls : WF_vars(call[c] = "ending" /\ CallDisconnected(c))

FairSpec == Spec /\ Fairness

-----------------------------------------------------------------------------
(* Properties *)

\* A call that rings is the application's call, and the query on top of the
\* screen is the one that asks about it (on_incoming_call): whatever came and
\* went under older queries, "accept?" is never about another call.
RingingCallIsAsked ==
    \A c \in Calls : call[c] = "early" =>
        /\ g_call_id = c
        /\ queries # << >>
        /\ queries[Len(queries)] = c

\* Unless peers replace calls, every call that is not ending is the call in
\* g_call_id: the busy test of on_incoming_call and the call count tested by
\* CallSoftKeyPressedL together keep a second one out.
LiveCallIsGlobal ==
    ~PeerReplaces => \A c \in Calls : Live(c) => g_call_id = c

\* If the library stays silent under an open query, symbian_ua_answercall
\* finds a call to answer, as its assertion wants (symbian_ua.cpp:515).
AcceptFindsCall ==
    ~Reentrant /\ queries # << >> =>
        /\ Len(queries) = 1
        /\ g_call_id # NoCall
        /\ call[g_call_id] = "early"

\* While the key of the log view reads "Call" there is a number to call:
\* pressing it never ends the application (CASE 2 of CallSoftKeyPressedL).
CallKeyHasNumber ==
    view = "log" /\ label = "Call" => number

\* Only the query about it, or nobody, connects an incoming call.
AnsweredAsAsked ==
    [][\A c \in Calls :
          call[c] = "early" /\ call'[c] = "confirmed" =>
              queries[Len(queries)] = c /\ Len(queries') = Len(queries) - 1]_vars

\* A call the application has ended stops blocking incoming calls: g_call_id
\* is released, unless SIP is stopped or the application left meanwhile.
EndedCallReleased ==
    \A c \in Calls :
        g_call_id = c /\ call[c] = "ending" ~> g_call_id # c \/ ~up \/ ~running

\* An incoming call is refused as busy only while there is another call:
\* otherwise it rings, "Automatically answer incoming calls with 180/Ringing"
\* (symbian_ua.cpp:107).
BusyOnlyInCall ==
    [][\A c \in Calls :
          call[c] = "null" /\ call'[c] = "ending" => AnyCall]_vars

\* A key that reads "Hang Up" never ends the application: without a call and
\* a number the key should at most lead back, "we haven't registered pjsip_ua
\* or we don't have phone number then just return to contatcs view"
\* (SIPExLogView.cpp:451).
HangUpKeepsRunning == [][SoftKeyExits => label # "Hang Up"]_vars

\* While no peer replaces calls, the user has a phone with one line.
LinePhase == [calling |-> "dialing", early |-> "ringing", confirmed |-> "talking",
              null |-> "idle", ending |-> "idle"]

Line == INSTANCE PhoneLine WITH line <- [c \in Calls |-> LinePhase[call[c]]]

OneLine == Line!LineSpec

OneParty == Line!OneParty
=============================================================================
