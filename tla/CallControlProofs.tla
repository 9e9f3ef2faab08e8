--------------------------- MODULE CallControlProofs ---------------------------
(***************************************************************************)
(* Proofs about CallControl, for any set of call slots, any bound on the   *)
(* nesting of accept queries, and both kinds of library and of peers.      *)
(***************************************************************************)
EXTENDS CallControl, SequenceTheorems, TLAPS

(***************************************************************************)
(* Type correctness, one group of variables at a time.                     *)
(***************************************************************************)

\* The state the application starts in has the right types.
LEMMA InitType == Init => TypeOK
<1>1. Init => FlagsOK
  BY DEF Init, FlagsOK
<1>2. Init => CallsOK
  BY DEF Init, CallsOK, CallState
<1>3. Init => KeyOK
  BY DEF Init, KeyOK
<1> QED
  BY <1>1, <1>2, <1>3 DEF TypeOK

\* No step gives a flag another value than TRUE or FALSE.
LEMMA NextFlags == FlagsOK /\ [Next]_vars => FlagsOK'
  BY DEF FlagsOK, Next, LibraryStep, UserStep, IncomingCall, CallProgress,
         CallDisconnected, CallReplaced, AcceptQuery, DeclineQuery,
         SoftKeyEndsCall, SoftKeyExits, SoftKeyCalls, SIPStart, SIPStop,
         SwitchTab, InternetCall, ActivateLog, ExitCommand, uiVars, vars

\* No step leaves the views or the texts of the key.
LEMMA NextKey == KeyOK /\ [Next]_vars => KeyOK'
  BY DEF KeyOK, Next, LibraryStep, UserStep, IncomingCall, CallProgress,
         CallDisconnected, CallReplaced, AcceptQuery, DeclineQuery,
         SoftKeyEndsCall, SoftKeyExits, SoftKeyCalls, MakeCall, SIPStart, SIPStop,
         SwitchTab, InternetCall, ActivateLog, ExitCommand, SetLabel, uiVars, vars

\* What is left when the top query is closed.
LEMMA PopQuery ==
    ASSUME CallsOK, queries # << >>
    PROVE  /\ SubSeq(queries, 1, Len(queries) - 1) \in Seq(Calls \cup {NoCall})
           /\ Len(SubSeq(queries, 1, Len(queries) - 1)) = Len(queries) - 1
<1>1. Len(queries) \in Nat /\ Len(queries) > 0
  BY DEF CallsOK
<1>2. \A i \in 1 .. Len(queries) - 1 : queries[i] \in Calls \cup {NoCall}
  BY DEF CallsOK
<1>3. 1 \in Int /\ Len(queries) - 1 \in Int
  BY <1>1
<1>4. CASE Len(queries) = 1
  <2>1. SubSeq(queries, 1, Len(queries) - 1) = << >>
    BY <1>3, <1>4, SubSeqEmpty
  <2> QED
    BY <1>4, <2>1
<1>5. CASE Len(queries) > 1
  <2>1. 1 <= Len(queries) - 1 /\ (Len(queries) - 1) - 1 + 1 = Len(queries) - 1
    BY <1>1, <1>5
  <2> QED
    BY <1>2, <1>3, <2>1, SubSeqProperties
<1>6. \A n \in Nat : n > 0 => n = 1 \/ n > 1
  OBVIOUS
<1> QED
  BY <1>1, <1>4, <1>5, <1>6, Zenon

\* No step leaves the call states, forges a call id, or queries about nothing.
LEMMA NextCalls == CallsOK /\ [Next]_vars => CallsOK'
<1> SUFFICES ASSUME CallsOK, [Next]_vars PROVE CallsOK'
  OBVIOUS
<1> USE DEF CallsOK, CallState
<1>1. ASSUME NEW c \in Calls, IncomingCall(c) PROVE CallsOK'
  BY <1>1 DEF IncomingCall
<1>2. ASSUME NEW c \in Calls, CallProgress(c) PROVE CallsOK'
  BY <1>2 DEF CallProgress
<1>3. ASSUME NEW c \in Calls, CallDisconnected(c) PROVE CallsOK'
  <2>1. Orphan(c) \in Seq(Calls \cup {NoCall})
    BY DEF Orphan
  <2> QED
    BY <1>3, <2>1 DEF CallDisconnected
<1>4. ASSUME NEW old \in Calls, NEW new \in Calls, CallReplaced(old, new) PROVE CallsOK'
  BY <1>4 DEF CallReplaced
<1>5. CASE AcceptQuery
  <2>1. queries' \in Seq(Calls \cup {NoCall})
    BY <1>5, PopQuery DEF AcceptQuery
  <2>2. call' \in [Calls -> CallState]
    BY <1>5 DEF AcceptQuery
  <2> QED
    BY <1>5, <2>1, <2>2 DEF AcceptQuery
<1>6. CASE DeclineQuery
  <2>1. queries' \in Seq(Calls \cup {NoCall})
    BY <1>6, PopQuery DEF DeclineQuery
  <2> QED
    BY <1>6, <2>1 DEF DeclineQuery, HungUp
<1>7. CASE SoftKeyEndsCall
  BY <1>7 DEF SoftKeyEndsCall, HungUp
<1>8. CASE SoftKeyCalls
  BY <1>8 DEF SoftKeyCalls, MakeCall
<1>9. CASE SIPStop
  BY <1>9 DEF SIPStop
<1>10. CASE SoftKeyExits \/ SIPStart \/ SwitchTab \/ InternetCall \/ ExitCommand
  BY <1>10 DEF SoftKeyExits, SIPStart, SwitchTab, InternetCall, ExitCommand
<1>11. CASE UNCHANGED vars
  BY <1>11 DEF vars
<1> QED
  BY <1>1, <1>2, <1>3, <1>4, <1>5, <1>6, <1>7, <1>8, <1>9, <1>10, <1>11
  DEF Next, LibraryStep, UserStep

\* The variables of the call handling always have their types.
THEOREM TypeCorrect == Spec => []TypeOK
<1>1. TypeOK /\ [Next]_vars => TypeOK'
  BY NextFlags, NextKey, NextCalls DEF TypeOK
<1> QED
  BY InitType, <1>1, PTL DEF Spec

(***************************************************************************)
(* Who the accept query asks about.                                        *)
(***************************************************************************)

\* A call that rings keeps being the one asked about on top of the screen:
\* the invariant is inductive once the types are known.
LEMMA NextRinging ==
    TypeOK /\ RingingCallIsAsked /\ [Next]_vars => RingingCallIsAsked'
<1> SUFFICES ASSUME CallsOK, RingingCallIsAsked, [Next]_vars
             PROVE  RingingCallIsAsked'
  BY DEF TypeOK
<1> USE DEF CallsOK, CallState, RingingCallIsAsked
<1>1. ASSUME NEW c \in Calls, IncomingCall(c) PROVE RingingCallIsAsked'
  <2>1. CASE g_call_id # NoCall /\ call' = [call EXCEPT ![c] = "ending"]
             /\ UNCHANGED <<g_call_id, queries>>
    BY <2>1
  <2>2. CASE g_call_id = NoCall /\ call' = [call EXCEPT ![c] = "early"]
             /\ g_call_id' = c /\ queries' = Append(queries, c)
    <3>1. \A d \in Calls : call[d] # "early"
      BY <2>2, CallsAssumption
    <3>2. queries' # << >> /\ queries'[Len(queries')] = c
      BY <2>2
    <3> QED
      BY <2>2, <3>1, <3>2
  <2> QED
    BY <1>1, <2>1, <2>2 DEF IncomingCall
<1>2. ASSUME NEW c \in Calls, CallProgress(c) PROVE RingingCallIsAsked'
  <2>1. \A d \in Calls : call'[d] = "early" => call[d] = "early"
    BY <1>2 DEF CallProgress
  <2>2. \A d \in Calls : call[d] = "early" => g_call_id' = d
    BY <1>2, CallsAssumption DEF CallProgress
  <2> QED
    BY <1>2, <2>1, <2>2 DEF CallProgress
<1>3. ASSUME NEW c \in Calls, CallDisconnected(c) PROVE RingingCallIsAsked'
  <2>1. SUFFICES ASSUME NEW d \in Calls, call'[d] = "early"
                 PROVE  g_call_id' = d /\ queries' # << >> /\ queries'[Len(queries')] = d
    OBVIOUS
  <2>2. call[d] = "early" /\ d # c
    BY <1>3, <2>1 DEF CallDisconnected
  <2>3. g_call_id = d /\ queries # << >> /\ queries[Len(queries)] = d
    BY <2>2
  <2>4. Len(queries) \in DOMAIN queries
    BY <2>3
  <2>5. DOMAIN queries' = DOMAIN queries /\ queries'[Len(queries)] = d
    BY <1>3, <2>2, <2>3, <2>4 DEF CallDisconnected, Orphan
  <2>6. queries' \in Seq(Calls \cup {NoCall})
    BY <1>3, NextCalls DEF Next, LibraryStep
  <2>7. Len(queries') = Len(queries)
    BY <2>5, <2>6
  <2> QED
    BY <1>3, <2>2, <2>3, <2>4, <2>5, <2>6, <2>7 DEF CallDisconnected
<1>4. ASSUME NEW old \in Calls, NEW new \in Calls, CallReplaced(old, new)
      PROVE  RingingCallIsAsked'
  BY <1>4 DEF CallReplaced
<1>5. CASE AcceptQuery
  <2>1. \A d \in Calls : call'[d] # "early"
    BY <1>5 DEF AcceptQuery
  <2> QED
    BY <2>1
<1>6. CASE DeclineQuery
  <2>1. \A d \in Calls : call'[d] # "early"
    BY <1>6 DEF DeclineQuery, HungUp, Live
  <2> QED
    BY <2>1
<1>7. CASE SoftKeyEndsCall
  BY <1>7 DEF SoftKeyEndsCall, UserSeesViews, HungUp, Live
<1>8. CASE SoftKeyCalls
  BY <1>8 DEF SoftKeyCalls, MakeCall, AnyCall
<1>9. CASE SIPStop
  BY <1>9 DEF SIPStop
<1>10. CASE SoftKeyExits \/ SIPStart \/ SwitchTab \/ InternetCall \/ ExitCommand
  BY <1>10 DEF SoftKeyExits, SIPStart, SwitchTab, InternetCall, ExitCommand
<1>11. CASE UNCHANGED vars
  BY <1>11 DEF vars
<1> QED
  BY <1>1, <1>2, <1>3, <1>4, <1>5, <1>6, <1>7, <1>8, <1>9, <1>10, <1>11
  DEF Next, LibraryStep, UserStep

\* However calls come and go under open queries, the topmost query is about
\* the call that rings.
THEOREM AskedAlways == Spec => []RingingCallIsAsked
<1>1. Init => RingingCallIsAsked
  BY DEF Init, RingingCallIsAsked
<1> QED
  BY <1>1, TypeCorrect, NextRinging, PTL DEF Spec

\* An incoming call is connected by the query that asked about it, and by
\* nothing else.
THEOREM AnsweredAlways == Spec => AnsweredAsAsked
<1> DEFINE Asked ==
      \A c \in Calls :
          call[c] = "early" /\ call'[c] = "confirmed" =>
              queries[Len(queries)] = c /\ Len(queries') = Len(queries) - 1
<1>1. TypeOK /\ RingingCallIsAsked /\ [Next]_vars => [Asked]_vars
  <2> SUFFICES ASSUME CallsOK, RingingCallIsAsked, Next,
                      NEW c \in Calls, call[c] = "early", call'[c] = "confirmed"
               PROVE  queries[Len(queries)] = c /\ Len(queries') = Len(queries) - 1
    BY DEF TypeOK
  <2> USE DEF CallsOK, CallState
  <2>1. queries # << >> /\ queries[Len(queries)] = c
    BY DEF RingingCallIsAsked
  <2>2. CASE AcceptQuery
    BY <2>1, <2>2, PopQuery DEF AcceptQuery
  <2>3. ASSUME NEW d \in Calls,
               IncomingCall(d) \/ CallProgress(d) \/ CallDisconnected(d)
        PROVE  FALSE
    BY <2>3 DEF IncomingCall, CallProgress, CallDisconnected
  <2>4. ASSUME NEW old \in Calls, NEW new \in Calls, CallReplaced(old, new) PROVE FALSE
    BY <2>4 DEF CallReplaced
  <2>5. CASE DeclineQuery \/ SoftKeyEndsCall
    BY <2>5 DEF DeclineQuery, SoftKeyEndsCall, HungUp, Live
  <2>6. CASE SoftKeyCalls
    BY <2>6 DEF SoftKeyCalls, MakeCall, AnyCall
  <2>7. CASE SoftKeyExits \/ SIPStart \/ SIPStop \/ SwitchTab \/ InternetCall \/ ExitCommand
    BY <2>7 DEF SoftKeyExits, SIPStart, SIPStop, SwitchTab, InternetCall, ExitCommand
  <2> QED
    BY <2>2, <2>3, <2>4, <2>5, <2>6, <2>7 DEF Next, LibraryStep, UserStep
<1> QED
  BY <1>1, TypeCorrect, AskedAlways, PTL DEF Spec, AnsweredAsAsked

(***************************************************************************)
(* One line, while no peer replaces calls.                                 *)
(***************************************************************************)

\* Every call that is not ending stays the call in g_call_id.
LEMMA NextLive ==
    TypeOK /\ LiveCallIsGlobal /\ [Next]_vars => LiveCallIsGlobal'
<1> SUFFICES ASSUME CallsOK, LiveCallIsGlobal, [Next]_vars, ~PeerReplaces,
                    NEW d \in Calls, Live(d)'
             PROVE  g_call_id' = d
  BY DEF TypeOK, LiveCallIsGlobal
<1> USE CallsAssumption DEF CallsOK, CallState, LiveCallIsGlobal, Live
<1>1. ASSUME NEW c \in Calls, IncomingCall(c) PROVE g_call_id' = d
  BY <1>1 DEF IncomingCall
<1>2. ASSUME NEW c \in Calls, CallProgress(c) PROVE g_call_id' = d
  BY <1>2 DEF CallProgress
<1>3. ASSUME NEW c \in Calls, CallDisconnected(c) PROVE g_call_id' = d
  BY <1>3 DEF CallDisconnected
<1>4. ASSUME NEW old \in Calls, NEW new \in Calls, CallReplaced(old, new) PROVE FALSE
  BY <1>4 DEF CallReplaced
<1>5. CASE AcceptQuery
  BY <1>5 DEF AcceptQuery
<1>6. CASE DeclineQuery \/ SoftKeyEndsCall
  BY <1>6 DEF DeclineQuery, SoftKeyEndsCall, HungUp
<1>7. CASE SoftKeyCalls
  BY <1>7 DEF SoftKeyCalls, MakeCall, AnyCall
<1>8. CASE SIPStop
  BY <1>8 DEF SIPStop
<1>9. CASE SoftKeyExits \/ SIPStart \/ SwitchTab \/ InternetCall \/ ExitCommand
  BY <1>9 DEF SoftKeyExits, SIPStart, SwitchTab, InternetCall, ExitCommand
<1>10. CASE UNCHANGED vars
  BY <1>10 DEF vars
<1> QED
  BY <1>1, <1>2, <1>3, <1>4, <1>5, <1>6, <1>7, <1>8, <1>9, <1>10
  DEF Next, LibraryStep, UserStep

\* Unless peers replace calls, g_call_id names every call that is not ending.
THEOREM LiveAlways == Spec => []LiveCallIsGlobal
<1>1. Init => LiveCallIsGlobal
  BY DEF Init, LiveCallIsGlobal, Live
<1> QED
  BY <1>1, TypeCorrect, NextLive, PTL DEF Spec

(***************************************************************************)
(* The assertion of symbian_ua_answercall, with a library that is silent   *)
(* under an open query.                                                    *)
(***************************************************************************)

\* The query stays alone, and its call keeps ringing under it.
LEMMA NextAccept == TypeOK /\ AcceptFindsCall /\ [Next]_vars => AcceptFindsCall'
<1> SUFFICES ASSUME CallsOK, AcceptFindsCall, [Next]_vars, ~Reentrant, queries' # << >>
             PROVE  Len(queries') = 1 /\ g_call_id' # NoCall /\ call'[g_call_id'] = "early"
  BY DEF TypeOK, AcceptFindsCall
<1> USE CallsAssumption DEF CallsOK, CallState, AcceptFindsCall
<1>1. ASSUME NEW c \in Calls, IncomingCall(c)
      PROVE  Len(queries') = 1 /\ g_call_id' # NoCall /\ call'[g_call_id'] = "early"
  <2>1. queries = << >>
    BY <1>1 DEF IncomingCall, LibraryRuns
  <2>2. g_call_id = NoCall /\ g_call_id' = c /\ call' = [call EXCEPT ![c] = "early"]
        /\ queries' = Append(queries, c)
    BY <1>1, <2>1 DEF IncomingCall
  <2>3. Len(queries') = 1
    BY <2>1, <2>2
  <2> QED
    BY <2>2, <2>3
<1>2. ASSUME NEW c \in Calls, CallProgress(c) PROVE FALSE
  BY <1>2 DEF CallProgress, LibraryRuns
<1>3. ASSUME NEW c \in Calls, CallDisconnected(c) PROVE FALSE
  <2>1. queries = << >>
    BY <1>3 DEF CallDisconnected, LibraryRuns
  <2>2. queries' = << >>
    BY <1>3, <2>1 DEF CallDisconnected, Orphan
  <2> QED
    BY <2>2
<1>4. ASSUME NEW old \in Calls, NEW new \in Calls, CallReplaced(old, new) PROVE FALSE
  BY <1>4 DEF CallReplaced, LibraryRuns
<1>5. CASE AcceptQuery \/ DeclineQuery
  <2>1. queries # << >> /\ Len(queries) = 1
    BY <1>5 DEF AcceptQuery, DeclineQuery
  <2>2. queries' \in Seq(Calls \cup {NoCall}) /\ Len(queries') = Len(queries) - 1
    BY <1>5, <2>1, PopQuery DEF AcceptQuery, DeclineQuery
  <2> QED
    BY <2>1, <2>2
<1>6. CASE SoftKeyEndsCall \/ SoftKeyCalls
  BY <1>6 DEF SoftKeyEndsCall, SoftKeyCalls, UserSeesViews
<1>7. CASE SoftKeyExits \/ SIPStart \/ SIPStop \/ SwitchTab \/ InternetCall \/ ExitCommand
  BY <1>7 DEF SoftKeyExits, SIPStart, SIPStop, SwitchTab, InternetCall, ExitCommand,
              UserSeesViews
<1>8. CASE UNCHANGED vars
  BY <1>8 DEF vars
<1> QED
  BY <1>1, <1>2, <1>3, <1>4, <1>5, <1>6, <1>7, <1>8 DEF Next, LibraryStep, UserStep

\* With such a library symbian_ua_answercall always has a ringing call.
THEOREM AcceptAlways == Spec => []AcceptFindsCall
<1>1. Init => AcceptFindsCall
  BY DEF Init, AcceptFindsCall
<1> QED
  BY <1>1, TypeCorrect, NextAccept, PTL DEF Spec

(***************************************************************************)
(* The right soft key.                                                     *)
(***************************************************************************)

\* Every action that blanks the number also takes "Call" off the key.
LEMMA NextKeyNumber == CallKeyHasNumber /\ [Next]_vars => CallKeyHasNumber'
  BY DEF CallKeyHasNumber, Next, LibraryStep, UserStep, IncomingCall, CallProgress,
         CallDisconnected, CallReplaced, AcceptQuery, DeclineQuery, UserSeesViews,
         SoftKeyEndsCall, SoftKeyExits, SoftKeyCalls, MakeCall, SIPStart, SIPStop,
         SwitchTab, InternetCall, ActivateLog, ExitCommand, SetLabel, uiVars, vars

\* A key that reads "Call" never ends the application.
THEOREM CallKeyAlways == Spec => []CallKeyHasNumber
<1>1. Init => CallKeyHasNumber
  BY DEF Init, CallKeyHasNumber
<1> QED
  BY <1>1, NextKeyNumber, PTL DEF Spec

(***************************************************************************)
(* CallControl implements PhoneLine.                                       *)
(***************************************************************************)

\* A step that ends every call, or the only one, frees the line; one that
\* ends no live call is not seen by the user.
LEMMA LineCleared ==
    ASSUME CallsOK, CallsOK', \A c \in Calls : ~Live(c)'
    PROVE  Line!Release \/ UNCHANGED [c \in Calls |-> LinePhase[call[c]]]
<1> USE DEF CallsOK, CallState, LinePhase, Live
<1>1. \A c \in Calls : LinePhase[call'[c]] = "idle"
  OBVIOUS
<1>2. CASE \E c \in Calls : LinePhase[call[c]] # "idle"
  BY <1>1, <1>2 DEF Line!Release, Line!Free
<1>3. CASE \A c \in Calls : LinePhase[call[c]] = "idle"
  BY <1>1, <1>3
<1> QED
  BY <1>2, <1>3

\* Every step of the application is a step of the one-line phone or none.
LEMMA NextLine ==
    ASSUME TypeOK, TypeOK', LiveCallIsGlobal, ~PeerReplaces, [Next]_vars
    PROVE  [Line!LineNext]_[c \in Calls |-> LinePhase[call[c]]]
<1> DEFINE L == [c \in Calls |-> LinePhase[call[c]]]
<1> SUFFICES Line!LineNext \/ UNCHANGED L
  OBVIOUS
<1> USE CallsAssumption DEF CallsOK, CallState, LinePhase, TypeOK
<1>0. \A c \in Calls : Live(c) => g_call_id = c
  BY DEF LiveCallIsGlobal
<1>1. ASSUME NEW c \in Calls, IncomingCall(c) PROVE Line!LineNext \/ UNCHANGED L
  <2>1. CASE call' = [call EXCEPT ![c] = "ending"]
    BY <1>1, <2>1 DEF IncomingCall
  <2>2. CASE g_call_id = NoCall /\ call' = [call EXCEPT ![c] = "early"]
    <3>1. Line!Free
      BY <1>0, <2>2 DEF Line!Free, Live
    <3>2. L' = [L EXCEPT ![c] = "ringing"]
      BY <2>2
    <3>3. Line!Ring(c)
      BY <3>1, <3>2 DEF Line!Ring
    <3> QED
      BY <3>3 DEF Line!LineNext
  <2> QED
    BY <1>1, <2>1, <2>2 DEF IncomingCall
<1>2. ASSUME NEW c \in Calls, CallProgress(c) PROVE Line!LineNext \/ UNCHANGED L
  <2>1. CASE call[c] = "calling" /\ call' = [call EXCEPT ![c] = "confirmed"]
    <3>1. L[c] = "dialing"
      BY <2>1
    <3>2. \A d \in Calls : L'[d] = IF d = c THEN "talking" ELSE L[d]
      BY <2>1
    <3>3. L' = [L EXCEPT ![c] = "talking"]
      BY <3>2, Zenon
    <3>4. Line!Answer(c)
      BY <3>1, <3>3 DEF Line!Answer
    <3> QED
      BY <3>4 DEF Line!LineNext
  <2>2. CASE call' = call
    BY <2>2
  <2> QED
    BY <1>2, <2>1, <2>2 DEF CallProgress
<1>3. ASSUME NEW c \in Calls, CallDisconnected(c) PROVE Line!LineNext \/ UNCHANGED L
  <2>1. CASE Live(c)
    <3>1. \A d \in Calls : ~Live(d)'
      BY <1>0, <1>3, <2>1 DEF CallDisconnected, Live
    <3> QED
      BY <3>1, LineCleared DEF Line!LineNext
  <2>2. CASE ~Live(c)
    BY <1>3, <2>2 DEF CallDisconnected, Live
  <2> QED
    BY <2>1, <2>2
<1>4. ASSUME NEW old \in Calls, NEW new \in Calls, CallReplaced(old, new) PROVE FALSE
  BY <1>4 DEF CallReplaced
<1>5. CASE AcceptQuery
  <2>1. CASE g_call_id \in Calls /\ call[g_call_id] = "early"
    <3>1. PICK c \in Calls : c = g_call_id
      BY <2>1
    <3>2. L[c] = "ringing"
      BY <2>1, <3>1
    <3>3. \A d \in Calls : L'[d] = IF d = c THEN "talking" ELSE L[d]
      BY <1>5, <2>1, <3>1 DEF AcceptQuery
    <3>4. L' = [L EXCEPT ![c] = "talking"]
      BY <3>3, Zenon
    <3>5. Line!Answer(c)
      BY <3>2, <3>4 DEF Line!Answer
    <3> QED
      BY <3>5 DEF Line!LineNext
  <2>2. CASE ~(g_call_id \in Calls /\ call[g_call_id] = "early")
    <3>1. \A d \in Calls : call'[d] = call[d]
      BY <1>5, <2>2 DEF AcceptQuery
    <3>2. \A d \in Calls : L'[d] = L[d]
      BY <3>1
    <3>3. L' = L
      BY <3>2, Zenon
    <3> QED
      BY <3>3
  <2> QED
    BY <2>1, <2>2
<1>6. CASE DeclineQuery \/ SoftKeyEndsCall
  <2>1. \A d \in Calls : ~Live(d)'
    BY <1>6 DEF DeclineQuery, SoftKeyEndsCall, HungUp, Live
  <2> QED
    BY <2>1, LineCleared DEF Line!LineNext
<1>7. CASE SoftKeyCalls
  <2>1. CASE call' = call
    BY <2>1
  <2>2. ASSUME NEW c \in Calls, call' = [call EXCEPT ![c] = "calling"]
        PROVE  Line!LineNext \/ UNCHANGED L
    <3>1. Line!Free
      BY <1>7 DEF SoftKeyCalls, AnyCall, Line!Free
    <3>2. L' = [L EXCEPT ![c] = "dialing"]
      BY <2>2
    <3>3. Line!Dial(c)
      BY <3>1, <3>2 DEF Line!Dial
    <3> QED
      BY <3>3 DEF Line!LineNext
  <2> QED
    BY <1>7, <2>1, <2>2 DEF SoftKeyCalls, MakeCall
<1>8. CASE SIPStop
  <2>1. \A d \in Calls : ~Live(d)'
    BY <1>8 DEF SIPStop, Live
  <2> QED
    BY <2>1, LineCleared DEF Line!LineNext
<1>9. CASE SoftKeyExits \/ SIPStart \/ SwitchTab \/ InternetCall \/ ExitCommand
  BY <1>9 DEF SoftKeyExits, SIPStart, SwitchTab, InternetCall, ExitCommand
<1>10. CASE UNCHANGED vars
  BY <1>10 DEF vars
<1> QED
  BY <1>1, <1>2, <1>3, <1>4, <1>5, <1>6, <1>7, <1>8, <1>9, <1>10
  DEF Next, LibraryStep, UserStep

\* While no peer replaces calls, the application is a phone with one line.
THEOREM ImplementsPhoneLine == ASSUME ~PeerReplaces PROVE Spec => OneLine
<1>1. Init => Line!LineInit
  BY DEF Init, Line!LineInit, LinePhase
<1>2. TypeOK /\ TypeOK' /\ LiveCallIsGlobal /\ [Next]_vars
        => [Line!LineNext]_[c \in Calls |-> LinePhase[call[c]]]
  BY NextLine
<1> QED
  BY <1>1, <1>2, TypeCorrect, LiveAlways, PTL DEF Spec, OneLine, Line!LineSpec

-----------------------------------------------------------------------------
(* Why an ended call is released *)

\* A call that the application has ended stays its call, and ending, until the
\* library reports its end, SIP is stopped or the application is left; and the
\* report releases it.  With the fairness of the library this is the liveness
\* of EndedCallReleased.
EndingUntilReleased ==
    [][\A c \in Calls : g_call_id = c /\ call[c] = "ending" =>
          /\ g_call_id' = c /\ up' => call'[c] = "ending"
          /\ CallDisconnected(c) => g_call_id' # c]_vars

\* Neither a query, a key nor another call revives a call that is ending, for
\* any number of slots and nested queries.
THEOREM ReleaseAlways == Spec => EndingUntilReleased
  <1> DEFINE Step == \A c \in Calls : g_call_id = c /\ call[c] = "ending" =>
          /\ g_call_id' = c /\ up' => call'[c] = "ending"
          /\ CallDisconnected(c) => g_call_id' # c
  <1>1. TypeOK /\ [Next]_vars => [Step]_vars
    <2> SUFFICES ASSUME TypeOK, Next, NEW c \in Calls, g_call_id = c, call[c] = "ending"
                 PROVE  /\ g_call_id' = c /\ up' => call'[c] = "ending"
                        /\ CallDisconnected(c) => g_call_id' # c
      OBVIOUS
    <2>1. CallDisconnected(c) => g_call_id' # c
      BY CallsAssumption DEF CallDisconnected
    <2>2. ASSUME LibraryStep, g_call_id' = c
          PROVE  call'[c] = "ending"
      <3>1. call \in [Calls -> CallState]
        BY DEF TypeOK, CallsOK
      <3>2. ASSUME NEW d \in Calls, IncomingCall(d) \/ CallProgress(d)
            PROVE  call'[c] = "ending"
        <4>1. d # c
          BY <3>2 DEF IncomingCall, CallProgress
        <4>2. \E s : call' = [call EXCEPT ![d] = s]
          BY <3>2 DEF IncomingCall, CallProgress
        <4> QED
          BY <3>1, <4>1, <4>2
      <3>3. ASSUME NEW d \in Calls, CallDisconnected(d)
            PROVE  call'[c] = "ending"
        BY <2>1, <2>2, <3>1, <3>3 DEF CallDisconnected
      <3>4. ASSUME NEW old \in Calls, NEW new \in Calls, CallReplaced(old, new)
            PROVE  call'[c] = "ending"
        BY <3>1, <3>4 DEF CallReplaced
      <3> QED
        BY <2>2, <3>2, <3>3, <3>4 DEF LibraryStep
    <2>3. ASSUME UserStep, g_call_id' = c, up'
          PROVE  call'[c] = "ending"
      <3>1. CASE AcceptQuery
        <4>1. call' = [d \in Calls |->
                 IF d = g_call_id /\ call[d] = "early" THEN "confirmed" ELSE call[d]]
          BY <3>1, Zenon DEF AcceptQuery
        <4> QED
          BY <4>1
      <3>2. CASE DeclineQuery \/ SoftKeyEndsCall
        BY <3>2 DEF DeclineQuery, SoftKeyEndsCall, HungUp, Live
      <3>3. CASE SoftKeyCalls
        BY <3>3 DEF SoftKeyCalls, AnyCall
      <3>4. CASE SIPStop
        BY <2>3, <3>4 DEF SIPStop
      <3>5. CASE SIPStart \/ SwitchTab \/ InternetCall \/ ExitCommand \/ SoftKeyExits
        BY <3>5 DEF SIPStart, SwitchTab, InternetCall, ExitCommand, SoftKeyExits
      <3> QED
        BY <2>3, <3>1, <3>2, <3>3, <3>4, <3>5 DEF UserStep
    <2> QED
      BY <2>1, <2>2, <2>3 DEF Next
  <1> QED
    BY <1>1, TypeCorrect, PTL DEF EndingUntilReleased, Spec
=============================================================================
