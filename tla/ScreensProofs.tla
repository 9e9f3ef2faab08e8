---------------------------- MODULE ScreensProofs ----------------------------
(***************************************************************************)
(* The views of the application, the stored settings and the log text, for *)
(* any number of settings fields and every size of the log buffer: first   *)
(* the settings alone, then the log alone, then both together.             *)
(***************************************************************************)
EXTENDS Screens, SequenceTheorems, TLAPS

-----------------------------------------------------------------------------
(* The views and the stored settings.                                      *)
(*                                                                         *)
(* The inductive invariant adds where the page is: it holds settings while *)
(* the settings view is active, a save can only be under way there, and    *)
(* what a complete save has written is all the file ever holds.            *)

PageWithView ==
    /\ view = "settings" => page \in Values
    /\ view # "settings" => page = NoPage
    /\ ~Idle => view = "settings"

FileIsCommitted == file \in {Absent, Empty, committed}

IInv ==
    /\ TypeOK
    /\ TabNamesView
    /\ PageWithView
    /\ FileIsCommitted
    /\ PageIsStored

-----------------------------------------------------------------------------
\* The markers are no settings, so that the file and the page cannot be
\* mistaken for them.
LEMMA Markers ==
  /\ \A v \in Values : v # Absent /\ v # Empty /\ v # NoPage
  /\ NoPage \notin Values /\ Absent \notin Values /\ Empty \notin Values
  BY MarkersAssumption

LEMMA DefaultsAreValues == Defaults \in Values
  BY DefaultAssumption DEF Defaults, Values

\* What is loaded are settings, whatever the file holds.
LEMMA LoadedIsValues == Loaded \in Values
  BY DefaultsAreValues DEF Loaded

\* Changing views, with the file left alone: the page is where it should be,
\* and shows what is stored.
LEMMA ActivateKeeps ==
  ASSUME IInv, Idle, NEW v \in {"list", "log", "settings"}, Activate(v),
         UNCHANGED <<file, saving, outcome, committed>>
  PROVE  /\ view' = v
         /\ page' \in Values \cup {NoPage}
         /\ PageWithView' /\ FileIsCommitted' /\ PageIsStored'
  <1>1. view' = v /\ page' = IF v # "settings" THEN NoPage
                             ELSE IF page = NoPage THEN Loaded ELSE page
    BY DEF Activate
  <1>2. page' \in Values \cup {NoPage} /\ (v = "settings" => page' \in Values)
    BY <1>1, LoadedIsValues DEF IInv, TypeOK
  <1>3. Loaded' = Loaded /\ Idle'
    BY DEF Loaded, Idle
  <1>4. PageIsStored'
    BY <1>1, <1>3 DEF IInv, PageIsStored
  <1>5. PageWithView'
    BY <1>1, <1>2, <1>3 DEF PageWithView
  <1>6. FileIsCommitted'
    BY DEF IInv, FileIsCommitted
  <1> QED
    BY <1>1, <1>2, <1>4, <1>5, <1>6

LEMMA Initially == Init => IInv
  BY DefaultsAreValues, Markers
  DEF Init, IInv, TypeOK, TabNamesView, PageWithView, FileIsCommitted, PageIsStored,
      Idle

LEMMA Inductive == IInv /\ [Next]_vars => IInv'
  <1> SUFFICES ASSUME IInv, [Next]_vars PROVE IInv'
    OBVIOUS
  <1>0. TypeOK /\ TabNamesView /\ PageWithView /\ FileIsCommitted /\ PageIsStored
    BY DEF IInv
  <1>1. CASE ArrowKey
    <2>1. PICK t \in {"list", "log"} :
             ShowTab(t) /\ UNCHANGED <<previous, file, saving, outcome, committed>>
      BY <1>1 DEF ArrowKey
    <2>2. /\ Idle /\ tab' = t /\ Activate(t)
      BY <1>1, <2>1 DEF ArrowKey, ShowTab
    <2>3. /\ view' = t
          /\ page' \in Values \cup {NoPage}
          /\ PageWithView' /\ FileIsCommitted' /\ PageIsStored'
      BY <2>1, <2>2, ActivateKeeps
    <2> QED
      BY <1>0, <2>1, <2>2, <2>3 DEF IInv, TypeOK, TabNamesView
  <1>2. CASE BackCommand
    <2>1. PICK t \in {"list", "log"} :
             ShowTab(t) /\ UNCHANGED <<previous, file, saving, outcome, committed>>
      BY <1>2 DEF BackCommand
    <2>2. /\ Idle /\ tab' = t /\ Activate(t)
      BY <1>2, <2>1 DEF BackCommand, ShowTab
    <2>3. /\ view' = t
          /\ page' \in Values \cup {NoPage}
          /\ PageWithView' /\ FileIsCommitted' /\ PageIsStored'
      BY <2>1, <2>2, ActivateKeeps
    <2> QED
      BY <1>0, <2>1, <2>2, <2>3 DEF IInv, TypeOK, TabNamesView
  <1>3. CASE OpenSettings
    <2>1. /\ Idle /\ view # "settings" /\ previous' = view /\ Activate("settings")
          /\ UNCHANGED <<tab, file, saving, outcome, committed>>
      BY <1>3 DEF OpenSettings
    <2>2. /\ view' = "settings"
          /\ page' \in Values \cup {NoPage}
          /\ PageWithView' /\ FileIsCommitted' /\ PageIsStored'
      BY <2>1, ActivateKeeps
    <2> QED
      BY <1>0, <2>1, <2>2 DEF IInv, TypeOK, TabNamesView
  <1>4. CASE SettingsBack
    <2>1. /\ Idle /\ view = "settings" /\ Activate(previous)
          /\ UNCHANGED <<tab, previous, file, saving, outcome, committed>>
      BY <1>4 DEF SettingsBack
    <2>2. previous \in {"list", "log"}
      BY <1>0 DEF TypeOK
    <2>3. /\ view' = previous
          /\ page' \in Values \cup {NoPage}
          /\ PageWithView' /\ FileIsCommitted' /\ PageIsStored'
      BY <2>1, <2>2, ActivateKeeps
    <2> QED
      BY <1>0, <2>1, <2>2, <2>3 DEF IInv, TypeOK, TabNamesView
  <1>5. CASE EditItem
    <2>1. view = "settings" /\ page \in Values
      BY <1>0, <1>5 DEF EditItem, PageWithView
    <2>2. page' \in Values
      BY <1>5, <2>1 DEF EditItem, Values
    <2>3. /\ UNCHANGED <<view, tab, previous, file, committed>>
          /\ \/ file = Absent /\ saving' = "idle" /\ outcome' = "ok"
             \/ saving' = "delete" /\ outcome' = "none"
      BY <1>5 DEF EditItem, navigation
    <2>4. TypeOK' /\ TabNamesView' /\ FileIsCommitted'
      BY <1>0, <2>2, <2>3 DEF TypeOK, TabNamesView, FileIsCommitted
    <2>5. PageWithView' /\ PageIsStored'
      BY <2>1, <2>2, <2>3 DEF PageWithView, PageIsStored, Idle
    <2> QED
      BY <2>4, <2>5 DEF IInv
  <1>6. CASE SaveDelete \/ SaveOpen
    <2>1. /\ UNCHANGED <<view, tab, previous, page, committed>>
          /\ ~Idle
          /\ \/ saving' = "idle" /\ outcome' = "left" /\ file' = file
             \/ /\ file' \in {Absent, Empty}
                /\ saving' \in {"open", "commit"}
                /\ outcome' = outcome
      BY <1>6 DEF SaveDelete, SaveOpen, Leaves, navigation, Idle
    <2>2. TypeOK' /\ TabNamesView' /\ FileIsCommitted'
      BY <1>0, <2>1 DEF TypeOK, TabNamesView, FileIsCommitted
    <2>3. PageWithView' /\ PageIsStored'
      BY <1>0, <2>1 DEF PageWithView, PageIsStored, Idle
    <2> QED
      BY <2>2, <2>3 DEF IInv
  <1>7. CASE SaveCommit
    <2>1. /\ UNCHANGED <<view, tab, previous, page>>
          /\ view = "settings" /\ page \in Values
          /\ saving' = "idle"
          /\ \/ outcome' = "left" /\ UNCHANGED <<file, committed>>
             \/ outcome' = "ok" /\ file' = page /\ committed' = page
      BY <1>0, <1>7 DEF SaveCommit, Leaves, navigation, PageWithView, Idle
    <2>2. TypeOK' /\ TabNamesView' /\ FileIsCommitted'
      BY <1>0, <2>1 DEF TypeOK, TabNamesView, FileIsCommitted
    <2>3. PageWithView'
      BY <1>0, <2>1 DEF PageWithView, Idle
    <2>4. PageIsStored'
      BY <2>1 DEF PageIsStored, Loaded
    <2> QED
      BY <2>2, <2>3, <2>4 DEF IInv
  <1>8. CASE Restart
    BY <1>0, <1>8
    DEF Restart, IInv, TypeOK, TabNamesView, PageWithView, FileIsCommitted,
        PageIsStored, Idle
  <1>9. CASE UNCHANGED vars
    BY <1>0, <1>9
    DEF vars, IInv, TypeOK, TabNamesView, PageWithView, FileIsCommitted,
        PageIsStored, Idle, Loaded
  <1> QED
    BY <1>1, <1>2, <1>3, <1>4, <1>5, <1>6, <1>7, <1>8, <1>9 DEF Next

LEMMA Invariance == Spec => []IInv
  BY Initially, Inductive, PTL DEF Spec

-----------------------------------------------------------------------------
\* The variables keep their types.
THEOREM TypeCorrect == Spec => []TypeOK
  BY Invariance, PTL DEF IInv

\* The highlighted tab names the active view, or the one under the settings.
THEOREM TabAlways == Spec => []TabNamesView
  BY Invariance, PTL DEF IInv

\* The page is what is stored, unless the save has left or has no file.
THEOREM PageAlways == Spec => []PageIsStored
  BY Invariance, PTL DEF IInv

\* Whatever fails, and whenever the phone goes dead, what is loaded are the
\* settings last written in full, or the defaults.
THEOREM NeverStaleAlways == Spec => []NeverStale
  <1>1. IInv => NeverStale
    BY Markers DEF IInv, FileIsCommitted, NeverStale, Loaded, TypeOK
  <1> QED
    BY <1>1, Invariance, PTL

-----------------------------------------------------------------------------
(* The log text.                                                           *)
(*                                                                         *)
(* It fits its buffer, is a window on the newest characters and is what    *)
(* the open view shows.  Besides the types these three need nothing:       *)
(* together they are inductive.                                            *)

LogInv ==
    /\ LogTypeOK
    /\ InfoFits
    /\ InfoIsRecent
    /\ ShownIsInfo

\* A sequence that is the window of the n newest of t characters.
Window(s, t) == \A i \in 1 .. Len(s) : s[i] = t - Len(s) + i

-----------------------------------------------------------------------------
\* The new text is a window on the characters it adds.
LEMMA NewTextWindow ==
  ASSUME NEW len \in Nat, total \in Nat
  PROVE  /\ NewText(len) \in Seq(Nat)
         /\ Len(NewText(len)) = len + 1
         /\ \A i \in 1 .. len + 1 : NewText(len)[i] = total + i
  <1>1. NewText(len) = [i \in 1 .. len + 1 |-> total + i]
    BY DEF NewText, AppendLen
  <1>2. len + 1 \in Nat /\ \A i \in 1 .. len + 1 : total + i \in Nat
    OBVIOUS
  <1> QED
    BY <1>1, <1>2

\* Dropping characters at the front of a window leaves a window.
LEMMA SuffixWindow ==
  ASSUME NEW s \in Seq(Nat), NEW t \in Nat, Window(s, t), NEW k \in Nat
  PROVE  LET r == SubSeq(s, k + 1, Len(s))
         IN  /\ r \in Seq(Nat)
             /\ Len(r) = IF k <= Len(s) THEN Len(s) - k ELSE 0
             /\ Window(r, t)
  <1> DEFINE r == SubSeq(s, k + 1, Len(s))
  <1>1. CASE k + 1 <= Len(s)
    <2>1. /\ r \in Seq(Nat)
          /\ Len(r) = Len(s) - k
          /\ \A i \in 1 .. Len(s) - k : r[i] = s[k + i]
      <3>1. /\ k + 1 \in Int /\ Len(s) \in Int
            /\ k + 1 >= 1 /\ Len(s) <= Len(s)
        OBVIOUS
      <3> QED
        BY <1>1, <3>1, SubSeqProperties
    <2>2. Window(r, t)
      BY <1>1, <2>1 DEF Window
    <2> QED
      BY <1>1, <2>1, <2>2
  <1>2. CASE k + 1 > Len(s)
    <2>1. r = << >>
      BY <1>2, SubSeqEmpty
    <2> HIDE DEF r
    <2>2. Len(r) = 0 /\ r \in Seq(Nat)
      <3>1. Len(<< >>) = 0 /\ << >> \in Seq(Nat)
        OBVIOUS
      <3> QED
        BY <2>1, <3>1
    <2>3. 1 .. Len(r) = {}
      BY <2>2
    <2>4. Window(r, t)
      BY <2>3 DEF Window
    <2> QED
      BY <1>2, <2>2, <2>4 DEF r
  <1> QED
    BY <1>1, <1>2

\* Making room: what is left is a window still, and the new text fits.
LEMMA RoomIsMade ==
  ASSUME LogInv, NEW len \in Nat, Accepted(len)
  PROVE  /\ RoomMade(len) \in Seq(Nat)
         /\ Window(RoomMade(len), total)
         /\ Len(RoomMade(len)) + (len + 1) <= MaxInfo
         /\ Len(RoomMade(len)) + (len + 1) >= Len(info)
  <1>1. /\ info \in Seq(Nat) /\ total \in Nat /\ Len(info) \in Nat
        /\ Window(info, total)
        /\ Len(info) <= MaxInfo
        /\ len + 1 < MaxInfo
        /\ MaxInfo \in Nat
    BY MaxInfoAssumption DEF LogInv, LogTypeOK, InfoFits, InfoIsRecent, Window, Accepted, AppendLen
  <1>2. CASE (len + 1) + Len(info) > MaxInfo
    <2>1. RoomMade(len) = SubSeq(info, (len + 1) + 1, Len(info))
      BY <1>2 DEF RoomMade, AppendLen
    <2>2. len + 1 \in Nat
      OBVIOUS
    <2>3. /\ RoomMade(len) \in Seq(Nat)
          /\ Len(RoomMade(len)) = IF len + 1 <= Len(info) THEN Len(info) - (len + 1) ELSE 0
          /\ Window(RoomMade(len), total)
      BY <1>1, <2>1, <2>2, SuffixWindow
    <2>4. /\ Len(RoomMade(len)) + (len + 1) <= MaxInfo
          /\ Len(RoomMade(len)) + (len + 1) >= Len(info)
      <3>1. \A l, m, n, k \in Nat :
               l <= m /\ n < m /\ k = (IF n <= l THEN l - n ELSE 0)
               => k + n <= m /\ k + n >= l
        OBVIOUS
      <3>2. Len(RoomMade(len)) \in Nat
        BY <2>3
      <3> QED
        BY <1>1, <2>2, <2>3, <3>1, <3>2
    <2> QED
      BY <2>3, <2>4
  <1>3. CASE ~((len + 1) + Len(info) > MaxInfo)
    <2>1. RoomMade(len) = info
      BY <1>3 DEF RoomMade, AppendLen
    <2> QED
      BY <1>1, <1>3, <2>1
  <1> QED
    BY <1>2, <1>3

\* A window followed by the characters that come next is a window.
LEMMA ConcatWindow ==
  ASSUME NEW s \in Seq(Nat), NEW t \in Nat, Window(s, t),
         NEW n \in Nat, NEW r \in Seq(Nat), Len(r) = n,
         \A i \in 1 .. n : r[i] = t + i
  PROVE  /\ s \o r \in Seq(Nat)
         /\ Len(s \o r) = Len(s) + n
         /\ Window(s \o r, t + n)
  <1>1. /\ s \o r \in Seq(Nat)
        /\ Len(s \o r) = Len(s) + n
        /\ \A i \in 1 .. Len(s) + n :
              (s \o r)[i] = IF i <= Len(s) THEN s[i] ELSE r[i - Len(s)]
    BY ConcatProperties
  <1>2. \A i \in 1 .. Len(s) + n : (s \o r)[i] = t - Len(s) + i
    BY <1>1 DEF Window
  <1> QED
    BY <1>1, <1>2 DEF Window

\* Storing a text keeps the text a window that fits, and does not shrink it.
LEMMA StoreKeeps ==
  ASSUME LogInv, NEW len \in 0 .. MaxInfo, StoreInfoText(len)
  PROVE  /\ info' \in Seq(Nat) /\ total' \in Nat
         /\ InfoFits' /\ InfoIsRecent'
         /\ Len(info') >= Len(info)
         /\ ~Accepted(len) => info' = info
  <1>0. len \in Nat /\ total \in Nat /\ info \in Seq(Nat)
    BY MaxInfoAssumption DEF LogInv, LogTypeOK
  <1>1. CASE Accepted(len)
    <2>1. info' = RoomMade(len) \o NewText(len) /\ total' = total + (len + 1)
      BY <1>1 DEF StoreInfoText, AppendLen
    <2>2. /\ info' \in Seq(Nat)
          /\ Len(info') = Len(RoomMade(len)) + (len + 1)
          /\ Window(info', total + (len + 1))
      <3>1. PICK n \in Nat, t \in Nat : n = len + 1 /\ t = total
        BY <1>0
      <3>2. PICK s \in Seq(Nat) : s = RoomMade(len)
        BY <1>0, <1>1, RoomIsMade
      <3>3. PICK r \in Seq(Nat) : r = NewText(len)
        BY <1>0, NewTextWindow
      <3>4. Window(s, t)
        BY <1>0, <1>1, <3>1, <3>2, RoomIsMade
      <3>5. Len(r) = n /\ \A i \in 1 .. n : r[i] = t + i
        BY <1>0, <3>1, <3>3, NewTextWindow
      <3>6. /\ s \o r \in Seq(Nat)
            /\ Len(s \o r) = Len(s) + n
            /\ Window(s \o r, t + n)
        BY <3>4, <3>5, ConcatWindow
      <3> QED
        BY <2>1, <3>1, <3>2, <3>3, <3>6, Zenon
    <2>3. Len(info') <= MaxInfo /\ Len(info') >= Len(info) /\ total' \in Nat
      BY <1>0, <1>1, <2>1, <2>2, RoomIsMade
    <2>4. InfoIsRecent'
      BY <2>1, <2>2 DEF Window, InfoIsRecent
    <2> QED
      BY <1>1, <2>2, <2>3, <2>4 DEF InfoFits
  <1>2. CASE ~Accepted(len)
    <2>1. info' = info /\ total' = total
      BY <1>2 DEF StoreInfoText
    <2> QED
      BY <1>0, <2>1 DEF LogInv, InfoFits, InfoIsRecent
  <1> QED
    BY <1>1, <1>2

-----------------------------------------------------------------------------
\* An empty text is within every limit.
LEMMA EmptyFits ==
  ASSUME NEW s, s = << >>
  PROVE  s \in Seq(Nat) /\ Len(s) <= MaxInfo /\ 1 .. Len(s) = {}
  <1>1. s \in Seq(Nat) /\ Len(s) = 0
    OBVIOUS
  <1> QED
    BY <1>1, MaxInfoAssumption

LEMMA LogInitially == LogInit => LogInv
  <1> SUFFICES ASSUME LogInit PROVE LogInv
    OBVIOUS
  <1>1. info \in Seq(Nat) /\ shown \in Seq(Nat) /\ open = FALSE /\ total \in Nat
    BY EmptyFits DEF LogInit
  <1>2. InfoFits /\ InfoIsRecent
    BY EmptyFits DEF LogInit, InfoFits, InfoIsRecent
  <1> QED
    BY <1>1, <1>2 DEF LogInv, LogTypeOK, ShownIsInfo

LEMMA LogInductive == LogInv /\ [LogNext]_logVars => LogInv'
  <1> SUFFICES ASSUME LogInv, [LogNext]_logVars PROVE LogInv'
    OBVIOUS
  <1>0. /\ info \in Seq(Nat) /\ total \in Nat
        /\ open \in BOOLEAN /\ shown \in Seq(Nat)
        /\ InfoFits /\ InfoIsRecent /\ ShownIsInfo
    BY DEF LogInv, LogTypeOK
  <1>1. ASSUME NEW len \in 0 .. MaxInfo, PutMessage(len)
        PROVE  LogInv'
    <2>1. /\ info' \in Seq(Nat) /\ total' \in Nat
          /\ InfoFits' /\ InfoIsRecent'
          /\ ~Accepted(len) => info' = info
      BY <1>1, StoreKeeps DEF PutMessage
    <2>2. open' = open /\ shown' = IF open /\ Accepted(len) THEN info' ELSE shown
      BY <1>1 DEF PutMessage
    <2>3. ShownIsInfo'
      BY <1>0, <2>1, <2>2 DEF ShownIsInfo
    <2>4. shown' \in Seq(Nat)
      BY <1>0, <2>1, <2>2
    <2>5. open' \in BOOLEAN
      BY <1>0, <2>2
    <2> QED
      BY <2>1, <2>3, <2>4, <2>5 DEF LogInv, LogTypeOK
  <1>2. ASSUME NEW len \in 0 .. MaxInfo, InternetCall(len)
        PROVE  LogInv'
    <2>1. CASE NumberFits(len)
      <3>1. /\ info' \in Seq(Nat) /\ total' \in Nat
            /\ InfoFits' /\ InfoIsRecent'
        BY <1>2, <2>1, StoreKeeps DEF InternetCall
      <3>2. open' = TRUE /\ shown' = info'
        BY <1>2, <2>1 DEF InternetCall
      <3> QED
        BY <3>1, <3>2 DEF LogInv, LogTypeOK, ShownIsInfo
    <2>2. CASE ~NumberFits(len)
      <3>1. UNCHANGED logVars
        BY <1>2, <2>2 DEF InternetCall
      <3> QED
        BY <1>0, <3>1 DEF logVars, LogInv, LogTypeOK, InfoFits, InfoIsRecent, ShownIsInfo
    <2> QED
      BY <2>1, <2>2
  <1>3. CASE ActivateView
    BY <1>0, <1>3 DEF ActivateView, LogInv, LogTypeOK, InfoFits, InfoIsRecent, ShownIsInfo
  <1>4. CASE DeactivateView
    <2>1. shown' \in Seq(Nat) /\ open' = FALSE /\ UNCHANGED <<info, total>>
      BY <1>4, EmptyFits DEF DeactivateView
    <2> QED
      BY <1>0, <2>1 DEF LogInv, LogTypeOK, InfoFits, InfoIsRecent, ShownIsInfo
  <1>5. CASE LogRestart
    <2>1. /\ info' \in Seq(Nat) /\ shown' \in Seq(Nat)
          /\ open' = FALSE /\ total' = 0
      BY <1>5, EmptyFits DEF LogRestart
    <2>2. InfoFits' /\ InfoIsRecent'
      BY <1>5, EmptyFits DEF LogRestart, InfoFits, InfoIsRecent
    <2> QED
      BY <2>1, <2>2 DEF LogInv, LogTypeOK, ShownIsInfo
  <1>6. CASE UNCHANGED logVars
    BY <1>0, <1>6 DEF logVars, LogInv, LogTypeOK, InfoFits, InfoIsRecent, ShownIsInfo
  <1> QED
    BY <1>1, <1>2, <1>3, <1>4, <1>5, <1>6 DEF LogNext

LEMMA LogInvariance == LogSpec => []LogInv
  BY LogInitially, LogInductive, PTL DEF LogSpec

\* The variables keep their types.
THEOREM LogTypeCorrect == LogSpec => []LogTypeOK
  BY LogInvariance, PTL DEF LogInv

\* StoreInfoTextL never writes beyond the buffer it allocated.
THEOREM FitsAlways == LogSpec => []InfoFits
  BY LogInvariance, PTL DEF LogInv

\* The log is the newest characters stored, without a gap.
THEOREM RecentAlways == LogSpec => []InfoIsRecent
  BY LogInvariance, PTL DEF LogInv

\* The open log view shows the text of the document.
THEOREM ShownAlways == LogSpec => []ShownIsInfo
  BY LogInvariance, PTL DEF LogInv

\* StoreInfoTextL deletes no more than it adds.
THEOREM GrowsAlways == LogSpec => InfoNeverShrinks
  <1>1. LogInv /\ [LogNext]_logVars => [LogRestart \/ Len(info') >= Len(info)]_logVars
    <2> SUFFICES ASSUME LogInv, LogNext PROVE LogRestart \/ Len(info') >= Len(info)
      OBVIOUS
    <2>1. Len(info) \in Nat
      BY DEF LogInv, LogTypeOK
    <2>2. ASSUME NEW len \in 0 .. MaxInfo, StoreInfoText(len)
          PROVE  Len(info') >= Len(info)
      BY <2>2, StoreKeeps
    <2> QED
      BY <2>1, <2>2
      DEF LogNext, PutMessage, InternetCall, ActivateView, DeactivateView, logVars
  <1> QED
    BY <1>1, LogInvariance, PTL DEF LogSpec, InfoNeverShrinks

-----------------------------------------------------------------------------
(* The application.                                                        *)
(*                                                                         *)
(* The views and the log text together do what each of them does alone:    *)
(* Screens implements Settings and InfoLog, so everything proved of them   *)
(* holds of the application.                                               *)
(*                                                                         *)
(* A step of InfoLog follows from the step of the views only because the   *)
(* editor is there exactly while the log view is active, and DoInternetCall *)
(* ends in the log view only because the tab names the contacts: the       *)
(* argument needs EditorWithView and, from Settings, TabNamesView.         *)

\* The steps of the views are steps of Settings, or leave it alone.
LEMMA SettingsStep == [ScreensNext]_screensVars => [Next]_vars
  BY DEF ScreensNext, screensVars, vars, Next, SwitchView, EditAndSave, Message,
         CallFromContacts, EndProcess

\* The application implements the settings and the views: tabs, page and
\* settings file behave as Settings says, whatever the log does.
THEOREM ScreensImplementSettings == ScreensSpec => Spec
  BY SettingsStep, PTL DEF ScreensSpec, ScreensInit, Spec

\* Where the views change without a text, the log follows.
LEMMA FollowingKeeps ==
  ASSUME EditorWithView, LogFollowsView
  PROVE  EditorWithView' /\ [LogNext]_logVars
  BY DEF EditorWithView, LogFollowsView, ActivateView, DeactivateView, LogNext, logVars

\* The "back" at the end of DoInternetCall leads from the contacts to the log.
LEMMA BackShowsLog ==
  ASSUME TabNamesView, view = "list", BackCommand
  PROVE  view' = "log"
  BY DEF TabNamesView, BackCommand, ShowTab, Activate

\* An Internet call of the application is one of InfoLog.
LEMMA CallKeeps ==
  ASSUME EditorWithView, TabNamesView, TypeOK,
         NEW len \in 0 .. MaxInfo, CallFromContacts(len)
  PROVE  EditorWithView' /\ InternetCall(len)
  <1>1. ~open /\ view = "list"
    BY DEF EditorWithView, CallFromContacts
  <1>2. CASE NumberFits(len)
    <2>1. /\ StoreInfoText(len) /\ BackCommand
          /\ open' = (view' = "log")
          /\ shown' = IF open' THEN info' ELSE shown
      BY <1>2 DEF CallFromContacts
    <2>2. view' = "log"
      BY <1>1, <2>1, BackShowsLog
    <2> QED
      BY <1>1, <1>2, <2>1, <2>2 DEF EditorWithView, InternetCall
  <1>3. CASE ~NumberFits(len)
    <2>1. UNCHANGED screensVars
      BY <1>3 DEF CallFromContacts
    <2> QED
      BY <1>1, <1>3, <2>1 DEF screensVars, vars, logVars, EditorWithView, InternetCall
  <1> QED
    BY <1>2, <1>3

LEMMA LogStep ==
  ASSUME EditorWithView, IInv, [ScreensNext]_screensVars
  PROVE  EditorWithView' /\ [LogNext]_logVars
  <1>0. TabNamesView /\ TypeOK
    BY DEF IInv
  <1>1. CASE SwitchView
    BY <1>1, FollowingKeeps DEF SwitchView
  <1>2. CASE EditAndSave
    <2>1. view' = view
      BY <1>2 DEF EditAndSave, EditItem, SaveDelete, SaveOpen, SaveCommit, navigation
    <2> QED
      BY <1>2, <2>1 DEF EditAndSave, logVars, EditorWithView
  <1>3. ASSUME NEW len \in 0 .. MaxInfo, Message(len)
        PROVE  EditorWithView' /\ [LogNext]_logVars
    <2>1. view' = view /\ open' = open /\ PutMessage(len)
      BY <1>3 DEF Message, PutMessage, vars
    <2> QED
      BY <2>1 DEF EditorWithView, LogNext
  <1>4. ASSUME NEW len \in 0 .. MaxInfo, CallFromContacts(len)
        PROVE  EditorWithView' /\ [LogNext]_logVars
    BY <1>0, <1>4, CallKeeps DEF LogNext
  <1>5. CASE EndProcess
    BY <1>5 DEF EndProcess, Restart, LogRestart, EditorWithView, LogNext
  <1>6. CASE UNCHANGED screensVars
    BY <1>6 DEF screensVars, vars, logVars, EditorWithView
  <1> QED
    BY <1>1, <1>2, <1>3, <1>4, <1>5, <1>6 DEF ScreensNext

LEMMA EditorInvariance == ScreensSpec => []EditorWithView
  <1>1. ScreensInit => EditorWithView
    BY DEF ScreensInit, Init, LogInit, EditorWithView
  <1>2. EditorWithView /\ IInv /\ [ScreensNext]_screensVars => EditorWithView'
    BY LogStep
  <1>3. ScreensSpec => []IInv
    BY ScreensImplementSettings, Invariance, PTL
  <1> QED
    BY <1>1, <1>2, <1>3, PTL DEF ScreensSpec

\* The application implements the log: its text fits, is the newest, and is
\* what the log view shows, however the views are switched.
THEOREM ScreensImplementLog == ScreensSpec => LogSpec
  <1>1. EditorWithView /\ IInv /\ [ScreensNext]_screensVars => [LogNext]_logVars
    BY LogStep
  <1>2. ScreensSpec => []IInv
    BY ScreensImplementSettings, Invariance, PTL
  <1>3. ScreensInit => LogInit
    BY DEF ScreensInit
  <1> QED
    BY <1>1, <1>2, <1>3, EditorInvariance, PTL DEF ScreensSpec, LogSpec
=============================================================================
