------------------------------ MODULE Settings ------------------------------
(***************************************************************************)
(* The views of the application and the SIP settings: the tabs of          *)
(* CVoIPAppUi, the settings view with its page (iSettings), and the        *)
(* settings file that CVoIPDocument saves and loads.                       *)
(*                                                                         *)
(* Saving is one call, but several operations on the file server: the file *)
(* is deleted, created and committed.  Each of them may fail, and the      *)
(* phone may go dead between two of them.                                  *)
(***************************************************************************)
CONSTANTS
    Fields,         \* the settings: registrar, user, password ...
    Texts,          \* what may be entered in a field
    Default         \* what a field holds in a new settings object

ASSUME DefaultAssumption == Default \in Texts

VARIABLES
    view,           \* the active view
    tab,            \* the highlighted tab: iTabGroup's active index
    previous,       \* previousView of the settings view
    page,           \* iSettings of the settings view while it is active
    file,           \* VoIP.ini
    saving,         \* where SaveSettingValuesL is
    outcome,        \* how the last SaveSettingValuesL ended
    committed       \* the settings last written in full

vars == <<view, tab, previous, page, file, saving, outcome, committed>>
navigation == <<view, tab, previous>>

Values == [Fields -> Texts]
Defaults == [f \in Fields |-> Default]

\* A settings file that is gone, one that holds no settings, and a page
\* that is not there: functions like the settings, for TLC's sake.
Absent == [absent |-> TRUE]
Empty == [empty |-> TRUE]
NoPage == [none |-> TRUE]

ASSUME MarkersAssumption == {Absent, Empty, NoPage} \cap Values = {}

TypeOK ==
    /\ view \in {"list", "log", "settings"}
    /\ tab \in {"list", "log"}
    /\ previous \in {"list", "log"}
    /\ page \in Values \cup {NoPage}
    /\ file \in Values \cup {Absent, Empty}
    /\ saving \in {"idle", "delete", "open", "commit"}
    /\ outcome \in {"none", "ok", "left"}
    /\ committed \in Values

\* The package installs an empty VoIP.ini.
Init ==
    /\ view = "list"
    /\ tab = "list"
    /\ previous = "list"
    /\ page = NoPage
    /\ file = Empty
    /\ saving = "idle"
    /\ outcome = "none"
    /\ committed = Defaults

\* LoadSettingValuesL into a new settings object: fields that are not in
\* the file keep their default.
Loaded == IF file \in Values THEN file ELSE Defaults

Idle == saving = "idle"

-----------------------------------------------------------------------------
(* Views and tabs *)

\* ActivateLocalViewL: the settings view loads its page when it comes, and
\* gives it up when it goes.
Activate(v) ==
    /\ view' = v
    /\ page' = IF v # "settings" THEN NoPage
               ELSE IF page = NoPage THEN Loaded ELSE page

ShowTab(t) ==
    /\ tab' = t
    /\ Activate(t)

\* Left and right arrow, which the settings list lets through.
ArrowKey ==
    /\ Idle
    /\ \/ tab = "log" /\ ShowTab("list")
       \/ tab = "list" /\ ShowTab("log")
    /\ UNCHANGED <<previous, file, saving, outcome, committed>>

\* EAknSoftkeyBack in CVoIPAppUi::HandleCommandL: from the contacts by its
\* right key, or at the end of DoInternetCall.
BackCommand ==
    /\ Idle
    /\ view = "list"
    /\ ShowTab(IF tab = "log" THEN "list" ELSE "log")
    /\ UNCHANGED <<previous, file, saving, outcome, committed>>

\* Mutant: the settings can be opened from the settings.
OpenSettingsAgain ==
    /\ Idle
    /\ previous' = view
    /\ Activate("settings")
    /\ UNCHANGED <<tab, file, saving, outcome, committed>>

\* The SIP settings command of the contacts and of the log.
OpenSettings ==
    /\ Idle
    /\ view # "settings"
    /\ previous' = view
    /\ Activate("settings")
    /\ UNCHANGED <<tab, file, saving, outcome, committed>>

\* Mutant: the right key always leads to the contacts.
SettingsBackToContacts ==
    /\ Idle
    /\ view = "settings"
    /\ Activate("list")
    /\ UNCHANGED <<tab, previous, file, saving, outcome, committed>>

\* The right key of the settings view.
SettingsBack ==
    /\ Idle
    /\ view = "settings"
    /\ Activate(previous)
    /\ UNCHANGED <<tab, previous, file, saving, outcome, committed>>

-----------------------------------------------------------------------------
(* Editing and saving *)

\* Mutant: the new values stay on the page.
EditItemUnsaved ==
    /\ Idle
    /\ view = "settings"
    /\ \E f \in Fields, t \in Texts : page' = [page EXCEPT ![f] = t]
    /\ UNCHANGED <<saving, outcome>>
    /\ UNCHANGED <<navigation, file, committed>>

\* EditItemL: the field is stored in iSettings, then everything is saved, if
\* the file is there to be found.
EditItem ==
    /\ Idle
    /\ view = "settings"
    /\ \E f \in Fields, t \in Texts : page' = [page EXCEPT ![f] = t]
    /\ IF file = Absent
       THEN saving' = "idle" /\ outcome' = "ok"
       ELSE saving' = "delete" /\ outcome' = "none"
    /\ UNCHANGED <<navigation, file, committed>>

\* A leave ends the save where it is: the store is closed uncommitted.
Leaves ==
    /\ saving' = "idle"
    /\ outcome' = "left"
    /\ UNCHANGED <<file, committed>>

SaveDelete ==
    /\ saving = "delete"
    /\ \/ Leaves
       \/ /\ file' = Absent
          /\ saving' = "open"
          /\ UNCHANGED <<outcome, committed>>
    /\ UNCHANGED <<navigation, page>>

\* OpenLC creates the file.
SaveOpen ==
    /\ saving = "open"
    /\ \/ Leaves
       \/ /\ file' = Empty
          /\ saving' = "commit"
          /\ UNCHANGED <<outcome, committed>>
    /\ UNCHANGED <<navigation, page>>

\* Mutant: one of the settings is not written.
SaveCommitMissesOne ==
    /\ saving = "commit"
    /\ \/ Leaves
       \/ /\ \E f \in Fields : file' = [page EXCEPT ![f] = Default]
          /\ committed' = page
          /\ saving' = "idle"
          /\ outcome' = "ok"
    /\ UNCHANGED <<navigation, page>>

\* Six streams, and CommitL that makes them all the content of the file.
SaveCommit ==
    /\ saving = "commit"
    /\ \/ Leaves
       \/ /\ file' = page
          /\ committed' = page
          /\ saving' = "idle"
          /\ outcome' = "ok"
    /\ UNCHANGED <<navigation, page>>

\* The user leaves and starts the application again, or the phone goes dead,
\* which it may at any time.
Restart ==
    /\ view' = "list"
    /\ tab' = "list"
    /\ previous' = "list"
    /\ page' = NoPage
    /\ saving' = "idle"
    /\ outcome' = "none"
    /\ UNCHANGED <<file, committed>>

Next ==
    \/ ArrowKey \/ BackCommand \/ OpenSettings \/ SettingsBack
    \/ EditItem \/ SaveDelete \/ SaveOpen \/ SaveCommit
    \/ Restart

Spec == Init /\ [][Next]_vars

-----------------------------------------------------------------------------
(* Properties *)

\* The highlighted tab names the active view, and still names the view the
\* user comes back to while the settings cover it: otherwise the "back"
\* that ends DoInternetCall would not show the log.
TabNamesView == tab = IF view = "settings" THEN previous ELSE view

\* The page shows what a call or the next start will load, unless the last
\* save left, which the user is told, or has no file to go to.
PageIsStored ==
    page # NoPage /\ Idle /\ outcome # "left" /\ file # Absent => Loaded = page

\* Whatever fails, and whenever the phone goes dead: what is loaded are the
\* settings last written in full, or defaults, and never a mixture of old
\* and new fields, nor settings that were written over.
NeverStale == Loaded \in {committed, Defaults}

\* A save that returns normally has stored what the page shows: EditItemL is
\* to "store the changes into the store"
\* (symbian_ua_guiSettingItemList.cpp:166-167).
SavedMeansStored == outcome = "ok" /\ page # NoPage => Loaded = page
=============================================================================
