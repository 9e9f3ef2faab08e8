------------------------------- MODULE Screens -------------------------------
(***************************************************************************)
(* The views of the application together with the log text that one of     *)
(* them shows: Settings has the views, the tabs and the settings,          *)
(* InfoLog the log text and the editor of the log view.                    *)
(*                                                                         *)
(* What joins them is CVoIPAppUi, which switches views by tabs, by         *)
(* commands and by the "back" command that DoInternetCall sends to it; the *)
(* editor exists while the log view is the active one.                     *)
(***************************************************************************)
EXTENDS Settings, InfoLog

screensVars == <<vars, logVars>>

ScreensInit == Init /\ LogInit

\* A view that is left is deactivated, the one that comes is activated.
LogFollowsView ==
    \/ view # "log" /\ view' = "log" /\ ActivateView
    \/ view = "log" /\ view' # "log" /\ DeactivateView
    \/ (view = "log" <=> view' = "log") /\ UNCHANGED logVars

SwitchView ==
    /\ ArrowKey \/ BackCommand \/ OpenSettings \/ SettingsBack
    /\ LogFollowsView

\* The settings are edited and saved under their own view.
EditAndSave ==
    /\ EditItem \/ SaveDelete \/ SaveOpen \/ SaveCommit
    /\ UNCHANGED logVars

\* The library logs whenever the scheduler runs, not within a save.
Message(len) ==
    /\ Idle
    /\ PutMessage(len)
    /\ UNCHANGED vars

\* DoInternetCall: the number is stored, then the "back" command swaps the
\* views, to the log if the tab names the contacts; a number that is too long
\* leaves before either.
CallFromContacts(len) ==
    /\ Idle
    /\ view = "list"
    /\ IF NumberFits(len)
       THEN /\ StoreInfoText(len)
            /\ BackCommand
            /\ open' = (view' = "log")
            /\ shown' = IF open' THEN info' ELSE shown
       ELSE UNCHANGED screensVars

EndProcess == Restart /\ LogRestart

ScreensNext ==
    \/ SwitchView
    \/ EditAndSave
    \/ \E len \in 0 .. MaxInfo : Message(len) \/ CallFromContacts(len)
    \/ EndProcess

ScreensSpec == ScreensInit /\ [][ScreensNext]_screensVars

-----------------------------------------------------------------------------
(* Properties *)

\* The log view has an editor while it is active, and no other view has it.
EditorWithView == open = (view = "log")
=============================================================================
