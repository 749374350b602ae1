--------------------------- MODULE SettingsWindow ---------------------------
(***************************************************************************)
(* The settings window (gui/settingswidget/settings.cpp): its page, module *)
(* ClientSettings, or the modal dialog that scans for a server name,       *)
(* module SniAutoscan, in front of it.  A behaviour uses one of the two:   *)
(* they share the settings only, which the dialog sets and saves through   *)
(* the same SettingsModel when its scan has found a name.                  *)
(***************************************************************************)
EXTENDS ClientSettings, SniAutoscan

CONSTANT Fronts    \* what is in front: "page", "dialog"

VARIABLE front

windowVars == <<front, vars, allVars>>

\* settings_->SetSNI(found); settings_->Save().
AdoptName ==
  \/ adopted' = adopted /\ UNCHANGED <<value, disk>>
  \/ adopted' # adopted /\ value' \in Values /\ Save(services, value')

\* onAutoscanClicked: the page is shown, and gets no input while the dialog is.
Dialog ==
  /\ UNCHANGED <<services, dialog, monitor>>
  /\ \/ StartScanning /\ UNCHANGED <<value, disk>>
     \/ CancelScan /\ UNCHANGED <<value, disk>>
     \/ Timer /\ AdoptName
     \/ \E w \in Workers : Thread(w) /\ UNCHANGED <<value, disk>>

WindowInit ==
  /\ front \in Fronts
  /\ SettingsInit /\ ScanInit

WindowNext ==
  /\ UNCHANGED front
  /\ \/ front = "page" /\ SettingsNext /\ UNCHANGED <<scanVars, requests>>
     \/ front = "dialog" /\ Dialog

ScanTimer ==
  front = "dialog" /\ Timer /\ AdoptName /\ UNCHANGED <<front, services, dialog, monitor>>

ScanThread(w) == front = "dialog" /\ Thread(w) /\ UNCHANGED <<front, vars>>

WindowSpec ==
  /\ WindowInit /\ [][WindowNext]_windowVars
  /\ WF_windowVars(ScanTimer)
  /\ \A w \in Workers : WF_windowVars(ScanThread(w))
-----------------------------------------------------------------------------
(* Properties *)

\* The rows of the page are the services, and the names the scan has taken from
\* its list are those it has counted or has in hand, each of them once
\* (settings.cpp:915-951, sni_autoscan_dialog.cpp:297-302, 338).
ListsAgree == TableIsServices /\ ScanTypeOK /\ TriedOnce

\* "No working SNI found" is said after every name was tried, or when one was
\* found between the two looks of the timer (sni_autoscan_dialog.cpp:186-192).
VerdictsAreSound == [][VerdictIsSound]_windowVars
=============================================================================
