--------------------------- MODULE ClientSettings ---------------------------
(***************************************************************************)
(* The settings of the graphical client: SettingsModel, its encrypted file *)
(* and its ping monitoring (gui/settingsmodel/settingsmodel.cpp), and the  *)
(* settings dialog with its table of services (gui/settingswidget).        *)
(*                                                                         *)
(* The dialog, the tray and the timers share the GUI thread; pings run on  *)
(* a pool.  A service is its name and the token it came from.  All the     *)
(* other settings are one value, since each is set and saved in the same   *)
(* way.  The process may end at any time, in the middle of a save too.     *)
(***************************************************************************)
EXTENDS Integers, Sequences, FiniteSets, SequencesExt

CONSTANTS
  Names,        \* service names
  Tokens,       \* versions of a service's token
  Values,       \* values of the other settings
  Default,      \* the value they have when no file says otherwise
  MaxHandlers,  \* bound: times the ping timer is connected
  MaxServices   \* bound: services at once, one more if a save failed

ASSUME SettingsAssumption ==
  /\ Default \in Values /\ MaxHandlers \in Nat \ {0} /\ MaxServices \in Nat

VARIABLES
  services,     \* services_
  value,        \* the other settings
  file,         \* the settings file
  saved,        \* history: the last Save returned true
  escaped,      \* history: Esc has closed the dialog since the file was last written
  open,         \* the dialog is shown
  table,        \* server_table_: the service each row shows, and the row its
                \* delete button was made for, 0 without a connected button
  aligned,      \* history: no save failed since the dialog was opened
  pinging,      \* start_pinging_
  handlers,     \* slots connected to ping_timer_
  pending,      \* pending_pings_
  pings         \* PingServer calls on the pool, per service

model   == <<services, value>>
disk    == <<file, saved, escaped>>
dialog  == <<open, table, aligned>>
monitor == <<pinging, handlers, pending, pings>>
vars    == <<services, value, file, saved, escaped, open, table, aligned,
             pinging, handlers, pending, pings>>

Service == [name : Names, token : Tokens]
Content(s, v) == [intact |-> TRUE, services |-> s, value |-> v]
Absent == Content(<<>>, Default)
\* A file that cannot be decrypted or parsed is read as no services.
Broken == [Absent EXCEPT !.intact = FALSE]

-----------------------------------------------------------------------------
(* Load and Save *)

\* The file is truncated and then written: a write that fails leaves neither
\* the old nor the new settings.  One that fails as close() flushes the buffer
\* is not noticed: true is returned.
Save(s, v) ==
  \/ file' = Content(s, v) /\ saved' = TRUE /\ escaped' = FALSE
  \/ file' = file /\ saved' = FALSE /\ UNCHANGED escaped
  \/ file' = Broken /\ saved' \in BOOLEAN /\ UNCHANGED escaped

\* Set...: the member is assigned and everything is saved.
SetValue(v) ==
  /\ open
  /\ value' = v
  /\ Save(services, v)
  /\ UNCHANGED <<services, dialog, monitor>>
-----------------------------------------------------------------------------
(* The dialog *)

\* A delete button remembers the row it is made for.
RowOf(s, i) == [name |-> s[i].name, button |-> i]

OpenDialog ==
  /\ ~open
  /\ open' = TRUE /\ aligned' = TRUE
  /\ table' = [i \in 1..Len(services) |-> RowOf(services, i)]
  /\ UNCHANGED <<model, disk, monitor>>

\* GetExistServiceIndex.
IndexOf(name) ==
  LET at == {i \in 1..Len(services) : services[i].name = name}
  IN  IF at = {} THEN 0 ELSE CHOOSE i \in at : \A j \in at : i <= j

Without(s, i) == IF i \in 1..Len(s) THEN RemoveAt(s, i) ELSE s

\* Defect: the service's old settings stay.
AddBeside(name, token) == Append(services, [name |-> name, token |-> token])

\* RemoveServer of the service's previous settings, then AddService.
Replaced(name, token) ==
  Append(Without(services, IndexOf(name)), [name |-> name, token |-> token])

\* onLoadNewConfig with a token that ParseToken accepts: the previous
\* settings of the service are replaced; the new row has no delete button,
\* and there is no new row if the save failed.
LoadNewConfig(name, token) ==
  /\ open
  /\ services' = Replaced(name, token)
  /\ Len(services') <= MaxServices
  /\ Save(services', value)
  /\ LET kept == Without(table, IndexOf(name))
     IN  table' = IF saved' THEN Append(kept, [name |-> name, button |-> 0]) ELSE kept
  /\ aligned' = (aligned /\ saved')
  /\ UNCHANGED <<value, open, monitor>>

\* SettingsModel::RemoveServer; nothing is saved yet.
RemoveServer(row) == services' = Without(services, row)

\* The delete button of row i calls onRemoveServer with the row it was made
\* for.
ClickDelete(i) ==
  /\ open
  /\ i \in 1..Len(table) /\ table[i].button # 0
  /\ LET row == table[i].button
     IN  IF row \in 1..Len(table)
           THEN /\ table' = RemoveAt(table, row)
                /\ RemoveServer(row)
           ELSE UNCHANGED <<table, services>>
  /\ UNCHANGED <<value, disk, open, aligned, monitor>>

\* Defect: the dialog is closed without saving.
CloseOnly == UNCHANGED disk

\* Every setter onExit calls saves, and the last Save has it all.
SaveAll == Save(services, value')

\* closeEvent and onExit: what was removed is saved with everything else.
OnExit ==
  /\ open
  /\ value' \in Values
  /\ SaveAll
  /\ open' = FALSE /\ table' = <<>> /\ aligned' = TRUE
  /\ UNCHANGED <<services, monitor>>

\* Esc: the dialog, run by exec(), is hidden without a close event, and what
\* the delete buttons removed stays in the file.
Reject ==
  /\ open
  /\ open' = FALSE /\ table' = <<>> /\ aligned' = TRUE
  /\ escaped' = TRUE
  /\ UNCHANGED <<model, file, saved, monitor>>
-----------------------------------------------------------------------------
(* Ping monitoring *)

StartPingMonitoring ==
  /\ ~pinging
  /\ handlers < MaxHandlers
  /\ pinging' = TRUE
  /\ handlers' = handlers + 1        \* connected once more, never disconnected
  /\ UNCHANGED <<model, disk, dialog, pending, pings>>

StopPingMonitoring ==
  /\ pinging
  /\ pinging' = FALSE
  /\ UNCHANGED <<model, disk, dialog, handlers, pending, pings>>

\* Defect: a slot does not wait for the batch of another one.
EverySlotPings == pinging

SlotPings == pinging /\ pending = 0

\* One of the connected slots: a batch of pings of every server there is.
PingTick ==
  /\ handlers > 0
  /\ SlotPings
  /\ pending' = Cardinality({services[i].name : i \in 1..Len(services)})
  /\ pings' = [n \in Names |->
                 pings[n] + IF \E i \in 1..Len(services) : services[i].name = n THEN 1 ELSE 0]
  /\ UNCHANGED <<model, disk, dialog, pinging, handlers>>

\* PingServer returns, whatever it measured, and the counter goes down.
PingDone(n) ==
  /\ pings[n] > 0
  /\ pings' = [pings EXCEPT ![n] = @ - 1]
  /\ pending' = pending - 1
  /\ UNCHANGED <<model, disk, dialog, pinging, handlers>>

-----------------------------------------------------------------------------
(* The process *)

Load == services' = file'.services /\ value' = file'.value

\* The process ends, in the middle of a save if the dialog is open, and is
\* started again.
Restart ==
  /\ file' = file \/ (open /\ file' = Broken)
  /\ Load
  /\ saved' = file'.intact /\ escaped' = FALSE
  /\ open' = FALSE /\ table' = <<>> /\ aligned' = TRUE
  /\ pinging' = TRUE /\ handlers' = 1 /\ pending' = 0
  /\ pings' = [n \in Names |-> 0]

SettingsInit ==
  /\ services = <<>> /\ value = Default
  /\ file = Absent /\ saved = TRUE /\ escaped = FALSE
  /\ open = FALSE /\ table = <<>> /\ aligned = TRUE
  /\ pinging = TRUE /\ handlers = 1 /\ pending = 0
  /\ pings = [n \in Names |-> 0]

SettingsNext ==
  \/ OpenDialog \/ OnExit \/ Reject
  \/ \E v \in Values : SetValue(v)
  \/ \E n \in Names, t \in Tokens : LoadNewConfig(n, t)
  \/ \E i \in 1..Len(table) : ClickDelete(i)
  \/ StartPingMonitoring \/ StopPingMonitoring \/ PingTick
  \/ \E n \in Names : PingDone(n)
  \/ Restart

SettingsSpec == SettingsInit /\ [][SettingsNext]_vars
-----------------------------------------------------------------------------
(* Properties *)

SettingsTypeOK ==
  /\ services \in Seq(Service) /\ value \in Values
  /\ file.services \in Seq(Service) /\ file.value \in Values
  /\ \A i \in 1..Len(table) : table[i].name \in Names /\ table[i].button \in Nat
  /\ handlers \in 0..MaxHandlers /\ pending \in Int /\ pings \in [Names -> Nat]

\* A service is listed once, under its last token, and as long as no save has
\* failed the rows of the dialog are the services, in their order: the row a
\* delete button names stands for the service of the same index.
TableIsServices ==
  /\ SettingsTypeOK
  /\ \A i, j \in 1..Len(services) : services[i].name = services[j].name => i = j
  /\ open /\ aligned =>
       /\ Len(table) = Len(services)
       /\ \A i \in 1..Len(table) : table[i].name = services[i].name

\* Where the last save reported success and the file can be read, it has every
\* setting and every service the client uses, and once the dialog has been
\* closed by its button or the window's, nothing more, the removals that no
\* button saved included (settings.cpp:1009, 1116).  After Esc a service that was
\* removed may come back with the next start.  A save that is reported to have
\* succeeded and cannot be read was cut off at close() (settingsmodel.cpp:584).
SavedWhenClosed ==
  ~open /\ saved /\ file.intact =>
    /\ file.value = value
    /\ IF escaped THEN ToSet(services) \subseteq ToSet(file.services)
       ELSE file.services = services

\* pending_pings_ counts the pings that have not returned, across stops,
\* restarts and slots connected twice, so there is one batch at a time
\* (settingsmodel.cpp:826).
PendingCountsPings ==
  /\ \A n \in Names : pings[n] <= 1
  /\ pending = Cardinality({n \in Names : pings[n] = 1})
=============================================================================
