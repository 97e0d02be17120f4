----------------------------- MODULE MCClients -----------------------------
(***************************************************************************)
(* The clients of the backend that share no state, and the handlers of the *)
(* backups they send, one after the other: the part in focus moves, the    *)
(* others stay as they are.                                                *)
(***************************************************************************)
EXTENDS TicketWindow, DashboardTabs, Preferences, Wizard, Updater, Phone, MCBackupRestore

\* Two of the dashboard's widgets.
Order == <<"open", "urgent">>

VARIABLE focus

vars == <<focus, windowVars, usersVars, panelVars, prefsVars, wizardVars, updaterVars, phoneVars, restoreVars>>

\* A state differs from another only in the part in focus: all TLC need compare.
InFocus ==
    CASE focus = "window" -> <<focus, windowVars>>
      [] focus = "users" -> <<focus, usersVars>>
      [] focus = "settings" -> <<focus, panelVars>>
      [] focus = "prefs" -> <<focus, prefsVars>>
      [] focus = "wizard" -> <<focus, wizardVars>>
      [] focus = "updater" -> <<focus, updaterVars>>
      [] focus = "phone" -> <<focus, phoneVars>>
      [] focus = "restore" -> <<focus, restoreVars>>

\* Few beginnings of the part in focus, and one of the others.
WindowAtRest == focus # "window" => existing = Tickets /\ agent = [k \in Tickets |-> NoAgent]
UsersAtRest == focus # "users" => locked = [a \in Accounts |-> FALSE]
PanelAtRest ==
    /\ kept["settings"] = [language |-> "pl", backup |-> "on"]
    /\ uiLanguage = "pl"
    /\ kept["catalogue"] = [Empty EXCEPT ![CHOOSE e \in Entries : TRUE] = "active"]
    /\ focus # "settings" => costCatalog = Empty
PrefsAtRest ==
    LET first == CHOOSE n \in Names : TRUE IN
    /\ userToken = <<CHOOSE u \in Users : TRUE, 1>>
    /\ \A u \in Users :
         IF userToken = <<u, 1>> /\ focus = "prefs"
         THEN stored[u] = [FirstPrefs EXCEPT !.default = first,
                               !.saved = <<[name |-> first, filter |-> "open", by |-> u]>>]
         ELSE stored[u] = FirstPrefs
UpdaterAtRest == focus # "updater" => stateFile = Missing /\ \A v \in Versions : version <= v
RestoreAtRest == focus # "restore" => config.key = "own" /\ sidecar = Gone

Init ==
    /\ focus \in {"window", "users", "settings", "prefs", "wizard", "updater", "phone", "restore"}
    /\ WindowInit /\ WindowAtRest
    /\ UsersInit /\ UsersAtRest
    /\ PanelInit /\ PanelAtRest
    /\ PrefsInit /\ PrefsAtRest
    /\ WizardInit
    /\ UpdaterInit /\ UpdaterAtRest
    /\ PhoneInit
    /\ RestoreInit /\ RestoreAtRest

Windows ==
    /\ WindowNext
    /\ UNCHANGED <<usersVars, panelVars, prefsVars, wizardVars, updaterVars, phoneVars, restoreVars>>
Accounting ==
    /\ UsersNext
    /\ UNCHANGED <<windowVars, panelVars, prefsVars, wizardVars, updaterVars, phoneVars, restoreVars>>
Configuring ==
    /\ PanelNext
    /\ UNCHANGED <<windowVars, usersVars, prefsVars, wizardVars, updaterVars, phoneVars, restoreVars>>
Preferring ==
    /\ PrefsNext
    /\ UNCHANGED <<windowVars, usersVars, panelVars, wizardVars, updaterVars, phoneVars, restoreVars>>
Wizards ==
    /\ WizardNext
    /\ UNCHANGED <<windowVars, usersVars, panelVars, prefsVars, updaterVars, phoneVars, restoreVars>>
Updates ==
    /\ UpdaterNext
    /\ UNCHANGED <<windowVars, usersVars, panelVars, prefsVars, wizardVars, phoneVars, restoreVars>>
Phones ==
    /\ PhoneNext
    /\ UNCHANGED <<windowVars, usersVars, panelVars, prefsVars, wizardVars, updaterVars, restoreVars>>
Restores ==
    /\ RestoreNext
    /\ UNCHANGED <<windowVars, usersVars, panelVars, prefsVars, wizardVars, updaterVars, phoneVars>>

Next ==
    /\ UNCHANGED focus
    /\ \/ focus = "window" /\ Windows
       \/ focus = "users" /\ Accounting
       \/ focus = "settings" /\ Configuring
       \/ focus = "prefs" /\ Preferring
       \/ focus = "wizard" /\ Wizards
       \/ focus = "updater" /\ Updates
       \/ focus = "phone" /\ Phones
       \/ focus = "restore" /\ Restores

Spec == Init /\ [][Next]_vars

\* The type invariants of the parts.
TypesOK ==
    /\ focus = "window" => WindowTypeOK
    /\ focus = "users" => UsersTypeOK
    /\ focus = "settings" => PanelTypeOK
    /\ focus = "prefs" => PrefsTypeOK
    /\ focus = "wizard" => WizardTypeOK
    /\ focus = "updater" => UpdaterTypeOK
    /\ focus = "phone" => PhoneTypeOK
    /\ focus = "restore" => RestoreTypeOK
=============================================================================
