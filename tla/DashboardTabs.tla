--------------------------- MODULE DashboardTabs ---------------------------
(***************************************************************************)
(* The two tabs of the dashboard in which an administrator edits copies of *)
(* what the backend has: the accounts, and the catalogue with the settings.*)
(* They are one page, but share nothing; the steps of both alternate.      *)
(***************************************************************************)
EXTENDS UsersPanel, SettingsPanel

tabsVars == <<usersVars, panelVars>>

TabsInit == UsersInit /\ PanelInit

TabsNext ==
    \/ UsersNext /\ UNCHANGED panelVars
    \/ PanelNext /\ UNCHANGED usersVars

TabsSpec == TabsInit /\ [][TabsNext]_tabsVars

(* The tabs of the dashboard: what the page was told is stored stays so,   *)
(* it speaks the language it shows, and the form and the notes under the   *)
(* name of an account are of this account.                                 *)
TabsFaithful == SavedStays /\ LanguageShown /\ FormOfSelected /\ NotesOfSelected
=============================================================================
