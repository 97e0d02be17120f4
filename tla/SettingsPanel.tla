--------------------------- MODULE SettingsPanel ---------------------------
(***************************************************************************)
(* The configuration tab of the dashboard: the catalogue of costs and the  *)
(* settings of the system.  The page holds a copy of each, changes it and  *)
(* sends it back whole; every visit of the tab asks for both anew, beside  *)
(* what is still on its way.  The buttons of the catalogue are disabled    *)
(* while it is saved, the form of the settings never is.                   *)
(*                                                                         *)
(* A document is a function of its parts: the entries of the catalogue,    *)
(* the fields of the settings, of which the language can be changed        *)
(* anywhere.  One administrator works here.                                *)
(***************************************************************************)
EXTENDS Naturals, Sequences, SequencesExt, FiniteSets

CONSTANTS Entries,     \* entries the catalogue may have
          MaxEntries,  \* how many of them it holds: 600
          MaxTurns     \* bound on what the administrator does

ASSUME PanelAssumption == IsFiniteSet(Entries) /\ MaxEntries \in Nat /\ MaxTurns \in Nat

VARIABLES
    kept,        \* the documents in the backend
    costCatalog, \* costCatalog
    settings,    \* settings, or nothing before the first answer
    uiLanguage,  \* uiLanguage and ts_ui_language
    typed,       \* auxiliary: fields typed in since an answer filled the form
    onTab,       \* activeNav is the configuration
    loads,       \* loads of each document on their way, with what they read
    writes,       \* writes of each document on their way
    told,        \* auxiliary: the parts as the page was told they are stored
    turns        \* what the administrator has done so far

panelVars == <<kept, costCatalog, settings, uiLanguage, typed, onTab, loads, writes, told, turns>>

Documents == {"catalogue", "settings"}
Fields == {"language", "backup"}
Absent == "absent"
Languages == {"pl", "en"}
Catalogues == [Entries -> {Absent, "active", "hidden"}]
SettingsForms == {s \in [Fields -> Languages \cup {"on", "off"}] :
            s["language"] \in Languages /\ s["backup"] \in {"on", "off"}}
Empty == [e \in Entries |-> Absent]
NoForm == << >>
NotRead == << >>
Unknown == "unknown"

Parts(d) == IF d = "catalogue" THEN Entries ELSE Fields
Page(d) == IF d = "catalogue" THEN costCatalog ELSE settings
Entered(c) == {e \in Entries : c[e] # Absent}

\* The dashboard has started: a catalogue it could not get is empty.
PanelInit ==
    /\ kept \in [catalogue : {c \in Catalogues : Cardinality(Entered(c)) <= MaxEntries}, settings : SettingsForms]
    /\ costCatalog \in {kept["catalogue"], Empty}
    /\ settings = NoForm
    /\ uiLanguage \in Languages
    /\ typed = {}
    /\ onTab = FALSE
    /\ loads = [d \in Documents |-> << >>]
    /\ writes = [d \in Documents |-> << >>]
    /\ told = kept
    /\ turns = 0

----------------------------------------------------------------------------
(* Visits and loads *)

\* Each visit asks for both documents.
EnterTab ==
    /\ ~onTab
    /\ onTab' = TRUE
    /\ loads' = [d \in Documents |-> Append(loads[d], NotRead)]
    /\ UNCHANGED <<kept, costCatalog, settings, uiLanguage, typed, writes, told>>

LeaveTab ==
    /\ onTab
    /\ onTab' = FALSE
    /\ UNCHANGED <<kept, costCatalog, settings, uiLanguage, typed, loads, writes, told>>

LoadRead(d, i) ==
    /\ loads[d][i] = NotRead
    /\ loads' = [loads EXCEPT ![d][i] = kept[d]]
    /\ UNCHANGED <<kept, costCatalog, settings, uiLanguage, typed, onTab, writes, told, turns>>

\* An answer takes the place of what the page shows, with what was typed.
Show(d, doc) ==
    IF d = "catalogue"
    THEN /\ costCatalog' = doc
         /\ UNCHANGED <<settings, uiLanguage, typed>>
    ELSE /\ settings' = doc
         /\ uiLanguage' = doc["language"]
         /\ typed' = {}
         /\ UNCHANGED costCatalog

LoadAnswered(d, i) ==
    /\ loads[d][i] # NotRead
    /\ Show(d, loads[d][i])
    /\ loads' = [loads EXCEPT ![d] = RemoveAt(@, i)]
    /\ UNCHANGED <<kept, onTab, writes, told, turns>>

\* A catalogue that cannot be loaded is shown empty, and can be saved.
LoadFails(d, i) ==
    /\ costCatalog' = IF d = "catalogue" THEN Empty ELSE costCatalog
    /\ loads' = [loads EXCEPT ![d] = RemoveAt(@, i)]
    /\ UNCHANGED <<kept, settings, uiLanguage, typed, onTab, writes, told, turns>>

----------------------------------------------------------------------------
(* Changes and writes *)

\* A save sends the whole document.  What the page does not show as it was
\* told is given up with it; writes that meet on their way, or that nobody
\* waits for, may be carried out in any order.
BeginWrite(d, form, parts) ==
    LET meets == writes[d] # << >> /\ (d = "settings" \/ \E i \in DOMAIN writes[d] : ~writes[d][i].ordered)
        others == IF meets THEN [i \in DOMAIN writes[d] |-> [writes[d][i] EXCEPT !.ordered = FALSE]] ELSE writes[d]
    IN  /\ writes' = [writes EXCEPT ![d] = Append(others,
                        [form |-> form, parts |-> parts, stored |-> FALSE, waited |-> TRUE, ordered |-> ~meets])]
        /\ told' = [told EXCEPT ![d] = [p \in Parts(d) |-> IF p \in parts \/ @[p] = form[p] THEN @[p] ELSE Unknown]]

CostCatalogSaving == \E i \in DOMAIN writes["catalogue"] : writes["catalogue"][i].waited

\* Fault: the buttons stay enabled while the catalogue is saved.
ButtonsAlwaysEnabled == onTab

ButtonsEnabled == onTab /\ ~CostCatalogSaving

SaveCostCatalog(e, value) ==
    /\ ButtonsEnabled
    /\ BeginWrite("catalogue", [costCatalog EXCEPT ![e] = value], {e})
    /\ UNCHANGED <<kept, costCatalog, settings, uiLanguage, typed, onTab, loads>>

\* An entry that is added has an identifier nobody knows yet.
AddCatalogEntry(e, value) ==
    /\ costCatalog[e] = Absent /\ kept["catalogue"][e] = Absent /\ told["catalogue"][e] = Absent
    /\ \A i \in DOMAIN loads["catalogue"] :
         loads["catalogue"][i] # NotRead => loads["catalogue"][i][e] = Absent
    /\ \A i \in DOMAIN writes["catalogue"] : writes["catalogue"][i].form[e] = Absent
    /\ SaveCostCatalog(e, value)

ToggleCatalogEntry(e) ==
    /\ costCatalog[e] # Absent
    /\ SaveCostCatalog(e, IF costCatalog[e] = "active" THEN "hidden" ELSE "active")

RemoveCatalogEntry(e) ==
    /\ costCatalog[e] # Absent
    /\ SaveCostCatalog(e, Absent)

\* The language of the header is changed without the form, too.
ChangeLanguage(language) ==
    /\ language # uiLanguage
    /\ uiLanguage' = language
    /\ IF settings = NoForm THEN UNCHANGED <<settings, typed>>
       ELSE /\ settings' = [settings EXCEPT !["language"] = language]
            /\ typed' = typed \cup {"language"}
    /\ UNCHANGED <<kept, costCatalog, onTab, loads, writes, told>>

ChangeBackup(value) ==
    /\ onTab
    /\ settings # NoForm
    /\ settings["backup"] # value
    /\ settings' = [settings EXCEPT !["backup"] = value]
    /\ typed' = typed \cup {"backup"}
    /\ UNCHANGED <<kept, costCatalog, uiLanguage, onTab, loads, writes, told>>

SaveSettings ==
    /\ onTab
    /\ settings # NoForm
    /\ BeginWrite("settings", settings, typed)
    /\ UNCHANGED <<kept, costCatalog, settings, uiLanguage, typed, onTab, loads>>

\* The catalogue is cut to its first entries: one too many was added last.
Normalized(d, save) ==
    IF d = "catalogue" /\ Cardinality(Entered(save.form)) > MaxEntries
    THEN [p \in Entries |-> IF p \in save.parts THEN Absent ELSE save.form[p]]
    ELSE save.form

WriteStored(d, i) ==
    LET save == writes[d][i] IN
    /\ ~save.stored
    /\ kept' = [kept EXCEPT ![d] = Normalized(d, save)]
    /\ writes' = [writes EXCEPT ![d] = IF save.waited THEN [@ EXCEPT ![i].stored = TRUE] ELSE RemoveAt(@, i)]
    /\ told' = IF save.ordered THEN told
               ELSE [told EXCEPT ![d] = [p \in Parts(d) |-> IF @[p] = kept'[d][p] THEN @[p] ELSE Unknown]]
    /\ UNCHANGED <<costCatalog, settings, uiLanguage, typed, onTab, loads, turns>>

WriteAnswered(d, i) ==
    LET save == writes[d][i] IN
    /\ save.stored
    /\ Show(d, Normalized(d, save))
    /\ writes' = [writes EXCEPT ![d] = RemoveAt(@, i)]
    /\ told' = [told EXCEPT ![d] = [p \in Parts(d) |-> IF p \notin save.parts THEN @[p]
                                        ELSE IF save.ordered THEN Normalized(d, save)[p] ELSE Unknown]]
    /\ UNCHANGED <<kept, onTab, loads, turns>>

\* The save is refused, or its answer is lost.
WriteFails(d, i) ==
    LET save == writes[d][i] IN
    /\ save.waited
    /\ writes' = [writes EXCEPT ![d] = RemoveAt(@, i)]
    /\ told' = IF ~save.stored THEN told
               ELSE [told EXCEPT ![d] = [p \in Parts(d) |-> IF p \in save.parts THEN Unknown ELSE @[p]]]
    /\ UNCHANGED <<kept, costCatalog, settings, uiLanguage, typed, onTab, loads, turns>>

\* The page waits no longer for a save that may still be carried out.
WriteGivenUp(d, i) ==
    /\ writes[d][i].waited /\ ~writes[d][i].stored
    /\ writes' = [writes EXCEPT ![d][i].waited = FALSE, ![d][i].ordered = FALSE]
    /\ UNCHANGED <<kept, costCatalog, settings, uiLanguage, typed, onTab, loads, told, turns>>

----------------------------------------------------------------------------

PanelTurn ==
    /\ turns < MaxTurns
    /\ turns' = turns + 1
    /\ \/ EnterTab
       \/ LeaveTab
       \/ \E e \in Entries : \/ \E value \in {"active", "hidden"} : AddCatalogEntry(e, value)
                             \/ ToggleCatalogEntry(e)
                             \/ RemoveCatalogEntry(e)
       \/ \E language \in Languages : ChangeLanguage(language)
       \/ \E value \in {"on", "off"} : ChangeBackup(value)
       \/ SaveSettings

PanelAnswer(d) ==
    \/ \E i \in DOMAIN loads[d] : LoadRead(d, i) \/ LoadAnswered(d, i) \/ LoadFails(d, i)
    \/ \E i \in DOMAIN writes[d] : \/ WriteStored(d, i) \/ WriteAnswered(d, i)
                                  \/ WriteFails(d, i) \/ WriteGivenUp(d, i)

PanelNext == PanelTurn \/ \E d \in Documents : PanelAnswer(d)

----------------------------------------------------------------------------

PanelTypeOK ==
    /\ kept \in [catalogue : Catalogues, settings : SettingsForms]
    /\ costCatalog \in Catalogues
    /\ settings \in SettingsForms \cup {NoForm}
    /\ uiLanguage \in Languages
    /\ typed \subseteq Fields
    /\ onTab \in BOOLEAN
    /\ turns \in 0..MaxTurns

(* What the page was told is stored stays stored, however loads and writes  *)
(* overlap, until a page that no longer shows it is saved, or a save that  *)
(* met another, or that was given up, is carried out after all.            *)
SavedStays ==
    \A d \in Documents : \A p \in Parts(d) :
      \/ told[d][p] \in {Unknown, kept[d][p]}
      \/ \E i \in DOMAIN writes[d] : p \in writes[d][i].parts

(* The page speaks the language its form of the settings has.              *)
LanguageShown == settings # NoForm => uiLanguage = settings["language"]
=============================================================================
