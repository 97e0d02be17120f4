------------------------------ MODULE Documents ------------------------------
(***************************************************************************)
(* What the program keeps as JSON documents, each whole in one row of      *)
(* app_settings: the settings of SettingsService, the reminders of         *)
(* RemindersService, the catalogue of costs, and the signup code of        *)
(* technicians, which UsersService reads with the settings.                *)
(*                                                                         *)
(* A document is a function of its sections: the settings have all of them,*)
(* each with a default, the reminders those that were created.  A change   *)
(* reads the document in one query and writes it, whole, in another.       *)
(***************************************************************************)
EXTENDS Naturals

CONSTANTS Editors,     \* requests that may be in flight at the same time
          Sections,    \* sections of the settings, identifiers of reminders
          SignupCodes, \* codes an administrator may set
          Selfsignup   \* the section of settings with technicianSelfSignup

ASSUME DocumentsAssumption == Selfsignup \in Sections /\ "none" \notin SignupCodes

VARIABLES
    document,   \* the rows of app_settings; those that were never written are absent
    edit,       \* the change each editor has in flight
    told        \* auxiliary: what the answered changes come to, where one during
                \* whose way another was written replaces everything

documentVars == <<document, edit, told>>

Values == {"default", "set"}
Settings == [Sections -> Values]
DefaultSettings == [s \in Sections |-> "default"]
Reminders == UNION {[S -> {"PENDING", "DONE"}] : S \in SUBSET Sections}
NoReminders == [s \in {} |-> "PENDING"]
Codes == SignupCodes \cup {"none"}
NoEdit == [at |-> "no"]

\* The content a reader sees of a row that was never written.
Empty == [settings |-> DefaultSettings, reminders |-> NoReminders]

DocumentsInit ==
    /\ document = [settings |-> DefaultSettings, reminders |-> NoReminders,
                   catalog |-> "none", code |-> "none"]
    /\ edit = [e \in Editors |-> NoEdit]
    /\ told = Empty

Take(e, r) == edit' = [edit EXCEPT ![e] = r]

\* Every change of a document reads it first.
ReadAll(e, d, op) ==
    /\ edit[e] = NoEdit
    /\ Take(e, [at |-> "read", doc |-> d, was |-> document[d], op |-> op, crossed |-> FALSE])
    /\ UNCHANGED <<document, told>>

\* The whole document is written, and the change answered.
WriteAll(e, d, changed, expected) ==
    /\ document' = [document EXCEPT ![d] = changed]
    /\ told' = [told EXCEPT ![d] = IF edit[e].crossed THEN changed ELSE expected]
    /\ edit' = [o \in Editors |->
         IF o = e THEN NoEdit
         ELSE IF edit[o].at = "read" /\ edit[o].doc = d THEN [edit[o] EXCEPT !.crossed = TRUE]
         ELSE edit[o]]

Reading(e, d, kind) == edit[e].at = "read" /\ edit[e].doc = d /\ edit[e].op.kind = kind

----------------------------------------------------------------------------
(* Settings *)

Patches == [kind : {"patch"}, section : Sections, value : Values]
GetSettings(e, op) == ReadAll(e, "settings", op)

Patch(settings, op) == [settings EXCEPT ![op.section] = op.value]

\* Fault: the patch is completed from the defaults.
UpdateFromDefaults(e) ==
    /\ Reading(e, "settings", "patch")
    /\ WriteAll(e, "settings", Patch(DefaultSettings, edit[e].op), Patch(told.settings, edit[e].op))

UpdateSystemSettings(e) ==
    /\ Reading(e, "settings", "patch")
    /\ WriteAll(e, "settings", Patch(edit[e].was, edit[e].op), Patch(told.settings, edit[e].op))

----------------------------------------------------------------------------
(* Reminders *)

ReminderOps == [kind : {"create", "done", "pending", "remove"}, section : Sections]
GetReminders(e, op) == ReadAll(e, "reminders", op)

With(reminders, id, status) ==
    [s \in DOMAIN reminders \cup {id} |-> IF s = id THEN status ELSE reminders[s]]
Less(reminders, id) == [s \in DOMAIN reminders \ {id} |-> reminders[s]]

\* A new reminder has an identifier of its own.
CreateReminder(e) ==
    LET id == edit[e].op.section IN
    /\ Reading(e, "reminders", "create")
    /\ id \notin DOMAIN document.reminders
    /\ WriteAll(e, "reminders", With(edit[e].was, id, "PENDING"), With(told.reminders, id, "PENDING"))

MarkDone(e) ==
    \E status \in {"DONE", "PENDING"} :
        LET id == edit[e].op.section IN
        /\ Reading(e, "reminders", IF status = "DONE" THEN "done" ELSE "pending")
        /\ id \in DOMAIN edit[e].was
        /\ WriteAll(e, "reminders", With(edit[e].was, id, status), With(told.reminders, id, status))

RemoveReminder(e) ==
    LET id == edit[e].op.section IN
    /\ Reading(e, "reminders", "remove")
    /\ id \in DOMAIN edit[e].was
    /\ WriteAll(e, "reminders", Less(edit[e].was, id), Less(told.reminders, id))

\* The reminder is not there, or the new one was made already.
ReminderRefused(e) ==
    /\ edit[e].at = "read" /\ edit[e].doc = "reminders"
    /\ IF edit[e].op.kind = "create" THEN edit[e].op.section \in DOMAIN document.reminders
       ELSE edit[e].op.section \notin DOMAIN edit[e].was
    /\ Take(e, NoEdit)
    /\ UNCHANGED <<document, told>>

----------------------------------------------------------------------------
(* The catalogue and the code are written without being read *)

UpdateCostCatalog == document' = [document EXCEPT !.catalog = "set"] /\ UNCHANGED <<edit, told>>

SetTechnicianSignupCode(code) ==
    /\ document' = [document EXCEPT !.code = code]
    /\ UNCHANGED <<edit, told>>

\* registerTechnician reads the settings, then the code, then creates the user.
RegisterTechnician(e, code) ==
    /\ edit[e] = NoEdit
    /\ document.settings[Selfsignup] = "set"
    /\ Take(e, [at |-> "allowed", code |-> code])
    /\ UNCHANGED <<document, told>>

CheckSignupCode(e) ==
    /\ edit[e].at = "allowed"
    /\ Take(e, IF document.code = edit[e].code THEN [at |-> "entitled"] ELSE NoEdit)
    /\ UNCHANGED <<document, told>>

CreateTechnician(e) ==
    /\ edit[e].at = "entitled"
    /\ Take(e, NoEdit)
    /\ UNCHANGED <<document, told>>

----------------------------------------------------------------------------
\* The backend ends: changes that were not written are not answered either.
EditorsCrash ==
    /\ edit' = [e \in Editors |-> NoEdit]
    /\ UNCHANGED <<document, told>>

DocumentsNext ==
    \/ \E e \in Editors :
        \/ \E op \in Patches : GetSettings(e, op)
        \/ \E op \in ReminderOps : GetReminders(e, op)
        \/ UpdateSystemSettings(e)
        \/ CreateReminder(e) \/ MarkDone(e) \/ RemoveReminder(e) \/ ReminderRefused(e)
        \/ \E code \in SignupCodes : RegisterTechnician(e, code)
        \/ CheckSignupCode(e) \/ CreateTechnician(e)
    \/ UpdateCostCatalog
    \/ \E code \in SignupCodes : SetTechnicianSignupCode(code)
    \/ EditorsCrash

DocumentsSpec == DocumentsInit /\ [][DocumentsNext]_documentVars

----------------------------------------------------------------------------
Edits ==
    {NoEdit, [at |-> "entitled"]} \cup [at : {"allowed"}, code : Codes]
    \cup [at : {"read"}, doc : {"settings"}, was : Settings, op : Patches,
              crossed : BOOLEAN]
    \cup [at : {"read"}, doc : {"reminders"}, was : Reminders, op : ReminderOps,
              crossed : BOOLEAN]

DocumentsTypeOK ==
    /\ document \in [settings : Settings, reminders : Reminders,
                     catalog : {"none", "set"}, code : Codes]
    /\ \A e \in Editors : edit[e] \in Edits
    /\ told \in [settings : Settings, reminders : Reminders]

\* Every change of the settings or the reminders that was answered is in the
\* document, and no other: one is lost only when another change of the same
\* document, whichever section it was about, was read before and written after.
ChangesKept == document.settings = told.settings /\ document.reminders = told.reminders
=============================================================================
