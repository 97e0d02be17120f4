--------------------------- MODULE ServicesProofs ---------------------------
(***************************************************************************)
(* What the services of the backend promise beside the tickets.            *)
(***************************************************************************)
EXTENDS MCServices, SequenceTheorems, FiniteSetTheorems,
        WellFoundedInduction, TLAPS

----------------------------------------------------------------------------
(***************************************************************************)
(* Who was logged out, disabled or demoted before a request arrived stays  *)
(* out, for every number of requests, users and tokens.  The guard         *)
(* decides from the row it read, so the argument is about that row: what   *)
(* it says was so at the moment of the query, and entitled remembers       *)
(* moments.                                                                *)
(***************************************************************************)

\* A row that would let its request in was read when the request had its rights.
FoundEntitled ==
    \A r \in Requests :
        request[r].at = "found" /\ ~request[r].row.disabled /\ HasRole(request[r])
            => r \in entitled

RequestsTyped == request = [r \in Requests |-> request[r]]

GuardInv == RequestsTyped /\ FoundEntitled /\ RevokedStaysOut

LEMMA GuardInit == SessionsInit => GuardInv
BY DEF SessionsInit, GuardInv, RequestsTyped, FoundEntitled, RevokedStaysOut, Idle

\* Rights once seen are remembered as long as the request is on its way.
LEMMA EntitledStay ==
    ASSUME Observe, NEW r \in Requests, r \in entitled, request'[r].at \in Guarding
    PROVE  r \in entitled'
BY DEF Observe

\* A request that is where it was keeps what the invariant says of it.
LEMMA OthersStay ==
    ASSUME GuardInv, Observe, NEW r \in Requests, request'[r] = request[r]
    PROVE  /\ request'[r].at = "found" /\ ~request'[r].row.disabled /\ HasRole(request'[r])
                => r \in entitled'
           /\ request'[r].at = "inside" => r \in entitled'
BY EntitledStay DEF GuardInv, FoundEntitled, RevokedStaysOut, Guarding

\* The invariant is about one request at a time: whoever takes a step, only his
\* own state is to be looked at.
LEMMA OneMoves ==
    ASSUME GuardInv, Observe, NEW r \in Requests, NEW q, Goto(r, q),
           q.at = "found" /\ ~q.row.disabled /\ HasRole(q) => r \in entitled',
           q.at = "inside" => r \in entitled'
    PROVE  GuardInv'
<1>1. request' = [request EXCEPT ![r] = q] /\ RequestsTyped
  BY DEF Goto, GuardInv
<1>2. RequestsTyped'
  BY <1>1 DEF RequestsTyped
<1>3. request'[r] = q /\ \A s \in Requests \ {r} : request'[s] = request[s]
  BY <1>1 DEF RequestsTyped
<1>4. ASSUME NEW s \in Requests
      PROVE  /\ request'[s].at = "found" /\ ~request'[s].row.disabled /\ HasRole(request'[s])
                  => s \in entitled'
             /\ request'[s].at = "inside" => s \in entitled'
  <2>1. CASE s = r
    BY <1>3, <2>1
  <2>2. CASE s # r
    BY <1>3, <2>2, OthersStay
  <2> QED BY <2>1, <2>2
<1> QED BY <1>2, <1>4 DEF GuardInv, FoundEntitled, RevokedStaysOut, HasRole

LEMMA NoneMoves ==
    ASSUME GuardInv, Observe, UNCHANGED request
    PROVE  GuardInv'
<1>1. RequestsTyped'
  BY DEF GuardInv, RequestsTyped
<1>2. ASSUME NEW s \in Requests
      PROVE  /\ request'[s].at = "found" /\ ~request'[s].row.disabled /\ HasRole(request'[s])
                  => s \in entitled'
             /\ request'[s].at = "inside" => s \in entitled'
  BY OthersStay
<1> QED BY <1>1, <1>2 DEF GuardInv, FoundEntitled, RevokedStaysOut, HasRole

\* The query itself: the session and its user are what they are now.
LEMMA FoundWithRights ==
    ASSUME GuardInv, NEW r \in Requests, FindSession(r)
    PROVE  GuardInv'
<1> DEFINE q == [at |-> "found", token |-> request[r].token, purpose |-> request[r].purpose,
                 user |-> session[request[r].token], row |-> user[session[request[r].token]]]
<1>1. Goto(r, q) /\ Observe /\ UNCHANGED <<user, session>>
  BY DEF FindSession
<1>2. request'[r] = q
  BY <1>1 DEF Goto, GuardInv, RequestsTyped
<1>3. request[r].token \in DOMAIN session
  BY DEF FindSession
<1>4. ASSUME ~q.row.disabled, HasRole(q) PROVE r \in entitled'
  <2>1. Rights(request[r])'
    BY <1>1, <1>2, <1>3, <1>4 DEF Rights, HasRole
  <2> QED BY <1>1, <1>2, <2>1 DEF Observe, Guarding
<1>5. q.at = "found"
  OBVIOUS
<1> HIDE DEF q
<1> QED BY <1>1, <1>4, <1>5, OneMoves

\* The guards only let in what they found entitled.
LEMMA AdmittedWithRights ==
    ASSUME GuardInv, NEW r \in Requests, Admit(r)
    PROVE  GuardInv'
<1>1. Goto(r, Entered(request[r])) /\ Observe
  BY DEF Admit
<1>2. r \in entitled
  BY DEF Admit, GuardInv, FoundEntitled
<1>3. Entered(request[r]).at = "inside"
  BY DEF Entered
<1>4. request'[r].at = "inside"
  BY <1>1, <1>3 DEF Goto, GuardInv, RequestsTyped
<1>5. r \in entitled'
  BY <1>1, <1>2, <1>4, EntitledStay DEF Guarding
<1> QED BY <1>1, <1>3, <1>5, OneMoves

LEMMA GuardStep == GuardInv /\ [SessionsNext]_sessionVars => GuardInv'
<1> SUFFICES ASSUME GuardInv, [SessionsNext]_sessionVars PROVE GuardInv'
  OBVIOUS
<1>1. ASSUME NEW r \in Requests, Goto(r, Idle), Observe PROVE GuardInv'
  <2>1. Idle.at = "idle"
    BY DEF Idle
  <2> QED BY <1>1, <2>1, OneMoves
<1>2. ASSUME NEW r \in Requests, NEW u \in Users, LoggedIn(r, u) PROVE GuardInv'
  <2>1. Goto(r, [at |-> "login", user |-> u]) /\ Observe
    BY <1>2 DEF LoggedIn
  <2> QED BY <2>1, OneMoves
<1>3. ASSUME NEW r \in Requests, NEW t \in Tokens, CreateSession(r, t) PROVE GuardInv'
  BY <1>1, <1>3 DEF CreateSession
<1>4. ASSUME NEW r \in Requests, NEW t \in Tokens, NEW purpose \in Purposes,
             Arrive(r, t, purpose)
      PROVE  GuardInv'
  <2>1. Goto(r, [at |-> "arrived", token |-> t, purpose |-> purpose]) /\ Observe
    BY <1>4 DEF Arrive
  <2> QED BY <2>1, OneMoves
<1>5. ASSUME NEW r \in Requests, RepairAuthSessionStorage(r) PROVE GuardInv'
  BY <1>5, NoneMoves DEF RepairAuthSessionStorage
<1>6. ASSUME NEW r \in Requests,
             RepairFails(r) \/ FindNoSession(r) \/ EvictSession(r) \/ Forbid(r)
      PROVE  GuardInv'
  BY <1>1, <1>6 DEF RepairFails, FindNoSession, EvictSession, Forbid
<1>7. ASSUME NEW r \in Requests, Read(r) \/ Logout(r) \/ LogoutEverywhere(r) PROVE GuardInv'
  BY <1>1, <1>7 DEF Read, Logout, LogoutEverywhere, Finish
<1>8. ASSUME NEW r \in Requests, NEW u \in Users, NEW row \in UserRows, UpdateUser(r, u, row)
      PROVE  GuardInv'
  BY <1>1, <1>8 DEF UpdateUser, Finish
<1>9. CASE StorageLost
  BY <1>9, NoneMoves DEF StorageLost
<1>10. CASE UNCHANGED sessionVars
  BY <1>10 DEF sessionVars, GuardInv, RequestsTyped, FoundEntitled, RevokedStaysOut, HasRole
<1> QED BY <1>2, <1>3, <1>4, <1>5, <1>6, <1>7, <1>8, <1>9, <1>10,
           FoundWithRights, AdmittedWithRights DEF SessionsNext

\* No request gets behind the guards that did not have, at some moment since it
\* arrived, its session, an account in force and the role of its route.
THEOREM RevokedStaysOutCorrect == SessionsSpec => []RevokedStaysOut
<1>1. GuardInv => RevokedStaysOut
  BY DEF GuardInv
<1> QED BY <1>1, GuardInit, GuardStep, PTL DEF SessionsSpec

\* A request is always somewhere on its way, and a session is of a user.
LEMMA RequestTyped ==
    ASSUME SessionsTypeOK, RequestsTyped, NEW r \in Requests, NEW q \in InFlight, Goto(r, q)
    PROVE  \A s \in Requests : request'[s] \in InFlight
BY DEF SessionsTypeOK, RequestsTyped, Goto

LEMMA WithoutTyped ==
    ASSUME SessionsTypeOK, NEW T, session' = Without(T)
    PROVE  DOMAIN session' \subseteq Tokens /\ \A t \in DOMAIN session' : session'[t] \in Users
BY DEF SessionsTypeOK, Without

LEMMA SessionsTypedInit == SessionsInit => SessionsTypeOK
BY SessionsAssumption
   DEF SessionsInit, SessionsTypeOK, UserRows, Roles, NoSession, InFlight, Idle

LEMMA SessionsTypedStep ==
    SessionsTypeOK /\ RequestsTyped /\ [SessionsNext]_sessionVars => SessionsTypeOK'
<1> SUFFICES ASSUME SessionsTypeOK, RequestsTyped, [SessionsNext]_sessionVars PROVE SessionsTypeOK'
  OBVIOUS
<1>1. Idle \in InFlight
  BY DEF InFlight
<1>2. ASSUME NEW r \in Requests, Goto(r, Idle), UNCHANGED <<user, session, stored>>
      PROVE  SessionsTypeOK'
  BY <1>1, <1>2, RequestTyped DEF SessionsTypeOK
<1>3. ASSUME NEW r \in Requests, NEW T, Goto(r, Idle), session' = Without(T), UNCHANGED user,
             stored' \in BOOLEAN
      PROVE  SessionsTypeOK'
  BY <1>1, <1>3, RequestTyped, WithoutTyped DEF SessionsTypeOK
<1>4. ASSUME NEW r \in Requests, NEW u \in Users, LoggedIn(r, u) PROVE SessionsTypeOK'
  <2>1. [at |-> "login", user |-> u] \in InFlight
    BY DEF InFlight
  <2> QED BY <1>4, <2>1, RequestTyped DEF LoggedIn, SessionsTypeOK
<1>5. ASSUME NEW r \in Requests, NEW t \in Tokens, CreateSession(r, t) PROVE SessionsTypeOK'
  <2>1. request[r] \in InFlight /\ request[r].at = "login"
    BY <1>5 DEF CreateSession, SessionsTypeOK
  <2>2. request[r].user \in Users
    BY <2>1 DEF InFlight, Idle
  <2> QED BY <1>1, <1>5, <2>2, RequestTyped DEF CreateSession, SessionsTypeOK
<1>6. ASSUME NEW r \in Requests, NEW t \in Tokens, NEW purpose \in Purposes,
             Arrive(r, t, purpose)
      PROVE  SessionsTypeOK'
  <2>1. [at |-> "arrived", token |-> t, purpose |-> purpose] \in InFlight
    BY DEF InFlight
  <2> QED BY <1>6, <2>1, RequestTyped DEF Arrive, SessionsTypeOK
<1>7. ASSUME NEW r \in Requests, RepairAuthSessionStorage(r) PROVE SessionsTypeOK'
  BY <1>7 DEF RepairAuthSessionStorage, SessionsTypeOK
<1>8. ASSUME NEW r \in Requests, FindSession(r) PROVE SessionsTypeOK'
  <2>1. request[r] \in InFlight /\ request[r].at = "arrived"
    BY <1>8 DEF FindSession, SessionsTypeOK
  <2>2. request[r].token \in Tokens /\ request[r].purpose \in Purposes
    BY <2>1 DEF InFlight, Idle
  <2>3. session[request[r].token] \in Users /\ user[session[request[r].token]] \in UserRows
    BY <1>8 DEF FindSession, SessionsTypeOK
  <2>4. [at |-> "found", token |-> request[r].token, purpose |-> request[r].purpose,
         user |-> session[request[r].token], row |-> user[session[request[r].token]]] \in InFlight
    BY <2>2, <2>3 DEF InFlight
  <2> QED BY <1>8, <2>4, RequestTyped DEF FindSession, SessionsTypeOK
<1>9. ASSUME NEW r \in Requests, Admit(r) PROVE SessionsTypeOK'
  <2>1. request[r] \in InFlight /\ request[r].at = "found"
    BY <1>9 DEF Admit, SessionsTypeOK
  <2>2. Entered(request[r]) \in InFlight
    BY <2>1 DEF InFlight, Idle, Entered
  <2> QED BY <1>9, <2>2, RequestTyped DEF Admit, SessionsTypeOK
<1>10. ASSUME NEW r \in Requests, RepairFails(r) \/ FindNoSession(r) \/ Forbid(r) \/ Read(r)
       PROVE  SessionsTypeOK'
  BY <1>2, <1>10 DEF RepairFails, FindNoSession, Forbid, Read, Finish
<1>11. ASSUME NEW r \in Requests, EvictSession(r) PROVE SessionsTypeOK'
  BY <1>3, <1>11 DEF EvictSession, SessionsTypeOK
<1>12. ASSUME NEW r \in Requests, Logout(r) \/ LogoutEverywhere(r) PROVE SessionsTypeOK'
  BY <1>3, <1>12 DEF Logout, LogoutEverywhere, Finish
<1>13. ASSUME NEW r \in Requests, NEW u \in Users, NEW row \in UserRows, UpdateUser(r, u, row)
       PROVE  SessionsTypeOK'
  BY <1>1, <1>13, RequestTyped DEF UpdateUser, Finish, SessionsTypeOK
<1>14. CASE StorageLost
  BY <1>14 DEF StorageLost, NoSession, SessionsTypeOK
<1>15. CASE UNCHANGED sessionVars
  BY <1>15 DEF sessionVars, SessionsTypeOK
<1> QED BY <1>4, <1>5, <1>6, <1>7, <1>8, <1>9, <1>10, <1>11, <1>12, <1>13, <1>14, <1>15
        DEF SessionsNext

----------------------------------------------------------------------------
(***************************************************************************)
(* Every change of the settings or the reminders that was answered is in   *)
(* the document.  A change is lost only when another one crossed it, and   *)
(* one that was not crossed still holds the document as it is.             *)
(***************************************************************************)

EditsListed == edit = [e \in Editors |-> edit[e]]

\* What a change has read is the document, unless it was crossed.
ReadUnchanged ==
    \A e \in Editors :
        edit[e].at = "read" /\ ~edit[e].crossed => edit[e].was = document[edit[e].doc]

DocumentsInv == DocumentsTypeOK /\ EditsListed /\ ReadUnchanged /\ ChangesKept

LEMMA DocumentsInvInit == DocumentsInit => DocumentsInv
<1>1. DefaultSettings \in Settings
  BY DEF DefaultSettings, Settings, Values
<1>2. NoReminders \in [{} -> {"PENDING", "DONE"}]
  BY DEF NoReminders
<1>3. NoReminders \in Reminders
  BY <1>2 DEF Reminders
<1> QED
  BY <1>1, <1>3 DEF DocumentsInit, DocumentsInv, DocumentsTypeOK, EditsListed, ReadUnchanged, ChangesKept,
     Empty, Codes, Edits, NoEdit

LEMMA Patched ==
    ASSUME NEW settings \in Settings, NEW op \in Patches
    PROVE  Patch(settings, op) \in Settings
BY DEF Patch, Patches, Settings

LEMMA ReminderSet ==
    ASSUME NEW reminders \in Reminders, NEW id \in Sections, NEW status \in {"PENDING", "DONE"}
    PROVE  With(reminders, id, status) \in Reminders
<1>1. PICK S \in SUBSET Sections : reminders \in [S -> {"PENDING", "DONE"}]
  BY DEF Reminders
<1>2. With(reminders, id, status) \in [S \cup {id} -> {"PENDING", "DONE"}]
  BY <1>1 DEF With
<1> QED BY <1>2 DEF Reminders

LEMMA ReminderGone ==
    ASSUME NEW reminders \in Reminders, NEW id
    PROVE  Less(reminders, id) \in Reminders
<1>1. PICK S \in SUBSET Sections : reminders \in [S -> {"PENDING", "DONE"}]
  BY DEF Reminders
<1>2. Less(reminders, id) \in [S \ {id} -> {"PENDING", "DONE"}]
  BY <1>1 DEF Less
<1> QED BY <1>2 DEF Reminders

\* A change of one editor that writes no document.
LEMMA TakeKeeps ==
    ASSUME DocumentsInv, NEW e \in Editors, NEW r \in Edits, Take(e, r),
           r.at = "read" => r.was = document[r.doc],
           UNCHANGED <<document, told>>
    PROVE  DocumentsInv'
BY DEF DocumentsInv, DocumentsTypeOK, EditsListed, ReadUnchanged, ChangesKept, Take

LEMMA NothingWritten ==
    ASSUME DocumentsInv, UNCHANGED edit, UNCHANGED told, document' \in
           [settings : Settings, reminders : Reminders, catalog : {"none", "set"}, code : Codes],
           document'.settings = document.settings, document'.reminders = document.reminders
    PROVE  DocumentsInv'
<1>1. \A e \in Editors : edit[e].at = "read" => edit[e].doc \in {"settings", "reminders"}
  BY DEF DocumentsInv, DocumentsTypeOK, Edits, NoEdit
<1> QED BY <1>1 DEF DocumentsInv, DocumentsTypeOK, EditsListed, ReadUnchanged, ChangesKept

LEMMA EditOfSettings ==
    ASSUME DocumentsInv, NEW e \in Editors, edit[e].at = "read", edit[e].doc = "settings"
    PROVE  edit[e].was \in Settings /\ edit[e].op \in Patches /\ edit[e].crossed \in BOOLEAN
BY DEF DocumentsInv, DocumentsTypeOK, Edits, NoEdit

LEMMA EditOfReminders ==
    ASSUME DocumentsInv, NEW e \in Editors, edit[e].at = "read", edit[e].doc = "reminders"
    PROVE  edit[e].was \in Reminders /\ edit[e].op \in ReminderOps /\ edit[e].crossed \in BOOLEAN
BY DEF DocumentsInv, DocumentsTypeOK, Edits, NoEdit

\* Crossing leaves a change a change.
LEMMA CrossedStays ==
    ASSUME NEW x \in Edits, x.at = "read"
    PROVE  [x EXCEPT !.crossed = TRUE] \in Edits /\ [x EXCEPT !.crossed = TRUE].crossed
<1>1. CASE x \in [at : {"read"}, doc : {"settings"}, was : Settings, op : Patches, crossed : BOOLEAN]
  BY <1>1 DEF Edits
<1>2. CASE x \in [at : {"read"}, doc : {"reminders"}, was : Reminders, op : ReminderOps,
                  crossed : BOOLEAN]
  BY <1>2 DEF Edits
<1> QED BY <1>1, <1>2 DEF Edits, NoEdit

\* The editors after the settings were written.
LEMMA SettingsWritten ==
    ASSUME DocumentsInv, NEW e \in Editors, NEW changed \in Settings, NEW expected \in Settings,
           WriteAll(e, "settings", changed, expected),
           edit[e].crossed \/ changed = expected, edit[e].crossed \in BOOLEAN
    PROVE  DocumentsInv'
<1>1. /\ document' \in [settings : Settings, reminders : Reminders,
                       catalog : {"none", "set"}, code : Codes]
      /\ document'.settings = changed
      /\ document'.reminders = document.reminders
  BY DEF DocumentsInv, DocumentsTypeOK, WriteAll
<1>2. /\ told' \in [settings : Settings, reminders : Reminders]
      /\ told'.settings = changed
      /\ told'.reminders = told.reminders
  BY DEF DocumentsInv, DocumentsTypeOK, WriteAll
<1>3. ASSUME NEW o \in Editors
      PROVE  /\ edit'[o] \in Edits
             /\ edit'[o].at = "read" /\ ~edit'[o].crossed =>
                  edit'[o] = edit[o] /\ edit[o].doc = "reminders"
  <2>1. edit[o] \in Edits
    BY DEF DocumentsInv, DocumentsTypeOK
  <2>2. NoEdit \in Edits /\ NoEdit.at # "read"
    BY DEF Edits, NoEdit
  <2>3. edit[o].at = "read" => edit[o].doc \in {"settings", "reminders"}
    BY <2>1 DEF Edits, NoEdit
  <2>4. CASE o # e /\ edit[o].at = "read" /\ edit[o].doc = "settings"
    <3>1. edit'[o] = [edit[o] EXCEPT !.crossed = TRUE]
      BY <2>4 DEF WriteAll
    <3> QED BY <2>1, <2>4, <3>1, CrossedStays
  <2>5. CASE o = e
    BY <2>2, <2>5 DEF WriteAll
  <2>6. CASE o # e /\ ~(edit[o].at = "read" /\ edit[o].doc = "settings")
    <3>1. edit'[o] = edit[o]
      BY <2>6 DEF WriteAll
    <3> QED BY <2>1, <2>3, <2>6, <3>1
  <2> QED BY <2>4, <2>5, <2>6
<1>5. EditsListed'
  BY DEF WriteAll, EditsListed
<1> QED BY <1>1, <1>2, <1>3, <1>5 DEF DocumentsInv, DocumentsTypeOK, ReadUnchanged, ChangesKept

LEMMA RemindersWritten ==
    ASSUME DocumentsInv, NEW e \in Editors, NEW changed \in Reminders, NEW expected \in Reminders,
           WriteAll(e, "reminders", changed, expected),
           edit[e].crossed \/ changed = expected, edit[e].crossed \in BOOLEAN
    PROVE  DocumentsInv'
<1>1. /\ document' \in [settings : Settings, reminders : Reminders,
                       catalog : {"none", "set"}, code : Codes]
      /\ document'.reminders = changed
      /\ document'.settings = document.settings
  BY DEF DocumentsInv, DocumentsTypeOK, WriteAll
<1>2. /\ told' \in [settings : Settings, reminders : Reminders]
      /\ told'.reminders = changed
      /\ told'.settings = told.settings
  BY DEF DocumentsInv, DocumentsTypeOK, WriteAll
<1>3. ASSUME NEW o \in Editors
      PROVE  /\ edit'[o] \in Edits
             /\ edit'[o].at = "read" /\ ~edit'[o].crossed =>
                  edit'[o] = edit[o] /\ edit[o].doc = "settings"
  <2>1. edit[o] \in Edits
    BY DEF DocumentsInv, DocumentsTypeOK
  <2>2. NoEdit \in Edits /\ NoEdit.at # "read"
    BY DEF Edits, NoEdit
  <2>3. edit[o].at = "read" => edit[o].doc \in {"settings", "reminders"}
    BY <2>1 DEF Edits, NoEdit
  <2>4. CASE o # e /\ edit[o].at = "read" /\ edit[o].doc = "reminders"
    <3>1. edit'[o] = [edit[o] EXCEPT !.crossed = TRUE]
      BY <2>4 DEF WriteAll
    <3> QED BY <2>1, <2>4, <3>1, CrossedStays
  <2>5. CASE o = e
    BY <2>2, <2>5 DEF WriteAll
  <2>6. CASE o # e /\ ~(edit[o].at = "read" /\ edit[o].doc = "reminders")
    <3>1. edit'[o] = edit[o]
      BY <2>6 DEF WriteAll
    <3> QED BY <2>1, <2>3, <2>6, <3>1
  <2> QED BY <2>4, <2>5, <2>6
<1>5. EditsListed'
  BY DEF WriteAll, EditsListed
<1> QED BY <1>1, <1>2, <1>3, <1>5 DEF DocumentsInv, DocumentsTypeOK, ReadUnchanged, ChangesKept

LEMMA DocumentsStep == DocumentsInv /\ [DocumentsNext]_documentVars => DocumentsInv'
<1> SUFFICES ASSUME DocumentsInv, [DocumentsNext]_documentVars PROVE DocumentsInv'
  OBVIOUS
<1> DEFINE Told == told.settings \in Settings /\ told.reminders \in Reminders
<1>0. Told /\ document.settings \in Settings /\ document.reminders \in Reminders
  BY DEF DocumentsInv, DocumentsTypeOK
<1>1. ASSUME NEW e \in Editors, NEW op \in Patches, GetSettings(e, op) PROVE DocumentsInv'
  <2> DEFINE r == [at |-> "read", doc |-> "settings", was |-> document.settings, op |-> op,
                   crossed |-> FALSE]
  <2>1. r \in Edits
    BY <1>0 DEF Edits
  <2>2. Take(e, r) /\ UNCHANGED <<document, told>>
    BY <1>1 DEF GetSettings, ReadAll
  <2> QED BY <2>1, <2>2, TakeKeeps
<1>2. ASSUME NEW e \in Editors, NEW op \in ReminderOps, GetReminders(e, op) PROVE DocumentsInv'
  <2> DEFINE r == [at |-> "read", doc |-> "reminders", was |-> document.reminders, op |-> op,
                   crossed |-> FALSE]
  <2>1. r \in Edits
    BY <1>0 DEF Edits
  <2>2. Take(e, r) /\ UNCHANGED <<document, told>>
    BY <1>2 DEF GetReminders, ReadAll
  <2> QED BY <2>1, <2>2, TakeKeeps
<1>3. ASSUME NEW e \in Editors, UpdateSystemSettings(e) PROVE DocumentsInv'
  <2> DEFINE op == edit[e].op
  <2>1. edit[e].was \in Settings /\ op \in Patches /\ edit[e].crossed \in BOOLEAN
    BY <1>3, EditOfSettings DEF UpdateSystemSettings, Reading
  <2>2. edit[e].crossed \/ edit[e].was = told.settings
    BY <1>3 DEF UpdateSystemSettings, Reading, DocumentsInv, ReadUnchanged, ChangesKept
  <2>3. Patch(edit[e].was, op) \in Settings /\ Patch(told.settings, op) \in Settings
    BY <1>0, <2>1, Patched
  <2> QED BY <1>3, <2>1, <2>2, <2>3, SettingsWritten DEF UpdateSystemSettings
<1>4. ASSUME NEW e \in Editors, CreateReminder(e) \/ MarkDone(e) PROVE DocumentsInv'
  <2> DEFINE id == edit[e].op.section
  <2>1. edit[e].was \in Reminders /\ id \in Sections /\ edit[e].crossed \in BOOLEAN
    BY <1>4, EditOfReminders DEF CreateReminder, MarkDone, Reading, ReminderOps
  <2>2. edit[e].crossed \/ edit[e].was = told.reminders
    BY <1>4 DEF CreateReminder, MarkDone, Reading, DocumentsInv, ReadUnchanged, ChangesKept
  <2>3. PICK status \in {"PENDING", "DONE"} :
           WriteAll(e, "reminders", With(edit[e].was, id, status), With(told.reminders, id, status))
    BY <1>4 DEF CreateReminder, MarkDone
  <2>4. With(edit[e].was, id, status) \in Reminders /\ With(told.reminders, id, status) \in Reminders
    BY <1>0, <2>1, ReminderSet
  <2> QED BY <2>1, <2>2, <2>3, <2>4, RemindersWritten
<1>5. ASSUME NEW e \in Editors, RemoveReminder(e) PROVE DocumentsInv'
  <2> DEFINE id == edit[e].op.section
  <2>1. edit[e].was \in Reminders /\ edit[e].crossed \in BOOLEAN
    BY <1>5, EditOfReminders DEF RemoveReminder, Reading
  <2>2. edit[e].crossed \/ edit[e].was = told.reminders
    BY <1>5 DEF RemoveReminder, Reading, DocumentsInv, ReadUnchanged, ChangesKept
  <2>3. Less(edit[e].was, id) \in Reminders /\ Less(told.reminders, id) \in Reminders
    BY <1>0, <2>1, ReminderGone
  <2> QED BY <1>5, <2>1, <2>2, <2>3, RemindersWritten DEF RemoveReminder
<1>6. NoEdit \in Edits /\ NoEdit.at # "read"
  BY DEF Edits, NoEdit
<1>7. ASSUME NEW e \in Editors, ReminderRefused(e) \/ CreateTechnician(e) PROVE DocumentsInv'
  BY <1>6, <1>7, TakeKeeps DEF ReminderRefused, CreateTechnician
<1>8. ASSUME NEW e \in Editors, NEW code \in SignupCodes, RegisterTechnician(e, code) PROVE DocumentsInv'
  <2>1. [at |-> "allowed", code |-> code] \in Edits
    BY DEF Edits, Codes
  <2> QED BY <1>8, <2>1, TakeKeeps DEF RegisterTechnician
<1>9. ASSUME NEW e \in Editors, CheckSignupCode(e) PROVE DocumentsInv'
  <2>1. PICK r \in {NoEdit, [at |-> "entitled"]} : Take(e, r) /\ UNCHANGED <<document, told>>
    BY <1>9 DEF CheckSignupCode
  <2>2. r \in Edits /\ r.at # "read"
    BY <1>6 DEF Edits
  <2> QED BY <2>1, <2>2, TakeKeeps
<1>10. CASE UpdateCostCatalog
  BY <1>10, NothingWritten DEF UpdateCostCatalog, DocumentsInv, DocumentsTypeOK
<1>11. ASSUME NEW code \in SignupCodes, SetTechnicianSignupCode(code) PROVE DocumentsInv'
  BY <1>11, NothingWritten DEF SetTechnicianSignupCode, DocumentsInv, DocumentsTypeOK, Codes
<1>12. CASE EditorsCrash
  BY <1>6, <1>12 DEF EditorsCrash, DocumentsInv, DocumentsTypeOK, EditsListed, ReadUnchanged, ChangesKept
<1>13. CASE UNCHANGED documentVars
  BY <1>13 DEF documentVars, DocumentsInv, DocumentsTypeOK, EditsListed, ReadUnchanged, ChangesKept
<1> QED
  BY <1>1, <1>2, <1>3, <1>4, <1>5, <1>7, <1>8, <1>9, <1>10, <1>11, <1>12, <1>13 DEF DocumentsNext

\* Every answered change of the settings and of the reminders is in the document,
\* and no other, unless a change that was read before and written after it took
\* its place: for every number of editors, sections and codes, and every
\* interleaving of their queries.
THEOREM ChangesKeptCorrect == DocumentsSpec => []ChangesKept
<1>1. DocumentsInv => ChangesKept
  BY DEF DocumentsInv
<1> QED BY <1>1, DocumentsInvInit, DocumentsStep, PTL DEF DocumentsSpec

----------------------------------------------------------------------------
(***************************************************************************)
(* Rows and files of attachments agree but for what the steps between them *)
(* leave.  Needed beside the property: whose key a row, an answer of the   *)
(* storage and a removal hold; that an upload on its way has no row, no    *)
(* removal and no name yet; and that the row a file is named by is not one *)
(* whose removal has been to the storage already.                          *)
(***************************************************************************)

USE AttachmentsAssumption

OwnKey(u, key) == key = u \/ (key = sentAt[u] /\ sentAt[u] # Never)

\* An upload that has no row yet never had one, nor a removal.
NotYet ==
    \A u \in Uploads :
        /\ sending[u].at \in {"new", "checked", "stored"} =>
              u \notin DOMAIN attached \cup unlinked /\ removing[u] = NoRemoval
        /\ sending[u].at \in {"new", "checked"} => sentAt[u] = Never

\* What the storage took is there until the row is inserted.
StoredHeld ==
    \A u \in Uploads : sending[u].at = "stored" =>
        /\ strategy # "none"
        /\ OwnKey(u, sending[u].key)
        /\ <<strategy, sending[u].key>> \in object \/ \E v \in Uploads : ShareName(u, v)

RowsOwn ==
    /\ \A u \in DOMAIN attached : OwnKey(u, attached[u].key)
    /\ \A u \in Uploads : removing[u] # NoRemoval =>
         /\ OwnKey(u, removing[u].row.key)
         /\ u \in DOMAIN attached => attached[u] = removing[u].row

\* FilesHaveRows, where a removal has not been to the storage.
FilesNamed ==
    \A o \in object :
        \/ \E u \in DOMAIN attached : ObjectOf(attached[u]) = o /\ removing[u].at # "unlinked"
        \/ \E u \in Uploads : sending[u].at = "stored" /\ <<strategy, sending[u].key>> = o
        \/ o \in lost

AttachmentsListed ==
    /\ sending = [u \in Uploads |-> sending[u]]
    /\ removing = [u \in Uploads |-> removing[u]]
    /\ sentAt = [u \in Uploads |-> sentAt[u]]

AttachmentsInv ==
    AttachmentsTypeOK /\ AttachmentsListed /\ NotYet /\ StoredHeld /\ RowsOwn /\ FilesNamed
    /\ RowsHaveFiles

LEMMA KeysApart == \A u \in Uploads : u \notin FileKeys
BY DEF FileKeys

LEMMA NeverNamed == Never \notin FileKeys
BY DEF FileKeys, Never

LEMMA AttachmentsInvInit == AttachmentsInit => AttachmentsInv
<1> SUFFICES ASSUME AttachmentsInit PROVE AttachmentsInv
  OBVIOUS
<1>1. AttachmentsTypeOK /\ AttachmentsListed
  BY DEF AttachmentsInit, AttachmentsTypeOK, AttachmentsListed, Providers, Sending, NoRemoval, NotSent
<1> QED
  BY <1>1 DEF AttachmentsInit, AttachmentsInv, NotYet, StoredHeld, RowsOwn, FilesNamed, RowsHaveFiles,
     NoRemoval, NotSent

LEMMA ObjectsMade ==
    /\ \A p \in Providers, k \in Keys : <<p, k>> \in Objects
    /\ \A u \in Uploads : u \in Keys
    /\ \A row \in AttachmentRows : ObjectOf(row) \in Objects
BY DEF Objects, Keys, ObjectOf, AttachmentRows

LEMMA SendingShape ==
    ASSUME AttachmentsTypeOK, NEW u \in Uploads
    PROVE  /\ sending[u].at \in {"new", "done", "awaited", "checked", "stored"}
           /\ sending[u].at \in {"checked", "stored"} => sending[u].ticket \in Ticketed
           /\ sending[u].at = "stored" => sending[u].key \in Keys
BY DEF AttachmentsTypeOK, Sending, NotSent

LEMMA SendingMade ==
    /\ [at |-> "done"] \in Sending /\ [at |-> "awaited"] \in Sending
    /\ \A t \in Ticketed : [at |-> "checked", ticket |-> t] \in Sending
    /\ \A t \in Ticketed, k \in Keys : [at |-> "stored", ticket |-> t, key |-> k] \in Sending
BY DEF Sending

LEMMA RemovalShape ==
    ASSUME AttachmentsTypeOK, NEW u \in Uploads
    PROVE  /\ removing[u].at \in {"no", "found", "unlinked"}
           /\ removing[u].at = "no" <=> removing[u] = NoRemoval
           /\ removing[u] # NoRemoval =>
                removing[u] \in [at : {"found", "unlinked"}, row : AttachmentRows]
BY DEF AttachmentsTypeOK, NoRemoval

LEMMA StrategyMade == AttachmentsTypeOK => GetStrategy \in Providers /\ "none" \notin Providers
BY DEF AttachmentsTypeOK, GetStrategy, Providers

\* The provider of what is stored.
LEMMA ProviderMade ==
    ASSUME AttachmentsTypeOK, StoredHeld, NEW u \in Uploads, sending[u].at = "stored"
    PROVE  strategy \in Providers /\ GetStrategy = strategy
BY DEF AttachmentsTypeOK, StoredHeld, GetStrategy

LEMMA RowsBound ==
    ASSUME AttachmentsTypeOK, NEW u \in Uploads, NEW row \in AttachmentRows,
           attached' = Bound(row, attached, u)
    PROVE  /\ DOMAIN attached' = DOMAIN attached \cup {u}
           /\ attached'[u] = row
           /\ \A v \in DOMAIN attached \ {u} : attached'[v] = attached[v]
           /\ DOMAIN attached' \subseteq Uploads
           /\ \A v \in DOMAIN attached' : attached'[v] \in AttachmentRows
BY DEF Bound, AttachmentsTypeOK

LEMMA RowsDropped ==
    ASSUME AttachmentsTypeOK, NEW u \in Uploads, attached' = Dropped(attached, {u})
    PROVE  /\ DOMAIN attached' = DOMAIN attached \ {u}
           /\ \A v \in DOMAIN attached' : attached'[v] = attached[v]
           /\ DOMAIN attached' \subseteq Uploads
           /\ \A v \in DOMAIN attached' : attached'[v] \in AttachmentRows
BY DEF Dropped, AttachmentsTypeOK

LEMMA RowsMade ==
    \A t \in Ticketed, p \in Providers, k \in Keys, b \in BOOLEAN :
        [ticket |-> t, provider |-> p, key |-> k, announced |-> b] \in AttachmentRows
BY DEF AttachmentRows

LEMMA CheckTyped ==
    ASSUME AttachmentsTypeOK, AttachmentsListed, NEW u \in Uploads, NEW t \in Ticketed, Check(u, t)
    PROVE  AttachmentsTypeOK' /\ AttachmentsListed'
BY SendingMade DEF AttachmentsTypeOK, AttachmentsListed, Check

LEMMA AnnounceTyped ==
    ASSUME AttachmentsTypeOK, AttachmentsListed, StoredHeld, NEW u \in Uploads, Announce(u)
    PROVE  AttachmentsTypeOK' /\ AttachmentsListed'
<1>1. \/ attached' = attached
      \/ \E row \in AttachmentRows : attached' = Bound(row, attached, u)
  BY ObjectsMade, SendingShape, RowsMade, StrategyMade DEF Announce
<1>2. DOMAIN attached' \subseteq Uploads /\ \A v \in DOMAIN attached' : attached'[v] \in AttachmentRows
  BY <1>1, RowsBound DEF AttachmentsTypeOK
<1> QED
  BY <1>2, SendingMade, StrategyMade DEF AttachmentsTypeOK, AttachmentsListed, Announce

LEMMA ClientPutsTyped ==
    ASSUME AttachmentsTypeOK, AttachmentsListed, StoredHeld, NEW u \in Uploads, ClientPuts(u)
    PROVE  AttachmentsTypeOK' /\ AttachmentsListed'
<1>1. <<"s3", u>> \in Objects
  BY ObjectsMade DEF Providers
<1> QED
  BY <1>1, SendingMade DEF AttachmentsTypeOK, AttachmentsListed, ClientPuts

LEMMA StoreTyped ==
    ASSUME AttachmentsTypeOK, AttachmentsListed, StoredHeld, NEW u \in Uploads, Store(u)
    PROVE  AttachmentsTypeOK' /\ AttachmentsListed'
<1>1. PICK k \in Keys :
         /\ sending' = [sending EXCEPT ![u] = [at |-> "stored", ticket |-> sending[u].ticket, key |-> k]]
         /\ object' = object \cup {<<GetStrategy, k>>}
  <2> DEFINE k == IF GetStrategy = "local" THEN <<sending[u].ticket, ms>> ELSE u
  <2>1. k \in Keys
    BY SendingShape DEF Store, NewKey, Keys, FileKeys, AttachmentsTypeOK
  <2>2. sending' = [sending EXCEPT ![u] = [at |-> "stored", ticket |-> sending[u].ticket, key |-> k]]
    BY DEF Store, NewKey
  <2>3. sending'[u].key = k
    BY <2>2 DEF AttachmentsListed
  <2> QED BY <2>1, <2>2, <2>3 DEF Store, NewKey
<1>2. sentAt'[u] \in FileKeys \cup {Never} /\ \A v \in Uploads \ {u} : sentAt'[v] = sentAt[v]
  BY SendingShape DEF Store, NewKey, FileKeys, AttachmentsTypeOK, AttachmentsListed
<1>3. <<GetStrategy, k>> \in Objects
  BY StrategyMade, ObjectsMade
<1>4. sentAt' = [v \in Uploads |-> sentAt'[v]]
  BY DEF Store, NewKey, AttachmentsListed
<1>5. [at |-> "stored", ticket |-> sending[u].ticket, key |-> k] \in Sending
  BY SendingShape, SendingMade DEF Store, NewKey
<1> QED
  BY <1>1, <1>2, <1>3, <1>4, <1>5, StrategyMade DEF AttachmentsTypeOK, AttachmentsListed, Store, NewKey

LEMMA StoreFailsTyped ==
    ASSUME AttachmentsTypeOK, AttachmentsListed, NEW u \in Uploads, StoreFails(u)
    PROVE  AttachmentsTypeOK' /\ AttachmentsListed'
BY ObjectsMade, SendingShape, SendingMade, RemovalShape, StrategyMade
   DEF AttachmentsTypeOK, AttachmentsListed, StoreFails, NewKey, FileKeys, Keys

LEMMA InsertRowTyped ==
    ASSUME AttachmentsTypeOK, AttachmentsListed, StoredHeld, NEW u \in Uploads, InsertRow(u)
    PROVE  AttachmentsTypeOK' /\ AttachmentsListed'
<1>1. \E row \in AttachmentRows : attached' = Bound(row, attached, u)
  BY SendingShape, RowsMade, ProviderMade DEF InsertRow
<1>2. DOMAIN attached' \subseteq Uploads /\ \A v \in DOMAIN attached' : attached'[v] \in AttachmentRows
  BY <1>1, RowsBound
<1> QED
  BY <1>2, SendingMade DEF AttachmentsTypeOK, AttachmentsListed, InsertRow

LEMMA InsertFailsTyped ==
    ASSUME AttachmentsTypeOK, AttachmentsListed, StoredHeld, NEW u \in Uploads, InsertFails(u)
    PROVE  AttachmentsTypeOK' /\ AttachmentsListed'
<1>1. <<strategy, sending[u].key>> \in Objects
  BY SendingShape, ObjectsMade, ProviderMade DEF InsertFails
<1> QED
  BY <1>1, SendingMade DEF AttachmentsTypeOK, AttachmentsListed, InsertFails

LEMMA FindToRemoveTyped ==
    ASSUME AttachmentsTypeOK, AttachmentsListed, NEW u \in Uploads, FindToRemove(u)
    PROVE  AttachmentsTypeOK' /\ AttachmentsListed'
<1>1. u \in DOMAIN attached /\ attached[u] \in AttachmentRows
  BY DEF AttachmentsTypeOK, FindToRemove
<1>2. \A v \in Uploads : removing'[v] \in
         {NoRemoval} \cup [at : {"found", "unlinked"}, row : AttachmentRows]
  BY <1>1 DEF AttachmentsTypeOK, AttachmentsListed, FindToRemove
<1> QED BY <1>2 DEF AttachmentsTypeOK, AttachmentsListed, FindToRemove

LEMMA DeleteFileTyped ==
    ASSUME AttachmentsTypeOK, AttachmentsListed, NEW u \in Uploads, DeleteFile(u)
    PROVE  AttachmentsTypeOK' /\ AttachmentsListed'
BY ObjectsMade, SendingShape, SendingMade, RemovalShape, StrategyMade
   DEF AttachmentsTypeOK, AttachmentsListed, DeleteFile

LEMMA DeleteFileFailsTyped ==
    ASSUME AttachmentsTypeOK, AttachmentsListed, StoredHeld, NEW u \in Uploads, DeleteFileFails(u)
    PROVE  AttachmentsTypeOK' /\ AttachmentsListed'
<1>1. /\ removing[u] \in [at : {"found", "unlinked"}, row : AttachmentRows]
      /\ [removing[u] EXCEPT !.at = "unlinked"] \in [at : {"found", "unlinked"}, row : AttachmentRows]
  BY RemovalShape DEF DeleteFileFails, NoRemoval
<1>2. lost' \subseteq Objects
  BY <1>1, ObjectsMade DEF DeleteFileFails, AttachmentsTypeOK
<1> QED
  BY <1>1, <1>2, StrategyMade DEF AttachmentsTypeOK, AttachmentsListed, DeleteFileFails

LEMMA DeleteRowTyped ==
    ASSUME AttachmentsTypeOK, AttachmentsListed, StoredHeld, NEW u \in Uploads, DeleteRow(u)
    PROVE  AttachmentsTypeOK' /\ AttachmentsListed'
<1>1. DOMAIN attached' \subseteq Uploads /\ \A v \in DOMAIN attached' : attached'[v] \in AttachmentRows
  BY RowsDropped DEF DeleteRow
<1> QED
  BY <1>1 DEF AttachmentsTypeOK, AttachmentsListed, DeleteRow

LEMMA ResetTyped ==
    ASSUME AttachmentsTypeOK, AttachmentsListed, ResetDemoAttachments
    PROVE  AttachmentsTypeOK' /\ AttachmentsListed'
BY ObjectsMade DEF AttachmentsTypeOK, AttachmentsListed, ResetDemoAttachments

LEMMA RestartTyped ==
    ASSUME AttachmentsTypeOK, AttachmentsListed, StoredHeld, NEW m \in Providers, Restart(m)
    PROVE  AttachmentsTypeOK' /\ AttachmentsListed'
<1>1. \A u \in Uploads : sending[u].at = "stored" => <<strategy, sending[u].key>> \in Objects
  BY SendingShape, ObjectsMade, ProviderMade
<1>2. \A u \in Uploads : sending'[u] \in Sending
  BY SendingMade DEF Restart, AttachmentsTypeOK
<1> QED
  BY <1>1, <1>2 DEF AttachmentsTypeOK, AttachmentsListed, Restart

LEMMA TickTyped ==
    ASSUME AttachmentsTypeOK, AttachmentsListed, TickMs
    PROVE  AttachmentsTypeOK' /\ AttachmentsListed'
BY DEF AttachmentsTypeOK, AttachmentsListed, TickMs

MatchParts == NotYet /\ StoredHeld /\ RowsOwn /\ FilesNamed /\ RowsHaveFiles

LEMMA CheckKeeps ==
    ASSUME AttachmentsInv, NEW u \in Uploads, NEW t \in Ticketed, Check(u, t)
    PROVE  MatchParts'
<1>1. sending[u].at = "new" /\ sending'[u].at = "checked" /\ \A v \in Uploads \ {u} : sending'[v] = sending[v]
  BY DEF Check, AttachmentsInv, AttachmentsListed, NotSent
<1>2. UNCHANGED <<attached, object, removing, strategy, sentAt, unlinked, lost>>
  BY DEF Check
<1>3. NotYet' /\ StoredHeld'
  BY <1>1, <1>2 DEF AttachmentsInv, NotYet, StoredHeld, OwnKey, ShareName
<1>4. RowsOwn' /\ RowsHaveFiles'
  BY <1>2 DEF AttachmentsInv, RowsOwn, RowsHaveFiles, OwnKey, ShareName
<1>5. FilesNamed'
  BY <1>1, <1>2 DEF AttachmentsInv, FilesNamed
<1> QED BY <1>3, <1>4, <1>5 DEF MatchParts

LEMMA AnnounceKeeps ==
    ASSUME AttachmentsInv, NEW u \in Uploads, Announce(u)
    PROVE  MatchParts'
<1>1. /\ sending[u].at = "checked" /\ sending'[u].at \in {"done", "awaited"}
      /\ \A v \in Uploads \ {u} : sending'[v] = sending[v]
  BY DEF Announce, AttachmentsInv, AttachmentsListed
<1>2. UNCHANGED <<object, removing, sentAt, unlinked, lost>> /\ (strategy' = strategy \/ strategy = "none")
      /\ strategy' # "none"
  BY StrategyMade DEF Announce, GetStrategy, AttachmentsInv
<1>3. removing[u].at = "no" /\ u \notin DOMAIN attached
  BY <1>1 DEF AttachmentsInv, NotYet, NoRemoval
<1>4. /\ DOMAIN attached' \in {DOMAIN attached, DOMAIN attached \cup {u}}
      /\ \A v \in DOMAIN attached' \ {u} : attached'[v] = attached[v]
      /\ u \in DOMAIN attached' => attached'[u].key = u /\ attached'[u].announced
  BY <1>3 DEF Announce, Bound
<1>5. \A v \in Uploads : sending'[v].at = "stored" => sending[v].at = "stored" /\ strategy' = strategy
  BY <1>1, <1>2 DEF AttachmentsInv, StoredHeld
<1>6. \A v \in Uploads : sending[v].at = "stored" => sending'[v] = sending[v] /\ strategy' = strategy
  BY <1>1, <1>2 DEF AttachmentsInv, StoredHeld
<1>7. NotYet' /\ StoredHeld'
  BY <1>1, <1>2, <1>4, <1>5, <1>6 DEF AttachmentsInv, NotYet, StoredHeld, OwnKey, ShareName
<1>8. RowsOwn' /\ RowsHaveFiles'
  <2>1. removing[u] = NoRemoval /\ UNCHANGED removing
    BY <1>2, <1>3, RemovalShape DEF AttachmentsInv
  <2>2. RowsOwn'
    BY <1>2, <1>4, <2>1 DEF AttachmentsInv, RowsOwn, OwnKey
  <2>3. RowsHaveFiles'
    BY <1>2, <1>4 DEF AttachmentsInv, RowsHaveFiles, ShareName
  <2> QED BY <2>2, <2>3
<1>9. FilesNamed'
  BY <1>2, <1>3, <1>4, <1>6 DEF AttachmentsInv, FilesNamed
<1> QED BY <1>7, <1>8, <1>9 DEF MatchParts

LEMMA ClientPutsKeeps ==
    ASSUME AttachmentsInv, NEW u \in Uploads, ClientPuts(u)
    PROVE  MatchParts'
<1>1. /\ sending[u].at = "awaited" /\ sending'[u].at = "done"
      /\ \A v \in Uploads \ {u} : sending'[v] = sending[v]
  BY DEF ClientPuts, AttachmentsInv, AttachmentsListed
<1>2. /\ UNCHANGED <<attached, removing, strategy, sentAt, unlinked>>
      /\ object' = object \cup {<<"s3", u>>} /\ lost' = lost \cup {<<"s3", u>>}
  BY DEF ClientPuts
<1>3. NotYet' /\ StoredHeld'
  BY <1>1, <1>2 DEF AttachmentsInv, NotYet, StoredHeld, OwnKey, ShareName
<1>4. RowsOwn' /\ RowsHaveFiles'
  BY <1>2 DEF AttachmentsInv, RowsOwn, RowsHaveFiles, OwnKey, ShareName
<1>5. FilesNamed'
  BY <1>1, <1>2 DEF AttachmentsInv, FilesNamed
<1> QED BY <1>3, <1>4, <1>5 DEF MatchParts

LEMMA StoreKeeps ==
    ASSUME AttachmentsInv, NEW u \in Uploads, Store(u)
    PROVE  MatchParts'
<1>1. /\ sending[u].at = "checked" /\ sending'[u].at = "stored"
      /\ \A v \in Uploads \ {u} : sending'[v] = sending[v] /\ sentAt'[v] = sentAt[v]
  BY DEF Store, NewKey, AttachmentsInv, AttachmentsListed
<1>2. UNCHANGED <<attached, removing, unlinked, lost>> /\ (strategy' = strategy \/ strategy = "none")
      /\ strategy' # "none" /\ strategy' = GetStrategy
  BY StrategyMade DEF Store, NewKey, GetStrategy, AttachmentsInv
<1>3. removing[u].at = "no" /\ u \notin DOMAIN attached \cup unlinked /\ sentAt[u] = Never
  BY <1>1 DEF AttachmentsInv, NotYet, NoRemoval
<1>4. sending'[u].key = u \/ (sending'[u].key = sentAt'[u] /\ sentAt'[u] # Never)
  <2>1. CASE GetStrategy = "local"
    <3>1. sending'[u].key = <<sending[u].ticket, ms>> /\ sentAt'[u] = <<sending[u].ticket, ms>>
      BY <2>1 DEF Store, NewKey, AttachmentsInv, AttachmentsListed
    <3>2. <<sending[u].ticket, ms>> \in FileKeys
      BY SendingShape DEF Store, NewKey, FileKeys, AttachmentsInv, AttachmentsTypeOK
    <3> QED BY <3>1, <3>2, NeverNamed
  <2>2. CASE GetStrategy # "local"
    BY <2>2 DEF Store, NewKey, AttachmentsInv, AttachmentsListed
  <2> QED BY <2>1, <2>2
<1>5. object' = object \cup {<<strategy', sending'[u].key>>}
  BY <1>2 DEF Store, NewKey
<1>6. \A v \in Uploads : sending[v].at = "stored" => sending'[v] = sending[v] /\ strategy' = strategy
  BY <1>1, <1>2 DEF AttachmentsInv, StoredHeld
<1>7. \A v, w \in Uploads : ShareName(v, w) => ShareName(v, w)'
  BY <1>1, <1>3 DEF ShareName
<1>8. NotYet'
  BY <1>1, <1>2 , <1>3 DEF AttachmentsInv, NotYet
<1>9. StoredHeld'
  <2> SUFFICES ASSUME NEW v \in Uploads, sending'[v].at = "stored"
               PROVE  /\ strategy' # "none"
                      /\ OwnKey(v, sending[v].key)'
                      /\ \/ <<strategy', sending'[v].key>> \in object'
                         \/ \E w \in Uploads : ShareName(v, w)'
    BY DEF StoredHeld
  <2>1. CASE v = u
    BY <1>2, <1>4, <1>5, <2>1 DEF OwnKey
  <2>2. CASE v # u
    <3>1. sending'[v] = sending[v] /\ sentAt'[v] = sentAt[v] /\ sending[v].at = "stored"
      BY <1>1, <2>2
    <3> QED BY <1>2, <1>5, <1>6, <1>7, <3>1 DEF AttachmentsInv, StoredHeld, OwnKey
  <2> QED BY <2>1, <2>2
<1>10. RowsOwn'
  BY <1>1, <1>2, <1>3, RemovalShape DEF AttachmentsInv, AttachmentsTypeOK, RowsOwn, OwnKey
<1>11. RowsHaveFiles'
  BY <1>2, <1>5, <1>7 DEF AttachmentsInv, AttachmentsTypeOK, RowsHaveFiles
<1>12. FilesNamed'
  BY <1>1, <1>2, <1>5, <1>6 DEF AttachmentsInv, FilesNamed
<1> QED BY <1>8, <1>9, <1>10, <1>11, <1>12 DEF MatchParts

LEMMA StoreFailsKeeps ==
    ASSUME AttachmentsInv, NEW u \in Uploads, StoreFails(u)
    PROVE  MatchParts'
<1>1. /\ sending[u].at = "checked" /\ sending'[u].at = "done"
      /\ \A v \in Uploads \ {u} : sending'[v] = sending[v]
  BY DEF StoreFails, AttachmentsInv, AttachmentsListed
<1>2. /\ UNCHANGED <<attached, removing, sentAt, unlinked>>
      /\ strategy' = strategy \/ strategy = "none"
      /\ strategy' # "none"
  BY StrategyMade DEF StoreFails, GetStrategy, AttachmentsInv
<1>3. PICK left : object' = object \cup left /\ lost' = lost \cup left
  BY DEF StoreFails
<1>4. \A v \in Uploads : sending[v].at = "stored" => sending'[v] = sending[v] /\ strategy' = strategy
  BY <1>1, <1>2 DEF AttachmentsInv, StoredHeld
<1>5. NotYet' /\ StoredHeld'
  BY <1>1, <1>2, <1>3, <1>4 DEF AttachmentsInv, NotYet, StoredHeld, OwnKey, ShareName
<1>6. RowsOwn' /\ RowsHaveFiles'
  BY <1>2, <1>3 DEF AttachmentsInv, RowsOwn, RowsHaveFiles, OwnKey, ShareName
<1>7. FilesNamed'
  BY <1>2, <1>3, <1>4 DEF AttachmentsInv, FilesNamed
<1> QED BY <1>5, <1>6, <1>7 DEF MatchParts

LEMMA InsertRowKeeps ==
    ASSUME AttachmentsInv, NEW u \in Uploads, InsertRow(u)
    PROVE  MatchParts'
<1>1. /\ sending[u].at = "stored" /\ sending'[u].at = "done"
      /\ \A v \in Uploads \ {u} : sending'[v] = sending[v]
  BY DEF InsertRow, AttachmentsInv, AttachmentsListed
<1>2. UNCHANGED <<object, removing, strategy, sentAt, unlinked, lost>>
  BY DEF InsertRow
<1>3. removing[u] = NoRemoval /\ removing[u].at = "no" /\ u \notin DOMAIN attached
  BY <1>1 DEF AttachmentsInv, NotYet, NoRemoval
<1>4. /\ DOMAIN attached' = DOMAIN attached \cup {u}
      /\ \A v \in DOMAIN attached : attached'[v] = attached[v]
      /\ attached'[u].provider = strategy /\ attached'[u].key = sending[u].key
  BY <1>3 DEF InsertRow, Bound
<1>5. NotYet' /\ StoredHeld'
  BY <1>1, <1>2, <1>4 DEF AttachmentsInv, NotYet, StoredHeld, OwnKey, ShareName
<1>6. RowsOwn'
  <2>1. OwnKey(u, sending[u].key)
    BY <1>1 DEF AttachmentsInv, StoredHeld
  <2>2. ASSUME NEW v \in DOMAIN attached' PROVE OwnKey(v, attached'[v].key)
    <3>1. CASE v = u
      BY <1>2, <1>4, <2>1, <3>1 DEF OwnKey
    <3>2. CASE v # u
      BY <1>2, <1>4, <3>2 DEF AttachmentsInv, RowsOwn, OwnKey
    <3> QED BY <3>1, <3>2
  <2>3. ASSUME NEW v \in Uploads, removing[v] # NoRemoval
        PROVE  /\ OwnKey(v, removing[v].row.key)
               /\ v \in DOMAIN attached' => attached'[v] = removing[v].row
    BY <1>2, <1>3, <1>4, <2>3 DEF AttachmentsInv, RowsOwn, OwnKey
  <2> QED BY <1>2, <2>2, <2>3 DEF RowsOwn, OwnKey
<1>7. ObjectOf(attached'[u]) = <<strategy, sending[u].key>>
  BY <1>4 DEF ObjectOf
<1>8. RowsHaveFiles'
  BY <1>1, <1>2, <1>4, <1>7 DEF AttachmentsInv, StoredHeld, RowsHaveFiles, ShareName
<1>9. FilesNamed'
  <2> SUFFICES ASSUME NEW o \in object, o \notin lost
               PROVE  \/ \E v \in DOMAIN attached' : ObjectOf(attached'[v]) = o /\ removing[v].at # "unlinked"
                      \/ \E v \in Uploads : sending'[v].at = "stored" /\ <<strategy, sending'[v].key>> = o
    BY <1>2 DEF FilesNamed
  <2>1. CASE \E v \in DOMAIN attached : ObjectOf(attached[v]) = o /\ removing[v].at # "unlinked"
    BY <1>4, <2>1
  <2>2. CASE \E v \in Uploads : sending[v].at = "stored" /\ <<strategy, sending[v].key>> = o
    BY <1>1, <1>3, <1>4, <1>7, <2>2
  <2> QED BY <2>1, <2>2 DEF AttachmentsInv, FilesNamed
<1> QED BY <1>5, <1>6, <1>8, <1>9 DEF MatchParts

LEMMA InsertFailsKeeps ==
    ASSUME AttachmentsInv, NEW u \in Uploads, InsertFails(u)
    PROVE  MatchParts'
<1>1. /\ sending[u].at = "stored" /\ sending'[u].at = "done"
      /\ \A v \in Uploads \ {u} : sending'[v] = sending[v]
  BY DEF InsertFails, AttachmentsInv, AttachmentsListed
<1>2. /\ UNCHANGED <<attached, object, removing, strategy, sentAt, unlinked>>
      /\ lost' = lost \cup {<<strategy, sending[u].key>>}
  BY DEF InsertFails
<1>3. NotYet' /\ StoredHeld'
  BY <1>1, <1>2 DEF AttachmentsInv, NotYet, StoredHeld, OwnKey, ShareName
<1>4. RowsOwn' /\ RowsHaveFiles'
  BY <1>2 DEF AttachmentsInv, RowsOwn, RowsHaveFiles, OwnKey, ShareName
<1>5. FilesNamed'
  BY <1>1, <1>2 DEF AttachmentsInv, FilesNamed
<1> QED BY <1>3, <1>4, <1>5 DEF MatchParts

LEMMA FindToRemoveKeeps ==
    ASSUME AttachmentsInv, NEW u \in Uploads, FindToRemove(u)
    PROVE  MatchParts'
<1>1. /\ removing[u] = NoRemoval /\ u \in DOMAIN attached
      /\ removing'[u] = [at |-> "found", row |-> attached[u]]
      /\ \A v \in Uploads \ {u} : removing'[v] = removing[v]
  BY DEF FindToRemove, AttachmentsInv, AttachmentsListed
<1>2. UNCHANGED <<attached, object, sending, strategy, sentAt, unlinked, lost>>
  BY DEF FindToRemove
<1>3. NotYet' /\ StoredHeld' /\ RowsHaveFiles'
  BY <1>1, <1>2 DEF AttachmentsInv, NotYet, StoredHeld, RowsHaveFiles, OwnKey, ShareName
<1>4. RowsOwn'
  BY <1>1, <1>2 DEF AttachmentsInv, RowsOwn, OwnKey
<1>5. \A v \in DOMAIN attached : removing[v].at # "unlinked" => removing'[v].at # "unlinked"
  BY <1>1 DEF AttachmentsInv, AttachmentsTypeOK
<1>6. FilesNamed'
  BY <1>2, <1>5 DEF AttachmentsInv, FilesNamed
<1> QED BY <1>3, <1>4, <1>6 DEF MatchParts

\* The key of one attachment is another's only if the two share a name.
LEMMA KeyShared ==
    ASSUME NEW u \in Uploads, NEW v \in Uploads, u # v, AttachmentsTypeOK,
           NEW key, OwnKey(u, key), OwnKey(v, key)
    PROVE  ShareName(u, v)
BY KeysApart DEF OwnKey, ShareName, AttachmentsTypeOK

LEMMA DeleteFileKeeps ==
    ASSUME AttachmentsInv, NEW u \in Uploads, DeleteFile(u)
    PROVE  MatchParts'
<1> DEFINE o == <<GetStrategy, removing[u].row.key>>
<1>1. /\ removing[u].at = "found" /\ removing[u] # NoRemoval
      /\ removing'[u].at = "unlinked" /\ removing'[u].row = removing[u].row
      /\ removing'[u] # NoRemoval
      /\ \A v \in Uploads \ {u} : removing'[v] = removing[v]
  <2>1. removing[u].at = "found" /\ removing[u] # NoRemoval
    BY DEF DeleteFile, NoRemoval
  <2>2. removing[u] \in [at : {"found", "unlinked"}, row : AttachmentRows]
    BY <2>1, RemovalShape DEF AttachmentsInv
  <2>3. /\ removing'[u] = [removing[u] EXCEPT !.at = "unlinked"]
        /\ \A v \in Uploads \ {u} : removing'[v] = removing[v]
    BY DEF DeleteFile, AttachmentsInv, AttachmentsListed
  <2>4. removing'[u].at = "unlinked" /\ removing'[u].row = removing[u].row
    BY <2>2, <2>3
  <2> QED BY <2>1, <2>3, <2>4 DEF NoRemoval
<1>2. /\ UNCHANGED <<attached, sending, sentAt>>
      /\ object' = object \ {o} /\ unlinked' = unlinked \cup {u}
      /\ lost \subseteq lost'
      /\ removing[u].row.provider = GetStrategy \/ ObjectOf(removing[u].row) \in lost'
  BY DEF DeleteFile
<1>3. \A v \in Uploads : sending[v].at = "stored" => strategy' = strategy
  BY StrategyMade DEF DeleteFile, GetStrategy, AttachmentsInv, StoredHeld
<1>4. OwnKey(u, removing[u].row.key)
  BY <1>1 DEF AttachmentsInv, RowsOwn
<1>5. \A v \in Uploads : sending[v].at = "stored" => v # u
  BY <1>1 DEF AttachmentsInv, NotYet
<1>6. NotYet'
  BY <1>1, <1>2 DEF AttachmentsInv, NotYet
<1>7. StoredHeld'
  <2> SUFFICES ASSUME NEW v \in Uploads, sending[v].at = "stored"
               PROVE  /\ strategy' # "none"
                      /\ OwnKey(v, sending[v].key)
                      /\ <<strategy, sending[v].key>> \in object' \/ \E w \in Uploads : ShareName(v, w)
    BY <1>2, <1>3 DEF StoredHeld, OwnKey, ShareName
  <2>1. /\ strategy # "none" /\ OwnKey(v, sending[v].key)
        /\ <<strategy, sending[v].key>> \in object \/ \E w \in Uploads : ShareName(v, w)
    BY DEF AttachmentsInv, StoredHeld
  <2>2. CASE <<strategy, sending[v].key>> # o
    BY <1>2, <1>3, <2>1, <2>2
  <2>3. CASE <<strategy, sending[v].key>> = o
    <3>1. sending[v].key = removing[u].row.key
      BY <2>3
    <3>2. ShareName(v, u)
      BY <1>4, <1>5, <2>1, <3>1, KeyShared DEF AttachmentsInv
    <3> QED BY <1>3, <2>1, <3>2
  <2> QED BY <2>2, <2>3
<1>8. RowsOwn'
  BY <1>1, <1>2 DEF AttachmentsInv, AttachmentsTypeOK, RowsOwn, OwnKey
<1>9. RowsHaveFiles'
  <2> SUFFICES ASSUME NEW v \in DOMAIN attached, v # u
               PROVE  \/ attached[v].announced \/ v \in unlinked
                      \/ ObjectOf(attached[v]) \in object' \/ \E w \in Uploads : ShareName(v, w)
    BY <1>2 DEF RowsHaveFiles, ShareName
  <2>1. OwnKey(v, attached[v].key) /\ v \in Uploads
    BY DEF AttachmentsInv, RowsOwn, AttachmentsTypeOK
  <2>2. CASE ObjectOf(attached[v]) # o
    BY <1>2, <2>2 DEF AttachmentsInv, RowsHaveFiles
  <2>3. CASE ObjectOf(attached[v]) = o
    <3>1. attached[v].key = removing[u].row.key
      BY <2>3 DEF ObjectOf
    <3>2. ShareName(v, u)
      BY <1>4, <2>1, <3>1, KeyShared DEF AttachmentsInv
    <3> QED BY <3>2
  <2> QED BY <2>2, <2>3
<1>10. FilesNamed'
  <2> SUFFICES ASSUME NEW f \in object, f # o, f \notin lost'
               PROVE  \/ \E v \in DOMAIN attached : ObjectOf(attached[v]) = f /\ removing'[v].at # "unlinked"
                      \/ \E v \in Uploads : sending[v].at = "stored" /\ <<strategy', sending[v].key>> = f
    BY <1>2 DEF FilesNamed
  <2>1. CASE \E v \in DOMAIN attached : ObjectOf(attached[v]) = f /\ removing[v].at # "unlinked"
    <3>1. PICK v \in DOMAIN attached : ObjectOf(attached[v]) = f /\ removing[v].at # "unlinked"
      BY <2>1
    <3>2. ASSUME v = u PROVE FALSE
      <4>1. attached[u] = removing[u].row
        BY <1>1, <3>2 DEF AttachmentsInv, RowsOwn
      <4>2. removing[u].row.provider = GetStrategy
        BY <1>2, <3>1, <3>2, <4>1
      <4> QED BY <3>1, <3>2, <4>1, <4>2 DEF ObjectOf
    <3>3. v \in Uploads
      BY DEF AttachmentsInv, AttachmentsTypeOK
    <3> QED BY <1>1, <3>1, <3>2, <3>3
  <2>2. CASE \E v \in Uploads : sending[v].at = "stored" /\ <<strategy, sending[v].key>> = f
    BY <1>3, <2>2
  <2> QED BY <1>2, <2>1, <2>2 DEF AttachmentsInv, FilesNamed
<1> QED BY <1>6, <1>7, <1>8, <1>9, <1>10 DEF MatchParts

LEMMA DeleteFileFailsKeeps ==
    ASSUME AttachmentsInv, NEW u \in Uploads, DeleteFileFails(u)
    PROVE  MatchParts'
<1>1. /\ removing[u].at = "found" /\ removing[u] # NoRemoval
      /\ removing'[u].at = "unlinked" /\ removing'[u].row = removing[u].row
      /\ removing'[u] # NoRemoval
      /\ \A v \in Uploads \ {u} : removing'[v] = removing[v]
  <2>1. removing[u].at = "found" /\ removing[u] # NoRemoval
    BY DEF DeleteFileFails, NoRemoval
  <2>2. removing[u] \in [at : {"found", "unlinked"}, row : AttachmentRows]
    BY <2>1, RemovalShape DEF AttachmentsInv
  <2>3. /\ removing'[u] = [removing[u] EXCEPT !.at = "unlinked"]
        /\ \A v \in Uploads \ {u} : removing'[v] = removing[v]
    BY DEF DeleteFileFails, AttachmentsInv, AttachmentsListed
  <2>4. removing'[u].at = "unlinked" /\ removing'[u].row = removing[u].row
    BY <2>2, <2>3
  <2> QED BY <2>1, <2>3, <2>4 DEF NoRemoval
<1>2. /\ UNCHANGED <<attached, object, sending, sentAt, unlinked>>
      /\ lost' = lost \cup {ObjectOf(removing[u].row)}
  BY DEF DeleteFileFails
<1>3. \A v \in Uploads : sending[v].at = "stored" => strategy' = strategy
  BY StrategyMade DEF DeleteFileFails, GetStrategy, AttachmentsInv, StoredHeld
<1>4. NotYet'
  BY <1>1, <1>2 DEF AttachmentsInv, NotYet
<1>5. StoredHeld' /\ RowsHaveFiles'
  BY <1>2, <1>3 DEF AttachmentsInv, StoredHeld, RowsHaveFiles, OwnKey, ShareName
<1>6. RowsOwn'
  BY <1>1, <1>2 DEF AttachmentsInv, AttachmentsTypeOK, RowsOwn, OwnKey
<1>7. \A v \in DOMAIN attached : removing[v].at # "unlinked" =>
        removing'[v].at # "unlinked" \/ ObjectOf(attached[v]) \in lost'
  BY <1>1, <1>2 DEF AttachmentsInv, AttachmentsTypeOK, RowsOwn
<1>8. FilesNamed'
  BY <1>2, <1>3, <1>7 DEF AttachmentsInv, FilesNamed
<1> QED BY <1>4, <1>5, <1>6, <1>8 DEF MatchParts

LEMMA DeleteRowKeeps ==
    ASSUME AttachmentsInv, NEW u \in Uploads, DeleteRow(u)
    PROVE  MatchParts'
<1>1. /\ removing[u].at = "unlinked" /\ removing[u] # NoRemoval /\ removing'[u] = NoRemoval
      /\ \A v \in Uploads \ {u} : removing'[v] = removing[v]
  BY DEF DeleteRow, AttachmentsInv, AttachmentsListed, NoRemoval
<1>2. UNCHANGED <<object, sending, strategy, sentAt, unlinked, lost>>
  BY DEF DeleteRow
<1>3. /\ DOMAIN attached' = DOMAIN attached \ {u} /\ DOMAIN attached \subseteq Uploads
      /\ \A v \in DOMAIN attached' : attached'[v] = attached[v]
  BY RowsDropped DEF DeleteRow, AttachmentsInv, AttachmentsTypeOK
<1>4. NotYet'
  BY <1>1, <1>2, <1>3 DEF AttachmentsInv, NotYet
<1>5. StoredHeld' /\ RowsHaveFiles'
  BY <1>2, <1>3 DEF AttachmentsInv, StoredHeld, RowsHaveFiles, OwnKey, ShareName
<1>6. RowsOwn'
  BY <1>1, <1>2, <1>3 DEF AttachmentsInv, RowsOwn, OwnKey
<1>7. FilesNamed'
  BY <1>1, <1>2, <1>3 DEF AttachmentsInv, FilesNamed
<1> QED BY <1>4, <1>5, <1>6, <1>7 DEF MatchParts

LEMMA ResetKeeps ==
    ASSUME AttachmentsInv, ResetDemoAttachments
    PROVE  MatchParts'
<1>1. /\ UNCHANGED <<object, sending, removing, strategy, sentAt, unlinked>>
      /\ lost' = lost \cup {ObjectOf(attached[u]) : u \in DOMAIN attached}
      /\ DOMAIN attached' = {}
  BY DEF ResetDemoAttachments
<1>2. NotYet' /\ StoredHeld'
  BY <1>1 DEF AttachmentsInv, NotYet, StoredHeld, OwnKey, ShareName
<1>3. RowsOwn' /\ RowsHaveFiles' /\ FilesNamed'
  BY <1>1 DEF AttachmentsInv, RowsOwn, RowsHaveFiles, FilesNamed, OwnKey
<1> QED BY <1>2, <1>3 DEF MatchParts

LEMMA RestartKeeps ==
    ASSUME AttachmentsInv, NEW m \in Providers, Restart(m)
    PROVE  MatchParts'
<1>1. /\ UNCHANGED <<attached, object, sentAt, unlinked>>
      /\ \A u \in Uploads : removing'[u] = NoRemoval
      /\ \A u \in Uploads : sending[u].at = "stored" => <<strategy, sending[u].key>> \in lost'
      /\ lost \subseteq lost'
  BY DEF Restart
<1>2. \A u \in Uploads : sending'[u] = sending[u] \/ sending'[u].at = "done"
  BY DEF Restart
<1>3. \A u \in Uploads : sending'[u].at # "stored"
  BY DEF Restart
<1>4. NotYet' /\ StoredHeld'
  BY <1>1, <1>2, <1>3 DEF AttachmentsInv, NotYet, StoredHeld
<1>5. RowsOwn' /\ RowsHaveFiles'
  BY <1>1 DEF AttachmentsInv, RowsOwn, RowsHaveFiles, OwnKey, ShareName
<1>6. \A u \in DOMAIN attached : removing'[u].at # "unlinked"
  BY <1>1 DEF AttachmentsInv, AttachmentsTypeOK, NoRemoval
<1>7. FilesNamed'
  BY <1>1, <1>6 DEF AttachmentsInv, FilesNamed
<1> QED BY <1>4, <1>5, <1>7 DEF MatchParts

\* What no part of the invariant depends on may change.
LEMMA SteadyParts ==
    ASSUME MatchParts,
           UNCHANGED <<attached, object, sending, removing, strategy, sentAt, unlinked, lost>>
    PROVE  MatchParts'
BY DEF MatchParts, NotYet, StoredHeld, RowsOwn, FilesNamed, RowsHaveFiles, OwnKey, ShareName

LEMMA AttachmentsStep == AttachmentsInv /\ [AttachmentsNext]_attachmentVars => AttachmentsInv'
<1> SUFFICES ASSUME AttachmentsInv, [AttachmentsNext]_attachmentVars PROVE AttachmentsInv'
  OBVIOUS
<1>1. AttachmentsTypeOK /\ AttachmentsListed /\ StoredHeld /\ MatchParts
  BY DEF AttachmentsInv, MatchParts
<1>2. ASSUME NEW u \in Uploads, NEW t \in Ticketed, Check(u, t)
      PROVE  AttachmentsTypeOK' /\ AttachmentsListed' /\ MatchParts'
  BY <1>1, <1>2, CheckTyped, CheckKeeps
<1>3. ASSUME NEW u \in Uploads,
             Announce(u) \/ ClientPuts(u) \/ Store(u) \/ StoreFails(u) \/ InsertRow(u) \/ InsertFails(u)
      PROVE  AttachmentsTypeOK' /\ AttachmentsListed' /\ MatchParts'
  BY <1>1, <1>3, AnnounceTyped, ClientPutsTyped, StoreTyped, StoreFailsTyped, InsertRowTyped,
     InsertFailsTyped, AnnounceKeeps, ClientPutsKeeps, StoreKeeps, StoreFailsKeeps, InsertRowKeeps,
     InsertFailsKeeps
<1>4. ASSUME NEW u \in Uploads,
             FindToRemove(u) \/ DeleteFile(u) \/ DeleteFileFails(u) \/ DeleteRow(u)
      PROVE  AttachmentsTypeOK' /\ AttachmentsListed' /\ MatchParts'
  BY <1>1, <1>4, FindToRemoveTyped, DeleteFileTyped, DeleteFileFailsTyped, DeleteRowTyped,
     FindToRemoveKeeps, DeleteFileKeeps, DeleteFileFailsKeeps, DeleteRowKeeps
<1>5. CASE ResetDemoAttachments
  BY <1>1, <1>5, ResetTyped, ResetKeeps DEF AttachmentsInv, MatchParts
<1>6. ASSUME NEW m \in Providers, Restart(m)
      PROVE  AttachmentsTypeOK' /\ AttachmentsListed' /\ MatchParts'
  BY <1>1, <1>6, RestartTyped, RestartKeeps
<1>7. CASE TickMs
  <2>1. MatchParts'
    BY <1>1, <1>7, SteadyParts DEF TickMs
  <2> QED BY <1>1, <1>7, <2>1, TickTyped DEF AttachmentsInv, MatchParts
<1>8. CASE UNCHANGED attachmentVars
  <2>1. MatchParts'
    BY <1>1, <1>8, SteadyParts DEF attachmentVars
  <2>2. AttachmentsTypeOK' /\ AttachmentsListed'
    BY <1>1, <1>8 DEF attachmentVars, AttachmentsTypeOK, AttachmentsListed
  <2> QED BY <2>1, <2>2 DEF AttachmentsInv, MatchParts
<1> QED
  BY <1>2, <1>3, <1>4, <1>5, <1>6, <1>7, <1>8 DEF AttachmentsNext, AttachmentsInv, MatchParts

\* An attachment that was uploaded has its file until its own removal deletes it,
\* and a file without a row is of an upload on its way or was left by a failure,
\* a client, a reset, a restart or a change of the storage: for every number of
\* uploads and tickets, every length of the clock and every number of troubles.
THEOREM FilesMatchRowsCorrect == AttachmentsSpec => []FilesMatchRows
<1>1. AttachmentsInv => FilesMatchRows
  BY DEF AttachmentsInv, FilesMatchRows, FilesNamed, FilesHaveRows
<1> QED BY <1>1, AttachmentsInvInit, AttachmentsStep, PTL DEF AttachmentsSpec

HIDE AttachmentsAssumption

----------------------------------------------------------------------------
(***************************************************************************)
(* A ticket is refused because of its customer only for a cause.  The      *)
(* lookups of a request are three queries: that nobody is found by any of  *)
(* them is known only of a request no row was inserted or changed for.     *)
(***************************************************************************)

USE CustomersAssumption

\* The lookups a request is past found nobody, and nobody is to be found.
Sought(c) ==
    LET k == call[c].contact IN
    /\ call[c].at \in {"phone", "name", "create", "refused"} => ByEmail(k) = {}
    /\ call[c].at \in {"name", "create", "refused"} => ByPhone(k) = {}
    /\ call[c].at \in {"create", "refused"} => ByName(k) = {}
    /\ call[c].at = "refused" => HasEmail(FallbackEmail(k))

SoughtInVain == \A c \in Callers : c \notin raced => Sought(c)

\* The number of an anonymous customer is that of the rows there were.
AnonymousNumbered ==
    \A e \in DOMAIN person, n \in Nat : person[e].email = <<"anonymous", n>> => n < Len(person)

CustomersListed == person \in Seq(People) /\ call = [c \in Callers |-> call[c]]

CustomersInv == CustomersTypeOK /\ CustomersListed /\ SoughtInVain /\ AnonymousNumbered

LEMMA CustomersInvInit == CustomersInit => CustomersInv
BY EmptySeq DEF CustomersInit, CustomersInv, CustomersTypeOK, CustomersListed, SoughtInVain, Sought,
   AnonymousNumbered, CallStates, NoCall

LEMMA LeastNumber == \A T \in SUBSET Nat : T # {} => \E x \in T : \A y \in T : x <= y
<1> SUFFICES ASSUME NEW T \in SUBSET Nat, T # {} PROVE \E x \in T : \A y \in T : x <= y
  OBVIOUS
<1> DEFINE R == {ss \in Nat \X Nat : ss[1] < ss[2]}
<1>1. IsWellFoundedOn(R, Nat)
  BY NatLessThanWellFounded DEF OpToRel
<1>2. \E x \in T : \A y \in T : ~ (<<y, x>> \in R)
  BY <1>1, WFMin
<1>3. \A x, y \in T : ~ (<<y, x>> \in R) => x <= y
  OBVIOUS
<1> QED BY <1>2, <1>3

\* The oldest of the customers found is one of them.
LEMMA OldestFound ==
    ASSUME NEW S \in SUBSET Nat, S # {}
    PROVE  Oldest(S) \in S
BY LeastNumber DEF Oldest

LEMMA CallShape ==
    ASSUME CustomersTypeOK, NEW c \in Callers
    PROVE  /\ call[c].at = "no" <=> call[c] = NoCall
           /\ call[c].at \in {"email", "phone", "name", "create", "refused", "enrich"} =>
                call[c].contact \in Contacts
           /\ call[c].at = "enrich" => call[c].id \in DOMAIN person
           /\ call[c].at = "author" => call[c].name \in Names
BY DEF CustomersTypeOK, CallStates, NoCall

LEMMA CallsMade ==
    /\ NoCall \in CallStates
    /\ \A k \in Contacts :
         /\ \A a \in {"email", "phone", "name", "create", "refused"} : [at |-> a, contact |-> k] \in CallStates
         /\ \A e \in DOMAIN person : [at |-> "enrich", contact |-> k, id |-> e] \in CallStates
    /\ \A n \in Names : [at |-> "author", name |-> n] \in CallStates
BY DEF CallStates, NoCall

LEMMA EmailsMade ==
    ASSUME CustomersTypeOK, CustomersListed, NEW k \in Contacts
    PROVE  FallbackEmail(k) \in EMails
<1>1. Len(person) \in 0 .. MaxPeople
  BY LenProperties DEF CustomersTypeOK, CustomersListed
<1>2. CASE k.mail # None
  BY <1>2 DEF FallbackEmail, Contacts, EMails
<1>3. k.phone # << >> => <<"phone", k.phone[1]>> \in EMails
  BY DEF Contacts, EMails
<1>4. k.name # << >> => <<"name", k.name[1]>> \in EMails
  BY DEF Contacts, EMails
<1>5. <<"anonymous", Len(person)>> \in EMails
  BY <1>1 DEF EMails
<1> QED BY <1>2, <1>3, <1>4, <1>5 DEF FallbackEmail, AliasEmail

\* A row that is inserted.
LEMMA Inserted ==
    ASSUME CustomersInv, NEW row \in People, Insert(row), Len(person) < MaxPeople,
           \A n \in Nat : row.email = <<"anonymous", n>> => n <= Len(person)
    PROVE  /\ person' \in Seq(People) /\ Len(person') <= MaxPeople
           /\ \A e \in DOMAIN person' : person'[e] \in People
           /\ DOMAIN person \subseteq DOMAIN person'
           /\ AnonymousNumbered'
<1>1. /\ person' \in Seq(People) /\ Len(person') = Len(person) + 1
      /\ \A e \in 1 .. Len(person) : person'[e] = person[e]
      /\ person'[Len(person) + 1] = row
  BY AppendProperties DEF Insert, CustomersInv, CustomersListed
<1>2. /\ DOMAIN person = 1 .. Len(person) /\ Len(person) \in Nat
      /\ DOMAIN person' = 1 .. Len(person) + 1
  BY <1>1, LenProperties DEF CustomersInv, CustomersListed
<1>3. \A e \in DOMAIN person' : e \in DOMAIN person \/ e = Len(person) + 1
  BY <1>2
<1>4. AnonymousNumbered'
  BY <1>1, <1>2, <1>3 DEF AnonymousNumbered, CustomersInv
<1>5. \A e \in DOMAIN person' : person'[e] \in People
  BY <1>1, <1>2, <1>3 DEF CustomersInv, CustomersTypeOK
<1> QED BY <1>1, <1>2, <1>4, <1>5

\* A row that is changed, but for its e-mail.
LEMMA Changed ==
    ASSUME CustomersInv, NEW e, NEW row, e \in DOMAIN person => row \in People /\ row.email = person[e].email,
           person' = [person EXCEPT ![e] = row]
    PROVE  /\ person' \in Seq(People) /\ Len(person') <= MaxPeople
           /\ \A d \in DOMAIN person' : person'[d] \in People
           /\ DOMAIN person \subseteq DOMAIN person'
           /\ AnonymousNumbered'
<1>1. /\ DOMAIN person = 1 .. Len(person) /\ Len(person) \in Nat
      /\ DOMAIN person' = DOMAIN person
  BY LenProperties DEF CustomersInv, CustomersListed
<1>2. \A d \in DOMAIN person : person'[d] \in People /\ person'[d].email = person[d].email
  BY DEF CustomersInv, CustomersTypeOK
<1>3. person' \in [1 .. Len(person) -> People]
  BY <1>1, <1>2
<1>4. person' \in Seq(People)
  BY <1>1, <1>3, SeqDef
<1>5. Len(person') = Len(person)
  <2>1. Len(person') \in Nat /\ 1 .. Len(person') = 1 .. Len(person)
    BY <1>1, <1>4, LenProperties
  <2> QED BY <1>1, <2>1
<1> QED BY <1>1, <1>2, <1>4, <1>5 DEF AnonymousNumbered, CustomersInv, CustomersTypeOK

\* A step that changes the rows leaves nobody unraced on his way.
LEMMA RacedKeeps ==
    ASSUME CustomersInv, DOMAIN person \subseteq DOMAIN person',
           person' \in Seq(People), Len(person') <= MaxPeople,
           \A e \in DOMAIN person' : person'[e] \in People, AnonymousNumbered',
           call' = [d \in Callers |-> call'[d]],
           \A d \in Callers : call'[d] = NoCall \/ (d \in raced' /\ call'[d] = call[d]),
           raced' \subseteq Callers, served' \subseteq Phones, edits' \in 0 .. MaxEdits
    PROVE  CustomersInv'
<1>1. \A d \in Callers : call'[d] \in CallStates'
  BY DEF CustomersInv, CustomersTypeOK, CallStates
<1>2. SoughtInVain'
  BY DEF SoughtInVain, Sought, NoCall
<1> QED BY <1>1, <1>2 DEF CustomersInv, CustomersTypeOK, CustomersListed

\* A step of one request that leaves the rows as they are.
LEMMA CustomerMoves ==
    ASSUME CustomersInv, UNCHANGED person, NEW c \in Callers, NEW k \in CallStates, Move(c, k),
           raced' \in {raced, raced \ {c}}, c \notin raced' => Sought(c)',
           served' \subseteq Phones, edits' \in 0 .. MaxEdits
    PROVE  CustomersInv'
<1>1. /\ call' = [d \in Callers |-> call'[d]]
      /\ call'[c] = k /\ \A d \in Callers \ {c} : call'[d] = call[d]
  BY DEF Move, CustomersInv, CustomersListed
<1>2. \A d \in Callers : call'[d] \in CallStates'
  BY <1>1 DEF CustomersInv, CustomersTypeOK, CallStates
<1>3. ASSUME NEW d \in Callers \ {c}, d \notin raced' PROVE Sought(d)'
  <2>1. call'[d] = call[d] /\ Sought(d)
    BY <1>1, <1>3 DEF CustomersInv, SoughtInVain
  <2>2. call[d].at = "refused" => HasEmail(FallbackEmail(call[d].contact))'
    BY <2>1 DEF Sought, HasEmail, FallbackEmail, AliasEmail
  <2> QED BY <2>1, <2>2 DEF Sought, ByEmail, ByPhone, ByName
<1>4. AnonymousNumbered'
  BY DEF CustomersInv, AnonymousNumbered
<1> QED BY <1>1, <1>2, <1>3, <1>4 DEF CustomersInv, CustomersTypeOK, CustomersListed, SoughtInVain

LEMMA TicketComesKeeps ==
    ASSUME CustomersInv, NEW c \in Callers, NEW k \in Contacts, TicketComes(c, k)
    PROVE  CustomersInv'
<1> DEFINE r == [at |-> FromEmail(k), contact |-> k]
<1>1. r \in CallStates
  BY CallsMade DEF FromEmail, FromPhone, FromName
<1>2. Move(c, r) /\ raced' = raced \ {c} /\ UNCHANGED <<person, served, edits>>
  BY DEF TicketComes
<1>3. call'[c] = r
  BY <1>2 DEF Move, CustomersInv, CustomersListed
<1>4. Sought(c)'
  BY <1>3 DEF Sought, FromEmail, FromPhone, FromName, ByEmail, ByPhone, ByName
<1> HIDE DEF r
<1> QED BY <1>1, <1>2, <1>4, CustomerMoves DEF CustomersInv, CustomersTypeOK

LEMMA CommentComesKeeps ==
    ASSUME CustomersInv, NEW c \in Callers, NEW n \in Names, CommentComes(c, n)
    PROVE  CustomersInv'
<1>1. PICK r \in {NoCall, [at |-> "author", name |-> n]} : Move(c, r)
  BY DEF CommentComes, Move, CustomersInv, CustomersListed
<1>2. raced' = raced \ {c} /\ UNCHANGED <<person, served, edits>>
  BY DEF CommentComes
<1>3. r \in CallStates
  BY <1>1, CallsMade
<1>4. call'[c] = r
  BY <1>1 DEF Move, CustomersInv, CustomersListed
<1>5. Sought(c)'
  BY <1>1, <1>4 DEF Sought, NoCall
<1> QED BY <1>1, <1>2, <1>3, <1>5, CustomerMoves DEF CustomersInv, CustomersTypeOK

\* A lookup goes on to the next one when it found nobody.
LEMMA LookupKeeps ==
    ASSUME CustomersInv, NEW c \in Callers,
           LookupByEmail(c) \/ LookupByPhone(c) \/ LookupByName(c)
    PROVE  CustomersInv'
<1> DEFINE k == call[c].contact
<1>1. k \in Contacts
  BY CallShape DEF LookupByEmail, LookupByPhone, LookupByName, Lookup, CustomersInv
<1>2. UNCHANGED <<person, raced, served, edits>>
  BY DEF LookupByEmail, LookupByPhone, LookupByName, Lookup
<1>3. DOMAIN person \subseteq Nat
  BY LenProperties DEF CustomersInv, CustomersListed
<1>4. CASE \E S \in SUBSET DOMAIN person :
             S # {} /\ Move(c, [at |-> "enrich", contact |-> k, id |-> Oldest(S)])
  <2>1. PICK S \in SUBSET DOMAIN person :
             S # {} /\ Move(c, [at |-> "enrich", contact |-> k, id |-> Oldest(S)])
    BY <1>4
  <2>2. Oldest(S) \in DOMAIN person
    BY <1>3, <2>1, OldestFound
  <2>3. [at |-> "enrich", contact |-> k, id |-> Oldest(S)] \in CallStates
    BY <1>1, <2>2, CallsMade
  <2>4. Sought(c)'
    BY <2>1 DEF Move, Sought, CustomersInv, CustomersListed
  <2> QED BY <1>2, <2>1, <2>3, <2>4, CustomerMoves DEF CustomersInv, CustomersTypeOK
<1>5. ASSUME NEW a \in {"phone", "name", "create"}, Move(c, [at |-> a, contact |-> k]),
             c \notin raced =>
               /\ ByEmail(k) = {}
               /\ a \in {"name", "create"} => ByPhone(k) = {}
               /\ a = "create" => ByName(k) = {}
      PROVE  CustomersInv'
  <2>1. [at |-> a, contact |-> k] \in CallStates
    BY <1>1, CallsMade
  <2>2. call'[c] = [at |-> a, contact |-> k]
    BY <1>5 DEF Move, CustomersInv, CustomersListed
  <2>3. call'[c].at = a /\ call'[c].contact = k
    BY <2>2
  <2>4. c \notin raced => Sought(c)'
    BY <1>2, <1>5, <2>3 DEF Sought, ByEmail, ByPhone, ByName
  <2> HIDE DEF k
  <2> QED BY <1>2, <1>5, <2>1, <2>4, CustomerMoves DEF CustomersInv, CustomersTypeOK
<1>6. c \notin raced => Sought(c)
  BY DEF CustomersInv, SoughtInVain
<1>7. /\ ByEmail(k) \subseteq DOMAIN person /\ ByPhone(k) \subseteq DOMAIN person
      /\ ByName(k) \subseteq DOMAIN person
  BY DEF ByEmail, ByPhone, ByName
<1>8. k.name = << >> => ByName(k) = {}
  BY DEF ByName
<1>9. k.phone = << >> => ByPhone(k) = {}
  BY DEF ByPhone
<1>10. CASE LookupByEmail(c)
  <2>1. CASE ByEmail(k) # {}
    BY <1>4, <1>7, <1>10, <2>1 DEF LookupByEmail, Lookup
  <2>2. CASE ByEmail(k) = {}
    <3>1. Move(c, [at |-> FromPhone(k), contact |-> k])
      BY <1>10, <2>2 DEF LookupByEmail, Lookup
    <3> QED BY <1>5, <1>8, <1>9, <2>2, <3>1 DEF FromPhone, FromName
  <2> QED BY <2>1, <2>2
<1>11. CASE LookupByPhone(c)
  <2>1. CASE ByPhone(k) # {}
    BY <1>4, <1>7, <1>11, <2>1 DEF LookupByPhone, Lookup
  <2>2. CASE ByPhone(k) = {}
    <3>1. Move(c, [at |-> FromName(k), contact |-> k]) /\ call[c].at = "phone"
      BY <1>11, <2>2 DEF LookupByPhone, Lookup
    <3>2. c \notin raced => ByEmail(k) = {}
      BY <1>6, <3>1 DEF Sought
    <3> QED BY <1>5, <1>8, <2>2, <3>1, <3>2 DEF FromName
  <2> QED BY <2>1, <2>2
<1>12. CASE LookupByName(c)
  <2>1. CASE ByName(k) # {}
    BY <1>4, <1>7, <1>12, <2>1 DEF LookupByName, Lookup
  <2>2. CASE ByName(k) = {}
    <3>1. Move(c, [at |-> "create", contact |-> k]) /\ call[c].at = "name"
      BY <1>12, <2>2 DEF LookupByName, Lookup
    <3>2. c \notin raced => ByEmail(k) = {} /\ ByPhone(k) = {}
      BY <1>6, <3>1 DEF Sought
    <3> QED BY <1>5, <2>2, <3>1, <3>2
  <2> QED BY <2>1, <2>2
<1> QED BY <1>10, <1>11, <1>12

LEMMA RefusalKeeps ==
    ASSUME CustomersInv, NEW c \in Callers, CreateRefused(c) \/ Answered(c)
    PROVE  CustomersInv'
<1>1. UNCHANGED <<person, raced, served, edits>>
  BY DEF CreateRefused, Answered
<1>2. CASE CreateRefused(c)
  <2> DEFINE r == [at |-> "refused", contact |-> call[c].contact]
  <2>1. r \in CallStates /\ Move(c, r) /\ call[c].at = "create"
    BY <1>2, CallShape, CallsMade DEF CreateRefused, CustomersInv
  <2>2. call'[c] = r
    BY <2>1 DEF Move, CustomersInv, CustomersListed
  <2>3. call'[c].contact = call[c].contact
    BY <2>2
  <2>4. HasEmail(FallbackEmail(call[c].contact))'
    <3>1. HasEmail(FallbackEmail(call[c].contact))
      BY <1>2 DEF CreateRefused
    <3> QED BY <1>1, <2>3, <3>1 DEF HasEmail, FallbackEmail, AliasEmail
  <2>5. c \notin raced => Sought(c)'
    BY <1>1, <2>1, <2>3, <2>4 DEF CustomersInv, SoughtInVain, Sought, ByEmail, ByPhone, ByName
  <2> HIDE DEF r
  <2> QED BY <1>1, <2>1, <2>5, CustomerMoves DEF CustomersInv, CustomersTypeOK
<1>3. CASE Answered(c)
  <2>1. Move(c, NoCall) /\ NoCall \in CallStates
    BY <1>3, CallsMade DEF Answered
  <2>2. Sought(c)'
    BY <2>1 DEF Move, CustomersInv, CustomersListed, Sought, NoCall
  <2> QED BY <1>1, <2>1, <2>2, CustomerMoves DEF CustomersInv, CustomersTypeOK
<1> QED BY <1>2, <1>3

LEMMA EnrichKeeps ==
    ASSUME CustomersInv, NEW c \in Callers, EnrichReporter(c)
    PROVE  CustomersInv'
<1> DEFINE k == call[c].contact
           e == call[c].id
           row == [person[e] EXCEPT !.name = IF k.name # << >> THEN k.name ELSE @,
                                    !.phone = IF k.phone # << >> THEN k.phone ELSE @]
<1>1. k \in Contacts /\ e \in DOMAIN person /\ person[e] \in People
  BY CallShape DEF EnrichReporter, CustomersInv, CustomersTypeOK
<1>2. row \in People /\ row.email = person[e].email
  BY <1>1 DEF People, Contacts
<1>3. person' = [person EXCEPT ![e] = row]
  BY <1>1 DEF EnrichReporter, People
<1>4. /\ Move(c, NoCall) /\ UNCHANGED edits
      /\ raced' = IF person' = person THEN raced ELSE raced \cup Others(c)
      /\ served' \subseteq Phones
  BY <1>1 DEF EnrichReporter, Contacts, CustomersInv, CustomersTypeOK
<1>5. call' = [d \in Callers |-> call'[d]] /\ call'[c] = NoCall /\ \A d \in Callers \ {c} : call'[d] = call[d]
  BY <1>4 DEF Move, CustomersInv, CustomersListed
<1>6. CASE person' = person
  <2>1. raced' = raced /\ NoCall \in CallStates /\ Sought(c)'
    BY <1>4, <1>5, <1>6, CallsMade DEF Sought, NoCall
  <2> QED BY <1>4, <1>6, <2>1, CustomerMoves DEF CustomersInv, CustomersTypeOK
<1>7. CASE person' # person
  <2>1. raced' = raced \cup Others(c)
    BY <1>4, <1>7
  <2>2. \A d \in Callers : call'[d] = NoCall \/ (d \in raced' /\ call'[d] = call[d])
    BY <1>5, <2>1 DEF Others, Busy
  <2>3. raced' \subseteq Callers
    BY <2>1 DEF Others, Busy, CustomersInv, CustomersTypeOK
  <2> HIDE DEF row, k, e
  <2> QED
    BY <1>2, <1>3, <1>4, <1>5, <2>2, <2>3, Changed, RacedKeeps DEF CustomersInv, CustomersTypeOK
<1> QED BY <1>6, <1>7

LEMMA CreateReporterKeeps ==
    ASSUME CustomersInv, NEW c \in Callers, CreateReporter(c)
    PROVE  CustomersInv'
<1> DEFINE k == call[c].contact
           row == [email |-> FallbackEmail(k), phone |-> k.phone, name |-> k.name, role |-> "REPORTER"]
<1>1. k \in Contacts
  BY CallShape DEF CreateReporter, CustomersInv
<1>2. row \in People /\ Insert(row) /\ Len(person) < MaxPeople
  BY <1>1, EmailsMade DEF CreateReporter, People, Contacts, CustomersInv
<1>3. \A n \in Nat : row.email = <<"anonymous", n>> => n <= Len(person)
  <2>1. Len(person) \in Nat
    BY LenProperties DEF CustomersInv, CustomersListed
  <2> QED BY <2>1 DEF FallbackEmail, AliasEmail
<1>4. /\ Move(c, NoCall) /\ UNCHANGED edits /\ raced' = raced \cup Others(c)
      /\ served' \subseteq Phones
  BY <1>1 DEF CreateReporter, Contacts, CustomersInv, CustomersTypeOK
<1>5. call' = [d \in Callers |-> call'[d]] /\ call'[c] = NoCall /\ \A d \in Callers \ {c} : call'[d] = call[d]
  BY <1>4 DEF Move, CustomersInv, CustomersListed
<1>6. \A d \in Callers : call'[d] = NoCall \/ (d \in raced' /\ call'[d] = call[d])
  BY <1>4, <1>5 DEF Others, Busy
<1>7. raced' \subseteq Callers
  BY <1>4 DEF Others, Busy, CustomersInv, CustomersTypeOK
<1> HIDE DEF row, k
<1> QED
  BY <1>2, <1>3, <1>4, <1>5, <1>6, <1>7, Inserted, RacedKeeps DEF CustomersInv, CustomersTypeOK

LEMMA CreateAuthorKeeps ==
    ASSUME CustomersInv, NEW c \in Callers, CreateAuthor(c)
    PROVE  CustomersInv'
<1> DEFINE row == [email |-> <<"author", call[c].name[1]>>, phone |-> << >>, name |-> call[c].name,
                   role |-> "AGENT"]
<1>1. Move(c, NoCall) /\ UNCHANGED <<served, edits>>
  BY DEF CreateAuthor
<1>2. call' = [d \in Callers |-> call'[d]] /\ call'[c] = NoCall /\ \A d \in Callers \ {c} : call'[d] = call[d]
  BY <1>1 DEF Move, CustomersInv, CustomersListed
<1>3. CASE UNCHANGED <<person, raced>>
  <2>1. NoCall \in CallStates /\ Sought(c)'
    BY <1>2, CallsMade DEF Sought, NoCall
  <2> QED BY <1>1, <1>3, <2>1, CustomerMoves DEF CustomersInv, CustomersTypeOK
<1>4. CASE Insert(row) /\ Len(person) < MaxPeople /\ raced' = raced \cup Others(c)
  <2>1. call[c].name \in Names
    BY CallShape DEF CreateAuthor, CustomersInv
  <2>2. row \in People
    BY <2>1 DEF People, EMails
  <2>3. \A n \in Nat : row.email = <<"anonymous", n>> => n <= Len(person)
    OBVIOUS
  <2>4. \A d \in Callers : call'[d] = NoCall \/ (d \in raced' /\ call'[d] = call[d])
    BY <1>2, <1>4 DEF Others, Busy
  <2>5. raced' \subseteq Callers
    BY <1>4 DEF Others, Busy, CustomersInv, CustomersTypeOK
  <2> HIDE DEF row
  <2> QED
    BY <1>1, <1>2, <1>4, <2>2, <2>3, <2>4, <2>5, Inserted, RacedKeeps DEF CustomersInv, CustomersTypeOK
<1> QED BY <1>3, <1>4 DEF CreateAuthor

LEMMA CreateUserKeeps ==
    ASSUME CustomersInv, NEW m \in Mails, NEW role \in {"REPORTER", "AGENT"}, CreateUser(m, role)
    PROVE  CustomersInv'
<1> DEFINE row == [email |-> <<"mail", m>>, phone |-> << >>, name |-> << >>, role |-> role]
<1>1. /\ UNCHANGED <<call, served>> /\ raced' = raced \cup Busy
      /\ edits' \in 0 .. MaxEdits
      /\ Insert(row) /\ Len(person) < MaxPeople
  BY DEF CreateUser, CustomersInv, CustomersTypeOK
<1>2. row \in People
  BY DEF People, EMails
<1>3. \A n \in Nat : row.email = <<"anonymous", n>> => n <= Len(person)
  OBVIOUS
<1>4. /\ call' = [d \in Callers |-> call'[d]]
      /\ \A d \in Callers : call'[d] = NoCall \/ (d \in raced' /\ call'[d] = call[d])
      /\ raced' \subseteq Callers
  BY <1>1 DEF Busy, CustomersInv, CustomersTypeOK, CustomersListed
<1> HIDE DEF row
<1> QED BY <1>1, <1>2, <1>3, <1>4, Inserted, RacedKeeps DEF CustomersInv, CustomersTypeOK

LEMMA EditUserKeeps ==
    ASSUME CustomersInv, NEW e \in DOMAIN person, NEW phone \in Phones \cup {<< >>},
           NEW role \in {"REPORTER", "AGENT"}, EditUser(e, phone, role)
    PROVE  CustomersInv'
<1> DEFINE row == [person[e] EXCEPT !.phone = phone, !.role = role]
<1>1. /\ UNCHANGED <<call, served>> /\ raced' = raced \cup Busy
      /\ edits' \in 0 .. MaxEdits
  BY DEF EditUser, CustomersInv, CustomersTypeOK
<1>2. person[e] \in People
  BY DEF CustomersInv, CustomersTypeOK
<1>3. row \in People /\ row.email = person[e].email
  BY <1>2 DEF People
<1>4. person' = [person EXCEPT ![e] = row]
  BY <1>2 DEF EditUser, People
<1>5. /\ call' = [d \in Callers |-> call'[d]]
      /\ \A d \in Callers : call'[d] = NoCall \/ (d \in raced' /\ call'[d] = call[d])
      /\ raced' \subseteq Callers
  BY <1>1 DEF Busy, CustomersInv, CustomersTypeOK, CustomersListed
<1> HIDE DEF row
<1> QED BY <1>1, <1>3, <1>4, <1>5, Changed, RacedKeeps DEF CustomersInv, CustomersTypeOK

LEMMA CustomersStep == CustomersInv /\ [CustomersNext]_customerVars => CustomersInv'
<1> SUFFICES ASSUME CustomersInv, [CustomersNext]_customerVars PROVE CustomersInv'
  OBVIOUS
<1>1. CASE CustomersNext
  BY <1>1, TicketComesKeeps, CommentComesKeeps, LookupKeeps, EnrichKeeps, CreateReporterKeeps,
     RefusalKeeps, CreateAuthorKeeps, CreateUserKeeps, EditUserKeeps DEF CustomersNext
<1>2. CASE UNCHANGED customerVars
  <2>1. UNCHANGED <<person, call, raced, served, edits>>
    BY <1>2 DEF customerVars
  <2>2. CustomersTypeOK' /\ CustomersListed'
    BY <2>1 DEF CustomersInv, CustomersTypeOK, CustomersListed, CallStates
  <2>3. \A c \in Callers : Sought(c)' <=> Sought(c)
    BY <2>1 DEF Sought, ByEmail, ByPhone, ByName, HasEmail, FallbackEmail, AliasEmail
  <2>4. SoughtInVain' /\ AnonymousNumbered'
    BY <2>1, <2>3 DEF CustomersInv, SoughtInVain, AnonymousNumbered
  <2> QED BY <2>2, <2>4 DEF CustomersInv
<1> QED BY <1>1, <1>2

\* A ticket is refused because of its customer only if a row was inserted or
\* changed while it was looked for, or if the e-mail made up for the customer is
\* that of a row that shows another spelling, telephone, name or role by now: for
\* every number of requests, customers and changes.
THEOREM RefusedForCauseCorrect == CustomersSpec => []RefusedForCause
<1>1. ASSUME CustomersInv PROVE RefusedForCause
  <2> SUFFICES ASSUME NEW c \in Callers, call[c].at = "refused", c \notin raced
               PROVE  call[c].contact.mail = None /\ ~Overlooked(call[c].contact)
    BY DEF RefusedForCause
  <2> DEFINE k == call[c].contact
  <2>1. ByEmail(k) = {} /\ ByPhone(k) = {} /\ ByName(k) = {} /\ HasEmail(FallbackEmail(k))
    BY <1>1 DEF CustomersInv, SoughtInVain, Sought
  <2>2. k.mail = None
    BY <2>1 DEF HasEmail, FallbackEmail, ByEmail
  <2>3. ASSUME FallbackEmail(k)[1] = "anonymous", NEW e \in DOMAIN person
        PROVE  person[e].email # FallbackEmail(k)
    <3>1. FallbackEmail(k) = <<"anonymous", Len(person)>>
      BY <2>2, <2>3 DEF FallbackEmail, AliasEmail
    <3>2. Len(person) \in Nat /\ ~(Len(person) < Len(person))
      BY <1>1, LenProperties DEF CustomersInv, CustomersListed
    <3> QED BY <1>1, <3>1, <3>2 DEF CustomersInv, AnonymousNumbered
  <2>4. ~Overlooked(k)
    BY <2>1, <2>3 DEF Overlooked, ByPhone, ByName
  <2> QED BY <2>2, <2>4
<1> QED BY <1>1, CustomersInvInit, CustomersStep, PTL DEF CustomersSpec

HIDE CustomersAssumption

----------------------------------------------------------------------------
(***************************************************************************)
(* The request limiter lets no more through in any span as long as a       *)
(* window than two windows that touch allow.  A counter may be dropped, so *)
(* what counts is when the last window of a key was opened, and when the   *)
(* one before it was: less than a span apart only from their next ones.    *)
(***************************************************************************)

USE RateLimitAssumption

\* The requests of a key that passed from a tick on, after it, and between two.
From(k, s) == {p \in passed[k] : p[1] >= s}
After(k, s) == {p \in passed[k] : p[1] > s}
Between(k, r, s) == {p \in passed[k] : p[1] > r /\ p[1] < s}

\* The last window of the key was opened at s, the one before it at r or earlier.
OpenedAt(k, r, s) ==
    /\ s <= tick /\ r <= s - Window
    /\ \A p \in passed[k] : p[1] < s + Window
    /\ Cardinality(From(k, s)) <= Limit
    /\ Cardinality(After(k, s)) <= Limit - 1
    /\ Cardinality(Between(k, r, s)) <= Limit - 1
    /\ Open(k) => /\ buckets[k].resetAt = s + Window
                  /\ Cardinality(From(k, s)) <= buckets[k].count
                  /\ Cardinality(After(k, s)) <= buckets[k].count - 1
    /\ ~Open(k) => tick >= s + Window

WindowsApart == \A k \in Limited : \E r, s \in Int : OpenedAt(k, r, s)

\* What passed was asked: nothing that passes now has passed before.
PassedBefore ==
    \A k \in Limited : \A p \in passed[k] : p[1] <= tick /\ (p[1] = tick => p[2] < asked[k])

RateInv == RateTypeOK /\ PassedBefore /\ WindowsApart

LEMMA RateInvInit == RateInit => RateInv
<1> SUFFICES ASSUME RateInit PROVE RateInv
  OBVIOUS
<1>1. RateTypeOK /\ PassedBefore
  BY DEF RateInit, RateTypeOK, PassedBefore, Ticks
<1>2. PICK r, s \in Int : s + Window = 0 /\ r + Window = s
  <2>1. (0 - Window) + Window = 0 /\ (0 - 2 * Window) + Window = 0 - Window
    OBVIOUS
  <2>2. 0 - Window \in Int /\ 0 - 2 * Window \in Int
    OBVIOUS
  <2> QED BY <2>1, <2>2
<1>3. ASSUME NEW k \in Limited PROVE OpenedAt(k, r, s)
  <2>1. tick = 0 /\ passed[k] = {} /\ ~Open(k)
    BY DEF RateInit, Open
  <2>2. From(k, s) = {} /\ After(k, s) = {} /\ Between(k, r, s) = {}
    BY <2>1 DEF From, After, Between
  <2>3. Cardinality({}) = 0
    BY FS_EmptySet
  <2> QED BY <1>2, <2>1, <2>2, <2>3 DEF OpenedAt
<1> QED BY <1>1, <1>2, <1>3 DEF RateInv, WindowsApart

LEMMA PassedFinite ==
    ASSUME RateTypeOK, NEW k \in Limited
    PROVE  IsFiniteSet(passed[k])
<1>1. IsFiniteSet(Ticks) /\ IsFiniteSet(0 .. Burst)
  BY FS_Interval DEF Ticks
<1>2. IsFiniteSet(Ticks \X (0 .. Burst))
  BY <1>1, FS_Product
<1> QED BY <1>2, FS_Subset DEF RateTypeOK

LEMMA PartsFinite ==
    ASSUME RateTypeOK, NEW k \in Limited, NEW S \in SUBSET passed[k]
    PROVE  IsFiniteSet(S) /\ Cardinality(S) \in Nat
BY PassedFinite, FS_Subset, FS_CardinalityType

\* Keys for which nothing passes and whose counter is not touched.
LEMMA OtherKey ==
    ASSUME NEW k \in Limited, NEW r \in Int, NEW s \in Int, OpenedAt(k, r, s),
           tick' = tick, passed'[k] = passed[k], Open(k)' <=> Open(k),
           Open(k) => buckets'[k] = buckets[k]
    PROVE  OpenedAt(k, r, s)'
BY DEF OpenedAt, From, After, Between

LEMMA OpenWindowKeeps ==
    ASSUME RateInv, NEW k \in Limited, OpenWindow(k)
    PROVE  WindowsApart'
<1>1. /\ tick' = tick /\ ~Open(k) /\ tick \in Int
      /\ passed'[k] = passed[k] \cup {<<tick, asked[k]>>}
      /\ buckets'[k] = [count |-> 1, resetAt |-> tick + Window] /\ k \in DOMAIN buckets'
  BY DEF OpenWindow, Pass, RateInv, RateTypeOK, Ticks
<1>2. ASSUME NEW j \in Limited, j # k
      PROVE  passed'[j] = passed[j] /\ (Open(j)' <=> Open(j)) /\ (Open(j) => buckets'[j] = buckets[j])
  BY <1>2 DEF OpenWindow, Pass, Open, RateInv, RateTypeOK
<1>3. PICK r, s \in Int : OpenedAt(k, r, s)
  BY DEF RateInv, WindowsApart
<1>4. tick >= s + Window
  BY <1>1, <1>3 DEF OpenedAt
<1>5. \A p \in passed[k] : p[1] < tick /\ p[1] \in Int
  BY <1>1, <1>3, <1>4 DEF OpenedAt, RateInv, RateTypeOK, Ticks
<1>6. From(k, tick)' = {<<tick, asked[k]>>}
  BY <1>1, <1>5 DEF From
<1>7. After(k, tick)' = {}
  BY <1>1, <1>5 DEF After
<1>8. Between(k, s, tick)' \subseteq After(k, s)
  BY <1>1, <1>5 DEF Between, After
<1>9. Cardinality(From(k, tick)') = 1 /\ Cardinality(After(k, tick)') = 0
  BY <1>6, <1>7, FS_EmptySet, FS_Singleton
<1>10. Cardinality(Between(k, s, tick)') <= Cardinality(After(k, s)) /\ Cardinality(After(k, s)) \in Nat
       /\ Cardinality(Between(k, s, tick)') \in Nat
  <2>1. IsFiniteSet(After(k, s)) /\ Cardinality(After(k, s)) \in Nat
    BY PartsFinite DEF After, RateInv
  <2> QED BY <1>8, <2>1, FS_Subset, FS_CardinalityType
<1>11. OpenedAt(k, s, tick)'
  <2>1. Open(k)' /\ buckets'[k].resetAt = tick + Window /\ buckets'[k].count = 1
    BY <1>1 DEF Open
  <2>2. \A p \in passed'[k] : p[1] < tick + Window
    BY <1>1, <1>5
  <2>3. Cardinality(After(k, s)) <= Limit - 1
    BY <1>3 DEF OpenedAt
  <2> QED BY <1>1, <1>4, <1>9, <1>10, <2>1, <2>2, <2>3 DEF OpenedAt
<1>12. ASSUME NEW j \in Limited PROVE \E a, b \in Int : OpenedAt(j, a, b)'
  <2>1. CASE j = k
    BY <1>1, <1>11, <2>1
  <2>2. CASE j # k
    <3>1. PICK a, b \in Int : OpenedAt(j, a, b)
      BY DEF RateInv, WindowsApart
    <3> QED BY <1>1, <1>2, <2>2, <3>1, OtherKey
  <2> QED BY <2>1, <2>2
<1> QED BY <1>12 DEF WindowsApart

LEMMA RefuseKeeps ==
    ASSUME RateInv, NEW k \in Limited, Refuse(k)
    PROVE  WindowsApart'
<1>1. /\ tick' = tick /\ UNCHANGED passed /\ k \in DOMAIN buckets
      /\ DOMAIN buckets' = DOMAIN buckets
      /\ \A j \in DOMAIN buckets \ {k} : buckets'[j] = buckets[j]
      /\ buckets[k].count \in Nat
      /\ buckets'[k].resetAt = buckets[k].resetAt /\ buckets'[k].count = buckets[k].count + 1
  BY DEF Refuse, Counted, Open, RateInv, RateTypeOK
<1>2. ASSUME NEW j \in Limited, j # k PROVE (Open(j)' <=> Open(j)) /\ (Open(j) => buckets'[j] = buckets[j])
  BY <1>1, <1>2 DEF Open
<1>3. Open(k) /\ Open(k)'
  BY <1>1 DEF Refuse, Open
<1>4. ASSUME NEW j \in Limited PROVE \E r, s \in Int : OpenedAt(j, r, s)'
  <2>1. PICK r, s \in Int : OpenedAt(j, r, s)
    BY DEF RateInv, WindowsApart
  <2>2. CASE j = k
    <3>1. Cardinality(From(k, s)) \in Nat /\ Cardinality(After(k, s)) \in Nat
      BY PartsFinite DEF From, After, RateInv
    <3>2. /\ From(k, s)' = From(k, s) /\ After(k, s)' = After(k, s)
          /\ Between(k, r, s)' = Between(k, r, s)
      BY <1>1 DEF From, After, Between
    <3>3. OpenedAt(k, r, s)'
      BY <1>1, <1>3, <2>1, <2>2, <3>1, <3>2 DEF OpenedAt
    <3> QED BY <2>2, <3>3
  <2>3. CASE j # k
    BY <1>1, <1>2, <2>1, <2>3, OtherKey
  <2> QED BY <2>2, <2>3
<1> QED BY <1>4 DEF WindowsApart

\* Whatever is dropped, the counters of open windows stay.
LEMMA AllowKeeps ==
    ASSUME RateInv, NEW k \in Limited, Allow(k)
    PROVE  WindowsApart'
<1> DEFINE p == <<tick, asked[k]>>
<1>1. /\ tick' = tick /\ tick \in Int /\ passed'[k] = passed[k] \cup {p}
      /\ buckets[k].count \in Nat /\ buckets[k].count + 1 <= Limit
  BY DEF Allow, Pass, Open, RateInv, RateTypeOK, Ticks
<1>2. \A j \in Limited \ {k} : passed'[j] = passed[j]
  BY DEF Allow, Pass, RateInv, RateTypeOK
<1>3. /\ \A j \in DOMAIN buckets' : j \in DOMAIN buckets
      /\ \A j \in DOMAIN buckets : Open(j) => j \in DOMAIN buckets'
      /\ \A j \in DOMAIN buckets' \ {k} : buckets'[j] = buckets[j]
      /\ buckets'[k].resetAt = buckets[k].resetAt /\ buckets'[k].count = buckets[k].count + 1
  BY DEF Allow, Counted, Restrict, Open, RateInv, RateTypeOK
<1>4. Open(k) /\ Open(k)'
  BY <1>1, <1>3 DEF Allow, Open
<1>5. ASSUME NEW j \in Limited, j # k PROVE (Open(j)' <=> Open(j)) /\ (Open(j) => buckets'[j] = buckets[j])
  BY <1>1, <1>3, <1>5 DEF Open
<1>6. ASSUME NEW j \in Limited PROVE \E r, s \in Int : OpenedAt(j, r, s)'
  <2>1. PICK r, s \in Int : OpenedAt(j, r, s)
    BY DEF RateInv, WindowsApart
  <2>2. CASE j = k
    <3>1. s <= tick /\ tick < s + Window
      BY <1>4, <2>1, <2>2 DEF OpenedAt, Open
    <3>2. /\ From(k, s)' = From(k, s) \cup {p}
          /\ After(k, s)' \in {After(k, s), After(k, s) \cup {p}}
          /\ Between(k, r, s)' = Between(k, r, s)
      <4>1. p[1] = tick
        OBVIOUS
      <4>2. From(k, s)' = From(k, s) \cup {p}
        BY <1>1, <3>1, <4>1 DEF From
      <4>3. After(k, s)' \in {After(k, s), After(k, s) \cup {p}}
        BY <1>1, <3>1, <4>1 DEF After
      <4>4. Between(k, r, s)' = Between(k, r, s)
        BY <1>1, <3>1, <4>1 DEF Between
      <4> QED BY <4>2, <4>3, <4>4
    <3>3. /\ IsFiniteSet(From(k, s)) /\ Cardinality(From(k, s)) \in Nat
          /\ IsFiniteSet(After(k, s)) /\ Cardinality(After(k, s)) \in Nat
      BY PartsFinite DEF From, After, RateInv
    <3>4. ASSUME NEW S, IsFiniteSet(S), Cardinality(S) \in Nat, NEW T \in {S, S \cup {p}}
          PROVE  Cardinality(T) <= Cardinality(S) + 1 /\ Cardinality(T) \in Nat
      <4> HIDE DEF p
      <4>1. Cardinality(S \cup {p}) \in {Cardinality(S), Cardinality(S) + 1}
        BY <3>4, FS_AddElement
      <4> QED BY <3>4, <4>1
    <3>5. /\ Cardinality(From(k, s)') <= Cardinality(From(k, s)) + 1 /\ Cardinality(From(k, s)') \in Nat
          /\ Cardinality(After(k, s)') <= Cardinality(After(k, s)) + 1 /\ Cardinality(After(k, s)') \in Nat
      <4> HIDE DEF p
      <4> QED BY <3>2, <3>3, <3>4
    <3>6. /\ buckets[k].resetAt = s + Window
          /\ Cardinality(From(k, s)) <= buckets[k].count
          /\ Cardinality(After(k, s)) <= buckets[k].count - 1
          /\ r <= s - Window /\ Cardinality(Between(k, r, s)) <= Limit - 1
          /\ \A q \in passed[k] : q[1] < s + Window
      BY <1>4, <2>1, <2>2 DEF OpenedAt
    <3>7. \A q \in passed'[k] : q[1] < s + Window
      BY <1>1, <3>1, <3>6
    <3> HIDE DEF p
    <3>8. OpenedAt(k, r, s)'
      BY <1>1, <1>3, <1>4, <3>1, <3>2, <3>3, <3>4, <3>5, <3>6, <3>7 DEF OpenedAt
    <3> QED BY <2>2, <3>8
  <2>3. CASE j # k
    BY <1>1, <1>2, <1>5, <2>1, <2>3, OtherKey
  <2> QED BY <2>2, <2>3
<1> QED BY <1>6 DEF WindowsApart

LEMMA RateTypedStep == RateTypeOK /\ PassedBefore /\ [RateNext]_rateVars => RateTypeOK' /\ PassedBefore'
<1> SUFFICES ASSUME RateTypeOK, PassedBefore, [RateNext]_rateVars PROVE RateTypeOK' /\ PassedBefore'
  OBVIOUS
<1>1. ASSUME NEW k \in Limited, OpenWindow(k) \/ Refuse(k) \/ Allow(k)
      PROVE  RateTypeOK' /\ PassedBefore'
  <2>1. /\ tick' = tick /\ tick \in Ticks /\ asked[k] \in 0 .. Burst /\ asked'[k] = asked[k] + 1
        /\ asked' \in [Limited -> 0 .. Burst]
        /\ \A j \in Limited \ {k} : asked'[j] = asked[j]
    BY <1>1 DEF OpenWindow, Refuse, Allow, Ask, RateTypeOK
  <2>2. passed' = passed \/ passed' = [passed EXCEPT ![k] = @ \cup {<<tick, asked[k]>>}]
    BY <1>1 DEF OpenWindow, Refuse, Allow, Pass
  <2>3. passed' \in [Limited -> SUBSET (Ticks \X (0 .. Burst))]
    BY <2>1, <2>2 DEF RateTypeOK
  <2>4. PassedBefore'
    <3>1. ASSUME NEW j \in Limited, NEW p \in passed'[j]
          PROVE  p[1] <= tick /\ (p[1] = tick => p[2] < asked'[j])
      <4>1. p \in passed[j] \/ (j = k /\ p = <<tick, asked[k]>>)
        BY <2>2, <3>1 DEF RateTypeOK
      <4>2. CASE p \in passed[j]
        <5>1. p[1] <= tick /\ (p[1] = tick => p[2] < asked[j]) /\ p[2] \in Nat
          BY <4>2 DEF PassedBefore, RateTypeOK
        <5>2. asked[j] \in Nat /\ asked'[j] \in {asked[j], asked[j] + 1}
          BY <2>1 DEF RateTypeOK
        <5> QED BY <5>1, <5>2
      <4>3. CASE j = k /\ p = <<tick, asked[k]>>
        BY <2>1, <4>3 DEF Ticks
      <4> QED BY <4>1, <4>2, <4>3
    <3> QED BY <2>1, <3>1 DEF PassedBefore
  <2>5. /\ DOMAIN buckets' \subseteq Limited
        /\ \A j \in DOMAIN buckets' : buckets'[j] \in [count : Nat, resetAt : Nat]
    <3>1. CASE OpenWindow(k)
      <4>1. [count |-> 1, resetAt |-> tick + Window] \in [count : Nat, resetAt : Nat]
        BY <2>1 DEF Ticks
      <4> QED BY <3>1, <4>1 DEF OpenWindow, RateTypeOK
    <3>2. CASE Refuse(k)
      BY <3>2 DEF Refuse, Counted, RateTypeOK
    <3>3. CASE Allow(k)
      BY <3>3 DEF Allow, Counted, Restrict, RateTypeOK
    <3> QED BY <1>1, <3>1, <3>2, <3>3
  <2> QED BY <2>1, <2>3, <2>4, <2>5 DEF RateTypeOK
<1>2. CASE TickRate
  <2>1. RateTypeOK'
    BY <1>2 DEF TickRate, RateTypeOK, Ticks
  <2>2. ASSUME NEW k \in Limited, NEW p \in passed[k] PROVE p[1] < tick + 1 /\ tick \in Nat /\ p[1] \in Nat
    BY <2>2 DEF PassedBefore, RateTypeOK, Ticks
  <2>3. PassedBefore'
    BY <1>2, <2>2 DEF TickRate, PassedBefore
  <2> QED BY <2>1, <2>3
<1>3. CASE UNCHANGED rateVars
  BY <1>3 DEF rateVars, RateTypeOK, PassedBefore
<1> QED BY <1>1, <1>2, <1>3 DEF RateNext

LEMMA RateStep == RateInv /\ [RateNext]_rateVars => RateInv'
<1> SUFFICES ASSUME RateInv, [RateNext]_rateVars PROVE WindowsApart'
  BY RateTypedStep DEF RateInv
<1>1. CASE TickRate
  <2>1. ASSUME NEW k \in Limited PROVE \E r, s \in Int : OpenedAt(k, r, s)'
    <3>1. PICK r, s \in Int : OpenedAt(k, r, s)
      BY DEF RateInv, WindowsApart
    <3>2. /\ From(k, s)' = From(k, s) /\ After(k, s)' = After(k, s)
          /\ Between(k, r, s)' = Between(k, r, s)
      BY <1>1 DEF TickRate, From, After, Between
    <3>3. tick' = tick + 1 /\ tick \in Int /\ UNCHANGED <<buckets, passed>>
      BY <1>1 DEF TickRate, RateInv, RateTypeOK, Ticks
    <3>4. k \in DOMAIN buckets => buckets[k].resetAt \in Int
      BY DEF RateInv, RateTypeOK
    <3>5. OpenedAt(k, r, s)'
      BY <3>1, <3>2, <3>3, <3>4 DEF OpenedAt, Open
    <3> QED BY <3>5
  <2> QED BY <2>1 DEF WindowsApart
<1>2. CASE UNCHANGED rateVars
  <2>1. ASSUME NEW k \in Limited, NEW r \in Int, NEW s \in Int, OpenedAt(k, r, s) PROVE OpenedAt(k, r, s)'
    BY <1>2, <2>1 DEF rateVars, OpenedAt, From, After, Between, Open
  <2> QED BY <2>1 DEF RateInv, WindowsApart
<1> QED BY <1>1, <1>2, OpenWindowKeeps, RefuseKeeps, AllowKeeps DEF RateNext

\* In no span as long as a window more requests of a key pass than two windows
\* that touch allow: for every number of keys, every limit and length of a window,
\* and however many counters are kept.
THEOREM PassesBoundedCorrect == RateSpec => []PassesBounded
<1>1. ASSUME RateInv PROVE PassesBounded
  <2> SUFFICES ASSUME NEW k \in Limited
               PROVE  Cardinality({p \in passed[k] : p[1] > tick - Window}) <= 2 * Limit - 1
    BY DEF PassesBounded
  <2> DEFINE Recent == {p \in passed[k] : p[1] > tick - Window}
  <2>1. PICK r, s \in Int : OpenedAt(k, r, s)
    BY <1>1 DEF RateInv, WindowsApart
  <2>2. tick \in Int /\ \A p \in passed[k] : p[1] \in Int
    BY <1>1 DEF RateInv, RateTypeOK, Ticks
  <2>3. /\ IsFiniteSet(From(k, s)) /\ Cardinality(From(k, s)) \in Nat
        /\ IsFiniteSet(Between(k, r, s)) /\ Cardinality(Between(k, r, s)) \in Nat
    BY <1>1, PartsFinite DEF From, Between, RateInv
  <2>4. Recent \subseteq From(k, s) \cup Between(k, r, s)
    BY <2>1, <2>2 DEF OpenedAt, From, Between
  <2>5. /\ IsFiniteSet(From(k, s) \cup Between(k, r, s))
        /\ Cardinality(From(k, s) \cup Between(k, r, s)) <= Cardinality(From(k, s)) + Cardinality(Between(k, r, s))
    <3>1. /\ IsFiniteSet(From(k, s) \cup Between(k, r, s))
          /\ Cardinality(From(k, s) \cup Between(k, r, s)) =
                Cardinality(From(k, s)) + Cardinality(Between(k, r, s))
                - Cardinality(From(k, s) \cap Between(k, r, s))
      BY <2>3, FS_Union
    <3>2. Cardinality(From(k, s) \cap Between(k, r, s)) \in Nat
      BY <2>3, FS_Intersection, FS_CardinalityType
    <3> QED BY <2>3, <3>1, <3>2
  <2>6. Cardinality(Recent) <= Cardinality(From(k, s) \cup Between(k, r, s)) /\ Cardinality(Recent) \in Nat
        /\ Cardinality(From(k, s) \cup Between(k, r, s)) \in Nat
    BY <2>4, <2>5, FS_Subset, FS_CardinalityType
  <2>7. Cardinality(From(k, s)) <= Limit /\ Cardinality(Between(k, r, s)) <= Limit - 1
    BY <2>1 DEF OpenedAt
  <2> QED BY <2>3, <2>5, <2>6, <2>7
<1> QED BY <1>1, RateInvInit, RateStep, PTL DEF RateSpec

HIDE RateLimitAssumption

----------------------------------------------------------------------------
(***************************************************************************)
(* Logins that overlap guess at an account no oftener than two locks allow.*)
(* The argument is about one account: what its bucket says of the guesses  *)
(* since the window was opened, and of those in the window before it.  A   *)
(* lock stops who comes later, not who is in flight: so while it lasts the *)
(* guesses and the logins in flight together are bounded.                  *)
(***************************************************************************)

\* The guesses of G from a moment on, after it, and between two moments.
GuessedFrom(G, s) == {g \in G : g[1] >= s}
GuessedAfter(G, s) == {g \in G : g[1] > s}
GuessedBetween(G, r, s) == {g \in G : g[1] > r /\ g[1] < s}

\* What one lock allows: the failures that make it, and the logins that were in
\* flight when it fell, the one that made it left out.
LockAllows == LoginMaxFailures + Cardinality(Logging) - 1

\* No window is open: the guesses of the last one are over.
WindowClosed(G, t) ==
    /\ \A g \in G : g[1] < t
    /\ Cardinality(GuessedAfter(G, t - LoginWindow)) <= LockAllows - 1

\* The window of b was opened by one guess and counts those that follow; while
\* it locks the account, f logins that are in flight can still guess.
WindowOpen(b, G, f, t) ==
    /\ b.windowStartAt <= t /\ b.count >= 1
    /\ \A g \in G : g[1] <= t /\ g[1] <= b.windowStartAt + LoginWindow
    /\ Cardinality(GuessedFrom(G, b.windowStartAt)) <= b.count
    /\ Cardinality(GuessedBetween(G, b.windowStartAt - LoginWindow, b.windowStartAt)) <= LockAllows - 1
    /\ b.count < LoginMaxFailures =>
        b.lockUntil = 0 /\ Cardinality(GuessedAfter(G, b.windowStartAt)) <= b.count - 1
    /\ b.count >= LoginMaxFailures =>
        /\ b.lockUntil >= b.windowStartAt + LoginWindow
        /\ \A g \in G : g[1] + LoginWindow <= b.lockUntil
        /\ b.lockUntil > t =>
            /\ Cardinality(GuessedAfter(G, b.windowStartAt)) + f <= LockAllows
            /\ t < b.windowStartAt + LoginWindow =>
                Cardinality(GuessedFrom(G, b.windowStartAt)) + f <= LockAllows

Throttled(b, G, f, t) ==
    IF b = NoBucket THEN WindowClosed(G, t) ELSE WindowOpen(b, G, f, t)

Guesses(G) == IsFiniteSet(G) /\ \A g \in G : g[1] \in Nat /\ g[2] \in Nat
Bucket(b) == b \in [count : Nat, windowStartAt : Nat, lockUntil : Nat]

LEMMA LoggingCounted ==
    /\ Cardinality(Logging) \in Nat \ {0}
    /\ LockAllows \in Nat /\ LockAllows >= LoginMaxFailures
    /\ LoginWindow \in Nat \ {0} /\ LoginMaxFailures \in Nat /\ LoginMaxFailures >= 2
    /\ LockAllows = LoginMaxFailures + Cardinality(Logging) - 1
<1>1. Cardinality(Logging) \in Nat /\ Cardinality(Logging) # 0
  BY LoginsAssumption, FS_CardinalityType, FS_EmptySet
<1> QED BY <1>1, LoginsAssumption DEF LockAllows

LEMMA GuessesCounted ==
    ASSUME NEW G, Guesses(G), NEW H \in SUBSET G
    PROVE  IsFiniteSet(H) /\ Cardinality(H) \in Nat /\ Cardinality(H) <= Cardinality(G)
           /\ Cardinality(G) \in Nat
BY FS_Subset, FS_CardinalityType DEF Guesses

LEMMA NoGuesses == Cardinality({}) = 0
BY FS_EmptySet

LEMMA GuessAdded ==
    ASSUME NEW H, IsFiniteSet(H), NEW n
    PROVE  /\ IsFiniteSet(H \cup {n}) /\ Cardinality(H \cup {n}) \in Nat
           /\ Cardinality(H \cup {n}) <= Cardinality(H) + 1
BY FS_AddElement, FS_CardinalityType

LEMMA OneGuess == ASSUME NEW n PROVE Cardinality({n}) = 1
BY FS_Singleton

LEMMA PartsOfGuesses ==
    ASSUME NEW G, Guesses(G), NEW s, NEW r
    PROVE  /\ IsFiniteSet(GuessedFrom(G, s)) /\ Cardinality(GuessedFrom(G, s)) \in Nat
           /\ IsFiniteSet(GuessedAfter(G, s)) /\ Cardinality(GuessedAfter(G, s)) \in Nat
           /\ IsFiniteSet(GuessedBetween(G, r, s)) /\ Cardinality(GuessedBetween(G, r, s)) \in Nat
<1>1. /\ GuessedFrom(G, s) \in SUBSET G /\ GuessedAfter(G, s) \in SUBSET G
      /\ GuessedBetween(G, r, s) \in SUBSET G
  BY DEF GuessedFrom, GuessedAfter, GuessedBetween
<1> QED BY <1>1, GuessesCounted

\* A login that gets through leaves the window alone, or forgets it.
LEMMA BeginThrottled ==
    ASSUME NEW b, Bucket(b), NEW G, Guesses(G), NEW f, NEW e, NEW t \in Nat,
           Throttled(b, G, f, t), b.lockUntil <= t
    PROVE  IF t - b.windowStartAt > LoginWindow
           THEN Throttled(NoBucket, G, e, t) ELSE Throttled(b, G, e, t)
<1> USE LoggingCounted
<1>1. CASE b = NoBucket
  BY <1>1 DEF Throttled
<1>2. CASE b # NoBucket
  <2>1. WindowOpen(b, G, f, t)
    BY <1>2 DEF Throttled
  <2>2. WindowOpen(b, G, e, t)
    BY <2>1 DEF WindowOpen, Bucket
  <2>3. ASSUME t - b.windowStartAt > LoginWindow PROVE WindowClosed(G, t)
    <3> DEFINE s == b.windowStartAt
    <3>1. \A g \in G : g[1] < t
      BY <2>1, <2>3 DEF WindowOpen, Bucket, Guesses
    <3>2. GuessedAfter(G, t - LoginWindow) \in SUBSET GuessedAfter(G, s)
      BY <2>3 DEF GuessedAfter, Guesses, Bucket
    <3>3. Cardinality(GuessedAfter(G, t - LoginWindow)) <= Cardinality(GuessedAfter(G, s))
      BY <3>2, PartsOfGuesses, FS_Subset
    <3>4. Cardinality(GuessedAfter(G, t - LoginWindow)) \in Nat /\ Cardinality(GuessedAfter(G, s)) \in Nat
      BY PartsOfGuesses
    <3>5. CASE b.count < LoginMaxFailures
      <4>1. Cardinality(GuessedAfter(G, s)) <= b.count - 1 /\ b.count \in Nat
        BY <2>1, <3>5 DEF WindowOpen, Bucket
      <4> QED BY <3>1, <3>3, <3>4, <3>5, <4>1 DEF WindowClosed
    <3>6. CASE b.count >= LoginMaxFailures
      <4>1. \A g \in G : ~(g[1] > t - LoginWindow)
        BY <2>1, <3>6 DEF WindowOpen, Bucket, Guesses
      <4>2. GuessedAfter(G, t - LoginWindow) = {}
        BY <4>1 DEF GuessedAfter
      <4> QED BY <3>1, <4>2, NoGuesses DEF WindowClosed
    <3> QED BY <3>5, <3>6 DEF Bucket
  <2> QED BY <1>2, <2>2, <2>3 DEF Throttled
<1> QED BY <1>1, <1>2

\* Fewer logins in flight, or a later moment, guess no more.
LEMMA WaitThrottled ==
    ASSUME NEW b, Bucket(b), NEW G, Guesses(G), NEW f \in Nat, NEW e \in Nat, e <= f,
           NEW t \in Nat, NEW u \in {t, t + 1}, Throttled(b, G, f, t)
    PROVE  Throttled(b, G, e, u)
<1> USE LoggingCounted
<1>1. CASE b = NoBucket
  <2>1. WindowClosed(G, t)
    BY <1>1 DEF Throttled
  <2>2. GuessedAfter(G, u - LoginWindow) \in SUBSET GuessedAfter(G, t - LoginWindow)
    BY DEF GuessedAfter, Guesses
  <2>3. Cardinality(GuessedAfter(G, u - LoginWindow)) <= Cardinality(GuessedAfter(G, t - LoginWindow))
        /\ Cardinality(GuessedAfter(G, u - LoginWindow)) \in Nat
        /\ Cardinality(GuessedAfter(G, t - LoginWindow)) \in Nat
    BY <2>2, PartsOfGuesses, FS_Subset
  <2>4. \A g \in G : g[1] < u
    BY <2>1 DEF WindowClosed, Guesses
  <2>5. WindowClosed(G, u)
    BY <2>1, <2>3, <2>4 DEF WindowClosed
  <2> QED BY <1>1, <2>5 DEF Throttled
<1>2. CASE b # NoBucket
  <2>1. WindowOpen(b, G, f, t)
    BY <1>2 DEF Throttled
  <2>2. Cardinality(GuessedAfter(G, b.windowStartAt)) \in Nat /\ Cardinality(GuessedFrom(G, b.windowStartAt)) \in Nat
    BY PartsOfGuesses
  <2>3. WindowOpen(b, G, e, u)
    BY <2>1, <2>2 DEF WindowOpen, Bucket, Guesses
  <2> QED BY <1>2, <2>3 DEF Throttled
<1> QED BY <1>1, <1>2

\* The window a failed login leaves.
Failed(b, t) ==
    IF b = NoBucket \/ t - b.windowStartAt > LoginWindow
    THEN [count |-> 1, windowStartAt |-> t, lockUntil |-> 0]
    ELSE [count |-> b.count + 1, windowStartAt |-> b.windowStartAt,
          lockUntil |-> IF b.count + 1 >= LoginMaxFailures THEN t + LoginWindow ELSE b.lockUntil]

\* A failure that opens a window: the guesses before it are those of one lock,
\* less its own.
LEMMA OpeningThrottled ==
    ASSUME NEW b, Bucket(b), NEW G, Guesses(G), NEW f \in Nat \ {0}, NEW t \in Nat, NEW m \in Nat,
           Throttled(b, G, f, t), b = NoBucket \/ t - b.windowStartAt > LoginWindow
    PROVE  Throttled(Failed(b, t), G \cup {<<t, m>>}, f - 1, t)
<1> DEFINE new == <<t, m>>
<1> DEFINE o == [count |-> 1, windowStartAt |-> t, lockUntil |-> 0]
<1> USE LoggingCounted
<1>1. Failed(b, t) = o /\ o # NoBucket /\ o.count = 1 /\ o.windowStartAt = t /\ o.lockUntil = 0
  BY DEF Failed, NoBucket
<1>2. new[1] = t
  OBVIOUS
<1> HIDE DEF new, o
<1>3. (\A g \in G : g[1] < t) /\ Cardinality(GuessedAfter(G, t - LoginWindow)) <= LockAllows - 1
  <2>1. CASE b = NoBucket
    BY <2>1 DEF Throttled, WindowClosed
  <2>2. CASE b # NoBucket
    <3> DEFINE s == b.windowStartAt
    <3>1. WindowOpen(b, G, f, t)
      BY <2>2 DEF Throttled
    <3>2. \A g \in G : g[1] < t
      BY <2>2, <3>1 DEF WindowOpen, Bucket, Guesses
    <3>3. GuessedAfter(G, t - LoginWindow) \in SUBSET GuessedAfter(G, s)
      BY <2>2 DEF GuessedAfter, Guesses, Bucket
    <3>4. Cardinality(GuessedAfter(G, t - LoginWindow)) <= Cardinality(GuessedAfter(G, s))
          /\ Cardinality(GuessedAfter(G, t - LoginWindow)) \in Nat /\ Cardinality(GuessedAfter(G, s)) \in Nat
      BY <3>3, PartsOfGuesses, FS_Subset
    <3>5. CASE b.count < LoginMaxFailures
      <4>1. Cardinality(GuessedAfter(G, s)) <= b.count - 1 /\ b.count \in Nat
        BY <3>1, <3>5 DEF WindowOpen, Bucket
      <4> QED BY <3>2, <3>4, <3>5, <4>1
    <3>6. CASE b.count >= LoginMaxFailures /\ b.lockUntil > t
      <4>1. Cardinality(GuessedAfter(G, s)) + f <= LockAllows
        BY <3>1, <3>6 DEF WindowOpen
      <4> QED BY <3>2, <3>4, <4>1
    <3>7. CASE b.count >= LoginMaxFailures /\ b.lockUntil <= t
      <4>1. \A g \in G : ~(g[1] > t - LoginWindow)
        BY <3>1, <3>7 DEF WindowOpen, Bucket, Guesses
      <4>2. GuessedAfter(G, t - LoginWindow) = {}
        BY <4>1 DEF GuessedAfter
      <4> QED BY <3>2, <4>2, NoGuesses
    <3> QED BY <3>5, <3>6, <3>7 DEF Bucket
  <2> QED BY <2>1, <2>2
<1>4. /\ GuessedFrom(G \cup {new}, t) = {new} /\ GuessedAfter(G \cup {new}, t) = {}
      /\ GuessedBetween(G \cup {new}, t - LoginWindow, t) = GuessedAfter(G, t - LoginWindow)
  BY <1>2, <1>3 DEF GuessedFrom, GuessedAfter, GuessedBetween, Guesses
<1>5. \A g \in G \cup {new} : g[1] <= t /\ g[1] <= t + LoginWindow
  BY <1>2, <1>3 DEF Guesses
<1>6. WindowOpen(o, G \cup {new}, f - 1, t)
  <2>1. o.count < LoginMaxFailures /\ ~(o.count >= LoginMaxFailures)
    BY <1>1
  <2>2. /\ Cardinality(GuessedFrom(G \cup {new}, o.windowStartAt)) <= o.count
        /\ Cardinality(GuessedAfter(G \cup {new}, o.windowStartAt)) <= o.count - 1
        /\ Cardinality(GuessedBetween(G \cup {new}, o.windowStartAt - LoginWindow, o.windowStartAt))
                <= LockAllows - 1
    <3>1. /\ Cardinality(GuessedFrom(G \cup {new}, t)) = 1
          /\ Cardinality(GuessedAfter(G \cup {new}, t)) = 0
      BY <1>4, NoGuesses, OneGuess
    <3>2. Cardinality(GuessedBetween(G \cup {new}, t - LoginWindow, t)) <= LockAllows - 1
      BY <1>3, <1>4
    <3> QED BY <1>1, <3>1, <3>2
  <2>3. \A g \in G \cup {new} : g[1] <= t /\ g[1] <= o.windowStartAt + LoginWindow
    BY <1>1, <1>5
  <2>4. o.windowStartAt <= t /\ o.count >= 1
    BY <1>1
  <2> QED BY <1>1, <2>4, <2>1, <2>2, <2>3 DEF WindowOpen
<1> QED BY <1>1, <1>6 DEF Throttled, new, o

\* A failure in an open window counts, or locks.
LEMMA CountingThrottled ==
    ASSUME NEW b, Bucket(b), NEW G, Guesses(G), NEW f \in Nat \ {0}, f <= Cardinality(Logging),
           NEW t \in Nat, NEW m \in Nat,
           Throttled(b, G, f, t), b # NoBucket, ~(t - b.windowStartAt > LoginWindow)
    PROVE  Throttled(Failed(b, t), G \cup {<<t, m>>}, f - 1, t)
<1> DEFINE new == <<t, m>>
<1> DEFINE s == b.windowStartAt
<1> DEFINE n == b.count + 1
<1> DEFINE o == Failed(b, t)
<1> DEFINE H == G \cup {new}
<1> USE LoggingCounted
<1>1. /\ o.count = n /\ o.windowStartAt = s
      /\ o.lockUntil = IF n >= LoginMaxFailures THEN t + LoginWindow ELSE b.lockUntil
  BY DEF Failed
<1>2. new[1] = t
  OBVIOUS
<1>3. WindowOpen(b, G, f, t)
  BY DEF Throttled
<1>4. s \in Nat /\ b.count \in Nat /\ b.lockUntil \in Nat /\ s <= t /\ t <= s + LoginWindow /\ b.count >= 1
  BY <1>3 DEF WindowOpen, Bucket
<1>5. o # NoBucket
  BY <1>1, <1>4 DEF NoBucket
<1> HIDE DEF new, o
<1>6. /\ GuessedFrom(H, s) = GuessedFrom(G, s) \cup {new}
      /\ GuessedAfter(H, s) \subseteq GuessedAfter(G, s) \cup {new}
      /\ GuessedBetween(H, s - LoginWindow, s) = GuessedBetween(G, s - LoginWindow, s)
  BY <1>2, <1>4 DEF GuessedFrom, GuessedAfter, GuessedBetween
<1> DEFINE fG == Cardinality(GuessedFrom(G, s))
<1> DEFINE fH == Cardinality(GuessedFrom(H, s))
<1> DEFINE aG == Cardinality(GuessedAfter(G, s))
<1> DEFINE aH == Cardinality(GuessedAfter(H, s))
<1>7. fG \in Nat /\ fH \in Nat /\ aG \in Nat /\ aH \in Nat /\ fH <= fG + 1 /\ aH <= aG + 1
  <2>1. IsFiniteSet(GuessedFrom(G, s)) /\ fG \in Nat /\ IsFiniteSet(GuessedAfter(G, s)) /\ aG \in Nat
    BY PartsOfGuesses
  <2>2. fH \in Nat /\ fH <= fG + 1
    BY <1>6, <2>1, GuessAdded
  <2>3. /\ IsFiniteSet(GuessedAfter(G, s) \cup {new}) /\ Cardinality(GuessedAfter(G, s) \cup {new}) \in Nat
        /\ Cardinality(GuessedAfter(G, s) \cup {new}) <= aG + 1
    BY <2>1, GuessAdded
  <2>4. aH \in Nat /\ aH <= Cardinality(GuessedAfter(G, s) \cup {new})
    BY <1>6, <2>3, FS_Subset, FS_CardinalityType
  <2> QED BY <2>1, <2>2, <2>3, <2>4
<1>8. \A g \in H : g[1] <= t /\ g[1] <= s + LoginWindow /\ g[1] + LoginWindow <= t + LoginWindow
  BY <1>2, <1>3, <1>4 DEF WindowOpen, Guesses
<1>9. fG <= b.count /\ Cardinality(GuessedBetween(H, s - LoginWindow, s)) <= LockAllows - 1
  BY <1>3, <1>6 DEF WindowOpen
<1>10. n < LoginMaxFailures => b.lockUntil = 0 /\ aH <= n - 1
  BY <1>3, <1>4, <1>7 DEF WindowOpen
<1>11. aH + (f - 1) <= LockAllows /\ (t < s + LoginWindow => fH + (f - 1) <= LockAllows)
  <2>1. CASE b.count < LoginMaxFailures
    <3>1. aG <= b.count - 1
      BY <1>3, <2>1 DEF WindowOpen
    <3> QED BY <1>4, <1>7, <1>9, <2>1, <3>1
  <2>2. CASE b.count >= LoginMaxFailures /\ b.lockUntil > t
    <3>1. aG + f <= LockAllows /\ (t < s + LoginWindow => fG + f <= LockAllows)
      BY <1>3, <2>2 DEF WindowOpen
    <3> QED BY <1>7, <3>1
  <2>3. CASE b.count >= LoginMaxFailures /\ b.lockUntil <= t
    <3>1. b.lockUntil >= s + LoginWindow /\ \A g \in G : g[1] + LoginWindow <= b.lockUntil
      BY <1>3, <2>3 DEF WindowOpen
    <3>2. t = s + LoginWindow /\ \A g \in G : ~(g[1] > s)
      BY <1>4, <2>3, <3>1 DEF Guesses
    <3>3. GuessedAfter(G, s) = {}
      BY <3>2 DEF GuessedAfter
    <3> QED BY <1>4, <1>7, <3>2, <3>3, NoGuesses
  <2> QED BY <1>4, <2>1, <2>2, <2>3
<1>12. WindowOpen(o, H, f - 1, t)
  <2> HIDE DEF H, n, s
  <2>1. fH <= n
    BY <1>4, <1>7, <1>9 DEF n
  <2>2. n \in Nat /\ n >= 1
    BY <1>4 DEF n
  <2>3. n >= LoginMaxFailures => o.lockUntil = t + LoginWindow /\ o.lockUntil >= s + LoginWindow
    BY <1>1, <1>4 DEF s
  <2>4. n < LoginMaxFailures => o.lockUntil = b.lockUntil
    BY <1>1, <2>2
  <2> QED BY <1>1, <1>4, <1>8, <1>9, <1>10, <1>11, <2>1, <2>2, <2>3, <2>4 DEF WindowOpen, s
<1> QED BY <1>5, <1>12 DEF Throttled, new, o

\* In the span of a window lie the guesses of two windows at most.
LEMMA ThrottleBounds ==
    ASSUME NEW b, Bucket(b), NEW G, Guesses(G), NEW f \in Nat, NEW t \in Nat, Throttled(b, G, f, t)
    PROVE  Cardinality(GuessedAfter(G, t - LoginWindow)) <= 2 * LockAllows - 1
<1> DEFINE s == b.windowStartAt
<1> USE LoggingCounted
<1>1. Cardinality(GuessedAfter(G, t - LoginWindow)) \in Nat
  BY PartsOfGuesses
<1>2. CASE b = NoBucket
  BY <1>1, <1>2 DEF Throttled, WindowClosed
<1>3. CASE b # NoBucket /\ b.count >= LoginMaxFailures /\ b.lockUntil <= t
  <2>1. \A g \in G : ~(g[1] > t - LoginWindow)
    BY <1>3 DEF Throttled, WindowOpen, Bucket, Guesses
  <2>2. GuessedAfter(G, t - LoginWindow) = {}
    BY <2>1 DEF GuessedAfter
  <2> QED BY <2>2, NoGuesses
<1>4. CASE b # NoBucket /\ (b.count < LoginMaxFailures \/ b.lockUntil > t)
  <2>1. WindowOpen(b, G, f, t) /\ s \in Nat /\ b.count \in Nat
    BY <1>4 DEF Throttled, Bucket
  <2>2. CASE t < s + LoginWindow
    <3> DEFINE F == GuessedFrom(G, s)
    <3> DEFINE B == GuessedBetween(G, s - LoginWindow, s)
    <3>1. IsFiniteSet(F) /\ Cardinality(F) \in Nat /\ IsFiniteSet(B) /\ Cardinality(B) \in Nat
      BY PartsOfGuesses
    <3>2. Cardinality(F) <= LockAllows
      <4>1. CASE b.count < LoginMaxFailures
        BY <2>1, <3>1, <4>1 DEF WindowOpen
      <4>2. CASE b.count >= LoginMaxFailures
        <5>1. Cardinality(F) + f <= LockAllows
          BY <1>4, <2>1, <2>2, <4>2 DEF WindowOpen
        <5> QED BY <3>1, <5>1
      <4> QED BY <2>1, <4>1, <4>2
    <3>3. Cardinality(B) <= LockAllows - 1
      BY <2>1 DEF WindowOpen
    <3>4. GuessedAfter(G, t - LoginWindow) \subseteq F \cup B
      BY <2>1 DEF WindowOpen, GuessedAfter, GuessedFrom, GuessedBetween, Guesses
    <3> HIDE DEF F, B
    <3>5. /\ IsFiniteSet(F \cup B)
          /\ Cardinality(F \cup B) = Cardinality(F) + Cardinality(B) - Cardinality(F \cap B)
      BY <3>1, FS_Union
    <3>6. Cardinality(F \cap B) \in Nat
      BY <3>1, FS_Intersection, FS_CardinalityType
    <3>7. Cardinality(GuessedAfter(G, t - LoginWindow)) <= Cardinality(F \cup B)
      BY <3>4, <3>5, FS_Subset
    <3> QED BY <1>1, <3>1, <3>2, <3>3, <3>5, <3>6, <3>7
  <2>3. CASE t >= s + LoginWindow
    <3>1. Cardinality(GuessedAfter(G, s)) \in Nat /\ Cardinality(GuessedAfter(G, s)) <= LockAllows
      <4>1. Cardinality(GuessedAfter(G, s)) \in Nat
        BY PartsOfGuesses
      <4>2. CASE b.count < LoginMaxFailures
        BY <2>1, <4>1, <4>2 DEF WindowOpen
      <4>3. CASE b.count >= LoginMaxFailures
        <5>1. Cardinality(GuessedAfter(G, s)) + f <= LockAllows
          BY <1>4, <2>1, <4>3 DEF WindowOpen
        <5> QED BY <4>1, <5>1
      <4> QED BY <2>1, <4>1, <4>2, <4>3
    <3>2. GuessedAfter(G, t - LoginWindow) \in SUBSET GuessedAfter(G, s)
      BY <2>1, <2>3 DEF GuessedAfter, Guesses
    <3>3. Cardinality(GuessedAfter(G, t - LoginWindow)) <= Cardinality(GuessedAfter(G, s))
      BY <3>2, PartsOfGuesses, FS_Subset
    <3> QED BY <1>1, <3>1, <3>3
  <2> QED BY <2>1, <2>2, <2>3
<1> QED BY <1>2, <1>3, <1>4 DEF Bucket

\* The logins in flight at an account: each can still be a guess at it.
Flying(a) == {c \in Logging : login[c].at # "away" /\ login[c].account = a}

\* Every bucket stands for the guesses at its account.
BucketsCount ==
    \A a \in Accounts :
        /\ IsFiniteSet(missed[a])
        /\ Throttled(bucket[a], missed[a], Cardinality(Flying(a)), clock)

\* An upgrade that is on its way carries the password of its account, unless
\* that was set meanwhile.
UpgradesTrue ==
    \A u \in upgrade : u.account \notin crossed => u.password = account[u.account].password

LoginsListed == login = [c \in Logging |-> login[c]]

LoginsInv == LoginsTypeOK /\ LoginsListed /\ BucketsCount /\ UpgradesTrue /\ PasswordKept

LEMMA FlyingCounted ==
    ASSUME NEW a PROVE IsFiniteSet(Flying(a)) /\ Cardinality(Flying(a)) \in Nat
                       /\ Cardinality(Flying(a)) <= Cardinality(Logging)
<1>1. Flying(a) \subseteq Logging
  BY DEF Flying
<1> QED BY <1>1, LoginsAssumption, FS_Subset, FS_CardinalityType

LEMMA LoginsInvInit == LoginsInit => LoginsInv
<1> SUFFICES ASSUME LoginsInit PROVE LoginsInv
  OBVIOUS
<1> USE LoggingCounted
<1>1. LoginsTypeOK /\ LoginsListed
  <2>1. (CHOOSE p \in Passwords : TRUE) \in Passwords
    BY LoginsAssumption
  <2>2. NoBucket \in [count : Nat, windowStartAt : Moments, lockUntil : 0 .. MaxTime + LoginWindow]
    BY LoginsAssumption DEF NoBucket, Moments
  <2>3. [password |-> CHOOSE p \in Passwords : TRUE, old |-> TRUE, disabled |-> FALSE] \in Rows
    BY <2>1 DEF Rows
  <2>4. \A a \in Accounts : account[a].password \in Passwords
    BY <2>3 DEF LoginsInit, Rows
  <2>5. clock \in Moments
    BY LoginsAssumption DEF LoginsInit, Moments
  <2> HIDE DEF NoBucket
  <2> QED BY <2>2, <2>3, <2>4, <2>5 DEF LoginsInit, LoginsTypeOK, LoginsListed
<1>2. ASSUME NEW a \in Accounts
      PROVE  IsFiniteSet(missed[a]) /\ Throttled(bucket[a], missed[a], Cardinality(Flying(a)), clock)
  <2>1. missed[a] = {} /\ bucket[a] = NoBucket
    BY DEF LoginsInit
  <2>2. GuessedAfter({}, clock - LoginWindow) = {}
    BY DEF GuessedAfter
  <2>3. WindowClosed({}, clock)
    BY <2>2, NoGuesses DEF WindowClosed
  <2> QED BY <2>1, <2>3, FS_EmptySet DEF Throttled
<1>3. UpgradesTrue /\ PasswordKept
  BY DEF LoginsInit, UpgradesTrue, PasswordKept
<1> QED BY <1>1, <1>2, <1>3 DEF LoginsInv, BucketsCount

LEMMA BucketTyped ==
    ASSUME LoginsTypeOK, BucketsCount, NEW a \in Accounts
    PROVE  /\ Bucket(bucket[a]) /\ Guesses(missed[a]) /\ clock \in Nat
           /\ bucket[a].windowStartAt \in Moments /\ bucket[a].lockUntil \in 0 .. MaxTime + LoginWindow
           /\ bucket[a].count \in Nat
<1>1. bucket[a] \in [count : Nat, windowStartAt : Moments, lockUntil : 0 .. MaxTime + LoginWindow]
  BY DEF LoginsTypeOK
<1> QED BY <1>1, LoginsAssumption DEF LoginsTypeOK, BucketsCount, Bucket, Guesses, Moments

\* What is known of a login, by how far it is.
LEMMA LoginShape ==
    ASSUME LoginsTypeOK, NEW c \in Logging
    PROVE  /\ login[c].at # "away" => login[c].account \in Accounts /\ login[c].password \in Passwords
           /\ login[c].at = "found" =>
                login[c] \in [at : {"found"}, account : Accounts, password : Passwords, row : Rows]
BY DEF LoginsTypeOK, Away

\* A login that stays in flight, or ends, adds none to those in flight.
LEMMA FlyingLess ==
    ASSUME LoginsListed, NEW c \in Logging, NEW v, login' = [login EXCEPT ![c] = v],
           v = Away \/ (login[c].at # "away" /\ v.account = login[c].account /\ v.at # "away"),
           NEW a \in Accounts
    PROVE  /\ Cardinality(Flying(a)') <= Cardinality(Flying(a))
           /\ Cardinality(Flying(a)') \in Nat /\ Cardinality(Flying(a)) \in Nat
<1>1. Flying(a)' \subseteq Flying(a)
  BY DEF LoginsListed, Flying, Away
<1> QED BY <1>1, FlyingCounted, FS_Subset, FS_CardinalityType

LEMMA FlyingOne ==
    ASSUME LoginsListed, NEW c \in Logging, login' = [login EXCEPT ![c] = Away],
           login[c].at # "away", NEW a \in Accounts, login[c].account = a
    PROVE  Cardinality(Flying(a)') = Cardinality(Flying(a)) - 1
<1>1. Flying(a)' = Flying(a) \ {c} /\ c \in Flying(a)
  BY DEF LoginsListed, Flying, Away
<1>2. IsFiniteSet(Flying(a))
  BY FlyingCounted
<1>3. Cardinality(Flying(a) \ {c}) = Cardinality(Flying(a)) - 1
  BY ONLY <1>1, <1>2, FS_RemoveElement
<1> QED BY <1>1, <1>3

\* As long as no bucket and no guess changes, logins may end and time may pass.
LEMMA BucketsWait ==
    ASSUME LoginsInv, UNCHANGED <<bucket, missed>>, clock' \in {clock, clock + 1},
           \A a \in Accounts : Cardinality(Flying(a)') <= Cardinality(Flying(a))
                               /\ Cardinality(Flying(a)') \in Nat
    PROVE  BucketsCount'
<1>1. ASSUME NEW a \in Accounts
      PROVE  IsFiniteSet(missed'[a]) /\ Throttled(bucket'[a], missed'[a], Cardinality(Flying(a)'), clock')
  <2>1. /\ Throttled(bucket[a], missed[a], Cardinality(Flying(a)), clock) /\ IsFiniteSet(missed[a])
        /\ Bucket(bucket[a]) /\ Guesses(missed[a]) /\ clock \in Nat
    BY BucketTyped DEF LoginsInv, BucketsCount
  <2>2. Throttled(bucket[a], missed[a], Cardinality(Flying(a)'), clock')
    BY <2>1, FlyingCounted, WaitThrottled
  <2> QED BY <2>1, <2>2
<1>2. \A a \in Accounts : Throttled(bucket[a], missed[a], Cardinality(Flying(a)), clock)'
                            <=> Throttled(bucket'[a], missed'[a], Cardinality(Flying(a)'), clock')
  BY DEF Throttled, WindowClosed, WindowOpen, GuessedAfter, GuessedFrom, GuessedBetween, NoBucket
<1> QED BY <1>1, <1>2 DEF BucketsCount

LEMMA LoginBeginKeeps ==
    ASSUME LoginsInv, NEW c \in Logging, NEW a \in Accounts, NEW p \in Passwords, LoginBegin(c, a, p)
    PROVE  LoginsInv'
<1> DEFINE v == [at |-> "begun", account |-> a, password |-> p]
<1>1. /\ login' = [login EXCEPT ![c] = v] /\ bucket[a].lockUntil <= clock
      /\ bucket' = IF Stale(bucket[a]) THEN [bucket EXCEPT ![a] = NoBucket] ELSE bucket
      /\ UNCHANGED <<account, upgrade, clock, chosen, crossed, missed>>
      /\ LoginsTypeOK /\ LoginsListed /\ BucketsCount
  BY DEF LoginBegin, EnforceLoginThrottle, LoginsInv
<1>2. LoginsTypeOK' /\ LoginsListed'
  <2>1. NoBucket \in [count : Nat, windowStartAt : Moments, lockUntil : 0 .. MaxTime + LoginWindow]
    BY LoginsAssumption DEF NoBucket, Moments
  <2>2. v \in [at : {"begun"}, account : Accounts, password : Passwords]
    OBVIOUS
  <2> HIDE DEF v, NoBucket
  <2>3. \A d \in Logging : login'[d] = IF d = c THEN v ELSE login[d]
    BY <1>1 DEF LoginsListed
  <2>4. \A d \in Logging : login'[d] \in
            {Away} \cup [at : {"begun"}, account : Accounts, password : Passwords]
            \cup [at : {"found"}, account : Accounts, password : Passwords, row : Rows]
    BY <1>1, <2>2, <2>3 DEF LoginsTypeOK
  <2>5. bucket' \in [Accounts -> [count : Nat, windowStartAt : Moments, lockUntil : 0 .. MaxTime + LoginWindow]]
    BY <1>1, <2>1 DEF LoginsTypeOK
  <2>6. LoginsListed'
    BY <1>1 DEF LoginsListed
  <2> QED BY <1>1, <2>4, <2>5, <2>6 DEF LoginsTypeOK
<1>3. ASSUME NEW b \in Accounts
      PROVE  IsFiniteSet(missed[b]) /\ Throttled(bucket'[b], missed[b], Cardinality(Flying(b)'), clock)
  <2>1. /\ Throttled(bucket[b], missed[b], Cardinality(Flying(b)), clock) /\ IsFiniteSet(missed[b])
        /\ Bucket(bucket[b]) /\ Guesses(missed[b]) /\ clock \in Nat
    BY <1>1, BucketTyped DEF BucketsCount
  <2>2. CASE b = a
    <3>1. bucket'[a] = IF clock - bucket[a].windowStartAt > LoginWindow THEN NoBucket ELSE bucket[a]
      BY <1>1 DEF LoginsTypeOK, Stale
    <3> QED BY <1>1, <2>1, <2>2, <3>1, BeginThrottled
  <2>3. CASE b # a
    <3>1. bucket'[b] = bucket[b]
      BY <1>1, <2>3 DEF LoginsTypeOK
    <3>2. Flying(b)' \subseteq Flying(b)
      BY <1>1, <2>3 DEF LoginsListed, Flying
    <3>3. Cardinality(Flying(b)') <= Cardinality(Flying(b)) /\ Cardinality(Flying(b)') \in Nat
      BY <3>2, FlyingCounted, FS_Subset, FS_CardinalityType
    <3> QED BY <2>1, <3>1, <3>3, FlyingCounted, WaitThrottled
  <2> QED BY <2>2, <2>3
<1>4. BucketsCount'
  BY <1>1, <1>3 DEF BucketsCount, Throttled, WindowClosed, WindowOpen, GuessedAfter, GuessedFrom,
                    GuessedBetween, NoBucket
<1>5. UpgradesTrue' /\ PasswordKept'
  BY <1>1 DEF LoginsInv, UpgradesTrue, PasswordKept
<1> QED BY <1>2, <1>4, <1>5 DEF LoginsInv

LEMMA LoginReadKeeps ==
    ASSUME LoginsInv, NEW c \in Logging, LoginRead(c) \/ LoginUnavailable(c)
    PROVE  LoginsInv'
<1> DEFINE w == [at |-> "found", account |-> login[c].account,
                 password |-> login[c].password, row |-> account[login[c].account]]
<1>1. PICK v \in {w, Away} : login' = [login EXCEPT ![c] = v]
  BY DEF LoginRead, LoginUnavailable
<1>2. /\ UNCHANGED <<account, bucket, upgrade, clock, chosen, crossed, missed>>
      /\ login[c].at = "begun" /\ login' = [login EXCEPT ![c] = v]
      /\ LoginsTypeOK /\ LoginsListed
  BY <1>1 DEF LoginRead, LoginUnavailable, LoginsInv
<1>3. w \in [at : {"found"}, account : Accounts, password : Passwords, row : Rows]
  <2>1. login[c].account \in Accounts /\ login[c].password \in Passwords
    BY <1>2, LoginShape
  <2>2. account[login[c].account] \in Rows
    BY <1>2, <2>1 DEF LoginsTypeOK
  <2> QED BY <2>1, <2>2
<1>4. w.account = login[c].account /\ w.at = "found"
  OBVIOUS
<1> HIDE DEF w
<1>5. LoginsTypeOK' /\ LoginsListed'
  BY <1>1, <1>2, <1>3 DEF LoginsTypeOK, LoginsListed
<1>6. BucketsCount'
  BY <1>1, <1>2, <1>4, FlyingLess, BucketsWait
<1>7. UpgradesTrue' /\ PasswordKept'
  BY <1>2 DEF LoginsInv, UpgradesTrue, PasswordKept
<1> QED BY <1>5, <1>6, <1>7 DEF LoginsInv

LEMMA LoginFailsKeeps ==
    ASSUME LoginsInv, NEW c \in Logging, LoginFails(c)
    PROVE  LoginsInv'
<1>0. PICK a \in Accounts : a = login[c].account
  BY LoginShape DEF LoginFails, LoginsInv
<1> DEFINE new == <<clock, Cardinality(missed[a])>>
<1>1. /\ UNCHANGED <<account, upgrade, clock, chosen, crossed>>
      /\ login[c].at = "found" /\ login' = [login EXCEPT ![c] = Away]
      /\ missed' = [missed EXCEPT ![a] = @ \cup {new}]
      /\ RegisterFailedLogin(a)
      /\ LoginsTypeOK /\ LoginsListed /\ BucketsCount
  BY <1>0 DEF LoginFails, LoginsInv
<1>2. a \in Accounts
  BY <1>0
<1>3. Bucket(bucket[a]) /\ Guesses(missed[a]) /\ clock \in Nat /\ clock \in Moments /\ IsFiniteSet(missed[a])
      /\ bucket[a].windowStartAt \in Moments /\ bucket[a].lockUntil \in 0 .. MaxTime + LoginWindow
      /\ bucket[a].count \in Nat
  BY <1>1, <1>2, BucketTyped DEF LoginsTypeOK, BucketsCount
<1>4. Cardinality(missed[a]) \in Nat
  BY <1>3, FS_CardinalityType
<1>5. bucket' = [bucket EXCEPT ![a] = Failed(bucket[a], clock)]
  <2>1. bucket[a] \in [count : Nat, windowStartAt : Moments, lockUntil : 0 .. MaxTime + LoginWindow]
    BY <1>1, <1>2 DEF LoginsTypeOK
  <2> QED BY <1>1, <1>2, <2>1 DEF RegisterFailedLogin, Failed, Stale
<1>6. Failed(bucket[a], clock) \in [count : Nat, windowStartAt : Moments, lockUntil : 0 .. MaxTime + LoginWindow]
  BY <1>3, LoginsAssumption DEF Failed, Moments
<1>7. new \in Moments \X Nat
  BY <1>3, <1>4
<1>8. LoginsTypeOK' /\ LoginsListed'
  <2> HIDE DEF new
  <2>1. missed' \in [Accounts -> SUBSET (Moments \X Nat)]
    BY <1>1, <1>2, <1>7 DEF LoginsTypeOK
  <2>2. bucket' \in [Accounts -> [count : Nat, windowStartAt : Moments, lockUntil : 0 .. MaxTime + LoginWindow]]
    BY <1>1, <1>5, <1>6 DEF LoginsTypeOK
  <2> QED BY <1>1, <2>1, <2>2 DEF LoginsTypeOK, LoginsListed
<1>9. ASSUME NEW b \in Accounts
      PROVE  IsFiniteSet(missed'[b]) /\ Throttled(bucket'[b], missed'[b], Cardinality(Flying(b)'), clock)
  <2>1. /\ Throttled(bucket[b], missed[b], Cardinality(Flying(b)), clock) /\ IsFiniteSet(missed[b])
        /\ Bucket(bucket[b]) /\ Guesses(missed[b])
    BY <1>1, BucketTyped DEF BucketsCount
  <2>2. CASE b = a
    <3>1. bucket'[a] = Failed(bucket[a], clock) /\ missed'[a] = missed[a] \cup {new}
      BY <1>1, <1>2, <1>5 DEF LoginsTypeOK
    <3>2. /\ Cardinality(Flying(a)') = Cardinality(Flying(a)) - 1
          /\ Cardinality(Flying(a)') \in Nat /\ Cardinality(Flying(a)) \in Nat
          /\ Cardinality(Flying(a)) <= Cardinality(Logging)
      <4>1. Cardinality(Flying(a)') = Cardinality(Flying(a)) - 1
        BY <1>1, <1>0, FlyingOne
      <4>2. /\ Cardinality(Flying(a)') <= Cardinality(Flying(a)) /\ Cardinality(Flying(a)') \in Nat
        BY <1>1, <1>2, FlyingLess
      <4> QED BY <4>1, <4>2, FlyingCounted
    <3>3. Cardinality(Flying(a)) \in Nat \ {0}
      BY <3>2
    <3>4. Throttled(Failed(bucket[a], clock), missed[a] \cup {new}, Cardinality(Flying(a)) - 1, clock)
      BY <1>3, <1>4, <2>1, <2>2, <3>2, <3>3, OpeningThrottled, CountingThrottled
    <3>5. IsFiniteSet(missed[a] \cup {new})
      BY <1>3, FS_AddElement
    <3> QED BY <2>2, <3>1, <3>2, <3>4, <3>5
  <2>3. CASE b # a
    <3>1. bucket'[b] = bucket[b] /\ missed'[b] = missed[b]
      BY <1>1, <1>5, <2>3 DEF LoginsTypeOK
    <3>2. Cardinality(Flying(b)') <= Cardinality(Flying(b)) /\ Cardinality(Flying(b)') \in Nat
      BY <1>1, FlyingLess
    <3> QED BY <1>3, <2>1, <3>1, <3>2, FlyingCounted, WaitThrottled
  <2> QED BY <2>2, <2>3
<1>10. BucketsCount'
  BY <1>1, <1>9 DEF BucketsCount, Throttled, WindowClosed, WindowOpen, GuessedAfter, GuessedFrom,
                    GuessedBetween, NoBucket
<1>11. UpgradesTrue' /\ PasswordKept'
  BY <1>1 DEF LoginsInv, UpgradesTrue, PasswordKept
<1> QED BY <1>8, <1>10, <1>11 DEF LoginsInv

LEMMA LoginSucceedsKeeps ==
    ASSUME LoginsInv, NEW c \in Logging, LoginSucceeds(c)
    PROVE  LoginsInv'
<1>1. PICK a \in Accounts : a = login[c].account
  BY LoginShape DEF LoginSucceeds, LoginsInv
<1> DEFINE new == [account |-> a, password |-> login[c].password]
<1>2. /\ UNCHANGED <<account, clock, chosen>>
      /\ login[c].at = "found" /\ login' = [login EXCEPT ![c] = Away]
      /\ bucket' = [bucket EXCEPT ![a] = NoBucket] /\ missed' = [missed EXCEPT ![a] = {}]
      /\ upgrade' = IF login[c].row.old THEN upgrade \cup {new} ELSE upgrade
      /\ crossed' = crossed \cup {b \in {a} : login[c].row.old /\ account[a].password # login[c].password}
      /\ LoginsTypeOK /\ LoginsListed /\ BucketsCount /\ UpgradesTrue /\ PasswordKept
  BY <1>1 DEF LoginSucceeds, LoginsInv
<1>3. new \in [account : Accounts, password : Passwords]
  <2>1. login[c].password \in Passwords
    BY <1>2, LoginShape
  <2> QED BY <2>1
<1>4. new.account = a /\ new.password = login[c].password
  OBVIOUS
<1> HIDE DEF new
<1>5. LoginsTypeOK' /\ LoginsListed'
  <2>1. NoBucket \in [count : Nat, windowStartAt : Moments, lockUntil : 0 .. MaxTime + LoginWindow]
    BY LoginsAssumption DEF NoBucket, Moments
  <2> HIDE DEF NoBucket
  <2>2. bucket' \in [Accounts -> [count : Nat, windowStartAt : Moments, lockUntil : 0 .. MaxTime + LoginWindow]]
    BY <1>2, <2>1 DEF LoginsTypeOK
  <2>3. missed' \in [Accounts -> SUBSET (Moments \X Nat)] /\ crossed' \subseteq Accounts
        /\ upgrade' \subseteq [account : Accounts, password : Passwords]
    BY <1>2, <1>3 DEF LoginsTypeOK
  <2>4. \A d \in Logging : login'[d] \in
            {Away} \cup [at : {"begun"}, account : Accounts, password : Passwords]
            \cup [at : {"found"}, account : Accounts, password : Passwords, row : Rows]
    BY <1>2 DEF LoginsTypeOK, LoginsListed
  <2> QED BY <1>2, <2>2, <2>3, <2>4 DEF LoginsTypeOK, LoginsListed
<1>6. ASSUME NEW b \in Accounts
      PROVE  IsFiniteSet(missed'[b]) /\ Throttled(bucket'[b], missed'[b], Cardinality(Flying(b)'), clock)
  <2>1. CASE b = a
    <3>1. bucket'[b] = NoBucket /\ missed'[b] = {}
      BY <1>2, <2>1 DEF LoginsTypeOK
    <3>2. GuessedAfter({}, clock - LoginWindow) = {}
      BY DEF GuessedAfter
    <3>3. WindowClosed({}, clock)
      BY <3>2, NoGuesses, LoggingCounted DEF WindowClosed
    <3> QED BY <3>1, <3>3, FS_EmptySet DEF Throttled
  <2>2. CASE b # a
    <3>1. bucket'[b] = bucket[b] /\ missed'[b] = missed[b]
      BY <1>2, <2>2 DEF LoginsTypeOK
    <3>2. Cardinality(Flying(b)') <= Cardinality(Flying(b)) /\ Cardinality(Flying(b)') \in Nat
      BY <1>2, FlyingLess
    <3>3. /\ Throttled(bucket[b], missed[b], Cardinality(Flying(b)), clock) /\ IsFiniteSet(missed[b])
          /\ Bucket(bucket[b]) /\ Guesses(missed[b]) /\ clock \in Nat
      BY <1>2, BucketTyped DEF BucketsCount
    <3> QED BY <3>1, <3>2, <3>3, FlyingCounted, WaitThrottled
  <2> QED BY <2>1, <2>2
<1>7. BucketsCount'
  BY <1>2, <1>6 DEF BucketsCount, Throttled, WindowClosed, WindowOpen, GuessedAfter, GuessedFrom,
                    GuessedBetween, NoBucket
<1>8. UpgradesTrue' /\ PasswordKept'
  BY <1>2, <1>4 DEF UpgradesTrue, PasswordKept
<1> QED BY <1>5, <1>7, <1>8 DEF LoginsInv

\* What administrators and upgrades do to rows: no bucket, login or guess moves.
LEMMA RowsMoveKeeps ==
    ASSUME LoginsInv, UNCHANGED <<bucket, login, clock, missed>>,
           account' \in [Accounts -> Rows], chosen' \in [Accounts -> Passwords],
           upgrade' \subseteq [account : Accounts, password : Passwords],
           crossed' \subseteq Accounts, UpgradesTrue', PasswordKept'
    PROVE  LoginsInv'
<1>1. LoginsTypeOK' /\ LoginsListed'
  BY DEF LoginsInv, LoginsTypeOK, LoginsListed
<1>2. BucketsCount'
  <2>1. \A a \in Accounts : Flying(a)' = Flying(a)
    BY DEF Flying
  <2> QED BY <2>1, FlyingCounted, BucketsWait DEF LoginsInv
<1> QED BY <1>1, <1>2 DEF LoginsInv

\* A row whose password is set.
LEMMA RowSet ==
    ASSUME LoginsTypeOK, NEW a \in Accounts, NEW p \in Passwords,
           account' = [account EXCEPT ![a].password = p, ![a].old = FALSE]
    PROVE  account' \in [Accounts -> Rows] /\ account'[a].password = p
           /\ \A b \in Accounts \ {a} : account'[b] = account[b]
<1>1. account[a] \in Rows /\ account \in [Accounts -> Rows]
  BY DEF LoginsTypeOK
<1>2. account'[a] = [account[a] EXCEPT !.password = p, !.old = FALSE]
  BY <1>1
<1>3. account'[a] \in Rows /\ account'[a].password = p
  BY <1>1, <1>2 DEF Rows
<1>4. account' = [b \in Accounts |-> account'[b]] /\ \A b \in Accounts \ {a} : account'[b] = account[b]
  BY <1>1
<1> QED BY <1>1, <1>3, <1>4

LEMMA UpgradeKeeps ==
    ASSUME LoginsInv, NEW u \in upgrade, UpgradeHash(u) \/ UpgradeFails(u)
    PROVE  LoginsInv'
<1>1. LoginsTypeOK /\ UpgradesTrue /\ PasswordKept
      /\ account \in [Accounts -> Rows] /\ u.account \in Accounts /\ u.password \in Passwords
  BY DEF LoginsInv, LoginsTypeOK
<1>2. /\ UNCHANGED <<bucket, login, clock, missed, chosen, crossed>> /\ upgrade' \subseteq upgrade
  BY DEF UpgradeHash, UpgradeFails
<1>3. CASE UpgradeHash(u)
  <2>1. account' = [account EXCEPT ![u.account].password = u.password, ![u.account].old = FALSE]
    BY <1>3 DEF UpgradeHash
  <2>2. /\ account' \in [Accounts -> Rows] /\ account'[u.account].password = u.password
        /\ \A b \in Accounts \ {u.account} : account'[b] = account[b]
    BY <1>1, <2>1, RowSet
  <2>3. \A b \in Accounts \ crossed : account'[b].password = account[b].password
    BY <1>1, <2>2 DEF UpgradesTrue
  <2>4. UpgradesTrue' /\ PasswordKept'
    BY <1>1, <1>2, <2>3 DEF UpgradesTrue, PasswordKept, LoginsTypeOK
  <2> QED BY <1>1, <1>2, <2>2, <2>4, RowsMoveKeeps DEF LoginsTypeOK
<1>4. CASE UpgradeFails(u)
  <2>1. account' = account
    BY <1>4 DEF UpgradeFails
  <2>2. UpgradesTrue' /\ PasswordKept'
    BY <1>1, <1>2, <2>1 DEF UpgradesTrue, PasswordKept
  <2> QED BY <1>1, <1>2, <2>1, <2>2, RowsMoveKeeps DEF LoginsTypeOK
<1> QED BY <1>3, <1>4

LEMMA SetPasswordKeeps ==
    ASSUME LoginsInv, NEW a \in Accounts, NEW p \in Passwords, SetPassword(a, p)
    PROVE  LoginsInv'
<1>1. LoginsTypeOK /\ UpgradesTrue /\ PasswordKept
  BY DEF LoginsInv
<1>2. /\ UNCHANGED <<bucket, login, upgrade, clock, missed>>
      /\ account' = [account EXCEPT ![a].password = p, ![a].old = FALSE]
      /\ chosen' = [chosen EXCEPT ![a] = p]
      /\ crossed' = IF \E u \in upgrade : u.account = a THEN crossed \cup {a} ELSE crossed \ {a}
  BY DEF SetPassword
<1>3. /\ account' \in [Accounts -> Rows] /\ account'[a].password = p
      /\ \A b \in Accounts \ {a} : account'[b] = account[b]
  BY <1>1, <1>2, RowSet
<1>4. chosen' \in [Accounts -> Passwords] /\ chosen'[a] = p
      /\ \A b \in Accounts \ {a} : chosen'[b] = chosen[b]
  BY <1>1, <1>2 DEF LoginsTypeOK
<1>5. UpgradesTrue'
  BY <1>1, <1>2, <1>3 DEF UpgradesTrue, LoginsTypeOK
<1>6. PasswordKept'
  BY <1>1, <1>2, <1>3, <1>4 DEF PasswordKept
<1> QED BY <1>1, <1>2, <1>3, <1>4, <1>5, <1>6, RowsMoveKeeps DEF LoginsTypeOK

LEMMA SetDisabledKeeps ==
    ASSUME LoginsInv, NEW a \in Accounts, NEW d \in BOOLEAN, SetDisabled(a, d)
    PROVE  LoginsInv'
<1>1. LoginsTypeOK /\ UpgradesTrue /\ PasswordKept /\ account[a] \in Rows
  BY DEF LoginsInv, LoginsTypeOK
<1>2. UNCHANGED <<bucket, login, upgrade, clock, missed, chosen, crossed>>
      /\ account' = [account EXCEPT ![a].disabled = d]
  BY DEF SetDisabled
<1>3. account' \in [Accounts -> Rows] /\ \A b \in Accounts : account'[b].password = account[b].password
  BY <1>1, <1>2 DEF LoginsTypeOK, Rows
<1>4. UpgradesTrue' /\ PasswordKept'
  BY <1>1, <1>2, <1>3 DEF UpgradesTrue, PasswordKept, LoginsTypeOK
<1> QED BY <1>1, <1>2, <1>3, <1>4, RowsMoveKeeps DEF LoginsTypeOK

LEMMA LoginTickKeeps == ASSUME LoginsInv, LoginTick PROVE LoginsInv'
<1>1. LoginsTypeOK' /\ LoginsListed'
  BY LoginsAssumption DEF LoginTick, LoginsInv, LoginsTypeOK, LoginsListed, Moments
<1>2. BucketsCount'
  <2>1. \A a \in Accounts : Flying(a)' = Flying(a)
    BY DEF LoginTick, Flying
  <2>2. UNCHANGED <<bucket, missed>> /\ clock' \in {clock, clock + 1}
    BY DEF LoginTick
  <2> QED BY <2>1, <2>2, FlyingCounted, BucketsWait
<1>3. UpgradesTrue' /\ PasswordKept'
  BY DEF LoginTick, LoginsInv, UpgradesTrue, PasswordKept
<1> QED BY <1>1, <1>2, <1>3 DEF LoginsInv

LEMMA LoginsStep == LoginsInv /\ [LoginsNext]_loginVars => LoginsInv'
<1> SUFFICES ASSUME LoginsInv, [LoginsNext]_loginVars PROVE LoginsInv'
  OBVIOUS
<1>1. CASE UNCHANGED loginVars
  <2>1. UpgradesTrue' /\ PasswordKept'
    BY <1>1 DEF loginVars, LoginsInv, UpgradesTrue, PasswordKept
  <2> QED BY <1>1, <2>1, RowsMoveKeeps DEF loginVars, LoginsInv, LoginsTypeOK
<1> QED BY <1>1, LoginBeginKeeps, LoginReadKeeps, LoginFailsKeeps, LoginSucceedsKeeps, UpgradeKeeps,
           SetPasswordKeeps, SetDisabledKeeps, LoginTickKeeps DEF LoginsNext

\* However many logins overlap at however many accounts, an account is guessed at
\* no oftener than two locks allow, and no old password comes back but the one an
\* upgrade carried across a change.
THEOREM AccountsGuardedCorrect == LoginsSpec => []AccountsGuarded
<1>1. ASSUME LoginsInv PROVE AccountsGuarded
  <2>1. ASSUME NEW a \in Accounts
        PROVE  Cardinality({g \in missed[a] : g[1] > clock - LoginWindow})
                <= 2 * LoginMaxFailures - 1 + 2 * (Cardinality(Logging) - 1)
    <3>1. /\ Throttled(bucket[a], missed[a], Cardinality(Flying(a)), clock)
          /\ Bucket(bucket[a]) /\ Guesses(missed[a]) /\ clock \in Nat
      BY <1>1, BucketTyped DEF LoginsInv, BucketsCount
    <3>2. Cardinality(GuessedAfter(missed[a], clock - LoginWindow)) <= 2 * LockAllows - 1
      BY <3>1, FlyingCounted, ThrottleBounds
    <3>3. 2 * LockAllows - 1 = 2 * LoginMaxFailures - 1 + 2 * (Cardinality(Logging) - 1)
      BY LoggingCounted
    <3> QED BY <3>2, <3>3 DEF GuessedAfter
  <2> QED BY <1>1, <2>1 DEF AccountsGuarded, GuessesBounded, LoginsInv
<1> QED BY <1>1, LoginsInvInit, LoginsStep, PTL DEF LoginsSpec
----------------------------------------------------------------------------
(***************************************************************************)
(* A remote setup is opened by a token once, and by none that was ended,   *)
(* for every number of tokens, every life of a token and of a session,     *)
(* and every limit of guesses.  What is needed beside the property:        *)
(* tokens are given in order and those to come are untouched, the          *)
(* attempts in the configuration are the guesses at the token that is      *)
(* there, and outside setup mode there is none.                            *)
(***************************************************************************)

USE SetupTokensAssumption DEF NoToken

\* What the configuration holds was made, and nothing that was not is over.
TokensMade ==
    /\ remote.token \in 0 .. made
    /\ remote.session \in 0 .. made
    /\ over \subseteq 1 .. made

\* Tokens to come have neither been guessed at nor claimed.
Untouched == \A t \in TokenIds : t > made => claims[t] = 0 /\ guesses[t] = 0

\* A token that is there has not been claimed, and its attempts are counted.
Unclaimed ==
    /\ \A t \in TokenIds : claims[t] <= 1
    /\ remote.token # NoToken =>
        /\ claims[remote.token] = 0
        /\ guesses[remote.token] = remote.attempts
        /\ remote.attempts < remote.max

\* Outside setup mode the configuration has no token and no session.
Closed == ~remote.setupMode => remote.token = NoToken /\ remote.session = NoToken

NotOver == remote.token \notin over /\ remote.session \notin over

TokensInv ==
    TokensTypeOK /\ TokensMade /\ Untouched /\ Unclaimed /\ Closed /\ NotOver

LEMMA FreshTyped ==
    ASSUME NEW b \in BOOLEAN
    PROVE  /\ Fresh(b) \in [setupMode : BOOLEAN, token : TokenIds \cup {NoToken}, until : Nat,
                            attempts : Nat, max : MaxAttempts \cup {1},
                            session : TokenIds \cup {NoToken}, sessionUntil : Nat]
           /\ Fresh(b).setupMode = b /\ Fresh(b).token = NoToken /\ Fresh(b).session = NoToken
BY DEF Fresh, TokenIds

LEMMA TokensInvInit == TokensInit => TokensInv
<1> SUFFICES ASSUME TokensInit PROVE TokensInv
  OBVIOUS
<1>1. remote = Fresh(TRUE)
  BY DEF TokensInit
<1>2. TokensTypeOK
  <2>1. remote \in [setupMode : BOOLEAN, token : TokenIds \cup {NoToken}, until : Nat,
                    attempts : Nat, max : MaxAttempts \cup {1},
                    session : TokenIds \cup {NoToken}, sessionUntil : Nat]
    BY <1>1, FreshTyped
  <2>2. guesses \in [TokenIds -> Nat] /\ claims \in [TokenIds -> Nat]
    BY DEF TokensInit
  <2>3. made \in 0 .. SetupTokensMade /\ hour \in Hours
    <3>1. made = 0 /\ hour = 0
      BY DEF TokensInit
    <3>2. SetupTokensMade \in Nat /\ TokenTime \in Nat
      OBVIOUS
    <3> QED BY ONLY <3>1, <3>2 DEF Hours
  <2> QED BY <2>1, <2>2, <2>3 DEF TokensInit, TokensTypeOK
<1>3. remote.token = 0 /\ remote.session = 0
  BY <1>1, FreshTyped
<1>4. \A t \in TokenIds : claims[t] = 0 /\ guesses[t] = 0
  BY DEF TokensInit
<1>5. TokensMade /\ Closed /\ NotOver
  <2>1. made = 0 /\ over = {}
    BY DEF TokensInit
  <2> QED BY ONLY <1>3, <2>1 DEF NoToken, TokensMade, Closed, NotOver
<1>6. Untouched /\ Unclaimed
  BY <1>3, <1>4 DEF Untouched, Unclaimed
<1> QED BY <1>2, <1>5, <1>6 DEF TokensInv

\* Whatever empties the configuration and ends all that was made keeps it.
LEMMA Emptied ==
    ASSUME TokensInv, NEW b \in BOOLEAN, remote' = Fresh(b), over' = over \cup 1 .. made,
           visiting' \subseteq TokenIds, UNCHANGED <<made, hour, guesses, claims>>
    PROVE  TokensInv'
<1> USE DEF TokensInv
<1>1. TokensTypeOK'
  BY FreshTyped DEF TokensTypeOK, TokenIds
<1>2. TokensMade' /\ Closed' /\ NotOver'
  BY FreshTyped DEF TokensMade, Closed, NotOver, TokensTypeOK
<1>3. Untouched' /\ Unclaimed'
  BY FreshTyped DEF Untouched, Unclaimed
<1> QED BY <1>1, <1>2, <1>3

LEMMA CreateKeeps ==
    ASSUME TokensInv, NEW ttl \in TokenTtls, NEW max \in MaxAttempts,
           CreateRemoteSetupToken(ttl, max)
    PROVE  TokensInv'
<1>1. /\ made' = made + 1 /\ made < SetupTokensMade /\ over' = over \cup 1 .. made
      /\ UNCHANGED <<hour, visiting, guesses, claims>>
  BY DEF CreateRemoteSetupToken
<1>2. made \in Nat /\ made' \in TokenIds /\ made' # 0
  BY <1>1 DEF TokensInv, TokensTypeOK, TokenIds
<1>3. /\ max \in Nat \ {0} /\ hour + ttl \in Nat
  <2>1. hour \in Nat /\ ttl \in Nat
    BY DEF TokensInv, TokensTypeOK, Hours
  <2> QED BY <2>1
<1>4. remote' = [setupMode |-> TRUE, token |-> made', until |-> hour + ttl, attempts |-> 0,
                 max |-> max, session |-> NoToken, sessionUntil |-> 0]
  BY DEF CreateRemoteSetupToken, Fresh
<1> HIDE DEF NoToken
<1>5. TokensTypeOK'
  <2>1. remote' \in [setupMode : BOOLEAN, token : TokenIds \cup {NoToken}, until : Nat,
                     attempts : Nat, max : MaxAttempts \cup {1},
                     session : TokenIds \cup {NoToken}, sessionUntil : Nat]
    BY <1>2, <1>3, <1>4
  <2>2. over' \subseteq TokenIds
    BY <1>1 DEF TokensInv, TokensTypeOK, TokenIds
  <2>3. made' \in 0 .. SetupTokensMade
    BY <1>1, <1>2
  <2>4. /\ hour \in Hours /\ visiting \subseteq TokenIds
        /\ guesses \in [TokenIds -> Nat] /\ claims \in [TokenIds -> Nat]
    BY DEF TokensInv, TokensTypeOK
  <2> QED BY <1>1, <2>1, <2>2, <2>3, <2>4 DEF TokensTypeOK, TokenIds, Hours
<1> USE DEF NoToken
<1>6. /\ remote'.setupMode = TRUE /\ remote'.token = made' /\ remote'.session = 0
      /\ remote'.attempts = 0 /\ remote'.max = max
  BY <1>4
<1>7. over \subseteq 1 .. made
  BY DEF TokensInv, TokensMade
<1>8. TokensMade' /\ Closed' /\ NotOver'
  BY <1>1, <1>2, <1>6, <1>7 DEF TokensMade, Closed, NotOver
<1>9. claims[made'] = 0 /\ guesses[made'] = 0
  BY <1>1, <1>2 DEF TokensInv, Untouched
<1>10. Untouched'
  BY <1>1, <1>2 DEF TokensInv, Untouched, TokenIds
<1>11. Unclaimed'
  BY <1>1, <1>3, <1>6, <1>9 DEF TokensInv, Unclaimed, TokenIds
<1> QED BY <1>5, <1>8, <1>10, <1>11 DEF TokensInv

\* A claim, in time or not, with the token or with a guess.
LEMMA ClaimKeeps ==
    ASSUME TokensInv, ClaimExpired \/ ClaimWrong \/ ClaimRemoteSetupToken
    PROVE  TokensInv'
<1> USE DEF TokensInv
<1>1. remote.token \in TokenIds /\ remote.token # NoToken
  BY DEF ClaimExpired, ClaimWrong, ClaimRemoteSetupToken, Claimable, TokensTypeOK
<1>2. CASE ClaimExpired
  <2>1. TokensTypeOK'
    BY <1>2 DEF ClaimExpired, TokensTypeOK
  <2>2. (TokensMade /\ Untouched /\ Unclaimed /\ Closed /\ NotOver)'
    BY <1>2 DEF ClaimExpired, TokensTypeOK, TokensMade, Untouched, Unclaimed, Closed, NotOver, TokenIds
  <2> QED BY <2>1, <2>2
<1>3. CASE ClaimWrong
  <2>1. TokensTypeOK'
    <3>1. remote' \in [setupMode : BOOLEAN, token : TokenIds \cup {NoToken}, until : Nat,
                       attempts : Nat, max : MaxAttempts \cup {1},
                       session : TokenIds \cup {NoToken}, sessionUntil : Nat]
      <4> DEFINE n == remote.attempts + 1
                 left == IF n >= remote.max THEN NoToken ELSE remote.token
      <4>1. n \in Nat /\ left \in TokenIds \cup {NoToken}
        BY <1>1 DEF TokensTypeOK
      <4>2. remote' = [remote EXCEPT !.attempts = n, !.token = left]
        BY <1>3 DEF ClaimWrong, TokensTypeOK
      <4> HIDE DEF n, left
      <4> QED BY <4>1, <4>2 DEF TokensTypeOK
    <3>2. guesses' \in [TokenIds -> Nat]
      BY <1>1, <1>3 DEF ClaimWrong, TokensTypeOK
    <3> QED BY <1>3, <3>1, <3>2 DEF ClaimWrong, TokensTypeOK
  <2>2. TokensMade' /\ Closed' /\ NotOver'
    BY <1>3 DEF ClaimWrong, TokensTypeOK, TokensMade, Closed, NotOver, TokenIds
  <2>3. Untouched'
    BY <1>1, <1>3 DEF ClaimWrong, TokensTypeOK, TokensMade, Untouched, TokenIds
  <2>4. Unclaimed'
    BY <1>1, <1>3 DEF ClaimWrong, TokensTypeOK, Unclaimed, TokenIds
  <2> QED BY <2>1, <2>2, <2>3, <2>4
<1>4. CASE ClaimRemoteSetupToken
  <2>1. TokensTypeOK'
    <3>1. remote' \in [setupMode : BOOLEAN, token : TokenIds \cup {NoToken}, until : Nat,
                       attempts : Nat, max : MaxAttempts \cup {1},
                       session : TokenIds \cup {NoToken}, sessionUntil : Nat]
      <4>1. hour + SessionTtl \in Nat
        BY DEF TokensTypeOK, Hours
      <4>2. remote' = [setupMode |-> remote.setupMode, token |-> NoToken, until |-> remote.until,
                       attempts |-> 0, max |-> remote.max, session |-> remote.token,
                       sessionUntil |-> hour + SessionTtl]
        BY <1>4 DEF ClaimRemoteSetupToken, TokensTypeOK
      <4> HIDE DEF NoToken
      <4> QED BY <1>1, <4>1, <4>2 DEF TokensTypeOK
    <3>2. claims' \in [TokenIds -> Nat]
      BY <1>1, <1>4 DEF ClaimRemoteSetupToken, TokensTypeOK
    <3> QED BY <1>4, <3>1, <3>2 DEF ClaimRemoteSetupToken, TokensTypeOK
  <2>2. TokensMade' /\ Closed' /\ NotOver'
    BY <1>4 DEF ClaimRemoteSetupToken, Claimable, TokensTypeOK, TokensMade, Closed, NotOver, TokenIds
  <2>3. Untouched'
    BY <1>1, <1>4 DEF ClaimRemoteSetupToken, TokensTypeOK, TokensMade, Untouched, TokenIds
  <2>4. Unclaimed'
    BY <1>1, <1>4 DEF ClaimRemoteSetupToken, TokensTypeOK, Unclaimed, TokenIds
  <2> QED BY <2>1, <2>2, <2>3, <2>4
<1> QED BY <1>2, <1>3, <1>4

LEMMA SessionKeeps ==
    ASSUME TokensInv, SessionExpired \/ \E t \in TokenIds : AssertSetupAccess(t)
    PROVE  TokensInv'
<1> USE DEF TokensInv
<1>1. CASE SessionExpired
  <2>1. TokensTypeOK'
    BY <1>1 DEF SessionExpired, TokensTypeOK
  <2>2. (TokensMade /\ Untouched /\ Unclaimed /\ Closed /\ NotOver)'
    BY <1>1 DEF SessionExpired, TokensTypeOK, TokensMade, Untouched, Unclaimed, Closed, NotOver, TokenIds
  <2> QED BY <2>1, <2>2
<1>2. ASSUME NEW t \in TokenIds, AssertSetupAccess(t) PROVE TokensInv'
  BY <1>2 DEF AssertSetupAccess, TokensTypeOK, TokensMade, Untouched, Unclaimed, Closed, NotOver
<1> QED BY <1>1, <1>2

LEMMA TokensInvStep == TokensInv /\ [TokensNext]_tokenVars => TokensInv'
<1> SUFFICES ASSUME TokensInv, [TokensNext]_tokenVars PROVE TokensInv'
  OBVIOUS
<1>1. visiting \subseteq TokenIds /\ remote.setupMode \in BOOLEAN
  BY DEF TokensInv, TokensTypeOK
<1>2. CASE RevokeRemoteSetupToken
  BY <1>1, <1>2, Emptied DEF RevokeRemoteSetupToken
<1>3. CASE SetupFinished
  BY <1>1, <1>3, Emptied DEF SetupFinished
<1>4. CASE SetupReset
  BY <1>1, <1>4, Emptied DEF SetupReset
<1>5. ASSUME NEW t \in TokenIds, VisitEnds(t) PROVE TokensInv'
  <2>1. visiting' \subseteq TokenIds /\ UNCHANGED <<made, hour, guesses, claims>>
    BY <1>1, <1>5 DEF VisitEnds
  <2>2. CASE UNCHANGED <<remote, over>>
    BY <2>1, <2>2 DEF TokensInv, TokensTypeOK, TokensMade, Untouched, Unclaimed, Closed, NotOver
  <2>3. CASE remote' = Fresh(FALSE) /\ over' = over \cup 1 .. made
    BY <2>1, <2>3, Emptied
  <2> QED BY <1>5, <2>2, <2>3 DEF VisitEnds
<1>6. CASE HourPasses
  BY <1>6 DEF HourPasses, TokensInv, TokensTypeOK, TokensMade, Untouched, Unclaimed, Closed,
              NotOver, Hours
<1>7. CASE UNCHANGED tokenVars
  BY <1>7 DEF tokenVars, TokensInv, TokensTypeOK, TokensMade, Untouched, Unclaimed, Closed, NotOver
<1> QED BY <1>2, <1>3, <1>4, <1>5, <1>6, <1>7, CreateKeeps, ClaimKeeps, SessionKeeps
        DEF TokensNext

\* The type invariant of remote setups.
THEOREM TokensTyped == TokensSpec => []TokensTypeOK
<1>1. TokensInv => TokensTypeOK
  BY DEF TokensInv
<1> QED BY <1>1, TokensInvInit, TokensInvStep, PTL DEF TokensSpec

\* A token gives one session at most and is guessed at no more than allowed;
\* once ended, neither it nor its session opens a setup again.
THEOREM TokensEndCorrect == TokensSpec => []TokensEnd
<1>1. TokensInv => TokensEnd
  BY DEF TokensInv, TokensEnd, OneTime, EndedForGood, Claimable, Unclaimed, NotOver
<1> QED BY <1>1, TokensInvInit, TokensInvStep, PTL DEF TokensSpec

HIDE SetupTokensAssumption DEF NoToken

----------------------------------------------------------------------------
(***************************************************************************)
(* A scan asks every address once and answers with the quickest of the     *)
(* servers that were healthy, for every number of addresses and of answers *)
(* wanted, and every size of the pool.                                     *)
(* That a healthy server is among the results is so only in the end: on    *)
(* the way it may be with the worker that reads its details.               *)
(***************************************************************************)

USE DiscoveryAssumption

Begun(w) == worker[w].at \in {"health", "info"}

ProbedOnce == \A i \in Positions : probes[i] = IF i < index THEN 1 ELSE 0

WorkersPlaced ==
    \A w \in Workers :
        /\ Begun(w) => worker[w].on \in Positions
        /\ worker[w].at = "info" => worker[w].on \in healthy
        /\ worker[w].at \in {"finished", "answered"} => index = Targets + 1

\* A healthy server is among the results, or with a worker.
ResultsHealthy ==
    /\ \A i \in Positions : result[i] # 0 => i \in healthy
    /\ \A i \in healthy :
         result[i] # 0 \/ \E w \in Workers : worker[w] = Waiting("info", i)

\* What is answered is healthy, and nothing quicker was left out.
ToldQuickest ==
    /\ found \subseteq healthy /\ Cardinality(found) <= MaxResults
    /\ \A i \in healthy \ found :
         Cardinality(found) = MaxResults /\ \A j \in found : result[j] <= result[i]

\* Nobody is answered before all are, and with what was found.
AnsweredTogether ==
    (\E w \in Workers : worker[w].at = "answered") =>
        ToldQuickest /\ \A w \in Workers : worker[w].at = "answered"

ScanTyped ==
    /\ index \in 1 .. Targets + 1
    /\ worker \in [Workers -> [at : {"start", "health", "info", "finished", "answered"},
                               on : 0 .. Targets]]
    /\ result \in [Positions -> Latencies \cup {0}]
    /\ found \subseteq Positions
    /\ probes \in [Positions -> Nat]
    /\ healthy \subseteq Positions

ScanInv ==
    ScanTyped /\ ProbedOnce /\ WorkersPlaced /\ ResultsHealthy /\ AnsweredTogether

LEMMA ScanInvInit == DiscoveryInit => ScanInv
<1> SUFFICES ASSUME DiscoveryInit PROVE ScanInv
  OBVIOUS
<1>1. ScanTyped
  BY DEF DiscoveryInit, ScanTyped, NotStarted, Waiting, Positions
<1>2. ProbedOnce
  BY DEF DiscoveryInit, ProbedOnce, Positions
<1>3. WorkersPlaced /\ ResultsHealthy /\ AnsweredTogether
  BY DEF DiscoveryInit, WorkersPlaced, ResultsHealthy, AnsweredTogether, Begun, NotStarted, Waiting
<1> QED BY <1>1, <1>2, <1>3 DEF ScanInv

\* A worker that takes the next address, or is through: the types, the probes,
\* and where the workers are.
LEMMA TakeNextKeeps ==
    ASSUME ScanTyped, ProbedOnce, WorkersPlaced, NEW w \in Workers,
           worker[w].at \in {"start", "health", "info"}, TakeNext(w)
    PROVE  /\ index' \in 1 .. Targets + 1 /\ probes' \in [Positions -> Nat]
           /\ worker' \in [Workers -> [at : {"start", "health", "info", "finished", "answered"},
                                       on : 0 .. Targets]]
           /\ ProbedOnce'
           /\ \A v \in Workers : v # w => worker'[v] = worker[v]
           /\ worker'[w].at \in {"health", "finished"}
           /\ worker'[w].at = "health" => worker'[w].on \in Positions
           /\ worker'[w].at = "finished" => index' = Targets + 1
           /\ index = Targets + 1 => index' = Targets + 1
<1>1. CASE index > Targets
  BY <1>1 DEF TakeNext, ScanTyped, Finished, Waiting, ProbedOnce
<1>2. CASE ~(index > Targets)
  <2>1. index \in Positions /\ index' = index + 1
    BY <1>2 DEF TakeNext, ScanTyped, Positions
  <2>2. probes' = [probes EXCEPT ![index] = @ + 1]
    BY <1>2 DEF TakeNext
  <2>3. worker' = [worker EXCEPT ![w] = [at |-> "health", on |-> index]]
    BY <1>2 DEF TakeNext, Waiting
  <2>4. probes' \in [Positions -> Nat]
    BY <2>1, <2>2 DEF ScanTyped
  <2>5. ProbedOnce'
    BY <2>1, <2>2 DEF ScanTyped, ProbedOnce, Positions
  <2>6. worker' \in [Workers -> [at : {"start", "health", "info", "finished", "answered"},
                                 on : 0 .. Targets]]
    BY <2>1, <2>3 DEF ScanTyped, Positions
  <2> QED BY <2>1, <2>3, <2>4, <2>5, <2>6, <1>2 DEF ScanTyped, Positions
<1> QED BY <1>1, <1>2

\* A worker on its way sees no answer given.
LEMMA NoneAnswered ==
    ASSUME AnsweredTogether, NEW w \in Workers, worker[w].at \in {"start", "health", "info"}
    PROVE  \A v \in Workers : worker[v].at # "answered"
BY DEF AnsweredTogether

\* Not started, or not healthy: another address.
LEMMA GoOnKeeps ==
    ASSUME ScanInv, NEW w \in Workers, StartWorker(w) \/ HealthFails(w)
    PROVE  ScanInv'
<1> USE DEF ScanInv
<1>1. worker[w].at \in {"start", "health"} /\ TakeNext(w) /\ UNCHANGED <<result, found, healthy>>
  BY DEF StartWorker, HealthFails, NotStarted, Waiting
<1>2. ScanTyped' /\ ProbedOnce'
  BY <1>1, TakeNextKeeps DEF ScanTyped
<1>3. WorkersPlaced'
  BY <1>1, TakeNextKeeps DEF WorkersPlaced, Begun
<1>4. ResultsHealthy'
  <2>1. ASSUME NEW i \in healthy, NEW v \in Workers, worker[v] = Waiting("info", i)
        PROVE  worker'[v] = Waiting("info", i)
    <3>1. v # w
      BY <1>1, <2>1 DEF Waiting
    <3> QED BY <1>1, <2>1, <3>1, TakeNextKeeps
  <2> QED BY <1>1, <2>1 DEF ResultsHealthy
<1>5. AnsweredTogether'
  <2>1. \A v \in Workers : worker'[v].at # "answered"
    BY <1>1, NoneAnswered, TakeNextKeeps
  <2> QED BY <2>1 DEF AnsweredTogether
<1> QED BY <1>2, <1>3, <1>4, <1>5

LEMMA HealthOkKeeps ==
    ASSUME ScanInv, NEW w \in Workers, HealthOk(w)
    PROVE  ScanInv'
<1> USE DEF ScanInv
<1> DEFINE i == worker[w].on
<1>1. /\ worker[w].at = "health" /\ i \in Positions /\ healthy' = healthy \cup {i}
      /\ UNCHANGED <<index, result, found, probes>>
  BY DEF HealthOk, WorkersPlaced, Begun
<1>2. worker' = [worker EXCEPT ![w] = Waiting("info", i)]
  <2>1. worker' = [worker EXCEPT ![w].at = "info"]
    BY DEF HealthOk
  <2>2. worker[w] \in [at : {"start", "health", "info", "finished", "answered"}, on : 0 .. Targets]
    BY DEF ScanTyped
  <2>3. [worker[w] EXCEPT !.at = "info"] = Waiting("info", i)
    BY <2>2 DEF Waiting
  <2> QED BY <2>1, <2>3
<1>3. worker'[w] = Waiting("info", i) /\ \A v \in Workers : v # w => worker'[v] = worker[v]
  BY <1>2 DEF ScanTyped
<1> HIDE DEF i
<1>4. ScanTyped' /\ ProbedOnce'
  BY <1>1, <1>2 DEF ScanTyped, ProbedOnce, Waiting, Positions
<1>5. WorkersPlaced'
  BY <1>1, <1>3 DEF WorkersPlaced, Begun, Waiting
<1>6. ResultsHealthy'
  <2>1. ASSUME NEW j \in healthy', result'[j] = 0
        PROVE  \E v \in Workers : worker'[v] = Waiting("info", j)
    <3>1. CASE j = i
      BY <1>3, <3>1
    <3>2. CASE j # i
      <4>1. PICK v \in Workers : worker[v] = Waiting("info", j)
        BY <1>1, <2>1, <3>2 DEF ResultsHealthy
      <4>2. v # w
        BY <1>1, <4>1 DEF Waiting
      <4> QED BY <1>3, <4>1, <4>2
    <3> QED BY <3>1, <3>2
  <2> QED BY <1>1, <2>1 DEF ResultsHealthy
<1>7. AnsweredTogether'
  <2>1. \A v \in Workers : worker'[v].at # "answered"
    BY <1>1, <1>3, NoneAnswered DEF Waiting
  <2> QED BY <2>1 DEF AnsweredTogether
<1> QED BY <1>4, <1>5, <1>6, <1>7

LEMMA InfoEndsKeeps ==
    ASSUME ScanInv, NEW w \in Workers, NEW latency \in Latencies, InfoEnds(w, latency)
    PROVE  ScanInv'
<1> USE DEF ScanInv
<1> DEFINE i == worker[w].on
<1>1. /\ worker[w].at = "info" /\ TakeNext(w) /\ i \in Positions /\ i \in healthy
      /\ result' = [result EXCEPT ![i] = latency] /\ UNCHANGED <<found, healthy>>
  BY DEF InfoEnds, WorkersPlaced, Begun
<1> HIDE DEF i
<1>2. ScanTyped' /\ ProbedOnce'
  BY <1>1, TakeNextKeeps DEF ScanTyped
<1>3. WorkersPlaced'
  BY <1>1, TakeNextKeeps DEF WorkersPlaced, Begun
<1>4. result'[i] # 0 /\ \A j \in Positions : j # i => result'[j] = result[j]
  BY <1>1 DEF ScanTyped
<1>5. ResultsHealthy'
  <2>1. ASSUME NEW j \in healthy', result'[j] = 0
        PROVE  \E v \in Workers : worker'[v] = Waiting("info", j)
    <3>1. j # i /\ j \in healthy /\ j \in Positions
      BY <1>1, <1>4, <2>1 DEF ScanTyped
    <3>2. PICK v \in Workers : worker[v] = Waiting("info", j)
      BY <1>4, <2>1, <3>1 DEF ResultsHealthy
    <3>3. v # w
      BY <3>1, <3>2 DEF Waiting, i
    <3> QED BY <1>1, <3>2, <3>3, TakeNextKeeps
  <2> QED BY <1>1, <1>4, <2>1 DEF ResultsHealthy
<1>6. AnsweredTogether'
  <2>1. \A v \in Workers : worker'[v].at # "answered"
    BY <1>1, NoneAnswered, TakeNextKeeps
  <2> QED BY <2>1 DEF AnsweredTogether
<1> QED BY <1>2, <1>3, <1>5, <1>6

\* All workers are through: no healthy server is with one of them any more.
LEMMA ScanEndsKeeps ==
    ASSUME ScanInv, ScanEnds
    PROVE  ScanInv'
<1> USE DEF ScanInv, ScanEnds
<1>1. \A w \in Workers : worker[w].at = "finished" /\ worker'[w].at = "answered"
  BY DEF Finished, Waiting
<1>2. PICK first \in SUBSET Servers : IsFirst(first) /\ found' = first
  OBVIOUS
<1>3. Servers = healthy
  <2>1. \A w \in Workers, i \in healthy : worker[w] # Waiting("info", i)
    BY <1>1 DEF Waiting
  <2> QED BY <2>1 DEF ResultsHealthy, ScanTyped, Servers
<1>4. ToldQuickest'
  <2>1. IsFiniteSet(Servers) /\ Cardinality(Servers) \in Nat
    <3>1. IsFiniteSet(Positions)
      BY FS_Interval DEF Positions
    <3>2. Servers \in SUBSET Positions
      BY DEF Servers
    <3> QED BY <3>1, <3>2, FS_Subset, FS_CardinalityType
  <2>2. Cardinality(first) <= MaxResults
    BY <1>2, <2>1 DEF IsFirst
  <2>3. ASSUME NEW i \in Servers \ first PROVE Cardinality(first) = MaxResults
    <3>1. Cardinality(first) # Cardinality(Servers)
      BY <2>1, <2>3, FS_Subset
    <3> QED BY <1>2, <3>1 DEF IsFirst
  <2>4. ASSUME NEW i \in Servers \ first, NEW j \in first PROVE result[j] <= result[i]
    <3>1. Before(j, i)
      BY <1>2, <2>4 DEF IsFirst
    <3>2. result[i] \in Nat /\ result[j] \in Nat
      BY <2>4 DEF Servers, ScanTyped
    <3> QED BY <3>1, <3>2 DEF Before
  <2> QED BY <1>2, <1>3, <2>2, <2>3, <2>4 DEF ToldQuickest
<1>5. ScanTyped'
  BY <1>2 DEF ScanTyped, Waiting, Servers
<1>6. ProbedOnce' /\ WorkersPlaced' /\ AnsweredTogether'
  BY <1>1, <1>4 DEF ProbedOnce, WorkersPlaced, AnsweredTogether, Begun
<1>7. ResultsHealthy'
  BY <1>1 DEF ResultsHealthy, Waiting
<1> QED BY <1>5, <1>6, <1>7

LEMMA ScanInvStep == ScanInv /\ [DiscoveryNext]_scanVars => ScanInv'
<1> SUFFICES ASSUME ScanInv, [DiscoveryNext]_scanVars PROVE ScanInv'
  OBVIOUS
<1>1. CASE DiscoveryNext
  BY <1>1, GoOnKeeps, HealthOkKeeps, InfoEndsKeeps, ScanEndsKeeps DEF DiscoveryNext
<1>2. CASE UNCHANGED scanVars
  BY <1>2 DEF scanVars, ScanInv, ScanTyped, ProbedOnce, WorkersPlaced, ResultsHealthy,
              AnsweredTogether, ToldQuickest, Begun
<1> QED BY <1>1, <1>2

\* However the answers interleave, every address is asked once, and the scan
\* ends with the servers that answered or, when they are more than wanted, with
\* that many of the quickest: discoverRemoteServers() of SetupService.
THEOREM ScanCorrect == DiscoverySpec => []ScanComplete
<1>1. ScanInv => ScanComplete
  BY DEF ScanInv, ScanComplete, ProbedOnce, WorkersPlaced, AnsweredTogether, ToldQuickest
<1> QED BY <1>1, ScanInvInit, ScanInvStep, PTL DEF DiscoverySpec

HIDE DiscoveryAssumption

----------------------------------------------------------------------------
(***************************************************************************)
(* The scanner of a migration stays within its text.                       *)
(***************************************************************************)

SplitTyped == SplitTypeOK /\ \E n \in 0 .. MaxText : text \in [1 .. n -> Letters]

LEMMA SplitTypedInit == SplitInit => SplitTyped
<1> SUFFICES ASSUME SplitInit PROVE SplitTyped
  OBVIOUS
<1>1. at = 1 /\ 1 \in 1 .. MaxText + 2
  BY SqlSplitAssumption DEF SplitInit
<1>2. inside \in Places /\ wholeRead \in BOOLEAN
  BY DEF SplitInit, Places
<1>3. \E n \in 0 .. MaxText : text \in [1 .. n -> Letters]
  <2>1. text \in UNION {[1 .. n -> Letters] : n \in 0 .. MaxText}
    BY DEF SplitInit
  <2> QED BY <2>1
<1> QED BY <1>1, <1>2, <1>3 DEF SplitTyped, SplitTypeOK

LEMMA SplitTypedStep == SplitTyped /\ [SplitNext]_splitVars => SplitTyped'
<1> SUFFICES ASSUME SplitTyped, [SplitNext]_splitVars PROVE SplitTyped'
  OBVIOUS
<1>1. PICK n \in 0 .. MaxText : text \in [1 .. n -> Letters]
  BY DEF SplitTyped
<1>2. n \in Nat /\ MaxText \in Nat /\ n <= MaxText /\ Len(text) = n
  BY <1>1, SqlSplitAssumption
<1>3. SplitTypeOK
  BY DEF SplitTyped
<1>4. ASSUME NEW k \in 1 .. 2, NEW place \in Places, NEW piece, at <= Len(text), Scan(k, place, piece)
      PROVE  SplitTyped'
  <2>1. at + k \in 1 .. MaxText + 2
    BY <1>2, <1>3, <1>4 DEF SplitTypeOK
  <2> QED BY <1>1, <1>3, <1>4, <2>1 DEF Scan, SplitTyped, SplitTypeOK
<1>5. ASSUME at <= Len(text), Comment PROVE SplitTyped'
  BY <1>4, <1>5 DEF Comment, Places
<1>6. ASSUME at <= Len(text), OpenComment PROVE SplitTyped'
  BY <1>4, <1>6 DEF OpenComment, Places
<1>7. ASSUME at <= Len(text), Quote PROVE SplitTyped'
  <2>1. inside \in Places /\ Char(at) \in Places /\ "code" \in Places
    BY <1>3, <1>7 DEF Quote, Places, SplitTypeOK
  <2>2. CASE inside = Char(at) /\ Char(at + 1) = Char(at)
    <3>1. Scan(2, inside, <<at, at + 1>>)
      BY <1>7, <2>2 DEF Quote
    <3> QED BY <1>4, <1>7, <2>1, <3>1
  <2>3. CASE ~(inside = Char(at) /\ Char(at + 1) = Char(at))
    <3>1. Scan(1, IF inside = "code" THEN Char(at) ELSE "code", One)
      BY <1>7, <2>3 DEF Quote
    <3>2. (IF inside = "code" THEN Char(at) ELSE "code") \in Places
      BY <2>1
    <3> QED BY <1>4, <1>7, <3>1, <3>2
  <2> QED BY <2>2, <2>3
<1>8. ASSUME at <= Len(text), Semicolon PROVE SplitTyped'
  <2>1. at + 1 \in 1 .. MaxText + 2
    BY <1>2, <1>3, <1>8 DEF SplitTypeOK
  <2> QED BY <1>1, <1>3, <1>8, <2>1 DEF Semicolon, SplitTyped, SplitTypeOK
<1>9. ASSUME Other PROVE SplitTyped'
  <2>1. inside \in Places /\ at <= Len(text) /\ Scan(1, inside, One)
    BY <1>3, <1>9 DEF Other, SplitTypeOK
  <2> QED BY <1>4, <2>1
<1>10. ASSUME EndOfText PROVE SplitTyped'
  BY <1>1, <1>3, <1>10 DEF EndOfText, SplitTyped, SplitTypeOK
<1>11. CASE UNCHANGED splitVars
  BY <1>1, <1>3, <1>11 DEF splitVars, SplitTyped, SplitTypeOK
<1> QED BY <1>5, <1>6, <1>7, <1>8, <1>9, <1>10, <1>11 DEF SplitNext

----------------------------------------------------------------------------
(***************************************************************************)
(* The services side by side: whichever moves, each keeps its invariant.   *)
(***************************************************************************)

AccountsInv == LoginsInv /\ SessionsTypeOK /\ GuardInv
StoresInv == AttachmentsInv /\ DocumentsInv
TrafficInv == RateInv /\ CustomersInv /\ SplitTyped
RemoteInv == TokensInv /\ ScanInv
ServicesInv == AccountsInv /\ StoresInv /\ TrafficInv /\ RemoteInv

LEMMA ServicesInitial == Init => ServicesInv
BY LoginsInvInit, GuardInit, SessionsTypedInit, AttachmentsInvInit, DocumentsInvInit, RateInvInit,
   CustomersInvInit, SplitTypedInit, TokensInvInit, ScanInvInit
   DEF Init, ServicesInv, AccountsInv, StoresInv, TrafficInv, RemoteInv

\* A step of the whole is one of each part, or leaves it as it is.
LEMMA ServicesMove ==
    ASSUME [Next]_vars
    PROVE  /\ [LoginsNext]_loginVars /\ [SessionsNext]_sessionVars
           /\ [AttachmentsNext]_attachmentVars /\ [DocumentsNext]_documentVars
           /\ [TokensNext]_tokenVars /\ [RateNext]_rateVars /\ [DiscoveryNext]_scanVars
           /\ [CustomersNext]_customerVars /\ [SplitNext]_splitVars
BY DEF Next, vars, Logs, Guards, Attaches, Edited, Authorises, Limits, Scans, Recognises, Cuts

LEMMA ServicesKept == ServicesInv /\ [Next]_vars => ServicesInv'
BY ServicesMove, LoginsStep, GuardStep, SessionsTypedStep, AttachmentsStep, DocumentsStep,
   RateStep, CustomersStep, SplitTypedStep, TokensInvStep, ScanInvStep
   DEF ServicesInv, AccountsInv, StoresInv, TrafficInv, RemoteInv, GuardInv

\* Every service of the run keeps to its types, whoever moves.
THEOREM ServicesTyped == Spec => []TypesOK
<1>1. ServicesInv => TypesOK
  BY DEF ServicesInv, AccountsInv, StoresInv, TrafficInv, RemoteInv, TypesOK, LoginsInv, AttachmentsInv,
         DocumentsInv, RateInv, CustomersInv, SplitTyped, TokensInv, ScanInv, ScanTyped, DiscoveryTypeOK
<1> QED BY <1>1, ServicesInitial, ServicesKept, PTL DEF Spec
=============================================================================
