----------------------------- MODULE UsersPanel -----------------------------
(***************************************************************************)
(* The users' tab of the dashboard: the list of accounts, the form that    *)
(* patches the selected one, and its notes.  The form is filled anew by an   *)
(* effect whenever the selection or the list changes; the notes are asked  *)
(* for when the selection or the tab does.  Nothing on the tab waits for   *)
(* what is on its way, and answers are applied in the order they arrive.   *)
(*                                                                         *)
(* Of an account there are its lock and its password; e-mail, name, role   *)
(* and telephone are sent and filled like the lock.                        *)
(***************************************************************************)
EXTENDS Naturals, Sequences, SequencesExt

CONSTANTS Accounts,   \* accounts there may be
          MaxDeeds    \* bound on what the administrators do

ASSUME UsersPanelAssumption == "nobody" \notin Accounts /\ MaxDeeds \in Nat

VARIABLES
    locked,       \* the accounts of the backend: whether each is disabled
    password,     \* auxiliary: the account the password of each was typed for
    users,        \* users: the list, as locked
    usersLoading, \* usersLoading: no list on the screen
    chosen,       \* selectedUserId
    editingUser,  \* editingUser: auxiliary in it is whether its lock was set
    notesOf,      \* the account whose notes userNotes are
    noteText,     \* whether something is typed in userNoteText
    astray,       \* auxiliary: requests for notes met, failed, or are of another
    onUsers,      \* activeNav is the users' tab
    lists,        \* lists on their way, with the selection of their render
    creations,    \* accounts on their way to be created
    patches,      \* saves of the form on their way
    noteAsks,     \* requests for notes on their way, by account
    noteAdds,     \* new notes on their way, by account
    deeds         \* what the administrators have done so far

accountVars == <<locked, password>>
shownVars == <<users, chosen, editingUser>>
noteVars == <<notesOf, noteText, astray, noteAsks, noteAdds>>
requestVars == <<lists, usersLoading, creations, patches>>
usersVars == <<accountVars, shownVars, noteVars, requestVars, onUsers, deeds>>

Nobody == "nobody"
NoUsers == << >>
NothingEdited == << >>
LockLists == UNION {[s -> BOOLEAN] : s \in SUBSET Accounts}
EditForms == [id : Accounts, locked : BOOLEAN, set : BOOLEAN, password : Accounts \cup {Nobody}]

UsersInit ==
    /\ locked \in UNION {[s -> BOOLEAN] : s \in (SUBSET Accounts) \ {{}}}
    /\ password = [a \in Accounts |-> Nobody]
    /\ users = NoUsers
    /\ usersLoading = FALSE
    /\ chosen = Nobody
    /\ editingUser = NothingEdited
    /\ notesOf = Nobody
    /\ noteText = FALSE
    /\ astray = FALSE
    /\ onUsers = FALSE
    /\ lists = << >>
    /\ creations = {}
    /\ patches = << >>
    /\ noteAsks = << >>
    /\ noteAdds = << >>
    /\ deeds = 0

----------------------------------------------------------------------------
(* Lists, the selection and its effects *)

\* asked is the selection of the render whose handler asks.
LoadUsers(asked) ==
    /\ lists' = Append(lists, [asked |-> asked, read |-> FALSE, users |-> NoUsers])
    /\ usersLoading' = TRUE

\* A request for notes, with who is selected by then: if it is alone, what is
\* shown is sure again.
LoadSelectedUserNotes(a, selected) ==
    /\ noteAsks' = Append(noteAsks, a)
    /\ astray' = IF a # selected THEN TRUE
                 ELSE IF noteAsks = << >> THEN FALSE
                 ELSE astray \/ \E i \in DOMAIN noteAsks : noteAsks[i] # a

\* The form of a selection, out of a list.
Filled(list, a) ==
    IF a \in DOMAIN list THEN [id |-> a, locked |-> list[a], set |-> FALSE, password |-> Nobody]
    ELSE NothingEdited

EnterUsers ==
    /\ ~onUsers
    /\ onUsers' = TRUE
    /\ LoadUsers(chosen)
    /\ IF chosen # Nobody THEN LoadSelectedUserNotes(chosen, chosen) ELSE UNCHANGED <<noteAsks, astray>>
    /\ UNCHANGED <<accountVars, shownVars, notesOf, noteText, creations, patches, noteAdds>>

LeaveUsers ==
    /\ onUsers
    /\ onUsers' = FALSE
    /\ UNCHANGED <<accountVars, noteVars, requestVars, shownVars>>

SelectUser(a) ==
    /\ onUsers
    /\ ~usersLoading
    /\ a \in DOMAIN users \ {chosen}
    /\ chosen' = a
    /\ editingUser' = Filled(users, a)
    /\ LoadSelectedUserNotes(a, a)
    /\ UNCHANGED <<accountVars, requestVars, users, notesOf, noteText, onUsers, noteAdds>>

UsersRead(i) ==
    /\ ~lists[i].read
    /\ lists' = [lists EXCEPT ![i].read = TRUE, ![i].users = locked]
    /\ UNCHANGED <<accountVars, noteVars, shownVars, onUsers, usersLoading, creations, patches, deeds>>

\* The list is looked through for who was selected when it was asked for; the
\* form is filled anew whatever was typed.
UsersAnswered(i) ==
    LET list == lists[i].users
        asked == lists[i].asked
    IN  /\ lists[i].read
        /\ users' = list
        /\ chosen' = IF asked # Nobody /\ asked \notin DOMAIN list THEN Nobody ELSE chosen
        /\ editingUser' = Filled(list, chosen')
        /\ lists' = RemoveAt(lists, i)
        /\ usersLoading' = FALSE
        /\ UNCHANGED <<accountVars, noteVars, onUsers, creations, patches, deeds>>

UsersFail(i) ==
    /\ lists' = RemoveAt(lists, i)
    /\ usersLoading' = FALSE
    /\ UNCHANGED <<accountVars, noteVars, shownVars, onUsers, creations, patches, deeds>>

NotesAnswered(i) ==
    /\ notesOf' = noteAsks[i]
    /\ noteAsks' = RemoveAt(noteAsks, i)
    /\ UNCHANGED <<accountVars, requestVars, shownVars, noteText, astray, onUsers, noteAdds, deeds>>

NotesFail(i) ==
    /\ astray' = TRUE
    /\ noteAsks' = RemoveAt(noteAsks, i)
    /\ UNCHANGED <<accountVars, requestVars, shownVars, notesOf, noteText, onUsers, noteAdds, deeds>>

----------------------------------------------------------------------------
(* What the administrator does *)

\* Whether the form is on the screen.
Editing == onUsers /\ editingUser # NothingEdited

SetLock ==
    /\ Editing
    /\ editingUser' = [editingUser EXCEPT !.locked = ~@, !.set = TRUE]
    /\ UNCHANGED <<accountVars, noteVars, requestVars, users, chosen, onUsers>>

TypePassword ==
    /\ Editing
    /\ editingUser.password = Nobody
    /\ editingUser' = [editingUser EXCEPT !.password = chosen]
    /\ UNCHANGED <<accountVars, noteVars, requestVars, users, chosen, onUsers>>

HandleSaveUserEdit ==
    /\ Editing
    /\ patches' = Append(patches, [id |-> editingUser.id, locked |-> editingUser.locked,
                               password |-> editingUser.password, stored |-> FALSE, waited |-> TRUE])
    /\ UNCHANGED <<accountVars, noteVars, shownVars, onUsers, usersLoading, lists, creations>>

\* The whole form is written, and a password only if one was typed.
EditStored(i) ==
    LET edit == patches[i] IN
    /\ ~edit.stored
    /\ edit.id \in DOMAIN locked
    /\ locked' = [locked EXCEPT ![edit.id] = edit.locked]
    /\ password' = IF edit.password = Nobody THEN password ELSE [password EXCEPT ![edit.id] = edit.password]
    /\ patches' = IF edit.waited THEN [patches EXCEPT ![i].stored = TRUE] ELSE RemoveAt(patches, i)
    /\ UNCHANGED <<noteVars, shownVars, onUsers, usersLoading, lists, creations, deeds>>

\* The answer clears the password of whoever is edited by now.
EditAnswered(i) ==
    /\ patches[i].stored
    /\ editingUser' = IF editingUser = NothingEdited THEN NothingEdited
                      ELSE [editingUser EXCEPT !.password = Nobody]
    /\ patches' = RemoveAt(patches, i)
    /\ LoadUsers(patches[i].id)
    /\ UNCHANGED <<accountVars, noteVars, users, chosen, onUsers, creations, deeds>>

\* A save is refused, or its answer is lost; one that nobody waits for any more
\* may still be carried out.
EditFails(i) ==
    /\ patches[i].waited
    /\ \/ patches' = RemoveAt(patches, i)
       \/ ~patches[i].stored /\ patches' = [patches EXCEPT ![i].waited = FALSE]
    /\ UNCHANGED <<accountVars, noteVars, shownVars, onUsers, usersLoading, lists, creations, deeds>>

HandleCreateAppUser(a) ==
    /\ onUsers
    /\ a \notin DOMAIN locked \cup DOMAIN users \cup {c.account : c \in creations}
    /\ creations' = creations \cup {[account |-> a, asked |-> chosen]}
    /\ UNCHANGED <<accountVars, noteVars, shownVars, onUsers, usersLoading, lists, patches>>

WithAccount(a) == [b \in DOMAIN locked \cup {a} |-> IF b = a THEN FALSE ELSE locked[b]]

UserCreated(c) ==
    /\ locked' = WithAccount(c.account)
    /\ creations' = creations \ {c}
    /\ LoadUsers(c.asked)
    /\ UNCHANGED <<noteVars, shownVars, password, onUsers, patches, deeds>>

\* An account the page was told it failed to create may exist.
CreationFails(c) ==
    /\ locked' \in {locked, WithAccount(c.account)}
    /\ creations' = creations \ {c}
    /\ UNCHANGED <<noteVars, shownVars, password, onUsers, lists, usersLoading, patches, deeds>>

TypeNote ==
    /\ onUsers
    /\ chosen # Nobody
    /\ noteText' = TRUE
    /\ UNCHANGED <<accountVars, shownVars, requestVars, notesOf, astray, onUsers, noteAsks, noteAdds>>

HandleAddUserNote ==
    /\ onUsers
    /\ chosen # Nobody
    /\ noteText
    /\ noteAdds' = Append(noteAdds, chosen)
    /\ UNCHANGED <<accountVars, requestVars, shownVars, notesOf, noteText, astray, onUsers, noteAsks>>

\* What is typed by now is cleared, and the notes of the account the note was
\* added to are asked for, whoever is selected by now.
NoteAdded(i) ==
    /\ noteText' = FALSE
    /\ LoadSelectedUserNotes(noteAdds[i], chosen)
    /\ noteAdds' = RemoveAt(noteAdds, i)
    /\ UNCHANGED <<accountVars, requestVars, shownVars, notesOf, onUsers, deeds>>

NoteFails(i) ==
    /\ noteAdds' = RemoveAt(noteAdds, i)
    /\ UNCHANGED <<accountVars, requestVars, shownVars, notesOf, noteText, astray, onUsers, noteAsks, deeds>>

\* Elsewhere another administrator locks or unlocks an account, or replaces
\* the database by an older one.
OthersEdit ==
    /\ \/ \E a \in DOMAIN locked : locked' = [locked EXCEPT ![a] = ~@]
       \/ \E s \in SUBSET DOMAIN locked : s # DOMAIN locked /\ locked' = [a \in s |-> locked[a]]
    /\ UNCHANGED <<noteVars, requestVars, shownVars, password, onUsers>>

----------------------------------------------------------------------------

UsersDeed ==
    /\ deeds < MaxDeeds
    /\ deeds' = deeds + 1
    /\ \/ EnterUsers \/ LeaveUsers \/ SetLock \/ TypePassword \/ HandleSaveUserEdit
       \/ TypeNote \/ HandleAddUserNote \/ OthersEdit
       \/ \E a \in Accounts : SelectUser(a) \/ HandleCreateAppUser(a)

UsersAnswer ==
    \/ \E i \in DOMAIN lists : UsersRead(i) \/ UsersAnswered(i) \/ UsersFail(i)
    \/ \E i \in DOMAIN patches : EditStored(i) \/ EditAnswered(i) \/ EditFails(i)
    \/ \E c \in creations : UserCreated(c) \/ CreationFails(c)
    \/ \E i \in DOMAIN noteAsks : NotesAnswered(i) \/ NotesFail(i)
    \/ \E i \in DOMAIN noteAdds : NoteAdded(i) \/ NoteFails(i)

UsersNext == UsersDeed \/ UsersAnswer

----------------------------------------------------------------------------

UsersTypeOK ==
    /\ locked \in LockLists
    /\ password \in [Accounts -> Accounts \cup {Nobody}]
    /\ users \in LockLists
    /\ usersLoading \in BOOLEAN
    /\ chosen \in Accounts \cup {Nobody}
    /\ editingUser \in EditForms \cup {NothingEdited}
    /\ notesOf \in Accounts \cup {Nobody}
    /\ noteText \in BOOLEAN
    /\ astray \in BOOLEAN
    /\ onUsers \in BOOLEAN
    /\ creations \subseteq [account : Accounts, asked : Accounts \cup {Nobody}]
    /\ noteAsks \in Seq(Accounts)
    /\ noteAdds \in Seq(Accounts)
    /\ deeds \in 0..MaxDeeds

(* What can be saved to an account is what the list on the screen says of  *)
(* it, or was typed with this account selected; no account has a password  *)
(* that was typed for another one.                                         *)
FormOfSelected ==
    /\ editingUser # NothingEdited =>
         /\ editingUser.id = chosen
         /\ chosen \in DOMAIN users
         /\ ~editingUser.set => editingUser.locked = users[chosen]
         /\ editingUser.password \in {Nobody, chosen}
    /\ \A a \in Accounts : password[a] \in {Nobody, a}

(* The notes under the name of the selected account are its own when all   *)
(* requests for them were answered, unless two met, one failed, or one was *)
(* of an account selected before.                                          *)
NotesOfSelected ==
    chosen # Nobody /\ noteAsks = << >> /\ ~astray => notesOf = chosen
=============================================================================
