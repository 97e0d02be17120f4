----------------------------- MODULE Preferences -----------------------------
(***************************************************************************)
(* A browser's session and the preferences of the dashboard.  The token of *)
(* the browser is read when a request is sent and removed when one is      *)
(* refused, whichever token it carried.  The preferences are one document: *)
(* every handler shows what it made of the document of its render, sends it*)
(* whole, and shows its render's again when that fails.                    *)
(*                                                                         *)
(* A filter is a member of a small set; the theme, the compact mode and the*)
(* sizes of the widgets, which are changed alike, are `look' and `sizes'.  *)
(***************************************************************************)
EXTENDS SequencesExt, Naturals

CONSTANTS Users, Names, Filters,
          Widgets,    \* the widgets in their first order
          MaxTokens,  \* bound on the tokens the server issues
          MaxSaves,   \* bound on the saves on their way
          MaxEdits,   \* bound on what the user does to the dashboard
          MaxMoves    \* bound on the pages loaded and what other tabs do

ASSUME PreferencesAssumption ==
    /\ MaxTokens \in Nat \ {0} /\ MaxSaves \in Nat /\ MaxEdits \in Nat /\ MaxMoves \in Nat
    /\ Widgets \in Seq(STRING) /\ {"none", "keep"} \cap Names = {} /\ "all" \in Filters

VARIABLES
    stored,    \* uiPreferences of each user
    sessions,  \* the tokens the server knows
    issued,
    userToken,     \* ts_auth_token
    view,      \* the page, what it waits for and the token it sent
    dash,      \* the dashboard
    saves,     \* savePrefs on their way, in the order they were called
    late,      \* documents sent by one the dashboard no longer waits for
    spoilt,    \* auxiliary: the worst that has happened
    edits, moves

prefsVars == <<stored, sessions, issued, userToken, view, dash, saves, late, spoilt, edits, moves>>

None == "none"
SignedOut == <<None, 0>>
TokensOf(u) == {u} \X (1 .. MaxTokens)
AllTokens == UNION {TokensOf(u) : u \in Users}

\* dashboardPrefs of a user who never saved any.
FirstPrefs == [saved |-> <<>>, default |-> None, order |-> Widgets, sizes |-> "default",
               look |-> "default", filters |-> None]
NamesIn(doc) == {doc.saved[i].name : i \in DOMAIN doc.saved}
FreshDash == [user |-> None, prefs |-> FirstPrefs, selected |-> None, filter |-> "all"]

\* A user begins with nothing, or with a preset saved in an earlier session.
OnePreset(u, n, f, d) ==
    [FirstPrefs EXCEPT !.saved = <<[name |-> n, filter |-> f, by |-> u]>>, !.default = d]
SavedBefore(u) == {OnePreset(u, n, f, d) : n \in Names, f \in Filters, d \in Names \cup {None}}

PrefsInit ==
    /\ stored \in [Users -> {FirstPrefs} \cup UNION {SavedBefore(u) : u \in Users}]
    /\ \A u \in Users : /\ stored[u] \in {FirstPrefs} \cup SavedBefore(u)
                        /\ stored[u].default \in NamesIn(stored[u]) \cup {None}
    /\ \E u \in Users : sessions = {<<u, 1>>} /\ userToken = <<u, 1>>
    /\ issued = 1
    /\ view = [page |-> "home", at |-> "status", key |-> SignedOut]
    /\ dash = FreshDash
    /\ saves = <<>>
    /\ late = {}
    /\ spoilt = "nothing"
    /\ edits = 0 /\ moves = 0

----------------------------------------------------------------------------
(* Pages *)

\* A save failed; saves overlapped or an answer was lost; two users share the
\* browser.  Each says less of the preferences than the one before it.
Also(what) ==
    spoilt' = CASE spoilt = "mixed" \/ what = "nothing" -> spoilt
                [] spoilt = "raced" /\ what = "failed" -> spoilt
                [] OTHER -> what

\* A page is loaded: the one before it is gone, but not the requests it sent.
Visit(page) ==
    LET unanswered == {saves[i] : i \in {j \in DOMAIN saves : ~saves[j].done}} IN
    /\ view' = [page |-> page, at |-> "status", key |-> SignedOut]
    /\ dash' = FreshDash
    /\ saves' = <<>>
    /\ late' = late \cup {[doc |-> s.doc, key |-> s.key] : s \in unanswered}
    /\ Also(IF unanswered = {} THEN "nothing" ELSE "raced")

Await(at) == view' = [view EXCEPT !.at = at, !.key = userToken]

Stays(at) == Await(at) /\ UNCHANGED <<dash, saves, late, spoilt>>

HomeGoesOn == view.page = "home" /\ Visit(IF userToken # SignedOut THEN "dashboard" ELSE "login")
LoginGoesOn == view.page = "login" /\ Stays("form")
DashboardGoesOn ==
    \/ view.page = "dashboard" /\ userToken = SignedOut /\ Visit("login")
    \/ view.page = "dashboard" /\ userToken # SignedOut /\ Stays("me")

\* checkSetupStatus: an error counts as a system that is not set up.
StatusAnswered(isSetup) ==
    /\ view.at = "status" /\ view.page # "setup"
    /\ \/ ~isSetup /\ Visit("setup")
       \/ isSetup /\ (HomeGoesOn \/ LoginGoesOn \/ DashboardGoesOn)
    /\ UNCHANGED <<stored, sessions, issued, userToken, edits, moves>>

SubmitLogin ==
    /\ view.page = "login" /\ view.at = "form"
    /\ Await("signing")
    /\ UNCHANGED <<stored, sessions, issued, userToken, dash, saves, late, spoilt, edits, moves>>

NewToken(u) ==
    /\ issued < MaxTokens
    /\ issued' = issued + 1
    /\ userToken' = <<u, issued + 1>>
    /\ sessions' = sessions \cup {<<u, issued + 1>>}

SignedIn(u) ==
    /\ view.at = "signing"
    /\ NewToken(u)
    /\ Visit("dashboard")
    /\ UNCHANGED <<stored, edits, moves>>

\* A login that is refused removes the token there is.
LoginFails(refused) ==
    /\ view.at = "signing"
    /\ userToken' = IF refused THEN SignedOut ELSE userToken
    /\ view' = [view EXCEPT !.at = "form"]
    /\ UNCHANGED <<stored, sessions, issued, dash, saves, late, spoilt, edits, moves>>

MeAnswered ==
    /\ view.at = "me" /\ view.key \in sessions
    /\ dash' = [dash EXCEPT !.user = view.key[1]]
    /\ Await("prefs")
    /\ UNCHANGED <<stored, sessions, issued, userToken, saves, late, spoilt, edits, moves>>

\* The presets of a list that have one of the names, in their order.
Named(saved, names) ==
    LET upTo[i \in 0 .. Len(saved)] ==
            IF i = 0 THEN <<>>
            ELSE IF saved[i].name \in names THEN Append(upTo[i - 1], saved[i]) ELSE upTo[i - 1]
    IN  upTo[Len(saved)]

Find(doc, name) == Named(doc.saved, {name})

\* The filters to begin with come before the preset to begin with.
PrefsAnswered ==
    LET doc == stored[view.key[1]]  preset == Find(doc, doc.default) IN
    /\ view.at = "prefs" /\ view.key \in sessions
    /\ dash' = IF doc.filters # None THEN [dash EXCEPT !.prefs = doc, !.filter = doc.filters]
               ELSE IF preset # <<>>
               THEN [dash EXCEPT !.prefs = doc, !.filter = preset[1].filter, !.selected = doc.default]
               ELSE [dash EXCEPT !.prefs = doc]
    /\ view' = [view EXCEPT !.at = "ready", !.key = SignedOut]
    /\ UNCHANGED <<stored, sessions, issued, userToken, saves, late, spoilt, edits, moves>>

\* Whatever stops the dashboard from loading ends the session here.
BootFails ==
    /\ view.at \in {"me", "prefs"}
    /\ userToken' = SignedOut
    /\ Visit("login")
    /\ UNCHANGED <<stored, sessions, issued, edits, moves>>

OnDashboard == view.page = "dashboard" /\ view.at = "ready"

HandleLogout ==
    /\ OnDashboard
    /\ Await("leaving")
    /\ UNCHANGED <<stored, sessions, issued, userToken, dash, saves, late, spoilt, edits, moves>>

\* The session ends here even if the server has not heard of it.
LoggedOut(heard) ==
    /\ view.at = "leaving"
    /\ sessions' = IF heard THEN sessions \ {view.key} ELSE sessions
    /\ userToken' = SignedOut
    /\ Visit("login")
    /\ UNCHANGED <<stored, issued, edits, moves>>

\* The user, another tab, or time.
OpenPage(page) ==
    /\ Visit(page)
    /\ UNCHANGED <<stored, sessions, issued, userToken>>

OtherTabSignsIn(u) ==
    /\ NewToken(u)
    /\ Also(IF view.page = "dashboard" THEN "mixed" ELSE "nothing")
    /\ UNCHANGED <<stored, view, dash, saves, late>>

OtherTabSignsOut ==
    /\ userToken # SignedOut
    /\ sessions' = sessions \ {userToken}
    /\ userToken' = SignedOut
    /\ UNCHANGED <<stored, issued, view, dash, saves, late, spoilt>>

Expires(t) ==
    /\ t \in sessions
    /\ sessions' = sessions \ {t}
    /\ UNCHANGED <<stored, issued, userToken, view, dash, saves, late, spoilt>>

----------------------------------------------------------------------------
(* Saving *)

\* `selected' is what the handler selects afterwards, if it does.
SavePrefs(next, selected) ==
    /\ Len(saves) < MaxSaves
    /\ dash' = [dash EXCEPT !.prefs = next]
    /\ saves' = Append(saves, [doc |-> next, previous |-> dash.prefs, key |-> userToken,
                               selected |-> selected, done |-> FALSE])
    /\ Also(IF saves = <<>> THEN "nothing" ELSE "raced")
    /\ UNCHANGED <<stored, sessions, issued, userToken, view, late>>

Keep == "keep"
ThenSelect(d, s) == IF s.selected = Keep THEN d ELSE [d EXCEPT !.selected = s.selected]

SaveStored(i) ==
    LET s == saves[i] IN
    /\ ~s.done /\ s.key \in sessions
    /\ stored' = [stored EXCEPT ![s.key[1]] = s.doc]
    /\ saves' = [saves EXCEPT ![i].done = TRUE]
    /\ UNCHANGED <<sessions, issued, userToken, view, dash, late, spoilt, edits, moves>>

SaveAnswered(i) ==
    /\ saves[i].done
    /\ dash' = ThenSelect(dash, saves[i])
    /\ saves' = RemoveAt(saves, i)
    /\ UNCHANGED <<stored, sessions, issued, userToken, view, late, spoilt, edits, moves>>

\* Fault: what was shown stays.
NotRolledBack(i) ==
    /\ dash' = ThenSelect(dash, saves[i])
    /\ saves' = RemoveAt(saves, i)

\* savePrefs shows its render's document again; its caller goes on as ever.
RolledBack(i) ==
    /\ dash' = ThenSelect([dash EXCEPT !.prefs = saves[i].previous], saves[i])
    /\ saves' = RemoveAt(saves, i)

SaveFails(i) ==
    /\ ~saves[i].done
    /\ RolledBack(i)
    /\ userToken' = IF saves[i].key \in sessions THEN userToken ELSE SignedOut
    /\ Also("failed")
    /\ UNCHANGED <<stored, sessions, issued, view, late, edits, moves>>

\* The answer is lost or comes after the client's timeout.
SaveGivenUp(i) ==
    /\ RolledBack(i)
    /\ late' = IF saves[i].done THEN late ELSE late \cup {[doc |-> saves[i].doc, key |-> saves[i].key]}
    /\ Also("raced")
    /\ UNCHANGED <<stored, sessions, issued, userToken, view, edits, moves>>

LateSave(l) ==
    /\ late' = late \ {l}
    /\ stored' = IF l.key \in sessions THEN [stored EXCEPT ![l.key[1]] = l.doc] ELSE stored
    /\ UNCHANGED <<sessions, issued, userToken, view, dash, saves, spoilt, edits, moves>>

----------------------------------------------------------------------------
(* The handlers of the dashboard *)

prefs == dash.prefs
Without(names) == Named(prefs.saved, Names \ names)
Shown(d) == dash' = d /\ UNCHANGED <<stored, sessions, issued, userToken, view, saves, late, spoilt>>

SetFilter(f) == f # dash.filter /\ Shown([dash EXCEPT !.filter = f])
ApplyInfoCardFilter(f) == Shown([dash EXCEPT !.filter = f, !.selected = None])
ClearFilters == Shown([dash EXCEPT !.filter = "all", !.selected = None])

LoadDefaultFilters ==
    Shown([dash EXCEPT !.filter = IF prefs.filters = None THEN "all" ELSE prefs.filters])

\* The list of presets, and a row of it.
ApplySavedFilter(name) ==
    /\ Find(prefs, name) # <<>>
    /\ Shown([dash EXCEPT !.selected = name, !.filter = Find(prefs, name)[1].filter])

BuildPreset(name) == [name |-> name, filter |-> dash.filter, by |-> dash.user]

AddCurrentFilterToSaved(name) ==
    SavePrefs([prefs EXCEPT !.saved = Append(Without({name}), BuildPreset(name))], name)

RenameSavedFilter(old, new) ==
    /\ old # new /\ Find(prefs, old) # <<>>
    /\ SavePrefs([prefs EXCEPT
                    !.saved = Append(Without({old, new}), [Find(prefs, old)[1] EXCEPT !.name = new]),
                    !.default = IF @ = old THEN new ELSE @],
                 IF dash.selected = old THEN new ELSE Keep)

\* The preset that is selected, or a row.
SetDefaultSavedFilter(name) ==
    /\ name = dash.selected \/ Find(prefs, name) # <<>>
    /\ SavePrefs([prefs EXCEPT !.default = name], Keep)

RemoveSavedFilter(name) ==
    /\ Find(prefs, name) # <<>>
    /\ SavePrefs([prefs EXCEPT !.saved = Without({name}), !.default = IF @ = name THEN None ELSE @],
                 IF dash.selected = name THEN None ELSE Keep)

SaveDefaultFiltersFromCurrent == SavePrefs([prefs EXCEPT !.filters = dash.filter], Keep)

MoveWidget(i, j) ==
    /\ {i, j} \subseteq DOMAIN prefs.order /\ j \in {i - 1, i + 1}
    /\ SavePrefs([prefs EXCEPT !.order = [@ EXCEPT ![i] = prefs.order[j], ![j] = prefs.order[i]]], Keep)

\* A widget is taken out of the order and put where another was.
ReorderWidgets(i, j) ==
    /\ i # j
    /\ SavePrefs([prefs EXCEPT !.order = InsertAt(RemoveAt(@, i), j, prefs.order[i])], Keep)

HandleWidgetSizeStep(sizes) ==
    sizes # prefs.sizes /\ SavePrefs([prefs EXCEPT !.sizes = sizes], Keep)

ChangeLook(look) == SavePrefs([prefs EXCEPT !.look = look], Keep)

ResetWidgetLayout ==
    SavePrefs([prefs EXCEPT !.order = Widgets, !.sizes = "default"], Keep)

Edits ==
    \/ \E f \in Filters : SetFilter(f) \/ ApplyInfoCardFilter(f)
    \/ \E n \in Names : ApplySavedFilter(n) \/ AddCurrentFilterToSaved(n)
                        \/ SetDefaultSavedFilter(n) \/ RemoveSavedFilter(n)
    \/ \E n, o \in Names : RenameSavedFilter(o, n)
    \/ \E i, j \in DOMAIN prefs.order : MoveWidget(i, j) \/ ReorderWidgets(i, j)
    \/ \E c \in {"default", "own"} : HandleWidgetSizeStep(c) \/ ChangeLook(c)
    \/ ClearFilters \/ LoadDefaultFilters
    \/ SaveDefaultFiltersFromCurrent \/ ResetWidgetLayout

PrefsNext ==
    \/ \E isSetup \in BOOLEAN : StatusAnswered(isSetup)
    \/ SubmitLogin \/ MeAnswered \/ PrefsAnswered \/ BootFails \/ HandleLogout
    \/ \E u \in Users : SignedIn(u)
    \/ \E yes \in BOOLEAN : LoginFails(yes) \/ LoggedOut(yes)
    \/ \E i \in DOMAIN saves : SaveStored(i) \/ SaveAnswered(i) \/ SaveFails(i) \/ SaveGivenUp(i)
    \/ \E l \in late : LateSave(l)
    \/ /\ view.at \in {"ready", "leaving"} /\ edits < MaxEdits
       /\ edits' = edits + 1 /\ UNCHANGED moves
       /\ Edits
    \/ /\ moves < MaxMoves
       /\ moves' = moves + 1 /\ UNCHANGED edits
       /\ \/ \E page \in {"login", "dashboard"} : OpenPage(page)
          \/ \E u \in Users : OtherTabSignsIn(u)
          \/ OtherTabSignsOut
          \/ \E t \in sessions : Expires(t)

PrefsSpec == PrefsInit /\ [][PrefsNext]_prefsVars

----------------------------------------------------------------------------

Docs == {stored[u] : u \in Users} \cup {dash.prefs} \cup {saves[i].doc : i \in DOMAIN saves}
        \cup {saves[i].previous : i \in DOMAIN saves} \cup {l.doc : l \in late}

PrefsTypeOK ==
    /\ userToken \in AllTokens \cup {SignedOut} /\ sessions \subseteq AllTokens
    /\ view.page \in {"home", "setup", "login", "dashboard"}
    /\ view.at \in {"status", "form", "signing", "me", "prefs", "ready", "leaving"}
    /\ dash.user \in Users \cup {None}
    /\ \A doc \in Docs : doc.default \in Names \cup {None} /\ doc.filters \in Filters \cup {None}
    /\ spoilt \in {"nothing", "failed", "raced", "mixed"}

\* Whatever was lost or overlapped, no document has two presets of one name or
\* lacks a widget, and without a second user in the browser nobody's presets
\* are stored for somebody else.
DocumentsSound ==
    /\ \A doc \in Docs :
         /\ Cardinality(NamesIn(doc)) = Len(doc.saved)
         /\ Range(doc.order) = Range(Widgets) /\ Len(doc.order) = Len(Widgets)
    /\ spoilt # "mixed" =>
         \A u \in Users : \A i \in DOMAIN stored[u].saved : stored[u].saved[i].by = u

\* Unless saves overlapped or an answer was lost, the dashboard that waits for
\* nothing shows what is stored, also after a save that failed.
ShownIsStored ==
    OnDashboard /\ saves = <<>> /\ spoilt \in {"nothing", "failed"} => stored[dash.user] = dash.prefs

\* The preset to begin with, and the one selected, are presets that exist,
\* unless a save failed or overlapped another: the handler of a save that
\* failed selects the preset that it did not save.
DefaultExists ==
    spoilt = "nothing" =>
        /\ \A doc \in Docs : doc.default \in NamesIn(doc) \cup {None}
        /\ OnDashboard /\ saves = <<>> => dash.selected \in NamesIn(prefs) \cup {None}

\* What is stored of the preferences is sound, is what the dashboard shows, and
\* names only presets that exist, however saves, failures and tabs overlap.
PreferencesKept == DocumentsSound /\ ShownIsStored /\ DefaultExists
=============================================================================
