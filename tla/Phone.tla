------------------------------- MODULE Phone -------------------------------
(***************************************************************************)
(* The iOS application: the network manager, which keeps the address of    *)
(* the server and the token of the session, and the screens that call      *)
(* it.  Its methods run on the main actor and give it up only while a      *)
(* request is on its way: every answer is a step, and what it finds may    *)
(* have changed.  A token, a user and a list of tickets are named by the   *)
(* server they came from.                                                  *)
(***************************************************************************)
EXTENDS Naturals, FiniteSets

CONSTANTS
    Servers,     \* the addresses a code or a user can name
    MaxTaps,     \* bound: what the user does, and restarts of the application
    MaxTasks     \* bound: calls on their way at once

VARIABLES
    screen,      \* connectionStatus, with the address it names
    base,        \* apiBase, and the same value kept over restarts
    token,       \* the token in the keychain, kept over restarts
    signedIn,    \* isAuthenticated
    profile,     \* sessionUser
    list,        \* tickets
    tasks,       \* the requests on their way, each with what called it
    sheet,       \* the sheet of a new ticket
    parted,      \* auxiliary: the server was left, and with a login on its way
    taps         \* what the user has done

phoneVars == <<screen, base, token, signedIn, profile, list, tasks, sheet, parted, taps>>

ASSUME PhoneAssumption == MaxTaps \in Nat /\ MaxTasks \in Nat /\ "none" \notin Servers

Flows == {"connect", "login", "refresh", "filters", "create", "detail", "status"}
PhoneTasks == [flow : Flows, at : {"test", "me", "list", "login", "post", "patch", "get"},
               server : Servers, token : Servers \union {"none"}, here : BOOLEAN,
               n : 1..MaxTasks]
NoSheet == [open |-> FALSE, made |-> 0, failed |-> FALSE]
Shows(kind, server) == [kind |-> kind, server |-> server]
NoServer == Shows("disconnected", "none")
Failed == Shows("error", "none")

PhoneInit ==
    /\ screen = NoServer /\ base = "none" /\ token = "none"
    /\ signedIn = FALSE /\ profile = "none" /\ list = "none"
    /\ tasks = {} /\ sheet = NoSheet /\ parted = "no" /\ taps = 0

Tap == taps < MaxTaps /\ taps' = taps + 1

-----------------------------------------------------------------------------
(* The screens *)

\* The screen of the signed in application, and the one that asks for a login.
HasRoot(s, in) == s.kind = "connected" /\ in
HasLogin(s, in) == s.kind = "connected" /\ ~in

\* Whether the screen of a call's button stays on.
OfScreen(t) == IF t.flow = "login" THEN HasLogin(screen, signedIn) /\ HasLogin(screen', signedIn')
                                   ELSE HasRoot(screen, signedIn) /\ HasRoot(screen', signedIn')

\* A screen that goes takes its state along; what it called goes on without it.
TasksKept(T) == {[t EXCEPT !.here = t.here /\ OfScreen(t)] : t \in T}
SheetKept(s) == IF HasRoot(screen', signedIn') THEN s ELSE NoSheet

Busy(flow) == \E t \in tasks : t.flow = flow /\ t.here

-----------------------------------------------------------------------------
(* Requests *)

\* A request goes to the address of the moment with the token of the moment;
\* without either it fails where it stands.
CanAsk(at, address, secret) ==
    address # "none" /\ (at \in {"login", "test"} \/ secret # "none")

Free == {n \in 1..MaxTasks : \A t \in tasks : t.n # n}
HasRoom == Free # {}

\* A call that begins, and one that goes on with its next request.
Ask(flow, at, address, secret) ==
    [flow |-> flow, at |-> at, server |-> address, token |-> secret, here |-> TRUE,
     n |-> CHOOSE n \in Free : \A m \in Free : n <= m]
GoesOn(t, at, address, secret) == [t EXCEPT !.at = at, !.server = address, !.token = secret]

\* A call by a button of the signed in application, which holds a token.
Start(flow, at) ==
    /\ HasRoot(screen, signedIn) /\ HasRoom
    /\ tasks' = tasks \union {Ask(flow, at, base, token)}

-----------------------------------------------------------------------------
(* Pairing and connection *)

\* connect(apiBaseUrl:token:), from the pairing screen or from a code: a token
\* in the code is kept before the server is tried.
Connect(server, carries) ==
    /\ screen.kind \in {"disconnected", "error"} /\ HasRoom
    /\ Tap
    /\ screen' = Shows("connecting", server) /\ parted' = "no"
    /\ token' = IF carries THEN server ELSE token
    /\ signedIn' = (signedIn \/ carries)
    /\ tasks' = tasks \union {Ask("connect", "test", server, "none")}
    /\ UNCHANGED <<base, profile, list, sheet>>

ConnectManually(server) == screen.kind = "disconnected" /\ Connect(server, FALSE)

ProcessQRData(server, carries) == Connect(server, carries)

\* A code that cannot be read.
ScanGarbage ==
    /\ screen.kind \in {"disconnected", "error"}
    /\ Tap
    /\ screen' = Failed
    /\ UNCHANGED <<base, token, signedIn, profile, list, tasks, sheet, parted>>

\* The server answered its test: it is the server now, and a session that is
\* there is tried (OneSessionOneTicket: with its token).
Tested(t) ==
    /\ t \in tasks /\ t.at = "test"
    /\ base' = t.server /\ screen' = Shows("connected", t.server)
    /\ tasks' = TasksKept((tasks \ {t}) \union
                          IF signedIn THEN {GoesOn(t, "me", t.server, token)} ELSE {})
    /\ UNCHANGED <<token, signedIn, profile, list, sheet, parted, taps>>

TestFails(t) ==
    /\ t \in tasks /\ t.at = "test"
    /\ screen' = Failed
    /\ tasks' = tasks \ {t}
    /\ UNCHANGED <<base, token, signedIn, profile, list, sheet, parted, taps>>

\* disconnect()
Disconnect ==
    /\ screen.kind \in {"connected", "error"}
    /\ Tap
    /\ screen' = NoServer /\ base' = "none" /\ token' = "none"
    /\ signedIn' = FALSE /\ profile' = "none" /\ list' = "none"
    /\ parted' = IF \E t \in tasks : t.at = "login" THEN "asking" ELSE "left"
    /\ tasks' = TasksKept(tasks) /\ sheet' = SheetKept(sheet)

\* The system ends the application, and it is started again.
Restart ==
    /\ Tap
    /\ screen' = IF base = "none" THEN NoServer ELSE Shows("connected", base)
    /\ signedIn' = (token # "none")
    /\ profile' = "none" /\ list' = "none" /\ tasks' = {} /\ sheet' = NoSheet
    /\ UNCHANGED <<base, token, parted>>

-----------------------------------------------------------------------------
(* The session *)

\* login(email:password:), from the button of the login screen.
LogIn ==
    /\ HasLogin(screen, signedIn) /\ ~Busy("login") /\ base # "none" /\ HasRoom
    /\ Tap
    /\ tasks' = tasks \union {Ask("login", "login", base, "none")}
    /\ UNCHANGED <<screen, base, token, signedIn, profile, list, sheet, parted>>

\* The token is kept whatever became of the address in the meantime; the
\* tickets are asked of the address of the moment.
LoggedIn(t) ==
    /\ t \in tasks /\ t.at = "login"
    /\ token' = t.server /\ profile' = t.server /\ signedIn' = TRUE
    /\ UNCHANGED screen
    /\ tasks' = TasksKept((tasks \ {t}) \union
                          IF CanAsk("list", base, t.server)
                            THEN {GoesOn(t, "list", base, t.server)} ELSE {})
    /\ UNCHANGED <<base, list, sheet, parted, taps>>

LogOut ==
    /\ HasRoot(screen, signedIn)
    /\ Tap
    /\ token' = "none" /\ signedIn' = FALSE /\ profile' = "none"
    /\ UNCHANGED screen
    /\ tasks' = TasksKept(tasks) /\ sheet' = SheetKept(sheet)
    /\ UNCHANGED <<base, list, parted>>

\* Fault: what the tickets' request throws is not caught.
FetchedUserUncaught(t) ==
    /\ t \in tasks /\ t.at = "me"
    /\ profile' = t.server /\ signedIn' = TRUE
    /\ UNCHANGED screen
    /\ tasks' = TasksKept((tasks \ {t}) \union
                          IF CanAsk("list", base, token)
                            THEN {GoesOn(t, "list", base, token)} ELSE {})
    /\ UNCHANGED <<base, token, list, sheet, parted, taps>>

\* fetchCurrentUser() as connect calls it, the tickets next.
FetchedCurrentUser(t) ==
    /\ t \in tasks /\ t.at = "me"
    /\ UNCHANGED screen
    /\ IF CanAsk("list", base, token)
         THEN /\ signedIn' = TRUE /\ profile' = t.server /\ UNCHANGED token
              /\ tasks' = TasksKept((tasks \ {t}) \union
                                    {GoesOn(t, "list", base, token)})
              /\ UNCHANGED sheet
         ELSE /\ signedIn' = FALSE /\ profile' = "none" /\ token' = "none"
              /\ tasks' = TasksKept(tasks \ {t}) /\ sheet' = SheetKept(sheet)
    /\ UNCHANGED <<base, list, parted, taps>>

-----------------------------------------------------------------------------
(* The tickets *)

\* The button of the dashboard; the filters of the list, one load at a time.
Refresh == Tap /\ Start("refresh", "list")
           /\ UNCHANGED <<screen, base, token, signedIn, profile, list, sheet, parted>>
ApplyFilters == Tap /\ ~Busy("filters") /\ Start("filters", "list")
                /\ UNCHANGED <<screen, base, token, signedIn, profile, list, sheet, parted>>

\* fetchTickets() answered: its flow goes on.
FetchedTickets(t) ==
    /\ t \in tasks /\ t.at = "list"
    /\ list' = t.server
    /\ tasks' = (tasks \ {t}) \union
                IF t.flow = "status" /\ CanAsk("get", base, token)
                  THEN {GoesOn(t, "get", base, token)} ELSE {}
    /\ sheet' = IF t.flow = "create" /\ t.here THEN NoSheet ELSE sheet
    /\ UNCHANGED <<screen, base, token, signedIn, profile, parted, taps>>

OpenSheet ==
    /\ HasRoot(screen, signedIn) /\ ~sheet.open
    /\ Tap
    /\ sheet' = [NoSheet EXCEPT !.open = TRUE]
    /\ UNCHANGED <<screen, base, token, signedIn, profile, list, tasks, parted>>

CancelSheet ==
    /\ sheet.open
    /\ Tap
    /\ sheet' = NoSheet
    /\ tasks' = {[t EXCEPT !.here = t.here /\ t.flow # "create"] : t \in tasks}
    /\ UNCHANGED <<screen, base, token, signedIn, profile, list, parted>>

\* saveTicket(): one at a time.  A form that is not complete is refused.
MaySave == ~Busy("create")

SaveTicket ==
    /\ sheet.open /\ MaySave
    /\ Tap
    /\ Start("create", "post")
    /\ UNCHANGED <<screen, base, token, signedIn, profile, list, sheet, parted>>

RefuseTicket ==
    /\ sheet.open /\ ~sheet.failed /\ MaySave
    /\ Tap
    /\ sheet' = [sheet EXCEPT !.failed = TRUE]
    /\ UNCHANGED <<screen, base, token, signedIn, profile, list, tasks, parted>>

Counted(t) == IF t.here THEN [sheet EXCEPT !.made = @ + 1] ELSE sheet

\* The ticket is on the server; the list is asked for before the sheet closes.
TicketCreated(t) ==
    /\ t \in tasks /\ t.at = "post"
    /\ LET asks == CanAsk("list", base, token)
       IN  /\ tasks' = (tasks \ {t}) \union
                       IF asks THEN {GoesOn(t, "list", base, token)} ELSE {}
           /\ sheet' = IF asks \/ ~t.here THEN Counted(t) ELSE [Counted(t) EXCEPT !.failed = TRUE]
    /\ UNCHANGED <<screen, base, token, signedIn, profile, list, parted, taps>>

\* The screen of a ticket: its details, and a new stage.
OpenDetail == Tap /\ Start("detail", "get")
              /\ UNCHANGED <<screen, base, token, signedIn, profile, list, sheet, parted>>
SaveStatus == Tap /\ ~Busy("status") /\ Start("status", "patch")
              /\ UNCHANGED <<screen, base, token, signedIn, profile, list, sheet, parted>>

StatusUpdated(t) ==
    /\ t \in tasks /\ t.at = "patch"
    /\ tasks' = (tasks \ {t}) \union
                IF CanAsk("list", base, token)
                  THEN {GoesOn(t, "list", base, token)} ELSE {}
    /\ UNCHANGED <<screen, base, token, signedIn, profile, list, sheet, parted, taps>>

FetchedTicketDetail(t) ==
    /\ t \in tasks /\ t.at = "get"
    /\ tasks' = tasks \ {t}
    /\ UNCHANGED <<screen, base, token, signedIn, profile, list, sheet, parted, taps>>

-----------------------------------------------------------------------------
(* Failures: no answer in time, or one that refuses *)

\* A session that connect cannot confirm is given up.
SessionRefused(t) ==
    /\ t \in tasks /\ t.flow = "connect" /\ t.at \in {"me", "list"}
    /\ token' = "none" /\ signedIn' = FALSE /\ profile' = "none"
    /\ UNCHANGED screen
    /\ tasks' = TasksKept(tasks \ {t}) /\ sheet' = SheetKept(sheet)
    /\ UNCHANGED <<base, list, parted, taps>>

\* A ticket may have been created all the same.
TicketFails(t) ==
    /\ t \in tasks /\ t.flow = "create"
    /\ tasks' = tasks \ {t}
    /\ \E done \in IF t.at = "post" THEN {Counted(t), sheet} ELSE {sheet} :
          sheet' = IF t.here THEN [done EXCEPT !.failed = TRUE] ELSE sheet
    /\ UNCHANGED <<screen, base, token, signedIn, profile, list, parted, taps>>

OtherFails(t) ==
    /\ t \in tasks /\ t.flow \notin {"connect", "create"}
    /\ tasks' = tasks \ {t}
    /\ UNCHANGED <<screen, base, token, signedIn, profile, list, sheet, parted, taps>>

PhoneNext ==
    \/ \E s \in Servers : ConnectManually(s) \/ ProcessQRData(s, TRUE) \/ ProcessQRData(s, FALSE)
    \/ ScanGarbage \/ Disconnect \/ Restart
    \/ LogIn \/ LogOut \/ Refresh \/ ApplyFilters
    \/ OpenSheet \/ CancelSheet \/ SaveTicket \/ RefuseTicket
    \/ OpenDetail \/ SaveStatus
    \/ \E t \in tasks :
          \/ Tested(t) \/ TestFails(t) \/ LoggedIn(t) \/ FetchedCurrentUser(t)
          \/ FetchedTickets(t) \/ TicketCreated(t) \/ StatusUpdated(t) \/ FetchedTicketDetail(t)
          \/ SessionRefused(t) \/ TicketFails(t) \/ OtherFails(t)

PhoneSpec == PhoneInit /\ [][PhoneNext]_phoneVars

-----------------------------------------------------------------------------
(* Properties *)

\* The types of the variables.
PhoneTypeOK ==
    /\ screen \in [kind : {"disconnected", "connecting", "connected", "error"},
                   server : Servers \union {"none"}]
    /\ {base, token, profile, list} \subseteq Servers \union {"none"}
    /\ signedIn \in BOOLEAN /\ parted \in {"no", "left", "asking"}
    /\ tasks \subseteq PhoneTasks
    /\ sheet \in [open : BOOLEAN, made : 0..MaxTaps, failed : BOOLEAN]
    /\ taps \in 0..MaxTaps

\* Whatever was left, scanned, restarted and answered late: the application
\* shows a session just when it holds a token, the address that is shown, kept
\* and asked is one, a user who was told of no failure has made no ticket twice
\* from one sheet (connect, login, fetchCurrentUser, saveTicket), and of a server
\* that was left (disconnect) no address remains, and no token unless a login was
\* on its way.
OneSessionOneTicket ==
    /\ signedIn <=> token # "none"
    /\ IF base = "none" THEN screen.kind # "connected" ELSE screen = Shows("connected", base)
    /\ sheet.made > 1 => sheet.failed
    /\ parted # "no" => base = "none"
    /\ parted = "left" => token = "none"
=============================================================================
