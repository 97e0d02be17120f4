------------------------------ MODULE Sessions ------------------------------
(***************************************************************************)
(* Sessions and the requests they open: AuthService.createSession,         *)
(* getUserFromToken and the logouts, AuthGuard, RolesGuard, and the account*)
(* operations of UsersService.  Logins says when a session is created.     *)
(*                                                                         *)
(* The guards of a request and its handler are cut at their awaits: a      *)
(* session may be deleted, or its user changed, between any two of them.   *)
(***************************************************************************)
EXTENDS Naturals

CONSTANTS Requests,   \* requests that may be in flight at the same time
          Users,      \* rows of users
          Founder,    \* the user the setup made an administrator
          Tokens      \* the access tokens handed out

ASSUME SessionsAssumption == Founder \in Users

VARIABLES
    user,       \* role of each user, and whether it is disabled
    session,    \* auth_sessions: the users of the tokens that have a row
    stored,     \* whether the database has the table auth_sessions
    request,    \* the request each client has in flight
    entitled    \* auxiliary: requests that at some moment of their way had the
                \* session, the account and the role they act with

sessionVars == <<user, session, stored, request, entitled>>

Roles == {"ADMIN", "AGENT"}
UserRows == [role : Roles, disabled : BOOLEAN]
Purposes == {"read", "logout", "logout-all", "admin"}
Idle == [at |-> "idle"]
NoSession == [t \in {} |-> Founder]

SessionsInit ==
    /\ user = [u \in Users |-> [role |-> IF u = Founder THEN "ADMIN" ELSE "AGENT",
                                disabled |-> FALSE]]
    /\ session = NoSession
    /\ stored = TRUE
    /\ request = [r \in Requests |-> Idle]
    /\ entitled = {}

----------------------------------------------------------------------------
Without(tokens) == [t \in DOMAIN session \ tokens |-> session[t]]

\* What a request needs at some moment of its way through the guards.
Rights(q) ==
    /\ q.token \in DOMAIN session
    /\ ~user[session[q.token]].disabled
    /\ q.purpose = "admin" => user[session[q.token]].role = "ADMIN"

Guarding == {"arrived", "found", "inside"}

\* Every step ends with this: who is on the way with its rights now.
Observe ==
    entitled' = {r \in Requests :
        /\ request'[r].at \in Guarding
        /\ r \in entitled \/ Rights(request[r])'}

Goto(r, q) == request' = [request EXCEPT ![r] = q]

----------------------------------------------------------------------------
(* Sessions begin *)

\* A login has checked its password against a row that was not disabled.
LoggedIn(r, u) ==
    /\ request[r] = Idle
    /\ ~user[u].disabled
    /\ Goto(r, [at |-> "login", user |-> u])
    /\ UNCHANGED <<user, session, stored>>
    /\ Observe

\* The row of a new token is inserted.
CreateSession(r, t) ==
    /\ request[r].at = "login"
    /\ stored
    /\ t \notin DOMAIN session
    /\ \A q \in Requests : request[q].at \in Guarding => request[q].token # t
    /\ session' = [s \in DOMAIN session \cup {t} |->
                     IF s = t THEN request[r].user ELSE session[s]]
    /\ Goto(r, Idle)
    /\ UNCHANGED <<user, stored>>
    /\ Observe

\* A query that finds no table creates it, and is tried once more.
RepairAuthSessionStorage(r) ==
    /\ request[r].at \in {"login", "arrived"}
    /\ ~stored
    /\ stored' = TRUE
    /\ UNCHANGED <<user, session, request>>
    /\ Observe

\* It cannot be created: a login is refused, a guard lets nobody in.
RepairFails(r) ==
    /\ request[r].at \in {"login", "arrived"}
    /\ ~stored
    /\ Goto(r, Idle)
    /\ UNCHANGED <<user, session, stored>>
    /\ Observe

----------------------------------------------------------------------------
(* Guards *)

Arrive(r, t, purpose) ==
    /\ request[r] = Idle
    /\ Goto(r, [at |-> "arrived", token |-> t, purpose |-> purpose])
    /\ UNCHANGED <<user, session, stored>>
    /\ Observe

\* getUserFromToken reads the session and its user in one query.
FindSession(r) ==
    LET q == request[r] IN
    /\ q.at = "arrived"
    /\ stored
    /\ q.token \in DOMAIN session
    /\ Goto(r, [at |-> "found", token |-> q.token, purpose |-> q.purpose,
                user |-> session[q.token], row |-> user[session[q.token]]])
    /\ UNCHANGED <<user, session, stored>>
    /\ Observe

FindNoSession(r) ==
    /\ request[r].at = "arrived"
    /\ stored
    /\ request[r].token \notin DOMAIN session
    /\ Goto(r, Idle)
    /\ UNCHANGED <<user, session, stored>>
    /\ Observe

\* The session of a disabled user is deleted, and the request refused; one
\* that has expired goes the same way.
EvictSession(r) ==
    /\ request[r].at = "found"
    /\ session' = Without({request[r].token})
    /\ Goto(r, Idle)
    /\ UNCHANGED <<user, stored>>
    /\ Observe

HasRole(q) == q.purpose = "admin" => q.row.role = "ADMIN"

Entered(q) == [at |-> "inside", token |-> q.token, purpose |-> q.purpose, user |-> q.user]

\* Fault: whoever has a row in auth_sessions is let in.
AdmitSession(r) ==
    /\ request[r].at = "found"
    /\ HasRole(request[r])
    /\ Goto(r, Entered(request[r]))
    /\ UNCHANGED <<user, session, stored>>
    /\ Observe

\* lastUsedAt is written and awaited, whether or not the row is still there;
\* then RolesGuard compares the role of the row that was read.
Admit(r) ==
    /\ request[r].at = "found"
    /\ ~request[r].row.disabled
    /\ HasRole(request[r])
    /\ Goto(r, Entered(request[r]))
    /\ UNCHANGED <<user, session, stored>>
    /\ Observe

Forbid(r) ==
    /\ request[r].at = "found"
    /\ ~request[r].row.disabled
    /\ ~HasRole(request[r])
    /\ Goto(r, Idle)
    /\ UNCHANGED <<user, session, stored>>
    /\ Observe

----------------------------------------------------------------------------
(* Handlers behind the guards *)

Finish(r, purpose) ==
    /\ request[r].at = "inside"
    /\ request[r].purpose = purpose
    /\ Goto(r, Idle)

Read(r) ==
    /\ Finish(r, "read")
    /\ UNCHANGED <<user, session, stored>>
    /\ Observe

Logout(r) ==
    /\ Finish(r, "logout")
    /\ session' = Without({request[r].token})
    /\ stored' = TRUE
    /\ UNCHANGED user
    /\ Observe

LogoutEverywhere(r) ==
    /\ Finish(r, "logout-all")
    /\ session' = Without({t \in DOMAIN session : session[t] = request[r].user})
    /\ stored' = TRUE
    /\ UNCHANGED user
    /\ Observe

\* updateUser: the sessions of the user stay, whatever is changed.
UpdateUser(r, u, row) ==
    /\ Finish(r, "admin")
    /\ user' = [user EXCEPT ![u] = row]
    /\ UNCHANGED <<session, stored>>
    /\ Observe

----------------------------------------------------------------------------
\* A database from before auth_sessions is restored.
StorageLost ==
    /\ stored' = FALSE
    /\ session' = NoSession
    /\ UNCHANGED <<user, request>>
    /\ Observe

SessionsNext ==
    \/ \E r \in Requests, u \in Users : LoggedIn(r, u)
    \/ \E r \in Requests, t \in Tokens : CreateSession(r, t)
    \/ \E r \in Requests, t \in Tokens, purpose \in Purposes : Arrive(r, t, purpose)
    \/ \E r \in Requests :
        \/ RepairAuthSessionStorage(r) \/ RepairFails(r)
        \/ FindSession(r) \/ FindNoSession(r) \/ EvictSession(r) \/ Admit(r) \/ Forbid(r)
        \/ Read(r) \/ Logout(r) \/ LogoutEverywhere(r)
    \/ \E r \in Requests, u \in Users, row \in UserRows : UpdateUser(r, u, row)
    \/ StorageLost

SessionsSpec == SessionsInit /\ [][SessionsNext]_sessionVars

----------------------------------------------------------------------------
InFlight ==
    {Idle} \cup [at : {"login"}, user : Users]
    \cup [at : {"arrived"}, token : Tokens, purpose : Purposes]
    \cup [at : {"found"}, token : Tokens, purpose : Purposes, user : Users, row : UserRows]
    \cup [at : {"inside"}, token : Tokens, purpose : Purposes, user : Users]

SessionsTypeOK ==
    /\ user \in [Users -> UserRows]
    /\ DOMAIN session \subseteq Tokens
    /\ \A t \in DOMAIN session : session[t] \in Users
    /\ stored \in BOOLEAN
    /\ \A r \in Requests : request[r] \in InFlight

\* A request that was let in had, at some moment since it arrived, its session,
\* a user that was not disabled and the role of its route: who was logged out,
\* disabled or demoted before it asked stays out, whatever was in flight.
RevokedStaysOut == \A r \in Requests : request[r].at = "inside" => r \in entitled
=============================================================================
