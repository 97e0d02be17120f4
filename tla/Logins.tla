------------------------------- MODULE Logins -------------------------------
(***************************************************************************)
(* AuthService.login: the lock after failed logins, the check of the       *)
(* password against the row that was read, and the upgrade of old hashes.  *)
(* What follows a login is in Sessions.                                    *)
(*                                                                         *)
(* A login is cut at its awaits: the row a query found is a snapshot, what *)
(* the handler concludes from it comes later.  The upgrade of an old hash  *)
(* is awaited by nobody and is a process of its own.                       *)
(***************************************************************************)
EXTENDS Integers, FiniteSets

CONSTANTS Logging,          \* logins that may be in flight at the same time
          Accounts,         \* rows of users
          Passwords,        \* what administrators set and clients give
          LoginMaxFailures, \* LOGIN_MAX_FAILURES
          LoginWindow,      \* LOGIN_WINDOW_MS and LOGIN_LOCK_MS, in ticks
          MaxTime           \* bound on the clock

ASSUME LoginsAssumption ==
    /\ Logging # {} /\ IsFiniteSet(Logging)
    /\ Passwords # {}
    /\ LoginMaxFailures \in Nat \ {0, 1}    \* the failure that opens a window never locks
    /\ LoginWindow \in Nat \ {0}
    /\ MaxTime \in Nat

VARIABLES
    account,    \* password of each user, whether its hash is old, disabled
    bucket,     \* failedLoginBuckets, of one address
    login,      \* the login each client has in flight
    upgrade,    \* hash upgrades that were started and not yet written
    clock,
    chosen,     \* auxiliary: the password an administrator set last
    crossed,    \* auxiliary: accounts whose password was set while the upgrade
                \* of an old hash was on its way
    missed      \* auxiliary: wrong guesses at each account since the last login:
                \* the moment of each, and its number

loginVars == <<account, bucket, login, upgrade, clock, chosen, crossed, missed>>

Moments == 0 .. MaxTime
Rows == [password : Passwords, old : BOOLEAN, disabled : BOOLEAN]
NoBucket == [count |-> 0, windowStartAt |-> 0, lockUntil |-> 0]
Away == [at |-> "away"]

LoginsInit ==
    /\ account = [a \in Accounts |->
                    [password |-> CHOOSE p \in Passwords : TRUE, old |-> TRUE, disabled |-> FALSE]]
    /\ bucket = [a \in Accounts |-> NoBucket]
    /\ login = [c \in Logging |-> Away]
    /\ upgrade = {}
    /\ clock = 0
    /\ chosen = [a \in Accounts |-> account[a].password]
    /\ crossed = {}
    /\ missed = [a \in Accounts |-> {}]

Stale(b) == clock - b.windowStartAt > LoginWindow

\* A locked account refuses before anything is read; a window that is over is
\* forgotten.
EnforceLoginThrottle(a) ==
    /\ bucket[a].lockUntil <= clock
    /\ bucket' = IF Stale(bucket[a]) THEN [bucket EXCEPT ![a] = NoBucket] ELSE bucket

LoginBegin(c, a, p) ==
    /\ login[c] = Away
    /\ EnforceLoginThrottle(a)
    /\ login' = [login EXCEPT ![c] = [at |-> "begun", account |-> a, password |-> p]]
    /\ UNCHANGED <<account, upgrade, clock, chosen, crossed, missed>>

\* findUnique answers with the row as it is.
LoginRead(c) ==
    /\ login[c].at = "begun"
    /\ login' = [login EXCEPT ![c] = [at |-> "found", account |-> login[c].account,
                    password |-> login[c].password, row |-> account[login[c].account]]]
    /\ UNCHANGED <<account, bucket, upgrade, clock, chosen, crossed, missed>>

\* The database is unavailable: the login ends, and counts for nothing.
LoginUnavailable(c) ==
    /\ login[c].at = "begun"
    /\ login' = [login EXCEPT ![c] = Away]
    /\ UNCHANGED <<account, bucket, upgrade, clock, chosen, crossed, missed>>

Verified(v) == ~v.row.disabled /\ v.row.password = v.password

\* A failure opens a window, or counts in the one that is open; the last one
\* of those allowed locks the account, and so does every one after it.
RegisterFailedLogin(a) ==
    LET b == bucket[a]  n == b.count + 1 IN
    bucket' = [bucket EXCEPT ![a] =
        IF b = NoBucket \/ Stale(b)
        THEN [count |-> 1, windowStartAt |-> clock, lockUntil |-> 0]
        ELSE [count |-> n, windowStartAt |-> b.windowStartAt,
              lockUntil |-> IF n >= LoginMaxFailures THEN clock + LoginWindow ELSE b.lockUntil]]

LoginFails(c) ==
    /\ login[c].at = "found"
    /\ ~Verified(login[c])
    /\ RegisterFailedLogin(login[c].account)
    /\ missed' = [missed EXCEPT ![login[c].account] = @ \cup {<<clock, Cardinality(@)>>}]
    /\ login' = [login EXCEPT ![c] = Away]
    /\ UNCHANGED <<account, upgrade, clock, chosen, crossed>>

\* The password is right: the failures are forgotten, an old hash is replaced
\* by a new one of the password that was given, in a query nobody waits for.
LoginSucceeds(c) ==
    LET v == login[c]  a == v.account IN
    /\ v.at = "found"
    /\ Verified(v)
    /\ bucket' = [bucket EXCEPT ![a] = NoBucket]
    /\ missed' = [missed EXCEPT ![a] = {}]
    /\ upgrade' = IF v.row.old
                  THEN upgrade \cup {[account |-> a, password |-> v.password]} ELSE upgrade
    /\ crossed' = crossed \cup {b \in {a} : v.row.old /\ account[a].password # v.password}
    /\ login' = [login EXCEPT ![c] = Away]
    /\ UNCHANGED <<account, clock, chosen>>

\* Fault: the upgrade goes by the login that is in flight.
UpgradeWithLastGuess(u) ==
    /\ u \in upgrade
    /\ \E c \in Logging : login[c].at = "found" /\ login[c].account = u.account
        /\ account' = [account EXCEPT ![u.account].password = login[c].password,
                                      ![u.account].old = FALSE]
    /\ upgrade' = upgrade \ {u}
    /\ UNCHANGED <<bucket, login, clock, chosen, crossed, missed>>

\* The upgrade reaches the row, whatever the row holds by now.
UpgradeHash(u) ==
    /\ u \in upgrade
    /\ account' = [account EXCEPT ![u.account].password = u.password,
                                  ![u.account].old = FALSE]
    /\ upgrade' = upgrade \ {u}
    /\ UNCHANGED <<bucket, login, clock, chosen, crossed, missed>>

UpgradeFails(u) ==
    /\ u \in upgrade
    /\ upgrade' = upgrade \ {u}
    /\ UNCHANGED <<account, bucket, login, clock, chosen, crossed, missed>>

\* updateUser of an administrator.
SetPassword(a, p) ==
    /\ account' = [account EXCEPT ![a].password = p, ![a].old = FALSE]
    /\ chosen' = [chosen EXCEPT ![a] = p]
    /\ crossed' = IF \E u \in upgrade : u.account = a THEN crossed \cup {a} ELSE crossed \ {a}
    /\ UNCHANGED <<bucket, login, upgrade, clock, missed>>

SetDisabled(a, disabled) ==
    /\ account' = [account EXCEPT ![a].disabled = disabled]
    /\ UNCHANGED <<bucket, login, upgrade, clock, chosen, crossed, missed>>

LoginTick ==
    /\ clock < MaxTime
    /\ clock' = clock + 1
    /\ UNCHANGED <<account, bucket, login, upgrade, chosen, crossed, missed>>

LoginsNext ==
    \/ \E c \in Logging, a \in Accounts, p \in Passwords : LoginBegin(c, a, p)
    \/ \E c \in Logging : LoginRead(c) \/ LoginUnavailable(c) \/ LoginFails(c) \/ LoginSucceeds(c)
    \/ \E u \in upgrade : UpgradeHash(u) \/ UpgradeFails(u)
    \/ \E a \in Accounts, p \in Passwords : SetPassword(a, p)
    \/ \E a \in Accounts, d \in BOOLEAN : SetDisabled(a, d)
    \/ LoginTick

LoginsSpec == LoginsInit /\ [][LoginsNext]_loginVars

----------------------------------------------------------------------------
LoginsTypeOK ==
    /\ account \in [Accounts -> Rows]
    /\ bucket \in [Accounts -> [count : Nat, windowStartAt : Moments,
                                lockUntil : 0 .. MaxTime + LoginWindow]]
    /\ \A c \in Logging : login[c] \in
        {Away} \cup [at : {"begun"}, account : Accounts, password : Passwords]
        \cup [at : {"found"}, account : Accounts, password : Passwords, row : Rows]
    /\ upgrade \subseteq [account : Accounts, password : Passwords]
    /\ clock \in Moments
    /\ chosen \in [Accounts -> Passwords]
    /\ crossed \subseteq Accounts
    /\ missed \in [Accounts -> SUBSET (Moments \X Nat)]

\* However logins overlap, in no span as long as a window, between two that
\* succeed, an account is guessed at more often than the failures of two windows
\* that touch allow, the first without the one it began with, and the guesses
\* that were in flight when each lock fell.
GuessesBounded ==
    \A a \in Accounts : Cardinality({g \in missed[a] : g[1] > clock - LoginWindow})
        <= 2 * LoginMaxFailures - 1 + 2 * (Cardinality(Logging) - 1)

\* The password of an account is the one an administrator set last, unless it
\* was set while the upgrade of an old hash was on its way.
PasswordKept == \A a \in Accounts : a \notin crossed => account[a].password = chosen[a]

\* Logins that overlap each other, or a change of the password, neither open
\* the account to guessing nor bring an old password back.
AccountsGuarded == GuessesBounded /\ PasswordKept
=============================================================================
