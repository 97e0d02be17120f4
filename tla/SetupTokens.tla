----------------------------- MODULE SetupTokens -----------------------------
(***************************************************************************)
(* The one-time tokens of a remote setup in SetupService, and the sessions *)
(* they are exchanged for, which SetupController asks of every setup call  *)
(* that does not come from the host itself.                                *)
(*                                                                         *)
(* Everything is kept in the configuration file, and no handler here waits *)
(* for anything between reading and saving it: each is one step.  The setup*)
(* that a session was let in for takes longer; Setup models it.            *)
(***************************************************************************)
EXTENDS Naturals

CONSTANTS SetupTokensMade,  \* the tokens created in a run, numbered from 1
          TokenTtls,        \* lives of a token, in ticks
          SessionTtl,       \* defaultSetupSessionTtlMinutes, in ticks
          MaxAttempts,      \* numbers of wrong guesses a token may be given
          TokenTime         \* bound on the clock

ASSUME SetupTokensAssumption ==
    /\ SetupTokensMade \in Nat
    /\ TokenTtls \subseteq Nat \ {0}
    /\ SessionTtl \in Nat \ {0}
    /\ MaxAttempts \subseteq Nat \ {0}
    /\ TokenTime \in Nat

VARIABLES
    remote,    \* the remote setup as the configuration has it
    made,      \* number of tokens created
    hour,      \* Date.now()
    visiting,  \* sessions let in for a setup that is not over
    guesses,   \* auxiliary: wrong guesses answered while each token could be claimed
    claims,    \* auxiliary: sessions each token was exchanged for
    over       \* auxiliary: tokens and their sessions which a newer token, a
               \* revocation, a finished setup or a reset put an end to

tokenVars == <<remote, made, hour, visiting, guesses, claims, over>>

TokenIds == 1 .. SetupTokensMade
NoToken == 0
Hours == 0 .. TokenTime

\* A configuration without a token, in setup mode or not.
Fresh(setupMode) ==
    [setupMode |-> setupMode, token |-> NoToken, until |-> 0, attempts |-> 0, max |-> 1,
     session |-> NoToken, sessionUntil |-> 0]

TokensInit ==
    /\ remote = Fresh(TRUE)
    /\ made = 0
    /\ hour = 0
    /\ visiting = {}
    /\ guesses = [t \in TokenIds |-> 0]
    /\ claims = [t \in TokenIds |-> 0]
    /\ over = {}

----------------------------------------------------------------------------
\* A new token replaces the one before, and its session.
CreateRemoteSetupToken(ttl, max) ==
    /\ remote.setupMode
    /\ made < SetupTokensMade
    /\ made' = made + 1
    /\ remote' = [Fresh(TRUE) EXCEPT !.token = made', !.until = hour + ttl, !.max = max]
    /\ over' = over \cup 1 .. made
    /\ UNCHANGED <<hour, visiting, guesses, claims>>

Claimable == remote.setupMode /\ remote.token # NoToken /\ remote.until # 0

\* It is claimed too late: it is forgotten.
ClaimExpired ==
    /\ Claimable
    /\ remote.until <= hour
    /\ remote' = [remote EXCEPT !.token = NoToken, !.attempts = 0]
    /\ UNCHANGED <<made, hour, visiting, guesses, claims, over>>

\* A wrong guess is counted, and the last of those allowed locks the token.
ClaimWrong ==
    LET n == remote.attempts + 1 IN
    /\ Claimable
    /\ remote.until > hour
    /\ remote.attempts < remote.max
    /\ remote' = [remote EXCEPT !.attempts = n, !.token = IF n >= remote.max THEN NoToken ELSE @]
    /\ guesses' = [guesses EXCEPT ![remote.token] = @ + 1]
    /\ UNCHANGED <<made, hour, visiting, claims, over>>

\* The token is exchanged for a session, whose life begins now.
ClaimRemoteSetupToken ==
    /\ Claimable
    /\ remote.until > hour
    /\ remote.attempts < remote.max
    /\ remote' = [remote EXCEPT !.token = NoToken, !.attempts = 0,
                                !.session = remote.token, !.sessionUntil = hour + SessionTtl]
    /\ claims' = [claims EXCEPT ![remote.token] = @ + 1]
    /\ UNCHANGED <<made, hour, visiting, guesses, over>>

\* Fault: a revocation takes the token back, not the session.
RevokeTokenOnly ==
    /\ remote' = [remote EXCEPT !.token = NoToken, !.until = 0, !.attempts = 0]
    /\ over' = over \cup 1 .. made
    /\ UNCHANGED <<made, hour, visiting, guesses, claims>>

\* Revoked by the host, or by the session itself; a finished setup is no
\* obstacle.
RevokeRemoteSetupToken ==
    /\ remote' = Fresh(remote.setupMode)
    /\ over' = over \cup 1 .. made
    /\ UNCHANGED <<made, hour, visiting, guesses, claims>>

----------------------------------------------------------------------------
\* validateSetupSessionToken: the session that is asked for is the one in the
\* configuration, or is refused; one that has expired is forgotten.
SessionExpired ==
    /\ remote.setupMode
    /\ remote.session # NoToken
    /\ remote.sessionUntil <= hour
    /\ remote' = [remote EXCEPT !.session = NoToken, !.sessionUntil = 0]
    /\ UNCHANGED <<made, hour, visiting, guesses, claims, over>>

AssertSetupAccess(t) ==
    /\ remote.setupMode
    /\ remote.session = t
    /\ remote.sessionUntil > hour
    /\ t \notin visiting
    /\ visiting' = visiting \cup {t}
    /\ UNCHANGED <<remote, made, hour, guesses, claims, over>>

\* The setup a session was let in for ends, or fails and leaves the session.
VisitEnds(t) ==
    /\ t \in visiting
    /\ visiting' = visiting \ {t}
    /\ \/ UNCHANGED <<remote, over>>
       \/ remote' = Fresh(FALSE) /\ over' = over \cup 1 .. made
    /\ UNCHANGED <<made, hour, guesses, claims>>

\* The host itself finishes a setup.
SetupFinished ==
    /\ remote.setupMode
    /\ remote' = Fresh(FALSE)
    /\ over' = over \cup 1 .. made
    /\ UNCHANGED <<made, hour, visiting, guesses, claims>>

\* The development reset removes the configuration.
SetupReset ==
    /\ ~remote.setupMode
    /\ remote' = Fresh(TRUE)
    /\ over' = over \cup 1 .. made
    /\ UNCHANGED <<made, hour, visiting, guesses, claims>>

HourPasses ==
    /\ hour < TokenTime
    /\ hour' = hour + 1
    /\ UNCHANGED <<remote, made, visiting, guesses, claims, over>>

TokensNext ==
    \/ \E ttl \in TokenTtls, max \in MaxAttempts : CreateRemoteSetupToken(ttl, max)
    \/ ClaimExpired \/ ClaimWrong \/ ClaimRemoteSetupToken
    \/ RevokeRemoteSetupToken
    \/ SessionExpired
    \/ \E t \in TokenIds : AssertSetupAccess(t) \/ VisitEnds(t)
    \/ SetupFinished \/ SetupReset
    \/ HourPasses

TokensSpec == TokensInit /\ [][TokensNext]_tokenVars

----------------------------------------------------------------------------
TokensTypeOK ==
    /\ remote \in [setupMode : BOOLEAN, token : TokenIds \cup {NoToken}, until : Nat,
                   attempts : Nat, max : MaxAttempts \cup {1},
                   session : TokenIds \cup {NoToken}, sessionUntil : Nat]
    /\ made \in 0 .. SetupTokensMade
    /\ hour \in Hours
    /\ visiting \subseteq TokenIds
    /\ guesses \in [TokenIds -> Nat]
    /\ claims \in [TokenIds -> Nat]
    /\ over \subseteq TokenIds

\* docs/REMOTE_INSTALL_LINUX.md:49, a token is good for one session and its
\* guesses are limited: a token that can still be claimed has been guessed at
\* less often than it allows, and has given no session.
OneTime ==
    /\ \A t \in TokenIds : claims[t] <= 1
    /\ Claimable => claims[remote.token] = 0 /\ guesses[remote.token] < remote.max

\* docs/REMOTE_INSTALL_LINUX.md:50, the setup is closed once it is over: neither
\* a token nor a session that a newer one, a revocation, a finished setup or a
\* reset put an end to can still be used.
EndedForGood == remote.setupMode => remote.token \notin over /\ remote.session \notin over

\* What a remote setup rests on.
TokensEnd == OneTime /\ EndedForGood
=============================================================================
