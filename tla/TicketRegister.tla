--------------------------- MODULE TicketRegister ---------------------------
(***************************************************************************)
(* What the ticket service promises about ticket numbers, with no request, *)
(* retry or crash in sight: a register gives every new ticket the lowest   *)
(* number not given yet, and an entry never changes.  Emptying the         *)
(* register (a demo reset) costs the order, never the uniqueness.          *)
(***************************************************************************)
EXTENDS Naturals

CONSTANT Ids                \* the tickets there can be

VARIABLES register,         \* a function from some of Ids to their numbers
          wiped             \* the register was emptied at least once

vars == <<register, wiped>>

Given == {register[t] : t \in DOMAIN register}

Init == register = [t \in {} |-> 0] /\ wiped = FALSE

\* t enters with an unused number: the next one, unless the register was wiped.
Enter(t) ==
    /\ t \notin DOMAIN register
    /\ DOMAIN register' = DOMAIN register \cup {t}
    /\ \A u \in DOMAIN register : register'[u] = register[u]
    /\ register'[t] \in Nat \ ({0} \cup Given)
    /\ ~wiped => \A k \in 1..(register'[t] - 1) : k \in Given
    /\ wiped' = wiped

Wipe == register' = [t \in {} |-> 0] /\ wiped' = TRUE

Next == (\E t \in Ids : Enter(t)) \/ Wipe

Spec == Init /\ [][Next]_vars
=============================================================================
