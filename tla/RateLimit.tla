------------------------------ MODULE RateLimit ------------------------------
(***************************************************************************)
(* The request limiter that bootstrap puts before the routes: a counter    *)
(* for each rule and address, which begins anew with the first request     *)
(* after its window.  A key is a rule and an address.  The limiter runs    *)
(* to its end without waiting, so each request is one step.                *)
(***************************************************************************)
EXTENDS Integers, FiniteSets, Functions

CONSTANTS Limited,     \* rules and addresses that meet a rule
          Limit,       \* requests a window allows
          Window,      \* windowMs, in ticks
          MaxBuckets,  \* the number of counters above which old ones are dropped
          LastTick,    \* bound on the clock
          Burst        \* bound on the requests of a key in one tick

ASSUME RateLimitAssumption ==
    /\ Limit \in Nat \ {0} /\ Window \in Nat \ {0}
    /\ MaxBuckets \in Nat /\ LastTick \in Nat /\ Burst \in Nat

VARIABLES
    buckets,  \* the counters that exist
    tick,     \* Date.now()
    asked,    \* auxiliary: requests of each key in this tick
    passed    \* auxiliary: the requests of each key that were let through: the
              \* tick of each, and its number in that tick

rateVars == <<buckets, tick, asked, passed>>

Ticks == 0 .. LastTick
RateInit ==
    /\ buckets = [k \in {} |-> [count |-> 0, resetAt |-> 0]]
    /\ tick = 0
    /\ asked = [k \in Limited |-> 0]
    /\ passed = [k \in Limited |-> {}]

Ask(k) == asked[k] < Burst /\ asked' = [asked EXCEPT ![k] = @ + 1]
Pass(k) == passed' = [passed EXCEPT ![k] = @ \cup {<<tick, asked[k]>>}]
Open(k) == k \in DOMAIN buckets /\ tick < buckets[k].resetAt
Counted(k) == [buckets EXCEPT ![k].count = @ + 1]

\* The first request, and the first after a window, opens one.
OpenWindow(k) ==
    /\ Ask(k)
    /\ ~Open(k)
    /\ buckets' = [j \in DOMAIN buckets \cup {k} |->
         IF j = k THEN [count |-> 1, resetAt |-> tick + Window] ELSE buckets[j]]
    /\ Pass(k)
    /\ UNCHANGED tick

\* Above the limit a request is refused, and counted all the same.
Refuse(k) ==
    /\ Ask(k)
    /\ Open(k)
    /\ buckets[k].count + 1 > Limit
    /\ buckets' = Counted(k)
    /\ UNCHANGED <<tick, passed>>

\* Fault: when there are too many counters all are dropped.
AllowAndDropAll(k) ==
    /\ Ask(k)
    /\ Open(k)
    /\ buckets[k].count + 1 <= Limit
    /\ buckets' = IF Cardinality(DOMAIN buckets) <= MaxBuckets THEN Counted(k)
                  ELSE [j \in {} |-> buckets[k]]
    /\ Pass(k)
    /\ UNCHANGED tick

\* Within the limit it passes; when there are too many counters those whose
\* window is over are dropped.
Allow(k) ==
    /\ Ask(k)
    /\ Open(k)
    /\ buckets[k].count + 1 <= Limit
    /\ buckets' = IF Cardinality(DOMAIN buckets) <= MaxBuckets THEN Counted(k)
                  ELSE Restrict(Counted(k), {j \in DOMAIN buckets : Open(j)})
    /\ Pass(k)
    /\ UNCHANGED tick

TickRate ==
    /\ tick < LastTick
    /\ tick' = tick + 1
    /\ asked' = [k \in Limited |-> 0]
    /\ UNCHANGED <<buckets, passed>>

RateNext ==
    \/ \E k \in Limited : OpenWindow(k) \/ Refuse(k) \/ Allow(k)
    \/ TickRate

RateSpec == RateInit /\ [][RateNext]_rateVars

----------------------------------------------------------------------------
RateTypeOK ==
    /\ DOMAIN buckets \subseteq Limited
    /\ \A k \in DOMAIN buckets : buckets[k] \in [count : Nat, resetAt : Nat]
    /\ tick \in Ticks
    /\ asked \in [Limited -> 0 .. Burst]
    /\ passed \in [Limited -> SUBSET (Ticks \X (0 .. Burst))]

\* In no span as long as a window, which may end at any moment, more requests
\* of a key pass than two windows that touch allow, whatever else is dropped.
PassesBounded ==
    \A k \in Limited : Cardinality({p \in passed[k] : p[1] > tick - Window}) <= 2 * Limit - 1
=============================================================================
