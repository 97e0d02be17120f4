------------------------------ MODULE Discovery ------------------------------
(***************************************************************************)
(* discoverRemoteServers: the addresses of the local network are probed    *)
(* by a pool of workers that share one index, each probe two fetches with  *)
(* a timeout.  A worker runs from one answer to its next fetch without     *)
(* waiting.  Of the servers that answered the quickest are told, at most   *)
(* as many as the caller wants.  The addresses are distinct and without a  *)
(* trailing slash, so no two results have the same apiBaseUrl.             *)
(***************************************************************************)
EXTENDS Naturals, FiniteSets

CONSTANTS Targets,     \* number of addresses buildDiscoveryTargets lists
          Pool,        \* limit of mapWithConcurrency
          MaxResults,  \* maxResults, clamped to 1 .. 100
          Latencies    \* what latencyMs may be, 1 at least

ASSUME DiscoveryAssumption ==
    /\ Targets \in Nat /\ Pool \in Nat \ {0}
    /\ MaxResults \in 1 .. 100
    /\ Latencies \subseteq Nat \ {0}

VARIABLES
    index,     \* the next address nobody took
    worker,    \* what each worker waits for
    result,    \* results, by position: latencyMs of a server, or 0 for null
    found,     \* the servers that are answered, once the scan is over
    probes,    \* auxiliary: how often each address was asked
    healthy    \* auxiliary: addresses that answered as healthy

scanVars == <<index, worker, result, found, probes, healthy>>

Positions == 1 .. Targets
Workers == 1 .. (IF Pool < Targets THEN Pool ELSE Targets)
Waiting(at, i) == [at |-> at, on |-> i]
NotStarted == Waiting("start", 0)
Finished == Waiting("finished", 0)

DiscoveryInit ==
    /\ index = 1
    /\ worker = [w \in Workers |-> NotStarted]
    /\ result = [i \in Positions |-> 0]
    /\ found = {}
    /\ probes = [i \in Positions |-> 0]
    /\ healthy = {}

\* Fault: the index is advanced only after the answer.
NextWithoutTaking(w) ==
    IF index > Targets
    THEN worker' = [worker EXCEPT ![w] = Finished] /\ UNCHANGED <<index, probes>>
    ELSE /\ worker' = [worker EXCEPT ![w] = Waiting("health", index)]
         /\ index' = IF worker[w] = NotStarted THEN index ELSE index + 1
         /\ probes' = [probes EXCEPT ![index] = @ + 1]

\* Fault: one address too many.
TakeOneTooMany(w) ==
    IF index > Targets + 1
    THEN worker' = [worker EXCEPT ![w] = Finished] /\ UNCHANGED <<index, probes>>
    ELSE /\ worker' = [worker EXCEPT ![w] = Waiting("health", index)]
         /\ index' = index + 1
         /\ probes' = [probes EXCEPT ![index] = @ + 1]

\* A worker takes the next address, if there is one.
TakeNext(w) ==
    IF index > Targets
    THEN worker' = [worker EXCEPT ![w] = Finished] /\ UNCHANGED <<index, probes>>
    ELSE /\ worker' = [worker EXCEPT ![w] = Waiting("health", index)]
         /\ index' = index + 1
         /\ probes' = [probes EXCEPT ![index] = @ + 1]

StartWorker(w) ==
    /\ worker[w] = NotStarted
    /\ TakeNext(w)
    /\ UNCHANGED <<result, found, healthy>>

\* No answer in time, another status, or not the health of this program.
HealthFails(w) ==
    /\ worker[w].at = "health"
    /\ TakeNext(w)
    /\ UNCHANGED <<result, found, healthy>>

HealthOk(w) ==
    /\ worker[w].at = "health"
    /\ worker' = [worker EXCEPT ![w].at = "info"]
    /\ healthy' = healthy \cup {worker[w].on}
    /\ UNCHANGED <<index, result, found, probes>>

\* The details are left out when they cannot be read; the server counts.
InfoEnds(w, latency) ==
    /\ worker[w].at = "info"
    /\ result' = [result EXCEPT ![worker[w].on] = latency]
    /\ TakeNext(w)
    /\ UNCHANGED <<found, healthy>>

\* The order of the sort by latency, which keeps equals as they were.
Before(i, j) == result[i] < result[j] \/ (result[i] = result[j] /\ i < j)

\* The first MaxResults of the answers, or all when there are no more.
Servers == {i \in Positions : result[i] # 0}
IsFirst(first) ==
    /\ Cardinality(first) = IF Cardinality(Servers) > MaxResults THEN MaxResults
                            ELSE Cardinality(Servers)
    /\ \A i \in first, j \in Servers \ first : Before(i, j)

\* Promise.all: when every worker is through, the results are answered.
ScanEnds ==
    /\ \A w \in Workers : worker[w] = Finished
    /\ \E first \in SUBSET Servers : IsFirst(first) /\ found' = first
    /\ worker' = [w \in Workers |-> Waiting("answered", 0)]
    /\ UNCHANGED <<index, result, probes, healthy>>

DiscoveryNext ==
    \/ \E w \in Workers :
        \/ StartWorker(w) \/ HealthFails(w) \/ HealthOk(w)
        \/ \E latency \in Latencies : InfoEnds(w, latency)
    \/ ScanEnds

DiscoverySpec == DiscoveryInit /\ [][DiscoveryNext]_scanVars

----------------------------------------------------------------------------
DiscoveryTypeOK ==
    /\ index \in 1 .. Targets + 1
    /\ \A w \in Workers : worker[w] \in
         [at : {"start", "health", "info", "finished", "answered"}, on : 0 .. Targets]
    /\ result \in [Positions -> Latencies \cup {0}]
    /\ found \subseteq Positions
    /\ probes \in [Positions -> Nat]
    /\ healthy \subseteq Positions

\* However the answers interleave, every address is asked once and no more.  A
\* scan that is over names only servers that answered, MaxResults at most, and
\* leaves one out only in favour of MaxResults that were no slower.
ScanComplete ==
    /\ \A i \in Positions : probes[i] = IF i < index THEN 1 ELSE 0
    /\ (\E w \in Workers : worker[w].at = "answered") =>
         /\ index = Targets + 1
         /\ found \subseteq healthy /\ Cardinality(found) <= MaxResults
         /\ \A i \in healthy \ found :
              Cardinality(found) = MaxResults /\ \A j \in found : result[j] <= result[i]
=============================================================================
