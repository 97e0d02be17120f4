--------------------------- MODULE TicketsProofs ---------------------------
(***************************************************************************)
(* Proofs about the ticket service for every set of requests, every set of *)
(* statuses, every number of attempts and every size of a demo load.       *)
(***************************************************************************)
EXTENDS Tickets, TLAPS

\* What the handlers know at each await about their own local variables.
LocalFacts ==
    \A r \in Requests :
        /\ pc[r] \in {"demoRead", "demoInsert"} => left[r] \in 1..DemoCount
        /\ pc[r] \in {"createInsert", "demoInsert", "demoRows"}
             => number[r] \in Nat \ {0}
        /\ pc[r] \in {"updateHistory", "demoRows"} => wanted[r] \in Statuses

Typed == TypeOK /\ LocalFacts

\* Inserting a row keeps the table well typed.
LEMMA InsertTyped ==
    ASSUME TypeOK, NEW t \in TicketIds, NEW n \in Nat \ {0},
           NEW s \in Statuses, NEW c \in BOOLEAN, InsertTicket(t, n, s, c)
    PROVE  /\ DOMAIN tickets' = DOMAIN tickets \cup {t}
           /\ DOMAIN tickets' \subseteq TicketIds
           /\ tickets' \in [DOMAIN tickets' -> Row]
BY DEF TypeOK, InsertTicket, Row

LEMMA TypedInit == Init => Typed
<1> SUFFICES ASSUME Init PROVE Typed
  OBVIOUS
<1>1. DOMAIN tickets = {} /\ tickets \in [DOMAIN tickets -> Row]
  BY DEF Init
<1>2. /\ target \in [Requests -> TicketIds]
      /\ existing \in [Requests -> Snapshot]
  BY TicketsAssumption DEF Init, TicketIds, Snapshot
<1>3. /\ attempt \in [Requests -> 1..MaxAttempts]
      /\ left \in [Requests -> 0..DemoCount]
      /\ wanted \in [Requests -> Statuses \cup {NoStatus}]
      /\ number \in [Requests -> Nat]
      /\ base \in [Requests -> Nat]
  BY TicketsAssumption DEF Init
<1>4. /\ pc \in [Requests -> {"idle"} \cup InFlight \cup Ended]
      /\ history \subseteq HistoryEntry
      /\ wiped \in BOOLEAN
      /\ contended \subseteq TicketIds
  BY DEF Init
<1>5. TypeOK
  BY <1>1, <1>2, <1>3, <1>4 DEF TypeOK
<1> QED BY <1>5 DEF Init, Typed, LocalFacts

LEMMA TypedStep == Typed /\ [Next]_vars => Typed'
<1> SUFFICES ASSUME Typed, [Next]_vars PROVE Typed'
  OBVIOUS
<1> USE TicketsAssumption DEF Typed, TypeOK, LocalFacts, GoTo, db, local, aux,
        InFlight, Creating, Updating, Loading, Ended
<1>1. ASSUME NEW r \in Requests, CreateBegin(r) PROVE Typed'
  <2>1. PICK m \in {0} \cup Numbers : base' = [base EXCEPT ![r] = m]
    BY <1>1 DEF CreateBegin
  <2>2. m \in Nat
    BY DEF Numbers, Row
  <2> QED BY <1>1, <2>1, <2>2 DEF CreateBegin
<1>2. ASSUME NEW r \in Requests, CreateResolve(r) PROVE Typed'
  BY <1>2 DEF CreateResolve
<1>3. ASSUME NEW r \in Requests, NextTicketNumber(r) PROVE Typed'
  <2>1. PICK m \in {0} \cup Numbers : number' = [number EXCEPT ![r] = m + 1]
    BY <1>3 DEF NextTicketNumber
  <2>2. m \in Nat
    BY DEF Numbers, Row
  <2> QED BY <1>3, <2>1, <2>2 DEF NextTicketNumber
<1>4. ASSUME NEW r \in Requests, CreateInsert(r) PROVE Typed'
  <2>1. <<r, 1>> \in TicketIds
    BY DEF TicketIds
  <2>2. /\ DOMAIN tickets' \subseteq TicketIds
        /\ tickets' \in [DOMAIN tickets' -> Row]
    BY <1>4, <2>1, InsertTyped DEF CreateInsert
  <2> QED BY <1>4, <2>1, <2>2 DEF CreateInsert
<1>5. ASSUME NEW r \in Requests, NumberCollision(r) PROVE Typed'
  BY <1>5 DEF NumberCollision
<1>6. ASSUME NEW r \in Requests, CreateHistory(r) PROVE Typed'
  BY <1>6 DEF CreateHistory, AddHistory, HistoryEntry
<1>7. ASSUME NEW r \in Requests, UpdateBegin(r) PROVE Typed'
  <2>1. PICK t \in DOMAIN tickets, s \in Statuses \cup {NoStatus} :
          /\ target' = [target EXCEPT ![r] = t]
          /\ wanted' = [wanted EXCEPT ![r] = s]
          /\ existing' = [existing EXCEPT ![r] =
                [status |-> tickets[t].status, closed |-> tickets[t].closed]]
          /\ contended' \in {contended, contended \cup {t}}
    BY <1>7 DEF UpdateBegin
  <2>2. t \in TicketIds
    OBVIOUS
  <2>3. [status |-> tickets[t].status, closed |-> tickets[t].closed] \in Snapshot
    BY DEF Snapshot, Row
  <2>4. /\ target' \in [Requests -> TicketIds]
        /\ wanted' \in [Requests -> Statuses \cup {NoStatus}]
        /\ existing' \in [Requests -> Snapshot]
        /\ contended' \subseteq TicketIds
    BY <2>1, <2>2, <2>3
  <2> QED BY <1>7, <2>1, <2>4 DEF UpdateBegin
<1>8. ASSUME NEW r \in Requests, UpdateNotFound(r) PROVE Typed'
  BY <1>8 DEF UpdateNotFound
<1>9. ASSUME NEW r \in Requests, UpdateResolve(r) PROVE Typed'
  BY <1>9 DEF UpdateResolve, ChangesStatus
<1>10. ASSUME NEW r \in Requests, UpdateHistory(r) PROVE Typed'
  <2>1. existing[r].status \in Statuses
    BY DEF Snapshot
  <2>2. history' \subseteq HistoryEntry
    BY <1>10, <2>1 DEF UpdateHistory, AddHistory, HistoryEntry
  <2> QED BY <1>10, <2>2 DEF UpdateHistory
<1>11. ASSUME NEW r \in Requests, UpdateWrite(r) PROVE Typed'
  <2>1. ASSUME NEW row \in Row PROVE Patched(row, r) \in Row
    BY DEF Patched, ChangesStatus, Row, Snapshot
  <2>2. /\ DOMAIN tickets' = DOMAIN tickets
        /\ tickets' \in [DOMAIN tickets -> Row]
    BY <1>11, <2>1 DEF UpdateWrite
  <2> QED BY <1>11, <2>2 DEF UpdateWrite
<1>12. ASSUME NEW r \in Requests, NEW reset \in BOOLEAN, DemoBegin(r, reset)
       PROVE  Typed'
  <2>1. PICK n \in 1..DemoCount : left' = [left EXCEPT ![r] = n]
    BY <1>12 DEF DemoBegin
  <2>2. /\ DOMAIN tickets' \subseteq TicketIds
        /\ tickets' \in [DOMAIN tickets' -> Row]
        /\ history' \subseteq HistoryEntry
        /\ wiped' \in BOOLEAN
    <3>1. CASE reset
      <4>1. tickets' = [t \in {} |-> {}]
        BY <1>12, <3>1 DEF DemoBegin
      <4>2. DOMAIN tickets' = {} /\ tickets' \in [DOMAIN tickets' -> Row]
        BY <4>1
      <4> QED BY <1>12, <3>1, <4>2 DEF DemoBegin
    <3>2. CASE ~reset
      BY <1>12, <3>2 DEF DemoBegin
    <3> QED BY <3>1, <3>2
  <2> QED BY <1>12, <2>1, <2>2 DEF DemoBegin
<1>13. ASSUME NEW r \in Requests, DemoReadNumber(r) PROVE Typed'
  <2>1. PICK m \in {0} \cup Numbers : number' = [number EXCEPT ![r] = m + 1]
    BY <1>13 DEF DemoReadNumber
  <2>2. m \in Nat
    BY DEF Numbers, Row
  <2> QED BY <1>13, <2>1, <2>2 DEF DemoReadNumber
<1>14. ASSUME NEW r \in Requests, DemoInsert(r) PROVE Typed'
  <2>1. <<r, left[r]>> \in TicketIds
    BY <1>14 DEF DemoInsert, TicketIds
  <2>2. PICK s \in DemoStatuses :
          /\ InsertTicket(<<r, left[r]>>, number[r], s, DemoClosed(s))
          /\ wanted' = [wanted EXCEPT ![r] = s]
    BY <1>14 DEF DemoInsert
  <2>3. s \in Statuses /\ number[r] \in Nat \ {0}
    BY <1>14 DEF DemoStatuses, DemoInsert
  <2>4. /\ DOMAIN tickets' \subseteq TicketIds
        /\ tickets' \in [DOMAIN tickets' -> Row]
    <3>1. CASE DemoClosed(s)
      <4>0. DemoClosed(s) = TRUE
        BY <3>1 DEF DemoClosed
      <4>1. InsertTicket(<<r, left[r]>>, number[r], s, TRUE)
        BY <2>2, <4>0 DEF InsertTicket
      <4> QED BY ONLY Typed, <4>1, <2>1, <2>3, InsertTyped DEF Typed
    <3>2. CASE ~DemoClosed(s)
      <4>0. DemoClosed(s) = FALSE
        BY <3>2 DEF DemoClosed
      <4>1. InsertTicket(<<r, left[r]>>, number[r], s, FALSE)
        BY <2>2, <4>0 DEF InsertTicket
      <4> QED BY ONLY Typed, <4>1, <2>1, <2>3, InsertTyped DEF Typed
    <3> QED BY <3>1, <3>2
  <2> QED BY <1>14, <2>1, <2>2, <2>3, <2>4 DEF DemoInsert
<1>15. ASSUME NEW r \in Requests, DemoCollision(r) PROVE Typed'
  BY <1>15 DEF DemoCollision
<1>16. ASSUME NEW r \in Requests, DemoRows(r) PROVE Typed'
  BY <1>16 DEF DemoRows, AddHistory, HistoryEntry
<1>17. ASSUME Crash PROVE Typed'
  BY <1>17 DEF Crash
<1>18. ASSUME UNCHANGED vars PROVE Typed'
  BY <1>18 DEF vars
<1> QED
  BY <1>1, <1>2, <1>3, <1>4, <1>5, <1>6, <1>7, <1>8, <1>9, <1>10, <1>11,
     <1>12, <1>13, <1>14, <1>15, <1>16, <1>17, <1>18
  DEF Next, Accept, HandlerStep, AllServed

\* The variables of the ticket service keep their types.
THEOREM TypeCorrect == Spec => []TypeOK
<1>1. Spec => []Typed
  BY TypedInit, TypedStep, PTL DEF Spec
<1>2. Typed => TypeOK
  BY DEF Typed
<1> QED BY <1>1, <1>2, PTL

----------------------------------------------------------------------------
(* Row identifiers are fresh: an identifier in the table, or held by an    *)
(* update in flight, is one its creator can no longer insert.              *)

Placed(q, k) == \/ pc[q] \in {"createHistory"} \cup Updating \cup Ended
                \/ pc[q] \in Loading /\ left[q] < k

FreshIds ==
    \A q \in Requests, k \in 1..DemoCount :
        /\ <<q, k>> \in DOMAIN tickets => Placed(q, k)
        /\ \A r \in Requests :
             pc[r] \in Updating /\ target[r] = <<q, k>> => Placed(q, k)

\* Once placed, an identifier stays placed.
LEMMA PlacedStable ==
    ASSUME Typed, [Next]_vars, NEW q \in Requests, NEW k \in 1..DemoCount, Placed(q, k)
    PROVE  Placed(q, k)'
<1> USE DEF Typed, TypeOK, GoTo, db, local, aux, Placed,
        InFlight, Creating, Updating, Loading, Ended
<1>1. ASSUME NEW r \in Requests, CreateBegin(r) \/ CreateResolve(r) \/ NextTicketNumber(r)
                \/ CreateInsert(r) \/ NumberCollision(r) \/ CreateHistory(r)
      PROVE  Placed(q, k)'
  BY <1>1 DEF CreateBegin, CreateResolve, NextTicketNumber, CreateInsert,
              NumberCollision, CreateHistory
<1>2. ASSUME NEW r \in Requests, UpdateBegin(r) \/ UpdateNotFound(r) \/ UpdateResolve(r)
                \/ UpdateHistory(r) \/ UpdateWrite(r)
      PROVE  Placed(q, k)'
  BY <1>2 DEF UpdateBegin, UpdateNotFound, UpdateResolve, UpdateHistory, UpdateWrite
<1>3. ASSUME NEW r \in Requests, NEW reset \in BOOLEAN, DemoBegin(r, reset)
      PROVE  Placed(q, k)'
  BY <1>3 DEF DemoBegin
<1>4. ASSUME NEW r \in Requests,
             DemoReadNumber(r) \/ DemoInsert(r) \/ DemoCollision(r) \/ DemoRows(r)
      PROVE  Placed(q, k)'
  BY <1>4 DEF DemoReadNumber, DemoInsert, DemoCollision, DemoRows
<1>5. ASSUME Crash PROVE Placed(q, k)'
  BY <1>5 DEF Crash
<1>6. ASSUME UNCHANGED vars PROVE Placed(q, k)'
  BY <1>6 DEF vars
<1> QED
  BY <1>1, <1>2, <1>3, <1>4, <1>5, <1>6 DEF Next, Accept, HandlerStep, AllServed

(* Only three things ever happen to the table: a fresh row with an unused  *)
(* number appears, the table is emptied, or rows keep their numbers.       *)
Inserts(t, n) ==
    /\ t \notin DOMAIN tickets /\ n \notin Numbers
    /\ DOMAIN tickets' = DOMAIN tickets \cup {t}
    /\ \A u \in DOMAIN tickets : tickets'[u] = tickets[u]
    /\ tickets'[t].number = n /\ tickets'[t].status = tickets'[t].born
    /\ wiped' = wiped

Empties == tickets' = [t \in {} |-> {}] /\ wiped' = TRUE

KeepsNumbers ==
    /\ DOMAIN tickets' = DOMAIN tickets
    /\ \A t \in DOMAIN tickets : /\ tickets'[t].number = tickets[t].number
                                 /\ tickets'[t].born = tickets[t].born
    /\ wiped' = wiped

InsertingStep(r) ==
    \/ CreateInsert(r) /\ Inserts(<<r, 1>>, number[r])
    \/ DemoInsert(r) /\ Inserts(<<r, left[r]>>, number[r])

LEMMA InsertsFresh ==
    ASSUME Typed, FreshIds, NEW r \in Requests, CreateInsert(r) \/ DemoInsert(r)
    PROVE  InsertingStep(r)
<1> USE DEF Typed, TypeOK, GoTo, db, local, aux
<1>1. CASE CreateInsert(r)
  <2>1. ~Placed(r, 1)
    BY <1>1 DEF CreateInsert, Placed, Updating, Loading, Ended
  <2>2. <<r, 1>> \notin DOMAIN tickets
    BY <2>1, TicketsAssumption DEF FreshIds
  <2> QED BY <1>1, <2>2 DEF InsertingStep, Inserts, CreateInsert, InsertTicket
<1>2. CASE DemoInsert(r)
  <2>1. left[r] \in 1..DemoCount
    BY <1>2 DEF DemoInsert, LocalFacts
  <2>2. ~Placed(r, left[r])
    BY <1>2, <2>1 DEF DemoInsert, Placed, Updating, Loading, Ended
  <2>3. <<r, left[r]>> \notin DOMAIN tickets
    BY <2>1, <2>2 DEF FreshIds
  <2>4. PICK s \in DemoStatuses :
          InsertTicket(<<r, left[r]>>, number[r], s, DemoClosed(s))
    BY <1>2 DEF DemoInsert
  <2> QED BY <1>2, <2>3, <2>4 DEF InsertingStep, Inserts, DemoInsert, InsertTicket
<1> QED BY <1>1, <1>2

LEMMA StepKinds ==
    ASSUME Typed, FreshIds, [Next]_vars
    PROVE  \/ \E r \in Requests : InsertingStep(r)
           \/ Empties
           \/ KeepsNumbers
<1> USE DEF Typed, TypeOK, GoTo, db, local, aux
<1>1. ASSUME NEW r \in Requests, CreateInsert(r) PROVE InsertingStep(r)
  BY <1>1, InsertsFresh
<1>2. ASSUME NEW r \in Requests, DemoInsert(r) PROVE InsertingStep(r)
  BY <1>2, InsertsFresh
<1>3. ASSUME NEW r \in Requests, UpdateWrite(r) PROVE KeepsNumbers
  <2>1. ASSUME NEW row \in Row
        PROVE  Patched(row, r).number = row.number /\ Patched(row, r).born = row.born
    BY DEF Patched, Row
  <2> QED BY <1>3, <2>1 DEF UpdateWrite, KeepsNumbers
<1>4. ASSUME NEW r \in Requests, NEW reset \in BOOLEAN, DemoBegin(r, reset)
      PROVE  Empties \/ KeepsNumbers
  BY <1>4 DEF DemoBegin, Empties, KeepsNumbers
<1>5. ASSUME NEW r \in Requests, CreateBegin(r) \/ CreateResolve(r) \/ NextTicketNumber(r)
                \/ NumberCollision(r) \/ CreateHistory(r) \/ UpdateBegin(r)
                \/ UpdateNotFound(r) \/ UpdateResolve(r) \/ UpdateHistory(r)
                \/ DemoReadNumber(r) \/ DemoCollision(r) \/ DemoRows(r)
      PROVE  KeepsNumbers
  BY <1>5 DEF KeepsNumbers, CreateBegin, CreateResolve, NextTicketNumber,
       NumberCollision, CreateHistory, UpdateBegin, UpdateNotFound, UpdateResolve,
       UpdateHistory, DemoReadNumber, DemoCollision, DemoRows
<1>6. ASSUME Crash \/ UNCHANGED vars PROVE KeepsNumbers
  BY <1>6 DEF Crash, vars, KeepsNumbers
<1> QED
  BY <1>1, <1>2, <1>3, <1>4, <1>5, <1>6 DEF Next, Accept, HandlerStep, AllServed

\* An update in flight keeps what it is about and what it has read.
LEMMA UpdaterKeeps ==
    ASSUME Typed, [Next]_vars, NEW r \in Requests, pc'[r] \in Updating
    PROVE  \/ UpdateBegin(r)
           \/ /\ pc[r] \in Updating
              /\ target'[r] = target[r]
              /\ wanted'[r] = wanted[r]
              /\ existing'[r] = existing[r]
              /\ pc'[r] = "updateWrite" => \/ pc[r] = "updateWrite"
                                          \/ UpdateHistory(r)
                                          \/ ~ChangesStatus(r)
<1> DEFINE Kept == /\ pc[r] \in Updating
                   /\ target'[r] = target[r]
                   /\ wanted'[r] = wanted[r]
                   /\ existing'[r] = existing[r]
                   /\ pc'[r] = "updateWrite" => \/ pc[r] = "updateWrite"
                                               \/ UpdateHistory(r)
                                               \/ ~ChangesStatus(r)
<1> USE DEF Typed, TypeOK, GoTo, db, local, aux,
        InFlight, Creating, Updating, Loading, Ended
<1>1. ASSUME NEW x \in Requests,
             CreateBegin(x) \/ CreateResolve(x) \/ NextTicketNumber(x)
             \/ CreateInsert(x) \/ NumberCollision(x) \/ CreateHistory(x)
      PROVE  Kept
  BY <1>1 DEF CreateBegin, CreateResolve, NextTicketNumber, CreateInsert,
              NumberCollision, CreateHistory
<1>2. ASSUME NEW x \in Requests, UpdateBegin(x) PROVE UpdateBegin(r) \/ Kept
  <2>1. CASE x # r
    BY <1>2, <2>1 DEF UpdateBegin
  <2> QED BY <1>2, <2>1
<1>3. ASSUME NEW x \in Requests, UpdateNotFound(x) \/ UpdateResolve(x) \/ UpdateWrite(x)
      PROVE  Kept
  BY <1>3 DEF UpdateNotFound, UpdateResolve, UpdateWrite
<1>4. ASSUME NEW x \in Requests, UpdateHistory(x) PROVE Kept
  <2>1. CASE x # r
    BY <1>4, <2>1 DEF UpdateHistory
  <2>2. CASE x = r
    <3>1. /\ pc[r] \in Updating /\ target'[r] = target[r]
          /\ wanted'[r] = wanted[r] /\ existing'[r] = existing[r]
      BY <1>4, <2>2 DEF UpdateHistory
    <3> QED BY <1>4, <2>2, <3>1
  <2> QED BY <2>1, <2>2
<1>5. ASSUME NEW x \in Requests, NEW reset \in BOOLEAN, DemoBegin(x, reset)
      PROVE  Kept
  BY <1>5 DEF DemoBegin
<1>6. ASSUME NEW x \in Requests,
             DemoReadNumber(x) \/ DemoInsert(x) \/ DemoCollision(x) \/ DemoRows(x)
      PROVE  Kept
  BY <1>6 DEF DemoReadNumber, DemoInsert, DemoCollision, DemoRows
<1>7. ASSUME Crash \/ UNCHANGED vars PROVE Kept
  BY <1>7 DEF Crash, vars
<1> QED BY <1>1, <1>2, <1>3, <1>4, <1>5, <1>6, <1>7 DEF Next, Accept, HandlerStep, AllServed

LEMMA FreshIdsInit == Init => FreshIds
BY DEF Init, FreshIds, Updating

LEMMA FreshIdsStep == Typed /\ FreshIds /\ [Next]_vars => FreshIds'
<1> SUFFICES ASSUME Typed, FreshIds, [Next]_vars,
                    NEW q \in Requests, NEW k \in 1..DemoCount
             PROVE  /\ <<q, k>> \in DOMAIN tickets' => Placed(q, k)'
                    /\ \A r \in Requests :
                         pc'[r] \in Updating /\ target'[r] = <<q, k>> => Placed(q, k)'
  BY DEF FreshIds
<1>1. Placed(q, k) => Placed(q, k)'
  BY PlacedStable
<1>2. <<q, k>> \in DOMAIN tickets' => Placed(q, k)'
  <2>1. CASE \E r \in Requests : InsertingStep(r)
    <3>1. PICK r \in Requests : InsertingStep(r)
      BY <2>1
    <3>2. CASE CreateInsert(r) /\ Inserts(<<r, 1>>, number[r])
      BY <1>1, <3>2 DEF Typed, TypeOK, CreateInsert, Inserts, GoTo, Placed, FreshIds
    <3>3. CASE DemoInsert(r) /\ Inserts(<<r, left[r]>>, number[r])
      BY <1>1, <3>3 DEF Typed, TypeOK, LocalFacts, DemoInsert, Inserts, GoTo, Placed,
                        Loading, FreshIds
    <3> QED BY <3>1, <3>2, <3>3 DEF InsertingStep
  <2>2. CASE Empties
    BY <2>2 DEF Empties
  <2>3. CASE KeepsNumbers
    BY <1>1, <2>3 DEF KeepsNumbers, FreshIds
  <2> QED BY <2>1, <2>2, <2>3, StepKinds
<1>3. ASSUME NEW r \in Requests, pc'[r] \in Updating, target'[r] = <<q, k>>
      PROVE  Placed(q, k)'
  <2>1. CASE pc[r] \in Updating /\ target[r] = <<q, k>>
    BY <1>1, <2>1 DEF FreshIds
  <2>2. CASE UpdateBegin(r)
    <3>1. target'[r] \in DOMAIN tickets
      BY <2>2 DEF UpdateBegin, Typed, TypeOK
    <3> QED BY <1>1, <1>3, <3>1 DEF FreshIds
  <2> QED BY <1>3, <2>1, <2>2, UpdaterKeeps
<1> QED BY <1>2, <1>3

----------------------------------------------------------------------------
(* Numbers.  A number about to be inserted is at most one above the highest *)
(* committed one, so the unique constraint leaves no hole behind.           *)

Reached(n) == n = 0 \/ n \in Numbers

NumberFacts ==
    /\ NumbersGapFree
    /\ ~wiped => \A r \in Requests :
         pc[r] \in {"createInsert", "demoInsert", "demoRows"} => Reached(number[r] - 1)

LEMMA NumbersTyped == Typed => Numbers \subseteq Nat \ {0}
BY DEF Typed, TypeOK, Numbers, Row

LEMMA NumbersChange ==
    ASSUME Typed
    PROVE  /\ \A t : \A n : Inserts(t, n) => Numbers' = Numbers \cup {n}
           /\ KeepsNumbers => Numbers' = Numbers
<1>1. ASSUME NEW t, NEW n, Inserts(t, n) PROVE Numbers' = Numbers \cup {n}
  BY <1>1 DEF Inserts, Numbers
<1>2. ASSUME KeepsNumbers PROVE Numbers' = Numbers
  BY <1>2 DEF KeepsNumbers, Numbers
<1> QED BY <1>1, <1>2

\* Without a reset the set of committed numbers only grows.
LEMMA NumbersGrow ==
    ASSUME Typed, FreshIds, [Next]_vars, ~wiped'
    PROVE  ~wiped /\ Numbers \subseteq Numbers'
<1>1. ASSUME NEW r \in Requests, InsertingStep(r) PROVE ~wiped /\ Numbers \subseteq Numbers'
  BY <1>1, NumbersChange DEF InsertingStep, Inserts
<1>2. CASE Empties
  BY <1>2 DEF Empties
<1>3. CASE KeepsNumbers
  BY <1>3, NumbersChange DEF KeepsNumbers
<1> QED BY <1>1, <1>2, <1>3, StepKinds

\* Where the number a handler holds at an insert comes from.
LEMMA NumberSource ==
    ASSUME Typed, [Next]_vars, NEW r \in Requests,
           pc'[r] \in {"createInsert", "demoInsert", "demoRows"}
    PROVE  \/ /\ pc[r] \in {"createInsert", "demoInsert", "demoRows"}
              /\ number'[r] = number[r]
           \/ NextTicketNumber(r) \/ DemoReadNumber(r) \/ DemoInsert(r)
<1> DEFINE G == \/ /\ pc[r] \in {"createInsert", "demoInsert", "demoRows"}
                  /\ number'[r] = number[r]
               \/ NextTicketNumber(r) \/ DemoReadNumber(r) \/ DemoInsert(r)
<1> USE DEF Typed, TypeOK, GoTo, db, local, aux,
        InFlight, Creating, Updating, Loading, Ended
<1>1. ASSUME NEW x \in Requests,
             CreateBegin(x) \/ CreateResolve(x) \/ CreateInsert(x)
             \/ NumberCollision(x) \/ CreateHistory(x)
      PROVE  G
  BY <1>1 DEF CreateBegin, CreateResolve, CreateInsert, NumberCollision, CreateHistory
<1>2. ASSUME NEW x \in Requests, NextTicketNumber(x) \/ DemoReadNumber(x) \/ DemoInsert(x)
      PROVE  G
  <2>1. CASE x = r
    BY <1>2, <2>1
  <2>2. CASE x # r
    BY <1>2, <2>2 DEF NextTicketNumber, DemoReadNumber, DemoInsert
  <2> QED BY <2>1, <2>2
<1>3. ASSUME NEW x \in Requests,
             UpdateBegin(x) \/ UpdateNotFound(x) \/ UpdateResolve(x)
             \/ UpdateHistory(x) \/ UpdateWrite(x)
      PROVE  G
  BY <1>3 DEF UpdateBegin, UpdateNotFound, UpdateResolve, UpdateHistory, UpdateWrite
<1>4. ASSUME NEW x \in Requests, NEW reset \in BOOLEAN, DemoBegin(x, reset)
      PROVE  G
  BY <1>4 DEF DemoBegin
<1>5. ASSUME NEW x \in Requests, DemoCollision(x) \/ DemoRows(x)
      PROVE  G
  BY <1>5 DEF DemoCollision, DemoRows
<1>6. ASSUME Crash \/ UNCHANGED vars PROVE G
  BY <1>6 DEF Crash, vars
<1> QED BY <1>1, <1>2, <1>3, <1>4, <1>5, <1>6 DEF Next, Accept, HandlerStep, AllServed

LEMMA NumberFactsInit == Init => NumberFacts
BY DEF Init, NumberFacts, NumbersGapFree

LEMMA NumberFactsStep == Typed /\ FreshIds /\ NumberFacts /\ [Next]_vars => NumberFacts'
<1> SUFFICES ASSUME Typed, FreshIds, NumberFacts, [Next]_vars PROVE NumberFacts'
  OBVIOUS
<1>1. ASSUME NEW t \in DOMAIN tickets', NEW u \in DOMAIN tickets',
             tickets'[t].number = tickets'[u].number
      PROVE  t = u
  <2>1. ASSUME NEW r \in Requests, InsertingStep(r) PROVE t = u
    <3>1. PICK v, n : Inserts(v, n)
      BY <2>1 DEF InsertingStep
    <3> QED BY <1>1, <3>1 DEF Inserts, Numbers, NumberFacts, NumbersGapFree
  <2>2. CASE Empties
    BY <1>1, <2>2 DEF Empties
  <2>3. CASE KeepsNumbers
    BY <1>1, <2>3 DEF KeepsNumbers, NumberFacts, NumbersGapFree
  <2> QED BY <2>1, <2>2, <2>3, StepKinds
<1>2. ASSUME ~wiped', NEW t \in DOMAIN tickets', NEW k \in 1..tickets'[t].number
      PROVE  k \in Numbers'
  <2>0. ~wiped /\ Numbers \subseteq Numbers'
    BY <1>2, NumbersGrow
  <2>1. ASSUME NEW j \in Numbers, NEW i \in 1..j PROVE i \in Numbers
    BY <2>0, <2>1 DEF NumberFacts, NumbersGapFree, Numbers
  <2>2. ASSUME NEW r \in Requests, InsertingStep(r) PROVE k \in Numbers'
    <3>1. number[r] \in Nat \ {0} /\ Reached(number[r] - 1)
      BY <2>0, <2>2 DEF InsertingStep, CreateInsert, DemoInsert, Typed, LocalFacts, NumberFacts
    <3>2. PICK v : Inserts(v, number[r])
      BY <2>2 DEF InsertingStep
    <3>3. CASE t = v
      <4>1. tickets'[t].number = number[r] /\ number[r] \in Numbers'
        BY <3>2, <3>3, NumbersChange DEF Inserts
      <4>2. k = number[r] \/ k \in 1..(number[r] - 1)
        BY <3>1, <4>1
      <4> QED BY <2>0, <2>1, <3>1, <4>1, <4>2 DEF Reached
    <3>4. CASE t # v
      <4>1. t \in DOMAIN tickets /\ tickets'[t].number = tickets[t].number
        BY <1>2, <3>2, <3>4 DEF Inserts
      <4> QED BY <1>2, <2>0, <2>1, <4>1 DEF Numbers
    <3> QED BY <3>3, <3>4
  <2>3. CASE Empties
    BY <1>2, <2>3 DEF Empties
  <2>4. CASE KeepsNumbers
    <3>1. t \in DOMAIN tickets /\ tickets'[t].number = tickets[t].number
      BY <1>2, <2>4 DEF KeepsNumbers
    <3> QED BY <1>2, <2>0, <2>1, <3>1 DEF Numbers
  <2> QED BY <2>2, <2>3, <2>4, StepKinds
<1>3. ASSUME ~wiped', NEW r \in Requests,
             pc'[r] \in {"createInsert", "demoInsert", "demoRows"}
      PROVE  Reached(number[r] - 1)' 
  <2>0. ~wiped /\ Numbers \subseteq Numbers'
    BY <1>3, NumbersGrow
  <2>1. CASE /\ pc[r] \in {"createInsert", "demoInsert", "demoRows"}
             /\ number'[r] = number[r]
    BY <2>0, <2>1 DEF NumberFacts, Reached
  <2>2. CASE NextTicketNumber(r) \/ DemoReadNumber(r)
    <3>1. PICK m \in {0} \cup Numbers : number' = [number EXCEPT ![r] = m + 1]
      BY <2>2 DEF NextTicketNumber, DemoReadNumber
    <3>2. m \in Nat /\ number'[r] = m + 1
      BY <3>1, NumbersTyped DEF Typed, TypeOK
    <3> QED BY <2>0, <3>1, <3>2 DEF Reached
  <2>3. CASE DemoInsert(r)
    <3>1. PICK v : Inserts(v, number[r])
      BY <2>3, InsertsFresh DEF InsertingStep
    <3>2. number[r] \in Numbers' /\ number[r] \in Nat
      BY <3>1, NumbersChange DEF Typed, TypeOK
    <3>3. number'[r] = number[r] + 1
      BY <2>3 DEF DemoInsert, Typed, TypeOK
    <3> QED BY <3>2, <3>3 DEF Reached
  <2> QED BY <1>3, <2>1, <2>2, <2>3, NumberSource
<1> QED BY <1>1, <1>2, <1>3 DEF NumberFacts, NumbersGapFree

\* Ticket numbers are 1, 2, 3, ... without hole or repetition.
THEOREM NumbersCorrect == Spec => []NumbersGapFree
<1> DEFINE Inv == Typed /\ FreshIds /\ NumberFacts
<1>1. Init => Inv
  BY TypedInit, FreshIdsInit, NumberFactsInit
<1>2. Inv /\ [Next]_vars => Inv'
  BY TypedStep, FreshIdsStep, NumberFactsStep
<1>3. Inv => NumbersGapFree
  BY DEF NumberFacts
<1> QED BY <1>1, <1>2, <1>3, PTL DEF Spec

----------------------------------------------------------------------------
(* Contention.  Each collision shows that one more number was committed     *)
(* since the create began.                                                  *)

CollisionFact(r) ==
    /\ pc[r] \in {"idle", "createResolve"} => attempt[r] = 1
    /\ pc[r] \in {"createResolve", "createRead"} => Reached(base[r] + attempt[r] - 1)
    /\ pc[r] = "createInsert" => number[r] >= base[r] + attempt[r]
    /\ pc[r] = "conflict" => base[r] + MaxAttempts \in Numbers

CollisionFacts == ~wiped => \A r \in Requests : CollisionFact(r)

LEMMA CollisionInit == Init => CollisionFacts
BY DEF Init, CollisionFacts, CollisionFact

LEMMA CollisionStep ==
    Typed /\ FreshIds /\ NumberFacts /\ CollisionFacts /\ [Next]_vars => CollisionFacts'
<1> SUFFICES ASSUME Typed, FreshIds, NumberFacts, CollisionFacts, [Next]_vars,
                    ~wiped', NEW r \in Requests
             PROVE  CollisionFact(r)'
  BY DEF CollisionFacts
<1>0. ~wiped /\ Numbers \subseteq Numbers' /\ Numbers \subseteq Nat \ {0}
  BY NumbersGrow, NumbersTyped
<1>1. CollisionFact(r)
  BY <1>0 DEF CollisionFacts
<1>2. ASSUME NEW j \in Numbers, NEW i \in 1..j PROVE i \in Numbers
  BY <1>0, <1>2 DEF NumberFacts, NumbersGapFree, Numbers
<1> USE <1>0, <1>1 DEF Typed, TypeOK, CollisionFact, Reached, GoTo, db, local, aux,
        InFlight, Creating, Updating, Loading, Ended
<1>3. ASSUME NEW x \in Requests, CreateBegin(x) PROVE CollisionFact(r)'
  <2>1. PICK m \in {0} \cup Numbers : base' = [base EXCEPT ![x] = m]
    BY <1>3 DEF CreateBegin
  <2> QED BY <1>3, <2>1 DEF CreateBegin
<1>4. ASSUME NEW x \in Requests, CreateResolve(x) PROVE CollisionFact(r)'
  BY <1>4 DEF CreateResolve
<1>5. ASSUME NEW x \in Requests, NextTicketNumber(x) PROVE CollisionFact(r)'
  <2>1. CASE x # r
    BY <1>5, <2>1 DEF NextTicketNumber
  <2>2. CASE x = r
    <3>1. PICK m \in {0} \cup Numbers :
             IsLatestNumber(m) /\ number' = [number EXCEPT ![r] = m + 1]
      BY <1>5, <2>2 DEF NextTicketNumber
    <3>2. m >= base[r] + attempt[r] - 1
      BY <1>5, <2>2, <3>1 DEF IsLatestNumber, NextTicketNumber
    <3>3. /\ number'[r] = m + 1 /\ pc'[r] = "createInsert"
          /\ base'[r] = base[r] /\ attempt'[r] = attempt[r]
      BY <1>5, <2>2, <3>1 DEF NextTicketNumber
    <3> QED BY <3>2, <3>3
  <2> QED BY <2>1, <2>2
<1>6. ASSUME NEW x \in Requests, CreateInsert(x) PROVE CollisionFact(r)'
  BY <1>6 DEF CreateInsert
<1>7. ASSUME NEW x \in Requests, NumberCollision(x) PROVE CollisionFact(r)'
  <2>1. CASE x # r
    BY <1>7, <2>1 DEF NumberCollision
  <2>2. CASE x = r
    <3>1. number[r] \in Numbers /\ number[r] >= base[r] + attempt[r]
      BY <1>7, <2>2 DEF NumberCollision
    <3>2. base[r] + attempt[r] \in Numbers
      BY <1>2, <3>1
    <3>3. CASE attempt[r] < MaxAttempts
      <4>1. /\ pc'[r] = "createRead" /\ base'[r] = base[r]
            /\ attempt'[r] = attempt[r] + 1
        BY <1>7, <2>2, <3>3 DEF NumberCollision
      <4> QED BY <3>2, <4>1
    <3>4. CASE ~(attempt[r] < MaxAttempts)
      <4>1. pc'[r] = "conflict" /\ base'[r] = base[r] /\ attempt[r] = MaxAttempts
        BY <1>7, <2>2, <3>4, TicketsAssumption DEF NumberCollision
      <4> QED BY <3>2, <4>1
    <3> QED BY <3>3, <3>4
  <2> QED BY <2>1, <2>2
<1>8. ASSUME NEW x \in Requests, CreateHistory(x) PROVE CollisionFact(r)'
  BY <1>8 DEF CreateHistory
<1>9. ASSUME NEW x \in Requests,
             UpdateBegin(x) \/ UpdateNotFound(x) \/ UpdateResolve(x)
             \/ UpdateHistory(x) \/ UpdateWrite(x)
      PROVE  CollisionFact(r)'
  BY <1>9 DEF UpdateBegin, UpdateNotFound, UpdateResolve, UpdateHistory, UpdateWrite
<1>10. ASSUME NEW x \in Requests, NEW reset \in BOOLEAN, DemoBegin(x, reset)
       PROVE  CollisionFact(r)'
  BY <1>10 DEF DemoBegin
<1>11. ASSUME NEW x \in Requests,
              DemoReadNumber(x) \/ DemoInsert(x) \/ DemoCollision(x) \/ DemoRows(x)
       PROVE  CollisionFact(r)'
  BY <1>11 DEF DemoReadNumber, DemoInsert, DemoCollision, DemoRows
<1>12. ASSUME Crash \/ UNCHANGED vars PROVE CollisionFact(r)'
  BY <1>12 DEF Crash, vars
<1> QED
  BY <1>3, <1>4, <1>5, <1>6, <1>7, <1>8, <1>9, <1>10, <1>11, <1>12
  DEF Next, Accept, HandlerStep, AllServed

\* A create gives up on collisions only when MaxAttempts tickets were
\* committed by others since it began.
THEOREM ConflictCorrect == Spec => []ConflictMeansContention
<1> DEFINE Inv == Typed /\ FreshIds /\ NumberFacts /\ CollisionFacts
<1>1. Init => Inv
  BY TypedInit, FreshIdsInit, NumberFactsInit, CollisionInit
<1>2. Inv /\ [Next]_vars => Inv'
  BY TypedStep, FreshIdsStep, NumberFactsStep, CollisionStep
<1>3. Inv => ConflictMeansContention
  <2> SUFFICES ASSUME Inv, ~wiped, NEW r \in Requests, pc[r] = "conflict",
                      NEW k \in 1..MaxAttempts
               PROVE  base[r] + k \in Numbers
    BY DEF ConflictMeansContention
  <2>1. base[r] + MaxAttempts \in Numbers
    BY DEF CollisionFacts, CollisionFact
  <2>2. PICK t \in DOMAIN tickets : tickets[t].number = base[r] + MaxAttempts
    BY <2>1 DEF Numbers
  <2>3. base[r] + k \in 1..tickets[t].number
    BY <2>2, TicketsAssumption DEF Typed, TypeOK
  <2> QED BY <2>2, <2>3 DEF NumberFacts, NumbersGapFree
<1> QED BY <1>1, <1>2, <1>3, PTL DEF Spec

----------------------------------------------------------------------------
(* closedAt and the history of a status.                                    *)

LEMMA ClosedStep == Typed /\ ClosedTicketHasClosedAt /\ [Next]_vars => ClosedTicketHasClosedAt'
<1> SUFFICES ASSUME Typed, ClosedTicketHasClosedAt, [Next]_vars,
                    NEW t \in DOMAIN tickets', tickets'[t].status \in ClosingStatuses
             PROVE  tickets'[t].closed
  BY DEF ClosedTicketHasClosedAt
<1> USE DEF Typed, TypeOK, ClosedTicketHasClosedAt, db, local, aux
<1>1. ASSUME NEW r \in Requests, CreateInsert(r) PROVE tickets'[t].closed
  BY <1>1 DEF CreateInsert, InsertTicket, ClosingStatuses
<1>2. ASSUME NEW r \in Requests, DemoInsert(r) PROVE tickets'[t].closed
  <2>1. PICK s \in DemoStatuses :
          InsertTicket(<<r, left[r]>>, number[r], s, DemoClosed(s))
    BY <1>2 DEF DemoInsert
  <2>2. CASE t = <<r, left[r]>>
    <3>1. tickets'[t].status = s /\ tickets'[t].closed = DemoClosed(s)
      BY <2>1, <2>2 DEF InsertTicket
    <3> QED BY <3>1 DEF DemoStatuses, DemoClosed, ClosingStatuses
  <2>3. CASE t # <<r, left[r]>>
    BY <2>1, <2>3 DEF InsertTicket
  <2> QED BY <2>2, <2>3
<1>3. ASSUME NEW r \in Requests, UpdateWrite(r) PROVE tickets'[t].closed
  <2>1. CASE t = target[r] /\ t \in DOMAIN tickets
    <3>1. tickets'[t] = Patched(tickets[t], r) /\ tickets[t] \in Row
      BY <1>3, <2>1 DEF UpdateWrite
    <3>2. CASE ChangesStatus(r)
      <4>1. /\ tickets'[t].status = wanted[r]
            /\ tickets'[t].closed = (wanted[r] \in ClosingStatuses
                    \/ (tickets[t].closed /\ ~existing[r].closed))
        BY <3>1, <3>2 DEF Patched, Row
      <4> QED BY <4>1
    <3>3. CASE ~ChangesStatus(r)
      BY <2>1, <3>1, <3>3 DEF Patched
    <3> QED BY <3>2, <3>3
  <2>2. CASE t # target[r] \/ t \notin DOMAIN tickets
    BY <1>3, <2>2 DEF UpdateWrite
  <2> QED BY <2>1, <2>2
<1>4. ASSUME NEW r \in Requests, NEW reset \in BOOLEAN, DemoBegin(r, reset)
      PROVE  tickets'[t].closed
  BY <1>4 DEF DemoBegin
<1>5. ASSUME NEW r \in Requests, CreateBegin(r) \/ CreateResolve(r) \/ NextTicketNumber(r)
                \/ NumberCollision(r) \/ CreateHistory(r) \/ UpdateBegin(r)
                \/ UpdateNotFound(r) \/ UpdateResolve(r) \/ UpdateHistory(r)
                \/ DemoReadNumber(r) \/ DemoCollision(r) \/ DemoRows(r)
      PROVE  tickets'[t].closed
  BY <1>5 DEF CreateBegin, CreateResolve, NextTicketNumber,
       NumberCollision, CreateHistory, UpdateBegin, UpdateNotFound, UpdateResolve,
       UpdateHistory, DemoReadNumber, DemoCollision, DemoRows
<1>6. ASSUME Crash \/ UNCHANGED vars PROVE tickets'[t].closed
  BY <1>6 DEF Crash, vars
<1> QED
  BY <1>1, <1>2, <1>3, <1>4, <1>5, <1>6 DEF Next, Accept, HandlerStep, AllServed

\* A ticket in a closing status has its closedAt.
THEOREM ClosedCorrect == Spec => []ClosedTicketHasClosedAt
<1>1. Init => ClosedTicketHasClosedAt
  BY DEF Init, ClosedTicketHasClosedAt
<1> QED BY <1>1, TypedInit, TypedStep, ClosedStep, PTL DEF Spec

\* An update that changes a status and is about to write it has recorded it.
Recorded ==
    \A r \in Requests :
        pc[r] = "updateWrite" /\ ChangesStatus(r) /\ target[r] \in DOMAIN tickets =>
            \E h \in history : h.ticket = target[r] /\ h.to = wanted[r]

\* The history loses rows only together with the tickets they are about.
LEMMA HistoryGrows ==
    ASSUME Typed, [Next]_vars
    PROVE  history \subseteq history' \/ Empties
<1> USE DEF db, local, aux, AddHistory
<1>1. ASSUME NEW r \in Requests, NEW reset \in BOOLEAN, DemoBegin(r, reset)
      PROVE  history \subseteq history' \/ Empties
  BY <1>1 DEF DemoBegin, Empties
<1>2. ASSUME NEW r \in Requests, CreateBegin(r) \/ CreateResolve(r) \/ NextTicketNumber(r)
                \/ CreateInsert(r) \/ NumberCollision(r) \/ CreateHistory(r)
                \/ UpdateBegin(r) \/ UpdateNotFound(r) \/ UpdateResolve(r)
      PROVE  history \subseteq history'
  BY <1>2 DEF CreateBegin, CreateResolve, NextTicketNumber, CreateInsert,
       NumberCollision, CreateHistory, UpdateBegin, UpdateNotFound, UpdateResolve
<1>3. ASSUME NEW r \in Requests, UpdateHistory(r) \/ UpdateWrite(r)
                \/ DemoReadNumber(r) \/ DemoInsert(r) \/ DemoCollision(r) \/ DemoRows(r)
      PROVE  history \subseteq history'
  BY <1>3 DEF UpdateHistory, UpdateWrite, DemoReadNumber, DemoInsert,
       DemoCollision, DemoRows
<1>4. ASSUME Crash \/ UNCHANGED vars PROVE history \subseteq history'
  BY <1>4 DEF Crash, vars
<1> QED BY <1>1, <1>2, <1>3, <1>4 DEF Next, Accept, HandlerStep, AllServed

\* The row an update in flight is about cannot appear after it was read.
LEMMA TargetStays ==
    ASSUME Typed, FreshIds, [Next]_vars, NEW r \in Requests,
           pc[r] \in Updating, target[r] \in DOMAIN tickets'
    PROVE  target[r] \in DOMAIN tickets
<1>1. ASSUME NEW q \in Requests, InsertingStep(q) PROVE target[r] \in DOMAIN tickets
  <2>1. CASE CreateInsert(q) /\ Inserts(<<q, 1>>, number[q])
    <3>1. ~Placed(q, 1)
      BY <2>1 DEF CreateInsert, Placed, Updating, Loading, Ended
    <3>2. target[r] # <<q, 1>>
      BY <3>1, TicketsAssumption DEF FreshIds
    <3> QED BY <2>1, <3>2 DEF Inserts
  <2>2. CASE DemoInsert(q) /\ Inserts(<<q, left[q]>>, number[q])
    <3>1. ~Placed(q, left[q]) /\ left[q] \in 1..DemoCount
      BY <2>2 DEF DemoInsert, Placed, Updating, Loading, Ended, Typed, TypeOK, LocalFacts
    <3>2. target[r] # <<q, left[q]>>
      BY <3>1 DEF FreshIds
    <3> QED BY <2>2, <3>2 DEF Inserts
  <2> QED BY <1>1, <2>1, <2>2 DEF InsertingStep
<1> QED BY <1>1, StepKinds DEF Empties, KeepsNumbers

LEMMA RecordedStep == Typed /\ FreshIds /\ Recorded /\ [Next]_vars => Recorded'
<1> SUFFICES ASSUME Typed, FreshIds, Recorded, [Next]_vars, NEW r \in Requests,
                    pc'[r] = "updateWrite", ChangesStatus(r)',
                    target'[r] \in DOMAIN tickets'
             PROVE  \E h \in history' : h.ticket = target'[r] /\ h.to = wanted'[r]
  BY DEF Recorded
<1>1. pc'[r] \in Updating /\ ~UpdateBegin(r)
  BY DEF Updating, UpdateBegin, GoTo, Typed, TypeOK
<1>2. /\ pc[r] \in Updating
      /\ target'[r] = target[r] /\ wanted'[r] = wanted[r] /\ existing'[r] = existing[r]
      /\ pc[r] = "updateWrite" \/ UpdateHistory(r) \/ ~ChangesStatus(r)
  BY <1>1, UpdaterKeeps
<1>3. ChangesStatus(r)
  BY <1>2 DEF ChangesStatus
<1>4. target[r] \in DOMAIN tickets
  BY <1>2, TargetStays
<1>5. history \subseteq history'
  BY HistoryGrows DEF Empties
<1>6. CASE pc[r] = "updateWrite"
  BY <1>2, <1>3, <1>4, <1>5, <1>6 DEF Recorded
<1>7. CASE UpdateHistory(r)
  <2>1. AddHistory(r, existing[r].status, wanted[r])
    BY <1>4, <1>7 DEF UpdateHistory
  <2> DEFINE e == [ticket |-> target[r], from |-> existing[r].status,
                   to |-> wanted[r], by |-> r]
  <2>2. e \in history'
    BY <2>1 DEF AddHistory
  <2>3. e.ticket = target[r] /\ e.to = wanted[r]
    OBVIOUS
  <2> HIDE DEF e
  <2> QED BY <1>2, <2>2, <2>3
<1> QED BY <1>2, <1>3, <1>6, <1>7

\* Who writes to the ticket table.
LEMMA Writers ==
    ASSUME Typed, FreshIds, [Next]_vars
    PROVE  \/ \E r \in Requests : InsertingStep(r)
           \/ Empties
           \/ \E r \in Requests : UpdateWrite(r) /\ KeepsNumbers
           \/ tickets' = tickets
<1> USE DEF Typed, TypeOK, GoTo, db, local, aux
<1>1. ASSUME NEW r \in Requests, NEW reset \in BOOLEAN, DemoBegin(r, reset)
      PROVE  Empties \/ tickets' = tickets
  BY <1>1 DEF DemoBegin, Empties
<1>2. ASSUME NEW r \in Requests, CreateBegin(r) \/ CreateResolve(r) \/ NextTicketNumber(r)
                \/ NumberCollision(r) \/ CreateHistory(r) \/ UpdateBegin(r)
                \/ UpdateNotFound(r) \/ UpdateResolve(r) \/ UpdateHistory(r)
                \/ DemoReadNumber(r) \/ DemoCollision(r) \/ DemoRows(r)
      PROVE  tickets' = tickets
  BY <1>2 DEF CreateBegin, CreateResolve, NextTicketNumber,
       NumberCollision, CreateHistory, UpdateBegin, UpdateNotFound, UpdateResolve,
       UpdateHistory, DemoReadNumber, DemoCollision, DemoRows
<1>3. ASSUME NEW r \in Requests, UpdateWrite(r) PROVE KeepsNumbers
  <2>1. ASSUME NEW row \in Row
        PROVE  Patched(row, r).number = row.number /\ Patched(row, r).born = row.born
    BY DEF Patched, Row
  <2> QED BY <1>3, <2>1 DEF UpdateWrite, KeepsNumbers
<1>4. ASSUME Crash \/ UNCHANGED vars PROVE tickets' = tickets
  BY <1>4 DEF Crash, vars
<1> QED
  BY <1>1, <1>2, <1>3, <1>4, InsertsFresh DEF Next, Accept, HandlerStep, AllServed

LEMMA ExplainedStep ==
    Typed /\ FreshIds /\ Recorded /\ StatusExplained /\ [Next]_vars => StatusExplained'
<1> SUFFICES ASSUME Typed, FreshIds, Recorded, StatusExplained, [Next]_vars,
                    NEW t \in DOMAIN tickets', tickets'[t].status # tickets'[t].born
             PROVE  \E h \in history' : h.ticket = t /\ h.to = tickets'[t].status
  BY DEF StatusExplained
<1>1. history \subseteq history'
  BY HistoryGrows DEF Empties
<1>2. ASSUME t \in DOMAIN tickets, tickets'[t] = tickets[t]
      PROVE  \E h \in history' : h.ticket = t /\ h.to = tickets'[t].status
  BY <1>1, <1>2 DEF StatusExplained
<1>3. ASSUME NEW r \in Requests, InsertingStep(r)
      PROVE  \E h \in history' : h.ticket = t /\ h.to = tickets'[t].status
  <2>1. PICK v, n : Inserts(v, n)
    BY <1>3 DEF InsertingStep
  <2>2. t # v
    BY <2>1 DEF Inserts
  <2> QED BY <1>2, <2>1, <2>2 DEF Inserts
<1>4. ASSUME NEW r \in Requests, UpdateWrite(r)
      PROVE  \E h \in history' : h.ticket = t /\ h.to = tickets'[t].status
  <2>1. t \in DOMAIN tickets /\ tickets[t] \in Row
    BY <1>4 DEF UpdateWrite, Typed, TypeOK
  <2>2. CASE t # target[r] \/ ~ChangesStatus(r)
    BY <1>2, <1>4, <2>1, <2>2 DEF UpdateWrite, Patched, Typed, TypeOK
  <2>3. CASE t = target[r] /\ ChangesStatus(r)
    <3>1. tickets'[t].status = wanted[r]
      <4>1. tickets' = [tickets EXCEPT ![t] = Patched(tickets[t], r)]
        BY <1>4, <2>1, <2>3 DEF UpdateWrite
      <4>2. Patched(tickets[t], r).status = wanted[r]
        BY <2>1, <2>3 DEF Patched, Row
      <4> QED BY <2>1, <4>1, <4>2
    <3>2. \E h \in history : h.ticket = t /\ h.to = wanted[r]
      BY <1>4, <2>1, <2>3 DEF Recorded, UpdateWrite
    <3> QED BY <1>1, <3>1, <3>2
  <2> QED BY <2>2, <2>3
<1> QED BY <1>2, <1>3, <1>4, Writers DEF Empties

\* Every status a ticket was not born with is explained by its history.
THEOREM ExplainedCorrect == Spec => []StatusExplained
<1> DEFINE Inv == Typed /\ FreshIds /\ Recorded /\ StatusExplained
<1>1. Init => Inv
  BY TypedInit, FreshIdsInit DEF Init, Recorded, StatusExplained
<1>2. Inv /\ [Next]_vars => Inv'
  BY TypedStep, FreshIdsStep, RecordedStep, ExplainedStep
<1> QED BY <1>1, <1>2, PTL DEF Spec

----------------------------------------------------------------------------
(* Reopening.  While a ticket has one update in flight at a time, what the  *)
(* update read of it is still what the table holds.                         *)

Alone ==
    \A r, q \in Requests :
        /\ pc[r] \in Updating /\ pc[q] \in Updating
        /\ target[r] = target[q] /\ target[r] \notin contended
        => r = q

UpToDate ==
    \A r \in Requests :
        pc[r] \in Updating /\ target[r] \in DOMAIN tickets \ contended =>
            existing[r].closed = tickets[target[r]].closed

LEMMA ContendedGrows ==
    ASSUME [Next]_vars PROVE contended \subseteq contended'
<1> USE DEF aux
<1>1. ASSUME NEW r \in Requests, CreateBegin(r) \/ CreateResolve(r) \/ NextTicketNumber(r)
                \/ CreateInsert(r) \/ NumberCollision(r) \/ CreateHistory(r)
      PROVE  contended \subseteq contended'
  BY <1>1 DEF CreateBegin, CreateResolve, NextTicketNumber, CreateInsert,
              NumberCollision, CreateHistory
<1>2. ASSUME NEW r \in Requests, UpdateBegin(r) \/ UpdateNotFound(r) \/ UpdateResolve(r)
                \/ UpdateHistory(r) \/ UpdateWrite(r)
      PROVE  contended \subseteq contended'
  BY <1>2 DEF UpdateBegin, UpdateNotFound, UpdateResolve, UpdateHistory, UpdateWrite
<1>3. ASSUME NEW r \in Requests, NEW reset \in BOOLEAN, DemoBegin(r, reset)
      PROVE  contended \subseteq contended'
  BY <1>3 DEF DemoBegin
<1>4. ASSUME NEW r \in Requests,
             DemoReadNumber(r) \/ DemoInsert(r) \/ DemoCollision(r) \/ DemoRows(r)
      PROVE  contended \subseteq contended'
  BY <1>4 DEF DemoReadNumber, DemoInsert, DemoCollision, DemoRows
<1>5. ASSUME Crash \/ UNCHANGED vars PROVE contended \subseteq contended'
  BY <1>5 DEF Crash, vars
<1> QED BY <1>1, <1>2, <1>3, <1>4, <1>5 DEF Next, Accept, HandlerStep, AllServed

\* A beginning update marks its ticket when another one holds it.
LEMMA BeginMarks ==
    ASSUME Typed, NEW r \in Requests, NEW q \in Requests \ {r}, UpdateBegin(r),
           pc[q] \in Updating, target[q] = target'[r]
    PROVE  target'[r] \in contended'
BY DEF UpdateBegin, Typed, TypeOK

LEMMA AloneStep == Typed /\ Alone /\ [Next]_vars => Alone'
<1> SUFFICES ASSUME Typed, Alone, [Next]_vars, NEW r \in Requests, NEW q \in Requests,
                    pc'[r] \in Updating, pc'[q] \in Updating,
                    target'[r] = target'[q], target'[r] \notin contended', r # q
             PROVE  FALSE
  BY DEF Alone
<1>1. ASSUME NEW x \in Requests, NEW y \in Requests \ {x}, UpdateBegin(x)
      PROVE  pc[y] = pc'[y] /\ target[y] = target'[y]
  BY <1>1 DEF UpdateBegin, GoTo, Typed, TypeOK
<1>2. CASE UpdateBegin(r)
  BY <1>1, <1>2, BeginMarks
<1>3. CASE UpdateBegin(q)
  BY <1>1, <1>3, BeginMarks
<1>4. CASE ~UpdateBegin(r) /\ ~UpdateBegin(q)
  BY <1>4, UpdaterKeeps, ContendedGrows DEF Alone
<1> QED BY <1>2, <1>3, <1>4

LEMMA UpToDateStep ==
    Typed /\ FreshIds /\ Alone /\ UpToDate /\ [Next]_vars => UpToDate'
<1> SUFFICES ASSUME Typed, FreshIds, Alone, UpToDate, [Next]_vars, NEW r \in Requests,
                    pc'[r] \in Updating, target'[r] \in DOMAIN tickets' \ contended'
             PROVE  existing'[r].closed = tickets'[target'[r]].closed
  BY DEF UpToDate
<1>1. CASE UpdateBegin(r)
  BY <1>1 DEF UpdateBegin, db, Typed, TypeOK
<1>2. CASE ~UpdateBegin(r)
  <2>1. /\ pc[r] \in Updating /\ target'[r] = target[r] /\ existing'[r] = existing[r]
    BY <1>2, UpdaterKeeps
  <2>2. target[r] \in DOMAIN tickets \ contended
    BY <2>1, TargetStays, ContendedGrows
  <2>3. existing[r].closed = tickets[target[r]].closed
    BY <2>1, <2>2 DEF UpToDate
  <2>4. tickets'[target[r]] = tickets[target[r]]
    <3>1. ASSUME NEW q \in Requests, InsertingStep(q)
          PROVE  tickets'[target[r]] = tickets[target[r]]
      BY <2>2, <3>1 DEF InsertingStep, Inserts
    <3>2. ASSUME NEW q \in Requests, UpdateWrite(q)
          PROVE  tickets'[target[r]] = tickets[target[r]]
      <4>1. q # r
        BY <3>2 DEF UpdateWrite, GoTo, Updating, Typed, TypeOK
      <4>2. pc[q] \in Updating
        BY <3>2 DEF UpdateWrite, Updating
      <4>3. target[q] # target[r]
        BY <2>1, <2>2, <4>1, <4>2 DEF Alone
      <4> QED BY <2>2, <3>2, <4>3 DEF UpdateWrite, Typed, TypeOK
    <3>3. ~Empties
      BY DEF Empties
    <3> QED BY <3>1, <3>2, <3>3, Writers
  <2> QED BY <2>1, <2>3, <2>4
<1> QED BY <1>1, <1>2

LEMMA ReopenStep ==
    Typed /\ FreshIds /\ UpToDate /\ ReopenClearsClosedAt /\ [Next]_vars
        => ReopenClearsClosedAt'
<1> SUFFICES ASSUME Typed, FreshIds, UpToDate, ReopenClearsClosedAt, [Next]_vars,
                    NEW t \in DOMAIN tickets' \ contended', tickets'[t].closed
             PROVE  tickets'[t].status \in ClosingStatuses
  BY DEF ReopenClearsClosedAt
<1>1. t \notin contended
  BY ContendedGrows
<1>2. ASSUME t \in DOMAIN tickets, tickets'[t] = tickets[t]
      PROVE  tickets'[t].status \in ClosingStatuses
  BY <1>1, <1>2 DEF ReopenClearsClosedAt
<1>3. ASSUME NEW r \in Requests, CreateInsert(r)
      PROVE  tickets'[t].status \in ClosingStatuses
  BY <1>2, <1>3 DEF CreateInsert, InsertTicket
<1>4. ASSUME NEW r \in Requests, DemoInsert(r)
      PROVE  tickets'[t].status \in ClosingStatuses
  <2>1. PICK s \in DemoStatuses :
          InsertTicket(<<r, left[r]>>, number[r], s, DemoClosed(s))
    BY <1>4 DEF DemoInsert
  <2>2. CASE t = <<r, left[r]>>
    <3>1. tickets'[t].status = s /\ tickets'[t].closed = DemoClosed(s)
      BY <2>1, <2>2 DEF InsertTicket
    <3> QED BY <3>1 DEF DemoClosed, ClosingStatuses
  <2>3. CASE t # <<r, left[r]>>
    BY <1>2, <2>1, <2>3 DEF InsertTicket
  <2> QED BY <2>2, <2>3
<1>5. ASSUME NEW r \in Requests, UpdateWrite(r)
      PROVE  tickets'[t].status \in ClosingStatuses
  <2>1. t \in DOMAIN tickets /\ tickets[t] \in Row /\ pc[r] \in Updating
    BY <1>5 DEF UpdateWrite, Updating, Typed, TypeOK
  <2>2. CASE t # target[r] \/ ~ChangesStatus(r)
    BY <1>2, <1>5, <2>1, <2>2 DEF UpdateWrite, Patched, Typed, TypeOK
  <2>3. CASE t = target[r] /\ ChangesStatus(r)
    <3>1. existing[r].closed = tickets[t].closed
      BY <1>1, <2>1, <2>3 DEF UpToDate
    <3>2. tickets'[t] = Patched(tickets[t], r)
      BY <1>5, <2>1, <2>3 DEF UpdateWrite, Typed, TypeOK
    <3>3. /\ tickets'[t].status = wanted[r]
          /\ tickets'[t].closed = (wanted[r] \in ClosingStatuses
                    \/ (tickets[t].closed /\ ~existing[r].closed))
      BY <2>1, <2>3, <3>2 DEF Patched, Row
    <3> QED BY <3>1, <3>3
  <2> QED BY <2>2, <2>3
<1>6. CASE Empties
  BY <1>6 DEF Empties
<1> QED BY <1>2, <1>3, <1>4, <1>5, <1>6, Writers DEF InsertingStep

\* Reopening clears closedAt on tickets whose updates never overlapped.
THEOREM ReopenCorrect == Spec => []ReopenClearsClosedAt
<1> DEFINE Inv == Typed /\ FreshIds /\ Alone /\ UpToDate /\ ReopenClearsClosedAt
<1>1. Init => Inv
  BY TypedInit, FreshIdsInit DEF Init, Alone, UpToDate, ReopenClearsClosedAt, Updating
<1>2. Inv /\ [Next]_vars => Inv'
  BY TypedStep, FreshIdsStep, AloneStep, UpToDateStep, ReopenStep
<1> QED BY <1>1, <1>2, PTL DEF Spec

\* closedAt goes with the status of a ticket, whatever updates of it, creations,
\* demo loads and crashes come between the reads and the writes of an update.
THEOREM ClosedAtCorrect == Spec => []ClosedAtFollowsStatus
<1>1. ClosedTicketHasClosedAt /\ ReopenClearsClosedAt => ClosedAtFollowsStatus
  BY DEF ClosedAtFollowsStatus
<1> QED BY <1>1, ClosedCorrect, ReopenCorrect, PTL

----------------------------------------------------------------------------
(* Refinement: the ticket table implements the register of numbers.         *)

LEMMA RegisterInit == Init => Register!Init
BY DEF Init, Register!Init

LEMMA RegisterStep ==
    Typed /\ FreshIds /\ NumberFacts /\ NumberFacts' /\ [Next]_vars
        => [Register!Next]_(Register!vars)
<1> SUFFICES ASSUME Typed, FreshIds, NumberFacts, NumberFacts', [Next]_vars
             PROVE  Register!Next \/ UNCHANGED Register!vars
  OBVIOUS
<1> DEFINE reg == [t \in DOMAIN tickets |-> tickets[t].number]
<1>1. Register!Given = Numbers
  BY DEF Register!Given, Numbers
<1>2. ASSUME NEW r \in Requests, InsertingStep(r) PROVE Register!Next
  <2>1. PICK t \in TicketIds : Inserts(t, number[r])
    BY <1>2, TicketsAssumption DEF InsertingStep, DemoInsert, Typed, LocalFacts, TicketIds
  <2>2. number[r] \in Nat \ {0}
    BY <1>2 DEF InsertingStep, CreateInsert, DemoInsert, Typed, LocalFacts
  <2>3. ~wiped => \A k \in 1..(number[r] - 1) : k \in Numbers
    <3> SUFFICES ASSUME ~wiped, NEW k \in 1..(number[r] - 1) PROVE k \in Numbers
      OBVIOUS
    <3>1. Reached(number[r] - 1)
      BY <1>2 DEF InsertingStep, CreateInsert, DemoInsert, NumberFacts
    <3>2. PICK u \in DOMAIN tickets : tickets[u].number = number[r] - 1
      BY <2>2, <3>1 DEF Reached, Numbers
    <3> QED BY <3>2 DEF NumberFacts, NumbersGapFree
  <2>4. Register!Enter(t)
    BY <1>1, <2>1, <2>2, <2>3 DEF Register!Enter, Inserts
  <2> QED BY <2>4 DEF Register!Next
<1>3. CASE Empties
  <2>1. [t \in DOMAIN tickets' |-> tickets'[t].number] = [t \in {} |-> 0]
    BY <1>3 DEF Empties
  <2> QED BY <1>3, <2>1 DEF Empties, Register!Next, Register!Wipe
<1>4. CASE KeepsNumbers
  <2>1. reg' = reg
    BY <1>4 DEF KeepsNumbers
  <2> QED BY <1>4, <2>1 DEF KeepsNumbers, Register!vars
<1> QED BY <1>2, <1>3, <1>4, StepKinds

\* The ticket service implements the register: every new ticket gets the next
\* number, and no step ever changes a number given.
THEOREM RegisterImplemented == Spec => RegisterSpec
<1> DEFINE Inv == Typed /\ FreshIds /\ NumberFacts
<1>1. Init => Inv /\ Register!Init
  BY TypedInit, FreshIdsInit, NumberFactsInit, RegisterInit
<1>2. Inv /\ [Next]_vars => Inv'
  BY TypedStep, FreshIdsStep, NumberFactsStep
<1>3. Inv /\ Inv' /\ [Next]_vars => [Register!Next]_(Register!vars)
  BY RegisterStep
<1> QED BY <1>1, <1>2, <1>3, PTL DEF Spec, RegisterSpec, Register!Spec
============================================================================
