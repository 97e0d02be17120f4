------------------------------ MODULE Tickets ------------------------------
(***************************************************************************)
(* The ticket service of the backend: the handlers behind POST /tickets,   *)
(* PATCH /tickets/:id and POST /demo/load, run concurrently by one Node.js *)
(* process over an SQLite database.                                        *)
(*                                                                         *)
(* The event loop interleaves handlers at every `await'; each database     *)
(* call is one atomic step.  A request is identified with its handler      *)
(* invocation, so pc[r] says at which await the handler of r stands.  No   *)
(* handler opens a transaction around its reads and writes; only the demo  *)
(* reset does.  A crash of the process loses every handler in flight and   *)
(* keeps the committed rows.                                               *)
(***************************************************************************)
EXTENDS Naturals

CONSTANTS Requests,     \* handler invocations
          Statuses,     \* the statuses a dto may carry (TicketStatusDto)
          MaxAttempts,  \* maxAttempts of createWithNumberRetry
          DemoCount     \* bound: tickets one demo load creates

NoStatus == "no status in the dto"

ASSUME TicketsAssumption ==
    /\ MaxAttempts \in Nat \ {0}
    /\ DemoCount \in Nat \ {0}
    /\ "RECEIVED" \in Statuses
    /\ NoStatus \notin Statuses

\* update(): new Set(['CLOSED', 'ARCHIVED', 'RESOLVED'])
ClosingStatuses == {"CLOSED", "ARCHIVED", "RESOLVED"}

\* The demo loader draws from its own list and sets closedAt by its own rule.
DemoStatuses == Statuses \cap
    {"RECEIVED", "DIAGNOSIS", "QUOTE_READY", "PARTS_ORDERED",
     "WAITING_FOR_APPROVAL", "SENT_TO_CUSTOMER", "CLOSED"}
DemoClosed(status) == status \in {"CLOSED", "ARCHIVED"}

\* Row identifiers: the k-th ticket the handler of r inserts.
TicketIds == Requests \X (1..DemoCount)

\* closed stands for closedAt # null; born is the status the row was
\* inserted with (auxiliary: the code does not store it).
Row == [number : Nat \ {0}, status : Statuses, closed : BOOLEAN, born : Statuses]

\* What update() keeps of the row it read: existing.status, existing.closedAt.
Snapshot == [status : Statuses, closed : BOOLEAN]

HistoryEntry == [ticket : TicketIds, from : Statuses \cup {"CREATED"},
                 to : Statuses, by : Requests]

Creating == {"createResolve", "createRead", "createInsert", "createHistory"}
Updating == {"updateResolve", "updateHistory", "updateWrite"}
Loading  == {"demoRead", "demoInsert", "demoRows"}
InFlight == Creating \cup Updating \cup Loading
\* "conflict" is the P2002 of the last attempt rethrown; "failed" any other
\* error answer; "lost" a request whose process crashed.
Ended    == {"done", "failed", "conflict", "lost"}

VARIABLES
    tickets,    \* the ticket table: a function from its row identifiers
    history,    \* the ticketStatusHistory table
    pc,         \* where the handler of each request stands
    target,     \* the ticket a request is about
    wanted,     \* dto.status of an update
    existing,   \* the row an update read
    number,     \* the number a create or a demo load is about to insert
    attempt,    \* attempt of createWithNumberRetry
    left,       \* tickets a demo load still has to insert
    wiped,      \* auxiliary: some demo reset has emptied the tables
    base,       \* auxiliary: the highest number when the create began
    contended   \* auxiliary: tickets with two updates in flight at once

db    == <<tickets, history>>
local == <<target, wanted, existing, number, attempt, left>>
aux   == <<wiped, base, contended>>
vars  == <<tickets, history, pc, target, wanted, existing, number, attempt,
           left, wiped, base, contended>>

----------------------------------------------------------------------------
Numbers == {tickets[t].number : t \in DOMAIN tickets}

\* findFirst({orderBy: {number: 'desc'}}), 0 on an empty table.
IsLatestNumber(m) == \/ m = 0 /\ Numbers = {}
                     \/ m \in Numbers /\ \A k \in Numbers : k <= m

InsertTicket(t, n, status, closed) ==
    tickets' = [u \in DOMAIN tickets \cup {t} |->
                  IF u = t THEN [number |-> n, status |-> status,
                                 closed |-> closed, born |-> status]
                  ELSE tickets[u]]

GoTo(r, where) == pc' = [pc EXCEPT ![r] = where]

Init ==
    /\ tickets = [t \in {} |-> {}]
    /\ history = {}
    /\ pc = [r \in Requests |-> "idle"]
    /\ target = [r \in Requests |-> <<r, 1>>]
    /\ wanted = [r \in Requests |-> NoStatus]
    /\ existing = [r \in Requests |-> [status |-> "RECEIVED", closed |-> FALSE]]
    /\ number = [r \in Requests |-> 0]
    /\ attempt = [r \in Requests |-> 1]
    /\ left = [r \in Requests |-> 0]
    /\ wiped = FALSE
    /\ base = [r \in Requests |-> 0]
    /\ contended = {}

----------------------------------------------------------------------------
(* create(): owner and assignee are resolved by reads of the user table,   *)
(* which may refuse the request; then read-max / insert, retried on a      *)
(* collision of the unique number; then the CREATED history entry.         *)

CreateBegin(r) ==
    /\ pc[r] = "idle"
    /\ \E m \in {0} \cup Numbers :
         IsLatestNumber(m) /\ base' = [base EXCEPT ![r] = m]
    /\ GoTo(r, "createResolve")
    /\ UNCHANGED <<db, local, wiped, contended>>

CreateResolve(r) ==
    /\ pc[r] = "createResolve"
    /\ \E where \in {"createRead", "failed"} : GoTo(r, where)
    /\ UNCHANGED <<db, local, aux>>

\* Fault: every retry skips one number further, to dodge the collision.
NextNumberSkipping(r) ==
    /\ pc[r] = "createRead"
    /\ \E m \in {0} \cup Numbers :
         IsLatestNumber(m) /\ number' = [number EXCEPT ![r] = m + attempt[r]]
    /\ GoTo(r, "createInsert")
    /\ UNCHANGED <<db, target, wanted, existing, attempt, left, aux>>

NextTicketNumber(r) ==
    /\ pc[r] = "createRead"
    /\ \E m \in {0} \cup Numbers :
         IsLatestNumber(m) /\ number' = [number EXCEPT ![r] = m + 1]
    /\ GoTo(r, "createInsert")
    /\ UNCHANGED <<db, target, wanted, existing, attempt, left, aux>>

\* Fault: the unique index on the number is missing.
InsertWithoutIndex(r) ==
    /\ pc[r] = "createInsert"
    /\ InsertTicket(<<r, 1>>, number[r], "RECEIVED", FALSE)
    /\ target' = [target EXCEPT ![r] = <<r, 1>>]
    /\ GoTo(r, "createHistory")
    /\ UNCHANGED <<history, wanted, existing, number, attempt, left, aux>>

CreateInsert(r) ==
    /\ pc[r] = "createInsert"
    /\ number[r] \notin Numbers
    /\ InsertTicket(<<r, 1>>, number[r], "RECEIVED", FALSE)
    /\ target' = [target EXCEPT ![r] = <<r, 1>>]
    /\ GoTo(r, "createHistory")
    /\ UNCHANGED <<history, wanted, existing, number, attempt, left, aux>>

\* Fault: the loop gives up one attempt early.
CollisionGivesUpEarly(r) ==
    /\ pc[r] = "createInsert"
    /\ number[r] \in Numbers
    /\ IF attempt[r] + 1 < MaxAttempts
         THEN attempt' = [attempt EXCEPT ![r] = @ + 1] /\ GoTo(r, "createRead")
         ELSE GoTo(r, "conflict") /\ UNCHANGED attempt
    /\ UNCHANGED <<db, target, wanted, existing, number, left, aux>>

\* Fault: attempts are counted but never compared with the maximum.
CollisionCountsOn(r) ==
    /\ pc[r] = "createInsert"
    /\ number[r] \in Numbers
    /\ attempt' = [attempt EXCEPT ![r] = @ + 1]
    /\ GoTo(r, "createRead")
    /\ UNCHANGED <<db, target, wanted, existing, number, left, aux>>

\* Fault: the same number is tried again, and the attempt is not counted.
CollisionRetriesSameNumber(r) ==
    /\ pc[r] = "createInsert"
    /\ number[r] \in Numbers
    /\ UNCHANGED <<pc, db, local, aux>>

NumberCollision(r) ==
    /\ pc[r] = "createInsert"
    /\ number[r] \in Numbers
    /\ IF attempt[r] < MaxAttempts
         THEN /\ attempt' = [attempt EXCEPT ![r] = @ + 1]
              /\ GoTo(r, "createRead")
         ELSE /\ GoTo(r, "conflict")
              /\ UNCHANGED attempt
    /\ UNCHANGED <<db, target, wanted, existing, number, left, aux>>

\* The foreign key makes the insert fail when a demo reset took the ticket.
AddHistory(r, from, to) ==
    history' = history \cup
        {[ticket |-> target[r], from |-> from, to |-> to, by |-> r]}

CreateHistory(r) ==
    /\ pc[r] = "createHistory"
    /\ \/ /\ target[r] \in DOMAIN tickets
          /\ AddHistory(r, "CREATED", "RECEIVED")
          /\ GoTo(r, "done")
       \/ /\ target[r] \notin DOMAIN tickets
          /\ GoTo(r, "failed")
          /\ UNCHANGED history
    /\ UNCHANGED <<tickets, local, aux>>

----------------------------------------------------------------------------
(* update(): read the row, resolve the assignee, write the history entry   *)
(* of a status change, then write the row - with the closedAt decided from *)
(* the row as it was read.                                                 *)

UpdateBegin(r) ==
    /\ pc[r] = "idle"
    /\ \E t \in DOMAIN tickets, s \in Statuses \cup {NoStatus} :
         /\ target' = [target EXCEPT ![r] = t]
         /\ wanted' = [wanted EXCEPT ![r] = s]
         /\ existing' = [existing EXCEPT ![r] =
                           [status |-> tickets[t].status,
                            closed |-> tickets[t].closed]]
         /\ contended' =
              IF \E q \in Requests \ {r} : pc[q] \in Updating /\ target[q] = t
              THEN contended \cup {t} ELSE contended
    /\ GoTo(r, "updateResolve")
    /\ UNCHANGED <<db, number, attempt, left, wiped, base>>

\* No such row: NotFoundException.
UpdateNotFound(r) ==
    /\ pc[r] = "idle"
    /\ DOMAIN tickets # TicketIds
    /\ GoTo(r, "failed")
    /\ UNCHANGED <<db, local, aux>>

ChangesStatus(r) == wanted[r] # NoStatus /\ wanted[r] # existing[r].status

\* Fault: the row is written before (here: without) the history entry.
UpdateSkipsHistory(r) ==
    /\ pc[r] = "updateResolve"
    /\ GoTo(r, "updateWrite")
    /\ UNCHANGED <<db, local, aux>>

UpdateResolve(r) ==
    /\ pc[r] = "updateResolve"
    /\ \/ GoTo(r, IF ChangesStatus(r) THEN "updateHistory" ELSE "updateWrite")
       \/ GoTo(r, "failed")     \* BadRequest: the assignee is no technician
    /\ UNCHANGED <<db, local, aux>>

UpdateHistory(r) ==
    /\ pc[r] = "updateHistory"
    /\ \/ /\ target[r] \in DOMAIN tickets
          /\ AddHistory(r, existing[r].status, wanted[r])
          /\ GoTo(r, "updateWrite")
       \/ /\ target[r] \notin DOMAIN tickets
          /\ GoTo(r, "failed")
          /\ UNCHANGED history
    /\ UNCHANGED <<tickets, local, aux>>

\* Fault: closedAt follows the status the row had when it was read.
PatchedFromOldStatus(row, r) ==
    IF ~ChangesStatus(r) THEN row
    ELSE [row EXCEPT !.status = wanted[r],
                     !.closed = existing[r].status \in ClosingStatuses]

\* The columns `data' assigns: status and closedAt, or neither of them.
Patched(row, r) ==
    IF ~ChangesStatus(r) THEN row
    ELSE [row EXCEPT
            !.status = wanted[r],
            !.closed = wanted[r] \in ClosingStatuses
                       \/ (row.closed /\ ~existing[r].closed)]

UpdateWrite(r) ==
    /\ pc[r] = "updateWrite"
    /\ \/ /\ target[r] \in DOMAIN tickets
          /\ tickets' = [tickets EXCEPT ![target[r]] = Patched(@, r)]
          /\ GoTo(r, "done")
       \/ /\ target[r] \notin DOMAIN tickets
          /\ GoTo(r, "failed")
          /\ UNCHANGED tickets
    /\ UNCHANGED <<history, local, aux>>

----------------------------------------------------------------------------
(* loadDemoDataset(): an optional reset in one transaction, one read of    *)
(* the highest number, then inserts that count on from it and never retry. *)

DemoBegin(r, reset) ==
    /\ pc[r] = "idle"
    /\ \E n \in 1..DemoCount : left' = [left EXCEPT ![r] = n]
    /\ IF reset
         THEN /\ tickets' = [t \in {} |-> {}]
              /\ history' = {}
              /\ wiped' = TRUE
         ELSE UNCHANGED <<db, wiped>>
    /\ GoTo(r, "demoRead")
    /\ UNCHANGED <<target, wanted, existing, number, attempt, base, contended>>

DemoReadNumber(r) ==
    /\ pc[r] = "demoRead"
    /\ \E m \in {0} \cup Numbers :
         IsLatestNumber(m) /\ number' = [number EXCEPT ![r] = m + 1]
    /\ GoTo(r, "demoInsert")
    /\ UNCHANGED <<db, target, wanted, existing, attempt, left, aux>>

DemoInsert(r) ==
    /\ pc[r] = "demoInsert"
    /\ number[r] \notin Numbers
    /\ \E s \in DemoStatuses :
         /\ InsertTicket(<<r, left[r]>>, number[r], s, DemoClosed(s))
         /\ wanted' = [wanted EXCEPT ![r] = s]
    /\ target' = [target EXCEPT ![r] = <<r, left[r]>>]
    /\ number' = [number EXCEPT ![r] = @ + 1]
    /\ left' = [left EXCEPT ![r] = @ - 1]
    /\ GoTo(r, "demoRows")
    /\ UNCHANGED <<history, existing, attempt, aux>>

DemoCollision(r) ==
    /\ pc[r] = "demoInsert"
    /\ number[r] \in Numbers
    /\ GoTo(r, "failed")
    /\ UNCHANGED <<db, local, aux>>

\* Comments and cost rows (drawn at random, possibly none) and the history
\* entry of a demo ticket: each needs the ticket to be there still.
DemoRows(r) ==
    /\ pc[r] = "demoRows"
    /\ LET next == IF left[r] = 0 THEN "done" ELSE "demoInsert" IN
       \/ /\ target[r] \in DOMAIN tickets
          /\ IF wanted[r] = "RECEIVED" THEN UNCHANGED history
             ELSE AddHistory(r, "RECEIVED", wanted[r])
          /\ GoTo(r, next)
       \/ /\ target[r] \notin DOMAIN tickets
          /\ \/ GoTo(r, "failed")
             \/ wanted[r] = "RECEIVED" /\ GoTo(r, next)
          /\ UNCHANGED history
    /\ UNCHANGED <<tickets, local, aux>>

----------------------------------------------------------------------------
\* The process dies: handlers in flight never answer, committed rows stay.
Crash ==
    /\ \E r \in Requests : pc[r] \in InFlight
    /\ pc' = [r \in Requests |-> IF pc[r] \in InFlight THEN "lost" ELSE pc[r]]
    /\ UNCHANGED <<db, local, aux>>

\* Every client is served: the bound on the number of requests is reached.
AllServed ==
    /\ \A r \in Requests : pc[r] \in Ended
    /\ UNCHANGED vars

\* What the event loop does for a request once it was accepted.
HandlerStep(r) ==
    \/ CreateResolve(r) \/ NextTicketNumber(r) \/ CreateInsert(r)
    \/ NumberCollision(r) \/ CreateHistory(r)
    \/ UpdateResolve(r) \/ UpdateHistory(r) \/ UpdateWrite(r)
    \/ DemoReadNumber(r) \/ DemoInsert(r) \/ DemoCollision(r) \/ DemoRows(r)

Accept(r) ==
    \/ CreateBegin(r)
    \/ UpdateBegin(r)
    \/ UpdateNotFound(r)
    \/ \E reset \in BOOLEAN : DemoBegin(r, reset)

Next == (\E r \in Requests : Accept(r) \/ HandlerStep(r)) \/ Crash \/ AllServed

Spec == Init /\ [][Next]_vars

\* The event loop runs every pending continuation: an accepted request whose
\* database calls return is carried on.  No client is obliged to send one.
FairSpec == Spec /\ \A r \in Requests : WF_vars(HandlerStep(r))

----------------------------------------------------------------------------
\* What the ticket table promises about numbers, whoever writes to it.
Register == INSTANCE TicketRegister WITH
                Ids <- TicketIds,
                register <- [t \in DOMAIN tickets |-> tickets[t].number]
RegisterSpec == Register!Spec

----------------------------------------------------------------------------
TypeOK ==
    /\ DOMAIN tickets \subseteq TicketIds
    /\ tickets \in [DOMAIN tickets -> Row]
    /\ history \subseteq HistoryEntry
    /\ pc \in [Requests -> {"idle"} \cup InFlight \cup Ended]
    /\ target \in [Requests -> TicketIds]
    /\ wanted \in [Requests -> Statuses \cup {NoStatus}]
    /\ existing \in [Requests -> Snapshot]
    /\ number \in [Requests -> Nat]
    /\ attempt \in [Requests -> 1..MaxAttempts]
    /\ left \in [Requests -> 0..DemoCount]
    /\ wiped \in BOOLEAN
    /\ base \in [Requests -> Nat]
    /\ contended \subseteq TicketIds

\* Ticket numbers are 1, 2, 3, ... with no hole and no repetition, however
\* creates and demo loads interleave and crash, as long as no demo reset has
\* emptied the table (a number read before a reset may be inserted after it).
NumbersGapFree ==
    /\ \A t, u \in DOMAIN tickets : tickets[t].number = tickets[u].number => t = u
    /\ ~wiped => \A t \in DOMAIN tickets :
                   \A k \in 1..tickets[t].number : k \in Numbers

\* createWithNumberRetry gives up only under real contention: when it does,
\* at least MaxAttempts tickets were committed by others since it began.
ConflictMeansContention ==
    \A r \in Requests : pc[r] = "conflict" /\ ~wiped =>
        \A k \in 1..MaxAttempts : base[r] + k \in Numbers

\* A ticket in a closing status has its closedAt, whatever updates raced.
ClosedTicketHasClosedAt ==
    \A t \in DOMAIN tickets :
        tickets[t].status \in ClosingStatuses => tickets[t].closed

\* "Zmiany statusu zapisuja historie etapow" (OPERATOR_FLOW.md): a status a
\* ticket was not born with has an entry that leads to it, even when the
\* process died between the two writes of update().
StatusExplained ==
    \A t \in DOMAIN tickets : tickets[t].status # tickets[t].born =>
        \E h \in history : h.ticket = t /\ h.to = tickets[t].status

\* Reopening clears closedAt on every ticket that never had two updates in
\* flight at the same time.
ReopenClearsClosedAt ==
    \A t \in DOMAIN tickets \ contended :
        tickets[t].closed => tickets[t].status \in ClosingStatuses

\* closedAt goes with the status, in both directions (update's closingStatuses).
ClosedAtFollowsStatus == ClosedTicketHasClosedAt /\ ReopenClearsClosedAt

\* Every accepted request ends: the retry loop cannot spin for ever.
RequestsEnd == \A r \in Requests : pc[r] \in InFlight ~> pc[r] \in Ended
============================================================================
