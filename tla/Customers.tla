------------------------------ MODULE Customers ------------------------------
(***************************************************************************)
(* Who a ticket or a comment belongs to: TicketsService.resolveOwnerUserId *)
(* finds a customer by e-mail, telephone or name, or creates one, and      *)
(* CommentsService.resolveAuthorUserId does so for authors.  Users are     *)
(* never deleted, and the database refuses a second row with an e-mail.    *)
(*                                                                         *)
(* A telephone or a name is what it comes to and how it is written: the    *)
(* lookups compare what is written, the e-mail made up for a customer who  *)
(* gave none keeps only what it comes to.                                  *)
(***************************************************************************)
EXTENDS Naturals, Sequences

CONSTANTS Callers,    \* requests that may be in flight at the same time
          Mails,      \* e-mails customers give
          Phones,     \* telephones: the digits, and how they are written
          Names,      \* names: what is left of one in an e-mail, and the name
          MaxPeople,  \* bound on the rows of users
          MaxEdits    \* bound on the changes by an administrator

ASSUME CustomersAssumption == MaxPeople \in Nat /\ MaxEdits \in Nat

VARIABLES
    person,    \* rows of users, in the order of createdAt
    call,      \* the request each caller has in flight
    raced,     \* auxiliary: callers on whose way a row was inserted or changed
    served,    \* auxiliary: telephones of the customers whose tickets were taken
    edits

customerVars == <<person, call, raced, served, edits>>

None == "none"
Contacts == [mail : Mails \cup {None}, phone : Phones \cup {<< >>}, name : Names \cup {<< >>}]

EMails == ({"mail"} \X Mails) \cup ({"phone"} \X {p[1] : p \in Phones})
          \cup ({"name", "author"} \X {n[1] : n \in Names})
          \cup ({"anonymous"} \X (0 .. MaxPeople))
People == [email : EMails, phone : Phones \cup {<< >>}, name : Names \cup {<< >>},
           role : {"REPORTER", "AGENT"}]
NoCall == [at |-> "no"]

CustomersInit ==
    /\ person = << >>
    /\ call = [c \in Callers |-> NoCall]
    /\ raced = {}
    /\ served = {}
    /\ edits = 0

----------------------------------------------------------------------------
\* What a telephone of less than six digits comes to, and a name without letters.
TooShort == "fewer than six digits"
Blank == "nothing"

\* buildReporterAliasEmail.
AliasEmail(k) ==
    IF k.phone # << >> /\ k.phone[1] # TooShort THEN <<"phone", k.phone[1]>>
    ELSE IF k.name # << >> /\ k.name[1] # Blank THEN <<"name", k.name[1]>>
    ELSE <<"anonymous", Len(person)>>

FallbackEmail(k) == IF k.mail # None THEN <<"mail", k.mail>> ELSE AliasEmail(k)

\* What the three lookups ask for; findFirst takes the oldest reporter.
ByEmail(k) == {e \in DOMAIN person : k.mail # None /\ person[e].email = <<"mail", k.mail>>}
ByPhone(k) == {e \in DOMAIN person :
                 k.phone # << >> /\ person[e].role = "REPORTER" /\ person[e].phone = k.phone}
ByName(k) == {e \in DOMAIN person :
                k.name # << >> /\ person[e].role = "REPORTER" /\ person[e].name = k.name}

Oldest(S) == CHOOSE e \in S : \A d \in S : e <= d

Busy == {d \in Callers : call[d] # NoCall}
Others(c) == Busy \ {c}
Move(c, k) == call' = [call EXCEPT ![c] = k]

----------------------------------------------------------------------------
(* resolveOwnerUserId *)

FromName(k) == IF k.name # << >> THEN "name" ELSE "create"
FromPhone(k) == IF k.phone # << >> THEN "phone" ELSE FromName(k)

\* The first query the contact gives something for.
FromEmail(k) == IF k.mail # None THEN "email" ELSE FromPhone(k)

TicketComes(c, k) ==
    /\ call[c] = NoCall
    /\ Move(c, [at |-> FromEmail(k), contact |-> k])
    /\ raced' = raced \ {c}
    /\ UNCHANGED <<person, served, edits>>

Lookup(c, at, found, next) ==
    /\ call[c].at = at
    /\ Move(c, IF found # {} THEN [at |-> "enrich", contact |-> call[c].contact, id |-> Oldest(found)]
               ELSE [at |-> next, contact |-> call[c].contact])
    /\ UNCHANGED <<person, raced, served, edits>>

LookupByEmail(c) == Lookup(c, "email", ByEmail(call[c].contact), FromPhone(call[c].contact))

\* Fault: a telephone finds nobody.
LookupNoPhone(c) == Lookup(c, "phone", {}, FromName(call[c].contact))

LookupByPhone(c) == Lookup(c, "phone", ByPhone(call[c].contact), FromName(call[c].contact))
LookupByName(c) == Lookup(c, "name", ByName(call[c].contact), "create")

\* The name and the telephone that were given replace those of the row.
EnrichReporter(c) ==
    LET k == call[c].contact  e == call[c].id IN
    /\ call[c].at = "enrich"
    /\ person' = [person EXCEPT
         ![e].name = IF k.name # << >> THEN k.name ELSE @,
         ![e].phone = IF k.phone # << >> THEN k.phone ELSE @]
    /\ raced' = IF person' = person THEN raced ELSE raced \cup Others(c)
    /\ served' = served \cup ({k.phone} \ {<< >>})
    /\ Move(c, NoCall)
    /\ UNCHANGED edits

Insert(row) == person' = Append(person, row)
HasEmail(email) == \E e \in DOMAIN person : person[e].email = email

CreateReporter(c) ==
    LET k == call[c].contact IN
    /\ call[c].at = "create"
    /\ ~HasEmail(FallbackEmail(k))
    /\ Len(person) < MaxPeople
    /\ Insert([email |-> FallbackEmail(k), phone |-> k.phone, name |-> k.name, role |-> "REPORTER"])
    /\ raced' = raced \cup Others(c)
    /\ served' = served \cup ({k.phone} \ {<< >>})
    /\ Move(c, NoCall)
    /\ UNCHANGED edits

\* The unique index refuses the row, and the ticket is not created.
CreateRefused(c) ==
    /\ call[c].at = "create"
    /\ HasEmail(FallbackEmail(call[c].contact))
    /\ Move(c, [at |-> "refused", contact |-> call[c].contact])
    /\ UNCHANGED <<person, raced, served, edits>>

Answered(c) ==
    /\ call[c].at = "refused"
    /\ Move(c, NoCall)
    /\ UNCHANGED <<person, raced, served, edits>>

----------------------------------------------------------------------------
(* resolveAuthorUserId of a comment whose author is given by name *)

CommentComes(c, n) ==
    /\ call[c] = NoCall
    /\ IF HasEmail(<<"author", n[1]>>) THEN UNCHANGED call
       ELSE Move(c, [at |-> "author", name |-> n])
    /\ raced' = raced \ {c}
    /\ UNCHANGED <<person, served, edits>>

CreateAuthor(c) ==
    LET email == <<"author", call[c].name[1]>> IN
    /\ call[c].at = "author"
    /\ \/ HasEmail(email) /\ UNCHANGED <<person, raced>>
       \/ /\ ~HasEmail(email)
          /\ Len(person) < MaxPeople
          /\ Insert([email |-> email, phone |-> << >>, name |-> call[c].name, role |-> "AGENT"])
          /\ raced' = raced \cup Others(c)
    /\ Move(c, NoCall)
    /\ UNCHANGED <<served, edits>>

----------------------------------------------------------------------------
(* Administrators *)

CreateUser(m, role) ==
    /\ edits < MaxEdits
    /\ edits' = edits + 1
    /\ ~HasEmail(<<"mail", m>>)
    /\ Len(person) < MaxPeople
    /\ Insert([email |-> <<"mail", m>>, phone |-> << >>, name |-> << >>, role |-> role])
    /\ raced' = raced \cup Busy
    /\ UNCHANGED <<call, served>>

EditUser(e, phone, role) ==
    /\ edits < MaxEdits
    /\ edits' = edits + 1
    /\ person' = [person EXCEPT ![e].phone = phone, ![e].role = role]
    /\ raced' = raced \cup Busy
    /\ UNCHANGED <<call, served>>

CustomersNext ==
    \/ \E c \in Callers, k \in Contacts : TicketComes(c, k)
    \/ \E c \in Callers, n \in Names : CommentComes(c, n)
    \/ \E c \in Callers :
        \/ LookupByEmail(c) \/ LookupByPhone(c) \/ LookupByName(c)
        \/ EnrichReporter(c) \/ CreateReporter(c) \/ CreateRefused(c) \/ Answered(c)
        \/ CreateAuthor(c)
    \/ \E m \in Mails, role \in {"REPORTER", "AGENT"} : CreateUser(m, role)
    \/ \E e \in DOMAIN person, phone \in Phones \cup {<< >>}, role \in {"REPORTER", "AGENT"} :
         EditUser(e, phone, role)

CustomersSpec == CustomersInit /\ [][CustomersNext]_customerVars

----------------------------------------------------------------------------
CallStates ==
    {NoCall} \cup [at : {"email", "phone", "name", "create", "refused"}, contact : Contacts]
    \cup [at : {"enrich"}, contact : Contacts, id : DOMAIN person]
    \cup [at : {"author"}, name : Names]

CustomersTypeOK ==
    /\ Len(person) <= MaxPeople
    /\ \A e \in DOMAIN person : person[e] \in People
    /\ \A c \in Callers : call[c] \in CallStates
    /\ raced \subseteq Callers
    /\ served \subseteq Phones
    /\ edits \in 0 .. MaxEdits

\* The row a lookup should have found, had it been asked for what it is now; an
\* e-mail made up of nothing is nobody's.
Overlooked(k) ==
    \E e \in DOMAIN person :
        /\ person[e].email = FallbackEmail(k)
        /\ person[e].role = "REPORTER"
        /\ \/ k.phone # << >> /\ person[e].phone = k.phone
           \/ k.name # << >> /\ person[e].name = k.name
           \/ FallbackEmail(k)[1] = "anonymous"

\* A ticket is refused because of its customer only if a row was inserted or
\* changed while it was looked for, or if the e-mail made up for the customer is
\* that of a row which shows another spelling, telephone, name or role by now.
RefusedForCause ==
    \A c \in Callers : call[c].at = "refused" /\ c \notin raced =>
        call[c].contact.mail = None /\ ~Overlooked(call[c].contact)

\* docs/TEST_SCENARIOS_EXTENDED_2026-03-05.md:12, the account of a customer is
\* used again by e-mail, telephone or name: a customer whose telephone was taken
\* down with an earlier ticket is not refused when nothing else goes on.
ReturningCustomerServed ==
    \A c \in Callers : call[c].at = "refused" /\ c \notin raced =>
        call[c].contact.phone \notin served
=============================================================================
