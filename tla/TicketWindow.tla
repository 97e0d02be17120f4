---------------------------- MODULE TicketWindow ----------------------------
(***************************************************************************)
(* The ticket window of the dashboard: what is selected and shown, what    *)
(* the technician has typed and not sent, and the handlers that send it.   *)
(* A handler works with the values of the render it was made in, its       *)
(* closure: a click takes the last render, the Escape key the render in    *)
(* which the window was opened, because the effect that listens for it     *)
(* runs again only when showTicketModal changes.                           *)
(*                                                                         *)
(* A draft is the ticket it was typed under, whether its form accepts it,  *)
(* and whether the window has left it since without a question.            *)
(* window.confirm blocks the page, so a question and its answer belong to  *)
(* one step.                                                               *)
(***************************************************************************)
EXTENDS Naturals, Sequences

CONSTANTS Tickets,   \* tickets
          Agents,    \* technicians
          Forms,     \* the forms that are filled in, of AllForms
          MaxActs    \* bound on what users do

AllForms == {"comment", "cost", "reminder"}
NoTicket == "no ticket"

ASSUME WindowAssumption == Forms \subseteq AllForms /\ NoTicket \notin Tickets /\ MaxActs \in Nat

VARIABLES
    existing,     \* the tickets of the backend
    agent,        \* assignedAgentId of each ticket, in the backend
    tickets,      \* tickets: the list, with the technician it shows
    selected,     \* selectedTicketId
    shown,        \* showTicketModal
    technician,   \* assignmentDraft
    draft,        \* commentBody, costForm, newReminder
    escape,       \* the closure of the Escape key's listener
    listing,      \* lists on their way, each with the selection it was asked in
    sending,      \* what each form has on its way
    assigning,    \* the technician on his way
    saving,       \* the saves on their way (saveTicketDraftChanges)
    creating,     \* handleCreateTicket on its way
    misfiled,     \* auxiliary: how things came under another ticket
    misassigned,  \* auxiliary: how technicians came to tickets nobody gave them
    acts          \* what users have done so far

windowVars == <<existing, agent, tickets, selected, shown, technician, draft, escape, listing, sending,
                assigning, saving, creating, misfiled, misassigned, acts>>

NoAgent == "nobody"
NoDraft == << >>
Nothing == << >>
Drafts == [under : Tickets, valid : BOOLEAN, left : BOOLEAN]
Technicians == [agent : Agents \cup {NoAgent}, under : Tickets \cup {NoTicket}, escaped : BOOLEAN]

WindowInit ==
    /\ existing \in SUBSET Tickets
    /\ agent \in [Tickets -> Agents \cup {NoAgent}]
    /\ tickets = << >>
    /\ selected = NoTicket
    /\ shown = FALSE
    /\ technician = [agent |-> NoAgent, under |-> NoTicket, escaped |-> FALSE]
    /\ draft = [f \in Forms |-> NoDraft]
    /\ escape = Nothing
    /\ listing = {NoTicket}
    /\ sending = [f \in Forms |-> Nothing]
    /\ assigning = Nothing
    /\ saving = {}
    /\ creating = Nothing
    /\ misfiled = {}
    /\ misassigned = {}
    /\ acts = 0

----------------------------------------------------------------------------
(* Renders *)

Listed(list, t) == t \in DOMAIN list
AgentIn(list, t) == IF Listed(list, t) THEN list[t] ELSE NoAgent

\* selectedTicket is what the list has of it.
SelectedTicket(list, t) == IF Listed(list, t) THEN <<t, list[t]>> ELSE <<NoTicket, NoAgent>>

\* What a handler made in a render knows.
Closure(list, t, held, typed) ==
    [ticket |-> t, agent |-> AgentIn(list, t), technician |-> held, draft |-> typed,
     assignmentDirty |-> Listed(list, t) /\ held.agent # AgentIn(list, t)]
LastRender == Closure(tickets, selected, technician, draft)

HasTicketDraftChanges(c) == c.assignmentDirty \/ \E f \in Forms : c.draft[f] # NoDraft

\* Fault: the technician shown is taken anew only when he changes.
RenderByAgent(list, t, show, held) ==
    LET ticket == SelectedTicket(list, t) IN
    /\ tickets' = list
    /\ selected' = t
    /\ shown' = (show /\ t # NoTicket)
    /\ technician' =
         IF ticket[2] # SelectedTicket(tickets, selected)[2]
         THEN [agent |-> ticket[2], under |-> ticket[1], escaped |-> FALSE] ELSE held
    /\ escape' = IF ~shown' THEN Nothing
                 ELSE IF ~shown THEN Closure(list, t, held, draft') ELSE escape

\* The state a handler or an answer sets, and the effects of the render: no
\* selection closes the window, another ticket or technician sets the draft,
\* and a window that opens listens for Escape with what this render has.
Render(list, t, show, held) ==
    LET ticket == SelectedTicket(list, t) IN
    /\ tickets' = list
    /\ selected' = t
    /\ shown' = (show /\ t # NoTicket)
    /\ technician' =
         IF ticket # SelectedTicket(tickets, selected) \/ (t = NoTicket /\ selected # NoTicket)
         THEN [agent |-> ticket[2], under |-> ticket[1], escaped |-> FALSE] ELSE held
    /\ escape' = IF ~shown' THEN Nothing
                 ELSE IF ~shown THEN Closure(list, t, held, draft') ELSE escape

\* The window goes to another ticket, or away, and asks nothing.
Left == [f \in Forms |-> IF draft[f] = NoDraft THEN NoDraft ELSE [draft[f] EXCEPT !.left = TRUE]]

\* A list that lacks the ticket selected when it was asked for, or any ticket,
\* takes the selection away, even from another ticket.
TakeList(asked, found) ==
    LET t == IF found = {} \/ (asked # NoTicket /\ asked \notin found) THEN NoTicket ELSE selected
    IN  /\ draft' = IF t # selected THEN Left ELSE draft
        /\ Render([u \in found |-> agent[u]], t, shown, technician)

\* The window is on the screen.
Visible == shown /\ Listed(tickets, selected)

----------------------------------------------------------------------------
(* Typing *)

Type(f, valid) ==
    /\ Visible
    /\ draft' = [draft EXCEPT ![f] = [under |-> selected, valid |-> valid, left |-> FALSE]]
    /\ UNCHANGED <<existing, agent, tickets, selected, shown, technician, escape, listing, sending,
                   assigning, saving, creating, misfiled, misassigned>>

Erase(f) ==
    /\ Visible
    /\ draft[f] # NoDraft
    /\ draft' = [draft EXCEPT ![f] = NoDraft]
    /\ UNCHANGED <<existing, agent, tickets, selected, shown, technician, escape, listing, sending,
                   assigning, saving, creating, misfiled, misassigned>>

ChooseTechnician(a) ==
    /\ Visible
    /\ assigning = Nothing
    /\ technician' = [agent |-> a, under |-> selected, escaped |-> FALSE]
    /\ UNCHANGED <<existing, agent, tickets, selected, shown, draft, escape, listing, sending, assigning,
                   saving, creating, misfiled, misassigned>>

----------------------------------------------------------------------------
(* Sending *)

\* What was typed arrives under ticket t.
File(t, d) ==
    misfiled' = misfiled \cup {how \in {IF d.left THEN "left" ELSE "kept"} : d.under # t}

Assign(t, held, by) ==
    /\ agent' = [agent EXCEPT ![t] = held.agent]
    /\ misassigned' = misassigned \cup
         {how \in {IF held.escaped THEN "escape" ELSE by} : held.under # t}

\* handleAddComment, handleAddCostItem, handleCreateReminder: the form checks
\* its fields, its button is disabled until the answer.
Submit(f) ==
    /\ Visible
    /\ sending[f] = Nothing
    /\ draft[f] # NoDraft /\ draft[f].valid
    /\ sending' = [sending EXCEPT ![f] = [ticket |-> selected, draft |-> draft[f]]]
    /\ UNCHANGED <<existing, agent, tickets, selected, shown, technician, draft, escape, listing,
                   assigning, saving, creating, misfiled, misassigned>>

\* The form is emptied, whatever it holds by now.
Submitted(f) ==
    /\ sending[f] # Nothing
    /\ File(sending[f].ticket, sending[f].draft)
    /\ draft' = [draft EXCEPT ![f] = NoDraft]
    /\ sending' = [sending EXCEPT ![f] = Nothing]
    /\ UNCHANGED <<existing, agent, tickets, selected, shown, technician, escape, listing, assigning,
                   saving, creating, misassigned>>

SubmitFails(f) ==
    /\ sending[f] # Nothing
    /\ sending' = [sending EXCEPT ![f] = Nothing]
    /\ UNCHANGED <<existing, agent, tickets, selected, shown, technician, draft, escape, listing,
                   assigning, saving, creating, misfiled, misassigned>>

HandleAssignSelectedTicket ==
    /\ Visible
    /\ assigning = Nothing
    /\ assigning' = [ticket |-> selected, technician |-> technician]
    /\ UNCHANGED <<existing, agent, tickets, selected, shown, technician, draft, escape, listing, sending,
                   saving, creating, misfiled, misassigned>>

Assigned ==
    /\ assigning # Nothing
    /\ Assign(assigning.ticket, assigning.technician, "click")
    /\ assigning' = Nothing
    /\ listing' = listing \cup {assigning.ticket}
    /\ UNCHANGED <<existing, tickets, selected, shown, technician, draft, escape, sending, saving,
                   creating, misfiled>>

AssignFails ==
    /\ assigning # Nothing
    /\ assigning' = Nothing
    /\ UNCHANGED <<existing, agent, tickets, selected, shown, technician, draft, escape, listing, sending,
                   saving, creating, misfiled, misassigned>>

----------------------------------------------------------------------------
(* saveTicketDraftChanges: the technician, then the forms, each awaited *)

\* A form that is filled in is sent.
FilledIn(f, c) == IF f \in Forms /\ c.draft[f] # NoDraft THEN <<f>> ELSE << >>

ToSend(c) ==
    (IF c.assignmentDirty THEN <<"technician">> ELSE << >>)
    \o FilledIn("comment", c) \o FilledIn("cost", c) \o FilledIn("reminder", c) \o <<"reload">>

\* Nothing keeps a second save from beginning while one is on its way: each
\* works with its own closure.
Save(c, by, then) ==
    saving' = saving \cup {[begun |-> acts, closure |-> c, by |-> by, then |-> then,
                            applied |-> FALSE, rest |-> ToSend(c)]}

\* The next thing a save has to do is done with, and was sent or not.
Due(s, what) == s.rest # << >> /\ Head(s.rest) = what
Advances(s, sent) ==
    saving' = (saving \ {s}) \cup {[s EXCEPT !.rest = Tail(s.rest), !.applied = s.applied \/ sent]}

SaveTechnician(s) ==
    /\ Due(s, "technician")
    /\ Assign(s.closure.ticket, s.closure.technician, s.by)
    /\ Advances(s, TRUE)
    /\ UNCHANGED <<existing, tickets, selected, shown, technician, draft, escape, listing, sending,
                   assigning, creating, misfiled>>

SaveForm(s, f) ==
    /\ Due(s, f)
    /\ s.closure.draft[f].valid
    /\ File(s.closure.ticket, s.closure.draft[f])
    /\ draft' = [draft EXCEPT ![f] = NoDraft]
    /\ Advances(s, TRUE)
    /\ UNCHANGED <<existing, agent, tickets, selected, shown, technician, escape, listing, sending,
                   assigning, creating, misassigned>>

\* A comment that is but marked internal is passed over.
SkipComment(s) ==
    /\ Due(s, "comment")
    /\ ~s.closure.draft["comment"].valid
    /\ Advances(s, FALSE)
    /\ UNCHANGED <<existing, agent, tickets, selected, shown, technician, draft, escape, listing, sending,
                   assigning, creating, misfiled, misassigned>>

\* A form that is not filled in properly, or a request that fails, ends the
\* saving; what was sent before stays sent, and the window open.
SaveStops(s) ==
    /\ s.rest \notin {<< >>, <<"reload">>}
    /\ saving' = saving \ {s}
    /\ UNCHANGED <<existing, agent, tickets, selected, shown, technician, draft, escape, listing, sending,
                   assigning, creating, misfiled, misassigned>>

\* If something was sent, the list is loaded anew, as far as that works.
SaveReloads(s, found) ==
    /\ s.rest = <<"reload">>
    /\ s.applied
    /\ TakeList(s.closure.ticket, found)
    /\ Advances(s, TRUE)
    /\ UNCHANGED <<existing, agent, listing, sending, assigning, creating, misfiled, misassigned>>

\* Then the window closes, or goes to the other ticket.
Saved(s) ==
    /\ s.rest \in {<< >>, <<"reload">>}
    /\ draft' = Left
    /\ \/ s.then = NoTicket /\ Render(tickets, selected, FALSE, technician)
       \/ s.then # NoTicket /\ Render(tickets, s.then, TRUE, technician)
    /\ saving' = saving \ {s}
    /\ UNCHANGED <<existing, agent, listing, sending, assigning, creating, misfiled, misassigned>>

----------------------------------------------------------------------------
(* Closing and opening *)

ResetTicketDraftInputs == [f \in Forms |-> NoDraft]

CloseClean(c) ==
    /\ c.ticket = NoTicket \/ ~HasTicketDraftChanges(c)
    /\ draft' = Left
    /\ Render(tickets, selected, FALSE, technician)
    /\ UNCHANGED <<existing, agent, listing, sending, assigning, saving, creating, misfiled, misassigned>>

\* "You have unsaved changes. Save them before closing this window?"  Yes.
CloseAndSave(c, by) ==
    /\ c.ticket # NoTicket /\ HasTicketDraftChanges(c)
    /\ Save(c, by, NoTicket)
    /\ UNCHANGED <<existing, agent, tickets, selected, shown, technician, draft, escape, listing, sending,
                   assigning, creating, misfiled, misassigned>>

\* No, and they may be discarded.
CloseAndDiscard(c, by) ==
    /\ c.ticket # NoTicket /\ HasTicketDraftChanges(c)
    /\ draft' = ResetTicketDraftInputs
    /\ Render(tickets, selected, FALSE,
              [agent |-> c.agent, under |-> c.ticket, escaped |-> by = "escape"])
    /\ UNCHANGED <<existing, agent, listing, sending, assigning, saving, creating, misfiled, misassigned>>

HandleRequestCloseTicketModal(c, by) ==
    CloseClean(c) \/ CloseAndSave(c, by) \/ CloseAndDiscard(c, by)

CloseButton == Visible /\ HandleRequestCloseTicketModal(LastRender, "click")
EscapeKey == escape # Nothing /\ HandleRequestCloseTicketModal(escape, "escape")

Asks(t) == shown /\ selected \notin {NoTicket, t} /\ HasTicketDraftChanges(LastRender)

\* From the list, the history of the customer or the panel of reminders.
OpenDirectly(t) ==
    /\ ~Asks(t)
    /\ draft' = Left
    /\ Render(tickets, t, TRUE, technician)
    /\ UNCHANGED <<existing, agent, listing, sending, assigning, saving, creating, misfiled, misassigned>>

SaveAndOpen(t) ==
    /\ Asks(t)
    /\ Save(LastRender, "click", t)
    /\ UNCHANGED <<existing, agent, tickets, selected, shown, technician, draft, escape, listing, sending,
                   assigning, creating, misfiled, misassigned>>

DiscardAndOpen(t) ==
    /\ Asks(t)
    /\ draft' = ResetTicketDraftInputs
    /\ Render(tickets, t, TRUE, [agent |-> AgentIn(tickets, selected), under |-> selected,
                                 escaped |-> FALSE])
    /\ UNCHANGED <<existing, agent, listing, sending, assigning, saving, creating, misfiled, misassigned>>

HandleOpenTicketDetails(t) == OpenDirectly(t) \/ SaveAndOpen(t) \/ DiscardAndOpen(t)

----------------------------------------------------------------------------
(* Loading *)

\* The filters change, or the list is refreshed.
LoadTicketsData ==
    /\ listing' = listing \cup {selected}
    /\ UNCHANGED <<existing, agent, tickets, selected, shown, technician, draft, escape, sending,
                   assigning, saving, creating, misfiled, misassigned>>

TicketsArrive(asked, found) ==
    /\ asked \in listing
    /\ TakeList(asked, found)
    /\ listing' = listing \ {asked}
    /\ UNCHANGED <<existing, agent, sending, assigning, saving, creating, misfiled, misassigned>>

TicketsFail(asked) ==
    /\ asked \in listing
    /\ listing' = listing \ {asked}
    /\ UNCHANGED <<existing, agent, tickets, selected, shown, technician, draft, escape, sending,
                   assigning, saving, creating, misfiled, misassigned>>

\* loadTicketDetails of the ticket that is selected renews its technician.
DetailsArrive ==
    /\ Listed(tickets, selected)
    /\ draft' = draft
    /\ Render([tickets EXCEPT ![selected] = agent[selected]], selected, shown, technician)
    /\ UNCHANGED <<existing, agent, listing, sending, assigning, saving, creating, misfiled, misassigned>>

\* Another technician, or the backend, assigns the ticket.
Reassign(t, a) ==
    /\ agent' = [agent EXCEPT ![t] = a]
    /\ UNCHANGED <<existing, tickets, selected, shown, technician, draft, escape, listing, sending,
                   assigning, saving, creating, misfiled, misassigned>>

\* handleCreateTicket: the ticket, its files, the list, and the window goes to
\* it whatever it shows by then.
HandleCreateTicket ==
    /\ creating = Nothing
    /\ ~Visible
    /\ creating' = [at |-> "create", asked |-> selected]
    /\ UNCHANGED <<existing, agent, tickets, selected, shown, technician, draft, escape, listing,
                   sending, assigning, saving, misfiled, misassigned>>

Create(t) ==
    /\ creating # Nothing
    /\ creating.at = "create"
    /\ existing' = existing \cup {t}
    /\ creating' = [at |-> "list", asked |-> creating.asked, ticket |-> t]
    /\ UNCHANGED <<agent, tickets, selected, shown, technician, draft, escape, listing, sending,
                   assigning, saving, misfiled, misassigned>>

CreateReloads(found) ==
    /\ creating # Nothing
    /\ creating.at = "list"
    /\ TakeList(creating.asked, found)
    /\ creating' = [creating EXCEPT !.at = "open"]
    /\ UNCHANGED <<existing, agent, listing, sending, assigning, saving, misfiled, misassigned>>

Created ==
    /\ creating # Nothing
    /\ creating.at # "create"
    /\ draft' = Left
    /\ Render(tickets, creating.ticket, TRUE, technician)
    /\ creating' = Nothing
    /\ UNCHANGED <<existing, agent, listing, sending, assigning, saving, misfiled, misassigned>>

CreateFails ==
    /\ creating # Nothing
    /\ creating.at = "create"
    /\ creating' = Nothing
    /\ UNCHANGED <<existing, agent, tickets, selected, shown, technician, draft, escape, listing,
                   sending, assigning, saving, misfiled, misassigned>>

\* What users do: the technician at the window, and others.
UserActs ==
    \/ \E f \in Forms, valid \in BOOLEAN : Type(f, valid)
    \/ \E f \in Forms : Erase(f) \/ Submit(f)
    \/ \E a \in Agents \cup {NoAgent} : ChooseTechnician(a)
    \/ HandleAssignSelectedTicket \/ HandleCreateTicket \/ LoadTicketsData
    \/ CloseButton \/ EscapeKey
    \/ \E t \in existing : HandleOpenTicketDetails(t)
    \/ \E t \in existing, a \in Agents \cup {NoAgent} : Reassign(t, a)

\* What the answers of the backend do.
Answers ==
    \/ \E f \in Forms : Submitted(f) \/ SubmitFails(f)
    \/ Assigned \/ AssignFails
    \/ \E s \in saving :
         \/ SaveTechnician(s) \/ SkipComment(s) \/ SaveStops(s) \/ Saved(s)
         \/ \E f \in Forms : SaveForm(s, f)
         \/ \E found \in SUBSET existing : SaveReloads(s, found)
    \/ \E found \in SUBSET existing :
         \/ CreateReloads(found)
         \/ \E asked \in listing : TicketsArrive(asked, found)
    \/ \E asked \in listing : TicketsFail(asked)
    \/ DetailsArrive \/ Created \/ CreateFails
    \/ \E t \in Tickets \ existing : Create(t)

WindowNext ==
    \/ acts < MaxActs /\ acts' = acts + 1 /\ UserActs
    \/ Answers /\ UNCHANGED acts

WindowSpec == WindowInit /\ [][WindowNext]_windowVars

----------------------------------------------------------------------------
Selection == Tickets \cup {NoTicket}
DraftSets == [Forms -> Drafts \cup {NoDraft}]
Closures == [ticket : Selection, agent : Agents \cup {NoAgent}, technician : Technicians,
             draft : DraftSets, assignmentDirty : BOOLEAN]

WindowTypeOK ==
    /\ DOMAIN tickets \subseteq existing
    /\ \A t \in DOMAIN tickets : tickets[t] \in Agents \cup {NoAgent}
    /\ selected \in Selection
    /\ shown => selected # NoTicket
    /\ technician \in Technicians
    /\ draft \in DraftSets
    /\ IF shown THEN escape \in Closures ELSE escape = Nothing
    /\ listing \subseteq Selection
    /\ \A f \in Forms : sending[f] = Nothing
                         \/ sending[f] \in [ticket : Tickets, draft : Drafts]
    /\ assigning = Nothing \/ assigning \in [ticket : Tickets, technician : Technicians]
    /\ \A s \in saving : s.closure \in Closures /\ s.closure.ticket \in Tickets
    /\ acts \in 0 .. MaxActs

\* What is typed into the window is filed under the ticket it was typed under,
\* however clicks, answers and the Escape key follow one another, unless the
\* window left that ticket with the text and without a question; and a save
\* gives a ticket only the technician chosen or shown under it, unless Escape
\* was pressed.
WindowFaithful == "kept" \notin misfiled /\ "click" \notin misassigned

\* frontend/app/dashboard/page.tsx:951, "You have unsaved changes. Save them
\* before closing this window?": what is saved on that answer is a change that
\* was made in this window, not the technician of another ticket or of none.
AssignedByChoice == misassigned = {}
=============================================================================
