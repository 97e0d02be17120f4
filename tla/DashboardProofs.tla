-------------------------- MODULE DashboardProofs ---------------------------
(***************************************************************************)
(* What the dashboard promises: the window of a ticket, the tabs of an     *)
(* administrator and the preferences.                                      *)
(***************************************************************************)
EXTENDS TicketWindow, DashboardTabs, Preferences,
        FiniteSetTheorems, WellFoundedInduction, TLAPS

----------------------------------------------------------------------------
\* A set of numbers that is not empty has a least one.
LEMMA LeastOf == \A T \in SUBSET Nat : T # {} => \E x \in T : \A y \in T : x <= y
<1> SUFFICES ASSUME NEW T \in SUBSET Nat, T # {} PROVE \E x \in T : \A y \in T : x <= y
  OBVIOUS
<1> DEFINE R == {ss \in Nat \X Nat : ss[1] < ss[2]}
<1>1. IsWellFoundedOn(R, Nat)
  BY NatLessThanWellFounded DEF OpToRel
<1>2. \E x \in T : \A y \in T : ~ (<<y, x>> \in R)
  BY <1>1, WFMin
<1>3. \A x, y \in T : ~ (<<y, x>> \in R) => x <= y
  OBVIOUS
<1> QED BY <1>2, <1>3

----------------------------------------------------------------------------
(***************************************************************************)
(* The ticket window files and assigns under the ticket it shows.  What is *)
(* on the screen, in the closure of the Escape key, in a request and in a  *)
(* save on its way was of the ticket it names, or the window was left with *)
(* it, or Escape was pressed; a save sends only the forms and the          *)
(* technician that its closure had.                                        *)
(***************************************************************************)

USE WindowAssumption

\* What is typed belongs to ticket t, or the window left its own with it; the
\* technician shown was chosen or shown under t, or Escape was pressed.
Placed(typedHere, t) ==
    \A f \in Forms : typedHere[f] = NoDraft \/ typedHere[f].left \/ typedHere[f].under = t
Own(held, t) == held.escaped \/ held.under = t

\* What a save has to send of its closure.
ToSendTypes(c) == {f \in Forms : c.draft[f] # NoDraft} \cup {"reload"}
                  \cup (IF c.assignmentDirty THEN {"technician"} ELSE {})
SaveTypes == [begun : 0 .. MaxActs, closure : Closures, by : {"click", "escape"}, then : Selection, applied : BOOLEAN,
              rest : Seq(AllForms \cup {"reload", "technician"})]
CreateTypes == [at : {"create"}, asked : Selection] \cup [at : {"list", "open"}, asked : Selection, ticket : Tickets]
Lists == UNION {[s -> Agents \cup {NoAgent}] : s \in SUBSET existing}

\* The screen: what is on it is of the ticket that is selected, and the closure
\* of the Escape key held what was of its ticket.
ScreenKept ==
    /\ tickets \in Lists /\ selected \in Selection /\ (shown => selected # NoTicket)
    /\ technician \in Technicians /\ draft \in DraftSets
    /\ IF shown THEN escape \in Closures /\ Placed(escape.draft, escape.ticket) ELSE escape = Nothing
    /\ Placed(draft, selected)
    /\ Listed(tickets, selected) => Own(technician, selected)

\* The requests: each carries what was of the ticket it is about.
FormsOnTheirWay ==
    /\ sending = [f \in Forms |-> sending[f]]
    /\ \A f \in Forms :
         \/ sending[f] = Nothing
         \/ /\ sending[f] \in [ticket : Tickets, draft : Drafts]
            /\ sending[f].draft.left \/ sending[f].draft.under = sending[f].ticket
AssignmentOnItsWay ==
    assigning # Nothing => assigning \in [ticket : Tickets, technician : Technicians]
                           /\ Own(assigning.technician, assigning.ticket)
SaveOfItsTicket(s) ==
    /\ s \in SaveTypes /\ s.closure.ticket \in Tickets
    /\ s.rest \in Seq(ToSendTypes(s.closure))
    /\ Placed(s.closure.draft, s.closure.ticket)
    /\ s.by = "click" /\ s.closure.assignmentDirty => Own(s.closure.technician, s.closure.ticket)
SavesOnTheirWay == \A s \in saving : SaveOfItsTicket(s)

BackendTyped ==
    /\ existing \subseteq Tickets /\ agent \in [Tickets -> Agents \cup {NoAgent}]
    /\ listing \subseteq Selection
    /\ creating # Nothing => creating \in CreateTypes

WindowInv ==
    /\ ScreenKept /\ FormsOnTheirWay /\ AssignmentOnItsWay /\ SavesOnTheirWay /\ BackendTyped
    /\ WindowFaithful /\ acts \in 0 .. MaxActs

LEMMA WindowTyped == WindowInv => WindowTypeOK
<1> SUFFICES ASSUME WindowInv PROVE WindowTypeOK
  OBVIOUS
<1>1. DOMAIN tickets \subseteq existing /\ \A t \in DOMAIN tickets : tickets[t] \in Agents \cup {NoAgent}
  BY DEF WindowInv, ScreenKept, Lists
<1>2. \A s \in saving : s.closure \in Closures /\ s.closure.ticket \in Tickets
  BY DEF WindowInv, SavesOnTheirWay, SaveOfItsTicket, SaveTypes
<1> QED BY <1>1, <1>2 DEF WindowInv, WindowTypeOK, ScreenKept, FormsOnTheirWay, AssignmentOnItsWay,
                         SavesOnTheirWay, BackendTyped

LEMMA WindowInvInit == WindowInit => WindowInv
<1> SUFFICES ASSUME WindowInit PROVE WindowInv
  OBVIOUS
<1>1. << >> \in Lists
  <2>1. << >> \in [{} -> Agents \cup {NoAgent}]
    OBVIOUS
  <2> QED BY <2>1 DEF Lists
<1>2. technician \in Technicians /\ draft \in DraftSets /\ selected \in Selection
  BY DEF WindowInit, Technicians, DraftSets, Selection
<1>3. ~Listed(tickets, selected)
  BY DEF WindowInit, Listed
<1>4. ScreenKept
  BY <1>1, <1>2, <1>3 DEF WindowInit, ScreenKept, Placed
<1>5. acts \in 0 .. MaxActs /\ WindowFaithful
  BY DEF WindowInit, WindowFaithful
<1> QED BY <1>4, <1>5 DEF WindowInit, WindowInv, FormsOnTheirWay, AssignmentOnItsWay, SavesOnTheirWay,
                         BackendTyped, Selection, Nothing

----------------------------------------------------------------------------
\* The screen, or a request, stays as it is.
LEMMA ScreenStays ==
    ASSUME ScreenKept, existing \subseteq existing',
           UNCHANGED <<tickets, selected, shown, technician, draft, escape>>
    PROVE  ScreenKept'
BY DEF ScreenKept, Lists, Listed

LEMMA RequestsStay ==
    ASSUME WindowInv
    PROVE  /\ UNCHANGED sending => FormsOnTheirWay'
           /\ UNCHANGED assigning => AssignmentOnItsWay'
           /\ UNCHANGED saving => SavesOnTheirWay'
           /\ UNCHANGED <<existing, agent, listing, creating>> => BackendTyped'
           /\ UNCHANGED <<misfiled, misassigned>> => WindowFaithful'
<1> USE DEF WindowInv
<1>1. UNCHANGED sending => FormsOnTheirWay'
  BY DEF FormsOnTheirWay
<1>2. UNCHANGED assigning => AssignmentOnItsWay'
  BY DEF AssignmentOnItsWay
<1>3. UNCHANGED saving => SavesOnTheirWay'
  BY DEF SavesOnTheirWay
<1>4. UNCHANGED <<existing, agent, listing, creating>> => BackendTyped'
  BY DEF BackendTyped
<1>5. UNCHANGED <<misfiled, misassigned>> => WindowFaithful'
  BY DEF WindowFaithful
<1> QED BY <1>1, <1>2, <1>3, <1>4, <1>5

LEMMA NoTicketListed ==
    ASSUME existing \subseteq Tickets, NEW rows \in Lists
    PROVE  /\ ~Listed(rows, NoTicket)
           /\ \A t : Listed(rows, t) => t \in Tickets /\ t # NoTicket
           /\ \A t : AgentIn(rows, t) \in Agents \cup {NoAgent}
BY DEF Lists, Listed, AgentIn

\* A render that keeps what is of the ticket it shows.
LEMMA RenderKeeps ==
    ASSUME WindowInv, UNCHANGED existing, NEW rows \in Lists, NEW t \in Selection, NEW show \in BOOLEAN,
           NEW held \in Technicians, Render(rows, t, show, held),
           draft' \in DraftSets, Placed(draft', t),
           t = selected => (Listed(tickets, selected) => Own(held, selected))
    PROVE  ScreenKept'
<1>1. /\ tickets' = rows /\ selected' = t /\ (shown' <=> show /\ t # NoTicket)
      /\ technician' = IF SelectedTicket(rows, t) # SelectedTicket(tickets, selected)
                            \/ (t = NoTicket /\ selected # NoTicket)
                       THEN [agent |-> SelectedTicket(rows, t)[2], under |-> SelectedTicket(rows, t)[1],
                             escaped |-> FALSE]
                       ELSE held
      /\ escape' = IF ~shown' THEN Nothing
                   ELSE IF ~shown THEN Closure(rows, t, held, draft') ELSE escape
  BY DEF Render
<1>2. existing \subseteq Tickets /\ tickets \in Lists
  BY DEF WindowInv, ScreenKept, BackendTyped
<1>3. SelectedTicket(rows, t) = IF Listed(rows, t) THEN <<t, AgentIn(rows, t)>> ELSE <<NoTicket, NoAgent>>
  BY DEF SelectedTicket, AgentIn
<1>4. SelectedTicket(tickets, selected)
        = IF Listed(tickets, selected) THEN <<selected, AgentIn(tickets, selected)>> ELSE <<NoTicket, NoAgent>>
  BY DEF SelectedTicket, AgentIn
<1>5. technician' \in Technicians
  BY <1>1, <1>2, <1>3, NoTicketListed DEF Technicians
<1>6. Listed(tickets', selected') => Own(technician', selected')
  <2> SUFFICES ASSUME Listed(rows, t) PROVE Own(technician', t)
    BY <1>1
  <2>1. t \in Tickets /\ t # NoTicket
    BY <1>2, NoTicketListed
  <2>2. CASE SelectedTicket(rows, t) # SelectedTicket(tickets, selected)
    BY <1>1, <1>3, <2>2 DEF Own
  <2>3. CASE SelectedTicket(rows, t) = SelectedTicket(tickets, selected)
    <3>1. t = selected /\ Listed(tickets, selected)
      BY <1>3, <1>4, <2>1, <2>3
    <3> QED BY <1>1, <2>1, <2>3, <3>1
  <2> QED BY <2>2, <2>3
<1>7. Closure(rows, t, held, draft') \in Closures
  <2>1. AgentIn(rows, t) \in Agents \cup {NoAgent}
    BY <1>2, NoTicketListed
  <2>2. (Listed(rows, t) /\ held.agent # AgentIn(rows, t)) \in BOOLEAN
    OBVIOUS
  <2> QED BY <2>1, <2>2 DEF Closure, Closures
<1>8. Closure(rows, t, held, draft').draft = draft' /\ Closure(rows, t, held, draft').ticket = t
  BY DEF Closure
<1>9. IF shown' THEN escape' \in Closures /\ Placed(escape'.draft, escape'.ticket) ELSE escape' = Nothing
  <2>1. CASE ~shown'
    BY <1>1, <2>1
  <2>2. CASE shown' /\ ~shown
    BY <1>1, <1>7, <1>8, <2>2
  <2>3. CASE shown' /\ shown
    BY <1>1, <2>3 DEF WindowInv, ScreenKept
  <2> QED BY <2>1, <2>2, <2>3
<1>10. Placed(draft, selected)'
  BY <1>1 DEF Placed
<1>11. Placed(escape, selected)' <=> Placed(escape', selected')
  BY DEF Placed
<1>12. tickets' \in Lists'
  BY <1>1 DEF Lists
<1>13. shown' => Placed(escape.draft, escape.ticket)'
  BY <1>9 DEF Placed
<1>14. (Listed(tickets, selected) => Own(technician, selected))'
  BY <1>6 DEF Listed, Own
<1> QED BY <1>1, <1>5, <1>9, <1>10, <1>12, <1>13, <1>14 DEF ScreenKept

----------------------------------------------------------------------------
\* A draft that is typed, emptied, or left behind.
LEMMA DraftsMade ==
    ASSUME ScreenKept
    PROVE  /\ Left \in DraftSets /\ \A t : Placed(Left, t)
           /\ ResetTicketDraftInputs \in DraftSets /\ \A t : Placed(ResetTicketDraftInputs, t)
<1>1. \A f \in Forms : draft[f] \in Drafts \cup {NoDraft}
  BY DEF ScreenKept, DraftSets
<1>2. \A d \in Drafts : [d EXCEPT !.left = TRUE] \in Drafts /\ [d EXCEPT !.left = TRUE].left = TRUE
  BY DEF Drafts
<1>3. \A f \in Forms : Left[f] \in Drafts \cup {NoDraft} /\ (Left[f] = NoDraft \/ Left[f].left)
  <2> SUFFICES ASSUME NEW f \in Forms
               PROVE  Left[f] \in Drafts \cup {NoDraft} /\ (Left[f] = NoDraft \/ Left[f].left)
    OBVIOUS
  <2>1. CASE draft[f] = NoDraft
    BY <2>1 DEF Left
  <2>2. CASE draft[f] # NoDraft
    <3>1. PICK d \in Drafts : d = draft[f]
      BY <1>1, <2>2
    <3>2. Left[f] = [d EXCEPT !.left = TRUE]
      BY <2>2, <3>1 DEF Left
    <3> QED BY <1>2, <3>2
  <2> QED BY <2>1, <2>2
<1>4. Left = [f \in Forms |-> Left[f]]
  BY DEF Left
<1> QED BY <1>3, <1>4 DEF DraftSets, Placed, ResetTicketDraftInputs

\* The screen but for its drafts stays.
LEMMA DraftKeeps ==
    ASSUME ScreenKept, UNCHANGED <<existing, tickets, selected, shown, technician, escape>>,
           NEW f \in Forms, NEW d \in Drafts \cup {NoDraft}, draft' = [draft EXCEPT ![f] = d],
           d = NoDraft \/ d.left \/ d.under = selected
    PROVE  ScreenKept'
<1>1. draft' \in DraftSets
  BY DEF ScreenKept, DraftSets
<1>2. Placed(draft', selected)
  <2> SUFFICES ASSUME NEW g \in Forms
               PROVE  draft'[g] = NoDraft \/ draft'[g].left \/ draft'[g].under = selected
    BY DEF Placed
  <2>1. CASE g = f
    BY <2>1 DEF ScreenKept, DraftSets
  <2>2. CASE g # f
    BY <2>2 DEF ScreenKept, DraftSets, Placed
  <2> QED BY <2>1, <2>2
<1> QED BY <1>1, <1>2 DEF ScreenKept, Lists, Listed, Placed

\* Who has the window in front of him has selected a ticket of the rows.
LEMMA VisibleTicket ==
    ASSUME WindowInv, Visible
    PROVE  selected \in Tickets /\ shown /\ Listed(tickets, selected) /\ Own(technician, selected)
BY NoTicketListed DEF WindowInv, BackendTyped, ScreenKept, Visible

LEMMA TypingKeeps ==
    ASSUME WindowInv, acts' \in 0 .. MaxActs,
           \/ \E f \in Forms, valid \in BOOLEAN : Type(f, valid)
           \/ \E f \in Forms : Erase(f)
           \/ \E a \in Agents \cup {NoAgent} : ChooseTechnician(a)
    PROVE  WindowInv'
<1>1. UNCHANGED <<existing, agent, tickets, selected, shown, escape, listing, sending, assigning, saving,
                  creating, misfiled, misassigned>>
  BY DEF Type, Erase, ChooseTechnician
<1>2. ASSUME NEW f \in Forms, NEW valid \in BOOLEAN, Type(f, valid) PROVE ScreenKept'
  <2> DEFINE d == [under |-> selected, valid |-> valid, left |-> FALSE]
  <2>1. draft' = [draft EXCEPT ![f] = d] /\ Visible /\ UNCHANGED technician
    BY <1>2 DEF Type
  <2>2. d \in Drafts /\ d.under = selected
    BY <2>1, VisibleTicket DEF Drafts
  <2> HIDE DEF d
  <2> QED BY <1>1, <2>1, <2>2, DraftKeeps DEF WindowInv
<1>3. ASSUME NEW f \in Forms, Erase(f) PROVE ScreenKept'
  <2>1. draft' = [draft EXCEPT ![f] = NoDraft] /\ UNCHANGED technician
    BY <1>3 DEF Erase
  <2> QED BY <1>1, <2>1, DraftKeeps DEF WindowInv
<1>4. ASSUME NEW a \in Agents \cup {NoAgent}, ChooseTechnician(a) PROVE ScreenKept'
  <2>1. technician' = [agent |-> a, under |-> selected, escaped |-> FALSE] /\ UNCHANGED draft
    BY <1>4 DEF ChooseTechnician
  <2>2. technician' \in Technicians /\ Own(technician', selected)
    BY <2>1 DEF WindowInv, ScreenKept, Technicians, Selection, Own
  <2> QED BY <1>1, <2>1, <2>2 DEF WindowInv, ScreenKept, Lists, Listed, Placed, Own
<1>5. ScreenKept'
  BY <1>2, <1>3, <1>4
<1> QED BY <1>1, <1>5, RequestsStay DEF WindowInv

----------------------------------------------------------------------------
\* What arrives under its own ticket, or was left, is not misfiled.
LEMMA FiledRight ==
    ASSUME WindowInv, NEW t, NEW d, d.left \/ d.under = t, File(t, d), UNCHANGED misassigned
    PROVE  WindowFaithful'
BY DEF WindowInv, WindowFaithful, File

LEMMA AssignedRight ==
    ASSUME WindowInv, NEW t \in Tickets, NEW held \in Technicians, NEW by, by = "click" => Own(held, t),
           Assign(t, held, by), UNCHANGED misfiled
    PROVE  WindowFaithful' /\ agent' \in [Tickets -> Agents \cup {NoAgent}]
<1>1. agent' \in [Tickets -> Agents \cup {NoAgent}]
  BY DEF WindowInv, BackendTyped, Assign, Technicians
<1> QED BY <1>1 DEF WindowInv, WindowFaithful, Assign, Own

LEMMA FormsSentKeep ==
    ASSUME WindowInv, acts' \in 0 .. MaxActs, NEW f \in Forms, Submit(f) \/ Submitted(f) \/ SubmitFails(f)
    PROVE  WindowInv'
<1>1. UNCHANGED <<existing, agent, tickets, selected, shown, technician, escape, listing, assigning,
                  saving, creating, misassigned>>
  BY DEF Submit, Submitted, SubmitFails
<1>2. CASE Submit(f)
  <2> DEFINE r == [ticket |-> selected, draft |-> draft[f]]
  <2>1. /\ Visible /\ draft[f] # NoDraft /\ sending' = [sending EXCEPT ![f] = r]
        /\ UNCHANGED <<draft, misfiled>>
    BY <1>2 DEF Submit
  <2>2. draft[f] \in Drafts /\ (draft[f].left \/ draft[f].under = selected)
    BY <2>1 DEF WindowInv, ScreenKept, DraftSets, Placed
  <2>3. r \in [ticket : Tickets, draft : Drafts] /\ (r.draft.left \/ r.draft.under = r.ticket)
    BY <2>1, <2>2, VisibleTicket
  <2> HIDE DEF r
  <2>4. FormsOnTheirWay'
    BY <2>1, <2>3 DEF WindowInv, FormsOnTheirWay
  <2> QED BY <1>1, <2>1, <2>4, ScreenStays, RequestsStay DEF WindowInv
<1>3. CASE Submitted(f) \/ SubmitFails(f)
  <2>1. sending[f] # Nothing /\ sending' = [sending EXCEPT ![f] = Nothing]
    BY <1>3 DEF Submitted, SubmitFails
  <2>2. FormsOnTheirWay'
    BY <2>1 DEF WindowInv, FormsOnTheirWay
  <2>3. sending[f].draft.left \/ sending[f].draft.under = sending[f].ticket
    BY <2>1 DEF WindowInv, FormsOnTheirWay
  <2>4. CASE Submitted(f)
    <3>1. File(sending[f].ticket, sending[f].draft) /\ draft' = [draft EXCEPT ![f] = NoDraft]
      BY <2>4 DEF Submitted
    <3>2. WindowFaithful'
      BY <1>1, <2>3, <3>1, FiledRight
    <3>3. ScreenKept'
      BY <1>1, <3>1, DraftKeeps DEF WindowInv
    <3> QED BY <1>1, <2>2, <3>2, <3>3, RequestsStay DEF WindowInv
  <2>5. CASE SubmitFails(f)
    <3>1. UNCHANGED <<draft, misfiled>>
      BY <2>5 DEF SubmitFails
    <3> QED BY <1>1, <2>2, <3>1, ScreenStays, RequestsStay DEF WindowInv
  <2> QED BY <1>3, <2>4, <2>5
<1> QED BY <1>2, <1>3

LEMMA AssignmentsKeep ==
    ASSUME WindowInv, acts' \in 0 .. MaxActs, HandleAssignSelectedTicket \/ Assigned \/ AssignFails
    PROVE  WindowInv'
<1>1. UNCHANGED <<existing, tickets, selected, shown, technician, draft, escape, sending, saving,
                  creating, misfiled>>
  BY DEF HandleAssignSelectedTicket, Assigned, AssignFails
<1>2. ScreenKept'
  BY <1>1, ScreenStays DEF WindowInv
<1>3. CASE HandleAssignSelectedTicket
  <2>1. Visible /\ assigning' = [ticket |-> selected, technician |-> technician]
        /\ UNCHANGED <<agent, listing, misassigned>>
    BY <1>3 DEF HandleAssignSelectedTicket
  <2>2. AssignmentOnItsWay'
    BY <2>1, VisibleTicket DEF WindowInv, ScreenKept, AssignmentOnItsWay, Own
  <2> QED BY <1>1, <1>2, <2>1, <2>2, RequestsStay DEF WindowInv
<1>4. CASE Assigned
  <2>1. /\ assigning # Nothing /\ Assign(assigning.ticket, assigning.technician, "click")
        /\ assigning' = Nothing /\ listing' = listing \cup {assigning.ticket}
    BY <1>4 DEF Assigned
  <2>2. assigning.ticket \in Tickets /\ assigning.technician \in Technicians
        /\ Own(assigning.technician, assigning.ticket)
    BY <2>1 DEF WindowInv, AssignmentOnItsWay
  <2>3. WindowFaithful' /\ agent' \in [Tickets -> Agents \cup {NoAgent}]
    BY <1>1, <2>1, <2>2, AssignedRight
  <2>4. BackendTyped'
    BY <1>1, <2>1, <2>2, <2>3 DEF WindowInv, BackendTyped, Selection
  <2>5. AssignmentOnItsWay'
    BY <2>1 DEF AssignmentOnItsWay
  <2> QED BY <1>1, <1>2, <2>3, <2>4, <2>5, RequestsStay DEF WindowInv
<1>5. CASE AssignFails
  <2>1. assigning' = Nothing /\ UNCHANGED <<agent, listing, misassigned>>
    BY <1>5 DEF AssignFails
  <2>2. AssignmentOnItsWay'
    BY <2>1 DEF AssignmentOnItsWay
  <2> QED BY <1>1, <1>2, <2>1, <2>2, RequestsStay DEF WindowInv
<1> QED BY <1>3, <1>4, <1>5

----------------------------------------------------------------------------
\* The technician is sent only if he was changed.
LEMMA SentOfClosure == ASSUME NEW c PROVE ToSend(c) \in Seq(ToSendTypes(c))
<1> DEFINE S == ToSendTypes(c)
<1>1. ASSUME NEW f PROVE FilledIn(f, c) \in Seq(S)
  <2>1. f \in Forms /\ c.draft[f] # NoDraft => f \in S
    BY DEF ToSendTypes
  <2> HIDE DEF S
  <2>2. << >> \in Seq(S) /\ (f \in S => <<f>> \in Seq(S))
    OBVIOUS
  <2> QED BY <2>1, <2>2 DEF FilledIn
<1>2. (IF c.assignmentDirty THEN <<"technician">> ELSE << >>) \in Seq(S)
  <2>1. c.assignmentDirty => "technician" \in S
    BY DEF ToSendTypes
  <2> HIDE DEF S
  <2>2. << >> \in Seq(S) /\ ("technician" \in S => <<"technician">> \in Seq(S))
    OBVIOUS
  <2> QED BY <2>1, <2>2
<1>3. <<"reload">> \in Seq(S)
  BY DEF ToSendTypes
<1> HIDE DEF S
<1>5. \A s, t \in Seq(S) : s \o t \in Seq(S)
  OBVIOUS
<1>6. ToSend(c) \in Seq(S)
  BY <1>1, <1>2, <1>3, <1>5 DEF ToSend
<1> QED BY <1>6 DEF S

LEMMA SaveBegins ==
    ASSUME WindowInv, NEW c \in Closures, c.ticket \in Tickets, Placed(c.draft, c.ticket),
           NEW by \in {"click", "escape"}, NEW then \in Selection, Save(c, by, then),
           by = "click" /\ c.assignmentDirty => Own(c.technician, c.ticket)
    PROVE  SavesOnTheirWay'
<1> DEFINE s == [begun |-> acts, closure |-> c, by |-> by, then |-> then, applied |-> FALSE,
                 rest |-> ToSend(c)]
<1>1. saving' = saving \cup {s}
  BY DEF Save
<1>2. ToSend(c) \in Seq(ToSendTypes(c))
  BY SentOfClosure
<1>3. ToSend(c) \in Seq(AllForms \cup {"reload", "technician"})
  <2>1. ToSendTypes(c) \subseteq AllForms \cup {"reload", "technician"}
    BY DEF ToSendTypes, WindowAssumption
  <2> QED BY <1>2, <2>1
<1>4. s \in SaveTypes
  BY <1>3 DEF SaveTypes, WindowInv
<1>5. s.closure = c /\ s.rest = ToSend(c) /\ s.by = by
  OBVIOUS
<1> HIDE DEF s
<1>6. SaveOfItsTicket(s)
  BY <1>2, <1>4, <1>5 DEF SaveOfItsTicket
<1> QED BY <1>1, <1>6 DEF SavesOnTheirWay, WindowInv, SaveOfItsTicket

LEMMA RestOfSeq == ASSUME NEW S, NEW s \in Seq(S), s # << >> PROVE Tail(s) \in Seq(S)
OBVIOUS

\* One thing was sent, or passed over.
LEMMA SaveAdvances ==
    ASSUME WindowInv, NEW s \in saving, s.rest # << >>, NEW sent \in BOOLEAN, Advances(s, sent)
    PROVE  SavesOnTheirWay'
<1> DEFINE others == Tail(s.rest)
           on == [s EXCEPT !.rest = others, !.applied = s.applied \/ sent]
<1>1. SaveOfItsTicket(s)
  BY DEF WindowInv, SavesOnTheirWay
<1>2. s.rest \in Seq(AllForms \cup {"reload", "technician"}) /\ s.rest \in Seq(ToSendTypes(s.closure))
      /\ s \in SaveTypes
  BY <1>1 DEF SaveOfItsTicket, SaveTypes
<1>3. others \in Seq(AllForms \cup {"reload", "technician"}) /\ others \in Seq(ToSendTypes(s.closure))
  BY <1>2, RestOfSeq
<1> HIDE DEF others
<1>4. (s.applied \/ sent) \in BOOLEAN
  OBVIOUS
<1>5. on \in SaveTypes /\ on.rest = others /\ on.closure = s.closure /\ on.by = s.by
  BY <1>2, <1>3, <1>4 DEF SaveTypes
<1>6. saving' = (saving \ {s}) \cup {on}
  BY DEF Advances, others
<1> HIDE DEF on
<1>7. SaveOfItsTicket(on)
  BY <1>1, <1>3, <1>5 DEF SaveOfItsTicket
<1> QED BY <1>6, <1>7 DEF WindowInv, SavesOnTheirWay, SaveOfItsTicket

\* A save is over.
LEMMA SaveDone ==
    ASSUME WindowInv, NEW s, saving' = saving \ {s}
    PROVE  SavesOnTheirWay'
BY DEF WindowInv, SavesOnTheirWay, SaveOfItsTicket

LEMMA FirstOfSeq == ASSUME NEW S, NEW s \in Seq(S), s # << >> PROVE Head(s) \in S
OBVIOUS

\* What a save on its way is about.
LEMMA SaveShape ==
    ASSUME WindowInv, NEW s \in saving
    PROVE  /\ s.closure \in Closures /\ s.closure.ticket \in Tickets
           /\ s.closure.technician \in Technicians /\ s.closure.draft \in DraftSets
           /\ s.then \in Selection /\ s.by \in {"click", "escape"}
           /\ s.rest \in Seq(ToSendTypes(s.closure))
           /\ Placed(s.closure.draft, s.closure.ticket)
           /\ s.by = "click" /\ s.closure.assignmentDirty
                => Own(s.closure.technician, s.closure.ticket)
<1>1. SaveOfItsTicket(s)
  BY DEF WindowInv, SavesOnTheirWay
<1>2. s.closure \in Closures /\ s.then \in Selection /\ s.by \in {"click", "escape"}
  BY <1>1 DEF SaveOfItsTicket, SaveTypes
<1> QED BY <1>1, <1>2 DEF SaveOfItsTicket, Closures

LEMMA SavingKeeps ==
    ASSUME WindowInv, UNCHANGED acts, NEW s \in saving,
           SaveTechnician(s) \/ SkipComment(s) \/ SaveStops(s) \/ (\E f \in Forms : SaveForm(s, f))
    PROVE  WindowInv'
<1>1. UNCHANGED <<existing, tickets, selected, shown, technician, escape, listing, sending,
                  assigning, creating>>
  BY DEF SaveTechnician, SkipComment, SaveStops, SaveForm
<1>2. CASE SaveTechnician(s)
  <2>1. /\ s.rest # << >> /\ Head(s.rest) = "technician"
        /\ Assign(s.closure.ticket, s.closure.technician, s.by)
        /\ Advances(s, TRUE)
        /\ UNCHANGED <<draft, misfiled>>
    BY <1>2 DEF SaveTechnician, Due
  <2>2. "technician" \in ToSendTypes(s.closure)
    BY <2>1, SaveShape, FirstOfSeq
  <2>3. s.by = "click" => Own(s.closure.technician, s.closure.ticket)
    BY <2>2, SaveShape DEF ToSendTypes, AllForms, WindowAssumption
  <2>4. WindowFaithful' /\ agent' \in [Tickets -> Agents \cup {NoAgent}]
    BY <1>1, <2>1, <2>3, SaveShape, AssignedRight
  <2>5. BackendTyped'
    BY <1>1, <2>4 DEF WindowInv, BackendTyped
  <2>6. SavesOnTheirWay'
    BY <2>1, SaveAdvances
  <2> QED BY <1>1, <2>1, <2>4, <2>5, <2>6, ScreenStays, RequestsStay DEF WindowInv
<1>3. ASSUME NEW f \in Forms, SaveForm(s, f) PROVE WindowInv'
  <2>1. /\ s.rest # << >> /\ Head(s.rest) = f /\ s.closure.draft[f].valid
        /\ File(s.closure.ticket, s.closure.draft[f])
        /\ draft' = [draft EXCEPT ![f] = NoDraft]
        /\ Advances(s, TRUE)
        /\ UNCHANGED <<agent, misassigned>>
    BY <1>3 DEF SaveForm, Due
  <2>2. s.closure.draft[f] # NoDraft
    <3>1. f \in ToSendTypes(s.closure)
      BY <2>1, SaveShape, FirstOfSeq
    <3> QED BY <3>1 DEF ToSendTypes, WindowAssumption, AllForms
  <2>3. s.closure.draft[f].left \/ s.closure.draft[f].under = s.closure.ticket
    BY <2>2, SaveShape DEF Placed
  <2>4. WindowFaithful'
    BY <2>1, <2>3, FiledRight
  <2>5. ScreenKept'
    BY <1>1, <2>1, DraftKeeps DEF WindowInv
  <2>6. SavesOnTheirWay'
    BY <2>1, SaveAdvances
  <2> QED BY <1>1, <2>1, <2>4, <2>5, <2>6, RequestsStay DEF WindowInv
<1>4. CASE SkipComment(s)
  <2>1. /\ s.rest # << >> /\ Advances(s, FALSE)
        /\ UNCHANGED <<agent, draft, misfiled, misassigned>>
    BY <1>4 DEF SkipComment, Due
  <2>2. SavesOnTheirWay'
    BY <2>1, SaveAdvances
  <2> QED BY <1>1, <2>1, <2>2, ScreenStays, RequestsStay DEF WindowInv
<1>5. CASE SaveStops(s)
  <2>1. saving' = saving \ {s} /\ UNCHANGED <<agent, draft, misfiled, misassigned>>
    BY <1>5 DEF SaveStops
  <2>2. SavesOnTheirWay'
    BY <2>1, SaveDone
  <2> QED BY <1>1, <2>1, <2>2, ScreenStays, RequestsStay DEF WindowInv
<1> QED BY <1>2, <1>3, <1>4, <1>5

----------------------------------------------------------------------------
LEMMA TakeListKeeps ==
    ASSUME WindowInv, UNCHANGED existing, NEW asked, NEW found \in SUBSET existing, TakeList(asked, found)
    PROVE  ScreenKept'
<1> DEFINE t == IF found = {} \/ (asked # NoTicket /\ asked \notin found) THEN NoTicket ELSE selected
<1> DEFINE rows == [u \in found |-> agent[u]]
<1>1. draft' = (IF t # selected THEN Left ELSE draft) /\ Render(rows, t, shown, technician)
  BY DEF TakeList
<1>2. rows \in Lists
  <2>1. \A u \in found : agent[u] \in Agents \cup {NoAgent}
    BY DEF WindowInv, BackendTyped
  <2>2. rows \in [found -> Agents \cup {NoAgent}]
    BY <2>1
  <2> QED BY <2>2 DEF Lists
<1>3. t \in Selection
  BY DEF WindowInv, ScreenKept, Selection
<1> HIDE DEF rows, t
<1>4. draft' \in DraftSets /\ Placed(draft', t)
  BY <1>1, DraftsMade DEF WindowInv, ScreenKept
<1>5. \/ Render(rows, t, TRUE, technician)
      \/ Render(rows, t, FALSE, technician)
  BY <1>1 DEF Render
<1>6. technician \in Technicians /\ (Listed(tickets, selected) => Own(technician, selected))
  BY DEF WindowInv, ScreenKept
<1> QED BY <1>2, <1>3, <1>4, <1>5, <1>6, RenderKeeps

LEMMA ReloadsKeep ==
    ASSUME WindowInv, UNCHANGED acts, NEW found \in SUBSET existing,
           \/ \E s \in saving : SaveReloads(s, found)
           \/ CreateReloads(found)
           \/ \E asked \in listing : TicketsArrive(asked, found)
    PROVE  WindowInv'
<1>1. UNCHANGED <<existing, agent, sending, assigning, misfiled, misassigned>>
  BY DEF SaveReloads, CreateReloads, TicketsArrive
<1>2. ASSUME NEW s \in saving, SaveReloads(s, found) PROVE WindowInv'
  <2>1. /\ TakeList(s.closure.ticket, found) /\ s.rest # << >>
        /\ Advances(s, TRUE) /\ UNCHANGED <<listing, creating>>
    <3>1. s.rest = <<"reload">> /\ TakeList(s.closure.ticket, found) /\ Advances(s, TRUE)
      BY <1>2 DEF SaveReloads
    <3>2. UNCHANGED <<listing, creating>>
      BY <1>2 DEF SaveReloads
    <3>3. <<"reload">> # << >>
      OBVIOUS
    <3> QED BY <3>1, <3>2, <3>3
  <2>2. ScreenKept'
    BY <1>1, <2>1, TakeListKeeps
  <2>3. SavesOnTheirWay'
    BY <2>1, SaveAdvances
  <2> QED BY <1>1, <2>1, <2>2, <2>3, RequestsStay DEF WindowInv
<1>3. CASE CreateReloads(found)
  <2>1. /\ creating # Nothing /\ creating.at = "list" /\ TakeList(creating.asked, found)
        /\ creating' = [creating EXCEPT !.at = "open"] /\ UNCHANGED <<listing, saving>>
    BY <1>3 DEF CreateReloads
  <2>2. ScreenKept'
    BY <1>1, <2>1, TakeListKeeps
  <2>3. creating \in [at : {"list", "open"}, asked : Selection, ticket : Tickets]
    BY <2>1 DEF WindowInv, BackendTyped, CreateTypes
  <2>4. PICK c \in [at : {"list", "open"}, asked : Selection, ticket : Tickets] : c = creating
    BY <2>3
  <2>5. creating' = [c EXCEPT !.at = "open"]
    BY <2>1, <2>4
  <2>6. creating' \in CreateTypes
    BY <2>5 DEF CreateTypes
  <2>7. BackendTyped'
    BY <1>1, <2>1, <2>6 DEF WindowInv, BackendTyped
  <2> QED BY <1>1, <2>1, <2>2, <2>7, RequestsStay DEF WindowInv
<1>4. ASSUME NEW asked \in listing, TicketsArrive(asked, found) PROVE WindowInv'
  <2>1. TakeList(asked, found) /\ listing' = listing \ {asked} /\ UNCHANGED <<saving, creating>>
    BY <1>4 DEF TicketsArrive
  <2>2. ScreenKept'
    BY <1>1, <2>1, TakeListKeeps
  <2>3. BackendTyped'
    BY <1>1, <2>1 DEF WindowInv, BackendTyped
  <2> QED BY <1>1, <2>1, <2>2, <2>3, RequestsStay DEF WindowInv
<1> QED BY <1>2, <1>3, <1>4

\* The window goes to a ticket, or closes, with what was typed left or given up.
LEMMA WindowMoves ==
    ASSUME WindowInv, UNCHANGED existing, NEW t \in Selection, NEW show \in BOOLEAN,
           draft' \in {Left, ResetTicketDraftInputs},
           NEW held \in Technicians, Render(tickets, t, show, held),
           t = selected => (Listed(tickets, selected) => Own(held, selected))
    PROVE  ScreenKept'
<1>1. tickets \in Lists
  BY DEF WindowInv, ScreenKept
<1>2. draft' \in DraftSets /\ Placed(draft', t)
  BY DraftsMade DEF WindowInv
<1> QED BY <1>1, <1>2, RenderKeeps

\* The closure of a click has what is shown.
LEMMA ClosureOfClick ==
    ASSUME WindowInv
    PROVE  /\ LastRender \in Closures /\ LastRender.ticket = selected /\ LastRender.draft = draft
           /\ LastRender.technician = technician /\ LastRender.agent = AgentIn(tickets, selected)
           /\ LastRender.assignmentDirty => Own(technician, selected)
           /\ Placed(LastRender.draft, LastRender.ticket)
<1>1. AgentIn(tickets, selected) \in Agents \cup {NoAgent}
  BY NoTicketListed DEF WindowInv, ScreenKept, BackendTyped
<1>2. LastRender = [ticket |-> selected, agent |-> AgentIn(tickets, selected), technician |-> technician,
                    draft |-> draft, assignmentDirty |-> Listed(tickets, selected)
                                        /\ technician.agent # AgentIn(tickets, selected)]
  BY DEF LastRender, Closure
<1>3. (Listed(tickets, selected) /\ technician.agent # AgentIn(tickets, selected)) \in BOOLEAN
  OBVIOUS
<1>4. LastRender \in Closures
  BY <1>1, <1>2, <1>3 DEF WindowInv, ScreenKept, Closures
<1> QED BY <1>2, <1>4 DEF WindowInv, ScreenKept

LEMMA ClosingKeeps ==
    ASSUME WindowInv, acts' \in 0 .. MaxActs, CloseButton \/ EscapeKey
    PROVE  WindowInv'
<1>1. PICK c \in Closures, by \in {"click", "escape"} :
        /\ CloseClean(c) \/ CloseAndSave(c, by) \/ CloseAndDiscard(c, by)
        /\ Placed(c.draft, c.ticket)
        /\ by = "click" => c = LastRender
  <2>1. CASE CloseButton
    BY <2>1, ClosureOfClick DEF CloseButton, HandleRequestCloseTicketModal
  <2>2. CASE EscapeKey
    BY <2>2 DEF EscapeKey, HandleRequestCloseTicketModal, WindowInv, ScreenKept
  <2> QED BY <2>1, <2>2
<1>2. c.ticket \in Selection /\ c.agent \in Agents \cup {NoAgent}
  BY DEF Closures
<1>3. selected \in Selection /\ technician \in Technicians
      /\ (Listed(tickets, selected) => Own(technician, selected))
  BY DEF WindowInv, ScreenKept
<1>4. UNCHANGED <<existing, agent, listing, sending, assigning, creating, misfiled, misassigned>>
  BY <1>1 DEF CloseClean, CloseAndSave, CloseAndDiscard
<1>5. CASE CloseClean(c)
  <2>1. draft' = Left /\ Render(tickets, selected, FALSE, technician) /\ UNCHANGED saving
    BY <1>5 DEF CloseClean
  <2>2. ScreenKept'
    BY <1>3, <1>4, <2>1, WindowMoves
  <2> QED BY <1>4, <2>1, <2>2, RequestsStay DEF WindowInv
<1>6. CASE CloseAndSave(c, by)
  <2>1. /\ c.ticket \in Tickets /\ Save(c, by, NoTicket) /\ NoTicket \in Selection
        /\ UNCHANGED <<tickets, selected, shown, technician, draft, escape>>
    BY <1>2, <1>6 DEF CloseAndSave, Selection
  <2>2. by = "click" /\ c.assignmentDirty => Own(c.technician, c.ticket)
    BY <1>1, ClosureOfClick
  <2>3. SavesOnTheirWay'
    BY <1>1, <2>1, <2>2, SaveBegins
  <2> QED BY <1>4, <2>1, <2>3, ScreenStays, RequestsStay DEF WindowInv
<1>7. CASE CloseAndDiscard(c, by)
  <2> DEFINE held == [agent |-> c.agent, under |-> c.ticket, escaped |-> by = "escape"]
  <2>1. draft' = ResetTicketDraftInputs /\ Render(tickets, selected, FALSE, held) /\ UNCHANGED saving
    BY <1>7 DEF CloseAndDiscard
  <2>2. held \in Technicians /\ held.under = c.ticket /\ (held.escaped <=> by = "escape")
    BY <1>2 DEF Technicians, Selection
  <2>3. Own(held, selected)
    BY <1>1, <2>2, ClosureOfClick DEF Own
  <2> HIDE DEF held
  <2>4. ScreenKept'
    BY <1>3, <1>4, <2>1, <2>2, <2>3, WindowMoves
  <2> QED BY <1>4, <2>1, <2>4, RequestsStay DEF WindowInv
<1> QED BY <1>1, <1>5, <1>6, <1>7

LEMMA OpeningKeeps ==
    ASSUME WindowInv, acts' \in 0 .. MaxActs, NEW t \in existing, HandleOpenTicketDetails(t)
    PROVE  WindowInv'
<1>1. UNCHANGED <<existing, agent, listing, sending, assigning, creating, misfiled, misassigned>>
  BY DEF HandleOpenTicketDetails, OpenDirectly, SaveAndOpen, DiscardAndOpen
<1>2. t \in Tickets /\ t \in Selection
  BY DEF WindowInv, BackendTyped, Selection
<1>3. selected \in Selection /\ technician \in Technicians
      /\ (Listed(tickets, selected) => Own(technician, selected))
  BY DEF WindowInv, ScreenKept
<1>4. CASE OpenDirectly(t)
  <2>1. draft' = Left /\ Render(tickets, t, TRUE, technician) /\ UNCHANGED saving
    BY <1>4 DEF OpenDirectly
  <2>2. ScreenKept'
    BY <1>1, <1>2, <1>3, <2>1, WindowMoves
  <2> QED BY <1>1, <2>1, <2>2, RequestsStay DEF WindowInv
<1>5. CASE SaveAndOpen(t)
  <2>1. /\ selected \in Tickets /\ Save(LastRender, "click", t)
        /\ UNCHANGED <<tickets, selected, shown, technician, draft, escape>>
    BY <1>3, <1>5 DEF SaveAndOpen, Asks, Selection
  <2>2. SavesOnTheirWay'
    BY <1>2, <2>1, ClosureOfClick, SaveBegins
  <2> QED BY <1>1, <2>1, <2>2, ScreenStays, RequestsStay DEF WindowInv
<1>6. CASE DiscardAndOpen(t)
  <2> DEFINE held == [agent |-> AgentIn(tickets, selected), under |-> selected, escaped |-> FALSE]
  <2>1. /\ t # selected /\ draft' = ResetTicketDraftInputs /\ Render(tickets, t, TRUE, held)
        /\ UNCHANGED saving
    BY <1>6 DEF DiscardAndOpen, Asks
  <2>2. AgentIn(tickets, selected) \in Agents \cup {NoAgent}
    BY NoTicketListed DEF WindowInv, ScreenKept, BackendTyped
  <2>3. held \in Technicians
    BY <1>3, <2>2 DEF Technicians, Selection
  <2> HIDE DEF held
  <2>4. ScreenKept'
    BY <1>1, <1>2, <2>1, <2>3, WindowMoves
  <2> QED BY <1>1, <2>1, <2>4, RequestsStay DEF WindowInv
<1> QED BY <1>4, <1>5, <1>6 DEF HandleOpenTicketDetails

LEMMA ArrivalsKeep ==
    ASSUME WindowInv, UNCHANGED acts, (\E s \in saving : Saved(s)) \/ Created \/ DetailsArrive
    PROVE  WindowInv'
<1>1. UNCHANGED <<existing, agent, listing, sending, assigning, misfiled, misassigned>>
  BY DEF Saved, Created, DetailsArrive
<1>2. selected \in Selection /\ technician \in Technicians /\ tickets \in Lists
      /\ (Listed(tickets, selected) => Own(technician, selected))
  BY DEF WindowInv, ScreenKept
<1>3. ASSUME NEW s \in saving, Saved(s) PROVE WindowInv'
  <2>1. /\ draft' = Left /\ saving' = saving \ {s} /\ UNCHANGED creating
        /\ \/ Render(tickets, selected, FALSE, technician)
           \/ Render(tickets, s.then, TRUE, technician)
    BY <1>3 DEF Saved
  <2>2. s.then \in Selection
    BY SaveShape
  <2>3. ScreenKept'
    BY <1>1, <1>2, <2>1, <2>2, WindowMoves
  <2>4. SavesOnTheirWay'
    BY <2>1, SaveDone
  <2> QED BY <1>1, <2>1, <2>3, <2>4, RequestsStay DEF WindowInv
<1>4. CASE Created
  <2>1. /\ creating # Nothing /\ creating.at # "create" /\ draft' = Left /\ creating' = Nothing
        /\ Render(tickets, creating.ticket, TRUE, technician) /\ UNCHANGED saving
    BY <1>4 DEF Created
  <2>2. creating.ticket \in Selection
    BY <2>1 DEF WindowInv, BackendTyped, CreateTypes, Selection
  <2>3. ScreenKept'
    BY <1>1, <1>2, <2>1, <2>2, WindowMoves
  <2>4. BackendTyped'
    BY <1>1, <2>1 DEF WindowInv, BackendTyped
  <2> QED BY <1>1, <2>1, <2>3, <2>4, RequestsStay DEF WindowInv
<1>5. CASE DetailsArrive
  <2> DEFINE rows == [tickets EXCEPT ![selected] = agent[selected]]
  <2>1. /\ Listed(tickets, selected) /\ draft' = draft /\ Render(rows, selected, shown, technician)
        /\ UNCHANGED <<saving, creating>>
    BY <1>5 DEF DetailsArrive
  <2>2. agent[selected] \in Agents \cup {NoAgent}
    BY <1>2, <2>1, NoTicketListed DEF WindowInv, BackendTyped
  <2>3. rows \in Lists
    <3>1. PICK s \in SUBSET existing : tickets \in [s -> Agents \cup {NoAgent}]
      BY <1>2 DEF Lists
    <3>2. rows \in [s -> Agents \cup {NoAgent}]
      BY <2>2, <3>1
    <3> QED BY <3>2 DEF Lists
  <2> HIDE DEF rows
  <2>4. \/ Render(rows, selected, TRUE, technician)
        \/ Render(rows, selected, FALSE, technician)
    BY <2>1 DEF Render
  <2>5. draft' \in DraftSets /\ Placed(draft', selected)
    BY <2>1 DEF WindowInv, ScreenKept
  <2>6. ScreenKept'
    BY <1>1, <1>2, <2>3, <2>4, <2>5, RenderKeeps
  <2> QED BY <1>1, <2>1, <2>6, RequestsStay DEF WindowInv
<1> QED BY <1>3, <1>4, <1>5

\* Lists are asked for and fail, tickets are created and assigned elsewhere.
LEMMA BackendKeeps ==
    ASSUME WindowInv, acts' \in 0 .. MaxActs,
           \/ LoadTicketsData \/ HandleCreateTicket \/ CreateFails
           \/ \E asked \in listing : TicketsFail(asked)
           \/ \E t \in existing, a \in Agents \cup {NoAgent} : Reassign(t, a)
           \/ \E t \in Tickets \ existing : Create(t)
    PROVE  WindowInv'
<1>1. UNCHANGED <<tickets, selected, shown, technician, draft, escape, sending, assigning, saving,
                  misfiled, misassigned>> /\ existing \subseteq existing'
  BY DEF LoadTicketsData, HandleCreateTicket, CreateFails, TicketsFail, Reassign, Create
<1>2. ScreenKept'
  BY <1>1, ScreenStays DEF WindowInv
<1>3. BackendTyped'
  <2> USE DEF WindowInv, BackendTyped
  <2>1. CASE LoadTicketsData
    BY <2>1 DEF LoadTicketsData, ScreenKept
  <2>2. CASE HandleCreateTicket
    <3>1. creating' = [at |-> "create", asked |-> selected] /\ UNCHANGED <<existing, agent, listing>>
      BY <2>2 DEF HandleCreateTicket
    <3>2. creating' \in CreateTypes
      BY <3>1 DEF CreateTypes, ScreenKept
    <3> QED BY <3>1, <3>2
  <2>3. CASE CreateFails
    BY <2>3 DEF CreateFails
  <2>4. CASE \E asked \in listing : TicketsFail(asked)
    BY <2>4 DEF TicketsFail
  <2>5. CASE \E t \in existing, a \in Agents \cup {NoAgent} : Reassign(t, a)
    BY <2>5 DEF Reassign
  <2>6. ASSUME NEW t \in Tickets \ existing, Create(t) PROVE BackendTyped'
    <3>1. /\ creating' = [at |-> "list", asked |-> creating.asked, ticket |-> t]
          /\ creating # Nothing /\ existing' = existing \cup {t} /\ UNCHANGED <<agent, listing>>
      BY <2>6 DEF Create
    <3>2. creating.asked \in Selection
      BY <3>1 DEF CreateTypes
    <3>3. creating' \in CreateTypes
      BY <3>1, <3>2 DEF CreateTypes
    <3> QED BY <3>1, <3>3
  <2> QED BY <2>1, <2>2, <2>3, <2>4, <2>5, <2>6
<1> QED BY <1>1, <1>2, <1>3, RequestsStay DEF WindowInv

----------------------------------------------------------------------------
LEMMA WindowStep == WindowInv /\ [WindowNext]_windowVars => WindowInv'
<1> SUFFICES ASSUME WindowInv, [WindowNext]_windowVars PROVE WindowInv'
  OBVIOUS
<1>1. acts \in 0 .. MaxActs
  BY DEF WindowInv
<1>2. ASSUME acts < MaxActs, acts' = acts + 1, UserActs PROVE WindowInv'
  <2>1. acts' \in 0 .. MaxActs
    BY <1>1, <1>2
  <2> QED BY <1>2, <2>1, TypingKeeps, FormsSentKeep, AssignmentsKeep, BackendKeeps, ClosingKeeps,
             OpeningKeeps DEF UserActs
<1>3. ASSUME Answers, UNCHANGED acts PROVE WindowInv'
  <2>1. acts' \in 0 .. MaxActs
    BY <1>1, <1>3
  <2>2. ASSUME NEW f \in Forms, Submitted(f) \/ SubmitFails(f) PROVE WindowInv'
    BY <1>3, <2>1, <2>2, FormsSentKeep
  <2>3. ASSUME NEW s \in saving,
               \/ SaveTechnician(s) \/ SkipComment(s) \/ SaveStops(s) \/ Saved(s)
               \/ \E f \in Forms : SaveForm(s, f)
               \/ \E found \in SUBSET existing : SaveReloads(s, found)
        PROVE  WindowInv'
    BY <1>3, <2>3, SavingKeeps, ReloadsKeep, ArrivalsKeep
  <2> QED BY <1>3, <2>1, <2>2, <2>3, AssignmentsKeep, ReloadsKeep, ArrivalsKeep, BackendKeeps
          DEF Answers
<1>4. CASE UNCHANGED windowVars
  <2>1. UNCHANGED <<existing, agent, tickets, selected, shown, technician, draft, escape, listing, sending,
                    assigning, saving, creating, misfiled, misassigned, acts>>
    BY <1>4 DEF windowVars
  <2> QED BY <2>1, ScreenStays, RequestsStay DEF WindowInv
<1> QED BY <1>2, <1>3, <1>4 DEF WindowNext

\* What is typed is filed where it was typed, unless the window left it, and a
\* click gives a ticket only a technician chosen or shown under it.
THEOREM WindowFaithfulCorrect == WindowSpec => []WindowFaithful
<1>1. WindowInv => WindowFaithful
  BY DEF WindowInv
<1> QED BY <1>1, WindowInvInit, WindowStep, PTL DEF WindowSpec

HIDE WindowAssumption

----------------------------------------------------------------------------
(***************************************************************************)
(* The accounts: the form and the notes under the name of an account are   *)
(* of this account.  The invariant says more of what is on its way: unless *)
(* an answer went astray, all notes asked for are of the account selected, *)
(* and no save carries the password of another account than its own.       *)
(***************************************************************************)

USE UsersPanelAssumption

ListTypes == [asked : Accounts \cup {Nobody}, read : BOOLEAN, users : LockLists]

\* A save carries no password but of the account it is for.
PatchTypes == {p \in [id : Accounts, locked : BOOLEAN, password : Accounts \cup {Nobody},
                      stored : BOOLEAN, waited : BOOLEAN] : p.password \in {Nobody, p.id}}

\* The requests for notes are all of the account that is selected, and so is
\* the last answer, unless something went astray.
NotesAsked ==
    chosen # Nobody /\ ~astray =>
        noteAsks \in Seq({chosen}) /\ (noteAsks = << >> => notesOf = chosen)

\* The parts of a state, each with what is said of it alone.
AccountsKept ==
    /\ locked \in LockLists /\ password \in [Accounts -> Accounts \cup {Nobody}]
    /\ \A a \in Accounts : password[a] \in {Nobody, a}
FormKept ==
    /\ users \in LockLists /\ chosen \in Accounts \cup {Nobody} /\ editingUser \in EditForms \cup {NothingEdited}
    /\ editingUser # NothingEdited =>
         /\ editingUser.id = chosen
         /\ chosen \in DOMAIN users
         /\ ~editingUser.set => editingUser.locked = users[chosen]
         /\ editingUser.password \in {Nobody, chosen}
NotesKept ==
    /\ notesOf \in Accounts \cup {Nobody} /\ noteText \in BOOLEAN /\ astray \in BOOLEAN
    /\ noteAsks \in Seq(Accounts) /\ noteAdds \in Seq(Accounts) /\ NotesAsked
RequestsKept ==
    /\ usersLoading \in BOOLEAN /\ lists \in Seq(ListTypes) /\ patches \in Seq(PatchTypes)
    /\ creations \subseteq [account : Accounts, asked : Accounts \cup {Nobody}]

UsersInv ==
    /\ AccountsKept /\ FormKept /\ NotesKept /\ RequestsKept
    /\ onUsers \in BOOLEAN /\ deeds \in 0 .. MaxDeeds

LEMMA UsersTyped == UsersInv => UsersTypeOK /\ FormOfSelected /\ NotesOfSelected
BY DEF UsersInv, UsersTypeOK, FormOfSelected, NotesOfSelected, NotesAsked, AccountsKept, FormKept,
       NotesKept, RequestsKept

LEMMA RemovedFromSeq == ASSUME NEW S, NEW s \in Seq(S), NEW i \in DOMAIN s PROVE RemoveAt(s, i) \in Seq(S)
<1>1. i \in 1 .. Len(s)
  OBVIOUS
<1>2. SubSeq(s, 1, i - 1) \in Seq(S)
  BY <1>1
<1>3. SubSeq(s, i + 1, Len(s)) \in Seq(S)
  BY <1>1
<1> QED BY <1>2, <1>3 DEF RemoveAt

LEMMA ChangedInSeq == ASSUME NEW S, NEW s \in Seq(S), NEW i \in DOMAIN s, NEW x \in S
                      PROVE  [s EXCEPT ![i] = x] \in Seq(S) /\ s[i] \in S
OBVIOUS

LEMMA AppendedToSeq == ASSUME NEW S, NEW s \in Seq(S), NEW x \in S PROVE Append(s, x) \in Seq(S)
OBVIOUS

LEMMA UsersInvInit == UsersInit => UsersInv
<1> SUFFICES ASSUME UsersInit PROVE UsersInv
  OBVIOUS
<1>1. locked \in LockLists
  BY DEF UsersInit, LockLists
<1>2. << >> \in LockLists
  <2>1. << >> \in [{} -> BOOLEAN]
    OBVIOUS
  <2> QED BY <2>1 DEF LockLists
<1>3. << >> \in Seq(Accounts) /\ << >> \in Seq(ListTypes) /\ << >> \in Seq(PatchTypes)
  OBVIOUS
<1>4. password \in [Accounts -> Accounts \cup {Nobody}] /\ \A a \in Accounts : password[a] = Nobody
  BY DEF UsersInit
<1>5. deeds \in 0 .. MaxDeeds
  BY DEF UsersInit
<1>6. AccountsKept /\ FormKept
  BY <1>1, <1>2, <1>4 DEF UsersInit, AccountsKept, FormKept, NoUsers
<1>7. NotesKept /\ RequestsKept
  BY <1>3 DEF UsersInit, NotesKept, NotesAsked, RequestsKept
<1> QED BY <1>5, <1>6, <1>7 DEF UsersInit, UsersInv

USE DEF UsersInv

----------------------------------------------------------------------------
LEMMA PartsStay ==
    /\ AccountsKept /\ UNCHANGED accountVars => AccountsKept'
    /\ FormKept /\ UNCHANGED shownVars => FormKept'
    /\ NotesKept /\ UNCHANGED <<notesOf, noteText, astray, noteAsks, noteAdds, chosen>> => NotesKept'
    /\ RequestsKept /\ UNCHANGED requestVars => RequestsKept'
<1>1. AccountsKept /\ UNCHANGED accountVars => AccountsKept'
  BY DEF AccountsKept, accountVars
<1>2. FormKept /\ UNCHANGED shownVars => FormKept'
  BY DEF FormKept, shownVars
<1>3. NotesKept /\ UNCHANGED <<notesOf, noteText, astray, noteAsks, noteAdds, chosen>> => NotesKept'
  BY DEF NotesKept, NotesAsked
<1>4. RequestsKept /\ UNCHANGED requestVars => RequestsKept'
  BY DEF RequestsKept, requestVars
<1> QED BY <1>1, <1>2, <1>3, <1>4

----------------------------------------------------------------------------
LEMMA ListAsked ==
    ASSUME RequestsKept, NEW a \in Accounts \cup {Nobody}, LoadUsers(a)
    PROVE  lists' \in Seq(ListTypes) /\ usersLoading' \in BOOLEAN
<1> DEFINE r == [asked |-> a, read |-> FALSE, users |-> NoUsers]
<1>1. NoUsers \in LockLists
  <2>1. << >> \in [{} -> BOOLEAN]
    OBVIOUS
  <2> QED BY <2>1 DEF LockLists, NoUsers
<1>2. r \in ListTypes
  BY <1>1 DEF ListTypes
<1>3. lists' = Append(lists, r) /\ usersLoading' = TRUE
  BY DEF LoadUsers
<1> HIDE DEF r
<1> QED BY <1>2, <1>3, AppendedToSeq DEF RequestsKept

\* A request for the notes of an account, with who is selected by then.
LEMMA NotesAskedOf ==
    ASSUME NotesKept, NEW a \in Accounts, NEW c \in Accounts \cup {Nobody}, chosen' = c,
           LoadSelectedUserNotes(a, c), UNCHANGED notesOf,
           noteText' \in BOOLEAN, noteAdds' \in Seq(Accounts)
    PROVE  NotesKept'
<1>1. noteAsks' = Append(noteAsks, a)
  BY DEF LoadSelectedUserNotes
<1>2. noteAsks' \in Seq(Accounts) /\ noteAsks' # << >>
  BY <1>1, AppendedToSeq DEF NotesKept
<1>3. astray' = IF a # c THEN TRUE ELSE IF noteAsks = << >> THEN FALSE
                ELSE astray \/ \E i \in DOMAIN noteAsks : noteAsks[i] # a
  BY DEF LoadSelectedUserNotes
<1>4. astray' \in BOOLEAN
  BY <1>3 DEF NotesKept
<1>5. ~astray' => noteAsks' \in Seq({c})
  <2> SUFFICES ASSUME ~astray' PROVE noteAsks' \in Seq({c})
    OBVIOUS
  <2>1. a = c /\ (noteAsks = << >> \/ \A i \in DOMAIN noteAsks : noteAsks[i] = a)
    BY <1>3
  <2>2. noteAsks \in Seq({c})
    BY <2>1 DEF NotesKept
  <2> QED BY <1>1, <2>1, <2>2
<1> QED BY <1>2, <1>4, <1>5 DEF NotesKept, NotesAsked

LEMMA FormFilled ==
    ASSUME NEW l \in LockLists, NEW a \in Accounts \cup {Nobody}
    PROVE  LET f == Filled(l, a) IN
           /\ f \in EditForms \cup {NothingEdited}
           /\ f # NothingEdited => /\ f.id = a /\ a \in DOMAIN l /\ f.locked = l[a] /\ f.password = Nobody
<1>1. \A b \in DOMAIN l : b \in Accounts /\ l[b] \in BOOLEAN
  BY DEF LockLists
<1>2. CASE a \in DOMAIN l
  BY <1>1, <1>2 DEF Filled, EditForms
<1>3. CASE a \notin DOMAIN l
  BY <1>3 DEF Filled
<1> QED BY <1>2, <1>3
----------------------------------------------------------------------------
(* What the administrator does *)

LEMMA TabKeeps ==
    ASSUME UsersInv, deeds' \in 0 .. MaxDeeds, EnterUsers \/ LeaveUsers
    PROVE  UsersInv'
<1>1. CASE EnterUsers
  <2>1. /\ onUsers' = TRUE /\ LoadUsers(chosen)
        /\ IF chosen # Nobody THEN LoadSelectedUserNotes(chosen, chosen) ELSE UNCHANGED <<noteAsks, astray>>
        /\ UNCHANGED <<accountVars, shownVars, notesOf, noteText, creations, patches, noteAdds>>
    BY <1>1 DEF EnterUsers
  <2>2. chosen \in Accounts \cup {Nobody} /\ UNCHANGED chosen
    BY <2>1 DEF FormKept, shownVars
  <2>3. lists' \in Seq(ListTypes) /\ usersLoading' \in BOOLEAN
    BY <2>1, <2>2, ListAsked
  <2>4. RequestsKept'
    BY <2>1, <2>3 DEF RequestsKept
  <2>5. NotesKept'
    <3>1. CASE chosen # Nobody
      <4>1. chosen \in Accounts /\ LoadSelectedUserNotes(chosen, chosen)
        BY <2>1, <2>2, <3>1
      <4>2. noteText' \in BOOLEAN /\ noteAdds' \in Seq(Accounts)
        BY <2>1 DEF NotesKept
      <4> QED BY <2>1, <2>2, <4>1, <4>2, NotesAskedOf
    <3>2. CASE chosen = Nobody
      BY <2>1, <2>2, <3>2, PartsStay
    <3> QED BY <3>1, <3>2
  <2> QED BY <2>1, <2>4, <2>5, PartsStay
<1>2. CASE LeaveUsers
  <2>1. onUsers' = FALSE /\ UNCHANGED <<accountVars, noteVars, requestVars, shownVars>>
    BY <1>2 DEF LeaveUsers
  <2> QED BY <2>1, PartsStay DEF noteVars, shownVars
<1> QED BY <1>1, <1>2

LEMMA SelectUserKeeps ==
    ASSUME UsersInv, deeds' \in 0 .. MaxDeeds, NEW a \in Accounts, SelectUser(a)
    PROVE  UsersInv'
<1>1. /\ a \in DOMAIN users /\ chosen' = a /\ editingUser' = Filled(users, a) /\ LoadSelectedUserNotes(a, a)
      /\ UNCHANGED <<accountVars, requestVars, users, notesOf, noteText, onUsers, noteAdds>>
  BY DEF SelectUser
<1>2. FormKept'
  <2>1. users \in LockLists
    BY DEF FormKept
  <2> QED BY <1>1, <2>1, FormFilled DEF FormKept
<1>3. NotesKept'
  BY <1>1, NotesAskedOf DEF NotesKept
<1> QED BY <1>1, <1>2, <1>3, PartsStay

LEMMA EditMade ==
    ASSUME NEW f \in EditForms
    PROVE  /\ LET g == [f EXCEPT !.locked = ~f.locked, !.set = TRUE] IN
              g \in EditForms /\ g.id = f.id /\ g.set = TRUE /\ g.password = f.password
           /\ \A p \in Accounts \cup {Nobody} : LET g == [f EXCEPT !.password = p] IN
              g \in EditForms /\ g.id = f.id /\ g.set = f.set /\ g.locked = f.locked /\ g.password = p
BY DEF EditForms

LEMMA AccountEditingKeeps ==
    ASSUME UsersInv, deeds' \in 0 .. MaxDeeds, SetLock \/ TypePassword
    PROVE  UsersInv'
<1>1. UNCHANGED <<accountVars, noteVars, requestVars, users, chosen, onUsers>> /\ editingUser # NothingEdited
  BY DEF SetLock, TypePassword, Editing
<1>2. PICK f \in EditForms : f = editingUser
  BY <1>1 DEF FormKept
<1>3. /\ f.id = chosen /\ chosen \in DOMAIN users /\ f.password \in {Nobody, chosen}
      /\ (~f.set => f.locked = users[chosen]) /\ chosen \in Accounts \cup {Nobody} /\ users \in LockLists
  BY <1>1, <1>2 DEF FormKept
<1>4. FormKept'
  <2>1. CASE SetLock
    <3> DEFINE g == [f EXCEPT !.locked = ~f.locked, !.set = TRUE]
    <3>1. editingUser' = g
      BY <1>2, <2>1 DEF SetLock
    <3>2. g \in EditForms /\ g.id = f.id /\ g.set = TRUE /\ g.password = f.password
      BY EditMade
    <3> HIDE DEF g
    <3> QED BY <1>1, <1>3, <3>1, <3>2 DEF FormKept
  <2>2. CASE TypePassword
    <3> DEFINE g == [f EXCEPT !.password = chosen]
    <3>1. editingUser' = g
      BY <1>2, <2>2 DEF TypePassword
    <3>2. g \in EditForms /\ g.id = f.id /\ g.set = f.set /\ g.locked = f.locked /\ g.password = chosen
      BY <1>3, EditMade
    <3> HIDE DEF g
    <3> QED BY <1>1, <1>3, <3>1, <3>2 DEF FormKept
  <2> QED BY <2>1, <2>2
<1> QED BY <1>1, <1>4, PartsStay DEF noteVars

LEMMA SaveEditKeeps ==
    ASSUME UsersInv, deeds' \in 0 .. MaxDeeds, HandleSaveUserEdit
    PROVE  UsersInv'
<1> DEFINE r == [id |-> editingUser.id, locked |-> editingUser.locked,
                 password |-> editingUser.password, stored |-> FALSE, waited |-> TRUE]
<1>1. /\ editingUser # NothingEdited /\ patches' = Append(patches, r)
      /\ UNCHANGED <<accountVars, noteVars, shownVars, onUsers, usersLoading, lists, creations>>
  BY DEF HandleSaveUserEdit, Editing
<1>2. editingUser \in EditForms /\ editingUser.id = chosen /\ editingUser.password \in {Nobody, chosen}
  BY <1>1 DEF FormKept
<1>3. r \in PatchTypes
  BY <1>2 DEF EditForms, PatchTypes
<1> HIDE DEF r
<1>4. patches' \in Seq(PatchTypes)
  BY <1>1, <1>3, AppendedToSeq DEF RequestsKept
<1>5. RequestsKept'
  BY <1>1, <1>4 DEF RequestsKept
<1> QED BY <1>1, <1>5, PartsStay DEF noteVars, shownVars

LEMMA CreateKeeps ==
    ASSUME UsersInv, deeds' \in 0 .. MaxDeeds, NEW a \in Accounts, HandleCreateAppUser(a)
    PROVE  UsersInv'
<1>1. /\ creations' = creations \cup {[account |-> a, asked |-> chosen]}
      /\ UNCHANGED <<accountVars, noteVars, shownVars, onUsers, usersLoading, lists, patches>>
  BY DEF HandleCreateAppUser
<1>2. RequestsKept'
  BY <1>1 DEF RequestsKept, FormKept
<1> QED BY <1>1, <1>2, PartsStay DEF noteVars, shownVars

LEMMA NotesTypedKeep ==
    ASSUME UsersInv, deeds' \in 0 .. MaxDeeds, TypeNote \/ HandleAddUserNote
    PROVE  UsersInv'
<1>1. UNCHANGED <<accountVars, shownVars, requestVars, notesOf, astray, onUsers, noteAsks, chosen>>
      /\ chosen # Nobody
  BY DEF TypeNote, HandleAddUserNote, shownVars
<1>2. noteText' \in BOOLEAN /\ noteAdds' \in Seq(Accounts)
  <2>1. noteText \in BOOLEAN /\ noteAdds \in Seq(Accounts) /\ chosen \in Accounts
    BY <1>1 DEF NotesKept, FormKept
  <2>2. CASE TypeNote
    BY <2>1, <2>2 DEF TypeNote
  <2>3. CASE HandleAddUserNote
    BY <2>1, <2>3, AppendedToSeq DEF HandleAddUserNote
  <2> QED BY <2>2, <2>3
<1>3. NotesKept'
  BY <1>1, <1>2 DEF NotesKept, NotesAsked
<1> QED BY <1>1, <1>3, PartsStay

LEMMA OthersEditKeep ==
    ASSUME UsersInv, deeds' \in 0 .. MaxDeeds, OthersEdit
    PROVE  UsersInv'
<1>1. UNCHANGED <<noteVars, requestVars, shownVars, password, onUsers>>
  BY DEF OthersEdit
<1>2. PICK s \in SUBSET Accounts : locked \in [s -> BOOLEAN]
  BY DEF AccountsKept, LockLists
<1>3. locked' \in LockLists
  <2>1. CASE \E a \in DOMAIN locked : locked' = [locked EXCEPT ![a] = ~@]
    <3>1. locked' \in [s -> BOOLEAN]
      BY <1>2, <2>1
    <3> QED BY <3>1 DEF LockLists
  <2>2. CASE \E q \in SUBSET DOMAIN locked : locked' = [a \in q |-> locked[a]]
    <3>1. PICK q \in SUBSET s : locked' \in [q -> BOOLEAN]
      BY <1>2, <2>2
    <3> QED BY <3>1 DEF LockLists
  <2> QED BY <2>1, <2>2 DEF OthersEdit
<1>4. AccountsKept'
  BY <1>1, <1>3 DEF AccountsKept
<1> QED BY <1>1, <1>4, PartsStay DEF noteVars, shownVars

----------------------------------------------------------------------------
(* What the answers do *)

LEMMA ListAnswers ==
    ASSUME UsersInv, NEW i \in DOMAIN lists, UsersRead(i) \/ UsersAnswered(i) \/ UsersFail(i)
    PROVE  UsersInv'
<1>1. UNCHANGED <<accountVars, noteVars, onUsers, creations, patches, deeds>>
  BY DEF UsersRead, UsersAnswered, UsersFail
<1>2. PICK l \in ListTypes : l = lists[i]
  BY ChangedInSeq DEF RequestsKept
<1>3. CASE UsersRead(i)
  <2> DEFINE r == [l EXCEPT !.read = TRUE, !.users = locked]
  <2>1. lists' = [lists EXCEPT ![i] = r] /\ UNCHANGED <<shownVars, usersLoading>>
    BY <1>2, <1>3 DEF UsersRead
  <2>2. locked \in LockLists
    BY DEF AccountsKept
  <2>3. r \in ListTypes
    BY <2>2 DEF ListTypes
  <2> HIDE DEF r
  <2>4. lists' \in Seq(ListTypes)
    BY <2>1, <2>3, ChangedInSeq DEF RequestsKept
  <2>5. RequestsKept'
    BY <1>1, <2>1, <2>4 DEF RequestsKept
  <2> QED BY <1>1, <2>1, <2>5, PartsStay DEF noteVars, shownVars
<1>4. CASE UsersAnswered(i) \/ UsersFail(i)
  <2>1. lists' = RemoveAt(lists, i) /\ usersLoading' = FALSE
    BY <1>4 DEF UsersAnswered, UsersFail
  <2>2. lists' \in Seq(ListTypes)
    BY <2>1, RemovedFromSeq DEF RequestsKept
  <2>3. RequestsKept'
    BY <1>1, <2>1, <2>2 DEF RequestsKept
  <2>4. CASE UsersAnswered(i)
    <3>1. /\ users' = l.users /\ chosen' \in {Nobody, chosen} /\ editingUser' = Filled(l.users, chosen')
      BY <1>2, <2>4 DEF UsersAnswered
    <3>2. l.users \in LockLists /\ chosen' \in Accounts \cup {Nobody}
      BY <3>1 DEF ListTypes, FormKept
    <3>3. PICK c \in Accounts \cup {Nobody} : c = chosen'
      BY <3>2
    <3>4. /\ Filled(l.users, c) \in EditForms \cup {NothingEdited}
          /\ Filled(l.users, c) # NothingEdited =>
               /\ Filled(l.users, c).id = c /\ c \in DOMAIN l.users
               /\ Filled(l.users, c).locked = l.users[c] /\ Filled(l.users, c).password = Nobody
      BY <3>2, FormFilled
    <3>5. FormKept'
      BY <3>1, <3>2, <3>3, <3>4 DEF FormKept
    <3>6. NotesKept'
      BY <1>1, <3>1 DEF NotesKept, NotesAsked, noteVars
    <3> QED BY <1>1, <2>3, <3>5, <3>6, PartsStay
  <2>5. CASE UsersFail(i)
    <3>1. UNCHANGED shownVars
      BY <2>5 DEF UsersFail
    <3> QED BY <1>1, <2>3, <3>1, PartsStay DEF noteVars, shownVars
  <2> QED BY <1>4, <2>4, <2>5
<1> QED BY <1>3, <1>4

LEMMA PatchMade ==
    ASSUME NEW p \in PatchTypes
    PROVE  /\ [p EXCEPT !.stored = TRUE] \in PatchTypes /\ [p EXCEPT !.waited = FALSE] \in PatchTypes
           /\ p.id \in Accounts /\ p.locked \in BOOLEAN /\ p.password \in {Nobody, p.id}
BY DEF PatchTypes

LEMMA PatchAnswers ==
    ASSUME UsersInv, NEW i \in DOMAIN patches, EditStored(i) \/ EditAnswered(i) \/ EditFails(i)
    PROVE  UsersInv'
<1>1. UNCHANGED <<noteVars, onUsers, creations, deeds, users, chosen>>
  BY DEF EditStored, EditAnswered, EditFails, shownVars
<1>2. PICK p \in PatchTypes : p = patches[i]
  BY ChangedInSeq DEF RequestsKept
<1>3. patches' \in Seq(PatchTypes)
  <2>1. \/ patches' = RemoveAt(patches, i)
        \/ patches' = [patches EXCEPT ![i] = [p EXCEPT !.stored = TRUE]]
        \/ patches' = [patches EXCEPT ![i] = [p EXCEPT !.waited = FALSE]]
    BY <1>2 DEF EditStored, EditAnswered, EditFails
  <2>2. patches \in Seq(PatchTypes)
    BY DEF RequestsKept
  <2>3. [p EXCEPT !.stored = TRUE] \in PatchTypes /\ [p EXCEPT !.waited = FALSE] \in PatchTypes
    BY PatchMade
  <2>4. RemoveAt(patches, i) \in Seq(PatchTypes)
    BY <2>2, RemovedFromSeq
  <2>5. \A q \in PatchTypes : [patches EXCEPT ![i] = q] \in Seq(PatchTypes)
    BY <2>2, ChangedInSeq
  <2> QED BY <2>1, <2>3, <2>4, <2>5
<1>4. NotesKept'
  BY <1>1, PartsStay DEF noteVars
<1>5. CASE EditStored(i)
  <2>1. /\ p.id \in DOMAIN locked /\ locked' = [locked EXCEPT ![p.id] = p.locked]
        /\ password' = IF p.password = Nobody THEN password ELSE [password EXCEPT ![p.id] = p.password]
        /\ UNCHANGED <<shownVars, usersLoading, lists>>
    BY <1>2, <1>5 DEF EditStored
  <2>2. p.id \in Accounts /\ p.locked \in BOOLEAN /\ p.password \in {Nobody, p.id}
    BY PatchMade
  <2>3. locked' \in LockLists
    <3>1. PICK s \in SUBSET Accounts : locked \in [s -> BOOLEAN]
      BY DEF AccountsKept, LockLists
    <3>2. locked' \in [s -> BOOLEAN]
      BY <2>1, <2>2, <3>1
    <3> QED BY <3>2 DEF LockLists
  <2>4. AccountsKept'
    BY <2>1, <2>2, <2>3 DEF AccountsKept
  <2>5. RequestsKept'
    BY <1>1, <1>3, <2>1 DEF RequestsKept
  <2> QED BY <1>1, <1>4, <2>1, <2>4, <2>5, PartsStay
<1>6. CASE EditAnswered(i)
  <2>1. /\ editingUser' = IF editingUser = NothingEdited THEN NothingEdited
                          ELSE [editingUser EXCEPT !.password = Nobody]
        /\ LoadUsers(p.id) /\ UNCHANGED accountVars
    BY <1>2, <1>6 DEF EditAnswered
  <2>2. p.id \in Accounts \cup {Nobody}
    BY PatchMade
  <2>3. lists' \in Seq(ListTypes) /\ usersLoading' \in BOOLEAN
    BY <2>1, <2>2, ListAsked
  <2>4. RequestsKept'
    BY <1>1, <1>3, <2>3 DEF RequestsKept
  <2>5. FormKept'
    <3>1. CASE editingUser = NothingEdited
      BY <1>1, <2>1, <3>1 DEF FormKept
    <3>2. CASE editingUser # NothingEdited
      <4>1. PICK f \in EditForms : f = editingUser
        BY <3>2 DEF FormKept
      <4> DEFINE g == [f EXCEPT !.password = Nobody]
      <4>2. editingUser' = g
        BY <2>1, <3>2, <4>1
      <4>3. g \in EditForms /\ g.id = f.id /\ g.set = f.set /\ g.locked = f.locked /\ g.password = Nobody
        BY EditMade
      <4> HIDE DEF g
      <4> QED BY <1>1, <3>2, <4>1, <4>2, <4>3 DEF FormKept
    <3> QED BY <3>1, <3>2
  <2> QED BY <1>1, <1>4, <2>1, <2>4, <2>5, PartsStay
<1>7. CASE EditFails(i)
  <2>1. UNCHANGED <<accountVars, shownVars, usersLoading, lists>>
    BY <1>7 DEF EditFails
  <2>2. RequestsKept'
    BY <1>1, <1>3, <2>1 DEF RequestsKept
  <2> QED BY <1>1, <1>4, <2>1, <2>2, PartsStay
<1> QED BY <1>5, <1>6, <1>7

LEMMA CreationAnswers ==
    ASSUME UsersInv, NEW c \in creations, UserCreated(c) \/ CreationFails(c)
    PROVE  UsersInv'
<1>1. /\ creations' = creations \ {c} /\ locked' \in {locked, WithAccount(c.account)}
      /\ UNCHANGED <<noteVars, shownVars, password, onUsers, patches, deeds>>
  BY DEF UserCreated, CreationFails
<1>2. c.account \in Accounts /\ c.asked \in Accounts \cup {Nobody}
  BY DEF RequestsKept
<1>3. locked' \in LockLists
  <2>1. PICK s \in SUBSET Accounts : locked \in [s -> BOOLEAN]
    BY DEF AccountsKept, LockLists
  <2>2. WithAccount(c.account) \in [s \cup {c.account} -> BOOLEAN]
    BY <2>1 DEF WithAccount
  <2>3. s \cup {c.account} \in SUBSET Accounts
    BY <1>2
  <2>4. WithAccount(c.account) \in LockLists
    BY <2>2, <2>3 DEF LockLists
  <2> QED BY <1>1, <2>4 DEF AccountsKept
<1>4. AccountsKept'
  BY <1>1, <1>3 DEF AccountsKept
<1>5. lists' \in Seq(ListTypes) /\ usersLoading' \in BOOLEAN
  <2>1. CASE UserCreated(c)
    BY <1>2, <2>1, ListAsked DEF UserCreated
  <2>2. CASE CreationFails(c)
    BY <2>2 DEF CreationFails, RequestsKept
  <2> QED BY <2>1, <2>2
<1>6. RequestsKept'
  BY <1>1, <1>5 DEF RequestsKept
<1> QED BY <1>1, <1>4, <1>6, PartsStay DEF noteVars, shownVars

LEMMA NoteAnswers ==
    ASSUME UsersInv,
           \/ \E i \in DOMAIN noteAsks : NotesAnswered(i) \/ NotesFail(i)
           \/ \E i \in DOMAIN noteAdds : NoteAdded(i) \/ NoteFails(i)
    PROVE  UsersInv'
<1>1. UNCHANGED <<accountVars, requestVars, shownVars, onUsers, deeds>> /\ UNCHANGED chosen
  BY DEF NotesAnswered, NotesFail, NoteAdded, NoteFails, shownVars
<1>2. noteAsks \in Seq(Accounts) /\ noteAdds \in Seq(Accounts) /\ NotesAsked
      /\ notesOf \in Accounts \cup {Nobody} /\ noteText \in BOOLEAN /\ astray \in BOOLEAN
      /\ chosen \in Accounts \cup {Nobody}
  BY DEF NotesKept, FormKept
<1>3. ASSUME NEW i \in DOMAIN noteAsks, NotesAnswered(i) \/ NotesFail(i) PROVE NotesKept'
  <2>1. noteAsks' = RemoveAt(noteAsks, i) /\ UNCHANGED <<noteText, noteAdds>>
    BY <1>3 DEF NotesAnswered, NotesFail
  <2>2. noteAsks' \in Seq(Accounts) /\ noteAsks[i] \in Accounts
    BY <1>2, <2>1, RemovedFromSeq, ChangedInSeq
  <2>3. noteAsks \in Seq({chosen}) => noteAsks' \in Seq({chosen}) /\ noteAsks[i] = chosen
    BY <2>1, RemovedFromSeq, ChangedInSeq
  <2>4. CASE NotesAnswered(i)
    <3>1. notesOf' = noteAsks[i] /\ UNCHANGED astray
      BY <2>4 DEF NotesAnswered
    <3> QED BY <1>1, <1>2, <2>1, <2>2, <2>3, <3>1 DEF NotesKept, NotesAsked
  <2>5. CASE NotesFail(i)
    <3>1. astray' = TRUE /\ UNCHANGED notesOf
      BY <2>5 DEF NotesFail
    <3> QED BY <1>1, <1>2, <2>1, <2>2, <3>1 DEF NotesKept, NotesAsked
  <2> QED BY <1>3, <2>4, <2>5
<1>4. ASSUME NEW i \in DOMAIN noteAdds, NoteAdded(i) \/ NoteFails(i) PROVE NotesKept'
  <2>1. noteAdds' = RemoveAt(noteAdds, i) /\ UNCHANGED notesOf
    BY <1>4 DEF NoteAdded, NoteFails
  <2>2. noteAdds' \in Seq(Accounts) /\ noteAdds[i] \in Accounts
    BY <1>2, <2>1, RemovedFromSeq, ChangedInSeq
  <2>3. CASE NoteAdded(i)
    <3>1. noteText' \in BOOLEAN /\ LoadSelectedUserNotes(noteAdds[i], chosen)
      BY <2>3 DEF NoteAdded
    <3> QED BY <1>1, <1>2, <2>1, <2>2, <3>1, NotesAskedOf
  <2>4. CASE NoteFails(i)
    BY <1>1, <1>2, <2>2, <2>4 DEF NoteFails, NotesKept, NotesAsked
  <2> QED BY <1>4, <2>3, <2>4
<1>5. NotesKept'
  BY <1>3, <1>4
<1> QED BY <1>1, <1>5, PartsStay

----------------------------------------------------------------------------
LEMMA UsersStep == UsersInv /\ [UsersNext]_usersVars => UsersInv'
<1> SUFFICES ASSUME UsersInv, [UsersNext]_usersVars PROVE UsersInv'
  OBVIOUS
<1>1. CASE UsersDeed
  <2>1. deeds' \in 0 .. MaxDeeds
    BY <1>1 DEF UsersDeed
  <2> QED BY <1>1, <2>1, TabKeeps, SelectUserKeeps, AccountEditingKeeps, SaveEditKeeps, CreateKeeps,
             NotesTypedKeep, OthersEditKeep DEF UsersDeed
<1>2. CASE UsersAnswer
  BY <1>2, ListAnswers, PatchAnswers, CreationAnswers, NoteAnswers DEF UsersAnswer
<1>3. CASE UNCHANGED usersVars
  <2>1. UNCHANGED <<accountVars, shownVars, noteVars, requestVars, onUsers, deeds>>
    BY <1>3 DEF usersVars
  <2> QED BY <2>1, PartsStay DEF noteVars, shownVars
<1> QED BY <1>1, <1>2, <1>3 DEF UsersNext

HIDE UsersPanelAssumption DEF UsersInv

----------------------------------------------------------------------------
(***************************************************************************)
(* The configuration: what the page was told is stored stays stored.  The  *)
(* invariant says of each document what a write that is still in order is: *)
(* alone, waited for, and showing what was told beside its parts; and that *)
(* what was told and is not kept is of a write that was carried out and    *)
(* has no answer yet.                                                      *)
(***************************************************************************)

USE PanelAssumption

LEMMA FunctionAsSeq ==
    ASSUME NEW S, NEW n \in Nat, NEW f \in [1 .. n -> S]
    PROVE  f \in Seq(S) /\ Len(f) = n
OBVIOUS

LEMMA RemovedAt ==
    ASSUME NEW S, NEW s \in Seq(S), NEW i \in DOMAIN s
    PROVE  /\ RemoveAt(s, i) \in Seq(S) /\ Len(RemoveAt(s, i)) = Len(s) - 1
           /\ \A j \in DOMAIN RemoveAt(s, i) :
                RemoveAt(s, i)[j] = IF j < i THEN s[j] ELSE s[j + 1]
<1>1. i \in 1 .. Len(s)
  OBVIOUS
<1> DEFINE a == SubSeq(s, 1, i - 1)
<1> DEFINE b == SubSeq(s, i + 1, Len(s))
<1>2. a \in Seq(S) /\ Len(a) = i - 1 /\ \A j \in 1 .. i - 1 : a[j] = s[j]
  BY <1>1
<1>3. b \in Seq(S) /\ Len(b) = Len(s) - i /\ \A j \in 1 .. Len(s) - i : b[j] = s[i + j]
  BY <1>1
<1>4. RemoveAt(s, i) = a \o b
  BY DEF RemoveAt
<1> HIDE DEF a, b
<1>5. /\ a \o b \in Seq(S) /\ Len(a \o b) = Len(a) + Len(b)
      /\ \A j \in 1 .. Len(a) + Len(b) : (a \o b)[j] = IF j <= Len(a) THEN a[j] ELSE b[j - Len(a)]
  <2>1. a \in Seq(S) /\ b \in Seq(S)
    BY <1>2, <1>3
  <2> QED BY ONLY <2>1
<1>6. Len(a \o b) = Len(s) - 1
  BY <1>1, <1>2, <1>3, <1>5
<1>7. ASSUME NEW j \in 1 .. Len(s) - 1 PROVE (a \o b)[j] = IF j < i THEN s[j] ELSE s[j + 1]
  <2>1. CASE j < i
    <3>1. Len(s) \in Nat /\ i \in 1 .. Len(s) /\ Len(a) = i - 1 /\ Len(b) = Len(s) - i
      BY <1>1, <1>2, <1>3
    <3>2. j \in 1 .. Len(a) + Len(b) /\ j <= Len(a) /\ j \in 1 .. i - 1
      BY <2>1, <3>1
    <3>3. (a \o b)[j] = a[j]
      BY <1>5, <3>2
    <3> QED BY <1>2, <2>1, <3>2, <3>3
  <2>2. CASE ~(j < i)
    <3>1. j - Len(a) \in 1 .. Len(s) - i /\ i + (j - Len(a)) = j + 1 /\ ~(j <= Len(a))
      BY <1>1, <1>2, <2>2
    <3>2. PICK m \in 1 .. Len(s) - i : m = j - Len(a)
      BY <3>1
    <3>3. b[m] = s[i + m] /\ i + m = j + 1
      BY <1>3, <3>1, <3>2
    <3>4. j \in 1 .. Len(a) + Len(b) /\ ~(j <= Len(a))
      <4>1. Len(s) \in Nat /\ i \in 1 .. Len(s) /\ Len(a) = i - 1 /\ Len(b) = Len(s) - i
        BY <1>1, <1>2, <1>3
      <4> QED BY <2>2, <4>1
    <3>5. (a \o b)[j] = b[m]
      BY <1>5, <3>2, <3>4
    <3> QED BY <2>2, <3>3, <3>5
  <2> QED BY <2>1, <2>2
<1> DEFINE r == a \o b
<1>8. r \in Seq(S) /\ DOMAIN r = 1 .. Len(s) - 1
  BY <1>5, <1>6
<1> HIDE DEF r
<1>9. \A j \in DOMAIN r : r[j] = IF j < i THEN s[j] ELSE s[j + 1]
  BY <1>7, <1>8 DEF r
<1> QED BY <1>4, <1>6, <1>8, <1>9 DEF r

\* What is left of a sequence are the others of it.
LEMMA OthersLeft ==
    ASSUME NEW S, NEW s \in Seq(S), NEW i \in DOMAIN s
    PROVE  /\ RemoveAt(s, i) \in Seq(S) /\ Len(RemoveAt(s, i)) = Len(s) - 1
           /\ \A j \in DOMAIN RemoveAt(s, i) : \E m \in DOMAIN s : m # i /\ RemoveAt(s, i)[j] = s[m]
           /\ \A m \in DOMAIN s : m # i => \E j \in DOMAIN RemoveAt(s, i) : RemoveAt(s, i)[j] = s[m]
<1> DEFINE r == RemoveAt(s, i)
<1>1. /\ r \in Seq(S) /\ Len(r) = Len(s) - 1 /\ \A j \in DOMAIN r : r[j] = IF j < i THEN s[j] ELSE s[j + 1]
  BY RemovedAt
<1> HIDE DEF r
<1>2. i \in 1 .. Len(s) /\ DOMAIN r = 1 .. Len(s) - 1 /\ DOMAIN s = 1 .. Len(s) /\ Len(s) \in Nat
  BY <1>1
<1>3. ASSUME NEW j \in DOMAIN r PROVE \E m \in DOMAIN s : m # i /\ r[j] = s[m]
  <2>1. CASE j < i
    BY <1>1, <1>2, <2>1
  <2>2. CASE ~(j < i)
    <3>1. j + 1 \in DOMAIN s /\ j + 1 # i /\ r[j] = s[j + 1]
      BY <1>1, <1>2, <2>2
    <3> QED BY <3>1
  <2> QED BY <2>1, <2>2
<1>4. ASSUME NEW m \in DOMAIN s, m # i PROVE \E j \in DOMAIN r : r[j] = s[m]
  <2>1. CASE m < i
    BY <1>1, <1>2, <2>1
  <2>2. CASE ~(m < i)
    <3>1. m - 1 \in DOMAIN r /\ r[m - 1] = s[(m - 1) + 1] /\ (m - 1) + 1 = m
      BY <1>1, <1>2, <1>4, <2>2
    <3> QED BY <3>1
  <2> QED BY <2>1, <2>2
<1> QED BY <1>1, <1>3, <1>4 DEF r

----------------------------------------------------------------------------
DocTypes(d) == IF d = "catalogue" THEN Catalogues ELSE SettingsForms
WriteTypes(d) == [form : DocTypes(d), parts : SUBSET Parts(d), stored : BOOLEAN, waited : BOOLEAN,
                  ordered : BOOLEAN]

\* Of document d: k is kept, t was told and w are the writes on their way.  A
\* write in order is waited for and alone, shows what was told beside its
\* parts, and once it is stored, it is what is kept.  What was told is kept, or
\* is of a write that was stored and is not answered yet.
DocRight(d, k, t, w) ==
    /\ k \in DocTypes(d) /\ w \in Seq(WriteTypes(d))
    /\ \A i \in DOMAIN w : w[i].ordered =>
         /\ w[i].waited /\ Len(w) = 1
         /\ \A p \in Parts(d) \ w[i].parts : t[p] \in {Unknown, w[i].form[p]}
         /\ w[i].stored => k = Normalized(d, w[i])
    /\ \A p \in Parts(d) : \/ t[p] \in {Unknown, k[p]}
                           \/ \E i \in DOMAIN w : w[i].stored /\ p \in w[i].parts

LEMMA DocShape ==
    ASSUME NEW d \in Documents, NEW f \in DocTypes(d)
    PROVE  f = [p \in Parts(d) |-> f[p]]
BY DEF Documents, DocTypes, Parts, Catalogues, SettingsForms

\* What a write stores: a document, and beside its parts what it was sent with.
LEMMA NormalizedTyped ==
    ASSUME NEW d \in Documents, NEW s \in WriteTypes(d)
    PROVE  /\ Normalized(d, s) \in DocTypes(d)
           /\ \A p \in Parts(d) \ s.parts : Normalized(d, s)[p] = s.form[p]
<1>1. s.form \in DocTypes(d) /\ s.parts \subseteq Parts(d)
  BY DEF WriteTypes
<1>2. CASE d = "catalogue" /\ Cardinality(Entered(s.form)) > MaxEntries
  BY <1>1, <1>2 DEF Normalized, DocTypes, Catalogues, Parts
<1>3. CASE ~(d = "catalogue" /\ Cardinality(Entered(s.form)) > MaxEntries)
  BY <1>1, <1>3 DEF Normalized
<1> QED BY <1>2, <1>3

\* What becomes of a write on its way.
Unordered(s) == [s EXCEPT !.ordered = FALSE]
CarriedOut(s) == [s EXCEPT !.stored = TRUE]
Forgotten(s) == [s EXCEPT !.waited = FALSE, !.ordered = FALSE]

LEMMA WriteUnordered ==
    ASSUME NEW d, NEW s \in WriteTypes(d)
    PROVE  /\ Unordered(s) \in WriteTypes(d) /\ Unordered(s).ordered = FALSE
           /\ Unordered(s).parts = s.parts /\ Unordered(s).stored = s.stored
BY DEF WriteTypes, Unordered

LEMMA WriteCarriedOut ==
    ASSUME NEW d, NEW s \in WriteTypes(d)
    PROVE  /\ CarriedOut(s) \in WriteTypes(d) /\ CarriedOut(s).stored = TRUE
           /\ CarriedOut(s).parts = s.parts /\ CarriedOut(s).form = s.form
           /\ CarriedOut(s).ordered = s.ordered /\ CarriedOut(s).waited = s.waited
BY DEF WriteTypes, CarriedOut

LEMMA WriteForgotten ==
    ASSUME NEW d, NEW s \in WriteTypes(d)
    PROVE  /\ Forgotten(s) \in WriteTypes(d) /\ Forgotten(s).ordered = FALSE
           /\ Forgotten(s).parts = s.parts /\ Forgotten(s).stored = s.stored
BY DEF WriteTypes, Forgotten

\* A write begins, alone or with others that are in order no longer.
LEMMA WriteBegins ==
    ASSUME NEW d \in Documents, NEW k, NEW t, NEW w, DocRight(d, k, t, w),
           NEW f \in DocTypes(d), NEW parts \in SUBSET Parts(d), NEW meets \in BOOLEAN, ~meets => w = << >>,
           NEW others, others = IF meets THEN [i \in DOMAIN w |-> Unordered(w[i])] ELSE w,
           NEW r, r = [form |-> f, parts |-> parts, stored |-> FALSE, waited |-> TRUE, ordered |-> ~meets],
           NEW u, u = [p \in Parts(d) |-> IF p \in parts \/ t[p] = f[p] THEN t[p] ELSE Unknown]
    PROVE  DocRight(d, k, u, Append(others, r))
<1>1. r \in WriteTypes(d) /\ r.form = f /\ r.parts = parts /\ r.stored = FALSE /\ r.waited = TRUE
      /\ (r.ordered <=> ~meets)
  BY DEF WriteTypes
<1>2. w \in Seq(WriteTypes(d)) /\ DOMAIN w = 1 .. Len(w) /\ Len(w) \in Nat
  BY DEF DocRight
<1>3. ASSUME meets
      PROVE  /\ others \in Seq(WriteTypes(d)) /\ Len(others) = Len(w)
             /\ \A i \in DOMAIN w : /\ others[i].ordered = FALSE /\ others[i].parts = w[i].parts
                                    /\ others[i].stored = w[i].stored
  <2>1. ASSUME NEW i \in DOMAIN w
        PROVE  /\ Unordered(w[i]) \in WriteTypes(d) /\ Unordered(w[i]).ordered = FALSE
               /\ Unordered(w[i]).parts = w[i].parts /\ Unordered(w[i]).stored = w[i].stored
    <3>1. w[i] \in WriteTypes(d)
      BY <1>2
    <3> QED BY <3>1, WriteUnordered
  <2>2. others = [i \in 1 .. Len(w) |-> Unordered(w[i])]
    BY <1>2, <1>3
  <2>3. others \in [1 .. Len(w) -> WriteTypes(d)]
    BY <1>2, <2>1, <2>2
  <2>4. others \in Seq(WriteTypes(d)) /\ Len(others) = Len(w)
    BY <1>2, <2>3, FunctionAsSeq
  <2>5. ASSUME NEW i \in DOMAIN w PROVE others[i] = Unordered(w[i])
    BY <1>2, <2>2
  <2> QED BY <2>1, <2>4, <2>5
<1>4. others \in Seq(WriteTypes(d)) /\ Len(others) = Len(w)
  BY <1>2, <1>3
<1> DEFINE v == Append(others, r)
<1>5. /\ v \in Seq(WriteTypes(d)) /\ Len(v) = Len(w) + 1 /\ v[Len(w) + 1] = r
      /\ \A i \in 1 .. Len(w) : v[i] = others[i]
  BY <1>1, <1>4
<1> HIDE DEF v
<1>6. \A i \in DOMAIN v : i = Len(w) + 1 \/ i \in DOMAIN w
  BY <1>2, <1>5
<1>7. ASSUME NEW i \in DOMAIN v, v[i].ordered
      PROVE  /\ v[i].waited /\ Len(v) = 1
             /\ \A p \in Parts(d) \ v[i].parts : u[p] \in {Unknown, v[i].form[p]}
             /\ v[i].stored => k = Normalized(d, v[i])
  <2>1. ~meets /\ v[i] = r
    <3>1. CASE i \in DOMAIN w
      <4>1. v[i] = others[i] /\ i \in 1 .. Len(w)
        BY <1>2, <1>5, <3>1
      <4>2. CASE meets
        BY <1>3, <1>7, <3>1, <4>1, <4>2
      <4>3. CASE ~meets
        BY <1>2, <3>1, <4>3
      <4> QED BY <4>2, <4>3
    <3>2. CASE i = Len(w) + 1
      <4>1. v[i] = r
        BY <1>5, <3>2
      <4> QED BY <1>1, <1>7, <4>1
    <3> QED BY <1>6, <3>1, <3>2
  <2>2. Len(v) = 1
    BY <1>2, <1>5, <2>1
  <2> QED BY <1>1, <2>1, <2>2
<1>8. ASSUME NEW p \in Parts(d)
      PROVE  u[p] \in {Unknown, k[p]} \/ \E i \in DOMAIN v : v[i].stored /\ p \in v[i].parts
  <2>1. u[p] \in {Unknown, t[p]}
    OBVIOUS
  <2>2. CASE \E i \in DOMAIN w : w[i].stored /\ p \in w[i].parts
    <3>1. PICK i \in DOMAIN w : w[i].stored /\ p \in w[i].parts
      BY <2>2
    <3>2. i \in DOMAIN v /\ v[i] = others[i]
      BY <1>2, <1>5
    <3>3. others[i].stored /\ p \in others[i].parts
      BY <1>3, <3>1
    <3> QED BY <3>2, <3>3
  <2> QED BY <2>1, <2>2 DEF DocRight
<1>9. k \in DocTypes(d)
  BY DEF DocRight
<1>10. DocRight(d, k, u, v)
  BY <1>5, <1>7, <1>8, <1>9 DEF DocRight
<1> QED BY <1>10 DEF v

\* With nothing in order on its way, only the parts told are to be shown.
LEMMA NoneInOrder ==
    ASSUME NEW d, NEW k \in DocTypes(d), NEW t, NEW w \in Seq(WriteTypes(d)),
           \A i \in DOMAIN w : ~w[i].ordered,
           \A p \in Parts(d) : \/ t[p] \in {Unknown, k[p]}
                               \/ \E i \in DOMAIN w : w[i].stored /\ p \in w[i].parts
    PROVE  DocRight(d, k, t, w)
BY DEF DocRight

\* The backend carries a write out.
LEMMA WriteIsStored ==
    ASSUME NEW d \in Documents, NEW k, NEW t, NEW w, DocRight(d, k, t, w),
           NEW i \in DOMAIN w, ~w[i].stored,
           NEW m, m = Normalized(d, w[i]),
           NEW v, v = IF w[i].waited THEN [w EXCEPT ![i] = CarriedOut(w[i])] ELSE RemoveAt(w, i),
           NEW u, u = IF w[i].ordered THEN t ELSE [p \in Parts(d) |-> IF t[p] = m[p] THEN t[p] ELSE Unknown]
    PROVE  DocRight(d, m, u, v)
<1>1. w \in Seq(WriteTypes(d)) /\ DOMAIN w = 1 .. Len(w) /\ Len(w) \in Nat /\ w[i] \in WriteTypes(d)
  BY DEF DocRight
<1> DEFINE s == w[i]
<1>2. /\ m \in DocTypes(d)
      /\ \A p \in Parts(d) \ s.parts : m[p] = s.form[p]
  BY <1>1, NormalizedTyped
<1>3. /\ CarriedOut(s) \in WriteTypes(d) /\ CarriedOut(s).stored = TRUE
      /\ CarriedOut(s).parts = s.parts /\ CarriedOut(s).form = s.form
      /\ CarriedOut(s).ordered = s.ordered /\ CarriedOut(s).waited = s.waited
  BY <1>1, WriteCarriedOut
<1>4. Normalized(d, CarriedOut(s)) = Normalized(d, s)
  BY <1>3 DEF Normalized
<1> HIDE DEF s
<1>5. CASE s.ordered
  <2>1. s.waited /\ Len(w) = 1 /\ \A p \in Parts(d) \ s.parts : t[p] \in {Unknown, s.form[p]}
    BY <1>5 DEF DocRight, s
  <2>2. v = [w EXCEPT ![i] = CarriedOut(s)] /\ u = t
    BY <1>5, <2>1 DEF s
  <2>3. v \in Seq(WriteTypes(d)) /\ Len(v) = 1 /\ DOMAIN v = {i} /\ v[i] = CarriedOut(s)
    <3>1. v \in Seq(WriteTypes(d)) /\ Len(v) = Len(w) /\ DOMAIN v = 1 .. Len(w) /\ v[i] = CarriedOut(s)
      BY <1>1, <1>3, <2>2
    <3>2. i = 1 /\ 1 .. 1 = {1}
      BY <1>1, <2>1
    <3> QED BY <2>1, <3>1, <3>2
  <2>4. \A p \in Parts(d) \ v[i].parts : u[p] \in {Unknown, v[i].form[p]}
    BY <1>3, <2>1, <2>2, <2>3
  <2>5. v[i].waited /\ m = Normalized(d, v[i]) /\ v[i].stored
    BY <1>3, <1>4, <2>1, <2>3 DEF s
  <2>6. ASSUME NEW p \in Parts(d) PROVE u[p] \in {Unknown, m[p]} \/ (v[i].stored /\ p \in v[i].parts)
    <3>1. CASE p \in s.parts
      BY <1>3, <2>3, <2>5, <3>1
    <3>2. CASE p \notin s.parts
      BY <1>2, <2>1, <2>2, <3>2
    <3> QED BY <3>1, <3>2
  <2> QED BY <1>2, <2>3, <2>4, <2>5, <2>6 DEF DocRight
<1>6. CASE ~s.ordered
  <2>1. ASSUME NEW j \in DOMAIN w PROVE ~w[j].ordered
    <3>1. CASE j = i
      BY <1>6, <3>1 DEF s
    <3>2. CASE j # i
      BY <1>1, <3>2 DEF DocRight
    <3> QED BY <3>1, <3>2
  <2>2. \A p \in Parts(d) : u[p] \in {Unknown, m[p]}
    BY <1>6 DEF s
  <2>3. CASE s.waited
    <3>1. v = [w EXCEPT ![i] = CarriedOut(s)]
      BY <2>3 DEF s
    <3>2. v \in Seq(WriteTypes(d)) /\ DOMAIN v = DOMAIN w /\ v[i] = CarriedOut(s)
          /\ \A j \in DOMAIN w : j # i => v[j] = w[j]
      BY <1>1, <1>3, <3>1
    <3>3. ASSUME NEW j \in DOMAIN v PROVE ~v[j].ordered
      <4>1. CASE j = i
        BY <1>3, <1>6, <3>2, <4>1
      <4>2. CASE j # i
        BY <2>1, <3>2, <4>2
      <4> QED BY <4>1, <4>2
    <3> QED BY <1>2, <2>2, <3>2, <3>3, NoneInOrder
  <2>4. CASE ~s.waited
    <3>1. v = RemoveAt(w, i)
      BY <2>4 DEF s
    <3>0. /\ RemoveAt(w, i) \in Seq(WriteTypes(d)) /\ Len(RemoveAt(w, i)) = Len(w) - 1
          /\ \A j \in DOMAIN RemoveAt(w, i) : \E n \in DOMAIN w : n # i /\ RemoveAt(w, i)[j] = w[n]
          /\ \A n \in DOMAIN w : n # i => \E j \in DOMAIN RemoveAt(w, i) : RemoveAt(w, i)[j] = w[n]
      BY ONLY <1>1, OthersLeft, i \in DOMAIN w, Zenon
    <3>2. v \in Seq(WriteTypes(d)) /\ \A j \in DOMAIN v : \E n \in DOMAIN w : n # i /\ v[j] = w[n]
      BY <3>0, <3>1
    <3>3. \A j \in DOMAIN v : ~v[j].ordered
      BY <2>1, <3>2
    <3>4. \A p \in Parts(d) : \/ u[p] \in {Unknown, m[p]}
                              \/ \E j \in DOMAIN v : v[j].stored /\ p \in v[j].parts
      BY <2>2
    <3> QED BY <1>2, <3>2, <3>3, <3>4 DEF DocRight
  <2> QED BY <2>3, <2>4
<1> QED BY <1>5, <1>6

\* A write ends: told or not of its parts, as it was stored or not.
LEMMA WriteEnds ==
    ASSUME NEW d \in Documents, NEW k, NEW t, NEW w, DocRight(d, k, t, w),
           NEW i \in DOMAIN w, NEW u,
           \A p \in Parts(d) : IF w[i].stored /\ p \in w[i].parts THEN u[p] \in {Unknown, k[p]} ELSE u[p] = t[p]
    PROVE  DocRight(d, k, u, RemoveAt(w, i))
<1>1. /\ w \in Seq(WriteTypes(d)) /\ DOMAIN w = 1 .. Len(w) /\ Len(w) \in Nat
      /\ k \in DocTypes(d)
  BY DEF DocRight
<1>0. /\ RemoveAt(w, i) \in Seq(WriteTypes(d)) /\ Len(RemoveAt(w, i)) = Len(w) - 1
      /\ \A j \in DOMAIN RemoveAt(w, i) : \E n \in DOMAIN w : n # i /\ RemoveAt(w, i)[j] = w[n]
      /\ \A n \in DOMAIN w : n # i => \E j \in DOMAIN RemoveAt(w, i) : RemoveAt(w, i)[j] = w[n]
  BY ONLY <1>1, OthersLeft, i \in DOMAIN w, Zenon
<1> DEFINE v == RemoveAt(w, i)
<1>2. /\ v \in Seq(WriteTypes(d))
      /\ \A j \in DOMAIN v : \E n \in DOMAIN w : n # i /\ v[j] = w[n]
      /\ \A n \in DOMAIN w : n # i => \E j \in DOMAIN v : v[j] = w[n]
  BY <1>0
<1> HIDE DEF v
<1>3. ASSUME NEW n \in DOMAIN w, n # i PROVE ~w[n].ordered
  BY <1>1, <1>3 DEF DocRight
<1>4. \A j \in DOMAIN v : ~v[j].ordered
  BY <1>2, <1>3
<1>5. ASSUME NEW p \in Parts(d)
      PROVE  u[p] \in {Unknown, k[p]} \/ \E j \in DOMAIN v : v[j].stored /\ p \in v[j].parts
  <2>1. CASE w[i].stored /\ p \in w[i].parts
    BY <2>1
  <2>2. CASE ~(w[i].stored /\ p \in w[i].parts)
    <3>1. u[p] = t[p]
      BY <2>2
    <3>2. CASE \E n \in DOMAIN w : w[n].stored /\ p \in w[n].parts
      <4>1. PICK n \in DOMAIN w : w[n].stored /\ p \in w[n].parts
        BY <3>2
      <4> QED BY <1>2, <2>2, <4>1
    <3> QED BY <3>1, <3>2 DEF DocRight
  <2> QED BY <2>1, <2>2
<1>6. DocRight(d, k, u, v)
  BY <1>1, <1>2, <1>4, <1>5, NoneInOrder
<1> QED BY <1>6 DEF v

\* The page waits for a write no longer.
LEMMA WriteIsForgotten ==
    ASSUME NEW d \in Documents, NEW k, NEW t, NEW w, DocRight(d, k, t, w),
           NEW i \in DOMAIN w,
           NEW v, v = [w EXCEPT ![i] = Forgotten(w[i])]
    PROVE  DocRight(d, k, t, v)
<1>1. w \in Seq(WriteTypes(d)) /\ DOMAIN w = 1 .. Len(w) /\ Len(w) \in Nat /\ w[i] \in WriteTypes(d)
      /\ k \in DocTypes(d)
  BY DEF DocRight
<1>2. /\ Forgotten(w[i]) \in WriteTypes(d) /\ Forgotten(w[i]).ordered = FALSE
      /\ Forgotten(w[i]).parts = w[i].parts /\ Forgotten(w[i]).stored = w[i].stored
  BY <1>1, WriteForgotten
<1>3. v \in Seq(WriteTypes(d)) /\ DOMAIN v = DOMAIN w /\ v[i] = Forgotten(w[i])
      /\ \A j \in DOMAIN w : j # i => v[j] = w[j]
  BY <1>1, <1>2
<1>4. ASSUME NEW j \in DOMAIN v PROVE ~v[j].ordered
  <2>1. CASE j = i
    BY <1>2, <1>3, <2>1
  <2>2. CASE j # i
    BY <1>1, <1>3, <2>2 DEF DocRight
  <2> QED BY <2>1, <2>2
<1>5. ASSUME NEW j \in DOMAIN w PROVE v[j].stored = w[j].stored /\ v[j].parts = w[j].parts
  BY <1>2, <1>3
<1>6. ASSUME NEW p \in Parts(d)
      PROVE  t[p] \in {Unknown, k[p]} \/ \E j \in DOMAIN v : v[j].stored /\ p \in v[j].parts
  <2>1. CASE \E n \in DOMAIN w : w[n].stored /\ p \in w[n].parts
    <3>1. PICK n \in DOMAIN w : w[n].stored /\ p \in w[n].parts
      BY <2>1
    <3> QED BY <1>3, <1>5, <3>1
  <2> QED BY <2>1 DEF DocRight
<1> QED BY <1>1, <1>3, <1>4, <1>6, NoneInOrder

----------------------------------------------------------------------------
DocsRight ==
    /\ kept = [d \in Documents |-> kept[d]]
    /\ told = [d \in Documents |-> told[d]]
    /\ writes = [d \in Documents |-> writes[d]]
    /\ \A d \in Documents : DocRight(d, kept[d], told[d], writes[d])

LoadsTyped ==
    /\ loads = [d \in Documents |-> loads[d]]
    /\ \A d \in Documents : loads[d] \in Seq(DocTypes(d) \cup {NotRead})

PageTyped ==
    /\ costCatalog \in Catalogues
    /\ settings \in SettingsForms \cup {NoForm}
    /\ uiLanguage \in Languages
    /\ typed \subseteq Fields
    /\ onTab \in BOOLEAN

PanelInv == DocsRight /\ LoadsTyped /\ PageTyped /\ LanguageShown /\ turns \in 0 .. MaxTurns

\* One document changes, the other stays.
LEMMA OneDocument ==
    ASSUME DocsRight, NEW d \in Documents, NEW k, NEW t, NEW w, DocRight(d, k, t, w),
           kept' = [kept EXCEPT ![d] = k], told' = [told EXCEPT ![d] = t], writes' = [writes EXCEPT ![d] = w]
    PROVE  DocsRight'
<1>1. /\ kept' = [e \in Documents |-> IF e = d THEN k ELSE kept[e]]
      /\ told' = [e \in Documents |-> IF e = d THEN t ELSE told[e]]
      /\ writes' = [e \in Documents |-> IF e = d THEN w ELSE writes[e]]
  BY DEF DocsRight
<1>2. ASSUME NEW e \in Documents PROVE DocRight(e, kept'[e], told'[e], writes'[e])
  <2>1. CASE e = d
    <3>1. kept'[e] = k /\ told'[e] = t /\ writes'[e] = w
      BY <1>1, <2>1
    <3> QED BY <2>1, <3>1
  <2>2. CASE e # d
    <3>1. kept'[e] = kept[e] /\ told'[e] = told[e] /\ writes'[e] = writes[e]
      BY <1>1, <2>2
    <3>2. DocRight(e, kept[e], told[e], writes[e])
      BY DEF DocsRight
    <3> QED BY <3>1, <3>2
  <2> QED BY <2>1, <2>2
<1>3. /\ kept' = [e \in Documents |-> kept'[e]]
      /\ told' = [e \in Documents |-> told'[e]]
      /\ writes' = [e \in Documents |-> writes'[e]]
  BY <1>1
<1> QED BY <1>2, <1>3 DEF DocsRight

\* What a function has when nothing of it changes.
LEMMA DocUnchanged ==
    ASSUME DocsRight, NEW d \in Documents
    PROVE  kept = [kept EXCEPT ![d] = kept[d]] /\ told = [told EXCEPT ![d] = told[d]]
BY DEF DocsRight

LEMMA DocsStay ==
    ASSUME DocsRight, UNCHANGED <<kept, told, writes>>
    PROVE  DocsRight'
BY DEF DocsRight

LEMMA BeginWriteKeeps ==
    ASSUME DocsRight, NEW d \in Documents, NEW f \in DocTypes(d), NEW parts \in SUBSET Parts(d),
           BeginWrite(d, f, parts), d = "catalogue" => ~CostCatalogSaving, UNCHANGED kept
    PROVE  DocsRight'
<1> DEFINE w == writes[d]
<1> DEFINE meets == w # << >> /\ (d = "settings" \/ \E i \in DOMAIN w : ~w[i].ordered)
<1> DEFINE others == IF meets THEN [i \in DOMAIN w |-> Unordered(w[i])] ELSE w
<1> DEFINE r == [form |-> f, parts |-> parts, stored |-> FALSE, waited |-> TRUE, ordered |-> ~meets]
<1> DEFINE u == [p \in Parts(d) |-> IF p \in parts \/ told[d][p] = f[p] THEN told[d][p] ELSE Unknown]
<1>1. DocRight(d, kept[d], told[d], w)
  BY DEF DocsRight
<1>2. w \in Seq(WriteTypes(d))
  BY <1>1 DEF DocRight
<1>3. ~meets => w = << >>
  <2>1. CASE d = "catalogue"
    <3>1. \A i \in DOMAIN w : ~w[i].waited
      BY <2>1 DEF CostCatalogSaving
    <3>2. \A i \in DOMAIN w : ~w[i].ordered
      BY <1>1, <3>1 DEF DocRight
    <3>3. w # << >> => 1 \in DOMAIN w
      BY <1>2
    <3> QED BY <3>2, <3>3
  <2>2. CASE d = "settings"
    BY <2>2
  <2> QED BY <2>1, <2>2 DEF Documents
<1>4. writes' = [writes EXCEPT ![d] = Append(others, r)] /\ told' = [told EXCEPT ![d] = u]
  BY DEF BeginWrite, Unordered
<1>5. meets \in BOOLEAN
  OBVIOUS
<1>6. DocRight(d, kept[d], u, Append(others, r))
  <2>1. \A o, q, v : /\ o = others /\ q = r /\ v = u => DocRight(d, kept[d], v, Append(o, q))
    <3> SUFFICES ASSUME NEW o, NEW q, NEW v, o = others, q = r, v = u
                 PROVE  DocRight(d, kept[d], v, Append(o, q))
      OBVIOUS
    <3> HIDE DEF w, meets
    <3>1. PICK ww : ww = w
      OBVIOUS
    <3>2. PICK mm \in BOOLEAN : mm <=> meets
      BY <1>5
    <3>3. o = IF mm THEN [i \in DOMAIN ww |-> Unordered(ww[i])] ELSE ww
      BY <3>1, <3>2
    <3>4. q = [form |-> f, parts |-> parts, stored |-> FALSE, waited |-> TRUE, ordered |-> ~mm]
      BY <3>2, Zenon
    <3>5. PICK t : t = told[d]
      OBVIOUS
    <3>6. v = [p \in Parts(d) |-> IF p \in parts \/ t[p] = f[p] THEN t[p] ELSE Unknown]
      BY <3>5, Zenon
    <3>7. DocRight(d, kept[d], t, ww) /\ (~mm => ww = << >>)
      BY <1>1, <1>3, <3>1, <3>2, <3>5
    <3> HIDE DEF others, r, u
    <3>8. parts \in SUBSET Parts(d) /\ f \in DocTypes(d) /\ d \in Documents
      OBVIOUS
    <3>9. PICK k : k = kept[d]
      OBVIOUS
    <3>10. DocRight(d, k, t, ww) /\ (~mm => ww = << >>)
      BY <3>7, <3>9
    <3>11. DocRight(d, k, v, Append(o, q))
      BY ONLY <3>2, <3>3, <3>4, <3>6, <3>8, <3>10, WriteBegins
    <3> QED BY <3>9, <3>11
  <2> HIDE DEF others, r, u
  <2> QED BY <2>1
<1> HIDE DEF u, r, others, meets, w
<1> QED BY <1>4, <1>6, DocUnchanged, OneDocument

LEMMA WriteStoredKeeps ==
    ASSUME PanelInv, NEW d \in Documents, NEW i \in DOMAIN writes[d], WriteStored(d, i)
    PROVE  DocsRight'
<1> DEFINE w == writes[d]
<1> DEFINE m == Normalized(d, w[i])
<1> DEFINE v == IF w[i].waited THEN [w EXCEPT ![i] = CarriedOut(w[i])] ELSE RemoveAt(w, i)
<1> DEFINE u == IF w[i].ordered THEN told[d]
                ELSE [p \in Parts(d) |-> IF told[d][p] = m[p] THEN told[d][p] ELSE Unknown]
<1>1. DocsRight /\ DocRight(d, kept[d], told[d], w) /\ ~w[i].stored
  BY DEF PanelInv, DocsRight, WriteStored
<1>2. kept' = [kept EXCEPT ![d] = m] /\ kept'[d] = m
  BY <1>1 DEF WriteStored, DocsRight
<1>3. writes' = [writes EXCEPT ![d] = v]
  BY DEF WriteStored, CarriedOut
<1>4. told' = [told EXCEPT ![d] = u]
  <2>1. CASE w[i].ordered
    BY <1>1, <2>1, DocUnchanged DEF WriteStored
  <2>2. CASE ~w[i].ordered
    BY <1>2, <2>2 DEF WriteStored
  <2> QED BY <2>1, <2>2
<1>5. PICK k, t, ww, mm, vv, uu : k = kept[d] /\ t = told[d] /\ ww = w /\ mm = m /\ vv = v /\ uu = u
  OBVIOUS
<1>6. /\ DocRight(d, k, t, ww) /\ i \in DOMAIN ww /\ ~ww[i].stored
      /\ mm = Normalized(d, ww[i])
      /\ vv = IF ww[i].waited THEN [ww EXCEPT ![i] = CarriedOut(ww[i])] ELSE RemoveAt(ww, i)
      /\ uu = IF ww[i].ordered THEN t
              ELSE [p \in Parts(d) |-> IF t[p] = mm[p] THEN t[p] ELSE Unknown]
  BY <1>1, <1>5, Zenon
<1>7. DocRight(d, mm, uu, vv)
  BY ONLY <1>6, d \in Documents, WriteIsStored
<1> HIDE DEF m, v, u
<1> QED BY <1>1, <1>2, <1>3, <1>4, <1>5, <1>7, OneDocument

LEMMA WriteAnsweredKeeps ==
    ASSUME PanelInv, NEW d \in Documents, NEW i \in DOMAIN writes[d], WriteAnswered(d, i)
    PROVE  DocsRight'
<1> DEFINE w == writes[d]
<1> DEFINE m == Normalized(d, w[i])
<1> DEFINE u == [p \in Parts(d) |-> IF p \notin w[i].parts THEN told[d][p]
                                    ELSE IF w[i].ordered THEN m[p] ELSE Unknown]
<1>1. DocsRight /\ DocRight(d, kept[d], told[d], w) /\ w[i].stored
  BY DEF PanelInv, DocsRight, WriteAnswered
<1>2. kept' = [kept EXCEPT ![d] = kept[d]]
  BY <1>1, DocUnchanged DEF WriteAnswered
<1>3. writes' = [writes EXCEPT ![d] = RemoveAt(w, i)]
  BY DEF WriteAnswered
<1>4. told' = [told EXCEPT ![d] = u]
  BY DEF WriteAnswered
<1>5. w[i].ordered => kept[d] = m
  BY <1>1 DEF DocRight
<1>6. \A p \in Parts(d) : IF w[i].stored /\ p \in w[i].parts THEN u[p] \in {Unknown, kept[d][p]}
                          ELSE u[p] = told[d][p]
  BY <1>1, <1>5
<1>7. DocRight(d, kept[d], u, RemoveAt(w, i))
  <2>1. PICK k, t, ww, uu : k = kept[d] /\ t = told[d] /\ ww = w /\ uu = u
    OBVIOUS
  <2> HIDE DEF u, w, m
  <2>2. DocRight(d, k, t, ww) /\ i \in DOMAIN ww
        /\ \A p \in Parts(d) : IF ww[i].stored /\ p \in ww[i].parts THEN uu[p] \in {Unknown, k[p]}
                               ELSE uu[p] = t[p]
    BY <1>1, <1>6, <2>1 DEF w
  <2>3. DocRight(d, k, uu, RemoveAt(ww, i))
    BY ONLY <2>2, d \in Documents, WriteEnds
  <2> QED BY <2>1, <2>3
<1> HIDE DEF u, w
<1> QED BY <1>1, <1>2, <1>3, <1>4, <1>7, OneDocument

LEMMA WriteFailsKeeps ==
    ASSUME PanelInv, NEW d \in Documents, NEW i \in DOMAIN writes[d], WriteFails(d, i)
    PROVE  DocsRight'
<1> DEFINE w == writes[d]
<1> DEFINE u == IF ~w[i].stored THEN told[d]
                ELSE [p \in Parts(d) |-> IF p \in w[i].parts THEN Unknown ELSE told[d][p]]
<1>1. DocsRight /\ DocRight(d, kept[d], told[d], w)
  BY DEF PanelInv, DocsRight
<1>2. kept' = [kept EXCEPT ![d] = kept[d]]
  BY <1>1, DocUnchanged DEF WriteFails
<1>3. writes' = [writes EXCEPT ![d] = RemoveAt(w, i)]
  BY DEF WriteFails
<1>4. told' = [told EXCEPT ![d] = u]
  <2>1. CASE w[i].stored
    BY <2>1 DEF WriteFails
  <2>2. CASE ~w[i].stored
    BY <1>1, <2>2, DocUnchanged DEF WriteFails
  <2> QED BY <2>1, <2>2
<1>6. \A p \in Parts(d) : IF w[i].stored /\ p \in w[i].parts THEN u[p] \in {Unknown, kept[d][p]}
                          ELSE u[p] = told[d][p]
  OBVIOUS
<1>7. DocRight(d, kept[d], u, RemoveAt(w, i))
  <2>1. PICK k, t, ww, uu : k = kept[d] /\ t = told[d] /\ ww = w /\ uu = u
    OBVIOUS
  <2> HIDE DEF u, w
  <2>2. DocRight(d, k, t, ww) /\ i \in DOMAIN ww
        /\ \A p \in Parts(d) : IF ww[i].stored /\ p \in ww[i].parts THEN uu[p] \in {Unknown, k[p]}
                               ELSE uu[p] = t[p]
    BY <1>1, <1>6, <2>1 DEF w
  <2>3. DocRight(d, k, uu, RemoveAt(ww, i))
    BY ONLY <2>2, d \in Documents, WriteEnds
  <2> QED BY <2>1, <2>3
<1> HIDE DEF u, w
<1> QED BY <1>1, <1>2, <1>3, <1>4, <1>7, OneDocument

LEMMA WriteGivenUpKeeps ==
    ASSUME PanelInv, NEW d \in Documents, NEW i \in DOMAIN writes[d], WriteGivenUp(d, i)
    PROVE  DocsRight'
<1> DEFINE w == writes[d]
<1> DEFINE v == [w EXCEPT ![i] = Forgotten(w[i])]
<1>1. DocsRight /\ DocRight(d, kept[d], told[d], w)
  BY DEF PanelInv, DocsRight
<1>2. kept' = [kept EXCEPT ![d] = kept[d]] /\ told' = [told EXCEPT ![d] = told[d]]
  BY <1>1, DocUnchanged DEF WriteGivenUp
<1>3. w \in Seq(WriteTypes(d)) /\ w[i] \in WriteTypes(d)
  BY <1>1 DEF DocRight
<1>4. writes' = [writes EXCEPT ![d] = v]
  <2>1. writes' = [writes EXCEPT ![d] = [[w EXCEPT ![i] = [w[i] EXCEPT !.waited = FALSE]]
                                          EXCEPT ![i] = [[w[i] EXCEPT !.waited = FALSE] EXCEPT !.ordered = FALSE]]]
    BY <1>1 DEF WriteGivenUp, DocsRight
  <2>2. \A x, y : [[w EXCEPT ![i] = x] EXCEPT ![i] = y] = [w EXCEPT ![i] = y]
    BY <1>3
  <2> QED BY <2>1, <2>2 DEF Forgotten
<1>5. DocRight(d, kept[d], told[d], v)
  <2>1. PICK k, t, ww, vv : k = kept[d] /\ t = told[d] /\ ww = w /\ vv = v
    OBVIOUS
  <2>2. DocRight(d, k, t, ww) /\ i \in DOMAIN ww /\ vv = [ww EXCEPT ![i] = Forgotten(ww[i])]
    BY <1>1, <2>1, Zenon
  <2>3. DocRight(d, k, t, vv)
    BY ONLY <2>2, d \in Documents, WriteIsForgotten
  <2> QED BY <2>1, <2>3
<1> HIDE DEF v, w
<1> QED BY <1>1, <1>2, <1>4, <1>5, OneDocument

----------------------------------------------------------------------------
PageShown == PageTyped /\ LanguageShown

LEMMA ShowKeeps ==
    ASSUME PageShown, NEW d \in Documents, NEW doc \in DocTypes(d), Show(d, doc), UNCHANGED onTab
    PROVE  PageShown'
<1>1. CASE d = "catalogue"
  BY <1>1 DEF Show, PageShown, PageTyped, LanguageShown, DocTypes
<1>2. CASE d = "settings"
  <2>1. doc \in SettingsForms /\ doc["language"] \in Languages
    BY <1>2 DEF DocTypes, SettingsForms
  <2>2. settings' = doc /\ uiLanguage' = doc["language"] /\ typed' = {} /\ UNCHANGED costCatalog
    BY <1>2 DEF Show
  <2> QED BY <2>1, <2>2 DEF PageShown, PageTyped, LanguageShown
<1> QED BY <1>1, <1>2 DEF Documents

LEMMA PageStays ==
    ASSUME PageShown, UNCHANGED <<costCatalog, settings, uiLanguage, typed, onTab>>
    PROVE  PageShown'
BY DEF PageShown, PageTyped, LanguageShown

LEMMA LoadsStay ==
    ASSUME LoadsTyped, UNCHANGED loads
    PROVE  LoadsTyped'
BY DEF LoadsTyped

\* The loads of one document change.
LEMMA OneLoad ==
    ASSUME LoadsTyped, NEW d \in Documents, NEW l \in Seq(DocTypes(d) \cup {NotRead}),
           loads' = [loads EXCEPT ![d] = l]
    PROVE  LoadsTyped'
<1>1. loads' = [e \in Documents |-> IF e = d THEN l ELSE loads[e]]
  BY DEF LoadsTyped
<1>2. ASSUME NEW e \in Documents PROVE loads'[e] \in Seq(DocTypes(e) \cup {NotRead})
  <2>1. CASE e = d
    BY <1>1, <2>1
  <2>2. CASE e # d
    BY <1>1, <2>2 DEF LoadsTyped
  <2> QED BY <2>1, <2>2
<1>3. loads' = [e \in Documents |-> loads'[e]]
  BY <1>1
<1> QED BY <1>2, <1>3 DEF LoadsTyped

\* A load that was read or failed is on its way no longer.
LEMMA LoadGone ==
    ASSUME LoadsTyped, NEW d \in Documents, NEW i \in DOMAIN loads[d],
           loads' = [loads EXCEPT ![d] = RemoveAt(@, i)]
    PROVE  LoadsTyped'
<1>1. PICK l \in Seq(DocTypes(d) \cup {NotRead}) : l = loads[d]
  BY DEF LoadsTyped
<1>2. PICK S : S = DocTypes(d) \cup {NotRead}
  OBVIOUS
<1>3. l \in Seq(S) /\ i \in DOMAIN l
  BY <1>1, <1>2
<1>4. RemoveAt(l, i) \in Seq(S)
  BY ONLY <1>3, RemovedAt
<1>5. loads' = [loads EXCEPT ![d] = RemoveAt(l, i)]
  BY <1>1
<1> QED BY <1>2, <1>4, <1>5, OneLoad

LEMMA LoadReadKeeps ==
    ASSUME PanelInv, NEW d \in Documents, NEW i \in DOMAIN loads[d], LoadRead(d, i)
    PROVE  LoadsTyped'
<1>1. PICK S : S = DocTypes(d) \cup {NotRead}
  OBVIOUS
<1>2. PICK l \in Seq(S) : l = loads[d]
  BY <1>1 DEF PanelInv, LoadsTyped
<1>3. PICK k \in S : k = kept[d]
  BY <1>1 DEF PanelInv, DocsRight, DocRight
<1>4. [l EXCEPT ![i] = k] \in Seq(S)
  BY <1>2
<1>5. loads' = [loads EXCEPT ![d] = [l EXCEPT ![i] = k]]
  BY <1>2, <1>3 DEF LoadRead
<1> QED BY <1>1, <1>4, <1>5, OneLoad DEF PanelInv

LEMMA EnterTabKeeps ==
    ASSUME LoadsTyped, EnterTab
    PROVE  LoadsTyped'
<1>1. loads' = [d \in Documents |-> Append(loads[d], NotRead)]
  BY DEF EnterTab
<1>2. ASSUME NEW d \in Documents PROVE loads'[d] \in Seq(DocTypes(d) \cup {NotRead})
  <2>1. PICK S : S = DocTypes(d) \cup {NotRead}
    OBVIOUS
  <2>2. PICK l \in Seq(S) : l = loads[d]
    BY <2>1 DEF LoadsTyped
  <2>3. NotRead \in S
    BY <2>1
  <2>4. Append(l, NotRead) \in Seq(S)
    BY <2>2, <2>3
  <2> QED BY <1>1, <2>1, <2>2, <2>4
<1>3. loads' = [d \in Documents |-> loads'[d]]
  BY <1>1
<1> QED BY <1>2, <1>3 DEF LoadsTyped

----------------------------------------------------------------------------
LEMMA SaveCostCatalogKeeps ==
    ASSUME PanelInv, NEW e \in Entries, NEW value \in {Absent, "active", "hidden"}, SaveCostCatalog(e, value)
    PROVE  DocsRight' /\ LoadsTyped' /\ PageShown'
<1>1. DocsRight /\ LoadsTyped /\ PageShown
  BY DEF PanelInv, PageShown
<1>2. [costCatalog EXCEPT ![e] = value] \in DocTypes("catalogue") /\ {e} \in SUBSET Parts("catalogue")
  BY <1>1 DEF PageShown, PageTyped, Catalogues, DocTypes, Parts
<1>3. /\ BeginWrite("catalogue", [costCatalog EXCEPT ![e] = value], {e})
      /\ ~CostCatalogSaving
      /\ UNCHANGED <<kept, costCatalog, settings, uiLanguage, typed, onTab, loads>>
  BY DEF SaveCostCatalog, ButtonsEnabled
<1>4. PICK f : f = [costCatalog EXCEPT ![e] = value]
  OBVIOUS
<1>5. "catalogue" \in Documents
  BY DEF Documents
<1>6. DocsRight'
  BY <1>1, <1>2, <1>3, <1>4, <1>5, BeginWriteKeeps
<1> QED BY <1>1, <1>3, <1>6, LoadsStay, PageStays

LEMMA SaveSettingsKeeps ==
    ASSUME PanelInv, SaveSettings
    PROVE  DocsRight' /\ LoadsTyped' /\ PageShown'
<1>1. DocsRight /\ LoadsTyped /\ PageShown
  BY DEF PanelInv, PageShown
<1>2. settings \in DocTypes("settings") /\ typed \in SUBSET Parts("settings")
  BY <1>1 DEF PageShown, PageTyped, DocTypes, Parts, SaveSettings
<1>3. /\ BeginWrite("settings", settings, typed)
      /\ UNCHANGED <<kept, costCatalog, settings, uiLanguage, typed, onTab, loads>>
  BY DEF SaveSettings
<1>4. PICK f, parts : f = settings /\ parts = typed
  OBVIOUS
<1>5. "settings" \in Documents /\ "settings" # "catalogue"
  BY DEF Documents
<1>6. BeginWrite("settings", f, parts) /\ f \in DocTypes("settings") /\ parts \in SUBSET Parts("settings")
  BY <1>2, <1>3, <1>4
<1>7. DocsRight'
  BY <1>1, <1>3, <1>5, <1>6, BeginWriteKeeps
<1> QED BY <1>1, <1>3, <1>7, LoadsStay, PageStays

LEMMA ChangeLanguageKeeps ==
    ASSUME PageShown, NEW language \in Languages, ChangeLanguage(language)
    PROVE  PageShown'
<1>1. CASE settings = NoForm
  BY <1>1 DEF ChangeLanguage, PageShown, PageTyped, LanguageShown
<1>2. CASE settings # NoForm
  <2>1. settings \in SettingsForms
    BY <1>2 DEF PageShown, PageTyped
  <2>2. [settings EXCEPT !["language"] = language] \in SettingsForms
        /\ [settings EXCEPT !["language"] = language]["language"] = language
    BY <2>1 DEF SettingsForms, Fields
  <2>3. /\ settings' = [settings EXCEPT !["language"] = language] /\ uiLanguage' = language
        /\ typed' = typed \cup {"language"} /\ UNCHANGED <<costCatalog, onTab>>
    BY <1>2 DEF ChangeLanguage
  <2>4. typed' \subseteq Fields
    BY <2>3 DEF PageShown, PageTyped, Fields
  <2> QED BY <2>2, <2>3, <2>4 DEF PageShown, PageTyped, LanguageShown
<1> QED BY <1>1, <1>2

LEMMA ChangeBackupKeeps ==
    ASSUME PageShown, NEW value \in {"on", "off"}, ChangeBackup(value)
    PROVE  PageShown'
<1>1. settings \in SettingsForms /\ uiLanguage = settings["language"]
  BY DEF PageShown, PageTyped, LanguageShown, ChangeBackup
<1>2. [settings EXCEPT !["backup"] = value] \in SettingsForms
      /\ [settings EXCEPT !["backup"] = value]["language"] = settings["language"]
  BY <1>1 DEF SettingsForms, Fields
<1>3. /\ settings' = [settings EXCEPT !["backup"] = value]
      /\ typed' = typed \cup {"backup"} /\ UNCHANGED <<costCatalog, uiLanguage, onTab>>
  BY DEF ChangeBackup
<1>4. typed' \subseteq Fields
  BY <1>3 DEF PageShown, PageTyped, Fields
<1> QED BY <1>1, <1>2, <1>3, <1>4 DEF PageShown, PageTyped, LanguageShown

----------------------------------------------------------------------------
LEMMA PanelInvInit ==
    ASSUME PanelInit
    PROVE  PanelInv
<1>1. /\ kept["catalogue"] \in Catalogues /\ kept["settings"] \in SettingsForms
      /\ kept = [d \in Documents |-> kept[d]] /\ told = kept
  BY DEF PanelInit, Documents
<1>2. ASSUME NEW d \in Documents PROVE DocRight(d, kept[d], told[d], writes[d])
  <2>1. kept[d] \in DocTypes(d) /\ writes[d] = << >>
    BY <1>1, <1>2 DEF Documents, DocTypes, PanelInit
  <2> QED BY <1>1, <2>1 DEF DocRight
<1>3. DocsRight
  BY <1>1, <1>2 DEF DocsRight, PanelInit
<1>4. LoadsTyped
  BY DEF LoadsTyped, PanelInit
<1>5. Empty \in Catalogues
  BY DEF Empty, Catalogues
<1>6. costCatalog \in Catalogues
  BY <1>1, <1>5 DEF PanelInit
<1>7. settings = NoForm /\ uiLanguage \in Languages /\ typed = {}
  BY DEF PanelInit
<1>8. turns \in 0 .. MaxTurns
  BY PanelAssumption DEF PanelInit
<1>9. onTab \in BOOLEAN
  <2>1. onTab = FALSE
    BY Zenon DEF PanelInit
  <2> QED BY <2>1
<1> QED BY <1>3, <1>4, <1>6, <1>7, <1>8, <1>9 DEF PanelInv, PageTyped, LanguageShown

LEMMA PanelTurnKeeps ==
    ASSUME PanelInv, PanelTurn
    PROVE  PanelInv'
<1>1. DocsRight /\ LoadsTyped /\ PageShown /\ turns \in 0 .. MaxTurns /\ turns < MaxTurns
      /\ turns' = turns + 1
  BY DEF PanelInv, PageShown, PanelTurn
<1>2. turns' \in 0 .. MaxTurns
  BY <1>1, PanelAssumption
<1>3. SUFFICES DocsRight' /\ LoadsTyped' /\ PageShown'
  BY <1>2 DEF PanelInv, PageShown
<1>4. CASE EnterTab
  <2>1. PageShown'
    BY <1>1, <1>4 DEF EnterTab, PageShown, PageTyped, LanguageShown
  <2> QED BY <1>1, <1>4, <2>1, EnterTabKeeps, DocsStay DEF EnterTab
<1>5. CASE LeaveTab
  <2>1. PageShown'
    BY <1>1, <1>5 DEF LeaveTab, PageShown, PageTyped, LanguageShown
  <2> QED BY <1>1, <1>5, <2>1, LoadsStay, DocsStay DEF LeaveTab
<1>6. ASSUME NEW e \in Entries, NEW value \in {"active", "hidden"}, AddCatalogEntry(e, value)
      PROVE  DocsRight' /\ LoadsTyped' /\ PageShown'
  BY <1>6, SaveCostCatalogKeeps DEF AddCatalogEntry
<1>7. ASSUME NEW e \in Entries, ToggleCatalogEntry(e)
      PROVE  DocsRight' /\ LoadsTyped' /\ PageShown'
  <2>1. PICK value \in {Absent, "active", "hidden"} : SaveCostCatalog(e, value)
    BY <1>7 DEF ToggleCatalogEntry
  <2> QED BY <2>1, SaveCostCatalogKeeps
<1>8. ASSUME NEW e \in Entries, RemoveCatalogEntry(e)
      PROVE  DocsRight' /\ LoadsTyped' /\ PageShown'
  BY <1>8, SaveCostCatalogKeeps DEF RemoveCatalogEntry
<1>9. ASSUME NEW language \in Languages, ChangeLanguage(language)
      PROVE  DocsRight' /\ LoadsTyped' /\ PageShown'
  <2>1. UNCHANGED <<kept, told, writes>> /\ UNCHANGED loads
    BY <1>9 DEF ChangeLanguage
  <2> QED BY <1>1, <1>9, <2>1, ChangeLanguageKeeps, DocsStay, LoadsStay
<1>10. ASSUME NEW value \in {"on", "off"}, ChangeBackup(value)
       PROVE  DocsRight' /\ LoadsTyped' /\ PageShown'
  <2>1. UNCHANGED <<kept, told, writes>> /\ UNCHANGED loads
    BY <1>10 DEF ChangeBackup
  <2> QED BY <1>1, <1>10, <2>1, ChangeBackupKeeps, DocsStay, LoadsStay
<1>11. CASE SaveSettings
  BY <1>11, SaveSettingsKeeps
<1> QED BY <1>4, <1>5, <1>6, <1>7, <1>8, <1>9, <1>10, <1>11 DEF PanelTurn

LEMMA PanelAnswerKeeps ==
    ASSUME PanelInv, NEW d \in Documents, PanelAnswer(d)
    PROVE  PanelInv'
<1>1. DocsRight /\ LoadsTyped /\ PageShown /\ turns \in 0 .. MaxTurns
  BY DEF PanelInv, PageShown
<1>2. SUFFICES DocsRight' /\ LoadsTyped' /\ PageShown' /\ UNCHANGED turns
  BY <1>1 DEF PanelInv, PageShown
<1>3. ASSUME NEW i \in DOMAIN loads[d], LoadRead(d, i)
      PROVE  DocsRight' /\ LoadsTyped' /\ PageShown' /\ UNCHANGED turns
  <2>1. /\ UNCHANGED <<kept, told, writes>> /\ UNCHANGED turns
        /\ UNCHANGED <<costCatalog, settings, uiLanguage, typed, onTab>>
    BY <1>3 DEF LoadRead
  <2> QED BY <1>1, <1>3, <2>1, LoadReadKeeps, DocsStay, PageStays
<1>4. ASSUME NEW i \in DOMAIN loads[d], LoadAnswered(d, i)
      PROVE  DocsRight' /\ LoadsTyped' /\ PageShown' /\ UNCHANGED turns
  <2>1. /\ UNCHANGED <<kept, told, writes>> /\ UNCHANGED turns /\ UNCHANGED onTab
        /\ Show(d, loads[d][i]) /\ loads[d][i] # NotRead
        /\ loads' = [loads EXCEPT ![d] = RemoveAt(@, i)]
    BY <1>4 DEF LoadAnswered
  <2>2. loads[d][i] \in DocTypes(d)
    <3>1. PICK l \in Seq(DocTypes(d) \cup {NotRead}) : l = loads[d]
      BY <1>1 DEF LoadsTyped
    <3>2. i \in DOMAIN l /\ l[i] # NotRead
      BY <1>4, <2>1, <3>1
    <3>3. l[i] \in DocTypes(d) \cup {NotRead}
      BY <3>1, <3>2
    <3> QED BY <3>1, <3>2, <3>3
  <2>3. PageShown'
    <3>1. PICK doc \in DocTypes(d) : doc = loads[d][i]
      BY <2>2
    <3> QED BY <1>1, <2>1, <3>1, ShowKeeps
  <2> QED BY <1>1, <2>1, <2>3, LoadGone, DocsStay
<1>5. ASSUME NEW i \in DOMAIN loads[d], LoadFails(d, i)
      PROVE  DocsRight' /\ LoadsTyped' /\ PageShown' /\ UNCHANGED turns
  <2>1. /\ UNCHANGED <<kept, told, writes>> /\ UNCHANGED turns
        /\ UNCHANGED <<settings, uiLanguage, typed, onTab>>
        /\ costCatalog' \in {Empty, costCatalog}
        /\ loads' = [loads EXCEPT ![d] = RemoveAt(@, i)]
    BY <1>5 DEF LoadFails
  <2>2. costCatalog' \in Catalogues
    BY <1>1, <2>1 DEF PageShown, PageTyped, Empty, Catalogues
  <2>3. PageShown'
    BY <1>1, <2>1, <2>2 DEF PageShown, PageTyped, LanguageShown
  <2> QED BY <1>1, <2>1, <2>3, LoadGone, DocsStay
<1>6. ASSUME NEW i \in DOMAIN writes[d], WriteStored(d, i)
      PROVE  DocsRight' /\ LoadsTyped' /\ PageShown' /\ UNCHANGED turns
  <2>1. UNCHANGED <<costCatalog, settings, uiLanguage, typed, onTab>> /\ UNCHANGED loads
        /\ UNCHANGED turns
    BY <1>6 DEF WriteStored
  <2> QED BY <1>1, <1>6, <2>1, WriteStoredKeeps, LoadsStay, PageStays
<1>7. ASSUME NEW i \in DOMAIN writes[d], WriteAnswered(d, i)
      PROVE  DocsRight' /\ LoadsTyped' /\ PageShown' /\ UNCHANGED turns
  <2>1. UNCHANGED onTab /\ UNCHANGED loads /\ UNCHANGED turns
        /\ Show(d, Normalized(d, writes[d][i]))
    BY <1>7 DEF WriteAnswered
  <2>2. writes[d][i] \in WriteTypes(d)
    BY <1>1 DEF DocsRight, DocRight
  <2>3. Normalized(d, writes[d][i]) \in DocTypes(d)
    BY <2>2, NormalizedTyped
  <2>4. PageShown'
    <3>1. PICK doc \in DocTypes(d) : doc = Normalized(d, writes[d][i])
      BY <2>3
    <3> QED BY <1>1, <2>1, <3>1, ShowKeeps
  <2> QED BY <1>1, <1>7, <2>1, <2>4, WriteAnsweredKeeps, LoadsStay
<1>8. ASSUME NEW i \in DOMAIN writes[d], WriteFails(d, i)
      PROVE  DocsRight' /\ LoadsTyped' /\ PageShown' /\ UNCHANGED turns
  <2>1. UNCHANGED <<costCatalog, settings, uiLanguage, typed, onTab>> /\ UNCHANGED loads
        /\ UNCHANGED turns
    BY <1>8 DEF WriteFails
  <2> QED BY <1>1, <1>8, <2>1, WriteFailsKeeps, LoadsStay, PageStays
<1>9. ASSUME NEW i \in DOMAIN writes[d], WriteGivenUp(d, i)
      PROVE  DocsRight' /\ LoadsTyped' /\ PageShown' /\ UNCHANGED turns
  <2>1. UNCHANGED <<costCatalog, settings, uiLanguage, typed, onTab>> /\ UNCHANGED loads
        /\ UNCHANGED turns
    BY <1>9 DEF WriteGivenUp
  <2> QED BY <1>1, <1>9, <2>1, WriteGivenUpKeeps, LoadsStay, PageStays
<1> QED BY <1>3, <1>4, <1>5, <1>6, <1>7, <1>8, <1>9 DEF PanelAnswer

LEMMA PanelStep ==
    ASSUME PanelInv, [PanelNext]_panelVars
    PROVE  PanelInv'
<1>1. CASE PanelTurn
  BY <1>1, PanelTurnKeeps
<1>2. ASSUME NEW d \in Documents, PanelAnswer(d) PROVE PanelInv'
  BY <1>2, PanelAnswerKeeps
<1>3. CASE UNCHANGED panelVars
  <2>1. /\ UNCHANGED <<kept, told, writes>> /\ UNCHANGED loads /\ UNCHANGED turns
        /\ UNCHANGED <<costCatalog, settings, uiLanguage, typed, onTab>>
    BY <1>3 DEF panelVars
  <2>2. DocsRight /\ LoadsTyped /\ PageShown
    BY DEF PanelInv, PageShown
  <2>3. DocsRight' /\ LoadsTyped' /\ PageShown'
    BY <2>1, <2>2, DocsStay, LoadsStay, PageStays
  <2> QED BY <2>1, <2>3 DEF PanelInv, PageShown
<1> QED BY <1>1, <1>2, <1>3 DEF PanelNext

\* The properties of the tab.
LEMMA PanelSafe ==
    ASSUME PanelInv
    PROVE  PanelTypeOK /\ SavedStays /\ LanguageShown
<1>1. kept \in [catalogue : Catalogues, settings : SettingsForms]
  <2>1. kept = [catalogue |-> kept["catalogue"], settings |-> kept["settings"]]
    BY DEF PanelInv, DocsRight, Documents
  <2>2. kept["catalogue"] \in Catalogues /\ kept["settings"] \in SettingsForms
    BY DEF PanelInv, DocsRight, DocRight, DocTypes, Documents
  <2>3. PICK k, l : k = kept["catalogue"] /\ l = kept["settings"]
    OBVIOUS
  <2>4. [catalogue |-> k, settings |-> l] \in [catalogue : Catalogues, settings : SettingsForms]
    BY <2>2, <2>3
  <2> QED BY <2>1, <2>3, <2>4
<1>2. SavedStays
  BY DEF PanelInv, DocsRight, DocRight, SavedStays
<1> QED BY <1>1, <1>2 DEF PanelInv, PageTyped, PanelTypeOK

HIDE PanelAssumption

----------------------------------------------------------------------------
\* What the page was told is stored stays stored, it speaks the language its
\* form has, and shows the form and the notes of an account under its name,
\* for every set of accounts, entries and requests on their way.
THEOREM TabsFaithfulCorrect == TabsSpec => []TabsFaithful
<1>1. TabsInit => UsersInv /\ PanelInv
  BY UsersInvInit, PanelInvInit DEF TabsInit
<1>2. UsersInv /\ PanelInv /\ [TabsNext]_tabsVars => UsersInv' /\ PanelInv'
  <2> SUFFICES ASSUME UsersInv, PanelInv, [TabsNext]_tabsVars PROVE UsersInv' /\ PanelInv'
    OBVIOUS
  <2>1. [UsersNext]_usersVars /\ [PanelNext]_panelVars
    BY DEF TabsNext, tabsVars
  <2> QED BY <2>1, UsersStep, PanelStep
<1>3. UsersInv /\ PanelInv => TabsFaithful
  BY UsersTyped, PanelSafe DEF TabsFaithful
<1> QED BY <1>1, <1>2, <1>3, PTL DEF TabsSpec

----------------------------------------------------------------------------
(***************************************************************************)
(* The preferences of the dashboard.  Which presets Named leaves is proved *)
(* by the least place of the list where the claim fails.  The property is  *)
(* not inductive: the invariant says of a save what is stored before and   *)
(* after it is carried out, while it is the only one, whose it is while one*)
(* user is at the browser, and what is selected now and after its answer;  *)
(* it ranks what has happened, so that each part speaks only of the runs   *)
(* where it is meant.                                                      *)
(***************************************************************************)

\* The function in the definition of Named, as far as m.
UpTo(s, names, F, m) ==
    F = [i \in 0 .. m |-> IF i = 0 THEN << >>
                          ELSE IF s[i].name \in names THEN Append(F[i - 1], s[i]) ELSE F[i - 1]]

LEMMA UpToExists ==
    ASSUME NEW s, NEW names, NEW n \in Nat
    PROVE  \E F : UpTo(s, names, F, n)
<1> DEFINE T == {m \in Nat : ~ \E F : UpTo(s, names, F, m)}
<1>1. SUFFICES ASSUME T # {} PROVE FALSE
  OBVIOUS
<1>2. PICK m \in T : \A k \in T : m <= k
  BY <1>1, LeastOf
<1>3. CASE m = 0
  <2> DEFINE F == [i \in 0 .. m |-> << >>]
  <2>1. UpTo(s, names, F, m)
    BY <1>3 DEF UpTo
  <2> QED BY <2>1
<1>4. CASE m > 0
  <2>1. m - 1 \in Nat /\ m - 1 \notin T
    BY <1>2, <1>4
  <2>2. PICK F : UpTo(s, names, F, m - 1)
    BY <2>1
  <2> DEFINE e == IF s[m].name \in names THEN Append(F[m - 1], s[m]) ELSE F[m - 1]
  <2> DEFINE G == [i \in 0 .. m |-> IF i = m THEN e ELSE F[i]]
  <2>3. ASSUME NEW i \in 0 .. m
        PROVE  G[i] = IF i = 0 THEN << >>
                      ELSE IF s[i].name \in names THEN Append(G[i - 1], s[i]) ELSE G[i - 1]
    <3>1. CASE i = m
      <4>1. G[m] = e /\ G[m - 1] = F[m - 1]
        BY <1>4
      <4> QED BY <1>4, <3>1, <4>1
    <3>2. CASE i # m
      <4>1. i \in 0 .. m - 1 /\ G[i] = F[i] /\ (i > 0 => i - 1 \in 0 .. m /\ i - 1 # m)
        BY <3>2
      <4>2. i > 0 => G[i - 1] = F[i - 1]
        BY <4>1
      <4>3. F[i] = IF i = 0 THEN << >>
                   ELSE IF s[i].name \in names THEN Append(F[i - 1], s[i]) ELSE F[i - 1]
        BY <2>2, <4>1 DEF UpTo
      <4> QED BY <4>1, <4>2, <4>3
    <3> QED BY <3>1, <3>2
  <2>4. UpTo(s, names, G, m)
    <3> DEFINE H == [i \in 0 .. m |-> IF i = 0 THEN << >>
                          ELSE IF s[i].name \in names THEN Append(G[i - 1], s[i]) ELSE G[i - 1]]
    <3>1. \A i \in 0 .. m : G[i] = H[i]
      BY <2>3
    <3>2. G = H
      BY <3>1
    <3> QED BY <3>2 DEF UpTo
  <2> QED BY <2>4
<1> QED BY <1>2, <1>3, <1>4

LEMMA NamedIs ==
    ASSUME NEW s, NEW names, Len(s) \in Nat
    PROVE  \E F : UpTo(s, names, F, Len(s)) /\ Named(s, names) = F[Len(s)]
<1>1. \E F : F = [i \in 0 .. Len(s) |-> IF i = 0 THEN << >>
                    ELSE IF s[i].name \in names THEN Append(F[i - 1], s[i]) ELSE F[i - 1]]
  <2>1. PICK n \in Nat : n = Len(s)
    OBVIOUS
  <2>2. \E F : UpTo(s, names, F, n)
    BY UpToExists
  <2> QED BY <2>1, <2>2 DEF UpTo
<1> QED BY <1>1 DEF Named, UpTo

\* The names of a list, and a list without two presets of one name.
NamesOf(s) == {s[i].name : i \in DOMAIN s}
Distinct(s) == \A i, j \in DOMAIN s : s[i].name = s[j].name => i = j

\* What is made of the first presets of a list.
Begun(S, s, names, r, n) ==
    /\ r \in Seq(S) /\ Distinct(r)
    /\ \A i \in DOMAIN r : \E j \in 1 .. n : r[i] = s[j] /\ s[j].name \in names
    /\ \A j \in 1 .. n : s[j].name \in names => \E i \in DOMAIN r : r[i] = s[j]

LEMMA NamedGoesOn ==
    ASSUME NEW S, NEW s \in Seq(S), Distinct(s), NEW names, NEW n \in Nat, n < Len(s),
           NEW r, Begun(S, s, names, r, n)
    PROVE  Begun(S, s, names, IF s[n + 1].name \in names THEN Append(r, s[n + 1]) ELSE r, n + 1)
<1>1. n + 1 \in DOMAIN s /\ s[n + 1] \in S /\ 1 .. n + 1 = (1 .. n) \cup {n + 1} /\ 1 .. n \subseteq DOMAIN s
  OBVIOUS
<1>2. r \in Seq(S) /\ DOMAIN r = 1 .. Len(r) /\ Len(r) \in Nat
  BY DEF Begun
<1>3. CASE s[n + 1].name \notin names
  BY <1>1, <1>3 DEF Begun
<1>4. CASE s[n + 1].name \in names
  <2> DEFINE q == Append(r, s[n + 1])
  <2>1. /\ q \in Seq(S) /\ DOMAIN q = (DOMAIN r) \cup {Len(r) + 1} /\ q[Len(r) + 1] = s[n + 1]
        /\ \A i \in DOMAIN r : q[i] = r[i]
    BY <1>1, <1>2
  <2> HIDE DEF q
  <2>2. \A i \in DOMAIN r : r[i].name # s[n + 1].name
    <3> SUFFICES ASSUME NEW i \in DOMAIN r PROVE r[i].name # s[n + 1].name
      OBVIOUS
    <3>1. PICK j \in 1 .. n : r[i] = s[j]
      BY DEF Begun
    <3>2. j \in DOMAIN s /\ j # n + 1
      BY <1>1
    <3> QED BY <1>1, <3>1, <3>2 DEF Distinct
  <2>3. Distinct(q)
    <3> SUFFICES ASSUME NEW i \in DOMAIN q, NEW j \in DOMAIN q, q[i].name = q[j].name PROVE i = j
      BY DEF Distinct
    <3>1. CASE i \in DOMAIN r /\ j \in DOMAIN r
      BY <2>1, <3>1 DEF Begun, Distinct
    <3>2. CASE i \notin DOMAIN r \/ j \notin DOMAIN r
      BY <2>1, <2>2, <3>2
    <3> QED BY <3>1, <3>2
  <2>4. ASSUME NEW i \in DOMAIN q PROVE \E j \in 1 .. n + 1 : q[i] = s[j] /\ s[j].name \in names
    <3>1. CASE i \in DOMAIN r
      BY <1>1, <2>1, <3>1 DEF Begun
    <3>2. CASE i = Len(r) + 1
      BY <1>1, <1>4, <2>1, <3>2
    <3> QED BY <2>1, <3>1, <3>2
  <2>5. ASSUME NEW j \in 1 .. n + 1, s[j].name \in names PROVE \E i \in DOMAIN q : q[i] = s[j]
    <3>1. CASE j \in 1 .. n
      BY <2>1, <2>5, <3>1 DEF Begun
    <3>2. CASE j = n + 1
      BY <2>1, <3>2
    <3> QED BY <1>1, <3>1, <3>2
  <2>6. Begun(S, s, names, q, n + 1)
    BY <2>1, <2>3, <2>4, <2>5 DEF Begun
  <2> QED BY <1>4, <2>6 DEF q
<1> QED BY <1>3, <1>4

\* Named keeps the presets of the names, each once, and no others.
LEMMA NamedRight ==
    ASSUME NEW S, NEW s \in Seq(S), Distinct(s), NEW names
    PROVE  Begun(S, s, names, Named(s, names), Len(s))
<1>1. PICK F : UpTo(s, names, F, Len(s)) /\ Named(s, names) = F[Len(s)]
  BY NamedIs
<1>2. /\ F[0] = << >>
      /\ \A i \in 0 .. Len(s) - 1 : F[i + 1] = IF s[i + 1].name \in names THEN Append(F[i], s[i + 1]) ELSE F[i]
  <2>1. PICK n \in Nat : n = Len(s)
    OBVIOUS
  <2>2. F = [i \in 0 .. n |-> IF i = 0 THEN << >>
                           ELSE IF s[i].name \in names THEN Append(F[i - 1], s[i]) ELSE F[i - 1]]
    BY <1>1, <2>1 DEF UpTo
  <2>3. F[0] = << >>
    BY <2>2
  <2>4. ASSUME NEW i \in 0 .. n - 1
        PROVE  F[i + 1] = IF s[i + 1].name \in names THEN Append(F[i], s[i + 1]) ELSE F[i]
    <3>1. i + 1 \in 0 .. n /\ i + 1 # 0 /\ (i + 1) - 1 = i
      OBVIOUS
    <3> QED BY <2>2, <3>1
  <2> QED BY <2>1, <2>3, <2>4
<1> DEFINE T == {n \in 0 .. Len(s) : ~ Begun(S, s, names, F[n], n)}
<1>3. SUFFICES T = {}
  BY <1>1
<1>4. SUFFICES ASSUME T # {} PROVE FALSE
  OBVIOUS
<1>5. PICK n \in T : \A k \in T : n <= k
  <2>1. T \in SUBSET Nat
    OBVIOUS
  <2> HIDE DEF T
  <2> QED BY <1>4, <2>1, LeastOf
<1>6. CASE n = 0
  <2>1. Begun(S, s, names, << >>, 0)
    BY DEF Begun, Distinct
  <2> QED BY <1>2, <1>5, <1>6, <2>1
<1>7. CASE n > 0
  <2>1. n - 1 \in 0 .. Len(s) - 1 /\ n - 1 \in Nat /\ n - 1 < n /\ (n - 1) + 1 = n
    BY <1>5, <1>7
  <2>2. PICK k \in 0 .. Len(s) - 1 : k = n - 1 /\ k \in Nat /\ k < n /\ k + 1 = n
    BY ONLY <2>1
  <2>3. Begun(S, s, names, F[k], k)
    BY <1>5, <2>2
  <2>4. F[k + 1] = IF s[k + 1].name \in names THEN Append(F[k], s[k + 1]) ELSE F[k]
    BY ONLY <1>2, <2>2
  <2>5. Begun(S, s, names, F[k + 1], k + 1)
    <3>1. k < Len(s)
      BY <2>2
    <3>2. Begun(S, s, names, IF s[k + 1].name \in names THEN Append(F[k], s[k + 1]) ELSE F[k], k + 1)
      BY <2>2, <2>3, <3>1, NamedGoesOn
    <3> QED BY ONLY <2>4, <3>2, Zenon
  <2>6. Begun(S, s, names, F[n], n)
    BY ONLY <2>2, <2>5, Zenon
  <2> QED BY <1>5, <2>6
<1> QED BY <1>5, <1>6, <1>7

LEMMA NamedFacts ==
    ASSUME NEW S, NEW s \in Seq(S), Distinct(s), NEW names
    PROVE  /\ Named(s, names) \in Seq(S) /\ Distinct(Named(s, names))
           /\ NamesOf(Named(s, names)) = NamesOf(s) \cap names
           /\ \A i \in DOMAIN Named(s, names) : \E j \in DOMAIN s : Named(s, names)[i] = s[j]
<1>1. PICK r : r = Named(s, names)
  OBVIOUS
<1>2. Begun(S, s, names, r, Len(s))
  BY <1>1, NamedRight
<1>3. DOMAIN s = 1 .. Len(s)
  OBVIOUS
<1>4. NamesOf(r) = NamesOf(s) \cap names
  <2>1. ASSUME NEW i \in DOMAIN r PROVE r[i].name \in NamesOf(s) \cap names
    <3>1. PICK j \in 1 .. Len(s) : r[i] = s[j] /\ s[j].name \in names
      BY <1>2 DEF Begun
    <3> QED BY <1>3, <3>1 DEF NamesOf
  <2>2. ASSUME NEW j \in DOMAIN s, s[j].name \in names PROVE s[j].name \in NamesOf(r)
    <3>1. PICK i \in DOMAIN r : r[i] = s[j]
      BY <1>2, <1>3, <2>2 DEF Begun
    <3> QED BY <3>1 DEF NamesOf
  <2> QED BY <2>1, <2>2 DEF NamesOf
<1> QED BY <1>1, <1>2, <1>3, <1>4 DEF Begun

LEMMA DistinctCount ==
    ASSUME NEW S, NEW s \in Seq(S), Distinct(s)
    PROVE  Cardinality(NamesOf(s)) = Len(s)
<1>1. Len(s) \in Nat /\ DOMAIN s = 1 .. Len(s)
  OBVIOUS
<1>2. IsFiniteSet(1 .. Len(s)) /\ Cardinality(1 .. Len(s)) = Len(s)
  <2>1. PICK n \in Nat : n = Len(s)
    OBVIOUS
  <2>2. /\ IsFiniteSet(1 .. n)
        /\ Cardinality(1 .. n) = IF 1 > n THEN 0 ELSE n - 1 + 1
    BY FS_Interval
  <2> QED BY <2>1, <2>2
<1> DEFINE f == [i \in 1 .. Len(s) |-> s[i].name]
<1>3. f \in Bijection(1 .. Len(s), NamesOf(s))
  BY <1>1 DEF Bijection, Injection, Surjection, NamesOf, Distinct, IsInjective
<1>4. ExistsBijection(1 .. Len(s), NamesOf(s))
  BY <1>3 DEF ExistsBijection
<1> QED BY <1>2, <1>4, FS_Bijection

LEMMA JoinedRange ==
    ASSUME NEW S, NEW a \in Seq(S), NEW b \in Seq(S)
    PROVE  a \o b \in Seq(S) /\ Len(a \o b) = Len(a) + Len(b) /\ Range(a \o b) = Range(a) \cup Range(b)
<1>1. PICK q : q = a \o b
  OBVIOUS
<1>2. /\ q \in Seq(S) /\ Len(q) = Len(a) + Len(b) /\ Len(a) \in Nat /\ Len(b) \in Nat
      /\ DOMAIN q = 1 .. Len(a) + Len(b) /\ DOMAIN a = 1 .. Len(a) /\ DOMAIN b = 1 .. Len(b)
      /\ \A j \in 1 .. Len(a) + Len(b) : q[j] = IF j <= Len(a) THEN a[j] ELSE b[j - Len(a)]
  BY <1>1
<1>3. ASSUME NEW j \in DOMAIN q PROVE q[j] \in Range(a) \cup Range(b)
  <2>1. CASE j <= Len(a)
    <3>1. j \in DOMAIN a /\ q[j] = a[j]
      BY <1>2, <2>1
    <3> QED BY <3>1 DEF Range
  <2>2. CASE ~(j <= Len(a))
    <3>1. j - Len(a) \in DOMAIN b /\ q[j] = b[j - Len(a)]
      BY <1>2, <2>2
    <3> QED BY <3>1 DEF Range
  <2> QED BY <2>1, <2>2
<1>4. ASSUME NEW j \in DOMAIN a PROVE a[j] \in Range(q)
  BY <1>2 DEF Range
<1>5. ASSUME NEW j \in DOMAIN b PROVE b[j] \in Range(q)
  <2>1. j + Len(a) \in DOMAIN q /\ q[j + Len(a)] = b[j]
    BY <1>2
  <2> QED BY <2>1 DEF Range
<1>6. Range(q) = Range(a) \cup Range(b)
  BY <1>3, <1>4, <1>5 DEF Range
<1> QED BY <1>1, <1>2, <1>6

LEMMA InsertedAt ==
    ASSUME NEW S, NEW s \in Seq(S), NEW j \in 1 .. Len(s) + 1, NEW e \in S
    PROVE  /\ InsertAt(s, j, e) \in Seq(S) /\ Len(InsertAt(s, j, e)) = Len(s) + 1
           /\ Range(InsertAt(s, j, e)) = Range(s) \cup {e}
<1> DEFINE a == SubSeq(s, 1, j - 1)
<1> DEFINE b == SubSeq(s, j, Len(s))
<1> DEFINE m == << e >>
<1>1. a \in Seq(S) /\ Len(a) = j - 1 /\ \A i \in 1 .. j - 1 : a[i] = s[i]
  OBVIOUS
<1>2. b \in Seq(S) /\ Len(b) = Len(s) - j + 1 /\ \A i \in 1 .. Len(s) - j + 1 : b[i] = s[j + i - 1]
  OBVIOUS
<1>3. m \in Seq(S) /\ Len(m) = 1 /\ Range(m) = {e}
  BY DEF Range
<1>4. InsertAt(s, j, e) = (a \o m) \o b
  BY DEF InsertAt
<1> HIDE DEF a, b, m
<1>5. Range(a) \cup Range(b) = Range(s)
  <2>1. DOMAIN a = 1 .. j - 1 /\ DOMAIN b = 1 .. Len(s) - j + 1 /\ DOMAIN s = 1 .. Len(s) /\ Len(s) \in Nat
    BY <1>1, <1>2
  <2>2. ASSUME NEW i \in DOMAIN a PROVE a[i] \in Range(s)
    BY <1>1, <2>1 DEF Range
  <2>3. ASSUME NEW i \in DOMAIN b PROVE b[i] \in Range(s)
    <3>1. b[i] = s[j + i - 1] /\ j + i - 1 \in DOMAIN s
      BY <1>2, <2>1
    <3> QED BY <3>1 DEF Range
  <2>4. ASSUME NEW i \in DOMAIN s PROVE s[i] \in Range(a) \cup Range(b)
    <3>1. CASE i < j
      BY <1>1, <2>1, <3>1 DEF Range
    <3>2. CASE ~(i < j)
      <4>1. PICK k \in Int : k = i - j + 1
        BY <2>1
      <4>2. k \in 1 .. Len(s) - j + 1 /\ j + k - 1 = i
        BY <2>1, <3>2, <4>1
      <4>3. k \in DOMAIN b /\ b[k] = s[i]
        BY <1>2, <2>1, <4>2
      <4> QED BY <4>3 DEF Range
    <3> QED BY <3>1, <3>2
  <2> QED BY <2>2, <2>3, <2>4 DEF Range
<1>6. a \o m \in Seq(S) /\ Len(a \o m) = j /\ Range(a \o m) = Range(a) \cup {e}
  <2>1. a \in Seq(S) /\ m \in Seq(S)
    BY <1>1, <1>3
  <2>2. a \o m \in Seq(S) /\ Len(a \o m) = Len(a) + Len(m) /\ Range(a \o m) = Range(a) \cup Range(m)
    BY ONLY <2>1, JoinedRange
  <2> QED BY <1>1, <1>3, <2>2
<1> DEFINE am == a \o m
<1>7. am \in Seq(S) /\ Len(am) = j /\ Range(am) = Range(a) \cup {e}
  BY <1>6
<1> HIDE DEF am
<1>8. am \o b \in Seq(S) /\ Len(am \o b) = j + (Len(s) - j + 1) /\ Range(am \o b) = Range(am) \cup Range(b)
  BY <1>2, <1>7, JoinedRange
<1>9. j + (Len(s) - j + 1) = Len(s) + 1
  OBVIOUS
<1> QED BY <1>4, <1>5, <1>7, <1>8, <1>9 DEF am

----------------------------------------------------------------------------
USE PreferencesAssumption

\* A document, and one that is sound: no two presets of one name, every widget.
Presets == [name : Names, filter : Filters, by : Users \cup {None}]
Looks == {"default", "own"}
PrefsDocTypes == [saved : Seq(Presets), default : Names \cup {None}, order : Seq(STRING), sizes : Looks,
             look : Looks, filters : Filters \cup {None}]
Whole(order) == Range(order) = Range(Widgets) /\ Len(order) = Len(Widgets)
SoundDocs == {d \in PrefsDocTypes : Distinct(d.saved) /\ Whole(d.order)}
Owned(d, u) == \A i \in DOMAIN d.saved : d.saved[i].by = u
HasDefault(d) == d.default \in NamesOf(d.saved) \cup {None}

BrowserKeys == AllTokens \cup {SignedOut}
Worst == {"nothing", "failed", "raced", "mixed"}
PrefsSaveTypes == [doc : SoundDocs, previous : SoundDocs, key : BrowserKeys,
              selected : Names \cup {None, Keep}, done : BOOLEAN]
LateTypes == [doc : SoundDocs, key : BrowserKeys]
ViewTypes == [page : {"home", "setup", "login", "dashboard"},
              at : {"status", "form", "signing", "me", "prefs", "ready", "leaving"}, key : BrowserKeys]
DashTypes == [user : Users \cup {None}, prefs : SoundDocs, selected : Names \cup {None}, filter : Filters]

PrefsTypes ==
    /\ stored \in [Users -> SoundDocs]
    /\ sessions \in SUBSET AllTokens /\ issued \in Nat \ {0} /\ userToken \in BrowserKeys
    /\ view \in ViewTypes /\ dash \in DashTypes
    /\ saves \in Seq(PrefsSaveTypes) /\ late \in SUBSET LateTypes
    /\ spoilt \in Worst

AtWork == view.at \in {"ready", "leaving"}

\* What the page shows follows from what it waits for.
PageFollows ==
    /\ view.at \in {"me", "prefs", "ready", "leaving"} => view.page = "dashboard"
    /\ ~AtWork => saves = << >> /\ dash.prefs = FirstPrefs /\ dash.selected = None
    /\ view.at \in {"status", "form", "signing", "me"} => dash.user = None
    /\ view.at \in {"prefs", "ready", "leaving"} => dash.user \in Users

\* One user in the browser: the tokens and the documents are the user's.
Mine(k, u) == k = SignedOut \/ k[1] = u
OneUser ==
    spoilt # "mixed" =>
        /\ \A u \in Users : Owned(stored[u], u)
        /\ Owned(dash.prefs, dash.user)
        /\ \A i \in DOMAIN saves : /\ Owned(saves[i].doc, dash.user) /\ Owned(saves[i].previous, dash.user)
                                   /\ Mine(saves[i].key, dash.user)
        /\ \A l \in late : l.key # SignedOut => Owned(l.doc, l.key[1])
        /\ view.at = "me" => userToken \in {view.key, SignedOut}
        /\ view.at = "prefs" => Mine(view.key, dash.user)
        /\ view.at \in {"prefs", "ready", "leaving"} => Mine(userToken, dash.user)

\* One save at a time: what is stored is what it replaces, until it is carried out.
SaveAlone ==
    spoilt \in {"nothing", "failed"} =>
        /\ late = {} /\ Len(saves) <= 1
        /\ AtWork /\ saves = << >> => stored[dash.user] = dash.prefs
        /\ AtWork /\ saves # << >> =>
             /\ dash.prefs = saves[1].doc
             /\ stored[dash.user] = IF saves[1].done THEN saves[1].doc ELSE saves[1].previous

\* Nothing failed: a document names presets it has, and so does the dashboard
\* now and after the save.
SelectedExists ==
    spoilt = "nothing" =>
        /\ \A u \in Users : HasDefault(stored[u])
        /\ HasDefault(dash.prefs)
        /\ \A i \in DOMAIN saves :
             /\ HasDefault(saves[i].doc) /\ HasDefault(saves[i].previous)
             /\ saves[i].selected \in NamesOf(dash.prefs.saved) \cup {None, Keep}
        /\ (\A i \in DOMAIN saves : saves[i].selected = Keep) =>
               dash.selected \in NamesOf(dash.prefs.saved) \cup {None}

PrefsInv == PrefsTypes /\ PageFollows /\ OneUser /\ SaveAlone /\ SelectedExists

LEMMA KeyShape ==
    /\ \A k \in AllTokens : k[1] \in Users /\ k # SignedOut
    /\ \A u \in Users, n \in 1 .. MaxTokens : <<u, n>> \in AllTokens /\ <<u, n>>[1] = u /\ <<u, n>> # SignedOut
<1>1. ASSUME NEW k \in AllTokens PROVE k[1] \in Users /\ k # SignedOut
  <2>1. PICK u \in Users : k \in {u} \X (1 .. MaxTokens)
    BY DEF AllTokens, TokensOf
  <2> QED BY <2>1 DEF SignedOut
<1>2. ASSUME NEW u \in Users, NEW n \in 1 .. MaxTokens
      PROVE  <<u, n>> \in AllTokens /\ <<u, n>>[1] = u /\ <<u, n>> # SignedOut
  BY DEF AllTokens, TokensOf, SignedOut
<1> QED BY <1>1, <1>2

LEMMA WorseIs ==
    ASSUME spoilt \in Worst, NEW what \in Worst, Also(what)
    PROVE  /\ spoilt' \in Worst
           /\ spoilt' # "mixed" => spoilt # "mixed" /\ what # "mixed"
           /\ spoilt' \in {"nothing", "failed"} => spoilt \in {"nothing", "failed"} /\ what \in {"nothing", "failed"}
           /\ spoilt' = "nothing" => spoilt = "nothing" /\ what = "nothing"
BY DEF Also, Worst

LEMMA FirstPrefsSound == FirstPrefs \in SoundDocs /\ (\A u : Owned(FirstPrefs, u)) /\ HasDefault(FirstPrefs)
BY DEF FirstPrefs, SoundDocs, PrefsDocTypes, Distinct, Whole, Looks, Owned, HasDefault

LEMMA FreshDashTyped ==
    FreshDash \in DashTypes /\ FreshDash.user = None /\ FreshDash.prefs = FirstPrefs /\ FreshDash.selected = None
BY FirstPrefsSound DEF FreshDash, DashTypes

LEMMA SavedBeforeSound ==
    ASSUME NEW u \in Users, NEW d \in {FirstPrefs} \cup SavedBefore(u)
    PROVE  d \in SoundDocs /\ Owned(d, u)
<1>1. CASE d = FirstPrefs
  BY <1>1, FirstPrefsSound
<1>2. CASE d \in SavedBefore(u)
  <2>1. PICK n \in Names, f \in Filters, e \in Names \cup {None} : d = OnePreset(u, n, f, e)
    BY <1>2 DEF SavedBefore
  <2>2. PICK s : s = <<[name |-> n, filter |-> f, by |-> u]>>
    OBVIOUS
  <2>3. s \in Seq(Presets) /\ DOMAIN s = {1} /\ s[1].by = u
    BY <2>2 DEF Presets
  <2>4. /\ d = [saved |-> s, default |-> e, order |-> Widgets, sizes |-> "default", look |-> "default",
                filters |-> None]
    BY <2>1, <2>2 DEF OnePreset, FirstPrefs
  <2> QED BY <2>3, <2>4 DEF SoundDocs, PrefsDocTypes, Distinct, Whole, Looks, Owned
<1> QED BY <1>1, <1>2

LEMMA PrefsInvInit == PrefsInit => PrefsInv
<1> SUFFICES ASSUME PrefsInit PROVE PrefsInv
  OBVIOUS
<1>1. \A u \in Users : stored[u] \in SoundDocs /\ Owned(stored[u], u) /\ HasDefault(stored[u])
  <2> SUFFICES ASSUME NEW u \in Users PROVE stored[u] \in SoundDocs /\ Owned(stored[u], u) /\ HasDefault(stored[u])
    OBVIOUS
  <2>1. stored[u] \in {FirstPrefs} \cup SavedBefore(u) /\ stored[u].default \in NamesIn(stored[u]) \cup {None}
    BY DEF PrefsInit
  <2>2. PICK d : d = stored[u]
    OBVIOUS
  <2> QED BY <2>1, <2>2, SavedBeforeSound DEF HasDefault, NamesIn, NamesOf
<1>2. stored \in [Users -> SoundDocs]
  BY <1>1 DEF PrefsInit
<1>3. PICK u \in Users : sessions = {<<u, 1>>} /\ userToken = <<u, 1>>
  BY DEF PrefsInit
<1>4. <<u, 1>> \in AllTokens
  BY KeyShape
<1>5. view \in ViewTypes /\ view.at = "status"
  BY DEF PrefsInit, ViewTypes, BrowserKeys
<1>6. PrefsTypes
  <2>1. sessions \in SUBSET AllTokens /\ userToken \in BrowserKeys
    BY <1>3, <1>4 DEF BrowserKeys
  <2>2. saves \in Seq(PrefsSaveTypes) /\ late \in SUBSET LateTypes
    BY DEF PrefsInit
  <2>3. issued \in Nat \ {0} /\ dash \in DashTypes /\ spoilt \in Worst
    BY FreshDashTyped DEF PrefsInit, Worst
  <2> QED BY <1>2, <1>5, <2>1, <2>2, <2>3 DEF PrefsTypes
<1>7. PageFollows
  BY <1>5, FreshDashTyped DEF PrefsInit, PageFollows, AtWork
<1>8. OneUser /\ SaveAlone /\ SelectedExists
  BY <1>1, <1>5, FreshDashTyped, FirstPrefsSound DEF PrefsInit, OneUser, SaveAlone, SelectedExists, AtWork
<1> QED BY <1>6, <1>7, <1>8 DEF PrefsInv

\* A page is loaded.
LEMMA VisitKeeps ==
    ASSUME PrefsInv, NEW page \in {"home", "setup", "login", "dashboard"}, Visit(page), stored' = stored,
           sessions' \in SUBSET AllTokens, issued' \in Nat \ {0}, userToken' \in BrowserKeys
    PROVE  PrefsInv'
<1> DEFINE unanswered == {saves[i] : i \in {j \in DOMAIN saves : ~saves[j].done}}
<1> DEFINE what == IF unanswered = {} THEN "nothing" ELSE "raced"
<1> DEFINE left == {[doc |-> s.doc, key |-> s.key] : s \in unanswered}
<1>1. PrefsTypes /\ PageFollows /\ OneUser /\ SaveAlone /\ SelectedExists
  BY DEF PrefsInv
<1>2. /\ view' = [page |-> page, at |-> "status", key |-> SignedOut]
      /\ dash' = FreshDash /\ saves' = << >> /\ late' = late \cup left /\ Also(what)
  BY DEF Visit
<1>3. /\ spoilt' \in Worst
      /\ spoilt' # "mixed" => spoilt # "mixed"
      /\ spoilt' \in {"nothing", "failed"} => spoilt \in {"nothing", "failed"} /\ what \in {"nothing", "failed"}
      /\ spoilt' = "nothing" => spoilt = "nothing"
  <2>1. spoilt \in Worst /\ what \in Worst
    BY <1>1 DEF PrefsTypes, Worst
  <2> HIDE DEF what
  <2> QED BY <1>2, <2>1, WorseIs
<1>4. \A l \in left : \E i \in DOMAIN saves : l = [doc |-> saves[i].doc, key |-> saves[i].key]
  OBVIOUS
<1>5. what \in {"nothing", "failed"} => left = {}
  OBVIOUS
<1> HIDE DEF left, what, unanswered
<1>6. \A i \in DOMAIN saves : saves[i] \in PrefsSaveTypes
  BY <1>1 DEF PrefsTypes
<1>7. left \in SUBSET LateTypes
  BY <1>4, <1>6 DEF PrefsSaveTypes, LateTypes
<1>8. view' \in ViewTypes
  BY <1>2 DEF ViewTypes, BrowserKeys
<1>9. PrefsTypes'
  BY <1>1, <1>2, <1>3, <1>7, <1>8, FreshDashTyped DEF PrefsTypes
<1>10. PageFollows'
  BY <1>2, FreshDashTyped DEF PageFollows, AtWork
<1>11. OneUser'
  <2> SUFFICES ASSUME spoilt' # "mixed" PROVE OneUser'
    BY DEF OneUser
  <2>1. \A l \in left : l.key # SignedOut => Owned(l.doc, l.key[1])
    <3> SUFFICES ASSUME NEW l \in left, l.key # SignedOut PROVE Owned(l.doc, l.key[1])
      OBVIOUS
    <3>1. PICK i \in DOMAIN saves : l = [doc |-> saves[i].doc, key |-> saves[i].key]
      BY <1>4
    <3>2. Owned(saves[i].doc, dash.user) /\ Mine(saves[i].key, dash.user)
      BY <1>1, <1>3 DEF OneUser
    <3> QED BY <3>1, <3>2 DEF Mine
  <2> QED BY <1>1, <1>2, <1>3, <2>1, FreshDashTyped, FirstPrefsSound DEF OneUser
<1>12. SaveAlone'
  BY <1>1, <1>2, <1>3, <1>5 DEF SaveAlone, AtWork
<1>13. SelectedExists'
  BY <1>1, <1>2, <1>3, FreshDashTyped, FirstPrefsSound DEF SelectedExists
<1> QED BY <1>9, <1>10, <1>11, <1>12, <1>13 DEF PrefsInv

\* The page waits for something else.
LEMMA StaysKeeps ==
    ASSUME PrefsInv, NEW at \in {"form", "signing", "me", "leaving"}, Await(at),
           at \in {"form", "signing"} => ~AtWork /\ view.at \notin {"me", "prefs"},
           at = "me" => view.at \in {"status"} /\ view.page = "dashboard",
           at = "leaving" => AtWork,
           UNCHANGED <<stored, sessions, issued, userToken, dash, saves, late, spoilt>>
    PROVE  PrefsInv'
<1>1. PrefsTypes /\ PageFollows /\ OneUser /\ SaveAlone /\ SelectedExists
  BY DEF PrefsInv
<1>2. view \in ViewTypes /\ userToken \in BrowserKeys
  BY <1>1 DEF PrefsTypes
<1>3. view' \in ViewTypes /\ view'.at = at /\ view'.page = view.page /\ view'.key = userToken
  BY <1>2 DEF Await, ViewTypes
<1>4. PrefsTypes'
  BY <1>1, <1>3 DEF PrefsTypes
<1>5. PageFollows'
  BY <1>1, <1>2, <1>3 DEF PageFollows, AtWork, ViewTypes
<1>6. OneUser'
  BY <1>1, <1>3 DEF OneUser, AtWork
<1>7. SaveAlone' /\ SelectedExists'
  BY <1>1, <1>3 DEF SaveAlone, SelectedExists, AtWork, PageFollows
<1> QED BY <1>4, <1>5, <1>6, <1>7 DEF PrefsInv

LEMMA StatusKeeps == ASSUME PrefsInv, NEW isSetup \in BOOLEAN, StatusAnswered(isSetup) PROVE PrefsInv'
<1>1. PrefsTypes
  BY DEF PrefsInv
<1>2. view.at = "status" /\ UNCHANGED <<stored, sessions, issued, userToken>>
  BY DEF StatusAnswered
<1>3. sessions' \in SUBSET AllTokens /\ issued' \in Nat \ {0} /\ userToken' \in BrowserKeys
  BY <1>1, <1>2 DEF PrefsTypes
<1>4. ASSUME NEW page \in {"home", "setup", "login", "dashboard"}, Visit(page) PROVE PrefsInv'
  BY <1>2, <1>3, <1>4, VisitKeeps
<1>5. CASE HomeGoesOn \/ Visit("setup")
  <2>1. \E page \in {"home", "setup", "login", "dashboard"} : Visit(page)
    BY <1>5 DEF HomeGoesOn
  <2> QED BY <1>4, <2>1
<1>6. CASE LoginGoesOn
  BY <1>2, <1>6, StaysKeeps DEF LoginGoesOn, Stays, AtWork
<1>7. CASE view.page = "dashboard" /\ userToken = SignedOut /\ Visit("login")
  BY <1>4, <1>7
<1>8. CASE view.page = "dashboard" /\ userToken # SignedOut /\ Stays("me")
  BY <1>2, <1>8, StaysKeeps DEF Stays, AtWork
<1> QED BY <1>5, <1>6, <1>7, <1>8 DEF StatusAnswered, DashboardGoesOn

LEMMA NewTokenIs ==
    ASSUME PrefsTypes, NEW u \in Users, NewToken(u)
    PROVE  /\ sessions' \in SUBSET AllTokens /\ issued' \in Nat \ {0} /\ userToken' \in BrowserKeys
           /\ userToken'[1] = u
<1>1. issued + 1 \in 1 .. MaxTokens /\ sessions \in SUBSET AllTokens
  BY DEF PrefsTypes, NewToken
<1>2. <<u, issued + 1>> \in AllTokens /\ <<u, issued + 1>>[1] = u
  BY <1>1, KeyShape
<1> QED BY <1>1, <1>2 DEF NewToken, BrowserKeys

\* The pages up to the dashboard, and back.
LEMMA PagesKeep ==
    ASSUME PrefsInv,
           SubmitLogin \/ BootFails \/ HandleLogout \/ (\E u \in Users : SignedIn(u))
             \/ (\E yes \in BOOLEAN : LoginFails(yes) \/ LoggedOut(yes))
             \/ (\E page \in {"login", "dashboard"} : OpenPage(page))
    PROVE  PrefsInv'
<1>1. PrefsTypes /\ PageFollows
  BY DEF PrefsInv
<1>2. sessions \in SUBSET AllTokens /\ issued \in Nat \ {0} /\ userToken \in BrowserKeys /\ SignedOut \in BrowserKeys
  BY <1>1 DEF PrefsTypes, BrowserKeys
<1>3. CASE SubmitLogin
  BY <1>3, StaysKeeps DEF SubmitLogin, AtWork
<1>4. CASE HandleLogout
  BY <1>4, StaysKeeps DEF HandleLogout, AtWork, OnDashboard
<1>5. CASE BootFails
  BY <1>2, <1>5, VisitKeeps DEF BootFails
<1>6. ASSUME NEW u \in Users, SignedIn(u) PROVE PrefsInv'
  BY <1>1, <1>6, NewTokenIs, VisitKeeps DEF SignedIn
<1>7. ASSUME NEW yes \in BOOLEAN, LoggedOut(yes) PROVE PrefsInv'
  <2>1. sessions' \in SUBSET AllTokens
    BY <1>2, <1>7 DEF LoggedOut
  <2> QED BY <1>2, <1>7, <2>1, VisitKeeps DEF LoggedOut
<1>8. ASSUME NEW page \in {"login", "dashboard"}, OpenPage(page) PROVE PrefsInv'
  BY <1>2, <1>8, VisitKeeps DEF OpenPage
<1>9. ASSUME NEW yes \in BOOLEAN, LoginFails(yes) PROVE PrefsInv'
  <2>1. userToken' \in BrowserKeys
    BY <1>2, <1>9 DEF LoginFails
  <2>2. view' \in ViewTypes /\ view'.at = "form" /\ view'.page = view.page /\ view.at = "signing" /\ view \in ViewTypes
    BY <1>1, <1>9 DEF LoginFails, ViewTypes, PrefsTypes
  <2>3. UNCHANGED <<stored, sessions, issued, dash, saves, late, spoilt>>
    BY <1>9 DEF LoginFails
  <2>4. PrefsTypes'
    BY <1>1, <2>1, <2>2, <2>3 DEF PrefsTypes
  <2>5. PageFollows'
    BY <1>1, <2>2, <2>3 DEF PageFollows, AtWork
  <2>6. OneUser' /\ SaveAlone' /\ SelectedExists'
    BY <2>2, <2>3 DEF PrefsInv, OneUser, SaveAlone, SelectedExists, AtWork
  <2> QED BY <2>4, <2>5, <2>6 DEF PrefsInv
<1> QED BY <1>3, <1>4, <1>5, <1>6, <1>7, <1>8, <1>9

\* Other tabs, and time.
LEMMA OthersKeep ==
    ASSUME PrefsInv,
           (\E u \in Users : OtherTabSignsIn(u)) \/ OtherTabSignsOut \/ (\E t \in sessions : Expires(t))
    PROVE  PrefsInv'
<1>1. PrefsTypes /\ PageFollows /\ OneUser /\ SaveAlone /\ SelectedExists
  BY DEF PrefsInv
<1>2. CASE OtherTabSignsOut \/ \E t \in sessions : Expires(t)
  <2>1. /\ userToken' \in {userToken, SignedOut} /\ sessions' \subseteq sessions
        /\ UNCHANGED <<stored, issued, view, dash, saves, late, spoilt>>
    BY <1>2 DEF OtherTabSignsOut, Expires
  <2>2. PrefsTypes'
    BY <1>1, <2>1 DEF PrefsTypes, BrowserKeys
  <2>3. PageFollows' /\ SaveAlone' /\ SelectedExists'
    BY <1>1, <2>1 DEF PageFollows, SaveAlone, SelectedExists, AtWork
  <2>4. OneUser'
    BY <1>1, <2>1 DEF OneUser, Mine
  <2> QED BY <2>2, <2>3, <2>4 DEF PrefsInv
<1>3. ASSUME NEW u \in Users, OtherTabSignsIn(u) PROVE PrefsInv'
  <2>1. /\ sessions' \in SUBSET AllTokens /\ issued' \in Nat \ {0} /\ userToken' \in BrowserKeys
        /\ UNCHANGED <<stored, view, dash, saves, late>>
    BY <1>1, <1>3, NewTokenIs DEF OtherTabSignsIn
  <2> DEFINE what == IF view.page = "dashboard" THEN "mixed" ELSE "nothing"
  <2>2. /\ spoilt' \in Worst
        /\ spoilt' # "mixed" => spoilt # "mixed" /\ what # "mixed"
        /\ spoilt' \in {"nothing", "failed"} => spoilt \in {"nothing", "failed"}
        /\ spoilt' = "nothing" => spoilt = "nothing"
    <3>1. spoilt \in Worst /\ what \in Worst /\ Also(what)
      BY <1>1, <1>3 DEF PrefsTypes, Worst, OtherTabSignsIn
    <3> HIDE DEF what
    <3> QED BY <3>1, WorseIs
  <2>3. PrefsTypes'
    BY <1>1, <2>1, <2>2 DEF PrefsTypes
  <2>4. PageFollows'
    BY <1>1, <2>1 DEF PageFollows, AtWork
  <2>5. SaveAlone' /\ SelectedExists'
    BY <1>1, <2>1, <2>2 DEF SaveAlone, SelectedExists, AtWork
  <2>6. OneUser'
    BY <1>1, <2>1, <2>2 DEF OneUser, PageFollows
  <2> QED BY <2>3, <2>4, <2>5, <2>6 DEF PrefsInv
<1> QED BY <1>2, <1>3

\* The dashboard shows something else of the document it has.
LEMMA ShownKeeps ==
    ASSUME PrefsInv, AtWork, NEW d \in DashTypes, Shown(d), d.user = dash.user, d.prefs = dash.prefs,
           d.selected \in {dash.selected, None} \cup NamesOf(dash.prefs.saved)
    PROVE  PrefsInv'
<1>1. PrefsTypes /\ PageFollows /\ OneUser /\ SaveAlone /\ SelectedExists
  BY DEF PrefsInv
<1>2. dash' = d /\ UNCHANGED <<stored, sessions, issued, userToken, view, saves, late, spoilt>>
  BY DEF Shown
<1>3. PrefsTypes'
  BY <1>1, <1>2 DEF PrefsTypes
<1>4. PageFollows'
  BY <1>1, <1>2 DEF PageFollows, AtWork
<1>5. OneUser'
  BY <1>1, <1>2 DEF OneUser
<1>6. SaveAlone'
  BY <1>1, <1>2 DEF SaveAlone, AtWork
<1>7. SelectedExists'
  BY <1>1, <1>2 DEF SelectedExists
<1> QED BY <1>3, <1>4, <1>5, <1>6, <1>7 DEF PrefsInv

\* The dashboard shows a document and sends it: one that is sound, of nobody
\* else, and that has the presets it names.
LEMMA SavePrefsKeeps ==
    ASSUME PrefsInv, AtWork, NEW next \in SoundDocs, NEW pick \in Names \cup {None, Keep},
           SavePrefs(next, pick),
           Owned(dash.prefs, dash.user) => Owned(next, dash.user),
           HasDefault(dash.prefs) /\ dash.selected \in NamesOf(dash.prefs.saved) \cup {None} =>
               /\ HasDefault(next) /\ pick \in NamesOf(next.saved) \cup {None, Keep}
               /\ pick = Keep => dash.selected \in NamesOf(next.saved) \cup {None}
    PROVE  PrefsInv'
<1>1. PrefsTypes /\ PageFollows /\ OneUser /\ SaveAlone /\ SelectedExists
  BY DEF PrefsInv
<1> DEFINE what == IF saves = << >> THEN "nothing" ELSE "raced"
<1>2. /\ spoilt' \in Worst
      /\ spoilt' # "mixed" => spoilt # "mixed"
      /\ spoilt' \in {"nothing", "failed"} => spoilt \in {"nothing", "failed"} /\ saves = << >>
      /\ spoilt' = "nothing" => spoilt = "nothing" /\ saves = << >>
  <2>1. spoilt \in Worst /\ what \in Worst /\ Also(what)
    BY <1>1 DEF PrefsTypes, Worst, SavePrefs
  <2>2. what \in {"nothing", "failed"} => saves = << >>
    OBVIOUS
  <2> HIDE DEF what
  <2> QED BY <2>1, <2>2, WorseIs
<1> HIDE DEF what
<1>3. PICK s : s = [doc |-> next, previous |-> dash.prefs, key |-> userToken, selected |-> pick, done |-> FALSE]
  OBVIOUS
<1>4. dash \in DashTypes /\ dash.prefs \in SoundDocs /\ userToken \in BrowserKeys /\ saves \in Seq(PrefsSaveTypes)
  BY <1>1 DEF PrefsTypes, DashTypes
<1>5. s \in PrefsSaveTypes
  BY <1>3, <1>4 DEF PrefsSaveTypes
<1>6. /\ saves' = Append(saves, s) /\ dash' = [dash EXCEPT !.prefs = next]
      /\ UNCHANGED <<stored, sessions, issued, userToken, view, late>>
  BY <1>3 DEF SavePrefs
<1>7. /\ saves' \in Seq(PrefsSaveTypes) /\ saves' # << >>
      /\ DOMAIN saves' = (DOMAIN saves) \cup {Len(saves) + 1}
      /\ saves'[Len(saves) + 1] = s /\ \A i \in DOMAIN saves : saves'[i] = saves[i]
  BY <1>4, <1>5, <1>6
<1>8. /\ dash' \in DashTypes /\ dash'.user = dash.user /\ dash'.prefs = next /\ dash'.selected = dash.selected
  BY <1>4, <1>6 DEF DashTypes
<1>9. PrefsTypes'
  BY <1>1, <1>2, <1>6, <1>7, <1>8 DEF PrefsTypes
<1>10. PageFollows'
  BY <1>1, <1>6, <1>8 DEF PageFollows, AtWork
<1>11. view.at \in {"ready", "leaving"}
  BY DEF AtWork
<1>12. OneUser'
  <2> SUFFICES ASSUME spoilt' # "mixed" PROVE OneUser'
    BY DEF OneUser
  <2>1. /\ Owned(dash.prefs, dash.user) /\ Mine(userToken, dash.user)
        /\ \A i \in DOMAIN saves : /\ Owned(saves[i].doc, dash.user) /\ Owned(saves[i].previous, dash.user)
                                   /\ Mine(saves[i].key, dash.user)
    BY <1>1, <1>2, <1>11 DEF OneUser
  <2>2. Owned(next, dash.user)
    BY <2>1
  <2>3. Owned(s.doc, dash.user) /\ Owned(s.previous, dash.user) /\ Mine(s.key, dash.user)
    BY <1>3, <2>1, <2>2
  <2>4. \A i \in DOMAIN saves' : /\ Owned(saves'[i].doc, dash.user) /\ Owned(saves'[i].previous, dash.user)
                                 /\ Mine(saves'[i].key, dash.user)
    BY <1>7, <2>1, <2>3
  <2> QED BY <1>1, <1>2, <1>6, <1>8, <2>2, <2>4 DEF OneUser
<1>13. saves = << >> => Len(saves') = 1 /\ saves'[1] = s /\ DOMAIN saves' = {1}
  BY <1>6
<1>14. SaveAlone'
  <2> SUFFICES ASSUME spoilt' \in {"nothing", "failed"} PROVE SaveAlone'
    BY DEF SaveAlone
  <2>1. saves = << >> /\ late = {} /\ stored[dash.user] = dash.prefs
    BY <1>1, <1>2 DEF SaveAlone
  <2>2. s.doc = next /\ ~s.done /\ s.previous = dash.prefs
    BY <1>3
  <2> QED BY <1>6, <1>7, <1>8, <1>13, <2>1, <2>2 DEF SaveAlone, AtWork
<1>15. SelectedExists'
  <2> SUFFICES ASSUME spoilt' = "nothing" PROVE SelectedExists'
    BY DEF SelectedExists
  <2>1. /\ saves = << >> /\ HasDefault(dash.prefs) /\ dash.selected \in NamesOf(dash.prefs.saved) \cup {None}
        /\ \A u \in Users : HasDefault(stored[u])
    BY <1>1, <1>2 DEF SelectedExists
  <2>2. s.doc = next /\ s.previous = dash.prefs /\ s.selected = pick
    BY <1>3
  <2>3. \A i \in DOMAIN saves' : saves'[i] = s
    BY <1>13, <2>1
  <2>4. 1 \in DOMAIN saves'
    BY <1>13, <2>1
  <2> QED BY <1>6, <1>8, <2>1, <2>2, <2>3, <2>4 DEF SelectedExists
<1> QED BY <1>9, <1>10, <1>12, <1>14, <1>15 DEF PrefsInv

\* The presets that are left without some names, and one more.
LEMMA WithoutSome ==
    ASSUME dash \in DashTypes, NEW names
    PROVE  /\ Without(names) \in Seq(Presets) /\ Distinct(Without(names))
           /\ NamesOf(Without(names)) = NamesOf(dash.prefs.saved) \ names
           /\ Owned(dash.prefs, dash.user) => \A i \in DOMAIN Without(names) : Without(names)[i].by = dash.user
<1>1. PICK s : s = dash.prefs.saved
  OBVIOUS
<1>2. s \in Seq(Presets) /\ Distinct(s)
  BY <1>1 DEF DashTypes, SoundDocs, PrefsDocTypes
<1>3. Without(names) = Named(s, Names \ names)
  BY <1>1 DEF Without, prefs
<1>4. PICK others : others = Names \ names
  OBVIOUS
<1>5. PICK r : /\ r = Named(s, others)
               /\ r \in Seq(Presets) /\ Distinct(r) /\ NamesOf(r) = NamesOf(s) \cap others
               /\ \A i \in DOMAIN r : \E j \in DOMAIN s : r[i] = s[j]
  BY ONLY <1>2, NamedFacts
<1>6. NamesOf(s) \subseteq Names
  <2> SUFFICES ASSUME NEW i \in DOMAIN s PROVE s[i].name \in Names
    BY DEF NamesOf
  <2>1. s[i] \in Presets
    BY <1>2
  <2> QED BY <2>1 DEF Presets
<1>7. NamesOf(r) = NamesOf(s) \ names /\ r = Without(names)
  BY <1>3, <1>4, <1>5, <1>6
<1>8. Owned(dash.prefs, dash.user) => \A i \in DOMAIN r : r[i].by = dash.user
  BY <1>1, <1>5 DEF Owned
<1> QED BY <1>1, <1>5, <1>7, <1>8

LEMMA OneMore ==
    ASSUME NEW s \in Seq(Presets), Distinct(s), NEW p \in Presets, p.name \notin NamesOf(s)
    PROVE  /\ Append(s, p) \in Seq(Presets) /\ Distinct(Append(s, p))
           /\ NamesOf(Append(s, p)) = NamesOf(s) \cup {p.name}
           /\ \A u : p.by = u /\ (\A i \in DOMAIN s : s[i].by = u) =>
                       \A i \in DOMAIN Append(s, p) : Append(s, p)[i].by = u
<1>1. PICK q : q = Append(s, p)
  OBVIOUS
<1>2. /\ q \in Seq(Presets) /\ DOMAIN q = (DOMAIN s) \cup {Len(s) + 1} /\ q[Len(s) + 1] = p
      /\ \A i \in DOMAIN s : q[i] = s[i]
  BY <1>1
<1>3. Distinct(q)
  <2> SUFFICES ASSUME NEW i \in DOMAIN q, NEW j \in DOMAIN q, q[i].name = q[j].name PROVE i = j
    BY DEF Distinct
  <2>1. CASE i \in DOMAIN s /\ j \in DOMAIN s
    BY <1>2, <2>1 DEF Distinct
  <2>2. CASE i \notin DOMAIN s \/ j \notin DOMAIN s
    BY <1>2, <2>2 DEF NamesOf
  <2> QED BY <2>1, <2>2
<1>4. NamesOf(q) = NamesOf(s) \cup {p.name}
  BY <1>2 DEF NamesOf
<1>5. \A u : p.by = u /\ (\A i \in DOMAIN s : s[i].by = u) => \A i \in DOMAIN q : q[i].by = u
  BY <1>2
<1> QED BY <1>1, <1>2, <1>3, <1>4, <1>5

\* What is found has the name.
LEMMA Found ==
    ASSUME NEW d \in SoundDocs, NEW name, Find(d, name) # << >>
    PROVE  /\ Find(d, name)[1] \in Presets /\ name \in NamesOf(d.saved) /\ name \in Names
           /\ \A u : Owned(d, u) => Find(d, name)[1].by = u
<1>1. PICK s : s = d.saved
  OBVIOUS
<1>2. s \in Seq(Presets) /\ Distinct(s)
  BY <1>1 DEF SoundDocs, PrefsDocTypes
<1>3. PICK it : it = {name}
  OBVIOUS
<1>4. PICK r : /\ r = Named(s, it) /\ r \in Seq(Presets) /\ NamesOf(r) = NamesOf(s) \cap it
               /\ \A i \in DOMAIN r : \E j \in DOMAIN s : r[i] = s[j]
  BY ONLY <1>2, NamedFacts
<1>5. Find(d, name) = r
  BY <1>1, <1>3, <1>4 DEF Find
<1>6. 1 \in DOMAIN r /\ r[1] \in Presets
  BY <1>4, <1>5
<1>7. r[1].name \in NamesOf(r) /\ r[1].name \in Names
  BY <1>6 DEF NamesOf, Presets
<1>8. name \in NamesOf(s) /\ name \in Names
  BY <1>3, <1>4, <1>7
<1>9. \A u : Owned(d, u) => r[1].by = u
  BY <1>1, <1>4, <1>6 DEF Owned
<1> QED BY <1>1, <1>5, <1>6, <1>8, <1>9

\* Two widgets that change places, and one that is put elsewhere.
LEMMA Swapped ==
    ASSUME NEW o \in Seq(STRING), Whole(o), NEW i \in DOMAIN o, NEW j \in DOMAIN o
    PROVE  /\ [o EXCEPT ![i] = o[j], ![j] = o[i]] \in Seq(STRING)
           /\ Whole([o EXCEPT ![i] = o[j], ![j] = o[i]])
<1>1. PICK q : q = [[o EXCEPT ![i] = o[j]] EXCEPT ![j] = o[i]]
  OBVIOUS
<1>2. /\ q \in Seq(STRING) /\ Len(q) = Len(o) /\ DOMAIN q = DOMAIN o
      /\ \A k \in DOMAIN o : q[k] = IF k = j THEN o[i] ELSE IF k = i THEN o[j] ELSE o[k]
  BY <1>1
<1>3. Range(q) = Range(o)
  BY <1>2 DEF Range
<1>4. q = [o EXCEPT ![i] = o[j], ![j] = o[i]]
  BY <1>1
<1> QED BY <1>2, <1>3, <1>4 DEF Whole

LEMMA PutElsewhere ==
    ASSUME NEW o \in Seq(STRING), Whole(o), NEW i \in DOMAIN o, NEW j \in DOMAIN o
    PROVE  /\ InsertAt(RemoveAt(o, i), j, o[i]) \in Seq(STRING)
           /\ Whole(InsertAt(RemoveAt(o, i), j, o[i]))
<1>1. PICK r : r = RemoveAt(o, i)
  OBVIOUS
<1>2. /\ r \in Seq(STRING) /\ Len(r) = Len(o) - 1
      /\ \A k \in DOMAIN r : \E m \in DOMAIN o : m # i /\ r[k] = o[m]
      /\ \A m \in DOMAIN o : m # i => \E k \in DOMAIN r : r[k] = o[m]
  BY <1>1, OthersLeft
<1>3. j \in 1 .. Len(r) + 1 /\ o[i] \in STRING /\ Len(o) \in Nat
  <2>1. j \in 1 .. Len(o) /\ Len(o) \in Nat /\ o[i] \in STRING
    OBVIOUS
  <2> QED BY <1>2, <2>1
<1>4. PICK e \in STRING : e = o[i]
  BY <1>3
<1>5. PICK q : q = InsertAt(r, j, e)
  OBVIOUS
<1>6. q \in Seq(STRING) /\ Len(q) = Len(r) + 1 /\ Range(q) = Range(r) \cup {e}
  <2>1. j \in 1 .. Len(r) + 1 /\ r \in Seq(STRING) /\ e \in STRING
    BY <1>2, <1>3
  <2>2. /\ InsertAt(r, j, e) \in Seq(STRING) /\ Len(InsertAt(r, j, e)) = Len(r) + 1
        /\ Range(InsertAt(r, j, e)) = Range(r) \cup {e}
    BY <1>2, <2>1, InsertedAt
  <2> QED BY <1>5, <2>2
<1>7. Range(r) \cup {e} = Range(o)
  <2>1. ASSUME NEW k \in DOMAIN r PROVE r[k] \in Range(o)
    BY <1>2 DEF Range
  <2>2. ASSUME NEW m \in DOMAIN o PROVE o[m] \in Range(r) \cup {e}
    <3>1. CASE m = i
      BY <1>4, <3>1
    <3>2. CASE m # i
      <4>1. PICK k \in DOMAIN r : r[k] = o[m]
        BY <1>2, <3>2
      <4> QED BY <4>1 DEF Range
    <3> QED BY <3>1, <3>2
  <2>3. e \in Range(o)
    BY <1>4 DEF Range
  <2> QED BY <2>1, <2>2, <2>3 DEF Range
<1>8. Len(q) = Len(o)
  BY <1>2, <1>3, <1>6
<1> QED BY <1>1, <1>4, <1>5, <1>6, <1>7, <1>8 DEF Whole

\* What the dashboard holds, for the handlers below.
LEMMA HeldOfDash ==
    ASSUME dash \in DashTypes
    PROVE  /\ dash.prefs \in SoundDocs /\ dash.selected \in Names \cup {None} /\ dash.filter \in Filters
           /\ dash.user \in Users \cup {None}
           /\ dash.prefs.saved \in Seq(Presets) /\ Distinct(dash.prefs.saved)
           /\ NamesOf(dash.prefs.saved) \subseteq Names
           /\ dash.prefs.default \in Names \cup {None} /\ dash.prefs.filters \in Filters \cup {None}
           /\ dash.prefs.sizes \in Looks /\ dash.prefs.look \in Looks
           /\ dash.prefs.order \in Seq(STRING) /\ Whole(dash.prefs.order)
<1>1. /\ dash.prefs \in SoundDocs /\ dash.selected \in Names \cup {None} /\ dash.filter \in Filters
      /\ dash.user \in Users \cup {None}
  BY DEF DashTypes
<1>2. PICK d \in SoundDocs : d = dash.prefs
  BY <1>1
<1>3. /\ d.saved \in Seq(Presets) /\ Distinct(d.saved)
      /\ d.default \in Names \cup {None} /\ d.filters \in Filters \cup {None}
      /\ d.sizes \in Looks /\ d.look \in Looks
      /\ d.order \in Seq(STRING) /\ Whole(d.order)
  BY DEF SoundDocs, PrefsDocTypes
<1>4. NamesOf(d.saved) \subseteq Names
  <2> SUFFICES ASSUME NEW i \in DOMAIN d.saved PROVE d.saved[i].name \in Names
    BY DEF NamesOf
  <2>1. d.saved[i] \in Presets
    BY <1>3
  <2> QED BY <2>1 DEF Presets
<1> QED BY <1>1, <1>2, <1>3, <1>4

LEMMA ShowingKeeps ==
    ASSUME PrefsInv, AtWork,
           \/ \E f \in Filters : SetFilter(f) \/ ApplyInfoCardFilter(f)
           \/ \E n \in Names : ApplySavedFilter(n)
           \/ ClearFilters \/ LoadDefaultFilters
    PROVE  PrefsInv'
<1>1. dash \in DashTypes
  BY DEF PrefsInv, PrefsTypes
<1>2. "all" \in Filters
  BY PreferencesAssumption
<1>3. ASSUME NEW f \in Filters, NEW n \in {dash.selected, None} \cup NamesOf(dash.prefs.saved),
             Shown([dash EXCEPT !.selected = n, !.filter = f])
      PROVE  PrefsInv'
  <2>1. PICK d : d = [dash EXCEPT !.selected = n, !.filter = f]
    OBVIOUS
  <2>2. d \in DashTypes /\ d.user = dash.user /\ d.prefs = dash.prefs /\ d.selected = n
    BY <1>1, <2>1, HeldOfDash DEF DashTypes
  <2> QED BY <1>3, <2>1, <2>2, ShownKeeps
<1>4. ASSUME NEW f \in Filters, Shown([dash EXCEPT !.filter = f]) PROVE PrefsInv'
  <2>1. PICK d : d = [dash EXCEPT !.filter = f]
    OBVIOUS
  <2>2. d \in DashTypes /\ d.user = dash.user /\ d.prefs = dash.prefs /\ d.selected = dash.selected
    BY <1>1, <2>1 DEF DashTypes
  <2> QED BY <1>4, <2>1, <2>2, ShownKeeps
<1>5. ASSUME NEW f \in Filters, SetFilter(f) PROVE PrefsInv'
  BY <1>4, <1>5 DEF SetFilter
<1>6. ASSUME NEW f \in Filters, Shown([dash EXCEPT !.filter = f, !.selected = None]) PROVE PrefsInv'
  <2>1. [dash EXCEPT !.filter = f, !.selected = None] = [dash EXCEPT !.selected = None, !.filter = f]
    BY <1>1 DEF DashTypes
  <2> QED BY <1>3, <1>6, <2>1
<1>7. ASSUME NEW n \in Names, ApplySavedFilter(n) PROVE PrefsInv'
  <2>1. Find(dash.prefs, n)[1] \in Presets /\ n \in NamesOf(dash.prefs.saved)
    BY <1>1, <1>7, HeldOfDash, Found DEF ApplySavedFilter, prefs
  <2>2. Find(dash.prefs, n)[1].filter \in Filters
    BY <2>1 DEF Presets
  <2> QED BY <1>3, <1>7, <2>1, <2>2 DEF ApplySavedFilter, prefs
<1>8. CASE LoadDefaultFilters
  <2>1. (IF dash.prefs.filters = None THEN "all" ELSE dash.prefs.filters) \in Filters
    BY <1>1, <1>2, HeldOfDash
  <2> QED BY <1>4, <1>8, <2>1 DEF LoadDefaultFilters, prefs
<1> QED BY <1>2, <1>5, <1>6, <1>7, <1>8 DEF ApplyInfoCardFilter, ClearFilters

\* A document whose presets stay.
LEMMA RestMade ==
    ASSUME NEW d \in SoundDocs, NEW o \in Seq(STRING), Whole(o), NEW s \in Looks, NEW l \in Looks,
           NEW f \in Filters \cup {None}, NEW r,
           r = [saved |-> d.saved, default |-> d.default, order |-> o, sizes |-> s, look |-> l, filters |-> f]
    PROVE  /\ r \in SoundDocs /\ r.saved = d.saved
           /\ \A u : Owned(d, u) => Owned(r, u)
           /\ HasDefault(d) => HasDefault(r)
BY DEF SoundDocs, PrefsDocTypes, Owned, HasDefault

LEMMA RestKeeps ==
    ASSUME PrefsInv, AtWork, NEW o \in Seq(STRING), Whole(o), NEW s \in Looks, NEW l \in Looks,
           NEW f \in Filters \cup {None}, NEW r,
           r = [saved |-> dash.prefs.saved, default |-> dash.prefs.default, order |-> o, sizes |-> s, look |-> l,
                filters |-> f],
           SavePrefs(r, Keep)
    PROVE  PrefsInv'
<1>1. dash \in DashTypes
  BY DEF PrefsInv, PrefsTypes
<1>2. dash.prefs \in SoundDocs
  BY <1>1, HeldOfDash
<1>3. PICK d \in SoundDocs : d = dash.prefs
  BY <1>2
<1>4. r = [saved |-> d.saved, default |-> d.default, order |-> o, sizes |-> s, look |-> l, filters |-> f]
  BY <1>3
<1>5. r \in SoundDocs /\ r.saved = d.saved /\ (\A u : Owned(d, u) => Owned(r, u)) /\ (HasDefault(d) => HasDefault(r))
  BY <1>4, RestMade
<1>6. NamesOf(r.saved) = NamesOf(dash.prefs.saved)
  BY <1>3, <1>5
<1> QED BY <1>3, <1>5, <1>6, SavePrefsKeeps

LEMMA DocIs ==
    ASSUME NEW d \in SoundDocs
    PROVE  /\ d \in [saved : Seq(Presets), default : Names \cup {None}, order : Seq(STRING), sizes : Looks,
                     look : Looks, filters : Filters \cup {None}]
BY DEF SoundDocs, PrefsDocTypes

LEMMA LayoutKeeps ==
    ASSUME PrefsInv, AtWork,
           \/ \E i, j \in DOMAIN prefs.order : MoveWidget(i, j) \/ ReorderWidgets(i, j)
           \/ \E c \in {"default", "own"} : HandleWidgetSizeStep(c) \/ ChangeLook(c)
           \/ SaveDefaultFiltersFromCurrent \/ ResetWidgetLayout
    PROVE  PrefsInv'
<1>1. dash \in DashTypes
  BY DEF PrefsInv, PrefsTypes
<1>2. PICK d : d = dash.prefs
  OBVIOUS
<1>3. /\ d \in SoundDocs /\ d.order \in Seq(STRING) /\ Whole(d.order) /\ d.sizes \in Looks /\ d.look \in Looks
      /\ d.filters \in Filters \cup {None} /\ dash.filter \in Filters
  BY <1>1, <1>2, HeldOfDash
<1>4. /\ d \in [saved : Seq(Presets), default : Names \cup {None}, order : Seq(STRING), sizes : Looks,
                look : Looks, filters : Filters \cup {None}]
  BY <1>3, DocIs
<1>5. ASSUME NEW o \in Seq(STRING), Whole(o), SavePrefs([d EXCEPT !.order = o], Keep) PROVE PrefsInv'
  <2>1. [d EXCEPT !.order = o] = [saved |-> d.saved, default |-> d.default, order |-> o, sizes |-> d.sizes,
                                  look |-> d.look, filters |-> d.filters]
    BY <1>4
  <2>2. PICK r : r = [d EXCEPT !.order = o]
    OBVIOUS
  <2>3. SavePrefs(r, Keep) /\ r = [saved |-> dash.prefs.saved, default |-> dash.prefs.default, order |-> o,
                                   sizes |-> d.sizes, look |-> d.look, filters |-> d.filters]
    BY <1>2, <1>5, <2>1, <2>2
  <2> QED BY <1>3, <1>5, <2>3, RestKeeps
<1>6. ASSUME NEW i \in DOMAIN d.order, NEW j \in DOMAIN d.order, MoveWidget(i, j) \/ ReorderWidgets(i, j)
      PROVE  PrefsInv'
  <2>1. CASE MoveWidget(i, j)
    <3>1. PICK o : o = [d.order EXCEPT ![i] = d.order[j], ![j] = d.order[i]]
      OBVIOUS
    <3>2. o \in Seq(STRING) /\ Whole(o)
      BY <1>3, <3>1, Swapped
    <3>3. SavePrefs([d EXCEPT !.order = o], Keep)
      BY <1>2, <2>1, <3>1 DEF MoveWidget, prefs
    <3> QED BY <1>5, <3>2, <3>3
  <2>2. CASE ReorderWidgets(i, j)
    <3>1. PICK o : o = InsertAt(RemoveAt(d.order, i), j, d.order[i])
      OBVIOUS
    <3>2. o \in Seq(STRING) /\ Whole(o)
      BY <1>3, <3>1, PutElsewhere
    <3>3. SavePrefs([d EXCEPT !.order = o], Keep)
      BY <1>2, <2>2, <3>1 DEF ReorderWidgets, prefs
    <3> QED BY <1>5, <3>2, <3>3
  <2> QED BY <1>6, <2>1, <2>2
<1>7. ASSUME NEW c \in {"default", "own"}, HandleWidgetSizeStep(c) PROVE PrefsInv'
  <2>1. [d EXCEPT !.sizes = c] = [saved |-> d.saved, default |-> d.default, order |-> d.order, sizes |-> c,
                                  look |-> d.look, filters |-> d.filters]
    BY <1>4
  <2>2. SavePrefs([d EXCEPT !.sizes = c], Keep) /\ c \in Looks
    BY <1>2, <1>7 DEF HandleWidgetSizeStep, prefs, Looks
  <2> QED BY <1>2, <1>3, <2>1, <2>2, RestKeeps
<1>8. ASSUME NEW c \in {"default", "own"}, ChangeLook(c) PROVE PrefsInv'
  <2>1. [d EXCEPT !.look = c] = [saved |-> d.saved, default |-> d.default, order |-> d.order, sizes |-> d.sizes,
                                  look |-> c, filters |-> d.filters]
    BY <1>4
  <2>2. SavePrefs([d EXCEPT !.look = c], Keep) /\ c \in Looks
    BY <1>2, <1>8 DEF ChangeLook, prefs, Looks
  <2> QED BY <1>2, <1>3, <2>1, <2>2, RestKeeps
<1>9. CASE SaveDefaultFiltersFromCurrent
  <2>1. [d EXCEPT !.filters = dash.filter] =
          [saved |-> d.saved, default |-> d.default, order |-> d.order, sizes |-> d.sizes,
           look |-> d.look, filters |-> dash.filter]
    BY <1>4
  <2>2. SavePrefs([d EXCEPT !.filters = dash.filter], Keep)
    BY <1>2, <1>9 DEF SaveDefaultFiltersFromCurrent, prefs
  <2> QED BY <1>2, <1>3, <2>1, <2>2, RestKeeps
<1>10. CASE ResetWidgetLayout
  <2>1. [d EXCEPT !.order = Widgets, !.sizes = "default"] =
          [saved |-> d.saved, default |-> d.default, order |-> Widgets, sizes |-> "default",
           look |-> d.look, filters |-> d.filters]
    <3>1. [d EXCEPT !.order = Widgets, !.sizes = "default"] = [[d EXCEPT !.order = Widgets] EXCEPT !.sizes = "default"]
      OBVIOUS
    <3>2. PICK x : x = [d EXCEPT !.order = Widgets]
      OBVIOUS
    <3>3. x = [saved |-> d.saved, default |-> d.default, order |-> Widgets, sizes |-> d.sizes,
               look |-> d.look, filters |-> d.filters]
      BY <1>4, <3>2
    <3>4. [x EXCEPT !.sizes = "default"] =
            [saved |-> d.saved, default |-> d.default, order |-> Widgets, sizes |-> "default",
             look |-> d.look, filters |-> d.filters]
      BY <3>3
    <3> QED BY ONLY <3>1, <3>2, <3>4
  <2>2. SavePrefs([d EXCEPT !.order = Widgets, !.sizes = "default"], Keep)
    BY <1>2, <1>10 DEF ResetWidgetLayout, prefs
  <2>3. Widgets \in Seq(STRING) /\ Whole(Widgets) /\ "default" \in Looks
    BY PreferencesAssumption DEF Whole, Looks
  <2> QED BY <1>2, <1>3, <2>1, <2>2, <2>3, RestKeeps
<1> QED BY <1>2, <1>6, <1>7, <1>8, <1>9, <1>10 DEF prefs

\* A document with other presets, which are nobody else's.
LEMMA PresetsKeep ==
    ASSUME PrefsInv, AtWork, NEW s \in Seq(Presets), Distinct(s), NEW e \in Names \cup {None}, NEW r,
           r = [saved |-> s, default |-> e, order |-> dash.prefs.order, sizes |-> dash.prefs.sizes,
                look |-> dash.prefs.look, filters |-> dash.prefs.filters],
           NEW pick \in Names \cup {None, Keep}, SavePrefs(r, pick),
           Owned(dash.prefs, dash.user) => \A i \in DOMAIN s : s[i].by = dash.user,
           HasDefault(dash.prefs) /\ dash.selected \in NamesOf(dash.prefs.saved) \cup {None} =>
               /\ e \in NamesOf(s) \cup {None} /\ pick \in NamesOf(s) \cup {None, Keep}
               /\ pick = Keep => dash.selected \in NamesOf(s) \cup {None}
    PROVE  PrefsInv'
<1>1. dash \in DashTypes
  BY DEF PrefsInv, PrefsTypes
<1>2. PICK d \in SoundDocs : d = dash.prefs
  BY <1>1, HeldOfDash
<1>3. /\ d.order \in Seq(STRING) /\ Whole(d.order) /\ d.sizes \in Looks /\ d.look \in Looks
      /\ d.filters \in Filters \cup {None}
  BY <1>1, <1>2, HeldOfDash
<1>4. /\ r = [saved |-> s, default |-> e, order |-> d.order, sizes |-> d.sizes, look |-> d.look,
              filters |-> d.filters]
  BY <1>2
<1>5. r \in SoundDocs /\ r.saved = s /\ r.default = e /\ r.order = d.order
  BY <1>3, <1>4 DEF SoundDocs, PrefsDocTypes
<1>6. \A u : Owned(r, u) <=> \A i \in DOMAIN s : s[i].by = u
  BY <1>5 DEF Owned
<1>7. HasDefault(r) <=> e \in NamesOf(s) \cup {None}
  BY <1>5 DEF HasDefault
<1> QED BY <1>5, <1>6, <1>7, SavePrefsKeeps

\* A document with other presets and, it may be, another to begin with.
LEMMA PresetsMade ==
    ASSUME NEW d \in SoundDocs, NEW s, NEW e
    PROVE  /\ [d EXCEPT !.saved = s] =
                [saved |-> s, default |-> d.default, order |-> d.order, sizes |-> d.sizes, look |-> d.look,
                 filters |-> d.filters]
           /\ [d EXCEPT !.default = e] =
                [saved |-> d.saved, default |-> e, order |-> d.order, sizes |-> d.sizes, look |-> d.look,
                 filters |-> d.filters]
           /\ [d EXCEPT !.saved = s, !.default = e] =
                [saved |-> s, default |-> e, order |-> d.order, sizes |-> d.sizes, look |-> d.look,
                 filters |-> d.filters]
<1>1. /\ d \in [saved : Seq(Presets), default : Names \cup {None}, order : Seq(STRING), sizes : Looks,
                look : Looks, filters : Filters \cup {None}]
  BY DocIs
<1>2. PICK x : x = [d EXCEPT !.saved = s]
  OBVIOUS
<1>3. x = [saved |-> s, default |-> d.default, order |-> d.order, sizes |-> d.sizes, look |-> d.look,
           filters |-> d.filters]
  BY <1>1, <1>2
<1>4. [x EXCEPT !.default = e] =
        [saved |-> s, default |-> e, order |-> d.order, sizes |-> d.sizes, look |-> d.look, filters |-> d.filters]
  BY <1>3
<1>5. [d EXCEPT !.saved = s, !.default = e] = [[d EXCEPT !.saved = s] EXCEPT !.default = e]
  OBVIOUS
<1>6. [d EXCEPT !.default = e] =
        [saved |-> d.saved, default |-> e, order |-> d.order, sizes |-> d.sizes, look |-> d.look,
         filters |-> d.filters]
  BY <1>1
<1>7. [d EXCEPT !.saved = s, !.default = e] = [x EXCEPT !.default = e]
  BY ONLY <1>2, <1>5
<1>8. [d EXCEPT !.saved = s, !.default = e] =
        [saved |-> s, default |-> e, order |-> d.order, sizes |-> d.sizes, look |-> d.look, filters |-> d.filters]
  BY ONLY <1>4, <1>7
<1> QED BY ONLY <1>2, <1>3, <1>6, <1>8

LEMMA AddKeeps ==
    ASSUME PrefsInv, AtWork, NEW name \in Names, AddCurrentFilterToSaved(name)
    PROVE  PrefsInv'
<1>1. dash \in DashTypes /\ dash.user \in Users
  BY DEF PrefsInv, PrefsTypes, PageFollows, AtWork
<1>2. PICK d \in SoundDocs : d = dash.prefs
  BY <1>1, HeldOfDash
<1>3. PICK w : w = Without({name})
  OBVIOUS
<1>4. /\ w \in Seq(Presets) /\ Distinct(w) /\ NamesOf(w) = NamesOf(d.saved) \ {name}
      /\ Owned(d, dash.user) => \A i \in DOMAIN w : w[i].by = dash.user
  BY <1>1, <1>2, <1>3, WithoutSome
<1>5. PICK p : p = BuildPreset(name)
  OBVIOUS
<1>6. p \in Presets /\ p.name = name /\ p.by = dash.user
  BY <1>1, <1>5, HeldOfDash DEF BuildPreset, Presets
<1>7. PICK s : s = Append(w, p)
  OBVIOUS
<1>8. /\ s \in Seq(Presets) /\ Distinct(s) /\ NamesOf(s) = NamesOf(w) \cup {name}
      /\ (\A i \in DOMAIN w : w[i].by = dash.user) => \A i \in DOMAIN s : s[i].by = dash.user
  BY <1>4, <1>6, <1>7, OneMore
<1>9. SavePrefs([d EXCEPT !.saved = s], name)
  BY <1>2, <1>3, <1>5, <1>7 DEF AddCurrentFilterToSaved, prefs
<1>10. PICK r : r = [d EXCEPT !.saved = s]
  OBVIOUS
<1>11. r = [saved |-> s, default |-> d.default, order |-> d.order, sizes |-> d.sizes, look |-> d.look,
            filters |-> d.filters]
  BY <1>10, PresetsMade
<1>12. d.default \in Names \cup {None}
  BY <1>1, <1>2, HeldOfDash
<1>13. Owned(d, dash.user) => \A i \in DOMAIN s : s[i].by = dash.user
  BY <1>4, <1>8
<1>14. HasDefault(d) => d.default \in NamesOf(s) \cup {None}
  BY <1>4, <1>8 DEF HasDefault
<1>15. name \in NamesOf(s) /\ name # Keep
  BY <1>8, PreferencesAssumption DEF Keep
<1>16. PICK e \in Names \cup {None} : e = d.default
  BY <1>12
<1>17. r = [saved |-> s, default |-> e, order |-> dash.prefs.order, sizes |-> dash.prefs.sizes,
            look |-> dash.prefs.look, filters |-> dash.prefs.filters]
  BY <1>2, <1>11, <1>16
<1>18. SavePrefs(r, name)
  BY <1>9, <1>10
<1>19. Owned(dash.prefs, dash.user) => \A i \in DOMAIN s : s[i].by = dash.user
  BY <1>2, <1>13
<1>20. HasDefault(dash.prefs) /\ dash.selected \in NamesOf(dash.prefs.saved) \cup {None} =>
         /\ e \in NamesOf(s) \cup {None} /\ name \in NamesOf(s) \cup {None, Keep}
         /\ name = Keep => dash.selected \in NamesOf(s) \cup {None}
  BY <1>2, <1>14, <1>15, <1>16
<1> QED BY <1>8, <1>17, <1>18, <1>19, <1>20, PresetsKeep

LEMMA RenameKeeps ==
    ASSUME PrefsInv, AtWork, NEW old \in Names, NEW new \in Names, RenameSavedFilter(old, new)
    PROVE  PrefsInv'
<1>1. dash \in DashTypes /\ dash.user \in Users
  BY DEF PrefsInv, PrefsTypes, PageFollows, AtWork
<1>2. PICK d \in SoundDocs : d = dash.prefs
  BY <1>1, HeldOfDash
<1>3. PICK w : w = Without({old, new})
  OBVIOUS
<1>4. /\ w \in Seq(Presets) /\ Distinct(w) /\ NamesOf(w) = NamesOf(d.saved) \ {old, new}
      /\ Owned(d, dash.user) => \A i \in DOMAIN w : w[i].by = dash.user
  BY <1>1, <1>2, <1>3, WithoutSome
<1>5. PICK f : f = Find(d, old)[1]
  OBVIOUS
<1>6. f \in Presets /\ old \in NamesOf(d.saved) /\ (Owned(d, dash.user) => f.by = dash.user)
  BY <1>2, <1>5, Found DEF RenameSavedFilter, prefs
<1>7. PICK p : p = [f EXCEPT !.name = new]
  OBVIOUS
<1>8. p \in Presets /\ p.name = new /\ p.by = f.by
  BY <1>6, <1>7 DEF Presets
<1>9. PICK s : s = Append(w, p)
  OBVIOUS
<1>10. /\ s \in Seq(Presets) /\ Distinct(s) /\ NamesOf(s) = NamesOf(w) \cup {new}
       /\ f.by = dash.user /\ (\A i \in DOMAIN w : w[i].by = dash.user) => \A i \in DOMAIN s : s[i].by = dash.user
  BY <1>4, <1>8, <1>9, OneMore
<1>11. PICK e : e = IF d.default = old THEN new ELSE d.default
  OBVIOUS
<1>12. PICK pick : pick = IF dash.selected = old THEN new ELSE Keep
  OBVIOUS
<1>13. SavePrefs([d EXCEPT !.saved = s, !.default = e], pick)
  BY <1>2, <1>3, <1>5, <1>7, <1>9, <1>11, <1>12 DEF RenameSavedFilter, prefs
<1>14. PICK r : r = [d EXCEPT !.saved = s, !.default = e]
  OBVIOUS
<1>15. r = [saved |-> s, default |-> e, order |-> d.order, sizes |-> d.sizes, look |-> d.look,
            filters |-> d.filters]
  BY <1>14, PresetsMade
<1>16. e \in Names \cup {None} /\ pick \in Names \cup {None, Keep}
  BY <1>1, <1>2, <1>11, <1>12, HeldOfDash
<1>17. Owned(d, dash.user) => \A i \in DOMAIN s : s[i].by = dash.user
  BY <1>4, <1>6, <1>10
<1>18. HasDefault(d) => e \in NamesOf(s) \cup {None}
  BY <1>4, <1>10, <1>11 DEF HasDefault
<1>19. dash.selected \in NamesOf(d.saved) \cup {None} =>
         /\ pick \in NamesOf(s) \cup {None, Keep}
         /\ pick = Keep => dash.selected \in NamesOf(s) \cup {None}
  <2>1. new # Keep
    BY PreferencesAssumption DEF Keep
  <2> QED BY <1>4, <1>10, <1>12, <2>1
<1>20. r = [saved |-> s, default |-> e, order |-> dash.prefs.order, sizes |-> dash.prefs.sizes,
            look |-> dash.prefs.look, filters |-> dash.prefs.filters]
  BY <1>2, <1>15
<1>21. SavePrefs(r, pick)
  BY <1>13, <1>14
<1>22. Owned(dash.prefs, dash.user) => \A i \in DOMAIN s : s[i].by = dash.user
  BY <1>2, <1>17
<1>23. HasDefault(dash.prefs) /\ dash.selected \in NamesOf(dash.prefs.saved) \cup {None} =>
         /\ e \in NamesOf(s) \cup {None} /\ pick \in NamesOf(s) \cup {None, Keep}
         /\ pick = Keep => dash.selected \in NamesOf(s) \cup {None}
  BY <1>2, <1>18, <1>19
<1> QED BY <1>10, <1>16, <1>20, <1>21, <1>22, <1>23, PresetsKeep

LEMMA RemoveKeeps ==
    ASSUME PrefsInv, AtWork, NEW name \in Names, RemoveSavedFilter(name)
    PROVE  PrefsInv'
<1>1. dash \in DashTypes
  BY DEF PrefsInv, PrefsTypes
<1>2. PICK d \in SoundDocs : d = dash.prefs
  BY <1>1, HeldOfDash
<1>3. PICK s : s = Without({name})
  OBVIOUS
<1>4. /\ s \in Seq(Presets) /\ Distinct(s) /\ NamesOf(s) = NamesOf(d.saved) \ {name}
      /\ Owned(d, dash.user) => \A i \in DOMAIN s : s[i].by = dash.user
  BY <1>1, <1>2, <1>3, WithoutSome
<1>5. PICK e : e = IF d.default = name THEN None ELSE d.default
  OBVIOUS
<1>6. PICK pick : pick = IF dash.selected = name THEN None ELSE Keep
  OBVIOUS
<1>7. SavePrefs([d EXCEPT !.saved = s, !.default = e], pick)
  BY <1>2, <1>3, <1>5, <1>6 DEF RemoveSavedFilter, prefs
<1>8. PICK r : r = [d EXCEPT !.saved = s, !.default = e]
  OBVIOUS
<1>9. r = [saved |-> s, default |-> e, order |-> d.order, sizes |-> d.sizes, look |-> d.look,
           filters |-> d.filters]
  BY <1>8, PresetsMade
<1>10. e \in Names \cup {None} /\ pick \in Names \cup {None, Keep}
  BY <1>1, <1>2, <1>5, <1>6, HeldOfDash
<1>11. HasDefault(d) => e \in NamesOf(s) \cup {None}
  BY <1>4, <1>5 DEF HasDefault
<1>12. dash.selected \in NamesOf(d.saved) \cup {None} =>
         /\ pick \in NamesOf(s) \cup {None, Keep}
         /\ pick = Keep => dash.selected \in NamesOf(s) \cup {None}
  BY <1>4, <1>6 DEF Keep, None
<1>13. r = [saved |-> s, default |-> e, order |-> dash.prefs.order, sizes |-> dash.prefs.sizes,
            look |-> dash.prefs.look, filters |-> dash.prefs.filters]
  BY <1>2, <1>9
<1>14. SavePrefs(r, pick)
  BY <1>7, <1>8
<1>15. Owned(dash.prefs, dash.user) => \A i \in DOMAIN s : s[i].by = dash.user
  BY <1>2, <1>4
<1>16. HasDefault(dash.prefs) /\ dash.selected \in NamesOf(dash.prefs.saved) \cup {None} =>
         /\ e \in NamesOf(s) \cup {None} /\ pick \in NamesOf(s) \cup {None, Keep}
         /\ pick = Keep => dash.selected \in NamesOf(s) \cup {None}
  BY <1>2, <1>11, <1>12
<1> QED BY <1>4, <1>10, <1>13, <1>14, <1>15, <1>16, PresetsKeep

LEMMA SetDefaultKeeps ==
    ASSUME PrefsInv, AtWork, NEW name \in Names, SetDefaultSavedFilter(name)
    PROVE  PrefsInv'
<1>1. dash \in DashTypes
  BY DEF PrefsInv, PrefsTypes
<1>2. PICK d \in SoundDocs : d = dash.prefs
  BY <1>1, HeldOfDash
<1>3. d.saved \in Seq(Presets) /\ Distinct(d.saved)
  BY <1>1, <1>2, HeldOfDash
<1>4. PICK r : r = [d EXCEPT !.default = name]
  OBVIOUS
<1>5. SavePrefs(r, Keep)
  BY <1>2, <1>4 DEF SetDefaultSavedFilter, prefs
<1>6. r = [saved |-> d.saved, default |-> name, order |-> d.order, sizes |-> d.sizes, look |-> d.look,
           filters |-> d.filters]
  BY <1>4, PresetsMade
<1>7. dash.selected \in NamesOf(d.saved) \cup {None} => name \in NamesOf(d.saved)
  <2>1. name # None
    BY PreferencesAssumption DEF None
  <2>2. CASE name = dash.selected
    BY <2>1, <2>2
  <2>3. CASE Find(d, name) # << >>
    BY <2>3, Found
  <2> QED BY <1>2, <2>2, <2>3 DEF SetDefaultSavedFilter, prefs
<1>8. Owned(d, dash.user) => \A i \in DOMAIN d.saved : d.saved[i].by = dash.user
  BY DEF Owned
<1> QED BY <1>2, <1>3, <1>5, <1>6, <1>7, <1>8, PresetsKeep

LEMMA EditsKeep == ASSUME PrefsInv, AtWork, Edits PROVE PrefsInv'
BY ShowingKeeps, LayoutKeeps, AddKeeps, RenameKeeps, RemoveKeeps, SetDefaultKeeps DEF Edits

LEMMA PrefsSaveShape ==
    ASSUME PrefsInv, NEW i \in DOMAIN saves
    PROVE  /\ saves[i] \in PrefsSaveTypes /\ AtWork /\ dash.user \in Users /\ saves # << >>
           /\ spoilt \in {"nothing", "failed"} => i = 1 /\ DOMAIN saves = {1} /\ Len(saves) = 1
<1>1. PrefsTypes /\ PageFollows /\ SaveAlone
  BY DEF PrefsInv
<1>2. saves \in Seq(PrefsSaveTypes)
  BY <1>1 DEF PrefsTypes
<1>3. saves[i] \in PrefsSaveTypes /\ saves # << >> /\ i \in 1 .. Len(saves) /\ Len(saves) \in Nat /\ DOMAIN saves = 1 .. Len(saves)
  BY <1>2
<1>4. AtWork /\ dash.user \in Users
  BY <1>1, <1>3 DEF PageFollows, AtWork
<1>5. spoilt \in {"nothing", "failed"} => Len(saves) <= 1
  BY <1>1 DEF SaveAlone
<1>6. Len(saves) <= 1 => i = 1 /\ DOMAIN saves = {1} /\ Len(saves) = 1
  <2> SUFFICES ASSUME Len(saves) <= 1 PROVE i = 1 /\ DOMAIN saves = {1} /\ Len(saves) = 1
    OBVIOUS
  <2>1. Len(saves) = 1 /\ i = 1
    BY <1>3
  <2>2. 1 .. 1 = {1}
    OBVIOUS
  <2> QED BY <1>3, <2>1, <2>2
<1> QED BY <1>3, <1>4, <1>5, <1>6

LEMMA SaveStoredKeeps == ASSUME PrefsInv, NEW i \in DOMAIN saves, SaveStored(i) PROVE PrefsInv'
<1>1. PrefsTypes /\ PageFollows /\ OneUser /\ SaveAlone /\ SelectedExists
  BY DEF PrefsInv
<1>2. /\ saves[i] \in PrefsSaveTypes /\ AtWork /\ dash.user \in Users /\ saves # << >>
      /\ spoilt \in {"nothing", "failed"} => i = 1 /\ DOMAIN saves = {1} /\ Len(saves) = 1
  BY PrefsSaveShape
<1>3. PICK s : s = saves[i]
  OBVIOUS
<1>4. /\ ~s.done /\ s.key \in sessions /\ stored' = [stored EXCEPT ![s.key[1]] = s.doc]
      /\ saves' = [saves EXCEPT ![i].done = TRUE]
      /\ UNCHANGED <<sessions, issued, userToken, view, dash, late, spoilt>>
  BY <1>3 DEF SaveStored
<1>5. s \in PrefsSaveTypes /\ s.doc \in SoundDocs /\ s.key \in AllTokens
  BY <1>1, <1>2, <1>3, <1>4 DEF PrefsSaveTypes, PrefsTypes
<1>6. s.key[1] \in Users /\ s.key # SignedOut
  BY <1>5, KeyShape
<1>7. /\ stored' \in [Users -> SoundDocs]
      /\ stored'[s.key[1]] = s.doc /\ \A u \in Users : u # s.key[1] => stored'[u] = stored[u]
  BY <1>1, <1>4, <1>5, <1>6 DEF PrefsTypes
<1>8. PICK n : n = [s EXCEPT !.done = TRUE]
  OBVIOUS
<1>9. /\ n \in PrefsSaveTypes /\ n.doc = s.doc /\ n.previous = s.previous /\ n.key = s.key /\ n.selected = s.selected
      /\ n.done
  BY <1>5, <1>8 DEF PrefsSaveTypes
<1>10. saves' = [saves EXCEPT ![i] = n]
  BY <1>3, <1>4, <1>8
<1>11. /\ saves' \in Seq(PrefsSaveTypes) /\ DOMAIN saves' = DOMAIN saves /\ Len(saves') = Len(saves) /\ saves' # << >>
       /\ saves'[i] = n /\ \A j \in DOMAIN saves : j # i => saves'[j] = saves[j]
  BY <1>1, <1>2, <1>9, <1>10 DEF PrefsTypes
<1>12. PrefsTypes'
  BY <1>1, <1>4, <1>7, <1>11 DEF PrefsTypes
<1>13. PageFollows'
  BY <1>1, <1>2, <1>4 DEF PageFollows, AtWork
<1>14. OneUser'
  <2> SUFFICES ASSUME spoilt # "mixed" PROVE OneUser'
    BY <1>4 DEF OneUser
  <2>1. Owned(s.doc, dash.user) /\ Owned(s.previous, dash.user) /\ Mine(s.key, dash.user)
    BY <1>1, <1>3 DEF OneUser
  <2>2. s.key[1] = dash.user
    BY <1>6, <2>1 DEF Mine
  <2>3. \A u \in Users : Owned(stored'[u], u)
    BY <1>1, <1>7, <2>1, <2>2 DEF OneUser
  <2>4. \A j \in DOMAIN saves' : /\ Owned(saves'[j].doc, dash.user) /\ Owned(saves'[j].previous, dash.user)
                                 /\ Mine(saves'[j].key, dash.user)
    <3> SUFFICES ASSUME NEW j \in DOMAIN saves
                 PROVE  /\ Owned(saves'[j].doc, dash.user) /\ Owned(saves'[j].previous, dash.user)
                        /\ Mine(saves'[j].key, dash.user)
      BY <1>11
    <3>1. CASE j = i
      BY <1>9, <1>11, <2>1, <3>1
    <3>2. CASE j # i
      BY <1>1, <1>11, <3>2 DEF OneUser
    <3> QED BY <3>1, <3>2
  <2> QED BY <1>1, <1>4, <2>3, <2>4 DEF OneUser
<1>15. SaveAlone'
  <2> SUFFICES ASSUME spoilt \in {"nothing", "failed"} PROVE SaveAlone'
    BY <1>4 DEF SaveAlone
  <2>1. late = {} /\ i = 1 /\ Len(saves) = 1 /\ dash.prefs = s.doc
    BY <1>1, <1>2, <1>3 DEF SaveAlone
  <2>2. s.key[1] = dash.user
    BY <1>1, <1>3, <1>6 DEF OneUser, Mine
  <2>3. saves'[1].done /\ saves'[1].doc = s.doc /\ stored'[dash.user] = s.doc
    BY <1>7, <1>9, <1>11, <2>1, <2>2
  <2>4. /\ late' = {} /\ Len(saves') <= 1 /\ saves' # << >> /\ dash'.prefs = saves'[1].doc
        /\ stored'[dash'.user] = saves'[1].doc /\ saves'[1].done
    <3>1. late' = late /\ dash' = dash /\ Len(saves') = 1 /\ saves' # << >>
      BY <1>4, <1>11, <2>1
    <3>2. dash'.user = dash.user /\ dash'.prefs = dash.prefs
      BY <3>1
    <3>3. stored'[dash'.user] = s.doc
      BY <2>3, <3>2
    <3> QED BY <2>1, <2>3, <3>1, <3>2, <3>3
  <2> QED BY <2>4 DEF SaveAlone
<1>16. SelectedExists'
  <2> SUFFICES ASSUME spoilt = "nothing" PROVE SelectedExists'
    BY <1>4 DEF SelectedExists
  <2>1. i = 1 /\ DOMAIN saves = {1} /\ DOMAIN saves' = {1}
    BY <1>2, <1>11
  <2>2. /\ HasDefault(s.doc) /\ HasDefault(s.previous) /\ s.selected \in NamesOf(dash.prefs.saved) \cup {None, Keep}
        /\ s.selected = Keep => dash.selected \in NamesOf(dash.prefs.saved) \cup {None}
    BY <1>1, <1>3, <2>1 DEF SelectedExists
  <2>3. \A u \in Users : HasDefault(stored'[u])
    BY <1>1, <1>7, <2>2 DEF SelectedExists
  <2>4. saves'[1] = n
    BY <1>11, <2>1
  <2> QED BY <1>1, <1>4, <1>9, <2>1, <2>2, <2>3, <2>4 DEF SelectedExists
<1> QED BY <1>12, <1>13, <1>14, <1>15, <1>16 DEF PrefsInv

\* A save is not waited for any more: the dashboard shows a document of the
\* save, which is what is stored unless saves overlapped.
LEMMA SaveEnds ==
    ASSUME PrefsInv, NEW i \in DOMAIN saves, saves' = RemoveAt(saves, i),
           UNCHANGED <<stored, sessions, issued, view>>, userToken' \in {userToken, SignedOut},
           NEW doc \in {dash.prefs, saves[i].previous},
           dash' = ThenSelect([dash EXCEPT !.prefs = doc], saves[i]),
           late' \in SUBSET (late \cup {[doc |-> saves[i].doc, key |-> saves[i].key]}),
           spoilt' \in Worst,
           spoilt' # "mixed" => spoilt # "mixed",
           spoilt' \in {"nothing", "failed"} =>
               spoilt \in {"nothing", "failed"} /\ late' \subseteq late /\ stored[dash.user] = doc,
           spoilt' = "nothing" => spoilt = "nothing" /\ doc = dash.prefs
    PROVE  PrefsInv'
<1>1. PrefsTypes /\ PageFollows /\ OneUser /\ SaveAlone /\ SelectedExists
  BY DEF PrefsInv
<1>2. /\ saves[i] \in PrefsSaveTypes /\ AtWork /\ dash.user \in Users /\ saves # << >>
      /\ spoilt \in {"nothing", "failed"} => i = 1 /\ DOMAIN saves = {1} /\ Len(saves) = 1
  BY PrefsSaveShape
<1>3. PICK s : s = saves[i]
  OBVIOUS
<1>4. /\ s \in PrefsSaveTypes /\ s.doc \in SoundDocs /\ s.previous \in SoundDocs /\ s.key \in BrowserKeys
      /\ s.selected \in Names \cup {None, Keep}
  BY <1>2, <1>3 DEF PrefsSaveTypes
<1>5. dash \in DashTypes /\ dash.prefs \in SoundDocs /\ saves \in Seq(PrefsSaveTypes)
  BY <1>1 DEF PrefsTypes, DashTypes
<1>6. doc \in SoundDocs
  BY <1>3, <1>4, <1>5
<1>7. PICK back : back = [dash EXCEPT !.prefs = doc]
  OBVIOUS
<1>8. back \in DashTypes /\ back.user = dash.user /\ back.prefs = doc /\ back.selected = dash.selected
  BY <1>5, <1>6, <1>7 DEF DashTypes
<1>9. dash' = IF s.selected = Keep THEN back ELSE [back EXCEPT !.selected = s.selected]
  BY <1>3, <1>7 DEF ThenSelect
<1>10. /\ dash' \in DashTypes /\ dash'.user = dash.user /\ dash'.prefs = doc
       /\ dash'.selected = IF s.selected = Keep THEN dash.selected ELSE s.selected
  <2>1. CASE s.selected = Keep
    BY <1>8, <1>9, <2>1
  <2>2. CASE s.selected # Keep
    BY <1>4, <1>8, <1>9, <2>2 DEF DashTypes
  <2> QED BY <2>1, <2>2
<1>11. /\ saves' \in Seq(PrefsSaveTypes) /\ Len(saves') = Len(saves) - 1
       /\ \A j \in DOMAIN saves' : \E m \in DOMAIN saves : saves'[j] = saves[m]
  BY <1>5, OthersLeft
<1>12. spoilt \in {"nothing", "failed"} => saves' = << >>
  BY <1>2, <1>11
<1>13. PrefsTypes'
  <2>1. [doc |-> s.doc, key |-> s.key] \in LateTypes
    BY <1>4 DEF LateTypes
  <2>2. late' \in SUBSET LateTypes
    BY <1>1, <1>3, <2>1 DEF PrefsTypes
  <2>3. userToken' \in BrowserKeys
    BY <1>1 DEF PrefsTypes, BrowserKeys
  <2> QED BY <1>1, <1>10, <1>11, <2>2, <2>3 DEF PrefsTypes
<1>14. PageFollows'
  BY <1>1, <1>2, <1>10 DEF PageFollows, AtWork
<1>15. OneUser'
  <2> SUFFICES ASSUME spoilt' # "mixed" PROVE OneUser'
    BY DEF OneUser
  <2>1. /\ Owned(dash.prefs, dash.user) /\ Owned(s.doc, dash.user) /\ Owned(s.previous, dash.user)
        /\ Mine(s.key, dash.user)
    BY <1>1, <1>3 DEF OneUser
  <2>2. Owned(doc, dash.user)
    BY <1>3, <2>1
  <2>3. \A j \in DOMAIN saves' : /\ Owned(saves'[j].doc, dash.user) /\ Owned(saves'[j].previous, dash.user)
                                 /\ Mine(saves'[j].key, dash.user)
    BY <1>1, <1>11 DEF OneUser
  <2>4. \A l \in late' : l.key # SignedOut => Owned(l.doc, l.key[1])
    <3> SUFFICES ASSUME NEW l \in late', l.key # SignedOut PROVE Owned(l.doc, l.key[1])
      OBVIOUS
    <3>1. CASE l \in late
      BY <1>1, <3>1 DEF OneUser
    <3>2. CASE l = [doc |-> s.doc, key |-> s.key]
      BY <2>1, <3>2 DEF Mine
    <3> QED BY <1>3, <3>1, <3>2
  <2>5. view.at \notin {"me", "prefs"} /\ Mine(userToken', dash.user)
    BY <1>1, <1>2 DEF OneUser, AtWork, Mine
  <2> QED BY <1>1, <1>10, <2>2, <2>3, <2>4, <2>5 DEF OneUser
<1>16. SaveAlone'
  BY <1>1, <1>10, <1>12 DEF SaveAlone, AtWork
<1>17. SelectedExists'
  <2> SUFFICES ASSUME spoilt' = "nothing" PROVE SelectedExists'
    BY DEF SelectedExists
  <2>1. spoilt = "nothing" /\ doc = dash.prefs /\ saves' = << >> /\ DOMAIN saves = {1} /\ i = 1
    BY <1>2, <1>12
  <2>2. /\ s.selected \in NamesOf(dash.prefs.saved) \cup {None, Keep}
        /\ s.selected = Keep => dash.selected \in NamesOf(dash.prefs.saved) \cup {None}
    BY <1>1, <1>3, <2>1 DEF SelectedExists
  <2>3. dash'.selected \in NamesOf(dash.prefs.saved) \cup {None}
    BY <1>10, <2>2
  <2> QED BY <1>1, <1>10, <2>1, <2>3 DEF SelectedExists
<1> QED BY <1>13, <1>14, <1>15, <1>16, <1>17 DEF PrefsInv

LEMMA SaveAnsweredKeeps == ASSUME PrefsInv, NEW i \in DOMAIN saves, SaveAnswered(i) PROVE PrefsInv'
<1>1. PrefsTypes /\ SaveAlone
  BY DEF PrefsInv
<1>2. /\ AtWork /\ saves # << >>
      /\ spoilt \in {"nothing", "failed"} => i = 1
  BY PrefsSaveShape
<1>3. dash = [dash EXCEPT !.prefs = dash.prefs]
  BY <1>1 DEF PrefsTypes, DashTypes
<1>4. spoilt \in {"nothing", "failed"} => stored[dash.user] = dash.prefs
  BY <1>1, <1>2, PrefsSaveShape DEF SaveAnswered, SaveAlone
<1>5. /\ dash' = ThenSelect([dash EXCEPT !.prefs = dash.prefs], saves[i]) /\ saves' = RemoveAt(saves, i)
      /\ UNCHANGED <<stored, sessions, issued, userToken, view, late, spoilt>>
  BY <1>3 DEF SaveAnswered
<1>6. spoilt' \in Worst
  BY <1>1, <1>5 DEF PrefsTypes
<1> QED BY <1>4, <1>5, <1>6, SaveEnds

LEMMA SaveFailsKeeps == ASSUME PrefsInv, NEW i \in DOMAIN saves, SaveFails(i) PROVE PrefsInv'
<1>1. PrefsTypes /\ SaveAlone
  BY DEF PrefsInv
<1>2. /\ dash' = ThenSelect([dash EXCEPT !.prefs = saves[i].previous], saves[i]) /\ saves' = RemoveAt(saves, i)
      /\ UNCHANGED <<stored, sessions, issued, view, late>> /\ userToken' \in {userToken, SignedOut}
      /\ Also("failed")
  BY DEF SaveFails, RolledBack
<1>3. /\ spoilt' \in Worst
      /\ spoilt' # "mixed" => spoilt # "mixed"
      /\ spoilt' \in {"nothing", "failed"} => spoilt \in {"nothing", "failed"}
      /\ spoilt' # "nothing"
  <2>1. spoilt \in Worst /\ "failed" \in Worst
    BY <1>1 DEF PrefsTypes, Worst
  <2> QED BY <1>2, <2>1, WorseIs
<1>4. spoilt \in {"nothing", "failed"} => stored[dash.user] = saves[i].previous
  BY <1>1, PrefsSaveShape DEF SaveFails, SaveAlone
<1>5. PICK doc \in {dash.prefs, saves[i].previous} : doc = saves[i].previous
  OBVIOUS
<1>6. /\ dash' = ThenSelect([dash EXCEPT !.prefs = doc], saves[i])
      /\ late' \in SUBSET (late \cup {[doc |-> saves[i].doc, key |-> saves[i].key]})
      /\ spoilt' \in {"nothing", "failed"} =>
           spoilt \in {"nothing", "failed"} /\ late' \subseteq late /\ stored[dash.user] = doc
  BY <1>2, <1>3, <1>4, <1>5
<1> QED BY <1>2, <1>3, <1>6, SaveEnds

LEMMA SaveGivenUpKeeps == ASSUME PrefsInv, NEW i \in DOMAIN saves, SaveGivenUp(i) PROVE PrefsInv'
<1>1. PrefsTypes
  BY DEF PrefsInv
<1>2. /\ dash' = ThenSelect([dash EXCEPT !.prefs = saves[i].previous], saves[i]) /\ saves' = RemoveAt(saves, i)
      /\ UNCHANGED <<stored, sessions, issued, userToken, view>> /\ Also("raced")
      /\ late' \in SUBSET (late \cup {[doc |-> saves[i].doc, key |-> saves[i].key]})
  BY DEF SaveGivenUp, RolledBack
<1>3. /\ spoilt' \in Worst
      /\ spoilt' # "mixed" => spoilt # "mixed"
      /\ spoilt' \notin {"nothing", "failed"}
  <2>1. spoilt \in Worst /\ "raced" \in Worst
    BY <1>1 DEF PrefsTypes, Worst
  <2> QED BY <1>2, <2>1, WorseIs
<1>4. PICK doc \in {dash.prefs, saves[i].previous} : doc = saves[i].previous
  OBVIOUS
<1>5. /\ dash' = ThenSelect([dash EXCEPT !.prefs = doc], saves[i]) /\ userToken' \in {userToken, SignedOut}
      /\ spoilt' \in {"nothing", "failed"} =>
           spoilt \in {"nothing", "failed"} /\ late' \subseteq late /\ stored[dash.user] = doc
      /\ spoilt' = "nothing" => spoilt = "nothing" /\ doc = dash.prefs
  BY <1>2, <1>3, <1>4
<1> QED BY <1>2, <1>3, <1>5, SaveEnds

LEMMA LateSaveKeeps == ASSUME PrefsInv, NEW l \in late, LateSave(l) PROVE PrefsInv'
<1>1. PrefsTypes /\ PageFollows /\ OneUser /\ SaveAlone /\ SelectedExists
  BY DEF PrefsInv
<1>2. /\ late' = late \ {l} /\ UNCHANGED <<sessions, issued, userToken, view, dash, saves, spoilt>>
      /\ stored' = IF l.key \in sessions THEN [stored EXCEPT ![l.key[1]] = l.doc] ELSE stored
  BY DEF LateSave
<1>3. l \in LateTypes /\ l.doc \in SoundDocs /\ sessions \in SUBSET AllTokens
  BY <1>1 DEF PrefsTypes, LateTypes
<1>4. l.key \in sessions => l.key[1] \in Users /\ l.key # SignedOut
  BY <1>3, KeyShape
<1>5. /\ stored' \in [Users -> SoundDocs]
      /\ \A u \in Users : stored'[u] = stored[u] \/ (l.key # SignedOut /\ u = l.key[1] /\ stored'[u] = l.doc)
  BY <1>1, <1>2, <1>3, <1>4 DEF PrefsTypes
<1>6. PrefsTypes'
  BY <1>1, <1>2, <1>5 DEF PrefsTypes
<1>7. PageFollows'
  BY <1>1, <1>2 DEF PageFollows, AtWork
<1>8. OneUser'
  BY <1>1, <1>2, <1>5 DEF OneUser
<1>9. SaveAlone'
  BY <1>1, <1>2 DEF SaveAlone
<1>10. SelectedExists'
  BY <1>1, <1>2 DEF SelectedExists, SaveAlone
<1> QED BY <1>6, <1>7, <1>8, <1>9, <1>10 DEF PrefsInv

LEMMA MeKeeps == ASSUME PrefsInv, MeAnswered PROVE PrefsInv'
<1>1. PrefsTypes /\ PageFollows /\ OneUser /\ SaveAlone /\ SelectedExists
  BY DEF PrefsInv
<1>2. /\ view.at = "me" /\ view.key \in sessions /\ dash' = [dash EXCEPT !.user = view.key[1]]
      /\ view' = [view EXCEPT !.at = "prefs", !.key = userToken]
      /\ UNCHANGED <<stored, sessions, issued, userToken, saves, late, spoilt>>
  BY DEF MeAnswered, Await
<1>3. view.key \in AllTokens
  BY <1>1, <1>2 DEF PrefsTypes
<1>4. view.key[1] \in Users
  BY <1>3, KeyShape
<1>5. /\ dash' \in DashTypes /\ dash'.user = view.key[1] /\ dash'.prefs = dash.prefs /\ dash'.selected = dash.selected
      /\ dash.prefs = FirstPrefs /\ dash.selected = None /\ saves = << >>
  BY <1>1, <1>2, <1>4 DEF PrefsTypes, DashTypes, PageFollows, AtWork
<1>6. view' \in ViewTypes /\ view'.at = "prefs" /\ view'.key = userToken /\ view'.page = view.page
  BY <1>1, <1>2 DEF PrefsTypes, ViewTypes
<1>7. PrefsTypes'
  BY <1>1, <1>2, <1>5, <1>6 DEF PrefsTypes
<1>8. PageFollows'
  BY <1>1, <1>2, <1>4, <1>5, <1>6 DEF PageFollows, AtWork
<1>9. OneUser'
  <2> SUFFICES ASSUME spoilt # "mixed" PROVE OneUser'
    BY <1>2 DEF OneUser
  <2>1. Mine(userToken, view.key[1])
    BY <1>1, <1>2 DEF OneUser, Mine
  <2> QED BY <1>1, <1>2, <1>5, <1>6, <2>1, FirstPrefsSound DEF OneUser
<1>10. SaveAlone'
  BY <1>1, <1>2, <1>6 DEF SaveAlone, AtWork
<1>11. SelectedExists'
  BY <1>1, <1>2, <1>5 DEF SelectedExists
<1> QED BY <1>7, <1>8, <1>9, <1>10, <1>11 DEF PrefsInv

LEMMA PrefsAnsweredKeeps == ASSUME PrefsInv, PrefsAnswered PROVE PrefsInv'
<1>1. PrefsTypes /\ PageFollows /\ OneUser /\ SaveAlone /\ SelectedExists
  BY DEF PrefsInv
<1>2. PICK doc : doc = stored[view.key[1]]
  OBVIOUS
<1>3. PICK preset : preset = Find(doc, doc.default)
  OBVIOUS
<1>4. /\ view.at = "prefs" /\ view.key \in sessions
      /\ dash' = IF doc.filters # None THEN [dash EXCEPT !.prefs = doc, !.filter = doc.filters]
                 ELSE IF preset # << >>
                 THEN [dash EXCEPT !.prefs = doc, !.filter = preset[1].filter, !.selected = doc.default]
                 ELSE [dash EXCEPT !.prefs = doc]
      /\ view' = [view EXCEPT !.at = "ready", !.key = SignedOut]
      /\ UNCHANGED <<stored, sessions, issued, userToken, saves, late, spoilt>>
  BY <1>2, <1>3 DEF PrefsAnswered
<1>5. view.key[1] \in Users /\ view.key # SignedOut
  <2>1. view.key \in AllTokens
    BY <1>1, <1>4 DEF PrefsTypes
  <2> QED BY <2>1, KeyShape
<1>6. doc \in SoundDocs /\ doc.filters \in Filters \cup {None}
  BY <1>1, <1>2, <1>5 DEF PrefsTypes, SoundDocs, PrefsDocTypes
<1>7. preset # << >> => preset[1].filter \in Filters /\ doc.default \in NamesOf(doc.saved) /\ doc.default \in Names
  <2> SUFFICES ASSUME preset # << >>
               PROVE  preset[1].filter \in Filters /\ doc.default \in NamesOf(doc.saved) /\ doc.default \in Names
    OBVIOUS
  <2>1. PICK name : name = doc.default
    OBVIOUS
  <2>2. preset[1] \in Presets /\ name \in NamesOf(doc.saved) /\ name \in Names
    BY <1>3, <1>6, <2>1, Found
  <2> QED BY <2>1, <2>2 DEF Presets
<1>8. dash \in DashTypes /\ dash.selected = None /\ dash.user \in Users /\ saves = << >>
  BY <1>1, <1>4 DEF PrefsTypes, PageFollows, AtWork
<1>9. /\ dash' \in DashTypes /\ dash'.user = dash.user /\ dash'.prefs = doc
      /\ dash'.selected \in {None} \cup NamesOf(doc.saved)
  <2>1. CASE doc.filters # None
    <3>1. dash' = [[dash EXCEPT !.prefs = doc] EXCEPT !.filter = doc.filters]
      BY <1>4, <2>1
    <3> QED BY <1>6, <1>8, <2>1, <3>1 DEF DashTypes
  <2>2. CASE doc.filters = None /\ preset # << >>
    <3>1. dash' = [dash EXCEPT !.prefs = doc, !.filter = preset[1].filter, !.selected = doc.default]
      BY <1>4, <2>2
    <3> QED BY <1>6, <1>7, <1>8, <2>2, <3>1 DEF DashTypes
  <2>3. CASE doc.filters = None /\ preset = << >>
    <3>1. dash' = [dash EXCEPT !.prefs = doc]
      BY <1>4, <2>3
    <3> QED BY <1>6, <1>8, <3>1 DEF DashTypes
  <2> QED BY <2>1, <2>2, <2>3
<1>10. view' \in ViewTypes /\ view'.at = "ready" /\ view'.key = SignedOut /\ view'.page = view.page
  <2>1. SignedOut \in BrowserKeys
    BY DEF BrowserKeys
  <2> QED BY <1>1, <1>4, <2>1 DEF PrefsTypes, ViewTypes
<1>11. PrefsTypes'
  BY <1>1, <1>4, <1>9, <1>10 DEF PrefsTypes
<1>12. PageFollows'
  BY <1>1, <1>4, <1>8, <1>9, <1>10 DEF PageFollows, AtWork
<1>13. spoilt # "mixed" => view.key[1] = dash.user /\ Owned(doc, dash.user)
  BY <1>1, <1>2, <1>4, <1>5 DEF OneUser, Mine
<1>14. OneUser'
  BY <1>1, <1>4, <1>8, <1>9, <1>10, <1>13 DEF OneUser
<1>15. SaveAlone'
  BY <1>1, <1>2, <1>4, <1>8, <1>9, <1>13 DEF SaveAlone, AtWork
<1>16. SelectedExists'
  BY <1>1, <1>2, <1>4, <1>5, <1>8, <1>9 DEF SelectedExists
<1> QED BY <1>11, <1>12, <1>14, <1>15, <1>16 DEF PrefsInv

LEMMA PrefsStep == PrefsInv /\ [PrefsNext]_prefsVars => PrefsInv'
<1> SUFFICES ASSUME PrefsInv, [PrefsNext]_prefsVars PROVE PrefsInv'
  OBVIOUS
<1>1. CASE UNCHANGED prefsVars
  BY <1>1 DEF prefsVars, PrefsInv, PrefsTypes, PageFollows, OneUser, SaveAlone, SelectedExists, AtWork
<1>2. ASSUME NEW isSetup \in BOOLEAN, StatusAnswered(isSetup) PROVE PrefsInv'
  BY <1>2, StatusKeeps
<1>3. CASE \/ SubmitLogin \/ BootFails \/ HandleLogout \/ (\E u \in Users : SignedIn(u))
           \/ (\E yes \in BOOLEAN : LoginFails(yes) \/ LoggedOut(yes))
  BY <1>3, PagesKeep
<1>4. CASE MeAnswered \/ PrefsAnswered
  BY <1>4, MeKeeps, PrefsAnsweredKeeps
<1>5. ASSUME NEW i \in DOMAIN saves, SaveStored(i) \/ SaveAnswered(i) \/ SaveFails(i) \/ SaveGivenUp(i)
      PROVE  PrefsInv'
  BY <1>5, SaveStoredKeeps, SaveAnsweredKeeps, SaveFailsKeeps, SaveGivenUpKeeps
<1>6. ASSUME NEW l \in late, LateSave(l) PROVE PrefsInv'
  BY <1>6, LateSaveKeeps
<1>7. CASE view.at \in {"ready", "leaving"} /\ Edits
  BY <1>7, EditsKeep DEF AtWork
<1>8. CASE \/ \E page \in {"login", "dashboard"} : OpenPage(page)
  BY <1>8, PagesKeep
<1>9. CASE (\E u \in Users : OtherTabSignsIn(u)) \/ OtherTabSignsOut \/ (\E t \in sessions : Expires(t))
  BY <1>9, OthersKeep
<1> QED BY <1>1, <1>2, <1>3, <1>4, <1>5, <1>6, <1>7, <1>8, <1>9 DEF PrefsNext

\* What the invariant says is what the run checks.
LEMMA SoundIs ==
    ASSUME NEW d \in SoundDocs
    PROVE  /\ Cardinality(NamesIn(d)) = Len(d.saved) /\ NamesIn(d) = NamesOf(d.saved)
           /\ Range(d.order) = Range(Widgets) /\ Len(d.order) = Len(Widgets)
<1>1. d.saved \in Seq(Presets) /\ Distinct(d.saved) /\ Whole(d.order)
  BY DEF SoundDocs, PrefsDocTypes
<1>2. NamesIn(d) = NamesOf(d.saved)
  BY DEF NamesIn, NamesOf
<1>3. PICK s : s = d.saved
  OBVIOUS
<1>4. Cardinality(NamesOf(s)) = Len(s)
  BY <1>1, <1>3, DistinctCount
<1> QED BY <1>1, <1>2, <1>3, <1>4 DEF Whole

LEMMA DocsSound == PrefsTypes => \A d \in Docs : d \in SoundDocs
<1> SUFFICES ASSUME PrefsTypes, NEW d \in Docs PROVE d \in SoundDocs
  OBVIOUS
<1>1. \A i \in DOMAIN saves : saves[i].doc \in SoundDocs /\ saves[i].previous \in SoundDocs
  <2> SUFFICES ASSUME NEW i \in DOMAIN saves PROVE saves[i].doc \in SoundDocs /\ saves[i].previous \in SoundDocs
    OBVIOUS
  <2>1. saves[i] \in PrefsSaveTypes
    BY DEF PrefsTypes
  <2> QED BY <2>1 DEF PrefsSaveTypes
<1>2. \A l \in late : l.doc \in SoundDocs
  BY DEF PrefsTypes, LateTypes
<1>3. dash.prefs \in SoundDocs /\ \A u \in Users : stored[u] \in SoundDocs
  BY DEF PrefsTypes, DashTypes
<1> QED BY <1>1, <1>2, <1>3 DEF Docs

LEMMA PrefsSafe == PrefsInv => PrefsTypeOK /\ PreferencesKept
<1> SUFFICES ASSUME PrefsInv PROVE PrefsTypeOK /\ PreferencesKept
  OBVIOUS
<1>1. PrefsTypes /\ PageFollows /\ OneUser /\ SaveAlone /\ SelectedExists
  BY DEF PrefsInv
<1>2. \A d \in Docs : d \in SoundDocs
  BY <1>1, DocsSound
<1>3. PrefsTypeOK
  <2>1. \A d \in Docs : d.default \in Names \cup {None} /\ d.filters \in Filters \cup {None}
    BY <1>2 DEF SoundDocs, PrefsDocTypes
  <2>2. view \in ViewTypes /\ dash \in DashTypes /\ userToken \in BrowserKeys /\ sessions \in SUBSET AllTokens /\ spoilt \in Worst
    BY <1>1 DEF PrefsTypes
  <2> QED BY <2>1, <2>2 DEF PrefsTypeOK, ViewTypes, DashTypes, BrowserKeys, Worst
<1>4. DocumentsSound
  <2>1. \A d \in Docs : /\ Cardinality(NamesIn(d)) = Len(d.saved)
                        /\ Range(d.order) = Range(Widgets) /\ Len(d.order) = Len(Widgets)
    BY <1>2, SoundIs
  <2>2. spoilt # "mixed" => \A u \in Users : \A i \in DOMAIN stored[u].saved : stored[u].saved[i].by = u
    BY <1>1 DEF OneUser, Owned
  <2> QED BY <2>1, <2>2 DEF DocumentsSound
<1>5. ShownIsStored
  BY <1>1 DEF ShownIsStored, SaveAlone, OnDashboard, AtWork
<1>6. DefaultExists
  <2> SUFFICES ASSUME spoilt = "nothing" PROVE DefaultExists
    BY DEF DefaultExists
  <2>1. late = {}
    BY <1>1 DEF SaveAlone
  <2>2. \A d \in Docs : HasDefault(d)
    BY <1>1, <2>1 DEF Docs, SelectedExists
  <2>3. \A d \in Docs : d.default \in NamesIn(d) \cup {None}
    BY <1>2, <2>2, SoundIs DEF HasDefault
  <2>4. dash.prefs \in SoundDocs
    BY <1>1 DEF PrefsTypes, DashTypes
  <2>5. saves = << >> => dash.selected \in NamesOf(dash.prefs.saved) \cup {None}
    BY <1>1 DEF SelectedExists
  <2>6. NamesIn(prefs) = NamesOf(dash.prefs.saved)
    BY <2>4, SoundIs DEF prefs
  <2> QED BY <2>3, <2>5, <2>6 DEF DefaultExists
<1> QED BY <1>3, <1>4, <1>5, <1>6 DEF PreferencesKept

\* Preferences: what is stored is sound, is what the dashboard shows, and
\* names only presets that exist, however saves, failures and tabs overlap.
THEOREM PreferencesKeptCorrect == PrefsSpec => []PreferencesKept
<1>1. PrefsSpec => []PrefsInv
  BY PrefsInvInit, PrefsStep, PTL DEF PrefsSpec
<1>2. PrefsInv => PreferencesKept
  BY PrefsSafe
<1> QED BY <1>1, <1>2, PTL

HIDE PreferencesAssumption
============================================================================
