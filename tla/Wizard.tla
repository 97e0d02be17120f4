------------------------------- MODULE Wizard -------------------------------
(***************************************************************************)
(* The setup wizard of the front end: its first step, where the place of   *)
(* the server is chosen, tested and authorised by a token of that host,    *)
(* and its third, which initialises the server there and this machine as   *)
(* a client.  Requests are answered, refused or given up after the         *)
(* client's timeout, and a request that was given up may still be carried  *)
(* out.                                                                    *)
(*                                                                         *)
(* Handlers of the first step work with the form as it was when they were  *)
(* clicked; the form goes on being edited meanwhile.  A token and a        *)
(* session are the host that made them and their number there.             *)
(***************************************************************************)
EXTENDS Naturals

CONSTANTS Hosts,      \* other machines a server may be set up on
          MaxIssued,  \* bound on the tokens a host issues
          MaxClicks   \* bound on what the user does

Local == "this machine"
NoPlace == "no place"

ASSUME WizardAssumption ==
    /\ Hosts \cap {Local, NoPlace} = {}
    /\ MaxIssued \in Nat /\ MaxClicks \in Nat

VARIABLES
    host,       \* each machine: configured by whom, its token, its session
    remoteBase, \* remoteApiBaseUrl in the configuration of this machine
    form,       \* the first step
    flow,       \* handlers of the first step on their way
    wizard,     \* the choices that were made, and the step
    init,       \* handleStep3Initialize on its way
    serving,    \* setups still carried out that the wizard has given up
    override,   \* ts_api_base_url
    overtaken,  \* auxiliary: one of those has been carried out
    clicks

wizardVars == <<host, remoteBase, form, flow, wizard, init, serving, override, overtaken, clicks>>

Places == Hosts \cup {Local}
NoToken == <<NoPlace, 0>>
Keys == (Hosts \X (1 .. MaxIssued)) \cup {NoToken}
Idle == [at |-> "idle"]
Handlers == {"continue", "claim", "validate", "discover"}

EmptyForm == [mode |-> "server_client", target |-> "local_machine", url |-> Local,
              validated |-> NoPlace, token |-> NoToken, session |-> NoToken, found |-> {}]
NoChoice == [step |-> 1, mode |-> "server_client", target |-> "local_machine",
             url |-> NoPlace, session |-> NoToken]

WizardInit ==
    /\ host = [p \in Places |-> [ready |-> "no", issued |-> 0, token |-> 0, session |-> 0]]
    /\ remoteBase = NoPlace
    /\ form = EmptyForm
    /\ flow = [h \in Handlers |-> Idle]
    /\ wizard = NoChoice
    /\ init = Idle
    /\ serving = {}
    /\ override = NoPlace
    /\ overtaken = FALSE
    /\ clicks = 0

----------------------------------------------------------------------------
(* The hosts *)

\* The host issues a token; the one before it and its session are void.
CreateToken(h) ==
    /\ host[h].ready = "no"
    /\ host[h].issued < MaxIssued
    /\ host' = [host EXCEPT ![h].issued = @ + 1, ![h].token = host[h].issued + 1, ![h].session = 0]
    /\ UNCHANGED <<remoteBase, form, flow, wizard, init, serving, override, overtaken, clicks>>

Configured(p, by) == host' = [host EXCEPT ![p].ready = by, ![p].token = 0, ![p].session = 0]

\* Somebody else sets the host up.
SetUpByOther(h) ==
    /\ host[h].ready = "no"
    /\ Configured(h, "other")
    /\ UNCHANGED <<remoteBase, form, flow, wizard, init, serving, override, overtaken, clicks>>

\* assertSetupAccess: this machine lets itself in, a host asks for its session.
Access(p, key) ==
    p = Local \/ (host[p].ready = "no" /\ host[p].session # 0 /\ key = <<p, host[p].session>>)

----------------------------------------------------------------------------
(* The form *)

\* The disabled rules of the buttons.
Validating == \E h \in Handlers : flow[h].at = "validate"
Claiming == \E h \in Handlers : flow[h].at = "claim" /\ flow[h].mounted
Discovering == flow["discover"] # Idle
IsBusy == Validating \/ Claiming \/ Discovering \/ flow["continue"].at = "path"

Remote == form.mode = "server_client" /\ form.target = "remote_host"

Edit(f) ==
    /\ form' = f
    /\ UNCHANGED <<host, remoteBase, flow, wizard, init, serving, override, overtaken>>

\* Either mode begins with a server on this machine; the session stays.  A
\* client looks for servers if it knows none.
SetMode(mode) ==
    /\ form' = [form EXCEPT !.mode = mode, !.target = "local_machine"]
    /\ flow' = IF mode = "client_only" /\ form.mode # mode /\ form.found = {} /\ ~Discovering
               THEN [flow EXCEPT !["discover"] = [at |-> "discover"]] ELSE flow
    /\ UNCHANGED <<host, remoteBase, wizard, init, serving, override, overtaken>>

SetTarget(target) ==
    /\ form.mode = "server_client"
    /\ Edit([form EXCEPT !.target = target,
                         !.session = IF target = "local_machine" THEN NoToken ELSE @])

\* The address of a host gives up the session; that of a client's server does not.
EditUrl(p) ==
    \/ /\ form.mode = "client_only"
       /\ Edit([form EXCEPT !.url = p, !.validated = NoPlace])
    \/ /\ Remote
       /\ Edit([form EXCEPT !.url = p, !.validated = NoPlace, !.session = NoToken])

EditToken(key) ==
    /\ Remote
    /\ Edit([form EXCEPT !.token = key, !.session = NoToken])

ChooseServer(p) ==
    /\ form.mode = "client_only"
    /\ p \in form.found
    /\ Edit([form EXCEPT !.url = p, !.validated = p])

----------------------------------------------------------------------------
(* The handlers of the first step *)

Go(h, next) == flow' = [flow EXCEPT ![h] = next]

Begin(h, at) ==
    /\ flow[h] = Idle
    /\ Go(h, [at |-> at, form |-> form, mounted |-> TRUE])
    /\ UNCHANGED <<host, remoteBase, form, wizard, init, serving, override, overtaken>>

DiscoverServers ==
    /\ form.mode = "client_only"
    /\ ~Discovering /\ ~Validating
    /\ Go("discover", [at |-> "discover"])
    /\ UNCHANGED <<host, remoteBase, form, wizard, init, serving, override, overtaken>>

ValidateClicked ==
    /\ form.mode = "client_only"
    /\ ~Validating /\ ~Discovering
    /\ Begin("validate", "validate")

ClaimClicked == Remote /\ ~Claiming /\ ~Validating /\ Begin("claim", "validate")

ContinueClicked ==
    /\ ~IsBusy
    /\ Begin("continue", IF Remote \/ form.mode = "client_only" THEN "validate" ELSE "path")

\* The best server found becomes the address, whatever was chosen meanwhile.
DiscoverAnswered(found, best) ==
    /\ Discovering
    /\ form' = IF found = {} THEN [form EXCEPT !.found = {}, !.validated = NoPlace]
               ELSE [form EXCEPT !.found = found, !.url = best, !.validated = best]
    /\ Go("discover", Idle)
    /\ UNCHANGED <<host, remoteBase, wizard, init, serving, override, overtaken, clicks>>

\* A request of a handler fails: it stops there.
HandlerStops(h) ==
    /\ flow[h] # Idle
    /\ form' = IF flow[h].at = "validate" THEN [form EXCEPT !.validated = NoPlace] ELSE form
    /\ Go(h, Idle)
    /\ UNCHANGED <<host, remoteBase, wizard, init, serving, override, overtaken, clicks>>

\* The first step hands its choices over and is gone; of what is on its way,
\* only a claim leaves a trace.
Chosen(c, key) ==
    /\ wizard' = [step |-> IF c.mode = "client_only" THEN 3 ELSE 2, mode |-> c.mode,
                  target |-> c.target, session |-> key,
                  url |-> IF c.mode = "client_only" \/ c.target = "remote_host" THEN c.url
                          ELSE NoPlace]
    /\ form' = EmptyForm
    /\ flow' = [h \in Handlers |->
                  IF h = "claim" /\ flow[h].at = "claim" THEN [flow[h] EXCEPT !.mounted = FALSE]
                  ELSE Idle]

\* The address answers: it is the one that was asked, whatever is typed now.
\* Continue goes on with the session it was clicked with, or claims one.
Validated(h) ==
    LET c == flow[h].form IN
    /\ flow[h].at = "validate"
    /\ \/ /\ h = "continue" /\ c.mode = "client_only"
          /\ Chosen(c, NoToken)
       \/ /\ h # "continue" \/ c.mode # "client_only"
          /\ form' = [form EXCEPT !.url = c.url, !.validated = c.url]
          /\ Go(h, IF h = "continue" /\ c.session # NoToken THEN [flow[h] EXCEPT !.at = "path"]
                   ELSE IF h \in {"continue", "claim"} /\ c.token # NoToken
                   THEN [flow[h] EXCEPT !.at = "claim"] ELSE Idle)
          /\ UNCHANGED wizard
    /\ UNCHANGED <<host, remoteBase, init, serving, override, overtaken, clicks>>

\* claimRemoteSetupToken: the host changes its token for a session, once.
ClaimedAt(c) ==
    /\ host[c.url].token # 0 /\ c.token = <<c.url, host[c.url].token>>
    /\ host' = [host EXCEPT ![c.url].token = 0, ![c.url].session = host[c.url].token]

Claimed(h) ==
    LET c == flow[h].form  key == flow[h].form.token IN
    /\ flow[h].at = "claim"
    /\ ClaimedAt(c)
    /\ form' = IF flow[h].mounted THEN [form EXCEPT !.session = key] ELSE form
    /\ Go(h, IF h = "continue" THEN [at |-> "path", form |-> [c EXCEPT !.session = key], mounted |-> TRUE]
             ELSE Idle)
    /\ UNCHANGED <<remoteBase, wizard, init, serving, override, overtaken, clicks>>

\* The answer is lost, and with it the session.
ClaimLost(h) ==
    /\ flow[h].at = "claim"
    /\ ClaimedAt(flow[h].form)
    /\ Go(h, Idle)
    /\ UNCHANGED <<remoteBase, form, wizard, init, serving, override, overtaken, clicks>>

\* The paths are checked where the server will be, by its leave.
PathChecked ==
    LET c == flow["continue"].form IN
    /\ flow["continue"].at = "path"
    /\ Access(IF c.target = "remote_host" THEN c.url ELSE Local, c.session)
    /\ Chosen(c, IF c.target = "remote_host" THEN c.session ELSE NoToken)
    /\ UNCHANGED <<host, remoteBase, init, serving, override, overtaken, clicks>>
----------------------------------------------------------------------------
(* The other steps *)

Step(w) ==
    /\ wizard' = w
    /\ UNCHANGED <<host, remoteBase, form, flow, init, serving, override, overtaken>>

Step2Continue == wizard.step = 2 /\ Step([wizard EXCEPT !.step = 3])

GoBack ==
    /\ wizard.step \in {2, 3}
    /\ init = Idle
    /\ Step([wizard EXCEPT !.step = IF wizard.mode = "client_only" THEN 1 ELSE @ - 1])

ResetWizard == wizard.step = 4 /\ Step(NoChoice)

\* The place a setup is asked of, and what it makes of it.
Request(at) ==
    IF at = "remote" THEN [place |-> wizard.url, as |-> "server", base |-> NoPlace]
    ELSE IF at = "local" THEN [place |-> Local, as |-> "server", base |-> NoPlace]
    ELSE [place |-> Local, as |-> "client", base |-> wizard.url]

Initialize ==
    /\ wizard.step = 3
    /\ init = Idle
    /\ init' = [at |-> IF wizard.mode = "client_only" THEN "client"
                      ELSE IF wizard.target = "remote_host" THEN "remote" ELSE "local",
                sent |-> FALSE]
    /\ UNCHANGED <<host, remoteBase, form, flow, wizard, serving, override, overtaken>>

\* A machine that is configured refuses, and one that does not know the session.
Accepted ==
    /\ init # Idle /\ ~init.sent
    /\ LET r == Request(init.at) IN
        Access(r.place, wizard.session) /\ host[r.place].ready = "no"
    /\ init' = [init EXCEPT !.sent = TRUE]
    /\ UNCHANGED <<host, remoteBase, form, flow, wizard, serving, override, overtaken, clicks>>

\* Refused, or it fails there: the error is shown, and the step stays.
InitFails ==
    /\ init # Idle
    /\ init' = Idle
    /\ UNCHANGED <<host, remoteBase, form, flow, wizard, serving, override, overtaken, clicks>>

\* The client's timeout: the error is shown, the setup goes on.
InitTimesOut ==
    /\ init # Idle /\ init.sent
    /\ serving' = serving \cup {Request(init.at)}
    /\ init' = Idle
    /\ UNCHANGED <<host, remoteBase, form, flow, wizard, override, overtaken, clicks>>

Configure(r) ==
    /\ Configured(r.place, IF r.as = "client" THEN "client" ELSE "wizard")
    /\ remoteBase' = IF r.as = "client" THEN r.base ELSE remoteBase

GivenUpEnds(r) ==
    /\ r \in serving
    /\ serving' = serving \ {r}
    /\ \/ Configure(r) /\ overtaken' = TRUE
       \/ UNCHANGED <<host, remoteBase, overtaken>>
    /\ UNCHANGED <<form, flow, wizard, init, override, clicks>>

\* The host is ready: this machine is to be its client.
RemoteDone ==
    /\ init # Idle /\ init.at = "remote" /\ init.sent
    /\ Configure(Request("remote"))
    /\ init' = [at |-> "client", sent |-> FALSE]
    /\ UNCHANGED <<form, flow, wizard, serving, override, overtaken, clicks>>

\* Fault: the front end goes on talking to whom it talked before.
InitDoneKeepingOverride ==
    /\ init # Idle /\ init.at # "remote" /\ init.sent
    /\ Configure(Request(init.at))
    /\ wizard' = [wizard EXCEPT !.step = 4]
    /\ init' = Idle
    /\ UNCHANGED <<form, flow, serving, override, overtaken, clicks>>

\* The last answer: the front end talks to the server from now on.
InitDone ==
    /\ init # Idle /\ init.at # "remote" /\ init.sent
    /\ Configure(Request(init.at))
    /\ wizard' = [wizard EXCEPT !.step = 4]
    /\ override' = IF init.at = "client" THEN wizard.url ELSE NoPlace
    /\ init' = Idle
    /\ UNCHANGED <<form, flow, serving, overtaken, clicks>>

\* The page is loaded anew: its state is gone, a request it waited for is not.
\* The status of this machine decides who is talked to, and an error counts as
\* a machine that is not set up.
LoadPage(known) ==
    /\ form' = EmptyForm
    /\ flow' = [h \in Handlers |-> Idle]
    /\ wizard' = NoChoice
    /\ serving' = IF init # Idle /\ init.sent THEN serving \cup {Request(init.at)} ELSE serving
    /\ init' = Idle
    /\ override' = IF known /\ host[Local].ready = "client" THEN remoteBase ELSE NoPlace
    /\ UNCHANGED <<host, remoteBase, overtaken>>

Clicks ==
    \/ wizard.step = 1 /\ (\/ \E mode \in {"server_client", "client_only"} : SetMode(mode)
                           \/ \E t \in {"local_machine", "remote_host"} : SetTarget(t)
                           \/ \E p \in Places : EditUrl(p) \/ ChooseServer(p)
                           \/ \E key \in Keys : EditToken(key)
                           \/ DiscoverServers \/ ValidateClicked \/ ClaimClicked
                           \/ ContinueClicked)
    \/ Step2Continue \/ GoBack \/ ResetWizard \/ Initialize
    \/ \E known \in BOOLEAN : LoadPage(known)

WizardNext ==
    \/ \E h \in Hosts : CreateToken(h) \/ SetUpByOther(h)
    \/ \E found \in SUBSET Hosts, best \in Hosts :
         (found = {} \/ best \in found) /\ DiscoverAnswered(found, best)
    \/ \E h \in Handlers : HandlerStops(h) \/ Validated(h) \/ Claimed(h) \/ ClaimLost(h)
    \/ PathChecked
    \/ Accepted \/ InitFails \/ InitTimesOut \/ RemoteDone \/ InitDone
    \/ \E r \in serving : GivenUpEnds(r)
    \/ clicks < MaxClicks /\ clicks' = clicks + 1 /\ Clicks

WizardSpec == WizardInit /\ [][WizardNext]_wizardVars

----------------------------------------------------------------------------
Modes == {"server_client", "client_only"}
Targets == {"local_machine", "remote_host"}
FormTypes == [mode : Modes, target : Targets, url : Places, validated : Places \cup {NoPlace},
              token : Keys, session : Keys, found : SUBSET Places]
Requests == [place : Places, as : {"server"}, base : {NoPlace}]
            \cup [place : {Local}, as : {"client"}, base : Places]

WizardTypeOK ==
    /\ host \in [Places -> [ready : {"no", "wizard", "other", "client"}, issued : 0 .. MaxIssued,
                            token : 0 .. MaxIssued, session : 0 .. MaxIssued]]
    /\ remoteBase \in Places \cup {NoPlace}
    /\ form \in FormTypes
    /\ \A h \in Handlers : flow[h] \in {Idle, [at |-> "discover"]}
          \cup [at : {"validate", "claim", "path"}, form : FormTypes, mounted : BOOLEAN]
    /\ wizard \in [step : 1 .. 4, mode : Modes, target : Targets, session : Keys,
                   url : Places \cup {NoPlace}]
    /\ init \in {Idle} \cup [at : {"remote", "local", "client"}, sent : BOOLEAN]
    /\ serving \subseteq Requests
    /\ override \in Places \cup {NoPlace}
    /\ overtaken \in BOOLEAN
    /\ clicks \in 0 .. MaxClicks

\* The session the wizard goes on with is one of the host it sets up, whatever
\* was edited, found or claimed while the first step's requests were on their
\* way; this machine asks for none.
SessionStaysHome ==
    wizard.step \in {2, 3} /\ wizard.target = "remote_host" /\ wizard.url \in Hosts =>
        wizard.session[1] = wizard.url

\* When the wizard says it is done, the server that was chosen has been set up
\* by this wizard, this machine is configured for it, and the front end talks
\* to it; unless a setup that was given up has been carried out meanwhile.
FinishedMeansReady ==
    wizard.step = 4 /\ ~overtaken =>
        IF wizard.url = NoPlace THEN host[Local].ready = "wizard" /\ override = NoPlace
        ELSE /\ host[Local].ready = "client"
             /\ remoteBase = wizard.url /\ override = wizard.url
             /\ wizard.mode = "server_client" => host[wizard.url].ready = "wizard"

\* The server that was chosen on the first step, and no other, is the one the
\* wizard has leave of, sets up and connects to.
RightServer == SessionStaysHome /\ FinishedMeansReady
=============================================================================
