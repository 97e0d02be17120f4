# OpenTicket: specification, model checking and proofs

OpenTicket is a service-desk system: a NestJS backend over Prisma and SQLite, a
Next.js front end, an Electron desktop application that runs the backend as a
child process, and an iOS client. This directory specifies the parts of it whose
correctness depends on the order in which things happen. Paths below are relative
to the repository.

## 1. Inventory

The backend is one Node.js process. Its handlers run on one event loop and
interleave at every `await`; a synchronous run of file operations is not
interleaved, but it can throw, or the process can die, between any two of them.
Only the demo reset writes in a database transaction. The desktop application is a
second event loop; the two meet through process signals, exit events, TCP ports
and HTTP probes. The front end and the iOS application are event loops of their
own, whose requests may be answered late, twice overtaken, or never.

| Component | State | Operations | What is hard | What makes it correct |
|---|---|---|---|---|
| Ticket register (`backend/src/tickets`) | tables Ticket, TicketStatusHistory, the customers' rows of User | create with a retry on number collisions, update of status and assignment, finding or creating the customer | read-then-write at awaits, no transaction, retry limit, crash between two writes, made-up e-mails that collide | numbers unique and without holes; conflict only under contention; closedAt and history agree with the status; nobody is refused without a cause |
| Demo data (`backend/src/demo`) | the same tables | reset, load n tickets | numbers counted up without a retry beside creations; reset beside updates | the same invariants survive it |
| Automatic backups (`backend/src/backup/backup.service.ts`) | running flag, stored next date, current and previous copy | timer tick, run now, status, rotation | flag checked before an await, deaths inside a rotation, archive names shared | a restorable copy always exists; the flag is never stuck; a due backup runs |
| Export, import, verify (same file, `backup.controller.ts`, `backup-encryption.ts`) | live database, sidecars, uploads, backup key, uploaded temporary files | export, import, verification | a restore without a way back, export beside import, key generated on demand, config.json written in place, a configuration without the key while the database is missing | no database beside a foreign write-ahead log; only opened files are restored; answers are true; the key of an export is kept |
| Configuration loader, setup (`backend/src/config`, `setup`) | config.json, static cache, app.db, the runtime client | initialise in six modes, load, reset, reconnect | overlapping initialisations, a removed file that lives on for its client, a setup cut short | a configuration never stands without its administrator; a success is true; a setup can be repeated |
| Remote setup (`setup.service.ts` 780-1140, 1780-1930) | tokens, attempts, sessions, a scan | create, claim, revoke, check; scan of the network | any order of expiry, replacement, wrong guesses; a pool of workers on one index | a token opens one session and is guessed at no more than allowed; a scan answers the quickest of what is healthy |
| Authentication, users (`backend/src/auth`, `users`) | failed-login buckets, password hashes, sessions, users | login, hash upgrade, guards, logout, role and state changes | the lock is tested before awaits, a hash is written late, guards act on snapshots | guesses are bounded; an old password does not come back; who was put out stays out |
| Reminders, settings | one JSON row each | read, merge, write whole | two changes read before either writes | an answered change is lost only to one that overlapped it |
| Attachments, storage | rows; files or objects | upload, direct upload, download, delete | two stores, one failing; keys of a millisecond's resolution | each row has its file, each file its row, but for the steps in between |
| Request limits (`backend/src/main.ts` 221-302) | fixed-window buckets | count a request, clean up | window boundary, a bucket dropped when there are many | no key passes more than two touching windows allow |
| Comments, costs | rows | insert, delete, totals | the author is found like a customer | as for customers; costs not modelled |
| Desktop supervisor (`desktop/main.ts`) | child process, starting / in-flight / quitting flags, crash timestamps, port | start, watchdog, restart, factory reset, quit | flows overlap at awaits, exit events arrive late, starts time out | no unmanaged process, one backend at a time, every recovery ends visibly |
| Desktop updater (`desktop/main.ts` 730-1388) | one status, the package, the recorded version, the backup | check, download twice over, install, first start of another version | many writers of one status; a start cut short | the engine is stopped only for an installation that exists; no version runs on data of another without a backup |
| Dashboard (`frontend/app/dashboard/page.tsx`) | selected ticket, drafts, closures of renders; accounts, catalogue and settings; session and preferences | click, Escape, send, save, switch tab | handlers work with the values of an old render | drafts are filed under their ticket, notes and forms under their account; what is stored is what is shown |
| Setup wizard (`frontend/app/components`) | the form, a token, a session of another host | choose, test, claim, initialise | the form changes while answers are on their way | the server chosen is the one set up |
| iOS client (`ios/SwiftUI`) | address, token, screens | scan, log in, leave, list, new ticket | answers that arrive for a server that was left | one session, one ticket per sheet |
| Notifications, statistics, diagnostics, QR codes | none that others read | send, query, format | - | not modelled |
| Build, deployment and smoke-test scripts | - | - | - | not modelled |

Interactions: the desktop application starts, probes and kills the backend; the
backup service reads the settings, stores its state in an AppSetting row, and
reads and replaces the configuration and the database all other services use;
the demo loader writes the tables of the ticket service behind its back; the
wizard drives the setup of two hosts with the tokens of one; every client reads
the token of its session when it sends, and acts on the answer later.

## 2. Modules

```
component modules                           composed by       proofs
TicketRegister <--refined by-- Tickets      MCTickets         TicketsProofs
AutoBackup                                  MCAutoBackup      AutoBackupProofs
Supervisor                                  MCSupervisor      SupervisorProofs
Setup                                       MCSetup           SetupProofs
Logins  Sessions  Attachments
Documents  RateLimit  Customers
SetupTokens  Discovery                      MCServices        ServicesProofs
SqlSplit                                    MCServices        SetupProofs
UsersPanel  SettingsPanel > DashboardTabs
TicketWindow  Preferences                   MCClients         DashboardProofs
Wizard  Updater  Phone                      MCClients         ClientsProofs
BackupRestore                               MCClients,        BackupRestoreProofs
                                            MCBackupRestore
```

In every module an action is what a handler does between two awaits (or, in a
synchronous stretch of file operations, one operation), and a program counter
says where each handler stands. Definitions whose comment begins with `Fault:`
are plausible mistakes in the code, kept beside the action they alter; no
behaviour of a specification uses them. Variables a comment calls auxiliary
remember what happened; no guard reads them.

`MCServices` and `MCClients` put side by side parts that share no variable of
the code: `focus` picks one of them at the beginning, that part moves and the
others rest, so a run explores the sum of the parts and not their product, and
TLC compares states by the part in focus alone (`VIEW InFocus`).

**Tickets.** `tickets` and `history` are the two tables, a request is a call of
POST /tickets, PATCH /tickets/:id or POST /demo/load. `CreateBegin`,
`CreateResolve`, `NextTicketNumber`, `CreateInsert` or `NumberCollision`, and
`CreateHistory` follow `create` and `createWithNumberRetry`; `UpdateBegin` (the
read of `existing`), `UpdateResolve`, `UpdateHistory`, `UpdateWrite` follow
`update`; `DemoBegin` (with the transaction of the reset) to `DemoRows` follow
`loadDemoDataset`. The unique index on the number is the guard of `InsertTicket`.
`Crash` loses every handler and keeps the rows. Texts, devices and prices are
left out. `wiped`, `base`, `contended` and the field `born` are auxiliary.

**TicketRegister** is what the table promises about numbers alone: a new ticket
gets the lowest number not given yet, an entry never changes, emptying costs the
order and never the uniqueness. `Tickets` implements it under
`register <- [t \in DOMAIN tickets |-> tickets[t].number]`.

**Customers.** Who a ticket or a comment belongs to: three queries, by e-mail,
telephone and name, and an insertion or a change, each a step. A telephone is
what it comes to and how it is written: the lookup compares what is written, the
made-up e-mail keeps only what it comes to, and the index on e-mails does the
rest. A telephone of fewer than six digits and a name without letters give no
address and leave the next thing to be tried.

**AutoBackup.** A handler slot is a tick, a run by hand, an export by hand or a
status call, used again when the call has returned. `nextRun` abstracts the
stored date against the clock (unset, later, due); a file is absent, open, whole
or broken. The rotation `CopyToTemp` ... `DropArchive` is synchronous: while
`busy = h` nobody else moves. `RotationFails` and `Crash` cut it short anywhere.
Two exports in one second share a file name (`ChooseName`): the second truncates
what the first is writing and the file ends broken; `shared` remembers it.
`ReadFails` is a query that throws while settings or state are read: the handler
goes on with the defaults. The directory of the kept copies, `targetPath`, stays
what it is.

**BackupRestore.** The data is abstracted to its origin: the backup it came
from, the installation's own, gone, partly written, or a fresh empty database.
`config` is config.json, as far as it has a key and says setup mode, or `NoConfig`
when it is torn; `cached` is the static copy of the loader. `Loaded` is what
`getConfigSync` makes of the two: while app.db is missing, a configuration of the
setup mode, which has no key and stays cached until the next start. `EnsureKey`
saves a key made on demand with that configuration, over config.json, and
`KeySaveFails`, `HalfDone` and `Crash` may tear the file, which is written in
place. `ReadConfig` stands for every other reader of the configuration.
A request is an import (by path or upload), a verification or an export. From
`$disconnect` on an import is synchronous; `RestoreFails` and `Crash` stop it
between any two file operations and leave the live data as they are then.
`Reopen` is the database engine, which creates a missing database on the next
query and discards a sidecar without one. TICKET_SYSTEM_BACKUP_KEY is unset: with
it no key is ever made. Left out are the errors of an export before its key is
needed (it changes nothing else), other writers of config.json (a setup, which
section 5 names), and that a torn config.json makes the making of a key take one
more await, in which two requests may each make one.

**Setup.** `disk` is config.json, `cache` the static copy of the loader, `db`
the file under the name app.db, `runtime` what the client of the other services
has open. A setup removes or replaces the file, pushes the schema (by a child
process it waits for synchronously, or by migrations run one by one), seeds the
administrator and the settings, saves and reconnects; every await is a cut. A
file that is removed while a client has it open lives on for that client, as on
a POSIX system. `Crash`, the loss of the file, the reset and the loads of other
requests interleave.

**SetupTokens** keeps the tokens, attempts and sessions of a remote setup, with
a clock; no handler there waits between reading and saving, so each is a step.
**Discovery** is the scan: workers that share an index, each probe two fetches,
and the answer: the results in order of their latency, cut off after `MaxResults`.
The addresses are the strings of a Set without a trailing slash, so the map that
removes duplicates by `apiBaseUrl` has nothing to remove.
**SqlSplit** is `splitSqlStatements` letter by letter, compared with a lexer
that says directly which letters of a text are outside literals and comments; no
migration has a backslash, and neither have the texts.

**Logins** cuts a login at its awaits: the lock, the row, the comparison, the
answer; the upgrade of an old hash is a process of its own, which nobody awaits.
**Sessions** follows a request through AuthGuard and RolesGuard, beside logouts,
changes of role and state, and the deletion of sessions. `entitled` remembers
who, at some moment since it arrived, had a session, an account and the role.

**Attachments** has rows, and files in a directory or objects in a bucket.
Uploads through the backend and past it, removals and the demo reset are cut
after each of their awaits; a failure of either store and a crash may come in
between, and a local write that fails may leave a part of its file.
**Documents** is what is kept whole in one row: settings, reminders,
the catalogue, the signup code; `told` is what the answers promised.
**RateLimit** is the fixed-window limiter with its clean-up.

**TicketWindow** distinguishes what the window holds now from the closure a
handler was made in: a click has the last render, the Escape key the render in
which the window opened. A draft carries the ticket it was typed under. `saving`
holds the runs of `saveTicketDraftChanges` on their way: nothing keeps a second
one from beginning, and each goes by the closure it began with.
**UsersPanel** and **SettingsPanel** are two tabs of the dashboard with what they
have on its way: lists, forms and notes of accounts, of which the effects of
React fill the form and ask for the notes in the step that changes the selection
or the list; the catalogue and the settings, each a copy that is sent back whole.
`told` is what the page was told is stored and has not taken back itself: a save
from a page that no longer shows it, or that met another one, takes it back.
**DashboardTabs** is the page with both: they share nothing and alternate.
**Preferences** has the document of a user in the backend and what the dashboard
of a browser shows of it; the token of the browser, which another tab may change,
is read when a request is sent and removed when one is refused; `Named` is what
`find` and `filter` make of the presets of a list. **Wizard** is the first and third step of
the setup wizard with the requests on their way, over the servers of two hosts
that go on after a client has given up. **Updater** is the one status that
checks, two kinds of download and the events of electron-updater write, the
installation, and the start of another version on the data of the last.
**Phone** is the network manager of the iOS application with the calls in
flight; everything that came from a server carries its name.

**Supervisor.** `child` holds the processes (starting, up, hung; port; last
signal; whether the exit listener is attached), the other variables carry the
names of `main.ts`. A flow is the boot, the recovery, the stop at quit, or a
call of the window. `StopBackend` is `stopBackendProcess` up to its await,
`StopKills` its three-second timer, `Stopped` its end; `Spawn`, `SpawnThrows`,
`SpawnErrs`, `Adopt`, `Ready`, `TimedOut` are one round of the runner loop of
`spawnBackend`; `Finish` is the reload of the window and the status probe.
`ChildExits` is the end of a process together with the exit listener. Timers
take any time. The crash timestamps are a count, of which a crash forgets any
number as too old.

### Not modelled

Notifications send and log, and nothing reads what they write. Statistics,
diagnostics, QR codes and the lists of the backend are queries without a state
of their own. Costs are single inserts and deletes; their totals are sums
without an order that matters. The panels of the front end that only show what
the backend answered, its texts and its layout, and the layout of the iOS
application, decide nothing. Build, deployment and smoke-test scripts and the
provisioning text a setup prints have no state. Prisma, SQLite, tar, the
storage service, electron-updater and the operating system appear as what the
code expects of them (a query is atomic, an index refuses a second row, SIGKILL
ends a process); such definitions are marked external. The end of the desktop
application itself and the "disabled" state of an updater without a platform
are left out.

## 3. Runs

| Run | Instance | Shows |
|---|---|---|
| `tickets_safety` | 3 requests of any kind, 3 statuses, 2 attempts, demo loads of 2 | `NumbersGapFree`, `ConflictMeansContention`, `ClosedAtFollowsStatus`, `StatusExplained` |
| `tickets_service` | 2 requests, the same | `Tickets` implements `TicketRegister`; accepted requests end |
| `autobackup_files` | a tick and a client that exports or asks for the status, one or two kept copies, 2 mishaps | `CopiesRestorable`: a restorable copy survives every failure, under a name that is kept |
| `autobackup_due` | a tick and a run by hand, backups on or off, 1 mishap | the flag is never stuck, overlapping rotations keep a copy, a due backup is taken up |
| `supervisor_watchdog` | boot, watchdog and quit; 2 processes, 2 runners, 2 restarts, 2 failed probes | one backend, managed, at the port that is asked; every recovery ends in an answer or an error |
| `supervisor_window` | the same with a factory reset; 3 processes, 1 runner, 1 restart, 1 failed probe | `WatchdogInControl`: the managed process is always heard, the recovery flag is exact |
| `setup` | 2 callers, 6 bootstrap modes, 1 mishap | a configuration has its administrator, successes are true, the runtime client reads the live file, a setup can be repeated |
| `services` | the nine parts of `MCServices` | the properties of the services around the tickets |
| `clients` | the eight parts of `MCClients`, two of each actor and thing | the properties of the clients and of the handlers of backups |
| `supervisor_orphans` | 3 processes, a restart and a reset | **violated**: a restart by hand during a recovery leaves a process unmanaged |
| `restore_verify` | 1 request | **violated**: an uploaded backup in order is reported unreadable |
| `dashboard_escape` | 2 tickets, 1 technician | **violated**: Escape assigns a technician the window does not show |

The properties of the two composed runs, each by the hazard it is about:

- `AccountsGuarded` (Logins): concurrent failures are counted after the lock was
  tested, so the guesses at a password are bounded by the limit and the logins in
  flight; an upgrade of a hash brings an old password back only if it overlapped
  the change.
- `RevokedStaysOut` (Sessions): whoever was logged out, disabled or demoted
  before asking is not let in, whatever was in flight.
- `FilesMatchRows` (Attachments): a row has its file and a file its row, but for
  the steps in between, failures of a store, and keys given twice.
- `ChangesKept` (Documents): a change that was answered is lost only to one that
  had read before it and wrote after it.
- `TokensEnd` (SetupTokens): a token gives one session, and one that was used,
  replaced, revoked, expired or guessed at too often gives none any more.
- `PassesBounded` (RateLimit): what passes in any span of a window's length,
  also across a boundary and when a bucket was dropped.
- `ScanComplete` (Discovery): each address asked once; the answer names healthy
  servers, `MaxResults` at most, and leaves one out only for that many quicker ones.
- `RefusedForCause` (Customers): a ticket is refused because of its customer only
  after a race, or when the made-up e-mail is that of another spelling.
- `StatementsRight` (SqlSplit): the statements are those the reference finds.
- `WindowFaithful` (TicketWindow): text is filed under the ticket it was typed
  under; a save gives a ticket only the technician chosen or shown, Escape apart.
- `TabsFaithful` (DashboardTabs): what the page was told is stored
  stays stored unless a save takes it back knowingly or met another; the form and
  the notes under the name of an account are its own, and no account gets a
  password typed for another.
- `PreferencesKept` (Preferences): what is stored is sound, is what is shown, and
  names presets that exist, when saves do not overlap.
- `RightServer` (Wizard): leave, setup and connection are of the server chosen.
- `UpdateSafe` (Updater): the engine is stopped for an installation only when its
  package is there; no version runs on another's data without a backup.
- `OneSessionOneTicket` (Phone): the session shown is the token held, of the
  address kept; one sheet makes one ticket; a server that was left is left.
- `RestoreSafe`, `BackupsAnswered` (BackupRestore): what a restore may not do to
  the live data, however it ends; what the callers are told; and that the key an
  export was encrypted with stays in config.json, and is the one the process goes
  by, over restarts and keys that could not be saved.

### Bounds

*Tickets*: a race needs two writers of a row or a number and one to disturb
them, so three requests; with two attempts the retry limit is reached by two
competitors; two demo tickets make the counter go on after its first insert. The
statuses are the initial one, an open one and a closing one; more of a kind
behave alike. *AutoBackup*: the flag has two kinds of contenders, one of each in
`autobackup_due`; archive names collide between two exports, the tick's and a
client's in `autobackup_files`; two mishaps (`MaxMishaps`) are one more than the
rotation is meant to survive. *Supervisor*: two processes are a dying one and its
successor; where flows of the window overlap there are three. Two runners reach
the retry inside a start, two restarts the limit. Ports number as many as
processes, so one is always free. `Children` bounds how many processes exist at
the same time: a spawn waits for an identifier; the crash count stops one above
`MAX_AUTO_RESTARTS`, where it tells no more. *Setup*: every property is about one
setup and what disturbs it, so two callers, and one crash, loss or reset; an
archive without encryption is replaced like an existing database and has no mode
of its own.

*Services*: two of every actor that races (logins, requests, uploads, editors,
callers). Two users, one of them the founder who cannot be demoted, two tokens.
The login lock closes after two failures in a window of two on a clock of three
(`MaxTime`), so it opens again within the run. `LastMs = 1` gives two uploads the
same millisecond or another; `MaxTrouble` bounds resets and failed deletions.
Two setup tokens (`SetupTokensMade`), lives of one and two on a clock of three
(`TokenTime`), one or two attempts. The limiter passes two in a window of two,
on a clock of four, so that a boundary and a third window occur; one kept bucket
for two addresses makes it clean up, `Burst` bounds the requests of a tick. Five
addresses in a pool of three leave every worker a second one to race for; two
latencies and two results (`MaxResults`, 20 in the code unless the caller says)
make the answer leave servers out, with and without a tie.
Customers have one mail, one name and a telephone in two spellings, one person
to begin with and one change from outside; that a telephone is too short, or a
name blank, for an address is covered by the proof alone. Texts have up to five letters of
eight: every pair of openings and closings of a literal or a comment, with a
letter between.

*Clients*: two tickets, two forms and four acts (`MaxActs`): a draft, a move, a
question and an answer that comes late. Two accounts and five deeds
(`MaxDeeds`): visit, select, type, save or note, select the other. Three entries
where the catalogue holds two (`MaxEntries`, 600 in the code), one of them there
from the start, and three turns (`MaxTurns`): what two saves that could meet
take. Two users, of whom the one signed in has saved a preset and the other
nothing, two preset names, two saves in flight, two edits, one page loaded anew
(`MaxMoves`). Two hosts, a token and a session of each (`MaxIssued`), six clicks
(`MaxClicks`): a wizard goes through with three on this machine, with six on a
host. Versions 1 and 2, over nothing or either, two answers of GitHub
(`MaxFallbacks`). Two servers, six taps, two calls in flight (`MaxTasks`), of
which the second overtakes the first. Two requests and four files: ours, ours
damaged, another installation's, and an old unencrypted one.

Requests are interchangeable, as are processes, where a run declares symmetry;
runs with liveness properties declare none. Deadlock checking is off where a
system or a bound may stop everything: the supervisor stops after quitting, and
the parts of the composed runs stop at their clocks and counts. The other modules
have an explicit step for "everything is served" or never stop.

### Fairness

*Backend*: the event loop carries on every continuation, so each handler step is
weakly fair, and so is the tick of the interval timer. No client or
administrator owes a call, and failures are never fair. `DueBackupRuns` assumes
in addition (`Calm`) that crashes, changes of the settings and failures to read
or save settings and state stop at some time: each of them can postpone a backup
for ever. No status call is served beside the two in `autobackup_due`.
*Setup*: the steps of a setup under way are weakly fair, and somebody whose host
is in setup mode again and again starts a fresh setup in the end: that is strong
fairness of `Begin(h, "fresh")`, an assumption about the administrator, whom the
first page, the login and the dashboard all send to `/setup` until it is done.
`SetupRepeatable` assumes besides that in the end one administrator tries at a
time.
*Desktop*: timers fire and continuations run (`FlowStep`, `Wake`); the health
monitor keeps asking; SIGKILL ends a process. That a process starts, answers or
obeys SIGTERM is not assumed.
The composed runs check safety alone and assume no fairness.

### Where the code departs from what is written

1. `restore_verify` - `backup.controller.ts:124` returns a promise from a `try`
   whose `finally` removes the file. `AnswersTruthful` is what does hold.
2. `supervisor_orphans` - `desktop/main.ts:1605`: restarts take no lock. An exit
   schedules a recovery in 1200 ms; a restart from the window that is spawning
   at that moment has nothing to be stopped yet, both spawn, and the second
   adoption overwrites the first. The watchdog alone is free of it.
3. `dashboard_escape` - `page.tsx:1631`: the effect that listens for Escape
   depends on `showTicketModal` only, so its handler has the drafts and the
   technician of the render in which the window opened.

Further facts met while modelling limit the properties rather than refute them;
each is written as an exemption in the property that meets it, or in a comment:

- *Tickets*: an update that overlaps another may leave an open ticket its
  closedAt, because `tickets.service.ts:310` decides from the row read before.
- *AutoBackup*: `backup.service.ts:626` sets the running flag after an await
  without testing it again, so two automatic runs may overlap. Exports that met
  under one file name are excluded from `SomeCopyRestorable`: the broken archive is
  rotated in unopened, and twice in a row leaves no restorable copy.
- *BackupRestore*: a restore that was cut short has no way back; `DataTogether`
  excludes it. If it stopped with app.db removed, the configuration the process
  goes by is one of the setup mode without a key (`config-loader.service.ts:296`),
  and the next request that needs a key makes one and saves it, with the setup
  mode, over config.json (`backup.service.ts:575`); if it stopped amid the writing
  of config.json (`backup.service.ts:935`), the key in it is lost. Exports made
  before open with the old key only: `ExportsKeepTheirKey` ends there (`unkeyed`).
- *Supervisor*: an exit between the answer of a new backend and the end of the
  recovery that started it is dropped (`main.ts:1634`), and every start that
  answers resets the crash count (`main.ts:1561`).
- *Setup*: two overlapping initialisations both succeed, although
  `setup.service.ts:71` tells the later that the system is configured
  (`InitializedOnce` states it and no run claims it).
- *Customers*: a customer whose telephone was taken down in another spelling is
  refused when the made-up e-mail is theirs (`ReturningCustomerServed`, in no run).
- *Logins*: the unawaited upgrade of a hash (`auth.service.ts:83`) overwrites a
  password set meanwhile.
- *Documents*, *Attachments*: of two overlapping changes of a document one is
  lost; two uploads of one name in one millisecond share a file.
- *Preferences*: the document is saved whole from the render of the handler and
  rolled back to that render's (`page.tsx:1046`); saving swallows its error, so
  after a failed save a preset that does not exist may be selected
  (`page.tsx:1055`, `1127`); a refused request removes the token that was stored
  after it was sent (`api-base.ts:217`).
- *TicketWindow*: details of a ticket that arrive late are shown for the next one
  (`page.tsx:1430`); a comment is saved twice when two closings overlap.
- *SettingsPanel*: a catalogue that cannot be loaded is shown empty
  (`page.tsx:1300`), and the next entry erases what is stored; an answer to an
  earlier visit brings back the list of that time, and puts out what was typed
  into the settings; of more than 600 entries the last is dropped with a success
  (`settings.service.ts:124`); the editor is cleared even when the entry was not
  saved (`page.tsx:1952`).
- *UsersPanel*: every list fills the form anew, over what was typed, and the answer
  of a save clears the password typed for the next account (`page.tsx:2157`); a
  note goes to who is selected when it is sent, the text of another account
  included, and its answer shows the notes of the account before
  (`page.tsx:2182`); a form filled before somebody locked the account unlocks it.
- *Wizard*: an initialisation given up after the client's timeout goes on.
- *Updater*: overlapping downloads by hand write one file (`main.ts:778-830`),
  and a failed one leaves a status that names a removed file; an installation
  that fails after the engine was stopped leaves the application without one
  (`main.ts:1375-1380`); update-state.json is not written atomically
  (`main.ts:1076`).
- *Phone*: a login in flight when the server is left stores its token
  (`NetworkManager.swift:110-112`), a connection that fails deletes a newer token
  (`NetworkManager.swift:77`), and a list that fails after a ticket was made
  reports the creation as failed (`NetworkManager.swift:226`).

## 4. Proofs

Every theorem holds for every value of the constants that the module's named
assumption admits, and is checked to its last leaf. Each safety invariant rests on
one that is inductive: the section names what had to be added and why.

`TicketsProofs`, for every set of requests and statuses, every number of
attempts and every length of demo loads:

| Theorem | States |
|---|---|
| `TypeCorrect` | `Spec => []TypeOK` |
| `NumbersCorrect` | `Spec => []NumbersGapFree` |
| `ConflictCorrect` | `Spec => []ConflictMeansContention` |
| `ClosedCorrect`, `ReopenCorrect`, `ClosedAtCorrect` | `Spec => []ClosedAtFollowsStatus` and its two halves |
| `ExplainedCorrect` | `Spec => []StatusExplained` |
| `RegisterImplemented` | `Spec => RegisterSpec` |

The argument. `Typed` adds to `TypeOK` what the program counter says about the
local variables. `FreshIds`: a row identifier a handler has yet to insert is not
in the table; so an insert adds a row and changes none. `NumberFacts`: until a
reset, the table's numbers are closed downwards and the number a handler is
about to insert was at some time the next one, so all below it are taken;
uniqueness comes from the index alone and survives a reset. `CollisionFacts`
carries, through each attempt, how many numbers beyond `base` are taken: a
collision means the number read has been inserted since, hence one more at each
attempt. `Recorded`: past its history write, an update's target and status are
in the history, and history only grows between resets. `Alone` and `UpToDate`:
an update of a ticket not marked contended is the only one in flight on it, so
the row it read is still the row. The refinement maps every step to an entry, a
wipe or a stutter by the lemma `StepKinds`.

`AutoBackupProofs`, for every number of handlers of each kind, all settings on
offer and any number of mishaps: `TypeCorrect`, `FlagCorrect`
(`Spec => []FlagNeverStuck`), `CopyCorrect` (`Spec => []SomeCopyRestorable`) and
`CopiesCorrect` (`Spec => []CopiesRestorable`, which adds
`CurrentOrPreviousRestorable`). `FlagNeverStuck` is inductive beside `TypeOK`:
`RunGoesOn` shows that no step but `Release` takes a handler out of a run.
`SomeCopyRestorable` is not: nothing in it says that `DropPrevious` or
`DropCurrent` has a whole temporary file beside it. `Sheltered` traces that back
along the rotation: the temporary file is a copy of the archive, the archive is
whole because this handler wrote its header and nobody has written to it since,
and that is so because each handler has a file name of its own until `shared` is
set. `OthersAlone` shows that a step of one handler leaves the others' files
alone, `OwnSheltered` that it keeps its own; `CopyStep` then looks at the five
steps that touch the kept files. Which of the two named files is whole depends on
where the rotation stands when it is cut short: `RotationKept` says so at each of
its steps (`FilesHold`) and between rotations, by the number of mishaps
(`AtRest`), and that a rotation holds the event loop (`RotatesAlone`).

`BackupRestoreProofs`, for every set of requests and of files, whatever is in
them: `RestoreTyped`, `RestoreSafeCorrect` (`RestoreSpec => []RestoreSafe`) and
`BackupsAnsweredCorrect` (`RestoreSpec => []BackupsAnswered`). `AllKnow` is what
each handler knows of its file where it stands: past decryption its key opens
the file, past the checks the file is in order, which is what the answers and
`RestoredWasOpened` rest on (`OpenableStays`: what was found stays so). `Alone`:
one synchronous restore goes on at most, and busy names it. `Staged`: at each
file operation it says what is gone and what is in place, so the sidecar of the
old database is removed before the new one comes, also when the next operation
fails. `Keyed`: an export under way has a database, one that ended a key, hence
no generation of a key can follow it. `Agreed`: until a restore cut short has cost
the key, the database is missing within a restore only, and what is cached has
the key that is on disk; so what the process loads has that key (`LoadedKey`), one
is made only when there is none (`KeyEnsured`), a torn file had none, and the
exports have it still (`ExportsOpen`).

`SupervisorProofs`, for every finite set of processes, no fewer ports than
processes, any restarts and resets of the window and every limit: `SupervisorTyped`
and `WatchdogInControlCorrect` (`Spec => []WatchdogInControl`). Beside the type,
`WatchdogInv` says what is true of a process nobody has adopted yet
(`SpawnedApart`: its exit is not listened to, and no two flows have spawned it,
so an adoption loses nothing a flow still has to adopt) and that nothing precedes
the start at launch (`BootFirst`). That a start finds a port (`FreePortFound`)
needs as many ports as processes, which is the assumption on the constants.
`OneEngineCorrect` states `Spec => []OneEngineManaged` under the hypothesis
`Restarts = {} /\ Resets = {}`: with the calls of the window it is false, which is
what `supervisor_orphans` shows. `FlowsInOrder` and the lemma `OneStart`: boot and
recovery follow each other, so one flow at a time is past its stop;
`StoppedFirst`: such a flow has no process beside it that was not told to end;
`PortsKnown`: a start and its process agree on the port, so the current port is
that of the backend.

`SetupProofs`, for every finite set of callers, every selection of modes and any
number of mishaps: `SetupTyped`, `ConfiguredCorrect`, `SuccessCorrect`,
`RuntimeCorrect`. The three properties hold until two setups overlap or something
is lost (`disturbed`), and so does what they rest on (`Calm`): one setup is at
work at a time and what it has made of the file is there (`OneAtWork`), so what
it saves stands on its database and its administrator (`ServerWhole`,
`SuccessStands`); the cache knows of a configuration as soon as there is one
(`KnownConfigured`), so nobody begins beside it; a client told of success is not
on a removed file (`RuntimeFresh`). `FileWhole` and `Unanswered` hold in any case.

`StatementsRightCorrect`, in the same module, is of the scanner that splits the
migrations of a setup: for every length of a text and every set of letters,
`SplitSpec => []StatementsRight`. The property speaks of the end only; the
invariant `SplitRight` says of every letter before it in which token of the
reference the scanner is (`Placed`: between two tokens, or in a comment or a
literal whose end is still to come, the quotes passed in it being even), and that
what it has found is right up to the last border it passed, and what it keeps is
what is kept since (`Found`). What a step reads is then of one token
(`LineStep`, `BlockStep`, `LiteralStep`, `CodeStep`), and `FoundOn` and
`FoundBorder` carry `Found` over it. About the reference: `LexemesIs` unfolds its
recursion, by the least length at which no such function would exist, and
`LexemesApart`, by the least token that another one runs into, says that tokens
have no letter in common.

`ServicesProofs`:

- `RevokedStaysOutCorrect`, for every set of requests, users and tokens. The
  guard decides from a row it read earlier; `FoundEntitled` says that the row was
  so at the query, and `entitled` remembers moments since the request arrived.
- `ChangesKeptCorrect`, for every set of editors and changes: `ReadUnchanged`,
  what a change has read is still the document, unless another one crossed it.
- `FilesMatchRowsCorrect`, for every set of uploads and tickets, any time and any
  number of failures. A file is inserted before its row and removed after it, in
  another store. `NotYet`: an upload under way never had a row or a removal;
  `StoredHeld`: what the store took is there until the row is; `RowsOwn`: a row
  has a key of its own or of its millisecond, and a removal the row it read;
  `FilesNamed`: `FilesHaveRows` where a removal has been to one store only.
- `RefusedForCauseCorrect`, for every set of callers, mails, names and telephones:
  `SoughtInVain`, the lookups of a request that nobody raced would still find
  nobody; `AnonymousNumbered`, the made-up address of an anonymous customer
  carries a number below the count of rows, so it is nobody's.
- `PassesBoundedCorrect`, for every limit, window, burst and number of keys. The
  bound needs where the windows stood: `OpenedAt(k, r, s)` counts what passed
  from `s`, after `s`, and between `r` and `s`, where the last window opened at
  `s` and the one before it a window earlier or more (`WindowsApart`: such
  moments exist, also after the bucket was dropped). `PassedBefore`: what passes
  now has not passed before.
- `AccountsGuardedCorrect`, for every finite set of clients, every limit of at
  least two and every window. `Throttled` says of a bucket how many guesses each
  of the two last windows holds, and how many of the logins now in flight
  (`Flying`) may still join them; `BucketsCount` says it of all accounts.
  `UpgradesTrue` and `PasswordKept`: an upgrade carries the password of the
  account unless that was set meanwhile.
- `TokensTyped`, `TokensEndCorrect`, for every number of tokens, every life of a
  token and of a session, and every limit of guesses. `TokensMade`, `Untouched`:
  tokens are made in order, those to come untouched; `Unclaimed`, `Closed`,
  `NotOver`: the attempts in the configuration are the guesses at the token that
  is in it, and outside setup mode there is none.
- `ScanCorrect`, for every number of addresses, of results and size of the pool.
  `WorkersPlaced`: the addresses below the index are those begun, each by one
  worker. `ResultsHealthy` and `AnsweredTogether`: what is filed under an address
  is its answer, and a server not filed yet is with the worker that reads its
  details. That the quickest are some set of `MaxResults` is the sort and the cut
  of the code; the proof is that what they cut is what was healthy.
- `ServicesTyped`, the types of all the services in one: `ServicesInv` puts the
  invariants of the parts side by side, `ServicesMove` says that a step of the
  whole is a step of each part or leaves it alone. The types of Sessions and
  SqlSplit are proved for this (`SessionsTypedStep`, `SplitTypedStep`).

`DashboardProofs`, for every set of tickets, accounts, entries, users and names,
and any number of steps of each kind:

- `WindowFaithfulCorrect`. What is on the screen, in the closure of the Escape
  key (`ScreenKept`), and in each request (`FormsOnTheirWay`,
  `AssignmentOnItsWay`, `SaveOnItsWay`) carries the ticket it was made under.
- `TabsFaithfulCorrect`. `UsersInv`: the passwords and forms on their way are of
  the account they name, the notes asked for of the one selected (`NotesAsked`);
  `DocRight`, of each document: a write in order is alone on its way and shows
  what the page was told beside its own parts, so what is stored is what was told.
- `PreferencesKeptCorrect`. `OneUser` (the tokens, the documents on their way and
  the dashboard are of one user), `SaveAlone` (what is stored is what the save on
  its way replaces, or what it carries) and `SelectedExists` (every document names
  presets it has, and so will the dashboard after the save), each until what
  happened spoils it; `PageFollows` links them to what the page waits for.

`ClientsProofs`, for every set of servers and hosts, any number of versions and of
steps of each kind:

- `UpdaterTyped`, `UpdateSafeCorrect`. `StatusHonest`: a status that offers an
  installation has its package, whoever wrote it last. `RecordFollows` and
  `StageFollows`: what the record of the version says of the data at each stage
  of a start.
- `PhoneCorrect` (`PhoneSpec => []OneSessionOneTicket`). `TestAlone`: a server is
  tried by one call at a time and from no other; `LoginsGone`: no login outlives
  unnoticed the server that was left; `OneSave`, `SheetWaits`: a sheet whose
  ticket was made is waited for by the one call that made it.
- `RightServerCorrect`. The wizard reads its choices after awaits:
  `FirstStepGone` (past the first step nothing but a claim is left that could
  change them), `ChoiceMade` (an address is there just when it is needed),
  `InitFollowsChoice` and `InitProgress` (an initialisation goes the way of the
  choice, and a host is set up before this machine becomes its client).
- `ClientsTyped`, the types of all the clients and of the handlers of the backups
  in one (`ClientsInv`, `ClientsMove`). The types of Phone bound the tickets of a
  sheet by the taps there were, which needs `Tapped`: a ticket that was made, or
  is on its way to be made, was saved by a tap of its own.

What the proofs changed. Attempts that failed found assumptions the models had
used without naming them: as many ports as processes (Supervisor), names that
are no markers (Setup, Attachments, Wizard, TicketWindow, Preferences). They also
found a bound that two concurrent logins had confirmed and three exceed: the
guesses at a password within a window are bounded by `2 * LoginMaxFailures - 1`
and by the logins in flight when each of the *two* locks fell, and not at all
like that by a limit of one, since the failure that opens a window never locks
(`auth.service.ts`, as `LoginsAssumption` says). Counts kept as sequences became
sets of what was counted (`passed` of RateLimit, `missed` of Logins), and
`Preferences` selects from lists with `Named`, because neither provers nor
library reason about folds.

Model-checked only: liveness (`RequestsEnd`, `DueBackupRuns`, `RecoveryWorks`,
`SetupRepeatable`), which is out of the prover's reach. Every other property of a
passing run is a theorem. The library's induction theorems cannot be
instantiated; where an argument needs induction over numbers the proofs use that
a set of numbers has a least one (`LeastNumber`, `LeastOf`).

## 5. What is left

- Models: costs with the rounding of their totals; the buttons of the dashboard
  around backups and demo data; a composition of BackupRestore with Setup for the
  start after a restore that was cut short.
