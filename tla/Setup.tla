------------------------------- MODULE Setup -------------------------------
(***************************************************************************)
(* First configuration of an installation: SetupService.initializeSystem   *)
(* and initializeClientOnlyMode, the configuration loader with its static  *)
(* cache, and the runtime database client they reconnect.                  *)
(*                                                                         *)
(* An initialisation removes or replaces app.db, gives it a schema, seeds  *)
(* the administrator and the settings through a client of its own, saves   *)
(* config.json and reconnects the runtime client.  Handlers interleave at  *)
(* their awaits only; the schema is pushed by a child process that is      *)
(* waited for synchronously, so with a working engine replacing the file   *)
(* and giving it its tables is one step.                                   *)
(*                                                                         *)
(* A file that is removed while a client has it open lives on for that     *)
(* client alone: such a client keeps the tables it had.                    *)
(***************************************************************************)
EXTENDS Naturals, FiniteSets

CONSTANTS Callers,      \* requests that may be in flight at the same time
          Modes,        \* the bootstrap modes they may ask for
          MaxMishaps,   \* bound on crashes, losses and resets together
          None

ASSUME SetupAssumption ==
    /\ IsFiniteSet(Callers)
    /\ None \notin Callers \cup {"ok", "failed", "refused"}
    /\ Modes \subseteq {"fresh", "demo_dataset", "existing_db", "same_db",
                        "backup_archive", "encrypted_backup", "client_only"}
    /\ MaxMishaps \in Nat

VARIABLES
    disk,       \* config.json: its mode and the caller whose setup wrote it
    cache,      \* ConfigLoaderService.cachedConfig
    db,         \* the file under the name app.db: its tables and administrators
    runtime,    \* the runtime client: closed, on the live file, on a removed one
    conn,       \* the client of a setup: closed, live, or the tables of the
                \* removed file it still has open
    pc, mode, answer,
    pushWorks,  \* whether the schema engine of Prisma runs on this host
    mishaps,
    disturbed   \* auxiliary: two setups met, or somebody removed the file

vars == <<disk, cache, db, runtime, conn, pc, mode, answer, pushWorks, mishaps, disturbed>>

files == <<db, runtime, conn>>
reply == <<mode, answer>>
aux == <<pushWorks, mishaps, disturbed>>

Tables == {"empty", "partial", "full"}
Steps == {"idle", "replace", "decrypt", "migrate", "migrating", "connect",
          "seed", "settings", "demo", "save", "refresh"}
Configs == [mode : {"none", "setup", "server", "client"}, by : Callers \cup {None}]
NoConfig == [mode |-> "none", by |-> None]
SetupModeConfig == [mode |-> "setup", by |-> None]
Missing == [tables |-> "missing", admins |-> {}]
Blank == [tables |-> "empty", admins |-> {}]
Imported == [tables |-> "full", admins |-> {}]

Init ==
    /\ disk = NoConfig
    /\ cache = NoConfig
    /\ db = Missing
    /\ runtime = "closed"
    /\ conn = [h \in Callers |-> "closed"]
    /\ pc = [h \in Callers |-> "idle"]
    /\ mode = [h \in Callers |-> None]
    /\ answer = [h \in Callers |-> None]
    /\ pushWorks \in BOOLEAN
    /\ mishaps = 0
    /\ disturbed = FALSE

----------------------------------------------------------------------------
(* The database file and the clients that have it open *)

\* A client that connects makes the engine create a missing file, without
\* tables.
OpenedDb == IF db = Missing THEN Blank ELSE db

\* The file under the name is replaced, or removed: for who had it open it is
\* now a removed one.
Orphaned(client) == IF client = "live" THEN db.tables ELSE client
ReplaceWith(d, client) ==
    /\ db' = d
    /\ runtime' = IF client = "live" THEN "removed" ELSE client
    /\ conn' = [h \in Callers |-> Orphaned(conn[h])]

\* The tables the client of a setup finds.
Seen(h) == IF conn[h] = "live" THEN db.tables ELSE conn[h]

Active(h) == pc[h] # "idle"

Mishap == mishaps < MaxMishaps /\ mishaps' = mishaps + 1

----------------------------------------------------------------------------
(* Configuration loader *)

\* A server configuration whose database file is missing counts as none:
\* the loader caches a setup-mode configuration in its place.
ValidateLoadedConfig(c) == IF c.mode = "server" /\ db = Missing THEN SetupModeConfig ELSE c

\* What loadConfig answers, and caches.
LoadedConfig ==
    IF cache # NoConfig THEN ValidateLoadedConfig(cache)
    ELSE IF disk # NoConfig THEN ValidateLoadedConfig(disk)
    ELSE SetupModeConfig

\* isSetupMode reads the same, and caches no answer that there is none.
IsSetupMode == LoadedConfig.mode = "setup"
ConfigSync == IF cache = NoConfig /\ disk = NoConfig THEN NoConfig ELSE LoadedConfig

\* saveConfig writes the file and the cache in one synchronous run.
SaveConfig(c) == disk' = c /\ cache' = c

\* Any request, and the start of the program, loads the configuration.
LoadConfig ==
    /\ cache' = LoadedConfig
    /\ UNCHANGED <<disk, files, pc, reply, aux>>

----------------------------------------------------------------------------
(* Requests *)

Goto(h, step) == pc' = [pc EXCEPT ![h] = step]

End(h, what) ==
    /\ Goto(h, "idle")
    /\ mode' = [mode EXCEPT ![h] = None]
    /\ answer' = [answer EXCEPT ![h] = what]

Accept(h, m, step) ==
    /\ Goto(h, step)
    /\ mode' = [mode EXCEPT ![h] = m]
    /\ answer' = [answer EXCEPT ![h] = None]
    /\ disturbed' = (disturbed \/ \E g \in Callers \ {h} : Active(g))

\* Fault: a setup begins whether or not the system is configured.
BeginUnchecked(h, m) ==
    /\ pc[h] = "idle"
    /\ Accept(h, m, "replace")
    /\ cache' = ConfigSync
    /\ UNCHANGED <<disk, files, pushWorks, mishaps>>

\* POST /setup/init up to the disconnection of the runtime client, which it
\* awaits.
Begin(h, m) ==
    /\ pc[h] = "idle"
    /\ IsSetupMode
    /\ Accept(h, m, "replace")
    /\ cache' = ConfigSync
    /\ UNCHANGED <<disk, files, pushWorks, mishaps>>

Refused(h) ==
    /\ pc[h] = "idle"
    /\ ~IsSetupMode
    /\ cache' = ConfigSync
    /\ answer' = [answer EXCEPT ![h] = "refused"]
    /\ UNCHANGED <<disk, files, pc, mode, aux>>

\* POST /setup/client-only removes nothing, and prepares a database where there
\* is none.  When the schema engine works it is not interrupted before the
\* configuration is saved.
BeginClientOnly(h) ==
    /\ pc[h] = "idle"
    /\ "client_only" \in Modes
    /\ IsSetupMode
    /\ Accept(h, "client_only", IF pushWorks THEN "refresh" ELSE "migrate")
    /\ IF pushWorks
       THEN /\ db' = [OpenedDb EXCEPT !.tables = "full"]
            /\ SaveConfig([mode |-> "client", by |-> h])
       ELSE /\ cache' = LoadedConfig
            /\ UNCHANGED <<disk, db>>
    /\ UNCHANGED <<runtime, conn, pushWorks, mishaps>>

\* The schema is pushed by a child process the program waits for: with the
\* engine nobody sees the new file without its tables.  Without it the
\* statements are executed one by one, in the steps below.
Migrated(d) == IF pushWorks THEN [d EXCEPT !.tables = "full"] ELSE d
Migrate(h) == Goto(h, IF pushWorks THEN "connect" ELSE "migrate")

\* Fault: a database left by an earlier attempt stays.
ReplaceNothing(h) ==
    /\ pc[h] = "replace"
    /\ mode[h] \in {"fresh", "demo_dataset"}
    /\ runtime' = "closed"
    /\ db' = IF pushWorks THEN [OpenedDb EXCEPT !.tables = "full"] ELSE db
    /\ Migrate(h)
    /\ UNCHANGED <<disk, cache, conn, reply, aux>>

\* A new installation starts from no file.
ReplaceFresh(h) ==
    /\ pc[h] = "replace"
    /\ mode[h] \in {"fresh", "demo_dataset"}
    /\ ReplaceWith(IF pushWorks THEN Migrated(Blank) ELSE Missing, "closed")
    /\ Migrate(h)
    /\ UNCHANGED <<disk, cache, reply, aux>>

\* A copy of another database, or of the one in an archive.
ReplaceByCopy(h) ==
    /\ \/ pc[h] = "replace" /\ mode[h] \in {"existing_db", "backup_archive"}
       \/ pc[h] = "decrypt"
    /\ ReplaceWith(Migrated(Imported), IF pc[h] = "replace" THEN "closed" ELSE runtime)
    /\ Migrate(h)
    /\ UNCHANGED <<disk, cache, reply, aux>>

\* An encrypted backup is decrypted first, which is awaited.
StartDecrypting(h) ==
    /\ pc[h] = "replace"
    /\ mode[h] = "encrypted_backup"
    /\ runtime' = "closed"
    /\ Goto(h, "decrypt")
    /\ UNCHANGED <<disk, cache, db, conn, reply, aux>>

\* The existing database is already the one under the name.
ReplaceBySame(h) ==
    /\ pc[h] = "replace"
    /\ mode[h] = "same_db"
    /\ db # Missing
    /\ runtime' = "closed"
    /\ db' = Migrated(db)
    /\ Migrate(h)
    /\ UNCHANGED <<disk, cache, conn, reply, aux>>

\* The source is missing, is no archive, or the key does not fit: nothing has
\* been removed yet.
SourceUnusable(h) ==
    /\ \/ pc[h] = "replace" /\ mode[h] \notin {"fresh", "demo_dataset"}
       \/ pc[h] = "decrypt"
    /\ runtime' = IF pc[h] = "replace" THEN "closed" ELSE runtime
    /\ End(h, "failed")
    /\ UNCHANGED <<disk, cache, db, conn, aux>>

\* Without the schema engine: the fallback inside the process opens the file
\* and creates the first tables.
StartMigrating(h) ==
    /\ pc[h] = "migrate"
    /\ OpenedDb.tables = "empty"
    /\ db' = [OpenedDb EXCEPT !.tables = "partial"]
    /\ conn' = [conn EXCEPT ![h] = "live"]
    /\ Goto(h, "migrating")
    /\ UNCHANGED <<disk, cache, runtime, reply, aux>>

\* ... and the others; then its client is closed.
FinishMigrating(h) ==
    /\ pc[h] = "migrating"
    /\ db' = IF conn[h] = "live" THEN [db EXCEPT !.tables = "full"] ELSE db
    /\ conn' = [conn EXCEPT ![h] = "closed"]
    /\ Goto(h, IF mode[h] = "client_only" THEN "save" ELSE "connect")
    /\ UNCHANGED <<disk, cache, runtime, reply, aux>>

\* CREATE TABLE fails on a table that is there, in every fallback.
MigrationFails(h) ==
    /\ pc[h] = "migrate"
    /\ OpenedDb.tables # "empty"
    /\ End(h, "failed")
    /\ UNCHANGED <<disk, cache, files, aux>>

Connect(h) ==
    /\ pc[h] = "connect"
    /\ db' = OpenedDb
    /\ conn' = [conn EXCEPT ![h] = "live"]
    /\ Goto(h, "seed")
    /\ UNCHANGED <<disk, cache, runtime, reply, aux>>

\* VAT rates, then the administrator: created, or an existing user promoted.
CreateAdminUser(h) ==
    /\ pc[h] = "seed"
    /\ Seen(h) = "full"
    /\ db' = IF conn[h] = "live" THEN [db EXCEPT !.admins = @ \cup {h}] ELSE db
    /\ Goto(h, "settings")
    /\ UNCHANGED <<disk, cache, runtime, conn, reply, aux>>

\* The organisation and the default settings; then the client is closed.
EnsureDefaultSystemSettings(h) ==
    /\ pc[h] = "settings"
    /\ conn' = [conn EXCEPT ![h] = "closed"]
    /\ Goto(h, IF mode[h] = "demo_dataset" THEN "demo" ELSE "save")
    /\ UNCHANGED <<disk, cache, db, runtime, reply, aux>>

\* Fault: the error is caught too early and the setup goes on.
SeedErrorSwallowed(h) ==
    /\ pc[h] \in {"seed", "settings"}
    /\ Mishap
    /\ conn' = [conn EXCEPT ![h] = "closed"]
    /\ Goto(h, "save")
    /\ UNCHANGED <<disk, cache, db, runtime, reply, pushWorks, disturbed>>

\* A write fails: there is no such table, or the disk is full.  The client of
\* the setup is not closed on this path, and never used again.
SeedFails(h) ==
    /\ pc[h] \in {"seed", "settings"}
    /\ \/ Seen(h) # "full" /\ UNCHANGED mishaps
       \/ Mishap
    /\ conn' = [conn EXCEPT ![h] = "closed"]
    /\ End(h, "failed")
    /\ UNCHANGED <<disk, cache, db, runtime, pushWorks, disturbed>>

\* Demo data go through the runtime client, which connects for it.
LoadDemoDataset(h) ==
    /\ pc[h] = "demo"
    /\ db' = IF runtime = "closed" THEN OpenedDb ELSE db
    /\ runtime' = IF runtime = "closed" THEN "live" ELSE runtime
    /\ \/ runtime' = "removed" \/ db'.tables = "full"
       /\ Goto(h, "save")
       /\ UNCHANGED reply
    /\ UNCHANGED <<disk, cache, conn, aux>>

DemoFails(h) ==
    /\ pc[h] = "demo"
    /\ runtime = "removed" \/ OpenedDb.tables # "full"
    /\ db' = IF runtime = "closed" THEN OpenedDb ELSE db
    /\ runtime' = IF runtime = "closed" THEN "live" ELSE runtime
    /\ End(h, "failed")
    /\ UNCHANGED <<disk, cache, conn, aux>>

\* Fault: the bootstrap mode is saved as the mode of the installation.
SaveBootstrapMode(h) ==
    /\ pc[h] = "save"
    /\ SaveConfig([mode |-> mode[h], by |-> h])
    /\ Goto(h, "refresh")
    /\ UNCHANGED <<files, reply, aux>>

SaveConfiguration(h) ==
    /\ pc[h] = "save"
    /\ SaveConfig([mode |-> IF mode[h] = "client_only" THEN "client" ELSE "server", by |-> h])
    /\ Goto(h, "refresh")
    /\ UNCHANGED <<files, reply, aux>>

\* Fault: the runtime client keeps what it has open.
AnswerOnly(h) ==
    /\ pc[h] = "refresh"
    /\ End(h, "ok")
    /\ UNCHANGED <<disk, cache, files, aux>>

\* The runtime client is replaced by one that is not connected, and the caller
\* is told of success.
RefreshAndAnswer(h) ==
    /\ pc[h] = "refresh"
    /\ runtime' = "closed"
    /\ End(h, "ok")
    /\ UNCHANGED <<disk, cache, db, conn, aux>>

----------------------------------------------------------------------------
(* The rest of the system *)

\* A query of another request, or of the backup timer: the runtime client
\* connects on first use.
RuntimeQuery ==
    /\ runtime = "closed"
    /\ runtime' = "live"
    /\ db' = OpenedDb
    /\ UNCHANGED <<disk, cache, conn, pc, reply, aux>>

\* A setup token is stored in the configuration of setup mode; SetupTokens says
\* what becomes of it.
SaveToken ==
    /\ IsSetupMode
    /\ SaveConfig(LoadedConfig)
    /\ UNCHANGED <<files, pc, reply, aux>>

\* resetForDev removes the database and the configuration, whoever is at work.
ResetForDev ==
    /\ Mishap
    /\ ReplaceWith(Missing, runtime)
    /\ disk' = NoConfig
    /\ cache' = NoConfig
    /\ answer' = [h \in Callers |-> None]
    /\ disturbed' = (disturbed \/ \E h \in Callers : Active(h))
    /\ UNCHANGED <<pc, mode, pushWorks>>

\* Somebody removes or moves the database file.
DatabaseLost ==
    /\ Mishap
    /\ db # Missing
    /\ ReplaceWith(Missing, runtime)
    /\ disturbed' = TRUE
    /\ UNCHANGED <<disk, cache, pc, reply, pushWorks>>

\* The process dies: requests, clients and the cache go.  A setup that was
\* replacing the file may have removed it, or left some of its tables.
Crash ==
    /\ Mishap
    /\ \/ UNCHANGED db
       \/ /\ \E h \in Callers : pc[h] = "replace" /\ mode[h] # "same_db"
          /\ db' \in {Missing, [tables |-> "partial", admins |-> {}]}
    /\ cache' = NoConfig
    /\ runtime' = "closed"
    /\ conn' = [h \in Callers |-> "closed"]
    /\ pc' = [h \in Callers |-> "idle"]
    /\ mode' = [h \in Callers |-> None]
    /\ UNCHANGED <<disk, answer, pushWorks, disturbed>>

----------------------------------------------------------------------------
SetupStep(h) ==
    \/ ReplaceFresh(h)
    \/ ReplaceByCopy(h)
    \/ StartDecrypting(h)
    \/ ReplaceBySame(h)
    \/ SourceUnusable(h)
    \/ StartMigrating(h)
    \/ FinishMigrating(h)
    \/ MigrationFails(h)
    \/ Connect(h)
    \/ CreateAdminUser(h)
    \/ EnsureDefaultSystemSettings(h)
    \/ SeedFails(h)
    \/ LoadDemoDataset(h)
    \/ DemoFails(h)
    \/ SaveConfiguration(h)
    \/ RefreshAndAnswer(h)

Next ==
    \/ \E h \in Callers, m \in Modes \ {"client_only"} : Begin(h, m)
    \/ \E h \in Callers : BeginClientOnly(h)
    \/ \E h \in Callers : Refused(h)
    \/ \E h \in Callers : SetupStep(h)
    \/ LoadConfig
    \/ RuntimeQuery
    \/ SaveToken
    \/ ResetForDev
    \/ DatabaseLost
    \/ Crash

Spec == Init /\ [][Next]_vars

\* Handlers are carried on; an administrator who is asked for a setup time and
\* again tries a fresh one in the end.
FairSpec ==
    /\ Spec
    /\ \A h \in Callers : WF_vars(SetupStep(h)) /\ SF_vars(Begin(h, "fresh"))

----------------------------------------------------------------------------
TypeOK ==
    /\ disk \in Configs
    /\ cache \in Configs
    /\ db \in [tables : Tables \cup {"missing"}, admins : SUBSET Callers]
    /\ runtime \in {"closed", "live", "removed"}
    /\ conn \in [Callers -> Tables \cup {"closed", "live"}]
    /\ pc \in [Callers -> Steps]
    /\ mode \in [Callers -> Modes \cup {None}]
    /\ answer \in [Callers -> {None, "ok", "failed", "refused"}]
    /\ pushWorks \in BOOLEAN
    /\ mishaps \in 0 .. MaxMishaps
    /\ disturbed \in BOOLEAN

\* A server configuration never stands without its database: the file under
\* the name has every table and the administrator whose setup wrote the
\* configuration, and nothing takes the system for one in setup mode.  It must
\* survive setups cut short anywhere, repeated, and mixed with queries of the
\* runtime client; setups that overlap break it, and so does the removal of
\* the file.
ConfiguredHasAdmin ==
    disk.mode = "server" /\ ~disturbed =>
        /\ db.tables = "full"
        /\ disk.by \in db.admins
        /\ cache.mode \in {"none", "server"}

\* Who was told of success is the one whose configuration is in force: it is
\* on disk, and no later setup took its place.
SuccessIsTrue ==
    \A h \in Callers : answer[h] = "ok" /\ ~disturbed =>
        disk.by = h /\ disk.mode \in {"server", "client"}

\* When a setup has ended well the runtime client reads the file under the
\* name, never one that was removed while it had it open.
RuntimeReadsLiveFile ==
    (\E h \in Callers : answer[h] = "ok") /\ (\A h \in Callers : ~Active(h)) /\ ~disturbed =>
        runtime # "removed"

\* One installation is initialised once: setup.service.ts:71 tells the others
\* "System is already configured. Cannot re-initialize."
InitializedOnce == Cardinality({h \in Callers : answer[h] = "ok"}) <= 1

\* Whatever a setup that was cut short left behind, a fresh setup gets through
\* when it is tried again, as long as one administrator tries at a time.
SetupRepeatable ==
    <>[](Cardinality({h \in Callers : Active(h)}) <= 1) => []<>(~IsSetupMode)
============================================================================
