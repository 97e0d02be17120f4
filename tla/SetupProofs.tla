----------------------------- MODULE SetupProofs -----------------------------
(***************************************************************************)
(* A first configuration ends in what it says, for every number of         *)
(* requests, whatever is cut short, repeated or asked for meanwhile, as    *)
(* long as no two setups meet and nobody removes the file.                 *)
(*                                                                         *)
(* The inductive invariant says what the one setup at work has made of the *)
(* file at each of its steps, and that a system that is configured is      *)
(* taken for nothing else: which is what keeps a second setup out.         *)
(*                                                                         *)
(* The scanner that splits its migrations is at the end.                   *)
(***************************************************************************)
EXTENDS Setup, SqlSplit, SequenceTheorems, FiniteSetTheorems, WellFoundedInduction, TLAPS

USE SetupAssumption

\* A file without tables recorded is no file, and who has it open finds one.
FileWhole ==
    /\ db.tables = "missing" => db.admins = {}
    /\ runtime = "live" => db.tables # "missing"
    /\ \A h \in Callers : conn[h] = "live" => db.tables # "missing"

\* Configured, and known to be.
Configured == disk.mode \in {"server", "client"}
KnownConfigured == Configured => cache.mode \in {"none", disk.mode}

\* One setup at a time is at work, on a system that is not configured until
\* it saves; what it has made of the file is there.
OneAtWork ==
    /\ \A g, h \in Callers : Active(g) /\ Active(h) => g = h
    /\ \A h \in Callers :
         /\ pc[h] \notin {"idle", "refresh"} => ~Configured
         /\ pc[h] = "refresh" => Configured /\ disk.by = h
         /\ pc[h] = "seed" => conn[h] = "live"
         /\ pc[h] \in {"settings", "demo"} \/ (pc[h] = "save" /\ mode[h] # "client_only") =>
              db.tables = "full" /\ h \in db.admins

\* The runtime client of a system someone was told is configured.
RuntimeFresh == \A h \in Callers : answer[h] = "ok" => runtime # "removed"

\* A server configuration stands on its database and its administrator, and who
\* was told of success has written the configuration.
ServerWhole ==
    disk.mode = "server" =>
        db.tables = "full" /\ disk.by \in db.admins /\ cache.mode \in {"none", "server"}
SuccessStands == \A h \in Callers : answer[h] = "ok" => Configured /\ disk.by = h

Calm == ServerWhole /\ SuccessStands /\ KnownConfigured /\ OneAtWork /\ RuntimeFresh

Unanswered == \A h \in Callers : Active(h) => answer[h] = None

SetupInv == TypeOK /\ FileWhole /\ Unanswered /\ (~disturbed => Calm)

----------------------------------------------------------------------------
(* The database file *)

Dbs == [tables : Tables \cup {"missing"}, admins : SUBSET Callers]

Full(d) == [d EXCEPT !.tables = "full"]
Partial(d) == [d EXCEPT !.tables = "partial"]
WithAdmin(d, h) == [d EXCEPT !.admins = @ \cup {h}]

LEMMA FileChanged ==
    ASSUME NEW d \in Dbs, NEW h \in Callers
    PROVE  /\ d.tables \in Tables \cup {"missing"} /\ d.admins \subseteq Callers
           /\ Full(d) \in Dbs /\ Full(d).tables = "full" /\ Full(d).admins = d.admins
           /\ Partial(d) \in Dbs /\ Partial(d).tables = "partial" /\ Partial(d).admins = d.admins
           /\ WithAdmin(d, h) \in Dbs /\ WithAdmin(d, h).tables = d.tables
           /\ WithAdmin(d, h).admins = d.admins \cup {h}
BY DEF Dbs, Tables, Full, Partial, WithAdmin

LEMMA NewFiles ==
    /\ Missing \in Dbs /\ Missing.tables = "missing" /\ Missing.admins = {}
    /\ Blank \in Dbs /\ Blank.tables = "empty" /\ Blank.admins = {}
    /\ Imported \in Dbs /\ Imported.tables = "full" /\ Imported.admins = {}
BY DEF Dbs, Missing, Blank, Imported, Tables

\* A client that connects leaves what is there.
LEMMA Opened ==
    ASSUME db \in Dbs, FileWhole
    PROVE  /\ db = Missing <=> db.tables = "missing"
           /\ OpenedDb \in Dbs /\ OpenedDb.admins = db.admins
           /\ OpenedDb.tables = IF db.tables = "missing" THEN "empty" ELSE db.tables
           /\ OpenedDb.tables # "missing"
<1>1. db = Missing <=> db.tables = "missing"
  BY DEF Dbs, Missing, FileWhole
<1> QED BY <1>1, NewFiles DEF OpenedDb, FileWhole, Missing

\* The file is replaced, or given its tables in one step where the engine works.
LEMMA MigratedFile ==
    ASSUME NEW d \in Dbs
    PROVE  /\ Migrated(d) \in Dbs /\ Migrated(d).admins = d.admins
           /\ Migrated(d).tables = IF pushWorks THEN "full" ELSE d.tables
<1>1. Full(d) \in Dbs /\ Full(d).tables = "full" /\ Full(d).admins = d.admins
  BY DEF Dbs, Tables, Full
<1>2. Migrated(d) = IF pushWorks THEN Full(d) ELSE d
  BY DEF Migrated, Full
<1> QED BY <1>1, <1>2

----------------------------------------------------------------------------
(* The configuration *)

ConfigFacts ==
    /\ NoConfig \in Configs /\ NoConfig.mode = "none"
    /\ SetupModeConfig \in Configs /\ SetupModeConfig.mode = "setup"

LEMMA ConfigValues == ConfigFacts
BY DEF ConfigFacts, NoConfig, SetupModeConfig, Configs

LEMMA LoadedType ==
    ASSUME TypeOK
    PROVE  LoadedConfig \in Configs /\ ConfigSync \in Configs
BY ConfigValues DEF ConfigFacts, TypeOK, LoadedConfig, ConfigSync, ValidateLoadedConfig

\* A system that is configured is taken for nothing else: whatever a request
\* loads, it loads the mode on disk.
LEMMA ConfiguredLoaded ==
    ASSUME SetupInv, ~disturbed, Configured
    PROVE  /\ LoadedConfig.mode \in {"none", disk.mode} /\ ConfigSync.mode \in {"none", disk.mode}
           /\ ~IsSetupMode
<1>1. db = Missing <=> db.tables = "missing"
  BY Opened DEF SetupInv, TypeOK, Dbs
<1>2. disk.mode = "server" => db # Missing
  BY <1>1 DEF SetupInv, Calm, ServerWhole
<1>3. \A c \in {disk, cache} : ValidateLoadedConfig(c).mode = c.mode
  BY <1>2 DEF ValidateLoadedConfig, SetupInv, Calm, KnownConfigured, Configured
<1>4. disk # NoConfig
  BY ConfigValues DEF ConfigFacts, Configured
<1>5. LoadedConfig.mode \in {"none", disk.mode}
  BY <1>3, <1>4 DEF LoadedConfig, SetupInv, Calm, KnownConfigured
<1>6. ConfigSync = LoadedConfig
  BY <1>4 DEF ConfigSync
<1> QED BY <1>5, <1>6 DEF IsSetupMode, Configured

----------------------------------------------------------------------------
(* The inductive invariant *)

LEMMA SetupInitial == Init => SetupInv
<1> SUFFICES ASSUME Init PROVE SetupInv
  OBVIOUS
<1>1. TypeOK
  <2>1. db \in [tables : Tables \cup {"missing"}, admins : SUBSET Callers]
    BY NewFiles DEF Init, Dbs
  <2>2. disk \in Configs /\ cache \in Configs
    BY ConfigValues DEF Init, ConfigFacts
  <2>3. /\ conn \in [Callers -> Tables \cup {"closed", "live"}] /\ pc \in [Callers -> Steps]
        /\ mode \in [Callers -> Modes \cup {None}]
        /\ answer \in [Callers -> {None, "ok", "failed", "refused"}]
    BY DEF Init, Steps
  <2>4. mishaps \in 0 .. MaxMishaps
    BY DEF Init
  <2> QED BY <2>1, <2>2, <2>3, <2>4 DEF Init, TypeOK
<1>2. FileWhole
  BY NewFiles DEF Init, FileWhole
<1>3. \A h \in Callers : pc[h] = "idle" /\ answer[h] = None
  BY DEF Init
<1>4. ~Configured
  BY ConfigValues DEF Init, ConfigFacts, Configured
<1>5. Calm
  BY <1>3, <1>4
  DEF Calm, ServerWhole, SuccessStands, KnownConfigured, Configured, OneAtWork, RuntimeFresh,
      Active
<1> QED BY <1>1, <1>2, <1>3, <1>5 DEF SetupInv, Unanswered

\* The file is replaced for all who have it open.
LEMMA Replaced ==
    ASSUME TypeOK, NEW d \in Dbs, d.tables = "missing" => d.admins = {},
           NEW client \in {"closed", "live", "removed"}, FileWhole, ReplaceWith(d, client)
    PROVE  /\ db' = d /\ runtime' \in {"closed", "removed"} /\ (client = "closed" => runtime' = "closed")
           /\ conn' \in [Callers -> Tables \cup {"closed"}]
           /\ FileWhole'
<1>1. \A h \in Callers : Orphaned(conn[h]) \in Tables \cup {"closed"}
  BY DEF Orphaned, TypeOK, FileWhole
<1>2. conn' \in [Callers -> Tables \cup {"closed"}]
  BY <1>1 DEF ReplaceWith
<1>3. \A t \in Tables \cup {"closed"} : t # "live"
  BY DEF Tables
<1> QED BY <1>2, <1>3 DEF ReplaceWith, FileWhole

\* What a setup under way says of the rest while nothing was disturbed.
LEMMA AtWork ==
    ASSUME SetupInv, ~disturbed, NEW h \in Callers, Active(h)
    PROVE  /\ \A g \in Callers \ {h} : pc[g] = "idle"
           /\ \A g \in Callers : answer[g] = "ok" => pc[h] = "refresh" /\ g # h
           /\ pc[h] # "refresh" => ~Configured /\ \A g \in Callers : answer[g] # "ok"
<1>1. \A g \in Callers \ {h} : pc[g] = "idle"
  BY DEF SetupInv, Calm, OneAtWork, Active
<1>2. pc[h] # "refresh" => ~Configured
  BY DEF SetupInv, Calm, OneAtWork, Active
<1>3. \A g \in Callers : answer[g] = "ok" => Configured /\ g # h
  BY DEF SetupInv, Calm, SuccessStands, Unanswered
<1> QED BY <1>1, <1>2, <1>3

\* A step of a setup that is at work, after which it is at another step or has
\* failed, and which writes no configuration.
LEMMA WorkCalm ==
    ASSUME SetupInv, ~disturbed, NEW h \in Callers, Active(h), pc[h] # "refresh",
           UNCHANGED <<disk, cache>>, pc' \in [Callers -> Steps],
           \A g \in Callers \ {h} : pc'[g] = pc[g] /\ answer'[g] = answer[g],
           pc'[h] # "refresh", answer'[h] # "ok",
           pc'[h] = "seed" => conn'[h] = "live",
           pc'[h] \in {"settings", "demo"} \/ (pc'[h] = "save" /\ mode'[h] # "client_only") =>
               db'.tables = "full" /\ h \in db'.admins
    PROVE  Calm'
<1>1. /\ \A g \in Callers \ {h} : pc[g] = "idle"
      /\ ~Configured /\ \A g \in Callers : answer[g] # "ok"
  BY AtWork
<1>2. ~Configured' /\ \A g \in Callers : answer'[g] # "ok"
  BY <1>1 DEF Configured
<1>3. OneAtWork'
  BY <1>1, <1>2 DEF OneAtWork, Active
<1> QED
  BY <1>2, <1>3 DEF Calm, ServerWhole, SuccessStands, KnownConfigured, RuntimeFresh, Configured

\* The steps of a setup keep the invariant.
LEMMA StepKept ==
    ASSUME SetupInv, NEW h \in Callers, SetupStep(h)
    PROVE  SetupInv'
<1> USE DEF Goto, files, reply, aux
<1>t. /\ TypeOK /\ FileWhole /\ db \in Dbs /\ pc \in [Callers -> Steps]
      /\ mode \in [Callers -> Modes \cup {None}]
      /\ answer \in [Callers -> {None, "ok", "failed", "refused"}]
      /\ conn \in [Callers -> Tables \cup {"closed", "live"}]
      /\ runtime \in {"closed", "live", "removed"} /\ mishaps \in 0 .. MaxMishaps
      /\ pushWorks \in BOOLEAN /\ disturbed \in BOOLEAN /\ disk \in Configs /\ cache \in Configs
      /\ Unanswered
  BY DEF SetupInv, TypeOK, Dbs
<1>o. /\ db = Missing <=> db.tables = "missing"
      /\ OpenedDb \in Dbs /\ OpenedDb.admins = db.admins
      /\ OpenedDb.tables = IF db.tables = "missing" THEN "empty" ELSE db.tables
      /\ OpenedDb.tables # "missing"
  BY <1>t, Opened
<1> DEFINE Typed == /\ db' \in Dbs /\ runtime' \in {"closed", "live", "removed"}
                    /\ conn' \in [Callers -> Tables \cup {"closed", "live"}]
                    /\ pc' \in [Callers -> Steps] /\ mode' \in [Callers -> Modes \cup {None}]
                    /\ answer' \in [Callers -> {None, "ok", "failed", "refused"}]
                    /\ disk' \in Configs /\ cache' \in Configs /\ pushWorks' \in BOOLEAN
                    /\ mishaps' \in 0 .. MaxMishaps /\ disturbed' \in BOOLEAN
<1>q. ASSUME Typed, FileWhole', Unanswered', UNCHANGED disturbed, ~disturbed => Calm'
      PROVE  SetupInv'
  BY <1>q DEF SetupInv, TypeOK, Dbs
<1> HIDE DEF Typed
<1>1. CASE ReplaceFresh(h)
  <2>1. /\ pc[h] = "replace" /\ mode[h] \in {"fresh", "demo_dataset"}
        /\ ReplaceWith(IF pushWorks THEN Migrated(Blank) ELSE Missing, "closed")
        /\ pc' = [pc EXCEPT ![h] = IF pushWorks THEN "connect" ELSE "migrate"]
        /\ UNCHANGED <<disk, cache, mode, answer, pushWorks, mishaps, disturbed>>
    BY <1>1 DEF ReplaceFresh, Migrate
  <2> DEFINE d == IF pushWorks THEN Migrated(Blank) ELSE Missing
  <2>2. d \in Dbs /\ d.admins = {}
    BY NewFiles, MigratedFile
  <2> HIDE DEF d
  <2>3. ReplaceWith(d, "closed")
    BY <2>1 DEF d
  <2>4. /\ db' = d /\ runtime' = "closed" /\ FileWhole'
        /\ conn' \in [Callers -> Tables \cup {"closed"}]
    BY <1>t, <2>2, <2>3, Replaced
  <2>5. Typed
    BY <1>t, <2>1, <2>2, <2>4 DEF Typed, Steps
  <2>6. Unanswered'
    BY <1>t, <2>1 DEF Unanswered, Active
  <2>7. ~disturbed => Calm'
    BY <1>t, <2>1, <2>5, <2>6, WorkCalm DEF Active, Unanswered, Typed
  <2> QED BY <1>q, <2>1, <2>4, <2>5, <2>6, <2>7
<1>2. CASE ReplaceByCopy(h)
  <2>1. /\ pc[h] \in {"replace", "decrypt"}
        /\ ReplaceWith(Migrated(Imported), IF pc[h] = "replace" THEN "closed" ELSE runtime)
        /\ pc' = [pc EXCEPT ![h] = IF pushWorks THEN "connect" ELSE "migrate"]
        /\ UNCHANGED <<disk, cache, mode, answer, pushWorks, mishaps, disturbed>>
    BY <1>2 DEF ReplaceByCopy, Migrate
  <2>2. Migrated(Imported) \in Dbs /\ Migrated(Imported).tables = "full"
    BY NewFiles, MigratedFile
  <2>3. /\ db' = Migrated(Imported) /\ runtime' \in {"closed", "removed"} /\ FileWhole'
        /\ conn' \in [Callers -> Tables \cup {"closed"}]
    BY <1>t, <2>1, <2>2, Replaced
  <2>4. Typed
    BY <1>t, <2>1, <2>2, <2>3 DEF Typed, Steps
  <2>5. Unanswered'
    BY <1>t, <2>1 DEF Unanswered, Active
  <2>6. ~disturbed => Calm'
    BY <1>t, <2>1, <2>4, <2>5, WorkCalm DEF Active, Unanswered, Typed
  <2> QED BY <1>q, <2>1, <2>3, <2>4, <2>5, <2>6
<1>3. CASE StartDecrypting(h)
  <2>1. /\ pc[h] = "replace" /\ pc' = [pc EXCEPT ![h] = "decrypt"] /\ runtime' = "closed"
        /\ UNCHANGED <<disk, cache, db, conn, mode, answer, pushWorks, mishaps, disturbed>>
    BY <1>3 DEF StartDecrypting
  <2>2. Typed
    BY <1>t, <2>1 DEF Typed, Steps
  <2>3. Unanswered' /\ FileWhole'
    BY <1>t, <2>1 DEF Unanswered, Active, FileWhole
  <2>4. ~disturbed => Calm'
    BY <1>t, <2>1, <2>2, <2>3, WorkCalm DEF Active, Unanswered, Typed
  <2> QED BY <1>q, <2>1, <2>2, <2>3, <2>4
<1>4. CASE ReplaceBySame(h)
  <2>1. /\ pc[h] = "replace" /\ db # Missing /\ db' = Migrated(db) /\ runtime' = "closed"
        /\ pc' = [pc EXCEPT ![h] = IF pushWorks THEN "connect" ELSE "migrate"]
        /\ UNCHANGED <<disk, cache, conn, mode, answer, pushWorks, mishaps, disturbed>>
    BY <1>4 DEF ReplaceBySame, Migrate
  <2>2. db' \in Dbs /\ db'.tables # "missing"
    BY <1>o, <1>t, <2>1, MigratedFile
  <2>3. Typed
    BY <1>t, <2>1, <2>2 DEF Typed, Steps
  <2>4. Unanswered' /\ FileWhole'
    BY <1>t, <2>1, <2>2 DEF Unanswered, Active, FileWhole
  <2>5. ~disturbed => Calm'
    BY <1>t, <2>1, <2>3, <2>4, WorkCalm DEF Active, Unanswered, Typed
  <2> QED BY <1>q, <2>1, <2>3, <2>4, <2>5
<1>5. CASE SourceUnusable(h)
  <2>1. /\ pc[h] \in {"replace", "decrypt"} /\ runtime' \in {"closed", runtime}
        /\ pc' = [pc EXCEPT ![h] = "idle"] /\ mode' = [mode EXCEPT ![h] = None]
        /\ answer' = [answer EXCEPT ![h] = "failed"]
        /\ UNCHANGED <<disk, cache, db, conn, pushWorks, mishaps, disturbed>>
    BY <1>5 DEF SourceUnusable, End
  <2>2. Typed
    BY <1>t, <2>1 DEF Typed, Steps
  <2>3. Unanswered' /\ FileWhole'
    BY <1>t, <2>1 DEF Unanswered, Active, FileWhole
  <2>4. ~disturbed => Calm'
    BY <1>t, <2>1, <2>2, <2>3, WorkCalm DEF Active, Unanswered, Typed
  <2> QED BY <1>q, <2>1, <2>2, <2>3, <2>4
<1>6. CASE StartMigrating(h)
  <2>1. /\ pc[h] = "migrate" /\ db' = Partial(OpenedDb)
        /\ conn' = [conn EXCEPT ![h] = "live"] /\ pc' = [pc EXCEPT ![h] = "migrating"]
        /\ UNCHANGED <<disk, cache, runtime, mode, answer, pushWorks, mishaps, disturbed>>
    BY <1>6 DEF StartMigrating, Partial
  <2>2. db' \in Dbs /\ db'.tables = "partial"
    BY <1>o, <2>1, FileChanged
  <2>3. Typed
    BY <1>t, <2>1, <2>2 DEF Typed, Steps
  <2>4. Unanswered' /\ FileWhole'
    BY <1>t, <2>1, <2>2 DEF Unanswered, Active, FileWhole
  <2>5. ~disturbed => Calm'
    BY <1>t, <2>1, <2>2, <2>3, <2>4, WorkCalm DEF Active, Unanswered, Typed
  <2> QED BY <1>q, <2>1, <2>3, <2>4, <2>5
<1>7. CASE FinishMigrating(h)
  <2>1. /\ pc[h] = "migrating" /\ db' = IF conn[h] = "live" THEN Full(db) ELSE db
        /\ conn' = [conn EXCEPT ![h] = "closed"]
        /\ pc' = [pc EXCEPT ![h] = IF mode[h] = "client_only" THEN "save" ELSE "connect"]
        /\ UNCHANGED <<disk, cache, runtime, mode, answer, pushWorks, mishaps, disturbed>>
    BY <1>7 DEF FinishMigrating, Full
  <2>2. /\ db' \in Dbs /\ (db'.tables = "missing" => db'.admins = {})
        /\ \A g \in Callers : conn[g] = "live" => db'.tables # "missing"
        /\ runtime = "live" => db'.tables # "missing"
    BY <1>t, <2>1, FileChanged DEF FileWhole
  <2>3. Typed
    BY <1>t, <2>1, <2>2 DEF Typed, Steps
  <2>4. Unanswered' /\ FileWhole'
    BY <1>t, <2>1, <2>2 DEF Unanswered, Active, FileWhole
  <2>5. ~disturbed => Calm'
    BY <1>t, <2>1, <2>2, <2>3, <2>4, WorkCalm DEF Active, Unanswered, Typed
  <2> QED BY <1>q, <2>1, <2>3, <2>4, <2>5
<1>8. CASE MigrationFails(h)
  <2>1. /\ pc[h] = "migrate"
        /\ pc' = [pc EXCEPT ![h] = "idle"] /\ mode' = [mode EXCEPT ![h] = None]
        /\ answer' = [answer EXCEPT ![h] = "failed"]
        /\ UNCHANGED <<disk, cache, db, runtime, conn, pushWorks, mishaps, disturbed>>
    BY <1>8 DEF MigrationFails, End
  <2>2. db' \in Dbs
    BY <1>t, <2>1
  <2>3. Typed
    BY <1>t, <2>1, <2>2 DEF Typed, Steps
  <2>4. Unanswered' /\ FileWhole'
    BY <1>t, <2>1, <2>2 DEF Unanswered, Active, FileWhole
  <2>5. ~disturbed => Calm'
    BY <1>t, <2>1, <2>2, <2>3, <2>4, WorkCalm DEF Active, Unanswered, Typed
  <2> QED BY <1>q, <2>1, <2>3, <2>4, <2>5
<1>9. CASE Connect(h)
  <2>1. /\ pc[h] = "connect" /\ db' = OpenedDb
        /\ conn' = [conn EXCEPT ![h] = "live"] /\ pc' = [pc EXCEPT ![h] = "seed"]
        /\ UNCHANGED <<disk, cache, runtime, mode, answer, pushWorks, mishaps, disturbed>>
    BY <1>9 DEF Connect
  <2>2. db' \in Dbs /\ db'.tables # "missing"
    BY <1>o, <2>1
  <2>3. Typed
    BY <1>t, <2>1, <2>2 DEF Typed, Steps
  <2>4. Unanswered' /\ FileWhole'
    BY <1>t, <2>1, <2>2 DEF Unanswered, Active, FileWhole
  <2>5. ~disturbed => Calm'
    BY <1>t, <2>1, <2>2, <2>3, <2>4, WorkCalm DEF Active, Unanswered, Typed
  <2> QED BY <1>q, <2>1, <2>3, <2>4, <2>5
<1>10. CASE CreateAdminUser(h)
  <2>1. /\ pc[h] = "seed" /\ Seen(h) = "full"
        /\ db' = IF conn[h] = "live" THEN WithAdmin(db, h) ELSE db
        /\ pc' = [pc EXCEPT ![h] = "settings"]
        /\ UNCHANGED <<disk, cache, runtime, conn, mode, answer, pushWorks, mishaps, disturbed>>
    BY <1>10 DEF CreateAdminUser, WithAdmin
  <2>2. /\ db' \in Dbs /\ db'.tables = db.tables /\ (db'.tables = "missing" => db'.admins = {})
        /\ ~disturbed => db'.tables = "full" /\ h \in db'.admins
    <3>1. ~disturbed => conn[h] = "live"
      BY <2>1 DEF SetupInv, Calm, OneAtWork
    <3> QED BY <1>t, <2>1, <3>1, FileChanged DEF FileWhole, Seen
  <2>3. Typed
    BY <1>t, <2>1, <2>2 DEF Typed, Steps
  <2>4. Unanswered' /\ FileWhole'
    BY <1>t, <2>1, <2>2 DEF Unanswered, Active, FileWhole
  <2>5. ~disturbed => Calm'
    BY <1>t, <2>1, <2>2, <2>3, <2>4, WorkCalm DEF Active, Unanswered, Typed
  <2> QED BY <1>q, <2>1, <2>3, <2>4, <2>5
<1>11. CASE EnsureDefaultSystemSettings(h)
  <2>1. /\ pc[h] = "settings" /\ conn' = [conn EXCEPT ![h] = "closed"]
        /\ pc' = [pc EXCEPT ![h] = IF mode[h] = "demo_dataset" THEN "demo" ELSE "save"]
        /\ UNCHANGED <<disk, cache, db, runtime, mode, answer, pushWorks, mishaps, disturbed>>
    BY <1>11 DEF EnsureDefaultSystemSettings
  <2>2. db' \in Dbs /\ (~disturbed => db'.tables = "full" /\ h \in db'.admins)
    BY <1>t, <2>1 DEF SetupInv, Calm, OneAtWork
  <2>3. Typed
    BY <1>t, <2>1, <2>2 DEF Typed, Steps
  <2>4. Unanswered' /\ FileWhole'
    BY <1>t, <2>1, <2>2 DEF Unanswered, Active, FileWhole
  <2>5. ~disturbed => Calm'
    BY <1>t, <2>1, <2>2, <2>3, <2>4, WorkCalm DEF Active, Unanswered, Typed
  <2> QED BY <1>q, <2>1, <2>3, <2>4, <2>5
<1>12. CASE SeedFails(h)
  <2>1. /\ pc[h] \in {"seed", "settings"} /\ conn' = [conn EXCEPT ![h] = "closed"]
        /\ pc' = [pc EXCEPT ![h] = "idle"] /\ mode' = [mode EXCEPT ![h] = None]
        /\ answer' = [answer EXCEPT ![h] = "failed"]
        /\ UNCHANGED <<disk, cache, db, runtime, pushWorks, disturbed>>
    BY <1>12 DEF SeedFails, End
  <2>2. db' \in Dbs /\ mishaps' \in 0 .. MaxMishaps
    <3>1. mishaps' = mishaps \/ (mishaps < MaxMishaps /\ mishaps' = mishaps + 1)
      BY <1>12 DEF SeedFails, Mishap
    <3> QED BY <1>t, <2>1, <3>1
  <2>3. Typed
    BY <1>t, <2>1, <2>2 DEF Typed, Steps
  <2>4. Unanswered' /\ FileWhole'
    BY <1>t, <2>1, <2>2 DEF Unanswered, Active, FileWhole
  <2>5. ~disturbed => Calm'
    BY <1>t, <2>1, <2>2, <2>3, <2>4, WorkCalm DEF Active, Unanswered, Typed
  <2> QED BY <1>q, <2>1, <2>3, <2>4, <2>5
<1>13. CASE LoadDemoDataset(h)
  <2>1. /\ pc[h] = "demo" /\ pc' = [pc EXCEPT ![h] = "save"]
        /\ db' = IF runtime = "closed" THEN OpenedDb ELSE db
        /\ runtime' = IF runtime = "closed" THEN "live" ELSE runtime
        /\ UNCHANGED <<disk, cache, conn, mode, answer, pushWorks, mishaps, disturbed>>
    BY <1>13 DEF LoadDemoDataset
  <2>2. /\ db' \in Dbs /\ (db'.tables = "missing" => db'.admins = {})
        /\ runtime' = "live" => db'.tables # "missing"
        /\ \A g \in Callers : conn[g] = "live" => db'.tables # "missing"
        /\ ~disturbed => db'.tables = "full" /\ h \in db'.admins
    BY <1>o, <1>t, <2>1 DEF SetupInv, Calm, OneAtWork, FileWhole
  <2>3. Typed
    BY <1>t, <2>1, <2>2 DEF Typed, Steps
  <2>4. Unanswered' /\ FileWhole'
    BY <1>t, <2>1, <2>2 DEF Unanswered, Active, FileWhole
  <2>5. ~disturbed => Calm'
    BY <1>t, <2>1, <2>2, <2>3, <2>4, WorkCalm DEF Active, Unanswered, Typed
  <2> QED BY <1>q, <2>1, <2>3, <2>4, <2>5
<1>14. CASE DemoFails(h)
  <2>1. /\ pc[h] = "demo"
        /\ pc' = [pc EXCEPT ![h] = "idle"] /\ mode' = [mode EXCEPT ![h] = None]
        /\ answer' = [answer EXCEPT ![h] = "failed"]
        /\ db' = IF runtime = "closed" THEN OpenedDb ELSE db
        /\ runtime' = IF runtime = "closed" THEN "live" ELSE runtime
        /\ UNCHANGED <<disk, cache, conn, pushWorks, mishaps, disturbed>>
    BY <1>14 DEF DemoFails, End
  <2>2. /\ db' \in Dbs /\ (db'.tables = "missing" => db'.admins = {})
        /\ runtime' = "live" => db'.tables # "missing"
        /\ \A g \in Callers : conn[g] = "live" => db'.tables # "missing"
    BY <1>o, <1>t, <2>1 DEF FileWhole
  <2>3. Typed
    BY <1>t, <2>1, <2>2 DEF Typed, Steps
  <2>4. Unanswered' /\ FileWhole'
    BY <1>t, <2>1, <2>2 DEF Unanswered, Active, FileWhole
  <2>5. ~disturbed => Calm'
    BY <1>t, <2>1, <2>2, <2>3, <2>4, WorkCalm DEF Active, Unanswered, Typed
  <2> QED BY <1>q, <2>1, <2>3, <2>4, <2>5
<1>15. CASE SaveConfiguration(h)
  <2> DEFINE c == [mode |-> IF mode[h] = "client_only" THEN "client" ELSE "server", by |-> h]
  <2>1. /\ pc[h] = "save" /\ disk' = c /\ cache' = c /\ pc' = [pc EXCEPT ![h] = "refresh"]
        /\ UNCHANGED <<db, runtime, conn, mode, answer, pushWorks, mishaps, disturbed>>
    BY <1>15 DEF SaveConfiguration, SaveConfig
  <2>2. /\ c \in Configs /\ c.by = h /\ c.mode \in {"server", "client"}
        /\ c.mode = "server" <=> mode[h] # "client_only"
    BY DEF Configs
  <2> HIDE DEF c
  <2>3. Typed
    BY <1>t, <2>1, <2>2 DEF Typed, Steps
  <2>4. Unanswered' /\ FileWhole'
    BY <1>t, <2>1 DEF Unanswered, Active, FileWhole
  <2>5. ASSUME ~disturbed PROVE Calm'
    <3>1. /\ \A g \in Callers \ {h} : pc[g] = "idle"
          /\ \A g \in Callers : answer[g] # "ok"
      BY <2>1, <2>5, AtWork DEF Active
    <3>2. c.mode = "server" => db.tables = "full" /\ h \in db.admins
      BY <2>1, <2>2, <2>5 DEF SetupInv, Calm, OneAtWork
    <3>3. /\ \A g \in Callers \ {h} : pc'[g] = "idle"
          /\ \A g \in Callers : answer'[g] # "ok"
          /\ pc'[h] = "refresh"
      BY <1>t, <2>1, <3>1
    <3>4. OneAtWork'
      BY <2>1, <2>2, <3>3 DEF OneAtWork, Active, Configured
    <3> QED BY <2>1, <2>2, <3>2, <3>3, <3>4
      DEF Calm, ServerWhole, SuccessStands, KnownConfigured, RuntimeFresh, Configured
  <2> QED BY <1>q, <2>1, <2>3, <2>4, <2>5
<1>16. CASE RefreshAndAnswer(h)
  <2>1. /\ pc[h] = "refresh" /\ runtime' = "closed"
        /\ pc' = [pc EXCEPT ![h] = "idle"] /\ mode' = [mode EXCEPT ![h] = None]
        /\ answer' = [answer EXCEPT ![h] = "ok"]
        /\ UNCHANGED <<disk, cache, db, conn, pushWorks, mishaps, disturbed>>
    BY <1>16 DEF RefreshAndAnswer, End
  <2>3. Typed
    BY <1>t, <2>1 DEF Typed, Steps
  <2>4. Unanswered' /\ FileWhole'
    BY <1>t, <2>1 DEF Unanswered, Active, FileWhole
  <2>5. ASSUME ~disturbed PROVE Calm'
    <3>1. /\ \A g \in Callers \ {h} : pc[g] = "idle" /\ (answer[g] = "ok" => disk.by = g)
          /\ Configured /\ disk.by = h
      BY <2>1, <2>5, AtWork DEF Active, SetupInv, Calm, OneAtWork, SuccessStands
    <3>2. \A g \in Callers : pc'[g] = "idle" /\ (answer'[g] = "ok" => disk.by = g)
      BY <1>t, <2>1, <3>1
    <3> QED BY <2>1, <2>5, <3>1, <3>2
      DEF SetupInv, Calm, ServerWhole, SuccessStands, KnownConfigured, OneAtWork, RuntimeFresh,
          Configured, Active
  <2> QED BY <1>q, <2>1, <2>3, <2>4, <2>5
<1> QED
  BY <1>1, <1>2, <1>3, <1>4, <1>5, <1>6, <1>7, <1>8, <1>9, <1>10, <1>11, <1>12, <1>13, <1>14,
     <1>15, <1>16
  DEF SetupStep

\* Configurations loaded or saved again change nothing that is configured.
LEMMA CacheCalm ==
    ASSUME SetupInv, ~disturbed, cache' \in {LoadedConfig, ConfigSync},
           UNCHANGED <<disk, db, runtime, conn, pc, mode>>,
           \A h \in Callers : answer'[h] = answer[h] \/ answer'[h] \in {None, "refused"}
    PROVE  Calm'
<1>1. ServerWhole' /\ KnownConfigured'
  BY ConfiguredLoaded DEF SetupInv, Calm, ServerWhole, KnownConfigured, Configured
<1> QED
  BY <1>1 DEF SetupInv, Calm, SuccessStands, OneAtWork, RuntimeFresh, Configured, Active

LEMMA SetupKept == SetupInv /\ [Next]_vars => SetupInv'
<1> SUFFICES ASSUME SetupInv, [Next]_vars PROVE SetupInv'
  OBVIOUS
<1> USE DEF Goto, files, reply, aux, SaveConfig
<1>t. /\ TypeOK /\ FileWhole /\ db \in Dbs /\ pc \in [Callers -> Steps]
      /\ mode \in [Callers -> Modes \cup {None}]
      /\ answer \in [Callers -> {None, "ok", "failed", "refused"}]
      /\ conn \in [Callers -> Tables \cup {"closed", "live"}]
      /\ runtime \in {"closed", "live", "removed"} /\ mishaps \in 0 .. MaxMishaps
      /\ pushWorks \in BOOLEAN /\ disturbed \in BOOLEAN /\ disk \in Configs /\ cache \in Configs
      /\ Unanswered /\ LoadedConfig \in Configs /\ ConfigSync \in Configs
  BY LoadedType DEF SetupInv, TypeOK, Dbs
<1>o. /\ db = Missing <=> db.tables = "missing"
      /\ OpenedDb \in Dbs /\ OpenedDb.admins = db.admins
      /\ OpenedDb.tables = IF db.tables = "missing" THEN "empty" ELSE db.tables
      /\ OpenedDb.tables # "missing"
  BY <1>t, Opened
<1> DEFINE Typed == /\ db' \in Dbs /\ runtime' \in {"closed", "live", "removed"}
                    /\ conn' \in [Callers -> Tables \cup {"closed", "live"}]
                    /\ pc' \in [Callers -> Steps] /\ mode' \in [Callers -> Modes \cup {None}]
                    /\ answer' \in [Callers -> {None, "ok", "failed", "refused"}]
                    /\ disk' \in Configs /\ cache' \in Configs /\ pushWorks' \in BOOLEAN
                    /\ mishaps' \in 0 .. MaxMishaps /\ disturbed' \in BOOLEAN
<1>q. ASSUME Typed, FileWhole', Unanswered', ~disturbed' => Calm' PROVE SetupInv'
  BY <1>q DEF SetupInv, TypeOK, Dbs
<1> HIDE DEF Typed
\* A setup that begins finds a system that is not configured.
<1>b. ASSUME ~disturbed, IsSetupMode PROVE ~Configured /\ \A h \in Callers : answer[h] # "ok"
  BY <1>b, ConfiguredLoaded DEF SetupInv, Calm, SuccessStands
<1>1. ASSUME NEW h \in Callers, NEW m \in Modes \ {"client_only"}, Begin(h, m) PROVE SetupInv'
  <2>1. /\ pc[h] = "idle" /\ IsSetupMode /\ cache' = ConfigSync
        /\ pc' = [pc EXCEPT ![h] = "replace"] /\ mode' = [mode EXCEPT ![h] = m]
        /\ answer' = [answer EXCEPT ![h] = None]
        /\ disturbed' = (disturbed \/ \E g \in Callers \ {h} : Active(g))
        /\ UNCHANGED <<disk, db, runtime, conn, pushWorks, mishaps>>
    BY <1>1 DEF Begin, Accept
  <2>2. Typed
    <3>1. disturbed' \in BOOLEAN
      BY <2>1
    <3> QED BY <1>t, <2>1, <3>1 DEF Typed, Steps
  <2>3. Unanswered' /\ FileWhole'
    BY <1>t, <2>1 DEF Unanswered, Active, FileWhole
  <2>4. ASSUME ~disturbed' PROVE Calm'
    <3>1. ~disturbed /\ \A g \in Callers \ {h} : pc[g] = "idle"
      BY <2>1, <2>4 DEF Active
    <3>2. ~Configured' /\ \A g \in Callers : answer'[g] # "ok"
      BY <1>b, <1>t, <2>1, <3>1 DEF Configured
    <3> QED BY <1>t, <2>1, <3>1, <3>2
      DEF Calm, ServerWhole, SuccessStands, KnownConfigured, OneAtWork, RuntimeFresh, Configured,
          Active
  <2> QED BY <1>q, <2>2, <2>3, <2>4
<1>2. ASSUME NEW h \in Callers, BeginClientOnly(h) PROVE SetupInv'
  <2> DEFINE c == [mode |-> "client", by |-> h]
  <2>1. /\ pc[h] = "idle" /\ IsSetupMode /\ "client_only" \in Modes
        /\ pc' = [pc EXCEPT ![h] = IF pushWorks THEN "refresh" ELSE "migrate"]
        /\ mode' = [mode EXCEPT ![h] = "client_only"]
        /\ answer' = [answer EXCEPT ![h] = None]
        /\ disturbed' = (disturbed \/ \E g \in Callers \ {h} : Active(g))
        /\ IF pushWorks THEN db' = Full(OpenedDb) /\ disk' = c /\ cache' = c
                        ELSE cache' = LoadedConfig /\ UNCHANGED <<disk, db>>
        /\ UNCHANGED <<runtime, conn, pushWorks, mishaps>>
    BY <1>2 DEF BeginClientOnly, Accept, Full
  <2>2. /\ c \in Configs /\ c.mode = "client" /\ c.by = h
        /\ Full(OpenedDb) \in Dbs /\ Full(OpenedDb).tables = "full"
    BY <1>o, FileChanged DEF Configs
  <2> HIDE DEF c
  <2>3. Typed
    <3>1. disturbed' \in BOOLEAN
      BY <2>1
    <3> QED BY <1>t, <2>1, <2>2, <3>1 DEF Typed, Steps
  <2>4. Unanswered' /\ FileWhole'
    BY <1>t, <2>1, <2>2 DEF Unanswered, Active, FileWhole
  <2>5. ASSUME ~disturbed' PROVE Calm'
    <3>1. ~disturbed /\ \A g \in Callers \ {h} : pc[g] = "idle"
      BY <2>1, <2>5 DEF Active
    <3>2. ~Configured /\ \A g \in Callers : answer'[g] # "ok"
      BY <1>b, <1>t, <2>1, <3>1
    <3>3. /\ \A g \in Callers \ {h} : pc'[g] = "idle"
          /\ pc'[h] = IF pushWorks THEN "refresh" ELSE "migrate"
      BY <1>t, <2>1, <3>1
    <3> QED BY <2>1, <2>2, <3>2, <3>3
      DEF Calm, ServerWhole, SuccessStands, KnownConfigured, OneAtWork, RuntimeFresh, Configured,
          Active
  <2> QED BY <1>q, <2>3, <2>4, <2>5
<1>3. ASSUME NEW h \in Callers, Refused(h) PROVE SetupInv'
  <2>1. /\ pc[h] = "idle" /\ cache' = ConfigSync /\ answer' = [answer EXCEPT ![h] = "refused"]
        /\ UNCHANGED <<disk, db, runtime, conn, pc, mode, pushWorks, mishaps, disturbed>>
    BY <1>3 DEF Refused
  <2>2. Typed
    BY <1>t, <2>1 DEF Typed
  <2>3. Unanswered' /\ FileWhole'
    BY <1>t, <2>1 DEF Unanswered, Active, FileWhole
  <2>4. ~disturbed' => Calm'
    BY <1>t, <2>1, CacheCalm
  <2> QED BY <1>q, <2>2, <2>3, <2>4
<1>4. ASSUME NEW h \in Callers, SetupStep(h) PROVE SetupInv'
  BY <1>4, StepKept
<1>5. CASE LoadConfig
  <2>1. /\ cache' = LoadedConfig
        /\ UNCHANGED <<disk, db, runtime, conn, pc, mode, answer, pushWorks, mishaps, disturbed>>
    BY <1>5 DEF LoadConfig
  <2>2. Typed
    BY <1>t, <2>1 DEF Typed
  <2>3. Unanswered' /\ FileWhole'
    BY <1>t, <2>1 DEF Unanswered, Active, FileWhole
  <2>4. ~disturbed' => Calm'
    BY <2>1, CacheCalm
  <2> QED BY <1>q, <2>2, <2>3, <2>4
<1>6. CASE RuntimeQuery
  <2>1. /\ runtime = "closed" /\ runtime' = "live" /\ db' = OpenedDb
        /\ UNCHANGED <<disk, cache, conn, pc, mode, answer, pushWorks, mishaps, disturbed>>
    BY <1>6 DEF RuntimeQuery
  <2>2. Typed
    BY <1>o, <1>t, <2>1 DEF Typed
  <2>3. Unanswered' /\ FileWhole'
    BY <1>o, <1>t, <2>1 DEF Unanswered, Active, FileWhole
  <2>4. ~disturbed' => Calm'
    BY <1>o, <2>1
    DEF SetupInv, Calm, ServerWhole, SuccessStands, KnownConfigured, OneAtWork, RuntimeFresh,
        Configured, Active
  <2> QED BY <1>q, <2>2, <2>3, <2>4
<1>7. CASE SaveToken
  <2>1. /\ IsSetupMode /\ disk' = LoadedConfig /\ cache' = LoadedConfig
        /\ UNCHANGED <<db, runtime, conn, pc, mode, answer, pushWorks, mishaps, disturbed>>
    BY <1>7 DEF SaveToken
  <2>2. Typed
    BY <1>t, <2>1 DEF Typed
  <2>3. Unanswered' /\ FileWhole'
    BY <1>t, <2>1 DEF Unanswered, Active, FileWhole
  <2>4. ASSUME ~disturbed PROVE Calm'
    <3>1. ~Configured /\ \A h \in Callers : answer[h] # "ok"
      BY <1>b, <2>1, <2>4
    <3>2. ~Configured'
      BY <2>1 DEF IsSetupMode, Configured
    <3> QED BY <2>1, <2>4, <3>1, <3>2
      DEF SetupInv, Calm, ServerWhole, SuccessStands, KnownConfigured, OneAtWork, RuntimeFresh,
          Configured, Active
  <2> QED BY <1>q, <2>1, <2>2, <2>3, <2>4
<1>8. CASE ResetForDev
  <2>1. /\ mishaps < MaxMishaps /\ mishaps' = mishaps + 1 /\ ReplaceWith(Missing, runtime)
        /\ disk' = NoConfig /\ cache' = NoConfig /\ answer' = [h \in Callers |-> None]
        /\ disturbed' = (disturbed \/ \E h \in Callers : Active(h))
        /\ UNCHANGED <<pc, mode, pushWorks>>
    BY <1>8 DEF ResetForDev, Mishap
  <2>2. /\ db' = Missing /\ runtime' \in {"closed", "removed"} /\ FileWhole'
        /\ conn' \in [Callers -> Tables \cup {"closed"}]
    BY <1>t, <2>1, NewFiles, Replaced
  <2>3. Typed
    <3>1. disturbed' \in BOOLEAN /\ mishaps' \in 0 .. MaxMishaps
      BY <1>t, <2>1
    <3>2. disk' \in Configs /\ cache' \in Configs /\ db' \in Dbs
      BY <2>1, <2>2, ConfigValues, NewFiles DEF ConfigFacts
    <3> QED BY <1>t, <2>1, <2>2, <3>1, <3>2 DEF Typed
  <2>4. Unanswered'
    BY <2>1 DEF Unanswered
  <2>5. ASSUME ~disturbed' PROVE Calm'
    <3>1. ~Configured' /\ \A h \in Callers : pc'[h] = "idle" /\ answer'[h] # "ok"
      BY <2>1, <2>5, ConfigValues DEF Active, ConfigFacts, Configured
    <3> QED BY <3>1
      DEF Calm, ServerWhole, SuccessStands, KnownConfigured, OneAtWork, RuntimeFresh,
          Configured, Active
  <2> QED BY <1>q, <2>2, <2>3, <2>4, <2>5
<1>9. CASE DatabaseLost
  <2>1. /\ mishaps < MaxMishaps /\ mishaps' = mishaps + 1 /\ ReplaceWith(Missing, runtime)
        /\ disturbed' = TRUE
        /\ UNCHANGED <<disk, cache, pc, mode, answer, pushWorks>>
    BY <1>9 DEF DatabaseLost, Mishap
  <2>2. /\ db' = Missing /\ runtime' \in {"closed", "removed"} /\ FileWhole'
        /\ conn' \in [Callers -> Tables \cup {"closed"}]
    BY <1>t, <2>1, NewFiles, Replaced
  <2>3. Typed
    BY <1>t, <2>1, <2>2, NewFiles DEF Typed
  <2>4. Unanswered'
    BY <1>t, <2>1 DEF Unanswered, Active
  <2> QED BY <1>q, <2>1, <2>2, <2>3, <2>4
<1>10. CASE Crash
  <2> DEFINE part == [tables |-> "partial", admins |-> {}]
  <2>1. /\ mishaps < MaxMishaps /\ mishaps' = mishaps + 1
        /\ \/ UNCHANGED db
           \/ (\E h \in Callers : pc[h] = "replace") /\ db' \in {Missing, part}
        /\ cache' = NoConfig /\ runtime' = "closed" /\ conn' = [h \in Callers |-> "closed"]
        /\ pc' = [h \in Callers |-> "idle"] /\ mode' = [h \in Callers |-> None]
        /\ UNCHANGED <<disk, answer, pushWorks, disturbed>>
    BY <1>10 DEF Crash, Mishap
  <2>2. part \in Dbs /\ part.tables = "partial"
    BY DEF Dbs, Tables
  <2> HIDE DEF part
  <2>3. Typed
    <3>1. cache' \in Configs
      BY <2>1, ConfigValues DEF ConfigFacts
    <3> QED BY <1>t, <2>1, <2>2, <3>1, NewFiles DEF Typed, Steps
  <2>4. Unanswered' /\ FileWhole'
    BY <1>t, <2>1, <2>2, NewFiles DEF Unanswered, Active, FileWhole
  <2>5. ASSUME ~disturbed PROVE Calm'
    <3>1. Configured => UNCHANGED db
      BY <2>1, <2>5 DEF SetupInv, Calm, OneAtWork
    <3>2. cache'.mode = "none"
      BY <2>1, ConfigValues DEF ConfigFacts
    <3> QED BY <2>1, <2>5, <3>1, <3>2
      DEF SetupInv, Calm, ServerWhole, SuccessStands, KnownConfigured, OneAtWork, RuntimeFresh,
          Configured, Active
  <2> QED BY <1>q, <2>1, <2>3, <2>4, <2>5
<1>11. CASE UNCHANGED vars
  BY <1>11
  DEF vars, SetupInv, TypeOK, FileWhole, Unanswered, Calm, ServerWhole, SuccessStands,
      KnownConfigured, OneAtWork, RuntimeFresh, Configured, Active
<1> QED
  BY <1>1, <1>2, <1>3, <1>4, <1>5, <1>6, <1>7, <1>8, <1>9, <1>10, <1>11 DEF Next

LEMMA SetupInvariant == Spec => []SetupInv
BY SetupInitial, SetupKept, PTL DEF Spec

\* Every variable of the setup keeps its type, for every number of requests.
THEOREM SetupTyped == Spec => []TypeOK
<1>1. SetupInv => TypeOK
  BY DEF SetupInv
<1> QED BY <1>1, SetupInvariant, PTL

\* A server configuration never stands without its database and the administrator
\* whose setup wrote it, however setups are cut short, repeated and mixed with
\* queries of the runtime client.
THEOREM ConfiguredCorrect == Spec => []ConfiguredHasAdmin
<1>1. SetupInv => ConfiguredHasAdmin
  BY DEF SetupInv, Calm, ServerWhole, ConfiguredHasAdmin
<1> QED BY <1>1, SetupInvariant, PTL

\* Who was told of success is the one whose configuration is in force.
THEOREM SuccessCorrect == Spec => []SuccessIsTrue
<1>1. SetupInv => SuccessIsTrue
  BY DEF SetupInv, Calm, SuccessStands, SuccessIsTrue, Configured
<1> QED BY <1>1, SetupInvariant, PTL

\* After a setup that has ended well the runtime client reads the file under the
\* name, never one that was removed while it had it open.
THEOREM RuntimeCorrect == Spec => []RuntimeReadsLiveFile
<1>1. SetupInv => RuntimeReadsLiveFile
  BY DEF SetupInv, Calm, RuntimeFresh, RuntimeReadsLiveFile
<1> QED BY <1>1, SetupInvariant, PTL

HIDE SetupAssumption

----------------------------------------------------------------------------
(***************************************************************************)
(* The scanner of a migration finds the statements that SQL sees in its    *)
(* text.  That the tokens of a text have no letter in common is proved by  *)
(* the least token where two would meet.  The property speaks of the end   *)
(* only: the invariant says in which token the scanner is, and that what it*)
(* has found is right up to the last border it passed, and what it keeps   *)
(* since.                                                                  *)
(***************************************************************************)

\* A set of numbers that is not empty has a least one.
LEMMA LeastNumber == \A T \in SUBSET Nat : T # {} => \E x \in T : \A y \in T : x <= y
<1> SUFFICES ASSUME NEW T \in SUBSET Nat, T # {} PROVE \E x \in T : \A y \in T : x <= y
  OBVIOUS
<1> DEFINE R == {ss \in Nat \X Nat : ss[1] < ss[2]}
<1>1. IsWellFoundedOn(R, Nat)
  BY NatLessThanWellFounded DEF OpToRel
<1>2. \E x \in T : \A y \in T : ~ (<<y, x>> \in R)
  BY <1>1, WFMin
<1>3. \A x, y \in T : ~ (<<y, x>> \in R) => x <= y
  OBVIOUS
<1> QED BY <1>2, <1>3

\* A token ends before p, or the text begins there.
Reached(t, p) == p = 1 \/ \E j \in Lexemes(t) : TokenEnd(t, j) = p - 1

\* The token that begins at b, of which the letters before p have been read, has
\* not ended.
LineOpen(t, p, b) ==
    /\ BeginsWith(t, b, "-", "-") /\ b + 2 <= p
    /\ \A j \in b + 2 .. p - 1 : t[j] # Newline
BlockOpen(t, p, b) ==
    /\ BeginsWith(t, b, "/", "*") /\ b + 2 <= p
    /\ \A j \in b + 3 .. p : j <= Len(t) => ~(t[j] = "/" /\ t[j - 1] = "*")
LiteralOpen(t, p, b) ==
    /\ t[b] \in Quotes /\ b < p
    /\ Cardinality(QuotesAfter(t, b, p - 1)) % 2 = 0
    /\ \A j \in b + 1 .. p - 1 : t[j] = t[b] /\ Letter(t, j + 1) # t[b] =>
         Cardinality(QuotesAfter(t, b, j)) % 2 # 1

\* Where the scanner is between two steps.
Placed(t, p, place) ==
    \/ place = "code" /\ Reached(t, p)
    \/ \E b \in Lexemes(t) : \/ place = "line" /\ LineOpen(t, p, b)
                             \/ place = "block" /\ BlockOpen(t, p, b)
                             \/ place \in Quotes /\ place = t[b] /\ LiteralOpen(t, p, b)

Rising(s) == \A k, l \in DOMAIN s : k < l => s[k] < s[l]

NeighboursTo(t, lo) == {q \in Neighbours(t) : q[2] <= lo}

\* What has been found before p and up to lo, the last border, and is kept since.
Found(t, p, lo, cur, sts) ==
    /\ lo \in Borders(t) /\ lo < p
    /\ \A c \in Borders(t) : c <= lo \/ p <= c
    /\ {ToSet(sts[i]) : i \in DOMAIN sts}
         = {BetweenBorders(t, q) : q \in NeighboursTo(t, lo)} \ {{}}
    /\ InOrder(sts)
    /\ \A i \in DOMAIN sts : \A k \in DOMAIN sts[i] : sts[i][k] <= lo
    /\ ToSet(cur) = Kept(t) \cap (lo + 1 .. p - 1)
    /\ Rising(cur)

\* The inductive invariant.
SplitRight ==
    /\ at \in 1 .. Len(text) + 1
    /\ Placed(text, at, inside)
    /\ current \in Seq(Nat) /\ statements \in Seq(Seq(Nat))
    /\ wholeRead => at > Len(text) /\ StatementsRight
    /\ ~wholeRead => \E lo \in Borders(text) : Found(text, at, lo, current, statements)

----------------------------------------------------------------------------
LEMMA MinIs ==
    ASSUME NEW S \in SUBSET Nat, S # {}
    PROVE  Min(S) \in S /\ \A x \in S : Min(S) <= x
<1>1. \E x \in S : \A y \in S : x <= y
  BY LeastNumber
<1> QED BY <1>1 DEF Min

LEMMA MaxIs ==
    ASSUME NEW m \in Nat, NEW S \in SUBSET (0 .. m), S # {}
    PROVE  Max(S) \in S /\ \A x \in S : x <= Max(S)
<1> DEFINE T == {k \in Nat : \E x \in S : k = m - x}
<1>1. ASSUME NEW x \in S PROVE m - x \in T /\ x \in Nat /\ x <= m
  <2>1. x \in 0 .. m
    OBVIOUS
  <2>2. m - x \in Nat
    BY <2>1
  <2> QED BY <2>1, <2>2
<1>2. T \in SUBSET Nat /\ T # {}
  BY <1>1
<1>3. PICK y \in T : \A z \in T : y <= z
  <2> HIDE DEF T
  <2> QED BY <1>2, LeastNumber
<1>4. PICK x \in S : y = m - x
  BY <1>3
<1>5. \A z \in S : x >= z
  BY <1>1, <1>3, <1>4
<1>6. Max(S) \in S /\ \A z \in S : Max(S) >= z
  BY <1>5 DEF Max
<1> QED BY <1>1, <1>6

IsText(t) == Len(t) \in Nat /\ DOMAIN t = 1 .. Len(t)

LEMMA FirstIs ==
    ASSUME NEW t, IsText(t), NEW S \in SUBSET (1 .. Len(t))
    PROVE  /\ S = {} => First(t, S) = Len(t)
           /\ S # {} => First(t, S) \in S /\ \A x \in S : First(t, S) <= x
<1>1. S \in SUBSET Nat
  BY DEF IsText
<1> QED BY <1>1, MinIs DEF First

----------------------------------------------------------------------------
LEMMA TokenEndIs ==
    ASSUME NEW t, IsText(t), NEW i \in DOMAIN t
    PROVE  /\ BeginsWith(t, i, "-", "-") => TokenEnd(t, i) = First(t, LineEnds(t, i))
           /\ BeginsWith(t, i, "/", "*") => TokenEnd(t, i) = First(t, BlockEnds(t, i))
           /\ t[i] \in Quotes => TokenEnd(t, i) = First(t, LiteralEnds(t, i)) /\ ~IsComment(t, i)
           /\ t[i] \notin Quotes /\ ~IsComment(t, i) => TokenEnd(t, i) = i
<1>1. Letter(t, i) = t[i]
  BY DEF Letter
<1>2. /\ BeginsWith(t, i, "-", "-") => t[i] = "-"
      /\ BeginsWith(t, i, "/", "*") => t[i] = "/"
      /\ t[i] \in Quotes => t[i] \in {"'", "dq"}
  BY <1>1 DEF BeginsWith, Quotes
<1>3. BeginsWith(t, i, "-", "-") => TokenEnd(t, i) = First(t, LineEnds(t, i))
  BY <1>1, <1>2 DEF TokenEnd
<1>4. BeginsWith(t, i, "/", "*") => TokenEnd(t, i) = First(t, BlockEnds(t, i))
  BY <1>1, <1>2 DEF TokenEnd, Quotes
<1>5. t[i] \in Quotes => ~BeginsWith(t, i, "-", "-") /\ ~BeginsWith(t, i, "/", "*")
  BY <1>2
<1>6. t[i] \in Quotes => TokenEnd(t, i) = First(t, LiteralEnds(t, i))
  BY <1>1, <1>5 DEF TokenEnd
<1>7. t[i] \notin Quotes /\ ~IsComment(t, i) => TokenEnd(t, i) = i
  BY <1>1 DEF TokenEnd, IsComment
<1> QED BY <1>3, <1>4, <1>5, <1>6, <1>7 DEF IsComment

LEMMA EndsIn ==
    ASSUME NEW t, IsText(t), NEW i \in DOMAIN t
    PROVE  /\ LineEnds(t, i) \in SUBSET (1 .. Len(t)) /\ \A j \in LineEnds(t, i) : i < j
           /\ BlockEnds(t, i) \in SUBSET (1 .. Len(t)) /\ \A j \in BlockEnds(t, i) : i < j
           /\ LiteralEnds(t, i) \in SUBSET (1 .. Len(t)) /\ \A j \in LiteralEnds(t, i) : i < j
<1>1. i \in Nat /\ Len(t) \in Nat /\ 1 <= i /\ i <= Len(t)
  BY DEF IsText
<1>2. \A k \in 1 .. 3 : \A j \in i + k .. Len(t) : j \in 1 .. Len(t) /\ i < j
  BY <1>1
<1>3. LineEnds(t, i) \subseteq i + 1 .. Len(t) /\ BlockEnds(t, i) \subseteq i + 3 .. Len(t)
      /\ LiteralEnds(t, i) \subseteq i + 1 .. Len(t)
  BY DEF LineEnds, BlockEnds, LiteralEnds
<1> QED BY <1>2, <1>3

LEMMA TokenEndIn ==
    ASSUME NEW t, IsText(t), NEW i \in DOMAIN t
    PROVE  TokenEnd(t, i) \in Nat /\ i <= TokenEnd(t, i) /\ TokenEnd(t, i) <= Len(t)
<1>1. i \in Nat /\ Len(t) \in Nat /\ 1 <= i /\ i <= Len(t)
  BY DEF IsText
<1>2. ASSUME NEW S \in SUBSET (1 .. Len(t)), \A j \in S : i < j
      PROVE  First(t, S) \in Nat /\ i <= First(t, S) /\ First(t, S) <= Len(t)
  <2>1. CASE S = {}
    BY <1>1, <2>1, FirstIs
  <2>2. CASE S # {}
    <3>1. First(t, S) \in S
      BY <2>2, FirstIs
    <3>2. First(t, S) \in 1 .. Len(t)
      BY <3>1
    <3> QED BY <1>1, <1>2, <3>1, <3>2
  <2> QED BY <2>1, <2>2
<1>3. CASE BeginsWith(t, i, "-", "-")
  BY <1>2, <1>3, EndsIn, TokenEndIs
<1>4. CASE BeginsWith(t, i, "/", "*")
  BY <1>2, <1>4, EndsIn, TokenEndIs
<1>5. CASE t[i] \in Quotes
  BY <1>2, <1>5, EndsIn, TokenEndIs
<1>6. CASE t[i] \notin Quotes /\ ~IsComment(t, i)
  BY <1>1, <1>6, TokenEndIs
<1> QED BY <1>3, <1>4, <1>5, <1>6 DEF IsComment

----------------------------------------------------------------------------
\* The function in the definition of Lexemes, as far as m.
BeginsTo(t, B, m) ==
    B = [i \in 1 .. m |-> i = 1 \/ \E j \in 1 .. i - 1 : B[j] /\ TokenEnd(t, j) = i - 1]

LEMMA BeginsExists ==
    ASSUME NEW t, NEW n \in Nat
    PROVE  \E B : BeginsTo(t, B, n)
<1> DEFINE T == {m \in Nat : ~ \E B : BeginsTo(t, B, m)}
<1>1. SUFFICES ASSUME T # {} PROVE FALSE
  OBVIOUS
<1>2. PICK m \in T : \A k \in T : m <= k
  <2> T \in SUBSET Nat
    OBVIOUS
  <2> HIDE DEF T
  <2> QED BY <1>1, LeastNumber
<1>3. CASE m = 0
  <2> DEFINE B == [i \in 1 .. 0 |-> TRUE]
  <2> DEFINE C == [i \in 1 .. 0 |-> i = 1 \/ \E j \in 1 .. i - 1 : B[j] /\ TokenEnd(t, j) = i - 1]
  <2>1. B = C
    OBVIOUS
  <2>2. BeginsTo(t, B, m)
    BY <1>3, <2>1 DEF BeginsTo
  <2> QED BY <2>2
<1>4. CASE m > 0
  <2>1. m - 1 \in Nat /\ m - 1 \notin T
    BY <1>2, <1>4
  <2>2. PICK B : BeginsTo(t, B, m - 1)
    BY <2>1
  <2> DEFINE e == m = 1 \/ \E j \in 1 .. m - 1 : B[j] /\ TokenEnd(t, j) = m - 1
  <2> DEFINE C == [i \in 1 .. m |-> IF i = m THEN e ELSE B[i]]
  <2> DEFINE D == [i \in 1 .. m |-> i = 1 \/ \E j \in 1 .. i - 1 : C[j] /\ TokenEnd(t, j) = i - 1]
  <2>3. ASSUME NEW i \in 1 .. m PROVE C[i] = D[i]
    <3>1. \A j \in 1 .. i - 1 : j \in 1 .. m /\ j # m /\ C[j] = B[j]
      OBVIOUS
    <3>2. D[i] = (i = 1 \/ \E j \in 1 .. i - 1 : B[j] /\ TokenEnd(t, j) = i - 1)
      BY <3>1
    <3>3. CASE i = m
      BY <3>2, <3>3
    <3>4. CASE i # m
      <4>1. i \in 1 .. m - 1 /\ C[i] = B[i]
        BY <3>4
      <4>2. B[i] = (i = 1 \/ \E j \in 1 .. i - 1 : B[j] /\ TokenEnd(t, j) = i - 1)
        BY <2>2, <4>1 DEF BeginsTo
      <4> QED BY <3>2, <4>1, <4>2
    <3> QED BY <3>3, <3>4
  <2>4. C = D
    BY <2>3
  <2>5. BeginsTo(t, C, m)
    BY <2>4 DEF BeginsTo
  <2> QED BY <2>5
<1> QED BY <1>2, <1>3, <1>4

LEMMA LexemesIs ==
    ASSUME NEW t, IsText(t), NEW i \in DOMAIN t
    PROVE  i \in Lexemes(t) <=> i = 1 \/ \E j \in Lexemes(t) : j < i /\ TokenEnd(t, j) = i - 1
<1>1. \E B : B = [k \in 1 .. Len(t) |-> k = 1 \/ \E j \in 1 .. k - 1 : B[j] /\ TokenEnd(t, j) = k - 1]
  <2>1. PICK n \in Nat : n = Len(t)
    BY DEF IsText
  <2>2. PICK B : BeginsTo(t, B, n)
    BY BeginsExists
  <2>3. B = [k \in 1 .. n |-> k = 1 \/ \E j \in 1 .. k - 1 : B[j] /\ TokenEnd(t, j) = k - 1]
    BY <2>2 DEF BeginsTo
  <2> QED BY <2>1, <2>3, Zenon
<1>2. PICK B : /\ B = [k \in 1 .. Len(t) |-> k = 1 \/ \E j \in 1 .. k - 1 : B[j] /\ TokenEnd(t, j) = k - 1]
               /\ Lexemes(t) = {k \in DOMAIN t : B[k]}
  BY <1>1 DEF Lexemes
<1>3. B[i] = (i = 1 \/ \E j \in 1 .. i - 1 : B[j] /\ TokenEnd(t, j) = i - 1)
  BY <1>2 DEF IsText
<1>4. \A j : j \in 1 .. i - 1 <=> j \in DOMAIN t /\ j < i
  BY DEF IsText
<1>5. i \in Lexemes(t) <=> B[i]
  BY <1>2
<1>6. \A j \in DOMAIN t : j \in Lexemes(t) <=> B[j]
  BY <1>2
<1>7. Lexemes(t) \subseteq DOMAIN t
  BY <1>2
<1> QED BY <1>3, <1>4, <1>5, <1>6, <1>7

\* Two tokens have no letter in common.
Apart(t, i, j) == i < j => TokenEnd(t, i) < j

LEMMA LexemesApart ==
    ASSUME NEW t, IsText(t)
    PROVE  \A i, j \in Lexemes(t) : Apart(t, i, j)
<1>1. /\ Lexemes(t) \subseteq DOMAIN t
      /\ \A i \in Lexemes(t) : i \in Nat /\ TokenEnd(t, i) \in Nat /\ i <= TokenEnd(t, i)
  BY TokenEndIn DEF Lexemes, IsText
<1> DEFINE T == {j \in Lexemes(t) : \E i \in Lexemes(t) : ~Apart(t, i, j)}
<1>2. SUFFICES ASSUME T # {} PROVE FALSE
  OBVIOUS
<1>3. PICK j \in T : \A k \in T : j <= k
  <2> T \in SUBSET Nat
    BY <1>1
  <2> HIDE DEF T
  <2> QED BY <1>2, LeastNumber
<1>4. PICK i \in Lexemes(t) : i < j /\ ~(TokenEnd(t, i) < j)
  BY <1>3 DEF Apart
<1>5. j \in Lexemes(t) /\ j # 1 /\ j \in DOMAIN t
  BY <1>1, <1>3, <1>4 DEF IsText
<1>6. PICK k \in Lexemes(t) : k < j /\ TokenEnd(t, k) = j - 1
  BY <1>5, LexemesIs
<1>7. \A a, b \in Lexemes(t) : b < j => Apart(t, a, b)
  BY <1>1, <1>3
<1>8. CASE i < k
  <2>1. TokenEnd(t, i) < k
    BY <1>6, <1>7, <1>8 DEF Apart
  <2> QED BY <1>1, <1>4, <1>5, <1>6, <2>1
<1>9. CASE i = k
  BY <1>1, <1>4, <1>5, <1>6, <1>9
<1>10. CASE k < i
  <2>1. TokenEnd(t, k) < i
    BY <1>4, <1>7, <1>10 DEF Apart
  <2> QED BY <1>1, <1>4, <1>5, <1>6, <2>1
<1> QED BY <1>1, <1>4, <1>6, <1>8, <1>9, <1>10

LEMMA LexemesAre ==
    ASSUME NEW t, IsText(t)
    PROVE  /\ Lexemes(t) \subseteq DOMAIN t
           /\ \A i \in Lexemes(t) : /\ i \in Nat /\ 1 <= i /\ i <= TokenEnd(t, i)
                                    /\ TokenEnd(t, i) \in Nat /\ TokenEnd(t, i) <= Len(t)
           /\ \A i, j \in Lexemes(t) : i < j => TokenEnd(t, i) < j
<1>1. Lexemes(t) \subseteq DOMAIN t
  BY DEF Lexemes
<1>2. \A i \in DOMAIN t : i \in Nat /\ 1 <= i
  BY DEF IsText
<1> QED BY <1>1, <1>2, TokenEndIn, LexemesApart DEF Apart

LEMMA ReachedBegins ==
    ASSUME NEW t, IsText(t), NEW p \in DOMAIN t, Reached(t, p)
    PROVE  p \in Lexemes(t)
<1>1. p \in Nat
  BY DEF IsText
<1>2. CASE p = 1
  BY <1>2, LexemesIs
<1>3. CASE p # 1
  <2>1. PICK j \in Lexemes(t) : TokenEnd(t, j) = p - 1
    BY <1>3 DEF Reached
  <2>2. j < p
    BY <1>1, <2>1, LexemesAre
  <2> QED BY <2>1, <2>2, LexemesIs
<1> QED BY <1>2, <1>3

LEMMA EndReached ==
    ASSUME NEW t, IsText(t), NEW i \in Lexemes(t)
    PROVE  Reached(t, TokenEnd(t, i) + 1)
<1>1. TokenEnd(t, i) \in Nat
  BY LexemesAre
<1>2. TokenEnd(t, i) = (TokenEnd(t, i) + 1) - 1
  BY <1>1
<1> QED BY <1>2 DEF Reached

\* The letters from p on, up to q, are of the token that begins at b.
LEMMA LettersOf ==
    ASSUME NEW t, IsText(t), NEW b \in Lexemes(t), NEW p \in Nat, b <= p, p <= TokenEnd(t, b)
    PROVE  /\ p \in Kept(t) <=> ~IsComment(t, b)
           /\ p \in Borders(t) <=> p = b /\ t[b] = ";"
<1>1. \A i \in Lexemes(t) : /\ i \in Nat /\ 1 <= i /\ i <= TokenEnd(t, i)
                            /\ TokenEnd(t, i) \in Nat /\ TokenEnd(t, i) <= Len(t)
  BY LexemesAre
<1>2. \A i \in Lexemes(t) : i <= p /\ p <= TokenEnd(t, i) => i = b
  <2> SUFFICES ASSUME NEW i \in Lexemes(t), i <= p, p <= TokenEnd(t, i), i # b PROVE FALSE
    OBVIOUS
  <2>1. i < b => TokenEnd(t, i) < b
    BY LexemesAre
  <2>2. b < i => TokenEnd(t, b) < i
    BY LexemesAre
  <2> QED BY <1>1, <2>1, <2>2
<1>3. p \in Kept(t) <=> \E i \in Lexemes(t) : ~IsComment(t, i) /\ p \in i .. TokenEnd(t, i)
  BY DEF Kept
<1>4. \A i \in Lexemes(t) : p \in i .. TokenEnd(t, i) <=> i <= p /\ p <= TokenEnd(t, i)
  BY <1>1
<1>5. p \in Kept(t) <=> ~IsComment(t, b)
  BY <1>2, <1>3, <1>4
<1>6. p # 0 /\ p # Len(t) + 1 /\ p <= TokenEnd(t, p)
  <2>1. Len(t) \in Nat /\ 1 <= p /\ p <= Len(t) /\ p \in DOMAIN t
    BY <1>1 DEF IsText
  <2> QED BY <2>1, TokenEndIn
<1>7. p \in Borders(t) <=> p \in Lexemes(t) /\ t[p] = ";"
  BY <1>6 DEF Borders
<1>8. p \in Lexemes(t) => p = b
  BY <1>2, <1>6
<1> QED BY <1>5, <1>7, <1>8

----------------------------------------------------------------------------
LEMMA QuotesCounted ==
    ASSUME NEW t, NEW b \in Nat, NEW p \in Nat, b <= p
    PROVE  /\ IsFiniteSet(QuotesAfter(t, b, p)) /\ Cardinality(QuotesAfter(t, b, p)) \in Nat
           /\ Cardinality(QuotesAfter(t, b, b)) = 0
           /\ Cardinality(QuotesAfter(t, b, p + 1)) =
                Cardinality(QuotesAfter(t, b, p)) + (IF t[p + 1] = t[b] THEN 1 ELSE 0)
<1>1. IsFiniteSet(b + 1 .. p)
  BY FS_Interval
<1>2. QuotesAfter(t, b, p) \in SUBSET (b + 1 .. p)
  BY DEF QuotesAfter
<1>3. IsFiniteSet(QuotesAfter(t, b, p))
  BY <1>1, <1>2, FS_Subset
<1>4. QuotesAfter(t, b, b) = {}
  BY DEF QuotesAfter
<1>5. b + 1 .. p + 1 = (b + 1 .. p) \cup {p + 1} /\ p + 1 \notin b + 1 .. p
  OBVIOUS
<1>6. CASE t[p + 1] = t[b]
  <2>1. QuotesAfter(t, b, p + 1) = QuotesAfter(t, b, p) \cup {p + 1}
    BY <1>5, <1>6 DEF QuotesAfter
  <2>2. p + 1 \notin QuotesAfter(t, b, p)
    BY <1>2, <1>5
  <2> QED BY <1>3, <1>4, <1>6, <2>1, <2>2, FS_AddElement, FS_CardinalityType, FS_EmptySet
<1>7. CASE t[p + 1] # t[b]
  <2>1. QuotesAfter(t, b, p + 1) = QuotesAfter(t, b, p)
    BY <1>5, <1>7 DEF QuotesAfter
  <2>2. Cardinality(QuotesAfter(t, b, p)) \in Nat /\ Cardinality(QuotesAfter(t, b, b)) = 0
    BY <1>3, <1>4, FS_CardinalityType, FS_EmptySet
  <2> QED BY <1>3, <1>7, <2>1, <2>2
<1> QED BY <1>6, <1>7

LEMMA OddEven ==
    ASSUME NEW n \in Nat, n % 2 = 0
    PROVE  (n + 1) % 2 = 1 /\ (n + 2) % 2 = 0
OBVIOUS

----------------------------------------------------------------------------
LEMMA FirstFrom ==
    ASSUME NEW t, IsText(t), NEW p \in DOMAIN t,
           NEW S \in SUBSET (1 .. Len(t)), \A j \in S : p <= j
    PROVE  p <= First(t, S) /\ (p \in S => First(t, S) = p)
<1>1. p \in Nat /\ p <= Len(t) /\ S \in SUBSET Nat
  BY DEF IsText
<1>2. CASE S = {}
  BY <1>1, <1>2, FirstIs
<1>3. CASE S # {}
  <2>1. First(t, S) \in S /\ \A x \in S : First(t, S) <= x
    BY <1>3, FirstIs
  <2>2. First(t, S) \in Nat /\ p <= First(t, S)
    BY <1>1, <2>1
  <2>3. p \in S => First(t, S) <= p
    BY <2>1
  <2> QED BY <1>1, <2>2, <2>3
<1> QED BY <1>2, <1>3

LEMMA LineStep ==
    ASSUME NEW t, IsText(t), NEW p \in DOMAIN t, NEW b \in Lexemes(t), LineOpen(t, p, b)
    PROVE  /\ t[p] # Newline => LineOpen(t, p + 1, b) /\ p <= TokenEnd(t, b)
           /\ t[p] = Newline => Reached(t, p)
           /\ b < p /\ IsComment(t, b)
<1>1. b \in DOMAIN t /\ b \in Nat /\ p \in Nat /\ Len(t) \in Nat /\ p <= Len(t) /\ b + 2 <= p
  BY LexemesAre DEF IsText, LineOpen
<1>2. TokenEnd(t, b) = First(t, LineEnds(t, b)) /\ LineEnds(t, b) \in SUBSET (1 .. Len(t))
  BY <1>1, TokenEndIs, EndsIn DEF LineOpen
<1>3. \A j \in LineEnds(t, b) : j \in Nat /\ b + 1 <= j /\ j <= Len(t) /\ Letter(t, j + 1) = Newline
  BY <1>1 DEF LineEnds
<1>4. \A j \in LineEnds(t, b) : j + 1 \notin b + 2 .. p - 1
  <2> SUFFICES ASSUME NEW j \in LineEnds(t, b), j + 1 \in b + 2 .. p - 1 PROVE FALSE
    OBVIOUS
  <2>1. j + 1 \in DOMAIN t
    BY <1>1, <1>3 DEF IsText
  <2> QED BY <1>3, <2>1 DEF LineOpen, Letter
<1>5. \A j \in LineEnds(t, b) : p - 1 <= j
  BY <1>1, <1>3, <1>4
<1>6. CASE t[p] # Newline
  <2>1. \A j \in LineEnds(t, b) : j + 1 # p
    BY <1>3, <1>6 DEF Letter
  <2>2. \A j \in LineEnds(t, b) : p <= j
    BY <1>1, <1>3, <1>5, <2>1
  <2>3. p <= TokenEnd(t, b)
    BY <1>2, <2>2, FirstFrom
  <2>4. \A j \in b + 2 .. (p + 1) - 1 : j = p \/ j \in b + 2 .. p - 1
    BY <1>1
  <2>5. LineOpen(t, p + 1, b)
    BY <1>1, <1>6, <2>4 DEF LineOpen
  <2> QED BY <1>1, <1>6, <2>3, <2>5 DEF LineOpen, IsComment
<1>7. CASE t[p] = Newline
  <2>1. p - 1 \in DOMAIN t /\ p - 1 \in b + 1 .. Len(t) /\ (p - 1) + 1 = p
    BY <1>1 DEF IsText
  <2>2. p - 1 \in LineEnds(t, b)
    BY <1>7, <2>1 DEF LineEnds, Letter
  <2>3. TokenEnd(t, b) = p - 1
    BY <1>2, <1>5, <2>1, <2>2, FirstFrom
  <2> QED BY <1>1, <1>7, <2>3 DEF LineOpen, IsComment, Reached
<1> QED BY <1>6, <1>7

LEMMA BlockStep ==
    ASSUME NEW t, IsText(t), NEW p \in DOMAIN t, NEW b \in Lexemes(t), BlockOpen(t, p, b)
    PROVE  /\ ~BeginsWith(t, p, "*", "/") => BlockOpen(t, p + 1, b) /\ p <= TokenEnd(t, b)
           /\ BeginsWith(t, p, "*", "/") => Reached(t, p + 2) /\ p + 1 <= TokenEnd(t, b) /\ p + 1 <= Len(t)
           /\ b < p /\ IsComment(t, b)
<1>1. b \in DOMAIN t /\ b \in Nat /\ p \in Nat /\ Len(t) \in Nat /\ p <= Len(t) /\ b + 2 <= p
  BY LexemesAre DEF IsText, BlockOpen
<1>2. TokenEnd(t, b) = First(t, BlockEnds(t, b)) /\ BlockEnds(t, b) \in SUBSET (1 .. Len(t))
  BY <1>1, TokenEndIs, EndsIn DEF BlockOpen
<1>3. \A j \in BlockEnds(t, b) : j \in Nat /\ b + 3 <= j /\ j <= Len(t) /\ t[j] = "/" /\ t[j - 1] = "*"
  BY <1>1 DEF BlockEnds
<1>4. \A j \in BlockEnds(t, b) : j \notin b + 3 .. p
  BY <1>3 DEF BlockOpen
<1>5. \A j \in BlockEnds(t, b) : p + 1 <= j
  BY <1>1, <1>3, <1>4
<1>6. CASE ~BeginsWith(t, p, "*", "/")
  <2>1. p <= TokenEnd(t, b)
    BY <1>1, <1>2, <1>3, <1>5, FirstFrom
  <2>2. p + 1 <= Len(t) => ~(t[p + 1] = "/" /\ t[p] = "*")
    <3>1. p + 1 <= Len(t) => p + 1 \in DOMAIN t
      BY <1>1 DEF IsText
    <3> QED BY <1>6, <3>1 DEF BeginsWith, Letter
  <2>3. \A j \in b + 3 .. p + 1 : j = p + 1 \/ j \in b + 3 .. p
    BY <1>1
  <2>4. (p + 1) - 1 = p
    BY <1>1
  <2>5. BlockOpen(t, p + 1, b)
    BY <1>1, <2>2, <2>3, <2>4 DEF BlockOpen
  <2> QED BY <1>1, <1>6, <2>1, <2>5 DEF BlockOpen, IsComment
<1>7. CASE BeginsWith(t, p, "*", "/")
  <2>1. p + 1 \in DOMAIN t /\ t[p] = "*" /\ t[p + 1] = "/"
    BY <1>7 DEF BeginsWith, Letter
  <2>2. p + 1 <= Len(t) /\ p + 1 \in b + 3 .. Len(t) /\ (p + 1) - 1 = p /\ (p + 2) - 1 = p + 1
    BY <1>1, <2>1 DEF IsText
  <2>3. p + 1 \in BlockEnds(t, b)
    BY <2>1, <2>2 DEF BlockEnds
  <2>4. TokenEnd(t, b) = p + 1
    BY <1>2, <1>5, <2>1, <2>3, FirstFrom
  <2>5. p + 1 <= TokenEnd(t, b)
    BY <1>1, <2>4
  <2>6. Reached(t, p + 2)
    BY <2>2, <2>4 DEF Reached
  <2> QED BY <1>1, <1>7, <2>2, <2>5, <2>6 DEF BlockOpen, IsComment
<1> QED BY <1>6, <1>7

LEMMA LiteralStep ==
    ASSUME NEW t, IsText(t), NEW p \in DOMAIN t, NEW b \in Lexemes(t), LiteralOpen(t, p, b)
    PROVE  /\ t[p] # t[b] => LiteralOpen(t, p + 1, b) /\ p <= TokenEnd(t, b)
           /\ t[p] = t[b] /\ Letter(t, p + 1) = t[b] =>
                LiteralOpen(t, p + 2, b) /\ p + 1 <= TokenEnd(t, b) /\ p + 1 <= Len(t)
           /\ t[p] = t[b] /\ Letter(t, p + 1) # t[b] => Reached(t, p + 1) /\ p <= TokenEnd(t, b)
           /\ b < p /\ ~IsComment(t, b)
<1> DEFINE n(j) == Cardinality(QuotesAfter(t, b, j))
<1>1. b \in DOMAIN t /\ b \in Nat /\ p \in Nat /\ Len(t) \in Nat /\ p <= Len(t) /\ b < p
  BY LexemesAre DEF IsText, LiteralOpen
<1>2. /\ TokenEnd(t, b) = First(t, LiteralEnds(t, b)) /\ LiteralEnds(t, b) \in SUBSET (1 .. Len(t))
      /\ ~IsComment(t, b)
  BY <1>1, TokenEndIs, EndsIn DEF LiteralOpen
<1>3. \A j \in LiteralEnds(t, b) : /\ j \in Nat /\ b + 1 <= j /\ j <= Len(t)
                                   /\ t[j] = t[b] /\ Letter(t, j + 1) # t[b] /\ n(j) % 2 = 1
  BY <1>1 DEF LiteralEnds
<1>4. \A j \in LiteralEnds(t, b) : j \notin b + 1 .. p - 1
  BY <1>3 DEF LiteralOpen
<1>5. \A j \in LiteralEnds(t, b) : p <= j
  BY <1>1, <1>3, <1>4
<1>6. n(p - 1) % 2 = 0
  BY DEF LiteralOpen
<1>7. p - 1 \in Nat /\ b <= p - 1 /\ (p - 1) + 1 = p /\ b <= p /\ (p + 1) - 1 = p /\ (p + 2) - 1 = p + 1
  BY <1>1
<1>8. /\ n(p - 1) \in Nat
      /\ n(p) = n(p - 1) + (IF t[p] = t[b] THEN 1 ELSE 0)
      /\ n(p + 1) = n(p) + (IF t[p + 1] = t[b] THEN 1 ELSE 0)
  <2>1. n(p - 1) \in Nat /\ n((p - 1) + 1) = n(p - 1) + (IF t[(p - 1) + 1] = t[b] THEN 1 ELSE 0)
    BY <1>1, <1>7, QuotesCounted
  <2>2. n(p + 1) = n(p) + (IF t[p + 1] = t[b] THEN 1 ELSE 0)
    BY <1>1, <1>7, QuotesCounted
  <2> QED BY <1>7, <2>1, <2>2
<1>9. (n(p - 1) + 1) % 2 = 1 /\ (n(p - 1) + 2) % 2 = 0
  BY <1>6, <1>8, OddEven
<1>10. \A j \in b + 1 .. (p + 1) - 1 : j = p \/ j \in b + 1 .. p - 1
  BY <1>1
<1>11. \A j \in b + 1 .. p - 1 : t[j] = t[b] /\ Letter(t, j + 1) # t[b] => n(j) % 2 # 1
  BY DEF LiteralOpen
<1>12. p <= TokenEnd(t, b)
  BY <1>2, <1>5, FirstFrom
<1>13. CASE t[p] # t[b]
  <2>1. n((p + 1) - 1) % 2 = 0
    BY <1>6, <1>7, <1>8, <1>13
  <2>2. LiteralOpen(t, p + 1, b)
    BY <1>1, <1>10, <1>11, <1>13, <2>1 DEF LiteralOpen
  <2> QED BY <1>1, <1>2, <1>12, <1>13, <2>2
<1>14. CASE t[p] = t[b] /\ Letter(t, p + 1) = t[b]
  <2>1. p + 1 \in DOMAIN t /\ t[p + 1] = t[b]
    <3>1. t[b] # "end"
      BY DEF LiteralOpen, Quotes
    <3> QED BY <1>14, <3>1 DEF Letter
  <2>2. n(p + 1) = n(p - 1) + 2
    BY <1>8, <1>14, <2>1
  <2>3. n((p + 2) - 1) % 2 = 0
    BY <1>7, <1>9, <2>2
  <2>4. ASSUME NEW j \in b + 1 .. (p + 2) - 1 PROVE j = p + 1 \/ j = p \/ j \in b + 1 .. p - 1
    <3>1. j \in Int /\ b + 1 <= j /\ j <= p + 1
      BY <1>1
    <3> QED BY <1>1, <3>1
  <2>5. n(p + 1) % 2 # 1
    BY <1>9, <2>2
  <2>6. b < p + 2
    BY <1>1
  <2>7. LiteralOpen(t, p + 2, b)
    BY <1>11, <1>14, <2>3, <2>4, <2>5, <2>6 DEF LiteralOpen
  <2>8. \A j \in LiteralEnds(t, b) : p + 1 <= j
    BY <1>1, <1>3, <1>5, <1>14
  <2>9. p + 1 <= TokenEnd(t, b)
    BY <1>2, <2>1, <2>8, FirstFrom
  <2>10. p + 1 <= Len(t)
    BY <1>1, <2>1 DEF IsText
  <2> QED BY <1>1, <1>2, <1>14, <2>7, <2>9, <2>10
<1>15. CASE t[p] = t[b] /\ Letter(t, p + 1) # t[b]
  <2>1. n(p) % 2 = 1
    BY <1>8, <1>9, <1>15
  <2>2. p \in b + 1 .. Len(t)
    BY <1>1
  <2>3. p \in LiteralEnds(t, b)
    BY <1>15, <2>1, <2>2 DEF LiteralEnds
  <2>4. TokenEnd(t, b) = p
    BY <1>2, <1>5, <2>3, FirstFrom
  <2>5. Reached(t, p + 1)
    BY <1>7, <2>4 DEF Reached
  <2> QED BY <1>1, <1>2, <1>12, <1>15, <2>5
<1> QED BY <1>13, <1>14, <1>15

LEMMA CodeStep ==
    ASSUME NEW t, IsText(t), NEW p \in Lexemes(t)
    PROVE  /\ BeginsWith(t, p, "-", "-") => LineOpen(t, p + 2, p) /\ p + 1 <= TokenEnd(t, p)
           /\ BeginsWith(t, p, "/", "*") => BlockOpen(t, p + 2, p) /\ p + 1 <= TokenEnd(t, p)
           /\ IsComment(t, p) => p + 1 <= Len(t)
           /\ t[p] \in Quotes => LiteralOpen(t, p + 1, p) /\ ~IsComment(t, p)
           /\ t[p] \notin Quotes /\ ~IsComment(t, p) => Reached(t, p + 1)
<1>1. p \in DOMAIN t /\ p \in Nat /\ Len(t) \in Nat /\ (p + 1) - 1 = p /\ (p + 2) - 1 = p + 1
  BY LexemesAre DEF IsText
<1>2. \A y : y # "end" => (Letter(t, p + 1) = y => p + 1 \in DOMAIN t /\ p + 1 <= Len(t))
  BY DEF Letter, IsText
<1>3. \A c, d : BeginsWith(t, p, c, d) /\ d # "end" => p + 1 \in DOMAIN t /\ p + 1 <= Len(t)
  BY <1>2 DEF BeginsWith
<1>4. ASSUME BeginsWith(t, p, "-", "-")
      PROVE  LineOpen(t, p + 2, p) /\ p + 1 <= TokenEnd(t, p) /\ p + 1 <= Len(t)
  <2>1. p + 1 \in DOMAIN t /\ p + 1 <= Len(t)
    BY <1>3, <1>4
  <2>2. \A j \in LineEnds(t, p) : p + 1 <= j
    BY <1>1 DEF LineEnds
  <2>3. TokenEnd(t, p) = First(t, LineEnds(t, p)) /\ LineEnds(t, p) \in SUBSET (1 .. Len(t))
    BY <1>1, <1>4, TokenEndIs, EndsIn
  <2>4. p + 1 <= TokenEnd(t, p)
    BY <2>1, <2>2, <2>3, FirstFrom
  <2>5. LineOpen(t, p + 2, p)
    BY <1>1, <1>4 DEF LineOpen
  <2> QED BY <2>1, <2>4, <2>5
<1>5. ASSUME BeginsWith(t, p, "/", "*")
      PROVE  BlockOpen(t, p + 2, p) /\ p + 1 <= TokenEnd(t, p) /\ p + 1 <= Len(t)
  <2>1. p + 1 \in DOMAIN t /\ p + 1 <= Len(t)
    BY <1>3, <1>5
  <2>2. \A j \in BlockEnds(t, p) : p + 1 <= j
    BY <1>1 DEF BlockEnds
  <2>3. TokenEnd(t, p) = First(t, BlockEnds(t, p)) /\ BlockEnds(t, p) \in SUBSET (1 .. Len(t))
    BY <1>1, <1>5, TokenEndIs, EndsIn
  <2>4. p + 1 <= TokenEnd(t, p)
    BY <2>1, <2>2, <2>3, FirstFrom
  <2>5. BlockOpen(t, p + 2, p)
    BY <1>1, <1>5 DEF BlockOpen
  <2> QED BY <2>1, <2>4, <2>5
<1>6. ASSUME t[p] \in Quotes
      PROVE  LiteralOpen(t, p + 1, p) /\ ~IsComment(t, p)
  <2>1. Cardinality(QuotesAfter(t, p, (p + 1) - 1)) = 0
    BY <1>1, QuotesCounted
  <2>2. 0 % 2 = 0
    OBVIOUS
  <2>3. \A j \in p + 1 .. (p + 1) - 1 : FALSE
    BY <1>1
  <2>4. LiteralOpen(t, p + 1, p)
    BY <1>1, <1>6, <2>1, <2>2, <2>3 DEF LiteralOpen
  <2> QED BY <1>1, <1>6, <2>4, TokenEndIs
<1>7. ASSUME t[p] \notin Quotes, ~IsComment(t, p)
      PROVE  Reached(t, p + 1)
  <2>1. TokenEnd(t, p) = p
    BY <1>1, <1>7, TokenEndIs
  <2> QED BY <2>1, EndReached
<1> QED BY <1>4, <1>5, <1>6, <1>7 DEF IsComment

----------------------------------------------------------------------------
\* What is kept of the letters that one step reads: they are of one token, and
\* no semicolon is among them that ends a statement.
Piece(t, p, q, b, piece) ==
    /\ b <= p /\ p < q /\ q <= TokenEnd(t, b) + 1 /\ (b = p => t[p] # ";")
    /\ Rising(piece)
    /\ ToSet(piece) = IF IsComment(t, b) THEN {} ELSE p .. q - 1

LEMMA JoinedIs ==
    ASSUME NEW r \in Seq(Nat), NEW s \in Seq(Nat), Rising(r), Rising(s),
           \A x \in ToSet(r), y \in ToSet(s) : x < y
    PROVE  r \o s \in Seq(Nat) /\ ToSet(r \o s) = ToSet(r) \cup ToSet(s) /\ Rising(r \o s)
<1>1. /\ r \o s \in Seq(Nat) /\ Len(r \o s) = Len(r) + Len(s)
      /\ Len(r) \in Nat /\ Len(s) \in Nat /\ DOMAIN r = 1 .. Len(r) /\ DOMAIN s = 1 .. Len(s)
      /\ DOMAIN (r \o s) = 1 .. Len(r) + Len(s)
  OBVIOUS
<1>2. \A k \in 1 .. Len(r) + Len(s) : (r \o s)[k] = IF k <= Len(r) THEN r[k] ELSE s[k - Len(r)]
  OBVIOUS
<1> DEFINE w == r \o s
<1> HIDE DEF w
<1>3. \A k \in DOMAIN w : IF k <= Len(r) THEN k \in DOMAIN r /\ w[k] = r[k]
                          ELSE k - Len(r) \in DOMAIN s /\ w[k] = s[k - Len(r)]
  BY <1>1, <1>2 DEF w
<1>4. \A k \in DOMAIN r : k \in DOMAIN w /\ w[k] = r[k]
  BY <1>1, <1>2 DEF w
<1>5. \A k \in DOMAIN s : k + Len(r) \in DOMAIN w /\ w[k + Len(r)] = s[k]
  BY <1>1, <1>2 DEF w
<1>6. ToSet(w) = ToSet(r) \cup ToSet(s)
  BY <1>3, <1>4, <1>5 DEF ToSet
<1>7. ASSUME NEW k \in DOMAIN w, NEW l \in DOMAIN w, k < l PROVE w[k] < w[l]
  <2>1. k \in Nat /\ l \in Nat
    BY <1>1 DEF w
  <2>2. CASE l <= Len(r)
    BY <1>1, <1>3, <1>7, <2>1, <2>2 DEF Rising
  <2>3. CASE k <= Len(r) /\ ~(l <= Len(r))
    <3>1. w[k] \in ToSet(r) /\ w[l] \in ToSet(s)
      BY <1>3, <2>3 DEF ToSet
    <3> QED BY <3>1
  <2>4. CASE ~(k <= Len(r))
    <3>1. ~(l <= Len(r)) /\ k - Len(r) < l - Len(r)
      BY <1>1, <1>7, <2>1, <2>4
    <3> QED BY <1>3, <2>4, <3>1 DEF Rising
  <2> QED BY <1>1, <2>1, <2>2, <2>3, <2>4
<1>8. Rising(w)
  BY <1>7 DEF Rising
<1> QED BY <1>1, <1>6, <1>8 DEF w

LEMMA BordersAre ==
    ASSUME NEW t, IsText(t), NEW c \in Borders(t)
    PROVE  c \in Nat /\ c <= Len(t) + 1
<1>1. Len(t) \in Nat
  BY DEF IsText
<1>2. c \in Lexemes(t) \/ c = 0 \/ c = Len(t) + 1
  BY DEF Borders
<1>3. c \in Lexemes(t) => c \in Nat /\ c <= Len(t) + 1
  <2> SUFFICES ASSUME c \in Lexemes(t) PROVE c \in Nat /\ c <= Len(t) + 1
    OBVIOUS
  <2>1. c \in 1 .. Len(t)
    BY LexemesAre DEF IsText
  <2> QED BY <1>1, <2>1
<1> QED BY <1>1, <1>2, <1>3

LEMMA FoundOn ==
    ASSUME NEW t, IsText(t), NEW p \in Nat, NEW q \in Nat, NEW b \in Lexemes(t),
           NEW piece \in Seq(Nat), Piece(t, p, q, b, piece),
           NEW lo \in Nat, NEW cur \in Seq(Nat), NEW sts, Found(t, p, lo, cur, sts)
    PROVE  Found(t, q, lo, cur \o piece, sts)
<1>1. b \in Nat /\ TokenEnd(t, b) \in Nat /\ lo < p /\ p < q /\ b <= p /\ q <= TokenEnd(t, b) + 1
  BY LexemesAre DEF Piece, Found
<1>2. ASSUME NEW c \in Nat, p <= c, c < q
      PROVE  (c \in Kept(t) <=> ~IsComment(t, b)) /\ c \notin Borders(t)
  <2>1. b <= c /\ c <= TokenEnd(t, b) /\ (c = b => c = p)
    BY <1>1, <1>2
  <2>2. (c \in Kept(t) <=> ~IsComment(t, b)) /\ (c \in Borders(t) <=> c = b /\ t[b] = ";")
    BY <2>1, LettersOf
  <2>3. b = p => t[b] # ";"
    BY DEF Piece
  <2> QED BY <2>1, <2>2, <2>3
<1>3. ASSUME NEW c \in Borders(t) PROVE c <= lo \/ q <= c
  <2>1. c \in Nat
    BY BordersAre
  <2>2. c <= lo \/ p <= c
    BY DEF Found
  <2> QED BY <1>1, <1>2, <2>1, <2>2
<1>4. ToSet(piece) = Kept(t) \cap (p .. q - 1)
  <2>1. \A c \in p .. q - 1 : c \in Kept(t) <=> ~IsComment(t, b)
    BY <1>1, <1>2
  <2> QED BY <2>1 DEF Piece
<1>5. lo + 1 .. q - 1 = (lo + 1 .. p - 1) \cup (p .. q - 1)
  BY <1>1
<1>6. \A x \in ToSet(cur), y \in ToSet(piece) : x < y
  <2>1. \A x \in ToSet(cur) : x \in lo + 1 .. p - 1
    BY DEF Found
  <2>2. \A y \in ToSet(piece) : y \in p .. q - 1
    BY <1>4
  <2> QED BY <1>1, <2>1, <2>2
<1>7. ToSet(cur \o piece) = ToSet(cur) \cup ToSet(piece) /\ Rising(cur \o piece)
  BY <1>6, JoinedIs DEF Piece, Found
<1>8. ToSet(cur \o piece) = Kept(t) \cap (lo + 1 .. q - 1)
  BY <1>4, <1>5, <1>7 DEF Found
<1>9. lo \in Borders(t) /\ lo < q
  BY <1>1 DEF Found
<1> QED BY <1>3, <1>7, <1>8, <1>9 DEF Found

----------------------------------------------------------------------------
LEMMA TrimIs ==
    ASSUME NEW s \in Seq(Nat), Rising(s)
    PROVE  Trim(s) \in Seq(Nat) /\ Rising(Trim(s)) /\ ToSet(Trim(s)) = Trimmed(text, ToSet(s))
<1> DEFINE full == {k \in DOMAIN s : ~IsBlank(text, s[k])}
<1>1. DOMAIN s = 1 .. Len(s) /\ Len(s) \in Nat /\ \A k \in DOMAIN s : k \in Nat /\ s[k] \in Nat
  OBVIOUS
<1>2. \A x \in ToSet(s) : ~IsBlank(text, x) => \E k \in full : s[k] = x
  BY DEF ToSet
<1>3. CASE full = {}
  <2>1. Trim(s) = <<>>
    BY <1>3 DEF Trim
  <2>2. Trimmed(text, ToSet(s)) = {}
    BY <1>2, <1>3 DEF Trimmed
  <2>3. <<>> \in Seq(Nat) /\ DOMAIN <<>> = {}
    OBVIOUS
  <2> QED BY <2>1, <2>2, <2>3 DEF ToSet, Rising
<1>4. CASE full # {}
  <2> DEFINE m == Min(full)
  <2> DEFINE n == Max(full)
  <2>1. m \in full /\ \A k \in full : m <= k
    <3>1. full \in SUBSET Nat
      BY <1>1
    <3> HIDE DEF full
    <3> QED BY <1>4, <3>1, MinIs
  <2>2. n \in full /\ \A k \in full : k <= n
    <3>1. full \in SUBSET (0 .. Len(s))
      BY <1>1
    <3> HIDE DEF full
    <3> QED BY <1>1, <1>4, <3>1, MaxIs
  <2>3. m \in DOMAIN s /\ n \in DOMAIN s /\ m \in Nat /\ n \in Nat /\ m <= n /\ 1 <= m /\ n <= Len(s)
    BY <1>1, <2>1, <2>2
  <2>4. ~IsBlank(text, s[m]) /\ ~IsBlank(text, s[n])
    BY <2>1, <2>2
  <2>5. Trim(s) = SubSeq(s, m, n)
    BY <1>4 DEF Trim
  <2> DEFINE r == SubSeq(s, m, n)
  <2> HIDE DEF full, m, n
  <2>6. r \in Seq(Nat) /\ DOMAIN r = 1 .. n - m + 1 /\ \A k \in 1 .. n - m + 1 : r[k] = s[m + k - 1]
    <3>1. \A k \in m .. n : s[k] \in Nat
      <4>1. \A k \in m .. n : k \in DOMAIN s
        BY <1>1, <2>3
      <4> QED BY <1>1, <4>1
    <3>2. /\ r \in Seq(Nat) /\ Len(r) = n - m + 1
          /\ \A k \in 1 .. n - m + 1 : r[k] = s[m + k - 1]
      <4>1. m \in Int /\ n \in Int /\ m <= n
        BY <2>3
      <4> QED BY ONLY <3>1, <4>1, SubSeqProperties
    <3> QED BY <3>2, LenProperties
  <2> HIDE DEF r
  <2>7. \A k \in DOMAIN r : m + k - 1 \in DOMAIN s /\ m <= m + k - 1 /\ m + k - 1 <= n /\ r[k] = s[m + k - 1]
    <3> SUFFICES ASSUME NEW k \in DOMAIN r
                 PROVE  /\ m + k - 1 \in DOMAIN s /\ m <= m + k - 1 /\ m + k - 1 <= n
                        /\ r[k] = s[m + k - 1]
      OBVIOUS
    <3>1. k \in 1 .. n - m + 1
      BY <2>6
    <3>2. k \in Nat /\ 1 <= k /\ k <= n - m + 1
      BY <2>3, <3>1
    <3>3. m + k - 1 \in Nat /\ m <= m + k - 1 /\ m + k - 1 <= n /\ 1 <= m + k - 1 /\ m + k - 1 <= Len(s)
      <4>1. m \in Nat /\ n \in Nat /\ Len(s) \in Nat /\ 1 <= m /\ n <= Len(s)
        BY <1>1, <2>3
      <4> QED BY ONLY <3>2, <4>1
    <3>4. m + k - 1 \in DOMAIN s
      BY <1>1, <3>3
    <3> QED BY <2>6, <3>1, <3>3, <3>4
  <2>8. \A k \in m .. n : k - m + 1 \in DOMAIN r /\ r[k - m + 1] = s[k]
    <3> SUFFICES ASSUME NEW k \in m .. n PROVE k - m + 1 \in DOMAIN r /\ r[k - m + 1] = s[k]
      OBVIOUS
    <3>1. k - m + 1 \in 1 .. n - m + 1 /\ m + (k - m + 1) - 1 = k
      BY <2>3
    <3> QED BY <2>6, <3>1
  <2>9. Rising(r)
    <3> SUFFICES ASSUME NEW k \in DOMAIN r, NEW l \in DOMAIN r, k < l PROVE r[k] < r[l]
      BY DEF Rising
    <3>1. m + k - 1 < m + l - 1
      BY <2>3, <2>6
    <3> QED BY <2>7, <3>1 DEF Rising
  <2>10. \A k, l \in DOMAIN s : s[k] <= s[l] => k <= l
    BY <1>1 DEF Rising
  <2>11. \A k, l \in DOMAIN s : k <= l => s[k] <= s[l]
    BY <1>1 DEF Rising
  <2>12. ASSUME NEW x \in ToSet(r) PROVE x \in Trimmed(text, ToSet(s))
    <3>1. PICK k \in DOMAIN r : x = r[k]
      BY DEF ToSet
    <3>2. x \in ToSet(s) /\ s[m] \in ToSet(s) /\ s[n] \in ToSet(s)
      BY <2>3, <2>7, <3>1 DEF ToSet
    <3>3. s[m] <= x /\ x <= s[n]
      BY <2>3, <2>7, <2>11, <3>1
    <3> QED BY <2>4, <3>2, <3>3 DEF Trimmed
  <2>13. ASSUME NEW x \in Trimmed(text, ToSet(s)) PROVE x \in ToSet(r)
    <3>1. PICK a \in ToSet(s), b \in ToSet(s) : a <= x /\ x <= b /\ ~IsBlank(text, a) /\ ~IsBlank(text, b)
      BY DEF Trimmed
    <3>2. PICK k \in DOMAIN s : x = s[k]
      BY DEF Trimmed, ToSet
    <3>3. PICK c \in full, d \in full : s[c] = a /\ s[d] = b
      BY <1>2, <3>1
    <3>4. c \in DOMAIN s /\ d \in DOMAIN s
      BY <3>3 DEF full
    <3>5. c <= k /\ k <= d
      BY <2>10, <3>1, <3>2, <3>3, <3>4
    <3>6. m <= c /\ d <= n
      BY <2>1, <2>2
    <3>7. k \in m .. n
      BY <1>1, <2>3, <3>4, <3>5, <3>6
    <3>8. k - m + 1 \in DOMAIN r /\ r[k - m + 1] = x
      BY <2>8, <3>2, <3>7
    <3> QED BY <3>8 DEF ToSet
  <2>14. ToSet(r) = Trimmed(text, ToSet(s))
    BY <2>12, <2>13
  <2> QED BY <2>5, <2>6, <2>9, <2>14 DEF r
<1> QED BY <1>3, <1>4

\* The semicolons and the ends of the text next to each other, up to p.
LEMMA NeighboursGrow ==
    ASSUME NEW t, IsText(t), NEW lo \in Borders(t), NEW p \in Borders(t), lo < p,
           \A c \in Borders(t) : c <= lo \/ p <= c
    PROVE  NeighboursTo(t, p) = NeighboursTo(t, lo) \cup {<<lo, p>>}
<1>1. \A c \in Borders(t) : c \in Nat
  BY BordersAre
<1>2. <<lo, p>> \in Neighbours(t)
  BY DEF Neighbours
<1>3. ASSUME NEW r \in Neighbours(t), r[2] <= p, ~(r[2] <= lo)
      PROVE  r = <<lo, p>>
  <2>1. r \in Borders(t) \X Borders(t) /\ r[1] < r[2] /\ \A c \in Borders(t) : c <= r[1] \/ r[2] <= c
    BY DEF Neighbours
  <2>2. r[1] \in Borders(t) /\ r[2] \in Borders(t) /\ r = <<r[1], r[2]>>
    BY <2>1
  <2>3. r[2] = p
    BY <1>1, <1>3, <2>2
  <2>4. lo <= r[1]
    BY <1>1, <1>3, <2>1
  <2>5. r[1] <= lo
    BY <1>1, <2>1, <2>2, <2>3
  <2> QED BY <1>1, <2>2, <2>3, <2>4, <2>5
<1>4. \A r \in Neighbours(t) : r[2] <= lo => r[2] <= p
  <2>1. \A r \in Neighbours(t) : r[2] \in Borders(t)
    BY DEF Neighbours
  <2> QED BY <1>1, <2>1
<1>5. <<lo, p>>[2] <= p
  BY <1>1
<1> QED BY <1>2, <1>3, <1>4, <1>5 DEF NeighboursTo

LEMMA FoundBorder ==
    ASSUME NEW t, IsText(t), NEW p \in Borders(t), NEW lo \in Borders(t),
           NEW cur \in Seq(Nat), NEW sts \in Seq(Seq(Nat)), Found(t, p, lo, cur, sts),
           NEW piece \in Seq(Nat), Rising(piece), ToSet(piece) = Trimmed(t, ToSet(cur))
    PROVE  Found(t, p + 1, p, <<>>, IF piece = <<>> THEN sts ELSE Append(sts, piece))
<1> DEFINE new == IF piece = <<>> THEN sts ELSE Append(sts, piece)
<1> DEFINE sets(ss) == {ToSet(ss[i]) : i \in DOMAIN ss}
<1>1. p \in Nat /\ lo \in Nat /\ lo < p /\ \A c \in Borders(t) : c \in Nat
  BY BordersAre DEF Found
<1>2. \A c \in Borders(t) : c <= p \/ p + 1 <= c
  BY <1>1
<1>3. ToSet(piece) = BetweenBorders(t, <<lo, p>>)
  BY DEF Found, BetweenBorders
<1>4. piece = <<>> <=> ToSet(piece) = {}
  <2>1. DOMAIN piece = 1 .. Len(piece) /\ Len(piece) \in Nat /\ (Len(piece) = 0 <=> piece = <<>>)
    OBVIOUS
  <2>2. ToSet(piece) = {} <=> DOMAIN piece = {}
    BY DEF ToSet
  <2>3. Len(piece) # 0 => 1 \in DOMAIN piece
    BY <2>1
  <2>4. Len(piece) = 0 => DOMAIN piece = {}
    BY <2>1
  <2> QED BY <2>1, <2>2, <2>3, <2>4
<1>5. \A k \in DOMAIN piece : piece[k] \in Nat /\ lo < piece[k] /\ piece[k] < p
  <2> SUFFICES ASSUME NEW k \in DOMAIN piece PROVE piece[k] \in Nat /\ lo < piece[k] /\ piece[k] < p
    OBVIOUS
  <2>1. piece[k] \in ToSet(piece) /\ piece[k] \in Nat
    BY DEF ToSet
  <2>2. piece[k] \in ToSet(cur)
    BY <2>1 DEF Trimmed
  <2>3. piece[k] \in lo + 1 .. p - 1
    BY <2>2 DEF Found
  <2> QED BY <1>1, <2>1, <2>3
<1>6. /\ DOMAIN sts = 1 .. Len(sts) /\ Len(sts) \in Nat
      /\ \A i \in DOMAIN sts : \A k \in DOMAIN sts[i] : sts[i][k] \in Nat /\ sts[i][k] <= lo
  BY DEF Found
<1> DEFINE upTo(c) == {BetweenBorders(t, r) : r \in NeighboursTo(t, c)}
<1>7. upTo(p) = upTo(lo) \cup {ToSet(piece)}
  <2>1. NeighboursTo(t, p) = NeighboursTo(t, lo) \cup {<<lo, p>>}
    <3>1. \A c \in Borders(t) : c <= lo \/ p <= c
      BY DEF Found
    <3>2. IsText(t) /\ lo \in Borders(t) /\ p \in Borders(t) /\ lo < p
      BY <1>1
    <3> QED BY ONLY <3>1, <3>2, NeighboursGrow
  <2> QED BY <1>3, <2>1
<1>8. ASSUME piece = <<>>
      PROVE  /\ sets(new) = upTo(p) \ {{}} /\ InOrder(new)
             /\ \A i \in DOMAIN new : \A k \in DOMAIN new[i] : new[i][k] <= p
  <2>1. new = sts
    BY <1>8
  <2>2. upTo(p) \ {{}} = upTo(lo) \ {{}}
    BY <1>4, <1>8, <1>7
  <2>3. sets(new) = upTo(p) \ {{}}
    BY <2>1, <2>2 DEF Found
  <2>4. InOrder(new)
    BY <2>1 DEF Found
  <2>5. \A i \in DOMAIN sts : \A k \in DOMAIN sts[i] : sts[i][k] <= p
    BY <1>1, <1>6
  <2> QED BY <2>1, <2>3, <2>4, <2>5
<1>9. ASSUME piece # <<>>
      PROVE  /\ sets(new) = upTo(p) \ {{}} /\ InOrder(new)
             /\ \A i \in DOMAIN new : \A k \in DOMAIN new[i] : new[i][k] <= p
  <2>1. new = Append(sts, piece)
    BY <1>9
  <2>2. /\ DOMAIN new = (DOMAIN sts) \cup {Len(sts) + 1} /\ new[Len(sts) + 1] = piece
        /\ \A i \in DOMAIN sts : new[i] = sts[i]
    <3>1. /\ new \in Seq(Seq(Nat)) /\ Len(new) = Len(sts) + 1 /\ new[Len(sts) + 1] = piece
          /\ \A i \in 1 .. Len(sts) : new[i] = sts[i]
      BY <2>1, AppendProperties
    <3>2. DOMAIN new = 1 .. Len(sts) + 1
      BY <3>1, LenProperties
    <3> QED BY <1>6, <3>1, <3>2
  <2>3. sets(new) = sets(sts) \cup {ToSet(piece)}
    BY <2>2
  <2>4. upTo(p) \ {{}} = (upTo(lo) \ {{}}) \cup {ToSet(piece)}
    BY <1>4, <1>9, <1>7
  <2>5. sets(new) = upTo(p) \ {{}}
    BY <2>3, <2>4 DEF Found
  <2>6. \A i \in DOMAIN new : \A k \in DOMAIN new[i] : new[i][k] \in Nat /\ new[i][k] <= p
    <3> SUFFICES ASSUME NEW i \in DOMAIN new, NEW k \in DOMAIN new[i]
                 PROVE  new[i][k] \in Nat /\ new[i][k] <= p
      OBVIOUS
    <3>1. CASE i \in DOMAIN sts
      <4>1. new[i] = sts[i] /\ sts[i][k] \in Nat /\ sts[i][k] <= lo
        BY <1>6, <2>2, <3>1
      <4> QED BY <1>1, <4>1
    <3>2. CASE i = Len(sts) + 1
      BY <1>1, <1>5, <2>2, <3>2
    <3> QED BY <2>2, <3>1, <3>2
  <2>7. InOrder(new)
    <3> SUFFICES ASSUME NEW i \in DOMAIN new, NEW j \in DOMAIN new, NEW k \in DOMAIN new[i],
                        NEW l \in DOMAIN new[j], i < j \/ (i = j /\ k < l)
                 PROVE  new[i][k] < new[j][l]
      BY DEF InOrder
    <3>1. CASE i \in DOMAIN sts /\ j \in DOMAIN sts
      <4>1. new[i] = sts[i] /\ new[j] = sts[j]
        BY <2>2, <3>1
      <4>2. InOrder(sts)
        BY DEF Found
      <4> QED BY <3>1, <4>1, <4>2 DEF InOrder
    <3>2. CASE i \in DOMAIN sts /\ j = Len(sts) + 1
      <4>1. new[i] = sts[i] /\ new[j] = piece
        BY <2>2, <3>2
      <4>2. sts[i][k] \in Nat /\ sts[i][k] <= lo
        BY <1>6, <3>2, <4>1
      <4>3. piece[l] \in Nat /\ lo < piece[l]
        BY <1>5, <4>1
      <4>4. sts[i][k] < piece[l]
        <5>1. \A x, y \in Nat : x <= lo /\ lo < y => x < y
          <6>1. lo \in Nat
            BY <1>1
          <6> QED BY ONLY <6>1
        <5> QED BY <4>2, <4>3, <5>1, Zenon
      <4> QED BY <4>1, <4>4
    <3>3. CASE i = Len(sts) + 1 /\ j \in DOMAIN sts
      BY <1>6, <3>3
    <3>4. CASE i = Len(sts) + 1 /\ j = Len(sts) + 1
      BY <1>6, <2>2, <3>4 DEF Rising
    <3> QED BY <2>2, <3>1, <3>2, <3>3, <3>4
  <2> HIDE DEF new
  <2> QED BY <2>5, <2>6, <2>7
<1>10. ToSet(<<>>) = Kept(t) \cap (p + 1 .. (p + 1) - 1)
  BY <1>1 DEF ToSet
<1>11. Rising(<<>>)
  BY DEF Rising
<1> HIDE DEF new
<1>12. p < p + 1
  BY <1>1
<1>13. Found(t, p + 1, p, <<>>, new)
  BY <1>2, <1>8, <1>9, <1>10, <1>11, <1>12 DEF Found
<1> QED BY <1>13 DEF new

----------------------------------------------------------------------------
\* The text is given, and stays as it is.
TextGiven == \E n \in 0 .. MaxText : text \in [1 .. n -> Letters]

LEMMA TextGivenInit == SplitInit => TextGiven
BY DEF SplitInit, TextGiven

LEMMA TextGivenStep == TextGiven /\ [SplitNext]_splitVars => TextGiven'
<1> SUFFICES ASSUME TextGiven, [SplitNext]_splitVars PROVE TextGiven'
  OBVIOUS
<1>1. text' = text
  BY DEF SplitNext, splitVars, Comment, OpenComment, Quote, Semicolon, Other, EndOfText, Scan
<1> QED BY <1>1 DEF TextGiven

LEMMA TextIs ==
    ASSUME TextGiven, SplitRight
    PROVE  /\ IsText(text) /\ at \in Nat /\ at <= Len(text) + 1
           /\ at <= Len(text) => at \in DOMAIN text /\ Char(at) = text[at]
<1>1. PICK n \in 0 .. MaxText : text \in [1 .. n -> Letters]
  BY DEF TextGiven
<1>2. Len(text) = n /\ n \in Nat /\ DOMAIN text = 1 .. n
  BY <1>1, SqlSplitAssumption
<1>3. at \in 1 .. n + 1
  BY <1>2 DEF SplitRight
<1> QED BY <1>2, <1>3 DEF IsText, Char, Letter

LEMMA PlaceIs ==
    ASSUME NEW t, NEW p, NEW place, Placed(t, p, place)
    PROVE  /\ place = "code" => Reached(t, p)
           /\ place = "line" => \E b \in Lexemes(t) : LineOpen(t, p, b)
           /\ place = "block" => \E b \in Lexemes(t) : BlockOpen(t, p, b)
           /\ place \in Quotes => \E b \in Lexemes(t) : place = t[b] /\ LiteralOpen(t, p, b)
<1>1. place \in Quotes => place \in {"'", "dq"}
  BY DEF Quotes
<1> QED BY <1>1 DEF Placed, Quotes

\* Nothing, a letter or two letters are kept.
LEMMA FewLetters ==
    ASSUME NEW p \in Nat
    PROVE  /\ Rising(<<>>) /\ ToSet(<<>>) = {}
           /\ Rising(<<p>>) /\ ToSet(<<p>>) = p .. (p + 1) - 1
           /\ Rising(<<p, p + 1>>) /\ ToSet(<<p, p + 1>>) = p .. (p + 2) - 1
<1>1. Rising(<<>>) /\ ToSet(<<>>) = {}
  BY DEF Rising, ToSet
<1>2. p .. (p + 1) - 1 = {p} /\ p .. (p + 2) - 1 = {p, p + 1}
  OBVIOUS
<1>3. DOMAIN <<p>> = {1} /\ <<p>>[1] = p
  OBVIOUS
<1>4. DOMAIN <<p, p + 1>> = {1, 2} /\ <<p, p + 1>>[1] = p /\ <<p, p + 1>>[2] = p + 1
  OBVIOUS
<1>5. Rising(<<p>>) /\ ToSet(<<p>>) = {p}
  BY <1>3 DEF Rising, ToSet
<1>6. Rising(<<p, p + 1>>) /\ ToSet(<<p, p + 1>>) = {p, p + 1}
  BY <1>4 DEF Rising, ToSet
<1> QED BY <1>1, <1>2, <1>5, <1>6

LEMMA OneMore ==
    \A p, m \in Nat : /\ p < p + 1 /\ p < p + 2
                      /\ p <= m => p + 1 <= m + 1
                      /\ p + 1 <= m => p + 2 <= m + 1
OBVIOUS

LEMMA PieceIs ==
    ASSUME NEW t, NEW p \in Nat, NEW b \in Nat, b <= p, b = p => t[p] # ";",
           TokenEnd(t, b) \in Nat
    PROVE  /\ IsComment(t, b) /\ p <= TokenEnd(t, b) => Piece(t, p, p + 1, b, <<>>)
           /\ IsComment(t, b) /\ p + 1 <= TokenEnd(t, b) => Piece(t, p, p + 2, b, <<>>)
           /\ ~IsComment(t, b) /\ p <= TokenEnd(t, b) => Piece(t, p, p + 1, b, <<p>>)
           /\ ~IsComment(t, b) /\ p + 1 <= TokenEnd(t, b) => Piece(t, p, p + 2, b, <<p, p + 1>>)
<1>1. /\ p < p + 1 /\ p < p + 2
      /\ \A m \in Nat : /\ p <= m => p + 1 <= m + 1
                        /\ p + 1 <= m => p + 2 <= m + 1
  BY OneMore
<1> QED BY <1>1, FewLetters DEF Piece

LEMMA ScanRight ==
    ASSUME TextGiven, SplitRight, at <= Len(text),
           NEW n \in {1, 2}, NEW place, NEW piece \in Seq(Nat), Scan(n, place, piece),
           NEW b \in Lexemes(text), Piece(text, at, at + n, b, piece),
           Placed(text, at + n, place)
    PROVE  SplitRight'
<1>1. IsText(text) /\ at \in Nat /\ Len(text) \in Nat
  BY TextIs DEF IsText
<1>2. at + n \in 1 .. Len(text) + 1
  <2>1. TokenEnd(text, b) \in Nat /\ TokenEnd(text, b) <= Len(text)
    BY <1>1, LexemesAre
  <2>2. at + n <= TokenEnd(text, b) + 1
    BY DEF Piece
  <2> QED BY <1>1, <2>1, <2>2
<1>3. ~wholeRead /\ current \in Seq(Nat) /\ statements \in Seq(Seq(Nat))
  BY <1>1 DEF SplitRight
<1>4. PICK lo \in Borders(text) : Found(text, at, lo, current, statements)
  BY <1>3 DEF SplitRight
<1>5. Found(text, at + n, lo, current \o piece, statements)
  <2>1. lo \in Nat /\ at + n \in Nat
    BY <1>1, BordersAre
  <2> QED BY <1>1, <1>3, <1>4, <2>1, FoundOn
<1>6. current \o piece \in Seq(Nat)
  BY <1>3
<1>7. text' = text /\ at' = at + n /\ inside' = place /\ current' = current \o piece
      /\ statements' = statements /\ wholeRead' = wholeRead
  BY DEF Scan
<1> QED BY <1>2, <1>3, <1>5, <1>6, <1>7 DEF SplitRight

LEMMA CommentRight ==
    ASSUME TextGiven, SplitRight, at <= Len(text), Comment
    PROVE  SplitRight'
<1>1. /\ IsText(text) /\ at \in Nat /\ at \in DOMAIN text /\ Char(at) = text[at]
      /\ Placed(text, at, inside)
  BY TextIs DEF SplitRight
<1>2. One \in Seq(Nat) /\ <<>> \in Seq(Nat) /\ One = <<at>>
  BY <1>1 DEF One
<1>3. CASE inside = "line"
  <2>1. PICK b \in Lexemes(text) : LineOpen(text, at, b)
    BY <1>1, <1>3, PlaceIs
  <2>2. CASE text[at] = Newline
    <3>1. Reached(text, at)
      BY <1>1, <2>1, <2>2, LineStep
    <3>2. at \in Lexemes(text)
      BY <1>1, <3>1, ReachedBegins
    <3>3. text[at] \notin Quotes /\ ~IsComment(text, at) /\ text[at] # ";"
      BY <1>1, <2>2 DEF Newline, Quotes, IsComment, BeginsWith, Char
    <3>4. Reached(text, at + 1)
      BY <1>1, <3>2, <3>3, CodeStep
    <3>5. at <= TokenEnd(text, at) /\ TokenEnd(text, at) \in Nat /\ at <= at
      BY <1>1, <3>2, LexemesAre
    <3>6. Piece(text, at, at + 1, at, One)
      BY <1>1, <1>2, <3>3, <3>5, PieceIs
    <3>7. Scan(1, "code", One) /\ Placed(text, at + 1, "code")
      BY <1>1, <1>3, <2>2, <3>4 DEF Comment, Placed
    <3> QED BY <1>2, <3>2, <3>6, <3>7, ScanRight
  <2>3. CASE text[at] # Newline
    <3>1. LineOpen(text, at + 1, b) /\ at <= TokenEnd(text, b) /\ b < at /\ IsComment(text, b)
      BY <1>1, <2>1, <2>3, LineStep
    <3>2. b \in Nat /\ TokenEnd(text, b) \in Nat
      BY <1>1, LexemesAre
    <3>3. b <= at /\ b # at
      BY <1>1, <3>1, <3>2
    <3>4. Piece(text, at, at + 1, b, <<>>)
      BY <1>1, <3>1, <3>2, <3>3, PieceIs
    <3>5. Scan(1, "line", <<>>) /\ Placed(text, at + 1, "line")
      BY <1>1, <1>3, <2>3, <3>1 DEF Comment, Placed
    <3> QED BY <1>2, <3>4, <3>5, ScanRight
  <2> QED BY <2>2, <2>3
<1>4. CASE inside = "block"
  <2>1. PICK b \in Lexemes(text) : BlockOpen(text, at, b)
    BY <1>1, <1>4, PlaceIs
  <2>2. b \in Nat /\ TokenEnd(text, b) \in Nat /\ b < at /\ IsComment(text, b) /\ b <= at /\ b # at
    BY <1>1, <2>1, BlockStep, LexemesAre
  <2>3. BeginsWith(text, at, "*", "/") <=> Two("*", "/")
    BY DEF BeginsWith, Two, Char
  <2>4. CASE Two("*", "/")
    <3>1. Reached(text, at + 2) /\ at + 1 <= TokenEnd(text, b)
      BY <1>1, <2>1, <2>3, <2>4, BlockStep
    <3>3. Piece(text, at, at + 2, b, <<>>)
      BY <1>1, <2>2, <3>1, PieceIs
    <3>4. Scan(2, "code", <<>>) /\ Placed(text, at + 2, "code")
      BY <1>4, <2>4, <3>1 DEF Comment, Placed
    <3> QED BY <1>2, <3>3, <3>4, ScanRight
  <2>5. CASE ~Two("*", "/")
    <3>1. BlockOpen(text, at + 1, b) /\ at <= TokenEnd(text, b)
      BY <1>1, <2>1, <2>3, <2>5, BlockStep
    <3>3. Piece(text, at, at + 1, b, <<>>)
      BY <1>1, <2>2, <3>1, PieceIs
    <3>4. Scan(1, "block", <<>>) /\ Placed(text, at + 1, "block")
      BY <1>4, <2>5, <3>1 DEF Comment, Placed
    <3> QED BY <1>2, <3>3, <3>4, ScanRight
  <2> QED BY <2>4, <2>5
<1> QED BY <1>3, <1>4 DEF Comment

LEMMA OpenRight ==
    ASSUME TextGiven, SplitRight, at <= Len(text), OpenComment
    PROVE  SplitRight'
<1>1. /\ IsText(text) /\ at \in Nat /\ at \in DOMAIN text /\ Char(at) = text[at]
      /\ inside = "code" /\ Placed(text, at, inside)
  BY TextIs DEF SplitRight, OpenComment, Opens
<1>2. at \in Lexemes(text)
  BY <1>1, PlaceIs, ReachedBegins
<1>3. \A c, d : BeginsWith(text, at, c, d) <=> Two(c, d)
  BY DEF BeginsWith, Two, Char
<1>4. IsComment(text, at) /\ text[at] # ";" /\ TokenEnd(text, at) \in Nat
  BY <1>1, <1>2, <1>3, LexemesAre DEF OpenComment, Opens, IsComment, Two
<1>5. at + 1 <= TokenEnd(text, at)
  BY <1>1, <1>2, <1>4, CodeStep DEF IsComment
<1>6. at <= at
  BY <1>1
<1>7. Piece(text, at, at + 2, at, <<>>)
  BY <1>1, <1>4, <1>5, <1>6, PieceIs
<1>8. <<>> \in Seq(Nat)
  OBVIOUS
<1>9. CASE Two("-", "-")
  <2>1. LineOpen(text, at + 2, at)
    BY <1>1, <1>2, <1>3, <1>9, CodeStep
  <2>2. Char(at) = "-"
    BY <1>9 DEF Two
  <2>3. Scan(2, "line", <<>>) /\ Placed(text, at + 2, "line")
    BY <1>2, <2>1, <2>2 DEF OpenComment, Placed
  <2> QED BY <1>2, <1>7, <1>8, <2>3, ScanRight
<1>10. CASE Two("/", "*")
  <2>1. BlockOpen(text, at + 2, at)
    BY <1>1, <1>2, <1>3, <1>10, CodeStep
  <2>2. Char(at) # "-"
    BY <1>10 DEF Two
  <2>3. Scan(2, "block", <<>>) /\ Placed(text, at + 2, "block")
    BY <1>2, <2>1, <2>2 DEF OpenComment, Placed
  <2> QED BY <1>2, <1>7, <1>8, <2>3, ScanRight
<1> QED BY <1>9, <1>10 DEF OpenComment, Opens

LEMMA QuoteRight ==
    ASSUME TextGiven, SplitRight, at <= Len(text), Quote
    PROVE  SplitRight'
<1>1. /\ IsText(text) /\ at \in Nat /\ at \in DOMAIN text /\ Char(at) = text[at] /\ at <= at
      /\ Placed(text, at, inside) /\ Char(at + 1) = Letter(text, at + 1)
  BY TextIs DEF SplitRight, Char
<1>2. text[at] \in Quotes /\ text[at] # "code" /\ text[at] # ";" /\ inside \in {"code", text[at]}
  BY <1>1 DEF Quote, Quotes
<1>3. One \in Seq(Nat) /\ One = <<at>> /\ <<at, at + 1>> \in Seq(Nat)
  BY <1>1 DEF One
<1>4. CASE inside = "code"
  <2>1. at \in Lexemes(text)
    BY <1>1, <1>4, PlaceIs, ReachedBegins
  <2>2. LiteralOpen(text, at + 1, at) /\ ~IsComment(text, at)
    BY <1>1, <1>2, <2>1, CodeStep
  <2>3. at <= TokenEnd(text, at) /\ TokenEnd(text, at) \in Nat
    BY <1>1, <2>1, LexemesAre
  <2>4. Piece(text, at, at + 1, at, One)
    BY <1>1, <1>2, <1>3, <2>2, <2>3, PieceIs
  <2>5. Scan(1, text[at], One) /\ Placed(text, at + 1, text[at])
    BY <1>1, <1>2, <1>4, <2>1, <2>2 DEF Quote, Placed
  <2> QED BY <1>3, <2>1, <2>4, <2>5, ScanRight
<1>5. CASE inside = text[at]
  <2>1. PICK b \in Lexemes(text) : inside = text[b] /\ LiteralOpen(text, at, b)
    BY <1>1, <1>2, <1>5, PlaceIs
  <2>2. b \in Nat /\ TokenEnd(text, b) \in Nat /\ ~IsComment(text, b) /\ b <= at /\ b # at
    BY <1>1, <2>1, LiteralStep, LexemesAre
  <2>3. text[at] = text[b]
    BY <1>5, <2>1
  <2>4. CASE Char(at + 1) = Char(at)
    <3>1. LiteralOpen(text, at + 2, b) /\ at + 1 <= TokenEnd(text, b)
      BY <1>1, <2>1, <2>3, <2>4, LiteralStep
    <3>2. Piece(text, at, at + 2, b, <<at, at + 1>>)
      BY <1>1, <2>2, <3>1, PieceIs
    <3>3. Scan(2, inside, <<at, at + 1>>)
      BY <1>1, <1>5, <2>4 DEF Quote
    <3>4. Placed(text, at + 2, inside)
      BY <1>2, <1>5, <2>1, <3>1 DEF Placed
    <3> QED BY <1>3, <3>2, <3>3, <3>4, ScanRight
  <2>5. CASE Char(at + 1) # Char(at)
    <3>1. Reached(text, at + 1) /\ at <= TokenEnd(text, b)
      BY <1>1, <2>1, <2>3, <2>5, LiteralStep
    <3>2. Piece(text, at, at + 1, b, One)
      BY <1>1, <1>3, <2>2, <3>1, PieceIs
    <3>3. Scan(1, "code", One) /\ Placed(text, at + 1, "code")
      BY <1>1, <1>2, <1>5, <2>5, <3>1 DEF Quote, Placed
    <3> QED BY <1>3, <3>2, <3>3, ScanRight
  <2> QED BY <2>4, <2>5
<1> QED BY <1>2, <1>4, <1>5

LEMMA OtherRight ==
    ASSUME TextGiven, SplitRight, at <= Len(text), Other
    PROVE  SplitRight'
<1>1. /\ IsText(text) /\ at \in Nat /\ at \in DOMAIN text /\ Char(at) = text[at] /\ at <= at
      /\ Placed(text, at, inside)
  BY TextIs DEF SplitRight
<1>2. One \in Seq(Nat) /\ One = <<at>> /\ Scan(1, inside, One)
  <2>1. Scan(1, inside, One)
    BY DEF Other
  <2> QED BY <1>1, <2>1 DEF One
<1>3. \A c, d : BeginsWith(text, at, c, d) <=> Two(c, d)
  BY DEF BeginsWith, Two, Char
<1>4. CASE inside = "code"
  <2>1. at \in Lexemes(text)
    BY <1>1, <1>4, PlaceIs, ReachedBegins
  <2>2. text[at] \notin Quotes /\ ~IsComment(text, at) /\ text[at] # ";"
    BY <1>1, <1>3, <1>4 DEF Other, Opens, IsComment
  <2>3. Reached(text, at + 1)
    BY <1>1, <2>1, <2>2, CodeStep
  <2>4. at <= TokenEnd(text, at) /\ TokenEnd(text, at) \in Nat
    BY <1>1, <2>1, LexemesAre
  <2>5. Piece(text, at, at + 1, at, One)
    BY <1>1, <1>2, <2>2, <2>4, PieceIs
  <2>6. Placed(text, at + 1, inside)
    BY <1>4, <2>3 DEF Placed
  <2> QED BY <1>2, <2>1, <2>5, <2>6, ScanRight
<1>5. CASE inside \in Quotes
  <2>1. PICK b \in Lexemes(text) : inside = text[b] /\ LiteralOpen(text, at, b)
    BY <1>1, <1>5, PlaceIs
  <2>2. b \in Nat /\ TokenEnd(text, b) \in Nat /\ ~IsComment(text, b) /\ b <= at /\ b # at
    BY <1>1, <2>1, LiteralStep, LexemesAre
  <2>3. text[at] # text[b]
    BY <1>1, <1>5, <2>1 DEF Other
  <2>4. LiteralOpen(text, at + 1, b) /\ at <= TokenEnd(text, b)
    BY <1>1, <2>1, <2>3, LiteralStep
  <2>5. Piece(text, at, at + 1, b, One)
    BY <1>1, <1>2, <2>2, <2>4, PieceIs
  <2>6. Placed(text, at + 1, inside)
    BY <1>5, <2>1, <2>4 DEF Placed
  <2> QED BY <1>2, <2>5, <2>6, ScanRight
<1> QED BY <1>4, <1>5 DEF Other

\* The statements when a border has been reached.
LEMMA BorderRight ==
    ASSUME TextGiven, SplitRight, ~wholeRead, at \in Borders(text)
    PROVE  Pushed \in Seq(Seq(Nat)) /\ Found(text, at + 1, at, <<>>, Pushed)
<1>1. IsText(text) /\ current \in Seq(Nat) /\ statements \in Seq(Seq(Nat))
  BY TextIs DEF SplitRight
<1>2. PICK lo \in Borders(text) : Found(text, at, lo, current, statements)
  BY DEF SplitRight
<1>3. Rising(current)
  BY <1>2 DEF Found
<1>4. Trim(current) \in Seq(Nat) /\ Rising(Trim(current))
      /\ ToSet(Trim(current)) = Trimmed(text, ToSet(current))
  BY <1>1, <1>3, TrimIs
<1>5. Found(text, at + 1, at, <<>>,
            IF Trim(current) = <<>> THEN statements ELSE Append(statements, Trim(current)))
  BY <1>1, <1>2, <1>4, FoundBorder
<1> QED BY <1>1, <1>4, <1>5 DEF Pushed

LEMMA SemicolonRight ==
    ASSUME TextGiven, SplitRight, at <= Len(text), Semicolon
    PROVE  SplitRight'
<1>1. IsText(text) /\ at \in Nat /\ at \in DOMAIN text /\ at <= Len(text) /\ Len(text) \in Nat
  BY TextIs DEF IsText
<1>2. Char(at) = text[at] /\ Char(at) = ";" /\ inside = "code" /\ Placed(text, at, inside)
  BY TextIs DEF Semicolon, SplitRight
<1>3. ~wholeRead
  BY <1>1 DEF SplitRight
<1>4. /\ IsText(text) /\ at \in DOMAIN text /\ text[at] = ";" /\ inside = "code"
      /\ Placed(text, at, inside) /\ ~wholeRead
  BY <1>1, <1>2, <1>3
<1>5. at \in Lexemes(text)
  BY <1>4, PlaceIs, ReachedBegins
<1>6. Reached(text, at + 1)
  <2>1. text[at] \notin Quotes /\ ~IsComment(text, at)
    BY <1>4 DEF Quotes, IsComment, BeginsWith, Letter
  <2> QED BY <1>4, <1>5, <2>1, CodeStep
<1>7. at \in Borders(text)
  BY <1>4, <1>5 DEF Borders
<1>8. Pushed \in Seq(Seq(Nat)) /\ Found(text, at + 1, at, <<>>, Pushed)
  BY <1>4, <1>7, BorderRight
<1>9. at + 1 \in 1 .. Len(text) + 1
  BY <1>1
<1>10. /\ text' = text /\ at' = at + 1 /\ inside' = inside /\ wholeRead' = wholeRead
      /\ statements' = Pushed /\ current' = <<>>
  BY DEF Semicolon
<1>11. Placed(text, at + 1, inside) /\ <<>> \in Seq(Nat)
  <2>1. inside = "code"
    BY <1>4
  <2> QED BY <1>6, <2>1 DEF Placed
<1> QED BY <1>4, <1>7, <1>8, <1>9, <1>10, <1>11 DEF SplitRight

LEMMA EndRight ==
    ASSUME TextGiven, SplitRight, ~wholeRead, EndOfText
    PROVE  SplitRight'
<1>1. IsText(text) /\ at \in Nat /\ Len(text) \in Nat /\ at <= Len(text) + 1 /\ at > Len(text)
  BY TextIs DEF IsText, EndOfText
<1>2. at = Len(text) + 1 /\ at \in Borders(text)
  <2>1. at = Len(text) + 1
    BY <1>1
  <2> QED BY <2>1 DEF Borders
<1>3. Pushed \in Seq(Seq(Nat)) /\ Found(text, at + 1, at, <<>>, Pushed)
  BY <1>2, BorderRight
<1>4. \A r \in Neighbours(text) : r[2] <= at
  <2> SUFFICES ASSUME NEW r \in Neighbours(text) PROVE r[2] <= at
    OBVIOUS
  <2>1. r[2] \in Borders(text)
    BY DEF Neighbours
  <2> QED BY <1>1, <1>2, <2>1, BordersAre
<1>5. NeighboursTo(text, at) = Neighbours(text)
  BY <1>4 DEF NeighboursTo
<1>6. {ToSet(Pushed[i]) : i \in DOMAIN Pushed} = Statements(text) /\ InOrder(Pushed)
  BY <1>3, <1>5 DEF Found, Statements
<1>7. /\ text' = text /\ at' = at /\ inside' = inside /\ current' = current
      /\ statements' = Pushed /\ wholeRead' = TRUE
  BY DEF EndOfText
<1>8. StatementsRight'
  BY <1>6, <1>7 DEF StatementsRight
<1>9. at \in 1 .. Len(text) + 1 /\ Placed(text, at, inside) /\ current \in Seq(Nat)
  BY DEF SplitRight
<1> QED BY <1>1, <1>3, <1>7, <1>8, <1>9 DEF SplitRight

LEMMA SplitRightInit == TextGiven /\ SplitInit => SplitRight
<1> SUFFICES ASSUME TextGiven, SplitInit PROVE SplitRight
  OBVIOUS
<1>1. PICK n \in 0 .. MaxText : text \in [1 .. n -> Letters]
  BY DEF TextGiven
<1>2. Len(text) = n /\ n \in Nat /\ DOMAIN text = 1 .. n
  BY <1>1, SqlSplitAssumption
<1>3. IsText(text) /\ at \in 1 .. Len(text) + 1
  BY <1>2 DEF IsText, SplitInit
<1>4. Placed(text, at, inside)
  BY DEF SplitInit, Placed, Reached
<1>5. 0 \in Borders(text) /\ \A c \in Borders(text) : c \in Nat
  BY <1>3, BordersAre DEF Borders
<1>6. NeighboursTo(text, 0) = {}
  <2> SUFFICES ASSUME NEW r \in Neighbours(text), r[2] <= 0 PROVE FALSE
    BY DEF NeighboursTo
  <2>1. r[1] \in Borders(text) /\ r[2] \in Borders(text) /\ r[1] < r[2]
    BY DEF Neighbours
  <2> QED BY <1>5, <2>1
<1>7. {BetweenBorders(text, q) : q \in NeighboursTo(text, 0)} = {}
  BY <1>6
<1>8. at = 1 /\ current = <<>> /\ statements = <<>> /\ wholeRead = FALSE /\ DOMAIN <<>> = {}
  BY DEF SplitInit
<1>9. \A c \in Borders(text) : c <= 0 \/ 1 <= c
  BY <1>5
<1>10. ToSet(<<>>) = {} /\ 0 + 1 .. 1 - 1 = {} /\ Rising(<<>>) /\ InOrder(<<>>)
       /\ {ToSet(<<>>[i]) : i \in DOMAIN <<>>} = {} /\ \A i \in DOMAIN <<>> : FALSE
  BY DEF ToSet, Rising, InOrder
<1>11. Found(text, 1, 0, <<>>, <<>>)
  BY <1>5, <1>7, <1>9, <1>10 DEF Found
<1>12. <<>> \in Seq(Nat) /\ <<>> \in Seq(Seq(Nat))
  OBVIOUS
<1> QED BY <1>3, <1>4, <1>5, <1>8, <1>11, <1>12 DEF SplitRight

LEMMA SplitRightStep == TextGiven /\ SplitRight /\ [SplitNext]_splitVars => SplitRight'
<1> SUFFICES ASSUME TextGiven, SplitRight, [SplitNext]_splitVars PROVE SplitRight'
  OBVIOUS
<1>1. CASE UNCHANGED splitVars
  BY <1>1 DEF splitVars, SplitRight, StatementsRight
<1> QED BY <1>1, CommentRight, OpenRight, QuoteRight, SemicolonRight, OtherRight, EndRight DEF SplitNext

LEMMA SplitRightSafe == TextGiven /\ SplitRight => StatementsRight
BY DEF SplitRight, StatementsRight

\* When a text has been read, its statements have been found, no more and no
\* fewer, in their order, whole and without their comments: for every length of
\* the texts and every set of letters.
THEOREM StatementsRightCorrect == SplitSpec => []StatementsRight
<1>1. SplitInit => TextGiven /\ SplitRight
  BY TextGivenInit, SplitRightInit
<1>2. TextGiven /\ SplitRight /\ [SplitNext]_splitVars => TextGiven' /\ SplitRight'
  BY TextGivenStep, SplitRightStep
<1> QED BY <1>1, <1>2, SplitRightSafe, PTL DEF SplitSpec
=============================================================================
