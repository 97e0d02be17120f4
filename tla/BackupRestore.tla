--------------------------- MODULE BackupRestore ---------------------------
(***************************************************************************)
(* Restoring, verifying and exporting backups (BackupService and the       *)
(* upload handlers of BackupController), run concurrently by the event     *)
(* loop of one process over one data directory.                            *)
(*                                                                         *)
(* Each request is served once and interleaves with the others at its      *)
(* awaits.  From the return of $disconnect an import is a run of           *)
(* synchronous file operations: while busy = r no other request moves, but *)
(* an operation may throw, or the process die, between any two of them.    *)
(* Data is abstracted to its origin: the backup it was restored from.      *)
(*                                                                         *)
(* The key of the backups is part of config.json, of which the process     *)
(* keeps a copy in memory; while the database is missing it goes by a      *)
(* configuration of the setup mode instead, which has no key, and a key    *)
(* made then is saved over config.json.                                    *)
(***************************************************************************)
EXTENDS Naturals

CONSTANTS Posted,     \* handler invocations
          Backups,      \* the backup files there are to restore or verify
          Contents      \* what is in each of them

NoOne == "no request"
Original == "the data the installation began with"
Gone == "no such file"
Torn == "partly written"
EmptyDb == "created by SQLite"
Plain == "not encrypted"
NoKey == "no key"

\* Keys of backups: ours, someone else's, and those generated on demand, each
\* named after the request that needed it.
GivenKeys == {"own", "foreign"}
BackupKeys == GivenKeys \cup Posted

\* key: of the file; sound: tag, tar and app.db are in order; sidecar,
\* uploads: what it holds; carries: the key in its config.json, if it has one.
Backup == [key : GivenKeys \cup {Plain}, sound : BOOLEAN, sidecar : BOOLEAN,
           uploads : BOOLEAN, carries : GivenKeys \cup {NoKey, Gone}]

ASSUME RestoreAssumption ==
    /\ Contents \in [Backups -> Backup]
    /\ Backups \cap {Original, Gone, Torn, EmptyDb} = {}
    /\ Posted \cap (GivenKeys \cup {NoOne, NoKey, Plain, Torn}) = {}

\* A configuration: backupEncryptionKey and setupMode.  NoConfig is a
\* config.json that cannot be read, and an empty cache.
Config == [key : BackupKeys \cup {NoKey}, setup : BOOLEAN]
NoConfig == [key |-> Torn, setup |-> FALSE]
SetupMode == [key |-> NoKey, setup |-> TRUE]

Origins == Backups \cup {Original, Gone, Torn, EmptyDb}

Restoring == {"removeDb", "copyDb", "copySidecar", "dropUploads",
              "copyUploads", "writeConfig"}
Underway == {"import", "importKey", "importDecrypt", "unpack", "disconnect",
             "verifyKey", "verifyDecrypt", "export", "exportKey"} \cup Restoring
\* "failed" is one whose key could not be saved, "lost" one whose process died.
Ended == {"restored", "refused", "broken off", "verified", "unverified",
          "exported", "no database", "failed", "lost"}

VARIABLES
    pc,         \* where the handler of each request stands
    busy,       \* the request inside its synchronous restore, or NoOne
    backup,     \* the file a request is about
    byPath,     \* it is named by its path on the server, not uploaded
    upload,     \* requests whose uploaded temporary file is on disk
    using,      \* the key an import or a verification goes by
    config,     \* config.json
    cached,     \* cachedConfig, its copy in memory
    db, sidecar, uploads,   \* the live app.db, its -wal, the uploads directory
    copy,       \* what each export took
    cut,        \* auxiliary: a restore was cut short
    unkeyed,    \* auxiliary: one was when the database or config.json was lost
    rekeyed     \* auxiliary: an import changed the configured key

live == <<db, sidecar, uploads>>
configs == <<config, cached>>
aux  == <<cut, unkeyed, rekeyed>>
restoreVars == <<pc, busy, backup, byPath, upload, using, config, cached, db, sidecar, uploads,
          copy, cut, unkeyed, rekeyed>>

Copy == [db : Origins, sidecar : Origins, uploads : Origins, key : BackupKeys \cup {NoKey}]
NoCopy == [db |-> Gone, sidecar |-> Gone, uploads |-> Gone, key |-> NoKey]

RestoreInit ==
    /\ pc = [r \in Posted |-> "idle"]
    /\ busy = NoOne
    /\ backup = [r \in Posted |-> Original]
    /\ byPath = [r \in Posted |-> TRUE]
    /\ upload = {}
    /\ using = [r \in Posted |-> NoKey]
    /\ \E k \in {"own", NoKey} : config = [key |-> k, setup |-> FALSE]
    /\ cached = config
    /\ db = Original /\ uploads = Original
    /\ sidecar \in {Original, Gone}
    /\ copy = [r \in Posted |-> NoCopy]
    /\ cut = FALSE /\ unkeyed = FALSE /\ rekeyed = FALSE

----------------------------------------------------------------------------
FileOf(r) == Contents[backup[r]]
At(r, where) == pc[r] = where /\ busy \in {NoOne, r}
GoTo(r, where) == pc' = [pc EXCEPT ![r] = where]

\* The handler returns; finally removes the uploaded file.
Ends(r, how) == GoTo(r, how) /\ upload' = upload \ {r}

\* A request names a file on the server or uploads one, and may give a key.
Posts(r) ==
    /\ \E b \in Backups : backup' = [backup EXCEPT ![r] = b]
    /\ \E k \in GivenKeys \cup {NoKey} : using' = [using EXCEPT ![r] = k]
    /\ \E path \in BOOLEAN : byPath' = [byPath EXCEPT ![r] = path]

FileThere(r) == byPath[r] \/ r \in upload

\* validateLoadedConfig: a configuration whose database is missing gives way to
\* one of the setup mode, which stays.
ValidConfig(c) == IF c.setup \/ db # Gone THEN c ELSE SetupMode

\* getConfigSync, loadConfig: what is cached, or else on disk; cached from then on.
Loaded == IF cached # NoConfig THEN ValidConfig(cached)
          ELSE IF config # NoConfig THEN ValidConfig(config) ELSE SetupMode

\* Any other request, or the start of the process, reads the configuration.
ReadConfig ==
    /\ busy = NoOne
    /\ cached' = Loaded
    /\ UNCHANGED <<pc, busy, backup, byPath, upload, using, config, live, copy, aux>>

\* resolveConfiguredBackupEncryptionKey: generated when missing, and saved with
\* the configuration it is missing from.
ConfiguredKey(r) == IF Loaded.key = NoKey THEN r ELSE Loaded.key
\* Fault: the generated key is kept in memory only.
KeyNotSaved(r) ==
    /\ cached' = [Loaded EXCEPT !.key = ConfiguredKey(r)]
    /\ UNCHANGED config

EnsureKey(r) ==
    /\ cached' = [Loaded EXCEPT !.key = ConfiguredKey(r)]
    /\ config' = IF Loaded.key = NoKey THEN cached' ELSE config

\* The request is about to generate a key and save it.
SavesKey(r) ==
    /\ pc[r] \in {"importKey", "verifyKey", "exportKey"} /\ using[r] = NoKey
    /\ Loaded.key = NoKey

\* saveConfig writes config.json in place: it throws before or amid the writing.
KeySaveFails(r) ==
    /\ busy = NoOne
    /\ SavesKey(r)
    /\ config' \in {config, NoConfig} /\ cached' = Loaded
    /\ Ends(r, "failed")
    /\ UNCHANGED <<busy, backup, byPath, using, live, copy, aux>>

Opens(r) == FileOf(r).sound /\ using[r] = FileOf(r).key

----------------------------------------------------------------------------
(* importFromArchiveFile().                                                *)

ImportBegin(r) ==
    /\ At(r, "idle")
    /\ Posts(r)
    /\ upload' = IF byPath'[r] THEN upload ELSE upload \cup {r}
    /\ cached' = Loaded
    /\ GoTo(r, "import")
    /\ UNCHANGED <<busy, config, live, copy, aux>>

\* resolveRuntimePaths has returned; the first bytes tell .otbackup from tar.gz.
ImportResolved(r) ==
    /\ At(r, "import")
    /\ GoTo(r, IF FileOf(r).key = Plain THEN "unpack" ELSE "importKey")
    /\ UNCHANGED <<busy, backup, byPath, upload, using, configs, live, copy, aux>>

ImportKey(r) ==
    /\ At(r, "importKey")
    /\ \/ using[r] # NoKey /\ UNCHANGED <<using, configs>>
       \/ /\ using[r] = NoKey
          /\ using' = [using EXCEPT ![r] = ConfiguredKey(r)]
          /\ EnsureKey(r)
    /\ GoTo(r, "importDecrypt")
    /\ UNCHANGED <<busy, backup, byPath, upload, live, copy, aux>>

ImportDecrypt(r) ==
    /\ At(r, "importDecrypt")
    /\ \/ Opens(r) /\ GoTo(r, "unpack") /\ UNCHANGED upload
       \/ ~Opens(r) /\ Ends(r, "refused")
    /\ UNCHANGED <<busy, backup, byPath, using, configs, live, copy, aux>>

\* tar, the entry and link checks, app.db; then $disconnect is awaited.
ImportUnpack(r) ==
    /\ At(r, "unpack")
    /\ \/ FileOf(r).sound /\ GoTo(r, "disconnect") /\ UNCHANGED upload
       \/ ~FileOf(r).sound /\ Ends(r, "refused")
    /\ UNCHANGED <<busy, backup, byPath, using, configs, live, copy, aux>>

Disconnected(r) ==
    /\ At(r, "disconnect")
    /\ busy' = r
    /\ GoTo(r, "removeDb")
    /\ UNCHANGED <<backup, byPath, upload, using, configs, live, copy, aux>>

\* Fault: the sidecars of the old database are left in place.
RemoveDbOnly(r) ==
    /\ At(r, "removeDb")
    /\ db' = Gone
    /\ GoTo(r, "copyDb")
    /\ UNCHANGED <<busy, backup, byPath, upload, using, configs, sidecar, uploads, copy, aux>>

\* app.db first, then its sidecars, before anything is copied.
RemoveDb(r) ==
    /\ At(r, "removeDb")
    /\ \/ db # Gone /\ db' = Gone /\ UNCHANGED <<pc, sidecar>>
       \/ db = Gone /\ sidecar' = Gone /\ GoTo(r, "copyDb") /\ UNCHANGED db
    /\ UNCHANGED <<busy, backup, byPath, upload, using, configs, uploads, copy, aux>>

CopyDb(r) ==
    /\ At(r, "copyDb")
    /\ db' = backup[r]
    /\ GoTo(r, "copySidecar")
    /\ UNCHANGED <<busy, backup, byPath, upload, using, configs, sidecar, uploads, copy, aux>>

CopySidecar(r) ==
    /\ At(r, "copySidecar")
    /\ sidecar' = IF FileOf(r).sidecar THEN backup[r] ELSE sidecar
    /\ GoTo(r, IF FileOf(r).uploads THEN "dropUploads" ELSE "writeConfig")
    /\ UNCHANGED <<busy, backup, byPath, upload, using, configs, db, uploads, copy, aux>>

DropUploads(r) ==
    /\ At(r, "dropUploads")
    /\ uploads' = Gone
    /\ GoTo(r, "copyUploads")
    /\ UNCHANGED <<busy, backup, byPath, upload, using, configs, db, sidecar, copy, aux>>

CopyUploads(r) ==
    /\ At(r, "copyUploads")
    /\ uploads' = backup[r]
    /\ GoTo(r, "writeConfig")
    /\ UNCHANGED <<busy, backup, byPath, upload, using, configs, db, sidecar, copy, aux>>

\* persistImportedConfigSafely: {...existing, ...imported}, where existing is
\* config.json or, when it cannot be read, what is cached.
Existing == IF config # NoConfig THEN config ELSE Loaded
Merged(r) ==
    [key |-> IF FileOf(r).carries = NoKey THEN Existing.key ELSE FileOf(r).carries,
     setup |-> FALSE]

\* The configuration of the backup, if it has one, is put in; the cache is dropped.
WriteConfig(r) ==
    /\ At(r, "writeConfig")
    /\ config' = IF FileOf(r).carries = Gone THEN config ELSE Merged(r)
    /\ cached' = NoConfig
    /\ rekeyed' = (rekeyed \/ FileOf(r).carries \in BackupKeys \ {config.key})
    /\ busy' = NoOne
    /\ Ends(r, "restored")
    /\ UNCHANGED <<backup, byPath, using, live, copy, cut, unkeyed>>

\* What an operation that stops before its end may leave.
HalfDone(r) ==
    /\ db' \in {db} \cup (IF pc[r] = "copyDb" THEN {Torn} ELSE {})
    /\ sidecar' \in {sidecar} \cup
         (IF pc[r] = "copySidecar" /\ FileOf(r).sidecar THEN {Torn} ELSE {})
    /\ uploads' \in {uploads} \cup
         (IF pc[r] \in {"dropUploads", "copyUploads"} THEN {Torn} ELSE {})
    /\ config' \in {config} \cup
         (IF pc[r] = "writeConfig" /\ FileOf(r).carries # Gone THEN {NoConfig} ELSE {})
    /\ cut' = TRUE
    /\ unkeyed' = (unkeyed \/ db' = Gone \/ config' # config)

\* A file operation throws: there is no way back, the stage is removed.
RestoreFails(r) ==
    /\ pc[r] \in Restoring
    /\ HalfDone(r)
    /\ busy' = NoOne
    /\ Ends(r, "broken off")
    /\ UNCHANGED <<backup, byPath, using, cached, copy, rekeyed>>

----------------------------------------------------------------------------
(* verifyBackupByPath() and verifyUploaded().                              *)

\* Up to its first await a verification runs in one go: a tar.gz to the end,
\* an .otbackup to the wait for its key.  The promise is returned without an
\* await, so finally removes the upload there and then.
VerifyBegin(r) ==
    /\ At(r, "idle")
    /\ Posts(r)
    /\ GoTo(r, IF Contents[backup'[r]].key # Plain THEN "verifyKey"
               ELSE IF Contents[backup'[r]].sound THEN "verified" ELSE "unverified")
    /\ UNCHANGED <<busy, upload, configs, live, copy, aux>>

VerifyKey(r) ==
    /\ At(r, "verifyKey")
    /\ \/ using[r] # NoKey /\ UNCHANGED <<using, configs>>
       \/ /\ using[r] = NoKey
          /\ using' = [using EXCEPT ![r] = ConfiguredKey(r)]
          /\ EnsureKey(r)
    /\ GoTo(r, "verifyDecrypt")
    /\ UNCHANGED <<busy, backup, byPath, upload, live, copy, aux>>

VerifyDecrypt(r) ==
    /\ At(r, "verifyDecrypt")
    /\ Ends(r, IF FileThere(r) /\ Opens(r) THEN "verified" ELSE "unverified")
    /\ UNCHANGED <<busy, backup, byPath, using, configs, live, copy, aux>>

----------------------------------------------------------------------------
(* exportBackup().                                                         *)

ExportBegin(r) ==
    /\ At(r, "idle")
    /\ cached' = Loaded
    /\ GoTo(r, "export")
    /\ UNCHANGED <<busy, backup, byPath, upload, using, config, live, copy, aux>>

\* The checkpoint has returned: database, sidecars and uploads are copied and
\* packed in one go.
ExportCopy(r) ==
    /\ At(r, "export")
    /\ \/ /\ db # Gone
          /\ copy' = [copy EXCEPT ![r] = [db |-> db, sidecar |-> sidecar,
                                          uploads |-> uploads, key |-> NoKey]]
          /\ GoTo(r, "exportKey")
       \/ db = Gone /\ GoTo(r, "no database") /\ UNCHANGED copy
    /\ UNCHANGED <<busy, backup, byPath, upload, using, configs, live, aux>>

\* Fault: the archive is left as it is, without encryption.
ExportInPlain(r) ==
    /\ At(r, "exportKey")
    /\ EnsureKey(r)
    /\ copy' = [copy EXCEPT ![r].key = Plain]
    /\ GoTo(r, "exported")
    /\ UNCHANGED <<busy, backup, byPath, upload, using, live, aux>>

ExportEncrypt(r) ==
    /\ At(r, "exportKey")
    /\ EnsureKey(r)
    /\ copy' = [copy EXCEPT ![r].key = ConfiguredKey(r)]
    /\ GoTo(r, "exported")
    /\ UNCHANGED <<busy, backup, byPath, upload, using, live, aux>>

----------------------------------------------------------------------------
\* The process dies and is started again; the uploaded files of requests in
\* flight stay behind.  It may die in a restore, or amid saving a key.
Crash ==
    /\ \E r \in Posted : pc[r] \notin Ended
    /\ pc' = [r \in Posted |-> IF pc[r] \in Underway THEN "lost" ELSE pc[r]]
    /\ busy' = NoOne
    /\ cached' = NoConfig
    /\ \/ busy = NoOne /\ UNCHANGED <<live, config, cut, unkeyed>>
       \/ /\ busy = NoOne /\ \E r \in Posted : SavesKey(r)
          /\ config' = NoConfig /\ UNCHANGED <<live, cut, unkeyed>>
       \/ busy # NoOne /\ HalfDone(busy)
    /\ UNCHANGED <<backup, byPath, upload, using, copy, rekeyed>>

\* A query on a missing app.db: the engine creates an empty one, and SQLite
\* discards a sidecar that has no database.
Reopen ==
    /\ db = Gone /\ busy = NoOne
    /\ db' = EmptyDb /\ sidecar' = Gone
    /\ UNCHANGED <<pc, busy, backup, byPath, upload, using, configs, uploads, copy, aux>>

AllServed ==
    /\ \A r \in Posted : pc[r] \in Ended
    /\ UNCHANGED restoreVars

RestoreNext ==
    \/ \E r \in Posted :
         \/ ImportBegin(r) \/ ImportResolved(r) \/ ImportKey(r)
         \/ KeySaveFails(r) \/ ImportDecrypt(r) \/ ImportUnpack(r) \/ Disconnected(r)
         \/ RemoveDb(r) \/ CopyDb(r) \/ CopySidecar(r) \/ DropUploads(r)
         \/ CopyUploads(r) \/ WriteConfig(r) \/ RestoreFails(r)
         \/ VerifyBegin(r) \/ VerifyKey(r) \/ VerifyDecrypt(r)
         \/ ExportBegin(r) \/ ExportCopy(r) \/ ExportEncrypt(r)
    \/ ReadConfig \/ Crash \/ Reopen \/ AllServed

RestoreSpec == RestoreInit /\ [][RestoreNext]_restoreVars

----------------------------------------------------------------------------
RestoreTypeOK ==
    /\ pc \in [Posted -> {"idle"} \cup Underway \cup Ended]
    /\ busy \in Posted \cup {NoOne}
    /\ backup \in [Posted -> Backups \cup {Original}]
    /\ byPath \in [Posted -> BOOLEAN]
    /\ upload \subseteq Posted
    /\ using \in [Posted -> BackupKeys \cup {NoKey}]
    /\ config \in Config \cup {NoConfig} /\ cached \in Config \cup {NoConfig}
    /\ db \in Origins /\ sidecar \in Origins /\ uploads \in Origins
    /\ copy \in [Posted -> Copy]
    /\ cut \in BOOLEAN /\ unkeyed \in BOOLEAN /\ rekeyed \in BOOLEAN

\* The request goes by a key that opens its file, and the file is in order.
Openable(r) == FileOf(r).sound /\ FileOf(r).key \in {Plain, using[r]}

\* A database never stands beside the sidecar of another one, not even after
\* a restore was cut short: SQLite would replay it into the wrong file.
NoForeignSidecar ==
    db # Gone /\ sidecar # Gone => sidecar \in {db, Torn}

\* Only a file that some import opened with its key, and found in order, ever
\* reaches the live data: a damaged or wrongly keyed one changes nothing.
RestoredWasOpened ==
    \A b \in {db, sidecar, uploads} \cap Backups :
        \E r \in Posted : backup[r] = b /\ Openable(r)

\* Database and uploads belong together; a backup without uploads leaves
\* those that are there.
Together(d, s, u) ==
    /\ d \notin {Gone, Torn, EmptyDb} /\ u \notin {Gone, Torn}
    /\ s \in {d, Gone}
    /\ u = d \/ (d \in Backups /\ ~Contents[d].uploads)

\* Unless a restore was cut short the live data belong together whenever no
\* restore is going on, and so does what an export took, however exports and
\* imports interleave.
DataTogether ==
    ~cut => /\ busy = NoOne => Together(db, sidecar, uploads)
            /\ \A r \in Posted : copy[r] # NoCopy =>
                 Together(copy[r].db, copy[r].sidecar, copy[r].uploads)

\* What a restore, however it ends, may not do to the live data.
RestoreSafe == NoForeignSidecar /\ RestoredWasOpened /\ DataTogether

\* What an export was encrypted with is the key in config.json ever after, and
\* the one the process goes by, over restarts, failed savings and restores that
\* were cut short.  Only an import that brings another key ends this, and a
\* restore cut short when there was no database or with config.json half
\* written: then the next that needs a key makes one and saves it over the old.
ExportsKeepTheirKey ==
    ~rekeyed /\ ~unkeyed =>
        \A r \in Posted : pc[r] = "exported" =>
            /\ copy[r].key = config.key
            /\ busy = NoOne => copy[r].key = Loaded.key

\* Imports, and verifications by path, answer what is true of the file; no
\* file that cannot be opened is called good.
AnswersTruthful ==
    \A r \in Posted :
        /\ pc[r] = "verified" \/ pc[r] = "restored" => Openable(r)
        /\ pc[r] = "refused" \/ (pc[r] = "unverified" /\ byPath[r]) => ~Openable(r)

\* Whatever way a request ends, short of a crash, its upload is removed.
UploadsRemoved == \A r \in upload : pc[r] \in Underway \cup {"lost"}

\* What the clients of the backup calls are told is true, the archives they
\* were given open, and nothing of what they sent is left over.
BackupsAnswered == ExportsKeepTheirKey /\ AnswersTruthful /\ UploadsRemoved

\* "Sprawdz integralnosc uploadowanego backupu (.otbackup / .tar.gz) bez
\* importu": an uploaded file that is in order is verified.
UploadVerified == \A r \in Posted : pc[r] = "unverified" => ~Openable(r)
=============================================================================
