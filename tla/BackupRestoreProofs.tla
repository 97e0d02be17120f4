------------------------ MODULE BackupRestoreProofs ------------------------
(***************************************************************************)
(* What a restore, however it ends, may not do to the live data, and what  *)
(* the callers of imports, verifications and exports are told, for every   *)
(* set of requests and of backup files.  Needed beside the properties: what*)
(* each handler knows of its file where it stands, that the one synchronous*)
(* restore is alone, what it has left of the old data at each of its       *)
(* operations, and that the process goes by the key that is on disk.       *)
(***************************************************************************)
EXTENDS BackupRestore, TLAPS

USE RestoreAssumption DEF NoOne, Original, Gone, Torn, EmptyDb, Plain, NoKey

HandlerStates == {"idle"} \cup Underway \cup Ended

\* The handlers that are about a file.
Handled == {"import", "importKey", "importDecrypt", "unpack", "disconnect",
            "verifyKey", "verifyDecrypt"} \cup Restoring

\* What a handler knows of its file where it stands, and what it has answered.
Knows(r) ==
    /\ pc[r] = "idle" => backup[r] = Original
    /\ pc[r] \in Handled => backup[r] \in Backups
    /\ pc[r] \in {"importKey", "importDecrypt", "verifyKey", "verifyDecrypt"} =>
         FileOf(r).key # Plain
    /\ pc[r] = "unpack" => FileOf(r).key \in {Plain, using[r]}
    /\ pc[r] \in {"disconnect", "restored", "verified"} \cup Restoring => Openable(r)
    /\ pc[r] = "refused" \/ (pc[r] = "unverified" /\ byPath[r]) => ~Openable(r)
    /\ r \in upload => pc[r] \in Handled \cup {"lost"}

AllKnow == \A r \in Posted : Knows(r)

\* The restore that goes on is the one in the way of all others.
Alone ==
    /\ busy = NoOne \/ (busy \in Posted /\ pc[busy] \in Restoring)
    /\ \A r \in Posted : pc[r] \in Restoring => busy = r

\* What a restore has left of the old data, and put in its place.
Stage(r) ==
    /\ pc[r] = "copyDb" => db = Gone /\ sidecar = Gone
    /\ pc[r] = "copySidecar" => db = backup[r] /\ sidecar = Gone
    /\ pc[r] \in {"dropUploads", "copyUploads", "writeConfig"} =>
         db = backup[r] /\ sidecar \in {Gone, backup[r]}
    /\ pc[r] \in {"removeDb", "copyDb", "copySidecar"} /\ ~cut => uploads \notin {Gone, Torn}
    /\ pc[r] = "writeConfig" /\ ~cut =>
         \/ uploads = backup[r]
         \/ ~FileOf(r).uploads /\ uploads \notin {Gone, Torn}

Staged == \A r \in Posted : Stage(r)

\* An export that has its copy has a database in it, and in the end a key.
Keyed ==
    \A r \in Posted : /\ pc[r] = "exportKey" => copy[r].db # Gone
                      /\ pc[r] = "exported" => copy[r].key # NoKey

KeyOnDisk == IF config = NoConfig THEN NoKey ELSE config.key

\* As long as no restore that was cut short lost the key: the database is
\* missing within a restore only, and what is cached has the key on disk.
Agreed ==
    ~unkeyed => /\ db = Gone => busy # NoOne
                /\ cached = NoConfig \/ cached.key = KeyOnDisk

\* And as long as no import brought another: the exports have it too.
ExportsOpen ==
    ~unkeyed /\ ~rekeyed =>
        \A r \in Posted : pc[r] = "exported" => copy[r].key = KeyOnDisk

RestoreInv ==
    /\ RestoreTypeOK /\ AllKnow /\ Alone /\ Staged /\ Keyed
    /\ RestoreSafe /\ Agreed /\ ExportsOpen

----------------------------------------------------------------------------
LEMMA RestoreInvInit == RestoreInit => RestoreInv
<1> SUFFICES ASSUME RestoreInit PROVE RestoreInv
  OBVIOUS
<1>1. \A r \in Posted : pc[r] = "idle" /\ backup[r] = Original /\ copy[r] = NoCopy
  BY DEF RestoreInit
<1>2. RestoreTypeOK
  <2>1. NoCopy \in Copy
    BY DEF NoCopy, Copy, Origins, BackupKeys
  <2>2. copy \in [Posted -> Copy]
    BY <2>1 DEF RestoreInit
  <2>3. config \in Config /\ cached \in Config
    <3>1. PICK k \in {"own", NoKey} : config = [key |-> k, setup |-> FALSE]
      BY DEF RestoreInit
    <3>2. k \in BackupKeys \cup {NoKey}
      BY DEF BackupKeys, GivenKeys
    <3>3. config \in Config
      BY <3>1, <3>2 DEF Config
    <3> QED BY <3>3 DEF RestoreInit
  <2> QED BY <2>2, <2>3 DEF RestoreInit, RestoreTypeOK, Origins, BackupKeys
<1>3. AllKnow /\ Alone /\ Staged /\ Keyed
  BY <1>1 DEF RestoreInit, AllKnow, Knows, Alone, Staged, Stage, Keyed, Handled, Restoring, Underway
<1>4. RestoreSafe
  BY <1>1 DEF RestoreInit, RestoreSafe, NoForeignSidecar, RestoredWasOpened, DataTogether, Together
<1>5. Agreed /\ ExportsOpen
  BY <1>1 DEF RestoreInit, Agreed, ExportsOpen, KeyOnDisk, NoConfig
<1> QED BY <1>2, <1>3, <1>4, <1>5 DEF RestoreInv

\* What the file of a request is.
LEMMA FileTyped ==
    ASSUME NEW r \in Posted, backup[r] \in Backups
    PROVE  FileOf(r) \in Backup
BY DEF FileOf

\* What the process goes by is a configuration; a request finds a key in it, or
\* makes one.
LEMMA LoadedTyped ==
    ASSUME RestoreTypeOK
    PROVE  Loaded \in Config
BY DEF RestoreTypeOK, Loaded, ValidConfig, SetupMode, Config

LEMMA KeyConfigured ==
    ASSUME RestoreTypeOK, NEW r \in Posted
    PROVE  ConfiguredKey(r) \in BackupKeys
BY LoadedTyped DEF ConfiguredKey, Config, BackupKeys

\* A request whose place, file and key stay knows what it knew.
LEMMA OthersKnow ==
    ASSUME NEW r, Knows(r), pc'[r] = pc[r], backup'[r] = backup[r], byPath'[r] = byPath[r],
           using'[r] = using[r], r \in upload' => r \in upload
    PROVE  Knows(r)'
BY DEF Knows, FileOf, Openable

----------------------------------------------------------------------------
(* What is known of the files *)

LEMMA FilesKnown ==
    ASSUME RestoreTypeOK, AllKnow, [RestoreNext]_restoreVars
    PROVE  AllKnow'
<1> DEFINE Others(r) ==
        \A s \in Posted \ {r} :
            /\ pc'[s] = pc[s] /\ backup'[s] = backup[s] /\ byPath'[s] = byPath[s]
            /\ using'[s] = using[s] /\ (s \in upload' => s \in upload)
<1>1. ASSUME NEW r \in Posted, Others(r), Knows(r)' PROVE AllKnow'
  BY <1>1, OthersKnow DEF AllKnow
<1>2. /\ pc \in [Posted -> HandlerStates] /\ backup \in [Posted -> Backups \cup {Original}]
      /\ byPath \in [Posted -> BOOLEAN] /\ using \in [Posted -> BackupKeys \cup {NoKey}]
      /\ upload \subseteq Posted
  BY DEF RestoreTypeOK, HandlerStates
<1>3. \A r \in Posted : backup[r] \in Backups =>
        /\ FileOf(r).key \in BackupKeys \cup {Plain} /\ FileOf(r).sound \in BOOLEAN
  BY FileTyped DEF Backup, BackupKeys
<1>4. ASSUME NEW r \in Posted PROVE Knows(r)
  BY DEF AllKnow
<1> HIDE DEF Others
<1>5. ASSUME NEW r \in Posted, ImportBegin(r) \/ VerifyBegin(r) PROVE AllKnow'
  <2>1. PICK b \in Backups : backup' = [backup EXCEPT ![r] = b]
    BY <1>5 DEF ImportBegin, VerifyBegin, Posts
  <2>2. PICK k \in GivenKeys \cup {NoKey} : using' = [using EXCEPT ![r] = k]
    BY <1>5 DEF ImportBegin, VerifyBegin, Posts
  <2>3. PICK path \in BOOLEAN : byPath' = [byPath EXCEPT ![r] = path]
    BY <1>5 DEF ImportBegin, VerifyBegin, Posts
  <2>4. PICK at \in HandlerStates : pc' = [pc EXCEPT ![r] = at]
    BY <1>5 DEF ImportBegin, VerifyBegin, GoTo, HandlerStates, Underway, Ended
  <2>5. pc[r] = "idle" /\ r \notin upload
    BY <1>4, <1>5 DEF ImportBegin, VerifyBegin, At, Knows, Underway, Restoring
  <2>6. \A s \in Posted \ {r} : s \in upload' => s \in upload
    BY <1>5 DEF ImportBegin, VerifyBegin
  <2>7. Others(r)
    BY <1>2, <2>1, <2>2, <2>3, <2>4, <2>6 DEF Others
  <2>8. backup'[r] = b /\ using'[r] = k /\ byPath'[r] = path
    BY <1>2, <2>1, <2>2, <2>3
  <2>9. CASE ImportBegin(r)
    <3>1. pc'[r] = "import"
      BY <1>2, <2>9 DEF ImportBegin, GoTo
    <3>2. Knows(r)'
      BY <2>8, <3>1 DEF Knows, Handled, Restoring, Underway
    <3> QED BY <1>1, <2>7, <3>2
  <2>10. CASE VerifyBegin(r)
    <3>1. /\ pc'[r] = IF Contents[b].key # Plain THEN "verifyKey"
                      ELSE IF Contents[b].sound THEN "verified" ELSE "unverified"
          /\ upload' = upload
      BY <1>2, <2>8, <2>10 DEF VerifyBegin, GoTo
    <3>2. FileOf(r)' = Contents[b] /\ r \notin upload'
      BY <2>5, <2>8, <3>1 DEF FileOf
    <3>3. Knows(r)'
      <4>1. CASE Contents[b].key # Plain
        BY <2>8, <3>1, <3>2, <4>1 DEF Knows, Handled, Restoring
      <4>2. CASE Contents[b].key = Plain /\ Contents[b].sound
        BY <2>8, <3>1, <3>2, <4>2 DEF Knows, Handled, Restoring, Openable
      <4>3. CASE Contents[b].key = Plain /\ ~Contents[b].sound
        BY <2>8, <3>1, <3>2, <4>3 DEF Knows, Handled, Restoring, Openable
      <4> QED BY <4>1, <4>2, <4>3
    <3> QED BY <1>1, <2>7, <3>3
  <2> QED BY <1>5, <2>9, <2>10
<1>6. ASSUME NEW r \in Posted, ImportKey(r) \/ VerifyKey(r) PROVE AllKnow'
  <2>1. PICK k \in BackupKeys \cup {NoKey} : using' = [using EXCEPT ![r] = k]
    <3>1. CASE UNCHANGED using
      <4>1. using[r] \in BackupKeys \cup {NoKey} /\ using' = [using EXCEPT ![r] = using[r]]
        BY <1>2, <3>1
      <4> QED BY <4>1
    <3>2. CASE using' = [using EXCEPT ![r] = ConfiguredKey(r)]
      BY <3>2, KeyConfigured
    <3> QED BY <1>6, <3>1, <3>2 DEF ImportKey, VerifyKey
  <2>2. UNCHANGED <<backup, byPath, upload>>
    BY <1>6 DEF ImportKey, VerifyKey
  <2>3. PICK at \in {"importDecrypt", "verifyDecrypt"} : pc' = [pc EXCEPT ![r] = at]
    BY <1>6 DEF ImportKey, VerifyKey, GoTo
  <2>4. Others(r)
    BY <1>2, <2>1, <2>2, <2>3 DEF Others
  <2>5. backup[r] \in Backups /\ FileOf(r).key # Plain
    BY <1>4, <1>6 DEF ImportKey, VerifyKey, At, Knows, Handled
  <2>6. pc'[r] = at
    BY <1>2, <2>3
  <2>7. Knows(r)'
    BY <2>2, <2>5, <2>6 DEF Knows, Handled, Restoring, Underway, FileOf
  <2> QED BY <1>1, <2>4, <2>7
<1> USE DEF Others
\* The steps that leave what the request is about.
<1>7. ASSUME NEW r \in Posted, NEW at \in HandlerStates, GoTo(r, at), UNCHANGED <<backup, byPath, using>>,
             upload' \subseteq upload, r \in upload' => at \in Handled \cup {"lost"}, at # "idle",
             at \in Handled => pc[r] \in Handled,
             at \in {"importKey", "importDecrypt", "verifyKey", "verifyDecrypt"} =>
                 FileOf(r).key # Plain,
             at = "unpack" => FileOf(r).key \in {Plain, using[r]},
             at \in {"disconnect", "restored", "verified"} \cup Restoring => Openable(r),
             at = "refused" \/ (at = "unverified" /\ byPath[r]) => ~Openable(r)
      PROVE  AllKnow'
  <2>1. pc'[r] = at /\ \A s \in Posted \ {r} : pc'[s] = pc[s]
    BY <1>2, <1>7 DEF GoTo
  <2>2. Others(r)
    BY <1>7, <2>1
  <2>3. Knows(r)'
    BY <1>4, <1>7, <2>1 DEF Knows, FileOf, Openable
  <2> QED BY <1>1, <2>2, <2>3
<1> HIDE DEF Others
<1>8. ASSUME NEW r \in Posted, ImportResolved(r) PROVE AllKnow'
  BY <1>4, <1>7, <1>8 DEF ImportResolved, At, Knows, Handled, Underway, HandlerStates, Restoring
<1>9. ASSUME NEW r \in Posted, ImportDecrypt(r) PROVE AllKnow'
  <2>1. pc[r] \in Handled /\ FileOf(r).key # Plain
    BY <1>4, <1>9 DEF ImportDecrypt, At, Knows, Handled
  <2>2. CASE Opens(r) /\ GoTo(r, "unpack") /\ UNCHANGED upload
    BY <1>7, <1>9, <2>1, <2>2 DEF ImportDecrypt, Opens, Handled, Underway, HandlerStates, Restoring
  <2>3. CASE ~Opens(r) /\ Ends(r, "refused")
    BY <1>7, <1>9, <2>1, <2>3
       DEF ImportDecrypt, Opens, Openable, Ends, Handled, Ended, Underway, HandlerStates, Restoring
  <2> QED BY <1>9, <2>2, <2>3 DEF ImportDecrypt
<1>10. ASSUME NEW r \in Posted, ImportUnpack(r) PROVE AllKnow'
  <2>1. pc[r] \in Handled /\ FileOf(r).key \in {Plain, using[r]}
    BY <1>4, <1>10 DEF ImportUnpack, At, Knows, Handled
  <2>2. CASE FileOf(r).sound /\ GoTo(r, "disconnect") /\ UNCHANGED upload
    BY <1>7, <1>10, <2>1, <2>2 DEF ImportUnpack, Openable, Handled, Underway, HandlerStates, Restoring
  <2>3. CASE ~FileOf(r).sound /\ Ends(r, "refused")
    BY <1>7, <1>10, <2>1, <2>3
       DEF ImportUnpack, Openable, Ends, Handled, Ended, Underway, HandlerStates, Restoring
  <2> QED BY <1>10, <2>2, <2>3 DEF ImportUnpack
<1>11. ASSUME NEW r \in Posted, VerifyDecrypt(r) PROVE AllKnow'
  <2>1. FileOf(r).key # Plain
    BY <1>4, <1>11 DEF VerifyDecrypt, At, Knows
  <2>2. CASE FileThere(r) /\ Opens(r)
    BY <1>7, <1>11, <2>1, <2>2
       DEF VerifyDecrypt, Opens, Openable, Ends, Handled, Ended, Underway, HandlerStates, Restoring
  <2>3. CASE ~(FileThere(r) /\ Opens(r))
    BY <1>7, <1>11, <2>1, <2>3
       DEF VerifyDecrypt, FileThere, Opens, Openable, Ends, Handled, Ended, Underway, HandlerStates, Restoring
  <2> QED BY <2>2, <2>3
<1>16. ASSUME NEW r \in Posted, KeySaveFails(r) PROVE AllKnow'
  BY <1>7, <1>16 DEF KeySaveFails, Ends, Handled, Ended, Underway, HandlerStates, Restoring
<1>12. ASSUME NEW r \in Posted, ExportBegin(r) \/ ExportCopy(r) \/ ExportEncrypt(r) PROVE AllKnow'
  <2>1. r \notin upload
    BY <1>4, <1>12 DEF ExportBegin, ExportCopy, ExportEncrypt, At, Knows, Handled, Restoring
  <2>2. ASSUME NEW at \in {"export", "exportKey", "exported", "no database"}, GoTo(r, at),
               UNCHANGED <<backup, byPath, using, upload>>
        PROVE  AllKnow'
    BY <1>7, <2>1, <2>2 DEF Handled, Restoring, Ended, Underway, HandlerStates
  <2> QED BY <1>12, <2>2 DEF ExportBegin, ExportCopy, ExportEncrypt
<1>13. ASSUME NEW r \in Posted,
              \/ Disconnected(r) \/ RemoveDb(r) \/ CopyDb(r) \/ CopySidecar(r)
              \/ DropUploads(r) \/ CopyUploads(r) \/ WriteConfig(r) \/ RestoreFails(r)
       PROVE  AllKnow'
  <2>1. pc[r] \in Handled /\ Openable(r)
    BY <1>4, <1>13 DEF Disconnected, RemoveDb, CopyDb, CopySidecar, DropUploads, CopyUploads,
                       WriteConfig, RestoreFails, At, Knows, Handled, Restoring
  <2>2. UNCHANGED <<backup, byPath, using>> /\ upload' \subseteq upload
    BY <1>13 DEF Disconnected, RemoveDb, CopyDb, CopySidecar, DropUploads, CopyUploads,
                 WriteConfig, RestoreFails, Ends
  <2>3. ASSUME NEW at \in Restoring, GoTo(r, at), UNCHANGED upload PROVE AllKnow'
    BY <1>7, <2>1, <2>2, <2>3 DEF Handled, Restoring, Underway, HandlerStates
  <2>4. ASSUME NEW at \in {"restored", "broken off"}, Ends(r, at) PROVE AllKnow'
    BY <1>7, <2>1, <2>2, <2>4 DEF Ends, Handled, Restoring, Ended, Underway, HandlerStates
  <2>5. CASE RemoveDb(r) /\ UNCHANGED pc
    BY <1>4, <2>2, <2>5, OthersKnow DEF RemoveDb, AllKnow
  <2> QED
    BY <1>13, <2>3, <2>4, <2>5 DEF Disconnected, RemoveDb, CopyDb, CopySidecar, DropUploads,
                                   CopyUploads, WriteConfig, RestoreFails, Restoring
<1>14. CASE Crash
  <2>1. ASSUME NEW s \in Posted PROVE Knows(s)'
    <3>1. pc'[s] = IF pc[s] \in Underway THEN "lost" ELSE pc[s]
      BY <1>14 DEF Crash
    <3>2. UNCHANGED <<backup, byPath, using, upload>>
      BY <1>14 DEF Crash
    <3>3. CASE pc[s] \in Underway
      BY <3>1, <3>2, <3>3 DEF Knows, Handled, Restoring
    <3>4. CASE pc[s] \notin Underway
      BY <1>4, <3>1, <3>2, <3>4, OthersKnow
    <3> QED BY <3>3, <3>4
  <2> QED BY <2>1 DEF AllKnow
<1>15. CASE ReadConfig \/ Reopen \/ UNCHANGED restoreVars
  BY <1>15, OthersKnow DEF ReadConfig, Reopen, AllServed, restoreVars, AllKnow
<1> QED
  BY <1>5, <1>6, <1>8, <1>9, <1>10, <1>11, <1>12, <1>13, <1>14, <1>15, <1>16
     DEF RestoreNext, AllServed

----------------------------------------------------------------------------
(* The restore that goes on *)

\* The steps of a handler that is not in its synchronous restore, nor enters it.
Outside(r) ==
    /\ busy \in {NoOne, r} /\ pc[r] \notin Restoring
    /\ \E at \in HandlerStates \ Restoring : GoTo(r, at)
    /\ UNCHANGED <<busy, live, cut, unkeyed>>

LEMMA OutsideSteps ==
    ASSUME NEW r \in Posted,
           \/ ImportBegin(r) \/ ImportResolved(r) \/ ImportKey(r) \/ ImportDecrypt(r)
           \/ ImportUnpack(r) \/ VerifyBegin(r) \/ VerifyKey(r) \/ VerifyDecrypt(r)
           \/ ExportBegin(r) \/ ExportCopy(r) \/ ExportEncrypt(r) \/ KeySaveFails(r)
    PROVE  Outside(r)
<1> DEFINE Waits == {"idle", "import", "importKey", "importDecrypt", "unpack", "verifyKey",
                     "verifyDecrypt", "export", "exportKey"}
           Next == (Waits \ {"idle"}) \cup {"disconnect"} \cup Ended
<1>1. ASSUME At(r, pc[r]), pc[r] \in Waits, NEW at \in Next, GoTo(r, at),
             UNCHANGED <<busy, live, cut, unkeyed>>
      PROVE  Outside(r)
  BY <1>1 DEF Outside, At, HandlerStates, Restoring, Underway, Ended
<1>2. CASE ImportBegin(r)
  BY <1>1, <1>2 DEF ImportBegin, At, aux
<1>3. CASE ImportResolved(r)
  BY <1>1, <1>3 DEF ImportResolved, At, aux
<1>4. CASE ImportKey(r)
  BY <1>1, <1>4 DEF ImportKey, At, aux
<1>5. CASE ImportDecrypt(r)
  BY <1>1, <1>5 DEF ImportDecrypt, At, aux, Ends, Ended
<1>6. CASE ImportUnpack(r)
  BY <1>1, <1>6 DEF ImportUnpack, At, aux, Ends, Ended
<1>7. CASE VerifyBegin(r)
  BY <1>1, <1>7 DEF VerifyBegin, At, aux, Ended
<1>8. CASE VerifyKey(r)
  BY <1>1, <1>8 DEF VerifyKey, At, aux
<1>9. CASE VerifyDecrypt(r)
  BY <1>1, <1>9 DEF VerifyDecrypt, At, aux, Ends, Ended
<1>10. CASE ExportBegin(r)
  BY <1>1, <1>10 DEF ExportBegin, At, aux
<1>11. CASE ExportCopy(r)
  BY <1>1, <1>11 DEF ExportCopy, At, aux, Ended
<1>12. CASE ExportEncrypt(r)
  BY <1>1, <1>12 DEF ExportEncrypt, At, aux, Ended
<1>13. CASE KeySaveFails(r)
  BY <1>1, <1>13 DEF KeySaveFails, SavesKey, At, aux, Ends, Ended
<1> QED BY <1>2, <1>3, <1>4, <1>5, <1>6, <1>7, <1>8, <1>9, <1>10, <1>11, <1>12, <1>13

LEMMA AloneKept ==
    ASSUME RestoreTypeOK, Alone, [RestoreNext]_restoreVars
    PROVE  Alone'
<1>1. pc \in [Posted -> HandlerStates] /\ busy \in Posted \cup {NoOne}
  BY DEF RestoreTypeOK, HandlerStates
<1>2. ASSUME NEW r \in Posted, Outside(r) PROVE Alone'
  BY <1>1, <1>2 DEF Outside, GoTo, Alone
<1>3. ASSUME NEW r \in Posted, Disconnected(r) PROVE Alone'
  BY <1>1, <1>3 DEF Disconnected, At, GoTo, Alone, Restoring
\* The steps within the restore.
<1>4. ASSUME NEW r \in Posted, pc[r] \in Restoring, UNCHANGED busy,
             UNCHANGED pc \/ \E at \in Restoring : GoTo(r, at)
      PROVE  Alone'
  BY <1>1, <1>4 DEF GoTo, Alone
<1>5. ASSUME NEW r \in Posted, RemoveDb(r) \/ CopyDb(r) \/ CopySidecar(r)
                              \/ DropUploads(r) \/ CopyUploads(r)
      PROVE  Alone'
  BY <1>4, <1>5 DEF RemoveDb, CopyDb, CopySidecar, DropUploads, CopyUploads, At, Restoring
<1>6. ASSUME NEW r \in Posted, WriteConfig(r) \/ RestoreFails(r) PROVE Alone'
  <2>1. pc[r] \in Restoring /\ busy' = NoOne /\ \E at \in Ended : GoTo(r, at)
    BY <1>6 DEF WriteConfig, RestoreFails, At, Ends, Restoring, Ended
  <2> QED BY <1>1, <2>1 DEF GoTo, Alone, Restoring, Ended
<1>7. CASE Crash
  BY <1>1, <1>7 DEF Crash, Alone, Underway, Restoring
<1>8. CASE ReadConfig \/ Reopen \/ UNCHANGED restoreVars
  BY <1>8 DEF ReadConfig, Reopen, restoreVars, Alone
<1> QED BY <1>2, <1>3, <1>5, <1>6, <1>7, <1>8, OutsideSteps DEF RestoreNext, AllServed

----------------------------------------------------------------------------
(* Types *)

\* Some request moves on, and what is on disk, or its record, changes.
LEMMA LiveTyped ==
    ASSUME RestoreTypeOK, AllKnow, [RestoreNext]_restoreVars
    PROVE  /\ db' \in Origins /\ sidecar' \in Origins /\ uploads' \in Origins
           /\ cut' \in BOOLEAN /\ unkeyed' \in BOOLEAN
<1>1. /\ db \in Origins /\ sidecar \in Origins /\ uploads \in Origins /\ cut \in BOOLEAN
      /\ unkeyed \in BOOLEAN
  BY DEF RestoreTypeOK
<1>2. {Gone, Torn, EmptyDb} \subseteq Origins
  BY DEF Origins
<1>3. ASSUME NEW r \in Posted, pc[r] \in Restoring PROVE backup[r] \in Origins
  BY <1>3 DEF AllKnow, Knows, Handled, Origins
<1>4. ASSUME NEW r \in Posted, Outside(r)
      PROVE  /\ db' \in Origins /\ sidecar' \in Origins /\ uploads' \in Origins
             /\ cut' \in BOOLEAN /\ unkeyed' \in BOOLEAN
  BY <1>1, <1>4 DEF Outside, live
<1>5. ASSUME NEW r \in Posted, HalfDone(r)
      PROVE  /\ db' \in Origins /\ sidecar' \in Origins /\ uploads' \in Origins
             /\ cut' \in BOOLEAN /\ unkeyed' \in BOOLEAN
  BY <1>1, <1>2, <1>5 DEF HalfDone
<1>6. ASSUME NEW r \in Posted, RemoveDb(r) \/ CopyDb(r) \/ CopySidecar(r)
                              \/ DropUploads(r) \/ CopyUploads(r)
      PROVE  /\ db' \in Origins /\ sidecar' \in Origins /\ uploads' \in Origins
             /\ cut' \in BOOLEAN /\ unkeyed' \in BOOLEAN
  BY <1>1, <1>2, <1>3, <1>6
     DEF RemoveDb, CopyDb, CopySidecar, DropUploads, CopyUploads, At, Restoring, aux
<1>7. ASSUME NEW r \in Posted, Disconnected(r) \/ WriteConfig(r)
      PROVE  /\ db' \in Origins /\ sidecar' \in Origins /\ uploads' \in Origins
             /\ cut' \in BOOLEAN /\ unkeyed' \in BOOLEAN
  BY <1>1, <1>7 DEF Disconnected, WriteConfig, live, aux
<1>8. CASE Crash
  <2>1. busy \in Posted \cup {NoOne}
    BY DEF RestoreTypeOK
  <2> QED BY <1>1, <1>5, <1>8, <2>1 DEF Crash, live
<1>9. CASE ReadConfig \/ Reopen \/ UNCHANGED restoreVars
  BY <1>1, <1>2, <1>9 DEF ReadConfig, Reopen, restoreVars, live, aux
<1> QED
  BY <1>4, <1>5, <1>6, <1>7, <1>8, <1>9, OutsideSteps DEF RestoreNext, AllServed, RestoreFails

LEMMA RequestsTyped ==
    ASSUME RestoreTypeOK, AllKnow, [RestoreNext]_restoreVars
    PROVE  /\ pc' \in [Posted -> HandlerStates]
           /\ backup' \in [Posted -> Backups \cup {Original}]
           /\ byPath' \in [Posted -> BOOLEAN]
           /\ using' \in [Posted -> BackupKeys \cup {NoKey}]
           /\ upload' \subseteq Posted
<1>1. /\ pc \in [Posted -> HandlerStates] /\ backup \in [Posted -> Backups \cup {Original}]
      /\ byPath \in [Posted -> BOOLEAN] /\ using \in [Posted -> BackupKeys \cup {NoKey}]
      /\ upload \subseteq Posted
  BY DEF RestoreTypeOK, HandlerStates
<1>2. pc' \in [Posted -> HandlerStates]
  <2>1. ASSUME NEW r \in Posted, NEW at \in HandlerStates, GoTo(r, at) PROVE pc' \in [Posted -> HandlerStates]
    BY <1>1, <2>1 DEF GoTo
  <2>2. ASSUME NEW r \in Posted, Outside(r) PROVE pc' \in [Posted -> HandlerStates]
    BY <2>1, <2>2 DEF Outside
  <2>3. ASSUME NEW r \in Posted,
               \/ Disconnected(r) \/ RemoveDb(r) \/ CopyDb(r) \/ CopySidecar(r)
               \/ DropUploads(r) \/ CopyUploads(r) \/ WriteConfig(r) \/ RestoreFails(r)
        PROVE  pc' \in [Posted -> HandlerStates]
    BY <1>1, <2>1, <2>3
       DEF Disconnected, RemoveDb, CopyDb, CopySidecar, DropUploads, CopyUploads, WriteConfig,
           RestoreFails, Ends, HandlerStates, Restoring, Underway, Ended
  <2>4. CASE Crash
    BY <1>1, <2>4 DEF Crash, HandlerStates, Ended
  <2>5. CASE ReadConfig \/ Reopen \/ UNCHANGED restoreVars
    BY <1>1, <2>5 DEF ReadConfig, Reopen, restoreVars
  <2> QED BY <2>2, <2>3, <2>4, <2>5, OutsideSteps DEF RestoreNext, AllServed
<1>3. ASSUME NEW r \in Posted, ImportBegin(r) \/ VerifyBegin(r)
      PROVE  /\ backup' \in [Posted -> Backups \cup {Original}]
             /\ byPath' \in [Posted -> BOOLEAN]
             /\ using' \in [Posted -> BackupKeys \cup {NoKey}]
             /\ upload' \subseteq Posted
  <2>1. Posts(r) /\ upload' \subseteq upload \cup {r}
    BY <1>3 DEF ImportBegin, VerifyBegin
  <2>2. PICK path \in BOOLEAN : byPath' = [byPath EXCEPT ![r] = path]
    BY <2>1 DEF Posts
  <2>3. byPath' \in [Posted -> BOOLEAN]
    BY <1>1, <2>2
  <2>4. upload' \subseteq Posted
    BY <1>1, <2>1
  <2>5. PICK b \in Backups : backup' = [backup EXCEPT ![r] = b]
    BY <2>1 DEF Posts
  <2>6. PICK k \in BackupKeys \cup {NoKey} : using' = [using EXCEPT ![r] = k]
    BY <2>1 DEF Posts, BackupKeys
  <2>7. backup' \in [Posted -> Backups \cup {Original}]
    BY <1>1, <2>5
  <2>8. using' \in [Posted -> BackupKeys \cup {NoKey}]
    BY <1>1, <2>6
  <2> QED BY <2>3, <2>4, <2>7, <2>8
<1>4. ASSUME NEW r \in Posted, ImportKey(r) \/ VerifyKey(r)
      PROVE  /\ using' \in [Posted -> BackupKeys \cup {NoKey}]
             /\ UNCHANGED <<backup, byPath, upload>>
  <2>1. /\ \/ UNCHANGED using
           \/ using' = [using EXCEPT ![r] = ConfiguredKey(r)]
        /\ UNCHANGED <<backup, byPath, upload>>
    BY <1>4 DEF ImportKey, VerifyKey
  <2>2. ConfiguredKey(r) \in BackupKeys
    BY KeyConfigured
  <2>3. [using EXCEPT ![r] = ConfiguredKey(r)] \in [Posted -> BackupKeys \cup {NoKey}]
    BY <1>1, <2>2
  <2> QED BY <1>1, <2>1, <2>3
<1>5. ASSUME NEW r \in Posted,
             \/ ImportResolved(r) \/ ImportDecrypt(r) \/ ImportUnpack(r)
             \/ VerifyDecrypt(r) \/ ExportBegin(r) \/ ExportCopy(r) \/ ExportEncrypt(r)
             \/ Disconnected(r) \/ RemoveDb(r) \/ CopyDb(r) \/ CopySidecar(r)
             \/ DropUploads(r) \/ CopyUploads(r) \/ WriteConfig(r) \/ RestoreFails(r)
             \/ KeySaveFails(r)
      PROVE  UNCHANGED <<backup, byPath, using>> /\ upload' \subseteq upload
  BY <1>5 DEF ImportResolved, ImportDecrypt, ImportUnpack, VerifyDecrypt, ExportBegin, ExportCopy,
              ExportEncrypt, Disconnected, RemoveDb, CopyDb, CopySidecar, DropUploads,
              CopyUploads, WriteConfig, RestoreFails, KeySaveFails, Ends
<1>6. CASE ReadConfig \/ Crash \/ Reopen \/ UNCHANGED restoreVars
  BY <1>1, <1>2, <1>6 DEF ReadConfig, Crash, Reopen, restoreVars
<1> QED BY <1>1, <1>2, <1>3, <1>4, <1>5, <1>6 DEF RestoreNext, AllServed

\* The record of what an export took, its key put in at the end.
LEMMA CopyTyped ==
    ASSUME RestoreTypeOK, [RestoreNext]_restoreVars
    PROVE  copy' \in [Posted -> Copy]
<1>1. copy \in [Posted -> Copy]
  BY DEF RestoreTypeOK
<1>2. ASSUME NEW r \in Posted, NEW c \in Copy, copy' = [copy EXCEPT ![r] = c]
      PROVE  copy' \in [Posted -> Copy]
  BY <1>1, <1>2
<1>3. ASSUME NEW r \in Posted, ExportCopy(r) PROVE copy' \in [Posted -> Copy]
  <2>1. [db |-> db, sidecar |-> sidecar, uploads |-> uploads, key |-> NoKey] \in Copy
    BY DEF RestoreTypeOK, Copy
  <2> QED BY <1>1, <1>2, <1>3, <2>1 DEF ExportCopy
<1>4. ASSUME NEW r \in Posted, ExportEncrypt(r) PROVE copy' \in [Posted -> Copy]
  <2>1. copy' = [copy EXCEPT ![r] = [copy[r] EXCEPT !.key = ConfiguredKey(r)]]
    BY <1>1, <1>4 DEF ExportEncrypt
  <2>2. ASSUME NEW k \in BackupKeys PROVE [copy[r] EXCEPT !.key = k] \in Copy
    BY <1>1 DEF Copy
  <2> QED BY <1>2, <2>1, <2>2, KeyConfigured
<1>5. CASE UNCHANGED copy
  BY <1>1, <1>5
<1> QED
  BY <1>3, <1>4, <1>5
     DEF RestoreNext, ImportBegin, ImportResolved, ImportKey, ImportDecrypt, ImportUnpack,
         Disconnected, RemoveDb, CopyDb, CopySidecar, DropUploads, CopyUploads, WriteConfig,
         RestoreFails, VerifyBegin, VerifyKey, VerifyDecrypt, ExportBegin, KeySaveFails,
         ReadConfig, Crash, Reopen, AllServed, restoreVars

\* Only a configuration brought by an import makes a key another one.
LEMMA RekeyedStays ==
    ASSUME RestoreTypeOK, [RestoreNext]_restoreVars
    PROVE  /\ rekeyed' \in BOOLEAN /\ (rekeyed => rekeyed')
           /\ UNCHANGED rekeyed \/ \E r \in Posted : WriteConfig(r)
<1>1. rekeyed \in BOOLEAN
  BY DEF RestoreTypeOK
<1>2. UNCHANGED rekeyed \/ \E r \in Posted : WriteConfig(r)
  BY DEF RestoreNext, ImportBegin, ImportResolved, ImportKey, ImportDecrypt, ImportUnpack,
         Disconnected, RemoveDb, CopyDb, CopySidecar, DropUploads, CopyUploads,
         RestoreFails, VerifyBegin, VerifyKey, VerifyDecrypt, ExportBegin, ExportCopy,
         ExportEncrypt, KeySaveFails, ReadConfig, Crash, Reopen, AllServed, restoreVars, aux
<1> QED BY <1>1, <1>2 DEF WriteConfig

LEMMA TypeKept ==
    ASSUME RestoreTypeOK, AllKnow, Alone, [RestoreNext]_restoreVars
    PROVE  RestoreTypeOK'
<1>1. busy' \in Posted \cup {NoOne}
  BY AloneKept DEF Alone
<1>2. config' \in Config \cup {NoConfig} /\ cached' \in Config \cup {NoConfig}
  <2>1. config \in Config \cup {NoConfig} /\ cached \in Config \cup {NoConfig}
    BY DEF RestoreTypeOK
  <2>2. ASSUME NEW r \in Posted, EnsureKey(r)
        PROVE  config' \in Config \cup {NoConfig} /\ cached' \in Config
    <3>1. Loaded \in Config /\ ConfiguredKey(r) \in BackupKeys
      BY LoadedTyped, KeyConfigured
    <3>2. cached' \in Config
      BY <2>2, <3>1 DEF EnsureKey, Config
    <3>3. config' \in {cached', config}
      BY <2>2 DEF EnsureKey
    <3> QED BY <2>1, <3>2, <3>3
  <2>3. ASSUME NEW r \in Posted, WriteConfig(r)
        PROVE  config' \in Config \cup {NoConfig} /\ cached' = NoConfig
    <3>1. FileOf(r).carries \in GivenKeys \cup {NoKey, Gone}
      BY <2>3, FileTyped DEF WriteConfig, At, AllKnow, Knows, Handled, Restoring, Backup
    <3>2. Existing \in Config
      BY <2>1, LoadedTyped DEF Existing
    <3>3. FileOf(r).carries # Gone => Merged(r) \in Config
      BY <3>1, <3>2 DEF Merged, Config, BackupKeys
    <3> QED BY <2>1, <2>3, <3>3 DEF WriteConfig
  <2>4. ASSUME NEW r \in Posted, HalfDone(r) PROVE config' \in {config, NoConfig}
    BY <2>4 DEF HalfDone
  <2>5. CASE Crash
    BY <2>1, <2>4, <2>5 DEF Crash, RestoreTypeOK
  <2>6. ASSUME NEW r \in Posted, RestoreFails(r) PROVE config' \in {config, NoConfig} /\ cached' = cached
    BY <2>4, <2>6 DEF RestoreFails
  <2>7. CASE UNCHANGED config /\ cached' \in {cached, Loaded}
    BY <2>1, <2>7, LoadedTyped
  <2>8. ASSUME NEW r \in Posted, KeySaveFails(r) PROVE config' \in {config, NoConfig} /\ cached' = Loaded
    BY <2>8 DEF KeySaveFails
  <2>9. \/ \E r \in Posted : EnsureKey(r) \/ WriteConfig(r) \/ RestoreFails(r) \/ KeySaveFails(r)
        \/ Crash \/ (UNCHANGED config /\ cached' \in {cached, Loaded})
    BY DEF RestoreNext, ImportBegin, ImportResolved, ImportKey, ImportDecrypt, ImportUnpack,
           Disconnected, RemoveDb, CopyDb, CopySidecar, DropUploads, CopyUploads, VerifyBegin,
           VerifyKey, VerifyDecrypt, ExportBegin, ExportCopy, ExportEncrypt, ReadConfig, Reopen,
           AllServed, restoreVars, configs
  <2> QED BY <2>1, <2>2, <2>3, <2>5, <2>6, <2>7, <2>8, <2>9, LoadedTyped
<1>3. rekeyed' \in BOOLEAN
  BY RekeyedStays DEF RestoreTypeOK
<1> QED
  BY <1>1, <1>2, <1>3, LiveTyped, RequestsTyped, CopyTyped DEF RestoreTypeOK, HandlerStates

----------------------------------------------------------------------------
(* The data *)

\* A request that found its file in order, with a key that opens it, keeps both.
LEMMA OpenableStays ==
    ASSUME RestoreTypeOK, AllKnow, [RestoreNext]_restoreVars,
           NEW s \in Posted, backup[s] \in Backups, Openable(s)
    PROVE  backup'[s] = backup[s] /\ Openable(s)'
<1>1. /\ backup \in [Posted -> Backups \cup {Original}]
      /\ using \in [Posted -> BackupKeys \cup {NoKey}]
  BY DEF RestoreTypeOK
<1>2. FileOf(s).key \in GivenKeys \cup {Plain} /\ NoKey \notin GivenKeys
  BY FileTyped DEF Backup, GivenKeys
<1>3. ASSUME backup'[s] = backup[s], using'[s] = using[s]
      PROVE  backup'[s] = backup[s] /\ Openable(s)'
  BY <1>3 DEF Openable, FileOf
<1>4. ASSUME NEW r \in Posted, ImportBegin(r) \/ VerifyBegin(r)
      PROVE  backup'[s] = backup[s] /\ Openable(s)'
  <2>1. Posts(r) /\ backup[r] = Original
    BY <1>4 DEF ImportBegin, VerifyBegin, At, AllKnow, Knows
  <2>2. r # s
    BY <2>1
  <2> QED BY <1>1, <1>3, <2>1, <2>2 DEF Posts
<1>5. ASSUME NEW r \in Posted, ImportKey(r) \/ VerifyKey(r)
      PROVE  backup'[s] = backup[s] /\ Openable(s)'
  <2>1. UNCHANGED backup /\ FileOf(r).key # Plain
    BY <1>5 DEF ImportKey, VerifyKey, At, AllKnow, Knows
  <2>2. \/ UNCHANGED using
        \/ using[r] = NoKey /\ using' = [using EXCEPT ![r] = ConfiguredKey(r)]
    BY <1>5 DEF ImportKey, VerifyKey
  <2>3. r = s => using[r] # NoKey
    BY <1>2, <2>1 DEF Openable
  <2>4. using'[s] = using[s]
    BY <1>1, <2>2, <2>3
  <2> QED BY <1>3, <2>1, <2>4
<1>6. CASE UNCHANGED <<backup, using>>
  BY <1>3, <1>6
<1> QED
  BY <1>4, <1>5, <1>6
     DEF RestoreNext, ImportResolved, ImportDecrypt, ImportUnpack, Disconnected, RemoveDb, CopyDb,
         CopySidecar, DropUploads, CopyUploads, WriteConfig, RestoreFails, VerifyDecrypt,
         ExportBegin, ExportCopy, ExportEncrypt, KeySaveFails, ReadConfig, Crash, Reopen,
         AllServed, restoreVars, Ends

\* What a step of the synchronous restore of r, or its end, makes of the data.
RestoreStep(r) ==
    \/ RemoveDb(r) \/ CopyDb(r) \/ CopySidecar(r) \/ DropUploads(r) \/ CopyUploads(r)
    \/ WriteConfig(r)
Breaks(r) == pc[r] \in Restoring /\ busy' = NoOne /\ HalfDone(r)
Quiet == UNCHANGED <<pc, busy, backup, using, live, copy, cut, unkeyed>>

\* Every step is one of these for the live data.
LEMMA StepsOnData ==
    ASSUME RestoreTypeOK, Alone, [RestoreNext]_restoreVars
    PROVE  \/ \E r \in Posted : Outside(r) \/ Disconnected(r) \/ RestoreStep(r) \/ Breaks(r)
           \/ (Crash /\ UNCHANGED <<live, cut, unkeyed>> /\ busy = NoOne /\ busy' = NoOne)
           \/ Reopen
           \/ Quiet
<1>1. CASE Crash
  <2>1. CASE busy = NoOne
    BY <1>1, <2>1 DEF Crash
  <2>2. CASE busy # NoOne
    <3>1. busy \in Posted /\ Breaks(busy)
      BY <1>1, <2>2 DEF Crash, Alone, Breaks
    <3> QED BY <3>1
  <2> QED BY <2>1, <2>2
<1>2. ASSUME NEW r \in Posted, RestoreFails(r) PROVE Breaks(r)
  BY <1>2 DEF RestoreFails, Breaks
<1> QED BY <1>1, <1>2, OutsideSteps
        DEF RestoreNext, AllServed, RestoreStep, ReadConfig, aux, Quiet, restoreVars, live

\* Nothing comes into the live data but the backup whose restore is going on.
LEMMA OpenedKept ==
    ASSUME RestoreTypeOK, AllKnow, Alone, RestoredWasOpened, [RestoreNext]_restoreVars
    PROVE  RestoredWasOpened'
<1>1. Backups \cap {Original, Gone, Torn, EmptyDb} = {}
  BY RestoreAssumption
<1>2. ASSUME NEW d \in {db', sidecar', uploads'}, d \in Backups
      PROVE  \E r \in Posted : backup[r] = d /\ Openable(r)
  <2>1. CASE d \in {db, sidecar, uploads}
    BY <1>2, <2>1 DEF RestoredWasOpened
  <2>2. ASSUME NEW r \in Posted, RestoreStep(r) \/ Breaks(r)
        PROVE  \E s \in Posted : backup[s] = d /\ Openable(s)
    <3>1. pc[r] \in Restoring
      BY <2>2 DEF RestoreStep, Breaks, RemoveDb, CopyDb, CopySidecar, DropUploads, CopyUploads,
                  WriteConfig, At, Restoring
    <3>2. Openable(r)
      BY <3>1 DEF AllKnow, Knows
    <3>3. {db', sidecar', uploads'} \subseteq {db, sidecar, uploads, backup[r], Gone, Torn}
      BY <2>2 DEF RestoreStep, Breaks, HalfDone, RemoveDb, CopyDb, CopySidecar, DropUploads,
                  CopyUploads, WriteConfig, live
    <3>4. d = backup[r] \/ d \in {db, sidecar, uploads}
      BY <1>1, <1>2, <3>3
    <3> QED BY <2>1, <3>2, <3>4
  <2>3. CASE UNCHANGED live
    BY <2>1, <2>3 DEF live
  <2>4. CASE Reopen
    BY <1>1, <1>2, <2>1, <2>4 DEF Reopen
  <2> QED
    BY <2>2, <2>3, <2>4, StepsOnData DEF Outside, Disconnected, Quiet
<1>3. \A d \in {db', sidecar', uploads'} \cap Backups :
        \E r \in Posted : backup'[r] = d /\ Openable(r)'
  <2> SUFFICES ASSUME NEW d \in {db', sidecar', uploads'}, d \in Backups
               PROVE  \E r \in Posted : backup'[r] = d /\ Openable(r)'
    OBVIOUS
  <2>1. PICK r \in Posted : backup[r] = d /\ Openable(r)
    BY <1>2
  <2> QED BY <2>1, OpenableStays
<1> QED BY <1>3 DEF RestoredWasOpened

LEMMA StagedKept ==
    ASSUME RestoreTypeOK, AllKnow, Alone, Staged, DataTogether, [RestoreNext]_restoreVars
    PROVE  Staged'
<1>1. pc \in [Posted -> HandlerStates] /\ busy \in Posted \cup {NoOne} /\ cut \in BOOLEAN
  BY DEF RestoreTypeOK, HandlerStates
<1>2. Alone' /\ NoOne \notin Posted
  BY AloneKept, RestoreAssumption
\* It is enough to look at the one restore that goes on.
<1>3. ASSUME NEW r \in Posted, busy' \in {NoOne, r}, Stage(r)' PROVE Staged'
  <2>1. ASSUME NEW s \in Posted, s # r PROVE pc'[s] \notin Restoring
    BY <1>2, <1>3, <2>1 DEF Alone
  <2> QED BY <1>3, <2>1 DEF Staged, Stage, Restoring
<1>4. ASSUME busy' = NoOne PROVE Staged'
  BY <1>2, <1>4 DEF Alone, Staged, Stage, Restoring
<1>5. ASSUME NEW r \in Posted, Outside(r) PROVE Staged'
  <2>1. pc'[r] \notin Restoring
    BY <1>1, <1>5 DEF Outside, GoTo
  <2>2. busy' \in {NoOne, r}
    BY <1>5 DEF Outside
  <2> QED BY <1>3, <2>1, <2>2 DEF Stage, Restoring
<1>6. ASSUME NEW r \in Posted, Disconnected(r) PROVE Staged'
  <2>1. busy = NoOne
    BY <1>6 DEF Disconnected, At, Alone, Restoring
  <2>2. pc'[r] = "removeDb" /\ busy' = r /\ UNCHANGED <<uploads, cut>>
    BY <1>1, <1>6 DEF Disconnected, GoTo, live, aux
  <2>3. ~cut' => uploads' \notin {Gone, Torn}
    BY <2>1, <2>2 DEF DataTogether, Together
  <2> QED BY <1>3, <2>2, <2>3 DEF Stage
<1>7. ASSUME NEW r \in Posted, RestoreStep(r) PROVE Staged'
  <2>1. Stage(r) /\ backup'[r] = backup[r] /\ FileOf(r)' = FileOf(r) /\ UNCHANGED cut
    BY <1>7 DEF Staged, RestoreStep, RemoveDb, CopyDb, CopySidecar, DropUploads, CopyUploads,
                WriteConfig, aux, FileOf
  <2>2. pc[r] \in Restoring
    BY <1>7 DEF RestoreStep, RemoveDb, CopyDb, CopySidecar, DropUploads, CopyUploads,
                WriteConfig, At, Restoring
  <2>3. busy' \in {NoOne, r}
    BY <1>7, <2>2 DEF Alone, RestoreStep, RemoveDb, CopyDb, CopySidecar, DropUploads, CopyUploads,
                WriteConfig
  <2>4. CASE RemoveDb(r)
    BY <1>1, <1>3, <2>1, <2>3, <2>4 DEF RemoveDb, At, GoTo, Stage
  <2>5. CASE CopyDb(r)
    BY <1>1, <1>3, <2>1, <2>3, <2>5 DEF CopyDb, At, GoTo, Stage
  <2>6. CASE CopySidecar(r)
    <3>1. backup[r] \in Backups
      BY <2>2 DEF AllKnow, Knows, Handled
    <3>2. FileOf(r).sidecar \in BOOLEAN /\ FileOf(r).uploads \in BOOLEAN
      BY <3>1, FileTyped DEF Backup
    <3>3. pc'[r] = IF FileOf(r).uploads THEN "dropUploads" ELSE "writeConfig"
      BY <1>1, <2>6 DEF CopySidecar, GoTo
    <3>4. UNCHANGED <<db, uploads>> /\ sidecar' \in {Gone, backup[r]} /\ db = backup[r]
      BY <2>1, <2>6 DEF CopySidecar, At, Stage
    <3>5. ~cut => uploads \notin {Gone, Torn}
      BY <2>1, <2>6 DEF CopySidecar, At, Stage
    <3>6. Stage(r)'
      BY <2>1, <3>3, <3>4, <3>5 DEF Stage
    <3> QED BY <1>3, <2>3, <3>6
  <2>7. CASE DropUploads(r)
    BY <1>1, <1>3, <2>1, <2>3, <2>7 DEF DropUploads, At, GoTo, Stage
  <2>8. CASE CopyUploads(r)
    BY <1>1, <1>3, <2>1, <2>3, <2>8 DEF CopyUploads, At, GoTo, Stage
  <2>9. CASE WriteConfig(r)
    BY <1>4, <2>9 DEF WriteConfig
  <2> QED BY <1>7, <2>4, <2>5, <2>6, <2>7, <2>8, <2>9 DEF RestoreStep
<1>8. ASSUME NEW r \in Posted, Breaks(r) PROVE Staged'
  BY <1>4, <1>8 DEF Breaks
<1>9. CASE Crash \/ Reopen
  BY <1>4, <1>9 DEF Crash, Reopen
<1>10. CASE Quiet
  <2>1. ASSUME NEW s \in Posted, Stage(s) PROVE Stage(s)'
    BY <1>10, <2>1 DEF Quiet, live, Stage, FileOf
  <2> QED BY <2>1 DEF Staged
<1> QED BY <1>5, <1>6, <1>7, <1>8, <1>9, <1>10, StepsOnData

LEMMA SidecarKept ==
    ASSUME RestoreTypeOK, AllKnow, Alone, Staged, NoForeignSidecar, [RestoreNext]_restoreVars
    PROVE  NoForeignSidecar'
<1>1. ASSUME UNCHANGED <<db, sidecar>> PROVE NoForeignSidecar'
  BY <1>1 DEF NoForeignSidecar
<1>2. ASSUME NEW r \in Posted, RestoreStep(r) PROVE NoForeignSidecar'
  <2>1. Stage(r)
    BY DEF Staged
  <2>2. CASE RemoveDb(r)
    BY <2>1, <2>2 DEF RemoveDb, NoForeignSidecar
  <2>3. CASE CopyDb(r)
    BY <2>1, <2>3 DEF CopyDb, At, Stage, NoForeignSidecar
  <2>4. CASE CopySidecar(r)
    BY <2>1, <2>4 DEF CopySidecar, At, Stage, NoForeignSidecar
  <2>5. CASE DropUploads(r) \/ CopyUploads(r) \/ WriteConfig(r)
    BY <1>1, <2>5 DEF DropUploads, CopyUploads, WriteConfig, live
  <2> QED BY <1>2, <2>2, <2>3, <2>4, <2>5 DEF RestoreStep
\* A copy that stops half way leaves a torn file beside none, or beside its own.
<1>3. ASSUME NEW r \in Posted, Breaks(r) PROVE NoForeignSidecar'
  <2>1. Stage(r)
    BY DEF Staged
  <2>2. CASE pc[r] = "copyDb"
    BY <1>3, <2>1, <2>2 DEF Breaks, HalfDone, Stage, NoForeignSidecar
  <2>3. CASE pc[r] = "copySidecar"
    <3>1. sidecar' = Torn \/ sidecar' = Gone
      BY <1>3, <2>1, <2>3 DEF Breaks, HalfDone, Stage
    <3> QED BY <3>1 DEF NoForeignSidecar
  <2>4. CASE pc[r] \notin {"copyDb", "copySidecar"}
    BY <1>1, <1>3, <2>4 DEF Breaks, HalfDone
  <2> QED BY <2>2, <2>3, <2>4
<1>4. CASE Reopen
  BY <1>4 DEF Reopen, NoForeignSidecar
<1> QED
  BY <1>1, <1>2, <1>3, <1>4, StepsOnData DEF Outside, Disconnected, Quiet, live

LEMMA CopyFields ==
    ASSUME NEW c, NEW d, NEW s, NEW u, NEW k,
           c = [db |-> d, sidecar |-> s, uploads |-> u, key |-> k]
    PROVE  c.db = d /\ c.sidecar = s /\ c.uploads = u
OBVIOUS

LEMMA TogetherKept ==
    ASSUME RestoreTypeOK, AllKnow, Alone, Staged, Keyed, DataTogether, [RestoreNext]_restoreVars
    PROVE  DataTogether'
<1>1. copy \in [Posted -> Copy] /\ cut \in BOOLEAN
  BY DEF RestoreTypeOK
<1>2. Backups \cap {Original, Gone, Torn, EmptyDb} = {}
  BY RestoreAssumption
<1>3. ~cut' => ~cut
  BY StepsOnData DEF Outside, Disconnected, RestoreStep, Breaks, HalfDone, RemoveDb, CopyDb,
                     CopySidecar, DropUploads, CopyUploads, WriteConfig, Reopen, Quiet, aux
<1>4. ASSUME ~cut', busy' = NoOne PROVE Together(db', sidecar', uploads')
  <2>1. ASSUME busy = NoOne, UNCHANGED live PROVE Together(db', sidecar', uploads')
    BY <1>3, <1>4, <2>1 DEF DataTogether, live
  <2>2. ASSUME NEW r \in Posted, RestoreStep(r) PROVE Together(db', sidecar', uploads')
    <3>1. pc[r] \in Restoring
      BY <2>2 DEF RestoreStep, RemoveDb, CopyDb, CopySidecar, DropUploads, CopyUploads,
                  WriteConfig, At, Restoring
    <3>2. busy = r /\ r # NoOne
      BY <3>1, RestoreAssumption DEF Alone
    <3>3. WriteConfig(r)
      BY <1>4, <2>2, <3>2 DEF RestoreStep, RemoveDb, CopyDb, CopySidecar, DropUploads, CopyUploads
    <3>4. backup[r] \in Backups /\ Stage(r) /\ pc[r] = "writeConfig" /\ UNCHANGED live
      BY <3>1, <3>3 DEF AllKnow, Knows, Handled, Staged, WriteConfig, At
    <3>5. /\ db = backup[r] /\ sidecar \in {Gone, backup[r]}
          /\ uploads = backup[r] \/ (~FileOf(r).uploads /\ uploads \notin {Gone, Torn})
      BY <1>3, <1>4, <3>4 DEF Stage
    <3>6. Together(db, sidecar, uploads)
      BY <1>2, <3>4, <3>5 DEF Together, FileOf
    <3> QED BY <3>4, <3>6 DEF live
  <2>3. ASSUME NEW r \in Posted, Disconnected(r) PROVE FALSE
    BY <1>4, <2>3, RestoreAssumption DEF Disconnected
  <2>4. ASSUME NEW r \in Posted, Breaks(r) PROVE FALSE
    BY <1>4, <2>4 DEF Breaks, HalfDone
  <2>5. ASSUME Reopen PROVE FALSE
    BY <1>3, <1>4, <2>5 DEF Reopen, DataTogether, Together
  <2>6. ASSUME NEW r \in Posted, Outside(r) PROVE Together(db', sidecar', uploads')
    BY <1>4, <2>1, <2>6 DEF Outside
  <2>7. CASE Crash /\ UNCHANGED <<live, cut>> /\ busy = NoOne /\ busy' = NoOne
    BY <2>1, <2>7
  <2>8. CASE Quiet
    BY <1>4, <2>1, <2>8 DEF Quiet, live
  <2> QED BY <2>2, <2>3, <2>4, <2>5, <2>6, <2>7, <2>8, StepsOnData
<1> DEFINE Whole(c) == c # NoCopy => Together(c.db, c.sidecar, c.uploads)
<1>5. ASSUME ~cut', NEW s \in Posted PROVE Whole(copy'[s])
  <2>1. Whole(copy[s])
    BY <1>3, <1>5 DEF DataTogether
  <2>2. ASSUME NEW r \in Posted, ExportCopy(r) PROVE Whole(copy'[s])
    <3>1. busy = NoOne
      BY <2>2 DEF ExportCopy, At, Alone, Restoring
    <3>2. Together(db, sidecar, uploads)
      BY <1>3, <1>5, <3>1 DEF DataTogether
    <3>3. CASE r = s /\ ~UNCHANGED copy
      <4>1. copy'[s] = [db |-> db, sidecar |-> sidecar, uploads |-> uploads, key |-> NoKey]
        BY <1>1, <2>2, <3>3 DEF ExportCopy
      <4>2. ASSUME NEW c, c = copy'[s] PROVE Whole(c)
        <5>1. c = [db |-> db, sidecar |-> sidecar, uploads |-> uploads, key |-> NoKey]
          BY <4>1, <4>2
        <5>2. c.db = db /\ c.sidecar = sidecar /\ c.uploads = uploads
          BY ONLY <5>1
        <5> QED BY <3>2, <5>2
      <4> QED BY <4>2
    <3>4. CASE r # s \/ UNCHANGED copy
      BY <1>1, <2>1, <2>2, <3>4 DEF ExportCopy
    <3> QED BY <3>3, <3>4
  <2>3. ASSUME NEW r \in Posted, ExportEncrypt(r) PROVE Whole(copy'[s])
    <3>1. CASE r = s
      <4>1. copy[s].db # Gone
        BY <2>3, <3>1 DEF ExportEncrypt, At, Keyed
      <4>2. NoCopy.db = Gone
        BY ONLY CopyFields DEF NoCopy
      <4>3. copy'[s].db = copy[s].db /\ copy'[s].sidecar = copy[s].sidecar
            /\ copy'[s].uploads = copy[s].uploads
        BY <1>1, <2>3, <3>1 DEF ExportEncrypt, Copy
      <4> QED BY <2>1, <4>1, <4>2, <4>3
    <3>2. CASE r # s
      BY <1>1, <2>1, <2>3, <3>2 DEF ExportEncrypt
    <3> QED BY <3>1, <3>2
  <2>4. CASE UNCHANGED copy
    BY <2>1, <2>4
  <2> HIDE DEF Whole
  <2> QED
    BY <2>2, <2>3, <2>4
       DEF RestoreNext, ImportBegin, ImportResolved, ImportKey, ImportDecrypt, ImportUnpack,
           Disconnected, RemoveDb, CopyDb, CopySidecar, DropUploads, CopyUploads, WriteConfig,
           RestoreFails, VerifyBegin, VerifyKey, VerifyDecrypt, ExportBegin, KeySaveFails,
           ReadConfig, Crash, Reopen, AllServed, restoreVars
<1> QED BY <1>4, <1>5 DEF DataTogether, NoCopy

----------------------------------------------------------------------------
(* The keys of exports *)

\* With the database there the process goes by the key on disk.
LEMMA LoadedKey ==
    ASSUME RestoreTypeOK, Agreed, ~unkeyed, db # Gone
    PROVE  Loaded.key = KeyOnDisk
BY DEF Agreed, Loaded, ValidConfig, KeyOnDisk, SetupMode, NoConfig

\* A key made on demand is the one on disk and in memory from then on.
LEMMA KeyEnsured ==
    ASSUME RestoreTypeOK, Agreed, ~unkeyed, busy = NoOne, NEW r \in Posted, EnsureKey(r)
    PROVE  /\ cached'.key = ConfiguredKey(r) /\ KeyOnDisk' = ConfiguredKey(r)
           /\ KeyOnDisk # NoKey => KeyOnDisk' = KeyOnDisk
<1>1. Loaded \in Config /\ ConfiguredKey(r) \in BackupKeys
  BY LoadedTyped, KeyConfigured
<1>2. Loaded.key = KeyOnDisk
  BY LoadedKey DEF Agreed
<1>3. cached' \in Config /\ cached'.key = ConfiguredKey(r)
  BY <1>1 DEF EnsureKey, Config
<1>4. NoConfig \notin Config
  BY DEF NoConfig, Config, BackupKeys, GivenKeys
<1>5. CASE Loaded.key = NoKey
  <2>1. config' = cached'
    BY <1>5 DEF EnsureKey
  <2> QED BY <1>2, <1>3, <1>4, <1>5, <2>1 DEF KeyOnDisk
<1>6. CASE Loaded.key # NoKey
  <2>1. config' = config /\ ConfiguredKey(r) = KeyOnDisk
    BY <1>2, <1>6 DEF EnsureKey, ConfiguredKey
  <2> QED BY <1>3, <2>1 DEF KeyOnDisk
<1> QED BY <1>5, <1>6

\* What a step does to the keys of the configuration, on disk and in memory.
KeysMove(r) ==
    \/ EnsureKey(r) /\ busy = NoOne
    \/ UNCHANGED config /\ cached' \in {cached, NoConfig}
    \/ UNCHANGED config /\ cached' = Loaded /\ busy = NoOne
    \/ /\ SavesKey(r) /\ busy = NoOne
       /\ config' \in {config, NoConfig} /\ cached' \in {Loaded, NoConfig}
    \/ Breaks(r) /\ cached' \in {cached, NoConfig}

LEMMA StepsOnKeys ==
    ASSUME RestoreTypeOK, Alone, [RestoreNext]_restoreVars
    PROVE  \/ UNCHANGED config /\ cached' \in {cached, NoConfig}
           \/ UNCHANGED config /\ cached' = Loaded /\ busy = NoOne
           \/ \E r \in Posted : WriteConfig(r) \/ KeysMove(r)
<1>1. ASSUME NEW r \in Posted, NEW where \in HandlerStates \ Restoring, At(r, where) PROVE busy = NoOne
  BY <1>1 DEF At, Alone
<1>2. ASSUME NEW r \in Posted, ImportBegin(r) \/ ExportBegin(r) PROVE KeysMove(r)
  BY <1>1, <1>2 DEF ImportBegin, ExportBegin, HandlerStates, Restoring, KeysMove
<1>3. ASSUME NEW r \in Posted, ImportKey(r) \/ VerifyKey(r) \/ ExportEncrypt(r) PROVE KeysMove(r)
  BY <1>1, <1>3 DEF ImportKey, VerifyKey, ExportEncrypt, HandlerStates, Restoring, Underway, KeysMove,
                    configs
<1>4. ASSUME NEW r \in Posted, KeySaveFails(r) PROVE KeysMove(r)
  BY <1>4 DEF KeySaveFails, KeysMove
<1>5. ASSUME NEW r \in Posted, RestoreFails(r) PROVE KeysMove(r)
  BY <1>5 DEF RestoreFails, Breaks, KeysMove
<1>6. CASE Crash
  <2>1. CASE busy = NoOne /\ UNCHANGED config
    BY <1>6, <2>1 DEF Crash
  <2>2. ASSUME NEW r \in Posted, busy = NoOne, SavesKey(r), config' = NoConfig PROVE KeysMove(r)
    BY <1>6, <2>2 DEF Crash, KeysMove
  <2>3. CASE busy # NoOne
    <3>1. busy \in Posted /\ KeysMove(busy)
      BY <1>6, <2>3 DEF Crash, Alone, Breaks, KeysMove
    <3> QED BY <3>1
  <2> QED BY <1>6, <2>1, <2>2, <2>3 DEF Crash
<1>7. CASE ReadConfig
  BY <1>7 DEF ReadConfig
<1>8. CASE UNCHANGED configs
  BY <1>8 DEF configs
<1> QED
  BY <1>2, <1>3, <1>4, <1>5, <1>6, <1>7, <1>8
     DEF RestoreNext, ImportResolved, ImportDecrypt, ImportUnpack, Disconnected, RemoveDb, CopyDb,
         CopySidecar, DropUploads, CopyUploads, VerifyBegin, VerifyDecrypt, ExportCopy, Reopen,
         AllServed, restoreVars, configs

\* As long as no restore that was cut short lost it, the key stays on disk once
\* it is there, and in what the process goes by, unless an import brings another.
LEMMA KeyStays ==
    ASSUME RestoreTypeOK, AllKnow, Alone, Staged, Agreed, [RestoreNext]_restoreVars, ~unkeyed'
    PROVE  /\ Agreed' /\ ~unkeyed
           /\ ~rekeyed' => KeyOnDisk' = KeyOnDisk \/ KeyOnDisk = NoKey
<1>1. unkeyed \in BOOLEAN /\ busy \in Posted \cup {NoOne} /\ NoOne \notin Posted
  BY RestoreAssumption DEF RestoreTypeOK
<1>2. ~unkeyed
  BY <1>1, StepsOnData
     DEF Outside, Disconnected, RestoreStep, Breaks, HalfDone, RemoveDb, CopyDb, CopySidecar,
         DropUploads, CopyUploads, WriteConfig, Reopen, Quiet, aux
<1>3. db' = Gone => busy' # NoOne
  <2>1. ASSUME NEW r \in Posted, RestoreStep(r), busy' = NoOne PROVE db' # Gone
    <3>1. pc[r] \in Restoring
      BY <2>1 DEF RestoreStep, RemoveDb, CopyDb, CopySidecar, DropUploads, CopyUploads,
                  WriteConfig, At, Restoring
    <3>2. WriteConfig(r)
      BY <1>1, <2>1, <3>1 DEF Alone, RestoreStep, RemoveDb, CopyDb, CopySidecar, DropUploads,
                              CopyUploads
    <3>3. db' = backup[r] /\ backup[r] \in Backups
      BY <3>1, <3>2 DEF WriteConfig, At, Staged, Stage, AllKnow, Knows, Handled, live
    <3> QED BY <3>3, RestoreAssumption
  <2>2. ASSUME NEW r \in Posted, Disconnected(r) PROVE busy' # NoOne
    BY <1>1, <2>2 DEF Disconnected
  <2>3. ASSUME NEW r \in Posted, Breaks(r) PROVE db' # Gone
    BY <2>3 DEF Breaks, HalfDone
  <2>4. ASSUME NEW r \in Posted, Outside(r) PROVE UNCHANGED <<db, busy>>
    BY <2>4 DEF Outside, live
  <2>5. CASE UNCHANGED <<db, busy>>
    BY <1>2, <2>5 DEF Agreed
  <2> QED BY <1>2, <2>1, <2>2, <2>3, <2>4, <2>5, StepsOnData DEF Reopen, Quiet, live
<1>4. busy = NoOne => Loaded.key = KeyOnDisk
  BY <1>2, LoadedKey DEF Agreed
<1>5. cached = NoConfig \/ cached.key = KeyOnDisk
  BY <1>2 DEF Agreed
<1> DEFINE Good == /\ cached' = NoConfig \/ cached'.key = KeyOnDisk'
                   /\ ~rekeyed' => KeyOnDisk' = KeyOnDisk \/ KeyOnDisk = NoKey
<1>6. ASSUME UNCHANGED config, cached' \in {cached, NoConfig} \/ (cached' = Loaded /\ busy = NoOne)
      PROVE  Good
  BY <1>4, <1>5, <1>6 DEF KeyOnDisk
<1>7. ASSUME NEW r \in Posted, KeysMove(r) PROVE Good
  <2>1. CASE EnsureKey(r) /\ busy = NoOne
    BY <1>2, <2>1, KeyEnsured
  <2>2. CASE /\ SavesKey(r) /\ busy = NoOne
             /\ config' \in {config, NoConfig} /\ cached' \in {Loaded, NoConfig}
    BY <1>4, <2>2 DEF SavesKey, KeyOnDisk
  <2>3. CASE Breaks(r) /\ cached' \in {cached, NoConfig}
    <3>1. config' = config
      BY <2>3 DEF Breaks, HalfDone
    <3> QED BY <1>6, <2>3, <3>1
  <2> QED BY <1>6, <1>7, <2>1, <2>2, <2>3 DEF KeysMove
<1>8. ASSUME NEW r \in Posted, WriteConfig(r) PROVE Good
  <2>1. backup[r] \in Backups /\ db = backup[r]
    BY <1>8 DEF WriteConfig, At, Restoring, Staged, Stage, AllKnow, Knows, Handled
  <2>2. db # Gone
    BY <2>1, RestoreAssumption
  <2>3. Existing.key = KeyOnDisk
    BY <1>2, <2>2, LoadedKey DEF Existing, KeyOnDisk
  <2>4. FileOf(r).carries \in GivenKeys \cup {NoKey, Gone}
    BY <2>1, FileTyped DEF Backup
  <2>5. CASE FileOf(r).carries = Gone
    BY <1>8, <2>5 DEF WriteConfig, KeyOnDisk
  <2>6. CASE FileOf(r).carries = NoKey
    <3>1. config' = [key |-> KeyOnDisk, setup |-> FALSE]
      BY <1>8, <2>3, <2>6 DEF WriteConfig, Merged
    <3>2. KeyOnDisk \in BackupKeys \cup {NoKey}
      BY DEF RestoreTypeOK, KeyOnDisk, Config
    <3>3. config' # NoConfig
      BY <3>1, <3>2 DEF NoConfig, BackupKeys, GivenKeys
    <3>4. KeyOnDisk' = KeyOnDisk
      BY <3>1, <3>3 DEF KeyOnDisk
    <3> QED BY <1>8, <3>4 DEF WriteConfig
  <2>7. CASE FileOf(r).carries \in GivenKeys
    <3>1. config' = [key |-> FileOf(r).carries, setup |-> FALSE]
      BY <1>8, <2>7 DEF WriteConfig, Merged, GivenKeys
    <3>2. config' # NoConfig
      BY <2>7, <3>1 DEF NoConfig, GivenKeys
    <3>3. KeyOnDisk' = FileOf(r).carries
      BY <3>1, <3>2 DEF KeyOnDisk
    <3>4. ~rekeyed' => FileOf(r).carries = config.key
      BY <1>8, <2>7 DEF WriteConfig, BackupKeys
    <3>5. NoConfig.key = Torn /\ Torn \notin GivenKeys
      BY DEF NoConfig, GivenKeys
    <3>6. FileOf(r).carries = config.key => config # NoConfig
      BY <2>7, <3>5
    <3> QED BY <1>8, <3>3, <3>4, <3>6 DEF WriteConfig, KeyOnDisk
  <2> QED BY <2>4, <2>5, <2>6, <2>7
<1>9. Good
  BY <1>6, <1>7, <1>8, StepsOnKeys
<1> QED BY <1>2, <1>3, <1>9 DEF Agreed

LEMMA KeysKept ==
    ASSUME RestoreTypeOK, AllKnow, Alone, Staged, Keyed, Agreed, ExportsOpen, [RestoreNext]_restoreVars
    PROVE  Keyed' /\ Agreed' /\ ExportsOpen'
<1>1. pc \in [Posted -> HandlerStates] /\ copy \in [Posted -> Copy] /\ NoKey \notin BackupKeys
  BY DEF RestoreTypeOK, HandlerStates, BackupKeys, GivenKeys
\* Of a request: what the two properties say.
<1> DEFINE Has(s) == /\ pc[s] = "exportKey" => copy[s].db # Gone
                     /\ pc[s] = "exported" => copy[s].key # NoKey
           Keeps(s) == ~unkeyed /\ ~rekeyed /\ pc[s] = "exported" => copy[s].key = KeyOnDisk
<1>2. \A s \in Posted : Has(s) /\ Keeps(s)
  BY DEF Keyed, ExportsOpen
\* A request that a step does not take to the end of its export.
<1>3. ASSUME NEW s \in Posted, copy'[s] = copy[s],
             pc'[s] \in {"exportKey", "exported"} => pc'[s] = pc[s]
      PROVE  Has(s)' /\ Keeps(s)'
  <2>1. Has(s)'
    BY <1>2, <1>3
  <2>2. ASSUME ~unkeyed', ~rekeyed', pc'[s] = "exported" PROVE copy'[s].key = KeyOnDisk'
    <3>1. ~unkeyed /\ ~rekeyed /\ (KeyOnDisk' = KeyOnDisk \/ KeyOnDisk = NoKey)
      BY <2>2, KeyStays, RekeyedStays
    <3>2. copy[s].key = KeyOnDisk /\ copy[s].key # NoKey
      BY <1>2, <1>3, <2>2, <3>1
    <3> QED BY <1>3, <3>1, <3>2
  <2> QED BY <2>1, <2>2
<1> HIDE DEF Has, Keeps
<1>4. ASSUME NEW s \in Posted, NEW r \in Posted, NEW at \in HandlerStates \ {"exportKey", "exported"},
             GoTo(r, at), UNCHANGED copy
      PROVE  Has(s)' /\ Keeps(s)'
  BY <1>1, <1>3, <1>4 DEF GoTo
<1>5. ASSUME NEW s \in Posted, NEW r \in Posted,
             \/ ImportBegin(r) \/ ImportResolved(r) \/ ImportKey(r) \/ ImportDecrypt(r)
             \/ ImportUnpack(r) \/ VerifyBegin(r) \/ VerifyKey(r) \/ VerifyDecrypt(r)
             \/ ExportBegin(r) \/ KeySaveFails(r)
      PROVE  Has(s)' /\ Keeps(s)'
  <2>1. ASSUME NEW at \in {"import", "importKey", "importDecrypt", "unpack", "disconnect", "verifyKey",
                           "verifyDecrypt", "export", "refused", "verified", "unverified", "failed"},
               GoTo(r, at), UNCHANGED copy
        PROVE  Has(s)' /\ Keeps(s)'
    BY <1>4, <2>1 DEF HandlerStates, Underway, Ended
  <2> QED
    BY <1>5, <2>1 DEF ImportBegin, ImportResolved, ImportKey, ImportDecrypt, ImportUnpack, VerifyBegin,
                      VerifyKey, VerifyDecrypt, ExportBegin, KeySaveFails, Ends
<1>6. ASSUME NEW s \in Posted, NEW r \in Posted,
             \/ Disconnected(r) \/ RemoveDb(r) \/ CopyDb(r) \/ CopySidecar(r)
             \/ DropUploads(r) \/ CopyUploads(r) \/ WriteConfig(r) \/ RestoreFails(r)
      PROVE  Has(s)' /\ Keeps(s)'
  <2>1. /\ UNCHANGED copy
        /\ UNCHANGED pc \/ \E at \in Restoring \cup {"broken off", "restored"} : GoTo(r, at)
    BY <1>6 DEF Disconnected, RemoveDb, CopyDb, CopySidecar, DropUploads, CopyUploads, WriteConfig,
                RestoreFails, Ends, Restoring, aux
  <2>2. Restoring \cup {"broken off", "restored"} \subseteq HandlerStates \ {"exportKey", "exported"}
    BY DEF Restoring, HandlerStates, Underway, Ended
  <2>3. CASE UNCHANGED pc
    BY <1>3, <2>1, <2>3
  <2> QED BY <1>4, <2>1, <2>2, <2>3
<1>7. ASSUME NEW s \in Posted, NEW r \in Posted, ExportCopy(r) PROVE Has(s)' /\ Keeps(s)'
  <2>1. \A q \in Posted \ {r} : copy'[q] = copy[q] /\ pc'[q] = pc[q]
    BY <1>1, <1>7 DEF ExportCopy, GoTo
  <2>2. CASE s # r
    BY <1>3, <2>1, <2>2
  <2>3. CASE s = r /\ pc'[r] = "exportKey"
    <3>1. db # Gone /\ copy'[r] = [db |-> db, sidecar |-> sidecar, uploads |-> uploads, key |-> NoKey]
      BY <1>1, <1>7, <2>3 DEF ExportCopy, GoTo
    <3>2. ASSUME NEW c, c = copy'[r] PROVE c.db # Gone
      <4>1. c = [db |-> db, sidecar |-> sidecar, uploads |-> uploads, key |-> NoKey]
        BY <3>1, <3>2
      <4>2. c.db = db
        BY ONLY <4>1
      <4> QED BY <3>1, <4>2
    <3> QED BY <2>3, <3>2 DEF Has, Keeps
  <2>4. CASE s = r /\ pc'[r] # "exportKey"
    <3>1. pc'[r] = "no database"
      BY <1>1, <1>7, <2>4 DEF ExportCopy, GoTo
    <3> QED BY <2>4, <3>1 DEF Has, Keeps
  <2> QED BY <2>2, <2>3, <2>4
\* The export that ends is encrypted with the key that is on disk from then on.
<1>8. ASSUME NEW s \in Posted, NEW r \in Posted, ExportEncrypt(r) PROVE Has(s)' /\ Keeps(s)'
  <2>1. CASE s # r
    <3>1. copy'[s] = copy[s] /\ pc'[s] = pc[s]
      BY <1>1, <1>8, <2>1 DEF ExportEncrypt, GoTo
    <3> QED BY <1>3, <3>1
  <2>2. CASE s = r
    <3>1. pc'[r] = "exported" /\ copy'[r].key = ConfiguredKey(r)
      BY <1>1, <1>8 DEF ExportEncrypt, GoTo, Copy
    <3>2. ConfiguredKey(r) \in BackupKeys
      BY KeyConfigured
    <3>3. busy = NoOne /\ EnsureKey(r)
      BY <1>8 DEF ExportEncrypt, At, Alone, Restoring
    <3>4. ~unkeyed' => KeyOnDisk' = ConfiguredKey(r)
      BY <3>3, KeyStays, KeyEnsured
    <3> QED BY <1>1, <2>2, <3>1, <3>2, <3>4 DEF Has, Keeps
  <2> QED BY <2>1, <2>2
<1>9. ASSUME NEW s \in Posted, ReadConfig \/ Crash \/ Reopen \/ UNCHANGED restoreVars
      PROVE  Has(s)' /\ Keeps(s)'
  <2>1. UNCHANGED copy /\ (pc'[s] = pc[s] \/ pc'[s] = "lost")
    BY <1>9 DEF ReadConfig, Crash, Reopen, restoreVars
  <2> QED BY <1>3, <2>1
<1>10. \A s \in Posted : Has(s)' /\ Keeps(s)'
  BY <1>5, <1>6, <1>7, <1>8, <1>9 DEF RestoreNext, AllServed
<1>11. Agreed'
  BY KeyStays DEF Agreed
<1> QED BY <1>10, <1>11 DEF Has, Keeps, Keyed, ExportsOpen

----------------------------------------------------------------------------
LEMMA RestoreInvStep == RestoreInv /\ [RestoreNext]_restoreVars => RestoreInv'
<1> SUFFICES ASSUME RestoreInv, [RestoreNext]_restoreVars PROVE RestoreInv'
  OBVIOUS
<1>1. /\ RestoreTypeOK /\ AllKnow /\ Alone /\ Staged /\ Keyed /\ Agreed /\ ExportsOpen
      /\ NoForeignSidecar /\ RestoredWasOpened /\ DataTogether
  BY DEF RestoreInv, RestoreSafe
<1>2. RestoreTypeOK' /\ AllKnow' /\ Alone' /\ Staged'
  BY <1>1, TypeKept, FilesKnown, AloneKept, StagedKept
<1>3. Keyed' /\ Agreed' /\ ExportsOpen'
  BY <1>1, KeysKept
<1>4. NoForeignSidecar' /\ RestoredWasOpened' /\ DataTogether'
  BY <1>1, SidecarKept, OpenedKept, TogetherKept
<1> QED BY <1>2, <1>3, <1>4 DEF RestoreInv, RestoreSafe

LEMMA RestoreInvariant == RestoreSpec => []RestoreInv
<1> QED BY RestoreInvInit, RestoreInvStep, PTL DEF RestoreSpec

\* Type correctness of the handlers over the data directory.
THEOREM RestoreTyped == RestoreSpec => []RestoreTypeOK
<1>1. RestoreInv => RestoreTypeOK
  BY DEF RestoreInv
<1> QED BY RestoreInvariant, <1>1, PTL

\* However imports, exports, failures and crashes interleave, no database
\* stands beside another one's sidecar, only files that were opened reach the
\* live data, and database and uploads stay together: importFromArchiveFile()
\* and exportBackup() of BackupService.
THEOREM RestoreSafeCorrect == RestoreSpec => []RestoreSafe
<1>1. RestoreInv => RestoreSafe
  BY DEF RestoreInv
<1> QED BY RestoreInvariant, <1>1, PTL

\* The answers of imports and verifications are true of their files, an upload
\* outlives only a request that goes on or was lost with the process, and the
\* key of an export stays in config.json, and in what the process goes by,
\* until an import brings another or a restore is cut short without a database
\* or a configuration to go on with: BackupService, ConfigLoaderService.
THEOREM BackupsAnsweredCorrect == RestoreSpec => []BackupsAnswered
<1>1. RestoreInv => BackupsAnswered
  <2> SUFFICES ASSUME RestoreInv PROVE BackupsAnswered
    OBVIOUS
  <2>1. AllKnow /\ upload \subseteq Posted
    BY DEF RestoreInv, RestoreTypeOK
  <2>2. AnswersTruthful
    BY <2>1 DEF AllKnow, Knows, AnswersTruthful
  <2>3. UploadsRemoved
    BY <2>1 DEF AllKnow, Knows, UploadsRemoved, Handled, Underway
  <2>4. ASSUME ~rekeyed, ~unkeyed, NEW r \in Posted, pc[r] = "exported"
        PROVE  copy[r].key = config.key /\ (busy = NoOne => copy[r].key = Loaded.key)
    <3>1. copy[r].key = KeyOnDisk /\ copy[r].key # NoKey
      BY <2>4 DEF RestoreInv, ExportsOpen, Keyed
    <3>2. busy = NoOne => Loaded.key = KeyOnDisk
      BY <2>4, LoadedKey DEF RestoreInv, Agreed
    <3> QED BY <3>1, <3>2 DEF KeyOnDisk
  <2> QED BY <2>2, <2>3, <2>4 DEF BackupsAnswered, ExportsKeepTheirKey
<1> QED BY RestoreInvariant, <1>1, PTL
=============================================================================
