----------------------------- MODULE AutoBackup -----------------------------
(***************************************************************************)
(* Automatic backups (BackupService): the timer tick, POST auto-run, GET   *)
(* auto-status and POST export, run by the event loop of one process, and  *)
(* the rotation of openticket-auto-backup.{current,previous} on disk.      *)
(*                                                                         *)
(* Handlers interleave at every await.  The rotation itself is a run of    *)
(* synchronous file operations: while busy = h no other handler moves, but *)
(* the process can die, or an operation throw, between any two of them.    *)
(* A handler slot serves one call at a time and is used again afterwards;  *)
(* one slot may serve both exports and status calls.                       *)
(* The installation is set up and keeps its own database (the tick returns *)
(* at once in setup mode and on a client), and its backups go to one       *)
(* directory, targetPath being left as it is.                              *)
(***************************************************************************)
EXTENDS Naturals, FiniteSets

CONSTANTS Tickers,     \* calls of runAutoBackupTick
          Manuals,     \* calls of runAutoBackupNow
          Exporters,   \* calls of exportBackup by an administrator
          Viewers,     \* calls of getAutoBackupStatus
          Offered,     \* the settings administrators choose among
          MaxMishaps   \* bound: deaths and errors in the middle of a rotation

NoOne == "no handler"

ASSUME AutoBackupAssumption ==
    /\ MaxMishaps \in Nat
    /\ Offered \subseteq [enabled : BOOLEAN, keep : BOOLEAN]
    /\ Tickers \cap Manuals = {} /\ Tickers \cap Exporters = {}
    /\ Tickers \cap Viewers = {} /\ Manuals \cap Exporters = {}
    /\ Manuals \cap Viewers = {}
    /\ NoOne \notin Tickers \cup Manuals \cup Exporters \cup Viewers

Handlers == Tickers \cup Manuals \cup Exporters \cup Viewers

\* nextRunAt of the persisted state against the clock.
NextRun == {"unset", "later", "due"}
\* A backup file: missing, being written, restorable, or spoilt.
Content == {"absent", "open", "whole", "broken"}

Exporting == {"export", "staged", "streaming"}
Rotating == {"copy", "dropPrevious", "promote", "dropCurrent", "dropBoth",
             "install", "dropArchive"}
Closing == {"saveState", "saveError", "release"}
Reading == {"read", "readState", "decide", "writeFirst"}
Deciding == {"manualRead", "manualReadState", "manualDecide", "manualSkip"}

VARIABLES
    running,    \* autoBackupRunning
    pc,         \* where each handler stands
    busy,       \* the handler inside a synchronous rotation, or NoOne
    seen,       \* the settings and the state a handler has read
    enabled, keepPrevious,   \* system.settings.backup
    nextRun,    \* backup.auto.state.v1
    name,       \* whose file name (a timestamp in seconds) an export uses
    archive,    \* archives of running exports: their state and who began them
    temp,       \* openticket-auto-backup.tmp.<ms> of a rotation
    strays,     \* temporary files earlier rotations left behind
    current, previous,
    saved,      \* auxiliary: a restorable current file was installed once
    shared,     \* auxiliary: two exports met under one file name
    unkept,     \* auxiliary: a rotation ran with keepPrevious off
    mishaps     \* auxiliary: rotations cut short (counted up to the bound)

files    == <<temp, strays, current, previous>>
settings == <<enabled, keepPrevious>>
aux      == <<saved, shared, unkept, mishaps>>
vars     == <<running, pc, busy, seen, enabled, keepPrevious, nextRun, name,
              archive, temp, strays, current, previous, saved, shared, unkept,
              mishaps>>

NothingSeen == [enabled |-> TRUE, keep |-> TRUE, next |-> "unset"]
NoFile(h) == [state |-> "absent", by |-> h]

Init ==
    /\ running = FALSE
    /\ pc = [h \in Handlers |-> "idle"]
    /\ busy = NoOne
    /\ seen = [h \in Handlers |-> NothingSeen]
    /\ enabled = TRUE /\ keepPrevious = TRUE     \* the fallback settings
    /\ nextRun = "unset"
    /\ name = [h \in Handlers |-> h]
    /\ archive = [h \in Handlers |-> NoFile(h)]
    /\ temp = [h \in Handlers |-> "absent"]
    /\ strays = {}
    /\ current = "absent" /\ previous = "absent"
    /\ saved = FALSE /\ shared = FALSE /\ unkept = FALSE /\ mishaps = 0

----------------------------------------------------------------------------
At(h, where) == pc[h] = where /\ busy \in {NoOne, h}
GoTo(h, where) == pc' = [pc EXCEPT ![h] = where]
Uses(g, n) == pc[g] \in Exporting \cup Rotating /\ name[g] = n

\* A call returns.  Archives that no running export uses are forgotten.
Ends(h) == GoTo(h, "idle") /\ seen' = [seen EXCEPT ![h] = NothingSeen]

Forgets(h, a) ==
    /\ name' = [name EXCEPT ![h] = h]
    /\ archive' = [n \in Handlers |-> IF \E g \in Handlers \ {h} : Uses(g, n)
                                      THEN a[n] ELSE NoFile(n)]

\* shouldRunAutoBackup awaits the settings, then the state.
ReadSettings(h) ==
    /\ \/ At(h, "read") /\ GoTo(h, "readState")
       \/ At(h, "manualRead") /\ GoTo(h, "manualReadState")
    /\ seen' = [seen EXCEPT ![h].enabled = enabled, ![h].keep = keepPrevious]
    /\ UNCHANGED <<running, busy, settings, nextRun, name, archive, files, aux>>

\* Fault: the stored date is used as it is, not compared with the clock.
ReadStateUnparsed(h) ==
    /\ At(h, "readState") /\ GoTo(h, "decide")
    /\ seen' = [seen EXCEPT ![h].next = "a date"]
    /\ UNCHANGED <<running, busy, settings, nextRun, name, archive, files, aux>>

ReadState(h) ==
    /\ \/ At(h, "readState") /\ GoTo(h, "decide")
       \/ At(h, "manualReadState") /\ GoTo(h, "manualDecide")
    /\ seen' = [seen EXCEPT ![h].next = nextRun]
    /\ UNCHANGED <<running, busy, settings, nextRun, name, archive, files, aux>>

\* A query fails, or what is stored cannot be parsed: the caller goes by the
\* fallback settings, or by no state, which is what seen holds until then.
ReadFails(h) ==
    /\ \/ At(h, "read") /\ GoTo(h, "readState")
       \/ At(h, "manualRead") /\ GoTo(h, "manualReadState")
       \/ At(h, "readState") /\ GoTo(h, "decide")
       \/ At(h, "manualReadState") /\ GoTo(h, "manualDecide")
    /\ UNCHANGED <<running, busy, seen, settings, nextRun, name, archive, files, aux>>

\* The tick looks at the flag before it awaits the decision ...
TickBegin(h) ==
    /\ h \in Tickers /\ At(h, "idle")
    /\ ~running
    /\ GoTo(h, "read")
    /\ UNCHANGED <<running, busy, seen, settings, nextRun, name, archive, files, aux>>

FirstTime(h) == seen[h].enabled /\ seen[h].next = "unset"
Due(h) == seen[h].enabled /\ seen[h].next = "due"

\* Of what was read a run only uses the settings.
KeepsSettings(h) == seen' = [seen EXCEPT ![h].next = "unset"]

\* ... and sets it afterwards without looking again.
TickDecide(h) ==
    /\ h \in Tickers /\ At(h, "decide")
    /\ \/ FirstTime(h) /\ GoTo(h, "writeFirst") /\ UNCHANGED <<running, seen>>
       \/ Due(h) /\ GoTo(h, "export") /\ running' = TRUE /\ KeepsSettings(h)
       \/ ~FirstTime(h) /\ ~Due(h) /\ Ends(h) /\ UNCHANGED running
    /\ UNCHANGED <<busy, settings, nextRun, name, archive, files, aux>>

\* GET auto-status: a read that may write the first nextRunAt.
StatusBegin(h) ==
    /\ h \in Viewers /\ At(h, "idle")
    /\ GoTo(h, "read")
    /\ UNCHANGED <<running, busy, seen, settings, nextRun, name, archive, files, aux>>

StatusDecide(h) ==
    /\ h \in Viewers /\ At(h, "decide")
    /\ \/ FirstTime(h) /\ GoTo(h, "writeFirst") /\ UNCHANGED seen
       \/ ~FirstTime(h) /\ Ends(h)
    /\ UNCHANGED <<running, busy, settings, nextRun, name, archive, files, aux>>

WriteFirst(h) ==
    /\ At(h, "writeFirst")
    /\ nextRun' = "later"
    /\ Ends(h)
    /\ UNCHANGED <<running, busy, settings, name, archive, files, aux>>

\* POST auto-run: flag checked and set in one go.
ManualBegin(h) ==
    /\ h \in Manuals /\ At(h, "idle")
    /\ ~running
    /\ running' = TRUE
    /\ GoTo(h, "manualRead")
    /\ UNCHANGED <<busy, seen, settings, nextRun, name, archive, files, aux>>

ManualDecide(h) ==
    /\ At(h, "manualDecide")
    /\ \/ seen[h].enabled /\ GoTo(h, "export") /\ KeepsSettings(h)
       \/ ~seen[h].enabled /\ GoTo(h, "manualSkip") /\ UNCHANGED seen
    /\ UNCHANGED <<running, busy, settings, nextRun, name, archive, files, aux>>

\* Disabled: the state that was read is written back with an error note.
ManualSkip(h) ==
    /\ At(h, "manualSkip")
    /\ nextRun' = seen[h].next
    /\ GoTo(h, "release")
    /\ UNCHANGED <<running, busy, seen, settings, name, archive, files, aux>>

----------------------------------------------------------------------------
(* exportBackup().                                                         *)

ExportBegin(h) ==
    /\ h \in Exporters /\ At(h, "idle")
    /\ GoTo(h, "export")
    /\ UNCHANGED <<running, busy, seen, settings, nextRun, name, archive, files, aux>>

\* The name has the resolution of a second: a new file, or the file of
\* another export that is under way.
ChooseName(h) ==
    /\ At(h, "export")
    /\ \/ /\ \A g \in Handlers \ {h} : ~Uses(g, h)
          /\ name' = [name EXCEPT ![h] = h]
          /\ archive' = [archive EXCEPT ![h] = NoFile(h)]
          /\ UNCHANGED shared
       \/ /\ \E g \in Handlers \ {h} :
               /\ pc[g] \in {"staged", "streaming"}
               /\ name' = [name EXCEPT ![h] = name[g]]
          /\ shared' = TRUE
          /\ UNCHANGED archive
    /\ GoTo(h, "staged")
    /\ UNCHANGED <<running, busy, seen, settings, nextRun, files, saved, unkept, mishaps>>

\* encryptArchiveToBackupFile: the header truncates the file ...
EncryptHeader(h) ==
    /\ At(h, "staged")
    /\ archive' = [archive EXCEPT ![name[h]] = [state |-> "open", by |-> h]]
    /\ GoTo(h, "streaming")
    /\ UNCHANGED <<running, busy, seen, settings, nextRun, name, files, aux>>

\* ... the ciphertext and the tag are appended to whatever is there.  An
\* automatic run goes on into the rotation without another await.
EncryptEnd(h) ==
    /\ At(h, "streaming")
    /\ LET outcome == IF archive[name[h]] = [state |-> "open", by |-> h]
                      THEN "whole" ELSE "broken"
           written == [archive EXCEPT ![name[h]] = [state |-> outcome, by |-> h]] IN
       \/ /\ h \in Exporters
          /\ Ends(h) /\ Forgets(h, written) /\ UNCHANGED busy
       \/ /\ h \notin Exporters
          /\ archive' = written /\ GoTo(h, "copy") /\ busy' = h
          /\ UNCHANGED <<seen, name>>
    /\ UNCHANGED <<running, settings, nextRun, files, aux>>

\* Fault: the error is swallowed, the file kept, and the rotation goes on.
ExportFailureSwallowed(h) ==
    /\ pc[h] = "streaming" /\ busy = NoOne
    /\ GoTo(h, "copy") /\ busy' = h
    /\ UNCHANGED <<running, seen, settings, nextRun, name, archive, files, aux>>

\* No database file, tar or the cipher fails: the output file is removed.
ExportFails(h) ==
    /\ pc[h] \in Exporting /\ busy = NoOne
    /\ Forgets(h, IF pc[h] = "streaming"
                  THEN [archive EXCEPT ![name[h]] = NoFile(h)] ELSE archive)
    /\ \/ h \in Exporters /\ Ends(h)
       \/ h \notin Exporters /\ GoTo(h, "saveError") /\ UNCHANGED seen
    /\ UNCHANGED <<running, busy, settings, nextRun, files, aux>>

----------------------------------------------------------------------------
(* executeAutoBackupRotation() after the export, one file operation a step. *)

CopyToTemp(h) ==
    /\ At(h, "copy")
    /\ temp' = [temp EXCEPT ![h] = archive[name[h]].state]
    /\ GoTo(h, IF seen[h].keep THEN "dropPrevious" ELSE "dropCurrent")
    /\ UNCHANGED <<running, busy, seen, settings, nextRun, name, archive, strays,
                   current, previous, aux>>

DropPrevious(h) ==
    /\ At(h, "dropPrevious")
    /\ previous' = "absent"
    /\ GoTo(h, "promote")
    /\ UNCHANGED <<running, busy, seen, settings, nextRun, name, archive, temp,
                   strays, current, aux>>

\* Fault: the current file is removed where it should be renamed.
PromoteByRemoving(h) ==
    /\ At(h, "promote")
    /\ current' = "absent"
    /\ GoTo(h, "install")
    /\ UNCHANGED <<running, busy, seen, settings, nextRun, name, archive, temp,
                   strays, previous, aux>>

PromoteCurrent(h) ==
    /\ At(h, "promote")
    /\ IF current = "absent" THEN UNCHANGED <<current, previous>>
       ELSE previous' = current /\ current' = "absent"
    /\ GoTo(h, "install")
    /\ UNCHANGED <<running, busy, seen, settings, nextRun, name, archive, temp,
                   strays, aux>>

DropCurrent(h) ==
    /\ At(h, "dropCurrent")
    /\ current' = "absent"
    /\ unkept' = TRUE
    /\ GoTo(h, "dropBoth")
    /\ UNCHANGED <<running, busy, seen, settings, nextRun, name, archive, temp,
                   strays, previous, saved, shared, mishaps>>

DropBoth(h) ==
    /\ At(h, "dropBoth")
    /\ previous' = "absent"
    /\ GoTo(h, "install")
    /\ UNCHANGED <<running, busy, seen, settings, nextRun, name, archive, temp,
                   strays, current, aux>>

Install(h) ==
    /\ At(h, "install")
    /\ current' = temp[h]
    /\ temp' = [temp EXCEPT ![h] = "absent"]
    /\ saved' = (saved \/ temp[h] = "whole")
    /\ GoTo(h, "dropArchive")
    /\ UNCHANGED <<running, busy, seen, settings, nextRun, name, archive, strays,
                   previous, shared, unkept, mishaps>>

DropArchive(h) ==
    /\ At(h, "dropArchive")
    /\ Forgets(h, [archive EXCEPT ![name[h]] = NoFile(h)])
    /\ GoTo(h, "saveState")
    /\ busy' = NoOne
    /\ UNCHANGED <<running, seen, settings, nextRun, files, aux>>

\* A file operation throws; a copy may leave part of the file behind.
RotationFails(h) ==
    /\ pc[h] \in Rotating /\ mishaps < MaxMishaps
    /\ mishaps' = mishaps + 1
    /\ strays' = IF pc[h] = "copy" THEN strays \cup {"broken"}
                 ELSE (strays \cup {temp[h]}) \ {"absent"}
    /\ temp' = [temp EXCEPT ![h] = "absent"]
    /\ busy' = NoOne
    /\ GoTo(h, "saveError")
    /\ Forgets(h, archive)
    /\ UNCHANGED <<running, seen, settings, nextRun, current, previous,
                   saved, shared, unkept>>

\* nextRunAt: the interval after a success, 15 minutes after an error.
SaveState(h) ==
    /\ At(h, "saveState") \/ At(h, "saveError")
    /\ nextRun' = "later"
    /\ GoTo(h, "release")
    /\ UNCHANGED <<running, busy, seen, settings, name, archive, files, aux>>

\* Fault: the flag is cleared on the paths that saved a state only.
SaveFailsForGood(h) ==
    /\ pc[h] \in {"saveState", "saveError"} /\ busy = NoOne
    /\ Ends(h)
    /\ UNCHANGED <<running, busy, settings, nextRun, name, archive, files, aux>>

\* The upsert of the state fails: a run goes to its catch block, from there to
\* finally; the first write of a tick or of a status call ends the call.
SaveFails(h) ==
    /\ busy = NoOne
    /\ \/ pc[h] \in {"saveState", "manualSkip"} /\ GoTo(h, "saveError") /\ UNCHANGED seen
       \/ pc[h] = "saveError" /\ GoTo(h, "release") /\ UNCHANGED seen
       \/ pc[h] = "writeFirst" /\ Ends(h)
    /\ UNCHANGED <<running, busy, settings, nextRun, name, archive, files, aux>>

\* Fault: the call returns and leaves the flag to the next one.
ReturnWithoutRelease(h) ==
    /\ At(h, "release")
    /\ Ends(h)
    /\ UNCHANGED <<running, busy, settings, nextRun, name, archive, files, aux>>

\* finally: the flag is cleared, whoever else may be running.
Release(h) ==
    /\ At(h, "release")
    /\ running' = FALSE
    /\ Ends(h)
    /\ UNCHANGED <<busy, settings, nextRun, name, archive, files, aux>>

----------------------------------------------------------------------------
\* The process dies and is started again: memory is lost, files are not.
Crash ==
    /\ mishaps < MaxMishaps
    /\ mishaps' = IF busy = NoOne THEN mishaps ELSE mishaps + 1
    /\ running' = FALSE
    /\ pc' = [h \in Handlers |-> "idle"]
    /\ busy' = NoOne
    /\ strays' = (strays \cup {temp[h] : h \in Handlers}) \ {"absent"}
    /\ temp' = [h \in Handlers |-> "absent"]
    /\ archive' = [h \in Handlers |-> NoFile(h)]
    /\ name' = [h \in Handlers |-> h]
    /\ seen' = [h \in Handlers |-> NothingSeen]
    /\ UNCHANGED <<settings, nextRun, current, previous, saved, shared, unkept>>

TimePasses ==
    /\ nextRun = "later" /\ busy = NoOne
    /\ nextRun' = "due"
    /\ UNCHANGED <<running, pc, busy, seen, settings, name, archive, files, aux>>

\* An administrator changes the settings (SettingsService).
ChangeSettings ==
    /\ busy = NoOne
    /\ \E s \in Offered : enabled' = s.enabled /\ keepPrevious' = s.keep
    /\ UNCHANGED <<running, pc, busy, seen, nextRun, name, archive, files, aux>>

HandlerStep(h) ==
    \/ ReadSettings(h) \/ ReadState(h) \/ TickDecide(h) \/ StatusDecide(h) \/ WriteFirst(h)
    \/ ManualDecide(h) \/ ManualSkip(h)
    \/ ChooseName(h) \/ EncryptHeader(h) \/ EncryptEnd(h)
    \/ CopyToTemp(h) \/ DropPrevious(h) \/ PromoteCurrent(h) \/ DropCurrent(h)
    \/ DropBoth(h) \/ Install(h) \/ DropArchive(h)
    \/ SaveState(h) \/ Release(h)

Next ==
    \/ \E h \in Handlers :
         \/ TickBegin(h) \/ StatusBegin(h) \/ ManualBegin(h) \/ ExportBegin(h)
         \/ HandlerStep(h) \/ ExportFails(h) \/ RotationFails(h) \/ SaveFails(h)
         \/ ReadFails(h)
    \/ Crash \/ TimePasses \/ ChangeSettings

Spec == Init /\ [][Next]_vars

\* The event loop carries on every handler and the interval timer keeps
\* firing; administrators owe nothing.
FairSpec == /\ Spec
            /\ \A h \in Handlers : WF_vars(HandlerStep(h))
            /\ \A h \in Tickers : WF_vars(TickBegin(h))

----------------------------------------------------------------------------
TypeOK ==
    /\ running \in BOOLEAN
    /\ pc \in [Handlers -> {"idle"} \cup Reading \cup Deciding \cup Exporting
                                    \cup Rotating \cup Closing]
    /\ busy \in Handlers \cup {NoOne}
    /\ seen \in [Handlers -> [enabled : BOOLEAN, keep : BOOLEAN, next : NextRun]]
    /\ enabled \in BOOLEAN /\ keepPrevious \in BOOLEAN
    /\ nextRun \in NextRun
    /\ name \in [Handlers -> Handlers]
    /\ archive \in [Handlers -> [state : Content, by : Handlers]]
    /\ temp \in [Handlers -> Content]
    /\ strays \subseteq Content
    /\ current \in Content /\ previous \in Content
    /\ saved \in BOOLEAN /\ shared \in BOOLEAN /\ unkept \in BOOLEAN
    /\ mishaps \in 0..MaxMishaps

\* The handlers that hold (or believe they hold) the auto-backup.
InRun(h) == /\ h \in Tickers \cup Manuals
            /\ pc[h] \in Exporting \cup Rotating \cup Closing \cup Deciding

\* The flag is never left set: no error path of a run forgets to clear it,
\* so a failed run cannot switch automatic backups off for good.
FlagNeverStuck == running => \E h \in Handlers : InRun(h)

\* Once a restorable backup was installed, some restorable file is on disk at
\* every moment, between the steps of a rotation and after any crash.
SomeCopyRestorable ==
    saved /\ ~shared =>
        "whole" \in {current, previous} \cup strays \cup {temp[h] : h \in Handlers}

\* With keepPrevious, once a rotation is over, however it ended, one of the two
\* named files is restorable unless two rotations were cut short.
CurrentOrPreviousRestorable ==
    saved /\ ~shared /\ ~unkept /\ mishaps <= 1 /\ busy = NoOne =>
        "whole" \in {current, previous}

\* What a rotation owes at its every step, and what it owes when it is over.
CopiesRestorable == SomeCopyRestorable /\ CurrentOrPreviousRestorable

\* A due backup is taken up: its next date is set again, or backups are off,
\* provided the process stops dying, the settings stop changing and the
\* database answers the reads and takes the writes.
Calm == <>[][/\ ~Crash /\ ~ChangeSettings
             /\ \A h \in Handlers : SaveFails(h) \/ ReadFails(h) => HandlerStep(h)]_vars
DueBackupRuns == Calm => (nextRun = "due" /\ enabled ~> nextRun # "due" \/ ~enabled)

=============================================================================
