--------------------------- MODULE ClientsProofs ----------------------------
(***************************************************************************)
(* What the clients of the backend promise: the updater of the desktop     *)
(* application, the application of the telephone and the setup wizard, and *)
(* all of them together with the dashboard.                                *)
(***************************************************************************)
EXTENDS MCClients, BackupRestoreProofs, DashboardProofs, FiniteSetTheorems, WellFoundedInduction, TLAPS

----------------------------------------------------------------------------
(***************************************************************************)
(* An update does no harm: the engine is stopped for an installation only  *)
(* when there is a package to install, and no version runs on uncovered    *)
(* data of another one.  Neither is inductive: the first needs what the    *)
(* one status says of the package whoever wrote it last, the second what   *)
(* the record of the version says of the data at every stage of a start.   *)
(***************************************************************************)

USE UpdaterAssumption DEF Missing

\* A status that offers the installation of autoUpdater has its package.
StatusHonest ==
    app # "off" /\ status.state = "downloaded" /\ ~(status.manual /\ (status.file \/ status.url))
        => native

\* The record names the version the data is of, or the data is covered.
RecordFollows == torn \/ covered \/ dataVersion = Missing \/ stateFile = dataVersion

\* Past the comparison of the versions the data is of this version or covered,
\* and once this version is recorded the record stays until the end.
StageFollows ==
    /\ app = "covered" => torn \/ covered \/ dataVersion \in {Missing, version}
    /\ app \in {"recorded", "running", "stopped"} => torn \/ stateFile = version

UpdaterInv ==
    UpdaterTypeOK /\ StatusHonest /\ RecordFollows /\ StageFollows /\ UpdateSafe

LEMMA UpdaterInvInit == UpdaterInit => UpdaterInv
<1> SUFFICES ASSUME UpdaterInit PROVE UpdaterInv
  OBVIOUS
<1>1. status \in [state : States, manual : BOOLEAN, url : BOOLEAN, file : BOOLEAN]
  BY DEF UpdaterInit, Ready, States
<1>2. fallbacks \in 0 .. MaxFallbacks
  BY DEF UpdaterInit
<1>3. UpdaterTypeOK
  BY <1>1, <1>2 DEF UpdaterInit, UpdaterTypeOK
<1> QED BY <1>3 DEF UpdaterInit, UpdaterInv, StatusHonest, RecordFollows, StageFollows,
                    UpdateSafe, InstallHasPackage, UpgradeCovered

\* The steps of a start, and those that end the application or change its
\* version: the record and the data.
LEMMA StartKeeps ==
    ASSUME UpdaterInv, Launch \/ CoverUpgrade \/ RecordVersion \/ CoverFails \/ StartEngine
    PROVE  UpdaterInv'
<1> USE DEF UpdaterInv, UpdaterTypeOK, StatusHonest, RecordFollows, StageFollows,
            UpdateSafe, InstallHasPackage, UpgradeCovered, files, Ready, States
<1>1. CASE Launch
  BY <1>1 DEF Launch
<1>2. CASE CoverUpgrade
  <2>1. status' \in [state : States, manual : BOOLEAN, url : BOOLEAN, file : BOOLEAN]
    BY <1>2 DEF CoverUpgrade
  <2>4. UpdaterTypeOK'
    <3> HIDE DEF StatusHonest, RecordFollows, StageFollows, UpdateSafe, InstallHasPackage, UpgradeCovered
    <3> QED BY <1>2, <2>1 DEF CoverUpgrade
  <2>5. StatusHonest'
    BY <1>2 DEF CoverUpgrade
  <2>2. RecordFollows' /\ StageFollows'
    BY <1>2 DEF CoverUpgrade
  <2>3. UpdateSafe'
    BY <1>2 DEF CoverUpgrade
  <2> QED BY <2>2, <2>3, <2>4, <2>5
<1>3. CASE RecordVersion
  BY <1>3 DEF RecordVersion
<1>4. CASE CoverFails
  BY <1>4 DEF CoverFails
<1>5. CASE StartEngine
  <2>1. UpdaterTypeOK'
    <3> HIDE DEF StatusHonest, RecordFollows, StageFollows, UpdateSafe, InstallHasPackage, UpgradeCovered
    <3>1. dataVersion' \in Versions \cup {Missing}
      BY <1>5 DEF StartEngine
    <3>2. exposed' \in BOOLEAN /\ covered' \in BOOLEAN
      BY <1>5 DEF StartEngine
    <3>3. app' = "running" /\ UNCHANGED <<version, stateFile, status, native, checking, fallbacks, downloads, installer, torn>>
      BY <1>5 DEF StartEngine
    <3> QED BY <3>1, <3>2, <3>3
  <2>2. StatusHonest'
    BY <1>5 DEF StartEngine
  <2>3. RecordFollows' /\ StageFollows'
    BY <1>5 DEF StartEngine
  <2>4. UpdateSafe'
    BY <1>5 DEF StartEngine
  <2> QED BY <2>1, <2>2, <2>3, <2>4
<1> QED BY <1>1, <1>2, <1>3, <1>4, <1>5

LEMMA EndKeeps ==
    ASSUME UpdaterInv,
           Quits \/ \E v \in Versions : InstallByHand(v) \/ QuitAndInstall(v)
    PROVE  UpdaterInv'
<1> USE DEF UpdaterInv, UpdaterTypeOK, StatusHonest, RecordFollows, StageFollows,
            UpdateSafe, InstallHasPackage, UpgradeCovered, files
<1>1. CASE Quits
  <2>1. UpdaterTypeOK'
    <3>1. fallbacks' \in 0 .. MaxFallbacks
      BY <1>1 DEF Quits
    <3>2. stateFile' \in Versions \cup {Missing} /\ torn' \in BOOLEAN
      BY <1>1 DEF Quits
    <3> QED BY <1>1, <3>1, <3>2 DEF Quits
  <2>2. StatusHonest'
    BY <1>1 DEF Quits
  <2>3. RecordFollows' /\ StageFollows'
    BY <1>1 DEF Quits
  <2>4. UpdateSafe'
    BY <1>1 DEF Quits
  <2> QED BY <2>1, <2>2, <2>3, <2>4
<1>2. ASSUME NEW v \in Versions, InstallByHand(v) PROVE UpdaterInv'
  BY <1>2 DEF InstallByHand
<1>3. ASSUME NEW v \in Versions, QuitAndInstall(v) PROVE UpdaterInv'
  <2>1. fallbacks' \in 0 .. MaxFallbacks
    BY <1>3 DEF QuitAndInstall
  <2>2. UpdaterTypeOK'
    BY <1>3, <2>1 DEF QuitAndInstall
  <2>3. StatusHonest'
    BY <1>3 DEF QuitAndInstall
  <2>4. RecordFollows' /\ StageFollows'
    BY <1>3 DEF QuitAndInstall
  <2>5. UpdateSafe'
    BY <1>3 DEF QuitAndInstall
  <2> QED BY <2>2, <2>3, <2>4, <2>5
<1> QED BY <1>1, <1>2, <1>3

\* Checks: none of them can leave a status that offers what is not there.
LEMMA CheckKeeps ==
    ASSUME UpdaterInv,
           CheckForUpdates \/ CheckAnswered \/ MetadataMissing \/ FallbackAnswered
    PROVE  UpdaterInv'
<1> USE DEF UpdaterInv, UpdaterTypeOK, StatusHonest, RecordFollows, StageFollows,
            UpdateSafe, InstallHasPackage, UpgradeCovered, files, rest, Running, States
<1>1. CASE CheckForUpdates
  <2>1. UpdaterTypeOK'
    BY <1>1 DEF CheckForUpdates
  <2>2. StatusHonest'
    BY <1>1 DEF CheckForUpdates
  <2>3. RecordFollows' /\ StageFollows'
    BY <1>1 DEF CheckForUpdates
  <2>4. UpdateSafe'
    BY <1>1 DEF CheckForUpdates
  <2> QED BY <2>1, <2>2, <2>3, <2>4
<1>2. CASE CheckAnswered
  <2>1. fallbacks' \in 0 .. MaxFallbacks
    BY <1>2 DEF CheckAnswered
  <2>2. UpdaterTypeOK'
    BY <1>2, <2>1 DEF CheckAnswered
  <2>3. StatusHonest'
    <3>1. status'.state # "downloaded"
      BY <1>2 DEF CheckAnswered
    <3> QED BY <3>1
  <2>4. RecordFollows' /\ StageFollows'
    BY <1>2 DEF CheckAnswered
  <2>5. UpdateSafe'
    BY <1>2 DEF CheckAnswered
  <2> QED BY <2>2, <2>3, <2>4, <2>5
<1>3. CASE MetadataMissing
  <2>1. UpdaterTypeOK'
    <3>1. fallbacks' \in 0 .. MaxFallbacks
      BY <1>3 DEF MetadataMissing
    <3>2. checking' \in BOOLEAN /\ native' \in BOOLEAN /\ installer' \in BOOLEAN
      BY <1>3 DEF MetadataMissing
    <3>3. covered' \in BOOLEAN /\ torn' \in BOOLEAN /\ exposed' \in BOOLEAN
      BY <1>3 DEF MetadataMissing
    <3> QED BY <1>3, <3>1, <3>2, <3>3 DEF MetadataMissing
  <2>2. StatusHonest'
    BY <1>3 DEF MetadataMissing
  <2>3. RecordFollows' /\ StageFollows'
    BY <1>3 DEF MetadataMissing
  <2>4. UpdateSafe'
    BY <1>3 DEF MetadataMissing
  <2> QED BY <2>1, <2>2, <2>3, <2>4
<1>4. CASE FallbackAnswered
  <2>1. fallbacks' \in 0 .. MaxFallbacks /\ UNCHANGED <<rest, native, checking, downloads>>
    BY <1>4 DEF FallbackAnswered
  <2>2. /\ status' \in [state : States, manual : BOOLEAN, url : BOOLEAN, file : BOOLEAN]
        /\ status'.state # "downloaded"
    BY <1>4 DEF FallbackAnswered, NewerRelease, NoNewerRelease, GithubFails, Installers
  <2> QED BY <1>4, <2>1, <2>2 DEF FallbackAnswered
<1> QED BY <1>1, <1>2, <1>3, <1>4

\* Downloads and installations.
LEMMA DownloadKeeps ==
    ASSUME UpdaterInv,
           \/ DownloadManually \/ DownloadUpdatePackage \/ Progress
           \/ NativeDownloaded \/ NativeFails \/ ManualDownloaded \/ ManualFails
    PROVE  UpdaterInv'
<1> USE DEF UpdaterInv, UpdaterTypeOK, StatusHonest, RecordFollows, StageFollows,
            UpdateSafe, InstallHasPackage, UpgradeCovered, files, rest, Running, States
<1>1. CASE DownloadManually
  BY <1>1 DEF DownloadManually
<1>2. CASE DownloadUpdatePackage
  BY <1>2 DEF DownloadUpdatePackage
<1>3. CASE Progress
  BY <1>3 DEF Progress
<1>4. CASE NativeDownloaded
  BY <1>4 DEF NativeDownloaded
<1>5. CASE NativeFails
  <2>1. /\ fallbacks' \in 0 .. MaxFallbacks /\ downloads' \subseteq downloads
        /\ UNCHANGED <<rest, native, checking>>
    BY <1>5, UpdaterAssumption DEF NativeFails
  <2>2. /\ status' \in [state : States, manual : BOOLEAN, url : BOOLEAN, file : BOOLEAN]
        /\ status'.state = "error"
    BY <1>5 DEF NativeFails
  <2> QED BY <2>1, <2>2
<1>6. CASE ManualDownloaded
  BY <1>6 DEF ManualDownloaded
<1>7. CASE ManualFails
  BY <1>7 DEF ManualFails
<1> QED BY <1>1, <1>2, <1>3, <1>4, <1>5, <1>6, <1>7

LEMMA InstallKeeps ==
    ASSUME UpdaterInv, RunInstaller \/ InstallDownloadedUpdate \/ BackupNow
    PROVE  UpdaterInv'
<1> USE DEF UpdaterInv, UpdaterTypeOK, StatusHonest, RecordFollows, StageFollows,
            UpdateSafe, InstallHasPackage, UpgradeCovered, files, Running, States
<1>1. CASE RunInstaller
  BY <1>1 DEF RunInstaller
<1>2. CASE InstallDownloadedUpdate
  BY <1>2 DEF InstallDownloadedUpdate
<1>3. CASE BackupNow
  BY <1>3 DEF BackupNow
<1> QED BY <1>1, <1>2, <1>3

LEMMA UpdaterInvStep == UpdaterInv /\ [UpdaterNext]_updaterVars => UpdaterInv'
<1> SUFFICES ASSUME UpdaterInv, [UpdaterNext]_updaterVars PROVE UpdaterInv'
  OBVIOUS
<1>1. CASE UpdaterNext
  BY <1>1, StartKeeps, EndKeeps, CheckKeeps, DownloadKeeps, InstallKeeps DEF UpdaterNext
<1>2. CASE UNCHANGED updaterVars
  BY <1>2 DEF updaterVars, UpdaterInv, UpdaterTypeOK, StatusHonest, RecordFollows,
              StageFollows, UpdateSafe, InstallHasPackage, UpgradeCovered
<1> QED BY <1>1, <1>2

\* The type invariant of the updater, for every set of versions and every
\* number of requests to GitHub.
THEOREM UpdaterTyped == UpdaterSpec => []UpdaterTypeOK
<1>1. UpdaterInv => UpdaterTypeOK
  BY DEF UpdaterInv
<1> QED BY <1>1, UpdaterInvInit, UpdaterInvStep, PTL DEF UpdaterSpec

\* The engine is never stopped for an installation that cannot take place, and
\* another version never meets uncovered data while the record was kept.
THEOREM UpdateSafeCorrect == UpdaterSpec => []UpdateSafe
<1>1. UpdaterInv => UpdateSafe
  BY DEF UpdaterInv
<1> QED BY <1>1, UpdaterInvInit, UpdaterInvStep, PTL DEF UpdaterSpec

----------------------------------------------------------------------------
(***************************************************************************)
(* The iOS application keeps one session and makes one ticket of one sheet,*)
(* for every set of servers and any number of calls on their way.  Needed  *)
(* beside the property: a server is tried by one call at a time and from no*)
(* other; no login outlives the server that was left unnoticed; and a sheet*)
(* whose ticket was made is waited for by the one call that made it.       *)
(***************************************************************************)

HIDE UpdaterAssumption DEF Missing
USE PhoneAssumption

\* What every call on its way is made of.
TaskShape(t) ==
    /\ t = [flow |-> t.flow, at |-> t.at, server |-> t.server, token |-> t.token,
            here |-> t.here, n |-> t.n]
    /\ t.at \in {"test", "login"} => t.server # "none"
    /\ t.at = "post" => t.flow = "create"
    /\ t.at \in {"test", "me"} => t.flow = "connect"
    /\ t.at = "login" => t.flow = "login"

Root == HasRoot(screen, signedIn)

\* The call of the sheet that is open.
OfSheet(t) == t.flow = "create" /\ t.here

TasksShaped == \A t \in tasks : TaskShape(t)

\* A server is tried by one call, and by none while another server is kept.
TestAlone ==
    \A t \in tasks : t.at = "test" =>
        /\ screen.kind = "connecting" /\ base = "none" /\ parted = "no"
        /\ \A u \in tasks : u.at = "test" => u = t

LoginsGone == parted = "left" => \A t \in tasks : t.at # "login"

\* A sheet is sent by one call, on the screen of the signed in application.
OneSave ==
    /\ \A t, u \in tasks : OfSheet(t) /\ OfSheet(u) => t = u
    /\ \A t \in tasks : OfSheet(t) => Root

\* A sheet whose ticket was made, and who made it asks for the list.
SheetWaits ==
    /\ sheet \in [open : BOOLEAN, made : Nat, failed : BOOLEAN]
    /\ sheet.made >= 1 => Root
    /\ sheet.made >= 1 /\ ~sheet.failed => \E t \in tasks : OfSheet(t) /\ t.at = "list"

PhoneInv ==
    /\ TasksShaped /\ TestAlone /\ LoginsGone /\ OneSave /\ SheetWaits
    /\ OneSessionOneTicket

----------------------------------------------------------------------------
LEMMA PhoneInvInit == PhoneInit => PhoneInv
BY DEF PhoneInit, PhoneInv, TasksShaped, TestAlone, LoginsGone, OneSave, SheetWaits,
       OneSessionOneTicket, NoServer, Shows, NoSheet

\* The calls that are kept over a change of the screen.
LEMMA KeptTasks ==
    ASSUME NEW T, \A t \in T : TaskShape(t)
    PROVE  \A u \in TasksKept(T) : \E t \in T :
             /\ TaskShape(u)
             /\ u = [t EXCEPT !.here = t.here /\ OfScreen(t)]
             /\ u.at = t.at /\ u.flow = t.flow /\ u.server = t.server
             /\ OfSheet(u) => OfSheet(t) /\ Root /\ Root'
<1> TAKE u \in TasksKept(T)
<1>1. PICK t \in T : u = [t EXCEPT !.here = t.here /\ OfScreen(t)]
  BY DEF TasksKept
<1>2. TaskShape(t)
  OBVIOUS
<1>3. u = [flow |-> t.flow, at |-> t.at, server |-> t.server, token |-> t.token,
           here |-> t.here /\ OfScreen(t), n |-> t.n]
  BY <1>1, <1>2 DEF TaskShape
<1>4. u.at = t.at /\ u.flow = t.flow /\ u.server = t.server /\ (u.here <=> t.here /\ OfScreen(t))
  BY <1>3
<1>5. TaskShape(u)
  BY <1>2, <1>3, <1>4 DEF TaskShape
<1>6. OfSheet(u) => OfSheet(t) /\ Root /\ Root'
  BY <1>4 DEF OfSheet, OfScreen, Root
<1> QED BY <1>1, <1>4, <1>5, <1>6

\* Calls that are kept over a change of the screen are those there were, and
\* calls which are not the sheet's.
LEMMA KeptFacts ==
    ASSUME PhoneInv, NEW T, tasks' = TasksKept(T), \A t \in T : TaskShape(t),
           \A t \in T : OfSheet(t) \/ t.at \in {"test", "login"} => t \in tasks
    PROVE  /\ TasksShaped' /\ OneSave'
           /\ \A u \in tasks' : u.at \in {"test", "login"} => \E t \in T \cap tasks : t.at = u.at
           /\ \A u, v \in tasks' : u.at = "test" /\ v.at = "test" => u = v
<1> DEFINE Kept(u, t) == u = [t EXCEPT !.here = t.here /\ OfScreen(t)]
<1>1. \A u \in tasks' : \E t \in T :
        /\ TaskShape(u) /\ Kept(u, t) /\ u.at = t.at /\ u.flow = t.flow
        /\ OfSheet(u) => OfSheet(t) /\ Root /\ Root'
  BY KeptTasks
<1> HIDE DEF Kept
<1>2. TasksShaped'
  BY <1>1 DEF TasksShaped, TaskShape
<1>3. \A u \in tasks' : OfSheet(u) => Root'
  BY <1>1
<1>4. ASSUME NEW u \in tasks', NEW v \in tasks', OfSheet(u), OfSheet(v)
      PROVE  u = v
  <2>1. PICK t \in T : Kept(u, t) /\ OfSheet(t)
    BY <1>1, <1>4
  <2>2. PICK w \in T : Kept(v, w) /\ OfSheet(w)
    BY <1>1, <1>4
  <2>3. t = w
    BY <2>1, <2>2 DEF PhoneInv, OneSave
  <2> QED BY <2>1, <2>2, <2>3 DEF Kept
<1>5. OneSave'
  BY <1>3, <1>4 DEF OneSave, OfSheet
<1>6. ASSUME NEW u \in tasks', u.at \in {"test", "login"}
      PROVE  \E t \in T \cap tasks : t.at = u.at
  BY <1>1, <1>6
<1>7. ASSUME NEW u \in tasks', NEW v \in tasks', u.at = "test", v.at = "test"
      PROVE  u = v
  <2>1. PICK t \in T : Kept(u, t) /\ t.at = "test"
    BY <1>1, <1>7
  <2>2. PICK w \in T : Kept(v, w) /\ w.at = "test"
    BY <1>1, <1>7
  <2>3. t = w
    BY <2>1, <2>2 DEF PhoneInv, TestAlone
  <2> QED BY <2>1, <2>2, <2>3 DEF Kept
<1> QED BY <1>2, <1>5, <1>6, <1>7

\* Who has no token, or no screen, is not waited for by a sheet.
LEMMA KeptSheet ==
    ASSUME PhoneInv, NEW T, tasks' = TasksKept(T), \A t \in T : TaskShape(t),
           \A t \in tasks : OfSheet(t) /\ t.at = "list" /\ Root /\ Root' => t \in T,
           sheet' = SheetKept(sheet) \/ (UNCHANGED sheet /\ (Root => Root'))
    PROVE  /\ SheetWaits' /\ (sheet'.made > 1 => sheet'.failed)
<1>1. sheet \in [open : BOOLEAN, made : Nat, failed : BOOLEAN]
  BY DEF PhoneInv, SheetWaits
<1>2. NoSheet \in [open : BOOLEAN, made : Nat, failed : BOOLEAN] /\ NoSheet.made = 0
  BY DEF NoSheet
<1>3. sheet' = NoSheet \/ (sheet' = sheet /\ (sheet.made >= 1 => Root /\ Root'))
  BY DEF SheetKept, Root, PhoneInv, SheetWaits
<1>4. CASE sheet' = NoSheet
  BY <1>2, <1>4 DEF SheetWaits
<1>5. CASE sheet' = sheet /\ (sheet.made >= 1 => Root /\ Root')
  <2>1. ASSUME sheet.made >= 1, ~sheet.failed
        PROVE  \E u \in tasks' : OfSheet(u) /\ u.at = "list"
    <3>1. PICK t \in tasks : OfSheet(t) /\ t.at = "list"
      BY <2>1 DEF PhoneInv, SheetWaits
    <3>2. t \in T /\ Root /\ Root' /\ TaskShape(t)
      BY <1>5, <2>1, <3>1
    <3>3. OfScreen(t)
      BY <3>1, <3>2 DEF OfScreen, OfSheet, Root
    <3> DEFINE u == [t EXCEPT !.here = t.here /\ OfScreen(t)]
    <3>4. u \in tasks'
      BY <3>2 DEF TasksKept
    <3>5. u.at = t.at /\ u.flow = t.flow /\ (u.here <=> t.here /\ OfScreen(t))
      BY <3>2 DEF TaskShape
    <3> QED BY <3>1, <3>3, <3>4, <3>5 DEF OfSheet
  <2>2. sheet.made > 1 => sheet.failed
    BY DEF PhoneInv, OneSessionOneTicket
  <2> QED BY <1>1, <1>5, <2>1, <2>2 DEF SheetWaits, OfSheet
<1> QED BY <1>3, <1>4, <1>5

LEMMA WentOn ==
    ASSUME NEW t, TaskShape(t), NEW at \in {"me", "list", "get"}, NEW s, NEW k,
           at = "me" => t.flow = "connect"
    PROVE  /\ TaskShape(GoesOn(t, at, s, k))
           /\ GoesOn(t, at, s, k).at = at
           /\ OfSheet(GoesOn(t, at, s, k)) <=> OfSheet(t)
<1>1. GoesOn(t, at, s, k) = [flow |-> t.flow, at |-> at, server |-> s, token |-> k,
                             here |-> t.here, n |-> t.n]
  <2> DEFINE R(f, a, b, c, h, n) == [flow |-> f, at |-> a, server |-> b, token |-> c,
                                     here |-> h, n |-> n]
  <2>1. \A f, a, b, c, h, n : GoesOn(R(f, a, b, c, h, n), at, s, k) = R(f, at, s, k, h, n)
    <3> TAKE f, a, b, c, h, n
    <3>1. [R(f, a, b, c, h, n) EXCEPT !.at = at] = R(f, at, b, c, h, n)
      OBVIOUS
    <3>2. [R(f, at, b, c, h, n) EXCEPT !.server = s] = R(f, at, s, c, h, n)
      OBVIOUS
    <3>3. [R(f, at, s, c, h, n) EXCEPT !.token = k] = R(f, at, s, k, h, n)
      OBVIOUS
    <3> HIDE DEF R
    <3> QED BY <3>1, <3>2, <3>3 DEF GoesOn
  <2> DEFINE r == R(t.flow, t.at, t.server, t.token, t.here, t.n)
  <2>2. t = r
    BY DEF TaskShape
  <2>3. GoesOn(r, at, s, k) = R(t.flow, at, s, k, t.here, t.n)
    BY <2>1
  <2> HIDE DEF r
  <2> QED BY <2>2, <2>3
<1> QED BY <1>1 DEF TaskShape, OfSheet

----------------------------------------------------------------------------
(* The server and the session *)

\* The server that answered is the address from now on.
LEMMA TestedKeeps ==
    ASSUME PhoneInv, NEW t \in tasks, Tested(t)
    PROVE  PhoneInv'
<1> DEFINE G == GoesOn(t, "me", t.server, token)
           T == (tasks \ {t}) \union IF signedIn THEN {G} ELSE {}
<1>1. TaskShape(t) /\ t.flow = "connect" /\ t.at = "test" /\ t.server # "none"
  BY DEF PhoneInv, TasksShaped, TaskShape, Tested
<1>2. TaskShape(G) /\ G.at = "me" /\ ~OfSheet(G)
  BY <1>1, WentOn DEF OfSheet
<1>3. ~Root /\ parted = "no" /\ screen.kind = "connecting"
  BY <1>1 DEF PhoneInv, TestAlone, Root, HasRoot
<1>4. tasks' = TasksKept(T) /\ \A u \in T : TaskShape(u)
  BY <1>2 DEF Tested, PhoneInv, TasksShaped
<1>5. \A u \in T : OfSheet(u) \/ u.at \in {"test", "login"} => u \in tasks /\ u.at # "test"
  BY <1>1, <1>2 DEF PhoneInv, TestAlone
<1>6. UNCHANGED <<sheet, token, signedIn, parted>> /\ base' = t.server
      /\ screen' = Shows("connected", t.server)
  BY DEF Tested
<1> HIDE DEF T, G
<1>7. /\ TasksShaped' /\ OneSave'
      /\ \A u \in tasks' : u.at \in {"test", "login"} => \E v \in T \cap tasks : v.at = u.at
  BY <1>4, <1>5, KeptFacts
<1>8. SheetWaits' /\ (sheet'.made > 1 => sheet'.failed)
  BY <1>3, <1>4, <1>6, KeptSheet
<1>9. TestAlone' /\ LoginsGone'
  BY <1>3, <1>5, <1>6, <1>7 DEF TestAlone, LoginsGone
<1>10. OneSessionOneTicket'
  BY <1>1, <1>3, <1>6, <1>8 DEF PhoneInv, OneSessionOneTicket, Shows
<1> QED BY <1>7, <1>8, <1>9, <1>10 DEF PhoneInv

LEMMA DisconnectKeeps == PhoneInv /\ Disconnect => PhoneInv'
<1> SUFFICES ASSUME PhoneInv, Disconnect PROVE PhoneInv'
  OBVIOUS
<1>1. tasks' = TasksKept(tasks) /\ sheet' = SheetKept(sheet) /\ \A u \in tasks : TaskShape(u)
  BY DEF Disconnect, PhoneInv, TasksShaped
<1>2. \A u \in tasks : u.at # "test"
  BY DEF Disconnect, PhoneInv, TestAlone
<1>3. /\ TasksShaped' /\ OneSave'
      /\ \A u \in tasks' : u.at \in {"test", "login"} => \E v \in tasks \cap tasks : v.at = u.at
  BY <1>1, KeptFacts
<1>4. SheetWaits' /\ (sheet'.made > 1 => sheet'.failed)
  BY <1>1, KeptSheet
<1>5. TestAlone' /\ LoginsGone'
  BY <1>2, <1>3 DEF TestAlone, LoginsGone, Disconnect
<1>6. OneSessionOneTicket'
  BY <1>4 DEF Disconnect, OneSessionOneTicket, NoServer, Shows
<1> QED BY <1>3, <1>4, <1>5, <1>6 DEF PhoneInv

\* A step that keeps the screen and the address, and has a session just when it
\* has a token.
LEMMA SessionKeeps ==
    ASSUME PhoneInv, NEW T, tasks' = TasksKept(T), \A t \in T : TaskShape(t),
           \A t \in T : OfSheet(t) \/ t.at \in {"test", "login"} => t \in tasks,
           \A t \in tasks : OfSheet(t) => t \in T,
           UNCHANGED <<screen, base, parted>>,
           sheet' = SheetKept(sheet) \/ (UNCHANGED sheet /\ (signedIn => signedIn')),
           signedIn' <=> token' # "none", parted = "left" => token' = "none"
    PROVE  PhoneInv'
<1>1. /\ TasksShaped' /\ OneSave'
      /\ \A u \in tasks' : u.at \in {"test", "login"} => \E v \in T \cap tasks : v.at = u.at
      /\ \A u, v \in tasks' : u.at = "test" /\ v.at = "test" => u = v
  BY KeptFacts
<1>2. SheetWaits' /\ (sheet'.made > 1 => sheet'.failed)
  <2>1. sheet' = SheetKept(sheet) \/ (UNCHANGED sheet /\ (Root => Root'))
    BY DEF Root, HasRoot
  <2> QED BY <2>1, KeptSheet
<1>3. TestAlone' /\ LoginsGone'
  BY <1>1 DEF PhoneInv, TestAlone, LoginsGone
<1>4. OneSessionOneTicket'
  BY <1>2 DEF PhoneInv, OneSessionOneTicket, Shows
<1> QED BY <1>1, <1>2, <1>3, <1>4 DEF PhoneInv

\* A call that is not the sheet's ends, or asks for the list.
LEMMA OneEnds ==
    ASSUME PhoneInv, NEW t \in tasks, t.flow \in {"login", "connect"}, NEW s, NEW k,
           NEW X, X \subseteq {GoesOn(t, "list", s, k)}
    PROVE  LET T == (tasks \ {t}) \union X
           IN  /\ \A u \in T : TaskShape(u)
               /\ \A u \in T : OfSheet(u) \/ u.at \in {"test", "login"} => u \in tasks
               /\ \A u \in tasks : OfSheet(u) => u \in T
<1>1. TaskShape(t) /\ \A u \in tasks : TaskShape(u)
  BY DEF PhoneInv, TasksShaped
<1>2. \A g \in X : TaskShape(g) /\ g.at = "list" /\ ~OfSheet(g)
  BY <1>1, WentOn DEF OfSheet
<1> QED BY <1>1, <1>2 DEF OfSheet

\* Logins, and what ends a session or confirms it.
LEMMA SessionSteps ==
    ASSUME PhoneInv,
           \/ LogOut
           \/ \E t \in tasks : LoggedIn(t) \/ FetchedCurrentUser(t) \/ SessionRefused(t)
    PROVE  PhoneInv'
<1>1. \A t \in tasks : TaskShape(t)
  BY DEF PhoneInv, TasksShaped
<1>2. CASE LogOut
  BY <1>1, <1>2, SessionKeeps DEF LogOut
<1>3. ASSUME NEW t \in tasks, LoggedIn(t) PROVE PhoneInv'
  <2>1. t.flow = "login" /\ t.server # "none" /\ parted # "left"
    BY <1>1, <1>3 DEF LoggedIn, TaskShape, PhoneInv, LoginsGone
  <2> DEFINE X == IF CanAsk("list", base, t.server)
                    THEN {GoesOn(t, "list", base, t.server)} ELSE {}
             T == (tasks \ {t}) \union X
  <2>2. X \subseteq {GoesOn(t, "list", base, t.server)} /\ tasks' = TasksKept(T)
    BY <1>3 DEF LoggedIn
  <2> HIDE DEF X
  <2>3. /\ \A u \in T : TaskShape(u)
        /\ \A u \in T : OfSheet(u) \/ u.at \in {"test", "login"} => u \in tasks
        /\ \A u \in tasks : OfSheet(u) => u \in T
    BY <2>1, <2>2, OneEnds
  <2> HIDE DEF T
  <2> QED BY <1>3, <2>1, <2>2, <2>3, SessionKeeps DEF LoggedIn
<1>4. ASSUME NEW t \in tasks, FetchedCurrentUser(t) PROVE PhoneInv'
  <2>1. t.flow = "connect"
    BY <1>1, <1>4 DEF FetchedCurrentUser, TaskShape
  <2> DEFINE X == IF CanAsk("list", base, token) THEN {GoesOn(t, "list", base, token)} ELSE {}
             T == (tasks \ {t}) \union X
  <2>2. X \subseteq {GoesOn(t, "list", base, token)} /\ tasks' = TasksKept(T)
    BY <1>4 DEF FetchedCurrentUser
  <2> HIDE DEF X
  <2>3. /\ \A u \in T : TaskShape(u)
        /\ \A u \in T : OfSheet(u) \/ u.at \in {"test", "login"} => u \in tasks
        /\ \A u \in tasks : OfSheet(u) => u \in T
    BY <2>1, <2>2, OneEnds
  <2> HIDE DEF T
  <2>4. /\ (signedIn' <=> token' # "none") /\ (parted = "left" => token' = "none")
        /\ UNCHANGED <<screen, base, parted>>
        /\ sheet' = SheetKept(sheet) \/ (UNCHANGED sheet /\ (signedIn => signedIn'))
    BY <1>4 DEF FetchedCurrentUser, CanAsk, PhoneInv, OneSessionOneTicket
  <2> QED BY <2>2, <2>3, <2>4, SessionKeeps
<1>5. ASSUME NEW t \in tasks, SessionRefused(t) PROVE PhoneInv'
  <2> DEFINE T == (tasks \ {t}) \union {}
  <2>1. t.flow = "connect" /\ tasks' = TasksKept(T)
    BY <1>5 DEF SessionRefused
  <2>2. /\ \A u \in T : TaskShape(u)
        /\ \A u \in T : OfSheet(u) \/ u.at \in {"test", "login"} => u \in tasks
        /\ \A u \in tasks : OfSheet(u) => u \in T
    BY <2>1, OneEnds
  <2> HIDE DEF T
  <2> QED BY <1>5, <2>1, <2>2, SessionKeeps DEF SessionRefused
<1> QED BY <1>2, <1>3, <1>4, <1>5

----------------------------------------------------------------------------
(* Pairing, and starts of the application *)

LEMMA PairingSteps ==
    ASSUME PhoneInv,
           \/ \E s \in Servers, c \in BOOLEAN : Connect(s, c)
           \/ ScanGarbage \/ Restart \/ \E t \in tasks : TestFails(t)
    PROVE  PhoneInv'
<1>1. ASSUME NEW s \in Servers, NEW c \in BOOLEAN, Connect(s, c) PROVE PhoneInv'
  <2>1. /\ screen.kind \in {"disconnected", "error"} /\ ~Root /\ base = "none"
        /\ \A t \in tasks : t.at # "test"
    BY <1>1 DEF Connect, Root, HasRoot, PhoneInv, OneSessionOneTicket, TestAlone, Shows
  <2> DEFINE a == Ask("connect", "test", s, "none")
  <2>2. TaskShape(a) /\ a.at = "test" /\ ~OfSheet(a)
    BY DEF Ask, TaskShape, OfSheet
  <2>3. /\ tasks' = tasks \union {a} /\ UNCHANGED <<base, sheet>>
        /\ screen' = Shows("connecting", s) /\ parted' = "no"
        /\ screen'.kind = "connecting" /\ base' = "none"
    BY <1>1, <2>1 DEF Connect, Shows
  <2> HIDE DEF a
  <2>4. TasksShaped' /\ LoginsGone'
    BY <2>2, <2>3 DEF PhoneInv, TasksShaped, LoginsGone, TaskShape
  <2>5. TestAlone'
    BY <2>1, <2>2, <2>3 DEF PhoneInv, TestAlone
  <2>6. OneSave' /\ SheetWaits'
    BY <2>1, <2>2, <2>3 DEF PhoneInv, OneSave, SheetWaits, OfSheet
  <2>7. signedIn' <=> token' # "none"
    BY <1>1 DEF Connect, PhoneInv, OneSessionOneTicket
  <2>8. OneSessionOneTicket'
    BY <2>3, <2>7 DEF PhoneInv, OneSessionOneTicket
  <2> QED BY <2>4, <2>5, <2>6, <2>8 DEF PhoneInv
<1>2. CASE ScanGarbage
  <2>1. /\ screen.kind \in {"disconnected", "error"} /\ ~Root /\ base = "none"
        /\ \A t \in tasks : t.at # "test"
    BY <1>2 DEF ScanGarbage, Root, HasRoot, PhoneInv, OneSessionOneTicket, TestAlone, Shows
  <2>2. screen'.kind # "connected" /\ UNCHANGED <<base, token, signedIn, tasks, sheet, parted>>
    BY <1>2 DEF ScanGarbage, Failed, Shows
  <2> QED BY <2>1, <2>2 DEF PhoneInv, TasksShaped, TestAlone, LoginsGone, OneSave, SheetWaits,
                            OneSessionOneTicket, OfSheet, TaskShape
<1>3. CASE Restart
  <2>1. IF base' = "none" THEN screen'.kind # "connected" ELSE screen' = Shows("connected", base')
    BY <1>3 DEF Restart, NoServer, Shows
  <2>2. /\ tasks' = {} /\ sheet' = NoSheet /\ UNCHANGED <<base, token, parted>>
        /\ (signedIn' <=> token' # "none")
    BY <1>3 DEF Restart
  <2> QED BY <2>1, <2>2 DEF PhoneInv, TasksShaped, TestAlone, LoginsGone, OneSave, SheetWaits,
                            OneSessionOneTicket, NoSheet
<1>4. ASSUME NEW t \in tasks, TestFails(t) PROVE PhoneInv'
  <2>1. screen.kind = "connecting" /\ ~Root /\ base = "none" /\ parted = "no"
    BY <1>4 DEF TestFails, Root, HasRoot, PhoneInv, TestAlone
  <2>2. \A u \in tasks' : u \in tasks /\ u.at # "test"
    BY <1>4 DEF TestFails, PhoneInv, TestAlone
  <2>3. screen'.kind # "connected" /\ UNCHANGED <<base, token, signedIn, sheet, parted>>
    BY <1>4 DEF TestFails, Failed, Shows
  <2> QED BY <2>1, <2>2, <2>3 DEF PhoneInv, TasksShaped, TestAlone, LoginsGone, OneSave, SheetWaits,
                                  OneSessionOneTicket, OfSheet, TaskShape
<1> QED BY <1>1, <1>2, <1>3, <1>4

----------------------------------------------------------------------------
(* The tickets, and the calls that do not touch the session *)

Steady == UNCHANGED <<screen, base, token, signedIn, parted>>

LEMMA SteadyKeeps ==
    ASSUME PhoneInv, Steady, OneSave', SheetWaits', sheet'.made > 1 => sheet'.failed,
           \A u \in tasks' : TaskShape(u) /\ (u \in tasks \/ u.at \notin {"test", "login"}
                                                        \/ (u.at = "login" /\ parted # "left"))
    PROVE  PhoneInv'
<1>1. TasksShaped' /\ TestAlone' /\ LoginsGone'
  BY DEF Steady, PhoneInv, TasksShaped, TestAlone, LoginsGone, TaskShape
<1>2. OneSessionOneTicket'
  BY DEF Steady, PhoneInv, OneSessionOneTicket, Shows
<1> QED BY <1>1, <1>2 DEF PhoneInv

LEMMA Asked ==
    ASSUME NEW fl, NEW at, NEW k, at \in {"test", "login"} => base # "none",
           at = "post" => fl = "create", at \in {"test", "me"} => fl = "connect",
           at = "login" => fl = "login", NEW a, a = Ask(fl, at, base, k)
    PROVE  TaskShape(a) /\ a.at = at /\ (OfSheet(a) <=> fl = "create")
<1>1. a.flow = fl /\ a.at = at /\ a.server = base /\ a.here = TRUE
  BY DEF Ask
<1>2. a = [flow |-> a.flow, at |-> a.at, server |-> a.server, token |-> a.token,
           here |-> a.here, n |-> a.n]
  BY DEF Ask
<1> QED BY <1>1, <1>2 DEF TaskShape, OfSheet

\* A call that begins.
LEMMA AskKeeps ==
    ASSUME PhoneInv, Steady, UNCHANGED sheet, NEW a, tasks' = tasks \union {a}, TaskShape(a),
           a.at # "test", a.at = "login" => parted # "left",
           OfSheet(a) => Root /\ \A t \in tasks : ~OfSheet(t)
    PROVE  PhoneInv'
<1>1. Root' <=> Root
  BY DEF Steady, Root, HasRoot
<1>2. OneSave'
  BY <1>1 DEF PhoneInv, OneSave, OfSheet
<1>3. SheetWaits' /\ (sheet'.made > 1 => sheet'.failed)
  BY <1>1 DEF PhoneInv, SheetWaits, OneSessionOneTicket, OfSheet
<1>4. \A u \in tasks' : TaskShape(u) /\ (u \in tasks \/ u.at \notin {"test", "login"}
                                                   \/ (u.at = "login" /\ parted # "left"))
  BY DEF PhoneInv, TasksShaped
<1> QED BY <1>2, <1>3, <1>4, SteadyKeeps

LEMMA AsksKeep ==
    ASSUME PhoneInv,
           LogIn \/ Refresh \/ ApplyFilters \/ OpenDetail \/ SaveStatus \/ SaveTicket
    PROVE  PhoneInv'
<1>1. CASE LogIn
  <2> DEFINE a == Ask("login", "login", base, "none")
  <2>1. tasks' = tasks \union {a} /\ base # "none" /\ Steady /\ UNCHANGED sheet
    BY <1>1 DEF LogIn, Steady
  <2>2. parted # "left"
    BY <2>1 DEF PhoneInv, OneSessionOneTicket
  <2>3. TaskShape(a) /\ ~OfSheet(a) /\ a.at = "login"
    BY <2>1, Asked
  <2> HIDE DEF a
  <2> QED BY <2>1, <2>2, <2>3, AskKeeps
<1>2. ASSUME NEW fl \in {"refresh", "filters", "detail", "status"},
             NEW at \in {"list", "get", "patch"}, Start(fl, at), Steady, UNCHANGED sheet
      PROVE  PhoneInv'
  <2> DEFINE a == Ask(fl, at, base, token)
  <2>1. tasks' = tasks \union {a}
    BY <1>2 DEF Start
  <2>2. TaskShape(a) /\ ~OfSheet(a) /\ a.at = at
    BY Asked
  <2> HIDE DEF a
  <2> QED BY <1>2, <2>1, <2>2, AskKeeps
<1>3. CASE SaveTicket
  <2> DEFINE a == Ask("create", "post", base, token)
  <2>1. /\ tasks' = tasks \union {a} /\ Steady /\ UNCHANGED sheet
        /\ Root /\ \A t \in tasks : ~OfSheet(t)
    BY <1>3 DEF SaveTicket, Start, Steady, Root, MaySave, Busy, OfSheet
  <2>2. TaskShape(a) /\ a.at = "post"
    BY Asked
  <2> HIDE DEF a
  <2> QED BY <2>1, <2>2, AskKeeps
<1>4. CASE Refresh
  BY <1>2, <1>4 DEF Refresh, Steady
<1>5. CASE ApplyFilters
  BY <1>2, <1>5 DEF ApplyFilters, Steady
<1>6. CASE OpenDetail
  BY <1>2, <1>6 DEF OpenDetail, Steady
<1>7. CASE SaveStatus
  BY <1>2, <1>7 DEF SaveStatus, Steady
<1> QED BY <1>1, <1>3, <1>4, <1>5, <1>6, <1>7

\* A call that ends, or goes on in its own place.
LEMMA AnswerKeeps ==
    ASSUME PhoneInv, Steady, NEW t \in tasks, NEW X, tasks' = (tasks \ {t}) \union X,
           NEW at \in {"list", "get"}, X \subseteq {GoesOn(t, at, base, token)},
           SheetWaits', sheet'.made > 1 => sheet'.failed
    PROVE  PhoneInv'
<1>1. \A u \in tasks : TaskShape(u)
  BY DEF PhoneInv, TasksShaped
<1>2. \A g \in X : TaskShape(g) /\ g.at = at /\ (OfSheet(g) <=> OfSheet(t))
  BY <1>1, WentOn
<1>3. Root' <=> Root
  BY DEF Steady, Root, HasRoot
<1>4. \A g, u \in X : g = u
  OBVIOUS
<1>5. OneSave'
  BY <1>2, <1>3, <1>4 DEF PhoneInv, OneSave, OfSheet
<1>6. \A u \in tasks' : TaskShape(u) /\ (u \in tasks \/ u.at \notin {"test", "login"})
  BY <1>1, <1>2
<1> QED BY <1>5, <1>6, SteadyKeeps

\* A call that ends.
LEMMA EndedCallKeeps ==
    ASSUME PhoneInv, Steady, NEW t \in tasks, tasks' = tasks \ {t},
           SheetWaits', sheet'.made > 1 => sheet'.failed
    PROVE  PhoneInv'
<1> DEFINE X == {}
<1>1. tasks' = (tasks \ {t}) \union X /\ X \subseteq {GoesOn(t, "list", base, token)}
  OBVIOUS
<1> HIDE DEF X
<1> QED BY <1>1, AnswerKeeps

LEMMA MarkedFailed ==
    ASSUME NEW o, NEW m, NEW f, NEW s, s = [open |-> o, made |-> m, failed |-> f]
    PROVE  [s EXCEPT !.failed = TRUE] = [open |-> o, made |-> m, failed |-> TRUE]
<1>1. ASSUME NEW v
      PROVE  [[open |-> o, made |-> m, failed |-> f] EXCEPT !.failed = v]
                 = [open |-> o, made |-> m, failed |-> v]
  OBVIOUS
<1>2. [[open |-> o, made |-> m, failed |-> f] EXCEPT !.failed = TRUE]
          = [open |-> o, made |-> m, failed |-> TRUE]
  BY <1>1
<1> QED BY <1>2

LEMMA AnswersKeep ==
    ASSUME PhoneInv, NEW t \in tasks,
           \/ FetchedTickets(t) \/ TicketCreated(t) \/ StatusUpdated(t)
           \/ FetchedTicketDetail(t) \/ TicketFails(t) \/ OtherFails(t)
    PROVE  PhoneInv'
<1>1. TaskShape(t)
  BY DEF PhoneInv, TasksShaped
<1>2. Steady
  BY DEF Steady, FetchedTickets, TicketCreated, StatusUpdated, FetchedTicketDetail, TicketFails,
         OtherFails
<1>3. Root' <=> Root
  BY <1>2 DEF Steady, Root, HasRoot
<1>4. sheet \in [open : BOOLEAN, made : Nat, failed : BOOLEAN]
  BY DEF PhoneInv, SheetWaits
<1>5. sheet.made > 1 => sheet.failed
  BY DEF PhoneInv, OneSessionOneTicket
\* The sheet stays, and so does who it waits for.
<1>6. ASSUME UNCHANGED sheet, ~(OfSheet(t) /\ t.at = "list"), tasks \ {t} \subseteq tasks'
      PROVE  SheetWaits' /\ (sheet'.made > 1 => sheet'.failed)
  BY <1>3, <1>4, <1>5, <1>6 DEF PhoneInv, SheetWaits
<1>7. CASE FetchedTickets(t)
  <2> DEFINE X == IF t.flow = "status" /\ CanAsk("get", base, token)
                    THEN {GoesOn(t, "get", base, token)} ELSE {}
  <2>1. X \subseteq {GoesOn(t, "get", base, token)} /\ tasks' = (tasks \ {t}) \union X
    BY <1>7 DEF FetchedTickets
  <2>2. SheetWaits' /\ (sheet'.made > 1 => sheet'.failed)
    <3>1. CASE OfSheet(t)
      BY <1>7, <3>1 DEF FetchedTickets, OfSheet, SheetWaits, NoSheet
    <3>2. CASE ~OfSheet(t)
      BY <1>6, <1>7, <2>1, <3>2 DEF FetchedTickets, OfSheet
    <3> QED BY <3>1, <3>2
  <2> HIDE DEF X
  <2> QED BY <1>2, <2>1, <2>2, AnswerKeeps
<1>8. CASE StatusUpdated(t)
  <2> DEFINE X == IF CanAsk("list", base, token)
                    THEN {GoesOn(t, "list", base, token)} ELSE {}
  <2>1. X \subseteq {GoesOn(t, "list", base, token)} /\ tasks' = (tasks \ {t}) \union X
    BY <1>8 DEF StatusUpdated
  <2>2. SheetWaits' /\ (sheet'.made > 1 => sheet'.failed)
    BY <1>6, <1>8, <2>1 DEF StatusUpdated
  <2> HIDE DEF X
  <2> QED BY <1>2, <2>1, <2>2, AnswerKeeps
<1>9. CASE FetchedTicketDetail(t) \/ OtherFails(t)
  <2>1. tasks' = tasks \ {t}
    BY <1>9 DEF FetchedTicketDetail, OtherFails
  <2>2. SheetWaits' /\ (sheet'.made > 1 => sheet'.failed)
    BY <1>6, <1>9, <2>1 DEF FetchedTicketDetail, OtherFails, OfSheet
  <2> QED BY <1>2, <2>1, <2>2, EndedCallKeeps
\* What the sheet counts, when the call is its own.
<1>10. ASSUME OfSheet(t)
       PROVE  /\ Counted(t) = [open |-> sheet.open, made |-> sheet.made + 1, failed |-> sheet.failed]
              /\ Root
  BY <1>4, <1>10 DEF Counted, OfSheet, PhoneInv, OneSave
<1>11. ~t.here => Counted(t) = sheet
  BY DEF Counted
<1>12. CASE TicketCreated(t)
  <2> DEFINE asks == CanAsk("list", base, token)
             g == GoesOn(t, "list", base, token)
             X == IF asks THEN {g} ELSE {}
  <2>1. X \subseteq {g} /\ tasks' = (tasks \ {t}) \union X
    BY <1>12 DEF TicketCreated
  <2>2. t.flow = "create" /\ t.at = "post"
    BY <1>1, <1>12 DEF TicketCreated, TaskShape
  <2>3. CASE ~t.here
    <3>1. SheetWaits' /\ (sheet'.made > 1 => sheet'.failed)
      BY <1>6, <1>11, <1>12, <2>1, <2>2, <2>3 DEF TicketCreated
    <3> HIDE DEF X
    <3> QED BY <1>2, <2>1, <3>1, AnswerKeeps
  <2>4. CASE t.here
    <3>1. OfSheet(t) /\ Root /\ Root'
      BY <1>3, <1>10, <2>2, <2>4 DEF OfSheet
    <3>2. sheet.made >= 1 => sheet.failed
      BY <2>2, <3>1 DEF PhoneInv, OneSave, SheetWaits
    <3>3. OfSheet(g) /\ g.at = "list"
      BY <1>1, <3>1, WentOn
    <3> HIDE DEF g
    <3>4. CASE asks
      <4>1. g \in tasks' /\ sheet' = [open |-> sheet.open, made |-> sheet.made + 1,
                                     failed |-> sheet.failed]
        BY <1>10, <1>12, <2>1, <3>1, <3>4 DEF TicketCreated
      <4>2. SheetWaits' /\ (sheet'.made > 1 => sheet'.failed)
        BY <1>4, <3>1, <3>2, <3>3, <4>1 DEF SheetWaits, OfSheet
      <4> USE DEF g
      <4> HIDE DEF X
      <4> QED BY <1>2, <2>1, <4>2, AnswerKeeps
    <3>5. CASE ~asks
      <4>1. sheet' = [open |-> sheet.open, made |-> sheet.made + 1, failed |-> TRUE]
        <5>1. sheet' = [Counted(t) EXCEPT !.failed = TRUE]
          BY <1>12, <2>4, <3>5 DEF TicketCreated
        <5> QED BY <1>10, <3>1, <5>1, MarkedFailed
      <4>2. SheetWaits' /\ (sheet'.made > 1 => sheet'.failed)
        BY <1>4, <3>1, <4>1 DEF SheetWaits
      <4> USE DEF g
      <4> HIDE DEF X
      <4> QED BY <1>2, <2>1, <4>2, AnswerKeeps
    <3> QED BY <3>4, <3>5
  <2> QED BY <2>3, <2>4
<1>13. CASE TicketFails(t)
  <2>1. tasks' = tasks \ {t}
    BY <1>13 DEF TicketFails
  <2>2. SheetWaits' /\ (sheet'.made > 1 => sheet'.failed)
    <3>1. CASE ~t.here
      BY <1>6, <1>13, <2>1, <3>1 DEF TicketFails, OfSheet
    <3>2. CASE t.here
      <4>1. OfSheet(t) /\ Root'
        BY <1>3, <1>10, <1>13, <3>2 DEF TicketFails, OfSheet
      <4>2. PICK n \in {sheet.made, sheet.made + 1} :
               sheet' = [open |-> sheet.open, made |-> n, failed |-> TRUE]
        <5>1. PICK done \in {Counted(t), sheet} : sheet' = [done EXCEPT !.failed = TRUE]
          BY <1>13, <3>2 DEF TicketFails
        <5>2. CASE done = sheet
          BY <1>4, <5>1, <5>2
        <5>3. CASE done = Counted(t)
          <6>1. sheet' = [open |-> sheet.open, made |-> sheet.made + 1, failed |-> TRUE]
            BY <1>10, <4>1, <5>1, <5>3, MarkedFailed
          <6> QED BY <6>1
        <5> QED BY <5>2, <5>3
      <4> QED BY <1>4, <4>1, <4>2 DEF SheetWaits
    <3> QED BY <3>1, <3>2
  <2> QED BY <1>2, <2>1, <2>2, EndedCallKeeps
<1> QED BY <1>7, <1>8, <1>9, <1>12, <1>13

\* The user opens, fills in and closes the sheet.
LEMMA SheetSteps ==
    ASSUME PhoneInv, OpenSheet \/ CancelSheet \/ RefuseTicket
    PROVE  PhoneInv'
<1>1. Steady
  BY DEF Steady, OpenSheet, CancelSheet, RefuseTicket
<1>2. Root' <=> Root
  BY <1>1 DEF Steady, Root, HasRoot
<1>3. /\ \A t \in tasks : TaskShape(t)
      /\ sheet \in [open : BOOLEAN, made : Nat, failed : BOOLEAN]
  BY DEF PhoneInv, TasksShaped, SheetWaits
<1>4. CASE OpenSheet
  <2>1. sheet' = [open |-> TRUE, made |-> 0, failed |-> FALSE] /\ UNCHANGED tasks
    BY <1>4 DEF OpenSheet, NoSheet
  <2>2. OneSave' /\ SheetWaits' /\ ~(sheet'.made > 1)
    BY <1>2, <2>1 DEF PhoneInv, OneSave, SheetWaits
  <2> QED BY <1>1, <1>3, <2>1, <2>2, SteadyKeeps
<1>5. CASE RefuseTicket
  <2>1. sheet' = [open |-> sheet.open, made |-> sheet.made, failed |-> TRUE] /\ UNCHANGED tasks
    <3>1. sheet' = [sheet EXCEPT !.failed = TRUE] /\ UNCHANGED tasks
      BY <1>5 DEF RefuseTicket
    <3>2. sheet = [open |-> sheet.open, made |-> sheet.made, failed |-> sheet.failed]
      BY <1>3
    <3> QED BY <3>1, <3>2, MarkedFailed
  <2>2. OneSave' /\ SheetWaits' /\ sheet'.failed
    BY <1>2, <1>3, <2>1 DEF PhoneInv, OneSave, SheetWaits
  <2> QED BY <1>1, <1>3, <2>1, <2>2, SteadyKeeps
<1>6. CASE CancelSheet
  <2> DEFINE Closed(t) == [t EXCEPT !.here = t.here /\ t.flow # "create"]
  <2>1. tasks' = {Closed(t) : t \in tasks} /\ sheet' = NoSheet
    BY <1>6 DEF CancelSheet
  <2>2. ASSUME NEW t \in tasks, NEW u, u = Closed(t)
        PROVE  TaskShape(u) /\ u.at = t.at /\ ~OfSheet(u)
    <3>1. TaskShape(t)
      BY <1>3
    <3>2. u = [flow |-> t.flow, at |-> t.at, server |-> t.server, token |-> t.token,
               here |-> t.here /\ t.flow # "create", n |-> t.n]
      BY <2>2, <3>1 DEF TaskShape
    <3>3. /\ u.at = t.at /\ u.flow = t.flow /\ u.server = t.server
          /\ (u.here <=> t.here /\ t.flow # "create")
      BY <3>2
    <3>4. TaskShape(u)
      BY <3>1, <3>2, <3>3 DEF TaskShape
    <3> QED BY <3>3, <3>4 DEF OfSheet
  <2> HIDE DEF Closed
  <2>3. TasksShaped' /\ TestAlone' /\ LoginsGone'
    BY <1>1, <2>1, <2>2 DEF Steady, PhoneInv, TasksShaped, TestAlone, LoginsGone, TaskShape
  <2>4. OneSave' /\ SheetWaits' /\ sheet'.made = 0
    BY <2>1, <2>2 DEF OneSave, SheetWaits, NoSheet, OfSheet
  <2>5. OneSessionOneTicket'
    BY <1>1, <2>4 DEF Steady, PhoneInv, OneSessionOneTicket, Shows
  <2> QED BY <2>3, <2>4, <2>5 DEF PhoneInv
<1> QED BY <1>4, <1>5, <1>6

----------------------------------------------------------------------------
LEMMA PhoneInvStep == PhoneInv /\ [PhoneNext]_phoneVars => PhoneInv'
<1> SUFFICES ASSUME PhoneInv, [PhoneNext]_phoneVars PROVE PhoneInv'
  OBVIOUS
<1>1. CASE UNCHANGED phoneVars
  BY <1>1 DEF phoneVars, PhoneInv, TasksShaped, TestAlone, LoginsGone, OneSave, SheetWaits,
              OneSessionOneTicket, Root, HasRoot, Shows, OfSheet, TaskShape
<1>2. ASSUME NEW s \in Servers, \/ ConnectManually(s)
                                \/ ProcessQRData(s, TRUE) \/ ProcessQRData(s, FALSE)
      PROVE  PhoneInv'
  BY <1>2, PairingSteps DEF ConnectManually, ProcessQRData
<1>3. CASE ScanGarbage \/ Restart
  BY <1>3, PairingSteps
<1>4. CASE Disconnect
  BY <1>4, DisconnectKeeps
<1>5. CASE LogOut
  BY <1>5, SessionSteps
<1>6. CASE LogIn \/ Refresh \/ ApplyFilters \/ OpenDetail \/ SaveStatus \/ SaveTicket
  BY <1>6, AsksKeep
<1>7. CASE OpenSheet \/ CancelSheet \/ RefuseTicket
  BY <1>7, SheetSteps
<1>8. ASSUME NEW t \in tasks,
             \/ Tested(t) \/ TestFails(t) \/ LoggedIn(t) \/ FetchedCurrentUser(t)
             \/ FetchedTickets(t) \/ TicketCreated(t) \/ StatusUpdated(t)
             \/ FetchedTicketDetail(t) \/ SessionRefused(t) \/ TicketFails(t) \/ OtherFails(t)
      PROVE  PhoneInv'
  BY <1>8, TestedKeeps, PairingSteps, SessionSteps, AnswersKeep
<1> QED BY <1>1, <1>2, <1>3, <1>4, <1>5, <1>6, <1>7, <1>8 DEF PhoneNext

\* What is on the screen and kept is typed whoever moves; a ticket that was
\* made, or will be, was saved by a tap.
PlainTyped ==
    /\ screen \in [kind : {"disconnected", "connecting", "connected", "error"},
                   server : Servers \union {"none"}]
    /\ {base, token, profile, list} \subseteq Servers \union {"none"}
    /\ signedIn \in BOOLEAN /\ parted \in {"no", "left", "asking"}
    /\ taps \in 0..MaxTaps
Tapped ==
    /\ sheet.made <= taps
    /\ \A t \in tasks : OfSheet(t) /\ t.at = "post" => sheet.made < taps
PhoneTyping == PhoneInv /\ PlainTyped /\ tasks \subseteq PhoneTasks /\ Tapped

LEMMA PhoneTypingTypes == PhoneTyping => PhoneTypeOK
BY DEF PhoneTyping, PhoneInv, SheetWaits, PlainTyped, Tapped, PhoneTypeOK

LEMMA PhoneTypingInit == PhoneInit => PhoneTyping
<1> SUFFICES ASSUME PhoneInit PROVE PhoneTyping
  OBVIOUS
<1>1. PlainTyped
  <2>1. taps \in 0..MaxTaps
    BY PhoneAssumption DEF PhoneInit
  <2> QED BY <2>1 DEF PhoneInit, PlainTyped, NoServer, Shows
<1>2. sheet.made = 0 /\ taps = 0 /\ tasks = {}
  BY DEF PhoneInit, NoSheet
<1> QED BY <1>1, <1>2, PhoneInvInit DEF PhoneTyping, Tapped

Questions == {"test", "me", "list", "login", "post", "patch", "get"}

LEMMA AskTyped ==
    ASSUME HasRoom, NEW f \in Flows, NEW at \in Questions, NEW s \in Servers,
           NEW k \in Servers \union {"none"}
    PROVE  /\ Ask(f, at, s, k) \in PhoneTasks
           /\ Ask(f, at, s, k).at = at /\ Ask(f, at, s, k).flow = f
<1>1. Free \in SUBSET Nat /\ Free # {} /\ Free \subseteq 1..MaxTasks
  BY DEF Free, HasRoom
<1>2. (CHOOSE n \in Free : \A m \in Free : n <= m) \in 1..MaxTasks
  <2>1. \E n \in Free : \A m \in Free : n <= m
    BY <1>1, LeastOf
  <2> QED BY <1>1, <2>1
<1>3. PICK n \in 1..MaxTasks : n = CHOOSE i \in Free : \A m \in Free : i <= m
  BY <1>2
<1>4. Ask(f, at, s, k) = [flow |-> f, at |-> at, server |-> s, token |-> k, here |-> TRUE, n |-> n]
  BY <1>3 DEF Ask
<1> QED BY <1>4 DEF PhoneTasks, Questions

LEMMA GoesOnTyped ==
    ASSUME NEW t \in PhoneTasks, NEW at \in Questions, NEW s \in Servers, NEW k \in Servers \union {"none"}
    PROVE  GoesOn(t, at, s, k) \in PhoneTasks
BY DEF GoesOn, PhoneTasks, Questions

LEMMA KeptTyped ==
    ASSUME NEW T \in SUBSET PhoneTasks
    PROVE  TasksKept(T) \subseteq PhoneTasks
<1>1. ASSUME NEW t \in T PROVE [t EXCEPT !.here = t.here /\ OfScreen(t)] \in PhoneTasks
  <2>1. OfScreen(t) \in BOOLEAN
    BY DEF OfScreen, HasLogin, HasRoot
  <2>2. PICK b \in BOOLEAN : b = (t.here /\ OfScreen(t))
    BY <2>1 DEF PhoneTasks
  <2>3. [t EXCEPT !.here = b] \in PhoneTasks
    BY <2>2 DEF PhoneTasks
  <2> QED BY <2>2, <2>3
<1> QED BY <1>1 DEF TasksKept

\* A step that sends no sheet and makes no ticket.
LEMMA TappedStays ==
    ASSUME PhoneTyping, taps' \in Nat, taps' >= taps, sheet' = sheet,
           \A u \in tasks' : OfSheet(u) /\ u.at = "post" => \E t \in tasks : OfSheet(t) /\ t.at = "post"
    PROVE  Tapped'
<1>1. sheet.made \in Nat /\ taps \in Nat
  BY DEF PhoneTyping, PhoneInv, SheetWaits, PlainTyped
<1> QED BY <1>1 DEF PhoneTyping, Tapped, OfSheet

LEMMA TappedAnew ==
    ASSUME sheet' = NoSheet, taps' \in Nat, \A u \in tasks' : ~OfSheet(u)
    PROVE  Tapped'
BY DEF Tapped, NoSheet, OfSheet

\* A change of the screen takes the sheet with its call.
LEMMA TappedKept ==
    ASSUME PhoneTyping, NEW T, T \subseteq tasks \union {u \in PhoneTasks : u.at # "post"},
           \A t \in T : TaskShape(t), tasks' = TasksKept(T), taps' \in Nat, taps' >= taps,
           sheet' \in {sheet, SheetKept(sheet)}
    PROVE  Tapped'
<1>1. \A u \in tasks' : \E t \in T : u.at = t.at /\ (OfSheet(u) => OfSheet(t) /\ Root /\ Root')
  BY KeptTasks
<1>2. CASE sheet' = sheet
  BY <1>1, <1>2, TappedStays DEF OfSheet
<1>3. CASE sheet' = NoSheet /\ ~Root'
  BY <1>1, <1>3, TappedAnew
<1> QED BY <1>2, <1>3 DEF SheetKept, Root

LEMMA PhoneTypingFacts ==
    ASSUME PhoneTyping
    PROVE  /\ sheet \in [open : BOOLEAN, made : Nat, failed : BOOLEAN]
           /\ taps \in Nat /\ taps + 1 \in Nat /\ sheet.made <= taps
           /\ base \in Servers \union {"none"} /\ token \in Servers \union {"none"}
           /\ Root => base \in Servers
           /\ \A t \in tasks : t \in PhoneTasks /\ TaskShape(t)
           /\ \A address, secret, at : CanAsk(at, address, secret) => address # "none"
BY DEF PhoneTyping, PhoneInv, SheetWaits, PlainTyped, Tapped, TasksShaped, CanAsk, Root, HasRoot,
       OneSessionOneTicket

\* Beside the types of the calls and the tap of every ticket, the types of a
\* step are seen from its assignments.
LEMMA PhoneTyped ==
    ASSUME PhoneTyping, PhoneInv', tasks' \subseteq PhoneTasks, Tapped',
           screen' \in {screen, NoServer, Failed} \union {Shows(k, s) : k \in {"connecting", "connected"}, s \in Servers},
           {base', token', profile', list'} \subseteq Servers \union {"none"},
           signedIn' \in BOOLEAN, parted' \in {"no", "left", "asking"} \union {parted},
           taps' = taps \/ (taps < MaxTaps /\ taps' = taps + 1)
    PROVE  PhoneTyping'
<1>1. screen' \in [kind : {"disconnected", "connecting", "connected", "error"},
                   server : Servers \union {"none"}]
  BY DEF PhoneTyping, PlainTyped, NoServer, Failed, Shows
<1>2. taps' \in 0..MaxTaps
  BY DEF PhoneTyping, PlainTyped
<1> QED BY <1>1, <1>2 DEF PhoneTyping, PlainTyped

LEMMA PairingTyped ==
    ASSUME PhoneTyping, PhoneInv', NEW s \in Servers, NEW carries \in BOOLEAN, Connect(s, carries)
    PROVE  PhoneTyping'
<1> DEFINE a == Ask("connect", "test", s, "none")
<1>1. a \in PhoneTasks /\ a.flow = "connect"
  BY AskTyped DEF Connect, Flows, Questions
<1>2. /\ tasks' = tasks \union {a} /\ sheet' = sheet /\ taps < MaxTaps /\ taps' = taps + 1
      /\ token' \in {token, s} /\ signedIn' = (signedIn \/ carries) /\ parted' = "no"
      /\ screen' = Shows("connecting", s) /\ UNCHANGED <<base, profile, list>>
  BY DEF Connect, Tap
<1> HIDE DEF a
<1>3. Tapped'
  BY <1>1, <1>2, PhoneTypingFacts, TappedStays DEF OfSheet
<1>4. tasks' \subseteq PhoneTasks /\ signedIn' \in BOOLEAN
      /\ {base', token', profile', list'} \subseteq Servers \union {"none"}
  BY <1>1, <1>2 DEF PhoneTyping, PlainTyped
<1> QED BY <1>2, <1>3, <1>4, PhoneTyped

\* The steps that may change the screen of the application.
LEMMA ScreenTyped ==
    ASSUME PhoneTyping, PhoneInv', NEW T, T \subseteq tasks \union {u \in PhoneTasks : u.at # "post" /\ TaskShape(u)},
           tasks' = TasksKept(T), sheet' \in {sheet, SheetKept(sheet)},
           screen' \in {screen, NoServer} \union {Shows("connected", s) : s \in Servers},
           base' \in Servers \union {"none"}, token' \in Servers \union {"none"},
           profile' \in {profile, "none"} \union Servers, list' \in {list, "none"},
           signedIn' \in BOOLEAN, parted' \in {parted, "left", "asking"},
           UNCHANGED taps \/ Tap
    PROVE  PhoneTyping'
<1>1. T \subseteq PhoneTasks /\ \A t \in T : TaskShape(t)
  BY PhoneTypingFacts
<1>2. tasks' \subseteq PhoneTasks
  BY <1>1, KeptTyped
<1>3. taps' = taps \/ (taps < MaxTaps /\ taps' = taps + 1)
  BY DEF Tap
<1>4. taps' \in Nat /\ taps' >= taps
  BY <1>3, PhoneTypingFacts
<1>5. Tapped'
  BY <1>1, <1>4, TappedKept
<1>6. {base', token', profile', list'} \subseteq Servers \union {"none"}
  BY DEF PhoneTyping, PlainTyped
<1> QED BY <1>2, <1>3, <1>5, <1>6, PhoneTyped

\* The calls of the signed in application.
LEMMA StartTyped ==
    ASSUME PhoneTyping, NEW f \in Flows, NEW at \in Questions, Start(f, at)
    PROVE  \E a \in PhoneTasks : tasks' = tasks \union {a} /\ a.flow = f /\ a.at = at
<1>1. base \in Servers /\ token \in Servers \union {"none"} /\ HasRoom
  BY PhoneTypingFacts DEF Start, Root
<1> QED BY <1>1, AskTyped DEF Start

\* What stays when only calls go on or fail.
LEMMA CallsTyped ==
    ASSUME PhoneTyping, PhoneInv', tasks' \subseteq PhoneTasks, Tapped',
           UNCHANGED <<screen, base, token, signedIn, profile, parted>>,
           list' \in {list} \union Servers, UNCHANGED taps \/ Tap
    PROVE  PhoneTyping'
<1>1. {base', token', profile', list'} \subseteq Servers \union {"none"} /\ signedIn' \in BOOLEAN
  BY DEF PhoneTyping, PlainTyped
<1>2. taps' = taps \/ (taps < MaxTaps /\ taps' = taps + 1)
  BY DEF Tap
<1> QED BY <1>1, <1>2, PhoneTyped

LEMMA WentOnTyped ==
    ASSUME PhoneTyping, NEW t \in tasks, NEW at \in {"me", "list", "get"}, NEW s \in Servers,
           NEW k \in Servers \union {"none"}, at = "me" => t.flow = "connect"
    PROVE  /\ GoesOn(t, at, s, k) \in {u \in PhoneTasks : u.at # "post" /\ TaskShape(u)}
           /\ OfSheet(GoesOn(t, at, s, k)) <=> OfSheet(t)
<1>1. t \in PhoneTasks /\ TaskShape(t) /\ at \in Questions
  BY PhoneTypingFacts DEF Questions
<1> QED BY <1>1, GoesOnTyped, WentOn

LEMMA SessionTyped ==
    ASSUME PhoneTyping, PhoneInv',
           Disconnect \/ LogOut \/ \E t \in tasks : \/ Tested(t) \/ LoggedIn(t) \/ FetchedCurrentUser(t)
                                                    \/ SessionRefused(t)
    PROVE  PhoneTyping'
<1> DEFINE Others == {u \in PhoneTasks : u.at # "post" /\ TaskShape(u)}
<1>1. base \in Servers \union {"none"} /\ token \in Servers \union {"none"} /\ signedIn \in BOOLEAN
  BY PhoneTypingFacts DEF PhoneTyping, PlainTyped
<1>2. CASE Disconnect
  BY <1>1, <1>2, ScreenTyped DEF Disconnect
<1>3. CASE LogOut
  BY <1>1, <1>3, ScreenTyped DEF LogOut
<1>4. ASSUME NEW t \in tasks, Tested(t) PROVE PhoneTyping'
  <2>1. t.server \in Servers /\ t.flow = "connect"
    BY <1>4, PhoneTypingFacts DEF PhoneTasks, Tested, TaskShape
  <2>2. PICK T : T = (tasks \ {t}) \union IF signedIn THEN {GoesOn(t, "me", t.server, token)} ELSE {}
    OBVIOUS
  <2>3. T \subseteq tasks \union Others
    BY <1>1, <2>1, <2>2, WentOnTyped
  <2> HIDE DEF Others
  <2>4. /\ tasks' = TasksKept(T) /\ base' = t.server /\ screen' = Shows("connected", t.server)
        /\ UNCHANGED <<token, signedIn, profile, list, sheet, parted, taps>>
    BY <1>4, <2>2 DEF Tested
  <2> QED BY <1>1, <2>1, <2>3, <2>4, ScreenTyped DEF Others
<1>5. ASSUME NEW t \in tasks, LoggedIn(t) PROVE PhoneTyping'
  <2>1. t.server \in Servers
    BY <1>5, PhoneTypingFacts DEF PhoneTasks
  <2>2. PICK T : T = (tasks \ {t}) \union IF CanAsk("list", base, t.server)
                                            THEN {GoesOn(t, "list", base, t.server)} ELSE {}
    OBVIOUS
  <2>3. T \subseteq tasks \union Others
    BY <1>1, <2>1, <2>2, WentOnTyped, PhoneTypingFacts
  <2> HIDE DEF Others
  <2>4. /\ tasks' = TasksKept(T) /\ token' = t.server /\ profile' = t.server /\ signedIn' = TRUE
        /\ UNCHANGED <<screen, base, list, sheet, parted, taps>>
    BY <1>5, <2>2 DEF LoggedIn
  <2> QED BY <1>1, <2>1, <2>3, <2>4, ScreenTyped DEF Others
<1>6. ASSUME NEW t \in tasks, FetchedCurrentUser(t) PROVE PhoneTyping'
  <2>1. t.server \in Servers
    BY <1>6, PhoneTypingFacts DEF PhoneTasks
  <2>2. PICK T : T = (tasks \ {t}) \union IF CanAsk("list", base, token)
                                            THEN {GoesOn(t, "list", base, token)} ELSE {}
    OBVIOUS
  <2>3. T \subseteq tasks \union Others
    BY <1>1, <2>2, WentOnTyped, PhoneTypingFacts
  <2> HIDE DEF Others
  <2>4. /\ tasks' = TasksKept(T) /\ profile' \in {t.server, "none"} /\ signedIn' \in BOOLEAN
        /\ token' \in {token, "none"} /\ sheet' \in {sheet, SheetKept(sheet)}
        /\ UNCHANGED <<screen, base, list, parted, taps>>
    <3>1. CASE CanAsk("list", base, token)
      BY <1>6, <2>2, <3>1 DEF FetchedCurrentUser
    <3>2. CASE ~CanAsk("list", base, token)
      BY <1>6, <2>2, <3>2 DEF FetchedCurrentUser
    <3> QED BY <3>1, <3>2
  <2> QED BY <1>1, <2>1, <2>3, <2>4, ScreenTyped DEF Others
<1>7. ASSUME NEW t \in tasks, SessionRefused(t) PROVE PhoneTyping'
  <2>1. /\ tasks' = TasksKept(tasks \ {t}) /\ tasks \ {t} \subseteq tasks
        /\ token' = "none" /\ signedIn' = FALSE /\ profile' = "none" /\ sheet' = SheetKept(sheet)
        /\ UNCHANGED <<screen, base, list, parted, taps>>
    BY <1>7 DEF SessionRefused
  <2> QED BY <1>1, <2>1, ScreenTyped
<1> QED BY <1>2, <1>3, <1>4, <1>5, <1>6, <1>7

LEMMA SheetTyped ==
    ASSUME PhoneTyping, PhoneInv',
           \/ OpenSheet \/ CancelSheet \/ SaveTicket \/ RefuseTicket
           \/ \E t \in tasks : FetchedTickets(t) \/ TicketCreated(t) \/ TicketFails(t)
    PROVE  PhoneTyping'
<1>1. /\ sheet \in [open : BOOLEAN, made : Nat, failed : BOOLEAN]
      /\ taps \in Nat /\ taps + 1 \in Nat /\ sheet.made <= taps
      /\ \A t \in tasks : t \in PhoneTasks /\ TaskShape(t)
      /\ tasks \subseteq PhoneTasks
  BY PhoneTypingFacts
<1>2. \A t, u \in tasks : OfSheet(t) /\ OfSheet(u) => t = u
  BY DEF PhoneTyping, PhoneInv, OneSave
<1>3. \A t \in tasks : OfSheet(t) /\ t.at = "post" => sheet.made < taps
  BY DEF PhoneTyping, Tapped
<1>4. CASE OpenSheet
  <2>1. sheet'.made = 0 /\ tasks' = tasks /\ taps' = taps + 1
    BY <1>4 DEF OpenSheet, NoSheet, Tap
  <2>2. Tapped'
    BY <1>1, <2>1 DEF Tapped, OfSheet
  <2> QED BY <1>1, <1>4, <2>1, <2>2, CallsTyped DEF OpenSheet
<1>5. CASE CancelSheet
  <2>1. ASSUME NEW t \in tasks
        PROVE  LET u == [t EXCEPT !.here = t.here /\ t.flow # "create"] IN u \in PhoneTasks /\ ~OfSheet(u)
    BY <1>1 DEF PhoneTasks, OfSheet
  <2>2. tasks' \subseteq PhoneTasks /\ \A u \in tasks' : ~OfSheet(u)
    BY <1>5, <2>1 DEF CancelSheet
  <2>3. Tapped'
    BY <1>1, <1>5, <2>2, TappedAnew DEF CancelSheet, Tap
  <2> QED BY <1>5, <2>2, <2>3, CallsTyped DEF CancelSheet
<1>6. CASE SaveTicket
  <2>1. PICK a \in PhoneTasks : tasks' = tasks \union {a}
    BY <1>6, StartTyped DEF SaveTicket, Flows, Questions
  <2>2. Tapped'
    BY <1>1, <1>6 DEF SaveTicket, Tap, Tapped
  <2> QED BY <1>1, <1>6, <2>1, <2>2, CallsTyped DEF SaveTicket
<1>7. CASE RefuseTicket
  <2>1. sheet'.made = sheet.made /\ tasks' = tasks /\ taps' = taps + 1
    BY <1>1, <1>7 DEF RefuseTicket, Tap
  <2>2. Tapped'
    BY <1>1, <2>1 DEF Tapped
  <2> QED BY <1>1, <1>7, <2>1, <2>2, CallsTyped DEF RefuseTicket
<1>8. ASSUME NEW t \in tasks, FetchedTickets(t) PROVE PhoneTyping'
  <2> DEFINE G == GoesOn(t, "get", base, token)
             goes == t.flow = "status" /\ CanAsk("get", base, token)
  <2>1. goes => G \in PhoneTasks /\ G.at # "post" /\ ~OfSheet(G)
    BY WentOnTyped, PhoneTypingFacts DEF OfSheet
  <2>2. /\ tasks' = (tasks \ {t}) \union IF goes THEN {G} ELSE {}
        /\ sheet' = IF OfSheet(t) THEN NoSheet ELSE sheet
        /\ UNCHANGED <<screen, base, token, signedIn, profile, parted, taps>> /\ list' = t.server
    BY <1>8 DEF FetchedTickets, OfSheet
  <2> HIDE DEF G, goes
  <2>3. tasks' \subseteq PhoneTasks /\ list' \in Servers
    BY <1>1, <2>1, <2>2 DEF PhoneTasks
  <2>4. Tapped'
    <3>1. CASE OfSheet(t)
      BY <1>1, <1>2, <2>1, <2>2, <3>1, TappedAnew
    <3>2. CASE ~OfSheet(t)
      BY <1>1, <2>1, <2>2, <3>2, TappedStays
    <3> QED BY <3>1, <3>2
  <2> QED BY <2>2, <2>3, <2>4, CallsTyped
<1>9. ASSUME NEW t \in tasks, TicketCreated(t) PROVE PhoneTyping'
  <2> DEFINE G == GoesOn(t, "list", base, token)
             asks == CanAsk("list", base, token)
  <2>1. t.at = "post" /\ t.flow = "create" /\ (OfSheet(t) <=> t.here)
    BY <1>1, <1>9 DEF TicketCreated, TaskShape, OfSheet
  <2>2. asks => G \in PhoneTasks /\ G.at # "post"
    BY WentOnTyped, PhoneTypingFacts
  <2>3. /\ tasks' = (tasks \ {t}) \union IF asks THEN {G} ELSE {}
        /\ sheet'.made = IF t.here THEN sheet.made + 1 ELSE sheet.made
        /\ UNCHANGED <<screen, base, token, signedIn, profile, list, parted, taps>>
    BY <1>1, <1>9 DEF TicketCreated, Counted
  <2> HIDE DEF G, asks
  <2>4. tasks' \subseteq PhoneTasks
    BY <1>1, <2>2, <2>3
  <2>5. Tapped'
    BY <1>1, <1>2, <1>3, <2>1, <2>2, <2>3 DEF Tapped
  <2> QED BY <2>3, <2>4, <2>5, CallsTyped
<1>10. ASSUME NEW t \in tasks, TicketFails(t) PROVE PhoneTyping'
  <2>1. /\ tasks' = tasks \ {t} /\ t.flow = "create" /\ (OfSheet(t) <=> t.here)
        /\ UNCHANGED <<screen, base, token, signedIn, profile, list, parted, taps>>
    BY <1>10 DEF TicketFails, OfSheet
  <2>2. sheet'.made = sheet.made \/ (t.at = "post" /\ t.here /\ sheet'.made = sheet.made + 1)
    BY <1>1, <1>10 DEF TicketFails, Counted
  <2>3. Tapped'
    BY <1>1, <1>2, <1>3, <2>1, <2>2 DEF Tapped
  <2> QED BY <1>1, <2>1, <2>3, CallsTyped
<1> QED BY <1>4, <1>5, <1>6, <1>7, <1>8, <1>9, <1>10

LEMMA OtherCallsTyped ==
    ASSUME PhoneTyping, PhoneInv',
           \/ LogIn \/ Refresh \/ ApplyFilters \/ OpenDetail \/ SaveStatus
           \/ \E t \in tasks : StatusUpdated(t) \/ FetchedTicketDetail(t) \/ OtherFails(t)
    PROVE  PhoneTyping'
<1>1. /\ taps \in Nat /\ taps + 1 \in Nat /\ tasks \subseteq PhoneTasks
      /\ \A t \in tasks : t \in PhoneTasks /\ TaskShape(t)
  BY PhoneTypingFacts
<1>2. ASSUME LogIn \/ Refresh \/ ApplyFilters \/ OpenDetail \/ SaveStatus
      PROVE  PhoneTyping'
  <2>1. PICK a \in PhoneTasks : tasks' = tasks \union {a} /\ a.flow # "create"
    <3>1. CASE LogIn
      <4>1. base \in Servers
        BY <3>1, PhoneTypingFacts DEF LogIn
      <4> QED BY <3>1, <4>1, AskTyped DEF LogIn, Flows, Questions
    <3>2. CASE ~LogIn
      BY <1>2, <3>2, StartTyped DEF Refresh, ApplyFilters, OpenDetail, SaveStatus, Flows, Questions
    <3> QED BY <3>1, <3>2
  <2>2. Tap /\ UNCHANGED <<screen, base, token, signedIn, profile, list, sheet, parted>>
    BY <1>2 DEF LogIn, Refresh, ApplyFilters, OpenDetail, SaveStatus
  <2>3. Tapped'
    BY <1>1, <2>1, <2>2, TappedStays DEF Tap, OfSheet
  <2> QED BY <1>1, <2>1, <2>2, <2>3, CallsTyped
<1>3. ASSUME NEW t \in tasks, StatusUpdated(t) \/ FetchedTicketDetail(t) \/ OtherFails(t)
      PROVE  PhoneTyping'
  <2>1. \A u \in tasks' : u \in tasks \/ (u \in PhoneTasks /\ u.at # "post")
    <3>1. CASE StatusUpdated(t)
      <4> DEFINE G == GoesOn(t, "list", base, token)
      <4>1. CanAsk("list", base, token) => G \in PhoneTasks /\ G.at # "post"
        BY WentOnTyped, PhoneTypingFacts
      <4> QED BY <3>1, <4>1 DEF StatusUpdated
    <3>2. CASE ~StatusUpdated(t)
      BY <1>3, <3>2 DEF FetchedTicketDetail, OtherFails
    <3> QED BY <3>1, <3>2
  <2>2. UNCHANGED <<screen, base, token, signedIn, profile, list, sheet, parted, taps>>
    BY <1>3 DEF StatusUpdated, FetchedTicketDetail, OtherFails
  <2>3. Tapped'
    BY <1>1, <2>1, <2>2, TappedStays
  <2> QED BY <1>1, <2>1, <2>2, <2>3, CallsTyped
<1> QED BY <1>2, <1>3

LEMMA PhoneTypingStep == PhoneTyping /\ [PhoneNext]_phoneVars => PhoneTyping'
<1> SUFFICES ASSUME PhoneTyping, [PhoneNext]_phoneVars PROVE PhoneTyping'
  OBVIOUS
<1>1. PhoneInv'
  BY PhoneInvStep DEF PhoneTyping
<1>2. ASSUME NEW s \in Servers, \/ ConnectManually(s)
                                \/ ProcessQRData(s, TRUE) \/ ProcessQRData(s, FALSE)
      PROVE  PhoneTyping'
  BY <1>1, <1>2, PairingTyped DEF ConnectManually, ProcessQRData
<1>3. CASE ScanGarbage \/ Restart \/ \E t \in tasks : TestFails(t)
  <2>1. /\ taps \in Nat /\ taps + 1 \in Nat /\ tasks \subseteq PhoneTasks
        /\ base \in Servers \union {"none"}
    BY PhoneTypingFacts
  <2>2. /\ (tasks' \subseteq tasks /\ sheet' = sheet) \/ (tasks' = {} /\ sheet' = NoSheet)
        /\ taps' = taps \/ (taps < MaxTaps /\ taps' = taps + 1)
        /\ UNCHANGED <<base, token, parted>> /\ signedIn' \in BOOLEAN
        /\ profile' \in {profile, "none"} /\ list' \in {list, "none"}
    BY <1>3 DEF ScanGarbage, Restart, TestFails, Tap, PhoneTyping, PlainTyped
  <2>3. screen' \in {NoServer, Failed} \union {Shows("connected", s) : s \in Servers}
    BY <1>3, <2>1 DEF ScanGarbage, Restart, TestFails
  <2>4. Tapped'
    BY <2>1, <2>2, TappedStays, TappedAnew
  <2>5. {base', token', profile', list'} \subseteq Servers \union {"none"}
    BY <2>2 DEF PhoneTyping, PlainTyped
  <2> QED BY <1>1, <2>1, <2>2, <2>3, <2>4, <2>5, PhoneTyped
<1>4. CASE UNCHANGED phoneVars
  <2>1. Tapped'
    BY <1>4, PhoneTypingFacts, TappedStays DEF phoneVars
  <2> QED BY <1>1, <1>4, <2>1, CallsTyped DEF phoneVars, PhoneTyping
<1> QED BY <1>1, <1>2, <1>3, <1>4, SessionTyped, SheetTyped, OtherCallsTyped DEF PhoneNext

\* The application shows a session just when it holds a token, asks the one
\* server it shows, keeps nothing of a server it left but a login's token, and
\* makes one ticket of a sheet that showed no failure.
THEOREM PhoneCorrect == PhoneSpec => []OneSessionOneTicket
<1>1. PhoneInv => OneSessionOneTicket
  BY DEF PhoneInv
<1> QED BY <1>1, PhoneInvInit, PhoneInvStep, PTL DEF PhoneSpec

HIDE PhoneAssumption

----------------------------------------------------------------------------
(***************************************************************************)
(* The wizard sets up and connects to the server that was chosen.  What is *)
(* said of the end depends on everything before it: the first step leaves  *)
(* nothing behind but a claim, what it hands over names a server just when *)
(* one is to be named, the initialisation asks for what was handed over,   *)
(* and, as long as no setup that was given up is carried out, the host is  *)
(* set up before this machine becomes its client and this machine is set up*)
(* by nobody else.                                                         *)
(***************************************************************************)

USE WizardAssumption

\* A client has no server of its own to choose a place for.
ClientIsLocal(f) == f.mode = "client_only" => f.target = "local_machine"

FormsPlain ==
    /\ ClientIsLocal(form)
    /\ \A h \in Handlers : flow[h].at \in {"validate", "claim", "path"} => ClientIsLocal(flow[h].form)

\* Past the first step, a claim is all that is left of it.
FirstStepGone ==
    wizard.step # 1 => \A h \in Handlers : flow[h] = Idle \/ (h = "claim" /\ flow[h].at = "claim")

\* An address was chosen just when there is another machine to talk to.
ChoiceMade ==
    /\ ClientIsLocal(wizard)
    /\ wizard.url = NoPlace <=> wizard.mode = "server_client" /\ wizard.target = "local_machine"

\* The initialisation goes on in its step, and asks for what was chosen.
InitFollowsChoice ==
    init # Idle =>
        /\ wizard.step = 3
        /\ init.at = "local" => wizard.url = NoPlace
        /\ init.at \in {"remote", "client"} => wizard.url # NoPlace
        /\ init.at = "remote" => wizard.mode = "server_client"

\* What was reached: the host is set up before this machine becomes its client,
\* and nobody but the wizard sets this machine up.
InitProgress ==
    init # Idle /\ ~overtaken =>
        /\ init.at = "client" /\ wizard.mode = "server_client" => host[wizard.url].ready = "wizard"
        /\ init.at # "remote" /\ init.sent => host[Local].ready = "no"

FlowListed == flow = [h \in Handlers |-> flow[h]]

WizardInv ==
    /\ WizardTypeOK /\ FlowListed /\ FormsPlain /\ FirstStepGone /\ ChoiceMade /\ InitFollowsChoice
    /\ InitProgress /\ SessionStaysHome /\ FinishedMeansReady

HostTypes == [ready : {"no", "wizard", "other", "client"}, issued : 0 .. MaxIssued,
              token : 0 .. MaxIssued, session : 0 .. MaxIssued]
Going == [at : {"validate", "claim", "path"}, form : FormTypes, mounted : BOOLEAN]
WizardTypes == [step : 1 .. 4, mode : Modes, target : Targets, session : Keys, url : Places \cup {NoPlace}]
Inits == [at : {"remote", "local", "client"}, sent : BOOLEAN]

\* What the handlers of the first step and the hosts work on.
FirstStepTyped ==
    /\ form \in FormTypes
    /\ FlowListed /\ \A h \in Handlers : flow[h] \in {Idle, [at |-> "discover"]} \cup Going
    /\ FormsPlain /\ FirstStepGone

LEMMA WizardTyped ==
    WizardTypeOK /\ FlowListed <=>
        /\ host \in [Places -> HostTypes] /\ remoteBase \in Places \cup {NoPlace}
        /\ form \in FormTypes
        /\ FlowListed /\ \A h \in Handlers : flow[h] \in {Idle, [at |-> "discover"]} \cup Going
        /\ wizard \in WizardTypes /\ init \in {Idle} \cup Inits
        /\ serving \subseteq Requests /\ override \in Places \cup {NoPlace}
        /\ overtaken \in BOOLEAN /\ clicks \in 0 .. MaxClicks
BY DEF WizardTypeOK, HostTypes, Going, WizardTypes, Inits

LEMMA EmptyFormTyped == EmptyForm \in FormTypes /\ ClientIsLocal(EmptyForm)
BY DEF EmptyForm, FormTypes, Modes, Targets, Places, Keys, NoToken, ClientIsLocal

LEMMA NoChoiceTyped ==
    /\ NoChoice \in WizardTypes /\ NoChoice.step = 1 /\ ClientIsLocal(NoChoice)
    /\ NoChoice.url = NoPlace /\ NoChoice.mode = "server_client" /\ NoChoice.target = "local_machine"
BY DEF NoChoice, WizardTypes, Modes, Targets, Keys, NoToken, ClientIsLocal

LEMMA WizardInvInit == WizardInit => WizardInv
<1> SUFFICES ASSUME WizardInit PROVE WizardInv
  OBVIOUS
<1>1. [ready |-> "no", issued |-> 0, token |-> 0, session |-> 0] \in HostTypes
  BY DEF HostTypes
<1>2. clicks \in 0 .. MaxClicks
  BY DEF WizardInit
<1>3. WizardTypeOK /\ FlowListed
  BY <1>1, <1>2, EmptyFormTyped, NoChoiceTyped, WizardTyped DEF WizardInit, FlowListed
<1>4. flow = [h \in Handlers |-> Idle] /\ \A h \in Handlers : flow[h].at = "idle"
  BY DEF WizardInit, Idle
<1> QED BY <1>3, <1>4, EmptyFormTyped, NoChoiceTyped
        DEF WizardInit, WizardInv, FormsPlain, FirstStepGone, ChoiceMade, InitFollowsChoice, InitProgress,
            SessionStaysHome, FinishedMeansReady

\* Who sets a host up beside the wizard finds it not set up, and lets this
\* machine alone.
ReadyKept == \A p \in Places : host'[p].ready = host[p].ready \/ (p # Local /\ host[p].ready = "no")

\* A step that leaves the choices and the initialisation alone.
LEMMA ChoicesStay ==
    ASSUME WizardInv, UNCHANGED <<remoteBase, wizard, init, override, overtaken>>,
           host' \in [Places -> HostTypes], ReadyKept, FirstStepTyped',
           serving' \subseteq Requests, clicks' \in 0 .. MaxClicks
    PROVE  WizardInv'
<1>1. WizardTypeOK' /\ FlowListed'
  BY WizardTyped DEF WizardInv, WizardTypeOK, FirstStepTyped, HostTypes, Going
<1>2. wizard.url # NoPlace => wizard.url \in Places
  BY DEF WizardInv, WizardTypeOK
<1>3. Local \in Places
  BY DEF Places
<1>4. ChoiceMade' /\ InitFollowsChoice' /\ SessionStaysHome'
  BY DEF WizardInv, ChoiceMade, InitFollowsChoice, SessionStaysHome, ClientIsLocal
<1>5. InitProgress'
  <2>1. init # Idle /\ init.at = "client" => wizard.url \in Places
    BY <1>2 DEF WizardInv, InitFollowsChoice
  <2> QED BY <1>3, <2>1 DEF WizardInv, InitProgress, ReadyKept
<1>6. FinishedMeansReady'
  BY <1>2, <1>3 DEF WizardInv, FinishedMeansReady, ReadyKept
<1> QED BY <1>1, <1>4, <1>5, <1>6 DEF WizardInv, FirstStepTyped

\* What the user and the handlers make of the form.
LEMMA FormsMade ==
    ASSUME NEW f \in FormTypes
    PROVE  /\ \A p \in Places, v \in Places \cup {NoPlace} :
                [f EXCEPT !.url = p, !.validated = v] \in FormTypes
                /\ (ClientIsLocal(f) => ClientIsLocal([f EXCEPT !.url = p, !.validated = v]))
           /\ [f EXCEPT !.validated = NoPlace] \in FormTypes
           /\ ClientIsLocal(f) => ClientIsLocal([f EXCEPT !.validated = NoPlace])
           /\ \A p \in Places : [f EXCEPT !.url = p, !.validated = NoPlace, !.session = NoToken] \in FormTypes
           /\ \A p \in Places : ClientIsLocal(f) => ClientIsLocal([f EXCEPT !.url = p, !.validated = NoPlace, !.session = NoToken])
           /\ \A code \in Keys : [f EXCEPT !.session = code] \in FormTypes
                                /\ (ClientIsLocal(f) => ClientIsLocal([f EXCEPT !.session = code]))
           /\ \A code \in Keys : [f EXCEPT !.token = code, !.session = NoToken] \in FormTypes
                                /\ (ClientIsLocal(f) => ClientIsLocal([f EXCEPT !.token = code, !.session = NoToken]))
           /\ \A mode \in Modes : [f EXCEPT !.mode = mode, !.target = "local_machine"] \in FormTypes
                                  /\ ClientIsLocal([f EXCEPT !.mode = mode, !.target = "local_machine"])
           /\ \A t \in Targets, code \in Keys : [f EXCEPT !.target = t, !.session = code] \in FormTypes
           /\ \A t \in Targets, code \in Keys : f.mode # "client_only" => ClientIsLocal([f EXCEPT !.target = t, !.session = code])
           /\ [f EXCEPT !.found = {}, !.validated = NoPlace] \in FormTypes
           /\ ClientIsLocal(f) => ClientIsLocal([f EXCEPT !.found = {}, !.validated = NoPlace])
           /\ \A found \in SUBSET Hosts, p \in Hosts :
                [f EXCEPT !.found = found, !.url = p, !.validated = p] \in FormTypes
                /\ (ClientIsLocal(f) => ClientIsLocal([f EXCEPT !.found = found, !.url = p, !.validated = p]))
<1> USE DEF FormTypes, ClientIsLocal
<1>1. \A p \in Places, v \in Places \cup {NoPlace} :
         [f EXCEPT !.url = p, !.validated = v] \in FormTypes
         /\ (ClientIsLocal(f) => ClientIsLocal([f EXCEPT !.url = p, !.validated = v]))
  BY Zenon
<1>2. [f EXCEPT !.validated = NoPlace] \in FormTypes
      /\ (ClientIsLocal(f) => ClientIsLocal([f EXCEPT !.validated = NoPlace]))
  BY Zenon
<1>3. \A p \in Places : [f EXCEPT !.url = p, !.validated = NoPlace, !.session = NoToken] \in FormTypes
         /\ (ClientIsLocal(f) => ClientIsLocal([f EXCEPT !.url = p, !.validated = NoPlace, !.session = NoToken]))
  BY Zenon DEF Keys, NoToken
<1>4. \A code \in Keys : [f EXCEPT !.session = code] \in FormTypes
         /\ (ClientIsLocal(f) => ClientIsLocal([f EXCEPT !.session = code]))
  BY Zenon
<1>5. \A code \in Keys : [f EXCEPT !.token = code, !.session = NoToken] \in FormTypes
         /\ (ClientIsLocal(f) => ClientIsLocal([f EXCEPT !.token = code, !.session = NoToken]))
  BY Zenon DEF Keys, NoToken
<1>6. \A mode \in Modes : [f EXCEPT !.mode = mode, !.target = "local_machine"] \in FormTypes
         /\ ClientIsLocal([f EXCEPT !.mode = mode, !.target = "local_machine"])
  BY Zenon DEF Targets
<1>7. \A t \in Targets, code \in Keys : [f EXCEPT !.target = t, !.session = code] \in FormTypes
         /\ (f.mode # "client_only" => ClientIsLocal([f EXCEPT !.target = t, !.session = code]))
  BY Zenon
<1>8. [f EXCEPT !.found = {}, !.validated = NoPlace] \in FormTypes
      /\ (ClientIsLocal(f) => ClientIsLocal([f EXCEPT !.found = {}, !.validated = NoPlace]))
  BY Zenon
<1>9. \A found \in SUBSET Hosts, p \in Hosts :
         [f EXCEPT !.found = found, !.url = p, !.validated = p] \in FormTypes
         /\ (ClientIsLocal(f) => ClientIsLocal([f EXCEPT !.found = found, !.url = p, !.validated = p]))
  BY Zenon DEF Places
<1> HIDE DEF FormTypes, ClientIsLocal
<1> QED BY <1>1, <1>2, <1>3, <1>4, <1>5, <1>6, <1>7, <1>8, <1>9, Zenon


\* What is known of a handler on its way.
LEMMA GoingShape ==
    ASSUME WizardInv, NEW h \in Handlers, flow[h].at \in {"validate", "claim", "path"}
    PROVE  /\ flow[h] \in Going /\ flow[h].form \in FormTypes /\ ClientIsLocal(flow[h].form)
           /\ flow[h].form.url \in Places /\ flow[h].form.session \in Keys /\ flow[h].form.token \in Keys
<1>1. flow[h] \in Going
  BY WizardTyped DEF WizardInv, Idle
<1>2. flow[h].form \in FormTypes /\ ClientIsLocal(flow[h].form)
  BY <1>1 DEF Going, WizardInv, FormsPlain
<1> QED BY <1>1, <1>2 DEF FormTypes

LEMMA GoingMade ==
    ASSUME NEW f \in FormTypes, NEW at \in {"validate", "claim", "path"}, NEW m \in BOOLEAN
    PROVE  LET q == [at |-> at, form |-> f, mounted |-> m] IN
           q \in Going /\ q.at = at /\ q.form = f /\ q # Idle
BY DEF Going, Idle

LEMMA GoingMoved ==
    ASSUME NEW q \in Going, NEW at \in {"validate", "claim", "path"}
    PROVE  [q EXCEPT !.at = at] \in Going /\ [q EXCEPT !.at = at].at = at
           /\ [q EXCEPT !.at = at].form = q.form
BY DEF Going

\* One handler goes on, or stops; past the first step, a claim stops.
LEMMA HandlerGoes ==
    ASSUME WizardInv, NEW h \in Handlers, NEW q \in {Idle, [at |-> "discover"]} \cup Going, Go(h, q),
           wizard' = wizard, form' \in FormTypes, ClientIsLocal(form'),
           q.at \in {"validate", "claim", "path"} => ClientIsLocal(q.form),
           wizard.step # 1 => q = Idle
    PROVE  FirstStepTyped'
<1>1. flow' = [flow EXCEPT ![h] = q] /\ FlowListed
      /\ \A g \in Handlers : flow[g] \in {Idle, [at |-> "discover"]} \cup Going
  BY WizardTyped DEF Go, WizardInv
<1>2. flow'[h] = q /\ \A g \in Handlers \ {h} : flow'[g] = flow[g]
  BY <1>1 DEF FlowListed
<1>3. FlowListed'
  BY <1>1 DEF FlowListed
<1>4. FormsPlain'
  BY <1>2 DEF WizardInv, FormsPlain
<1>5. FirstStepGone'
  BY <1>2 DEF WizardInv, FirstStepGone
<1>6. \A g \in Handlers : flow'[g] \in {Idle, [at |-> "discover"]} \cup Going
  BY <1>1, <1>2
<1> QED BY <1>3, <1>4, <1>5, <1>6 DEF FirstStepTyped, Going

\* No handler goes on.
LEMMA FirstStepStays ==
    ASSUME WizardInv, UNCHANGED <<form, flow, wizard>>
    PROVE  FirstStepTyped'
BY WizardTyped DEF WizardInv, FirstStepTyped, FlowListed, FormsPlain, FirstStepGone, Going

LEMMA HostsStay ==
    ASSUME WizardInv, UNCHANGED host
    PROVE  host' \in [Places -> HostTypes] /\ ReadyKept
BY WizardTyped DEF WizardInv, ReadyKept

LEMMA RestTyped ==
    ASSUME WizardInv
    PROVE  /\ form \in FormTypes /\ ClientIsLocal(form) /\ serving \subseteq Requests
           /\ clicks \in 0 .. MaxClicks /\ host \in [Places -> HostTypes]
           /\ wizard \in WizardTypes /\ init \in {Idle} \cup Inits
           /\ form.url \in Places /\ form.session \in Keys /\ form.found \subseteq Places
           /\ form.validated \in Places \cup {NoPlace} /\ form.token \in Keys
           /\ remoteBase \in Places \cup {NoPlace} /\ override \in Places \cup {NoPlace}
BY WizardTyped DEF WizardInv, FormsPlain, FormTypes

----------------------------------------------------------------------------
LEMMA HostsMade ==
    ASSUME NEW q \in HostTypes
    PROVE  /\ \A by \in {"wizard", "other", "client"} :
                /\ [q EXCEPT !.ready = by, !.token = 0, !.session = 0] \in HostTypes
                /\ [q EXCEPT !.ready = by, !.token = 0, !.session = 0].ready = by
           /\ \A s \in 0 .. MaxIssued :
                /\ [q EXCEPT !.token = 0, !.session = s] \in HostTypes
                /\ [q EXCEPT !.token = 0, !.session = s].ready = q.ready
           /\ q.token \in 0 .. MaxIssued /\ q.issued \in 0 .. MaxIssued
<1>1. 0 \in 0 .. MaxIssued
  BY DEF WizardAssumption
<1> DEFINE Numbers == 0 .. MaxIssued
<1>2. HostTypes = [ready : {"no", "wizard", "other", "client"}, issued : Numbers,
                   token : Numbers, session : Numbers] /\ 0 \in Numbers
  BY <1>1 DEF HostTypes
<1> HIDE DEF Numbers
<1>4. \A by \in {"wizard", "other", "client"} :
        /\ [q EXCEPT !.ready = by, !.token = 0, !.session = 0] \in HostTypes
        /\ [q EXCEPT !.ready = by, !.token = 0, !.session = 0].ready = by
  BY <1>2
<1>5. \A s \in Numbers :
        /\ [q EXCEPT !.token = 0, !.session = s] \in HostTypes
        /\ [q EXCEPT !.token = 0, !.session = s].ready = q.ready
  BY <1>2
<1>6. q.token \in Numbers /\ q.issued \in Numbers
  BY <1>2
<1> QED BY <1>4, <1>5, <1>6 DEF Numbers

LEMMA TokenMade ==
    ASSUME NEW q \in HostTypes, NEW n \in 0 .. MaxIssued
    PROVE  /\ [q EXCEPT !.issued = n, !.token = n, !.session = 0] \in HostTypes
           /\ [q EXCEPT !.issued = n, !.token = n, !.session = 0].ready = q.ready
<1>1. 0 \in 0 .. MaxIssued
  BY DEF WizardAssumption
<1> QED BY <1>1 DEF HostTypes

LEMMA HostActs ==
    ASSUME WizardInv, NEW h \in Hosts, CreateToken(h) \/ SetUpByOther(h), UNCHANGED clicks
    PROVE  WizardInv'
<1>1. host \in [Places -> HostTypes] /\ h \in Places /\ h # Local /\ host[h] \in HostTypes
  BY RestTyped DEF Places
<1>2. UNCHANGED <<remoteBase, form, flow, wizard, init, serving, override, overtaken>>
  BY DEF CreateToken, SetUpByOther
<1>3. host' \in [Places -> HostTypes] /\ ReadyKept
  <2>1. CASE CreateToken(h)
    <3> DEFINE n == host[h].issued + 1
    <3> DEFINE q == [host[h] EXCEPT !.issued = n, !.token = n, !.session = 0]
    <3>1. host' = [host EXCEPT ![h] = q]
      BY <1>1, <2>1 DEF CreateToken
    <3>2. host[h].issued \in 0 .. MaxIssued /\ host[h].issued < MaxIssued
      BY <1>1, <2>1, HostsMade, Zenon DEF CreateToken
    <3>3. n \in 0 .. MaxIssued
      BY <3>2 DEF WizardAssumption
    <3> HIDE DEF n
    <3>4. q \in HostTypes /\ q.ready = host[h].ready
      <4>1. PICK p \in HostTypes : p = host[h]
        BY <1>1
      <4>2. q = [p EXCEPT !.issued = n, !.token = n, !.session = 0]
        BY <4>1
      <4> HIDE DEF q
      <4>3. /\ [p EXCEPT !.issued = n, !.token = n, !.session = 0] \in HostTypes
            /\ [p EXCEPT !.issued = n, !.token = n, !.session = 0].ready = p.ready
        BY <3>3, TokenMade
      <4> QED BY <4>1, <4>2, <4>3
    <3> HIDE DEF q
    <3> QED BY <1>1, <3>1, <3>4 DEF ReadyKept
  <2>2. CASE SetUpByOther(h)
    <3> DEFINE q == [host[h] EXCEPT !.ready = "other", !.token = 0, !.session = 0]
    <3>1. host' = [host EXCEPT ![h] = q]
      BY <1>1, <2>2 DEF SetUpByOther, Configured
    <3>2. q \in HostTypes
      BY <1>1, HostsMade, Zenon
    <3> HIDE DEF q
    <3> QED BY <1>1, <2>2, <3>1, <3>2 DEF ReadyKept, SetUpByOther
  <2> QED BY <2>1, <2>2
<1> QED BY <1>2, <1>3, FirstStepStays, ChoicesStay, RestTyped

\* Claiming a token changes nothing of who set the host up.
LEMMA ClaimedAtHost ==
    ASSUME WizardInv, NEW c \in FormTypes, ClaimedAt(c)
    PROVE  host' \in [Places -> HostTypes] /\ ReadyKept
<1>1. host \in [Places -> HostTypes] /\ c.url \in Places /\ host[c.url] \in HostTypes
  BY RestTyped DEF FormTypes
<1> DEFINE q == [host[c.url] EXCEPT !.token = 0, !.session = host[c.url].token]
<1>2. host' = [host EXCEPT ![c.url] = q]
  BY <1>1 DEF ClaimedAt
<1>3. q \in HostTypes /\ q.ready = host[c.url].ready
  BY <1>1, HostsMade, Zenon
<1> HIDE DEF q
<1> QED BY <1>1, <1>2, <1>3 DEF ReadyKept

LEMMA HandlersGoOn ==
    ASSUME WizardInv, NEW h \in Handlers, HandlerStops(h) \/ Claimed(h) \/ ClaimLost(h)
    PROVE  WizardInv'
<1>1. UNCHANGED <<remoteBase, wizard, init, serving, override, overtaken, clicks>>
  BY DEF HandlerStops, Claimed, ClaimLost
<1>2. CASE HandlerStops(h)
  <2>1. form' \in FormTypes /\ ClientIsLocal(form') /\ Go(h, Idle) /\ UNCHANGED host
    BY <1>2, RestTyped, FormsMade, Zenon DEF HandlerStops
  <2>2. FirstStepTyped'
    BY <1>1, <2>1, HandlerGoes DEF Idle
  <2> QED BY <1>1, <2>1, <2>2, HostsStay, ChoicesStay, RestTyped
<1>3. CASE ClaimLost(h)
  <2>1. flow[h].at = "claim" /\ ClaimedAt(flow[h].form) /\ Go(h, Idle) /\ UNCHANGED form
    BY <1>3 DEF ClaimLost
  <2>2. host' \in [Places -> HostTypes] /\ ReadyKept
    BY <2>1, GoingShape, ClaimedAtHost
  <2>3. FirstStepTyped'
    BY <1>1, <2>1, HandlerGoes, RestTyped DEF Idle
  <2> QED BY <1>1, <2>2, <2>3, ChoicesStay, RestTyped
<1>4. CASE Claimed(h)
  <2> DEFINE c == flow[h].form
  <2> DEFINE q == [at |-> "path", form |-> [c EXCEPT !.session = c.token], mounted |-> TRUE]
  <2>1. flow[h].at = "claim" /\ ClaimedAt(c) /\ Go(h, IF h = "continue" THEN q ELSE Idle)
        /\ form' = IF flow[h].mounted THEN [form EXCEPT !.session = c.token] ELSE form
    BY <1>4 DEF Claimed
  <2>2. c \in FormTypes /\ ClientIsLocal(c) /\ c.token \in Keys
    BY <2>1, GoingShape
  <2>3. host' \in [Places -> HostTypes] /\ ReadyKept
    BY <2>1, <2>2, ClaimedAtHost
  <2>4. q \in Going /\ q.at = "path" /\ ClientIsLocal(q.form)
    BY <2>2, FormsMade, GoingMade, Zenon
  <2>5. form' \in FormTypes /\ ClientIsLocal(form')
    BY <2>1, <2>2, FormsMade, RestTyped, Zenon
  <2>6. wizard.step # 1 => h = "claim"
    BY <2>1 DEF WizardInv, FirstStepGone, Idle
  <2> HIDE DEF c, q
  <2>7. FirstStepTyped'
    <3>1. CASE h = "continue"
      BY <1>1, <2>1, <2>4, <2>5, <2>6, <3>1, HandlerGoes
    <3>2. CASE h # "continue"
      BY <1>1, <2>1, <2>5, <3>2, HandlerGoes DEF Idle
    <3> QED BY <3>1, <3>2
  <2> QED BY <1>1, <2>3, <2>7, ChoicesStay, RestTyped
<1> QED BY <1>2, <1>3, <1>4

LEMMA DiscoverAnsweredKeeps ==
    ASSUME WizardInv, NEW found \in SUBSET Hosts, NEW best \in Hosts, found = {} \/ best \in found,
           DiscoverAnswered(found, best)
    PROVE  WizardInv'
<1>1. UNCHANGED <<host, remoteBase, wizard, init, serving, override, overtaken, clicks>>
      /\ Go("discover", Idle) /\ "discover" \in Handlers
  BY DEF DiscoverAnswered, Handlers
<1>2. form' \in FormTypes /\ ClientIsLocal(form')
  BY RestTyped, FormsMade, Zenon DEF DiscoverAnswered
<1>3. FirstStepTyped'
  BY <1>1, <1>2, HandlerGoes DEF Idle
<1> QED BY <1>1, <1>3, HostsStay, ChoicesStay, RestTyped

\* What the first step hands over: a session of the host it names.
LEMMA ChosenKeeps ==
    ASSUME WizardInv, NEW c \in FormTypes, ClientIsLocal(c), NEW code \in Keys, Chosen(c, code), wizard.step = 1,
           c.target = "remote_host" /\ c.url \in Hosts => code[1] = c.url,
           UNCHANGED <<host, remoteBase, init, serving, override, overtaken, clicks>>
    PROVE  WizardInv'
<1> DEFINE w == [step |-> IF c.mode = "client_only" THEN 3 ELSE 2, mode |-> c.mode,
                 target |-> c.target, session |-> code,
                 url |-> IF c.mode = "client_only" \/ c.target = "remote_host" THEN c.url
                         ELSE NoPlace]
<1>1. /\ wizard' = w /\ form' = EmptyForm
      /\ flow' = [h \in Handlers |->
                    IF h = "claim" /\ flow[h].at = "claim" THEN [flow[h] EXCEPT !.mounted = FALSE] ELSE Idle]
  BY DEF Chosen
<1>2. c.url \in Places /\ c.mode \in Modes /\ c.target \in Targets
      /\ (c.mode = "client_only" => c.target = "local_machine")
  BY DEF FormTypes, ClientIsLocal
<1>3. NoPlace \notin Places
  BY DEF Places, NoPlace, Local
<1>4. /\ w \in WizardTypes /\ ClientIsLocal(w) /\ w.step \in {2, 3}
      /\ (w.url = NoPlace <=> w.mode = "server_client" /\ w.target = "local_machine")
      /\ (w.target = "remote_host" /\ w.url \in Hosts => w.session[1] = w.url)
  BY <1>2, <1>3 DEF WizardTypes, Modes, Targets, ClientIsLocal
<1> HIDE DEF w
<1>5. init = Idle
  BY DEF WizardInv, InitFollowsChoice
<1>6. ASSUME NEW h \in Handlers
      PROVE  /\ flow'[h] \in {Idle} \cup Going
             /\ flow'[h] = Idle \/ (h = "claim" /\ flow'[h].at = "claim" /\ ClientIsLocal(flow'[h].form))
  <2>1. CASE h = "claim" /\ flow[h].at = "claim"
    <3>1. flow[h] \in Going /\ ClientIsLocal(flow[h].form)
      BY <2>1, GoingShape
    <3>2. flow'[h] = [flow[h] EXCEPT !.mounted = FALSE]
      BY <1>1, <2>1
    <3> QED BY <2>1, <3>1, <3>2 DEF Going
  <2>2. CASE ~(h = "claim" /\ flow[h].at = "claim")
    BY <1>1, <2>2
  <2> QED BY <2>1, <2>2
<1>7. FirstStepTyped'
  <2>1. FlowListed'
    BY <1>1 DEF FlowListed
  <2>2. FormsPlain' /\ FirstStepGone'
    BY <1>1, <1>6, EmptyFormTyped DEF FormsPlain, FirstStepGone, Idle
  <2>3. form' \in FormTypes /\ \A h \in Handlers : flow'[h] \in {Idle, [at |-> "discover"]} \cup Going
    BY <1>1, <1>6, EmptyFormTyped
  <2> QED BY <2>1, <2>2, <2>3 DEF FirstStepTyped, Going
<1>8. WizardTypeOK' /\ FlowListed'
  BY <1>1, <1>4, <1>7, WizardTyped
     DEF WizardInv, WizardTypeOK, FirstStepTyped, HostTypes, Going, WizardTypes, Inits
<1>9. ChoiceMade' /\ SessionStaysHome' /\ FinishedMeansReady'
  BY <1>1, <1>4 DEF ChoiceMade, SessionStaysHome, FinishedMeansReady
<1>10. InitFollowsChoice' /\ InitProgress'
  BY <1>5 DEF InitFollowsChoice, InitProgress
<1> QED BY <1>7, <1>8, <1>9, <1>10 DEF WizardInv, FirstStepTyped

LEMMA ValidatedKeeps ==
    ASSUME WizardInv, NEW h \in Handlers, Validated(h)
    PROVE  WizardInv'
<1> DEFINE c == flow[h].form
<1>1. flow[h].at = "validate" /\ UNCHANGED <<host, remoteBase, init, serving, override, overtaken, clicks>>
  BY DEF Validated
<1>2. flow[h] \in Going /\ c \in FormTypes /\ ClientIsLocal(c) /\ c.url \in Places
  BY <1>1, GoingShape
<1>3. wizard.step = 1
  BY <1>1 DEF WizardInv, FirstStepGone, Idle
<1>4. CASE c.mode = "client_only" /\ Chosen(c, NoToken)
  <2>1. NoToken \in Keys /\ c.target # "remote_host"
    BY <1>2, <1>4 DEF Keys, ClientIsLocal
  <2> HIDE DEF c
  <2> QED BY <1>1, <1>2, <1>3, <1>4, <2>1, ChosenKeeps
<1>5. CASE /\ form' = [form EXCEPT !.url = c.url, !.validated = c.url]
           /\ Go(h, IF h = "continue" /\ c.session # NoToken THEN [flow[h] EXCEPT !.at = "path"]
                    ELSE IF h \in {"continue", "claim"} /\ c.token # NoToken
                    THEN [flow[h] EXCEPT !.at = "claim"] ELSE Idle)
           /\ UNCHANGED wizard
  <2>1. form' \in FormTypes /\ ClientIsLocal(form')
    BY <1>2, <1>5, FormsMade, RestTyped, Zenon
  <2>2. PICK q \in {Idle, [flow[h] EXCEPT !.at = "path"], [flow[h] EXCEPT !.at = "claim"]} : Go(h, q)
    BY <1>5
  <2>3. q \in {Idle} \cup Going /\ (q.at \in {"validate", "claim", "path"} => ClientIsLocal(q.form))
    <3>1. CASE q = Idle
      BY <3>1 DEF Idle
    <3>2. CASE q = [flow[h] EXCEPT !.at = "path"]
      <4>1. q \in Going /\ q.form = c
        BY <1>2, <3>2, GoingMoved
      <4> QED BY <1>2, <4>1
    <3>3. CASE q = [flow[h] EXCEPT !.at = "claim"]
      <4>1. q \in Going /\ q.form = c
        BY <1>2, <3>3, GoingMoved
      <4> QED BY <1>2, <4>1
    <3> QED BY <2>2, <3>1, <3>2, <3>3
  <2>4. FirstStepTyped'
    BY <1>3, <1>5, <2>1, <2>2, <2>3, HandlerGoes
  <2> QED BY <1>1, <1>5, <2>4, HostsStay, ChoicesStay, RestTyped
<1> QED BY <1>4, <1>5 DEF Validated

LEMMA PathCheckedKeeps == ASSUME WizardInv, PathChecked PROVE WizardInv'
<1> DEFINE c == flow["continue"].form
<1> DEFINE code == IF c.target = "remote_host" THEN c.session ELSE NoToken
<1>1. /\ flow["continue"].at = "path" /\ "continue" \in Handlers /\ Chosen(c, code)
      /\ Access(IF c.target = "remote_host" THEN c.url ELSE Local, c.session)
      /\ UNCHANGED <<host, remoteBase, init, serving, override, overtaken, clicks>>
  BY DEF PathChecked, Handlers
<1>2. c \in FormTypes /\ ClientIsLocal(c) /\ c.session \in Keys
  BY <1>1, GoingShape
<1>3. code \in Keys
  BY <1>2 DEF Keys
<1>4. wizard.step = 1
  BY <1>1 DEF WizardInv, FirstStepGone, Idle
<1>5. c.target = "remote_host" /\ c.url \in Hosts => code[1] = c.url
  BY <1>1 DEF Access
<1> HIDE DEF c, code
<1> QED BY <1>1, <1>2, <1>3, <1>4, <1>5, ChosenKeeps

----------------------------------------------------------------------------
LEMMA ClickCounted ==
    ASSUME WizardInv, clicks < MaxClicks, clicks' = clicks + 1
    PROVE  clicks' \in 0 .. MaxClicks
BY RestTyped DEF WizardAssumption

\* The user edits the form.
LEMMA FormEdited ==
    ASSUME WizardInv, NEW f \in FormTypes, ClientIsLocal(f), Edit(f), clicks' \in 0 .. MaxClicks
    PROVE  WizardInv'
<1>1. UNCHANGED <<host, remoteBase, flow, wizard, init, serving, override, overtaken>> /\ form' = f
  BY DEF Edit
<1>2. FirstStepTyped'
  BY <1>1, WizardTyped DEF WizardInv, FirstStepTyped, FlowListed, FormsPlain, FirstStepGone, Going
<1> QED BY <1>1, <1>2, HostsStay, ChoicesStay, RestTyped

\* The user starts a handler.
LEMMA HandlerBegins ==
    ASSUME WizardInv, NEW h \in Handlers, NEW q \in {[at |-> "discover"]} \cup Going, Go(h, q),
           q.at \in {"validate", "claim", "path"} => ClientIsLocal(q.form),
           wizard.step = 1, form' \in FormTypes, ClientIsLocal(form'), clicks' \in 0 .. MaxClicks,
           UNCHANGED <<host, remoteBase, wizard, init, serving, override, overtaken>>
    PROVE  WizardInv'
<1>1. FirstStepTyped'
  BY HandlerGoes
<1> QED BY <1>1, HostsStay, ChoicesStay, RestTyped

LEMMA EditingKeeps ==
    ASSUME WizardInv, clicks' \in 0 .. MaxClicks,
           \/ \E t \in {"local_machine", "remote_host"} : SetTarget(t)
           \/ \E p \in Places : EditUrl(p) \/ ChooseServer(p)
           \/ \E code \in Keys : EditToken(code)
    PROVE  WizardInv'
<1>1. ASSUME NEW t \in {"local_machine", "remote_host"}, SetTarget(t) PROVE WizardInv'
  <2> DEFINE code == IF t = "local_machine" THEN NoToken ELSE form.session
  <2> DEFINE f == [form EXCEPT !.target = t, !.session = code]
  <2>1. Edit(f) /\ form.mode = "server_client"
    BY <1>1 DEF SetTarget
  <2>2. code \in Keys /\ t \in Targets
    BY RestTyped DEF Keys, Targets
  <2> HIDE DEF code
  <2>3. f \in FormTypes /\ ClientIsLocal(f)
    BY <2>1, <2>2, RestTyped, FormsMade, Zenon
  <2> HIDE DEF f
  <2> QED BY <2>1, <2>3, FormEdited
<1>2. ASSUME NEW p \in Places, EditUrl(p) PROVE WizardInv'
  <2>1. CASE Edit([form EXCEPT !.url = p, !.validated = NoPlace])
    BY <1>2, <2>1, RestTyped, FormsMade, FormEdited, Zenon
  <2>2. CASE Edit([form EXCEPT !.url = p, !.validated = NoPlace, !.session = NoToken])
    BY <1>2, <2>2, RestTyped, FormsMade, FormEdited, Zenon
  <2> QED BY <1>2, <2>1, <2>2, Zenon DEF EditUrl
<1>3. ASSUME NEW p \in Places, ChooseServer(p) PROVE WizardInv'
  <2>1. Edit([form EXCEPT !.url = p, !.validated = p])
    BY <1>3, Zenon DEF ChooseServer
  <2> QED BY <1>3, <2>1, RestTyped, FormsMade, FormEdited, Zenon
<1>4. ASSUME NEW code \in Keys, EditToken(code) PROVE WizardInv'
  <2>1. Edit([form EXCEPT !.token = code, !.session = NoToken])
    BY <1>4 DEF EditToken
  <2> QED BY <1>4, <2>1, RestTyped, FormsMade, FormEdited, Zenon
<1> QED BY <1>1, <1>2, <1>3, <1>4

LEMMA SetModeKeeps ==
    ASSUME WizardInv, clicks' \in 0 .. MaxClicks, wizard.step = 1, NEW mode \in Modes, SetMode(mode)
    PROVE  WizardInv'
<1> DEFINE f == [form EXCEPT !.mode = mode, !.target = "local_machine"]
<1>1. form' = f /\ UNCHANGED <<host, remoteBase, wizard, init, serving, override, overtaken>>
  BY DEF SetMode
<1>2. f \in FormTypes /\ ClientIsLocal(f)
  BY RestTyped, FormsMade, Zenon
<1> HIDE DEF f
<1>3. CASE UNCHANGED flow
  BY <1>1, <1>2, <1>3, FormEdited DEF Edit
<1>4. CASE Go("discover", [at |-> "discover"])
  <2>1. "discover" \in Handlers
    BY DEF Handlers
  <2> QED BY <1>1, <1>2, <1>4, <2>1, HandlerBegins
<1> QED BY <1>3, <1>4 DEF SetMode, Go

\* A handler starts with the form as it is.
LEMMA BeginKeeps ==
    ASSUME WizardInv, clicks' \in 0 .. MaxClicks, wizard.step = 1,
           NEW h \in Handlers, NEW at \in {"validate", "path"}, Begin(h, at)
    PROVE  WizardInv'
<1> DEFINE q == [at |-> at, form |-> form, mounted |-> TRUE]
<1>1. Go(h, q) /\ UNCHANGED <<host, remoteBase, form, wizard, init, serving, override, overtaken>>
  BY DEF Begin
<1>2. q \in Going /\ q.form = form
  BY RestTyped, GoingMade
<1> HIDE DEF q
<1> QED BY <1>1, <1>2, RestTyped, HandlerBegins

LEMMA StartingKeeps ==
    ASSUME WizardInv, clicks' \in 0 .. MaxClicks, wizard.step = 1,
           DiscoverServers \/ ValidateClicked \/ ClaimClicked \/ ContinueClicked
    PROVE  WizardInv'
<1> "validate" \in Handlers /\ "claim" \in Handlers /\ "continue" \in Handlers /\ "discover" \in Handlers
  BY DEF Handlers
<1>1. CASE DiscoverServers
  <2>1. /\ Go("discover", [at |-> "discover"])
        /\ UNCHANGED <<host, remoteBase, form, wizard, init, serving, override, overtaken>>
    BY <1>1 DEF DiscoverServers
  <2> QED BY <2>1, RestTyped, HandlerBegins
<1>2. CASE ValidateClicked
  BY <1>2, BeginKeeps DEF ValidateClicked
<1>3. CASE ClaimClicked
  BY <1>3, BeginKeeps DEF ClaimClicked
<1>4. CASE ContinueClicked
  BY <1>4, BeginKeeps DEF ContinueClicked
<1> QED BY <1>1, <1>2, <1>3, <1>4

----------------------------------------------------------------------------
\* A step is left for another one, with what was chosen or with nothing.
LEMMA StepTaken ==
    ASSUME WizardInv, clicks' \in 0 .. MaxClicks, NEW w \in WizardTypes, Step(w), init = Idle,
           wizard.step # 1, w.step # 4, ClientIsLocal(w),
           w.url = NoPlace <=> w.mode = "server_client" /\ w.target = "local_machine",
           w.step # 1 /\ w.target = "remote_host" /\ w.url \in Hosts => w.session[1] = w.url
    PROVE  WizardInv'
<1>1. wizard' = w /\ UNCHANGED <<host, remoteBase, form, flow, init, serving, override, overtaken>>
  BY DEF Step
<1>2. WizardTypeOK' /\ FlowListed'
  BY <1>1, WizardTyped, RestTyped DEF WizardInv, WizardTypeOK, FlowListed, WizardTypes
<1>3. FormsPlain' /\ FirstStepGone'
  BY <1>1 DEF WizardInv, FormsPlain, FirstStepGone
<1>4. ChoiceMade' /\ SessionStaysHome' /\ FinishedMeansReady'
  BY <1>1 DEF ChoiceMade, SessionStaysHome, FinishedMeansReady
<1>5. InitFollowsChoice' /\ InitProgress'
  BY <1>1 DEF InitFollowsChoice, InitProgress
<1> QED BY <1>2, <1>3, <1>4, <1>5 DEF WizardInv

LEMMA StepMade ==
    ASSUME NEW w \in WizardTypes, NEW s \in 1 .. 4
    PROVE  /\ [w EXCEPT !.step = s] \in WizardTypes
           /\ [w EXCEPT !.step = s].step = s
           /\ [w EXCEPT !.step = s].mode = w.mode
           /\ [w EXCEPT !.step = s].target = w.target
           /\ [w EXCEPT !.step = s].url = w.url
           /\ [w EXCEPT !.step = s].session = w.session
BY DEF WizardTypes

LEMMA StepsKeep ==
    ASSUME WizardInv, clicks' \in 0 .. MaxClicks, Step2Continue \/ GoBack \/ ResetWizard
    PROVE  WizardInv'
<1>1. /\ wizard \in WizardTypes /\ wizard.step \in 1 .. 4 /\ ClientIsLocal(wizard)
      /\ wizard.url = NoPlace <=> wizard.mode = "server_client" /\ wizard.target = "local_machine"
  BY RestTyped DEF WizardInv, ChoiceMade, WizardTypes
<1>2. wizard.step # 3 => init = Idle
  BY DEF WizardInv, InitFollowsChoice
<1>3. ASSUME NEW s \in 1 .. 3, Step([wizard EXCEPT !.step = s]), init = Idle, wizard.step \in {2, 3}
      PROVE  WizardInv'
  <2> DEFINE v == [wizard EXCEPT !.step = s]
  <2>1. /\ v \in WizardTypes /\ v.step = s /\ v.mode = wizard.mode /\ v.target = wizard.target
        /\ v.url = wizard.url /\ v.session = wizard.session
    <3>1. s \in 1 .. 4
      OBVIOUS
    <3> QED BY <1>1, <3>1, StepMade
  <2>2. ClientIsLocal(v)
    BY <1>1, <2>1 DEF ClientIsLocal
  <2>3. v.target = "remote_host" /\ v.url \in Hosts => v.session[1] = v.url
    BY <1>3, <2>1 DEF WizardInv, SessionStaysHome
  <2>4. Step(v)
    BY <1>3
  <2> HIDE DEF v
  <2> QED BY <1>1, <1>3, <2>1, <2>2, <2>3, <2>4, StepTaken
<1>4. CASE Step2Continue
  BY <1>2, <1>3, <1>4 DEF Step2Continue
<1>5. CASE GoBack
  <2> DEFINE s == IF wizard.mode = "client_only" THEN 1 ELSE wizard.step - 1
  <2>1. s \in 1 .. 3 /\ Step([wizard EXCEPT !.step = s]) /\ init = Idle /\ wizard.step \in {2, 3}
    BY <1>1, <1>5 DEF GoBack
  <2> HIDE DEF s
  <2> QED BY <1>3, <2>1
<1>6. CASE ResetWizard
  BY <1>2, <1>6, NoChoiceTyped, StepTaken DEF ResetWizard
<1> QED BY <1>4, <1>5, <1>6

----------------------------------------------------------------------------
\* The initialisation moves on; the choices and the hosts stay.
LEMMA InitMoves ==
    ASSUME WizardInv, UNCHANGED <<host, remoteBase, form, flow, wizard, override, overtaken>>,
           clicks' \in 0 .. MaxClicks, serving' \subseteq Requests,
           init' \in {Idle} \cup Inits, InitFollowsChoice', InitProgress'
    PROVE  WizardInv'
<1>1. WizardTypeOK' /\ FlowListed'
  BY WizardTyped, RestTyped DEF WizardInv, WizardTypeOK, FlowListed, Inits
<1>2. FormsPlain' /\ FirstStepGone' /\ ChoiceMade' /\ SessionStaysHome' /\ FinishedMeansReady'
  BY DEF WizardInv, FormsPlain, FirstStepGone, ChoiceMade, SessionStaysHome, FinishedMeansReady, ClientIsLocal
<1> QED BY <1>1, <1>2 DEF WizardInv

LEMMA InitMade ==
    /\ \A at \in {"remote", "local", "client"}, s \in BOOLEAN :
         /\ [at |-> at, sent |-> s] \in Inits /\ [at |-> at, sent |-> s] # Idle
         /\ [at |-> at, sent |-> s].at = at /\ [at |-> at, sent |-> s].sent = s
    /\ \A i \in Inits : /\ [i EXCEPT !.sent = TRUE] \in Inits /\ [i EXCEPT !.sent = TRUE].at = i.at
                        /\ i.at \in {"remote", "local", "client"} /\ i.sent \in BOOLEAN
BY DEF Inits, Idle

\* What is asked for is a setup of the place that was chosen.
LEMMA RequestTyped ==
    ASSUME WizardInv, init # Idle
    PROVE  /\ Request(init.at) \in Requests
           /\ init \in Inits /\ init.at \in {"remote", "local", "client"}
           /\ init.at \in {"remote", "client"} => wizard.url \in Places
<1>1. init \in Inits /\ init.at \in {"remote", "local", "client"}
  BY RestTyped DEF Inits
<1>2. init.at \in {"remote", "client"} => wizard.url \in Places
  BY RestTyped DEF WizardInv, InitFollowsChoice, WizardTypes
<1>3. CASE init.at = "remote"
  BY <1>1, <1>2, <1>3 DEF Request, Requests
<1>4. CASE init.at = "local"
  BY <1>1, <1>2, <1>4 DEF Request, Requests, Places
<1>5. CASE init.at = "client"
  BY <1>1, <1>2, <1>5 DEF Request, Requests, Places
<1> QED BY <1>1, <1>2, <1>3, <1>4, <1>5

LEMMA InitializeKeeps ==
    ASSUME WizardInv, clicks' \in 0 .. MaxClicks, Initialize
    PROVE  WizardInv'
<1> DEFINE at == IF wizard.mode = "client_only" THEN "client"
                 ELSE IF wizard.target = "remote_host" THEN "remote" ELSE "local"
<1>1. /\ wizard.step = 3 /\ init' = [at |-> at, sent |-> FALSE]
      /\ UNCHANGED <<host, remoteBase, form, flow, wizard, serving, override, overtaken>>
  BY DEF Initialize
<1>2. init' \in Inits /\ init'.at = at /\ init'.sent = FALSE
  BY <1>1, InitMade
<1>3. wizard.mode \in Modes /\ wizard.target \in Targets
  BY RestTyped DEF WizardTypes
<1>4. ChoiceMade
  BY DEF WizardInv
<1>5. InitFollowsChoice'
  BY <1>1, <1>2, <1>3, <1>4 DEF InitFollowsChoice, ChoiceMade, Modes, Targets
<1>6. InitProgress'
  BY <1>1, <1>2 DEF InitProgress
<1> QED BY <1>1, <1>2, <1>5, <1>6, InitMoves, RestTyped

LEMMA AcceptedKeeps == ASSUME WizardInv, Accepted PROVE WizardInv'
<1>1. /\ init # Idle /\ ~init.sent /\ host[Request(init.at).place].ready = "no"
      /\ init' = [init EXCEPT !.sent = TRUE]
      /\ UNCHANGED <<host, remoteBase, form, flow, wizard, serving, override, overtaken, clicks>>
  BY DEF Accepted
<1>2. init \in Inits
  BY <1>1, RequestTyped
<1>3. init' \in Inits /\ init'.at = init.at
  BY <1>1, <1>2, InitMade
<1>4. InitFollowsChoice'
  BY <1>1, <1>3 DEF WizardInv, InitFollowsChoice
<1>5. init.at # "remote" => Request(init.at).place = Local
  BY DEF Request
<1>6. InitProgress'
  BY <1>1, <1>3, <1>5 DEF WizardInv, InitProgress
<1> QED BY <1>1, <1>3, <1>4, <1>6, InitMoves, RestTyped

LEMMA InitStopsKeeps == ASSUME WizardInv, InitFails \/ InitTimesOut PROVE WizardInv'
<1>1. /\ init # Idle /\ init' = Idle /\ serving' \subseteq serving \cup {Request(init.at)}
      /\ UNCHANGED <<host, remoteBase, form, flow, wizard, override, overtaken, clicks>>
  BY DEF InitFails, InitTimesOut
<1>2. serving' \subseteq Requests
  BY <1>1, RequestTyped, RestTyped
<1>3. InitFollowsChoice' /\ InitProgress'
  BY <1>1 DEF InitFollowsChoice, InitProgress, Idle
<1> QED BY <1>1, <1>2, <1>3, InitMoves, RestTyped

LEMMA LoadPageKeeps ==
    ASSUME WizardInv, clicks' \in 0 .. MaxClicks, NEW known \in BOOLEAN, LoadPage(known)
    PROVE  WizardInv'
<1>1. /\ form' = EmptyForm /\ flow' = [h \in Handlers |-> Idle] /\ wizard' = NoChoice /\ init' = Idle
      /\ serving' = IF init # Idle /\ init.sent THEN serving \cup {Request(init.at)} ELSE serving
      /\ override' = IF known /\ host[Local].ready = "client" THEN remoteBase ELSE NoPlace
      /\ UNCHANGED <<host, remoteBase, overtaken>>
  BY DEF LoadPage
<1>2. serving' \subseteq Requests /\ override' \in Places \cup {NoPlace}
  BY <1>1, RequestTyped, RestTyped
<1>3. WizardTypeOK' /\ FlowListed'
  BY <1>1, <1>2, EmptyFormTyped, NoChoiceTyped, WizardTyped, RestTyped
     DEF WizardInv, WizardTypeOK, FlowListed, WizardTypes
<1>4. FormsPlain' /\ FirstStepGone'
  BY <1>1, EmptyFormTyped, NoChoiceTyped DEF FormsPlain, FirstStepGone, Idle
<1>5. ChoiceMade' /\ SessionStaysHome' /\ FinishedMeansReady' /\ InitFollowsChoice' /\ InitProgress'
  BY <1>1, NoChoiceTyped
     DEF ChoiceMade, SessionStaysHome, FinishedMeansReady, InitFollowsChoice, InitProgress
<1> QED BY <1>3, <1>4, <1>5 DEF WizardInv

----------------------------------------------------------------------------
\* A machine that is set up: it and no other changes.
LEMMA ConfiguredTyped ==
    ASSUME WizardInv, NEW r \in Requests, Configure(r)
    PROVE  /\ host' \in [Places -> HostTypes] /\ remoteBase' \in Places \cup {NoPlace}
           /\ r.place \in Places /\ host'[r.place].ready = IF r.as = "client" THEN "client" ELSE "wizard"
           /\ \A p \in Places \ {r.place} : host'[p] = host[p]
           /\ remoteBase' = IF r.as = "client" THEN r.base ELSE remoteBase
<1>1. r.place \in Places /\ (r.as = "client" => r.base \in Places) /\ host \in [Places -> HostTypes]
      /\ remoteBase \in Places \cup {NoPlace}
  BY RestTyped DEF Requests, Places
<1> DEFINE by == IF r.as = "client" THEN "client" ELSE "wizard"
<1>2. PICK k \in HostTypes : k = host[r.place]
  BY <1>1
<1> DEFINE q == [k EXCEPT !.ready = by, !.token = 0, !.session = 0]
<1>3. host' = [host EXCEPT ![r.place] = q]
  BY <1>1, <1>2 DEF Configure, Configured
<1>4. by \in {"wizard", "other", "client"}
  OBVIOUS
<1> HIDE DEF by
<1>5. q \in HostTypes /\ q.ready = by
  BY <1>4, HostsMade, Zenon
<1> HIDE DEF q
<1> QED BY <1>1, <1>3, <1>5 DEF Configure, by

LEMMA GivenUpEndsKeeps == ASSUME WizardInv, NEW r \in serving, GivenUpEnds(r) PROVE WizardInv'
<1>1. r \in Requests /\ serving' \subseteq Requests
      /\ UNCHANGED <<form, flow, wizard, init, override, clicks>>
  BY RestTyped DEF GivenUpEnds
<1>2. CASE Configure(r) /\ overtaken' = TRUE
  <2>1. host' \in [Places -> HostTypes] /\ remoteBase' \in Places \cup {NoPlace}
    BY <1>1, <1>2, ConfiguredTyped
  <2>2. WizardTypeOK' /\ FlowListed'
    BY <1>1, <1>2, <2>1, WizardTyped, RestTyped DEF WizardInv, WizardTypeOK, FlowListed, HostTypes
  <2> QED BY <1>1, <1>2, <2>2 DEF WizardInv, FormsPlain, FirstStepGone, ChoiceMade, SessionStaysHome,
                                  FinishedMeansReady, InitFollowsChoice, InitProgress, ClientIsLocal
<1>3. CASE UNCHANGED <<host, remoteBase, overtaken>>
  BY <1>1, <1>3, FirstStepStays, HostsStay, ChoicesStay, RestTyped
<1> QED BY <1>2, <1>3 DEF GivenUpEnds

LEMMA RemoteDoneKeeps == ASSUME WizardInv, RemoteDone PROVE WizardInv'
<1>1. /\ init # Idle /\ init.at = "remote" /\ Configure(Request("remote"))
      /\ init' = [at |-> "client", sent |-> FALSE]
      /\ UNCHANGED <<form, flow, wizard, serving, override, overtaken, clicks>>
  BY DEF RemoteDone
<1>2. /\ Request("remote") \in Requests /\ wizard.url \in Places
      /\ Request("remote").place = wizard.url /\ Request("remote").as = "server"
  BY <1>1, RequestTyped DEF Request
<1>3. host' \in [Places -> HostTypes] /\ remoteBase' \in Places \cup {NoPlace}
      /\ host'[wizard.url].ready = "wizard"
  BY <1>1, <1>2, ConfiguredTyped
<1>4. init' \in Inits /\ init'.at = "client" /\ init'.sent = FALSE /\ init' # Idle
  BY <1>1, InitMade
<1>5. wizard.step = 3 /\ wizard.url # NoPlace
  BY <1>1 DEF WizardInv, InitFollowsChoice
<1>6. WizardTypeOK' /\ FlowListed'
  BY <1>1, <1>3, <1>4, WizardTyped, RestTyped DEF WizardInv, WizardTypeOK, FlowListed, HostTypes, Inits
<1>7. FormsPlain' /\ FirstStepGone' /\ ChoiceMade' /\ SessionStaysHome'
  BY <1>1 DEF WizardInv, FormsPlain, FirstStepGone, ChoiceMade, SessionStaysHome, ClientIsLocal
<1>8. FinishedMeansReady' /\ InitFollowsChoice'
  BY <1>1, <1>4, <1>5 DEF FinishedMeansReady, InitFollowsChoice
<1>9. InitProgress'
  BY <1>1, <1>3, <1>4 DEF InitProgress
<1> QED BY <1>6, <1>7, <1>8, <1>9 DEF WizardInv

\* The last answer: this machine was not set up, so it is not the server that
\* was chosen, and what the host reached stays.
LEMMA InitDoneKeeps == ASSUME WizardInv, InitDone PROVE WizardInv'
<1> DEFINE r == Request(init.at)
<1> DEFINE v == [wizard EXCEPT !.step = 4]
<1>1. /\ init # Idle /\ init.at # "remote" /\ init.sent /\ Configure(r) /\ wizard' = v /\ init' = Idle
      /\ override' = IF init.at = "client" THEN wizard.url ELSE NoPlace
      /\ UNCHANGED <<form, flow, serving, overtaken, clicks>>
  BY DEF InitDone
<1>2. /\ r \in Requests /\ r.place = Local /\ init.at \in {"local", "client"}
      /\ r.as = IF init.at = "client" THEN "client" ELSE "server"
      /\ (init.at = "client" => r.base = wizard.url /\ wizard.url \in Places)
  BY <1>1, RequestTyped DEF Request
<1>3. /\ v \in WizardTypes /\ v.step = 4 /\ v.mode = wizard.mode /\ v.target = wizard.target
      /\ v.url = wizard.url /\ v.session = wizard.session
  <2>1. wizard \in WizardTypes /\ 4 \in 1 .. 4
    BY RestTyped
  <2> QED BY <2>1, StepMade
<1> HIDE DEF r, v
<1>4. /\ host' \in [Places -> HostTypes] /\ remoteBase' \in Places \cup {NoPlace}
      /\ host'[Local].ready = IF init.at = "client" THEN "client" ELSE "wizard"
      /\ \A p \in Places \ {Local} : host'[p] = host[p]
      /\ (init.at = "client" => remoteBase' = wizard.url)
  BY <1>1, <1>2, ConfiguredTyped
<1>5. wizard.step = 3 /\ (init.at = "local" => wizard.url = NoPlace)
      /\ (init.at = "client" => wizard.url # NoPlace)
  BY <1>1 DEF WizardInv, InitFollowsChoice
<1>6. WizardTypeOK' /\ FlowListed'
  <2>1. override' \in Places \cup {NoPlace}
    BY <1>1, <1>2
  <2> QED BY <1>1, <1>3, <1>4, <2>1, WizardTyped, RestTyped
             DEF WizardInv, WizardTypeOK, FlowListed, HostTypes, WizardTypes
<1>7. FormsPlain' /\ FirstStepGone'
  BY <1>1, <1>3, <1>5 DEF WizardInv, FormsPlain, FirstStepGone
<1>8. ChoiceMade' /\ SessionStaysHome' /\ InitFollowsChoice' /\ InitProgress'
  BY <1>1, <1>3 DEF WizardInv, ChoiceMade, ClientIsLocal, SessionStaysHome, InitFollowsChoice, InitProgress
<1>9. FinishedMeansReady'
  <2> SUFFICES ASSUME ~overtaken
               PROVE  IF wizard.url = NoPlace THEN host'[Local].ready = "wizard" /\ override' = NoPlace
                      ELSE /\ host'[Local].ready = "client"
                           /\ remoteBase' = wizard.url /\ override' = wizard.url
                           /\ wizard.mode = "server_client" => host'[wizard.url].ready = "wizard"
    BY <1>1, <1>3 DEF FinishedMeansReady
  <2>1. CASE init.at = "local"
    BY <1>1, <1>4, <1>5, <2>1
  <2>2. CASE init.at = "client"
    <3>1. host[Local].ready = "no" /\ (wizard.mode = "server_client" => host[wizard.url].ready = "wizard")
      BY <1>1, <2>2 DEF WizardInv, InitProgress
    <3>2. wizard.mode = "server_client" => wizard.url # Local
      BY <3>1
    <3> QED BY <1>1, <1>2, <1>4, <1>5, <2>2, <3>1, <3>2
  <2> QED BY <1>2, <2>1, <2>2
<1> QED BY <1>6, <1>7, <1>8, <1>9 DEF WizardInv

----------------------------------------------------------------------------
LEMMA ClicksKeep == ASSUME WizardInv, clicks < MaxClicks, clicks' = clicks + 1, Clicks PROVE WizardInv'
<1>1. clicks' \in 0 .. MaxClicks
  BY ClickCounted
<1>2. ASSUME NEW mode \in {"server_client", "client_only"}, wizard.step = 1, SetMode(mode) PROVE WizardInv'
  BY <1>1, <1>2, SetModeKeeps DEF Modes
<1> QED BY <1>1, <1>2, EditingKeeps, StartingKeeps, StepsKeep, InitializeKeeps, LoadPageKeeps DEF Clicks

LEMMA WizardStep == WizardInv /\ [WizardNext]_wizardVars => WizardInv'
<1> SUFFICES ASSUME WizardInv, [WizardNext]_wizardVars PROVE WizardInv'
  OBVIOUS
<1>1. CASE WizardNext
  <2>1. ASSUME NEW h \in Hosts, CreateToken(h) \/ SetUpByOther(h) PROVE WizardInv'
    <3>1. UNCHANGED clicks
      BY <2>1 DEF CreateToken, SetUpByOther
    <3> QED BY <2>1, <3>1, HostActs
  <2>2. ASSUME NEW h \in Handlers, HandlerStops(h) \/ Validated(h) \/ Claimed(h) \/ ClaimLost(h)
        PROVE  WizardInv'
    BY <2>2, HandlersGoOn, ValidatedKeeps
  <2> QED BY <1>1, <2>1, <2>2, DiscoverAnsweredKeeps, PathCheckedKeeps, AcceptedKeeps, InitStopsKeeps,
             RemoteDoneKeeps, InitDoneKeeps, GivenUpEndsKeeps, ClicksKeep DEF WizardNext
<1>2. CASE UNCHANGED wizardVars
  <2>1. UNCHANGED <<host, remoteBase, form, flow, wizard, init, serving, override, overtaken, clicks>>
    BY <1>2 DEF wizardVars
  <2> QED BY <2>1, FirstStepStays, HostsStay, ChoicesStay, RestTyped
<1> QED BY <1>1, <1>2

\* The server that was chosen on the first step, and no other, is the one the
\* wizard has leave of, sets up and connects to.
THEOREM RightServerCorrect == WizardSpec => []RightServer
<1>1. WizardInv => RightServer
  BY DEF WizardInv, RightServer
<1> QED BY <1>1, WizardInvInit, WizardStep, PTL DEF WizardSpec

HIDE WizardAssumption

----------------------------------------------------------------------------
(***************************************************************************)
(* The clients and the handlers of the backups side by side: whichever     *)
(* moves, each keeps its invariant.                                        *)
(***************************************************************************)

DashboardInv == WindowInv /\ UsersInv /\ PanelInv /\ PrefsInv
DevicesInv == WizardInv /\ UpdaterInv /\ PhoneTyping /\ RestoreInv
ClientsInv == DashboardInv /\ DevicesInv

LEMMA ClientsInitial == Init => ClientsInv
BY WindowInvInit, UsersInvInit, PanelInvInit, PrefsInvInit, WizardInvInit, UpdaterInvInit,
   PhoneTypingInit, RestoreInvInit DEF Init, ClientsInv, DashboardInv, DevicesInv

\* A step of the whole is one of each part, or leaves it as it is.
LEMMA ClientsMove ==
    ASSUME [Next]_vars
    PROVE  /\ [WindowNext]_windowVars /\ [UsersNext]_usersVars
           /\ [PanelNext]_panelVars /\ [PrefsNext]_prefsVars
           /\ [WizardNext]_wizardVars /\ [UpdaterNext]_updaterVars
           /\ [PhoneNext]_phoneVars /\ [RestoreNext]_restoreVars
BY DEF Next, vars, Windows, Accounting, Configuring, Preferring, Wizards, Updates, Phones, Restores

LEMMA ClientsKept == ClientsInv /\ [Next]_vars => ClientsInv'
BY ClientsMove, WindowStep, UsersStep, PanelStep, PrefsStep, WizardStep, UpdaterInvStep,
   PhoneTypingStep, RestoreInvStep DEF ClientsInv, DashboardInv, DevicesInv

\* Every client of the run, and the handlers of the backups, keep to their
\* types, whoever moves.
THEOREM ClientsTyped == Spec => []TypesOK
<1>1. ClientsInv => TypesOK
  BY WindowTyped, UsersTyped, PanelSafe, PrefsSafe, PhoneTypingTypes
     DEF ClientsInv, DashboardInv, DevicesInv, TypesOK, WizardInv, UpdaterInv, RestoreInv
<1> QED BY <1>1, ClientsInitial, ClientsKept, PTL DEF Spec
============================================================================
