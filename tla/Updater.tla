------------------------------ MODULE Updater ------------------------------
(***************************************************************************)
(* The updater of the desktop application: the one status that checks,     *)
(* downloads and the updater's events all write, the installation of what  *)
(* was downloaded, and the backup that precedes the first start of another *)
(* version.  A release without the updater's metadata is looked for on     *)
(* GitHub, and installed by hand.                                          *)
(*                                                                         *)
(* The IPC handlers are asynchronous and none of them excludes another:    *)
(* the page that disables its buttons may be loaded anew.                  *)
(***************************************************************************)
EXTENDS Naturals

CONSTANTS Versions,      \* versions of the application
          MaxFallbacks   \* bound on the requests to GitHub on their way

ASSUME UpdaterAssumption == Versions \subseteq Nat \ {0} /\ MaxFallbacks \in Nat

VARIABLES
    app,         \* how far the application is
    version,     \* app.getVersion()
    stateFile,   \* the version in update-state.json
    status,      \* updateStatus
    native,      \* the package of autoUpdater has been downloaded
    checking,    \* autoUpdater.checkForUpdates on its way
    fallbacks,   \* checkForUpdatesViaGithubFallback on their way
    downloads,   \* downloads on their way
    installer,   \* a package to install by hand was handed to the user
    dataVersion, \* the version whose engine ran on the data last
    covered,     \* auxiliary: backed up, or tried to, since that engine ran
    torn,        \* auxiliary: update-state.json was lost, or not written
    exposed      \* auxiliary: another version ran on data that was not covered

updaterVars == <<app, version, stateFile, status, native, checking, fallbacks, downloads,
                 installer, dataVersion, covered, torn, exposed>>

Missing == 0
States == {"idle", "checking", "available", "not-available", "downloading", "downloaded", "error"}
Ready == [state |-> "idle", manual |-> FALSE, url |-> FALSE, file |-> FALSE]

\* Installed for the first time, or over a version that ran and recorded it.
UpdaterInit ==
    /\ app = "off"
    /\ version \in Versions
    /\ stateFile \in Versions \cup {Missing}
    /\ status = Ready
    /\ native = FALSE
    /\ checking = FALSE
    /\ fallbacks = 0
    /\ downloads = {}
    /\ installer = FALSE
    /\ dataVersion = stateFile
    /\ covered = FALSE
    /\ torn = FALSE
    /\ exposed = FALSE

files == <<version, stateFile, dataVersion, covered, torn, exposed>>

----------------------------------------------------------------------------
(* The start *)

\* configureAutoUpdater.
Launch ==
    /\ app = "off"
    /\ app' = "launched"
    /\ status' = Ready
    /\ UNCHANGED <<files, native, checking, fallbacks, downloads, installer>>

\* Fault: the version is recorded before its backup is made.
RecordFirst ==
    /\ app = "launched"
    /\ app' = "covered"
    /\ stateFile' = version
    /\ UNCHANGED <<version, status, native, checking, fallbacks, downloads, installer,
                   dataVersion, covered, torn, exposed>>

\* ensureUpgradeBackupOnVersionChange: another version than the one recorded
\* backs the data up; a backup that fails is reported, and the start goes on.
CoverUpgrade ==
    /\ app = "launched"
    /\ app' = "covered"
    /\ IF stateFile \notin {Missing, version}
       THEN /\ covered' = TRUE
            /\ status' \in {status, [status EXCEPT !.state = "error"]}
       ELSE UNCHANGED <<covered, status>>
    /\ UNCHANGED <<version, stateFile, native, checking, fallbacks, downloads, installer,
                   dataVersion, torn, exposed>>

RecordVersion ==
    /\ app = "covered"
    /\ app' = "recorded"
    /\ stateFile' = version
    /\ UNCHANGED <<version, status, native, checking, fallbacks, downloads, installer,
                   dataVersion, covered, torn, exposed>>

\* The directories of the backup cannot be made, or the record not be written:
\* the start goes on.
CoverFails ==
    /\ \/ app = "launched" /\ stateFile \notin {Missing, version}
       \/ app = "covered"
    /\ app' = "recorded"
    /\ covered' = (covered \/ app = "launched")
    /\ stateFile' \in IF app = "covered" THEN {stateFile, Missing} ELSE {stateFile}
    /\ torn' = TRUE
    /\ UNCHANGED <<version, status, native, checking, fallbacks, downloads, installer,
                   dataVersion, exposed>>

\* The engine starts and migrates the data.
StartEngine ==
    /\ app = "recorded"
    /\ app' = "running"
    /\ exposed' = (exposed \/ (dataVersion \notin {Missing, version} /\ ~covered))
    /\ dataVersion' = version
    /\ covered' = FALSE
    /\ UNCHANGED <<version, stateFile, status, native, checking, fallbacks, downloads,
                   installer, torn>>

\* The application ends, at any moment; a record that is being written is lost.
Quits ==
    /\ app # "off"
    /\ app' = "off"
    /\ \/ UNCHANGED <<stateFile, torn>>
       \/ app = "covered" /\ stateFile' = Missing /\ torn' = TRUE
    /\ checking' = FALSE /\ fallbacks' = 0 /\ downloads' = {} /\ native' = FALSE
    /\ UNCHANGED <<version, status, installer, dataVersion, covered, exposed>>

\* The user installs the package by hand, or any other version.
InstallByHand(v) ==
    /\ app = "off"
    /\ v # version
    /\ version' = v
    /\ installer' = FALSE
    /\ UNCHANGED <<app, stateFile, status, native, checking, fallbacks, downloads, dataVersion,
                   covered, torn, exposed>>

----------------------------------------------------------------------------
(* Checking *)

Running == app = "running"
rest == <<app, files, installer>>

\* checkForUpdates, and the event checking-for-update.
CheckForUpdates ==
    /\ Running /\ ~checking
    /\ checking' = TRUE
    /\ status' = [status EXCEPT !.state = "checking", !.manual = FALSE, !.url = FALSE, !.file = FALSE]
    /\ UNCHANGED <<rest, native, fallbacks, downloads>>

CheckAnswered ==
    /\ Running /\ checking
    /\ checking' = FALSE
    /\ status' \in
        {[status EXCEPT !.state = "available", !.manual = FALSE, !.url = FALSE],
         [status EXCEPT !.state = "not-available", !.manual = FALSE, !.url = FALSE, !.file = FALSE],
         [status EXCEPT !.state = "error", !.manual = FALSE, !.url = FALSE]}
    /\ UNCHANGED <<rest, native, fallbacks, downloads>>

\* There is no metadata: the event and the rejected promise each ask GitHub.
MetadataMissing ==
    /\ Running /\ checking
    /\ fallbacks + 2 <= MaxFallbacks
    /\ checking' = FALSE
    /\ fallbacks' = fallbacks + 2
    /\ UNCHANGED <<rest, status, native, downloads>>

\* pickManualInstallerAsset: whether the release has a package for this system.
Installers == BOOLEAN

\* What a request to GitHub makes of the status: a release of a newer version,
\* none, or no answer (too many redirects, another status, a broken document).
NewerRelease == [state : {"available"}, manual : {TRUE}, url : Installers, file : {FALSE}]
NoNewerRelease == {[status EXCEPT !.state = "not-available", !.manual = FALSE, !.url = FALSE]}
GithubFails == {[status EXCEPT !.state = "error", !.manual = FALSE, !.url = FALSE]}

FallbackAnswered ==
    /\ Running /\ fallbacks > 0
    /\ fallbacks' = fallbacks - 1
    /\ status' \in NewerRelease \cup NoNewerRelease \cup GithubFails
    /\ UNCHANGED <<rest, native, checking, downloads>>

----------------------------------------------------------------------------
(* Downloading *)

DownloadManually ==
    /\ Running
    /\ status.manual /\ status.url
    /\ downloads' = downloads \cup {"manual"}
    /\ UNCHANGED <<rest, status, native, checking, fallbacks>>

DownloadUpdatePackage ==
    /\ Running
    /\ ~status.manual
    /\ downloads' = downloads \cup {"native"}
    /\ UNCHANGED <<rest, status, native, checking, fallbacks>>

Progress ==
    /\ Running /\ "native" \in downloads
    /\ status' = [status EXCEPT !.state = "downloading"]
    /\ UNCHANGED <<rest, native, checking, fallbacks, downloads>>

\* update-downloaded.
NativeDownloaded ==
    /\ Running /\ "native" \in downloads
    /\ downloads' = downloads \ {"native"}
    /\ native' = TRUE
    /\ status' = [state |-> "downloaded", manual |-> FALSE, url |-> FALSE, file |-> TRUE]
    /\ UNCHANGED <<rest, checking, fallbacks>>

\* The rejected promise of the download sets the error, whatever the event does;
\* an error that tells of missing metadata asks GitHub besides.
NativeFails ==
    /\ Running /\ "native" \in downloads
    /\ downloads' = downloads \ {"native"}
    /\ status' = [status EXCEPT !.state = "error", !.manual = FALSE, !.url = FALSE]
    /\ \/ UNCHANGED fallbacks
       \/ fallbacks < MaxFallbacks /\ fallbacks' = fallbacks + 1
    /\ UNCHANGED <<rest, native, checking>>

ManualDownloaded ==
    /\ Running /\ "manual" \in downloads
    /\ downloads' = downloads \ {"manual"}
    /\ status' = [state |-> "downloaded", manual |-> TRUE, url |-> TRUE, file |-> TRUE]
    /\ UNCHANGED <<rest, native, checking, fallbacks>>

ManualFails ==
    /\ Running /\ "manual" \in downloads
    /\ downloads' = downloads \ {"manual"}
    /\ status' = [status EXCEPT !.state = "error"]
    /\ UNCHANGED <<rest, native, checking, fallbacks>>

----------------------------------------------------------------------------
(* Installing *)

\* A file is opened, or the link to it; the application goes on.
RunInstaller ==
    /\ Running
    /\ status.manual /\ (status.file \/ status.url)
    /\ installer' = TRUE
    /\ UNCHANGED <<app, files, status, native, checking, fallbacks, downloads>>

\* The engine and its watchdog are stopped, the installation begins shortly.
InstallDownloadedUpdate ==
    /\ Running
    /\ ~(status.manual /\ (status.file \/ status.url))
    /\ status.state = "downloaded"
    /\ status' = [status EXCEPT !.state = "idle"]
    /\ app' = "stopped"
    /\ UNCHANGED <<files, native, checking, fallbacks, downloads, installer>>

\* quitAndInstall: the application is another version from here on.
QuitAndInstall(v) ==
    /\ app = "stopped"
    /\ native
    /\ v # version
    /\ version' = v
    /\ app' = "off"
    /\ checking' = FALSE /\ fallbacks' = 0 /\ downloads' = {} /\ native' = FALSE
    /\ UNCHANGED <<stateFile, status, installer, dataVersion, covered, torn, exposed>>

\* createPreUpdateBackup asked for by the dashboard.
BackupNow ==
    /\ Running
    /\ covered' = TRUE
    /\ UNCHANGED <<app, version, stateFile, status, native, checking, fallbacks, downloads,
                   installer, dataVersion, torn, exposed>>

UpdaterNext ==
    \/ Launch \/ CoverUpgrade \/ RecordVersion \/ CoverFails \/ StartEngine \/ Quits
    \/ CheckForUpdates \/ CheckAnswered \/ MetadataMissing \/ FallbackAnswered
    \/ DownloadManually \/ DownloadUpdatePackage \/ Progress
    \/ NativeDownloaded \/ NativeFails \/ ManualDownloaded \/ ManualFails
    \/ RunInstaller \/ InstallDownloadedUpdate \/ BackupNow
    \/ \E v \in Versions : InstallByHand(v) \/ QuitAndInstall(v)

UpdaterSpec == UpdaterInit /\ [][UpdaterNext]_updaterVars

----------------------------------------------------------------------------
UpdaterTypeOK ==
    /\ app \in {"off", "launched", "covered", "recorded", "running", "stopped"}
    /\ version \in Versions
    /\ stateFile \in Versions \cup {Missing}
    /\ status \in [state : States, manual : BOOLEAN, url : BOOLEAN, file : BOOLEAN]
    /\ native \in BOOLEAN /\ checking \in BOOLEAN
    /\ fallbacks \in 0 .. MaxFallbacks
    /\ downloads \subseteq {"native", "manual"}
    /\ installer \in BOOLEAN
    /\ dataVersion \in Versions \cup {Missing}
    /\ covered \in BOOLEAN /\ torn \in BOOLEAN /\ exposed \in BOOLEAN

\* The engine is stopped for an installation only if there is a package that
\* autoUpdater can install, whatever checks, requests to GitHub and downloads
\* by hand answered in between; otherwise the application would go on without
\* its engine.
InstallHasPackage == app = "stopped" => native

\* No version runs on data of another version that was neither backed up nor
\* tried to be since that version ran, wherever starts were cut short; unless
\* the record of the version was itself lost or could not be written.
UpgradeCovered == exposed => torn

\* Both ways in which an update could harm: a stopped engine, changed data.
UpdateSafe == InstallHasPackage /\ UpgradeCovered
=============================================================================
