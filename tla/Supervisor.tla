----------------------------- MODULE Supervisor -----------------------------
(***************************************************************************)
(* The desktop application's supervision of its backend process            *)
(* (desktop/main.ts): the start at launch, the watchdog that recovers from *)
(* an exit or from failed health checks, restarts and factory resets asked *)
(* for from the window, and the stop at quit.                              *)
(*                                                                         *)
(* Each of them is a flow of asynchronous code over the same module        *)
(* variables; an action is what a flow does between two awaits.  A child   *)
(* process is an identifier that may be used again once the process has    *)
(* ended and nothing refers to it.                                         *)
(***************************************************************************)
EXTENDS FiniteSets, Integers

CONSTANTS
    Children,     \* identifiers of processes: bounds how many exist at once
    NoChild,      \* "no process" (null)
    Restarts,     \* engine-restart and engine-quick-repair calls of the window
    Resets,       \* factory-reset calls of the window
    Ports,        \* the ports findFreePort tries, smallest first
    Runners,      \* the number of runner candidates
    MaxRestarts,  \* BACKEND_MAX_AUTO_RESTARTS
    Threshold,    \* BACKEND_MONITOR_FAIL_THRESHOLD
    SpawnFaults   \* what may go wrong in a spawn: a subset of {"error", "throw"}

ASSUME SupervisorAssumption ==
    /\ NoChild \notin Children /\ IsFiniteSet(Children)
    /\ {"boot", "auto", "quitting"} \intersect (Restarts \union Resets) = {}
    /\ Ports \subseteq Nat /\ IsFiniteSet(Ports)
    /\ Cardinality(Children) <= Cardinality(Ports)
    /\ {Runners, MaxRestarts, Threshold} \subseteq Nat \ {0}
    /\ SpawnFaults \subseteq {"error", "throw"}

Boot == "boot"          \* app.on("ready")
Watchdog == "auto"          \* autoRecoverBackend past its guards
Quitting == "quitting"  \* the stop of before-quit and window-all-closed
Flows == {Boot, Watchdog, Quitting} \union Restarts \union Resets

VARIABLES
    child,               \* the processes: life, port, last signal, exit listener
    flow,                \* where each flow is, and its local variables
    backendProcess, currentBackendPort, backendStarting, backendLastError,
    backendAutoRestartInFlight, appQuitting,
    backendCrashes,      \* number of timestamps in backendCrashTimestamps
    probe, probeFailures \* the health monitor

vars == <<child, flow, backendProcess, currentBackendPort, backendStarting,
          backendLastError, backendAutoRestartInFlight, appQuitting,
          backendCrashes, probe, probeFailures>>
recovery == <<backendAutoRestartInFlight, backendCrashes>>
monitor == <<probe, probeFailures>>

-----------------------------------------------------------------------------
(* Processes and ports. *)

Gone == [life |-> "none", port |-> 0, signal |-> "none", listened |-> FALSE]

Exists(c) == child[c].life # "none"
Unsignalled(c) == Exists(c) /\ child[c].signal = "none"
Held(p) == \E c \in Children : child[c].port = p /\ child[c].life \in {"up", "hung"}
Answering(p) == \E c \in Children : child[c].port = p /\ child[c].life = "up"
FirstFreePort ==
    CHOOSE p \in Ports : ~Held(p) /\ \A q \in Ports : ~Held(q) => p <= q
TargetPort(f) ==
    IF f # Boot /\ ~Held(currentBackendPort) THEN currentBackendPort ELSE FirstFreePort

At(f, pc) == flow[f].pc = pc
GoTo(f, pc) == flow' = [flow EXCEPT ![f].pc = pc]
Leave(f, pc) == flow' = [flow EXCEPT ![f].pc = pc, ![f].child = NoChild]

Init ==
    /\ child = [c \in Children |-> Gone]
    /\ flow = [f \in Flows |->
                 [pc |-> IF f = Boot THEN "spawn" ELSE "idle",
                  child |-> NoChild, port |-> 0, runners |-> 0]]
    /\ backendProcess = NoChild
    /\ currentBackendPort \in Ports
    /\ backendStarting = FALSE /\ backendLastError = FALSE
    /\ backendAutoRestartInFlight = FALSE /\ appQuitting = FALSE
    /\ backendCrashes = 0
    /\ probe = "idle" /\ probeFailures = 0

-----------------------------------------------------------------------------
(* autoRecoverBackend up to its first await.  recordBackendCrash forgets   *)
(* the crashes that are older than the window: any number of them.         *)

AutoRecover(error) ==
    IF appQuitting \/ backendAutoRestartInFlight
    THEN backendLastError' = error /\ UNCHANGED <<flow, recovery>>
    ELSE \E recent \in 0 .. backendCrashes :
           /\ backendCrashes' = IF recent < MaxRestarts THEN recent + 1 ELSE MaxRestarts + 1
           /\ backendAutoRestartInFlight' = (recent < MaxRestarts)
           /\ backendLastError' = (error \/ recent >= MaxRestarts)
           /\ IF recent < MaxRestarts THEN GoTo(Watchdog, "sleep") ELSE UNCHANGED flow

(* stopBackendProcess up to its await: a process that was killed before is *)
(* not waited for.                                                         *)
AfterStop(f) ==
    IF f = Quitting THEN "done" ELSE IF f \in Resets THEN "wipe" ELSE "spawn"

StopBackend(f) ==
    IF backendProcess # NoChild /\ Unsignalled(backendProcess)
    THEN /\ child' = [child EXCEPT ![backendProcess].signal = "term"]
         /\ flow' = [flow EXCEPT ![f].pc = "stopping", ![f].child = backendProcess]
         /\ UNCHANGED backendProcess
    ELSE /\ backendProcess' = NoChild
         /\ GoTo(f, AfterStop(f))
         /\ UNCHANGED child

-----------------------------------------------------------------------------
(* The flows. *)

Request(f) ==
    /\ f \in Restarts \union Resets
    /\ At(f, "idle") /\ At(Boot, "done")
    /\ StopBackend(f)
    /\ backendLastError' = (backendLastError /\ f \in Resets)
    /\ UNCHANGED <<currentBackendPort, backendStarting, recovery, appQuitting, monitor>>

Wake ==
    /\ At(Watchdog, "sleep")
    /\ StopBackend(Watchdog)
    /\ backendLastError' = FALSE
    /\ UNCHANGED <<currentBackendPort, backendStarting, recovery, appQuitting, monitor>>

Quit ==
    /\ ~appQuitting
    /\ appQuitting' = TRUE
    /\ StopBackend(Quitting)
    /\ UNCHANGED <<currentBackendPort, backendStarting, backendLastError, recovery, monitor>>

StopKills(f) ==
    /\ At(f, "stopping")
    /\ Unsignalled(flow[f].child) \/ child[flow[f].child].signal = "term"
    /\ child' = [child EXCEPT ![flow[f].child].signal = "kill"]
    /\ UNCHANGED <<flow, backendProcess, currentBackendPort, backendStarting,
                   backendLastError, recovery, appQuitting, monitor>>

(* The process has exited, or half a second has passed since SIGKILL. *)
Stopped(f) ==
    /\ At(f, "stopping")
    /\ ~Exists(flow[f].child) \/ child[flow[f].child].signal = "kill"
    /\ backendProcess' = IF backendProcess = flow[f].child THEN NoChild ELSE backendProcess
    /\ Leave(f, AfterStop(f))
    /\ UNCHANGED <<child, currentBackendPort, backendStarting, backendLastError,
                   recovery, appQuitting, monitor>>

Wipe(f) ==
    /\ At(f, "wipe")
    /\ backendCrashes' = 0
    /\ GoTo(f, "spawn")
    /\ UNCHANGED <<child, backendProcess, currentBackendPort, backendStarting,
                   backendLastError, backendAutoRestartInFlight, appQuitting, monitor>>

(* One round of spawnBackend's loop over the runners, up to its await. *)
Launch(f, processes, port, runners) ==
    \E c \in Children :
        /\ processes[c].life = "none" /\ c # backendProcess
        /\ \A g \in Flows \ {f} : flow[g].child # c
        /\ child' = [processes EXCEPT ![c] = [Gone EXCEPT !.life = "starting", !.port = port]]
        /\ flow' = [flow EXCEPT ![f] = [pc |-> "adopt", child |-> c,
                                        port |-> port, runners |-> runners]]

Failed(f) == IF f = Boot THEN "failed" ELSE "tail"

NextRunner(f, processes) ==
    IF flow[f].runners > 1
    THEN Launch(f, processes, flow[f].port, flow[f].runners - 1) /\ UNCHANGED backendStarting
    ELSE child' = processes /\ backendStarting' = FALSE /\ Leave(f, Failed(f))

Spawn(f) ==
    /\ At(f, "spawn")
    /\ backendStarting' = TRUE
    /\ backendLastError' = FALSE
    /\ Launch(f, child, TargetPort(f), Runners)
    /\ currentBackendPort' = IF f = Boot THEN TargetPort(f) ELSE currentBackendPort
    /\ UNCHANGED <<backendProcess, recovery, appQuitting, monitor>>

(* resolveBackendEntry, mkdirSync or spawn itself throws. *)
SpawnThrows(f) ==
    /\ "throw" \in SpawnFaults
    /\ At(f, "spawn")
    /\ backendStarting' = TRUE
    /\ backendLastError' = TRUE
    /\ Leave(f, Failed(f))
    /\ currentBackendPort' = IF f = Boot THEN TargetPort(f) ELSE currentBackendPort
    /\ UNCHANGED <<child, backendProcess, recovery, appQuitting, monitor>>

(* The "error" event in place of "spawn": there is no process. *)
SpawnErrs(f) ==
    /\ "error" \in SpawnFaults
    /\ At(f, "adopt")
    /\ NextRunner(f, [child EXCEPT ![flow[f].child] = Gone])
    /\ backendLastError' = (backendLastError \/ flow[f].runners = 1)
    /\ UNCHANGED <<backendProcess, currentBackendPort, recovery, appQuitting, monitor>>

(* Fault: the port of the new process is only stored once it is ready. *)
AdoptWithoutPort(f) ==
    /\ At(f, "adopt")
    /\ backendProcess' = flow[f].child
    /\ child' = [child EXCEPT ![flow[f].child].listened = TRUE]
    /\ GoTo(f, "waiting")
    /\ UNCHANGED <<currentBackendPort, backendStarting, backendLastError, recovery,
                   appQuitting, monitor>>

Adopt(f) ==
    /\ At(f, "adopt")
    /\ backendProcess' = flow[f].child
    /\ currentBackendPort' = flow[f].port
    /\ child' = [child EXCEPT ![flow[f].child].listened = TRUE]
    /\ GoTo(f, "waiting")
    /\ UNCHANGED <<backendStarting, backendLastError, recovery, appQuitting, monitor>>

(* waitForBackend accepts whichever process answers on the port. *)
Ready(f) ==
    /\ At(f, "waiting") /\ Answering(flow[f].port)
    /\ backendCrashes' = 0
    /\ backendStarting' = FALSE
    /\ currentBackendPort' = flow[f].port
    /\ Leave(f, "tail")
    /\ UNCHANGED <<child, backendProcess, backendLastError,
                   backendAutoRestartInFlight, appQuitting, monitor>>

(* Fault: a process that did not start in time is dropped, not killed. *)
TimedOutWithoutKill(f) ==
    /\ At(f, "waiting") /\ ~Answering(flow[f].port)
    /\ backendProcess' = NoChild
    /\ backendLastError' = TRUE
    /\ NextRunner(f, child)
    /\ UNCHANGED <<currentBackendPort, recovery, appQuitting, monitor>>

(* Fault: the error of a start that failed is not kept. *)
TimedOutSilently(f) ==
    /\ At(f, "waiting") /\ ~Answering(flow[f].port)
    /\ backendProcess' = NoChild
    /\ NextRunner(f, IF Exists(flow[f].child)
                     THEN [child EXCEPT ![flow[f].child].signal = "kill"] ELSE child)
    /\ UNCHANGED <<backendLastError, currentBackendPort, recovery, appQuitting, monitor>>

TimedOut(f) ==
    /\ At(f, "waiting") /\ ~Answering(flow[f].port)
    /\ backendProcess' = NoChild
    /\ backendLastError' = TRUE
    /\ NextRunner(f, IF Exists(flow[f].child)
                     THEN [child EXCEPT ![flow[f].child].signal = "kill"] ELSE child)
    /\ UNCHANGED <<currentBackendPort, recovery, appQuitting, monitor>>

(* The window was reloaded and getEngineStatus has answered. *)
Finish(f) ==
    /\ At(f, "tail")
    /\ GoTo(f, IF f = Watchdog THEN "idle" ELSE "done")
    /\ backendAutoRestartInFlight' = (backendAutoRestartInFlight /\ f # Watchdog)
    /\ probe' = IF f = Watchdog /\ probe = "recovering" THEN "idle" ELSE probe
    /\ UNCHANGED <<child, backendProcess, currentBackendPort, backendStarting,
                   backendLastError, backendCrashes, appQuitting, probeFailures>>

-----------------------------------------------------------------------------
(* The processes, and the listener of their exit. *)

ChildListens(c) ==
    /\ Unsignalled(c) /\ child[c].life = "starting" /\ ~Held(child[c].port)
    /\ child' = [child EXCEPT ![c].life = "up"]
    /\ UNCHANGED <<flow, backendProcess, currentBackendPort, backendStarting,
                   backendLastError, recovery, appQuitting, monitor>>

ChildHangs(c) ==
    /\ child[c].life = "up"
    /\ child' = [child EXCEPT ![c].life = "hung"]
    /\ UNCHANGED <<flow, backendProcess, currentBackendPort, backendStarting,
                   backendLastError, recovery, appQuitting, monitor>>

(* Fault: the listener does not look at which process has exited. *)
ChildExitsUnchecked(c) ==
    /\ Exists(c) /\ child[c].listened
    /\ child' = [child EXCEPT ![c] = Gone]
    /\ backendProcess' = NoChild
    /\ IF backendStarting
       THEN UNCHANGED <<flow, backendLastError, recovery>>
       ELSE AutoRecover(backendLastError)
    /\ UNCHANGED <<currentBackendPort, backendStarting, appQuitting, monitor>>

(* Fault: the exit of the managed process is not noted. *)
ChildExitsUnnoticed(c) ==
    /\ Exists(c) /\ child[c].listened
    /\ child' = [child EXCEPT ![c] = Gone]
    /\ IF backendStarting
       THEN UNCHANGED <<flow, backendLastError, recovery>>
       ELSE AutoRecover(backendLastError)
    /\ UNCHANGED <<backendProcess, currentBackendPort, backendStarting, appQuitting, monitor>>

(* It obeys a signal, crashes, or finds its port taken. *)
ChildExits(c) ==
    /\ Exists(c) /\ child[c].listened
    /\ child' = [child EXCEPT ![c] = Gone]
    /\ backendProcess' = IF backendProcess = c THEN NoChild ELSE backendProcess
    /\ IF backendStarting
       THEN UNCHANGED <<flow, backendLastError, recovery>>
       ELSE AutoRecover(backendLastError)
    /\ UNCHANGED <<currentBackendPort, backendStarting, appQuitting, monitor>>

-----------------------------------------------------------------------------
(* startBackendHealthMonitor: one round of the interval. *)

ProbeBegins ==
    /\ At(Boot, "done") /\ probe = "idle"
    /\ ~appQuitting /\ ~backendStarting /\ ~backendAutoRestartInFlight
    /\ backendProcess # NoChild /\ Unsignalled(backendProcess)
    /\ probe' = "asked"
    /\ UNCHANGED <<child, flow, backendProcess, currentBackendPort, backendStarting,
                   backendLastError, recovery, appQuitting, probeFailures>>

ProbeSucceeds ==
    /\ probe = "asked" /\ Answering(currentBackendPort)
    /\ probe' = "idle" /\ probeFailures' = 0
    /\ UNCHANGED <<child, flow, backendProcess, currentBackendPort, backendStarting,
                   backendLastError, recovery, appQuitting>>

(* Fault: the count is kept when a recovery begins. *)
ProbeFailsWithoutReset ==
    /\ probe = "asked"
    /\ probeFailures' = probeFailures + 1
    /\ IF probeFailures + 1 < Threshold
       THEN probe' = "idle" /\ backendLastError' = TRUE /\ UNCHANGED <<flow, recovery>>
       ELSE /\ AutoRecover(TRUE)
            /\ probe' = IF backendAutoRestartInFlight' /\ ~backendAutoRestartInFlight
                        THEN "recovering" ELSE "idle"
    /\ UNCHANGED <<child, backendProcess, currentBackendPort, backendStarting, appQuitting>>

(* No answer in time, from a process that is hung, dead or just slow. *)
ProbeFails ==
    /\ probe = "asked"
    /\ IF probeFailures + 1 < Threshold
       THEN /\ probeFailures' = probeFailures + 1
            /\ probe' = "idle"
            /\ backendLastError' = TRUE
            /\ UNCHANGED <<flow, recovery>>
       ELSE /\ probeFailures' = 0
            /\ AutoRecover(TRUE)
            /\ probe' = IF backendAutoRestartInFlight' /\ ~backendAutoRestartInFlight
                        THEN "recovering" ELSE "idle"
    /\ UNCHANGED <<child, backendProcess, currentBackendPort, backendStarting, appQuitting>>

-----------------------------------------------------------------------------
FlowStep(f) ==
    \/ StopKills(f) \/ Stopped(f) \/ Wipe(f)
    \/ Spawn(f) \/ SpawnThrows(f) \/ SpawnErrs(f)
    \/ Adopt(f) \/ Ready(f) \/ TimedOut(f) \/ Finish(f)

Next ==
    \/ \E f \in Flows : Request(f) \/ FlowStep(f)
    \/ Wake
    \/ Quit
    \/ \E c \in Children : ChildListens(c) \/ ChildHangs(c) \/ ChildExits(c)
    \/ ProbeBegins \/ ProbeSucceeds \/ ProbeFails

Spec == Init /\ [][Next]_vars

(* Timers fire and continuations run; the window owes no call, a process   *)
(* no start, hang or crash; but SIGKILL ends a process, and the monitor    *)
(* goes on asking.                                                         *)
Fairness ==
    /\ \A f \in Flows : WF_vars(FlowStep(f))
    /\ WF_vars(Wake)
    /\ \A c \in Children : WF_vars(child[c].signal = "kill" /\ ChildExits(c))
    /\ WF_vars(ProbeBegins) /\ WF_vars(ProbeSucceeds \/ ProbeFails)

FairSpec == Spec /\ Fairness

-----------------------------------------------------------------------------
TypeOK ==
    /\ child \in [Children -> [life : {"none", "starting", "up", "hung"}, port : Ports \union {0},
                               signal : {"none", "term", "kill"}, listened : BOOLEAN]]
    /\ flow \in [Flows -> [pc : {"idle", "sleep", "stopping", "wipe", "spawn", "adopt",
                                 "waiting", "tail", "done", "failed"},
                           child : Children \union {NoChild}, port : Ports \union {0},
                           runners : 0 .. Runners]]
    /\ backendProcess \in Children \union {NoChild}
    /\ currentBackendPort \in Ports
    /\ {backendStarting, backendLastError, backendAutoRestartInFlight, appQuitting} \subseteq BOOLEAN
    /\ backendCrashes \in 0 .. MaxRestarts + 1
    /\ probe \in {"idle", "asked", "recovering"} /\ probeFailures \in 0 .. Threshold - 1

(* Every process that was not told to end is the one the application       *)
(* manages, or one a flow has just spawned: nothing survives a recovery    *)
(* unmanaged, neither running beside its successor on the same database    *)
(* nor outliving the application.                                          *)
NoOrphans ==
    \A c \in Children : Unsignalled(c) =>
        c = backendProcess \/ \E f \in Flows : At(f, "adopt") /\ flow[f].child = c

(* However exits, failed probes, slow starts and several runners mix, the  *)
(* application never keeps two processes running at once.                  *)
SingleEngine == Cardinality({c \in Children : Unsignalled(c)}) <= 1

(* The port the window and the probes use is the port of the process the   *)
(* application manages.                                                    *)
EngineAtCurrentPort ==
    backendProcess # NoChild => child[backendProcess].port = currentBackendPort

(* All there is of the backend is the one process the application manages, *)
(* at the port everybody asks.                                             *)
OneEngineManaged == NoOrphans /\ SingleEngine /\ EngineAtCurrentPort

(* The process the application manages exists and its exit is listened to, *)
(* whichever flows overlap: the watchdog hears of its end.                 *)
WatchdogListens ==
    backendProcess # NoChild => Exists(backendProcess) /\ child[backendProcess].listened

(* The flag is set exactly while a recovery is under way, also when calls  *)
(* of the window stop and start processes in between.                      *)
RecoveryFlagOwned == backendAutoRestartInFlight <=> ~At(Watchdog, "idle")

(* What the watchdog needs to go on: a process to listen to, and a flag it  *)
(* has not lost.  Exits that fall into a start or a recovery it drops.      *)
WatchdogInControl == WatchdogListens /\ RecoveryFlagOwned

(* A recovery ends, whatever the processes do, so that the flag that keeps *)
(* the watchdog out is not left set, and it ends in a backend that answers *)
(* or an error the service screen shows.                                   *)
RecoveryWorks ==
    /\ backendAutoRestartInFlight ~> ~backendAutoRestartInFlight
    /\ At(Watchdog, "sleep") ~> \/ \E c \in Children : child[c].life = "up"
                            \/ backendLastError
                            \/ appQuitting

=============================================================================
