-------------------------- MODULE SupervisorProofs --------------------------
(***************************************************************************)
(* The supervision keeps its promises for every number of processes,       *)
(* ports, runners, restarts and calls of the window.                       *)
(*                                                                         *)
(* WatchdogInControl holds however flows overlap; it needs what is true of *)
(* a process between its spawn and its adoption.  OneEngineManaged is      *)
(* about the watchdog alone: a restart of the window that meets a recovery *)
(* breaks it.  It needs that one flow at a time is past its stop, and that *)
(* such a flow leaves no process it did not tell to end.                   *)
(***************************************************************************)
EXTENDS Supervisor, FiniteSetTheorems, WellFoundedInduction, TLAPS

USE SupervisorAssumption DEF Boot, Watchdog, Quitting

Steps == {"idle", "sleep", "stopping", "wipe", "spawn", "adopt", "waiting", "tail", "done",
          "failed"}

\* What is true of a process nobody has adopted yet: it exists, its exit is not
\* listened to, and no two flows have spawned it; and a start has a port.
SpawnedApart ==
    /\ \A f \in Flows : At(f, "adopt") =>
         /\ flow[f].child \in Children
         /\ Exists(flow[f].child) /\ ~child[flow[f].child].listened
    /\ \A f, g \in Flows : f # g /\ At(f, "adopt") /\ At(g, "adopt") =>
         flow[f].child # flow[g].child
    /\ \A f \in Flows : flow[f].pc \in {"adopt", "waiting"} => flow[f].port \in Ports

\* The start at launch is never stopped half-way, and before it there is
\* neither a process nor another flow.
BootFirst ==
    /\ flow[Boot].pc \in {"spawn", "adopt", "waiting", "tail", "done", "failed"}
    /\ probe # "idle" => At(Boot, "done")
    /\ At(Boot, "spawn") =>
         /\ backendProcess = NoChild
         /\ \A c \in Children : ~Exists(c)
         /\ \A f \in Flows \ {Boot} : flow[f].pc \in {"idle", "done"}

WatchdogInv == TypeOK /\ SpawnedApart /\ BootFirst /\ WatchdogInControl

\* Where the flows may be when the window asks for nothing.
FlowsInOrder ==
    /\ flow[Watchdog].pc \in {"idle", "sleep", "stopping", "spawn", "adopt", "waiting", "tail"}
    /\ flow[Quitting].pc \in {"idle", "stopping", "done"}
    /\ ~At(Watchdog, "idle") => flow[Boot].pc \in {"tail", "done", "failed"}
    /\ flow[Boot].pc \in {"adopt", "waiting"} => backendStarting

\* A flow past its stop has no process beside it that goes on running.
StoppedFirst ==
    /\ \A f \in Flows : At(f, "stopping") =>
         flow[f].child \in Children /\ ~Unsignalled(flow[f].child)
    /\ \A f \in {Boot, Watchdog} : flow[f].pc \in {"stopping", "spawn", "adopt"} =>
         backendProcess = NoChild \/ ~Unsignalled(backendProcess)

\* The port a start goes by is that of the process it has spawned.
PortsKnown ==
    \A f \in Flows :
        /\ At(f, "adopt") => child[flow[f].child].port = flow[f].port
        /\ At(f, "waiting") =>
             /\ flow[f].child \in Children
             /\ backendProcess # NoChild => /\ backendProcess = flow[f].child
                                            /\ child[backendProcess].port = flow[f].port

EngineInv ==
    WatchdogInv /\ FlowsInOrder /\ StoppedFirst /\ PortsKnown /\ NoOrphans /\ EngineAtCurrentPort

----------------------------------------------------------------------------
(* Ports *)

\* A set of numbers that is not empty has a least one.
LEMMA LeastNumber ==
    ASSUME NEW S \in SUBSET Nat, S # {}
    PROVE  \E p \in S : \A q \in S : p <= q
<1> DEFINE Smaller == {pair \in Nat \X Nat : pair[1] < pair[2]}
<1>1. OpToRel(<, Nat) = Smaller
  BY DEF OpToRel
<1>2. IsWellFoundedOn(Smaller, Nat)
  BY <1>1, NatLessThanWellFounded
<1> HIDE DEF Smaller
<1>3. PICK p \in S : \A q \in S : <<q, p>> \notin Smaller
  BY <1>2, WFMin
<1>4. ASSUME NEW q \in S PROVE p <= q
  <2>1. <<q, p>> \in Nat \X Nat /\ ~(q < p)
    BY <1>3 DEF Smaller
  <2>2. p \in Nat /\ q \in Nat
    OBVIOUS
  <2> QED BY <2>1, <2>2
<1> QED BY <1>4

\* A port that is free is found: the smallest.
LEMMA FreePortFound ==
    ASSUME \E p \in Ports : ~Held(p)
    PROVE  FirstFreePort \in Ports /\ ~Held(FirstFreePort)
<1> DEFINE Free == {p \in Ports : ~Held(p)}
<1>1. \E p \in Free : \A q \in Free : p <= q
  BY LeastNumber
<1>2. \E p \in Ports : ~Held(p) /\ \A q \in Ports : ~Held(q) => p <= q
  BY <1>1
<1> QED BY <1>2 DEF FirstFreePort

\* As long as an identifier is unused the processes do not hold all ports.
LEMMA PortLeft ==
    ASSUME TypeOK, NEW c \in Children, child[c].life \notin {"up", "hung"}
    PROVE  \E p \in Ports : ~Held(p)
<1> SUFFICES ASSUME \A p \in Ports : Held(p) PROVE FALSE
  OBVIOUS
<1> DEFINE holder == [p \in Ports |-> CHOOSE d \in Children :
                        child[d].port = p /\ child[d].life \in {"up", "hung"}]
<1>1. \A p \in Ports : /\ holder[p] \in Children \ {c}
                       /\ child[holder[p]].port = p
  BY DEF Held
<1>2. IsFiniteSet(Children \ {c}) /\ Cardinality(Children \ {c}) = Cardinality(Children) - 1
  BY FS_RemoveElement
<1>3. Cardinality(Children) \in Nat /\ Cardinality(Ports) \in Nat
  BY FS_CardinalityType
<1>4. Cardinality(Children \ {c}) < Cardinality(Ports)
  BY <1>2, <1>3
<1>5. holder \in [Ports -> Children \ {c}]
  BY <1>1
<1> DEFINE others == Children \ {c}
<1>6. IsFiniteSet(Ports) /\ IsFiniteSet(others)
  BY <1>2
<1>7. \E p, q \in Ports : p # q /\ holder[p] = holder[q]
  <2>1. Cardinality(others) < Cardinality(Ports) /\ holder \in [Ports -> others]
    BY <1>4, <1>5
  <2> HIDE DEF holder, others
  <2>2. \A f \in [Ports -> others] : \E p, q \in Ports : p # q /\ f[p] = f[q]
    BY ONLY <1>6, <2>1, FS_PigeonHole, Zenon
  <2> QED BY <2>1, <2>2
<1> QED BY <1>1, <1>7

LEMMA TargetPortType ==
    ASSUME TypeOK, NEW f, \E p \in Ports : ~Held(p)
    PROVE  TargetPort(f) \in Ports
BY FreePortFound DEF TargetPort, TypeOK

----------------------------------------------------------------------------
(* What the assignments to processes and flows do, field by field *)

Process == [life : {"none", "starting", "up", "hung"}, port : Ports \union {0},
            signal : {"none", "term", "kill"}, listened : BOOLEAN]
Processes == [Children -> Process]
FlowState == [pc : Steps, child : Children \union {NoChild}, port : Ports \union {0},
              runners : 0 .. Runners]
FlowStates == [Flows -> FlowState]

Termed(processes, c) == [processes EXCEPT ![c].signal = "term"]
Killed(processes, c) == [processes EXCEPT ![c].signal = "kill"]
Up(processes, c) == [processes EXCEPT ![c].life = "up"]
Hung(processes, c) == [processes EXCEPT ![c].life = "hung"]
Listening(processes, c) == [processes EXCEPT ![c].listened = TRUE]
Ended(processes, c) == [processes EXCEPT ![c] = Gone]
Launched(processes, c, p) ==
    [processes EXCEPT ![c] = [Gone EXCEPT !.life = "starting", !.port = p]]

LEMMA TypesRead ==
    TypeOK <=>
        /\ child \in Processes /\ flow \in FlowStates
        /\ backendProcess \in Children \union {NoChild} /\ currentBackendPort \in Ports
        /\ backendStarting \in BOOLEAN /\ backendLastError \in BOOLEAN
        /\ backendAutoRestartInFlight \in BOOLEAN /\ appQuitting \in BOOLEAN
        /\ backendCrashes \in 0 .. MaxRestarts + 1
        /\ probe \in {"idle", "asked", "recovering"} /\ probeFailures \in 0 .. Threshold - 1
BY DEF TypeOK, Process, Processes, FlowState, FlowStates, Steps

LEMMA FieldTypes ==
    /\ \A processes \in Processes, c \in Children :
         /\ processes[c].life \in {"none", "starting", "up", "hung"}
         /\ processes[c].port \in Ports \union {0}
         /\ processes[c].signal \in {"none", "term", "kill"}
         /\ processes[c].listened \in BOOLEAN
    /\ \A flows \in FlowStates, f \in Flows :
         /\ flows[f].pc \in Steps /\ flows[f].child \in Children \union {NoChild}
         /\ flows[f].port \in Ports \union {0} /\ flows[f].runners \in 0 .. Runners
BY DEF Process, Processes, FlowState, FlowStates

SameButSignal(before, after, c) ==
    /\ after \in Processes
    /\ \A d \in Children : /\ after[d].life = before[d].life
                           /\ after[d].port = before[d].port
                           /\ after[d].listened = before[d].listened
    /\ \A d \in Children \ {c} : after[d].signal = before[d].signal

SameButLife(before, after, c) ==
    /\ after \in Processes
    /\ \A d \in Children : /\ after[d].signal = before[d].signal
                           /\ after[d].port = before[d].port
                           /\ after[d].listened = before[d].listened
    /\ \A d \in Children \ {c} : after[d].life = before[d].life

SameButListener(before, after, c) ==
    /\ after \in Processes
    /\ \A d \in Children : /\ after[d].life = before[d].life
                           /\ after[d].port = before[d].port
                           /\ after[d].signal = before[d].signal
    /\ \A d \in Children \ {c} : after[d].listened = before[d].listened

\* A process is sent a signal.
LEMMA SignalSent ==
    ASSUME NEW processes \in Processes, NEW c \in Children
    PROVE  /\ SameButSignal(processes, Termed(processes, c), c)
           /\ SameButSignal(processes, Killed(processes, c), c)
           /\ Termed(processes, c)[c].signal = "term"
           /\ Killed(processes, c)[c].signal = "kill"
BY DEF SameButSignal, Termed, Killed, Process, Processes

\* The life of a process changes.
LEMMA LifeChanged ==
    ASSUME NEW processes \in Processes, NEW c \in Children
    PROVE  /\ SameButLife(processes, Up(processes, c), c)
           /\ SameButLife(processes, Hung(processes, c), c)
           /\ Up(processes, c)[c].life = "up" /\ Hung(processes, c)[c].life = "hung"
BY DEF SameButLife, Up, Hung, Process, Processes

\* A process is adopted.
LEMMA ListenerSet ==
    ASSUME NEW processes \in Processes, NEW c \in Children
    PROVE  /\ SameButListener(processes, Listening(processes, c), c)
           /\ Listening(processes, c)[c].listened
BY DEF SameButListener, Listening, Process, Processes

\* A process has ended.
LEMMA ProcessEnded ==
    ASSUME NEW processes \in Processes, NEW c \in Children
    PROVE  /\ Ended(processes, c) \in Processes
           /\ Ended(processes, c)[c].life = "none"
           /\ \A d \in Children \ {c} : Ended(processes, c)[d] = processes[d]
<1>1. Gone \in Process /\ Gone.life = "none"
  BY DEF Gone, Process
<1> QED BY <1>1 DEF Processes, Ended

\* A process is launched.
LEMMA ProcessLaunched ==
    ASSUME NEW processes \in Processes, NEW c \in Children, NEW p \in Ports \union {0}
    PROVE  /\ Launched(processes, c, p) \in Processes
           /\ Launched(processes, c, p)[c].life = "starting" /\ Launched(processes, c, p)[c].port = p
           /\ Launched(processes, c, p)[c].signal = "none" /\ ~Launched(processes, c, p)[c].listened
           /\ \A d \in Children \ {c} : Launched(processes, c, p)[d] = processes[d]
<1> DEFINE new == [Gone EXCEPT !.life = "starting", !.port = p]
<1>1. /\ new \in Process /\ new.life = "starting" /\ new.port = p
      /\ new.signal = "none" /\ ~new.listened
  BY DEF Gone, Process
<1>2. Launched(processes, c, p) = [processes EXCEPT ![c] = new]
  BY DEF Launched
<1> HIDE DEF new
<1> QED BY <1>1, <1>2 DEF Processes

\* A flow goes on, with the process it had or without one.
LEMMA FlowGoes ==
    ASSUME flow \in FlowStates, NEW f \in Flows, NEW pc \in Steps, GoTo(f, pc)
    PROVE  /\ flow' \in FlowStates
           /\ flow'[f].pc = pc /\ flow'[f].child = flow[f].child
           /\ flow'[f].port = flow[f].port
           /\ \A g \in Flows \ {f} : flow'[g] = flow[g]
BY DEF GoTo, FlowState, FlowStates

LEMMA FlowLeaves ==
    ASSUME flow \in FlowStates, NEW f \in Flows, NEW pc \in Steps, Leave(f, pc)
    PROVE  /\ flow' \in FlowStates
           /\ flow'[f].pc = pc
           /\ \A g \in Flows \ {f} : flow'[g] = flow[g]
BY DEF Leave, FlowState, FlowStates


----------------------------------------------------------------------------
(* What the parts of a step do *)

\* A stop either signals the process the application manages and waits for it,
\* or goes on at once.
LEMMA StopDoes ==
    ASSUME TypeOK, NEW f \in Flows, StopBackend(f)
    PROVE  /\ child' \in Processes /\ flow' \in FlowStates
           /\ backendProcess' \in Children \union {NoChild}
           /\ \A g \in Flows \ {f} : flow'[g] = flow[g]
           /\ \A c \in Children : /\ child'[c].life = child[c].life
                                  /\ child'[c].port = child[c].port
                                  /\ child'[c].listened = child[c].listened
           /\ \/ /\ backendProcess \in Children /\ Unsignalled(backendProcess)
                 /\ flow'[f].pc = "stopping" /\ flow'[f].child = backendProcess
                 /\ backendProcess' = backendProcess
                 /\ child'[backendProcess].signal = "term"
                 /\ \A c \in Children \ {backendProcess} : child'[c].signal = child[c].signal
              \/ /\ backendProcess = NoChild \/ ~Unsignalled(backendProcess)
                 /\ backendProcess' = NoChild /\ flow'[f].pc = AfterStop(f)
                 /\ UNCHANGED child
<1>1. child \in Processes /\ flow \in FlowStates /\ backendProcess \in Children \union {NoChild}
  BY TypesRead
<1>2. AfterStop(f) \in Steps /\ "stopping" \in Steps
  BY DEF AfterStop, Steps
<1>3. CASE backendProcess # NoChild /\ Unsignalled(backendProcess)
  <2>1. /\ backendProcess \in Children /\ backendProcess' = backendProcess
        /\ child' = [child EXCEPT ![backendProcess].signal = "term"]
        /\ flow' = [flow EXCEPT ![f].pc = "stopping", ![f].child = backendProcess]
    BY <1>1, <1>3 DEF StopBackend
  <2>2. /\ flow' \in FlowStates /\ flow'[f].pc = "stopping" /\ flow'[f].child = backendProcess
        /\ \A g \in Flows \ {f} : flow'[g] = flow[g]
    BY <1>1, <1>2, <2>1 DEF FlowState, FlowStates
  <2>3. child' = Termed(child, backendProcess)
    BY <2>1 DEF Termed
  <2>4. SameButSignal(child, child', backendProcess) /\ child'[backendProcess].signal = "term"
    BY <1>1, <2>1, <2>3, SignalSent
  <2> QED BY <1>1, <1>3, <2>1, <2>2, <2>4 DEF SameButSignal
<1>4. CASE ~(backendProcess # NoChild /\ Unsignalled(backendProcess))
  BY <1>1, <1>2, <1>4, FlowGoes DEF StopBackend
<1> QED BY <1>3, <1>4

\* A launch makes a process of an identifier nobody refers to.
LEMMA LaunchDoes ==
    ASSUME TypeOK, NEW f \in Flows, NEW processes \in Processes,
           NEW port \in Ports \union {0}, NEW runners \in 0 .. Runners,
           Launch(f, processes, port, runners)
    PROVE  \E c \in Children :
             /\ processes[c].life = "none" /\ c # backendProcess
             /\ \A g \in Flows \ {f} : flow[g].child # c /\ flow'[g] = flow[g]
             /\ child' \in Processes /\ flow' \in FlowStates
             /\ child'[c].life = "starting" /\ child'[c].port = port
             /\ child'[c].signal = "none" /\ ~child'[c].listened
             /\ \A d \in Children \ {c} : child'[d] = processes[d]
             /\ flow'[f].pc = "adopt" /\ flow'[f].child = c /\ flow'[f].port = port
<1>1. PICK c \in Children :
        /\ processes[c].life = "none" /\ c # backendProcess
        /\ \A g \in Flows \ {f} : flow[g].child # c
        /\ child' = [processes EXCEPT ![c] = [Gone EXCEPT !.life = "starting", !.port = port]]
        /\ flow' = [flow EXCEPT ![f] = [pc |-> "adopt", child |-> c,
                                        port |-> port, runners |-> runners]]
  BY DEF Launch
<1>2. /\ child' \in Processes
      /\ child'[c].life = "starting" /\ child'[c].port = port
      /\ child'[c].signal = "none" /\ ~child'[c].listened
      /\ \A d \in Children \ {c} : child'[d] = processes[d]
  <2>1. child' = Launched(processes, c, port)
    BY <1>1 DEF Launched
  <2> QED BY <2>1, ProcessLaunched
<1>3. /\ flow' \in FlowStates
      /\ flow'[f].pc = "adopt" /\ flow'[f].child = c /\ flow'[f].port = port
      /\ \A g \in Flows \ {f} : flow'[g] = flow[g]
  BY <1>1, TypesRead DEF FlowState, FlowStates, Steps
<1> QED BY <1>1, <1>2, <1>3

\* The next runner is launched, or there is none and the start has failed.
LEMMA NextRunnerDoes ==
    ASSUME TypeOK, NEW f \in Flows, NEW processes \in Processes, NextRunner(f, processes)
    PROVE  \/ /\ flow[f].runners - 1 \in 0 .. Runners
              /\ Launch(f, processes, flow[f].port, flow[f].runners - 1)
              /\ UNCHANGED backendStarting
           \/ /\ child' = processes /\ backendStarting' = FALSE
              /\ flow' \in FlowStates /\ flow'[f].pc = Failed(f)
              /\ \A g \in Flows \ {f} : flow'[g] = flow[g]
<1>1. flow \in FlowStates /\ flow[f].runners \in 0 .. Runners
  BY TypesRead, FieldTypes
<1>2. Failed(f) \in Steps
  BY DEF Failed, Steps
<1>3. CASE flow[f].runners > 1
  BY <1>1, <1>3 DEF NextRunner
<1>4. CASE ~(flow[f].runners > 1)
  BY <1>1, <1>2, <1>4, FlowLeaves DEF NextRunner
<1> QED BY <1>3, <1>4

\* A recovery starts when none is under way and the crashes are few, or does not.
LEMMA RecoverDoes ==
    ASSUME TypeOK, NEW error \in BOOLEAN, AutoRecover(error)
    PROVE  /\ flow' \in FlowStates /\ backendCrashes' \in 0 .. MaxRestarts + 1
           /\ backendLastError' \in BOOLEAN /\ backendAutoRestartInFlight' \in BOOLEAN
           /\ \/ UNCHANGED flow /\ (backendAutoRestartInFlight' <=> backendAutoRestartInFlight)
              \/ /\ ~backendAutoRestartInFlight /\ backendAutoRestartInFlight'
                 /\ flow'[Watchdog].pc = "sleep" /\ flow'[Watchdog].child = flow[Watchdog].child
                 /\ \A g \in Flows \ {Watchdog} : flow'[g] = flow[g]
<1>1. CASE appQuitting \/ backendAutoRestartInFlight
  BY <1>1, TypesRead DEF AutoRecover, recovery
<1>2. CASE ~(appQuitting \/ backendAutoRestartInFlight)
  <2>1. PICK recent \in 0 .. backendCrashes :
          /\ backendCrashes' = IF recent < MaxRestarts THEN recent + 1 ELSE MaxRestarts + 1
          /\ backendAutoRestartInFlight' = (recent < MaxRestarts)
          /\ backendLastError' = (error \/ recent >= MaxRestarts)
          /\ IF recent < MaxRestarts THEN GoTo(Watchdog, "sleep") ELSE UNCHANGED flow
    BY <1>2 DEF AutoRecover
  <2>2. recent \in Nat /\ backendCrashes' \in 0 .. MaxRestarts + 1
    BY <2>1, TypesRead
  <2>3. Watchdog \in Flows /\ "sleep" \in Steps /\ flow \in FlowStates
    BY TypesRead DEF Flows, Steps
  <2>4. CASE recent < MaxRestarts
    <3>1. GoTo(Watchdog, "sleep") /\ backendAutoRestartInFlight' = TRUE
      BY <2>1, <2>4
    <3>2. ~backendAutoRestartInFlight
      BY <1>2
    <3>3. backendLastError' \in BOOLEAN
      BY <2>1
    <3> QED BY <2>2, <2>3, <3>1, <3>2, <3>3, FlowGoes
  <2>5. CASE ~(recent < MaxRestarts)
    <3>1. UNCHANGED flow
      BY <2>1, <2>5
    <3>2. /\ backendAutoRestartInFlight' \in BOOLEAN
          /\ ~backendAutoRestartInFlight /\ ~backendAutoRestartInFlight'
      <4>1. backendAutoRestartInFlight' = (recent < MaxRestarts)
        BY <2>1
      <4>2. backendAutoRestartInFlight' \in BOOLEAN
        BY <4>1
      <4>3. ~backendAutoRestartInFlight'
        BY <2>5, <4>1
      <4> QED BY <1>2, <4>2, <4>3
    <3>3. backendLastError' \in BOOLEAN
      BY <2>1
    <3> QED BY <2>2, <2>3, <3>1, <3>2, <3>3
  <2> QED BY <2>4, <2>5
<1> QED BY <1>1, <1>2

----------------------------------------------------------------------------
(* The watchdog *)

LEMMA TypesWritten ==
    ASSUME child' \in Processes, flow' \in FlowStates,
           backendProcess' \in Children \union {NoChild}, currentBackendPort' \in Ports,
           backendStarting' \in BOOLEAN, backendLastError' \in BOOLEAN,
           backendAutoRestartInFlight' \in BOOLEAN, appQuitting' \in BOOLEAN,
           backendCrashes' \in 0 .. MaxRestarts + 1,
           probe' \in {"idle", "asked", "recovering"}, probeFailures' \in 0 .. Threshold - 1
    PROVE  TypeOK'
BY DEF TypeOK, Process, Processes, FlowState, FlowStates, Steps

LEMMA WatchdogInitial == Init => WatchdogInv
<1> SUFFICES ASSUME Init PROVE WatchdogInv
  OBVIOUS
<1>1. /\ Gone \in Process /\ Gone.life = "none"
      /\ child = [c \in Children |-> Gone]
  BY DEF Gone, Process, Init
<1>2. /\ \A c \in Children : ~Exists(c)
      /\ child \in Processes
  BY <1>1 DEF Exists, Processes
<1>3. /\ flow \in FlowStates
      /\ \A f \in Flows : flow[f].pc = IF f = Boot THEN "spawn" ELSE "idle"
  BY DEF Init, FlowStates, FlowState, Steps
<1>4. TypeOK
  <2>1. MaxRestarts + 1 \in Nat /\ 0 \in 0 .. MaxRestarts + 1 /\ 0 \in 0 .. Threshold - 1
    OBVIOUS
  <2> QED BY <1>2, <1>3, <2>1, TypesRead DEF Init
<1>5. Boot \in Flows /\ Watchdog \in Flows
  BY DEF Flows
<1> QED
  BY <1>2, <1>3, <1>4, <1>5
  DEF Init, WatchdogInv, SpawnedApart, BootFirst, WatchdogInControl, WatchdogListens,
      RecoveryFlagOwned, At

\* A stop leaves the watchdog in control, if it is not in the middle of the
\* start at launch.
LEMMA StopControlled ==
    ASSUME WatchdogInv, NEW f \in Flows \ {Boot}, StopBackend(f),
           At(Boot, "spawn") => f = Quitting,
           ~At(Watchdog, "idle") \/ f # Watchdog,
           UNCHANGED <<backendAutoRestartInFlight, probe>>
    PROVE  SpawnedApart' /\ BootFirst' /\ WatchdogInControl'
<1> USE DEF WatchdogInv
<1>0. Boot \in Flows /\ Watchdog \in Flows /\ AfterStop(f) \in {"done", "wipe", "spawn"}
  BY DEF Flows, AfterStop
<1>1. SpawnedApart'
  BY <1>0, StopDoes DEF SpawnedApart, At, Exists
<1>2. BootFirst'
  BY <1>0, StopDoes DEF BootFirst, At, Exists, AfterStop
<1>3. WatchdogListens'
  BY StopDoes DEF WatchdogInControl, WatchdogListens, Exists
<1>4. RecoveryFlagOwned'
  BY <1>0, StopDoes DEF WatchdogInControl, RecoveryFlagOwned, At
<1> QED BY <1>1, <1>2, <1>3, <1>4 DEF WatchdogInControl

\* A launch leaves the watchdog in control.
LEMMA LaunchControlled ==
    ASSUME WatchdogInv, NEW f \in Flows, NEW processes \in Processes,
           NEW port \in Ports, NEW runners \in 0 .. Runners,
           Launch(f, processes, port, runners),
           \A g \in Flows \ {f} : At(g, "adopt") =>
               /\ processes[flow[g].child].life = child[flow[g].child].life
               /\ processes[flow[g].child].listened = child[flow[g].child].listened,
           backendProcess' # NoChild =>
               /\ backendProcess' = backendProcess
               /\ processes[backendProcess].life = child[backendProcess].life
               /\ processes[backendProcess].listened = child[backendProcess].listened,
           ~At(f, "idle"), At(Boot, "spawn") => f = Boot,
           UNCHANGED <<backendAutoRestartInFlight, probe>>,
           f = Boot => probe = "idle"
    PROVE  SpawnedApart' /\ BootFirst' /\ WatchdogInControl'
<1> USE DEF WatchdogInv
<1>0. Boot \in Flows /\ Watchdog \in Flows
  BY DEF Flows
<1>1. PICK c \in Children :
        /\ processes[c].life = "none" /\ c # backendProcess
        /\ \A g \in Flows \ {f} : flow[g].child # c /\ flow'[g] = flow[g]
        /\ child'[c].life = "starting" /\ ~child'[c].listened
        /\ \A d \in Children \ {c} : child'[d] = processes[d]
        /\ flow'[f].pc = "adopt" /\ flow'[f].child = c /\ flow'[f].port = port
  BY LaunchDoes
<1>2. SpawnedApart'
  BY <1>1 DEF SpawnedApart, At, Exists
<1>3. BootFirst'
  BY <1>0, <1>1 DEF BootFirst, At, Exists
<1>4. WatchdogListens'
  BY <1>1, TypesRead DEF WatchdogInControl, WatchdogListens, Exists
<1>5. RecoveryFlagOwned'
  BY <1>0, <1>1 DEF WatchdogInControl, RecoveryFlagOwned, At
<1> QED BY <1>2, <1>3, <1>4, <1>5 DEF WatchdogInControl

\* A flow that goes on without a process being touched, or leaves its process,
\* leaves the watchdog in control.
LEMMA MoveControlled ==
    ASSUME WatchdogInv, NEW f \in Flows, flow'[f].pc \notin {"adopt", "waiting"},
           \A g \in Flows \ {f} : flow'[g] = flow[g],
           UNCHANGED child, backendProcess' = NoChild \/ UNCHANGED backendProcess,
           backendAutoRestartInFlight' <=> backendAutoRestartInFlight /\ ~(f = Watchdog /\ At(f, "tail")),
           f = Watchdog => ~At(f, "idle") /\ (At(f, "tail") <=> flow'[f].pc = "idle"),
           f = Boot => flow'[f].pc \in {"tail", "done", "failed"} /\ ~At(f, "done"),
           At(Boot, "spawn") => f = Boot,
           probe' = probe \/ probe' = "idle"
    PROVE  SpawnedApart' /\ BootFirst' /\ WatchdogInControl'
<1> USE DEF WatchdogInv
<1>0. Boot \in Flows /\ Watchdog \in Flows
  BY DEF Flows
<1>1. SpawnedApart'
  BY DEF SpawnedApart, At, Exists
<1>2. BootFirst'
  BY <1>0 DEF BootFirst, At, Exists
<1>3. WatchdogListens'
  BY DEF WatchdogInControl, WatchdogListens, Exists
<1>4. RecoveryFlagOwned'
  BY <1>0 DEF WatchdogInControl, RecoveryFlagOwned, At
<1> QED BY <1>1, <1>2, <1>3, <1>4 DEF WatchdogInControl

\* The processes change without an end or a new listener.
LEMMA ProcessesControlled ==
    ASSUME WatchdogInv,
           \A c \in Children : /\ child'[c].life = "none" <=> child[c].life = "none"
                               /\ child'[c].listened = child[c].listened,
           UNCHANGED <<flow, backendProcess, backendAutoRestartInFlight, probe>>
    PROVE  SpawnedApart' /\ BootFirst' /\ WatchdogInControl'
<1> USE DEF WatchdogInv
<1>1. SpawnedApart'
  BY DEF SpawnedApart, At, Exists
<1>2. BootFirst'
  BY DEF BootFirst, At, Exists
<1>3. WatchdogListens'
  BY TypesRead DEF WatchdogInControl, WatchdogListens, Exists
<1>4. RecoveryFlagOwned'
  BY DEF WatchdogInControl, RecoveryFlagOwned, At
<1> QED BY <1>1, <1>2, <1>3, <1>4 DEF WatchdogInControl

\* A recovery that starts is the watchdog's.
LEMMA RecoveryControlled ==
    ASSUME WatchdogInv, ~At(Boot, "spawn"),
           \/ UNCHANGED flow /\ (backendAutoRestartInFlight' <=> backendAutoRestartInFlight)
           \/ /\ ~backendAutoRestartInFlight /\ backendAutoRestartInFlight'
              /\ flow'[Watchdog].pc = "sleep" /\ flow'[Watchdog].child = flow[Watchdog].child
              /\ \A g \in Flows \ {Watchdog} : flow'[g] = flow[g],
           probe' # "idle" => probe # "idle"
    PROVE  /\ BootFirst' /\ RecoveryFlagOwned'
           /\ \A f \in Flows : flow'[f].pc \in {"adopt", "waiting"} => flow'[f] = flow[f]
<1> USE DEF WatchdogInv
<1>1. Boot \in Flows /\ Watchdog \in Flows
  BY DEF Flows
<1>2. BootFirst'
  BY <1>1 DEF BootFirst, At
<1>3. RecoveryFlagOwned'
  BY <1>1 DEF WatchdogInControl, RecoveryFlagOwned, At
<1> QED BY <1>2, <1>3 DEF At

LEMMA TimedOutKills ==
    ASSUME child \in Processes, NEW c,
           NEW processes, processes = IF Exists(c) THEN Killed(child, c) ELSE child
    PROVE  /\ processes \in Processes
           /\ c \in Children /\ Exists(c) => processes[c].signal = "kill"
           /\ \A d \in Children : /\ processes[d].life = child[d].life
                                  /\ processes[d].port = child[d].port
                                  /\ processes[d].listened = child[d].listened
                                  /\ d # c => processes[d].signal = child[d].signal
<1>1. CASE ~Exists(c)
  BY <1>1
<1>2. CASE Exists(c) /\ c \in Children
  <2>1. processes = Killed(child, c)
    BY <1>2
  <2>2. SameButSignal(child, processes, c) /\ processes[c].signal = "kill"
    BY <1>2, <2>1, SignalSent
  <2> QED BY <2>2 DEF SameButSignal
<1>3. CASE c \notin Children
  <2>1. Killed(child, c) = child
    BY <1>3 DEF Killed, Processes
  <2> QED BY <1>3, <2>1
<1> QED BY <1>1, <1>2, <1>3

LEMMA TargetFound ==
    ASSUME WatchdogInv, NEW f \in Flows, At(f, "spawn"),
           f = Boot \/ \E c \in Children : child[c].life = "none"
    PROVE  TargetPort(f) \in Ports
<1>1. TypeOK /\ currentBackendPort \in Ports
  BY TypesRead DEF WatchdogInv
<1>2. CASE f = Boot
  <2>1. \A c \in Children : child[c].life = "none"
    BY <1>2 DEF WatchdogInv, BootFirst, Exists
  <2>2. ~Held(currentBackendPort)
    BY <2>1 DEF Held
  <2> QED BY <1>1, <2>2, TargetPortType
<1>3. CASE \E c \in Children : child[c].life = "none"
  BY <1>1, <1>3, PortLeft, TargetPortType
<1> QED BY <1>2, <1>3

\* Every step keeps the inductive invariant of the watchdog.
LEMMA WatchdogKept == WatchdogInv /\ [Next]_vars => WatchdogInv'
<1> SUFFICES ASSUME WatchdogInv, [Next]_vars PROVE WatchdogInv'
  OBVIOUS
<1> DEFINE Control == SpawnedApart /\ BootFirst /\ WatchdogInControl
<1> SUFFICES TypeOK' /\ Control'
  BY DEF WatchdogInv
<1>0. /\ Boot \in Flows /\ Watchdog \in Flows /\ Quitting \in Flows
      /\ \A f \in Restarts \union Resets : f \in Flows /\ f # Boot /\ f # Watchdog
  BY DEF Flows
<1>t. /\ TypeOK /\ child \in Processes /\ flow \in FlowStates
      /\ backendProcess \in Children \union {NoChild} /\ currentBackendPort \in Ports
      /\ backendStarting \in BOOLEAN /\ backendLastError \in BOOLEAN
      /\ backendAutoRestartInFlight \in BOOLEAN /\ appQuitting \in BOOLEAN
      /\ backendCrashes \in 0 .. MaxRestarts + 1
      /\ probe \in {"idle", "asked", "recovering"} /\ probeFailures \in 0 .. Threshold - 1
  BY TypesRead DEF WatchdogInv
<1>n. 0 \in 0 .. MaxRestarts + 1 /\ 0 \in 0 .. Threshold - 1 /\ Runners \in 0 .. Runners
  OBVIOUS
<1> USE DEF recovery, monitor
<1>1. ASSUME NEW f \in Flows, Request(f) PROVE TypeOK' /\ Control'
  <2>1. /\ f \in Restarts \union Resets /\ At(f, "idle") /\ At(Boot, "done") /\ StopBackend(f)
        /\ backendLastError' = (backendLastError /\ f \in Resets)
        /\ UNCHANGED <<currentBackendPort, backendStarting, backendAutoRestartInFlight,
                       backendCrashes, appQuitting, probe, probeFailures>>
    BY <1>1 DEF Request
  <2>2. backendLastError' \in BOOLEAN
    BY <2>1
  <2>3. TypeOK'
    BY <1>t, <2>1, <2>2, StopDoes, TypesWritten
  <2>4. ~At(Boot, "spawn")
    BY <2>1 DEF At
  <2> QED BY <1>0, <2>1, <2>3, <2>4, StopControlled
<1>2. ASSUME Wake PROVE TypeOK' /\ Control'
  <2>1. /\ At(Watchdog, "sleep") /\ StopBackend(Watchdog) /\ backendLastError' = FALSE
        /\ UNCHANGED <<currentBackendPort, backendStarting, backendAutoRestartInFlight,
                       backendCrashes, appQuitting, probe, probeFailures>>
    BY <1>2 DEF Wake
  <2>2. TypeOK'
    BY <1>0, <1>t, <2>1, StopDoes, TypesWritten
  <2>3. ~At(Watchdog, "idle") /\ ~At(Boot, "spawn")
    BY <1>0, <2>1 DEF At, WatchdogInv, BootFirst
  <2> QED BY <1>0, <2>1, <2>2, <2>3, StopControlled
<1>3. ASSUME Quit PROVE TypeOK' /\ Control'
  <2>1. /\ StopBackend(Quitting) /\ appQuitting' = TRUE
        /\ UNCHANGED <<currentBackendPort, backendStarting, backendLastError,
                       backendAutoRestartInFlight, backendCrashes, probe, probeFailures>>
    BY <1>3 DEF Quit
  <2>2. TypeOK'
    BY <1>0, <1>t, <2>1, StopDoes, TypesWritten
  <2> QED BY <1>0, <2>1, <2>2, StopControlled
<1>4. ASSUME NEW f \in Flows, FlowStep(f) PROVE TypeOK' /\ Control'
  <2>1. CASE StopKills(f)
    <3>1. /\ child' = Killed(child, flow[f].child)
          /\ At(f, "stopping")
          /\ Unsignalled(flow[f].child) \/ child[flow[f].child].signal = "term"
          /\ UNCHANGED <<flow, backendProcess, currentBackendPort, backendStarting,
                         backendLastError, backendAutoRestartInFlight, backendCrashes,
                         appQuitting, probe, probeFailures>>
      BY <2>1 DEF StopKills, Killed
    <3>2. child' \in Processes /\ \A c \in Children : /\ child'[c].life = child[c].life
                                                      /\ child'[c].listened = child[c].listened
      <4>1. CASE flow[f].child \in Children
        <5>1. child \in Processes /\ child' = Killed(child, flow[f].child)
          BY <1>t, <3>1
        <5>2. SameButSignal(child, child', flow[f].child)
          BY <4>1, <5>1, SignalSent
        <5> QED BY <5>2 DEF SameButSignal
      <4>2. CASE flow[f].child \notin Children
        <5>1. child' = child
          BY <1>t, <3>1, <4>2 DEF Killed, Processes
        <5> QED BY <1>t, <5>1
      <4> QED BY <4>1, <4>2
    <3>3. TypeOK'
      BY <1>t, <3>1, <3>2, TypesWritten
    <3> QED BY <3>1, <3>2, <3>3, ProcessesControlled
  <2>2. CASE Stopped(f)
    <3>1. /\ At(f, "stopping") /\ Leave(f, AfterStop(f))
          /\ backendProcess' = NoChild \/ backendProcess' = backendProcess
          /\ UNCHANGED <<child, currentBackendPort, backendStarting, backendLastError,
                         backendAutoRestartInFlight, backendCrashes, appQuitting, probe,
                         probeFailures>>
      BY <2>2 DEF Stopped
    <3>2. AfterStop(f) \in {"done", "wipe", "spawn"} /\ {"done", "wipe", "spawn"} \subseteq Steps
      BY DEF AfterStop, Steps
    <3>3. /\ flow' \in FlowStates /\ flow'[f].pc \in {"done", "wipe", "spawn"}
          /\ \A g \in Flows \ {f} : flow'[g] = flow[g]
      BY <1>t, <3>1, <3>2, FlowLeaves
    <3>4. f # Boot /\ ~At(Boot, "spawn") /\ ~At(f, "idle") /\ ~At(f, "tail")
      BY <3>1 DEF At, WatchdogInv, BootFirst
    <3>5. TypeOK'
      BY <1>t, <3>1, <3>3, TypesWritten
    <3> QED BY <3>1, <3>3, <3>4, <3>5, MoveControlled
  <2>3. CASE Wipe(f)
    <3>1. /\ At(f, "wipe") /\ GoTo(f, "spawn") /\ backendCrashes' = 0
          /\ UNCHANGED <<child, backendProcess, currentBackendPort, backendStarting,
                         backendLastError, backendAutoRestartInFlight, appQuitting, probe,
                         probeFailures>>
      BY <2>3 DEF Wipe
    <3>2. /\ flow' \in FlowStates /\ flow'[f].pc = "spawn"
          /\ \A g \in Flows \ {f} : flow'[g] = flow[g]
      BY <1>t, <3>1, FlowGoes DEF Steps
    <3>3. f # Boot /\ ~At(Boot, "spawn") /\ ~At(f, "idle") /\ ~At(f, "tail")
      BY <3>1 DEF At, WatchdogInv, BootFirst
    <3>4. TypeOK'
      BY <1>n, <1>t, <3>1, <3>2, TypesWritten
    <3> QED BY <3>1, <3>2, <3>3, <3>4, MoveControlled
  <2>4. CASE Spawn(f)
    <3>1. /\ At(f, "spawn") /\ Launch(f, child, TargetPort(f), Runners)
          /\ backendStarting' = TRUE /\ backendLastError' = FALSE
          /\ currentBackendPort' = IF f = Boot THEN TargetPort(f) ELSE currentBackendPort
          /\ UNCHANGED <<backendProcess, backendAutoRestartInFlight, backendCrashes,
                         appQuitting, probe, probeFailures>>
      BY <2>4 DEF Spawn
    <3>2. \E c \in Children : child[c].life = "none"
      BY <3>1 DEF Launch
    <3>3. TargetPort(f) \in Ports
      BY <3>1, <3>2, TargetFound
    <3>4. child' \in Processes /\ flow' \in FlowStates
      BY <1>n, <1>t, <3>1, <3>3, LaunchDoes
    <3>5. TypeOK'
      BY <1>t, <3>1, <3>3, <3>4, TypesWritten
    <3>6. /\ ~At(f, "idle") /\ (At(Boot, "spawn") => f = Boot)
          /\ f = Boot => probe = "idle"
      BY <1>0, <3>1 DEF At, WatchdogInv, BootFirst
    <3> QED BY <1>n, <1>t, <3>1, <3>3, <3>5, <3>6, LaunchControlled
  <2>5. CASE SpawnThrows(f)
    <3>1. /\ At(f, "spawn") /\ Leave(f, Failed(f))
          /\ backendStarting' = TRUE /\ backendLastError' = TRUE
          /\ currentBackendPort' = IF f = Boot THEN TargetPort(f) ELSE currentBackendPort
          /\ UNCHANGED <<child, backendProcess, backendAutoRestartInFlight, backendCrashes,
                         appQuitting, probe, probeFailures>>
      BY <2>5 DEF SpawnThrows
    <3>2. Failed(f) = (IF f = Boot THEN "failed" ELSE "tail") /\ {"failed", "tail"} \subseteq Steps
      BY DEF Failed, Steps
    <3>3. /\ flow' \in FlowStates /\ flow'[f].pc = Failed(f)
          /\ \A g \in Flows \ {f} : flow'[g] = flow[g]
      BY <1>t, <3>1, <3>2, FlowLeaves
    <3>4. currentBackendPort' \in Ports
      BY <1>t, <3>1, TargetFound
    <3>5. TypeOK'
      BY <1>t, <3>1, <3>3, <3>4, TypesWritten
    <3>6. /\ ~At(f, "idle") /\ ~At(f, "tail") /\ ~At(f, "done")
          /\ At(Boot, "spawn") => f = Boot
      BY <1>0, <3>1 DEF At, WatchdogInv, BootFirst
    <3> QED BY <3>1, <3>2, <3>3, <3>5, <3>6, MoveControlled
  <2>6. CASE SpawnErrs(f)
    <3>1. /\ At(f, "adopt") /\ NextRunner(f, Ended(child, flow[f].child))
          /\ backendLastError' = (backendLastError \/ flow[f].runners = 1)
          /\ UNCHANGED <<backendProcess, currentBackendPort, backendAutoRestartInFlight,
                         backendCrashes, appQuitting, probe, probeFailures>>
      BY <2>6 DEF SpawnErrs, Ended
    <3>2. flow[f].child \in Children /\ ~child[flow[f].child].listened
      BY <3>1 DEF WatchdogInv, SpawnedApart
    <3> DEFINE processes == Ended(child, flow[f].child)
    <3>3. /\ processes \in Processes /\ processes[flow[f].child].life = "none"
          /\ \A d \in Children \ {flow[f].child} : processes[d] = child[d]
      BY <1>t, <3>2, ProcessEnded
    <3> HIDE DEF processes
    <3>4. /\ \A g \in Flows \ {f} : At(g, "adopt") =>
               flow[g].child \in Children /\ processes[flow[g].child] = child[flow[g].child]
          /\ backendProcess # NoChild => processes[backendProcess] = child[backendProcess]
      BY <1>t, <3>1, <3>2, <3>3
      DEF WatchdogInv, SpawnedApart, WatchdogInControl, WatchdogListens
    <3>5. ~At(f, "idle") /\ ~At(f, "tail") /\ ~At(f, "done") /\ ~At(Boot, "spawn")
      <4>1. At(Boot, "spawn") => f = Boot
        BY <1>0, <3>1 DEF At, WatchdogInv, BootFirst
      <4> QED BY <3>1, <4>1 DEF At
    <3>6. /\ f = Boot => probe = "idle"
          /\ flow[f].port \in Ports /\ flow[f].runners \in 0 .. Runners
      BY <1>t, <3>1, <3>5, FieldTypes DEF WatchdogInv, BootFirst, SpawnedApart, At
    <3>7. backendLastError' \in BOOLEAN
      BY <3>1
    <3>8. NextRunner(f, processes)
      BY <3>1 DEF processes
    <3>9. CASE /\ flow[f].runners - 1 \in 0 .. Runners
               /\ Launch(f, processes, flow[f].port, flow[f].runners - 1)
               /\ UNCHANGED backendStarting
      <4>1. child' \in Processes /\ flow' \in FlowStates
        BY <1>t, <3>3, <3>6, <3>9, LaunchDoes
      <4>2. TypeOK'
        BY <1>t, <3>1, <3>7, <3>9, <4>1, TypesWritten
      <4> QED BY <3>1, <3>3, <3>4, <3>5, <3>6, <3>9, <4>2, LaunchControlled
    <3>10. CASE /\ child' = processes /\ backendStarting' = FALSE
                /\ flow' \in FlowStates /\ flow'[f].pc = Failed(f)
                /\ \A g \in Flows \ {f} : flow'[g] = flow[g]
      <4>1. TypeOK'
        BY <1>t, <3>1, <3>3, <3>7, <3>10, TypesWritten
      <4>2. flow'[f].pc = IF f = Boot THEN "failed" ELSE "tail"
        BY <3>10 DEF Failed
      <4>3. SpawnedApart'
        BY <3>3, <3>4, <3>10, <4>2 DEF WatchdogInv, SpawnedApart, At, Exists
      <4>4. BootFirst'
        BY <1>0, <3>1, <3>5, <3>10, <4>2 DEF WatchdogInv, BootFirst, At
      <4>5. WatchdogInControl'
        BY <1>0, <1>t, <3>1, <3>4, <3>5, <3>10, <4>2
        DEF WatchdogInv, WatchdogInControl, WatchdogListens, RecoveryFlagOwned, Exists, At
      <4> QED BY <4>1, <4>3, <4>4, <4>5
    <3> QED BY <1>t, <3>3, <3>8, <3>9, <3>10, NextRunnerDoes
  <2>7. CASE Adopt(f)
    <3>1. /\ At(f, "adopt") /\ GoTo(f, "waiting")
          /\ child' = Listening(child, flow[f].child)
          /\ backendProcess' = flow[f].child /\ currentBackendPort' = flow[f].port
          /\ UNCHANGED <<backendStarting, backendLastError, backendAutoRestartInFlight,
                         backendCrashes, appQuitting, probe, probeFailures>>
      BY <2>7 DEF Adopt, Listening
    <3>2. flow[f].child \in Children /\ Exists(flow[f].child) /\ flow[f].port \in Ports
      BY <3>1 DEF WatchdogInv, SpawnedApart, At
    <3>3. /\ child' \in Processes /\ child'[flow[f].child].listened
          /\ \A d \in Children : child'[d].life = child[d].life
          /\ \A d \in Children \ {flow[f].child} : child'[d].listened = child[d].listened
      <4>1. SameButListener(child, child', flow[f].child) /\ child'[flow[f].child].listened
        BY <1>t, <3>1, <3>2, ListenerSet
      <4> QED BY <4>1 DEF SameButListener
    <3>4. /\ flow' \in FlowStates /\ flow'[f].pc = "waiting" /\ flow'[f].port = flow[f].port
          /\ \A g \in Flows \ {f} : flow'[g] = flow[g]
      BY <1>t, <3>1, FlowGoes DEF Steps
    <3>5. TypeOK'
      BY <1>t, <3>1, <3>2, <3>3, <3>4, TypesWritten
    <3>6. SpawnedApart'
      BY <3>1, <3>2, <3>3, <3>4 DEF WatchdogInv, SpawnedApart, At, Exists
    <3>7. BootFirst'
      BY <1>0, <3>1, <3>3, <3>4 DEF WatchdogInv, BootFirst, At, Exists
    <3>8. WatchdogInControl'
      BY <1>0, <3>1, <3>2, <3>3, <3>4
      DEF WatchdogInv, WatchdogInControl, WatchdogListens, RecoveryFlagOwned, At, Exists
    <3> QED BY <3>5, <3>6, <3>7, <3>8
  <2>8. CASE Ready(f)
    <3>1. /\ At(f, "waiting") /\ Leave(f, "tail")
          /\ backendCrashes' = 0 /\ backendStarting' = FALSE
          /\ currentBackendPort' = flow[f].port
          /\ UNCHANGED <<child, backendProcess, backendLastError, backendAutoRestartInFlight,
                         appQuitting, probe, probeFailures>>
      BY <2>8 DEF Ready
    <3>2. /\ flow' \in FlowStates /\ flow'[f].pc = "tail"
          /\ \A g \in Flows \ {f} : flow'[g] = flow[g]
      BY <1>t, <3>1, FlowLeaves DEF Steps
    <3>3. ~At(f, "idle") /\ ~At(f, "tail") /\ ~At(f, "done") /\ (At(Boot, "spawn") => f = Boot)
      BY <1>0, <3>1 DEF At, WatchdogInv, BootFirst
    <3>4. TypeOK'
      <4>1. currentBackendPort' \in Ports
        BY <3>1 DEF WatchdogInv, SpawnedApart, At
      <4> QED BY <1>n, <1>t, <3>1, <3>2, <4>1, TypesWritten
    <3> QED BY <3>1, <3>2, <3>3, <3>4, MoveControlled
  <2>9. CASE TimedOut(f)
    <3> DEFINE processes == IF Exists(flow[f].child) THEN Killed(child, flow[f].child) ELSE child
    <3>1. /\ At(f, "waiting") /\ NextRunner(f, processes)
          /\ backendProcess' = NoChild /\ backendLastError' = TRUE
          /\ UNCHANGED <<currentBackendPort, backendAutoRestartInFlight, backendCrashes,
                         appQuitting, probe, probeFailures>>
      BY <2>9 DEF TimedOut, Killed
    <3> HIDE DEF processes
    <3>2. /\ processes \in Processes
          /\ \A c \in Children : /\ processes[c].life = child[c].life
                                 /\ processes[c].listened = child[c].listened
      BY <1>t, TimedOutKills DEF processes
    <3>3. ~At(f, "idle") /\ ~At(f, "tail") /\ ~At(f, "done") /\ ~At(Boot, "spawn")
      <4>1. At(Boot, "spawn") => f = Boot
        BY <1>0, <3>1 DEF At, WatchdogInv, BootFirst
      <4> QED BY <3>1, <4>1 DEF At
    <3>4. /\ f = Boot => probe = "idle"
          /\ flow[f].port \in Ports /\ flow[f].runners \in 0 .. Runners
      BY <1>t, <3>1, <3>3, FieldTypes DEF WatchdogInv, BootFirst, SpawnedApart, At
    <3>5. CASE /\ flow[f].runners - 1 \in 0 .. Runners
               /\ Launch(f, processes, flow[f].port, flow[f].runners - 1)
               /\ UNCHANGED backendStarting
      <4>1. child' \in Processes /\ flow' \in FlowStates
        BY <1>t, <3>2, <3>4, <3>5, LaunchDoes
      <4>2. TypeOK'
        BY <1>t, <3>1, <3>5, <4>1, TypesWritten
      <4>3. \A g \in Flows : At(g, "adopt") => flow[g].child \in Children
        BY DEF WatchdogInv, SpawnedApart
      <4> QED BY <3>1, <3>2, <3>3, <3>4, <3>5, <4>2, <4>3, LaunchControlled
    <3>6. CASE /\ child' = processes /\ backendStarting' = FALSE
               /\ flow' \in FlowStates /\ flow'[f].pc = Failed(f)
               /\ \A g \in Flows \ {f} : flow'[g] = flow[g]
      <4>1. TypeOK'
        BY <1>t, <3>1, <3>2, <3>6, TypesWritten
      <4>2. flow'[f].pc = IF f = Boot THEN "failed" ELSE "tail"
        BY <3>6 DEF Failed
      <4>3. SpawnedApart'
        BY <3>2, <3>6, <4>2 DEF WatchdogInv, SpawnedApart, At, Exists
      <4>4. BootFirst'
        BY <1>0, <3>1, <3>3, <3>6, <4>2 DEF WatchdogInv, BootFirst, At
      <4>5. WatchdogInControl'
        BY <1>0, <3>1, <3>3, <3>6, <4>2
        DEF WatchdogInv, WatchdogInControl, WatchdogListens, RecoveryFlagOwned, At
      <4> QED BY <4>1, <4>3, <4>4, <4>5
    <3> QED BY <1>t, <3>1, <3>2, <3>5, <3>6, NextRunnerDoes
  <2>10. CASE Finish(f)
    <3>1. /\ At(f, "tail") /\ GoTo(f, IF f = Watchdog THEN "idle" ELSE "done")
          /\ backendAutoRestartInFlight' = (backendAutoRestartInFlight /\ f # Watchdog)
          /\ probe' = IF f = Watchdog /\ probe = "recovering" THEN "idle" ELSE probe
          /\ UNCHANGED <<child, backendProcess, currentBackendPort, backendStarting,
                         backendLastError, backendCrashes, appQuitting, probeFailures>>
      BY <2>10 DEF Finish
    <3>2. /\ flow' \in FlowStates /\ flow'[f].pc = IF f = Watchdog THEN "idle" ELSE "done"
          /\ \A g \in Flows \ {f} : flow'[g] = flow[g]
      BY <1>t, <3>1, FlowGoes DEF Steps
    <3>3. /\ ~At(f, "idle") /\ ~At(f, "done")
          /\ At(Boot, "spawn") => f = Boot
      BY <1>0, <3>1 DEF At, WatchdogInv, BootFirst
    <3>4. backendAutoRestartInFlight' \in BOOLEAN
      BY <3>1
    <3>5. TypeOK'
      BY <1>t, <3>1, <3>2, <3>4, TypesWritten
    <3>6. /\ backendAutoRestartInFlight' <=>
               backendAutoRestartInFlight /\ ~(f = Watchdog /\ At(f, "tail"))
          /\ probe' = probe \/ probe' = "idle"
      BY <3>1
    <3> QED BY <3>1, <3>2, <3>3, <3>5, <3>6, MoveControlled
  <2> QED BY <1>4, <2>1, <2>2, <2>3, <2>4, <2>5, <2>6, <2>7, <2>8, <2>9, <2>10 DEF FlowStep
<1>5. ASSUME NEW c \in Children, ChildListens(c) \/ ChildHangs(c) PROVE TypeOK' /\ Control'
  <2>1. /\ child' = Up(child, c) \/ child' = Hung(child, c)
        /\ Exists(c)
        /\ UNCHANGED <<flow, backendProcess, currentBackendPort, backendStarting,
                       backendLastError, backendAutoRestartInFlight, backendCrashes,
                       appQuitting, probe, probeFailures>>
    BY <1>5 DEF ChildListens, ChildHangs, Up, Hung, Exists, Unsignalled
  <2>2. SameButLife(child, child', c) /\ child'[c].life \in {"up", "hung"}
    BY <1>t, <2>1, LifeChanged
  <2>3. /\ child' \in Processes
        /\ \A d \in Children : /\ child'[d].life = "none" <=> child[d].life = "none"
                               /\ child'[d].listened = child[d].listened
    BY <2>1, <2>2 DEF SameButLife, Exists
  <2>4. TypeOK'
    BY <1>t, <2>1, <2>3, TypesWritten
  <2> QED BY <2>1, <2>3, <2>4, ProcessesControlled
<1>6. ASSUME NEW c \in Children, ChildExits(c) PROVE TypeOK' /\ Control'
  <2>1. /\ Exists(c) /\ child[c].listened /\ child' = Ended(child, c)
        /\ backendProcess' = IF backendProcess = c THEN NoChild ELSE backendProcess
        /\ UNCHANGED <<currentBackendPort, backendStarting, appQuitting, probe, probeFailures>>
    BY <1>6 DEF ChildExits, Ended
  <2>2. /\ child' \in Processes /\ \A d \in Children \ {c} : child'[d] = child[d]
    BY <1>t, <2>1, ProcessEnded
  <2>3. /\ flow' \in FlowStates /\ backendCrashes' \in 0 .. MaxRestarts + 1
        /\ backendLastError' \in BOOLEAN /\ backendAutoRestartInFlight' \in BOOLEAN
        /\ \/ UNCHANGED flow /\ (backendAutoRestartInFlight' <=> backendAutoRestartInFlight)
           \/ /\ ~backendAutoRestartInFlight /\ backendAutoRestartInFlight'
              /\ flow'[Watchdog].pc = "sleep" /\ flow'[Watchdog].child = flow[Watchdog].child
              /\ \A g \in Flows \ {Watchdog} : flow'[g] = flow[g]
    <3>1. CASE backendStarting
      BY <1>6, <1>t, <3>1 DEF ChildExits
    <3>2. CASE ~backendStarting
      BY <1>6, <1>t, <3>2, RecoverDoes DEF ChildExits
    <3> QED BY <3>1, <3>2
  <2>4. TypeOK'
    BY <1>t, <2>1, <2>2, <2>3, TypesWritten
  <2>5. ~At(Boot, "spawn")
    BY <2>1 DEF WatchdogInv, BootFirst
  <2>6. /\ BootFirst' /\ RecoveryFlagOwned'
        /\ \A f \in Flows : flow'[f].pc \in {"adopt", "waiting"} => flow'[f] = flow[f]
    BY <2>1, <2>3, <2>5, RecoveryControlled
  <2>7. SpawnedApart'
    BY <2>1, <2>2, <2>6 DEF WatchdogInv, SpawnedApart, At, Exists
  <2>8. WatchdogListens'
    BY <1>t, <2>1, <2>2 DEF WatchdogInv, WatchdogInControl, WatchdogListens, Exists
  <2> QED BY <2>4, <2>6, <2>7, <2>8 DEF WatchdogInControl
<1>7. ASSUME ProbeBegins PROVE TypeOK' /\ Control'
  <2>1. /\ At(Boot, "done") /\ probe' = "asked"
        /\ UNCHANGED <<child, flow, backendProcess, currentBackendPort, backendStarting,
                       backendLastError, backendAutoRestartInFlight, backendCrashes,
                       appQuitting, probeFailures>>
    BY <1>7 DEF ProbeBegins
  <2>2. TypeOK'
    BY <1>t, <2>1, TypesWritten
  <2> QED
    BY <2>1, <2>2 DEF WatchdogInv, SpawnedApart, BootFirst, WatchdogInControl, WatchdogListens,
                      RecoveryFlagOwned, At, Exists
<1>8. ASSUME ProbeSucceeds PROVE TypeOK' /\ Control'
  <2>1. /\ probe' = "idle" /\ probeFailures' = 0
        /\ UNCHANGED <<child, flow, backendProcess, currentBackendPort, backendStarting,
                       backendLastError, backendAutoRestartInFlight, backendCrashes,
                       appQuitting>>
    BY <1>8 DEF ProbeSucceeds
  <2>2. TypeOK'
    BY <1>n, <1>t, <2>1, TypesWritten
  <2> QED
    BY <2>1, <2>2 DEF WatchdogInv, SpawnedApart, BootFirst, WatchdogInControl, WatchdogListens,
                      RecoveryFlagOwned, At, Exists
<1>9. ASSUME ProbeFails PROVE TypeOK' /\ Control'
  <2>1. /\ probe = "asked" /\ probe' \in {"idle", "recovering"}
        /\ UNCHANGED <<child, backendProcess, currentBackendPort, backendStarting, appQuitting>>
    BY <1>9 DEF ProbeFails
  <2>2. /\ flow' \in FlowStates /\ backendCrashes' \in 0 .. MaxRestarts + 1
        /\ backendLastError' \in BOOLEAN /\ backendAutoRestartInFlight' \in BOOLEAN
        /\ probeFailures' \in 0 .. Threshold - 1
        /\ \/ UNCHANGED flow /\ (backendAutoRestartInFlight' <=> backendAutoRestartInFlight)
           \/ /\ ~backendAutoRestartInFlight /\ backendAutoRestartInFlight'
              /\ flow'[Watchdog].pc = "sleep" /\ flow'[Watchdog].child = flow[Watchdog].child
              /\ \A g \in Flows \ {Watchdog} : flow'[g] = flow[g]
    <3>1. CASE probeFailures + 1 < Threshold
      <4>1. /\ probeFailures' = probeFailures + 1 /\ backendLastError' = TRUE
            /\ UNCHANGED <<flow, backendAutoRestartInFlight, backendCrashes>>
        BY <1>9, <3>1 DEF ProbeFails
      <4>2. probeFailures' \in 0 .. Threshold - 1
        BY <1>t, <3>1, <4>1
      <4> QED BY <1>t, <4>1, <4>2
    <3>2. CASE ~(probeFailures + 1 < Threshold)
      <4>1. probeFailures' = 0 /\ AutoRecover(TRUE)
        BY <1>9, <3>2 DEF ProbeFails
      <4> QED BY <1>n, <1>t, <4>1, RecoverDoes
    <3> QED BY <3>1, <3>2
  <2>3. TypeOK'
    BY <1>t, <2>1, <2>2, TypesWritten
  <2>4. ~At(Boot, "spawn") /\ probe # "idle"
    BY <2>1 DEF WatchdogInv, BootFirst, At
  <2>5. /\ BootFirst' /\ RecoveryFlagOwned'
        /\ \A f \in Flows : flow'[f].pc \in {"adopt", "waiting"} => flow'[f] = flow[f]
    BY <2>2, <2>4, RecoveryControlled
  <2>6. SpawnedApart'
    BY <2>1, <2>5 DEF WatchdogInv, SpawnedApart, At, Exists
  <2>7. WatchdogListens'
    BY <2>1 DEF WatchdogInv, WatchdogInControl, WatchdogListens, Exists
  <2> QED BY <2>3, <2>5, <2>6, <2>7 DEF WatchdogInControl
<1>10. ASSUME UNCHANGED vars PROVE TypeOK' /\ Control'
  BY <1>10 DEF vars, WatchdogInv, TypeOK, SpawnedApart, BootFirst, WatchdogInControl,
               WatchdogListens, RecoveryFlagOwned, At, Exists
<1> QED
  BY <1>1, <1>2, <1>3, <1>4, <1>5, <1>6, <1>7, <1>8, <1>9, <1>10 DEF Next

LEMMA WatchdogInvariant == Spec => []WatchdogInv
BY WatchdogInitial, WatchdogKept, PTL DEF Spec

\* Every variable of the supervision keeps its type, for every number of
\* processes, runners and ports.
THEOREM SupervisorTyped == Spec => []TypeOK
<1>1. WatchdogInv => TypeOK
  BY DEF WatchdogInv
<1> QED BY <1>1, WatchdogInvariant, PTL

\* However recoveries, restarts, factory resets and the quit overlap, the process
\* the application manages exists and its exit is listened to, and the flag of a
\* recovery is set exactly while one is under way.
THEOREM WatchdogInControlCorrect == Spec => []WatchdogInControl
<1>1. WatchdogInv => WatchdogInControl
  BY DEF WatchdogInv
<1> QED BY <1>1, WatchdogInvariant, PTL

----------------------------------------------------------------------------
(* One engine, as long as the window asks for no restart and no reset *)

Alone == Restarts = {} /\ Resets = {}

Ours == FlowsInOrder /\ StoppedFirst /\ PortsKnown /\ NoOrphans /\ EngineAtCurrentPort

\* One flow at a time is past its stop.
LEMMA OneStart ==
    ASSUME EngineInv, Alone, NEW f \in Flows, flow[f].pc \in {"spawn", "adopt", "waiting"}
    PROVE  /\ f \in {Boot, Watchdog}
           /\ \A g \in Flows \ {f} : flow[g].pc \notin {"spawn", "adopt", "waiting"}
           /\ \A g \in {Boot, Watchdog} \ {f} : flow[g].pc # "stopping"
BY DEF EngineInv, FlowsInOrder, Alone, Flows, At, WatchdogInv, BootFirst

LEMMA EngineInitial == Alone /\ Init => EngineInv
<1> SUFFICES ASSUME Alone, Init PROVE EngineInv
  OBVIOUS
<1>1. WatchdogInv
  BY WatchdogInitial
<1>2. /\ \A c \in Children : child[c] = Gone
      /\ \A f \in Flows : flow[f].pc = IF f = Boot THEN "spawn" ELSE "idle"
      /\ Boot \in Flows /\ Watchdog \in Flows /\ Quitting \in Flows
      /\ backendProcess = NoChild
  BY DEF Init, Flows
<1>3. \A c \in Children : ~Unsignalled(c)
  BY <1>2 DEF Unsignalled, Exists, Gone
<1> QED
  BY <1>1, <1>2, <1>3
  DEF EngineInv, FlowsInOrder, StoppedFirst, PortsKnown, NoOrphans, EngineAtCurrentPort, At

\* A stop orphans no process.
LEMMA StopEngine ==
    ASSUME EngineInv, Alone, NEW f \in {Watchdog, Quitting}, StopBackend(f),
           f = Watchdog => At(f, "sleep"),
           UNCHANGED <<currentBackendPort, backendStarting>>
    PROVE  Ours'
<1> USE DEF EngineInv
<1>1. /\ Flows = {Boot, Watchdog, Quitting} /\ f # Boot
      /\ AfterStop(f) = IF f = Quitting THEN "done" ELSE "spawn"
      /\ TypeOK
  BY DEF Alone, Flows, AfterStop, WatchdogInv
<1>2. FlowsInOrder'
  BY <1>1, StopDoes DEF FlowsInOrder, At
<1>3. flow[f].pc \notin {"adopt", "waiting"}
  BY DEF FlowsInOrder, At
<1>4. \A c \in Children : Exists(c)' <=> Exists(c)
  BY <1>1, StopDoes DEF Exists
<1>5. \A c \in Children : Unsignalled(c)' => Unsignalled(c) /\ c # backendProcess
  BY <1>1, <1>4, StopDoes DEF Unsignalled
<1>6. StoppedFirst'
  BY <1>1, <1>4, <1>5, StopDoes DEF StoppedFirst, Unsignalled, At
<1>7. PortsKnown'
  BY <1>1, StopDoes DEF PortsKnown, At, WatchdogInv, SpawnedApart
<1>8. NoOrphans'
  <2>1. \A g \in Flows : At(g, "adopt") => At(g, "adopt")' /\ flow'[g].child = flow[g].child
    BY <1>1, <1>3, StopDoes DEF At
  <2> QED BY <1>5, <2>1 DEF NoOrphans
<1>9. EngineAtCurrentPort'
  BY <1>1, StopDoes DEF EngineAtCurrentPort
<1> QED BY <1>2, <1>6, <1>7, <1>8, <1>9 DEF Ours

\* A launch, when nothing runs that was not told to end.
LEMMA LaunchEngine ==
    ASSUME EngineInv, Alone, NEW f \in Flows, NEW processes \in Processes,
           NEW port \in Ports, NEW runners \in 0 .. Runners,
           flow[f].pc \in {"spawn", "adopt", "waiting"},
           Launch(f, processes, port, runners),
           \A d \in Children : ~(processes[d].life # "none" /\ processes[d].signal = "none"),
           backendProcess' # NoChild =>
               /\ backendProcess' = backendProcess
               /\ processes[backendProcess].port = child[backendProcess].port,
           backendProcess = NoChild \/ UNCHANGED currentBackendPort,
           f = Boot => backendStarting'
    PROVE  Ours'
<1> USE DEF EngineInv
<1>1. /\ Flows = {Boot, Watchdog, Quitting} /\ TypeOK
      /\ backendProcess \in Children \union {NoChild}
  BY TypesRead DEF Alone, Flows, WatchdogInv
<1>2. PICK c \in Children :
        /\ processes[c].life = "none" /\ c # backendProcess
        /\ \A g \in Flows \ {f} : flow[g].child # c /\ flow'[g] = flow[g]
        /\ child'[c].life = "starting" /\ child'[c].port = port /\ child'[c].signal = "none"
        /\ \A d \in Children \ {c} : child'[d] = processes[d]
        /\ flow'[f].pc = "adopt" /\ flow'[f].child = c /\ flow'[f].port = port
  BY <1>1, LaunchDoes
<1>3. /\ f \in {Boot, Watchdog}
      /\ \A g \in Flows \ {f} : flow[g].pc \notin {"spawn", "adopt", "waiting"}
      /\ \A g \in {Boot, Watchdog} \ {f} : flow[g].pc # "stopping"
  BY OneStart
<1>4. \A d \in Children \ {c} : ~Unsignalled(d)'
  BY <1>2 DEF Unsignalled, Exists
<1>5. FlowsInOrder'
  BY <1>1, <1>2, <1>3 DEF FlowsInOrder, At
<1>6. StoppedFirst'
  BY <1>1, <1>2, <1>3, <1>4 DEF StoppedFirst, At
<1>7. PortsKnown'
  BY <1>1, <1>2, <1>3 DEF PortsKnown, At
<1>8. NoOrphans'
  BY <1>2, <1>4 DEF NoOrphans, At
<1>9. EngineAtCurrentPort'
  BY <1>1, <1>2 DEF EngineAtCurrentPort
<1> QED BY <1>5, <1>6, <1>7, <1>8, <1>9 DEF Ours

\* A flow that ends its start or its wait, when no process goes on running but
\* the one that is managed.
LEMMA MoveEngine ==
    ASSUME EngineInv, Alone, NEW f \in Flows, flow' \in FlowStates,
           \A g \in Flows \ {f} : flow'[g] = flow[g],
           flow'[f].pc \in (IF f = Boot THEN {"tail", "done", "failed"}
                            ELSE IF f = Watchdog THEN {"idle", "spawn", "tail"} ELSE {"done"}),
           f = Watchdog => ~At(f, "idle"),
           At(f, "adopt") => \A c \in Children : ~Unsignalled(c)',
           flow'[f].pc = "spawn" => At(f, "stopping"),
           \A c \in Children : /\ Unsignalled(c)' => Unsignalled(c)
                               /\ Unsignalled(c)' /\ c = backendProcess => c = backendProcess'
                               /\ child'[c].port = child[c].port \/ ~Exists(c)',
           \A g \in Flows \ {f} : At(g, "adopt") => Exists(flow[g].child)',
           backendProcess' # NoChild => backendProcess' = backendProcess /\ Exists(backendProcess)',
           backendProcess' # NoChild => child'[backendProcess].port = currentBackendPort',
           UNCHANGED backendStarting \/ f = Boot
           \/ flow[f].pc \in {"spawn", "adopt", "waiting"}
    PROVE  Ours'
<1> USE DEF EngineInv
<1>1. Flows = {Boot, Watchdog, Quitting} /\ backendProcess \in Children \union {NoChild}
  BY TypesRead DEF Alone, Flows, WatchdogInv
<1>2. FlowsInOrder'
  BY <1>1, OneStart DEF FlowsInOrder, At
<1>3. \A c \in Children : Unsignalled(c)' => Unsignalled(c)
  OBVIOUS
<1>4. StoppedFirst'
  BY <1>1, <1>3, OneStart DEF StoppedFirst, At, Unsignalled
<1>5. PortsKnown'
  BY <1>1, OneStart DEF PortsKnown, At, WatchdogInv, SpawnedApart
<1>6. NoOrphans'
  BY DEF NoOrphans, At
<1>7. EngineAtCurrentPort'
  BY DEF EngineAtCurrentPort
<1> QED BY <1>2, <1>4, <1>5, <1>6, <1>7 DEF Ours

\* Every step of the application alone keeps one engine.
LEMMA EngineKept == Alone /\ EngineInv /\ [Next]_vars => EngineInv'
<1> SUFFICES ASSUME Alone, EngineInv, [Next]_vars PROVE EngineInv'
  OBVIOUS
<1>0. WatchdogInv'
  BY WatchdogKept DEF EngineInv
<1> SUFFICES Ours'
  BY <1>0 DEF EngineInv, Ours
<1>t. /\ TypeOK /\ child \in Processes /\ flow \in FlowStates
      /\ backendProcess \in Children \union {NoChild}
      /\ child' \in Processes /\ flow' \in FlowStates
      /\ Runners \in 0 .. Runners
      /\ Flows = {Boot, Watchdog, Quitting}
  <2>1. TypeOK'
    BY <1>0 DEF WatchdogInv
  <2>2. child' \in Processes /\ flow' \in FlowStates
    BY <2>1 DEF TypeOK, Process, Processes, FlowState, FlowStates, Steps
  <2> QED BY <2>2, TypesRead DEF EngineInv, WatchdogInv, Alone, Flows
<1>1. ASSUME NEW f \in Flows, Request(f) PROVE Ours'
  BY <1>1 DEF Request, Alone
<1>2. ASSUME Wake PROVE Ours'
  BY <1>2, StopEngine DEF Wake
<1>3. ASSUME Quit PROVE Ours'
  BY <1>3, StopEngine DEF Quit
<1>4. ASSUME NEW f \in Flows, FlowStep(f) PROVE Ours'
  <2>1. CASE StopKills(f)
    <3>1. /\ child' = Killed(child, flow[f].child) /\ At(f, "stopping")
          /\ UNCHANGED <<flow, backendProcess, currentBackendPort, backendStarting>>
      BY <2>1 DEF StopKills, Killed
    <3>2. flow[f].child \in Children /\ ~Unsignalled(flow[f].child)
      BY <3>1 DEF EngineInv, StoppedFirst
    <3>3. SameButSignal(child, child', flow[f].child) /\ child'[flow[f].child].signal = "kill"
      BY <1>t, <3>1, <3>2, SignalSent
    <3>4. \A c \in Children : /\ Unsignalled(c)' <=> Unsignalled(c)
                              /\ child'[c].port = child[c].port
      BY <3>2, <3>3 DEF SameButSignal, Unsignalled, Exists
    <3> QED BY <3>1, <3>4, <1>t
      DEF Ours, EngineInv, WatchdogInv, SpawnedApart, FlowsInOrder, StoppedFirst, PortsKnown,
          NoOrphans, EngineAtCurrentPort, At
  <2>2. CASE Stopped(f)
    <3>1. /\ At(f, "stopping") /\ Leave(f, AfterStop(f))
          /\ backendProcess' = IF backendProcess = flow[f].child THEN NoChild
                                                                 ELSE backendProcess
          /\ UNCHANGED <<child, currentBackendPort, backendStarting>>
      BY <2>2 DEF Stopped
    <3>2. f # Boot /\ AfterStop(f) = IF f = Quitting THEN "done" ELSE "spawn"
      BY <3>1 DEF At, EngineInv, WatchdogInv, BootFirst, AfterStop, Alone
    <3>3. /\ flow' \in FlowStates /\ flow'[f].pc = AfterStop(f)
          /\ \A g \in Flows \ {f} : flow'[g] = flow[g]
      BY <1>t, <3>1, <3>2, FlowLeaves DEF Steps
    <3>4. ~Unsignalled(flow[f].child) /\ ~At(f, "idle") /\ ~At(f, "adopt")
      BY <3>1 DEF EngineInv, StoppedFirst, At
    <3>5. \A c \in Children : Unsignalled(c)' <=> Unsignalled(c)
      BY <3>1 DEF Unsignalled, Exists
    <3>6. \A g \in Flows \ {f} : At(g, "adopt") => Exists(flow[g].child)'
      BY <3>1, <3>3 DEF EngineInv, WatchdogInv, SpawnedApart, Exists, At
    <3>7. backendProcess' # NoChild => Exists(backendProcess)'
      BY <3>1 DEF EngineInv, WatchdogInv, WatchdogInControl, WatchdogListens, Exists
    <3>8. backendProcess' # NoChild => child'[backendProcess].port = currentBackendPort'
      BY <3>1 DEF EngineInv, EngineAtCurrentPort
    <3> QED BY <1>t, <3>1, <3>2, <3>3, <3>4, <3>5, <3>6, <3>7, <3>8, MoveEngine
  <2>3. CASE Wipe(f)
    <3>1. f \notin {Boot, Watchdog, Quitting}
      BY <2>3 DEF Wipe, At, EngineInv, WatchdogInv, BootFirst, FlowsInOrder
    <3> QED BY <1>t, <3>1
  <2>4. CASE Spawn(f)
    <3>1. /\ At(f, "spawn") /\ Launch(f, child, TargetPort(f), Runners)
          /\ backendStarting' = TRUE
          /\ currentBackendPort' = IF f = Boot THEN TargetPort(f) ELSE currentBackendPort
          /\ UNCHANGED backendProcess
      BY <2>4 DEF Spawn
    <3>2. \E c \in Children : child[c].life = "none"
      BY <3>1 DEF Launch
    <3>3. TargetPort(f) \in Ports
      BY <3>1, <3>2, TargetFound DEF EngineInv
    <3>4. \A d \in Children : ~Unsignalled(d)
      BY <3>1, OneStart DEF EngineInv, NoOrphans, StoppedFirst, At
    <3>5. backendProcess = NoChild \/ UNCHANGED currentBackendPort
      BY <3>1 DEF EngineInv, WatchdogInv, BootFirst
    <3> QED BY <1>t, <3>1, <3>3, <3>4, <3>5, LaunchEngine DEF At, Unsignalled, Exists
  <2>5. CASE SpawnThrows(f)
    <3>1. /\ At(f, "spawn") /\ Leave(f, Failed(f))
          /\ currentBackendPort' = IF f = Boot THEN TargetPort(f) ELSE currentBackendPort
          /\ UNCHANGED <<child, backendProcess>>
      BY <2>5 DEF SpawnThrows
    <3>2. /\ flow' \in FlowStates /\ flow'[f].pc = IF f = Boot THEN "failed" ELSE "tail"
          /\ \A g \in Flows \ {f} : flow'[g] = flow[g]
      BY <1>t, <3>1, FlowLeaves DEF Failed, Steps
    <3>3. \A c \in Children : Unsignalled(c)' <=> Unsignalled(c)
      BY <3>1 DEF Unsignalled, Exists
    <3>4. \A g \in Flows \ {f} : At(g, "adopt") => Exists(flow[g].child)'
      BY <3>1, <3>2 DEF EngineInv, WatchdogInv, SpawnedApart, Exists, At
    <3>5. backendProcess' # NoChild => Exists(backendProcess)'
      BY <3>1 DEF EngineInv, WatchdogInv, WatchdogInControl, WatchdogListens, Exists
    <3>6. backendProcess' # NoChild => child'[backendProcess].port = currentBackendPort'
      BY <3>1 DEF EngineInv, EngineAtCurrentPort, WatchdogInv, BootFirst
    <3>7. f \in {Boot, Watchdog} /\ flow[f].pc = "spawn"
      BY <3>1, OneStart DEF At
    <3> QED BY <1>t, <3>1, <3>2, <3>3, <3>4, <3>5, <3>6, <3>7, MoveEngine DEF At
  <2>6. CASE SpawnErrs(f)
    <3> DEFINE processes == Ended(child, flow[f].child)
    <3>1. /\ At(f, "adopt") /\ NextRunner(f, processes)
          /\ UNCHANGED <<backendProcess, currentBackendPort>>
      BY <2>6 DEF SpawnErrs, Ended
    <3>2. flow[f].child \in Children /\ ~child[flow[f].child].listened
      BY <3>1 DEF EngineInv, WatchdogInv, SpawnedApart
    <3>3. /\ processes \in Processes /\ processes[flow[f].child].life = "none"
          /\ \A d \in Children \ {flow[f].child} : processes[d] = child[d]
      BY <1>t, <3>2, ProcessEnded
    <3> HIDE DEF processes
    <3>4. backendProcess # NoChild =>
            backendProcess # flow[f].child /\ processes[backendProcess] = child[backendProcess]
      BY <1>t, <3>2, <3>3 DEF EngineInv, WatchdogInv, WatchdogInControl, WatchdogListens
    <3>5. /\ f \in {Boot, Watchdog} /\ flow[f].pc = "adopt"
          /\ \A g \in Flows \ {f} : ~At(g, "adopt")
      BY <3>1, OneStart DEF At
    <3>6. \A d \in Children : ~(processes[d].life # "none" /\ processes[d].signal = "none")
      <4>1. \A d \in Children : Unsignalled(d) => d = flow[f].child
        BY <3>1, <3>5 DEF EngineInv, NoOrphans, StoppedFirst
      <4> QED BY <3>3, <4>1 DEF Unsignalled, Exists
    <3>7. flow[f].port \in Ports /\ (f = Boot => backendStarting)
      BY <3>5 DEF EngineInv, WatchdogInv, SpawnedApart, FlowsInOrder
    <3>8. CASE /\ flow[f].runners - 1 \in 0 .. Runners
               /\ Launch(f, processes, flow[f].port, flow[f].runners - 1)
               /\ UNCHANGED backendStarting
      BY <3>1, <3>3, <3>4, <3>5, <3>6, <3>7, <3>8, LaunchEngine
    <3>9. CASE /\ child' = processes /\ flow'[f].pc = Failed(f)
               /\ \A g \in Flows \ {f} : flow'[g] = flow[g]
      <4>1. flow'[f].pc = IF f = Boot THEN "failed" ELSE "tail"
        BY <3>9 DEF Failed
      <4>2. \A c \in Children : ~Unsignalled(c)'
        BY <3>6, <3>9 DEF Unsignalled, Exists
      <4>3. \A c \in Children : child'[c].port = child[c].port \/ ~Exists(c)'
        BY <3>3, <3>9 DEF Exists
      <4>4. backendProcess' # NoChild =>
              /\ backendProcess' = backendProcess /\ Exists(backendProcess)'
              /\ child'[backendProcess].port = currentBackendPort'
        BY <3>1, <3>4, <3>9
        DEF EngineInv, WatchdogInv, WatchdogInControl, WatchdogListens, EngineAtCurrentPort, Exists
      <4> QED BY <1>t, <3>5, <3>9, <4>1, <4>2, <4>3, <4>4, MoveEngine DEF At
    <3> QED BY <1>t, <3>1, <3>3, <3>8, <3>9, NextRunnerDoes
  <2>7. CASE Adopt(f)
    <3>1. /\ At(f, "adopt") /\ GoTo(f, "waiting")
          /\ child' = Listening(child, flow[f].child)
          /\ backendProcess' = flow[f].child /\ currentBackendPort' = flow[f].port
          /\ UNCHANGED backendStarting
      BY <2>7 DEF Adopt, Listening
    <3>2. flow[f].child \in Children /\ child[flow[f].child].port = flow[f].port
      BY <3>1 DEF EngineInv, WatchdogInv, SpawnedApart, PortsKnown
    <3>3. SameButListener(child, child', flow[f].child)
      BY <1>t, <3>1, <3>2, ListenerSet
    <3>4. \A c \in Children : /\ Unsignalled(c)' <=> Unsignalled(c)
                              /\ child'[c].port = child[c].port
      BY <3>3 DEF SameButListener, Unsignalled, Exists
    <3>5. /\ flow'[f].pc = "waiting" /\ flow'[f].child = flow[f].child
          /\ flow'[f].port = flow[f].port
          /\ \A g \in Flows \ {f} : flow'[g] = flow[g]
      BY <1>t, <3>1, FlowGoes DEF Steps
    <3>6. /\ f \in {Boot, Watchdog}
          /\ \A g \in Flows \ {f} : flow[g].pc \notin {"spawn", "adopt", "waiting"}
          /\ \A g \in {Boot, Watchdog} \ {f} : flow[g].pc # "stopping"
      BY <3>1, OneStart DEF At
    <3>7. FlowsInOrder'
      BY <1>t, <3>1, <3>5, <3>6 DEF EngineInv, FlowsInOrder, At
    <3>8. StoppedFirst'
      BY <1>t, <3>4, <3>5, <3>6 DEF EngineInv, StoppedFirst, At
    <3>9. PortsKnown'
      BY <1>t, <3>1, <3>2, <3>4, <3>5, <3>6 DEF PortsKnown, At
    <3>10. NoOrphans'
      <4>1. \A c \in Children : Unsignalled(c) => c = flow[f].child
        BY <3>1, <3>6 DEF EngineInv, NoOrphans, StoppedFirst, At
      <4> QED BY <3>1, <3>4, <4>1 DEF NoOrphans
    <3>11. EngineAtCurrentPort'
      BY <3>1, <3>2, <3>4 DEF EngineAtCurrentPort
    <3> QED BY <3>7, <3>8, <3>9, <3>10, <3>11 DEF Ours
  <2>8. CASE Ready(f)
    <3>1. /\ At(f, "waiting") /\ Leave(f, "tail") /\ currentBackendPort' = flow[f].port
          /\ UNCHANGED <<child, backendProcess>>
      BY <2>8 DEF Ready
    <3>2. /\ flow' \in FlowStates /\ flow'[f].pc = "tail"
          /\ \A g \in Flows \ {f} : flow'[g] = flow[g]
      BY <1>t, <3>1, FlowLeaves DEF Steps
    <3>3. \A c \in Children : Unsignalled(c)' <=> Unsignalled(c)
      BY <3>1 DEF Unsignalled, Exists
    <3>4. backendProcess' # NoChild => /\ Exists(backendProcess)'
                                       /\ child'[backendProcess].port = currentBackendPort'
      BY <3>1 DEF EngineInv, WatchdogInv, WatchdogInControl, WatchdogListens, Exists, PortsKnown
    <3>5. /\ f \in {Boot, Watchdog} /\ flow[f].pc = "waiting"
          /\ \A g \in Flows \ {f} : ~At(g, "adopt")
      BY <3>1, OneStart DEF At
    <3> QED BY <1>t, <3>1, <3>2, <3>3, <3>4, <3>5, MoveEngine DEF At
  <2>9. CASE TimedOut(f)
    <3> DEFINE processes == IF Exists(flow[f].child) THEN Killed(child, flow[f].child) ELSE child
    <3>1. /\ At(f, "waiting") /\ NextRunner(f, processes)
          /\ backendProcess' = NoChild /\ UNCHANGED currentBackendPort
      BY <2>9 DEF TimedOut, Killed
    <3> HIDE DEF processes
    <3>2. /\ processes \in Processes
          /\ flow[f].child \in Children /\ Exists(flow[f].child) =>
               processes[flow[f].child].signal = "kill"
          /\ \A d \in Children : /\ processes[d].life = child[d].life
                                 /\ processes[d].port = child[d].port
                                 /\ d # flow[f].child => processes[d].signal = child[d].signal
      BY <1>t, TimedOutKills DEF processes
    <3>3. /\ f \in {Boot, Watchdog} /\ flow[f].pc = "waiting"
          /\ \A g \in Flows \ {f} : ~At(g, "adopt")
      BY <3>1, OneStart DEF At
    <3>4. \A d \in Children : ~(processes[d].life # "none" /\ processes[d].signal = "none")
      <4>1. flow[f].child \in Children /\ (backendProcess # NoChild => backendProcess = flow[f].child)
        BY <3>1 DEF EngineInv, PortsKnown
      <4>2. \A d \in Children : Unsignalled(d) => d = flow[f].child
        BY <3>1, <3>3, <4>1 DEF EngineInv, NoOrphans, At
      <4> QED BY <3>2, <4>1, <4>2 DEF Unsignalled, Exists
    <3>5. flow[f].port \in Ports /\ (f = Boot => backendStarting)
      BY <3>3 DEF EngineInv, WatchdogInv, SpawnedApart, FlowsInOrder
    <3>6. CASE /\ flow[f].runners - 1 \in 0 .. Runners
               /\ Launch(f, processes, flow[f].port, flow[f].runners - 1)
               /\ UNCHANGED backendStarting
      BY <3>1, <3>2, <3>3, <3>4, <3>5, <3>6, LaunchEngine
    <3>7. CASE /\ child' = processes /\ flow'[f].pc = Failed(f)
               /\ \A g \in Flows \ {f} : flow'[g] = flow[g]
      <4>1. flow'[f].pc = IF f = Boot THEN "failed" ELSE "tail"
        BY <3>7 DEF Failed
      <4>2. \A c \in Children : ~Unsignalled(c)'
        BY <3>4, <3>7 DEF Unsignalled, Exists
      <4>3. \A c \in Children : child'[c].port = child[c].port
        BY <3>2, <3>7
      <4> QED BY <1>t, <3>1, <3>3, <3>7, <4>1, <4>2, <4>3, MoveEngine DEF At
    <3> QED BY <1>t, <3>1, <3>2, <3>6, <3>7, NextRunnerDoes
  <2>10. CASE Finish(f)
    <3>1. /\ At(f, "tail") /\ GoTo(f, IF f = Watchdog THEN "idle" ELSE "done")
          /\ UNCHANGED <<child, backendProcess, currentBackendPort, backendStarting>>
      BY <2>10 DEF Finish
    <3>2. /\ flow' \in FlowStates /\ flow'[f].pc = IF f = Watchdog THEN "idle" ELSE "done"
          /\ \A g \in Flows \ {f} : flow'[g] = flow[g]
      BY <1>t, <3>1, FlowGoes DEF Steps
    <3>3. \A c \in Children : Unsignalled(c)' <=> Unsignalled(c)
      BY <3>1 DEF Unsignalled, Exists
    <3>4. \A g \in Flows \ {f} : At(g, "adopt") => Exists(flow[g].child)'
      BY <3>1, <3>2 DEF EngineInv, WatchdogInv, SpawnedApart, Exists, At
    <3>5. backendProcess' # NoChild => /\ Exists(backendProcess)'
                                       /\ child'[backendProcess].port = currentBackendPort'
      BY <3>1
      DEF EngineInv, WatchdogInv, WatchdogInControl, WatchdogListens, Exists, EngineAtCurrentPort
    <3>6. f \in {Boot, Watchdog, Quitting} /\ ~At(f, "idle") /\ ~At(f, "adopt")
      BY <1>t, <3>1 DEF At
    <3> QED BY <1>t, <3>1, <3>2, <3>3, <3>4, <3>5, <3>6, MoveEngine
  <2> QED BY <1>4, <2>1, <2>2, <2>3, <2>4, <2>5, <2>6, <2>7, <2>8, <2>9, <2>10 DEF FlowStep
<1>5. ASSUME NEW c \in Children, ChildListens(c) \/ ChildHangs(c) PROVE Ours'
  <2>1. /\ child' = Up(child, c) \/ child' = Hung(child, c)
        /\ Exists(c)
        /\ UNCHANGED <<flow, backendProcess, currentBackendPort, backendStarting>>
    BY <1>5 DEF ChildListens, ChildHangs, Up, Hung, Exists, Unsignalled
  <2>2. SameButLife(child, child', c) /\ child'[c].life \in {"up", "hung"}
    BY <1>t, <2>1, LifeChanged
  <2>3. \A d \in Children : /\ Unsignalled(d)' <=> Unsignalled(d)
                            /\ child'[d].port = child[d].port
    BY <2>1, <2>2 DEF SameButLife, Unsignalled, Exists
  <2> QED BY <1>t, <2>1, <2>3
    DEF Ours, EngineInv, WatchdogInv, SpawnedApart, FlowsInOrder, StoppedFirst, PortsKnown,
        NoOrphans, EngineAtCurrentPort, At
<1>6. ASSUME NEW c \in Children, ChildExits(c) PROVE Ours'
  <2>1. /\ Exists(c) /\ child[c].listened /\ child' = Ended(child, c)
        /\ backendProcess' = IF backendProcess = c THEN NoChild ELSE backendProcess
        /\ UNCHANGED <<currentBackendPort, backendStarting>>
    BY <1>6 DEF ChildExits, Ended
  <2>2. child'[c].life = "none" /\ \A d \in Children \ {c} : child'[d] = child[d]
    BY <1>t, <2>1, ProcessEnded
  <2>3. \/ UNCHANGED flow
        \/ /\ ~backendStarting /\ ~backendAutoRestartInFlight
           /\ flow'[Watchdog].pc = "sleep" /\ flow'[Watchdog].child = flow[Watchdog].child
           /\ \A g \in Flows \ {Watchdog} : flow'[g] = flow[g]
    <3>1. CASE backendStarting
      BY <1>6, <3>1 DEF ChildExits
    <3>2. CASE ~backendStarting
      BY <1>6, <1>t, <3>2, RecoverDoes DEF ChildExits, TypeOK
    <3> QED BY <3>1, <3>2
  <2>4. flow[Boot].pc # "spawn"
    BY <2>1 DEF EngineInv, WatchdogInv, BootFirst, At
  <2>5. FlowsInOrder' /\ \A f \in Flows : \/ flow'[f] = flow[f]
                                          \/ f = Watchdog /\ At(f, "idle") /\ flow'[f].pc = "sleep"
    BY <1>t, <2>1, <2>3, <2>4
    DEF EngineInv, WatchdogInv, BootFirst, WatchdogInControl, RecoveryFlagOwned, FlowsInOrder, At
  <2>6. ~Unsignalled(c)' /\ \A d \in Children : Unsignalled(d)' => Unsignalled(d)
    BY <2>2 DEF Unsignalled, Exists
  <2>7. StoppedFirst'
    BY <1>t, <2>1, <2>5, <2>6 DEF EngineInv, StoppedFirst, At
  <2>8. PortsKnown'
    BY <1>t, <2>1, <2>2, <2>5
    DEF EngineInv, PortsKnown, WatchdogInv, SpawnedApart, At
  <2>9. NoOrphans'
    BY <2>1, <2>5, <2>6 DEF EngineInv, NoOrphans, At
  <2>10. EngineAtCurrentPort'
    BY <1>t, <2>1, <2>2 DEF EngineInv, EngineAtCurrentPort
  <2> QED BY <2>5, <2>7, <2>8, <2>9, <2>10 DEF Ours
<1>7. ASSUME ProbeFails PROVE Ours'
  <2>1. /\ probe = "asked"
        /\ UNCHANGED <<child, backendProcess, currentBackendPort, backendStarting>>
    BY <1>7 DEF ProbeFails
  <2>2. \/ UNCHANGED flow
        \/ /\ ~backendAutoRestartInFlight
           /\ flow'[Watchdog].pc = "sleep" /\ flow'[Watchdog].child = flow[Watchdog].child
           /\ \A g \in Flows \ {Watchdog} : flow'[g] = flow[g]
    <3>1. CASE probeFailures + 1 < Threshold
      BY <1>7, <3>1 DEF ProbeFails
    <3>2. CASE ~(probeFailures + 1 < Threshold)
      <4>1. AutoRecover(TRUE)
        BY <1>7, <3>2 DEF ProbeFails
      <4> QED BY <1>t, <4>1, RecoverDoes
    <3> QED BY <3>1, <3>2
  <2>3. flow[Boot].pc = "done"
    BY <2>1 DEF EngineInv, WatchdogInv, BootFirst, At
  <2>4. FlowsInOrder' /\ \A f \in Flows : \/ flow'[f] = flow[f]
                                          \/ f = Watchdog /\ At(f, "idle") /\ flow'[f].pc = "sleep"
    BY <1>t, <2>1, <2>2, <2>3
    DEF EngineInv, WatchdogInv, WatchdogInControl, RecoveryFlagOwned, FlowsInOrder, At
  <2>5. \A d \in Children : Unsignalled(d)' <=> Unsignalled(d)
    BY <2>1 DEF Unsignalled, Exists
  <2>6. StoppedFirst'
    BY <1>t, <2>1, <2>4, <2>5 DEF EngineInv, StoppedFirst, At
  <2>7. PortsKnown'
    BY <1>t, <2>1, <2>4 DEF EngineInv, PortsKnown, At
  <2>8. NoOrphans'
    BY <2>1, <2>4, <2>5 DEF EngineInv, NoOrphans, At
  <2>9. EngineAtCurrentPort'
    BY <2>1 DEF EngineInv, EngineAtCurrentPort
  <2> QED BY <2>4, <2>6, <2>7, <2>8, <2>9 DEF Ours
<1>8. ASSUME UNCHANGED <<child, flow, backendProcess, currentBackendPort, backendStarting>>
      PROVE  Ours'
  BY <1>8 DEF Ours, EngineInv, FlowsInOrder, StoppedFirst, PortsKnown, NoOrphans,
              EngineAtCurrentPort, At, Unsignalled, Exists
<1>9. ASSUME ProbeBegins \/ ProbeSucceeds \/ UNCHANGED vars PROVE Ours'
  BY <1>8, <1>9 DEF ProbeBegins, ProbeSucceeds, vars
<1> QED BY <1>1, <1>2, <1>3, <1>4, <1>5, <1>6, <1>7, <1>9 DEF Next

\* No orphans and a stop before every start: one process at most runs on.
LEMMA EngineSingle == Alone /\ EngineInv => SingleEngine
<1> SUFFICES ASSUME Alone, EngineInv PROVE SingleEngine
  OBVIOUS
<1> DEFINE running == {c \in Children : Unsignalled(c)}
<1>1. \A c, d \in running : c = d
  <2>1. ASSUME NEW c \in running, NEW f \in Flows, At(f, "adopt"), flow[f].child = c,
               NEW d \in running
        PROVE  c = d
    <3>1. /\ f \in {Boot, Watchdog} /\ \A g \in Flows \ {f} : ~At(g, "adopt")
      BY <2>1, OneStart DEF At
    <3> QED BY <2>1, <3>1 DEF EngineInv, NoOrphans, StoppedFirst, At
  <2>2. \A c \in running : c = backendProcess \/ \E f \in Flows : At(f, "adopt") /\ flow[f].child = c
    BY DEF EngineInv, NoOrphans
  <2> QED BY <2>1, <2>2
<1> HIDE DEF running
<1>2. Cardinality(running) <= 1
  <2>1. CASE running = {}
    BY <2>1, FS_EmptySet
  <2>2. CASE running # {}
    <3>1. PICK c : running = {c}
      BY <1>1, <2>2
    <3>2. Cardinality({c}) = 1
      BY FS_Singleton, Zenon
    <3> QED BY <3>1, <3>2
  <2> QED BY <2>1, <2>2
<1> QED BY <1>2 DEF SingleEngine, running

\* However exits, failed probes, slow starts and several runners mix, all there is
\* of the backend is the one process the application manages, at the port the
\* window and the probes use: as long as the window asks for no restart and no
\* factory reset, which is when a call can meet a recovery.
THEOREM OneEngineCorrect ==
    ASSUME Alone
    PROVE  Spec => []OneEngineManaged
<1>1. Init => EngineInv
  BY EngineInitial
<1>2. EngineInv /\ [Next]_vars => EngineInv'
  BY EngineKept
<1>3. EngineInv => OneEngineManaged
  BY EngineSingle DEF EngineInv, OneEngineManaged
<1> QED BY <1>1, <1>2, <1>3, PTL DEF Spec

=============================================================================
