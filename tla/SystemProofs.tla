---------------------------- MODULE SystemProofs ----------------------------
(***************************************************************************)
(* The safety properties of System, for all values of its constants, from   *)
(* the invariants of its two components.                                    *)
(*                                                                          *)
(* Orchestrator's invariant does not depend on who else commands wlan0, and *)
(* of Provisioning's the part Safe does not.  What is left is the           *)
(* interplay: a process that runs holds the identity of device.json because *)
(* Process C, which changes it, is gone before A or B is started for online *)
(* mode (Current), and wlan0 is up in offline mode unless a switch or a     *)
(* probe still has to bring it up (Reach).                                  *)
(***************************************************************************)
EXTENDS System, TLAPS

O == INSTANCE OrchestratorProofs WITH
  wlan <- IF wlan \in Request THEN "sta" ELSE wlan,
  uplink <- inRange /\ profile # None,
  MaxChanges <- 0, changes <- 0

P == INSTANCE ProvisioningProofs WITH
  up <- "C" \in alive, OneAtATime <- TRUE, MaxKills <- 0, kills <- 0

\* System's own state.
Types ==
  /\ wlan \in Radio
  /\ inRange \in BOOLEAN /\ disturbed \in BOOLEAN
  /\ held \in [Reader -> Request \cup {None}]
  /\ "C" \notin alive => lock = None

Current ==
  lingered = {} =>
    /\ "A" \in alive => held["A"] = file
    /\ pc = "relaunch B" => "B" \notin alive
    /\ \/ pc = "online done"
       \/ mode = "online" /\ pc \in O!Watching \cup {"offline", "enter ap"}
       => ("B" \in alive => held["B"] = file)

\* where the AP has been up since the orchestrator last touched wlan0
Setup ==
  \/ pc \in {"launch C", "launch B", "offline done"}
  \/ pc \in O!Watching /\ mode = "offline"

Reach ==
  Setup /\ faults = 0 /\ ~stuck /\ wlan = "off" =>
    \E q \in Request : switch[q] \in P!Working

IInv == O!IInv /\ P!Safe /\ Types /\ Current /\ Reach

-----------------------------------------------------------------------------
\* What the components assume of their constants.
LEMMA ComponentAssumptions ==
  O!OrchestratorAssumption /\ P!ProvisioningAssumption
  BY SystemAssumption DEF O!OrchestratorAssumption, P!ProvisioningAssumption

\* System and these proofs instantiate the components in the same way.
LEMMA SameOrchestrator ==
  /\ Orchestrator!Orchestrate \/ Orchestrator!Killed <=> O!Orchestrate \/ O!Killed
  /\ Orchestrator!Init <=> O!Init
  /\ Orchestrator!TypeOK <=> O!TypeOK
<1>1. Orchestrator!Orchestrate \/ Orchestrator!Killed <=> O!Orchestrate \/ O!Killed
  BY Zenon
  DEF Orchestrator!Orchestrate, Orchestrator!Boot, Orchestrator!RunOnlineMode,
      Orchestrator!RunOfflineMode, Orchestrator!Monitor, Orchestrator!Killed,
      Orchestrator!Start, Orchestrator!StartRefused,
      Orchestrator!NetworkManagerReady, Orchestrator!NetworkManagerMissing,
      Orchestrator!Check, Orchestrator!OnlineKillC, Orchestrator!LeaveAp,
      Orchestrator!Join, Orchestrator!LaunchA, Orchestrator!RestartKillB,
      Orchestrator!RelaunchB, Orchestrator!EnterOnline,
      Orchestrator!OfflineKillA, Orchestrator!EnterAp,
      Orchestrator!EnterApFails, Orchestrator!LaunchC, Orchestrator!LaunchB,
      Orchestrator!EnterOffline, Orchestrator!Sleep, Orchestrator!StayOnline,
      Orchestrator!Reboot, Orchestrator!RebootFails, Orchestrator!StayOffline,
      Orchestrator!ProbeApDown, Orchestrator!ProbeJoin, Orchestrator!ProbePing,
      Orchestrator!ProbeRestore, Orchestrator!Watchdog, Orchestrator!Fault,
      Orchestrator!HasInternet, Orchestrator!Running, Orchestrator!KillProcess,
      Orchestrator!Launch, Orchestrator!EnsureRunning, Orchestrator!ApDown,
      Orchestrator!StaUp, Orchestrator!StaUpFails, Orchestrator!ApUp,
      Orchestrator!ApUpFails, Orchestrator!Exits, Orchestrator!Continue,
      Orchestrator!Later, Orchestrator!Stuck, Orchestrator!childVars,
      Orchestrator!stateVars, Orchestrator!clockVars, Orchestrator!envVars,
      O!Orchestrate, O!Boot, O!RunOnlineMode, O!RunOfflineMode, O!Monitor,
      O!Killed, O!Start, O!StartRefused, O!NetworkManagerReady,
      O!NetworkManagerMissing, O!Check, O!OnlineKillC, O!LeaveAp, O!Join,
      O!LaunchA, O!RestartKillB, O!RelaunchB, O!EnterOnline, O!OfflineKillA,
      O!EnterAp, O!EnterApFails, O!LaunchC, O!LaunchB, O!EnterOffline, O!Sleep,
      O!StayOnline, O!Reboot, O!RebootFails, O!StayOffline, O!ProbeApDown,
      O!ProbeJoin, O!ProbePing, O!ProbeRestore, O!Watchdog, O!Fault,
      O!HasInternet, O!Running, O!KillProcess, O!Launch, O!EnsureRunning,
      O!ApDown, O!StaUp, O!StaUpFails, O!ApUp, O!ApUpFails, O!Exits,
      O!Continue, O!Later, O!Stuck, O!childVars, O!stateVars, O!clockVars,
      O!envVars
<1>2. /\ Orchestrator!Init <=> O!Init
      /\ Orchestrator!TypeOK <=> O!TypeOK
  BY Zenon
  DEF Orchestrator!Init, Orchestrator!TypeOK, Orchestrator!Location,
      Orchestrator!Name, O!Init, O!TypeOK, O!Location, O!Name
<1> QED
  BY <1>1, <1>2

LEMMA SameProvisioning ==
  /\ Provisioning!TypeOK <=> P!TypeOK
  /\ Provisioning!Finished = P!Finished
  /\ Provisioning!PostReset <=> P!PostReset
  /\ \A q \in Request :
       /\ Provisioning!PostProvision(q) <=> P!PostProvision(q)
       /\ Provisioning!Handler(q) <=> P!Handler(q)
       /\ Provisioning!Switch(q) <=> P!Switch(q)
  BY Zenon
  DEF Provisioning!TypeOK, Provisioning!RequestState, Provisioning!SwitchState,
      Provisioning!PostProvision, Provisioning!Handler,
      Provisioning!BodyRefused, Provisioning!BodyAccepted,
      Provisioning!PostReset, Provisioning!Switch, Provisioning!AcquireLock,
      Provisioning!CreateProfile, Provisioning!Connect, Provisioning!Activate,
      Provisioning!ConnectionUp, Provisioning!Verify,
      Provisioning!RollbackDown, Provisioning!RollbackUp,
      Provisioning!IsProvisioned, Provisioning!LockFree, Provisioning!Released,
      Provisioning!Down, Provisioning!ApUp, Provisioning!httpVars,
      Provisioning!radioVars, Provisioning!Finished, Provisioning!Locked,
      P!TypeOK, P!RequestState, P!SwitchState, P!PostProvision, P!Handler,
      P!BodyRefused, P!BodyAccepted, P!PostReset, P!Switch, P!AcquireLock,
      P!CreateProfile, P!Connect, P!Activate, P!ConnectionUp, P!Verify,
      P!RollbackDown, P!RollbackUp, P!IsProvisioned, P!LockFree, P!Released,
      P!Down, P!ApUp, P!httpVars, P!radioVars, P!Finished, P!Locked

-----------------------------------------------------------------------------
\* The device has nothing stored and nothing runs.
LEMMA InitIInv == Init => IInv
<1> SUFFICES ASSUME Init PROVE IInv
  OBVIOUS
<1>1. O!IInv
  BY SameOrchestrator, O!InitIInv, ComponentAssumptions DEF Init
<1>2. pc = "exited" /\ alive = {}
  BY SameOrchestrator DEF Init, O!Init
<1>3. P!Safe
  <2>1. /\ request \in [Request -> P!RequestState]
        /\ switch \in [Request -> P!SwitchState]
    BY DEF Init, P!RequestState, P!SwitchState
  <2>2. \A q \in Request : lock = q <=> switch[q] \in P!Locked
    BY SystemAssumption DEF Init, P!Locked
  <2>3. resets \in 0..MaxResets
    BY SystemAssumption DEF Init
  <2>c. ("C" \in alive) \in BOOLEAN
    OBVIOUS
  <2>4. stuck \in BOOLEAN
    BY Zenon DEF Init
  <2>6. file \in Request \cup {None} /\ profile \in Request \cup {None}
    BY DEF Init
  <2>7. wlan \in Request \cup {"ap", "off"} /\ lock \in Request \cup {None}
    BY DEF Init
  <2>8. 0 \in 0..0
    OBVIOUS
  <2>9. P!TypeOK
    BY <2>1, <2>2, <2>3, <2>c, <2>4, <2>6, <2>7, <2>8, Zenon DEF P!TypeOK
  <2>5. P!Ordered /\ P!OwnNetwork
    BY DEF Init, P!Ordered, P!OwnNetwork
  <2> QED
    BY <2>5, <2>9 DEF P!Safe
<1>4. Types
  <2>1. disturbed \in BOOLEAN
    BY Zenon DEF Init
  <2> QED
    BY <1>2, <2>1 DEF Init, Types, Radio
<1>5. Current /\ Reach
  BY <1>2 DEF Init, Current, Reach, Setup, O!Watching
<1> QED
  BY <1>1, <1>3, <1>4, <1>5 DEF IInv

-----------------------------------------------------------------------------
(* The steps of the orchestrator *)

\* No step forgets a child that survived SIGKILL.
LEMMA LingeredStays ==
  ASSUME O!Orchestrate \/ O!Killed
  PROVE  lingered' = {} => lingered = {}
<1>1. ASSUME NEW n, O!KillProcess(n) \/ O!EnsureRunning(n) \/ O!Launch(n)
      PROVE  lingered' = {} => lingered = {}
  BY <1>1 DEF O!KillProcess, O!EnsureRunning, O!Launch, O!childVars
<1>2. CASE O!Boot
  BY <1>2
  DEF O!Boot, O!Start, O!StartRefused, O!NetworkManagerReady,
      O!NetworkManagerMissing, O!Check, O!Exits, O!childVars
<1>3. CASE O!RunOnlineMode
  BY <1>1, <1>3
  DEF O!RunOnlineMode, O!OnlineKillC, O!LeaveAp, O!Join, O!LaunchA,
      O!RestartKillB, O!RelaunchB, O!EnterOnline, O!childVars
<1>4. CASE O!RunOfflineMode
  BY <1>1, <1>4
  DEF O!RunOfflineMode, O!OfflineKillA, O!EnterAp, O!EnterApFails, O!LaunchC,
      O!LaunchB, O!EnterOffline, O!Exits, O!childVars
<1>5. CASE O!Monitor
  BY <1>5
  DEF O!Monitor, O!Sleep, O!StayOnline, O!Reboot, O!RebootFails, O!StayOffline,
      O!ProbeApDown, O!ProbeJoin, O!ProbePing, O!ProbeRestore, O!Watchdog,
      O!Exits, O!childVars
<1>6. CASE O!Killed
  BY <1>6 DEF O!Killed, O!Exits
<1> QED
  BY <1>2, <1>3, <1>4, <1>5, <1>6 DEF O!Orchestrate

\* Where the identity of B matters afterwards it mattered before, or B was just
\* started, and B is not running when it is about to be.
LEMMA IdentityStep ==
  ASSUME O!IInv, O!Orchestrate \/ O!Killed, lingered' = {}
  PROVE  /\ pc' = "relaunch B" => "B" \notin alive'
         /\ \/ pc' = "online done"
            \/ mode' = "online" /\ pc' \in O!Watching \cup {"offline", "enter ap"}
            => \/ pc = "relaunch B"
               \/ /\ \/ pc = "online done"
                     \/ mode = "online"
                          /\ pc \in O!Watching \cup {"offline", "enter ap"}
                  /\ alive' \subseteq alive /\ tracked' \subseteq tracked
<1>t. O!TypeOK /\ O!Modes /\ O!NoOrphans
  BY DEF O!IInv
<1>1. CASE O!Boot
  BY <1>1, <1>t
  DEF O!Boot, O!Start, O!StartRefused, O!NetworkManagerReady,
      O!NetworkManagerMissing, O!Check, O!Exits, O!childVars, O!stateVars,
      O!Modes, O!Watching
<1>2. CASE O!RunOnlineMode
  <2>1. CASE O!RestartKillB
    <3>1. "B" \notin alive'
      BY <1>t, <2>1, O!KillProcessStep, ComponentAssumptions
      DEF O!RestartKillB, O!Name
    <3> QED
      BY <2>1, <3>1 DEF O!RestartKillB, O!Watching
  <2>2. CASE O!RelaunchB \/ O!EnterOnline
    BY <2>2 DEF O!RelaunchB, O!EnterOnline, O!Continue, O!childVars
  <2>3. CASE O!OnlineKillC \/ O!LeaveAp \/ O!Join \/ O!LaunchA
    BY <2>3 DEF O!OnlineKillC, O!LeaveAp, O!Join, O!LaunchA, O!Watching
  <2> QED
    BY <1>2, <2>1, <2>2, <2>3 DEF O!RunOnlineMode
<1>3. CASE O!RunOfflineMode
  <2>1. CASE O!OfflineKillA
    BY <1>t, <2>1
    DEF O!OfflineKillA, O!KillProcess, O!stateVars, O!Watching
  <2>2. CASE O!EnterAp
    BY <2>2 DEF O!EnterAp, O!Watching
  <2>4. CASE O!EnterApFails /\ mode = "none"
    BY <2>4 DEF O!EnterApFails, O!Exits, O!Watching
  <2>5. CASE O!EnterApFails /\ mode # "none"
    <3>1. /\ pc = "enter ap" /\ pc' = "sleep" /\ mode' = mode
          /\ UNCHANGED O!childVars
      BY <2>5 DEF O!EnterApFails
    <3> QED
      BY <3>1 DEF O!childVars
  <2>3. CASE O!LaunchC \/ O!LaunchB \/ O!EnterOffline
    BY <2>3 DEF O!LaunchC, O!LaunchB, O!EnterOffline, O!Continue, O!Watching
  <2> QED
    BY <1>3, <2>1, <2>2, <2>4, <2>5, <2>3 DEF O!RunOfflineMode
<1>4. CASE O!Monitor
  BY <1>4, <1>t
  DEF O!Monitor, O!Sleep, O!StayOnline, O!Reboot, O!RebootFails, O!StayOffline,
      O!ProbeApDown, O!ProbeJoin, O!ProbePing, O!ProbeRestore, O!Watchdog,
      O!Exits, O!childVars, O!stateVars, O!Modes, O!Probing, O!Watching
<1>5. CASE O!Killed
  BY <1>5 DEF O!Killed, O!Exits, O!Watching
<1> QED
  BY <1>1, <1>2, <1>3, <1>4, <1>5 DEF O!Orchestrate

\* Where the AP has to be up afterwards it was just brought up, or it had to be
\* up before and neither wlan0 nor Process C is touched.
LEMMA SetupStep ==
  ASSUME O!IInv, Types, Types', O!Orchestrate \/ O!Killed,
         Setup', faults' = 0
  PROVE  \/ wlan' = "ap"
         \/ /\ Setup /\ faults = 0
            /\ wlan' = "off" => wlan = "off"
            /\ "C" \in alive => "C" \in alive'
<1>t. O!TypeOK /\ O!Modes
  BY DEF O!IInv
<1>f. ~O!Fault
  BY <1>t DEF O!Fault, O!TypeOK
<1>w. /\ O!ApUp => wlan' = "ap" /\ faults = 0
      /\ (IF wlan' \in Request THEN "sta" ELSE wlan')
           = (IF wlan \in Request THEN "sta" ELSE wlan)
         => (wlan' = "off" => wlan = "off")
  BY SystemAssumption DEF O!ApUp, Types, Radio
<1>1. CASE O!Boot
  BY <1>1, <1>t
  DEF O!Boot, O!Start, O!StartRefused, O!NetworkManagerReady,
      O!NetworkManagerMissing, O!Check, O!Exits, O!stateVars, O!Modes,
      O!Watching, Setup
<1>2. CASE O!RunOnlineMode
  BY <1>2, <1>t
  DEF O!RunOnlineMode, O!OnlineKillC, O!LeaveAp, O!Join, O!LaunchA,
      O!RestartKillB, O!RelaunchB, O!EnterOnline, O!Continue, O!Modes,
      O!Watching, Setup
<1>3. CASE O!RunOfflineMode
  <2>1. CASE O!OfflineKillA \/ O!EnterAp \/ O!EnterApFails
    BY <2>1, <1>f, <1>w
    DEF O!OfflineKillA, O!EnterAp, O!EnterApFails, O!ApUpFails, Setup, O!Watching
  <2>2. CASE O!LaunchC
    BY <2>2, <1>f, <1>w
    DEF O!LaunchC, O!EnsureRunning, O!Launch, O!childVars, Setup
  <2>3. CASE O!LaunchB
    BY <2>3, <1>f, <1>w
    DEF O!LaunchB, O!EnsureRunning, O!Launch, O!childVars, Setup
  <2>4. CASE O!EnterOffline
    BY <2>4, <1>w DEF O!EnterOffline, O!childVars, Setup
  <2> QED
    BY <1>3, <2>1, <2>2, <2>3, <2>4 DEF O!RunOfflineMode
<1>4. CASE O!Monitor
  <2>1. CASE \/ O!Sleep \/ O!StayOnline \/ O!StayOffline \/ O!Watchdog
    BY <2>1, <1>w
    DEF O!Sleep, O!StayOnline, O!StayOffline, O!Watchdog, O!childVars, O!stateVars,
        Setup, O!Watching
  <2>2. CASE O!Reboot \/ O!RebootFails \/ O!ProbeApDown \/ O!ProbeJoin \/ O!ProbePing
    BY <2>2, <1>f
    DEF O!Reboot, O!RebootFails, O!ProbeApDown, O!ProbeJoin, O!ProbePing, O!Exits,
        Setup, O!Watching
  <2>3. CASE O!ProbeRestore
    BY <2>3, <1>f, <1>w DEF O!ProbeRestore, O!ApUpFails
  <2> QED
    BY <1>4, <2>1, <2>2, <2>3 DEF O!Monitor
<1>5. CASE O!Killed
  BY <1>5 DEF O!Killed, O!Exits, Setup, O!Watching
<1> QED
  BY <1>1, <1>2, <1>3, <1>4, <1>5 DEF O!Orchestrate

\* A Process C that is stopped takes its requests, its switches and the lock
\* with it; one that is not has lost at most the use of wlan0.
LEMMA ProcessCSafe ==
  ASSUME IInv, OrchestratorStep
  PROVE  P!Safe' /\ ("C" \notin alive' => lock' = None)
<1>t. P!TypeOK /\ P!Ordered /\ P!OwnNetwork /\ Types
  BY DEF IInv, P!Safe
<1>u. /\ UNCHANGED <<file, profile, resets>>
      /\ wlan' \in Radio /\ stuck' = (stuck /\ wlan' # "ap")
      /\ wlan' \in Request => wlan' \in {wlan, profile}
      /\ ProcessCAfter
  BY DEF OrchestratorStep, Joins
<1>1. stuck' \in BOOLEAN /\ ("C" \in alive') \in BOOLEAN
  <2>1. stuck' \in BOOLEAN
    BY <1>u, Zenon
  <2>2. ("C" \in alive') \in BOOLEAN
    OBVIOUS
  <2> QED
    BY <2>1, <2>2
<1>2. CASE "C" \in alive /\ "C" \notin alive'
  <2>1. /\ request' = [q \in Request |-> IF request[q] = "reading"
                                           THEN "dropped" ELSE request[q]]
        /\ switch' = [q \in Request |-> IF switch[q] \in P!Finished
                                          THEN switch[q] ELSE "none"]
        /\ lock' = None
    BY <1>u, <1>2, SameProvisioning DEF ProcessCAfter
  <2>2. /\ request' \in [Request -> P!RequestState]
        /\ switch' \in [Request -> P!SwitchState]
    BY <1>t, <2>1 DEF P!TypeOK, P!RequestState, P!SwitchState
  <2>3. \A q \in Request : lock' = q <=> switch'[q] \in P!Locked
    BY <2>1, SystemAssumption DEF P!Finished, P!Locked
  <2>4. P!TypeOK'
    BY <1>t, <1>u, <1>1, <2>1, <2>2, <2>3 DEF P!TypeOK, Radio
  <2>5. P!Ordered' /\ P!OwnNetwork'
    BY <1>t, <2>1 DEF P!TypeOK, P!Ordered, P!OwnNetwork, P!Finished
  <2> QED
    BY <2>1, <2>4, <2>5 DEF P!Safe
<1>3. CASE ~("C" \in alive /\ "C" \notin alive')
  <2>1. UNCHANGED <<request, switch, lock>>
    BY <1>u, <1>3 DEF ProcessCAfter
  <2>2. P!TypeOK'
    BY <1>t, <1>u, <1>1, <2>1 DEF P!TypeOK, Radio
  <2>3. P!Ordered' /\ P!OwnNetwork'
    BY <1>t, <1>u, <2>1 DEF P!Ordered, P!OwnNetwork, Radio
  <2> QED
    BY <1>t, <1>3, <2>1, <2>2, <2>3 DEF P!Safe, Types
<1> QED
  BY <1>2, <1>3

LEMMA OrchestratorIInv ==
  ASSUME IInv, OrchestratorStep
  PROVE  IInv'
<1>t. O!IInv /\ Types /\ Current /\ Reach /\ file \in Request \cup {None}
  BY DEF IInv, P!Safe, P!TypeOK
<1>s. O!Orchestrate \/ O!Killed
  BY SameOrchestrator DEF OrchestratorStep
<1>1. O!IInv'
  BY <1>t, <1>s, O!NextIInv, ComponentAssumptions, Zenon DEF O!Next
<1>2. P!Safe'
  BY ProcessCSafe
<1>3. Types'
  <2>1. held' \in [Reader -> Request \cup {None}]
    BY <1>t DEF OrchestratorStep, HeldAfterLaunch, Types
  <2>2. disturbed' \in BOOLEAN
    BY Zenon DEF OrchestratorStep
  <2> QED
    BY <1>t, <2>1, <2>2, ProcessCSafe DEF OrchestratorStep, Types, Radio
<1>4. Current'
  <2> SUFFICES ASSUME lingered' = {} PROVE Current'
    BY DEF Current
  <2>1. lingered = {}
    BY <1>s, LingeredStays
  <2>2. alive' \subseteq tracked' /\ alive \subseteq tracked
    BY <1>t, <1>1, <2>1 DEF O!IInv, O!NoOrphans
  <2>3. ASSUME NEW n \in Reader, n \in alive'
        PROVE  held'[n] = IF n \in alive THEN held[n] ELSE file
    BY <2>2, <2>3 DEF OrchestratorStep, HeldAfterLaunch, Running
  <2>4. file' = file
    BY DEF OrchestratorStep
  <2>5. "A" \in alive' => held'["A"] = file'
    BY <1>t, <2>1, <2>3, <2>4 DEF Current, Reader
  <2>6. pc = "relaunch B" => "B" \notin alive
    BY <1>t, <2>1 DEF Current
  <2> QED
    BY <1>t, <1>s, <2>1, <2>3, <2>4, <2>5, <2>6, IdentityStep DEF Current, Reader
<1>5. Reach'
  <2> SUFFICES ASSUME Setup', faults' = 0, ~stuck', wlan' = "off"
               PROVE  \E q \in Request : switch'[q] \in P!Working
    BY DEF Reach
  <2>1. Setup /\ faults = 0 /\ wlan = "off" /\ ("C" \in alive => "C" \in alive')
    BY <1>t, <1>s, <1>3, SetupStep
  <2>2. ~stuck /\ switch' = switch
    BY <2>1 DEF OrchestratorStep, ProcessCAfter
  <2> QED
    BY <1>t, <2>1, <2>2 DEF Reach
<1> QED
  BY <1>1, <1>2, <1>3, <1>4, <1>5 DEF IInv

-----------------------------------------------------------------------------
(* The steps of Process C and of the network *)

\* The orchestrator's invariant does not depend on wlan0 and the network.
LEMMA OrchestratorUntouched ==
  ASSUME O!IInv, UNCHANGED orchestratorVars, Types', faults' \in 0..MaxFaults
  PROVE  O!IInv'
<1>1. O!TypeOK'
  <2>1. (inRange /\ profile # None)' \in BOOLEAN
    BY DEF Types
  <2> QED
    BY <2>1 DEF O!IInv, O!TypeOK, Types, Radio, orchestratorVars
<1> QED
  BY <1>1
  DEF O!IInv, O!Modes, O!Gate, O!Dead, O!NoOrphans, O!Groups, O!NoA, O!NoC,
      orchestratorVars

\* One fault at most.
LEMMA FaultsType ==
  ASSUME faults \in 0..MaxFaults, Fault \/ UNCHANGED faults
  PROVE  faults' \in 0..MaxFaults /\ (faults' = 0 => faults = 0)
<1>1. CASE Fault
  BY <1>1, SystemAssumption DEF Fault
<1>2. CASE UNCHANGED faults
  BY <1>2
<1> QED
  BY <1>1, <1>2

\* Process C runs alone when it changes device.json.
LEMMA HandlerIInv ==
  ASSUME IInv, HandlerStep
  PROVE  IInv'
<1>t. O!IInv /\ P!Safe /\ Types /\ Current /\ Reach
  BY DEF IInv
<1>u. UNCHANGED <<orchestratorVars, faults, inRange, held, disturbed>>
  BY DEF HandlerStep
<1>s. P!PostReset \/ \E q \in Request : P!PostProvision(q) \/ P!Handler(q)
  BY SameProvisioning DEF HandlerStep
<1>v. "C" \in alive /\ UNCHANGED <<wlan, stuck, lock>>
  BY <1>s
  DEF P!PostProvision, P!Handler, P!BodyRefused, P!BodyAccepted, P!PostReset,
      P!radioVars
<1>1. P!Safe' /\ (P!Reachable => P!Reachable')
  BY <1>t, <1>s, P!HandlerSafe, P!ResetSafe, ComponentAssumptions
<1>2. Types'
  BY <1>t, <1>u, <1>v DEF Types, Radio, orchestratorVars
<1>3. O!IInv'
  <2>1. faults' \in 0..MaxFaults
    BY <1>t, <1>u DEF O!IInv, O!TypeOK
  <2> QED
    BY <1>t, <1>u, <1>2, <2>1, OrchestratorUntouched
<1>4. Current'
  <2>1. lingered = {} =>
          /\ "A" \notin alive
          /\ ~(pc = "online done")
          /\ ~(mode = "online" /\ pc \in O!Watching \cup {"offline", "enter ap"})
    BY <1>t, <1>v DEF O!IInv, O!Groups, O!NoC, O!Leaving
  <2> QED
    BY <1>t, <1>u, <2>1 DEF Current, orchestratorVars
<1>5. Reach'
  BY <1>t, <1>u, <1>v, <1>1 DEF Reach, Setup, P!Reachable, orchestratorVars
<1> QED
  BY <1>1, <1>2, <1>3, <1>4, <1>5 DEF IInv

\* A switch leaves wlan0 off only while it has steps to come.
LEMMA SwitchIInv ==
  ASSUME IInv, NEW q \in Request, SwitchStep(q)
  PROVE  IInv'
<1>t. O!IInv /\ P!Safe /\ Types /\ Current /\ Reach
  BY DEF IInv
<1>u. /\ UNCHANGED <<orchestratorVars, inRange, held>>
      /\ disturbed' = FALSE /\ (Fault \/ UNCHANGED faults)
  BY DEF SwitchStep
<1>s. P!Switch(q)
  BY SameProvisioning DEF SwitchStep
<1>v. "C" \in alive /\ UNCHANGED file
  BY <1>s
  DEF P!Switch, P!AcquireLock, P!CreateProfile, P!Connect, P!Activate,
      P!ConnectionUp, P!Verify, P!RollbackDown, P!RollbackUp, P!httpVars
<1>1. P!Safe' /\ (P!Reachable => P!Reachable')
  BY <1>t, <1>s, P!SwitchSafe, ComponentAssumptions
<1>2. Types'
  <2>1. disturbed' \in BOOLEAN
    BY <1>u, Zenon
  <2>2. wlan' \in Radio
    BY <1>1 DEF P!Safe, P!TypeOK, Radio
  <2> QED
    BY <1>t, <1>u, <1>v, <2>1, <2>2 DEF Types, orchestratorVars
<1>3. faults' \in 0..MaxFaults /\ (faults' = 0 => faults = 0)
  BY <1>t, <1>u, FaultsType DEF O!IInv, O!TypeOK
<1>4. O!IInv'
  BY <1>t, <1>u, <1>2, <1>3, OrchestratorUntouched
<1>5. Current'
  BY <1>t, <1>u, <1>v DEF Current, orchestratorVars
<1>6. Reach'
  BY <1>t, <1>u, <1>v, <1>1, <1>3 DEF Reach, Setup, P!Reachable, orchestratorVars
<1> QED
  BY <1>1, <1>2, <1>4, <1>5, <1>6 DEF IInv

\* The network comes and goes on its own.
LEMMA NetworkIInv ==
  ASSUME IInv, Outage \/ Return
  PROVE  IInv'
<1>t. O!IInv /\ P!Safe /\ Types /\ Current /\ Reach
  BY DEF IInv
<1>u. /\ UNCHANGED <<orchestratorVars, provisioningVars, held, disturbed>>
      /\ inRange' \in BOOLEAN /\ (Fault \/ UNCHANGED faults)
  BY DEF Outage, Return
<1>v. /\ wlan' \in {wlan, profile, "off"} /\ (wlan' = profile => wlan' \in Radio)
      /\ wlan' = "off" => faults' # 0 \/ wlan = "off"
  <2>1. CASE Outage
    BY <2>1, <1>t DEF Outage, Fault, O!IInv, O!TypeOK, Types, Radio
  <2>2. CASE Return
    BY <2>2, <1>t DEF Return, Types, Radio, P!Safe, P!TypeOK
  <2> QED
    BY <2>1, <2>2
<1>1. P!Safe'
  <2>1. P!TypeOK'
    BY <1>t, <1>u, <1>v DEF P!Safe, P!TypeOK, Types, Radio, provisioningVars,
                            orchestratorVars
  <2>2. P!Ordered' /\ P!OwnNetwork'
    BY <1>t, <1>u, <1>v
    DEF P!Safe, P!Ordered, P!OwnNetwork, Types, Radio, provisioningVars
  <2> QED
    BY <2>1, <2>2 DEF P!Safe
<1>2. Types'
  BY <1>t, <1>u, <1>v DEF Types, Radio, orchestratorVars, provisioningVars
<1>3. faults' \in 0..MaxFaults /\ (faults' = 0 => faults = 0)
  BY <1>t, <1>u, FaultsType DEF O!IInv, O!TypeOK
<1>4. O!IInv'
  BY <1>t, <1>u, <1>2, <1>3, OrchestratorUntouched
<1>5. Current' /\ Reach'
  BY <1>t, <1>u, <1>v, <1>3
  DEF Current, Reach, Setup, orchestratorVars, provisioningVars
<1> QED
  BY <1>1, <1>2, <1>4, <1>5 DEF IInv

\* Every step keeps the invariant.
LEMMA NextIInv == IInv /\ [Next]_vars => IInv'
<1> SUFFICES ASSUME IInv, [Next]_vars PROVE IInv'
  OBVIOUS
<1>1. CASE UNCHANGED vars
  <2>1. O!IInv'
    BY <1>1, OrchestratorUntouched
    DEF IInv, Types, Radio, O!IInv, O!TypeOK, vars, orchestratorVars, provisioningVars
  <2>2. P!Safe'
    BY <1>1
    DEF IInv, P!Safe, P!TypeOK, P!Ordered, P!OwnNetwork, vars, orchestratorVars,
        provisioningVars
  <2>3. Types' /\ Current' /\ Reach'
    BY <1>1
    DEF IInv, Types, Radio, Current, Reach, Setup, vars, orchestratorVars,
        provisioningVars
  <2> QED
    BY <2>1, <2>2, <2>3 DEF IInv
<1> QED
  BY <1>1, OrchestratorIInv, HandlerIInv, SwitchIInv, NetworkIInv DEF Next

-----------------------------------------------------------------------------
\* The invariant holds in every state of the system.
THEOREM Invariance == Spec => []IInv
  BY InitIInv, NextIInv, PTL DEF Spec

\* Types of both components and of what they share; a lock of Process C does
\* not outlive it.
THEOREM TypeCorrect == Spec => []TypeOK
<1>1. IInv => TypeOK
  BY SameOrchestrator, SameProvisioning
  DEF IInv, O!IInv, P!Safe, Types, TypeOK
<1> QED
  BY <1>1, Invariance, PTL

\* No process works under an identity that is no longer in device.json.
THEOREM HeldIdentityInForce == Spec => []IdentityInForce
<1>1. IInv => IdentityInForce
  BY DEF IInv, Current, IdentityInForce, O!Watching
<1> QED
  BY <1>1, Invariance, PTL

\* Probes and switches leave a sleeping offline Pi reachable.
THEOREM StaysReachable == Spec => []SetupReachable
<1>1. IInv => SetupReachable
  <2> SUFFICES ASSUME IInv, pc = "sleep", mode = "offline", faults = 0, ~stuck,
                      \A q \in Request : switch[q] \in Provisioning!Finished
               PROVE  wlan # "off"
    BY DEF SetupReachable
  <2>1. \A q \in Request : switch[q] \notin P!Working
    BY SameProvisioning DEF P!Working
  <2> QED
    BY <2>1 DEF IInv, Reach, Setup, O!Watching
<1> QED
  BY <1>1, Invariance, PTL

\* Process C reports the success of its own credentials only, whatever the
\* orchestrator does to wlan0 while it polls.
THEOREM SuccessIsOwn == Spec => SuccessIsOwnNetwork
<1> DEFINE Own == \A q \in Request :
              switch[q] # "success" /\ switch'[q] = "success" => wlan = q
<1>1. IInv /\ [Next]_vars => [Own]_vars
  <2> SUFFICES ASSUME IInv, [Next]_vars, NEW q \in Request,
                      switch[q] # "success", switch'[q] = "success"
               PROVE  wlan = q
    OBVIOUS
  <2>t. P!Safe
    BY DEF IInv
  <2>1. ASSUME NEW p \in Request, SwitchStep(p) PROVE wlan = q
    BY <2>t, <2>1, P!SwitchSuccess, SameProvisioning, ComponentAssumptions
    DEF SwitchStep
  <2>2. ~HandlerStep
    <3>1. ASSUME NEW p \in Request, P!PostProvision(p) \/ P!Handler(p) PROVE FALSE
      BY <2>t, <3>1, P!HandlerSuccess, ComponentAssumptions
    <3>2. ~P!PostReset
      BY DEF P!PostReset
    <3> QED
      BY <3>1, <3>2, SameProvisioning DEF HandlerStep
  <2>3. ~OrchestratorStep
    BY DEF OrchestratorStep, ProcessCAfter
  <2>4. ~(Outage \/ Return \/ UNCHANGED vars)
    BY DEF Outage, Return, vars, provisioningVars
  <2> QED
    BY <2>1, <2>2, <2>3, <2>4 DEF Next
<1> QED
  BY <1>1, Invariance, PTL DEF Spec, SuccessIsOwnNetwork
=============================================================================
