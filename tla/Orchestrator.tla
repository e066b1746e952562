---------------------------- MODULE Orchestrator ----------------------------
(***************************************************************************)
(* The boot orchestrator: it decides between online mode (Processes A and   *)
(* B, wlan0 on the home network) and offline mode (Processes C and B, wlan0 *)
(* an access point), and keeps watching.  Each subprocess call that changes *)
(* something is a step, and between two steps the home network may go or    *)
(* return, a child may die, or the orchestrator itself be killed.           *)
(*                                                                          *)
(* Time is counted in passes of the monitor loop.                           *)
(***************************************************************************)
EXTENDS Naturals

CONSTANTS
  MaxFailures,   \* MAX_FAILURES
  ProbeAfter,    \* RECOVERY_PROBE_INTERVAL_SEC, in passes
  RebootAfter,   \* RECOVERY_REBOOT_AFTER_SEC, in passes
  LongestPass,   \* bound on the length of one pass (a probe makes it longer)
  ChildrenFail,  \* whether A, B or C may fail to start or exit on its own
  MaxChanges,    \* bound on outages and on what Process C does to wlan0
  MaxFaults      \* bound on everything else that goes wrong

ASSUME OrchestratorAssumption ==
  /\ MaxFailures \in Nat \ {0}
  /\ ProbeAfter \in Nat /\ RebootAfter \in Nat
  /\ LongestPass \in Nat \ {0}
  /\ ChildrenFail \in BOOLEAN
  /\ MaxChanges \in Nat /\ MaxFaults \in Nat

VARIABLES
  pc,        \* where the orchestrator is
  alive,     \* the processes that run
  tracked,   \* names whose handle in _running is not None
  mode,      \* state["last_mode"]; "none" until the first mode is entered
  failures,  \* consecutive_failures in the state file
  since,     \* passes since offline_since
  probe,     \* passes since last_recovery_probe
  wlan,      \* wlan0: "sta", "ap" or "off"
  uplink,    \* the home network is in range, its credentials are in the STA
             \* profile, and it leads to the Internet
  lingered,  \* history: the children that survived SIGKILL
  changes, faults

childVars  == <<alive, tracked, lingered>>
stateVars  == <<mode, failures>>
clockVars  == <<since, probe>>
envVars    == <<uplink, changes>>
vars == <<pc, childVars, stateVars, clockVars, wlan, envVars, faults>>

Name == {"A", "B", "C"}

\* In the order of main, run_online_mode, run_offline_mode, try_sta_recovery.
Location == {"exited", "start", "check",
             "online", "leave ap", "join", "launch A", "kill B", "relaunch B",
             "online done",
             "offline", "enter ap", "launch C", "launch B", "offline done",
             "sleep", "ping", "probe", "probe join", "probe ping",
             "probe restore", "watchdog"}

-----------------------------------------------------------------------------
(* Operators *)

\* Something fails; the budget bounds how often.
Fault == faults < MaxFaults /\ faults' = faults + 1

\* has_internet, with every error taken for "no"
HasInternet == wlan = "sta" /\ uplink

\* _running[n] and _running[n].poll() is None
Running(n) == n \in tracked \cap alive

\* (variant for a mutant) The handle is dropped without a kill.
KillProcessNot(n) ==
  tracked' = tracked \ {n} /\ UNCHANGED <<alive, lingered, faults>>

\* _kill_process: SIGTERM, then SIGKILL.  When even that fails the handle is
\* dropped all the same.
KillProcess(n) ==
  /\ tracked' = tracked \ {n}
  /\ \/ /\ alive' = IF n \in tracked THEN alive \ {n} ELSE alive
        /\ UNCHANGED <<lingered, faults>>
     \/ /\ Running(n) /\ Fault
        /\ lingered' = lingered \cup {n}
        /\ UNCHANGED alive

\* _safe_launch: pkill whatever matches the pattern, then Popen.
Launch(n) ==
  /\ UNCHANGED lingered
  /\ \/ /\ alive' = alive \cup {n} /\ tracked' = tracked \cup {n}
        /\ UNCHANGED faults
     \/ /\ ChildrenFail /\ Fault
        /\ alive' = alive \ {n} /\ tracked' = tracked \ {n}

\* the same unless the child is running
EnsureRunning(n) ==
  IF Running(n) THEN UNCHANGED <<childVars, faults>> ELSE Launch(n)

\* nmcli connection down ShelfAware_Setup; all errors are ignored
ApDown ==
  IF wlan = "ap"
    THEN \/ wlan' = "off" /\ UNCHANGED faults
         \/ Fault /\ UNCHANGED wlan
    ELSE UNCHANGED <<wlan, faults>>

\* nmcli connection up ShelfAware_STA.  The network may be there without
\* leading to the Internet; one that is not there fails without a fault.
StaUp == wlan' = "sta" /\ UNCHANGED faults
StaUpFails ==
  /\ IF uplink THEN Fault ELSE UNCHANGED faults
  /\ wlan' \in {wlan, "off"}

\* nmcli device disconnect wlan0 (errors ignored), connection up
\* ShelfAware_Setup.  One that times out may come up later or not at all.
ApUp == wlan' = "ap" /\ UNCHANGED faults
ApUpFails == Fault /\ wlan' \in {wlan, "off", "ap"}

\* the end of the orchestrator: systemd kills the whole control group
Exits == pc' = "exited" /\ alive' = {} /\ tracked' = {} /\ UNCHANGED lingered

-----------------------------------------------------------------------------
(* main, up to the first mode *)

\* (variant for a mutant) No gate.
StartUngated ==
  /\ pc = "exited"
  /\ pc' = "start"
  /\ alive' = {} /\ tracked' = {}
  /\ mode' = "none" /\ since' = 0 /\ probe' = 0
  /\ UNCHANGED <<lingered, failures, wlan, envVars, faults>>

\* _kill_orphans, _load_state, and the gate on consecutive failures
Start ==
  /\ pc = "exited" /\ failures < MaxFailures
  /\ pc' = "start"
  /\ alive' = {} /\ tracked' = {}
  /\ mode' = "none" /\ since' = 0 /\ probe' = 0
  /\ UNCHANGED <<lingered, failures, wlan, envVars, faults>>

\* the gate is shut: the AP as a fallback, and exit code 1
StartRefused ==
  /\ pc = "exited" /\ failures >= MaxFailures
  /\ ApUp \/ ApUpFails
  /\ mode' = "none"
  /\ UNCHANGED <<pc, childVars, failures, clockVars, envVars>>

\* wait_for_networkmanager
NetworkManagerReady ==
  /\ pc = "start"
  /\ pc' = "check"
  /\ UNCHANGED <<childVars, stateVars, clockVars, wlan, envVars, faults>>

NetworkManagerMissing ==
  /\ pc = "start" /\ Fault
  /\ failures' = failures + 1
  /\ Exits
  /\ UNCHANGED <<mode, clockVars, wlan, envVars>>

\* the boot decision
Check ==
  /\ pc = "check"
  /\ pc' = IF HasInternet THEN "online" ELSE "offline"
  /\ UNCHANGED <<childVars, stateVars, clockVars, wlan, envVars, faults>>

-----------------------------------------------------------------------------
(* run_online_mode *)

\* (variant for a mutant) Process C is left running.
OnlineKillCNot ==
  /\ pc = "online"
  /\ pc' = "leave ap"
  /\ UNCHANGED <<childVars, stateVars, clockVars, wlan, envVars, faults>>

OnlineKillC ==
  /\ pc = "online"
  /\ KillProcess("C")
  /\ pc' = "leave ap"
  /\ UNCHANGED <<stateVars, clockVars, wlan, envVars>>

LeaveAp ==
  /\ pc = "leave ap"
  /\ ApDown
  /\ pc' = "join"
  /\ UNCHANGED <<childVars, stateVars, clockVars, envVars>>

\* a failure is logged and ignored
Join ==
  /\ pc = "join"
  /\ StaUp \/ StaUpFails
  /\ pc' = "launch A"
  /\ UNCHANGED <<childVars, stateVars, clockVars, envVars>>

LaunchA ==
  /\ pc = "launch A"
  /\ EnsureRunning("A")
  /\ pc' = "kill B"
  /\ UNCHANGED <<stateVars, clockVars, wlan, envVars>>

\* (variant for a mutant) Process B is left as it is, like Process A.
RestartKillBNot ==
  /\ pc = "kill B"
  /\ pc' = IF Running("B") THEN "online done" ELSE "relaunch B"
  /\ UNCHANGED <<childVars, stateVars, clockVars, wlan, envVars, faults>>

\* Process B is restarted so that its registrar tries again
RestartKillB ==
  /\ pc = "kill B"
  /\ KillProcess("B")
  /\ pc' = "relaunch B"
  /\ UNCHANGED <<stateVars, clockVars, wlan, envVars>>

RelaunchB ==
  /\ pc = "relaunch B"
  /\ Launch("B")
  /\ pc' = "online done"
  /\ UNCHANGED <<stateVars, clockVars, wlan, envVars>>

\* where the loop goes on: it has just begun, or the watchdog is next
Continue == IF mode = "none" THEN "sleep" ELSE "watchdog"

EnterOnline ==
  /\ pc = "online done"
  /\ mode' = "online" /\ failures' = 0
  /\ since' = 0
  /\ pc' = Continue
  /\ UNCHANGED <<childVars, probe, wlan, envVars, faults>>

-----------------------------------------------------------------------------
(* run_offline_mode *)

\* (variant for a mutant) Process A is left running.
OfflineKillANot ==
  /\ pc = "offline"
  /\ pc' = "enter ap"
  /\ UNCHANGED <<childVars, stateVars, clockVars, wlan, envVars, faults>>

OfflineKillA ==
  /\ pc = "offline"
  /\ KillProcess("A")
  /\ pc' = "enter ap"
  /\ UNCHANGED <<stateVars, clockVars, wlan, envVars>>

EnterAp ==
  /\ pc = "enter ap"
  /\ ApUp
  /\ pc' = "launch C"
  /\ UNCHANGED <<childVars, stateVars, clockVars, envVars>>

\* RuntimeError: at boot the orchestrator exits; in the loop it goes on
\* sleeping in the mode it was in
EnterApFails ==
  /\ pc = "enter ap"
  /\ ApUpFails
  /\ IF mode = "none"
       THEN failures' = failures + 1 /\ Exits
       ELSE pc' = "sleep" /\ UNCHANGED <<childVars, failures>>
  /\ UNCHANGED <<mode, clockVars, envVars>>

LaunchC ==
  /\ pc = "launch C"
  /\ EnsureRunning("C")
  /\ pc' = "launch B"
  /\ UNCHANGED <<stateVars, clockVars, wlan, envVars>>

LaunchB ==
  /\ pc = "launch B"
  /\ EnsureRunning("B")
  /\ pc' = "offline done"
  /\ UNCHANGED <<stateVars, clockVars, wlan, envVars>>

\* (variant for a mutant) Only online mode resets the counter.
EnterOfflineCounting ==
  /\ pc = "offline done"
  /\ mode' = "offline"
  /\ since' = 0 /\ probe' = 0
  /\ pc' = Continue
  /\ UNCHANGED <<childVars, failures, wlan, envVars, faults>>

\* only the boot resets the counter
EnterOffline ==
  /\ pc = "offline done"
  /\ mode' = "offline"
  /\ failures' = IF mode = "none" THEN 0 ELSE failures
  /\ since' = 0 /\ probe' = 0
  /\ pc' = Continue
  /\ UNCHANGED <<childVars, wlan, envVars, faults>>

-----------------------------------------------------------------------------
(* The monitor loop *)

\* the clocks stop where the code no longer tells their values apart
Later(clock, passes, limit) ==
  IF clock + passes < limit THEN clock + passes ELSE limit

\* (variant for a mutant) The loop never resorts to a reboot.
StuckNever == FALSE
Stuck == since >= RebootAfter

\* time.sleep, and what is due next
Sleep ==
  /\ pc = "sleep"
  /\ \E passes \in 1..LongestPass :
       /\ since' = Later(since, passes, RebootAfter)
       /\ probe' = Later(probe, passes, ProbeAfter)
  /\ pc' = "ping"
  /\ UNCHANGED <<childVars, stateVars, wlan, envVars, faults>>

\* (variant for a mutant) A failed ping is taken for a glitch.
StayOnlineAlways ==
  /\ pc = "ping" /\ mode = "online"
  /\ pc' = "watchdog"
  /\ UNCHANGED <<childVars, stateVars, clockVars, wlan, envVars, faults>>

StayOnline ==
  /\ pc = "ping" /\ mode = "online"
  /\ pc' = IF HasInternet THEN "watchdog" ELSE "offline"
  /\ UNCHANGED <<childVars, stateVars, clockVars, wlan, envVars, faults>>

\* The machine reboots: everything dies, and NetworkManager may or may not have
\* joined the home network before the orchestrator starts.
Reboot ==
  /\ pc = "ping" /\ mode = "offline" /\ Stuck
  /\ Exits
  /\ wlan' \in IF uplink THEN {"sta", "off"} ELSE {"off"}
  /\ UNCHANGED <<stateVars, clockVars, envVars, faults>>

\* the error is logged, and continue skips the watchdog
RebootFails ==
  /\ pc = "ping" /\ mode = "offline" /\ Stuck
  /\ Fault
  /\ pc' = "sleep"
  /\ UNCHANGED <<childVars, stateVars, clockVars, wlan, envVars>>

StayOffline ==
  /\ pc = "ping" /\ mode = "offline" /\ ~Stuck
  /\ IF probe >= ProbeAfter
       THEN pc' = "probe" /\ probe' = 0
       ELSE pc' = "watchdog" /\ UNCHANGED probe
  /\ UNCHANGED <<childVars, stateVars, since, wlan, envVars, faults>>

\* try_sta_recovery
ProbeApDown ==
  /\ pc = "probe"
  /\ ApDown
  /\ pc' = "probe join"
  /\ UNCHANGED <<childVars, stateVars, clockVars, envVars>>

ProbeJoin ==
  /\ pc = "probe join"
  /\ \/ StaUp /\ pc' = "probe ping"
     \/ StaUpFails /\ pc' = "probe restore"
  /\ UNCHANGED <<childVars, stateVars, clockVars, envVars>>

\* (variant for a mutant) A network that was joined is not kept.
ProbePingNever ==
  /\ pc = "probe ping"
  /\ pc' = "probe restore"
  /\ UNCHANGED <<childVars, stateVars, clockVars, wlan, envVars, faults>>

ProbePing ==
  /\ pc = "probe ping"
  /\ pc' = IF HasInternet THEN "online" ELSE "probe restore"
  /\ UNCHANGED <<childVars, stateVars, clockVars, wlan, envVars, faults>>

\* (variant for a mutant) A failed probe leaves the AP down.
ProbeRestoreNot ==
  /\ pc = "probe restore"
  /\ pc' = "watchdog"
  /\ UNCHANGED <<childVars, stateVars, clockVars, wlan, envVars, faults>>

\* _restore_ap_after_probe; a failure is logged and ignored
ProbeRestore ==
  /\ pc = "probe restore"
  /\ ApUp \/ ApUpFails
  /\ pc' = "watchdog"
  /\ UNCHANGED <<childVars, stateVars, clockVars, envVars>>

\* the handles of dead children are dropped; nothing is started again
Watchdog ==
  /\ pc = "watchdog"
  /\ tracked' = tracked \cap alive
  /\ pc' = "sleep"
  /\ UNCHANGED <<alive, lingered, stateVars, clockVars, wlan, envVars, faults>>

-----------------------------------------------------------------------------
(* The environment *)

Change == changes < MaxChanges /\ changes' = changes + 1

Outage ==
  /\ uplink /\ Change
  /\ uplink' = FALSE
  /\ wlan' \in IF wlan = "sta" THEN {"sta", "off"} ELSE {wlan}
  /\ UNCHANGED <<pc, childVars, stateVars, clockVars, faults>>

\* NetworkManager may join the network again by itself.
Return ==
  /\ ~uplink
  /\ uplink' = TRUE
  /\ wlan' \in IF wlan = "off" THEN {"sta", "off"} ELSE {wlan}
  /\ UNCHANGED <<pc, childVars, stateVars, clockVars, changes, faults>>

\* the nmcli calls of Process C's wifi_connector, at any moment
SwitchByC ==
  /\ "C" \in alive /\ Change
  /\ wlan' \in {"sta", "ap", "off"}
  /\ UNCHANGED <<pc, childVars, stateVars, clockVars, uplink, faults>>

Die(n) ==
  /\ ChildrenFail /\ n \in alive /\ Fault
  /\ alive' = alive \ {n}
  /\ UNCHANGED <<pc, tracked, lingered, stateVars, clockVars, wlan, envVars>>

\* the orchestrator is killed, or NetworkManager stops and systemd stops it too
Killed ==
  /\ pc # "exited" /\ Fault
  /\ Exits
  /\ UNCHANGED <<stateVars, clockVars, wlan, envVars>>

-----------------------------------------------------------------------------
Init ==
  /\ pc = "exited"
  /\ alive = {} /\ tracked = {} /\ lingered = {}
  /\ mode = "none" /\ failures = 0
  /\ since = 0 /\ probe = 0
  /\ uplink \in BOOLEAN
  /\ wlan \in IF uplink THEN {"sta", "off"} ELSE {"off"}
  /\ changes = 0 /\ faults = 0

Boot == Start \/ StartRefused \/ NetworkManagerReady \/ NetworkManagerMissing
          \/ Check
RunOnlineMode == OnlineKillC \/ LeaveAp \/ Join \/ LaunchA \/ RestartKillB
                   \/ RelaunchB \/ EnterOnline
RunOfflineMode == OfflineKillA \/ EnterAp \/ EnterApFails \/ LaunchC
                    \/ LaunchB \/ EnterOffline
Monitor == Sleep \/ StayOnline \/ Reboot \/ RebootFails \/ StayOffline
             \/ ProbeApDown \/ ProbeJoin \/ ProbePing \/ ProbeRestore
             \/ Watchdog

Orchestrate == Boot \/ RunOnlineMode \/ RunOfflineMode \/ Monitor

Next ==
  \/ Orchestrate
  \/ Outage \/ Return \/ SwitchByC \/ Killed
  \/ \E n \in Name : Die(n)

Spec == Init /\ [][Next]_vars

\* Every call of the orchestrator is bounded by a timeout, systemd starts it
\* again after a failure, and a machine that reboots comes back.
Fairness == WF_vars(Orchestrate)

FairSpec == Spec /\ Fairness

-----------------------------------------------------------------------------
(* Properties *)

\* Types; the failure counter never passes MAX_FAILURES, because a boot at
\* the limit is refused before it can fail.
TypeOK ==
  /\ pc \in Location
  /\ alive \subseteq Name /\ tracked \subseteq Name
  /\ mode \in {"none", "online", "offline"}
  /\ failures \in 0..MaxFailures
  /\ since \in 0..RebootAfter /\ probe \in 0..ProbeAfter
  /\ wlan \in {"sta", "ap", "off"}
  /\ uplink \in BOOLEAN
  /\ lingered \subseteq Name
  /\ changes \in 0..MaxChanges /\ faults \in 0..MaxFaults

\* "Opposing process group is fully reaped before new one starts": unless a
\* child has survived SIGKILL, A and C never run together, whatever dies,
\* fails or is aborted half-way.
OpposingNeverTogether == lingered = {} => ~({"A", "C"} \subseteq alive)

\* A process that runs has its handle, so that the next mode can kill it:
\* aborted transitions, the watchdog and failed launches lose none.
NoOrphans == lingered = {} => alive \subseteq tracked

\* In offline mode no Process A measures behind the setup page, in online mode
\* no Process C serves it.
ModeIsExclusive ==
  pc = "sleep" /\ lingered = {} =>
    (mode = "offline" => "A" \notin alive) /\ (mode = "online" => "C" \notin alive)

GivenUp == failures >= MaxFailures

\* Only MAX_FAILURES failures in a row shut the gate: after a moment in a mode it
\* takes that many new faults.  What went wrong before is forgiven, and neither
\* the reboot, a killed orchestrator nor a transition that fails in the loop counts.
GateIsEarned ==
  \A n \in 0..MaxFaults :
    [](mode # "none" /\ faults = n => [](GivenUp => faults >= n + MaxFailures))

\* While the home network stays away the user gets to the setup page again and
\* again: an AP that would not come up is retried, a Process C that died comes
\* back with the reboot.
SetupComesBack ==
  <>[](~uplink /\ ~GivenUp) => []<>(wlan = "ap" /\ "C" \in alive)

\* When the home network stays, the Pi ends up on it in online mode, from any
\* failed transition, probe or reboot.
HomeAgain ==
  <>[](uplink /\ ~GivenUp) => <>[](wlan = "sta" /\ mode = "online")

\* orchestrator.py's "Internet OK -> kill B/C, launch Process A": when the home
\* network stays and no child fails on its own, Process A runs.
OnlineRunsA == <>[](uplink /\ ~GivenUp) => <>[]("A" \in alive)
=============================================================================
