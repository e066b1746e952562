------------------------- MODULE OrchestratorProofs -------------------------
(***************************************************************************)
(* The safety properties of Orchestrator, for all values of its constants.  *)
(*                                                                          *)
(* ModeIsExclusive speaks of the moments when the orchestrator sleeps; what *)
(* makes it true is what every location between two sleeps already knows    *)
(* about A and C (NoA, NoC), which in turn needs the modes in which the     *)
(* location can be reached (Modes), that a boot past the gate has failures  *)
(* left (Gate), and that a running child can be killed (NoOrphans).         *)
(***************************************************************************)
EXTENDS Orchestrator, TLAPS

Probing  == {"probe", "probe join", "probe ping", "probe restore"}
Watching == {"sleep", "ping", "watchdog"}
Entering == {"enter ap", "launch C", "launch B", "offline done"}
Leaving  == {"leave ap", "join", "launch A", "kill B", "relaunch B",
             "online done"}

Modes ==
  /\ pc \in {"start", "check"} => mode = "none"
  /\ pc \in Probing => mode = "offline"
  /\ pc \in Watching => mode # "none"
  /\ pc = "online" => mode # "online"
  /\ pc = "offline" => mode # "offline"
  /\ pc \in Entering => mode # "offline"

Gate == mode = "none" /\ pc # "exited" => failures < MaxFailures

Dead == pc = "exited" => alive = {}

Idle == {"start", "check"}

NoA ==
  \/ pc \in Idle \cup {"exited", "online", "leave ap", "join", "launch A"}
  \/ pc \in Entering \cup Probing
  \/ pc \in Watching /\ mode = "offline"
  => "A" \notin alive

NoC ==
  \/ pc \in Idle \cup {"exited", "offline", "enter ap"} \cup Leaving
  \/ pc \in Watching /\ mode = "online"
  => "C" \notin alive

Groups == lingered = {} => NoA /\ NoC /\ ~({"A", "C"} \subseteq alive)

IInv == TypeOK /\ Modes /\ Gate /\ Dead /\ NoOrphans /\ Groups

-----------------------------------------------------------------------------
\* The orchestrator starts with no child and no failure.
LEMMA InitIInv == Init => IInv
<1> SUFFICES ASSUME Init PROVE IInv
  OBVIOUS
<1>1. TypeOK
  BY OrchestratorAssumption DEF Init, TypeOK, Name, Location
<1>2. Modes /\ Gate /\ Dead
  BY OrchestratorAssumption
  DEF Init, Modes, Gate, Dead, Probing, Watching, Entering
<1>3. NoOrphans /\ Groups
  BY DEF Init, NoOrphans, Groups, NoA, NoC
<1> QED
  BY <1>1, <1>2, <1>3 DEF IInv

\* A clock stays within its limit.
LEMMA LaterType ==
  ASSUME NEW limit \in Nat, NEW clock \in 0..limit, NEW passes \in Nat
  PROVE  Later(clock, passes, limit) \in 0..limit
  BY DEF Later

\* Faults and changes stay within their budgets.
LEMMA FaultType == TypeOK /\ Fault => faults' \in 0..MaxFaults
  BY OrchestratorAssumption DEF TypeOK, Fault

LEMMA ChangeType == TypeOK /\ Change => changes' \in 0..MaxChanges
  BY OrchestratorAssumption DEF TypeOK, Change

\* The counters may be reset, and below its limit the failure counter may grow.
LEMMA ZeroType ==
  0 \in 0..MaxFailures /\ 0 \in 0..RebootAfter /\ 0 \in 0..ProbeAfter
  BY OrchestratorAssumption

LEMMA FailureType ==
  TypeOK /\ failures < MaxFailures => failures + 1 \in 0..MaxFailures
  BY OrchestratorAssumption DEF TypeOK

\* What one nmcli command leaves behind, whether it succeeds or not.
LEMMA NmcliType ==
  TypeOK /\ (ApDown \/ ApUp \/ ApUpFails \/ StaUp \/ StaUpFails) =>
    wlan' \in {"sta", "ap", "off"} /\ faults' \in 0..MaxFaults
  BY FaultType DEF TypeOK, ApDown, ApUp, ApUpFails, StaUp, StaUpFails

\* A kill removes the process and its handle, or the process has lingered.
LEMMA KillProcessStep ==
  ASSUME NEW n \in Name, TypeOK, NoOrphans, KillProcess(n)
  PROVE  /\ alive' \subseteq alive /\ tracked' \subseteq Name
         /\ lingered' \subseteq Name /\ faults' \in 0..MaxFaults
         /\ lingered' = {} =>
              /\ lingered = {}
              /\ n \notin alive' /\ alive' \subseteq tracked'
  BY FaultType DEF TypeOK, NoOrphans, KillProcess

\* A launch adds at most the process and its handle.
LEMMA LaunchStep ==
  ASSUME NEW n \in Name, TypeOK, NoOrphans, Launch(n)
  PROVE  /\ alive' \subseteq alive \cup {n} /\ tracked' \subseteq Name
         /\ lingered' = lingered /\ faults' \in 0..MaxFaults
         /\ lingered = {} => alive' \subseteq tracked'
  BY FaultType DEF TypeOK, NoOrphans, Launch

LEMMA EnsureRunningStep ==
  ASSUME NEW n \in Name, TypeOK, NoOrphans, EnsureRunning(n)
  PROVE  /\ alive' \subseteq alive \cup {n} /\ tracked' \subseteq Name
         /\ lingered' = lingered /\ faults' \in 0..MaxFaults
         /\ lingered = {} => alive' \subseteq tracked'
<1>1. CASE Running(n)
  BY <1>1 DEF EnsureRunning, TypeOK, NoOrphans, childVars
<1>2. CASE ~Running(n)
  BY <1>2, LaunchStep DEF EnsureRunning
<1> QED
  BY <1>1, <1>2

\* Every step of the orchestrator and of its environment keeps the invariant:
\* the types, then the control, then the two process groups.
LEMMA NextIInv == IInv /\ [Next]_vars => IInv'
<1> SUFFICES ASSUME IInv, [Next]_vars PROVE IInv'
  OBVIOUS
<1>t. TypeOK /\ Modes /\ Gate /\ Dead /\ NoOrphans /\ Groups
  BY DEF IInv
<1>n. {"A", "B", "C"} = Name
  BY DEF Name
<1> USE DEF childVars, stateVars, clockVars, envVars
<1>1. CASE Start
  <2>1. TypeOK'
    BY <1>t, <1>1, OrchestratorAssumption
    DEF Start, TypeOK, Location
  <2>2. Modes' /\ Gate' /\ Dead'
    BY <1>t, <1>1, OrchestratorAssumption
    DEF Start, TypeOK, Modes, Gate, Dead, Probing, Watching, Entering
  <2>3. NoOrphans' /\ Groups'
    BY <1>t, <1>1
    DEF Start, Modes, Dead, NoOrphans, Groups, NoA, NoC, Idle, Probing,
        Watching, Entering, Leaving
  <2> QED
    BY <2>1, <2>2, <2>3 DEF IInv
<1>2. CASE StartRefused
  <2>w. wlan' \in {"sta", "ap", "off"} /\ faults' \in 0..MaxFaults
    BY <1>t, <1>2, NmcliType DEF StartRefused
  <2>1. TypeOK'
    BY <1>t, <1>2, <2>w, OrchestratorAssumption
    DEF StartRefused, TypeOK, Location
  <2>2. Modes' /\ Gate' /\ Dead'
    BY <1>t, <1>2, OrchestratorAssumption
    DEF StartRefused, TypeOK, Modes, Gate, Dead, Probing, Watching,
        Entering
  <2>3. NoOrphans' /\ Groups'
    BY <1>t, <1>2
    DEF StartRefused, Modes, Dead, NoOrphans, Groups, NoA, NoC, Idle,
        Probing, Watching, Entering, Leaving
  <2> QED
    BY <2>1, <2>2, <2>3 DEF IInv
<1>3. CASE NetworkManagerReady
  <2>1. TypeOK'
    BY <1>t, <1>3, OrchestratorAssumption
    DEF NetworkManagerReady, TypeOK, Location
  <2>2. Modes' /\ Gate' /\ Dead'
    BY <1>t, <1>3, OrchestratorAssumption
    DEF NetworkManagerReady, TypeOK, Modes, Gate, Dead, Probing, Watching,
        Entering
  <2>3. NoOrphans' /\ Groups'
    BY <1>t, <1>3
    DEF NetworkManagerReady, Modes, Dead, NoOrphans, Groups, NoA, NoC,
        Idle, Probing, Watching, Entering, Leaving
  <2> QED
    BY <2>1, <2>2, <2>3 DEF IInv
<1>4. CASE NetworkManagerMissing
  <2>1. TypeOK'
    BY <1>t, <1>4, FaultType, OrchestratorAssumption
    DEF NetworkManagerMissing, TypeOK, Location, Exits, Modes, Gate,
        Entering
  <2>2. Modes' /\ Gate' /\ Dead'
    BY <1>t, <1>4, OrchestratorAssumption
    DEF NetworkManagerMissing, TypeOK, Modes, Gate, Dead, Probing,
        Watching, Entering, Exits
  <2>3. NoOrphans' /\ Groups'
    BY <1>t, <1>4
    DEF NetworkManagerMissing, Modes, Dead, NoOrphans, Groups, NoA, NoC,
        Idle, Probing, Watching, Entering, Leaving, Exits
  <2> QED
    BY <2>1, <2>2, <2>3 DEF IInv
<1>5. CASE Check
  <2>1. TypeOK'
    BY <1>t, <1>5, OrchestratorAssumption
    DEF Check, TypeOK, Location
  <2>2. Modes' /\ Gate' /\ Dead'
    BY <1>t, <1>5, OrchestratorAssumption
    DEF Check, TypeOK, Modes, Gate, Dead, Probing, Watching, Entering
  <2>3. NoOrphans' /\ Groups'
    BY <1>t, <1>5
    DEF Check, Modes, Dead, NoOrphans, Groups, NoA, NoC, Idle, Probing,
        Watching, Entering, Leaving
  <2> QED
    BY <2>1, <2>2, <2>3 DEF IInv
<1>6. CASE OnlineKillC
  <2>k. KillProcess("C") /\ "C" \in Name
    BY <1>6, <1>n DEF OnlineKillC
  <2>s. /\ alive' \subseteq alive /\ tracked' \subseteq Name
        /\ lingered' \subseteq Name /\ faults' \in 0..MaxFaults
        /\ lingered' = {} => /\ lingered = {} /\ alive' \subseteq tracked'
                            /\ "C" \notin alive'
    BY <1>t, <2>k, KillProcessStep
  <2>1. TypeOK'
    BY <1>t, <1>6, <2>s, <2>k, OrchestratorAssumption
    DEF OnlineKillC, TypeOK, Location
  <2>2. Modes' /\ Gate' /\ Dead'
    BY <1>t, <1>6, OrchestratorAssumption
    DEF OnlineKillC, TypeOK, Modes, Gate, Dead, Probing, Watching,
        Entering
  <2>3. NoOrphans' /\ Groups'
    BY <1>t, <1>6, <2>s
    DEF OnlineKillC, Modes, Dead, NoOrphans, Groups, NoA, NoC, Idle,
        Probing, Watching, Entering, Leaving
  <2> QED
    BY <2>1, <2>2, <2>3 DEF IInv
<1>7. CASE LeaveAp
  <2>w. wlan' \in {"sta", "ap", "off"} /\ faults' \in 0..MaxFaults
    BY <1>t, <1>7, NmcliType DEF LeaveAp
  <2>1. TypeOK'
    BY <1>t, <1>7, <2>w, OrchestratorAssumption
    DEF LeaveAp, TypeOK, Location
  <2>2. Modes' /\ Gate' /\ Dead'
    BY <1>t, <1>7, OrchestratorAssumption
    DEF LeaveAp, TypeOK, Modes, Gate, Dead, Probing, Watching, Entering
  <2>3. NoOrphans' /\ Groups'
    BY <1>t, <1>7
    DEF LeaveAp, Modes, Dead, NoOrphans, Groups, NoA, NoC, Idle, Probing,
        Watching, Entering, Leaving
  <2> QED
    BY <2>1, <2>2, <2>3 DEF IInv
<1>8. CASE Join
  <2>w. wlan' \in {"sta", "ap", "off"} /\ faults' \in 0..MaxFaults
    BY <1>t, <1>8, NmcliType DEF Join
  <2>1. TypeOK'
    BY <1>t, <1>8, <2>w, OrchestratorAssumption
    DEF Join, TypeOK, Location
  <2>2. Modes' /\ Gate' /\ Dead'
    BY <1>t, <1>8, OrchestratorAssumption
    DEF Join, TypeOK, Modes, Gate, Dead, Probing, Watching, Entering
  <2>3. NoOrphans' /\ Groups'
    BY <1>t, <1>8
    DEF Join, Modes, Dead, NoOrphans, Groups, NoA, NoC, Idle, Probing,
        Watching, Entering, Leaving
  <2> QED
    BY <2>1, <2>2, <2>3 DEF IInv
<1>9. CASE LaunchA
  <2>k. EnsureRunning("A") /\ "A" \in Name
    BY <1>9, <1>n DEF LaunchA
  <2>s. /\ alive' \subseteq alive \cup {"A"} /\ tracked' \subseteq Name
        /\ lingered' = lingered /\ faults' \in 0..MaxFaults
        /\ lingered' = {} => /\ lingered = {} /\ alive' \subseteq tracked'
    BY <1>t, <2>k, EnsureRunningStep
  <2>1. TypeOK'
    BY <1>t, <1>9, <2>s, <2>k, OrchestratorAssumption
    DEF LaunchA, TypeOK, Location
  <2>2. Modes' /\ Gate' /\ Dead'
    BY <1>t, <1>9, OrchestratorAssumption
    DEF LaunchA, TypeOK, Modes, Gate, Dead, Probing, Watching, Entering
  <2>3. NoOrphans' /\ Groups'
    BY <1>t, <1>9, <2>s
    DEF LaunchA, Modes, Dead, NoOrphans, Groups, NoA, NoC, Idle, Probing,
        Watching, Entering, Leaving
  <2> QED
    BY <2>1, <2>2, <2>3 DEF IInv
<1>10. CASE RestartKillB
  <2>k. KillProcess("B") /\ "B" \in Name
    BY <1>10, <1>n DEF RestartKillB
  <2>s. /\ alive' \subseteq alive /\ tracked' \subseteq Name
        /\ lingered' \subseteq Name /\ faults' \in 0..MaxFaults
        /\ lingered' = {} => /\ lingered = {} /\ alive' \subseteq tracked'
                            /\ "B" \notin alive'
    BY <1>t, <2>k, KillProcessStep
  <2>1. TypeOK'
    BY <1>t, <1>10, <2>s, <2>k, OrchestratorAssumption
    DEF RestartKillB, TypeOK, Location
  <2>2. Modes' /\ Gate' /\ Dead'
    BY <1>t, <1>10, OrchestratorAssumption
    DEF RestartKillB, TypeOK, Modes, Gate, Dead, Probing, Watching,
        Entering
  <2>3. NoOrphans' /\ Groups'
    BY <1>t, <1>10, <2>s
    DEF RestartKillB, Modes, Dead, NoOrphans, Groups, NoA, NoC, Idle,
        Probing, Watching, Entering, Leaving
  <2> QED
    BY <2>1, <2>2, <2>3 DEF IInv
<1>11. CASE RelaunchB
  <2>k. Launch("B") /\ "B" \in Name
    BY <1>11, <1>n DEF RelaunchB
  <2>s. /\ alive' \subseteq alive \cup {"B"} /\ tracked' \subseteq Name
        /\ lingered' = lingered /\ faults' \in 0..MaxFaults
        /\ lingered' = {} => /\ lingered = {} /\ alive' \subseteq tracked'
    BY <1>t, <2>k, LaunchStep
  <2>1. TypeOK'
    BY <1>t, <1>11, <2>s, <2>k, OrchestratorAssumption
    DEF RelaunchB, TypeOK, Location
  <2>2. Modes' /\ Gate' /\ Dead'
    BY <1>t, <1>11, OrchestratorAssumption
    DEF RelaunchB, TypeOK, Modes, Gate, Dead, Probing, Watching, Entering
  <2>3. NoOrphans' /\ Groups'
    BY <1>t, <1>11, <2>s
    DEF RelaunchB, Modes, Dead, NoOrphans, Groups, NoA, NoC, Idle,
        Probing, Watching, Entering, Leaving
  <2> QED
    BY <2>1, <2>2, <2>3 DEF IInv
<1>12. CASE EnterOnline
  <2>p. pc' \in Location
    BY <1>12 DEF EnterOnline, Continue, Location
  <2>f. failures' \in 0..MaxFailures
    BY <1>t, <1>12, ZeroType DEF EnterOnline, TypeOK
  <2>1. TypeOK'
    BY <1>t, <1>12, <2>p, <2>f, ZeroType
    DEF EnterOnline, TypeOK
  <2>2. Modes' /\ Gate' /\ Dead'
    BY <1>t, <1>12, OrchestratorAssumption
    DEF EnterOnline, TypeOK, Modes, Gate, Dead, Probing, Watching,
        Entering, Continue
  <2>3. NoOrphans' /\ Groups'
    BY <1>t, <1>12
    DEF EnterOnline, Modes, Dead, NoOrphans, Groups, NoA, NoC, Idle,
        Probing, Watching, Entering, Leaving, Continue
  <2> QED
    BY <2>1, <2>2, <2>3 DEF IInv
<1>13. CASE OfflineKillA
  <2>k. KillProcess("A") /\ "A" \in Name
    BY <1>13, <1>n DEF OfflineKillA
  <2>s. /\ alive' \subseteq alive /\ tracked' \subseteq Name
        /\ lingered' \subseteq Name /\ faults' \in 0..MaxFaults
        /\ lingered' = {} => /\ lingered = {} /\ alive' \subseteq tracked'
                            /\ "A" \notin alive'
    BY <1>t, <2>k, KillProcessStep
  <2>1. TypeOK'
    BY <1>t, <1>13, <2>s, <2>k, OrchestratorAssumption
    DEF OfflineKillA, TypeOK, Location
  <2>2. Modes' /\ Gate' /\ Dead'
    BY <1>t, <1>13, OrchestratorAssumption
    DEF OfflineKillA, TypeOK, Modes, Gate, Dead, Probing, Watching,
        Entering
  <2>3. NoOrphans' /\ Groups'
    BY <1>t, <1>13, <2>s
    DEF OfflineKillA, Modes, Dead, NoOrphans, Groups, NoA, NoC, Idle,
        Probing, Watching, Entering, Leaving
  <2> QED
    BY <2>1, <2>2, <2>3 DEF IInv
<1>14. CASE EnterAp
  <2>w. wlan' \in {"sta", "ap", "off"} /\ faults' \in 0..MaxFaults
    BY <1>t, <1>14, NmcliType DEF EnterAp
  <2>1. TypeOK'
    BY <1>t, <1>14, <2>w, OrchestratorAssumption
    DEF EnterAp, TypeOK, Location
  <2>2. Modes' /\ Gate' /\ Dead'
    BY <1>t, <1>14, OrchestratorAssumption
    DEF EnterAp, TypeOK, Modes, Gate, Dead, Probing, Watching, Entering
  <2>3. NoOrphans' /\ Groups'
    BY <1>t, <1>14
    DEF EnterAp, Modes, Dead, NoOrphans, Groups, NoA, NoC, Idle, Probing,
        Watching, Entering, Leaving
  <2> QED
    BY <2>1, <2>2, <2>3 DEF IInv
<1>15. CASE EnterApFails
  <2>w. wlan' \in {"sta", "ap", "off"} /\ faults' \in 0..MaxFaults
    BY <1>t, <1>15, NmcliType DEF EnterApFails
  <2>p. pc' \in Location
    BY <1>15 DEF EnterApFails, Exits, Location
  <2>f. failures' \in 0..MaxFailures
    BY <1>t, <1>15, FailureType DEF EnterApFails, TypeOK, Gate
  <2>1. TypeOK'
    BY <1>t, <1>15, <2>w, <2>p, <2>f
    DEF EnterApFails, TypeOK, Exits
  <2>2. Modes' /\ Gate' /\ Dead'
    BY <1>t, <1>15, OrchestratorAssumption
    DEF EnterApFails, TypeOK, Modes, Gate, Dead, Probing, Watching,
        Entering, Exits
  <2>3. NoOrphans' /\ Groups'
    BY <1>t, <1>15
    DEF EnterApFails, Modes, Dead, NoOrphans, Groups, NoA, NoC, Idle,
        Probing, Watching, Entering, Leaving, Exits
  <2> QED
    BY <2>1, <2>2, <2>3 DEF IInv
<1>16. CASE LaunchC
  <2>k. EnsureRunning("C") /\ "C" \in Name
    BY <1>16, <1>n DEF LaunchC
  <2>s. /\ alive' \subseteq alive \cup {"C"} /\ tracked' \subseteq Name
        /\ lingered' = lingered /\ faults' \in 0..MaxFaults
        /\ lingered' = {} => /\ lingered = {} /\ alive' \subseteq tracked'
    BY <1>t, <2>k, EnsureRunningStep
  <2>1. TypeOK'
    BY <1>t, <1>16, <2>s, <2>k, OrchestratorAssumption
    DEF LaunchC, TypeOK, Location
  <2>2. Modes' /\ Gate' /\ Dead'
    BY <1>t, <1>16, OrchestratorAssumption
    DEF LaunchC, TypeOK, Modes, Gate, Dead, Probing, Watching, Entering
  <2>3. NoOrphans' /\ Groups'
    BY <1>t, <1>16, <2>s
    DEF LaunchC, Modes, Dead, NoOrphans, Groups, NoA, NoC, Idle, Probing,
        Watching, Entering, Leaving
  <2> QED
    BY <2>1, <2>2, <2>3 DEF IInv
<1>17. CASE LaunchB
  <2>k. EnsureRunning("B") /\ "B" \in Name
    BY <1>17, <1>n DEF LaunchB
  <2>s. /\ alive' \subseteq alive \cup {"B"} /\ tracked' \subseteq Name
        /\ lingered' = lingered /\ faults' \in 0..MaxFaults
        /\ lingered' = {} => /\ lingered = {} /\ alive' \subseteq tracked'
    BY <1>t, <2>k, EnsureRunningStep
  <2>1. TypeOK'
    BY <1>t, <1>17, <2>s, <2>k, OrchestratorAssumption
    DEF LaunchB, TypeOK, Location
  <2>2. Modes' /\ Gate' /\ Dead'
    BY <1>t, <1>17, OrchestratorAssumption
    DEF LaunchB, TypeOK, Modes, Gate, Dead, Probing, Watching, Entering
  <2>3. NoOrphans' /\ Groups'
    BY <1>t, <1>17, <2>s
    DEF LaunchB, Modes, Dead, NoOrphans, Groups, NoA, NoC, Idle, Probing,
        Watching, Entering, Leaving
  <2> QED
    BY <2>1, <2>2, <2>3 DEF IInv
<1>18. CASE EnterOffline
  <2>p. pc' \in Location
    BY <1>18 DEF EnterOffline, Continue, Location
  <2>f. failures' \in 0..MaxFailures
    BY <1>t, <1>18, ZeroType DEF EnterOffline, TypeOK
  <2>1. TypeOK'
    BY <1>t, <1>18, <2>p, <2>f, ZeroType
    DEF EnterOffline, TypeOK
  <2>2. Modes' /\ Gate' /\ Dead'
    BY <1>t, <1>18, OrchestratorAssumption
    DEF EnterOffline, TypeOK, Modes, Gate, Dead, Probing, Watching,
        Entering, Continue
  <2>3. NoOrphans' /\ Groups'
    BY <1>t, <1>18
    DEF EnterOffline, Modes, Dead, NoOrphans, Groups, NoA, NoC, Idle,
        Probing, Watching, Entering, Leaving, Continue
  <2> QED
    BY <2>1, <2>2, <2>3 DEF IInv
<1>19. CASE Sleep
  <2>a. PICK passes \in 1..LongestPass :
          /\ since' = Later(since, passes, RebootAfter)
          /\ probe' = Later(probe, passes, ProbeAfter)
    BY <1>19 DEF Sleep
  <2>b. since' \in 0..RebootAfter /\ probe' \in 0..ProbeAfter
    BY <1>t, <2>a, LaterType, OrchestratorAssumption DEF TypeOK
  <2>1. TypeOK'
    BY <1>t, <1>19, <2>b, OrchestratorAssumption
    DEF Sleep, TypeOK, Location
  <2>2. Modes' /\ Gate' /\ Dead'
    BY <1>t, <1>19, OrchestratorAssumption
    DEF Sleep, TypeOK, Modes, Gate, Dead, Probing, Watching, Entering
  <2>3. NoOrphans' /\ Groups'
    BY <1>t, <1>19
    DEF Sleep, Modes, Dead, NoOrphans, Groups, NoA, NoC, Idle, Probing,
        Watching, Entering, Leaving
  <2> QED
    BY <2>1, <2>2, <2>3 DEF IInv
<1>20. CASE StayOnline
  <2>1. TypeOK'
    BY <1>t, <1>20, OrchestratorAssumption
    DEF StayOnline, TypeOK, Location
  <2>2. Modes' /\ Gate' /\ Dead'
    BY <1>t, <1>20, OrchestratorAssumption
    DEF StayOnline, TypeOK, Modes, Gate, Dead, Probing, Watching, Entering
  <2>3. NoOrphans' /\ Groups'
    BY <1>t, <1>20
    DEF StayOnline, Modes, Dead, NoOrphans, Groups, NoA, NoC, Idle,
        Probing, Watching, Entering, Leaving
  <2> QED
    BY <2>1, <2>2, <2>3 DEF IInv
<1>21. CASE Reboot
  <2>1. TypeOK'
    BY <1>t, <1>21, OrchestratorAssumption
    DEF Reboot, TypeOK, Location, Exits
  <2>2. Modes' /\ Gate' /\ Dead'
    BY <1>t, <1>21, OrchestratorAssumption
    DEF Reboot, TypeOK, Modes, Gate, Dead, Probing, Watching, Entering,
        Exits
  <2>3. NoOrphans' /\ Groups'
    BY <1>t, <1>21
    DEF Reboot, Modes, Dead, NoOrphans, Groups, NoA, NoC, Idle, Probing,
        Watching, Entering, Leaving, Exits
  <2> QED
    BY <2>1, <2>2, <2>3 DEF IInv
<1>22. CASE RebootFails
  <2>1. TypeOK'
    BY <1>t, <1>22, FaultType, OrchestratorAssumption
    DEF RebootFails, TypeOK, Location
  <2>2. Modes' /\ Gate' /\ Dead'
    BY <1>t, <1>22, OrchestratorAssumption
    DEF RebootFails, TypeOK, Modes, Gate, Dead, Probing, Watching,
        Entering
  <2>3. NoOrphans' /\ Groups'
    BY <1>t, <1>22
    DEF RebootFails, Modes, Dead, NoOrphans, Groups, NoA, NoC, Idle,
        Probing, Watching, Entering, Leaving
  <2> QED
    BY <2>1, <2>2, <2>3 DEF IInv
<1>23. CASE StayOffline
  <2>p. pc' \in Location
    BY <1>23 DEF StayOffline, Location
  <2>f. probe' \in 0..ProbeAfter
    BY <1>t, <1>23, ZeroType DEF StayOffline, TypeOK
  <2>1. TypeOK'
    BY <1>t, <1>23, <2>p, <2>f, ZeroType
    DEF StayOffline, TypeOK
  <2>2. Modes' /\ Gate' /\ Dead'
    BY <1>t, <1>23, OrchestratorAssumption
    DEF StayOffline, TypeOK, Modes, Gate, Dead, Probing, Watching,
        Entering
  <2>3. NoOrphans' /\ Groups'
    BY <1>t, <1>23
    DEF StayOffline, Modes, Dead, NoOrphans, Groups, NoA, NoC, Idle,
        Probing, Watching, Entering, Leaving
  <2> QED
    BY <2>1, <2>2, <2>3 DEF IInv
<1>24. CASE ProbeApDown
  <2>w. wlan' \in {"sta", "ap", "off"} /\ faults' \in 0..MaxFaults
    BY <1>t, <1>24, NmcliType DEF ProbeApDown
  <2>1. TypeOK'
    BY <1>t, <1>24, <2>w, OrchestratorAssumption
    DEF ProbeApDown, TypeOK, Location
  <2>2. Modes' /\ Gate' /\ Dead'
    BY <1>t, <1>24, OrchestratorAssumption
    DEF ProbeApDown, TypeOK, Modes, Gate, Dead, Probing, Watching,
        Entering
  <2>3. NoOrphans' /\ Groups'
    BY <1>t, <1>24
    DEF ProbeApDown, Modes, Dead, NoOrphans, Groups, NoA, NoC, Idle,
        Probing, Watching, Entering, Leaving
  <2> QED
    BY <2>1, <2>2, <2>3 DEF IInv
<1>25. CASE ProbeJoin
  <2>w. wlan' \in {"sta", "ap", "off"} /\ faults' \in 0..MaxFaults
    BY <1>t, <1>25, NmcliType DEF ProbeJoin
  <2>1. TypeOK'
    BY <1>t, <1>25, <2>w, OrchestratorAssumption
    DEF ProbeJoin, TypeOK, Location
  <2>2. Modes' /\ Gate' /\ Dead'
    BY <1>t, <1>25, OrchestratorAssumption
    DEF ProbeJoin, TypeOK, Modes, Gate, Dead, Probing, Watching, Entering
  <2>3. NoOrphans' /\ Groups'
    BY <1>t, <1>25
    DEF ProbeJoin, Modes, Dead, NoOrphans, Groups, NoA, NoC, Idle,
        Probing, Watching, Entering, Leaving
  <2> QED
    BY <2>1, <2>2, <2>3 DEF IInv
<1>26. CASE ProbePing
  <2>1. TypeOK'
    BY <1>t, <1>26, OrchestratorAssumption
    DEF ProbePing, TypeOK, Location
  <2>2. Modes' /\ Gate' /\ Dead'
    BY <1>t, <1>26, OrchestratorAssumption
    DEF ProbePing, TypeOK, Modes, Gate, Dead, Probing, Watching, Entering
  <2>3. NoOrphans' /\ Groups'
    BY <1>t, <1>26
    DEF ProbePing, Modes, Dead, NoOrphans, Groups, NoA, NoC, Idle,
        Probing, Watching, Entering, Leaving
  <2> QED
    BY <2>1, <2>2, <2>3 DEF IInv
<1>27. CASE ProbeRestore
  <2>w. wlan' \in {"sta", "ap", "off"} /\ faults' \in 0..MaxFaults
    BY <1>t, <1>27, NmcliType DEF ProbeRestore
  <2>1. TypeOK'
    BY <1>t, <1>27, <2>w, OrchestratorAssumption
    DEF ProbeRestore, TypeOK, Location
  <2>2. Modes' /\ Gate' /\ Dead'
    BY <1>t, <1>27, OrchestratorAssumption
    DEF ProbeRestore, TypeOK, Modes, Gate, Dead, Probing, Watching,
        Entering
  <2>3. NoOrphans' /\ Groups'
    BY <1>t, <1>27
    DEF ProbeRestore, Modes, Dead, NoOrphans, Groups, NoA, NoC, Idle,
        Probing, Watching, Entering, Leaving
  <2> QED
    BY <2>1, <2>2, <2>3 DEF IInv
<1>28. CASE Watchdog
  <2>1. TypeOK'
    BY <1>t, <1>28, OrchestratorAssumption
    DEF Watchdog, TypeOK, Location
  <2>2. Modes' /\ Gate' /\ Dead'
    BY <1>t, <1>28, OrchestratorAssumption
    DEF Watchdog, TypeOK, Modes, Gate, Dead, Probing, Watching, Entering
  <2>3. NoOrphans' /\ Groups'
    BY <1>t, <1>28
    DEF Watchdog, Modes, Dead, NoOrphans, Groups, NoA, NoC, Idle, Probing,
        Watching, Entering, Leaving
  <2> QED
    BY <2>1, <2>2, <2>3 DEF IInv
<1>29. CASE Outage
  <2>1. TypeOK'
    BY <1>t, <1>29, ChangeType, OrchestratorAssumption
    DEF Outage, TypeOK, Location
  <2>2. Modes' /\ Gate' /\ Dead'
    BY <1>t, <1>29, OrchestratorAssumption
    DEF Outage, TypeOK, Modes, Gate, Dead, Probing, Watching, Entering
  <2>3. NoOrphans' /\ Groups'
    BY <1>t, <1>29
    DEF Outage, Modes, Dead, NoOrphans, Groups, NoA, NoC, Idle, Probing,
        Watching, Entering, Leaving
  <2> QED
    BY <2>1, <2>2, <2>3 DEF IInv
<1>30. CASE Return
  <2>1. TypeOK'
    BY <1>t, <1>30, OrchestratorAssumption
    DEF Return, TypeOK, Location
  <2>2. Modes' /\ Gate' /\ Dead'
    BY <1>t, <1>30, OrchestratorAssumption
    DEF Return, TypeOK, Modes, Gate, Dead, Probing, Watching, Entering
  <2>3. NoOrphans' /\ Groups'
    BY <1>t, <1>30
    DEF Return, Modes, Dead, NoOrphans, Groups, NoA, NoC, Idle, Probing,
        Watching, Entering, Leaving
  <2> QED
    BY <2>1, <2>2, <2>3 DEF IInv
<1>31. CASE SwitchByC
  <2>1. TypeOK'
    BY <1>t, <1>31, ChangeType, OrchestratorAssumption
    DEF SwitchByC, TypeOK, Location
  <2>2. Modes' /\ Gate' /\ Dead'
    BY <1>t, <1>31, OrchestratorAssumption
    DEF SwitchByC, TypeOK, Modes, Gate, Dead, Probing, Watching, Entering
  <2>3. NoOrphans' /\ Groups'
    BY <1>t, <1>31
    DEF SwitchByC, Modes, Dead, NoOrphans, Groups, NoA, NoC, Idle,
        Probing, Watching, Entering, Leaving
  <2> QED
    BY <2>1, <2>2, <2>3 DEF IInv
<1>32. CASE Killed
  <2>1. TypeOK'
    BY <1>t, <1>32, FaultType, OrchestratorAssumption
    DEF Killed, TypeOK, Location, Exits
  <2>2. Modes' /\ Gate' /\ Dead'
    BY <1>t, <1>32, OrchestratorAssumption
    DEF Killed, TypeOK, Modes, Gate, Dead, Probing, Watching, Entering,
        Exits
  <2>3. NoOrphans' /\ Groups'
    BY <1>t, <1>32
    DEF Killed, Modes, Dead, NoOrphans, Groups, NoA, NoC, Idle, Probing,
        Watching, Entering, Leaving, Exits
  <2> QED
    BY <2>1, <2>2, <2>3 DEF IInv
<1>33. ASSUME NEW n \in Name, Die(n) PROVE IInv'
  <2>1. TypeOK'
    BY <1>t, <1>33, FaultType, OrchestratorAssumption
    DEF Die, TypeOK, Location
  <2>2. Modes' /\ Gate' /\ Dead'
    BY <1>t, <1>33, OrchestratorAssumption
    DEF Die, TypeOK, Modes, Gate, Dead, Probing, Watching, Entering
  <2>3. NoOrphans' /\ Groups'
    BY <1>t, <1>33
    DEF Die, Modes, Dead, NoOrphans, Groups, NoA, NoC, Idle, Probing,
        Watching, Entering, Leaving
  <2> QED
    BY <2>1, <2>2, <2>3 DEF IInv
<1>34. CASE UNCHANGED vars
  <2>1. TypeOK'
    BY <1>t, <1>34, OrchestratorAssumption
    DEF vars, TypeOK, Location
  <2>2. Modes' /\ Gate' /\ Dead'
    BY <1>t, <1>34, OrchestratorAssumption
    DEF vars, TypeOK, Modes, Gate, Dead, Probing, Watching, Entering
  <2>3. NoOrphans' /\ Groups'
    BY <1>t, <1>34
    DEF vars, Modes, Dead, NoOrphans, Groups, NoA, NoC, Idle, Probing,
        Watching, Entering, Leaving
  <2> QED
    BY <2>1, <2>2, <2>3 DEF IInv
<1> QED
  BY <1>1, <1>2, <1>3, <1>4, <1>5, <1>6, <1>7, <1>8, <1>9, <1>10, <1>11,
     <1>12, <1>13, <1>14, <1>15, <1>16, <1>17, <1>18, <1>19, <1>20, <1>21,
     <1>22, <1>23, <1>24, <1>25, <1>26, <1>27, <1>28, <1>29, <1>30, <1>31,
     <1>32, <1>33, <1>34
  DEF Next, Orchestrate, Boot, RunOnlineMode, RunOfflineMode, Monitor

-----------------------------------------------------------------------------
\* The invariant holds in every state the orchestrator reaches.
THEOREM Invariance == Spec => []IInv
  BY InitIInv, NextIInv, PTL DEF Spec

\* Type correctness; the failure counter stays within MAX_FAILURES.
THEOREM TypeCorrect == Spec => []TypeOK
<1>1. IInv => TypeOK
  BY DEF IInv
<1> QED
  BY <1>1, Invariance, PTL

\* No running child is out of the orchestrator's hands.
THEOREM AllTracked == Spec => []NoOrphans
<1>1. IInv => NoOrphans
  BY DEF IInv
<1> QED
  BY <1>1, Invariance, PTL

\* A and C are never up together, whatever fails on the way between the modes.
THEOREM GroupsExclude == Spec => []OpposingNeverTogether
<1>1. IInv => OpposingNeverTogether
  BY DEF IInv, Groups, OpposingNeverTogether
<1> QED
  BY <1>1, Invariance, PTL

\* The orchestrator never sleeps in a mode whose excluded process runs.
THEOREM ModeExcludes == Spec => []ModeIsExclusive
<1>1. IInv => ModeIsExclusive
  BY DEF IInv, Groups, NoA, NoC, Watching, ModeIsExclusive
<1> QED
  BY <1>1, Invariance, PTL

-----------------------------------------------------------------------------
(* What the gate counts *)

\* an orchestrator that has reached a mode starts counting afresh
Forgiven == mode # "none" => failures = 0

\* since there were n faults, every failure counted cost a fault of its own
Earned(n) == failures + n <= faults

\* Faults are never taken back.
LEMMA FaultsGrow == TypeOK /\ [Next]_vars => faults \in Nat /\ faults' \in Nat /\ faults <= faults'
<1> SUFFICES ASSUME TypeOK, [Next]_vars PROVE faults \in Nat /\ faults' \in Nat /\ faults <= faults'
  OBVIOUS
<1>1. faults \in Nat
  BY OrchestratorAssumption DEF TypeOK
<1>2. Fault \/ faults' = faults
  BY DEF Next, Orchestrate, Boot, RunOnlineMode, RunOfflineMode, Monitor, Start,
     StartRefused, NetworkManagerReady, NetworkManagerMissing, Check, OnlineKillC,
     LeaveAp, Join, LaunchA, RestartKillB, RelaunchB, EnterOnline, OfflineKillA,
     EnterAp, EnterApFails, LaunchC, LaunchB, EnterOffline, Sleep, StayOnline, Reboot,
     RebootFails, StayOffline, ProbeApDown, ProbeJoin, ProbePing, ProbeRestore,
     Watchdog, Outage, Return, SwitchByC, Killed, Die, KillProcess, EnsureRunning,
     Launch, ApDown, StaUp, StaUpFails, ApUp, ApUpFails, vars
<1> QED
  BY <1>1, <1>2 DEF Fault

\* A failure is counted before the first mode only, and is a fault; entering the
\* first mode resets the counter, and nothing else touches it.
LEMMA CountStep ==
  ASSUME IInv, [Next]_vars
  PROVE  \/ failures' = failures /\ (mode' = mode \/ mode' = "none")
         \/ failures' = 0
         \/ failures' = failures /\ mode # "none"
         \/ failures' = failures + 1 /\ mode' = "none" /\ faults' = faults + 1
<1>1. CASE NetworkManagerMissing
  BY <1>1 DEF NetworkManagerMissing, Fault, IInv, Modes
<1>2. CASE EnterApFails
  BY <1>2 DEF EnterApFails, ApUpFails, Fault
<1>3. CASE Start \/ StartRefused \/ EnterOnline \/ EnterOffline
  BY <1>3 DEF Start, StartRefused, EnterOnline, EnterOffline
<1>4. CASE UNCHANGED stateVars
  BY <1>4 DEF stateVars
<1> QED
  BY <1>1, <1>2, <1>3, <1>4
  DEF Next, Orchestrate, Boot, RunOnlineMode, RunOfflineMode, Monitor,
      NetworkManagerReady, Check, OnlineKillC, LeaveAp, Join, LaunchA, RestartKillB,
      RelaunchB, OfflineKillA, EnterAp, LaunchC, LaunchB, Sleep, StayOnline, Reboot,
      RebootFails, StayOffline, ProbeApDown, ProbeJoin, ProbePing, ProbeRestore,
      Watchdog, Outage, Return, SwitchByC, Killed, Die, vars

LEMMA ForgivenKept == IInv /\ Forgiven /\ [Next]_vars => Forgiven'
  BY CountStep DEF Forgiven

LEMMA EarnedKept ==
  ASSUME IInv, [Next]_vars, NEW n \in 0..MaxFaults, n <= faults, Earned(n)
  PROVE  n <= faults' /\ Earned(n)'
<1>1. /\ faults \in Nat /\ faults' \in Nat /\ faults <= faults'
      /\ n \in Nat /\ failures \in Nat
  BY FaultsGrow, OrchestratorAssumption DEF IInv, TypeOK
<1> QED
  BY <1>1, CountStep DEF Earned

\* The gate shuts only after MAX_FAILURES new faults, whatever had gone wrong
\* before a mode was reached.
THEOREM GateEarned == Spec => GateIsEarned
<1> SUFFICES ASSUME NEW n \in 0..MaxFaults
             PROVE  Spec => [](mode # "none" /\ faults = n =>
                                 [](GivenUp => faults >= n + MaxFailures))
  BY DEF GateIsEarned
<1>1. Init => Forgiven
  BY DEF Init, Forgiven
<1>2. IInv /\ Forgiven /\ [Next]_vars => Forgiven'
  BY ForgivenKept
<1>3. IInv /\ Forgiven /\ mode # "none" /\ faults = n => n <= faults /\ Earned(n)
  BY OrchestratorAssumption DEF Forgiven, Earned, IInv, TypeOK
<1>4. IInv /\ n <= faults /\ Earned(n) /\ [Next]_vars => (n <= faults /\ Earned(n))'
  BY EarnedKept
<1>5. IInv /\ Earned(n) => (GivenUp => faults >= n + MaxFailures)
  BY OrchestratorAssumption DEF IInv, TypeOK, Earned, GivenUp
<1> QED
  BY <1>1, <1>2, <1>3, <1>4, <1>5, Invariance, PTL DEF Spec
=============================================================================
