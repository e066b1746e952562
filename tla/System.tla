------------------------------- MODULE System -------------------------------
(***************************************************************************)
(* The boot orchestrator and Process C on one wlan0, and the identity that   *)
(* Processes A and B read from device.json when they are started.            *)
(*                                                                          *)
(* Orchestrator and Provisioning are composed as they stand.  Each takes     *)
(* wlan0 for its own; here both command it, with no lock between them.       *)
(* Orchestrator sees of it only whether it is an AP or on a network, and     *)
(* Process C is up as long as the orchestrator lets it live.                 *)
(***************************************************************************)
EXTENDS Naturals, FiniteSets

CONSTANTS
  Request, Good, AllowReset, MaxResets, None,       \* of Provisioning
  MaxFailures, ProbeAfter, RebootAfter, LongestPass, \* of Orchestrator
  ChildrenFail,
  MaxFaults     \* bound on outages and on everything else that goes wrong

ASSUME SystemAssumption ==
  /\ Good \subseteq Request /\ {None, "ap", "off"} \cap Request = {}
  /\ AllowReset \in BOOLEAN /\ MaxResets \in Nat
  /\ MaxFailures \in Nat \ {0}
  /\ ProbeAfter \in Nat /\ RebootAfter \in Nat /\ LongestPass \in Nat \ {0}
  /\ ChildrenFail \in BOOLEAN /\ MaxFaults \in Nat

VARIABLES
  pc, alive, tracked, mode, failures, since, probe, lingered,
  faults,                                               \* of Orchestrator
  request, file, switch, lock, profile, stuck, resets,  \* of Provisioning
  wlan,       \* wlan0, as Provisioning has it
  inRange,    \* the home network is there and leads to the Internet
  held,       \* held[n]: the identity n read at its start; None for the one
              \* without device.json, and when n does not run
  disturbed   \* the orchestrator has used wlan0 since the last step of a switch

orchestratorVars == <<pc, alive, tracked, mode, failures, since, probe,
                      lingered>>
provisioningVars == <<request, file, switch, lock, profile, stuck, resets>>
vars == <<orchestratorVars, provisioningVars, faults, wlan, inRange, held,
          disturbed>>

Reader == {"A", "B"}
Radio == Request \cup {"ap", "off"}

Orchestrator == INSTANCE Orchestrator WITH
  wlan <- IF wlan \in Request THEN "sta" ELSE wlan,
  uplink <- inRange /\ profile # None,
  MaxChanges <- 0, changes <- 0

Provisioning == INSTANCE Provisioning WITH
  up <- "C" \in alive, OneAtATime <- TRUE, MaxKills <- 0, kills <- 0

Fault == faults < MaxFaults /\ faults' = faults + 1

-----------------------------------------------------------------------------
(* A step of the orchestrator, with what it does to the children             *)

\* Children of the orchestrator that run and that it knows.
Running == alive \cap tracked

\* Both read device.json once, when they are started: Config.from_env of
\* Process B and _load_shelf_id of Process A.
HeldAfterLaunch ==
  [n \in Reader |-> IF n \notin alive' THEN None
                    ELSE IF n \in Running' \ Running THEN file ELSE held[n]]

\* A Process C that is stopped takes its handlers and its switch with it.
ProcessCAfter ==
  IF "C" \in alive \ alive'
    THEN /\ request' = [q \in Request |->
                          IF request[q] = "reading" THEN "dropped" ELSE request[q]]
         /\ switch' = [q \in Request |->
                         IF switch[q] \in Provisioning!Finished
                           THEN switch[q] ELSE "none"]
         /\ lock' = None
    ELSE UNCHANGED <<request, switch, lock>>

\* the places where the orchestrator (dis)connects wlan0
TakesRadio == {"join", "enter ap", "probe join", "probe restore"}

\* The only network nmcli can bring up is the one of the STA profile.
Joins == wlan' \in Request => wlan' \in {wlan, profile}

OrchestratorStep ==
  /\ UNCHANGED <<file, profile, resets, inRange>>
  /\ wlan' \in Radio
  /\ Joins
  /\ Orchestrator!Orchestrate \/ Orchestrator!Killed
  /\ ProcessCAfter
  /\ stuck' = (stuck /\ wlan' # "ap")
  /\ held' = HeldAfterLaunch
  /\ disturbed' = (disturbed \/ (pc \in TakesRadio /\ lock # None))

-----------------------------------------------------------------------------
(* A step of Process C *)

HandlerStep ==
  /\ UNCHANGED <<orchestratorVars, faults, inRange, held, disturbed>>
  /\ \/ \E q \in Request : Provisioning!PostProvision(q)
                             \/ Provisioning!Handler(q)
     \/ Provisioning!PostReset

\* An nmcli command fails when the credentials are bad, the network is not
\* there, or the orchestrator is at wlan0 too; otherwise that is a fault.
Turned(q) == \/ /\ switch[q] \notin {"rollback", "raw rollback"}
                /\ switch'[q] \in {"rollback", "raw rollback"}
             \/ stuck' /\ ~stuck
Excused(q) == q \notin Good \/ ~inRange \/ disturbed

SwitchStep(q) ==
  /\ UNCHANGED <<orchestratorVars, inRange, held>>
  /\ Provisioning!Switch(q)
  /\ wlan' \in Request => inRange \/ wlan' = wlan
  /\ IF Turned(q) /\ ~Excused(q)
       THEN Fault ELSE UNCHANGED faults
  /\ disturbed' = FALSE

-----------------------------------------------------------------------------
(* The network *)

Outage ==
  /\ inRange /\ Fault
  /\ inRange' = FALSE
  /\ wlan' \in IF wlan \in Request THEN {wlan, "off"} ELSE {wlan}
  /\ UNCHANGED <<orchestratorVars, provisioningVars, held, disturbed>>

Return ==
  /\ ~inRange
  /\ inRange' = TRUE
  /\ wlan' \in IF wlan = "off" /\ profile # None THEN {profile, "off"} ELSE {wlan}
  /\ UNCHANGED <<orchestratorVars, provisioningVars, faults, held, disturbed>>

-----------------------------------------------------------------------------
\* A device that was never set up, at its first boot.
Init ==
  /\ request = [q \in Request |-> "idle"] /\ switch = [q \in Request |-> "none"]
  /\ file = None /\ lock = None /\ profile = None /\ stuck = FALSE
  /\ resets = 0 /\ wlan = "off" /\ inRange \in BOOLEAN
  /\ held = [n \in Reader |-> None] /\ disturbed = FALSE
  /\ Orchestrator!Init

Next ==
  \/ OrchestratorStep
  \/ HandlerStep \/ \E q \in Request : SwitchStep(q)
  \/ Outage \/ Return

Spec == Init /\ [][Next]_vars

\* as in Orchestrator and in Provisioning
Fairness ==
  /\ WF_vars(OrchestratorStep)
  /\ \A q \in Request : WF_vars(SwitchStep(q))

FairSpec == Spec /\ Fairness

-----------------------------------------------------------------------------
(* Properties *)

\* Types, those of the two components included: the lock of wifi_connector is
\* held by a live thread of a live Process C only, however it was stopped.
TypeOK ==
  /\ Orchestrator!TypeOK /\ Provisioning!TypeOK
  /\ inRange \in BOOLEAN /\ disturbed \in BOOLEAN
  /\ held \in [Reader -> Request \cup {None}]
  /\ lock # None => "C" \in alive

\* No process works under an identity that is no longer in device.json: Process
\* A never, Process B in online mode, also after a reset and a second
\* provisioning while it ran.
IdentityInForce ==
  lingered = {} =>
    /\ "A" \in alive => held["A"] = file
    /\ "B" \in alive /\ pc = "sleep" /\ mode = "online" => held["B"] = file

\* Probes and switches take wlan0 from each other in any order, and yet when
\* the orchestrator sleeps in offline mode and no switch runs, the Pi can be
\* reached, as long as nmcli does not fail by itself.
SetupReachable ==
  pc = "sleep" /\ mode = "offline" /\ faults = 0 /\ ~stuck
  /\ (\A q \in Request : switch[q] \in Provisioning!Finished)
  => wlan # "off"

\* Process C's SUCCESS is true although the orchestrator's probe connects the
\* same profile meanwhile.
SuccessIsOwnNetwork ==
  [][\A q \in Request :
       switch[q] # "success" /\ switch'[q] = "success" => wlan = q]_vars

\* Once credentials are stored and the network stays, the Pi ends up online for
\* good under the identity of device.json: whatever a probe did to the switch,
\* and whether Process C survived to report it.
ProvisionedComesHome ==
  <>[](inRange /\ profile # None /\ ~Orchestrator!GivenUp /\ lingered = {}) =>
    <>[](/\ mode = "online" /\ wlan \in Request
         /\ "B" \in alive => held["B"] = file)

\* process-c/README.md: a switch "rolls back to AP mode within ~60s so the user
\* can retry".  With credentials that are good, a network that is there and an
\* nmcli that works, a user whose switch failed and whose other try was refused
\* still gets the Pi online.
RetryComesHome ==
  []inRange =>
    \A q, p \in Good :
      switch[q] = "failed" /\ request[p] = "conflict" ~> mode = "online"
=============================================================================
