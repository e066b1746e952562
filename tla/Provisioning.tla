---------------------------- MODULE Provisioning ----------------------------
(***************************************************************************)
(* Process C: POST /provision and POST /reset, device.json, and the WiFi    *)
(* switch that every accepted request starts in a thread of its own         *)
(* (provisioner.py, wifi_connector.py).  The handler runs on the event loop *)
(* and gives it up once, while it waits for the body of the request.        *)
(*                                                                          *)
(* A request is identified with the credentials it carries and with the     *)
(* shelf_id that is minted for it.                                          *)
(***************************************************************************)
EXTENDS Naturals, FiniteSets

CONSTANTS
  Request,     \* the requests the setup page or the app sends
  Good,        \* those whose credentials can join a network
  AllowReset,  \* cfg.allow_reset_endpoint
  OneAtATime,  \* whether clients wait for the answer to the last request
  MaxResets,   \* bound on POST /reset
  MaxKills,    \* bound on kills of Process C and power cuts
  None         \* no device.json

ASSUME ProvisioningAssumption ==
  /\ Good \subseteq Request
  /\ AllowReset \in BOOLEAN /\ OneAtATime \in BOOLEAN
  /\ MaxResets \in Nat /\ MaxKills \in Nat
  /\ None \notin Request
  /\ {"ap", "off"} \cap Request = {}   \* wlan has both as values

VARIABLES
  up,        \* whether Process C runs
  request,   \* request[q]: where its handler is
  file,      \* device.json: None or the identity it holds
  switch,    \* switch[q]: where its perform_wifi_switch is
  lock,      \* _apply_lock: None or its holder
  profile,   \* the credentials in the ShelfAware_STA profile
  wlan,      \* wlan0: "ap", "off" or the credentials it is connected with
  stuck,     \* history: a rollback failed to bring the AP up
  resets, kills

httpVars  == <<request, file>>
radioVars == <<profile, wlan, stuck>>
vars == <<up, httpVars, switch, lock, radioVars, resets, kills>>

RequestState == {"idle", "reading", "conflict", "invalid", "unsaved", "accepted",
                 "dropped"}

\* In the order of apply_wifi_credentials; the "raw" ones are the rollback of
\* perform_wifi_switch, which does not hold the lock.
SwitchState == {"none", "lock", "create", "connect", "activate", "up", "verify",
                "rollback", "ap", "raw rollback", "raw ap", "success", "failed"}
Finished == {"none", "success", "failed"}

-----------------------------------------------------------------------------
(* handlers.py and device_state.py *)

\* (variant for a mutant) The handler does not look for device.json.
IsProvisionedNever == FALSE
IsProvisioned == file # None

\* provision up to the await: refuse, or wait for the body
PostProvision(q) ==
  /\ up /\ wlan = "ap" /\ request[q] = "idle"
  /\ OneAtATime => \A p \in Request : request[p] # "reading"
  /\ request' = [request EXCEPT ![q] =
                   IF IsProvisioned THEN "conflict" ELSE "reading"]
  /\ UNCHANGED <<up, file, switch, lock, radioVars, resets, kills>>

\* the body is not parseable or not valid, or the client is gone
BodyRefused(q) ==
  /\ up /\ request[q] = "reading"
  /\ request' = [request EXCEPT ![q] = "invalid"]
  /\ UNCHANGED <<up, file, switch, lock, radioVars, resets, kills>>

\* the body is valid: device.json is replaced and the switch is scheduled, or
\* the write raises OSError and leaves device.json as it was
BodyAccepted(q) ==
  /\ up /\ request[q] = "reading"
  /\ \/ /\ request' = [request EXCEPT ![q] = "accepted"]
        /\ file' = q
        /\ switch' = [switch EXCEPT ![q] = "lock"]
     \/ /\ request' = [request EXCEPT ![q] = "unsaved"]
        /\ UNCHANGED <<file, switch>>
  /\ UNCHANGED <<up, lock, radioVars, resets, kills>>

PostReset ==
  /\ up /\ AllowReset /\ wlan = "ap"
  /\ resets < MaxResets
  /\ resets' = resets + 1
  /\ file' = None
  /\ UNCHANGED <<up, request, switch, lock, radioVars, kills>>

-----------------------------------------------------------------------------
(* wifi_connector.py; an nmcli command can fail or time out *)

\* (variant for a mutant) The lock does not exclude.
LockFreeAlways == TRUE
LockFree == lock = None

\* (variant for a mutant) The lock is not released.
ReleasedNot == lock
Released == None

AcquireLock(q) ==
  /\ up /\ switch[q] = "lock" /\ LockFree
  /\ lock' = q
  /\ switch' = [switch EXCEPT ![q] = "create"]
  /\ UNCHANGED <<up, httpVars, radioVars, resets, kills>>

\* nmcli connection down: on success the interface is off if it was in use
Down(what) ==
  wlan' \in IF wlan \in what THEN {wlan, "off"} ELSE {wlan}

\* _create_or_update_sta_profile brings the AP down and scans
CreateProfile(q) ==
  /\ up /\ switch[q] = "create"
  /\ Down({"ap"})
  /\ \E next \in {"connect", "rollback"} : switch' = [switch EXCEPT ![q] = next]
  /\ UNCHANGED <<up, httpVars, lock, profile, stuck, resets, kills>>

\* nmcli device wifi connect; one that times out may still have connected
Connect(q) ==
  /\ up /\ switch[q] = "connect"
  /\ \/ /\ q \in Good
        /\ profile' = q /\ wlan' = q
        /\ switch' = [switch EXCEPT ![q] = "activate"]
     \/ /\ switch' = [switch EXCEPT ![q] = "rollback"]
        /\ \/ UNCHANGED <<profile, wlan>>
           \/ q \in Good /\ profile' = q /\ wlan' = q
  /\ UNCHANGED <<up, httpVars, lock, stuck, resets, kills>>

\* _activate_sta_profile brings the AP down once more
Activate(q) ==
  /\ up /\ switch[q] = "activate"
  /\ Down({"ap"})
  /\ switch' = [switch EXCEPT ![q] = "up"]
  /\ UNCHANGED <<up, httpVars, lock, profile, stuck, resets, kills>>

\* nmcli connection up ShelfAware_STA
ConnectionUp(q) ==
  /\ up /\ switch[q] = "up"
  /\ \/ /\ wlan' = profile
        /\ switch' = [switch EXCEPT ![q] = "verify"]
     \/ /\ switch' = [switch EXCEPT ![q] = "rollback"]
        /\ wlan' \in {wlan, profile}
  /\ UNCHANGED <<up, httpVars, lock, profile, stuck, resets, kills>>

\* The poll finds the STA profile connected, runs out of time, or nmcli times
\* out: that exception leaves apply_wifi_credentials and releases the lock.
Verify(q) ==
  /\ up /\ switch[q] = "verify"
  /\ \/ /\ wlan \in Request
        /\ switch' = [switch EXCEPT ![q] = "success"]
        /\ lock' = Released
     \/ /\ switch' = [switch EXCEPT ![q] = "rollback"]
        /\ UNCHANGED lock
     \/ /\ switch' = [switch EXCEPT ![q] = "raw rollback"]
        /\ lock' = Released
  /\ UNCHANGED <<up, httpVars, radioVars, resets, kills>>

\* rollback_to_ap, first half: bring the STA profile down, ignore failures
RollbackDown(q) ==
  /\ up /\ switch[q] \in {"rollback", "raw rollback"}
  /\ Down(Request)
  /\ switch' = [switch EXCEPT ![q] = IF @ = "rollback" THEN "ap" ELSE "raw ap"]
  /\ UNCHANGED <<up, httpVars, lock, profile, stuck, resets, kills>>

\* (variant for a mutant) A failed switch leaves the AP down.
ApUpSkipped == wlan' = wlan /\ stuck' = stuck
ApUp ==
  \/ wlan' = "ap" /\ stuck' = FALSE
  \/ wlan' = wlan /\ stuck' = TRUE

\* rollback_to_ap, second half, and the return from apply_wifi_credentials
RollbackUp(q) ==
  /\ up /\ switch[q] \in {"ap", "raw ap"}
  /\ ApUp
  /\ switch' = [switch EXCEPT ![q] = "failed"]
  /\ lock' = IF switch[q] = "ap" THEN Released ELSE lock
  /\ UNCHANGED <<up, httpVars, profile, resets, kills>>

-----------------------------------------------------------------------------
(* Process C is killed, or the power fails; the orchestrator starts it again *)
(* only in offline mode, after it has brought the AP up.                     *)

Kill ==
  /\ up /\ kills < MaxKills
  /\ kills' = kills + 1
  /\ up' = FALSE
  /\ request' = [q \in Request |->
                   IF request[q] = "reading" THEN "dropped" ELSE request[q]]
  /\ switch' = [q \in Request |->
                  IF switch[q] \in Finished THEN switch[q] ELSE "none"]
  /\ lock' = None
  /\ UNCHANGED <<file, radioVars, resets>>

Launch ==
  /\ ~up
  /\ up' = TRUE
  /\ wlan' = "ap" /\ stuck' = FALSE
  /\ UNCHANGED <<httpVars, switch, lock, profile, resets, kills>>

-----------------------------------------------------------------------------
Init ==
  /\ up = TRUE
  /\ request = [q \in Request |-> "idle"]
  /\ file = None
  /\ switch = [q \in Request |-> "none"]
  /\ lock = None /\ profile = None /\ wlan = "ap" /\ stuck = FALSE
  /\ resets = 0 /\ kills = 0

Handler(q) == BodyRefused(q) \/ BodyAccepted(q)

Switch(q) ==
  \/ AcquireLock(q) \/ CreateProfile(q) \/ Connect(q) \/ Activate(q)
  \/ ConnectionUp(q) \/ Verify(q) \/ RollbackDown(q) \/ RollbackUp(q)

Next ==
  \/ \E q \in Request : PostProvision(q) \/ Handler(q) \/ Switch(q)
  \/ PostReset \/ Kill \/ Launch

Spec == Init /\ [][Next]_vars

\* Threads run and nmcli ends within its timeout.  A thread that waits for the
\* lock gets it in the end: there are finitely many switches.
Fairness == \A q \in Request : WF_vars(Switch(q))

FairSpec == Spec /\ Fairness

-----------------------------------------------------------------------------
(* Properties *)

Locked == {"create", "connect", "activate", "up", "verify", "rollback", "ap"}

\* Types, and _apply_lock is held exactly by the thread between its acquisition
\* and its release, on every way out of apply_wifi_credentials.
TypeOK ==
  /\ up \in BOOLEAN /\ stuck \in BOOLEAN
  /\ request \in [Request -> RequestState]
  /\ file \in Request \cup {None} /\ profile \in Request \cup {None}
  /\ wlan \in Request \cup {"ap", "off"}
  /\ switch \in [Request -> SwitchState]
  /\ lock \in Request \cup {None}
  /\ \A q \in Request : lock = q <=> switch[q] \in Locked
  /\ resets \in 0..MaxResets /\ kills \in 0..MaxKills

\* When no switch is under way the Pi can be reached: it is on the home network
\* or its AP is up, unless nmcli itself failed to bring the AP up.  This holds
\* although the rollback of perform_wifi_switch runs without the lock and can
\* interleave with the next switch.
NeverStranded ==
  up /\ ~stuck /\ (\A q \in Request : switch[q] \in Finished) => wlan # "off"

\* device.json keeps the identity that a 202 answer announced: no later or
\* concurrent request replaces the shelf_id the user was given.
AcceptedIdentityKept ==
  resets = 0 => \A q \in Request : request[q] = "accepted" => file = q

\* A switch that reports SUCCESS is on the network of its own credentials: the
\* poll of _is_connected_to_sta, which looks at the profile's name only, is not
\* satisfied by the connection of another switch.
SuccessIsOwnNetwork ==
  [][\A q \in Request :
       switch[q] # "success" /\ switch'[q] = "success" => wlan = q]_vars

\* Every switch ends, one that waits for the lock too: no way out of
\* apply_wifi_credentials leaves the lock held.
SwitchEnds ==
  \A q \in Request : switch[q] # "none" ~> switch[q] \in Finished
=============================================================================
