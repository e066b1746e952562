------------------------- MODULE ProvisioningProofs -------------------------
(***************************************************************************)
(* The safety properties of Provisioning, for all values of its constants.  *)
(*                                                                          *)
(* Each property needs to know something of the switches under way: that    *)
(* wlan0 is off only while one of them still has to bring it up again       *)
(* (Reachable), that the profile and wlan0 belong to the thread that holds  *)
(* the lock (OwnNetwork), and for the identity that no handler waits for a  *)
(* body once another has stored its own (Identity).                         *)
(***************************************************************************)
EXTENDS Provisioning, TLAPS

\* A switch is scheduled by the handler that accepts its request.
Ordered == \A q \in Request : request[q] # "accepted" => switch[q] = "none"

\* Past the wait for the lock and not yet at an end.
Working == SwitchState \ (Finished \cup {"lock"})

Reachable ==
  up /\ ~stuck /\ wlan = "off" => \E q \in Request : switch[q] \in Working

OwnNetwork ==
  \A q \in Request :
    /\ switch[q] \in {"activate", "up", "verify"} => profile = q
    /\ switch[q] = "verify" => wlan \in {q, "off", "ap"}

Identity ==
  /\ \A p, q \in Request :
       request[p] = "reading" /\ request[q] = "reading" => p = q
  /\ resets = 0 => \A q \in Request :
                     /\ request[q] = "reading" => file = None
                     /\ request[q] = "accepted" => file = q

\* What does not depend on who else uses wlan0.
Safe == TypeOK /\ Ordered /\ OwnNetwork

IInv == Safe /\ Reachable

-----------------------------------------------------------------------------
\* Process C starts with the AP up and no switch.
LEMMA InitIInv == Init => IInv
<1> SUFFICES ASSUME Init PROVE IInv
  OBVIOUS
<1>1. TypeOK
  <2>1. /\ request \in [Request -> RequestState]
        /\ switch \in [Request -> SwitchState]
    BY DEF Init, RequestState, SwitchState
  <2>2. \A q \in Request : lock = q <=> switch[q] \in Locked
    BY ProvisioningAssumption DEF Init, Locked
  <2>3. resets \in 0..MaxResets /\ kills \in 0..MaxKills
    BY ProvisioningAssumption DEF Init
  <2> QED
    BY <2>1, <2>2, <2>3 DEF Init, TypeOK
<1>2. Ordered /\ Reachable /\ OwnNetwork
  BY DEF Init, Ordered, Reachable, OwnNetwork
<1> QED
  BY <1>1, <1>2 DEF IInv, Safe

\* A handler touches neither the lock nor wlan0.
LEMMA HandlerSafe ==
  ASSUME Safe, NEW q \in Request, PostProvision(q) \/ Handler(q)
  PROVE  Safe' /\ (Reachable => Reachable')
<1>t. TypeOK /\ Ordered /\ OwnNetwork
  BY DEF Safe
<1>1. CASE PostProvision(q)
  <2>1. TypeOK'
    BY <1>t, <1>1 DEF TypeOK, PostProvision, radioVars, RequestState
  <2>2. Ordered' /\ (Reachable => Reachable') /\ OwnNetwork'
    BY <1>t, <1>1
    DEF TypeOK, Ordered, Reachable, OwnNetwork, PostProvision, radioVars
  <2> QED
    BY <2>1, <2>2 DEF Safe
<1>2. CASE BodyRefused(q)
  <2>1. TypeOK'
    BY <1>t, <1>2 DEF TypeOK, BodyRefused, radioVars, RequestState
  <2>2. Ordered' /\ (Reachable => Reachable') /\ OwnNetwork'
    BY <1>t, <1>2
    DEF TypeOK, Ordered, Reachable, OwnNetwork, BodyRefused, radioVars
  <2> QED
    BY <2>1, <2>2 DEF Safe
<1>3. CASE BodyAccepted(q)
  <2>1. TypeOK'
    BY <1>t, <1>3
    DEF TypeOK, Ordered, BodyAccepted, radioVars, RequestState, SwitchState,
        Locked
  <2>2. Ordered' /\ (Reachable => Reachable') /\ OwnNetwork'
    BY <1>t, <1>3
    DEF TypeOK, Ordered, Reachable, OwnNetwork, BodyAccepted, radioVars, Working,
        Finished
  <2> QED
    BY <2>1, <2>2 DEF Safe
<1> QED
  BY <1>1, <1>2, <1>3 DEF Handler

\* No step of a switch lets go of wlan0 without another step to come.
LEMMA SwitchSafe ==
  ASSUME Safe, NEW q \in Request, Switch(q)
  PROVE  Safe' /\ (Reachable => Reachable')
<1>t. TypeOK /\ Ordered /\ OwnNetwork
  BY DEF Safe
<1>a. switch[q] # "none" /\ request' = request
  BY DEF Switch, AcquireLock, CreateProfile, Connect, Activate, ConnectionUp,
         Verify, RollbackDown, RollbackUp, httpVars
<1>b. \A p \in Request : p # q => switch'[p] = switch[p]
  BY <1>t
  DEF TypeOK, Switch, AcquireLock, CreateProfile, Connect, Activate, ConnectionUp,
      Verify, RollbackDown, RollbackUp
<1>1. Ordered'
  BY <1>t, <1>a, <1>b DEF Ordered
<1>2. CASE AcquireLock(q)
  <2>1. TypeOK'
    BY <1>t, <1>2, ProvisioningAssumption
    DEF TypeOK, AcquireLock, LockFree, httpVars, radioVars, SwitchState, Locked
  <2>2. (Reachable => Reachable') /\ OwnNetwork'
    BY <1>t, <1>2
    DEF TypeOK, Reachable, OwnNetwork, AcquireLock, radioVars, Working, Finished,
        SwitchState
  <2> QED
    BY <1>1, <2>1, <2>2 DEF Safe
<1>3. CASE CreateProfile(q)
  <2>1. TypeOK'
    BY <1>t, <1>3
    DEF TypeOK, CreateProfile, Down, httpVars, SwitchState, Locked
  <2>2. (Reachable => Reachable') /\ OwnNetwork'
    BY <1>t, <1>3
    DEF TypeOK, Reachable, OwnNetwork, CreateProfile, Down, Working, Finished,
        SwitchState
  <2> QED
    BY <1>1, <2>1, <2>2 DEF Safe
<1>4. CASE Connect(q)
  <2>1. TypeOK'
    BY <1>t, <1>4 DEF TypeOK, Connect, httpVars, SwitchState, Locked
  <2>2. Reachable => Reachable'
    BY <1>t, <1>4
    DEF TypeOK, Reachable, Connect, Working, Finished, SwitchState
  <2>3. \A p \in Request : p # q => switch[p] \notin Locked
    BY <1>t, <1>4 DEF TypeOK, Connect, Locked
  <2>4. OwnNetwork'
    BY <1>t, <1>4, <2>3 DEF TypeOK, OwnNetwork, Connect, Locked
  <2> QED
    BY <1>1, <2>1, <2>2, <2>4 DEF Safe
<1>5. CASE Activate(q)
  <2>1. TypeOK'
    BY <1>t, <1>5 DEF TypeOK, Activate, Down, httpVars, SwitchState, Locked
  <2>2. (Reachable => Reachable') /\ OwnNetwork'
    BY <1>t, <1>5
    DEF TypeOK, Reachable, OwnNetwork, Activate, Down, Working, Finished,
        SwitchState
  <2> QED
    BY <1>1, <2>1, <2>2 DEF Safe
<1>6. CASE ConnectionUp(q)
  <2>1. profile = q
    BY <1>t, <1>6 DEF OwnNetwork, ConnectionUp
  <2>2. TypeOK'
    BY <1>t, <1>6, <2>1 DEF TypeOK, ConnectionUp, httpVars, SwitchState, Locked
  <2>3. Reachable => Reachable'
    BY <1>t, <1>6
    DEF TypeOK, Reachable, ConnectionUp, Working, Finished, SwitchState
  <2>4. \A p \in Request : p # q => switch[p] \notin Locked
    BY <1>t, <1>6 DEF TypeOK, ConnectionUp, Locked
  <2>5. OwnNetwork'
    BY <1>t, <1>6, <2>1, <2>4 DEF TypeOK, OwnNetwork, ConnectionUp, Locked
  <2> QED
    BY <1>1, <2>2, <2>3, <2>5 DEF Safe
<1>7. CASE Verify(q)
  <2>1. TypeOK'
    BY <1>t, <1>7, ProvisioningAssumption
    DEF TypeOK, Verify, Released, httpVars, radioVars, SwitchState, Locked
  <2>2. Reachable => Reachable'
    BY <1>t, <1>7, ProvisioningAssumption
    DEF TypeOK, Reachable, Verify, radioVars, Working, Finished, SwitchState
  <2>3. OwnNetwork'
    BY <1>t, <1>7 DEF TypeOK, OwnNetwork, Verify, radioVars
  <2> QED
    BY <1>1, <2>1, <2>2, <2>3 DEF Safe
<1>8. CASE RollbackDown(q)
  <2>1. TypeOK'
    BY <1>t, <1>8
    DEF TypeOK, RollbackDown, Down, httpVars, SwitchState, Locked
  <2>2. (Reachable => Reachable') /\ OwnNetwork'
    BY <1>t, <1>8
    DEF TypeOK, Reachable, OwnNetwork, RollbackDown, Down, Working, Finished,
        SwitchState
  <2> QED
    BY <1>1, <2>1, <2>2 DEF Safe
<1>9. CASE RollbackUp(q)
  <2>1. TypeOK'
    BY <1>t, <1>9, ProvisioningAssumption
    DEF TypeOK, RollbackUp, ApUp, Released, httpVars, SwitchState, Locked
  <2>2. (Reachable => Reachable') /\ OwnNetwork'
    BY <1>t, <1>9
    DEF TypeOK, Reachable, OwnNetwork, RollbackUp, ApUp, Working, Finished,
        SwitchState
  <2> QED
    BY <1>1, <2>1, <2>2 DEF Safe
<1> QED
  BY <1>2, <1>3, <1>4, <1>5, <1>6, <1>7, <1>8, <1>9 DEF Switch

\* A reset deletes the file and nothing else.
LEMMA ResetSafe ==
  ASSUME Safe, PostReset
  PROVE  Safe' /\ (Reachable => Reachable')
<1>t. TypeOK /\ Ordered /\ OwnNetwork
  BY DEF Safe
<1>1. TypeOK'
  BY <1>t, ProvisioningAssumption DEF TypeOK, PostReset, radioVars
<1>2. Ordered' /\ (Reachable => Reachable') /\ OwnNetwork'
  BY <1>t DEF Ordered, Reachable, OwnNetwork, PostReset, radioVars
<1> QED
  BY <1>1, <1>2 DEF Safe

\* Every step keeps the invariant.
LEMMA NextIInv == IInv /\ [Next]_vars => IInv'
<1> SUFFICES ASSUME IInv, [Next]_vars PROVE IInv'
  OBVIOUS
<1>t. TypeOK /\ Ordered /\ Reachable /\ OwnNetwork
  BY DEF IInv, Safe
<1>1. ASSUME NEW q \in Request, PostProvision(q) \/ Handler(q) PROVE IInv'
  BY <1>1, HandlerSafe DEF IInv
<1>2. ASSUME NEW q \in Request, Switch(q) PROVE IInv'
  BY <1>2, SwitchSafe DEF IInv
<1>3. CASE PostReset
  BY <1>3, ResetSafe DEF IInv
<1>4. CASE Kill
  <2>1. TypeOK'
    <3>1. /\ request' \in [Request -> RequestState]
          /\ switch' \in [Request -> SwitchState]
      BY <1>t, <1>4 DEF TypeOK, Kill, RequestState, SwitchState
    <3>2. \A q \in Request : lock' = q <=> switch'[q] \in Locked
      BY <1>4, ProvisioningAssumption DEF Kill, Finished, Locked
    <3>3. kills' \in 0..MaxKills
      BY <1>t, <1>4, ProvisioningAssumption DEF TypeOK, Kill
    <3> QED
      BY <1>t, <1>4, <3>1, <3>2, <3>3 DEF TypeOK, Kill, radioVars
  <2>2. Ordered' /\ Reachable' /\ OwnNetwork'
    BY <1>t, <1>4
    DEF TypeOK, Ordered, Reachable, OwnNetwork, Kill, radioVars, Finished
  <2> QED
    BY <2>1, <2>2 DEF IInv, Safe
<1>5. CASE Launch
  <2>1. TypeOK'
    BY <1>t, <1>5 DEF TypeOK, Launch, httpVars
  <2>2. Ordered' /\ Reachable' /\ OwnNetwork'
    BY <1>t, <1>5 DEF Ordered, Reachable, OwnNetwork, Launch, httpVars
  <2> QED
    BY <2>1, <2>2 DEF IInv, Safe
<1>6. CASE UNCHANGED vars
  BY <1>t, <1>6
  DEF IInv, Safe, TypeOK, Ordered, Reachable, OwnNetwork, vars, httpVars, radioVars
<1> QED
  BY <1>1, <1>2, <1>3, <1>4, <1>5, <1>6 DEF Next

-----------------------------------------------------------------------------
\* The invariant holds in every state of Process C.
THEOREM Invariance == Spec => []IInv
  BY InitIInv, NextIInv, PTL DEF Spec

\* Types, and the thread between acquisition and release is the lock's holder.
THEOREM TypeCorrect == Spec => []TypeOK
<1>1. IInv => TypeOK
  BY DEF IInv, Safe
<1> QED
  BY <1>1, Invariance, PTL

\* Whatever nmcli refuses and wherever the two rollbacks interleave, the Pi can
\* be reached when all switches have ended.
THEOREM StaysReachable == Spec => []NeverStranded
<1>1. IInv => NeverStranded
  BY DEF IInv, Reachable, Working, NeverStranded
<1> QED
  BY <1>1, Invariance, PTL

\* Only the poll of its own thread ends a switch in success.
LEMMA SwitchSuccess ==
  ASSUME Safe, NEW p \in Request, Switch(p),
         NEW q \in Request, switch[q] # "success", switch'[q] = "success"
  PROVE  wlan = q
<1>t. TypeOK
  BY DEF Safe
<1>1. switch[q] = "verify" /\ wlan \in Request
  BY <1>t
  DEF TypeOK, Switch, AcquireLock, CreateProfile, Connect, Activate, ConnectionUp,
      Verify, RollbackDown, RollbackUp
<1>2. wlan \in {q, "off", "ap"}
  BY <1>1 DEF Safe, OwnNetwork
<1> QED
  BY <1>1, <1>2, ProvisioningAssumption

LEMMA HandlerSuccess ==
  ASSUME Safe, NEW p \in Request, PostProvision(p) \/ Handler(p), NEW q \in Request
  PROVE  switch'[q] = "success" => switch[q] = "success"
  BY DEF Safe, TypeOK, PostProvision, Handler, BodyRefused, BodyAccepted

\* No switch reports the success of another.
THEOREM SuccessIsOwn == Spec => SuccessIsOwnNetwork
<1> DEFINE Own == \A q \in Request :
              switch[q] # "success" /\ switch'[q] = "success" => wlan = q
<1>1. IInv /\ [Next]_vars => [Own]_vars
  <2> SUFFICES ASSUME IInv, [Next]_vars, NEW q \in Request,
                      switch[q] # "success", switch'[q] = "success"
               PROVE  wlan = q
    OBVIOUS
  <2>1. ~(PostReset \/ Kill \/ Launch \/ UNCHANGED vars)
    BY DEF PostReset, Kill, Launch, vars
  <2> QED
    BY <2>1, SwitchSuccess, HandlerSuccess DEF IInv, Next
<1> QED
  BY <1>1, Invariance, PTL DEF Spec, SuccessIsOwnNetwork

-----------------------------------------------------------------------------
\* While clients wait for their answers, one handler at a time knows that
\* nothing is stored.
LEMMA InitIdentity == Init => Identity
  BY DEF Init, Identity

LEMMA NextIdentity ==
  ASSUME OneAtATime, IInv, Identity, [Next]_vars
  PROVE  Identity'
<1>t. TypeOK
  BY DEF IInv, Safe
<1>1. ASSUME NEW q \in Request, PostProvision(q) PROVE Identity'
  BY <1>t, <1>1 DEF TypeOK, Identity, PostProvision, IsProvisioned
<1>2. ASSUME NEW q \in Request, Handler(q) PROVE Identity'
  BY <1>t, <1>2, ProvisioningAssumption
  DEF TypeOK, Identity, Handler, BodyRefused, BodyAccepted
<1>3. ASSUME NEW q \in Request, Switch(q) PROVE Identity'
  BY <1>3
  DEF Identity, Switch, AcquireLock, CreateProfile, Connect, Activate,
      ConnectionUp, Verify, RollbackDown, RollbackUp, httpVars
<1>4. CASE PostReset
  <2>1. resets' # 0
    BY <1>t, <1>4, ProvisioningAssumption DEF TypeOK, PostReset
  <2> QED
    BY <1>4, <2>1 DEF Identity, PostReset
<1>5. CASE Kill
  BY <1>t, <1>5 DEF TypeOK, Identity, Kill
<1>6. CASE Launch \/ UNCHANGED vars
  BY <1>6 DEF Identity, Launch, vars, httpVars
<1> QED
  BY <1>1, <1>2, <1>3, <1>4, <1>5, <1>6 DEF Next

\* The identity a 202 announced stays in device.json until a reset, provided
\* that no two bodies are awaited at the same time.
THEOREM IdentityKept ==
  ASSUME OneAtATime
  PROVE  Spec => []AcceptedIdentityKept
<1>1. IInv /\ Identity /\ [Next]_vars => Identity'
  BY OneAtATime, NextIdentity
<1>2. Identity => AcceptedIdentityKept
  BY DEF Identity, AcceptedIdentityKept
<1> QED
  BY <1>1, <1>2, InitIdentity, Invariance, PTL DEF Spec
=============================================================================
