--------------------------- MODULE WorkersProofs ---------------------------
(***************************************************************************)
(* Types of Workers, and that no wake is forwarded twice, for all values of *)
(* its constants.                                                           *)
(*                                                                          *)
(* WakeOnce is about the moment when an answer is handled; what makes it    *)
(* true is known when the request is made: what has been handed out for     *)
(* good and forwarded is no longer pending, so that no answer contains it   *)
(* (Once).  The stale commands of an earlier shelf are in answer as well,   *)
(* but only while the reply is a failure.                                   *)
(***************************************************************************)
EXTENDS Workers, SequenceTheorems, TLAPS

Serving ==
  /\ up => shelves # <<>>
  /\ poller \notin {"ask", "reply"} => pos = 1

Once ==
  /\ answer \subseteq issued
  /\ spent \cap pending = {}
  /\ reply = "ok" => poller = "reply" /\ answer \cap spent = {}

IInv == TypeOK /\ Serving /\ Once

-----------------------------------------------------------------------------
\* min(delay * factor, cap) stays between 1 and the cap.
LEMMA NextDelayType ==
  ASSUME NEW d \in 1..BackoffCap
  PROVE  NextDelay(d) \in 1..BackoffCap
<1>1. d * BackoffFactor \in Nat /\ d * BackoffFactor >= 1
  BY TimeAssumption
<1> QED
  BY <1>1, TimeAssumption DEF NextDelay

\* from_env yields the shelves of the process, at least one unless it refuses.
LEMMA ShelvesType ==
  ASSUME NEW f \in Shelf \cup {None}
  PROVE  ShelvesFrom(f) \in Seq(Shelf)
  BY ShelfAssumption DEF ShelvesFrom

\* An outcome is one of the replies, and only a good 2xx is "ok".
LEMMA OutcomeType ==
  ASSUME NEW wire \in Wire
  PROVE  /\ Outcome(wire) \in Replies \ {"none"}
         /\ Outcome(wire) = "ok" => wire = "2xx"
<1>1. CASE wire = "2xx"
  BY <1>1, Zenon DEF Outcome, Replies
<1>2. CASE wire = "2xx malformed"
  BY <1>2 DEF Outcome, Replies
<1>3. CASE wire = "4xx"
  BY <1>3 DEF Outcome, Replies
<1>4. CASE wire = "5xx"
  BY <1>4 DEF Outcome, Replies
<1>5. CASE wire = "no response"
  BY <1>5 DEF Outcome, Replies
<1>6. CASE wire = "other error"
  BY <1>6 DEF Outcome, Replies
<1> QED
  BY <1>1, <1>2, <1>3, <1>4, <1>5, <1>6 DEF Wire

\* An exchange takes at most one of the faults that are left.
LEMMA ExchangeFaults ==
  ASSUME faults \in 0..MaxFaults, NEW s, NEW wire, Exchange(s, wire)
  PROVE  faults' \in 0..MaxFaults
<1>1. faults' = faults \/ Fault
  BY DEF Exchange
<1>2. CASE Fault
  BY <1>2, EnvironmentAssumption DEF Fault
<1> QED
  BY <1>1, <1>2

-----------------------------------------------------------------------------
\* Nothing runs and nothing has been issued at the beginning.
LEMMA InitIInv == Init => IInv
<1> SUFFICES ASSUME Init PROVE IInv
  OBVIOUS
<1>1. shelves \in Seq(Shelf)
  BY DEF Init
<1>2. delay \in 1..BackoffCap /\ left \in 0..BackoffCap /\ now \in 0..Horizon
  BY TimeAssumption DEF Init
<1>3. changes \in 0..MaxChanges /\ faults \in 0..MaxFaults
  BY EnvironmentAssumption DEF Init
<1>4. TypeOK
  <2>1. up \in BOOLEAN /\ stop \in BOOLEAN
    BY Zenon DEF Init
  <2>2. /\ registrar \in RegistrarState /\ poller \in PollerState
        /\ pos \in Nat \ {0} /\ reply \in Replies
    BY DEF Init, RegistrarState, PollerState, Replies
  <2>3. /\ poller \in {"ask", "reply"} => pos \in DOMAIN shelves
        /\ ~up => poller = "off" /\ registrar = "none"
    BY Zenon DEF Init
  <2>4. lag \in 0..MaxLag
    BY DEF Init
  <2>5. reachable \in BOOLEAN /\ rejected \in BOOLEAN
    BY Zenon DEF Init
  <2> QED
    BY <1>1, <1>2, <1>3, <2>1, <2>2, <2>3, <2>4, <2>5, Zenon DEF Init, TypeOK
<1>5. Serving /\ Once
  BY DEF Init, Serving, Once
<1> QED
  BY <1>4, <1>5 DEF IInv

\* The shelf a request is about is one of the process.
LEMMA RegistrarIInv ==
  ASSUME IInv, Registrar
  PROVE  IInv'
<1>t. TypeOK /\ Serving /\ Once
  BY DEF IInv
<1>1. /\ Serving' /\ Once'
      /\ UNCHANGED <<processVars, pollerVars, reachable, commandVars, timeVars,
                     changes>>
  BY <1>t
  DEF Serving, Once, Registrar, Register, RegistrarWakes, processVars, pollerVars,
      commandVars
<1>2. CASE Register
  <2>1. shelves[1] \in Shelf
    BY <1>t, <1>2 DEF TypeOK, Serving, Register
  <2>2. faults' \in 0..MaxFaults
    BY <1>t, <1>2, ExchangeFaults DEF TypeOK, Register
  <2>3. rows' \subseteq Shelf /\ rejected' \in BOOLEAN
    BY <1>t, <1>2, <2>1 DEF TypeOK, Register
  <2>4. delay' \in 1..BackoffCap /\ left' \in 0..BackoffCap
    BY <1>t, <1>2, TimeAssumption DEF TypeOK, Register
  <2>5. registrar' \in RegistrarState
    <3>1. ASSUME NEW wire \in Wire
          PROVE  AfterTry(Outcome(wire)) \in RegistrarState
      BY OutcomeType DEF AfterTry, RegistrarState, Replies
    <3> QED
      BY <1>2, <3>1 DEF Register, RegistrarState
  <2>6. up' = TRUE
    BY <1>1, <1>2 DEF Register, processVars
  <2> QED
    BY <1>t, <1>1, <2>2, <2>3, <2>4, <2>5, <2>6
    DEF IInv, TypeOK, processVars, pollerVars, commandVars, timeVars
<1>3. CASE RegistrarWakes
  <2>1. delay' \in 1..BackoffCap /\ left' \in 0..BackoffCap
    BY <1>t, <1>3, NextDelayType, TimeAssumption DEF TypeOK, RegistrarWakes
  <2>2. registrar' \in RegistrarState /\ up' = TRUE
    BY <1>3, <1>1 DEF RegistrarWakes, RegistrarState, processVars
  <2>3. UNCHANGED <<rejected, rows, faults>>
    BY <1>3 DEF RegistrarWakes
  <2> QED
    BY <1>t, <1>1, <2>1, <2>2, <2>3
    DEF IInv, TypeOK, processVars, pollerVars, commandVars, timeVars
<1> QED
  BY <1>2, <1>3 DEF Registrar

\* An answer holds only what is still pending when the backend gives it.
LEMMA PollAskIInv ==
  ASSUME IInv, PollAsk
  PROVE  IInv'
<1>t. TypeOK /\ Serving /\ Once
  BY DEF IInv
<1> PICK wire \in Wire, gone \in {{}, Available} :
         /\ Exchange(Here, wire)
         /\ reply' = Outcome(wire)
         /\ answer' = IF wire = "2xx" THEN Available ELSE answer
         /\ pending' = pending \ gone
         /\ missed' = IF wire = "2xx" THEN missed ELSE missed \cup gone
  BY DEF PollAsk
<1>1. /\ up /\ poller = "ask" /\ poller' = "reply" /\ woken' = {}
      /\ UNCHANGED <<processVars, registrarVars, pos, reachable, rows, issued,
                     spent, timeVars, changes>>
  BY DEF PollAsk
<1>2. Available \subseteq pending /\ gone \subseteq pending
  BY DEF Available
<1>3. reply' \in Replies /\ (reply' = "ok" => wire = "2xx")
  BY OutcomeType
<1>4. faults' \in 0..MaxFaults
  BY <1>t, ExchangeFaults DEF TypeOK
<1>5. answer' \subseteq issued /\ pending' \subseteq issued /\ missed' \subseteq issued
  BY <1>t, <1>2 DEF TypeOK, Once
<1>6. TypeOK'
  <2>1. pos' \in DOMAIN shelves' /\ poller' \in PollerState
    BY <1>t, <1>1 DEF TypeOK, processVars, PollerState
  <2> QED
    BY <1>t, <1>1, <1>3, <1>4, <1>5, <2>1
    DEF TypeOK, processVars, registrarVars, timeVars
<1>7. Serving'
  BY <1>t, <1>1 DEF Serving, processVars
<1>8. Once'
  BY <1>t, <1>1, <1>2, <1>3, <1>5 DEF Once
<1> QED
  BY <1>6, <1>7, <1>8 DEF IInv

\* What is forwarded comes from a good answer.
LEMMA WokenHandled ==
  ASSUME IInv, PollReply
  PROVE  woken' \subseteq Handled /\ Handled \subseteq answer
  BY DEF PollReply, SendWake, Handled

LEMMA PollReplyIInv ==
  ASSUME IInv, PollReply
  PROVE  IInv'
<1>t. TypeOK /\ Serving /\ Once
  BY DEF IInv
<1>1. /\ up /\ poller = "reply" /\ reply' = "none"
      /\ spent' = spent \cup (woken' \ pending)
      /\ UNCHANGED <<processVars, registrarVars, reachable, rows, commandVars,
                     timeVars, changes>>
  BY DEF PollReply
<1>2. woken' \subseteq issued
  BY <1>t, WokenHandled DEF Once
<1>3. missed' \subseteq issued
  BY <1>t DEF TypeOK, Once, PollReply, SendWake, Handled
<1>4. faults' \in 0..MaxFaults
  BY <1>t, EnvironmentAssumption DEF TypeOK, PollReply, SendWake, Fault
<1>5. /\ poller' \in {"ask", "wait"} /\ answer' \subseteq answer
      /\ pos' \in Nat \ {0}
      /\ poller' = "ask" => pos' \in DOMAIN shelves
      /\ poller' # "ask" => pos' = 1
  <2>1. CASE TickGoesOn
    <3>1. pos \in Nat /\ pos < Len(shelves) /\ Len(shelves) \in Nat
      BY <1>t, <2>1 DEF TypeOK, TickGoesOn
    <3>2. poller' = "ask" /\ pos' = pos + 1 /\ answer' = answer
      BY <2>1 DEF PollReply
    <3>3. DOMAIN shelves = 1..Len(shelves)
      BY <1>t DEF TypeOK
    <3> QED
      BY <3>1, <3>2, <3>3
  <2>2. CASE ~TickGoesOn
    BY <2>2 DEF PollReply
  <2> QED
    BY <2>1, <2>2
<1>6. TypeOK'
  BY <1>t, <1>1, <1>2, <1>3, <1>4, <1>5
  DEF TypeOK, Once, processVars, registrarVars, commandVars, timeVars,
      PollerState, Replies
<1>7. Serving'
  BY <1>t, <1>1, <1>5 DEF Serving, processVars
<1>8. Once'
  BY <1>t, <1>1, <1>5 DEF Once, commandVars
<1> QED
  BY <1>6, <1>7, <1>8 DEF IInv

LEMMA PollWaitIInv ==
  ASSUME IInv, PollWait
  PROVE  IInv'
<1>t. TypeOK /\ Serving /\ Once
  BY DEF IInv
<1>1. pos = 1 /\ 1 \in DOMAIN shelves
  BY <1>t DEF TypeOK, Serving, PollWait
<1>2. TypeOK'
  BY <1>t, <1>1
  DEF TypeOK, PollWait, PollerState, processVars, registrarVars, commandVars,
      timeVars
<1>3. Serving' /\ Once'
  BY <1>t, <1>1 DEF Serving, Once, PollWait, processVars, commandVars
<1> QED
  BY <1>2, <1>3 DEF IInv

\* A start has at least one shelf; an end leaves no task.
LEMMA ProcessIInv ==
  ASSUME IInv, Process
  PROVE  IInv'
<1>t. TypeOK /\ Serving /\ Once
  BY DEF IInv
<1>1. CASE Start
  <2>1. shelves' \in Seq(Shelf) /\ shelves' # <<>>
    BY <1>t, <1>1, ShelvesType DEF TypeOK, Start, ConfigError
  <2>2. delay' \in 1..BackoffCap /\ left' \in 0..BackoffCap
    BY <1>1, TimeAssumption DEF Start
  <2>3. TypeOK'
    BY <1>t, <1>1, <2>1, <2>2
    DEF TypeOK, Start, RegistrarState, PollerState, commandVars, timeVars
  <2>4. Serving' /\ Once'
    BY <1>t, <1>1, <2>1 DEF TypeOK, Serving, Once, Start, commandVars
  <2> QED
    BY <2>3, <2>4 DEF IInv
<1>2. CASE Signal
  BY <1>t, <1>2
  DEF IInv, TypeOK, Serving, Once, Signal, registrarVars, pollerVars, commandVars,
      timeVars
<1>3. CASE Exit \/ Crash
  <2>1. Gone /\ UNCHANGED <<spent, reachable, rows, commandVars, timeVars, changes>>
    BY <1>3 DEF Exit, Crash
  <2>2. faults' \in 0..MaxFaults
    BY <1>t, <1>3, EnvironmentAssumption DEF TypeOK, Exit, Crash, Fault
  <2>3. missed' \subseteq issued
    BY <1>t, <1>3 DEF TypeOK, Once, Exit, Crash, Handled
  <2>4. delay' \in 1..BackoffCap /\ left' \in 0..BackoffCap
    BY <2>1, TimeAssumption DEF Gone
  <2>5. shelves' \in Seq(Shelf)
    BY <2>1 DEF Gone
  <2>6. TypeOK'
    <3>1. up' \in BOOLEAN /\ stop' \in BOOLEAN /\ rejected' \in BOOLEAN
      BY <2>1, Zenon DEF Gone
    <3>2. /\ registrar' \in RegistrarState /\ poller' \in PollerState
          /\ pos' \in Nat \ {0} /\ reply' \in Replies
      BY <2>1 DEF Gone, RegistrarState, PollerState, Replies
    <3>3. /\ poller' \notin {"ask", "reply"}
          /\ poller' = "off" /\ registrar' = "none"
      BY <2>1 DEF Gone
    <3>4. answer' \subseteq Command /\ woken' \subseteq Command /\ file' = file
      BY <2>1 DEF Gone
    <3> QED
      BY <1>t, <2>1, <2>2, <2>3, <2>4, <2>5, <3>1, <3>2, <3>3, <3>4
      DEF TypeOK, commandVars, timeVars
  <2>7. Serving' /\ Once'
    BY <1>t, <2>1 DEF Serving, Once, Gone, commandVars
  <2> QED
    BY <2>6, <2>7 DEF IInv
<1> QED
  BY <1>1, <1>2, <1>3 DEF Process

\* The environment does not touch the poller, and a command it issues is new.
LEMMA EnvironmentIInv ==
  ASSUME IInv, Environment
  PROVE  IInv'
<1>t. TypeOK /\ Serving /\ Once
  BY DEF IInv
<1>1. CASE Provision \/ Reset
  <2>1. file' \in Shelf \cup {None} /\ changes' \in 0..MaxChanges
    BY <1>t, <1>1, ShelfAssumption, EnvironmentAssumption
    DEF TypeOK, Provision, Reset, Change
  <2>2. UNCHANGED <<envUnchanged, left, reachable, rows, commandVars, timeVars,
                    faults>>
    BY <1>1 DEF Provision, Reset
  <2> QED
    BY <1>t, <2>1, <2>2
    DEF IInv, TypeOK, Serving, Once, envUnchanged, pollerVars, commandVars, timeVars
<1>2. CASE Outage \/ Return \/ LoseRow
  <2>1. reachable' \in BOOLEAN /\ rows' \subseteq Shelf
    BY <1>t, <1>2 DEF TypeOK, Outage, Return, LoseRow
  <2>3. changes' \in 0..MaxChanges
    BY <1>t, <1>2, EnvironmentAssumption
    DEF TypeOK, Outage, Return, LoseRow, Change
  <2>2. UNCHANGED <<envUnchanged, file, left, commandVars, timeVars, faults>>
    BY <1>2 DEF Outage, Return, LoseRow
  <2> QED
    BY <1>t, <2>1, <2>2, <2>3
    DEF IInv, TypeOK, Serving, Once, envUnchanged, pollerVars, commandVars, timeVars
<1>3. ASSUME NEW c \in Command, Issue(c) PROVE IInv'
  BY <1>t, <1>3
  DEF IInv, TypeOK, Serving, Once, Issue, envUnchanged, pollerVars, timeVars
<1>4. CASE Tick \/ SetClock
  <2>1. now' \in 0..Horizon /\ left' \in 0..BackoffCap /\ lag' \in 0..MaxLag
    BY <1>t, <1>4, TimeAssumption DEF TypeOK, Tick, SetClock
  <2>2. UNCHANGED <<envUnchanged, file, reachable, rows, commandVars, changes,
                    faults>>
    BY <1>4 DEF Tick, SetClock
  <2> QED
    BY <1>t, <2>1, <2>2
    DEF IInv, TypeOK, Serving, Once, envUnchanged, pollerVars, commandVars
<1> QED
  BY <1>1, <1>2, <1>3, <1>4 DEF Environment

\* Every step keeps the invariant.
LEMMA NextIInv == IInv /\ [Next]_vars => IInv'
<1> SUFFICES ASSUME IInv, [Next]_vars PROVE IInv'
  OBVIOUS
<1>1. CASE UNCHANGED vars
  BY <1>1
  DEF IInv, TypeOK, Serving, Once, vars, processVars, registrarVars, pollerVars,
      commandVars, timeVars
<1> QED
  BY <1>1, RegistrarIInv, PollAskIInv, PollReplyIInv, PollWaitIInv, ProcessIInv,
     EnvironmentIInv
  DEF Next, Poller

-----------------------------------------------------------------------------
\* The invariant holds in every state of Process B's workers.
THEOREM Invariance == Spec => []IInv
  BY InitIInv, NextIInv, PTL DEF Spec

\* Types: only a running process has tasks, the poller asks about a shelf it
\* serves, and the registrar's delay stays between its first value and the cap.
THEOREM TypeCorrect == Spec => []TypeOK
<1>1. IInv => TypeOK
  BY DEF IInv
<1> QED
  BY <1>1, Invariance, PTL

\* Only the poller's own step and the end of the process leave "reply", and the
\* latter forwards nothing.
LEMMA ReplyStep ==
  ASSUME TypeOK, [Next]_vars, poller = "reply", poller' # "reply"
  PROVE  PollReply \/ woken' = {}
<1>1. CASE Registrar
  BY <1>1 DEF Registrar, Register, RegistrarWakes, pollerVars
<1>2. CASE Poller
  BY <1>2 DEF Poller, PollAsk, PollWait
<1>3. CASE Process
  BY <1>3 DEF TypeOK, Process, Start, Signal, Exit, Crash, Gone, pollerVars
<1>4. CASE Environment
  BY <1>4
  DEF Environment, Provision, Reset, Outage, Return, LoseRow, Issue, Tick,
      SetClock, envUnchanged, pollerVars
<1>5. CASE UNCHANGED vars
  BY <1>5 DEF vars, pollerVars
<1> QED
  BY <1>1, <1>2, <1>3, <1>4, <1>5 DEF Next

\* A wake handed out for good is forwarded at most once: an answer contains
\* nothing of what was forwarded before, and a failure is followed by nothing.
THEOREM WakeForwardedOnce == Spec => WakeOnce
<1> DEFINE New ==
      poller = "reply" /\ poller' # "reply" => woken' \cap spent = {}
<1>1. IInv /\ [Next]_vars => [New]_vars
  <2> SUFFICES ASSUME IInv, [Next]_vars, poller = "reply", poller' # "reply"
               PROVE  woken' \cap spent = {}
    OBVIOUS
  <2>1. CASE PollReply
    <3>1. reply = "ok" => answer \cap spent = {}
      BY DEF IInv, Once
    <3>2. reply # "ok" => Handled = {}
      BY DEF Handled
    <3> QED
      BY <2>1, <3>1, <3>2, WokenHandled
  <2> QED
    BY <2>1, ReplyStep DEF IInv
<1> QED
  BY <1>1, Invariance, PTL DEF Spec, WakeOnce

-----------------------------------------------------------------------------
(* The poller implements WakeDelivery *)

\* What a command's stage depends on.
LEMMA StageKept ==
  ASSUME UNCHANGED <<issued, pending, spent, answer, reply>>
  PROVE  UNCHANGED [c \in Command |-> StageOf(c)]
  BY DEF StageOf, Carried, Handled

\* Only while a good answer is at hand is anything carried.
LEMMA NothingCarried ==
  ASSUME IInv, poller # "reply"
  PROVE  Handled = {} /\ \A c \in Command : StageOf(c) # "carried"
  BY DEF IInv, Once, Handled, Carried, StageOf

LEMMA IssueDelivers ==
  ASSUME IInv, NEW c \in Command, Issue(c)
  PROVE  Delivery!Issue
<1>1. c \notin issued /\ issued' = issued \cup {c} /\ pending' = pending \cup {c}
  BY DEF Issue
<1>2. UNCHANGED <<spent, answer, reply, woken>>
  BY DEF Issue, envUnchanged, pollerVars
<1>3. StageOf(c) = "new" /\ StageOf(c)' = "queued"
  <2>1. c \in issued' /\ c \in pending'
    BY <1>1
  <2>2. c \notin pending /\ c \notin spent /\ c \notin Handled
    BY <1>1 DEF IInv, TypeOK, Once, Handled
  <2>3. StageOf(c) = "new"
    BY <1>1, <2>2 DEF StageOf, Carried
  <2>4. StageOf(c)' = "queued"
    BY <1>2, <2>1, <2>2 DEF StageOf, Carried
  <2> QED
    BY <2>3, <2>4
<1>4. ASSUME NEW d \in Command, d # c PROVE StageOf(d)' = StageOf(d)
  BY <1>1, <1>2, <1>4 DEF StageOf, Carried, Handled
<1> QED
  BY <1>2, <1>3, <1>4 DEF Delivery!Issue

LEMMA PollAskDelivers ==
  ASSUME IInv, PollAsk
  PROVE  Delivery!HandOut
<1>t. TypeOK /\ Once
  BY DEF IInv
<1> PICK wire \in Wire, gone \in {{}, Available} :
         /\ reply' = Outcome(wire)
         /\ answer' = IF wire = "2xx" THEN Available ELSE answer
         /\ pending' = pending \ gone
  BY DEF PollAsk
<1>1. poller = "ask" /\ woken' = {} /\ UNCHANGED <<issued, spent>>
  BY DEF PollAsk
<1>2. Available \subseteq pending /\ gone \subseteq pending /\ pending \subseteq Command
  BY <1>t DEF Available, TypeOK
<1>3. Handled = {} /\ \A c \in Command : StageOf(c) # "carried"
  BY <1>1, NothingCarried
<1>4. Handled' = IF wire = "2xx" THEN Available ELSE {}
  BY OutcomeType DEF Handled, Outcome
<1> DEFINE to == IF wire = "2xx" THEN "carried" ELSE "dropped"
<1>5. ASSUME NEW c \in gone PROVE StageOf(c) = "queued" /\ StageOf(c)' = to
  <2>1. c \in pending /\ c \in issued /\ c \notin spent /\ c \notin pending'
    BY <1>t, <1>2 DEF TypeOK, Once
  <2>2. c \in Available
    OBVIOUS
  <2> QED
    BY <2>1, <2>2, <1>1, <1>4 DEF StageOf, Carried
<1>6. ASSUME NEW c \in Command, c \notin gone PROVE StageOf(c)' = StageOf(c)
  <2>1. c \in pending' <=> c \in pending
    BY <1>6
  <2>2. c \notin pending => c \notin Handled' /\ c \notin Handled
    BY <1>2, <1>3, <1>4
  <2> QED
    BY <2>1, <2>2, <1>1 DEF StageOf, Carried
<1>7. gone \in SUBSET Command /\ to \in {"carried", "dropped"}
  BY <1>2
<1>8. [c \in Command |-> StageOf(c)]'
        = [c \in Command |-> IF c \in gone THEN to ELSE StageOf(c)]
  BY <1>5, <1>6
<1> QED
  BY <1>1, <1>2, <1>3, <1>5, <1>7, <1>8 DEF Delivery!HandOut

\* The end of an answer, whatever ends it, settles all that it carries.
LEMMA AnswerEnds ==
  ASSUME IInv, woken' \subseteq Handled \cap Wake,
         Handled' = {}, UNCHANGED <<issued, pending>>,
         spent' = spent \cup (woken' \ pending)
  PROVE  Delivery!Handle
<1>1. Handled \subseteq issued /\ Handled \cap spent = {} /\ issued \subseteq Command
      /\ spent \subseteq issued /\ spent \cap pending = {} /\ pending \subseteq issued
  BY DEF IInv, TypeOK, Once, Handled
<1>2. ASSUME NEW c \in woken'
      PROVE  c \in Command /\ StageOf(c) \in {"queued", "carried"}
  BY <1>1 DEF StageOf, Carried
<1>3. ASSUME NEW c \in Command
      PROVE  StageOf(c)' = IF StageOf(c) # "carried" THEN StageOf(c)
                           ELSE IF c \in woken' THEN "delivered" ELSE "dropped"
  <2>1. CASE c \in Carried
    <3>1. StageOf(c) = "carried"
      BY <1>1, <2>1 DEF StageOf, Carried
    <3>2. StageOf(c)' = IF c \in woken' THEN "delivered" ELSE "dropped"
      BY <1>1, <2>1 DEF StageOf, Carried
    <3> QED
      BY <3>1, <3>2
  <2>2. CASE c \notin Carried
    <3>1. StageOf(c) # "carried"
      BY <2>2 DEF StageOf
    <3>2. c \in spent' <=> c \in spent
      BY <1>1, <2>2 DEF Carried
    <3> QED
      BY <2>2, <3>1, <3>2 DEF StageOf, Carried
  <2> QED
    BY <2>1, <2>2
<1>4. [c \in Command |-> StageOf(c)]'
        = [c \in Command |-> IF StageOf(c) # "carried" THEN StageOf(c)
                             ELSE IF c \in woken' THEN "delivered" ELSE "dropped"]
  BY <1>3
<1> QED
  BY <1>2, <1>4 DEF Delivery!Handle

\* Every step is a step of WakeDelivery or leaves it alone.
LEMMA DeliveryStep == IInv /\ [Next]_vars => [Delivery!Next]_(Delivery!vars)
<1> SUFFICES ASSUME IInv, [Next]_vars
             PROVE  Delivery!Next \/ UNCHANGED Delivery!vars
  OBVIOUS
<1>1. ASSUME UNCHANGED <<issued, pending, spent, answer, reply, woken>>
      PROVE  UNCHANGED Delivery!vars
  BY <1>1, StageKept DEF Delivery!vars
<1>2. CASE UNCHANGED vars \/ Registrar
  BY <1>1, <1>2
  DEF vars, Registrar, Register, RegistrarWakes, pollerVars, commandVars
<1>3. CASE PollAsk
  BY <1>3, PollAskDelivers DEF Delivery!Next
<1>4. CASE PollReply
  <2>1. UNCHANGED <<issued, pending>> /\ Handled' = {}
        /\ woken' \subseteq Handled \cap Wake
        /\ spent' = spent \cup (woken' \ pending)
    BY <1>4 DEF PollReply, SendWake, commandVars, Handled
  <2> QED
    BY <2>1, AnswerEnds DEF Delivery!Next
<1>5. CASE PollWait \/ Exit \/ Crash
  <2>1. UNCHANGED <<issued, pending, spent>> /\ woken' = {}
    BY <1>5 DEF PollWait, Exit, Crash, Gone, commandVars
  <2>2. Handled' = {}
    BY <1>5, NothingCarried DEF PollWait, Exit, Crash, Gone, Handled
  <2> QED
    BY <2>1, <2>2, AnswerEnds DEF Delivery!Next
<1>6. CASE Start \/ Signal
  BY <1>1, <1>6 DEF Start, Signal, pollerVars, commandVars
<1>7. ASSUME NEW c \in Command, Issue(c) PROVE Delivery!Next
  BY <1>7, IssueDelivers DEF Delivery!Next
<1>8. CASE Provision \/ Reset \/ Outage \/ Return \/ LoseRow \/ Tick \/ SetClock
  BY <1>1, <1>8
  DEF Provision, Reset, Outage, Return, LoseRow, Tick, SetClock, envUnchanged,
      pollerVars, commandVars
<1> QED
  BY <1>2, <1>3, <1>4, <1>5, <1>6, <1>7, <1>8
  DEF Next, Poller, Process, Environment

\* At most once: Process B's poller implements WakeDelivery, however requests
\* end and wherever the process is killed and started again.
THEOREM DeliveryKept == Spec => DeliversOnce
<1>1. Init => Delivery!Init
  <2> SUFFICES ASSUME Init PROVE Delivery!Init
    OBVIOUS
  <2>1. issued = {} /\ pending = {} /\ spent = {} /\ Handled = {} /\ woken = {}
    BY DEF Init, Handled
  <2>2. \A c \in Command : StageOf(c) = "new"
    BY <2>1 DEF StageOf, Carried
  <2> QED
    BY <2>1, <2>2 DEF Delivery!Init
<1> QED
  BY <1>1, InitIInv, NextIInv, DeliveryStep, Invariance, PTL
  DEF Spec, DeliversOnce, Delivery!Spec
=============================================================================
