------------------------------ MODULE Workers ------------------------------
(***************************************************************************)
(* Process B's two other workers and the task group around them: the        *)
(* command poller, which forwards wakes to Process A, and the registrar,    *)
(* which tells the backend whose shelf this is.  They share stop_event and  *)
(* the HTTP client with the outbox (module Outbox) and nothing else.        *)
(*                                                                          *)
(* A unit of time is _BACKOFF_INITIAL_SEC.  An identity written by Process  *)
(* C is named by its shelf; its user comes with it.                         *)
(***************************************************************************)
EXTENDS Integers, Sequences, BackendClient

CONSTANTS
  Shelf,         \* the shelf ids
  Identity,      \* those that Process C mints
  EnvShelves,    \* SHELF_IDS, a sequence; empty when not set
  Sick,          \* shelves whose requests the backend always fails
  Command,       \* the commands the backend's users give
  Target,        \* Target[c]: the shelf c is for
  Wake,          \* those whose type is "wake"
  Expires,       \* Expires[c]: expires_at, or Unparseable
  Unparseable,
  Horizon,       \* bound on the time; what expires later never does
  MaxLag,        \* how far the Pi's clock may be behind before it is set
  BackoffCap,    \* _BACKOFF_CAP_SEC
  BackoffFactor, \* _BACKOFF_FACTOR
  None,          \* no device.json
  MaxChanges,    \* bound on resets, outages and rows the backend loses
  MaxFaults      \* bound on everything else that goes wrong

ASSUME ShelfAssumption ==
  /\ EnvShelves \in Seq(Shelf)
  /\ Sick \subseteq Shelf /\ Identity \subseteq Shelf
  /\ None \notin Shelf
ASSUME CommandAssumption ==
  /\ Target \in [Command -> Shelf]
  /\ Wake \subseteq Command
  /\ Expires \in [Command -> Nat \cup {Unparseable}]
  /\ Unparseable \notin Nat
ASSUME TimeAssumption ==
  /\ Horizon \in Nat /\ MaxLag \in Nat
  /\ BackoffCap \in Nat \ {0} /\ BackoffFactor \in Nat \ {0}
ASSUME EnvironmentAssumption == MaxChanges \in Nat /\ MaxFaults \in Nat

VARIABLES
  up,         \* whether Process B runs
  stop,       \* stop_event
  file,       \* device.json
  shelves,    \* cfg.shelf_ids
  registrar,  \* where the registrar is; "none" without a user_id
  delay,      \* its next delay
  left,       \* what is left of its sleep
  poller,     \* where the poller is
  pos,        \* the position in shelves of the shelf it is at
  reply,      \* what get_commands returns or raises
  answer,     \* commands, the local variable of _poll_once
  woken,      \* the wakes the poller's last step forwarded
  reachable,  \* whether the backend can be reached
  rows,       \* backend: the shelves it knows with their user
  issued,     \* backend: commands given so far
  pending,    \* backend: those not yet handed out for good
  now, lag,   \* true time, and how far the Pi's clock is behind
  rejected,   \* history: a registration was refused since the last start
  missed,     \* history: commands handed out but lost on the way
  spent,      \* history: wakes handed out for good and forwarded
  changes, faults

processVars   == <<up, stop, file, shelves>>
registrarVars == <<registrar, delay, left, rejected>>
pollerVars    == <<poller, pos, reply, answer, woken, missed, spent>>
commandVars   == <<issued, pending>>
timeVars      == <<now, lag>>
vars == <<processVars, registrarVars, pollerVars, reachable, rows, commandVars,
          timeVars, changes, faults>>

RegistrarState == {"none", "ask", "sleep", "registered", "refused", "stopped"}
PollerState == {"off", "wait", "ask", "reply", "done"}

-----------------------------------------------------------------------------
(* Operators *)

Fault == faults < MaxFaults /\ faults' = faults + 1
Change == changes < MaxChanges /\ changes' = changes + 1

\* How an exchange about shelf s may end: a failure that is not the sick
\* shelf's own or the missing network's takes one of the faults.
Exchange(s, wire) ==
  IF ~reachable THEN wire = "no response" /\ UNCHANGED faults
  ELSE IF s \in Sick THEN wire \in {"4xx", "5xx"} /\ UNCHANGED faults
  ELSE IF wire = "2xx" THEN UNCHANGED faults
  ELSE Fault

\* The backend may have acted on a request although the client sees a failure.
MayHaveActed(wire) ==
  reachable /\ wire \in {"2xx malformed", "no response", "other error"}

\* Config.from_env: device.json wins over SHELF_IDS
ShelvesFrom(f) == IF f = None THEN EnvShelves ELSE <<f>>

\* what ends the process with exit code 2; Process C never writes a device.json
\* that cannot be read
ConfigError(f) == ShelvesFrom(f) = <<>>

\* (variant for a mutant) The lag of the clock on the wrong side.
IsExpiredEarly(c) == Expires[c] # Unparseable /\ Expires[c] <= now + lag

\* _is_expired, on the Pi's clock; what cannot be parsed is live
IsExpired(c) == Expires[c] # Unparseable /\ Expires[c] <= now - lag

\* the backend's own filter, on the true time
Live(c) == Expires[c] # Unparseable => now < Expires[c]

-----------------------------------------------------------------------------
(* The registrar: register_with_backoff *)

\* (variant for a mutant) An exception nobody thought of ends the task.
AfterTryOnlyTransient(outcome) ==
  CASE outcome = "ok"         -> "registered"
    [] outcome = "permanent" -> "refused"
    [] outcome = "transient" -> "sleep"
    [] outcome = "unexpected" -> "refused"

AfterTry(outcome) ==
  CASE outcome = "ok"        -> "registered"
    [] outcome = "permanent" -> "refused"
    [] outcome \in {"transient", "unexpected"} -> "sleep"

\* the loop's condition, and one register_shelf
Register ==
  /\ up /\ registrar = "ask"
  /\ IF stop
       THEN /\ registrar' = "stopped" /\ delay' = 1
            /\ UNCHANGED <<left, rejected, rows, faults>>
       ELSE \E wire \in Wire :
              /\ Exchange(shelves[1], wire)
              /\ registrar' = AfterTry(Outcome(wire))
              /\ IF AfterTry(Outcome(wire)) = "sleep"
                   THEN left' = delay /\ UNCHANGED delay
                   ELSE left' = 0 /\ delay' = 1
              /\ rejected' = (rejected \/ wire \in Refusal)
              /\ \E acted \in BOOLEAN :
                   /\ wire = "2xx" => acted
                   /\ acted => wire = "2xx" \/ MayHaveActed(wire)
                   /\ rows' = IF acted THEN rows \cup {shelves[1]} ELSE rows
  /\ UNCHANGED <<processVars, pollerVars, reachable, commandVars, timeVars,
                 changes>>

\* (variant for a mutant) No cap.
NextDelayUncapped(d) == d * BackoffFactor

\* min(delay * _BACKOFF_FACTOR, _BACKOFF_CAP_SEC)
NextDelay(d) ==
  IF d * BackoffFactor < BackoffCap THEN d * BackoffFactor ELSE BackoffCap

\* (variant for a mutant) A sleep that stop_event does not end.
SleepStoppedNot == FALSE

\* _sleep_or_stop returns True
SleepStopped == stop

RegistrarWakes ==
  /\ up /\ registrar = "sleep"
  /\ \/ SleepStopped /\ registrar' = "stopped" /\ delay' = 1
     \/ left = 0 /\ registrar' = "ask" /\ delay' = NextDelay(delay)
  /\ left' = 0
  /\ UNCHANGED <<processVars, rejected, pollerVars, reachable, rows,
                 commandVars, timeVars, changes, faults>>

-----------------------------------------------------------------------------
(* The poller: run_poller, _poll_once and _handle_command *)

Here == shelves[pos]

\* what the backend has for the shelf the poller is at
Available == {c \in pending : Target[c] = Here /\ Live(c)}

\* get_commands: the backend hands the commands out, and keeps those it means
\* to hand out again
PollAsk ==
  /\ up /\ poller = "ask"
  /\ \E wire \in Wire, gone \in {{}, Available} :
       /\ Exchange(Here, wire)
       /\ gone # {} => wire = "2xx" \/ MayHaveActed(wire)
       /\ reply' = Outcome(wire)
       /\ answer' = IF wire = "2xx" THEN Available ELSE answer
       /\ pending' = pending \ gone
       /\ missed' = IF wire = "2xx" THEN missed ELSE missed \cup gone
  /\ poller' = "reply" /\ woken' = {}
  /\ UNCHANGED <<processVars, registrarVars, pos, reachable, rows, issued, spent,
                 timeVars, changes>>

\* (variant for a mutant) A failure does not continue with the next shelf.
HandledAnyway == answer

\* what the loop over the commands sees: after an exception it is skipped,
\* although the variable still holds those of an earlier shelf
Handled == IF reply = "ok" THEN answer ELSE {}

\* (variant for a mutant) A failure of one shelf ends the tick.
TickGoesOnAfterSuccess == reply = "ok" /\ pos < Len(shelves)

\* Both exceptions of the client are caught for each shelf; any other leaves
\* _poll_once.
TickGoesOn == reply # "unexpected" /\ pos < Len(shelves)

\* send_wake, for each of them; it swallows the error of a failed sendto
SendWake(wakes) ==
  \/ woken' = wakes /\ UNCHANGED <<missed, faults>>
  \/ /\ wakes # {} /\ Fault
     /\ woken' = {} /\ missed' = missed \cup wakes

\* each command is handled: all but live wakes are dropped
PollReply ==
  /\ up /\ poller = "reply"
  /\ SendWake({c \in Handled \cap Wake : ~IsExpired(c)})
  /\ spent' = spent \cup (woken' \ pending)
  /\ IF TickGoesOn
       THEN poller' = "ask" /\ pos' = pos + 1 /\ UNCHANGED answer
       ELSE poller' = "wait" /\ pos' = 1 /\ answer' = {}
  /\ reply' = "none"
  /\ UNCHANGED <<processVars, registrarVars, reachable, rows, commandVars,
                 timeVars, changes>>

\* the wait for stop_event or the interval, and the loop's condition
PollWait ==
  /\ up /\ poller = "wait"
  /\ poller' = IF stop THEN "done" ELSE "ask"
  /\ woken' = {}
  /\ UNCHANGED <<processVars, registrarVars, pos, reply, answer, missed,
                 spent, reachable, rows, commandVars, timeVars, changes, faults>>

-----------------------------------------------------------------------------
(* The process: run, main and _run_workers *)

Start ==
  /\ ~up /\ ~ConfigError(file)
  /\ up' = TRUE /\ stop' = FALSE
  /\ shelves' = ShelvesFrom(file)
  /\ registrar' = IF file = None THEN "none" ELSE "ask"
  /\ delay' = 1 /\ left' = 0 /\ rejected' = FALSE
  /\ poller' = "wait"
  /\ UNCHANGED <<file, pos, reply, answer, woken, missed, spent, reachable,
                 rows, commandVars, timeVars, changes, faults>>

Signal ==
  /\ up /\ ~stop
  /\ stop' = TRUE
  /\ UNCHANGED <<up, file, shelves, registrarVars, pollerVars, reachable, rows,
                 commandVars, timeVars, changes, faults>>

\* what every end of the process leaves
Gone ==
  /\ up' = FALSE /\ stop' = FALSE /\ shelves' = <<>>
  /\ registrar' = "none" /\ delay' = 1 /\ left' = 0 /\ rejected' = FALSE
  /\ poller' = "off" /\ pos' = 1 /\ reply' = "none"
  /\ answer' = {} /\ woken' = {}
  /\ UNCHANGED file

\* the task group is left when every task has ended
Exit ==
  /\ up /\ poller = "done" /\ registrar \notin {"ask", "sleep"}
  /\ Gone
  /\ UNCHANGED <<missed, spent, reachable, rows, commandVars, timeVars,
                 changes, faults>>

Crash ==
  /\ up /\ Fault
  /\ Gone
  /\ missed' = missed \cup (Handled \ pending)
  /\ UNCHANGED <<spent, reachable, rows, commandVars, timeVars, changes>>

-----------------------------------------------------------------------------
(* The environment *)

envUnchanged == <<up, stop, shelves, registrar, delay, rejected, pollerVars>>

\* Process C writes or deletes device.json, whether Process B runs or not.
Provision ==
  /\ file = None
  /\ \E s \in Identity : file' = s
  /\ UNCHANGED <<envUnchanged, left, reachable, rows, commandVars, timeVars,
                 changes, faults>>

Reset ==
  /\ file # None /\ Change
  /\ file' = None
  /\ UNCHANGED <<envUnchanged, left, reachable, rows, commandVars, timeVars,
                 faults>>

Outage ==
  /\ reachable /\ Change
  /\ reachable' = FALSE
  /\ UNCHANGED <<envUnchanged, file, left, rows, commandVars, timeVars, faults>>

Return ==
  /\ ~reachable
  /\ reachable' = TRUE
  /\ UNCHANGED <<envUnchanged, file, left, rows, commandVars, timeVars, changes,
                 faults>>

LoseRow ==
  /\ Change
  /\ \E s \in rows : rows' = rows \ {s}
  /\ UNCHANGED <<envUnchanged, file, left, reachable, commandVars, timeVars,
                 faults>>

Issue(c) ==
  /\ c \notin issued /\ Live(c)
  /\ issued' = issued \cup {c} /\ pending' = pending \cup {c}
  /\ UNCHANGED <<envUnchanged, file, left, reachable, rows, timeVars, changes,
                 faults>>

\* Time passes for the sleep and for the commands.
Tick ==
  /\ now' = IF now < Horizon THEN now + 1 ELSE now
  /\ left' = IF left > 0 THEN left - 1 ELSE 0
  /\ UNCHANGED <<envUnchanged, file, reachable, rows, commandVars, lag, changes,
                 faults>>

\* The Pi has no clock of its own: NTP sets it when the network is there.
SetClock ==
  /\ reachable /\ lag # 0
  /\ lag' = 0
  /\ UNCHANGED <<envUnchanged, file, left, reachable, rows, commandVars, now,
                 changes, faults>>

-----------------------------------------------------------------------------
Init ==
  /\ up = FALSE /\ stop = FALSE /\ shelves = <<>>
  /\ file = None
  /\ registrar = "none" /\ delay = 1 /\ left = 0 /\ rejected = FALSE
  /\ poller = "off" /\ pos = 1 /\ reply = "none"
  /\ answer = {} /\ woken = {} /\ missed = {} /\ spent = {}
  /\ reachable \in BOOLEAN /\ rows = {}
  /\ issued = {} /\ pending = {}
  /\ now = 0 /\ lag \in 0..MaxLag
  /\ changes = 0 /\ faults = 0

Registrar == Register \/ RegistrarWakes
Poller == PollAsk \/ PollReply \/ PollWait
Process == Start \/ Signal \/ Exit \/ Crash
Environment ==
  \/ Provision \/ Reset \/ Outage \/ Return \/ LoseRow
  \/ \E c \in Command : Issue(c)
  \/ Tick \/ SetClock

Next == Registrar \/ Poller \/ Process \/ Environment

Spec == Init /\ [][Next]_vars

\* The event loop runs every ready task and httpx bounds every request.  That
\* time passes is not assumed: stopping must not need it.
Fairness ==
  /\ WF_vars(Registrar)
  /\ WF_vars(Poller)
  /\ WF_vars(Exit)

FairSpec == Spec /\ Fairness

TimePasses == WF_vars(Tick)

-----------------------------------------------------------------------------
(* Properties *)

\* Types; only a process that runs has tasks, and the registrar's delay never
\* passes the cap, which is no power of the factor.
TypeOK ==
  /\ up \in BOOLEAN /\ stop \in BOOLEAN
  /\ file \in Shelf \cup {None}
  /\ shelves \in Seq(Shelf)
  /\ registrar \in RegistrarState /\ poller \in PollerState
  /\ delay \in 1..BackoffCap /\ left \in 0..BackoffCap
  /\ pos \in Nat \ {0}
  /\ poller \in {"ask", "reply"} => pos \in DOMAIN shelves
  /\ reply \in Replies
  /\ answer \subseteq Command /\ woken \subseteq Command
  /\ reachable \in BOOLEAN /\ rows \subseteq Shelf
  /\ pending \subseteq issued /\ issued \subseteq Command
  /\ now \in 0..Horizon /\ lag \in 0..MaxLag
  /\ rejected \in BOOLEAN /\ missed \subseteq issued /\ spent \subseteq issued
  /\ changes \in 0..MaxChanges /\ faults \in 0..MaxFaults
  /\ ~up => poller = "off" /\ registrar = "none"

\* A wake that the backend has handed out for good is forwarded at most once,
\* however the requests about the shelves that follow end, and whether the
\* process restarts.
WakeOnce ==
  [][poller = "reply" /\ poller' # "reply" => woken' \cap spent = {}]_vars

\* what the good answer at hand holds and the backend does not keep
Carried == Handled \ (pending \cup spent)

\* How far a command has got, as WakeDelivery sees it.
StageOf(c) ==
  CASE c \notin issued -> "new"
    [] c \in pending   -> "queued"
    [] c \in spent     -> "delivered"
    [] c \in Carried   -> "carried"
    [] OTHER           -> "dropped"

Delivery == INSTANCE WakeDelivery WITH
  stage <- [c \in Command |-> StageOf(c)]

\* The poller implements WakeDelivery: at-most-once delivery, as poller.py's
\* header calls it.  No command comes back from an answer that was lost, from a
\* failed datagram or from a crash, and none is forwarded that the answer at
\* hand does not hold.
DeliversOnce == Delivery!Spec

\* Per-shelf isolation, over time: when the network stays, a wake for a shelf the
\* process serves is forwarded in the end, whatever the other shelves answer,
\* unless the one answer or datagram that carried it was lost or it has expired
\* by the true time.  A clock that is behind and a timestamp that cannot be
\* parsed never make the poller drop one that is live.
WakeArrives ==
  <>[]reachable =>
    \A c \in Wake :
      Target[c] \notin Sick =>
        (c \in pending /\ up /\ \E i \in DOMAIN shelves : shelves[i] = Target[c])
          ~> (c \in woken \cup missed \/ ~Live(c) \/ stop \/ ~up)

\* Self-healing: when the network stays, every start of a provisioned Process B
\* ends with its shelf known to the backend, rows lost before included.  Only a
\* refusal by the backend, never a failure of transport, makes it give up.
ShelfRowHeals ==
  TimePasses /\ <>[]reachable =>
    ((registrar = "ask") ~>
       ((shelves # <<>> /\ shelves[1] \in rows) \/ rejected \/ stop \/ ~up))

\* After the signal every task ends and the process exits without waiting for a
\* backoff or a poll interval to pass.
ShutdownEnds == stop ~> ~up
=============================================================================
