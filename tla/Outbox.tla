------------------------------- MODULE Outbox -------------------------------
(***************************************************************************)
(* Process B's outbox: the UDP listener inserts readings, the drainer posts *)
(* them to the backend and deletes or marks them, and both share ONE        *)
(* aiosqlite connection.  A statement changes what that connection sees     *)
(* (db); a commit by EITHER task makes everything the connection has        *)
(* pending durable (disk).                                                  *)
(*                                                                          *)
(* A table is a function from the readings that have a row to the row's     *)
(* reject_count.                                                            *)
(***************************************************************************)
EXTENDS Integers, FiniteSets, BackendClient

CONSTANTS
  Reading,         \* the datagrams Process A sends, one reading_id each
  Valid,           \* those that parse and carry no sensor fault
  Shelf,           \* Shelf[r]: the shelf r belongs to, in ORDER BY order
  SampledAt,       \* SampledAt[r]: when r was sampled
  BatchSize,       \* DRAIN_BATCH_SIZE
  Threshold,       \* QUARANTINE_THRESHOLD
  BackoffInitial,  \* _BACKOFF_INITIAL_SEC
  BackoffCap,      \* _BACKOFF_CAP_SEC
  BackoffFactor,   \* _BACKOFF_FACTOR
  Sick,            \* shelves whose POSTs the backend always answers 5xx
  ErrorRollsBack,  \* whether a failing statement rolls the transaction back
  MaxGlitches,     \* bound on failed requests to shelves that are not sick
  MaxFaults        \* bound on crashes and database errors

ASSUME ReadingAssumption ==
  /\ Valid \subseteq Reading
  /\ Shelf \in [Reading -> Int]
  /\ SampledAt \in [Reading -> Int]
ASSUME ThresholdAssumption == Threshold \in Nat \ {0}
ASSUME BatchAssumption == BatchSize \in Int
ASSUME BackoffAssumption ==
  /\ BackoffInitial \in Nat \ {0}
  /\ BackoffFactor \in Nat \ {0}
  /\ BackoffCap \in Nat
  /\ BackoffInitial <= BackoffCap
ASSUME EnvironmentAssumption ==
  /\ ErrorRollsBack \in BOOLEAN
  /\ MaxGlitches \in Nat
  /\ MaxFaults \in Nat

VARIABLES
  process,    \* the interpreter: running, exited (graceful) or crashed
  stop,       \* stop_event
  listening,  \* whether the UDP transport is open
  task,       \* task[r]: the life of the _persist task of r
  db,         \* the table as the shared connection sees it
  disk,       \* the table as the next process would find it
  pc,         \* where the drainer is
  batch,      \* claimed readings whose group has not been settled this tick
  transient,  \* transient_seen
  backoff,    \* _BackoffState._current
  reply,      \* what post_telemetry returns or raises
  handled,    \* backend: readings it accepted or skipped for good
  acked,      \* history: readings of groups whose 2xx the drainer has seen
  refused,    \* history: refusals the backend has sent, per reading
  glitches,   \* failed requests so far
  faults      \* crashes and database errors so far

listenerVars == <<listening, task>>
drainerVars  == <<pc, batch, transient, backoff, reply>>
backendVars  == <<handled, acked, refused>>
budgetVars   == <<glitches, faults>>
vars == <<process, stop, listenerVars, db, disk, drainerVars, backendVars,
          budgetVars>>

-----------------------------------------------------------------------------
(* Operators *)

TaskState == {"unsent", "dropped", "execute", "commit", "persisted", "failed"}
InFlight  == {"execute", "commit"}

DrainerState == {"claim", "post", "answer", "delete", "bump", "commit",
                 "end", "raised", "sleep", "stopped"}

\* ORDER BY shelf_id, sampled_at
Before(q, r) == \/ Shelf[q] < Shelf[r]
                \/ Shelf[q] = Shelf[r] /\ SampledAt[q] < SampledAt[r]

\* (variants for mutants) Off by one; no filter at all.
ClaimableOffByOne(table) == {r \in DOMAIN table : table[r] <= Threshold}
ClaimableUnfiltered(table) == DOMAIN table

\* WHERE reject_count < QUARANTINE_THRESHOLD
Claimable(table) == {r \in DOMAIN table : table[r] < Threshold}

\* claim_batch: the first BatchSize claimable rows; ties are broken anyhow.
IsBatch(S, table) ==
  /\ S \subseteq Claimable(table)
  /\ Cardinality(S) <= BatchSize \/ S = {}
  /\ Cardinality(S) < BatchSize => S = Claimable(table)
  /\ \A r \in S, q \in Claimable(table) \ S : ~Before(q, r)

\* (variant for a mutant) Row by row, taken from the end of the shelf's list.
GroupPopped ==
  {r \in batch :
     \A q \in batch : Shelf[r] <= Shelf[q] /\ (Shelf[r] = Shelf[q] => ~Before(r, q))}

\* The rows arrive sorted, so the groups are posted in the order of the shelves.
Group == {r \in batch : \A q \in batch : Shelf[r] <= Shelf[q]}

\* (variants for mutants) The group is never taken off; one failure ends the tick.
RemainingKeepsGroup == batch
RemainingAborts == {}

\* the groups of the tick that come after the current one
Remaining == batch \ Group

\* _BackoffState.next_delay
NextDelay(current) ==
  IF current = 0 THEN BackoffInitial
  ELSE IF current * BackoffFactor < BackoffCap THEN current * BackoffFactor
  ELSE BackoffCap

\* the loop over the groups goes on or _drain_once returns
AfterGroup(rest) == IF rest = {} THEN "end" ELSE "post"

Parked(table) == {r \in DOMAIN table : table[r] >= Threshold}

-----------------------------------------------------------------------------
(* Database errors: the statement or the commit raises, nothing becomes      *)
(* durable, and SQLite keeps or rolls back what the connection has pending.  *)

DatabaseError ==
  /\ faults < MaxFaults
  /\ faults' = faults + 1
  /\ db' \in IF ErrorRollsBack THEN {db, disk} ELSE {db}
  /\ UNCHANGED <<disk, glitches>>

Commit == disk' = db /\ UNCHANGED <<db, budgetVars>>

-----------------------------------------------------------------------------
(* The listener: datagram_received, _persist and aclose *)

\* A valid datagram starts an insert; an invalid one or a sensor fault does not.
DatagramReceived(r) ==
  /\ process = "running" /\ listening
  /\ task[r] = "unsent"
  /\ task' = [task EXCEPT ![r] = IF r \in Valid THEN "execute" ELSE "dropped"]
  /\ UNCHANGED <<process, stop, listening, db, disk, drainerVars, backendVars,
                 budgetVars>>

\* insert_reading up to the end of its INSERT
InsertExecute(r) ==
  /\ process = "running"
  /\ task[r] = "execute"
  /\ db' = [q \in DOMAIN db \cup {r} |-> IF q = r THEN 0 ELSE db[q]]
  /\ task' = [task EXCEPT ![r] = "commit"]
  /\ UNCHANGED <<process, stop, listening, disk, drainerVars, backendVars,
                 budgetVars>>

\* the rest of insert_reading, and _persist's normal return
InsertCommit(r) ==
  /\ process = "running"
  /\ task[r] = "commit"
  /\ Commit
  /\ task' = [task EXCEPT ![r] = "persisted"]
  /\ UNCHANGED <<process, stop, listening, drainerVars, backendVars>>

\* (variant for a mutant) The insert is tried again.
AfterInsertErrorRetry == "execute"
AfterInsertError == "failed"

\* either half raises: _persist logs the error and gives the reading up
InsertFails(r) ==
  /\ process = "running"
  /\ task[r] \in InFlight
  /\ DatabaseError
  /\ task' = [task EXCEPT ![r] = AfterInsertError]
  /\ UNCHANGED <<process, stop, listening, drainerVars, backendVars>>

\* run_listener wakes up on stop_event and aclose closes the transport
CloseTransport ==
  /\ process = "running" /\ stop /\ listening
  /\ listening' = FALSE
  /\ UNCHANGED <<process, stop, task, db, disk, drainerVars, backendVars,
                 budgetVars>>

-----------------------------------------------------------------------------
(* The drainer: run_drainer, _drain_once and _post_group *)

ClaimBatch ==
  /\ process = "running" /\ pc = "claim"
  /\ \E S \in SUBSET DOMAIN db :
       /\ IsBatch(S, db)
       /\ batch' = S
       /\ pc' = AfterGroup(S)
  /\ transient' = FALSE
  /\ UNCHANGED <<process, stop, listenerVars, db, disk, backoff, reply,
                 backendVars, budgetVars>>

\* post_telemetry sends the group and the exchange ends in one of its ways
PostGroup ==
  /\ process = "running" /\ pc = "post"
  /\ \E wire \in Wire, processed \in BOOLEAN :
       /\ wire \in {"2xx", "2xx malformed"} => processed
       /\ wire = "4xx" => ~processed
       /\ handled' = IF processed THEN handled \cup Group ELSE handled
       /\ refused' = [r \in Reading |->
                        IF r \in Group /\ wire \in Refusal
                          THEN refused[r] + 1 ELSE refused[r]]
       /\ reply' = Outcome(wire)
       /\ IF \E r \in Group : Shelf[r] \in Sick
            THEN wire = "5xx" /\ ~processed /\ UNCHANGED glitches
            ELSE IF Outcome(wire) \in {"transient", "unexpected"}
                   THEN glitches < MaxGlitches /\ glitches' = glitches + 1
                   ELSE UNCHANGED glitches
  /\ pc' = "answer"
  /\ UNCHANGED <<process, stop, listenerVars, db, disk, batch, transient,
                 backoff, acked, faults>>

AnswerOk ==
  /\ process = "running" /\ pc = "answer" /\ reply = "ok"
  /\ acked' = acked \cup Group
  /\ pc' = "delete" /\ reply' = "none"
  /\ UNCHANGED <<process, stop, listenerVars, db, disk, batch, transient,
                 backoff, handled, refused, budgetVars>>

AnswerPermanent ==
  /\ process = "running" /\ pc = "answer" /\ reply = "permanent"
  /\ pc' = "bump" /\ reply' = "none"
  /\ UNCHANGED <<process, stop, listenerVars, db, disk, batch, transient,
                 backoff, backendVars, budgetVars>>

\* _drain_once catches the error, keeps the rows and goes on with the next group
AnswerTransient ==
  /\ process = "running" /\ pc = "answer" /\ reply = "transient"
  /\ transient' = TRUE
  /\ batch' = Remaining
  /\ pc' = AfterGroup(Remaining) /\ reply' = "none"
  /\ UNCHANGED <<process, stop, listenerVars, db, disk, backoff, backendVars,
                 budgetVars>>

\* any other exception leaves _drain_once: the remaining groups are not posted
AnswerUnexpected ==
  /\ process = "running" /\ pc = "answer" /\ reply = "unexpected"
  /\ batch' = {}
  /\ pc' = "raised" /\ reply' = "none"
  /\ UNCHANGED <<process, stop, listenerVars, db, disk, transient, backoff,
                 backendVars, budgetVars>>

\* delete_readings up to the end of its DELETE
DeleteExecute ==
  /\ process = "running" /\ pc = "delete"
  /\ db' = [r \in DOMAIN db \ Group |-> db[r]]
  /\ batch' = Remaining
  /\ pc' = "commit"
  /\ UNCHANGED <<process, stop, listenerVars, disk, transient, backoff, reply,
                 backendVars, budgetVars>>

\* bump_reject_count up to the end of its UPDATE
BumpExecute ==
  /\ process = "running" /\ pc = "bump"
  /\ db' = [r \in DOMAIN db |-> IF r \in Group THEN db[r] + 1 ELSE db[r]]
  /\ batch' = Remaining
  /\ pc' = "commit"
  /\ UNCHANGED <<process, stop, listenerVars, disk, transient, backoff, reply,
                 backendVars, budgetVars>>

DrainerCommit ==
  /\ process = "running" /\ pc = "commit"
  /\ Commit
  /\ pc' = AfterGroup(batch)
  /\ UNCHANGED <<process, stop, listenerVars, batch, transient, backoff, reply,
                 backendVars>>

\* the SELECT, DELETE, UPDATE or commit raises out of _drain_once
DrainerDatabaseError ==
  /\ process = "running" /\ pc \in {"claim", "delete", "bump", "commit"}
  /\ DatabaseError
  /\ batch' = {}
  /\ pc' = "raised"
  /\ UNCHANGED <<process, stop, listenerVars, transient, backoff, reply,
                 backendVars>>

\* The tick returned or raised; had_transient_failure is set only by a return.
EndTick ==
  /\ process = "running" /\ pc \in {"end", "raised"}
  /\ backoff' = IF pc = "end" /\ transient THEN NextDelay(backoff) ELSE 0
  /\ transient' = FALSE
  /\ pc' = "sleep"
  /\ UNCHANGED <<process, stop, listenerVars, db, disk, batch, reply,
                 backendVars, budgetVars>>

\* (variant for a mutant) The loop does not look at stop_event.
AfterSleepIgnoringStop == "claim"
AfterSleep == IF stop THEN "stopped" ELSE "claim"

\* the sleep times out or stop_event wakes it; then the loop's condition
Wake ==
  /\ process = "running" /\ pc = "sleep"
  /\ pc' = AfterSleep
  /\ UNCHANGED <<process, stop, listenerVars, db, disk, batch, transient,
                 backoff, reply, backendVars, budgetVars>>

-----------------------------------------------------------------------------
(* The process: signals, the end of main, a kill or power cut, a new start *)

Signal ==
  /\ process = "running" /\ ~stop
  /\ stop' = TRUE
  /\ UNCHANGED <<process, listenerVars, db, disk, drainerVars, backendVars,
                 budgetVars>>

\* (variant for a mutant) aclose does not wait for the inserts.
InsertsGatheredNot == TRUE
InsertsGathered == \A r \in Reading : task[r] \notin InFlight

\* The task group is done: transport closed, inserts gathered, drainer
\* stopped.  db_conn.close() drops whatever is still uncommitted.
Exit ==
  /\ process = "running" /\ pc = "stopped" /\ ~listening
  /\ InsertsGathered
  /\ process' = "exited"
  /\ db' = disk
  /\ UNCHANGED <<stop, listenerVars, disk, drainerVars, backendVars, budgetVars>>

Crash ==
  /\ process = "running"
  /\ faults < MaxFaults
  /\ faults' = faults + 1
  /\ process' = "crashed"
  /\ db' = disk
  /\ task' = [r \in Reading |->
                IF task[r] \in InFlight THEN "failed" ELSE task[r]]
  /\ UNCHANGED <<stop, listening, disk, drainerVars, backendVars, glitches>>

\* main: connect, init (the table exists already), bind, start the drainer
Start ==
  /\ process # "running"
  /\ process' = "running"
  /\ stop' = FALSE /\ listening' = TRUE
  /\ pc' = "claim" /\ batch' = {} /\ transient' = FALSE
  /\ backoff' = 0 /\ reply' = "none"
  /\ UNCHANGED <<task, db, disk, backendVars, budgetVars>>

-----------------------------------------------------------------------------
Init ==
  /\ process = "running" /\ stop = FALSE /\ listening = TRUE
  /\ task = [r \in Reading |-> "unsent"]
  /\ db = [r \in {} |-> 0] /\ disk = [r \in {} |-> 0]
  /\ pc = "claim" /\ batch = {} /\ transient = FALSE
  /\ backoff = 0 /\ reply = "none"
  /\ handled = {} /\ acked = {} /\ refused = [r \in Reading |-> 0]
  /\ glitches = 0 /\ faults = 0

Insert(r) == InsertExecute(r) \/ InsertCommit(r) \/ InsertFails(r)

Drainer ==
  \/ ClaimBatch \/ PostGroup
  \/ AnswerOk \/ AnswerPermanent \/ AnswerTransient \/ AnswerUnexpected
  \/ DeleteExecute \/ BumpExecute \/ DrainerCommit \/ DrainerDatabaseError
  \/ EndTick \/ Wake

Next ==
  \/ \E r \in Reading : DatagramReceived(r) \/ Insert(r)
  \/ CloseTransport
  \/ Drainer
  \/ Signal \/ Exit \/ Crash \/ Start

Spec == Init /\ [][Next]_vars

\* The event loop runs every ready task, the database thread every queued
\* call, and every sleep and request ends (httpx has a timeout).  Nothing makes
\* a datagram arrive, a signal come, a fault happen or a new process start.
Fairness ==
  /\ \A r \in Reading : WF_vars(Insert(r))
  /\ WF_vars(CloseTransport)
  /\ WF_vars(Drainer)
  /\ WF_vars(Exit)

FairSpec == Spec /\ Fairness
-----------------------------------------------------------------------------
(* Properties *)

IsTable(t) == /\ DOMAIN t \subseteq Reading
              /\ t \in [DOMAIN t -> 0..Threshold]

\* Type invariant of the outbox; no reject_count exceeds QUARANTINE_THRESHOLD.
TypeOK ==
  /\ process \in {"running", "exited", "crashed"}
  /\ stop \in BOOLEAN /\ listening \in BOOLEAN
  /\ task \in [Reading -> TaskState]
  /\ IsTable(db) /\ IsTable(disk)
  /\ pc \in DrainerState
  /\ batch \subseteq Reading
  /\ transient \in BOOLEAN
  /\ backoff \in 0..BackoffCap
  /\ reply \in Replies
  /\ handled \subseteq Reading /\ acked \subseteq Reading
  /\ refused \in [Reading -> Nat]
  /\ glitches \in 0..MaxGlitches /\ faults \in 0..MaxFaults

\* A reading whose insert_reading returned is durable until the backend has
\* handled it: no crash, shared commit, lost answer or failing statement of
\* the drainer makes it disappear.
PersistedIsKept ==
  \A r \in Reading : task[r] = "persisted" => r \in DOMAIN disk \cup handled

\* The same on a SQLite that undoes a failing statement alone.
NoSilentLoss == ~ErrorRollsBack => PersistedIsKept

\* "Never called on transient failures": a row is quarantined only after
\* the backend has refused Threshold groups it was in, whatever 5xx, timeouts,
\* lost commits and restarts came in between.
QuarantineEarned ==
  \A r \in Parked(disk) : refused[r] >= Threshold

\* A request under way carries no quarantined reading, although the batch was
\* claimed before other commits and refusals.
QuarantinedNotPosted ==
  pc \in {"post", "answer"} => Group \cap (Parked(db) \cup Parked(disk)) = {}

\* Without a crash or a database error no reading is posted again once the
\* drainer has seen its 2xx.
NoRepostAfterAck ==
  faults = 0 /\ pc = "answer" => Group \cap acked = {}

\* Without a crash or a database error a graceful exit loses no datagram
\* that became an insert and leaves no row the backend has acknowledged:
\* aclose waited for the inserts and the drainer finished its tick.
GracefulExitIsClean ==
  process = "exited" /\ faults = 0 =>
    /\ \A r \in Valid : task[r] # "unsent" => r \in DOMAIN disk \cup acked
    /\ DOMAIN disk \cap acked = {}

Older(q, r) == Shelf[q] = Shelf[r] /\ SampledAt[q] < SampledAt[r]

Refused(r) == refused[r] >= Threshold

\* "Keeps per-shelf time order intact", from end to end: a reading that is
\* durable before a newer one of its shelf arrives is handled by the backend
\* before it or together with it, unless the backend has refused it as often as
\* it takes to park it.  Neither a retry nor a restart, a discarded transaction
\* or a batch too small for both lets the newer one overtake.
OldestFirst ==
  \A q, r \in Reading :
    Older(q, r) =>
      [](q \in DOMAIN disk /\ task[r] = "unsent" =>
           [](r \in handled => q \in handled \/ Refused(q)))

\* How far a reading has got, as ReliableOutbox sees it.
StatusOf(r) ==
  IF r \in DOMAIN disk
    THEN IF disk[r] >= Threshold THEN "parked" ELSE "stored"
    ELSE IF r \in acked /\ r \notin DOMAIN db THEN "settled" ELSE "new"

Promise == INSTANCE ReliableOutbox WITH
             status <- [r \in Reading |-> StatusOf(r)]

\* The outbox implements ReliableOutbox: once durable, a row leaves only when
\* the backend has handled it, never returns, and is never posted once parked.
KeepsPromise == Promise!Spec

\* While the process runs, every durable reading of a shelf the backend answers
\* is eventually delivered or quarantined, after any finite number of failures
\* and whatever happens to the requests of the other shelves.
HealthyShelvesDrain ==
  \A r \in {q \in Reading : Shelf[q] \notin Sick} :
    r \in DOMAIN disk /\ process = "running"
      ~> \/ r \notin DOMAIN db \/ r \in Parked(db)
         \/ stop \/ process # "running"

\* After a signal the process ends: the inserts finish, the tick under way
\* finishes, and no wait of the listener or the drainer outlives them.
ShutdownCompletes == stop /\ process = "running" ~> process # "running"
=============================================================================
