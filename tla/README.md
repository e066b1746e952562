# ShelfAware-IoT: a verification development

TLA+ models of the software that runs on a ShelfAware Raspberry Pi, model-checked
with TLC, with the main safety theorems proved in TLAPS. Paths are relative to
the repository (`src/`).

## 1. The system

| part | source | state | operations | talks to |
|---|---|---|---|---|
| **Process A**, sampler | `process-a/process_A.py` | moving averages, drift compensators, fault trackers, CPU governor, baseline file | read cycle, tare, compensate, fault detection, send | UDP datagrams to B |
| **Process B**, courier | `process-b/process_b/` | SQLite outbox, `stop_event`, backoff | receive, insert, claim, post, delete, bump, poll commands, wake, register | A (UDP), backend (HTTPS), `device.json` |
| **Process C**, provisioning | `process-c/process_c/` | `device.json`, background switch tasks | `POST /provision`, `POST /reset`, `GET` pages | the user's browser, WiFi connector |
| **WiFi connector** | `orchestration/wifi_connector.py` | `_apply_lock`, STA profile, `wlan0` | `apply_wifi_credentials`, `rollback_to_ap` | nmcli; called from C's thread |
| **Orchestrator** | `orchestration/orchestrator.py` | `_running`, state file, clocks | boot, online mode, offline mode, monitor, probe, reboot, watchdog | starts and kills A, B, C; nmcli; systemd |

The processes share three things: the UDP port A sends to, `device.json` (C
writes it, A and B read it at their start), and `wlan0`, which C's connector and the
orchestrator both command through nmcli without a common lock.

### Where it is hard, and what must be true

*Outbox.* The UDP listener starts one task per datagram; those tasks and the
drainer share **one** aiosqlite connection, hence one transaction, and each
commits whatever the connection has pending. Requests time out after the backend
has processed them; a commit may fail after its statement; the process may be
killed anywhere; a signal may arrive with inserts in flight. What must be true: a
reading reported as stored is on disk until the backend has handled it; a row is
quarantined only by refusals, never by failures of transport; a quarantined row
is not posted; without faults there is no second POST of an acknowledged reading
and a graceful exit loses nothing; a shelf whose requests fail does not stop the
others; a newer reading of a shelf does not overtake an older one; shutdown ends.

*Provisioning.* The handler gives the event loop up while it waits for the body;
the switch runs in a thread after the answer and each nmcli call may fail or time
out (with or without its effect); the rollback after an exception runs outside the lock. What
must be true: the Pi is reachable whenever no switch runs; the identity
announced to the user stays; a switch reports success only for its own network;
the lock is released on every way out; after a failure the user can retry.

*Orchestrator.* Each transition is a series of calls that may fail or be cut
short; the watchdog forgets dead children and restarts none; the probe takes the
AP down every 30 s; failures are counted across restarts. What must be true: A
and C never run together; no child runs without a handle; whichever way the
home network settles, the Pi ends up in the mode for it, unless the gate on failed boots is
shut, which takes failures in a row.

*Process A.* The moving average and the drift compensation interact: while a load
settles, its averages pass below `near_zero_threshold` and look like drift. All
baselines share one file that is truncated and rewritten in place, and the
orchestrator stops the process with a SIGTERM at any point. The activity trigger
uses the wall clock. What must be true: what is put on an emptied shelf is
reported, up to `near_zero_threshold`, restarts included; the file holds
every baseline; polling and CPU governor come back to idle.

*Poller, registrar.* The poller asks for each shelf in turn and handles what it
gets at once; a request about one shelf may fail in five ways, the backend may have handed out
commands in an answer that is lost, and expiry is compared with a clock that NTP sets late.
The registrar retries with a capped backoff while the process may be told to stop. What must be true: a failing shelf
keeps no wake of another shelf back, nor does a clock that is behind; a wake handed out once is forwarded
once; a shelf row that the backend has lost comes back with the next start; stopping waits for no
sleep.

*The radio and the identity.* Orchestrator and WiFi connector both command
`wlan0` and know nothing of each other: a probe or a reboot may fall between any two nmcli calls of a
switch. A and B read `device.json` once, at their start, while C may delete and rewrite it. What
must be true: the processes in online mode use the identity in force; the Pi can be reached
whenever nothing is under way; stored credentials bring it home in the end, whatever
interrupted the switch.

## 2. Modules

| module | what it is |
|---|---|
| `BackendClient` | how an HTTP exchange may end and what the client makes of it; used by `Outbox` and `Workers` |
| `Outbox` | Process B's listener, store, drainer, telemetry request, process life |
| `ReliableOutbox` | what the outbox promises for one reading, with no tasks and no database; `Outbox` implements it |
| `Minimal` | least numbers and minimal elements of finite sets, from which the proofs take their inductions |
| `OutboxProofs` | theorems of `Outbox` |
| `Provisioning` | Process C's handlers, `device.json`, the switch thread, the WiFi connector |
| `ProvisioningProofs` | theorems of `Provisioning` |
| `Orchestrator` | the boot orchestrator, the children's lives, `wlan0` and the network as it sees them |
| `OrchestratorProofs` | theorems of `Orchestrator` |
| `Sampler` | Process A: sweep, filter, drift compensation, baseline file, activity trigger, governor |
| `FilterProofs` | what the sampler's operators compute: sums, averages, corrected values, weights |
| `SamplerProofs` | theorems of `Sampler` |
| `Workers` | Process B's poller, registrar, start and end, and the identity it is started with |
| `WakeDelivery` | what the poller promises for a command: delivery at most once; `Workers` implements it |
| `WorkersProofs` | theorems of `Workers` |
| `System` | `Orchestrator` and `Provisioning` composed on one `wlan0`, and the identity A and B hold |
| `SystemProofs` | theorems of `System`, from those of its two components |
| `MC...` | the constants of the instances TLC checks |

Some definitions have a *variant for a mutant* before them (`ClaimableOffByOne`,
`KillProcessNot`, ...): the same definition with a plausible mistake. They are
used by no specification. Each property fails when the one named for it in
`PROJECT.json` takes the place of the original.

### Outbox

A table is a function from the readings that have a row to their `reject_count`.
`db` is the table as the shared connection sees it, `disk` as the next process would
find it. A statement changes `db`; a commit by **either** task sets
`disk' = db`; closing the connection or a crash sets `db' = disk`.

| action | code |
|---|---|
| `DatagramReceived` | `datagram_received`: starts a task, or drops an invalid or faulty reading |
| `InsertExecute`, `InsertCommit`, `InsertFails` | `_persist` and `insert_reading`, split at the await between statement and commit |
| `CloseTransport` | `run_listener` woken by `stop_event`, `aclose` |
| `ClaimBatch` | `claim_batch`, ordered by shelf and time, limited |
| `PostGroup`, `Answer...` | `post_telemetry`: outcome on the wire, what the client makes of it, what `_post_group` does then |
| `DeleteExecute`, `BumpExecute`, `DrainerCommit`, `DrainerDatabaseError` | `delete_readings`, `bump_reject_count`, and any of their halves raising |
| `EndTick`, `Wake` | the backoff, the wait for stop or the timeout |
| `Signal`, `Exit`, `Crash`, `Start` | `main.py` and the operating system |

Abstractions: a reading is a name with a shelf and a time; a datagram is valid or not
(`Valid`). `claim_batch` is one step because its SELECT is. Ties in the order are
broken in every way. The backend's effect (`handled`) is
decided with the outcome on the wire: a 2xx means processed, a 4xx not, everything
else either way. `acked` and `refused` are history variables. The listener and the
drainer are the only tasks that use the database; the poller and the registrar
share only `stop_event` with them.

### Provisioning

A request stands for its credentials and for the `shelf_id` minted for it. The
handler is cut at its one await (`PostProvision`, then `BodyRefused` or
`BodyAccepted`). Each nmcli command that changes something is a step that
succeeds, fails, or times out with its effect done. The two rollbacks are kept
apart: the one inside `apply_wifi_credentials` holds the lock, the one of
`perform_wifi_switch` after an exception (`"raw ..."`) does not. Requests reach
Process C only through the AP. `stuck` records that nmcli failed to bring the AP up in a
rollback, the one outcome the connector has no remedy for.

### Orchestrator

Each subprocess call that changes something is a step; between two steps the
environment acts: the network goes (`Outage`) or comes back (`Return`), Process
C's connector does anything to `wlan0` (`SwitchByC`), a child dies, the
orchestrator is killed. `uplink` means that the stored credentials work *and* lead to the
Internet; without it the STA profile may still come up. `device disconnect` and
`connection up ShelfAware_Setup` form one step. Time is counted in
passes of the monitor loop, and the clocks stop at the limits the code compares
them with. `lingered` is the history of children that survived SIGKILL.

The "already running" branches for A (in online mode) and C (in offline mode) are kept,
although no behaviour reaches them.

### Sampler

One sweep is `BeginCycle`, then per sensor `SampleMissing`, `SampleFails` or
`Sample` (the read, the filter and `correct` up to a save), `OpenForRewrite` and `Dump`
when the baseline changes, and `Send`; then `EndCycle` and `Sleep`. The steps are cut where
a kill leaves a different file or the shelf may change between two sensors.
ADC values are integers, averages and baselines multiples of 1/`Unit` (`Unit` a
common multiple of the window's lengths), so the arithmetic is exact where the
code's floats are rounded in the last place. `Grams` is any monotone table that
is 0 at 0, of the whole part of the ADC value: no property depends on more of
`adc_to_grams`. An unparseable file and an absent one are both the empty table,
because every reader treats them alike. `age` is the time since the last activity in cycles. `damaged` records that a rewrite was cut short or a read or write of the
file failed, `emptied` which sensors have seen the empty shelf for a whole window.
`SensorFaultTracker` only chooses log lines and is left out.

### Workers

| action | code |
|---|---|
| `Start` | `run` and `_run_workers`: `from_env` takes the shelf of `device.json`, else `SHELF_IDS`, else refuses (`ConfigError`); the registrar exists only with a `device.json` |
| `Register` | the loop's condition, one `register_shelf` and what each outcome leads to |
| `RegistrarWakes` | `_sleep_or_stop` returns, and the delay grows |
| `PollAsk` | `get_commands` for one shelf: what the backend hands out, what arrives |
| `PollReply` | the rest of that round of `_poll_once`: `_handle_command` for each command, `send_wake`, and on to the next shelf or out of the tick |
| `PollWait` | the wait for `stop_event` or the interval, and the loop's condition |
| `Signal`, `Exit`, `Crash` | `main.py` and the operating system |

The variable `answer` is the local `commands` of `_poll_once`, which still holds the
last shelf's commands when the next request raises. The backend may keep a command it has handed
out or hand it out for good; what was handed out with an answer or in a datagram that is lost
is remembered in `missed`, what was forwarded in `spent`. `StageOf` reads off these sets how far
a command has got for `WakeDelivery`. Commands are names with a shelf, a type
(`Wake`) and an expiry. A sleep of the registrar takes as many `Tick`s as its delay. `Workers` and `Outbox` are
not composed: their tasks share only `stop_event` and an HTTP client that keeps no state.

### System

`System` has `Orchestrator` and `Provisioning` as instances and none of their actions again.
`wlan` is the interface as `Provisioning` has it; the orchestrator sees only
`sta`, `ap` or `off`. `uplink` is "the network is there and a profile is stored", Process C runs
when `"C"` is in `alive`. A step of the orchestrator that stops Process C takes its
handlers, switch threads and lock along (`ProcessCAfter`), one that starts A or B
lets it read `device.json` (`HeldAfterLaunch`). A step of a switch leaves the orchestrator
alone; that nmcli fails there is a fault unless there is a reason (`Excused`): the
credentials are bad, the network is away, or the orchestrator has disconnected `wlan0` since the
switch's last step (`disturbed`).

## 3. The runs

| run | module | what it shows |
|---|---|---|
| `OutboxSafety` | `MCOutbox` | two readings of one shelf, batch of 2, threshold 3, one failed request, two crashes or database errors anywhere: `NoSilentLoss`, `QuarantineEarned`, `QuarantinedNotPosted`, `OldestFirst`, and `Outbox` implements `ReliableOutbox` |
| `OutboxLive` | `MCOutbox` | three datagrams of two shelves, one invalid, one shelf always answered 5xx, with room for both in a batch: `HealthyShelvesDrain`, `ShutdownCompletes`, `NoRepostAfterAck`, `GracefulExitIsClean` |
| `OutboxStarved` | `MCOutbox` | **violation** of `HealthyShelvesDrain` when the sick shelf fills the batch |
| `OutboxLostInsert` | `MCOutbox` | **violation** of `PersistedIsKept` when a failing statement rolls the transaction back |
| `Provisioning` | `MCProvisioning` | three requests, one with bad credentials, two resets, one kill, clients that wait for their answer: `NeverStranded`, `AcceptedIdentityKept`, `SuccessIsOwnNetwork`, `SwitchEnds` |
| `ProvisioningOverlap` | `MCProvisioning` | **violation** of `AcceptedIdentityKept` when two bodies are awaited together |
| `Orchestrator` | `MCOrchestrator` | two network changes and three faults anywhere: `OpposingNeverTogether`, `NoOrphans`, `ModeIsExclusive`, `GateIsEarned`, `SetupComesBack`, `HomeAgain` |
| `OrchestratorStuck` | `MCOrchestrator` | **violation** of `OnlineRunsA` |
| `Sampler` | `MCSampler` | two sensors on two ADCs, the code's filter constants, two load changes, one kill and one fault anywhere: `BaselinesSaved`, `LoadsReported`, `QuietsDown` |
| `Workers` | `MCWorkers` | three shelves, the first and the last of which the backend always fails, two wakes for the one between, one that expires and one whose `expires_at` cannot be parsed; one change (outage, reset, lost row) and one fault (request, datagram, crash) anywhere, a clock that may be behind: `WakeOnce`, `DeliversOnce` (`Workers` implements `WakeDelivery`), `WakeArrives`, `ShelfRowHeals`, `ShutdownEnds` |
| `System` | `MCSystem` | two provisionings with a reset between them, probes and reboots between any two nmcli calls of a switch, one fault or outage anywhere: `IdentityInForce`, `SetupReachable`, `SuccessIsOwnNetwork`, `ProvisionedComesHome` |
| `SystemRace` | `MCSystem` | **violation** of `RetryComesHome`, with no fault at all and the network always there |

### Bounds

- `MaxFaults`, `MaxGlitches`, `MaxKills`, `MaxResets`, `MaxChanges` bound how often
  something goes wrong. The hazards listed need at most two faults together (a
  failed commit and then a crash; a timeout and then a restart); the theorems of
  section 5 have no such bound in their argument.
- Two readings in one group and two tasks are enough for every order of two
  statements on the shared connection; the third reading, on another shelf, is there for the order of the groups.
- `OutboxSafety` has room for both readings in a batch, so what `OldestFirst` shows there is the order
  of claims at different times, of retries and of restarts; that a batch too small for the shelf's rows
  keeps the order as well is the theorem `NoOvertaking`, for every batch size.
- `Threshold` 3 lets a row be refused twice, fail transiently and be refused again.
- `ProbeAfter` 2 and `RebootAfter` 4 passes keep the code's order (30 s against
  10 min): a probe happens before the reboot, several times or once, and
  `LongestPass` 2 lets the reboot's deadline pass during a probe. `MaxFailures` 2
  instead of 5 reaches the shut gate, and with three faults also a failure before a mode is entered and two after it.
- `Sampler` uses window 5, deadzone 150, near zero 300 and margin 15 % as the code does.
  A load of 700 settles through the averages 140, 280, 420, 560, 700, two of which are taken
  for drift; 100 is noise below the deadzone. Two changes place and remove a load;
  one kill covers the restart with the load on the shelf. `Cooldown` is 2 cycles
  instead of 20.
- `Workers`: the well shelf has one before it, whose failure must not end the tick, and
  one after it, whose failure must not handle its commands again. `BackoffCap` 3 is no power of
  the factor 2, like 120 s of 5 s. `Horizon` 1 separates before and after the expiry of the one
  wake; time may also stand still before it, so that `WakeArrives` obliges the poller to forward that wake too,
  with a clock `MaxLag` 1 behind.
- `System`: `ProbeAfter` 1 and `RebootAfter` 2 let a probe and a reboot fall on every
  place of a switch, and two requests with a reset between them are a second provisioning.
  The children do not die by themselves here (`ChildrenFail` is `FALSE`): that is the `Orchestrator` run.
- `CHECK_DEADLOCK FALSE` is set for `Provisioning` only: there are finitely many
  requests, so it really stops when all are done.

### Fairness

- `Outbox`: weak fairness of each insert task, the closing of the transport, the
  drainer and the end of `main`. The event loop runs every ready task, the
  database thread every queued call, and each sleep and request ends (httpx has a
  timeout). Datagrams, signals, faults and restarts are not fair.
- `Provisioning`: weak fairness of each switch thread; nmcli has a timeout in every call. Handlers
  are not fair: a client may never send its body.
- `Orchestrator`: weak fairness of the orchestrator's own steps; every subprocess call
  has a timeout and systemd restarts the service. Children need not die, networks need not
  return. `SetupComesBack` and `HomeAgain` suppose that the network settles and that the gate on
  consecutive failures is not shut; `GateIsEarned` says when it can be.

- `Sampler`: weak fairness of the loop, which waits for nobody; the process need
  not be started again, nor stopped.
- `Workers`: weak fairness of registrar, poller and exit (httpx bounds each
  request). That time passes is *not* assumed, so that `ShutdownEnds` shows that no sleep is
  waited for; `ShelfRowHeals` has it as a premise of its own (`TimePasses`).
- `System`: that of its two components.

## 4. Where code and documents differ

1. **A failing shelf can starve the others** (`OutboxStarved`). `claim_batch` takes
   `ORDER BY shelf_id, sampled_at LIMIT n`; rows kept after transient failures stay
   first. `test_one_shelf_5xx_does_not_block_other_shelf_2xx` covers a batch with
   room for both shelves.
2. **An INSERT can vanish** (`OutboxLostInsert`) when another task's statement fails
   with an error on which SQLite rolls back the whole transaction (disk full, I/O
   error): `insert_reading` then commits nothing and returns. Other errors undo
   their own statement only; `ErrorRollsBack` chooses.
3. **Two overlapping requests are both accepted** (`ProvisioningOverlap`): the check
   for `device.json` is not repeated after the body has been awaited.
4. **Online without Process A** (`OrchestratorStuck`). `run_offline_mode` kills A and
   then fails to bring the AP up; the mode is still online, and when the network
   returns nothing starts A. `HomeAgain` holds all the same, because it speaks of mode and interface.
5. **Good credentials can fail for good** (`SystemRace`). The orchestrator's probe
   disconnects `wlan0` while the switch scans or connects; the switch fails and rolls back.
   `device.json` was written before the switch and stays, so the retry the README promises is
   answered 409, and no later probe finds a profile. The second half of the finding
   needs no race: any switch that fails, with wrong credentials too, leaves the Pi in this
   state. `ProvisionedComesHome` says what holds instead: once a profile is *stored*,
   the Pi comes home whatever happened to the switch.

Seen while modelling, without a run of their own:

- `rollback_to_ap` is "safe to call from any thread" (`wifi_connector.py:148`), yet after an exception of
  `apply_wifi_credentials` `perform_wifi_switch` calls it without the lock (`RollbackDown` from `raw rollback`). A second
  accepted switch (finding 3, or a reset between the two) can succeed in between and is taken off its network
  again; the orchestrator's probe brings the Pi home later.
- A tick of the drainer that raises resets the backoff (`EndTick`), while
  `drainer.py:21` says it grows until the next successful tick.
- The header of `process_A.py` says that the death of the I2C bus propagates to `main()`;
  the handler of each sensor catches it (`SampleFails`), and the process sends faults for ever.
- `poller.py:16-19` promises isolation per shelf; that is so for the client's two
  exceptions. One that the client does not map (`httpx.DecodingError`,
  `httpx.LocalProtocolError`) leaves `_poll_once` and skips the shelves that follow until the
  next tick (`TickGoesOn`).
- Without a readable `device.json` Process A falls back silently to `SHELF_ID` or its
  default, Process B to `SHELF_IDS` or exit code 2. In offline mode Process B may
  still hold an identity that was reset; `IdentityInForce` is about online mode for B.
- That a wake is forwarded at most once is so only as far as the backend hands it out
  once; the poller keeps no record of the commands it has handled. After a signal the poller finishes its
  round first.
- A load lighter than
  five times `near_zero_threshold` (in ADC counts) loses part of its weight to the
  baseline until the shelf is empty again; `LoadsReported` bounds the loss.
- A kill while `baselines.json` is rewritten loses every baseline, and the next start tares
  with whatever lies on the shelf; `BaselinesSaved` and `LoadsReported` exclude
  that case (`damaged`).

## 5. The proofs

All are checked by tlapm for every value of the constants that satisfies the
named assumptions of the modules. These give the constants their ranges; two say more, both of
`Sampler`: `GramsAssumption`, that the table of weights is monotone, 0 at 0 and covers every
reading, and `DriftAssumption`, that `drift_margin` is small against `near_zero_threshold`
(0.15 and 300 in the code).

Every safety invariant and action property that a passing run checks is a theorem, and both
refinements are.

**`Minimal`.** The library's induction theorems take an operator as a parameter, which no prover
here can instantiate. `LeastNatural` and `MinimalElement` speak of sets and relations
instead: what needs an induction (a sum, a batch, the order of the weights) is proved of the set
of its counterexamples, which has no least element.

**`OutboxProofs`.** `NoSilentLoss` is not inductive: it says nothing about an insert
whose statement is done and whose row is only in `db`, nor about a DELETE not yet committed. The
inductive invariant `IInv` says for each moment of the listener's tasks and of
the drainer what `db`, `disk`, `handled` and `acked` have to do with each other: every row
that has left `db` was handled; a task between statement and commit finds its row in `db` or
handled; every count is covered by refusals; a group being posted has no parked row;
and, as long as no fault has happened, which acknowledged rows may still be there. Proved: `Invariance` (`Spec => []IInv`) and from it `TypeCorrect`, `NothingLost`,
`OnlyRefusalsQuarantine`, `QuarantineRespected`, `NoRepost`, `CleanExit`, and `PromiseKept`,
the refinement of `ReliableOutbox`: each action maps to `Handle`, `Advance` or a
stutter. `NoOvertaking` (`OldestFirst`) says of two moments and two readings what no invariant
says; its proof finds `InTurn`, which holds from the first moment on: while the older reading is
not settled it is on disk, and no batch holds the newer one without it. `ClaimNeverBlocks` is about the SELECT:
some set of rows is always a batch. `NothingLost` and `PromiseKept` concern a SQLite that undoes a failing
statement alone; finding 2 is what happens otherwise; `NoOvertaking` holds there too.

**`OrchestratorProofs`.** `OpposingNeverTogether` needs to know *where* the orchestrator is:
`IInv` adds that at each place of the two transitions the processes that place
forbids are gone (`Groups`), which modes may occur where (`Modes`), that the failure counter is below the gate while
the orchestrator runs (`Gate`), and that nothing lives after its
exit (`Dead`). The lemmas about `KillProcess`, `Launch` and
`EnsureRunning` state what each does to the children, once. Proved: `Invariance`,
`TypeCorrect`, `AllTracked`, `GroupsExclude`, `ModeExcludes`. `GateEarned` (`GateIsEarned`) compares two moments: an
orchestrator that has reached a mode has a counter of zero (`Forgiven`), and from then on every failure counted
cost a new fault (`Earned`, `CountStep`).

**`ProvisioningProofs`.** `NeverStranded` is about the moments without a switch; the invariant
`Reachable` says of every moment that `wlan0` is off only while a thread past the lock
still has a step to take, the raw rollback included. `OwnNetwork` says
that profile and interface belong to the holder of the lock: from its
`Connect` the profile has its credentials, and at `verify` the interface has them or has been taken away. `Identity`, which
needs that clients wait for their answers (`OneAtATime`), says that no handler waits for its body
once an identity is stored. Proved: `Invariance`, `TypeCorrect`,
`StaysReachable`, `SuccessIsOwn`, `IdentityKept`.

**`FilterProofs`.** The sampler keeps a running sum and never adds the buffer up. `IsSum` says
that a number is the sum of a buffer by its partial sums, without recursion; `SumKept` that adding a
value and dropping the oldest keeps it so, `SumBounds` and `AverageBounds` that an average lies between
the least and the greatest reading, `GramsGrow` that weights grow with readings, `KeptOnEmpty` that an
empty shelf that is not taken for drift has a baseline near zero already (here `DriftAssumption`
is used).

**`SamplerProofs`.** `TypeOK` needs `IsSum`: without it a subtraction could make the sum
negative and an average leave the range of the table (`TypeInv`). `LoadsReported` relates a
weight sent now to the moment the shelf was last empty; `LowInv` carries that over: from then on the
baseline is near zero, in memory while the process runs, in the file while it does not, because what
correct takes for drift is itself near zero. `ReportInv` says that the last weight is that of the present
window and baseline. `SavedInv` is what connects memory and file. A tare changes the baseline in memory two steps before
the file, and the file is empty in between; `Rewritten` says what the rewrite under way will produce,
from the file while it has its content and from the copy afterwards. Proved: `TypesCorrect`,
`SumIsRight`, `NoBaselineLost` (`BaselinesSaved`), `LoadsAreReported`, `BaselinesStayLow`.

**`WorkersProofs`.** `WakeOnce` is about the moment an answer is handled; it holds because of what
is known when it is given (`Once`): what was handed out for good and forwarded is not
pending, so a good answer does not contain it, and after a failure nothing is handled although the local
variable still holds an earlier shelf's commands. `Serving` says that a running
process has a shelf and that a round begins with the first. For `WakeDelivery` the answer at hand is what
counts: `PollAsk` maps to `HandOut`, and every end of an answer, handled, failed or killed, to
`Handle` (`AnswerEnds`). Proved: `Invariance`, `TypeCorrect`, `WakeForwardedOnce`, and `DeliveryKept`, the
refinement.

**`SystemProofs`.** The proofs of the components are reused: the module instantiates
`OrchestratorProofs` and `ProvisioningProofs` with System's wlan0 and cites their lemmas.
Orchestrator's whole invariant holds in the composition, because it says nothing of `wlan0` but
its type; of Provisioning's the part `Safe` does. `Reachable` does not: a probe takes the AP
down as well. It is replaced by `Reach`, which adds where the orchestrator is, and the lemma of
`ProvisioningProofs` that a switch keeps `Reachable` serves again. `Current` is the identity's
part: Process C, the only one to write `device.json`, is gone (`Groups`, `NoC`) at every place where a process that
was started before is still to count. Proved: `Invariance`,
`TypeCorrect`, `HeldIdentityInForce`, `StaysReachable`, `SuccessIsOwn`.

**Model-checked only.** All liveness properties: `HealthyShelvesDrain`, `ShutdownCompletes`,
`SwitchEnds`, `SetupComesBack`, `HomeAgain`, `QuietsDown`, `WakeArrives`, `ShelfRowHeals`, `ShutdownEnds`,
`ProvisionedComesHome`. They need fairness and ENABLED, which these provers do not handle. The violated
properties have counterexamples.

## 6. What is left out of the modelled parts

- Writing the orchestrator's state file never fails in the model; systemd's
  start limit (3 starts in 60 s) is not modelled. After a shut gate the model
  lets the network settle or not, and the liveness properties say nothing.
- `SIGTERM` to Process C ends it like a kill; the server's own graceful shutdown waits for
  nothing the model has.
- Bodies, answers, HTML, log messages, validation details: a request is valid or not.
- Alone, `Orchestrator` has the commands of Process C as environment (`SwitchByC`) and
  `Provisioning` has none of the orchestrator's; `System` has both.
- Process C on SIGTERM waits for its switch thread until the orchestrator's SIGKILL; the steps the thread takes
  meanwhile are steps before the kill.
- `System` has no outbox and no workers: they touch neither `wlan0` nor `device.json`
  after their start.
- The parsing of environment variables, and of a `device.json` that somebody else than Process
  C has damaged.

## 7. Plan

In this order; items without a mark are done.

1. `Outbox`, `ReliableOutbox`: durability first, it is what the device is for.
2. `Provisioning`.
3. `Orchestrator`.
4. `Sampler`.
5. `Workers`: poller, registrar, process, identity at start.
6. `System`: `Provisioning` and `Orchestrator` on one `wlan0`, the identity A and B hold.
7. Proofs for `Provisioning`, `Sampler` (`BaselinesSaved`), `Workers` and `System`.
8. `Sampler`'s types, the bound on the baseline and `LoadsReported`; the order of a shelf's
   readings; `WakeDelivery` and its refinement.
9. *(planned)* What the orchestrator and a switch may do to `wlan0` as an abstract specification
   of its own, which `System` implements.

Not to be modelled: the captive-portal pages and stateless GET handlers (no state),
logging and formatting, configuration parsing, and the installation and network
setup scripts, which are run once by hand.
