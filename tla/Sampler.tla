------------------------------ MODULE Sampler ------------------------------
(***************************************************************************)
(* Process A: it sweeps the sensors, smooths each reading, takes a baseline *)
(* off it and sends the weight to Process B.  The baselines of all sensors  *)
(* share one JSON file, rewritten in place.  The process is stopped by a    *)
(* SIGTERM of the orchestrator at any point, a rewrite included.            *)
(*                                                                          *)
(* ADC values are integers; averages and baselines are counted in units of  *)
(* 1/Unit, so that every average is one of them.                            *)
(***************************************************************************)
EXTENDS Integers, Sequences

CONSTANTS
  SensorSequence,  \* SENSOR_SEQUENCE
  AdcOf,           \* AdcOf[s]: SENSOR_MAP[s].adc_address
  Raw,             \* the values an ADC channel reads
  Deadzone,        \* deadzone_adc
  WindowSize,      \* window_size
  Unit,            \* a common multiple of 1..WindowSize
  NearZero,        \* near_zero_threshold
  MarginPercent,   \* drift_margin, in percent
  Grams,           \* adc_to_grams, of the whole part of an ADC value
  ChangeThreshold, \* change_threshold_g
  Cooldown,        \* active_cooldown_s, in active cycles
  ClockBack,       \* how far the clock may be set back, in active cycles
  MaxChanges,      \* bound on changes of what lies on the shelf
  MaxKills,        \* bound on stops of the process
  MaxFaults        \* bound on everything that goes wrong

Sensor == {SensorSequence[i] : i \in DOMAIN SensorSequence}
Adc == {AdcOf[s] : s \in Sensor}

ASSUME SensorAssumption ==
  /\ SensorSequence \in Seq(Sensor) /\ SensorSequence # << >>
  /\ Raw \subseteq Int /\ Raw # {}
ASSUME FilterAssumption ==
  /\ WindowSize \in Nat \ {0} /\ Unit \in Nat \ {0}
  /\ \A n \in 1..WindowSize : Unit % n = 0
  /\ {Deadzone, NearZero, MarginPercent} \subseteq Nat
\* An empty shelf that is not taken for drift has a baseline near zero already.
ASSUME DriftAssumption ==
  MarginPercent <= (100 - MarginPercent) * NearZero
ASSUME GramsAssumption ==
  /\ DOMAIN Grams \subseteq Nat
  /\ \E c \in DOMAIN Grams : \A raw \in Raw : raw <= c
  /\ Grams[0] = 0
  /\ \A c \in DOMAIN Grams : Grams[c] \in Nat
  /\ \A c \in DOMAIN Grams \ {0} : c - 1 \in DOMAIN Grams
                                     /\ Grams[c - 1] <= Grams[c]
ASSUME ActivityAssumption ==
  /\ ChangeThreshold \in Nat /\ Cooldown \in Nat \ {0} /\ ClockBack \in Nat
  /\ MaxChanges \in Nat /\ MaxKills \in Nat /\ MaxFaults \in Nat

VARIABLES
  pc,        \* where main is
  at,        \* index of the sensor under way
  load,      \* load[s]: what the channel of s would read
  bus,       \* whether the I2C bus works
  missing,   \* _faulted_addresses
  window,    \* filters[s].buffer
  sum,       \* filters[s].running_sum
  baseline,  \* _baseline of the sensors that have one
  file,      \* baselines.json; empty when absent or not parseable
  data,      \* what _save_baseline has read of it
  previous,  \* previous_grams
  payload,   \* payload[s]: the last one sent, a weight or a fault
  age,       \* cycles since last_activity_ts
  current,   \* _current_governor
  enabled,   \* _enabled
  governor,  \* scaling_governor in sysfs
  emptied,   \* history: sensors that had an empty shelf for a whole window
  damaged,   \* history: a rewrite was cut short, a read or write failed
  changes, kills, faults

sensorVars   == <<window, sum, baseline>>
fileVars     == <<file, data, damaged>>
reportVars   == <<previous, payload, age>>
governorVars == <<current, enabled, governor>>
worldVars    == <<load, bus, changes>>
vars == <<pc, at, missing, sensorVars, fileVars, reportVars, governorVars,
          worldVars, emptied, kills, faults>>

-----------------------------------------------------------------------------
(* Operators *)

Fault == faults < MaxFaults /\ faults' = faults + 1

Empty == [s \in {} |-> 0]

\* (the sensor the sweep is at)
This == SensorSequence[at]

\* after the last sensor the sweep ends
NextSensor ==
  IF at < Len(SensorSequence) THEN pc' = "sample" /\ at' = at + 1
  ELSE pc' = "end" /\ at' = 1

Clean(raw) == IF raw < Deadzone THEN 0 ELSE raw

Full(buffer) == Len(buffer) = WindowSize

\* (variant for a mutant) The value that leaves the buffer stays in the sum.
SumAfterForgetting(total, buffer, value) == total + value

\* (variant for a mutant) The buffer is not bounded.
BufferAfterUnbounded(buffer, value) == Append(buffer, value)

\* MovingAverage.add: the running sum, the buffer and the average
SumAfter(total, buffer, value) ==
  total + value - (IF Full(buffer) THEN Head(buffer) ELSE 0)

BufferAfter(buffer, value) ==
  Append(IF Full(buffer) THEN Tail(buffer) ELSE buffer, value)
Average(total, buffer) == total * (Unit \div Len(buffer))

Distance(a, b) == IF a < b THEN b - a ELSE a - b

\* (variant for a mutant) Whatever lies on the shelf may be drift.
DriftedAnywhere(filtered, base) ==
  100 * Distance(filtered, base) > MarginPercent * (base + Unit)

\* correct: a reading near zero that is off the baseline by a margin
Drifted(filtered, base) ==
  /\ filtered <= NearZero * Unit
  /\ 100 * Distance(filtered, base) > MarginPercent * (base + Unit)

\* max(0.0, filtered_adc - baseline)
Corrected(filtered, base) == IF filtered > base THEN filtered - base ELSE 0

Filtered(s) == Average(sum[s], window[s])

\* No activity yet: last_activity_ts is 0.0.
Never == Cooldown + 1
IsActive == age < Cooldown

-----------------------------------------------------------------------------
(* CpuGovernor *)

\* (variant for a mutant) A new process believes the governor is idle.
NoGovernorIdle == "ondemand"
NoGovernor == "none"

Target(active) == IF active THEN "performance" ELSE "ondemand"

\* set: a failed write disables the governor for good
SetGovernor(active) ==
  IF ~enabled \/ current = Target(active)
    THEN UNCHANGED <<governorVars, faults>>
    ELSE \/ /\ current' = Target(active) /\ governor' = Target(active)
            /\ UNCHANGED <<enabled, faults>>
         \/ /\ Fault
            /\ enabled' = FALSE
            /\ UNCHANGED <<current, governor>>

-----------------------------------------------------------------------------
(* main *)

\* The objects are made and the baselines loaded, each with a read of the file
\* that may fail.  An ADC that does not answer is marked for the whole life of
\* the process.
Boot ==
  /\ pc = "down"
  /\ missing' \in SUBSET Adc /\ enabled' \in BOOLEAN
  /\ ~bus => missing' = Adc
  /\ \E unread \in SUBSET DOMAIN file :
       /\ baseline' = [s \in DOMAIN file \ unread |-> file[s]]
       /\ damaged' = (damaged \/ unread # {})
       /\ IF enabled' /\ (bus => missing' = {}) /\ unread = {}
            THEN UNCHANGED faults ELSE Fault
  /\ window' = [s \in Sensor |-> << >>] /\ sum' = [s \in Sensor |-> 0]
  /\ previous' = [s \in Sensor |-> 0] /\ age' = Never
  /\ current' = NoGovernor
  /\ pc' = "begin" /\ at' = 1
  /\ UNCHANGED <<file, data, payload, governor, worldVars, emptied, kills>>

BeginCycle ==
  /\ pc = "begin"
  /\ SetGovernor(IsActive)
  /\ pc' = "sample"
  /\ UNCHANGED <<at, missing, sensorVars, fileVars, reportVars, worldVars,
                 emptied, kills>>

SendFault(s) == payload' = [payload EXCEPT ![s] = "fault"]

\* an exception leaves main: the finally clause tries to restore the governor
MainEnds ==
  /\ Fault
  /\ pc' = "down" /\ at' = 1
  /\ governor' \in {governor, "ondemand"}

\* sendto raises while a fault is sent, for a missing ADC or a failed read
FaultNotSent ==
  /\ pc = "sample"
  /\ MainEnds
  /\ UNCHANGED <<missing, sensorVars, fileVars, reportVars, current, enabled,
                 worldVars, emptied, kills>>

\* the ADC was missing at boot
SampleMissing ==
  /\ pc = "sample" /\ AdcOf[This] \in missing
  /\ SendFault(This)
  /\ NextSensor
  /\ UNCHANGED <<missing, sensorVars, fileVars, previous, age, governorVars,
                 worldVars, emptied, kills, faults>>

\* channel.value raises; the handler sends a fault and the sweep goes on
SampleFails ==
  /\ pc = "sample" /\ AdcOf[This] \notin missing
  /\ IF bus THEN Fault ELSE UNCHANGED faults
  /\ SendFault(This)
  /\ NextSensor
  /\ UNCHANGED <<missing, sensorVars, fileVars, previous, age, governorVars,
                 worldVars, emptied, kills>>

\* channel.value, the filter, and correct up to a rewrite of the file
Sample ==
  /\ pc = "sample" /\ AdcOf[This] \notin missing /\ bus
  /\ LET value    == Clean(load[This])
         buffer   == BufferAfter(window[This], value)
         total    == SumAfter(sum[This], window[This], value)
         filtered == Average(total, buffer)
         tare     == \/ This \notin DOMAIN baseline
                     \/ Drifted(filtered, baseline[This])
     IN /\ window' = [window EXCEPT ![This] = buffer]
        /\ sum' = [sum EXCEPT ![This] = total]
        /\ emptied' = IF Full(buffer) /\ total = 0 THEN emptied \cup {This}
                      ELSE emptied
        /\ IF tare
             THEN /\ baseline' = [s \in DOMAIN baseline \cup {This} |->
                                    IF s = This THEN filtered ELSE baseline[s]]
                  /\ pc' = "rewrite"
             ELSE UNCHANGED baseline /\ pc' = "send"
  /\ UNCHANGED <<at, missing, fileVars, reportVars, governorVars, worldVars,
                 kills, faults>>

\* (variant for a mutant) Only the sensor's own entry is written.
KeptEntriesNone == Empty
KeptEntries == file

\* _save_baseline up to open(..., "w"), which truncates the file.  Reading it
\* may fail, and so may the opening.
OpenForRewrite ==
  /\ pc = "rewrite"
  /\ \/ /\ data' = KeptEntries /\ file' = Empty
        /\ pc' = "dump"
        /\ UNCHANGED <<damaged, faults>>
     \/ /\ Fault /\ damaged' = TRUE
        /\ data' = Empty /\ file' = Empty
        /\ pc' = "dump"
     \/ /\ Fault /\ damaged' = TRUE
        /\ pc' = "send"
        /\ UNCHANGED <<file, data>>
  /\ UNCHANGED <<at, missing, sensorVars, reportVars, governorVars, worldVars,
                 emptied, kills>>

\* json.dump and close; one that fails leaves nothing parseable
Dump ==
  /\ pc = "dump"
  /\ \/ /\ file' = [s \in DOMAIN data \cup {This} |->
                      IF s = This THEN baseline[This] ELSE data[s]]
        /\ UNCHANGED <<damaged, faults>>
     \/ Fault /\ damaged' = TRUE /\ UNCHANGED file
  /\ data' = Empty
  /\ pc' = "send"
  /\ UNCHANGED <<at, missing, sensorVars, reportVars, governorVars, worldVars,
                 emptied, kills>>

\* (variant for a mutant) The weight is always compared with the first one.
PreviousKept(grams) == previous
PreviousAfter(grams) == [previous EXCEPT ![This] = grams]

\* the weight, the activity trigger and the datagram; when sendto raises, the
\* handler sends a fault instead, and when that raises too main ends
Send ==
  /\ pc = "send"
  /\ LET grams == Grams[Corrected(Filtered(This), baseline[This]) \div Unit]
     IN /\ age' = IF Distance(grams, previous[This]) > ChangeThreshold
                    THEN 0 ELSE age
        /\ previous' = PreviousAfter(grams)
  /\ \/ /\ payload' = [payload EXCEPT ![This] = "weight"]
        /\ NextSensor
        /\ UNCHANGED <<governor, faults>>
     \/ /\ Fault
        /\ SendFault(This)
        /\ NextSensor
        /\ UNCHANGED governor
     \/ MainEnds /\ UNCHANGED payload
  /\ UNCHANGED <<missing, sensorVars, fileVars, current, enabled, worldVars,
                 emptied, kills>>

EndCycle ==
  /\ pc = "end"
  /\ SetGovernor(IsActive)
  /\ pc' = "sleep"
  /\ UNCHANGED <<at, missing, sensorVars, fileVars, reportVars, worldVars,
                 emptied, kills>>

\* time.sleep; an idle cycle is as long as the cooldown
Sleep ==
  /\ pc = "sleep"
  /\ age' = IF age = Never THEN Never
            ELSE IF IsActive THEN age + 1 ELSE Cooldown
  /\ pc' = "begin"
  /\ UNCHANGED <<at, missing, sensorVars, fileVars, previous, payload,
                 governorVars, worldVars, emptied, kills, faults>>

-----------------------------------------------------------------------------
(* The world: the shelf, the bus, the clock, and who stops the process *)

ShelfChanges ==
  /\ changes < MaxChanges /\ changes' = changes + 1
  /\ \E s \in Sensor, raw \in Raw :
       raw # load[s] /\ load' = [load EXCEPT ![s] = raw]
  /\ UNCHANGED <<pc, at, missing, sensorVars, fileVars, reportVars,
                 governorVars, bus, emptied, kills, faults>>

BusDies ==
  /\ pc # "down" /\ bus /\ Fault
  /\ bus' = FALSE
  /\ UNCHANGED <<pc, at, missing, sensorVars, fileVars, reportVars,
                 governorVars, load, changes, emptied, kills>>

\* The wall clock is set, forward or back.
ClockStep ==
  /\ pc # "down" /\ age # Never /\ Fault
  /\ age' \in {Cooldown, age - ClockBack} \ {age}
  /\ age' >= -ClockBack
  /\ UNCHANGED <<pc, at, missing, sensorVars, fileVars, previous, payload,
                 governorVars, worldVars, emptied, kills>>

\* SIGTERM or SIGKILL: nothing is restored, nothing finished
Kill ==
  /\ pc # "down"
  /\ kills < MaxKills /\ kills' = kills + 1
  /\ damaged' = (damaged \/ pc \in {"rewrite", "dump"})
  /\ pc' = "down" /\ at' = 1
  /\ data' = Empty
  /\ UNCHANGED <<missing, sensorVars, file, reportVars, governorVars,
                 worldVars, emptied, faults>>

-----------------------------------------------------------------------------
Init ==
  /\ pc = "down" /\ at = 1
  /\ load \in [Sensor -> Raw] /\ bus = TRUE
  /\ missing = {}
  /\ window = [s \in Sensor |-> << >>] /\ sum = [s \in Sensor |-> 0]
  /\ baseline = Empty /\ file = Empty /\ data = Empty
  /\ previous = [s \in Sensor |-> 0] /\ payload = [s \in Sensor |-> "none"]
  /\ age = Never
  /\ current = "none" /\ enabled = TRUE /\ governor = "ondemand"
  /\ emptied = {} /\ damaged = FALSE
  /\ changes = 0 /\ kills = 0 /\ faults = 0

Cycle ==
  \/ BeginCycle \/ SampleMissing \/ SampleFails \/ FaultNotSent
  \/ Sample \/ OpenForRewrite \/ Dump \/ Send \/ EndCycle \/ Sleep

Next == Boot \/ Cycle \/ ShelfChanges \/ BusDies \/ ClockStep \/ Kill

Spec == Init /\ [][Next]_vars

\* The loop runs: nothing in it waits for anybody.
Fairness == WF_vars(Cycle)

FairSpec == Spec /\ Fairness

-----------------------------------------------------------------------------
(* Properties *)

Location == {"down", "begin", "sample", "rewrite", "dump", "send", "end",
             "sleep"}

\* Types; running_sum and the baselines never turn negative, which correct's
\* division relies on, and no buffer is longer than its window.
TypeOK ==
  /\ pc \in Location /\ at \in DOMAIN SensorSequence
  /\ load \in [Sensor -> Raw] /\ bus \in BOOLEAN
  /\ missing \subseteq Adc
  /\ \A s \in Sensor :
       /\ window[s] \in Seq(Nat) /\ Len(window[s]) <= WindowSize
       /\ sum[s] \in Nat
  /\ \A t \in {baseline, file, data} :
       DOMAIN t \subseteq Sensor /\ \A s \in DOMAIN t : t[s] \in Nat
  /\ previous \in [Sensor -> Nat]
  /\ payload \in [Sensor -> {"none", "fault", "weight"}]
  /\ age \in -ClockBack..Never
  /\ current \in {"none", "performance", "ondemand"}
  /\ governor \in {"performance", "ondemand"} /\ enabled \in BOOLEAN
  /\ emptied \subseteq Sensor /\ damaged \in BOOLEAN
  /\ changes \in 0..MaxChanges /\ kills \in 0..MaxKills /\ faults \in 0..MaxFaults

\* Between two sweeps the file holds the baseline of every sensor, whichever
\* of them was tared last and however often the process was restarted, unless a
\* rewrite was cut short or a read or write of the file failed.
BaselinesSaved ==
  pc \in {"begin", "end", "sleep"} /\ ~damaged => file = baseline

\* The sensor has read the same value for a whole window, and reported it.
Steady(s, value) ==
  /\ pc \in {"begin", "end", "sleep"} /\ payload[s] = "weight"
  /\ Full(window[s])
  /\ \A i \in 1..WindowSize : window[s][i] = value

\* Once a sensor has seen the empty shelf, what is put on it later is never
\* taken for drift as a whole: the weight is reported, short of it by at most
\* near_zero_threshold, whichever averages the filter went through while the
\* load came and went, and also after a restart with the load on the shelf.
LoadsReported ==
  \A s \in emptied, value \in {Clean(raw) : raw \in Raw} :
    Steady(s, value) /\ ~damaged =>
      previous[s] \in Grams[Corrected(value, NearZero)] .. Grams[value]

\* When nothing changes on the shelf any more, polling and CPU go back to idle,
\* from any clock step, failed read or restart, unless the governor is disabled.
QuietsDown ==
  <>[](pc # "down") =>
    <>[](~IsActive /\ (enabled /\ pc \notin {"begin", "down"}
                         => governor = "ondemand"))
=============================================================================
