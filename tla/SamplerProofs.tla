---------------------------- MODULE SamplerProofs ----------------------------
(***************************************************************************)
(* What Process A keeps true, for all sensors, windows and readings: the    *)
(* types, the shared file (BaselinesSaved) and the reported loads           *)
(* (LoadsReported).  Each has its part of the inductive invariant:          *)
(*                                                                         *)
(* TypeInv    the running sum is the sum of the buffer, so that an average  *)
(*            is one of readings and has a weight                           *)
(* SavedInv   what the rewrite under way will leave in the file is the      *)
(*            dictionary in memory                                          *)
(* LowInv     once the shelf was seen empty the baseline is near zero       *)
(* ReportInv  the last weight is what the window and the baseline give      *)
(***************************************************************************)
EXTENDS FilterProofs

-----------------------------------------------------------------------------
(* Types *)

\* what runs between the baseline and the weight of the sensor under way
Underway == pc \in {"rewrite", "dump", "send"}

ControlTypes ==
  /\ pc \in Location /\ at \in DOMAIN SensorSequence
  /\ load \in [Sensor -> Raw] /\ bus \in BOOLEAN
  /\ missing \subseteq Adc
  /\ current \in {"none", "performance", "ondemand"}
  /\ governor \in {"performance", "ondemand"} /\ enabled \in BOOLEAN
  /\ damaged \in BOOLEAN

FilterTypes ==
  /\ window \in [Sensor -> Seq(Reading)] /\ sum \in [Sensor -> Nat]
  /\ \A s \in Sensor : Len(window[s]) <= WindowSize /\ IsSum(sum[s], window[s])
  /\ emptied \subseteq Sensor

IsTable(t) ==
  /\ t = [s \in DOMAIN t |-> t[s]] /\ DOMAIN t \subseteq Sensor
  /\ \A s \in DOMAIN t : t[s] \in Nat

TableTypes ==
  /\ IsTable(baseline) /\ IsTable(file) /\ IsTable(data)
  /\ Underway => This \in DOMAIN baseline /\ window[This] # << >>

ReportTypes ==
  /\ previous \in [Sensor -> Nat]
  /\ payload \in [Sensor -> {"none", "fault", "weight"}]
  /\ age \in -ClockBack..Never

Counters ==
  changes \in 0..MaxChanges /\ kills \in 0..MaxKills /\ faults \in 0..MaxFaults

TypeInv ==
  ControlTypes /\ FilterTypes /\ TableTypes /\ ReportTypes /\ Counters

\* The initial state is typed.
LEMMA InitTypes == Init => TypeInv
<1> SUFFICES ASSUME Init PROVE TypeInv
  OBVIOUS
<1>1. 1 \in DOMAIN SensorSequence /\ Len(SensorSequence) \in Nat \ {0}
  BY SensorAssumption
<1>2. ControlTypes
  BY <1>1 DEF Init, ControlTypes, Location
<1>3. FilterTypes
  <2>1. << >> \in Seq(Reading) /\ Len(<< >>) = 0
    BY EmptySeq
  <2> QED
    BY <2>1, EmptySum, FilterAssumption DEF Init, FilterTypes
<1>4. TableTypes
  BY DEF Init, TableTypes, IsTable, Empty, Underway
<1>5. ReportTypes /\ Counters
  BY ActivityAssumption DEF Init, ReportTypes, Counters, Never
<1> QED
  BY <1>2, <1>3, <1>4, <1>5 DEF TypeInv

\* Faults, kills and changes stay within their bounds.
LEMMA CountersBounded == TypeInv /\ [Next]_vars => Counters'
<1> SUFFICES ASSUME TypeInv, [Next]_vars PROVE Counters'
  OBVIOUS
<1>1. /\ changes \in 0..MaxChanges /\ kills \in 0..MaxKills /\ faults \in 0..MaxFaults
      /\ MaxChanges \in Nat /\ MaxKills \in Nat /\ MaxFaults \in Nat
  BY ActivityAssumption DEF TypeInv, Counters
<1>2. Fault \/ UNCHANGED faults
  BY DEF Next, Cycle, Boot, BeginCycle, SetGovernor, FaultNotSent, MainEnds,
     SampleMissing, SampleFails, Sample, OpenForRewrite, Dump, Send, EndCycle, Sleep,
     ShelfChanges, BusDies, ClockStep, Kill, vars
<1>3. faults' \in 0..MaxFaults
  BY <1>1, <1>2 DEF Fault
<1>4. UNCHANGED changes \/ (changes < MaxChanges /\ changes' = changes + 1)
  BY DEF Next, Cycle, Boot, BeginCycle, FaultNotSent,
     SampleMissing, SampleFails, Sample, OpenForRewrite, Dump, Send, EndCycle, Sleep,
     ShelfChanges, BusDies, ClockStep, Kill, vars, worldVars
<1>5. UNCHANGED kills \/ (kills < MaxKills /\ kills' = kills + 1)
  BY DEF Next, Cycle, Boot, BeginCycle, FaultNotSent,
     SampleMissing, SampleFails, Sample, OpenForRewrite, Dump, Send, EndCycle, Sleep,
     ShelfChanges, BusDies, ClockStep, Kill, vars
<1> QED
  BY <1>1, <1>3, <1>4, <1>5 DEF Counters

\* Control, the world and the governor stay typed.
LEMMA ControlTyped == TypeInv /\ [Next]_vars => ControlTypes'
<1> SUFFICES ASSUME TypeInv, [Next]_vars PROVE ControlTypes'
  OBVIOUS
<1>1. ControlTypes /\ Len(SensorSequence) \in Nat \ {0}
      /\ DOMAIN SensorSequence = 1..Len(SensorSequence)
  BY SensorAssumption DEF TypeInv
<1>2. pc' \in Location
  BY <1>1 DEF ControlTypes, Location, Next, Cycle, Boot, BeginCycle, FaultNotSent, MainEnds,
     SampleMissing, SampleFails, NextSensor, Sample, OpenForRewrite, Dump, Send, EndCycle,
     Sleep, ShelfChanges, BusDies, ClockStep, Kill, vars
<1>3. at' \in DOMAIN SensorSequence
  <2>1. at' = at \/ at' = 1 \/ (at < Len(SensorSequence) /\ at' = at + 1)
    BY DEF Next, Cycle, Boot, BeginCycle, FaultNotSent, MainEnds,
       SampleMissing, SampleFails, NextSensor, Sample, OpenForRewrite, Dump, Send,
       EndCycle, Sleep, ShelfChanges, BusDies, ClockStep, Kill, vars
  <2> QED
    BY <1>1, <2>1 DEF ControlTypes
<1>4. load' \in [Sensor -> Raw] /\ bus' \in BOOLEAN
  <2>1. CASE ShelfChanges
    BY <1>1, <2>1 DEF ControlTypes, ShelfChanges
  <2>2. CASE BusDies
    BY <1>1, <2>2 DEF ControlTypes, BusDies
  <2>3. CASE ~ShelfChanges /\ ~BusDies
    <3>1. UNCHANGED <<load, bus>>
      BY <2>3 DEF Next, Cycle, Boot, BeginCycle, FaultNotSent,
         SampleMissing, SampleFails, Sample, OpenForRewrite, Dump, Send, EndCycle, Sleep,
         ClockStep, Kill, vars, worldVars
    <3> QED
      BY <1>1, <3>1 DEF ControlTypes
  <2> QED
    BY <2>1, <2>2, <2>3
<1>5. missing' \subseteq Adc
  BY <1>1 DEF ControlTypes, Next, Cycle, Boot, BeginCycle, FaultNotSent,
     SampleMissing, SampleFails, Sample, OpenForRewrite, Dump, Send, EndCycle, Sleep,
     ShelfChanges, BusDies, ClockStep, Kill, vars
<1>6. /\ current' \in {"none", "performance", "ondemand"}
      /\ governor' \in {"performance", "ondemand"} /\ enabled' \in BOOLEAN
  <2>1. CASE BeginCycle \/ EndCycle
    BY <1>1, <2>1 DEF ControlTypes, BeginCycle, EndCycle, SetGovernor, Target, governorVars
  <2>2. CASE FaultNotSent \/ Send
    BY <1>1, <2>2 DEF ControlTypes, FaultNotSent, Send, MainEnds
  <2>3. CASE Boot
    BY <1>1, <2>3 DEF ControlTypes, Boot, NoGovernor
  <2>4. CASE ~(BeginCycle \/ EndCycle \/ FaultNotSent \/ Send \/ Boot)
    <3>1. UNCHANGED <<current, governor, enabled>>
      BY <2>4 DEF Next, Cycle, SampleMissing, SampleFails, Sample, OpenForRewrite, Dump,
         Sleep, ShelfChanges, BusDies, ClockStep, Kill, vars, governorVars
    <3> QED
      BY <1>1, <3>1 DEF ControlTypes
  <2> QED
    BY <2>1, <2>2, <2>3, <2>4
<1>7. damaged' \in BOOLEAN
  BY <1>1 DEF ControlTypes, Next, Cycle, Boot, BeginCycle, FaultNotSent,
     SampleMissing, SampleFails, Sample, OpenForRewrite, Dump, Send, EndCycle, Sleep,
     ShelfChanges, BusDies, ClockStep, Kill, vars, fileVars
<1> QED
  BY <1>2, <1>3, <1>4, <1>5, <1>6, <1>7 DEF ControlTypes

\* The sweep is always at a sensor.
LEMMA ThisIsSensor == TypeInv => This \in Sensor
  BY DEF TypeInv, ControlTypes, This, Sensor

\* A reading lengthens or moves the window, which has an average again.
LEMMA ReadingTaken ==
  ASSUME TypeInv, NEW raw \in Raw
  PROVE  LET buffer == BufferAfter(window[This], Clean(raw))
             total  == SumAfter(sum[This], window[This], Clean(raw))
         IN /\ buffer \in Seq(Reading) /\ Len(buffer) \in 1..WindowSize
            /\ total \in Nat /\ IsSum(total, buffer)
            /\ Average(total, buffer) \in Nat
<1> DEFINE value  == Clean(raw)
           buffer == BufferAfter(window[This], value)
           total  == SumAfter(sum[This], window[This], value)
<1>1. value \in Reading /\ Reading \in SUBSET Nat
  BY ReadingHasWeight DEF Reading
<1> HIDE DEF value
<1>2. /\ window[This] \in Seq(Reading) /\ Len(window[This]) <= WindowSize
      /\ IsSum(sum[This], window[This])
  BY ThisIsSensor DEF TypeInv, FilterTypes
<1>3. /\ buffer \in Seq(Reading) /\ Len(buffer) \in 1..WindowSize
      /\ IsSum(total, buffer)
  BY <1>1, <1>2, SumKept
<1> HIDE DEF buffer, total
<1> PICK c \in DOMAIN Grams : c \in Nat /\ Reading \subseteq 0..c
  BY ReadingsBounded
<1>4. \A v \in Reading : 0 <= v /\ v <= c
  OBVIOUS
<1>5. buffer \in Seq(Nat)
  BY <1>1, <1>3, SeqMonotonic
<1>6. \A i \in 1..Len(buffer) : 0 <= buffer[i] /\ buffer[i] <= c
  <2>1. \A i \in 1..Len(buffer) : buffer[i] \in Reading
    BY <1>3
  <2> QED
    BY <1>4, <2>1
<1>7. total \in Nat
  BY <1>3, <1>4, <1>5, <1>6, SumBounds
<1>8. Average(total, buffer) \in Nat
  BY <1>3, <1>4, <1>5, <1>6, AverageBounds
<1> QED
  BY <1>3, <1>7, <1>8 DEF buffer, total, value

\* The filters stay the sums of their buffers.
LEMMA FilterTyped == TypeInv /\ [Next]_vars => FilterTypes'
<1> SUFFICES ASSUME TypeInv, [Next]_vars PROVE FilterTypes'
  OBVIOUS
<1>1. FilterTypes
  BY DEF TypeInv
<1>2. CASE Sample
  <2>1. load[This] \in Raw
    BY ThisIsSensor DEF TypeInv, ControlTypes
  <2> DEFINE buffer == BufferAfter(window[This], Clean(load[This]))
             total  == SumAfter(sum[This], window[This], Clean(load[This]))
  <2>2. /\ buffer \in Seq(Reading) /\ Len(buffer) \in 1..WindowSize
        /\ total \in Nat /\ IsSum(total, buffer)
    BY <2>1, ReadingTaken
  <2>3. /\ window' = [window EXCEPT ![This] = buffer]
        /\ sum' = [sum EXCEPT ![This] = total]
        /\ emptied' \in {emptied, emptied \cup {This}}
    BY <1>2 DEF Sample
  <2> HIDE DEF buffer, total
  <2>4. window' \in [Sensor -> Seq(Reading)] /\ sum' \in [Sensor -> Nat]
    BY <1>1, <2>2, <2>3 DEF FilterTypes
  <2>5. ASSUME NEW s \in Sensor
        PROVE  Len(window'[s]) <= WindowSize /\ IsSum(sum'[s], window'[s])
    BY <1>1, <2>2, <2>3, FilterAssumption DEF FilterTypes
  <2>6. emptied' \subseteq Sensor
    BY <1>1, <2>3, ThisIsSensor DEF FilterTypes
  <2> QED
    BY <2>4, <2>5, <2>6 DEF FilterTypes
<1>3. CASE Boot
  <2>1. << >> \in Seq(Reading) /\ Len(<< >>) = 0
    BY EmptySeq
  <2> QED
    BY <1>1, <1>3, <2>1, EmptySum, FilterAssumption DEF Boot, FilterTypes
<1>4. CASE ~Sample /\ ~Boot
  <2>1. UNCHANGED <<window, sum, emptied>>
    BY <1>4 DEF Next, Cycle, BeginCycle, FaultNotSent, SampleMissing, SampleFails,
       OpenForRewrite, Dump, Send, EndCycle, Sleep, ShelfChanges, BusDies, ClockStep,
       Kill, vars, sensorVars
  <2> QED
    BY <1>1, <2>1 DEF FilterTypes, IsSum
<1> QED
  BY <1>2, <1>3, <1>4

\* Baselines are natural numbers, and the sensor under way has one.
LEMMA TablesTyped == TypeInv /\ [Next]_vars => TableTypes'
<1> SUFFICES ASSUME TypeInv, [Next]_vars PROVE TableTypes'
  OBVIOUS
<1>1. TableTypes /\ This \in Sensor
  BY ThisIsSensor DEF TypeInv
<1>2. CASE Sample
  <2>1. load[This] \in Raw
    BY ThisIsSensor DEF TypeInv, ControlTypes
  <2> DEFINE buffer   == BufferAfter(window[This], Clean(load[This]))
             filtered == Average(SumAfter(sum[This], window[This], Clean(load[This])), buffer)
  <2>2. Len(buffer) \in 1..WindowSize /\ filtered \in Nat
    BY <2>1, ReadingTaken
  <2>3. /\ window' = [window EXCEPT ![This] = buffer]
        /\ UNCHANGED <<at, file, data>>
        /\ \/ /\ This \in DOMAIN baseline /\ UNCHANGED baseline
           \/ baseline' = [s \in DOMAIN baseline \cup {This} |->
                             IF s = This THEN filtered ELSE baseline[s]]
    BY <1>2 DEF Sample, fileVars
  <2> HIDE DEF filtered, buffer
  <2>4. IsTable(baseline') /\ This \in DOMAIN baseline'
    BY <1>1, <2>2, <2>3 DEF TableTypes, IsTable
  <2>5. window'[This] # << >>
    <3>1. window \in [Sensor -> Seq(Reading)]
      BY DEF TypeInv, FilterTypes
    <3> QED
      BY <1>1, <2>2, <2>3, <3>1
  <2>6. This' = This
    BY <2>3 DEF This
  <2> QED
    BY <1>1, <2>3, <2>4, <2>5, <2>6 DEF TableTypes, IsTable
<1>3. CASE Boot
  <2> PICK unread \in SUBSET DOMAIN file :
           baseline' = [s \in DOMAIN file \ unread |-> file[s]]
    BY <1>3 DEF Boot
  <2>1. UNCHANGED <<file, data>> /\ pc' = "begin"
    BY <1>3 DEF Boot
  <2> QED
    BY <1>1, <2>1 DEF TableTypes, IsTable, Underway
<1>4. CASE OpenForRewrite
  <2>1. /\ UNCHANGED <<at, baseline, window>> /\ pc = "rewrite"
        /\ file' \in {file, Empty} /\ data' \in {file, data, Empty}
    BY <1>4 DEF OpenForRewrite, KeptEntries, sensorVars
  <2>2. IsTable(Empty)
    BY DEF IsTable, Empty
  <2> QED
    BY <1>1, <2>1, <2>2 DEF TableTypes, IsTable, Underway, This
<1>5. CASE Dump
  <2>1. /\ UNCHANGED <<at, baseline, window>> /\ pc = "dump" /\ data' = Empty
        /\ \/ UNCHANGED file
           \/ file' = [s \in DOMAIN data \cup {This} |->
                         IF s = This THEN baseline[This] ELSE data[s]]
    BY <1>5 DEF Dump, sensorVars
  <2>2. IsTable(Empty)
    BY DEF IsTable, Empty
  <2>3. IsTable(file')
    BY <1>1, <2>1 DEF TableTypes, IsTable, Underway
  <2> QED
    BY <1>1, <2>1, <2>2, <2>3 DEF TableTypes, IsTable, Underway, This
<1>6. CASE Kill
  <2>1. UNCHANGED <<baseline, file>> /\ data' = Empty /\ pc' = "down"
    BY <1>6 DEF Kill, sensorVars
  <2>2. IsTable(Empty)
    BY DEF IsTable, Empty
  <2> QED
    BY <1>1, <2>1, <2>2 DEF TableTypes, IsTable, Underway
<1>7. CASE ~(Sample \/ Boot \/ OpenForRewrite \/ Dump \/ Kill)
  <2>1. /\ UNCHANGED <<baseline, file, data, window>>
        /\ pc' \notin {"rewrite", "dump", "send"} \/ UNCHANGED <<pc, at>>
    BY <1>7 DEF Next, Cycle, BeginCycle, FaultNotSent, MainEnds, SampleMissing,
       SampleFails, NextSensor, Send, EndCycle, Sleep, ShelfChanges, BusDies, ClockStep,
       vars, sensorVars, fileVars
  <2> QED
    BY <1>1, <2>1 DEF TableTypes, IsTable, Underway, This
<1> QED
  BY <1>2, <1>3, <1>4, <1>5, <1>6, <1>7

\* What is sent is a weight.
LEMMA WeightTyped ==
  ASSUME TypeInv, pc = "send"
  PROVE  Grams[Corrected(Filtered(This), baseline[This]) \div Unit] \in Nat
<1>1. This \in DOMAIN baseline /\ baseline[This] \in Nat /\ window[This] # << >>
  BY DEF TypeInv, TableTypes, IsTable, Underway
<1>2. /\ window[This] \in Seq(Reading) /\ Len(window[This]) <= WindowSize
      /\ IsSum(sum[This], window[This])
  BY ThisIsSensor DEF TypeInv, FilterTypes
<1>3. Len(window[This]) \in 1..WindowSize
  BY <1>1, <1>2, EmptySeq, FilterAssumption
<1> QED
  BY <1>1, <1>2, <1>3, CorrectedHasWeight DEF Filtered

\* Weights, payloads and the age of the last activity stay typed.
LEMMA ReportTyped == TypeInv /\ [Next]_vars => ReportTypes'
<1> SUFFICES ASSUME TypeInv, [Next]_vars PROVE ReportTypes'
  OBVIOUS
<1>1. /\ ReportTypes /\ This \in Sensor
      /\ Cooldown \in Nat \ {0} /\ ClockBack \in Nat
  BY ThisIsSensor, ActivityAssumption DEF TypeInv
<1>2. previous' \in [Sensor -> Nat]
  <2>1. CASE Send
    <3> DEFINE grams == Grams[Corrected(Filtered(This), baseline[This]) \div Unit]
    <3>1. grams \in Nat
      BY <2>1, WeightTyped DEF Send
    <3>2. previous' = [previous EXCEPT ![This] = grams]
      BY <2>1 DEF Send, PreviousAfter
    <3> HIDE DEF grams
    <3> QED
      BY <1>1, <3>1, <3>2 DEF ReportTypes
  <2>2. CASE ~Send
    <3>1. UNCHANGED previous \/ previous' = [s \in Sensor |-> 0]
      BY <2>2 DEF Next, Cycle, Boot, BeginCycle, FaultNotSent, SampleMissing,
         SampleFails, Sample, OpenForRewrite, Dump, EndCycle, Sleep, ShelfChanges,
         BusDies, ClockStep, Kill, vars, reportVars
    <3> QED
      BY <1>1, <3>1 DEF ReportTypes
  <2> QED
    BY <2>1, <2>2
<1>3. payload' \in [Sensor -> {"none", "fault", "weight"}]
  <2>1. \/ UNCHANGED payload
        \/ payload' = [payload EXCEPT ![This] = "fault"]
        \/ payload' = [payload EXCEPT ![This] = "weight"]
    BY DEF Next, Cycle, Boot, BeginCycle, FaultNotSent, SampleMissing,
       SampleFails, SendFault, Sample, OpenForRewrite, Dump, Send, EndCycle, Sleep,
       ShelfChanges, BusDies, ClockStep, Kill, vars, reportVars
  <2> QED
    BY <1>1, <2>1 DEF ReportTypes
<1>4. age' \in -ClockBack..Never
  <2>1. \/ UNCHANGED age \/ age' \in {0, Never, Cooldown}
        \/ age < Cooldown /\ age' = age + 1
        \/ age' = age - ClockBack /\ age' >= -ClockBack
    BY DEF Next, Cycle, Boot, BeginCycle, FaultNotSent, SampleMissing, IsActive,
       SampleFails, SendFault, Sample, OpenForRewrite, Dump, Send, EndCycle, Sleep,
       ShelfChanges, BusDies, ClockStep, Kill, vars, reportVars
  <2> QED
    BY <1>1, <2>1 DEF ReportTypes, Never
<1> QED
  BY <1>2, <1>3, <1>4 DEF ReportTypes

\* Every step keeps the types.
LEMMA NextTypes == TypeInv /\ [Next]_vars => TypeInv'
  BY ControlTyped, FilterTyped, TablesTyped, ReportTyped, CountersBounded DEF TypeInv

\* running_sum and the baselines never turn negative, no buffer is longer than
\* its window, and every value that is sent has a weight.
THEOREM TypesCorrect == Spec => []TypeOK
<1>1. TypeInv => TypeOK
  <2> SUFFICES ASSUME TypeInv PROVE TypeOK
    OBVIOUS
  <2>1. \A s \in Sensor :
          /\ window[s] \in Seq(Nat) /\ Len(window[s]) <= WindowSize
          /\ sum[s] \in Nat
    <3>1. Reading \subseteq Nat
      BY ReadingHasWeight
    <3> QED
      BY <3>1, SeqMonotonic DEF TypeInv, FilterTypes
  <2>2. \A t \in {baseline, file, data} :
          DOMAIN t \subseteq Sensor /\ \A s \in DOMAIN t : t[s] \in Nat
    BY DEF TypeInv, TableTypes, IsTable
  <2>3. ControlTypes /\ ReportTypes /\ Counters /\ emptied \subseteq Sensor
    BY DEF TypeInv, FilterTypes
  <2> QED
    BY <2>1, <2>2, <2>3 DEF TypeOK, ControlTypes, ReportTypes, Counters
<1> QED
  BY <1>1, InitTypes, NextTypes, PTL DEF Spec

\* running_sum is kept by adding and subtracting and never computed afresh; it
\* is the sum of the buffer all the same, through every fault and restart.
THEOREM SumIsRight == Spec => [](\A s \in Sensor : IsSum(sum[s], window[s]))
<1>1. TypeInv => \A s \in Sensor : IsSum(sum[s], window[s])
  BY DEF TypeInv, FilterTypes
<1> QED
  BY <1>1, InitTypes, NextTypes, PTL DEF Spec

-----------------------------------------------------------------------------
(* Baselines: a tare changes the baseline in memory first and the file two
   steps later, by what was read of it in between *)

\* what a rewrite makes of a table
With(table) ==
  [s \in DOMAIN table \cup {This} |-> IF s = This THEN baseline[This] ELSE table[s]]

Rewritten ==
  /\ pc \notin {"down", "rewrite", "dump"} => file = baseline
  /\ pc = "rewrite" => baseline = With(file)
  /\ pc = "dump" => baseline = With(data)

SavedInv ==
  /\ damaged \in BOOLEAN
  /\ file = [s \in DOMAIN file |-> file[s]]
  /\ ~damaged => Rewritten

-----------------------------------------------------------------------------
\* Nothing is saved and nothing runs at the beginning.
LEMMA InitSaved == Init => SavedInv
  BY DEF Init, SavedInv, Rewritten, Empty

\* A baseline that is taken anew differs from the file in its own entry only.
LEMMA SampleSaved ==
  ASSUME SavedInv, Sample
  PROVE  SavedInv'
<1>1. /\ pc = "sample" /\ pc' \in {"rewrite", "send"}
      /\ UNCHANGED <<at, file, data, damaged>>
  BY DEF Sample, fileVars
<1>2. CASE baseline' = baseline /\ pc' = "send"
  BY <1>1, <1>2 DEF SavedInv, Rewritten
<1>3. CASE pc' = "rewrite"
  <2>1. PICK filtered : baseline' = [s \in DOMAIN baseline \cup {This} |->
                              IF s = This THEN filtered ELSE baseline[s]]
    BY <1>1, <1>3 DEF Sample
  <2>2. This' = This
    BY <1>1 DEF This
  <2>3. baseline'[This] = filtered
    BY <2>1
  <2>4. ASSUME ~damaged PROVE baseline' = With(file)'
    <3>1. file = baseline
      BY <1>1, <2>4 DEF SavedInv, Rewritten
    <3> QED
      BY <1>1, <2>1, <2>2, <2>3, <3>1 DEF With
  <2> QED
    BY <1>1, <1>3, <2>4 DEF SavedInv, Rewritten
<1> QED
  BY <1>1, <1>2, <1>3 DEF Sample

\* The rewrite puts back what it has read, with the new entry.
LEMMA RewriteSaved ==
  ASSUME SavedInv, OpenForRewrite \/ Dump
  PROVE  SavedInv'
<1>1. /\ UNCHANGED <<at, baseline>>
      /\ damaged' \in BOOLEAN /\ (damaged => damaged')
  BY DEF SavedInv, OpenForRewrite, Dump, sensorVars
<1>2. This' = This
  BY <1>1 DEF This
<1>3. CASE damaged'
  BY <1>1, <1>3 DEF SavedInv, OpenForRewrite, Dump, Empty
<1>4. CASE ~damaged' /\ OpenForRewrite
  <2>1. data' = file /\ file' = Empty /\ pc = "rewrite" /\ pc' = "dump"
    BY <1>4 DEF OpenForRewrite, KeptEntries
  <2>2. baseline = With(file)
    BY <1>1, <1>4, <2>1 DEF SavedInv, Rewritten
  <2>3. baseline' = With(data)'
    BY <1>1, <1>2, <2>1, <2>2 DEF With
  <2> QED
    BY <1>1, <2>1, <2>3 DEF SavedInv, Rewritten, Empty
<1>5. CASE ~damaged' /\ Dump
  <2>1. file' = With(data) /\ pc = "dump" /\ pc' = "send"
    BY <1>5 DEF Dump, With
  <2>2. baseline = With(data)
    BY <1>1, <1>5, <2>1 DEF SavedInv, Rewritten
  <2>3. file' = [s \in DOMAIN file' |-> file'[s]]
    BY <2>1 DEF With
  <2> QED
    BY <1>1, <2>1, <2>2, <2>3 DEF SavedInv, Rewritten
<1> QED
  BY <1>1, <1>3, <1>4, <1>5

\* A restart reads back what was saved.
LEMMA BootSaved ==
  ASSUME SavedInv, Boot
  PROVE  SavedInv'
<1> PICK unread \in SUBSET DOMAIN file :
         /\ baseline' = [s \in DOMAIN file \ unread |-> file[s]]
         /\ damaged' = (damaged \/ unread # {})
  BY DEF Boot
<1>1. file' = file /\ pc' = "begin"
  BY DEF Boot
<1>2. unread = {} => baseline' = file
  BY DEF SavedInv
<1>3. damaged' \in BOOLEAN /\ (~damaged' => unread = {})
  BY Zenon DEF SavedInv
<1>4. CASE damaged'
  BY <1>1, <1>3, <1>4 DEF SavedInv
<1>5. CASE ~damaged'
  BY <1>1, <1>2, <1>3, <1>5 DEF SavedInv, Rewritten
<1> QED
  BY <1>3, <1>4, <1>5

\* No other step touches the file or the baselines, or it ends the process.
LEMMA OtherSaved ==
  ASSUME SavedInv,
         \/ BeginCycle \/ SampleMissing \/ SampleFails \/ FaultNotSent \/ Send
         \/ EndCycle \/ Sleep \/ ShelfChanges \/ BusDies \/ ClockStep \/ Kill
         \/ UNCHANGED vars
  PROVE  SavedInv'
<1>1. CASE Kill
  BY <1>1 DEF SavedInv, Rewritten, Kill
<1>2. CASE \/ BeginCycle \/ SampleMissing \/ SampleFails \/ FaultNotSent \/ Send
           \/ EndCycle \/ Sleep
  <2>1. /\ UNCHANGED <<baseline, file, data, damaged>>
        /\ pc \notin {"down", "rewrite", "dump"} /\ pc' \notin {"rewrite", "dump"}
    BY <1>2
    DEF BeginCycle, SampleMissing, SampleFails, FaultNotSent, Send, EndCycle, Sleep,
        MainEnds, NextSensor, sensorVars, fileVars
  <2> QED
    BY <2>1 DEF SavedInv, Rewritten
<1>3. CASE ShelfChanges \/ BusDies \/ ClockStep \/ UNCHANGED vars
  <2>1. UNCHANGED <<pc, at, baseline, file, data, damaged>>
    BY <1>3 DEF ShelfChanges, BusDies, ClockStep, vars, sensorVars, fileVars
  <2> QED
    BY <2>1 DEF SavedInv, Rewritten, With, This
<1> QED
  BY <1>1, <1>2, <1>3

\* Every step keeps the invariant.
LEMMA NextSaved == SavedInv /\ [Next]_vars => SavedInv'
  BY SampleSaved, RewriteSaved, BootSaved, OtherSaved DEF Next, Cycle

-----------------------------------------------------------------------------
\* Between two sweeps the file holds the baseline of every sensor, unless a
\* rewrite was cut short or a read or write of the file failed.
THEOREM NoBaselineLost == Spec => []BaselinesSaved
<1>1. SavedInv => BaselinesSaved
  BY DEF SavedInv, Rewritten, BaselinesSaved
<1> QED
  BY <1>1, InitSaved, NextSaved, PTL DEF Spec

-----------------------------------------------------------------------------
(* Loads: what a steady reading is worth *)

\* A sensor that has seen the empty shelf has a baseline near zero ...
Low(table) ==
  \A s \in emptied : s \in DOMAIN table /\ table[s] <= NearZero * Unit

\* ... in memory while the process runs, and in the file while it does not.
LowInv == ~damaged => IF pc = "down" THEN Low(file) ELSE Low(baseline)

\* The last payload of a sensor is what its window and its baseline give: both
\* change only on the way to the next payload.
UpToDate(s) ==
  /\ s \in DOMAIN baseline
  /\ previous[s] = Grams[Corrected(Filtered(s), baseline[s]) \div Unit]

ReportInv ==
  \A s \in Sensor :
    /\ pc # "down" /\ payload[s] = "weight" /\ window[s] # << >>
    /\ ~(Underway /\ s = This)
    => UpToDate(s)

IInv == TypeInv /\ SavedInv /\ LowInv /\ ReportInv

\* Nothing has been emptied, taken in or reported at the beginning.
LEMMA InitIInv == Init => IInv
<1>1. Init => LowInv /\ ReportInv
  BY DEF Init, LowInv, Low, ReportInv
<1> QED
  BY <1>1, InitTypes, InitSaved DEF IInv

\* When the process ends outside a rewrite, the file holds the baselines; when
\* it ends within one, the file counts as damaged.
LEMMA LowKept == IInv /\ [Next]_vars => LowInv'
<1> SUFFICES ASSUME IInv, [Next]_vars, ~damaged'
             PROVE  (IF pc = "down" THEN Low(file) ELSE Low(baseline))'
  BY DEF LowInv
<1>1. /\ TypeInv /\ This \in Sensor /\ TableTypes /\ FilterTypes
      /\ NearZero * Unit \in Nat /\ damaged \in BOOLEAN
  BY ThisIsSensor, FilterAssumption DEF IInv, TypeInv, ControlTypes
<1>2. ~damaged
  BY <1>1 DEF Next, Cycle, Boot, BeginCycle, FaultNotSent, SampleMissing, SampleFails,
     Sample, OpenForRewrite, Dump, Send, EndCycle, Sleep, ShelfChanges, BusDies,
     ClockStep, Kill, vars, fileVars
<1>3. /\ IF pc = "down" THEN Low(file) ELSE Low(baseline)
      /\ pc \notin {"down", "rewrite", "dump"} => file = baseline
  BY <1>2 DEF IInv, LowInv, SavedInv, Rewritten
<1>4. CASE Sample
  <2>1. load[This] \in Raw
    BY <1>1 DEF TypeInv, ControlTypes
  <2> DEFINE buffer   == BufferAfter(window[This], Clean(load[This]))
             total    == SumAfter(sum[This], window[This], Clean(load[This]))
             filtered == Average(total, buffer)
             empty    == Full(buffer) /\ total = 0
  <2>2. filtered \in Nat
    BY <1>1, <2>1, ReadingTaken
  <2>3. /\ pc = "sample" /\ pc' # "down"
        /\ emptied' = IF empty THEN emptied \cup {This} ELSE emptied
        /\ \/ /\ This \in DOMAIN baseline /\ ~Drifted(filtered, baseline[This])
              /\ UNCHANGED baseline
           \/ /\ This \in DOMAIN baseline => Drifted(filtered, baseline[This])
              /\ baseline' = [s \in DOMAIN baseline \cup {This} |->
                                IF s = This THEN filtered ELSE baseline[s]]
    BY <1>4 DEF Sample
  <2>4. empty => filtered = 0
    <3>1. Len(buffer) \in 1..WindowSize
      BY <1>1, <2>1, ReadingTaken
    <3>2. Len(buffer) \in Nat \ {0} /\ Unit \in Nat
      BY <3>1, FilterAssumption
    <3> HIDE DEF buffer, total
    <3>3. Unit \div Len(buffer) \in Nat
      BY <3>2
    <3> QED
      BY <3>3 DEF Average
  <2> HIDE DEF filtered, empty
  <2>5. ASSUME NEW s \in emptied'
        PROVE  s \in DOMAIN baseline' /\ baseline'[s] <= NearZero * Unit
    <3>1. s \in emptied => s \in DOMAIN baseline /\ baseline[s] <= NearZero * Unit
      BY <1>3, <2>3 DEF Low
    <3>2. CASE s # This
      BY <2>3, <2>5, <3>1, <3>2
    <3>3. CASE s = This /\ UNCHANGED baseline
      <4>1. CASE empty
        <5>1. baseline[This] \in Nat
          BY <1>1, <2>3, <3>3, <3>1 DEF TableTypes, IsTable
        <5> QED
          BY <1>1, <2>3, <2>4, <3>1, <3>3, <4>1, <5>1, KeptOnEmpty
      <4> QED
        BY <2>3, <2>5, <3>1, <3>3, <4>1
    <3>4. CASE s = This /\ baseline' # baseline
      <4>1. This \in DOMAIN baseline' /\ baseline'[This] = filtered
        BY <2>3, <3>4
      <4>2. empty \/ s \in emptied
        BY <2>3, <2>5, <3>4
      <4>3. filtered <= NearZero * Unit
        BY <1>1, <2>2, <2>3, <2>4, <3>1, <3>4, <4>2 DEF Drifted
      <4> QED
        BY <3>4, <4>1, <4>3
    <3> QED
      BY <3>2, <3>3, <3>4
  <2> QED
    BY <2>3, <2>5 DEF Low
<1>5. CASE Boot
  <2>1. /\ pc = "down" /\ pc' = "begin" /\ UNCHANGED emptied
        /\ \E unread \in SUBSET DOMAIN file :
             /\ baseline' = [s \in DOMAIN file \ unread |-> file[s]]
             /\ damaged' = (damaged \/ unread # {})
    BY <1>5 DEF Boot
  <2>2. PICK unread \in SUBSET DOMAIN file :
             /\ baseline' = [s \in DOMAIN file \ unread |-> file[s]]
             /\ damaged' = (damaged \/ unread # {})
    BY <2>1
  <2>3. unread = {}
    BY Zenon, <2>2
  <2> QED
    BY <1>3, <2>1, <2>2, <2>3 DEF Low
<1>6. CASE Kill \/ FaultNotSent \/ Send
  <2>1. /\ UNCHANGED <<file, baseline, emptied>>
        /\ pc \notin {"down", "rewrite", "dump"}
    BY <1>6 DEF Kill, FaultNotSent, Send, sensorVars, fileVars
  <2> QED
    BY <1>3, <2>1 DEF Low
<1>7. CASE OpenForRewrite \/ Dump
  <2>1. UNCHANGED <<baseline, emptied>> /\ pc # "down" /\ pc' # "down"
    BY <1>7 DEF OpenForRewrite, Dump, sensorVars
  <2> QED
    BY <1>3, <2>1 DEF Low
<1>8. CASE ~(\/ Sample \/ Boot \/ Kill \/ FaultNotSent \/ Send
             \/ OpenForRewrite \/ Dump)
  <2>1. /\ UNCHANGED <<file, baseline, emptied>>
        /\ pc = "down" <=> pc' = "down"
    BY <1>8 DEF Next, Cycle, BeginCycle, SampleMissing, SampleFails, NextSensor,
       EndCycle, Sleep, ShelfChanges, BusDies, ClockStep, vars, sensorVars, fileVars
  <2> QED
    BY <1>3, <2>1 DEF Low
<1> QED
  BY <1>4, <1>5, <1>6, <1>7, <1>8

\* A sensor's window and baseline change in its own turn only, which ends with a
\* payload, a fault, or the process.
LEMMA ReportKept == IInv /\ [Next]_vars => ReportInv'
<1> SUFFICES ASSUME IInv, [Next]_vars, NEW s \in Sensor,
                    (/\ pc # "down" /\ payload[s] = "weight" /\ window[s] # << >>
                     /\ ~(Underway /\ s = This))'
             PROVE  UpToDate(s)'
  BY DEF ReportInv
<1>1. /\ TypeInv /\ This \in Sensor /\ TableTypes /\ ReportInv
      /\ window \in [Sensor -> Seq(Reading)] /\ sum \in [Sensor -> Nat]
      /\ previous \in [Sensor -> Nat] /\ DOMAIN payload = Sensor
  BY ThisIsSensor DEF IInv, TypeInv, FilterTypes, ReportTypes
<1>2. ASSUME UNCHANGED <<window, sum, previous>>,
             s \in DOMAIN baseline => s \in DOMAIN baseline' /\ baseline'[s] = baseline[s],
             pc # "down", payload[s] = "weight", ~(Underway /\ s = This)
      PROVE  UpToDate(s)'
  BY <1>1, <1>2 DEF ReportInv, UpToDate, Filtered
<1>3. CASE Sample
  <2>1. /\ pc = "sample" /\ pc' \in {"rewrite", "send"}
        /\ UNCHANGED <<at, payload, previous>>
    BY <1>3 DEF Sample, reportVars
  <2>2. s # This
    BY <2>1 DEF Underway, This
  <2>3. /\ window'[s] = window[s] /\ sum'[s] = sum[s]
        /\ s \in DOMAIN baseline => s \in DOMAIN baseline' /\ baseline'[s] = baseline[s]
    BY <1>1, <1>3, <2>2 DEF Sample
  <2>4. UpToDate(s)
    BY <1>1, <2>1, <2>2, <2>3 DEF ReportInv, Underway
  <2> QED
    BY <2>1, <2>3, <2>4 DEF UpToDate, Filtered
<1>4. CASE Send
  <2>1. /\ pc = "send" /\ UNCHANGED <<window, sum, baseline>> /\ pc' \in {"sample", "end"}
        /\ previous' = [previous EXCEPT ![This] =
                          Grams[Corrected(Filtered(This), baseline[This]) \div Unit]]
        /\ payload' \in {[payload EXCEPT ![This] = "weight"],
                         [payload EXCEPT ![This] = "fault"]}
    BY <1>4 DEF Send, PreviousAfter, SendFault, NextSensor, MainEnds, sensorVars
  <2>2. CASE s = This
    <3>1. This \in DOMAIN baseline
      BY <1>1, <2>1 DEF TableTypes, Underway
    <3> QED
      BY <1>1, <2>1, <2>2, <3>1 DEF UpToDate, Filtered
  <2>3. CASE s # This
    <3>1. previous'[s] = previous[s] /\ payload[s] = "weight"
      BY <1>1, <2>1, <2>3
    <3>2. UpToDate(s)
      BY <1>1, <2>1, <2>3, <3>1 DEF ReportInv
    <3> QED
      BY <2>1, <3>1, <3>2 DEF UpToDate, Filtered
  <2> QED
    BY <2>2, <2>3
<1>5. CASE OpenForRewrite \/ Dump
  <2>1. /\ UNCHANGED <<window, sum, baseline, previous, payload, at>>
        /\ pc \in {"rewrite", "dump"} /\ pc' \in {"dump", "send"}
    BY <1>5 DEF OpenForRewrite, Dump, sensorVars, reportVars
  <2> QED
    BY <1>2, <2>1 DEF Underway, This
<1>6. CASE SampleMissing \/ SampleFails
  <2>1. /\ UNCHANGED <<window, sum, baseline, previous>> /\ pc = "sample"
        /\ payload' = [payload EXCEPT ![This] = "fault"]
    BY <1>6 DEF SampleMissing, SampleFails, SendFault, sensorVars
  <2>2. payload[s] = "weight"
    BY <1>1, <2>1
  <2> QED
    BY <1>2, <2>1, <2>2 DEF Underway
<1>7. CASE Boot
  BY <1>7 DEF Boot
<1>8. CASE Kill \/ FaultNotSent
  BY <1>8 DEF Kill, FaultNotSent, MainEnds
<1>9. CASE ~(\/ Sample \/ Send \/ OpenForRewrite \/ Dump \/ SampleMissing
             \/ SampleFails \/ Boot \/ Kill \/ FaultNotSent)
  <2>1. /\ UNCHANGED <<window, sum, baseline, previous, payload, at>>
        /\ UNCHANGED pc \/ pc \in {"begin", "end", "sleep"}
    BY <1>9 DEF Next, Cycle, BeginCycle, EndCycle, Sleep, ShelfChanges, BusDies,
       ClockStep, vars, sensorVars, reportVars
  <2>2. pc # "down" /\ ~(Underway /\ s = This)
    BY <1>9, <2>1 DEF Underway, This, Next, Cycle, BeginCycle, EndCycle, Sleep,
       ShelfChanges, BusDies, ClockStep, vars
  <2> QED
    BY <1>2, <2>1, <2>2
<1> QED
  BY <1>3, <1>4, <1>5, <1>6, <1>7, <1>8, <1>9

\* Every step keeps the invariant.
LEMMA NextIInv == IInv /\ [Next]_vars => IInv'
  BY NextTypes, NextSaved, LowKept, ReportKept DEF IInv

\* In a steady window the average is the reading.
LEMMA SteadyAverage ==
  ASSUME IInv, NEW s \in Sensor, NEW value \in Reading, Steady(s, value)
  PROVE  Filtered(s) = value * Unit
<1>1. /\ window[s] \in Seq(Reading) /\ IsSum(sum[s], window[s])
      /\ Len(window[s]) = WindowSize /\ WindowSize \in Nat \ {0}
      /\ \A i \in 1..Len(window[s]) : window[s][i] = value
  BY FilterAssumption DEF IInv, TypeInv, FilterTypes, Steady, Full
<1>2. window[s] \in Seq(Nat) /\ value \in Nat
  BY <1>1, SeqMonotonic, ReadingHasWeight
<1>3. \A i \in 1..Len(window[s]) : value <= window[s][i] /\ window[s][i] <= value
  BY <1>1, <1>2
<1>4. /\ Average(sum[s], window[s]) \in Nat
      /\ value * Unit <= Average(sum[s], window[s])
      /\ Average(sum[s], window[s]) <= value * Unit
  <2>1. Len(window[s]) \in 1..WindowSize
    BY <1>1
  <2> QED
    BY <1>1, <1>2, <1>3, <2>1, AverageBounds
<1>5. value * Unit \in Nat
  BY <1>2, FilterAssumption
<1> QED
  BY <1>4, <1>5 DEF Filtered

\* Once a sensor has seen the empty shelf, what is put on it later is never
\* taken for drift as a whole: the weight is reported, short of it by at most
\* near_zero_threshold, also after a restart with the load on the shelf.
THEOREM LoadsAreReported == Spec => []LoadsReported
<1>1. IInv => LoadsReported
  <2> SUFFICES ASSUME IInv, NEW s \in emptied, NEW value \in Reading,
                      Steady(s, value), ~damaged
               PROVE  previous[s] \in Grams[Corrected(value, NearZero)] .. Grams[value]
    BY DEF LoadsReported, Reading
  <2>1. s \in Sensor /\ pc \in {"begin", "end", "sleep"} /\ payload[s] = "weight"
    BY DEF IInv, TypeInv, FilterTypes, Steady
  <2>2. window[s] # << >>
    BY FilterAssumption, EmptySeq DEF Steady, Full
  <2>3. previous[s] = Grams[Corrected(value * Unit, baseline[s]) \div Unit]
    BY <2>1, <2>2, SteadyAverage DEF IInv, ReportInv, UpToDate, Underway
  <2>4. /\ s \in DOMAIN baseline /\ baseline[s] <= NearZero * Unit
        /\ baseline[s] \in Nat
    BY <2>1 DEF IInv, LowInv, Low, TypeInv, TableTypes, IsTable
  <2> QED
    BY <2>3, <2>4, WeightOfSteady
<1> QED
  BY <1>1, InitIInv, NextIInv, PTL DEF Spec

\* The compensation never carries the baseline of a sensor that has seen the
\* empty shelf above near_zero_threshold, whatever settles on it.
THEOREM BaselinesStayLow ==
  Spec => [](~damaged /\ pc # "down" => \A s \in emptied : baseline[s] <= NearZero * Unit)
<1>1. IInv => (~damaged /\ pc # "down" =>
                 \A s \in emptied : baseline[s] <= NearZero * Unit)
  BY DEF IInv, LowInv, Low
<1> QED
  BY <1>1, InitIInv, NextIInv, PTL DEF Spec
=============================================================================
