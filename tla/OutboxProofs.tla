---------------------------- MODULE OutboxProofs ----------------------------
(***************************************************************************)
(* Proofs about Outbox for every set of readings, batch size, threshold and *)
(* bound on failures.                                                       *)
(***************************************************************************)
EXTENDS Outbox, Minimal, TLAPS

-----------------------------------------------------------------------------
(* The inductive invariant *)

Unclaimed == {"unsent", "dropped", "execute"}
Undisturbed == ~ErrorRollsBack \/ faults = 0

\* Where a reading can be, given the life of its insert.
TaskInv ==
  \A r \in Reading :
    /\ task[r] \in Unclaimed =>
         /\ r \notin DOMAIN db /\ r \notin DOMAIN disk
         /\ r \notin batch /\ r \notin acked /\ r \notin handled
    /\ Undisturbed /\ task[r] = "commit" => r \in DOMAIN db \/ r \in acked
    /\ Undisturbed /\ task[r] = "persisted" => r \in DOMAIN disk \/ r \in acked
    /\ r \in Valid => task[r] # "dropped"
    /\ faults = 0 => task[r] # "failed"

\* What the drainer takes as acknowledged has been handled by the backend.
HandledInv ==
  /\ acked \subseteq handled
  /\ pc = "answer" /\ reply = "ok" => Group \subseteq handled
  /\ pc = "delete" => Group \subseteq acked

\* The connection is ahead of the disk: it has deleted only acknowledged rows,
\* none of them quarantined, and has only raised reject_counts.
TablesInv ==
  \A r \in DOMAIN disk :
    /\ r \notin DOMAIN db => r \in acked /\ disk[r] < Threshold
    /\ r \in DOMAIN db => disk[r] <= db[r]

\* A claimed row stays below the threshold until its group is settled.
BatchInv ==
  \A r \in batch :
    /\ r \in DOMAIN db => db[r] < Threshold
    /\ r \in DOMAIN disk => disk[r] < Threshold

\* No table counts more refusals than the backend sent; one that is about to be
\* counted is not counted yet.
RefusalInv ==
  /\ \A r \in DOMAIN db : db[r] <= refused[r]
  /\ \A r \in DOMAIN disk : disk[r] <= refused[r]
  /\ pc = "bump" \/ (pc = "answer" /\ reply = "permanent") =>
       \A r \in Group : /\ r \in DOMAIN db => db[r] < refused[r]
                        /\ r \in DOMAIN disk => disk[r] < refused[r]

\* Without a fault an acknowledged reading is on its way out or gone.
AckInv ==
  faults = 0 =>
    /\ process # "crashed"
    /\ \A r \in acked :
         /\ r \in batch => pc = "delete" /\ r \in Group
         /\ r \in DOMAIN db => pc = "delete" /\ r \in Group
         /\ r \in DOMAIN disk => pc \in {"delete", "commit"}

ProcessInv ==
  process = "exited" =>
    pc = "stopped" /\ \A r \in Reading : task[r] \notin InFlight

IInv == TypeOK /\ TaskInv /\ HandledInv /\ TablesInv /\ BatchInv
          /\ RefusalInv /\ AckInv /\ ProcessInv

-----------------------------------------------------------------------------
(* Lemmas about the operators *)

\* The group that is posted is a part of the batch.
LEMMA GroupInBatch == Group \subseteq batch
  BY DEF Group

\* next_delay stays within the cap.
LEMMA NextDelayType ==
  ASSUME NEW current \in 0..BackoffCap
  PROVE  NextDelay(current) \in 0..BackoffCap
<1> current * BackoffFactor \in Nat
  BY BackoffAssumption
<1> QED BY BackoffAssumption DEF NextDelay

\* The client takes only a 2xx for success and only a refusal for permanent.
LEMMA OutcomeType ==
  \A wire \in Wire :
    /\ Outcome(wire) \in Replies
    /\ Outcome(wire) = "ok" => wire = "2xx"
    /\ Outcome(wire) = "permanent" => wire \in Refusal
  BY DEF Outcome, Wire, Replies, Refusal

-----------------------------------------------------------------------------
(* The invariant is inductive *)

\* The invariant holds in the empty outbox.
LEMMA InitIInv == Init => IInv
<1> SUFFICES ASSUME Init PROVE IInv
  OBVIOUS
<1>1. DOMAIN db = {} /\ DOMAIN disk = {}
  BY DEF Init
<1>2. IsTable(db) /\ IsTable(disk)
  BY <1>1 DEF Init, IsTable
<1>3. TypeOK
  <2>1. backoff \in 0..BackoffCap
    BY BackoffAssumption DEF Init
  <2>2. glitches \in 0..MaxGlitches /\ faults \in 0..MaxFaults
    BY EnvironmentAssumption DEF Init
  <2>3. task \in [Reading -> TaskState] /\ refused \in [Reading -> Nat]
    BY DEF Init, TaskState
  <2> QED
    BY <1>2, <2>1, <2>2, <2>3 DEF Init, TypeOK, DrainerState, Replies
<1>4. Group = {}
  BY GroupInBatch DEF Init
<1>5. TaskInv /\ AckInv /\ ProcessInv
  BY <1>1 DEF Init, TaskInv, AckInv, ProcessInv
<1>6. HandledInv /\ TablesInv /\ BatchInv /\ RefusalInv
  BY <1>1, <1>4 DEF Init, HandledInv, TablesInv, BatchInv, RefusalInv
<1> QED BY <1>3, <1>5, <1>6 DEF IInv

\* Every action of the listener, the drainer and the process keeps it.
LEMMA NextIInv == IInv /\ [Next]_vars => IInv'
<1> SUFFICES ASSUME IInv, [Next]_vars PROVE IInv'
  OBVIOUS
<1> USE DEF IInv
<1>1. ASSUME NEW r \in Reading, DatagramReceived(r) PROVE IInv'
  <2>1. TypeOK'
    BY <1>1, ThresholdAssumption, BackoffAssumption, EnvironmentAssumption DEF
       DatagramReceived, TypeOK, IsTable, TaskState, drainerVars, backendVars,
       budgetVars
  <2>2. TaskInv'
    BY <1>1 DEF DatagramReceived, TaskInv, drainerVars, backendVars, budgetVars,
       Unclaimed, Undisturbed
  <2>3. (HandledInv /\ TablesInv /\ BatchInv /\ RefusalInv
        /\ AckInv /\ ProcessInv)'
    BY <1>1, ThresholdAssumption, GroupInBatch DEF DatagramReceived, HandledInv,
       TablesInv, BatchInv, RefusalInv, AckInv, ProcessInv, Group, drainerVars,
       backendVars, budgetVars
  <2> QED BY <2>1, <2>2, <2>3
<1>2. ASSUME NEW r \in Reading, InsertExecute(r) PROVE IInv'
  <2>1. TypeOK'
    BY <1>2, ThresholdAssumption, BackoffAssumption, EnvironmentAssumption DEF
       InsertExecute, TypeOK, IsTable, TaskState, drainerVars, backendVars,
       budgetVars
  <2>2. TaskInv'
    BY <1>2 DEF InsertExecute, TaskInv, drainerVars, backendVars, budgetVars,
       Unclaimed, Undisturbed, TypeOK, TaskState
  <2>3. TablesInv'
    BY <1>2 DEF InsertExecute, TablesInv, drainerVars, backendVars, budgetVars,
       TaskInv, Unclaimed
  <2>4. BatchInv'
    BY <1>2, ThresholdAssumption DEF InsertExecute, BatchInv, drainerVars,
       backendVars, budgetVars, TypeOK, IsTable
  <2>5. RefusalInv'
    BY <1>2, ThresholdAssumption, GroupInBatch DEF InsertExecute, RefusalInv,
       drainerVars, backendVars, budgetVars, Group, TypeOK, IsTable, TaskInv,
       Unclaimed
  <2>6. AckInv'
    BY <1>2, GroupInBatch DEF InsertExecute, AckInv, drainerVars, backendVars,
       budgetVars, Group, TaskInv, Unclaimed
  <2>7. (HandledInv /\ ProcessInv)'
    BY <1>2, GroupInBatch DEF InsertExecute, HandledInv, ProcessInv, Group,
       drainerVars, backendVars, budgetVars
  <2> QED BY <2>1, <2>2, <2>3, <2>4, <2>5, <2>6, <2>7
<1>3. ASSUME NEW r \in Reading, InsertCommit(r) PROVE IInv'
  <2>1. TypeOK'
    BY <1>3, ThresholdAssumption, BackoffAssumption, EnvironmentAssumption DEF
       InsertCommit, TypeOK, IsTable, TaskState, Commit, drainerVars,
       backendVars, budgetVars
  <2>2. TaskInv'
    BY <1>3 DEF InsertCommit, TaskInv, Commit, drainerVars, backendVars,
       budgetVars, Unclaimed, Undisturbed, TablesInv
  <2>3. TablesInv'
    BY <1>3, ThresholdAssumption DEF InsertCommit, TablesInv, Commit,
       drainerVars, backendVars, budgetVars, TypeOK, IsTable
  <2>4. BatchInv'
    BY <1>3, ThresholdAssumption DEF InsertCommit, BatchInv, Commit,
       drainerVars, backendVars, budgetVars, TypeOK, IsTable
  <2>5. RefusalInv'
    BY <1>3, ThresholdAssumption, GroupInBatch DEF InsertCommit, RefusalInv,
       Commit, drainerVars, backendVars, budgetVars, Group, TypeOK, IsTable
  <2>6. AckInv'
    BY <1>3, GroupInBatch DEF InsertCommit, AckInv, Commit, drainerVars,
       backendVars, budgetVars, Group
  <2>7. (HandledInv /\ ProcessInv)'
    BY <1>3, GroupInBatch DEF InsertCommit, HandledInv, ProcessInv, Group,
       Commit, drainerVars, backendVars, budgetVars
  <2> QED BY <2>1, <2>2, <2>3, <2>4, <2>5, <2>6, <2>7
<1>4. ASSUME NEW r \in Reading, InsertFails(r) PROVE IInv'
  <2>1. TypeOK'
    BY <1>4, ThresholdAssumption, BackoffAssumption, EnvironmentAssumption DEF
       InsertFails, TypeOK, IsTable, TaskState, DatabaseError, AfterInsertError,
       InFlight, drainerVars, backendVars
  <2>2. TaskInv'
    BY <1>4 DEF InsertFails, TaskInv, DatabaseError, AfterInsertError, InFlight,
       drainerVars, backendVars, Unclaimed, Undisturbed, TablesInv, TypeOK,
       TaskState
  <2>3. TablesInv'
    BY <1>4, ThresholdAssumption DEF InsertFails, TablesInv, DatabaseError,
       AfterInsertError, InFlight, drainerVars, backendVars, TypeOK, IsTable
  <2>4. BatchInv'
    BY <1>4, ThresholdAssumption DEF InsertFails, BatchInv, DatabaseError,
       AfterInsertError, InFlight, drainerVars, backendVars, TypeOK, IsTable
  <2>5. RefusalInv'
    BY <1>4, ThresholdAssumption, GroupInBatch DEF InsertFails, RefusalInv,
       DatabaseError, AfterInsertError, InFlight, drainerVars, backendVars,
       Group, TypeOK, IsTable
  <2>6. AckInv'
    BY <1>4, GroupInBatch DEF InsertFails, AckInv, DatabaseError,
       AfterInsertError, InFlight, drainerVars, backendVars, Group, TypeOK
  <2>7. (HandledInv /\ ProcessInv)'
    BY <1>4, GroupInBatch DEF InsertFails, HandledInv, ProcessInv, Group,
       DatabaseError, AfterInsertError, InFlight, drainerVars, backendVars
  <2> QED BY <2>1, <2>2, <2>3, <2>4, <2>5, <2>6, <2>7
<1>5. CASE CloseTransport
  <2>1. TypeOK'
    BY <1>5, ThresholdAssumption, BackoffAssumption, EnvironmentAssumption DEF
       CloseTransport, TypeOK, IsTable, drainerVars, backendVars, budgetVars
  <2>2. (TaskInv /\ HandledInv /\ TablesInv /\ BatchInv
        /\ RefusalInv /\ AckInv /\ ProcessInv)'
    BY <1>5, ThresholdAssumption, GroupInBatch DEF CloseTransport, TaskInv,
       HandledInv, TablesInv, BatchInv, RefusalInv, AckInv, ProcessInv, Group,
       Undisturbed, Unclaimed, drainerVars, backendVars, budgetVars
  <2> QED BY <2>1, <2>2
<1>6. CASE ClaimBatch
  <2>1. TypeOK'
    BY <1>6, ThresholdAssumption, BackoffAssumption, EnvironmentAssumption DEF
       ClaimBatch, TypeOK, IsTable, DrainerState, IsBatch, Claimable,
       AfterGroup, listenerVars, backendVars, budgetVars
  <2>2. TaskInv'
    BY <1>6 DEF ClaimBatch, TaskInv, IsBatch, Claimable, AfterGroup,
       listenerVars, backendVars, budgetVars, Unclaimed, Undisturbed, InFlight
  <2>3. HandledInv'
    BY <1>6, GroupInBatch DEF ClaimBatch, HandledInv, IsBatch, Claimable,
       AfterGroup, listenerVars, backendVars, budgetVars, Group
  <2>4. BatchInv'
    BY <1>6, ThresholdAssumption DEF ClaimBatch, BatchInv, IsBatch, Claimable,
       AfterGroup, listenerVars, backendVars, budgetVars, TypeOK, IsTable,
       TablesInv
  <2>5. RefusalInv'
    BY <1>6, ThresholdAssumption, GroupInBatch DEF ClaimBatch, RefusalInv,
       IsBatch, Claimable, AfterGroup, listenerVars, backendVars, budgetVars,
       Group, TypeOK, IsTable
  <2>6. AckInv'
    BY <1>6, GroupInBatch DEF ClaimBatch, AckInv, IsBatch, Claimable,
       AfterGroup, listenerVars, backendVars, budgetVars, Group, TaskInv,
       Unclaimed
  <2>7. (TablesInv /\ ProcessInv)'
    BY <1>6 DEF ClaimBatch, TablesInv, ProcessInv, IsBatch, Claimable,
       AfterGroup, listenerVars, backendVars, budgetVars
  <2> QED BY <2>1, <2>2, <2>3, <2>4, <2>5, <2>6, <2>7
<1>7. CASE PostGroup
  <2>1. TypeOK'
    <3>1. PICK wire \in Wire, processed \in BOOLEAN :
            /\ handled' = IF processed THEN handled \cup Group ELSE handled
            /\ refused' = [r \in Reading |->
                             IF r \in Group /\ wire \in Refusal
                               THEN refused[r] + 1 ELSE refused[r]]
            /\ reply' = Outcome(wire)
            /\ \/ glitches' = glitches
               \/ glitches < MaxGlitches /\ glitches' = glitches + 1
      BY <1>7 DEF PostGroup
    <3>2. handled' \subseteq Reading /\ reply' \in Replies
      BY <3>1, GroupInBatch, OutcomeType DEF TypeOK
    <3>3. refused' \in [Reading -> Nat]
      BY <3>1 DEF TypeOK
    <3>4. glitches' \in 0..MaxGlitches
      BY <3>1, EnvironmentAssumption DEF TypeOK
    <3>5. IsTable(db)' /\ IsTable(disk)'
      BY <1>7 DEF PostGroup, TypeOK, IsTable
    <3> QED
      BY <1>7, <3>2, <3>3, <3>4, <3>5
         DEF PostGroup, TypeOK, listenerVars, DrainerState
  <2>2. HandledInv'
    BY <1>7, GroupInBatch, OutcomeType DEF PostGroup, HandledInv, Outcome, Wire,
       Refusal, listenerVars, Group
  <2>3. RefusalInv'
    <3>1. PICK wire \in Wire :
            /\ refused' = [r \in Reading |->
                             IF r \in Group /\ wire \in Refusal
                               THEN refused[r] + 1 ELSE refused[r]]
            /\ reply' = Outcome(wire)
      BY <1>7 DEF PostGroup
    <3>2. \A r \in Reading :
            /\ refused'[r] \in Nat /\ refused[r] \in Nat
            /\ refused[r] <= refused'[r]
            /\ reply' = "permanent" /\ r \in Group => refused[r] < refused'[r]
      BY <3>1, OutcomeType DEF TypeOK
    <3>3. db' = db /\ disk' = disk /\ Group' = Group /\ pc' = "answer"
      BY <1>7 DEF PostGroup, Group
    <3>4. \A r \in DOMAIN db : r \in Reading /\ db[r] \in Nat
      BY ThresholdAssumption DEF TypeOK, IsTable
    <3>5. \A r \in DOMAIN disk : r \in Reading /\ disk[r] \in Nat
      BY ThresholdAssumption DEF TypeOK, IsTable
    <3>6. Group \subseteq Reading
      BY GroupInBatch DEF TypeOK
    <3> QED BY <3>2, <3>3, <3>4, <3>5, <3>6 DEF RefusalInv
  <2>4. (TaskInv /\ TablesInv /\ BatchInv /\ AckInv /\ ProcessInv)'
    BY <1>7, ThresholdAssumption, GroupInBatch, OutcomeType DEF PostGroup,
       TaskInv, TablesInv, BatchInv, AckInv, ProcessInv, Group, Undisturbed,
       Unclaimed, Outcome, Wire, Refusal, listenerVars
  <2> QED BY <2>1, <2>2, <2>3, <2>4
<1>8. CASE AnswerOk
  <2>1. TypeOK'
    BY <1>8, ThresholdAssumption, BackoffAssumption, EnvironmentAssumption,
       GroupInBatch DEF AnswerOk, TypeOK, IsTable, DrainerState, Replies,
       listenerVars, budgetVars
  <2>2. TaskInv'
    BY <1>8, GroupInBatch DEF AnswerOk, TaskInv, listenerVars, budgetVars,
       Unclaimed, Undisturbed, TablesInv, Group
  <2>3. HandledInv'
    BY <1>8, GroupInBatch DEF AnswerOk, HandledInv, listenerVars, budgetVars,
       Group
  <2>4. TablesInv'
    BY <1>8 DEF AnswerOk, TablesInv, listenerVars, budgetVars
  <2>5. AckInv'
    BY <1>8, GroupInBatch DEF AnswerOk, AckInv, listenerVars, budgetVars, Group
  <2>6. (BatchInv /\ RefusalInv /\ ProcessInv)'
    BY <1>8, ThresholdAssumption, GroupInBatch DEF AnswerOk, BatchInv,
       RefusalInv, ProcessInv, Group, listenerVars, budgetVars
  <2> QED BY <2>1, <2>2, <2>3, <2>4, <2>5, <2>6
<1>9. CASE AnswerPermanent
  <2>1. RefusalInv'
    BY <1>9, ThresholdAssumption, GroupInBatch DEF AnswerPermanent, RefusalInv,
       listenerVars, backendVars, budgetVars, Group, TypeOK, IsTable
  <2>2. (TypeOK /\ TaskInv /\ HandledInv /\ TablesInv
        /\ BatchInv /\ AckInv /\ ProcessInv)'
    BY <1>9, ThresholdAssumption, BackoffAssumption, EnvironmentAssumption,
       GroupInBatch DEF AnswerPermanent, TypeOK, TaskInv, HandledInv, TablesInv,
       BatchInv, AckInv, ProcessInv, Group, Undisturbed, Unclaimed,
       listenerVars, backendVars, budgetVars, IsTable, DrainerState, Replies
  <2> QED BY <2>1, <2>2
<1>10. CASE AnswerTransient
  <2>1. TypeOK'
    BY <1>10, ThresholdAssumption, BackoffAssumption, EnvironmentAssumption DEF
       AnswerTransient, TypeOK, IsTable, DrainerState, Replies, Remaining,
       AfterGroup, listenerVars, backendVars, budgetVars
  <2>2. TaskInv'
    BY <1>10 DEF AnswerTransient, TaskInv, Remaining, AfterGroup, listenerVars,
       backendVars, budgetVars, Unclaimed, Undisturbed
  <2>3. HandledInv'
    BY <1>10, GroupInBatch DEF AnswerTransient, HandledInv, Remaining,
       AfterGroup, listenerVars, backendVars, budgetVars, Group
  <2>4. BatchInv'
    BY <1>10, ThresholdAssumption DEF AnswerTransient, BatchInv, Remaining,
       AfterGroup, listenerVars, backendVars, budgetVars, TypeOK, IsTable
  <2>5. RefusalInv'
    BY <1>10, ThresholdAssumption, GroupInBatch DEF AnswerTransient, RefusalInv,
       Remaining, AfterGroup, listenerVars, backendVars, budgetVars, Group,
       TypeOK, IsTable
  <2>6. AckInv'
    BY <1>10, GroupInBatch DEF AnswerTransient, AckInv, Remaining, AfterGroup,
       listenerVars, backendVars, budgetVars, Group
  <2>7. (TablesInv /\ ProcessInv)'
    BY <1>10 DEF AnswerTransient, TablesInv, ProcessInv, Remaining, AfterGroup,
       listenerVars, backendVars, budgetVars
  <2> QED BY <2>1, <2>2, <2>3, <2>4, <2>5, <2>6, <2>7
<1>11. CASE AnswerUnexpected
  <2>1. TypeOK'
    BY <1>11, ThresholdAssumption, BackoffAssumption, EnvironmentAssumption DEF
       AnswerUnexpected, TypeOK, IsTable, DrainerState, Replies, listenerVars,
       backendVars, budgetVars
  <2>2. TaskInv'
    BY <1>11 DEF AnswerUnexpected, TaskInv, listenerVars, backendVars,
       budgetVars, Unclaimed, Undisturbed
  <2>3. HandledInv'
    BY <1>11, GroupInBatch DEF AnswerUnexpected, HandledInv, listenerVars,
       backendVars, budgetVars, Group
  <2>4. BatchInv'
    BY <1>11, ThresholdAssumption DEF AnswerUnexpected, BatchInv, listenerVars,
       backendVars, budgetVars, TypeOK, IsTable
  <2>5. RefusalInv'
    BY <1>11, ThresholdAssumption, GroupInBatch DEF AnswerUnexpected,
       RefusalInv, listenerVars, backendVars, budgetVars, Group, TypeOK, IsTable
  <2>6. AckInv'
    BY <1>11, GroupInBatch DEF AnswerUnexpected, AckInv, listenerVars,
       backendVars, budgetVars, Group
  <2>7. (TablesInv /\ ProcessInv)'
    BY <1>11 DEF AnswerUnexpected, TablesInv, ProcessInv, listenerVars,
       backendVars, budgetVars
  <2> QED BY <2>1, <2>2, <2>3, <2>4, <2>5, <2>6, <2>7
<1>12. CASE DeleteExecute
  <2>1. TypeOK'
    BY <1>12, ThresholdAssumption, BackoffAssumption, EnvironmentAssumption,
       GroupInBatch DEF DeleteExecute, TypeOK, IsTable, DrainerState, Remaining,
       listenerVars, backendVars, budgetVars
  <2>2. TaskInv'
    BY <1>12, GroupInBatch DEF DeleteExecute, TaskInv, Remaining, listenerVars,
       backendVars, budgetVars, Unclaimed, Undisturbed, HandledInv, Group
  <2>3. HandledInv'
    BY <1>12, GroupInBatch DEF DeleteExecute, HandledInv, Remaining,
       listenerVars, backendVars, budgetVars, Group
  <2>4. TablesInv'
    BY <1>12, GroupInBatch DEF DeleteExecute, TablesInv, Remaining,
       listenerVars, backendVars, budgetVars, HandledInv, Group, BatchInv
  <2>5. BatchInv'
    BY <1>12, ThresholdAssumption, GroupInBatch DEF DeleteExecute, BatchInv,
       Remaining, listenerVars, backendVars, budgetVars, TypeOK, IsTable, Group
  <2>6. RefusalInv'
    BY <1>12, ThresholdAssumption, GroupInBatch DEF DeleteExecute, RefusalInv,
       Remaining, listenerVars, backendVars, budgetVars, Group, TypeOK, IsTable
  <2>7. AckInv'
    BY <1>12, GroupInBatch DEF DeleteExecute, AckInv, Remaining, listenerVars,
       backendVars, budgetVars, Group, HandledInv
  <2>8. ProcessInv'
    BY <1>12, GroupInBatch DEF DeleteExecute, ProcessInv, Remaining,
       listenerVars, backendVars, budgetVars
  <2> QED BY <2>1, <2>2, <2>3, <2>4, <2>5, <2>6, <2>7, <2>8
<1>13. CASE BumpExecute
  <2>1. TypeOK'
    BY <1>13, ThresholdAssumption, BackoffAssumption, EnvironmentAssumption,
       GroupInBatch DEF BumpExecute, TypeOK, IsTable, DrainerState, Remaining,
       listenerVars, backendVars, budgetVars, BatchInv, Group
  <2>2. TaskInv'
    BY <1>13 DEF BumpExecute, TaskInv, Remaining, listenerVars, backendVars,
       budgetVars, Unclaimed, Undisturbed
  <2>3. HandledInv'
    BY <1>13, GroupInBatch DEF BumpExecute, HandledInv, Remaining, listenerVars,
       backendVars, budgetVars, Group
  <2>4. TablesInv'
    BY <1>13 DEF BumpExecute, TablesInv, Remaining, listenerVars, backendVars,
       budgetVars, TypeOK, IsTable
  <2>5. BatchInv'
    BY <1>13, ThresholdAssumption, GroupInBatch DEF BumpExecute, BatchInv,
       Remaining, listenerVars, backendVars, budgetVars, TypeOK, IsTable, Group
  <2>6. RefusalInv'
    BY <1>13, ThresholdAssumption, GroupInBatch DEF BumpExecute, RefusalInv,
       Remaining, listenerVars, backendVars, budgetVars, Group, TypeOK, IsTable
  <2>7. AckInv'
    BY <1>13, GroupInBatch DEF BumpExecute, AckInv, Remaining, listenerVars,
       backendVars, budgetVars, Group
  <2>8. ProcessInv'
    BY <1>13 DEF BumpExecute, ProcessInv, Remaining, listenerVars, backendVars,
       budgetVars
  <2> QED BY <2>1, <2>2, <2>3, <2>4, <2>5, <2>6, <2>7, <2>8
<1>14. CASE DrainerCommit
  <2>1. TypeOK'
    BY <1>14, ThresholdAssumption, BackoffAssumption, EnvironmentAssumption DEF
       DrainerCommit, TypeOK, IsTable, DrainerState, Commit, AfterGroup,
       listenerVars, backendVars, budgetVars
  <2>2. TaskInv'
    BY <1>14 DEF DrainerCommit, TaskInv, Commit, AfterGroup, listenerVars,
       backendVars, budgetVars, Unclaimed, Undisturbed, TablesInv
  <2>3. TablesInv'
    BY <1>14, ThresholdAssumption DEF DrainerCommit, TablesInv, Commit,
       AfterGroup, listenerVars, backendVars, budgetVars, TypeOK, IsTable
  <2>4. BatchInv'
    BY <1>14, ThresholdAssumption DEF DrainerCommit, BatchInv, Commit,
       AfterGroup, listenerVars, backendVars, budgetVars, TypeOK, IsTable
  <2>5. RefusalInv'
    BY <1>14, ThresholdAssumption, GroupInBatch DEF DrainerCommit, RefusalInv,
       Commit, AfterGroup, listenerVars, backendVars, budgetVars, Group, TypeOK,
       IsTable
  <2>6. AckInv'
    BY <1>14, GroupInBatch DEF DrainerCommit, AckInv, Commit, AfterGroup,
       listenerVars, backendVars, budgetVars, Group
  <2>7. (HandledInv /\ ProcessInv)'
    BY <1>14, GroupInBatch DEF DrainerCommit, HandledInv, ProcessInv, Group,
       Commit, AfterGroup, listenerVars, backendVars, budgetVars
  <2> QED BY <2>1, <2>2, <2>3, <2>4, <2>5, <2>6, <2>7
<1>15. CASE DrainerDatabaseError
  <2>1. TypeOK'
    BY <1>15, ThresholdAssumption, BackoffAssumption, EnvironmentAssumption DEF
       DrainerDatabaseError, TypeOK, IsTable, DrainerState, DatabaseError,
       listenerVars, backendVars
  <2>2. TaskInv'
    BY <1>15 DEF DrainerDatabaseError, TaskInv, DatabaseError, listenerVars,
       backendVars, Unclaimed, Undisturbed, TablesInv, TypeOK, TaskState
  <2>3. HandledInv'
    BY <1>15, GroupInBatch DEF DrainerDatabaseError, HandledInv, DatabaseError,
       listenerVars, backendVars, Group
  <2>4. TablesInv'
    BY <1>15, ThresholdAssumption DEF DrainerDatabaseError, TablesInv,
       DatabaseError, listenerVars, backendVars, TypeOK, IsTable
  <2>5. BatchInv'
    BY <1>15, ThresholdAssumption DEF DrainerDatabaseError, BatchInv,
       DatabaseError, listenerVars, backendVars, TypeOK, IsTable
  <2>6. RefusalInv'
    BY <1>15, ThresholdAssumption, GroupInBatch DEF DrainerDatabaseError,
       RefusalInv, DatabaseError, listenerVars, backendVars, Group, TypeOK,
       IsTable
  <2>7. AckInv'
    BY <1>15, GroupInBatch DEF DrainerDatabaseError, AckInv, DatabaseError,
       listenerVars, backendVars, Group, TypeOK
  <2>8. ProcessInv'
    BY <1>15 DEF DrainerDatabaseError, ProcessInv, DatabaseError, listenerVars,
       backendVars
  <2> QED BY <2>1, <2>2, <2>3, <2>4, <2>5, <2>6, <2>7, <2>8
<1>16. CASE EndTick
  <2>1. TypeOK'
    <3>1. backoff' \in 0..BackoffCap
      BY <1>16, BackoffAssumption, NextDelayType DEF EndTick, TypeOK
    <3>2. IsTable(db)' /\ IsTable(disk)'
      BY <1>16 DEF EndTick, TypeOK, IsTable
    <3> QED
      BY <1>16, <3>1, <3>2
         DEF EndTick, TypeOK, listenerVars, backendVars, budgetVars,
             DrainerState, Replies
  <2>2. (TaskInv /\ HandledInv /\ TablesInv /\ BatchInv
        /\ RefusalInv /\ AckInv /\ ProcessInv)'
    BY <1>16, ThresholdAssumption, GroupInBatch DEF EndTick, TaskInv,
       HandledInv, TablesInv, BatchInv, RefusalInv, AckInv, ProcessInv, Group,
       Undisturbed, Unclaimed, listenerVars, backendVars, budgetVars
  <2> QED BY <2>1, <2>2
<1>17. CASE Wake
  BY <1>17, ThresholdAssumption, BackoffAssumption, EnvironmentAssumption,
     GroupInBatch DEF Wake, TypeOK, TaskInv, HandledInv, TablesInv, BatchInv,
     RefusalInv, AckInv, ProcessInv, Group, Undisturbed, Unclaimed, AfterSleep,
     listenerVars, backendVars, budgetVars, IsTable, DrainerState
<1>18. CASE Signal
  BY <1>18, ThresholdAssumption, BackoffAssumption, EnvironmentAssumption,
     GroupInBatch DEF Signal, TypeOK, TaskInv, HandledInv, TablesInv, BatchInv,
     RefusalInv, AckInv, ProcessInv, Group, Undisturbed, Unclaimed,
     listenerVars, drainerVars, backendVars, budgetVars, IsTable, DrainerState
<1>19. CASE Exit
  <2>1. TypeOK'
    BY <1>19, ThresholdAssumption, BackoffAssumption, EnvironmentAssumption DEF
       Exit, TypeOK, IsTable, InsertsGathered, InFlight, listenerVars,
       drainerVars, backendVars, budgetVars
  <2>2. TaskInv'
    BY <1>19 DEF Exit, TaskInv, InsertsGathered, InFlight, listenerVars,
       drainerVars, backendVars, budgetVars, Unclaimed, Undisturbed, TablesInv
  <2>3. TablesInv'
    BY <1>19, ThresholdAssumption DEF Exit, TablesInv, InsertsGathered,
       InFlight, listenerVars, drainerVars, backendVars, budgetVars, TypeOK,
       IsTable
  <2>4. BatchInv'
    BY <1>19, ThresholdAssumption DEF Exit, BatchInv, InsertsGathered, InFlight,
       listenerVars, drainerVars, backendVars, budgetVars, TypeOK, IsTable
  <2>5. RefusalInv'
    BY <1>19, ThresholdAssumption, GroupInBatch DEF Exit, RefusalInv,
       InsertsGathered, InFlight, listenerVars, drainerVars, backendVars,
       budgetVars, Group, TypeOK, IsTable
  <2>6. AckInv'
    BY <1>19, GroupInBatch DEF Exit, AckInv, InsertsGathered, InFlight,
       listenerVars, drainerVars, backendVars, budgetVars, Group
  <2>7. ProcessInv'
    BY <1>19 DEF Exit, ProcessInv, InsertsGathered, InFlight, listenerVars,
       drainerVars, backendVars, budgetVars
  <2>8. HandledInv'
    BY <1>19, GroupInBatch DEF Exit, HandledInv, Group, InsertsGathered,
       InFlight, listenerVars, drainerVars, backendVars, budgetVars
  <2> QED BY <2>1, <2>2, <2>3, <2>4, <2>5, <2>6, <2>7, <2>8
<1>20. CASE Crash
  <2>1. TypeOK'
    BY <1>20, ThresholdAssumption, BackoffAssumption, EnvironmentAssumption DEF
       Crash, TypeOK, IsTable, TaskState, InFlight, drainerVars, backendVars
  <2>2. TaskInv'
    BY <1>20 DEF Crash, TaskInv, InFlight, drainerVars, backendVars, Unclaimed,
       Undisturbed, TablesInv, TypeOK, TaskState
  <2>3. TablesInv'
    BY <1>20, ThresholdAssumption DEF Crash, TablesInv, InFlight, drainerVars,
       backendVars, TypeOK, IsTable
  <2>4. BatchInv'
    BY <1>20, ThresholdAssumption DEF Crash, BatchInv, InFlight, drainerVars,
       backendVars, TypeOK, IsTable
  <2>5. RefusalInv'
    BY <1>20, ThresholdAssumption, GroupInBatch DEF Crash, RefusalInv, InFlight,
       drainerVars, backendVars, Group, TypeOK, IsTable
  <2>6. AckInv'
    BY <1>20, GroupInBatch DEF Crash, AckInv, InFlight, drainerVars,
       backendVars, Group, TypeOK
  <2>7. (HandledInv /\ ProcessInv)'
    BY <1>20, GroupInBatch DEF Crash, HandledInv, ProcessInv, Group, InFlight,
       drainerVars, backendVars
  <2> QED BY <2>1, <2>2, <2>3, <2>4, <2>5, <2>6, <2>7
<1>21. CASE Start
  <2>1. TypeOK'
    <3>1. backoff' \in 0..BackoffCap
      BY <1>21, BackoffAssumption DEF Start
    <3>2. IsTable(db)' /\ IsTable(disk)'
      BY <1>21 DEF Start, TypeOK, IsTable
    <3> QED
      BY <1>21, <3>1, <3>2
         DEF Start, TypeOK, backendVars, budgetVars, DrainerState, Replies
  <2>2. HandledInv'
    BY <1>21, GroupInBatch DEF Start, HandledInv, backendVars, budgetVars, Group
  <2>3. RefusalInv'
    BY <1>21, ThresholdAssumption, GroupInBatch DEF Start, RefusalInv,
       backendVars, budgetVars, Group, TypeOK, IsTable
  <2>4. AckInv'
    BY <1>21, GroupInBatch DEF Start, AckInv, backendVars, budgetVars, Group,
       ProcessInv, TypeOK
  <2>5. ProcessInv'
    BY <1>21 DEF Start, ProcessInv, backendVars, budgetVars
  <2>6. (TaskInv /\ TablesInv /\ BatchInv)'
    BY <1>21, ThresholdAssumption DEF Start, TaskInv, TablesInv, BatchInv,
       Undisturbed, Unclaimed, backendVars, budgetVars
  <2> QED BY <2>1, <2>2, <2>3, <2>4, <2>5, <2>6
<1>22. CASE UNCHANGED vars
  BY <1>22 DEF vars, listenerVars, drainerVars, backendVars, budgetVars, TypeOK,
     TaskInv, HandledInv, TablesInv, BatchInv, RefusalInv, AckInv, ProcessInv,
     Group, IsTable, Undisturbed
<1> QED
  BY <1>1, <1>2, <1>3, <1>4, <1>5, <1>6, <1>7, <1>8, <1>9, <1>10, <1>11, <1>12,
     <1>13, <1>14, <1>15, <1>16, <1>17, <1>18, <1>19, <1>20, <1>21, <1>22 DEF
     Next, Insert, Drainer

-----------------------------------------------------------------------------
(* The safety properties *)

\* Every reachable state of the outbox satisfies the inductive invariant.
THEOREM Invariance == Spec => []IInv
<1>1. Init => IInv
  BY InitIInv
<1>2. IInv /\ [Next]_vars => IInv'
  BY NextIInv
<1> QED BY <1>1, <1>2, PTL DEF Spec

\* The variables of the outbox keep their types; no reject_count passes the
\* threshold although a row is counted after it has been claimed.
THEOREM TypeCorrect == Spec => []TypeOK
<1>1. IInv => TypeOK
  BY DEF IInv
<1> QED BY <1>1, Invariance, PTL

\* A reading whose insert_reading returned is on disk until the backend has
\* handled it, if SQLite undoes a failing statement alone.
THEOREM NothingLost == Spec => []NoSilentLoss
<1>1. IInv => NoSilentLoss
  BY DEF IInv, TaskInv, HandledInv, Undisturbed, NoSilentLoss, PersistedIsKept
<1> QED BY <1>1, Invariance, PTL

\* Only the backend's refusals quarantine a row.
THEOREM OnlyRefusalsQuarantine == Spec => []QuarantineEarned
<1>1. IInv => QuarantineEarned
  BY ThresholdAssumption
     DEF IInv, TypeOK, IsTable, RefusalInv, QuarantineEarned, Parked
<1> QED BY <1>1, Invariance, PTL

\* No request carries a row that is quarantined by the time it is sent.
THEOREM QuarantineRespected == Spec => []QuarantinedNotPosted
<1>1. IInv => QuarantinedNotPosted
  BY GroupInBatch, ThresholdAssumption
     DEF IInv, TypeOK, IsTable, BatchInv, QuarantinedNotPosted, Parked
<1> QED BY <1>1, Invariance, PTL

\* Without a fault no acknowledged reading is posted a second time.
THEOREM NoRepost == Spec => []NoRepostAfterAck
<1>1. IInv => NoRepostAfterAck
  BY GroupInBatch DEF IInv, AckInv, NoRepostAfterAck
<1> QED BY <1>1, Invariance, PTL

\* Without a fault a graceful exit leaves exactly the unacknowledged readings.
THEOREM CleanExit == Spec => []GracefulExitIsClean
<1>1. IInv => GracefulExitIsClean
  <2> SUFFICES ASSUME IInv, process = "exited", faults = 0
               PROVE  /\ \A r \in Valid : task[r] # "unsent"
                                            => r \in DOMAIN disk \cup acked
                      /\ DOMAIN disk \cap acked = {}
    BY DEF GracefulExitIsClean
  <2>1. pc = "stopped" /\ \A r \in Reading : task[r] \notin InFlight
    BY DEF IInv, ProcessInv
  <2>2. ASSUME NEW r \in Valid, task[r] # "unsent"
        PROVE  r \in DOMAIN disk \cup acked
    <3>1. r \in Reading /\ task[r] \in TaskState
      BY ReadingAssumption DEF IInv, TypeOK
    <3>2. task[r] = "persisted"
      BY <2>1, <2>2, <3>1 DEF IInv, TaskInv, TaskState, InFlight
    <3> QED BY <3>1, <3>2 DEF IInv, TaskInv, Undisturbed
  <2>3. DOMAIN disk \cap acked = {}
    BY <2>1 DEF IInv, AckInv
  <2> QED BY <2>2, <2>3
<1> QED BY <1>1, Invariance, PTL

-----------------------------------------------------------------------------
(* The batch *)

\* ORDER BY is a strict order of the rows.
LEMMA RowsOrdered ==
  ASSUME NEW S \in SUBSET Reading
  PROVE  Orders({rows \in Reading \X Reading : Before(rows[1], rows[2])}, S)
<1> DEFINE R == {rows \in Reading \X Reading : Before(rows[1], rows[2])}
<1>1. \A q, r \in Reading : <<q, r>> \in R <=> Before(q, r)
  OBVIOUS
<1>2. \A r \in Reading : Shelf[r] \in Int /\ SampledAt[r] \in Int
  BY ReadingAssumption
<1>3. \A r \in Reading : ~Before(r, r)
  BY <1>2 DEF Before
<1>4. \A q, r, t \in Reading : Before(q, r) /\ Before(r, t) => Before(q, t)
  BY <1>2 DEF Before
<1> HIDE DEF R
<1> QED
  BY <1>1, <1>3, <1>4 DEF Orders

\* Of any number of rows, some come first.
LEMMA FirstRows ==
  ASSUME NEW C \in SUBSET Reading, IsFiniteSet(C),
         NEW n \in Nat, n <= Cardinality(C)
  PROVE  \E S \in SUBSET C : /\ Cardinality(S) = n
                             /\ \A r \in S, q \in C \ S : ~Before(q, r)
<1> DEFINE First(S) == \A r \in S, q \in C \ S : ~Before(q, r)
           T == {k \in 0..n : ~\E S \in SUBSET C : Cardinality(S) = k /\ First(S)}
<1>1. Cardinality(C) \in Nat
  BY FS_CardinalityType
<1>2. ASSUME T # {} PROVE FALSE
  <2>1. PICK k \in T : \A m \in T : k <= m
    <3>1. T \in SUBSET Nat
      OBVIOUS
    <3> HIDE DEF T
    <3> QED BY <1>2, <3>1, LeastNatural
  <2>2. k # 0
    <3>1. Cardinality({}) = 0 /\ First({})
      BY FS_EmptySet
    <3> QED
      BY <3>1
  <2>3. PICK S \in SUBSET C : Cardinality(S) = k - 1 /\ First(S)
    BY <2>1, <2>2
  <2>4. IsFiniteSet(S) /\ IsFiniteSet(C \ S) /\ C \ S # {}
    BY <1>1, <2>3, FS_Subset
  <2>5. PICK r \in C \ S : \A q \in C \ S : ~Before(q, r)
    <3> DEFINE R == {rows \in Reading \X Reading : Before(rows[1], rows[2])}
    <3>1. Orders(R, C \ S)
      BY RowsOrdered
    <3>2. \A q, t \in C : <<q, t>> \in R <=> Before(q, t)
      OBVIOUS
    <3> HIDE DEF R
    <3>3. \E t \in C \ S : \A q \in C \ S : <<q, t>> \notin R
      BY <2>4, <3>1, MinimalElement
    <3> QED
      BY <3>2, <3>3
  <2>6. Cardinality(S \cup {r}) = k
    <3>1. Cardinality(S \cup {r}) = Cardinality(S) + 1
      BY <2>4, <2>5, FS_AddElement
    <3>2. k \in Nat
      BY <2>1
    <3> QED
      BY <2>3, <3>1, <3>2
  <2>7. First(S \cup {r})
    BY <2>3, <2>5
  <2> QED
    BY <2>1, <2>6, <2>7
<1>3. n \notin T
  BY <1>2
<1> QED
  BY <1>3

\* claim_batch always has an answer: LIMIT cuts the ordered rows somewhere.
LEMMA BatchExists ==
  ASSUME NEW table, Claimable(table) \in SUBSET Reading,
         IsFiniteSet(Claimable(table))
  PROVE  \E S \in SUBSET Claimable(table) : IsBatch(S, table)
<1> DEFINE C == Claimable(table)
<1>1. Cardinality(C) \in Nat /\ BatchSize \in Int
  BY FS_CardinalityType, BatchAssumption
<1>2. CASE BatchSize <= 0
  BY <1>1, <1>2, FS_EmptySet DEF IsBatch
<1>3. CASE 0 < BatchSize /\ BatchSize <= Cardinality(C)
  <2>1. PICK S \in SUBSET C : /\ Cardinality(S) = BatchSize
                              /\ \A r \in S, q \in C \ S : ~Before(q, r)
    BY <1>1, <1>3, FirstRows
  <2> QED
    BY <1>1, <2>1 DEF IsBatch
<1>4. CASE 0 < BatchSize /\ Cardinality(C) < BatchSize
  BY <1>1, <1>4 DEF IsBatch
<1> QED
  BY <1>1, <1>2, <1>3, <1>4

Finite == IsFiniteSet(DOMAIN db) /\ IsFiniteSet(DOMAIN disk)

\* One row comes with each INSERT.
LEMMA FiniteKept == Finite /\ [Next]_vars => Finite'
<1> SUFFICES ASSUME Finite, [Next]_vars PROVE Finite'
  OBVIOUS
<1>1. /\ DOMAIN db' \in SUBSET DOMAIN db \/ db' = disk
         \/ \E r \in Reading : DOMAIN db' = DOMAIN db \cup {r}
      /\ disk' = disk \/ disk' = db
  BY DEF Next, Insert, Drainer, DatagramReceived, InsertExecute, InsertCommit,
     InsertFails, CloseTransport, ClaimBatch, PostGroup, AnswerOk, AnswerPermanent,
     AnswerTransient, AnswerUnexpected, DeleteExecute, BumpExecute, DrainerCommit,
     DrainerDatabaseError, EndTick, Wake, Signal, Exit, Crash, Start, Commit,
     DatabaseError, vars
<1> QED
  BY <1>1, FS_Subset, FS_AddElement DEF Finite

\* The drainer is never stuck at its SELECT: whatever rows there are, with
\* whatever ties, counts and limit, some batch is the answer.
THEOREM ClaimNeverBlocks == Spec => [](\E S \in SUBSET DOMAIN db : IsBatch(S, db))
<1>1. Init => Finite
  BY FS_EmptySet DEF Init, Finite
<1>2. IInv /\ Finite => \E S \in SUBSET DOMAIN db : IsBatch(S, db)
  <2> SUFFICES ASSUME IInv, Finite
               PROVE  \E S \in SUBSET DOMAIN db : IsBatch(S, db)
    OBVIOUS
  <2>1. Claimable(db) \in SUBSET DOMAIN db /\ Claimable(db) \in SUBSET Reading
    BY DEF Claimable, IInv, TypeOK, IsTable
  <2>2. IsFiniteSet(Claimable(db))
    BY <2>1, FS_Subset DEF Finite
  <2> QED
    BY <2>1, <2>2, BatchExists
<1> QED
  BY <1>1, <1>2, FiniteKept, Invariance, PTL DEF Spec

-----------------------------------------------------------------------------
(* The order of a shelf's readings *)

Settled(q) == q \in handled \/ Refused(q)

\* What q, durable first, is owed as long as it is not settled: it is still
\* there, and r is never under way without it.
InTurn(q, r) ==
  ~Settled(q) =>
    /\ q \in DOMAIN disk
    /\ r \in batch => q \in batch
    /\ r \notin handled

\* A settled reading stays so: the backend forgets nothing.
LEMMA SettledStays ==
  ASSUME IInv, [Next]_vars, NEW q \in Reading, Settled(q)
  PROVE  Settled(q)'
<1>1. q \in handled => q \in handled'
  BY DEF Next, Insert, Drainer, DatagramReceived, InsertExecute, InsertCommit,
     InsertFails, CloseTransport, ClaimBatch, PostGroup, AnswerOk, AnswerPermanent,
     AnswerTransient, AnswerUnexpected, DeleteExecute, BumpExecute, DrainerCommit,
     DrainerDatabaseError, EndTick, Wake, Signal, Exit, Crash, Start, backendVars, vars
<1>2. refused' = refused \/ PostGroup
  BY DEF Next, Insert, Drainer, DatagramReceived, InsertExecute, InsertCommit,
     InsertFails, CloseTransport, ClaimBatch, AnswerOk, AnswerPermanent,
     AnswerTransient, AnswerUnexpected, DeleteExecute, BumpExecute, DrainerCommit,
     DrainerDatabaseError, EndTick, Wake, Signal, Exit, Crash, Start, backendVars, vars
<1>3. refused[q] \in Nat
  BY DEF IInv, TypeOK
<1>4. PostGroup => refused'[q] = refused[q] \/ refused'[q] = refused[q] + 1
  BY DEF PostGroup
<1>5. refused[q] <= refused'[q] /\ refused'[q] \in Nat
  BY <1>2, <1>3, <1>4
<1> QED
  BY <1>1, <1>3, <1>5, ThresholdAssumption DEF Settled, Refused

\* An unsettled reading that is durable can be claimed.
LEMMA UnsettledClaimable ==
  ASSUME IInv, NEW q \in DOMAIN disk, ~Settled(q)
  PROVE  q \in Claimable(db)
<1>1. q \in DOMAIN db
  BY DEF IInv, TablesInv, HandledInv, Settled
<1>2. q \in Reading /\ db[q] \in Nat /\ refused[q] \in Nat
  BY <1>1 DEF IInv, TypeOK, IsTable
<1> QED
  BY <1>1, <1>2, ThresholdAssumption DEF IInv, RefusalInv, Settled, Refused, Claimable

\* Two readings of one shelf are in the same group or in none.
LEMMA GroupOfShelf ==
  ASSUME NEW q \in batch, NEW r \in batch, Shelf[q] = Shelf[r]
  PROVE  q \in Group <=> r \in Group
  BY DEF Group

\* Every step respects the turn: a claim takes the older reading first, a group
\* takes both, and what is durable stays as long as it is unsettled.
LEMMA TurnKept ==
  ASSUME IInv, [Next]_vars, NEW q \in Reading, NEW r \in Reading, Older(q, r),
         InTurn(q, r)
  PROVE  InTurn(q, r)'
<1> SUFFICES ASSUME ~Settled(q)'
             PROVE  /\ q \in DOMAIN disk'
                    /\ r \in batch' => q \in batch'
                    /\ r \notin handled'
  BY DEF InTurn
<1>1. /\ ~Settled(q) /\ q \in DOMAIN disk
      /\ r \in batch => q \in batch
      /\ r \notin handled
  BY SettledStays DEF InTurn
<1>2. q \in Claimable(db)
  BY <1>1, UnsettledClaimable
<1>3. Shelf[q] = Shelf[r] /\ Before(q, r)
  BY DEF Older, Before
<1>4. q \in DOMAIN disk'
  <2>1. disk' = disk \/ disk' = db
    BY DEF Next, Insert, Drainer, DatagramReceived, InsertExecute, InsertCommit,
       InsertFails, CloseTransport, ClaimBatch, PostGroup, AnswerOk, AnswerPermanent,
       AnswerTransient, AnswerUnexpected, DeleteExecute, BumpExecute, DrainerCommit,
       DrainerDatabaseError, EndTick, Wake, Signal, Exit, Crash, Start, Commit,
       DatabaseError, vars
  <2> QED
    BY <1>1, <1>2, <2>1 DEF Claimable
<1>5. r \in batch' => q \in batch'
  <2>1. CASE ClaimBatch
    BY <1>2, <1>3, <2>1 DEF ClaimBatch, IsBatch
  <2>2. CASE batch' = Remaining
    BY <1>1, <1>3, <2>2, GroupOfShelf DEF Remaining
  <2>3. CASE batch' = {} \/ batch' = batch
    BY <1>1, <2>3
  <2> QED
    BY <2>1, <2>2, <2>3
    DEF Next, Insert, Drainer, DatagramReceived, InsertExecute, InsertCommit,
        InsertFails, CloseTransport, PostGroup, AnswerOk, AnswerPermanent,
        AnswerTransient, AnswerUnexpected, DeleteExecute, BumpExecute, DrainerCommit,
        DrainerDatabaseError, EndTick, Wake, Signal, Exit, Crash, Start, drainerVars,
        vars
<1>6. r \notin handled'
  <2>1. CASE PostGroup
    <3>1. handled' = handled \/ handled' = handled \cup Group
      BY <2>1 DEF PostGroup
    <3>2. q \notin handled'
      BY DEF Settled
    <3> QED
      BY <1>1, <1>3, <3>1, <3>2, GroupInBatch, GroupOfShelf
  <2>2. CASE handled' = handled
    BY <1>1, <2>2
  <2> QED
    BY <2>1, <2>2
    DEF Next, Insert, Drainer, DatagramReceived, InsertExecute, InsertCommit,
        InsertFails, CloseTransport, ClaimBatch, AnswerOk, AnswerPermanent,
        AnswerTransient, AnswerUnexpected, DeleteExecute, BumpExecute, DrainerCommit,
        DrainerDatabaseError, EndTick, Wake, Signal, Exit, Crash, Start, backendVars,
        vars
<1> QED
  BY <1>4, <1>5, <1>6

\* A reading that is durable before a newer one of its shelf arrives is handled
\* first or with it, or parked: no retry, crash, discarded transaction or small
\* batch lets the newer one overtake.
THEOREM NoOvertaking == Spec => OldestFirst
<1> SUFFICES ASSUME NEW q \in Reading, NEW r \in Reading, Older(q, r)
             PROVE  Spec => [](q \in DOMAIN disk /\ task[r] = "unsent" =>
                                 [](r \in handled => q \in handled \/ Refused(q)))
  BY DEF OldestFirst
<1>1. IInv /\ q \in DOMAIN disk /\ task[r] = "unsent" => InTurn(q, r)
  BY DEF IInv, TaskInv, Unclaimed, InTurn
<1>2. IInv /\ InTurn(q, r) /\ [Next]_vars => InTurn(q, r)'
  BY TurnKept
<1>3. InTurn(q, r) => (r \in handled => q \in handled \/ Refused(q))
  BY DEF InTurn, Settled
<1> QED
  BY <1>1, <1>2, <1>3, Invariance, PTL DEF Spec

-----------------------------------------------------------------------------
(* The outbox implements ReliableOutbox *)

\* A step that leaves the backend alone and takes every reading where
\* ReliableOutbox lets it go is a step of ReliableOutbox.
LEMMA AdvanceStep ==
  ASSUME UNCHANGED handled,
         \A r \in Reading : Promise!MayBecome(r, StatusOf(r), StatusOf(r)')
  PROVE  Promise!Next
<1> DEFINE now  == [r \in Reading |-> StatusOf(r)]
           next == [r \in Reading |-> StatusOf(r)']
<1>1. next \in [Reading -> Promise!Status]
  BY DEF StatusOf, Promise!Status
<1>2. \A r \in Reading : Promise!MayBecome(r, now[r], next[r])
  OBVIOUS
<1>3. [r \in Reading |-> StatusOf(r)]' = next
  OBVIOUS
<1> QED BY <1>1, <1>2, <1>3 DEF Promise!Next, Promise!Advance

\* Every step of the outbox is a step of ReliableOutbox or a stutter.
LEMMA PromiseStep == IInv /\ [Next]_vars => [Promise!Next]_(Promise!vars)
<1> SUFFICES ASSUME IInv, [Next]_vars
             PROVE  Promise!Next \/ UNCHANGED Promise!vars
  OBVIOUS
<1> DEFINE Steps ==
      \A r \in Reading : Promise!MayBecome(r, StatusOf(r), StatusOf(r)')
<1>1. ASSUME UNCHANGED <<db, disk, acked, handled>> PROVE Promise!Next
  <2>1. Steps
    BY <1>1 DEF StatusOf, Promise!MayBecome
  <2> QED BY <1>1, <2>1, AdvanceStep
<1>2. ASSUME Commit, UNCHANGED <<acked, handled>> PROVE Promise!Next
  <2>1. db' = db /\ disk' = db
    BY <1>2 DEF Commit
  <2>2. \A r \in DOMAIN disk \ DOMAIN db :
          r \in acked /\ r \in handled /\ ~(disk[r] >= Threshold)
    BY ThresholdAssumption DEF IInv, TypeOK, IsTable, TablesInv, HandledInv
  <2>3. \A r \in DOMAIN disk \cap DOMAIN db :
          disk[r] >= Threshold => db[r] >= Threshold
    BY ThresholdAssumption DEF IInv, TypeOK, IsTable, TablesInv
  <2>4. ASSUME NEW r \in Reading
        PROVE  Promise!MayBecome(r, StatusOf(r), StatusOf(r)')
    <3>1. CASE r \in DOMAIN db
      BY <1>2, <2>1, <2>3, <3>1 DEF StatusOf, Promise!MayBecome
    <3>2. CASE r \notin DOMAIN db
      BY <1>2, <2>1, <2>2, <3>2 DEF StatusOf, Promise!MayBecome
    <3> QED BY <3>1, <3>2
  <2> QED BY <1>2, <2>4, AdvanceStep
<1>3. ASSUME db' \in {db, disk}, UNCHANGED <<disk, acked, handled>>
      PROVE  Promise!Next
  <2>1. Steps
    BY <1>3 DEF StatusOf, Promise!MayBecome, IInv, HandledInv
  <2> QED BY <1>3, <2>1, AdvanceStep
<1>4. ASSUME NEW r \in Reading, DatagramReceived(r) PROVE Promise!Next
  BY <1>1, <1>4 DEF DatagramReceived, backendVars
<1>5. ASSUME NEW r \in Reading, InsertExecute(r) PROVE Promise!Next
  <2>1. Steps
    BY <1>5 DEF InsertExecute, StatusOf, Promise!MayBecome, IInv, TaskInv,
                Unclaimed, backendVars
  <2> QED BY <1>5, <2>1, AdvanceStep DEF InsertExecute, backendVars
<1>6. ASSUME NEW r \in Reading, InsertCommit(r) PROVE Promise!Next
  BY <1>2, <1>6 DEF InsertCommit, backendVars
<1>7. ASSUME NEW r \in Reading, InsertFails(r) PROVE Promise!Next
  BY <1>3, <1>7 DEF InsertFails, DatabaseError, backendVars
<1>8. CASE CloseTransport \/ ClaimBatch \/ AnswerPermanent \/ AnswerTransient
             \/ AnswerUnexpected \/ EndTick \/ Wake \/ Signal \/ Start
  BY <1>1, <1>8
     DEF CloseTransport, ClaimBatch, AnswerPermanent, AnswerTransient,
         AnswerUnexpected, EndTick, Wake, Signal, Start, backendVars
<1>9. CASE PostGroup
  <2>1. PICK S \in {{}, Group} : handled' = handled \cup S
    BY <1>9 DEF PostGroup
  <2>2. S \subseteq Reading /\ \A r \in S : StatusOf(r) # "parked"
    BY GroupInBatch, ThresholdAssumption
       DEF IInv, TypeOK, IsTable, BatchInv, StatusOf
  <2>3. [r \in Reading |-> StatusOf(r)]' = [r \in Reading |-> StatusOf(r)]
    BY <1>9 DEF PostGroup, StatusOf
  <2> QED BY <2>1, <2>2, <2>3 DEF Promise!Next, Promise!Handle
<1>10. CASE AnswerOk
  <2>1. Steps
    BY <1>10 DEF AnswerOk, StatusOf, Promise!MayBecome, IInv, HandledInv
  <2> QED BY <1>10, <2>1, AdvanceStep DEF AnswerOk
<1>11. CASE DeleteExecute
  <2>1. Steps
    BY <1>11 DEF DeleteExecute, StatusOf, Promise!MayBecome, IInv, HandledInv,
                 backendVars
  <2> QED BY <1>11, <2>1, AdvanceStep DEF DeleteExecute, backendVars
<1>12. CASE BumpExecute
  <2>1. Steps
    BY <1>12 DEF BumpExecute, StatusOf, Promise!MayBecome, backendVars
  <2> QED BY <1>12, <2>1, AdvanceStep DEF BumpExecute, backendVars
<1>13. CASE DrainerCommit
  BY <1>2, <1>13 DEF DrainerCommit, backendVars
<1>14. CASE DrainerDatabaseError
  BY <1>3, <1>14 DEF DrainerDatabaseError, DatabaseError, backendVars
<1>15. CASE Exit \/ Crash
  BY <1>3, <1>15 DEF Exit, Crash, backendVars
<1>16. CASE UNCHANGED vars
  BY <1>1, <1>16 DEF vars, backendVars
<1> QED
  BY <1>4, <1>5, <1>6, <1>7, <1>8, <1>9, <1>10, <1>11, <1>12, <1>13, <1>14,
     <1>15, <1>16 DEF Next, Insert, Drainer

\* Once durable, a reading leaves the outbox only when the backend has handled
\* it, never comes back, and is never posted once it is parked.
THEOREM PromiseKept == Spec => KeepsPromise
<1>1. Init => Promise!Init
  <2> SUFFICES ASSUME Init PROVE Promise!Init
    OBVIOUS
  <2>1. DOMAIN db = {} /\ DOMAIN disk = {} /\ acked = {} /\ handled = {}
    BY DEF Init
  <2>2. \A r \in Reading : StatusOf(r) = "new"
    BY <2>1 DEF StatusOf
  <2> QED BY <2>1, <2>2 DEF Promise!Init
<1>2. IInv /\ [Next]_vars => [Promise!Next]_(Promise!vars)
  BY PromiseStep
<1> QED BY <1>1, <1>2, Invariance, PTL DEF Spec, KeepsPromise, Promise!Spec
=============================================================================
