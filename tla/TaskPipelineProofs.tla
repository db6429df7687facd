------------------------- MODULE TaskPipelineProofs -------------------------
(***************************************************************************)
(* Proofs about TaskPipeline, for any workers, partitions, logs, tasks,    *)
(* retries and fault budgets.                                              *)
(***************************************************************************)
EXTENDS TaskPipeline, TLAPS

-----------------------------------------------------------------------------
(* Facts about the logs                                                    *)

LEMMA LogLen ==
  ASSUME NEW p \in Partitions
  PROVE  /\ Len(Log[p]) \in Nat
         /\ \A o \in Nat : o < Len(Log[p]) =>
              /\ Record(p, o).kind \in MessageKinds
              /\ Record(p, o).task \in Tasks
<1>1. Log[p] \in Seq([kind : MessageKinds, task : Tasks])
  BY PipelineAssumption
<1>2. ASSUME NEW S, NEW s \in Seq(S), NEW i \in 1 .. Len(s) PROVE s[i] \in S
  OBVIOUS
<1>3. Len(Log[p]) \in Nat
  BY <1>1
<1>4. ASSUME NEW o \in Nat, o < Len(Log[p])
      PROVE  Log[p][o + 1] \in [kind : MessageKinds, task : Tasks]
  <2>1. o + 1 \in 1 .. Len(Log[p])
    BY <1>3, <1>4
  <2> QED BY <1>1, <1>2, <2>1
<1> QED BY <1>3, <1>4 DEF Record

\* The record a worker holds is in its partition's log.
LEMMA JobInLog ==
  ASSUME LoopTypeOK, NEW w \in Workers, pc[w] \in BusyPcs
  PROVE  /\ job[w] # NONE
         /\ job[w] \in Jobs
         /\ job[w].part \in Partitions
         /\ job[w].off \in Nat
         /\ job[w].off < Len(Log[job[w].part])
         /\ job[w].off + 1 \in Offsets(job[w].part)
         /\ TaskOf(w) \in Tasks
<1>1. job[w] \in Jobs /\ job[w].off < Len(Log[job[w].part]) /\ job[w] # NONE
  BY DEF LoopTypeOK
<1>2. job[w].part \in Partitions /\ job[w].off \in Nat
  BY <1>1 DEF Jobs
<1>3. Len(Log[job[w].part]) \in Nat /\ TaskOf(w) \in Tasks
  BY <1>1, <1>2, LogLen DEF TaskOf
<1>4. job[w].off + 1 \in Offsets(job[w].part)
  BY <1>1, <1>2, <1>3 DEF Offsets
<1> QED BY <1>1, <1>2, <1>3, <1>4

-----------------------------------------------------------------------------
(* Type correctness of the group's and the store's operations              *)

LEMMA GroupTypes ==
  ASSUME GroupTypeOK
  PROVE  /\ UNCHANGED groupVars => GroupTypeOK'
         /\ \A w \in Workers : Leave(w) => GroupTypeOK'
         /\ \A w \in Workers : CommitAll(w) => GroupTypeOK'
         /\ \A w \in Workers, p \in Partitions : Take(w, p) => GroupTypeOK'
         /\ \A w \in Workers, p \in Partitions : \A o \in Offsets(p) :
              CommitOne(w, p, o) => GroupTypeOK'
         /\ \A polling \in SUBSET Workers : Rebalance(polling) => GroupTypeOK'
<1>0. \A p \in Partitions : Len(Log[p]) \in Nat
  BY LogLen
<1>1. UNCHANGED groupVars => GroupTypeOK'
  BY DEF groupVars, GroupTypeOK
<1>2. ASSUME NEW w \in Workers, Leave(w) PROVE GroupTypeOK'
  BY <1>2 DEF Leave, GroupTypeOK
<1>3. ASSUME NEW w \in Workers, CommitAll(w) PROVE GroupTypeOK'
  BY <1>3 DEF CommitAll, GroupTypeOK
<1>4. ASSUME NEW w \in Workers, NEW p \in Partitions, Take(w, p) PROVE GroupTypeOK'
  BY <1>4, <1>0 DEF Take, GroupTypeOK, Offsets
<1>5. ASSUME NEW w \in Workers, NEW p \in Partitions, NEW o \in Offsets(p), CommitOne(w, p, o)
      PROVE  GroupTypeOK'
  <2>1. o \in Nat
    BY <1>0 DEF Offsets
  <2> QED BY <1>5, <2>1 DEF CommitOne, GroupTypeOK
<1>6. ASSUME NEW polling \in SUBSET Workers, Rebalance(polling) PROVE GroupTypeOK'
  BY <1>6 DEF Rebalance, GroupTypeOK
<1> QED BY <1>1, <1>2, <1>3, <1>4, <1>5, <1>6

LEMMA StoreTypes ==
  ASSUME StoreTypeOK
  PROVE  /\ UNCHANGED storeVars => StoreTypeOK'
         /\ \A t \in Tasks, w \in Workers : MarkRunning(t, w) => StoreTypeOK'
         /\ \A t \in Tasks, w \in Workers : \A s \in Statuses :
              MarkFinal(t, w, s) => StoreTypeOK'
         /\ \A t \in Tasks : ClearPreviousResults(t) => StoreTypeOK'
         /\ \A b \in Tables, t \in Tasks, w \in Workers : \A ks \in SUBSET Keys :
              UpsertRows(b, t, w, ks) => StoreTypeOK'
<1>1. UNCHANGED storeVars => StoreTypeOK'
  BY DEF storeVars, StoreTypeOK
<1>2. ASSUME NEW t \in Tasks, NEW w \in Workers, MarkRunning(t, w) PROVE StoreTypeOK'
  BY <1>2 DEF MarkRunning, SetStatus, StoreTypeOK, Statuses, Runs
<1>3. ASSUME NEW t \in Tasks, NEW w \in Workers, NEW s \in Statuses, MarkFinal(t, w, s)
      PROVE  StoreTypeOK'
  BY <1>3 DEF MarkFinal, SetStatus, StoreTypeOK
<1>4. ASSUME NEW t \in Tasks, ClearPreviousResults(t) PROVE StoreTypeOK'
  BY <1>4 DEF ClearPreviousResults, StoreTypeOK, Runs
<1>5. ASSUME NEW b \in Tables, NEW t \in Tasks, NEW w \in Workers, NEW ks \in SUBSET Keys,
             UpsertRows(b, t, w, ks)
      PROVE  StoreTypeOK'
  BY <1>5 DEF UpsertRows, StoreTypeOK, Runs
<1> QED BY <1>1, <1>2, <1>3, <1>4, <1>5

LEMMA TypeInit == Init => TypeOK
<1> SUFFICES ASSUME Init PROVE TypeOK
  OBVIOUS
<1>1. GroupTypeOK
  <2>1. ASSUME NEW p \in Partitions PROVE 0 \in Offsets(p)
    BY LogLen DEF Offsets
  <2> QED BY <2>1 DEF Init, GroupInit, GroupTypeOK
<1>2. StoreTypeOK
  BY DEF Init, StoreInit, StoreTypeOK, Statuses, Runs
<1>3. LoopTypeOK
  BY DEF Init, LoopTypeOK, Pcs, BusyPcs, HandlerPcs, GonePcs, DesiredStates
<1>4. SharedTypeOK
  BY PipelineAssumption DEF Init, SharedTypeOK, DesiredStates, Kinds
<1> QED
  BY <1>1, <1>2, <1>3, <1>4 DEF TypeOK

-----------------------------------------------------------------------------
(* Type correctness of the moves of a worker                               *)

LEMMA LoopStays == LoopTypeOK /\ UNCHANGED loopVars => LoopTypeOK'
BY DEF loopVars, LoopTypeOK

\* Goto keeps the record in hand, so it stays among the busy labels or among
\* the others.
LEMMA GotoTypes ==
  ASSUME LoopTypeOK, NEW w \in Workers, NEW l \in Pcs,
         pc[w] \in BusyPcs <=> l \in BusyPcs,
         Goto(w, l)
  PROVE  LoopTypeOK'
BY DEF LoopTypeOK, Goto

\* A worker that lets go of its record goes to a label that is not busy.
LEMMA DropTypes ==
  ASSUME LoopTypeOK, NEW w \in Workers, NEW l \in Pcs \ BusyPcs,
         pc' = [pc EXCEPT ![w] = l], job' = [job EXCEPT ![w] = NONE], UNCHANGED seen
  PROVE  LoopTypeOK'
BY DEF LoopTypeOK

LEMMA DieTypes ==
  ASSUME LoopTypeOK, NEW w \in Workers, Die(w)
  PROVE  LoopTypeOK'
<1>1. "dead" \in Pcs \ BusyPcs
  BY DEF Pcs, BusyPcs, HandlerPcs, GonePcs
<1> QED BY <1>1, DropTypes DEF Die

\* A worker that changes its record keeps the partition and the offset.
LEMMA JobTypes ==
  ASSUME LoopTypeOK, NEW w \in Workers, NEW l \in BusyPcs, NEW j \in Jobs,
         j.off < Len(Log[j.part]),
         pc' = [pc EXCEPT ![w] = l], job' = [job EXCEPT ![w] = j], UNCHANGED seen
  PROVE  LoopTypeOK'
<1>1. NONE \notin Jobs /\ l \in Pcs
  BY PipelineAssumption DEF Pcs
<1> QED BY <1>1 DEF LoopTypeOK

LEMMA RaiseTypes ==
  ASSUME LoopTypeOK, NEW w \in Workers, NEW v \in BOOLEAN,
         pc[w] \in BusyPcs, Raise(w, v)
  PROVE  LoopTypeOK'
<1> DEFINE j == [job[w] EXCEPT !.value = v]
<1>1. job[w] \in Jobs /\ job[w].off < Len(Log[job[w].part])
  BY JobInLog
<1>2. j \in Jobs /\ j.off < Len(Log[j.part])
  BY <1>1 DEF Jobs
<1>3. "failing" \in BusyPcs
  BY DEF BusyPcs, HandlerPcs
<1>4. job' = [job EXCEPT ![w] = j]
  BY DEF Raise
<1> HIDE DEF j
<1> QED BY <1>2, <1>3, <1>4, JobTypes DEF Raise

LEMMA RetryTypes ==
  ASSUME LoopTypeOK, NEW w \in Workers, NEW a \in 1 .. MaxRetries, NEW beat \in BOOLEAN,
         pc[w] \in BusyPcs, Retry(w, a, beat)
  PROVE  LoopTypeOK'
<1> DEFINE j == [job[w] EXCEPT !.attempt = a, !.beat = beat, !.value = FALSE]
<1>1. job[w] \in Jobs /\ job[w].off < Len(Log[job[w].part])
  BY JobInLog
<1>2. j \in Jobs /\ j.off < Len(Log[j.part])
  BY <1>1 DEF Jobs
<1>3. "begin" \in BusyPcs
  BY DEF BusyPcs, HandlerPcs
<1>4. job' = [job EXCEPT ![w] = j]
  BY DEF Retry
<1> HIDE DEF j
<1> QED BY <1>2, <1>3, <1>4, JobTypes DEF Retry

LEMMA SpendTypes ==
  ASSUME NEW kind \in Kinds, Spend(kind), budget \in [Kinds -> Nat]
  PROVE  budget' \in [Kinds -> Nat]
BY DEF Spend

\* The effect of a transaction is only known to keep the store's types.
LEMMA TransactionTypes ==
  ASSUME LoopTypeOK, StoreTypeOK, SharedTypeOK,
         NEW w \in Workers, NEW l \in BusyPcs, pc[w] \in BusyPcs,
         NEW ACTION Effect, Effect => StoreTypeOK',
         Transaction(w, Effect, l), UNCHANGED <<desired, reg, histVars>>
  PROVE  StoreTypeOK' /\ LoopTypeOK' /\ SharedTypeOK'
<1>1. StoreTypeOK'
  BY StoreTypes DEF Transaction
<1>2. LoopTypeOK'
  BY GotoTypes, RaiseTypes DEF Transaction, Pcs
<1>3. SharedTypeOK'
  <2>1. "db" \in Kinds
    BY DEF Kinds
  <2>2. budget' \in [Kinds -> Nat]
    BY <2>1, SpendTypes DEF Transaction, SharedTypeOK
  <2> QED BY <2>2 DEF SharedTypeOK, histVars
<1> QED BY <1>1, <1>2, <1>3

LEMMA CommitEndsTypes ==
  ASSUME GroupTypeOK, LoopTypeOK, SharedTypeOK,
         NEW w \in Workers, NEW l \in Pcs \ BusyPcs, pc[w] \in BusyPcs,
         NEW ACTION Stored, Stored => GroupTypeOK',
         CommitEnds(w, Stored, l), UNCHANGED <<desired, reg, histVars>>
  PROVE  GroupTypeOK' /\ LoopTypeOK' /\ SharedTypeOK'
<1>1. GroupTypeOK'
  BY GroupTypes DEF CommitEnds
<1>2. LoopTypeOK'
  BY DropTypes, DieTypes DEF CommitEnds
<1>3. SharedTypeOK'
  <2>1. "kafka" \in Kinds
    BY DEF Kinds
  <2>2. budget' \in [Kinds -> Nat]
    BY <2>1, SpendTypes DEF CommitEnds, SharedTypeOK
  <2> QED BY <2>2 DEF SharedTypeOK, histVars
<1> QED BY <1>1, <1>2, <1>3

LEMMA SettleTypes ==
  ASSUME SharedTypeOK, NEW p \in Partitions, NEW o \in Nat, Settle(p, o)
  PROVE  settled' \in [Partitions -> SUBSET Nat]
BY DEF SharedTypeOK, Settle

-----------------------------------------------------------------------------
(* Every action keeps TypeOK                                               *)

LEMMA WorkerStepTypes ==
  ASSUME TypeOK, NEW w \in Workers, WorkerStep(w)
  PROVE  TypeOK'
<1> USE DEF TypeOK
<1>l. /\ {"top", "report", "poll", "release", "after", "wrapup", "dead", "exited"}
           \subseteq Pcs \ BusyPcs
      /\ HandlerPcs \cup {"claim", "commit", "reject"} \subseteq BusyPcs
      /\ BusyPcs \subseteq Pcs
  BY DEF Pcs, BusyPcs, HandlerPcs, GonePcs
<1>t. ActualFor(seen[w]) \in ActualStates /\ ActualAfter(seen[w]) \in ActualStates
  BY DEF LoopTypeOK, ActualFor, ActualAfter, ActualStates, DesiredStates
<1>r. "RUNNING" \in ActualStates
  BY DEF ActualStates
<1>1. CASE ReadControl(w)
  <2>1. LoopTypeOK'
    BY <1>1, <1>l DEF ReadControl, LoopTypeOK, SharedTypeOK, At
  <2>2. GroupTypeOK' /\ StoreTypeOK'
    BY <1>1, GroupTypes, StoreTypes DEF ReadControl
  <2>3. SharedTypeOK'
    BY <1>1 DEF ReadControl, SharedTypeOK, histVars
  <2> QED BY <2>1, <2>2, <2>3
<1>2. CASE Report(w)
  <2>1. LoopTypeOK'
    BY <1>2, <1>l, GotoTypes DEF Report, At
  <2>2. GroupTypeOK' /\ StoreTypeOK'
    BY <1>2, GroupTypes, StoreTypes DEF Report
  <2>3. SharedTypeOK'
    BY <1>2, <1>t DEF Report, SharedTypeOK, Heartbeat, histVars
  <2> QED BY <2>1, <2>2, <2>3
<1>3. CASE ReadControlAgain(w)
  <2>1. LoopTypeOK'
    BY <1>3, <1>l DEF ReadControlAgain, LoopTypeOK, SharedTypeOK, At
  <2>2. GroupTypeOK' /\ StoreTypeOK'
    BY <1>3, GroupTypes, StoreTypes DEF ReadControlAgain
  <2>3. SharedTypeOK'
    BY <1>3 DEF ReadControlAgain, SharedTypeOK, histVars
  <2> QED BY <2>1, <2>2, <2>3
<1>4. CASE Wrapup(w)
  <2>1. LoopTypeOK'
    BY <1>4, <1>l, GotoTypes DEF Wrapup, At
  <2>2. GroupTypeOK' /\ StoreTypeOK'
    BY <1>4, GroupTypes, StoreTypes DEF Wrapup
  <2>3. SharedTypeOK'
    BY <1>4, <1>t DEF Wrapup, SharedTypeOK, Heartbeat, histVars
  <2> QED BY <2>1, <2>2, <2>3
<1>5. CASE PollEmpty(w)
  <2>1. LoopTypeOK'
    BY <1>5, <1>l, GotoTypes DEF PollEmpty, At
  <2>2. GroupTypeOK' /\ StoreTypeOK'
    BY <1>5, GroupTypes, StoreTypes DEF PollEmpty
  <2>3. SharedTypeOK'
    BY <1>5 DEF PollEmpty, SharedTypeOK, histVars
  <2> QED BY <2>1, <2>2, <2>3
<1>6. ASSUME NEW p \in Partitions, PollRecord(w, p) PROVE TypeOK'
  <2> DEFINE o == position[p]
  <2>1. o \in Nat /\ o < Len(Log[p])
    BY <1>6 DEF PollRecord, Take, GroupTypeOK
  <2>2. NewJob(p) \in Jobs /\ NewJob(p).off < Len(Log[NewJob(p).part])
    BY <2>1, PipelineAssumption DEF NewJob, Jobs
  <2>3. GroupTypeOK' /\ StoreTypeOK'
    BY <1>6, GroupTypes, StoreTypes DEF PollRecord
  <2>4. LoopTypeOK'
    BY <1>6, <2>2, <1>l, JobTypes, DieTypes DEF PollRecord
  <2>5. late' \in [Workers -> Nat]
    BY <1>6 DEF PollRecord, SharedTypeOK
  <2>6. settled' \in [Partitions -> SUBSET Nat]
    BY <1>6, <2>1, SettleTypes DEF PollRecord, SharedTypeOK
  <2>7. SharedTypeOK'
    BY <1>6, <2>5, <2>6 DEF PollRecord, SharedTypeOK
  <2> QED BY <2>3, <2>4, <2>7
<1>7. CASE Claim(w)
  <2>1. LoopTypeOK'
    BY <1>7, <1>l, GotoTypes DEF Claim, At, HandlerPcs
  <2>2. GroupTypeOK' /\ StoreTypeOK'
    BY <1>7, GroupTypes, StoreTypes DEF Claim
  <2>3. SharedTypeOK'
    BY <1>7, <1>r DEF Claim, SharedTypeOK, Heartbeat, histVars
  <2> QED BY <2>1, <2>2, <2>3
<1>8. CASE Commit(w)
  <2>1. pc[w] \in BusyPcs
    BY <1>8, <1>l DEF Commit, At
  <2>2. StoreTypeOK'
    BY <1>8, StoreTypes DEF Commit
  <2>3. GroupTypeOK' /\ LoopTypeOK' /\ SharedTypeOK'
    BY <1>8, <2>1, <1>l, GroupTypes, CommitEndsTypes DEF Commit
  <2> QED BY <2>2, <2>3
<1>9. CASE Reject(w)
  <2>1. pc[w] \in BusyPcs
    BY <1>9, <1>l DEF Reject, At
  <2>2. StoreTypeOK'
    BY <1>9, StoreTypes DEF Reject
  <2>3. GroupTypeOK' /\ LoopTypeOK' /\ SharedTypeOK'
    BY <1>9, <2>1, <1>l, JobInLog, GroupTypes, CommitEndsTypes DEF Reject
  <2> QED BY <2>2, <2>3
<1>10. CASE Release(w)
  <2>1. LoopTypeOK'
    BY <1>10, <1>l, GotoTypes DEF Release, At
  <2>2. GroupTypeOK' /\ StoreTypeOK'
    BY <1>10, GroupTypes, StoreTypes DEF Release
  <2>3. SharedTypeOK'
    BY <1>10, <1>r DEF Release, SharedTypeOK, Heartbeat, histVars
  <2> QED BY <2>1, <2>2, <2>3
<1>11. CASE Begin(w)
  <2>1. pc[w] \in BusyPcs /\ "clear" \in BusyPcs
    BY <1>11, <1>l DEF Begin, At, HandlerPcs
  <2>2. GroupTypeOK'
    BY <1>11, GroupTypes DEF Begin
  <2>3. MarkRunning(TaskOf(w), w) => StoreTypeOK'
    BY <2>1, JobInLog, StoreTypes
  <2>4. StoreTypeOK' /\ LoopTypeOK' /\ SharedTypeOK'
    BY <1>11, <2>1, <2>3, TransactionTypes DEF Begin
  <2> QED BY <2>2, <2>4
<1>12. CASE Clear(w)
  <2>1. pc[w] \in BusyPcs /\ "analyse" \in BusyPcs
    BY <1>12, <1>l DEF Clear, At, HandlerPcs
  <2>2. GroupTypeOK'
    BY <1>12, GroupTypes DEF Clear
  <2>3. ClearPreviousResults(TaskOf(w)) => StoreTypeOK'
    BY <2>1, JobInLog, StoreTypes
  <2>4. StoreTypeOK' /\ LoopTypeOK' /\ SharedTypeOK'
    BY <1>12, <2>1, <2>3, TransactionTypes DEF Clear
  <2> QED BY <2>2, <2>4
<1>13. CASE Analyse(w)
  <2>1. pc[w] \in BusyPcs /\ "timeline" \in BusyPcs
    BY <1>13, <1>l DEF Analyse, At, HandlerPcs
  <2>2. GroupTypeOK' /\ StoreTypeOK'
    BY <1>13, GroupTypes, StoreTypes DEF Analyse
  <2>3. LoopTypeOK'
    <3>1. CASE Goto(w, "timeline")
      BY <3>1, <2>1, <1>l, GotoTypes
    <3>2. ASSUME NEW v \in BOOLEAN, Raise(w, v) PROVE LoopTypeOK'
      BY <3>2, <2>1, RaiseTypes
    <3> QED BY <1>13, <3>1, <3>2 DEF Analyse
  <2>4. SharedTypeOK'
    BY <1>13, <1>r DEF Analyse, SharedTypeOK, Heartbeat, histVars
  <2> QED BY <2>2, <2>3, <2>4
<1>14. ASSUME NEW b \in Tables, WriteRows(w, b) PROVE TypeOK'
  <2>1. b \in {"timeline", "snapshot", "stat", "indicator"}
    BY DEF Tables, ClearedTables
  <2>2. pc[w] \in BusyPcs /\ WriteOrder[b] \in BusyPcs
    BY <1>14, <2>1, <1>l DEF WriteRows, At, HandlerPcs, WriteOrder
  <2>3. GroupTypeOK'
    BY <1>14, GroupTypes DEF WriteRows
  <2>4. PICK ks \in RowsOf(b) :
          \/ ks = {} /\ Goto(w, WriteOrder[b]) /\ UNCHANGED <<storeVars, budget>>
          \/ Transaction(w, UpsertRows(b, TaskOf(w), w, ks), WriteOrder[b])
    BY <1>14 DEF WriteRows
  <2>5. ks \in SUBSET Keys
    BY StoreAssumption DEF RowsOf
  <2>6. UpsertRows(b, TaskOf(w), w, ks) => StoreTypeOK'
    BY <2>2, <2>5, JobInLog, StoreTypes
  <2>7. UNCHANGED <<desired, reg, histVars>>
    BY <1>14 DEF WriteRows
  <2>8. CASE Goto(w, WriteOrder[b]) /\ UNCHANGED <<storeVars, budget>>
    <3>1. StoreTypeOK'
      BY <2>8, StoreTypes
    <3>2. LoopTypeOK'
      BY <2>8, <2>2, <1>l, GotoTypes
    <3>3. SharedTypeOK'
      BY <2>8, <2>7 DEF SharedTypeOK, histVars
    <3> QED BY <2>3, <3>1, <3>2, <3>3
  <2>9. CASE Transaction(w, UpsertRows(b, TaskOf(w), w, ks), WriteOrder[b])
    BY <2>9, <2>2, <2>3, <2>6, <2>7, TransactionTypes
  <2> QED BY <2>4, <2>8, <2>9
<1>15. CASE Success(w)
  <2>1. pc[w] \in BusyPcs /\ "finished" \in BusyPcs /\ "success" \in Statuses
    BY <1>15, <1>l DEF Success, At, HandlerPcs, Statuses
  <2>2. GroupTypeOK'
    BY <1>15, GroupTypes DEF Success
  <2>3. MarkFinal(TaskOf(w), w, "success") => StoreTypeOK'
    BY <2>1, JobInLog, StoreTypes
  <2>4. StoreTypeOK' /\ LoopTypeOK' /\ SharedTypeOK'
    BY <1>15, <2>1, <2>3, TransactionTypes DEF Success
  <2> QED BY <2>2, <2>4
<1>16. CASE Finish(w)
  <2>1. pc[w] \in BusyPcs
    BY <1>16, <1>l DEF Finish, At, HandlerPcs
  <2>2. GroupTypeOK' /\ StoreTypeOK'
    BY <1>16, GroupTypes, StoreTypes DEF Finish
  <2>3. LoopTypeOK'
    BY <1>16, <2>1, <1>l, GotoTypes, RaiseTypes DEF Finish
  <2>4. budget' \in [Kinds -> Nat]
    <3>1. "redis" \in Kinds
      BY DEF Kinds
    <3> QED BY <1>16, <3>1, SpendTypes DEF Finish, SharedTypeOK
  <2>5. settled' \in [Partitions -> SUBSET Nat]
    BY <1>16, <2>1, JobInLog, SettleTypes DEF Finish, SharedTypeOK
  <2>6. SharedTypeOK'
    BY <1>16, <2>4, <2>5, <1>r DEF Finish, SharedTypeOK, Heartbeat
  <2> QED BY <2>2, <2>3, <2>6
<1>17. CASE Fail(w)
  <2>1. pc[w] \in BusyPcs /\ "failed" \in Statuses
    BY <1>17, <1>l DEF Fail, At, HandlerPcs, Statuses
  <2>2. GroupTypeOK'
    BY <1>17, GroupTypes DEF Fail
  <2>3. StoreTypeOK'
    BY <1>17, <2>1, JobInLog, StoreTypes DEF Fail
  <2>4. job[w].attempt \in 1 .. MaxRetries
    BY <2>1, JobInLog DEF Jobs
  <2>5. LoopTypeOK'
    <3>1. CASE Retry(w, job[w].attempt, FALSE)
      BY <3>1, <2>1, <2>4, RetryTypes
    <3>2. CASE Retry(w, job[w].attempt + 1, TRUE) /\ ~(job[w].attempt >= MaxRetries)
      <4>1. job[w].attempt + 1 \in 1 .. MaxRetries
        BY <3>2, <2>4, PipelineAssumption
      <4> QED BY <3>2, <2>1, <4>1, RetryTypes
    <3>3. CASE Goto(w, "commit")
      BY <3>3, <2>1, <1>l, GotoTypes
    <3> QED BY <1>17, <3>1, <3>2, <3>3 DEF Fail
  <2>6. budget' \in [Kinds -> Nat]
    <3>1. "db" \in Kinds
      BY DEF Kinds
    <3> QED BY <1>17, <3>1, SpendTypes DEF Fail, SharedTypeOK
  <2>7. settled' \in [Partitions -> SUBSET Nat]
    BY <1>17, <2>1, JobInLog, SettleTypes DEF Fail, Retry, SharedTypeOK
  <2>8. SharedTypeOK'
    BY <1>17, <2>6, <2>7 DEF Fail, SharedTypeOK
  <2> QED BY <2>2, <2>3, <2>5, <2>8
<1> QED
  BY <1>1, <1>2, <1>3, <1>4, <1>5, <1>6, <1>7, <1>8, <1>9, <1>10, <1>11, <1>12, <1>13,
     <1>14, <1>15, <1>16, <1>17 DEF WorkerStep

LEMMA EnvironmentTypes ==
  ASSUME TypeOK, NEW w \in Workers, Environment(w)
  PROVE  TypeOK'
<1> USE DEF TypeOK
<1>k. {"redis", "crash", "evict", "expire"} \subseteq Kinds
  BY DEF Kinds
<1>g. \A l \in GonePcs : l \notin BusyPcs
  BY DEF GonePcs, BusyPcs, HandlerPcs
<1>1. CASE RedisFault(w)
  <2>1. GroupTypeOK' /\ StoreTypeOK' /\ LoopTypeOK'
    BY <1>1, GroupTypes, StoreTypes, DieTypes DEF RedisFault
  <2>2. SharedTypeOK'
    BY <1>1, <1>k, SpendTypes DEF RedisFault, SharedTypeOK, histVars
  <2> QED BY <2>1, <2>2
<1>2. CASE Crash(w)
  <2>1. GroupTypeOK' /\ StoreTypeOK' /\ LoopTypeOK'
    BY <1>2, GroupTypes, StoreTypes, DieTypes DEF Crash
  <2>2. SharedTypeOK'
    BY <1>2, <1>k, SpendTypes DEF Crash, SharedTypeOK, histVars
  <2> QED BY <2>1, <2>2
<1>3. CASE Restart(w)
  <2>1. GroupTypeOK' /\ StoreTypeOK'
    BY <1>3, GroupTypes, StoreTypes DEF Restart
  <2>2. "top" \in Pcs \ BusyPcs /\ "PAUSED" \in DesiredStates
    BY DEF Pcs, BusyPcs, HandlerPcs, DesiredStates
  <2>3. LoopTypeOK'
    BY <1>3, <1>g, <2>2 DEF Restart, LoopTypeOK
  <2>4. SharedTypeOK'
    BY <1>3 DEF Restart, SharedTypeOK, histVars
  <2> QED BY <2>1, <2>3, <2>4
<1>4. CASE SessionTimeout(w)
  <2>1. GroupTypeOK' /\ StoreTypeOK' /\ LoopTypeOK'
    BY <1>4, GroupTypes, StoreTypes, LoopStays DEF SessionTimeout
  <2>2. SharedTypeOK'
    BY <1>4 DEF SessionTimeout, SharedTypeOK, histVars
  <2> QED BY <2>1, <2>2
<1>5. CASE LeaveWhilePaused(w)
  <2>1. GroupTypeOK' /\ StoreTypeOK' /\ LoopTypeOK'
    BY <1>5, GroupTypes, StoreTypes, LoopStays DEF LeaveWhilePaused
  <2>2. SharedTypeOK'
    BY <1>5 DEF LeaveWhilePaused, SharedTypeOK, histVars
  <2> QED BY <2>1, <2>2
<1>6. CASE EvictSlow(w)
  <2>1. GroupTypeOK' /\ StoreTypeOK' /\ LoopTypeOK'
    BY <1>6, GroupTypes, StoreTypes, LoopStays DEF EvictSlow
  <2>2. SharedTypeOK'
    BY <1>6, <1>k, SpendTypes DEF EvictSlow, SharedTypeOK, histVars
  <2> QED BY <2>1, <2>2
<1>7. CASE RowExpires(w)
  <2>1. GroupTypeOK' /\ StoreTypeOK' /\ LoopTypeOK'
    BY <1>7, GroupTypes, StoreTypes, LoopStays DEF RowExpires
  <2>2. SharedTypeOK'
    BY <1>7, <1>k, SpendTypes DEF RowExpires, SharedTypeOK, Heartbeat, histVars
  <2> QED BY <2>1, <2>2
<1> QED
  BY <1>1, <1>2, <1>3, <1>4, <1>5, <1>6, <1>7 DEF Environment

LEMMA TypeStep == TypeOK /\ [Next]_vars => TypeOK'
<1> SUFFICES ASSUME TypeOK, [Next]_vars PROVE TypeOK'
  OBVIOUS
<1>1. ASSUME NEW w \in Workers, WorkerStep(w) \/ Environment(w) PROVE TypeOK'
  BY <1>1, WorkerStepTypes, EnvironmentTypes
<1>2. CASE CompleteRebalance
  <2>1. GroupTypeOK'
    BY <1>2, GroupTypes DEF CompleteRebalance, AtPoll, TypeOK
  <2>2. StoreTypeOK' /\ LoopTypeOK'
    BY <1>2, StoreTypes, LoopStays DEF CompleteRebalance, TypeOK
  <2>3. SharedTypeOK'
    BY <1>2 DEF CompleteRebalance, TypeOK, SharedTypeOK, histVars
  <2> QED BY <2>1, <2>2, <2>3 DEF TypeOK
<1>3. ASSUME NEW state \in {"RUNNING", "PAUSED", "DRAINING"}, SetDesired(state) PROVE TypeOK'
  <2>1. GroupTypeOK' /\ StoreTypeOK' /\ LoopTypeOK'
    BY <1>3, GroupTypes, StoreTypes, LoopStays DEF SetDesired, TypeOK
  <2>2. "control" \in Kinds /\ state \in DesiredStates
    BY DEF Kinds, DesiredStates
  <2>3. SharedTypeOK'
    BY <1>3, <2>2, SpendTypes DEF SetDesired, TypeOK, SharedTypeOK
  <2> QED BY <2>1, <2>3 DEF TypeOK
<1>4. CASE UNCHANGED vars
  <2>1. GroupTypeOK' /\ StoreTypeOK' /\ LoopTypeOK'
    BY <1>4, GroupTypes, StoreTypes, LoopStays DEF vars, TypeOK
  <2>2. SharedTypeOK'
    BY <1>4 DEF vars, histVars, TypeOK, SharedTypeOK
  <2> QED BY <2>1, <2>2 DEF TypeOK
<1> QED
  BY <1>1, <1>2, <1>3, <1>4 DEF Next

\* Type correctness: every variable keeps its range, a worker holds a record
\* exactly at the labels between poll() and the end of commit(), and positions
\* and committed offsets never leave the log.
THEOREM TypeCorrect == Spec => []TypeOK
<1>1. Init => TypeOK
  BY TypeInit
<1>2. TypeOK /\ [Next]_vars => TypeOK'
  BY TypeStep
<1> QED BY <1>1, <1>2, PTL DEF Spec

-----------------------------------------------------------------------------
(* No record is lost: PositionInv and NoLoss are inductive together        *)

\* A step that leaves the group alone and in which w, still alive, keeps the
\* record it has, if any, and does not come to a commit.
LEMMA QuietMove ==
  ASSUME GroupTypeOK, LoopTypeOK, PositionInv, NEW w \in Workers, NEW l \in Pcs,
         pc[w] # "dead", l \notin {"commit", "reject"},
         pc' = [pc EXCEPT ![w] = l],
         \A v \in Workers : v # w => job'[v] = job[v],
         job[w] = NONE => job'[w] = NONE,
         job[w] # NONE => /\ job'[w] # NONE
                          /\ job'[w].part = job[w].part
                          /\ job'[w].off = job[w].off,
         UNCHANGED groupVars, UNCHANGED settled
  PROVE  PositionInv'
<1>1. OwnerInv'
  <2> SUFFICES ASSUME NEW p \in Partitions, owner[p] # NONE
               PROVE  /\ owner[p] \in members
                      /\ \/ position[p] = committed[p]
                         \/ /\ position[p] = committed[p] + 1
                            /\ \/ pc'[owner[p]] = "dead"
                               \/ job'[owner[p]] # NONE /\ job'[owner[p]].part = p
    BY DEF OwnerInv, groupVars
  <2>1. /\ owner[p] \in members
        /\ \/ position[p] = committed[p]
           \/ /\ position[p] = committed[p] + 1
              /\ \/ pc[owner[p]] = "dead"
                 \/ job[owner[p]] # NONE /\ job[owner[p]].part = p
    BY DEF PositionInv, OwnerInv
  <2>2. CASE owner[p] = w
    BY <2>1, <2>2
  <2>3. CASE owner[p] # w
    <3>1. owner[p] \in Workers
      BY DEF GroupTypeOK
    <3>2. pc'[owner[p]] = pc[owner[p]] /\ job'[owner[p]] = job[owner[p]]
      BY <2>3, <3>1 DEF LoopTypeOK
    <3> QED BY <2>1, <3>2
  <2> QED BY <2>2, <2>3
<1>2. JobInv'
  <2> SUFFICES ASSUME NEW v \in Workers, job'[v] # NONE
               PROVE  /\ job'[v].off <= committed[job'[v].part]
                      /\ v \in members =>
                           /\ owner[job'[v].part] = v
                           /\ job'[v].off = committed[job'[v].part]
                           /\ position[job'[v].part] = job'[v].off + 1
                      /\ pc'[v] \in {"commit", "reject"} =>
                           job'[v].off \in settled[job'[v].part]
    BY DEF JobInv, groupVars
  <2>1. job[v] # NONE /\ job'[v].part = job[v].part /\ job'[v].off = job[v].off
    OBVIOUS
  <2>2. pc'[v] \in {"commit", "reject"} => pc[v] = pc'[v]
    BY DEF LoopTypeOK
  <2> QED BY <2>1, <2>2 DEF PositionInv, JobInv
<1> QED BY <1>1, <1>2 DEF PositionInv

LEMMA DieMove ==
  ASSUME GroupTypeOK, LoopTypeOK, PositionInv, NEW w \in Workers, Die(w),
         UNCHANGED groupVars, UNCHANGED settled
  PROVE  PositionInv'
<1>1. OwnerInv'
  BY DEF PositionInv, OwnerInv, Die, groupVars, GroupTypeOK, LoopTypeOK
<1>2. JobInv'
  BY DEF PositionInv, JobInv, Die, groupVars, LoopTypeOK
<1> QED BY <1>1, <1>2 DEF PositionInv

\* The attempt loop ends: the record is settled and the commit is next.
LEMMA SettleMove ==
  ASSUME GroupTypeOK, LoopTypeOK, SharedTypeOK, PositionInv, NEW w \in Workers,
         pc[w] \in BusyPcs, pc[w] # "dead",
         Goto(w, "commit"), Settle(job[w].part, job[w].off), UNCHANGED groupVars
  PROVE  PositionInv'
<1>1. OwnerInv'
  BY DEF PositionInv, OwnerInv, Goto, groupVars, GroupTypeOK, LoopTypeOK
<1>2. JobInv'
  <2>1. \A p \in Partitions : settled[p] \subseteq settled'[p]
    BY DEF Settle, SharedTypeOK
  <2>2. job[w].part \in Partitions /\ job[w].off \in settled'[job[w].part]
    BY JobInLog DEF Settle, SharedTypeOK
  <2> SUFFICES ASSUME NEW v \in Workers, job[v] # NONE,
                      pc'[v] \in {"commit", "reject"}
               PROVE  job[v].off \in settled'[job[v].part]
    BY DEF PositionInv, JobInv, Goto, groupVars
  <2>3. CASE v = w
    BY <2>2, <2>3
  <2>4. CASE v # w
    <3>1. pc[v] \in {"commit", "reject"} /\ job[v].part \in Partitions
      BY <2>4 DEF Goto, LoopTypeOK, Jobs
    <3> QED BY <2>1, <3>1 DEF PositionInv, JobInv
  <2> QED BY <2>3, <2>4
<1> QED BY <1>1, <1>2 DEF PositionInv

\* The group's offset has not moved and no settled record is forgotten.
LEMMA NoLossStays ==
  ASSUME NoLoss, UNCHANGED committed, \A p \in Partitions : settled[p] \subseteq settled'[p]
  PROVE  NoLoss'
BY DEF NoLoss

\* A member leaves the group, whatever it is doing.
LEMMA LeaveMove ==
  ASSUME GroupTypeOK, LoopTypeOK, PositionInv, NEW w \in Workers, Leave(w),
         UNCHANGED loopVars, UNCHANGED settled
  PROVE  PositionInv'
<1>1. OwnerInv'
  <2> SUFFICES ASSUME NEW p \in Partitions, owner'[p] # NONE
               PROVE  /\ owner[p] # NONE /\ owner[p] # w /\ owner'[p] = owner[p]
    BY DEF PositionInv, OwnerInv, Leave, loopVars
  <2> QED BY DEF Leave, GroupTypeOK
<1>2. JobInv'
  <2> SUFFICES ASSUME NEW v \in Workers, job[v] # NONE, v \in members'
               PROVE  v \in members /\ owner'[job[v].part] = owner[job[v].part]
    BY DEF PositionInv, JobInv, Leave, loopVars
  <2>1. v \in members /\ v # w
    BY DEF Leave
  <2>2. owner[job[v].part] = v /\ job[v].part \in Partitions
    BY <2>1 DEF PositionInv, JobInv, LoopTypeOK, Jobs
  <2> QED BY <2>1, <2>2 DEF Leave
<1> QED BY <1>1, <1>2 DEF PositionInv

\* commit() without arguments stores exactly one new offset: the one after the
\* record in hand.
LEMMA CommitAllIsOne ==
  ASSUME GroupTypeOK, LoopTypeOK, PositionInv, NEW w \in Workers,
         pc[w] \in BusyPcs, pc[w] # "dead", CommitAll(w)
  PROVE  /\ committed' = [committed EXCEPT ![job[w].part] = job[w].off + 1]
         /\ UNCHANGED <<members, owner, position>>
<1>1. job[w] # NONE /\ job[w].part \in Partitions /\ w \in members
  BY JobInLog DEF CommitAll
<1>2. owner[job[w].part] = w /\ position[job[w].part] = job[w].off + 1
  BY <1>1 DEF PositionInv, JobInv
<1>3. ASSUME NEW p \in Partitions, owner[p] = w, p # job[w].part
      PROVE  position[p] = committed[p]
  <2>1. owner[p] # NONE
    BY <1>3, WorkerAssumption
  <2> QED BY <1>3, <2>1 DEF PositionInv, OwnerInv
<1>4. ASSUME NEW p \in Partitions
      PROVE  committed'[p] = [committed EXCEPT ![job[w].part] = job[w].off + 1][p]
  <2>1. CASE p = job[w].part
    BY <1>1, <1>2, <2>1 DEF CommitAll, GroupTypeOK
  <2>2. CASE p # job[w].part
    BY <1>1, <1>3, <2>2 DEF CommitAll, GroupTypeOK
  <2> QED BY <2>1, <2>2
<1>5. committed \in [Partitions -> Nat] /\ committed' = [p \in Partitions |-> committed'[p]]
  BY DEF CommitAll, GroupTypeOK
<1> QED BY <1>4, <1>5 DEF CommitAll

\* The commit is stored, and the worker lets go of the record (it goes on, or
\* dies because it does not learn that the commit was stored).
LEMMA StoredMove ==
  ASSUME GroupTypeOK, LoopTypeOK, PositionInv, NoLoss, NEW w \in Workers,
         pc[w] \in {"commit", "reject"}, w \in members,
         committed' = [committed EXCEPT ![job[w].part] = job[w].off + 1],
         UNCHANGED <<members, owner, position>>, UNCHANGED settled,
         NEW l \in Pcs \ BusyPcs,
         pc' = [pc EXCEPT ![w] = l], job' = [job EXCEPT ![w] = NONE]
  PROVE  PositionInv' /\ NoLoss'
<1> DEFINE q == job[w].part
           o == job[w].off
<1>1. job[w] # NONE /\ q \in Partitions /\ o \in Nat
  BY JobInLog DEF BusyPcs
<1>2. owner[q] = w /\ o = committed[q] /\ position[q] = o + 1 /\ o \in settled[q]
  BY <1>1 DEF PositionInv, JobInv
<1>3. committed'[q] = o + 1 /\ \A p \in Partitions : p # q => committed'[p] = committed[p]
  BY <1>1 DEF GroupTypeOK
<1> HIDE DEF q, o
<1>4. OwnerInv'
  <2> SUFFICES ASSUME NEW p \in Partitions, owner[p] # NONE
               PROVE  /\ owner[p] \in members
                      /\ \/ position[p] = committed'[p]
                         \/ /\ position[p] = committed'[p] + 1
                            /\ \/ pc'[owner[p]] = "dead"
                               \/ job'[owner[p]] # NONE /\ job'[owner[p]].part = p
    BY DEF OwnerInv
  <2>1. CASE p = q
    BY <1>2, <1>3, <2>1 DEF PositionInv, OwnerInv
  <2>2. CASE p # q
    <3>1. /\ owner[p] \in members
          /\ \/ position[p] = committed[p]
             \/ /\ position[p] = committed[p] + 1
                /\ \/ pc[owner[p]] = "dead"
                   \/ job[owner[p]] # NONE /\ job[owner[p]].part = p
      BY DEF PositionInv, OwnerInv
    <3>2. committed'[p] = committed[p] /\ owner[p] \in Workers
      BY <1>3, <2>2 DEF GroupTypeOK
    <3>3. CASE owner[p] = w
      BY <2>2, <3>1, <3>2, <3>3 DEF q
    <3>4. CASE owner[p] # w
      BY <3>1, <3>2, <3>4 DEF LoopTypeOK
    <3> QED BY <3>3, <3>4
  <2> QED BY <2>1, <2>2
<1>5. JobInv'
  <2> SUFFICES ASSUME NEW v \in Workers, job'[v] # NONE
               PROVE  /\ job'[v].off <= committed'[job'[v].part]
                      /\ v \in members =>
                           /\ owner[job'[v].part] = v
                           /\ job'[v].off = committed'[job'[v].part]
                           /\ position[job'[v].part] = job'[v].off + 1
                      /\ pc'[v] \in {"commit", "reject"} =>
                           job'[v].off \in settled[job'[v].part]
    BY DEF JobInv
  <2>1. v # w /\ job'[v] = job[v] /\ pc'[v] = pc[v]
    BY DEF LoopTypeOK
  <2>2. job[v].part \in Partitions /\ job[v].off \in Nat /\ job[v] # NONE
    BY <2>1 DEF LoopTypeOK, Jobs
  <2>3. /\ job[v].off <= committed[job[v].part]
        /\ v \in members =>
             /\ owner[job[v].part] = v
             /\ job[v].off = committed[job[v].part]
             /\ position[job[v].part] = job[v].off + 1
        /\ pc[v] \in {"commit", "reject"} => job[v].off \in settled[job[v].part]
    BY <2>2 DEF PositionInv, JobInv
  <2>4. CASE job[v].part = q
    <3>1. v \notin members
      BY <1>2, <2>1, <2>3, <2>4
    <3>2. job[v].off <= o
      BY <1>2, <2>3, <2>4
    <3>3. job[v].off <= committed'[q]
      BY <1>1, <1>3, <2>2, <3>2
    <3> QED BY <2>1, <2>3, <2>4, <3>1, <3>3
  <2>5. CASE job[v].part # q
    BY <1>3, <2>1, <2>2, <2>3, <2>5
  <2> QED BY <2>4, <2>5
<1>6. NoLoss'
  <2> SUFFICES ASSUME NEW p \in Partitions, NEW i \in 0 .. committed'[p] - 1
               PROVE  i \in settled[p]
    BY DEF NoLoss
  <2>1. committed[p] \in Nat
    BY DEF GroupTypeOK
  <2>2. CASE i < committed[p]
    BY <2>1, <2>2 DEF NoLoss
  <2>3. CASE i >= committed[p]
    BY <1>1, <1>2, <1>3, <2>1, <2>3
  <2> QED BY <2>1, <2>2, <2>3
<1> QED BY <1>4, <1>5, <1>6 DEF PositionInv

\* A record taken by poll() is the oldest unacknowledged one of its partition.
LEMMA TakeMove ==
  ASSUME TypeOK, PositionInv, NoLoss, NEW w \in Workers, NEW p \in Partitions,
         PollRecord(w, p)
  PROVE  PositionInv' /\ NoLoss'
<1> USE DEF TypeOK
<1>1. pc[w] = "poll" /\ job[w] = NONE /\ w \in members /\ owner[p] = w /\ owner[p] # NONE
  BY WorkerAssumption DEF PollRecord, Take, At, LoopTypeOK, BusyPcs, HandlerPcs
<1>2. position[p] = committed[p] /\ committed[p] \in Nat
  BY <1>1 DEF PositionInv, OwnerInv, GroupTypeOK
<1>3. /\ position'[p] = committed[p] + 1
      /\ \A q \in Partitions : q # p => position'[q] = position[q]
      /\ UNCHANGED <<members, owner, committed>>
  BY <1>2 DEF PollRecord, Take, GroupTypeOK
<1>4. \A q \in Partitions : settled[q] \subseteq settled'[q]
  BY DEF PollRecord, Settle, SharedTypeOK
<1>5. NoLoss'
  BY <1>3, <1>4, NoLossStays
<1>6. \A v \in Workers : v # w => pc'[v] = pc[v] /\ job'[v] = job[v]
  BY DEF PollRecord, Die, LoopTypeOK
<1>7. \/ pc'[w] = "dead" /\ job'[w] = NONE
      \/ /\ pc'[w] = "claim" \/ (pc'[w] = "reject" /\ committed[p] \in settled'[p])
         /\ job'[w] # NONE /\ job'[w].part = p /\ job'[w].off = committed[p]
  <2>1. NewJob(p) # NONE /\ NewJob(p).part = p /\ NewJob(p).off = committed[p]
    <3>1. NewJob(p) \in Jobs
      BY <1>2, PipelineAssumption DEF NewJob, Jobs
    <3> QED BY <1>2, <3>1, PipelineAssumption DEF NewJob
  <2>2. Settle(p, position[p]) => committed[p] \in settled'[p]
    BY <1>2 DEF Settle, SharedTypeOK
  <2> QED BY <2>1, <2>2 DEF PollRecord, Die, LoopTypeOK
<1>8. OwnerInv'
  <2> SUFFICES ASSUME NEW q \in Partitions, owner[q] # NONE
               PROVE  /\ owner[q] \in members
                      /\ \/ position'[q] = committed[q]
                         \/ /\ position'[q] = committed[q] + 1
                            /\ \/ pc'[owner[q]] = "dead"
                               \/ job'[owner[q]] # NONE /\ job'[owner[q]].part = q
    BY <1>3 DEF OwnerInv
  <2>1. CASE q = p
    BY <1>1, <1>3, <1>7, <2>1
  <2>2. CASE q # p
    <3>1. /\ owner[q] \in members
          /\ \/ position[q] = committed[q]
             \/ /\ position[q] = committed[q] + 1
                /\ \/ pc[owner[q]] = "dead"
                   \/ job[owner[q]] # NONE /\ job[owner[q]].part = q
      BY DEF PositionInv, OwnerInv
    <3>2. position'[q] = position[q] /\ owner[q] \in Workers
      BY <1>3, <2>2 DEF GroupTypeOK
    <3> QED BY <1>1, <1>6, <3>1, <3>2
  <2> QED BY <2>1, <2>2
<1>9. JobInv'
  <2> SUFFICES ASSUME NEW v \in Workers, job'[v] # NONE
               PROVE  /\ job'[v].off <= committed[job'[v].part]
                      /\ v \in members =>
                           /\ owner[job'[v].part] = v
                           /\ job'[v].off = committed[job'[v].part]
                           /\ position'[job'[v].part] = job'[v].off + 1
                      /\ pc'[v] \in {"commit", "reject"} =>
                           job'[v].off \in settled'[job'[v].part]
    BY <1>3 DEF JobInv
  <2>1. CASE v = w
    BY <1>1, <1>2, <1>3, <1>7, <2>1
  <2>2. CASE v # w
    <3>1. job'[v] = job[v] /\ pc'[v] = pc[v] /\ job[v].part \in Partitions
      BY <1>6, <2>2 DEF LoopTypeOK, Jobs
    <3>2. /\ job[v].off <= committed[job[v].part]
          /\ v \in members =>
               /\ owner[job[v].part] = v
               /\ job[v].off = committed[job[v].part]
               /\ position[job[v].part] = job[v].off + 1
          /\ pc[v] \in {"commit", "reject"} => job[v].off \in settled[job[v].part]
      BY <3>1 DEF PositionInv, JobInv
    <3>3. v \in members => job[v].part # p
      BY <1>1, <2>2, <3>2
    <3>4. v \in members => position'[job[v].part] = position[job[v].part]
      BY <1>3, <3>1, <3>3
    <3> QED BY <1>4, <3>1, <3>2, <3>4
  <2> QED BY <2>1, <2>2
<1> QED BY <1>5, <1>8, <1>9 DEF PositionInv

\* After a rebalance every owner starts at the committed offset, and no member
\* holds a record, because all of them are inside poll().
LEMMA RebalanceMove ==
  ASSUME GroupTypeOK, LoopTypeOK, PositionInv, CompleteRebalance
  PROVE  PositionInv'
<1>1. /\ owner' \in [Partitions -> members']
      /\ members' \subseteq AtPoll
      /\ position' = committed /\ committed' = committed
      /\ UNCHANGED <<pc, job, settled>>
  BY DEF CompleteRebalance, Rebalance, loopVars, histVars
<1>2. \A w \in Workers : w \in members' => job[w] = NONE
  BY <1>1 DEF AtPoll, LoopTypeOK, BusyPcs, HandlerPcs
<1>3. OwnerInv'
  BY <1>1 DEF OwnerInv
<1>4. JobInv'
  BY <1>1, <1>2 DEF PositionInv, JobInv
<1> QED BY <1>3, <1>4 DEF PositionInv

\* A worker that starts again is not a member, so nothing depends on it.
LEMMA RestartMove ==
  ASSUME GroupTypeOK, LoopTypeOK, PositionInv, NEW w \in Workers, Restart(w)
  PROVE  PositionInv'
<1>1. /\ pc[w] \in GonePcs /\ w \notin members
      /\ pc' = [pc EXCEPT ![w] = "top"]
      /\ UNCHANGED <<groupVars, job, settled>>
  BY DEF Restart, histVars
<1>2. OwnerInv'
  <2> SUFFICES ASSUME NEW p \in Partitions, owner[p] # NONE
               PROVE  pc'[owner[p]] = pc[owner[p]]
    BY <1>1 DEF PositionInv, OwnerInv, groupVars
  <2> QED BY <1>1 DEF PositionInv, OwnerInv, GroupTypeOK, LoopTypeOK
<1>3. JobInv'
  BY <1>1 DEF PositionInv, JobInv, LoopTypeOK, groupVars
<1> QED BY <1>2, <1>3 DEF PositionInv

LEMMA GotoMove ==
  ASSUME TypeOK, PositionInv, NEW w \in Workers, NEW l \in Pcs,
         pc[w] # "dead", l \notin {"commit", "reject"}, Goto(w, l),
         UNCHANGED groupVars, UNCHANGED settled
  PROVE  PositionInv'
BY QuietMove DEF Goto, TypeOK

LEMMA RaiseMove ==
  ASSUME TypeOK, PositionInv, NEW w \in Workers, NEW v \in BOOLEAN,
         pc[w] \in HandlerPcs, Raise(w, v), UNCHANGED groupVars, UNCHANGED settled
  PROVE  PositionInv'
<1>1. pc[w] \in BusyPcs /\ pc[w] # "dead" /\ "failing" \in Pcs
  BY DEF Pcs, BusyPcs, HandlerPcs
<1>2. job[w] \in Jobs /\ job[w] # NONE /\ NONE \notin Jobs
  BY <1>1, JobInLog, PipelineAssumption DEF TypeOK
<1>3. /\ job'[w] = [job[w] EXCEPT !.value = v]
      /\ \A u \in Workers : u # w => job'[u] = job[u]
  BY DEF Raise, TypeOK, LoopTypeOK
<1>4. job'[w] \in Jobs /\ job'[w].part = job[w].part /\ job'[w].off = job[w].off
  BY <1>2, <1>3 DEF Jobs
<1> QED BY <1>1, <1>2, <1>3, <1>4, QuietMove DEF Raise, TypeOK

LEMMA RetryMove ==
  ASSUME TypeOK, PositionInv, NEW w \in Workers, NEW a \in 1 .. MaxRetries, NEW beat \in BOOLEAN,
         pc[w] \in HandlerPcs, Retry(w, a, beat), UNCHANGED groupVars
  PROVE  PositionInv'
<1>1. pc[w] \in BusyPcs /\ pc[w] # "dead" /\ "begin" \in Pcs
  BY DEF Pcs, BusyPcs, HandlerPcs
<1>2. job[w] \in Jobs /\ job[w] # NONE /\ NONE \notin Jobs
  BY <1>1, JobInLog, PipelineAssumption DEF TypeOK
<1>3. /\ job'[w] = [job[w] EXCEPT !.attempt = a, !.beat = beat, !.value = FALSE]
      /\ \A u \in Workers : u # w => job'[u] = job[u]
  BY DEF Retry, TypeOK, LoopTypeOK
<1>4. job'[w] \in Jobs /\ job'[w].part = job[w].part /\ job'[w].off = job[w].off
  BY <1>2, <1>3 DEF Jobs
<1> QED BY <1>1, <1>2, <1>3, <1>4, QuietMove DEF Retry, TypeOK

\* Whatever its effect on the store, a transaction of the handler keeps the
\* record in hand.
LEMMA TransactionMove ==
  ASSUME TypeOK, PositionInv, NEW w \in Workers, NEW l \in HandlerPcs, pc[w] \in HandlerPcs,
         NEW ACTION Effect, Transaction(w, Effect, l),
         UNCHANGED groupVars, UNCHANGED settled
  PROVE  PositionInv'
<1>1. pc[w] # "dead" /\ l \in Pcs /\ l \notin {"commit", "reject"}
  BY DEF Pcs, BusyPcs, HandlerPcs
<1> QED BY <1>1, GotoMove, RaiseMove DEF Transaction

\* How a commit ends, for a commit that stores the offset after the record.
LEMMA CommitEndsMove ==
  ASSUME TypeOK, PositionInv, NoLoss, NEW w \in Workers, NEW l \in Pcs \ BusyPcs,
         pc[w] \in {"commit", "reject"}, NEW ACTION Stored,
         Stored => /\ w \in members
                   /\ committed' = [committed EXCEPT ![job[w].part] = job[w].off + 1]
                   /\ UNCHANGED <<members, owner, position>>,
         CommitEnds(w, Stored, l), UNCHANGED settled
  PROVE  PositionInv' /\ NoLoss'
<1> USE DEF TypeOK
<1>1. "dead" \in Pcs \ BusyPcs
  BY DEF Pcs, BusyPcs, HandlerPcs, GonePcs
<1>2. CASE Stored /\ pc' = [pc EXCEPT ![w] = l] /\ job' = [job EXCEPT ![w] = NONE]
  BY <1>2, StoredMove
<1>3. CASE Stored /\ Die(w)
  BY <1>1, <1>3, StoredMove DEF Die
<1>4. CASE Die(w) /\ UNCHANGED groupVars
  BY <1>4, DieMove, NoLossStays DEF groupVars
<1> QED BY <1>2, <1>3, <1>4 DEF CommitEnds

LEMMA WorkerStepDelivers ==
  ASSUME TypeOK, PositionInv, NoLoss, NEW w \in Workers, WorkerStep(w)
  PROVE  PositionInv' /\ NoLoss'
<1>p. /\ {"top", "report", "poll", "release", "after", "wrapup", "dead", "exited"}
           \subseteq Pcs \ BusyPcs
      /\ HandlerPcs \subseteq Pcs
      /\ "dead" \notin HandlerPcs /\ "commit" \notin HandlerPcs /\ "reject" \notin HandlerPcs
  BY DEF Pcs, BusyPcs, HandlerPcs, GonePcs
<1>n. UNCHANGED groupVars /\ UNCHANGED settled => NoLoss'
  BY NoLossStays DEF groupVars
<1>1. CASE ReadControl(w)
  <2>1. PositionInv'
    BY <1>1, <1>p, QuietMove DEF ReadControl, At, histVars, TypeOK
  <2> QED BY <1>1, <1>n, <2>1 DEF ReadControl, histVars
<1>2. CASE Report(w)
  <2>1. PositionInv'
    BY <1>2, <1>p, GotoMove DEF Report, At, histVars
  <2> QED BY <1>2, <1>n, <2>1 DEF Report, histVars
<1>3. CASE ReadControlAgain(w)
  <2>1. PositionInv'
    BY <1>3, <1>p, QuietMove DEF ReadControlAgain, At, histVars, TypeOK
  <2> QED BY <1>3, <1>n, <2>1 DEF ReadControlAgain, histVars
<1>4. CASE Wrapup(w)
  <2>1. PositionInv'
    BY <1>4, <1>p, GotoMove DEF Wrapup, At, histVars
  <2> QED BY <1>4, <1>n, <2>1 DEF Wrapup, histVars
<1>5. CASE PollEmpty(w)
  <2>1. PositionInv'
    BY <1>5, <1>p, GotoMove DEF PollEmpty, At, histVars
  <2> QED BY <1>5, <1>n, <2>1 DEF PollEmpty, histVars
<1>6. ASSUME NEW p \in Partitions, PollRecord(w, p) PROVE PositionInv' /\ NoLoss'
  BY <1>6, TakeMove
<1>7. CASE Claim(w)
  <2>1. "begin" \in HandlerPcs
    BY DEF HandlerPcs
  <2>2. PositionInv'
    BY <1>7, <1>p, <2>1, GotoMove DEF Claim, At, histVars
  <2> QED BY <1>7, <1>n, <2>2 DEF Claim, histVars
<1>8. CASE Commit(w)
  <2>1. pc[w] = "commit" /\ "commit" \in BusyPcs /\ UNCHANGED settled
    BY <1>8 DEF Commit, At, BusyPcs, histVars
  <2>2. CommitAll(w) =>
          /\ w \in members
          /\ committed' = [committed EXCEPT ![job[w].part] = job[w].off + 1]
          /\ UNCHANGED <<members, owner, position>>
    BY <2>1, CommitAllIsOne DEF CommitAll, TypeOK
  <2> QED BY <1>8, <1>p, <2>1, <2>2, CommitEndsMove DEF Commit
<1>9. CASE Reject(w)
  <2>1. pc[w] = "reject" /\ UNCHANGED settled
    BY <1>9 DEF Reject, At, histVars
  <2> QED BY <1>9, <1>p, <2>1, CommitEndsMove DEF Reject, CommitOne
<1>10. CASE Release(w)
  <2>1. PositionInv'
    BY <1>10, <1>p, GotoMove DEF Release, At, histVars
  <2> QED BY <1>10, <1>n, <2>1 DEF Release, histVars
<1>11. CASE Begin(w)
  <2>1. pc[w] \in HandlerPcs /\ "clear" \in HandlerPcs
    BY <1>11 DEF Begin, At, HandlerPcs
  <2>2. PositionInv'
    BY <1>11, <2>1, TransactionMove DEF Begin, histVars
  <2> QED BY <1>11, <1>n, <2>2 DEF Begin, histVars
<1>12. CASE Clear(w)
  <2>1. pc[w] \in HandlerPcs /\ "analyse" \in HandlerPcs
    BY <1>12 DEF Clear, At, HandlerPcs
  <2>2. PositionInv'
    BY <1>12, <2>1, TransactionMove DEF Clear, histVars
  <2> QED BY <1>12, <1>n, <2>2 DEF Clear, histVars
<1>13. CASE Analyse(w)
  <2>1. pc[w] \in HandlerPcs /\ "timeline" \in HandlerPcs
    BY <1>13 DEF Analyse, At, HandlerPcs
  <2>2. UNCHANGED groupVars /\ UNCHANGED settled
    BY <1>13 DEF Analyse, histVars
  <2>3. CASE Goto(w, "timeline")
    BY <2>1, <2>2, <2>3, <1>p, <1>n, GotoMove
  <2>4. ASSUME NEW v \in BOOLEAN, Raise(w, v) PROVE PositionInv' /\ NoLoss'
    BY <2>1, <2>2, <2>4, <1>n, RaiseMove
  <2> QED BY <1>13, <2>3, <2>4 DEF Analyse
<1>14. ASSUME NEW b \in Tables, WriteRows(w, b) PROVE PositionInv' /\ NoLoss'
  <2>1. pc[w] \in HandlerPcs /\ WriteOrder[b] \in HandlerPcs
    BY <1>14 DEF WriteRows, At, HandlerPcs, WriteOrder, Tables, ClearedTables
  <2>2. UNCHANGED groupVars /\ UNCHANGED settled
    BY <1>14 DEF WriteRows, histVars
  <2>3. PICK ks \in RowsOf(b) :
          \/ Goto(w, WriteOrder[b])
          \/ Transaction(w, UpsertRows(b, TaskOf(w), w, ks), WriteOrder[b])
    BY <1>14 DEF WriteRows
  <2>4. CASE Goto(w, WriteOrder[b])
    BY <2>1, <2>2, <2>4, <1>p, <1>n, GotoMove
  <2>5. CASE Transaction(w, UpsertRows(b, TaskOf(w), w, ks), WriteOrder[b])
    BY <2>1, <2>2, <2>5, <1>n, TransactionMove
  <2> QED BY <2>3, <2>4, <2>5
<1>15. CASE Success(w)
  <2>1. pc[w] \in HandlerPcs /\ "finished" \in HandlerPcs
    BY <1>15 DEF Success, At, HandlerPcs
  <2>2. PositionInv'
    BY <1>15, <2>1, TransactionMove DEF Success, histVars
  <2> QED BY <1>15, <1>n, <2>2 DEF Success, histVars
<1>16. CASE Finish(w)
  <2>1. pc[w] \in HandlerPcs /\ pc[w] \in BusyPcs /\ UNCHANGED groupVars
    BY <1>16 DEF Finish, At, HandlerPcs, BusyPcs
  <2>2. CASE Goto(w, "commit") /\ Settle(job[w].part, job[w].off)
    <3>1. PositionInv'
      BY <2>1, <2>2, <1>p, SettleMove DEF TypeOK
    <3>2. \A p \in Partitions : settled[p] \subseteq settled'[p]
      BY <2>2 DEF Settle, TypeOK, SharedTypeOK
    <3> QED BY <2>1, <3>1, <3>2, NoLossStays DEF groupVars
  <2>3. CASE Raise(w, FALSE) /\ UNCHANGED settled
    BY <2>1, <2>3, <1>n, RaiseMove
  <2> QED BY <1>16, <2>2, <2>3 DEF Finish
<1>17. CASE Fail(w)
  <2>1. pc[w] \in HandlerPcs /\ pc[w] \in BusyPcs /\ UNCHANGED groupVars
    BY <1>17 DEF Fail, At, HandlerPcs, BusyPcs
  <2>2. job[w].attempt \in 1 .. MaxRetries
    BY <2>1, JobInLog DEF Jobs, TypeOK
  <2>3. CASE Retry(w, job[w].attempt, FALSE)
    BY <2>1, <2>2, <2>3, <1>n, RetryMove DEF Retry
  <2>4. CASE Retry(w, job[w].attempt + 1, TRUE) /\ ~(job[w].attempt >= MaxRetries)
    <3>1. job[w].attempt + 1 \in 1 .. MaxRetries
      BY <2>2, <2>4, PipelineAssumption
    <3> QED BY <2>1, <2>4, <3>1, <1>n, RetryMove DEF Retry
  <2>5. CASE Goto(w, "commit") /\ Settle(job[w].part, job[w].off)
    <3>1. PositionInv'
      BY <2>1, <2>5, <1>p, SettleMove DEF TypeOK
    <3>2. \A p \in Partitions : settled[p] \subseteq settled'[p]
      BY <2>5 DEF Settle, TypeOK, SharedTypeOK
    <3> QED BY <2>1, <3>1, <3>2, NoLossStays DEF groupVars
  <2> QED BY <1>17, <2>3, <2>4, <2>5 DEF Fail
<1> QED
  BY <1>1, <1>2, <1>3, <1>4, <1>5, <1>6, <1>7, <1>8, <1>9, <1>10, <1>11, <1>12, <1>13,
     <1>14, <1>15, <1>16, <1>17 DEF WorkerStep

LEMMA EnvironmentDelivers ==
  ASSUME TypeOK, PositionInv, NoLoss, NEW w \in Workers, Environment(w)
  PROVE  PositionInv' /\ NoLoss'
<1>n. UNCHANGED committed /\ UNCHANGED settled => NoLoss'
  BY NoLossStays
<1>1. CASE RedisFault(w)
  BY <1>1, <1>n, DieMove DEF RedisFault, groupVars, histVars, TypeOK
<1>2. CASE Crash(w)
  BY <1>2, <1>n, DieMove DEF Crash, groupVars, histVars, TypeOK
<1>3. CASE Restart(w)
  BY <1>3, <1>n, RestartMove DEF Restart, groupVars, histVars, TypeOK
<1>4. CASE SessionTimeout(w)
  BY <1>4, <1>n, LeaveMove DEF SessionTimeout, Leave, histVars, TypeOK
<1>5. CASE LeaveWhilePaused(w)
  BY <1>5, <1>n, LeaveMove DEF LeaveWhilePaused, Leave, histVars, TypeOK
<1>6. CASE EvictSlow(w)
  BY <1>6, <1>n, LeaveMove DEF EvictSlow, Leave, histVars, TypeOK
<1>7. CASE RowExpires(w)
  BY <1>7, <1>n DEF RowExpires, PositionInv, OwnerInv, JobInv, groupVars, loopVars, histVars
<1> QED
  BY <1>1, <1>2, <1>3, <1>4, <1>5, <1>6, <1>7 DEF Environment

\* The inductive invariant: NoLoss alone does not say why the next commit is
\* safe, PositionInv does.
IInv == TypeOK /\ PositionInv /\ NoLoss

LEMMA IInvInit == Init => IInv
<1> SUFFICES ASSUME Init PROVE IInv
  OBVIOUS
<1>1. TypeOK
  BY TypeInit
<1>2. PositionInv
  BY DEF Init, GroupInit, PositionInv, OwnerInv, JobInv
<1>3. NoLoss
  BY DEF Init, GroupInit, NoLoss
<1> QED BY <1>1, <1>2, <1>3 DEF IInv

LEMMA IInvStep == IInv /\ [Next]_vars => IInv'
<1> SUFFICES ASSUME TypeOK, PositionInv, NoLoss, [Next]_vars
             PROVE  PositionInv' /\ NoLoss'
  BY TypeStep DEF IInv
<1>1. ASSUME NEW w \in Workers, WorkerStep(w) \/ Environment(w) PROVE PositionInv' /\ NoLoss'
  BY <1>1, WorkerStepDelivers, EnvironmentDelivers
<1>2. CASE CompleteRebalance
  BY <1>2, RebalanceMove, NoLossStays DEF CompleteRebalance, Rebalance, histVars, TypeOK
<1>3. ASSUME NEW state \in {"RUNNING", "PAUSED", "DRAINING"}, SetDesired(state)
      PROVE  PositionInv' /\ NoLoss'
  BY <1>3 DEF SetDesired, PositionInv, OwnerInv, JobInv, NoLoss, groupVars, loopVars
<1>4. CASE UNCHANGED vars
  BY <1>4 DEF vars, PositionInv, OwnerInv, JobInv, NoLoss, groupVars, loopVars, histVars
<1> QED
  BY <1>1, <1>2, <1>3, <1>4 DEF Next

\* commit() without arguments only ever moves the offset of the record the
\* worker has just finished: a member's other positions are at their committed
\* offsets.
THEOREM PositionsCorrect == Spec => []PositionInv
<1>1. IInv => PositionInv
  BY DEF IInv
<1> QED BY <1>1, IInvInit, IInvStep, PTL DEF Spec

\* No record is lost, for any number of workers, crashes, evictions, failed
\* commits and retries: a committed offset only passes settled records.
THEOREM NothingLost == Spec => []NoLoss
<1>1. IInv => NoLoss
  BY DEF IInv
<1> QED BY <1>1, IInvInit, IInvStep, PTL DEF Spec

-----------------------------------------------------------------------------
(* The pipeline implements TaskDelivery                                    *)

LEMMA SettleImplements ==
  ASSUME NEW p \in Partitions, NEW o \in Nat, o < Len(Log[p]), o <= committed[p],
         Settle(p, o), UNCHANGED committed
  PROVE  Delivery!Next
<1>1. o \in 0 .. Len(Log[p]) - 1
  BY LogLen
<1>2. Delivery!Settle(p, o)
  BY DEF Settle, Delivery!Settle
<1> QED BY <1>1, <1>2 DEF Delivery!Next

LEMMA StoredImplements ==
  ASSUME TypeOK, PositionInv, NEW w \in Workers, pc[w] \in {"commit", "reject"},
         w \in members, UNCHANGED settled,
         committed' = [committed EXCEPT ![job[w].part] = job[w].off + 1]
  PROVE  Delivery!Next
<1>1. job[w] # NONE /\ job[w].part \in Partitions
  BY JobInLog DEF BusyPcs, TypeOK
<1>2. job[w].off = committed[job[w].part] /\ job[w].off \in settled[job[w].part]
  BY <1>1 DEF PositionInv, JobInv
<1>3. Delivery!Ack(job[w].part)
  BY <1>1, <1>2 DEF Delivery!Ack
<1> QED BY <1>1, <1>3 DEF Delivery!Next

LEMMA WorkerStepImplements ==
  ASSUME IInv, NEW w \in Workers, WorkerStep(w)
  PROVE  Delivery!Next \/ UNCHANGED <<committed, settled>>
<1> USE DEF IInv
<1>1. ASSUME NEW p \in Partitions, PollRecord(w, p)
      PROVE  Delivery!Next \/ UNCHANGED <<committed, settled>>
  <2>1. UNCHANGED committed
    BY <1>1 DEF PollRecord, Take
  <2>2. position[p] \in Nat /\ position[p] < Len(Log[p]) /\ position[p] <= committed[p]
    <3>1. pc[w] = "poll" /\ job[w] = NONE /\ owner[p] = w /\ owner[p] # NONE
      BY <1>1, WorkerAssumption
      DEF PollRecord, Take, At, TypeOK, LoopTypeOK, BusyPcs, HandlerPcs
    <3>2. position[p] \in Nat /\ position[p] < Len(Log[p])
      BY <1>1 DEF PollRecord, Take, TypeOK, GroupTypeOK
    <3>3. position[p] = committed[p]
      BY <3>1 DEF PositionInv, OwnerInv
    <3> QED BY <3>2, <3>3
  <2>3. Settle(p, position[p]) \/ UNCHANGED settled
    BY <1>1 DEF PollRecord
  <2> QED BY <2>1, <2>2, <2>3, SettleImplements
<1>2. CASE Commit(w)
  <2>1. pc[w] = "commit" /\ "commit" \in BusyPcs /\ UNCHANGED settled
    BY <1>2 DEF Commit, At, BusyPcs, histVars
  <2>2. CASE CommitAll(w)
    <3>1. w \in members /\ committed' = [committed EXCEPT ![job[w].part] = job[w].off + 1]
      BY <2>1, <2>2, CommitAllIsOne DEF CommitAll, TypeOK
    <3> QED BY <2>1, <3>1, StoredImplements
  <2>3. CASE UNCHANGED groupVars
    BY <2>1, <2>3 DEF groupVars
  <2> QED BY <1>2, <2>2, <2>3 DEF Commit, CommitEnds
<1>3. CASE Reject(w)
  <2>1. pc[w] = "reject" /\ UNCHANGED settled
    BY <1>3 DEF Reject, At, histVars
  <2>2. CASE CommitOne(w, job[w].part, job[w].off + 1)
    BY <2>1, <2>2, StoredImplements DEF CommitOne
  <2>3. CASE UNCHANGED groupVars
    BY <2>1, <2>3 DEF groupVars
  <2> QED BY <1>3, <2>2, <2>3 DEF Reject, CommitEnds
<1>4. ASSUME Finish(w) \/ Fail(w) PROVE Delivery!Next \/ UNCHANGED <<committed, settled>>
  <2>1. pc[w] \in BusyPcs /\ UNCHANGED committed
    BY <1>4 DEF Finish, Fail, At, BusyPcs, HandlerPcs, groupVars
  <2>2. /\ job[w].part \in Partitions /\ job[w].off \in Nat
        /\ job[w].off < Len(Log[job[w].part])
        /\ job[w].off <= committed[job[w].part]
    BY <2>1, JobInLog DEF TypeOK, PositionInv, JobInv
  <2>3. Settle(job[w].part, job[w].off) \/ UNCHANGED settled
    BY <1>4 DEF Finish, Fail, Retry
  <2> QED BY <2>1, <2>2, <2>3, SettleImplements
<1>5. ASSUME \/ ReadControl(w) \/ Report(w) \/ ReadControlAgain(w) \/ Wrapup(w)
             \/ PollEmpty(w) \/ Claim(w) \/ Release(w) \/ Begin(w) \/ Clear(w)
             \/ Analyse(w) \/ (\E b \in Tables : WriteRows(w, b)) \/ Success(w)
      PROVE  UNCHANGED <<committed, settled>>
  BY <1>5 DEF ReadControl, Report, ReadControlAgain, Wrapup, PollEmpty, Claim, Release,
     Begin, Clear, Analyse, WriteRows, Success, groupVars, histVars
<1> QED BY <1>1, <1>2, <1>3, <1>4, <1>5 DEF WorkerStep

LEMMA NextImplements ==
  IInv /\ [Next]_vars => [Delivery!Next]_<<committed, settled>>
<1> SUFFICES ASSUME IInv, [Next]_vars
             PROVE  Delivery!Next \/ UNCHANGED <<committed, settled>>
  OBVIOUS
<1>1. ASSUME NEW w \in Workers, Environment(w) PROVE UNCHANGED <<committed, settled>>
  BY <1>1 DEF Environment, RedisFault, Crash, Restart, SessionTimeout, LeaveWhilePaused,
     EvictSlow, RowExpires, Leave, groupVars, histVars
<1>2. CASE CompleteRebalance
  BY <1>2 DEF CompleteRebalance, Rebalance, histVars
<1>3. ASSUME NEW state \in {"RUNNING", "PAUSED", "DRAINING"}, SetDesired(state)
      PROVE  UNCHANGED <<committed, settled>>
  BY <1>3 DEF SetDesired, groupVars
<1>4. CASE UNCHANGED vars
  BY <1>4 DEF vars, groupVars, histVars
<1> QED BY <1>1, <1>2, <1>3, <1>4, WorkerStepImplements DEF Next

\* The pipeline delivers at least once and in order: with its committed offsets
\* and settled records it is an implementation of TaskDelivery, so an offset
\* moves one settled record at a time and never backwards.
THEOREM DeliversInOrder == Spec => DeliverySpec
<1>1. Init => Delivery!Init
  BY DEF Init, GroupInit, Delivery!Init
<1>2. IInv /\ [Next]_vars => [Delivery!Next]_(Delivery!deliveryVars)
  BY NextImplements DEF Delivery!deliveryVars
<1> QED
  BY <1>1, <1>2, IInvInit, IInvStep, PTL DEF Spec, DeliverySpec, Delivery!Spec

=============================================================================
