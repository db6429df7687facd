-------------------------- MODULE TaskOutcomeProofs --------------------------
(***************************************************************************)
(* More proofs about TaskPipeline: what a worker's registry row and the    *)
(* desired state say, and what becomes of a task, for any workers,         *)
(* partitions, logs, tasks, retries and budgets of the faults a theorem    *)
(* does not rule out.  The invariant IInv of TaskPipelineProofs is the     *)
(* base of all of them.                                                    *)
(***************************************************************************)
EXTENDS TaskPipelineProofs

\* No fault or control event of this kind ever happens.
Never(kind) == Budget[kind] = 0

-----------------------------------------------------------------------------
(* Frames                                                                  *)

LEMMA IInvAlways == Spec => []IInv
BY IInvInit, IInvStep, PTL DEF Spec

\* The tables are written in four steps of the handler.
LEMMA TablesAreSteps ==
  ASSUME NEW b \in Tables
  PROVE  b \in HandlerPcs /\ WriteOrder[b] \in {"snapshot", "stat", "indicator", "success"}
BY DEF Tables, ClearedTables, WriteOrder, HandlerPcs

\* A step of one worker leaves the loops of the others alone.
LEMMA OthersStay ==
  ASSUME TypeOK, NEW w \in Workers, WorkerStep(w) \/ Environment(w), NEW v \in Workers \ {w}
  PROVE  pc'[v] = pc[v] /\ seen'[v] = seen[v] /\ job'[v] = job[v]
<1> USE DEF TypeOK, LoopTypeOK
<1>1. ASSUME \/ ReadControl(w) \/ Report(w) \/ ReadControlAgain(w) \/ Wrapup(w)
             \/ PollEmpty(w) \/ Claim(w) \/ Release(w)
      PROVE  pc'[v] = pc[v] /\ seen'[v] = seen[v] /\ job'[v] = job[v]
  BY <1>1 DEF ReadControl, Report, ReadControlAgain, Wrapup, PollEmpty, Claim, Release, Goto
<1>2. ASSUME NEW p \in Partitions, PollRecord(w, p)
      PROVE  pc'[v] = pc[v] /\ seen'[v] = seen[v] /\ job'[v] = job[v]
  BY <1>2 DEF PollRecord, Die
<1>3. ASSUME Commit(w) \/ Reject(w)
      PROVE  pc'[v] = pc[v] /\ seen'[v] = seen[v] /\ job'[v] = job[v]
  BY <1>3 DEF Commit, Reject, CommitEnds, Die
<1>4. ASSUME \/ Begin(w) \/ Clear(w) \/ Analyse(w) \/ (\E b \in Tables : WriteRows(w, b))
             \/ Success(w) \/ Finish(w)
      PROVE  pc'[v] = pc[v] /\ seen'[v] = seen[v] /\ job'[v] = job[v]
  BY <1>4 DEF Begin, Clear, Analyse, WriteRows, Success, Finish, Transaction, Raise, Goto
<1>5. ASSUME Fail(w) PROVE pc'[v] = pc[v] /\ seen'[v] = seen[v] /\ job'[v] = job[v]
  BY <1>5 DEF Fail, Retry, Goto
<1>6. ASSUME Environment(w) PROVE pc'[v] = pc[v] /\ seen'[v] = seen[v] /\ job'[v] = job[v]
  BY <1>6
  DEF Environment, RedisFault, Crash, Restart, SessionTimeout, LeaveWhilePaused, EvictSlow,
      RowExpires, Die, loopVars
<1> QED BY <1>1, <1>2, <1>3, <1>4, <1>5, <1>6 DEF WorkerStep

\* A record that is still held after a step is the one just polled, or the one
\* that was held before.
LEMMA HoldsOn ==
  ASSUME TypeOK, NEW w \in Workers, WorkerStep(w) \/ Environment(w), job'[w] # NONE,
         \A p \in Partitions : ~PollRecord(w, p)
  PROVE  /\ job[w] # NONE
         /\ job'[w].part = job[w].part /\ job'[w].off = job[w].off
         /\ pc'[w] = "reject" <=> pc[w] = "reject"
<1> USE DEF TypeOK, LoopTypeOK
<1> DEFINE P == /\ job[w] # NONE
                /\ job'[w].part = job[w].part /\ job'[w].off = job[w].off
                /\ pc'[w] = "reject" <=> pc[w] = "reject"
<1>j. job[w] # NONE => job[w] \in Jobs
  OBVIOUS
<1>b. pc[w] \in BusyPcs <=> job[w] # NONE
  OBVIOUS
<1>1. ASSUME \/ ReadControl(w) \/ Report(w) \/ ReadControlAgain(w) \/ Wrapup(w)
             \/ PollEmpty(w) \/ Claim(w) \/ Release(w)
      PROVE  P
  BY <1>1
  DEF ReadControl, Report, ReadControlAgain, Wrapup, PollEmpty, Claim, Release, Goto, At,
      BusyPcs, HandlerPcs
<1>2. ASSUME Commit(w) \/ Reject(w) PROVE job'[w] = NONE
  BY <1>2 DEF Commit, Reject, CommitEnds, Die
<1>3. ASSUME NEW l, l # "reject", Goto(w, l), pc[w] \in HandlerPcs PROVE P
  BY <1>3, <1>b DEF Goto, BusyPcs, HandlerPcs
<1>4. ASSUME NEW v, Raise(w, v), pc[w] \in HandlerPcs PROVE P
  BY <1>4, <1>b, <1>j DEF Raise, Jobs, BusyPcs, HandlerPcs
<1>5. ASSUME NEW a, NEW beat, Retry(w, a, beat), pc[w] \in HandlerPcs PROVE P
  BY <1>5, <1>b, <1>j DEF Retry, Jobs, BusyPcs, HandlerPcs
<1>6. ASSUME Begin(w) \/ Clear(w) \/ Success(w) \/ Analyse(w) PROVE P
  BY <1>3, <1>4, <1>6 DEF Begin, Clear, Success, Analyse, Transaction, At, HandlerPcs
<1>7. ASSUME NEW b \in Tables, WriteRows(w, b) PROVE P
  <2>1. pc[w] \in HandlerPcs /\ WriteOrder[b] # "reject"
    BY <1>7, TablesAreSteps DEF WriteRows, At
  <2>2. Goto(w, WriteOrder[b]) \/ Raise(w, FALSE)
    BY <1>7 DEF WriteRows, Transaction
  <2> QED BY <1>3, <1>4, <2>1, <2>2
<1>8. ASSUME Finish(w) \/ Fail(w) PROVE P
  BY <1>3, <1>4, <1>5, <1>8 DEF Finish, Fail, At, HandlerPcs
<1>9. ASSUME Environment(w) PROVE P
  BY <1>9, <1>b
  DEF Environment, RedisFault, Crash, Restart, SessionTimeout, LeaveWhilePaused, EvictSlow,
      RowExpires, Die, loopVars, GonePcs, BusyPcs, HandlerPcs
<1> QED BY <1>1, <1>2, <1>6, <1>7, <1>8, <1>9 DEF WorkerStep

\* The steps that are no worker's own.
LEMMA NobodyMoves ==
  ASSUME \/ CompleteRebalance
         \/ \E state \in {"RUNNING", "PAUSED", "DRAINING"} : SetDesired(state)
         \/ UNCHANGED vars
  PROVE  UNCHANGED <<storeVars, loopVars, reg, committed, settled>>
BY DEF CompleteRebalance, Rebalance, SetDesired, vars, histVars, groupVars

-----------------------------------------------------------------------------
(* QuietReportIsTrue and PauseTakesAtMostOne                               *)

\* A worker that polls or holds a record is reported RUNNING, or not at all.
QuietInv == \A w \in Workers : pc[w] \in BusyPcs \cup {"poll"} => reg[w] \in {"RUNNING", NONE}

LEMMA QuietStep ==
  ASSUME TypeOK, QuietInv, [Next]_vars
  PROVE  QuietInv'
<1> USE DEF TypeOK, LoopTypeOK, SharedTypeOK
<1>1. ASSUME NEW w \in Workers, WorkerStep(w) \/ Environment(w)
      PROVE  /\ \A v \in Workers \ {w} : pc'[v] = pc[v] /\ reg'[v] = reg[v]
             /\ \/ pc'[w] \notin BusyPcs \cup {"poll"}
                \/ reg'[w] \in {"RUNNING", NONE}
                \/ pc[w] \in BusyPcs \cup {"poll"} /\ reg'[w] = reg[w]
  <2>1. \A v \in Workers \ {w} : pc'[v] = pc[v]
    BY <1>1, OthersStay
  <2>2. \A v \in Workers \ {w} : reg'[v] = reg[v]
    BY <1>1
    DEF WorkerStep, Environment, ReadControl, Report, ReadControlAgain, Wrapup, PollEmpty,
        PollRecord, Claim, Commit, Reject, Release, Begin, Clear, Analyse, WriteRows, Success,
        Finish, Fail, RedisFault, Crash, Restart, SessionTimeout, LeaveWhilePaused, EvictSlow,
        RowExpires, Heartbeat
  <2> DEFINE Kept == \/ pc'[w] \notin BusyPcs \cup {"poll"}
                     \/ reg'[w] \in {"RUNNING", NONE}
                     \/ pc[w] \in BusyPcs \cup {"poll"} /\ reg'[w] = reg[w]
  <2>3. ASSUME ReadControl(w) \/ ReadControlAgain(w) \/ Wrapup(w) \/ PollEmpty(w)
        PROVE  Kept
    BY <2>3
    DEF ReadControl, ReadControlAgain, Wrapup, PollEmpty, Goto, BusyPcs, HandlerPcs
  <2>4. ASSUME Report(w) \/ Claim(w) \/ Release(w) PROVE Kept
    BY <2>4 DEF Report, Claim, Release, Heartbeat, ActualFor, Goto, BusyPcs, HandlerPcs
  <2>5. ASSUME \/ (\E p \in Partitions : PollRecord(w, p)) \/ Commit(w) \/ Reject(w)
               \/ Begin(w) \/ Clear(w) \/ (\E b \in Tables : WriteRows(w, b)) \/ Success(w)
               \/ Fail(w)
        PROVE  Kept
    BY <2>5
    DEF PollRecord, Commit, Reject, Begin, Clear, WriteRows, Success, Fail, At,
        BusyPcs, HandlerPcs, Tables, ClearedTables
  <2>6. ASSUME Analyse(w) \/ Finish(w) PROVE Kept
    BY <2>6 DEF Analyse, Finish, Heartbeat, At, BusyPcs, HandlerPcs
  <2>7. ASSUME Environment(w) PROVE Kept
    BY <2>7
    DEF Environment, RedisFault, Crash, Restart, SessionTimeout, LeaveWhilePaused, EvictSlow,
        RowExpires, Heartbeat, Die, loopVars, BusyPcs, HandlerPcs
  <2> QED BY <1>1, <2>1, <2>2, <2>3, <2>4, <2>5, <2>6, <2>7 DEF WorkerStep
<1>2. ASSUME UNCHANGED <<loopVars, reg>> PROVE QuietInv'
  BY <1>2 DEF QuietInv, loopVars
<1> QED BY <1>1, <1>2, NobodyMoves DEF Next, QuietInv

\* A worker whose registry row says PAUSED or STOPPED neither polls nor holds a
\* record: the RUNNING heartbeat comes before the poll.
THEOREM QuietReportsAreTrue == Spec => []QuietReportIsTrue
<1>1. Init => QuietInv
  BY DEF Init, QuietInv, BusyPcs, HandlerPcs
<1>2. TypeOK /\ QuietInv => QuietReportIsTrue
  BY PipelineAssumption
  DEF TypeOK, LoopTypeOK, QuietInv, QuietReportIsTrue, ActualStates
<1> QED BY <1>1, <1>2, TypeCorrect, QuietStep, PTL DEF Spec

\* A worker that has taken a record since the desired state left RUNNING does
\* not come to another poll: it has read the new state, or will.
PauseInv ==
  \A w \in Workers :
    /\ late[w] <= 1
    /\ desired # "RUNNING" /\ late[w] = 1 =>
         pc[w] # "poll" /\ ~(pc[w] = "report" /\ seen[w] = "RUNNING")

LEMMA PauseStep ==
  ASSUME TypeOK, PauseInv, [Next]_vars
  PROVE  PauseInv'
<1> USE DEF TypeOK, LoopTypeOK, SharedTypeOK
<1>1. ASSUME NEW w \in Workers, NEW p \in Partitions, PollRecord(w, p) PROVE PauseInv'
  <2>1. \A v \in Workers \ {w} : pc'[v] = pc[v] /\ seen'[v] = seen[v] /\ late'[v] = late[v]
    BY <1>1, OthersStay DEF WorkerStep, PollRecord
  <2>2. pc[w] = "poll" /\ pc'[w] \notin {"poll", "report"} /\ UNCHANGED desired
    BY <1>1 DEF PollRecord, At, Die
  <2>3. late'[w] = IF desired = "RUNNING" THEN late[w] ELSE late[w] + 1
    BY <1>1 DEF PollRecord
  <2> QED BY <2>1, <2>2, <2>3 DEF PauseInv
<1>2. ASSUME NEW w \in Workers, WorkerStep(w) \/ Environment(w),
             \A p \in Partitions : ~PollRecord(w, p)
      PROVE  PauseInv'
  <2>1. \A v \in Workers \ {w} : pc'[v] = pc[v] /\ seen'[v] = seen[v]
    BY <1>2, OthersStay
  <2>2. UNCHANGED <<desired, late>>
    BY <1>2
    DEF WorkerStep, Environment, ReadControl, Report, ReadControlAgain, Wrapup, PollEmpty,
        Claim, Commit, Reject, Release, Begin, Clear, Analyse, WriteRows, Success,
        Finish, Fail, RedisFault, Crash, Restart, SessionTimeout, LeaveWhilePaused, EvictSlow,
        RowExpires, histVars
  <2> DEFINE Polls == pc[w] = "poll" \/ (pc[w] = "report" /\ seen[w] = "RUNNING")
             WillPoll == pc'[w] = "poll" \/ (pc'[w] = "report" /\ seen'[w] = "RUNNING")
             Good == WillPoll => Polls \/ desired = "RUNNING"
  <2>3. ASSUME ReadControl(w) \/ ReadControlAgain(w) \/ Wrapup(w) \/ PollEmpty(w) PROVE Good
    BY <2>3 DEF ReadControl, ReadControlAgain, Wrapup, PollEmpty, Goto
  <2>4. ASSUME Report(w) \/ Claim(w) \/ Release(w) PROVE Good
    BY <2>4 DEF Report, Claim, Release, Goto, At
  <2>5. ASSUME Commit(w) \/ Reject(w) PROVE Good
    BY <2>5 DEF Commit, Reject, CommitEnds, Die
  <2>6. ASSUME Begin(w) \/ Clear(w) \/ Analyse(w) \/ Success(w) \/ Finish(w) \/ Fail(w)
        PROVE  Good
    BY <2>6
    DEF Begin, Clear, Analyse, Success, Finish, Fail, Transaction, Raise, Retry, Goto
  <2>9. ASSUME NEW b \in Tables, WriteRows(w, b) PROVE Good
    BY <2>9, TablesAreSteps DEF WriteRows, Transaction, Raise, Goto
  <2>7. ASSUME Environment(w) PROVE Good
    BY <2>7
    DEF Environment, RedisFault, Crash, Restart, SessionTimeout, LeaveWhilePaused, EvictSlow,
        RowExpires, Die, loopVars
  <2>8. Good
    BY <1>2, <2>3, <2>4, <2>5, <2>6, <2>7, <2>9 DEF WorkerStep
  <2> QED BY <2>1, <2>2, <2>8 DEF PauseInv
<1>3. ASSUME NEW state, SetDesired(state) PROVE PauseInv'
  BY <1>3 DEF SetDesired, loopVars, PauseInv
<1>4. CASE CompleteRebalance \/ UNCHANGED vars
  BY <1>4 DEF CompleteRebalance, vars, loopVars, histVars, PauseInv
<1> QED BY <1>1, <1>2, <1>3, <1>4 DEF Next

\* Pausing, draining or stopping lets each worker take at most the one record
\* its poll was already going for.
THEOREM PausesTakeAtMostOne == Spec => []PauseTakesAtMostOne
<1>1. Init => PauseInv
  <2> SUFFICES ASSUME Init PROVE PauseInv
    OBVIOUS
  <2>1. \A w \in Workers : late[w] = 0
    BY DEF Init
  <2>2. 0 <= 1 /\ 0 # 1
    OBVIOUS
  <2> QED BY <2>1, <2>2, Zenon DEF PauseInv
<1>2. PauseInv => PauseTakesAtMostOne
  BY DEF PauseInv, PauseTakesAtMostOne
<1> QED BY <1>1, <1>2, TypeCorrect, PauseStep, PTL DEF Spec

-----------------------------------------------------------------------------
(* Who holds which record when no worker is put out of the group           *)

\* A kind of event that never happens has nothing left to happen.
Unspent == \A kind \in Kinds : Never(kind) => budget[kind] = 0

LEMMA UnspentStep ==
  ASSUME TypeOK, Unspent, [Next]_vars
  PROVE  Unspent'
<1>1. UNCHANGED budget \/ \E kind \in Kinds : Spend(kind)
  BY DEF Next, WorkerStep, Environment, ReadControl, Report, ReadControlAgain, Wrapup, PollEmpty,
         PollRecord, Claim, Commit, Reject, CommitEnds, Release, Begin, Clear, Analyse, WriteRows,
         Transaction, Success, Finish, Fail, RedisFault, Crash, Restart, SessionTimeout,
         LeaveWhilePaused, EvictSlow, RowExpires, CompleteRebalance, SetDesired, vars, Kinds
<1>2. ASSUME NEW kind \in Kinds, Spend(kind) PROVE Unspent'
  BY <1>2 DEF Spend, Unspent, Never, TypeOK, SharedTypeOK
<1> QED BY <1>1, <1>2 DEF Unspent, Never

\* Every record in hand is a member's, and of the kind its worker treats it as.
JobsInv ==
  \A w \in Workers :
    job[w] # NONE =>
      /\ w \in members
      /\ Record(job[w].part, job[w].off).kind = IF pc[w] = "reject" THEN "invalid" ELSE "task"

LEMMA JobsStep ==
  ASSUME TypeOK, Unspent, Never("evict"), JobsInv, [Next]_vars
  PROVE  JobsInv'
<1>1. ASSUME NEW w \in Workers, WorkerStep(w) \/ Environment(w)
      PROVE  JobsInv'
  <2>1. \A v \in Workers \ {w} : pc'[v] = pc[v] /\ job'[v] = job[v]
    BY <1>1, OthersStay
  <2>2. \A v \in Workers : v \in members /\ job'[v] # NONE => v \in members'
    <3>1. UNCHANGED members \/ Leave(w)
      BY <1>1
      DEF WorkerStep, Environment, ReadControl, Report, ReadControlAgain, Wrapup, PollEmpty,
          PollRecord, Take, Claim, Commit, Reject, CommitEnds, CommitAll, CommitOne, Release,
          Begin, Clear, Analyse, WriteRows, Success, Finish, Fail, RedisFault, Crash, Restart,
          SessionTimeout, LeaveWhilePaused, EvictSlow, RowExpires, groupVars
    <3>2. ASSUME Leave(w) PROVE SessionTimeout(w) \/ LeaveWhilePaused(w) \/ UNCHANGED members
      <4>1. ~Spend("evict")
        BY DEF Spend, Unspent, Kinds
      <4> QED
        BY <1>1, <4>1
        DEF WorkerStep, Environment, ReadControl, Report, ReadControlAgain, Wrapup, PollEmpty,
            PollRecord, Take, Claim, Commit, Reject, CommitEnds, CommitAll, CommitOne, Release,
            Begin, Clear, Analyse, WriteRows, Success, Finish, Fail, RedisFault, Crash, Restart,
            EvictSlow, RowExpires, groupVars
    <3>3. ASSUME SessionTimeout(w) \/ LeaveWhilePaused(w) PROVE job'[w] = NONE /\ Leave(w)
      BY <3>3
      DEF SessionTimeout, LeaveWhilePaused, loopVars, TypeOK, LoopTypeOK, GonePcs, BusyPcs,
          HandlerPcs
    <3> QED BY <3>1, <3>2, <3>3 DEF Leave
  <2>3. CASE \E p \in Partitions : PollRecord(w, p)
    <3>1. PICK p \in Partitions : PollRecord(w, p)
      BY <2>3
    <3>2. w \in members /\ position[p] \in Nat
      BY <3>1 DEF PollRecord, Take, TypeOK, GroupTypeOK
    <3>3. job'[w] # NONE =>
            Record(job'[w].part, job'[w].off).kind = IF pc'[w] = "reject" THEN "invalid" ELSE "task"
      BY <3>1 DEF PollRecord, Die, NewJob, TypeOK, LoopTypeOK
    <3> QED BY <2>1, <2>2, <3>2, <3>3 DEF JobsInv
  <2>4. CASE \A p \in Partitions : ~PollRecord(w, p)
    <3>1. job'[w] # NONE =>
            /\ job[w] # NONE /\ job'[w].part = job[w].part /\ job'[w].off = job[w].off
            /\ pc'[w] = "reject" <=> pc[w] = "reject"
      BY <1>1, <2>4, HoldsOn
    <3> QED BY <2>1, <2>2, <3>1 DEF JobsInv
  <2> QED BY <2>3, <2>4
<1>2. CASE CompleteRebalance
  BY <1>2 DEF CompleteRebalance, Rebalance, loopVars, JobsInv
<1>3. ASSUME NEW state, SetDesired(state) PROVE JobsInv'
  BY <1>3 DEF SetDesired, groupVars, loopVars, JobsInv
<1>4. CASE UNCHANGED vars
  BY <1>4 DEF vars, groupVars, loopVars, JobsInv
<1> QED BY <1>1, <1>2, <1>3, <1>4 DEF Next

\* All that is known of the records in hand.
HandInv == IInv /\ Unspent /\ JobsInv

LEMMA HandAlways ==
  ASSUME Never("evict")
  PROVE  Spec => []HandInv
<1>1. Init => HandInv
  <2>1. Init => Unspent /\ JobsInv
    BY DEF Init, Unspent, Never, JobsInv
  <2> QED BY <2>1, IInvInit DEF HandInv
<1>2. HandInv /\ [Next]_vars => HandInv'
  BY IInvStep, UnspentStep, JobsStep DEF HandInv, IInv
<1> QED BY <1>1, <1>2, PTL DEF Spec

\* The record in hand is the oldest unacknowledged one of its partition, and
\* in no other hand.
LEMMA HeldAlone ==
  ASSUME HandInv, NEW w \in Workers, pc[w] \in BusyPcs
  PROVE  /\ job[w] \in Jobs /\ job[w] # NONE
         /\ job[w].part \in Partitions /\ job[w].off \in Nat
         /\ job[w].off = committed[job[w].part]
         /\ job[w].off < Len(Log[job[w].part]) /\ Len(Log[job[w].part]) \in Nat
         /\ w \in members /\ TaskOf(w) \in Tasks
         /\ Record(job[w].part, job[w].off).kind = IF pc[w] = "reject" THEN "invalid" ELSE "task"
         /\ \A v \in Workers \ {w} : pc[v] \in BusyPcs => job[v].part # job[w].part
<1>1. /\ job[w] # NONE /\ job[w] \in Jobs /\ job[w].part \in Partitions /\ job[w].off \in Nat
      /\ job[w].off < Len(Log[job[w].part]) /\ TaskOf(w) \in Tasks
  BY JobInLog DEF HandInv, IInv, TypeOK
<1>2. \A v \in Workers : pc[v] \in BusyPcs => job[v] # NONE /\ v \in members /\ owner[job[v].part] = v
  BY DEF HandInv, IInv, TypeOK, LoopTypeOK, JobsInv, PositionInv, JobInv
<1>3. job[w].off = committed[job[w].part]
  BY <1>1, <1>2 DEF HandInv, IInv, PositionInv, JobInv
<1> QED BY <1>1, <1>2, <1>3, LogLen DEF HandInv, JobsInv

-----------------------------------------------------------------------------
(* AcknowledgedIsFinal                                                     *)

TaskRecord(p, o, t) ==
  o < Len(Log[p]) /\ Record(p, o).kind = "task" /\ Record(p, o).task = t

Final(t) == workflow[t].status \in {"success", "failed"}

\* The handler is through with the record of w.
Through(w) == pc[w] \in {"finished", "commit"}

Holds(w, p, o) == job[w].part = p /\ job[w].off = o

\* A record of t is acknowledged, or only waits for that.
Done(t) ==
  \/ \E p \in Partitions : \E o \in 0 .. committed[p] - 1 : TaskRecord(p, o, t)
  \/ \E w \in Workers : Through(w) /\ TaskOf(w) = t

\* A record of t has its handler still before it.
Pending(t) ==
  \E p \in Partitions : \E o \in Nat :
    /\ o >= committed[p] /\ TaskRecord(p, o, t)
    /\ \A w \in Workers : Through(w) => ~Holds(w, p, o)

OutcomeInv == \A t \in Tasks : Done(t) => Final(t) \/ Pending(t)

\* Steps that write no status and move no offset.
LEMMA OutcomeStays ==
  ASSUME OutcomeInv, UNCHANGED <<workflow, committed>>,
         \A w \in Workers :
           pc'[w] \in {"finished", "commit"} =>
             Through(w) /\ job'[w].part = job[w].part /\ job'[w].off = job[w].off
  PROVE  OutcomeInv'
<1> SUFFICES ASSUME NEW t \in Tasks, Done(t)' PROVE Final(t)' \/ Pending(t)'
  BY DEF OutcomeInv
<1>1. \A w \in Workers : Through(w)' =>
        Through(w) /\ TaskOf(w)' = TaskOf(w) /\ \A p, o : Holds(w, p, o)' <=> Holds(w, p, o)
  BY DEF Through, TaskOf, Record, Holds
<1>2. Done(t)
  BY <1>1 DEF Done, TaskRecord
<1>3. Final(t) => Final(t)'
  BY DEF Final
<1>4. Pending(t) => Pending(t)'
  BY <1>1 DEF Pending, TaskRecord
<1> QED BY <1>2, <1>3, <1>4 DEF OutcomeInv

\* w writes a status of its task.
LEMMA OutcomeWrites ==
  ASSUME HandInv, OutcomeInv, NEW w \in Workers, pc[w] \in BusyPcs \ {"reject"},
         UNCHANGED committed,
         \A v \in Workers \ {w} : pc'[v] = pc[v] /\ job'[v] = job[v],
         job'[w].part = job[w].part /\ job'[w].off = job[w].off,
         \A t \in Tasks \ {TaskOf(w)} : workflow'[t] = workflow[t],
         \/ workflow'[TaskOf(w)].status \in {"success", "failed"}
         \/ pc'[w] \notin {"finished", "commit"}
  PROVE  OutcomeInv'
<1>1. \A v \in Workers : job'[v].part = job[v].part /\ job'[v].off = job[v].off
  OBVIOUS
<1>2. \A v \in Workers : TaskOf(v)' = TaskOf(v) /\ \A p, o : Holds(v, p, o)' <=> Holds(v, p, o)
  BY <1>1 DEF TaskOf, Record, Holds
<1>3. \A v \in Workers \ {w} : Through(v)' <=> Through(v)
  BY DEF Through
<1>4. ASSUME NEW t \in Tasks \ {TaskOf(w)}, Done(t)' PROVE Final(t)' \/ Pending(t)'
  <2>1. Done(t)
    BY <1>2, <1>3, <1>4 DEF Done, TaskRecord
  <2>2. Final(t) => Final(t)'
    BY DEF Final
  <2>3. ASSUME Pending(t) PROVE Pending(t)'
    <3>1. PICK p \in Partitions, o \in Nat :
            /\ o >= committed[p] /\ TaskRecord(p, o, t)
            /\ \A v \in Workers : Through(v) => ~Holds(v, p, o)
      BY <2>3 DEF Pending
    <3>2. ~Holds(w, p, o)
      BY <3>1 DEF Holds, TaskRecord, TaskOf
    <3> QED BY <1>2, <1>3, <3>1, <3>2 DEF Pending, TaskRecord
  <2> QED BY <2>1, <2>2, <2>3 DEF OutcomeInv
<1>5. CASE workflow'[TaskOf(w)].status \in {"success", "failed"}
  BY <1>4, <1>5 DEF OutcomeInv, Final
<1>6. CASE pc'[w] \notin {"finished", "commit"}
  <2>1. PICK p \in Partitions, o \in Nat, t \in Tasks :
          p = job[w].part /\ o = job[w].off /\ t = TaskOf(w)
    BY HeldAlone
  <2>2. /\ o >= committed'[p] /\ TaskRecord(p, o, t)
        /\ \A v \in Workers \ {w} : pc[v] \in BusyPcs => job[v].part # p
    BY <2>1, HeldAlone DEF TaskRecord, TaskOf
  <2>3. \A v \in Workers : Through(v)' => v # w /\ pc[v] \in BusyPcs
    BY <1>3, <1>6 DEF Through, BusyPcs, HandlerPcs
  <2>4. \A v \in Workers : Through(v)' => ~Holds(v, p, o)'
    BY <1>1, <2>2, <2>3 DEF Holds
  <2>5. Pending(t)'
    BY <2>2, <2>4 DEF Pending, TaskRecord
  <2> QED BY <1>4, <2>1, <2>5 DEF OutcomeInv
<1> QED BY <1>5, <1>6

\* The commit of the record in hand.
LEMMA OutcomeCommits ==
  ASSUME HandInv, OutcomeInv, NEW w \in Workers, pc[w] \in {"commit", "reject"},
         UNCHANGED workflow,
         committed' = [committed EXCEPT ![job[w].part] = job[w].off + 1],
         \A v \in Workers \ {w} : pc'[v] = pc[v] /\ job'[v] = job[v],
         pc'[w] \notin {"finished", "commit"}
  PROVE  OutcomeInv'
<1> SUFFICES ASSUME NEW t \in Tasks, Done(t)' PROVE Final(t)' \/ Pending(t)'
  BY DEF OutcomeInv
<1> DEFINE q == job[w].part
<1>1. /\ q \in Partitions /\ job[w].off \in Nat /\ job[w].off = committed[q]
      /\ Record(q, job[w].off).kind = IF pc[w] = "reject" THEN "invalid" ELSE "task"
      /\ committed \in [Partitions -> Nat]
  BY HeldAlone DEF BusyPcs, HandInv, IInv, TypeOK, GroupTypeOK
<1>2. \A v \in Workers : Through(v)' =>
        /\ v # w /\ Through(v) /\ TaskOf(v)' = TaskOf(v)
        /\ \A p, o : Holds(v, p, o)' <=> Holds(v, p, o)
  BY DEF Through, TaskOf, Record, Holds
<1>3. TaskRecord(q, committed[q], t) => Through(w) /\ TaskOf(w) = t /\ Holds(w, q, committed[q])
  BY <1>1 DEF TaskRecord, Through, TaskOf, Holds
<1>4. Done(t)
  <2>1. CASE \E v \in Workers : Through(v)' /\ TaskOf(v)' = t
    BY <1>2, <2>1 DEF Done
  <2>2. ASSUME NEW p \in Partitions, NEW o \in 0 .. committed'[p] - 1, TaskRecord(p, o, t)
        PROVE  Done(t)
    <3>1. o \in 0 .. committed[p] - 1 \/ (p = q /\ o = committed[q])
      BY <1>1
    <3> QED BY <1>3, <2>2, <3>1 DEF Done
  <2> QED BY <2>1, <2>2 DEF Done, TaskRecord
<1>5. Final(t) => Final(t)'
  BY DEF Final
<1>6. ASSUME Pending(t) PROVE Pending(t)'
  <2>1. PICK p \in Partitions, o \in Nat :
          /\ o >= committed[p] /\ TaskRecord(p, o, t)
          /\ \A v \in Workers : Through(v) => ~Holds(v, p, o)
    BY <1>6 DEF Pending
  <2>2. ~(p = q /\ o = committed[q])
    BY <1>3, <2>1
  <2>3. o >= committed'[p]
    BY <1>1, <2>1, <2>2
  <2> QED BY <1>2, <2>1, <2>3 DEF Pending, TaskRecord
<1> QED BY <1>4, <1>5, <1>6 DEF OutcomeInv

LEMMA OutcomeStep ==
  ASSUME HandInv, OutcomeInv, Never("db"), [Next]_vars
  PROVE  OutcomeInv'
<1> USE DEF HandInv, IInv, TypeOK, LoopTypeOK
<1>d. ~Spend("db")
  BY DEF Spend, Unspent, Kinds
<1>1. ASSUME NEW w \in Workers, WorkerStep(w) \/ Environment(w),
             UNCHANGED <<workflow, committed>>,
             pc'[w] \in {"finished", "commit"} =>
               Through(w) /\ job'[w].part = job[w].part /\ job'[w].off = job[w].off
      PROVE  OutcomeInv'
  <2>1. \A v \in Workers \ {w} : pc'[v] = pc[v] /\ job'[v] = job[v]
    BY <1>1, OthersStay
  <2> QED BY <1>1, <2>1, OutcomeStays DEF Through
<1>2. ASSUME NEW w \in Workers, WorkerStep(w), pc[w] \in BusyPcs \ {"reject"},
             UNCHANGED committed, pc'[w] \in BusyPcs,
             \/ workflow' = workflow /\ pc'[w] \notin {"finished", "commit"}
             \/ \E status \in Statuses :
                  /\ SetStatus(TaskOf(w), w, status)
                  /\ status \in {"success", "failed"} \/ pc'[w] \notin {"finished", "commit"}
      PROVE  OutcomeInv'
  <2>1. \A v \in Workers \ {w} : pc'[v] = pc[v] /\ job'[v] = job[v]
    BY <1>2, OthersStay
  <2>2. \A p \in Partitions : ~PollRecord(w, p)
    BY <1>2 DEF PollRecord, At, BusyPcs, HandlerPcs
  <2>3. job'[w] # NONE
    BY <1>2, TypeStep DEF Next
  <2>4. job'[w].part = job[w].part /\ job'[w].off = job[w].off
    BY <1>2, <2>2, <2>3, HoldsOn
  <2>5. /\ \A t \in Tasks \ {TaskOf(w)} : workflow'[t] = workflow[t]
        /\ \/ workflow'[TaskOf(w)].status \in {"success", "failed"}
           \/ pc'[w] \notin {"finished", "commit"}
    BY <1>2, HeldAlone DEF SetStatus, StoreTypeOK
  <2> QED BY <1>2, <2>1, <2>4, <2>5, OutcomeWrites
<1>3. ASSUME NEW w \in Workers,
             \/ ReadControl(w) \/ Report(w) \/ ReadControlAgain(w) \/ Wrapup(w)
             \/ PollEmpty(w) \/ (\E p \in Partitions : PollRecord(w, p)) \/ Claim(w)
             \/ Release(w) \/ Environment(w)
      PROVE  /\ UNCHANGED <<workflow, committed>>
             /\ pc'[w] \in {"finished", "commit"} =>
                  Through(w) /\ job'[w].part = job[w].part /\ job'[w].off = job[w].off
  BY <1>3
  DEF ReadControl, Report, ReadControlAgain, Wrapup, PollEmpty, PollRecord, Take, Claim, Release,
      Environment, RedisFault, Crash, Restart, SessionTimeout, LeaveWhilePaused, EvictSlow,
      RowExpires, Leave, Die, Goto, groupVars, storeVars, loopVars, Through
<1>4. ASSUME NEW w \in Workers, Analyse(w) PROVE OutcomeInv'
  <2>1. UNCHANGED <<workflow, committed>> /\ pc'[w] \notin {"finished", "commit"}
    BY <1>4 DEF Analyse, Goto, Raise, groupVars, storeVars
  <2> QED BY <1>1, <1>4, <2>1 DEF WorkerStep
<1>5. ASSUME NEW w \in Workers, NEW b \in Tables, WriteRows(w, b) PROVE OutcomeInv'
  <2>1. UNCHANGED <<workflow, committed>> /\ pc'[w] \notin {"finished", "commit"}
    BY <1>5, TablesAreSteps
    DEF WriteRows, Transaction, UpsertRows, Goto, Raise, groupVars, storeVars
  <2> QED BY <1>1, <1>5, <2>1 DEF WorkerStep
<1>6. ASSUME NEW w \in Workers, Clear(w) PROVE OutcomeInv'
  <2>1. UNCHANGED <<workflow, committed>> /\ pc'[w] \notin {"finished", "commit"}
    BY <1>6 DEF Clear, Transaction, ClearPreviousResults, Goto, Raise, groupVars, storeVars
  <2> QED BY <1>1, <1>6, <2>1 DEF WorkerStep
<1>7. ASSUME NEW w \in Workers, Begin(w) PROVE OutcomeInv'
  <2>1. /\ pc[w] \in BusyPcs \ {"reject"} /\ UNCHANGED committed /\ pc'[w] = "clear"
        /\ SetStatus(TaskOf(w), w, "running")
    BY <1>7, <1>d DEF Begin, Transaction, MarkRunning, Goto, At, groupVars, BusyPcs, HandlerPcs
  <2> QED BY <1>2, <1>7, <2>1 DEF WorkerStep, Statuses, BusyPcs, HandlerPcs
<1>8. ASSUME NEW w \in Workers, Success(w) PROVE OutcomeInv'
  <2>1. /\ pc[w] \in BusyPcs \ {"reject"} /\ UNCHANGED committed /\ pc'[w] = "finished"
        /\ SetStatus(TaskOf(w), w, "success")
    BY <1>8, <1>d DEF Success, Transaction, MarkFinal, Goto, At, groupVars, BusyPcs, HandlerPcs
  <2> QED BY <1>2, <1>8, <2>1 DEF WorkerStep, Statuses, BusyPcs, HandlerPcs
<1>9. ASSUME NEW w \in Workers, Finish(w) PROVE OutcomeInv'
  <2>1. /\ UNCHANGED <<workflow, committed>> /\ Through(w)
        /\ (pc'[w] = "commit" /\ UNCHANGED job) \/ pc'[w] = "failing"
    BY <1>9 DEF Finish, Goto, Raise, At, Through, groupVars, storeVars
  <2> QED BY <1>1, <1>9, <2>1 DEF WorkerStep
<1>10. ASSUME NEW w \in Workers, Fail(w) PROVE OutcomeInv'
  <2>1. /\ pc[w] \in BusyPcs \ {"reject"} /\ UNCHANGED committed /\ pc'[w] \in {"begin", "commit"}
        /\ SetStatus(TaskOf(w), w, "failed")
    BY <1>10, <1>d DEF Fail, MarkFinal, Retry, Goto, At, groupVars, BusyPcs, HandlerPcs
  <2> QED BY <1>2, <1>10, <2>1 DEF WorkerStep, Statuses, BusyPcs, HandlerPcs
<1>11. ASSUME NEW w \in Workers, Commit(w) \/ Reject(w) PROVE OutcomeInv'
  <2>1. pc[w] \in {"commit", "reject"} /\ UNCHANGED workflow /\ pc'[w] \notin {"finished", "commit"}
    BY <1>11 DEF Commit, Reject, CommitEnds, Die, At, storeVars
  <2>2. CASE UNCHANGED groupVars
    BY <1>1, <1>11, <2>1, <2>2 DEF WorkerStep, groupVars
  <2>3. CASE committed' = [committed EXCEPT ![job[w].part] = job[w].off + 1]
    <3>1. \A v \in Workers \ {w} : pc'[v] = pc[v] /\ job'[v] = job[v]
      BY <1>11, OthersStay DEF WorkerStep
    <3> QED BY <2>1, <2>3, <3>1, OutcomeCommits
  <2>4. CommitAll(w) => committed' = [committed EXCEPT ![job[w].part] = job[w].off + 1]
    BY <2>1, CommitAllIsOne DEF BusyPcs
  <2> QED BY <1>11, <2>2, <2>3, <2>4 DEF Commit, Reject, CommitEnds, CommitOne
<1>12. ASSUME UNCHANGED <<storeVars, loopVars, committed>> PROVE OutcomeInv'
  BY <1>12, OutcomeStays DEF storeVars, loopVars, Through
<1> QED
  BY <1>1, <1>3, <1>4, <1>5, <1>6, <1>7, <1>8, <1>9, <1>10, <1>11, <1>12, NobodyMoves
  DEF Next, WorkerStep

\* As long as the database works and no worker is put out of the group while it
\* works, a task with no unacknowledged record has a final status, whatever
\* crashes, failing commits and failing Redis calls there are.
THEOREM AcknowledgedTasksAreFinal ==
  ASSUME Never("db"), Never("evict")
  PROVE  Spec => []AcknowledgedIsFinal
<1>1. Init => OutcomeInv
  <2> SUFFICES ASSUME Init, NEW t \in Tasks PROVE ~Done(t)
    BY DEF OutcomeInv
  <2>1. \A p \in Partitions : 0 .. committed[p] - 1 = {}
    BY DEF Init, GroupInit
  <2> QED BY <2>1 DEF Done, Through, Init
<1>2. HandInv /\ OutcomeInv /\ [Next]_vars => OutcomeInv'
  BY OutcomeStep
<1>3. HandInv /\ OutcomeInv => AcknowledgedIsFinal
  <2> SUFFICES ASSUME HandInv, OutcomeInv, NEW p \in Partitions, NEW o \in 0 .. committed[p] - 1,
                      Record(p, o).kind = "task"
               PROVE  \/ workflow[Record(p, o).task].status \in {"success", "failed"}
                      \/ \E q \in Partitions : \E i \in committed[q] .. Len(Log[q]) - 1 :
                           Record(q, i).task = Record(p, o).task
    BY DEF AcknowledgedIsFinal
  <2>1. \A q \in Partitions : committed[q] \in Nat /\ committed[q] <= Len(Log[q]) /\ Len(Log[q]) \in Nat
    BY LogLen DEF HandInv, IInv, TypeOK, GroupTypeOK, Offsets
  <2>2. o \in Nat /\ o < Len(Log[p])
    BY <2>1
  <2>3. PICK t \in Tasks : t = Record(p, o).task
    BY <2>2, LogLen
  <2>4. Done(t)
    BY <2>2, <2>3 DEF Done, TaskRecord
  <2>5. ASSUME Pending(t)
        PROVE  \E q \in Partitions : \E i \in committed[q] .. Len(Log[q]) - 1 : Record(q, i).task = t
    <3>1. PICK q \in Partitions, i \in Nat : i >= committed[q] /\ TaskRecord(q, i, t)
      BY <2>5 DEF Pending
    <3>2. i \in committed[q] .. Len(Log[q]) - 1
      BY <2>1, <3>1 DEF TaskRecord
    <3> QED BY <3>1, <3>2 DEF TaskRecord
  <2> QED BY <2>3, <2>4, <2>5 DEF OutcomeInv, Final
<1> QED BY <1>1, <1>2, <1>3, HandAlways, PTL DEF Spec

-----------------------------------------------------------------------------
(* SuccessIsWhole                                                          *)

\* The valid records of one task are in one partition, so that they are taken
\* one after the other.
OneHome ==
  \A p, q \in Partitions : \A o, i \in Nat : \A t \in Tasks :
    TaskRecord(p, o, t) /\ TaskRecord(q, i, t) => p = q

\* The calls of process_task after its first write, and after the clearing.
Cleared == {"analyse", "timeline", "snapshot", "stat", "indicator", "success"}
Writing == Cleared \cup {"clear"}

\* What the run of w has made of its task's rows so far.
RunOK(w) ==
  /\ pc[w] \in Writing => workflow[TaskOf(w)].status = "running"
  /\ pc[w] \in Cleared =>
       \A b \in ClearedTables, k \in Keys : rows[b][TaskOf(w)][k] \in {w, NONE}
  /\ pc[w] = "success" => \A k \in Indicators : rows["indicator"][TaskOf(w)][k] = w

\* What a task's rows say.
RowsOK(t) ==
  /\ workflow[t].status = "success" =>
       /\ \A b \in ClearedTables, k \in Keys : rows[b][t][k] \in {workflow[t].by, NONE}
       /\ \A k \in Indicators : rows["indicator"][t][k] = workflow[t].by
  /\ \A k \in Keys \ Indicators : rows["indicator"][t][k] = NONE

WholeInv == (\A w \in Workers : RunOK(w)) /\ (\A t \in Tasks : RowsOK(t))

\* No two workers run the same task.
LEMMA OneRun ==
  ASSUME HandInv, OneHome, NEW w \in Workers, NEW v \in Workers \ {w},
         pc[w] \in BusyPcs \ {"reject"}, pc[v] \in BusyPcs \ {"reject"}
  PROVE  TaskOf(v) # TaskOf(w)
<1>1. \A x \in {v, w} :
        /\ job[x].part \in Partitions /\ job[x].off \in Nat /\ TaskOf(x) \in Tasks
        /\ TaskRecord(job[x].part, job[x].off, TaskOf(x))
  BY HeldAlone DEF TaskRecord, TaskOf
<1>2. job[v].part # job[w].part
  BY HeldAlone
<1> QED BY <1>1, <1>2 DEF OneHome

\* The task of a record that is held on.
LEMMA SameTask ==
  ASSUME NEW w, job'[w].part = job[w].part, job'[w].off = job[w].off
  PROVE  TaskOf(w)' = TaskOf(w)
BY DEF TaskOf, Record

\* Steps that write nothing, and steps of a run that go no further.
LEMMA WholeStays ==
  ASSUME WholeInv, UNCHANGED storeVars,
         \A w \in Workers : pc'[w] \in Writing =>
           /\ job'[w].part = job[w].part /\ job'[w].off = job[w].off
           /\ pc[w] \in Writing
           /\ pc'[w] \in Cleared => pc[w] \in Cleared
           /\ pc'[w] = "success" => pc[w] = "success" \/ Indicators = {}
  PROVE  WholeInv'
<1>1. ASSUME NEW t \in Tasks PROVE RowsOK(t)'
  BY DEF WholeInv, RowsOK, storeVars
<1>2. ASSUME NEW w \in Workers PROVE RunOK(w)'
  <2>1. CASE pc'[w] \in Writing
    <3>1. TaskOf(w)' = TaskOf(w)
      BY <2>1, SameTask
    <3> QED BY <2>1, <3>1 DEF WholeInv, RunOK, storeVars
  <2>2. CASE pc'[w] \notin Writing
    BY <2>2 DEF RunOK, Writing, Cleared
  <2> QED BY <2>1, <2>2
<1> QED BY <1>1, <1>2 DEF WholeInv

\* Steps of w that write its own task.
LEMMA WholeWrites ==
  ASSUME HandInv, OneHome, WholeInv, NEW w \in Workers, pc[w] \in BusyPcs \ {"reject"},
         \A v \in Workers \ {w} : pc'[v] = pc[v] /\ job'[v] = job[v],
         \A t \in Tasks \ {TaskOf(w)} :
           workflow'[t] = workflow[t] /\ \A b \in Tables : rows'[b][t] = rows[b][t],
         RunOK(w)', \A t \in Tasks : t = TaskOf(w) => RowsOK(t)'
  PROVE  WholeInv'
<1>t. ClearedTables \subseteq Tables /\ "indicator" \in Tables
  BY DEF Tables
<1>1. ASSUME NEW t \in Tasks \ {TaskOf(w)} PROVE RowsOK(t)'
  BY <1>t, <1>1 DEF WholeInv, RowsOK
<1>2. ASSUME NEW v \in Workers \ {w} PROVE RunOK(v)'
  <2>1. CASE pc[v] \in Writing
    <3>1. pc[v] \in BusyPcs \ {"reject"}
      BY <2>1 DEF Writing, Cleared, BusyPcs, HandlerPcs
    <3>2. TaskOf(v) \in Tasks \ {TaskOf(w)}
      BY <3>1, OneRun, HeldAlone
    <3>3. TaskOf(v)' = TaskOf(v)
      BY SameTask
    <3> QED BY <1>t, <3>2, <3>3 DEF WholeInv, RunOK
  <2>2. CASE pc[v] \notin Writing
    BY <2>2 DEF RunOK, Writing, Cleared
  <2> QED BY <2>1, <2>2
<1> QED BY <1>1, <1>2 DEF WholeInv

\* The transactions of the store write one task.
LEMMA EffectsWriteOneTask ==
  ASSUME StoreTypeOK, NEW t \in Tasks, NEW w \in Workers, NEW u \in Tasks \ {t}
  PROVE  /\ MarkRunning(t, w) => workflow'[u] = workflow[u] /\ \A b \in Tables : rows'[b][u] = rows[b][u]
         /\ \A s \in Statuses : MarkFinal(t, w, s) =>
              workflow'[u] = workflow[u] /\ \A b \in Tables : rows'[b][u] = rows[b][u]
         /\ ClearPreviousResults(t) =>
              workflow'[u] = workflow[u] /\ \A b \in Tables : rows'[b][u] = rows[b][u]
         /\ \A c \in Tables : \A ks \in SUBSET Keys : UpsertRows(c, t, w, ks) =>
              workflow'[u] = workflow[u] /\ \A b \in Tables : rows'[b][u] = rows[b][u]
<1>1. MarkRunning(t, w) => workflow'[u] = workflow[u] /\ \A b \in Tables : rows'[b][u] = rows[b][u]
  BY DEF StoreTypeOK, MarkRunning, SetStatus
<1>2. ASSUME NEW s \in Statuses, MarkFinal(t, w, s)
      PROVE  workflow'[u] = workflow[u] /\ \A b \in Tables : rows'[b][u] = rows[b][u]
  BY <1>2 DEF StoreTypeOK, MarkFinal, SetStatus
<1>3. ClearPreviousResults(t) =>
        workflow'[u] = workflow[u] /\ \A b \in Tables : rows'[b][u] = rows[b][u]
  BY DEF StoreTypeOK, ClearPreviousResults
<1>4. ASSUME NEW c \in Tables, NEW ks \in SUBSET Keys, UpsertRows(c, t, w, ks)
      PROVE  workflow'[u] = workflow[u] /\ \A b \in Tables : rows'[b][u] = rows[b][u]
  BY <1>4 DEF StoreTypeOK, UpsertRows
<1> QED BY <1>1, <1>2, <1>3, <1>4

\* What they do to that task.
LEMMA EffectsOnTheTask ==
  ASSUME StoreTypeOK, NEW t \in Tasks, NEW w \in Workers
  PROVE  /\ MarkRunning(t, w) =>
              /\ workflow'[t] = [status |-> "running", by |-> w]
              /\ \A k \in Keys : rows["indicator"][t][k] = NONE => rows'["indicator"][t][k] = NONE
         /\ \A s \in Statuses : MarkFinal(t, w, s) =>
              workflow'[t] = [status |-> s, by |-> w] /\ UNCHANGED rows
         /\ ClearPreviousResults(t) =>
              /\ UNCHANGED workflow /\ rows'["indicator"][t] = rows["indicator"][t]
              /\ \A b \in ClearedTables, k \in Keys : rows'[b][t][k] = NONE
<1>t. ClearedTables \subseteq Tables /\ "indicator" \in Tables \ ClearedTables
  BY DEF Tables, ClearedTables
<1>1. MarkRunning(t, w) =>
        /\ workflow'[t] = [status |-> "running", by |-> w]
        /\ \A k \in Keys : rows["indicator"][t][k] = NONE => rows'["indicator"][t][k] = NONE
  BY <1>t, WorkerAssumption DEF StoreTypeOK, MarkRunning, SetStatus
<1>2. ASSUME NEW s \in Statuses, MarkFinal(t, w, s)
      PROVE  workflow'[t] = [status |-> s, by |-> w] /\ UNCHANGED rows
  BY <1>2 DEF StoreTypeOK, MarkFinal, SetStatus
<1>3. ClearPreviousResults(t) =>
        /\ UNCHANGED workflow /\ rows'["indicator"][t] = rows["indicator"][t]
        /\ \A b \in ClearedTables, k \in Keys : rows'[b][t][k] = NONE
  BY <1>t DEF StoreTypeOK, ClearPreviousResults
<1> QED BY <1>1, <1>2, <1>3

LEMMA UpsertsOnTheTask ==
  ASSUME StoreTypeOK, NEW t \in Tasks, NEW w \in Workers,
         NEW c \in Tables, NEW ks \in SUBSET Keys, UpsertRows(c, t, w, ks)
  PROVE  /\ UNCHANGED workflow
         /\ \A b \in Tables \ {c} : rows'[b] = rows[b]
         /\ \A k \in Keys : rows'[c][t][k] = IF k \in ks THEN w ELSE rows[c][t][k]
BY DEF StoreTypeOK, UpsertRows

LEMMA StoreActionsAreWhole ==
  ASSUME HandInv, OneHome, WholeInv, NEW w \in Workers, NEW t \in Tasks, t = TaskOf(w),
         \/ Begin(w) \/ Clear(w) \/ Success(w) \/ Fail(w)
         \/ \E b \in Tables : WriteRows(w, b)
  PROVE  WholeInv'
<1> USE DEF HandInv, IInv, TypeOK
<1>t. ClearedTables \subseteq Tables /\ "indicator" \in Tables \ ClearedTables
  BY DEF Tables, ClearedTables
<1>w. WorkerStep(w)
  BY DEF WorkerStep
<1>o. \A v \in Workers \ {w} : pc'[v] = pc[v] /\ job'[v] = job[v]
  BY <1>w, OthersStay
<1>k. RunOK(w) /\ RowsOK(t)
  BY DEF WholeInv
<1>r. pc'[w] \notin Writing => RunOK(w)'
  BY DEF RunOK, Writing, Cleared
\* The steps that write their task's rows or status and nothing else.
<1>s. ASSUME pc[w] \in HandlerPcs, RunOK(w)', RowsOK(t)',
             \A u \in Tasks \ {t} :
               workflow'[u] = workflow[u] /\ \A b \in Tables : rows'[b][u] = rows[b][u]
      PROVE  WholeInv'
  <2>1. pc[w] \in BusyPcs \ {"reject"}
    BY <1>s DEF BusyPcs, HandlerPcs
  <2> QED BY <1>o, <1>s, <2>1, WholeWrites
<1>u. UNCHANGED storeVars =>
        /\ RowsOK(t)'
        /\ \A u \in Tasks \ {t} :
             workflow'[u] = workflow[u] /\ \A b \in Tables : rows'[b][u] = rows[b][u]
  BY <1>k DEF RowsOK, storeVars
<1>g. ASSUME NEW l, Goto(w, l), pc[w] \in HandlerPcs PROVE pc'[w] = l /\ TaskOf(w)' = t
  BY <1>g, SameTask DEF Goto, LoopTypeOK
<1>f. ASSUME NEW v, Raise(w, v) PROVE pc'[w] = "failing" /\ pc'[w] \notin Writing
  BY <1>f DEF Raise, LoopTypeOK, Writing, Cleared
<1>1. CASE Begin(w)
  <2>1. pc[w] \in HandlerPcs /\ Transaction(w, MarkRunning(t, w), "clear")
    BY <1>1 DEF Begin, At, HandlerPcs
  <2>2. MarkRunning(t, w) =>
          /\ RowsOK(t)'
          /\ \A u \in Tasks \ {t} :
               workflow'[u] = workflow[u] /\ \A b \in Tables : rows'[b][u] = rows[b][u]
    <3>1. ASSUME MarkRunning(t, w) PROVE RowsOK(t)'
      <4>1. /\ workflow'[t] = [status |-> "running", by |-> w]
            /\ \A k \in Keys : rows["indicator"][t][k] = NONE => rows'["indicator"][t][k] = NONE
        BY <3>1, EffectsOnTheTask
      <4> QED BY <1>k, <4>1 DEF RowsOK
    <3> QED BY <3>1, EffectsWriteOneTask
  <2>3. CASE MarkRunning(t, w) /\ Goto(w, "clear")
    <3>1. RunOK(w)'
      <4>1. pc'[w] = "clear" /\ TaskOf(w)' = t
        BY <1>g, <2>1, <2>3
      <4>2. workflow'[t] = [status |-> "running", by |-> w]
        BY <2>3, EffectsOnTheTask
      <4> QED BY <4>1, <4>2 DEF RunOK, Cleared
    <3> QED BY <1>s, <2>1, <2>2, <2>3, <3>1
  <2> QED BY <1>s, <1>u, <1>r, <1>f, <2>1, <2>2, <2>3 DEF Transaction
<1>2. CASE Clear(w)
  <2>1. pc[w] \in HandlerPcs /\ pc[w] = "clear" /\ Transaction(w, ClearPreviousResults(t), "analyse")
    BY <1>2 DEF Clear, At, HandlerPcs
  <2>2. workflow[t].status = "running"
    BY <1>k, <2>1 DEF RunOK, Writing
  <2>3. ClearPreviousResults(t) =>
          /\ RowsOK(t)'
          /\ \A u \in Tasks \ {t} :
               workflow'[u] = workflow[u] /\ \A b \in Tables : rows'[b][u] = rows[b][u]
    <3>1. ASSUME ClearPreviousResults(t) PROVE RowsOK(t)'
      <4>1. UNCHANGED workflow /\ rows'["indicator"][t] = rows["indicator"][t]
        BY <3>1, EffectsOnTheTask
      <4> QED BY <1>k, <2>2, <4>1 DEF RowsOK
    <3> QED BY <3>1, EffectsWriteOneTask
  <2>4. CASE ClearPreviousResults(t) /\ Goto(w, "analyse")
    <3>1. RunOK(w)'
      <4>1. pc'[w] = "analyse" /\ TaskOf(w)' = t
        BY <1>g, <2>1, <2>4
      <4>2. UNCHANGED workflow /\ \A b \in ClearedTables, k \in Keys : rows'[b][t][k] = NONE
        BY <2>4, EffectsOnTheTask
      <4> QED BY <2>2, <4>1, <4>2 DEF RunOK
    <3> QED BY <1>s, <2>1, <2>3, <2>4, <3>1
  <2> QED BY <1>s, <1>u, <1>r, <1>f, <2>1, <2>3, <2>4 DEF Transaction
<1>3. CASE Success(w)
  <2>1. pc[w] \in HandlerPcs /\ pc[w] = "success"
        /\ Transaction(w, MarkFinal(t, w, "success"), "finished")
    BY <1>3 DEF Success, At, HandlerPcs
  <2>2. "success" \in Statuses
    BY DEF Statuses
  <2>3. MarkFinal(t, w, "success") =>
          /\ RowsOK(t)'
          /\ \A u \in Tasks \ {t} :
               workflow'[u] = workflow[u] /\ \A b \in Tables : rows'[b][u] = rows[b][u]
    <3>1. ASSUME MarkFinal(t, w, "success") PROVE RowsOK(t)'
      <4>1. workflow'[t] = [status |-> "success", by |-> w] /\ UNCHANGED rows
        BY <2>2, <3>1, EffectsOnTheTask
      <4> QED BY <1>k, <2>1, <4>1 DEF RowsOK, RunOK, Cleared
    <3> QED BY <2>2, <3>1, EffectsWriteOneTask
  <2>4. CASE MarkFinal(t, w, "success") /\ Goto(w, "finished")
    <3>1. pc'[w] \notin Writing
      BY <1>g, <2>1, <2>4 DEF Writing, Cleared
    <3> QED BY <1>s, <1>r, <2>1, <2>3, <2>4, <3>1
  <2> QED BY <1>s, <1>u, <1>r, <1>f, <2>1, <2>3, <2>4 DEF Transaction
<1>4. CASE Fail(w)
  <2>1. pc[w] \in HandlerPcs /\ pc'[w] \notin Writing
    BY <1>4 DEF Fail, At, HandlerPcs, Retry, Goto, LoopTypeOK, Writing, Cleared
  <2>2. "failed" \in Statuses
    BY DEF Statuses
  <2>3. MarkFinal(t, w, "failed") =>
          /\ RowsOK(t)'
          /\ \A u \in Tasks \ {t} :
               workflow'[u] = workflow[u] /\ \A b \in Tables : rows'[b][u] = rows[b][u]
    <3>1. ASSUME MarkFinal(t, w, "failed") PROVE RowsOK(t)'
      <4>1. workflow'[t] = [status |-> "failed", by |-> w] /\ UNCHANGED rows
        BY <2>2, <3>1, EffectsOnTheTask
      <4> QED BY <1>k, <4>1 DEF RowsOK
    <3> QED BY <2>2, <3>1, EffectsWriteOneTask
  <2>4. MarkFinal(t, w, "failed") \/ UNCHANGED storeVars
    BY <1>4 DEF Fail
  <2> QED BY <1>s, <1>u, <1>r, <2>1, <2>3, <2>4
<1>5. ASSUME NEW b \in Tables, WriteRows(w, b) PROVE WholeInv'
  <2>1. /\ pc[w] = b /\ b \in HandlerPcs /\ pc[w] \in Cleared /\ b # "success"
        /\ WriteOrder[b] \in Cleared
        /\ WriteOrder[b] = "success" <=> b = "indicator"
    BY <1>5 DEF WriteRows, At, HandlerPcs, Cleared, WriteOrder, Tables, ClearedTables
  <2>2. PICK ks \in SUBSET Keys :
          /\ b = "indicator" => ks = Indicators
          /\ \/ ks = {} /\ Goto(w, WriteOrder[b]) /\ UNCHANGED storeVars
             \/ Transaction(w, UpsertRows(b, t, w, ks), WriteOrder[b])
    <3>1. \A ks \in RowsOf(b) : ks \in SUBSET Keys /\ (b = "indicator" => ks = Indicators)
      BY StoreAssumption DEF RowsOf
    <3> QED BY <1>5, <3>1 DEF WriteRows
  <2>4. workflow[t].status = "running"
    BY <1>k, <2>1 DEF RunOK, Writing
  <2>3. UpsertRows(b, t, w, ks) =>
          /\ UNCHANGED workflow
          /\ \A c \in Tables \ {b} : rows'[c] = rows[c]
          /\ \A k \in Keys : rows'[b][t][k] = IF k \in ks THEN w ELSE rows[b][t][k]
    BY UpsertsOnTheTask
  <2>5. UpsertRows(b, t, w, ks) =>
          /\ RowsOK(t)'
          /\ \A u \in Tasks \ {t} :
               workflow'[u] = workflow[u] /\ \A c \in Tables : rows'[c][u] = rows[c][u]
    <3>1. ASSUME UpsertRows(b, t, w, ks) PROVE RowsOK(t)'
      <4>1. UNCHANGED workflow
            /\ \A k \in Keys \ Indicators : rows'["indicator"][t][k] = rows["indicator"][t][k]
        BY <1>t, <2>2, <2>3, <3>1
      <4> QED BY <1>k, <2>4, <4>1 DEF RowsOK
    <3> QED BY <3>1, EffectsWriteOneTask
  <2>6. CASE UpsertRows(b, t, w, ks) /\ Goto(w, WriteOrder[b])
    <3>1. pc'[w] = WriteOrder[b] /\ TaskOf(w)' = t
      BY <1>g, <2>1, <2>6
    <3>2. \A c \in ClearedTables, k \in Keys : rows'[c][t][k] \in {w, NONE}
      <4>1. \A c \in ClearedTables, k \in Keys : rows[c][t][k] \in {w, NONE}
        BY <1>k, <2>1 DEF RunOK
      <4> QED BY <1>t, <2>3, <2>6, <4>1
    <3>3. b = "indicator" => \A k \in Indicators : rows'["indicator"][t][k] = w
      BY <2>2, <2>3, <2>6, StoreAssumption
    <3>4. workflow'[t].status = "running"
      BY <2>3, <2>4, <2>6
    <3>5. RunOK(w)'
      BY <2>1, <3>1, <3>2, <3>3, <3>4 DEF RunOK
    <3> QED BY <1>s, <2>1, <2>5, <2>6, <3>5
  <2>7. CASE ks = {} /\ Goto(w, WriteOrder[b]) /\ UNCHANGED storeVars
    <3>1. pc'[w] = WriteOrder[b] /\ TaskOf(w)' = t
      BY <1>g, <2>1, <2>7
    <3>2. RunOK(w)'
      BY <1>k, <2>1, <2>2, <2>4, <2>7, <3>1 DEF RunOK, storeVars
    <3> QED BY <1>s, <1>u, <2>1, <2>7, <3>2
  <2> QED BY <1>s, <1>u, <1>r, <1>f, <2>1, <2>2, <2>5, <2>6, <2>7 DEF Transaction
<1> QED BY <1>1, <1>2, <1>3, <1>4, <1>5

LEMMA WholeStep ==
  ASSUME HandInv, OneHome, WholeInv, [Next]_vars
  PROVE  WholeInv'
<1> USE DEF HandInv, IInv, TypeOK
<1>1. ASSUME NEW w \in Workers,
             \/ Begin(w) \/ Clear(w) \/ Success(w) \/ Fail(w)
             \/ \E b \in Tables : WriteRows(w, b)
      PROVE  WholeInv'
  <2>1. pc[w] \in BusyPcs
    BY <1>1, TablesAreSteps
    DEF Begin, Clear, Success, Fail, WriteRows, At, BusyPcs, HandlerPcs
  <2>2. PICK t \in Tasks : t = TaskOf(w)
    BY <2>1, HeldAlone
  <2> QED BY <1>1, <2>2, StoreActionsAreWhole
<1>2. ASSUME NEW w \in Workers, WorkerStep(w) \/ Environment(w), UNCHANGED storeVars,
             pc'[w] \in Writing =>
               /\ job'[w].part = job[w].part /\ job'[w].off = job[w].off
               /\ pc[w] \in Cleared /\ pc'[w] # "success"
      PROVE  WholeInv'
  <2>1. \A v \in Workers \ {w} : pc'[v] = pc[v] /\ job'[v] = job[v]
    BY <1>2, OthersStay
  <2> QED BY <1>2, <2>1, WholeStays DEF Writing
<1>3. ASSUME NEW w \in Workers,
             \/ ReadControl(w) \/ Report(w) \/ ReadControlAgain(w) \/ Wrapup(w)
             \/ PollEmpty(w) \/ (\E p \in Partitions : PollRecord(w, p)) \/ Claim(w)
             \/ Commit(w) \/ Reject(w) \/ Release(w) \/ Finish(w)
      PROVE  UNCHANGED storeVars /\ pc'[w] \notin Writing
  BY <1>3
  DEF ReadControl, Report, ReadControlAgain, Wrapup, PollEmpty, PollRecord, Claim, Commit, Reject,
      CommitEnds, Release, Finish, Die, Goto, Raise, LoopTypeOK, Writing, Cleared
<1>4. ASSUME NEW w \in Workers, Analyse(w)
      PROVE  /\ UNCHANGED storeVars /\ pc[w] \in Cleared
             /\ pc'[w] \in Writing => pc'[w] # "success" /\ UNCHANGED job
  BY <1>4 DEF Analyse, Goto, Raise, At, LoopTypeOK, Writing, Cleared
<1>5. ASSUME NEW w \in Workers, RedisFault(w) \/ Crash(w) \/ Restart(w)
      PROVE  UNCHANGED storeVars /\ pc'[w] \notin Writing
  BY <1>5 DEF RedisFault, Crash, Restart, Die, LoopTypeOK, Writing, Cleared
<1>6. ASSUME NEW w \in Workers,
             SessionTimeout(w) \/ LeaveWhilePaused(w) \/ EvictSlow(w) \/ RowExpires(w)
      PROVE  UNCHANGED <<storeVars, loopVars>>
  BY <1>6 DEF SessionTimeout, LeaveWhilePaused, EvictSlow, RowExpires
<1>7. ASSUME UNCHANGED <<storeVars, loopVars>> PROVE WholeInv'
  BY <1>7, WholeStays DEF loopVars
<1>8. ASSUME NEW w \in Workers, WorkerStep(w) PROVE WholeInv'
  BY <1>1, <1>2, <1>3, <1>4, <1>8 DEF WorkerStep
<1>9. ASSUME NEW w \in Workers, Environment(w) PROVE WholeInv'
  BY <1>2, <1>5, <1>6, <1>7, <1>9 DEF Environment
<1> QED BY <1>7, <1>8, <1>9, NobodyMoves DEF Next

LEMMA WholeInit == Init => WholeInv
BY StoreAssumption
DEF Init, StoreInit, WholeInv, RunOK, RowsOK, Writing, Cleared, Tables, ClearedTables

\* A workflow marked successful shows the rows of the one run that marked it,
\* when the records of a task share a partition and no worker is put out of the
\* group while it works, whatever crashes and failing writes there are.
THEOREM SuccessesAreWhole ==
  ASSUME Never("evict"), OneHome
  PROVE  Spec => []SuccessIsWhole
<1>1. HandInv /\ WholeInv /\ [Next]_vars => WholeInv'
  BY WholeStep
<1>2. TypeOK /\ WholeInv => SuccessIsWhole
  <2> SUFFICES ASSUME TypeOK, WholeInv, NEW t \in Tasks, workflow[t].status = "success",
                      NEW k \in Keys
               PROVE  /\ \A b \in Tables : rows[b][t][k] \in {workflow[t].by, NONE}
                      /\ k \in Indicators => rows["indicator"][t][k] = workflow[t].by
    BY StoreAssumption DEF SuccessIsWhole
  <2>1. RowsOK(t)
    BY DEF WholeInv
  <2> QED BY <2>1 DEF RowsOK, Tables
<1> QED BY <1>1, <1>2, HandAlways, TypeCorrect, WholeInit, PTL DEF Spec

-----------------------------------------------------------------------------
(* SuccessStands                                                           *)

\* A run that fails has not marked its task successful before.
FailingInv == \A w \in Workers : pc[w] = "failing" => workflow[TaskOf(w)].status = "running"

StandsNow == \A t \in Tasks : workflow[t].status = "success" => workflow'[t].status # "failed"

LEMMA SuccessStep ==
  ASSUME HandInv, OneHome, WholeInv, FailingInv, Never("redis"), Never("db"), [Next]_vars
  PROVE  FailingInv' /\ StandsNow
<1> USE DEF HandInv, IInv, TypeOK, LoopTypeOK
<1>f. ~Spend("redis") /\ ~Spend("db")
  BY DEF Spend, Unspent, Kinds
\* Steps that leave the status of every task alone.
<1>1. ASSUME NEW w \in Workers, WorkerStep(w) \/ Environment(w), UNCHANGED workflow,
             pc'[w] = "failing" =>
               /\ job'[w].part = job[w].part /\ job'[w].off = job[w].off
               /\ pc[w] \in Writing \cup {"failing"}
      PROVE  FailingInv' /\ StandsNow
  <2>1. \A v \in Workers : pc'[v] = "failing" =>
          TaskOf(v)' = TaskOf(v) /\ pc[v] \in Writing \cup {"failing"}
    BY <1>1, OthersStay, SameTask
  <2>2. StandsNow
    BY <1>1 DEF StandsNow
  <2> QED BY <1>1, <2>1, <2>2 DEF FailingInv, WholeInv, RunOK
\* Steps that write the status of the task in hand.
<1>2. ASSUME NEW w \in Workers, WorkerStep(w), pc[w] \in BusyPcs \ {"reject"},
             pc'[w] # "failing",
             NEW s \in Statuses, SetStatus(TaskOf(w), w, s),
             s = "failed" => pc[w] = "failing"
      PROVE  FailingInv' /\ StandsNow
  <2>1. /\ TaskOf(w) \in Tasks
        /\ workflow'[TaskOf(w)].status = s
        /\ \A t \in Tasks \ {TaskOf(w)} : workflow'[t] = workflow[t]
    BY <1>2, HeldAlone DEF SetStatus, StoreTypeOK
  <2>2. StandsNow
    BY <1>2, <2>1 DEF StandsNow, FailingInv
  <2>3. ASSUME NEW v \in Workers, pc'[v] = "failing"
        PROVE  workflow'[TaskOf(v)'].status = "running"
    <3>1. v # w /\ pc[v] = "failing" /\ TaskOf(v)' = TaskOf(v)
      BY <1>2, <2>3, OthersStay, SameTask
    <3>2. pc[v] \in BusyPcs \ {"reject"}
      BY <3>1 DEF BusyPcs, HandlerPcs
    <3>3. TaskOf(v) \in Tasks \ {TaskOf(w)}
      BY <1>2, <3>1, <3>2, HeldAlone, OneRun
    <3> QED BY <2>1, <3>1, <3>3 DEF FailingInv
  <2> QED BY <2>2, <2>3 DEF FailingInv
<1>3. ASSUME NEW w \in Workers,
             \/ ReadControl(w) \/ Report(w) \/ ReadControlAgain(w) \/ Wrapup(w)
             \/ PollEmpty(w) \/ (\E p \in Partitions : PollRecord(w, p)) \/ Claim(w)
             \/ Release(w) \/ Commit(w) \/ Reject(w)
      PROVE  UNCHANGED workflow /\ pc'[w] # "failing"
  BY <1>3
  DEF ReadControl, Report, ReadControlAgain, Wrapup, PollEmpty, PollRecord, Claim, Release,
      Commit, Reject, CommitEnds, Die, Goto, storeVars
<1>4. ASSUME NEW w \in Workers, Environment(w)
      PROVE  /\ UNCHANGED workflow
             /\ pc'[w] = "failing" => UNCHANGED job /\ pc[w] = "failing"
  BY <1>4
  DEF Environment, RedisFault, Crash, Restart, SessionTimeout, LeaveWhilePaused, EvictSlow,
      RowExpires, Die, storeVars, loopVars
<1>5. ASSUME NEW w \in Workers, Analyse(w)
      PROVE  /\ UNCHANGED workflow /\ pc[w] \in Writing
             /\ job'[w].part = job[w].part /\ job'[w].off = job[w].off
  <2>1. pc[w] = "analyse" /\ pc[w] \in Writing /\ UNCHANGED workflow /\ job[w] \in Jobs
    BY <1>5 DEF Analyse, At, storeVars, Writing, Cleared, BusyPcs, HandlerPcs
  <2>2. ASSUME NEW v, Raise(w, v)
        PROVE  job'[w].part = job[w].part /\ job'[w].off = job[w].off
    BY <2>1, <2>2 DEF Raise, Jobs
  <2>3. UNCHANGED job \/ \E v \in BOOLEAN : Raise(w, v)
    BY <1>5 DEF Analyse, Goto
  <2> QED BY <2>1, <2>2, <2>3
<1>6. ASSUME NEW w \in Workers, Clear(w) \/ Finish(w)
      PROVE  UNCHANGED workflow /\ pc'[w] # "failing"
  BY <1>6, <1>f DEF Clear, Finish, Transaction, ClearPreviousResults, Goto, storeVars
<1>7. ASSUME NEW w \in Workers, NEW b \in Tables, WriteRows(w, b)
      PROVE  UNCHANGED workflow /\ pc'[w] # "failing"
  BY <1>7, <1>f, TablesAreSteps DEF WriteRows, Transaction, UpsertRows, Goto, storeVars
<1>8. ASSUME NEW w \in Workers, Begin(w) PROVE FailingInv' /\ StandsNow
  <2>1. /\ pc[w] \in BusyPcs \ {"reject"} /\ pc'[w] # "failing"
        /\ SetStatus(TaskOf(w), w, "running") /\ "running" \in Statuses
    BY <1>8, <1>f
    DEF Begin, Transaction, MarkRunning, Goto, At, BusyPcs, HandlerPcs, Statuses
  <2> QED BY <1>2, <1>8, <2>1 DEF WorkerStep
<1>9. ASSUME NEW w \in Workers, Success(w) PROVE FailingInv' /\ StandsNow
  <2>1. /\ pc[w] \in BusyPcs \ {"reject"} /\ pc'[w] # "failing"
        /\ SetStatus(TaskOf(w), w, "success") /\ "success" \in Statuses
    BY <1>9, <1>f
    DEF Success, Transaction, MarkFinal, Goto, At, BusyPcs, HandlerPcs, Statuses
  <2> QED BY <1>2, <1>9, <2>1 DEF WorkerStep
<1>10. ASSUME NEW w \in Workers, Fail(w) PROVE FailingInv' /\ StandsNow
  <2>1. /\ pc[w] = "failing" /\ pc[w] \in BusyPcs \ {"reject"} /\ pc'[w] # "failing"
        /\ SetStatus(TaskOf(w), w, "failed") /\ "failed" \in Statuses
    BY <1>10, <1>f DEF Fail, MarkFinal, Retry, Goto, At, BusyPcs, HandlerPcs, Statuses
  <2> QED BY <1>2, <1>10, <2>1 DEF WorkerStep
<1>11. ASSUME UNCHANGED <<storeVars, loopVars>> PROVE FailingInv' /\ StandsNow
  BY <1>11, SameTask DEF storeVars, loopVars, FailingInv, StandsNow
<1>12. ASSUME NEW w \in Workers, WorkerStep(w) PROVE FailingInv' /\ StandsNow
  BY <1>1, <1>3, <1>5, <1>6, <1>7, <1>8, <1>9, <1>10, <1>12 DEF WorkerStep
<1>13. ASSUME NEW w \in Workers, Environment(w) PROVE FailingInv' /\ StandsNow
  BY <1>1, <1>4, <1>13
<1> QED BY <1>11, <1>12, <1>13, NobodyMoves DEF Next

\* A success only gives way to a failure through a failing call of Redis, as in
\* the run redis_outage, a failing transaction or an eviction: without these, and
\* with the records of a task in one partition, a workflow marked successful is
\* not marked failed before it is marked running again, whatever crashes,
\* retries, redeliveries and failing commits there are.
THEOREM SuccessesStand ==
  ASSUME Never("redis"), Never("db"), Never("evict"), OneHome
  PROVE  Spec => SuccessStands
<1>1. Init => FailingInv
  BY DEF Init, FailingInv
<1>2. HandInv /\ WholeInv /\ [Next]_vars => WholeInv'
  BY WholeStep
<1>3. HandInv /\ WholeInv /\ FailingInv /\ [Next]_vars => FailingInv' /\ StandsNow
  BY SuccessStep
<1>4. StandsNow => [StandsNow]_vars
  OBVIOUS
<1>5. Spec => [][StandsNow]_vars
  BY <1>1, <1>2, <1>3, <1>4, HandAlways, WholeInit, PTL DEF Spec
<1> QED BY <1>5 DEF SuccessStands, StandsNow

=============================================================================
