---------------------------- MODULE TaskPipeline ----------------------------
(***************************************************************************)
(* The controlled Kafka workers at work: the loop of                       *)
(* ControlledVisionOrchestratorKafkaConsumer (run_forever, run_once,       *)
(* _consume_one), the task handler VisualAnalysisWorker.process_task it    *)
(* calls, the desired state the API keeps in Redis, and each worker's row  *)
(* in the worker registry.  It composes ConsumerGroup (Kafka) and          *)
(* WorkflowStore (MySQL).                                                  *)
(*                                                                         *)
(* Every call to Redis, MySQL or Kafka is a step of its own, because other *)
(* workers, the API and crashes can come between two of them.  pc[w] is    *)
(* the next call of worker w:                                              *)
(*                                                                         *)
(*   top -> report -> poll -> claim -> begin -> clear -> analyse           *)
(*       -> timeline -> snapshot -> stat -> indicator -> success           *)
(*       -> finished -> commit -> release -> after -> wrapup -> top        *)
(*                                                                         *)
(* with "reject" for an invalid message, "failing" in the handler's except *)
(* branch, "dead" once an exception has left run_forever, and "exited"     *)
(* once run_forever has returned.                                          *)
(*                                                                         *)
(* Definitions headed "Broken" are slips a later change of the code could  *)
(* make; no action uses them.  Each shows that a property can fail.        *)
(***************************************************************************)
EXTENDS ConsumerGroup, WorkflowStore, FiniteSets

CONSTANTS
  MaxRetries,     \* max_retries: handler attempts per record
  StopExits,      \* stop_exits: whether STOPPED ends the process
  InitialDesired, \* the desired states the control key may hold at the start
  Budget          \* how many events of each kind in Kinds may happen

MessageKinds == {"task", "invalid", "undecodable"}
DesiredStates == {"RUNNING", "PAUSED", "DRAINING", "STOPPED"}
ActualStates == {"RUNNING", "PAUSED", "STOPPED"}
Kinds == {"redis", "db", "kafka", "crash", "evict", "expire", "control"}

\* What _consume_one knows of the record it holds.
Jobs ==
  [part : Partitions, off : Nat, attempt : 1 .. MaxRetries,
   beat : BOOLEAN,     \* the handler was passed the heartbeat callback
   value : BOOLEAN]    \* the exception under way is a TypeError or ValueError

ASSUME PipelineAssumption ==
  /\ Log \in [Partitions -> Seq([kind : MessageKinds, task : Tasks])]
  /\ MaxRetries \in Nat \ {0}
  /\ StopExits \in BOOLEAN
  /\ InitialDesired \subseteq DesiredStates
  /\ Budget \in [Kinds -> Nat]
  /\ NONE \notin Jobs /\ NONE \notin ActualStates

VARIABLES
  pc,         \* pc[w]: the next external call of w
  seen,       \* seen[w]: the desired state w read last
  job,        \* job[w]: the record w holds between poll() and the end of commit(), or NONE
  desired,    \* the cluster's desired state (WorkerControlState in Redis)
  reg,        \* reg[w]: actual_state in w's registry row, or NONE when there is no row
  budget,     \* what is left of Budget
  settled,    \* history: settled[p], the offsets some worker gave a final_status
  late        \* history: records w has taken since the desired state last left RUNNING

loopVars == <<pc, seen, job>>
histVars == <<settled, late>>
vars == <<groupVars, storeVars, loopVars, desired, reg, budget, histVars>>

HandlerPcs == {"begin", "clear", "analyse", "timeline", "snapshot", "stat",
               "indicator", "success", "finished", "failing"}
BusyPcs == HandlerPcs \cup {"claim", "commit", "reject"}
GonePcs == {"dead", "exited"}
Pcs == BusyPcs \cup GonePcs \cup {"top", "report", "poll", "release", "after", "wrapup"}

LoopTypeOK ==
  /\ pc \in [Workers -> Pcs]
  /\ seen \in [Workers -> DesiredStates]
  /\ job \in [Workers -> Jobs \cup {NONE}]
  /\ \A w \in Workers :
       /\ pc[w] \in BusyPcs <=> job[w] # NONE
       /\ job[w] # NONE => job[w].off < Len(Log[job[w].part])

SharedTypeOK ==
  /\ desired \in DesiredStates
  /\ reg \in [Workers -> ActualStates \cup {NONE}]
  /\ budget \in [Kinds -> Nat]
  /\ settled \in [Partitions -> SUBSET Nat]
  /\ late \in [Workers -> Nat]

TypeOK == GroupTypeOK /\ StoreTypeOK /\ LoopTypeOK /\ SharedTypeOK

Init ==
  /\ GroupInit
  /\ StoreInit
  /\ pc = [w \in Workers |-> "top"]
  /\ seen = [w \in Workers |-> "PAUSED"]
  /\ job = [w \in Workers |-> NONE]
  /\ desired \in InitialDesired
  /\ reg = [w \in Workers |-> NONE]
  /\ budget = Budget
  /\ settled = [p \in Partitions |-> {}]
  /\ late = [w \in Workers |-> 0]

-----------------------------------------------------------------------------
(* Helpers                                                                 *)

Spend(kind) ==
  /\ budget[kind] > 0
  /\ budget' = [budget EXCEPT ![kind] = @ - 1]

At(w, label) == pc[w] = label

Goto(w, label) ==
  /\ pc' = [pc EXCEPT ![w] = label]
  /\ UNCHANGED <<seen, job>>

\* An exception leaves run_forever: nothing catches it, the process ends.
Die(w) ==
  /\ pc' = [pc EXCEPT ![w] = "dead"]
  /\ job' = [job EXCEPT ![w] = NONE]
  /\ UNCHANGED seen

Heartbeat(w, state) == reg' = [reg EXCEPT ![w] = state]

TaskOf(w) == Record(job[w].part, job[w].off).task

\* _consume_one logs a final status for the record in hand.
Settle(p, o) == settled' = [settled EXCEPT ![p] = @ \cup {o}]

AtPoll == {w \in Workers : pc[w] = "poll"}

-----------------------------------------------------------------------------
(* run_once and run_forever                                                *)

\* The desired state is read before anything else.
ReadControl(w) ==
  /\ At(w, "top")
  /\ pc' = [pc EXCEPT ![w] = "report"]
  /\ seen' = [seen EXCEPT ![w] = desired]
  /\ UNCHANGED <<groupVars, storeVars, job, desired, reg, budget, histVars>>

\* The heartbeat of the state just read.  PAUSED and DRAINING both report
\* PAUSED and skip the poll; STOPPED may end the process.
ActualFor(state) == IF state = "DRAINING" THEN "PAUSED" ELSE state

\* Broken: DRAINING is not among the states that skip the poll.
ReportDrainPolls(w) ==
  /\ At(w, "report")
  /\ Heartbeat(w, ActualFor(seen[w]))
  /\ Goto(w, CASE seen[w] \in {"RUNNING", "DRAINING"} -> "poll"
               [] seen[w] = "STOPPED" /\ StopExits -> "exited"
               [] OTHER -> "top")
  /\ UNCHANGED <<groupVars, storeVars, desired, budget, histVars>>

\* Broken: no heartbeat before the poll.
ReportOnlyQuiet(w) ==
  /\ At(w, "report")
  /\ IF seen[w] = "RUNNING" THEN UNCHANGED reg ELSE Heartbeat(w, ActualFor(seen[w]))
  /\ Goto(w, CASE seen[w] = "RUNNING" -> "poll"
               [] seen[w] = "STOPPED" /\ StopExits -> "exited"
               [] OTHER -> "top")
  /\ UNCHANGED <<groupVars, storeVars, desired, budget, histVars>>

Report(w) ==
  /\ At(w, "report")
  /\ Heartbeat(w, ActualFor(seen[w]))
  /\ Goto(w, CASE seen[w] = "RUNNING" -> "poll"
               [] seen[w] = "STOPPED" /\ StopExits -> "exited"
               [] OTHER -> "top")
  /\ UNCHANGED <<groupVars, storeVars, desired, budget, histVars>>

\* After _consume_one the desired state is read once more ...
ReadControlAgain(w) ==
  /\ At(w, "after")
  /\ pc' = [pc EXCEPT ![w] = "wrapup"]
  /\ seen' = [seen EXCEPT ![w] = desired]
  /\ UNCHANGED <<groupVars, storeVars, job, desired, reg, budget, histVars>>

\* ... and reported: here PAUSED still reports RUNNING until the next run_once.
ActualAfter(state) ==
  CASE state = "DRAINING" -> "PAUSED"
    [] state = "STOPPED" -> "STOPPED"
    [] OTHER -> "RUNNING"

\* Broken: a busy worker polls on without a new run_once.
WrapupPollsOn(w) ==
  /\ At(w, "wrapup")
  /\ Heartbeat(w, ActualAfter(seen[w]))
  /\ Goto(w, IF ActualAfter(seen[w]) = "RUNNING" THEN "poll" ELSE "top")
  /\ UNCHANGED <<groupVars, storeVars, desired, budget, histVars>>

Wrapup(w) ==
  /\ At(w, "wrapup")
  /\ Heartbeat(w, ActualAfter(seen[w]))
  /\ Goto(w, IF seen[w] = "STOPPED" /\ StopExits THEN "exited" ELSE "top")
  /\ UNCHANGED <<groupVars, storeVars, desired, budget, histVars>>

\* A Redis call outside the attempt loop raises, and with it the process dies.
RedisFault(w) ==
  /\ pc[w] \in {"top", "report", "claim", "release", "after", "wrapup"}
  /\ Spend("redis")
  /\ Die(w)
  /\ UNCHANGED <<groupVars, storeVars, desired, reg, histVars>>

-----------------------------------------------------------------------------
(* _consume_one: one record                                                *)

\* poll() times out without a record.
PollEmpty(w) ==
  /\ At(w, "poll")
  /\ ~RebalancePending(AtPoll)
  /\ Goto(w, "after")
  /\ UNCHANGED <<groupVars, storeVars, desired, reg, budget, histVars>>

NewJob(p) ==
  [part |-> p, off |-> position[p], attempt |-> 1, beat |-> TRUE, value |-> FALSE]

\* poll() returns a record and _parse_message looks at it.  A valid task goes
\* on to the attempt loop, an InvalidTaskMessage is settled as rejected, any
\* other decoding error escapes _consume_one and kills the process.
PollRecord(w, p) ==
  /\ At(w, "poll")
  /\ ~RebalancePending(AtPoll)
  /\ Take(w, p)
  /\ late' = [late EXCEPT ![w] = IF desired = "RUNNING" THEN @ ELSE @ + 1]
  /\ LET kind == Record(p, position[p]).kind
     IN  \/ /\ kind = "task"
            /\ pc' = [pc EXCEPT ![w] = "claim"]
            /\ job' = [job EXCEPT ![w] = NewJob(p)]
            /\ UNCHANGED <<seen, settled>>
         \/ /\ kind = "invalid"
            /\ pc' = [pc EXCEPT ![w] = "reject"]
            /\ job' = [job EXCEPT ![w] = NewJob(p)]
            /\ Settle(p, position[p])
            /\ UNCHANGED seen
         \/ /\ kind = "undecodable"
            /\ Die(w)
            /\ UNCHANGED settled
  /\ UNCHANGED <<storeVars, desired, reg, budget>>

\* Broken: the offset is committed before the handler runs.
ClaimCommits(w) ==
  /\ At(w, "claim")
  /\ Heartbeat(w, "RUNNING")
  /\ Goto(w, "begin")
  /\ CommitAll(w)
  /\ UNCHANGED <<storeVars, desired, budget, histVars>>

\* The heartbeat that names the task in hand.
Claim(w) ==
  /\ At(w, "claim")
  /\ Heartbeat(w, "RUNNING")
  /\ Goto(w, "begin")
  /\ UNCHANGED <<groupVars, storeVars, desired, budget, histVars>>

\* How a commit ends: it is stored and the loop goes on at label; the member
\* was put out of the group (CommitFailedError); or the connection breaks
\* before or after the broker stored it.  Both errors kill the process.
CommitEnds(w, Stored, label) ==
  \/ /\ Stored
     /\ pc' = [pc EXCEPT ![w] = label]
     /\ job' = [job EXCEPT ![w] = NONE]
     /\ UNCHANGED <<seen, budget>>
  \/ /\ w \notin members
     /\ Die(w)
     /\ UNCHANGED <<groupVars, budget>>
  \/ /\ Spend("kafka")
     /\ Die(w)
     /\ Stored \/ UNCHANGED groupVars

\* consumer.commit() after the last attempt.
Commit(w) ==
  /\ At(w, "commit")
  /\ CommitEnds(w, CommitAll(w), "release")
  /\ UNCHANGED <<storeVars, desired, reg, histVars>>

\* Broken: an invalid record is skipped without committing it.
RejectSkips(w) ==
  /\ At(w, "reject")
  /\ pc' = [pc EXCEPT ![w] = "after"]
  /\ job' = [job EXCEPT ![w] = NONE]
  /\ UNCHANGED <<groupVars, storeVars, seen, desired, reg, budget, histVars>>

\* _commit_message_offset of an invalid record.
Reject(w) ==
  /\ At(w, "reject")
  /\ CommitEnds(w, CommitOne(w, job[w].part, job[w].off + 1), "after")
  /\ UNCHANGED <<storeVars, desired, reg, histVars>>

\* The heartbeat without a task.
Release(w) ==
  /\ At(w, "release")
  /\ Heartbeat(w, "RUNNING")
  /\ Goto(w, "after")
  /\ UNCHANGED <<groupVars, storeVars, desired, budget, histVars>>

-----------------------------------------------------------------------------
(* process_task, and the attempt loop around it                            *)

\* The handler raises: process_task's except branch is next.
Raise(w, isValueError) ==
  /\ pc' = [pc EXCEPT ![w] = "failing"]
  /\ job' = [job EXCEPT ![w].value = isValueError]
  /\ UNCHANGED seen

\* A database transaction with effect Effect: it commits and the handler goes
\* on at label, or it raises, and the server has applied it or rolled it back.
Transaction(w, Effect, label) ==
  \/ /\ Effect
     /\ Goto(w, label)
     /\ UNCHANGED budget
  \/ /\ Spend("db")
     /\ Effect \/ UNCHANGED storeVars
     /\ Raise(w, FALSE)

Begin(w) ==
  /\ At(w, "begin")
  /\ Transaction(w, MarkRunning(TaskOf(w), w), "clear")
  /\ UNCHANGED <<groupVars, desired, reg, histVars>>

Clear(w) ==
  /\ At(w, "clear")
  /\ Transaction(w, ClearPreviousResults(TaskOf(w)), "analyse")
  /\ UNCHANGED <<groupVars, desired, reg, histVars>>

\* Videos, frames, TIAS batches and snapshot files.  The heartbeat callback
\* keeps the registry row alive.  Every part of it may raise.
Analyse(w) ==
  /\ At(w, "analyse")
  /\ \/ /\ Goto(w, "timeline")
        /\ IF job[w].beat THEN Heartbeat(w, "RUNNING") ELSE UNCHANGED reg
     \/ /\ \E isValueError \in IF job[w].beat THEN BOOLEAN ELSE {FALSE} :
             Raise(w, isValueError)
        /\ UNCHANGED reg
  /\ UNCHANGED <<groupVars, storeVars, desired, budget, histVars>>

\* The four writes of the results; rows handed over empty open no transaction.
WriteOrder == [timeline |-> "snapshot", snapshot |-> "stat",
               stat |-> "indicator", indicator |-> "success"]

WriteRows(w, b) ==
  /\ At(w, b)
  /\ \E ks \in RowsOf(b) :
       \/ /\ ks = {}
          /\ Goto(w, WriteOrder[b])
          /\ UNCHANGED <<storeVars, budget>>
       \/ /\ ks # {}
          /\ Transaction(w, UpsertRows(b, TaskOf(w), w, ks), WriteOrder[b])
  /\ UNCHANGED <<groupVars, desired, reg, histVars>>

Success(w) ==
  /\ At(w, "success")
  /\ Transaction(w, MarkFinal(TaskOf(w), w, "success"), "finished")
  /\ UNCHANGED <<groupVars, desired, reg, histVars>>

\* The last heartbeat is inside the handler's try: when Redis fails here, the
\* run that is already marked successful is treated as failed.
Finish(w) ==
  /\ At(w, "finished")
  /\ \/ /\ Goto(w, "commit")
        /\ IF job[w].beat THEN Heartbeat(w, "RUNNING") ELSE UNCHANGED reg
        /\ Settle(job[w].part, job[w].off)
        /\ UNCHANGED budget
     \/ /\ job[w].beat
        /\ Spend("redis")
        /\ Raise(w, FALSE)
        /\ UNCHANGED <<reg, settled>>
  /\ UNCHANGED <<groupVars, storeVars, desired, late>>

\* Broken: _call_handler tries the call with the heartbeat again and again.
RetryWithBeat(w, attempt, beat) ==
  /\ pc' = [pc EXCEPT ![w] = "begin"]
  /\ job' = [job EXCEPT ![w].attempt = attempt, ![w].beat = TRUE, ![w].value = FALSE]
  /\ UNCHANGED <<seen, settled>>

\* The except branch: mark_workflow_failed, whose own failure is only logged.
\* Then _call_handler runs the handler again without the heartbeat when the
\* exception is a TypeError or ValueError of the call with it; any other
\* exception ends the attempt, and the last attempt settles the record.
Retry(w, attempt, beat) ==
  /\ pc' = [pc EXCEPT ![w] = "begin"]
  /\ job' = [job EXCEPT ![w].attempt = attempt, ![w].beat = beat, ![w].value = FALSE]
  /\ UNCHANGED <<seen, settled>>

\* Broken: the attempt limit is off by one.
FailOneMore(w) ==
  /\ At(w, "failing")
  /\ MarkFinal(TaskOf(w), w, "failed")
  /\ \/ /\ job[w].attempt <= MaxRetries
        /\ Retry(w, job[w].attempt + 1, TRUE)
     \/ /\ job[w].attempt > MaxRetries
        /\ Goto(w, "commit")
        /\ Settle(job[w].part, job[w].off)
  /\ UNCHANGED <<groupVars, desired, reg, budget, late>>

\* Broken: a failed record is given up without committing it.
FailSkipsCommit(w) ==
  /\ At(w, "failing")
  /\ MarkFinal(TaskOf(w), w, "failed")
  /\ pc' = [pc EXCEPT ![w] = "release"]
  /\ job' = [job EXCEPT ![w] = NONE]
  /\ Settle(job[w].part, job[w].off)
  /\ UNCHANGED <<groupVars, seen, desired, reg, budget, late>>

\* Broken: the except branch leaves the workflow row alone.
FailKeepsStatus(w) ==
  /\ At(w, "failing")
  /\ Goto(w, "commit")
  /\ Settle(job[w].part, job[w].off)
  /\ UNCHANGED <<groupVars, storeVars, desired, reg, budget, late>>

Fail(w) ==
  /\ At(w, "failing")
  /\ \/ MarkFinal(TaskOf(w), w, "failed") /\ UNCHANGED budget
     \/ Spend("db") /\ (MarkFinal(TaskOf(w), w, "failed") \/ UNCHANGED storeVars)
  /\ LET again == job[w].beat /\ job[w].value
         last == job[w].attempt >= MaxRetries
     IN  \/ again /\ Retry(w, job[w].attempt, FALSE)
         \/ ~again /\ ~last /\ Retry(w, job[w].attempt + 1, TRUE)
         \/ ~again /\ last /\ Goto(w, "commit") /\ Settle(job[w].part, job[w].off)
  /\ UNCHANGED <<groupVars, desired, reg, late>>

-----------------------------------------------------------------------------
(* What happens to a worker from outside                                   *)

Crash(w) ==
  /\ pc[w] \notin GonePcs
  /\ Spend("crash")
  /\ Die(w)
  /\ UNCHANGED <<groupVars, storeVars, desired, reg, histVars>>

\* The supervisor starts the worker again, as a new group member.
Restart(w) ==
  /\ pc[w] \in GonePcs
  /\ w \notin members
  /\ pc' = [pc EXCEPT ![w] = "top"]
  /\ seen' = [seen EXCEPT ![w] = "PAUSED"]
  /\ UNCHANGED <<groupVars, storeVars, job, desired, reg, budget, histVars>>

SessionTimeout(w) ==
  /\ pc[w] \in GonePcs
  /\ Leave(w)
  /\ UNCHANGED <<storeVars, loopVars, desired, reg, budget, histVars>>

\* A paused worker does not poll, so max_poll_interval_ms puts it out.
LeaveWhilePaused(w) ==
  /\ pc[w] \in {"top", "report"}
  /\ seen[w] # "RUNNING"
  /\ Leave(w)
  /\ UNCHANGED <<storeVars, loopVars, desired, reg, budget, histVars>>

\* max_poll_interval_ms passes between two polls, most likely in the middle of
\* a long task: the worker goes on outside the group.
EvictSlow(w) ==
  /\ pc[w] \notin GonePcs \cup {"poll"}
  /\ Spend("evict")
  /\ Leave(w)
  /\ UNCHANGED <<storeVars, loopVars, desired, reg, histVars>>

\* The heartbeat's TTL runs out.
RowExpires(w) ==
  /\ reg[w] # NONE
  /\ Spend("expire")
  /\ Heartbeat(w, NONE)
  /\ UNCHANGED <<groupVars, storeVars, loopVars, desired, histVars>>

CompleteRebalance ==
  /\ Rebalance(AtPoll)
  /\ UNCHANGED <<storeVars, loopVars, desired, reg, budget, histVars>>

\* The API's resume, pause and drain endpoints.
SetDesired(state) ==
  /\ state # desired
  /\ Spend("control")
  /\ desired' = state
  /\ late' = IF desired = "RUNNING" THEN [w \in Workers |-> 0] ELSE late
  /\ UNCHANGED <<groupVars, storeVars, loopVars, reg, settled>>

-----------------------------------------------------------------------------
\* What a live worker does by itself.
WorkerStep(w) ==
  \/ ReadControl(w) \/ Report(w) \/ ReadControlAgain(w) \/ Wrapup(w)
  \/ PollEmpty(w) \/ (\E p \in Partitions : PollRecord(w, p))
  \/ Claim(w) \/ Commit(w) \/ Reject(w) \/ Release(w)
  \/ Begin(w) \/ Clear(w) \/ Analyse(w)
  \/ (\E b \in Tables : WriteRows(w, b))
  \/ Success(w) \/ Finish(w) \/ Fail(w)

Environment(w) ==
  \/ RedisFault(w) \/ Crash(w) \/ Restart(w) \/ SessionTimeout(w)
  \/ LeaveWhilePaused(w) \/ EvictSlow(w) \/ RowExpires(w)

Next ==
  \/ \E w \in Workers : WorkerStep(w) \/ Environment(w)
  \/ CompleteRebalance
  \/ \E state \in {"RUNNING", "PAUSED", "DRAINING"} : SetDesired(state)

Spec == Init /\ [][Next]_vars

\* Fairness.  run_forever never stops by itself, Kafka completes a rebalance
\* all members have joined, and its timeouts fire.  poll() may come back empty
\* any number of times but not forever while a record is there (the fetcher
\* rotates the partitions), hence SF.  Nothing restarts a dead worker.
Fairness ==
  /\ \A w \in Workers :
       /\ WF_vars(WorkerStep(w))
       /\ WF_vars(SessionTimeout(w))
       /\ WF_vars(LeaveWhilePaused(w))
       /\ \A p \in Partitions : SF_vars(PollRecord(w, p))
  /\ WF_vars(CompleteRebalance)

FairSpec == Spec /\ Fairness

-----------------------------------------------------------------------------
(* Safety                                                                  *)

\* No acknowledged record was lost: whatever crashes, evictions and failed
\* commits happen, the group's offset only passes records that some worker
\* finished handling or rejected (commit() is called after the attempt loop,
\* controlled_consumer.py:162, and _commit_message_offset after the error log).
NoLoss ==
  \A p \in Partitions : \A o \in 0 .. committed[p] - 1 : o \in settled[p]

\* An owner is a member, and its position is the committed offset, or one past
\* it while the owner holds that record or has died with it.
OwnerInv ==
  \A p \in Partitions :
    owner[p] # NONE =>
      /\ owner[p] \in members
      /\ \/ position[p] = committed[p]
         \/ /\ position[p] = committed[p] + 1
            /\ \/ pc[owner[p]] = "dead"
               \/ job[owner[p]] # NONE /\ job[owner[p]].part = p

\* A member holds the oldest unacknowledged record of a partition it owns; a
\* worker outside the group holds that one or one acknowledged since.  Nothing
\* is committed before its record is settled.
JobInv ==
  \A w \in Workers :
    job[w] # NONE =>
      /\ job[w].off <= committed[job[w].part]
      /\ w \in members =>
           /\ owner[job[w].part] = w
           /\ job[w].off = committed[job[w].part]
           /\ position[job[w].part] = job[w].off + 1
      /\ pc[w] \in {"commit", "reject"} => job[w].off \in settled[job[w].part]

\* Why commit() without arguments (controlled_consumer.py:162) is harmless
\* although it commits every assigned partition: a member's positions are at
\* the committed offsets but for the one record it holds.
PositionInv == OwnerInv /\ JobInv

\* The pipeline delivers as TaskDelivery promises: at least once, in order,
\* one settled record at a time and never backwards.
Delivery == INSTANCE TaskDelivery WITH acked <- committed

DeliverySpec == Delivery!Spec

\* A workflow marked successful shows the rows of the one run that marked it:
\* nothing of an earlier attempt, of a crashed worker or of a half-finished
\* run is left among them (clear_previous_results before the writes,
\* worker.py:52).  It needs every worker to stay in the group while it works.
SuccessIsWhole ==
  \A t \in Tasks :
    workflow[t].status = "success" =>
      /\ \A b \in Tables, k \in Keys : rows[b][t][k] \in {workflow[t].by, NONE}
      /\ \A k \in Indicators : rows["indicator"][t][k] = workflow[t].by

\* A task with no unacknowledged record has a final status: steps 8 and 9 of
\* app/RUNNING.md:253-261, mark success or failure, then commit the offset.
AcknowledgedIsFinal ==
  \A p \in Partitions : \A o \in 0 .. committed[p] - 1 :
    Record(p, o).kind = "task" =>
      \/ workflow[Record(p, o).task].status \in {"success", "failed"}
      \/ \E q \in Partitions : \E i \in committed[q] .. Len(Log[q]) - 1 :
           Record(q, i).task = Record(p, o).task

\* A worker whose registry row says PAUSED or STOPPED neither polls nor holds
\* a record, so an operator who drains and waits for it may stop the process
\* (the RUNNING heartbeat comes before the poll, controlled_consumer.py:69).
QuietReportIsTrue ==
  \A w \in Workers :
    reg[w] \in {"PAUSED", "STOPPED"} => job[w] = NONE /\ pc[w] # "poll"

\* Pausing, draining or stopping lets each worker take at most the one record
\* its poll was already going for (run_once reads the state before each poll).
PauseTakesAtMostOne == \A w \in Workers : late[w] <= 1

-----------------------------------------------------------------------------
(* Action properties                                                       *)

\* A workflow marked successful is never marked failed without a new run in
\* between: process_task marks success as its last write (worker.py:205).
SuccessStands ==
  [][\A t \in Tasks :
       workflow[t].status = "success" => workflow'[t].status # "failed"]_vars

-----------------------------------------------------------------------------
(* Liveness                                                                *)

\* Every record is acknowledged in the end, when the cluster stays RUNNING and
\* some worker stays alive: no retry loop, rebalance, eviction or invalid
\* message blocks a partition for ever.
EventuallyAcknowledged ==
  (/\ <>[](desired = "RUNNING")
   /\ \E w \in Workers : <>[](pc[w] \notin GonePcs))
  => <>(\A p \in Partitions : committed[p] = Len(Log[p]))

\* A drain completes: once DRAINING stays, every live worker ends up idle and
\* reports PAUSED, also one that was waiting for a rebalance.
DrainCompletes ==
  <>[](desired = "DRAINING")
  => <>[](\A w \in Workers :
            \/ pc[w] \in GonePcs
            \/ pc[w] \in {"top", "report"} /\ reg[w] = "PAUSED")

=============================================================================
