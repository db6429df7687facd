--------------------------- MODULE LegacyConsumer ---------------------------
(***************************************************************************)
(* The older entry point `consume` of app/main.py, still supported:        *)
(* VisionOrchestratorKafkaConsumer.consume iterates over the consumer,     *)
(* calls process_task up to max_retries times and commits; an invalid      *)
(* message is marked failed in lesson_ai_workflow (handle_invalid_message) *)
(* and committed.  There is no desired state and no heartbeat.  The        *)
(* workers share the consumer group of ConsumerGroup, and the files of one *)
(* host (TaskFiles).  pc[w] is the next call of w:                         *)
(*                                                                         *)
(*   next -> invalid -> commit -> next                                     *)
(*   next -> begin -> clear -> open -> load -> open -> load                *)
(*        -> read -> read -> save -> write -> success -> remove -> commit  *)
(*                                                                         *)
(* A call of process_task that fails goes on with "failed" -> "remove",    *)
(* and then with "begin" again or with the commit; a worker is "dead" once *)
(* an exception has left consume.  The analysis between the frames and the *)
(* snapshots is TiasDispatch and LessonAnalysis, the single writes to the  *)
(* database are those of TaskPipeline.                                     *)
(*                                                                         *)
(* Definitions headed "Broken" are slips a later change of the code could  *)
(* make; no action uses them.                                              *)
(***************************************************************************)
EXTENDS ConsumerGroup, TaskFiles, FiniteSets

CONSTANTS
  MaxRetries,   \* max_retries: handler calls per record
  MaxFaults     \* bound: how many of the Faults may happen, each once

Faults == {"db", "kafka", "crash", "evict"}

Jobs == [part : Partitions, off : Nat, attempt : 1 .. MaxRetries]

ASSUME LegacyAssumption ==
  /\ Log \in [Partitions -> Seq(Payloads)]
  /\ MaxRetries \in Nat \ {0}
  /\ MaxFaults \in Nat
  /\ NONE \notin Jobs /\ "whole" \notin Workers /\ NONE # "whole"

VARIABLES
  pc,         \* pc[w]: the next call of w
  job,        \* job[w]: the record w holds, or NONE
  run,        \* run[w]: the call of process_task w is in, or NoRun
  workflow,   \* workflow[r]: the status in row r of lesson_ai_workflow
  shown,      \* shown[t]: the snapshots that lesson_snapshot_event rows of t point to
  faults,     \* the Faults that have happened
  marked,     \* history: the <<p, o, r>> of records that marked row r failed as invalid
  settled,    \* history: settled[p], the offsets some worker is through with
  orphans     \* history: the tasks a worker died on, or whose directory it could not
              \* remove, since the last removal that did all its work

runVars == <<run, fileVars, workflow, shown>>
loopVars == <<pc, job>>
histVars == <<marked, settled, orphans>>
vars == <<groupVars, loopVars, runVars, faults, histVars>>

\* Rows are named by task ids as they are written.
Records == UNION {{Log[p][i] : i \in DOMAIN Log[p]} : p \in Partitions}
RowNames == {Plain(t) : t \in Tasks} \cup ({InvalidRow(r) : r \in Records} \ {Null})

\* video: the next one to fetch or read.  ok: mark_workflow_success returned.
\* chosen: the snapshots saved.  History: alone, no other run of the task was
\* under way since this one began; exact, every frame came from a whole file.
NoRun == [video |-> "student", ok |-> FALSE, chosen |-> {}, alone |-> TRUE, exact |-> TRUE]

InTry == {"begin", "clear", "open", "load", "read", "save", "write", "success"}
InRun == InTry \cup {"failed", "remove"}

TypeOK ==
  /\ GroupTypeOK
  /\ FilesTypeOK
  /\ pc \in [Workers -> {"next", "invalid", "commit", "dead"} \cup InRun]
  /\ job \in [Workers -> Jobs \cup {NONE}]
  /\ run \in [Workers -> [video : Videos, ok : BOOLEAN, chosen : SUBSET Images,
                          alone : BOOLEAN, exact : BOOLEAN]]
  /\ \A w \in Workers : job[w] = NONE <=> pc[w] \in {"next", "dead"}
  /\ \A w \in Workers : pc[w] \notin InRun => run[w] = NoRun
  /\ workflow \in [RowNames -> {"absent", "running", "success", "failed"}]
  /\ shown \in [Tasks -> SUBSET Images]
  /\ faults \subseteq Faults
  /\ marked \subseteq Partitions \X Nat \X RowNames
  /\ settled \in [Partitions -> SUBSET Nat]
  /\ orphans \subseteq Tasks

Init ==
  /\ GroupInit
  /\ FilesInit
  /\ pc = [w \in Workers |-> "next"]
  /\ job = [w \in Workers |-> NONE]
  /\ run = [w \in Workers |-> NoRun]
  /\ workflow = [r \in RowNames |-> "absent"]
  /\ shown = [t \in Tasks |-> {}]
  /\ faults = {}
  /\ marked = {}
  /\ settled = [p \in Partitions |-> {}]
  /\ orphans = {}

Fault(kind) ==
  /\ kind \notin faults
  /\ Cardinality(faults) < MaxFaults
  /\ faults' = faults \cup {kind}

Goto(w, label) ==
  /\ pc' = [pc EXCEPT ![w] = label]
  /\ UNCHANGED job

Drop(w, label) ==
  /\ pc' = [pc EXCEPT ![w] = label]
  /\ job' = [job EXCEPT ![w] = NONE]

Die(w) == Drop(w, "dead")

Settle(w) == settled' = [settled EXCEPT ![job[w].part] = @ \cup {job[w].off}]

AtPoll == {w \in Workers : pc[w] = "next"}

Held(w) == Record(job[w].part, job[w].off)
Task(w) == TaskOf(Held(w))
Source(w) == VideoOf(Held(w), run[w].video)

\* The workers that are in a run of t.
RunsOf(t) == {x \in Workers : pc[x] \in InRun /\ Task(x) = t}

\* w's run of t begins, next to those that are under way.
Join(w, t) ==
  run' = [x \in Workers |->
            IF x = w THEN [NoRun EXCEPT !.alone = RunsOf(t) \ {w} = {}]
            ELSE IF x \in RunsOf(t) THEN [run[x] EXCEPT !.alone = FALSE] ELSE run[x]]

-----------------------------------------------------------------------------
(* consume                                                                 *)

\* The iterator yields a record, and _parse_message looks at it.
NextRecord(w, p) ==
  /\ pc[w] = "next"
  /\ ~RebalancePending(AtPoll)
  /\ Take(w, p)
  /\ LET payload == Record(p, position[p])
     IN  \/ payload.is = "undecodable" /\ Die(w) /\ UNCHANGED run
         \/ /\ payload.is # "undecodable"
            /\ job' = [job EXCEPT ![w] = [part |-> p, off |-> position[p], attempt |-> 1]]
            /\ \/ /\ IsTask(payload)
                  /\ pc' = [pc EXCEPT ![w] = "begin"]
                  /\ Join(w, TaskOf(payload))
               \/ /\ ~IsTask(payload)
                  /\ pc' = [pc EXCEPT ![w] = "invalid"]
                  /\ UNCHANGED run
  /\ UNCHANGED <<fileVars, workflow, shown, faults, histVars>>

SetRow(r, status) == workflow' = [workflow EXCEPT ![r] = status]

\* mark_workflow_failed of row r, for the invalid record w holds.
Mark(w, r) ==
  /\ SetRow(r, "failed")
  /\ marked' = marked \cup {<<job[w].part, job[w].off, r>>}

\* Broken: a failing mark_workflow_failed is only logged, as process_task does.
MarkInvalidQuietly(w) ==
  LET r == InvalidRow(Held(w))
  IN  /\ pc[w] = "invalid"
      /\ \/ r # Null /\ Mark(w, r) /\ UNCHANGED faults
         \/ r = Null /\ UNCHANGED <<workflow, marked, faults>>
         \/ r # Null /\ Fault("db") /\ (Mark(w, r) \/ UNCHANGED <<workflow, marked>>)
      /\ Goto(w, "commit")
      /\ Settle(w)
      /\ UNCHANGED <<groupVars, run, fileVars, shown, orphans>>

\* handle_invalid_message: mark_workflow_failed of the task the message names,
\* if it names one.  A database error is not caught: the process dies with the
\* record unacknowledged, whether the row was written or not.
MarkInvalid(w) ==
  LET r == InvalidRow(Held(w))
  IN  /\ pc[w] = "invalid"
      /\ \/ /\ \/ r # Null /\ Mark(w, r)
               \/ r = Null /\ UNCHANGED <<workflow, marked>>
            /\ Goto(w, "commit")
            /\ Settle(w)
            /\ UNCHANGED faults
         \/ /\ r # Null
            /\ Fault("db")
            /\ Mark(w, r) \/ UNCHANGED <<workflow, marked>>
            /\ Die(w)
            /\ UNCHANGED settled
      /\ UNCHANGED <<groupVars, run, fileVars, shown, orphans>>

\* commit() of all positions: stored; refused because the member was put out of
\* the group; or cut off, before or after the broker stored it.
Commit(w) ==
  /\ pc[w] = "commit"
  /\ \/ CommitAll(w) /\ Drop(w, "next") /\ UNCHANGED faults
     \/ w \notin members /\ Die(w) /\ UNCHANGED <<groupVars, faults>>
     \/ Fault("kafka") /\ Die(w) /\ (CommitAll(w) \/ UNCHANGED groupVars)
  /\ UNCHANGED <<runVars, histVars>>

-----------------------------------------------------------------------------
(* process_task                                                            *)

\* mark_workflow_running.
Begin(w) ==
  /\ pc[w] = "begin"
  /\ SetRow(Plain(Task(w)), "running")
  /\ Goto(w, "clear")
  /\ UNCHANGED <<groupVars, run, fileVars, shown, faults, histVars>>

\* clear_previous_results, and the directory is made.
Clear(w) ==
  /\ pc[w] = "clear"
  /\ shown' = [shown EXCEPT ![Task(w)] = {}]
  /\ MakeDir(Task(w))
  /\ Goto(w, "open")
  /\ UNCHANGED <<groupVars, run, workflow, faults, histVars>>

\* The other video is next, or what comes after both.
NextVideo(w, label, after) ==
  \/ /\ run[w].video = "student"
     /\ run' = [run EXCEPT ![w].video = "teacher"]
     /\ Goto(w, label)
  \/ /\ run[w].video = "teacher"
     /\ run' = [run EXCEPT ![w].video = "student"]
     /\ Goto(w, after)

\* validate_video_source of the slides, and prepare_video_source: a URL is
\* opened for download, a path is used where it is.
OpenVideo(w) ==
  /\ pc[w] = "open"
  /\ VideoOf(Held(w), "slides") # "noFile"
  /\ \/ /\ Source(w) = "url"
        /\ OpenFile(Task(w), run[w].video, w)
        /\ Goto(w, "load")
        /\ UNCHANGED run
     \/ /\ Source(w) = "path"
        /\ NextVideo(w, "open", "read")
        /\ UNCHANGED fileVars
  /\ UNCHANGED <<groupVars, workflow, shown, faults, histVars>>

\* The download ends, and the size of the file is looked at.
LoadVideo(w) ==
  /\ pc[w] = "load"
  /\ CloseFile(Task(w), run[w].video, w)
  /\ NextVideo(w, "open", "read")
  /\ UNCHANGED <<groupVars, workflow, shown, faults, histVars>>

\* extract_frames of one video.  cv2 may read a file that is not whole too.
ReadVideo(w) ==
  /\ pc[w] = "read"
  /\ LET file == videos[Task(w)][run[w].video]
         exact == Source(w) = "path" \/ file = "whole"
     IN  /\ Source(w) = "url" => file # NONE
         /\ \/ /\ run[w].video = "student"
               /\ run' = [run EXCEPT ![w].video = "teacher", ![w].exact = @ /\ exact]
               /\ Goto(w, "read")
            \/ /\ run[w].video = "teacher"
               /\ run' = [run EXCEPT ![w].video = "student", ![w].exact = @ /\ exact]
               /\ Goto(w, "save")
  /\ UNCHANGED <<groupVars, fileVars, workflow, shown, faults, histVars>>

\* Broken: the result of cv2.imwrite is not looked at.
SaveUnchecked(w) ==
  /\ pc[w] = "save"
  /\ \E chosen \in SUBSET Images :
       /\ \E saved \in SUBSET chosen : SaveImages(Task(w), saved)
       /\ run' = [run EXCEPT ![w].chosen = chosen]
  /\ Goto(w, "write")
  /\ UNCHANGED <<groupVars, workflow, shown, faults, histVars>>

\* save_snapshot of every snapshot the analysis chose.
Save(w) ==
  /\ pc[w] = "save"
  /\ \E chosen \in SUBSET Images :
       /\ SaveImages(Task(w), chosen)
       /\ run' = [run EXCEPT ![w].chosen = chosen]
  /\ Goto(w, "write")
  /\ UNCHANGED <<groupVars, workflow, shown, faults, histVars>>

\* insert_snapshot_events, among the inserts of the results.
Write(w) ==
  /\ pc[w] = "write"
  /\ shown' = [shown EXCEPT ![Task(w)] = @ \cup run[w].chosen]
  /\ Goto(w, "success")
  /\ UNCHANGED <<groupVars, run, fileVars, workflow, faults, histVars>>

\* mark_workflow_success.
Succeed(w) ==
  /\ pc[w] = "success"
  /\ SetRow(Plain(Task(w)), "success")
  /\ run' = [run EXCEPT ![w].ok = TRUE]
  /\ Goto(w, "remove")
  /\ UNCHANGED <<groupVars, fileVars, shown, faults, histVars>>

\* What a call that raises may have done before: a COMMIT whose answer is
\* lost, some of the snapshots.
PartDone(w) ==
  \/ UNCHANGED <<fileVars, workflow, shown>>
  \/ /\ pc[w] = "success"
     /\ SetRow(Plain(Task(w)), "success")
     /\ UNCHANGED <<fileVars, shown>>
  \/ /\ pc[w] = "save"
     /\ \E saved \in SUBSET Images : SaveImages(Task(w), saved)
     /\ UNCHANGED <<workflow, shown>>
  \/ /\ pc[w] = "write"
     /\ \E chosen \in SUBSET run[w].chosen :
          shown' = [shown EXCEPT ![Task(w)] = @ \cup chosen]
     /\ UNCHANGED <<fileVars, workflow>>

\* Broken: the two calls before the directory is made are outside the try.
FailOutsideTry(w) ==
  /\ pc[w] \in InTry
  /\ PartDone(w)
  /\ Goto(w, IF pc[w] \in {"begin", "clear"} THEN "remove" ELSE "failed")
  /\ UNCHANGED <<groupVars, run, faults, histVars>>

\* Any call inside the try raises.
Fail(w) ==
  /\ pc[w] \in InTry
  /\ PartDone(w)
  /\ Goto(w, "failed")
  /\ UNCHANGED <<groupVars, run, faults, histVars>>

\* The except branch: mark_workflow_failed, whose own failure is only logged.
MarkFailed(w) ==
  /\ pc[w] = "failed"
  /\ \/ SetRow(Plain(Task(w)), "failed") /\ UNCHANGED faults
     \/ Fault("db") /\ UNCHANGED workflow
  /\ Goto(w, "remove")
  /\ UNCHANGED <<groupVars, run, fileVars, shown, histVars>>

\* The handler is called again with the same message.
Retry(w) ==
  /\ pc' = [pc EXCEPT ![w] = "begin"]
  /\ job' = [job EXCEPT ![w].attempt = @ + 1]
  /\ Join(w, Task(w))
  /\ UNCHANGED settled

\* The finally branch tries to remove the directory.  The history tells a
\* removal that failed from one that was never tried.
CleanUp(w) ==
  \/ EmptyDir(Task(w)) /\ orphans' = orphans \ {Task(w)}
  \/ KeepDir(Task(w)) /\ orphans' = orphans \cup {Task(w)}

\* Broken: the last failure of the handler leaves the loop with the record
\* unsettled, and uncommitted.
RemoveAndGiveUp(w) ==
  /\ pc[w] = "remove"
  /\ CleanUp(w)
  /\ \/ run[w].ok /\ Goto(w, "commit") /\ Settle(w) /\ run' = [run EXCEPT ![w] = NoRun]
     \/ ~run[w].ok /\ job[w].attempt < MaxRetries /\ Retry(w)
     \/ /\ ~run[w].ok /\ job[w].attempt >= MaxRetries
        /\ Drop(w, "next")
        /\ run' = [run EXCEPT ![w] = NoRun]
        /\ UNCHANGED settled
  /\ UNCHANGED <<groupVars, workflow, shown, faults, marked>>

\* Broken: the directory is only removed after a success.
RemoveAfterSuccess(w) ==
  /\ pc[w] = "remove"
  /\ IF run[w].ok THEN CleanUp(w) ELSE UNCHANGED <<fileVars, orphans>>
  /\ \/ /\ run[w].ok \/ job[w].attempt >= MaxRetries
        /\ Goto(w, "commit")
        /\ Settle(w)
        /\ run' = [run EXCEPT ![w] = NoRun]
     \/ ~run[w].ok /\ job[w].attempt < MaxRetries /\ Retry(w)
  /\ UNCHANGED <<groupVars, workflow, shown, faults, marked>>

\* The finally branch, and what consume does with the outcome of the handler,
\* which does not depend on the removal: the record is through, or the handler
\* is called once more.
Remove(w) ==
  /\ pc[w] = "remove"
  /\ CleanUp(w)
  /\ \/ /\ run[w].ok \/ job[w].attempt >= MaxRetries
        /\ Goto(w, "commit")
        /\ Settle(w)
        /\ run' = [run EXCEPT ![w] = NoRun]
     \/ ~run[w].ok /\ job[w].attempt < MaxRetries /\ Retry(w)
  /\ UNCHANGED <<groupVars, workflow, shown, faults, marked>>

ProcessTask(w) ==
  \/ Begin(w) \/ Clear(w) \/ OpenVideo(w) \/ LoadVideo(w) \/ ReadVideo(w)
  \/ Save(w) \/ Write(w) \/ Succeed(w) \/ Fail(w) \/ MarkFailed(w) \/ Remove(w)

-----------------------------------------------------------------------------
(* What happens to a worker from outside                                   *)

\* The process is killed between two calls, or inside one that writes or
\* removes.
Crash(w) ==
  /\ pc[w] # "dead"
  /\ Fault("crash")
  /\ Die(w)
  /\ run' = [run EXCEPT ![w] = NoRun]
  /\ orphans' = IF pc[w] \in InRun THEN orphans \cup {Task(w)} ELSE orphans
  /\ \/ pc[w] \in InTry /\ PartDone(w)
     \/ pc[w] = "remove" /\ RemoveDir(Task(w)) /\ UNCHANGED <<workflow, shown>>
     \/ pc[w] \notin InTry /\ UNCHANGED <<fileVars, workflow, shown>>
  /\ UNCHANGED <<groupVars, marked, settled>>

Restart(w) ==
  /\ pc[w] = "dead"
  /\ w \notin members
  /\ Goto(w, "next")
  /\ UNCHANGED <<groupVars, runVars, faults, histVars>>

SessionTimeout(w) ==
  /\ pc[w] = "dead"
  /\ Leave(w)
  /\ UNCHANGED <<loopVars, runVars, faults, histVars>>

\* max_poll_interval_ms passes while the worker is busy with a record.
EvictSlow(w) ==
  /\ pc[w] \in InRun \cup {"invalid", "commit"}
  /\ Fault("evict")
  /\ Leave(w)
  /\ UNCHANGED <<loopVars, runVars, histVars>>

CompleteRebalance ==
  /\ Rebalance(AtPoll)
  /\ UNCHANGED <<loopVars, runVars, faults, histVars>>

Next ==
  \/ \E w \in Workers :
       \/ (\E p \in Partitions : NextRecord(w, p))
       \/ ProcessTask(w) \/ MarkInvalid(w) \/ Commit(w)
       \/ Crash(w) \/ Restart(w) \/ SessionTimeout(w) \/ EvictSlow(w)
  \/ CompleteRebalance

Spec == Init /\ [][Next]_vars

-----------------------------------------------------------------------------
(* Properties                                                              *)

\* The older loop delivers as TaskDelivery promises too: at least once, in
\* order, one settled record at a time and never backwards.
Delivery == INSTANCE TaskDelivery WITH acked <- committed

LegacyDelivery == Delivery!Spec

\* An acknowledged invalid message has marked the task failed that
\* from_payload reads in it, unless that id is written with spaces around it:
\* handle_invalid_message looks the id up by itself, and its own failure keeps
\* the record (consumer.py:39-41, main.py:108-115).
InvalidIsRecorded ==
  \A p \in Partitions : \A o \in 0 .. committed[p] - 1 :
    LET payload == Record(p, o)
    IN  payload.is = "object" /\ IsInvalid(payload) =>
          LET id == FirstPresent(payload.ids)
          IN  id.is = "text" /\ ~id.padded => <<p, o, id>> \in marked

\* The row a record is about.
RowOf(payload) == IF IsTask(payload) THEN Plain(TaskOf(payload)) ELSE InvalidRow(payload)

\* The last record about a row decides what the row says in the end: a valid
\* one leaves a final status, and an invalid one "failed", also over a success
\* of the same task (consumer.py:28-78, worker.py:207-221).  An evicted worker
\* that goes on, and a database that fails while a failure is written, are
\* what it takes to change that.
LastRecordDecides ==
  faults \cap {"evict", "db"} = {} =>
    \A p \in Partitions : \A o \in 0 .. committed[p] - 1 :
      LET r == RowOf(Record(p, o))
          others == {q \in Partitions \ {p} : \E i \in DOMAIN Log[q] : RowOf(Log[q][i]) = r}
      IN  /\ r # Null /\ others = {}
          /\ \A i \in o + 2 .. Len(Log[p]) : RowOf(Log[p][i]) # r
          => workflow[r] \in IF IsTask(Record(p, o)) THEN {"success", "failed"} ELSE {"failed"}

\* Every snapshot that a row of lesson_snapshot_event points to is there,
\* whatever runs of the task fail, are repeated or run side by side
\* (worker.py:165-172 saves before 198 inserts, and nothing deletes images).
RowsHaveImages == \A t \in Tasks : shown[t] \subseteq images[t]

\* The downloads w has finished in its run.
Fetched(w) ==
  {v \in Videos : /\ VideoOf(Held(w), v) = "url"
                  /\ \/ pc[w] \in {"read", "save", "write", "success"}
                     \/ pc[w] \in {"open", "load"} /\ v = "student" /\ run[w].video = "teacher"}

\* The directory of a task is shared, yet a run is only disturbed by another
\* run of the same task, which takes an eviction: while there is none, its
\* videos stay whole until it is through with them, and every frame it
\* analyses is from a whole video.  What a crash or a removal that failed has
\* left of an earlier run does not get into it (worker.py:49-96, 221).
WholeVideos ==
  \A w \in Workers : pc[w] \in InRun /\ run[w].alone =>
    /\ run[w].exact
    /\ \A v \in Fetched(w) : videos[Task(w)][v] = "whole"

\* No way out of a run skips the removal of its directory, also when two runs
\* write and remove the same one.  A directory that no run is using was left by
\* a process that died or by a removal whose errors were ignored, and since then
\* no run of the task has removed it: there is no other way to leave one
\* (worker.py:220-221).
NothingLeftBehind ==
  \A t \in Tasks :
    t \in dirs \/ videos[t] # NoFiles =>
      t \in orphans \/ \E w \in Workers : pc[w] \in InRun /\ Task(w) = t

=============================================================================
