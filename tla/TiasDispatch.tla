---------------------------- MODULE TiasDispatch ----------------------------
(***************************************************************************)
(* One worker's remote analysis of a task: RemoteFrameAnalyzer sends the   *)
(* frames of each stream in batches, _dispatch tries a batch on instances  *)
(* that TiasScheduler picks from the registry in Redis, and the answers    *)
(* are collected by frame index.  The instances, their heartbeats and the  *)
(* other readers of the registry are the environment; other workers show   *)
(* in the load that heartbeats report.  pc is the next call of the worker: *)
(*                                                                         *)
(*   idle -> batch -> list -> read ... read -> post -> parse -> batch ...  *)
(*                            read -> drop -> read    the row is gone      *)
(*                            read -> retire -> read  it is expired        *)
(*                                             post -> list  another try   *)
(*                                                                         *)
(* and it ends in "done", or with the error that leaves the analyzer:      *)
(* "unavailable" (NoAvailableTiasInstance), "exhausted" (all tries used),  *)
(* "rejected" (a failure not worth a retry) or "broken" (anything else).   *)
(*                                                                         *)
(* Definitions headed "Broken" are slips a later change of the code could  *)
(* make; no action uses them.                                              *)
(***************************************************************************)
EXTENDS Naturals, FiniteSets

CONSTANTS
  Instances,    \* TIAS instances
  Serves,       \* Serves[i]: the streams i has the capability for
  MaxLoad,      \* max_concurrent_batches
  FrameCount,   \* FrameCount[s]: the number of frames of stream s
  BatchSize,    \* tias_batch_size
  MaxRetry,     \* tias_max_retry_per_batch
  Threshold,    \* circuit_breaker_failure_threshold
  Cooldown,     \* circuit_breaker_cooldown_seconds, in ticks
  Analyses,     \* bound: how many analyses the worker begins
  RowChanges,   \* bound: how often the registry changes by itself
  DOWN,         \* the report of an instance whose status is neither UP nor BUSY
  NONE

Streams == {"student", "teacher"}
Loads == 0 .. MaxLoad
Reports == Loads \cup {DOWN}

ASSUME DispatchAssumption ==
  /\ IsFiniteSet(Instances)
  /\ Serves \in [Instances -> SUBSET Streams]
  /\ MaxLoad \in Nat \ {0}
  /\ FrameCount \in [Streams -> Nat]
  /\ BatchSize \in Nat \ {0}
  /\ MaxRetry \in Nat
  /\ Threshold \in Nat \ {0}
  /\ Cooldown \in Nat \ {0}
  /\ Analyses \in Nat
  /\ RowChanges \in Nat
  /\ NONE \notin Instances /\ NONE \notin Nat /\ DOWN \notin Nat \cup {NONE}
  /\ NONE \notin [failures : Nat, age : Nat \cup {NONE}]

VARIABLES
  index, row, late,   \* the registry of instances, see HeartbeatRegistry; a row is a report
  pc,           \* the next call of the worker, or how the analysis ended
  stream,       \* the stream under analysis
  batch,        \* the number of the batch, from 1
  again,        \* the stream is analysed a second time, without the heartbeat
  results,      \* results[f]: the batch whose answer gave frame f its metric
  attempt,      \* _dispatch's attempt
  excluded,     \* excluded_instance_ids
  todo,         \* list_instances: the ids whose rows are still to be read
  found,        \* list_instances: the report of each instance read so far
  target,       \* the instance the call under way is about, or NONE
  answered,     \* the frame ids in the answer under way to the results
  reservations, \* TiasScheduler._reservations
  circuits,     \* TiasScheduler._circuits
  lead,         \* TiasScheduler._selection_counts, each less the smallest of them
  left,         \* what is left of Analyses
  changes,      \* what is left of RowChanges
  asked,        \* history: the instances the batch in hand was sent to
  down          \* history: the instances that have failed, or were not registered with room

registryVars == <<index, row, late>>
taskVars == <<stream, batch, again, results>>
tryVars == <<attempt, excluded, asked>>
listVars == <<todo, found>>
schedVars == <<reservations, circuits, lead>>
vars == <<registryVars, pc, taskVars, tryVars, listVars, target, answered, schedVars,
          left, changes, down>>

INSTANCE HeartbeatRegistry WITH Members <- Instances, Contents <- Reports

Ends == {"done", "unavailable", "exhausted", "rejected", "broken"}
Pcs == Ends \cup {"idle", "batch", "list", "read", "drop", "retire", "post", "parse"}

\* The frames of stream s are 0 .. FrameCount[s] - 1, cut into batches.
Frames(s) == 0 .. FrameCount[s] - 1
BatchOf(f) == f \div BatchSize + 1
Chunk(s, b) == {f \in Frames(s) : BatchOf(f) = b}

\* A circuit is absent (NONE), or counts failures; age is NONE until it opens,
\* and then the ticks since, as far as Cooldown.
Circuits == [failures : Nat, age : 0 .. Cooldown \cup {NONE}] \cup {NONE}
Elapsed(c) == c # NONE /\ c.age = Cooldown
Open(c) == c # NONE /\ c.age # NONE /\ c.age < Cooldown

TypeOK ==
  /\ RegistryTypeOK
  /\ pc \in Pcs
  /\ stream \in Streams
  /\ batch \in Nat
  /\ again \in BOOLEAN
  /\ results \in [Frames(stream) -> Nat \cup {NONE}]
  /\ attempt \in Nat
  /\ excluded \subseteq Instances
  /\ asked \subseteq Instances
  /\ todo \subseteq Instances
  /\ found \in [Instances -> Reports \cup {NONE}]
  /\ target \in Instances \cup {NONE}
  /\ target # NONE <=> pc \in {"drop", "retire", "post"}
  /\ answered \subseteq Nat \cup {NONE}
  /\ answered # {} => pc = "parse"
  /\ todo # {} => pc \in {"read", "drop", "retire"}
  /\ reservations \in [Instances -> Nat]
  /\ circuits \in [Instances -> Circuits]
  /\ lead \in [Instances -> Nat]
  /\ left \in Nat
  /\ down \subseteq Instances
  /\ changes \in Nat

\* The instances that are not registered with room for a batch.
NotReady == {i \in Instances : i \notin index \/ i \in late \/ row[i] \notin Loads \ {MaxLoad}}

NothingFound == [i \in Instances |-> NONE]
NoResult(s) == [f \in Frames(s) |-> NONE]

Init ==
  /\ index = Instances
  /\ row = [i \in Instances |-> 0]
  /\ late = {}
  /\ pc = "idle"
  /\ stream = "student" /\ batch = 1 /\ again = FALSE /\ results = NoResult("student")
  /\ attempt = 1 /\ excluded = {} /\ asked = {}
  /\ todo = {} /\ found = NothingFound
  /\ target = NONE
  /\ answered = {}
  /\ reservations = [i \in Instances |-> 0]
  /\ circuits = [i \in Instances |-> NONE]
  /\ lead = [i \in Instances |-> 0]
  /\ left = Analyses
  /\ changes = RowChanges
  /\ down = {}

-----------------------------------------------------------------------------
(* The stream loop: _call_batch_analyzer, analyze_student_frames and       *)
(* analyze_teacher_frames                                                  *)

StartStream(s, isAgain) ==
  /\ pc' = "batch"
  /\ stream' = s
  /\ batch' = 1
  /\ again' = isAgain
  /\ results' = NoResult(s)

\* process_task comes to the analysis of a task.
Begin ==
  /\ pc \in Ends \cup {"idle"}
  /\ left > 0
  /\ left' = left - 1
  /\ StartStream("student", FALSE)
  /\ UNCHANGED <<registryVars, tryVars, listVars, target, answered, schedVars, changes, down>>

\* Attempt n of _dispatch, when there is one.
Try(n) ==
  /\ attempt' = n
  /\ pc' = IF n <= MaxRetry THEN "list" ELSE "exhausted"

\* The next batch is built, the heartbeat sent and _dispatch called.
StartBatch ==
  /\ pc = "batch"
  /\ Chunk(stream, batch) # {}
  /\ Try(1)
  /\ excluded' = {} /\ asked' = {}
  /\ UNCHANGED <<registryVars, taskVars, listVars, target, answered, schedVars, left, changes, down>>

\* All batches are through: the teacher's frames follow the students'.
FinishStream ==
  /\ pc = "batch"
  /\ Chunk(stream, batch) = {}
  /\ \/ stream = "student" /\ StartStream("teacher", FALSE)
     \/ stream = "teacher" /\ pc' = "done" /\ UNCHANGED taskVars
  /\ UNCHANGED <<registryVars, tryVars, listVars, target, answered, schedVars, left, changes, down>>

\* Broken: the second run of a stream is caught like the first.
RerunForever ==
  /\ pc \in {"batch", "parse"}
  /\ StartStream(stream, FALSE)
  /\ answered' = {}
  /\ UNCHANGED <<registryVars, tryVars, listVars, target, schedVars, left, changes, down>>

\* A TypeError or ValueError (a heartbeat, a count that is no number):
\* _call_batch_analyzer starts the whole stream again, once, with no heartbeat.
Rerun ==
  /\ pc \in {"batch", "parse"}
  /\ ~again
  /\ StartStream(stream, TRUE)
  /\ answered' = {}
  /\ UNCHANGED <<registryVars, tryVars, listVars, target, schedVars, left, changes, down>>

-----------------------------------------------------------------------------
(* RedisTiasRegistry.list_instances                                        *)

\* SMEMBERS.
List ==
  /\ pc = "list"
  /\ pc' = "read"
  /\ todo' = index
  /\ found' = NothingFound
  /\ UNCHANGED <<registryVars, taskVars, tryVars, target, answered, schedVars, left, changes, down>>

\* GET of one row; a row that is gone or expired is purged next.
ReadRow(i) ==
  /\ pc = "read"
  /\ i \in todo
  /\ todo' = todo \ {i}
  /\ \/ /\ row[i] # NONE /\ i \notin late
        /\ found' = [found EXCEPT ![i] = row[i]]
        /\ UNCHANGED <<pc, target>>
     \/ /\ row[i] = NONE \/ i \in late
        /\ pc' = IF row[i] = NONE THEN "drop" ELSE "retire"
        /\ target' = i
        /\ UNCHANGED found
  /\ UNCHANGED <<registryVars, taskVars, tryVars, answered, schedVars, left, changes, down>>

\* SREM of a member without a row; unregister of one whose row is expired.
Purge ==
  /\ \/ pc = "drop" /\ DropFromIndex(target)
     \/ pc = "retire" /\ Unregister(target)
  /\ down' = down \cup NotReady'
  /\ pc' = "read"
  /\ target' = NONE
  /\ UNCHANGED <<taskVars, tryVars, listVars, answered, schedVars, left, changes>>

-----------------------------------------------------------------------------
(* TiasScheduler and _dispatch                                             *)

\* The instances whose circuit _is_schedulable comes to look at.
Examined == {i \in Instances :
  found[i] \in Loads /\ i \notin excluded \cup late /\ stream \in Serves[i]}

Load(i) == found[i] + reservations[i]

Candidates == {i \in Examined : ~Open(circuits[i]) /\ Load(i) < MaxLoad}

\* Broken: a circuit whose cooldown has passed is not forgotten.
KeepElapsed == UNCHANGED circuits

\* _is_circuit_open forgets a circuit when it finds the cooldown passed.
ForgetElapsed ==
  circuits' = [i \in Instances |->
    IF i \in Examined /\ Elapsed(circuits[i]) THEN NONE ELSE circuits[i]]

\* Broken: among equal loads the counts are not looked at.
BeforeByLoad(i, j) == Load(i) < Load(j)

\* _sort_key: the load decides, then how often an instance was selected before.
\* What comes after it, the latencies and at last the id, is left open here.
Before(i, j) == Load(i) < Load(j) \/ (Load(i) = Load(j) /\ lead[i] < lead[j])

\* One more selection of i.  Only how the counts compare matters, and they never
\* get less.
CountSelection(i) ==
  LET counts == [lead EXCEPT ![i] = @ + 1]
      least == CHOOSE n \in {counts[j] : j \in Instances} : \A j \in Instances : n <= counts[j]
  IN  lead' = [j \in Instances |-> counts[j] - least]

\* select_instance with all rows read.
Select ==
  /\ pc = "read"
  /\ todo = {}
  /\ ForgetElapsed
  /\ \/ /\ Candidates = {}
        /\ pc' = "unavailable"
        /\ UNCHANGED <<target, asked, reservations, lead>>
     \/ \E i \in Candidates :
          /\ \A j \in Candidates : ~Before(j, i)
          /\ pc' = "post"
          /\ target' = i
          /\ asked' = asked \cup {i}
          /\ reservations' = [reservations EXCEPT ![i] = @ + 1]
          /\ CountSelection(i)
  /\ found' = NothingFound
  /\ UNCHANGED <<registryVars, taskVars, attempt, excluded, todo, answered, left, changes, down>>

\* The finally of _dispatch.
Release ==
  /\ reservations' = [reservations EXCEPT ![target] = IF @ <= 1 THEN 0 ELSE @ - 1]
  /\ target' = NONE

RecordFailure(i) ==
  LET c == IF circuits[i] = NONE THEN [failures |-> 0, age |-> NONE] ELSE circuits[i]
      n == c.failures + 1
  IN  circuits' = [circuits EXCEPT ![i] =
                     [failures |-> n, age |-> IF n >= Threshold THEN 0 ELSE c.age]]

\* What an instance may answer: some frame ids of the stream, or an item
\* without one (NONE).
Answers == SUBSET (Frames(stream) \cup {NONE})

\* The instance answers in time: record_success.
Answer ==
  /\ pc = "post"
  /\ pc' = "parse"
  /\ answered' \in Answers
  /\ circuits' = [circuits EXCEPT ![target] = NONE]
  /\ Release
  /\ UNCHANGED <<registryVars, taskVars, tryVars, listVars, lead, left, changes, down>>

\* Broken: an instance that failed may be asked again.
RetryAnywhere ==
  /\ pc = "post"
  /\ RecordFailure(target)
  /\ down' = down \cup {target}
  /\ Release
  /\ Try(attempt + 1)
  /\ UNCHANGED <<registryVars, taskVars, excluded, asked, listVars, answered, lead, left, changes>>

\* A TiasHttpError that is retryable: try another instance.
FailRetryable ==
  /\ pc = "post"
  /\ RecordFailure(target)
  /\ down' = down \cup {target}
  /\ excluded' = excluded \cup {target}
  /\ Release
  /\ Try(attempt + 1)
  /\ UNCHANGED <<registryVars, taskVars, asked, listVars, answered, lead, left, changes>>

\* Broken: the reservation is given back by the retry only.
RejectKeepsReservation ==
  /\ pc = "post"
  /\ RecordFailure(target)
  /\ down' = down \cup {target}
  /\ target' = NONE
  /\ pc' = "rejected"
  /\ UNCHANGED <<registryVars, taskVars, tryVars, listVars, answered, reservations, lead, left, changes>>

\* One that is not: the batch is given up.
FailFatal ==
  /\ pc = "post"
  /\ RecordFailure(target)
  /\ down' = down \cup {target}
  /\ Release
  /\ pc' = "rejected"
  /\ UNCHANGED <<registryVars, taskVars, tryVars, listVars, answered, lead, left, changes>>

\* What TiasHttpClient._post may get: a status with a body that is JSON or not,
\* or NONE, when the request times out or breaks.
Replies == [status : {200, 404, 429, 503}, json : BOOLEAN] \cup {NONE}

\* Only a client error other than 429 is not worth another try.  A body that is
\* no JSON is: the JSONDecodeError of requests is a RequestException, which is
\* caught before the ValueError that was meant for it.
Refused(reply) == reply # NONE /\ reply.status \in 400 .. 499 \ {429}
Accepted(reply) == reply # NONE /\ reply.status < 400 /\ reply.json

Post ==
  \E reply \in Replies :
    \/ Accepted(reply) /\ Answer
    \/ Refused(reply) /\ FailFatal
    \/ ~Accepted(reply) /\ ~Refused(reply) /\ FailRetryable

\* Broken: _ensure_complete is left out.
ParsePartly ==
  /\ pc = "parse"
  /\ \/ /\ answered \subseteq Chunk(stream, batch)
        /\ results' = [f \in Frames(stream) |-> IF f \in answered THEN batch ELSE results[f]]
        /\ pc' = "batch"
        /\ batch' = batch + 1
     \/ /\ ~(answered \subseteq Chunk(stream, batch))
        /\ pc' = "broken"
        /\ UNCHANGED <<results, batch>>
  /\ answered' = {}
  /\ UNCHANGED <<registryVars, stream, again, tryVars, listVars, target, schedVars,
                 left, changes, down>>

\* The answer is read: every id must be of the batch (_find_frame), and every
\* frame of the batch must have its result (_ensure_complete).
Parse ==
  /\ pc = "parse"
  /\ \/ /\ answered = Chunk(stream, batch)
        /\ results' = [f \in Frames(stream) |-> IF f \in answered THEN batch ELSE results[f]]
        /\ pc' = "batch"
        /\ batch' = batch + 1
     \/ /\ answered # Chunk(stream, batch)
        /\ pc' = "broken"
        /\ UNCHANGED <<results, batch>>
  /\ answered' = {}
  /\ UNCHANGED <<registryVars, stream, again, tryVars, listVars, target, schedVars,
                 left, changes, down>>

\* Any other exception, from Redis for instance, leaves the analyzer.
Break ==
  /\ pc \notin Ends \cup {"idle"}
  /\ pc' = "broken"
  /\ IF pc = "post" THEN Release ELSE target' = NONE /\ UNCHANGED reservations
  /\ answered' = {} /\ todo' = {} /\ found' = NothingFound
  /\ UNCHANGED <<registryVars, taskVars, tryVars, circuits, lead, left, changes, down>>

-----------------------------------------------------------------------------
(* The instances, Redis and the clock                                      *)

\* The registry changes: POST /api/tias/instances/register or heartbeat, an
\* unregister, a TTL, a clock, or the purge of another reader.
RegistryChanges ==
  /\ changes > 0
  /\ changes' = changes - 1
  /\ \E i \in Instances :
       \/ \E report \in Reports : Upsert(i, report)
       \/ Unregister(i) \/ RowExpires(i) \/ RowTurnsLate(i) \/ DropFromIndex(i)
  /\ down' = down \cup NotReady'
  /\ UNCHANGED <<pc, taskVars, tryVars, listVars, target, answered, schedVars, left>>

Age(c) == IF Open(c) THEN [c EXCEPT !.age = @ + 1] ELSE c

Tick ==
  /\ circuits' = [i \in Instances |-> Age(circuits[i])]
  /\ UNCHANGED <<registryVars, pc, taskVars, tryVars, listVars, target, answered, reservations,
                 lead, left, changes, down>>

-----------------------------------------------------------------------------
WorkerStep ==
  \/ Begin \/ StartBatch \/ FinishStream \/ Rerun
  \/ List \/ (\E i \in Instances : ReadRow(i)) \/ Purge \/ Select
  \/ Post \/ Parse \/ Break

Next == WorkerStep \/ RegistryChanges \/ Tick

Spec == Init /\ [][Next]_vars

\* Fairness: the worker is one thread that always goes on, and a request ends
\* at the latest when it times out (tias_request_timeout_seconds).
FairSpec == Spec /\ WF_vars(WorkerStep)

-----------------------------------------------------------------------------
(* Properties                                                              *)

\* The scheduler's reservations are the request under way and nothing else:
\* no way out of _dispatch leaves one behind (remote_frame_analyzer.py:156),
\* which would make the instance look busy to this worker for ever.
ReservationsMatch ==
  \A i \in Instances : reservations[i] = IF pc = "post" /\ target = i THEN 1 ELSE 0

\* Every frame's metric comes from the answer to its own batch, and no batch
\* is left behind with a frame missing (remote_frame_analyzer.py:52-66).
ResultsAreWhole ==
  \A f \in Frames(stream) :
    /\ results[f] \in {NONE, BatchOf(f)}
    /\ BatchOf(f) < batch => results[f] = BatchOf(f)

\* An analysis only fails for want of an instance when each one that serves
\* the stream has given cause: a request to it failed, or it was not registered
\* with room at some time.  Given as many tries as instances, excluded ones and
\* open circuits never shut out one that works.
OneInstanceSuffices ==
  pc \in {"unavailable", "exhausted"} /\ MaxRetry >= Cardinality(Instances)
    => \A i \in Instances : stream \in Serves[i] => i \in down

\* A batch never goes again to an instance that already failed it: _dispatch
\* excludes it for the tries that are left (remote_frame_analyzer.py:141).
AsksOthers ==
  [][pc # "post" /\ pc' = "post" => target' \notin asked]_vars

\* The lazily kept circuits of TiasScheduler (opened_at compared with the
\* clock when an instance is looked at, scheduler.py:99-106) are the breaker
\* that closes by itself, and a request only goes out through a closed one.
Breaker(c) ==
  IF c = NONE \/ Elapsed(c) THEN [failures |-> 0, wait |-> 0]
  ELSE [failures |-> c.failures, wait |-> IF c.age = NONE THEN 0 ELSE Cooldown - c.age]

Circuit == INSTANCE CircuitBreaker WITH breaker <- [i \in Instances |-> Breaker(circuits[i])]

CircuitSpec == Circuit!Spec

\* An instance that always has room is not passed over twice for another one
\* that can do no more than it: the counts decide among equal loads, also after
\* failures, second runs and changes of the registry (scheduler.py:75-83).
\* With one batch per instance all that have room are equally loaded.
WorkIsShared ==
  MaxLoad = 1 =>
    \A i, j \in Instances :
      Serves[i] \subseteq Serves[j] /\ j \notin down => lead[i] <= lead[j] + 1

\* The batches, tries and second runs amount to the analysis process_task
\* counts on: student frames first, results in order, at most one new start of
\* a stream, and no end but with whole results or as a failure of the whole
\* (worker.py:109-150, 227-236; remote_frame_analyzer.py:45-97).
Phase == IF pc \in {"idle", "done"} THEN pc ELSE IF pc \in Ends THEN "failed" ELSE stream

Analysis == INSTANCE StreamAnalysis WITH
  phase <- Phase,
  got <- {f \in Frames(stream) : results[f] = BatchOf(f)}

AnalysisSpec == Analysis!Spec

\* Every analysis ends: in a result or in an error that the task's attempt
\* sees, whatever the instances answer and however the registry changes.
AnalysisEnds == pc \notin Ends \cup {"idle"} ~> pc \in Ends

=============================================================================
