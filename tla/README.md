# Verification of the vision orchestrator

This directory holds TLA+ modules that model the class-room vision
orchestrator (`src/app`), the TLC runs that check them on small instances, and
proofs that TLAPS checks.  `PROJECT.json` lists components, runs, mutants,
findings, hazards and theorems, and maps definitions to source lines.

## 1. The system

Upstream services put one Kafka record per lesson on a topic.  Worker processes
share a consumer group, take one record at a time, analyse the lesson's videos
with remote TIAS inference instances, and write the results to MySQL.  API
processes keep a desired state (run, pause, drain) in Redis and list the workers
and TIAS instances that send heartbeats there.

| Component | State it keeps | Operations | Hard behaviour | Correct when |
|---|---|---|---|---|
| Controlled worker loop (`kafka/controlled_consumer.py`) | place in the loop, record in hand, attempt | run_once, _consume_one, commits, heartbeats | crashes, evictions, Redis and Kafka errors between any two calls | nothing is acknowledged unsettled; pause and drain take effect; its registry row is true |
| Task handler (`application/worker.py`) | temp dir | process_task | any step may fail; two rerun paths; errors while recording an error | an acknowledged task has a final status, a successful one whole results |
| Workflow store (`db/repositories.py`) | workflow status, four result tables | status updates, deletes, upserts | ambiguous commits, upserts over old rows | results of one run only |
| Consumer group (kafka-python, external) | members, assignment, positions, committed offsets | poll, commit, rebalance | eager rebalance, zombies | external code |
| Message validation (`kafka/message.py`) | none | from_payload | aliases, values Python takes for false, a second reading of the task id elsewhere | what is read and what is marked failed is one task |
| Legacy loop (`kafka/consumer.py`, `main.py`) | record in hand | consume, handle_invalid_message | the same crashes; no heartbeat | at-least-once delivery, invalid tasks recorded, the last record about a task decides |
| Files of a task (`media/video.py`, `snapshot_storage.py`) | temp directory, videos, snapshot images | download, extract, save, remove | runs of one task share a directory; a run may end anywhere | frames come from whole videos, rows point to images that are there, every run tries to remove its directory |
| Worker control (`worker_control.py`, API) | desired state and version in Redis | get_state, set_desired_state | read-modify-write in two calls | versions tell changes apart |
| Worker registry (`worker_registry.py`, API) | index set, a row with a TTL per worker | upsert, list_workers, get_worker | purges race with heartbeats, clock skew | answers are honest, live workers come back, dead ones go |
| TIAS registry (`tias/registry.py`, API) | the same for instances | upsert, unregister, list_instances | the same | as the worker registry |
| Scheduler, client and remote analyzer (`tias/scheduler.py`, `tias/client.py`, `vision/remote_frame_analyzer.py`) | reservations, circuits, selection counts, excluded instances, results by frame | select_instance, _dispatch, analyze_*_frames | retries, breaker, stale load, wrong answers | no reservation leaks, results whole, a working instance is found and none is passed over |
| Snapshot selection, behaviour statistics, metrics, scoring (`domain/`) | none | pure functions | boundaries, ties, order of frames | snapshots spaced, runs counted once, scores follow the behaviour |

Other code: row identities (`domain/ids.py`) appear through the keys of
WorkflowStore; configuration, start-up and the build scripts are not modelled.

How the parts meet: the worker loop calls the handler, the handler calls the
remote analyzer, the domain functions and the repository; workers meet each
other in Kafka, in the tables and in Redis; the API and the workers meet in
Redis only.  No two processes share memory, so every call to Kafka, Redis, MySQL
or a TIAS instance is a step of its own, and anything may happen between two.

## 2. Modules

| Module | Models | State and actions |
|---|---|---|
| Deployment | names shared by the modules | constants only |
| ConsumerGroup | the Kafka consumer group as `create_kafka_consumer` sets it up: subscribe, manual commit, `max_poll_records` 1, eager assignment | `members`, `owner`, `position`, `committed`; Take, CommitAll, CommitOne, Leave, Rebalance are operators the loops put into their actions |
| TaskDelivery | abstract: at-least-once, in-order delivery | `acked`, `settled`; Settle, Ack |
| WorkflowStore | the tables of `VisionOrchestratorRepository` | `workflow`, `rows`; one operator per transaction |
| TaskPipeline | controlled loop, `process_task`, desired state and registry rows, composed with the two above | `pc[w]` names the next external call of worker `w`; one action per call, with its failure |
| TaskPipelineProofs, TaskOutcomeProofs | theorems about TaskPipeline: delivery; then statuses, rows, pauses and the registry row | |
| TaskMessage | a record of the topic, `VisualTaskMessage.from_payload`, and the other reading of the task id in `handle_invalid_message` | pure |
| TaskFiles | the temp directories of one host, with the videos in them, and the snapshot mount | `dirs`, `videos`, `images`; one operator per call |
| LegacyConsumer | the older `consume` command with `process_task` seen from its files and `handle_invalid_message`, composed with ConsumerGroup, TaskMessage and TaskFiles | `pc[w]`, one action per call |
| LegacyConsumerProofs, LegacyRunProofs | theorems about LegacyConsumer: delivery; then files, images, statuses | |
| HeartbeatRegistry | Redis: an index set and a row with TTL per member (both registries) | `index`, `row`, `late`; one operator per Redis call |
| WorkerRegistry | heartbeats, `list_workers` and `get_worker` | one action per Redis call of a reader |
| TiasDispatch | `RemoteFrameAnalyzer`, `TiasScheduler`, `RedisTiasRegistry.list_instances` in one worker | one action per Redis or HTTP call |
| WorkerRegistryProofs, TiasDispatchProofs, WorkerControlProofs, LessonProofs | theorems about the module each is named for | |
| TiasAnswers | the counts and the head pose read out of an answer | pure |
| CircuitBreaker | abstract: a breaker that opens after n failures and closes by itself | `breaker` |
| StreamAnalysis | abstract: the analysis of a task as `process_task` sees it | `phase`, `got`, `again`; Begin, Deliver, Restart, Finish, Fail |
| WorkerControl | `RedisWorkerControlStateRepository` under several API processes, and `_log_control_state` | GET and SET are two actions |
| FramePoints | `build_frame_points`, frame metrics | pure |
| SnapshotSelection, BehaviorStats, Indicators | `domain/snapshots.py`, `behavior_stats.py`, `metrics.py` and `scoring.py` | pure |
| LessonAnalysis | what `process_task` computes with them | the state is the input, a step adds a frame |
| MC* | constants for TLC | |

Definitions headed "Broken" are slips a change of the code could make.  Nothing
uses them in a specification; `PROJECT.json` names, for each property, one that
makes it fail when it replaces the definition it imitates.

### Correspondence, TaskPipeline

| Code | Actions |
|---|---|
| `run_once` (controlled_consumer.py:56-84) | ReadControl, Report; then ReadControlAgain, Wrapup |
| `_iter_messages_once`, `_parse_message` | PollEmpty, PollRecord |
| `_consume_one` (96-177) | Claim, the attempt loop in Fail and Retry, Commit, Release |
| `_commit_message_offset` (179) | Reject |
| `process_task` (worker.py:40-219) | Begin, Clear, Analyse, WriteRows (four tables), Success, Finish, Fail |
| `_call_handler` (207-216) | the flags `beat` and `value` of a job, Fail |
| resume, pause and drain of the API | SetDesired |
| a process that dies, is started again, is put out of the group | Crash, RedisFault, Restart, SessionTimeout, EvictSlow, LeaveWhilePaused |

### Correspondence, LegacyConsumer

| Code | Actions |
|---|---|
| `consume` (consumer.py:28-78) | NextRecord; the attempt loop in Remove and Retry; Commit |
| `handle_invalid_message` (main.py:108-115) | MarkInvalid |
| `process_task`: status and old results (worker.py:48-53) | Begin, Clear |
| sources, downloads, extraction (56-99) | OpenVideo, LoadVideo, ReadVideo; the first two once per video |
| snapshots, rows, success (160-206) | Save, Write, Succeed |
| `except`, `finally` (207-221) | Fail and MarkFailed, Remove |
| the process, Kafka's timers | Crash, Restart, SessionTimeout, EvictSlow, CompleteRebalance |

TaskPipeline and LegacyConsumer model `process_task` twice, for different
questions: the first has each write to the tables and one step for everything
between frames and snapshots, the second each step that touches a file and one
for the results.  Its heartbeat is None under `consume`.

### Correspondence, TiasDispatch

| Code | Actions |
|---|---|
| `_call_batch_analyzer`, `analyze_*_frames` | Begin, StartBatch, FinishStream, Rerun, Parse |
| `list_instances` | List, ReadRow, Purge |
| `select_instance` | Select |
| `_dispatch`, `TiasHttpClient._post` | Post, which is Answer, FailRetryable or FailFatal |
| anything that raises otherwise | Break |
| the API, other readers, TTLs and clocks | RegistryChanges, Tick |

### Abstractions

* Kafka is modelled from how the code uses it.  A dead member stays in the group
  until SessionTimeout; a rebalance completes when every member is inside
  poll().  When it does, the positions of the new owners are the committed
  offsets.
* A commit or a transaction may fail after it took effect (`kafka`, `db`
  faults).  A Redis write that fails is taken not to be applied.
* A table row's content is the run that wrote it; which keys a run writes is
  chosen by TLC.  `stable_id` is taken to be injective.
* Analyse is download, extraction, TIAS calls and snapshot files in one step
  that may raise either kind of exception.  TiasDispatch refines the TIAS calls,
  LessonAnalysis the computation.
* Counters, error texts, time stamps and log lines are left out.  The `limit` of
  the legacy `consume`, which only tests pass, is left out.
* In a message, a value is what the code can tell apart: null, empty, another
  value that is false, blank, a number, the name of a task with spaces around it
  or without, a kind of video source.  `student_count` and `course_id` are left
  out.  A JSON string that holds no JSON raises like a record that cannot be
  decoded and counts as one.
* A file is whole or cut off by whoever opened it last; a broken download raises
  (the length is checked by urllib3).  Extraction is one step per video, and what
  cv2 makes of a file that is not whole is left open.  `rmtree` with
  `ignore_errors` never raises: it removes the directory with all its files, or
  stops at an error nobody hears of and leaves the directory with any of them
  (EmptyDir, KeepDir); so may a process that is killed in it.  Image scaling, image names
  and the write probe at the start are left out.  The workers of LegacyConsumer
  run on one host, which is where files can meet.
* kafka-python's iterator moves the position as it hands out each record, so
  `max_poll_records` makes no difference to the older loop; the controlled one
  polls for one record.
* TiasDispatch leaves the tie-break by latencies and ids open and keeps selection
  counts less the smallest of them, which is all the order depends on; the clock
  moves in ticks; an answer is a set of frame ids (an id of the other stream with
  the index of a frame is accepted as that frame); a status stands for its class.
* Rates are whole numbers of 1/10000, rounded down, and scores hundredths, rounded
  to the nearest; rounding half to even is taken as rounding half up.  `_interpolate`'s case of equal thresholds
  is kept although the caller cannot reach it.  E3-01 and E4-01 are drawn at
  random by the code and left out.
* In LessonAnalysis both videos have the same number of frames.  Their results
  only meet in the cut to `snapshot_max_total`.

## 3. Runs

| Run | Instance | Properties | Shows |
|---|---|---|---|
| delivery | 2 workers, 2 partitions, 3 records (one invalid); 1 crash, 1 eviction, 1 broken commit | NoLoss, PositionInv, DeliverySpec | nothing is acknowledged unsettled; the argumentless `commit()` is harmless; TaskDelivery is implemented |
| results | 2 workers, 1 task, 2 attempts; 1 Redis, 1 database fault, 1 crash | TypeOK, SuccessIsWhole | a success shows one run's rows |
| control | 2 workers, a task and an undecodable record, 2 attempts; 2 requests, 1 expiry, 1 Redis fault, 1 broken commit; STOPPED ends the process | QuietReportIsTrue, PauseTakesAtMostOne, AcknowledgedIsFinal | operators can trust the registry and a pause; with a healthy database acknowledged tasks are final |
| live | 2 workers, an invalid record before a task; 1 crash, 1 eviction, 1 request | EventuallyAcknowledged, DrainCompletes | nothing blocks a partition; a drain ends |
| registry | 2 workers, 2 readers, unlimited expiries | ListingIsHonest, KeepsComingBack, GhostsGoAway | purge races are repaired |
| dispatch | 2 instances (one for students only), 3+1 frames, batches of 2, 2 tries, breaker 2/2, 2 changes of the registry | ReservationsMatch, ResultsAreWhole, OneInstanceSuffices, WorkIsShared, AsksOthers, CircuitSpec, AnalysisSpec, AnalysisEnds | reservations, results, exclusion, sharing and the breaker are right; StreamAnalysis is implemented |
| one_api | 1 API process, 2 workers, 4 versions | VersionIncrements, SameVersionSameState | versions tell changes apart |
| legacy | 2 workers of one host, 2 partitions, 6 records of every kind about 2 tasks, 2 attempts, 1 image; any one of a broken database call, a broken commit, a crash, an eviction; besides, without limit, any call inside the `try` of `process_task` that raises and any removal of a directory that fails | LegacyDelivery, InvalidIsRecorded, LastRecordDecides, RowsHaveImages, WholeVideos, NothingLeftBehind | the older loop delivers too, the last record about a task decides, and files and rows agree |
| lesson | all lessons of up to 6 frames of 5 kinds of TIAS answer, 2 score rules | SnapshotsSpaced, DroppedForStronger, AlertsPerRun, SegmentsAreRuns, EmptyFramesDoNotCount, FacingPays | the computations do what they are for |
| db_outage, redis_outage, two_apis | see section 4 | violated | |

The bounds are small because the interesting cases are: one fault of a kind
between any two calls, a second worker that takes over, a second attempt.  Two
workers are enough for every pair of interleaved owners; a third adds no new
role.  Six frames give two dedupe replacements in a chain, two alert windows and
minutes with one frame or two.  Symmetry is only used in runs without liveness
properties.  Only `lesson` switches the deadlock check off: a lesson ends.

In `legacy`, t1's student video is downloaded and its teacher video is on the
host; t2's slides are missing, so that its runs fail after the directory is made;
the invalid records name a task by another alias, name none, or are no JSON.  One
fault is enough there for two runs of a task to meet (an eviction), for a
directory to be orphaned (a crash) and for a status to be lost (the database).
A removal that fails is no counted fault: it may happen to each run, next to any
of the others.

NothingLeftBehind does not say that the disk stays clean, which the code cannot
promise (worker.py:221 ignores errors).  It says that no way out of a run skips the
removal: a directory that no run uses is one that a worker died on or whose
removal failed, and no later run of the task has removed it.  The history
`orphans` records these two causes, not what is on the disk, so that a run that
never tries shows as a violation.  WholeVideos says that such leftovers do the next
run no harm.

SuccessIsWhole is checked without evictions.  With one, a zombie and the new
owner interleave their writes and the property fails; RUNNING.md:491 asks for a
`KafkaMaxPollIntervalMs` longer than any task for this reason.
EventuallyAcknowledged is checked without undecodable records, which block their
partition by design of the deserializer, and assumes that a worker lives.  Whether
the records before such a one are still acknowledged is not checked: kafka-python
may decode ahead of what it hands out.

### Fairness

* TaskPipeline: weak fairness for each worker's own steps (`run_forever` never
  stops by itself), for SessionTimeout and LeaveWhilePaused (Kafka's timers), and
  for CompleteRebalance; strong fairness for PollRecord, since a poll may come
  back empty any number of times but not for ever while records are there.
  None for Restart: nothing in the repository restarts a worker.
* WorkerRegistry: weak fairness for heartbeats of running workers, for the TTL of
  stopped ones and for a reader's steps; strong for StartListing, as somebody
  keeps asking.  None for Stop, TurnLate or StartLookup.
* TiasDispatch: weak fairness for the worker, whose HTTP requests time out.
  None for the registry or the clock.

## 4. Disagreements with the documentation

* `db_outage`: `mark_workflow_failed` may fail too; `process_task` logs that
  (worker.py:208-218), and the offset is committed while the row says running.
  RUNNING.md:260-261 has steps 8 and 9, mark, then commit.
* `redis_outage`: the heartbeat after `mark_workflow_success` is inside the
  handler's `try` (worker.py:205-209), so a Redis error marks a successful
  workflow failed.
* `two_apis`: two API processes may write the same version, or an older one
  (worker_control.py:118).  RUNNING.md:358 allows any number of API instances.

Noted while modelling, without a run of their own:

* An invalid message whose id is written with spaces around it, or as a number,
  marks another row than a valid message with that id would write (main.py:111);
  InvalidIsRecorded leaves those out.
* The `ValueError` branch for an answer without JSON in client.py cannot be
  reached: the JSONDecodeError of `requests` is a RequestException, which the
  branch before it catches.  Such an answer is retried elsewhere.
* Fallback instances (factories.py:46) are entered once and expire after
  `TiasHeartbeatTimeoutSeconds`; nothing renews them.

## 5. Proofs

Eight modules prove theorems with TLAPS, for every value of the constants: any
number of workers, instances, partitions and tasks, any log, any budget of
faults, lessons of any length.  Every safety invariant that a passing run checks
is proved, and so are the four refinements and two of the action properties;
what stays with TLC is listed at the end of this section.

### What is proved

| Theorem | States | Inductive invariant |
|---|---|---|
| TypeCorrect, PositionsCorrect, NothingLost, DeliversInOrder (TaskPipelineProofs) | TypeOK, PositionInv, NoLoss, DeliverySpec | IInv |
| QuietReportsAreTrue (TaskOutcomeProofs) | QuietReportIsTrue | QuietInv |
| PausesTakeAtMostOne | PauseTakesAtMostOne | PauseInv |
| AcknowledgedTasksAreFinal, if no database fault and no eviction | AcknowledgedIsFinal | HandInv, OutcomeInv |
| SuccessesAreWhole, if no eviction and one partition per task | SuccessIsWhole | HandInv, WholeInv |
| SuccessesStand, if also no Redis and no database fault | SuccessStands | HandInv, WholeInv, FailingInv |
| LegacyTypeCorrect, LegacyDelivers (LegacyConsumerProofs) | TypeOK, LegacyDelivery | LegacyInv |
| RowsAlwaysHaveImages (LegacyRunProofs) | RowsHaveImages | ImagesInv |
| DirectoriesAreAccountedFor | NothingLeftBehind | itself |
| VideosAreWhole | WholeVideos | VideosInv |
| InvalidsAreRecorded | InvalidIsRecorded | LegacyInv, RecordedInv |
| LastRecordsDecide | LastRecordDecides | LegacyInv, LastInv |
| RegistryTypeCorrect, AnswersAreHonest (WorkerRegistryProofs) | TypeOK, ListingIsHonest | HonestInv |
| DispatchTypeCorrect, NoReservationLeaks (TiasDispatchProofs) | TypeOK, ReservationsMatch | themselves |
| EveryFrameHasItsResult | ResultsAreWhole | ResultsInv |
| AnInstanceSuffices, WorkIsAlwaysShared, OthersAreAsked | OneInstanceSuffices, WorkIsShared, AsksOthers | SearchInv |
| CircuitsAreBreakers, AnalysesAreWhole | CircuitSpec, AnalysisSpec | ClosedInv; ResultsInv |
| VersionsTellStates, VersionsCount, if there is one API process (WorkerControlProofs) | SameVersionSameState, VersionIncrements | VersionInv |
| SnapshotsAreSpaced, DroppedForAStronger, AlertsAreCounted, SegmentsAreLongestRuns (LessonProofs) | SnapshotsSpaced, DroppedForStronger, AlertsPerRun, SegmentsAreRuns | LessonInv |

### Assumptions and hypotheses

Constants are constrained by named assumptions only (WorkerAssumption,
StoreAssumption, PipelineAssumption, LegacyAssumption, RegistryAssumption,
DispatchAssumption, ControlAssumption, IntervalAssumption, PolicyAssumption,
StatsAssumption, LessonAssumption), which TLC evaluates in the runs.  They give
constants their types, keep NONE and other marks apart from what they stand
beside, and have finitely many instances.

A theorem that needs more says so as its hypothesis:

* `Never(kind)` is a budget of 0 for faults of a kind.  The database
  (AcknowledgedTasksAreFinal) and Redis (SuccessesStand) are needed: the runs
  db_outage and redis_outage show what happens without.  Evictions are excluded
  because an evicted worker keeps writing beside the new owner (section 3).
* `OneHome`: the records of a task are in one partition.  The repository's
  producer uses the task id as the key
  (`scripts/produce_vision_orchestrator_kafka_message.py:67`).  Otherwise two workers
  can run one task at once, and their writes interleave.
* `OneProcess`: one API process; the run two_apis shows what a second one does.

LastRecordDecides and WholeVideos carry such conditions in themselves.

### How

*Delivery.*  NoLoss is not inductive.  `commit()` stores every position of the
member, so the proof must know that each position it stores is either at the
committed offset or one past it because of the record in hand (OwnerInv), that
the record in hand is the oldest unacknowledged one of a partition the member
owns, also after evictions and rebalances, and that it is settled before the
commit (JobInv).  `IInv == TypeOK /\ PositionInv /\ NoLoss` has these as its
conjuncts; TLC checks them in `delivery` and `results`.  The proof has a lemma
per action and, for actions of one shape (those that only move `pc`, those that
drop a job, those that let a member leave), a lemma for the shape.
DeliversInOrder then shows that PollRecord of an invalid record, Finish and Fail
map to Settle or a stutter, Commit and Reject to Ack or a stutter, and all else to
a stutter.  LegacyInv is the same argument for the older loop.

*Outcomes.*  HandInv adds to IInv that, without evictions, whoever holds a record
is a member, so that no two workers hold records of one partition.  OutcomeInv: a task all of whose
records are acknowledged or through is final, or has one pending.  WholeInv says,
for each call of `process_task`, what the rows look like before it, and that a
success shows one run's rows; OneRun, that no two workers run one task, keeps
other runs out.  FailingInv: the run that is about to be marked failed is still
marked running.  The step lemmas frame away the actions that touch none of this.

*Pauses and the registry row.*  QuietInv: between its RUNNING heartbeat and the end of
its record, a worker's row says RUNNING, or has expired.  PauseInv: a worker that has taken
a record since the state left RUNNING cannot come to another poll before it has read
the state.

*Files.*  ImagesInv: a run has saved what it has chosen before it writes a row.
VideosInv: a run alone with its task has whole videos behind it and is the writer
of the one it loads; it rests on SoloInv, that runs side by side know of each other.
RecordedInv and LastInv carry what an acknowledged record has decided back to the
point where it is written.

*Registry and control.*  HonestInv says that the histories a reader is judged by
follow the registry while it reads.  VersionInv: what the one writer has read is
still current when it writes, and no worker is ahead.

*Dispatch.*  ResultsInv: the frames with a result are those of the batches done.
SearchInv joins: every try has excluded another instance (TriesInv, which counts
them), an instance that has given no cause is registered with room and not
excluded (ReadyInv), `select_instance` finds nothing only for want of such
(UnavailableInv), and the counts behind WorkIsShared.  ClosedInv, that requests
only go out through closed circuits, makes each step of the scheduler a step of
CircuitBreaker, for each instance, or a stutter.

*Lessons.*  There LessonInv is little more than types, and the work is in the loops.
The prover cannot instantiate induction theorems, so LessonProofs derives
induction from well-foundedness: a set of naturals has a least element
(LeastNatural), therefore a set with 0 that is closed under successors up to n
has them all (CountUp); likewise for subsets of a finite set (SubsetInduction).
With these it shows that the folds have values, turn by turn
(FoldExists, FoldTurns; SumsExist for sums), that sorting by rank puts every
element in one place (RanksArePlaces, SortedByRank), and an invariant for each of
the code's loops: ThinnedTo for `_dedupe_same_type`, a count of frames in full
windows for `_teacher_alert_events` (RunsAreCounted), Built for
`_build_segments`, which says that after i minutes the segments are the longest
runs among them (RunsWithOneMore, ExtendBuilds).

### Left to TLC

* Liveness, which is beyond the prover: EventuallyAcknowledged, DrainCompletes,
  KeepsComingBack, GhostsGoAway, AnalysisEnds.
* EmptyFramesDoNotCount and FacingPays.  The first needs that a candidate of one
  type has no part in thinning another type; the second, products of two unknowns
  in the interpolation of scores.

## 6. Not modelled, and the plan

Not modelled: reading the configuration (its values are the CONSTANTS), argument
parsing, logging and wiring, the build scripts and container files; the in-memory
registries, which only tests and the fallback use; the key check and the health
endpoint of the API; `run-json`, which is `process_task` without Kafka; image
encoding and decoding; the text of peak periods, file names and notes; the random
placeholders of E3-01 and E4-01; student and teacher videos of different length.

Next, proofs:

1. EmptyFramesDoNotCount: each of the five computations depends on the frames
   in `Valid` alone, and Dedupe treats each type by itself.
2. FacingPays: scores by thresholds never fall (ScoresNeverFall), and one more frame
   moves the share of facing frames in its own direction.
3. What the two readings of an id in TaskMessage have in common.

## 7. Reading and running

    tlasany TaskPipeline.tla
    tlc -workers 2 -config delivery.cfg MCTaskPipeline
    tlapm TaskPipelineProofs.tla
    for m in *Proofs.tla; do tlapm $m; done

Each run's module and configuration are in `PROJECT.json`.  The longest take two to three
minutes with two workers.
