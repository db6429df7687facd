--------------------------- MODULE LessonAnalysis ---------------------------
(***************************************************************************)
(* What process_task computes from the frames of one lesson, between the   *)
(* answers of TIAS and the writes to the database: the timeline, the       *)
(* snapshots, the behaviour statistics and the scored indicators.  The     *)
(* state is the input.  It grows frame by frame, so that every state is an *)
(* input of its own and a step is a lesson that goes on a little longer.   *)
(***************************************************************************)
EXTENDS SnapshotSelection, BehaviorStats, Indicators, TiasAnswers

CONSTANTS
  Frames,       \* the pairs <<result list, pose>> TIAS may answer about two frames
  Rules,        \* score rules of the indicator, see Indicators
  MaxFrames     \* bound: length of the lesson

ASSUME LessonAssumption ==
  /\ Frames \subseteq ResultLists \X Poses
  /\ Rules \subseteq [thresholds : Seq([value : Nat, score : Nat]), min : Nat]
  /\ MaxFrames \in Nat

VARIABLES
  students,     \* metrics of the students' frames, in order
  teachers,     \* metrics of the teacher's frames, in order
  rule          \* score_rule of the indicator

vars == <<students, teachers, rule>>

Init == students = <<>> /\ teachers = <<>> /\ rule \in Rules

NextFrame ==
  /\ Len(students) < MaxFrames
  /\ \E f \in Frames :
       /\ students' = Append(students, StudentMetric(f[1]))
       /\ teachers' = Append(teachers, TeacherMetric(f[2]))
  /\ UNCHANGED rule

Next == NextFrame

Spec == Init /\ [][Next]_vars

\* lesson_behavior_timeline: one row per minute, written by its last frame.
\* The value is not clamped.
Timeline(ss) ==
  [m \in {Minute(k) : k \in Valid(ss)} |->
     LET last == Max({k \in Valid(ss) : Minute(k) = m})
     IN  (Unit * ss[last].face) \div ss[last].present]

\* Everything that depends on the students' frames alone.
StudentResults(ss, ts) ==
  [timeline |-> Timeline(ss),
   snapshots |-> {e \in Dedupe(Candidates(ss, ts)) : e.type # "teacher"},
   stats |-> Stats(ss),
   attendance |-> Attendance(ss),
   headUp |-> HeadUp(ss)]

-----------------------------------------------------------------------------
(* Properties                                                              *)

\* No two snapshots of one type are closer than the interval, however many
\* replacements the loop has made (_dedupe_same_type, snapshots.py:167-182:
\* it looks for one conflict only, and replaces it without looking further).
SnapshotsSpaced ==
  \A e, f \in Snapshots(students, teachers) : e # f => ~Close(e, f)

\* Thinning out drops a candidate only for one close by that is at least as
\* strong, also when a chain of replacements has moved on from there.
DroppedForStronger ==
  LET all == Candidates(students, teachers)
  IN  \A e \in all \ Dedupe(all) :
        \E f \in all \ {e} : Close(e, f) /\ f.rate >= e.rate

\* A run of alert frames of length l gives l \div n alerts for windows of n:
\* windows neither overlap nor skip frames nor reach over a frame without
\* alert (_teacher_alert_events, snapshots.py:134-150).
AlertsPerRun ==
  LET n == Policy.consecutiveFrames
      alert(i) == i \in DOMAIN teachers /\ IsAlert(teachers[i])
  IN  n > 0 =>
        \A a, b \in DOMAIN teachers :
          a <= b /\ (\A i \in a .. b : alert(i)) /\ ~alert(a - 1) /\ ~alert(b + 1)
            => Cardinality(AlertFrames(teachers, n) \cap (a .. b)) = (b - a + 1) \div n

\* The segments are the longest runs of minutes in which the behaviour was
\* seen, each with its own counts (_build_segments, behavior_stats.py:80-94).
SegmentsAreRuns ==
  \A field \in {"phone", "sleep"} :
    LET counts == MinuteCounts(students, field)
        seen == DOMAIN counts
        run(a, b) == a .. b \subseteq seen /\ a - 1 \notin seen /\ b + 1 \notin seen
    IN  Segments(counts) =
          {[start |-> p[1], end |-> p[2],
            total |-> MapThenSumSet(LAMBDA m : counts[m], p[1] .. p[2]),
            peak |-> Max({counts[m] : m \in p[1] .. p[2]})] :
             p \in {q \in seen \X seen : q[1] <= q[2] /\ run(q[1], q[2])}}

\* A frame that shows nobody changes no result, whatever TIAS counts in it:
\* each of the five computations leaves such frames out (present_count > 0).
EmptyFramesDoNotCount ==
  [][students'[Len(students')].present = 0
       => StudentResults(students', teachers') = StudentResults(students, teachers)]_vars

\* Higher thresholds never score less.
ScoresNeverFall ==
  LET ts == SortedThresholds(rule)
  IN  \A i \in 1 .. Len(ts) - 1 : ts[i].score <= ts[i + 1].score

FacingPaysStep ==
  LET before == Score(Facing(teachers), rule)
      after == Score(Facing(teachers'), rule)
      last == teachers'[Len(teachers')]
  IN  /\ FacesStudents(last) => after >= before
      /\ last.valid /\ ~FacesStudents(last) => after <= before

\* With a rule whose scores never fall, one more frame in which the teacher
\* faces the students never lowers the score of A6-01, and one more in which
\* not never raises it (score_indicator, scoring.py:32-59).
FacingPays == [][ScoresNeverFall => FacingPaysStep]_vars

=============================================================================
