---------------------------- MODULE BehaviorStats ----------------------------
(***************************************************************************)
(* How often students use phones or sleep, and in which minutes the most:  *)
(* build_student_behavior_stats of app/domain/behavior_stats.py.  The text *)
(* of the peak periods is the set of chosen segments.                      *)
(*                                                                         *)
(* The definition headed "Broken" is a slip a later change of the code     *)
(* could make; nothing else uses it.                                       *)
(***************************************************************************)
EXTENDS FramePoints, FiniteSets, SequencesExt

CONSTANTS
  StartMinute,    \* behavior_stat_start_minute
  MaxSegments     \* behavior_stat_peak_max_segments

ASSUME StatsAssumption == StartMinute \in Int /\ MaxSegments \in Int

\* _aggregate_minute_counts, of the frames from the start minute on.
MinuteCounts(students, field) ==
  LET counted == {k \in Valid(students) : Minute(k) >= StartMinute /\ students[k][field] > 0}
  IN  [m \in {Minute(k) : k \in counted} |->
         MapThenSumSet(LAMBDA k : students[k][field], {k \in counted : Minute(k) = m})]

Total(counts) == MapThenSumSet(LAMBDA m : counts[m], DOMAIN counts)

\* Broken: a gap of one minute does not end a segment.
ExtendOverGap(segments, m, count) ==
  LET last == segments[Len(segments)]
  IN  IF segments # <<>> /\ m <= last.end + 2
      THEN [segments EXCEPT ![Len(segments)] =
              [start |-> last.start, end |-> m, total |-> last.total + count,
               peak |-> IF count > last.peak THEN count ELSE last.peak]]
      ELSE Append(segments, [start |-> m, end |-> m, total |-> count, peak |-> count])

\* One turn of the loop of _build_segments: minute m continues the last
\* segment or begins one.
Extend(segments, m, count) ==
  LET last == segments[Len(segments)]
  IN  IF segments # <<>> /\ m = last.end + 1
      THEN [segments EXCEPT ![Len(segments)] =
              [start |-> last.start, end |-> m, total |-> last.total + count,
               peak |-> IF count > last.peak THEN count ELSE last.peak]]
      ELSE Append(segments, [start |-> m, end |-> m, total |-> count, peak |-> count])

Segments(counts) ==
  LET minutes == [i \in 1 .. Cardinality(DOMAIN counts) |->
                    CHOOSE m \in DOMAIN counts :
                      Cardinality({n \in DOMAIN counts : n < m}) = i - 1]
  IN  ToSet(FoldLeft(LAMBDA segments, m : Extend(segments, m, counts[m]), <<>>, minutes))

\* The sort key of _format_peak_period_desc.
Heavier(s, t) ==
  LET length(u) == u.end - u.start
  IN  \/ s.total > t.total
      \/ s.total = t.total /\ s.peak > t.peak
      \/ s.total = t.total /\ s.peak = t.peak /\ length(s) > length(t)
      \/ /\ s.total = t.total /\ s.peak = t.peak /\ length(s) = length(t)
         /\ s.start < t.start

Peaks(counts) ==
  LET all == Segments(counts)
  IN  {s \in all : Cardinality({t \in all : Heavier(t, s)}) < MaxSegments}

\* The row of one behaviour, or none when it was never seen.
Stat(students, field) ==
  LET counts == MinuteCounts(students, field)
  IN  IF Total(counts) <= 0 THEN {} ELSE {[count |-> Total(counts), peaks |-> Peaks(counts)]}

Stats(students) == [field \in {"phone", "sleep"} |-> Stat(students, field)]

=============================================================================
