----------------------------- MODULE FramePoints -----------------------------
(***************************************************************************)
(* The frames extract_frames samples from a video, and what TIAS counts in *)
(* them.  The k-th frame (from 1) is taken in the middle of the k-th       *)
(* interval.  A student frame counts the people it shows and what they do, *)
(* a teacher frame says whether a head pose was found and where it points. *)
(***************************************************************************)
EXTENDS Integers, Sequences

CONSTANT FrameInterval    \* frame_interval_seconds

ASSUME IntervalAssumption == FrameInterval \in Nat \ {0}

StudentMetrics == [present : Nat, face : Nat, read : Nat, sleep : Nat, phone : Nat]
TeacherMetrics == [valid : BOOLEAN, front : BOOLEAN, down : BOOLEAN]

\* int(timestamp_seconds) and minute_no of build_frame_points.
Second(k) == ((2 * k - 1) * FrameInterval) \div 2
Minute(k) == Second(k) \div 60

\* The frames that count: those that show somebody.
Valid(students) == {k \in DOMAIN students : students[k].present > 0}

\* Ratios are whole numbers of 1 / Unit, rounded down, so that a ratio reaches
\* a rate of the configuration exactly when the code's fraction does.
Unit == 10000

\* clamp_ratio and _ratio.
Rate(count, total) ==
  LET r == (Unit * count) \div total IN IF r > Unit THEN Unit ELSE r

=============================================================================
