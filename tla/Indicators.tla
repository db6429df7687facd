----------------------------- MODULE Indicators -----------------------------
(***************************************************************************)
(* The indicators of a lesson and their scores: aggregate_visual_metrics   *)
(* of app/domain/metrics.py and score_indicator of app/domain/scoring.py.  *)
(* E3-01 and E4-01, which draw a placeholder at random, are left out.      *)
(*                                                                         *)
(* Values are whole numbers of 1 / Unit, rounded down, and scores          *)
(* hundredths, rounded to the nearest; the code calculates with floating   *)
(* point and rounds scores to two digits.                                  *)
(*                                                                         *)
(* Definitions headed "Broken" are slips a later change of the code could  *)
(* make; nothing else uses them.                                           *)
(***************************************************************************)
EXTENDS FramePoints, FiniteSets, SequencesExt

CONSTANT StudentCount   \* student_count of the task, or 0

ASSUME CountAssumption == StudentCount \in Nat

\* Twice the median of the values of a function, 0 for no value at all.
TwiceMedian(value) ==
  LET S == DOMAIN value
      before(i, j) == value[i] < value[j] \/ (value[i] = value[j] /\ i < j)
      at(r) == value[CHOOSE i \in S : Cardinality({j \in S : before(j, i)}) = r - 1]
      n == Cardinality(S)
  IN  IF S = {} THEN 0 ELSE at((n + 1) \div 2) + at(n \div 2 + 1)

\* E2-01: how many of the expected students are there.
Attendance(students) ==
  LET present == [k \in Valid(students) |-> students[k].present]
      detected == Max({present[k] : k \in Valid(students)} \cup {0})
      expected == IF StudentCount > 0 THEN StudentCount ELSE detected
  IN  Rate(TwiceMedian(present), 2 * Max({expected, 1}))

\* E5-01: how many of those present look up.
HeadUp(students) ==
  TwiceMedian([k \in Valid(students) |-> Rate(students[k].face, students[k].present)]) \div 2

FacesStudents(metric) == metric.valid /\ metric.front /\ ~metric.down

\* A6-01: in how many of the frames with a head pose the teacher faces the students.
Facing(teachers) ==
  LET valid == {k \in DOMAIN teachers : teachers[k].valid}
  IN  IF valid = {} THEN 0
      ELSE Rate(Cardinality({k \in valid : FacesStudents(teachers[k])}), Cardinality(valid))

-----------------------------------------------------------------------------
(* Scores                                                                  *)

\* A rule is a sequence of thresholds [value, score] in percent and the least
\* score; without thresholds the ratio itself is the score.
RoundDiv(a, b) == (2 * a + b) \div (2 * b)

\* Broken: the slope is taken from the wrong end.
InterpolateBackwards(value, left, right) ==
  IF right.value = left.value THEN 100 * right.score
  ELSE 100 * right.score
       + RoundDiv((value - 100 * left.value) * (left.score - right.score),
                  right.value - left.value)

\* value is in hundredths of a percent.
Interpolate(value, left, right) ==
  IF right.value = left.value THEN 100 * right.score
  ELSE 100 * left.score
       + RoundDiv((value - 100 * left.value) * (right.score - left.score),
                  right.value - left.value)

\* The thresholds by value, in the order given where values are equal.
SortedThresholds(rule) ==
  LET ts == rule.thresholds
      before(i, j) == ts[i].value < ts[j].value \/ (ts[i].value = ts[j].value /\ i < j)
  IN  [r \in DOMAIN ts |->
         ts[CHOOSE i \in DOMAIN ts : Cardinality({j \in DOMAIN ts : before(j, i)}) = r - 1]]

\* value is a ratio in units of 1 / Unit, which are hundredths of a percent.
Score(value, rule) ==
  LET ts == SortedThresholds(rule)
      n == Len(ts)
      at(t) == 100 * t.value
      pair == Min({i \in 1 .. n - 1 : at(ts[i]) <= value /\ value <= at(ts[i + 1])})
      raw == IF value <= at(ts[1]) THEN 100 * ts[1].score
             ELSE IF value >= at(ts[n]) THEN 100 * ts[n].score
             ELSE Interpolate(value, ts[pair], ts[pair + 1])
  IN  IF n = 0 THEN value
      ELSE Min({100 * 100, Max({100 * rule.min, raw})})

=============================================================================
