-------------------------- MODULE MCLessonAnalysis --------------------------
(***************************************************************************)
(* A small instance of LessonAnalysis for TLC: frames 40 seconds apart, so *)
(* that minutes have one frame or two, and five kinds of frames.            *)
(***************************************************************************)
EXTENDS LessonAnalysis

SmallPolicy ==
  [headUpTopK |-> 3, headUpMinRate |-> 5000, readTopK |-> 1, readMinRate |-> 3000,
   sleepMinCount |-> 2, sleepMinRate |-> 2500, phoneMinCount |-> 2, phoneMinRate |-> 500,
   consecutiveFrames |-> 2, minInterval |-> 90, maxTotal |-> 4]

Counts(present, face, read, sleep, phone) ==
  <<[type |-> 100, count |-> present], [type |-> 101, count |-> face],
    [type |-> 205, count |-> read], [type |-> 202, count |-> sleep],
    [type |-> 201, count |-> phone]>>

Toward == [status |-> "success", front |-> TRUE, down |-> FALSE]
Away == [status |-> "success", front |-> FALSE, down |-> FALSE]
Down == [status |-> "success", front |-> TRUE, down |-> TRUE]
Lost == [status |-> "failed", front |-> TRUE, down |-> FALSE]

\* The second list repeats a type, the last one has no result for people.
FiveFrames ==
  {<<Counts(4, 3, 0, 3, 0), Toward>>,
   <<<<[type |-> 100, count |-> 1]>> \o Counts(4, 1, 2, 1, 0), Away>>,
   <<Counts(4, 2, 1, 2, 1), Down>>, <<Counts(2, 3, 1, 0, 2), Lost>>,
   <<Tail(Counts(0, 0, 1, 2, 1)) \o <<[type |-> -1, count |-> 3]>>, NoPose>>}

Level(value, score) == [value |-> value, score |-> score]

\* No rule, and one whose thresholds are not in order.
TwoRules ==
  {[thresholds |-> <<>>, min |-> 0],
   [thresholds |-> <<Level(60, 60), Level(20, 0), Level(80, 100), Level(60, 70)>>, min |-> 10]}

=============================================================================
