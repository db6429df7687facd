----------------------------- MODULE TiasAnswers -----------------------------
(***************************************************************************)
(* What RemoteFrameAnalyzer reads in TIAS's answer about one frame: the    *)
(* ResultList of a student frame, a sequence of counts per object type,    *)
(* and the HeadPoseResult of a teacher frame, or NoPose without one.       *)
(* TiasDispatch models which frames an answer is about, and what happens   *)
(* when a type or a count is no number.                                    *)
(***************************************************************************)
EXTENDS FramePoints, FiniteSetsExt

NoPose == [status |-> "missing", front |-> FALSE, down |-> FALSE]

\* A type of -1 stands for a result without one; TIAS knows other types too.
ResultLists == Seq([type : Nat \cup {-1}, count : Nat])
Poses == [status : {"success", "failed", "missing"}, front : BOOLEAN, down : BOOLEAN]

\* STUDENT_OBJECT_TYPES.
ObjectType == [present |-> 100, face |-> 101, phone |-> 201, sleep |-> 202, read |-> 205]

\* _student_counts: the last result of a type counts, and none is zero.
StudentMetric(results) ==
  [name \in DOMAIN ObjectType |->
     LET of == {i \in DOMAIN results : results[i].type = ObjectType[name]}
     IN  IF of = {} THEN 0 ELSE results[Max(of)].count]

\* A pose that was not found may still come with a direction.
TeacherMetric(pose) ==
  [valid |-> pose.status = "success", front |-> pose.front, down |-> pose.down]

=============================================================================
