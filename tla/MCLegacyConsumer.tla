-------------------------- MODULE MCLegacyConsumer --------------------------
(***************************************************************************)
(* Small instances of LegacyConsumer for TLC.                              *)
(***************************************************************************)
EXTENDS LegacyConsumer, TLC

CONSTANTS p1, p2, t1, t2, e1

Video(source) == <<Null, [is |-> source], Null, Null>>

Message(ids, student, teacher, slides) ==
  [is |-> "object", ids |-> ids, student |-> Video(student), teacher |-> Video(teacher),
   slides |-> Video(slides)]

\* The student's video is downloaded, the teacher's is on the host.
Lesson(t) == Message(<<Null, Text(t, TRUE), Null>>, "url", "path", "null")

\* Everything should be on the host, but the slides are not.
Misplaced(t) == Message(<<Null, Null, Plain(t)>>, "path", "path", "noFile")

\* The task of a Lesson without a student video, named by another alias.
Incomplete(t) == Message(<<[is |-> "empty"], Plain(t), Null>>, "null", "path", "null")

Nameless == Message(<<[is |-> "zero"], Null, Null>>, "url", "url", "bareUrl")

MixedLog ==
  p1 :> <<Lesson(t1), Incomplete(t1)>> @@
  p2 :> <<Incomplete(t2), Misplaced(t2), Nameless, [is |-> "undecodable"]>>

LegacySymmetry == Permutations(Workers)

=============================================================================
