--------------------------- MODULE StreamAnalysis ---------------------------
(***************************************************************************)
(* What process_task may expect of the remote analyzer for one task: the   *)
(* students' frames get their results first, in the order of the video,    *)
(* then the teacher's; a stream may be begun once more from its start; and *)
(* the analysis is done only when each frame of both has its result.       *)
(* Anything else is a failure of the whole analysis.                       *)
(***************************************************************************)
EXTENDS Naturals

CONSTANT FrameCount   \* FrameCount[s]: the number of frames of stream s

VARIABLES
  phase,    \* the stream under analysis, or "idle", "done" or "failed"
  got,      \* the frames of the stream that have their result
  again     \* the stream has been begun a second time

analysisVars == <<phase, got, again>>

Streams == {"student", "teacher"}
Frames(s) == 0 .. FrameCount[s] - 1

Init == phase = "idle" /\ got = {} /\ again = FALSE

StartStream(s, isAgain) == phase' = s /\ got' = {} /\ again' = isAgain

Begin ==
  /\ phase \notin Streams
  /\ StartStream("student", FALSE)

\* The results of the next frames arrive.
Deliver ==
  /\ phase \in Streams
  /\ \E last \in Frames(phase) \ got : got' = 0 .. last
  /\ UNCHANGED <<phase, again>>

Restart ==
  /\ phase \in Streams
  /\ ~again
  /\ StartStream(phase, TRUE)

Finish ==
  /\ phase \in Streams
  /\ got = Frames(phase)
  /\ \/ phase = "student" /\ StartStream("teacher", FALSE)
     \/ phase = "teacher" /\ phase' = "done" /\ UNCHANGED <<got, again>>

Fail ==
  /\ phase \in Streams
  /\ phase' = "failed"
  /\ UNCHANGED <<got, again>>

Next == Begin \/ Deliver \/ Restart \/ Finish \/ Fail

Spec == Init /\ [][Next]_analysisVars

=============================================================================
