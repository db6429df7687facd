--------------------------- MODULE MCTiasDispatch ---------------------------
(***************************************************************************)
(* Small instances of TiasDispatch for TLC.                                *)
(***************************************************************************)
EXTENDS TiasDispatch, TLC

CONSTANTS i1, i2

StudentsOnly2 == [i \in Instances |-> IF i = i2 THEN {"student"} ELSE Streams]

\* Frames of the students' and of the teacher's video
Frames31 == [student |-> 3, teacher |-> 1]

=============================================================================
