-------------------------- MODULE MCWorkerControl --------------------------
(***************************************************************************)
(* Small instances of WorkerControl for TLC.                               *)
(***************************************************************************)
EXTENDS WorkerControl, TLC

ControlSymmetry == Permutations(Workers)

=============================================================================
