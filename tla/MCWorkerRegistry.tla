-------------------------- MODULE MCWorkerRegistry --------------------------
(***************************************************************************)
(* Small instances of WorkerRegistry for TLC.                              *)
(***************************************************************************)
EXTENDS WorkerRegistry

CONSTANTS w1, w2, r1, r2

=============================================================================
