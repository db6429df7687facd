----------------------------- MODULE Deployment -----------------------------
(***************************************************************************)
(* The processes every module of the project speaks about.                 *)
(***************************************************************************)
CONSTANTS
  Workers,      \* controlled worker processes (app/main.py worker)
  NONE          \* no worker, no record, no row

ASSUME WorkerAssumption ==
  /\ NONE \notin Workers
  /\ "stale" \notin Workers

=============================================================================
