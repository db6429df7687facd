--------------------------- MODULE WorkflowStore ---------------------------
(***************************************************************************)
(* The MySQL tables VisionOrchestratorRepository writes                    *)
(* (app/infrastructure/db/repositories.py).  Each operator is the effect   *)
(* of one committed transaction of that class; what an error does is up to *)
(* the caller.                                                             *)
(*                                                                         *)
(* A row's content is the run that wrote it: the worker, or "stale" once   *)
(* that worker has begun a later run of the same task.  The primary keys   *)
(* are stable_id hashes of the task and of what the row is about, so a     *)
(* second write of a key replaces the first one (ON DUPLICATE KEY UPDATE). *)
(*                                                                         *)
(* A definition headed "Broken" is a slip a later change could make; no    *)
(* action uses it.                                                         *)
(***************************************************************************)
EXTENDS Deployment

CONSTANTS
  Tasks,        \* task ids
  Keys,         \* row keys within one task and one table
  Indicators    \* the indicator codes that have a definition

ASSUME StoreAssumption == Indicators \subseteq Keys

VARIABLES
  workflow,     \* workflow[t]: status of the lesson_ai_workflow row of t and who set it
  rows          \* rows[table][t][k]: the run that wrote the row, or NONE for no row

storeVars == <<workflow, rows>>

\* lesson_behavior_timeline, lesson_snapshot_event and
\* lesson_student_behavior_stat, which a new run clears, and
\* indicator_score_result, which it does not.
ClearedTables == {"timeline", "snapshot", "stat"}
Tables == ClearedTables \cup {"indicator"}

Statuses == {"absent", "running", "success", "failed"}
Runs == Workers \cup {"stale", NONE}

StoreTypeOK ==
  /\ workflow \in [Tasks -> [status : Statuses, by : Workers \cup {NONE}]]
  /\ rows \in [Tables -> [Tasks -> [Keys -> Runs]]]

StoreInit ==
  /\ workflow = [t \in Tasks |-> [status |-> "absent", by |-> NONE]]
  /\ rows = [b \in Tables |-> [t \in Tasks |-> [k \in Keys |-> NONE]]]

SetStatus(t, w, status) ==
  workflow' = [workflow EXCEPT ![t] = [status |-> status, by |-> w]]

\* mark_workflow_running; w's rows of an earlier run turn stale.
MarkRunning(t, w) ==
  /\ SetStatus(t, w, "running")
  /\ rows' = [b \in Tables |->
                [rows[b] EXCEPT ![t] =
                   [k \in Keys |-> IF rows[b][t][k] = w THEN "stale" ELSE rows[b][t][k]]]]

\* mark_workflow_success and mark_workflow_failed: _update_workflow_final.
MarkFinal(t, w, status) ==
  /\ SetStatus(t, w, status)
  /\ UNCHANGED rows

\* Broken: the table added last is not cleared.
ClearKeepsStats(t) ==
  /\ rows' = [b \in Tables |->
                [rows[b] EXCEPT ![t] =
                   IF b \in {"timeline", "snapshot"} THEN [k \in Keys |-> NONE] ELSE @]]
  /\ UNCHANGED workflow

\* clear_previous_results: three DELETEs in one transaction.
ClearPreviousResults(t) ==
  /\ rows' = [b \in Tables |->
                [rows[b] EXCEPT ![t] =
                   IF b \in ClearedTables THEN [k \in Keys |-> NONE] ELSE @]]
  /\ UNCHANGED workflow

\* insert_timeline_rows, insert_snapshot_events, upsert_student_behavior_stats
\* and upsert_indicator_results: one executemany of upserts.
UpsertRows(b, t, w, ks) ==
  /\ rows' = [rows EXCEPT ![b][t] = [k \in Keys |-> IF k \in ks THEN w ELSE @[k]]]
  /\ UNCHANGED workflow

\* The keys a run may hand to the upsert of table b: any of them, the
\* analysis decides; every indicator that has a definition gets its row.
RowsOf(b) == IF b = "indicator" THEN {Indicators} ELSE SUBSET Keys

=============================================================================
