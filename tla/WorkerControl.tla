--------------------------- MODULE WorkerControl ---------------------------
(***************************************************************************)
(* The desired state of the cluster in Redis: API processes that set it    *)
(* (resume, pause, drain), and workers that read it and log a change when  *)
(* the version is not the one they saw last.                               *)
(*                                                                         *)
(* RedisWorkerControlStateRepository.set_desired_state is a GET followed   *)
(* by a SET of version + 1.  The endpoints are coroutines that never await *)
(* between the two, so one API process carries out its requests one after  *)
(* the other; two processes are not kept apart by anything.                *)
(*                                                                         *)
(* Definitions headed "Broken" are slips a later change of the code could  *)
(* make; no action uses them.                                              *)
(***************************************************************************)
EXTENDS Naturals

CONSTANTS
  ApiProcesses,
  Workers,
  DefaultState,   \* WorkerDefaultDesiredState, while the key does not exist
  MaxVersion,     \* bound: no request begins at this version or above it
  NONE

DesiredStates == {"RUNNING", "PAUSED", "DRAINING", "STOPPED"}
Requests == {"RUNNING", "PAUSED", "DRAINING"}   \* the endpoints there are

States == [desired : DesiredStates, version : Nat]

ASSUME ControlAssumption ==
  /\ DefaultState \in DesiredStates
  /\ MaxVersion \in Nat
  /\ NONE \notin DesiredStates /\ NONE \notin States

VARIABLES
  stored,     \* the state under the Redis key, or NONE before the first request
  request,    \* request[a]: the state API process a is about to set, or NONE
  base,       \* base[a]: the version a has read for that request
  seen        \* seen[w]: the state worker w read when it last found a new version, or NONE

vars == <<stored, request, base, seen>>

TypeOK ==
  /\ stored \in States \cup {NONE}
  /\ request \in [ApiProcesses -> Requests \cup {NONE}]
  /\ base \in [ApiProcesses -> Nat]
  /\ seen \in [Workers -> States \cup {NONE}]

Init ==
  /\ stored = NONE
  /\ request = [a \in ApiProcesses |-> NONE]
  /\ base = [a \in ApiProcesses |-> 0]
  /\ seen = [w \in Workers |-> NONE]

\* get_state: without the key the default counts, at version 0.
Control == IF stored = NONE THEN [desired |-> DefaultState, version |-> 0] ELSE stored

\* The GET of set_desired_state.
ReadVersion(a, state) ==
  /\ request[a] = NONE
  /\ Control.version < MaxVersion
  /\ request' = [request EXCEPT ![a] = state]
  /\ base' = [base EXCEPT ![a] = Control.version]
  /\ UNCHANGED <<stored, seen>>

\* Broken: the version is written back as it was read.
WriteSameVersion(a) ==
  /\ request[a] # NONE
  /\ stored' = [desired |-> request[a], version |-> base[a]]
  /\ request' = [request EXCEPT ![a] = NONE]
  /\ UNCHANGED <<base, seen>>

\* The SET of set_desired_state.
WriteState(a) ==
  /\ request[a] # NONE
  /\ stored' = [desired |-> request[a], version |-> base[a] + 1]
  /\ request' = [request EXCEPT ![a] = NONE]
  /\ UNCHANGED <<base, seen>>

\* run_once reads the state; _log_control_state notes it when the version is
\* another one than the last.
Observe(w) ==
  /\ \/ seen[w] = NONE
     \/ seen[w] # NONE /\ seen[w].version # Control.version
  /\ seen' = [seen EXCEPT ![w] = Control]
  /\ UNCHANGED <<stored, request, base>>

\* The worker process is replaced; its successor has seen nothing.
Replace(w) ==
  /\ seen' = [seen EXCEPT ![w] = NONE]
  /\ UNCHANGED <<stored, request, base>>

Next ==
  \/ \E a \in ApiProcesses : WriteState(a) \/ \E state \in Requests : ReadVersion(a, state)
  \/ \E w \in Workers : Observe(w) \/ Replace(w)

Spec == Init /\ [][Next]_vars

\* Every accepted request is a version of its own, the next one: what
\* set_desired_state promises its caller, and what a worker relies on to notice
\* a change (worker_control.py:121, controlled_consumer.py:257).
VersionIncrements ==
  [][Control' # Control => Control'.version = Control.version + 1]_vars

\* A worker that finds the version it saw last has missed nothing: the desired
\* state is the one it noted then.
SameVersionSameState ==
  \A w \in Workers :
    seen[w] # NONE /\ seen[w].version = Control.version => seen[w] = Control

=============================================================================
