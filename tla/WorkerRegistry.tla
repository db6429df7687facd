--------------------------- MODULE WorkerRegistry ---------------------------
(***************************************************************************)
(* The registry of workers at work: workers that send heartbeats and stop, *)
(* and API processes that answer GET /api/workers and                      *)
(* GET /api/workers/{worker_id} by reading the registry one Redis call at  *)
(* a time, purging what they find expired.  pc[r] is the next call of      *)
(* reader r:                                                               *)
(*                                                                         *)
(*   idle -> read ... read -> idle                                         *)
(*           read -> drop -> read              the row is gone: SREM       *)
(*           read -> retire -> delete -> read  it is expired: SREM, DELETE *)
(*                                                                         *)
(* Definitions headed "Broken" are slips a later change of the code could  *)
(* make; no action uses them.                                              *)
(***************************************************************************)
CONSTANTS
  Workers,
  Readers,    \* API processes: each answers one request at a time
  NONE

ASSUME RegistryAssumption == NONE \notin Workers /\ NONE # "beat"

VARIABLES
  index, row, late,   \* the registry, see HeartbeatRegistry
  up,         \* the workers that send heartbeats
  pc,         \* pc[r]: the next Redis call of reader r
  todo,       \* todo[r]: the members whose rows r has still to read
  current,    \* current[r]: the member r is purging, or NONE
  answer,     \* answer[r]: the members r found so far
  throughout, \* history: members indexed, with a row in time, ever since r's request began
  sometime    \* history: members that had a row at some time since r's request began

\* What a row says plays no part here: it is there or it is not.
INSTANCE HeartbeatRegistry WITH Members <- Workers, Contents <- {"beat"}

registryVars == <<index, row, late>>
readerVars == <<pc, todo, current, answer>>
histVars == <<throughout, sometime>>
vars == <<registryVars, up, readerVars, histVars>>

TypeOK ==
  /\ RegistryTypeOK
  /\ up \subseteq Workers
  /\ pc \in [Readers -> {"idle", "read", "drop", "retire", "delete"}]
  /\ todo \in [Readers -> SUBSET Workers]
  /\ current \in [Readers -> Workers \cup {NONE}]
  /\ \A r \in Readers : current[r] = NONE <=> pc[r] \in {"idle", "read"}
  /\ answer \in [Readers -> SUBSET Workers]
  /\ throughout \in [Readers -> SUBSET Workers]
  /\ sometime \in [Readers -> SUBSET Workers]

Init ==
  /\ RegistryInit
  /\ up = Workers
  /\ pc = [r \in Readers |-> "idle"]
  /\ todo = [r \in Readers |-> {}]
  /\ current = [r \in Readers |-> NONE]
  /\ answer = [r \in Readers |-> {}]
  /\ throughout = [r \in Readers |-> {}]
  /\ sometime = [r \in Readers |-> {}]

\* The members an answer must show, and those it may show.
WithRow == {w \in Workers : row[w] # NONE}
Present == (index \cap WithRow) \ late

\* The histories after a step of the registry, for every request under way.
Watch ==
  /\ throughout' = [r \in Readers |-> throughout[r] \cap Present']
  /\ sometime' = [r \in Readers |-> IF pc[r] = "idle" THEN {} ELSE sometime[r] \cup WithRow']

-----------------------------------------------------------------------------
(* Workers and Redis                                                       *)

\* A heartbeat of ControlledVisionOrchestratorKafkaConsumer.
Beat(w) ==
  /\ w \in up
  /\ Upsert(w, "beat")
  /\ Watch
  /\ UNCHANGED <<up, readerVars>>

Stop(w) ==
  /\ w \in up
  /\ up' = up \ {w}
  /\ UNCHANGED <<registryVars, readerVars, histVars>>

\* The TTL of w's row runs out in Redis.
Expire(w) ==
  /\ RowExpires(w)
  /\ Watch
  /\ UNCHANGED <<up, readerVars>>

TurnLate(w) ==
  /\ RowTurnsLate(w)
  /\ Watch
  /\ UNCHANGED <<up, readerVars>>

-----------------------------------------------------------------------------
(* list_workers and get_worker                                             *)

Start(r, members) ==
  /\ pc[r] = "idle"
  /\ pc' = [pc EXCEPT ![r] = "read"]
  /\ todo' = [todo EXCEPT ![r] = members]
  /\ throughout' = [throughout EXCEPT ![r] = Present \cap members]
  /\ sometime' = [sometime EXCEPT ![r] = WithRow]
  /\ UNCHANGED <<registryVars, up, current, answer>>

\* list_workers begins with SMEMBERS of the index.
StartListing(r) == Start(r, index)

\* get_worker reads one row, whether the worker is indexed or not.
StartLookup(r, w) == Start(r, {w})

\* Broken: a listing ends at the first member without a row.
ReadRowStops(r, w) ==
  /\ pc[r] = "read"
  /\ w \in todo[r]
  /\ \/ /\ row[w] # NONE /\ w \notin late
        /\ answer' = [answer EXCEPT ![r] = @ \cup {w}]
        /\ todo' = [todo EXCEPT ![r] = @ \ {w}]
        /\ UNCHANGED <<pc, current>>
     \/ /\ row[w] = NONE \/ w \in late
        /\ pc' = [pc EXCEPT ![r] = IF row[w] = NONE THEN "drop" ELSE "retire"]
        /\ current' = [current EXCEPT ![r] = w]
        /\ todo' = [todo EXCEPT ![r] = {}]
        /\ UNCHANGED answer
  /\ UNCHANGED <<registryVars, up, histVars>>

\* GET of one row.  A row in time is part of the answer; without a row, or
\* with an expired one, the purge of w is next.
ReadRow(r, w) ==
  /\ pc[r] = "read"
  /\ w \in todo[r]
  /\ todo' = [todo EXCEPT ![r] = @ \ {w}]
  /\ \/ /\ row[w] # NONE /\ w \notin late
        /\ answer' = [answer EXCEPT ![r] = @ \cup {w}]
        /\ UNCHANGED <<pc, current>>
     \/ /\ row[w] = NONE \/ w \in late
        /\ pc' = [pc EXCEPT ![r] = IF row[w] = NONE THEN "drop" ELSE "retire"]
        /\ current' = [current EXCEPT ![r] = w]
        /\ UNCHANGED answer
  /\ UNCHANGED <<registryVars, up, histVars>>

\* Broken: the purge leaves the index alone.
DropKeepsIndex(r) ==
  /\ pc[r] \in {"drop", "retire"}
  /\ pc' = [pc EXCEPT ![r] = IF @ = "retire" THEN "delete" ELSE "read"]
  /\ current' = [current EXCEPT ![r] = IF pc[r] = "retire" THEN @ ELSE NONE]
  /\ UNCHANGED <<registryVars, up, todo, answer, histVars>>

\* SREM.  What r read may be out of date by now: w may have sent a heartbeat.
Drop(r) ==
  /\ pc[r] \in {"drop", "retire"}
  /\ DropFromIndex(current[r])
  /\ Watch
  /\ pc' = [pc EXCEPT ![r] = IF @ = "retire" THEN "delete" ELSE "read"]
  /\ current' = [current EXCEPT ![r] = IF pc[r] = "retire" THEN @ ELSE NONE]
  /\ UNCHANGED <<up, todo, answer>>

\* DELETE of the expired row, or of the one a heartbeat has put there since.
Delete(r) ==
  /\ pc[r] = "delete"
  /\ DeleteRow(current[r])
  /\ Watch
  /\ pc' = [pc EXCEPT ![r] = "read"]
  /\ current' = [current EXCEPT ![r] = NONE]
  /\ UNCHANGED <<up, todo, answer>>

\* The response is complete.
Reply(r) ==
  /\ pc[r] = "read"
  /\ todo[r] = {}
  /\ pc' = [pc EXCEPT ![r] = "idle"]
  /\ answer' = [answer EXCEPT ![r] = {}]
  /\ throughout' = [throughout EXCEPT ![r] = {}]
  /\ sometime' = [sometime EXCEPT ![r] = {}]
  /\ UNCHANGED <<registryVars, up, todo, current>>

-----------------------------------------------------------------------------
ReaderStep(r) ==
  \/ (\E w \in Workers : ReadRow(r, w))
  \/ Drop(r) \/ Delete(r) \/ Reply(r)

Next ==
  \/ \E w \in Workers : Beat(w) \/ Stop(w) \/ Expire(w) \/ TurnLate(w)
  \/ \E r \in Readers :
       ReaderStep(r) \/ StartListing(r) \/ (\E w \in Workers : StartLookup(r, w))

Spec == Init /\ [][Next]_vars

\* Fairness.  A worker that is up goes on sending heartbeats (run_forever, or
\* the callback of the handler), Redis drops the row of one that is not, a
\* request once begun is answered, and GET /api/workers is asked again and
\* again by whoever watches the cluster.
Fairness ==
  /\ \A w \in Workers :
       /\ WF_vars(Beat(w))
       /\ WF_vars(w \notin up /\ Expire(w))
  /\ \A r \in Readers :
       /\ WF_vars(ReaderStep(r))
       /\ SF_vars(StartListing(r))

FairSpec == Spec /\ Fairness

-----------------------------------------------------------------------------
(* Properties                                                              *)

\* An answer shows every worker that was registered and in time during the
\* whole request, whatever other readers purge meanwhile, and none that had no
\* row at all during it (list_workers and get_worker, worker_registry.py:139).
ListingIsHonest ==
  \A r \in Readers :
    /\ throughout[r] \subseteq answer[r] \cup todo[r]
    /\ answer[r] \subseteq sometime[r]

\* A reader's purge may strike a worker that has just sent a heartbeat (the
\* GET and the SREM or DELETE are separate calls), but the next heartbeat
\* repairs it: a worker that stays up is registered again and again.
KeepsComingBack ==
  \A w \in Workers : <>[](w \in up) => []<>(w \in Present)

\* A worker that stopped leaves the index and its row behind only for a while.
GhostsGoAway ==
  \A w \in Workers : <>[](w \notin up) => <>[](w \notin index /\ row[w] = NONE)

=============================================================================
