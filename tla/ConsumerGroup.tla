--------------------------- MODULE ConsumerGroup ---------------------------
(***************************************************************************)
(* The Kafka consumer group as the workers of app/main.py see it through   *)
(* kafka-python: create_kafka_consumer joins one group with auto commit    *)
(* off, poll hands out one record of an assigned partition, and commit()   *)
(* stores the next offset of the partitions.  This is external code,       *)
(* modelled from how app/infrastructure/kafka calls it.                    *)
(*                                                                         *)
(* The rebalance protocol is kafka-python's eager one: every member must   *)
(* be inside poll() before partitions are handed out again, and a member   *)
(* that stays away from poll() for max_poll_interval_ms is put out of the  *)
(* group while its process runs on (a zombie).                             *)
(***************************************************************************)
EXTENDS Deployment, Naturals, Sequences

CONSTANTS
  Partitions,   \* partitions of the task topic
  Log           \* Log[p]: the records of partition p; the record of offset o is Log[p][o + 1]

VARIABLES
  members,      \* the workers the group coordinator counts as members
  owner,        \* owner[p]: the member partition p is assigned to, or NONE
  position,     \* position[p]: offset the owner's next poll fetches
  committed     \* committed[p]: offset stored in the group, the first not yet acknowledged

groupVars == <<members, owner, position, committed>>

Offsets(p) == 0 .. Len(Log[p])

Record(p, o) == Log[p][o + 1]

GroupTypeOK ==
  /\ members \subseteq Workers
  /\ owner \in [Partitions -> Workers \cup {NONE}]
  /\ position \in [Partitions -> Nat]
  /\ committed \in [Partitions -> Nat]
  /\ \A p \in Partitions : position[p] \in Offsets(p) /\ committed[p] \in Offsets(p)

GroupInit ==
  /\ members = {}
  /\ owner = [p \in Partitions |-> NONE]
  /\ position = [p \in Partitions |-> 0]
  /\ committed = [p \in Partitions |-> 0]

\* A partition without an owner, or a poller that is not a member yet, makes
\* every poll() wait for the next rebalance.
RebalancePending(polling) ==
  \/ \E p \in Partitions : owner[p] = NONE
  \/ ~(polling \subseteq members)

\* The rebalance completes once every member is inside poll().  Pollers join,
\* the assignor hands out all partitions, and each new owner starts at the
\* committed offset (auto_offset_reset only matters before the first commit).
Rebalance(polling) ==
  /\ RebalancePending(polling)
  /\ members \subseteq polling
  /\ \E joined \in (SUBSET polling) \ {{}} :
       /\ members \subseteq joined
       /\ members' = joined
       /\ owner' \in [Partitions -> joined]
  /\ position' = committed
  /\ UNCHANGED committed

\* The coordinator drops a member: session timeout of a dead process, or
\* max_poll_interval_ms exceeded by a live one.
Leave(w) ==
  /\ w \in members
  /\ members' = members \ {w}
  /\ owner' = [p \in Partitions |-> IF owner[p] = w THEN NONE ELSE owner[p]]
  /\ UNCHANGED <<position, committed>>

\* poll() returns a record of p and moves the owner's position past it.
Take(w, p) ==
  /\ w \in members
  /\ owner[p] = w
  /\ position[p] < Len(Log[p])
  /\ position' = [position EXCEPT ![p] = @ + 1]
  /\ UNCHANGED <<members, owner, committed>>

\* commit() without arguments stores the position of every assigned partition.
CommitAll(w) ==
  /\ w \in members
  /\ committed' = [p \in Partitions |-> IF owner[p] = w THEN position[p] ELSE committed[p]]
  /\ UNCHANGED <<members, owner, position>>

\* commit({partition: offset}) stores one offset.
CommitOne(w, p, o) ==
  /\ w \in members
  /\ committed' = [committed EXCEPT ![p] = o]
  /\ UNCHANGED <<members, owner, position>>

=============================================================================
