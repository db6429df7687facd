------------------------- MODULE HeartbeatRegistry -------------------------
(***************************************************************************)
(* A registry of heartbeats in Redis, as RedisWorkerRegistry and           *)
(* RedisTiasRegistry keep it: a set that indexes the registered members,   *)
(* and one row per member that Redis drops when its TTL runs out.  Each    *)
(* operator is one call, or one pipeline, of those classes; Redis carries  *)
(* them out one at a time.                                                 *)
(*                                                                         *)
(* A row also holds its own expires_at, which a reader compares with the   *)
(* reader's clock (is_expired): when that clock is ahead of Redis, a row   *)
(* is late although Redis still holds it.                                  *)
(***************************************************************************)
CONSTANTS
  Members,    \* worker ids or TIAS instance ids
  Contents,   \* what a row may say
  NONE        \* no row

VARIABLES
  index,      \* the members of the index set
  row,        \* row[m]: what the row of m says, or NONE
  late        \* the members whose row has passed its expires_at on the readers' clock

RegistryTypeOK ==
  /\ index \subseteq Members
  /\ row \in [Members -> Contents \cup {NONE}]
  /\ late \subseteq {m \in Members : row[m] # NONE}

RegistryInit ==
  /\ index = {}
  /\ row = [m \in Members |-> NONE]
  /\ late = {}

\* Broken: a member whose row is still there is not added to the index again.
UpsertRowOnly(m, content) ==
  /\ index' = IF row[m] = NONE THEN index \cup {m} ELSE index
  /\ row' = [row EXCEPT ![m] = content]
  /\ late' = late \ {m}

\* upsert: SADD and SET EX in one pipeline.
Upsert(m, content) ==
  /\ index' = index \cup {m}
  /\ row' = [row EXCEPT ![m] = content]
  /\ late' = late \ {m}

\* SREM: a reader found no row, or an expired one.
DropFromIndex(m) ==
  /\ index' = index \ {m}
  /\ UNCHANGED <<row, late>>

\* DELETE of the row alone.
DeleteRow(m) ==
  /\ row' = [row EXCEPT ![m] = NONE]
  /\ late' = late \ {m}
  /\ UNCHANGED index

\* RedisTiasRegistry.unregister: SREM and DELETE in one pipeline.
Unregister(m) ==
  /\ index' = index \ {m}
  /\ row' = [row EXCEPT ![m] = NONE]
  /\ late' = late \ {m}

\* Redis drops the row; the index keeps the member.
RowExpires(m) ==
  /\ row[m] # NONE
  /\ DeleteRow(m)

\* The readers' clock passes the row's expires_at.
RowTurnsLate(m) ==
  /\ row[m] # NONE
  /\ late' = late \cup {m}
  /\ UNCHANGED <<index, row>>

=============================================================================
