--------------------------- MODULE MCTaskPipeline ---------------------------
(***************************************************************************)
(* Small instances of TaskPipeline for TLC.                                *)
(***************************************************************************)
EXTENDS TaskPipeline, TLC

CONSTANTS w1, w2, p1, p2, t1, t2, k1

Task(t) == [kind |-> "task", task |-> t]
Invalid(t) == [kind |-> "invalid", task |-> t]
Undecodable(t) == [kind |-> "undecodable", task |-> t]

\* One partition
OneTask == p1 :> <<Task(t1)>>
InvalidThenTask == p1 :> <<Invalid(t2), Task(t1)>>
TaskThenPoison == p1 :> <<Task(t1), Undecodable(t2)>>

\* Two partitions
TaskAndInvalid == p1 :> <<Task(t1), Invalid(t1)>> @@ p2 :> <<Task(t2)>>

NoFaults == [kind \in Kinds |-> 0]
With(kinds) == [kind \in Kinds |-> IF kind \in kinds THEN 1 ELSE 0]

DeliveryFaults == With({"kafka", "crash", "evict"})
StoreFaults == With({"redis", "db", "crash"})
DbOutage == [NoFaults EXCEPT !["db"] = 1]
RedisOutage == [NoFaults EXCEPT !["redis"] = 1]
ControlEvents == [With({"expire", "redis", "kafka"}) EXCEPT !["control"] = 2]
LiveFaults == With({"evict", "crash", "control"})

WorkerSymmetry == Permutations(Workers)

=============================================================================
