---------------------------- MODULE TaskDelivery ----------------------------
(***************************************************************************)
(* What the Kafka side of the system promises about the tasks of a topic:  *)
(* at-least-once, in order.  A record is settled once a worker has given   *)
(* it a final status (success, failed, or rejected as invalid); only the   *)
(* oldest unacknowledged record, or one that was acknowledged before, can  *)
(* be settled; and a partition is acknowledged one settled record at a     *)
(* time, never backwards.                                                  *)
(***************************************************************************)
EXTENDS Naturals, Sequences

CONSTANTS Partitions, Log

VARIABLES
  acked,      \* acked[p]: the number of acknowledged records of p
  settled     \* settled[p]: the offsets that have been given a final status

deliveryVars == <<acked, settled>>

Init ==
  /\ acked = [p \in Partitions |-> 0]
  /\ settled = [p \in Partitions |-> {}]

Settle(p, o) ==
  /\ o <= acked[p]
  /\ settled' = [settled EXCEPT ![p] = @ \cup {o}]
  /\ UNCHANGED acked

Ack(p) ==
  /\ acked[p] \in settled[p]
  /\ acked' = [acked EXCEPT ![p] = @ + 1]
  /\ UNCHANGED settled

Next ==
  \E p \in Partitions :
    \/ Ack(p)
    \/ \E o \in 0 .. Len(Log[p]) - 1 : Settle(p, o)

Spec == Init /\ [][Next]_deliveryVars

=============================================================================
