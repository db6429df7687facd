--------------------------- MODULE CircuitBreaker ---------------------------
(***************************************************************************)
(* What the circuit breaker of TiasScheduler promises for each instance:   *)
(* after Threshold failures without a success between them the instance is *)
(* not asked until Cooldown ticks have passed; then it starts afresh, with *)
(* no failure counted.                                                     *)
(***************************************************************************)
EXTENDS Naturals

CONSTANTS Instances, Threshold, Cooldown

VARIABLE breaker    \* breaker[i]: failures counted, and ticks until the breaker closes

Closed == [failures |-> 0, wait |-> 0]

Init == breaker = [i \in Instances |-> Closed]

\* Both answers come from an instance whose breaker is closed.
Succeed(i) ==
  /\ breaker[i].wait = 0
  /\ breaker' = [breaker EXCEPT ![i] = Closed]

Fail(i) ==
  /\ breaker[i].wait = 0
  /\ LET n == breaker[i].failures + 1
     IN  breaker' = [breaker EXCEPT ![i] =
                       [failures |-> n, wait |-> IF n >= Threshold THEN Cooldown ELSE 0]]

Wait(b) ==
  IF b.wait = 0 THEN b
  ELSE IF b.wait = 1 THEN Closed
  ELSE [b EXCEPT !.wait = @ - 1]

Tick == breaker' = [i \in Instances |-> Wait(breaker[i])]

Next == Tick \/ \E i \in Instances : Succeed(i) \/ Fail(i)

Spec == Init /\ [][Next]_breaker

=============================================================================
