------------------------- MODULE WorkerControlProofs -------------------------
(***************************************************************************)
(* Proofs about WorkerControl, for any workers, default state and bound on *)
(* versions.  What the versions promise needs a single API process: with   *)
(* two of them TLC shows VersionIncrements violated (run two_apis).        *)
(***************************************************************************)
EXTENDS WorkerControl, TLAPS

OneProcess == \A a, b \in ApiProcesses : a = b

-----------------------------------------------------------------------------
(* Type correctness                                                        *)

LEMMA ControlTypes ==
  ASSUME TypeOK
  PROVE  Control \in States /\ Control.version \in Nat
BY ControlAssumption DEF TypeOK, Control, States

LEMMA TypeInit == Init => TypeOK
BY DEF Init, TypeOK

LEMMA TypeStep ==
  ASSUME TypeOK, [Next]_vars
  PROVE  TypeOK'
<1>0. Control \in States /\ Control.version \in Nat
  BY ControlTypes
<1>1. ASSUME NEW a \in ApiProcesses, WriteState(a) PROVE TypeOK'
  <2>1. request[a] \in DesiredStates
    BY <1>1 DEF WriteState, TypeOK, Requests, DesiredStates
  <2>2. stored' \in States
    BY <1>1, <2>1 DEF WriteState, TypeOK, States
  <2> QED BY <1>1, <2>2 DEF WriteState, TypeOK
<1>2. ASSUME NEW a \in ApiProcesses, NEW state \in Requests, ReadVersion(a, state)
      PROVE  TypeOK'
  BY <1>0, <1>2 DEF ReadVersion, TypeOK
<1>3. ASSUME NEW w \in Workers, Observe(w) \/ Replace(w) PROVE TypeOK'
  BY <1>0, <1>3 DEF Observe, Replace, TypeOK
<1>4. CASE UNCHANGED vars
  BY <1>4 DEF vars, TypeOK
<1> QED BY <1>1, <1>2, <1>3, <1>4 DEF Next

-----------------------------------------------------------------------------
(* Versions                                                                *)

\* The version an API process is about to count on is the one in Redis, as
\* nobody else writes between its GET and its SET.
BaseIsCurrent ==
  \A a \in ApiProcesses : request[a] # NONE => base[a] = Control.version

\* No worker has seen a version that is still to come.
SeenIsPast ==
  \A w \in Workers : seen[w] # NONE => seen[w].version <= Control.version

VersionInv == TypeOK /\ BaseIsCurrent /\ SeenIsPast /\ SameVersionSameState

LEMMA VersionInit == Init => VersionInv
BY TypeInit DEF Init, VersionInv, BaseIsCurrent, SeenIsPast, SameVersionSameState

\* The single writer's SET is the next version of the state in Redis.
LEMMA WriteIncrements ==
  ASSUME VersionInv, NEW a \in ApiProcesses, WriteState(a)
  PROVE  Control'.version = Control.version + 1
<1>1. request[a] \in DesiredStates /\ base[a] = Control.version /\ Control.version \in Nat
  BY ControlTypes
  DEF WriteState, VersionInv, BaseIsCurrent, TypeOK, Requests, DesiredStates
<1>2. stored' = [desired |-> request[a], version |-> Control.version + 1]
  BY <1>1 DEF WriteState
<1>3. stored' \in States /\ stored' # NONE
  BY <1>1, <1>2, ControlAssumption DEF States
<1> QED BY <1>2, <1>3 DEF Control

LEMMA VersionStep ==
  ASSUME OneProcess, VersionInv, [Next]_vars
  PROVE  VersionInv'
<1>0. TypeOK /\ TypeOK' /\ Control \in States /\ Control.version \in Nat
  BY TypeStep, ControlTypes DEF VersionInv
<1>1. ASSUME NEW a \in ApiProcesses, WriteState(a) PROVE VersionInv'
  <2>1. Control'.version = Control.version + 1 /\ UNCHANGED seen
    BY <1>1, WriteIncrements DEF WriteState
  <2>2. BaseIsCurrent'
    BY <1>1 DEF WriteState, OneProcess, BaseIsCurrent, TypeOK, VersionInv
  <2>3. ASSUME NEW w \in Workers, seen[w] # NONE
        PROVE  seen[w].version < Control'.version /\ seen[w].version \in Nat
    BY <1>0, <2>1, <2>3 DEF VersionInv, SeenIsPast, TypeOK, States
  <2>4. SeenIsPast' /\ SameVersionSameState'
    <3>1. Control'.version \in Nat
      BY <1>0, <2>1
    <3> QED BY <2>1, <2>3, <3>1 DEF SeenIsPast, SameVersionSameState
  <2> QED BY <1>0, <2>2, <2>4 DEF VersionInv
<1>2. ASSUME NEW a \in ApiProcesses, NEW state \in Requests, ReadVersion(a, state)
      PROVE  VersionInv'
  <2>1. Control' = Control /\ UNCHANGED seen
    BY <1>2 DEF ReadVersion, Control
  <2>2. BaseIsCurrent'
    BY <1>2, <2>1 DEF ReadVersion, BaseIsCurrent, TypeOK, VersionInv
  <2> QED
    BY <1>0, <2>1, <2>2 DEF VersionInv, SeenIsPast, SameVersionSameState
<1>3. ASSUME NEW w \in Workers, Observe(w) \/ Replace(w) PROVE VersionInv'
  <2>1. Control' = Control /\ UNCHANGED <<request, base>>
    BY <1>3 DEF Observe, Replace, Control
  <2>2. seen' \in {[seen EXCEPT ![w] = Control], [seen EXCEPT ![w] = NONE]}
    BY <1>3 DEF Observe, Replace
  <2>3. SeenIsPast' /\ SameVersionSameState'
    BY <1>0, <2>1, <2>2 DEF SeenIsPast, SameVersionSameState, TypeOK, VersionInv
  <2> QED BY <1>0, <2>1, <2>3 DEF VersionInv, BaseIsCurrent
<1>4. CASE UNCHANGED vars
  BY <1>0, <1>4
  DEF vars, VersionInv, BaseIsCurrent, SeenIsPast, SameVersionSameState, Control
<1> QED BY <1>1, <1>2, <1>3, <1>4 DEF Next

\* With one API process, a worker that finds the version it saw last has missed
\* no change of the desired state (_log_control_state compares versions only).
THEOREM VersionsTellStates ==
  ASSUME OneProcess PROVE Spec => []SameVersionSameState
<1>1. VersionInv /\ [Next]_vars => VersionInv'
  BY VersionStep
<1>2. VersionInv => SameVersionSameState
  BY DEF VersionInv
<1> QED BY <1>1, <1>2, VersionInit, PTL DEF Spec

\* With one API process, every change of the state in Redis is the next version
\* (set_desired_state writes the version it has read, plus one).
THEOREM VersionsCount ==
  ASSUME OneProcess PROVE Spec => VersionIncrements
<1>1. VersionInv /\ [Next]_vars => VersionInv'
  BY VersionStep
<1>2. ASSUME VersionInv, [Next]_vars
      PROVE  Control' # Control => Control'.version = Control.version + 1
  <2>1. ASSUME NEW a \in ApiProcesses, WriteState(a)
        PROVE  Control'.version = Control.version + 1
    BY <1>2, <2>1, WriteIncrements
  <2>2. (~ \E a \in ApiProcesses : WriteState(a)) => Control' = Control
    BY <1>2 DEF Next, ReadVersion, Observe, Replace, vars, Control
  <2> QED BY <2>1, <2>2
<1>3. VersionInv /\ [Next]_vars
      => [Control' # Control => Control'.version = Control.version + 1]_vars
  BY <1>2
<1> QED BY <1>1, <1>3, VersionInit, PTL DEF Spec, VersionIncrements

=============================================================================
