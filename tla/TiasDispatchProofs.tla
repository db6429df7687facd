------------------------- MODULE TiasDispatchProofs -------------------------
(***************************************************************************)
(* Proofs about TiasDispatch, for any finite set of instances, frames,     *)
(* batch size, tries, breaker settings, and any number of analyses and     *)
(* changes of the registry.                                                *)
(***************************************************************************)
EXTENDS TiasDispatch, FiniteSetTheorems, WellFoundedInduction, TLAPS

-----------------------------------------------------------------------------
(* Facts about numbers                                                     *)

LEMMA LeastNatural ==
  ASSUME NEW S \in SUBSET Nat, S # {}
  PROVE  \E n \in S : \A m \in S : n <= m
<1> DEFINE R == OpToRel(<, Nat)
<1>1. IsWellFoundedOn(R, Nat)
  BY NatLessThanWellFounded
<1>2. \A m, n \in Nat : m < n => <<m, n>> \in R
  BY DEF OpToRel
<1> HIDE DEF R
<1>3. PICK n \in S : \A m \in S : <<m, n>> \notin R
  BY <1>1, WFMin
<1>4. \A m \in S : ~(m < n)
  BY <1>2, <1>3
<1> QED BY <1>4

LEMMA Quotient ==
  ASSUME NEW f \in Nat
  PROVE  /\ f \div BatchSize \in Nat
         /\ BatchSize * (f \div BatchSize) <= f
         /\ f < BatchSize * (f \div BatchSize) + BatchSize
BY DispatchAssumption

LEMMA NextMultiple ==
  ASSUME NEW x \in Nat, NEW y \in Nat, x < y
  PROVE  BatchSize * x + BatchSize <= BatchSize * y /\ BatchSize * x \in Nat
<1>1. PICK d \in Nat : y = x + 1 + d
  <2>1. y - x - 1 \in Nat /\ y = x + 1 + (y - x - 1)
    OBVIOUS
  <2> QED BY <2>1
<1>2. BatchSize * y = BatchSize * x + BatchSize + BatchSize * d
  BY <1>1, DispatchAssumption
<1>3. BatchSize * d \in Nat /\ BatchSize * x \in Nat
  BY DispatchAssumption
<1> QED BY <1>2, <1>3, DispatchAssumption

\* The first b batches are the frames below b times the batch size.
LEMMA BatchBound ==
  ASSUME NEW f \in Nat, NEW b \in Nat
  PROVE  BatchOf(f) \in Nat \ {0} /\ (BatchOf(f) <= b <=> f < BatchSize * b)
<1>1. /\ f \div BatchSize \in Nat
      /\ BatchSize * (f \div BatchSize) <= f
      /\ f < BatchSize * (f \div BatchSize) + BatchSize
      /\ BatchSize * b \in Nat /\ BatchSize * (f \div BatchSize) \in Nat
  BY Quotient, DispatchAssumption
<1>2. f \div BatchSize < b <=> f < BatchSize * b
  <2>1. CASE f \div BatchSize < b
    BY <1>1, <2>1, NextMultiple, DispatchAssumption
  <2>2. CASE b < f \div BatchSize
    BY <1>1, <2>2, NextMultiple, DispatchAssumption
  <2>3. CASE b = f \div BatchSize
    BY <1>1, <2>3, DispatchAssumption
  <2> QED BY <1>1, <2>1, <2>2, <2>3
<1> QED BY <1>1, <1>2 DEF BatchOf

LEMMA FrameTypes ==
  ASSUME NEW s \in Streams
  PROVE  FrameCount[s] \in Nat /\ Frames(s) \subseteq Nat /\ NoResult(s) \in [Frames(s) -> {NONE}]
BY DispatchAssumption DEF Frames, NoResult

-----------------------------------------------------------------------------
(* Type correctness                                                        *)

LEMMA TypeInit == Init => TypeOK
<1> SUFFICES ASSUME Init PROVE TypeOK
  OBVIOUS
<1>1. RegistryTypeOK
  BY DispatchAssumption DEF Init, RegistryTypeOK, Reports, Loads
<1>2. stream \in Streams /\ results \in [Frames(stream) -> Nat \cup {NONE}]
  BY DEF Init, Streams, NoResult
<1>3. circuits \in [Instances -> Circuits] /\ found \in [Instances -> Reports \cup {NONE}]
  BY DEF Init, Circuits, NothingFound
<1> QED
  BY <1>1, <1>2, <1>3, DispatchAssumption DEF Init, TypeOK, Pcs, Ends

\* One more selection moves the counts of all instances by the same amount.
LEMMA CountTypes ==
  ASSUME lead \in [Instances -> Nat], NEW i \in Instances, CountSelection(i)
  PROVE  /\ lead' \in [Instances -> Nat]
         /\ \E least \in Nat : \A j \in Instances :
              lead'[j] = (IF j = i THEN lead[j] + 1 ELSE lead[j]) - least
<1> DEFINE counts == [lead EXCEPT ![i] = @ + 1]
           S == {counts[j] : j \in Instances}
           least == CHOOSE n \in S : \A j \in Instances : n <= counts[j]
<1>1. counts \in [Instances -> Nat] /\ S \in SUBSET Nat /\ S # {}
  OBVIOUS
<1>2. \E n \in S : \A j \in Instances : n <= counts[j]
  <2>1. \A j \in Instances : counts[j] \in S
    OBVIOUS
  <2> HIDE DEF S, counts
  <2> QED BY <1>1, <2>1, LeastNatural
<1>3. least \in Nat /\ \A j \in Instances : least <= counts[j]
  <2> HIDE DEF S, counts
  <2> QED BY <1>1, <1>2
<1>4. lead' = [j \in Instances |-> counts[j] - least]
  BY DEF CountSelection
<1> HIDE DEF least
<1> QED BY <1>1, <1>3, <1>4

\* What the operations of the registry keep.
LEMMA RegistryTypes ==
  ASSUME RegistryTypeOK, NEW i \in Instances,
         \/ \E report \in Reports : Upsert(i, report)
         \/ Unregister(i) \/ RowExpires(i) \/ RowTurnsLate(i) \/ DropFromIndex(i)
  PROVE  RegistryTypeOK'
<1>1. NONE \notin Reports
  BY DispatchAssumption DEF Reports, Loads
<1> QED
  BY <1>1
  DEF RegistryTypeOK, Upsert, Unregister, RowExpires, DeleteRow, RowTurnsLate, DropFromIndex

LEMMA CircuitTypes ==
  ASSUME circuits \in [Instances -> Circuits], NEW i \in Instances
  PROVE  /\ RecordFailure(i) => circuits' \in [Instances -> Circuits]
         /\ ForgetElapsed => circuits' \in [Instances -> Circuits]
         /\ [j \in Instances |-> Age(circuits[j])] \in [Instances -> Circuits]
<1>1. 0 \in 0 .. Cooldown /\ \A a \in 0 .. Cooldown : a < Cooldown => a + 1 \in 0 .. Cooldown
  BY DispatchAssumption
<1>2. ASSUME RecordFailure(i) PROVE circuits' \in [Instances -> Circuits]
  BY <1>1, <1>2, DispatchAssumption DEF RecordFailure, Circuits
<1>3. ASSUME ForgetElapsed PROVE circuits' \in [Instances -> Circuits]
  BY <1>3 DEF ForgetElapsed, Circuits
<1>4. ASSUME NEW c \in Circuits PROVE Age(c) \in Circuits
  BY <1>1, DispatchAssumption DEF Age, Open, Circuits
<1> QED BY <1>2, <1>3, <1>4

\* Starting a stream.
LEMMA StartTypes ==
  ASSUME NEW s \in Streams, NEW isAgain \in BOOLEAN, StartStream(s, isAgain)
  PROVE  /\ stream' \in Streams /\ batch' \in Nat /\ again' \in BOOLEAN
         /\ pc' = "batch" /\ results' \in [Frames(stream') -> Nat \cup {NONE}]
BY DEF StartStream, NoResult

LEMMA WorkerTypes ==
  ASSUME TypeOK, WorkerStep
  PROVE  TypeOK'
<1> USE DEF TypeOK, RegistryTypeOK, registryVars, taskVars, tryVars, listVars, schedVars
<1>1. CASE Begin
  <2>1. "student" \in Streams
    BY DEF Streams
  <2>2. /\ stream' \in Streams /\ batch' \in Nat /\ again' \in BOOLEAN
        /\ pc' = "batch" /\ results' \in [Frames(stream') -> Nat \cup {NONE}]
    BY <1>1, <2>1, StartTypes DEF Begin
  <2> QED BY <1>1, <2>2 DEF Begin, Ends, Pcs
<1>2. CASE StartBatch
  BY <1>2, DispatchAssumption DEF StartBatch, Try, Ends, Pcs
<1>3. CASE FinishStream
  <2>1. "teacher" \in Streams
    BY DEF Streams
  <2>2. CASE StartStream("teacher", FALSE)
    <3>1. /\ stream' \in Streams /\ batch' \in Nat /\ again' \in BOOLEAN
          /\ pc' = "batch" /\ results' \in [Frames(stream') -> Nat \cup {NONE}]
      BY <2>1, <2>2, StartTypes
    <3> QED BY <1>3, <3>1 DEF FinishStream, Ends, Pcs
  <2>3. CASE pc' = "done" /\ UNCHANGED taskVars
    BY <1>3, <2>3 DEF FinishStream, Ends, Pcs
  <2> QED BY <1>3, <2>2, <2>3 DEF FinishStream
<1>4. CASE Rerun
  BY <1>4, StartTypes DEF Rerun, Ends, Pcs
<1>5. CASE List
  BY <1>5 DEF List, NothingFound, Ends, Pcs
<1>6. ASSUME NEW i \in Instances, ReadRow(i) PROVE TypeOK'
  BY <1>6, DispatchAssumption DEF ReadRow, Ends, Pcs
<1>7. CASE Purge
  <2>1. target \in Instances
    BY <1>7 DEF Purge
  <2>2. RegistryTypeOK'
    BY <1>7, <2>1, RegistryTypes DEF Purge
  <2> QED BY <1>7, <2>2 DEF Purge, NotReady, Ends, Pcs
<1>8. CASE Select
  <2>1. circuits' \in [Instances -> Circuits]
    BY <1>8 DEF Select, ForgetElapsed, Circuits
  <2>2. CASE Candidates = {}
    BY <1>8, <2>1, <2>2 DEF Select, NothingFound, Ends, Pcs
  <2>3. ASSUME NEW i \in Candidates, CountSelection(i), target' = i, pc' = "post",
               asked' = asked \cup {i}, reservations' = [reservations EXCEPT ![i] = @ + 1]
        PROVE  TypeOK'
    <3>1. i \in Instances /\ lead' \in [Instances -> Nat]
      BY <2>3, CountTypes DEF Candidates, Examined
    <3>2. reservations' \in [Instances -> Nat] /\ asked' \subseteq Instances
      BY <2>3, <3>1
    <3>3. /\ found' \in [Instances -> Reports \cup {NONE}]
          /\ UNCHANGED <<registryVars, taskVars, attempt, excluded, todo, answered, left,
                         changes, down>>
          /\ todo = {} /\ pc = "read"
      BY <1>8 DEF Select, NothingFound
    <3> QED
      BY <2>1, <2>3, <3>1, <3>2, <3>3, DispatchAssumption DEF Ends, Pcs
  <2> QED BY <1>8, <2>2, <2>3 DEF Select
<1>9. ASSUME Release, pc = "post", pc' \notin {"drop", "retire", "post"}
      PROVE  target' = NONE /\ reservations' \in [Instances -> Nat] /\ target \in Instances
  BY <1>9 DEF Release
<1>10. CASE Post
  <2>1. pc = "post" /\ target \in Instances
    BY <1>10 DEF Post, Answer, FailRetryable, FailFatal
  <2>2. CASE Answer
    <3>1. Frames(stream) \subseteq Nat
      BY FrameTypes
    <3> QED BY <2>1, <2>2, <3>1, <1>9, DispatchAssumption DEF Answer, Answers, Circuits, Ends, Pcs
  <2>3. CASE FailRetryable
    BY <2>1, <2>3, <1>9, CircuitTypes, DispatchAssumption DEF FailRetryable, Try, Ends, Pcs
  <2>4. CASE FailFatal
    BY <2>1, <2>4, <1>9, CircuitTypes, DispatchAssumption DEF FailFatal, Ends, Pcs
  <2> QED BY <1>10, <2>2, <2>3, <2>4 DEF Post
<1>11. CASE Parse
  BY <1>11 DEF Parse, Ends, Pcs
<1>12. CASE Break
  BY <1>12, <1>9 DEF Break, NothingFound, Ends, Pcs
<1> QED
  BY <1>1, <1>2, <1>3, <1>4, <1>5, <1>6, <1>7, <1>8, <1>10, <1>11, <1>12 DEF WorkerStep

LEMMA TypeStep ==
  ASSUME TypeOK, [Next]_vars
  PROVE  TypeOK'
<1>1. CASE RegistryChanges
  <2>1. RegistryTypeOK'
    BY <1>1, RegistryTypes DEF RegistryChanges, TypeOK
  <2> QED
    BY <1>1, <2>1
    DEF RegistryChanges, TypeOK, NotReady, taskVars, tryVars, listVars, schedVars
<1>2. CASE Tick
  BY <1>2, CircuitTypes
  DEF Tick, TypeOK, RegistryTypeOK, registryVars, taskVars, tryVars, listVars
<1>3. CASE UNCHANGED vars
  BY <1>3
  DEF vars, TypeOK, RegistryTypeOK, registryVars, taskVars, tryVars, listVars, schedVars
<1> QED BY <1>1, <1>2, <1>3, WorkerTypes DEF Next

\* Every variable of the dispatcher keeps its type.
THEOREM DispatchTypeCorrect == Spec => []TypeOK
BY TypeInit, TypeStep, PTL DEF Spec

-----------------------------------------------------------------------------
(* ReservationsMatch                                                       *)

LEMMA ReservationsInit == Init => ReservationsMatch
BY DEF Init, ReservationsMatch

\* The finally branch gives back what the selection took.
LEMMA ReleaseMatches ==
  ASSUME TypeOK, ReservationsMatch, pc = "post", Release, pc' # "post"
  PROVE  ReservationsMatch'
BY DEF TypeOK, ReservationsMatch, Release

LEMMA ReservationsStep ==
  ASSUME TypeOK, ReservationsMatch, [Next]_vars
  PROVE  ReservationsMatch'
<1>1. CASE Select
  <2>1. CASE Candidates = {}
    BY <1>1, <2>1 DEF Select, ReservationsMatch
  <2>2. ASSUME NEW i \in Instances, target' = i, pc' = "post",
               reservations' = [reservations EXCEPT ![i] = @ + 1], pc = "read"
        PROVE  ReservationsMatch'
    BY <2>2 DEF TypeOK, ReservationsMatch
  <2> QED BY <1>1, <2>1, <2>2 DEF Select, Candidates, Examined
<1>2. CASE Post
  BY <1>2, ReleaseMatches DEF Post, Answer, FailRetryable, FailFatal, Try
<1>3. CASE Break
  BY <1>3, ReleaseMatches DEF Break, ReservationsMatch, TypeOK
<1>4. ASSUME \/ Begin \/ StartBatch \/ FinishStream \/ Rerun \/ List
             \/ (\E i \in Instances : ReadRow(i)) \/ Purge \/ Parse
      PROVE  pc # "post" /\ pc' # "post" /\ UNCHANGED reservations
  BY <1>4
  DEF Begin, StartBatch, Try, FinishStream, Rerun, StartStream, List, ReadRow, Purge, Parse,
      Ends, schedVars
<1>5. CASE RegistryChanges \/ Tick \/ UNCHANGED vars
  BY <1>5 DEF RegistryChanges, Tick, vars, schedVars, ReservationsMatch
<1> QED
  BY <1>1, <1>2, <1>3, <1>4, <1>5 DEF Next, WorkerStep, ReservationsMatch

\* The scheduler's reservations are the request under way and nothing else: no
\* way out of _dispatch leaves one behind.
THEOREM NoReservationLeaks == Spec => []ReservationsMatch
BY DispatchTypeCorrect, ReservationsInit, ReservationsStep, PTL DEF Spec

-----------------------------------------------------------------------------
(* ResultsAreWhole                                                         *)

\* The frames that have their result are those of the batches before the
\* current one, and a batch that is sent has a frame.
ResultsInv ==
  /\ batch > 0
  /\ \A f \in Frames(stream) : results[f] = IF BatchOf(f) < batch THEN BatchOf(f) ELSE NONE
  /\ pc \in {"list", "read", "drop", "retire", "post", "parse"} => Chunk(stream, batch) # {}

LEMMA StreamStarts ==
  ASSUME NEW s \in Streams, NEW isAgain, StartStream(s, isAgain)
  PROVE  ResultsInv'
<1>1. \A f \in Frames(s) : BatchOf(f) \in Nat \ {0}
  BY FrameTypes, BatchBound
<1>2. \A f \in Frames(s) : ~(BatchOf(f) < 1)
  BY <1>1
<1> QED BY <1>2 DEF StartStream, ResultsInv, NoResult

LEMMA ResultsInit == Init => ResultsInv
<1>1. "student" \in Streams
  BY DEF Streams
<1>2. \A f \in Frames("student") : BatchOf(f) \in Nat \ {0}
  BY <1>1, FrameTypes, BatchBound
<1>3. \A f \in Frames("student") : ~(BatchOf(f) < 1)
  BY <1>2
<1> QED BY <1>3 DEF Init, ResultsInv, NoResult

LEMMA ResultsStep ==
  ASSUME TypeOK, ResultsInv, [Next]_vars
  PROVE  ResultsInv'
<1> DEFINE Sending == {"list", "read", "drop", "retire", "post", "parse"}
<1>1. CASE Begin
  BY <1>1, StreamStarts DEF Begin, Streams
<1>2. CASE FinishStream
  <2>1. CASE StartStream("teacher", FALSE)
    BY <2>1, StreamStarts DEF Streams
  <2>2. CASE pc' = "done" /\ UNCHANGED taskVars
    BY <2>2 DEF taskVars, ResultsInv
  <2> QED BY <1>2, <2>1, <2>2 DEF FinishStream
<1>3. CASE Rerun
  BY <1>3, StreamStarts DEF Rerun, TypeOK
<1>4. CASE StartBatch
  BY <1>4 DEF StartBatch, Try, taskVars, ResultsInv
<1>5. CASE Parse
  <2>1. CASE answered = Chunk(stream, batch) /\ pc' = "batch"
    <3>1. \A f \in Frames(stream) :
            BatchOf(f) \in Nat /\ (f \in answered <=> BatchOf(f) = batch)
      BY <2>1, FrameTypes, BatchBound DEF TypeOK, Chunk
    <3>2. batch' = batch + 1 /\ stream' = stream /\ batch \in Nat
      BY <1>5, <2>1 DEF Parse, TypeOK
    <3>3. results' = [f \in Frames(stream) |-> IF f \in answered THEN batch ELSE results[f]]
      BY <1>5, <2>1 DEF Parse
    <3>4. ASSUME NEW f \in Frames(stream)
          PROVE  results'[f] = IF BatchOf(f) < batch + 1 THEN BatchOf(f) ELSE NONE
      BY <3>1, <3>2, <3>3 DEF ResultsInv
    <3> QED BY <2>1, <3>2, <3>4 DEF ResultsInv
  <2>2. CASE pc' = "broken" /\ UNCHANGED <<results, batch>>
    BY <1>5, <2>2 DEF Parse, ResultsInv
  <2> QED BY <1>5, <2>1, <2>2 DEF Parse
<1>6. ASSUME \/ List \/ (\E i \in Instances : ReadRow(i)) \/ Purge \/ Select \/ Post \/ Break
      PROVE  UNCHANGED taskVars /\ (pc' \in Sending => pc \in Sending)
  BY <1>6
  DEF List, ReadRow, Purge, Select, Post, Answer, FailRetryable, FailFatal, Try, Break
<1>7. ASSUME RegistryChanges \/ Tick \/ UNCHANGED vars
      PROVE  UNCHANGED taskVars /\ pc' = pc
  BY <1>7 DEF RegistryChanges, Tick, vars
<1>8. UNCHANGED taskVars /\ (pc' \in Sending => pc \in Sending) => ResultsInv'
  BY DEF taskVars, ResultsInv
<1> QED
  BY <1>1, <1>2, <1>3, <1>4, <1>5, <1>6, <1>7, <1>8 DEF Next, WorkerStep

\* Every frame's metric is from the answer to its own batch, and no batch is
\* left behind with a frame missing (_find_frame, _ensure_complete).
THEOREM EveryFrameHasItsResult == Spec => []ResultsAreWhole
<1>1. TypeOK /\ ResultsInv => ResultsAreWhole
  BY DEF ResultsInv, ResultsAreWhole
<1> QED
  BY <1>1, DispatchTypeCorrect, ResultsInit, ResultsStep, PTL DEF Spec

-----------------------------------------------------------------------------
(* AsksOthers, OneInstanceSuffices and WorkIsShared                        *)

Trying == {"list", "read", "drop", "retire", "post"}

\* While a batch is tried, the instances it was sent to are excluded, but for
\* the one that is asked now, and each try so far has excluded one more.
TriesInv ==
  /\ pc \in Trying \ {"post"} => asked \subseteq excluded
  /\ pc = "post" => target \notin excluded /\ asked \subseteq excluded \cup {target}
  /\ pc \in Trying \cup {"exhausted"} => Cardinality(excluded) + 1 = attempt
  /\ pc = "exhausted" => attempt > MaxRetry

\* The reports of an instance that has room.
Room == Loads \ {MaxLoad}

\* An instance that has given no cause yet is registered with room, was so when
\* its row was read, has a closed circuit and is not excluded.
ReadyInv ==
  \A i \in Instances \ down :
    /\ i \in index \ late /\ row[i] \in Room
    /\ circuits[i] = NONE
    /\ pc \in Trying \cup {"exhausted"} => i \notin excluded
    /\ pc \in {"read", "drop", "retire"} => i \in todo \/ found[i] \in Room

\* select_instance only finds nothing when each instance has given cause.
UnavailableInv ==
  pc = "unavailable" => \A i \in Instances : stream \in Serves[i] => i \in down

SearchInv ==
  TypeOK /\ ReservationsMatch /\ TriesInv /\ ReadyInv /\ UnavailableInv /\ WorkIsShared

LEMMA SearchInit == Init => SearchInv
<1> SUFFICES ASSUME Init PROVE SearchInv
  OBVIOUS
<1>1. 0 \in Room
  BY DispatchAssumption DEF Room, Loads
<1>2. TypeOK /\ ReservationsMatch
  BY TypeInit, ReservationsInit
<1> QED
  BY <1>1, <1>2
  DEF Init, SearchInv, TriesInv, Trying, ReadyInv, UnavailableInv, WorkIsShared

\* An instance without cause is a candidate once all rows are read.
LEMMA ReadyIsCandidate ==
  ASSUME SearchInv, pc = "read", todo = {}, NEW i \in Instances \ down, stream \in Serves[i]
  PROVE  i \in Candidates /\ Load(i) = found[i] /\ found[i] \in Room
<1>1. /\ i \notin late /\ circuits[i] = NONE /\ i \notin excluded /\ found[i] \in Room
      /\ reservations[i] = 0
  BY DEF SearchInv, ReadyInv, Trying, ReservationsMatch
<1>2. found[i] \in Loads /\ found[i] \in Nat /\ found[i] < MaxLoad /\ Load(i) = found[i]
  BY <1>1, DispatchAssumption DEF Room, Loads, Load
<1> QED BY <1>1, <1>2 DEF Candidates, Examined, Open

\* Excluding an instance that was not excluded before counts.
LEMMA ExcludeCounts ==
  ASSUME TypeOK, NEW i \in Instances \ excluded
  PROVE  /\ Cardinality(excluded \cup {i}) = Cardinality(excluded) + 1
         /\ Cardinality(excluded) \in Nat
<1>1. IsFiniteSet(excluded)
  BY FS_Subset, DispatchAssumption DEF TypeOK
<1> QED BY <1>1, FS_AddElement, FS_CardinalityType

LEMMA TriesStep ==
  ASSUME SearchInv, [Next]_vars
  PROVE  TriesInv'
<1> USE DEF Trying
<1>1. CASE StartBatch
  <2>1. Cardinality({}) = 0
    BY FS_EmptySet
  <2> QED BY <1>1, <2>1, DispatchAssumption DEF StartBatch, Try, TriesInv
<1>2. CASE Select
  BY <1>2 DEF Select, Candidates, Examined, TriesInv, SearchInv
<1>3. CASE FailRetryable
  <2>1. target \in Instances \ excluded
    BY <1>3 DEF FailRetryable, SearchInv, TypeOK, TriesInv
  <2>2. Cardinality(excluded') = Cardinality(excluded) + 1 /\ Cardinality(excluded) \in Nat
    BY <1>3, <2>1, ExcludeCounts DEF FailRetryable, SearchInv
  <2> QED
    BY <1>3, <2>2, DispatchAssumption DEF FailRetryable, Try, SearchInv, TriesInv, TypeOK
<1>4. ASSUME \/ List \/ (\E i \in Instances : ReadRow(i)) \/ Purge
      PROVE  TriesInv'
  BY <1>4 DEF List, ReadRow, Purge, tryVars, SearchInv, TriesInv
<1>5. ASSUME \/ Begin \/ FinishStream \/ Rerun \/ Answer \/ FailFatal \/ Parse \/ Break
      PROVE  TriesInv'
  BY <1>5
  DEF Begin, FinishStream, Rerun, StartStream, Answer, FailFatal, Parse, Break, TriesInv
<1>6. CASE RegistryChanges \/ Tick \/ UNCHANGED vars
  BY <1>6 DEF RegistryChanges, Tick, vars, tryVars, SearchInv, TriesInv
<1> QED
  BY <1>1, <1>2, <1>3, <1>4, <1>5, <1>6 DEF Next, WorkerStep, Post

LEMMA ReadyStep ==
  ASSUME SearchInv, [Next]_vars
  PROVE  ReadyInv'
<1> USE DEF Trying
<1>1. CASE StartBatch \/ Begin \/ FinishStream \/ Rerun \/ Parse
  BY <1>1
  DEF StartBatch, Try, Begin, FinishStream, Rerun, StartStream, Parse, registryVars,
      schedVars, SearchInv, ReadyInv
<1>2. CASE List
  BY <1>2 DEF List, registryVars, schedVars, tryVars, SearchInv, ReadyInv
<1>3. ASSUME NEW i \in Instances, ReadRow(i) PROVE ReadyInv'
  BY <1>3, DispatchAssumption
  DEF ReadRow, registryVars, schedVars, tryVars, SearchInv, ReadyInv, TypeOK, Room, Loads
<1>4. \A i \in Instances : i \notin NotReady' => i \in index' \ late' /\ row'[i] \in Room
  BY DEF NotReady, Room
<1>5. CASE Purge
  BY <1>4, <1>5 DEF Purge, schedVars, tryVars, listVars, SearchInv, ReadyInv
<1>6. CASE Select
  <2>1. \A i \in Instances \ down : circuits'[i] = NONE
    BY <1>6 DEF Select, ForgetElapsed, SearchInv, ReadyInv
  <2> QED BY <1>6, <2>1 DEF Select, registryVars, SearchInv, ReadyInv
<1>7. CASE Post
  <2>1. \A i \in Instances \ down : i # target \/ circuits'[target] = NONE
          => circuits'[i] = NONE
    BY <1>7
    DEF Post, Answer, FailRetryable, FailFatal, RecordFailure, SearchInv, ReadyInv, TypeOK
  <2> QED
    BY <1>7, <2>1
    DEF Post, Answer, FailRetryable, FailFatal, Try, RecordFailure, registryVars, tryVars, SearchInv,
        ReadyInv, TypeOK
<1>8. CASE Break
  BY <1>8 DEF Break, registryVars, SearchInv, ReadyInv
<1>9. CASE RegistryChanges
  BY <1>4, <1>9 DEF RegistryChanges, schedVars, tryVars, listVars, SearchInv, ReadyInv
<1>10. CASE Tick
  BY <1>10 DEF Tick, Age, Open, registryVars, tryVars, listVars, SearchInv, ReadyInv
<1>11. CASE UNCHANGED vars
  BY <1>11 DEF vars, registryVars, schedVars, tryVars, listVars, SearchInv, ReadyInv
<1> QED
  BY <1>1, <1>2, <1>3, <1>5, <1>6, <1>7, <1>8, <1>9, <1>10, <1>11 DEF Next, WorkerStep

LEMMA UnavailableStep ==
  ASSUME SearchInv, [Next]_vars
  PROVE  UnavailableInv'
<1>1. CASE Select /\ Candidates = {}
  BY <1>1, ReadyIsCandidate DEF Select, taskVars, UnavailableInv
<1>2. ASSUME WorkerStep, ~(Select /\ Candidates = {}) PROVE pc' # "unavailable"
  BY <1>2
  DEF WorkerStep, Begin, StartBatch, Try, FinishStream, Rerun, StartStream, List, ReadRow,
      Purge, Select, Post, Answer, FailRetryable, FailFatal, Parse, Break, Ends, SearchInv, TypeOK
<1>3. CASE RegistryChanges \/ Tick \/ UNCHANGED vars
  BY <1>3 DEF RegistryChanges, Tick, vars, taskVars, SearchInv, UnavailableInv
<1> QED BY <1>1, <1>2, <1>3 DEF Next, UnavailableInv

\* With one batch per instance, an instance that could take the batch is only
\* passed over for one that has been selected no more often.
LEMMA SelectShares ==
  ASSUME SearchInv, MaxLoad = 1, pc = "read", todo = {},
         NEW c \in Candidates, \A j \in Candidates : ~Before(j, c), CountSelection(c),
         NEW j \in Instances \ down, Serves[c] \subseteq Serves[j]
  PROVE  lead[c] <= lead[j]
<1>1. stream \in Serves[c] /\ c \in Instances /\ found[c] \in Loads /\ reservations[c] = 0
      /\ Load(c) < MaxLoad
  BY DEF Candidates, Examined, SearchInv, ReservationsMatch
<1>2. j \in Candidates /\ Load(j) = found[j] /\ found[j] \in Room
  BY <1>1, ReadyIsCandidate
<1>3. Load(c) = 0 /\ Load(j) = 0
  BY <1>1, <1>2 DEF Load, Loads, Room
<1> QED BY <1>1, <1>2, <1>3 DEF Before, SearchInv, TypeOK

LEMMA SharedStep ==
  ASSUME SearchInv, [Next]_vars
  PROVE  WorkIsShared'
<1> SUFFICES ASSUME MaxLoad = 1, NEW i \in Instances, NEW j \in Instances,
                    Serves[i] \subseteq Serves[j], j \notin down'
             PROVE  lead'[i] <= lead'[j] + 1
  BY DEF WorkIsShared
<1>1. j \notin down
  BY DEF Next, WorkerStep, Begin, StartBatch, FinishStream, Rerun, List, ReadRow, Purge, Select,
         Post, Answer, FailRetryable, FailFatal, Parse, Break, RegistryChanges, Tick, vars
<1>2. lead[i] <= lead[j] + 1 /\ lead \in [Instances -> Nat]
  BY <1>1 DEF SearchInv, WorkIsShared, TypeOK
<1>3. CASE UNCHANGED lead
  BY <1>2, <1>3
<1>4. ASSUME NEW c \in Candidates, Select, \A k \in Candidates : ~Before(k, c), CountSelection(c)
      PROVE  lead'[i] <= lead'[j] + 1
  <2>1. c \in Instances
    BY DEF Candidates, Examined
  <2>2. PICK least \in Nat : \A k \in Instances :
               lead'[k] = (IF k = c THEN lead[k] + 1 ELSE lead[k]) - least
    BY <1>2, <1>4, <2>1, CountTypes
  <2>3. CASE i = c
    <3>1. lead[c] <= lead[j]
      BY <1>1, <1>4, <2>3, SelectShares DEF Select
    <3> QED BY <1>2, <2>2, <2>3, <3>1
  <2> QED BY <1>2, <2>2, <2>3
<1>5. lead' = lead \/ \E c \in Candidates :
        Select /\ (\A k \in Candidates : ~Before(k, c)) /\ CountSelection(c)
  BY DEF Next, WorkerStep, Begin, StartBatch, FinishStream, Rerun, List, ReadRow, Purge, Select,
         Post, Answer, FailRetryable, FailFatal, Parse, Break, RegistryChanges, Tick, vars, schedVars
<1> QED BY <1>3, <1>4, <1>5

LEMMA SearchStep == SearchInv /\ [Next]_vars => SearchInv'
BY TypeStep, ReservationsStep, TriesStep, ReadyStep, UnavailableStep, SharedStep DEF SearchInv

LEMMA SearchAlways == Spec => []SearchInv
BY SearchInit, SearchStep, PTL DEF Spec

\* All tries used, with as many of them as instances, means all were excluded.
LEMMA ExhaustedMeansAll ==
  ASSUME SearchInv, pc = "exhausted", MaxRetry >= Cardinality(Instances)
  PROVE  excluded = Instances
<1>1. excluded \in SUBSET Instances /\ attempt > MaxRetry /\ attempt \in Nat
      /\ Cardinality(excluded) + 1 = attempt
  BY DEF SearchInv, TypeOK, TriesInv
<1>2. Cardinality(excluded) \in Nat /\ Cardinality(Instances) \in Nat
      /\ Cardinality(excluded) <= Cardinality(Instances)
      /\ (Cardinality(excluded) = Cardinality(Instances) => excluded = Instances)
  BY <1>1, FS_Subset, FS_CardinalityType, DispatchAssumption
<1> QED BY <1>1, <1>2, DispatchAssumption

\* An analysis only fails for want of an instance when each one that serves the
\* stream failed a request, or was not registered with room at some time.
THEOREM AnInstanceSuffices == Spec => []OneInstanceSuffices
<1>1. SearchInv => OneInstanceSuffices
  BY ExhaustedMeansAll DEF SearchInv, UnavailableInv, ReadyInv, OneInstanceSuffices
<1> QED BY <1>1, SearchAlways, PTL

\* An instance that always has room is not passed over twice for another one
\* that can do no more than it: the counts decide among equal loads.
THEOREM WorkIsAlwaysShared == Spec => []WorkIsShared
<1>1. SearchInv => WorkIsShared
  BY DEF SearchInv
<1> QED BY <1>1, SearchAlways, PTL

\* A batch never goes again to an instance that already failed it.
THEOREM OthersAreAsked == Spec => AsksOthers
<1>1. SearchInv /\ [Next]_vars => [pc # "post" /\ pc' = "post" => target' \notin asked]_vars
  <2> SUFFICES ASSUME SearchInv, Next, pc # "post", pc' = "post"
               PROVE  target' \notin asked
    OBVIOUS
  <2>1. Select
    BY DEF Next, WorkerStep, Begin, StartBatch, Try, FinishStream, Rerun, StartStream, List,
           ReadRow, Purge, Post, Answer, FailRetryable, FailFatal, Parse, Break,
           RegistryChanges, Tick
  <2> QED BY <2>1 DEF Select, Candidates, Examined, SearchInv, TriesInv, Trying
<1> QED BY <1>1, SearchAlways, PTL DEF Spec, AsksOthers

-----------------------------------------------------------------------------
(* The scheduler implements CircuitBreaker                                 *)

\* A request is only under way to an instance whose circuit counts failures at
\* most: select_instance has passed over open ones and forgotten elapsed ones.
ClosedInv == pc = "post" => circuits[target] = NONE \/ circuits[target].age = NONE

LEMMA CircuitIs ==
  ASSUME TypeOK, NEW i \in Instances, circuits[i] # NONE
  PROVE  /\ circuits[i] \in [failures : Nat, age : 0 .. Cooldown \cup {NONE}]
         /\ circuits[i].failures \in Nat
         /\ circuits[i].age # NONE => circuits[i].age \in 0 .. Cooldown
BY DEF TypeOK, Circuits

LEMMA ClosedStep ==
  ASSUME TypeOK, ClosedInv, [Next]_vars
  PROVE  ClosedInv'
<1>1. CASE Select
  <2>1. ASSUME NEW i \in Candidates, target' = i PROVE circuits'[i] = NONE \/ circuits'[i].age = NONE
    <3>1. i \in Examined /\ i \in Instances /\ ~Open(circuits[i])
      BY <2>1 DEF Candidates, Examined
    <3>2. circuits[i] # NONE /\ circuits[i].age # NONE => Elapsed(circuits[i])
      BY <3>1, CircuitIs, DispatchAssumption DEF Open, Elapsed
    <3>3. circuits'[i] = IF Elapsed(circuits[i]) THEN NONE ELSE circuits[i]
      BY <1>1, <3>1 DEF Select, ForgetElapsed
    <3> QED BY <3>2, <3>3
  <2> QED BY <1>1, <2>1 DEF Select, ClosedInv
<1>2. CASE Tick
  <2>1. pc = "post" => target \in Instances
    BY DEF TypeOK
  <2>2. pc = "post" => circuits'[target] = circuits[target]
    BY <1>2, <2>1 DEF Tick, Age, Open, ClosedInv
  <2> QED BY <1>2, <2>2 DEF Tick, ClosedInv
<1>3. ASSUME RegistryChanges \/ UNCHANGED vars PROVE ClosedInv'
  BY <1>3 DEF RegistryChanges, vars, schedVars, ClosedInv
<1>4. ASSUME WorkerStep, ~Select PROVE pc' # "post"
  BY <1>4
  DEF WorkerStep, Begin, StartBatch, Try, FinishStream, Rerun, StartStream, List, ReadRow,
      Purge, Post, Answer, FailRetryable, FailFatal, Parse, Break, TypeOK
<1> QED BY <1>1, <1>2, <1>3, <1>4 DEF Next, ClosedInv

\* What the steps of a circuit are for its breaker.
LEMMA BreakerSteps ==
  ASSUME TypeOK, NEW i \in Instances
  PROVE  /\ Breaker(Age(circuits[i])) = Circuit!Wait(Breaker(circuits[i]))
         /\ Elapsed(circuits[i]) => Breaker(NONE) = Breaker(circuits[i])
<1>1. CASE circuits[i] = NONE
  BY <1>1 DEF Age, Open, Breaker, Circuit!Wait
<1>2. CASE circuits[i] # NONE /\ circuits[i].age = NONE
  BY <1>2, DispatchAssumption DEF Age, Open, Elapsed, Breaker, Circuit!Wait
<1>3. CASE circuits[i] # NONE /\ circuits[i].age = Cooldown
  BY <1>3, DispatchAssumption DEF Age, Open, Elapsed, Breaker, Circuit!Wait
<1>4. CASE Open(circuits[i])
  <2> DEFINE c == circuits[i]
             d == [c EXCEPT !.age = @ + 1]
  <2>1. /\ c \in [failures : Nat, age : 0 .. Cooldown \cup {NONE}]
        /\ c.age \in Nat /\ c.age < Cooldown /\ c # NONE
    BY <1>4, CircuitIs, DispatchAssumption DEF Open
  <2>2. Age(c) = d /\ ~Elapsed(c) /\ c.age # NONE
    BY <1>4, <2>1, DispatchAssumption DEF Age, Elapsed, Open
  <2>3. d.failures = c.failures /\ d.age = c.age + 1 /\ d.age \in Nat
        /\ d \in [failures : Nat, age : Nat \cup {NONE}]
    BY <2>1
  <2>4. Breaker(c) = [failures |-> c.failures, wait |-> Cooldown - c.age]
    BY <2>1, <2>2 DEF Breaker
  <2>5. d # NONE /\ d.age # NONE
    BY <2>3, DispatchAssumption
  <2>6. CASE c.age + 1 = Cooldown
    <3>1. Breaker(d) = [failures |-> 0, wait |-> 0]
      BY <2>3, <2>5, <2>6 DEF Breaker, Elapsed
    <3>2. Cooldown - c.age = 1
      BY <2>1, <2>6, DispatchAssumption
    <3> HIDE DEF c, d
    <3>3. Circuit!Wait(Breaker(c)) = Circuit!Closed
      BY <2>4, <3>2 DEF Circuit!Wait
    <3> QED BY <2>2, <3>1, <3>3 DEF c, d, Circuit!Closed
  <2>7. CASE c.age + 1 # Cooldown
    <3>1. Breaker(d) = [failures |-> c.failures, wait |-> Cooldown - (c.age + 1)]
      BY <2>3, <2>5, <2>7 DEF Breaker, Elapsed
    <3>2. Cooldown - c.age # 1 /\ Cooldown - c.age # 0
          /\ Cooldown - (c.age + 1) = (Cooldown - c.age) - 1
      BY <2>1, <2>7, DispatchAssumption
    <3> HIDE DEF c, d
    <3>3. Circuit!Wait(Breaker(c)) = [failures |-> c.failures, wait |-> (Cooldown - c.age) - 1]
      BY <2>4, <3>2 DEF Circuit!Wait
    <3> QED BY <2>2, <3>1, <3>2, <3>3 DEF c, d
  <2> QED BY <2>6, <2>7
<1> QED
  BY <1>1, <1>2, <1>3, <1>4, CircuitIs, DispatchAssumption DEF Open, Elapsed, Breaker

LEMMA AnswerIsSuccess ==
  ASSUME TypeOK, ClosedInv, Answer
  PROVE  Circuit!Succeed(target)
<1>1. target \in Instances /\ circuits' = [circuits EXCEPT ![target] = NONE]
      /\ circuits \in [Instances -> Circuits]
  BY DEF Answer, TypeOK
<1>2. circuits[target] = NONE \/ circuits[target].age = NONE
  BY DEF Answer, ClosedInv
<1>3. Breaker(circuits[target]).wait = 0
  BY <1>2, DispatchAssumption DEF Breaker
<1>4. \A i \in Instances : Breaker(circuits'[i]) =
        IF i = target THEN [failures |-> 0, wait |-> 0] ELSE Breaker(circuits[i])
  BY <1>1 DEF Breaker
<1> QED BY <1>1, <1>3, <1>4 DEF Circuit!Succeed, Circuit!Closed

LEMMA FailureIsFailure ==
  ASSUME TypeOK, ClosedInv, pc = "post", RecordFailure(target)
  PROVE  Circuit!Fail(target)
<1> DEFINE c == IF circuits[target] = NONE THEN [failures |-> 0, age |-> NONE] ELSE circuits[target]
           n == c.failures + 1
           d == [failures |-> n, age |-> IF n >= Threshold THEN 0 ELSE c.age]
<1>1. target \in Instances /\ circuits \in [Instances -> Circuits]
  BY DEF TypeOK
<1>2. c.failures \in Nat /\ c.age = NONE
  BY <1>1, CircuitIs DEF ClosedInv
<1>3. circuits' = [circuits EXCEPT ![target] = d]
  BY DEF RecordFailure
<1>4. Breaker(circuits[target]) = [failures |-> c.failures, wait |-> 0]
  BY <1>1, <1>2, CircuitIs, DispatchAssumption DEF Breaker, Elapsed, ClosedInv
<1>5. d \in [failures : Nat, age : Nat \cup {NONE}] /\ d.failures = n
      /\ d.age = IF n >= Threshold THEN 0 ELSE NONE
  BY <1>2
<1>6. d # NONE /\ d.age # Cooldown
  BY <1>5, DispatchAssumption
<1>7. Breaker(d) = [failures |-> n, wait |-> IF n >= Threshold THEN Cooldown ELSE 0]
  <2> HIDE DEF d, n
  <2> QED BY <1>5, <1>6, DispatchAssumption DEF Breaker, Elapsed
<1>8. \A i \in Instances :
        Breaker(circuits'[i]) = IF i = target THEN Breaker(d) ELSE Breaker(circuits[i])
  <2> HIDE DEF d
  <2> QED BY <1>1, <1>3
<1> DEFINE b == Breaker(circuits[target])
<1>9. b.wait = 0 /\ b.failures + 1 = n
  BY <1>4
<1>10. [i \in Instances |-> Breaker(circuits'[i])] =
         [[i \in Instances |-> Breaker(circuits[i])] EXCEPT ![target] = Breaker(d)]
  <2> HIDE DEF d, n
  <2> QED BY <1>1, <1>8
<1> HIDE DEF d, c, n
<1> QED BY <1>1, <1>7, <1>9, <1>10 DEF Circuit!Fail

LEMMA CircuitNext ==
  ASSUME TypeOK, ClosedInv, [Next]_vars
  PROVE  Circuit!Next \/ UNCHANGED [i \in Instances |-> Breaker(circuits[i])]
<1>1. CASE Tick
  <2>1. \A i \in Instances : circuits'[i] = Age(circuits[i])
    BY <1>1 DEF Tick
  <2> QED BY <2>1, BreakerSteps DEF Circuit!Next, Circuit!Tick
<1>2. CASE Select
  <2>1. \A i \in Instances : circuits'[i] = circuits[i] \/ (Elapsed(circuits[i]) /\ circuits'[i] = NONE)
    BY <1>2 DEF Select, ForgetElapsed
  <2> QED BY <2>1, BreakerSteps
<1>3. CASE Post
  <2>1. pc = "post" /\ target \in Instances
    BY <1>3 DEF Post, Answer, FailRetryable, FailFatal, TypeOK
  <2>2. Answer \/ RecordFailure(target)
    BY <1>3 DEF Post, FailRetryable, FailFatal
  <2> QED BY <2>1, <2>2, AnswerIsSuccess, FailureIsFailure DEF Circuit!Next
<1>4. UNCHANGED circuits \/ Tick \/ Select \/ Post
  BY DEF Next, WorkerStep, Begin, StartBatch, FinishStream, Rerun, List, ReadRow, Purge, Parse,
         Break, RegistryChanges, vars, schedVars
<1> QED BY <1>1, <1>2, <1>3, <1>4

\* The scheduler's lazily kept circuits are the breaker that closes by itself
\* after its cooldown, and a request only goes out through a closed one.
THEOREM CircuitsAreBreakers == Spec => CircuitSpec
<1>1. Init => Circuit!Init
  BY DEF Init, Circuit!Init, Circuit!Closed, Breaker
<1>2. Init => ClosedInv
  BY DEF Init, ClosedInv
<1>3. TypeOK /\ ClosedInv /\ [Next]_vars
        => [Circuit!Next]_[i \in Instances |-> Breaker(circuits[i])]
  BY CircuitNext
<1> QED
  BY <1>1, <1>2, <1>3, ClosedStep, DispatchTypeCorrect, PTL DEF Spec, CircuitSpec, Circuit!Spec

-----------------------------------------------------------------------------
(* The analysis implements StreamAnalysis                                  *)

\* The frames that have their result, as AnalysisSpec maps them.
Got == {f \in Frames(stream) : results[f] = BatchOf(f)}

LEMMA GotIs ==
  ASSUME TypeOK, ResultsInv
  PROVE  /\ Got = {f \in Frames(stream) : BatchOf(f) < batch}
         /\ batch - 1 \in Nat
         /\ BatchSize * (batch - 1) \in Nat
         /\ \A f \in Frames(stream) : f \in Got <=> f < BatchSize * (batch - 1)
<1>1. batch - 1 \in Nat /\ batch \in Nat
  BY DEF TypeOK, ResultsInv
<1>2. \A f \in Frames(stream) :
        /\ f \in Nat /\ BatchOf(f) \in Nat
        /\ BatchOf(f) <= batch - 1 <=> f < BatchSize * (batch - 1)
  BY <1>1, FrameTypes, BatchBound DEF TypeOK
<1>3. \A f \in Frames(stream) : BatchOf(f) < batch <=> BatchOf(f) <= batch - 1
  BY <1>1, <1>2
<1>4. \A f \in Frames(stream) : results[f] = BatchOf(f) <=> BatchOf(f) < batch
  BY <1>2, DispatchAssumption DEF ResultsInv
<1>5. BatchSize * (batch - 1) \in Nat
  BY <1>1, DispatchAssumption
<1> QED BY <1>1, <1>2, <1>3, <1>4, <1>5 DEF Got

\* A stream without a further batch is through.
LEMMA NoBatchLeft ==
  ASSUME TypeOK, ResultsInv, Chunk(stream, batch) = {}
  PROVE  Got = Frames(stream)
<1> DEFINE first == BatchSize * (batch - 1)
<1>1. first \in Nat /\ batch \in Nat /\ batch - 1 \in Nat
  BY GotIs DEF TypeOK
<1>2. ASSUME NEW f \in Frames(stream), f >= first PROVE FALSE
  <2>1. first \in Frames(stream)
    BY <1>1, <1>2, FrameTypes DEF Frames, TypeOK
  <2>2. first < BatchSize * batch /\ BatchOf(first) \in Nat
    <3>1. BatchSize * batch = first + BatchSize
      BY <1>1, DispatchAssumption
    <3> QED BY <1>1, <3>1, BatchBound, DispatchAssumption
  <2>3. BatchOf(first) <= batch /\ ~(BatchOf(first) <= batch - 1)
    <3> HIDE DEF first
    <3>1. BatchOf(first) <= batch <=> first < BatchSize * batch
      BY <1>1, BatchBound
    <3>2. BatchOf(first) <= batch - 1 <=> first < BatchSize * (batch - 1)
      BY <1>1, BatchBound
    <3> QED BY <1>1, <2>2, <3>1, <3>2 DEF first
  <2>4. BatchOf(first) = batch
    BY <1>1, <2>2, <2>3
  <2> QED BY <2>1, <2>4 DEF Chunk
<1>3. Frames(stream) \subseteq Nat
  BY FrameTypes DEF TypeOK
<1>4. \A f \in Frames(stream) : f < first
  BY <1>1, <1>2, <1>3
<1> QED BY <1>4, GotIs DEF Got

\* The answer to a batch gives the next frames in the order of the video.
LEMMA BatchDelivers ==
  ASSUME TypeOK, ResultsInv, Chunk(stream, batch) # {},
         batch' = batch + 1, stream' = stream, ResultsInv', TypeOK'
  PROVE  \E last \in Frames(stream) \ Got : Got' = 0 .. last
<1> DEFINE total == FrameCount[stream]
           next == BatchSize * batch
           last == IF next < total THEN next - 1 ELSE total - 1
<1>1. batch \in Nat /\ batch > 0 /\ total \in Nat /\ next \in Nat
  BY FrameTypes, DispatchAssumption DEF TypeOK, ResultsInv
<1>2. next = BatchSize * (batch - 1) + BatchSize /\ BatchSize * (batch - 1) \in Nat
  BY <1>1, DispatchAssumption
<1>3. PICK f \in Frames(stream) : BatchOf(f) = batch
  BY DEF Chunk
<1>4. f \in Nat /\ f < total /\ f \in 0 .. total - 1
  BY <1>1, <1>3 DEF Frames
<1>5. f >= BatchSize * (batch - 1)
  BY <1>1, <1>2, <1>3, <1>4, BatchBound
<1>6. last \in Nat /\ last < total /\ last >= BatchSize * (batch - 1)
  BY <1>1, <1>2, <1>4, <1>5, DispatchAssumption
<1>7. last \in Frames(stream) \ Got
  BY <1>1, <1>2, <1>6, GotIs DEF Frames
<1>8. \A g \in Nat : g <= last <=> g < next /\ g < total
  BY <1>1
<1>9. Got' = {g \in Frames(stream) : g < next}
  <2>1. \A g \in Frames(stream) : BatchOf(g) \in Nat /\ (BatchOf(g) <= batch <=> g < next)
    BY <1>1, FrameTypes, BatchBound DEF TypeOK
  <2>2. \A g \in Frames(stream) :
          results'[g] = IF BatchOf(g) < batch + 1 THEN BatchOf(g) ELSE NONE
    BY DEF ResultsInv
  <2>3. \A g \in Frames(stream) : results'[g] = BatchOf(g) <=> g < next
    <3> HIDE DEF next
    <3> QED BY <1>1, <2>1, <2>2, DispatchAssumption
  <2> QED BY <2>3 DEF Got
<1>10. Got' = 0 .. last
  <2> HIDE DEF last, next
  <2>1. \A g : g \in Got' <=> g \in Nat /\ g < total /\ g < next
    BY <1>1, <1>9 DEF Frames
  <2>2. \A g : g \in 0 .. last <=> g \in Nat /\ g <= last
    BY <1>6
  <2> QED BY <1>8, <2>1, <2>2
<1> QED BY <1>7, <1>10

\* The steps that start a stream.
LEMMA StartMaps ==
  ASSUME NEW s \in Streams, NEW isAgain \in BOOLEAN, StartStream(s, isAgain)
  PROVE  Phase' = s /\ Got' = {} /\ again' = isAgain
<1>1. \A f \in Frames(s) : BatchOf(f) \in Nat
  BY FrameTypes, BatchBound
<1>2. \A f \in Frames(s) : results'[f] # BatchOf(f)
  BY <1>1, DispatchAssumption DEF StartStream, NoResult
<1>3. Phase' = s
  BY DEF StartStream, Phase, Ends
<1> QED BY <1>2, <1>3 DEF StartStream, Got

Working == Pcs \ (Ends \cup {"idle"})

LEMMA PhaseIs ==
  ASSUME TypeOK
  PROVE  /\ pc \in Working => Phase = stream /\ Phase \in Streams
         /\ pc \notin Working => Phase \notin Streams
         /\ pc \in Ends \ {"done"} => Phase = "failed"
BY DEF TypeOK, Working, Phase, Ends, Pcs, Streams

\* A step that leaves the stream and its results alone goes on with the
\* stream, or fails as a whole.
LEMMA QuietMaps ==
  ASSUME TypeOK, TypeOK', pc \in Working, pc' \in Working \cup (Ends \ {"done"}), UNCHANGED taskVars
  PROVE  Analysis!Fail \/ UNCHANGED <<Phase, Got, again>>
<1>1. Got' = Got /\ again' = again /\ stream' = stream
  BY DEF taskVars, Got
<1>2. CASE pc' \in Working
  BY <1>1, <1>2 DEF Phase, Working, Ends
<1>3. CASE pc' \in Ends \ {"done"}
  <2>1. Phase' = "failed"
    BY <1>3 DEF Phase, Ends
  <2>2. Phase \in Analysis!Streams
    BY PhaseIs DEF Analysis!Streams, Streams
  <2> QED BY <1>1, <2>1, <2>2 DEF Analysis!Fail, Got
<1> QED BY <1>2, <1>3

LEMMA AnalysisNext ==
  ASSUME TypeOK, ResultsInv, [Next]_vars
  PROVE  Analysis!Next \/ UNCHANGED <<Phase, Got, again>>
<1>t. TypeOK' /\ ResultsInv'
  BY TypeStep, ResultsStep
<1>s. Analysis!Streams = Streams /\ \A s : Analysis!Frames(s) = Frames(s)
  BY DEF Analysis!Streams, Streams, Analysis!Frames, Frames
<1>1. CASE Begin
  <2>1. Phase' = "student" /\ Got' = {} /\ again' = FALSE
    BY <1>1, StartMaps DEF Begin, Streams
  <2>2. Phase \notin Streams
    BY <1>1, PhaseIs DEF Begin, Working
  <2> QED BY <1>s, <2>1, <2>2 DEF Analysis!Next, Analysis!Begin, Analysis!StartStream, Got
<1>2. CASE Rerun
  <2>1. Phase' = stream /\ Got' = {} /\ again' = TRUE /\ ~again
    BY <1>2, StartMaps DEF Rerun, TypeOK
  <2>2. Phase = stream /\ Phase \in Streams
    BY <1>2, PhaseIs DEF Rerun, Working, Pcs, Ends
  <2> QED BY <1>s, <2>1, <2>2 DEF Analysis!Next, Analysis!Restart, Analysis!StartStream, Got
<1>3. CASE FinishStream
  <2>1. Phase = stream /\ Phase \in Streams
    BY <1>3, PhaseIs DEF FinishStream, Working, Pcs, Ends
  <2>2. Got = Frames(stream)
    BY <1>3, NoBatchLeft DEF FinishStream
  <2>3. CASE stream = "student" /\ StartStream("teacher", FALSE)
    <3>1. Phase' = "teacher" /\ Got' = {} /\ again' = FALSE
      BY <2>3, StartMaps DEF Streams
    <3> QED
      BY <1>s, <2>1, <2>2, <2>3, <3>1
      DEF Analysis!Next, Analysis!Finish, Analysis!StartStream, Got
  <2>4. CASE stream = "teacher" /\ pc' = "done" /\ UNCHANGED taskVars
    <3>1. Phase' = "done" /\ Got' = Got /\ again' = again
      BY <2>4 DEF taskVars, Phase, Got
    <3> QED
      BY <1>s, <2>1, <2>2, <2>4, <3>1 DEF Analysis!Next, Analysis!Finish, Got
  <2> QED BY <1>3, <2>3, <2>4 DEF FinishStream
<1>4. CASE Parse
  <2>1. pc \in Working /\ Phase = stream /\ Phase \in Streams /\ Chunk(stream, batch) # {}
    BY <1>4, PhaseIs DEF Parse, Working, Pcs, Ends, ResultsInv
  <2>2. CASE pc' = "broken" /\ UNCHANGED <<results, batch>>
    BY <1>4, <1>t, <2>1, <2>2, QuietMaps DEF Parse, taskVars, Ends, Analysis!Next
  <2>3. CASE pc' = "batch" /\ batch' = batch + 1
    <3>1. stream' = stream /\ again' = again
      BY <1>4 DEF Parse
    <3>2. Phase' = Phase
      BY <2>1, <2>3, <3>1 DEF Phase, Ends
    <3>3. \E last \in Frames(stream) \ Got : Got' = 0 .. last
      BY <1>t, <2>1, <2>3, <3>1, BatchDelivers
    <3> QED
      BY <1>s, <2>1, <3>1, <3>2, <3>3 DEF Analysis!Next, Analysis!Deliver, Got
  <2> QED BY <1>4, <2>2, <2>3 DEF Parse
<1>5. ASSUME \/ StartBatch \/ List \/ (\E i \in Instances : ReadRow(i)) \/ Purge \/ Select
             \/ Post \/ Break
      PROVE  pc \in Working /\ pc' \in Working \cup (Ends \ {"done"}) /\ UNCHANGED taskVars
  BY <1>5
  DEF StartBatch, Try, List, ReadRow, Purge, Select, Post, Answer, FailRetryable, FailFatal,
      Break, Working, Pcs, Ends, TypeOK
<1>6. CASE RegistryChanges \/ Tick \/ UNCHANGED vars
  BY <1>6 DEF RegistryChanges, Tick, vars, taskVars, Phase, Got
<1> QED
  BY <1>t, <1>1, <1>2, <1>3, <1>4, <1>5, <1>6, QuietMaps DEF Next, WorkerStep, Analysis!Next

\* The batches, tries and second runs amount to the analysis process_task
\* counts on: student frames first, results in the order of the video, at most
\* one new start of a stream, and no end but with whole results or as a failure
\* of the whole.
THEOREM AnalysesAreWhole == Spec => AnalysisSpec
<1>1. Init => Analysis!Init
  <2> SUFFICES ASSUME Init PROVE Analysis!Init
    OBVIOUS
  <2>1. \A f \in Frames("student") : results[f] = NONE /\ BatchOf(f) \in Nat
    BY FrameTypes, BatchBound DEF Init, NoResult, Streams
  <2>2. \A f \in Frames(stream) : results[f] # BatchOf(f)
    BY <2>1, DispatchAssumption DEF Init
  <2> QED BY <2>2 DEF Init, Analysis!Init, Phase
<1>2. TypeOK /\ ResultsInv /\ [Next]_vars => [Analysis!Next]_(Analysis!analysisVars)
  BY AnalysisNext DEF Analysis!analysisVars, Got
<1> QED
  BY <1>1, <1>2, ResultsInit, ResultsStep, DispatchTypeCorrect, PTL
  DEF Spec, AnalysisSpec, Analysis!Spec

=============================================================================
