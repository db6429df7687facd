------------------------ MODULE WorkerRegistryProofs ------------------------
(***************************************************************************)
(* Proofs about WorkerRegistry, for any workers, any number of API         *)
(* processes and any interleaving of their Redis calls.                    *)
(***************************************************************************)
EXTENDS WorkerRegistry, TLAPS

-----------------------------------------------------------------------------
(* Type correctness                                                        *)

LEMMA TypeInit == Init => TypeOK
BY DEF Init, RegistryInit, TypeOK, RegistryTypeOK

\* The operations of the registry keep its type.
LEMMA RegistryTypes ==
  ASSUME RegistryTypeOK, NEW w \in Workers,
         \/ Upsert(w, "beat") \/ DropFromIndex(w) \/ DeleteRow(w) \/ Unregister(w)
         \/ RowExpires(w) \/ RowTurnsLate(w) \/ UNCHANGED registryVars
  PROVE  RegistryTypeOK'
BY RegistryAssumption
DEF RegistryTypeOK, Upsert, DropFromIndex, DeleteRow, Unregister, RowExpires, RowTurnsLate,
    registryVars

\* So do the histories.
LEMMA WatchTypes ==
  ASSUME TypeOK, RegistryTypeOK', Watch
  PROVE  /\ throughout' \in [Readers -> SUBSET Workers]
         /\ sometime' \in [Readers -> SUBSET Workers]
BY DEF Watch, Present, WithRow, TypeOK, RegistryTypeOK

LEMMA TypeStep ==
  ASSUME TypeOK, [Next]_vars
  PROVE  TypeOK'
<1>0. RegistryTypeOK /\ Present \in SUBSET Workers /\ WithRow \in SUBSET Workers
  BY DEF TypeOK, RegistryTypeOK, Present, WithRow
<1>1. ASSUME NEW w \in Workers, Beat(w) \/ Expire(w) \/ TurnLate(w) PROVE TypeOK'
  <2>1. RegistryTypeOK'
    BY <1>0, <1>1, RegistryTypes DEF Beat, Expire, TurnLate
  <2> QED
    BY <1>1, <2>1, WatchTypes DEF Beat, Expire, TurnLate, TypeOK, readerVars
<1>2. ASSUME NEW w \in Workers, Stop(w) PROVE TypeOK'
  BY <1>2 DEF Stop, TypeOK, RegistryTypeOK, registryVars, readerVars, histVars
<1>3. ASSUME NEW r \in Readers, NEW members \in SUBSET Workers, Start(r, members)
      PROVE  TypeOK'
  BY <1>0, <1>3 DEF Start, TypeOK, RegistryTypeOK, registryVars
<1>4. ASSUME NEW r \in Readers, NEW w \in Workers, ReadRow(r, w) PROVE TypeOK'
  BY <1>4, RegistryAssumption DEF ReadRow, TypeOK, RegistryTypeOK, registryVars, histVars
<1>5. ASSUME NEW r \in Readers, Drop(r) \/ Delete(r) PROVE TypeOK'
  <2>1. current[r] \in Workers
    BY <1>5 DEF Drop, Delete, TypeOK
  <2>2. RegistryTypeOK'
    BY <1>0, <1>5, <2>1, RegistryTypes DEF Drop, Delete
  <2> QED BY <1>5, <2>1, <2>2, WatchTypes DEF Drop, Delete, TypeOK
<1>6. ASSUME NEW r \in Readers, Reply(r) PROVE TypeOK'
  BY <1>6 DEF Reply, TypeOK, RegistryTypeOK, registryVars
<1>7. CASE UNCHANGED vars
  BY <1>7 DEF vars, registryVars, readerVars, histVars, TypeOK, RegistryTypeOK
<1>8. index \in SUBSET Workers /\ \A w \in Workers : {w} \in SUBSET Workers
  BY <1>0 DEF RegistryTypeOK
<1> QED
  BY <1>1, <1>2, <1>3, <1>4, <1>5, <1>6, <1>7, <1>8
  DEF Next, ReaderStep, StartListing, StartLookup

\* Every variable keeps its type, and a reader that purges knows which member.
THEOREM RegistryTypeCorrect == Spec => []TypeOK
BY TypeInit, TypeStep, PTL DEF Spec

-----------------------------------------------------------------------------
(* ListingIsHonest                                                         *)

\* While a request is under way, a member that has been present throughout is
\* present now, and a member that has a row now has had one at some time.
HistoriesAreUpToDate ==
  \A r \in Readers :
    /\ throughout[r] \subseteq Present
    /\ pc[r] # "idle" => WithRow \subseteq sometime[r]
    /\ pc[r] = "idle" => throughout[r] = {} /\ answer[r] = {}

HonestInv == TypeOK /\ HistoriesAreUpToDate /\ ListingIsHonest

LEMMA HonestInit == Init => HonestInv
<1> SUFFICES ASSUME Init PROVE HonestInv
  OBVIOUS
<1>1. TypeOK
  BY TypeInit
<1> QED BY <1>1 DEF Init, HonestInv, HistoriesAreUpToDate, ListingIsHonest

\* A step of the registry that readers watch while they keep what they have.
LEMMA WatchHonest ==
  ASSUME HonestInv, TypeOK', Watch, UNCHANGED <<answer, todo>>,
         \A r \in Readers : (pc[r] = "idle") <=> (pc'[r] = "idle")
  PROVE  HonestInv'
BY DEF Watch, HonestInv, HistoriesAreUpToDate, ListingIsHonest, TypeOK

\* A member whose row a reader misses has not been present throughout, so it
\* need not be part of the answer.
LEMMA ReadHonest ==
  ASSUME HonestInv, TypeOK', NEW r \in Readers, NEW w \in Workers, ReadRow(r, w)
  PROVE  HonestInv'
<1>1. Present' = Present /\ WithRow' = WithRow
  BY DEF ReadRow, registryVars, Present, WithRow
<1>2. HistoriesAreUpToDate'
  BY <1>1 DEF ReadRow, histVars, HonestInv, HistoriesAreUpToDate, TypeOK
<1>3. ListingIsHonest'
  <2>1. CASE row[w] # NONE /\ w \notin late
    <3>1. w \in sometime[r]
      BY <2>1 DEF ReadRow, HonestInv, HistoriesAreUpToDate, WithRow
    <3>2. answer' = [answer EXCEPT ![r] = @ \cup {w}] /\ UNCHANGED histVars
      BY <2>1 DEF ReadRow
    <3> QED
      BY <3>1, <3>2 DEF ReadRow, histVars, HonestInv, ListingIsHonest, TypeOK
  <2>2. CASE row[w] = NONE \/ w \in late
    <3>1. w \notin throughout[r]
      BY <2>2 DEF HonestInv, HistoriesAreUpToDate, Present, WithRow
    <3>2. UNCHANGED answer /\ UNCHANGED histVars
      BY <2>2 DEF ReadRow
    <3> QED
      BY <3>1, <3>2 DEF ReadRow, histVars, HonestInv, ListingIsHonest, TypeOK
  <2> QED BY <2>1, <2>2
<1> QED BY <1>2, <1>3 DEF HonestInv

LEMMA HonestStep ==
  ASSUME HonestInv, [Next]_vars
  PROVE  HonestInv'
<1>0. TypeOK'
  BY TypeStep DEF HonestInv
<1>1. ASSUME NEW w \in Workers, Beat(w) \/ Expire(w) \/ TurnLate(w) PROVE HonestInv'
  BY <1>0, <1>1, WatchHonest DEF Beat, Expire, TurnLate, readerVars
<1>2. ASSUME NEW r \in Readers, Drop(r) \/ Delete(r) PROVE HonestInv'
  <2>1. \A x \in Readers : (pc[x] = "idle") <=> (pc'[x] = "idle")
    BY <1>2 DEF Drop, Delete, HonestInv, TypeOK
  <2> QED BY <1>0, <1>2, <2>1, WatchHonest DEF Drop, Delete
<1>3. ASSUME NEW r \in Readers, NEW members, Start(r, members) PROVE HonestInv'
  BY <1>0, <1>3
  DEF Start, registryVars, HonestInv, HistoriesAreUpToDate, ListingIsHonest, TypeOK, Present,
      WithRow
<1>4. ASSUME NEW r \in Readers, Reply(r) PROVE HonestInv'
  BY <1>0, <1>4
  DEF Reply, registryVars, HonestInv, HistoriesAreUpToDate, ListingIsHonest, TypeOK, Present,
      WithRow
<1>5. CASE UNCHANGED vars \/ \E w \in Workers : Stop(w)
  BY <1>0, <1>5
  DEF Stop, vars, registryVars, readerVars, histVars, HonestInv, HistoriesAreUpToDate,
      ListingIsHonest, Present, WithRow
<1> QED
  BY <1>0, <1>1, <1>2, <1>3, <1>4, <1>5, ReadHonest
  DEF Next, ReaderStep, StartListing, StartLookup

\* An answer shows every worker that was registered and in time during the
\* whole request, and none without a row all the time, whatever other readers
\* purge between its Redis calls (list_workers, get_worker).
THEOREM AnswersAreHonest == Spec => []ListingIsHonest
<1>1. HonestInv => ListingIsHonest
  BY DEF HonestInv
<1> QED BY <1>1, HonestInit, HonestStep, PTL DEF Spec

=============================================================================
