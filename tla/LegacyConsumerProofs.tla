------------------------ MODULE LegacyConsumerProofs ------------------------
(***************************************************************************)
(* Proofs about LegacyConsumer: its types, what the workers hold of the    *)
(* group's partitions, and that it delivers as TaskDelivery promises, for  *)
(* any workers, partitions, logs, tasks, retries and faults.               *)
(***************************************************************************)
EXTENDS LegacyConsumer, TLAPS

-----------------------------------------------------------------------------
(* Facts about the logs and the payloads                                   *)

LEMMA LogLen ==
  ASSUME NEW p \in Partitions
  PROVE  /\ Len(Log[p]) \in Nat
         /\ \A o \in Nat : o < Len(Log[p]) => Record(p, o) \in Payloads /\ Record(p, o) \in Records
<1>1. Log[p] \in Seq(Payloads)
  BY LegacyAssumption
<1>2. ASSUME NEW S, NEW s \in Seq(S), NEW i \in 1 .. Len(s) PROVE s[i] \in S /\ i \in DOMAIN s
  OBVIOUS
<1>3. Len(Log[p]) \in Nat
  BY <1>1
<1>4. ASSUME NEW o \in Nat, o < Len(Log[p])
      PROVE  Log[p][o + 1] \in Payloads /\ o + 1 \in DOMAIN Log[p]
  <2>1. o + 1 \in 1 .. Len(Log[p])
    BY <1>3, <1>4
  <2> QED BY <1>1, <1>2, <2>1
<1> QED BY <1>3, <1>4 DEF Record, Records

\* The choice among the aliases of a task id.
LEMMA FirstOfThree ==
  ASSUME NEW kinds, NEW a, NEW b, NEW c
  PROVE  FirstBut(kinds, <<a, b, c>>) =
           IF a.is \notin kinds THEN a
           ELSE IF b.is \notin kinds THEN b
           ELSE IF c.is \notin kinds THEN c ELSE Null
<1> DEFINE s == <<a, b, c>>
           left == {i \in DOMAIN s : s[i].is \notin kinds}
           first == CHOOSE i \in left : \A j \in left : i <= j
<1>1. DOMAIN s = {1, 2, 3} /\ s[1] = a /\ s[2] = b /\ s[3] = c
  OBVIOUS
<1>2. left \subseteq {1, 2, 3}
  BY <1>1
<1>3. FirstBut(kinds, s) = IF left = {} THEN Null ELSE s[first]
  BY DEF FirstBut
<1>4. ASSUME NEW k \in left, \A j \in left : k <= j PROVE first = k
  <2>1. first \in left /\ \A j \in left : first <= j
    BY <1>4
  <2> QED BY <1>2, <1>4, <2>1
<1>5. CASE a.is \notin kinds
  <2>1. 1 \in left /\ \A j \in left : 1 <= j
    BY <1>1, <1>2, <1>5
  <2> QED BY <1>1, <1>3, <1>4, <1>5, <2>1
<1>6. CASE a.is \in kinds /\ b.is \notin kinds
  <2>1. 2 \in left /\ \A j \in left : 2 <= j
    BY <1>1, <1>2, <1>6
  <2> QED BY <1>1, <1>3, <1>4, <1>6, <2>1
<1>7. CASE a.is \in kinds /\ b.is \in kinds /\ c.is \notin kinds
  <2>1. 3 \in left /\ \A j \in left : 3 <= j
    BY <1>1, <1>2, <1>7
  <2> QED BY <1>1, <1>3, <1>4, <1>7, <2>1
<1>8. CASE a.is \in kinds /\ b.is \in kinds /\ c.is \in kinds
  <2>1. left = {}
    BY <1>1, <1>8
  <2> QED BY <1>3, <1>8, <2>1
<1> QED BY <1>5, <1>6, <1>7, <1>8

LEMMA IdsAreThree ==
  ASSUME NEW payload \in Payloads, payload.is = "object"
  PROVE  \E a, b, c \in IdValues : payload.ids = <<a, b, c>>
<1>1. payload \in Objects
  BY DEF Payloads
<1> QED BY <1>1 DEF Objects

\* A valid message names a task.
LEMMA TaskIsNamed ==
  ASSUME NEW payload \in Payloads, IsTask(payload)
  PROVE  TaskOf(payload) \in Tasks
<1>1. payload.is = "object" /\ FirstPresent(payload.ids).is = "text"
  BY DEF IsTask
<1>2. PICK a, b, c \in IdValues : payload.ids = <<a, b, c>>
  BY <1>1, IdsAreThree
<1>3. FirstPresent(payload.ids) \in {a, b, c, Null}
  BY <1>2, FirstOfThree DEF FirstPresent
<1>4. FirstPresent(payload.ids) \in IdValues
  BY <1>1, <1>2, <1>3 DEF Null
<1>5. PICK t \in Tasks, padded \in BOOLEAN : FirstPresent(payload.ids) = Text(t, padded)
  BY <1>1, <1>4 DEF IdValues, Odd
<1> QED BY <1>5 DEF TaskOf, Text

-----------------------------------------------------------------------------
(* Type correctness                                                        *)

LEMMA GroupTypes ==
  ASSUME GroupTypeOK
  PROVE  /\ UNCHANGED groupVars => GroupTypeOK'
         /\ \A w \in Workers : Leave(w) => GroupTypeOK'
         /\ \A w \in Workers : CommitAll(w) => GroupTypeOK'
         /\ \A w \in Workers, p \in Partitions : Take(w, p) => GroupTypeOK'
         /\ CompleteRebalance => GroupTypeOK'
<1>0. \A p \in Partitions : Len(Log[p]) \in Nat
  BY LogLen
<1>1. UNCHANGED groupVars => GroupTypeOK'
  BY DEF groupVars, GroupTypeOK
<1>2. ASSUME NEW w \in Workers, Leave(w) PROVE GroupTypeOK'
  BY <1>2 DEF Leave, GroupTypeOK
<1>3. ASSUME NEW w \in Workers, CommitAll(w) PROVE GroupTypeOK'
  BY <1>3 DEF CommitAll, GroupTypeOK
<1>4. ASSUME NEW w \in Workers, NEW p \in Partitions, Take(w, p) PROVE GroupTypeOK'
  BY <1>4, <1>0 DEF Take, GroupTypeOK, Offsets
<1>5. CASE CompleteRebalance
  <2>1. AtPoll \in SUBSET Workers
    BY DEF AtPoll
  <2> QED BY <1>5, <2>1 DEF CompleteRebalance, Rebalance, GroupTypeOK
<1> QED BY <1>1, <1>2, <1>3, <1>4, <1>5

LEMMA FilesTypes ==
  ASSUME FilesTypeOK
  PROVE  /\ UNCHANGED fileVars => FilesTypeOK'
         /\ \A t \in Tasks : MakeDir(t) \/ RemoveDir(t) => FilesTypeOK'
         /\ \A t \in Tasks, v \in Videos, w \in Workers :
              OpenFile(t, v, w) \/ CloseFile(t, v, w) => FilesTypeOK'
         /\ \A t \in Tasks : \A saved \in SUBSET Images : SaveImages(t, saved) => FilesTypeOK'
<1>1. UNCHANGED fileVars => FilesTypeOK'
  BY DEF fileVars, FilesTypeOK
<1>2. ASSUME NEW t \in Tasks, MakeDir(t) \/ RemoveDir(t) PROVE FilesTypeOK'
  <2>1. CASE MakeDir(t) \/ EmptyDir(t)
    BY <2>1 DEF MakeDir, EmptyDir, NoFiles, FilesTypeOK
  <2>2. CASE KeepDir(t)
    <3>1. PICK kept \in SUBSET Videos :
            videos' = [videos EXCEPT ![t] = [v \in Videos |-> IF v \in kept THEN videos[t][v] ELSE NONE]]
      BY <2>2 DEF KeepDir
    <3> QED BY <2>2, <3>1 DEF KeepDir, FilesTypeOK
  <2> QED BY <1>2, <2>1, <2>2 DEF RemoveDir
<1>3. ASSUME NEW t \in Tasks, NEW v \in Videos, NEW w \in Workers,
             OpenFile(t, v, w) \/ CloseFile(t, v, w)
      PROVE  FilesTypeOK'
  <2>1. CASE OpenFile(t, v, w)
    BY <2>1 DEF OpenFile, FilesTypeOK
  <2>2. CASE CloseFile(t, v, w)
    <3>1. PICK file \in Workers \cup {NONE, "whole"} : videos' = [videos EXCEPT ![t][v] = file]
      BY <2>2 DEF CloseFile, FilesTypeOK
    <3> QED BY <2>2, <3>1 DEF CloseFile, FilesTypeOK
  <2> QED BY <1>3, <2>1, <2>2
<1>4. ASSUME NEW t \in Tasks, NEW saved \in SUBSET Images, SaveImages(t, saved)
      PROVE  FilesTypeOK'
  BY <1>4 DEF SaveImages, FilesTypeOK
<1> QED BY <1>1, <1>2, <1>3, <1>4

RunRecords == [video : Videos, ok : BOOLEAN, chosen : SUBSET Images, alone : BOOLEAN, exact : BOOLEAN]
LoopPcs == {"next", "invalid", "commit", "dead"} \cup InRun

\* The parts of TypeOK, and what a held record is: one of its partition's log,
\* valid if and only if the worker is in a run.
LoopTypeOK ==
  /\ pc \in [Workers -> LoopPcs]
  /\ job \in [Workers -> Jobs \cup {NONE}]
  /\ run \in [Workers -> RunRecords]
  /\ \A w \in Workers : job[w] = NONE <=> pc[w] \in {"next", "dead"}
  /\ \A w \in Workers : pc[w] \notin InRun => run[w] = NoRun

TablesTypeOK ==
  /\ workflow \in [RowNames -> {"absent", "running", "success", "failed"}]
  /\ shown \in [Tasks -> SUBSET Images]

HistTypeOK ==
  /\ faults \subseteq Faults
  /\ marked \subseteq Partitions \X Nat \X RowNames
  /\ settled \in [Partitions -> SUBSET Nat]
  /\ orphans \subseteq Tasks

HeldOK ==
  \A w \in Workers : job[w] # NONE =>
    /\ job[w].off < Len(Log[job[w].part])
    /\ pc[w] \in InRun => IsTask(Held(w))
    /\ pc[w] = "invalid" => ~IsTask(Held(w))

TypeInv ==
  GroupTypeOK /\ FilesTypeOK /\ LoopTypeOK /\ TablesTypeOK /\ HistTypeOK /\ HeldOK

LEMMA TypeInvInit == Init => TypeInv
<1> SUFFICES ASSUME Init PROVE TypeInv
  OBVIOUS
<1>1. GroupTypeOK
  <2>1. ASSUME NEW p \in Partitions PROVE 0 \in Offsets(p)
    BY LogLen DEF Offsets
  <2> QED BY <2>1 DEF Init, GroupInit, GroupTypeOK
<1>2. FilesTypeOK
  BY DEF Init, FilesInit, FilesTypeOK, NoFiles
<1>3. LoopTypeOK
  BY DEF Init, LoopTypeOK, LoopPcs, RunRecords, NoRun, Videos, InRun, InTry
<1>4. TablesTypeOK /\ HistTypeOK
  BY DEF Init, TablesTypeOK, HistTypeOK
<1>5. HeldOK
  BY DEF Init, HeldOK
<1> QED BY <1>1, <1>2, <1>3, <1>4, <1>5 DEF TypeInv

\* The record a worker holds, and the task and the row it is about.
LEMMA HeldFacts ==
  ASSUME TypeInv, NEW w \in Workers, pc[w] \notin {"next", "dead"}
  PROVE  /\ job[w] # NONE /\ job[w] \in Jobs
         /\ job[w].part \in Partitions /\ job[w].off \in Nat
         /\ job[w].attempt \in 1 .. MaxRetries
         /\ job[w].off < Len(Log[job[w].part])
         /\ Held(w) \in Payloads /\ Held(w) \in Records
         /\ pc[w] \in InRun => IsTask(Held(w)) /\ Task(w) \in Tasks
         /\ pc[w] \in InRun => Plain(Task(w)) \in RowNames
         /\ InvalidRow(Held(w)) # Null => InvalidRow(Held(w)) \in RowNames
<1>1. job[w] # NONE /\ job[w] \in Jobs /\ job[w].off < Len(Log[job[w].part])
  BY DEF TypeInv, LoopTypeOK, HeldOK
<1>2. job[w].part \in Partitions /\ job[w].off \in Nat /\ job[w].attempt \in 1 .. MaxRetries
  BY <1>1 DEF Jobs
<1>3. Held(w) \in Payloads /\ Held(w) \in Records
  BY <1>1, <1>2, LogLen DEF Held
<1>4. pc[w] \in InRun => IsTask(Held(w)) /\ Task(w) \in Tasks
  BY <1>1, <1>3, TaskIsNamed DEF TypeInv, HeldOK, Task
<1> QED BY <1>1, <1>2, <1>3, <1>4 DEF RowNames

\* What w does, and what happens to it.
Step(w) ==
  \/ (\E p \in Partitions : NextRecord(w, p))
  \/ ProcessTask(w) \/ MarkInvalid(w) \/ Commit(w)
  \/ Crash(w) \/ Restart(w) \/ SessionTimeout(w) \/ EvictSlow(w)

\* w goes on in its run; it is through with a record; it lets a record go.
GoesOn(w) ==
  /\ pc[w] \in InRun
  /\ \E l \in InRun, r \in RunRecords : Goto(w, l) /\ run' = [run EXCEPT ![w] = r]

Completes(w) ==
  /\ pc[w] \in {"remove", "invalid"}
  /\ Goto(w, "commit")
  /\ run' = [run EXCEPT ![w] = NoRun]

Drops(w) ==
  /\ Die(w) \/ (pc[w] = "commit" /\ Drop(w, "next"))
  /\ run' = [run EXCEPT ![w] = NoRun]

LEMMA MovesAreTyped ==
  ASSUME TypeInv, NEW w \in Workers
  PROVE  /\ UNCHANGED <<loopVars, run>> => LoopTypeOK' /\ HeldOK'
         /\ GoesOn(w) => LoopTypeOK' /\ HeldOK'
         /\ Completes(w) => LoopTypeOK' /\ HeldOK'
         /\ Drops(w) => LoopTypeOK' /\ HeldOK'
         /\ Restart(w) => LoopTypeOK' /\ HeldOK'
<1> USE DEF TypeInv
<1>l. "commit" \notin InRun /\ "next" \notin InRun /\ "dead" \notin InRun /\ "invalid" \notin InRun
      /\ "remove" \in InRun /\ InRun \subseteq LoopPcs
      /\ {"commit", "next", "dead", "invalid"} \subseteq LoopPcs
  BY DEF InRun, InTry, LoopPcs
<1>n. NoRun \in RunRecords
  BY DEF NoRun, RunRecords, Videos
<1>1. ASSUME UNCHANGED <<loopVars, run>> PROVE LoopTypeOK' /\ HeldOK'
  BY <1>1 DEF loopVars, LoopTypeOK, HeldOK, Held, Record
<1>2. ASSUME GoesOn(w) PROVE LoopTypeOK' /\ HeldOK'
  <2>1. PICK l \in InRun, r \in RunRecords : Goto(w, l) /\ run' = [run EXCEPT ![w] = r]
    BY <1>2 DEF GoesOn
  <2>2. pc[w] \in InRun /\ UNCHANGED job
    BY <1>2, <2>1 DEF GoesOn, Goto
  <2>3. LoopTypeOK'
    BY <1>l, <2>1, <2>2 DEF Goto, LoopTypeOK
  <2>4. HeldOK'
    BY <1>l, <2>1, <2>2 DEF Goto, LoopTypeOK, HeldOK, Held, Record
  <2> QED BY <2>3, <2>4
<1>3. ASSUME Completes(w) PROVE LoopTypeOK' /\ HeldOK'
  <2>1. LoopTypeOK'
    BY <1>l, <1>n, <1>3 DEF Completes, Goto, LoopTypeOK
  <2>2. HeldOK'
    BY <1>l, <1>3 DEF Completes, Goto, LoopTypeOK, HeldOK, Held, Record
  <2> QED BY <2>1, <2>2
<1>4. ASSUME Drops(w) PROVE LoopTypeOK' /\ HeldOK'
  <2>1. LoopTypeOK'
    BY <1>l, <1>n, <1>4 DEF Drops, Die, Drop, LoopTypeOK
  <2>2. HeldOK'
    BY <1>4 DEF Drops, Die, Drop, LoopTypeOK, HeldOK, Held, Record
  <2> QED BY <2>1, <2>2
<1>5. ASSUME Restart(w) PROVE LoopTypeOK' /\ HeldOK'
  <2>1. pc[w] = "dead" /\ Goto(w, "next") /\ UNCHANGED run
    BY <1>5 DEF Restart, runVars
  <2>2. LoopTypeOK'
    BY <1>l, <2>1 DEF Goto, LoopTypeOK
  <2>3. HeldOK'
    BY <1>l, <2>1 DEF Goto, LoopTypeOK, HeldOK, Held, Record
  <2> QED BY <2>2, <2>3
<1> QED BY <1>1, <1>2, <1>3, <1>4, <1>5

\* A new run of a task also marks the runs that are under way.
LEMMA JoinTypes ==
  ASSUME LoopTypeOK, NEW w \in Workers, NEW t, Join(w, t)
  PROVE  /\ run' \in [Workers -> RunRecords]
         /\ run'[w].chosen = {} /\ run'[w].ok = FALSE /\ run'[w].exact = TRUE
         /\ run'[w].alone <=> RunsOf(t) \subseteq {w}
         /\ \A v \in Workers \ {w} :
              run'[v] = IF v \in RunsOf(t) THEN [run[v] EXCEPT !.alone = FALSE] ELSE run[v]
<1>1. NoRun \in RunRecords
  BY DEF NoRun, RunRecords, Videos
<1>2. [NoRun EXCEPT !.alone = RunsOf(t) \ {w} = {}] \in RunRecords
  BY <1>1 DEF RunRecords
<1>3. \A v \in Workers : [run[v] EXCEPT !.alone = FALSE] \in RunRecords
  BY DEF LoopTypeOK, RunRecords
<1>4. run' \in [Workers -> RunRecords]
  BY <1>2, <1>3 DEF Join, LoopTypeOK
<1>5. run'[w] = [NoRun EXCEPT !.alone = RunsOf(t) \ {w} = {}]
  BY DEF Join
<1> QED BY <1>4, <1>5 DEF Join, NoRun

\* Most steps of process_task.
Works(w) ==
  \/ Begin(w) \/ Clear(w) \/ OpenVideo(w) \/ LoadVideo(w) \/ ReadVideo(w)
  \/ Save(w) \/ Write(w) \/ Succeed(w) \/ Fail(w) \/ MarkFailed(w)

LEMMA WorksGoesOn ==
  ASSUME LoopTypeOK, NEW w \in Workers, Works(w)
  PROVE  /\ GoesOn(w) /\ UNCHANGED <<groupVars, job, histVars>>
         /\ \A v \in Workers \ {w} : pc'[v] = pc[v] /\ run'[v] = run[v]
<1>r. run[w] \in RunRecords
  BY DEF LoopTypeOK
<1>s. run = [run EXCEPT ![w] = run[w]]
  BY DEF LoopTypeOK
<1>1. ASSUME NEW l \in InRun, Goto(w, l), pc[w] \in InRun, UNCHANGED run
      PROVE  GoesOn(w)
  BY <1>1, <1>r, <1>s DEF GoesOn
<1>2. ASSUME NEW l \in InRun, Goto(w, l), pc[w] \in InRun,
             NEW r \in RunRecords, run' = [run EXCEPT ![w] = r]
      PROVE  GoesOn(w)
  BY <1>2 DEF GoesOn
<1>3. ASSUME Begin(w) \/ Clear(w) \/ Write(w) \/ Fail(w) \/ MarkFailed(w)
      PROVE  GoesOn(w) /\ UNCHANGED <<groupVars, run, histVars>>
  <2>1. UNCHANGED <<groupVars, run, histVars>> /\ pc[w] \in InRun
    BY <1>3 DEF Begin, Clear, Write, Fail, MarkFailed, InRun, InTry
  <2>2. \E l \in InRun : Goto(w, l)
    BY <1>3 DEF Begin, Clear, Write, Fail, MarkFailed, InRun, InTry
  <2> QED BY <1>1, <2>1, <2>2
<1>v. ASSUME NEW l \in InRun, NEW a \in InRun, pc[w] \in InRun, NextVideo(w, l, a)
      PROVE  GoesOn(w)
  <2>1. /\ [run[w] EXCEPT !.video = "teacher"] \in RunRecords
        /\ [run[w] EXCEPT !.video = "student"] \in RunRecords
    BY <1>r DEF RunRecords, Videos
  <2>2. \/ Goto(w, l) /\ run' = [run EXCEPT ![w] = [run[w] EXCEPT !.video = "teacher"]]
        \/ Goto(w, a) /\ run' = [run EXCEPT ![w] = [run[w] EXCEPT !.video = "student"]]
    BY <1>v DEF NextVideo
  <2> QED BY <1>2, <1>v, <2>1, <2>2
<1>4. ASSUME OpenVideo(w) PROVE GoesOn(w) /\ UNCHANGED <<groupVars, histVars>>
  <2>1. pc[w] \in InRun /\ {"open", "load", "read"} \subseteq InRun
    BY <1>4 DEF OpenVideo, InRun, InTry
  <2> QED BY <1>1, <1>v, <1>4, <2>1 DEF OpenVideo
<1>5. ASSUME LoadVideo(w) PROVE GoesOn(w) /\ UNCHANGED <<groupVars, histVars>>
  <2>1. pc[w] \in InRun /\ {"open", "load", "read"} \subseteq InRun
    BY <1>5 DEF LoadVideo, InRun, InTry
  <2> QED BY <1>v, <1>5, <2>1 DEF LoadVideo
<1>6. ASSUME ReadVideo(w) PROVE GoesOn(w) /\ UNCHANGED <<groupVars, histVars>>
  <2>1. pc[w] \in InRun /\ {"read", "save"} \subseteq InRun /\ UNCHANGED <<groupVars, histVars>>
    BY <1>6 DEF ReadVideo, InRun, InTry
  <2> DEFINE e == Source(w) = "path" \/ videos[Task(w)][run[w].video] = "whole"
             r(v) == [run[w] EXCEPT !.video = v, !.exact = @ /\ e]
  <2>2. \/ Goto(w, "read") /\ run' = [run EXCEPT ![w] = r("teacher")]
        \/ Goto(w, "save") /\ run' = [run EXCEPT ![w] = r("student")]
    BY <1>6 DEF ReadVideo
  <2>3. e \in BOOLEAN
    OBVIOUS
  <2> HIDE DEF e
  <2>4. r("teacher") \in RunRecords /\ r("student") \in RunRecords
    BY <1>r, <2>3 DEF RunRecords, Videos
  <2> HIDE DEF r
  <2> QED BY <1>2, <2>1, <2>2, <2>4
<1>7. ASSUME Save(w) PROVE GoesOn(w) /\ UNCHANGED <<groupVars, histVars>>
  <2>1. pc[w] \in InRun /\ "write" \in InRun /\ UNCHANGED <<groupVars, histVars>>
    BY <1>7 DEF Save, InRun, InTry
  <2>2. PICK chosen \in SUBSET Images : run' = [run EXCEPT ![w].chosen = chosen]
    BY <1>7 DEF Save
  <2>3. [run[w] EXCEPT !.chosen = chosen] \in RunRecords
    BY <1>r DEF RunRecords
  <2> QED BY <1>2, <1>7, <2>1, <2>2, <2>3 DEF Save
<1>8. ASSUME Succeed(w) PROVE GoesOn(w) /\ UNCHANGED <<groupVars, histVars>>
  <2>1. pc[w] \in InRun /\ "remove" \in InRun /\ UNCHANGED <<groupVars, histVars>>
    BY <1>8 DEF Succeed, InRun, InTry
  <2>2. [run[w] EXCEPT !.ok = TRUE] \in RunRecords
    BY <1>r DEF RunRecords
  <2> QED BY <1>2, <1>8, <2>1, <2>2 DEF Succeed
<1>9. GoesOn(w) /\ UNCHANGED <<groupVars, histVars>>
  BY <1>3, <1>4, <1>5, <1>6, <1>7, <1>8 DEF Works
<1>10. UNCHANGED job
  BY <1>9 DEF GoesOn, Goto
<1>11. \A v \in Workers \ {w} : pc'[v] = pc[v] /\ run'[v] = run[v]
  BY <1>9 DEF GoesOn, Goto, LoopTypeOK
<1> QED BY <1>9, <1>10, <1>11

\* The handler is called once more.
Repeats(w) ==
  pc[w] = "remove" /\ ~run[w].ok /\ job[w].attempt < MaxRetries /\ Retry(w)

LEMMA StartsAreTyped ==
  ASSUME TypeInv, NEW w \in Workers
  PROVE  /\ Repeats(w) => LoopTypeOK' /\ HeldOK'
         /\ \A p \in Partitions : NextRecord(w, p) => LoopTypeOK' /\ HeldOK'
<1> USE DEF TypeInv
<1>l. /\ "commit" \notin InRun /\ "next" \notin InRun /\ "dead" \notin InRun
      /\ "invalid" \notin InRun /\ "remove" \in InRun /\ "begin" \in InRun
      /\ InRun \cup {"commit", "next", "dead", "invalid"} \subseteq LoopPcs
  BY DEF InRun, InTry, LoopPcs
<1>1. ASSUME Repeats(w) PROVE LoopTypeOK' /\ HeldOK'
  <2>1. pc[w] = "remove" /\ job[w] \in Jobs /\ job[w].attempt < MaxRetries
    BY <1>1, HeldFacts DEF Repeats
  <2>2. job[w].attempt + 1 \in 1 .. MaxRetries
    BY <2>1, HeldFacts, LegacyAssumption
  <2> DEFINE j == [job[w] EXCEPT !.attempt = @ + 1]
  <2>3. j \in Jobs /\ j # NONE /\ j.part = job[w].part /\ j.off = job[w].off
    BY <2>1, <2>2, LegacyAssumption DEF Jobs
  <2>4. job' = [job EXCEPT ![w] = j] /\ pc' = [pc EXCEPT ![w] = "begin"] /\ Join(w, Task(w))
    BY <1>1 DEF Repeats, Retry
  <2> HIDE DEF j
  <2>5. /\ run' \in [Workers -> RunRecords]
        /\ \A v \in Workers \ {w} :
             run'[v] = IF v \in RunsOf(Task(w)) THEN [run[v] EXCEPT !.alone = FALSE] ELSE run[v]
    BY <2>4, JoinTypes
  <2>6. LoopTypeOK'
    BY <1>l, <2>1, <2>3, <2>4, <2>5 DEF LoopTypeOK, RunsOf
  <2>7. HeldOK'
    BY <1>l, <2>1, <2>3, <2>4 DEF LoopTypeOK, HeldOK, Held, Record
  <2> QED BY <2>6, <2>7
<1>2. ASSUME NEW p \in Partitions, NextRecord(w, p) PROVE LoopTypeOK' /\ HeldOK'
  <2> DEFINE payload == Record(p, position[p])
             j == [part |-> p, off |-> position[p], attempt |-> 1]
  <2>1. pc[w] = "next" /\ position[p] \in Nat /\ position[p] < Len(Log[p])
    BY <1>2 DEF NextRecord, Take, GroupTypeOK
  <2>2. j \in Jobs /\ j # NONE /\ j.part = p /\ j.off = position[p]
    BY <2>1, LegacyAssumption DEF Jobs
  <2>3. CASE Die(w) /\ UNCHANGED run
    <3>1. LoopTypeOK'
      BY <1>l, <2>1, <2>3 DEF Die, Drop, LoopTypeOK
    <3>2. HeldOK'
      BY <1>l, <2>1, <2>3 DEF Die, Drop, LoopTypeOK, HeldOK, Held, Record
    <3> QED BY <3>1, <3>2
  <2>4. CASE /\ job' = [job EXCEPT ![w] = j] /\ IsTask(payload)
             /\ pc' = [pc EXCEPT ![w] = "begin"] /\ Join(w, TaskOf(payload))
    <3> HIDE DEF j
    <3>t. PICK t : Join(w, t)
      BY <2>4
    <3>1. /\ run' \in [Workers -> RunRecords]
          /\ \A v \in Workers \ {w} :
               run'[v] = IF v \in RunsOf(t) THEN [run[v] EXCEPT !.alone = FALSE] ELSE run[v]
      BY <3>t, JoinTypes
    <3>2. LoopTypeOK'
      BY <1>l, <2>1, <2>2, <2>4, <3>1 DEF LoopTypeOK, RunsOf
    <3>3. HeldOK'
      BY <1>l, <2>1, <2>2, <2>4 DEF LoopTypeOK, HeldOK, Held, Record
    <3> QED BY <3>2, <3>3
  <2>5. CASE /\ job' = [job EXCEPT ![w] = j] /\ ~IsTask(payload)
             /\ pc' = [pc EXCEPT ![w] = "invalid"] /\ UNCHANGED run
    <3> HIDE DEF j
    <3>1. LoopTypeOK'
      BY <1>l, <2>1, <2>2, <2>5 DEF LoopTypeOK
    <3>2. HeldOK'
      BY <1>l, <2>1, <2>2, <2>5 DEF LoopTypeOK, HeldOK, Held, Record
    <3> QED BY <3>1, <3>2
  <2> QED BY <1>2, <2>3, <2>4, <2>5 DEF NextRecord
<1> QED BY <1>1, <1>2

LEMMA StepShapes ==
  ASSUME TypeInv, NEW w \in Workers
  PROVE  /\ Remove(w) => Repeats(w) \/ (Completes(w) /\ Settle(w))
         /\ MarkInvalid(w) => \/ Completes(w) /\ Settle(w)
                              \/ Drops(w) /\ UNCHANGED settled
         /\ Commit(w) \/ Crash(w) => Drops(w) /\ UNCHANGED settled
         /\ SessionTimeout(w) \/ EvictSlow(w) => UNCHANGED <<loopVars, run>>
<1>1. ASSUME pc[w] \in {"invalid", "commit"} PROVE run = [run EXCEPT ![w] = NoRun]
  BY <1>1 DEF TypeInv, LoopTypeOK, InRun, InTry
<1>2. Remove(w) => Repeats(w) \/ (Completes(w) /\ Settle(w))
  BY DEF Remove, Repeats, Completes
<1>3. MarkInvalid(w) => (Completes(w) /\ Settle(w)) \/ (Drops(w) /\ UNCHANGED settled)
  BY <1>1 DEF MarkInvalid, Completes, Drops
<1>4. Commit(w) => Drops(w) /\ UNCHANGED settled
  BY <1>1 DEF Commit, Drops, runVars, histVars
<1>5. Crash(w) => Drops(w) /\ UNCHANGED settled
  BY DEF Crash, Drops
<1>6. SessionTimeout(w) \/ EvictSlow(w) => UNCHANGED <<loopVars, run>>
  BY DEF SessionTimeout, EvictSlow, runVars
<1> QED BY <1>2, <1>3, <1>4, <1>5, <1>6

\* What a call that raises has done before.
LEMMA PartDoneTypes ==
  ASSUME TypeInv, NEW w \in Workers, pc[w] \in InTry, PartDone(w)
  PROVE  FilesTypeOK' /\ TablesTypeOK'
<1> USE DEF TypeInv
<1>1. Task(w) \in Tasks /\ run[w].chosen \in SUBSET Images
  BY HeldFacts DEF InRun, InTry, LoopTypeOK, RunRecords
<1>2. CASE UNCHANGED <<fileVars, workflow, shown>>
  BY <1>2, FilesTypes DEF TablesTypeOK
<1>3. CASE SetRow(Plain(Task(w)), "success") /\ UNCHANGED <<fileVars, shown>>
  BY <1>3, FilesTypes DEF SetRow, TablesTypeOK
<1>4. ASSUME NEW saved \in SUBSET Images, SaveImages(Task(w), saved), UNCHANGED <<workflow, shown>>
      PROVE  FilesTypeOK' /\ TablesTypeOK'
  BY <1>1, <1>4, FilesTypes DEF TablesTypeOK
<1>5. ASSUME NEW chosen \in SUBSET run[w].chosen,
             shown' = [shown EXCEPT ![Task(w)] = @ \cup chosen], UNCHANGED <<fileVars, workflow>>
      PROVE  FilesTypeOK' /\ TablesTypeOK'
  BY <1>1, <1>5, FilesTypes DEF TablesTypeOK
<1> QED BY <1>2, <1>3, <1>4, <1>5 DEF PartDone

LEMMA DataTypes ==
  ASSUME TypeInv, NEW w \in Workers, Step(w)
  PROVE  FilesTypeOK' /\ TablesTypeOK'
<1> USE DEF TypeInv
<1>s. UNCHANGED <<fileVars, workflow, shown>> => FilesTypeOK' /\ TablesTypeOK'
  BY FilesTypes DEF TablesTypeOK
<1>t. pc[w] \in InRun => Task(w) \in Tasks /\ run[w].chosen \in SUBSET Images /\ run[w].video \in Videos
  <2>1. run[w] \in RunRecords
    BY DEF LoopTypeOK
  <2>2. pc[w] \in InRun => Task(w) \in Tasks
    BY HeldFacts DEF InRun, InTry
  <2> QED BY <2>1, <2>2 DEF RunRecords
<1>r. ASSUME NEW r, NEW s \in {"running", "success", "failed"}, SetRow(r, s), UNCHANGED <<fileVars, shown>>
      PROVE  FilesTypeOK' /\ TablesTypeOK'
  BY <1>r, FilesTypes DEF SetRow, TablesTypeOK
<1>1. CASE Begin(w)
  BY <1>1, <1>r DEF Begin
<1>2. CASE Clear(w)
  <2>1. pc[w] \in InRun
    BY <1>2 DEF Clear, InRun, InTry
  <2> QED BY <1>2, <1>t, <2>1, FilesTypes DEF Clear, TablesTypeOK
<1>3. CASE OpenVideo(w) \/ LoadVideo(w)
  <2>1. pc[w] \in InRun /\ UNCHANGED <<workflow, shown>>
    BY <1>3 DEF OpenVideo, LoadVideo, InRun, InTry
  <2> QED BY <1>3, <1>t, <2>1, FilesTypes DEF OpenVideo, LoadVideo, TablesTypeOK
<1>4. CASE ReadVideo(w)
  BY <1>4, <1>s DEF ReadVideo
<1>5. CASE Save(w)
  <2>1. pc[w] \in InRun /\ UNCHANGED <<workflow, shown>>
    BY <1>5 DEF Save, InRun, InTry
  <2>2. PICK chosen \in SUBSET Images : SaveImages(Task(w), chosen)
    BY <1>5 DEF Save
  <2> QED BY <1>t, <2>1, <2>2, FilesTypes DEF TablesTypeOK
<1>6. CASE Write(w)
  <2>1. pc[w] \in InRun
    BY <1>6 DEF Write, InRun, InTry
  <2> QED BY <1>6, <1>t, <2>1, FilesTypes DEF Write, TablesTypeOK
<1>7. CASE Succeed(w)
  BY <1>7, <1>r DEF Succeed
<1>8. CASE Fail(w)
  BY <1>8, PartDoneTypes DEF Fail
<1>9. CASE MarkFailed(w)
  BY <1>9, <1>r, FilesTypes DEF MarkFailed, TablesTypeOK
<1>10. CASE Remove(w)
  <2>1. pc[w] \in InRun /\ RemoveDir(Task(w)) /\ UNCHANGED <<workflow, shown>>
    BY <1>10 DEF Remove, CleanUp, RemoveDir, InRun
  <2> QED BY <1>t, <2>1, FilesTypes DEF TablesTypeOK
<1>11. CASE MarkInvalid(w)
  BY <1>11, <1>r, FilesTypes DEF MarkInvalid, Mark, TablesTypeOK
<1>12. CASE Crash(w)
  <2>1. CASE RemoveDir(Task(w)) /\ pc[w] = "remove" /\ UNCHANGED <<workflow, shown>>
    BY <1>t, <2>1, FilesTypes DEF TablesTypeOK, InRun
  <2> QED BY <1>12, <1>s, <2>1, PartDoneTypes DEF Crash
<1>13. ASSUME \/ (\E p \in Partitions : NextRecord(w, p)) \/ Commit(w) \/ Restart(w)
              \/ SessionTimeout(w) \/ EvictSlow(w)
       PROVE  FilesTypeOK' /\ TablesTypeOK'
  BY <1>13, <1>s DEF NextRecord, Commit, Restart, SessionTimeout, EvictSlow, runVars
<1> QED
  BY <1>1, <1>2, <1>3, <1>4, <1>5, <1>6, <1>7, <1>8, <1>9, <1>10, <1>11, <1>12, <1>13
  DEF Step, ProcessTask

LEMMA HistTypes ==
  ASSUME TypeInv, NEW w \in Workers, Step(w)
  PROVE  HistTypeOK'
<1> USE DEF TypeInv
<1>f. ASSUME NEW kind \in Faults, Fault(kind) PROVE faults' \subseteq Faults
  BY <1>f DEF Fault, HistTypeOK
<1>1. CASE Works(w)
  <2>1. UNCHANGED histVars
    BY <1>1, WorksGoesOn
  <2>2. faults' = faults \/ Fault("db")
    BY <1>1
    DEF Works, Begin, Clear, OpenVideo, LoadVideo, ReadVideo, Save, Write, Succeed, Fail,
        MarkFailed
  <2> QED BY <1>f, <2>1, <2>2 DEF histVars, HistTypeOK, Faults
<1>s. ASSUME pc[w] \notin {"next", "dead"}, Settle(w)
      PROVE  settled' \in [Partitions -> SUBSET Nat]
  BY <1>s, HeldFacts DEF Settle, HistTypeOK
<1>2. CASE Remove(w)
  <2>1. settled' = settled \/ Settle(w)
    BY <1>2 DEF Remove, Retry
  <2>2. pc[w] = "remove" /\ pc[w] \notin {"next", "dead"} /\ UNCHANGED <<faults, marked>>
    BY <1>2 DEF Remove
  <2>3. orphans' \subseteq orphans \cup {Task(w)}
    BY <1>2 DEF Remove, CleanUp
  <2>4. Task(w) \in Tasks
    BY <2>2, HeldFacts DEF InRun, InTry
  <2> QED BY <1>s, <2>1, <2>2, <2>3, <2>4 DEF HistTypeOK
<1>3. CASE MarkInvalid(w)
  <2>1. pc[w] \notin {"next", "dead"} /\ UNCHANGED orphans
    BY <1>3 DEF MarkInvalid
  <2>2. settled' = settled \/ Settle(w)
    BY <1>3 DEF MarkInvalid
  <2>3. faults' = faults \/ Fault("db")
    BY <1>3 DEF MarkInvalid
  <2>4. marked' = marked \/ (InvalidRow(Held(w)) # Null /\ Mark(w, InvalidRow(Held(w))))
    BY <1>3 DEF MarkInvalid
  <2>5. marked' \subseteq Partitions \X Nat \X RowNames
    BY <2>1, <2>4, HeldFacts DEF Mark, HistTypeOK
  <2> QED BY <1>f, <1>s, <2>1, <2>2, <2>3, <2>5 DEF HistTypeOK, Faults
<1>4. CASE Crash(w)
  <2>1. Fault("crash") /\ UNCHANGED <<marked, settled>>
    BY <1>4 DEF Crash
  <2>2. orphans' \subseteq Tasks
    BY <1>4, HeldFacts DEF Crash, HistTypeOK, InRun, InTry
  <2> QED BY <1>f, <2>1, <2>2 DEF HistTypeOK, Faults
<1>5. ASSUME \/ (\E p \in Partitions : NextRecord(w, p)) \/ Commit(w) \/ Restart(w)
             \/ SessionTimeout(w) \/ EvictSlow(w)
      PROVE  HistTypeOK'
  <2>1. UNCHANGED histVars
    BY <1>5 DEF NextRecord, Commit, Restart, SessionTimeout, EvictSlow
  <2>2. faults' = faults \/ Fault("kafka") \/ Fault("evict")
    BY <1>5 DEF NextRecord, Commit, Restart, SessionTimeout, EvictSlow
  <2> QED BY <1>f, <2>1, <2>2 DEF histVars, HistTypeOK, Faults
<1> QED BY <1>1, <1>2, <1>3, <1>4, <1>5 DEF Step, ProcessTask, Works

LEMMA TypeInvStep == TypeInv /\ [Next]_vars => TypeInv'
<1> SUFFICES ASSUME TypeInv, [Next]_vars PROVE TypeInv'
  OBVIOUS
<1>1. ASSUME NEW w \in Workers, Step(w) PROVE TypeInv'
  <2>1. GroupTypeOK'
    <3>1. \/ UNCHANGED groupVars \/ Leave(w) \/ CommitAll(w)
          \/ \E p \in Partitions : Take(w, p)
      BY <1>1
      DEF Step, ProcessTask, NextRecord, Begin, Clear, OpenVideo, LoadVideo, ReadVideo, Save,
          Write, Succeed, Fail, MarkFailed, Remove, MarkInvalid, Commit, Crash, Restart,
          SessionTimeout, EvictSlow
    <3> QED BY <3>1, GroupTypes DEF TypeInv
  <2>2. LoopTypeOK' /\ HeldOK'
    BY <1>1, MovesAreTyped, StartsAreTyped, StepShapes, WorksGoesOn
    DEF TypeInv, Step, ProcessTask, Works
  <2> QED BY <1>1, <2>1, <2>2, DataTypes, HistTypes DEF TypeInv
<1>2. CASE CompleteRebalance \/ UNCHANGED vars
  <2>1. GroupTypeOK'
    BY <1>2, GroupTypes DEF TypeInv, vars
  <2>2. UNCHANGED <<loopVars, runVars, faults, histVars>>
    BY <1>2 DEF CompleteRebalance, vars
  <2>3. FilesTypeOK' /\ TablesTypeOK' /\ HistTypeOK'
    BY <2>2, FilesTypes DEF TypeInv, runVars, histVars, TablesTypeOK, HistTypeOK
  <2>4. LoopTypeOK' /\ HeldOK'
    BY <2>2
    DEF TypeInv, runVars, loopVars, LoopTypeOK, HeldOK, Held, Record
  <2> QED BY <2>1, <2>3, <2>4 DEF TypeInv
<1> QED BY <1>1, <1>2 DEF Next, Step

\* The types of LegacyConsumer.
THEOREM LegacyTypeCorrect == Spec => []TypeOK
<1>1. TypeInv => TypeOK
  BY DEF TypeInv, LoopTypeOK, TablesTypeOK, HistTypeOK, RunRecords, LoopPcs, TypeOK
<1> QED BY <1>1, TypeInvInit, TypeInvStep, PTL DEF Spec

-----------------------------------------------------------------------------
(* Positions, records and acknowledgements                                 *)

\* A step of one worker leaves the loops of the others alone; only a history
\* component of their runs may change.
LEMMA OthersStay ==
  ASSUME TypeInv, NEW w \in Workers, Step(w), NEW v \in Workers \ {w}
  PROVE  /\ pc'[v] = pc[v] /\ job'[v] = job[v]
         /\ run'[v] = run[v] \/ run'[v] = [run[v] EXCEPT !.alone = FALSE]
<1> USE DEF TypeInv, LoopTypeOK
<1>1. CASE Works(w)
  BY <1>1, WorksGoesOn
<1>2. CASE Completes(w) \/ Drops(w)
  BY <1>2 DEF Completes, Drops, Goto, Die, Drop
<1>3. CASE Repeats(w)
  BY <1>3, JoinTypes DEF Repeats, Retry
<1>4. ASSUME NEW p \in Partitions, NextRecord(w, p)
      PROVE  /\ pc'[v] = pc[v] /\ job'[v] = job[v]
             /\ run'[v] = run[v] \/ run'[v] = [run[v] EXCEPT !.alone = FALSE]
  <2>1. pc'[v] = pc[v] /\ job'[v] = job[v]
    BY <1>4 DEF NextRecord, Die, Drop
  <2>2. UNCHANGED run \/ \E t : Join(w, t)
    BY <1>4 DEF NextRecord
  <2> QED BY <2>1, <2>2, JoinTypes
<1>5. CASE Restart(w) \/ UNCHANGED <<loopVars, run>>
  BY <1>5 DEF Restart, Goto, loopVars, runVars
<1> QED
  BY <1>1, <1>2, <1>3, <1>4, <1>5, StepShapes DEF Step, ProcessTask, Works

\* An owner is a member, and its position is the committed offset, or one past
\* it while the owner holds that record or has died with it.
OwnerInv ==
  \A p \in Partitions :
    owner[p] # NONE =>
      /\ owner[p] \in members
      /\ \/ position[p] = committed[p]
         \/ /\ position[p] = committed[p] + 1
            /\ \/ pc[owner[p]] = "dead"
               \/ job[owner[p]] # NONE /\ job[owner[p]].part = p

\* A member holds the oldest unacknowledged record of a partition it owns; a
\* worker outside the group holds that one or one acknowledged since.  Nothing
\* is committed before its record is settled.
JobInv ==
  \A w \in Workers :
    job[w] # NONE =>
      /\ job[w].off <= committed[job[w].part]
      /\ w \in members =>
           /\ owner[job[w].part] = w
           /\ job[w].off = committed[job[w].part]
           /\ position[job[w].part] = job[w].off + 1
      /\ pc[w] = "commit" => job[w].off \in settled[job[w].part]

\* No acknowledged record was lost.
NoLoss == \A p \in Partitions : \A o \in 0 .. committed[p] - 1 : o \in settled[p]

PositionInv == OwnerInv /\ JobInv

DeliveryInv == PositionInv /\ NoLoss

LEMMA NoLossStays ==
  ASSUME NoLoss, UNCHANGED committed, \A p \in Partitions : settled[p] \subseteq settled'[p]
  PROVE  NoLoss'
BY DEF NoLoss

\* w goes on with the record it holds, or is through with it.
LEMMA KeepMove ==
  ASSUME TypeInv, DeliveryInv, NEW w \in Workers,
         \A v \in Workers \ {w} : pc'[v] = pc[v] /\ job'[v] = job[v],
         job[w] # NONE, job'[w] # NONE, job'[w].part = job[w].part, job'[w].off = job[w].off,
         UNCHANGED groupVars,
         \/ pc'[w] # "commit" /\ UNCHANGED settled
         \/ Settle(w)
  PROVE  DeliveryInv'
<1> USE DEF TypeInv, LoopTypeOK, GroupTypeOK, HistTypeOK
<1>1. pc[w] # "dead" /\ job[w].part \in Partitions /\ job[w].off \in Nat
  BY HeldFacts
<1>2. /\ \A p \in Partitions : settled[p] \subseteq settled'[p]
      /\ pc'[w] = "commit" => job[w].off \in settled'[job[w].part]
  BY <1>1 DEF Settle
<1>3. OwnerInv'
  <2> SUFFICES ASSUME NEW p \in Partitions, owner[p] # NONE
               PROVE  /\ owner[p] \in members
                      /\ \/ position[p] = committed[p]
                         \/ /\ position[p] = committed[p] + 1
                            /\ \/ pc'[owner[p]] = "dead"
                               \/ job'[owner[p]] # NONE /\ job'[owner[p]].part = p
    BY DEF OwnerInv, groupVars
  <2>1. /\ owner[p] \in members
        /\ \/ position[p] = committed[p]
           \/ /\ position[p] = committed[p] + 1
              /\ \/ pc[owner[p]] = "dead"
                 \/ job[owner[p]] # NONE /\ job[owner[p]].part = p
    BY DEF DeliveryInv, PositionInv, OwnerInv
  <2> QED BY <1>1, <2>1
<1>4. JobInv'
  <2> SUFFICES ASSUME NEW v \in Workers, job'[v] # NONE
               PROVE  /\ job'[v].off <= committed[job'[v].part]
                      /\ v \in members =>
                           /\ owner[job'[v].part] = v
                           /\ job'[v].off = committed[job'[v].part]
                           /\ position[job'[v].part] = job'[v].off + 1
                      /\ pc'[v] = "commit" => job'[v].off \in settled'[job'[v].part]
    BY DEF JobInv, groupVars
  <2>1. job[v] # NONE /\ job'[v].part = job[v].part /\ job'[v].off = job[v].off
        /\ job[v].part \in Partitions
    BY DEF Jobs
  <2>2. pc'[v] = "commit" => job[v].off \in settled'[job[v].part]
    BY <1>2, <2>1 DEF DeliveryInv, PositionInv, JobInv
  <2> QED BY <2>1, <2>2 DEF DeliveryInv, PositionInv, JobInv
<1>5. NoLoss'
  BY <1>2, NoLossStays DEF DeliveryInv, groupVars
<1> QED BY <1>3, <1>4, <1>5 DEF DeliveryInv, PositionInv

LEMMA DieMove ==
  ASSUME TypeInv, DeliveryInv, NEW w \in Workers, Die(w), UNCHANGED <<groupVars, settled>>
  PROVE  DeliveryInv'
<1>1. OwnerInv'
  BY DEF TypeInv, DeliveryInv, PositionInv, OwnerInv, Die, Drop, groupVars, GroupTypeOK, LoopTypeOK
<1>2. JobInv'
  BY DEF TypeInv, DeliveryInv, PositionInv, JobInv, Die, Drop, groupVars, LoopTypeOK
<1>3. NoLoss'
  BY NoLossStays DEF DeliveryInv, groupVars
<1> QED BY <1>1, <1>2, <1>3 DEF DeliveryInv, PositionInv

LEMMA LeaveMove ==
  ASSUME TypeInv, DeliveryInv, NEW w \in Workers, Leave(w), UNCHANGED <<loopVars, settled>>
  PROVE  DeliveryInv'
<1> USE DEF TypeInv, DeliveryInv
<1>1. OwnerInv'
  <2> SUFFICES ASSUME NEW p \in Partitions, owner'[p] # NONE
               PROVE  owner[p] # NONE /\ owner[p] # w /\ owner'[p] = owner[p]
    BY DEF PositionInv, OwnerInv, Leave, loopVars
  <2> QED BY DEF Leave, GroupTypeOK
<1>2. JobInv'
  <2> SUFFICES ASSUME NEW v \in Workers, job[v] # NONE, v \in members'
               PROVE  v \in members /\ owner'[job[v].part] = owner[job[v].part]
    BY DEF PositionInv, JobInv, Leave, loopVars
  <2>1. v \in members /\ v # w
    BY DEF Leave
  <2>2. owner[job[v].part] = v /\ job[v].part \in Partitions
    BY <2>1 DEF PositionInv, JobInv, LoopTypeOK, Jobs
  <2> QED BY <2>1, <2>2 DEF Leave
<1>3. NoLoss'
  BY NoLossStays DEF Leave
<1> QED BY <1>1, <1>2, <1>3 DEF PositionInv

\* commit() stores the positions of all partitions, and only that of the record
\* in hand is a new one.
LEMMA CommitAllIsOne ==
  ASSUME TypeInv, PositionInv, NEW w \in Workers, pc[w] = "commit", CommitAll(w)
  PROVE  /\ committed' = [committed EXCEPT ![job[w].part] = job[w].off + 1]
         /\ UNCHANGED <<members, owner, position>>
<1>1. job[w] # NONE /\ job[w].part \in Partitions /\ w \in members
  BY HeldFacts DEF CommitAll
<1>2. owner[job[w].part] = w /\ position[job[w].part] = job[w].off + 1
  BY <1>1 DEF PositionInv, JobInv
<1>3. ASSUME NEW p \in Partitions, owner[p] = w, p # job[w].part
      PROVE  position[p] = committed[p]
  <2>1. owner[p] # NONE
    BY <1>3, WorkerAssumption
  <2> QED BY <1>3, <2>1 DEF PositionInv, OwnerInv
<1>4. ASSUME NEW p \in Partitions
      PROVE  committed'[p] = [committed EXCEPT ![job[w].part] = job[w].off + 1][p]
  <2>1. CASE p = job[w].part
    BY <1>1, <1>2, <2>1 DEF CommitAll, TypeInv, GroupTypeOK
  <2>2. CASE p # job[w].part
    BY <1>1, <1>3, <2>2 DEF CommitAll, TypeInv, GroupTypeOK
  <2> QED BY <2>1, <2>2
<1>5. committed \in [Partitions -> Nat] /\ committed' = [p \in Partitions |-> committed'[p]]
  BY DEF CommitAll, TypeInv, GroupTypeOK
<1> QED BY <1>4, <1>5 DEF CommitAll

LEMMA CommitMove ==
  ASSUME TypeInv, DeliveryInv, NEW w \in Workers, pc[w] = "commit", CommitAll(w),
         NEW l \in {"next", "dead"}, Drop(w, l), UNCHANGED settled
  PROVE  DeliveryInv'
<1> USE DEF TypeInv, DeliveryInv, LoopTypeOK, GroupTypeOK
<1> DEFINE q == job[w].part
           o == job[w].off
<1>1. job[w] # NONE /\ q \in Partitions /\ o \in Nat /\ w \in members
  BY HeldFacts DEF CommitAll
<1>2. owner[q] = w /\ o = committed[q] /\ position[q] = o + 1 /\ o \in settled[q]
  BY <1>1 DEF PositionInv, JobInv
<1>3. /\ committed'[q] = o + 1 /\ \A p \in Partitions : p # q => committed'[p] = committed[p]
      /\ UNCHANGED <<members, owner, position>>
  BY <1>1, CommitAllIsOne
<1>d. /\ pc' = [pc EXCEPT ![w] = l] /\ job' = [job EXCEPT ![w] = NONE] /\ l # "commit"
  BY DEF Drop
<1> HIDE DEF q, o
<1>4. OwnerInv'
  <2> SUFFICES ASSUME NEW p \in Partitions, owner[p] # NONE
               PROVE  /\ owner[p] \in members
                      /\ \/ position[p] = committed'[p]
                         \/ /\ position[p] = committed'[p] + 1
                            /\ \/ pc'[owner[p]] = "dead"
                               \/ job'[owner[p]] # NONE /\ job'[owner[p]].part = p
    BY <1>3 DEF OwnerInv
  <2>1. CASE p = q
    BY <1>2, <1>3, <2>1 DEF PositionInv, OwnerInv
  <2>2. CASE p # q
    <3>1. /\ owner[p] \in members
          /\ \/ position[p] = committed[p]
             \/ /\ position[p] = committed[p] + 1
                /\ \/ pc[owner[p]] = "dead"
                   \/ job[owner[p]] # NONE /\ job[owner[p]].part = p
      BY DEF PositionInv, OwnerInv
    <3>2. committed'[p] = committed[p] /\ owner[p] \in Workers
      BY <1>3, <2>2
    <3>3. CASE owner[p] = w
      BY <2>2, <3>1, <3>2, <3>3 DEF q
    <3>4. CASE owner[p] # w
      BY <1>d, <3>1, <3>2, <3>4
    <3> QED BY <3>3, <3>4
  <2> QED BY <2>1, <2>2
<1>5. JobInv'
  <2> SUFFICES ASSUME NEW v \in Workers, job'[v] # NONE
               PROVE  /\ job'[v].off <= committed'[job'[v].part]
                      /\ v \in members =>
                           /\ owner[job'[v].part] = v
                           /\ job'[v].off = committed'[job'[v].part]
                           /\ position[job'[v].part] = job'[v].off + 1
                      /\ pc'[v] = "commit" => job'[v].off \in settled[job'[v].part]
    BY <1>3 DEF JobInv
  <2>1. v # w /\ job'[v] = job[v] /\ pc'[v] = pc[v]
    BY <1>d
  <2>2. job[v].part \in Partitions /\ job[v].off \in Nat /\ job[v] # NONE
    BY <2>1 DEF Jobs
  <2>3. /\ job[v].off <= committed[job[v].part]
        /\ v \in members =>
             /\ owner[job[v].part] = v
             /\ job[v].off = committed[job[v].part]
             /\ position[job[v].part] = job[v].off + 1
        /\ pc[v] = "commit" => job[v].off \in settled[job[v].part]
    BY <2>2 DEF PositionInv, JobInv
  <2>4. CASE job[v].part = q
    <3>1. v \notin members
      BY <1>2, <2>1, <2>3, <2>4
    <3>2. job[v].off <= committed'[q]
      BY <1>1, <1>2, <1>3, <2>2, <2>3, <2>4
    <3> QED BY <2>1, <2>3, <2>4, <3>1, <3>2
  <2>5. CASE job[v].part # q
    BY <1>3, <2>1, <2>2, <2>3, <2>5
  <2> QED BY <2>4, <2>5
<1>6. NoLoss'
  <2> SUFFICES ASSUME NEW p \in Partitions, NEW i \in 0 .. committed'[p] - 1
               PROVE  i \in settled[p]
    BY DEF NoLoss
  <2>1. committed[p] \in Nat
    OBVIOUS
  <2>2. CASE i < committed[p]
    BY <2>1, <2>2 DEF NoLoss
  <2>3. CASE i >= committed[p]
    BY <1>1, <1>2, <1>3, <2>1, <2>3
  <2> QED BY <2>1, <2>2, <2>3
<1> QED BY <1>4, <1>5, <1>6 DEF PositionInv

LEMMA TakeMove ==
  ASSUME TypeInv, DeliveryInv, NEW w \in Workers, NEW p \in Partitions, NextRecord(w, p)
  PROVE  DeliveryInv'
<1> USE DEF TypeInv, DeliveryInv
<1>1. pc[w] = "next" /\ job[w] = NONE /\ w \in members /\ owner[p] = w /\ owner[p] # NONE
  BY WorkerAssumption DEF NextRecord, Take, LoopTypeOK
<1>2. position[p] = committed[p] /\ committed[p] \in Nat
  BY <1>1 DEF PositionInv, OwnerInv, GroupTypeOK
<1>3. /\ position'[p] = committed[p] + 1
      /\ \A q \in Partitions : q # p => position'[q] = position[q]
      /\ UNCHANGED <<members, owner, committed>>
  BY <1>2 DEF NextRecord, Take, GroupTypeOK
<1>4. UNCHANGED settled
  BY DEF NextRecord, histVars
<1>5. NoLoss'
  BY <1>3, <1>4, NoLossStays
<1>6. \A v \in Workers : v # w => pc'[v] = pc[v] /\ job'[v] = job[v]
  BY OthersStay DEF Step
<1>7. \/ pc'[w] = "dead" /\ job'[w] = NONE
      \/ /\ pc'[w] \in {"begin", "invalid"}
         /\ job'[w] # NONE /\ job'[w].part = p /\ job'[w].off = committed[p]
  <2> DEFINE j == [part |-> p, off |-> position[p], attempt |-> 1]
  <2>1. j # NONE /\ j.part = p /\ j.off = committed[p]
    <3>1. j \in Jobs
      BY <1>2, LegacyAssumption DEF Jobs
    <3> QED BY <1>2, <3>1, LegacyAssumption
  <2> HIDE DEF j
  <2>2. \/ Die(w)
        \/ job' = [job EXCEPT ![w] = j] /\ \E l \in {"begin", "invalid"} : pc' = [pc EXCEPT ![w] = l]
    BY DEF NextRecord, j
  <2> QED BY <2>1, <2>2 DEF Die, Drop, LoopTypeOK
<1>8. OwnerInv'
  <2> SUFFICES ASSUME NEW q \in Partitions, owner[q] # NONE
               PROVE  /\ owner[q] \in members
                      /\ \/ position'[q] = committed[q]
                         \/ /\ position'[q] = committed[q] + 1
                            /\ \/ pc'[owner[q]] = "dead"
                               \/ job'[owner[q]] # NONE /\ job'[owner[q]].part = q
    BY <1>3 DEF OwnerInv
  <2>1. CASE q = p
    BY <1>1, <1>3, <1>7, <2>1
  <2>2. CASE q # p
    <3>1. /\ owner[q] \in members
          /\ \/ position[q] = committed[q]
             \/ /\ position[q] = committed[q] + 1
                /\ \/ pc[owner[q]] = "dead"
                   \/ job[owner[q]] # NONE /\ job[owner[q]].part = q
      BY DEF PositionInv, OwnerInv
    <3>2. position'[q] = position[q] /\ owner[q] \in Workers
      BY <1>3, <2>2 DEF GroupTypeOK
    <3> QED BY <1>1, <1>6, <3>1, <3>2
  <2> QED BY <2>1, <2>2
<1>9. JobInv'
  <2> SUFFICES ASSUME NEW v \in Workers, job'[v] # NONE
               PROVE  /\ job'[v].off <= committed[job'[v].part]
                      /\ v \in members =>
                           /\ owner[job'[v].part] = v
                           /\ job'[v].off = committed[job'[v].part]
                           /\ position'[job'[v].part] = job'[v].off + 1
                      /\ pc'[v] = "commit" => job'[v].off \in settled[job'[v].part]
    BY <1>3, <1>4 DEF JobInv
  <2>1. CASE v = w
    BY <1>1, <1>2, <1>3, <1>7, <2>1
  <2>2. CASE v # w
    <3>1. job'[v] = job[v] /\ pc'[v] = pc[v] /\ job[v].part \in Partitions
      BY <1>6, <2>2 DEF LoopTypeOK, Jobs
    <3>2. /\ job[v].off <= committed[job[v].part]
          /\ v \in members =>
               /\ owner[job[v].part] = v
               /\ job[v].off = committed[job[v].part]
               /\ position[job[v].part] = job[v].off + 1
          /\ pc[v] = "commit" => job[v].off \in settled[job[v].part]
      BY <3>1 DEF PositionInv, JobInv
    <3>3. v \in members => job[v].part # p
      BY <1>1, <2>2, <3>2
    <3>4. v \in members => position'[job[v].part] = position[job[v].part]
      BY <1>3, <3>1, <3>3
    <3> QED BY <3>1, <3>2, <3>4
  <2> QED BY <2>1, <2>2
<1> QED BY <1>5, <1>8, <1>9 DEF PositionInv

LEMMA RebalanceMove ==
  ASSUME TypeInv, DeliveryInv, CompleteRebalance
  PROVE  DeliveryInv'
<1> USE DEF TypeInv, DeliveryInv
<1>1. /\ owner' \in [Partitions -> members']
      /\ members' \subseteq AtPoll
      /\ position' = committed /\ committed' = committed
      /\ UNCHANGED <<pc, job, settled>>
  BY DEF CompleteRebalance, Rebalance, loopVars, histVars
<1>2. \A w \in Workers : w \in members' => job[w] = NONE
  BY <1>1 DEF AtPoll, LoopTypeOK
<1>3. OwnerInv'
  BY <1>1 DEF OwnerInv
<1>4. JobInv'
  BY <1>1, <1>2 DEF PositionInv, JobInv
<1>5. NoLoss'
  BY <1>1, NoLossStays
<1> QED BY <1>3, <1>4, <1>5 DEF PositionInv

LEMMA RestartMove ==
  ASSUME TypeInv, DeliveryInv, NEW w \in Workers, Restart(w)
  PROVE  DeliveryInv'
<1> USE DEF TypeInv, DeliveryInv
<1>1. /\ pc[w] = "dead" /\ w \notin members
      /\ pc' = [pc EXCEPT ![w] = "next"]
      /\ UNCHANGED <<groupVars, job, settled>>
  BY DEF Restart, Goto, histVars
<1>2. OwnerInv'
  <2> SUFFICES ASSUME NEW p \in Partitions, owner[p] # NONE
               PROVE  pc'[owner[p]] = pc[owner[p]]
    BY <1>1 DEF PositionInv, OwnerInv, groupVars
  <2> QED BY <1>1 DEF PositionInv, OwnerInv, GroupTypeOK, LoopTypeOK
<1>3. JobInv'
  BY <1>1 DEF PositionInv, JobInv, LoopTypeOK, groupVars
<1>4. NoLoss'
  BY <1>1, NoLossStays DEF groupVars
<1> QED BY <1>2, <1>3, <1>4 DEF PositionInv

\* The steps of a worker, by what they do to the group and to its record.
LEMMA StepKinds ==
  ASSUME TypeInv, NEW w \in Workers, Step(w)
  PROVE  \/ /\ pc[w] \in InRun \cup {"invalid"} /\ pc'[w] \in InRun \cup {"commit"}
            /\ job'[w] # NONE /\ job'[w].part = job[w].part /\ job'[w].off = job[w].off
            /\ UNCHANGED groupVars
            /\ \/ pc'[w] # "commit" /\ UNCHANGED settled
               \/ pc'[w] = "commit" /\ Settle(w)
         \/ Die(w) /\ UNCHANGED <<groupVars, settled>>
         \/ /\ pc[w] = "commit" /\ CommitAll(w) /\ UNCHANGED settled
            /\ \E l \in {"next", "dead"} : Drop(w, l)
         \/ \E p \in Partitions : NextRecord(w, p)
         \/ Restart(w)
         \/ Leave(w) /\ UNCHANGED <<loopVars, settled>>
<1> USE DEF TypeInv, LoopTypeOK
<1>l. "commit" \notin InRun /\ "remove" \in InRun /\ "begin" \in InRun
      /\ "next" \notin InRun /\ "dead" \notin InRun
  BY DEF InRun, InTry
<1>1. CASE Works(w)
  <2>1. pc[w] \in InRun /\ pc'[w] \in InRun /\ UNCHANGED <<job, groupVars, settled>>
    BY <1>1, WorksGoesOn DEF GoesOn, Goto, histVars
  <2>2. job[w] # NONE
    BY <1>l, <2>1
  <2> QED BY <1>l, <2>1, <2>2
<1>2. CASE Remove(w) \/ MarkInvalid(w)
  <2>1. UNCHANGED groupVars /\ pc[w] \in {"remove", "invalid"} /\ job[w] # NONE
    BY <1>2 DEF Remove, MarkInvalid
  <2>2. CASE Completes(w) /\ Settle(w)
    BY <1>l, <2>1, <2>2 DEF Completes, Goto
  <2>3. CASE Drops(w) /\ UNCHANGED settled
    BY <2>1, <2>3 DEF Drops
  <2>4. CASE Repeats(w)
    <3>1. pc'[w] = "begin" /\ UNCHANGED settled /\ job' = [job EXCEPT ![w].attempt = @ + 1]
      BY <2>4 DEF Repeats, Retry
    <3>2. job'[w] # NONE
      BY <1>l, <2>4, <3>1, StartsAreTyped
    <3>3. job'[w].part = job[w].part /\ job'[w].off = job[w].off
      BY <2>1, <3>1 DEF Jobs
    <3> QED BY <1>l, <2>1, <3>1, <3>2, <3>3
  <2> QED BY <1>2, <2>2, <2>3, <2>4, StepShapes
<1>3. CASE Commit(w)
  BY <1>3 DEF Commit, Die, histVars
<1>4. CASE Crash(w)
  BY <1>4 DEF Crash
<1>5. CASE SessionTimeout(w) \/ EvictSlow(w)
  BY <1>5 DEF SessionTimeout, EvictSlow, histVars
<1> QED BY <1>1, <1>2, <1>3, <1>4, <1>5 DEF Step, ProcessTask, Works

\* The inductive invariant of the delivery.
LegacyInv == TypeInv /\ DeliveryInv

LEMMA LegacyInvInit == Init => LegacyInv
<1>1. Init => DeliveryInv
  BY DEF Init, GroupInit, DeliveryInv, PositionInv, OwnerInv, JobInv, NoLoss
<1> QED BY <1>1, TypeInvInit DEF LegacyInv

LEMMA LegacyInvStep == LegacyInv /\ [Next]_vars => LegacyInv'
<1> SUFFICES ASSUME TypeInv, DeliveryInv, [Next]_vars PROVE DeliveryInv'
  BY TypeInvStep DEF LegacyInv
<1>1. ASSUME NEW w \in Workers, Step(w) PROVE DeliveryInv'
  <2>1. \A v \in Workers \ {w} : pc'[v] = pc[v] /\ job'[v] = job[v]
    BY <1>1, OthersStay
  <2>2. pc[w] \in InRun \cup {"invalid"} => job[w] # NONE
    BY HeldFacts DEF InRun, InTry
  <2> QED
    BY <1>1, <2>1, <2>2, StepKinds, KeepMove, DieMove, CommitMove, TakeMove, RestartMove, LeaveMove
<1>2. CASE UNCHANGED vars
  BY <1>2
  DEF vars, groupVars, loopVars, histVars, DeliveryInv, PositionInv, OwnerInv, JobInv, NoLoss
<1> QED BY <1>1, <1>2, RebalanceMove DEF Next, Step

\* The older loop delivers at least once and in order: with its committed
\* offsets and settled records it is an implementation of TaskDelivery.
THEOREM LegacyDelivers == Spec => LegacyDelivery
<1>1. Init => Delivery!Init
  BY DEF Init, GroupInit, Delivery!Init
<1>2. LegacyInv /\ [Next]_vars => [Delivery!Next]_(Delivery!deliveryVars)
  <2> SUFFICES ASSUME LegacyInv, [Next]_vars
               PROVE  Delivery!Next \/ UNCHANGED <<committed, settled>>
    BY DEF Delivery!deliveryVars
  <2> USE DEF LegacyInv
  <2>1. ASSUME NEW w \in Workers, pc[w] \notin {"next", "dead"}, Settle(w), UNCHANGED groupVars
        PROVE  Delivery!Next
    <3>1. /\ job[w] # NONE /\ job[w].part \in Partitions /\ job[w].off \in Nat
          /\ job[w].off < Len(Log[job[w].part])
      BY <2>1, HeldFacts
    <3>2. job[w].off \in 0 .. Len(Log[job[w].part]) - 1
      BY <3>1, LogLen
    <3>3. job[w].off <= committed[job[w].part]
      BY <3>1 DEF DeliveryInv, PositionInv, JobInv
    <3>s. settled' = [settled EXCEPT ![job[w].part] = @ \cup {job[w].off}] /\ UNCHANGED committed
      BY <2>1 DEF Settle, groupVars
    <3>4. Delivery!Settle(job[w].part, job[w].off)
      BY <3>3, <3>s DEF Delivery!Settle
    <3> QED BY <3>1, <3>2, <3>4 DEF Delivery!Next
  <2>2. ASSUME NEW w \in Workers, pc[w] = "commit", CommitAll(w), UNCHANGED settled
        PROVE  Delivery!Next
    <3>1. /\ job[w] # NONE /\ job[w].part \in Partitions /\ w \in members
          /\ committed' = [committed EXCEPT ![job[w].part] = job[w].off + 1]
      BY <2>2, HeldFacts, CommitAllIsOne DEF CommitAll, DeliveryInv
    <3>2. job[w].off = committed[job[w].part] /\ job[w].off \in settled[job[w].part]
      BY <2>2, <3>1 DEF DeliveryInv, PositionInv, JobInv
    <3>3. Delivery!Ack(job[w].part)
      BY <2>2, <3>1, <3>2 DEF Delivery!Ack
    <3> QED BY <3>1, <3>3 DEF Delivery!Next
  <2>3. ASSUME NEW w \in Workers, Step(w)
        PROVE  Delivery!Next \/ UNCHANGED <<committed, settled>>
    <3>1. \A p \in Partitions : NextRecord(w, p) => UNCHANGED <<committed, settled>>
      BY DEF NextRecord, Take, histVars
    <3>2. Restart(w) \/ (Leave(w) /\ UNCHANGED settled) => UNCHANGED <<committed, settled>>
      BY DEF Restart, Leave, groupVars, histVars
    <3>3. pc[w] \in InRun \cup {"invalid"} => pc[w] \notin {"next", "dead"}
      BY DEF InRun, InTry
    <3>4. UNCHANGED groupVars => UNCHANGED committed
      BY DEF groupVars
    <3>5. CASE /\ pc[w] \in InRun \cup {"invalid"} /\ UNCHANGED groupVars
               /\ UNCHANGED settled \/ Settle(w)
      BY <2>1, <3>3, <3>4, <3>5
    <3>6. CASE pc[w] = "commit" /\ CommitAll(w) /\ UNCHANGED settled
      BY <2>2, <3>6
    <3>7. CASE UNCHANGED groupVars /\ UNCHANGED settled
      BY <3>4, <3>7
    <3> QED BY <2>3, <3>1, <3>2, <3>5, <3>6, <3>7, StepKinds
  <2>4. CASE CompleteRebalance \/ UNCHANGED vars
    BY <2>4 DEF CompleteRebalance, Rebalance, vars, groupVars, histVars
  <2> QED BY <2>3, <2>4 DEF Next, Step
<1> QED
  BY <1>1, <1>2, LegacyInvInit, LegacyInvStep, PTL DEF Spec, LegacyDelivery, Delivery!Spec

=============================================================================
