--------------------------- MODULE LegacyRunProofs ---------------------------
(***************************************************************************)
(* More proofs about LegacyConsumer: what its runs leave on the disk and   *)
(* what they and the invalid records leave in the database, for any        *)
(* workers, partitions, logs, tasks, retries and faults.                   *)
(***************************************************************************)
EXTENDS LegacyConsumerProofs

-----------------------------------------------------------------------------
(* Frames                                                                  *)

LEMMA LegacyInvAlways == Spec => []LegacyInv
BY LegacyInvInit, LegacyInvStep, PTL DEF Spec

LEMMA HeldStays ==
  ASSUME NEW w, job'[w].part = job[w].part, job'[w].off = job[w].off
  PROVE  Held(w)' = Held(w) /\ Task(w)' = Task(w)
BY DEF Held, Task, Record

\* The steps that are no worker's own.
LEMMA NobodyMoves ==
  ASSUME CompleteRebalance \/ UNCHANGED vars
  PROVE  UNCHANGED <<loopVars, runVars, faults, histVars, committed>>
BY DEF CompleteRebalance, Rebalance, vars, groupVars

\* A worker that is in a run after a step was in it before, or has just begun it.
LEMMA RunsGoOn ==
  ASSUME TypeInv, NEW w \in Workers, Step(w), pc'[w] \in InRun
  PROVE  \/ Works(w) /\ pc[w] \in InRun /\ UNCHANGED job
         \/ /\ Repeats(w) /\ Remove(w) /\ pc[w] \in InRun /\ Join(w, Task(w)) /\ pc'[w] = "begin"
            /\ job'[w].part = job[w].part /\ job'[w].off = job[w].off
         \/ /\ pc[w] = "next" /\ pc'[w] = "begin"
            /\ \E p \in Partitions : NextRecord(w, p)
            /\ Join(w, Task(w)')
         \/ EvictSlow(w) /\ pc[w] \in InRun /\ UNCHANGED <<loopVars, run>>
<1> USE DEF TypeInv, LoopTypeOK
<1>l. /\ "commit" \notin InRun /\ "next" \notin InRun /\ "dead" \notin InRun
      /\ "invalid" \notin InRun /\ "remove" \in InRun
  BY DEF InRun, InTry
<1>1. CASE Works(w)
  BY <1>1, WorksGoesOn DEF GoesOn
<1>2. ASSUME Completes(w) \/ Drops(w) \/ Restart(w) PROVE FALSE
  BY <1>l, <1>2 DEF Completes, Drops, Restart, Goto, Die, Drop
<1>3. CASE Remove(w) /\ Repeats(w)
  <2>1. job[w] \in Jobs /\ job' = [job EXCEPT ![w].attempt = @ + 1]
    BY <1>l, <1>3, HeldFacts DEF Repeats, Retry
  <2>2. job'[w].part = job[w].part /\ job'[w].off = job[w].off
    BY <2>1 DEF Jobs
  <2> QED BY <1>l, <1>3, <2>2 DEF Repeats, Retry
<1>4. ASSUME NEW p \in Partitions, NextRecord(w, p)
      PROVE  pc[w] = "next" /\ pc'[w] = "begin" /\ Join(w, Task(w)')
  <2>1. pc[w] = "next"
    BY <1>4 DEF NextRecord
  <2>2. /\ job' = [job EXCEPT ![w] = [part |-> p, off |-> position[p], attempt |-> 1]]
        /\ pc' = [pc EXCEPT ![w] = "begin"] /\ Join(w, TaskOf(Record(p, position[p])))
    BY <1>l, <1>4 DEF NextRecord, Die, Drop
  <2>3. Task(w)' = TaskOf(Record(p, position[p]))
    BY <2>2 DEF Task, Held, Record
  <2> QED BY <2>1, <2>2, <2>3
<1>6. CASE EvictSlow(w)
  BY <1>6, StepShapes DEF loopVars
<1>7. ASSUME SessionTimeout(w) PROVE FALSE
  BY <1>l, <1>7 DEF SessionTimeout, loopVars
<1> QED
  BY <1>1, <1>2, <1>3, <1>4, <1>6, <1>7, StepShapes DEF Step, ProcessTask, Works

-----------------------------------------------------------------------------
(* Snapshots on the mount                                                  *)

LEMMA ImagesGrow ==
  ASSUME TypeInv, NEW w \in Workers, Step(w), NEW t \in Tasks
  PROVE  images[t] \subseteq images'[t]
<1>1. \/ UNCHANGED images
      \/ \E saved \in SUBSET Images : SaveImages(Task(w), saved)
  BY DEF Step, ProcessTask, NextRecord, Begin, Clear, OpenVideo, LoadVideo, ReadVideo, Save,
         Write, Succeed, Fail, MarkFailed, Remove, MarkInvalid, Commit, Crash, Restart,
         SessionTimeout, EvictSlow, PartDone, MakeDir, OpenFile, CloseFile, CleanUp,
         RemoveDir, EmptyDir, KeepDir, runVars, fileVars
<1> QED BY <1>1 DEF SaveImages, TypeInv, FilesTypeOK

\* Rows are only added by a run that has chosen the snapshots they point to.
LEMMA RowsShowChosen ==
  ASSUME TypeInv, NEW w \in Workers, Step(w), NEW t \in Tasks
  PROVE  \/ shown'[t] \subseteq shown[t]
         \/ pc[w] \in InRun /\ t = Task(w) /\ shown'[t] \subseteq shown[t] \cup run[w].chosen
<1>1. \/ UNCHANGED shown
      \/ shown' = [shown EXCEPT ![Task(w)] = {}]
      \/ /\ pc[w] \in InRun
         /\ \E chosen \in SUBSET run[w].chosen :
              shown' = [shown EXCEPT ![Task(w)] = @ \cup chosen]
  <2>1. Write(w) => pc[w] \in InRun /\ shown' = [shown EXCEPT ![Task(w)] = @ \cup run[w].chosen]
    BY DEF Write, InRun, InTry
  <2>2. pc[w] \in InTry /\ PartDone(w) =>
          \/ UNCHANGED shown
          \/ /\ pc[w] \in InRun
             /\ \E chosen \in SUBSET run[w].chosen :
                  shown' = [shown EXCEPT ![Task(w)] = @ \cup chosen]
    BY DEF PartDone, InRun
  <2>3. Fail(w) \/ Crash(w) => (pc[w] \in InTry /\ PartDone(w)) \/ UNCHANGED shown
    BY DEF Fail, Crash
  <2> QED
    BY <2>1, <2>2, <2>3
    DEF Step, ProcessTask, NextRecord, Begin, Clear, OpenVideo, LoadVideo, ReadVideo, Save,
        Succeed, MarkFailed, Remove, MarkInvalid, Commit, Restart, SessionTimeout, EvictSlow,
        runVars
<1> QED BY <1>1 DEF TypeInv, TablesTypeOK

LEMMA ChosenAreSaved ==
  ASSUME TypeInv, NEW w \in Workers, Works(w)
  PROVE  \/ run'[w].chosen = run[w].chosen
         \/ run'[w].chosen \subseteq images'[Task(w)]
<1> USE DEF TypeInv, LoopTypeOK, RunRecords
<1>1. CASE Save(w)
  <2>1. pc[w] \in InRun
    BY <1>1 DEF Save, InRun, InTry
  <2>2. Task(w) \in Tasks
    BY <2>1, HeldFacts DEF InRun, InTry
  <2>3. PICK chosen \in SUBSET Images :
          SaveImages(Task(w), chosen) /\ run' = [run EXCEPT ![w].chosen = chosen]
    BY <1>1 DEF Save
  <2> QED BY <2>2, <2>3 DEF SaveImages, FilesTypeOK
<1>2. CASE ~Save(w)
  <2>1. \/ UNCHANGED run
        \/ \E v \in Videos : run' = [run EXCEPT ![w].video = v]
        \/ \E v \in Videos, e \in BOOLEAN : run' = [run EXCEPT ![w].video = v, ![w].exact = e]
        \/ run' = [run EXCEPT ![w].ok = TRUE]
    BY <1>2
    DEF Works, Begin, Clear, OpenVideo, LoadVideo, ReadVideo, Write, Succeed, Fail, MarkFailed,
        NextVideo, Videos
  <2> QED BY <2>1
<1> QED BY <1>1, <1>2

\* The inductive invariant of RowsHaveImages: a run has saved what it has
\* chosen before it shows it.
ImagesInv ==
  /\ RowsHaveImages
  /\ \A w \in Workers : pc[w] \in InRun => run[w].chosen \subseteq images[Task(w)]

LEMMA ImagesInvStep == TypeInv /\ ImagesInv /\ [Next]_vars => ImagesInv'
<1> SUFFICES ASSUME TypeInv, ImagesInv, [Next]_vars PROVE ImagesInv'
  OBVIOUS
<1> USE DEF ImagesInv
<1>1. ASSUME NEW w \in Workers, Step(w) PROVE ImagesInv'
  <2>1. RowsHaveImages'
    BY <1>1, ImagesGrow, RowsShowChosen DEF RowsHaveImages
  <2>2. ASSUME NEW v \in Workers, pc'[v] \in InRun PROVE run'[v].chosen \subseteq images'[Task(v)']
    <3> DEFINE Same == pc[v] \in InRun /\ Task(v)' = Task(v)
    <3>1. CASE Same /\ run'[v].chosen = run[v].chosen
      <4>1. Task(v) \in Tasks
        BY <3>1, HeldFacts DEF InRun, InTry
      <4> QED BY <1>1, <3>1, <4>1, ImagesGrow
    <3>2. CASE v # w
      <4>1. run'[v].chosen = run[v].chosen
        <5>1. run'[v] = run[v] \/ run'[v] = [run[v] EXCEPT !.alone = FALSE]
          BY <1>1, <3>2, OthersStay
        <5>2. run[v] \in RunRecords
          BY DEF TypeInv, LoopTypeOK
        <5> QED BY <5>1, <5>2 DEF RunRecords
      <4>2. pc'[v] = pc[v] /\ job'[v] = job[v]
        BY <1>1, <3>2, OthersStay
      <4> QED BY <2>2, <3>1, <4>1, <4>2, HeldStays
    <3>3. CASE v = w
      <4>1. CASE Works(w) /\ pc[w] \in InRun /\ UNCHANGED job
        BY <3>1, <3>3, <4>1, HeldStays, ChosenAreSaved
      <4>2. ASSUME NEW t, Join(w, t) PROVE run'[w].chosen = {}
        BY <4>2, JoinTypes DEF TypeInv
      <4>3. CASE EvictSlow(w) /\ pc[w] \in InRun /\ UNCHANGED <<loopVars, run>>
        BY <3>1, <3>3, <4>3, HeldStays DEF loopVars
      <4> QED BY <1>1, <2>2, <3>3, <4>1, <4>2, <4>3, RunsGoOn
    <3> QED BY <3>2, <3>3
  <2> QED BY <2>1, <2>2
<1>2. CASE CompleteRebalance \/ UNCHANGED vars
  BY <1>2, NobodyMoves DEF RowsHaveImages, Task, Held, Record, loopVars, runVars, fileVars
<1> QED BY <1>1, <1>2 DEF Next, Step

\* Every snapshot a row points to is on the mount, however many runs of the
\* task fail, are repeated or are under way at once.
THEOREM RowsAlwaysHaveImages == Spec => []RowsHaveImages
<1>1. Init => ImagesInv
  BY DEF Init, FilesInit, ImagesInv, RowsHaveImages, InRun, InTry
<1>2. TypeInv /\ ImagesInv /\ [Next]_vars => TypeInv' /\ ImagesInv'
  BY TypeInvStep, ImagesInvStep
<1> QED BY <1>1, <1>2, TypeInvInit, PTL DEF Spec, ImagesInv

-----------------------------------------------------------------------------
(* Directories                                                             *)

HasFiles(t) == t \in dirs \/ videos[t] # NoFiles

\* Files appear only in the directory of a run that goes on, and Remove takes
\* all of its task away or makes an orphan of it.
LEMMA FilesAppear ==
  ASSUME TypeInv, NEW w \in Workers, Step(w), NEW t \in Tasks, HasFiles(t)'
  PROVE  /\ HasFiles(t) \/ (Works(w) /\ pc[w] \in InRun /\ t = Task(w))
         /\ Remove(w) /\ t = Task(w) => t \in orphans'
<1> USE DEF TypeInv, FilesTypeOK
<1>t. pc[w] \in InRun => Task(w) \in Tasks /\ run[w].video \in Videos
  <2>1. run[w] \in RunRecords
    BY DEF LoopTypeOK
  <2> QED BY <2>1, HeldFacts DEF RunRecords, InRun, InTry
<1>1. CASE Clear(w)
  BY <1>1 DEF Clear, Remove, MakeDir, HasFiles, Works, InRun, InTry
<1>2. CASE OpenVideo(w)
  <2>1. pc[w] \in InRun
    BY <1>2 DEF OpenVideo, InRun, InTry
  <2>2. UNCHANGED fileVars \/ OpenFile(Task(w), run[w].video, w)
    BY <1>2 DEF OpenVideo
  <2>3. HasFiles(t) \/ t = Task(w)
    BY <2>2 DEF OpenFile, HasFiles, fileVars
  <2> QED BY <1>2, <2>1, <2>3 DEF Works, OpenVideo, Remove
<1>3. CASE LoadVideo(w)
  <2>1. pc[w] \in InRun /\ pc[w] # "remove" /\ CloseFile(Task(w), run[w].video, w)
    BY <1>3 DEF LoadVideo, InRun, InTry
  <2>2. videos[Task(w)] # NoFiles
    BY <1>t, <2>1 DEF CloseFile, NoFiles
  <2>3. t # Task(w) => videos'[t] = videos[t]
    BY <1>t, <2>1 DEF CloseFile
  <2>4. HasFiles(t)
    BY <2>1, <2>2, <2>3 DEF CloseFile, HasFiles
  <2> QED BY <2>1, <2>4 DEF Remove
<1>r. ASSUME RemoveDir(Task(w)), Task(w) \in Tasks PROVE HasFiles(t)
  <2>1. CASE EmptyDir(Task(w))
    BY <1>r, <2>1 DEF EmptyDir, HasFiles
  <2>2. CASE KeepDir(Task(w))
    BY <1>r, <2>2 DEF KeepDir, HasFiles
  <2> QED BY <1>r, <2>1, <2>2 DEF RemoveDir
<1>4. CASE Remove(w)
  <2>1. CleanUp(w) /\ Task(w) \in Tasks
    BY <1>4, <1>t DEF Remove, InRun
  <2>2. HasFiles(t)
    BY <1>r, <2>1 DEF CleanUp, RemoveDir
  <2>3. EmptyDir(Task(w)) => t # Task(w)
    BY <2>1 DEF EmptyDir, HasFiles
  <2> QED BY <2>1, <2>2, <2>3 DEF CleanUp
<1>5. CASE Crash(w)
  <2>1. pc[w] \in InTry /\ PartDone(w) => UNCHANGED <<dirs, videos>>
    BY DEF PartDone, SaveImages, fileVars
  <2>2. \/ UNCHANGED <<dirs, videos>>
        \/ RemoveDir(Task(w)) /\ Task(w) \in Tasks
    BY <1>5, <1>t, <2>1 DEF Crash, InRun, fileVars
  <2>3. ~Remove(w)
    BY <1>5 DEF Crash, Remove, Fault
  <2> QED BY <1>r, <2>2, <2>3 DEF HasFiles
<1>6. CASE ~Clear(w) /\ ~OpenVideo(w) /\ ~LoadVideo(w) /\ ~Remove(w) /\ ~Crash(w)
  <2>1. UNCHANGED <<dirs, videos>>
    BY <1>6
    DEF Step, ProcessTask, NextRecord, Begin, ReadVideo, Save, Write, Succeed, Fail, MarkFailed,
        MarkInvalid, Commit, Restart, SessionTimeout, EvictSlow, PartDone, SaveImages,
        runVars, fileVars
  <2> QED BY <1>6, <2>1 DEF HasFiles
<1> QED BY <1>1, <1>2, <1>3, <1>4, <1>5, <1>6

\* An orphan stays one until a run of its task tries to remove its directory,
\* and a run that ends tries to or leaves an orphan.
LEMMA RunsCleanUp ==
  ASSUME TypeInv, NEW w \in Workers, Step(w), NEW t \in Tasks
  PROVE  /\ t \in orphans => t \in orphans' \/ (Remove(w) /\ t = Task(w))
         /\ pc[w] \in InRun /\ t = Task(w) =>
              \/ pc'[w] \in InRun /\ Task(w)' = t
              \/ t \in orphans'
              \/ Remove(w)
<1>1. t \in orphans => t \in orphans' \/ (Remove(w) /\ t = Task(w))
  <2>1. Remove(w) /\ t # Task(w) /\ t \in orphans => t \in orphans'
    BY DEF Remove, CleanUp
  <2>2. CASE ~Remove(w)
    BY <2>2
    DEF Step, ProcessTask, NextRecord, Begin, Clear, OpenVideo, LoadVideo, ReadVideo, Save,
        Write, Succeed, Fail, MarkFailed, MarkInvalid, Commit, Crash, Restart,
        SessionTimeout, EvictSlow, histVars
  <2> QED BY <2>1, <2>2
<1>2. ASSUME pc[w] \in InRun, t = Task(w)
      PROVE  (pc'[w] \in InRun /\ Task(w)' = t) \/ t \in orphans' \/ Remove(w)
  <2>1. CASE Works(w)
    <3>1. pc'[w] \in InRun /\ UNCHANGED job
      BY <2>1, WorksGoesOn DEF GoesOn, Goto, TypeInv, LoopTypeOK
    <3> QED BY <1>2, <3>1, HeldStays
  <2>2. CASE Crash(w)
    BY <1>2, <2>2 DEF Crash
  <2>3. CASE EvictSlow(w)
    BY <1>2, <2>3, HeldStays DEF EvictSlow, loopVars
  <2>4. ~MarkInvalid(w) /\ ~Commit(w) /\ ~Restart(w) /\ ~SessionTimeout(w)
        /\ \A p \in Partitions : ~NextRecord(w, p)
    BY <1>2 DEF MarkInvalid, Commit, Restart, SessionTimeout, NextRecord, InRun, InTry
  <2> QED BY <2>1, <2>2, <2>3, <2>4 DEF Step, ProcessTask, Works
<1> QED BY <1>1, <1>2

LEMMA NothingLeftStep == TypeInv /\ NothingLeftBehind /\ [Next]_vars => NothingLeftBehind'
<1> SUFFICES ASSUME TypeInv, NothingLeftBehind, [Next]_vars PROVE NothingLeftBehind'
  OBVIOUS
<1>1. ASSUME NEW w \in Workers, Step(w) PROVE NothingLeftBehind'
  <2> SUFFICES ASSUME NEW t \in Tasks, HasFiles(t)'
               PROVE  t \in orphans' \/ \E x \in Workers : pc'[x] \in InRun /\ Task(x)' = t
    BY DEF NothingLeftBehind, HasFiles
  <2>1. Remove(w) /\ t = Task(w) => t \in orphans'
    BY <1>1, FilesAppear
  <2>2. CASE pc[w] \in InRun /\ t = Task(w)
    BY <1>1, <2>1, <2>2, RunsCleanUp
  <2>3. CASE t \in orphans
    BY <1>1, <2>1, <2>3, RunsCleanUp
  <2>4. ASSUME NEW x \in Workers \ {w}, pc[x] \in InRun, Task(x) = t
        PROVE  pc'[x] \in InRun /\ Task(x)' = t
    BY <1>1, <2>4, OthersStay, HeldStays
  <2> QED BY <1>1, <2>2, <2>3, <2>4, FilesAppear DEF NothingLeftBehind, HasFiles
<1>2. CASE CompleteRebalance \/ UNCHANGED vars
  BY <1>2, NobodyMoves
  DEF NothingLeftBehind, Task, Held, Record, loopVars, runVars, fileVars, histVars
<1> QED BY <1>1, <1>2 DEF Next, Step

\* Every way out of a run goes through the removal of its directory, and a
\* directory that no run is using is one that a process died on or that could
\* not be removed, and that no run of its task has removed since.
THEOREM DirectoriesAreAccountedFor == Spec => []NothingLeftBehind
<1>1. Init => NothingLeftBehind
  BY DEF Init, FilesInit, NothingLeftBehind
<1>2. TypeInv /\ NothingLeftBehind /\ [Next]_vars => TypeInv' /\ NothingLeftBehind'
  BY TypeInvStep, NothingLeftStep
<1> QED BY <1>1, <1>2, TypeInvInit, PTL DEF Spec

-----------------------------------------------------------------------------
(* Runs of one task side by side, and their videos                         *)

\* A run that another of its task has been under way with is not alone.
SoloInv ==
  \A w, x \in Workers :
    w # x /\ pc[w] \in InRun /\ pc[x] \in InRun /\ Task(w) = Task(x) => ~run[w].alone

LEMMA WorksStaysAlone ==
  ASSUME TypeInv, NEW w \in Workers, Works(w)
  PROVE  run'[w].alone = run[w].alone
<1>1. \/ UNCHANGED run
      \/ \E v \in Videos : run' = [run EXCEPT ![w].video = v]
      \/ \E v \in Videos, e \in BOOLEAN : run' = [run EXCEPT ![w].video = v, ![w].exact = e]
      \/ \E chosen \in SUBSET Images : run' = [run EXCEPT ![w].chosen = chosen]
      \/ run' = [run EXCEPT ![w].ok = TRUE]
  BY DEF Works, Begin, Clear, OpenVideo, LoadVideo, ReadVideo, Save, Write, Succeed, Fail,
         MarkFailed, NextVideo, Videos
<1> QED BY <1>1 DEF TypeInv, LoopTypeOK, RunRecords

\* The other workers: in the same run as before, alone only if they were.
LEMMA OthersRunOn ==
  ASSUME TypeInv, NEW w \in Workers, Step(w), NEW v \in Workers \ {w}
  PROVE  /\ pc'[v] = pc[v] /\ Held(v)' = Held(v) /\ Task(v)' = Task(v)
         /\ run'[v].alone => run[v].alone /\ run'[v] = run[v]
<1>1. /\ pc'[v] = pc[v] /\ job'[v] = job[v]
      /\ run'[v] = run[v] \/ run'[v] = [run[v] EXCEPT !.alone = FALSE]
  BY OthersStay
<1>2. run[v] \in RunRecords
  BY DEF TypeInv, LoopTypeOK
<1> QED BY <1>1, <1>2, HeldStays DEF RunRecords

\* A worker in a run after a step: it was in it, alone or not as it is, or it
\* has just begun it, and knows whether others of the task are under way.
LEMMA RunsKnowOthers ==
  ASSUME TypeInv, NEW w \in Workers, Step(w), pc'[w] \in InRun
  PROVE  \/ /\ pc[w] \in InRun /\ Held(w)' = Held(w) /\ Task(w)' = Task(w)
            /\ run'[w].alone = run[w].alone
            /\ Works(w) \/ (EvictSlow(w) /\ UNCHANGED <<loopVars, run>>)
         \/ /\ pc'[w] = "begin" /\ run'[w].video = "student" /\ run'[w].exact
            /\ run'[w].alone <=> RunsOf(Task(w)') \subseteq {w}
            /\ \A v \in RunsOf(Task(w)') \ {w} : ~run'[v].alone
<1>1. CASE Works(w) /\ pc[w] \in InRun /\ UNCHANGED job
  BY <1>1, HeldStays, WorksStaysAlone
<1>2. CASE EvictSlow(w) /\ pc[w] \in InRun /\ UNCHANGED <<loopVars, run>>
  BY <1>2, HeldStays DEF loopVars
<1>3. ASSUME Join(w, Task(w)'), pc'[w] = "begin"
      PROVE  /\ pc'[w] = "begin" /\ run'[w].video = "student" /\ run'[w].exact
             /\ run'[w].alone <=> RunsOf(Task(w)') \subseteq {w}
             /\ \A v \in RunsOf(Task(w)') \ {w} : ~run'[v].alone
  <2> DEFINE t == Task(w)'
  <2>1. Join(w, t)
    BY <1>3
  <2> HIDE DEF t
  <2>2. run'[w].video = "student" /\ run'[w].exact
    BY <2>1 DEF Join, NoRun
  <2>3. run'[w].alone <=> RunsOf(t) \subseteq {w}
    BY <2>1, JoinTypes DEF TypeInv
  <2>4. ASSUME NEW v \in RunsOf(t) \ {w} PROVE ~run'[v].alone
    <3>1. v \in Workers /\ run[v] \in RunRecords
      BY DEF TypeInv, LoopTypeOK, RunsOf
    <3>2. run'[v] = [run[v] EXCEPT !.alone = FALSE]
      BY <2>1, <3>1, JoinTypes DEF TypeInv
    <3> QED BY <3>1, <3>2 DEF RunRecords
  <2> QED BY <1>3, <2>2, <2>3, <2>4 DEF t
<1>4. CASE /\ Join(w, Task(w)) /\ pc'[w] = "begin"
           /\ job'[w].part = job[w].part /\ job'[w].off = job[w].off
  BY <1>3, <1>4, HeldStays
<1> QED BY <1>1, <1>2, <1>3, <1>4, RunsGoOn

LEMMA SoloInvStep == TypeInv /\ SoloInv /\ [Next]_vars => SoloInv'
<1> SUFFICES ASSUME TypeInv, SoloInv, [Next]_vars PROVE SoloInv'
  OBVIOUS
<1>1. ASSUME NEW y \in Workers, Step(y) PROVE SoloInv'
  <2> SUFFICES ASSUME NEW v \in Workers, NEW x \in Workers, v # x,
                      pc'[v] \in InRun, pc'[x] \in InRun, Task(v)' = Task(x)'
               PROVE  ~run'[v].alone
    BY DEF SoloInv
  <2>1. CASE v # y /\ x # y
    BY <1>1, <2>1, OthersRunOn DEF SoloInv
  <2>2. CASE v = y
    <3>1. pc[x] \in InRun /\ Task(x)' = Task(x)
      BY <1>1, <2>2, OthersRunOn
    <3>2. x \in RunsOf(Task(y)') \ {y}
      BY <2>2, <3>1 DEF RunsOf
    <3> QED BY <1>1, <2>2, <3>1, <3>2, RunsKnowOthers DEF SoloInv
  <2>3. CASE x = y
    <3>1. pc[v] \in InRun /\ Task(v)' = Task(v)
      BY <1>1, <2>3, OthersRunOn
    <3>2. v \in RunsOf(Task(y)') \ {y}
      BY <2>3, <3>1 DEF RunsOf
    <3>3. run'[v].alone => run[v].alone
      BY <1>1, <2>3, OthersRunOn
    <3>4. CASE pc[y] \in InRun /\ Task(y)' = Task(y)
      BY <2>3, <3>1, <3>3, <3>4 DEF SoloInv
    <3>5. CASE \A u \in RunsOf(Task(y)') \ {y} : ~run'[u].alone
      BY <3>2, <3>5
    <3> QED BY <1>1, <2>3, <3>4, <3>5, RunsKnowOthers
  <2> QED BY <2>1, <2>2, <2>3
<1>2. CASE CompleteRebalance \/ UNCHANGED vars
  BY <1>2, NobodyMoves DEF SoloInv, Task, Held, Record, loopVars, runVars
<1> QED BY <1>1, <1>2 DEF Next, Step

\* Only a run of the task writes or removes its videos.
LEMMA VideosStay ==
  ASSUME TypeInv, NEW w \in Workers, Step(w), NEW t \in Tasks, ~(pc[w] \in InRun /\ Task(w) = t)
  PROVE  videos'[t] = videos[t]
<1>1. \/ UNCHANGED videos
      \/ /\ pc[w] \in InRun
         /\ \/ \E f : videos' = [videos EXCEPT ![Task(w)] = f]
            \/ \E v, f : videos' = [videos EXCEPT ![Task(w)][v] = f]
  <2>1. OpenVideo(w) \/ LoadVideo(w) \/ Remove(w) => pc[w] \in InRun
    BY DEF OpenVideo, LoadVideo, Remove, InRun, InTry
  <2>2. CASE OpenVideo(w)
    BY <2>1, <2>2 DEF OpenVideo, OpenFile, fileVars
  <2>3. CASE LoadVideo(w)
    BY <2>1, <2>3 DEF LoadVideo, CloseFile
  <2>r. RemoveDir(Task(w)) => \E f : videos' = [videos EXCEPT ![Task(w)] = f]
    BY DEF RemoveDir, EmptyDir, KeepDir
  <2>4. CASE Remove(w)
    BY <2>1, <2>r, <2>4 DEF Remove, CleanUp, RemoveDir
  <2>5. CASE Crash(w)
    BY <2>r, <2>5 DEF Crash, PartDone, SaveImages, InRun, fileVars
  <2>6. CASE ~OpenVideo(w) /\ ~LoadVideo(w) /\ ~Remove(w) /\ ~Crash(w)
    BY <2>6
    DEF Step, ProcessTask, NextRecord, Begin, Clear, ReadVideo, Save, Write, Succeed, Fail,
        MarkFailed, MarkInvalid, Commit, Restart, SessionTimeout, EvictSlow, PartDone,
        MakeDir, SaveImages, runVars, fileVars
  <2> QED BY <2>2, <2>3, <2>4, <2>5, <2>6
<1> QED BY <1>1 DEF TypeInv, FilesTypeOK

\* The videos w is through with, for now or until it reads them.
Behind(w) ==
  {v \in Videos : \/ pc[w] \in {"read", "save", "write", "success"}
                  \/ pc[w] \in {"open", "load"} /\ v = "student" /\ run[w].video = "teacher"}

VideosOK(w) ==
  /\ pc[w] \in {"begin", "clear"} => run[w].video = "student"
  /\ run[w].exact
  /\ \A v \in Behind(w) :
       \/ VideoOf(Held(w), v) = "path"
       \/ VideoOf(Held(w), v) = "url" /\ videos[Task(w)][v] = "whole"
  /\ pc[w] = "load" => Source(w) = "url" /\ videos[Task(w)][run[w].video] = w

\* The inductive invariant of WholeVideos: a run that is alone has whole videos
\* behind it, and is the writer of the one it is loading.
VideosInv == SoloInv /\ \A w \in Workers : pc[w] \in InRun /\ run[w].alone => VideosOK(w)

LEMMA WorksKeepsVideos ==
  ASSUME TypeInv, NEW w \in Workers, Works(w), pc[w] \in InRun, VideosOK(w)
  PROVE  VideosOK(w)'
<1> USE DEF TypeInv
<1> DEFINE T == Task(w)
           src(v) == VideoOf(Held(w), v)
<1>1. Held(w)' = Held(w) /\ Task(w)' = T
  BY WorksGoesOn, HeldStays
<1>2. T \in Tasks /\ run[w] \in RunRecords
  BY HeldFacts DEF LoopTypeOK, InRun, InTry
<1>3. run[w].video \in Videos /\ run[w].exact
  BY <1>2 DEF RunRecords, VideosOK
<1>t. /\ pc \in [Workers -> LoopPcs] /\ run \in [Workers -> RunRecords]
      /\ videos \in [Tasks -> [Videos -> Workers \cup {NONE, "whole"}]]
  BY DEF LoopTypeOK, FilesTypeOK
<1> HIDE DEF T, src
<1>4. VideosOK(w)' <=>
        /\ pc'[w] \in {"begin", "clear"} => run'[w].video = "student"
        /\ run'[w].exact
        /\ \A v \in Videos :
             \/ pc'[w] \in {"read", "save", "write", "success"}
             \/ pc'[w] \in {"open", "load"} /\ v = "student" /\ run'[w].video = "teacher"
             => src(v) = "path" \/ (src(v) = "url" /\ videos'[T][v] = "whole")
        /\ pc'[w] = "load" => src(run'[w].video) = "url" /\ videos'[T][run'[w].video] = w
  BY <1>1 DEF VideosOK, Behind, Source, src
<1>5. /\ pc[w] \in {"begin", "clear"} => run[w].video = "student"
      /\ \A v \in Videos :
           \/ pc[w] \in {"read", "save", "write", "success"}
           \/ pc[w] \in {"open", "load"} /\ v = "student" /\ run[w].video = "teacher"
           => src(v) = "path" \/ (src(v) = "url" /\ videos[T][v] = "whole")
      /\ pc[w] = "load" => src(run[w].video) = "url" /\ videos[T][run[w].video] = w
  BY DEF VideosOK, Behind, Source, src, T
<1>n. ASSUME NEW l, NEW a, NextVideo(w, l, a)
      PROVE  /\ run'[w].exact
             /\ \/ run[w].video = "student" /\ run'[w].video = "teacher" /\ pc'[w] = l
                \/ run[w].video = "teacher" /\ run'[w].video = "student" /\ pc'[w] = a
  BY <1>n, <1>t, <1>3 DEF NextVideo, Goto, RunRecords
<1>6. CASE Begin(w) \/ Clear(w) \/ Write(w) \/ Fail(w) \/ MarkFailed(w)
  <2>1. UNCHANGED run
    BY <1>6 DEF Begin, Clear, Write, Fail, MarkFailed
  <2>2. Write(w) => UNCHANGED videos
    BY DEF Write, fileVars
  <2>3. \/ Begin(w) /\ pc[w] = "begin" /\ pc'[w] = "clear"
        \/ Clear(w) /\ pc[w] = "clear" /\ pc'[w] = "open"
        \/ Write(w) /\ pc[w] = "write" /\ pc'[w] = "success"
        \/ pc'[w] \in {"failed", "remove"}
    BY <1>6, <1>t DEF Begin, Clear, Write, Fail, MarkFailed, Goto
  <2> QED BY <1>3, <1>4, <1>5, <2>1, <2>2, <2>3
<1>7. CASE OpenVideo(w)
  <2>1. CASE Source(w) = "url" /\ OpenFile(T, run[w].video, w) /\ Goto(w, "load") /\ UNCHANGED run
    <3>1. pc[w] = "open" /\ pc'[w] = "load" /\ src(run[w].video) = "url"
      BY <1>7, <1>t, <2>1 DEF OpenVideo, Goto, Source, src
    <3>2. /\ videos'[T][run[w].video] = w
          /\ \A v \in Videos : v # run[w].video => videos'[T][v] = videos[T][v]
      BY <1>2, <1>3, <1>t, <2>1 DEF OpenFile
    <3> QED BY <1>3, <1>4, <1>5, <2>1, <3>1, <3>2
  <2>2. CASE Source(w) = "path" /\ NextVideo(w, "open", "read") /\ UNCHANGED fileVars
    <3>1. pc[w] = "open" /\ src(run[w].video) = "path" /\ UNCHANGED videos
      BY <1>7, <2>2 DEF OpenVideo, Source, src, fileVars
    <3>2. /\ run'[w].exact
          /\ \/ run[w].video = "student" /\ run'[w].video = "teacher" /\ pc'[w] = "open"
             \/ run[w].video = "teacher" /\ run'[w].video = "student" /\ pc'[w] = "read"
      BY <1>n, <2>2
    <3> QED BY <1>4, <1>5, <3>1, <3>2 DEF Videos
  <2> QED BY <1>7, <2>1, <2>2 DEF OpenVideo, T
<1>8. CASE LoadVideo(w)
  <2>1. pc[w] = "load" /\ CloseFile(T, run[w].video, w) /\ NextVideo(w, "open", "read")
    BY <1>8 DEF LoadVideo, T
  <2>2. videos[T][run[w].video] = w /\ src(run[w].video) = "url"
    BY <1>5, <2>1
  <2>3. /\ videos'[T][run[w].video] = "whole"
        /\ \A v \in Videos : v # run[w].video => videos'[T][v] = videos[T][v]
    BY <1>2, <1>3, <1>t, <2>1, <2>2 DEF CloseFile
  <2>4. /\ run'[w].exact
        /\ \/ run[w].video = "student" /\ run'[w].video = "teacher" /\ pc'[w] = "open"
           \/ run[w].video = "teacher" /\ run'[w].video = "student" /\ pc'[w] = "read"
    BY <1>n, <2>1
  <2> QED BY <1>4, <1>5, <2>1, <2>2, <2>3, <2>4 DEF Videos
<1>9. CASE ReadVideo(w)
  <2>1. pc[w] = "read" /\ UNCHANGED videos
    BY <1>9 DEF ReadVideo, fileVars
  <2> DEFINE e == src(run[w].video) = "path" \/ videos[T][run[w].video] = "whole"
  <2>2. e
    BY <1>3, <1>5, <2>1
  <2>3. /\ run'[w].exact <=> (run[w].exact /\ e)
        /\ pc'[w] \in {"read", "save"}
    BY <1>9, <1>t DEF ReadVideo, Goto, RunRecords, Source, src, T
  <2> QED BY <1>3, <1>4, <1>5, <2>1, <2>2, <2>3
<1>10. CASE Save(w) \/ Succeed(w)
  <2>1. UNCHANGED videos
    BY <1>10 DEF Save, Succeed, SaveImages, fileVars
  <2>2. run'[w].exact
    <3>1. (\E c \in SUBSET Images : run' = [run EXCEPT ![w].chosen = c]) \/ run' = [run EXCEPT ![w].ok = TRUE]
      BY <1>10 DEF Save, Succeed
    <3> QED BY <1>3, <1>t, <3>1 DEF RunRecords
  <2>3. \/ pc[w] = "save" /\ pc'[w] = "write"
        \/ pc'[w] = "remove"
    BY <1>10, <1>t DEF Save, Succeed, Goto
  <2> QED BY <1>4, <1>5, <2>1, <2>2, <2>3
<1> QED BY <1>6, <1>7, <1>8, <1>9, <1>10 DEF Works

LEMMA VideosInvStep == TypeInv /\ VideosInv /\ [Next]_vars => VideosInv'
<1> SUFFICES ASSUME TypeInv, VideosInv, [Next]_vars PROVE VideosInv'
  OBVIOUS
<1>1. SoloInv'
  BY SoloInvStep DEF VideosInv
<1>2. ASSUME NEW y \in Workers, Step(y),
             NEW w \in Workers, pc'[w] \in InRun, run'[w].alone
      PROVE  VideosOK(w)'
  <2>1. CASE w # y
    <3>1. /\ pc'[w] = pc[w] /\ Held(w)' = Held(w) /\ Task(w)' = Task(w)
          /\ run[w].alone /\ run'[w] = run[w]
      BY <1>2, <2>1, OthersRunOn
    <3>2. ~(pc[y] \in InRun /\ Task(y) = Task(w))
      BY <1>2, <2>1, <3>1 DEF VideosInv, SoloInv
    <3>3. Task(w) \in Tasks
      BY <1>2, <3>1, HeldFacts DEF InRun, InTry
    <3>4. videos'[Task(w)] = videos[Task(w)]
      BY <1>2, <3>2, <3>3, VideosStay
    <3>5. VideosOK(w)
      BY <1>2, <3>1 DEF VideosInv
    <3> QED BY <3>1, <3>4, <3>5 DEF VideosOK, Behind, Source
  <2>2. CASE w = y
    <3>1. CASE /\ pc[w] \in InRun /\ Held(w)' = Held(w) /\ Task(w)' = Task(w)
               /\ run[w].alone
               /\ Works(w) \/ (EvictSlow(w) /\ UNCHANGED <<loopVars, run>>)
      <4>1. VideosOK(w)
        BY <3>1 DEF VideosInv
      <4>2. CASE Works(w)
        BY <3>1, <4>1, <4>2, WorksKeepsVideos
      <4>3. CASE EvictSlow(w) /\ UNCHANGED <<loopVars, run>>
        BY <3>1, <4>1, <4>3 DEF EvictSlow, VideosOK, Behind, Source, loopVars, runVars, fileVars
      <4> QED BY <3>1, <4>2, <4>3
    <3>2. CASE pc'[w] = "begin" /\ run'[w].video = "student" /\ run'[w].exact
      BY <3>2 DEF VideosOK, Behind
    <3> QED BY <1>2, <2>2, <3>1, <3>2, RunsKnowOthers
  <2> QED BY <2>1, <2>2
<1>3. CASE CompleteRebalance \/ UNCHANGED vars
  BY <1>1, <1>3, NobodyMoves
  DEF VideosInv, VideosOK, Behind, Source, Task, Held, Record, loopVars, runVars, fileVars
<1> QED BY <1>1, <1>2, <1>3 DEF VideosInv, Next, Step

\* While no other run of its task is under way, a run reads only whole videos.
THEOREM VideosAreWhole == Spec => []WholeVideos
<1>1. Init => VideosInv
  BY DEF Init, VideosInv, SoloInv, InRun, InTry
<1>2. TypeInv /\ VideosInv /\ [Next]_vars => TypeInv' /\ VideosInv'
  BY TypeInvStep, VideosInvStep
<1>3. VideosInv => WholeVideos
  <2> SUFFICES ASSUME NEW w \in Workers, VideosOK(w)
               PROVE  run[w].exact /\ \A v \in Fetched(w) : videos[Task(w)][v] = "whole"
    BY DEF VideosInv, WholeVideos
  <2> QED BY DEF VideosOK, Behind, Fetched
<1> QED BY <1>1, <1>2, <1>3, TypeInvInit, PTL DEF Spec

-----------------------------------------------------------------------------
(* What an acknowledged record leaves in the database                      *)

\* Only the record in hand is acknowledged, once the worker is through with it.
LEMMA AcksOne ==
  ASSUME LegacyInv, NEW w \in Workers, Step(w)
  PROVE  \/ UNCHANGED committed
         \/ pc[w] = "commit" /\ committed' = [committed EXCEPT ![job[w].part] = job[w].off + 1]
<1> USE DEF LegacyInv, DeliveryInv
<1>1. CASE pc[w] = "commit" /\ CommitAll(w)
  BY <1>1, CommitAllIsOne
<1>2. CASE \E p \in Partitions : NextRecord(w, p)
  BY <1>2 DEF NextRecord, Take
<1>3. CASE Restart(w) \/ Leave(w) \/ UNCHANGED groupVars
  BY <1>3 DEF Restart, Leave, groupVars
<1> QED BY <1>1, <1>2, <1>3, StepKinds

\* An acknowledged record is one of the log.
LEMMA AckedInLog ==
  ASSUME GroupTypeOK, NEW p \in Partitions, NEW o \in 0 .. committed[p] - 1
  PROVE  /\ o \in Nat /\ committed[p] \in Nat /\ o < committed[p] /\ o < Len(Log[p])
         /\ Record(p, o) \in Payloads /\ Record(p, o) \in Records
<1>1. Len(Log[p]) \in Nat
  BY LogLen
<1>2. committed[p] \in Nat /\ committed[p] <= Len(Log[p])
  BY <1>1 DEF GroupTypeOK, Offsets
<1>3. o \in Nat /\ o < committed[p] /\ o < Len(Log[p])
  BY <1>1, <1>2
<1> QED BY <1>2, <1>3, LogLen

\* The row handle_invalid_message marks is the one from_payload would name,
\* when that is a string.
LEMMA InvalidNamesTask ==
  ASSUME NEW payload \in Payloads, payload.is = "object", FirstPresent(payload.ids).is = "text"
  PROVE  InvalidRow(payload) = FirstPresent(payload.ids) /\ InvalidRow(payload) # Null
<1>1. PICK a, b, c \in IdValues : payload.ids = <<a, b, c>>
  BY IdsAreThree
<1> DEFINE first(kinds) == IF a.is \notin kinds THEN a
                           ELSE IF b.is \notin kinds THEN b
                           ELSE IF c.is \notin kinds THEN c ELSE Null
<1>2. FirstPresent(payload.ids) = first({"null", "empty"}) /\ InvalidRow(payload) = first(Falsy)
  BY <1>1, FirstOfThree DEF FirstPresent, InvalidRow
<1>3. first({"null", "empty"}).is = "text" => first(Falsy) = first({"null", "empty"})
  BY DEF Falsy, Null
<1> QED BY <1>2, <1>3 DEF Null

Refused(payload) == ~IsTask(payload) /\ InvalidRow(payload) # Null

\* The inductive invariant of InvalidIsRecorded: an invalid record that names
\* a row has marked it before it can be acknowledged.
RecordedInv ==
  /\ \A w \in Workers : pc[w] = "commit" /\ Refused(Held(w)) =>
       <<job[w].part, job[w].off, InvalidRow(Held(w))>> \in marked
  /\ \A p \in Partitions : \A o \in 0 .. committed[p] - 1 :
       Refused(Record(p, o)) => <<p, o, InvalidRow(Record(p, o))>> \in marked

LEMMA RecordedInvStep == LegacyInv /\ RecordedInv /\ [Next]_vars => RecordedInv'
<1> SUFFICES ASSUME LegacyInv, RecordedInv, [Next]_vars PROVE RecordedInv'
  OBVIOUS
<1> USE DEF LegacyInv, TypeInv
<1>1. ASSUME NEW w \in Workers, Step(w) PROVE RecordedInv'
  <2>1. marked \subseteq marked'
    BY <1>1
    DEF Step, ProcessTask, NextRecord, Begin, Clear, OpenVideo, LoadVideo, ReadVideo, Save, Write,
        Succeed, Fail, MarkFailed, Remove, MarkInvalid, Mark, Commit, Crash, Restart,
        SessionTimeout, EvictSlow, histVars
  <2>2. ASSUME NEW v \in Workers, pc'[v] = "commit", Refused(Held(v)')
        PROVE  <<job'[v].part, job'[v].off, InvalidRow(Held(v)')>> \in marked'
    <3>1. CASE v # w
      <4>1. pc'[v] = pc[v] /\ job'[v] = job[v] /\ Held(v)' = Held(v)
        BY <1>1, <3>1, OthersStay, HeldStays
      <4> QED BY <2>1, <2>2, <4>1 DEF RecordedInv
    <3>2. CASE v = w /\ Leave(w) /\ UNCHANGED <<loopVars, settled>>
      <4>1. pc[v] = "commit" /\ job'[v] = job[v] /\ Held(v)' = Held(v)
        BY <2>2, <3>2, HeldStays DEF loopVars
      <4> QED BY <2>1, <2>2, <4>1 DEF RecordedInv
    <3>3. CASE v = w /\ MarkInvalid(w)
      <4>1. pc[w] = "invalid" /\ UNCHANGED job
        BY <2>2, <3>3 DEF MarkInvalid, Goto, Die, Drop, LoopTypeOK
      <4>2. Held(w)' = Held(w)
        BY <4>1, HeldStays
      <4>3. Mark(w, InvalidRow(Held(w)))
        BY <2>2, <3>3, <4>2 DEF MarkInvalid, Refused, Die, Drop, LoopTypeOK
      <4> QED BY <3>3, <4>1, <4>2, <4>3 DEF Mark
    <3>4. CASE v = w /\ Remove(w)
      <4>1. pc[w] \in InRun /\ UNCHANGED job
        BY <2>2, <3>4 DEF Remove, Goto, Retry, LoopTypeOK, InRun
      <4>2. IsTask(Held(w)) /\ Held(w)' = Held(w)
        BY <4>1, HeldFacts, HeldStays DEF InRun, InTry
      <4> QED BY <2>2, <3>4, <4>2 DEF Refused
    <3>5. "commit" \notin InRun
      BY DEF InRun, InTry
    <3>6. Works(w) => pc'[w] # "commit"
      BY <3>5, WorksGoesOn DEF GoesOn, Goto, LoopTypeOK
    <3>7. \/ \E p \in Partitions : NextRecord(w, p)
          \/ Commit(w) \/ Crash(w) \/ Restart(w)
          => pc'[w] # "commit"
      BY DEF NextRecord, Commit, Crash, Restart, Goto, Die, Drop, LoopTypeOK
    <3>8. SessionTimeout(w) \/ EvictSlow(w) => Leave(w) /\ UNCHANGED <<loopVars, settled>>
      BY DEF SessionTimeout, EvictSlow, histVars
    <3> QED
      BY <1>1, <2>2, <3>1, <3>2, <3>3, <3>4, <3>6, <3>7, <3>8 DEF Step, ProcessTask, Works
  <2>3. ASSUME NEW p \in Partitions, NEW o \in 0 .. committed'[p] - 1, Refused(Record(p, o))
        PROVE  <<p, o, InvalidRow(Record(p, o))>> \in marked'
    <3>1. CASE o \in 0 .. committed[p] - 1
      BY <2>1, <2>3, <3>1 DEF RecordedInv
    <3>2. CASE o \notin 0 .. committed[p] - 1
      <4>1. /\ pc[w] = "commit" /\ committed' = [committed EXCEPT ![job[w].part] = job[w].off + 1]
            /\ p = job[w].part
        BY <1>1, <2>3, <3>2, AcksOne DEF GroupTypeOK
      <4>2. /\ job[w].off \in Nat /\ job[w].off <= committed[p] /\ committed[p] \in Nat
            /\ committed'[p] = job[w].off + 1
        BY <4>1, HeldFacts DEF GroupTypeOK, DeliveryInv, PositionInv, JobInv
      <4>3. o = job[w].off
        BY <3>2, <4>2
      <4>4. Record(p, o) = Held(w)
        BY <4>1, <4>3 DEF Held
      <4> QED BY <2>1, <2>3, <4>1, <4>3, <4>4 DEF RecordedInv
    <3> QED BY <3>1, <3>2
  <2> QED BY <2>2, <2>3 DEF RecordedInv, Record
<1>2. CASE CompleteRebalance \/ UNCHANGED vars
  BY <1>2, NobodyMoves DEF RecordedInv, Held, Record, loopVars, histVars
<1> QED BY <1>1, <1>2 DEF Next, Step

\* An acknowledged invalid message has marked the task it names failed.
THEOREM InvalidsAreRecorded == Spec => []InvalidIsRecorded
<1>1. Init => RecordedInv
  BY DEF Init, GroupInit, RecordedInv
<1>2. LegacyInv /\ RecordedInv /\ [Next]_vars => LegacyInv' /\ RecordedInv'
  BY LegacyInvStep, RecordedInvStep
<1>3. LegacyInv /\ RecordedInv => InvalidIsRecorded
  <2> SUFFICES ASSUME LegacyInv, RecordedInv,
                      NEW p \in Partitions, NEW o \in 0 .. committed[p] - 1,
                      Record(p, o).is = "object", ~IsTask(Record(p, o)),
                      FirstPresent(Record(p, o).ids).is = "text"
               PROVE  <<p, o, FirstPresent(Record(p, o).ids)>> \in marked
    BY DEF InvalidIsRecorded, IsInvalid
  <2>1. Record(p, o) \in Payloads
    BY AckedInLog DEF LegacyInv, TypeInv
  <2>2. /\ InvalidRow(Record(p, o)) = FirstPresent(Record(p, o).ids)
        /\ Refused(Record(p, o))
    BY <2>1, InvalidNamesTask DEF Refused
  <2> QED BY <2>2 DEF RecordedInv
<1> QED BY <1>1, <1>2, <1>3, LegacyInvInit, PTL DEF Spec

\* A step writes at most the row its record is about.
LEMMA OneRowWritten ==
  ASSUME TypeInv, NEW w \in Workers, Step(w)
  PROVE  \/ UNCHANGED workflow
         \/ /\ pc[w] \notin {"next", "dead"}
            /\ \E s : workflow' = [workflow EXCEPT ![RowOf(Held(w))] = s]
<1>1. pc[w] \in InRun => pc[w] \notin {"next", "dead"} /\ RowOf(Held(w)) = Plain(Task(w))
  BY HeldFacts DEF InRun, InTry, RowOf, Task
<1>2. pc[w] = "invalid" => RowOf(Held(w)) = InvalidRow(Held(w))
  BY HeldFacts DEF TypeInv, HeldOK, RowOf
<1>3. CASE Works(w) \/ Crash(w)
  <2>1. \/ UNCHANGED workflow
        \/ pc[w] \in InRun /\ \E s : SetRow(Plain(Task(w)), s)
    BY <1>3
    DEF Works, Begin, Clear, OpenVideo, LoadVideo, ReadVideo, Save, Write, Succeed, Fail,
        MarkFailed, Crash, PartDone, InRun, InTry
  <2> QED BY <1>1, <2>1 DEF SetRow
<1>4. CASE MarkInvalid(w)
  BY <1>2, <1>4 DEF MarkInvalid, Mark, SetRow
<1>5. CASE \/ (\E p \in Partitions : NextRecord(w, p)) \/ Commit(w) \/ Restart(w)
           \/ SessionTimeout(w) \/ EvictSlow(w) \/ Remove(w)
  BY <1>5 DEF NextRecord, Commit, Restart, SessionTimeout, EvictSlow, Remove, runVars
<1> QED BY <1>3, <1>4, <1>5 DEF Step, ProcessTask, Works

\* What the database shall say of a record that is through.
Decided(p, o) ==
  workflow[RowOf(Record(p, o))] \in
    IF IsTask(Record(p, o)) THEN {"success", "failed"} ELSE {"failed"}

\* All records about row r are in partition p.
Sole(p, r) ==
  r # Null /\ \A q \in Partitions \ {p} : \A i \in DOMAIN Log[q] : RowOf(Log[q][i]) # r

\* A worker that is through with its record has decided the row.
LEMMA ThroughIsDecided ==
  ASSUME TypeInv, NEW w \in Workers, Step(w), "db" \notin faults',
         ~(Leave(w) /\ UNCHANGED <<loopVars, workflow>>),
         pc'[w] \in {"remove", "commit"}, RowOf(Held(w)) # Null,
         pc[w] = "remove" => Decided(job[w].part, job[w].off)
  PROVE  pc[w] \notin {"next", "dead"} /\ Held(w)' = Held(w) /\ Decided(job[w].part, job[w].off)'
<1> USE DEF TypeInv
<1>d. \A x \in {"db"} : ~Fault(x)
  BY DEF Fault
<1>l. "commit" \notin InRun /\ {"next", "dead"} \cap InRun = {}
  BY DEF InRun, InTry
<1>1. ASSUME UNCHANGED job
      PROVE  /\ Held(w)' = Held(w)
             /\ Decided(job[w].part, job[w].off)' <=>
                  workflow'[RowOf(Held(w))] \in
                    IF IsTask(Held(w)) THEN {"success", "failed"} ELSE {"failed"}
  BY <1>1, HeldStays DEF Decided, Held, Record
<1>2. CASE Works(w)
  <2>1. UNCHANGED job /\ pc[w] \in InRun /\ pc'[w] = "remove"
    BY <1>2, <1>l, WorksGoesOn DEF GoesOn, Goto, LoopTypeOK
  <2>2. SetRow(Plain(Task(w)), "success") \/ SetRow(Plain(Task(w)), "failed")
    BY <1>2, <1>d, <2>1
    DEF Works, Begin, Clear, OpenVideo, LoadVideo, ReadVideo, Save, Write, Succeed, Fail,
        MarkFailed, NextVideo, Goto, LoopTypeOK
  <2>3. /\ IsTask(Held(w)) /\ Plain(Task(w)) \in RowNames /\ RowOf(Held(w)) = Plain(Task(w))
    BY <1>l, <2>1, HeldFacts DEF RowOf, Task
  <2>4. workflow'[RowOf(Held(w))] \in {"success", "failed"}
    BY <2>2, <2>3 DEF SetRow, TablesTypeOK
  <2> QED BY <1>1, <1>l, <2>1, <2>3, <2>4
<1>3. CASE MarkInvalid(w)
  <2>1. UNCHANGED job /\ pc[w] = "invalid"
    BY <1>3 DEF MarkInvalid, Goto, Die, Drop, LoopTypeOK
  <2>2. ~IsTask(Held(w)) /\ RowOf(Held(w)) = InvalidRow(Held(w))
    BY <2>1 DEF HeldOK, LoopTypeOK, RowOf
  <2>3. SetRow(InvalidRow(Held(w)), "failed") /\ InvalidRow(Held(w)) \in RowNames
    BY <1>3, <2>1, <2>2, HeldFacts DEF MarkInvalid, Mark, Die, Drop, LoopTypeOK
  <2>4. workflow'[RowOf(Held(w))] = "failed"
    BY <2>2, <2>3 DEF SetRow, TablesTypeOK
  <2> QED BY <1>1, <2>1, <2>2, <2>4
<1>4. CASE Remove(w)
  <2>1. UNCHANGED <<job, workflow>> /\ pc[w] = "remove"
    BY <1>4 DEF Remove, Goto, Retry, LoopTypeOK
  <2> QED BY <1>1, <2>1 DEF Decided, Held
<1>5. \/ \E p \in Partitions : NextRecord(w, p)
      \/ Commit(w) \/ Crash(w) \/ Restart(w)
      => pc'[w] \notin {"remove", "commit"}
  BY DEF NextRecord, Commit, Crash, Restart, Goto, Die, Drop, LoopTypeOK
<1>6. SessionTimeout(w) \/ EvictSlow(w) => Leave(w) /\ UNCHANGED <<loopVars, workflow>>
  BY DEF SessionTimeout, EvictSlow, runVars
<1> QED BY <1>2, <1>3, <1>4, <1>5, <1>6 DEF Step, ProcessTask, Works

\* No record after o is about its row, in no partition.
IsLast(p, o) ==
  /\ Sole(p, RowOf(Record(p, o)))
  /\ \A i \in o + 2 .. Len(Log[p]) : RowOf(Log[p][i]) # RowOf(Record(p, o))

\* The inductive invariant of LastRecordDecides.  Without evictions every
\* worker that holds a record is a member, so that nobody else has a record of
\* its partition; the row of a record all of whose rivals are in its partition
\* is written by its holder alone, and decided before it is acknowledged.
LastInv ==
  faults \cap {"evict", "db"} = {} =>
    /\ \A w \in Workers : job[w] # NONE => w \in members
    /\ \A w \in Workers :
         pc[w] \in {"remove", "commit"} /\ Sole(job[w].part, RowOf(Held(w)))
         => Decided(job[w].part, job[w].off)
    /\ \A p \in Partitions : \A o \in 0 .. committed[p] - 1 : IsLast(p, o) => Decided(p, o)

LEMMA HoldersAreMembers ==
  ASSUME LegacyInv, NEW w \in Workers, pc[w] \notin {"next", "dead"}, w \in members
  PROVE  /\ owner[job[w].part] = w /\ job[w].off = committed[job[w].part]
         /\ job[w].part \in Partitions /\ job[w].off \in Nat
         /\ job[w].off + 1 \in DOMAIN Log[job[w].part]
         /\ job[w].off < Len(Log[job[w].part])
         /\ Held(w) = Log[job[w].part][job[w].off + 1]
<1>1. /\ job[w] # NONE /\ job[w].part \in Partitions /\ job[w].off \in Nat
      /\ job[w].off < Len(Log[job[w].part])
  BY HeldFacts DEF LegacyInv
<1>2. owner[job[w].part] = w /\ job[w].off = committed[job[w].part]
  BY <1>1 DEF LegacyInv, DeliveryInv, PositionInv, JobInv
<1>3. job[w].off + 1 \in DOMAIN Log[job[w].part]
  <2> DEFINE s == Log[job[w].part]
  <2>1. s \in Seq(Payloads) /\ DOMAIN s = 1 .. Len(s) /\ Len(s) \in Nat
    BY <1>1, LegacyAssumption
  <2> HIDE DEF s
  <2>2. job[w].off + 1 \in 1 .. Len(s)
    BY <1>1, <2>1 DEF s
  <2> QED BY <2>1, <2>2 DEF s
<1> QED BY <1>1, <1>2, <1>3 DEF Held, Record

LEMMA LastInvStep == LegacyInv /\ LastInv /\ [Next]_vars => LastInv'
<1> SUFFICES ASSUME LegacyInv, LastInv, [Next]_vars PROVE LastInv'
  OBVIOUS
<1> USE DEF LegacyInv, TypeInv
<1>1. ASSUME NEW w \in Workers, Step(w), faults' \cap {"evict", "db"} = {}
      PROVE  /\ \A v \in Workers : job'[v] # NONE => v \in members'
             /\ \A v \in Workers :
                  pc'[v] \in {"remove", "commit"} /\ Sole(job'[v].part, RowOf(Held(v)'))
                  => Decided(job[v].part, job[v].off)'
             /\ \A p \in Partitions : \A o \in 0 .. committed'[p] - 1 :
                  IsLast(p, o) => Decided(p, o)'
  <2>1. faults \cap {"evict", "db"} = {} /\ ~EvictSlow(w)
    <3>1. faults \subseteq faults'
      BY <1>1
      DEF Step, ProcessTask, NextRecord, Begin, Clear, OpenVideo, LoadVideo, ReadVideo, Save,
          Write, Succeed, Fail, MarkFailed, Remove, MarkInvalid, Commit, Crash, Restart,
          SessionTimeout, EvictSlow, Fault
    <3> QED BY <1>1, <3>1 DEF EvictSlow, Fault
  <2>2. /\ \A v \in Workers : job[v] # NONE => v \in members
        /\ \A v \in Workers :
             pc[v] \in {"remove", "commit"} /\ Sole(job[v].part, RowOf(Held(v)))
             => Decided(job[v].part, job[v].off)
        /\ \A p \in Partitions : \A o \in 0 .. committed[p] - 1 : IsLast(p, o) => Decided(p, o)
    BY <2>1 DEF LastInv
  <2>m. \A v \in Workers : pc[v] \notin {"next", "dead"} => v \in members
    BY <2>2 DEF LoopTypeOK
  <2>k. /\ Leave(w) => SessionTimeout(w)
        /\ ~Leave(w) => UNCHANGED members
    BY <1>1, <2>1
    DEF Step, ProcessTask, NextRecord, Begin, Clear, OpenVideo, LoadVideo, ReadVideo, Save,
        Write, Succeed, Fail, MarkFailed, Remove, MarkInvalid, Commit, Crash, Restart,
        SessionTimeout, Leave, Take, CommitAll, groupVars
  <2>3. ASSUME NEW v \in Workers, job'[v] # NONE PROVE v \in members'
    <3>1. CASE v # w
      BY <1>1, <2>2, <2>3, <2>k, <3>1, OthersStay DEF Leave
    <3>2. CASE v = w
      <4>1. SessionTimeout(w) => job'[w] = NONE
        BY DEF SessionTimeout, loopVars, LoopTypeOK
      <4>2. Die(w) \/ (\E l \in {"next", "dead"} : Drop(w, l)) => job'[w] = NONE
        BY DEF Die, Drop, LoopTypeOK
      <4>3. \A p \in Partitions : NextRecord(w, p) => w \in members
        BY DEF NextRecord, Take
      <4>4. Restart(w) => job'[w] = NONE
        BY DEF Restart, Goto, LoopTypeOK
      <4>5. pc[w] \in InRun \cup {"invalid"} => pc[w] \notin {"next", "dead"}
        BY DEF InRun, InTry
      <4> QED
        BY <1>1, <2>3, <2>m, <2>k, <3>2, <4>1, <4>2, <4>3, <4>4, <4>5, StepKinds
    <3> QED BY <3>1, <3>2
  <2>4. ASSUME NEW p \in Partitions, NEW r, Sole(p, r), pc[w] \notin {"next", "dead"},
               RowOf(Held(w)) = r
        PROVE  job[w].part = p
    BY <2>4, <2>m, HoldersAreMembers DEF Sole
  <2>5. ASSUME NEW v \in Workers, pc'[v] \in {"remove", "commit"},
               Sole(job'[v].part, RowOf(Held(v)'))
        PROVE  Decided(job[v].part, job[v].off)'
    <3>0. {"next", "dead"} \cap InRun = {}
      BY DEF InRun, InTry
    <3>1. CASE v # w
      <4>1. pc'[v] = pc[v] /\ job'[v] = job[v] /\ Held(v)' = Held(v)
        BY <1>1, <3>1, OthersStay, HeldStays
      <4>2. Decided(job[v].part, job[v].off) /\ Sole(job[v].part, RowOf(Held(v)))
        BY <2>2, <2>5, <4>1
      <4>3. /\ pc[v] \notin {"next", "dead"} /\ v \in members
            /\ owner[job[v].part] = v /\ job[v].part \in Partitions
        BY <2>5, <2>m, <4>1, HoldersAreMembers
      <4>4. ASSUME pc[w] \notin {"next", "dead"} PROVE RowOf(Held(w)) # RowOf(Held(v))
        <5>1. owner[job[w].part] = w
          BY <2>m, <4>4, HoldersAreMembers
        <5> QED BY <2>4, <3>1, <4>2, <4>3, <4>4, <5>1
      <4>5. workflow'[RowOf(Held(v))] = workflow[RowOf(Held(v))]
        <5>1. Decided(job[v].part, job[v].off) => RowOf(Held(v)) \in DOMAIN workflow
          <6>1. RowOf(Held(v)) \in RowNames
            <7>1. RowOf(Held(v)) # Null
              BY <4>2 DEF Sole
            <7>2. IsTask(Held(v)) => Plain(TaskOf(Held(v))) \in RowNames
              BY <4>3, HeldFacts, TaskIsNamed DEF RowNames
            <7> QED BY <4>3, <7>1, <7>2, HeldFacts DEF RowOf
          <6> QED BY <6>1 DEF TablesTypeOK
        <5> QED BY <1>1, <4>2, <4>4, <5>1, OneRowWritten
      <4> QED BY <4>1, <4>2, <4>5 DEF Decided, Held, Record
    <3>2. CASE v = w
      <4>1. ~Leave(w)
        <5>1. SessionTimeout(w) => pc'[w] = "dead"
          BY DEF SessionTimeout, loopVars
        <5> QED BY <2>5, <2>k, <3>2, <5>1
      <4>2. job'[w].part = job[w].part /\ job'[w].off = job[w].off
        <5>1. /\ Die(w) \/ (\E l \in {"next", "dead"} : Drop(w, l)) => pc'[w] \in {"next", "dead"}
              /\ Restart(w) => pc'[w] = "next"
              /\ \A p \in Partitions : NextRecord(w, p) => pc'[w] \notin {"remove", "commit"}
          BY DEF Die, Drop, Restart, Goto, NextRecord, LoopTypeOK
        <5> QED BY <1>1, <2>5, <3>2, <4>1, <5>1, StepKinds
      <4>3. Held(w)' = Held(w)
        BY <4>2, HeldStays
      <4>4. Sole(job[w].part, RowOf(Held(w)))
        BY <2>5, <3>2, <4>2, <4>3
      <4>5. RowOf(Held(w)) # Null
        BY <4>4 DEF Sole
      <4> QED BY <1>1, <2>2, <2>5, <3>2, <4>1, <4>4, <4>5, ThroughIsDecided
    <3> QED BY <3>1, <3>2
  <2>6. ASSUME NEW p \in Partitions, NEW o \in 0 .. committed'[p] - 1, IsLast(p, o)
        PROVE  Decided(p, o)'
    <3>1. CASE o \in 0 .. committed[p] - 1
      <4>1. Decided(p, o) /\ Sole(p, RowOf(Record(p, o)))
        BY <2>2, <2>6, <3>1 DEF IsLast
      <4>2. /\ Record(p, o) \in Payloads /\ Record(p, o) \in Records /\ o \in Nat
            /\ o < committed[p]
        BY <3>1, AckedInLog
      <4>3. ASSUME pc[w] \notin {"next", "dead"} PROVE RowOf(Held(w)) # RowOf(Record(p, o))
        <5> SUFFICES ASSUME RowOf(Held(w)) = RowOf(Record(p, o)) PROVE FALSE
          OBVIOUS
        <5>1. job[w].part = p
          BY <2>4, <4>1, <4>3
        <5>2. /\ job[w].off = committed[p] /\ job[w].off \in Nat /\ job[w].off < Len(Log[p])
              /\ Held(w) = Log[p][job[w].off + 1]
          BY <2>m, <4>3, <5>1, HoldersAreMembers
        <5>3. Len(Log[p]) \in Nat
          BY LogLen
        <5>4. job[w].off + 1 \in o + 2 .. Len(Log[p])
          BY <4>2, <5>2, <5>3
        <5> QED BY <2>6, <5>2, <5>4 DEF IsLast
      <4>4. RowOf(Record(p, o)) \in DOMAIN workflow
        <5>1. RowOf(Record(p, o)) # Null
          BY <4>1 DEF Sole
        <5>2. IsTask(Record(p, o)) => Plain(TaskOf(Record(p, o))) \in RowNames
          BY <4>2, TaskIsNamed DEF RowNames
        <5>3. RowOf(Record(p, o)) \in RowNames
          BY <4>2, <5>1, <5>2 DEF RowOf, RowNames
        <5> QED BY <5>3 DEF TablesTypeOK
      <4>5. workflow'[RowOf(Record(p, o))] = workflow[RowOf(Record(p, o))]
        BY <1>1, <4>3, <4>4, OneRowWritten
      <4> QED BY <4>1, <4>5 DEF Decided, Record
    <3>2. CASE o \notin 0 .. committed[p] - 1
      <4>1. /\ pc[w] = "commit" /\ committed' = [committed EXCEPT ![job[w].part] = job[w].off + 1]
            /\ p = job[w].part
        BY <1>1, <2>6, <3>2, AcksOne DEF GroupTypeOK
      <4>2. /\ job[w].off \in Nat /\ job[w].off <= committed[p] /\ committed[p] \in Nat
            /\ committed'[p] = job[w].off + 1
        BY <4>1, HeldFacts DEF GroupTypeOK, DeliveryInv, PositionInv, JobInv
      <4>3. o = job[w].off
        BY <3>2, <4>2
      <4>4. Record(p, o) = Held(w)
        BY <4>1, <4>3 DEF Held
      <4>5. Decided(p, o)
        BY <2>2, <2>6, <4>1, <4>3, <4>4 DEF IsLast
      <4>6. UNCHANGED workflow
        BY <1>1, <4>1
        DEF Step, ProcessTask, NextRecord, Begin, Clear, OpenVideo, LoadVideo, ReadVideo, Save,
            Write, Succeed, Fail, MarkFailed, Remove, MarkInvalid, Commit, Crash, Restart,
            SessionTimeout, EvictSlow, InTry, runVars
      <4> QED BY <4>5, <4>6 DEF Decided, Record
    <3> QED BY <3>1, <3>2
  <2> QED BY <2>3, <2>5, <2>6
<1>2. CASE CompleteRebalance \/ UNCHANGED vars
  <2>1. UNCHANGED <<loopVars, runVars, faults, committed>>
    BY <1>2, NobodyMoves
  <2>2. members \subseteq members'
    BY <1>2 DEF CompleteRebalance, Rebalance, vars, groupVars
  <2> QED
    BY <2>1, <2>2
    DEF LastInv, Decided, IsLast, Sole, RowOf, Held, Record, loopVars, runVars
<1>3. ASSUME NEW w \in Workers, Step(w) PROVE LastInv'
  BY <1>1, <1>3 DEF LastInv, IsLast, Sole, RowOf, Record
<1> QED BY <1>2, <1>3 DEF Next, Step

\* The last record about a row decides what it says, once it is acknowledged.
THEOREM LastRecordsDecide == Spec => []LastRecordDecides
<1>1. Init => LastInv
  BY DEF Init, GroupInit, LastInv
<1>2. LegacyInv /\ LastInv /\ [Next]_vars => LegacyInv' /\ LastInv'
  BY LegacyInvStep, LastInvStep
<1>3. LegacyInv /\ LastInv => LastRecordDecides
  <2> SUFFICES ASSUME LastInv, faults \cap {"evict", "db"} = {},
                      NEW p \in Partitions, NEW o \in 0 .. committed[p] - 1,
                      NEW r, r = RowOf(Record(p, o)), r # Null,
                      {q \in Partitions \ {p} : \E i \in DOMAIN Log[q] : RowOf(Log[q][i]) = r} = {},
                      \A i \in o + 2 .. Len(Log[p]) : RowOf(Log[p][i]) # r
               PROVE  workflow[r] \in IF IsTask(Record(p, o)) THEN {"success", "failed"} ELSE {"failed"}
    BY DEF LastRecordDecides
  <2>1. IsLast(p, o)
    BY DEF IsLast, Sole
  <2> QED BY <2>1 DEF LastInv, Decided
<1> QED BY <1>1, <1>2, <1>3, LegacyInvInit, PTL DEF Spec

=============================================================================
