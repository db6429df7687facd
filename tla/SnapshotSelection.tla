-------------------------- MODULE SnapshotSelection --------------------------
(***************************************************************************)
(* Which frames of a lesson become snapshots: build_snapshot_events of     *)
(* app/domain/snapshots.py.  Candidates are the best frames by a rate      *)
(* (heads up, reading), every frame over a threshold (sleeping, phones),   *)
(* and the frame that completes a run of alert frames of the teacher.      *)
(* Candidates of one type that are too close are thinned out, and what is  *)
(* left is ranked and cut.                                                 *)
(*                                                                         *)
(* A candidate is its type, its capture second and its confidence.  No two *)
(* of a type have the same second, so the sorts of the code are total      *)
(* orders and sets of candidates lose nothing.                             *)
(*                                                                         *)
(* Definitions headed "Broken" are slips a later change of the code could  *)
(* make; nothing else uses them.                                           *)
(***************************************************************************)
EXTENDS FramePoints, FiniteSets, SequencesExt

CONSTANT Policy   \* the settings named snapshot_*, rates in units of 1 / Unit

PolicyFields == {"headUpTopK", "headUpMinRate", "readTopK", "readMinRate",
                 "sleepMinCount", "sleepMinRate", "phoneMinCount", "phoneMinRate",
                 "consecutiveFrames", "minInterval", "maxTotal"}

ASSUME PolicyAssumption == Policy \in [PolicyFields -> Int]

\* priority: the smaller, the earlier in the ranking.
Priority == [headUp |-> 10, read |-> 20, teacher |-> 30, sleep |-> 40, phone |-> 50]

Event(type, k, rate) == [type |-> type, second |-> Second(k), rate |-> rate]

-----------------------------------------------------------------------------
(* Candidates                                                              *)

\* The k best frames by rate, earlier ones first, without those under minRate.
TopK(students, field, k, minRate, type) ==
  LET rate(i) == Rate(students[i][field], students[i].present)
      better(i, j) == rate(i) > rate(j) \/ (rate(i) = rate(j) /\ i < j)
      best == {i \in Valid(students) : Cardinality({j \in Valid(students) : better(j, i)}) < k}
  IN  {Event(type, i, rate(i)) : i \in {j \in best : rate(j) >= minRate}}

\* Broken: frames that show nobody are not left out.
ThresholdOfAll(students, field, minCount, minRate, type) ==
  LET present(i) == IF students[i].present > 0 THEN students[i].present ELSE 1
      rate(i) == Rate(students[i][field], present(i))
  IN  {Event(type, i, rate(i)) :
         i \in {j \in DOMAIN students : students[j][field] >= minCount \/ rate(j) >= minRate}}

\* Every frame with enough of them, by number or by rate.
Threshold(students, field, minCount, minRate, type) ==
  LET rate(i) == Rate(students[i][field], students[i].present)
  IN  {Event(type, i, rate(i)) :
         i \in {j \in Valid(students) : students[j][field] >= minCount \/ rate(j) >= minRate}}

\* The teacher looks away from the students, or down.
IsAlert(metric) == metric.valid /\ (~metric.front \/ metric.down)

\* Broken: an alert does not start a new window.
WindowRunsOn(teachers, n) ==
  LET w[i \in 0 .. Len(teachers)] ==
        IF i = 0 \/ ~IsAlert(teachers[i]) THEN 0 ELSE w[i - 1] + 1
  IN  w

\* window[i]: how many frames the window holds after frame i; n of them are an
\* alert, which empties it.
Window(teachers, n) ==
  LET w[i \in 0 .. Len(teachers)] ==
        IF i = 0 \/ ~IsAlert(teachers[i]) \/ w[i - 1] + 1 >= n THEN 0 ELSE w[i - 1] + 1
  IN  w

AlertFrames(teachers, n) ==
  IF n <= 0 THEN {}
  ELSE {i \in DOMAIN teachers : IsAlert(teachers[i]) /\ Window(teachers, n)[i - 1] + 1 >= n}

Candidates(students, teachers) ==
  TopK(students, "face", Policy.headUpTopK, Policy.headUpMinRate, "headUp")
  \cup TopK(students, "read", Policy.readTopK, Policy.readMinRate, "read")
  \cup Threshold(students, "sleep", Policy.sleepMinCount, Policy.sleepMinRate, "sleep")
  \cup Threshold(students, "phone", Policy.phoneMinCount, Policy.phoneMinRate, "phone")
  \cup {Event("teacher", i, Unit) : i \in AlertFrames(teachers, Policy.consecutiveFrames)}

-----------------------------------------------------------------------------
(* Thinning out, ranking and cutting                                       *)

Close(e, f) ==
  /\ e.type = f.type
  /\ e.second - f.second < Policy.minInterval
  /\ f.second - e.second < Policy.minInterval

Earlier(e, f) ==
  \/ Priority[e.type] < Priority[f.type]
  \/ e.type = f.type /\ e.second < f.second

\* Broken: a stronger candidate is kept beside the one it is too close to.
ThinKeepsBoth(kept, e) ==
  LET c == SelectInSeq(kept, LAMBDA k : Close(k, e))
  IN  IF c = 0 \/ e.rate > kept[c].rate THEN Append(kept, e) ELSE kept

\* Broken: the later of two close candidates wins.
ThinKeepsLatest(kept, e) ==
  LET c == SelectInSeq(kept, LAMBDA k : Close(k, e))
  IN  IF c = 0 THEN Append(kept, e) ELSE [kept EXCEPT ![c] = e]

\* One turn of the loop: e joins the candidates kept so far, replaces the one
\* it is too close to when it is stronger, or is dropped.
Thin(kept, e) ==
  LET c == SelectInSeq(kept, LAMBDA k : Close(k, e))
  IN  IF c = 0 THEN Append(kept, e)
      ELSE IF e.rate > kept[c].rate THEN [kept EXCEPT ![c] = e]
      ELSE kept

Dedupe(events) ==
  LET ordered == [i \in 1 .. Cardinality(events) |->
                    CHOOSE e \in events : Cardinality({f \in events : Earlier(f, e)}) = i - 1]
  IN  IF Policy.minInterval <= 0 THEN events ELSE ToSet(FoldLeft(Thin, <<>>, ordered))

RanksBefore(e, f) ==
  \/ Priority[e.type] < Priority[f.type]
  \/ e.type = f.type /\ e.rate > f.rate
  \/ e.type = f.type /\ e.rate = f.rate /\ e.second < f.second

\* build_snapshot_events.
Snapshots(students, teachers) ==
  LET kept == Dedupe(Candidates(students, teachers))
  IN  {e \in kept : Cardinality({f \in kept : RanksBefore(f, e)}) < Policy.maxTotal}

=============================================================================
