------------------------------ MODULE TaskFiles ------------------------------
(***************************************************************************)
(* The files of process_task on one host that several workers share: the   *)
(* directory temp_root/task_id with the videos it downloads                *)
(* (app/infrastructure/media/video.py), and the snapshots below            *)
(* snapshot_mount_root (snapshot_storage.py).  Each operator is one call.  *)
(* The directory belongs to the task, not to the run: two runs of a task   *)
(* meet in it.                                                             *)
(*                                                                         *)
(* Definitions headed "Broken" are slips a later change of the code could  *)
(* make; no action uses them.                                              *)
(***************************************************************************)
EXTENDS TaskMessage

CONSTANT Images     \* names of snapshots within a task

VARIABLES
  dirs,       \* the tasks whose directory exists
  videos,     \* videos[t][v]: the file v.mp4 of t: NONE, "whole", or the worker
              \* that opened it last and has not written all of it
  images      \* images[t]: the snapshots of t that are on the mount

fileVars == <<dirs, videos, images>>

Videos == {"student", "teacher"}

FilesTypeOK ==
  /\ dirs \subseteq Tasks
  /\ videos \in [Tasks -> [Videos -> Workers \cup {NONE, "whole"}]]
  /\ images \in [Tasks -> SUBSET Images]

NoFiles == [v \in Videos |-> NONE]

FilesInit ==
  /\ dirs = {}
  /\ videos = [t \in Tasks |-> NoFiles]
  /\ images = [t \in Tasks |-> {}]

\* task_dir.mkdir(parents, exist_ok).
MakeDir(t) == dirs' = dirs \cup {t} /\ UNCHANGED <<videos, images>>

\* download_video makes the directory again if need be, and opening the
\* destination for writing cuts off what another run had put there.
OpenFile(t, v, w) ==
  /\ dirs' = dirs \cup {t}
  /\ videos' = [videos EXCEPT ![t][v] = w]
  /\ UNCHANGED images

\* The last byte is written.  The file is whole if w is the last that opened
\* it; stat() of one that was removed meanwhile raises.
CloseFile(t, v, w) ==
  /\ videos[t][v] # NONE
  /\ videos' = [videos EXCEPT ![t][v] = IF @ = w THEN "whole" ELSE @]
  /\ UNCHANGED <<dirs, images>>

\* save_snapshot, once for each of the images; one that is there is replaced.
SaveImages(t, saved) ==
  /\ images' = [images EXCEPT ![t] = @ \cup saved]
  /\ UNCHANGED <<dirs, videos>>

\* Broken: temp_root is removed, with the directories of all tasks.
EmptyAllDirs(t) ==
  /\ dirs' = {}
  /\ videos' = [u \in Tasks |-> NoFiles]
  /\ UNCHANGED images

\* rmtree has removed every file, and the directory last.
EmptyDir(t) ==
  /\ dirs' = dirs \ {t}
  /\ videos' = [videos EXCEPT ![t] = NoFiles]
  /\ UNCHANGED images

\* rmtree meets an error and ignores it: the directory stays, with any of its
\* files.
KeepDir(t) ==
  /\ t \in dirs
  /\ \E kept \in SUBSET Videos :
       videos' = [videos EXCEPT ![t] = [v \in Videos |-> IF v \in kept THEN videos[t][v] ELSE NONE]]
  /\ UNCHANGED <<dirs, images>>

\* shutil.rmtree(task_dir, ignore_errors): it never raises, whatever it leaves.
RemoveDir(t) == EmptyDir(t) \/ KeepDir(t)

=============================================================================
