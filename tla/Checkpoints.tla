---------------------------- MODULE Checkpoints ----------------------------
(***************************************************************************)
(* CheckpointManager and WandbTracker of the LLM trainer.  The disk maps   *)
(* the directories of save_dir to their modification time and to the state *)
(* of the file in them, "none" when it is empty.  A directory's time moves *)
(* when an entry is created in it or removed, not when a file in it is     *)
(* overwritten.  A clean-up takes the old directories away file by file    *)
(* while upload threads read them; those are daemons and die with the      *)
(* process.  The tracker's run is the wandb run or None.                   *)
(***************************************************************************)
EXTENDS Integers, SequencesExt

CONSTANTS Limits,       \* save_total_limit as the manager's config has it
          NoLimit,      \* the field is missing: reading it raises AttributeError
          MaxSaves      \* bound on the clock of the disk
\* A limit is not negative: the slice would drop the oldest it should keep.
ASSUME CheckpointAssumption == Limits \ {NoLimit} \subseteq Nat

VARIABLES disk, diskClock, limit,
          doomed,       \* what the clean-up has yet to delete, with its time in the sorted list
          uploads,      \* the threads started so far: name, progress, what was read
          run           \* the tracker's run is open
checkpointVars == <<disk, diskClock, limit, doomed, uploads, run>>

\* checkpoint-step-S, or checkpoint-epoch-E-step-S; epoch is -1 for None.
CheckpointName(step, epoch) == [step |-> step, epoch |-> epoch]

CheckpointInit ==
  /\ disk = <<>> /\ diskClock = 0 /\ doomed = <<>>
  /\ limit \in Limits
  /\ uploads = <<>> /\ run = FALSE

\* mkdir and the opening of pytorch_model.bin, which truncates an older one.
StartSave(name) ==
  /\ diskClock < MaxSaves
  /\ diskClock' = diskClock + 1
  /\ LET overwrites == name \in DOMAIN disk /\ disk[name].file # "none"
         mtime == IF overwrites THEN disk[name].mtime ELSE diskClock + 1
     IN  disk' = [n \in DOMAIN disk \cup {name} |->
                    IF n = name THEN [mtime |-> mtime, file |-> "partial"] ELSE disk[n]]
  /\ UNCHANGED <<limit, doomed, uploads, run>>

\* torch.save returns.
FinishSave(name) ==
  /\ disk' = [disk EXCEPT ![name].file = "full"]
  /\ UNCHANGED <<diskClock, limit, doomed, uploads, run>>

Newer(n) == {m \in DOMAIN disk : disk[m].mtime > disk[n].mtime}

\* find_latest_checkpoint, complete or not.
FindLatest == CHOOSE n \in DOMAIN disk : Newer(n) = {}

\* checkpoints[:-limit] of the list in order of time.  For a limit of 0 the slice is empty.
DoomedFromTheNewest == {n \in DOMAIN disk : Cardinality(DOMAIN disk) - Cardinality(Newer(n)) > limit}
Doomed == IF limit = 0 THEN {} ELSE {n \in DOMAIN disk : Cardinality(Newer(n)) >= limit}

CleanupRaises == limit = NoLimit
ListOld ==
  /\ ~CleanupRaises
  /\ doomed' = [n \in Doomed |-> disk[n].mtime]
  /\ UNCHANGED <<disk, diskClock, limit, uploads, run>>

\* rmtree of the oldest: its file goes first, then the empty directory.
RemoveOld ==
  \E n \in DOMAIN doomed :
    /\ \A m \in DOMAIN doomed : doomed[n] <= doomed[m]
    /\ IF disk[n].file # "none"
       THEN /\ diskClock < MaxSaves /\ diskClock' = diskClock + 1
            /\ disk' = [disk EXCEPT ![n] = [mtime |-> diskClock + 1, file |-> "none"]]
            /\ UNCHANGED doomed
       ELSE /\ disk' = [m \in DOMAIN disk \ {n} |-> disk[m]]
            /\ doomed' = [m \in DOMAIN doomed \ {n} |-> doomed[m]]
            /\ UNCHANGED diskClock
    /\ UNCHANGED <<limit, uploads, run>>

UploadAsync(name) ==
  /\ uploads' = Append(uploads, [name |-> name, at |-> "started", read |-> "nothing"])
  /\ UNCHANGED <<disk, diskClock, limit, doomed, run>>

Moved(u, at) == uploads' = [uploads EXCEPT ![u].at = at]

\* log_artifact in the thread: no run, no artifact.
CheckRun(u) ==
  /\ uploads[u].at = "started"
  /\ Moved(u, IF run THEN "adding" ELSE "skipped")
  /\ UNCHANGED <<disk, diskClock, limit, doomed, run>>

\* is_dir: of a directory that is gone add_file is asked for, which raises.
IsDir(u) ==
  /\ uploads[u].at = "adding"
  /\ Moved(u, IF uploads[u].name \in DOMAIN disk THEN "listing" ELSE "failed")
  /\ UNCHANGED <<disk, diskClock, limit, doomed, run>>

\* add_dir lists the files and then reads them.  A directory or a file gone by then raises; a
\* directory that is empty by then gives an artifact without files.
ListDir(u) ==
  /\ uploads[u].at = "listing"
  /\ Moved(u, IF uploads[u].name \notin DOMAIN disk THEN "failed"
              ELSE IF disk[uploads[u].name].file = "none" THEN "logging" ELSE "reading")
  /\ UNCHANGED <<disk, diskClock, limit, doomed, run>>

ReadFile(u) ==
  /\ uploads[u].at = "reading"
  /\ IF uploads[u].name \in DOMAIN disk /\ disk[uploads[u].name].file # "none"
     THEN uploads' = [uploads EXCEPT ![u].at = "logging", ![u].read = disk[uploads[u].name].file]
     ELSE Moved(u, "failed")
  /\ UNCHANGED <<disk, diskClock, limit, doomed, run>>

\* run.log_artifact: self.run may be None by now.
LogArtifact(u) ==
  /\ uploads[u].at = "logging"
  /\ Moved(u, IF run THEN "logged" ELSE "failed")
  /\ UNCHANGED <<disk, diskClock, limit, doomed, run>>

UploadStep == \E u \in DOMAIN uploads : CheckRun(u) \/ IsDir(u) \/ ListDir(u) \/ ReadFile(u) \/ LogArtifact(u)

TrackerInit == run' = TRUE /\ UNCHANGED <<disk, diskClock, limit, doomed, uploads>>
TrackerFinish == run' = FALSE /\ UNCHANGED <<disk, diskClock, limit, doomed, uploads>>

\* The process is gone: its threads, its run and what it meant to delete with it, the disk stays.
ProcessGone == uploads' = <<>> /\ run' = FALSE /\ doomed' = <<>> /\ UNCHANGED <<disk, diskClock, limit>>
=============================================================================
