------------------------------ MODULE Trainer ------------------------------
(***************************************************************************)
(* The trainer's main program in one process: set-up, the training loop    *)
(* over epochs and batches with its saves, the final evaluation, the wait  *)
(* for the uploads.  It may be killed anywhere and started again with the  *)
(* same configuration and directory.  A batch's loss, gradients and        *)
(* optimizer step are one step: they share no state with the rest.         *)
(***************************************************************************)
EXTENDS Checkpoints

CONSTANTS Configs,      \* [stage, backend, max_steps, num_epochs, save_steps, accumulation, upload, resume, weave]
          BatchesPerEpoch, MaxKills
\* Steps are counted modulo save_steps and the accumulation, where 0 raises; a negative number of
\* epochs is as good as none.
ASSUME TrainerAssumption ==
  /\ BatchesPerEpoch \in Nat
  /\ \A c \in Configs : /\ c.max_steps \in Int /\ c.num_epochs \in Nat
                        /\ {c.save_steps, c.accumulation} \subseteq Nat \ {0}

VARIABLES cfg, pc, step, epoch, batch, saving, joined, generation,
          saved,        \* the names saved by this process, in order
          evalLogged,   \* the results of the final evaluation reached the run
          pending,      \* batches whose gradients no optimizer step has used
          optimizerSteps,   \* the scheduler's too
          resumeFrom,   \* resume_path of main, when it is looked for among the checkpoints
          begun         \* the name last given to a save, by this or an earlier process
trainerVars == <<checkpointVars, cfg, pc, step, epoch, batch, saving, joined, generation, saved, evalLogged,
                 pending, optimizerSteps, resumeFrom, begun>>

gradientVars == <<pending, optimizerSteps>>
loopVars == <<step, epoch, batch, saving, saved, gradientVars, begun>>
RunEnded == {"done", "raised"}
NoName == CheckpointName(-1, -1)

TrainerInit ==
  /\ CheckpointInit
  /\ cfg \in Configs
  /\ pc = "load_data" /\ generation = 0
  /\ step = 0 /\ epoch = 0 /\ batch = 0
  /\ saving = NoName /\ saved = <<>> /\ joined = 0 /\ evalLogged = FALSE
  /\ pending = 0 /\ optimizerSteps = 0 /\ resumeFrom = NoName /\ begun = NoName

\* DataModule.setup knows four stages, build_trainer three of them.
DataStages == {"pretrain", "sft", "posttrain", "dpo"}
TrainerStages == {"pretrain", "sft", "dpo"}

LoadData ==
  /\ pc = "load_data"
  /\ pc' = IF cfg.stage \in DataStages THEN "init_tracking" ELSE "raised"
  /\ UNCHANGED <<checkpointVars, cfg, loopVars, joined, generation, evalLogged, resumeFrom>>

InitTracking ==
  /\ pc = "init_tracking"
  /\ TrackerInit
  /\ pc' = "build"
  /\ UNCHANGED <<cfg, loopVars, joined, generation, evalLogged, resumeFrom>>

\* The path to resume from is looked up, and not used: the trainer starts at step 0.
\* prepare_model knows no Megatron.
BuildTrainer ==
  /\ pc = "build"
  /\ resumeFrom' = IF cfg.resume /\ disk # <<>> THEN FindLatest ELSE NoName
  /\ pc' = IF cfg.backend # "megatron" /\ cfg.stage \in TrainerStages THEN "train" ELSE "raised"
  /\ UNCHANGED <<checkpointVars, cfg, loopVars, joined, generation, evalLogged>>

\* _estimate_total_steps, the horizon of the learning-rate scheduler.
EstimateTotalSteps == IF cfg.max_steps > 0 THEN cfg.max_steps ELSE BatchesPerEpoch * cfg.num_epochs

\* Gradients of several batches add up before the optimizer and the scheduler take a step.
Backward ==
  IF (step + 1) % cfg.accumulation = 0
  THEN pending' = 0 /\ optimizerSteps' = optimizerSteps + 1
  ELSE pending' = pending + 1 /\ UNCHANGED optimizerSteps

ReachesLimit == cfg.max_steps > 0 /\ step + 1 >= cfg.max_steps

\* One batch.  The step limit ends the epoch, not the training.
TrainBatch ==
  /\ pc = "train" /\ epoch < cfg.num_epochs /\ batch < BatchesPerEpoch
  /\ Backward
  /\ step' = step + 1
  /\ LET saves == ~ReachesLimit /\ (step + 1) % cfg.save_steps = 0
     IN  /\ batch' = IF ReachesLimit THEN BatchesPerEpoch ELSE batch + 1
         /\ pc' = IF saves THEN "save" ELSE "train"
         /\ saving' = IF saves THEN CheckpointName(step + 1, -1) ELSE saving
  /\ UNCHANGED <<checkpointVars, cfg, epoch, saved, joined, generation, evalLogged, resumeFrom, begun>>

EpochEnd ==
  /\ pc = "train" /\ epoch < cfg.num_epochs /\ batch = BatchesPerEpoch
  /\ epoch' = epoch + 1 /\ batch' = 0
  /\ IF cfg.max_steps <= 0
     THEN pc' = "save" /\ saving' = CheckpointName(step, epoch)
     ELSE UNCHANGED <<pc, saving>>
  /\ UNCHANGED <<checkpointVars, cfg, step, saved, joined, generation, evalLogged, gradientVars, resumeFrom, begun>>

\* save from its first line to its last; an upload that is not asynchronous runs in it.
Save ==
  /\ \/ pc = "save" /\ StartSave(saving) /\ pc' = "writing" /\ UNCHANGED saved
     \/ pc = "writing" /\ FinishSave(saving) /\ pc' = "cleanup" /\ saved' = Append(saved, saving)
     \/ pc = "cleanup" /\ ListOld /\ pc' = "removing" /\ UNCHANGED saved
     \/ pc = "removing" /\ RemoveOld /\ UNCHANGED <<pc, saved>>
     \/ pc = "removing" /\ doomed = <<>> /\ UNCHANGED <<checkpointVars, saved>>
        /\ pc' = IF cfg.upload = "none" THEN "train" ELSE "upload"
     \/ pc = "cleanup" /\ CleanupRaises /\ pc' = "raised" /\ UNCHANGED <<checkpointVars, saved>>
     \/ pc = "upload" /\ cfg.upload = "async" /\ UploadAsync(saving) /\ pc' = "train" /\ UNCHANGED saved
     \/ pc = "upload" /\ cfg.upload = "sync" /\ UNCHANGED <<checkpointVars, saved>>
        /\ pc' = IF saving \in DOMAIN disk THEN "train" ELSE "raised"
  /\ begun' = IF pc = "save" THEN saving ELSE begun
  /\ UNCHANGED <<cfg, step, epoch, batch, saving, joined, generation, evalLogged, gradientVars, resumeFrom>>

FinishTraining ==
  /\ pc = "train" /\ epoch = cfg.num_epochs
  /\ TrackerFinish
  /\ pc' = "evaluate"
  /\ UNCHANGED <<cfg, loopVars, joined, generation, evalLogged, resumeFrom>>

Evaluate ==
  /\ pc = "evaluate"
  /\ evalLogged' = (cfg.weave /\ run)
  /\ pc' = "wait"
  /\ UNCHANGED <<checkpointVars, cfg, loopVars, joined, generation, resumeFrom>>

\* One t.join(timeout=300) after the other: each returns, with its thread ended or time up.
WaitForUploads ==
  /\ pc = "wait"
  /\ IF joined = Len(uploads) THEN pc' = "done" /\ UNCHANGED joined
     ELSE joined' = joined + 1 /\ UNCHANGED pc
  /\ UNCHANGED <<checkpointVars, cfg, loopVars, generation, evalLogged, resumeFrom>>

Kill ==
  /\ pc \notin RunEnded \cup {"killed"} /\ generation < MaxKills
  /\ ProcessGone
  /\ pc' = "killed"
  /\ UNCHANGED <<cfg, loopVars, joined, generation, evalLogged, resumeFrom>>

Restart ==
  /\ pc = "killed"
  /\ generation' = generation + 1
  /\ pc' = "load_data"
  /\ step' = 0 /\ epoch' = 0 /\ batch' = 0
  /\ saving' = NoName /\ saved' = <<>> /\ joined' = 0 /\ evalLogged' = FALSE
  /\ pending' = 0 /\ optimizerSteps' = 0 /\ resumeFrom' = NoName
  /\ UNCHANGED <<checkpointVars, cfg, begun>>

MainThread == LoadData \/ InitTracking \/ BuildTrainer \/ TrainBatch \/ EpochEnd \/ Save
              \/ FinishTraining \/ Evaluate \/ WaitForUploads

Upload ==
  /\ pc \notin RunEnded
  /\ UploadStep
  /\ UNCHANGED <<cfg, pc, loopVars, joined, generation, evalLogged, resumeFrom>>

TrainerNext == MainThread \/ Upload \/ Kill \/ Restart
----------------------------------------------------------------------------
FullOnDisk == {n \in DOMAIN disk : disk[n].file = "full"}

\* A first run keeps, between two saves, exactly the checkpoints saved last, as many as the
\* limit says (all of them for 0): sorting directories by their time is sorting by age.
KeepsTheNewest ==
  generation = 0 /\ limit # NoLimit /\ pc \in {"train", "upload", "evaluate", "wait", "done"} =>
    FullOnDisk = ToSet(IF limit \in 1..Len(saved) THEN SubSeq(saved, Len(saved) - limit + 1, Len(saved)) ELSE saved)

\* A process of the first run may be killed anywhere, in the middle of a save too: once one
\* save was complete there is a complete checkpoint on disk.
KilledRunCanResume == generation = 0 /\ saved # <<>> => FullOnDisk # {}

\* The background upload never ships a file that is still being written or half deleted,
\* whatever saves, clean-ups and restarts happen meanwhile: it ships a complete one or gives up.
\* Only of a checkpoint that a clean-up is emptying or has deleted may it ship nothing.
UploadedIsComplete ==
  \A u \in DOMAIN uploads : uploads[u].at = "logged" =>
    \/ uploads[u].read = "full"
    \/ uploads[u].read = "nothing" /\ uploads[u].name \notin FullOnDisk

\* The checkpoint a run that was killed once would resume from is the one it began last, though
\* directories are compared by a time that a second save of the same name does not move.  Only
\* where the kill interrupted a clean-up is it the directory that was just emptied.
Emptied == {n \in DOMAIN disk : disk[n].file = "none"}
ResumeFindsTheNewest ==
  generation <= 1 /\ pc = "train" /\ saving = NoName /\ cfg.resume =>
    IF Emptied = {} THEN resumeFrom = begun ELSE resumeFrom \in Emptied

\* The scheduler is stepped no further than its horizon, except that with a step limit every
\* later epoch adds the one batch it takes to notice it.
SchedulerWithinHorizon ==
  optimizerSteps <= EstimateTotalSteps + IF cfg.max_steps > 0 THEN cfg.num_epochs - 1 ELSE 0

\* main ends, with the work done or an exception, whether or not the uploads ever end.
TrainingEnds == <>(pc \in RunEnded)

\* The checkpoints serve their purpose: the newest are there, a killed run left a complete one,
\* the last is found, what was uploaded is complete, and the scheduler keeps to its horizon.
CheckpointsAreUsable == /\ KeepsTheNewest /\ KilledRunCanResume /\ ResumeFindsTheNewest
                        /\ UploadedIsComplete /\ SchedulerWithinHorizon
=============================================================================
