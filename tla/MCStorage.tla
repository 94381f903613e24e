----------------------------- MODULE MCStorage -----------------------------
(***************************************************************************)
(* What keeps things and throws them away, for model checking: the caches  *)
(* and the trainer with its checkpoints.  The initial state chooses which  *)
(* program runs; the others stay where they start.                         *)
(***************************************************************************)
EXTENDS LruCache, CacheFramework, MiniCache, Memoize, Trainer

VARIABLE program

vars == <<lruVars, cacheVars, miniVars, memoVars, trainerVars, program>>

\* Every stage, with and without a step limit, over two epochs.
Config(stage, max_steps, save_steps, upload) ==
  [stage |-> stage, backend |-> "ddp", max_steps |-> max_steps, num_epochs |-> 2, save_steps |-> save_steps,
   accumulation |-> 1, upload |-> upload, resume |-> max_steps <= 0, weave |-> TRUE]
MCConfigs == {Config("unknown", 3, 1, "async"), Config("posttrain", 3, 1, "async"),
              Config("dpo", 3, 1, "async"), Config("dpo", 1, 1, "none"), Config("pretrain", -1, 1, "none"),
              [Config("sft", -1, 2, "none") EXCEPT !.accumulation = 3],
              [Config("sft", -1, 1, "sync") EXCEPT !.accumulation = 2],
              [Config("pretrain", 3, 1, "none") EXCEPT !.backend = "megatron"]}

\* A ttl that has passed already; the default is tried anyway.  A size of 0 is no room in Python
\* and no limit in Go.
MCMiniTtls == {-1}
MCMiniSizes == {0, 1}

Init ==
  /\ program \in {"lru_cache", "cache_framework", "mini_cache_ttl", "memoize", "trainer"}
  /\ LruInit /\ MiniInit /\ (program # "mini_cache_ttl" => mini = "go" /\ miniDefault = 0 /\ miniSize = 0)
  /\ CacheInit /\ (program # "cache_framework" => policy = "lru")
  /\ MemoInit /\ (program # "memoize" => \A t \in MemoThread : asked[t] = 0)
  /\ TrainerInit /\ (program # "trainer" => cfg = Config("dpo", 3, 1, "async") /\ limit = NoLimit)

Next ==
  /\ UNCHANGED program
  /\ \/ program = "lru_cache" /\ LruNext /\ UNCHANGED <<cacheVars, miniVars, memoVars, trainerVars>>
     \/ program = "cache_framework" /\ CacheNext /\ UNCHANGED <<lruVars, miniVars, memoVars, trainerVars>>
     \/ program = "mini_cache_ttl" /\ MiniNext /\ UNCHANGED <<lruVars, cacheVars, memoVars, trainerVars>>
     \/ program = "memoize" /\ MemoNext /\ UNCHANGED <<lruVars, cacheVars, miniVars, trainerVars>>
     \/ program = "trainer" /\ TrainerNext /\ UNCHANGED <<lruVars, cacheVars, miniVars, memoVars>>

\* The timer thread, the cleanup thread and the callers are threads of their own, in the
\* program they belong to; a killed training run is started again.
Spec == /\ Init /\ [][Next]_vars
        /\ WF_cacheVars(program = "cache_framework" /\ TimerThread)
        /\ WF_miniVars(program = "mini_cache_ttl" /\ Cleaner)
        /\ \A t \in MemoThread : WF_memoVars(program = "memoize" /\ CallStep(t))
        /\ WF_trainerVars(program = "trainer" /\ (MainThread \/ Restart))

\* Nothing hangs and nothing is forgotten: the memoized calls of several threads return, a closed
\* cache is left without a timer, the cleanup thread collects what expired, and a training run
\* ends, killed and started again or not.
StorageSettles ==
  /\ program = "memoize" => MemoizedCallsReturn
  /\ TimerStopsAfterClose
  /\ ExpiredIsCollected
  /\ program = "trainer" => TrainingEnds

\* What is stored is what was meant to be: the three structures of a cache agree, the linked list
\* and the dict of the LRU cache too, and the checkpoints on disk and uploaded are usable.
StorageIsConsistent == StructuresAgree /\ ListMatchesDict /\ MapMatchesList /\ CheckpointsAreUsable
=============================================================================
