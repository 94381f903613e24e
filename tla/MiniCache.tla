----------------------------- MODULE MiniCache -----------------------------
(***************************************************************************)
(* The two small TTL caches, chosen by mini: MiniCacheTTL of Python, an    *)
(* ordered dict, and Cache of Go, a map and a list.  Both hold one lock    *)
(* and have a cleanup thread that is free to run late.  set and the thread *)
(* read the clock before they take the lock: what set stores may be older  *)
(* than its deadline says, and the thread may be late.                     *)
(***************************************************************************)
EXTENDS Integers, SequencesExt

CONSTANTS MiniKey, MaxMiniTime, Setter,
          MiniSizes,    \* the sizes a cache may be given, NoSize for max_size=None
          MiniTtl,      \* the default ttl
          MiniTtls      \* the ttls given to set: Go takes 0 for the default, less for none
\* A ttl may be negative, the default not.
NoSize == -1
ASSUME MiniAssumption == MiniSizes \subseteq Nat \cup {NoSize} /\ MiniTtl \in Nat /\ MiniTtls \subseteq Int

VARIABLES mini,
          miniDefault,  \* 0 in Go: no default, no cleanup thread and no expiry
          miniSize,     \* 0 in Go: no limit, as None in Python
          order,        \* the keys, the least recently used first
          deadline,     \* the entries: key -> expires
          miniNow,
          setting,      \* threads between the clock and the lock of set -> [key, expires]
          stopped,
          cleaner,      \* where the cleanup thread is
          cleanerNow    \* when it read the clock
miniVars == <<mini, miniDefault, miniSize, order, deadline, miniNow, setting, stopped, cleaner, cleanerNow>>
miniCleaner == <<mini, miniDefault, miniSize, cleaner, cleanerNow>>

MiniInit ==
  /\ mini \in {"python", "go"} /\ miniDefault \in {MiniTtl} \cup (IF mini = "go" THEN {0} ELSE {})
  /\ miniSize \in MiniSizes
  /\ order = <<>> /\ deadline = <<>> /\ miniNow = 0 /\ setting = <<>>
  /\ stopped = FALSE /\ cleanerNow = 0
  \* Go needs a default, and WithCleanupInterval(0) turns the thread off.
  /\ cleaner \in (IF mini = "python" \/ miniDefault > 0 THEN {"waiting"} ELSE {})
                 \cup (IF mini = "go" THEN {"none"} ELSE {})

Only(f, K) == [k \in K |-> f[k]]
Others(K) ==
  LET kept[n \in 0..Len(order)] ==
        IF n = 0 THEN <<>> ELSE IF order[n] \in K THEN kept[n - 1] ELSE Append(kept[n - 1], order[n])
  IN  kept[Len(order)]
Last2End(k) == Append(Others({k}), k)

\* delete, and the lazy expiry of get.
MiniRemove(K) ==
  /\ order' = Others(K)
  /\ deadline' = Only(deadline, DOMAIN deadline \ K)

\* Go asks for its default first, and ZeroTime is long ago.
HasPassed(k, now) == (mini = "go" => miniDefault > 0) /\ now > deadline[k]
MiniGet(k) ==
  /\ k \in DOMAIN deadline
  /\ IF HasPassed(k, miniNow) THEN MiniRemove({k})
     ELSE order' = Last2End(k) /\ UNCHANGED deadline
  /\ UNCHANGED <<miniNow, setting, stopped, miniCleaner>>

MiniDelete(k) ==
  /\ k \in DOMAIN deadline
  /\ MiniRemove({k})
  /\ UNCHANGED <<miniNow, setting, stopped, miniCleaner>>

\* The deadline of an entry: Go leaves the zero time where no ttl is given or it is negative.
ZeroTime == -1
Deadline(ttl) ==
  IF mini = "python" \/ ttl > 0 THEN miniNow + ttl
  ELSE IF ttl = 0 /\ miniDefault > 0 THEN miniNow + miniDefault ELSE ZeroTime
MiniSetClock(s, k) ==
  /\ s \notin DOMAIN setting
  /\ \E ttl \in {miniDefault} \cup MiniTtls :
       setting' = [x \in DOMAIN setting \cup {s} |-> IF x = s THEN [key |-> k, expires |-> Deadline(ttl)] ELSE setting[x]]
  /\ UNCHANGED <<order, deadline, miniNow, stopped, miniCleaner>>

\* The write, the move to the end, and popitem(last=False) when it is one too many.
Limited == miniSize # NoSize /\ (mini = "go" => miniSize > 0)
Kept(s) == IF Limited /\ Len(s) > miniSize THEN Tail(s) ELSE s
MiniSetStore(s) ==
  /\ s \in DOMAIN setting
  /\ LET k == setting[s].key
     IN  /\ order' = Kept(Last2End(k))
         /\ deadline' = [x \in ToSet(Kept(Last2End(k))) |->
                           IF x = k THEN setting[s].expires ELSE deadline[x]]
  /\ setting' = Only(setting, DOMAIN setting \ {s})
  /\ UNCHANGED <<miniNow, stopped, miniCleaner>>

\* stop; Go's Stop closes a channel, which a second call would not survive, and then waits.
StopCleanup ==
  /\ ~stopped /\ stopped' = TRUE
  /\ UNCHANGED <<order, deadline, miniNow, setting, miniCleaner>>

\* The interval is over.  Once stopped, Go's select may still take a tick, if one has come.
CleanerWakes ==
  /\ cleaner = "waiting" /\ (stopped => mini = "go" /\ cleanerNow < miniNow)
  /\ cleaner' = "awake" /\ cleanerNow' = miniNow
  /\ UNCHANGED <<mini, miniDefault, miniSize, order, deadline, miniNow, setting, stopped>>

CleanerSweeps ==
  /\ cleaner = "awake" /\ cleaner' = "waiting"
  /\ MiniRemove({k \in DOMAIN deadline : HasPassed(k, cleanerNow)})
  /\ UNCHANGED <<mini, miniDefault, miniSize, miniNow, setting, stopped, cleanerNow>>

CleanerEnds ==
  /\ cleaner = "waiting" /\ stopped /\ cleaner' = "ended"
  /\ UNCHANGED <<mini, miniDefault, miniSize, order, deadline, miniNow, setting, stopped, cleanerNow>>
Cleaner == CleanerWakes \/ CleanerSweeps \/ CleanerEnds

MiniTick == miniNow < MaxMiniTime /\ miniNow' = miniNow + 1
            /\ UNCHANGED <<order, deadline, setting, stopped, miniCleaner>>

MiniNext ==
  \/ \E k \in MiniKey : MiniGet(k) \/ MiniDelete(k) \/ \E s \in Setter : MiniSetClock(s, k)
  \/ \E s \in Setter : MiniSetStore(s)
  \/ StopCleanup \/ Cleaner \/ MiniTick
----------------------------------------------------------------------------
\* An entry past its deadline leaves, gets a new one, or the cache has been stopped: nobody
\* need call get, and an entry stored already expired is collected as well, unless the cleanup
\* was turned off.  A stopped cache is left without its thread, which is what Go's Stop waits for.
ExpiredIsCollected ==
  /\ \A k \in MiniKey :
       LET overdue == k \in DOMAIN deadline /\ HasPassed(k, miniNow)
       IN  overdue ~> ~overdue \/ stopped \/ cleaner = "none"
  /\ stopped ~> cleaner \in {"ended", "none"}

\* The map and the list have the same keys, each once, and no more than fit where there is a limit.
MapMatchesList ==
  /\ IsInjective(order) /\ ToSet(order) = DOMAIN deadline
  /\ Limited => Len(order) <= miniSize
=============================================================================
