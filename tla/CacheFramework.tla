--------------------------- MODULE CacheFramework ---------------------------
(***************************************************************************)
(* Cache of cache_framework.py: a store, an order of use and a table of    *)
(* frequencies kept in step under one lock, three eviction policies, lazy  *)
(* expiry, and a timer thread that collects what expired and re-arms       *)
(* itself until the cache is closed.  Values, statistics and listeners are *)
(* left out.  Keys are not empty strings (an empty victim key is skipped   *)
(* by `if victim_key`).  A method that runs under the lock is one step;    *)
(* close and the timer are several.  get_or_set, mget and mset are no      *)
(* actions: they are sequences of gets and sets.                           *)
(***************************************************************************)
EXTENDS Integers, SequencesExt

CONSTANTS CacheKey, MaxSize, DefaultTtl, Ttls, MaxCacheTime, MaxCount
\* A max_size of 0 would keep one entry: _evict finds nothing in an empty store.
ASSUME CacheAssumption == IsFiniteSet(CacheKey) /\ MaxSize \in Nat \ {0} /\ Ttls \cup {DefaultTtl} \subseteq Nat

VARIABLES policy, store, lru, freq, cacheNow, cacheClosed, closePc, timer
cacheVars == <<policy, store, lru, freq, cacheNow, cacheClosed, closePc, timer>>

Forever == 0                          \* expire_at is None
Policies == {"lru", "lfu", "fifo"}

IsExpired(e) == e.expireAt # Forever /\ cacheNow > e.expireAt

\* `time.time() + ttl if ttl else None`: a ttl of 0 means no expiry.
ExpireAt(ttl) == IF ttl = 0 THEN Forever ELSE cacheNow + ttl

\* SelectSeq of the keys that are not in K, with its recursion in sight of the proofs.
Without(s, K) ==
  LET kept[n \in 0..Len(s)] ==
        IF n = 0 THEN <<>> ELSE IF s[n] \in K THEN kept[n - 1] ELSE Append(kept[n - 1], s[n])
  IN  kept[Len(s)]
ToEnd(s, k) == Append(Without(s, {k}), k)
Touched(k) == IF policy = "lru" THEN ToEnd(lru, k) ELSE lru

Drop(f, K) == [k \in DOMAIN f \ K |-> f[k]]
Put(f, k, v) == [x \in DOMAIN f \cup {k} |-> IF x = k THEN v ELSE f[x]]

\* _remove_entry for each key of K: all three structures.
RemoveEntries(K) ==
  /\ store' = Drop(store, K)
  /\ freq' = Drop(freq, K)
  /\ lru' = Without(lru, K)

CacheInit ==
  /\ policy \in Policies
  /\ store = <<>> /\ lru = <<>> /\ freq = <<>>
  /\ cacheNow = 1
  /\ cacheClosed = FALSE /\ closePc = "open"
  /\ timer = "armed"

\* get on an entry that is there and fresh.
Hit(k) ==
  /\ k \in DOMAIN store /\ ~IsExpired(store[k])
  /\ store[k].accessCount < MaxCount
  /\ store' = [store EXCEPT ![k].lastAccess = cacheNow, ![k].accessCount = @ + 1]
  /\ freq' = [freq EXCEPT ![k] = store[k].accessCount + 1]
  /\ lru' = Touched(k)

\* get that raises KeyError: nothing there, or something expired, which goes.
Miss(k) ==
  \/ k \notin DOMAIN store /\ UNCHANGED <<store, lru, freq>>
  \/ k \in DOMAIN store /\ IsExpired(store[k]) /\ RemoveEntries({k})

Get(k) ==
  /\ Hit(k) \/ Miss(k)
  /\ UNCHANGED <<policy, cacheNow, cacheClosed, closePc, timer>>

\* _evict: the first of the dict among those the policy puts last.  Under fifo and lfu the
\* order of use is never touched, so lru is the order of the dict there.
Candidates ==
  CASE policy = "lru"  -> DOMAIN store
    [] policy = "fifo" -> {k \in DOMAIN store : \A x \in DOMAIN store : store[k].createdAt <= store[x].createdAt}
    [] policy = "lfu"  -> {k \in DOMAIN store : \A x \in DOMAIN store : freq[k] <= freq[x]}
VictimIgnoringPolicy == lru[1]
Victim == lru[CHOOSE i \in DOMAIN lru : lru[i] \in Candidates /\ \A j \in 1..(i - 1) : lru[j] \notin Candidates]

NewEntry(ttl) ==
  [createdAt |-> cacheNow, lastAccess |-> cacheNow, accessCount |-> 1, expireAt |-> ExpireAt(ttl)]

\* set on a key that is there: even an expired one keeps its age and its count.
Update(k, ttl) ==
  /\ k \in DOMAIN store
  /\ store' = [store EXCEPT ![k].expireAt = ExpireAt(ttl), ![k].lastAccess = cacheNow]
  /\ lru' = Touched(k)
  /\ UNCHANGED freq

\* set on a new key, after room is made for it.
Add(k, ttl) ==
  LET gone == IF Cardinality(DOMAIN store) >= MaxSize THEN {Victim} ELSE {}
  IN  /\ k \notin DOMAIN store
      /\ store' = Put(Drop(store, gone), k, NewEntry(ttl))
      /\ freq' = Put(Drop(freq, gone), k, 1)
      /\ lru' = Append(Without(lru, gone), k)

Stored(k, ttl) == Update(k, ttl) \/ Add(k, ttl)

Set(k, ttl) ==
  /\ Stored(k, ttl)
  /\ UNCHANGED <<policy, cacheNow, cacheClosed, closePc, timer>>

Delete(k) ==
  /\ k \in DOMAIN store
  /\ RemoveEntries({k})
  /\ UNCHANGED <<policy, cacheNow, cacheClosed, closePc, timer>>

\* expire gives an entry a new deadline, one that has already expired too.
Expire(k, ttl) ==
  /\ k \in DOMAIN store
  /\ store' = [store EXCEPT ![k].expireAt = cacheNow + ttl]
  /\ UNCHANGED <<policy, lru, freq, cacheNow, cacheClosed, closePc, timer>>

\* The timer thread: armed -> cleaning -> (closed?) -> re-arming -> armed.
Cleanup ==
  /\ timer = "armed"
  /\ RemoveEntries({k \in DOMAIN store : IsExpired(store[k])})
  /\ timer' = "cleaned"
  /\ UNCHANGED <<policy, cacheNow, cacheClosed, closePc>>

Rearms == ~cacheClosed
ScheduleCleanup ==
  /\ timer = "cleaned"
  /\ timer' = IF Rearms THEN "rearming" ELSE "stopped"
  /\ UNCHANGED <<policy, store, lru, freq, cacheNow, cacheClosed, closePc>>

StartTimer ==
  /\ timer = "rearming"
  /\ timer' = "armed"
  /\ UNCHANGED <<policy, store, lru, freq, cacheNow, cacheClosed, closePc>>

\* close: the flag, the cancel (which only stops a timer that is waiting), the clear.
CloseFlag ==
  /\ closePc = "open"
  /\ closePc' = "flagged" /\ cacheClosed' = TRUE
  /\ UNCHANGED <<policy, store, lru, freq, cacheNow, timer>>

CloseCancel ==
  /\ closePc = "flagged"
  /\ closePc' = "cancelled"
  /\ timer' = IF timer = "armed" THEN "stopped" ELSE timer
  /\ UNCHANGED <<policy, store, lru, freq, cacheNow, cacheClosed>>

CloseClear ==
  /\ closePc = "cancelled"
  /\ closePc' = "closed"
  /\ RemoveEntries(DOMAIN store)
  /\ UNCHANGED <<policy, cacheNow, cacheClosed, timer>>

CacheTick ==
  /\ cacheNow < MaxCacheTime
  /\ cacheNow' = cacheNow + 1
  /\ UNCHANGED <<policy, store, lru, freq, cacheClosed, closePc, timer>>

TimerThread == Cleanup \/ ScheduleCleanup \/ StartTimer

CacheNext ==
  \/ \E k \in CacheKey : \/ Get(k) \/ Delete(k)
                         \/ \E ttl \in Ttls \cup {DefaultTtl} : Set(k, ttl) \/ Expire(k, ttl)
  \/ TimerThread \/ CloseFlag \/ CloseCancel \/ CloseClear \/ CacheTick

----------------------------------------------------------------------------

\* The store, the order of use and the frequencies hold the same keys, each once, never more
\* than max_size of them: whatever gets, sets, expiries, collections and closes interleave.
StructuresAgree ==
  /\ ToSet(lru) = DOMAIN store /\ DOMAIN freq = DOMAIN store
  /\ Len(lru) = Cardinality(DOMAIN store)
  /\ Cardinality(DOMAIN store) <= MaxSize
  /\ \A k \in DOMAIN store : freq[k] = store[k].accessCount

\* Making room pushes out one entry, only from a full cache, and the one the policy names:
\* not used for longest, used least often, or oldest, by the entries' own time stamps.
EvictsByPolicy ==
  [][\A k \in DOMAIN store : k \notin DOMAIN store' /\ DOMAIN store' \ DOMAIN store # {} =>
        /\ Cardinality(DOMAIN store) = MaxSize
        /\ DOMAIN store \ DOMAIN store' = {k}
        /\ \A x \in DOMAIN store :
             CASE policy = "lru"  -> store[k].lastAccess <= store[x].lastAccess
               [] policy = "lfu"  -> store[k].accessCount <= store[x].accessCount
               [] policy = "fifo" -> store[k].createdAt <= store[x].createdAt]_cacheVars

\* close stops the timer thread, even when it comes while the thread is re-arming itself and
\* the cancel hits the old timer: one more collection, then none.
TimerStopsAfterClose == closePc = "closed" ~> timer = "stopped"
=============================================================================
