--------------------------- MODULE LockScripts ----------------------------
(***************************************************************************)
(* The single-instance lock of dlock_lab/redis_lock.py with its TTL and    *)
(* watchdog threads, in front of the storage of fencing_token.py.  A       *)
(* client of client_task acquires once, works, looks whether it still      *)
(* holds the lock and only then releases it; writes it sends to the        *)
(* storage may arrive at any later time.  The fencing token of a client is *)
(* the number of its acquisition, as the script hands them out.            *)
(***************************************************************************)
EXTENDS Integers, FiniteSets

CONSTANTS RedisClient, None, LeaseTtl, Interval, MaxRedisTime

VARIABLES owner, expiresAt, redisNow, taskPc,
          dogSince,        \* when each watchdog last went to sleep; -1: it does not run
          token, issued,   \* the token of each client (0: none), and the last one issued
          data, maxToken   \* Storage: the client whose value is stored, and its token
redisVars == <<owner, expiresAt, redisNow, taskPc, dogSince, token, issued, data, maxToken>>

RedisInit ==
  /\ owner = None /\ expiresAt = 0
  /\ redisNow = 1
  /\ taskPc = [c \in RedisClient |-> "start"]
  /\ dogSince = [c \in RedisClient |-> -1]
  /\ token = [c \in RedisClient |-> 0] /\ issued = 0
  /\ data = None /\ maxToken = 0

Acquire(c) ==
  /\ owner = None \/ redisNow > expiresAt
  /\ owner' = c
  /\ expiresAt' = redisNow + LeaseTtl

\* client_task with and without --watchdog
StartTask(c) ==
  /\ taskPc[c] = "start"
  /\ \/ /\ Acquire(c)
        /\ issued' = issued + 1
        /\ token' = [token EXCEPT ![c] = issued + 1]
        /\ taskPc' = [taskPc EXCEPT ![c] = "working"]
        /\ \/ dogSince' = [dogSince EXCEPT ![c] = redisNow]
           \/ UNCHANGED dogSince
     \/ /\ owner # None /\ redisNow <= expiresAt
        /\ taskPc' = [taskPc EXCEPT ![c] = "failed"]
        /\ UNCHANGED <<owner, expiresAt, issued, token, dogSince>>
  /\ UNCHANGED <<redisNow, data, maxToken>>

Renew(c) ==
  IF owner = c
  THEN expiresAt' = redisNow + LeaseTtl /\ dogSince' = [dogSince EXCEPT ![c] = redisNow]
  ELSE dogSince' = [dogSince EXCEPT ![c] = -1] /\ UNCHANGED expiresAt

WatchDog(c) ==
  /\ dogSince[c] # -1 /\ redisNow >= dogSince[c] + Interval
  /\ Renew(c)
  /\ UNCHANGED <<owner, redisNow, taskPc, token, issued, data, maxToken>>

\* still_holding is read without the mutex; release comes later and decides for itself.
CheckHolding(c) ==
  /\ taskPc[c] = "working"
  /\ taskPc' = [taskPc EXCEPT ![c] = IF owner = c /\ redisNow < expiresAt THEN "holding" ELSE "lost"]
  /\ UNCHANGED <<owner, expiresAt, redisNow, dogSince, token, issued, data, maxToken>>

ReleaseAny(c) == owner' = None /\ expiresAt' = 0
Release(c) ==
  IF owner = c THEN owner' = None /\ expiresAt' = 0 ELSE UNCHANGED <<owner, expiresAt>>

FinishTask(c) ==
  /\ taskPc[c] = "holding"
  /\ Release(c)
  /\ taskPc' = [taskPc EXCEPT ![c] = "released"]
  /\ UNCHANGED <<redisNow, dogSince, token, issued, data, maxToken>>

StorageWrite(c) ==
  /\ token[c] > 0 /\ token[c] >= maxToken
  /\ maxToken' = token[c]
  /\ data' = c
  /\ UNCHANGED <<owner, expiresAt, redisNow, taskPc, dogSince, token, issued>>

RedisTick ==
  /\ redisNow < MaxRedisTime
  /\ redisNow' = redisNow + 1
  /\ UNCHANGED <<owner, expiresAt, taskPc, dogSince, token, issued, data, maxToken>>

RedisNext ==
  \/ \E c \in RedisClient : StartTask(c) \/ WatchDog(c) \/ CheckHolding(c) \/ FinishTask(c) \/ StorageWrite(c)
  \/ RedisTick
----------------------------------------------------------------------------
\* An unexpired lease is taken away by nobody but its owner: a late release, a watchdog that
\* outlived its client's lease or a competing acquire neither ends nor shortens it, nor moves
\* it to another client.
LeaseRespected ==
  [][(owner # None /\ redisNow <= expiresAt) =>
       \/ owner' = owner /\ expiresAt' >= expiresAt
       \/ owner' = None /\ taskPc[owner] = "holding" /\ taskPc'[owner] = "released"]_redisVars

\* A lease is renewed for its owner only: a watchdog whose client lost the lock to another
\* one does not keep the other's lease alive.
RenewedForOwner ==
  [][(owner # None /\ owner' = owner /\ expiresAt' # expiresAt) => dogSince'[owner] = redisNow]_redisVars

\* The lock and the storage together: once the write of a client has been stored, no write
\* of a client that held the lock before it is, however long it was delayed.
NoStaleOverwrite ==
  [][(data # None /\ data' # data) => token[data'] > token[data]]_redisVars
RedisLockSafe == LeaseRespected /\ RenewedForOwner /\ NoStaleOverwrite
----------------------------------------------------------------------------
(***************************************************************************)
(* The file-system stand-in for ZooKeeper's sequential lock nodes of       *)
(* dlock_lab/zk_lock.py.  A lock file is named by the microsecond at which *)
(* acquire_lock read the clock and by its client, and created only after   *)
(* that; the client whose file sorts first holds the lock, and the others  *)
(* poll for the disappearance of their predecessor.                        *)
(***************************************************************************)
CONSTANTS NumClients, Contention

VARIABLES zkClock, files, zkPc,
          path,     \* the file of each client
          pred,     \* the file each waiting client polls for
          round,
          ahead     \* the earlier files that existed when a client read the clock for its own
zkVars == <<zkClock, files, zkPc, path, pred, round, ahead>>

ZkClient == 1..NumClients
\* The order of the file names: the sequence number, then the client.
Before(f, g) == f.seq < g.seq \/ (f.seq = g.seq /\ f.client < g.client)
NoFile == [seq |-> 0, client |-> 0]

ZkInit ==
  /\ zkClock = 1 /\ files = {}
  /\ zkPc = [c \in ZkClient |-> "start"]
  /\ path = [c \in ZkClient |-> NoFile] /\ pred = [c \in ZkClient |-> NoFile]
  /\ round = [c \in ZkClient |-> 0]
  /\ ahead = [c \in ZkClient |-> {}]

\* int(time.time() * 1000000): two clients may read the same microsecond, one client does
\* not read one twice, for it works in between.
NameFile(c) ==
  /\ zkPc[c] = "start" /\ round[c] < Contention
  /\ \E t \in {zkClock, zkClock + 1} :
       /\ t > path[c].seq
       /\ zkClock' = t
       /\ path' = [path EXCEPT ![c] = [seq |-> t, client |-> c]]
       /\ ahead' = [ahead EXCEPT ![c] = {f \in files : f.seq < t}]
  /\ zkPc' = [zkPc EXCEPT ![c] = "named"]
  /\ UNCHANGED <<files, pred, round>>

CreateFile(c) ==
  /\ zkPc[c] = "named"
  /\ files' = files \cup {path[c]}
  /\ zkPc' = [zkPc EXCEPT ![c] = "listing"]
  /\ UNCHANGED <<zkClock, path, pred, round, ahead>>

Smaller(c) == {f \in files : Before(f, path[c])}
\* Whether the client's index in the sorted list is 0, and the neighbour it waits for else.
AmongTheFirstTwo(c) == Cardinality(Smaller(c)) <= 1
IsFirst(c) == Smaller(c) = {}
WaitedFor(c) == CHOOSE f \in Smaller(c) : \A g \in Smaller(c) : g = f \/ Before(g, f)

ListFiles(c) ==
  /\ zkPc[c] = "listing"
  /\ \/ /\ IsFirst(c)
        /\ zkPc' = [zkPc EXCEPT ![c] = "holding"]
        /\ pred' = [pred EXCEPT ![c] = NoFile]
     \/ /\ ~IsFirst(c)
        /\ pred' = [pred EXCEPT ![c] = WaitedFor(c)]
        /\ zkPc' = [zkPc EXCEPT ![c] = "waiting"]
  /\ UNCHANGED <<zkClock, files, path, round, ahead>>

PredecessorGone(c) ==
  /\ zkPc[c] = "waiting" /\ pred[c] \notin files
  /\ zkPc' = [zkPc EXCEPT ![c] = "listing"]
  /\ UNCHANGED <<zkClock, files, path, pred, round, ahead>>

ReleaseLock(c) ==
  /\ zkPc[c] = "holding"
  /\ files' = files \ {path[c]}
  /\ round' = [round EXCEPT ![c] = @ + 1]
  /\ pred' = [pred EXCEPT ![c] = NoFile]
  /\ ahead' = [ahead EXCEPT ![c] = {}]
  /\ zkPc' = [zkPc EXCEPT ![c] = "start"]
  /\ UNCHANGED <<zkClock, path>>

ZkStep(c) ==
  NameFile(c) \/ CreateFile(c) \/ ListFiles(c) \/ PredecessorGone(c) \/ ReleaseLock(c)
ZkNext == \E c \in ZkClient : ZkStep(c)

----------------------------------------------------------------------------
\* The lock is served in creation order: whoever holds it has no file in front of it that
\* existed when it read the clock, microseconds apart.  (It says nothing of a client that read the clock
\* earlier and creates its file later: that one may come to hold the lock at the same time.)
FirstComeFirstServed ==
  \A c \in ZkClient : zkPc[c] = "holding" => ahead[c] \cap files = {}

\* Where every client gets to unless it waits for a file that stays: through all its rounds.
AllRoundsDone == \A c \in ZkClient : round[c] = Contention
----------------------------------------------------------------------------
(***************************************************************************)
(* The RedLock of dlock_lab/redlock_sim.py: one attempt per client, which  *)
(* asks the nodes one after the other, each after its latency, counts the  *)
(* successes and lets go of what it got when they are too few or came too  *)
(* late.  Attempts of several clients overlap.                             *)
(***************************************************************************)
CONSTANTS RedlockClient, NoOne, NumNodes, Quorum, RedlockTtl, MaxRedlockTime

VARIABLES redlockNow,
          locks,       \* FakeRedis.locks[key] of each node; owner NoOne: no entry
          attempt, nextNode, t1,
          lockedNodes
redlockVars == <<redlockNow, locks, attempt, nextNode, t1, lockedNodes>>

Node == 1..NumNodes

Unlocked == [owner |-> NoOne, expires |-> 0]

RedlockInit ==
  /\ redlockNow = 1
  /\ locks = [n \in Node |-> Unlocked]
  /\ attempt = [c \in RedlockClient |-> "start"]
  /\ nextNode = [c \in RedlockClient |-> 1]
  /\ t1 = [c \in RedlockClient |-> 0]
  /\ lockedNodes = [c \in RedlockClient |-> {}]

Start(c) ==
  /\ attempt[c] = "start"
  /\ t1' = [t1 EXCEPT ![c] = redlockNow]
  /\ attempt' = [attempt EXCEPT ![c] = "asking"]
  /\ UNCHANGED <<redlockNow, locks, nextNode, lockedNodes>>

\* key not in self.locks or now > expires_at
FreeEarly(n) == locks[n] = Unlocked \/ redlockNow + 1 >= locks[n].expires
Free(n) == locks[n] = Unlocked \/ redlockNow > locks[n].expires

TryLock(c) ==
  /\ attempt[c] = "asking" /\ nextNode[c] <= NumNodes
  /\ nextNode' = [nextNode EXCEPT ![c] = @ + 1]
  /\ LET n == nextNode[c]
     IN  \/ /\ Free(n)
            /\ locks' = [locks EXCEPT ![n] = [owner |-> c, expires |-> redlockNow + RedlockTtl]]
            /\ lockedNodes' = [lockedNodes EXCEPT ![c] = @ \cup {n}]
         \/ /\ ~Free(n)
            /\ UNCHANGED <<locks, lockedNodes>>
  /\ UNCHANGED <<redlockNow, attempt, t1>>

Succeed(c) ==
  /\ attempt[c] = "asking" /\ nextNode[c] > NumNodes
  /\ Cardinality(lockedNodes[c]) >= Quorum
  /\ RedlockTtl - (redlockNow - t1[c]) > 0
  /\ attempt' = [attempt EXCEPT ![c] = "locked"]
  /\ UNCHANGED <<redlockNow, locks, nextNode, t1, lockedNodes>>

Fail(c) ==
  /\ attempt[c] = "asking" /\ nextNode[c] > NumNodes
  /\ \/ Cardinality(lockedNodes[c]) < Quorum
     \/ RedlockTtl - (redlockNow - t1[c]) <= 0
  /\ attempt' = [attempt EXCEPT ![c] = "failed"]
  /\ UNCHANGED <<redlockNow, locks, nextNode, t1, lockedNodes>>

\* unlock deletes the entry only when the node still holds it for this owner.
Unlock(c, n) ==
  /\ attempt[c] = "failed" /\ n \in lockedNodes[c]
  /\ lockedNodes' = [lockedNodes EXCEPT ![c] = @ \ {n}]
  /\ locks' = IF locks[n].owner = c THEN [locks EXCEPT ![n] = Unlocked] ELSE locks
  /\ UNCHANGED <<redlockNow, attempt, nextNode, t1>>

RedlockTick ==
  /\ redlockNow < MaxRedlockTime
  /\ redlockNow' = redlockNow + 1
  /\ UNCHANGED <<locks, attempt, nextNode, t1, lockedNodes>>

RedlockNext ==
  \/ RedlockTick
  \/ \E c \in RedlockClient : \/ Start(c) \/ TryLock(c) \/ Succeed(c) \/ Fail(c)
                       \/ \E n \in Node : Unlock(c, n)

RedlockSpec == RedlockInit /\ [][RedlockNext]_redlockVars
----------------------------------------------------------------------------
RedlockTypeOK ==
  /\ redlockNow \in Nat
  /\ locks \in [Node -> [owner : RedlockClient \cup {NoOne}, expires : Nat]]
  /\ attempt \in [RedlockClient -> {"start", "asking", "locked", "failed"}]
  /\ nextNode \in [RedlockClient -> Nat \ {0}]
  /\ t1 \in [RedlockClient -> Nat]
  /\ lockedNodes \in [RedlockClient -> SUBSET Node]

\* The client was told that it has the lock, and valid_time has not run out.
Holds(c) == attempt[c] = "locked" /\ redlockNow < t1[c] + RedlockTtl

\* What a client got on a node stays its own until t1 + Ttl at least: an entry is only
\* replaced after its expiry, which is not before that.
NodesAreKept ==
  \A c \in RedlockClient : \A n \in lockedNodes[c] :
    /\ attempt[c] # "start"
    /\ redlockNow <= t1[c] + RedlockTtl => locks[n].owner = c /\ locks[n].expires >= t1[c] + RedlockTtl

\* With a quorum of more than half of the nodes, two clients never hold the lock at the same
\* time: neither overlapping attempts, nor expiring entries, nor the unlocking of a failed
\* attempt let a second one through while the first one's validity lasts.
RedlockMutex == \A c, d \in RedlockClient : Holds(c) /\ Holds(d) => c = d
=============================================================================
