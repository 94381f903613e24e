------------------------------ MODULE LruCache ------------------------------
(***************************************************************************)
(* LRUCache of lru_cache.py: a dict from keys to the nodes of a doubly     *)
(* linked list between two sentinels, the most recently used at the head.  *)
(* A node is named by its key: the dict holds at most one node per key and *)
(* an unlinked node is garbage.  Values are left out.                      *)
(***************************************************************************)
EXTENDS Integers, SequencesExt

CONSTANTS LruKey, LruCapacity, LruHead, LruTail
\* __init__ raises for a capacity that is not positive; the sentinels hold no key.
ASSUME LruAssumption ==
  /\ IsFiniteSet(LruKey) /\ LruCapacity \in Nat \ {0}
  /\ LruHead \notin LruKey /\ LruTail \notin LruKey /\ LruHead # LruTail

VARIABLES cache,   \* the keys of the dict
          links    \* prev and next of every node
lruVars == <<cache, links>>

LruNode == LruKey \cup {LruHead, LruTail}

LruInit ==
  /\ cache = {}
  /\ links = [next |-> [n \in LruNode |-> IF n = LruHead THEN LruTail ELSE n],
              prev |-> [n \in LruNode |-> IF n = LruTail THEN LruHead ELSE n]]

AddToHead(l, n) ==
  LET first == l.next[LruHead]
  IN  [next |-> [l.next EXCEPT ![n] = first, ![LruHead] = n],
       prev |-> [l.prev EXCEPT ![n] = LruHead, ![first] = n]]

UnlinkForwardOnly(l, n) == [l EXCEPT !.next[l.prev[n]] = l.next[n]]
Unlink(l, n) == [l EXCEPT !.next[l.prev[n]] = l.next[n], !.prev[l.next[n]] = l.prev[n]]

MoveToHead(l, n) == AddToHead(Unlink(l, n), n)

LruGet(k) ==
  /\ k \in cache
  /\ links' = MoveToHead(links, k)
  /\ UNCHANGED cache

LruPut(k) ==
  \/ /\ k \in cache
     /\ links' = MoveToHead(links, k)
     /\ UNCHANGED cache
  \/ /\ k \notin cache
     /\ LET added == AddToHead(links, k)
            oldest == added.prev[LruTail]
        IN  IF Cardinality(cache \cup {k}) > LruCapacity
            THEN /\ links' = Unlink(added, oldest)
                 /\ cache' = (cache \cup {k}) \ {oldest}
            ELSE /\ links' = added
                 /\ cache' = cache \cup {k}

LruNext == \E k \in LruKey : LruGet(k) \/ LruPut(k)
----------------------------------------------------------------------------
\* __iter__: the keys from the head to the tail.  The walk is cut after as many nodes as
\* there are keys, so that it ends on a broken list too.
Walk(l) ==
  LET at[i \in 0..Cardinality(LruKey)] ==
        IF i = 0 THEN l.next[LruHead] ELSE IF at[i - 1] = LruTail THEN LruTail ELSE l.next[at[i - 1]]
      steps == {i \in 1..Cardinality(LruKey) : at[i - 1] # LruTail}
  IN  [i \in 1..Cardinality(steps) |-> at[i - 1]]
Iterated == Walk(links)

\* The linked list behaves as an order of use: each get and put moves one key to the front,
\* a put beyond the capacity drops exactly the key used longest ago, and walking the list
\* finds every key of the dict once.
Order == INSTANCE LruOrder WITH Keys <- LruKey, Capacity <- LruCapacity, recency <- Iterated
ImplementsLru == Order!OrderSpec

\* The two directions of the list agree and the walk finds the keys of the dict.
ListMatchesDict ==
  /\ ToSet(Iterated) = cache
  /\ \A n \in cache : links.prev[links.next[n]] = n /\ links.next[links.prev[n]] = n
=============================================================================
