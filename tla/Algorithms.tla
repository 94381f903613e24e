----------------------------- MODULE Algorithms -----------------------------
(***************************************************************************)
(* The hand-written structures and functions of the Python exercises: the  *)
(* minimum stack and the trie as the calls made on them, the searches of a *)
(* graph and the topological sort as the turns of their loops, deep_copy   *)
(* and the functions over a list as functions of their input.              *)
(***************************************************************************)
EXTENDS Integers, SequencesExt, FiniteSetsExt

CONSTANTS MaxValue, MaxLen,         \* the values 1..MaxValue, the longest stack and list
          Char, MaxWordLen, MaxWords,
          NumVertices, MaxNeighbours, MaxEdges,
          NumObjects, MaxItems

VARIABLES minStack, pushed,         \* <<value, minimum>> pairs; the values alone
          trie, inserted,           \* path -> node; the words given to insert
          graph, method, goal,      \* method: which function runs
          frontier, visited, yielded, inDegree, found,
          heap, copied,             \* the objects; what deep_copy of object 1 made
          items, nested,
          iterator,             \* "zip", "strict_zip", "chain", "enumerate" or "range"
          lengths, startAt,
          range,                \* [start, stop, step]
          takenFrom,            \* how many elements were taken from each iterable
          inner,                \* chain: the iterable it is in, 0 for none
          opened,               \* chain: how many it has asked the outer iterator for
          given, ended          \* ended: "no", "stopped" or "raised"
stackVars == <<minStack, pushed>>
trieVars == <<trie, inserted>>
graphVars == <<graph, method, goal, frontier, visited, yielded, inDegree, found>>
copyVars == <<heap, copied>>
iterVars == <<iterator, lengths, startAt, range, takenFrom, inner, opened, given, ended>>
algorithmVars == <<iterVars, stackVars, trieVars, graphVars, copyVars, items, nested>>

Number == 1..MaxValue
----------------------------------------------------------------------------
(* min_stack.py *)

Push(v) ==
  /\ Len(minStack) < MaxLen
  /\ LET least == IF minStack = <<>> \/ v < Last(minStack)[2] THEN v ELSE Last(minStack)[2]
     IN  minStack' = Append(minStack, <<v, least>>)
  /\ pushed' = Append(pushed, v)

Pop == minStack # <<>> /\ minStack' = Front(minStack) /\ pushed' = Front(pushed)

GetMin == Last(minStack)[2]
StackStep == Pop \/ \E v \in Number : Push(v)
----------------------------------------------------------------------------
(* trie.py: a node is named by its path, children keep the order of insertion. *)

Word == BoundedSeq(Char, MaxWordLen)
NewNode == [children |-> <<>>, isEnd |-> FALSE]

\* node.children.setdefault(char, TrieNode())
WithChild(t, path, c) ==
  IF c \in ToSet(t[path].children) THEN t
  ELSE [p \in DOMAIN t \cup {Append(path, c)} |->
          IF p = path THEN [t[p] EXCEPT !.children = Append(@, c)]
          ELSE IF p \in DOMAIN t THEN t[p] ELSE NewNode]

Insert(word) ==
  LET walk[n \in 0..Len(word)] ==
        IF n = 0 THEN trie ELSE WithChild(walk[n - 1], SubSeq(word, 1, n - 1), word[n])
  IN  /\ Cardinality(inserted) < MaxWords
      /\ trie' = [walk[Len(word)] EXCEPT ![word].isEnd = TRUE]
      /\ inserted' = inserted \cup {word}

Find(word) ==
  \A n \in DOMAIN word : LET at == SubSeq(word, 1, n - 1)
                         IN  at \in DOMAIN trie /\ word[n] \in ToSet(trie[at].children)
Search(word) == Find(word) /\ trie[word].isEnd

RECURSIVE Collect(_)
Collect(path) ==
  (IF trie[path].isEnd THEN <<path>> ELSE <<>>)
  \o FlattenSeq([n \in DOMAIN trie[path].children |-> Collect(Append(path, trie[path].children[n]))])
Autocomplete(prefix) == IF Find(prefix) THEN Collect(prefix) ELSE <<>>
----------------------------------------------------------------------------
(* graph_search.py, topological_sort.py: a vertex may be missing from the mapping. *)

Vertex == 1..NumVertices
Mappings ==
  {g \in UNION {[D -> BoundedSeq(Vertex, MaxNeighbours)] : D \in SUBSET Vertex} :
     MapThenSumSet(LAMBDA v : Len(g[v]), DOMAIN g) <= MaxEdges}
Neighbours(v) == IF v \in DOMAIN graph THEN graph[v] ELSE <<>>

\* visited.add and append, one neighbour after the other.
Unvisited(s) ==
  FoldLeft(LAMBDA acc, v : IF v \in visited \/ v \in ToSet(acc) THEN acc ELSE Append(acc, v), <<>>, s)

Bfs ==
  /\ method = "bfs" /\ frontier # <<>>
  /\ LET node == Head(frontier)
         fresh == Unvisited(Neighbours(node))
     IN  /\ yielded' = Append(yielded, node)
         /\ visited' = visited \cup ToSet(fresh)
         /\ frontier' = Tail(frontier) \o fresh
  /\ UNCHANGED <<graph, method, goal, inDegree, found>>

Dfs ==
  /\ method = "dfs" /\ frontier # <<>>
  /\ LET node == Last(frontier)
     IN  IF node \in visited
         THEN frontier' = Front(frontier) /\ UNCHANGED <<visited, yielded>>
         ELSE /\ visited' = visited \cup {node}
              /\ yielded' = Append(yielded, node)
              /\ frontier' = Front(frontier) \o SelectSeq(Reverse(Neighbours(node)), LAMBDA v : v \notin visited')
  /\ UNCHANGED <<graph, method, goal, inDegree, found>>

\* The queue of shortest_path holds the path with the node.
ShortestPath ==
  /\ method = "shortest_path" /\ frontier # <<>> /\ found = <<>>
  /\ LET path == Head(frontier)
         fresh == Unvisited(Neighbours(Last(path)))
     IN  IF goal \in ToSet(fresh)
         THEN found' = Append(path, goal) /\ UNCHANGED <<frontier, visited>>
         ELSE /\ visited' = visited \cup ToSet(fresh)
              /\ frontier' = Tail(frontier) \o [n \in DOMAIN fresh |-> Append(path, fresh[n])]
              /\ UNCHANGED found
  /\ UNCHANGED <<graph, method, goal, yielded, inDegree>>

Mentioned(g) == DOMAIN g \cup UNION {ToSet(g[v]) : v \in DOMAIN g}
InDegrees(g) ==
  [v \in Mentioned(g) |-> MapThenSumSet(LAMBDA u : Len(SelectSeq(g[u], LAMBDA w : w = v)), DOMAIN g)]
\* in_degree[neighbor] -= 1, and into the queue at zero.
Released(degrees, s) ==
  FoldLeft(LAMBDA acc, v : LET left == [acc.degrees EXCEPT ![v] = @ - 1]
                           IN  [degrees |-> left, free |-> IF left[v] = 0 THEN Append(acc.free, v) ELSE acc.free],
           [degrees |-> degrees, free |-> <<>>], s)

TopologicalSort ==
  /\ method = "topological_sort" /\ frontier # <<>>
  /\ LET after == Released(inDegree, Neighbours(Head(frontier)))
     IN  /\ inDegree' = after.degrees
         /\ frontier' = Tail(frontier) \o after.free
  /\ yielded' = Append(yielded, Head(frontier))
  /\ UNCHANGED <<graph, method, goal, visited, found>>
GraphStep == Bfs \/ Dfs \/ ShortestPath \/ TopologicalSort
----------------------------------------------------------------------------
(* deep_copy.py: an object is a container (list, dict, set, instance), whose copy goes into the
   memo before its items are copied, or a tuple, whose copy goes in after.  Item 0 stands for
   everything that is returned as it is. *)

Object == 1..NumObjects
Heaps == [Object -> [kind : {"container", "tuple"}, items : BoundedSeq(0..NumObjects, MaxItems)]]
\* A tuple is built after its items: none contains itself through tuples alone.
Possible(h) ==
  \E age \in [Object -> Object] :
    \A x, y \in Object : h[x].kind = "tuple" /\ h[y].kind = "tuple" /\ y \in ToSet(h[x].items) => age[x] < age[y]

At0(f, x, y) == [z \in DOMAIN f \cup {x} |-> IF z = x THEN y ELSE f[z]]
RECURSIVE DeepCopied(_, _)
DeepCopied(x, st) ==
  LET obj == heap[x]
      Items(st0) ==
        FoldLeft(LAMBDA acc, y : LET one == DeepCopied(y, acc.st)
                                 IN  [st |-> one.st, refs |-> Append(acc.refs, one.ref)],
                 [st |-> st0, refs |-> <<>>], obj.items)
      fresh == Len(st.made) + 1
      begun == [made |-> Append(st.made, [kind |-> obj.kind, of |-> x, items |-> <<>>]),
                memo |-> At0(st.memo, x, fresh)]
  IN  IF x = 0 THEN [ref |-> 0, st |-> st]
      ELSE IF x \in DOMAIN st.memo THEN [ref |-> st.memo[x], st |-> st]
      ELSE IF obj.kind = "container"
      THEN LET done == Items(begun)
           IN  [ref |-> fresh, st |-> [done.st EXCEPT !.made[fresh].items = done.refs]]
      ELSE LET done == Items(st)
               n == Len(done.st.made) + 1
           IN  [ref |-> n,
                st |-> [made |-> Append(done.st.made, [kind |-> "tuple", of |-> x, items |-> done.refs]),
                        memo |-> At0(done.st.memo, x, n)]]

DeepCopy ==
  /\ copied = <<>>
  /\ LET c == DeepCopied(1, [made |-> <<>>, memo |-> <<>>]) IN copied' = [ref |-> c.ref, made |-> c.st.made]
  /\ UNCHANGED heap
----------------------------------------------------------------------------
(* binary_search.py over the sorted list; top_k.py, chunk.py, dedup.py, group_by.py, flatten.py *)

Ascending(s) == SortSeq(s, LAMBDA a, b : a < b)

BinarySearch(arr, target) ==
  LET from[left \in 1..Len(arr) + 1, right \in 0..Len(arr)] ==
        LET mid == (left + right) \div 2
        IN  IF left > right THEN -1
            ELSE IF arr[mid] = target THEN mid
            ELSE IF arr[mid] < target THEN from[mid + 1, right] ELSE from[left, mid - 1]
  IN  from[1, Len(arr)]

\* The loop of both bounds, which differ in where a value equal to the target sends it.
Bound(arr, target, equalGoesRight) ==
  LET from[left \in 0..Len(arr), right \in 0..Len(arr)] ==
        LET mid == (left + right) \div 2
        IN  IF left >= right THEN left
            ELSE IF arr[mid + 1] < target \/ (equalGoesRight /\ arr[mid + 1] = target)
                 THEN from[mid + 1, right] ELSE from[left, mid]
  IN  from[0, Len(arr)]
LowerBound(arr, target) == Bound(arr, target, FALSE)
UpperBound(arr, target) == Bound(arr, target, TRUE)

\* The heap as its sorted contents: heap[0] is the first.
TopK(s, k) ==
  FoldLeft(LAMBDA h, v : IF Len(h) < k THEN Ascending(Append(h, v))
                         ELSE IF k > 0 /\ v > Head(h) THEN Ascending(Append(Tail(h), v)) ELSE h, <<>>, s)

\* fill 0: None
Chunk(s, size, fill) ==
  LET batches == (Len(s) + size - 1) \div size
      Batch(n) == SubSeq(s, (n - 1) * size + 1, n * size)
      Padded(b) == IF fill = 0 THEN b ELSE b \o [n \in 1..(size - Len(b)) |-> fill]
  IN  [n \in 1..batches |-> IF n < batches THEN Batch(n)
                            ELSE Padded(SubSeq(s, (n - 1) * size + 1, Len(s)))]

\* key: a function, as the argument of that name is.
Dedup(s, key) ==
  FoldLeft(LAMBDA acc, v : IF \E n \in DOMAIN acc : key[acc[n]] = key[v] THEN acc ELSE Append(acc, v), <<>>, s)

GroupBy(s, key) ==
  FoldLeft(LAMBDA groups, v :
             At0(groups, key[v], IF key[v] \in DOMAIN groups THEN Append(groups[key[v]], v) ELSE <<v>>), <<>>, s)

\* A nested value is a leaf or a list of nested values; maxDepth -1: None.
Leaf == [list |-> FALSE]
ListOf(s) == [list |-> TRUE, of |-> s]
RECURSIVE FlattenInto(_, _, _)
FlattenInto(x, depth, maxDepth) ==
  IF (maxDepth # -1 /\ depth >= maxDepth) \/ ~x.list THEN <<x>>
  ELSE FlattenSeq([n \in DOMAIN x.of |-> FlattenInto(x.of[n], depth + 1, maxDepth)])
Flatten(s, maxDepth) == FlattenSeq([n \in DOMAIN s |-> FlattenInto(s[n], 0, maxDepth)])

ListStep == Len(items) < MaxLen /\ \E v \in Number : items' = Append(items, v)
NestStep ==
  \/ Len(nested) < MaxItems /\ nested' = Append(nested, Leaf)
  \/ Len(nested) < MaxItems /\ nested' = Append(nested, ListOf(<<>>))
  \/ nested # <<>> /\ Len(nested) + Len(Flatten(nested, -1)) <= MaxLen /\ nested' = <<ListOf(nested), Leaf>>
----------------------------------------------------------------------------
(***************************************************************************)
(* The iterators, lazily, one call of next at a time: zip.py (strict or    *)
(* not), chain.py and enumerate.py over iterables of given lengths, an     *)
(* element being named by its iterable and its place in it; and range.py.  *)
(***************************************************************************)

Lengths == UNION {[1..n -> 0..MaxItems] : n \in 0..3}
HasNext(k) == takenFrom[k] < lengths[k]
Take(k) == [takenFrom EXCEPT ![k] = @ + 1]

\* Every iterable is asked, also after one of them was exhausted; what the others gave is lost.
ZipNext ==
  /\ takenFrom' = [k \in DOMAIN lengths |-> IF HasNext(k) THEN takenFrom[k] + 1 ELSE takenFrom[k]]
  /\ LET left == {k \in DOMAIN lengths : HasNext(k)}
     IN  IF lengths # <<>> /\ left = DOMAIN lengths
         THEN given' = Append(given, [k \in DOMAIN lengths |-> takenFrom[k] + 1]) /\ UNCHANGED ended
         ELSE /\ ended' = IF iterator = "strict_zip" /\ left # {} THEN "raised" ELSE "stopped"
              /\ UNCHANGED given
  /\ UNCHANGED <<inner, opened>>

\* The turns of the while loop that find nothing are passed over.
ChainNext ==
  LET here == inner # 0 /\ HasNext(inner)
      later == {k \in (opened + 1)..Len(lengths) : HasNext(k)}
      k == IF here THEN inner ELSE Min(later)
  IN  /\ IF here \/ later # {}
         THEN /\ takenFrom' = Take(k) /\ given' = Append(given, <<k, takenFrom[k] + 1>>)
              /\ inner' = k /\ opened' = (IF here THEN opened ELSE k) /\ UNCHANGED ended
         ELSE /\ ended' = "stopped" /\ inner' = 0 /\ opened' = Len(lengths)
              /\ UNCHANGED <<takenFrom, given>>

EnumerateNext ==
  /\ IF HasNext(1) THEN /\ takenFrom' = Take(1)
                        /\ given' = Append(given, <<startAt + Len(given), takenFrom[1] + 1>>) /\ UNCHANGED ended
     ELSE ended' = "stopped" /\ UNCHANGED <<takenFrom, given>>
  /\ UNCHANGED <<inner, opened>>

RangeNext ==
  LET current == range.start + Len(given) * range.step
  IN  IF (range.step > 0 /\ current >= range.stop) \/ (range.step < 0 /\ current <= range.stop)
      THEN ended' = "stopped" /\ UNCHANGED given
      ELSE given' = Append(given, current) /\ UNCHANGED ended

IterStep ==
  /\ ended = "no"
  /\ \/ iterator \in {"zip", "strict_zip"} /\ ZipNext
     \/ iterator = "chain" /\ ChainNext
     \/ iterator = "enumerate" /\ EnumerateNext
     \/ iterator = "range" /\ RangeNext /\ UNCHANGED <<takenFrom, inner, opened>>
  /\ UNCHANGED <<iterator, lengths, startAt, range>>

\* A step of 0 is refused.
Ranges == [start : -MaxLen..MaxLen, stop : -MaxLen..MaxLen, step : (-3..3) \ {0}]
IterInit(which) ==
  /\ IF which = "iterators"
     THEN \/ iterator \in {"zip", "strict_zip", "chain", "enumerate"} /\ lengths \in Lengths
             /\ range = [start |-> 0, stop |-> 0, step |-> 1]
          \/ iterator = "range" /\ lengths = <<>> /\ range \in Ranges
     ELSE iterator = "chain" /\ lengths = <<>> /\ range = [start |-> 0, stop |-> 0, step |-> 1]
  /\ iterator = "enumerate" => Len(lengths) = 1
  /\ startAt = (IF iterator = "enumerate" THEN 1 ELSE 0)
  /\ takenFrom = [k \in DOMAIN lengths |-> 0]
  /\ inner = 0 /\ opened = 0 /\ given = <<>> /\ ended = "no"

\* __len__; a // b goes down, whatever the signs.
FloorDiv(a, b) == IF b > 0 THEN a \div b ELSE (-a) \div (-b)
RangeLength(r) == Max({0, FloorDiv(r.stop - r.start + (IF r.step > 0 THEN r.step - 1 ELSE r.step + 1), r.step)})
----------------------------------------------------------------------------
AlgorithmInit(which) ==
  /\ IterInit(which)
  /\ minStack = <<>> /\ pushed = <<>>
  /\ trie = [p \in {<<>>} |-> NewNode] /\ inserted = {}
  /\ items = <<>> /\ nested = <<>>
  /\ copied = <<>>
  /\ IF which = "deep_copy" THEN heap \in {h \in Heaps : Possible(h)}
     ELSE heap = [o \in Object |-> [kind |-> "container", items |-> <<>>]]
  /\ yielded = <<>>
  /\ IF which = "graph" THEN graph \in Mappings ELSE graph = <<>>
  /\ inDegree = InDegrees(graph)
  /\ \/ method = "bfs" /\ goal = 1 /\ found = <<>>
     \/ which = "graph" /\ method = "dfs" /\ goal = 1 /\ found = <<>>
     \/ which = "graph" /\ method = "topological_sort" /\ goal = 1 /\ found = <<>>
     \/ which = "graph" /\ method = "shortest_path" /\ goal \in Vertex
        /\ found = IF goal = 1 THEN <<1>> ELSE <<>>
  /\ visited = IF method \in {"bfs", "shortest_path"} THEN {1} ELSE {}
  /\ frontier = CASE method = "shortest_path" -> << <<1>> >>
                  [] method = "topological_sort" ->
                       SelectSeq(SetToSortSeq(DOMAIN graph, <), LAMBDA v : inDegree[v] = 0)
                  [] OTHER -> <<1>>

AlgorithmNext(which) ==
  /\ \/ which = "min_stack" /\ StackStep /\ UNCHANGED <<trieVars, graphVars, copyVars, items, nested>>
     \/ which = "trie" /\ (\E w \in Word : Insert(w)) /\ UNCHANGED <<stackVars, graphVars, copyVars, items, nested>>
     \/ which = "graph" /\ GraphStep /\ UNCHANGED <<stackVars, trieVars, copyVars, items, nested>>
     \/ which = "deep_copy" /\ DeepCopy /\ UNCHANGED <<stackVars, trieVars, graphVars, items, nested>>
     \/ which = "lists" /\ ListStep /\ UNCHANGED <<stackVars, trieVars, graphVars, copyVars, nested>>
     \/ which = "lists" /\ NestStep /\ UNCHANGED <<stackVars, trieVars, graphVars, copyVars, items>>
     \/ which = "iterators" /\ UNCHANGED <<stackVars, trieVars, graphVars, copyVars, items, nested>>
  /\ IF which = "iterators" THEN IterStep ELSE UNCHANGED iterVars
----------------------------------------------------------------------------
\* What Out reaches from S in n steps or fewer.
Reached(S, Out(_), n) ==
  LET within[k \in 0..n] == IF k = 0 THEN S ELSE within[k - 1] \cup UNION {Out(v) : v \in within[k - 1]}
  IN  within[n]

\* get_min answers the least of all that is on the stack, whatever was popped before.
MinimumIsOfTheStack ==
  /\ [n \in DOMAIN minStack |-> minStack[n][1]] = pushed
  /\ pushed # <<>> => GetMin = Min(ToSet(pushed))

\* search knows exactly the inserted words, starts_with exactly their prefixes, autocomplete
\* lists exactly the inserted words below the prefix, each once.
TrieHoldsTheWords ==
  \A w \in Word :
    LET below == {v \in inserted : IsPrefix(w, v)}
    IN  /\ Search(w) <=> w \in inserted
        /\ Find(w) <=> w = <<>> \/ below # {}
        /\ ToSet(Autocomplete(w)) = below /\ IsInjective(Autocomplete(w))

Distance(v) == Min({n \in 0..NumVertices : v \in Reached({1}, LAMBDA u : ToSet(Neighbours(u)), n)})
IsPath(p) == \A n \in 1..Len(p) - 1 : p[n + 1] \in ToSet(Neighbours(p[n]))
RECURSIVE Preorder(_, _)
Preorder(seen, v) ==
  IF v \in ToSet(seen) THEN seen ELSE FoldLeft(Preorder, Append(seen, v), Neighbours(v))
Respects(Place(_)) == \A u \in DOMAIN graph : \A v \in ToSet(graph[u]) : Place(u) < Place(v)

\* A finished search has found what there is: bfs every reachable vertex once and the nearer
\* ones first, dfs the order of the recursive walk, shortest_path a path of least length or none
\* when there is none; topological_sort an order that respects every edge, or a cycle.
SearchesAreRight ==
  LET all == Reached({1}, LAMBDA u : ToSet(Neighbours(u)), NumVertices)
      isOver == frontier = <<>> \/ found # <<>>
      sorted == Len(yielded) = Cardinality(Mentioned(graph))
  IN  isOver =>
        /\ method = "bfs" => /\ ToSet(yielded) = all /\ IsInjective(yielded)
                             /\ \A m, n \in DOMAIN yielded : m < n => Distance(yielded[m]) <= Distance(yielded[n])
        /\ method = "dfs" => yielded = Preorder(<<>>, 1)
        /\ method = "shortest_path" =>
             /\ found # <<>> <=> goal \in all
             /\ found # <<>> => found[1] = 1 /\ Last(found) = goal /\ IsPath(found)
                                /\ Len(found) = Distance(goal) + 1
        /\ method = "topological_sort" =>
             /\ sorted => IsInjective(yielded) /\ Respects(LAMBDA v : SelectInSeq(yielded, LAMBDA w : w = v))
             /\ sorted <=> \E place \in [Vertex -> Vertex] : Respects(LAMBDA v : place[v])

RECURSIVE LooksLike(_, _, _)
LooksLike(ref, x, depth) ==
  IF ref = 0 \/ x = 0 \/ depth = 0 THEN (ref = 0) = (x = 0)
  ELSE LET c == copied.made[ref]
       IN  /\ c.kind = heap[x].kind /\ Len(c.items) = Len(heap[x].items)
           /\ \A n \in DOMAIN c.items : LooksLike(c.items[n], heap[x].items[n], depth - 1)
Inside(x) == Reached(ToSet(heap[x].items) \ {0}, LAMBDA y : ToSet(heap[y].items) \ {0}, NumObjects)

\* deep_copy makes a structure that unfolds like the original, cycles included, and copies every
\* object once, so that sharing is kept; only a tuple on a cycle is copied more than once.
CopyKeepsTheShape ==
  copied # <<>> =>
    /\ LooksLike(copied.ref, 1, 2 * NumObjects + 1)
    /\ \A x \in {1} \cup Inside(1) :
         LET times == Cardinality({n \in DOMAIN copied.made : copied.made[n].of = x})
         IN  times >= 1 /\ (times > 1 => heap[x].kind = "tuple" /\ x \in Inside(x))

\* The functions over a list against their definitions.
ListFunctionsAreRight ==
  LET sorted == Ascending(items)
      parity == [v \in ToSet(items) |-> v % 2]
      First(n) == \A m \in 1..n - 1 : parity[items[m]] # parity[items[n]]
  IN  /\ \A v \in 0..MaxValue + 1 :
           /\ IF v \in ToSet(items) THEN sorted[BinarySearch(sorted, v)] = v ELSE BinarySearch(sorted, v) = -1
           /\ LowerBound(sorted, v) = Cardinality({n \in DOMAIN sorted : sorted[n] < v})
           /\ UpperBound(sorted, v) = Cardinality({n \in DOMAIN sorted : sorted[n] <= v})
      /\ \A k \in 0..MaxLen + 1 : TopK(items, k) = SubSeq(sorted, Max({1, Len(items) - k + 1}), Len(items))
      /\ \A size \in 1..MaxLen + 1 : \A fill \in {0, 1} :
           LET batches == Chunk(items, size, fill)
           IN  /\ IsPrefix(items, FlattenSeq(batches))
               /\ fill = 0 => FlattenSeq(batches) = items
               /\ \A n \in DOMAIN batches : batches[n] # <<>>
                    /\ (fill # 0 \/ n < Len(batches) => Len(batches[n]) = size)
               /\ Len(batches) = Cardinality({n \in DOMAIN items : n % size = 1 % size})
      /\ Dedup(items, parity) = LET at == SetToSortSeq({n \in DOMAIN items : First(n)}, <)
                                IN  [n \in DOMAIN at |-> items[at[n]]]
      /\ GroupBy(items, parity) = [k \in {parity[v] : v \in ToSet(items)} |->
                                     SelectSeq(items, LAMBDA v : parity[v] = k)]

\* Each further level of depth opens the lists of one level; without a limit only leaves stay.
OneLevel(s) == FlattenSeq([n \in DOMAIN s |-> IF s[n].list THEN s[n].of ELSE <<s[n]>>])
FlattenOpensLevels ==
  /\ Flatten(nested, 0) = nested
  /\ \A d \in 0..MaxLen : Flatten(nested, d + 1) = OneLevel(Flatten(nested, d))
  /\ \A n \in DOMAIN Flatten(nested, -1) : Flatten(nested, -1)[n] = Leaf

\* Zip gives the elements of one place together, down to the shortest iterable, and takes at most
\* one more from the others; strict it raises when the lengths differ.  Chain opens an iterable
\* when those before it are used up and keeps the order; enumerate counts from its start; a range
\* has as many numbers as its length says.
IteratorsAreLazy ==
  LET shortest == IF lengths = <<>> THEN 0 ELSE Min(ToSet(lengths))
      Before(k) == FoldLeft(LAMBDA a, b : a + b, 0, SubSeq(lengths, 1, k))
  IN  /\ iterator \in {"zip", "strict_zip"} =>
           /\ given = [n \in 1..Len(given) |-> [k \in DOMAIN lengths |-> n]]
           /\ IF ended = "no" THEN \A k \in DOMAIN lengths : takenFrom[k] = Len(given)
              ELSE Len(given) = shortest /\ \A k \in DOMAIN lengths : takenFrom[k] <= shortest + 1
           /\ ended = "raised" => Cardinality(ToSet(lengths)) > 1
           /\ ended = "stopped" /\ iterator = "strict_zip" => Cardinality(ToSet(lengths)) <= 1
      /\ iterator = "chain" =>
           /\ \A n \in DOMAIN given : n = Before(given[n][1] - 1) + given[n][2]
           /\ \A k \in DOMAIN lengths : takenFrom[k] > 0 => \A j \in 1..k - 1 : takenFrom[j] = lengths[j]
           /\ ended # "no" => Len(given) = Before(Len(lengths))
      /\ iterator = "enumerate" =>
           /\ \A n \in DOMAIN given : given[n] = <<startAt + n - 1, n>>
           /\ ended # "no" => Len(given) = lengths[1]
      /\ iterator = "range" =>
           IF ended = "no" THEN Len(given) <= RangeLength(range) ELSE Len(given) = RangeLength(range)

AlgorithmsAgree ==
  /\ MinimumIsOfTheStack /\ TrieHoldsTheWords /\ SearchesAreRight
  /\ CopyKeepsTheShape /\ ListFunctionsAreRight /\ FlattenOpensLevels
  /\ IteratorsAreLazy
=============================================================================
