------------------------------ MODULE LRUCache ------------------------------
(***************************************************************************)
(* The block cache as BlockCache.hpp builds it: nodes allocated on a heap, *)
(* doubly linked between the sentinels head and tail, and a hash map from  *)
(* keys to nodes.  One action is one call of get or put: the library runs  *)
(* in one thread and a call is not interrupted.  The pointer assignments   *)
(* of a call are functions on the heap, composed in the order of the code. *)
(***************************************************************************)
EXTENDS LRU

CONSTANTS Keys,         \* the keys (strings, never empty)
          Values,       \* the chunks that are cached
          Capacities,   \* the capacities a cache may be constructed with
          Addresses     \* the addresses operator new may return

Sentinels == {"head", "tail"}

\* No node is allocated at the address of a sentinel; a capacity is an int.
ASSUME LRUCacheAssumption ==
  Addresses \cap (Sentinels \cup {"nullptr"}) = {} /\ Capacities \subseteq Int

Pointers  == Addresses \cup Sentinels \cup {"nullptr"}

VARIABLES
  heap,        \* the DLinkedNode stored at each address
  allocated,   \* the addresses that are in use
  cache,       \* the hash map, nullptr where a key has no entry
  size,        \* the number of nodes in the list
  capacity,    \* the argument of the constructor
  ret,         \* what the last call returned
  used,        \* history: the keys ever put, the one used last first
  latest       \* history: the value last put for each key

vars == <<heap, allocated, cache, size, capacity, ret, used, latest>>

Node == [key : Keys \cup {""}, value : Values \cup {NoValue},
         prev : Pointers, next : Pointers]

\* The default constructor of DLinkedNode.
EmptyNode == [key |-> "", value |-> NoValue, prev |-> "nullptr", next |-> "nullptr"]

Init ==
  /\ heap = [p \in Addresses \cup Sentinels |->
               CASE p = "head" -> [EmptyNode EXCEPT !.next = "tail"]
                 [] p = "tail" -> [EmptyNode EXCEPT !.prev = "head"]
                 [] OTHER      -> EmptyNode]
  /\ allocated = {}
  /\ cache = [k \in Keys |-> "nullptr"]
  /\ size = 0
  /\ capacity \in Capacities
  /\ ret = NoValue
  /\ used = <<>>
  /\ latest = [k \in Keys |-> NoValue]

-----------------------------------------------------------------------------
(* The list operations, as functions from a heap to a heap.                *)

AddToHead(h, n) ==
  LET h1 == [h EXCEPT ![n].prev = "head", ![n].next = h["head"].next]
      h2 == [h1 EXCEPT ![h1["head"].next].prev = n]
  IN  [h2 EXCEPT !["head"].next = n]

\* Mutant of RemoveNode: the backward link is not repaired.
RemoveNodeForward(h, n) == [h EXCEPT ![h[n].prev].next = h[n].next]

RemoveNode(h, n) ==
  LET h1 == [h EXCEPT ![h[n].prev].next = h[n].next]
  IN  [h1 EXCEPT ![h1[n].next].prev = h1[n].prev]

MoveToHead(h, n) == AddToHead(RemoveNode(h, n), n)

\* removeTail returns the node it unlinks; its callers keep that pointer.
LastNode(h) == h["tail"].prev

-----------------------------------------------------------------------------
(* The history: a key that is used comes to the front of all keys ever put. *)
KeyToFront(s, k) ==
  LET all == IF \E x \in DOMAIN s : s[x] = k THEN s ELSE Append(s, k)
  IN  MoveToFront(all, CHOOSE x \in DOMAIN all : all[x] = k)

\* Mutant of Get: a hit does not move its node.
GetWithoutMove(k) ==
  IF cache[k] = "nullptr"
  THEN /\ ret' = NoValue
       /\ UNCHANGED <<heap, allocated, cache, size, capacity, used, latest>>
  ELSE /\ ret' = heap[cache[k]].value
       /\ used' = KeyToFront(used, k)
       /\ UNCHANGED <<heap, allocated, cache, size, capacity, latest>>

Get(k) ==
  IF cache[k] = "nullptr"
  THEN /\ ret' = NoValue
       /\ UNCHANGED <<heap, allocated, cache, size, capacity, used, latest>>
  ELSE /\ heap' = MoveToHead(heap, cache[k])
       /\ ret' = heap[cache[k]].value
       /\ used' = KeyToFront(used, k)
       /\ UNCHANGED <<allocated, cache, size, capacity, latest>>

\* The key is cached: its node gets the new value and moves to the front.
PutOld(k, v) ==
  /\ cache[k] # "nullptr"
  /\ heap' = MoveToHead([heap EXCEPT ![cache[k]].value = v], cache[k])
  /\ UNCHANGED <<allocated, cache, size>>

\* Mutant of PutNew: the evicted key keeps its entry in the hash map.
PutNewKeepsKey(k, v, n) ==
  LET added   == AddToHead([heap EXCEPT ![n] =
                              [EmptyNode EXCEPT !.key = k, !.value = v]], n)
      removed == LastNode(added)
  IN  /\ cache[k] = "nullptr"
      /\ n \notin allocated
      /\ cache' = [cache EXCEPT ![k] = n]
      /\ IF size + 1 > capacity
         THEN /\ heap' = [RemoveNode(added, removed) EXCEPT ![removed] = EmptyNode]
              /\ allocated' = (allocated \cup {n}) \ {removed}
              /\ size' = size
         ELSE /\ heap' = added
              /\ allocated' = allocated \cup {n}
              /\ size' = size + 1

\* A new node n at the head; over capacity, the last node is removed and freed.
PutNew(k, v, n) ==
  LET added   == AddToHead([heap EXCEPT ![n] =
                              [EmptyNode EXCEPT !.key = k, !.value = v]], n)
      removed == LastNode(added)
  IN  /\ cache[k] = "nullptr"
      /\ n \notin allocated
      /\ IF size + 1 > capacity
         THEN /\ heap' = [RemoveNode(added, removed) EXCEPT ![removed] = EmptyNode]
              /\ cache' = [[cache EXCEPT ![k] = n] EXCEPT ![added[removed].key] = "nullptr"]
              /\ allocated' = (allocated \cup {n}) \ {removed}
              /\ size' = size
         ELSE /\ heap' = added
              /\ cache' = [cache EXCEPT ![k] = n]
              /\ allocated' = allocated \cup {n}
              /\ size' = size + 1

Put(k, v) ==
  /\ PutOld(k, v) \/ \E n \in Addresses : PutNew(k, v, n)
  /\ ret' = NoValue
  /\ used' = KeyToFront(used, k)
  /\ latest' = [latest EXCEPT ![k] = v]
  /\ UNCHANGED capacity

Next == \E k \in Keys : Get(k) \/ \E v \in Values : Put(k, v)

Spec == Init /\ [][Next]_vars

-----------------------------------------------------------------------------
(* Following the links.                                                    *)

\* The node reached from p in x steps along next, and along prev.
Forward(p)  == LET f[x \in 0 .. size + 1] ==
                     IF x = 0 THEN p ELSE heap[f[x-1]].next
               IN  f
Backward(p) == LET f[x \in 0 .. size + 1] ==
                     IF x = 0 THEN p ELSE heap[f[x-1]].prev
               IN  f

\* The two directions of the list are each other's mirror image: walking
\* next from head and prev from tail meets the same size nodes, so that
\* removeTail unlinks the node that the list really ends with.
ListIsSymmetric ==
  LET f == Forward("head")
      b == Backward("tail")
  IN  /\ f[size + 1] = "tail"
      /\ \A x \in 0 .. size + 1 : b[x] = f[size + 1 - x]

\* The map and the list hold the same nodes, each under its own key, and
\* no node outside them is allocated: an eviction forgets neither.
MapMatchesList ==
  LET nodes == { Forward("head")[x] : x \in 1 .. size }
  IN  /\ nodes = { cache[k] : k \in { q \in Keys : cache[q] # "nullptr" } }
      /\ nodes = allocated
      /\ \A k \in Keys : cache[k] # "nullptr" => heap[cache[k]].key = k

\* The keys that are cached are exactly the ones used most recently, as many
\* as fit, and each has the value last put for it.
KeepsMostRecentlyUsed ==
  \A k \in Keys :
    /\ (cache[k] # "nullptr") <=>
         \E x \in DOMAIN used : x <= capacity /\ used[x] = k
    /\ cache[k] # "nullptr" => heap[cache[k]].value = latest[k]

\* The list that the pointers stand for: the state of the abstract cache.
ListedEntries ==
  [x \in 1 .. size |-> LET n == heap[Forward("head")[x]]
                       IN  [key |-> n.key, value |-> n.value]]

Abstract == INSTANCE LRUSpec WITH entries <- ListedEntries

\* Every call of the pointer implementation is the same call of the abstract
\* cache, with the same result.
ImplementsLRU == Abstract!Spec
=============================================================================
