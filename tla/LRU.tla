-------------------------------- MODULE LRU --------------------------------
(***************************************************************************)
(* What a least-recently-used cache holds and answers, without pointers:   *)
(* a sequence of distinct keys with their values, the most recently used   *)
(* first.  LRUCache (BlockCache.hpp) implements it with a linked list and  *)
(* a hash map; the module LRUCache shows that it does.                     *)
(***************************************************************************)
EXTENDS Integers, Sequences

\* The answer to a key that is not cached: the empty vector of bytes().
CONSTANT NoValue

Has(c, k) == \E x \in DOMAIN c : c[x].key = k

IndexOf(c, k) == CHOOSE x \in DOMAIN c : c[x].key = k

\* The entry at x comes first; those that were before it move back by one.
MoveToFront(c, x) ==
  [y \in DOMAIN c |-> IF y = 1 THEN c[x] ELSE IF y <= x THEN c[y-1] ELSE c[y]]

\* What get(k) returns, and the cache it leaves behind.
Lookup(c, k) == IF Has(c, k) THEN c[IndexOf(c, k)].value ELSE NoValue

AfterGet(c, k) == IF Has(c, k) THEN MoveToFront(c, IndexOf(c, k)) ELSE c

\* Only the capacity entries used most recently are kept.
Evict(c, capacity) ==
  IF Len(c) > capacity THEN SubSeq(c, 1, Len(c) - 1) ELSE c

AfterPut(c, k, v, capacity) ==
  LET entry == [key |-> k, value |-> v]
  IN  IF Has(c, k)
      THEN [MoveToFront(c, IndexOf(c, k)) EXCEPT ![1] = entry]
      ELSE Evict(<<entry>> \o c, capacity)
=============================================================================
