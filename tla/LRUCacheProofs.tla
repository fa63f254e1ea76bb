--------------------------- MODULE LRUCacheProofs ---------------------------
(***************************************************************************)
(* Proofs about LRUCache, for every set of keys, of values and of          *)
(* addresses, and every capacity.                                          *)
(*                                                                         *)
(* CacheInv says that there is a list L of addresses, all different, that  *)
(* the links follow in both directions, and that the hash map is its       *)
(* inverse by the keys.  Each call takes nodes out of L or puts them in    *)
(* front (Removed, Added), whatever the links between them.  HistoryInv    *)
(* says that L has the keys used last, in the order of their use.          *)
(***************************************************************************)
EXTENDS LRUCache, FiniteSetTheorems, SequenceTheorems, TLAPS

Heaps == [Addresses \cup Sentinels -> Node]

\* The list of n nodes L between its sentinels.
NodeAt(L, n, x) == IF x = 0 THEN "head" ELSE IF x = n + 1 THEN "tail" ELSE L[x]

IsList(L, n) == /\ L \in [1 .. n -> Addresses]
                /\ \A x, y \in 1 .. n : L[x] = L[y] => x = y

Linked(h, L, n) ==
  \A x \in 0 .. n : /\ h[NodeAt(L, n, x)].next = NodeAt(L, n, x + 1)
                    /\ h[NodeAt(L, n, x + 1)].prev = NodeAt(L, n, x)

\* The two operations on lists.
Without(L, n, i) == [x \in 1 .. n-1 |-> IF x < i THEN L[x] ELSE L[x+1]]
InFront(p, L, n) == [x \in 1 .. n+1 |-> IF x = 1 THEN p ELSE L[x-1]]

-----------------------------------------------------------------------------
(* What the operations assign.                                             *)

LEMMA Apart ==
  /\ "head" \notin Addresses /\ "tail" \notin Addresses /\ "nullptr" \notin Addresses
  /\ "head" \in Sentinels /\ "tail" \in Sentinels /\ "head" # "tail"
BY LRUCacheAssumption DEF Sentinels

LEMMA SetNext ==
  ASSUME NEW h \in Heaps, NEW p \in Addresses \cup Sentinels, NEW v \in Pointers
  PROVE  LET g == [h EXCEPT ![p].next = v] IN
         /\ g \in Heaps
         /\ \A q \in Addresses \cup Sentinels :
              /\ g[q].key = h[q].key /\ g[q].value = h[q].value /\ g[q].prev = h[q].prev
              /\ g[q].next = IF q = p THEN v ELSE h[q].next
BY DEF Heaps, Node

LEMMA SetPrev ==
  ASSUME NEW h \in Heaps, NEW p \in Addresses \cup Sentinels, NEW v \in Pointers
  PROVE  LET g == [h EXCEPT ![p].prev = v] IN
         /\ g \in Heaps
         /\ \A q \in Addresses \cup Sentinels :
              /\ g[q].key = h[q].key /\ g[q].value = h[q].value /\ g[q].next = h[q].next
              /\ g[q].prev = IF q = p THEN v ELSE h[q].prev
BY DEF Heaps, Node

LEMMA AddEffect ==
  ASSUME NEW h \in Heaps, NEW p \in Addresses, NEW t \in (Addresses \cup {"tail"}) \ {p},
         t = h["head"].next
  PROVE  /\ AddToHead(h, p) \in Heaps
         /\ \A q \in Addresses \cup Sentinels :
              /\ AddToHead(h, p)[q].key = h[q].key
              /\ AddToHead(h, p)[q].value = h[q].value
              /\ AddToHead(h, p)[q].next = IF q = "head" THEN p ELSE IF q = p THEN t
                                           ELSE h[q].next
              /\ AddToHead(h, p)[q].prev = IF q = t THEN p ELSE IF q = p THEN "head"
                                           ELSE h[q].prev
<1> DEFINE h1 == [h EXCEPT ![p].prev = "head", ![p].next = t]
           h2 == [h1 EXCEPT ![t].prev = p]
           h3 == [h2 EXCEPT !["head"].next = p]
<1>1. /\ p \in Addresses \cup Sentinels /\ t \in Addresses \cup Sentinels
      /\ "head" \in Addresses \cup Sentinels /\ p # "head" /\ t # "head" /\ p # t
      /\ p \in Pointers /\ t \in Pointers /\ "head" \in Pointers
  BY Apart DEF Pointers
<1>2. /\ h1 \in Heaps
      /\ \A q \in Addresses \cup Sentinels :
           /\ h1[q].key = h[q].key /\ h1[q].value = h[q].value
           /\ h1[q].next = IF q = p THEN t ELSE h[q].next
           /\ h1[q].prev = IF q = p THEN "head" ELSE h[q].prev
  <2> DEFINE b == [h[p] EXCEPT !.prev = "head", !.next = t]
  <2>1. h \in [Addresses \cup Sentinels -> Node]
    BY DEF Heaps
  <2>2. b \in Node /\ b.key = h[p].key /\ b.value = h[p].value /\ b.next = t /\ b.prev = "head"
    <3>1. h[p] \in Node
      BY <1>1, <2>1
    <3>2. QED
      BY <1>1, <3>1 DEF Node
  <2>3. h1 = [q \in Addresses \cup Sentinels |-> IF q = p THEN b ELSE h[q]]
    BY <1>1, <2>1
  <2> HIDE DEF b, h1
  <2>4. QED
    BY <2>1, <2>2, <2>3 DEF Heaps
<1>3. h1["head"].next = t
  BY <1>1, <1>2
<1> HIDE DEF h1
<1>4. /\ h2 \in Heaps
      /\ \A q \in Addresses \cup Sentinels :
           /\ h2[q].key = h1[q].key /\ h2[q].value = h1[q].value
           /\ h2[q].next = h1[q].next
           /\ h2[q].prev = IF q = t THEN p ELSE h1[q].prev
  BY <1>1, <1>2, SetPrev
<1> HIDE DEF h2
<1>5. /\ h3 \in Heaps
      /\ \A q \in Addresses \cup Sentinels :
           /\ h3[q].key = h2[q].key /\ h3[q].value = h2[q].value
           /\ h3[q].next = IF q = "head" THEN p ELSE h2[q].next
           /\ h3[q].prev = h2[q].prev
  BY <1>1, <1>4, SetNext
<1>6. AddToHead(h, p) = h3
  BY <1>3 DEF AddToHead, h1, h2
<1> HIDE DEF h3
<1>7. QED
  BY <1>1, <1>2, <1>4, <1>5, <1>6

LEMMA RemoveEffect ==
  ASSUME NEW h \in Heaps, NEW p \in Addresses,
         NEW a \in (Addresses \cup {"head"}) \ {p}, NEW b \in (Addresses \cup {"tail"}) \ {p},
         a = h[p].prev, b = h[p].next
  PROVE  /\ RemoveNode(h, p) \in Heaps
         /\ \A q \in Addresses \cup Sentinels :
              /\ RemoveNode(h, p)[q].key = h[q].key
              /\ RemoveNode(h, p)[q].value = h[q].value
              /\ RemoveNode(h, p)[q].next = IF q = a THEN b ELSE h[q].next
              /\ RemoveNode(h, p)[q].prev = IF q = b THEN a ELSE h[q].prev
<1> DEFINE h1 == [h EXCEPT ![a].next = b]
           h2 == [h1 EXCEPT ![b].prev = a]
<1>1. /\ p \in Addresses \cup Sentinels /\ a \in Addresses \cup Sentinels
      /\ b \in Addresses \cup Sentinels /\ a # p /\ b # p
      /\ a \in Pointers /\ b \in Pointers
  BY Apart DEF Pointers
<1>2. /\ h1 \in Heaps
      /\ \A q \in Addresses \cup Sentinels :
           /\ h1[q].key = h[q].key /\ h1[q].value = h[q].value
           /\ h1[q].next = IF q = a THEN b ELSE h[q].next
           /\ h1[q].prev = h[q].prev
  BY <1>1, SetNext
<1>3. h1[p].next = b /\ h1[p].prev = a
  BY <1>1, <1>2
<1> HIDE DEF h1
<1>4. /\ h2 \in Heaps
      /\ \A q \in Addresses \cup Sentinels :
           /\ h2[q].key = h1[q].key /\ h2[q].value = h1[q].value
           /\ h2[q].next = h1[q].next
           /\ h2[q].prev = IF q = b THEN a ELSE h1[q].prev
  BY <1>1, <1>2, SetPrev
<1>5. RemoveNode(h, p) = h2
  BY <1>3 DEF RemoveNode, h1
<1> HIDE DEF h2
<1>6. QED
  BY <1>1, <1>2, <1>4, <1>5

-----------------------------------------------------------------------------
(* What becomes of the links.                                              *)

LEMMA Places ==
  ASSUME NEW n \in Nat, NEW L, IsList(L, n)
  PROVE  /\ \A x \in 0 .. n+1 : NodeAt(L, n, x) \in Addresses \cup Sentinels
         /\ \A x \in 1 .. n : NodeAt(L, n, x) = L[x] /\ L[x] \in Addresses
         /\ \A x \in 0 .. n : NodeAt(L, n, x) \in Addresses \cup {"head"}
         /\ \A x \in 1 .. n+1 : NodeAt(L, n, x) \in Addresses \cup {"tail"}
         /\ \A x, y \in 0 .. n+1 : NodeAt(L, n, x) = NodeAt(L, n, y) => x = y
<1>1. \A x \in 1 .. n : NodeAt(L, n, x) = L[x] /\ L[x] \in Addresses
  BY DEF NodeAt, IsList
<1>2. NodeAt(L, n, 0) = "head" /\ NodeAt(L, n, n+1) = "tail"
  BY DEF NodeAt
<1>3. \A x \in 0 .. n+1 : x = 0 \/ x = n+1 \/ x \in 1 .. n
  OBVIOUS
<1>4. \A x \in 0 .. n+1 : NodeAt(L, n, x) \in Addresses \cup Sentinels
  BY <1>1, <1>2, <1>3, Apart
<1>5. \A x \in 0 .. n : NodeAt(L, n, x) \in Addresses \cup {"head"}
  BY <1>1, <1>2
<1>6. \A x \in 1 .. n+1 : NodeAt(L, n, x) \in Addresses \cup {"tail"}
  BY <1>1, <1>2
<1>7. \A x, y \in 1 .. n : NodeAt(L, n, x) = NodeAt(L, n, y) => x = y
  BY <1>1 DEF IsList
<1>8. \A x, y \in 0 .. n+1 : NodeAt(L, n, x) = NodeAt(L, n, y) => x = y
  BY <1>1, <1>2, <1>3, <1>7, Apart
<1>9. QED
  BY <1>1, <1>4, <1>5, <1>6, <1>8

\* Only the fields prev and next are assigned.
SameEntries(g, h) == \A q \in Addresses \cup Sentinels : g[q].key = h[q].key /\ g[q].value = h[q].value

LEMMA Removed ==
  ASSUME NEW n \in Nat, NEW h \in Heaps, NEW L, IsList(L, n), Linked(h, L, n), NEW i \in 1 .. n
  PROVE  /\ RemoveNode(h, L[i]) \in Heaps
         /\ SameEntries(RemoveNode(h, L[i]), h)
         /\ IsList(Without(L, n, i), n-1)
         /\ Linked(RemoveNode(h, L[i]), Without(L, n, i), n-1)
<1> DEFINE M == Without(L, n, i)
           p == L[i]
           g == RemoveNode(h, p)
           a == NodeAt(L, n, i-1)
           b == NodeAt(L, n, i+1)
<1>0. i-1 \in 0 .. n /\ i+1 \in 1 .. n+1 /\ i \in 0 .. n /\ i-1 \in 0 .. n+1 /\ i+1 \in 0 .. n+1
      /\ i \in 0 .. n+1 /\ (i-1)+1 = i /\ i - 1 # i /\ i + 1 # i
  OBVIOUS
<1>1. p = NodeAt(L, n, i) /\ p \in Addresses
  BY Places
<1>2. a = h[p].prev /\ b = h[p].next
  BY <1>0, <1>1 DEF Linked
<1>3. a \in (Addresses \cup {"head"}) \ {p} /\ b \in (Addresses \cup {"tail"}) \ {p}
  BY <1>0, <1>1, Places
<1>4. /\ g \in Heaps
      /\ \A q \in Addresses \cup Sentinels :
           /\ g[q].key = h[q].key /\ g[q].value = h[q].value
           /\ g[q].next = IF q = a THEN b ELSE h[q].next
           /\ g[q].prev = IF q = b THEN a ELSE h[q].prev
  BY <1>1, <1>2, <1>3, RemoveEffect
<1> HIDE DEF g
<1>5. /\ M \in [1 .. n-1 -> Addresses]
      /\ \A x \in 1 .. n-1 : M[x] = IF x < i THEN L[x] ELSE L[x+1]
  BY DEF Without, IsList
<1>6. IsList(M, n-1)
  <2>1. ASSUME NEW x \in 1 .. n-1, NEW y \in 1 .. n-1, M[x] = M[y] PROVE x = y
    <3> DEFINE u == IF x < i THEN x ELSE x + 1
               v == IF y < i THEN y ELSE y + 1
    <3>1. u \in 1 .. n /\ v \in 1 .. n /\ L[u] = L[v]
      BY <1>5, <2>1
    <3>2. u = v
      BY <3>1 DEF IsList
    <3>3. QED
      BY <3>2
  <2>2. QED
    BY <1>5, <2>1 DEF IsList
<1>7. \A x \in 0 .. n : NodeAt(M, n-1, x) = IF x < i THEN NodeAt(L, n, x) ELSE NodeAt(L, n, x+1)
  <2>1. ASSUME NEW x \in 1 .. n-1
        PROVE  NodeAt(M, n-1, x) = IF x < i THEN NodeAt(L, n, x) ELSE NodeAt(L, n, x+1)
    <3>1. NodeAt(M, n-1, x) = M[x]
      BY DEF NodeAt
    <3>2. NodeAt(L, n, x) = L[x] /\ NodeAt(L, n, x+1) = L[x+1]
      BY DEF NodeAt
    <3>3. QED
      BY <1>5, <3>1, <3>2
  <2>2. NodeAt(M, n-1, 0) = NodeAt(L, n, 0) /\ 0 < i
    BY DEF NodeAt
  <2>3. NodeAt(M, n-1, n) = NodeAt(L, n, n+1) /\ ~ (n < i)
    BY DEF NodeAt
  <2>4. \A x \in 0 .. n : x = 0 \/ x = n \/ x \in 1 .. n-1
    OBVIOUS
  <2>5. QED
    BY <2>1, <2>2, <2>3, <2>4
<1>8. ASSUME NEW x \in 0 .. n-1
      PROVE  /\ g[NodeAt(M, n-1, x)].next = NodeAt(M, n-1, x+1)
             /\ g[NodeAt(M, n-1, x+1)].prev = NodeAt(M, n-1, x)
  <2>1. x \in 0 .. n /\ x+1 \in 0 .. n /\ x+2 \in 0 .. n+1
        /\ x \in 0 .. n+1 /\ x+1 \in 0 .. n+1 /\ (x+1)+1 = x+2
    OBVIOUS
  <2>2. /\ NodeAt(L, n, x) \in Addresses \cup Sentinels
        /\ NodeAt(L, n, x+1) \in Addresses \cup Sentinels
        /\ NodeAt(L, n, x+2) \in Addresses \cup Sentinels
    BY <2>1, Places
  <2>3. CASE x = i-1
    <3>1. x < i /\ ~ (x+1 < i) /\ x+2 = i+1
      BY <2>3
    <3>2. NodeAt(M, n-1, x) = a /\ NodeAt(M, n-1, x+1) = b
      BY <1>7, <2>1, <2>3, <3>1
    <3>3. a \in Addresses \cup Sentinels /\ b \in Addresses \cup Sentinels
      BY <1>0, Places
    <3>4. QED
      BY <1>4, <3>2, <3>3
  <2>4. CASE x < i-1
    <3>1. x < i /\ x+1 < i /\ x # i-1 /\ x+1 # i+1
      BY <2>4
    <3>2. NodeAt(M, n-1, x) = NodeAt(L, n, x) /\ NodeAt(M, n-1, x+1) = NodeAt(L, n, x+1)
      BY <1>7, <2>1, <3>1
    <3>3. NodeAt(L, n, x) # a /\ NodeAt(L, n, x+1) # b
      BY <1>0, <2>1, <3>1, Places
    <3>4. h[NodeAt(L, n, x)].next = NodeAt(L, n, x+1) /\ h[NodeAt(L, n, x+1)].prev = NodeAt(L, n, x)
      BY <2>1 DEF Linked
    <3>5. QED
      BY <1>4, <2>2, <3>2, <3>3, <3>4
  <2>5. CASE i-1 < x
    <3>1. ~ (x < i) /\ ~ (x+1 < i) /\ x+1 # i-1 /\ x+2 # i+1
      BY <2>5
    <3>2. NodeAt(M, n-1, x) = NodeAt(L, n, x+1) /\ NodeAt(M, n-1, x+1) = NodeAt(L, n, x+2)
      BY <1>7, <2>1, <3>1
    <3>3. NodeAt(L, n, x+1) # a /\ NodeAt(L, n, x+2) # b
      BY <1>0, <2>1, <3>1, Places
    <3>4. /\ h[NodeAt(L, n, x+1)].next = NodeAt(L, n, x+2)
          /\ h[NodeAt(L, n, x+2)].prev = NodeAt(L, n, x+1)
      BY <2>1 DEF Linked
    <3>5. QED
      BY <1>4, <2>2, <3>2, <3>3, <3>4
  <2>6. x \in Int /\ i \in Int
    OBVIOUS
  <2>7. QED
    BY <2>3, <2>4, <2>5, <2>6
<1>9. Linked(g, M, n-1)
  BY <1>8 DEF Linked
<1>10. SameEntries(g, h)
  BY <1>4 DEF SameEntries
<1>11. QED
  BY <1>4, <1>6, <1>9, <1>10 DEF g

LEMMA Added ==
  ASSUME NEW n \in Nat, NEW h \in Heaps, NEW L, IsList(L, n), Linked(h, L, n),
         NEW p \in Addresses, \A x \in 1 .. n : L[x] # p
  PROVE  /\ AddToHead(h, p) \in Heaps
         /\ SameEntries(AddToHead(h, p), h)
         /\ IsList(InFront(p, L, n), n+1)
         /\ Linked(AddToHead(h, p), InFront(p, L, n), n+1)
<1> DEFINE M == InFront(p, L, n)
           g == AddToHead(h, p)
           t == NodeAt(L, n, 1)
<1>0. 0 \in 0 .. n /\ 1 \in 1 .. n+1 /\ 0 + 1 = 1 /\ 0 \in 0 .. n+1 /\ 1 \in 0 .. n+1
  OBVIOUS
<1>1. NodeAt(L, n, 0) = "head" /\ t = h["head"].next
  BY <1>0 DEF Linked, NodeAt
<1>2. \A x \in 0 .. n+1 : NodeAt(L, n, x) # p
  <2>1. \A x \in 0 .. n+1 : x = 0 \/ x = n+1 \/ x \in 1 .. n
    OBVIOUS
  <2>2. QED
    BY <2>1, Apart DEF NodeAt
<1>3. t \in (Addresses \cup {"tail"}) \ {p}
  BY <1>0, <1>2, Places
<1>4. /\ g \in Heaps
      /\ \A q \in Addresses \cup Sentinels :
           /\ g[q].key = h[q].key /\ g[q].value = h[q].value
           /\ g[q].next = IF q = "head" THEN p ELSE IF q = p THEN t ELSE h[q].next
           /\ g[q].prev = IF q = t THEN p ELSE IF q = p THEN "head" ELSE h[q].prev
  BY <1>1, <1>3, AddEffect
<1> HIDE DEF g
<1>5. /\ M \in [1 .. n+1 -> Addresses]
      /\ M[1] = p /\ \A x \in 1 .. n : M[x+1] = L[x]
      /\ \A x \in 2 .. n+1 : M[x] = L[x-1]
  BY DEF InFront, IsList
<1>6. IsList(M, n+1)
  <2>1. ASSUME NEW x \in 1 .. n+1, NEW y \in 1 .. n+1, M[x] = M[y] PROVE x = y
    <3>1. CASE x # 1 /\ y # 1
      <4>1. x-1 \in 1 .. n /\ y-1 \in 1 .. n /\ L[x-1] = L[y-1]
        BY <1>5, <2>1, <3>1
      <4>2. QED
        BY <4>1 DEF IsList
    <3>2. CASE x = 1 /\ y # 1
      <4>1. y-1 \in 1 .. n /\ L[y-1] = p
        BY <1>5, <2>1, <3>2
      <4>2. QED
        BY <4>1
    <3>3. CASE x # 1 /\ y = 1
      <4>1. x-1 \in 1 .. n /\ L[x-1] = p
        BY <1>5, <2>1, <3>3
      <4>2. QED
        BY <4>1
    <3>4. QED
      BY <3>1, <3>2, <3>3
  <2>2. QED
    BY <1>5, <2>1 DEF IsList
<1>7. /\ NodeAt(M, n+1, 0) = "head" /\ NodeAt(M, n+1, 1) = p
      /\ \A x \in 1 .. n+1 : NodeAt(M, n+1, x+1) = NodeAt(L, n, x)
  <2>1. \A x \in 1 .. n+1 : x = n+1 \/ x \in 1 .. n
    OBVIOUS
  <2>2. QED
    BY <1>5, <2>1 DEF NodeAt
<1>8. ASSUME NEW x \in 0 .. n+1
      PROVE  /\ g[NodeAt(M, n+1, x)].next = NodeAt(M, n+1, x+1)
             /\ g[NodeAt(M, n+1, x+1)].prev = NodeAt(M, n+1, x)
  <2>0. p # "head" /\ p \in Addresses \cup Sentinels /\ "head" \in Addresses \cup Sentinels
        /\ t \in Addresses \cup Sentinels /\ t # p
    BY <1>3, Apart
  <2>1. CASE x = 0
    <3>1. NodeAt(M, n+1, x) = "head" /\ NodeAt(M, n+1, x+1) = p
      BY <1>7, <2>1
    <3>2. QED
      BY <1>4, <2>0, <3>1
  <2>2. CASE x = 1
    <3>1. NodeAt(M, n+1, x) = p /\ NodeAt(M, n+1, x+1) = t
      BY <1>0, <1>7, <2>2
    <3>2. QED
      BY <1>4, <2>0, <3>1
  <2>3. CASE x > 1
    <3> DEFINE u == NodeAt(L, n, x-1)
               v == NodeAt(L, n, x)
    <3>1. x-1 \in 1 .. n /\ x \in 1 .. n+1 /\ x-1 \in 1 .. n+1 /\ (x-1)+1 = x
          /\ x-1 \in 0 .. n+1 /\ x \in 0 .. n+1 /\ x-1 \in 0 .. n /\ x # 1 /\ x-1 # 0
      BY <2>3
    <3>2. NodeAt(M, n+1, x) = u /\ NodeAt(M, n+1, x+1) = v
      BY <1>7, <3>1
    <3>3. u \in Addresses \cup Sentinels /\ v \in Addresses \cup Sentinels
      BY <3>1, Places
    <3>4. u # "head" /\ u # p /\ v # t /\ v # p
      BY <1>0, <1>1, <1>2, <3>1, Places
    <3>5. h[u].next = v /\ h[v].prev = u
      BY <3>1 DEF Linked
    <3>6. QED
      BY <1>4, <3>2, <3>3, <3>4, <3>5
  <2>4. QED
    BY <2>1, <2>2, <2>3
<1>9. Linked(g, M, n+1)
  BY <1>8 DEF Linked
<1>10. SameEntries(g, h)
  BY <1>4 DEF SameEntries
<1>11. QED
  BY <1>4, <1>6, <1>9, <1>10 DEF g

\* The node at i comes first, those before it move back by one.
Front(L, n, i) == [y \in 1 .. n |-> IF y = 1 THEN L[i] ELSE IF y <= i THEN L[y-1] ELSE L[y]]

LEMMA Moved ==
  ASSUME NEW n \in Nat, NEW h \in Heaps, NEW L, IsList(L, n), Linked(h, L, n), NEW i \in 1 .. n
  PROVE  /\ MoveToHead(h, L[i]) \in Heaps
         /\ SameEntries(MoveToHead(h, L[i]), h)
         /\ IsList(Front(L, n, i), n)
         /\ Linked(MoveToHead(h, L[i]), Front(L, n, i), n)
         /\ \A x \in 1 .. n : \E y \in 1 .. n : Front(L, n, i)[x] = L[y]
         /\ \A x \in 1 .. n : \E y \in 1 .. n : L[x] = Front(L, n, i)[y]
<1> DEFINE M == Without(L, n, i)
           g == RemoveNode(h, L[i])
<1>1. g \in Heaps /\ SameEntries(g, h) /\ IsList(M, n-1) /\ Linked(g, M, n-1)
  BY Removed
<1>2. n-1 \in Nat /\ (n-1)+1 = n /\ L[i] \in Addresses
  BY DEF IsList
<1>3. \A x \in 1 .. n-1 : M[x] # L[i]
  <2>1. \A x \in 1 .. n-1 : M[x] = IF x < i THEN L[x] ELSE L[x+1]
    BY DEF Without
  <2>2. QED
    BY <2>1 DEF IsList
<1>4. InFront(L[i], M, n-1) = Front(L, n, i)
  <2>1. ASSUME NEW y \in 1 .. n
        PROVE  (IF y = 1 THEN L[i] ELSE M[y-1])
                 = (IF y = 1 THEN L[i] ELSE IF y <= i THEN L[y-1] ELSE L[y])
    <3>1. CASE y = 1
      BY <3>1
    <3>2. CASE y # 1
      <4>1. y-1 \in 1 .. n-1 /\ (y-1)+1 = y /\ (y-1 < i <=> y <= i)
        BY <3>2
      <4>2. M[y-1] = IF y-1 < i THEN L[y-1] ELSE L[y]
        BY <4>1 DEF Without
      <4>3. QED
        BY <3>2, <4>1, <4>2
    <3>3. QED
      BY <3>1, <3>2
  <2> HIDE DEF M
  <2>2. QED
    BY <1>2, <2>1 DEF InFront, Front
<1>5. /\ \A x \in 1 .. n : \E y \in 1 .. n : Front(L, n, i)[x] = L[y]
      /\ \A x \in 1 .. n : \E y \in 1 .. n : L[x] = Front(L, n, i)[y]
  <2>1. ASSUME NEW x \in 1 .. n PROVE \E y \in 1 .. n : Front(L, n, i)[x] = L[y]
    <3> DEFINE y == IF x = 1 THEN i ELSE IF x <= i THEN x-1 ELSE x
    <3>1. y \in 1 .. n /\ Front(L, n, i)[x] = L[y]
      BY DEF Front
    <3>2. QED
      BY <3>1
  <2>2. ASSUME NEW x \in 1 .. n PROVE \E y \in 1 .. n : L[x] = Front(L, n, i)[y]
    <3> DEFINE y == IF x = i THEN 1 ELSE IF x < i THEN x+1 ELSE x
    <3>1. y \in 1 .. n /\ Front(L, n, i)[y] = L[x]
      BY DEF Front
    <3>2. QED
      BY <3>1
  <2>3. QED
    BY <2>1, <2>2
<1> HIDE DEF M, g
<1>6. /\ AddToHead(g, L[i]) \in Heaps /\ SameEntries(AddToHead(g, L[i]), g)
      /\ IsList(InFront(L[i], M, n-1), n)
      /\ Linked(AddToHead(g, L[i]), InFront(L[i], M, n-1), n)
  BY <1>1, <1>2, <1>3, Added
<1>7. MoveToHead(h, L[i]) = AddToHead(g, L[i])
  BY DEF MoveToHead, g
<1>8. SameEntries(AddToHead(g, L[i]), h)
  BY <1>1, <1>6 DEF SameEntries
<1>9. QED
  BY <1>4, <1>5, <1>6, <1>7, <1>8

\* A node outside the list, and the value of any node, may be assigned.
LEMMA Reassigned ==
  ASSUME NEW n \in Nat, NEW h \in Heaps, NEW L, IsList(L, n), Linked(h, L, n),
         NEW p \in Addresses, \A x \in 1 .. n : L[x] # p, NEW v \in Node
  PROVE  [h EXCEPT ![p] = v] \in Heaps /\ Linked([h EXCEPT ![p] = v], L, n)
<1> DEFINE g == [h EXCEPT ![p] = v]
<1>1. /\ g \in Heaps /\ p \in Addresses \cup Sentinels
      /\ \A q \in Addresses \cup Sentinels : q # p => g[q] = h[q]
  BY DEF Heaps
<1>2. \A x \in 0 .. n+1 : NodeAt(L, n, x) # p /\ NodeAt(L, n, x) \in Addresses \cup Sentinels
  <2>1. \A x \in 0 .. n+1 : x = 0 \/ x = n+1 \/ x \in 1 .. n
    OBVIOUS
  <2>2. \A x \in 0 .. n+1 : NodeAt(L, n, x) # p
    BY <2>1, Apart DEF NodeAt
  <2>3. QED
    BY <2>2, Places
<1>3. \A x \in 0 .. n : x \in 0 .. n+1 /\ x+1 \in 0 .. n+1
  OBVIOUS
<1> HIDE DEF g
<1>4. Linked(g, L, n)
  BY <1>1, <1>2, <1>3 DEF Linked
<1>5. QED
  BY <1>1, <1>4 DEF g

LEMMA Revalued ==
  ASSUME NEW n \in Nat, NEW h \in Heaps, NEW L, IsList(L, n), Linked(h, L, n),
         NEW p \in Addresses, NEW v \in Values
  PROVE  LET g == [h EXCEPT ![p].value = v] IN
         /\ g \in Heaps /\ Linked(g, L, n)
         /\ \A q \in Addresses \cup Sentinels :
              g[q].key = h[q].key /\ g[q].value = IF q = p THEN v ELSE h[q].value
<1> DEFINE g == [h EXCEPT ![p].value = v]
<1>1. /\ g \in Heaps
      /\ \A q \in Addresses \cup Sentinels :
           /\ g[q].key = h[q].key /\ g[q].next = h[q].next /\ g[q].prev = h[q].prev
           /\ g[q].value = IF q = p THEN v ELSE h[q].value
  BY DEF Heaps, Node
<1>2. \A x \in 0 .. n : x \in 0 .. n+1 /\ x+1 \in 0 .. n+1
  OBVIOUS
<1> HIDE DEF g
<1>3. Linked(g, L, n)
  BY <1>1, <1>2, Places DEF Linked
<1>4. QED
  BY <1>1, <1>3 DEF g

-----------------------------------------------------------------------------
(* The invariant, and what each call makes of it.                          *)

\* The cache with the list L of nodes: those allocated, each in the map under its
\* key.
Cached(h, c, a, n, L) ==
  /\ n \in Nat /\ h \in Heaps /\ c \in [Keys -> Addresses \cup {"nullptr"}]
  /\ IsList(L, n) /\ Linked(h, L, n)
  /\ a = { L[x] : x \in 1 .. n }
  /\ \A k \in Keys : c[k] # "nullptr" => \E x \in 1 .. n : c[k] = L[x] /\ h[L[x]].key = k
  /\ \A x \in 1 .. n : h[L[x]].key \in Keys /\ c[h[L[x]].key] = L[x]

Entry(h, p) == [key |-> h[p].key, value |-> h[p].value]

\* What it holds, as the abstract cache has it.
Entries(h, L, n) == [x \in 1 .. n |-> Entry(h, L[x])]

\* The well formed cache that holds the entries s.
CachedAs(h, c, a, n, L, s) == Cached(h, c, a, n, L) /\ Entries(h, L, n) = s

LEMMA NoneCached ==
  ASSUME Init
  PROVE  \E L : Cached(heap, cache, allocated, size, L)
<1> DEFINE L == [x \in 1 .. 0 |-> "nullptr"]
<1>1. size = 0 /\ size \in Nat /\ \A x \in 1 .. size : FALSE
  BY DEF Init
<1>2. heap \in Heaps
  <2>1. EmptyNode \in Node
    BY DEF EmptyNode, Node, Pointers
  <2>2. [EmptyNode EXCEPT !.next = "tail"] \in Node /\ [EmptyNode EXCEPT !.prev = "head"] \in Node
    BY Apart DEF EmptyNode, Node, Pointers
  <2>3. QED
    BY <2>1, <2>2 DEF Init, Heaps
<1>3. cache \in [Keys -> Addresses \cup {"nullptr"}] /\ \A k \in Keys : cache[k] = "nullptr"
  BY DEF Init
<1>4. IsList(L, size)
  BY <1>1 DEF IsList
<1>5. Linked(heap, L, size)
  <2>1. NodeAt(L, 0, 0) = "head" /\ NodeAt(L, 0, 1) = "tail"
    BY DEF NodeAt
  <2>2. heap["head"].next = "tail" /\ heap["tail"].prev = "head"
    BY Apart DEF Init, EmptyNode
  <2>3. \A x \in 0 .. 0 : x = 0 /\ x + 1 = 1
    OBVIOUS
  <2>4. QED
    BY <1>1, <2>1, <2>2, <2>3 DEF Linked
<1>6. allocated = { L[x] : x \in 1 .. size }
  BY <1>1 DEF Init
<1> HIDE DEF L
<1>7. QED
  BY <1>1, <1>2, <1>3, <1>4, <1>5, <1>6 DEF Cached

\* A node moves to the front.
LEMMA MoveKeeps ==
  ASSUME NEW h, NEW c, NEW a, NEW n, NEW L, Cached(h, c, a, n, L), NEW i \in 1 .. n
  PROVE  CachedAs(MoveToHead(h, L[i]), c, a, n, Front(L, n, i), MoveToFront(Entries(h, L, n), i))
<1> DEFINE g == MoveToHead(h, L[i])
           M == Front(L, n, i)
<1>1. n \in Nat /\ h \in Heaps /\ IsList(L, n) /\ Linked(h, L, n)
      /\ c \in [Keys -> Addresses \cup {"nullptr"}] /\ a = { L[x] : x \in 1 .. n }
  BY DEF Cached
<1>2. /\ g \in Heaps /\ SameEntries(g, h) /\ IsList(M, n) /\ Linked(g, M, n)
      /\ \A x \in 1 .. n : \E y \in 1 .. n : M[x] = L[y]
      /\ \A x \in 1 .. n : \E y \in 1 .. n : L[x] = M[y]
  <2>1. MoveToHead(h, L[i]) \in Heaps
    BY <1>1, Moved
  <2>2. SameEntries(MoveToHead(h, L[i]), h)
    BY <1>1, Moved
  <2>3. IsList(Front(L, n, i), n) /\ Linked(MoveToHead(h, L[i]), Front(L, n, i), n)
    BY <1>1, Moved
  <2>4. \A x \in 1 .. n : \E y \in 1 .. n : M[x] = L[y]
    BY <1>1, Moved
  <2>5. \A x \in 1 .. n : \E y \in 1 .. n : L[x] = M[y]
    BY <1>1, Moved
  <2>9. QED
    BY <2>1, <2>2, <2>3, <2>4, <2>5
<1>3. \A x \in 1 .. n : /\ L[x] \in Addresses \cup Sentinels
                        /\ g[L[x]].key = h[L[x]].key /\ g[L[x]].value = h[L[x]].value
  BY <1>1, <1>2 DEF SameEntries, IsList
<1>4. \A y \in 1 .. n : M[y] = IF y = 1 THEN L[i] ELSE IF y <= i THEN L[y-1] ELSE L[y]
  BY DEF Front
<1> HIDE DEF g, M
<1>5. \A x \in 1 .. n : \E y \in 1 .. n : M[x] = L[y]
  BY <1>2
<1>6. \A x \in 1 .. n : \E y \in 1 .. n : L[x] = M[y]
  BY <1>2
<1>12. a = { M[x] : x \in 1 .. n }
  BY <1>1, <1>5, <1>6
<1>7. \A k \in Keys : c[k] # "nullptr" => \E x \in 1 .. n : c[k] = M[x] /\ g[M[x]].key = k
  BY <1>3, <1>6 DEF Cached
<1>8. \A x \in 1 .. n : g[M[x]].key \in Keys /\ c[g[M[x]].key] = M[x]
  BY <1>3, <1>5 DEF Cached
<1>9. Entries(g, M, n) = MoveToFront(Entries(h, L, n), i)
  <2>1. ASSUME NEW y \in 1 .. n
        PROVE  Entry(g, M[y]) = IF y = 1 THEN Entry(h, L[i])
                                ELSE IF y <= i THEN Entry(h, L[y-1]) ELSE Entry(h, L[y])
    <3>1. y # 1 => y-1 \in 1 .. n
      BY <1>1
    <3>2. \A x \in 1 .. n : Entry(g, L[x]) = Entry(h, L[x])
      BY <1>3 DEF Entry
    <3>3. QED
      BY <1>4, <3>1, <3>2
  <2>2. ASSUME NEW y \in 1 .. n
        PROVE  Entry(g, M[y]) = IF y = 1 THEN Entries(h, L, n)[i]
                                ELSE IF y <= i THEN Entries(h, L, n)[y-1]
                                ELSE Entries(h, L, n)[y]
    <3>1. y # 1 => y-1 \in 1 .. n
      BY <1>1
    <3>2. \A x \in 1 .. n : Entries(h, L, n)[x] = Entry(h, L[x])
      BY DEF Entries
    <3>3. QED
      BY <2>1, <3>1, <3>2
  <2>3. DOMAIN Entries(h, L, n) = 1 .. n
    BY DEF Entries
  <2>4. Entries(g, M, n) = [y \in 1 .. n |-> Entry(g, M[y])]
    BY DEF Entries
  <2>5. QED
    BY <2>2, <2>3, <2>4 DEF MoveToFront
<1>10. Cached(g, c, a, n, M)
  BY <1>1, <1>2, <1>7, <1>8, <1>12 DEF Cached
<1>11. QED
  BY <1>9, <1>10 DEF CachedAs, g, M

\* A node gets another value.
LEMMA ValueKeeps ==
  ASSUME NEW h, NEW c, NEW a, NEW n, NEW L, Cached(h, c, a, n, L), NEW i \in 1 .. n,
         NEW v \in Values
  PROVE  LET g == [h EXCEPT ![L[i]].value = v] IN
         CachedAs(g, c, a, n, L,
                  [Entries(h, L, n) EXCEPT ![i] = [key |-> h[L[i]].key, value |-> v]])
<1> DEFINE g == [h EXCEPT ![L[i]].value = v]
<1>1. n \in Nat /\ h \in Heaps /\ IsList(L, n) /\ Linked(h, L, n) /\ L[i] \in Addresses
  BY DEF Cached, IsList
<1>2. /\ g \in Heaps /\ Linked(g, L, n)
      /\ \A q \in Addresses \cup Sentinels :
           g[q].key = h[q].key /\ g[q].value = IF q = L[i] THEN v ELSE h[q].value
  BY <1>1, Revalued
<1> HIDE DEF g
<1>3. \A x \in 1 .. n : /\ g[L[x]].key = h[L[x]].key
                        /\ g[L[x]].value = IF x = i THEN v ELSE h[L[x]].value
  BY <1>1, <1>2 DEF IsList
<1>4. Cached(g, c, a, n, L)
  BY <1>2, <1>3 DEF Cached
<1>5. Entries(g, L, n) = [Entries(h, L, n) EXCEPT ![i] = [key |-> h[L[i]].key, value |-> v]]
  <2>1. \A x \in 1 .. n : Entry(g, L[x]) = IF x = i THEN [key |-> h[L[i]].key, value |-> v]
                                           ELSE Entry(h, L[x])
    BY <1>3 DEF Entry
  <2>2. QED
    BY <2>1 DEF Entries
<1>6. QED
  BY <1>4, <1>5 DEF CachedAs, g

LEMMA InFrontOf ==
  ASSUME NEW S, NEW b \in S, NEW s \in Seq(S)
  PROVE  /\ <<b>> \o s = [y \in 1 .. Len(s)+1 |-> (<<b>> \o s)[y]]
         /\ (<<b>> \o s)[1] = b /\ \A x \in 1 .. Len(s) : (<<b>> \o s)[x+1] = s[x]
<1>1. <<b>> \in Seq(S) /\ Len(<<b>>) = 1 /\ <<b>>[1] = b /\ Len(s) \in Nat
  OBVIOUS
<1> DEFINE f == <<b>>
<1>2. f \in Seq(S) /\ Len(f) = 1 /\ f[1] = b
  BY <1>1
<1> HIDE DEF f
<1>3. /\ f \o s \in Seq(S) /\ Len(f \o s) = Len(s) + 1
      /\ \A y \in 1 .. Len(s) + 1 : (f \o s)[y] = IF y <= 1 THEN f[y] ELSE s[y - 1]
  <2>1. /\ f \o s \in Seq(S)
        /\ Len(f \o s) = Len(f) + Len(s)
        /\ \A y \in 1 .. Len(f) + Len(s) : (f \o s)[y] = IF y <= Len(f) THEN f[y] ELSE s[y - Len(f)]
    BY <1>2, ConcatProperties
  <2>2. QED
    BY <1>1, <1>2, <2>1
<1>6. (f \o s)[1] = b /\ \A x \in 1 .. Len(s) : (f \o s)[x+1] = s[x]
  BY <1>1, <1>2, <1>3
<1>4. f \o s = [y \in 1 .. Len(s)+1 |-> (f \o s)[y]]
  BY <1>3, LenProperties
<1>5. QED
  BY <1>4, <1>6 DEF f

\* A node with a new key comes in front.
LEMMA NewKeeps ==
  ASSUME NEW h, NEW c, NEW a, NEW n, NEW L, Cached(h, c, a, n, L),
         NEW k \in Keys, NEW v \in Values, NEW p \in Addresses, c[k] = "nullptr", p \notin a
  PROVE  LET g == AddToHead([h EXCEPT ![p] = [EmptyNode EXCEPT !.key = k, !.value = v]], p) IN
         CachedAs(g, [c EXCEPT ![k] = p], a \cup {p}, n+1, InFront(p, L, n),
                  <<[key |-> k, value |-> v]>> \o Entries(h, L, n))
<1> DEFINE e == [EmptyNode EXCEPT !.key = k, !.value = v]
           h1 == [h EXCEPT ![p] = e]
           g == AddToHead(h1, p)
           M == InFront(p, L, n)
           d == [c EXCEPT ![k] = p]
<1>1. n \in Nat /\ h \in Heaps /\ IsList(L, n) /\ Linked(h, L, n)
      /\ c \in [Keys -> Addresses \cup {"nullptr"}] /\ a = { L[x] : x \in 1 .. n }
      /\ \A x \in 1 .. n : L[x] \in Addresses
  BY DEF Cached, IsList
<1>2. \A x \in 1 .. n : L[x] # p
  BY <1>1
<1>3. e \in Node /\ e.key = k /\ e.value = v
  BY DEF EmptyNode, Node, Pointers
<1> HIDE DEF e
<1>4. h1 \in Heaps /\ Linked(h1, L, n)
  BY <1>1, <1>2, <1>3, Reassigned
<1>5. h1[p] = e /\ \A q \in Addresses \cup Sentinels : q # p => h1[q] = h[q]
  BY <1>1 DEF Heaps
<1> HIDE DEF h1
<1>6. g \in Heaps /\ SameEntries(g, h1) /\ IsList(M, n+1) /\ Linked(g, M, n+1)
  BY <1>1, <1>2, <1>4, Added
<1>7. M[1] = p /\ \A x \in 1 .. n : M[x+1] = L[x]
  BY <1>1 DEF InFront
<1> HIDE DEF g, M
<1>8. /\ g[p].key = k /\ g[p].value = v
      /\ \A x \in 1 .. n : g[L[x]].key = h[L[x]].key /\ g[L[x]].value = h[L[x]].value
  BY <1>1, <1>2, <1>3, <1>5, <1>6 DEF SameEntries
<1>9. \A y \in 1 .. n+1 : y = 1 \/ \E x \in 1 .. n : y = x + 1
  <2>1. TAKE y \in 1 .. n+1
  <2>2. y # 1 => y-1 \in 1 .. n /\ y = (y-1) + 1
    BY <1>1
  <2>3. QED
    BY <2>2
<1>10. 1 \in 1 .. n+1 /\ \A x \in 1 .. n : x+1 \in 1 .. n+1
  BY <1>1
<1>11. d \in [Keys -> Addresses \cup {"nullptr"}] /\ d[k] = p
       /\ \A q \in Keys : q # k => d[q] = c[q]
  BY <1>1
<1> HIDE DEF d
<1>12. a \cup {p} = { M[y] : y \in 1 .. n+1 }
  BY <1>1, <1>7, <1>9, <1>10
<1>13. \A q \in Keys : d[q] # "nullptr" => \E y \in 1 .. n+1 : d[q] = M[y] /\ g[M[y]].key = q
  <2>1. ASSUME NEW q \in Keys, d[q] # "nullptr"
        PROVE  \E y \in 1 .. n+1 : d[q] = M[y] /\ g[M[y]].key = q
    <3>1. CASE q = k
      BY <1>7, <1>8, <1>10, <1>11, <3>1
    <3>2. CASE q # k
      <4>1. PICK x \in 1 .. n : d[q] = L[x] /\ h[L[x]].key = q
        BY <1>11, <2>1, <3>2 DEF Cached
      <4>2. QED
        BY <1>7, <1>8, <1>10, <4>1
    <3>3. QED
      BY <3>1, <3>2
  <2>2. QED
    BY <2>1
<1>14. \A y \in 1 .. n+1 : g[M[y]].key \in Keys /\ d[g[M[y]].key] = M[y]
  <2>1. g[M[1]].key \in Keys /\ d[g[M[1]].key] = M[1]
    BY <1>7, <1>8, <1>11
  <2>2. ASSUME NEW x \in 1 .. n
        PROVE  g[M[x+1]].key \in Keys /\ d[g[M[x+1]].key] = M[x+1]
    <3>1. h[L[x]].key \in Keys /\ c[h[L[x]].key] = L[x]
      BY DEF Cached
    <3>2. h[L[x]].key # k
      BY <1>1, <3>1, Apart
    <3>3. QED
      BY <1>7, <1>8, <1>11, <3>1, <3>2
  <2>3. QED
    BY <1>9, <2>1, <2>2
<1>15. Cached(g, d, a \cup {p}, n+1, M)
  <2>1. n+1 \in Nat
    BY <1>1
  <2>2. QED
    BY <2>1, <1>6, <1>11, <1>12, <1>13, <1>14, Zenon DEF Cached
<1>16. Entries(g, M, n+1) = <<[key |-> k, value |-> v]>> \o Entries(h, L, n)
  <2> DEFINE s == Entries(h, L, n)
             t == Entries(g, M, n+1)
             b == [key |-> k, value |-> v]
  <2>1. /\ t = [y \in 1 .. n+1 |-> t[y]]
        /\ t[1] = b /\ \A x \in 1 .. n : t[x+1] = s[x]
    BY <1>7, <1>8, <1>10 DEF Entries, Entry
  <2>2. DOMAIN s = 1 .. n
    BY DEF Entries
  <2> HIDE DEF s, t, b
  <2>3. s \in Seq({b} \cup { s[x] : x \in 1 .. n }) /\ Len(s) = n
    <3>1. s = [x \in 1 .. n |-> s[x]]
      BY DEF s, Entries
    <3>2. QED
      BY <1>1, <3>1
  <2>4. /\ <<b>> \o s = [y \in 1 .. n+1 |-> (<<b>> \o s)[y]]
        /\ (<<b>> \o s)[1] = b /\ \A x \in 1 .. n : (<<b>> \o s)[x+1] = s[x]
    BY <1>1, <2>3, InFrontOf
  <2>5. t = <<b>> \o s
    <3>1. ASSUME NEW y \in 1 .. n+1 PROVE t[y] = (<<b>> \o s)[y]
      <4>1. CASE y = 1
        BY <2>1, <2>4, <4>1
      <4>2. ASSUME NEW x \in 1 .. n, y = x + 1 PROVE t[y] = (<<b>> \o s)[y]
        BY <2>1, <2>4, <4>2
      <4>3. QED
        BY <1>9, <4>1, <4>2
    <3>2. QED
      BY <2>1, <2>4, <3>1
  <2>6. QED
    BY <2>5 DEF s, t, b
<1>17. QED
  BY <1>15, <1>16 DEF CachedAs, d, g, h1, e, M

\* The last node is unlinked and freed.
LEMMA EvictKeeps ==
  ASSUME NEW h, NEW c, NEW a, NEW n, NEW L, Cached(h, c, a, n, L), n > 0
  PROVE  LET r == LastNode(h)
             g == [RemoveNode(h, r) EXCEPT ![r] = EmptyNode] IN
         CachedAs(g, [c EXCEPT ![h[r].key] = "nullptr"], a \ {r}, n-1, Without(L, n, n),
                  SubSeq(Entries(h, L, n), 1, n-1))
<1> DEFINE r == LastNode(h)
           h1 == RemoveNode(h, r)
           g == [h1 EXCEPT ![r] = EmptyNode]
           M == Without(L, n, n)
           d == [c EXCEPT ![h[r].key] = "nullptr"]
<1>1. n \in Nat /\ h \in Heaps /\ IsList(L, n) /\ Linked(h, L, n) /\ n \in 1 .. n
      /\ c \in [Keys -> Addresses \cup {"nullptr"}] /\ a = { L[x] : x \in 1 .. n }
      /\ \A x \in 1 .. n : L[x] \in Addresses
  BY DEF Cached, IsList
<1>2. r = L[n]
  <2>1. n \in 0 .. n /\ NodeAt(L, n, n) = L[n] /\ NodeAt(L, n, n+1) = "tail"
    BY <1>1 DEF NodeAt
  <2>2. QED
    BY <1>1, <2>1 DEF Linked, LastNode
<1>3. h1 \in Heaps /\ SameEntries(h1, h) /\ IsList(M, n-1) /\ Linked(h1, M, n-1)
  BY <1>1, <1>2, Removed
<1>4. \A x \in 1 .. n-1 : M[x] = L[x] /\ x \in 1 .. n /\ x # n
  BY <1>1 DEF Without
<1> HIDE DEF h1, r, M
<1>5. \A x \in 1 .. n-1 : L[x] # r
  BY <1>1, <1>2, <1>4 DEF IsList
<1>6. EmptyNode \in Node /\ n-1 \in Nat
  BY <1>1 DEF EmptyNode, Node, Pointers
<1>7. g \in Heaps /\ Linked(g, M, n-1)
  BY <1>1, <1>2, <1>3, <1>4, <1>5, <1>6, Reassigned
<1>8. \A x \in 1 .. n-1 : g[L[x]].key = h[L[x]].key /\ g[L[x]].value = h[L[x]].value
  <2>1. \A q \in Addresses : q # r => g[q] = h1[q]
    BY <1>3 DEF Heaps
  <2>2. QED
    BY <1>1, <1>3, <1>4, <1>5, <2>1 DEF SameEntries
<1> HIDE DEF g
<1>9. \A x \in 1 .. n : x = n \/ x \in 1 .. n-1
  BY <1>1
<1>10. a \ {r} = { M[x] : x \in 1 .. n-1 }
  BY <1>1, <1>2, <1>4, <1>5, <1>9
<1>11. h[r].key \in Keys /\ c[h[r].key] = r
  BY <1>1, <1>2 DEF Cached
<1>12. d \in [Keys -> Addresses \cup {"nullptr"}] /\ d[h[r].key] = "nullptr"
       /\ \A q \in Keys : q # h[r].key => d[q] = c[q]
  BY <1>1, <1>11
<1> HIDE DEF d
<1>13. \A q \in Keys : d[q] # "nullptr" => \E x \in 1 .. n-1 : d[q] = M[x] /\ g[M[x]].key = q
  <2>1. ASSUME NEW q \in Keys, d[q] # "nullptr"
        PROVE  \E x \in 1 .. n-1 : d[q] = M[x] /\ g[M[x]].key = q
    <3>1. q # h[r].key /\ d[q] = c[q]
      BY <1>12, <2>1
    <3>2. PICK x \in 1 .. n : c[q] = L[x] /\ h[L[x]].key = q
      BY <2>1, <3>1 DEF Cached
    <3>3. x \in 1 .. n-1
      BY <1>2, <1>9, <3>1, <3>2
    <3>4. QED
      BY <1>4, <1>8, <3>1, <3>2, <3>3
  <2>2. QED
    BY <2>1
<1>14. \A x \in 1 .. n-1 : g[M[x]].key \in Keys /\ d[g[M[x]].key] = M[x]
  <2>1. ASSUME NEW x \in 1 .. n-1
        PROVE  g[M[x]].key \in Keys /\ d[g[M[x]].key] = M[x]
    <3>1. h[L[x]].key \in Keys /\ c[h[L[x]].key] = L[x]
      BY <1>4 DEF Cached
    <3>2. h[L[x]].key # h[r].key
      BY <1>5, <1>11, <3>1
    <3>3. QED
      BY <1>4, <1>8, <1>12, <3>1, <3>2
  <2>2. QED
    BY <2>1
<1>15. Cached(g, d, a \ {r}, n-1, M)
  BY <1>3, <1>6, <1>7, <1>10, <1>12, <1>13, <1>14 DEF Cached
<1>16. Entries(g, M, n-1) = SubSeq(Entries(h, L, n), 1, n-1)
  <2> DEFINE s == Entries(h, L, n)
  <2>1. s \in Seq({Entry(h, L[x]) : x \in 1 .. n}) /\ Len(s) = n
        /\ \A x \in 1 .. n : s[x] = Entry(h, L[x])
    BY <1>1 DEF Entries
  <2>2. \A x \in 1 .. n-1 : Entry(g, M[x]) = Entry(h, L[x])
    BY <1>4, <1>8 DEF Entry
  <2> HIDE DEF s
  <2>3. SubSeq(s, 1, n-1) = [x \in 1 .. n-1 |-> s[x]]
    BY <1>1, <2>1
  <2>4. Entries(g, M, n-1) = [x \in 1 .. n-1 |-> Entry(g, M[x])]
    BY DEF Entries
  <2>5. QED
    BY <1>4, <2>1, <2>2, <2>3, <2>4 DEF s
<1>17. QED
  BY <1>15, <1>16 DEF CachedAs, d, g, h1, r, M

\* Where a key is in the list, and in the entries of the abstract cache.
LEMMA Position ==
  ASSUME NEW h, NEW c, NEW a, NEW n, NEW L, Cached(h, c, a, n, L), NEW k \in Keys
  PROVE  /\ c[k] = "nullptr" => ~ Has(Entries(h, L, n), k)
         /\ c[k] # "nullptr" =>
              \E i \in 1 .. n : /\ L[i] = c[k] /\ h[L[i]].key = k
                                /\ Has(Entries(h, L, n), k)
                                /\ IndexOf(Entries(h, L, n), k) = i
<1> DEFINE s == Entries(h, L, n)
<1>1. DOMAIN s = 1 .. n /\ \A x \in 1 .. n : s[x].key = h[L[x]].key
  BY DEF Entries, Entry
<1> HIDE DEF s
<1>2. ASSUME NEW x \in 1 .. n, s[x].key = k PROVE c[k] = L[x] /\ c[k] # "nullptr"
  <2>1. c[k] = L[x] /\ L[x] \in Addresses
    BY <1>1, <1>2 DEF Cached, IsList
  <2>2. QED
    BY <2>1, Apart
<1>3. ASSUME c[k] = "nullptr" PROVE ~ Has(s, k)
  BY <1>1, <1>2, <1>3 DEF Has
<1>4. ASSUME c[k] # "nullptr"
      PROVE  \E i \in 1 .. n : L[i] = c[k] /\ h[L[i]].key = k /\ Has(s, k) /\ IndexOf(s, k) = i
  <2>1. PICK i \in 1 .. n : c[k] = L[i] /\ h[L[i]].key = k
    BY <1>4 DEF Cached
  <2>2. s[i].key = k
    BY <1>1, <2>1
  <2>3. \A x \in 1 .. n : s[x].key = k => x = i
    BY <1>2, <2>1 DEF Cached, IsList
  <2>4. IndexOf(s, k) = i
    BY <1>1, <2>2, <2>3 DEF IndexOf
  <2>5. Has(s, k)
    BY <1>1, <2>2 DEF Has
  <2>6. QED
    BY <2>1, <2>4, <2>5
<1>5. QED
  BY <1>3, <1>4 DEF s

\* The cache after a call: it is well formed, and holds the entries s.
Becomes(s) ==
  \E M : CachedAs(heap', cache', allocated', size', M, s)

LEMMA GetStep ==
  ASSUME NEW L, Cached(heap, cache, allocated, size, L), NEW k \in Keys, Get(k)
  PROVE  /\ Becomes(AfterGet(Entries(heap, L, size), k))
         /\ ret' = Lookup(Entries(heap, L, size), k)
<1> DEFINE s == Entries(heap, L, size)
<1>1. CASE cache[k] = "nullptr"
  <2>1. ~ Has(s, k)
    BY <1>1, Position
  <2>2. ret' = NoValue /\ UNCHANGED <<heap, allocated, cache, size>>
    BY <1>1 DEF Get
  <2>3. AfterGet(s, k) = s /\ Lookup(s, k) = NoValue
    BY <2>1 DEF AfterGet, Lookup
  <2>4. Becomes(s)
    BY <2>2 DEF Becomes, CachedAs
  <2>5. QED
    BY <2>2, <2>3, <2>4
<1>2. CASE cache[k] # "nullptr"
  <2>1. PICK i \in 1 .. size : /\ L[i] = cache[k] /\ heap[L[i]].key = k
                               /\ Has(s, k) /\ IndexOf(s, k) = i
    BY <1>2, Position
  <2>2. /\ heap' = MoveToHead(heap, L[i]) /\ ret' = heap[L[i]].value
        /\ UNCHANGED <<allocated, cache, size>>
    BY <1>2, <2>1 DEF Get
  <2>3. AfterGet(s, k) = MoveToFront(s, i) /\ Lookup(s, k) = s[i].value
    BY <2>1 DEF AfterGet, Lookup
  <2>4. s[i].value = heap[L[i]].value
    BY DEF Entries, Entry
  <2>5. CachedAs(MoveToHead(heap, L[i]), cache, allocated, size, Front(L, size, i),
                 MoveToFront(s, i))
    BY MoveKeeps
  <2> HIDE DEF s
  <2>6. Becomes(MoveToFront(s, i))
    BY <2>2, <2>5 DEF Becomes
  <2>7. QED
    BY <2>2, <2>3, <2>4, <2>6 DEF s
<1>3. QED
  BY <1>1, <1>2

LEMMA PutOldStep ==
  ASSUME NEW L, Cached(heap, cache, allocated, size, L), NEW k \in Keys, NEW v \in Values,
         PutOld(k, v)
  PROVE  Becomes(AfterPut(Entries(heap, L, size), k, v, capacity))
<1> DEFINE s == Entries(heap, L, size)
           b == [key |-> k, value |-> v]
<1>1. PICK i \in 1 .. size : /\ L[i] = cache[k] /\ heap[L[i]].key = k
                             /\ Has(s, k) /\ IndexOf(s, k) = i
  BY Position DEF PutOld
<1> DEFINE h1 == [heap EXCEPT ![L[i]].value = v]
<1>2. heap' = MoveToHead(h1, L[i]) /\ UNCHANGED <<allocated, cache, size>>
  BY <1>1 DEF PutOld
<1>3. Cached(h1, cache, allocated, size, L) /\ Entries(h1, L, size) = [s EXCEPT ![i] = b]
  BY <1>1, ValueKeeps DEF CachedAs
<1>4. AfterPut(s, k, v, capacity) = [MoveToFront(s, i) EXCEPT ![1] = b]
  BY <1>1 DEF AfterPut
<1>5. DOMAIN s = 1 .. size /\ size \in Nat
  BY DEF Entries, Cached
<1> HIDE DEF s, b, h1
<1>6. CachedAs(MoveToHead(h1, L[i]), cache, allocated, size, Front(L, size, i),
               MoveToFront([s EXCEPT ![i] = b], i))
  BY <1>3, MoveKeeps
<1>7. MoveToFront([s EXCEPT ![i] = b], i) = [MoveToFront(s, i) EXCEPT ![1] = b]
  <2> DEFINE t == [s EXCEPT ![i] = b]
  <2>1. DOMAIN t = 1 .. size /\ t[i] = b /\ \A y \in 1 .. size : y # i => t[y] = s[y]
    BY <1>5
  <2> HIDE DEF t
  <2>2. MoveToFront(t, i) = [y \in 1 .. size |-> IF y = 1 THEN b ELSE IF y <= i THEN t[y-1] ELSE t[y]]
    BY <2>1 DEF MoveToFront
  <2>3. MoveToFront(s, i) = [y \in 1 .. size |-> IF y = 1 THEN s[i] ELSE IF y <= i THEN s[y-1] ELSE s[y]]
    BY <1>5 DEF MoveToFront
  <2>4. \A y \in 1 .. size : y # 1 =>
          (IF y <= i THEN t[y-1] ELSE t[y]) = (IF y <= i THEN s[y-1] ELSE s[y])
    BY <1>5, <2>1
  <2>5. [MoveToFront(s, i) EXCEPT ![1] = b]
          = [y \in 1 .. size |-> IF y = 1 THEN b ELSE IF y <= i THEN s[y-1] ELSE s[y]]
    BY <2>3
  <2>6. QED
    BY <2>2, <2>4, <2>5 DEF t
<1>8. QED
  BY <1>2, <1>4, <1>6, <1>7 DEF Becomes, s

LEMMA PutNewStep ==
  ASSUME NEW L, Cached(heap, cache, allocated, size, L), NEW k \in Keys, NEW v \in Values,
         NEW p \in Addresses, PutNew(k, v, p)
  PROVE  Becomes(AfterPut(Entries(heap, L, size), k, v, capacity))
<1> DEFINE s == Entries(heap, L, size)
           b == [key |-> k, value |-> v]
           g == AddToHead([heap EXCEPT ![p] = [EmptyNode EXCEPT !.key = k, !.value = v]], p)
           M == InFront(p, L, size)
           d == [cache EXCEPT ![k] = p]
           r == LastNode(g)
<1>1. cache[k] = "nullptr" /\ p \notin allocated
  BY DEF PutNew
<1>2. size \in Nat /\ size + 1 > 0 /\ (size + 1) - 1 = size
  BY DEF Cached
<1>3. CachedAs(g, d, allocated \cup {p}, size + 1, M, <<b>> \o s)
  BY <1>1, NewKeeps
<1>4. ~ Has(s, k)
  BY <1>1, Position
<1>5. Len(<<b>> \o s) = size + 1
  <2>1. Entries(g, M, size + 1) = [x \in 1 .. size + 1 |-> Entry(g, M[x])]
    BY DEF Entries
  <2> HIDE DEF g, M, s, b
  <2>2. Len(Entries(g, M, size + 1)) = size + 1
    BY <1>2, <2>1
  <2>3. QED
    BY <1>3, <2>2 DEF CachedAs
<1>6. AfterPut(s, k, v, capacity) = IF size + 1 > capacity THEN SubSeq(<<b>> \o s, 1, size)
                                    ELSE <<b>> \o s
  BY <1>2, <1>4, <1>5 DEF AfterPut, Evict
<1>7. CASE size + 1 > capacity
  <2> DEFINE h == [RemoveNode(g, r) EXCEPT ![r] = EmptyNode]
             e == [d EXCEPT ![g[r].key] = "nullptr"]
  <2>1. /\ heap' = h /\ cache' = e /\ allocated' = (allocated \cup {p}) \ {r} /\ size' = size
    BY <1>7 DEF PutNew
  <2> HIDE DEF g, M, d, s, b
  <2>2. CachedAs(h, e, (allocated \cup {p}) \ {r}, (size + 1) - 1,
                 Without(M, size + 1, size + 1), SubSeq(<<b>> \o s, 1, (size + 1) - 1))
    <3>1. Cached(g, d, allocated \cup {p}, size + 1, M)
          /\ Entries(g, M, size + 1) = <<b>> \o s
      BY <1>3 DEF CachedAs
    <3>2. QED
      BY <1>2, <3>1, EvictKeeps
  <2> HIDE DEF h, e, r
  <2>3. Becomes(SubSeq(<<b>> \o s, 1, size))
    BY <1>2, <1>3, <2>1, <2>2 DEF Becomes
  <2>4. QED
    BY <1>6, <1>7, <2>3 DEF s
<1>8. CASE ~ (size + 1 > capacity)
  <2>1. heap' = g /\ cache' = d /\ allocated' = allocated \cup {p} /\ size' = size + 1
    BY <1>8 DEF PutNew
  <2> HIDE DEF g, M, d, s, b
  <2>2. Becomes(<<b>> \o s)
    BY <1>3, <2>1 DEF Becomes
  <2>3. QED
    BY <1>6, <1>8, <2>2 DEF s
<1>9. QED
  BY <1>7, <1>8

LEMMA PutStep ==
  ASSUME NEW L, Cached(heap, cache, allocated, size, L), NEW k \in Keys, NEW v \in Values,
         Put(k, v)
  PROVE  Becomes(AfterPut(Entries(heap, L, size), k, v, capacity))
BY PutOldStep, PutNewStep DEF Put

-----------------------------------------------------------------------------
(* The walks.  They are recursive functions: that they exist, and lead     *)
(* along the list, is shown by the list and by the least number at which   *)
(* they would leave it.                                                    *)

\* Of the numbers of a set one is the least: this takes the place of induction, for
\* which no theorem of the library can be used.
LEMMA LeastNumber ==
  ASSUME NEW S \in SUBSET Nat, S # {}
  PROVE  \E x \in S : \A y \in S : x <= y
<1> DEFINE R == { q \in Nat \X Nat : q[1] < q[2] }
<1>1. IsWellFoundedOn(R, Nat)
  BY NatLessThanWellFounded DEF OpToRel
<1>2. \A x, y \in Nat : <<y, x>> \notin R => x <= y
  OBVIOUS
<1> HIDE DEF R
<1>3. \E x \in S : \A y \in S : <<y, x>> \notin R
  BY <1>1, WFMin
<1>4. QED
  BY <1>2, <1>3

LEMMA SameWalk ==
  ASSUME NEW n \in Nat, NEW f, NEW g, f[0] = g[0],
         \A x \in 1 .. n : f[x-1] = g[x-1] => f[x] = g[x]
  PROVE  \A x \in 0 .. n : f[x] = g[x]
<1> DEFINE S == { x \in Nat : x <= n /\ f[x] # g[x] }
<1>1. SUFFICES ASSUME S # {} PROVE FALSE
  OBVIOUS
<1>2. PICK x \in S : \A y \in S : x <= y
  BY <1>1, LeastNumber
<1>3. x \in Nat /\ x <= n /\ f[x] # g[x]
  BY <1>2
<1>4. x # 0
  BY <1>3
<1>5. x \in 1 .. n /\ x-1 \in Nat /\ x-1 <= n /\ ~ (x <= x-1)
  BY <1>3, <1>4
<1>6. x-1 \notin S
  BY <1>2, <1>5
<1>7. QED
  BY <1>3, <1>5, <1>6

Walked(h, n) == CHOOSE f : f = [x \in 0 .. n+1 |-> IF x = 0 THEN "head" ELSE h[f[x-1]].next]
WalkedBack(h, n) == CHOOSE f : f = [x \in 0 .. n+1 |-> IF x = 0 THEN "tail" ELSE h[f[x-1]].prev]

LEMMA WalkedIs ==
  ASSUME NEW n \in Nat, NEW h, NEW L, Linked(h, L, n)
  PROVE  \A x \in 0 .. n+1 : Walked(h, n)[x] = NodeAt(L, n, x)
<1> DEFINE Is(f) == f = [x \in 0 .. n+1 |-> IF x = 0 THEN "head" ELSE h[f[x-1]].next]
           g == [x \in 0 .. n+1 |-> NodeAt(L, n, x)]
           f == Walked(h, n)
<1>1. \A x \in 1 .. n+1 : x-1 \in 0 .. n /\ x-1 \in 0 .. n+1 /\ (x-1)+1 = x
  OBVIOUS
<1>2. \A x \in 0 .. n+1 : x # 0 => x \in 1 .. n+1
  OBVIOUS
<1>3. \A x \in 1 .. n+1 : h[NodeAt(L, n, x-1)].next = NodeAt(L, n, x)
  BY <1>1 DEF Linked
<1>4. NodeAt(L, n, 0) = "head" /\ 0 \in 0 .. n+1
  BY DEF NodeAt
<1>5. \A x \in 0 .. n+1 : g[x] = IF x = 0 THEN "head" ELSE h[g[x-1]].next
  BY <1>1, <1>2, <1>3, <1>4
<1>6. Is(g)
  <2>1. g = [x \in 0 .. n+1 |-> g[x]]
    OBVIOUS
  <2> HIDE DEF g
  <2>2. QED
    BY <1>5, <2>1
<1>7. Is(f)
  <2>1. f = CHOOSE w : Is(w)
    BY DEF Walked
  <2> HIDE DEF Is, f, g
  <2>2. QED
    BY <1>6, <2>1
<1>8. f[0] = g[0] /\ \A x \in 1 .. n+1 : f[x-1] = g[x-1] => f[x] = g[x]
  <2>1. \A x \in 0 .. n+1 : f[x] = IF x = 0 THEN "head" ELSE h[f[x-1]].next
    <3> HIDE DEF f
    <3>1. QED
      BY <1>7
  <2> HIDE DEF f, g
  <2>2. \A x \in 1 .. n+1 : x \in 0 .. n+1 /\ x # 0
    OBVIOUS
  <2>3. QED
    BY <1>4, <1>5, <2>1, <2>2
<1>9. n+1 \in Nat
  OBVIOUS
<1>10. \A x \in 0 .. n+1 : g[x] = NodeAt(L, n, x)
  OBVIOUS
<1> HIDE DEF f, g
<1>11. \A x \in 0 .. n+1 : f[x] = g[x]
  BY <1>8, <1>9, SameWalk
<1>12. QED
  BY <1>10, <1>11 DEF f

LEMMA WalkedBackIs ==
  ASSUME NEW n \in Nat, NEW h, NEW L, Linked(h, L, n)
  PROVE  \A x \in 0 .. n+1 : WalkedBack(h, n)[x] = NodeAt(L, n, n+1-x)
<1> DEFINE Is(f) == f = [x \in 0 .. n+1 |-> IF x = 0 THEN "tail" ELSE h[f[x-1]].prev]
           g == [x \in 0 .. n+1 |-> NodeAt(L, n, n+1-x)]
           f == WalkedBack(h, n)
<1>1. \A x \in 1 .. n+1 : n+1-x \in 0 .. n /\ x-1 \in 0 .. n+1 /\ (n+1-x)+1 = n+1-(x-1)
  OBVIOUS
<1>2. \A x \in 0 .. n+1 : x # 0 => x \in 1 .. n+1
  OBVIOUS
<1>3. \A x \in 1 .. n+1 : h[NodeAt(L, n, n+1-(x-1))].prev = NodeAt(L, n, n+1-x)
  BY <1>1 DEF Linked
<1>4. NodeAt(L, n, n+1) = "tail" /\ 0 \in 0 .. n+1 /\ n+1-0 = n+1
  BY DEF NodeAt
<1>5. \A x \in 0 .. n+1 : g[x] = IF x = 0 THEN "tail" ELSE h[g[x-1]].prev
  BY <1>1, <1>2, <1>3, <1>4
<1>6. Is(g)
  <2>1. g = [x \in 0 .. n+1 |-> g[x]]
    OBVIOUS
  <2> HIDE DEF g
  <2>2. QED
    BY <1>5, <2>1
<1>7. Is(f)
  <2>1. f = CHOOSE w : Is(w)
    BY DEF WalkedBack
  <2> HIDE DEF Is, f, g
  <2>2. QED
    BY <1>6, <2>1
<1>8. f[0] = g[0] /\ \A x \in 1 .. n+1 : f[x-1] = g[x-1] => f[x] = g[x]
  <2>1. \A x \in 0 .. n+1 : f[x] = IF x = 0 THEN "tail" ELSE h[f[x-1]].prev
    <3> HIDE DEF f
    <3>1. QED
      BY <1>7
  <2> HIDE DEF f, g
  <2>2. \A x \in 1 .. n+1 : x \in 0 .. n+1 /\ x # 0
    OBVIOUS
  <2>3. QED
    BY <1>4, <1>5, <2>1, <2>2
<1>9. n+1 \in Nat
  OBVIOUS
<1>10. \A x \in 0 .. n+1 : g[x] = NodeAt(L, n, n+1-x)
  OBVIOUS
<1> HIDE DEF f, g
<1>11. \A x \in 0 .. n+1 : f[x] = g[x]
  BY <1>8, <1>9, SameWalk
<1>12. QED
  BY <1>10, <1>11 DEF f

\* The walks of the module, in this state and in the next.
LEMMA ForwardIs ==
  ASSUME NEW L, Cached(heap, cache, allocated, size, L)
  PROVE  \A x \in 0 .. size+1 : /\ Forward("head")[x] = NodeAt(L, size, x)
                                /\ Backward("tail")[x] = NodeAt(L, size, size+1-x)
<1>1. size \in Nat /\ Linked(heap, L, size)
  BY DEF Cached
<1>2. Forward("head") = Walked(heap, size)
  BY DEF Forward, Walked
<1>3. Backward("tail") = WalkedBack(heap, size)
  BY DEF Backward, WalkedBack
<1>4. \A x \in 0 .. size+1 : Walked(heap, size)[x] = NodeAt(L, size, x)
  BY <1>1, WalkedIs
<1>5. \A x \in 0 .. size+1 : WalkedBack(heap, size)[x] = NodeAt(L, size, size+1-x)
  BY <1>1, WalkedBackIs
<1>6. QED
  BY <1>2, <1>3, <1>4, <1>5

LEMMA WalkedNodes ==
  ASSUME NEW h, NEW c, NEW a, NEW n, NEW L, Cached(h, c, a, n, L)
  PROVE  \A x \in 1 .. n : Walked(h, n)[x] = L[x]
<1>1. n \in Nat /\ IsList(L, n) /\ Linked(h, L, n)
  BY DEF Cached
<1>2. \A x \in 1 .. n : x \in 0 .. n+1
  BY <1>1
<1>3. QED
  BY <1>1, <1>2, WalkedIs, Places

LEMMA ListedIs ==
  ASSUME NEW L, Cached(heap, cache, allocated, size, L)
  PROVE  ListedEntries = Entries(heap, L, size)
<1>1. Forward("head") = Walked(heap, size)
  BY DEF Forward, Walked
<1>2. \A x \in 1 .. size : heap[Forward("head")[x]] = heap[L[x]]
  BY <1>1, WalkedNodes
<1>3. QED
  BY <1>2 DEF ListedEntries, Entries, Entry

LEMMA ListedNext ==
  ASSUME NEW L, Cached(heap', cache', allocated', size', L)
  PROVE  ListedEntries' = Entries(heap', L, size')
<1>1. Forward("head")' = Walked(heap', size')
  BY DEF Forward, Walked
<1>2. \A x \in 1 .. size' : heap'[(Forward("head")')[x]] = heap'[L[x]]
  BY <1>1, WalkedNodes
<1>3. QED
  BY <1>2 DEF ListedEntries, Entries, Entry

-----------------------------------------------------------------------------
(* The history: which entries the abstract cache has.                      *)

EntrySet == [key : Keys, value : Values \cup {NoValue}]

\* A list of keys, all different.
History(u) == u \in Seq(Keys) /\ \A x, y \in 1 .. Len(u) : u[x] = u[y] => x = y

\* In w the key k, which was at place i of u, or is new and was behind it, is first.
Fronted(w, u, k, i) ==
  /\ i \in 1 .. Len(u)+1
  /\ i <= Len(u) => u[i] = k
  /\ i = Len(u)+1 => \A x \in 1 .. Len(u) : u[x] # k
  /\ Len(w) = IF i <= Len(u) THEN Len(u) ELSE Len(u)+1
  /\ w[1] = k
  /\ \A y \in 2 .. i : w[y] = u[y-1]
  /\ \A y \in i+1 .. Len(u) : w[y] = u[y]

LEMMA MovedToFront ==
  ASSUME NEW S, NEW s \in Seq(S), NEW i \in 1 .. Len(s)
  PROVE  /\ MoveToFront(s, i) \in Seq(S) /\ Len(MoveToFront(s, i)) = Len(s)
         /\ MoveToFront(s, i)[1] = s[i]
         /\ \A y \in 2 .. i : MoveToFront(s, i)[y] = s[y-1]
         /\ \A y \in i+1 .. Len(s) : MoveToFront(s, i)[y] = s[y]
<1> DEFINE m == MoveToFront(s, i)
           n == Len(s)
<1>1. n \in Nat /\ DOMAIN s = 1 .. n /\ \A y \in 1 .. n : s[y] \in S
  BY LenProperties, ElementOfSeq
<1>2. m = [y \in 1 .. n |-> IF y = 1 THEN s[i] ELSE IF y <= i THEN s[y-1] ELSE s[y]]
  BY <1>1 DEF MoveToFront
<1> HIDE DEF m, n
<1>3. \A y \in 1 .. n : m[y] \in S
  <2>1. TAKE y \in 1 .. n
  <2>2. CASE y = 1
    BY <1>1, <1>2, <2>2 DEF n
  <2>3. CASE y # 1
    <3>1. y-1 \in 1 .. n
      BY <1>1, <2>3
    <3>2. QED
      BY <1>1, <1>2, <2>3, <3>1
  <2>4. QED
    BY <2>2, <2>3
<1>4. m \in Seq(S) /\ Len(m) = n
  <2>1. m \in [1 .. n -> S]
    BY <1>2, <1>3
  <2>2. QED
    BY <1>1, <2>1, LenProperties
<1>5. m[1] = s[i] /\ (\A y \in 2 .. i : m[y] = s[y-1]) /\ \A y \in i+1 .. n : m[y] = s[y]
  BY <1>1, <1>2 DEF n
<1>6. QED
  BY <1>4, <1>5 DEF m, n

LEMMA FrontOf ==
  ASSUME NEW u, History(u), NEW k \in Keys
  PROVE  History(KeyToFront(u, k)) /\ \E i : Fronted(KeyToFront(u, k), u, k, i)
<1> DEFINE n == Len(u)
           known == \E x \in DOMAIN u : u[x] = k
           all == IF known THEN u ELSE Append(u, k)
           i == CHOOSE x \in DOMAIN all : all[x] = k
           w == KeyToFront(u, k)
<1>1. n \in Nat /\ DOMAIN u = 1 .. n /\ \A x \in 1 .. n : u[x] \in Keys
  BY LenProperties, ElementOfSeq DEF History
<1>2. /\ all \in Seq(Keys) /\ Len(all) = IF known THEN n ELSE n+1
      /\ \A x \in 1 .. n : all[x] = u[x]
      /\ ~ known => all[n+1] = k /\ \A x \in 1 .. n : u[x] # k
  BY <1>1, AppendProperties DEF History
<1>3. DOMAIN all = 1 .. Len(all)
  BY <1>2, LenProperties
<1>4. \E x \in DOMAIN all : all[x] = k
  <2>1. CASE known
    BY <1>1, <1>2, <1>3, <2>1
  <2>2. CASE ~ known
    BY <1>1, <1>2, <1>3, <2>2
  <2>3. QED
    BY <2>1, <2>2
<1>5. w = MoveToFront(all, i)
  BY DEF KeyToFront
<1> HIDE DEF all, w
<1>6. i \in 1 .. Len(all) /\ all[i] = k
  BY <1>3, <1>4
<1> HIDE DEF i
<1>7. /\ w \in Seq(Keys) /\ Len(w) = Len(all) /\ w[1] = k
      /\ \A y \in 2 .. i : w[y] = all[y-1]
      /\ \A y \in i+1 .. Len(all) : w[y] = all[y]
  BY <1>2, <1>5, <1>6, MovedToFront
<1>8. \A x, y \in 1 .. Len(all) : all[x] = all[y] => x = y
  <2>1. \A x, y \in 1 .. n : u[x] = u[y] => x = y
    BY DEF History
  <2>2. CASE known
    BY <1>2, <2>1, <2>2
  <2>3. CASE ~ known
    <3>1. \A x \in 1 .. n+1 : x \in 1 .. n \/ x = n+1
      BY <1>1
    <3>2. QED
      BY <1>2, <2>1, <2>3, <3>1
  <2>4. QED
    BY <2>2, <2>3
<1>9. ASSUME NEW y \in 1 .. Len(all)
      PROVE  \E z \in 1 .. Len(all) :
               w[y] = all[z] /\ z = IF y = 1 THEN i ELSE IF y <= i THEN y-1 ELSE y
  <2>0. Len(all) \in Nat
    BY <1>2, LenProperties
  <2>1. CASE y = 1
    BY <1>6, <1>7, <2>1
  <2>2. CASE y \in 2 .. i
    <3>1. y-1 \in 1 .. Len(all) /\ y # 1 /\ y <= i
      BY <1>6, <2>2
    <3>2. QED
      BY <1>7, <2>2, <3>1
  <2>3. CASE y \in i+1 .. Len(all)
    <3>1. y # 1 /\ ~ (y <= i)
      BY <1>6, <2>3
    <3>2. QED
      BY <1>7, <2>3, <3>1
  <2>4. QED
    BY <1>6, <2>0, <2>1, <2>2, <2>3
<1>10. History(w)
  <2>1. ASSUME NEW x \in 1 .. Len(all), NEW y \in 1 .. Len(all), w[x] = w[y] PROVE x = y
    <3>1. PICK a \in 1 .. Len(all) :
            w[x] = all[a] /\ a = IF x = 1 THEN i ELSE IF x <= i THEN x-1 ELSE x
      BY <1>9
    <3>2. PICK b \in 1 .. Len(all) :
            w[y] = all[b] /\ b = IF y = 1 THEN i ELSE IF y <= i THEN y-1 ELSE y
      BY <1>9
    <3>3. a = b
      BY <1>8, <2>1, <3>1, <3>2
    <3>4. x \in Int /\ y \in Int /\ i \in Int /\ x >= 1 /\ y >= 1 /\ i >= 1
      BY <1>6
    <3>5. QED
      BY <3>1, <3>2, <3>3, <3>4
  <2>2. QED
    BY <1>7, <2>1 DEF History
<1>11. Fronted(w, u, k, i)
  <2>1. CASE known
    <3>1. Len(all) = n /\ i \in 1 .. n
      BY <1>2, <1>6, <2>1
    <3>2. /\ i \in 1 .. n+1 /\ i <= n /\ i # n+1 /\ u[i] = k
      BY <1>1, <1>2, <1>6, <3>1
    <3>3. \A y \in 2 .. i : y-1 \in 1 .. n
      BY <1>1, <3>1
    <3>4. \A y \in i+1 .. n : y \in 1 .. n
      BY <1>1, <3>1
    <3>5. QED
      BY <1>2, <1>7, <3>1, <3>2, <3>3, <3>4 DEF Fronted
  <2>2. CASE ~ known
    <3>1. Len(all) = n+1 /\ all[n+1] = k /\ \A x \in 1 .. n : u[x] # k
      BY <1>2, <2>2
    <3>2. i = n+1
      <4>1. n+1 \in 1 .. Len(all)
        BY <1>1, <3>1
      <4>2. QED
        BY <1>6, <1>8, <3>1, <4>1
    <3>3. ~ (i <= n) /\ i \in 1 .. n+1 /\ \A y \in 2 .. i : y-1 \in 1 .. n
      BY <1>1, <3>2
    <3>4. \A y \in i+1 .. n : FALSE
      BY <1>1, <3>2
    <3>5. QED
      BY <1>2, <1>7, <3>1, <3>2, <3>3, <3>4 DEF Fronted
  <2>3. QED
    BY <2>1, <2>2
<1>12. QED
  BY <1>10, <1>11 DEF w

\* The entries s are those of the keys used last of u, as many as a cache of capacity c
\* keeps, with the values of l.
Recalls(s, u, l, c) ==
  /\ s \in Seq(EntrySet) /\ History(u) /\ c \in Int
  /\ l \in [Keys -> Values \cup {NoValue}]
  /\ Len(s) = IF Len(u) <= c THEN Len(u) ELSE IF c < 0 THEN 0 ELSE c
  /\ \A x \in 1 .. Len(s) : s[x].key = u[x] /\ s[x].value = l[u[x]]

\* How an entry is found: at the place that its key has in the history.
LEMMA RecalledPlace ==
  ASSUME NEW s, NEW u, NEW l, NEW c, Recalls(s, u, l, c), NEW k \in Keys,
         NEW w, NEW i, Fronted(w, u, k, i)
  PROVE  /\ Len(s) \in Nat /\ Len(u) \in Nat /\ Len(s) <= Len(u) /\ i \in Nat \ {0}
         /\ \A x \in 1 .. Len(s) : x \in 1 .. Len(u)
         /\ Has(s, k) => IndexOf(s, k) = i /\ i \in 1 .. Len(s) /\ i <= Len(u)
         /\ ~ Has(s, k) => Len(s) < i /\ \A x \in 1 .. Len(s) : u[x] # k
<1>1. Len(s) \in Nat /\ DOMAIN s = 1 .. Len(s)
  BY LenProperties DEF Recalls
<1>2. Len(u) \in Nat
  BY LenProperties DEF Recalls, History
<1>3. Len(s) <= Len(u) /\ i \in Nat \ {0}
  BY <1>1, <1>2 DEF Recalls, Fronted
<1>4. \A x \in 1 .. Len(s) : x \in 1 .. Len(u)
  BY <1>1, <1>2, <1>3
<1>5. ASSUME NEW x \in 1 .. Len(s), s[x].key = k PROVE x = i
  <2>1. x \in 1 .. Len(u) /\ u[x] = k
    BY <1>4, <1>5 DEF Recalls
  <2>2. i \in 1 .. Len(u) /\ u[i] = k
    BY <1>2, <2>1 DEF Fronted
  <2>3. QED
    BY <2>1, <2>2 DEF Recalls, History
<1>6. ASSUME Has(s, k) PROVE IndexOf(s, k) = i /\ i \in 1 .. Len(s) /\ i <= Len(u)
  <2>1. PICK x \in 1 .. Len(s) : s[x].key = k
    BY <1>1, <1>6 DEF Has
  <2>2. i \in 1 .. Len(s) /\ s[i].key = k
    BY <1>5, <2>1
  <2>3. IndexOf(s, k) = i
    BY <1>1, <1>5, <2>2 DEF IndexOf
  <2>4. QED
    BY <1>4, <2>2, <2>3
<1>7. ASSUME ~ Has(s, k) PROVE Len(s) < i /\ \A x \in 1 .. Len(s) : u[x] # k
  <2>1. \A x \in 1 .. Len(s) : s[x].key # k
    BY <1>1, <1>7 DEF Has
  <2>2. \A x \in 1 .. Len(s) : u[x] # k
    BY <2>1 DEF Recalls
  <2>3. i \notin 1 .. Len(s)
    BY <1>2, <1>4, <2>2 DEF Fronted
  <2>4. QED
    BY <1>1, <1>3, <2>2, <2>3
<1>8. QED
  BY <1>1, <1>2, <1>3, <1>4, <1>6, <1>7

\* A hit, in get or, with a new value, in put.
LEMMA HitRecalls ==
  ASSUME NEW s, NEW u, NEW l, NEW c, Recalls(s, u, l, c), NEW k \in Keys, Has(s, k),
         NEW w, NEW i, Fronted(w, u, k, i), History(w), NEW v \in Values \cup {NoValue}
  PROVE  /\ Recalls(AfterGet(s, k), w, l, c)
         /\ Recalls(AfterPut(s, k, v, c), w, [l EXCEPT ![k] = v], c)
<1> DEFINE m == MoveToFront(s, i)
           b == [key |-> k, value |-> v]
           p == [m EXCEPT ![1] = b]
           g == [l EXCEPT ![k] = v]
<1>1. /\ Len(s) \in Nat /\ Len(u) \in Nat /\ Len(s) <= Len(u) /\ i \in Nat \ {0}
      /\ IndexOf(s, k) = i /\ i \in 1 .. Len(s) /\ i <= Len(u)
      /\ \A x \in 1 .. Len(s) : x \in 1 .. Len(u)
  BY RecalledPlace
<1>2. s \in Seq(EntrySet) /\ \A x \in 1 .. Len(s) : s[x].key = u[x] /\ s[x].value = l[u[x]]
  BY DEF Recalls
<1>3. /\ m \in Seq(EntrySet) /\ Len(m) = Len(s) /\ m[1] = s[i]
      /\ \A y \in 2 .. i : m[y] = s[y-1]
      /\ \A y \in i+1 .. Len(s) : m[y] = s[y]
  BY <1>1, <1>2, MovedToFront
<1>4. /\ Len(w) = Len(u) /\ w[1] = k /\ u[i] = k
      /\ \A y \in 2 .. i : w[y] = u[y-1]
      /\ \A y \in i+1 .. Len(u) : w[y] = u[y]
  BY <1>1 DEF Fronted
<1>5. AfterGet(s, k) = m /\ AfterPut(s, k, v, c) = p
  BY <1>1 DEF AfterGet, AfterPut
<1> HIDE DEF m
<1>6. m[1].key = w[1] /\ m[1].value = l[w[1]]
  BY <1>1, <1>2, <1>3, <1>4
<1>7. ASSUME NEW y \in 2 .. Len(s)
      PROVE  m[y].key = w[y] /\ m[y].value = l[w[y]] /\ w[y] # k /\ w[y] \in Keys
  <2>1. CASE y <= i
    <3>1. y-1 \in 1 .. Len(s) /\ y \in 2 .. i /\ y-1 # i
      BY <1>1, <2>1
    <3>2. u[y-1] # u[i] /\ u[y-1] \in Keys
      BY <1>1, <3>1, ElementOfSeq DEF Recalls, History
    <3>3. QED
      BY <1>2, <1>3, <1>4, <3>1, <3>2
  <2>2. CASE ~ (y <= i)
    <3>1. y \in i+1 .. Len(s) /\ y \in i+1 .. Len(u) /\ y \in 1 .. Len(s) /\ y # i
      BY <1>1, <2>2
    <3>2. u[y] # u[i] /\ u[y] \in Keys
      BY <1>1, <3>1, ElementOfSeq DEF Recalls, History
    <3>3. QED
      BY <1>2, <1>3, <1>4, <3>1, <3>2
  <2>3. QED
    BY <1>1, <2>1, <2>2
<1>8. \A y \in 1 .. Len(s) : y = 1 \/ y \in 2 .. Len(s)
  BY <1>1
<1>9. Recalls(m, w, l, c)
  <2>1. \A y \in 1 .. Len(m) : m[y].key = w[y] /\ m[y].value = l[w[y]]
    BY <1>3, <1>6, <1>7, <1>8
  <2>2. QED
    BY <1>3, <1>4, <2>1 DEF Recalls
<1>10. b \in EntrySet /\ b.key = k /\ b.value = v
  BY DEF EntrySet
<1>11. g \in [Keys -> Values \cup {NoValue}] /\ g[k] = v /\ \A q \in Keys : q # k => g[q] = l[q]
  BY DEF Recalls
<1> HIDE DEF b, g
<1>12. /\ p \in Seq(EntrySet) /\ Len(p) = Len(s) /\ p[1] = b
       /\ \A y \in 2 .. Len(s) : p[y] = m[y]
  <2>1. m \in [1 .. Len(s) -> EntrySet]
    BY <1>3
  <2>2. p \in [1 .. Len(s) -> EntrySet] /\ p[1] = b /\ \A y \in 2 .. Len(s) : p[y] = m[y]
    BY <1>1, <1>10, <2>1
  <2> HIDE DEF p
  <2>3. p \in Seq(EntrySet) /\ Len(p) = Len(s)
    BY <1>1, <2>2, LenProperties
  <2>4. QED
    BY <2>2, <2>3
<1> HIDE DEF p
<1>13. Recalls(p, w, g, c)
  <2>1. \A y \in 1 .. Len(p) : p[y].key = w[y] /\ p[y].value = g[w[y]]
    BY <1>4, <1>7, <1>8, <1>10, <1>11, <1>12
  <2>2. QED
    BY <1>4, <1>11, <1>12, <2>1 DEF Recalls
<1>14. QED
  BY <1>5, <1>9, <1>13 DEF g

\* A put of a key that is not cached, with an eviction if there are too many.
LEMMA MissRecalls ==
  ASSUME NEW s, NEW u, NEW l, NEW c, Recalls(s, u, l, c), NEW k \in Keys, ~ Has(s, k),
         NEW w, NEW i, Fronted(w, u, k, i), History(w), NEW v \in Values
  PROVE  Recalls(AfterPut(s, k, v, c), w, [l EXCEPT ![k] = v], c)
<1> DEFINE b == [key |-> k, value |-> v]
           a == <<b>> \o s
           p == IF Len(a) > c THEN SubSeq(a, 1, Len(a) - 1) ELSE a
           g == [l EXCEPT ![k] = v]
<1>1. /\ Len(s) \in Nat /\ Len(u) \in Nat /\ Len(s) <= Len(u) /\ i \in Nat \ {0} /\ Len(s) < i
      /\ \A x \in 1 .. Len(s) : x \in 1 .. Len(u) /\ u[x] # k
  BY RecalledPlace
<1>2. /\ s \in Seq(EntrySet) /\ \A x \in 1 .. Len(s) : s[x].key = u[x] /\ s[x].value = l[u[x]]
      /\ Len(s) = IF Len(u) <= c THEN Len(u) ELSE IF c < 0 THEN 0 ELSE c
      /\ c \in Int /\ \A x \in 1 .. Len(s) : u[x] \in Keys
  BY <1>1, ElementOfSeq DEF Recalls, History
<1>3. /\ Len(w) = IF i <= Len(u) THEN Len(u) ELSE Len(u)+1
      /\ i <= Len(u)+1 /\ w[1] = k /\ \A y \in 2 .. i : w[y] = u[y-1]
  BY DEF Fronted
<1>4. b \in EntrySet /\ b.key = k /\ b.value = v
  BY DEF EntrySet
<1>5. g \in [Keys -> Values \cup {NoValue}] /\ g[k] = v /\ \A q \in Keys : q # k => g[q] = l[q]
  BY DEF Recalls
<1>6. AfterPut(s, k, v, c) = p
  BY DEF AfterPut, Evict
<1> HIDE DEF b, g
<1>7. /\ a \in Seq(EntrySet) /\ Len(a) = Len(s) + 1 /\ a[1] = b
      /\ \A x \in 1 .. Len(s) : a[x+1] = s[x]
  <2>1. <<b>> \in Seq(EntrySet) /\ Len(<<b>>) = 1
    BY <1>4
  <2>2. a \in Seq(EntrySet) /\ Len(a) = Len(s) + 1
    BY <1>1, <1>2, <2>1, ConcatProperties
  <2>3. a[1] = b /\ \A x \in 1 .. Len(s) : a[x+1] = s[x]
    BY <1>2, <1>4, InFrontOf
  <2>4. QED
    BY <2>2, <2>3
<1> HIDE DEF a
<1>8. /\ p \in Seq(EntrySet) /\ Len(p) = IF Len(s) + 1 > c THEN Len(s) ELSE Len(s) + 1
      /\ \A y \in 1 .. Len(p) : p[y] = a[y]
  <2>1. CASE Len(a) > c
    <3>1. SubSeq(a, 1, Len(a) - 1) \in Seq(EntrySet)
          /\ Len(SubSeq(a, 1, Len(a) - 1)) = Len(s)
          /\ \A y \in 1 .. Len(s) : SubSeq(a, 1, Len(a) - 1)[y] = a[y]
      <4>1. Len(a) - 1 \in 1-1 .. Len(a) /\ Len(a) - 1 = Len(s)
        BY <1>1, <1>7
      <4>2. \A y \in 1 .. Len(a) - 1 : a[y] \in EntrySet
        BY <1>1, <1>7, ElementOfSeq
      <4>3. QED
        BY <1>1, <1>7, <4>1, <4>2, SubSeqProperties
    <3>2. QED
      BY <1>7, <2>1, <3>1
  <2>2. CASE ~ (Len(a) > c)
    BY <1>7, <2>2
  <2>3. QED
    BY <2>1, <2>2
<1> HIDE DEF p
<1>9. Len(p) = IF Len(w) <= c THEN Len(w) ELSE IF c < 0 THEN 0 ELSE c
  BY <1>1, <1>2, <1>3, <1>8
<1>10. ASSUME NEW y \in 1 .. Len(p) PROVE p[y].key = w[y] /\ p[y].value = g[w[y]]
  <2>1. CASE y = 1
    BY <1>3, <1>4, <1>5, <1>7, <1>8, <2>1
  <2>2. CASE y # 1
    <3>1. y-1 \in 1 .. Len(s) /\ (y-1)+1 = y /\ y \in 2 .. i
      BY <1>1, <1>2, <1>8, <2>2
    <3>2. p[y] = s[y-1] /\ w[y] = u[y-1]
      BY <1>3, <1>7, <1>8, <3>1
    <3>3. QED
      BY <1>1, <1>2, <1>5, <3>1, <3>2
  <2>3. QED
    BY <2>1, <2>2
<1>11. QED
  BY <1>5, <1>6, <1>8, <1>9, <1>10 DEF Recalls, g

-----------------------------------------------------------------------------
(* The theorems.                                                           *)

CacheInv == \E L : Cached(heap, cache, allocated, size, L)

LEMMA Initially == Init => CacheInv /\ Abstract!Init
<1> SUFFICES ASSUME Init PROVE CacheInv /\ Abstract!Init
  OBVIOUS
<1>1. PICK L : Cached(heap, cache, allocated, size, L)
  BY NoneCached
<1>2. ListedEntries = <<>>
  <2>1. size = 0
    BY DEF Init
  <2>2. ListedEntries = [x \in 1 .. 0 |-> Entry(heap, L[x])]
    BY <1>1, <2>1, ListedIs DEF Entries
  <2>3. QED
    BY <2>2
<1>3. QED
  BY <1>1, <1>2 DEF CacheInv, Abstract!Init, Init

LEMMA Inductive == CacheInv /\ [Next]_vars => CacheInv'
<1> SUFFICES ASSUME CacheInv, [Next]_vars PROVE CacheInv'
  OBVIOUS
<1>1. PICK L : Cached(heap, cache, allocated, size, L)
  BY DEF CacheInv
<1>2. ASSUME NEW s, Becomes(s) PROVE CacheInv'
  BY <1>2 DEF Becomes, CachedAs, CacheInv
<1>3. ASSUME NEW k \in Keys, Get(k) PROVE CacheInv'
  BY <1>1, <1>2, <1>3, GetStep
<1>4. ASSUME NEW k \in Keys, NEW v \in Values, Put(k, v) PROVE CacheInv'
  BY <1>1, <1>2, <1>4, PutStep
<1>5. CASE UNCHANGED vars
  BY <1>5 DEF vars, CacheInv
<1>6. QED
  BY <1>3, <1>4, <1>5 DEF Next

LEMMA Invariant == Spec => []CacheInv
<1>1. Init => CacheInv
  BY Initially
<1>2. QED
  BY <1>1, Inductive, PTL DEF Spec

LEMMA InvIsSymmetric == CacheInv => ListIsSymmetric
<1> SUFFICES ASSUME NEW L, Cached(heap, cache, allocated, size, L) PROVE ListIsSymmetric
  BY DEF CacheInv
<1> DEFINE f == Forward("head")
           b == Backward("tail")
<1>1. size \in Nat
  BY DEF Cached
<1>2. \A x \in 0 .. size+1 : f[x] = NodeAt(L, size, x) /\ b[x] = NodeAt(L, size, size+1-x)
  BY ForwardIs
<1>3. size+1 \in 0 .. size+1 /\ \A x \in 0 .. size+1 : size+1-x \in 0 .. size+1
  BY <1>1
<1>4. NodeAt(L, size, size+1) = "tail"
  BY <1>1 DEF NodeAt
<1> HIDE DEF f, b
<1>5. f[size+1] = "tail" /\ \A x \in 0 .. size+1 : b[x] = f[size+1-x]
  BY <1>2, <1>3, <1>4
<1>6. QED
  BY <1>5 DEF ListIsSymmetric, f, b

LEMMA InvMatches == CacheInv => MapMatchesList
<1> SUFFICES ASSUME NEW L, Cached(heap, cache, allocated, size, L) PROVE MapMatchesList
  BY DEF CacheInv
<1> DEFINE nodes == { Forward("head")[x] : x \in 1 .. size }
           mapped == { cache[k] : k \in { q \in Keys : cache[q] # "nullptr" } }
<1>1. size \in Nat /\ IsList(L, size) /\ allocated = { L[x] : x \in 1 .. size }
  BY DEF Cached
<1>2. \A x \in 1 .. size : Forward("head")[x] = L[x] /\ L[x] \in Addresses
  <2>1. \A x \in 1 .. size : x \in 0 .. size+1
    BY <1>1
  <2>2. QED
    BY <1>1, <2>1, ForwardIs, Places
<1>3. nodes = allocated
  BY <1>1, <1>2
<1>4. \A k \in Keys : cache[k] # "nullptr" => cache[k] \in allocated /\ heap[cache[k]].key = k
  BY <1>1 DEF Cached
<1>5. \A p \in allocated : p # "nullptr" /\ \E k \in Keys : cache[k] = p
  BY <1>1, <1>2, Apart DEF Cached
<1>6. mapped = allocated
  BY <1>4, <1>5
<1>7. QED
  BY <1>3, <1>4, <1>6 DEF MapMatchesList

LEMMA StepRefines == CacheInv /\ [Next]_vars => [Abstract!Next]_(Abstract!vars)
<1> SUFFICES ASSUME CacheInv, [Next]_vars PROVE [Abstract!Next]_(Abstract!vars)
  OBVIOUS
<1>1. PICK L : Cached(heap, cache, allocated, size, L)
  BY DEF CacheInv
<1>2. ListedEntries = Entries(heap, L, size)
  BY <1>1, ListedIs
<1>3. ASSUME NEW s, Becomes(s) PROVE ListedEntries' = s
  BY <1>3, ListedNext DEF Becomes, CachedAs
<1>4. ASSUME NEW k \in Keys, Get(k) PROVE Abstract!Get(k)
  <2>1. ListedEntries' = AfterGet(ListedEntries, k) /\ ret' = Lookup(ListedEntries, k)
    BY <1>1, <1>2, <1>3, <1>4, GetStep
  <2>2. UNCHANGED capacity
    BY <1>4 DEF Get
  <2>3. QED
    BY <2>1, <2>2 DEF Abstract!Get, Abstract!AfterGet, Abstract!Lookup, Abstract!Has,
       Abstract!IndexOf, Abstract!MoveToFront, AfterGet, Lookup, Has, IndexOf, MoveToFront
<1>5. ASSUME NEW k \in Keys, NEW v \in Values, Put(k, v) PROVE Abstract!Put(k, v)
  <2>1. ListedEntries' = AfterPut(ListedEntries, k, v, capacity)
    BY <1>1, <1>2, <1>3, <1>5, PutStep
  <2>2. ret' = NoValue /\ UNCHANGED capacity
    BY <1>5 DEF Put
  <2>3. QED
    BY <2>1, <2>2 DEF Abstract!Put, Abstract!AfterPut, Abstract!Has, Abstract!IndexOf,
       Abstract!MoveToFront, Abstract!Evict, AfterPut, Has, IndexOf, MoveToFront, Evict
<1>6. CASE UNCHANGED vars
  <2>1. ListedEntries' = ListedEntries
    BY <1>6 DEF vars, ListedEntries, Forward
  <2>2. QED
    BY <1>6, <2>1 DEF vars, Abstract!vars
<1>7. QED
  BY <1>4, <1>5, <1>6 DEF Next, Abstract!Next

\* The entries of this cache are those of the history.
HistoryInv == Recalls(ListedEntries, used, latest, capacity)

LEMMA HistoryInitially == Init => HistoryInv
<1> SUFFICES ASSUME Init PROVE HistoryInv
  OBVIOUS
<1>1. ListedEntries = <<>>
  BY Initially DEF Abstract!Init
<1>2. used = <<>> /\ capacity \in Int /\ latest \in [Keys -> Values \cup {NoValue}]
  BY LRUCacheAssumption DEF Init
<1>3. Recalls(<<>>, <<>>, latest, capacity)
  <2> DEFINE e == <<>>
  <2>1. e \in Seq(EntrySet) /\ e \in Seq(Keys) /\ Len(e) = 0 /\ \A x \in 1 .. 0 : FALSE
    OBVIOUS
  <2> HIDE DEF e
  <2>2. Recalls(e, e, latest, capacity)
    BY <1>2, <2>1 DEF Recalls, History
  <2>3. QED
    BY <2>2 DEF e
<1>4. QED
  BY <1>1, <1>2, <1>3 DEF HistoryInv

LEMMA HistoryInductive == CacheInv /\ HistoryInv /\ [Next]_vars => HistoryInv'
<1> SUFFICES ASSUME CacheInv, HistoryInv, [Next]_vars PROVE HistoryInv'
  OBVIOUS
<1> DEFINE s == ListedEntries
<1>1. PICK L : Cached(heap, cache, allocated, size, L)
  BY DEF CacheInv
<1>2. s = Entries(heap, L, size)
  BY <1>1, ListedIs
<1>3. ASSUME NEW t, Becomes(t) PROVE ListedEntries' = t
  BY <1>3, ListedNext DEF Becomes, CachedAs
<1>4. Recalls(s, used, latest, capacity)
  BY DEF HistoryInv
<1> HIDE DEF s
<1>5. ASSUME NEW k \in Keys, used' = KeyToFront(used, k)
      PROVE  History(used') /\ \E i : Fronted(used', used, k, i)
  BY <1>4, <1>5, FrontOf DEF Recalls
<1>6. ASSUME NEW k \in Keys, Get(k) PROVE HistoryInv'
  <2>1. ListedEntries' = AfterGet(s, k)
    BY <1>1, <1>2, <1>3, <1>6, GetStep
  <2>2. CASE cache[k] = "nullptr"
    <3>1. ~ Has(s, k)
      BY <1>1, <1>2, <2>2, Position
    <3>2. ListedEntries' = s /\ UNCHANGED <<used, latest, capacity>>
      BY <1>6, <2>1, <2>2, <3>1 DEF AfterGet, Get
    <3>3. QED
      BY <1>4, <3>2 DEF HistoryInv
  <2>3. CASE cache[k] # "nullptr"
    <3>1. Has(s, k)
      BY <1>1, <1>2, <2>3, Position
    <3>2. used' = KeyToFront(used, k) /\ UNCHANGED <<latest, capacity>>
      BY <1>6, <2>3 DEF Get
    <3>3. PICK i : Fronted(used', used, k, i)
      BY <1>5, <3>2
    <3>4. History(used')
      BY <1>5, <3>2
    <3>5. PICK v : v \in Values \cup {NoValue}
      OBVIOUS
    <3>6. Recalls(AfterGet(s, k), used', latest, capacity)
      BY <1>4, <3>1, <3>3, <3>4, <3>5, HitRecalls
    <3>7. QED
      BY <2>1, <3>2, <3>6 DEF HistoryInv
  <2>4. QED
    BY <2>2, <2>3
<1>7. ASSUME NEW k \in Keys, NEW v \in Values, Put(k, v) PROVE HistoryInv'
  <2>1. ListedEntries' = AfterPut(s, k, v, capacity)
    BY <1>1, <1>2, <1>3, <1>7, PutStep
  <2>2. /\ used' = KeyToFront(used, k) /\ latest' = [latest EXCEPT ![k] = v]
        /\ capacity' = capacity
    BY <1>7 DEF Put
  <2>3. PICK i : Fronted(used', used, k, i)
    BY <1>5, <2>2
  <2>4. v \in Values \cup {NoValue} /\ History(used')
    BY <1>5, <2>2
  <2>5. Recalls(AfterPut(s, k, v, capacity), used', [latest EXCEPT ![k] = v], capacity)
    <3>1. CASE Has(s, k)
      BY <1>4, <2>3, <2>4, <3>1, HitRecalls
    <3>2. CASE ~ Has(s, k)
      BY <1>4, <2>3, <2>4, <3>2, MissRecalls
    <3>3. QED
      BY <3>1, <3>2
  <2>6. QED
    BY <2>1, <2>2, <2>5 DEF HistoryInv
<1>8. CASE UNCHANGED vars
  <2>1. ListedEntries' = ListedEntries
    BY <1>8 DEF vars, ListedEntries, Forward
  <2>2. QED
    BY <1>8, <2>1 DEF vars, HistoryInv
<1>9. QED
  BY <1>6, <1>7, <1>8 DEF Next

LEMMA InvRemembers == CacheInv /\ HistoryInv => KeepsMostRecentlyUsed
<1> SUFFICES ASSUME NEW L, Cached(heap, cache, allocated, size, L), HistoryInv, NEW k \in Keys
             PROVE  /\ (cache[k] # "nullptr") <=>
                         \E x \in DOMAIN used : x <= capacity /\ used[x] = k
                    /\ cache[k] # "nullptr" => heap[cache[k]].value = latest[k]
  BY DEF CacheInv, KeepsMostRecentlyUsed
<1> DEFINE s == Entries(heap, L, size)
<1>1. Recalls(s, used, latest, capacity)
  BY ListedIs DEF HistoryInv
<1>2. /\ size \in Nat
      /\ \A x \in 1 .. size : /\ s[x].key = heap[L[x]].key /\ s[x].value = heap[L[x]].value
                              /\ cache[heap[L[x]].key] = L[x] /\ L[x] # "nullptr"
  BY Apart DEF Entries, Entry, Cached, IsList
<1>3. Len(s) = size
  <2>1. DOMAIN s = 1 .. size
    BY DEF Entries
  <2> HIDE DEF s
  <2>2. s \in Seq(EntrySet)
    BY <1>1 DEF Recalls
  <2>3. QED
    BY <1>2, <2>1, <2>2, LenProperties
<1> HIDE DEF s
<1>4. Len(used) \in Nat /\ DOMAIN used = 1 .. Len(used)
  BY <1>1, LenProperties DEF Recalls, History
<1>5. /\ size = IF Len(used) <= capacity THEN Len(used) ELSE IF capacity < 0 THEN 0 ELSE capacity
      /\ capacity \in Int
      /\ \A x \in 1 .. size : heap[L[x]].key = used[x] /\ heap[L[x]].value = latest[used[x]]
  BY <1>1, <1>2, <1>3 DEF Recalls
<1> DEFINE u == Len(used)
<1>6. u \in Nat /\ size = (IF u <= capacity THEN u ELSE IF capacity < 0 THEN 0 ELSE capacity)
      /\ capacity \in Int
  BY <1>4, <1>5
<1> HIDE DEF u
<1>7. \A x \in Int : x \in 1 .. size <=> x \in 1 .. u /\ x <= capacity
  BY <1>2, <1>6
<1>8. ASSUME cache[k] # "nullptr"
      PROVE  /\ heap[cache[k]].value = latest[k]
             /\ \E x \in DOMAIN used : x <= capacity /\ used[x] = k
  <2>1. PICK i \in 1 .. size : L[i] = cache[k] /\ heap[L[i]].key = k
    BY <1>8 DEF Cached
  <2>2. i \in DOMAIN used /\ i <= capacity
    BY <1>4, <1>7 DEF u
  <2>3. QED
    BY <1>5, <2>1, <2>2
<1>9. ASSUME NEW x \in DOMAIN used, x <= capacity, used[x] = k PROVE cache[k] # "nullptr"
  <2>1. x \in 1 .. size
    BY <1>4, <1>9, <1>7 DEF u
  <2>2. QED
    BY <1>2, <1>5, <1>9, <2>1
<1>10. QED
  BY <1>8, <1>9

\* The links in both directions are one list, so that an eviction unlinks the node
\* that was used longest ago.
THEOREM ListsAreSymmetric == Spec => []ListIsSymmetric
BY Invariant, InvIsSymmetric, PTL

\* No call leaves a node behind in the map, in the list or on the heap that the
\* other two have not.
THEOREM MapsMatchLists == Spec => []MapMatchesList
BY Invariant, InvMatches, PTL

\* After any calls the cache has exactly the keys used last, as many as fit, each with
\* the value last put: an eviction never takes another key than the one used longest
\* ago, and a hit never gives a value that was overwritten.
THEOREM RemembersLastUsed == Spec => []KeepsMostRecentlyUsed
<1>1. Spec => []HistoryInv
  BY HistoryInitially, HistoryInductive, Invariant, PTL DEF Spec
<1>2. QED
  BY <1>1, Invariant, InvRemembers, PTL

\* get and put of the linked list and the hash map are get and put of the abstract
\* cache: same entries, same order of use, same answers.
THEOREM CacheImplementsLRU == Spec => ImplementsLRU
BY Initially, Invariant, StepRefines, PTL DEF ImplementsLRU, Spec, Abstract!Spec
=============================================================================
