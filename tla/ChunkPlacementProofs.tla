------------------------ MODULE ChunkPlacementProofs ------------------------
(***************************************************************************)
(* Proofs about ChunkPlacement, for every number of nodes, of chunks and   *)
(* every stream: the placement a node computes is a bijection, the map it  *)
(* inverts it to is the inverse, and all nodes compute the same one.       *)
(***************************************************************************)
EXTENDS ChunkPlacement, FiniteSetTheorems, TLAPS

\* An injective map of the positions into themselves reaches every position.
LEMMA PositionsPigeonhole ==
  ASSUME NEW f \in [Pos -> Pos],
         \A p, q \in Pos : f[p] = f[q] => p = q
  PROVE  \A v \in Pos : \E p \in Pos : f[p] = v
<1>1. IsFiniteSet(Pos)
  BY FS_Interval, PlacementAssumption DEF Pos
<1>2. f \in Injection(Pos, Pos)
  BY DEF Injection, IsInjective
<1>3. f \in Surjection(Pos, Pos)
  BY <1>1, <1>2, FS_Injection
<1>4. QED
  BY <1>3 DEF Surjection

LEMMA PlacementInit == Init => PlacementInv
<1> SUFFICES ASSUME Init PROVE PlacementInv
  OBVIOUS
<1> USE PlacementAssumption DEF Init, Pos
<1>1. TypeOK
  BY DEF TypeOK, Unset
<1>2. QED
  BY <1>1 DEF PlacementInv, LoopInv, Placed

\* A step of one node leaves the loops of the others where they are.
LEMMA OtherNodesFrame ==
  ASSUME NEW m \in Nodes, LoopInv(m),
         pc'[m] = pc[m], j'[m] = j[m], i'[m] = i[m],
         chunk_set'[m] = chunk_set[m],
         node_index_to_chunk_pos'[m] = node_index_to_chunk_pos[m]
  PROVE  LoopInv(m)'
BY DEF LoopInv, Placed

\* The new entry is either drawn again or distinct from those before it.
LEMMA DrawStep ==
  ASSUME PlacementInv, NEW n \in Nodes, Draw(n)
  PROVE  PlacementInv'
<1> USE PlacementAssumption
<1> DEFINE v   == generator[epoch[n]][drawn[n]]
           set == [chunk_set[n] EXCEPT ![j[n]] = v]
<1>1. v \in Pos
  BY DEF Streams, PlacementInv, TypeOK
<1>2. j[n] \in Pos /\ pc[n] = "drawing" /\ ~ Placed(n)
  BY DEF Draw, Pos, PlacementInv, TypeOK, Placed
<1>3. set \in [Pos -> Pos \cup {Unset}]
  BY <1>1, <1>2 DEF PlacementInv, TypeOK
<1>4. /\ chunk_set' = [chunk_set EXCEPT ![n] = set]
      /\ j' = [j EXCEPT ![n] = IF Duplicate(set, j[n]) THEN j[n] ELSE j[n] + 1]
      /\ drawn' = [drawn EXCEPT ![n] = (@ + 1) % Period]
      /\ UNCHANGED <<generator, pc, epoch, i, node_index_to_chunk_pos>>
  BY DEF Draw
<1>5. TypeOK'
  <2>1. drawn' \in [Nodes -> 0 .. Period-1]
    BY <1>4 DEF PlacementInv, TypeOK
  <2>2. j' \in [Nodes -> 0 .. N]
    <3>1. j \in [Nodes -> 0 .. N]
      BY DEF PlacementInv, TypeOK
    <3>2. j[n] \in 0 .. N /\ j[n] + 1 \in 0 .. N
      BY <1>2 DEF Pos
    <3>3. QED
      BY <1>4, <3>1, <3>2
  <2>3. chunk_set' \in [Nodes -> [Pos -> Pos \cup {Unset}]]
    BY <1>3, <1>4 DEF PlacementInv, TypeOK
  <2>4. QED
    BY <1>4, <2>1, <2>2, <2>3 DEF PlacementInv, TypeOK
<1>6. ASSUME NEW m \in Nodes, m # n
      PROVE  LoopInv(m)'
  BY <1>4, <1>6, OtherNodesFrame DEF PlacementInv, TypeOK
<1>7. LoopInv(n)'
  <2>1. /\ chunk_set'[n] = set
        /\ j'[n] = IF Duplicate(set, j[n]) THEN j[n] ELSE j[n] + 1
        /\ pc'[n] = "drawing" /\ i'[n] = 0
    BY <1>2, <1>4 DEF PlacementInv, TypeOK, LoopInv
  <2>2. \A p \in 0 .. j[n]-1 : p \in Pos /\ p # j[n] /\ set[p] = chunk_set[n][p]
    BY <1>2, <1>3 DEF Pos, PlacementInv, TypeOK
  <2>3. set[j[n]] = v
    BY <1>2 DEF PlacementInv, TypeOK
  <2>4. \A p \in 0 .. j[n]-1 : set[p] \in Pos
    BY <2>2 DEF PlacementInv, LoopInv
  <2>5. \A p, q \in 0 .. j[n]-1 : set[p] = set[q] => p = q
    BY <2>2 DEF PlacementInv, LoopInv
  <2>6. CASE Duplicate(set, j[n])
    BY <2>1, <2>4, <2>5, <2>6 DEF LoopInv, Placed
  <2>7. CASE ~ Duplicate(set, j[n])
    <3>1. j'[n] - 1 = j[n] /\ j[n] \in Nat
      BY <1>2, <2>1, <2>7 DEF Pos
    <3>2. \A p \in 0 .. j[n]-1 : set[p] # set[j[n]]
      BY <2>7 DEF Duplicate
    <3>3. \A p \in 0 .. j[n] : p \in 0 .. j[n]-1 \/ p = j[n]
      BY <3>1
    <3>4. \A p \in 0 .. j[n] : set[p] \in Pos
      BY <1>1, <2>3, <2>4, <3>3
    <3>5. \A p, q \in 0 .. j[n] : set[p] = set[q] => p = q
      BY <2>5, <3>2, <3>3
    <3>6. QED
      BY <2>1, <3>1, <3>4, <3>5 DEF LoopInv, Placed
  <2>8. QED
    BY <2>6, <2>7
<1>8. QED
  BY <1>5, <1>6, <1>7 DEF PlacementInv

\* The entry inverted last is in place and, the placement being one-to-one,
\* overwrites none of those inverted before it.
LEMMA InvertStep ==
  ASSUME PlacementInv, NEW n \in Nodes, Invert(n)
  PROVE  PlacementInv'
<1> USE PlacementAssumption
<1> DEFINE cs  == chunk_set[n]
           inv == [node_index_to_chunk_pos[n] EXCEPT ![cs[i[n]]] = i[n]]
<1>1. /\ node_index_to_chunk_pos' = [node_index_to_chunk_pos EXCEPT ![n] = inv]
      /\ i' = [i EXCEPT ![n] = i[n] + 1]
      /\ pc[n] = "inverting" /\ i[n] < N
      /\ UNCHANGED <<generator, pc, epoch, drawn, j, chunk_set>>
  BY DEF Invert
<1>2. /\ i[n] \in Pos /\ j[n] = N
      /\ \A p \in Pos : cs[p] \in Pos
      /\ \A p, q \in Pos : cs[p] = cs[q] => p = q
  <2>1. i[n] \in 0 .. N
    BY DEF PlacementInv, TypeOK
  <2>2. LoopInv(n) /\ Placed(n)
    BY <1>1 DEF PlacementInv, Placed
  <2>3. i[n] \in Pos /\ j[n] = N
    BY <1>1, <2>1, <2>2 DEF LoopInv, Pos
  <2>4. QED
    BY <2>2, <2>3 DEF LoopInv, Pos
<1>3. inv \in [Pos -> Pos]
  BY <1>2 DEF PlacementInv, TypeOK
<1>4. TypeOK'
  <2>1. i' \in [Nodes -> 0 .. N]
    <3>1. i \in [Nodes -> 0 .. N]
      BY DEF PlacementInv, TypeOK
    <3>2. i[n] + 1 \in 0 .. N
      BY <1>2 DEF Pos
    <3>3. QED
      BY <1>1, <3>1, <3>2
  <2>2. node_index_to_chunk_pos' \in [Nodes -> [Pos -> Pos]]
    BY <1>1, <1>3 DEF PlacementInv, TypeOK
  <2>3. QED
    BY <1>1, <2>1, <2>2 DEF PlacementInv, TypeOK
<1>5. ASSUME NEW m \in Nodes, m # n
      PROVE  LoopInv(m)'
  BY <1>1, <1>5, OtherNodesFrame DEF PlacementInv, TypeOK
<1>6. LoopInv(n)'
  <2>1. /\ node_index_to_chunk_pos'[n] = inv
        /\ i'[n] = i[n] + 1
        /\ chunk_set'[n] = cs /\ j'[n] = j[n] /\ pc'[n] = "inverting"
    BY <1>1 DEF PlacementInv, TypeOK
  <2>2. \A p \in 0 .. i[n]-1 : node_index_to_chunk_pos[n][cs[p]] = p
    BY <1>1 DEF PlacementInv, LoopInv, Placed
  <2>3. \A p \in 0 .. i[n] : inv[cs[p]] = p
    <3>1. inv[cs[i[n]]] = i[n]
      BY <1>2 DEF PlacementInv, TypeOK
    <3>2. \A p \in 0 .. i[n]-1 : p \in Pos /\ cs[p] # cs[i[n]]
      BY <1>2 DEF Pos
    <3>3. \A p \in 0 .. i[n]-1 : inv[cs[p]] = p
      BY <1>2, <2>2, <3>2 DEF PlacementInv, TypeOK
    <3>4. \A p \in 0 .. i[n] : p \in 0 .. i[n]-1 \/ p = i[n]
      BY <1>2 DEF Pos
    <3>5. QED
      BY <3>1, <3>3, <3>4
  <2>4. i'[n] - 1 = i[n]
    BY <1>2, <2>1 DEF Pos
  <2>5. \A p \in 0 .. i'[n]-1 : node_index_to_chunk_pos'[n][chunk_set'[n][p]] = p
    BY <2>1, <2>3, <2>4
  <2>6. j[n] = N /\ \A p \in 0 .. j[n]-1 : cs[p] \in Pos
    BY <1>2 DEF Pos
  <2>7. \A p, q \in 0 .. j[n]-1 : cs[p] = cs[q] => p = q
    BY <1>2 DEF Pos
  <2>8. QED
    BY <2>1, <2>5, <2>6, <2>7 DEF LoopInv, Placed
<1>7. QED
  BY <1>4, <1>5, <1>6 DEF PlacementInv

LEMMA PlacementStep == PlacementInv /\ [Next]_vars => PlacementInv'
<1> SUFFICES ASSUME PlacementInv, [Next]_vars
             PROVE  PlacementInv'
  OBVIOUS
<1> USE PlacementAssumption
<1>1. ASSUME NEW n \in Nodes, NEW e \in Epochs, Call(n, e)
      PROVE  PlacementInv'
  <2>1. TypeOK'
    <3>1. /\ 0 \in 0 .. Period-1 /\ 0 \in 0 .. N
          /\ [p \in Pos |-> Unset] \in [Pos -> Pos \cup {Unset}]
      OBVIOUS
    <3>2. [p \in Pos |-> 0] \in [Pos -> Pos]
      BY DEF Pos
    <3>3. QED
      BY <1>1, <3>1, <3>2 DEF Call, PlacementInv, TypeOK
  <2>2. ASSUME NEW m \in Nodes, m # n
        PROVE  LoopInv(m)'
    BY <1>1, <2>2, OtherNodesFrame DEF Call, PlacementInv, TypeOK
  <2>3. LoopInv(n)'
    BY <1>1 DEF Call, PlacementInv, TypeOK, LoopInv, Placed
  <2>4. QED
    BY <2>1, <2>2, <2>3 DEF PlacementInv
<1>2. ASSUME NEW n \in Nodes, Drawn(n)
      PROVE  PlacementInv'
  <2>1. TypeOK'
    BY <1>2 DEF Drawn, PlacementInv, TypeOK
  <2>2. ASSUME NEW m \in Nodes, m # n
        PROVE  LoopInv(m)'
    BY <1>2, <2>2, OtherNodesFrame DEF Drawn, PlacementInv, TypeOK
  <2>3. LoopInv(n)'
    BY <1>2 DEF Drawn, PlacementInv, TypeOK, LoopInv, Placed
  <2>4. QED
    BY <2>1, <2>2, <2>3 DEF PlacementInv
<1>3. ASSUME NEW n \in Nodes, Inverted(n) \/ Return(n)
      PROVE  PlacementInv'
  <2>1. TypeOK'
    BY <1>3 DEF Inverted, Return, PlacementInv, TypeOK
  <2>2. ASSUME NEW m \in Nodes, m # n
        PROVE  LoopInv(m)'
    BY <1>3, <2>2, OtherNodesFrame DEF Inverted, Return, PlacementInv, TypeOK
  <2>3. LoopInv(n)'
    BY <1>3 DEF Inverted, Return, PlacementInv, TypeOK, LoopInv, Placed
  <2>4. QED
    BY <2>1, <2>2, <2>3 DEF PlacementInv
<1>4. CASE UNCHANGED vars
  BY <1>4 DEF vars, PlacementInv, TypeOK, LoopInv, Placed
<1>5. QED
  BY <1>1, <1>2, <1>3, <1>4, DrawStep, InvertStep DEF Next, Loop

\* The inductive invariant holds in every behaviour.
THEOREM PlacementInvariant == Spec => []PlacementInv
BY PlacementInit, PlacementStep, PTL DEF Spec

\* Whatever the generator yields, the placement that getDistinctChunkSet
\* returns gives every node exactly one chunk and every chunk one node.
THEOREM PlacementIsBijection == Spec => []OneChunkPerNode
<1>1. PlacementInv => OneChunkPerNode
  <2> SUFFICES ASSUME PlacementInv, NEW n \in Nodes, Placed(n)
               PROVE  /\ \A p, q \in Pos : chunk_set[n][p] = chunk_set[n][q] => p = q
                      /\ \A v \in Pos : \E p \in Pos : chunk_set[n][p] = v
    BY DEF OneChunkPerNode
  <2>1. /\ \A p \in Pos : chunk_set[n][p] \in Pos
        /\ \A p, q \in Pos : chunk_set[n][p] = chunk_set[n][q] => p = q
    BY DEF PlacementInv, LoopInv, Pos
  <2>2. chunk_set[n] \in [Pos -> Pos]
    BY <2>1 DEF PlacementInv, TypeOK
  <2>3. QED
    BY <2>1, <2>2, PositionsPigeonhole
<1>2. QED
  BY <1>1, PlacementInvariant, PTL

\* The map getChunkPosByNodeIdAndEpoch returns is the inverse of the
\* placement, in both directions.
THEOREM PlacementInverts == Spec => []InverseOfPlacement
<1>1. PlacementInv => InverseOfPlacement
  <2> SUFFICES ASSUME PlacementInv, NEW n \in Nodes, pc[n] = "done", NEW p \in Pos
               PROVE  /\ node_index_to_chunk_pos[n][chunk_set[n][p]] = p
                      /\ chunk_set[n][node_index_to_chunk_pos[n][p]] = p
    BY DEF InverseOfPlacement
  <2>1. /\ \A q \in Pos : chunk_set[n][q] \in Pos
        /\ \A q, r \in Pos : chunk_set[n][q] = chunk_set[n][r] => q = r
        /\ \A q \in Pos : node_index_to_chunk_pos[n][chunk_set[n][q]] = q
    BY DEF PlacementInv, LoopInv, Placed, Pos
  <2>2. chunk_set[n] \in [Pos -> Pos]
    BY <2>1 DEF PlacementInv, TypeOK
  <2>3. PICK q \in Pos : chunk_set[n][q] = p
    BY <2>1, <2>2, PositionsPigeonhole
  <2>4. QED
    BY <2>1, <2>3
<1>2. QED
  BY <1>1, PlacementInvariant, PTL

-----------------------------------------------------------------------------
(* The same placement on every node.                                       *)

\* The draw, counted from the call, in which a stream first yields v.
First(s, v) ==
  CHOOSE d \in Nat : s[d % Period] = v /\ \A x \in 0 .. d-1 : s[x % Period] # v

YieldedBefore(s, v, c) == First(s, v) \in 0 .. c-1 /\ s[First(s, v) % Period] = v

\* After c draws the entries are the values drawn so far, in the order of their first
\* draws: nothing of the node or of its earlier calls is in them.
InOrderAfter(n, c) ==
  LET s == generator[epoch[n]] IN
  /\ drawn[n] = c % Period
  /\ \A d \in 0 .. c-1 : \E p \in 0 .. j[n]-1 : chunk_set[n][p] = s[d % Period]
  /\ \A p \in 0 .. j[n]-1 : YieldedBefore(s, chunk_set[n][p], c)
  /\ \A p, q \in 0 .. j[n]-1 :
       p < q => First(s, chunk_set[n][p]) < First(s, chunk_set[n][q])

InOrder(n) == \E c \in Nat : InOrderAfter(n, c)

PlacedInOrder == PlacementInv /\ \A n \in Nodes : InOrder(n)

LEMMA FirstIs ==
  ASSUME NEW s, NEW v, NEW c \in Nat,
         s[c % Period] = v, \A x \in 0 .. c-1 : s[x % Period] # v
  PROVE  First(s, v) = c
<1> DEFINE P(d) == s[d % Period] = v /\ \A x \in 0 .. d-1 : s[x % Period] # v
<1>1. P(c)
  OBVIOUS
<1>2. ASSUME NEW d \in Nat, P(d) PROVE d = c
  <2>1. ~ (d < c)
    BY <1>2
  <2>2. ~ (c < d)
    BY <1>1, <1>2
  <2>3. QED
    BY <2>1, <2>2
<1> HIDE DEF P
<1>3. (CHOOSE d \in Nat : P(d)) = c
  BY <1>1, <1>2
<1>4. QED
  BY <1>3 DEF First, P

\* drawn counts modulo Period.
LEMMA NextDraw ==
  ASSUME NEW c \in Nat
  PROVE  c % Period \in 0 .. Period-1 /\ (c + 1) % Period = ((c % Period) + 1) % Period
<1> DEFINE q == c \div Period
           r == c % Period
<1>1. q \in Nat /\ r \in 0 .. Period-1 /\ c = Period * q + r
  BY PlacementAssumption
<1> HIDE DEF q, r
<1>2. CASE r + 1 < Period
  <2>1. c + 1 = Period * q + (r + 1) /\ r + 1 \in 0 .. Period-1
    BY <1>1, <1>2, PlacementAssumption
  <2>2. \A x \in Nat, y \in 0 .. Period-1 : (Period * x + y) % Period = y
    BY PlacementAssumption
  <2>3. (c + 1) % Period = r + 1 /\ (r + 1) % Period = r + 1
    BY <1>1, <2>1, <2>2, PlacementAssumption
  <2>4. QED
    BY <1>1, <2>3 DEF r
<1>3. CASE ~ (r + 1 < Period)
  <2>1. r + 1 = Period /\ c + 1 = Period * (q + 1)
    BY <1>1, <1>3, PlacementAssumption
  <2>2. \A x \in Nat : (Period * x) % Period = 0
    BY PlacementAssumption
  <2>3. (c + 1) % Period = 0 /\ (r + 1) % Period = 0
    BY <1>1, <2>1, <2>2, PlacementAssumption
  <2>4. QED
    BY <1>1, <2>3 DEF r
<1>4. QED
  BY <1>2, <1>3

\* The entry a draw writes, and the array it leaves.
Entry(n)   == generator[epoch[n]][drawn[n]]
Entries(n) == [chunk_set[n] EXCEPT ![j[n]] = Entry(n)]

LEMMA DrawEffect ==
  ASSUME PlacementInv, NEW n \in Nodes, Draw(n)
  PROVE  /\ j[n] \in Pos /\ j[n] \in Nat
         /\ generator' = generator /\ epoch' = epoch
         /\ chunk_set'[n] = Entries(n)
         /\ j'[n] = IF Duplicate(Entries(n), j[n]) THEN j[n] ELSE j[n] + 1
         /\ drawn'[n] = (drawn[n] + 1) % Period
         /\ Entries(n)[j[n]] = Entry(n)
         /\ \A p \in 0 .. j[n]-1 : Entries(n)[p] = chunk_set[n][p]
         /\ \A m \in Nodes \ {n} : chunk_set'[m] = chunk_set[m] /\ j'[m] = j[m]
<1>1. j[n] \in Pos /\ j[n] \in Nat
  BY PlacementAssumption DEF Draw, Pos, PlacementInv, TypeOK
<1>2. Entries(n)[j[n]] = Entry(n) /\ \A p \in 0 .. j[n]-1 : Entries(n)[p] = chunk_set[n][p]
  <2>1. chunk_set[n] \in [Pos -> Pos \cup {Unset}]
    BY DEF PlacementInv, TypeOK
  <2>2. \A p \in 0 .. j[n]-1 : p \in Pos /\ p # j[n]
    BY <1>1, PlacementAssumption DEF Pos
  <2>3. Entries(n)[j[n]] = Entry(n)
    BY <1>1, <2>1 DEF Entries
  <2>4. ASSUME NEW p \in 0 .. j[n]-1 PROVE Entries(n)[p] = chunk_set[n][p]
    BY <2>1, <2>2 DEF Entries
  <2>5. QED
    BY <2>3, <2>4
<1>3. /\ chunk_set' = [chunk_set EXCEPT ![n] = Entries(n)]
      /\ j' = [j EXCEPT ![n] = IF Duplicate(Entries(n), j[n]) THEN j[n] ELSE j[n] + 1]
      /\ drawn' = [drawn EXCEPT ![n] = (drawn[n] + 1) % Period]
      /\ generator' = generator /\ epoch' = epoch
  BY DEF Draw, Entries, Entry
<1>4. DOMAIN chunk_set = Nodes /\ DOMAIN j = Nodes /\ DOMAIN drawn = Nodes
  BY DEF PlacementInv, TypeOK
<1>5. /\ chunk_set'[n] = Entries(n)
      /\ \A m \in Nodes \ {n} : chunk_set'[m] = chunk_set[m]
  BY <1>3, <1>4
<1>6. /\ j'[n] = IF Duplicate(Entries(n), j[n]) THEN j[n] ELSE j[n] + 1
      /\ \A m \in Nodes \ {n} : j'[m] = j[m]
  BY <1>3, <1>4
<1>7. drawn'[n] = (drawn[n] + 1) % Period
  BY <1>3, <1>4
<1>8. QED
  BY <1>1, <1>2, <1>3, <1>5, <1>6, <1>7

\* A value that is not among the entries is drawn for the first time.
LEMMA DrawInOrder ==
  ASSUME PlacementInv, NEW n \in Nodes, Draw(n), InOrder(n)
  PROVE  InOrder(n)'
<1> DEFINE s   == generator[epoch[n]]
           v   == s[drawn[n]]
           set == Entries(n)
<1>1. PICK c \in Nat : InOrderAfter(n, c)
  BY DEF InOrder
<1>2. /\ drawn[n] = c % Period
      /\ \A d \in 0 .. c-1 : \E p \in 0 .. j[n]-1 : chunk_set[n][p] = s[d % Period]
      /\ \A p \in 0 .. j[n]-1 : YieldedBefore(s, chunk_set[n][p], c)
      /\ \A p, q \in 0 .. j[n]-1 :
           p < q => First(s, chunk_set[n][p]) < First(s, chunk_set[n][q])
  BY <1>1 DEF InOrderAfter
<1>3. /\ j[n] \in Pos /\ j[n] \in Nat
      /\ chunk_set'[n] = set
      /\ j'[n] = IF Duplicate(set, j[n]) THEN j[n] ELSE j[n] + 1
      /\ drawn'[n] = (drawn[n] + 1) % Period
      /\ generator'[epoch'[n]] = s
  BY DrawEffect
<1>4. set[j[n]] = v /\ \A p \in 0 .. j[n]-1 : set[p] = chunk_set[n][p]
  BY DrawEffect DEF Entry
<1>5. v = s[c % Period]
  BY <1>2
<1>6. drawn'[n] = (c + 1) % Period
  BY <1>2, <1>3, NextDraw
<1> HIDE DEF s, v, set
<1>7. CASE Duplicate(set, j[n])
  <2>1. j'[n] = j[n]
    BY <1>3, <1>7
  <2>2. PICK y \in 0 .. j[n]-1 : set[y] = v
    BY <1>4, <1>7 DEF Duplicate
  <2>3. ASSUME NEW d \in 0 .. (c + 1)-1
        PROVE  \E p \in 0 .. j[n]-1 : set[p] = s[d % Period]
    <3>1. CASE d = c
      BY <1>5, <2>2, <3>1
    <3>2. CASE d # c
      <4>1. d \in 0 .. c-1
        BY <3>2
      <4>2. PICK p \in 0 .. j[n]-1 : chunk_set[n][p] = s[d % Period]
        BY <1>2, <4>1
      <4>3. QED
        BY <1>4, <4>2
    <3>3. QED
      BY <3>1, <3>2
  <2>4. \A p \in 0 .. j[n]-1 : YieldedBefore(s, set[p], c + 1)
    <3>1. \A x \in 0 .. c-1 : x \in 0 .. (c + 1)-1
      OBVIOUS
    <3>2. QED
      BY <1>2, <1>4, <3>1 DEF YieldedBefore
  <2>5. \A p, q \in 0 .. j[n]-1 : p < q => First(s, set[p]) < First(s, set[q])
    BY <1>2, <1>4
  <2>6. InOrderAfter(n, c + 1)'
    BY <1>3, <1>6, <2>1, <2>3, <2>4, <2>5 DEF InOrderAfter
  <2>7. QED
    BY <2>6 DEF InOrder
<1>8. CASE ~ Duplicate(set, j[n])
  <2>1. j'[n] = j[n] + 1 /\ j'[n] - 1 = j[n]
    BY <1>3, <1>8
  <2>2. \A y \in 0 .. j[n]-1 : set[y] # v
    BY <1>4, <1>8 DEF Duplicate
  <2>3. First(s, v) = c
    <3>1. ASSUME NEW x \in 0 .. c-1 PROVE s[x % Period] # v
      <4>1. PICK p \in 0 .. j[n]-1 : chunk_set[n][p] = s[x % Period]
        BY <1>2
      <4>2. QED
        BY <1>4, <2>2, <4>1
    <3>2. QED
      BY <1>5, <3>1, FirstIs
  <2>4. \A p \in 0 .. j[n] : p \in 0 .. j[n]-1 \/ p = j[n]
    BY <1>3
  <2>5. ASSUME NEW d \in 0 .. (c + 1)-1
        PROVE  \E p \in 0 .. j[n] : set[p] = s[d % Period]
    <3>1. CASE d = c
      BY <1>3, <1>4, <1>5, <3>1
    <3>2. CASE d # c
      <4>1. d \in 0 .. c-1
        BY <3>2
      <4>2. PICK p \in 0 .. j[n]-1 : chunk_set[n][p] = s[d % Period]
        BY <1>2, <4>1
      <4>3. p \in 0 .. j[n] /\ set[p] = s[d % Period]
        BY <1>3, <1>4, <4>2
      <4>4. QED
        BY <4>3
    <3>3. QED
      BY <3>1, <3>2
  <2>6. ASSUME NEW p \in 0 .. j[n] PROVE YieldedBefore(s, set[p], c + 1)
    <3>1. CASE p = j[n]
      BY <1>4, <1>5, <2>3, <3>1 DEF YieldedBefore
    <3>2. CASE p \in 0 .. j[n]-1
      <4>1. YieldedBefore(s, set[p], c)
        BY <1>2, <1>4, <3>2
      <4>2. QED
        BY <4>1 DEF YieldedBefore
    <3>3. QED
      BY <2>4, <3>1, <3>2
  <2>7. ASSUME NEW p \in 0 .. j[n], NEW q \in 0 .. j[n], p < q
        PROVE  First(s, set[p]) < First(s, set[q])
    <3>1. p \in 0 .. j[n]-1
      BY <1>3, <2>7
    <3>2. First(s, set[p]) \in 0 .. c-1
      BY <1>2, <1>4, <3>1 DEF YieldedBefore
    <3>3. CASE q = j[n]
      BY <1>4, <2>3, <3>2, <3>3
    <3>4. CASE q \in 0 .. j[n]-1
      BY <1>2, <1>4, <2>7, <3>1, <3>4
    <3>5. QED
      BY <2>4, <3>3, <3>4
  <2>8. InOrderAfter(n, c + 1)'
    BY <1>3, <1>6, <2>1, <2>5, <2>6, <2>7 DEF InOrderAfter
  <2>9. QED
    BY <2>8 DEF InOrder
<1>9. QED
  BY <1>7, <1>8

LEMMA OthersInOrder ==
  ASSUME NEW n \in Nodes, InOrder(n),
         generator' = generator, epoch'[n] = epoch[n], drawn'[n] = drawn[n],
         j'[n] = j[n], chunk_set'[n] = chunk_set[n]
  PROVE  InOrder(n)'
<1>1. PICK c \in Nat : InOrderAfter(n, c)
  BY DEF InOrder
<1>2. InOrderAfter(n, c)'
  BY <1>1 DEF InOrderAfter
<1>3. QED
  BY <1>2 DEF InOrder

LEMMA NothingDrawn ==
  ASSUME NEW n \in Nodes, drawn[n] = 0, j[n] = 0
  PROVE  InOrder(n)
<1>1. 0 % Period = 0 /\ 0 .. 0-1 = {} /\ 0 \in Nat
  BY PlacementAssumption
<1>2. InOrderAfter(n, 0)
  BY <1>1 DEF InOrderAfter
<1>3. QED
  BY <1>1, <1>2 DEF InOrder

LEMMA OrderStep ==
  ASSUME PlacedInOrder, [Next]_vars PROVE PlacedInOrder'
<1>1. PlacementInv /\ PlacementInv'
  BY PlacementStep DEF PlacedInOrder
<1>2. ASSUME NEW n \in Nodes PROVE InOrder(n)'
  <2>0. InOrder(n)
    BY DEF PlacedInOrder
  <2>1. ASSUME NEW m \in Nodes, Draw(m) PROVE InOrder(n)'
    <3>1. CASE m = n
      BY <1>1, <2>0, <2>1, <3>1, DrawInOrder
    <3>2. CASE m # n
      BY <1>1, <2>0, <2>1, <3>2, OthersInOrder DEF Draw, PlacementInv, TypeOK
    <3>3. QED
      BY <3>1, <3>2
  <2>2. ASSUME NEW m \in Nodes, Drawn(m) \/ Invert(m) \/ Inverted(m) \/ Return(m)
        PROVE  InOrder(n)'
    BY <2>0, <2>2, OthersInOrder DEF Drawn, Invert, Inverted, Return
  <2>3. ASSUME NEW m \in Nodes, NEW e \in Epochs, Call(m, e) PROVE InOrder(n)'
    <3>1. CASE m = n
      <4>1. drawn'[n] = 0 /\ j'[n] = 0
        BY <1>1, <2>3, <3>1 DEF Call, PlacementInv, TypeOK
      <4>2. 0 % Period = 0 /\ 0 .. 0-1 = {} /\ 0 \in Nat
        BY PlacementAssumption
      <4>3. InOrderAfter(n, 0)'
        BY <4>1, <4>2 DEF InOrderAfter
      <4>4. QED
        BY <4>2, <4>3 DEF InOrder
    <3>2. CASE m # n
      BY <1>1, <2>0, <2>3, <3>2, OthersInOrder DEF Call, PlacementInv, TypeOK
    <3>3. QED
      BY <3>1, <3>2
  <2>4. CASE UNCHANGED vars
    BY <2>0, <2>4, OthersInOrder DEF vars
  <2>5. QED
    BY <2>1, <2>2, <2>3, <2>4 DEF Next, Loop
<1>3. QED
  BY <1>1, <1>2 DEF PlacedInOrder


\* Two nodes that draw for the same epoch, whenever they do, agree on the entries
\* both have.
Agree(m, n) ==
  epoch[m] = epoch[n] =>
    \A p \in Pos : p < j[m] /\ p < j[n] => chunk_set[m][p] = chunk_set[n][p]

\* The new entry of n is the one m has there already: the values m has before it are
\* those n has drawn, so neither can have skipped a value the other took.
LEMMA DrawAgrees ==
  ASSUME PlacedInOrder, NEW n \in Nodes, NEW m \in Nodes, m # n, Draw(n), Agree(n, m)
  PROVE  Agree(n, m)'
<1> DEFINE s == generator[epoch[n]]
           v == Entry(n)
           k == j[n]
           w == chunk_set[m][k]
<1>0. PlacementInv /\ InOrder(n) /\ InOrder(m)
  BY DEF PlacedInOrder
<1>1. /\ k \in Pos /\ k \in Nat
      /\ generator' = generator /\ epoch' = epoch
      /\ chunk_set'[n] = Entries(n)
      /\ j'[n] = IF Duplicate(Entries(n), k) THEN k ELSE k + 1
      /\ Entries(n)[k] = v
      /\ \A p \in 0 .. k-1 : Entries(n)[p] = chunk_set[n][p]
      /\ chunk_set'[m] = chunk_set[m] /\ j'[m] = j[m]
  BY <1>0, DrawEffect
<1>2. SUFFICES ASSUME epoch[n] = epoch[m], NEW p \in Pos, p < j'[n], p < j[m]
               PROVE  Entries(n)[p] = chunk_set[m][p]
  BY <1>1 DEF Agree
<1>3. p \in Nat /\ j[m] \in Nat /\ \A q \in Pos : q \in Nat
  BY <1>0, PlacementAssumption DEF Pos, PlacementInv, TypeOK
<1>4. \A q \in 0 .. k-1 : q \in Pos
  BY <1>1, PlacementAssumption DEF Pos
<1>5. CASE p < k
  <2>1. chunk_set[n][p] = chunk_set[m][p]
    BY <1>2, <1>5 DEF Agree
  <2>2. QED
    BY <1>1, <1>3, <1>5, <2>1
<1>6. CASE ~ (p < k)
  <2>1. ~ Duplicate(Entries(n), k) /\ p = k
    BY <1>1, <1>2, <1>3, <1>6
  <2>2. \A q \in 0 .. k-1 : chunk_set[n][q] # v
    BY <1>1, <2>1 DEF Duplicate
  <2>3. \A q \in 0 .. k-1 : q < j[m] /\ chunk_set[m][q] = chunk_set[n][q]
    BY <1>1, <1>2, <1>3, <1>4, <2>1 DEF Agree
  <2>4. PICK c \in Nat : InOrderAfter(n, c)
    BY <1>0 DEF InOrder
  <2>5. PICK d \in Nat : InOrderAfter(m, d)
    BY <1>0 DEF InOrder
  <2>6. /\ v = s[c % Period]
        /\ \A x \in 0 .. c-1 : \E q \in 0 .. k-1 : chunk_set[n][q] = s[x % Period]
    BY <2>4 DEF InOrderAfter, Entry
  <2>7. /\ \A x \in 0 .. d-1 : \E q \in 0 .. j[m]-1 : chunk_set[m][q] = s[x % Period]
        /\ \A q \in 0 .. j[m]-1 : YieldedBefore(s, chunk_set[m][q], d)
        /\ \A q, r \in 0 .. j[m]-1 :
             q < r => First(s, chunk_set[m][q]) < First(s, chunk_set[m][r])
    BY <1>2, <2>5 DEF InOrderAfter
  <2> HIDE DEF s, v
  <2>8. First(s, v) = c
    <3>1. ASSUME NEW x \in 0 .. c-1 PROVE s[x % Period] # v
      BY <2>2, <2>6
    <3>2. QED
      BY <2>6, <3>1, FirstIs
  <2>9. /\ k \in 0 .. j[m]-1
        /\ First(s, w) \in 0 .. d-1 /\ s[First(s, w) % Period] = w
    <3>1. k \in 0 .. j[m]-1
      BY <1>1, <1>2, <1>3, <2>1
    <3>2. QED
      BY <2>7, <3>1 DEF YieldedBefore
  <2>10. \A q \in 0 .. k-1 : chunk_set[m][q] # w
    BY <1>0, <1>1, <1>3, <2>9 DEF PlacementInv, LoopInv
  <2>11. ~ (First(s, w) < c)
    <3>1. SUFFICES ASSUME First(s, w) < c PROVE FALSE
      OBVIOUS
    <3>2. First(s, w) \in 0 .. c-1
      BY <2>9, <3>1
    <3>3. PICK q \in 0 .. k-1 : chunk_set[n][q] = w
      BY <2>6, <2>9, <3>2
    <3>4. QED
      BY <2>3, <2>10, <3>3
  <2>12. v = w
    <3>1. CASE First(s, w) = c
      BY <2>6, <2>9, <3>1
    <3>2. CASE First(s, w) > c
      <4>1. c \in 0 .. d-1
        BY <2>9, <3>2
      <4>2. PICK q \in 0 .. j[m]-1 : chunk_set[m][q] = v
        BY <2>6, <2>7, <4>1
      <4>3. ~ (q \in 0 .. k-1)
        BY <2>2, <2>3, <4>2
      <4>4. ~ (k < q)
        <5>1. SUFFICES ASSUME k < q PROVE FALSE
          OBVIOUS
        <5>2. First(s, w) < First(s, v)
          BY <2>7, <2>9, <4>2, <5>1
        <5>3. QED
          BY <2>8, <3>2, <2>9, <5>2
      <4>5. q = k
        BY <1>1, <1>3, <4>3, <4>4
      <4>6. QED
        BY <4>2, <4>5
    <3>3. First(s, w) \in Nat
      BY <2>9
    <3>4. QED
      BY <2>11, <3>1, <3>2, <3>3
  <2>13. QED
    BY <1>1, <2>1, <2>12
<1>7. QED
  BY <1>5, <1>6

AllAgree == PlacedInOrder /\ \A n, m \in Nodes : Agree(n, m)

LEMMA AgreeStep ==
  ASSUME AllAgree, [Next]_vars PROVE AllAgree'
<1>0. PlacedInOrder /\ PlacementInv /\ PlacedInOrder'
  BY OrderStep DEF AllAgree, PlacedInOrder
<1>1. ASSUME NEW n \in Nodes, NEW m \in Nodes PROVE Agree(n, m)'
  <2>0. Agree(n, m) /\ Agree(m, n)
    BY DEF AllAgree
  <2>1. ASSUME NEW l \in Nodes, Draw(l) PROVE Agree(n, m)'
    <3>1. CASE n = m
      BY <3>1 DEF Agree
    <3>2. CASE n # m /\ l = n
      BY <1>0, <2>0, <2>1, <3>2, DrawAgrees
    <3>3. CASE n # m /\ l = m
      <4>1. Agree(m, n)'
        BY <1>0, <2>0, <2>1, <3>3, DrawAgrees
      <4>2. QED
        BY <4>1 DEF Agree
    <3>4. CASE l # n /\ l # m
      <4>1. /\ epoch' = epoch /\ j'[n] = j[n] /\ j'[m] = j[m]
            /\ chunk_set'[n] = chunk_set[n] /\ chunk_set'[m] = chunk_set[m]
        BY <1>0, <2>1, <3>4, DrawEffect
      <4>2. QED
        BY <2>0, <4>1 DEF Agree
    <3>5. QED
      BY <3>1, <3>2, <3>3, <3>4
  <2>2. ASSUME NEW l \in Nodes, Drawn(l) \/ Invert(l) \/ Inverted(l) \/ Return(l)
        PROVE  Agree(n, m)'
    BY <2>0, <2>2 DEF Drawn, Invert, Inverted, Return, Agree
  <2>3. ASSUME NEW l \in Nodes, NEW e \in Epochs, Call(l, e) PROVE Agree(n, m)'
    <3>1. j'[l] = 0
      BY <1>0, <2>3 DEF Call, PlacementInv, TypeOK
    <3>2. CASE l = n \/ l = m
      <4>1. \A p \in Pos : ~ (p < 0)
        BY PlacementAssumption DEF Pos
      <4>2. QED
        BY <3>1, <3>2, <4>1 DEF Agree
    <3>3. CASE l # n /\ l # m
      <4>1. /\ epoch'[n] = epoch[n] /\ epoch'[m] = epoch[m]
            /\ j'[n] = j[n] /\ j'[m] = j[m]
            /\ chunk_set'[n] = chunk_set[n] /\ chunk_set'[m] = chunk_set[m]
        BY <1>0, <2>3, <3>3 DEF Call, PlacementInv, TypeOK
      <4>2. QED
        BY <2>0, <4>1 DEF Agree
    <3>4. QED
      BY <3>2, <3>3
  <2>4. CASE UNCHANGED vars
    BY <2>0, <2>4 DEF vars, Agree
  <2>5. QED
    BY <2>1, <2>2, <2>3, <2>4 DEF Next, Loop
<1>2. QED
  BY <1>0, <1>1 DEF AllAgree

\* Nodes that computed a placement for the same epoch have the same one, whenever
\* they did and whatever they computed before: getDistinctChunkSet depends on the
\* epoch only.
THEOREM PlacementIsShared == Spec => []SamePlacementEverywhere
<1>1. Init => AllAgree
  <2> SUFFICES ASSUME Init PROVE AllAgree
    OBVIOUS
  <2>1. PlacementInv
    BY PlacementInit
  <2>2. ASSUME NEW n \in Nodes PROVE drawn[n] = 0 /\ j[n] = 0
    BY DEF Init
  <2>3. \A n \in Nodes : InOrder(n)
    BY <2>2, NothingDrawn
  <2>4. \A p \in Pos : ~ (p < 0)
    BY PlacementAssumption DEF Pos
  <2>5. \A n, m \in Nodes : Agree(n, m)
    BY <2>2, <2>4 DEF Agree
  <2>6. QED
    BY <2>1, <2>3, <2>5 DEF AllAgree, PlacedInOrder
<1>2. AllAgree => SamePlacementEverywhere
  <2> SUFFICES ASSUME AllAgree, NEW m \in Nodes, NEW n \in Nodes,
                      Placed(m), Placed(n), epoch[m] = epoch[n]
               PROVE  chunk_set[m] = chunk_set[n]
    BY DEF SamePlacementEverywhere
  <2>1. PlacementInv /\ j[m] = N /\ j[n] = N
    BY DEF AllAgree, PlacedInOrder, PlacementInv, LoopInv
  <2>2. chunk_set[m] \in [Pos -> Pos \cup {Unset}] /\ chunk_set[n] \in [Pos -> Pos \cup {Unset}]
    BY <2>1 DEF PlacementInv, TypeOK
  <2>3. \A p \in Pos : p < N
    BY PlacementAssumption DEF Pos
  <2>4. \A p \in Pos : chunk_set[m][p] = chunk_set[n][p]
    BY <2>1, <2>3 DEF AllAgree, Agree
  <2>5. QED
    BY <2>2, <2>4
<1>3. QED
  BY <1>1, <1>2, AgreeStep, PTL DEF Spec
=============================================================================
