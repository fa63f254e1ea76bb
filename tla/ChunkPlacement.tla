--------------------------- MODULE ChunkPlacement ---------------------------
(***************************************************************************)
(* Which node keeps which chunk of a coding epoch.                         *)
(*                                                                         *)
(* Every node computes the placement on its own, without a message:        *)
(* Erasure::getDistinctChunkSet seeds a Mersenne twister with the epoch,   *)
(* draws node indices until it holds ec_k + ec_m distinct ones, and        *)
(* Erasure::getChunkPosByNodeIdAndEpoch inverts the result.  One action of *)
(* this module is one iteration of one of the two loops.                   *)
(*                                                                         *)
(* The generator is external (the C++ standard library): a seed determines *)
(* one infinite stream of values of uniform_int_distribution(0, N-1).  It  *)
(* is modelled as a periodic stream in which every value occurs, which is  *)
(* what a full-period, equidistributed generator gives.  Nothing else is   *)
(* assumed of the stream: Init ranges over all of them.                    *)
(***************************************************************************)
EXTENDS Integers

CONSTANTS Nodes,    \* the nodes that compute placements
          Epochs,   \* the coding epochs they compute them for
          N,        \* ec_k + ec_m, the number of chunks of an epoch
          Period    \* the period of the generator

ASSUME PlacementAssumption == /\ N \in Nat \ {0}
                              /\ Period \in Nat \ {0}

Pos == 0 .. N-1

\* An element of a new int[N] that no iteration has written yet.
Unset == -1

\* The streams a generator can produce: every value of the range occurs.
Streams == { s \in [0 .. Period-1 -> Pos] :
               \A v \in Pos : \E d \in 0 .. Period-1 : s[d] = v }

VARIABLES
  generator,               \* the stream each seed (epoch) stands for; never changes
  pc,                      \* where each node is in the two loops
  epoch,                   \* the argument coding_epoch of the node's call
  drawn,                   \* how far the node's own generator has advanced, modulo Period
  j,                       \* the loop variable of getDistinctChunkSet
  chunk_set,               \* chunk_set[i]: the node that keeps chunk i
  i,                       \* the loop variable of getChunkPosByNodeIdAndEpoch
  node_index_to_chunk_pos  \* the inverse: the chunk each node keeps

vars == <<generator, pc, epoch, drawn, j, chunk_set, i, node_index_to_chunk_pos>>

TypeOK ==
  /\ generator \in [Epochs -> Streams]
  /\ pc \in [Nodes -> {"idle", "drawing", "inverting", "done"}]
  /\ epoch \in [Nodes -> Epochs]
  /\ drawn \in [Nodes -> 0 .. Period-1]
  /\ j \in [Nodes -> 0 .. N]
  /\ chunk_set \in [Nodes -> [Pos -> Pos \cup {Unset}]]
  /\ i \in [Nodes -> 0 .. N]
  /\ node_index_to_chunk_pos \in [Nodes -> [Pos -> Pos]]

Init ==
  /\ generator \in [Epochs -> Streams]
  /\ pc = [n \in Nodes |-> "idle"]
  /\ epoch \in [Nodes -> Epochs]
  /\ drawn = [n \in Nodes |-> 0]
  /\ j = [n \in Nodes |-> 0]
  /\ chunk_set = [n \in Nodes |-> [p \in Pos |-> Unset]]
  /\ i = [n \in Nodes |-> 0]
  /\ node_index_to_chunk_pos = [n \in Nodes |-> [p \in Pos |-> 0]]

-----------------------------------------------------------------------------
\* Mutant of Call: the generator is kept between calls and not seeded again.
CallUnseeded(n, e) ==
  /\ pc[n] = "idle"
  /\ pc' = [pc EXCEPT ![n] = "drawing"]
  /\ epoch' = [epoch EXCEPT ![n] = e]
  /\ j' = [j EXCEPT ![n] = 0]
  /\ chunk_set' = [chunk_set EXCEPT ![n] = [p \in Pos |-> Unset]]
  /\ i' = [i EXCEPT ![n] = 0]
  /\ node_index_to_chunk_pos' = [node_index_to_chunk_pos EXCEPT ![n] = [p \in Pos |-> 0]]
  /\ UNCHANGED <<generator, drawn>>

\* A call for epoch e: a generator of its own, freshly seeded, and fresh arrays.
Call(n, e) ==
  /\ pc[n] = "idle"
  /\ pc' = [pc EXCEPT ![n] = "drawing"]
  /\ epoch' = [epoch EXCEPT ![n] = e]
  /\ drawn' = [drawn EXCEPT ![n] = 0]
  /\ j' = [j EXCEPT ![n] = 0]
  /\ chunk_set' = [chunk_set EXCEPT ![n] = [p \in Pos |-> Unset]]
  /\ i' = [i EXCEPT ![n] = 0]
  /\ node_index_to_chunk_pos' = [node_index_to_chunk_pos EXCEPT ![n] = [p \in Pos |-> 0]]
  /\ UNCHANGED generator

\* Mutants of Duplicate: the previous entry is not compared (i < j - 1) ...
DuplicateOffByOne(set, x) == \E y \in 0 .. x-2 : set[y] = set[x]

\* ... and the entry is compared with itself as well (i <= j).
DuplicateSelf(set, x) == \E y \in 0 .. x : set[y] = set[x]

\* The node drawn for chunk x is one of those drawn for the chunks before it.
Duplicate(set, x) == \E y \in 0 .. x-1 : set[y] = set[x]

\* dis(generator) stores the next value at index j; a duplicate is drawn again.
Draw(n) ==
  LET v   == generator[epoch[n]][drawn[n]]
      set == [chunk_set[n] EXCEPT ![j[n]] = v]
  IN  /\ pc[n] = "drawing"
      /\ j[n] < N
      /\ chunk_set' = [chunk_set EXCEPT ![n] = set]
      /\ drawn' = [drawn EXCEPT ![n] = (@ + 1) % Period]
      /\ j' = [j EXCEPT ![n] = IF Duplicate(set, @) THEN @ ELSE @ + 1]
      /\ UNCHANGED <<generator, pc, epoch, i, node_index_to_chunk_pos>>

\* Mutant of Drawn: the drawing loop stops one chunk early.
DrawnEarly(n) ==
  /\ pc[n] = "drawing"
  /\ j[n] \in {N - 1, N}
  /\ pc' = [pc EXCEPT ![n] = "inverting"]
  /\ UNCHANGED <<generator, epoch, drawn, j, chunk_set, i, node_index_to_chunk_pos>>

\* The drawing loop ends: getDistinctChunkSet returns chunk_set.
Drawn(n) ==
  /\ pc[n] = "drawing"
  /\ j[n] = N
  /\ pc' = [pc EXCEPT ![n] = "inverting"]
  /\ UNCHANGED <<generator, epoch, drawn, j, chunk_set, i, node_index_to_chunk_pos>>

\* Mutant of Invert: index and value of the assignment are swapped.
InvertSwapped(n) ==
  /\ pc[n] = "inverting"
  /\ i[n] < N
  /\ node_index_to_chunk_pos' =
       [node_index_to_chunk_pos EXCEPT ![n][i[n]] = chunk_set[n][i[n]]]
  /\ i' = [i EXCEPT ![n] = @ + 1]
  /\ UNCHANGED <<generator, pc, epoch, drawn, j, chunk_set>>

\* One iteration of the loop that inverts the placement.
Invert(n) ==
  /\ pc[n] = "inverting"
  /\ i[n] < N
  /\ node_index_to_chunk_pos' =
       [node_index_to_chunk_pos EXCEPT ![n][chunk_set[n][i[n]]] = i[n]]
  /\ i' = [i EXCEPT ![n] = @ + 1]
  /\ UNCHANGED <<generator, pc, epoch, drawn, j, chunk_set>>

Inverted(n) ==
  /\ pc[n] = "inverting"
  /\ i[n] = N
  /\ pc' = [pc EXCEPT ![n] = "done"]
  /\ UNCHANGED <<generator, epoch, drawn, j, chunk_set, i, node_index_to_chunk_pos>>

\* The caller drops the result; the node may be asked for another epoch.
Return(n) ==
  /\ pc[n] = "done"
  /\ pc' = [pc EXCEPT ![n] = "idle"]
  /\ UNCHANGED <<generator, epoch, drawn, j, chunk_set, i, node_index_to_chunk_pos>>

Loop(n) == Draw(n) \/ Drawn(n) \/ Invert(n) \/ Inverted(n)

Next == \E n \in Nodes : Loop(n) \/ Return(n) \/ \E e \in Epochs : Call(n, e)

\* A node that runs one of the loops keeps running it; calls are not obliged to come.
Spec == Init /\ [][Next]_vars /\ \A n \in Nodes : WF_vars(Loop(n))

-----------------------------------------------------------------------------
Placed(n)   == pc[n] \in {"inverting", "done"}

\* The placement of an epoch is one-to-one and onto: every chunk is kept by
\* exactly one of the N nodes and every node keeps exactly one chunk
\* (saveChunk stores data only where chunk_set[i] is the node itself).
OneChunkPerNode ==
  \A n \in Nodes : Placed(n) =>
    /\ \A p, q \in Pos : chunk_set[n][p] = chunk_set[n][q] => p = q
    /\ \A v \in Pos : \E p \in Pos : chunk_set[n][p] = v

\* What getChunkPosByNodeIdAndEpoch returns tells, for every node, the chunk
\* that saveChunk on that node really kept: the two maps are inverses.
InverseOfPlacement ==
  \A n \in Nodes : pc[n] = "done" =>
    \A p \in Pos : /\ node_index_to_chunk_pos[n][chunk_set[n][p]] = p
                   /\ chunk_set[n][node_index_to_chunk_pos[n][p]] = p

\* Nodes never exchange placements, so two nodes that computed one for the
\* same epoch, at any time and after any earlier calls, must have the same.
SamePlacementEverywhere ==
  \A m, n \in Nodes :
    Placed(m) /\ Placed(n) /\ epoch[m] = epoch[n] => chunk_set[m] = chunk_set[n]

\* Rejecting duplicates never keeps the drawing loop running forever.
PlacementTerminates == \A n \in Nodes : pc[n] = "drawing" ~> pc[n] = "done"

\* The strengthening that makes the two safety properties inductive: the
\* entries before j are drawn and distinct, those before i are inverted.
LoopInv(n) ==
  /\ pc[n] = "drawing" => i[n] = 0
  /\ Placed(n) => j[n] = N
  /\ pc[n] = "done" => i[n] = N
  /\ \A p \in 0 .. j[n]-1 : chunk_set[n][p] \in Pos
  /\ \A p, q \in 0 .. j[n]-1 : chunk_set[n][p] = chunk_set[n][q] => p = q
  /\ Placed(n) =>
       \A p \in 0 .. i[n]-1 : node_index_to_chunk_pos[n][chunk_set[n][p]] = p

PlacementInv == TypeOK /\ \A n \in Nodes : LoopInv(n)

=============================================================================
