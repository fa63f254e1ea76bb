------------------------------ MODULE LRUSpec ------------------------------
(***************************************************************************)
(* The promise of the block cache as a state machine: a list of entries,   *)
(* the result of the last get, and nothing else.                           *)
(***************************************************************************)
EXTENDS LRU

CONSTANTS Keys, Values, Capacities

VARIABLES
  entries,     \* the cached entries, the most recently used first
  capacity,    \* the argument of the constructor
  ret          \* what the last call returned

vars == <<entries, capacity, ret>>

Init ==
  /\ entries = <<>>
  /\ capacity \in Capacities
  /\ ret = NoValue

Get(k) ==
  /\ ret' = Lookup(entries, k)
  /\ entries' = AfterGet(entries, k)
  /\ UNCHANGED capacity

Put(k, v) ==
  /\ ret' = NoValue
  /\ entries' = AfterPut(entries, k, v, capacity)
  /\ UNCHANGED capacity

Next == \E k \in Keys : Get(k) \/ \E v \in Values : Put(k, v)

Spec == Init /\ [][Next]_vars
=============================================================================
