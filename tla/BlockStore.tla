----------------------------- MODULE BlockStore -----------------------------
(***************************************************************************)
(* What a reader of the store is promised: one who asks for a block gets   *)
(* that block, or nothing, or no answer because its own process ended.     *)
(* How chunks are kept, sent and decoded does not show.  Cluster           *)
(* implements it.                                                          *)
(***************************************************************************)
CONSTANTS
  Blocks,     \* the block numbers
  Content,    \* Content[b]: the bytes of block b
  Nothing,    \* the answer without bytes
  NoBlock,    \* no block is being asked for
  NoAnswer    \* the last question has not been answered

VARIABLES asked, answer

Init == asked = NoBlock /\ answer = NoAnswer

Ask(b) == asked = NoBlock /\ asked' = b /\ answer' = NoAnswer

Answer ==
  /\ asked # NoBlock /\ asked' = NoBlock
  /\ \E value \in {Content[asked], Nothing} : answer' = [number |-> asked, value |-> value]

Fail == asked # NoBlock /\ asked' = NoBlock /\ UNCHANGED answer

Next == Answer \/ Fail \/ \E b \in Blocks : Ask(b)

Spec == Init /\ [][Next]_<<asked, answer>>
=============================================================================
