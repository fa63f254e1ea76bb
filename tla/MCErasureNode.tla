--------------------------- MODULE MCErasureNode ---------------------------
(* Bounds: k = 2, m = 1, two epochs (four blocks), a cache of two chunks,  *)
(* one failing Put and one damaged record.  The sealer lists make the node *)
(* the owner of data chunks in both epochs (index 0), of a parity chunk in *)
(* epoch 0 (index 2), and no sealer at all.                                *)
(*                                                                         *)
(* Node ids are one byte long here and are configured as texts, which need *)
(* not be spelled alike: with or without prefix, in capitals or not.       *)
EXTENDS NodeIds

MCChunkSet == [e \in 0 .. 1 |-> IF e = 0 THEN [p \in 0 .. 2 |-> p]
                                ELSE [p \in 0 .. 2 |-> (p + 2) % 3]]

\* "0B"
MCOwnText == <<48, 66>>

\* The lists "0xb", "A2", "C3";  "1b", "C", "b";  "B0", "1", "0xb2".
MCSealerTexts ==
  { [x \in 0 .. 2 |-> IF x = 0 THEN <<48, 120, 98>> ELSE IF x = 1 THEN <<65, 50>> ELSE <<67, 51>>],
    [x \in 0 .. 2 |-> IF x = 0 THEN <<49, 98>> ELSE IF x = 1 THEN <<67>> ELSE <<98>>],
    [x \in 0 .. 2 |-> IF x = 0 THEN <<66, 48>> ELSE IF x = 1 THEN <<49>>
                      ELSE <<48, 120, 98, 50>>] }

MCSealers == { [x \in 0 .. 2 |-> HashOfText(texts[x], 1)] : texts \in MCSealerTexts }
MCNodeId  == HashOfText(MCOwnText, 1)

MCEmptyBlocks == { <<1, 0>> }
=============================================================================
