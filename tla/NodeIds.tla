------------------------------ MODULE NodeIds ------------------------------
(***************************************************************************)
(* A storage node whose id and sealer list are configured as texts, as the *)
(* program that uses the library does: the ids are made of the texts by    *)
(* the constructor of h512, and need not all be spelled alike (with or     *)
(* without prefix, in capitals or small letters, with or without a leading *)
(* zero).  The program has IdSize = 64.                                    *)
(***************************************************************************)
EXTENDS ErasureNode, Hex

CONSTANTS
  IdSize,       \* the number of bytes of an id
  OwnText,      \* the text of this node's id
  SealerTexts   \* bound: the lists of texts that sealer lists are made from

\* The sealer list made from a list of texts.
Ids(texts) == [x \in Pos |-> HashOfText(texts[x], IdSize)]

\* A text spells an id: it has as many digits as an id has, and nothing else.
\* (From any other length the id of zeros is made, from other characters none.)
SpellsId(text) ==
  /\ text \in Seq(Nat)
  /\ FromHex(text) # BadHexCharacter
  /\ Len(FromHex(text)) = IdSize

ASSUME NodeIdsAssumption ==
  /\ IdSize \in Nat \ {0}
  /\ SpellsId(OwnText)
  /\ \A texts \in SealerTexts : \A x \in Pos : SpellsId(texts[x])
  /\ ec_nodeid = HashOfText(OwnText, IdSize)
  /\ Sealers = { Ids(texts) : texts \in SealerTexts }

\* A text in the one spelling without prefix, in small letters and of even length.
Plain(text) ==
  LET s     == IF Len(text) >= 2 /\ text[2] = LowerX THEN 2 ELSE 0
      small == [x \in 1 .. Len(text) - s |->
                  IF text[s + x] \in UpperA .. UpperF THEN text[s + x] + (LowerA - UpperA)
                  ELSE text[s + x]]
  IN  IF Len(small) % 2 = 1 THEN <<Digit0>> \o small ELSE small

\* Through saves, failed Puts, crashes and restarts the node keeps the data of
\* exactly those chunks that the placement gives to the list entry that spells the
\* node's own id, however it is spelled, and knows itself by that entry's index
\* (FixedHash(string), findSequenceInSealers, saveChunk).
KeepsChunksOfOwnId ==
  \A texts \in SealerTexts : ec_sealers = Ids(texts) =>
    LET Own(x) == Plain(texts[x]) = Plain(OwnText)
    IN  /\ pc # "down" => \A x \in Pos : ec_position_in_sealers = x <=> Own(x)
        /\ \A key \in Chunks : ec_db[key] # NotFound =>
             (ec_db[key].data # NoData <=> Own(ChunkSet[key[1]][key[2]]))
=============================================================================
