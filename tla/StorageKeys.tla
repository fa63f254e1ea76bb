---------------------------- MODULE StorageKeys ----------------------------
(***************************************************************************)
(* The names under which a node keeps the chunk at a position of an epoch: *)
(* in the database the two numbers in hexadecimal, in the cache in decimal *)
(* digits, with a plus sign between them.  A name is a sequence of digits. *)
(* The program has KeyBase = 16 and CacheBase = 10.                        *)
(***************************************************************************)
EXTENDS Integers, Sequences

CONSTANTS KeyBase, CacheBase

ASSUME StorageKeysAssumption ==
  KeyBase \in Nat \ {0, 1} /\ CacheBase \in Nat \ {0, 1}

\* The character '+', which is no digit.
Plus == -1

\* The digits of a number, those of the quotient first.
StrInBase(num, base) ==
  LET str[x \in 0 .. num] ==
        IF x \div base > 0 THEN Append(str[x \div base], x % base) ELSE <<x % base>>
  IN  str[num]

DecIntToHexStr(num) == StrInBase(num, KeyBase)
to_string(num)      == StrInBase(num, CacheBase)

\* Mutant of GetChunkDataKey: the two numbers run together.
GetChunkDataKeyUnseparated(epoch, pos) == DecIntToHexStr(epoch) \o DecIntToHexStr(pos)

GetChunkDataKey(epoch, pos) == DecIntToHexStr(epoch) \o <<Plus>> \o DecIntToHexStr(pos)

\* Mutant of CacheKey: likewise.
CacheKeyUnseparated(epoch, pos) == to_string(epoch) \o to_string(pos)

CacheKey(epoch, pos) == to_string(epoch) \o <<Plus>> \o to_string(pos)
=============================================================================
