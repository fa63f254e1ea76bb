----------------------------- MODULE MatrixMul -----------------------------
(***************************************************************************)
(* The four procedures that multiply the coding matrix with the shards:    *)
(* matrix_mul_basic, _adv, _sse and _avx2.  The last two do the bytes that *)
(* fill whole vector registers first and the rest of each shard after; an  *)
(* encoder is given one procedure for good (matrix_mul, the default, is    *)
(* matrix_mul_avx2).  One action is the work on one row by one column.     *)
(* All the buffers are aligned, as matrix_mul_sse requires.                *)
(***************************************************************************)
EXTENDS GF256

CONSTANTS
  VectorBytes,   \* the bytes of a vector register, of the procedures that use one
  Sizes,         \* bound: the sizes of a shard
  Matrices,      \* bound: the matrices, tables of rows
  InputByte(_, _)  \* bound: the byte of an input at an offset

ASSUME MatrixMulAssumption ==
  /\ \A p \in DOMAIN VectorBytes : VectorBytes[p] \in Nat \ {0}
  /\ Sizes \subseteq Nat
  /\ \A m \in Matrices :
       /\ m \in Seq(Seq(Byte)) /\ Len(m) > 0 /\ Len(m[1]) > 0
       /\ \A row \in DOMAIN m : Len(m[row]) = Len(m[1])
       /\ \A col \in 0 .. Len(m[1])-1, size \in Sizes :
            \A x \in 0 .. size-1 : InputByte(col, x) \in Byte

VARIABLES
  mul_proc,    \* the procedure that runs
  mat,         \* its arguments
  num_bytes,
  outputs,     \* the output shards, each with bytes of other data behind it
  pc,          \* which loop runs: "clear", "rows", "tail"; "done", "aborted"
  r, c         \* the loop variables

vars == <<mul_proc, mat, num_bytes, outputs, pc, r, c>>

Procedures == {"basic", "adv", "sse", "avx2"}

\* How many bytes behind a shard are watched, and what they and a fresh output hold.
Behind == 4
Other  == 170

n_outputs == Len(mat)
n_inputs  == Len(At(mat, 0))

Vectored == mul_proc \in DOMAIN VectorBytes

\* Mutant of Rounded: a register that is filled in part is counted.
RoundedUp(size) ==
  IF Vectored
  THEN VectorBytes[mul_proc] * ((size + VectorBytes[mul_proc] - 1) \div VectorBytes[mul_proc])
  ELSE size

\* num_bytes & round_mask: the bytes that fill whole registers.
Rounded(size) ==
  IF Vectored THEN size - (size % VectorBytes[mul_proc]) ELSE size

\* The product of a matrix element and a byte: matrix_mul_basic calls mul, the others
\* look the two half-bytes up (the vector registers do so for all their bytes at once).
Times(val, x) == IF mul_proc = "basic" THEN Mul(x, val) ELSE AdvMul(val, x)

\* mul_row for the first column and mul_add_row for the others, on the bytes
\* first .. past-1; matrix_mul_basic has cleared the output and always adds.
RowProduct(out, row, col, first, past) ==
  LET val        == At(At(mat, row), col)
      product(x) == Times(val, InputByte(col, x))
      adds       == col # 0 \/ mul_proc = "basic"
  IN  [x \in DOMAIN out |->
         IF x \in first .. past-1
         THEN IF adds THEN Add(out[x], product(x)) ELSE product(x)
         ELSE out[x]]

-----------------------------------------------------------------------------
Init ==
  /\ mul_proc \in Procedures
  /\ mat \in Matrices
  /\ num_bytes \in Sizes
  /\ outputs = [o \in 0 .. n_outputs-1 |-> [x \in 0 .. num_bytes+Behind-1 |-> Other]]
  /\ pc = IF mul_proc = "basic" THEN "clear" ELSE "rows"
  /\ r = 0 /\ c = 0

\* matrix_mul_basic sets its outputs to zero.
Clear ==
  /\ pc = "clear"
  /\ pc' = "rows"
  /\ outputs' = [o \in DOMAIN outputs |->
                   [x \in DOMAIN outputs[o] |-> IF x < num_bytes THEN 0 ELSE outputs[o][x]]]
  /\ UNCHANGED <<mul_proc, mat, num_bytes, r, c>>

\* Mutant of NextColumn: the outer loop does not go on to the next row.
NextColumnStuck == IF c + 1 < n_inputs THEN r' = r /\ c' = c + 1
                   ELSE r' = r /\ c' = 0

\* The loop variables of two nested loops after one round of the inner one.
NextColumn == IF c + 1 < n_inputs THEN r' = r /\ c' = c + 1
              ELSE r' = r + 1 /\ c' = 0

\* One round of the loops over the whole registers (of basic and adv: over all bytes).
Rows ==
  /\ pc = "rows" /\ r < n_outputs
  /\ outputs' = [outputs EXCEPT ![r] = RowProduct(@, r, c, 0, Rounded(num_bytes))]
  /\ NextColumn
  /\ UNCHANGED <<mul_proc, mat, num_bytes, pc>>

\* Mutant of RowsDone: what is left of a shard is left as it is.
RowsDoneNoTail ==
  /\ pc = "rows" /\ r = n_outputs
  /\ pc' = "done"
  /\ r' = 0 /\ c' = 0
  /\ UNCHANGED <<mul_proc, mat, num_bytes, outputs>>

\* The rest of each shard follows, if there is one.
RowsDone ==
  /\ pc = "rows" /\ r = n_outputs
  /\ pc' = IF Rounded(num_bytes) # num_bytes THEN "tail" ELSE "done"
  /\ r' = 0 /\ c' = 0
  /\ UNCHANGED <<mul_proc, mat, num_bytes, outputs>>

\* One round of the loops over the rest, in matrix_mul_avx2.
TailAvx2 ==
  /\ pc = "tail" /\ mul_proc = "avx2" /\ r < n_outputs
  /\ outputs' = [outputs EXCEPT ![r] = RowProduct(@, r, c, Rounded(num_bytes), num_bytes)]
  /\ NextColumn
  /\ UNCHANGED <<mul_proc, mat, num_bytes, pc>>

TailAvx2Done ==
  /\ pc = "tail" /\ mul_proc = "avx2" /\ r = n_outputs
  /\ pc' = "done"
  /\ r' = 0 /\ c' = 0
  /\ UNCHANGED <<mul_proc, mat, num_bytes, outputs>>

\* The same loops in matrix_mul_sse: the inner loop, which runs while c < n_outputs,
\* increments r instead of c.  It goes on with the next row of the matrix, for the
\* output and the input it began with, until the row is none of the matrix ...
TailSse ==
  /\ pc = "tail" /\ mul_proc = "sse" /\ r < n_outputs
  /\ LET rest == RowProduct(outputs[0], r, 0, Rounded(num_bytes), num_bytes)
     IN  outputs' = [outputs EXCEPT ![0] = rest]
  /\ r' = r + 1
  /\ UNCHANGED <<mul_proc, mat, num_bytes, pc, c>>

\* ... which the assertion of matrix::operator() ends.
TailSseAborts ==
  /\ pc = "tail" /\ mul_proc = "sse" /\ r = n_outputs
  /\ pc' = "aborted"
  /\ UNCHANGED <<mul_proc, mat, num_bytes, outputs, r, c>>

Next == Clear \/ Rows \/ RowsDone \/ TailAvx2 \/ TailAvx2Done \/ TailSse \/ TailSseAborts

Spec == Init /\ [][Next]_vars /\ WF_vars(Next)

-----------------------------------------------------------------------------
(* Properties.                                                             *)

\* The byte that the product of the matrix and the inputs has in an output.
Expected(o, x) ==
  SumOf([y \in 0 .. n_inputs-1 |-> Mul(At(At(mat, o), y), InputByte(y, x))], n_inputs)

\* A procedure that comes to its end has computed the product, for every size of the
\* shards: what one procedure has encoded another one can recover.
ProceduresAgree ==
  pc = "done" =>
    \A o \in 0 .. n_outputs-1, x \in 0 .. num_bytes-1 : outputs[o][x] = Expected(o, x)

\* No step writes behind the end of a shard, where the next shard of the same buffer
\* begins (generate_ptrs leaves no room between them).
NothingWrittenBehind ==
  \A o \in 0 .. n_outputs-1, x \in num_bytes .. num_bytes+Behind-1 : outputs[o][x] = Other

\* The reference procedure, the one that Erasure uses, and the default come to their end.
ProcedureEnds == mul_proc # "sse" ~> pc = "done"

(* What the documentation says and the code does not do.                   *)

\* encode.h: all that matrix_mul_sse requires is that the inputs are aligned.
SseNeedsOnlyAlignment == pc # "aborted"
=============================================================================
