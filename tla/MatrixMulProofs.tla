-------------------------- MODULE MatrixMulProofs --------------------------
(***************************************************************************)
(* The procedures that come to their end have computed the product of the  *)
(* matrix and the shards, and none writes behind a shard: for every        *)
(* matrix, every size of the shards and every width of the registers.      *)
(*                                                                         *)
(* The inductive invariant MulInv says how far each byte is: it holds the  *)
(* sum of the first products of its row, as many as there are columns that *)
(* the loops are through with (Columns).  A byte no product was written to *)
(* holds anything, except in matrix_mul_basic, which clears its outputs.   *)
(***************************************************************************)
EXTENDS MatrixMul, GF256Proofs

\* The products whose sum is the byte x of output o, for the matrix m.
Products(m, o, x) ==
  [y \in 0 .. Len(At(m, 0))-1 |-> Mul(At(At(m, o), y), InputByte(y, x))]

MulTypeOK ==
  /\ mul_proc \in Procedures /\ mat \in Matrices /\ num_bytes \in Sizes
  /\ outputs \in [0 .. n_outputs-1 -> [0 .. num_bytes+Behind-1 -> Byte]]
  /\ pc \in {"clear", "rows", "tail", "done", "aborted"}
  /\ r \in 0 .. n_outputs /\ c \in 0 .. n_inputs-1
  /\ r = n_outputs => c = 0
  /\ pc = "clear" => mul_proc = "basic" /\ r = 0 /\ c = 0
  /\ pc = "tail" /\ mul_proc = "sse" => c = 0

\* How many columns the loops are through with in row o.
Columns(o) == IF o < r THEN n_inputs ELSE IF o = r THEN c ELSE 0

\* Byte x of output o has the products of the first j columns.
Summed(o, x, j) ==
  j > 0 \/ mul_proc = "basic" => outputs[o][x] = SumOf(Products(mat, o, x), j)

RowsInv ==
  pc = "rows" =>
    \A o \in 0 .. n_outputs-1, x \in 0 .. Rounded(num_bytes)-1 : Summed(o, x, Columns(o))

TailInv ==
  pc = "tail" /\ mul_proc = "avx2" =>
    \A o \in 0 .. n_outputs-1, x \in 0 .. num_bytes-1 :
      Summed(o, x, IF x < Rounded(num_bytes) THEN n_inputs ELSE Columns(o))

DoneInv ==
  pc = "done" =>
    \A o \in 0 .. n_outputs-1, x \in 0 .. num_bytes-1 : Summed(o, x, n_inputs)

MulInv == MulTypeOK /\ NothingWrittenBehind /\ RowsInv /\ TailInv /\ DoneInv

-----------------------------------------------------------------------------
(* The arguments.                                                          *)

LEMMA MatrixIs ==
  ASSUME NEW m \in Matrices
  PROVE  /\ Len(m) \in Nat \ {0} /\ Len(At(m, 0)) \in Nat \ {0}
         /\ \A o \in 0 .. Len(m)-1, y \in 0 .. Len(At(m, 0))-1 : At(At(m, o), y) \in Byte
<1>1. /\ m \in Seq(Seq(Byte)) /\ Len(m) > 0 /\ Len(m[1]) > 0
      /\ \A row \in DOMAIN m : Len(m[row]) = Len(m[1])
  BY MatrixMulAssumption
<1>2. Len(m) \in Nat /\ DOMAIN m = 1 .. Len(m) /\ \A i \in 1 .. Len(m) : m[i] \in Seq(Byte)
  BY <1>1, LenProperties, ElementOfSeq
<1>3. m[1] \in Seq(Byte) /\ At(m, 0) = m[1]
  BY <1>1, <1>2 DEF At
<1>4. Len(m[1]) \in Nat
  BY <1>3, LenProperties
<1>5. ASSUME NEW o \in 0 .. Len(m)-1, NEW y \in 0 .. Len(m[1])-1
      PROVE  At(At(m, o), y) \in Byte
  <2>1. o + 1 \in 1 .. Len(m) /\ y + 1 \in 1 .. Len(m[1])
    BY <1>2, <1>4
  <2>2. m[o+1] \in Seq(Byte) /\ Len(m[o+1]) = Len(m[1])
    BY <1>1, <1>2, <2>1
  <2>3. m[o+1][y+1] \in Byte
    BY <2>1, <2>2, ElementOfSeq
  <2>4. QED
    BY <2>3 DEF At
<1>6. QED
  BY <1>1, <1>2, <1>3, <1>4, <1>5

LEMMA SizeIs ==
  ASSUME MulTypeOK
  PROVE  num_bytes \in Nat /\ Rounded(num_bytes) \in 0 .. num_bytes
<1>1. num_bytes \in Nat
  BY MatrixMulAssumption DEF MulTypeOK
<1>2. CASE Vectored
  <2> DEFINE w == VectorBytes[mul_proc]
  <2>1. w \in Nat \ {0}
    BY <1>2, MatrixMulAssumption DEF Vectored
  <2>2. Rounded(num_bytes) = num_bytes - (num_bytes % w)
    BY <1>2 DEF Rounded
  <2> HIDE DEF w
  <2>3. num_bytes % w \in 0 .. num_bytes
    <3>1. /\ num_bytes = w * (num_bytes \div w) + (num_bytes % w)
          /\ num_bytes \div w \in Nat /\ num_bytes % w \in Nat
      BY <1>1, <2>1
    <3>2. w * (num_bytes \div w) \in Nat
      BY <2>1, <3>1
    <3>3. QED
      BY <1>1, <3>1, <3>2
  <2>4. QED
    BY <1>1, <2>2, <2>3
<1>3. CASE ~ Vectored
  BY <1>1, <1>3 DEF Rounded
<1>4. QED
  BY <1>1, <1>2, <1>3

LEMMA ProductsAre ==
  ASSUME NEW m \in Matrices, NEW size \in Sizes,
         NEW o \in 0 .. Len(m)-1, NEW x \in 0 .. size-1
  PROVE  Bytes(Products(m, o, x), Len(At(m, 0)))
<1> SUFFICES ASSUME NEW y \in 0 .. Len(At(m, 0))-1 PROVE Products(m, o, x)[y] \in Byte
  BY DEF Bytes
<1>1. Products(m, o, x)[y] = Mul(At(At(m, o), y), InputByte(y, x))
  BY DEF Products
<1>2. At(m, 0) = m[1]
  BY DEF At
<1>3. InputByte(y, x) \in Byte
  BY <1>2, MatrixMulAssumption
<1>4. QED
  BY <1>1, <1>3, MatrixIs, MulClosed

\* Looking up half-bytes or logarithms, every procedure multiplies like mul.
LEMMA TimesIsMul ==
  ASSUME NEW v \in Byte, NEW x \in Byte
  PROVE  Times(v, x) = Mul(v, x)
BY HalfBytesMultiply, MulCommutes DEF Times

-----------------------------------------------------------------------------
(* One row by one column.                                                  *)

\* The bytes of the row get their product, the others stay.
LEMMA RowProductIs ==
  ASSUME MulTypeOK, NEW o \in 0 .. n_outputs-1, NEW row \in 0 .. n_outputs-1,
         NEW col \in 0 .. n_inputs-1, NEW first \in Nat, NEW past \in 0 .. num_bytes
  PROVE  /\ RowProduct(outputs[o], row, col, first, past) \in [0 .. num_bytes+Behind-1 -> Byte]
         /\ \A x \in 0 .. num_bytes+Behind-1 : x \notin first .. past-1 =>
              RowProduct(outputs[o], row, col, first, past)[x] = outputs[o][x]
         /\ \A x \in first .. past-1 :
              RowProduct(outputs[o], row, col, first, past)[x] =
                IF col # 0 \/ mul_proc = "basic"
                THEN Add(outputs[o][x], Products(mat, row, x)[col])
                ELSE Products(mat, row, x)[col]
<1> DEFINE out == outputs[o]
           new == RowProduct(out, row, col, first, past)
           val == At(At(mat, row), col)
<1>1. /\ out \in [0 .. num_bytes+Behind-1 -> Byte] /\ num_bytes \in Nat
      /\ mat \in Matrices /\ num_bytes \in Sizes
  BY SizeIs DEF MulTypeOK
<1>2. val \in Byte
  BY <1>1, MatrixIs DEF n_outputs, n_inputs
<1>3. ASSUME NEW x \in first .. past-1
      PROVE  Times(val, InputByte(col, x)) = Products(mat, row, x)[col]
             /\ Products(mat, row, x)[col] \in Byte /\ x \in 0 .. num_bytes+Behind-1
  <2>1. x \in 0 .. num_bytes-1 /\ x \in 0 .. num_bytes+Behind-1
    BY <1>1 DEF Behind
  <2>2. At(mat, 0) = mat[1]
    BY DEF At
  <2>3. InputByte(col, x) \in Byte
    BY <1>1, <2>1, <2>2, MatrixMulAssumption DEF n_inputs
  <2>4. Products(mat, row, x)[col] = Mul(val, InputByte(col, x))
    BY DEF Products, n_inputs
  <2>5. QED
    BY <1>2, <2>1, <2>3, <2>4, TimesIsMul, MulClosed
<1>4. new = [x \in DOMAIN out |->
               IF x \in first .. past-1
               THEN IF col # 0 \/ mul_proc = "basic"
                    THEN Add(out[x], Times(val, InputByte(col, x)))
                    ELSE Times(val, InputByte(col, x))
               ELSE out[x]]
  BY DEF RowProduct
<1> HIDE DEF new, out, val
<1>5. \A x \in 0 .. num_bytes+Behind-1 : x \notin first .. past-1 => new[x] = out[x]
  BY <1>1, <1>4
<1>6. \A x \in first .. past-1 :
        new[x] = IF col # 0 \/ mul_proc = "basic"
                 THEN Add(out[x], Products(mat, row, x)[col])
                 ELSE Products(mat, row, x)[col]
  BY <1>1, <1>3, <1>4
<1>7. \A x \in 0 .. num_bytes+Behind-1 : new[x] \in Byte
  <2> SUFFICES ASSUME NEW x \in 0 .. num_bytes+Behind-1 PROVE new[x] \in Byte
    OBVIOUS
  <2>1. out[x] \in Byte
    BY <1>1
  <2>2. QED
    BY <1>3, <1>5, <1>6, <2>1, AddClosed
<1>8. new \in [0 .. num_bytes+Behind-1 -> Byte]
  BY <1>1, <1>4, <1>7
<1>9. QED
  BY <1>5, <1>6, <1>8 DEF new, out

\* A byte that has the products of the columns before c has them with c's too.
LEMMA RowProductSums ==
  ASSUME MulTypeOK, r < n_outputs, NEW first \in Nat, NEW past \in 0 .. num_bytes,
         NEW x \in first .. past-1, Summed(r, x, c)
  PROVE  RowProduct(outputs[r], r, c, first, past)[x] = SumOf(Products(mat, r, x), c + 1)
<1>1. /\ mat \in Matrices /\ num_bytes \in Sizes /\ num_bytes \in Nat
      /\ r \in 0 .. n_outputs-1 /\ c \in 0 .. n_inputs-1
  <2>1. n_outputs \in Nat
    BY MatrixIs DEF MulTypeOK, n_outputs
  <2>2. QED
    BY <2>1, SizeIs DEF MulTypeOK
<1> DEFINE f == Products(mat, r, x)
<1>2. x \in 0 .. num_bytes-1
  BY <1>1
<1>3. Bytes(f, n_inputs) /\ n_inputs \in Nat
  BY <1>1, <1>2, ProductsAre, MatrixIs DEF n_inputs, n_outputs
<1> DEFINE new == RowProduct(outputs[r], r, c, first, past)
<1>4. new[x] = IF c # 0 \/ mul_proc = "basic" THEN Add(outputs[r][x], f[c]) ELSE f[c]
  <2>1. \A z \in first .. past-1 :
          RowProduct(outputs[r], r, c, first, past)[z] =
            IF c # 0 \/ mul_proc = "basic"
            THEN Add(outputs[r][z], Products(mat, r, z)[c])
            ELSE Products(mat, r, z)[c]
    BY <1>1, RowProductIs
  <2>2. QED
    BY <2>1
<1> HIDE DEF f, new
<1>5. Bytes(f, c + 1)
  BY <1>1, <1>3, FewerBytes
<1>6. /\ SumOf(f, c + 1) = Add(SumOf(f, c), f[c])
      /\ f[c] \in Byte
  BY <1>1, <1>5, SumStep
<1>7. CASE c # 0 \/ mul_proc = "basic"
  <2>1. outputs[r][x] = SumOf(f, c)
    BY <1>1, <1>7 DEF Summed, f
  <2>2. QED
    BY <1>4, <1>6, <1>7, <2>1 DEF new, f
<1>8. CASE c = 0 /\ mul_proc # "basic"
  <2>1. SumOf(f, c) = 0
    BY <1>8, SumOfNone
  <2>2. QED
    BY <1>4, <1>6, <1>8, <2>1, AddZero DEF new, f
<1>9. QED
  BY <1>7, <1>8

-----------------------------------------------------------------------------
(* The invariant.                                                          *)

LEMMA MulInitially ==
  ASSUME Init
  PROVE  MulInv
<1> USE DEF Init
<1>1. mat \in Matrices /\ num_bytes \in Sizes /\ num_bytes \in Nat /\ Other \in Byte
  BY MatrixMulAssumption DEF Other, Byte
<1>2. n_outputs \in Nat \ {0} /\ n_inputs \in Nat \ {0}
  BY <1>1, MatrixIs DEF n_outputs, n_inputs
<1>3. MulTypeOK
  BY <1>1, <1>2 DEF MulTypeOK
<1>4. NothingWrittenBehind
  BY <1>1 DEF NothingWrittenBehind, Behind
<1>5. RowsInv
  <2>1. pc = "rows" => mul_proc # "basic"
    OBVIOUS
  <2>2. \A o \in 0 .. n_outputs-1 : Columns(o) = 0
    BY <1>2 DEF Columns
  <2>3. QED
    BY <2>1, <2>2 DEF RowsInv, Summed
<1>6. TailInv /\ DoneInv
  BY DEF TailInv, DoneInv
<1>7. QED
  BY <1>3, <1>4, <1>5, <1>6 DEF MulInv

\* After a step that leaves the arguments alone, all that is defined of them is the same.
LEMMA SameArguments ==
  ASSUME UNCHANGED <<mul_proc, mat, num_bytes>>
  PROVE  /\ n_outputs' = n_outputs /\ n_inputs' = n_inputs
         /\ Rounded(num_bytes)' = Rounded(num_bytes)
BY DEF n_outputs, n_inputs, Rounded, Vectored

LEMMA SizesAre ==
  ASSUME MulTypeOK
  PROVE  n_outputs \in Nat \ {0} /\ n_inputs \in Nat \ {0}
BY MatrixIs DEF MulTypeOK, n_outputs, n_inputs

\* The loop variables go on to the next pair: the row has one column more, no other
\* row has more or fewer.
LEMMA NextColumnIs ==
  ASSUME MulTypeOK, NextColumn, r < n_outputs, UNCHANGED <<mul_proc, mat, num_bytes>>
  PROVE  /\ r' \in 0 .. n_outputs /\ c' \in 0 .. n_inputs-1 /\ (r' = n_outputs => c' = 0)
         /\ \A o \in 0 .. n_outputs-1 :
              Columns(o)' = IF o = r THEN c + 1 ELSE Columns(o)
<1>1. /\ r \in 0 .. n_outputs-1 /\ c \in 0 .. n_inputs-1
      /\ n_outputs \in Nat \ {0} /\ n_inputs \in Nat \ {0}
  BY SizesAre DEF MulTypeOK
<1>2. n_inputs' = n_inputs
  BY SameArguments
<1>3. CASE c + 1 < n_inputs
  <2>1. r' = r /\ c' = c + 1
    BY <1>3 DEF NextColumn
  <2>2. QED
    BY <1>1, <1>2, <1>3, <2>1 DEF Columns
<1>4. CASE ~ (c + 1 < n_inputs)
  <2>1. r' = r + 1 /\ c' = 0 /\ c + 1 = n_inputs
    BY <1>1, <1>4 DEF NextColumn
  <2>2. QED
    BY <1>1, <1>2, <2>1 DEF Columns
<1>5. QED
  BY <1>3, <1>4

LEMMA ColumnsAre ==
  ASSUME MulTypeOK, NEW o \in 0 .. n_outputs-1
  PROVE  Columns(o) \in 0 .. n_inputs /\ (o = r => Columns(o) = c)
BY SizesAre DEF MulTypeOK, Columns

\* One round of the loops on the bytes first .. past-1 of the shards.
LEMMA RoundKeepsType ==
  ASSUME MulTypeOK, NothingWrittenBehind, r < n_outputs,
         NEW first \in Nat, NEW past \in 0 .. num_bytes,
         outputs' = [outputs EXCEPT ![r] = RowProduct(@, r, c, first, past)],
         NextColumn, pc = "rows" \/ (pc = "tail" /\ mul_proc = "avx2"),
         UNCHANGED <<mul_proc, mat, num_bytes, pc>>
  PROVE  MulTypeOK' /\ NothingWrittenBehind'
<1> DEFINE new == RowProduct(outputs[r], r, c, first, past)
           Out == [0 .. num_bytes+Behind-1 -> Byte]
<1>1. /\ r \in 0 .. n_outputs-1 /\ c \in 0 .. n_inputs-1
      /\ outputs \in [0 .. n_outputs-1 -> Out] /\ num_bytes \in Nat
      /\ n_outputs' = n_outputs /\ n_inputs' = n_inputs
  BY SizesAre, SizeIs, SameArguments DEF MulTypeOK
<1>2. /\ new \in Out
      /\ \A x \in 0 .. num_bytes+Behind-1 : x \notin first .. past-1 => new[x] = outputs[r][x]
  <2>1. RowProduct(outputs[r], r, c, first, past) \in Out
    BY <1>1, RowProductIs
  <2>2. \A x \in 0 .. num_bytes+Behind-1 : x \notin first .. past-1 =>
          RowProduct(outputs[r], r, c, first, past)[x] = outputs[r][x]
    BY <1>1, RowProductIs
  <2>3. QED
    BY <2>1, <2>2
<1>3. outputs' = [outputs EXCEPT ![r] = new]
  OBVIOUS
<1> HIDE DEF new
<1>4. outputs' \in [0 .. n_outputs-1 -> Out]
  BY <1>1, <1>2, <1>3
<1>5. MulTypeOK'
  BY <1>1, <1>4, NextColumnIs DEF MulTypeOK
<1>6. ASSUME NEW o \in 0 .. n_outputs-1, NEW x \in num_bytes .. num_bytes+Behind-1
      PROVE  outputs'[o][x] = Other
  <2>1. x \in 0 .. num_bytes+Behind-1 /\ x \notin first .. past-1
    BY <1>1
  <2>2. outputs[o][x] = Other
    BY DEF NothingWrittenBehind
  <2>3. QED
    BY <1>1, <1>2, <1>3, <2>1, <2>2
<1>7. NothingWrittenBehind'
  BY <1>1, <1>6 DEF NothingWrittenBehind
<1>8. QED
  BY <1>5, <1>7

\* The bytes of the round have one product more where the others have as many as before.
LEMMA RoundSums ==
  ASSUME MulTypeOK, r < n_outputs, NEW first \in Nat, NEW past \in 0 .. num_bytes,
         outputs' = [outputs EXCEPT ![r] = RowProduct(@, r, c, first, past)],
         NextColumn, UNCHANGED <<mul_proc, mat, num_bytes, pc>>,
         NEW o \in 0 .. n_outputs-1, NEW x \in first .. past-1, Summed(o, x, Columns(o))
  PROVE  Summed(o, x, Columns(o))'
<1>1. /\ r \in 0 .. n_outputs-1 /\ c \in 0 .. n_inputs-1
      /\ outputs \in [0 .. n_outputs-1 -> [0 .. num_bytes+Behind-1 -> Byte]]
  BY SizesAre DEF MulTypeOK
<1>2. Columns(o)' = IF o = r THEN c + 1 ELSE Columns(o)
  BY NextColumnIs
<1>3. CASE o = r
  <2>1. outputs'[o][x] = RowProduct(outputs[r], r, c, first, past)[x]
    BY <1>1, <1>3
  <2>2. Summed(r, x, c)
    BY <1>3, ColumnsAre
  <2>3. outputs'[o][x] = SumOf(Products(mat, o, x), c + 1)
    BY <1>3, <2>1, <2>2, RowProductSums
  <2>4. QED
    BY <1>2, <1>3, <2>3 DEF Summed
<1>4. CASE o # r
  <2>1. outputs'[o] = outputs[o]
    BY <1>1, <1>4
  <2>2. QED
    BY <1>2, <1>4, <2>1 DEF Summed
<1>5. QED
  BY <1>3, <1>4

LEMMA ClearKeeps ==
  ASSUME MulInv, Clear
  PROVE  MulInv'
<1> USE DEF Clear
<1>1. /\ MulTypeOK /\ NothingWrittenBehind /\ mul_proc = "basic" /\ num_bytes \in Nat
      /\ outputs \in [0 .. n_outputs-1 -> [0 .. num_bytes+Behind-1 -> Byte]]
      /\ n_outputs' = n_outputs /\ n_inputs' = n_inputs
      /\ Rounded(num_bytes)' = Rounded(num_bytes) /\ Rounded(num_bytes) \in 0 .. num_bytes
      /\ n_outputs \in Nat \ {0}
  BY SizeIs, SizesAre, SameArguments DEF MulInv, MulTypeOK
<1>2. \A o \in 0 .. n_outputs-1, x \in 0 .. num_bytes+Behind-1 :
        outputs'[o][x] = IF x < num_bytes THEN 0 ELSE outputs[o][x]
  BY <1>1
<1>3. outputs' \in [0 .. n_outputs-1 -> [0 .. num_bytes+Behind-1 -> Byte]]
  BY <1>1, BytesAre
<1>4. MulTypeOK'
  BY <1>1, <1>3 DEF MulTypeOK
<1>5. NothingWrittenBehind'
  <2> SUFFICES ASSUME NEW o \in 0 .. n_outputs-1, NEW x \in num_bytes .. num_bytes+Behind-1
               PROVE  outputs'[o][x] = Other
    BY <1>1 DEF NothingWrittenBehind
  <2>1. x \in 0 .. num_bytes+Behind-1 /\ ~ (x < num_bytes)
    BY <1>1
  <2>2. outputs[o][x] = Other
    BY <1>1 DEF NothingWrittenBehind
  <2>3. QED
    BY <1>2, <2>1, <2>2
<1>6. RowsInv'
  <2>1. \A o \in 0 .. n_outputs-1 : Columns(o)' = 0
    BY <1>1 DEF Columns, MulTypeOK
  <2>2. \A o \in 0 .. n_outputs-1, x \in 0 .. Rounded(num_bytes)-1 : outputs'[o][x] = 0
    BY <1>1, <1>2 DEF Behind
  <2>3. QED
    BY <1>1, <2>1, <2>2, SumOfNone DEF RowsInv, Summed
<1>7. TailInv' /\ DoneInv'
  BY DEF TailInv, DoneInv
<1>8. QED
  BY <1>4, <1>5, <1>6, <1>7 DEF MulInv

LEMMA RowsKeeps ==
  ASSUME MulInv, Rows
  PROVE  MulInv'
<1> USE DEF Rows
<1>1. MulTypeOK /\ NothingWrittenBehind /\ RowsInv
  BY DEF MulInv
<1>2. /\ n_outputs' = n_outputs /\ Rounded(num_bytes)' = Rounded(num_bytes)
      /\ Rounded(num_bytes) \in 0 .. num_bytes /\ 0 \in Nat
  BY <1>1, SizeIs, SameArguments
<1>3. MulTypeOK' /\ NothingWrittenBehind'
  BY <1>1, <1>2, RoundKeepsType
<1>4. RowsInv'
  <2>1. ASSUME NEW o \in 0 .. n_outputs-1, NEW x \in 0 .. Rounded(num_bytes)-1
        PROVE  Summed(o, x, Columns(o))'
    <3>1. Summed(o, x, Columns(o))
      BY <1>1 DEF RowsInv
    <3>2. QED
      BY <1>1, <1>2, <3>1, RoundSums
  <2>2. QED
    BY <1>2, <2>1 DEF RowsInv
<1>5. TailInv' /\ DoneInv'
  BY DEF TailInv, DoneInv
<1>6. QED
  BY <1>3, <1>4, <1>5 DEF MulInv

LEMMA RowsDoneKeeps ==
  ASSUME MulInv, RowsDone
  PROVE  MulInv'
<1> USE DEF RowsDone
<1>1. MulTypeOK /\ NothingWrittenBehind /\ RowsInv
  BY DEF MulInv
<1>2. /\ n_outputs' = n_outputs /\ n_inputs' = n_inputs
      /\ Rounded(num_bytes)' = Rounded(num_bytes)
      /\ Rounded(num_bytes) \in 0 .. num_bytes /\ num_bytes \in Nat
      /\ n_outputs \in Nat \ {0} /\ n_inputs \in Nat \ {0}
  BY <1>1, SizeIs, SizesAre, SameArguments
<1>3. MulTypeOK'
  BY <1>1, <1>2 DEF MulTypeOK
<1>4. NothingWrittenBehind'
  BY <1>1, <1>2 DEF NothingWrittenBehind
<1>5. ASSUME NEW o \in 0 .. n_outputs-1, NEW x \in 0 .. Rounded(num_bytes)-1
      PROVE  Summed(o, x, n_inputs)'
  <2>1. Columns(o) = n_inputs
    BY <1>2 DEF Columns
  <2>2. Summed(o, x, n_inputs)
    BY <1>1, <2>1 DEF RowsInv
  <2>3. QED
    BY <1>2, <2>2 DEF Summed
<1>6. RowsInv'
  BY DEF RowsInv
<1>7. TailInv'
  <2> SUFFICES ASSUME pc' = "tail", mul_proc = "avx2",
                      NEW o \in 0 .. n_outputs-1, NEW x \in 0 .. num_bytes-1
               PROVE  Summed(o, x, IF x < Rounded(num_bytes) THEN n_inputs ELSE Columns(o))'
    BY <1>2 DEF TailInv
  <2>1. CASE x < Rounded(num_bytes)
    BY <1>2, <1>5, <2>1
  <2>2. CASE ~ (x < Rounded(num_bytes))
    <3>1. Columns(o)' = 0
      BY <1>2 DEF Columns
    <3>2. QED
      BY <1>2, <2>2, <3>1 DEF Summed
  <2>3. QED
    BY <2>1, <2>2
<1>8. DoneInv'
  BY <1>2, <1>5 DEF DoneInv
<1>9. QED
  BY <1>3, <1>4, <1>6, <1>7, <1>8 DEF MulInv

LEMMA TailAvx2Keeps ==
  ASSUME MulInv, TailAvx2
  PROVE  MulInv'
<1> USE DEF TailAvx2
<1>1. MulTypeOK /\ NothingWrittenBehind /\ TailInv
  BY DEF MulInv
<1>2. /\ n_outputs' = n_outputs /\ n_inputs' = n_inputs
      /\ Rounded(num_bytes)' = Rounded(num_bytes)
      /\ Rounded(num_bytes) \in 0 .. num_bytes /\ num_bytes \in Nat
      /\ Rounded(num_bytes) \in Nat /\ num_bytes \in 0 .. num_bytes
      /\ r \in 0 .. n_outputs-1
      /\ outputs \in [0 .. n_outputs-1 -> [0 .. num_bytes+Behind-1 -> Byte]]
  BY <1>1, SizeIs, SizesAre, SameArguments DEF MulTypeOK
<1>3. MulTypeOK' /\ NothingWrittenBehind'
  BY <1>1, <1>2, RoundKeepsType
<1>4. TailInv'
  <2> SUFFICES ASSUME NEW o \in 0 .. n_outputs-1, NEW x \in 0 .. num_bytes-1
               PROVE  Summed(o, x, IF x < Rounded(num_bytes) THEN n_inputs ELSE Columns(o))'
    BY <1>2 DEF TailInv
  <2>1. CASE x < Rounded(num_bytes)
    <3>1. Summed(o, x, n_inputs)
      BY <1>1, <2>1 DEF TailInv
    <3>2. outputs'[o][x] = outputs[o][x]
      <4>1. RowProduct(outputs[r], r, c, Rounded(num_bytes), num_bytes)[x] = outputs[r][x]
        <5>1. x \in 0 .. num_bytes+Behind-1 /\ x \notin Rounded(num_bytes) .. num_bytes-1
          BY <1>2, <2>1 DEF Behind
        <5>2. c \in 0 .. n_inputs-1
          BY <1>1 DEF MulTypeOK
        <5>3. \A z \in 0 .. num_bytes+Behind-1 : z \notin Rounded(num_bytes) .. num_bytes-1 =>
                RowProduct(outputs[r], r, c, Rounded(num_bytes), num_bytes)[z] = outputs[r][z]
          BY <1>1, <1>2, <5>2, RowProductIs
        <5>4. QED
          BY <5>1, <5>3
      <4>2. QED
        BY <1>2, <4>1
    <3>3. QED
      BY <1>2, <2>1, <3>1, <3>2 DEF Summed
  <2>2. CASE ~ (x < Rounded(num_bytes))
    <3>1. x \in Rounded(num_bytes) .. num_bytes-1
      BY <1>2, <2>2
    <3>2. Summed(o, x, Columns(o))
      BY <1>1, <2>2 DEF TailInv
    <3>3. Summed(o, x, Columns(o))'
      BY <1>1, <1>2, <3>1, <3>2, RoundSums
    <3>4. QED
      BY <1>2, <2>2, <3>3
  <2>3. QED
    BY <2>1, <2>2
<1>5. RowsInv' /\ DoneInv'
  BY DEF RowsInv, DoneInv
<1>6. QED
  BY <1>3, <1>4, <1>5 DEF MulInv

LEMMA TailAvx2DoneKeeps ==
  ASSUME MulInv, TailAvx2Done
  PROVE  MulInv'
<1> USE DEF TailAvx2Done
<1>1. MulTypeOK /\ NothingWrittenBehind /\ TailInv
  BY DEF MulInv
<1>2. /\ n_outputs' = n_outputs /\ n_inputs' = n_inputs /\ num_bytes \in Nat
      /\ n_outputs \in Nat \ {0} /\ n_inputs \in Nat \ {0}
  BY <1>1, SizeIs, SizesAre, SameArguments
<1>3. MulTypeOK'
  BY <1>1, <1>2 DEF MulTypeOK
<1>4. NothingWrittenBehind'
  BY <1>1, <1>2 DEF NothingWrittenBehind
<1>5. DoneInv'
  <2> SUFFICES ASSUME NEW o \in 0 .. n_outputs-1, NEW x \in 0 .. num_bytes-1
               PROVE  Summed(o, x, n_inputs)'
    BY <1>2 DEF DoneInv
  <2>1. Columns(o) = n_inputs
    BY <1>2 DEF Columns
  <2>2. Summed(o, x, n_inputs)
    BY <1>1, <2>1 DEF TailInv
  <2>3. QED
    BY <1>2, <2>2 DEF Summed
<1>6. RowsInv' /\ TailInv'
  BY DEF RowsInv, TailInv
<1>7. QED
  BY <1>3, <1>4, <1>5, <1>6 DEF MulInv

LEMMA TailSseKeeps ==
  ASSUME MulInv, TailSse
  PROVE  MulInv'
<1> USE DEF TailSse
<1>1. MulTypeOK /\ NothingWrittenBehind
  BY DEF MulInv
<1> DEFINE rest == RowProduct(outputs[0], r, 0, Rounded(num_bytes), num_bytes)
           Out == [0 .. num_bytes+Behind-1 -> Byte]
<1>2. /\ n_outputs' = n_outputs /\ n_inputs' = n_inputs /\ num_bytes \in Nat
      /\ Rounded(num_bytes) \in Nat /\ num_bytes \in 0 .. num_bytes
      /\ 0 \in 0 .. n_outputs-1 /\ r \in 0 .. n_outputs-1 /\ 0 \in 0 .. n_inputs-1
      /\ outputs \in [0 .. n_outputs-1 -> Out] /\ n_outputs \in Nat /\ c = 0
  BY <1>1, SizeIs, SizesAre, SameArguments DEF MulTypeOK
<1>3. rest \in Out
  BY <1>1, <1>2, RowProductIs
<1>4. \A x \in 0 .. num_bytes+Behind-1 :
        x \notin Rounded(num_bytes) .. num_bytes-1 => rest[x] = outputs[0][x]
  BY <1>1, <1>2, RowProductIs
<1>5. outputs' = [outputs EXCEPT ![0] = rest]
  OBVIOUS
<1> HIDE DEF rest
<1>6. outputs' \in [0 .. n_outputs-1 -> Out]
  BY <1>2, <1>3, <1>5
<1>7. MulTypeOK'
  <2>1. r' \in 0 .. n_outputs /\ c' = 0
    BY <1>2
  <2>2. QED
    BY <1>1, <1>2, <1>6, <2>1 DEF MulTypeOK
<1>8. NothingWrittenBehind'
  <2> SUFFICES ASSUME NEW o \in 0 .. n_outputs-1, NEW x \in num_bytes .. num_bytes+Behind-1
               PROVE  outputs'[o][x] = Other
    BY <1>2 DEF NothingWrittenBehind
  <2>1. x \in 0 .. num_bytes+Behind-1 /\ x \notin Rounded(num_bytes) .. num_bytes-1
    BY <1>2
  <2>2. outputs[o][x] = Other
    BY <1>1 DEF NothingWrittenBehind
  <2>3. QED
    BY <1>2, <1>4, <1>5, <2>1, <2>2
<1>9. RowsInv' /\ TailInv' /\ DoneInv'
  BY DEF RowsInv, TailInv, DoneInv
<1>10. QED
  BY <1>7, <1>8, <1>9 DEF MulInv

LEMMA TailSseAbortsKeeps ==
  ASSUME MulInv, TailSseAborts
  PROVE  MulInv'
<1> USE DEF TailSseAborts
<1>1. n_outputs' = n_outputs /\ n_inputs' = n_inputs
  BY SameArguments
<1>2. MulTypeOK'
  BY <1>1 DEF MulInv, MulTypeOK
<1>3. NothingWrittenBehind'
  BY <1>1 DEF MulInv, NothingWrittenBehind
<1>4. RowsInv' /\ TailInv' /\ DoneInv'
  BY DEF RowsInv, TailInv, DoneInv
<1>5. QED
  BY <1>2, <1>3, <1>4 DEF MulInv

LEMMA MulInductive ==
  ASSUME MulInv, [Next]_vars
  PROVE  MulInv'
<1>1. CASE UNCHANGED vars
  <2>1. /\ UNCHANGED <<mul_proc, mat, num_bytes, outputs, pc, r, c>>
        /\ n_outputs' = n_outputs /\ n_inputs' = n_inputs
        /\ Rounded(num_bytes)' = Rounded(num_bytes)
    BY <1>1, SameArguments DEF vars
  <2>2. \A o : Columns(o)' = Columns(o)
    BY <2>1 DEF Columns
  <2>4. MulTypeOK' /\ NothingWrittenBehind'
    BY <2>1 DEF MulInv, MulTypeOK, NothingWrittenBehind
  <2>5. RowsInv'
    BY <2>1, <2>2 DEF MulInv, RowsInv, Summed
  <2>6. TailInv' /\ DoneInv'
    BY <2>1, <2>2 DEF MulInv, TailInv, DoneInv, Summed
  <2>7. QED
    BY <2>4, <2>5, <2>6 DEF MulInv
<1>2. QED
  BY <1>1, ClearKeeps, RowsKeeps, RowsDoneKeeps, TailAvx2Keeps, TailAvx2DoneKeeps,
     TailSseKeeps, TailSseAbortsKeeps DEF Next

\* No step of any procedure writes behind the end of a shard.
THEOREM NeverWritesBehind == Spec => []NothingWrittenBehind
<1>1. MulInv => NothingWrittenBehind
  BY DEF MulInv
<1>2. QED
  BY <1>1, MulInitially, MulInductive, PTL DEF Spec

\* What a procedure that comes to its end has written is the product of the matrix and
\* the shards, in the field.
THEOREM ProductIsComputed == Spec => []ProceduresAgree
<1>1. MulInv => ProceduresAgree
  <2> SUFFICES ASSUME MulInv, pc = "done",
                      NEW o \in 0 .. n_outputs-1, NEW x \in 0 .. num_bytes-1
               PROVE  outputs[o][x] = Expected(o, x)
    BY DEF ProceduresAgree
  <2>1. Summed(o, x, n_inputs) /\ n_inputs \in Nat \ {0}
    BY SizesAre DEF MulInv, DoneInv
  <2>2. outputs[o][x] = SumOf(Products(mat, o, x), n_inputs)
    BY <2>1 DEF Summed
  <2>3. QED
    BY <2>2 DEF Expected, Products, n_inputs
<1>2. QED
  BY <1>1, MulInitially, MulInductive, PTL DEF Spec
=============================================================================
