------------------------------- MODULE RSCode -------------------------------
(***************************************************************************)
(* The erasure-coding library behind liberasure.h: the Reed-Solomon coding *)
(* matrix, encoding, and recovery of lost shards from any k of the n.  The *)
(* block API makes a stream for each call and destroys it; the stream API  *)
(* lets the caller keep one, for other data and beyond its encoder.        *)
(*                                                                         *)
(* A shard is one byte here: every operation treats the data_size bytes of *)
(* a shard one by one and alike.  A matrix is a table of rows, so element  *)
(* (r, c) is Elem(m, r, c) with both counted from 0; Null is a matrix      *)
(* without values, NoEncoder a null pointer.                               *)
(***************************************************************************)
EXTENDS GF256, FiniteSets

CONSTANTS
  Params,      \* bound: the <<n, k, data_size>> an encoder is asked for
  Streamed,    \* bound: the <<n, k>> of the encoders that streams are created of
  Data(_),     \* bound: Data(k), the tuples of k bytes that are encoded
  Garbage      \* bound: what the buffer of a lost shard may hold

ASSUME RSCodeAssumption ==
  /\ Params \subseteq Byte \X Byte \X Nat
  /\ <<0, 0>> \notin Streamed
  /\ \A p \in Params : \A d \in Data(p[2]) : d \in Seq(Byte) /\ Len(d) = p[2]
  /\ Garbage \subseteq Byte

VARIABLES
  encoder,     \* the encoder: its n, k and coding matrix
  encode_stream, recover_stream,   \* the streams the caller has
  shards,      \* the buffers of the n shards
  present,     \* the indices of those that are not lost
  result,      \* what the last call returned, and what it was given
  encoded,     \* history: the shards as the last encode left them ...
  code         \* ... and the <<n, k>> of the encoder that encoded them

streams == <<encode_stream, recover_stream>>
buffers == <<shards, present, encoded, code>>
vars    == <<encoder, streams, buffers, result>>

Null      == <<>>
NoEncoder == [n |-> 0, k |-> 0, coding_mat |-> Null]
NoStream  == [n |-> 0, k |-> 0, inputs |-> {}, outputs |-> {}, mat |-> Null]
NoCall    == [op |-> "none", code |-> "none", given |-> {}, nulls |-> {}]

Elem(m, r, c) == At(At(m, r), c)
Matrix(rows, cols, elem) ==
  Tabulated([r \in 0 .. rows-1 |-> Tabulated(elem[r], cols)], rows)

-----------------------------------------------------------------------------
(* Matrices.                                                               *)

\* matrix::inverse, one column of the elimination: bring a row with an element
\* that is not 0 up to the diagonal, divide it by that element, and clear the
\* column in every other row.  Null if there is no such row.
Eliminate(m, k, p) ==
  LET usable   == { r \in p .. k-1 : Elem(m, r, p) # 0 }
      pivot    == CHOOSE r \in usable : \A q \in usable : r <= q
      swapped(r)  == At(m, IF r = p THEN pivot ELSE IF r = pivot THEN p ELSE r)
      scaled   == Tabulated([c \in 0 .. 2*k-1 |->
                               Div(At(swapped(p), c), At(swapped(p), p))], 2*k)
      cleared  == [r \in 0 .. k-1 |-> [c \in 0 .. 2*k-1 |->
                     IF r = p THEN At(scaled, c)
                     ELSE Sub(At(swapped(r), c), Mul(At(swapped(r), p), At(scaled, c)))]]
  IN  IF m = Null \/ usable = {} THEN Null ELSE Matrix(k, 2*k, cleared)

\* matrix::inverse: Gauss-Jordan elimination on m beside the identity.
InverseMatrix(m, k) ==
  LET extended == [r \in 0 .. k-1 |-> [c \in 0 .. 2*k-1 |->
                     IF c < k THEN Elem(m, r, c) ELSE IF c - k = r THEN 1 ELSE 0]]
      after[p \in 0 .. k] ==
        IF p = 0 THEN Matrix(k, 2*k, extended) ELSE Eliminate(after[p-1], k, p-1)
      right == [r \in 0 .. k-1 |-> [c \in 0 .. k-1 |-> Elem(after[k], r, c + k)]]
  IN  IF after[k] = Null THEN Null ELSE Matrix(k, k, right)

\* Mutant of Vandermonde: base and exponent are exchanged.
VandermondeSwapped(n, k) ==
  Matrix(n, k, [r \in 0 .. n-1 |-> [c \in 0 .. k-1 |-> Exp(c, r)]])

Vandermonde(n, k) ==
  Matrix(n, k, [r \in 0 .. n-1 |-> [c \in 0 .. k-1 |-> Exp(r, c)]])

\* operator*, of a matrix of n rows and one of k rows, both of k columns.
Product(a, b, n, k) ==
  Matrix(n, k, [r \in 0 .. n-1 |-> [c \in 0 .. k-1 |->
                  SumOf([j \in 0 .. k-1 |-> Mul(Elem(a, r, j), Elem(b, j, c))], k)]])

\* build_matrix: the Vandermonde matrix, normalised so that its first k rows are
\* the identity.  It asserts that they have an inverse.
BuildMatrix(n, k) == LET vm == Vandermonde(n, k) IN Product(vm, InverseMatrix(vm, k), n, k)

\* matrix_mul_adv, one output: row is a row of the matrix.
OutputOf(row, inputs, k) ==
  SumOf([c \in 0 .. k-1 |-> AdvMul(At(row, c), At(inputs, c))], k)

-----------------------------------------------------------------------------
(* Encoding and recovery.                                                  *)

\* The element number i of a set of numbers, and the number of an element.
Ith(S, i) == CHOOSE s \in S : Cardinality({ t \in S : t < s }) = i

Rank(S, s) == Cardinality({ t \in S : t < s })

\* Mutant of EncodeStream: the rows are counted among the outputs.
EncodeStreamByRank(enc, chosen) ==
  [n |-> enc.n, k |-> enc.k, inputs |-> 0 .. enc.k-1, outputs |-> chosen,
   mat |-> [j \in 1 .. Cardinality(chosen) |-> At(enc.coding_mat, enc.k + j - 1)]]

\* create_encode_stream: a copy of the rows of the parity shards in chosen.
EncodeStream(enc, chosen) ==
  [n |-> enc.n, k |-> enc.k, inputs |-> 0 .. enc.k-1, outputs |-> chosen,
   mat |-> [j \in 1 .. Cardinality(chosen) |->
              At(enc.coding_mat, enc.k + Ith(chosen, j - 1))]]

\* stream_encode: the parity shards of the stream are written, the others keep what
\* their buffers hold.
StreamEncode(stream, bufs) ==
  Tabulated([s \in 0 .. stream.n-1 |->
               IF s - stream.k \in stream.outputs
               THEN OutputOf(At(stream.mat, Rank(stream.outputs, s - stream.k)), bufs, stream.k)
               ELSE At(bufs, s)], stream.n)

\* encode_partial makes a stream of the encoder for one use.
EncodePartial(enc, bufs, chosen) == StreamEncode(EncodeStream(enc, chosen), bufs)

\* Mutant of Compacted: the rows stay where they are.
NotCompacted(m, outputs, k) == m

\* The rows of the outputs are moved to the front, in place and in ascending order.
Compacted(m, outputs, k) ==
  LET after[i \in 0 .. k] ==
        IF i = 0 THEN m
        ELSE LET rows == after[i-1]
             IN  IF i - 1 \in outputs
                 THEN [rows EXCEPT ![Rank(outputs, i-1) + 1] = At(rows, i-1)]
                 ELSE rows
  IN  after[k]

\* create_recover_stream: the first k shards given are the inputs, the data shards
\* not given the outputs.  The result of inverse is not looked at: without an
\* inverse the matrix stays what it was.  A null pointer for fewer than k shards.
RecoverStream(enc, given) ==
  LET inputs  == { s \in given : Rank(given, s) < enc.k }
      outputs == (0 .. enc.k-1) \ given
      row(i)  == At(enc.coding_mat, Ith(inputs, i))
      rows    == Tabulated([i \in 0 .. enc.k-1 |-> row(i)], enc.k)
      inverse == InverseMatrix(rows, enc.k)
  IN  IF Cardinality(given) < enc.k THEN NoStream
      ELSE [n |-> enc.n, k |-> enc.k, inputs |-> inputs, outputs |-> outputs,
            mat |-> Compacted(IF inverse = Null THEN rows ELSE inverse, outputs, enc.k)]

\* stream_recover_data: the first rows of decode give the outputs, in their order.
StreamRecoverData(stream, bufs) ==
  LET inputs == Tabulated([i \in 0 .. stream.k-1 |-> At(bufs, Ith(stream.inputs, i))], stream.k)
      row(s) == At(stream.mat, Rank(stream.outputs, s))
  IN  Tabulated([s \in 0 .. stream.n-1 |->
                   IF s \in stream.outputs THEN OutputOf(row(s), inputs, stream.k)
                   ELSE At(bufs, s)], stream.n)

\* Mutant of TooFew: the number given is compared with n - k, the number of
\* shards that may be lost, instead of k.
TooFewForParity(enc, given) == Cardinality(given) < enc.n - enc.k

\* The check of recover_data: not enough shards to recover the data.
TooFew(enc, given) == Cardinality(given) < enc.k

-----------------------------------------------------------------------------
(* The block API.                                                          *)

Init ==
  /\ encoder = NoEncoder
  /\ encode_stream = NoStream /\ recover_stream = NoStream
  /\ shards = <<>> /\ encoded = <<>> /\ present = {} /\ code = <<0, 0>>
  /\ result = NoCall

Returned(op, error_code, given, nulls) ==
  result' = [op |-> op, code |-> error_code, given |-> given, nulls |-> nulls]

\* erasure_create_encoder: null for parameters that make no code ...
Refused(n, k, size) == size = 0 \/ n = 0 \/ k = 0 \/ k >= n

\* (the coding matrices of the others) ...
coding_mats == [p \in { q \in Params : ~ Refused(q[1], q[2], q[3]) } |-> BuildMatrix(p[1], p[2])]

\* ... and otherwise an encoder with the matrix of the code.  Bound: a caller who
\* has shards asks for an encoder of their code.
CreateEncoder(p) ==
  /\ encoder = NoEncoder
  /\ encoded = <<>> \/ code = <<p[1], p[2]>>
  /\ encoder' = IF Refused(p[1], p[2], p[3]) THEN NoEncoder
                ELSE [n |-> p[1], k |-> p[2], coding_mat |-> coding_mats[p]]
  /\ Returned("create", IF encoder' = NoEncoder THEN "null" ELSE "encoder", {}, {})
  /\ UNCHANGED <<streams, buffers>>

\* Mutant of DestroyEncoder: the streams have the encoder's matrix, not a copy, and
\* its memory is used for something else.
DestroyEncoderShared ==
  LET freed(stream) == [stream EXCEPT !.mat = [r \in DOMAIN @ |-> [c \in 1 .. encoder.k |-> 0]]]
  IN  /\ code \in Streamed /\ encoder # NoEncoder
      /\ encoder' = NoEncoder
      /\ encode_stream' = freed(encode_stream) /\ recover_stream' = freed(recover_stream)
      /\ Returned("destroy", "none", {}, {})
      /\ UNCHANGED buffers

\* erasure_destroy_encoder.
DestroyEncoder ==
  /\ code \in Streamed /\ encoder # NoEncoder
  /\ encoder' = NoEncoder
  /\ Returned("destroy", "none", {}, {})
  /\ UNCHANGED <<streams, buffers>>

\* erasure_encode into parity buffers that hold anything.
Encode ==
  /\ \/ /\ encoder = NoEncoder
        /\ Returned("encode", "INVALID_ARGUMENTS", {}, {})
        /\ UNCHANGED buffers
     \/ /\ encoder # NoEncoder
        /\ \E d \in Data(encoder.k), g \in Garbage :
             shards' = EncodePartial(encoder,
                                     d \o [i \in 1 .. encoder.n - encoder.k |-> g],
                                     0 .. encoder.n - encoder.k - 1)
        /\ encoded' = shards' /\ code' = <<encoder.n, encoder.k>>
        /\ present' = 0 .. encoder.n - 1
        /\ Returned("encode", "SUCCESS", {}, {})
  /\ UNCHANGED <<encoder, streams>>

\* The environment loses some shards; their buffers hold anything.
Lose ==
  /\ encoded # <<>>
  /\ present = 0 .. code[1] - 1
  /\ \E S \in SUBSET present, g \in Garbage :
       /\ present' = present \ S
       /\ shards' = [i \in DOMAIN shards |-> IF i - 1 \in S THEN g ELSE shards[i]]
  /\ result' = NoCall
  /\ UNCHANGED <<encoder, streams, encoded, code>>

\* The shards written are of the code if the shards they are computed from are.
PresentAfter(inputs, written) ==
  IF inputs \subseteq present THEN present \cup written ELSE present \ written

ParityShards(chosen) == { s + code[2] : s \in chosen }
DataShards           == 0 .. code[2] - 1

\* erasure_encode_partial: the parity shards in chosen, with null pointers for the
\* parity buffers in nulls.  Any null pointer is refused, chosen or not.
EncodeSome(chosen, nulls) ==
  /\ encoded # <<>>
  /\ \/ /\ encoder = NoEncoder \/ nulls # {}
        /\ Returned("encode_partial", "INVALID_ARGUMENTS", chosen, nulls)
        /\ UNCHANGED buffers
     \/ /\ encoder # NoEncoder /\ nulls = {}
        /\ shards' = EncodePartial(encoder, shards, chosen)
        /\ present' = PresentAfter(DataShards, ParityShards(chosen))
        /\ Returned("encode_partial", "SUCCESS", chosen, nulls)
        /\ UNCHANGED <<encoded, code>>
  /\ UNCHANGED <<encoder, streams>>

\* recover_data, then, in recover, the parity that is missing.  A call that fails
\* touches no buffer.
RecoverCall(op) ==
  LET stream     == RecoverStream(encoder, present)
      error_code == IF encoder = NoEncoder THEN "INVALID_ARGUMENTS"
                    ELSE IF TooFew(encoder, present) THEN "RECOVER_FAILED"
                    ELSE IF stream = NoStream THEN "INTERNAL_ERROR" ELSE "SUCCESS"
      recovered  == StreamRecoverData(stream, shards)
      missing    == { s - encoder.k : s \in (encoder.k .. encoder.n-1) \ present }
      written    == 0 .. (IF op = "recover" THEN encoder.n ELSE encoder.k) - 1
  IN
  /\ encoded # <<>>
  /\ shards' = IF error_code # "SUCCESS" THEN shards
               ELSE IF op = "recover_data" THEN recovered
               ELSE EncodePartial(encoder, recovered, missing)
  /\ present' = IF error_code = "SUCCESS" THEN present \cup written ELSE present
  /\ Returned(op, error_code, present, {})
  /\ UNCHANGED <<encoder, streams, encoded, code>>

RecoverData == RecoverCall("recover_data")
Recover     == RecoverCall("recover")

-----------------------------------------------------------------------------
(* The stream API.                                                         *)

\* erasure_create_encode_stream: null without an encoder.
CreateEncodeStream(chosen) ==
  /\ code \in Streamed /\ encode_stream = NoStream
  /\ encode_stream' = IF encoder = NoEncoder THEN NoStream ELSE EncodeStream(encoder, chosen)
  /\ Returned("create_encode_stream", "none", {}, {})
  /\ UNCHANGED <<encoder, recover_stream, buffers>>

\* erasure_create_recover_stream, for the shards that are lost at the moment: null
\* without an encoder or with too few shards.
CreateRecoverStream ==
  /\ code \in Streamed /\ recover_stream = NoStream
  /\ recover_stream' = IF encoder = NoEncoder THEN NoStream ELSE RecoverStream(encoder, present)
  /\ Returned("create_recover_stream", "none", {}, {})
  /\ UNCHANGED <<encoder, encode_stream, buffers>>

\* erasure_stream_encode, on whatever the buffers hold by now.
EncodeByStream ==
  /\ code \in Streamed
  /\ \/ /\ encode_stream = NoStream
        /\ Returned("stream_encode", "INVALID_ARGUMENTS", {}, {})
        /\ UNCHANGED buffers
     \/ /\ encode_stream # NoStream
        /\ shards' = StreamEncode(encode_stream, shards)
        /\ present' = PresentAfter(DataShards, ParityShards(encode_stream.outputs))
        /\ Returned("stream_encode", "SUCCESS", encode_stream.outputs, {})
        /\ UNCHANGED <<encoded, code>>
  /\ UNCHANGED <<encoder, streams>>

\* erasure_stream_recover_data, likewise.
RecoverByStream ==
  /\ code \in Streamed
  /\ \/ /\ recover_stream = NoStream
        /\ Returned("stream_recover_data", "INVALID_ARGUMENTS", {}, {})
        /\ UNCHANGED buffers
     \/ /\ recover_stream # NoStream
        /\ shards' = StreamRecoverData(recover_stream, shards)
        /\ present' = PresentAfter(recover_stream.inputs, recover_stream.outputs)
        /\ Returned("stream_recover_data", "SUCCESS", recover_stream.outputs, {})
        /\ UNCHANGED <<encoded, code>>
  /\ UNCHANGED <<encoder, streams>>

\* erasure_destroy_encode_stream and erasure_destroy_recover_stream.  (They read
\* what the pointer points to, so no caller may pass null.)
DestroyStreams ==
  /\ \/ encode_stream # NoStream /\ encode_stream' = NoStream /\ UNCHANGED recover_stream
     \/ recover_stream # NoStream /\ recover_stream' = NoStream /\ UNCHANGED encode_stream
  /\ Returned("destroy_stream", "none", {}, {})
  /\ UNCHANGED <<encoder, buffers>>

ParityNumbers == 0 .. code[1] - code[2] - 1

Next == \/ \E p \in Params : CreateEncoder(p)
        \/ DestroyEncoder
        \/ Encode
        \/ \E chosen \in SUBSET ParityNumbers :
             \/ \E nulls \in { {} } \cup { {s} : s \in ParityNumbers } : EncodeSome(chosen, nulls)
             \/ CreateEncodeStream(chosen)
        \/ Lose
        \/ RecoverData
        \/ Recover
        \/ CreateRecoverStream
        \/ EncodeByStream
        \/ RecoverByStream
        \/ DestroyStreams

Spec == Init /\ [][Next]_vars

-----------------------------------------------------------------------------
(* Properties.                                                             *)

\* Whatever set of at least k shards is given, recovery succeeds and leaves what
\* was encoded: recover in every shard, recover_data in the data shards.  So a
\* block outlives any n - k lost nodes.
RecoveryIsExact ==
  (/\ result.op \in {"recover", "recover_data"} /\ encoder # NoEncoder
   /\ Cardinality(result.given) >= encoder.k)
    => /\ result.code = "SUCCESS"
       /\ \A i \in DOMAIN shards :
            (result.op = "recover" \/ i <= encoder.k) => shards[i] = encoded[i]

\* The call writes the shards in written, as they were encoded if the shards it
\* computes them from are there, and touches no other buffer.
WritesExactly(written, inputs) ==
  \A s \in 0 .. code[1] - 1 :
    IF s \notin written THEN At(shards', s) = At(shards, s)
    ELSE inputs \subseteq present => At(shards', s) = At(encoded, s)

\* Encoding part of the parity anew, at any time between losses and recoveries,
\* gives the parity that a full encode gave if the data is there, and touches no
\* buffer it was not asked to write.
PartialEncodeIsExact ==
  [][ result'.op = "encode_partial" =>
        WritesExactly(IF result'.code = "SUCCESS" THEN ParityShards(result'.given) ELSE {},
                      DataShards) ]_vars

\* A stream does for any data, at any later time, what its encoder would have done:
\* after other data was encoded, other shards were lost or recovered, and the
\* encoder was destroyed.
StreamsStayExact ==
  [][ result'.code = "SUCCESS" =>
        /\ result'.op = "stream_encode" =>
             WritesExactly(ParityShards(result'.given), DataShards)
        /\ result'.op = "stream_recover_data" =>
             WritesExactly(result'.given, recover_stream.inputs) ]_vars

\* With fewer than k shards recovery says so and does not touch a buffer: no
\* shard made up from too little is taken for data.
TooFewIsReported ==
  [][ (result'.op \in {"recover", "recover_data"} /\ Cardinality(result'.given) < encoder.k)
        => result'.code = "RECOVER_FAILED" /\ shards' = shards ]_vars

\* Any k rows of the coding matrix have an inverse: the result of inverse that
\* create_recover_stream does not look at is always true, as is the one that
\* build_matrix asserts.
AnyRowsInvert ==
  (encoder # NoEncoder /\ encoded = <<>>) =>
    \A S \in SUBSET (0 .. encoder.n-1) :
      Cardinality(S) = encoder.k =>
        LET rows == [i \in 1 .. encoder.k |-> At(encoder.coding_mat, Ith(S, i-1))]
        IN  InverseMatrix(rows, encoder.k) # Null

\* Before the first call.
Linked == encoder = NoEncoder /\ encoded = <<>> /\ result = NoCall

\* The committed tables are what log-table-generator writes.
TablesAreGenerated == Linked => FilledExp(exp_table) /\ FilledLog(log_table, exp_table)

\* mul, div and exp are those of the field GF(2)[X] modulo 0x11B.  The product
\* is given by the school's recursion on the bits of one operand: doubling it
\* doubles the product (the shift with reduction), adding one adds the other
\* operand; this determines the product of every pair of bytes.  div undoes it,
\* for every divisor but zero, and exp repeats it, for every exponent a byte can
\* hold.  So the committed tables and the three reductions of logarithms (of a
\* sum, a negative difference and a product) are right at each of their edges.
ArithmeticIsGF256 ==
  Linked => \A x \in Byte :
    /\ Mul(x, 0) = 0
    /\ \A y \in 0 .. 127 : /\ Mul(x, 2 * y) = ShiftLeft(Mul(x, y))
                           /\ Mul(x, 2 * y + 1) = Add(Mul(x, 2 * y), x)
    /\ \A y \in Byte \ {0} : Div(Mul(x, y), y) = x /\ Mul(Div(x, y), y) = x
    /\ Exp(x, 0) = 1
    /\ \A n \in 0 .. 254 : Exp(x, n + 1) = Mul(Exp(x, n), x)

\* The half-byte tables of the encoder multiply like mul: what is encoded by
\* tables is decoded with matrices computed by mul.
HalfByteProducts == Linked => \A x, y \in Byte : AdvMul(x, y) = Mul(x, y)

(* What the documentation says and the code does not do.                   *)

\* rs_encoder.h: the pointers of parity shards that are not to be encoded may be null.
UnusedParityMayBeNull ==
  (result.op = "encode_partial" /\ result.nulls \cap result.given = {})
    => result.code = "SUCCESS"
=============================================================================
