---------------------------- MODULE MCMatrixMul ----------------------------
(* Bounds: registers of 2 and 4 bytes, shards of 1 to 9 bytes, so that the *)
(* rest has every length beside none, one and two whole registers; one to  *)
(* three outputs, one to three inputs.                                     *)
EXTENDS MatrixMul

MCVectorBytes == [p \in {"sse", "avx2"} |-> IF p = "sse" THEN 2 ELSE 4]

MCMatrices == { <<<<7>>>>, <<<<3, 246>>, <<1, 142>>>>, <<<<0, 5, 200>>>>,
                <<<<9>>, <<83>>, <<255>>>> }

MCInputByte(col, x) == (91 * (col + 1) + 37 * x) % 256
=============================================================================
