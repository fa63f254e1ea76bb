CONSTANTS
  VectorBytes <- MCVectorBytes
  Sizes = {1, 2, 3, 4, 5, 6, 7, 8, 9}
  Matrices <- MCMatrices
  InputByte <- MCInputByte
SPECIFICATION Spec
CHECK_DEADLOCK FALSE
INVARIANTS
  ProceduresAgree
  NothingWrittenBehind
PROPERTY
  ProcedureEnds
