SPECIFICATION Spec
CONSTANTS
  Params <- MCParams
  Streamed <- MCStreamed
  Data <- MCData
  Garbage = {170}
INVARIANTS
  RecoveryIsExact
  AnyRowsInvert
  TablesAreGenerated
  ArithmeticIsGF256
  
PROPERTIES
  TooFewIsReported
  PartialEncodeIsExact
  StreamsStayExact
