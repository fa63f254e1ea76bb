SPECIFICATION Spec
CONSTANTS
  Params <- MCParams
  Streamed <- MCStreamed
  Data <- MCData
  Garbage = {170}
INVARIANT UnusedParityMayBeNull
