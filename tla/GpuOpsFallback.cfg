SPECIFICATION GpuSpec
CONSTANTS
  Weights = {w1, w2}
  Inputs = {x1, x2}
  Ctx = Ctx
  None = None
  MaxCalls = 3
  MaxLoads = 4
INVARIANT FailureIsReported
CHECK_DEADLOCK FALSE
