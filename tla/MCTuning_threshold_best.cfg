SPECIFICATION Spec
CONSTANTS
  k1 = k1  k2 = k2  k3 = k3  lo = lo  hi = hi  None = None
  Knobs = {k1, k2}
  Values = {lo, hi}
  Evals = {1, 2}
  ThresholdSum = 3
  Mismatched <- OneMismatch
  YamlSkip = {}
  Iterations = 2
  Maxiterations = 2
  Cycles = 0
  FilterIters = 0
  FilterCount = 0
  SessionKinds = {"tune"}
  MaxSessions = 1
  Faults = {}
CHECK_DEADLOCK FALSE
INVARIANTS FinalIsBest
