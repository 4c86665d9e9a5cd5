SPECIFICATION Spec
CONSTANTS
  k1 = k1  k2 = k2  k3 = k3  lo = lo  hi = hi  None = None
  Knobs = {k1, k2}
  Values = {lo, hi}
  Evals = {1, 2}
  ThresholdSum = 3
  Mismatched = {}
  YamlSkip = {}
  Iterations = 3
  Maxiterations = 2
  Cycles = 2
  FilterIters = 1
  FilterCount = 1
  SessionKinds = {"tune", "restore"}
  MaxSessions = 2
  Faults = {}
INVARIANTS RestoreFileIsInitial
