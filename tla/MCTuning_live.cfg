SPECIFICATION FairSpec
CONSTANTS
  k1 = k1  k2 = k2  k3 = k3  lo = lo  hi = hi  None = None
  Knobs = {k1, k2, k3}
  Values = {lo, hi}
  Evals = {1, 2}
  ThresholdSum = 3
  Mismatched = {}
  YamlSkip = {}
  Iterations = 1
  Maxiterations = 2
  Cycles = 2
  FilterIters = 1
  FilterCount = 2
  SessionKinds = {"tune", "restore"}
  MaxSessions = 1
  Faults = {"abort", "benchmark", "project", "script", "objective"}
INVARIANTS FinalIsBest NoPanic
PROPERTIES SessionEnds
