SPECIFICATION Spec
CONSTANTS
  k1 = k1  k2 = k2  k3 = k3  lo = lo  hi = hi  None = None
  Knobs = {k1, k2}
  Values = {lo, hi}
  Evals = {1, 2}
  ThresholdSum = 3
  Mismatched = {}
  YamlSkip = {}
  Iterations = 4
  Maxiterations = 3
  Cycles = 0
  FilterIters = 0
  FilterCount = 0
  SessionKinds = {"tune", "restore"}
  MaxSessions = 2
  Faults = {"abort", "benchmark", "project", "script", "objective"}
SYMMETRY Symmetric
INVARIANTS TypeOK MeasuredAsAsked BaselineUntouched OneTurn PipeInStep FinalIsBest RestoreFileIsInitial NoOrphanSearch IterationsBounded
PROPERTIES FinishedDataComplete ImplementsLoop
