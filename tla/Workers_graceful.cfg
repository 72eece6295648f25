SPECIFICATION Spec
CONSTANTS
  Pids = {p1, p2}
  NoPid = NoPid
  MAX_WORKERS = 2
  SpawnPeriod = 2
  SpawnBelow = 1
  Foreground = FALSE
SYMMETRY PidSymmetry
INVARIANT GracefulShutdown
CHECK_DEADLOCK FALSE
