SPECIFICATION FairSpec
CONSTANTS
  Pids = {p1, p2}
  NoPid = NoPid
  MAX_WORKERS = 2
  SpawnPeriod = 1
  SpawnBelow = 2
  Foreground = FALSE
INVARIANTS RunningIsTracked NoWorkerSurvives
PROPERTIES IdleOnlyAfterExit ZombiesReaped StaleSlotCleared TermEndsDaemon ImplementsPool
CHECK_DEADLOCK FALSE
