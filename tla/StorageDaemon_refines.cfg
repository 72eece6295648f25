SPECIFICATION FairSpec
CONSTANTS
  Pids = {p1}
  NoPid = NoPid
  MAX_WORKERS = 1
  SpawnPeriod = 1
  SpawnBelow = 1
  Foreground = FALSE
  Clients = {c1}
  NoClient = NoClient
  IPC_MAX_CLIENTS = 1
  BACKLOG = 0
PROPERTIES ImplementsWorkers ImplementsIpcServer TermReleasesEverybody
CHECK_DEADLOCK FALSE
