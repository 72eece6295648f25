SPECIFICATION Spec
CONSTANTS
  Procs = {p1, p2, p3}
  Areas = {"devices", "snapshots", "memory", "tuning", "security"}
  MaxCalls <- MCMaxCalls
  Disks = {d1, d2}
  Volumes = {v1, v2}
  MaxTime = 2
  Workloads = {"general", "database"}
  Schedulers = {"none", "mq-deadline"}
  HasQueueDepth = FALSE
  MaxMissed = 2
  NoWorkload = NoWorkload
SYMMETRY CallSymmetry
INVARIANTS NothingLeftBehind CopiesOwnSnapshot ProfileApplied AuditKept
CHECK_DEADLOCK FALSE
