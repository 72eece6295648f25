SPECIFICATION FairSpec
CONSTANTS
  Threads = {t1, t2}
  NoThread = NoThread
  Dangling = Dangling
  Period <- MCPeriod
  MaxRows = 2
INVARIANTS ThreadsAccounted RowsWritten HistoryFits
PROPERTIES KeepsSampling StopReturns
