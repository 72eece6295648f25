SPECIFICATION Spec
CONSTANTS
  d1 = d1
  d2 = d2
  d3 = d3
  Procs = {d1, d2, d3}
  Nobody = Nobody
  PidPath <- MCPidPath
  Layouts <- MCLayouts
INVARIANTS FreshStartWorks OrderlyStopLeavesNothing
PROPERTY OnlyLeftoverBlocks
