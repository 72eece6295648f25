SPECIFICATION FairSpec
CONSTANTS
  Clients = {c1, c2}
  NoClient = NoClient
  IPC_MAX_CLIENTS = 1
  BACKLOG = 1
INVARIANTS NumClientsExact HeldOnce ReadNeverBlocks
PROPERTIES DroppedOnlyWhenFull RequestSettled StopCompletes ImplementsService
CHECK_DEADLOCK FALSE
