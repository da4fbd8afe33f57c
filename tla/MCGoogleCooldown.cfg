SPECIFICATION FairSpec
CONSTANTS
  Clients = {"a", "b"}
  Calls = {"a1", "a2", "b1"}
  ClientOf <- MCClientOf
  Attempts = 2
  Waits = {1, 2}
  Cap = 2
  InitFiles = {0, 5}
  MaxClock = 3
  NoCall = NoCall
INVARIANTS QuietKept Shared QuietEnds
PROPERTY EveryCallEnds
CHECK_DEADLOCK FALSE
