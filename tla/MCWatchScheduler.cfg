SPECIFICATION FairSpec
CONSTANTS
  Servers = {s1, s2}
  Daemons = {d1}
  Hands = {h1, h2}
  NoProc = NoProc
  Faulty = {s1, s2}
INVARIANTS OneScheduler StoppedIsQuiet
PROPERTIES StopReturns FailOver
