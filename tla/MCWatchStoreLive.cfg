SPECIFICATION FairSpec
CONSTANTS
  Ids = {"w0", "w1", "a", "gone"}
  Procs = {p1, p2}
  NoProc = NoProc
  FailingProcs = {p1}
  MaxQuarantine = 1
  MaxPerWatch = 1
  MaxTotal = 1
  RouteKeys = {}
  KeyOrder <- MCKeyOrder
  MaxPerRoute = 1
  MaxRoutes = 1
  RoomTargets = {"lon"}
  Targets <- MCTargets
  Codes <- MCCodes
  Spellings <- MCSpellings
  Upper <- MCUpper
  Requests <- MCOneEach
  Loading <- MCLoading
  InitDbs <- MCUnconverted
  InitLegacies <- MCOldDirectory
PROPERTY EveryCallReturns
