SPECIFICATION Spec
CONSTANTS
  Ids = {"w0", "w1", "a", "b", "c", "w9", "gone"}
  Procs = {p1, p2}
  NoProc = NoProc
  FailingProcs = {p1}
  MaxQuarantine = 2
  MaxPerWatch = 2
  MaxTotal = 3
  RouteKeys = {}
  KeyOrder <- MCKeyOrder
  MaxPerRoute = 1
  MaxRoutes = 1
  RoomTargets = {}
  Targets <- MCTargets
  Codes <- MCCodes
  Spellings <- MCSpellings
  Upper <- MCUpper
  Requests <- MCRequests
  Loading <- MCLoading
  InitDbs <- MCAnyDb
  InitLegacies <- MCLegacies
INVARIANTS TypeOK FreshUntilSaved ConversionSafe GenerationSound
PROPERTIES NoNewDuplicates DatabaseRespected Linearizable
