SPECIFICATION Spec
CONSTANTS
  Pollers = {p1, p2}
  Ids = {"w0"}
  MaxPerWatch = 2
  MaxTotal = 2
  RouteKeys = {}
  KeyOrder <- MCKeyOrder
  MaxPerRoute = 1
  MaxRoutes = 1
  MaxQuotes = 5
  Prices = {80, 100}
  RoomTargets = {"loft"}
  Targets <- MCTargets
  Codes <- MCCodes
  Spellings <- MCSpellings
  Upper <- MCUpper
  Wishes <- MCWishes
  Edits <- MCEdits
  InitGens <- MCWatched

SYMMETRY MCAlike
INVARIANTS SeriesComparable AlertMemoryCoherent
PROPERTIES SwitchJustified ThresholdsRespected DropsComparable
  NothingUndone
CHECK_DEADLOCK FALSE
