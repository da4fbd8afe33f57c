SPECIFICATION Spec
CONSTANTS
  Callers = {"a1", "a2", "b1"}
  Route <- MCRoute
  Seasons = {"ams"}
  Season <- MCSeason
  Bypass = {}
  Filtered = {}
  Providers = {"flixbus", "db"}
  Runs = {"r1", "r2", "r3"}
  Threshold = 1
  Cooldown = 1
  CacheTTL = 0
  NegTTL = 1
  NegCapacity = 1
  MaxClock = 1
  None = None
PROPERTY NegativeOnlyClean
CHECK_DEADLOCK FALSE
