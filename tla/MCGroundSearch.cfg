SPECIFICATION FairSpec
CONSTANTS
  Callers = {"a1", "a2", "b1"}
  Route <- MCRoute
  Seasons = {"ams", "ber", "cdg"}
  Season <- MCSeason
  Bypass = {"b1"}
  Filtered = {}
  Providers = {"flixbus"}
  Runs = {"r1", "r2"}
  Threshold = 1
  Cooldown = 1
  CacheTTL = 0
  NegTTL = 1
  NegCapacity = 2
  MaxClock = 1
  None = None
INVARIANT NoInheritance
PROPERTIES AnswersFit NegativeKept StayersAnswered
CHECK_DEADLOCK FALSE
