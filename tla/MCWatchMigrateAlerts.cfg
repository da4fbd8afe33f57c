SPECIFICATION Spec
CONSTANTS
  Ids = {"a", "b", "c", "r"}
  MaxPerWatch = 2
  MaxTotal = 3
  RouteKeys = {"quiet", "busy", "other", "late"}
  MaxPerRoute = 3
  MaxRoutes = 3
  Sightings <- MCSightings
  MaxPolls = 4
  Prices = {60, 80, 100}
  RoomTargets = {}
  Targets <- MCTargets
  Codes <- MCCodes
  Spellings <- MCSpellings
  Upper <- MCUpper
  InitStores <- MCOldStores
  KeyOrder <- MCKeyOrder

PROPERTY NoRepeatedAlert
