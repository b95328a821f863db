SPECIFICATION FairListSpec
CONSTANTS
  OwnNode = 1
  Terminus = 4
  Contacts <- MCContacts
  Ranges <- MCRanges
  StartTimes <- MCStart
  Deadlines <- MCDeadlines
  CapacityFloor <- MCFloor
  MAX_TIME = 20
  UVAST_MAX = 100
  MaxSuppressed = 0
  MaxHops = 3
INVARIANTS
  ListTypeOK
  FirstRouteIsBest
  RoutesDiffer
  RecomputeMissesNothing
  NoEndedRoute
PROPERTIES
  CallsReturn
