SPECIFICATION Spec
CONSTANTS
  OwnNode = 1
  Terminus = 4
  Contacts <- MCContacts
  Ranges <- MCRanges
  StartTimes <- MCStart
  CapacityFloor <- MCFloor
  MAX_TIME = 20
  UVAST_MAX = 100
  MaxSuppressed = 1
  MaxHops = 3
INVARIANTS
  TypeOK
  NoEarlierItinerary
  RouteIsFeasible
CHECK_DEADLOCK FALSE
