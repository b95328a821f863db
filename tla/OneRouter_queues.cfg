SPECIFICATION FairSpec
CONSTANTS
  Hosts = {1, 2, 3}
  OwnHost = 1
  Messages = {1, 2, 3}
  Id <- MCId
  Size <- MCSize
  MaxTime = 1
  Arrivals = {}
  Nobody = 0
PROPERTIES
  QueuesAreServed
