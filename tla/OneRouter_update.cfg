SPECIFICATION Spec
CONSTANTS
  Hosts = {1, 2, 3}
  OwnHost = 1
  Messages = {1, 2, 11}
  Id <- MCId
  Size <- MCSize
  MaxTime = 2
  Arrivals = {11}
  Nobody = 0
INVARIANTS
  TypeOK
  InOnePlace
  QueuedAreBuffered
  BytesMatchQueue
  NothingForgotten
  NoExpiredRoute
