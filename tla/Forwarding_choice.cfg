SPECIFICATION Spec
CONSTANTS
  OwnNode = 1
  Contacts <- MCContacts
  Light <- MCLight
  NoRange = NoRange
  RouteLists <- MCRouteLists
  Bundles = {1, 2, 3, 5}
  Size <- MCSize
  Header = 1
  OneGig = 4
  Expiry <- MCExpiry
  MaxTime = 9
INVARIANTS
  BundlesMakeTheirContacts
PROPERTIES
  BestRouteIsChosen
  NoneIfNoRoute
CHECK_DEADLOCK FALSE
