SPECIFICATION Spec
CONSTANTS
  Nodes = {1, 2}
  Termini = {3}
  Contacts <- TwoContacts
  Refs = {r1, r2, r3}
  MaxTime = 4
  MaxHops = 2
  NoList = NoList
SYMMETRY Symmetric
INVARIANTS
  TypeOK
  ListsAreNoted
  ListsFollowPlans
  HopsAreInPlan
