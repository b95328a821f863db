SPECIFICATION Spec
CONSTANTS
  Nodes = {1, 2}
  OwnNode = 1
  MaxTime = 3
  Rates = {}
  Owlts = {1, 2}
  Refs = {r1, r2, r3}
  Losable = {}
SYMMETRY Symmetric
INVARIANTS
  RangeKeysUnique
  ImputedMirrorsCanonical
  DbMatchesIndex
  EventsMatchPlan
PROPERTIES
  OverrideSurvivesRemoval
