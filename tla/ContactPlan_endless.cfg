SPECIFICATION FairSpec
CONSTANTS
  Nodes = {1, 2}
  OwnNode = 1
  MaxTime = 2
  Rates = {}
  Owlts = {1}
  Refs = {r1, r2, r3}
  Losable = {}
PROPERTIES
  WildcardRemovalEnds
