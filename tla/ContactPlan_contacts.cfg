SPECIFICATION Spec
CONSTANTS
  Nodes = {1, 2}
  OwnNode = 1
  MaxTime = 4
  Rates = {1}
  Owlts = {}
  Refs = {r1, r2, r3}
  Losable <- MCLosable
SYMMETRY Symmetric
INVARIANTS
  TypeOK
  ContactsDoNotOverlap
  DbMatchesIndex
PROPERTIES
  ContactEditsAreStamped
  ContactsImplementBook
