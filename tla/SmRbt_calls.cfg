SPECIFICATION Spec
CONSTANTS
  Nodes = {n1, n2, n3, n4, n5, n6, n7, n8, n9}
  Data <- InUse
  Null = Null
  Dummy = Dummy
VIEW Anonymous
INVARIANTS
  TreeIsSound
  AnswersAreRight
  CallsAreShort
PROPERTIES
  TreeImplementsSet
