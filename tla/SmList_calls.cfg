SPECIFICATION Spec
CONSTANTS
  Lists = {plain, ordered}
  Sorted = {ordered}
  Elts = {e1, e2, e3, e4, e5}
  Data = {1, 2}
  Users = {node}
  Null = Null
SYMMETRY Symmetric
INVARIANTS
  ListsAreSound
PROPERTIES
  ListsImplementStore
