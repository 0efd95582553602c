CONSTANTS
  MaxNodes = 4
  Cptrs = {1}
SPECIFICATION Spec
INVARIANTS
  ListsMatchParents
  RoomIsFound
  DescendantAgrees
PROPERTY
  RefinesDerivation
