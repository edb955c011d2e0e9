SPECIFICATION Spec
CONSTANTS
  Name = {n1, n2, n3, n4}
  Cond = {}
  View = {}
  None = None
SYMMETRY Symmetry
INVARIANTS TypeOK PositionsConsecutive TableMatchesColumns HasKey
PROPERTIES ImplementsOrder
