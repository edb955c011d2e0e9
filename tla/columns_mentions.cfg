SPECIFICATION Spec
CONSTANTS
  Name = {n1, n2}
  Cond = {f1, f2}
  View = {v1, v2}
  None = None
SYMMETRY Symmetry
INVARIANTS ViewsShowColumns
PROPERTIES NoMentionLeft
