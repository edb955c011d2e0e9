SPECIFICATION Spec
CONSTANTS
  a1 = a1
  Column = {"k", "c", "e"}
  Title = {"t", "u"}
  Action = {a1}
  Web = {w1, w2}
  Start <- MCStart
  Upload <- MCUpload
  MaxId = 3
  MaxRequests = 5
  MaxFiles = 1
  MaxCrashes = 1
  None = None
PROPERTIES ExportsImport
CHECK_DEADLOCK FALSE
