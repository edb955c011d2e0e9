SPECIFICATION FairSpec
CONSTANTS
  Session <- ThreeSessions
  Workflow <- TwoWorkflows
  Worker = {p1}
  Age = 2
  None = None
INVARIANTS TypeOK RefusalNamesHolder SelectionHoldsLock
PROPERTIES NoStealing Recoverable
