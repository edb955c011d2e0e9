SPECIFICATION Spec
CONSTANTS
  Session <- TwoSessions
  Workflow <- OneWorkflow
  Worker = {p1, p2}
  Age = 1
  None = None
INVARIANTS Exclusive
