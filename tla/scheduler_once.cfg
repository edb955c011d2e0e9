SPECIFICATION FairSpec
CONSTANTS
  Item = {i1}
  Action = {a1}
  Run = {r1, r2}
  Web = {w1}
  Step = 3
  Ahead = 3
  MaxSaves = 2
  None = None
INVARIANTS TypeOK AtMostOnce DoneWasTried
PROPERTIES TimelyIsExecuted
