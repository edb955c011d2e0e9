CONSTANTS
    r1 = r1  r2 = r2  a1 = a1  a2 = a2  c1 = c1  c2 = c2
    Row = {r1, r2}
    Action = {a1, a2}
    Cond = {c1, c2}
    Filter = filter
    MaxConds = 3
    MaxReads = 1
    Given = {1}
    FilterFormula <- MCFilterFormula
    CondFormula <- MCCondFormula
    Null = null
    None = none
SYMMETRY Symmetry
SPECIFICATION Spec
INVARIANTS TypeOK FilterCountRight ConditionCountMeans TextsMatchCounts
PROPERTY RecountComplete
