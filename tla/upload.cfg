CONSTANTS
    x = x
    Session = {s1}
    Name = {"k", "a", "b"}
    Value = {1, 2, 3, x}
    Strings = {x}
    NaN = NaN
    NoRow = NoRow
    None = None
    Categories <- MCCategories
    Outputs = {1, x}
    Files <- MCFiles
    Start <- MCStart
    Renamings <- MCRenamings
    MaxDropped = 1
    MaxUploads = 2
SPECIFICATION Spec
INVARIANTS TypeOK KeysUnique
PROPERTIES MergeIsJoin KeysSurviveMerge
CHECK_DEADLOCK FALSE
