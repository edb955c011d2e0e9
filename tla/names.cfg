CONSTANTS
    d1 = d1  d2 = d2  k1 = k1  k2 = k2  t1 = t1  t2 = t2
    Name = {1, 2, 3}
    Special = {3}
    Copies <- MCCopies
    ColId = {d1, d2}
    Action = {a1}
    CondId = {k1, k2}
    Tab = {t1, t2}
    MaxMentions = 1
    MaxAttrs = 2  MaxGone = 1
    None = none
SYMMETRY Symmetry
SPECIFICATION Spec
INVARIANTS TypeOK MentionsDefined
PROPERTIES  RenameKeepsMeaning
