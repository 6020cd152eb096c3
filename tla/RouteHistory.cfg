SPECIFICATION Spec
CONSTANTS
    a = a
    b = b
    c = c
    d = d
    Id <- MCId
    Content <- MCContent
    Sizes <- MCSizes
    Limits <- MCLimits
    MaxChanges = 3
    MaxHandlers = 2
SYMMETRY MCSymmetry
INVARIANTS TypeOK UniqueIds UndoLast HistoryTells ListedSurvives
CHECK_DEADLOCK FALSE
