SPECIFICATION Spec
CONSTANTS
    Keys = {a, b}
    Values = {v1, v2}
    Null = Null
    Absent = Absent
    MaxiumItemsToSync = 1
    MaxChanges = 3
    MaxFailures = 0
INVARIANTS
    LastChangeIsSaved
CHECK_DEADLOCK FALSE
