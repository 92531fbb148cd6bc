SPECIFICATION Spec
CONSTANTS
    Keys = {a, b}
    Values = {v1, v2}
    Null = Null
    Absent = Absent
    MaxiumItemsToSync = 1
    MaxChanges = 4
    MaxFailures = 1
INVARIANTS
    TypeOK
    SuddenTerminationBalanced
    TerminationLosesNothing
PROPERTIES
    ImplementsWriteBehind
    ImportedBeforeUse
    EveryChangeIsSaved
CHECK_DEADLOCK FALSE
