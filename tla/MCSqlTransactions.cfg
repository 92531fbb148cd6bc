SPECIFICATION Spec
CONSTANTS
    d1 = d1
    d2 = d2
    w1 = w1
    w2 = w2
    r1 = r1
    Databases = {d1, d2}
    Transactions = {w1, w2, r1}
    ReadOnly = {r1}
    DatabaseOf <- MCDatabaseOf
    None = None
    MaxStatements = 2
    MaxFailures = 1
INVARIANTS
    TypeOK
    TurnFindsFileFree
    OneStepAtATime
    NothingStranded
    EndLeavesNothingOpen
PROPERTIES
    Serial
    EveryTransactionEnds
    ContextReturns
CHECK_DEADLOCK FALSE
