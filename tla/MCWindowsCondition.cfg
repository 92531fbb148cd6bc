SPECIFICATION Spec
CONSTANTS
    Consumers = {c1, c2}
    Posters = {p1}
    NoOne = NoOne
    MaxPosts = 3
    GoneLimit = 2
INVARIANTS
    TypeOK
    NoSleeperForgotten
PROPERTIES
    ImplementsCondition
    KilledConsumersReturn
