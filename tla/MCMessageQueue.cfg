SPECIFICATION Spec
CONSTANTS
    m1 = m1
    m2 = m2
    m3 = m3
    Messages = {m1, m2, m3}
    Consumers = {c1}
    Predicates <- MCPredicates
    Doomed <- MCDoomed
INVARIANTS
    TypeOK
    NoLostWakeup
    ExactlyOnce
PROPERTIES
    ImplementsMailbox
