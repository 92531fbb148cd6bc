SPECIFICATION Spec
CONSTANTS
    Contexts = {document, worker}
    Mortal = {worker}
    InTransit = InTransit
    Orphan = Orphan
    Gone = Gone
    MaxMessages = 1
    MaxTransfers = 1
INVARIANTS
    MessagesSurviveClose
CHECK_DEADLOCK FALSE
