SPECIFICATION Spec
CONSTANTS
    Contexts = {document, worker}
    Mortal = {worker}
    InTransit = InTransit
    Orphan = Orphan
    Gone = Gone
    MaxMessages = 0
    MaxTransfers = 2
INVARIANTS
    RemotePortIsLive
CHECK_DEADLOCK FALSE
