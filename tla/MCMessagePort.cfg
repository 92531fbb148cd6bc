SPECIFICATION Spec
CONSTANTS
    Contexts = {document, worker}
    Mortal = {worker}
    InTransit = InTransit
    Orphan = Orphan
    Gone = Gone
    MaxMessages = 2
    MaxTransfers = 1
INVARIANTS
    TypeOK
    NotifiesLivePort
    NoMessageStranded
    CloseIsMutual
PROPERTIES
    ImplementsChannel
    MessagesArrive
CHECK_DEADLOCK FALSE
