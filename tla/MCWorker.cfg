SPECIFICATION Spec
CONSTANTS
    MaxMessages = 2
    MaxPosts = 1
    Loads = {imp, xhr}
    SyncLoads = {imp}
    Imports = {imp}
    ImportsAnywhere = FALSE
    ThreadsMayFail = TRUE
    NoLoad = NoLoad
INVARIANTS
    TypeOK
    ConfirmationsAreOwed
    IdleWhenUnreferenced
    ProxyOutlivesUse
PROPERTIES
    ImplementsSession
    PostsAreDelivered
    ThreadEndsUnlessLoading
    ProxyFreed
CHECK_DEADLOCK FALSE
