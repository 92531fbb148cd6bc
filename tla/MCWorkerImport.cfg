SPECIFICATION Spec
CONSTANTS
    MaxMessages = 1
    MaxPosts = 1
    Loads = {imp}
    SyncLoads = {imp}
    Imports = {imp}
    ImportsAnywhere = TRUE
    ThreadsMayFail = FALSE
    NoLoad = NoLoad
INVARIANTS
    InitializationIsActivity
CHECK_DEADLOCK FALSE
