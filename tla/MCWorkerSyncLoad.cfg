SPECIFICATION Spec
CONSTANTS
    MaxMessages = 1
    MaxPosts = 1
    Loads = {sync}
    SyncLoads = {sync}
    Imports = {}
    ImportsAnywhere = FALSE
    ThreadsMayFail = FALSE
    NoLoad = NoLoad
PROPERTIES
    ThreadEnds
CHECK_DEADLOCK FALSE
