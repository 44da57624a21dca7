\* Copies, applies and undos between two accounts.
SPECIFICATION BoundedConfigSpec
CONSTANTS
    Accounts = {"a", "b"}
    LocalSynced = FALSE
    Synced = {"cloud"}
    Selections = {{"local", "remote"}, {"globalcfg", "remote"}}
    Bare = {"local"}
    MaxAuto = 1
    MaxTaken = 3
    MaxAround = 1
    MaxFailures = 1
INVARIANTS
    RolledBackIsAsFound
    
    OfferedUndoExists
CHECK_DEADLOCK FALSE
