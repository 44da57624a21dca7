SPECIFICATION BoundedStoreSpec
CONSTANTS
    Accounts = {home, friend}
    Cap = 3
    MaxSnapshots = 8
    MaxFaults = 3
INVARIANTS NamedIsWhole
PROPERTIES RecordIsAnswered
CHECK_DEADLOCK FALSE
