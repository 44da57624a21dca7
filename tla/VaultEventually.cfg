SPECIFICATION FairBoundedSpec
CONSTANTS
    Accounts = {a1}
    Credentials = {right, wrong}
    Right = right
    NoCredential = none
    Users = {u1}
    UserKinds = {"session", "deep"}
    Loops = {l1, l2}
    NoActor = nobody
    Savers = {s1}
    MaxSessionSkips = 3
    EditsMidCheck = FALSE
    LocksVault = FALSE
    DiskFails = FALSE
    MaxFaults = 0
    MaxEdits = 1
    MaxAsked = 1
CHECK_DEADLOCK FALSE
PROPERTIES WrongPasswordFound
