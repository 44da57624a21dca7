SPECIFICATION BoundedSpec
CONSTANTS
    Accounts = {a1}
    Credentials = {right, wrong}
    Right = right
    NoCredential = none
    Users = {u1}
    UserKinds = {"quick", "deep"}
    Loops = {l1, l2}
    NoActor = nobody
    Savers = {s1}
    MaxSessionSkips = 1
    EditsMidCheck = FALSE
    LocksVault = TRUE
    DiskFails = TRUE
    MaxFaults = 1
    MaxEdits = 1
    MaxAsked = 2
SYMMETRY Symmetry
CHECK_DEADLOCK FALSE
INVARIANTS VerdictIsCurrent SettingIsHonoured
PROPERTIES NoSignInOnceLimited
