SPECIFICATION BoundedSpec
CONSTANTS
    Parts = {local, remote}
    Accounts = {home, friend}
    Shared = friend
    NoPart = noPart
    NoAccount = nobody
    AnyAnswer = FALSE
    HomeMayEmpty = FALSE
    MaxFaults = 2
    MaxEvents = 2
SYMMETRY Symmetry
INVARIANTS NothingStranded
PROPERTIES LeaveAsksFirst WritesOnlyWhenClosed
