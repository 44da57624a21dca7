SPECIFICATION BoundedLockSpec
CONSTANTS
    Sessions = {s1, s2}
    MaxKeys = 2
    MaxFaults = 1
    MaxLocks = 1
SYMMETRY LockSymmetry
INVARIANTS SessionsSurvive SealedUnderAKey SwitchingKeepsItsKey LockForgets
CHECK_DEADLOCK FALSE
