------------------------------ MODULE MCAppLock ------------------------------
(* Bounds for the instance of AppLock TLC checks.                          *)
EXTENDS AppLock, TLC

CONSTANTS
    MaxFaults,  \* failures and deaths in one run
    MaxLocks    \* locks in one run; unlocks are not counted

VARIABLES faults, locks

LockSymmetry == Permutations(Sessions)

BoundedLockNext ==
    \/ (Operations \/ Calls) /\ UNCHANGED <<faults, locks>>
    \/ faults < MaxFaults /\ LockFaults /\ faults' = faults + 1 /\ UNCHANGED locks
    \/ /\ Gates
       /\ locks' = IF gate'.at = "decide" THEN locks + 1 ELSE locks
       /\ locks' <= MaxLocks
       /\ UNCHANGED faults

BoundedLockInit == LockInit /\ faults = 0 /\ locks = 0

BoundedLockSpec == BoundedLockInit /\ [][BoundedLockNext]_<<lockVars, faults, locks>>
=============================================================================
