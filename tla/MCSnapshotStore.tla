---------------------------- MODULE MCSnapshotStore ----------------------------
(* Bounds for the instance of SnapshotStore TLC checks.                    *)
EXTENDS SnapshotStore

CONSTANT MaxFaults   \* failures, deaths and spoilt files in one run

VARIABLE faults

BoundedStoreInit == StoreInit /\ faults = 0

BoundedStoreNext ==
    \/ (\E home, to \in Accounts : StartEnter(home, to)) /\ UNCHANGED faults
    \/ (EnterStep \/ EndStep \/ Answers) /\ UNCHANGED faults
    \/ faults < MaxFaults /\ StoreFault /\ faults' = faults + 1

BoundedStoreSpec ==
    BoundedStoreInit /\ [][BoundedStoreNext]_<<storeVars, faults>> /\ StoreFairness
=============================================================================
