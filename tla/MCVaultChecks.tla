---------------------------- MODULE MCVaultChecks ----------------------------
(* Bounds for the instances of VaultChecks TLC checks.                     *)
EXTENDS VaultChecks, TLC

CONSTANTS MaxFaults,   \* failed writes and restarts
          MaxEdits,    \* edits of entries
          MaxAsked     \* checks started, settings saved, vault locks

VARIABLES faults, edits, asked

Symmetry == Permutations(Users) \cup Permutations(Loops) \cup Permutations(Savers)

counters == <<faults, edits, asked>>

BoundedInit == Init /\ faults = 0 /\ edits = 0 /\ asked = 0

BoundedNext ==
    \/ (Work \/ Clock \/ Unlock) /\ UNCHANGED counters
    \/ faults < MaxFaults /\ Fault /\ faults' = faults + 1 /\ UNCHANGED <<edits, asked>>
    \/ edits < MaxEdits /\ Edit /\ edits' = edits + 1 /\ UNCHANGED <<faults, asked>>
    \/ asked < MaxAsked /\ Ask /\ asked' = asked + 1 /\ UNCHANGED <<faults, edits>>

BoundedSpec == BoundedInit /\ [][BoundedNext]_<<vars, counters>>

(* Faults, edits and requests come to an end; the scheduler goes on.       *)
FairBoundedSpec == BoundedSpec /\ Fairness
=============================================================================
