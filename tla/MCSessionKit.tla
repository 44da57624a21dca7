---------------------------- MODULE MCSessionKit ----------------------------
(* Model values and bounds for the instances of SessionKit TLC checks.     *)
EXTENDS SessionKitPromise, Naturals, TLC

CONSTANTS MaxFaults,   \* failing steps and crashes in a bounded run
          MaxEvents    \* things the user, Steam and the game do in one

VARIABLES faults, events

Symmetry == Permutations(Parts) \cup Permutations(Accounts \ {Shared})

(* SessionKit with at most so many faults and events.                      *)
BoundedInit == Init /\ faults = 0 /\ events = 0

BoundedNext ==
    \/ (Begins \/ Resolve \/ EngineStep) /\ UNCHANGED <<faults, events>>
    \/ faults < MaxFaults /\ Fault /\ faults' = faults + 1 /\ UNCHANGED events
    \/ events < MaxEvents /\ World /\ events' = events + 1 /\ UNCHANGED faults

BoundedSpec == BoundedInit /\ [][BoundedNext]_<<vars, faults, events>>

(* The liveness of a bounded run: faults end.                              *)
FairBoundedSpec == BoundedSpec /\ Fairness

=============================================================================
