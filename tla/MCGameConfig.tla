---------------------------- MODULE MCGameConfig ----------------------------
(***************************************************************************)
(* Two accounts, a revert point cap small enough to be reached, a bounded  *)
(* number of times Steam or the game does something and of failures.       *)
(***************************************************************************)
EXTENDS GameConfig

CONSTANTS MaxAround, MaxFailures, Bare

\* One account has everything; one of the others lacks what Bare says.
Holdings ==
    LET full == CHOOSE a \in Accounts : TRUE
    IN  Places \ {Place(a, p) : a \in Accounts \ {full}, p \in Bare}

VARIABLES around, failures

Faulty == CaptureFails \/ WriteFails \/ RollBackFails \/ ConfigCrash

Happens ==
    \/ client = NoAccount /\ client' # NoAccount
    \/ ~playing /\ playing'
    \/ ClientWrites

BoundedConfigInit ==
    /\ ConfigInit
    /\ \A pl \in Places : live[pl] # Empty <=> pl \in Holdings
    /\ around = 0 /\ failures = 0

BoundedConfigNext ==
    /\ ConfigNext
    /\ around' = around + (IF Happens THEN 1 ELSE 0)
    /\ failures' = failures + (IF Faulty THEN 1 ELSE 0)
    /\ around' <= MaxAround /\ failures' <= MaxFailures

BoundedConfigSpec ==
    BoundedConfigInit /\ [][BoundedConfigNext]_<<configVars, around, failures>>
=============================================================================
