--------------------------- MODULE MCVaultDocument ---------------------------
(* Model values and bounds for the instances of VaultDocument TLC checks.  *)
EXTENDS VaultDocument, Naturals, TLC

CONSTANT MaxCalls    \* how many calls begin

VARIABLE begun

Symmetry == Permutations(Accounts) \cup Permutations(Callers) \cup Permutations(Passwords)

(* SingleEntry: at first the vault holds at most one account.              *)
BoundedInit == /\ Init /\ begun = 0
               /\ Cardinality({a \in Accounts : ~Absent(file, a)}) <= 1

BoundedNext ==
    \/ begun < MaxCalls /\ (\E c \in Callers : Begins(c)) /\ begun' = begun + 1
    \/ /\ \/ \E c \in Callers : CallStep(c)
          \/ Lock \/ Unlock
          \/ \E r \in Rosters : RosterGoes(r)
       /\ UNCHANGED begun

BoundedSpec == BoundedInit /\ [][BoundedNext]_<<vars, begun>>
=============================================================================
