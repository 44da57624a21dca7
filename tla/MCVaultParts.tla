----------------------------- MODULE MCVaultParts -----------------------------
(***************************************************************************)
(* The vault's document, the guard codes and the sign-in, which share no   *)
(* state as they are modelled, side by side in one run: a behaviour takes  *)
(* one part through its steps and leaves the others where they start.      *)
(***************************************************************************)
EXTENDS MCVaultDocument, GuardCodes, VaultSignIn

CONSTANT Parts

VARIABLE part

vaultVars == <<vars, begun, codesVars, signVars>>

VaultInit ==
    /\ part \in Parts
    /\ Init /\ begun = 0
    /\ Cardinality({a \in Accounts : ~Absent(file, a)}) <= IF part = "document" THEN 1 ELSE 0
    /\ part # "document" => contents = CHOOSE c \in [Inbound -> Bundles] : TRUE
    /\ CodesInit /\ SignInit

VaultNext ==
    /\ UNCHANGED part
    /\ IF part = "document" THEN BoundedNext ELSE UNCHANGED <<vars, begun>>
    /\ IF part = "codes" THEN CodesNext ELSE UNCHANGED codesVars
    /\ IF part = "signin" THEN SignNext ELSE UNCHANGED signVars

VaultSpec == VaultInit /\ [][VaultNext]_<<part, vaultVars>>
=============================================================================
