----------------------------- MODULE MCKitGuard -----------------------------
(***************************************************************************)
(* KitGuard for TLC: two callers, two accounts, every mutex contended.     *)
(***************************************************************************)
EXTENDS KitGuard

=============================================================================
