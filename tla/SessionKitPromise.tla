-------------------------- MODULE SessionKitPromise --------------------------
(***************************************************************************)
(* The engine of SessionKit keeps KitPromise.  The setup the promise talks *)
(* about is the account's directories; the copy is the snapshot the        *)
(* journal references, for as long as the pointer names that journal and   *)
(* its phase is not the last; the mark is what Status makes of the phase.  *)
(***************************************************************************)
EXTENDS SessionKit

\* What a tree is to the owner.
AsSetup(t) == CASE t \in Overlay \cup {"torn"} -> "foreign"
                [] t \in Blank                 -> "blank"
                [] OTHER                       -> t

LoanSetup == [p \in Parts |-> AsSetup(live[p])]
LoanCopy  == [p \in Parts |-> IF Tracked THEN AsSetup(j.theirs[p]) ELSE "none"]
LoanMark  == CASE KitOn          -> "carrying"
               [] ExternalChange -> "changed"
               [] Interrupted    -> "underway"
               [] OTHER          -> "none"

Promise == INSTANCE KitPromise
             WITH setup <- LoanSetup, copy <- LoanCopy, mark <- LoanMark,
                  waived <- accepted

(* The engine's every step, a failing one and a crash included, is a step  *)
(* of the loan or changes nothing the owner could see of it: Enter, Leave, *)
(* Resolve and the recoveries from a crash in any of them.                 *)
KeepsThePromise == Promise!Spec
=============================================================================
