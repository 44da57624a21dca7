----------------------------- MODULE KitPromise -----------------------------
(***************************************************************************)
(* What the Session Kit promises the owner of a shared account, with none  *)
(* of how it is kept: the account is a thing on loan.  Before anything in  *)
(* it is changed a copy of it is taken; the copy is held, unchanged, for   *)
(* as long as the account is anything but the owner's; and it is given up  *)
(* only when the owner has their setup again, or says that what is there   *)
(* is theirs.                                                              *)
(***************************************************************************)

CONSTANT Parts       \* what the account's setup consists of

VARIABLES setup,     \* what each part holds
          copy,      \* the copy held of the owner's setup
          mark,      \* what the switcher shows of the account
          waived     \* the owner has declared what is there to be theirs

loan == <<setup, copy, mark, waived>>

\* The owner's own content, as found or since changed, and nothing at all;
\* "foreign" is the visitor's content, or a tree that is not whole.
Setups == {"blank", "theirs", "edited", "foreign"}
Marks  == {"none", "underway", "carrying", "changed"}

NoCopy == [p \in Parts |-> "none"]
Held   == copy # NoCopy

\* The owner has back what the copy holds, or what they made of it since.
Returned == \A p \in Parts : setup[p] \in {copy[p], "edited"}

Init == /\ setup \in [Parts -> Setups \ {"foreign"}]
        /\ copy = NoCopy
        /\ mark = "none"
        /\ waived = FALSE

(* A visit is announced.                                                   *)
Announce == /\ mark = "none"
            /\ mark' = "underway"
            /\ UNCHANGED <<setup, copy, waived>>

(* The copy is taken, of the owner's setup and of nothing else.            *)
TakeCopy == /\ mark = "underway" /\ ~Held
            /\ waived \/ \A p \in Parts : setup[p] # "foreign"
            /\ copy' = setup
            /\ UNCHANGED <<setup, mark, waived>>

(* The account is worked on, a part at a time, under the copy.             *)
WorkOn(p) == /\ Held /\ mark \in {"underway", "changed"}
             /\ \E s \in Setups : setup' = [setup EXCEPT ![p] = s]
             /\ UNCHANGED <<copy, mark, waived>>

(* The account carries the kit, or is found changed by someone else, or is *)
(* taken up again: only ever with the copy in hand.                        *)
Turn == /\ Held
        /\ mark' \in Marks \ {"none"}
        /\ UNCHANGED <<setup, copy, waived>>

(* The loan is over, and the account is as it was.                         *)
GiveBack == /\ Held /\ mark = "underway"
            /\ waived \/ Returned
            /\ copy' = NoCopy /\ mark' = "none"
            /\ UNCHANGED <<setup, waived>>

(* A visit that never took a copy is called off: nothing was touched.      *)
CallOff == /\ ~Held /\ mark = "underway"
           /\ mark' = "none"
           /\ UNCHANGED <<setup, copy, waived>>

(* Asked about a change they did not expect, the owner says it is theirs,  *)
(* and what is held of the setup before it is let go.                      *)
Waive == /\ Held /\ mark = "changed"
         /\ waived' = TRUE
         /\ UNCHANGED <<setup, copy, mark>>

LetGo == /\ Held /\ mark = "changed" /\ waived
         /\ copy' = NoCopy /\ mark' = "none"
         /\ UNCHANGED <<setup, waived>>

(* Whoever plays on the account changes what is there: the owner's setup   *)
(* stays the owner's, the visitor's does not become it.                    *)
Play(p) == /\ setup' = [setup EXCEPT ![p] = IF @ = "foreign" THEN @ ELSE "edited"]
           /\ UNCHANGED <<copy, mark, waived>>

Next == \/ Announce \/ TakeCopy \/ Turn \/ GiveBack \/ CallOff \/ Waive \/ LetGo
        \/ \E p \in Parts : WorkOn(p) \/ Play(p)

Spec == Init /\ [][Next]_loan
=============================================================================
