--------------------------- MODULE SettledHistory --------------------------
(***************************************************************************)
(* What rollback promises about the past: a history of settled ticks that  *)
(* only ever grows, one tick at a time, by stepping the game's world with  *)
(* one row of inputs. Nothing already settled is taken back or run twice.  *)
(***************************************************************************)
CONSTANTS Start, Rows, Step(_, _)

VARIABLE settled    \* the world after the last settled tick

Init == settled = Start

Settle == \E row \in Rows : settled' = Step(settled, row)

Next == Settle

Spec == Init /\ [][Next]_settled
=============================================================================
