------------------------------ MODULE Lockstep ------------------------------
(***************************************************************************)
(* The game a match of rollback sessions comes to: players make one input  *)
(* per tick, and every machine steps its world through the same ticks with *)
(* the same rows of inputs, at its own pace and never ahead of a player.   *)
(***************************************************************************)
EXTENDS Naturals, Sequences

CONSTANTS Players, Input, Start, Step(_, _)

VARIABLES
    played,     \* player -> the inputs made so far, one per tick
    tick,       \* machine -> the tick its world is about to run
    world       \* machine -> its world

vars == <<played, tick, world>>

Init ==
    /\ played = [p \in Players |-> <<>>]
    /\ tick = [p \in Players |-> 1]
    /\ world = [p \in Players |-> Start]

Row(t) == [q \in Players |-> played[q][t]]

Settle(p) ==
    /\ \A q \in Players : tick[p] <= Len(played[q])
    /\ tick' = [tick EXCEPT ![p] = @ + 1]
    /\ world' = [world EXCEPT ![p] = Step(@, Row(tick[p]))]

(* A player makes an input; their machine may settle a tick as it does.    *)
Frame(p) ==
    /\ \E v \in Input : played' = [played EXCEPT ![p] = Append(@, v)]
    /\ Settle(p) \/ UNCHANGED <<tick, world>>

Next == \E p \in Players : Frame(p)

Spec == Init /\ [][Next]_vars
=============================================================================
