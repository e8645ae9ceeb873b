------------------------------ MODULE MCRealtime ------------------------------
(* A channel the game joins and leaves, and calls on its own user topic.    *)
EXTENDS Realtime

CONSTANTS room, me

MCCalls ==
    {[kind |-> kind, topic |-> room] : kind \in {"join", "leave"}}
        \union {[kind |-> "push", topic |-> me]}
=============================================================================
