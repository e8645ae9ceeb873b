---------------------------- MODULE MCNetSession ----------------------------
(* Small matches of NetSession. A world is the history of rows that led to *)
(* it, so two worlds digest alike only when every tick was played alike.   *)
EXTENDS NetSession

CONSTANTS h, g, k, a

MCStart == <<>>
MCStep(world, row) == Append(world, row)
MCDigest(world) == world

(* The host holds its button down; the guest taps it, so a prediction of   *)
(* the guest is wrong on every tick and one of the host only on the first. *)
MCPlays(p, t) == IF p = h \/ t % 2 = 1 THEN {a} ELSE {Nil}
=============================================================================
