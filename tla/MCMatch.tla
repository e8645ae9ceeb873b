------------------------------ MODULE MCMatch ------------------------------
(* Small matches: a host and two guests, worlds that are the history of    *)
(* the rows that led to them, as in MCNetSession.                          *)
EXTENDS Match

CONSTANTS h, g, k, a

MCStart == <<>>
MCStep(world, row) == Append(world, row)
MCDigest(world) == world

(* Everybody plays a on odd ticks; the host plays it on every tick.        *)
MCPlays(p, t) == IF p = h \/ t % 2 = 1 THEN {a} ELSE {Nil}
=============================================================================
