---------------------------- MODULE MCRollback -----------------------------
(* A small instance of Rollback. A world is the history of rows that led   *)
(* to it, so two worlds are equal only when every tick was played alike.   *)
EXTENDS Rollback, Sequences

MCStart == <<>>
MCStep(world, row) == Append(world, row)
MCDigest(world) == <<Len(world), world>>
=============================================================================
