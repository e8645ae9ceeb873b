------------------------------ MODULE MCScenes ------------------------------
(* Three scenes, two of one node and one of two, under a budget of two.     *)
EXTENDS Scenes

CONSTANTS menu, hall, cave

MCSizeOf == [f \in Files |-> IF f = cave THEN 2 ELSE 1]
=============================================================================
