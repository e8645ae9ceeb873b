------------------------------- MODULE MCLobby -------------------------------
(* Two players join a host's lobby, leave it and come back; the second      *)
(* player, the second time, with a token of another game.                   *)
EXTENDS Lobby

CONSTANTS a, b

MCStrangers == {<<b, 2>>}
=============================================================================
