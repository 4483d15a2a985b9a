------------------------------ MODULE MCGames --------------------------------
(***************************************************************************)
(* Games.tla where both others accept the games of one player: its thread  *)
(* may find one game in a slot, and the other one there when it moves.     *)
(***************************************************************************)
EXTENDS Games

CONSTANTS ann, bob, cyd
MCPairing == {<<ann, bob>>, <<ann, cyd>>}
=============================================================================
