---------------------------- MODULE MCChallenges -----------------------------
(***************************************************************************)
(* Challenges.tla with three players: two challenge the third, and one of  *)
(* these is challenged itself, so that a freed slot comes to hold a        *)
(* challenge of other players.                                             *)
(***************************************************************************)
EXTENDS Challenges

CONSTANTS ann, bob, cyd
MCPair == {<<ann, cyd>>, <<bob, cyd>>, <<cyd, bob>>}
=============================================================================
