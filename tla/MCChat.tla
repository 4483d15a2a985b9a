------------------------------- MODULE MCChat ----------------------------------
(***************************************************************************)
(* Chat.tla with four clients.                                             *)
(***************************************************************************)
EXTENDS Chat

CONSTANTS ann, bob, cyd, dan
FourClients == <<ann, bob, cyd, dan>>
=============================================================================
