---------------------------- MODULE MCMatchmaking ----------------------------
(***************************************************************************)
(* Matchmaking.tla on three pairs of two players, so that a pair finds two *)
(* slots taken by others.  One of them is a player and itself: the clients *)
(* do not ask for that, and the component does not refuse it.              *)
(***************************************************************************)
EXTENDS Matchmaking

CONSTANTS p1, p2
MCPair == {<<p1, p2>>, <<p2, p1>>, <<p1, p1>>}
=============================================================================
