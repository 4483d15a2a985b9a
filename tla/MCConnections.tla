--------------------------- MODULE MCConnections -----------------------------
(***************************************************************************)
(* Connections.tla with two players, one of whom watches games, and with   *)
(* three threads, which are alike.                                         *)
(***************************************************************************)
EXTENDS Connections, TLC

CONSTANTS p1, p2, t1, t2, t3
MCMayWatch == {<<p1, id>> : id \in GameId}
MCThreads  == Permutations(Thread)
=============================================================================
