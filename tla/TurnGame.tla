------------------------------ MODULE TurnGame -------------------------------
(***************************************************************************)
(* What is left of a game when its board is left out: whose turn it is and *)
(* who has won.  The players move in turn, the one whose turn it is may    *)
(* win, and keeps the turn then, for good.  Awale.tla implements it; the   *)
(* games of Games.tla and PlayMode.tla, which have no board, do too.       *)
(***************************************************************************)
CONSTANTS One, Two, Nobody
VARIABLES turn, winner
vars == <<turn, winner>>

Other(player) == IF player = One THEN Two ELSE One

Init == turn \in {One, Two} /\ winner = Nobody

Pass == winner = Nobody /\ turn' = Other(turn) /\ UNCHANGED winner
Win  == winner = Nobody /\ winner' = turn /\ UNCHANGED turn

Next == Pass \/ Win
Spec == Init /\ [][Next]_vars
=============================================================================
