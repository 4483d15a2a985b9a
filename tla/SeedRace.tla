------------------------------ MODULE SeedRace -------------------------------
(***************************************************************************)
(* What a game of Awale promises, whatever its rules of sowing are: two    *)
(* players take seeds out of a fixed stock, a seed taken stays taken, and  *)
(* the first to hold WinScore of them wins, once and for all.  Awale.tla   *)
(* implements it.  No game ends in a draw and none is abandoned: the       *)
(* program has values for both and no execution that assigns them.         *)
(***************************************************************************)
EXTENDS Integers

CONSTANTS TotalSeeds, WinScore
VARIABLES inPlay, scores, winner
vars == <<inPlay, scores, winner>>

Name(player) == IF player = 0 THEN "WINNER_A" ELSE "WINNER_B"

Init ==
  /\ inPlay = TotalSeeds
  /\ scores = [player \in {0, 1} |-> 0]
  /\ winner = "NO_WINNER"

\* A player takes k seeds, and wins with them or not.  The winner may go on.
Take(player, k) ==
  /\ winner \in {"NO_WINNER", Name(player)}
  /\ k <= inPlay
  /\ inPlay' = inPlay - k
  /\ scores' = [scores EXCEPT ![player] = @ + k]
  /\ winner' = IF scores'[player] >= WinScore THEN Name(player) ELSE winner

Next == \E player \in {0, 1} : \E k \in 0 .. inPlay : Take(player, k)

Spec == Init /\ [][Next]_vars
=============================================================================
