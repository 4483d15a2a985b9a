---------------------------- MODULE ChallengeBook ----------------------------
(***************************************************************************)
(* What matchmaking promises about challenges, whatever slots it keeps     *)
(* them in: an open challenge has an id no other ever had, a player has at *)
(* most one open challenge to another, there is room for Capacity of them, *)
(* and one that is withdrawn stays so.  Matchmaking.tla implements it.     *)
(***************************************************************************)
EXTENDS Integers, FiniteSets

CONSTANTS Player, Capacity
VARIABLES open, next_id
vars == <<open, next_id>>

Init == open = {} /\ next_id = 1

Issue(challenger, opponent) ==
  /\ Cardinality(open) < Capacity
  /\ \A c \in open : <<c.challenger, c.opponent>> # <<challenger, opponent>>
  /\ open' = open \union
       {[id |-> next_id, challenger |-> challenger, opponent |-> opponent]}
  /\ next_id' = next_id + 1

Withdraw(challenges) ==
  /\ open' = open \ challenges
  /\ UNCHANGED next_id

Next ==
  \/ \E challenger, opponent \in Player : Issue(challenger, opponent)
  \/ \E challenges \in SUBSET open : Withdraw(challenges)

Spec == Init /\ [][Next]_vars
=============================================================================
