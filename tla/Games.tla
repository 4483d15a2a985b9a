------------------------------- MODULE Games ---------------------------------
(***************************************************************************)
(* The table of games, src/src/server/game_manager.c, and handle_play_move *)
(* of server_handlers.c, which the thread of each client runs over it.     *)
(* Awale.tla has the rules; all that is left of a board here is whose turn *)
(* it is and who has won.  Games here end by a score, the end that does    *)
(* not crash the server.                                                   *)
(*                                                                         *)
(* The handler looks for the game by its id time and again: to play the    *)
(* move, to keep a pointer, to copy the board, to remove it, to find the   *)
(* opponent.  It holds a lock only from one access to the next, and its    *)
(* steps are the actions.  op[p] is where the thread of p is, with the id  *)
(* asked for, the slots it points to and the board it has copied.          *)
(*                                                                         *)
(* stats     games_won and games_lost of each player (matchmaking.c)       *)
(* created   how many games had an id (history)                            *)
(* result    who won the game of an id, the last (history)                 *)
(* told      who was told that the game of an id is over (history)         *)
(***************************************************************************)
EXTENDS Integers, FiniteSets

CONSTANTS
  Player,
  MaxGames,     \* MAX_GAMES, 100 in the program
  Pairing,      \* bound of the model: <<a, b>> when b accepts challenges of a
  MaxCreated    \* bound of the model: games created

ASSUME GamesAssumption ==
  /\ MaxGames \in Nat /\ MaxCreated \in Nat
  /\ Pairing \subseteq Player \X Player /\ IsFiniteSet(Pairing)
  /\ \A pair \in Pairing : pair[1] # pair[2]

VARIABLES games, game_count, op, stats, created, result, told
vars == <<games, game_count, op, stats, created, result, told>>

Slot == 1 .. MaxGames
Role == {"a", "b"}
Other(role) == IF role = "a" THEN "b" ELSE "a"

\* The id of a game, "<player_a>-vs-<player_b>", is the pair of its players.
Id(game) == <<game.a, game.b>>
Active   == {s \in Slot : games[s].active}

\* What game_manager_find_game returns: the first slot, or none.
Lookup(id) ==
  {s \in Active : /\ Id(games[s]) = id
                  /\ \A t \in Active : Id(games[t]) = id => s <= t}
Pointer(slots) == IF slots = {} THEN 0 ELSE CHOOSE s \in slots : TRUE

Idle == [at |-> "idle", id |-> <<>>, slot |-> 0, game |-> 0, winner |-> "none"]

Init ==
  /\ games = [s \in Slot |-> [active |-> FALSE, a |-> "", b |-> "",
                              turn |-> "a", winner |-> "none", moved |-> FALSE]]
  /\ game_count = 0
  /\ op = [p \in Player |-> Idle]
  /\ stats = [p \in Player |-> [won |-> 0, lost |-> 0]]
  /\ created = [id \in Pairing |-> 0]
  /\ result = [id \in Pairing |-> "none"]
  /\ told = [id \in Pairing |-> {}]

Done(p) == op' = [op EXCEPT ![p] = Idle]

-----------------------------------------------------------------------------
(* game_manager_create_game, called by the thread of the accepting player.  *)

CreateGame(a, b) ==
  /\ op[b].at = "idle"
  /\ game_count < MaxGames                                \* else ERR_MAX_CAPACITY
  /\ Cardinality(UNION {{id} \X (1 .. created[id]) : id \in Pairing}) < MaxCreated
  /\ \E s \in Slot \ Active :
       /\ \A t \in Slot \ Active : s <= t
       /\ games' = [games EXCEPT ![s] = [active |-> TRUE, a |-> a, b |-> b,
                                         turn |-> "a", winner |-> "none", moved |-> FALSE]]
  /\ game_count' = game_count + 1
  /\ created' = [created EXCEPT ![<<a, b>>] = @ + 1]
  /\ result' = [result EXCEPT ![<<a, b>>] = "none"]
  /\ told' = [told EXCEPT ![<<a, b>>] = {}]
  /\ UNCHANGED <<op, stats>>

-----------------------------------------------------------------------------
(* handle_play_move.                                                        *)

\* game_manager_play_move finds the game, with no lock ...
Play(p, id) ==
  /\ op[p].at = "idle"
  /\ p \in {id[1], id[2]}
  /\ \E s \in Lookup(id) :
       op' = [op EXCEPT ![p] = [Idle EXCEPT !.at = "move", !.id = id, !.slot = s]]
  /\ UNCHANGED <<games, game_count, stats, created, result, told>>

RoleOf(p, game) == IF game.a = p THEN {"a"} ELSE IF game.b = p THEN {"b"} ELSE {}

\* ... and plays the move on what the slot holds by then.  A move that wins
\* keeps the turn, and the winner may play on.  The first move of a game takes no
\* seed (FirstMoveTakesNothing in AwaleProofs.tla), so it does not win.
Move(p) ==
  LET s == op[p].slot
  IN  /\ op[p].at = "move"
      /\ \E role \in RoleOf(p, games[s]) :
           /\ games[s].turn = role
           /\ \/ /\ games[s].winner = "none"
                 /\ games' = [games EXCEPT ![s].turn = Other(role), ![s].moved = TRUE]
                 /\ UNCHANGED result
              \/ /\ games[s].moved
                 /\ games' = [games EXCEPT ![s].winner = role]
                 /\ result' = [result EXCEPT ![Id(games[s])] = role]
      /\ op' = [op EXCEPT ![p].at = "refind"]
      /\ UNCHANGED <<game_count, stats, created, told>>

\* The player is not of this game, it is not its turn, or the pit is illegal.
Refused(p) ==
  /\ op[p].at = "move"
  /\ Done(p)
  /\ UNCHANGED <<games, game_count, stats, created, result, told>>

Refind(p) ==
  /\ op[p].at = "refind"
  /\ op' = [op EXCEPT ![p].at = "seek", ![p].game = Pointer(Lookup(op[p].id))]
  /\ UNCHANGED <<games, game_count, stats, created, result, told>>

\* game_manager_get_board finds the game once more, or says it is not over ...
Seek(p) ==
  LET s == Pointer(Lookup(op[p].id))
  IN  /\ op[p].at = "seek"
      /\ op' = [op EXCEPT ![p].at = IF s = 0 THEN "reply" ELSE "copy", ![p].slot = s]
      /\ UNCHANGED <<games, game_count, stats, created, result, told>>

\* Mutant: only a win of player_a ends the game.
CopyForA(p) ==
  LET winner == games[op[p].slot].winner
      ends   == winner = "a" /\ op[p].game # 0
  IN  /\ op[p].at = "copy"
      /\ op' = [op EXCEPT ![p].at = IF ends THEN "count_a" ELSE "reply", ![p].winner = winner]
      /\ UNCHANGED <<games, game_count, stats, created, result, told>>

\* ... and copies the board: not the one the move left if the opponent moved.
Copy(p) ==
  LET winner == games[op[p].slot].winner
      ends   == winner # "none" /\ op[p].game # 0
  IN  /\ op[p].at = "copy"
      /\ op' = [op EXCEPT ![p].at = IF ends THEN "count_a" ELSE "reply", ![p].winner = winner]
      /\ UNCHANGED <<games, game_count, stats, created, result, told>>

\* matchmaking_update_player_stats, for one player of the game pointed to.
Count(p, role, next) ==
  LET game   == games[op[p].game]
      player == IF role = "a" THEN game.a ELSE game.b
  IN  /\ op[p].at = (IF role = "a" THEN "count_a" ELSE "count_b")
      /\ stats' = IF op[p].winner = role THEN [stats EXCEPT ![player].won = @ + 1]
                                         ELSE [stats EXCEPT ![player].lost = @ + 1]
      /\ op' = [op EXCEPT ![p].at = next]
      /\ UNCHANGED <<games, game_count, created, result, told>>

\* Mutants: the game is removed through the pointer kept; it is counted as
\* removed when it is not found.
RemovePointed(p) ==
  /\ op[p].at = "remove"
  /\ games' = [games EXCEPT ![op[p].game].active = FALSE]
  /\ game_count' = game_count - (IF games[op[p].game].active THEN 1 ELSE 0)
  /\ op' = [op EXCEPT ![p].at = "reply"]
  /\ UNCHANGED <<stats, created, result, told>>
RemoveCountsAlways(p) ==
  /\ op[p].at = "remove"
  /\ games' = [s \in Slot |-> IF s \in Lookup(op[p].id)
                              THEN [games[s] EXCEPT !.active = FALSE] ELSE games[s]]
  /\ game_count' = IF game_count = 0 THEN 0 ELSE game_count - 1
  /\ op' = [op EXCEPT ![p].at = "reply"]
  /\ UNCHANGED <<stats, created, result, told>>

\* Mutant: a game is removed once no other thread is at it.
RemoveWaits(p) ==
  /\ op[p].at = "remove"
  /\ \A q \in Player \ {p} : op[q].id # op[p].id
  /\ games' = [s \in Slot |-> IF s \in Lookup(op[p].id)
                              THEN [games[s] EXCEPT !.active = FALSE] ELSE games[s]]
  /\ game_count' = game_count - Cardinality(Lookup(op[p].id))
  /\ op' = [op EXCEPT ![p].at = "reply"]
  /\ UNCHANGED <<stats, created, result, told>>

\* game_manager_remove_game, by the id.
Remove(p) ==
  /\ op[p].at = "remove"
  /\ games' = [s \in Slot |-> IF s \in Lookup(op[p].id)
                              THEN [games[s] EXCEPT !.active = FALSE] ELSE games[s]]
  /\ game_count' = game_count - Cardinality(Lookup(op[p].id))
  /\ op' = [op EXCEPT ![p].at = "reply"]
  /\ UNCHANGED <<stats, created, result, told>>

\* The result goes to the player who moved ...
Tell(players, id, winner) ==
  told' = [told EXCEPT ![id] = @ \union (IF winner = "none" THEN {} ELSE players)]

Reply(p) ==
  /\ op[p].at = "reply"
  /\ Tell({p}, op[p].id, op[p].winner)
  /\ op' = [op EXCEPT ![p].at = "notify"]
  /\ UNCHANGED <<games, game_count, stats, created, result>>

\* ... and to the opponent, if the game is still found.
Notify(p) ==
  LET opponents == {IF games[s].a = p THEN games[s].b ELSE games[s].a : s \in Lookup(op[p].id)}
  IN  /\ op[p].at = "notify"
      /\ Tell(opponents, op[p].id, op[p].winner)
      /\ Done(p)
      /\ UNCHANGED <<games, game_count, stats, created, result>>

-----------------------------------------------------------------------------

\* Mutant: the statistics of player_b are forgotten.
HandlerCountsA(p) ==
  \/ Move(p) \/ Refused(p) \/ Refind(p) \/ Seek(p) \/ Copy(p)
  \/ Count(p, "a", "remove")
  \/ Remove(p) \/ Reply(p) \/ Notify(p)

\* The steps of a handler that has begun.
Handler(p) ==
  \/ Move(p) \/ Refused(p) \/ Refind(p) \/ Seek(p) \/ Copy(p)
  \/ Count(p, "a", "count_b") \/ Count(p, "b", "remove")
  \/ Remove(p) \/ Reply(p) \/ Notify(p)

Next ==
  \/ \E pair \in Pairing : CreateGame(pair[1], pair[2])
  \/ \E p \in Player, id \in Pairing : Play(p, id)
  \/ \E p \in Player : Handler(p)

\* The threads of the server are scheduled; nothing makes the players play.
Fairness == \A p \in Player : WF_vars(Handler(p))
Spec == Init /\ [][Next]_vars /\ Fairness

-----------------------------------------------------------------------------
(* Properties.                                                              *)

Winner == {"none", "a", "b"}

Game == [active : BOOLEAN, a : Player \union {""}, b : Player \union {""},
         turn : Role, winner : Winner, moved : BOOLEAN]
Step == {"idle", "move", "refind", "seek", "copy", "count_a", "count_b", "remove",
         "reply", "notify"}
Place == [at : Step, id : Pairing \union {<<>>}, slot : {0} \union Slot,
          game : {0} \union Slot, winner : Winner]

\* The type invariant: a thread points to a slot, or to none, at every step.
TypeOK ==
  /\ games \in [Slot -> Game]
  /\ game_count \in 0 .. MaxGames
  /\ op \in [Player -> Place]
  /\ \A p \in Player :
       /\ op[p].at \in {"move", "copy"} => op[p].slot \in Slot
       /\ op[p].at \in {"count_a", "count_b"} => op[p].game \in Slot
  /\ stats \in [Player -> [won : Nat, lost : Nat]]
  /\ created \in [Pairing -> Nat] /\ result \in [Pairing -> Winner]

\* game_count is the number of games in the table, though two threads may
\* remove the game that one of them ended: the limit of MAX_GAMES is neither
\* reached early nor passed.
GameCountMatches == game_count = Cardinality(Active)

\* Pairs that have played one game at most.
Once    == {id \in Pairing : created[id] <= 1}
Present == {Id(games[s]) : s \in Active}

\* As long as a pair plays one game, no game leaves the table before it is won,
\* however late a thread that saw it over comes to remove it.
RemovedIsWon ==
  \A id \in Once : created[id] = 1 /\ id \notin Present => result[id] # "none"

\* As long as no pair plays again, no result is lost: once a game has left the
\* table, its winner has the win in its statistics and its loser the loss.
Wins(p, ids)   == Cardinality({id \in ids : result[id] # "none" /\
                                 p = (IF result[id] = "a" THEN id[1] ELSE id[2])})
Losses(p, ids) == Cardinality({id \in ids : result[id] # "none" /\
                                 p = (IF result[id] = "a" THEN id[2] ELSE id[1])})
ResultsAreCounted ==
  Once = Pairing =>
    \A p \in Player :
      /\ stats[p].won  >= Wins(p, Pairing \ Present)
      /\ stats[p].lost >= Losses(p, Pairing \ Present)

\* As long as the game of a pair that plays once is won and in the table, a thread is
\* on its way to remove it: a thread that moves in a slot that has another game by
\* then does not win that, and none finds nothing or copies a board not yet won.
Attends(p, id) ==
  /\ op[p].id = id
  /\ \/ op[p].at \in {"refind", "count_a", "count_b", "remove"}
     \/ op[p].at \in {"seek", "copy"} /\ op[p].game # 0
WonIsAttended ==
  \A id \in Once \intersect Present :
    result[id] # "none" => \E p \in Player : Attends(p, id)

\* A game that is won leaves the table, whichever threads see that it is over.
WonGamesEnd ==
  \A id \in Pairing :
    (id \in Once /\ result[id] # "none") ~> (id \notin Once \/ id \notin Present)

\* handle_play_move: "If move was successful, also notify the opponent".  Both
\* players of a game that is over and gone know who won once the threads rest.
BothAreTold ==
  (\A p \in Player : op[p].at = "idle") =>
    \A id \in Once : result[id] # "none" /\ id \notin Present => told[id] = {id[1], id[2]}
=============================================================================
