-------------------------------- MODULE Awale --------------------------------
(***************************************************************************)
(* The board and the rules of the game: src/src/game/board.c and           *)
(* src/src/game/rules.c.  A behaviour is one game, move after move.        *)
(*                                                                         *)
(* board   is the board_t of one game.                                     *)
(* crashed is TRUE once the process has died of stack exhaustion:          *)
(*         rules_check_win_condition, board_get_winner and                 *)
(*         board_is_game_over call one another without an end on every     *)
(*         board that is over for another reason than a score.             *)
(*                                                                         *)
(* Sowing and capturing are loops in the code and closed forms here;       *)
(* AwaleLoops.tla has the loops and the calls, and implements this module. *)
(***************************************************************************)
EXTENDS Integers, FiniteSets

CONSTANTS
  PitsPerPlayer,   \* PITS_PER_PLAYER, 6 in the program
  SeedsPerPit,     \* INITIAL_SEEDS_PER_PIT, 4
  WinScore         \* WIN_SCORE, 25

NumPits    == 2 * PitsPerPlayer
TotalSeeds == NumPits * SeedsPerPit

ASSUME BoardAssumption ==
  /\ PitsPerPlayer \in Nat \ {0}
  /\ SeedsPerPit \in Nat
  /\ WinScore \in Nat
  /\ 2 * WinScore > TotalSeeds     \* 25 is more than half of the 48 seeds

VARIABLES board, crashed
vars == <<board, crashed>>

PLAYER_A == 0
PLAYER_B == 1
Player   == {PLAYER_A, PLAYER_B}
Pit      == 0 .. NumPits - 1

Opponent(player) == 1 - player
Side(player)     == player * PitsPerPlayer .. (player + 1) * PitsPerPlayer - 1

\* The seeds in a set of pits, each named by its pit and its place there.
Seeds(pits, S)            == UNION {{p} \X (1 .. pits[p]) : p \in S}
CountSeeds(pits, S)       == Cardinality(Seeds(pits, S))
SideSeeds(pits, player)   == CountSeeds(pits, Side(player))
IsSideEmpty(pits, player) == \A p \in Side(player) : pits[p] = 0

-----------------------------------------------------------------------------
(* Playing a pit: pick up, sow, capture.                                    *)

\* How many steps counterclockwise lead from one pit to another.
Distance(from, to) == (to - from) % NumPits

\* The pits after the seeds of `from` are sown.  Every lap skips `from`, so
\* the pit at distance d gets a seed for each lap of NumPits - 1 that reaches it.
Sow(pits, from) ==
  [p \in Pit |->
     IF p = from THEN 0
     ELSE pits[p] + (pits[from] + NumPits - 1 - Distance(from, p)) \div (NumPits - 1)]

\* Where the last seed of `from` falls.
LastPit(pits, from) ==
  IF pits[from] = 0 THEN from
  ELSE (from + 1 + ((pits[from] - 1) % (NumPits - 1))) % NumPits

\* The pits `player` empties when its last seed falls in `last`: the unbroken
\* run of opponent pits holding 2 or 3 that ends there.
CapturedPits(pits, last, player) ==
  {p \in Side(Opponent(player)) :
     /\ last \in Side(Opponent(player))
     /\ p <= last
     /\ \A q \in p .. last : pits[q] \in {2, 3}}

\* The pits and the capture that playing `pit` leads to.
SimulateMove(pits, player, pit) ==
  LET sown  == Sow(pits, pit)
      taken == CapturedPits(sown, LastPit(pits, pit), player)
  IN  [pits     |-> [p \in Pit |-> IF p \in taken THEN 0 ELSE sown[p]],
       captured |-> CountSeeds(sown, taken)]

-----------------------------------------------------------------------------
(* Which moves are legal.                                                   *)

WouldStarveOpponent(pits, player, pit) ==
  IsSideEmpty(SimulateMove(pits, player, pit).pits, Opponent(player))

\* Mutant: any other pit with seeds is taken for an alternative.
HasAlternative(pits, player, pit) ==
  \E other \in Side(player) \ {pit} : pits[other] > 0

HasFeedingAlternative(pits, player, pit) ==
  \E other \in Side(player) \ {pit} :
     /\ pits[other] > 0
     /\ ~WouldStarveOpponent(pits, player, other)

\* The first check that fails names the error.  The state of the game is not
\* one of the checks.
ValidateMove(b, player, pit) ==
  IF pit \notin Pit                THEN "ERR_INVALID_MOVE"
  ELSE IF b.current_player # player THEN "ERR_NOT_YOUR_TURN"
  ELSE IF b.pits[pit] = 0           THEN "ERR_EMPTY_PIT"
  ELSE IF pit \notin Side(player)   THEN "ERR_WRONG_SIDE"
  ELSE IF /\ WouldStarveOpponent(b.pits, player, pit)
          /\ HasFeedingAlternative(b.pits, player, pit)
                                    THEN "ERR_STARVE_VIOLATION"
  ELSE "SUCCESS"

-----------------------------------------------------------------------------
(* Whether the game is over, and who has won.                               *)

CanPlayerMove(pits, player) == ~IsSideEmpty(pits, player)

\* Some move of `feeder` leaves a pit of `feedee` with more seeds.
CanFeed(pits, feeder, feedee) ==
  \E p \in Side(feeder) :
     /\ pits[p] > 0
     /\ \E q \in Side(feedee) : SimulateMove(pits, feeder, p).pits[q] > pits[q]

\* The two ends of a game that no score decides: nothing is left to play, or
\* the player to move has no seeds and cannot be fed.
IsStarved(b) ==
  \/ \A player \in Player : IsSideEmpty(b.pits, player)
  \/ /\ ~CanPlayerMove(b.pits, b.current_player)
     /\ ~CanFeed(b.pits, Opponent(b.current_player), b.current_player)

\* Mutant: half the winning score is enough.
CheckWinEarly(b) ==
  IF 2 * b.scores[PLAYER_A] >= WinScore      THEN "WINNER_A"
  ELSE IF 2 * b.scores[PLAYER_B] >= WinScore THEN "WINNER_B"
  ELSE IF IsStarved(b)                       THEN "DIVERGES"
  ELSE "NO_WINNER"

\* rules_check_win_condition.  On a starved board it asks board_get_winner,
\* which asks board_is_game_over, which asks rules_check_win_condition again
\* of the same board: the call does not return.
CheckWinCondition(b) ==
  IF b.scores[PLAYER_A] >= WinScore      THEN "WINNER_A"
  ELSE IF b.scores[PLAYER_B] >= WinScore THEN "WINNER_B"
  ELSE IF IsStarved(b)                   THEN "DIVERGES"
  ELSE "NO_WINNER"

Diverges(b) == CheckWinCondition(b) = "DIVERGES"

IsGameOver(b) == CheckWinCondition(b) # "NO_WINNER" \/ b.state = "FINISHED"

\* board_get_winner, on a board whose check returns.
GetWinner(b) ==
  LET total(player) == b.scores[player] + SideSeeds(b.pits, player)
  IN  IF ~IsGameOver(b)                          THEN "NO_WINNER"
      ELSE IF total(PLAYER_A) > total(PLAYER_B)  THEN "WINNER_A"
      ELSE IF total(PLAYER_B) > total(PLAYER_A)  THEN "WINNER_B"
      ELSE "DRAW"

-----------------------------------------------------------------------------
(* The game.                                                                *)

Init ==
  /\ board = [pits           |-> [p \in Pit |-> SeedsPerPit],
              scores         |-> [player \in Player |-> 0],
              current_player |-> PLAYER_A,
              state          |-> "IN_PROGRESS",
              winner         |-> "NO_WINNER"]
  /\ crashed = FALSE

\* The board once the seeds are sown and captured, before the end of the game
\* is looked at: it is still the turn of `player`.
Played(b, player, pit) ==
  LET move == SimulateMove(b.pits, player, pit)
  IN  [b EXCEPT !.pits = move.pits, !.scores[player] = @ + move.captured]

\* Mutant: the turn passes on a won game too.
SettledPasses(b) ==
  LET winner == CheckWinCondition(b)
  IN  [b EXCEPT !.state          = IF winner # "NO_WINNER" THEN "FINISHED" ELSE @,
                !.winner         = IF winner # "NO_WINNER" THEN winner ELSE @,
                !.current_player = Opponent(@)]

\* The end of board_execute_move: a won game keeps its player, a game in
\* progress passes the turn.
Settled(b) ==
  LET winner == CheckWinCondition(b)
      over   == [b EXCEPT !.state = "FINISHED", !.winner = winner]
  IN  IF winner # "NO_WINNER"         THEN over
      ELSE IF b.state = "IN_PROGRESS" THEN [b EXCEPT !.current_player = Opponent(@)]
      ELSE b

\* board_execute_move.  A move that is not valid changes nothing.
ExecuteMove(player, pit) ==
  /\ ~crashed
  /\ ValidateMove(board, player, pit) = "SUCCESS"
  /\ LET played == Played(board, player, pit)
     IN  \/ /\ ~Diverges(played)
            /\ board' = Settled(played)
            /\ UNCHANGED crashed
         \/ /\ Diverges(played)
            /\ board' = played
            /\ crashed' = TRUE

\* handle_play_move asks board_is_game_over of the board the move left, now
\* with the next player to move.  The answer is all it gets, or the crash.
AskGameOver ==
  /\ ~crashed
  /\ Diverges(board)
  /\ crashed' = TRUE
  /\ UNCHANGED board

Next ==
  \/ \E player \in Player, pit \in Pit : ExecuteMove(player, pit)
  \/ AskGameOver

Spec == Init /\ [][Next]_vars

-----------------------------------------------------------------------------
(* Properties.                                                              *)

Board ==
  [pits : [Pit -> Nat], scores : [Player -> Nat], current_player : Player,
   state : {"IN_PROGRESS", "FINISHED"}, winner : {"NO_WINNER", "WINNER_A", "WINNER_B"}]

\* The type invariant.  A winner is never DRAW: the board_get_winner that
\* would say so is never reached from rules_check_win_condition and left again.
TypeOK == board \in Board /\ crashed \in BOOLEAN

\* The program decides the winner twice: board_execute_move stores what the
\* scores say, and handle_play_move recomputes it with board_get_winner from
\* scores and seeds left on each side.  The two agree.
WinnersAgree == ~crashed /\ board.state = "FINISHED" => GetWinner(board) = board.winner

\* A decided game stays decided the same way, though rules_validate_move lets
\* the last player go on playing a finished board.
WinnerIsFinal ==
  [][board.winner # "NO_WINNER" =>
       board'.winner = board.winner /\ board'.state = "FINISHED"]_vars

\* Why: a finished game is one with a winner, who still has the turn, and whose
\* score decided.  Nobody has that score before.
WinnerHoldsTheTurn ==
  /\ board.state = "FINISHED" <=> board.winner # "NO_WINNER"
  /\ board.winner = "NO_WINNER" =>
       \A player \in Player : board.scores[player] < WinScore
  /\ board.winner = "WINNER_A" =>
       board.current_player = PLAYER_A /\ board.scores[PLAYER_A] >= WinScore
  /\ board.winner = "WINNER_B" =>
       /\ board.current_player = PLAYER_B /\ board.scores[PLAYER_B] >= WinScore
       /\ board.scores[PLAYER_A] < WinScore

\* The feeding rule never takes all moves away: a player to move with a seed
\* on its side has a move that rules_validate_move accepts.
MoverNotBlocked ==
  CanPlayerMove(board.pits, board.current_player) =>
    \E pit \in Pit : ValidateMove(board, board.current_player, pit) = "SUCCESS"

\* A capture stays across the board: a move never takes a seed out of a pit of
\* the mover's own other than the one it plays, nor changes the other score.
CaptureStaysAcross ==
  [][LET mover == board.current_player
     IN  /\ board'.scores[Opponent(mover)] = board.scores[Opponent(mover)]
         /\ \E played \in Side(mover) : \A p \in Side(mover) \ {played} :
               board'.pits[p] >= board.pits[p]]_vars

\* tests/test_game_logic.c (board_game_end_scenarios) takes board_is_game_over
\* to answer on boards that are over without a winning score.
GameEndIsReported == ~crashed

\* What a game promises, whatever its moves are.  No move loses or makes a seed:
\* sowing around the board, skipping the origin on later laps, and capturing only
\* move seeds between the pits and the score of the mover.
Race == INSTANCE SeedRace WITH
          inPlay <- CountSeeds(board.pits, Pit),
          scores <- board.scores,
          winner <- board.winner
RefinesRace == Race!Spec

\* The players move in turn until one of them wins, with its own move, once and
\* for all: board_execute_move passes the turn of a game that goes on and of no
\* other, so that a won board that is played on finds the same winner.
WinnerOf(b) == CASE b.winner = "WINNER_A" -> PLAYER_A
                 [] b.winner = "WINNER_B" -> PLAYER_B
                 [] OTHER                 -> -1
Turns == INSTANCE TurnGame WITH
           One <- PLAYER_A, Two <- PLAYER_B, Nobody <- -1,
           turn <- board.current_player, winner <- WinnerOf(board)
RefinesTurns == Turns!Spec
=============================================================================
