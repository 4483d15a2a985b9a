----------------------------- MODULE AwaleLoops ------------------------------
(***************************************************************************)
(* The game of Awale.tla as the processor runs it: the loops of            *)
(* src/src/game/rules.c one seed and one pit at a time, and the calls that *)
(* board.c and rules.c make to one another one frame at a time.            *)
(*                                                                         *)
(* call  is the function that is running: its phase and its locals, or     *)
(*       NoCall.  board_execute_move works on the board of the game and    *)
(*       rules_simulate_move on a copy; both work on call.pits here, and   *)
(*       board changes when the game is let go of.                         *)
(*                                                                         *)
(* Awale.tla takes each call as one step and each loop as its result.      *)
(***************************************************************************)
EXTENDS Awale

CONSTANT StackDepth   \* calls of rules_check_win_condition the stack has room for
ASSUME StackAssumption == StackDepth \in Nat \ {0}

VARIABLE call
loopVars == <<board, crashed, call>>

NoCall == [phase |-> "none"]

\* The seeds of `pit` are picked up.  The result of the loops is played, or
\* looked at and dropped.
PickUp(player, pit, plays) ==
  [phase |-> "sow", player |-> player, pit |-> pit, plays |-> plays,
   pits |-> [board.pits EXCEPT ![pit] = 0], current |-> pit,
   hand |-> board.pits[pit], captured |-> 0]

\* rules_check_win_condition is asked about the board b.
Check(b, plays) == [phase |-> "check", on |-> b, plays |-> plays, depth |-> 1]

LoopInit == Init /\ call = NoCall

Idle == call = NoCall /\ ~crashed

-----------------------------------------------------------------------------
(* Sowing and capturing.                                                    *)

\* board_execute_move has found the move valid.
MoveStarts(player, pit) ==
  /\ Idle
  /\ ValidateMove(board, player, pit) = "SUCCESS"
  /\ call' = PickUp(player, pit, TRUE)
  /\ UNCHANGED vars

\* rules_would_starve_opponent or rules_can_feed asks what a move would do.
SimulationStarts(player, pit) ==
  /\ Idle
  /\ pit \in Side(player)
  /\ board.pits[pit] > 0
  /\ call' = PickUp(player, pit, FALSE)
  /\ UNCHANGED vars

\* Mutant: later laps put a seed in the pit that was played.
SowSeedAnywhere ==
  LET next == (call.current + 1) % NumPits
  IN  /\ call.phase = "sow" /\ call.hand > 0
      /\ call' = [call EXCEPT !.current = next, !.pits[next] = @ + 1, !.hand = @ - 1]
      /\ UNCHANGED vars

\* One turn of the loop of rules_sow_seeds.
SowSeed ==
  LET next == (call.current + 1) % NumPits
  IN  /\ call.phase = "sow" /\ call.hand > 0
      /\ \/ /\ next = call.pit
            /\ call' = [call EXCEPT !.current = next]
         \/ /\ next # call.pit
            /\ call' = [call EXCEPT !.current = next, !.pits[next] = @ + 1, !.hand = @ - 1]
      /\ UNCHANGED vars

SowReturns ==
  /\ call.phase = "sow" /\ call.hand = 0
  /\ call' = [call EXCEPT !.phase = "capture"]
  /\ UNCHANGED vars

\* Mutant: any pit of 2 or 3 seeds is taken, whoever's it is.
TakesAnyPit == call.pits[call.current] \in {2, 3}

\* The condition of the loop of rules_capture_seeds.
TakesPit ==
  /\ call.current \in Side(Opponent(call.player))
  /\ call.pits[call.current] \in {2, 3}

\* Mutant: the score takes each pit's seeds and one of them stays.
CaptureLeavesOne ==
  /\ call.phase = "capture" /\ TakesPit
  /\ call' = [call EXCEPT !.captured = @ + call.pits[call.current],
                          !.pits[call.current] = 1,
                          !.current = (@ - 1 + NumPits) % NumPits]
  /\ UNCHANGED vars

\* One turn of that loop.
CapturePit ==
  /\ call.phase = "capture" /\ TakesPit
  /\ call' = [call EXCEPT !.captured = @ + call.pits[call.current],
                          !.pits[call.current] = 0,
                          !.current = (@ - 1 + NumPits) % NumPits]
  /\ UNCHANGED vars

LoopsDone == call.phase = "capture" /\ ~TakesPit

\* A simulation returns to its caller; a move goes on to the end of the game.
CaptureReturns ==
  /\ LoopsDone
  /\ call' = IF call.plays
             THEN Check([board EXCEPT !.pits = call.pits,
                                      !.scores[call.player] = @ + call.captured], TRUE)
             ELSE NoCall
  /\ UNCHANGED vars

-----------------------------------------------------------------------------
(* The end of the game.                                                     *)

\* handle_play_move asks board_is_game_over, after the move.
QuestionStarts ==
  /\ Idle
  /\ call' = Check(board, FALSE)
  /\ UNCHANGED vars

\* rules_check_win_condition needs board_get_winner: no score decides, and the
\* game is over.
AsksWinner ==
  /\ \A player \in Player : call.on.scores[player] < WinScore
  /\ IsStarved(call.on)

\* board_get_winner asks board_is_game_over, which asks
\* rules_check_win_condition, of the same board: a frame more, if there is room.
CheckRecurs ==
  /\ call.phase = "check" /\ AsksWinner
  /\ \/ /\ call.depth < StackDepth
        /\ call' = [call EXCEPT !.depth = @ + 1]
        /\ UNCHANGED vars
     \/ /\ call.depth = StackDepth
        /\ call' = NoCall
        /\ board' = call.on
        /\ crashed' = TRUE

\* The innermost check answers, and with it the calls around it.
CheckReturns ==
  /\ call.phase = "check" /\ ~AsksWinner
  /\ call' = NoCall
  /\ board' = IF call.plays THEN Settled(call.on) ELSE board
  /\ UNCHANGED crashed

LoopNext ==
  \/ \E player \in Player, pit \in Pit : MoveStarts(player, pit)
  \/ \E player \in Player, pit \in Pit : SimulationStarts(player, pit)
  \/ SowSeed
  \/ SowReturns
  \/ CapturePit
  \/ CaptureReturns
  \/ QuestionStarts
  \/ CheckRecurs
  \/ CheckReturns

LoopSpec == LoopInit /\ [][LoopNext]_loopVars

-----------------------------------------------------------------------------
(* Properties.                                                              *)

\* When the loops are done, for a move or for a simulation, they have left the
\* pits and the capture that SimulateMove gives in one formula.
SimulationsAgree ==
  LoopsDone => [pits |-> call.pits, captured |-> call.captured]
                 = SimulateMove(board.pits, call.player, call.pit)

\* The loops and the calls implement Awale.tla.  Later laps skip the pit that
\* was played, a capture ends at the edge of a side, a simulation leaves the game
\* alone, a game in progress is seen to be so by one call, and the check that uses
\* up the stack, however deep it is, is the check of a starved board.
FormsAgree == Spec
=============================================================================
