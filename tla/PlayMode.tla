------------------------------ MODULE PlayMode --------------------------------
(***************************************************************************)
(* A player in play mode: cmd_play_mode, src/src/client/client_play_mode.c *)
(* with the wake-up of client_state.c, over the connection of ClientLink.  *)
(* The main thread asks for the board, shows it, and waits for the user or *)
(* for the pipe that the listener writes to when a move was made.          *)
(*                                                                         *)
(* The server is what matters of handle_play_move and handle_get_board     *)
(* (Games.tla has the former in full): the thread of the player takes its  *)
(* requests in order, the thread of the opponent plays when it likes, and  *)
(* each sends what it found after it let go of the game.                   *)
(*                                                                         *)
(* at        the state of play mode, or "menu" and "listing" outside it    *)
(* board     the board shown                                               *)
(* wanted    should_request_board                                          *)
(* retries   of receive_board                                              *)
(* known     the game is among the active games of the client              *)
(* pipe      a byte is in the notification pipe                            *)
(* requests  what the client has sent and the server not yet read          *)
(* game      the game of the server: moves made, whose turn, how it stands *)
(* moving    the threads that played a move and have not told it           *)
(* reply     the board that the player's thread has copied                 *)
(* slipped   the main thread has gone on without an answer (history)        *)
(* sent      requests that the client sent (history, for its bound)        *)
(***************************************************************************)
EXTENDS ClientLink, FiniteSets

CONSTANTS
  MaxRetries,    \* MAX_RETRIES of receive_board, 2 in the program
  MaxMoves,      \* bound of the model: moves of the game
  MaxRequests    \* bound of the model: requests of the client

Seat  == {"me", "opponent"}
Board == [moves : 0 .. MaxMoves, turn : Seat, phase : {"playing", "finished", "gone"}]

ASSUME PlayAssumption ==
  MaxRetries \in Nat /\ MaxMoves \in Nat /\ MaxRequests \in Nat /\ Garbage \notin Board

VARIABLES at, board, wanted, retries, known, pipe, requests, game, moving, reply, slipped, sent
mainVars   == <<at, board, wanted, retries, known, slipped>>
serverVars == <<game, moving, reply>>
vars == <<linkVars, mainVars, serverVars, pipe, requests, sent>>

Other(seat) == IF seat = "me" THEN "opponent" ELSE "me"

Init ==
  /\ LinkInit
  /\ game \in [moves : {0}, turn : Seat, phase : {"playing"}]
  /\ at = "menu" /\ board = game /\ wanted = FALSE /\ retries = 0
  /\ known = TRUE /\ pipe = FALSE
  /\ requests = <<>> /\ moving = {} /\ reply = {} /\ slipped = FALSE /\ sent = 0

-----------------------------------------------------------------------------
(* The main thread.                                                         *)

\* session_send_message.
Sends(request) ==
  /\ sent < MaxRequests
  /\ requests' = Append(requests, request)
  /\ sent' = sent + 1

\* active_games_notify_turn and active_games_clear_notifications: a byte is
\* written to the pipe, and all that there are are read from it.
NotifyTurn         == pipe' = TRUE
ClearNotifications == pipe' = FALSE

\* poll_events waits for the user and for the pipe.
Polling == at \in {"IDLE", "MOVE_SENT"} /\ ~wanted

\* The menu calls cmd_play_mode: the game is selected, stale wake-ups are
\* drained; or the server is asked which games there are.
Enter ==
  /\ at = "menu" /\ known
  /\ at' = "INIT" /\ wanted' = TRUE /\ retries' = 0
  /\ ClearNotifications
  /\ UNCHANGED <<linkVars, serverVars, board, known, requests, slipped, sent>>

List ==
  /\ at = "menu" /\ ~known
  /\ Sends("list") /\ rx' = Calls("main") /\ at' = "listing"
  /\ UNCHANGED <<wire, listener, torn, serverVars, board, wanted, retries, known, pipe, slipped>>

Got(type) ==
  Returned("main") /\ rx["main"].err = "success" /\ rx["main"].msg.type = type

Listed ==
  /\ at = "listing" /\ Returned("main")
  /\ \E found \in IF ~Got("my_game_list") THEN {FALSE}
                   ELSE IF rx["main"].msg.data = Garbage THEN BOOLEAN
                   ELSE {rx["main"].msg.data.phase # "gone"} :
       /\ known' = found /\ wanted' = found /\ pipe' = (pipe /\ ~found)
       /\ at' = IF found THEN "INIT" ELSE "menu"
  /\ slipped' = (slipped \/ ~Got("my_game_list"))
  /\ rx' = Consumed("main")
  /\ UNCHANGED <<wire, listener, torn, serverVars, board, retries, requests, sent>>

\* request_board, on entry and whenever the board is wanted.
RequestBoard ==
  /\ at = "INIT" \/ (at = "IDLE" /\ wanted)
  /\ Sends("get_board") /\ rx' = Calls("main")
  /\ at' = "WAITING_BOARD" /\ wanted' = FALSE /\ retries' = 0
  /\ UNCHANGED <<wire, listener, torn, serverVars, board, known, pipe, slipped>>

\* Mutant: the request is sent again with every retry.
RetryRequest ==
  /\ at = "WAITING_BOARD" /\ Returned("main")
  /\ rx["main"].err = "timeout" /\ retries < MaxRetries
  /\ Sends("get_board") /\ retries' = retries + 1 /\ rx' = Calls("main")
  /\ UNCHANGED <<wire, listener, torn, serverVars, at, board, wanted, known, pipe, slipped>>

\* receive_board waits again when nothing came, so many times, and then play
\* mode asks again.
RetryBoard ==
  /\ at = "WAITING_BOARD" /\ Returned("main")
  /\ rx["main"].err = "timeout" /\ retries < MaxRetries
  /\ retries' = retries + 1 /\ rx' = Calls("main")
  /\ UNCHANGED <<wire, listener, torn, serverVars, at, board, wanted, known, pipe, requests, slipped, sent>>

\* Neither is a message of another type the answer; it is dropped.
AskAgain ==
  /\ at = "WAITING_BOARD" /\ Returned("main") /\ ~Got("board_state")
  /\ rx["main"].err = "timeout" => retries = MaxRetries
  /\ at' = "INIT" /\ wanted' = TRUE /\ slipped' = TRUE
  /\ rx' = Consumed("main")
  /\ UNCHANGED <<wire, listener, torn, serverVars, board, retries, known, pipe, requests, sent>>

\* The board is shown, or the game is over or gone.
ShowBoard ==
  /\ at = "WAITING_BOARD" /\ Got("board_state")
  /\ \E b \in Board :
       /\ rx["main"].msg.data \in {b, Garbage}
       /\ board' = b
       /\ at' = CASE b.phase = "gone"     -> "menu"
                  [] b.phase = "finished" -> "GAME_OVER"
                  [] b.phase = "playing"  -> "IDLE"
       /\ known' = (known /\ b.phase # "gone")
  /\ rx' = Consumed("main")
  /\ UNCHANGED <<wire, listener, torn, serverVars, wanted, retries, pipe, requests, slipped, sent>>

\* Mutant: the pipe is drained and the board is not asked for.
WakeWithoutBoard ==
  /\ at = "IDLE" /\ ~wanted /\ pipe
  /\ pipe' = FALSE
  /\ UNCHANGED <<linkVars, serverVars, requests, sent, mainVars>>

\* The pipe is found and drained, and the board is wanted.
Wake ==
  /\ Polling /\ pipe
  /\ ClearNotifications /\ wanted' = TRUE
  /\ at' = IF at = "MOVE_SENT" THEN "INIT" ELSE "IDLE"
  /\ UNCHANGED <<linkVars, serverVars, board, retries, known, requests, slipped, sent>>

\* Mutant: the user may choose again, on the board that is shown.
MoveTimesOutToIdle ==
  /\ at = "MOVE_SENT" /\ ~pipe
  /\ at' = "IDLE"
  /\ UNCHANGED <<linkVars, serverVars, board, wanted, retries, known, pipe, requests, slipped, sent>>

\* Five seconds after a move nothing has come: the board is asked for.
MoveTimesOut ==
  /\ Polling /\ at = "MOVE_SENT" /\ ~pipe
  /\ at' = "INIT" /\ wanted' = TRUE
  /\ UNCHANGED <<linkVars, serverVars, board, retries, known, pipe, requests, slipped, sent>>

\* handle_user_input: a pit with seeds, when the board shown says so.
PlayMove ==
  /\ Polling /\ at = "IDLE" /\ board.turn = "me"
  /\ Sends("play_move")
  /\ at' = "MOVE_SENT"
  /\ UNCHANGED <<linkVars, serverVars, board, wanted, retries, known, pipe, slipped>>

\* 'm', or an answer to the offer of a rematch; the game is removed either way.
Leave ==
  /\ Polling \/ at = "GAME_OVER"
  /\ at' = "menu" /\ known' = FALSE
  /\ UNCHANGED <<linkVars, serverVars, board, wanted, retries, pipe, requests, slipped, sent>>

\* 'y': a challenge is sent, and nobody waits for the acknowledgement.
Rematch ==
  /\ at = "GAME_OVER"
  /\ Sends("challenge")
  /\ at' = "menu" /\ known' = FALSE /\ slipped' = TRUE
  /\ UNCHANGED <<linkVars, serverVars, board, wanted, retries, pipe>>

\* handle_notification_message, as far as play mode is concerned.
Notified ==
  \E m \in {rx["listener"].msg} :
    /\ Handles(m)
    /\ IF m.type = "move_result" THEN NotifyTurn ELSE UNCHANGED pipe
    /\ UNCHANGED <<mainVars, serverVars, requests, sent>>

-----------------------------------------------------------------------------
(* The server.                                                              *)

Idle == reply = {} /\ "me" \notin moving

\* game_manager_play_move, where a move is accepted: it passes the turn or wins.
\* A game that is over can be played on until it is removed.
Played(seat) ==
  /\ game.turn = seat /\ game.phase # "gone"
  /\ game.moves < MaxMoves
  /\ \/ game.phase = "playing" /\ game' = [game EXCEPT !.moves = @ + 1, !.turn = Other(seat)]
     \/ game' = [game EXCEPT !.moves = @ + 1, !.phase = "finished"]

\* Any move may be refused, by the feeding rule when it is in turn: the client has
\* only seen that the pit is not empty.  A refusal is a result as well.
HandlePlayMove ==
  /\ Idle /\ requests # <<>> /\ Head(requests) = "play_move"
  /\ Played("me") \/ UNCHANGED game
  /\ requests' = Tail(requests) /\ moving' = moving \union {"me"}
  /\ UNCHANGED <<linkVars, mainVars, pipe, reply, sent>>

OpponentMoves ==
  /\ "opponent" \notin moving
  /\ Played("opponent")
  /\ moving' = moving \union {"opponent"}
  /\ UNCHANGED <<linkVars, mainVars, pipe, requests, reply, sent>>

\* The thread that won removes the game before it tells.
RemoveGame ==
  /\ game.phase = "finished"
  /\ game' = [game EXCEPT !.phase = "gone"]
  /\ UNCHANGED <<linkVars, mainVars, pipe, requests, moving, reply, sent>>

\* Mutant: the player is not told of the moves of the opponent.
TellMover(seat) ==
  /\ seat \in moving /\ (game.phase = "finished" => game.turn # seat)
  /\ moving' = moving \ {seat}
  /\ wire' = IF seat = "me" THEN Sent(Message("move_result", Nothing)) ELSE wire
  /\ UNCHANGED <<rx, listener, torn, mainVars, pipe, requests, game, reply, sent>>

\* The result goes to the player who moved, and to the other one if the game is
\* still found.
TellMove(seat) ==
  /\ seat \in moving /\ (game.phase = "finished" => game.turn # seat)
  /\ moving' = moving \ {seat}
  /\ wire' = IF seat = "me" \/ game.phase # "gone"
             THEN Sent(Message("move_result", Nothing)) ELSE wire
  /\ UNCHANGED <<rx, listener, torn, mainVars, pipe, requests, game, reply, sent>>

\* handle_get_board copies the board under the lock of the game, and sends it
\* later; handle_list_my_games and handle_challenge have but one answer here.
Copy ==
  /\ Idle /\ requests # <<>> /\ Head(requests) \in {"get_board", "list", "challenge"}
  /\ reply' = {CASE Head(requests) = "get_board" -> Message("board_state", game)
                 [] Head(requests) = "list"      -> Message("my_game_list", game)
                 [] Head(requests) = "challenge" -> Message("ack", Nothing)}
  /\ requests' = Tail(requests)
  /\ UNCHANGED <<linkVars, mainVars, pipe, game, moving, sent>>

Answer ==
  \E m \in reply :
    /\ wire' = Sent(m) /\ reply' = {}
    /\ UNCHANGED <<rx, listener, torn, mainVars, pipe, requests, game, moving, sent>>

-----------------------------------------------------------------------------

Rest == UNCHANGED <<mainVars, serverVars, pipe, requests, sent>>

Main ==
  \/ Receive("main") /\ Rest
  \/ Listed \/ RequestBoard \/ RetryBoard \/ AskAgain \/ ShowBoard \/ Wake
Listener == (Receive("listener") /\ Rest) \/ (Listen /\ Rest) \/ Notified
PlayerThread   == HandlePlayMove \/ Copy \/ Answer \/ TellMove("me")
OpponentThread == TellMove("opponent")

\* What the user and the opponent do, or time does.
Users == Enter \/ List \/ PlayMove \/ Leave \/ Rematch \/ OpponentMoves \/ MoveTimesOut

Next == Main \/ Listener \/ PlayerThread \/ OpponentThread \/ RemoveGame \/ Users

\* The threads of the client and of the server are scheduled; users need not act.
Fairness ==
  /\ WF_vars(Main) /\ WF_vars(Listener)
  /\ WF_vars(PlayerThread) /\ WF_vars(OpponentThread) /\ WF_vars(RemoveGame)
Spec == Init /\ [][Next]_vars /\ Fairness

-----------------------------------------------------------------------------
(* Properties.                                                              *)

\* The type invariant.
TypeOK ==
  /\ LinkTypeOK
  /\ at \in {"menu", "listing", "INIT", "WAITING_BOARD", "IDLE", "MOVE_SENT", "GAME_OVER"}
  /\ board \in Board /\ game \in Board
  /\ wanted \in BOOLEAN /\ known \in BOOLEAN /\ pipe \in BOOLEAN
  /\ retries \in 0 .. MaxRetries /\ moving \subseteq Seat
  /\ Cardinality(reply) <= 1 /\ sent \in 0 .. MaxRequests

\* The main thread got every answer, each thread read whole messages, and the
\* listener has not ended over the header it did not see.
Clean == ~slipped /\ ~torn /\ listener.at # "ended"

Answers == {"board_state", "my_game_list", "ack"}

\* As long as no answer was given up, none is left for a later request to take
\* for its own, in whatever order the listener and the main thread read.
NoAnswerIsLeft ==
  Clean /\ at \notin {"WAITING_BOARD", "listing"} =>
    /\ reply = {} /\ \A i \in DOMAIN requests : requests[i] = "play_move"
    /\ \A m \in Heads : m.type \notin Answers

\* The wake-up is not lost: a board that is shown while the game has gone on has
\* a notice of that move under way, at the server, in the connection, with the
\* listener or in the pipe, though both threads drain what the other fills.
Announced ==
  \/ moving # {} \/ pipe \/ wanted
  \/ \E m \in Heads : m.type = "move_result"
  \/ listener.at = "recv" /\ rx["listener"].msg.type = "move_result"
RefreshIsComing ==
  Clean /\ at = "IDLE" /\ game.phase = "playing" /\ board # game => Announced

\* A move that is sent finds its turn: the board it was chosen on is still the
\* board of the game, also after a move was given up as lost.
MovesAreInTurn ==
  Clean => \A i \in DOMAIN requests : requests[i] = "play_move" =>
             game.turn = "me" /\ game.phase = "playing" /\ board = game

\* Boards are shown in the order of the moves, also when answers are taken for
\* one another, as long as messages are whole.
BoardsGoForward == [][~torn' => board'.moves >= board.moves]_board

\* A player who looks at the board, or waits for one, sees the move that was made
\* without doing anything: the notice of it wakes the main thread, and the board
\* that it asks for ends the wait, though the listener reads the same connection.
BoardCatchesUp ==
  \A n \in 1 .. MaxMoves :
    (at \in {"IDLE", "WAITING_BOARD"} /\ game.moves = n /\ game.phase = "playing")
      ~> \/ board.moves >= n \/ at = "menu" \/ ~Clean
         \/ sent = MaxRequests /\ at # "WAITING_BOARD"
=============================================================================
