--------------------------------- MODULE Menu ----------------------------------
(***************************************************************************)
(* A player in the menu and in spectator mode: the loop of                 *)
(* src/src/client/main.c, the commands of client_basic_commands.c,         *)
(* client_spectator_mode.c, the pending challenges and the spectator state *)
(* of client_state.c, over the connection of ClientLink.                   *)
(*                                                                         *)
(* The server is the thread of this player, which answers its requests in  *)
(* order, and the threads of other players, which challenge it, answer its *)
(* challenge, and send it notices when they like.  A handler's change and  *)
(* its answer are one step: Challenges.tla and Connections.tla have what   *)
(* happens in between.                                                     *)
(*                                                                         *)
(* at         the command whose answer is waited for, or the prompt        *)
(* pending    the pending challenges of the client, in their slots         *)
(* spectator  g_spectator_state: active, board_updated                     *)
(* requests   what the client has sent and the server not yet read         *)
(* open       challenges to this player that are open at the server        *)
(* asked      this player has a challenge open                             *)
(* watching   this player is a spectator of the game at the server         *)
(* sent       requests so far: the last one has this number                *)
(* others     challenges and notices of the others so far                  *)
(* left       requests without an answer read: nobody waits for it, or the *)
(*            command went on (history)                                    *)
(* lost       a command went on without its answer (history)               *)
(* crossed    the main thread has read a notification (history)            *)
(* answered   challenges whose entry an answer took off the list (history) *)
(* full       challenges that found no room in the list (history)          *)
(* dropped    challenges whose notice the main thread took for its answer  *)
(*            and dropped (history)                                        *)
(***************************************************************************)
EXTENDS ClientLink, FiniteSets

CONSTANTS
  Commands,       \* the commands of the menu that are used
  Challenger,     \* players who may challenge this one
  NoChallenge,
  MaxPending,     \* MAX_PENDING_CHALLENGES, 10 in the program
  Notice,         \* the notices that others send
  MaxRequests,    \* bound of the model: requests the user makes
  MaxChallenges,  \* bound of the model: challenges to this player
  MaxNotices      \* bound of the model: notices

\* A challenge, and what the data of a message says: the request that it answers,
\* or the challenge that it is about.
ChallengeRecord == [id : 1 .. MaxChallenges, from : Challenger]
Data == [for : Nat, challenge : ChallengeRecord \union {NoChallenge}]

\* The others send no answers: MSG_PLAYER_STATS, of the types that the listener
\* takes, is sent by handle_get_player_stats alone.
ASSUME MenuAssumption ==
  /\ MaxPending \in Nat /\ MaxRequests \in Nat /\ MaxChallenges \in Nat /\ MaxNotices \in Nat
  /\ NoChallenge \notin ChallengeRecord
  /\ {Nothing, Garbage} \intersect Data = {}
  /\ Notice \subseteq {"move_result", "spectator_joined", "game_over", "chat_message"}
  /\ Commands \subseteq
       {"list_players", "challenge", "set_bio", "get_bio", "get_stats", "list_friends",
        "add_friend", "remove_friend", "list_saved", "view_saved", "list_games", "spectate"}

VARIABLES at, pending, spectator, requests, open, asked, watching, sent, others,
          left, lost, crossed, answered, full, dropped

clientVars  == <<at, pending, spectator>>
serverVars  == <<open, asked, watching, others>>
historyVars == <<left, lost, crossed, answered, full, dropped>>
vars == <<linkVars, clientVars, serverVars, historyVars, requests, sent>>

\* What each command takes for its answer.  set_bio has no room for a payload,
\* and does not look at the type; a list of saved games is also what view_saved
\* starts with.
PlayerCommands  == [list_players |-> {"player_list"}, challenge |-> {"ack", "error"}]
RecordCommands  == [set_bio |-> {"ack", "junk"}, get_bio |-> {"bio_response"},
                    get_stats |-> {"player_stats"}]
FriendCommands  == [list_friends |-> {"friend_list"}, add_friend |-> {"ack", "error"},
                    remove_friend |-> {"ack", "error"}]
SavedCommands   == [list_saved |-> {"saved_game_list"}, view_saved |-> {"saved_game_state"}]
WatchCommands   == [list_games |-> {"game_list"}, spectate |-> {"spectate_ack"},
                    first_board |-> {"board_state"}]
RefreshCommands == [refresh |-> {"board_state"}]
Waiting ==
  DOMAIN PlayerCommands \union DOMAIN RecordCommands \union DOMAIN FriendCommands
    \union DOMAIN SavedCommands \union DOMAIN WatchCommands \union DOMAIN RefreshCommands
Expected ==
  [command \in Waiting |->
     CASE command \in DOMAIN PlayerCommands  -> PlayerCommands[command]
       [] command \in DOMAIN RecordCommands  -> RecordCommands[command]
       [] command \in DOMAIN FriendCommands  -> FriendCommands[command]
       [] command \in DOMAIN SavedCommands   -> SavedCommands[command]
       [] command \in DOMAIN WatchCommands   -> WatchCommands[command]
       [] command \in DOMAIN RefreshCommands -> RefreshCommands[command]]

\* What the server answers.  A list too long for serialize_message is not sent at
\* all, except that of the players, which is an error.
PlayerReplies == [list_players |-> {"player_list", "error"}, challenge |-> {"ack", "error"}]
RecordReplies == [set_bio |-> {"ack"}, get_bio |-> {"bio_response"},
                  get_stats |-> {"player_stats"}]
FriendReplies == [list_friends |-> {"friend_list"}, add_friend |-> {"ack", "error"},
                  remove_friend |-> {"ack", "error"}]
SavedReplies  == [list_saved |-> {"saved_game_list", "error", "nothing"},
                  view_saved |-> {"saved_game_state", "error"}]
WatchReplies  == [list_games |-> {"game_list", "nothing"}, spectate |-> {"spectate_ack", "error"},
                  stop_spectate |-> {"ack", "error"}]
BoardReplies  == [get_board |-> {"board_state"}]
AnswerReplies == [accept |-> {"game_started", "error"}, decline |-> {"ack", "error"}]
ChatReplies   == [chat |-> {"chat_message", "error"}]
Requests ==
  DOMAIN PlayerReplies \union DOMAIN RecordReplies \union DOMAIN FriendReplies
    \union DOMAIN SavedReplies \union DOMAIN WatchReplies \union DOMAIN BoardReplies
    \union DOMAIN AnswerReplies \union DOMAIN ChatReplies
Replies ==
  [type \in Requests |->
     CASE type \in DOMAIN PlayerReplies -> PlayerReplies[type]
       [] type \in DOMAIN RecordReplies -> RecordReplies[type]
       [] type \in DOMAIN FriendReplies -> FriendReplies[type]
       [] type \in DOMAIN SavedReplies  -> SavedReplies[type]
       [] type \in DOMAIN WatchReplies  -> WatchReplies[type]
       [] type \in DOMAIN BoardReplies  -> BoardReplies[type]
       [] type \in DOMAIN AnswerReplies -> AnswerReplies[type]
       [] type \in DOMAIN ChatReplies   -> ChatReplies[type]]

Slot     == 1 .. MaxPending
Used     == {s \in Slot : pending[s] # NoChallenge}
Listed   == {pending[s] : s \in Used}
About(c) == [for |-> 0, challenge |-> c]

\* The request that a message answers; 0 if nobody asked for it.
For(m) == IF m.data \in {Nothing, Garbage} THEN 0 ELSE m.data.for

Init ==
  /\ LinkInit
  /\ at = "menu" /\ pending = [s \in Slot |-> NoChallenge]
  /\ spectator = [active |-> FALSE, updated |-> FALSE]
  /\ requests = <<>> /\ open = {} /\ asked = FALSE /\ watching = FALSE
  /\ sent = 0 /\ others = [challenges |-> 0, notices |-> 0]
  /\ left = {} /\ lost = FALSE /\ crossed = FALSE /\ answered = {}
  /\ full = {} /\ dropped = {}

-----------------------------------------------------------------------------
(* The main thread.                                                         *)

\* session_send_message.
Sends(type, c) ==
  /\ requests' = Append(requests, [type |-> type, n |-> sent + 1, challenge |-> c])
  /\ sent' = sent + 1

\* A command sends its request and waits for the answer.
Asks(type, wait) ==
  /\ Sends(type, NoChallenge)
  /\ at' = wait /\ rx' = Calls("main")

\* The prompts from which the user can make a request.
AskedAt(command) ==
  CASE command = "view_saved" -> "choose_saved"
    [] command = "spectate"   -> "choose_game"
    [] OTHER                  -> "menu"

Ask(command) ==
  /\ sent < MaxRequests
  /\ at = AskedAt(command)
  /\ Asks(command, command)
  /\ UNCHANGED <<wire, listener, torn, pending, spectator, serverVars, historyVars>>

\* Nothing is chosen from a list.
Cancel ==
  /\ at \in {"choose_saved", "choose_game"}
  /\ at' = "menu"
  /\ UNCHANGED <<linkVars, pending, spectator, serverVars, historyVars, requests, sent>>

\* cmd_chat: what the server says to it is for the listener.
Chat ==
  /\ at = "menu" /\ sent < MaxRequests
  /\ Sends("chat", NoChallenge) /\ left' = left \union {sent'}
  /\ UNCHANGED <<linkVars, clientVars, serverVars, lost, crossed, answered, full, dropped>>

\* Mutant: the last slot is not used.
AddToAllButLast(c) ==
  LET free == {s \in Slot \ Used : \A u \in Slot \ Used : s <= u} \ {MaxPending}
  IN  /\ pending' = [s \in Slot |-> IF s \in free /\ c \notin Listed THEN c ELSE pending[s]]
      /\ full' = IF Used = Slot THEN full \union {c} ELSE full

\* pending_challenges_add: a challenge already there is not added again, and one
\* that finds the list full is dropped.
Add(c) ==
  LET free == {s \in Slot \ Used : \A u \in Slot \ Used : s <= u}
  IN  /\ pending' = [s \in Slot |-> IF s \in free /\ c \notin Listed THEN c ELSE pending[s]]
      /\ full' = IF free = {} THEN full \union {c} ELSE full

\* pending_challenges_remove takes the name of the challenger, and removes the
\* first of its challenges.
FirstOf(c) ==
  {s \in Used : /\ pending[s].from = c.from
                /\ \A u \in Used : pending[u].from = c.from => s <= u}

\* cmd_view_challenges sends the answer to a challenge of the list, and waits for
\* no acknowledgment.
Respond(type, c) ==
  /\ at = "menu" /\ sent < MaxRequests
  /\ Sends(type, c) /\ left' = left \union {sent'}
  /\ pending' = [s \in Slot |-> IF s \in FirstOf(c) THEN NoChallenge ELSE pending[s]]
  /\ answered' = answered \union {pending[s] : s \in FirstOf(c)}
  /\ UNCHANGED <<linkVars, at, spectator, serverVars, lost, crossed, full, dropped>>

\* Mutant: anything is an answer.
GotAny == Returned("main") /\ rx["main"].err = "success"

\* The answer that is waited for, by its type.
Got ==
  /\ Returned("main") /\ rx["main"].err = "success"
  /\ rx["main"].msg.type \in Expected[at]

\* The request that was answered: with a timeout a header may have come.
Taken == IF rx["main"].err = "success" THEN For(rx["main"].msg) ELSE 0

IsNotice == rx["main"].err = "success" /\ rx["main"].msg.type \in NotificationType

\* The challenge that is told to the main thread, which waits for something else.
Drops ==
  {m.data.challenge :
     m \in {n \in {rx["main"].msg} :
             IsNotice /\ n.type = "challenge_received" /\ n.data # Garbage}}

\* The last request is left, unless what came is its answer.
Settles ==
  /\ left' = left \union ({sent} \ {Taken})
  /\ lost' = (lost \/ Taken # sent)
  /\ crossed' = (crossed \/ IsNotice)
  /\ dropped' = dropped \union Drops

After(command) ==
  CASE command = "list_saved"               -> {"menu", "choose_saved"}
    [] command = "list_games"               -> {"menu", "choose_game"}
    [] command \in {"first_board", "refresh"} -> {"spectating"}
    [] OTHER                                -> {"menu"}

Show ==
  /\ at \in Waiting \ {"spectate"} /\ Got
  /\ Settles
  /\ at' \in After(at) /\ rx' = Consumed("main")
  /\ UNCHANGED <<wire, listener, torn, pending, spectator, serverVars, answered, full,
                 requests, sent>>

\* spectator_state_set, and the first board is asked for.
StartWatching ==
  /\ at = "spectate" /\ Got
  /\ Settles
  /\ spectator' = [active |-> TRUE, updated |-> FALSE]
  /\ Asks("get_board", "first_board")
  /\ UNCHANGED <<wire, listener, torn, pending, serverVars, answered, full>>

\* An error, nothing in time, or a message of another type, which is dropped.
Failed == Returned("main") /\ ~Got

GiveUp ==
  /\ at \in Waiting \ {"refresh"} /\ Failed
  /\ at = "first_board" => ~IsNotice
  /\ Settles
  /\ at' = "menu" /\ rx' = Consumed("main")
  /\ UNCHANGED <<wire, listener, torn, pending, spectator, serverVars, answered, full,
                 requests, sent>>

\* Before the first board, the main thread handles notices itself.
Meanwhile ==
  LET m == rx["main"].msg
  IN  /\ at = "first_board" /\ Failed /\ IsNotice
      /\ IF m.type = "challenge_received" /\ m.data # Garbage
         THEN Add(m.data.challenge) ELSE UNCHANGED <<pending, full>>
      /\ spectator' = [spectator EXCEPT !.updated = @ \/ m.type = "move_result"]
      /\ rx' = Calls("main")
      /\ crossed' = TRUE
      /\ UNCHANGED <<wire, listener, torn, at, serverVars, left, lost, answered, dropped,
                     requests, sent>>

\* 'r'.
Refresh ==
  /\ at = "spectating" /\ sent < MaxRequests
  /\ Asks("get_board", "refresh")
  /\ UNCHANGED <<wire, listener, torn, pending, spectator, serverVars, historyVars>>

\* spectator_state_check_and_clear_updated.
AutoRefresh ==
  /\ at = "spectating" /\ spectator.updated
  /\ spectator' = [spectator EXCEPT !.updated = FALSE]
  /\ Asks("get_board", "refresh")
  /\ UNCHANGED <<wire, listener, torn, pending, serverVars, historyVars>>

\* A board that does not come in time is waited for no more.
KeepWatching ==
  /\ at = "refresh" /\ Failed /\ rx["main"].err = "timeout"
  /\ Settles
  /\ at' = "spectating" /\ rx' = Consumed("main")
  /\ UNCHANGED <<wire, listener, torn, pending, spectator, serverVars, answered, full,
                 requests, sent>>

\* Mutant: the server is not told.
StopSilently ==
  /\ spectator' = [active |-> FALSE, updated |-> FALSE]
  /\ at' = "menu"
  /\ UNCHANGED <<requests, sent>>

StopWatching ==
  /\ Sends("stop_spectate", NoChallenge)
  /\ spectator' = [active |-> FALSE, updated |-> FALSE]
  /\ at' = "menu"

\* 'q', or the end of the input.
Leave ==
  /\ at = "spectating"
  /\ StopWatching /\ left' = left \union {sent'}
  /\ UNCHANGED <<linkVars, pending, serverVars, lost, crossed, answered, full, dropped>>

Expelled ==
  /\ at = "refresh" /\ Failed /\ rx["main"].err # "timeout"
  /\ StopWatching
  /\ left' = left \union {sent'} \union ({sent} \ {Taken})
  /\ lost' = (lost \/ Taken # sent)
  /\ crossed' = (crossed \/ IsNotice)
  /\ dropped' = dropped \union Drops
  /\ rx' = Consumed("main")
  /\ UNCHANGED <<wire, listener, torn, pending, serverVars, answered, full>>

\* MSG_DISCONNECT; the listener sees that the client is no longer running.
Disconnect ==
  /\ at = "menu"
  /\ at' = "ended"
  /\ UNCHANGED <<linkVars, pending, spectator, serverVars, historyVars, requests, sent>>

-----------------------------------------------------------------------------
(* The listener.                                                            *)

\* handle_notification_message.
Notified ==
  \E m \in {rx["listener"].msg} :
    /\ Handles(m)
    /\ IF m.type = "challenge_received" /\ m.data # Garbage
       THEN Add(m.data.challenge) ELSE UNCHANGED <<pending, full>>
    /\ spectator' = [spectator EXCEPT !.updated = @ \/ (m.type = "move_result" /\ spectator.active)]
    /\ UNCHANGED <<at, serverVars, left, lost, crossed, answered, dropped, requests, sent>>

-----------------------------------------------------------------------------
(* The server.                                                              *)

\* The answers that the state of the server leaves to a request.
CanReply(r, reply) ==
  /\ r.type = "stop_spectate" => (reply = "ack" <=> watching)
  /\ r.type = "decline"       => (reply = "ack" <=> r.challenge \in open)
  /\ reply = "game_started"   => r.challenge \in open

\* A handler, and its answer.  An accepted challenge that makes no game stays
\* open, unless it is the challenger who is gone.
Handle ==
  /\ requests # <<>>
  /\ LET r == Head(requests)
     IN  \E reply \in Replies[r.type] :
           /\ CanReply(r, reply)
           /\ wire' = IF reply = "nothing" THEN wire
                      ELSE Sent(Message(reply, [for |-> r.n, challenge |-> NoChallenge]))
           /\ \/ open' = open \ {r.challenge}
              \/ r.type = "accept" /\ reply = "error" /\ open' = open
           /\ asked' = (asked \/ (r.type = "challenge" /\ reply = "ack"))
           /\ watching' = IF r.type = "stop_spectate" THEN FALSE
                          ELSE watching \/ reply = "spectate_ack"
  /\ requests' = Tail(requests)
  /\ UNCHANGED <<rx, listener, torn, clientVars, historyVars, others, sent>>

Pushes(type, data) == wire' = Sent(Message(type, data))

\* handle_challenge, by the thread of the challenger.
Challenged(p) ==
  LET c == [id |-> others.challenges + 1, from |-> p]
  IN  /\ others.challenges < MaxChallenges
      /\ \A d \in open : d.from # p
      /\ others' = [others EXCEPT !.challenges = @ + 1]
      /\ open' = open \union {c}
      /\ Pushes("challenge_received", About(c))
      /\ UNCHANGED <<rx, listener, torn, clientVars, historyVars, asked, watching, requests, sent>>

\* matchmaking_cleanup_expired_challenges.
Expire ==
  /\ \E c \in open : open' = open \ {c}
  /\ UNCHANGED <<linkVars, clientVars, historyVars, asked, watching, others, requests, sent>>

\* The challenge of this player is accepted, or it is declined, which is told by
\* an error nobody asked for; or it expires.
Answered ==
  /\ asked /\ asked' = FALSE
  /\ \/ \E type \in {"game_started", "error"} : Pushes(type, About(NoChallenge))
     \/ UNCHANGED wire
  /\ UNCHANGED <<rx, listener, torn, clientVars, historyVars, open, watching, others, requests, sent>>

\* A chat message, the result of a move in a game of this player, a spectator.
Push ==
  /\ others.notices < MaxNotices
  /\ others' = [others EXCEPT !.notices = @ + 1]
  /\ \E type \in Notice : Pushes(type, About(NoChallenge))
  /\ UNCHANGED <<rx, listener, torn, clientVars, historyVars, open, asked, watching,
                 requests, sent>>

\* The game that is watched ends, and its slot is free.
GameEnds ==
  /\ watching /\ watching' = FALSE
  /\ UNCHANGED <<linkVars, clientVars, historyVars, open, asked, others, requests, sent>>

-----------------------------------------------------------------------------

Rest == UNCHANGED <<clientVars, serverVars, historyVars, requests, sent>>

Main ==
  \/ Receive("main") /\ Rest
  \/ Show \/ StartWatching \/ GiveUp \/ Meanwhile \/ AutoRefresh \/ KeepWatching \/ Expelled
Listener ==
  /\ at # "ended"
  /\ (Receive("listener") /\ Rest) \/ (Listen /\ Rest) \/ Notified

User ==
  \/ \E command \in Commands : Ask(command)
  \/ \E c \in Listed : Respond("accept", c) \/ Respond("decline", c)
  \/ Cancel \/ Chat \/ Refresh \/ Leave \/ Disconnect

Others == (\E p \in Challenger : Challenged(p)) \/ Expire \/ Answered \/ Push \/ GameEnds

Next == Main \/ Listener \/ Handle \/ User \/ Others

\* The threads of the client and of the server are scheduled; users need not act.
Spec == Init /\ [][Next]_vars /\ WF_vars(Main) /\ WF_vars(Listener) /\ WF_vars(Handle)

-----------------------------------------------------------------------------
(* Properties.                                                              *)

\* The type invariant.
TypeOK ==
  /\ LinkTypeOK
  /\ at \in Waiting \union {"menu", "choose_saved", "choose_game", "spectating", "ended"}
  /\ at \in Waiting <=> rx["main"].at # "off"
  /\ pending \in [Slot -> ChallengeRecord \union {NoChallenge}]
  /\ spectator \in [active : BOOLEAN, updated : BOOLEAN]
  /\ open \union answered \union full \union dropped \subseteq ChallengeRecord
  /\ left \subseteq 1 .. sent

\* A command shows the answer to its own request, whatever the others send and
\* whichever thread reads it.  What it may take for its answer besides is the
\* acknowledgment or the error of a request that nobody waited for, the error that
\* tells of a declined challenge, and, once a command went on without its answer,
\* that answer.
AnswersAreOwn ==
  [][Show \/ StartWatching =>
       \/ torn \/ Taken = sent
       \/ Taken \in left /\ (lost \/ rx["main"].msg.type \in {"ack", "error"})
       \/ Taken = 0 /\ rx["main"].msg.type = "error"]_vars

\* A user who is back in the menu is no longer a spectator at the server once the
\* server has read what the client sent, as long as every answer came.
MenuIsNotWatching ==
  ~lost /\ ~torn /\ at \in {"menu", "ended"} /\ requests = <<>> => ~watching /\ ~spectator.active

\* A message of challenge c is in the connection, or in the hands of a thread.
Underway(c) ==
  \E m \in Heads \union {rx[t].msg : t \in {u \in Thread : rx[u].at \in {"payload", "done"}}} :
    m.type = "challenge_received" /\ m.data = About(c)

\* An open challenge can be answered as long as messages are whole: it is in the
\* list, or a message of it is on its way there, or it went in one of three ways.
\* Its entry was taken off by an answer, to it or to another challenge of the same
\* player; it found the list full; or the main thread, waiting for an answer, read
\* the notice in place of the listener and dropped it.
OpenIsListed ==
  ~torn =>
    \A c \in open : c \in Listed \/ Underway(c) \/ c \in answered \union full \union dropped

\* A command comes back to its prompt, though the listener may read from under
\* it, unless the server does not answer it or its answer is a notification.
CommandsEnd ==
  LET inCommand == at \in Waiting \ {"get_stats", "list_saved", "list_games"}
  IN  inCommand ~> (~inCommand \/ lost \/ torn \/ crossed)

\* USER_SEQUENCES.md: "Notifications processed in background without user
\* interaction".  A notice of a challenge does not stay unread while the listener
\* runs.
NoticesAreHandled ==
  LET unread == \E m \in Heads : m.type = "challenge_received"
  IN  unread ~> (~unread \/ listener.at = "ended" \/ at = "ended")
=============================================================================
