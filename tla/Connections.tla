----------------------------- MODULE Connections -----------------------------
(***************************************************************************)
(* The life of a connection: the accept loop of src/src/server/main.c, the *)
(* thread of each client (client_handler in server_connection.c), the      *)
(* registry of sessions (server_registry.c) and the spectators that a      *)
(* client leaves behind in the table of games (game_manager.c).            *)
(*                                                                         *)
(* A pseudo is free again as soon as the thread of its client has cleared  *)
(* the connected flag, and the same pseudo may then come back while that   *)
(* thread goes on through the games: two threads of one pseudo.            *)
(*                                                                         *)
(* players, connected   the table of players, as in Matchmaking.tla        *)
(* registry    the threads whose session is registered; which slot each    *)
(*             has is left out, a look-up being by pseudo                  *)
(* main        the accept loop: where it is, and for which client          *)
(* thread      where each thread is, whose it is, the index of its loop    *)
(*             over the games, and the slot it points to                   *)
(* games, game_count   the table of games, with their spectators           *)
(* unserved    clients let in whose thread could not be started (history)  *)
(* removed     whether a game has left the table (history)                 *)
(***************************************************************************)
EXTENDS Integers, FiniteSets

CONSTANTS
  Player, NoPlayer,
  Known,           \* the players storage_load_players finds at the start
  MaxPlayers,      \* MAX_PLAYERS, 100 in the program
  MaxSessions,     \* MAX_SESSIONS, 100
  MaxGames,        \* MAX_GAMES, 100
  MaxSpectators,   \* MAX_SPECTATORS_PER_GAME
  GameId,          \* ids of games
  MayWatch,        \* <<p, id>> when p plays in the game or has a friend who does
  Thread           \* bound of the model: the threads there can be at a time

ASSUME ConnectionsAssumption ==
  /\ NoPlayer \notin Player /\ Known \subseteq Player /\ IsFiniteSet(Known)
  /\ Cardinality(Known) <= MaxPlayers
  /\ MaxPlayers \in Nat /\ MaxSessions \in Nat /\ MaxPlayers <= MaxSessions
  /\ MaxGames \in Nat /\ MaxSpectators \in Nat

VARIABLES players, connected, registry, main, thread, games, game_count,
          unserved, removed

playerVars  == <<players, connected>>
gameVars    == <<games, game_count, removed>>
vars        == <<playerVars, registry, main, thread, gameVars, unserved>>

Slot   == 1 .. MaxGames
Active == {s \in Slot : games[s].active}

\* game_manager_find_game: the first slot that has a game of this id, if any.
Lookup(id) ==
  {s \in Active : games[s].id = id /\ \A t \in Active : games[t].id = id => s <= t}

Unused == [at |-> "unused", who |-> NoPlayer, i |-> 0, slot |-> 0]

Init ==
  /\ players = Known /\ connected = {} /\ registry = {}
  /\ main = [at |-> "accept", who |-> NoPlayer]
  /\ thread = [t \in Thread |-> Unused]
  /\ games = [s \in Slot |-> [active |-> FALSE, id |-> "", spectators |-> {}]]
  /\ game_count = 0
  /\ unserved = {} /\ removed = FALSE

GoTo(t, step) == thread' = [thread EXCEPT ![t].at = step]
End(t)        == thread' = [thread EXCEPT ![t] = Unused]

-----------------------------------------------------------------------------
(* The accept loop.                                                         *)

\* Mutant: nobody looks whether the pseudo is in use.
AcceptAnyone(p) ==
  /\ main.at = "accept"
  /\ main' = [at |-> "add", who |-> p]
  /\ UNCHANGED <<playerVars, registry, thread, gameVars, unserved>>

\* A client says MSG_CONNECT with a pseudo that is not in use.  One that is in
\* use is refused, and the loop goes on.
Accept(p) ==
  /\ main.at = "accept"
  /\ p \notin connected
  /\ main' = [at |-> "add", who |-> p]
  /\ UNCHANGED <<playerVars, registry, thread, gameVars, unserved>>

\* matchmaking_add_player; a client there is no room for is closed.
Add ==
  LET p == main.who
  IN  /\ main.at = "add"
      /\ IF p \in players \/ Cardinality(players) < MaxPlayers
         THEN /\ players' = players \union {p}
              /\ connected' = connected \union {p}
              /\ main' = [main EXCEPT !.at = "spawn"]
         ELSE /\ main' = [at |-> "accept", who |-> NoPlayer]
              /\ UNCHANGED playerVars
      /\ UNCHANGED <<registry, thread, gameVars, unserved>>

\* The client has its acknowledgment, and gets its thread ...
Spawn(t) ==
  /\ main.at = "spawn"
  /\ thread[t].at = "unused"
  /\ thread' = [thread EXCEPT ![t] = [Unused EXCEPT !.at = "start", !.who = main.who]]
  /\ main' = [at |-> "accept", who |-> NoPlayer]
  /\ UNCHANGED <<playerVars, registry, gameVars, unserved>>

\* ... or pthread_create fails, and all that is done is to close the connection.
SpawnFails ==
  /\ main.at = "spawn"
  /\ unserved' = unserved \union {main.who}
  /\ main' = [at |-> "accept", who |-> NoPlayer]
  /\ UNCHANGED <<playerVars, registry, thread, gameVars>>

-----------------------------------------------------------------------------
(* A client's thread.                                                       *)

\* A thread that finds the registry full ends, and leaves the flag set.
Register(t) ==
  /\ thread[t].at = "start"
  /\ IF Cardinality(registry) < MaxSessions
     THEN registry' = registry \union {t} /\ GoTo(t, "serving")
     ELSE End(t) /\ UNCHANGED registry
  /\ UNCHANGED <<playerVars, main, gameVars, unserved>>

\* handle_spectate_game and handle_stop_spectate: the game is found with no lock
\* held, and the slot is changed under its lock, whatever it holds by then.
Seek(t, id, step) ==
  /\ thread[t].at = "serving"
  /\ <<thread[t].who, id>> \in MayWatch
  /\ \E s \in Lookup(id) :
       thread' = [thread EXCEPT ![t].at = step, ![t].slot = s]
  /\ UNCHANGED <<playerVars, registry, main, gameVars, unserved>>

Serve(t) == thread' = [thread EXCEPT ![t].at = "serving", ![t].slot = 0]

AddSpectator(t) ==
  LET s == thread[t].slot
  IN  /\ thread[t].at = "spectate"
      /\ games' = IF Cardinality(games[s].spectators) < MaxSpectators
                  THEN [games EXCEPT ![s].spectators = @ \union {thread[t].who}]
                  ELSE games
      /\ Serve(t)
      /\ UNCHANGED <<playerVars, registry, main, game_count, removed, unserved>>

RemoveSpectator(t) ==
  games' = [games EXCEPT ![thread[t].slot].spectators = @ \ {thread[t].who}]

StopSpectate(t) ==
  /\ thread[t].at = "stop"
  /\ RemoveSpectator(t)
  /\ Serve(t)
  /\ UNCHANGED <<playerVars, registry, main, game_count, removed, unserved>>

\* Mutant: the session stays in the registry.
LeaveRegistered(t) ==
  /\ thread[t].at = "serving"
  /\ GoTo(t, "remove_player")
  /\ UNCHANGED <<playerVars, registry, main, gameVars, unserved>>

\* The client disconnects, is found to be gone, or sends what cannot be read.
Leave(t) ==
  /\ thread[t].at = "serving"
  /\ GoTo(t, "unregister")
  /\ UNCHANGED <<playerVars, registry, main, gameVars, unserved>>

Unregister(t) ==
  /\ thread[t].at = "unregister"
  /\ registry' = registry \ {t}
  /\ GoTo(t, "remove_player")
  /\ UNCHANGED <<playerVars, main, gameVars, unserved>>

\* Mutant: the flag is not cleared.
RemoveNobody(t) ==
  /\ thread[t].at = "remove_player"
  /\ thread' = [thread EXCEPT ![t].at = "test", ![t].i = 1]
  /\ UNCHANGED <<playerVars, registry, main, gameVars, unserved>>

RemovePlayer(t) ==
  /\ thread[t].at = "remove_player"
  /\ connected' = connected \ {thread[t].who}
  /\ thread' = [thread EXCEPT ![t].at = "test", ![t].i = 1]
  /\ UNCHANGED <<players, registry, main, gameVars, unserved>>

\* Mutant: the loop takes one turn less.
TestOneLess(t) ==
  /\ thread[t].at = "test"
  /\ IF thread[t].i < game_count THEN GoTo(t, "look") ELSE End(t)
  /\ UNCHANGED <<playerVars, registry, main, gameVars, unserved>>

\* The loop over the games is bounded by their number, not by the table.
Test(t) ==
  /\ thread[t].at = "test"
  /\ IF thread[t].i <= game_count THEN GoTo(t, "look") ELSE End(t)
  /\ UNCHANGED <<playerVars, registry, main, gameVars, unserved>>

Advance(t) == thread' = [thread EXCEPT ![t].at = "test", ![t].i = @ + 1, ![t].slot = 0]

Look(t) ==
  LET game == games[thread[t].i]
  IN  /\ thread[t].at = "look"
      /\ \/ ~game.active /\ Advance(t)
         \/ /\ game.active
            /\ \E s \in Lookup(game.id) :
                 thread' = [thread EXCEPT ![t].at = "unspectate", ![t].slot = s]
      /\ UNCHANGED <<playerVars, registry, main, gameVars, unserved>>

Unspectate(t) ==
  /\ thread[t].at = "unspectate"
  /\ RemoveSpectator(t)
  /\ Advance(t)
  /\ UNCHANGED <<playerVars, registry, main, game_count, removed, unserved>>

-----------------------------------------------------------------------------
(* The games come and go: a challenge is accepted, a game is over.          *)

CreateGame(id) ==
  /\ game_count < MaxGames
  /\ \E s \in Slot \ Active :
       /\ \A u \in Slot \ Active : s <= u
       /\ games' = [games EXCEPT ![s] = [active |-> TRUE, id |-> id, spectators |-> {}]]
  /\ game_count' = game_count + 1
  /\ UNCHANGED <<playerVars, registry, main, thread, unserved, removed>>

RemoveGame(id) ==
  /\ \E s \in Lookup(id) : games' = [games EXCEPT ![s].active = FALSE]
  /\ game_count' = game_count - 1
  /\ removed' = TRUE
  /\ UNCHANGED <<playerVars, registry, main, thread, unserved>>

-----------------------------------------------------------------------------

Next ==
  \/ \E p \in Player : Accept(p)
  \/ Add \/ SpawnFails
  \/ \E t \in Thread :
       \/ Spawn(t) \/ Register(t) \/ AddSpectator(t) \/ StopSpectate(t) \/ Leave(t)
       \/ Unregister(t) \/ RemovePlayer(t) \/ Test(t) \/ Look(t) \/ Unspectate(t)
  \/ \E t \in Thread, id \in GameId : Seek(t, id, "spectate") \/ Seek(t, id, "stop")
  \/ \E id \in GameId : CreateGame(id) \/ RemoveGame(id)

Spec == Init /\ [][Next]_vars

-----------------------------------------------------------------------------
(* Properties.                                                              *)

Leaving == {"unregister", "remove_player", "test", "look", "unspectate"}
At == {"unused", "start", "serving", "spectate", "stop"} \union Leaving

\* The type invariant: a thread looks at a slot of the table at every step.
TypeOK ==
  /\ players \subseteq Player /\ connected \subseteq players /\ registry \subseteq Thread
  /\ main.at \in {"accept", "add", "spawn"}
  /\ main.at # "accept" => main.who \in Player
  /\ \A t \in Thread :
       /\ thread[t].at \in At
       /\ thread[t].at # "unused" => thread[t].who \in Player
       /\ thread[t].at = "look" => thread[t].i \in Slot
       /\ thread[t].at \in {"spectate", "stop", "unspectate"} => thread[t].slot \in Slot
  /\ \A s \in Slot : /\ games[s].spectators \subseteq Player
                     /\ Cardinality(games[s].spectators) <= MaxSpectators
  /\ game_count = Cardinality(Active)

\* A pseudo stands for one session.  The look-up of a session by pseudo, which
\* every notification goes through, can find one client only, though two threads
\* of the pseudo may be running and the check of main.c is made with no lock
\* between it and the entry in the table.
OneSessionEach ==
  \A t \in registry :
    /\ thread[t].who \in connected
    /\ \A u \in registry : thread[t].who = thread[u].who => t = u

\* A client that was told it is welcome is never turned away by a full registry:
\* a session is out of it before its pseudo is free.
NobodyTurnedAway ==
  \A t \in Thread : thread[t].at = "start" => Cardinality(registry) < MaxSessions

\* A pseudo is in use as long as a thread is there to serve its client, or the
\* main thread is about to start it, or could not, which nothing mends.
ConnectedIsServed ==
  connected =
    unserved \union {thread[t].who : t \in {u \in Thread : thread[u].at \in
                       {"start", "serving", "spectate", "stop", "unregister", "remove_player"}}}
             \union (IF main.at = "spawn" THEN {main.who} ELSE {})

Gone(p) == \A t \in Thread : thread[t].who # p

\* As long as no game leaves the table and no two have one id, a player whose
\* threads have ended is no spectator, however its sessions overlapped and
\* whatever games were created meanwhile.
SpectatorsLeave ==
  ~removed /\ (\A s, u \in Active : games[s].id = games[u].id => s = u) =>
    \A p \in Player : Gone(p) => \A s \in Active : p \notin games[s].spectators
=============================================================================
