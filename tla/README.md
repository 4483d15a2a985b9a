# A TLA+ model of the Awale game

This directory specifies the Awale game in this repository: the rules of the
game, the tables the threads of the server share and the handlers that run over
them, the chat that is sent under a lock of theirs, what the server keeps on
disk, and a client with its two threads and its connection, in play mode, in
spectator mode and in the menu. TLC checks small instances of the specifications; the TLA+
proof system checks theorems about them for every value of their constants.

Paths below are those of the repository (`src/server/main.c`); line numbers are
of the commit the model was written from.

## The system

A server process listens on one port. Its main thread accepts a connection,
reads the pseudo of the client, enters it in the table of players and starts a
thread, which reads the client's messages and runs a handler for each. A handler
works on tables all threads share (players and challenges under one mutex, games
under one mutex and one each, sessions under one mutex) and sends to its own
client and to others. The client has two threads of its own over one connection:
one for the menus, one that listens for notifications.

| Component | State | Operations | Hard about it | What makes it correct |
|---|---|---|---|---|
| Board and rules (`src/game/rules.c`, `board.c`) | pits, scores, player to move, state, winner | validate and execute a move, sow, capture, find the end | laps, capture chains, the feeding rule, an end decided in three places | no seed is lost, one winner for good, a move is left or the game is over |
| Matchmaking (`src/server/matchmaking.c`) | players, challenge slots, a count, times and counters of limits, statistics, bios, friends | add and remove players, create, find, remove, expire challenges | a count kept by hand, slots that are used again, limits at their boundary | the count is right, a challenge is found by id or by pair |
| Challenge handlers (`server_handlers.c`) | pointers to slots and sessions on the stack of a thread | challenge, accept, decline | pointers kept after unlock, two threads on one challenge, expiry in between | answered once, for its own players, and they are told the truth |
| Game manager (`game_manager.c`) and play handler | game slots, a count, spectators; a copied board and two pointers on the stack | create, find, play, remove; count the result; notify | five look-ups of one game in one handler, with moves in between | a game leaves when it is won and only then, its result is counted once, both players know |
| Connections (`main.c`, `server_connection.c`, `server_registry.c`) | who is connected, registered sessions, threads | accept, check the pseudo, add, start a thread, register, serve, clean up | check and add in two steps, a pseudo that comes back before its old thread has ended | one session for each pseudo, nobody locked out, nothing left behind |
| Spectators (`game_manager.c`, handlers) | lists in the game slots | join, leave, clean up | the clean-up loops over a sparse table | a player who has left spectates nothing |
| Storage (`storage.c`) | `games.dat`, one `player_<pseudo>.dat` for each player | save, load, delete, list | threads that append to one file, crashes half-way, writes that fail | what was saved is there after a restart |
| Friends, bios, chat (handlers, `matchmaking.c`) | lists and texts in the table of players | set, add, remove, send | what is saved with what | what was acknowledged is kept |
| Session and framing (`src/network/`) | a stream of bytes in each direction | send, receive with timeout, peek | a timeout inside a message, two senders | messages come out whole and in order |
| Client (`src/client/`) | pending challenges, active games, a turn flag and a pipe | listen, wait for a turn, menus | two threads reading one connection, a wake-up that is lost | every notification is handled, no answer is taken by the wrong thread |

## The modules

| Module | Models | Abstract specification | Proofs |
|---|---|---|---|
| `Awale` | one game: `board.c`, `rules.c` | `SeedRace`, `TurnGame` | `AwaleProofs` |
| `AwaleLoops` | the same game, a step for each turn of a loop and each frame of the stack | `Awale` | `AwaleProofs` |
| `Matchmaking` | the players, challenges and limits of `matchmaking.c` | `ChallengeBook` | `ChallengesProofs` |
| `Challenges` | the challenge handlers over `Matchmaking`, and the accept loop that expires challenges | `ChallengeBook` | `ChallengesProofs` |
| `Games` | the table of games and `handle_play_move` | `TurnGame` in each slot | `GamesProofs` |
| `Connections` | the accept loop, the client threads, the registry, the spectators | | `ConnectionsProofs` |
| `Chat` | `handle_send_chat` over the registry and sessions of bounded room, and the end of a session | | `ChatProofs` |
| `Storage` | `games.dat` and the files of the players, with the callers that save | | `StorageProofs` |
| `ClientLink` | the stream of messages to a client, read by two threads; the listener | | `PlayModeProofs`, `MenuProofs` |
| `PlayMode` | play mode over `ClientLink`, the pipe that wakes it, and what the server sends | `TurnGame` for its game | `PlayModeProofs` |
| `Menu` | the commands of the menu, the pending challenges and spectator mode over `ClientLink`, and what the server answers | | `MenuProofs` |
| `MCMatchmaking`, `MCChallenges`, `MCGames`, `MCConnections`, `MCChat`, `MCStorage`, `MCMenu` | constants and constraints of the instances TLC checks | | |

`Challenges` extends `Matchmaking` and uses its actions as the locked parts of
its own; `ChallengesProofs` has theorems about the tables alone and, on them, about
the handlers. `Games` and `PlayMode`
replace the board of `Awale` by whose turn it is and who has won. That they may is
what `TurnGame` is for: it is the game without its board, `Awale` implements it
(`ImplementsTurns`), and so do the slots of `Games`, one game after another
(`GamesTakeTurns`), and the game of `PlayMode` (`GameTakesTurns`). `Games` also knows
that a first move does not win (`moved`), as it takes no seed
(`FirstMoveTakesNothing`). `Connections` has its own, smaller table of games (ids and spectators),
and `Chat` its own threads, of which only the session, the message and the place
in the loop are left. The instances would not be checked in reasonable time were
they put together; what they share is small and named alike.

`PlayMode` and `Menu` extend `ClientLink` with the main thread of the client in
one of its modes and as much of the server as answers it. In `PlayMode` that is a
thread that takes the player's requests in order, the thread of the opponent, and
the game they play, of which a move number, the turn and the phase are left. In
`Menu` it is the thread that answers, and the threads of others who challenge
this player, answer its challenge or send it notices; the change a handler makes
and its answer are one step there, since `Challenges` and `Connections` have what
happens in between. `Storage` has its own games and players too: what is saved,
by whom, and under which lock.

### How state and actions correspond to the code

*A step is what happens under one lock.* Every function of `matchmaking.c` holds
`mm->lock` from its first read to its last write and is one action. A handler is
a sequence of such functions: in `Challenges`, `Games` and `Connections` a
variable (`op[p]`, `thread[t]`) says where each thread is and which pointers,
copies and ids it has on its stack, and each access to shared state is an action.
Slots are kept as slots wherever the code keeps pointers to them, with what a
freed slot still holds, since the code reads it.

*Values.* Pseudos, ids and threads are model values or small sets. The id of a
game is the pair of its players, as `game_manager_generate_id` makes it. Seconds
are numbers. Messages are left out where they only say what a handler did; where
a property is about who is told what, they are a set (`told`).

*Closed forms.* `Sow`, `LastPit` and `CapturedPits` say what the loops of
`rules.c` compute, `CheckWinCondition` gives `DIVERGES` where the C function
calls itself for ever, and a call is one step. `AwaleLoops` has the functions as they
run: `call` is the one that is running with its locals, and `SowSeed`, `CapturePit` and
`CheckRecurs` are one seed, one pit and one frame of a stack that has room for
`StackDepth` of them. Its steps are those of `Awale` or leave the board alone
(`FormsAgree`), and a simulated move ends with what `Awale` says it takes.

*The connection of a client.* A message is a header and a payload, sent at once
and read by one `read()` after another, by either thread: `wire` holds its parts,
each as long as a header. `rx[t]` is where thread `t` is in
`session_recv_message_timeout`. A payload read as a header gives a length that is
too long (`ERR_SERIALIZATION`) or a type nobody sends (`Junk`); a payload of parts
of two messages is `Garbage`, and may say anything. Timeouts may happen whenever
there is nothing to read. `slipped` and `torn` remember that an answer was given
up and that a thread read parts of another's message; most properties are stated
for behaviours in which neither has happened (`Clean`), since nothing in the code
mends either, and `BoardsGoForward` for those that lost no part.

*The menu.* A command is the prompt it comes from (`at`), the requests it sends
and the types it takes for an answer (`Expected`); what the server may answer is
`Replies`. Requests are numbered, and an answer carries the number of its request,
which no code looks at and the properties do. `left` has the requests whose answer
nobody has read when the client goes on, by its design or by a timeout; `lost`
says that a command went on without its own answer, `crossed` that the main thread
has read a notification, `full` that a challenge found no room in the list, `dropped`
that the main thread read the notice of a challenge while it waited for an answer.
`session_recv_message_timeout` returns `ERR_UNEXPECTED_MESSAGE` for such a notice
(`session.c:229`), and every command but the first board of spectator mode drops it
(`client_basic_commands.c:98`). Each property says which of these it excuses.

*A move in play mode.* A move that the client sends in turn may be refused as well as
played: the client looks only at whether the pit is empty
(`client_play_mode.c:237`), and `rules_validate_move`, whose feeding rule is in
`Awale`, may refuse it. The handler then answers and leaves the game
(`HandlePlayMove` with the game unchanged), and the player chooses again. A finished
board does not stop a move of the player whose turn it is left for, in `Played` as in
`rules_validate_move`, until the game is removed.

*Chat.* A message to a session is `select()` with a timeout of five seconds, then
`send()`, which blocks: the room `select()` saw may have been taken by another
thread in between. A session has room for `Room` messages its client has not read.
A global message goes to the players in the order of the table, with `mm->lock`
held, and to its sender after that.

*Files.* `games.dat` is a sequence of cells, so many to a record. `fwrite` of a
record larger than the buffer of a `FILE` and the `fflush` after it are two writes,
`WriteHead` and `WriteTail`, and the place they go to was found before. Either may
fail part-way, which `storage_save_game` does not look at (`HeadFails`, `TailFails`):
as many cells as were written stay, what is left in the buffer is dropped, and the
handler goes on as after a save. The scan
for the place is one step: what it reads before the end of the file does not
change but by a save of the same game, which the lock of the game excludes. A
write beyond the end leaves a hole. The file of a player is absent, short or
whole; it is emptied by `Open` and filled by `Write`, or replaced by `Fallback`.

*Undefined or lost.* A message to a session that has ended is lost.
`SpawnFails` stands for any failure of `pthread_create`; `AcceptNoRoom` for any
refusal of `game_manager_create_game`, and `Refused` of `Games` for any illegal move.

*Mutants.* A definition whose comment begins with "Mutant" is not part of any
specification. It is the definition after it with a mistake somebody could make
in that code, and the property named in `PROJECT.json` fails with it: that is how
each property is known to say something about the code.

## The runs

| Run | Instance | Shows |
|---|---|---|
| `awale` | all games on 2 x 3 pits of 2 seeds, seed by seed, a stack of 3 frames; 977 864 states with 33 132 boards | the invariants and action properties of `Awale`; the loops and calls implement its rules, these `SeedRace`, so that no seed is lost, and `TurnGame` |
| `awale_crash` | same boards, a step for each call | finding: a game without a winning score ends the server |
| `matchmaking` | 2 players, 3 pairs, 2 slots, all limits run out; 816 000 states | the count, the ids, the rate limit; `ChallengeBook` is implemented |
| `challenges` | 3 players, 1 slot, 2 challenges, 3 seconds; 960 619 states | a challenge is answered once and for its players; declines are limited |
| `games` | 3 players, 2 games, 147 711 states | the count, removal only of won games, results counted, won games have a thread to remove them and leave |
| `games_told` | same | finding: the opponent is not told of the last move |
| `connections` | 2 players, 3 threads, 2 games, 1.36 million states | one session each, room in the registry, no pseudo in use by nobody, no spectator left |
| `chat` | 4 clients, two talk, two leave, room for 1 message, 2 chats; 202 979 states | a global chat sends to live sessions only, in one order for all, and gives its lock back though a client does not read |
| `play_mode` | a header and 2 parts, 1 retry, 2 errors, 2 moves, 4 requests; 712 010 states | no answer left over, no wake-up lost, moves in turn, boards in order, the board catches up |
| `menu` | a header and 1 part, one command of each kind, 4 requests, 3 challenges, 1 notice; 851 497 states | answers go to their commands, spectators leave, how an open challenge can miss the list, commands end, only two readers tear the stream |
| `client_deaf` | 1 request, 1 challenge | finding: an answer nobody waits for keeps all notices from being read |
| `storage` | 2 players, 2 games in one file, 3 creations, two of a crash, a failing write to either kind of file and an edit; 2.49 million states | saved games are kept, how many files a crash cuts, what a restart brings back |

### Bounds, and why they are enough

* Board: with 3 pits on a side and 12 seeds a pit gets 6 and more, so that moves
  go around the board and skip their origin; captures run over one, two and three
  pits, up to a grand slam; all ends occur. The rules refer to the size of the
  board only through `PITS_PER_PLAYER`, and the theorems hold for every size. Of three frames
  of the stack one is the first, one the last and one between; nothing is asked of more.
* Matchmaking: two slots and three pairs fill the table and free a slot before one
  in use. The limits are 1 and 2 seconds and the clock runs 2 more than the start,
  so that each runs out while others do not. `StartTime` is not less than the
  limits, as `time()` is not. One player is known from `players.dat`, one is new.
* Challenges: one slot that is used again is the worst case for pointers; a third
  player makes a wrong one visible. `MaxId` bounds the challenges made.
* Games: two games, in two slots, of two pairs or twice of one pair. Five
  look-ups of three threads interleave in every way. `MCGames` has one player start
  both games: the thread of that player may find one game in a slot and the other
  one there when it moves, which that of an accepter cannot, as it is its own thread
  that puts the second game there.
* Connections: the third thread serves a pseudo that returns while its old thread
  still runs. `MCConnections` declares threads symmetric: no constant names one,
  and nothing in the properties orders them.
* Play mode: two parts of a payload are the least that can be torn in the middle.
  One retry and two errors are enough for each counter to run out and to be reset;
  `MaxMoves` 2 lets both players move, and the opponent move again while the
  first move's result is under way. `MaxRequests` bounds what the client sends: a board,
  a move that is refused, a move and another board.
* Chat: of four clients the first and the last of the table talk, so that each
  sends past the two in the middle, of which one leaves, as does one of those who
  talk; with two chats two threads send at a time. Room for one message makes every
  second one wait.
* Menu: `MCMenu` has one command of each kind (an answer of its own type, an
  acknowledgment or an error, an answer that is a notification, several requests in
  a row); the commands it leaves out differ from one of these only in the name of
  their messages. Two places in the list of challenges can be filled and overfilled,
  by three challenges.
  `FewAtATime` keeps the challenges apart from the requests of a spectator, and
  `WholeMessages` ends a behaviour once a message was torn, after which every
  property but the type excuses it anyhow. `client_deaf` needs one of each only.
* Storage: records of three cells, two of them in the first piece, so that a torn
  head and a torn tail set a record off by different lengths, as in the program
  (4096 of 5584 bytes). Two games of the same two players in opposite order share
  both player files. Three creations let one pair play again; a game is one move,
  so that its save, its result and its removal come once each. The server starts
  with no player, or with the files of two who are friends, so that the one change
  of friends or of a bio that `MaxEdits` allows can add a friend or remove one.
  `TwoEvents` lets two of the crash, the failing writes and the edit happen, except
  that a failing write to `games.dat` comes with a crash or alone: the files of players,
  which the other two are about, are written by other functions and under another lock.
  Players are interchangeable, and no property orders them.

### Fairness

`Games`, `PlayMode`, `Menu` and `Chat` state fairness, of threads only, never of
what a user does.

`Games` has `WF_vars(Handler(p))` for each player. A handler that has begun consists
of steps that do not block for good as long as the locks it takes are given back, and
the operating system schedules the thread. One of these locks is `mm->lock`, for
`matchmaking_update_player_stats`: the fairness of `Games` assumes that no global chat
keeps it for ever in a `send()` without a timeout, which `Chat` has (`Stuck`). Nothing makes a player move, and
`WonGamesEnd` does not need it. Its safety, that a won game has a thread on its way to
remove it, is `WonIsAttended`.

`PlayMode` and `Menu` have weak fairness for the main thread and the listener of the
client and for the threads of the server that answer, each as a whole: the operating
system schedules a thread that can run, and `select` returns at the latest when its
time has run out. In `PlayMode` the five seconds after a move are not fair:
`BoardCatchesUp` holds whether or not anybody types. The main thread and the listener
each keep one loop going, so that weak fairness of one is not met by steps of the
other. `CommandsEnd` excuses commands whose answer may not be sent, or may be read by
the listener, since their timeout is met by `lost`.

`Chat` has weak fairness of what each thread does of its own; clients need not read.
`LockIsFreed` therefore rests on the timeout of `select`, and it excuses `Stuck`, a
thread in a `send()` whose room another thread has taken, which has no timeout. That
each step of the holder brings it nearer to the end of the loop is a theorem.

`Matchmaking`, `Challenges`, `Connections` and `Storage` need no fairness, since
their properties are about safety.

## What is proved

All theorems are checked to the last leaf, from the assumptions named in the modules:
`BoardAssumption`, `StackAssumption`, `MatchmakingAssumption`, `CleanupAssumption`, `GamesAssumption`,
`ConnectionsAssumption`, `ChatAssumption`, `StorageAssumption`, `LinkAssumption`,
`PlayAssumption` and `MenuAssumption`. They say that sizes
are natural numbers, that half of the seeds do not win, that nobody plays against
itself, that the stack has room for a call, that the table of sessions is not smaller than the table of players, that the
name for nobody is not the name of a player or of a game, that nobody is in the table of
players twice (`matchmaking_add_player` looks for the pseudo first), that players and
pairs of them are finitely many, that no file, a file that is cut short and a whole one
are three things, that a player is not a pair of players, that no challenge
is not a challenge, that a payload put
together from two messages is no board and no data of the menu, that the commands are
those of the client, and that a notice to a player in the menu is one of the four that
a server thread sends unasked (`MSG_PLAYER_STATS` is sent by its handler alone).

* `AwaleProofs`. `TypeCorrect` by lemmas about sowing and counting seeds.
  `FeedingRuleLeavesAMove`: among the pits with seeds, either one feeds the
  opponent and is legal, or none does and the rule does not apply to any.
  `CapturesStayAcross`, from `SowGrows` (a pit other than the origin never loses
  by sowing) and the edge of `CapturedPits`. `WinnerKeepsTheTurn` has the
  invariant that makes `WinnerStays` hold: a finished board has a player to move
  whose score has won, so a further move finds the same winner, checked for
  player A first, and player A's score cannot grow on B's move. `BothWinnersAgree` and
  `ImplementsRace` need that no seed is lost or made (`SeedsKept`): sowing numbers the
  seeds in hand, and the pit at a distance gets those whose number leaves that
  remainder (`SowKeepsSeeds`); a capture moves the seeds of a set of pits to a score
  (`CountOfUnion`). Then the score that won is more than the other score and all the
  pits together, and it does not matter to whom `board_get_winner` gives what is left.
  `ImplementsTurns` is the step that `Games` and `PlayMode` take the board away with.
* `AwaleProofs`, of the loops. `LoopsImplementRules` has the refinement `FormsAgree` for
  every board and every depth of the stack. The invariant `CallInv` says what the locals
  are worth at every turn: while seeds are sown, there are `q` laps and a distance `d`
  such that the pits have what the closed form gives for the seeds that have left the
  hand (`Sown`); while pits are taken, those from the last pit back to the current one
  are opposite and had 2 or 3; and a check that has called itself is about a board for
  which `CheckWinCondition` is `DIVERGES`. `SimulationsAgree` follows
  (`LoopsGiveTheForms`), and what holds of `Awale` holds of the loops
  (`LoopsKeepTheRules`). This is the one place where what a loop computes is proved: as a
  state machine, not as a recursive definition.
* `ChallengesProofs`, of the tables of `Matchmaking`. `TypeCorrect`, then `CountIsRight` by the cardinality of
  the slots freed and taken, `ChallengesAreToldApart` (ids are below `next_id`,
  pairs are searched for first), and `ImplementsBook`: taking a slot maps to
  issuing a challenge, freeing some maps to withdrawing them. That the book has
  room needs that the table of slots has, through `OpenIsSmall`. `LimitIsOfTheChallenge`:
  a new challenge dates its own pair, which no other open challenge is of. The lemmas are about
  one call (`Call`: issue, free, enter a player, or a step of the clock), so that
  they hold for whoever makes it.
* `ChallengesProofs`, of the handlers of `Challenges`. Every step of a handler is a call of matchmaking or leaves it
  alone, so `TablesStayRight` and `ServerImplementsBook` carry the theorems above over
  to the server with its handlers in between. `OneAnswer` and `TheRightAnswer` need
  more: a handler keeps a pointer to a slot after the lock is released. An id is heard
  by one player (`Addressed`), whose thread handles one message at a time; so between
  the look-up and the answer the slot holds the challenge that was found, unless it
  expired (`Found`), and the challenge has no answer yet (`Fresh`).
  `DeclinesStayLimited` relates the counters to the history (`Limited`): the table
  counts at least the declines of a pair in the window and dates the last of them, and a
  pair whose challenge is open and unanswered has had fewer than the limit, because it
  was looked at when the challenge was made and a pair has one challenge at a time. A
  counter that starts again is right because all it counted has left the window.
* `GamesProofs`. The count, as in matchmaking. `GamesLeaveWhenWon` is not inductive:
  the thread that removes a game has read that it is over several steps before, from a
  copy. For a pair that plays once the game that is in the table, its result and what
  each thread has copied agree (`SlotOfPair`, `ResultOfPair`, `Copied`, `SeenOver`).
  `ResultsAreInStats` compares sets with counters (`StatsCover`): a result is one of the
  wins of a player when a thread has counted it or its game has left the table, and a step
  adds one result to these at most, with the counter. What a thread counts is right
  because, as long as the game is in the table, the pointer it kept is to that game
  (`Pointed`) and the winner, who keeps the turn, stays (`TurnOfWinner`).
  `SomeoneRemoves` is about the moves that arrive late: a thread has looked up its game
  and moves in another one, that has taken the slot. It would win and then look for the
  game it knows, and nobody would remove the one it won. It cannot: it is in that game
  as player_a at most, since player_b's own thread made it, and with the first move to
  make (`Late`, `Unmoved`), which does not win. `GamesTakeTurns` rests on
  `TurnOfWinner`: a move in a won game, for which the turn is left to its winner,
  changes nothing.
* `ConnectionsProofs`. The inductive invariant `IInv` says who holds a pseudo: one
  thread from its start to the step that clears the flag, or the main thread
  about to start it, or nobody if that failed; and the registry is the set of
  threads between their two steps. `OneSessionEach` alone is not inductive: a
  thread that is about to register has to be known to share its pseudo with no
  other. `RegistryHasRoom` follows by an injection of threads into players.
  `LeaversWatchNothing` counts what the clean-up has gone through: while no game has
  left the table the games are in its first slots, so a loop bounded by the count sees
  them all, and a slot it has passed has the player in it only if a later session of
  the same pseudo went in, which will clean up in turn. `ThreadsStayInTheTable` is the
  bound of that loop.
* `ChatProofs`. `OneGlobalChat`: a thread in the loop over the players holds the lock,
  so there is one. `ChatFindsLiveSessions`: a session found in the registry has not
  begun its cleanup; it may begin it while the message is sent, with the registry
  unlocked, but cannot pass `matchmaking_remove_player` before the lock is free.
  `GlobalsInOrder` has the invariant `Hearing`: what waits for the lock has reached
  nobody, what is in the loop has reached nobody that comes later in the table, and it
  is the last of others that a client has heard. Two clients that hear two messages
  hear the later one last because the first was their last when it came.
  `LockIsHeldForALoop` is the safety of `LockIsFreed`: a natural number (`Ahead`) that no
  step of others changes and every step of the holder brings down.
* `StorageProofs`. `StorageTyped`, and `OneFileForEachFailure`: the set of short files
  grows only where a file is opened for writing (by `OpenIsShort` the file that is
  being written is short), which either is written next or becomes the one of a crash or of a write
  that failed, each of which is counted once. `CrashCostsOneChange`: as long as no write
  fails, the files before the one that is being written have what the table has, the
  others lack one change of one player at most (`ResultsOnDisk`), and who is not in the
  table has no file to load (`UnknownAreNew`). `SavedGamesStay`: the record of a safe
  game is at one place, the first that has its name, where its own thread writes and
  every other writes beyond it or at another multiple of a record (`SafeStay`, `Beside`).
  A game becomes safe only when it was saved alone, so that its place was the first free
  one or its own (`AloneIsFirst`); the thread of another game that looks for a place
  after that does not stop before this one; and the file never shrinks. A write that fails
  leaves the name of the game at its place, or the record that was there (`CutKeepsSaves`).
* `PlayModeProofs`. None of the first three properties is inductive; the invariant has three
  layers. `Framing`: until a thread has read parts of a message of the other's, what is
  on the wire is the rest of the one message that is being read, and whole messages;
  so a payload does not time out half-way and no header is read from a payload. `Flow`:
  the answer to the one request that is waited for is in one place at most (asked for,
  being made, on the wire, in the hand of the main thread), which is
  `NoAnswerLeftOver`. `Fresh`: a board on its way or shown is the game's, or the
  notice of the move since is in the server's thread, on the wire, with the listener or
  in the pipe (`Announced`), or has been taken by the main thread for its answer, which
  it then gives up (`Mistaken`); `RefreshComes` is the case of a board shown. `MovesFindTheirTurn` needs
  both: nobody else may move while it is this player's turn on the board it has.
  All three say what holds until an answer is given up, the stream is torn or the
  listener has ended (`Clean`). `BoardsInOrder` does not need `Clean`, only that the
  stream is not torn: the boards between the game and the screen are in the order of
  their moves (`Ordered`), and no step lets one overtake another (`Forward`).
  `GameTakesTurns` is the refinement of `TurnGame`.

* `MenuProofs`. The layers are those of `PlayModeProofs`: the lemmas about the link are
  stated again for the messages of the menu, of which there are more, and `Framing` is
  the same. `Flow` is about requests with numbers: a request in the queue of the server,
  or the answer to it on the wire or with a thread, is one that was left, or the last
  one while its command waits; of the latter there is one (`One`), and no answer while
  the request is not read (`None`). No step of the readers brings a message (`Drains`).
  With `Told` (what answers no request is of the types that others send) and
  `LeftReplies` (until a command goes on without its answer, what answers a request
  that was left is of the types that nobody waits for)
  `AnswersShown` follows: of those types only an acknowledgment and an error are among
  those that a command takes. `MenuIsNoSpectator` needs, besides, that the server of a spectator who
  does not watch will read a `MSG_STOP_SPECTATE`, or has accepted a command that still
  waits (`Watch`): a command that goes on with the answer to its own request, and is
  back in the menu, was refused. `ChallengesAreListed` is inductive given the types and
  the framing: a message of a challenge leaves the wire into the hands of a thread, and
  the thread either handles it and adds it to the list, if there is room, or is the main
  thread, waiting for an answer, which drops it; that is true of every command, whether
  or not one has gone on without its answer before.

Only model-checked: `WonGamesEnd`, `BoardCatchesUp`, `CommandsEnd` and `LockIsFreed`,
which are liveness and out of reach of the prover; `OnlyReadersTear`, for which the
proof would have to say of every part of the stream whose message it is the rest of,
which is an induction over the stream; and what the runs that expect a
violation refute. Every other property of a run is a theorem, for all
values of the constants, the bounds of the model among them.

## Findings

The runs that expect a violation show where the code does not do what its
comments, documents or tests say; `PROJECT.json` quotes both.

* `awale_crash`: the server dies at the end of a game without a winning score.
* `games_told`: the opponent of the player who made the last move is not told.
* `client_deaf`: after an answer that nobody waits for (to a declined challenge, to a
  chat with a player who is offline) a client hears nothing more until it asks for
  something.

What else came up while modelling, and has no run of its own:

* A capture may leave a game that can neither be played nor ended: the player to move
  has no seed on its side. `RULES.md:35` has such a game end.
* Both threads of a game may count its result (`Copy` may see the opponent's winning
  move, so that `ResultsAreCounted` says "at least").
* The names sent after a challenge was answered are read from a freed slot; old
  challenges stay until somebody connects.
* A player who leaves may stay a spectator of a game in a slot after a free one
  (`SpectatorsLeave` excludes it by `removed`).
* A bio is in memory only until something else saves its player, although
  `USER_SEQUENCES.md:66` shows it saved.
* The list of saved games is empty unless exactly one game was ever saved
  (`ListSavedGames`). Two first moves at one time may leave `games.dat` with half a
  record in the middle, after which no new game can be loaded (the condition on
  places in `SavedGamesAreKept`).
* The statistics come in a message of a notification's type: the listener may take
  the answer, or the main thread a notice the listener had peeked at (`crossed`).
  A decline is told as an error, which many commands take for their own answer
  (excused in `AnswersAreOwn`).
* A command that waits for its answer may read the notice of a challenge in place of the
  listener. `session_recv_message_timeout` gives it `ERR_UNEXPECTED_MESSAGE`
  (`session.c:229`) and the command ends with an error (`client_basic_commands.c:98`);
  the notice is gone, and the challenge, which is open at the server, can neither be
  seen nor answered, although `USER_SEQUENCES.md:197` has notifications processed in the
  background and line 207 has challenges prompted (`dropped`, which `OpenIsListed`
  excuses by name).
* `fwrite` and `fflush` of a record in `games.dat` are not looked at
  (`storage.c:275`, `:282`): a disk that is full leaves half a record, and the move is
  reported as saved.
* Spectators are not sent `MSG_MOVE_RESULT`, for which their client waits to show the
  next board; a list of more than 17 games is larger than a message and not sent.

## Not modelled, and why

Display, logging, the formatting of messages and the calls of sockets have no
state the properties are about; nor has discovery, which is one broadcast and one
answer. The listings of players, games and challenges only read. Undefined behaviour
of dangling pointers to sessions is a lost message here. Shutdown by a signal is left
out. A connection that breaks ends the client and is left out of `PlayMode` and
`Menu`. In `Menu` a request goes from the client to its server thread whole and in
order, and messages to the client are sent in one piece. Nothing in the server deletes
saved games, so neither does `Storage`, and a failure of the operating system (as
against the process) is left out. The handlers `MSG_ACCEPT_CHALLENGE` and
`MSG_DECLINE_CHALLENGE` for clients without ids (no client in the repository sends
either), and functions nothing calls
(`matchmaking_set_player_bio`, the waits on a condition variable in `client_state.c`),
are left out.

## Plan

What is left, in this order.

1. An abstract store for `Storage` (the last save of each game, the last results
   of each player) and an abstract screen for `PlayMode` (a board that is shown is a
   board there was), each as a refinement.
2. The accept loop that reads `MSG_CONNECT` without a timeout, and messages that take
   two writes, with two senders to one session.
3. The old challenge handlers, and the listings bounded by a count.
4. A composition of `Connections` with `Games` for players that leave in the
   middle of a game.
