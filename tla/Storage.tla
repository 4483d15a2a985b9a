------------------------------- MODULE Storage --------------------------------
(***************************************************************************)
(* What the server keeps on disk: src/src/server/storage.c and its callers *)
(* in game_manager.c, matchmaking.c and server_handlers.c.  Every move     *)
(* saves its game in games.dat, every result and change of friends saves   *)
(* all players, each in a file of its own, and a server that starts again  *)
(* loads the players.                                                      *)
(*                                                                         *)
(* A thread that saves a game has the lock of that game only; a thread     *)
(* that saves the players has mm->lock.  A record is larger than the       *)
(* buffer of a FILE, so fwrite and fflush write it in two pieces, each of  *)
(* which may fail part-way.  A crash is one of the process: what it has    *)
(* written stays.                                                          *)
(*                                                                         *)
(* file    the cells of games.dat, a cell being a part of a record         *)
(* exists  games.dat exists                                                *)
(* play    a game: where the thread that plays its move is, which game it  *)
(*         is, counted as they are created, its moves, where its record    *)
(*         goes, and whether its save has been the only one (history)      *)
(* stored  the record that the last complete save of a game wrote (history)*)
(* safe    games of which a save was alone, at a place for a whole record  *)
(*         (history)                                                       *)
(* table   mm->players, in their order                                     *)
(* info    what mm->players has of a player                                *)
(* disk    the file of a player: none, short, or what it holds             *)
(* saver   who has mm->lock to save, the index of the player whose file it *)
(*         writes, and how far                                             *)
(* crashes   counters for the bounds, as are failures, of writes to files  *)
(*           of players, cuts, of writes to games.dat that fail, and edits *)
(***************************************************************************)
EXTENDS Integers, Sequences, FiniteSets, SequencesExt

CONSTANTS
  Player,
  HeadCells, RecordCells, \* cells of the first piece and of a record
  MaxFriends,             \* MAX_FRIENDS, 50 in the program
  Nobody, Nothing,
  NoFile, Short,          \* no file of a player, and one that is cut
  MaxMoves, MaxGames,     \* bounds of the model
  MaxCrashes, MaxFailures, MaxCuts, MaxEdits

ASSUME StorageAssumption ==
  /\ HeadCells \in 1 .. RecordCells - 1 /\ RecordCells \in Nat
  /\ MaxMoves \in Nat \ {0} /\ MaxGames \in Nat /\ MaxFriends \in Nat
  /\ MaxCrashes \in Nat /\ MaxFailures \in Nat /\ MaxCuts \in Nat /\ MaxEdits \in Nat
  /\ IsFiniteSet(Player)
  /\ Nobody \notin Player \union (Player \X Player)
  /\ Player \intersect (Player \X Player) = {}
  /\ Short # NoFile
  /\ {Short, NoFile} \intersect [played : Nat, bio : BOOLEAN, friends : SUBSET Player] = {}

VARIABLES file, exists, play, stored, safe, table, info, disk, saver,
          crashes, failures, cuts, edits
gameVars   == <<file, exists, play, stored, safe>>
playerVars == <<table, info, disk, saver>>
bounds     == <<crashes, failures, cuts, edits>>
vars       == <<gameVars, playerVars, bounds>>

\* game_manager_generate_id: a game is named by its players, in their order.
Game == {g \in Player \X Player : g[1] # g[2]}

Record  == [game : Game, life : 1 .. MaxGames, moves : 1 .. MaxMoves]
Cell(r, n) == [of |-> r, part |-> n]
Hole    == [of |-> Nothing, part |-> 0]
NoPlay  == [at |-> "none", life |-> 0, moves |-> 0, pos |-> 0, alone |-> FALSE]
NewInfo == [played |-> 0, bio |-> FALSE, friends |-> {}]
Free    == [by |-> Nobody, next |-> 1, at |-> "open"]

\* matchmaking_init: no player, or those of the files, who are friends.
Init ==
  \E known \in {{}, Player} :
    LET all == [p \in Player |-> [NewInfo EXCEPT !.friends = known \ {p}]]
    IN  /\ file = <<>> /\ exists = FALSE
        /\ play = [g \in Game |-> NoPlay]
        /\ stored = [g \in Game |-> Nothing] /\ safe = {}
        /\ table \in SetToSeqs(known) /\ info = all
        /\ disk = [p \in Player |-> IF p \in known THEN all[p] ELSE NoFile]
        /\ saver = Free
        /\ crashes = 0 /\ failures = 0 /\ cuts = 0 /\ edits = 0

-----------------------------------------------------------------------------
(* games.dat.                                                               *)

\* Records are read from the start, each as long as a record, up to the first
\* that is cut by the end of the file; a game is found by the name in its head.
Places == {i \in DOMAIN file : i % RecordCells = 1 /\ i + RecordCells - 1 <= Len(file)}
Found(g) == {i \in Places : file[i].part = 1 /\ file[i].of.game = g}
First(places) == CHOOSE i \in places : \A j \in places : i <= j

\* The CRC is right when all cells are of one record.
Whole(i) == \A n \in 1 .. RecordCells : file[i + n - 1] = Cell(file[i].of, n)

\* storage_load_game, the record of the first place or an error; there is no
\* file of a single game to fall back to.
LoadGame(g) ==
  IF Found(g) # {} /\ Whole(First(Found(g))) THEN file[First(Found(g))].of ELSE Nothing

\* handle_list_saved_games: the one name that is not a player's is that of
\* games.dat, which is taken for the file of a single game.
ListSavedGames ==
  IF Len(file) = RecordCells /\ Whole(1) THEN {file[1].of} ELSE {}

Saving(g) == play[g].at \in {"create", "scan", "head", "tail"}
Created == Max({play[g].life : g \in Game})
Goes(g, at) == [play EXCEPT ![g].at = at]

\* The record of the game, and the file with pieces of it from a position on:
\* a write beyond the end leaves a hole.
RecordOf(g) == [game |-> g, life |-> play[g].life, moves |-> play[g].moves]
Put(g, from, to) ==
  LET pos == play[g].pos
      end == pos + to - 1
  IN  [i \in 1 .. (IF end > Len(file) THEN end ELSE Len(file)) |->
         IF i \in pos + from - 1 .. end THEN Cell(RecordOf(g), i - pos + 1)
         ELSE IF i \in DOMAIN file THEN file[i] ELSE Hole]

\* game_manager_create_game, for players who are known.
CreateGame(g) ==
  /\ play[g].at = "none" /\ {g[1], g[2]} \subseteq ToSet(table)
  /\ \E life \in 1 .. MaxGames :
       /\ life = Created + 1
       /\ play' = [play EXCEPT ![g] = [@ EXCEPT !.at = "playing", !.life = life, !.moves = 0]]
  /\ UNCHANGED <<file, exists, stored, safe, playerVars, bounds>>

\* game_manager_play_move: a move is made, and storage_save_game begins with
\* fopen "r+b", which needs a file.
PlayMove(g) ==
  /\ play[g].at = "playing"
  /\ play' = [h \in Game |->
       IF h = g THEN [play[g] EXCEPT !.moves = @ + 1,
                        !.at = IF exists THEN "scan" ELSE "create",
                        !.alone = \A k \in Game \ {g} : ~Saving(k)]
       ELSE [play[h] EXCEPT !.alone = @ /\ ~Saving(h)]]
  /\ UNCHANGED <<file, exists, stored, safe, playerVars, bounds>>

\* fopen "w+b" makes the file, or empties the one that was made meanwhile.
CreateFile(g) ==
  /\ play[g].at = "create"
  /\ file' = <<>> /\ exists' = TRUE
  /\ play' = Goes(g, "scan")
  /\ UNCHANGED <<stored, safe, playerVars, bounds>>

\* Mutant: the record of the game is not looked for.
ScanToEnd(g) ==
  /\ play[g].at = "scan"
  /\ play' = [play EXCEPT ![g].at = "head", ![g].pos = Len(file) + 1]
  /\ UNCHANGED <<file, exists, stored, safe, playerVars, bounds>>

\* The record goes where the game has one, or to where the file ends now.
Scan(g) ==
  /\ play[g].at = "scan"
  /\ \E pos \in Places \union {Len(file) + 1} :
       /\ pos = IF Found(g) # {} THEN First(Found(g)) ELSE Len(file) + 1
       /\ play' = [play EXCEPT ![g].at = "head", ![g].pos = pos]
  /\ UNCHANGED <<file, exists, stored, safe, playerVars, bounds>>

\* The save ends, and whether it wrote the record is not looked at: the next move
\* is waited for, or the result is counted.
Ended(g) ==
  [play EXCEPT ![g] = [@ EXCEPT !.pos = 0, !.alone = FALSE,
     !.at = IF play[g].moves < MaxMoves THEN "playing" ELSE "count1"]]

\* The first n cells of the record are written, and no more.
Cut(g, from, n) ==
  /\ cuts < MaxCuts /\ cuts' = cuts + 1
  /\ file' = IF n < from THEN file ELSE Put(g, from, n)
  /\ stored' = [stored EXCEPT ![g] = IF n = 0 THEN @ ELSE Nothing]
  /\ play' = Ended(g)
  /\ UNCHANGED <<exists, safe, playerVars, crashes, failures, edits>>

\* fwrite writes the whole blocks of the record, or fails, and then nothing is left
\* in the buffer.
WriteHead(g) ==
  /\ play[g].at = "head"
  /\ file' = Put(g, 1, HeadCells)
  /\ play' = Goes(g, "tail")
  /\ UNCHANGED <<exists, stored, safe, playerVars, bounds>>
HeadFails(g) == play[g].at = "head" /\ \E n \in 0 .. HeadCells - 1 : Cut(g, 1, n)

\* fflush writes what is in the buffer, or fails and drops it; then the lock of the
\* game is released.
WriteTail(g) ==
  /\ play[g].at = "tail"
  /\ file' = Put(g, HeadCells + 1, RecordCells)
  /\ stored' = [stored EXCEPT ![g] = RecordOf(g)]
  /\ safe' = IF play[g].alone /\ play[g].pos % RecordCells = 1 THEN safe \union {g} ELSE safe
  /\ play' = Ended(g)
  /\ UNCHANGED <<exists, playerVars, bounds>>
TailFails(g) ==
  play[g].at = "tail" /\ \E n \in HeadCells .. RecordCells - 1 : Cut(g, HeadCells + 1, n)

-----------------------------------------------------------------------------
(* The files of the players.                                                *)

\* Mutant: a player who logs in again gets another entry.
LoginAgain(p) ==
  /\ saver = Free /\ Len(table) < 2 * Cardinality(Player)
  /\ table' = Append(table, p)
  /\ UNCHANGED <<gameVars, info, disk, saver, bounds>>

\* matchmaking_add_player, a player who is not known.
Login(p) ==
  /\ saver = Free /\ p \notin ToSet(table)
  /\ table' = Append(table, p)
  /\ UNCHANGED <<gameVars, info, disk, saver, bounds>>

\* A change is made under mm->lock, which is held while all players are saved.
Saves(who) == saver = Free /\ saver' = [Free EXCEPT !.by = who]

\* handle_play_move: the result is counted for the two players in turn.
CountResult(g) ==
  /\ \E n \in 1 .. 2 :
       /\ play[g].at = (<<"count1", "count2">>)[n]
       /\ info' = [info EXCEPT ![g[n]].played = @ + 1]
  /\ Saves(g)
  /\ UNCHANGED <<gameVars, table, disk, bounds>>

Edit == edits < MaxEdits /\ edits' = edits + 1

\* handle_set_bio writes the table itself and saves nothing.
SetBio(p) ==
  /\ Edit /\ saver = Free /\ p \in ToSet(table)
  /\ info' = [info EXCEPT ![p].bio = TRUE]
  /\ UNCHANGED <<gameVars, table, disk, saver, crashes, failures, cuts>>

\* matchmaking_add_friend and matchmaking_remove_friend.
AddFriend(p, q) ==
  /\ Edit /\ {p, q} \subseteq ToSet(table) /\ p # q
  /\ q \notin info[p].friends /\ Cardinality(info[p].friends) < MaxFriends
  /\ info' = [info EXCEPT ![p].friends = @ \union {q}]
  /\ Saves(p)
  /\ UNCHANGED <<gameVars, table, disk, crashes, failures, cuts>>

RemoveFriend(p, q) ==
  /\ Edit /\ p \in ToSet(table) /\ q \in info[p].friends
  /\ info' = [info EXCEPT ![p].friends = @ \ {q}]
  /\ Saves(p)
  /\ UNCHANGED <<gameVars, table, disk, crashes, failures, cuts>>

\* The caller goes on when mm->lock is released: the game is counted for the
\* other player, or removed.
Release ==
  /\ saver' = Free
  /\ play' = [g \in Game |->
       IF g # saver.by THEN play[g]
       ELSE IF play[g].at = "count1" THEN [play[g] EXCEPT !.at = "count2"]
       ELSE [NoPlay EXCEPT !.life = play[g].life]]

\* Mutant: the loop ends with the first player.
OnlyFirstPlayer == Release

\* The loop of storage_save_players.
NextPlayer ==
  IF saver.next < Len(table)
  THEN saver' = [saver EXCEPT !.next = @ + 1, !.at = "open"] /\ UNCHANGED play
  ELSE Release

Writes(at)     == saver.by # Nobody /\ saver.at = at
Continues(at)  == saver' = [saver EXCEPT !.at = at] /\ UNCHANGED play
Holds(content) == disk' = [disk EXCEPT ![table[saver.next]] = content]
Fails          == failures < MaxFailures /\ failures' = failures + 1
Succeeds       == UNCHANGED failures
RestOfSave == UNCHANGED <<file, exists, stored, safe, table, info, crashes, cuts, edits>>

\* Mutant: the files are opened before the first is written.
OpenEvery ==
  /\ Writes("open")
  /\ disk' = [p \in Player |-> IF p \in ToSet(table) /\ saver.next = 1 THEN Short ELSE disk[p]]
  /\ Continues("write")
  /\ Succeeds /\ RestOfSave

\* atomic_write: fopen "wb" empties the file, or fails and leaves it.
Open ==
  /\ Writes("open")
  /\ \/ Holds(Short) /\ Continues("write") /\ Succeeds
     \/ UNCHANGED disk /\ Continues("fallback") /\ Fails
  /\ RestOfSave

\* fwrite writes a piece, and fclose the rest, and nobody asks whether fclose did;
\* when fwrite fails, there is a fallback.
Write ==
  /\ Writes("write")
  /\ \/ Holds(info[table[saver.next]]) /\ NextPlayer /\ Succeeds
     \/ UNCHANGED disk /\ NextPlayer /\ Fails
     \/ UNCHANGED disk /\ Continues("fallback") /\ Fails
  /\ RestOfSave

\* mkstemp, write and rename; storage_save_players ends with an error of it,
\* which nobody looks at.
Fallback ==
  /\ Writes("fallback")
  /\ \/ Holds(info[table[saver.next]]) /\ NextPlayer /\ Succeeds
     \/ UNCHANGED disk /\ Release /\ Fails
  /\ RestOfSave

-----------------------------------------------------------------------------

\* The process ends and main starts again: matchmaking_init has storage_load_players
\* add each player whose file is whole, in the order of the directory; no game
\* is loaded.
Restart ==
  /\ crashes < MaxCrashes /\ crashes' = crashes + 1
  /\ LET loaded == {p \in Player : disk[p] \notin {NoFile, Short}}
     IN  /\ table' \in SetToSeqs(loaded)
         /\ info' = [p \in Player |-> IF p \in loaded THEN disk[p] ELSE NewInfo]
  /\ saver' = Free
  /\ play' = [g \in Game |-> [NoPlay EXCEPT !.life = play[g].life]]
  /\ stored' = [g \in Game |-> IF play[g].at = "tail" THEN Nothing ELSE stored[g]]
  /\ UNCHANGED <<file, exists, safe, disk, failures, cuts, edits>>

Next ==
  \/ \E g \in Game :
       CreateGame(g) \/ PlayMove(g) \/ CreateFile(g) \/ Scan(g) \/ WriteHead(g)
       \/ HeadFails(g) \/ WriteTail(g) \/ TailFails(g) \/ CountResult(g)
  \/ \E p \in Player : Login(p) \/ SetBio(p)
  \/ \E p, q \in Player : AddFriend(p, q) \/ RemoveFriend(p, q)
  \/ Open \/ Write \/ Fallback
  \/ Restart

Spec == Init /\ [][Next]_vars

-----------------------------------------------------------------------------
(* Properties.                                                              *)

\* The type invariant.
TypeOK ==
  /\ \A i \in DOMAIN file :
       file[i] = Hole \/ (file[i].of \in Record /\ file[i].part \in 1 .. RecordCells)
  /\ exists \in BOOLEAN
  /\ play \in [Game -> [at : {"none", "playing", "create", "scan", "head", "tail", "count1", "count2"},
                        life : 0 .. MaxGames, moves : 0 .. MaxMoves, pos : Nat, alone : BOOLEAN]]
  /\ stored \in [Game -> Record \union {Nothing}] /\ safe \subseteq Game
  /\ IsInjective(table) /\ ToSet(table) \subseteq Player
  /\ info \in [Player -> [played : Nat, bio : BOOLEAN, friends : SUBSET Player]]
  /\ \A p \in Player : disk[p] \in {NoFile, Short} \/ info[p].played >= disk[p].played
  /\ saver.by \in Game \union Player \union {Nobody} /\ saver.next \in 1 .. Len(table) + 1
  /\ saver.at \in {"open", "write", "fallback"}

\* A game that was once saved while no other game was, at a place for a whole
\* record, is found with its last saved move ever after: saves of other games may
\* overlap with its own, or fail part-way, and a crash or a write that fails in a
\* save of its own only hides it until the next one.
\* And what the server lists is what it shows.
SavedGamesAreKept ==
  /\ \A g \in safe : play[g].at # "tail" /\ stored[g] # Nothing => LoadGame(g) = stored[g]
  /\ \A r \in ListSavedGames : LoadGame(r.game) = r

\* A crash or a write that fails makes at most one file of a player short, though
\* every save rewrites the files of all.
ShortFilesAreCounted ==
  Cardinality({p \in Player : disk[p] = Short})
    <= crashes + failures + (IF saver.at = "write" THEN 1 ELSE 0)

\* A server that starts again has the results and the friends of all players who
\* were known, as long as no write failed for good: if a save was going on, a
\* player may lose the change it was for, or all if the player's file was cut.
ResultsSurvive ==
  [][crashes' # crashes /\ failures = 0 =>
       \A p \in ToSet(table) :
         \/ info'[p].played = info[p].played /\ info'[p].friends = info[p].friends
         \/ /\ saver # Free
            /\ \/ disk[p] = Short /\ p = table[saver.next]
               \/ info[p].played - info'[p].played
                    + Cardinality(info[p].friends \union info'[p].friends)
                    - Cardinality(info[p].friends \intersect info'[p].friends) = 1]_vars
=============================================================================
