---------------------------- MODULE StorageProofs -----------------------------
(***************************************************************************)
(* Theorems about Storage.tla, for any number of players, games, moves,    *)
(* crashes and failing writes: its types, that a crash or a failing write  *)
(* makes at most one file of a player short, that a crash costs no more    *)
(* than the change that is being saved, and that a game is kept once a     *)
(* save of it was the only one.                                            *)
(*                                                                         *)
(* The argument for the second: a file is short from fopen to fwrite, and  *)
(* the one file of which this is so is that of the player whose turn it is *)
(* in storage_save_players, as long as mm->lock is held.  A save that goes *)
(* wrong in between leaves it short and is counted.                        *)
(*                                                                         *)
(* The third: as long as no write fails, the files before the one that is  *)
(* written have what the table has, and the others lack one change.        *)
(*                                                                         *)
(* The last: a safe game has one place in games.dat, before which no other *)
(* record of it is; its own thread writes there, and every other thread    *)
(* beyond the record or at a place for another record, because places are  *)
(* a record apart and games.dat does not get shorter.                      *)
(***************************************************************************)
EXTENDS Storage, FiniteSetTheorems, WellFoundedInduction, TLAPS

Step  == {"none", "playing", "create", "scan", "head", "tail", "count1", "count2"}
Play  == [at : Step, life : 0 .. MaxGames, moves : 0 .. MaxMoves, pos : Nat, alone : BOOLEAN]
Cells == {Hole} \union [of : Record, part : 1 .. RecordCells]
Info  == [played : Nat, bio : BOOLEAN, friends : SUBSET Player]
Saver == [by : Game \union Player \union {Nobody}, next : Nat, at : {"open", "write", "fallback"}]

\* What a thread has at hand in the middle of a game: its players are known, and
\* what it saves is a record, at a place in the file.
AtWork(g) ==
  /\ play[g].at # "none" => play[g].life >= 1 /\ g[1] \in ToSet(table) /\ g[2] \in ToSet(table)
  /\ play[g].at = "playing" => play[g].moves < MaxMoves
  /\ play[g].at \in {"create", "scan", "head", "tail"} => play[g].moves >= 1
  /\ play[g].at \in {"head", "tail"} => play[g].pos >= 1

\* The save of the players is at a player of the table.
SaverInTable ==
  /\ saver.by = Nobody => saver = Free
  /\ saver # Free => saver.next \in 1 .. Len(table)

FileTypes   == file \in Seq(Cells) /\ exists \in BOOLEAN
PlayTypes   == play \in [Game -> Play] /\ \A g \in Game : AtWork(g)
StoredTypes == stored \in [Game -> Record \union {Nothing}] /\ safe \subseteq Game
TableTypes  == table \in Seq(Player) /\ IsInjective(table)
InfoTypes   == info \in [Player -> Info]
DiskTypes   ==
  /\ disk \in [Player -> Info \union {NoFile, Short}]
  /\ \A p \in Player : disk[p] \in {NoFile, Short} \/ info[p].played >= disk[p].played
SaverTypes  == saver \in Saver /\ SaverInTable
CountTypes  == crashes \in Nat /\ failures \in Nat /\ edits \in Nat
Types ==
  /\ FileTypes /\ PlayTypes /\ StoredTypes
  /\ TableTypes /\ InfoTypes /\ DiskTypes /\ SaverTypes /\ CountTypes

\* The file that is being written is short.
OpenIsShort == saver.at = "write" => disk[table[saver.next]] = Short
IInv == Types /\ OpenIsShort /\ ShortFilesAreCounted

-----------------------------------------------------------------------------
(* The types.                                                               *)

\* What the assumption says of the constants.
LEMMA Sizes ==
  /\ MaxMoves \in Nat /\ MaxMoves >= 1 /\ MaxGames \in Nat
  /\ HeadCells \in Nat /\ RecordCells \in Nat /\ HeadCells >= 1 /\ HeadCells < RecordCells
  BY StorageAssumption

\* The types of the proof are stronger than the ones the run checks.
LEMMA TypesImply == Types => TypeOK
<1> SUFFICES ASSUME Types PROVE TypeOK
  OBVIOUS
<1>1. \A i \in DOMAIN file : file[i] = Hole \/ (file[i].of \in Record /\ file[i].part \in 1 .. RecordCells)
  <2>1. \A i \in DOMAIN file : file[i] \in Cells
    BY DEF Types, FileTypes
  <2>2. QED BY <2>1 DEF Cells
<1>2. ToSet(table) \subseteq Player
  BY DEF Types, TableTypes, ToSet
<1>3. saver.next \in 1 .. Len(table) + 1 /\ saver.at \in {"open", "write", "fallback"}
      /\ saver.by \in Game \union Player \union {Nobody}
  BY DEF Types, SaverTypes, SaverInTable, Saver, TableTypes, Free
<1>4. QED
  BY <1>1, <1>2, <1>3 DEF Types, FileTypes, PlayTypes, StoredTypes, TableTypes, InfoTypes,
     DiskTypes, TypeOK, Play, Step, Info

\* A list of all players of a set, as SetToSeqs gives it.
LEMMA SeqsOfSet ==
  ASSUME NEW S \in SUBSET Player, NEW s \in SetToSeqs(S)
  PROVE  s \in Seq(Player) /\ IsInjective(s)
<1>1. Cardinality(S) \in Nat
  BY StorageAssumption, FS_Subset, FS_CardinalityType
<1>2. s \in [1 .. Cardinality(S) -> S] /\ \A i, j \in 1 .. Cardinality(S) : i # j => s[i] # s[j]
  BY DEF SetToSeqs
<1>3. s \in Seq(S)
  BY <1>1, <1>2
<1>4. s \in Seq(Player)
  BY <1>3
<1>5. QED BY <1>2, <1>4 DEF IsInjective

\* The inductive invariant holds initially.
LEMMA InitTypes == Init => IInv
<1> SUFFICES ASSUME Init PROVE IInv
  OBVIOUS
<1>1. PICK known \in {{}, Player} :
        LET all == [p \in Player |-> [NewInfo EXCEPT !.friends = known \ {p}]]
        IN  table \in SetToSeqs(known) /\ info = all
            /\ disk = [p \in Player |-> IF p \in known THEN all[p] ELSE NoFile]
  BY DEF Init
<1>2. /\ file = <<>> /\ exists = FALSE /\ play = [g \in Game |-> NoPlay]
      /\ stored = [g \in Game |-> Nothing] /\ safe = {}
      /\ saver = Free /\ crashes = 0 /\ failures = 0 /\ edits = 0
  BY DEF Init
<1>3. known \subseteq Player
  BY <1>1
<1>4. \A p \in Player : [NewInfo EXCEPT !.friends = known \ {p}] \in Info
  BY <1>3 DEF NewInfo, Info
<1>5. info \in [Player -> Info] /\ \A p \in Player : disk[p] = info[p] \/ disk[p] = NoFile
  BY <1>1, <1>4
<1>6. disk \in [Player -> Info \union {NoFile, Short}]
  BY <1>1, <1>4
<1>7. TableTypes
  BY <1>1, <1>3, SeqsOfSet DEF TableTypes
<1>8. FileTypes /\ StoredTypes /\ CountTypes
  <2>1. FileTypes
    <3>1. << >> \in Seq(Cells)
      OBVIOUS
    <3>2. exists \in BOOLEAN
      BY <1>2
    <3>3. QED BY <1>2, <3>1, <3>2 DEF FileTypes
  <2>2. StoredTypes
    BY <1>2 DEF StoredTypes
  <2>3. CountTypes
    BY <1>2 DEF CountTypes
  <2>4. QED BY <2>1, <2>2, <2>3
<1>9. PlayTypes
  BY <1>2, Sizes DEF PlayTypes, Play, Step, NoPlay, AtWork
<1>10. SaverTypes /\ saver.at # "write"
  BY <1>2 DEF SaverTypes, Saver, SaverInTable, Free
<1>11. DiskTypes
  <2>1. \A p \in Player : info[p].played \in Nat
    BY <1>5 DEF Info
  <2>2. QED BY <1>5, <1>6, <2>1 DEF DiskTypes
<1>12. \A p \in Player : disk[p] # Short
  <2>1. Short # NoFile /\ Short \notin Info
    BY StorageAssumption DEF Info
  <2>2. QED BY <1>5, <2>1
<1>13. ShortFilesAreCounted
  <2>1. {p \in Player : disk[p] = Short} = {}
    BY <1>12
  <2>2. Cardinality({p \in Player : disk[p] = Short}) = 0
    BY <2>1, FS_EmptySet
  <2>3. QED BY <1>2, <1>10, <2>2 DEF ShortFilesAreCounted
<1>14. QED
  BY <1>5, <1>7, <1>8, <1>9, <1>10, <1>11, <1>13 DEF IInv, Types, InfoTypes, OpenIsShort

-----------------------------------------------------------------------------
(* The steps of a game.                                                     *)

\* What holds of the players is left alone by a step that leaves them alone.
LEMMA PlayersUntouched ==
  ASSUME IInv, UNCHANGED <<playerVars, crashes, failures, edits>>
  PROVE  /\ TableTypes' /\ InfoTypes' /\ DiskTypes' /\ SaverTypes' /\ CountTypes'
         /\ OpenIsShort' /\ ShortFilesAreCounted'
<1>1. /\ table' = table /\ info' = info /\ disk' = disk /\ saver' = saver
      /\ crashes' = crashes /\ failures' = failures /\ edits' = edits
  BY DEF playerVars
<1>2. TableTypes' /\ InfoTypes' /\ DiskTypes' /\ SaverTypes' /\ CountTypes'
  BY <1>1 DEF IInv, Types, TableTypes, InfoTypes, DiskTypes, SaverTypes, CountTypes, SaverInTable
<1>3. OpenIsShort' /\ ShortFilesAreCounted'
  BY <1>1 DEF IInv, OpenIsShort, ShortFilesAreCounted
<1>4. QED BY <1>2, <1>3

\* A step of the thread of one game.
LEMMA OneGame ==
  ASSUME PlayTypes, table' = table, NEW g \in Game, NEW new \in Play,
         play' = [play EXCEPT ![g] = new], AtWork(g)'
  PROVE  PlayTypes'
<1>1. play' \in [Game -> Play]
  BY DEF PlayTypes
<1>2. ASSUME NEW h \in Game, h # g PROVE AtWork(h)'
  <2>1. play'[h] = play[h] /\ AtWork(h)
    BY <1>2 DEF PlayTypes
  <2>2. QED BY <2>1 DEF AtWork
<1>3. QED BY <1>1, <1>2 DEF PlayTypes

\* The parts of the thread of a game.
LEMMA PlayFields ==
  ASSUME PlayTypes, NEW g \in Game
  PROVE  /\ play[g] \in Play /\ AtWork(g)
         /\ play[g].at \in Step /\ play[g].life \in 0 .. MaxGames
         /\ play[g].moves \in 0 .. MaxMoves /\ play[g].pos \in Nat /\ play[g].alone \in BOOLEAN
  BY DEF PlayTypes, Play

\* Creating a game keeps the types.
LEMMA CreateGameTypes ==
  ASSUME IInv, NEW g \in Game, CreateGame(g)
  PROVE  FileTypes' /\ PlayTypes' /\ StoredTypes'
<1>1. FileTypes' /\ StoredTypes' /\ table' = table /\ PlayTypes
  BY DEF IInv, Types, CreateGame, FileTypes, StoredTypes, playerVars
<1>2. PICK life \in 1 .. MaxGames :
        play' = [play EXCEPT ![g] = [@ EXCEPT !.at = "playing", !.life = life, !.moves = 0]]
  BY DEF CreateGame
<1> DEFINE new == [play[g] EXCEPT !.at = "playing", !.life = life, !.moves = 0]
<1>3. /\ new \in Play /\ new.at = "playing" /\ new.life = life /\ new.moves = 0
  <2>1. 0 \in 0 .. MaxMoves /\ life \in 0 .. MaxGames /\ play[g] \in Play
    BY <1>1, PlayFields, Sizes
  <2>2. QED BY <2>1 DEF Play, Step
<1>4. play' = [play EXCEPT ![g] = new] /\ play'[g] = new
  BY <1>1, <1>2 DEF PlayTypes
<1>5. AtWork(g)'
  <2>1. g[1] \in ToSet(table) /\ g[2] \in ToSet(table) /\ life >= 1
    BY DEF CreateGame
  <2> HIDE DEF new
  <2>2. QED BY <1>1, <1>3, <1>4, <2>1, Sizes DEF AtWork
<1> HIDE DEF new
<1>6. QED BY <1>1, <1>3, <1>4, <1>5, OneGame

\* Playing a move keeps the types.
LEMMA PlayMoveTypes ==
  ASSUME IInv, NEW g \in Game, PlayMove(g)
  PROVE  FileTypes' /\ PlayTypes' /\ StoredTypes'
<1>1. FileTypes' /\ StoredTypes' /\ table' = table /\ PlayTypes
  BY DEF IInv, Types, PlayMove, FileTypes, StoredTypes, playerVars
<1> DEFINE new == [play[g] EXCEPT !.moves = @ + 1,
                     !.at = IF exists THEN "scan" ELSE "create",
                     !.alone = \A k \in Game \ {g} : ~Saving(k)]
           other(h) == [play[h] EXCEPT !.alone = @ /\ ~Saving(h)]
<1>2. play' = [h \in Game |-> IF h = g THEN new ELSE other(h)] /\ play[g].at = "playing"
  BY DEF PlayMove
<1>3. play[g].moves < MaxMoves /\ play[g].life >= 1 /\ g[1] \in ToSet(table) /\ g[2] \in ToSet(table)
  BY <1>1, <1>2, PlayFields DEF AtWork
<1>4. play[g].moves + 1 \in 1 .. MaxMoves
  BY <1>1, <1>3, PlayFields, Sizes
<1>5. /\ new \in Play /\ new.at \in {"scan", "create"} /\ new.life = play[g].life
      /\ new.moves = play[g].moves + 1
  <2>1. play[g] \in Play /\ (IF exists THEN "scan" ELSE "create") \in {"scan", "create"}
        /\ (\A k \in Game \ {g} : ~Saving(k)) \in BOOLEAN /\ play[g].moves + 1 \in 0 .. MaxMoves
    BY <1>1, <1>4, PlayFields
  <2>2. QED BY <2>1 DEF Play, Step
<1>6. AtWork(g)'
  <2>1. play'[g] = new
    BY <1>2
  <2> HIDE DEF new
  <2>2. QED BY <1>1, <1>3, <1>4, <1>5, <2>1 DEF AtWork
<1>7. ASSUME NEW h \in Game, h # g PROVE other(h) \in Play /\ AtWork(h)'
  <2>1. /\ other(h) \in Play /\ other(h).at = play[h].at /\ other(h).life = play[h].life
        /\ other(h).moves = play[h].moves /\ other(h).pos = play[h].pos
    BY <1>1, PlayFields DEF Play, Saving
  <2>2. AtWork(h) /\ play'[h] = other(h)
    BY <1>1, <1>2, <1>7, PlayFields
  <2> HIDE DEF other
  <2>3. QED BY <1>1, <2>1, <2>2 DEF AtWork
<1> HIDE DEF new, other
<1>8. QED BY <1>1, <1>2, <1>5, <1>6, <1>7 DEF PlayTypes

\* Creating games.dat keeps the types.
LEMMA CreateFileTypes ==
  ASSUME IInv, NEW g \in Game, CreateFile(g)
  PROVE  FileTypes' /\ PlayTypes' /\ StoredTypes'
<1>1. FileTypes' /\ StoredTypes' /\ table' = table /\ PlayTypes
  BY DEF IInv, Types, CreateFile, FileTypes, StoredTypes, playerVars
<1> DEFINE new == [play[g] EXCEPT !.at = "scan"]
<1>2. play' = [play EXCEPT ![g] = new] /\ play'[g] = new /\ play[g].at = "create"
  BY <1>1 DEF CreateFile, Goes, PlayTypes
<1>3. /\ new \in Play /\ new.at = "scan" /\ new.life = play[g].life /\ new.moves = play[g].moves
  BY <1>1, PlayFields DEF Play, Step
<1>4. AtWork(g)'
  BY <1>1, <1>2, <1>3, PlayFields DEF AtWork
<1> HIDE DEF new
<1>5. QED BY <1>1, <1>2, <1>3, <1>4, OneGame

\* Finding the place of a game in games.dat keeps the types.
LEMMA ScanTypes ==
  ASSUME IInv, NEW g \in Game, Scan(g)
  PROVE  FileTypes' /\ PlayTypes' /\ StoredTypes'
<1>1. FileTypes' /\ StoredTypes' /\ table' = table /\ PlayTypes /\ file \in Seq(Cells)
  BY DEF IInv, Types, Scan, FileTypes, StoredTypes, playerVars
<1>2. PICK pos \in Places \union {Len(file) + 1} :
        play' = [play EXCEPT ![g].at = "head", ![g].pos = pos]
  BY DEF Scan
<1>3. pos \in Nat /\ pos >= 1
  BY <1>1 DEF Places
<1> DEFINE new == [play[g] EXCEPT !.at = "head", !.pos = pos]
<1>4. play' = [play EXCEPT ![g] = new] /\ play'[g] = new /\ play[g].at = "scan"
  BY <1>1, <1>2 DEF Scan, PlayTypes
<1>5. /\ new \in Play /\ new.at = "head" /\ new.life = play[g].life /\ new.moves = play[g].moves
      /\ new.pos = pos
  BY <1>1, <1>3, PlayFields DEF Play, Step
<1>6. AtWork(g)'
  BY <1>1, <1>3, <1>4, <1>5, PlayFields DEF AtWork
<1> HIDE DEF new
<1>7. QED BY <1>1, <1>4, <1>5, <1>6, OneGame

\* A write puts cells of a record into the file, or holes before them.
LEMMA PutTypes ==
  ASSUME file \in Seq(Cells), PlayTypes, NEW g \in Game, play[g].at \in {"head", "tail"},
         NEW from \in 1 .. RecordCells, NEW to \in 1 .. RecordCells
  PROVE  Put(g, from, to) \in Seq(Cells) /\ RecordOf(g) \in Record
<1> DEFINE pos == play[g].pos
           end == pos + to - 1
           size == IF end > Len(file) THEN end ELSE Len(file)
           cell(i) == IF i \in pos + from - 1 .. end THEN Cell(RecordOf(g), i - pos + 1)
                      ELSE IF i \in DOMAIN file THEN file[i] ELSE Hole
<1>1. /\ play[g].life \in 1 .. MaxGames /\ play[g].moves \in 1 .. MaxMoves
      /\ pos \in Nat /\ pos >= 1
  BY PlayFields, Sizes DEF AtWork
<1>2. RecordOf(g) \in Record
  BY <1>1 DEF RecordOf, Record
<1>3. size \in Nat
  BY <1>1, Sizes
<1>4. \A i \in 1 .. size : cell(i) \in Cells
  <2> SUFFICES ASSUME NEW i \in 1 .. size PROVE cell(i) \in Cells
    OBVIOUS
  <2>1. CASE i \in pos + from - 1 .. end
    <3>1. i - pos + 1 \in 1 .. RecordCells
      <4>1. /\ i \in Int /\ from \in Int /\ to \in Int /\ from >= 1 /\ to <= RecordCells
            /\ pos + from - 1 <= i /\ i <= pos + to - 1 /\ pos \in Int /\ RecordCells \in Int
        BY <1>1, <2>1, Sizes
      <4> HIDE DEF pos
      <4>2. QED BY <4>1
    <3>2. Cell(RecordOf(g), i - pos + 1) \in Cells
      BY <1>2, <3>1 DEF Cell, Cells
    <3>3. QED BY <2>1, <3>2
  <2>2. CASE i \notin pos + from - 1 .. end
    <3>1. Hole \in Cells
      BY DEF Cells
    <3>2. i \in DOMAIN file => file[i] \in Cells
      OBVIOUS
    <3>3. QED BY <2>2, <3>1, <3>2
  <2>3. QED BY <2>1, <2>2
<1>5. Put(g, from, to) = [i \in 1 .. size |-> cell(i)]
  BY DEF Put
<1> HIDE DEF size, cell
<1>6. [i \in 1 .. size |-> cell(i)] \in Seq(Cells)
  BY <1>3, <1>4
<1>7. QED BY <1>2, <1>5, <1>6

\* Writing the head of a record keeps the types of games.dat.
LEMMA WriteHeadTypes ==
  ASSUME IInv, NEW g \in Game, WriteHead(g)
  PROVE  FileTypes' /\ PlayTypes' /\ StoredTypes'
<1>1. /\ StoredTypes' /\ table' = table /\ PlayTypes /\ file \in Seq(Cells)
      /\ exists \in BOOLEAN /\ exists' = exists
  BY DEF IInv, Types, WriteHead, FileTypes, StoredTypes, playerVars
<1> DEFINE new == [play[g] EXCEPT !.at = "tail"]
<1>2. play' = [play EXCEPT ![g] = new] /\ play'[g] = new /\ play[g].at = "head"
  BY <1>1 DEF WriteHead, Goes, PlayTypes
<1>3. /\ new \in Play /\ new.at = "tail" /\ new.life = play[g].life /\ new.moves = play[g].moves
      /\ new.pos = play[g].pos
  BY <1>1, PlayFields DEF Play, Step
<1>4. AtWork(g)'
  BY <1>1, <1>2, <1>3, PlayFields DEF AtWork
<1>5. FileTypes'
  <2>1. 1 \in 1 .. RecordCells /\ HeadCells \in 1 .. RecordCells
    BY Sizes
  <2>2. Put(g, 1, HeadCells) \in Seq(Cells)
    BY <1>1, <1>2, <2>1, PutTypes
  <2>3. QED BY <1>1, <2>2 DEF FileTypes, WriteHead
<1> HIDE DEF new
<1>6. QED BY <1>1, <1>2, <1>3, <1>4, <1>5, OneGame

\* The end of a save: the thread waits for a move, or counts the result.
LEMMA EndedTypes ==
  ASSUME PlayTypes, table' = table, NEW g \in Game, play[g].at \in {"head", "tail"}, play' = Ended(g)
  PROVE  /\ PlayTypes' /\ \A h \in Game \ {g} : play'[h] = play[h]
         /\ play'[g].at \in {"playing", "count1"} /\ ~play'[g].alone
         /\ play'[g].life = play[g].life /\ play'[g].moves = play[g].moves
<1> DEFINE next == IF play[g].moves < MaxMoves THEN "playing" ELSE "count1"
           new == [play[g] EXCEPT !.pos = 0, !.alone = FALSE, !.at = next]
<1>1. play' = [play EXCEPT ![g] = new] /\ play'[g] = new /\ \A h \in Game \ {g} : play'[h] = play[h]
  BY DEF Ended, PlayTypes
<1>2. /\ new \in Play /\ new.at = next /\ new.life = play[g].life /\ new.moves = play[g].moves
      /\ new.alone = FALSE
  <2>1. play[g] \in Play /\ next \in Step
    BY PlayFields DEF Step
  <2> HIDE DEF next
  <2>2. QED BY <2>1 DEF Play
<1>3. next \in {"playing", "count1"} /\ (next = "playing" => play[g].moves < MaxMoves)
  OBVIOUS
<1> HIDE DEF new, next
<1>4. AtWork(g)'
  <2>1. AtWork(g)
    BY PlayFields
  <2>2. QED BY <1>1, <1>2, <1>3, <2>1 DEF AtWork
<1>5. PlayTypes'
  BY <1>1, <1>2, <1>4, OneGame
<1>6. QED BY <1>1, <1>2, <1>3, <1>5

\* Writing the rest of a record keeps the types of games.dat.
LEMMA WriteTailTypes ==
  ASSUME IInv, NEW g \in Game, WriteTail(g)
  PROVE  FileTypes' /\ PlayTypes' /\ StoredTypes'
<1>1. /\ StoredTypes /\ table' = table /\ PlayTypes /\ file \in Seq(Cells)
      /\ exists \in BOOLEAN /\ exists' = exists /\ play[g].at = "tail"
  BY DEF IInv, Types, WriteTail, FileTypes, playerVars
<1>2. PlayTypes'
  BY <1>1, EndedTypes DEF WriteTail
<1>3. Put(g, HeadCells + 1, RecordCells) \in Seq(Cells) /\ RecordOf(g) \in Record
  <2>1. HeadCells + 1 \in 1 .. RecordCells /\ RecordCells \in 1 .. RecordCells
    BY Sizes
  <2>2. QED BY <1>1, <2>1, PutTypes
<1>4. FileTypes'
  BY <1>1, <1>3 DEF FileTypes, WriteTail
<1>5. StoredTypes'
  BY <1>1, <1>3 DEF StoredTypes, WriteTail
<1>6. QED BY <1>2, <1>4, <1>5

\* A write that fails is one of the first piece or of the second, and puts cells of
\* the record there, or none.
LEMMA CutIs ==
  ASSUME IInv, NEW g \in Game, HeadFails(g) \/ TailFails(g)
  PROVE  \E from \in 1 .. RecordCells, n \in 0 .. RecordCells - 1 :
           /\ Cut(g, from, n)
           /\ \/ play[g].at = "head" /\ from = 1
              \/ play[g].at = "tail" /\ from = HeadCells + 1 /\ n >= HeadCells
           /\ n >= from => n \in 1 .. RecordCells
<1>1. HeadCells \in Nat /\ RecordCells \in Nat /\ HeadCells >= 1 /\ HeadCells < RecordCells
  BY Sizes
<1>2. CASE HeadFails(g)
  <2>1. PICK n \in 0 .. HeadCells - 1 : Cut(g, 1, n)
    BY <1>2 DEF HeadFails
  <2>2. 1 \in 1 .. RecordCells /\ n \in 0 .. RecordCells - 1 /\ (n >= 1 => n \in 1 .. RecordCells)
    BY <1>1
  <2>3. QED BY <1>2, <2>1, <2>2 DEF HeadFails
<1>3. CASE TailFails(g)
  <2>1. PICK n \in HeadCells .. RecordCells - 1 : Cut(g, HeadCells + 1, n)
    BY <1>3 DEF TailFails
  <2>2. /\ HeadCells + 1 \in 1 .. RecordCells /\ n \in 0 .. RecordCells - 1 /\ n >= HeadCells
        /\ n >= HeadCells + 1 => n \in 1 .. RecordCells
    BY <1>1
  <2>3. QED BY <1>3, <2>1, <2>2 DEF TailFails
<1>4. QED BY <1>2, <1>3

\* So it keeps the types of games.dat.
LEMMA CutTypes ==
  ASSUME IInv, NEW g \in Game, HeadFails(g) \/ TailFails(g)
  PROVE  FileTypes' /\ PlayTypes' /\ StoredTypes'
<1>1. PICK from \in 1 .. RecordCells, n \in 0 .. RecordCells - 1 :
        Cut(g, from, n) /\ play[g].at \in {"head", "tail"} /\ (n >= from => n \in 1 .. RecordCells)
  BY CutIs
<1>2. /\ StoredTypes /\ table' = table /\ PlayTypes /\ file \in Seq(Cells)
      /\ exists \in BOOLEAN /\ exists' = exists /\ safe' = safe
  BY <1>1 DEF IInv, Types, Cut, FileTypes, playerVars
<1>3. PlayTypes'
  BY <1>1, <1>2, EndedTypes DEF Cut
<1>4. file' \in Seq(Cells)
  <2>1. CASE n < from
    BY <1>1, <1>2, <2>1 DEF Cut
  <2>2. CASE ~(n < from)
    <3>1. n \in 1 .. RecordCells
      BY <1>1, <2>2, Sizes
    <3>2. Put(g, from, n) \in Seq(Cells)
      BY <1>1, <1>2, <3>1, PutTypes
    <3>3. QED BY <1>1, <2>2, <3>2 DEF Cut
  <2>3. QED BY <2>1, <2>2
<1>5. StoredTypes'
  BY <1>1, <1>2 DEF StoredTypes, Cut
<1>6. QED BY <1>2, <1>3, <1>4, <1>5 DEF FileTypes

-----------------------------------------------------------------------------
(* The steps that change a player.                                          *)

\* What holds of the games is left alone by a step that leaves them alone, as the
\* table of players only grows while the server runs.
LEMMA GamesUntouched ==
  ASSUME IInv, UNCHANGED gameVars, ToSet(table) \subseteq ToSet(table')
  PROVE  FileTypes' /\ PlayTypes' /\ StoredTypes'
<1>1. /\ file' = file /\ exists' = exists /\ play' = play /\ stored' = stored /\ safe' = safe
  BY DEF gameVars
<1>2. FileTypes' /\ StoredTypes'
  BY <1>1 DEF IInv, Types, FileTypes, StoredTypes
<1>3. PlayTypes'
  BY <1>1 DEF IInv, Types, PlayTypes, AtWork
<1>4. QED BY <1>2, <1>3

\* A change that is saved begins with the lock taken and no file open.
LEMMA SavesTypes ==
  ASSUME IInv, NEW who \in Game \union Player, Saves(who), table' = table, disk' = disk,
         Len(table) >= 1, crashes' = crashes, failures' = failures
  PROVE  SaverTypes' /\ OpenIsShort' /\ ShortFilesAreCounted'
<1>1. saver = Free /\ saver' = [by |-> who, next |-> 1, at |-> "open"] /\ Len(table) \in Nat
  BY DEF Saves, Free, IInv, Types, TableTypes
<1>2. SaverTypes'
  BY <1>1 DEF SaverTypes, Saver, SaverInTable, Free
<1>3. saver.at = "open" /\ saver'.at = "open"
  BY <1>1 DEF Free
<1>4. QED BY <1>2, <1>3 DEF IInv, OpenIsShort, ShortFilesAreCounted

\* A player of the table has a place in it.
LEMMA TableHasPlace ==
  ASSUME TableTypes, NEW p \in ToSet(table)
  PROVE  Len(table) \in Nat /\ Len(table) >= 1 /\ p \in Player
  BY DEF TableTypes, ToSet

\* A login of a new player keeps the invariant.
LEMMA LoginTypes ==
  ASSUME IInv, NEW p \in Player, Login(p)
  PROVE  IInv'
<1>1. /\ saver = Free /\ p \notin ToSet(table) /\ table' = Append(table, p)
      /\ info' = info /\ disk' = disk /\ saver' = saver /\ crashes' = crashes
      /\ failures' = failures /\ edits' = edits /\ UNCHANGED gameVars
  BY DEF Login, bounds
<1>2. table \in Seq(Player) /\ IsInjective(table)
  BY DEF IInv, Types, TableTypes
<1>3. /\ table' \in Seq(Player) /\ Len(table') = Len(table) + 1 /\ table'[Len(table) + 1] = p
      /\ \A i \in 1 .. Len(table) : table'[i] = table[i]
  BY <1>1, <1>2
<1>4. TableTypes'
  <2>1. \A i \in 1 .. Len(table) : table[i] # p
    BY <1>1, <1>2 DEF ToSet
  <2>2. \A i, j \in 1 .. Len(table) : table[i] = table[j] => i = j
    BY <1>2 DEF IsInjective
  <2>3. \A i, j \in 1 .. Len(table') : table'[i] = table'[j] => i = j
    BY <1>2, <1>3, <2>1, <2>2
  <2>4. QED BY <1>3, <2>3 DEF TableTypes, IsInjective
<1>5. ToSet(table) \subseteq ToSet(table')
  BY <1>2, <1>3 DEF ToSet
<1>6. InfoTypes' /\ DiskTypes' /\ CountTypes'
  BY <1>1 DEF IInv, Types, InfoTypes, DiskTypes, CountTypes
<1>7. SaverTypes'
  BY <1>1 DEF IInv, Types, SaverTypes, SaverInTable, Saver
<1>8. OpenIsShort' /\ ShortFilesAreCounted'
  BY <1>1 DEF IInv, OpenIsShort, ShortFilesAreCounted, Free
<1>9. QED BY <1>1, <1>4, <1>5, <1>6, <1>7, <1>8, GamesUntouched DEF IInv, Types

\* Counting a result keeps the invariant.
LEMMA CountResultTypes ==
  ASSUME IInv, NEW g \in Game, CountResult(g)
  PROVE  IInv'
<1>1. /\ Saves(g) /\ UNCHANGED gameVars /\ table' = table /\ disk' = disk
      /\ crashes' = crashes /\ failures' = failures /\ edits' = edits
  BY DEF CountResult, bounds
<1>2. PICK n \in 1 .. 2 :
        play[g].at = (<<"count1", "count2">>)[n] /\ info' = [info EXCEPT ![g[n]].played = @ + 1]
  BY DEF CountResult
<1>3. play[g].at # "none"
  BY <1>2
<1>4. g[n] \in ToSet(table)
  BY <1>3, PlayFields DEF IInv, Types, AtWork
<1>5. g[n] \in Player /\ Len(table) >= 1
  BY <1>4, TableHasPlace DEF IInv, Types
<1>6. info \in [Player -> Info]
  BY DEF IInv, Types, InfoTypes
<1>7. [info[g[n]] EXCEPT !.played = @ + 1] \in Info /\ info[g[n]].played \in Nat
      /\ [info[g[n]] EXCEPT !.played = @ + 1].played = info[g[n]].played + 1
  BY <1>5, <1>6 DEF Info
<1>8. info' = [info EXCEPT ![g[n]] = [info[g[n]] EXCEPT !.played = @ + 1]]
  BY <1>2, <1>6
<1>9. InfoTypes' /\ \A p \in Player : info'[p].played >= info[p].played
  <2>1. \A p \in Player : info[p].played \in Nat
    BY <1>6 DEF Info
  <2>2. QED BY <1>5, <1>6, <1>7, <1>8, <2>1 DEF InfoTypes
<1>10. DiskTypes'
  <2>1. \A p \in Player : /\ info[p].played \in Nat /\ info'[p].played \in Nat
                          /\ disk[p] \in {NoFile, Short} \/ disk[p].played \in Nat
    BY <1>6, <1>9 DEF Info, InfoTypes, IInv, Types, DiskTypes
  <2>2. \A p \in Player : disk[p] \in {NoFile, Short} \/ info'[p].played >= disk[p].played
    BY <1>9, <2>1 DEF IInv, Types, DiskTypes
  <2>3. QED BY <1>1, <2>2 DEF IInv, Types, DiskTypes
<1>11. TableTypes' /\ CountTypes'
  BY <1>1 DEF IInv, Types, TableTypes, CountTypes
<1>12. SaverTypes' /\ OpenIsShort' /\ ShortFilesAreCounted'
  BY <1>1, <1>5, SavesTypes
<1>13. QED BY <1>1, <1>9, <1>10, <1>11, <1>12, GamesUntouched DEF IInv, Types

\* A change of a bio or of friends leaves the results.
LEMMA EditTypes ==
  ASSUME IInv, NEW p \in Player, NEW new \in Info, new.played = info[p].played,
         info' = [info EXCEPT ![p] = new], UNCHANGED gameVars, table' = table, disk' = disk,
         edits' = edits + 1, crashes' = crashes
  PROVE  FileTypes' /\ PlayTypes' /\ StoredTypes' /\ TableTypes' /\ InfoTypes' /\ DiskTypes'
<1>1. FileTypes' /\ PlayTypes' /\ StoredTypes'
  BY GamesUntouched
<1>2. TableTypes'
  BY DEF IInv, Types, TableTypes
<1>3. info \in [Player -> Info]
  BY DEF IInv, Types, InfoTypes
<1>4. InfoTypes' /\ \A q \in Player : info'[q].played = info[q].played
  BY <1>3 DEF InfoTypes
<1>5. DiskTypes'
  BY <1>4 DEF IInv, Types, DiskTypes
<1>6. QED BY <1>1, <1>2, <1>4, <1>5

\* Setting a bio keeps the invariant.
LEMMA SetBioTypes ==
  ASSUME IInv, NEW p \in Player, SetBio(p)
  PROVE  IInv'
<1>1. /\ UNCHANGED gameVars /\ table' = table /\ disk' = disk /\ saver' = saver /\ saver = Free
      /\ edits' = edits + 1 /\ crashes' = crashes /\ failures' = failures
  BY DEF SetBio, Edit
<1>2. info \in [Player -> Info]
  BY DEF IInv, Types, InfoTypes
<1> DEFINE new == [info[p] EXCEPT !.bio = TRUE]
<1>3. new \in Info /\ new.played = info[p].played
  BY <1>2 DEF Info
<1>4. info' = [info EXCEPT ![p] = new]
  BY <1>2 DEF SetBio
<1> HIDE DEF new
<1>5. FileTypes' /\ PlayTypes' /\ StoredTypes' /\ TableTypes' /\ InfoTypes' /\ DiskTypes'
  BY <1>1, <1>3, <1>4, EditTypes
<1>6. SaverTypes' /\ CountTypes' /\ OpenIsShort' /\ ShortFilesAreCounted'
  BY <1>1 DEF IInv, Types, SaverTypes, SaverInTable, Saver, CountTypes, OpenIsShort, Free,
     ShortFilesAreCounted
<1>7. QED BY <1>5, <1>6 DEF IInv, Types

\* Adding or removing a friend keeps the invariant.
LEMMA FriendTypes ==
  ASSUME IInv, NEW p \in Player, NEW q \in Player, AddFriend(p, q) \/ RemoveFriend(p, q)
  PROVE  IInv'
<1>1. /\ UNCHANGED gameVars /\ table' = table /\ disk' = disk /\ Saves(p) /\ p \in ToSet(table)
      /\ edits' = edits + 1 /\ crashes' = crashes /\ failures' = failures
  BY DEF AddFriend, RemoveFriend, Edit
<1>2. info \in [Player -> Info]
  BY DEF IInv, Types, InfoTypes
<1>3. PICK friends \in SUBSET Player : info' = [info EXCEPT ![p] = [info[p] EXCEPT !.friends = friends]]
  <2>1. info[p].friends \in SUBSET Player
    BY <1>2 DEF Info
  <2>2. CASE AddFriend(p, q)
    <3>1. info' = [info EXCEPT ![p] = [info[p] EXCEPT !.friends = info[p].friends \union {q}]]
      BY <1>2, <2>2 DEF AddFriend
    <3>2. QED BY <2>1, <3>1
  <2>3. CASE RemoveFriend(p, q)
    <3>1. info' = [info EXCEPT ![p] = [info[p] EXCEPT !.friends = info[p].friends \ {q}]]
      BY <1>2, <2>3 DEF RemoveFriend
    <3>2. QED BY <2>1, <3>1
  <2>4. QED BY <2>2, <2>3
<1> DEFINE new == [info[p] EXCEPT !.friends = friends]
<1>4. new \in Info /\ new.played = info[p].played
  BY <1>2 DEF Info
<1>5. info' = [info EXCEPT ![p] = new]
  BY <1>3
<1> HIDE DEF new
<1>6. FileTypes' /\ PlayTypes' /\ StoredTypes' /\ TableTypes' /\ InfoTypes' /\ DiskTypes'
  BY <1>1, <1>4, <1>5, EditTypes
<1>7. SaverTypes' /\ OpenIsShort' /\ ShortFilesAreCounted'
  BY <1>1, TableHasPlace, SavesTypes DEF IInv, Types
<1>8. CountTypes'
  BY <1>1 DEF IInv, Types, CountTypes
<1>9. QED BY <1>6, <1>7, <1>8 DEF IInv, Types

-----------------------------------------------------------------------------
(* The files of the players.                                                *)

ShortFiles == {p \in Player : disk[p] = Short}

\* The short files are finitely many.
LEMMA ShortFinite == IsFiniteSet(ShortFiles) /\ Cardinality(ShortFiles) \in Nat
  BY StorageAssumption, FS_Subset, FS_CardinalityType DEF ShortFiles

\* What a file that is opened, and one that is written, do to the count.
LEMMA ShortCounts ==
  ASSUME disk \in [Player -> Info \union {NoFile, Short}], NEW p \in Player, NEW content,
         disk' = [disk EXCEPT ![p] = content]
  PROVE  /\ Cardinality(ShortFiles') \in Nat
         /\ Cardinality(ShortFiles') <= Cardinality(ShortFiles) + 1
         /\ content # Short => Cardinality(ShortFiles') <= Cardinality(ShortFiles)
         /\ content # Short /\ disk[p] = Short =>
              Cardinality(ShortFiles') = Cardinality(ShortFiles) - 1
<1>1. CASE content = Short
  <2>1. ShortFiles' = ShortFiles \union {p}
    BY <1>1 DEF ShortFiles
  <2>2. QED BY <1>1, <2>1, ShortFinite, FS_AddElement
<1>2. CASE content # Short
  <2>1. ShortFiles' = ShortFiles \ {p}
    BY <1>2 DEF ShortFiles
  <2>2. disk[p] = Short => p \in ShortFiles
    BY DEF ShortFiles
  <2>3. /\ IsFiniteSet(ShortFiles')
        /\ Cardinality(ShortFiles') =
             IF p \in ShortFiles THEN Cardinality(ShortFiles) - 1 ELSE Cardinality(ShortFiles)
    BY <2>1, ShortFinite, FS_RemoveElement
  <2>4. Cardinality(ShortFiles') \in Nat
    BY <2>3, FS_CardinalityType
  <2>5. QED BY <1>2, <2>2, <2>3, <2>4, ShortFinite
<1>3. QED BY <1>1, <1>2

\* Letting go of the lock keeps the types, and no file is open.
LEMMA ReleaseTypes ==
  ASSUME IInv, Release, RestOfSave
  PROVE  FileTypes' /\ PlayTypes' /\ StoredTypes' /\ SaverTypes' /\ OpenIsShort' /\ saver'.at = "open"
<1>1. /\ file' = file /\ exists' = exists /\ stored' = stored /\ safe' = safe /\ table' = table
      /\ saver' = Free
  BY DEF RestOfSave, Release
<1>2. FileTypes' /\ StoredTypes'
  BY <1>1 DEF IInv, Types, FileTypes, StoredTypes
<1>3. SaverTypes' /\ OpenIsShort' /\ saver'.at = "open"
  BY <1>1 DEF SaverTypes, Saver, SaverInTable, OpenIsShort, Free
<1>4. ASSUME NEW g \in Game PROVE play'[g] \in Play /\ AtWork(g)'
  <2>1. play[g] \in Play /\ AtWork(g)
    BY PlayFields DEF IInv, Types
  <2>2. play'[g] = IF g # saver.by THEN play[g]
                   ELSE IF play[g].at = "count1" THEN [play[g] EXCEPT !.at = "count2"]
                   ELSE [NoPlay EXCEPT !.life = play[g].life]
    BY DEF Release
  <2>3. CASE g # saver.by
    BY <1>1, <2>1, <2>2, <2>3 DEF AtWork
  <2>4. CASE g = saver.by /\ play[g].at = "count1"
    <3>1. /\ play'[g] \in Play /\ play'[g].at = "count2" /\ play'[g].life = play[g].life
      BY <2>1, <2>2, <2>4 DEF Play, Step
    <3>2. QED BY <1>1, <2>1, <2>4, <3>1 DEF AtWork
  <2>5. CASE g = saver.by /\ play[g].at # "count1"
    <3>1. play'[g] = [at |-> "none", life |-> play[g].life, moves |-> 0, pos |-> 0, alone |-> FALSE]
      BY <2>2, <2>5 DEF NoPlay
    <3>2. play'[g] \in Play
      BY <2>1, <3>1, Sizes DEF Play, Step
    <3>3. QED BY <3>1, <3>2 DEF AtWork
  <2>6. QED BY <2>3, <2>4, <2>5
<1>5. DOMAIN play' = Game /\ play' = [g \in Game |-> play'[g]]
  BY DEF Release
<1>6. PlayTypes'
  BY <1>4, <1>5 DEF PlayTypes
<1>7. QED BY <1>2, <1>3, <1>6

\* The bound on the short files, by the set of them.
LEMMA ShortFilesBound ==
  ShortFilesAreCounted <=>
    Cardinality(ShortFiles) <= crashes + failures + (IF saver.at = "write" THEN 1 ELSE 0)
  BY DEF ShortFilesAreCounted, ShortFiles

\* The player whose file is written is in the table.
LEMMA Writer ==
  ASSUME IInv, saver.by # Nobody
  PROVE  /\ saver \in Saver /\ saver.next \in 1 .. Len(table) /\ Len(table) \in Nat
         /\ table[saver.next] \in Player
         /\ info[table[saver.next]] \in Info /\ info[table[saver.next]] # Short
<1>1. saver # Free
  BY DEF Free
<1>2. saver \in Saver /\ saver.next \in 1 .. Len(table) /\ table \in Seq(Player)
  BY <1>1 DEF IInv, Types, SaverTypes, SaverInTable, TableTypes
<1>3. table[saver.next] \in Player /\ Len(table) \in Nat
  BY <1>2
<1>4. info[table[saver.next]] \in Info
  BY <1>3 DEF IInv, Types, InfoTypes
<1>5. Short \notin Info
  BY StorageAssumption DEF Info
<1>6. QED BY <1>2, <1>3, <1>4, <1>5

\* The thread that saves goes on with the same file.
LEMMA ContinuesTypes ==
  ASSUME IInv, NEW at \in {"open", "write", "fallback"}, saver.by # Nobody, Continues(at), RestOfSave
  PROVE  /\ FileTypes' /\ PlayTypes' /\ StoredTypes' /\ SaverTypes'
         /\ saver'.at = at /\ saver'.next = saver.next /\ table' = table
<1>1. /\ UNCHANGED gameVars /\ table' = table /\ saver' = [saver EXCEPT !.at = at]
  BY DEF RestOfSave, Continues, gameVars
<1>2. FileTypes' /\ PlayTypes' /\ StoredTypes'
  BY <1>1, GamesUntouched
<1>3. /\ saver' \in Saver /\ saver'.at = at /\ saver'.next = saver.next /\ saver'.by = saver.by
  BY <1>1, Writer DEF Saver
<1>4. SaverTypes'
  BY <1>1, <1>3, Writer DEF SaverTypes, SaverInTable
<1>5. QED BY <1>1, <1>2, <1>3, <1>4

\* It goes on with the next file, or releases the lock.
LEMMA NextPlayerTypes ==
  ASSUME IInv, saver.by # Nobody, NextPlayer, RestOfSave
  PROVE  FileTypes' /\ PlayTypes' /\ StoredTypes' /\ SaverTypes' /\ OpenIsShort' /\ saver'.at = "open"
<1>1. CASE saver.next < Len(table)
  <2>1. /\ UNCHANGED gameVars /\ table' = table
        /\ saver' = [saver EXCEPT !.next = @ + 1, !.at = "open"]
    BY <1>1 DEF RestOfSave, NextPlayer, gameVars
  <2>2. FileTypes' /\ PlayTypes' /\ StoredTypes'
    BY <2>1, GamesUntouched
  <2>3. /\ saver' \in Saver /\ saver'.at = "open" /\ saver'.next = saver.next + 1 /\ saver'.by = saver.by
    <3>1. saver \in Saver /\ saver.next \in Nat /\ saver.next + 1 \in Nat
      BY Writer
    <3>2. QED BY <2>1, <3>1 DEF Saver
  <2>4. SaverTypes' /\ OpenIsShort'
    BY <1>1, <2>1, <2>3, Writer DEF SaverTypes, SaverInTable, OpenIsShort
  <2>5. QED BY <2>2, <2>3, <2>4
<1>2. CASE ~(saver.next < Len(table))
  BY <1>2, ReleaseTypes DEF NextPlayer
<1>3. QED BY <1>1, <1>2

\* What a step of the save leaves alone, and what it may put into a file.
LEMMA SaveTypes ==
  ASSUME IInv, saver.by # Nobody, RestOfSave,
         \/ disk' = disk \/ Holds(Short) \/ Holds(info[table[saver.next]]),
         failures' \in {failures, failures + 1}
  PROVE  TableTypes' /\ InfoTypes' /\ DiskTypes' /\ CountTypes'
<1>1. table' = table /\ info' = info /\ crashes' = crashes /\ edits' = edits
  BY DEF RestOfSave
<1>2. TableTypes' /\ InfoTypes' /\ CountTypes'
  <2>1. TableTypes' /\ InfoTypes'
    BY <1>1 DEF IInv, Types, TableTypes, InfoTypes
  <2>2. CountTypes'
    BY <1>1 DEF IInv, Types, CountTypes
  <2>3. QED BY <2>1, <2>2
<1>3. /\ disk \in [Player -> Info \union {NoFile, Short}] /\ info \in [Player -> Info]
      /\ \A p \in Player : disk[p] \in {NoFile, Short} \/ info[p].played >= disk[p].played
  BY DEF IInv, Types, DiskTypes, InfoTypes
<1>4. \A p \in Player : info[p].played \in Nat
  BY <1>3 DEF Info
<1> DEFINE p == table[saver.next]
<1>5. p \in Player /\ info[p] \in Info
  BY Writer
<1>6. ASSUME disk' = disk PROVE DiskTypes'
  BY <1>1, <1>3, <1>6 DEF DiskTypes
<1>7. ASSUME NEW content \in {Short, info[p]}, disk' = [disk EXCEPT ![p] = content]
      PROVE  DiskTypes'
  <2> HIDE DEF p
  <2>1. disk' \in [Player -> Info \union {NoFile, Short}]
    BY <1>3, <1>5, <1>7
  <2>2. disk'[p] = content /\ \A q \in Player : q # p => disk'[q] = disk[q]
    BY <1>3, <1>5, <1>7
  <2>3. \A q \in Player : disk'[q] \in {NoFile, Short} \/ info[q].played >= disk'[q].played
    BY <1>3, <1>4, <1>5, <2>2
  <2>4. QED BY <1>1, <2>1, <2>3 DEF DiskTypes
<1>8. DiskTypes'
  <2>1. CASE \E content \in {Short, info[p]} : disk' = [disk EXCEPT ![p] = content]
    BY <1>7, <2>1
  <2>2. QED BY <1>6, <2>1 DEF Holds
<1>9. QED BY <1>2, <1>8

\* Opening a file for writing makes it the one short file of the step.
LEMMA OpenTypes == ASSUME IInv, Open PROVE IInv'
<1>1. saver.by # Nobody /\ saver.at = "open" /\ RestOfSave
  BY DEF Open, Writes
<1>2. /\ disk \in [Player -> Info \union {NoFile, Short}] /\ table[saver.next] \in Player
      /\ crashes \in Nat /\ failures \in Nat /\ crashes' = crashes
      /\ Cardinality(ShortFiles) \in Nat /\ Cardinality(ShortFiles) <= crashes + failures
  BY <1>1, Writer, ShortFinite, ShortFilesBound
     DEF IInv, Types, DiskTypes, CountTypes, RestOfSave
<1>3. CASE Holds(Short) /\ Continues("write") /\ Succeeds
  <2>1. /\ FileTypes' /\ PlayTypes' /\ StoredTypes' /\ SaverTypes'
        /\ saver'.at = "write" /\ saver'.next = saver.next /\ table' = table
    BY <1>1, <1>3, ContinuesTypes
  <2>2. TableTypes' /\ InfoTypes' /\ DiskTypes' /\ CountTypes'
    BY <1>1, <1>3, SaveTypes DEF Succeeds
  <2>3. OpenIsShort'
    BY <1>2, <1>3, <2>1 DEF OpenIsShort, Holds
  <2>4. Cardinality(ShortFiles') \in Nat /\ Cardinality(ShortFiles') <= Cardinality(ShortFiles) + 1
    BY <1>2, <1>3, ShortCounts DEF Holds
  <2>5. ShortFilesAreCounted'
    BY <1>2, <1>3, <2>1, <2>4 DEF ShortFilesAreCounted, ShortFiles, Succeeds
  <2>6. QED BY <2>1, <2>2, <2>3, <2>5 DEF IInv, Types
<1>4. CASE UNCHANGED disk /\ Continues("fallback") /\ Fails
  <2>1. /\ FileTypes' /\ PlayTypes' /\ StoredTypes' /\ SaverTypes' /\ saver'.at = "fallback"
    BY <1>1, <1>4, ContinuesTypes
  <2>2. TableTypes' /\ InfoTypes' /\ DiskTypes' /\ CountTypes'
    BY <1>1, <1>4, SaveTypes DEF Fails
  <2>3. OpenIsShort' /\ ShortFilesAreCounted'
    BY <1>2, <1>4, <2>1 DEF OpenIsShort, ShortFilesAreCounted, ShortFiles, Fails
  <2>4. QED BY <2>1, <2>2, <2>3 DEF IInv, Types
<1>5. QED BY <1>3, <1>4 DEF Open

\* Writing it makes it whole, or counts a failure.
LEMMA WriteTypes == ASSUME IInv, Write PROVE IInv'
<1>1. saver.by # Nobody /\ saver.at = "write" /\ RestOfSave
  BY DEF Write, Writes
<1>2. /\ disk \in [Player -> Info \union {NoFile, Short}] /\ table[saver.next] \in Player
      /\ crashes \in Nat /\ failures \in Nat /\ crashes' = crashes
      /\ Cardinality(ShortFiles) \in Nat /\ Cardinality(ShortFiles) <= crashes + failures + 1
      /\ disk[table[saver.next]] = Short
  BY <1>1, Writer, ShortFinite, ShortFilesBound
     DEF IInv, Types, DiskTypes, CountTypes, RestOfSave, OpenIsShort
<1>3. CASE Holds(info[table[saver.next]]) /\ NextPlayer /\ Succeeds
  <2>1. FileTypes' /\ PlayTypes' /\ StoredTypes' /\ SaverTypes' /\ OpenIsShort' /\ saver'.at = "open"
    BY <1>1, <1>3, NextPlayerTypes
  <2>2. TableTypes' /\ InfoTypes' /\ DiskTypes' /\ CountTypes'
    BY <1>1, <1>3, SaveTypes DEF Succeeds
  <2>3. info[table[saver.next]] # Short
    BY <1>1, Writer
  <2>4. /\ Cardinality(ShortFiles') \in Nat
        /\ Cardinality(ShortFiles') = Cardinality(ShortFiles) - 1
    BY <1>2, <1>3, <2>3, ShortCounts DEF Holds
  <2>5. ShortFilesAreCounted'
    BY <1>2, <1>3, <2>1, <2>4 DEF ShortFilesAreCounted, ShortFiles, Succeeds
  <2>6. QED BY <2>1, <2>2, <2>5 DEF IInv, Types
<1>4. CASE UNCHANGED disk /\ NextPlayer /\ Fails
  <2>1. FileTypes' /\ PlayTypes' /\ StoredTypes' /\ SaverTypes' /\ OpenIsShort' /\ saver'.at = "open"
    BY <1>1, <1>4, NextPlayerTypes
  <2>2. TableTypes' /\ InfoTypes' /\ DiskTypes' /\ CountTypes'
    BY <1>1, <1>4, SaveTypes DEF Fails
  <2>3. ShortFilesAreCounted'
    BY <1>2, <1>4, <2>1 DEF ShortFilesAreCounted, ShortFiles, Fails
  <2>4. QED BY <2>1, <2>2, <2>3 DEF IInv, Types
<1>5. CASE UNCHANGED disk /\ Continues("fallback") /\ Fails
  <2>1. /\ FileTypes' /\ PlayTypes' /\ StoredTypes' /\ SaverTypes' /\ saver'.at = "fallback"
    BY <1>1, <1>5, ContinuesTypes
  <2>2. TableTypes' /\ InfoTypes' /\ DiskTypes' /\ CountTypes'
    BY <1>1, <1>5, SaveTypes DEF Fails
  <2>3. OpenIsShort' /\ ShortFilesAreCounted'
    BY <1>2, <1>5, <2>1 DEF OpenIsShort, ShortFilesAreCounted, ShortFiles, Fails
  <2>4. QED BY <2>1, <2>2, <2>3 DEF IInv, Types
<1>6. QED BY <1>3, <1>4, <1>5 DEF Write

\* Writing a temporary file and renaming it never makes a file short.
LEMMA FallbackTypes == ASSUME IInv, Fallback PROVE IInv'
<1>1. saver.by # Nobody /\ saver.at = "fallback" /\ RestOfSave
  BY DEF Fallback, Writes
<1>2. /\ disk \in [Player -> Info \union {NoFile, Short}] /\ table[saver.next] \in Player
      /\ crashes \in Nat /\ failures \in Nat /\ crashes' = crashes
      /\ Cardinality(ShortFiles) \in Nat /\ Cardinality(ShortFiles) <= crashes + failures
  BY <1>1, Writer, ShortFinite, ShortFilesBound
     DEF IInv, Types, DiskTypes, CountTypes, RestOfSave
<1>3. CASE Holds(info[table[saver.next]]) /\ NextPlayer /\ Succeeds
  <2>1. FileTypes' /\ PlayTypes' /\ StoredTypes' /\ SaverTypes' /\ OpenIsShort' /\ saver'.at = "open"
    BY <1>1, <1>3, NextPlayerTypes
  <2>2. TableTypes' /\ InfoTypes' /\ DiskTypes' /\ CountTypes'
    BY <1>1, <1>3, SaveTypes DEF Succeeds
  <2>3. info[table[saver.next]] # Short
    BY <1>1, Writer
  <2>4. Cardinality(ShortFiles') \in Nat /\ Cardinality(ShortFiles') <= Cardinality(ShortFiles)
    BY <1>2, <1>3, <2>3, ShortCounts DEF Holds
  <2>5. ShortFilesAreCounted'
    BY <1>2, <1>3, <2>1, <2>4 DEF ShortFilesAreCounted, ShortFiles, Succeeds
  <2>6. QED BY <2>1, <2>2, <2>5 DEF IInv, Types
<1>4. CASE UNCHANGED disk /\ Release /\ Fails
  <2>1. FileTypes' /\ PlayTypes' /\ StoredTypes' /\ SaverTypes' /\ OpenIsShort' /\ saver'.at = "open"
    BY <1>1, <1>4, ReleaseTypes
  <2>2. TableTypes' /\ InfoTypes' /\ DiskTypes' /\ CountTypes'
    BY <1>1, <1>4, SaveTypes DEF Fails
  <2>3. ShortFilesAreCounted'
    BY <1>2, <1>4, <2>1 DEF ShortFilesAreCounted, ShortFiles, Fails
  <2>4. QED BY <2>1, <2>2, <2>3 DEF IInv, Types
<1>5. QED BY <1>3, <1>4 DEF Fallback

-----------------------------------------------------------------------------
(* A crash.                                                                 *)

\* A crash and restart count the file that was being written.
LEMMA RestartTypes == ASSUME IInv, Restart PROVE IInv'
<1> DEFINE loaded == {p \in Player : disk[p] \notin {NoFile, Short}}
<1>1. /\ file' = file /\ exists' = exists /\ safe' = safe /\ disk' = disk /\ saver' = Free
      /\ crashes' = crashes + 1 /\ failures' = failures /\ edits' = edits
      /\ table' \in SetToSeqs(loaded)
      /\ info' = [p \in Player |-> IF p \in loaded THEN disk[p] ELSE NewInfo]
      /\ play' = [g \in Game |-> [NoPlay EXCEPT !.life = play[g].life]]
      /\ stored' = [g \in Game |-> IF play[g].at = "tail" THEN Nothing ELSE stored[g]]
  BY DEF Restart
<1>2. FileTypes' /\ StoredTypes'
  BY <1>1 DEF IInv, Types, FileTypes, StoredTypes
<1>3. PlayTypes'
  <2>1. ASSUME NEW g \in Game PROVE play'[g] \in Play /\ AtWork(g)'
    <3>1. play'[g] = [at |-> "none", life |-> play[g].life, moves |-> 0, pos |-> 0, alone |-> FALSE]
      BY <1>1 DEF NoPlay
    <3>2. play[g].life \in 0 .. MaxGames
      BY PlayFields DEF IInv, Types
    <3>3. play'[g] \in Play
      BY <3>1, <3>2, Sizes DEF Play, Step
    <3>4. QED BY <3>1, <3>3 DEF AtWork
  <2>2. QED BY <1>1, <2>1 DEF PlayTypes
<1>4. TableTypes'
  BY <1>1, SeqsOfSet DEF TableTypes
<1>5. disk \in [Player -> Info \union {NoFile, Short}]
  BY DEF IInv, Types, DiskTypes
<1>6. \A p \in Player : /\ info'[p] \in Info /\ info'[p].played \in Nat
                        /\ disk[p] \in {NoFile, Short} \/ info'[p] = disk[p]
  <2>1. NewInfo \in Info
    BY DEF NewInfo, Info
  <2>2. \A p \in Player : info'[p] = IF p \in loaded THEN disk[p] ELSE NewInfo
    BY <1>1
  <2>3. \A p \in Player : info'[p] \in Info /\ (disk[p] \in {NoFile, Short} \/ info'[p] = disk[p])
    BY <1>5, <2>1, <2>2
  <2>4. QED BY <2>3 DEF Info
<1>7. InfoTypes'
  BY <1>1, <1>6 DEF InfoTypes
<1>8. DiskTypes'
  <2>1. \A p \in Player : disk[p] \in {NoFile, Short} \/ info'[p].played >= disk[p].played
    BY <1>6
  <2>2. QED BY <1>1, <1>5, <2>1 DEF DiskTypes
<1>9. SaverTypes' /\ CountTypes' /\ OpenIsShort' /\ saver'.at = "open"
  BY <1>1 DEF IInv, Types, SaverTypes, Saver, SaverInTable, CountTypes, OpenIsShort, Free
<1>10. ShortFilesAreCounted'
  <2>1. /\ crashes \in Nat /\ failures \in Nat /\ Cardinality(ShortFiles) \in Nat
        /\ Cardinality(ShortFiles) <= crashes + failures + 1
    BY ShortFinite, ShortFilesBound DEF IInv, Types, CountTypes
  <2>2. QED BY <1>1, <1>9, <2>1 DEF ShortFilesAreCounted, ShortFiles
<1>11. QED BY <1>2, <1>3, <1>4, <1>7, <1>8, <1>9, <1>10 DEF IInv, Types

-----------------------------------------------------------------------------
(* The theorems.                                                            *)

\* Every step keeps the inductive invariant.
LEMMA NextKeeps == IInv /\ [Next]_vars => IInv'
<1> SUFFICES ASSUME IInv, [Next]_vars PROVE IInv'
  OBVIOUS
<1>1. ASSUME NEW g \in Game,
             \/ CreateGame(g) \/ PlayMove(g) \/ CreateFile(g) \/ Scan(g)
             \/ WriteHead(g) \/ HeadFails(g) \/ WriteTail(g) \/ TailFails(g)
      PROVE  IInv'
  <2>1. FileTypes' /\ PlayTypes' /\ StoredTypes'
    BY <1>1, CreateGameTypes, PlayMoveTypes, CreateFileTypes, ScanTypes, WriteHeadTypes,
       WriteTailTypes, CutTypes
  <2>2. UNCHANGED <<playerVars, crashes, failures, edits>>
    BY <1>1 DEF CreateGame, PlayMove, CreateFile, Scan, WriteHead, HeadFails, WriteTail, TailFails,
       Cut, bounds
  <2>3. QED BY <2>1, <2>2, PlayersUntouched DEF IInv, Types
<1>2. ASSUME NEW g \in Game, CountResult(g) PROVE IInv'
  BY <1>2, CountResultTypes
<1>3. ASSUME NEW p \in Player, Login(p) \/ SetBio(p) PROVE IInv'
  BY <1>3, LoginTypes, SetBioTypes
<1>4. ASSUME NEW p \in Player, NEW q \in Player, AddFriend(p, q) \/ RemoveFriend(p, q) PROVE IInv'
  BY <1>4, FriendTypes
<1>5. CASE Open \/ Write \/ Fallback \/ Restart
  BY <1>5, OpenTypes, WriteTypes, FallbackTypes, RestartTypes
<1>6. CASE UNCHANGED vars
  <2>1. UNCHANGED gameVars /\ UNCHANGED <<playerVars, crashes, failures, edits>> /\ table' = table
    BY <1>6 DEF vars, playerVars, bounds
  <2>2. FileTypes' /\ PlayTypes' /\ StoredTypes'
    BY <2>1, GamesUntouched
  <2>3. QED BY <2>1, <2>2, PlayersUntouched DEF IInv, Types
<1>7. QED BY <1>1, <1>2, <1>3, <1>4, <1>5, <1>6 DEF Next

\* The inductive invariant: the types, and one failure for each short file.
THEOREM InvariantHolds == Spec => []IInv
<1>1. QED BY InitTypes, NextKeeps, PTL DEF Spec

\* The variables have their types: among others, no move is saved of a game that
\* is not in play, the file of a player is not ahead of the table in memory, and
\* no player is in the table twice.
THEOREM StorageTyped == Spec => []TypeOK
<1>1. IInv => TypeOK
  BY TypesImply DEF IInv
<1>2. QED BY <1>1, InvariantHolds, PTL

\* storage_save_players: however often it runs, and wherever it is cut off or
\* fails, each crash and each failing write costs at most the file of one player.
THEOREM OneFileForEachFailure == Spec => []ShortFilesAreCounted
<1>1. IInv => ShortFilesAreCounted
  BY DEF IInv
<1>2. QED BY <1>1, InvariantHolds, PTL
-----------------------------------------------------------------------------
(* The results and friends on disk.                                         *)

\* What storage_load_players has of a player, and what it differs by.
Loaded(p) == IF disk[p] \in {NoFile, Short} THEN NewInfo ELSE disk[p]
Gap(a, b) ==
  a.played - b.played
    + Cardinality(a.friends \union b.friends) - Cardinality(a.friends \intersect b.friends)
Kept(p) == Loaded(p).played = info[p].played /\ Loaded(p).friends = info[p].friends
Near(p) == Kept(p) \/ Gap(info[p], Loaded(p)) = 1

\* Who is not in the table has no file that could be loaded.
UnknownAreNew == \A p \in Player \ ToSet(table) : disk[p] \in {NoFile, Short} /\ info[p] = NewInfo

\* The files before the one that is written have what the table has; of the others
\* one may lack the change that the save is for.
ResultsOnDisk ==
  failures = 0 => \A i \in DOMAIN table :
    \/ Kept(table[i])
    \/ saver # Free /\ i = saver.next /\ disk[table[i]] = Short
    \/ saver # Free /\ i >= saver.next /\ Near(table[i])

\* A result more, or a friend more or less, is a gap of one.
LEMMA GapOfOne ==
  ASSUME NEW a, NEW b, NEW n \in Nat, NEW friends \in SUBSET Player, NEW q \in Player,
         b.played = n, b.friends = friends,
         \/ a.played = n + 1 /\ a.friends = friends
         \/ a.played = n /\ q \notin friends /\ a.friends = friends \union {q}
         \/ a.played = n /\ q \in friends /\ a.friends = friends \ {q}
  PROVE  Gap(a, b) = 1
<1>1. IsFiniteSet(friends) /\ Cardinality(friends) \in Nat
  BY StorageAssumption, FS_Subset, FS_CardinalityType
<1> DEFINE either == a.friends \union b.friends
           both   == a.friends \intersect b.friends
<1>2. Gap(a, b) = a.played - b.played + Cardinality(either) - Cardinality(both)
  BY DEF Gap
<1>3. CASE a.played = n + 1 /\ a.friends = friends
  <2>1. either = friends /\ both = friends
    BY <1>3
  <2> HIDE DEF either, both
  <2>2. QED BY <1>1, <1>2, <1>3, <2>1
<1>4. CASE a.played = n /\ q \notin friends /\ a.friends = friends \union {q}
  <2>1. either = friends \union {q} /\ both = friends
    BY <1>4
  <2>2. Cardinality(friends \union {q}) = Cardinality(friends) + 1
    BY <1>1, <1>4, FS_AddElement
  <2> HIDE DEF either, both
  <2>3. QED BY <1>1, <1>2, <1>4, <2>1, <2>2
<1>5. CASE a.played = n /\ q \in friends /\ a.friends = friends \ {q}
  <2>1. either = friends /\ both = friends \ {q}
    BY <1>5
  <2>2. Cardinality(friends \ {q}) = Cardinality(friends) - 1
    BY <1>1, <1>5, FS_RemoveElement
  <2> HIDE DEF either, both
  <2>3. QED BY <1>1, <1>2, <1>5, <2>1, <2>2
<1>6. QED BY <1>3, <1>4, <1>5

\* A change of one player, that a save begins with.
LEMMA ChangeIsNear ==
  ASSUME IInv, UnknownAreNew, ResultsOnDisk, NEW p \in ToSet(table), NEW who \in Game \union Player,
         NEW new, info' = [info EXCEPT ![p] = new], Saves(who), table' = table, disk' = disk,
         failures' = failures, Kept(p) => Gap(new, Loaded(p)) = 1
  PROVE  UnknownAreNew' /\ ResultsOnDisk'
<1>1. p \in Player /\ info \in [Player -> Info] /\ table \in Seq(Player) /\ Len(table) \in Nat
  BY TableHasPlace DEF IInv, Types, InfoTypes, TableTypes
<1>2. info'[p] = new /\ \A q \in Player \ {p} : info'[q] = info[q]
  BY <1>1
<1>3. UnknownAreNew'
  BY <1>1, <1>2 DEF UnknownAreNew
<1>4. saver = Free /\ saver'.next = 1 /\ saver'.by = who
  BY DEF Saves, Free
<1>5. saver' # Free
  <2>1. Free.by = Nobody
    BY DEF Free
  <2>2. who # Nobody => saver' # Free
    BY <1>4, <2>1
  <2>3. QED BY <2>2, StorageAssumption DEF Game
<1>6. \A q \in Player : Loaded(q)' = Loaded(q)
  BY DEF Loaded
<1>7. ASSUME failures = 0, NEW i \in DOMAIN table PROVE Near(table[i])'
  <2>1. Kept(table[i]) /\ table[i] \in Player
    BY <1>1, <1>4, <1>7 DEF ResultsOnDisk
  <2>2. CASE table[i] = p
    BY <1>2, <1>6, <2>1, <2>2 DEF Near
  <2>3. CASE table[i] # p
    BY <1>2, <1>6, <2>1, <2>3 DEF Near, Kept
  <2>4. QED BY <2>2, <2>3
<1>8. \A i \in DOMAIN table : i >= saver'.next
  BY <1>1, <1>4
<1>9. QED BY <1>3, <1>5, <1>7, <1>8 DEF ResultsOnDisk

\* A file is written, and the save goes on to the next or ends.
LEMMA WrittenIsKept ==
  ASSUME IInv, UnknownAreNew, ResultsOnDisk, saver.by # Nobody, RestOfSave,
         Holds(info[table[saver.next]]), NextPlayer, Succeeds
  PROVE  UnknownAreNew' /\ ResultsOnDisk'
<1>0. PICK n \in 1 .. Len(table), p \in Player : n = saver.next /\ p = table[n]
  BY Writer
<1>1. /\ table' = table /\ info' = info /\ failures' = failures
      /\ disk' = [disk EXCEPT ![p] = info[p]]
  BY <1>0 DEF RestOfSave, Holds, Succeeds
<1>2. /\ n \in 1 .. Len(table) /\ Len(table) \in Nat /\ p \in Player /\ info[p] # Short
      /\ DOMAIN table = 1 .. Len(table) /\ \A i \in DOMAIN table : table[i] \in Player
      /\ \A i \in DOMAIN table : table[i] = p => i = n
  BY <1>0, Writer DEF IInv, Types, TableTypes, IsInjective
<1>3. disk \in [Player -> Info \union {NoFile, Short}] /\ info[p] \in Info
  BY <1>0, Writer DEF IInv, Types, DiskTypes
<1>4. disk'[p] = info[p] /\ \A q \in Player \ {p} : disk'[q] = disk[q]
  BY <1>1, <1>2, <1>3
<1>5. \/ n < Len(table) /\ saver'.next = n + 1 /\ saver'.by # Nobody
      \/ n = Len(table)
  <2>1. CASE n < Len(table)
    <3>1. saver' = [saver EXCEPT !.next = @ + 1, !.at = "open"] /\ saver \in Saver
      BY <1>0, <2>1, Writer DEF NextPlayer
    <3>2. saver'.next = n + 1 /\ saver'.by = saver.by
      BY <1>0, <3>1 DEF Saver
    <3>3. QED BY <2>1, <3>2
  <2>2. QED BY <1>2, <2>1
<1>6. UnknownAreNew'
  <2>1. p \in ToSet(table)
    BY <1>0, <1>2 DEF ToSet
  <2>2. QED BY <1>1, <1>4, <2>1 DEF UnknownAreNew
<1>7. Loaded(p)' = info[p] \/ info[p] = NoFile
  BY <1>2, <1>4 DEF Loaded
<1>8. info[p] # NoFile
  BY <1>3, StorageAssumption DEF Info
<1>9. \A q \in Player \ {p} : Loaded(q)' = Loaded(q) /\ Kept(q)' = Kept(q) /\ Near(q)' = Near(q)
  BY <1>1, <1>4 DEF Loaded, Kept, Near
<1>10. Kept(p)'
  BY <1>1, <1>7, <1>8 DEF Kept
<1>11. ASSUME failures = 0, NEW i \in DOMAIN table
       PROVE  \/ Kept(table[i])'
              \/ saver' # Free /\ i >= saver'.next /\ Near(table[i])'
  <2>1. CASE i = n
    BY <1>0, <1>1, <1>10, <2>1
  <2>2. CASE i # n
    <3>1. table[i] \in Player \ {p}
      BY <1>0, <1>2, <2>2
    <3>2. Kept(table[i]) \/ (i > n /\ Near(table[i]))
      BY <1>0, <1>2, <1>11, <2>2 DEF ResultsOnDisk
    <3>3. i > n => n < Len(table) /\ saver'.next = n + 1 /\ saver'.by # Nobody
      <4>1. i \in 1 .. Len(table) /\ n \in 1 .. Len(table) /\ Len(table) \in Nat
        BY <1>0, <1>2
      <4>2. i > n => n # Len(table)
        BY <4>1
      <4>3. QED BY <1>5, <4>2
    <3>4. saver'.by # Nobody => saver' # Free
      BY DEF Free
    <3>5. i > n => i >= n + 1
      BY <1>2
    <3>6. QED BY <1>1, <1>9, <3>1, <3>2, <3>3, <3>4, <3>5
  <2>3. QED BY <2>1, <2>2
<1>12. QED BY <1>1, <1>6, <1>11 DEF ResultsOnDisk

\* A list of a set has its members.
LEMMA ListOfSet ==
  ASSUME NEW S \in SUBSET Player, NEW s \in SetToSeqs(S)
  PROVE  s \in Seq(Player) /\ ToSet(s) = S
<1>1. IsFiniteSet(S) /\ Cardinality(S) \in Nat
  BY StorageAssumption, FS_Subset, FS_CardinalityType
<1>2. s \in [1 .. Cardinality(S) -> S] /\ \A i, j \in 1 .. Cardinality(S) : i # j => s[i] # s[j]
  BY DEF SetToSeqs
<1>3. s \in Seq(Player) /\ DOMAIN s = 1 .. Cardinality(S)
  BY <1>2, SeqsOfSet
<1>4. s \in Injection(1 .. Cardinality(S), S)
  BY <1>2 DEF Injection, IsInjective
<1>5. s \in Surjection(1 .. Cardinality(S), S)
  <2>1. Cardinality(1 .. Cardinality(S)) = Cardinality(S)
    BY <1>1, FS_Interval
  <2>2. QED BY <1>1, <1>4, <2>1, FS_Injection
<1>6. QED BY <1>2, <1>3, <1>5 DEF Surjection, ToSet

\* A result is counted for a player of the table.
LEMMA CountResultKeepsResults ==
  ASSUME IInv, UnknownAreNew, ResultsOnDisk, NEW g \in Game, CountResult(g)
  PROVE  UnknownAreNew' /\ ResultsOnDisk'
<1>1. Saves(g) /\ table' = table /\ disk' = disk /\ failures' = failures
  BY DEF CountResult, bounds
<1>2. PICK n \in 1 .. 2 :
        play[g].at = (<<"count1", "count2">>)[n] /\ info' = [info EXCEPT ![g[n]].played = @ + 1]
  BY DEF CountResult
<1>3. play[g].at # "none"
  BY <1>2
<1>4. g[n] \in ToSet(table)
  BY <1>3, PlayFields DEF IInv, Types, AtWork
<1> DEFINE p == g[n]
           new == [info[p] EXCEPT !.played = @ + 1]
<1>5. p \in Player /\ info \in [Player -> Info]
  BY <1>4, TableHasPlace DEF IInv, Types, InfoTypes
<1>6. info[p] \in Info /\ info[p].played \in Nat /\ info[p].friends \in SUBSET Player
      /\ new.played = info[p].played + 1 /\ new.friends = info[p].friends
  BY <1>5 DEF Info
<1>7. info' = [info EXCEPT ![p] = new]
  BY <1>2, <1>5
<1> HIDE DEF new, p
<1>8. Kept(p) => Gap(new, Loaded(p)) = 1
  BY <1>5, <1>6, GapOfOne DEF Kept
<1>9. p \in ToSet(table) /\ g \in Game \union Player
  BY <1>4 DEF p
<1>10. QED BY <1>1, <1>7, <1>8, <1>9, ChangeIsNear

\* So is a change of friends.
LEMMA FriendKeepsResults ==
  ASSUME IInv, UnknownAreNew, ResultsOnDisk, NEW p \in Player, NEW q \in Player,
         AddFriend(p, q) \/ RemoveFriend(p, q)
  PROVE  UnknownAreNew' /\ ResultsOnDisk'
<1>1. /\ table' = table /\ disk' = disk /\ Saves(p) /\ p \in ToSet(table) /\ failures' = failures
  BY DEF AddFriend, RemoveFriend
<1>2. info \in [Player -> Info]
  BY DEF IInv, Types, InfoTypes
<1>3. info[p].played \in Nat /\ info[p].friends \in SUBSET Player
  BY <1>2 DEF Info
<1>4. PICK friends \in SUBSET Player :
        /\ info' = [info EXCEPT ![p] = [info[p] EXCEPT !.friends = friends]]
        /\ \/ q \notin info[p].friends /\ friends = info[p].friends \union {q}
           \/ q \in info[p].friends /\ friends = info[p].friends \ {q}
  <2>1. CASE AddFriend(p, q)
    <3>1. info' = [info EXCEPT ![p] = [info[p] EXCEPT !.friends = info[p].friends \union {q}]]
      BY <1>2, <2>1 DEF AddFriend
    <3>2. q \notin info[p].friends
      BY <2>1 DEF AddFriend
    <3>3. QED BY <1>3, <3>1, <3>2
  <2>2. CASE RemoveFriend(p, q)
    <3>1. info' = [info EXCEPT ![p] = [info[p] EXCEPT !.friends = info[p].friends \ {q}]]
      BY <1>2, <2>2 DEF RemoveFriend
    <3>2. q \in info[p].friends
      BY <2>2 DEF RemoveFriend
    <3>3. QED BY <1>3, <3>1, <3>2
  <2>3. QED BY <2>1, <2>2
<1> DEFINE new == [info[p] EXCEPT !.friends = friends]
<1>5. new.played = info[p].played /\ new.friends = friends
  BY <1>2 DEF Info
<1>6. info' = [info EXCEPT ![p] = new]
  BY <1>4
<1> HIDE DEF new
<1>7. Kept(p) => Gap(new, Loaded(p)) = 1
  BY <1>3, <1>4, <1>5, GapOfOne DEF Kept
<1>8. p \in Game \union Player
  OBVIOUS
<1>9. QED BY <1>1, <1>6, <1>7, <1>8, ChangeIsNear

\* A new player has nothing to lose.
LEMMA LoginKeepsResults ==
  ASSUME IInv, UnknownAreNew, ResultsOnDisk, NEW p \in Player, Login(p)
  PROVE  UnknownAreNew' /\ ResultsOnDisk'
<1>1. /\ saver = Free /\ p \notin ToSet(table) /\ table' = Append(table, p)
      /\ info' = info /\ disk' = disk /\ saver' = saver /\ failures' = failures
  BY DEF Login, bounds
<1>2. table \in Seq(Player)
  BY DEF IInv, Types, TableTypes
<1>3. /\ Len(table) \in Nat /\ DOMAIN table' = 1 .. Len(table) + 1 /\ DOMAIN table = 1 .. Len(table)
      /\ table'[Len(table) + 1] = p /\ \A i \in 1 .. Len(table) : table'[i] = table[i]
  BY <1>1, <1>2
<1>4. UnknownAreNew'
  <2>1. ToSet(table) \subseteq ToSet(table')
    BY <1>3 DEF ToSet
  <2>2. QED BY <1>1, <2>1 DEF UnknownAreNew
<1>5. Kept(p)'
  <2>1. disk[p] \in {NoFile, Short} /\ info[p] = NewInfo
    BY <1>1 DEF UnknownAreNew
  <2>2. QED BY <1>1, <2>1 DEF Kept, Loaded
<1>7. ASSUME failures = 0, NEW i \in DOMAIN table' PROVE Kept(table[i])'
  <2>1. CASE i \in DOMAIN table
    <3>1. Kept(table[i])
      BY <1>1, <1>7, <2>1 DEF ResultsOnDisk
    <3>2. QED BY <1>1, <1>3, <2>1, <3>1 DEF Kept, Loaded
  <2>2. CASE i = Len(table) + 1
    BY <1>3, <1>5, <2>2 DEF Kept, Loaded
  <2>3. QED BY <1>3, <2>1, <2>2
<1>8. QED BY <1>1, <1>4, <1>7 DEF ResultsOnDisk

\* A bio is neither a result nor a friend.
LEMMA SetBioKeepsResults ==
  ASSUME IInv, UnknownAreNew, ResultsOnDisk, NEW p \in Player, SetBio(p)
  PROVE  UnknownAreNew' /\ ResultsOnDisk'
<1>1. /\ table' = table /\ disk' = disk /\ saver' = saver /\ saver = Free /\ failures' = failures
      /\ p \in ToSet(table) /\ info' = [info EXCEPT ![p].bio = TRUE]
  BY DEF SetBio
<1>2. info \in [Player -> Info] /\ table \in Seq(Player)
  BY DEF IInv, Types, InfoTypes, TableTypes
<1>3. \A q \in Player : /\ info'[q].played = info[q].played /\ info'[q].friends = info[q].friends
                        /\ q # p => info'[q] = info[q]
  BY <1>1, <1>2 DEF Info
<1>4. \A q \in Player : Kept(q)' = Kept(q)
  BY <1>1, <1>3 DEF Kept, Loaded
<1>5. UnknownAreNew'
  BY <1>1, <1>3 DEF UnknownAreNew
<1>6. \A i \in DOMAIN table : table[i] \in Player
  BY <1>2
<1>7. QED BY <1>1, <1>4, <1>5, <1>6 DEF ResultsOnDisk

\* The file that is opened is the one of the player whose turn it is.
LEMMA OpenKeepsResults ==
  ASSUME IInv, UnknownAreNew, ResultsOnDisk, Open
  PROVE  UnknownAreNew' /\ ResultsOnDisk'
<1>1. saver.by # Nobody /\ table' = table /\ info' = info
  BY DEF Open, Writes, RestOfSave
<1>2. failures \in Nat
  BY DEF IInv, Types, CountTypes
<1>3. CASE UNCHANGED disk /\ Fails
  <2>1. failures' # 0
    BY <1>2, <1>3 DEF Fails
  <2>2. QED BY <1>1, <1>3, <2>1 DEF UnknownAreNew, ResultsOnDisk
<1>4. CASE Holds(Short) /\ Continues("write") /\ Succeeds
  <2> DEFINE n == saver.next
             p == table[n]
  <2>1. /\ n \in 1 .. Len(table) /\ Len(table) \in Nat /\ p \in Player
        /\ DOMAIN table = 1 .. Len(table) /\ \A i \in DOMAIN table : table[i] \in Player
        /\ \A i \in DOMAIN table : table[i] = p => i = n
    BY <1>1, Writer DEF IInv, Types, TableTypes, IsInjective
  <2>2. disk'[p] = Short /\ \A q \in Player \ {p} : disk'[q] = disk[q]
    BY <1>4, <2>1 DEF Holds, IInv, Types, DiskTypes
  <2>3. saver'.next = n /\ saver'.by = saver.by /\ failures' = failures
    BY <1>1, <1>4, Writer DEF Continues, Saver, Succeeds
  <2>4. saver' # Free /\ saver # Free
    BY <1>1, <2>3 DEF Free
  <2>5. UnknownAreNew'
    <3>1. p \in ToSet(table)
      BY <2>1 DEF ToSet
    <3>2. QED BY <1>1, <2>2, <3>1 DEF UnknownAreNew
  <2>6. \A q \in Player \ {p} : Kept(q)' = Kept(q) /\ Near(q)' = Near(q)
    BY <1>1, <2>2 DEF Loaded, Kept, Near
  <2> HIDE DEF p, n
  <2>7. ASSUME failures = 0, NEW i \in DOMAIN table, i # n
        PROVE  Kept(table[i])' \/ (i >= n /\ Near(table[i])')
    <3>1. table[i] \in Player \ {p}
      BY <2>1, <2>7 DEF p
    <3>2. Kept(table[i]) \/ (i >= n /\ Near(table[i]))
      BY <2>7 DEF ResultsOnDisk, n
    <3>3. QED BY <1>1, <2>6, <3>1, <3>2
  <2>8. disk'[table[n]] = Short
    BY <2>2 DEF p
  <2>9. QED BY <1>1, <2>3, <2>4, <2>5, <2>7, <2>8 DEF ResultsOnDisk
<1>5. QED BY <1>3, <1>4 DEF Open

\* The server that starts again has what the files have.
LEMMA RestartKeepsResults ==
  ASSUME IInv, Restart
  PROVE  UnknownAreNew' /\ ResultsOnDisk' /\ \A p \in Player : info'[p] = Loaded(p)
<1> DEFINE loaded == {p \in Player : disk[p] \notin {NoFile, Short}}
<1>1. /\ disk' = disk /\ table' \in SetToSeqs(loaded)
      /\ info' = [p \in Player |-> IF p \in loaded THEN disk[p] ELSE NewInfo]
  BY DEF Restart
<1>2. \A p \in Player : info'[p] = Loaded(p)
  BY <1>1 DEF Loaded
<1>3. table' \in Seq(Player) /\ ToSet(table') = loaded
  BY <1>1, ListOfSet DEF loaded
<1>4. UnknownAreNew'
  BY <1>1, <1>3 DEF UnknownAreNew
<1>5. \A p \in Player : Kept(p)'
  BY <1>1, <1>2 DEF Kept, Loaded
<1>6. \A i \in DOMAIN table' : table'[i] \in Player
  BY <1>3
<1>7. QED BY <1>2, <1>4, <1>5, <1>6 DEF ResultsOnDisk

\* A save does not get to a file that is left as it was without a failure.
LEMMA StepKeepsResults ==
  ASSUME IInv, UnknownAreNew, ResultsOnDisk, [Next]_vars
  PROVE  UnknownAreNew' /\ ResultsOnDisk'
<1>1. ASSUME UNCHANGED <<playerVars, failures>> PROVE UnknownAreNew' /\ ResultsOnDisk'
  BY <1>1 DEF UnknownAreNew, ResultsOnDisk, Kept, Near, Loaded, playerVars
<1>2. ASSUME NEW g \in Game,
             \/ CreateGame(g) \/ PlayMove(g) \/ CreateFile(g) \/ Scan(g)
             \/ WriteHead(g) \/ HeadFails(g) \/ WriteTail(g) \/ TailFails(g)
      PROVE  UnknownAreNew' /\ ResultsOnDisk'
  <2>1. UNCHANGED <<playerVars, failures>>
    BY <1>2 DEF CreateGame, PlayMove, CreateFile, Scan, WriteHead, HeadFails, WriteTail, TailFails,
       Cut, bounds
  <2>2. QED BY <1>1, <2>1
<1>3. ASSUME NEW g \in Game, CountResult(g) PROVE UnknownAreNew' /\ ResultsOnDisk'
  BY <1>3, CountResultKeepsResults
<1>4. ASSUME NEW p \in Player, Login(p) PROVE UnknownAreNew' /\ ResultsOnDisk'
  BY <1>4, LoginKeepsResults
<1>5. ASSUME NEW p \in Player, SetBio(p) PROVE UnknownAreNew' /\ ResultsOnDisk'
  BY <1>5, SetBioKeepsResults
<1>6. ASSUME NEW p \in Player, NEW q \in Player, AddFriend(p, q) \/ RemoveFriend(p, q)
      PROVE  UnknownAreNew' /\ ResultsOnDisk'
  BY <1>6, FriendKeepsResults
<1>7. CASE Open
  BY <1>7, OpenKeepsResults
<1>8. ASSUME UNCHANGED disk, Fails, table' = table, info' = info PROVE UnknownAreNew' /\ ResultsOnDisk'
  <2>1. failures \in Nat /\ failures' = failures + 1
    BY <1>8 DEF IInv, Types, CountTypes, Fails
  <2>2. failures' # 0
    BY <2>1
  <2>3. QED BY <1>8, <2>2 DEF UnknownAreNew, ResultsOnDisk
<1>9. CASE Write
  <2>1. saver.by # Nobody /\ RestOfSave /\ table' = table /\ info' = info
    BY <1>9 DEF Write, Writes, RestOfSave
  <2>2. CASE Holds(info[table[saver.next]]) /\ NextPlayer /\ Succeeds
    BY <2>1, <2>2, WrittenIsKept
  <2>3. CASE UNCHANGED disk /\ Fails
    BY <1>8, <2>1, <2>3
  <2>4. QED BY <1>9, <2>2, <2>3 DEF Write
<1>10. CASE Fallback
  <2>1. saver.by # Nobody /\ RestOfSave /\ table' = table /\ info' = info
    BY <1>10 DEF Fallback, Writes, RestOfSave
  <2>2. CASE Holds(info[table[saver.next]]) /\ NextPlayer /\ Succeeds
    BY <2>1, <2>2, WrittenIsKept
  <2>3. CASE UNCHANGED disk /\ Fails
    BY <1>8, <2>1, <2>3
  <2>4. QED BY <1>10, <2>2, <2>3 DEF Fallback
<1>11. CASE Restart
  BY <1>11, RestartKeepsResults
<1>12. CASE UNCHANGED vars
  BY <1>1, <1>12 DEF vars, bounds
<1>13. QED BY <1>2, <1>3, <1>4, <1>5, <1>6, <1>7, <1>9, <1>10, <1>11, <1>12 DEF Next

\* Nobody has a result at first, and who is known has friends on disk.
LEMMA InitResults == Init => UnknownAreNew /\ ResultsOnDisk
<1> SUFFICES ASSUME Init PROVE UnknownAreNew /\ ResultsOnDisk
  OBVIOUS
<1>1. PICK known \in {{}, Player} :
        LET all == [p \in Player |-> [NewInfo EXCEPT !.friends = known \ {p}]]
        IN  table \in SetToSeqs(known) /\ info = all
            /\ disk = [p \in Player |-> IF p \in known THEN all[p] ELSE NoFile]
  BY DEF Init
<1>2. known \subseteq Player
  BY <1>1
<1>3. table \in Seq(Player) /\ ToSet(table) = known
  BY <1>1, <1>2, ListOfSet
<1>4. \A p \in Player : \/ p \notin known /\ disk[p] = NoFile
                        \/ p \in known /\ disk[p] = info[p] /\ info[p] \in Info
  BY <1>1 DEF NewInfo, Info
<1>5. \A p \in Player : p \notin known => info[p] = NewInfo
  <2>1. ASSUME NEW p \in Player, p \notin known PROVE info[p] = NewInfo
    <3>1. known = {}
      BY <1>1, <2>1
    <3>2. QED BY <1>1, <2>1, <3>1 DEF NewInfo
  <2>2. QED BY <2>1
<1>6. \A p \in Player : Kept(p)
  <2>1. NoFile \notin Info /\ Short \notin Info
    BY StorageAssumption DEF Info
  <2>2. QED BY <1>4, <1>5, <2>1 DEF Kept, Loaded
<1>7. UnknownAreNew
  BY <1>3, <1>4, <1>5 DEF UnknownAreNew
<1>8. ResultsOnDisk
  <2>1. \A i \in DOMAIN table : table[i] \in Player
    BY <1>3
  <2>2. QED BY <1>6, <2>1 DEF ResultsOnDisk
<1>9. QED BY <1>7, <1>8

\* What a crash may cost.
LEMMA CrashCost ==
  ASSUME IInv, UnknownAreNew, ResultsOnDisk, Restart, failures = 0, NEW p \in ToSet(table)
  PROVE  \/ info'[p].played = info[p].played /\ info'[p].friends = info[p].friends
         \/ /\ saver # Free
            /\ \/ disk[p] = Short /\ p = table[saver.next]
               \/ info[p].played - info'[p].played
                    + Cardinality(info[p].friends \union info'[p].friends)
                    - Cardinality(info[p].friends \intersect info'[p].friends) = 1
<1>1. PICK i \in DOMAIN table : table[i] = p
  BY DEF ToSet
<1>2. p \in Player
  BY TableHasPlace DEF IInv, Types
<1>3. info'[p] = Loaded(p)
  BY <1>2, RestartKeepsResults
<1>4. \/ Kept(p)
      \/ saver # Free /\ i = saver.next /\ disk[p] = Short
      \/ saver # Free /\ Near(p)
  BY <1>1 DEF ResultsOnDisk
<1>5. QED BY <1>1, <1>3, <1>4 DEF Kept, Near, Gap

\* storage_save_players and storage_load_players: a crash costs a player no more
\* than the change that was being saved, or, of one player, the file, for any
\* number of players, however long the server has run.
THEOREM CrashCostsOneChange == Spec => ResultsSurvive
<1>1. Init => IInv /\ UnknownAreNew /\ ResultsOnDisk
  BY InitTypes, InitResults
<1>2. /\ IInv /\ UnknownAreNew /\ ResultsOnDisk /\ [Next]_vars
      => (IInv /\ UnknownAreNew /\ ResultsOnDisk)'
  BY NextKeeps, StepKeepsResults
<1> DEFINE Cost ==
      crashes' # crashes /\ failures = 0 =>
        \A p \in ToSet(table) :
          \/ info'[p].played = info[p].played /\ info'[p].friends = info[p].friends
          \/ /\ saver # Free
             /\ \/ disk[p] = Short /\ p = table[saver.next]
                \/ info[p].played - info'[p].played
                     + Cardinality(info[p].friends \union info'[p].friends)
                     - Cardinality(info[p].friends \intersect info'[p].friends) = 1
<1>3. IInv /\ UnknownAreNew /\ ResultsOnDisk /\ [Next]_vars => Cost
  <2> SUFFICES ASSUME IInv, UnknownAreNew, ResultsOnDisk, [Next]_vars,
                      crashes' # crashes, failures = 0
               PROVE  Cost
    OBVIOUS
  <2>1. Restart
    BY DEF Next, vars, bounds, CreateGame, PlayMove, CreateFile, Scan, WriteHead, HeadFails,
       WriteTail, TailFails, Cut, CountResult, Login, SetBio, AddFriend, RemoveFriend, Open, Write, Fallback, RestOfSave
  <2>2. QED BY <2>1, CrashCost
<1>4. QED BY <1>1, <1>2, <1>3, PTL DEF Spec, ResultsSurvive
-----------------------------------------------------------------------------
(* Saved games.                                                             *)

InSave(g) == play[g].at \in {"head", "tail"}

\* No place before this one has the game.
Foremost(g, p) == \A i \in Found(g) : p <= i

\* The first piece of the record of a game is at this place.
HeadAt(g, p) ==
  /\ p + HeadCells - 1 <= Len(file)
  /\ \A n \in 1 .. HeadCells : file[p + n - 1] = Cell(RecordOf(g), n)

\* The thread of a game writes beyond the record at a place, or another record.
Beside(g, p) ==
  play[g].pos >= p + RecordCells \/ (play[g].pos % RecordCells = 1 /\ play[g].pos # p)

\* A game has its record at a place, where its own thread writes and no other.
StaysAt(g, p) ==
  /\ p \in Found(g) /\ Foremost(g, p)
  /\ InSave(g) => play[g].pos = p
  /\ play[g].at = "tail" => HeadAt(g, p)
  /\ play[g].at # "tail" /\ stored[g] # Nothing =>
       \A n \in 1 .. RecordCells : file[p + n - 1] = Cell(stored[g], n)
  /\ \A h \in Game \ {g} : InSave(h) => Beside(h, p)

SafeStay == \A g \in safe : \E p \in Nat : StaysAt(g, p)

\* games.dat is there when a thread writes it, and is not made again when a game
\* is safe.
FileIsThere ==
  /\ \A g \in Game : play[g].at = "scan" \/ InSave(g) => exists
  /\ safe # {} => exists /\ \A g \in Game : play[g].at # "create"

\* A save that has been the only one still is, and has found the place of its
\* game, if it is at a place for a whole record.
AloneIsAlone == \A g \in Game : play[g].alone /\ Saving(g) => \A h \in Game \ {g} : ~Saving(h)
AloneIsFirst ==
  \A g \in Game :
    play[g].alone /\ InSave(g) /\ play[g].pos % RecordCells = 1 =>
      /\ play[g].pos <= Len(file) + 1 /\ Foremost(g, play[g].pos)
      /\ play[g].at = "tail" => HeadAt(g, play[g].pos)

\* A thread that saves the players for a game counts the result of that game.
SaverCounts == saver.by \in Game => play[saver.by].at \in {"count1", "count2"}

SavesInv == SafeStay /\ FileIsThere /\ AloneIsAlone /\ AloneIsFirst /\ SaverCounts

\* Places for whole records are a record apart.
LEMMA Apart ==
  ASSUME NEW a \in Nat, NEW b \in Nat, NEW n \in Nat \ {0}, a % n = b % n, a < b
  PROVE  a + n <= b
<1> DEFINE qa == a \div n
           qb == b \div n
           r == a % n
<1>1. /\ qa \in Int /\ qb \in Int /\ r \in Int /\ qa * n \in Int /\ qb * n \in Int
      /\ a = qa * n + r /\ b = qb * n + r
  OBVIOUS
<1> HIDE DEF qa, qb, r
<1>2. qa * n < qb * n
  BY <1>1
<1>3. qa + 1 <= qb
  <2> SUFFICES ASSUME qb <= qa PROVE FALSE
    BY <1>1
  <2>1. qb * n <= qa * n
    BY <1>1
  <2>2. QED BY <1>1, <1>2, <2>1
<1>4. (qa + 1) * n <= qb * n
  BY <1>1, <1>3
<1>5. (qa + 1) * n = qa * n + n
  BY <1>1
<1>6. QED BY <1>1, <1>4, <1>5

\* A set of numbers has a least one.
LEMMA Least ==
  ASSUME NEW S \in SUBSET Nat, S # {}
  PROVE  \E p \in S : \A i \in S : p <= i
<1>1. IsWellFoundedOn(OpToRel(<, Nat), Nat)
  BY NatLessThanWellFounded
<1>2. PICK p \in S : \A i \in Nat : <<i, p>> \in OpToRel(<, Nat) => ~(i \in S)
  BY <1>1, WFMin
<1>3. \A i \in S : ~(i < p)
  BY <1>2 DEF OpToRel
<1>4. QED BY <1>3

\* And that is the one which is found first.
LEMMA FirstIs ==
  ASSUME NEW S \in SUBSET Nat, NEW p \in S, \A i \in S : p <= i
  PROVE  First(S) = p
<1>1. \A q \in S : (\A i \in S : q <= i) => q = p
  OBVIOUS
<1>2. QED BY <1>1 DEF First

\* Places of games.
LEMMA FoundAreNumbers ==
  ASSUME file \in Seq(Cells), NEW g \in Game
  PROVE  /\ Found(g) \in SUBSET Nat /\ Len(file) \in Nat /\ DOMAIN file = 1 .. Len(file)
         /\ \A i \in Found(g) :
              /\ i \in 1 .. Len(file) /\ i % RecordCells = 1 /\ i + RecordCells - 1 <= Len(file)
              /\ file[i].part = 1 /\ file[i].of.game = g
  BY DEF Found, Places

\* The place that is found first, if the game has one.
LEMMA FirstFound ==
  ASSUME file \in Seq(Cells), NEW g \in Game, Found(g) # {}
  PROVE  First(Found(g)) \in Found(g) /\ Foremost(g, First(Found(g)))
<1>1. Found(g) \in SUBSET Nat
  BY FoundAreNumbers
<1>2. PICK p \in Found(g) : \A i \in Found(g) : p <= i
  BY <1>1, Least
<1>3. First(Found(g)) = p
  BY <1>1, <1>2, FirstIs
<1>4. QED BY <1>2, <1>3 DEF Foremost

\* Where a thread writes the pieces from one to another of its record.
Written(g, from, to) == play[g].pos + from - 1 .. play[g].pos + to - 1

\* What a write does: it puts cells of one record, and leaves the others.
LEMMA PutIs ==
  ASSUME file \in Seq(Cells), PlayTypes, NEW g \in Game, InSave(g),
         NEW from \in 1 .. RecordCells, NEW to \in 1 .. RecordCells, file' = Put(g, from, to)
  PROVE  /\ Len(file') \in Nat /\ Len(file') >= Len(file) /\ Len(file') >= play[g].pos + to - 1
         /\ DOMAIN file' = 1 .. Len(file') /\ play[g].pos \in Nat /\ play[g].pos >= 1
         /\ \A i \in Written(g, from, to) : file'[i] = Cell(RecordOf(g), i - play[g].pos + 1)
         /\ \A i \in 1 .. Len(file) : i \notin Written(g, from, to) => file'[i] = file[i]
         /\ \A i \in 1 .. Len(file') :
              i \notin Written(g, from, to) /\ i > Len(file) => file'[i] = Hole
<1> DEFINE pos == play[g].pos
           end == pos + to - 1
           size == IF end > Len(file) THEN end ELSE Len(file)
           cell(i) == IF i \in pos + from - 1 .. end THEN Cell(RecordOf(g), i - pos + 1)
                      ELSE IF i \in DOMAIN file THEN file[i] ELSE Hole
<1>1. pos \in Nat /\ pos >= 1
  BY PlayFields DEF AtWork, InSave
<1>2. from \in Nat /\ to \in Nat /\ from >= 1 /\ to >= 1 /\ Len(file) \in Nat /\ DOMAIN file = 1 .. Len(file)
  BY Sizes
<1>3. file' = [i \in 1 .. size |-> cell(i)]
  BY DEF Put
<1> HIDE DEF pos
<1>4. size \in Nat /\ size >= Len(file) /\ size >= end /\ end \in Int
  BY <1>1, <1>2
<1>5. file' \in Seq(Cells)
  BY PutTypes DEF InSave
<1> HIDE DEF size, cell
<1>6. Len(file') = size /\ DOMAIN file' = 1 .. size /\ \A i \in 1 .. size : file'[i] = cell(i)
  BY <1>3, <1>4, <1>5
<1>7. Written(g, from, to) = pos + from - 1 .. end
  BY DEF Written, pos
<1>8. pos + from - 1 .. end \subseteq 1 .. size
  BY <1>1, <1>2, <1>4
<1>9. \A i \in Written(g, from, to) : file'[i] = Cell(RecordOf(g), i - pos + 1)
  BY <1>6, <1>7, <1>8 DEF cell
<1>10. \A i \in 1 .. size : i \notin Written(g, from, to) =>
          file'[i] = IF i \in DOMAIN file THEN file[i] ELSE Hole
  BY <1>6, <1>7 DEF cell
<1>11. 1 .. Len(file) \subseteq 1 .. size
  BY <1>2, <1>4
<1>12. \A i \in 1 .. size : i > Len(file) => i \notin DOMAIN file
  BY <1>2
<1>13. \A i \in 1 .. Len(file) : i \notin Written(g, from, to) => file'[i] = file[i]
  BY <1>2, <1>10, <1>11
<1>14. \A i \in 1 .. size : i \notin Written(g, from, to) /\ i > Len(file) => file'[i] = Hole
  BY <1>10, <1>12
<1>15. QED BY <1>1, <1>4, <1>6, <1>9, <1>13, <1>14 DEF pos

\* A write that is not before a place for a whole record puts nothing before it
\* where the game is found.
LEMMA StaysForemost ==
  ASSUME file \in Seq(Cells), PlayTypes, NEW g \in Game, NEW k \in Game, InSave(k),
         NEW from \in 1 .. RecordCells, NEW to \in 1 .. RecordCells, file' = Put(k, from, to),
         NEW p \in Nat, p <= Len(file) + 1, p % RecordCells = 1, Foremost(g, p),
         k # g \/ play[k].pos = p
  PROVE  Foremost(g, p)'
<1> SUFFICES ASSUME NEW i \in Found(g)', i < p PROVE FALSE
  <2>1. \A i \in Found(g)' : i \in Int
    <3>1. DOMAIN file' = 1 .. Len(file') /\ Len(file') \in Nat
      BY PutIs
    <3>2. QED BY <3>1 DEF Found, Places
  <2>2. QED BY <2>1 DEF Foremost
<1>1. /\ i \in 1 .. Len(file') /\ i % RecordCells = 1
      /\ file'[i].part = 1 /\ file'[i].of.game = g
  BY PutIs DEF Found, Places
<1>2. i \in Nat /\ Len(file) \in Nat /\ DOMAIN file = 1 .. Len(file) /\ RecordCells \in Nat \ {0}
  BY <1>1, PutIs, Sizes
<1>3. i + RecordCells <= p
  BY <1>1, <1>2, Apart
<1>4. i \in 1 .. Len(file) /\ i + RecordCells - 1 <= Len(file)
  BY <1>1, <1>2, <1>3
<1>5. i \notin Written(k, from, to)
  <2>1. CASE k # g
    <3>1. i \in Written(k, from, to) => file'[i] = Cell(RecordOf(k), i - play[k].pos + 1)
      BY PutIs
    <3>2. QED BY <1>1, <2>1, <3>1 DEF Cell, RecordOf
  <2>2. CASE play[k].pos = p
    BY <1>2, <2>2 DEF Written
  <2>3. QED BY <2>1, <2>2
<1>6. file'[i] = file[i]
  BY <1>4, <1>5, PutIs
<1>7. i \in Found(g)
  BY <1>1, <1>2, <1>4, <1>6 DEF Found, Places
<1>8. QED BY <1>2, <1>7 DEF Foremost

\* A write of another game, beside the record of a game.
LEMMA WrittenBeside ==
  ASSUME file \in Seq(Cells), PlayTypes, NEW g \in Game, NEW k \in Game, k # g, InSave(k),
         NEW from \in 1 .. RecordCells, NEW to \in 1 .. RecordCells, file' = Put(k, from, to),
         NEW p \in Found(g), Foremost(g, p), Beside(k, p)
  PROVE  /\ p \in Found(g)' /\ Foremost(g, p)'
         /\ \A n \in 1 .. RecordCells : file'[p + n - 1] = file[p + n - 1]
<1>1. /\ p \in 1 .. Len(file) /\ p % RecordCells = 1 /\ p + RecordCells - 1 <= Len(file)
      /\ Len(file) \in Nat /\ file[p].part = 1 /\ file[p].of.game = g
  BY FoundAreNumbers
<1>2. RecordCells \in Nat \ {0} /\ play[k].pos \in Nat
  BY Sizes, PutIs
<1> DEFINE q == play[k].pos
<1>3. q >= p + RecordCells \/ q + RecordCells <= p
  <2>1. p \in Nat /\ q \in Nat
    BY <1>1, <1>2
  <2>2. ASSUME q % RecordCells = 1, q # p PROVE q >= p + RecordCells \/ q + RecordCells <= p
    <3> HIDE DEF q
    <3>1. q % RecordCells = p % RecordCells
      BY <1>1, <2>2
    <3>2. q < p => q + RecordCells <= p
      BY <1>2, <2>1, <3>1, Apart
    <3>3. p < q => p + RecordCells <= q
      BY <1>2, <2>1, <3>1, Apart
    <3>4. q < p \/ p < q
      BY <2>1, <2>2
    <3>5. p + RecordCells <= q => q >= p + RecordCells
      BY <1>2, <2>1
    <3>6. QED BY <3>2, <3>3, <3>4, <3>5
  <2>3. QED BY <2>2 DEF Beside
<1>4. ASSUME NEW n \in 1 .. RecordCells
      PROVE  p + n - 1 \in 1 .. Len(file) /\ p + n - 1 \notin Written(k, from, to)
  <2>1. /\ n \in Int /\ from \in Int /\ to \in Int /\ n >= 1 /\ from >= 1
        /\ n <= RecordCells /\ to <= RecordCells
    BY <1>2
  <2>2. p + n - 1 \in 1 .. Len(file)
    BY <1>1, <1>2, <2>1
  <2>3. ~(play[k].pos + from - 1 <= p + n - 1 /\ p + n - 1 <= play[k].pos + to - 1)
    BY <1>1, <1>2, <1>3, <2>1
  <2>4. QED BY <2>2, <2>3 DEF Written
<1>5. \A n \in 1 .. RecordCells : file'[p + n - 1] = file[p + n - 1]
  BY <1>4, PutIs
<1>6. 1 \in 1 .. RecordCells /\ p + 1 - 1 = p
  BY <1>1, <1>2
<1>7. file'[p] = file[p]
  BY <1>5, <1>6
<1>8. Len(file') >= Len(file) /\ Len(file') \in Nat /\ DOMAIN file' = 1 .. Len(file')
  BY PutIs
<1>9. p \in 1 .. Len(file') /\ p + RecordCells - 1 <= Len(file')
  BY <1>1, <1>2, <1>8
<1>10. p \in Found(g)'
  BY <1>1, <1>7, <1>8, <1>9 DEF Found, Places
<1>11. Foremost(g, p)'
  <2>1. p \in Nat /\ p <= Len(file) + 1
    BY <1>1
  <2>2. QED BY <1>1, <2>1, StaysForemost
<1>12. QED BY <1>5, <1>10, <1>11

\* A write leaves what is safe of other games.
LEMMA OthersStay ==
  ASSUME file \in Seq(Cells), PlayTypes, NEW k \in Game, InSave(k),
         NEW from \in 1 .. RecordCells, NEW to \in 1 .. RecordCells, file' = Put(k, from, to),
         \A h \in Game \ {k} : play'[h] = play[h] /\ stored'[h] = stored[h],
         InSave(k)' => play'[k].pos = play[k].pos,
         NEW g \in Game \ {k}, NEW p \in Nat, StaysAt(g, p)
  PROVE  StaysAt(g, p)'
<1>1. p \in Found(g) /\ Foremost(g, p) /\ Beside(k, p)
  BY DEF StaysAt
<1>2. /\ p \in Found(g)' /\ Foremost(g, p)'
      /\ \A n \in 1 .. RecordCells : file'[p + n - 1] = file[p + n - 1]
  BY <1>1, WrittenBeside
<1>3. play'[g] = play[g] /\ stored'[g] = stored[g]
  OBVIOUS
<1>4. InSave(g)' => play'[g].pos = p
  BY <1>3 DEF StaysAt, InSave
<1>5. play'[g].at = "tail" => HeadAt(g, p)'
  <2>1. ASSUME play[g].at = "tail"
        PROVE  /\ p + HeadCells - 1 <= Len(file')
               /\ \A n \in 1 .. HeadCells : file'[p + n - 1] = Cell(RecordOf(g)', n)
    <3>1. HeadAt(g, p)
      BY <2>1 DEF StaysAt
    <3>2. RecordOf(g)' = RecordOf(g)
      BY <1>3 DEF RecordOf
    <3>3. \A n \in 1 .. HeadCells : n \in 1 .. RecordCells
      BY Sizes
    <3>4. Len(file') >= Len(file) /\ Len(file') \in Nat /\ Len(file) \in Nat
      BY PutIs
    <3>5. QED BY <1>2, <3>1, <3>2, <3>3, <3>4, Sizes DEF HeadAt
  <2>2. QED BY <1>3, <2>1 DEF HeadAt
<1>6. play'[g].at # "tail" /\ stored'[g] # Nothing =>
        \A n \in 1 .. RecordCells : file'[p + n - 1] = Cell(stored'[g], n)
  BY <1>2, <1>3 DEF StaysAt
<1>7. ASSUME NEW h \in Game \ {g}, InSave(h)' PROVE Beside(h, p)'
  <2>1. play'[h].pos = play[h].pos /\ InSave(h)
    BY <1>7 DEF InSave
  <2>2. Beside(h, p)
    BY <2>1 DEF StaysAt
  <2>3. QED BY <2>1, <2>2 DEF Beside
<1>8. QED BY <1>2, <1>4, <1>5, <1>6, <1>7 DEF StaysAt

\* A thread is not in a save, or it is where it was.
SameSave(g) ==
  \/ ~InSave(g) /\ ~InSave(g)'
  \/ /\ play'[g].at = play[g].at /\ play'[g].pos = play[g].pos
     /\ play'[g].life = play[g].life /\ play'[g].moves = play[g].moves
     /\ play'[g].alone => play[g].alone

\* A step that leaves the file, and brings no thread to the record of a game.
LEMMA SameStays ==
  ASSUME file' = file, NEW g \in Game, stored'[g] = stored[g], SameSave(g),
         NEW p \in Nat, StaysAt(g, p),
         \A h \in Game \ {g} : SameSave(h) \/ (InSave(h)' => Beside(h, p)')
  PROVE  StaysAt(g, p)'
<1>1. p \in Found(g)' /\ Foremost(g, p)'
  BY DEF StaysAt, Found, Places, Foremost
<1>2. InSave(g)' => play'[g].pos = p
  BY DEF StaysAt, SameSave, InSave
<1>3. play'[g].at = "tail" => HeadAt(g, p)'
  BY DEF StaysAt, SameSave, InSave, HeadAt, RecordOf
<1>4. play'[g].at # "tail" /\ stored'[g] # Nothing =>
        \A n \in 1 .. RecordCells : file'[p + n - 1] = Cell(stored'[g], n)
  <2>1. play'[g].at # "tail" => play[g].at # "tail"
    BY DEF SameSave, InSave
  <2>2. QED BY <2>1 DEF StaysAt
<1>5. ASSUME NEW h \in Game \ {g}, InSave(h)' PROVE Beside(h, p)'
  <2>1. CASE SameSave(h)
    <3>1. InSave(h) /\ play'[h].pos = play[h].pos
      BY <1>5, <2>1 DEF SameSave, InSave
    <3>2. Beside(h, p)
      BY <3>1 DEF StaysAt
    <3>3. QED BY <3>1, <3>2 DEF Beside
  <2>2. QED BY <1>5, <2>1
<1>6. QED BY <1>1, <1>2, <1>3, <1>4, <1>5 DEF StaysAt

\* So does a step that leaves all saves where they were.
LEMMA QuietStep ==
  ASSUME SafeStay, AloneIsFirst, file' = file, stored' = stored, safe' = safe, safe \subseteq Game,
         \A g \in Game : SameSave(g)
  PROVE  SafeStay' /\ AloneIsFirst'
<1>1. SafeStay'
  <2> SUFFICES ASSUME NEW g \in safe PROVE \E p \in Nat : StaysAt(g, p)'
    BY DEF SafeStay
  <2>1. PICK p \in Nat : StaysAt(g, p)
    BY DEF SafeStay
  <2>2. StaysAt(g, p)'
    BY <2>1, SameStays
  <2>3. QED BY <2>2
<1>2. ASSUME NEW g \in Game, play'[g].alone, InSave(g)', play'[g].pos % RecordCells = 1
      PROVE  /\ play'[g].pos <= Len(file') + 1 /\ Foremost(g, play[g].pos)'
             /\ play'[g].at = "tail" => HeadAt(g, play[g].pos)'
  <2>1. /\ play'[g].at = play[g].at /\ play'[g].pos = play[g].pos
        /\ play'[g].life = play[g].life /\ play'[g].moves = play[g].moves
        /\ play[g].alone /\ InSave(g)
    BY <1>2 DEF SameSave, InSave
  <2>2. /\ play[g].pos <= Len(file) + 1 /\ Foremost(g, play[g].pos)
        /\ play[g].at = "tail" => HeadAt(g, play[g].pos)
    BY <1>2, <2>1 DEF AloneIsFirst
  <2>3. PICK p : p = play[g].pos
    OBVIOUS
  <2>4. Foremost(g, p)'
    BY <2>2, <2>3 DEF Foremost, Found, Places
  <2>5. play[g].at = "tail" => HeadAt(g, p)'
    BY <2>1, <2>2, <2>3 DEF HeadAt, RecordOf
  <2>6. play'[g].pos = p
    BY <2>1, <2>3
  <2>7. QED BY <2>1, <2>2, <2>4, <2>5, <2>6
<1>3. QED BY <1>1, <1>2 DEF AloneIsFirst

\* A step of one game, as long as the game is not being counted.
LEMMA OneThread ==
  ASSUME AloneIsAlone, SaverCounts, saver' = saver, NEW k \in Game,
         \A h \in Game \ {k} : play'[h] = play[h],
         play[k].at \notin {"count1", "count2"},
         Saving(k)' => Saving(k), play'[k].alone => play[k].alone
  PROVE  AloneIsAlone' /\ SaverCounts'
<1>1. \A h \in Game : /\ Saving(h)' => Saving(h)
                      /\ play'[h].alone => play[h].alone
  BY DEF Saving
<1>2. AloneIsAlone'
  BY <1>1 DEF AloneIsAlone
<1>3. SaverCounts'
  BY DEF SaverCounts
<1>4. QED BY <1>2, <1>3

\* What the threads do in a save.
LEMMA SaveSteps ==
  ASSUME IInv, NEW k \in Game
  PROVE  /\ CreateFile(k) \/ Scan(k) \/ WriteHead(k) \/ WriteTail(k) =>
              /\ \A h \in Game \ {k} : play'[h] = play[h]
              /\ saver' = saver /\ Saving(k)
              /\ play'[k].life = play[k].life /\ play'[k].moves = play[k].moves
              /\ play'[k].alone => play[k].alone
         /\ CreateFile(k) => play[k].at = "create" /\ play'[k].at = "scan"
         /\ Scan(k) => play[k].at = "scan" /\ play'[k].at = "head"
         /\ WriteHead(k) =>
              play[k].at = "head" /\ play'[k].at = "tail" /\ play'[k].pos = play[k].pos
         /\ WriteTail(k) => play[k].at = "tail" /\ play'[k].at \in {"playing", "count1"}
<1>1. play \in [Game -> Play] /\ play[k] \in Play
  BY PlayFields DEF IInv, Types, PlayTypes
<1>2. CASE CreateFile(k) \/ Scan(k) \/ WriteHead(k) \/ WriteTail(k)
  <2>1. PICK new :
          /\ play' = [play EXCEPT ![k] = new]
          /\ new.life = play[k].life /\ new.moves = play[k].moves
          /\ new.alone => play[k].alone
          /\ CreateFile(k) => new.at = "scan"
          /\ Scan(k) => new.at = "head"
          /\ WriteHead(k) => new.at = "tail" /\ new.pos = play[k].pos
          /\ WriteTail(k) => new.at \in {"playing", "count1"}
    <3>1. ASSUME CreateFile(k) PROVE play' = [play EXCEPT ![k] = [play[k] EXCEPT !.at = "scan"]]
                                     /\ play[k].at = "create"
      BY <1>1, <3>1 DEF CreateFile, Goes
    <3>2. ASSUME Scan(k)
          PROVE  /\ play[k].at = "scan"
                 /\ \E pos : play' = [play EXCEPT ![k] = [play[k] EXCEPT !.at = "head", !.pos = pos]]
      <4>1. PICK pos : play' = [play EXCEPT ![k].at = "head", ![k].pos = pos]
        BY <3>2 DEF Scan
      <4>2. play' = [play EXCEPT ![k] = [play[k] EXCEPT !.at = "head", !.pos = pos]]
        BY <1>1, <4>1
      <4>3. QED BY <3>2, <4>2 DEF Scan
    <3>3. ASSUME WriteHead(k) PROVE play' = [play EXCEPT ![k] = [play[k] EXCEPT !.at = "tail"]]
                                    /\ play[k].at = "head"
      BY <1>1, <3>3 DEF WriteHead, Goes
    <3>4. ASSUME WriteTail(k)
          PROVE  /\ play[k].at = "tail"
                 /\ \E at \in {"playing", "count1"} :
                      play' = [play EXCEPT ![k] = [play[k] EXCEPT !.pos = 0, !.alone = FALSE, !.at = at]]
      BY <1>1, <3>4 DEF WriteTail, Ended
    <3>5. CASE CreateFile(k)
      BY <1>1, <3>1, <3>2, <3>3, <3>4, <3>5 DEF Play
    <3>6. CASE Scan(k)
      BY <1>1, <3>1, <3>2, <3>3, <3>4, <3>6 DEF Play
    <3>7. CASE WriteHead(k)
      BY <1>1, <3>1, <3>2, <3>3, <3>4, <3>7 DEF Play
    <3>8. CASE WriteTail(k)
      <4>1. PICK at \in {"playing", "count1"} :
              play' = [play EXCEPT ![k] = [play[k] EXCEPT !.pos = 0, !.alone = FALSE, !.at = at]]
        BY <3>4, <3>8
      <4>2. play[k].at = "tail"
        BY <3>4, <3>8
      <4>3. ~CreateFile(k) /\ ~Scan(k) /\ ~WriteHead(k)
        BY <4>2, <3>1, <3>2, <3>3
      <4> DEFINE new == [play[k] EXCEPT !.pos = 0, !.alone = FALSE, !.at = at]
      <4>4. new.life = play[k].life /\ new.moves = play[k].moves /\ new.alone = FALSE /\ new.at = at
        BY <1>1 DEF Play
      <4>5. QED BY <4>1, <4>3, <4>4
    <3>9. QED BY <1>2, <3>5, <3>6, <3>7, <3>8
  <2>2. play'[k] = new /\ \A h \in Game \ {k} : play'[h] = play[h]
    BY <1>1, <2>1
  <2>3. saver' = saver
    BY <1>2 DEF CreateFile, Scan, WriteHead, WriteTail, playerVars
  <2>4. /\ CreateFile(k) => play[k].at = "create"
        /\ Scan(k) => play[k].at = "scan"
        /\ WriteHead(k) => play[k].at = "head"
        /\ WriteTail(k) => play[k].at = "tail"
    BY DEF CreateFile, Scan, WriteHead, WriteTail
  <2>5. Saving(k)
    BY <1>2, <2>4 DEF Saving
  <2>6. QED BY <2>1, <2>2, <2>3, <2>4, <2>5
<1>3. QED BY <1>2

\* The facts of the types that the saves need.
LEMMA SaveFacts ==
  ASSUME IInv
  PROVE  file \in Seq(Cells) /\ PlayTypes /\ safe \subseteq Game /\ stored \in [Game -> Record \union {Nothing}]
  BY DEF IInv, Types, FileTypes, StoredTypes

\* games.dat is not made again when a game is safe.
LEMMA CreateFileKeepsSaves ==
  ASSUME IInv, SavesInv, NEW k \in Game, CreateFile(k)
  PROVE  SavesInv'
<1>1. safe = {} /\ safe' = safe /\ exists' = TRUE /\ saver' = saver
  BY DEF CreateFile, SavesInv, FileIsThere, playerVars
<1>2. /\ \A h \in Game \ {k} : play'[h] = play[h]
      /\ Saving(k) /\ play[k].at = "create" /\ play'[k].at = "scan"
      /\ play'[k].alone => play[k].alone
  BY SaveSteps
<1>3. SafeStay' /\ FileIsThere'
  BY <1>1 DEF SafeStay, FileIsThere
<1>4. AloneIsAlone' /\ SaverCounts'
  BY <1>1, <1>2, OneThread DEF SavesInv
<1>5. AloneIsFirst'
  <2> SUFFICES ASSUME NEW g \in Game, play'[g].alone, InSave(g)' PROVE FALSE
    BY DEF AloneIsFirst
  <2>1. g # k
    BY <1>2 DEF InSave
  <2>2. play[g].alone /\ Saving(g)
    BY <1>2, <2>1 DEF InSave, Saving
  <2>3. QED BY <1>2, <2>1, <2>2 DEF SavesInv, AloneIsAlone
<1>6. QED BY <1>3, <1>4, <1>5 DEF SavesInv

\* The thread goes to the place of its game, or beyond the records.
LEMMA ScanKeepsSaves ==
  ASSUME IInv, SavesInv, NEW k \in Game, Scan(k)
  PROVE  SavesInv'
<1>1. /\ file' = file /\ exists' = exists /\ stored' = stored /\ safe' = safe /\ saver' = saver
      /\ play \in [Game -> Play] /\ play[k] \in Play
  BY PlayFields DEF Scan, playerVars, IInv, Types, PlayTypes
<1>2. /\ \A h \in Game \ {k} : play'[h] = play[h]
      /\ Saving(k) /\ play[k].at = "scan" /\ play'[k].at = "head"
      /\ play'[k].alone => play[k].alone
  BY SaveSteps
<1>3. play'[k].pos = IF Found(k) # {} THEN First(Found(k)) ELSE Len(file) + 1
  <2>1. PICK pos : /\ pos = IF Found(k) # {} THEN First(Found(k)) ELSE Len(file) + 1
                   /\ play' = [play EXCEPT ![k].at = "head", ![k].pos = pos]
    BY DEF Scan
  <2>2. play'[k].pos = pos
    BY <1>1, <2>1 DEF Play
  <2>3. QED BY <2>1, <2>2
<1>4. FileIsThere'
  BY <1>1, <1>2 DEF SavesInv, FileIsThere, InSave
<1>5. AloneIsAlone' /\ SaverCounts'
  <2>1. Saving(k)' => Saving(k)
    BY <1>2
  <2>2. play[k].at \notin {"count1", "count2"}
    BY <1>2
  <2>3. QED BY <1>1, <1>2, <2>1, <2>2, OneThread DEF SavesInv
<1>6. \A h \in Game \ {k} : SameSave(h)
  BY <1>2 DEF SameSave
<1>7. ASSUME NEW g \in safe PROVE \E p \in Nat : StaysAt(g, p)'
  <2>1. PICK p \in Nat : StaysAt(g, p)
    BY DEF SavesInv, SafeStay
  <2>2. g \in Game /\ p \in Found(g) /\ Foremost(g, p) /\ stored'[g] = stored[g]
    BY <1>1, <2>1, SaveFacts DEF StaysAt
  <2>3. CASE g = k
    <3>1. play'[k].pos = p
      BY <1>3, <2>2, <2>3, SaveFacts, FoundAreNumbers, FirstIs DEF Foremost
    <3>2. p \in Found(g)' /\ Foremost(g, p)'
      BY <1>1, <2>2 DEF Found, Places, Foremost
    <3>3. stored[g] # Nothing => \A n \in 1 .. RecordCells : file[p + n - 1] = Cell(stored[g], n)
      BY <1>2, <2>1, <2>3 DEF StaysAt
    <3>4. ASSUME NEW h \in Game \ {g}, InSave(h)' PROVE Beside(h, p)'
      <4>1. InSave(h) /\ play'[h].pos = play[h].pos
        BY <1>2, <2>3, <3>4 DEF InSave
      <4>2. Beside(h, p)
        BY <2>1, <4>1 DEF StaysAt
      <4>3. QED BY <4>1, <4>2 DEF Beside
    <3>5. StaysAt(g, p)'
      BY <1>1, <1>2, <2>3, <3>1, <3>2, <3>3, <3>4 DEF StaysAt
    <3>6. QED BY <3>5
  <2>4. CASE g # k
    <3>1. Beside(k, p)'
      <4>1. p \in 1 .. Len(file) /\ p + RecordCells - 1 <= Len(file) /\ Len(file) \in Nat
            /\ file[p].of.game = g
        BY <2>2, SaveFacts, FoundAreNumbers
      <4>2. CASE Found(k) = {}
        <5>1. play'[k].pos = Len(file) + 1
          BY <1>3, <4>2
        <5>2. Len(file) + 1 >= p + RecordCells
          BY <4>1, Sizes
        <5>3. QED BY <5>1, <5>2 DEF Beside
      <4>3. CASE Found(k) # {}
        <5>1. play'[k].pos \in Found(k)
          BY <1>3, <4>3, SaveFacts, FirstFound
        <5>2. play'[k].pos % RecordCells = 1 /\ file[play'[k].pos].of.game = k
          BY <5>1, SaveFacts, FoundAreNumbers
        <5>3. play'[k].pos # p
          BY <2>4, <4>1, <5>2
        <5>4. QED BY <5>2, <5>3 DEF Beside
      <4>4. QED BY <4>2, <4>3
    <3>2. StaysAt(g, p)'
      BY <1>1, <1>6, <2>1, <2>2, <2>4, <3>1, SameStays
    <3>3. QED BY <3>2
  <2>5. QED BY <2>3, <2>4
<1>8. ASSUME NEW g \in Game, play'[g].alone, InSave(g)'
      PROVE  /\ play'[g].pos <= Len(file') + 1 /\ Foremost(g, play[g].pos)'
             /\ play'[g].at # "tail"
  <2>1. g = k
    BY <1>2, <1>8 DEF SavesInv, AloneIsAlone, InSave, Saving
  <2>2. PICK p : p = play'[k].pos
    OBVIOUS
  <2>3. Foremost(k, p) /\ p <= Len(file) + 1
    <3>1. CASE Found(k) = {}
      <4>1. p = Len(file) + 1 /\ Len(file) \in Nat
        BY <1>3, <2>2, <3>1, SaveFacts, FoundAreNumbers
      <4>2. QED BY <3>1, <4>1 DEF Foremost
    <3>2. CASE Found(k) # {}
      <4>1. p \in Found(k) /\ Foremost(k, p)
        BY <1>3, <2>2, <3>2, SaveFacts, FirstFound
      <4>2. p \in 1 .. Len(file) /\ Len(file) \in Nat
        BY <4>1, SaveFacts, FoundAreNumbers
      <4>3. QED BY <4>1, <4>2
    <3>3. QED BY <3>1, <3>2
  <2>4. Foremost(k, p)'
    BY <1>1, <2>3 DEF Foremost, Found, Places
  <2>5. Foremost(g, play[g].pos)'
    BY <2>1, <2>2, <2>4 DEF Foremost
  <2>6. QED BY <1>1, <1>2, <2>1, <2>2, <2>3, <2>5
<1>9. SafeStay' /\ AloneIsFirst'
  <2>1. SafeStay'
    BY <1>1, <1>7 DEF SafeStay
  <2>2. QED BY <1>8, <2>1 DEF AloneIsFirst
<1>10. QED BY <1>4, <1>5, <1>9 DEF SavesInv

\* The first piece of a record is at its place.
LEMMA HeadWritten ==
  ASSUME IInv, NEW k \in Game, WriteHead(k), NEW p \in Nat, p = play[k].pos,
         p <= Len(file) + 1, p % RecordCells = 1, Foremost(k, p)
  PROVE  Foremost(k, p)' /\ HeadAt(k, p)' /\ file'[p].part = 1 /\ file'[p].of.game = k
<1>1. 1 \in 1 .. RecordCells /\ HeadCells \in 1 .. RecordCells /\ HeadCells \in Nat /\ HeadCells >= 1
  BY Sizes
<1>2. InSave(k) /\ file' = Put(k, 1, HeadCells) /\ file \in Seq(Cells) /\ PlayTypes
  BY SaveFacts DEF InSave, WriteHead
<1>3. /\ Len(file') \in Nat /\ Len(file') >= p + HeadCells - 1
      /\ \A i \in Written(k, 1, HeadCells) : file'[i] = Cell(RecordOf(k), i - p + 1)
  BY <1>1, <1>2, PutIs
<1>4. Foremost(k, p)'
  BY <1>1, <1>2, StaysForemost
<1>5. RecordOf(k)' = RecordOf(k)
  BY SaveSteps DEF RecordOf
<1>6. ASSUME NEW n \in 1 .. HeadCells PROVE file'[p + n - 1] = Cell(RecordOf(k), n)
  <2>1. p + n - 1 \in Written(k, 1, HeadCells)
    BY <1>1 DEF Written
  <2>2. (p + n - 1) - p + 1 = n
    OBVIOUS
  <2>3. QED BY <1>3, <2>1, <2>2
<1>7. HeadAt(k, p)'
  BY <1>1, <1>3, <1>5, <1>6 DEF HeadAt
<1>8. file'[p] = Cell(RecordOf(k), 1)
  <2>1. 1 \in 1 .. HeadCells /\ p + 1 - 1 = p
    BY <1>1
  <2>2. QED BY <1>6, <2>1
<1>9. QED BY <1>4, <1>7, <1>8 DEF Cell, RecordOf

\* When a thread writes its head, the record of a safe game keeps its place.
LEMMA WriteHeadKeepsSaves ==
  ASSUME IInv, SavesInv, NEW k \in Game, WriteHead(k)
  PROVE  SavesInv'
<1>1. /\ file' = Put(k, 1, HeadCells) /\ exists' = exists /\ stored' = stored /\ safe' = safe
      /\ saver' = saver
  BY DEF WriteHead, playerVars
<1>2. /\ \A h \in Game \ {k} : play'[h] = play[h]
      /\ Saving(k) /\ play[k].at = "head" /\ play'[k].at = "tail" /\ play'[k].pos = play[k].pos
      /\ play'[k].alone => play[k].alone
  BY SaveSteps
<1>3. InSave(k) /\ file \in Seq(Cells) /\ PlayTypes
      /\ 1 \in 1 .. RecordCells /\ HeadCells \in 1 .. RecordCells
  BY <1>2, SaveFacts, Sizes DEF InSave
<1>4. FileIsThere'
  BY <1>1, <1>2 DEF SavesInv, FileIsThere, InSave
<1>5. AloneIsAlone' /\ SaverCounts'
  <2>1. (Saving(k)' => Saving(k)) /\ play[k].at \notin {"count1", "count2"}
    BY <1>2
  <2>2. QED BY <1>1, <1>2, <2>1, OneThread DEF SavesInv
<1>6. ASSUME NEW g \in safe PROVE \E p \in Nat : StaysAt(g, p)'
  <2>1. PICK p \in Nat : StaysAt(g, p)
    BY DEF SavesInv, SafeStay
  <2>2. g \in Game /\ p \in Found(g) /\ Foremost(g, p)
    BY <2>1, SaveFacts DEF StaysAt
  <2>3. CASE g = k
    <3>1. play[k].pos = p /\ Foremost(k, p) /\ p \in Found(k)
      BY <1>3, <2>1, <2>2, <2>3 DEF StaysAt
    <3>2. p % RecordCells = 1 /\ p \in 1 .. Len(file) /\ Len(file) \in Nat
          /\ p + RecordCells - 1 <= Len(file)
      BY <1>3, <3>1, FoundAreNumbers
    <3>3. Foremost(k, p)' /\ HeadAt(k, p)' /\ file'[p].part = 1 /\ file'[p].of.game = k
      <4>1. p <= Len(file) + 1
        BY <3>2
      <4>2. QED BY <3>1, <3>2, <4>1, HeadWritten
    <3>4. p \in Found(k)'
      <4>1. Len(file') \in Nat /\ Len(file') >= Len(file) /\ DOMAIN file' = 1 .. Len(file')
        BY <1>1, <1>3, PutIs
      <4>2. p \in 1 .. Len(file') /\ p + RecordCells - 1 <= Len(file')
        BY <3>2, <4>1, Sizes
      <4>3. QED BY <3>2, <3>3, <4>1, <4>2 DEF Found, Places
    <3>5. ASSUME NEW h \in Game \ {g}, InSave(h)' PROVE Beside(h, p)'
      <4>1. InSave(h) /\ play'[h].pos = play[h].pos
        BY <1>2, <2>3, <3>5 DEF InSave
      <4>2. Beside(h, p)
        BY <2>1, <4>1 DEF StaysAt
      <4>3. QED BY <4>1, <4>2 DEF Beside
    <3>6. StaysAt(g, p)'
      BY <1>2, <2>3, <3>1, <3>3, <3>4, <3>5 DEF StaysAt
    <3>7. QED BY <3>6
  <2>4. CASE g # k
    <3>1. \A h \in Game \ {k} : play'[h] = play[h] /\ stored'[h] = stored[h]
      BY <1>1, <1>2
    <3>2. StaysAt(g, p)'
      BY <1>1, <1>2, <1>3, <2>1, <2>2, <2>4, <3>1, OthersStay
    <3>3. QED BY <3>2
  <2>5. QED BY <2>3, <2>4
<1>7. ASSUME NEW g \in Game, play'[g].alone, InSave(g)', play'[g].pos % RecordCells = 1
      PROVE  /\ play'[g].pos <= Len(file') + 1 /\ Foremost(g, play[g].pos)'
             /\ HeadAt(g, play[g].pos)'
  <2>1. g = k
    BY <1>2, <1>7 DEF SavesInv, AloneIsAlone, InSave, Saving
  <2>2. PICK p : p = play[k].pos
    OBVIOUS
  <2>3. p \in Nat /\ p <= Len(file) + 1 /\ Foremost(k, p) /\ p % RecordCells = 1
    BY <1>2, <1>3, <1>7, <2>1, <2>2, PlayFields DEF SavesInv, AloneIsFirst
  <2>4. Foremost(k, p)' /\ HeadAt(k, p)'
    BY <2>2, <2>3, HeadWritten
  <2>5. Len(file') >= Len(file) /\ Len(file') \in Nat /\ Len(file) \in Nat
    BY <1>1, <1>3, PutIs
  <2>6. p <= Len(file') + 1
    BY <2>3, <2>5
  <2>7. p = play'[g].pos
    BY <1>2, <2>1, <2>2
  <2>8. Foremost(g, play[g].pos)' /\ HeadAt(g, play[g].pos)'
    BY <2>1, <2>4, <2>7
  <2>9. QED BY <2>6, <2>7, <2>8
<1>8. SafeStay'
  BY <1>1, <1>6 DEF SafeStay
<1>9. AloneIsFirst'
  BY <1>7 DEF AloneIsFirst
<1>10. QED BY <1>4, <1>5, <1>8, <1>9 DEF SavesInv

\* The whole record is at its place.
LEMMA TailWritten ==
  ASSUME IInv, NEW k \in Game, WriteTail(k), NEW p \in Nat, p = play[k].pos,
         p <= Len(file) + 1, p % RecordCells = 1, Foremost(k, p), HeadAt(k, p)
  PROVE  /\ p \in Found(k)' /\ Foremost(k, p)'
         /\ \A n \in 1 .. RecordCells : file'[p + n - 1] = Cell(RecordOf(k), n)
<1>1. /\ HeadCells \in Nat /\ RecordCells \in Nat /\ HeadCells >= 1 /\ HeadCells < RecordCells
      /\ HeadCells + 1 \in 1 .. RecordCells /\ RecordCells \in 1 .. RecordCells
  BY Sizes
<1>2. /\ InSave(k) /\ file' = Put(k, HeadCells + 1, RecordCells)
      /\ file \in Seq(Cells) /\ PlayTypes
  BY SaveFacts DEF InSave, WriteTail
<1>3. /\ Len(file') \in Nat /\ Len(file') >= p + RecordCells - 1 /\ DOMAIN file' = 1 .. Len(file')
      /\ p >= 1 /\ Len(file) \in Nat
      /\ \A i \in Written(k, HeadCells + 1, RecordCells) : file'[i] = Cell(RecordOf(k), i - p + 1)
      /\ \A i \in 1 .. Len(file) : i \notin Written(k, HeadCells + 1, RecordCells) => file'[i] = file[i]
  BY <1>1, <1>2, PutIs
<1>4. Foremost(k, p)'
  BY <1>1, <1>2, StaysForemost
<1>5. ASSUME NEW n \in 1 .. RecordCells PROVE file'[p + n - 1] = Cell(RecordOf(k), n)
  <2>1. CASE n <= HeadCells
    <3>1. p + n - 1 \in 1 .. Len(file)
      <4>1. p + HeadCells - 1 <= Len(file) /\ p >= 1 /\ Len(file) \in Nat
        BY <1>3 DEF HeadAt
      <4>2. n \in Nat /\ n >= 1 /\ n <= HeadCells
        BY <1>1, <2>1
      <4>3. p + n - 1 >= 1 /\ p + n - 1 <= p + HeadCells - 1
        BY <1>1, <4>1, <4>2
      <4>4. QED BY <1>1, <4>1, <4>2, <4>3
    <3>2. p + n - 1 \notin Written(k, HeadCells + 1, RecordCells)
      BY <1>1, <2>1 DEF Written
    <3>3. n \in 1 .. HeadCells
      BY <1>1, <2>1
    <3>4. QED BY <1>3, <3>1, <3>2, <3>3 DEF HeadAt
  <2>2. CASE n > HeadCells
    <3>1. p + n - 1 \in Written(k, HeadCells + 1, RecordCells)
      BY <1>1, <2>2 DEF Written
    <3>2. (p + n - 1) - p + 1 = n
      OBVIOUS
    <3>3. QED BY <1>3, <3>1, <3>2
  <2>3. QED BY <1>1, <2>1, <2>2
<1>6. file'[p] = Cell(RecordOf(k), 1)
  <2>1. 1 \in 1 .. RecordCells /\ p + 1 - 1 = p
    BY <1>1
  <2>2. QED BY <1>5, <2>1
<1>7. p \in Found(k)'
  <2>1. p \in 1 .. Len(file') /\ p + RecordCells - 1 <= Len(file')
    BY <1>1, <1>3
  <2>2. file'[p].part = 1 /\ file'[p].of.game = k
    BY <1>6 DEF Cell, RecordOf
  <2>3. QED BY <1>3, <2>1, <2>2 DEF Found, Places
<1>8. QED BY <1>4, <1>5, <1>7

\* When a thread ends its save, its game is safe if no other saved meanwhile, and
\* the games that were safe are.
LEMMA WriteTailKeepsSaves ==
  ASSUME IInv, SavesInv, NEW k \in Game, WriteTail(k)
  PROVE  SavesInv'
<1>1. /\ file' = Put(k, HeadCells + 1, RecordCells) /\ exists' = exists /\ saver' = saver
      /\ stored' = [stored EXCEPT ![k] = RecordOf(k)]
      /\ safe' \subseteq safe \union {k}
      /\ k \notin safe /\ k \in safe' => play[k].alone /\ play[k].pos % RecordCells = 1
  BY DEF WriteTail, playerVars
<1>2. /\ \A h \in Game \ {k} : play'[h] = play[h]
      /\ Saving(k) /\ play[k].at = "tail" /\ play'[k].at \in {"playing", "count1"}
      /\ play'[k].alone => play[k].alone
  BY SaveSteps
<1>3. /\ InSave(k) /\ file \in Seq(Cells) /\ PlayTypes /\ ~InSave(k)' /\ ~Saving(k)'
      /\ HeadCells + 1 \in 1 .. RecordCells /\ RecordCells \in 1 .. RecordCells
      /\ stored'[k] = RecordOf(k) /\ \A h \in Game \ {k} : stored'[h] = stored[h]
  BY <1>1, <1>2, SaveFacts, Sizes DEF InSave, Saving
<1>4. FileIsThere'
  <2>1. \A g \in Game : play'[g].at = "scan" \/ InSave(g)' => exists'
    BY <1>1, <1>2 DEF SavesInv, FileIsThere, InSave
  <2>2. exists
    BY <1>3 DEF SavesInv, FileIsThere
  <2>3. ASSUME NEW g \in safe', NEW h \in Game, play'[h].at = "create" PROVE FALSE
    <3>1. h # k /\ play[h].at = "create"
      BY <1>2, <2>3
    <3>2. safe = {}
      BY <3>1 DEF SavesInv, FileIsThere
    <3>3. play[k].alone /\ Saving(h)
      BY <1>1, <3>1, <3>2, <2>3 DEF Saving
    <3>4. QED BY <1>2, <3>1, <3>3 DEF SavesInv, AloneIsAlone
  <2>4. QED BY <1>1, <2>1, <2>2, <2>3 DEF FileIsThere
<1>5. AloneIsAlone' /\ SaverCounts'
  <2>1. (Saving(k)' => Saving(k)) /\ play[k].at \notin {"count1", "count2"}
    BY <1>2
  <2>2. QED BY <1>1, <1>2, <2>1, OneThread DEF SavesInv
<1>6. ASSUME NEW p \in Nat, p = play[k].pos, p <= Len(file) + 1, p % RecordCells = 1,
             Foremost(k, p), HeadAt(k, p), \A h \in Game \ {k} : InSave(h) => Beside(h, p)
      PROVE  StaysAt(k, p)'
  <2>1. /\ p \in Found(k)' /\ Foremost(k, p)'
        /\ \A n \in 1 .. RecordCells : file'[p + n - 1] = Cell(RecordOf(k), n)
    BY <1>6, TailWritten
  <2>2. ASSUME NEW h \in Game \ {k}, InSave(h)' PROVE Beside(h, p)'
    <3>1. InSave(h) /\ play'[h].pos = play[h].pos
      BY <1>2, <2>2 DEF InSave
    <3>2. Beside(h, p)
      BY <1>6, <3>1
    <3>3. QED BY <3>1, <3>2 DEF Beside
  <2>3. QED BY <1>2, <1>3, <2>1, <2>2 DEF StaysAt
<1>7. ASSUME NEW g \in safe' PROVE \E p \in Nat : StaysAt(g, p)'
  <2>1. CASE g \in safe
    <3>1. PICK p \in Nat : StaysAt(g, p)
      BY <2>1 DEF SavesInv, SafeStay
    <3>2. g \in Game /\ p \in Found(g) /\ Foremost(g, p)
      BY <2>1, <3>1, SaveFacts DEF StaysAt
    <3>3. CASE g = k
      <4>1. p = play[k].pos /\ HeadAt(k, p) /\ \A h \in Game \ {k} : InSave(h) => Beside(h, p)
        BY <1>2, <1>3, <3>1, <3>3 DEF StaysAt
      <4>2. p % RecordCells = 1 /\ p \in 1 .. Len(file) /\ Len(file) \in Nat
        BY <1>3, <3>2, FoundAreNumbers
      <4>3. p <= Len(file) + 1
        BY <4>2
      <4>4. StaysAt(k, p)'
        BY <1>6, <3>2, <3>3, <4>1, <4>2, <4>3
      <4>5. QED BY <3>3, <4>4
    <3>4. CASE g # k
      <4>1. \A h \in Game \ {k} : play'[h] = play[h] /\ stored'[h] = stored[h]
        BY <1>2, <1>3
      <4>2. StaysAt(g, p)'
        BY <1>1, <1>3, <3>1, <3>2, <3>4, <4>1, OthersStay
      <4>3. QED BY <4>2
    <3>5. QED BY <3>3, <3>4
  <2>2. CASE g \notin safe
    <3>1. g = k /\ play[k].alone /\ play[k].pos % RecordCells = 1
      BY <1>1, <1>7, <2>2
    <3>2. PICK p : p = play[k].pos
      OBVIOUS
    <3>3. p \in Nat
      BY <1>3, <3>2, PlayFields
    <3>4. p <= Len(file) + 1 /\ Foremost(k, p) /\ HeadAt(k, p)
      BY <1>2, <1>3, <3>1, <3>2 DEF SavesInv, AloneIsFirst
    <3>5. \A h \in Game \ {k} : ~InSave(h)
      BY <1>2, <3>1 DEF SavesInv, AloneIsAlone, InSave, Saving
    <3>6. StaysAt(k, p)'
      BY <1>6, <3>1, <3>2, <3>3, <3>4, <3>5
    <3>7. QED BY <3>1, <3>3, <3>6
  <2>3. QED BY <2>1, <2>2
<1>8. SafeStay'
  BY <1>7 DEF SafeStay
<1>9. AloneIsFirst'
  <2> SUFFICES ASSUME NEW g \in Game, play'[g].alone, InSave(g)' PROVE FALSE
    BY DEF AloneIsFirst
  <2>1. g # k
    BY <1>3
  <2>2. play[g].alone /\ Saving(g)
    BY <1>2, <2>1 DEF InSave, Saving
  <2>3. QED BY <1>2, <2>1, <2>2 DEF SavesInv, AloneIsAlone
<1>10. QED BY <1>4, <1>5, <1>8, <1>9 DEF SavesInv

\* When a write fails, the record is cut, or its second piece is missing, and stays
\* where it was; the thread ends its save all the same.
LEMMA CutKeepsSaves ==
  ASSUME IInv, SavesInv, NEW k \in Game, HeadFails(k) \/ TailFails(k)
  PROVE  SavesInv'
<1>1. PICK from \in 1 .. RecordCells, n \in 0 .. RecordCells - 1 :
        /\ Cut(k, from, n)
        /\ \/ play[k].at = "head" /\ from = 1
           \/ play[k].at = "tail" /\ from = HeadCells + 1 /\ n >= HeadCells
        /\ n >= from => n \in 1 .. RecordCells
  BY CutIs
<1>2. /\ file' = (IF n < from THEN file ELSE Put(k, from, n))
      /\ stored' = [stored EXCEPT ![k] = IF n = 0 THEN @ ELSE Nothing]
      /\ exists' = exists /\ safe' = safe /\ saver' = saver /\ table' = table
      /\ play' = Ended(k)
  BY <1>1 DEF Cut, playerVars
<1>3. /\ InSave(k) /\ Saving(k) /\ file \in Seq(Cells) /\ PlayTypes
      /\ stored \in [Game -> Record \union {Nothing}] /\ safe \subseteq Game
  BY <1>1, SaveFacts DEF InSave, Saving
<1>4. /\ \A h \in Game \ {k} : play'[h] = play[h]
      /\ play'[k].at \in {"playing", "count1"} /\ ~play'[k].alone
  BY <1>1, <1>2, <1>3, EndedTypes
<1>5. ~InSave(k)' /\ ~Saving(k)' /\ \A h \in Game \ {k} : stored'[h] = stored[h]
  BY <1>2, <1>3, <1>4 DEF InSave, Saving
<1>6. FileIsThere'
  BY <1>2, <1>4 DEF SavesInv, FileIsThere, InSave
<1>7. AloneIsAlone' /\ SaverCounts'
  <2>1. play[k].at \notin {"count1", "count2"}
    BY <1>1
  <2>2. (Saving(k)' => Saving(k)) /\ (play'[k].alone => play[k].alone)
    BY <1>4, <1>5
  <2>3. QED BY <1>2, <1>4, <2>1, <2>2, OneThread DEF SavesInv
<1>8. AloneIsFirst'
  <2> SUFFICES ASSUME NEW g \in Game, play'[g].alone, InSave(g)' PROVE FALSE
    BY DEF AloneIsFirst
  <2>1. g # k
    BY <1>4
  <2>2. play[g].alone /\ Saving(g)
    BY <1>4, <2>1 DEF InSave, Saving
  <2>3. QED BY <1>3, <2>1, <2>2 DEF SavesInv, AloneIsAlone
<1>9. ASSUME NEW g \in Game \ {k}, NEW p \in Nat, StaysAt(g, p) PROVE StaysAt(g, p)'
  <2>1. CASE n < from
    <3>1. \A h \in Game : h = k \/ SameSave(h)
      BY <1>4 DEF SameSave
    <3>2. SameSave(g) /\ stored'[g] = stored[g] /\ file' = file
      BY <1>2, <1>5, <2>1, <3>1
    <3>3. QED BY <1>5, <1>9, <3>1, <3>2, SameStays
  <2>2. CASE ~(n < from)
    <3>1. n \in 1 .. RecordCells /\ file' = Put(k, from, n)
      BY <1>1, <1>2, <2>2, Sizes
    <3>2. \A h \in Game \ {k} : play'[h] = play[h] /\ stored'[h] = stored[h]
      BY <1>4, <1>5
    <3>3. QED BY <1>3, <1>5, <1>9, <3>1, <3>2, OthersStay
  <2>3. QED BY <2>1, <2>2
<1>10. ASSUME NEW p \in Nat, StaysAt(k, p) PROVE StaysAt(k, p)'
  <2>1. p \in Found(k) /\ Foremost(k, p) /\ p = play[k].pos
    BY <1>3, <1>10 DEF StaysAt
  <2>2. /\ p % RecordCells = 1 /\ p \in 1 .. Len(file) /\ Len(file) \in Nat
        /\ p + RecordCells - 1 <= Len(file) /\ file[p].part = 1 /\ file[p].of.game = k
    BY <1>3, <2>1, FoundAreNumbers
  <2>3. p \in Found(k)' /\ Foremost(k, p)'
    <3>1. CASE n < from
      BY <1>2, <2>1, <3>1 DEF Found, Places, Foremost
    <3>2. CASE ~(n < from)
      <4>1. n \in 1 .. RecordCells /\ file' = Put(k, from, n)
        BY <1>1, <1>2, <3>2, Sizes
      <4>2. /\ Len(file') \in Nat /\ Len(file') >= Len(file) /\ DOMAIN file' = 1 .. Len(file')
            /\ \A i \in Written(k, from, n) : file'[i] = Cell(RecordOf(k), i - p + 1)
            /\ \A i \in 1 .. Len(file) : i \notin Written(k, from, n) => file'[i] = file[i]
        BY <1>3, <2>1, <4>1, PutIs
      <4>3. Foremost(k, p)'
        <5>1. p <= Len(file) + 1
          BY <2>2
        <5>2. QED BY <1>3, <2>1, <2>2, <4>1, <5>1, StaysForemost
      <4>4. file'[p].part = 1 /\ file'[p].of.game = k
        <5>1. CASE p \in Written(k, from, n)
          <6>1. p - p + 1 = 1
            BY <2>2
          <6>2. file'[p] = Cell(RecordOf(k), 1)
            BY <4>2, <5>1, <6>1
          <6>3. QED BY <6>2 DEF Cell, RecordOf
        <5>2. CASE p \notin Written(k, from, n)
          BY <2>2, <4>2, <5>2
        <5>3. QED BY <5>1, <5>2
      <4>5. p \in 1 .. Len(file') /\ p + RecordCells - 1 <= Len(file')
        BY <2>2, <4>2, Sizes
      <4>6. QED BY <2>2, <4>2, <4>3, <4>4, <4>5 DEF Found, Places
    <3>3. QED BY <3>1, <3>2
  <2>4. stored'[k] # Nothing => \A m \in 1 .. RecordCells : file'[p + m - 1] = Cell(stored'[k], m)
    <3>1. CASE n = 0
      <4>1. play[k].at # "tail" /\ stored'[k] = stored[k] /\ file' = file
        BY <1>1, <1>2, <1>3, <3>1, Sizes
      <4>2. QED BY <1>10, <4>1 DEF StaysAt
    <3>2. CASE n # 0
      BY <1>2, <1>3, <3>2
    <3>3. QED BY <3>1, <3>2
  <2>5. ASSUME NEW h \in Game \ {k}, InSave(h)' PROVE Beside(h, p)'
    <3>1. InSave(h) /\ play'[h].pos = play[h].pos
      BY <1>4, <2>5 DEF InSave
    <3>2. Beside(h, p)
      BY <1>10, <3>1 DEF StaysAt
    <3>3. QED BY <3>1, <3>2 DEF Beside
  <2>6. play'[k].at # "tail"
    BY <1>4
  <2>7. QED BY <1>5, <2>3, <2>4, <2>5, <2>6 DEF StaysAt
<1>11. SafeStay'
  <2> SUFFICES ASSUME NEW g \in safe PROVE \E p \in Nat : StaysAt(g, p)'
    BY <1>2 DEF SafeStay
  <2>1. PICK p \in Nat : StaysAt(g, p)
    BY DEF SavesInv, SafeStay
  <2>2. StaysAt(g, p)'
    <3>1. CASE g = k
      BY <1>10, <2>1, <3>1
    <3>2. CASE g # k
      BY <1>3, <1>9, <2>1, <3>2
    <3>3. QED BY <3>1, <3>2
  <2>3. QED BY <2>2
<1>12. QED BY <1>6, <1>7, <1>8, <1>11 DEF SavesInv

\* Where a thread is that has no save to go on with.
Idle == {"none", "playing", "count1", "count2"}

\* A step in which no thread goes on with a save.
LEMMA IdleKeepsSaves ==
  ASSUME IInv, SavesInv, file' = file, exists' = exists, stored' = stored, safe' = safe, SaverCounts',
         \A g \in Game :
           \/ play'[g] = play[g]
           \/ play[g].at \in Idle /\ play'[g].at \in Idle /\ (play'[g].alone => play[g].alone)
  PROVE  SavesInv'
<1>1. \A g \in Game : SameSave(g)
  BY DEF SameSave, InSave, Idle
<1>2. safe \subseteq Game
  BY SaveFacts
<1>3. SafeStay' /\ AloneIsFirst'
  BY <1>1, <1>2, QuietStep DEF SavesInv
<1>4. FileIsThere'
  BY DEF SavesInv, FileIsThere, InSave, Idle
<1>5. \A g \in Game : (Saving(g)' => Saving(g)) /\ (play'[g].alone => play[g].alone)
  BY DEF Saving, Idle
<1>6. AloneIsAlone'
  BY <1>5 DEF SavesInv, AloneIsAlone
<1>7. QED BY <1>3, <1>4, <1>6 DEF SavesInv

\* A game that is created is not saved yet.
LEMMA CreateGameKeepsSaves ==
  ASSUME IInv, SavesInv, NEW k \in Game, CreateGame(k)
  PROVE  SavesInv'
<1>1. /\ file' = file /\ exists' = exists /\ stored' = stored /\ safe' = safe /\ saver' = saver
      /\ play \in [Game -> Play] /\ play[k].at = "none"
  BY DEF CreateGame, playerVars, IInv, Types, PlayTypes
<1>2. PICK life \in 1 .. MaxGames :
        play' = [play EXCEPT ![k] = [@ EXCEPT !.at = "playing", !.life = life, !.moves = 0]]
  BY DEF CreateGame
<1>3. /\ play'[k].at = "playing" /\ play'[k].alone = play[k].alone
      /\ \A h \in Game \ {k} : play'[h] = play[h]
  BY <1>1, <1>2 DEF Play
<1>4. SaverCounts'
  BY <1>1, <1>3 DEF SavesInv, SaverCounts
<1>5. QED BY <1>1, <1>3, <1>4, IdleKeepsSaves DEF Idle

\* A save begins: no other is alone then.
LEMMA PlayMoveKeepsSaves ==
  ASSUME IInv, SavesInv, NEW k \in Game, PlayMove(k)
  PROVE  SavesInv'
<1>1. /\ file' = file /\ exists' = exists /\ stored' = stored /\ safe' = safe /\ saver' = saver
      /\ play \in [Game -> Play] /\ play[k].at = "playing"
  BY DEF PlayMove, playerVars, IInv, Types, PlayTypes
<1>2. /\ play'[k].at = IF exists THEN "scan" ELSE "create"
      /\ play'[k].alone = \A h \in Game \ {k} : ~Saving(h)
  BY <1>1 DEF PlayMove, Play
<1>3. \A h \in Game \ {k} :
        /\ play'[h].at = play[h].at /\ play'[h].pos = play[h].pos
        /\ play'[h].life = play[h].life /\ play'[h].moves = play[h].moves
        /\ play'[h].alone = (play[h].alone /\ ~Saving(h))
  BY <1>1 DEF PlayMove, Play
<1>4. \A g \in Game : SameSave(g)
  BY <1>1, <1>2, <1>3 DEF SameSave, InSave
<1>5. SafeStay' /\ AloneIsFirst'
  BY <1>1, <1>4, SaveFacts, QuietStep DEF SavesInv
<1>6. FileIsThere'
  <2>1. \A g \in Game : play'[g].at = "scan" \/ InSave(g)' => exists
    BY <1>2, <1>3 DEF SavesInv, FileIsThere, InSave
  <2>2. safe # {} => exists /\ \A g \in Game : play'[g].at # "create"
    BY <1>2, <1>3 DEF SavesInv, FileIsThere
  <2>3. QED BY <1>1, <2>1, <2>2 DEF FileIsThere
<1>7. AloneIsAlone'
  <2>1. ASSUME NEW g \in Game, play'[g].alone, Saving(g)', NEW h \in Game \ {g}, Saving(h)'
        PROVE  FALSE
    <3>1. g = k
      BY <1>3, <2>1 DEF Saving
    <3>2. Saving(h)
      BY <1>3, <2>1, <3>1 DEF Saving
    <3>3. QED BY <1>2, <2>1, <3>1, <3>2
  <2>2. QED BY <2>1 DEF AloneIsAlone
<1>8. SaverCounts'
  BY <1>1, <1>3 DEF SavesInv, SaverCounts
<1>9. QED BY <1>5, <1>6, <1>7, <1>8 DEF SavesInv

\* The save of the players goes on or ends; then the game that waited for it does.
LEMMA SaverKeepsSaves ==
  ASSUME IInv, SavesInv, Open \/ Write \/ Fallback
  PROVE  SavesInv'
<1>1. /\ file' = file /\ exists' = exists /\ stored' = stored /\ safe' = safe
      /\ saver.by # Nobody /\ saver \in Saver
  BY DEF Open, Write, Fallback, RestOfSave, Writes, IInv, Types, SaverTypes
<1>2. \/ Release
      \/ play' = play /\ saver'.by = saver.by
  <2>1. ASSUME NEW at \in {"write", "fallback"}, Continues(at)
        PROVE  play' = play /\ saver'.by = saver.by
    BY <1>1, <2>1 DEF Continues, Saver
  <2>2. ASSUME NextPlayer PROVE Release \/ (play' = play /\ saver'.by = saver.by)
    BY <1>1, <2>2 DEF NextPlayer, Saver
  <2>3. QED BY <2>1, <2>2 DEF Open, Write, Fallback
<1>3. CASE Release
  <2>1. SaverCounts'
    BY <1>3, StorageAssumption DEF Release, SaverCounts, Free, Game
  <2>2. ASSUME NEW g \in Game, g = saver.by
        PROVE  play[g].at \in Idle /\ play'[g].at \in Idle /\ (play'[g].alone => play[g].alone)
    <3>1. play[g].at \in {"count1", "count2"} /\ play[g] \in Play
      BY <2>2, SaveFacts, PlayFields DEF SavesInv, SaverCounts
    <3>2. play'[g] = IF play[g].at = "count1" THEN [play[g] EXCEPT !.at = "count2"]
                     ELSE [NoPlay EXCEPT !.life = play[g].life]
      BY <1>3, <2>2 DEF Release
    <3>3. QED BY <3>1, <3>2 DEF Idle, NoPlay, Play
  <2>3. ASSUME NEW g \in Game, g # saver.by PROVE play'[g] = play[g]
    BY <1>3, <2>3 DEF Release
  <2>4. QED BY <1>1, <2>1, <2>2, <2>3, IdleKeepsSaves
<1>4. CASE play' = play /\ saver'.by = saver.by
  <2>1. SaverCounts'
    BY <1>4 DEF SavesInv, SaverCounts
  <2>2. QED BY <1>1, <1>4, <2>1, IdleKeepsSaves
<1>5. QED BY <1>2, <1>3, <1>4

\* The server that starts again has no game, and the records stay as they are.
LEMMA RestartKeepsSaves ==
  ASSUME IInv, SavesInv, Restart
  PROVE  SavesInv'
<1>1. /\ file' = file /\ exists' = exists /\ safe' = safe /\ saver' = Free
      /\ stored' = [g \in Game |-> IF play[g].at = "tail" THEN Nothing ELSE stored[g]]
  BY DEF Restart
<1>2. \A g \in Game : play'[g].at = "none" /\ ~play'[g].alone
  BY DEF Restart, NoPlay
<1>3. FileIsThere' /\ AloneIsAlone' /\ AloneIsFirst'
  BY <1>1, <1>2 DEF SavesInv, FileIsThere, AloneIsAlone, AloneIsFirst, InSave
<1>4. SaverCounts'
  BY <1>1, StorageAssumption DEF SaverCounts, Free, Game
<1>5. ASSUME NEW g \in safe PROVE \E p \in Nat : StaysAt(g, p)'
  <2>1. PICK p \in Nat : StaysAt(g, p)
    BY DEF SavesInv, SafeStay
  <2>2. g \in Game
    BY SaveFacts
  <2>3. p \in Found(g)' /\ Foremost(g, p)'
    BY <1>1, <2>1 DEF StaysAt, Foremost, Found, Places
  <2>4. stored'[g] # Nothing => \A n \in 1 .. RecordCells : file[p + n - 1] = Cell(stored'[g], n)
    BY <1>1, <2>1, <2>2 DEF StaysAt
  <2>5. StaysAt(g, p)'
    BY <1>1, <1>2, <2>2, <2>3, <2>4 DEF StaysAt, InSave
  <2>6. QED BY <2>5
<1>6. SafeStay'
  BY <1>1, <1>5 DEF SafeStay
<1>7. QED BY <1>3, <1>4, <1>6 DEF SavesInv

\* A change of a player is no save of a game.
LEMMA PlayersKeepSaves ==
  ASSUME IInv, SavesInv, UNCHANGED gameVars,
         \/ saver' = saver
         \/ \E g \in Game : play[g].at \in {"count1", "count2"} /\ Saves(g)
         \/ \E p \in Player : Saves(p)
  PROVE  SavesInv'
<1>1. /\ file' = file /\ exists' = exists /\ play' = play /\ stored' = stored /\ safe' = safe
  BY DEF gameVars
<1>2. SaverCounts'
  <2>1. CASE saver' = saver
    BY <1>1, <2>1 DEF SavesInv, SaverCounts
  <2>2. CASE \E g \in Game : play[g].at \in {"count1", "count2"} /\ Saves(g)
    BY <1>1, <2>2 DEF SaverCounts, Saves, Free
  <2>3. ASSUME NEW p \in Player, Saves(p) PROVE SaverCounts'
    <3>1. saver'.by = p
      BY <2>3 DEF Saves, Free
    <3>2. p \notin Game
      BY StorageAssumption DEF Game
    <3>3. QED BY <3>1, <3>2 DEF SaverCounts
  <2>4. QED BY <2>1, <2>2, <2>3
<1>3. QED BY <1>1, <1>2, IdleKeepsSaves

\* Every step keeps what is safe.
LEMMA StepKeepsSaves == IInv /\ SavesInv /\ [Next]_vars => SavesInv'
<1> SUFFICES ASSUME IInv, SavesInv, [Next]_vars PROVE SavesInv'
  OBVIOUS
<1>1. ASSUME NEW g \in Game,
             \/ CreateGame(g) \/ PlayMove(g) \/ CreateFile(g) \/ Scan(g)
             \/ WriteHead(g) \/ HeadFails(g) \/ WriteTail(g) \/ TailFails(g)
      PROVE  SavesInv'
  BY <1>1, CreateGameKeepsSaves, PlayMoveKeepsSaves, CreateFileKeepsSaves, ScanKeepsSaves,
     WriteHeadKeepsSaves, WriteTailKeepsSaves, CutKeepsSaves
<1>2. ASSUME NEW g \in Game, CountResult(g) PROVE SavesInv'
  <2>1. UNCHANGED gameVars /\ Saves(g) /\ play[g].at \in {"count1", "count2"}
    BY <1>2 DEF CountResult
  <2>2. QED BY <2>1, PlayersKeepSaves
<1>3. ASSUME NEW p \in Player, Login(p) \/ SetBio(p) PROVE SavesInv'
  <2>1. UNCHANGED gameVars /\ saver' = saver
    BY <1>3 DEF Login, SetBio
  <2>2. QED BY <2>1, PlayersKeepSaves
<1>4. ASSUME NEW p \in Player, NEW q \in Player, AddFriend(p, q) \/ RemoveFriend(p, q)
      PROVE  SavesInv'
  <2>1. UNCHANGED gameVars /\ Saves(p)
    BY <1>4 DEF AddFriend, RemoveFriend
  <2>2. QED BY <2>1, PlayersKeepSaves
<1>5. CASE Open \/ Write \/ Fallback
  BY <1>5, SaverKeepsSaves
<1>6. CASE Restart
  BY <1>6, RestartKeepsSaves
<1>7. CASE UNCHANGED vars
  <2>1. UNCHANGED gameVars /\ saver' = saver
    BY <1>7 DEF vars, playerVars
  <2>2. QED BY <2>1, PlayersKeepSaves
<1>8. QED BY <1>1, <1>2, <1>3, <1>4, <1>5, <1>6, <1>7 DEF Next

\* At first no game is created.
LEMMA InitSaves == Init => SavesInv
  BY StorageAssumption
     DEF Init, SavesInv, SafeStay, FileIsThere, AloneIsAlone, AloneIsFirst, SaverCounts,
         InSave, NoPlay, Free, Game

\* What is safe is what is loaded, and so is what is listed.
LEMMA SafeIsLoaded == IInv /\ SavesInv => SavedGamesAreKept
<1> SUFFICES ASSUME IInv, SavesInv PROVE SavedGamesAreKept
  OBVIOUS
<1>1. /\ RecordCells \in Nat /\ RecordCells >= 2 /\ 1 \in 1 .. RecordCells
      /\ file \in Seq(Cells) /\ Len(file) \in Nat /\ DOMAIN file = 1 .. Len(file)
  BY Sizes, SaveFacts
<1>2. ASSUME NEW g \in safe, play[g].at # "tail", stored[g] # Nothing
      PROVE  LoadGame(g) = stored[g]
  <2>1. PICK p \in Nat : StaysAt(g, p)
    BY DEF SavesInv, SafeStay
  <2>2. p \in Found(g) /\ First(Found(g)) = p
    BY <2>1, SaveFacts, FoundAreNumbers, FirstIs DEF StaysAt, Foremost
  <2>3. \A n \in 1 .. RecordCells : file[p + n - 1] = Cell(stored[g], n)
    BY <1>2, <2>1 DEF StaysAt
  <2>4. file[p].of = stored[g]
    <3>1. p + 1 - 1 = p
      OBVIOUS
    <3>2. file[p] = Cell(stored[g], 1)
      BY <1>1, <2>3, <3>1
    <3>3. QED BY <3>2 DEF Cell
  <2>5. Whole(p)
    BY <2>3, <2>4 DEF Whole
  <2>6. QED BY <2>2, <2>4, <2>5 DEF LoadGame
<1>3. ASSUME NEW r \in ListSavedGames PROVE LoadGame(r.game) = r
  <2>1. Len(file) = RecordCells /\ Whole(1) /\ r = file[1].of
    BY DEF ListSavedGames
  <2>2. file[1].part = 1
    <3>1. file[1 + 1 - 1] = Cell(file[1].of, 1)
      BY <1>1, <2>1 DEF Whole
    <3>2. 1 + 1 - 1 = 1
      OBVIOUS
    <3>3. QED BY <3>1, <3>2 DEF Cell
  <2>3. 1 % RecordCells = 1
    BY <1>1
  <2>4. 1 \in Found(r.game)
    BY <1>1, <2>1, <2>2, <2>3 DEF Found, Places
  <2>5. \A i \in Found(r.game) : i \in Nat /\ 1 <= i
    BY <1>1 DEF Found, Places
  <2>6. First(Found(r.game)) = 1
    BY <2>4, <2>5, FirstIs
  <2>7. QED BY <2>1, <2>4, <2>6 DEF LoadGame
<1>4. QED BY <1>2, <1>3 DEF SavedGamesAreKept

\* storage_save_game and storage_load_game: the last saved move of a game is kept
\* once a save of it was the only one, whatever saves overlap and wherever they
\* fail or are cut off afterwards; and what the server lists is what it loads.  This is
\* for any number of games and any size of a record.
THEOREM SavedGamesStay == Spec => []SavedGamesAreKept
<1>1. Init => IInv /\ SavesInv
  BY InitTypes, InitSaves
<1>2. IInv /\ SavesInv /\ [Next]_vars => (IInv /\ SavesInv)'
  BY NextKeeps, StepKeepsSaves
<1>3. IInv /\ SavesInv => SavedGamesAreKept
  BY SafeIsLoaded
<1>4. QED BY <1>1, <1>2, <1>3, PTL DEF Spec
=============================================================================
