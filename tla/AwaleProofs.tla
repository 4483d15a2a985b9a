----------------------------- MODULE AwaleProofs -----------------------------
(***************************************************************************)
(* Theorems about Awale.tla and AwaleLoops.tla, for every number of pits   *)
(* per player, every number of seeds per pit and every depth of the stack. *)
(***************************************************************************)
EXTENDS AwaleLoops, FiniteSetTheorems, TLAPS

\* The remainder of a division by a positive number.
LEMMA ModRange ==
  ASSUME NEW a \in Int, NEW n \in Nat \ {0}
  PROVE  a % n \in 0 .. n - 1
  OBVIOUS

\* The quotient of natural numbers.
LEMMA DivNat ==
  ASSUME NEW a \in Nat, NEW n \in Nat \ {0}
  PROVE  a \div n \in Nat
  OBVIOUS

\* A product grows with its factors.
LEMMA Product ==
  ASSUME NEW a \in Int, NEW b \in Int, NEW n \in Nat, a <= b
  PROVE  a * n <= b * n
  OBVIOUS

\* Quotient and remainder.
LEMMA Division ==
  ASSUME NEW a \in Nat, NEW n \in Nat \ {0}
  PROVE  /\ a \div n \in Nat /\ a % n \in 0 .. n - 1
         /\ a = (a \div n) * n + (a % n)
  OBVIOUS

\* A quotient is at least what fits.
LEMMA AtMostQuotient ==
  ASSUME NEW a \in Nat, NEW n \in Nat \ {0}, NEW i \in Nat
  PROVE  i <= a \div n <=> i * n <= a
<1> DEFINE q == a \div n
<1>1. q \in Nat /\ q * n \in Nat /\ i * n \in Nat /\ q * n <= a /\ a < (q + 1) * n
  BY Division
<1> HIDE DEF q
<1>2. CASE i <= q
  <2>1. i * n <= q * n
    BY <1>1, <1>2, Product
  <2>2. QED BY <1>1, <1>2, <2>1 DEF q
<1>3. CASE ~(i <= q)
  <2>1. (q + 1) * n <= i * n
    BY <1>1, <1>3, Product
  <2>2. QED BY <1>1, <1>3, <2>1 DEF q
<1>4. QED BY <1>2, <1>3

\* Quotient and remainder are unique.
LEMMA QuotientIs ==
  ASSUME NEW n \in Nat \ {0}, NEW i \in Nat, NEW r \in 0 .. n - 1
  PROVE  (i * n + r) \div n = i /\ (i * n + r) % n = r
<1> DEFINE a == i * n + r
           q == a \div n
<1>1. i * n \in Nat /\ a \in Nat
  OBVIOUS
<1>2. i * n <= a /\ ~((i + 1) * n <= a)
  BY <1>1
<1> HIDE DEF a
<1>2a. q \in Nat /\ a = q * n + (a % n) /\ a % n \in Int
  BY <1>1, Division
<1>3. i <= q /\ ~(i + 1 <= q)
  BY <1>1, <1>2, AtMostQuotient
<1> HIDE DEF q
<1>4. q = i
  BY <1>2a, <1>3
<1>5. a % n = r
  BY <1>1, <1>2a, <1>4 DEF a
<1>6. QED BY <1>4, <1>5 DEF a, q

\* The remainder within one turn of the range, on either side.
LEMMA ModIs ==
  ASSUME NEW a \in Int, NEW n \in Nat \ {0}
  PROVE  /\ a \in 0 .. n - 1 => a % n = a
         /\ a \in n .. 2 * n - 1 => a % n = a - n
         /\ a \in -n .. -1 => a % n = a + n
  OBVIOUS

\* There are at least two pits, and the sides of the players are pits.
LEMMA Sides ==
  /\ NumPits \in Nat /\ NumPits - 1 \in Nat \ {0}
  /\ \A player \in Player : Side(player) \subseteq Pit /\ Opponent(player) \in Player
  BY BoardAssumption DEF NumPits, Player, Side, Pit, Opponent, PLAYER_A, PLAYER_B

\* Pits that hold finitely many seeds are counted by a natural number.
LEMMA CountSeedsType ==
  ASSUME NEW pits, NEW S, IsFiniteSet(S), \A p \in S : pits[p] \in Nat
  PROVE  IsFiniteSet(Seeds(pits, S)) /\ CountSeeds(pits, S) \in Nat
<1> DEFINE seedsOf == [p \in S |-> {p} \X (1 .. pits[p])]
           parts   == {{p} \X (1 .. pits[p]) : p \in S}
<1>1. seedsOf \in Surjection(S, parts)
  BY DEF Surjection
<1>2. IsFiniteSet(parts)
  BY <1>1, FS_Surjection
<1>3. ASSUME NEW p \in S PROVE IsFiniteSet({p} \X (1 .. pits[p]))
  <2>1. pits[p] \in Int
    OBVIOUS
  <2>2. IsFiniteSet(1 .. pits[p])
    BY <2>1, FS_Interval
  <2>3. IsFiniteSet({p})
    BY FS_Singleton
  <2>4. QED BY <2>2, <2>3, FS_Product
<1>4. IsFiniteSet(UNION parts)
  BY <1>2, <1>3, FS_UNION
<1>5. QED BY <1>4, FS_CardinalityType DEF Seeds, CountSeeds

\* There are finitely many pits.
LEMMA PitsFinite == IsFiniteSet(Pit)
  BY Sides, FS_Interval DEF Pit

\* Sowing leaves no pit with fewer seeds than it had, but the one played.
LEMMA SowGrows ==
  ASSUME NEW pits \in [Pit -> Nat], NEW from \in Pit
  PROVE  /\ Sow(pits, from) \in [Pit -> Nat]
         /\ \A p \in Pit \ {from} : Sow(pits, from)[p] >= pits[p]
<1>1. ASSUME NEW p \in Pit
      PROVE  (pits[from] + NumPits - 1 - Distance(from, p)) \div (NumPits - 1) \in Nat
  <2> DEFINE seeds == pits[from] + NumPits - 1 - Distance(from, p)
             lap   == NumPits - 1
  <2>1. from \in Int /\ p \in Int
    BY Sides DEF Pit
  <2>2. Distance(from, p) \in 0 .. NumPits - 1
    BY <2>1, Sides, ModRange DEF Distance
  <2>3. seeds \in Nat /\ lap \in Nat \ {0}
    BY <2>2, Sides
  <2> HIDE DEF seeds, lap
  <2>4. seeds \div lap \in Nat
    BY <2>3, DivNat
  <2>5. QED BY <2>4 DEF seeds, lap
<1>2. QED BY <1>1 DEF Sow

\* What a simulated move returns, and that it takes seeds only across the board.
LEMMA SimulateMoveFacts ==
  ASSUME NEW pits \in [Pit -> Nat], NEW player \in Player, NEW pit \in Pit
  PROVE  LET move == SimulateMove(pits, player, pit)
         IN  /\ move.pits \in [Pit -> Nat]
             /\ move.captured \in Nat
             /\ \A p \in Side(player) \ {pit} : move.pits[p] >= pits[p]
<1> DEFINE sown  == Sow(pits, pit)
           taken == CapturedPits(sown, LastPit(pits, pit), player)
           move  == SimulateMove(pits, player, pit)
<1>1. sown \in [Pit -> Nat] /\ \A p \in Pit \ {pit} : sown[p] >= pits[p]
  BY SowGrows
<1>2. taken \subseteq Side(Opponent(player)) /\ taken \subseteq Pit
  BY Sides DEF CapturedPits
<1>3. IsFiniteSet(taken)
  BY <1>2, PitsFinite, FS_Subset
<1>4. CountSeeds(sown, taken) \in Nat
  BY <1>1, <1>2, <1>3, CountSeedsType
<1>5. Side(player) \cap Side(Opponent(player)) = {}
  BY BoardAssumption DEF Side, Opponent, Player, PLAYER_A, PLAYER_B
<1>6. move.pits = [p \in Pit |-> IF p \in taken THEN 0 ELSE sown[p]]
  BY DEF SimulateMove
<1>7. move.captured = CountSeeds(sown, taken)
  BY DEF SimulateMove
<1> HIDE DEF sown, taken, move
<1>8. QED BY <1>1, <1>2, <1>4, <1>5, <1>6, <1>7, Sides DEF move

-----------------------------------------------------------------------------
(* Types.                                                                   *)

\* A move that does not crash leaves a well-typed board.
LEMMA PlayedType ==
  ASSUME TypeOK, NEW player \in Player, NEW pit \in Pit
  PROVE  /\ Played(board, player, pit) \in Board
         /\ ~Diverges(Played(board, player, pit)) =>
              Settled(Played(board, player, pit)) \in Board
<1> DEFINE move   == SimulateMove(board.pits, player, pit)
           played == Played(board, player, pit)
<1>1. board \in Board /\ board.pits \in [Pit -> Nat]
  BY DEF TypeOK, Board
<1>2. move.pits \in [Pit -> Nat] /\ move.captured \in Nat
  BY <1>1, SimulateMoveFacts
<1>3. played = [board EXCEPT !.pits = move.pits, !.scores[player] = @ + move.captured]
  BY DEF Played
<1> HIDE DEF move, played
<1>4. played \in Board
  <2>1. board.scores[player] + move.captured \in Nat
    BY <1>1, <1>2 DEF Board
  <2>2. [board.scores EXCEPT ![player] = @ + move.captured] \in [Player -> Nat]
    BY <1>1, <2>1 DEF Board
  <2>3. played = [board EXCEPT !.pits = move.pits,
                               !.scores = [board.scores EXCEPT ![player] = @ + move.captured]]
    BY <1>1, <1>3 DEF Board
  <2>4. QED BY <1>1, <1>2, <2>2, <2>3 DEF Board
<1>5. CheckWinCondition(played) \in {"WINNER_A", "WINNER_B", "DIVERGES", "NO_WINNER"}
  BY DEF CheckWinCondition
<1>6. Opponent(played.current_player) \in Player
  BY <1>4, Sides DEF Board
<1>7. ASSUME ~Diverges(played) PROVE Settled(played) \in Board
  BY <1>4, <1>5, <1>6, <1>7 DEF Settled, Diverges, Board
<1>8. QED BY <1>4, <1>7 DEF played

\* No step leaves the types.
LEMMA TypeStep == ASSUME TypeOK, [Next]_vars PROVE TypeOK'
<1>1. ASSUME NEW player \in Player, NEW pit \in Pit, ExecuteMove(player, pit)
      PROVE  TypeOK'
  BY <1>1, PlayedType DEF ExecuteMove, TypeOK
<1>2. CASE AskGameOver
  BY <1>2 DEF AskGameOver, TypeOK
<1>3. CASE UNCHANGED vars
  BY <1>3 DEF vars, TypeOK
<1>4. QED BY <1>1, <1>2, <1>3 DEF Next

\* A game begins within the types.
LEMMA InitTypes == Init => TypeOK
<1>1. [p \in Pit |-> SeedsPerPit] \in [Pit -> Nat]
  BY BoardAssumption
<1>2. [player \in Player |-> 0] \in [Player -> Nat]
  OBVIOUS
<1>3. PLAYER_A \in Player
  BY DEF Player
<1>4. ASSUME NEW s \in [Player -> Nat], NEW f \in [Pit -> Nat]
      PROVE  [pits |-> f, scores |-> s, current_player |-> PLAYER_A,
              state |-> "IN_PROGRESS", winner |-> "NO_WINNER"] \in Board
  BY <1>3 DEF Board
<1>5. ASSUME Init PROVE board \in Board
  BY <1>1, <1>2, <1>4, <1>5 DEF Init
<1>6. QED BY <1>5 DEF Init, TypeOK

\* The invariant TypeOK of Awale.tla.
THEOREM TypeCorrect == Spec => []TypeOK
<1>1. Init => TypeOK
  BY InitTypes
<1>2. TypeOK /\ [Next]_vars => TypeOK'
  BY TypeStep
<1>3. QED BY <1>1, <1>2, PTL DEF Spec

-----------------------------------------------------------------------------
(* The feeding rule.                                                        *)

\* The invariant MoverNotBlocked of Awale.tla: whatever the seeds and whatever
\* sowing and capturing do, a player with a seed has a legal move.
THEOREM FeedingRuleLeavesAMove == Spec => []MoverNotBlocked
<1>1. TypeOK => MoverNotBlocked
  <2> SUFFICES ASSUME TypeOK, CanPlayerMove(board.pits, board.current_player)
               PROVE  \E pit \in Pit :
                        ValidateMove(board, board.current_player, pit) = "SUCCESS"
    BY DEF MoverNotBlocked
  <2> DEFINE mover   == board.current_player
             held    == {p \in Side(mover) : board.pits[p] > 0}
             feeding == {p \in held : ~WouldStarveOpponent(board.pits, mover, p)}
  <2>1. mover \in Player /\ board.pits \in [Pit -> Nat]
    BY DEF TypeOK, Board
  <2>2. held \subseteq Pit /\ held # {}
    BY <2>1, Sides DEF CanPlayerMove, IsSideEmpty
  <2>3. ASSUME NEW p \in held,
               p \in feeding \/ ~HasFeedingAlternative(board.pits, mover, p)
        PROVE  ValidateMove(board, mover, p) = "SUCCESS"
    BY <2>1, <2>2, <2>3 DEF ValidateMove
  <2>4. CASE feeding # {}
    BY <2>2, <2>3, <2>4
  <2>5. CASE feeding = {}
    <3>1. \A p \in held : ~HasFeedingAlternative(board.pits, mover, p)
      BY <2>5 DEF HasFeedingAlternative
    <3>2. QED BY <2>2, <2>3, <3>1
  <2>6. QED BY <2>4, <2>5
<1>2. QED BY <1>1, TypeCorrect, PTL

-----------------------------------------------------------------------------
(* Captures and the end of the game.                                        *)

\* A move is the current player's, of a pit of its side, and changes the pits
\* and the mover's score as Played says whether the process survives it or not.
LEMMA MoveFacts ==
  ASSUME TypeOK, NEW player \in Player, NEW pit \in Pit, ExecuteMove(player, pit)
  PROVE  LET played == Played(board, player, pit)
         IN  /\ player = board.current_player
             /\ pit \in Side(player)
             /\ board'.pits = played.pits
             /\ board'.scores = played.scores
<1> DEFINE played == Played(board, player, pit)
<1>1. ValidateMove(board, player, pit) = "SUCCESS"
  BY DEF ExecuteMove
<1>2. player = board.current_player /\ pit \in Side(player)
  BY <1>1 DEF ValidateMove
<1>3. played \in Board
  BY PlayedType
<1>4. CASE ~Diverges(played)
  <2>1. board' = Settled(played)
    BY <1>4 DEF ExecuteMove
  <2>2. Settled(played).pits = played.pits /\ Settled(played).scores = played.scores
    BY <1>3 DEF Settled, Board
  <2>3. QED BY <1>2, <2>1, <2>2
<1>5. CASE Diverges(played)
  BY <1>2, <1>5 DEF ExecuteMove
<1>6. QED BY <1>4, <1>5

\* What a move leaves in the pits and the scores, field by field.
LEMMA PlayedFacts ==
  ASSUME TypeOK, NEW player \in Player, NEW pit \in Pit
  PROVE  LET move   == SimulateMove(board.pits, player, pit)
             played == Played(board, player, pit)
         IN  /\ played.pits = move.pits
             /\ played.scores[player] = board.scores[player] + move.captured
             /\ played.scores[Opponent(player)] = board.scores[Opponent(player)]
             /\ played.current_player = board.current_player
             /\ played.state = board.state /\ played.winner = board.winner
<1>1. board \in Board /\ Opponent(player) \in Player /\ Opponent(player) # player
  BY Sides DEF TypeOK, Opponent, Player, PLAYER_A, PLAYER_B
<1>2. QED BY <1>1 DEF Played, Board

\* The action property CaptureStaysAcross of Awale.tla: no move, on any board,
\* takes the mover's own seeds or the other player's score.
THEOREM CapturesStayAcross == Spec => CaptureStaysAcross
<1> DEFINE Across ==
      LET mover == board.current_player
      IN  /\ board'.scores[Opponent(mover)] = board.scores[Opponent(mover)]
          /\ \E played \in Side(mover) : \A p \in Side(mover) \ {played} :
                board'.pits[p] >= board.pits[p]
<1>1. TypeOK /\ [Next]_vars => [Across]_vars
  <2> SUFFICES ASSUME TypeOK, Next PROVE Across \/ UNCHANGED vars
    OBVIOUS
  <2>1. ASSUME NEW player \in Player, NEW pit \in Pit, ExecuteMove(player, pit)
        PROVE  Across
    <3>1. /\ player = board.current_player /\ pit \in Side(player)
          /\ board'.pits = Played(board, player, pit).pits
          /\ board'.scores = Played(board, player, pit).scores
      BY <2>1, MoveFacts
    <3>2. board'.scores[Opponent(player)] = board.scores[Opponent(player)]
      BY <3>1, PlayedFacts
    <3>3. board.pits \in [Pit -> Nat]
      BY DEF TypeOK, Board
    <3>4. \A p \in Side(player) \ {pit} : board'.pits[p] >= board.pits[p]
      BY <3>1, <3>3, PlayedFacts, SimulateMoveFacts
    <3>5. QED BY <3>1, <3>2, <3>4
  <2>2. CASE AskGameOver
    <3>1. \A player \in Player : Side(player) # {}
      BY BoardAssumption DEF Side, Player, PLAYER_A, PLAYER_B
    <3>2. board' = board /\ board \in Board
      BY <2>2 DEF AskGameOver, TypeOK
    <3>3. PICK played \in Side(board.current_player) : TRUE
      BY <3>1, <3>2 DEF Board
    <3>4. \A p \in Side(board.current_player) : board.pits[p] \in Nat
      BY <3>2, Sides DEF Board
    <3>5. QED BY <3>2, <3>3, <3>4
  <2>3. QED BY <2>1, <2>2 DEF Next
<1>2. QED BY <1>1, TypeCorrect, PTL DEF Spec, CaptureStaysAcross

\* How a move ends, given what holds between moves: it keeps the invariant, and
\* a decided game decided.
LEMMA MoveSettles ==
  ASSUME TypeOK, WinnerHoldsTheTurn,
         NEW player \in Player, NEW pit \in Pit, ExecuteMove(player, pit)
  PROVE  /\ WinnerHoldsTheTurn'
         /\ board.winner # "NO_WINNER" =>
              board'.winner = board.winner /\ board'.state = "FINISHED"
<1> DEFINE move   == SimulateMove(board.pits, player, pit)
           played == Played(board, player, pit)
<1>1. /\ board \in Board /\ player = board.current_player
      /\ Opponent(player) \in Player
      /\ \/ player = PLAYER_A /\ Opponent(player) = PLAYER_B
         \/ player = PLAYER_B /\ Opponent(player) = PLAYER_A
  BY MoveFacts, Sides DEF TypeOK, Opponent, Player, PLAYER_A, PLAYER_B
<1>2. move.captured \in Nat
  BY <1>1, SimulateMoveFacts DEF Board
<1>3. played \in Board
  BY PlayedType
<1>4. /\ played.scores[player] = board.scores[player] + move.captured
      /\ played.scores[Opponent(player)] = board.scores[Opponent(player)]
      /\ played.current_player = player
      /\ played.state = board.state /\ played.winner = board.winner
  BY <1>1, PlayedFacts
<1>5. /\ board.scores \in [Player -> Nat] /\ played.scores \in [Player -> Nat]
      /\ WinScore \in Nat
  BY <1>1, <1>3, BoardAssumption DEF Board
<1>6. \/ ~Diverges(played) /\ board' = Settled(played)
      \/ Diverges(played) /\ board' = played
  BY DEF ExecuteMove
<1> HIDE DEF move, played
\* A score that has won still has, and the loser's does not change.
<1>7. CASE board.winner = "NO_WINNER"
  <2>1. /\ board.state # "FINISHED" /\ played.scores[Opponent(player)] < WinScore
        /\ played.state = "IN_PROGRESS"
    BY <1>1, <1>3, <1>4, <1>7 DEF WinnerHoldsTheTurn, Board
  <2>2. CASE CheckWinCondition(played) \in {"WINNER_A", "WINNER_B"}
    <3>1. board' = [played EXCEPT !.state = "FINISHED",
                                  !.winner = CheckWinCondition(played)]
      BY <1>6, <2>2 DEF Settled, Diverges
    <3>2. \/ /\ CheckWinCondition(played) = "WINNER_A" /\ player = PLAYER_A
             /\ played.scores[PLAYER_A] >= WinScore
          \/ /\ CheckWinCondition(played) = "WINNER_B" /\ player = PLAYER_B
             /\ played.scores[PLAYER_B] >= WinScore /\ played.scores[PLAYER_A] < WinScore
      BY <1>1, <1>5, <2>1, <2>2 DEF CheckWinCondition
    <3>3. board'.scores = played.scores /\ board'.current_player = player
          /\ board'.state = "FINISHED" /\ board'.winner = CheckWinCondition(played)
      BY <1>3, <1>4, <3>1 DEF Board
    <3>4. QED BY <1>7, <3>2, <3>3 DEF WinnerHoldsTheTurn
  <2>3. CASE CheckWinCondition(played) \in {"DIVERGES", "NO_WINNER"}
    <3>1. board'.scores = played.scores /\ board'.state = "IN_PROGRESS"
          /\ board'.winner = "NO_WINNER"
      BY <1>3, <1>4, <1>6, <1>7, <2>1, <2>3 DEF Settled, Diverges, Board
    <3>2. \A p \in Player : played.scores[p] < WinScore
      BY <1>5, <2>3 DEF CheckWinCondition, Player
    <3>3. QED BY <1>7, <3>1, <3>2 DEF WinnerHoldsTheTurn
  <2>4. QED BY <2>2, <2>3 DEF CheckWinCondition
<1>8. CASE board.winner # "NO_WINNER"
  <2>1. /\ board.state = "FINISHED"
        /\ \/ board.winner = "WINNER_A" /\ player = PLAYER_A
           \/ board.winner = "WINNER_B" /\ player = PLAYER_B
    BY <1>1, <1>8 DEF WinnerHoldsTheTurn, Board
  <2>2. CheckWinCondition(played) = board.winner
    BY <1>1, <1>2, <1>4, <1>5, <2>1 DEF CheckWinCondition, WinnerHoldsTheTurn
  <2>3. board' = [played EXCEPT !.state = "FINISHED", !.winner = board.winner]
    BY <1>6, <1>8, <2>1, <2>2 DEF Settled, Diverges
  <2>4. QED BY <1>1, <1>2, <1>3, <1>4, <1>5, <2>1, <2>3 DEF WinnerHoldsTheTurn, Board
<1>9. QED BY <1>7, <1>8

\* The invariant WinnerHoldsTheTurn of Awale.tla, which is inductive once the
\* types are known.
THEOREM WinnerKeepsTheTurn == Spec => []WinnerHoldsTheTurn
<1>1. Init => WinnerHoldsTheTurn
  BY BoardAssumption DEF Init, WinnerHoldsTheTurn, TotalSeeds, NumPits
<1>2. TypeOK /\ WinnerHoldsTheTurn /\ [Next]_vars => WinnerHoldsTheTurn'
  <2> SUFFICES ASSUME TypeOK, WinnerHoldsTheTurn, [Next]_vars
               PROVE  WinnerHoldsTheTurn'
    OBVIOUS
  <2>1. ASSUME NEW player \in Player, NEW pit \in Pit, ExecuteMove(player, pit)
        PROVE  WinnerHoldsTheTurn'
    BY <2>1, MoveSettles DEF WinnerHoldsTheTurn
  <2>2. CASE AskGameOver
    BY <2>2 DEF AskGameOver, WinnerHoldsTheTurn
  <2>3. CASE UNCHANGED vars
    BY <2>3 DEF vars, WinnerHoldsTheTurn
  <2>4. QED BY <2>1, <2>2, <2>3 DEF Next
<1>3. QED BY <1>1, <1>2, TypeCorrect, PTL DEF Spec

\* The action property WinnerIsFinal of Awale.tla.
THEOREM WinnerStays == Spec => WinnerIsFinal
<1> DEFINE Final == board.winner # "NO_WINNER" =>
                      board'.winner = board.winner /\ board'.state = "FINISHED"
<1>1. TypeOK /\ WinnerHoldsTheTurn /\ [Next]_vars => [Final]_vars
  <2> SUFFICES ASSUME TypeOK, WinnerHoldsTheTurn, Next, board.winner # "NO_WINNER"
               PROVE  board'.winner = board.winner /\ board'.state = "FINISHED"
    OBVIOUS
  <2>1. ASSUME NEW player \in Player, NEW pit \in Pit, ExecuteMove(player, pit)
        PROVE  board'.winner = board.winner /\ board'.state = "FINISHED"
    BY <2>1, MoveSettles
  <2>2. CASE AskGameOver
    BY <2>2 DEF AskGameOver, WinnerHoldsTheTurn
  <2>3. QED BY <2>1, <2>2 DEF Next
<1>2. QED BY <1>1, TypeCorrect, WinnerKeepsTheTurn, PTL DEF Spec, WinnerIsFinal

\* The refinement RefinesTurns of Awale.tla: a move that goes on passes the turn, one
\* that wins keeps it, and a move on a won board and the crash change neither.
THEOREM ImplementsTurns == Spec => RefinesTurns
<1>1. Init => Turns!Init
  BY DEF Init, Turns!Init, WinnerOf, PLAYER_A
<1>2. TypeOK /\ WinnerHoldsTheTurn /\ WinnerHoldsTheTurn' /\ TypeOK' /\ [Next]_vars
        => [Turns!Next]_(Turns!vars)
  <2> SUFFICES ASSUME TypeOK, WinnerHoldsTheTurn, WinnerHoldsTheTurn', TypeOK', [Next]_vars
               PROVE  Turns!Next \/ UNCHANGED Turns!vars
    OBVIOUS
  <2>1. ASSUME NEW player \in Player, NEW pit \in Pit, ExecuteMove(player, pit)
        PROVE  Turns!Next \/ UNCHANGED Turns!vars
    <3> DEFINE played == Played(board, player, pit)
    <3>1. /\ board \in Board /\ board' \in Board /\ played \in Board
          /\ player = board.current_player
          /\ played.current_player = player
          /\ played.state = board.state /\ played.winner = board.winner
      BY <2>1, MoveFacts, PlayedType, PlayedFacts DEF TypeOK
    <3>2. \/ ~Diverges(played) /\ board' = Settled(played)
          \/ Diverges(played) /\ board' = played
      BY <2>1 DEF ExecuteMove
    <3> HIDE DEF played
    <3>3. CASE board' = played
      BY <3>1, <3>3 DEF Turns!vars, WinnerOf
    <3>4. CASE ~Diverges(played) /\ board' = Settled(played) /\ board.winner # "NO_WINNER"
      <4>1. board'.winner = board.winner
        BY <2>1, <3>4, MoveSettles
      <4>2. board'.current_player = board.current_player
        BY <3>1, <3>4, <4>1 DEF WinnerHoldsTheTurn, Board
      <4>3. QED BY <4>1, <4>2 DEF Turns!vars, WinnerOf
    <3>5. CASE ~Diverges(played) /\ board' = Settled(played) /\ board.winner = "NO_WINNER"
      <4>1. played.state = "IN_PROGRESS" /\ WinnerOf(board) = -1
        BY <3>1, <3>5 DEF WinnerHoldsTheTurn, WinnerOf, Board
      <4>2. CASE CheckWinCondition(played) = "NO_WINNER"
        <5>1. board'.current_player = Opponent(player) /\ board'.winner = "NO_WINNER"
          BY <3>1, <3>5, <4>1, <4>2 DEF Settled, Board
        <5>2. QED BY <3>1, <4>1, <5>1
                  DEF Turns!Next, Turns!Pass, Turns!Other, WinnerOf, Opponent, Player,
                      PLAYER_A, PLAYER_B
      <4>3. CASE CheckWinCondition(played) # "NO_WINNER"
        <5>1. board' = [played EXCEPT !.state = "FINISHED",
                                      !.winner = CheckWinCondition(played)]
          BY <3>5, <4>3 DEF Settled
        <5>2. board'.current_player = player /\ board'.winner # "NO_WINNER"
          BY <3>1, <4>3, <5>1 DEF Board
        <5>3. WinnerOf(board') = player
          BY <3>1, <5>2 DEF WinnerHoldsTheTurn, WinnerOf, Board
        <5>4. QED BY <3>1, <4>1, <5>2, <5>3 DEF Turns!Next, Turns!Win
      <4>4. QED BY <4>2, <4>3
    <3>6. QED BY <3>2, <3>3, <3>4, <3>5
  <2>2. CASE AskGameOver \/ UNCHANGED vars
    BY <2>2 DEF AskGameOver, vars, Turns!vars, WinnerOf
  <2>3. QED BY <2>1, <2>2 DEF Next
<1>3. QED BY <1>1, <1>2, TypeCorrect, WinnerKeepsTheTurn, PTL DEF Spec, RefinesTurns, Turns!Spec

\* While no pit has fewer than 4 seeds, as when a game of the program begins, a move
\* captures nothing: sowing only adds to the pits across the board.  So no first
\* move wins, as Games.tla has it.
THEOREM FirstMoveTakesNothing ==
  Spec => [][(\A p \in Pit : board.pits[p] >= 4) =>
                board'.scores = board.scores /\ board'.winner = board.winner]_vars
<1> DEFINE Safe == (\A p \in Pit : board.pits[p] >= 4) =>
                     board'.scores = board.scores /\ board'.winner = board.winner
<1>1. TypeOK /\ WinnerHoldsTheTurn /\ WinnerHoldsTheTurn' /\ TypeOK' /\ [Next]_vars => [Safe]_vars
  <2> SUFFICES ASSUME TypeOK, WinnerHoldsTheTurn, WinnerHoldsTheTurn', TypeOK', Next,
                      \A p \in Pit : board.pits[p] >= 4
               PROVE  board'.scores = board.scores /\ board'.winner = board.winner
    OBVIOUS
  <2>1. ASSUME NEW player \in Player, NEW pit \in Pit, ExecuteMove(player, pit)
        PROVE  board'.scores = board.scores /\ board'.winner = board.winner
    <3> DEFINE sown  == Sow(board.pits, pit)
               last  == LastPit(board.pits, pit)
               taken == CapturedPits(sown, last, player)
    <3>1. /\ board \in Board /\ board' \in Board /\ board.pits \in [Pit -> Nat]
          /\ player = board.current_player /\ pit \in Side(player)
          /\ board'.scores = Played(board, player, pit).scores
      BY <2>1, MoveFacts DEF TypeOK, Board
    <3>2. Side(player) \cap Side(Opponent(player)) = {} /\ Side(Opponent(player)) \subseteq Pit
      BY BoardAssumption DEF Side, Opponent, Player, PLAYER_A, PLAYER_B, Pit, NumPits
    <3>3. \A p \in Side(Opponent(player)) : sown[p] \in Nat /\ sown[p] >= 4
      <4>1. /\ sown \in [Pit -> Nat]
            /\ \A p \in Pit \ {pit} : sown[p] >= board.pits[p]
        BY <3>1, SowGrows
      <4>2. ASSUME NEW p \in Side(Opponent(player)) PROVE sown[p] \in Nat /\ sown[p] >= 4
        <5>1. p \in Pit \ {pit} /\ board.pits[p] \in Nat /\ board.pits[p] >= 4
          BY <3>1, <3>2
        <5> HIDE DEF sown
        <5>2. sown[p] \in Nat /\ sown[p] >= board.pits[p]
          BY <4>1, <5>1
        <5>3. QED BY <5>1, <5>2
      <4>3. QED BY <4>2
    <3>4. taken = {}
      <4>1. \A p \in taken : last \in Side(Opponent(player)) /\ sown[last] \in {2, 3}
        <5> HIDE DEF sown, last
        <5>1. \A p \in Side(Opponent(player)) : p \in Int
          BY Sides DEF Side, Opponent, Player, PLAYER_A, PLAYER_B
        <5>2. QED BY <5>1 DEF CapturedPits
      <4> HIDE DEF sown, last, taken
      <4>2. QED BY <3>3, <4>1
    <3>5. SimulateMove(board.pits, player, pit).captured = 0
      <4>1. SimulateMove(board.pits, player, pit).captured = CountSeeds(sown, taken)
        BY DEF SimulateMove
      <4>2. CountSeeds(sown, {}) = 0
        BY FS_EmptySet DEF CountSeeds, Seeds
      <4>3. QED BY <3>4, <4>1, <4>2
    <3>6. board'.scores = board.scores
      <4>1. /\ Played(board, player, pit).scores[player] = board.scores[player]
            /\ Played(board, player, pit).scores[Opponent(player)] = board.scores[Opponent(player)]
        <5>1. board.scores[player] \in Nat
          BY <3>1 DEF Board
        <5>2. Played(board, player, pit).scores[player] = board.scores[player] + 0
          BY <3>5, PlayedFacts
        <5>3. QED BY <5>1, <5>2, PlayedFacts
      <4>2. Player = {player, Opponent(player)}
        BY DEF Player, Opponent, PLAYER_A, PLAYER_B
      <4>3. \A q \in Player : board'.scores[q] = board.scores[q]
        BY <3>1, <4>1, <4>2
      <4>4. board.scores \in [Player -> Nat] /\ board'.scores \in [Player -> Nat]
        BY <3>1 DEF Board
      <4>5. QED BY <4>3, <4>4
    <3>7. CASE board.winner # "NO_WINNER"
      BY <2>1, <3>6, <3>7, MoveSettles
    <3>8. CASE board.winner = "NO_WINNER"
      <4>1. \A q \in Player : board.scores[q] \in Nat /\ board'.scores[q] < WinScore
        BY <3>1, <3>6, <3>8 DEF WinnerHoldsTheTurn, Board
      <4>2. ~(board'.scores[PLAYER_A] >= WinScore) /\ ~(board'.scores[PLAYER_B] >= WinScore)
        BY <3>6, <4>1, BoardAssumption DEF Player
      <4>3. board'.winner \notin {"WINNER_A", "WINNER_B"}
        BY <4>2 DEF WinnerHoldsTheTurn
      <4>4. QED BY <3>1, <3>6, <3>8, <4>3 DEF Board
    <3>9. QED BY <3>6, <3>7, <3>8
  <2>2. CASE AskGameOver
    BY <2>2 DEF AskGameOver
  <2>3. QED BY <2>1, <2>2 DEF Next
<1>2. QED BY <1>1, TypeCorrect, WinnerKeepsTheTurn, PTL DEF Spec

-----------------------------------------------------------------------------
(* No seed is lost or made.                                                 *)

\* The seeds of two sets of pits are those of one and those of the other.
LEMMA CountOfUnion ==
  ASSUME NEW pits, NEW S, NEW T, IsFiniteSet(S), IsFiniteSet(T), S \cap T = {},
         \A p \in S \union T : pits[p] \in Nat
  PROVE  CountSeeds(pits, S \union T) = CountSeeds(pits, S) + CountSeeds(pits, T)
<1>1. /\ IsFiniteSet(Seeds(pits, S)) /\ CountSeeds(pits, S) \in Nat
      /\ IsFiniteSet(Seeds(pits, T)) /\ CountSeeds(pits, T) \in Nat
  BY CountSeedsType
<1>2. Seeds(pits, S \union T) = Seeds(pits, S) \union Seeds(pits, T)
  BY DEF Seeds
<1>3. Seeds(pits, S) \cap Seeds(pits, T) = {}
  BY DEF Seeds
<1> DEFINE A == Seeds(pits, S)
           B == Seeds(pits, T)
<1>4. IsFiniteSet(A) /\ IsFiniteSet(B) /\ Cardinality(A) \in Nat /\ Cardinality(B) \in Nat /\ A \cap B = {}
  BY <1>1, <1>3 DEF CountSeeds
<1> HIDE DEF A, B
<1>5. Cardinality(A \union B) = Cardinality(A) + Cardinality(B)
  <2>1. Cardinality(A \union B) = Cardinality(A) + Cardinality(B) - Cardinality(A \cap B)
    BY <1>4, FS_Union
  <2>2. Cardinality(A \cap B) = 0
    BY <1>4, FS_EmptySet
  <2>3. QED BY <1>4, <2>1, <2>2
<1>6. QED BY <1>2, <1>5 DEF A, B, CountSeeds

\* A set that is numbered from 1 to k has k elements.
LEMMA CountByNumbers ==
  ASSUME NEW k \in Nat, NEW T, NEW f \in [1 .. k -> T],
         \A i, j \in 1 .. k : f[i] = f[j] => i = j,
         \A t \in T : \E i \in 1 .. k : f[i] = t
  PROVE  IsFiniteSet(T) /\ Cardinality(T) = k
<1>1. f \in Bijection(1 .. k, T)
  BY DEF Bijection, Injection, Surjection, IsInjective
<1>2. IsFiniteSet(1 .. k) /\ Cardinality(1 .. k) = k
  <2>1. k \in Int /\ 1 \in Int /\ (1 > k => k = 0) /\ k - 1 + 1 = k
    OBVIOUS
  <2>2. QED BY <2>1, FS_Interval
<1>3. QED BY <1>1, <1>2, FS_Bijection DEF ExistsBijection

\* The seeds of a pit.
LEMMA CountOfPit ==
  ASSUME NEW pits, NEW p, pits[p] \in Nat
  PROVE  CountSeeds(pits, {p}) = pits[p]
<1> DEFINE k == pits[p]
           T == {p} \X (1 .. k)
           f == [i \in 1 .. k |-> <<p, i>>]
<1>1. Seeds(pits, {p}) = T
  BY DEF Seeds
<1>2. f \in [1 .. k -> T] /\ \A i \in 1 .. k : f[i] = <<p, i>>
  OBVIOUS
<1>3. \A t \in T : t[2] \in 1 .. k /\ <<p, t[2]>> = t
  OBVIOUS
<1>4. k \in Nat
  OBVIOUS
<1> HIDE DEF f, T, k
<1>5. \A i, j \in 1 .. k : f[i] = f[j] => i = j
  BY <1>2
<1>6. \A t \in T : \E i \in 1 .. k : f[i] = t
  BY <1>2, <1>3
<1>7. QED BY <1>1, <1>2, <1>4, <1>5, <1>6, CountByNumbers DEF CountSeeds, k

\* Only the pits of the set matter.
LEMMA CountOfSame ==
  ASSUME NEW f, NEW g, NEW S, \A p \in S : f[p] = g[p]
  PROVE  CountSeeds(f, S) = CountSeeds(g, S)
<1>1. Seeds(f, S) = Seeds(g, S)
  BY DEF Seeds
<1>2. QED BY <1>1 DEF CountSeeds

\* No seeds, none counted.
LEMMA CountOfNone ==
  ASSUME NEW pits, NEW S, \A p \in S : pits[p] = 0
  PROVE  CountSeeds(pits, S) = 0
<1>1. Seeds(pits, S) = {}
  BY DEF Seeds
<1>2. QED BY <1>1, FS_EmptySet DEF CountSeeds

\* A pit at distance d gets its i-th seed when seed (i - 1) * (NumPits - 1) + d of
\* those in hand is sown.
Added(k, d) == (k + NumPits - 1 - d) \div (NumPits - 1)

\* Which seeds a pit at distance d gets.
LEMMA AddedIs ==
  ASSUME NEW k \in Nat, NEW d \in 1 .. NumPits - 1
  PROVE  /\ Added(k, d) \in Nat
         /\ \A i \in Nat : i <= Added(k, d) <=> (i - 1) * (NumPits - 1) + d <= k
<1> DEFINE n == NumPits - 1
           a == k + NumPits - 1 - d
<1>1. n \in Nat \ {0} /\ a \in Nat /\ a = k + n - d
  BY Sides
<1>2. Added(k, d) = a \div n
  BY DEF Added
<1> HIDE DEF a, n
<1>3. Added(k, d) \in Nat
  BY <1>1, <1>2, Division
<1>4. ASSUME NEW i \in Nat PROVE i <= Added(k, d) <=> (i - 1) * n + d <= k
  <2>1. i <= a \div n <=> i * n <= a
    BY <1>1, AtMostQuotient
  <2>2. (i - 1) * n = i * n - n /\ i * n \in Nat
    BY <1>1
  <2>3. d \in Int
    OBVIOUS
  <2>4. QED BY <1>1, <1>2, <2>1, <2>2, <2>3
<1>5. QED BY <1>3, <1>4 DEF n

\* The pit at a distance, around the board.
PitAt(from, d) == (from + d) % NumPits

\* Distances other than 0 are those of the other pits, one each.
LEMMA PitAtDistance ==
  ASSUME NEW from \in Pit
  PROVE  /\ \A d \in 1 .. NumPits - 1 :
              PitAt(from, d) \in Pit \ {from} /\ Distance(from, PitAt(from, d)) = d
         /\ \A p \in Pit \ {from} :
              Distance(from, p) \in 1 .. NumPits - 1 /\ PitAt(from, Distance(from, p)) = p
<1>1. NumPits \in Nat \ {0} /\ from \in 0 .. NumPits - 1
  BY Sides DEF Pit
<1> HIDE DEF NumPits
<1>2. ASSUME NEW d \in 1 .. NumPits - 1
      PROVE  PitAt(from, d) \in Pit \ {from} /\ Distance(from, PitAt(from, d)) = d
  <2>1. from + d \in Int /\ d \in Int /\ from \in Int /\ NumPits \in Int
    BY <1>1
  <2>2. CASE from + d < NumPits
    <3>1. from + d \in 0 .. NumPits - 1 /\ d \in 0 .. NumPits - 1
      BY <1>1, <2>1, <2>2
    <3>2. PitAt(from, d) = from + d
      BY <1>1, <2>1, <3>1, ModIs DEF PitAt
    <3>3. (from + d) - from = d /\ from + d # from
      BY <2>1
    <3>4. Distance(from, from + d) = d
      BY <1>1, <2>1, <3>1, <3>3, ModIs DEF Distance
    <3>5. QED BY <3>1, <3>2, <3>3, <3>4 DEF Pit
  <2>3. CASE from + d >= NumPits
    <3>1. from + d \in NumPits .. 2 * NumPits - 1
      BY <1>1, <2>1, <2>3
    <3>2. PitAt(from, d) = from + d - NumPits
      <4>1. (from + d) % NumPits = (from + d) - NumPits
        BY <1>1, <2>1, <3>1, ModIs
      <4>2. QED BY <1>1, <2>1, <4>1 DEF PitAt
    <3>3. /\ (from + d - NumPits) - from = d - NumPits /\ d - NumPits \in -NumPits .. -1
          /\ d - NumPits \in Int /\ (d - NumPits) + NumPits = d
          /\ from + d - NumPits \in 0 .. NumPits - 1 /\ from + d - NumPits # from
      BY <1>1, <2>1, <2>3
    <3>4. Distance(from, from + d - NumPits) = d
      <4>1. (d - NumPits) % NumPits = (d - NumPits) + NumPits
        BY <1>1, <3>3, ModIs
      <4>2. QED BY <3>3, <4>1 DEF Distance
    <3>5. QED BY <3>2, <3>3, <3>4 DEF Pit
  <2>4. QED BY <1>1, <2>1, <2>2, <2>3
<1>3. ASSUME NEW p \in Pit \ {from}
      PROVE  Distance(from, p) \in 1 .. NumPits - 1 /\ PitAt(from, Distance(from, p)) = p
  <2>1. p \in 0 .. NumPits - 1 /\ p # from
    BY DEF Pit
  <2>2. CASE p > from
    <3>1. p - from \in 1 .. NumPits - 1 /\ p - from \in 0 .. NumPits - 1 /\ from + (p - from) = p /\ p - from \in Int
      BY <1>1, <2>1, <2>2
    <3>2. Distance(from, p) = p - from
      BY <1>1, <3>1, ModIs DEF Distance
    <3>3. p \in Int /\ p % NumPits = p
      BY <1>1, <2>1, ModIs
    <3>4. QED BY <3>1, <3>2, <3>3 DEF PitAt
  <2>3. CASE p < from
    <3>1. /\ p - from \in -NumPits .. -1 /\ p - from + NumPits \in 1 .. NumPits - 1 /\ p - from \in Int
          /\ from + (p - from + NumPits) = p + NumPits /\ p + NumPits \in NumPits .. 2 * NumPits - 1
          /\ p + NumPits - NumPits = p /\ p + NumPits \in Int
      BY <1>1, <2>1, <2>3
    <3>2. Distance(from, p) = p - from + NumPits
      BY <1>1, <3>1, ModIs DEF Distance
    <3>3. (p + NumPits) % NumPits = p
      BY <1>1, <3>1, ModIs
    <3>4. QED BY <3>1, <3>2, <3>3 DEF PitAt
  <2>4. QED BY <1>1, <2>1, <2>2, <2>3
<1>4. QED BY <1>2, <1>3

\* Sowing puts the seeds of the pit it empties into the others, all of them.
LEMMA SowKeepsSeeds ==
  ASSUME NEW pits \in [Pit -> Nat], NEW from \in Pit,
         Sow(pits, from) \in [Pit -> Nat]
  PROVE  CountSeeds(Sow(pits, from), Pit) = CountSeeds(pits, Pit)
<1> DEFINE sown == Sow(pits, from)
           rest == Pit \ {from}
           k    == pits[from]
           n    == NumPits - 1
           more(p) == Added(k, Distance(from, p))
           New  == UNION {{p} \X (pits[p] + 1 .. pits[p] + more(p)) : p \in rest}
           pit(j)  == PitAt(from, ((j - 1) % n) + 1)
           lap(j)  == ((j - 1) \div n) + 1
           f    == [j \in 1 .. k |-> <<pit(j), pits[pit(j)] + lap(j)>>]
<1>1. k \in Nat /\ n \in Nat \ {0} /\ NumPits - 1 = n
  BY Sides
<1>2. IsFiniteSet(rest) /\ IsFiniteSet({from}) /\ rest \cap {from} = {} /\ rest \union {from} = Pit
  BY PitsFinite, FS_Subset, FS_Singleton
<1>3. \A p \in rest : /\ Distance(from, p) \in 1 .. n /\ PitAt(from, Distance(from, p)) = p
                      /\ more(p) \in Nat /\ sown[p] = pits[p] + more(p) /\ pits[p] \in Nat
  <2>1. \A p \in rest : Distance(from, p) \in 1 .. n /\ PitAt(from, Distance(from, p)) = p
    BY PitAtDistance
  <2>2. \A p \in rest : more(p) \in Nat
    BY <1>1, <2>1, AddedIs
  <2>3. \A p \in rest : sown[p] = pits[p] + more(p)
    BY DEF Sow, Added
  <2>4. QED BY <2>1, <2>2, <2>3
<1>4. \A d \in 1 .. n : PitAt(from, d) \in rest /\ Distance(from, PitAt(from, d)) = d
  BY PitAtDistance
<1>5. \A p \in rest, i \in Nat : i <= more(p) <=> (i - 1) * n + Distance(from, p) <= k
  BY <1>1, <1>3, AddedIs
<1>6. sown \in [Pit -> Nat] /\ sown[from] = 0
  BY DEF Sow
<1> HIDE DEF sown, rest, k, n, more
\* The j-th seed sown, and that every new seed is one of them.
<1>7. ASSUME NEW j \in 1 .. k
      PROVE  /\ pit(j) \in rest /\ Distance(from, pit(j)) = ((j - 1) % n) + 1
             /\ lap(j) \in 1 .. more(pit(j))
             /\ j = (lap(j) - 1) * n + Distance(from, pit(j))
  <2> DEFINE q == (j - 1) \div n
             r == (j - 1) % n
  <2>1. j - 1 \in Nat /\ j <= k /\ j \in Int
    OBVIOUS
  <2>2. q \in Nat /\ r \in 0 .. n - 1 /\ j - 1 = q * n + r
    BY <1>1, <2>1, Division
  <2> HIDE DEF q, r
  <2>3. r + 1 \in 1 .. n /\ q + 1 \in Nat /\ (q + 1) - 1 = q /\ q * n \in Int
    BY <1>1, <2>2
  <2>4. pit(j) = PitAt(from, r + 1) /\ lap(j) = q + 1
    BY DEF q, r
  <2>5. pit(j) \in rest /\ Distance(from, pit(j)) = r + 1
    BY <1>4, <2>3, <2>4
  <2>6. j = q * n + (r + 1)
    BY <2>1, <2>2, <2>3
  <2>7. q + 1 <= more(pit(j))
    BY <1>5, <2>1, <2>3, <2>5, <2>6
  <2>8. q + 1 \in 1 .. more(pit(j))
    BY <1>3, <2>2, <2>5, <2>7
  <2> HIDE DEF pit, lap
  <2>9. QED BY <2>3, <2>4, <2>5, <2>6, <2>8 DEF r
<1>8. ASSUME NEW p \in rest, NEW i \in 1 .. more(p)
      PROVE  LET j == (i - 1) * n + Distance(from, p)
             IN  j \in 1 .. k /\ pit(j) = p /\ lap(j) = i
  <2> DEFINE j == (i - 1) * n + Distance(from, p)
             d == Distance(from, p)
  <2>1. d \in 1 .. n /\ PitAt(from, d) = p /\ more(p) \in Nat
    BY <1>3
  <2>2. i \in Nat /\ i - 1 \in Nat /\ i <= more(p) /\ (i - 1) * n \in Nat
    BY <1>1, <2>1
  <2>3. j <= k
    BY <1>5, <2>2
  <2> HIDE DEF d
  <2>4. d - 1 \in 0 .. n - 1 /\ (d - 1) + 1 = d /\ (i - 1) + 1 = i
    BY <1>1, <2>1, <2>2
  <2>5. ((i - 1) * n + (d - 1)) \div n = i - 1 /\ ((i - 1) * n + (d - 1)) % n = d - 1
    BY <1>1, <2>2, <2>4, QuotientIs
  <2>6. j - 1 = (i - 1) * n + (d - 1) /\ j \in Nat /\ j >= 1
    BY <1>1, <2>1, <2>2 DEF d
  <2> HIDE DEF j
  <2>7. pit(j) = p /\ lap(j) = i
    BY <2>1, <2>4, <2>5, <2>6
  <2>8. QED BY <1>1, <2>3, <2>6, <2>7 DEF j, d
<1> DEFINE g(p, i) == <<p, pits[p] + i>>
<1>9. \A t \in New : \E p \in rest : \E i \in 1 .. more(p) : t = g(p, i)
  <2> SUFFICES ASSUME NEW p \in rest, NEW s \in pits[p] + 1 .. pits[p] + more(p)
               PROVE  \E i \in 1 .. more(p) : <<p, s>> = g(p, i)
    OBVIOUS
  <2>1. s - pits[p] \in 1 .. more(p) /\ pits[p] + (s - pits[p]) = s
    BY <1>3
  <2>2. QED BY <2>1
<1>10. \A p \in rest : \A i \in 1 .. more(p) : g(p, i) \in New
  BY <1>3
<1>11. \A j \in 1 .. k : f[j] = g(pit(j), lap(j))
  OBVIOUS
<1> HIDE DEF New, pit, lap
<1>12. f \in [1 .. k -> New]
  BY <1>7, <1>10
<1> HIDE DEF f
<1>13. ASSUME NEW j1 \in 1 .. k, NEW j2 \in 1 .. k, f[j1] = f[j2]
       PROVE  j1 = j2
  <2>1. pit(j1) = pit(j2) /\ pits[pit(j1)] + lap(j1) = pits[pit(j2)] + lap(j2)
    BY <1>11, <1>13
  <2>2. lap(j1) \in Int /\ lap(j2) \in Int /\ pits[pit(j1)] \in Int
    BY <1>3, <1>7
  <2>3. lap(j1) = lap(j2)
    BY <2>1, <2>2
  <2>4. QED BY <1>7, <2>1, <2>3
<1>14. ASSUME NEW t \in New PROVE \E j \in 1 .. k : f[j] = t
  <2>1. PICK p \in rest : \E i \in 1 .. more(p) : t = g(p, i)
    BY <1>9
  <2>2. PICK i \in 1 .. more(p) : t = g(p, i)
    BY <2>1
  <2> DEFINE j == (i - 1) * n + Distance(from, p)
  <2>3. j \in 1 .. k /\ pit(j) = p /\ lap(j) = i
    BY <1>8
  <2> HIDE DEF j, g
  <2>4. QED BY <1>11, <2>2, <2>3
<1>15. IsFiniteSet(New) /\ Cardinality(New) = k
  <2> HIDE DEF g
  <2>1. QED BY <1>1, <1>12, <1>13, <1>14, CountByNumbers
\* The seeds outside `from` are those that were there and the new ones.
<1>16. Seeds(sown, rest) = Seeds(pits, rest) \union New
  <2>1. ASSUME NEW p \in rest
        PROVE  1 .. sown[p] = (1 .. pits[p]) \union (pits[p] + 1 .. pits[p] + more(p))
    BY <1>3
  <2>2. ASSUME NEW p \in rest
        PROVE  {p} \X (1 .. sown[p])
                 = ({p} \X (1 .. pits[p])) \union ({p} \X (pits[p] + 1 .. pits[p] + more(p)))
    BY <2>1
  <2>3. QED BY <2>2 DEF Seeds, New
<1>17. Seeds(pits, rest) \cap New = {}
  <2> SUFFICES ASSUME NEW t \in Seeds(pits, rest), t \in New PROVE FALSE
    OBVIOUS
  <2>1. PICK p \in rest : t \in {p} \X (1 .. pits[p])
    BY DEF Seeds
  <2>2. PICK q \in rest : t \in {q} \X (pits[q] + 1 .. pits[q] + more(q))
    BY DEF New
  <2>3. t[1] = p /\ t[1] = q /\ t[2] \in 1 .. pits[p] /\ t[2] \in pits[q] + 1 .. pits[q] + more(q)
    BY <2>1, <2>2
  <2>4. QED BY <1>3, <2>3
<1>18. CountSeeds(sown, rest) = CountSeeds(pits, rest) + k
  <2> DEFINE A == Seeds(pits, rest)
  <2>1. IsFiniteSet(A) /\ Cardinality(A) \in Nat
    BY <1>2, <1>3, CountSeedsType DEF CountSeeds
  <2> HIDE DEF A
  <2>2. Cardinality(A \union New) = Cardinality(A) + Cardinality(New) - Cardinality(A \cap New)
    BY <1>15, <2>1, FS_Union
  <2>3. Cardinality(A \cap New) = 0
    BY <1>17, FS_EmptySet DEF A
  <2>4. Cardinality(A \union New) = Cardinality(A) + k
    BY <1>1, <1>15, <2>1, <2>2, <2>3
  <2>5. QED BY <1>16, <2>4 DEF CountSeeds, A
<1>19. CountSeeds(sown, {from}) = 0 /\ CountSeeds(pits, {from}) = k
  BY <1>1, <1>6, CountOfNone, CountOfPit DEF k
<1>20. /\ CountSeeds(sown, Pit) = CountSeeds(sown, rest) + CountSeeds(sown, {from})
       /\ CountSeeds(pits, Pit) = CountSeeds(pits, rest) + CountSeeds(pits, {from})
  <2>1. \A p \in rest \union {from} : sown[p] \in Nat /\ pits[p] \in Nat
    BY <1>2, <1>6
  <2>2. QED BY <1>2, <2>1, CountOfUnion
<1>21. CountSeeds(pits, rest) \in Nat
  BY <1>2, <1>3, CountSeedsType
<1>22. QED BY <1>1, <1>18, <1>19, <1>20, <1>21 DEF sown

\* A move keeps the seeds too: those captured leave the pits.
LEMMA MoveKeepsSeeds ==
  ASSUME NEW pits \in [Pit -> Nat], NEW player \in Player, NEW pit \in Pit
  PROVE  LET move == SimulateMove(pits, player, pit)
         IN  /\ CountSeeds(move.pits, Pit) \in Nat /\ move.captured \in Nat
             /\ CountSeeds(move.pits, Pit) + move.captured = CountSeeds(pits, Pit)
<1> DEFINE sown  == Sow(pits, pit)
           taken == CapturedPits(sown, LastPit(pits, pit), player)
           left  == Pit \ taken
           move  == SimulateMove(pits, player, pit)
<1>1. sown \in [Pit -> Nat]
  BY SowGrows
<1>2. taken \subseteq Pit
  BY Sides DEF CapturedPits
<1>3. IsFiniteSet(taken) /\ IsFiniteSet(left) /\ taken \cap left = {} /\ taken \union left = Pit
  BY <1>2, PitsFinite, FS_Subset
<1>4. move.pits = [p \in Pit |-> IF p \in taken THEN 0 ELSE sown[p]]
  BY DEF SimulateMove
<1>5. move.captured = CountSeeds(sown, taken)
  BY DEF SimulateMove
<1>6. CountSeeds(sown, Pit) = CountSeeds(pits, Pit)
  BY <1>1, SowKeepsSeeds
<1> HIDE DEF sown, taken, left, move
<1>7. \A p \in taken \union left : sown[p] \in Nat /\ move.pits[p] \in Nat
  BY <1>1, <1>3, <1>4
<1>8. /\ CountSeeds(sown, Pit) = CountSeeds(sown, taken) + CountSeeds(sown, left)
      /\ CountSeeds(move.pits, Pit) = CountSeeds(move.pits, taken) + CountSeeds(move.pits, left)
  BY <1>3, <1>7, CountOfUnion
<1>9. CountSeeds(move.pits, taken) = 0
  BY <1>2, <1>4, CountOfNone
<1>10. CountSeeds(move.pits, left) = CountSeeds(sown, left)
  <2>1. \A p \in left : move.pits[p] = sown[p]
    BY <1>4 DEF left
  <2>2. QED BY <2>1, CountOfSame
<1>11. CountSeeds(sown, taken) \in Nat /\ CountSeeds(sown, left) \in Nat
  BY <1>3, <1>7, CountSeedsType
<1>12. QED BY <1>5, <1>6, <1>8, <1>9, <1>10, <1>11 DEF move

\* The seeds in the pits and those won are the seeds the game began with.
SeedsKept ==
  /\ CountSeeds(board.pits, Pit) \in Nat
  /\ CountSeeds(board.pits, Pit) + board.scores[PLAYER_A] + board.scores[PLAYER_B] = TotalSeeds

\* All seeds are in the pits when a game begins.
LEMMA FirstSeeds == Init => SeedsKept /\ CountSeeds(board.pits, Pit) = TotalSeeds
<1> SUFFICES ASSUME Init
             PROVE  SeedsKept /\ CountSeeds(board.pits, Pit) = TotalSeeds
  OBVIOUS
<1>1. /\ board.pits = [p \in Pit |-> SeedsPerPit]
      /\ board.scores = [player \in Player |-> 0]
  BY DEF Init
<1>2. Seeds(board.pits, Pit) = Pit \X (1 .. SeedsPerPit)
  BY <1>1 DEF Seeds
<1>3. IsFiniteSet(Pit) /\ Cardinality(Pit) = NumPits
  <2>1. 0 \in Int /\ NumPits - 1 \in Int /\ ~(0 > NumPits - 1) /\ (NumPits - 1) - 0 + 1 = NumPits
    BY Sides
  <2>2. QED BY <2>1, FS_Interval DEF Pit
<1>4. IsFiniteSet(1 .. SeedsPerPit) /\ Cardinality(1 .. SeedsPerPit) = SeedsPerPit
  <2>1. 1 \in Int /\ SeedsPerPit \in Int /\ (1 > SeedsPerPit => SeedsPerPit = 0)
        /\ SeedsPerPit - 1 + 1 = SeedsPerPit
    BY BoardAssumption
  <2>2. QED BY <2>1, FS_Interval
<1>5. CountSeeds(board.pits, Pit) = NumPits * SeedsPerPit
  BY <1>2, <1>3, <1>4, FS_Product DEF CountSeeds
<1>6. NumPits * SeedsPerPit \in Nat
  BY Sides, BoardAssumption
<1>7. QED BY <1>1, <1>5, <1>6 DEF SeedsKept, TotalSeeds, Player

\* What a move does to the race: its player takes the seeds it captures, and
\* wins with them or not.
LEMMA MoveTakes ==
  ASSUME TypeOK, TypeOK', WinnerHoldsTheTurn, SeedsKept,
         NEW player \in Player, NEW pit \in Pit, ExecuteMove(player, pit)
  PROVE  /\ SeedsKept'
         /\ \E k \in 0 .. CountSeeds(board.pits, Pit) : Race!Take(player, k)
<1> DEFINE move   == SimulateMove(board.pits, player, pit)
           played == Played(board, player, pit)
           inPlay == CountSeeds(board.pits, Pit)
           left   == CountSeeds(move.pits, Pit)
           k      == move.captured
<1>1. /\ board \in Board /\ board' \in Board /\ player = board.current_player
      /\ \/ player = PLAYER_A /\ Opponent(player) = PLAYER_B /\ player = 0
         \/ player = PLAYER_B /\ Opponent(player) = PLAYER_A /\ player = 1
      /\ board'.pits = played.pits /\ board'.scores = played.scores
  BY MoveFacts DEF TypeOK, Opponent, Player, PLAYER_A, PLAYER_B
<1>2. left \in Nat /\ k \in Nat /\ left + k = inPlay
  BY <1>1, MoveKeepsSeeds DEF Board
<1>3. /\ board'.pits = move.pits
      /\ board'.scores[player] = board.scores[player] + k
      /\ board'.scores[Opponent(player)] = board.scores[Opponent(player)]
  BY <1>1, PlayedFacts
<1>4. /\ WinnerHoldsTheTurn'
      /\ board.winner # "NO_WINNER" => board'.winner = board.winner
  BY MoveSettles
<1>5. CountSeeds(board.pits, Pit)' = left
  BY <1>3 DEF CountSeeds, Seeds
<1> HIDE DEF move, played, inPlay, left, k
<1>6. /\ board.scores \in [Player -> Nat] /\ board'.scores \in [Player -> Nat]
      /\ board.winner \in {"NO_WINNER", "WINNER_A", "WINNER_B"}
      /\ board'.winner \in {"NO_WINNER", "WINNER_A", "WINNER_B"}
      /\ WinScore \in Nat /\ Player = {PLAYER_A, PLAYER_B} /\ PLAYER_A = 0 /\ PLAYER_B = 1
  BY <1>1, BoardAssumption DEF Board, Player, PLAYER_A, PLAYER_B
<1>7. SeedsKept'
  <2>1. inPlay + board.scores[PLAYER_A] + board.scores[PLAYER_B] = TotalSeeds
    BY DEF SeedsKept, inPlay
  <2>2. left + board'.scores[PLAYER_A] + board'.scores[PLAYER_B] = TotalSeeds
    BY <1>1, <1>2, <1>3, <1>6, <2>1
  <2>3. QED BY <1>2, <1>5, <2>2 DEF SeedsKept
<1>8. k \in 0 .. inPlay /\ left = inPlay - k
  BY <1>2
<1>9. board'.scores = [board.scores EXCEPT ![player] = @ + k]
  BY <1>1, <1>3, <1>6
<1>10. board.winner \in {"NO_WINNER", Race!Name(player)}
  BY <1>1, <1>6 DEF WinnerHoldsTheTurn, Race!Name, PLAYER_A, PLAYER_B
<1>11. board'.winner = IF board'.scores[player] >= WinScore THEN Race!Name(player)
                       ELSE board.winner
  <2>1. CASE board.winner # "NO_WINNER"
    <3>1. board'.winner = board.winner /\ board.winner = Race!Name(player)
      BY <1>4, <1>10, <2>1
    <3>2. board.scores[player] >= WinScore
      BY <1>1, <1>6, <2>1 DEF WinnerHoldsTheTurn
    <3>3. board'.scores[player] >= WinScore
      BY <1>1, <1>2, <1>3, <1>6, <3>2
    <3>4. QED BY <3>1, <3>3
  <2>2. CASE board.winner = "NO_WINNER"
    <3>1. board.scores[Opponent(player)] < WinScore
      BY <1>1, <1>6, <2>2 DEF WinnerHoldsTheTurn
    <3>2. CASE board'.scores[player] >= WinScore
      BY <1>1, <1>3, <1>4, <1>6, <3>1, <3>2 DEF WinnerHoldsTheTurn, Race!Name
    <3>3. CASE ~(board'.scores[player] >= WinScore)
      BY <1>1, <1>3, <1>4, <1>6, <2>2, <3>1, <3>3 DEF WinnerHoldsTheTurn
    <3>4. QED BY <3>2, <3>3
  <2>3. QED BY <2>1, <2>2
<1>12. Race!Take(player, k)
  BY <1>5, <1>8, <1>9, <1>10, <1>11 DEF Race!Take, inPlay
<1>13. QED BY <1>7, <1>8, <1>12 DEF inPlay

\* What holds between moves, the seeds included.
RaceInv == TypeOK /\ WinnerHoldsTheTurn /\ SeedsKept

\* The seeds on the board and those won add up, in every game.
LEMMA RaceInvariant == Spec => []RaceInv
<1>1. SeedsKept /\ TypeOK /\ TypeOK' /\ WinnerHoldsTheTurn /\ [Next]_vars => SeedsKept'
  <2> SUFFICES ASSUME SeedsKept, TypeOK, TypeOK', WinnerHoldsTheTurn, [Next]_vars
               PROVE  SeedsKept'
    OBVIOUS
  <2>1. ASSUME NEW player \in Player, NEW pit \in Pit, ExecuteMove(player, pit)
        PROVE  SeedsKept'
    BY <2>1, MoveTakes
  <2>2. CASE AskGameOver \/ UNCHANGED vars
    BY <2>2 DEF AskGameOver, vars, SeedsKept, CountSeeds, Seeds
  <2>3. QED BY <2>1, <2>2 DEF Next
<1>2. QED BY <1>1, FirstSeeds, TypeCorrect, WinnerKeepsTheTurn, PTL DEF Spec, RaceInv

\* The invariant WinnersAgree of Awale.tla: the score that won is more than the
\* other player's score and all the seeds in the pits together, so it does not
\* matter that board_get_winner adds to each score what lies on its side.
THEOREM BothWinnersAgree == Spec => []WinnersAgree
<1>1. RaceInv => WinnersAgree
  <2> SUFFICES ASSUME RaceInv, board.state = "FINISHED"
               PROVE  GetWinner(board) = board.winner
    BY DEF WinnersAgree
  <2> DEFINE sideA == CountSeeds(board.pits, Side(PLAYER_A))
             sideB == CountSeeds(board.pits, Side(PLAYER_B))
             all   == CountSeeds(board.pits, Pit)
  <2>1. board \in Board /\ board.pits \in [Pit -> Nat] /\ board.scores \in [Player -> Nat]
    BY DEF RaceInv, TypeOK, Board
  <2>2. /\ Side(PLAYER_A) \cap Side(PLAYER_B) = {}
        /\ Side(PLAYER_A) \union Side(PLAYER_B) = Pit
    BY BoardAssumption DEF Side, Pit, NumPits, PLAYER_A, PLAYER_B
  <2>3. IsFiniteSet(Side(PLAYER_A)) /\ IsFiniteSet(Side(PLAYER_B))
    BY <2>2, PitsFinite, FS_Subset
  <2>4. all = sideA + sideB
    BY <2>1, <2>2, <2>3, CountOfUnion
  <2>5. sideA \in Nat /\ sideB \in Nat
    BY <2>1, <2>2, <2>3, CountSeedsType
  <2>6. all + board.scores[PLAYER_A] + board.scores[PLAYER_B] = TotalSeeds
    BY DEF RaceInv, SeedsKept
  <2> HIDE DEF sideA, sideB, all
  <2>7. /\ board.scores[PLAYER_A] \in Nat /\ board.scores[PLAYER_B] \in Nat
        /\ TotalSeeds \in Nat /\ WinScore \in Nat /\ 2 * WinScore > TotalSeeds
    BY <2>1, BoardAssumption DEF Player, TotalSeeds, NumPits
  <2> DEFINE totalA == board.scores[PLAYER_A] + sideA
             totalB == board.scores[PLAYER_B] + sideB
  <2>8. GetWinner(board) = IF totalA > totalB THEN "WINNER_A"
                           ELSE IF totalB > totalA THEN "WINNER_B" ELSE "DRAW"
    BY DEF GetWinner, IsGameOver, SideSeeds, sideA, sideB
  <2>9. CASE board.winner = "WINNER_A"
    <3>1. board.scores[PLAYER_A] >= WinScore
      BY <2>9 DEF RaceInv, WinnerHoldsTheTurn
    <3>2. totalA > totalB
      BY <2>4, <2>5, <2>6, <2>7, <3>1
    <3>3. QED BY <2>8, <2>9, <3>2
  <2>10. CASE board.winner = "WINNER_B"
    <3>1. board.scores[PLAYER_B] >= WinScore
      BY <2>10 DEF RaceInv, WinnerHoldsTheTurn
    <3>2. totalB > totalA /\ ~(totalA > totalB)
      BY <2>4, <2>5, <2>6, <2>7, <3>1
    <3>3. QED BY <2>8, <2>10, <3>2
  <2>11. QED BY <2>1, <2>9, <2>10 DEF RaceInv, WinnerHoldsTheTurn, Board
<1>2. QED BY <1>1, RaceInvariant, PTL

\* The refinement RefinesRace of Awale.tla: a game is a race for the seeds of a
\* fixed stock.  A move takes what it captures, and the crash changes nothing.
THEOREM ImplementsRace == Spec => RefinesRace
<1>1. Init => Race!Init
  BY FirstSeeds DEF Init, Race!Init, Player, PLAYER_A, PLAYER_B
<1>2. RaceInv /\ TypeOK' /\ [Next]_vars => [Race!Next]_(Race!vars)
  <2> SUFFICES ASSUME RaceInv, TypeOK', [Next]_vars
               PROVE  Race!Next \/ UNCHANGED Race!vars
    OBVIOUS
  <2>1. ASSUME NEW player \in Player, NEW pit \in Pit, ExecuteMove(player, pit)
        PROVE  Race!Next
    <3>1. \E k \in 0 .. CountSeeds(board.pits, Pit) : Race!Take(player, k)
      BY <2>1, MoveTakes DEF RaceInv
    <3>2. QED BY <3>1 DEF Race!Next, Player, PLAYER_A, PLAYER_B
  <2>2. CASE AskGameOver \/ UNCHANGED vars
    BY <2>2 DEF AskGameOver, vars, Race!vars, CountSeeds, Seeds
  <2>3. QED BY <2>1, <2>2 DEF Next
<1>3. QED BY <1>1, <1>2, RaceInvariant, TypeCorrect, PTL DEF Spec, RefinesRace, Race!Spec

-----------------------------------------------------------------------------
(* The loops and the calls.                                                 *)

\* The function that is running, by its phase.
Running  == [phase : {"sow", "capture"}, player : Player, pit : Pit, plays : BOOLEAN,
             pits : [Pit -> Nat], current : Pit, hand : Nat, captured : Nat]
Checking == [phase : {"check"}, on : Board, plays : BOOLEAN, depth : Nat]

\* Sowing has done q laps and, in the next one, d pits.
Sown(q, d) ==
  /\ board.pits[call.pit] = q * (NumPits - 1) + d + call.hand
  /\ call.hand = 0 => d > 0
  /\ call.current = PitAt(call.pit, d)
  /\ call.pits[call.pit] = 0
  /\ \A p \in Pit \ {call.pit} :
       call.pits[p] = board.pits[p] + q + (IF Distance(call.pit, p) <= d THEN 1 ELSE 0)

\* Capturing has walked back from the last pit and emptied those after c.
Captured(c) ==
  LET sown  == Sow(board.pits, call.pit)
      taken == c + 1 .. LastPit(board.pits, call.pit)
  IN  /\ call.current = c % NumPits
      /\ \A p \in taken : p \in Side(Opponent(call.player)) /\ sown[p] \in {2, 3}
      /\ call.pits = [p \in Pit |-> IF p \in taken THEN 0 ELSE sown[p]]
      /\ call.captured = CountSeeds(sown, taken)

\* What the locals of the running function are worth, at every turn of its loop
\* and every frame of the stack.
CallInv ==
  /\ call \in Running \union Checking \union {NoCall}
  /\ call # NoCall => ~crashed
  /\ call.phase \in {"sow", "capture"} /\ call.plays =>
       ValidateMove(board, call.player, call.pit) = "SUCCESS"
  /\ call.phase = "sow" =>
       /\ call.captured = 0
       /\ \E q \in Nat : \E d \in 0 .. NumPits - 1 : Sown(q, d)
  /\ call.phase = "capture" =>
       \E c \in -1 .. LastPit(board.pits, call.pit) : Captured(c)
  /\ call.phase = "check" =>
       IF call.plays
       THEN \E player \in Player, pit \in Pit :
              /\ ValidateMove(board, player, pit) = "SUCCESS"
              /\ call.on = Played(board, player, pit)
       ELSE call.on = board

LoopInv == TypeOK /\ CallInv

\* The pit after the one at a distance: the next distance, or after a whole lap
\* the pit the lap began in.
LEMMA NextPit ==
  ASSUME NEW from \in Pit, NEW d \in 0 .. NumPits - 1
  PROVE  (PitAt(from, d) + 1) % NumPits
           = IF d = NumPits - 1 THEN from ELSE PitAt(from, d + 1)
<1>1. /\ NumPits \in Nat \ {0} /\ from \in 0 .. NumPits - 1 /\ from \in Int /\ d \in Int
      /\ NumPits \in Int
  BY Sides DEF Pit
<1> HIDE DEF NumPits
<1>2. CASE from + d < NumPits
  <2>1. from + d \in 0 .. NumPits - 1 /\ from + d \in Int
    BY <1>1, <1>2
  <2>2. PitAt(from, d) = from + d
    BY <1>1, <2>1, ModIs DEF PitAt
  <2>3. (from + d) + 1 = from + (d + 1)
    BY <1>1
  <2>4. CASE d = NumPits - 1
    <3>1. from = 0 /\ from + d + 1 = NumPits /\ NumPits \in NumPits .. 2 * NumPits - 1
      BY <1>1, <1>2, <2>4
    <3>2. NumPits % NumPits = NumPits - NumPits
      BY <1>1, <3>1, ModIs
    <3>3. QED BY <1>1, <2>2, <2>4, <3>1, <3>2
  <2>5. QED BY <2>2, <2>3, <2>4 DEF PitAt
<1>3. CASE from + d >= NumPits
  <2>1. from + d \in NumPits .. 2 * NumPits - 1 /\ from + d \in Int
    BY <1>1, <1>3
  <2>2. PitAt(from, d) = from + d - NumPits
    <3>1. (from + d) % NumPits = (from + d) - NumPits
      BY <1>1, <2>1, ModIs
    <3>2. QED BY <1>1, <2>1, <3>1 DEF PitAt
  <2>3. from + d - NumPits + 1 \in 0 .. NumPits - 1 /\ from + d - NumPits + 1 \in Int
    BY <1>1, <1>3
  <2>4. (from + d - NumPits + 1) % NumPits = from + d - NumPits + 1
    BY <1>1, <2>3, ModIs
  <2>5. CASE d = NumPits - 1
    BY <1>1, <2>2, <2>4, <2>5
  <2>6. CASE d # NumPits - 1
    <3>1. from + (d + 1) \in NumPits .. 2 * NumPits - 1 /\ from + (d + 1) \in Int
          /\ from + (d + 1) - NumPits = from + d - NumPits + 1
      BY <1>1, <2>1, <2>6
    <3>2. (from + (d + 1)) % NumPits = (from + (d + 1)) - NumPits
      BY <1>1, <3>1, ModIs
    <3>3. PitAt(from, d + 1) = from + d - NumPits + 1
      BY <1>1, <3>1, <3>2 DEF PitAt
    <3>4. QED BY <2>2, <2>4, <2>6, <3>3
  <2>7. QED BY <2>5, <2>6
<1>4. QED BY <1>1, <1>2, <1>3

\* A loop that has begun has picked up its pit's seeds and sown none.
LEMMA PickUpFacts ==
  ASSUME TypeOK, ~crashed, UNCHANGED vars,
         NEW player \in Player, NEW pit \in Pit, NEW plays \in BOOLEAN,
         board.pits[pit] # 0, call' = PickUp(player, pit, plays),
         plays => ValidateMove(board, player, pit) = "SUCCESS"
  PROVE  CallInv'
<1>1. /\ board' = board /\ crashed' = crashed
      /\ board.pits \in [Pit -> Nat] /\ board.pits[pit] \in Nat
  BY DEF vars, TypeOK, Board
<1>2. /\ call'.phase = "sow" /\ call'.player = player /\ call'.pit = pit
      /\ call'.plays = plays /\ call'.current = pit /\ call'.hand = board.pits[pit]
      /\ call'.pits = [board.pits EXCEPT ![pit] = 0] /\ call'.captured = 0
      /\ call' \in Running
  BY <1>1 DEF PickUp, Running
<1>3. PitAt(pit, 0) = pit
  <2>1. pit + 0 = pit /\ pit \in 0 .. NumPits - 1 /\ pit \in Int /\ NumPits \in Nat \ {0}
    BY Sides DEF Pit
  <2>2. QED BY <2>1, ModIs DEF PitAt
<1>4. \A p \in Pit \ {pit} : Distance(pit, p) \in 1 .. NumPits - 1
  BY PitAtDistance
<1>5. Sown(0, 0)'
  <2>1. 0 * (NumPits - 1) + 0 + board.pits[pit] = board.pits[pit]
    BY <1>1, Sides
  <2>2. \A p \in Pit \ {pit} :
          board.pits[p] = board.pits[p] + 0 + (IF Distance(pit, p) <= 0 THEN 1 ELSE 0)
    BY <1>1, <1>4
  <2>3. QED BY <1>1, <1>2, <1>3, <2>1, <2>2 DEF Sown
<1>6. 0 \in Nat /\ 0 \in 0 .. NumPits - 1
  BY Sides
<1>7. QED BY <1>1, <1>2, <1>5, <1>6 DEF CallInv

\* One turn of the loop of rules_sow_seeds.
LEMMA SowSeedKeeps ==
  ASSUME TypeOK, CallInv, SowSeed
  PROVE  CallInv'
<1> DEFINE n    == NumPits - 1
           next == (call.current + 1) % NumPits
<1>1. /\ board' = board /\ crashed' = crashed /\ ~crashed
      /\ call.phase = "sow" /\ call.hand > 0 /\ call \in Running /\ call.captured = 0
      /\ call.plays => ValidateMove(board, call.player, call.pit) = "SUCCESS"
      /\ board.pits \in [Pit -> Nat]
  BY DEF SowSeed, vars, CallInv, Running, Checking, NoCall, TypeOK, Board
<1>2. /\ call.pit \in Pit /\ call.hand \in Nat /\ call.pits \in [Pit -> Nat]
      /\ n \in Nat \ {0} /\ board.pits[call.pit] \in Nat
  BY <1>1, Sides DEF Running
<1>3. PICK q \in Nat : \E d \in 0 .. NumPits - 1 : Sown(q, d)
  BY <1>1 DEF CallInv
<1>4. PICK d \in 0 .. NumPits - 1 : Sown(q, d)
  BY <1>3
<1>5. /\ q * n \in Nat /\ (q + 1) * n = q * n + n /\ d \in 0 .. n /\ d \in Int
  BY <1>2
<1>6. board.pits[call.pit] = q * n + d + call.hand
  BY <1>4 DEF Sown
<1>7. /\ next = IF d = n THEN call.pit ELSE PitAt(call.pit, d + 1)
      /\ d # n => /\ d + 1 \in 1 .. NumPits - 1
                  /\ next \in Pit \ {call.pit} /\ Distance(call.pit, next) = d + 1
  <2>1. call.current = PitAt(call.pit, d)
    BY <1>4 DEF Sown
  <2>2. next = IF d = n THEN call.pit ELSE PitAt(call.pit, d + 1)
    BY <1>2, <2>1, NextPit
  <2>3. d # n => d + 1 \in 1 .. NumPits - 1
    BY <1>2, <1>5
  <2>4. QED BY <1>2, <2>2, <2>3, PitAtDistance
<1>8. \A p \in Pit \ {call.pit} :
        /\ Distance(call.pit, p) \in 1 .. NumPits - 1
        /\ PitAt(call.pit, Distance(call.pit, p)) = p
  BY <1>2, PitAtDistance
<1>9. \/ next = call.pit /\ call' = [call EXCEPT !.current = next]
      \/ /\ next # call.pit
         /\ call' = [call EXCEPT !.current = next, !.pits[next] = @ + 1, !.hand = @ - 1]
  BY DEF SowSeed
<1> HIDE DEF next, n
\* A lap ends: the pit played is skipped.
<1>10. CASE next = call.pit
  <2>1. d = n /\ call' = [call EXCEPT !.current = next]
    BY <1>7, <1>9, <1>10
  <2>2. /\ call' \in Running /\ call'.phase = "sow" /\ call'.hand = call.hand
        /\ call'.pit = call.pit /\ call'.pits = call.pits /\ call'.current = call.pit
        /\ call'.player = call.player /\ call'.plays = call.plays /\ call'.captured = 0
    BY <1>1, <1>2, <1>10, <2>1 DEF Running
  <2>3. PitAt(call.pit, 0) = call.pit
    <3>1. /\ call.pit + 0 = call.pit /\ call.pit \in 0 .. NumPits - 1 /\ call.pit \in Int
          /\ NumPits \in Nat \ {0}
      BY <1>2, Sides DEF Pit
    <3>2. QED BY <3>1, ModIs DEF PitAt
  <2>4. board.pits[call.pit] = (q + 1) * n + 0 + call.hand
    BY <1>2, <1>5, <1>6, <2>1
  <2>5. ASSUME NEW p \in Pit \ {call.pit}
        PROVE  call.pits[p] = board.pits[p] + (q + 1)
                                + (IF Distance(call.pit, p) <= 0 THEN 1 ELSE 0)
    <3>1. call.pits[p] = board.pits[p] + q + (IF Distance(call.pit, p) <= d THEN 1 ELSE 0)
      BY <1>4 DEF Sown
    <3>2. Distance(call.pit, p) \in 1 .. n /\ board.pits[p] \in Nat
      BY <1>1, <1>8 DEF n
    <3>3. QED BY <1>5, <2>1, <3>1, <3>2
  <2>6. Sown(q + 1, 0)'
    BY <1>1, <1>4, <2>2, <2>3, <2>4, <2>5 DEF Sown, n
  <2>7. q + 1 \in Nat /\ 0 \in 0 .. NumPits - 1
    BY <1>2 DEF n
  <2>8. QED BY <1>1, <2>2, <2>6, <2>7 DEF CallInv
\* A seed falls in the next pit.
<1>11. CASE next # call.pit
  <2>1. /\ d # n /\ next \in Pit \ {call.pit} /\ Distance(call.pit, next) = d + 1
        /\ d + 1 \in 1 .. NumPits - 1
        /\ call' = [call EXCEPT !.current = next, !.pits[next] = @ + 1, !.hand = @ - 1]
    BY <1>7, <1>9, <1>11
  <2>2. call.hand - 1 \in Nat /\ call.pits[next] + 1 \in Nat /\ next \in Pit
    BY <1>1, <1>2, <2>1
  <2>3. /\ call' \in Running /\ call'.phase = "sow" /\ call'.hand = call.hand - 1
        /\ call'.pit = call.pit /\ call'.current = next
        /\ call'.pits = [call.pits EXCEPT ![next] = @ + 1]
        /\ call'.player = call.player /\ call'.plays = call.plays /\ call'.captured = 0
    BY <1>1, <1>2, <2>1, <2>2 DEF Running
  <2>4. board.pits[call.pit] = q * n + (d + 1) + (call.hand - 1)
    BY <1>2, <1>5, <1>6
  <2>5. d + 1 > 0 /\ d + 1 \in 0 .. NumPits - 1
    BY <2>1
  <2>6. ASSUME NEW p \in Pit \ {call.pit}
        PROVE  call'.pits[p] = board.pits[p] + q
                                 + (IF Distance(call.pit, p) <= d + 1 THEN 1 ELSE 0)
    <3>1. call.pits[p] = board.pits[p] + q + (IF Distance(call.pit, p) <= d THEN 1 ELSE 0)
      BY <1>4 DEF Sown
    <3>2. Distance(call.pit, p) \in Int /\ board.pits[p] \in Nat /\ d \in Int
      BY <1>1, <1>5, <1>8
    <3>3. CASE p = next
      <4>1. call'.pits[p] = call.pits[p] + 1
        BY <1>2, <2>3, <3>3
      <4>2. Distance(call.pit, p) = d + 1
        BY <2>1, <3>3
      <4>3. QED BY <3>1, <3>2, <4>1, <4>2
    <3>4. CASE p # next
      <4>1. call'.pits[p] = call.pits[p]
        BY <1>2, <2>3, <3>4
      <4>2. Distance(call.pit, p) # d + 1
        BY <1>7, <1>8, <2>1, <3>4
      <4>3. QED BY <3>1, <3>2, <4>1, <4>2
    <3>5. QED BY <3>3, <3>4
  <2>7. call'.pits[call.pit] = 0 /\ next = PitAt(call.pit, d + 1)
    BY <1>2, <1>4, <1>7, <2>1, <2>3 DEF Sown
  <2>8. Sown(q, d + 1)'
    BY <1>1, <2>3, <2>4, <2>5, <2>6, <2>7 DEF Sown, n
  <2>9. QED BY <1>1, <2>3, <2>5, <2>8 DEF CallInv
<1>12. QED BY <1>10, <1>11

\* The pit the last seed falls in is a pit.
LEMMA LastPitType ==
  ASSUME NEW pits, NEW from \in Pit, pits[from] \in Nat
  PROVE  LastPit(pits, from) \in Pit
<1>1. NumPits \in Nat \ {0} /\ NumPits - 1 \in Nat \ {0} /\ from \in Int
  BY Sides DEF Pit
<1> DEFINE r == (pits[from] - 1) % (NumPits - 1)
<1>2. ASSUME pits[from] # 0 PROVE r \in Int
  <2>1. pits[from] - 1 \in Int
    OBVIOUS
  <2>2. r \in 0 .. (NumPits - 1) - 1
    BY <1>1, <2>1, ModRange
  <2>3. QED BY <1>1, <2>2
<1> HIDE DEF r
<1>3. ASSUME pits[from] # 0 PROVE (from + 1 + r) % NumPits \in Pit
  <2>1. from + 1 + r \in Int
    BY <1>1, <1>2, <1>3
  <2>2. QED BY <1>1, <2>1, ModRange DEF Pit
<1>4. QED BY <1>3 DEF LastPit, r

\* When rules_sow_seeds returns, the pits are those of Sow and the pit is LastPit.
LEMMA SowEnds ==
  ASSUME TypeOK, CallInv, call.phase = "sow", call.hand = 0
  PROVE  /\ call.pits = Sow(board.pits, call.pit)
         /\ call.current = LastPit(board.pits, call.pit)
         /\ call.current \in Pit
<1> DEFINE n == NumPits - 1
           k == board.pits[call.pit]
<1>1. call \in Running /\ board.pits \in [Pit -> Nat]
  BY DEF CallInv, Running, Checking, NoCall, TypeOK, Board
<1>2. call.pit \in Pit /\ call.pits \in [Pit -> Nat] /\ n \in Nat \ {0} /\ k \in Nat
  BY <1>1, Sides DEF Running
<1>3. PICK q \in Nat : \E d \in 0 .. NumPits - 1 : Sown(q, d)
  BY DEF CallInv
<1>4. PICK d \in 0 .. NumPits - 1 : Sown(q, d)
  BY <1>3
<1>5. /\ d \in 1 .. n /\ d \in Int /\ d - 1 \in 0 .. n - 1
      /\ q * n \in Nat /\ (q + 1) * n = q * n + n
  BY <1>2, <1>4 DEF Sown
<1>6. k = q * n + d
  <2>1. k = q * n + d + call.hand
    BY <1>4 DEF Sown
  <2>2. QED BY <1>5, <2>1
<1>7. \A p \in Pit \ {call.pit} : Distance(call.pit, p) \in 1 .. n
  BY <1>2, PitAtDistance
<1>8. \A x \in Int : x = call.pit + d => call.current = x % NumPits
  BY <1>4 DEF Sown, PitAt
<1> HIDE DEF n, k
<1>9. ASSUME NEW p \in Pit \ {call.pit}
      PROVE  (k + n - Distance(call.pit, p)) \div n
               = q + (IF Distance(call.pit, p) <= d THEN 1 ELSE 0)
  <2> DEFINE e == Distance(call.pit, p)
  <2>1. e \in 1 .. n /\ e \in Int
    BY <1>7
  <2> HIDE DEF e
  <2>2. CASE e <= d
    <3>1. k + n - e = (q + 1) * n + (d - e) /\ d - e \in 0 .. n - 1 /\ q + 1 \in Nat
      BY <1>2, <1>5, <1>6, <2>1, <2>2
    <3>2. ((q + 1) * n + (d - e)) \div n = q + 1
      BY <1>2, <3>1, QuotientIs
    <3>3. QED BY <2>2, <3>1, <3>2 DEF e
  <2>3. CASE ~(e <= d)
    <3>1. k + n - e = q * n + (d + n - e) /\ d + n - e \in 0 .. n - 1
      BY <1>2, <1>5, <1>6, <2>1, <2>3
    <3>2. (q * n + (d + n - e)) \div n = q
      BY <1>2, <3>1, QuotientIs
    <3>3. QED BY <2>3, <3>1, <3>2 DEF e
  <2>4. QED BY <2>2, <2>3
<1>10. call.pits = Sow(board.pits, call.pit)
  <2>1. ASSUME NEW p \in Pit \ {call.pit}
        PROVE  call.pits[p] = board.pits[p] + (k + n - Distance(call.pit, p)) \div n
    <3>1. call.pits[p] = board.pits[p] + q + (IF Distance(call.pit, p) <= d THEN 1 ELSE 0)
      BY <1>4 DEF Sown
    <3>2. board.pits[p] \in Int
      BY <1>1
    <3>3. QED BY <1>9, <3>1, <3>2
  <2>2. ASSUME NEW p \in Pit \ {call.pit}
        PROVE  board.pits[call.pit] + NumPits - 1 - Distance(call.pit, p)
                 = k + n - Distance(call.pit, p)
    <3>1. Distance(call.pit, p) \in Int
      BY <1>7
    <3>2. QED BY <1>2, <3>1, Sides DEF k, n
  <2>3. \A p \in Pit \ {call.pit} : Sow(board.pits, call.pit)[p] = call.pits[p]
    BY <2>1, <2>2 DEF Sow, n
  <2>4. call.pits[call.pit] = 0 /\ Sow(board.pits, call.pit)[call.pit] = 0
    BY <1>2, <1>4 DEF Sown, Sow
  <2>5. \A p \in Pit : Sow(board.pits, call.pit)[p] = call.pits[p]
    BY <2>3, <2>4
  <2>6. Sow(board.pits, call.pit) = [p \in Pit |-> Sow(board.pits, call.pit)[p]]
    BY DEF Sow
  <2>7. QED BY <1>2, <2>5, <2>6
<1>11. call.current = LastPit(board.pits, call.pit)
  <2>1. k # 0 /\ k - 1 = q * n + (d - 1)
    BY <1>5, <1>6
  <2>2. (k - 1) % n = d - 1
    <3>1. (q * n + (d - 1)) % n = d - 1
      BY <1>2, <1>5, QuotientIs
    <3>2. QED BY <2>1, <3>1
  <2>3. call.pit + 1 + (d - 1) = call.pit + d /\ call.pit + d \in Int
    BY <1>2, <1>5, Sides DEF Pit
  <2>4. LastPit(board.pits, call.pit) = (call.pit + 1 + (d - 1)) % NumPits
    BY <2>1, <2>2 DEF LastPit, k, n
  <2>5. QED BY <1>8, <2>3, <2>4
<1>12. call.current \in Pit
  BY <1>1 DEF Running
<1>13. QED BY <1>10, <1>11, <1>12

\* The loop of rules_capture_seeds begins with nothing taken.
LEMMA SowReturnsKeeps ==
  ASSUME TypeOK, CallInv, SowReturns
  PROVE  CallInv'
<1> DEFINE last == LastPit(board.pits, call.pit)
           sown == Sow(board.pits, call.pit)
<1>1. /\ board' = board /\ crashed' = crashed /\ ~crashed
      /\ call.phase = "sow" /\ call.hand = 0 /\ call \in Running
      /\ call' = [call EXCEPT !.phase = "capture"]
      /\ call.plays => ValidateMove(board, call.player, call.pit) = "SUCCESS"
  BY DEF SowReturns, vars, CallInv, Running, Checking, NoCall
<1>2. call.pits = sown /\ call.current = last /\ last \in Pit
  BY <1>1, SowEnds
<1>3. call.captured = 0
  BY <1>1 DEF CallInv
<1>4. /\ call' \in Running /\ call'.phase = "capture" /\ call'.pit = call.pit
      /\ call'.pits = sown /\ call'.current = last /\ call'.captured = 0
      /\ call'.player = call.player /\ call'.plays = call.plays
  BY <1>1, <1>2, <1>3 DEF Running
<1>5. /\ last \in 0 .. NumPits - 1 /\ last \in Int /\ NumPits \in Nat \ {0}
      /\ last + 1 .. last = {}
  BY <1>2, Sides DEF Pit
<1>6. last % NumPits = last
  BY <1>5, ModIs
<1>7. CountSeeds(sown, last + 1 .. last) = 0
  BY <1>5, CountOfNone
<1>8. sown = [p \in Pit |-> sown[p]]
  BY DEF Sow
<1>9. Captured(last)'
  BY <1>1, <1>4, <1>5, <1>6, <1>7, <1>8 DEF Captured
<1>10. last \in -1 .. last
  BY <1>5
<1> HIDE DEF last, sown
<1>11. QED BY <1>1, <1>4, <1>9, <1>10 DEF CallInv, last

\* One turn of the loop of rules_capture_seeds: it never gets past the edge of
\* the opponent's side, not even around pit 0.
LEMMA CapturePitKeeps ==
  ASSUME TypeOK, CallInv, CapturePit
  PROVE  CallInv'
<1> DEFINE last == LastPit(board.pits, call.pit)
           sown == Sow(board.pits, call.pit)
           side == Side(Opponent(call.player))
<1>1. /\ board' = board /\ crashed' = crashed /\ ~crashed
      /\ call.phase = "capture" /\ call \in Running
      /\ call.plays => ValidateMove(board, call.player, call.pit) = "SUCCESS"
      /\ call.current \in side /\ call.pits[call.current] \in {2, 3}
      /\ call' = [call EXCEPT !.captured = @ + call.pits[call.current],
                              !.pits[call.current] = 0,
                              !.current = (@ - 1 + NumPits) % NumPits]
  BY DEF CapturePit, TakesPit, vars, CallInv, Running, Checking, NoCall
<1>2. /\ board.pits \in [Pit -> Nat] /\ call.pit \in Pit /\ call.player \in Player
      /\ NumPits \in Nat \ {0} /\ side \subseteq Pit /\ call.current \in Pit
      /\ call.pits \in [Pit -> Nat] /\ call.captured \in Nat
  BY <1>1, Sides DEF TypeOK, Board, Running
<1>3. sown \in [Pit -> Nat]
  BY <1>2, SowGrows
<1>4. last \in Pit
  BY <1>2, LastPitType
<1>5. PICK c \in -1 .. last : Captured(c)
  BY <1>1 DEF CallInv
<1>6. /\ call.current = c % NumPits
      /\ \A p \in c + 1 .. last : p \in side /\ sown[p] \in {2, 3}
      /\ call.pits = [p \in Pit |-> IF p \in c + 1 .. last THEN 0 ELSE sown[p]]
      /\ call.captured = CountSeeds(sown, c + 1 .. last)
  BY <1>5 DEF Captured
<1> HIDE DEF last, sown
<1>7. last \in 0 .. NumPits - 1 /\ c \in Int /\ last \in Int /\ c >= -1 /\ c <= last
  BY <1>2, <1>4, <1>5 DEF Pit
<1>8. c # -1
  <2> SUFFICES ASSUME c = -1 PROVE FALSE
    OBVIOUS
  <2>1. 0 \in side
    BY <1>6, <1>7
  <2>2. -1 \in -NumPits .. -1 /\ -1 \in Int
    BY <1>2
  <2>3. -1 % NumPits = -1 + NumPits
    BY <1>2, <2>2, ModIs
  <2>4. NumPits - 1 \in side
    BY <1>1, <1>2, <1>6, <2>3
  <2>5. QED BY <1>2, <2>1, <2>4, BoardAssumption
            DEF Side, Opponent, Player, PLAYER_A, PLAYER_B, NumPits
<1>9. c \in 0 .. NumPits - 1 /\ c % NumPits = c /\ call.current = c
  <2>1. c \in 0 .. NumPits - 1
    BY <1>2, <1>7, <1>8
  <2>2. c % NumPits = c
    BY <1>2, <1>7, <2>1, ModIs
  <2>3. QED BY <1>6, <2>1, <2>2
<1>10. c \in Pit /\ c \in side /\ c \notin c + 1 .. last /\ call.pits[c] = sown[c] /\ sown[c] \in {2, 3}
  BY <1>1, <1>2, <1>6, <1>7, <1>9
<1>11. (c - 1 + NumPits) % NumPits = (c - 1) % NumPits /\ (c - 1 + NumPits) % NumPits \in Pit
  <2>1. CASE c = 0
    <3>1. c - 1 + NumPits \in 0 .. NumPits - 1 /\ c - 1 \in -NumPits .. -1 /\ c - 1 \in Int
          /\ c - 1 + NumPits \in Int
      BY <1>2, <2>1
    <3>2. (c - 1 + NumPits) % NumPits = c - 1 + NumPits
      BY <1>2, <3>1, ModIs
    <3>3. (c - 1) % NumPits = (c - 1) + NumPits
      BY <1>2, <3>1, ModIs
    <3>4. QED BY <3>1, <3>2, <3>3 DEF Pit
  <2>2. CASE c # 0
    <3>1. /\ c - 1 + NumPits \in NumPits .. 2 * NumPits - 1 /\ c - 1 \in 0 .. NumPits - 1
          /\ c - 1 \in Int /\ c - 1 + NumPits \in Int /\ (c - 1 + NumPits) - NumPits = c - 1
      BY <1>2, <1>7, <1>9, <2>2
    <3>2. (c - 1 + NumPits) % NumPits = (c - 1 + NumPits) - NumPits
      BY <1>2, <3>1, ModIs
    <3>3. (c - 1) % NumPits = c - 1
      BY <1>2, <3>1, ModIs
    <3>4. QED BY <3>1, <3>2, <3>3 DEF Pit
  <2>3. QED BY <2>1, <2>2
<1>12. /\ call'.pit = call.pit /\ call'.player = call.player /\ call'.plays = call.plays
       /\ call'.phase = "capture" /\ call'.current = (c - 1) % NumPits
       /\ call'.captured = call.captured + sown[c]
       /\ call'.pits = [call.pits EXCEPT ![c] = 0]
       /\ call' \in Running
  <2>1. call.captured + sown[c] \in Nat
    BY <1>2, <1>3, <1>10
  <2>2. [call.pits EXCEPT ![c] = 0] \in [Pit -> Nat]
    BY <1>2
  <2>3. call' = [call EXCEPT !.captured = call.captured + sown[c],
                             !.pits = [call.pits EXCEPT ![c] = 0],
                             !.current = (c - 1 + NumPits) % NumPits]
    BY <1>1, <1>9, <1>10 DEF Running
  <2>4. QED BY <1>1, <1>11, <2>1, <2>2, <2>3 DEF Running
<1>13. c + 1 .. last = (c - 1) + 2 .. last /\ c .. last = {c} \union (c + 1 .. last)
       /\ {c} \cap (c + 1 .. last) = {} /\ (c - 1) + 1 .. last = c .. last
  BY <1>7
<1>14. CountSeeds(sown, c .. last) = call.captured + sown[c]
  <2>1. IsFiniteSet({c}) /\ IsFiniteSet(c + 1 .. last)
    <3>1. c + 1 \in Int /\ last \in Int
      BY <1>7
    <3>2. QED BY <3>1, FS_Singleton, FS_Interval
  <2>2. \A p \in {c} \union (c + 1 .. last) : sown[p] \in Nat
    BY <1>2, <1>3, <1>6, <1>10
  <2>3. CountSeeds(sown, {c} \union (c + 1 .. last))
          = CountSeeds(sown, {c}) + CountSeeds(sown, c + 1 .. last)
    BY <1>13, <2>1, <2>2, CountOfUnion
  <2>4. CountSeeds(sown, {c}) = sown[c] /\ sown[c] \in Nat
    BY <2>2, CountOfPit
  <2>5. CountSeeds(sown, c .. last) = CountSeeds(sown, {c} \union (c + 1 .. last))
    BY <1>13, Zenon
  <2>6. QED BY <1>2, <1>6, <2>3, <2>4, <2>5
<1>15. call'.pits = [p \in Pit |-> IF p \in c .. last THEN 0 ELSE sown[p]]
  BY <1>2, <1>6, <1>7, <1>10, <1>12, <1>13
<1>16. \A p \in c .. last : p \in side /\ sown[p] \in {2, 3}
  BY <1>6, <1>10, <1>13
<1>17. Captured(c - 1)'
  BY <1>1, <1>12, <1>13, <1>14, <1>15, <1>16 DEF Captured, last, sown
<1>18. c - 1 \in -1 .. last
  BY <1>7, <1>8
<1>19. QED BY <1>1, <1>12, <1>17, <1>18 DEF CallInv, last

\* When the loops are done, they have left what SimulateMove says.
LEMMA LoopsEnd ==
  ASSUME TypeOK, CallInv
  PROVE  SimulationsAgree
<1> SUFFICES ASSUME LoopsDone
             PROVE  [pits |-> call.pits, captured |-> call.captured]
                      = SimulateMove(board.pits, call.player, call.pit)
  BY DEF SimulationsAgree
<1> DEFINE last  == LastPit(board.pits, call.pit)
           sown  == Sow(board.pits, call.pit)
           side  == Side(Opponent(call.player))
           taken == CapturedPits(sown, last, call.player)
<1>1. call.phase = "capture" /\ call \in Running
      /\ ~(call.current \in side /\ call.pits[call.current] \in {2, 3})
  BY DEF LoopsDone, TakesPit, CallInv, Running, Checking, NoCall
<1>2. /\ board.pits \in [Pit -> Nat] /\ call.pit \in Pit /\ call.player \in Player
      /\ NumPits \in Nat \ {0} /\ side \subseteq Pit
  BY <1>1, Sides DEF TypeOK, Board, Running
<1>3. last \in Pit
  BY <1>2, LastPitType
<1>4. PICK c \in -1 .. last : Captured(c)
  BY <1>1 DEF CallInv
<1>5. /\ call.current = c % NumPits
      /\ \A p \in c + 1 .. last : p \in side /\ sown[p] \in {2, 3}
      /\ call.pits = [p \in Pit |-> IF p \in c + 1 .. last THEN 0 ELSE sown[p]]
      /\ call.captured = CountSeeds(sown, c + 1 .. last)
  BY <1>4 DEF Captured
<1>6. /\ taken = {p \in side : /\ last \in side /\ p <= last
                               /\ \A q \in p .. last : sown[q] \in {2, 3}}
      /\ SimulateMove(board.pits, call.player, call.pit)
           = [pits     |-> [p \in Pit |-> IF p \in taken THEN 0 ELSE sown[p]],
              captured |-> CountSeeds(sown, taken)]
  BY DEF CapturedPits, SimulateMove
<1> HIDE DEF last, sown, taken
<1>7. last \in 0 .. NumPits - 1 /\ c \in Int /\ last \in Int /\ c >= -1 /\ c <= last
  BY <1>2, <1>3, <1>4 DEF Pit
<1>8. \A p \in side : p \in 0 .. NumPits - 1
  BY <1>2 DEF Pit
\* The pit the loop stopped at is not to be taken, or lies across the edge.
<1>9. c \in side => sown[c] \notin {2, 3}
  <2> SUFFICES ASSUME c \in side PROVE sown[c] \notin {2, 3}
    OBVIOUS
  <2>1. c \in 0 .. NumPits - 1 /\ c \in Pit /\ c \notin c + 1 .. last
    BY <1>2, <1>7, <1>8
  <2>2. c % NumPits = c
    BY <1>2, <1>7, <2>1, ModIs
  <2>3. call.pits[c] = sown[c]
    BY <1>5, <2>1
  <2>4. QED BY <1>1, <1>5, <2>2, <2>3
<1>10. taken = c + 1 .. last
  <2>1. ASSUME NEW p \in c + 1 .. last PROVE p \in taken
    <3>1. p \in side /\ last \in side /\ p <= last /\ p .. last \subseteq c + 1 .. last
      BY <1>5, <1>7
    <3>2. QED BY <1>5, <1>6, <3>1
  <2>2. ASSUME NEW p \in taken PROVE p \in c + 1 .. last
    <3>1. /\ p \in side /\ p \in 0 .. NumPits - 1 /\ last \in side /\ p <= last
          /\ \A q \in p .. last : sown[q] \in {2, 3}
      BY <1>6, <1>8
    <3>2. ASSUME p <= c PROVE FALSE
      <4>1. c \in p .. last
        BY <1>7, <3>1, <3>2
      <4>2. c \in side
        BY <1>2, <1>7, <3>1, <3>2, BoardAssumption
        DEF Side, Opponent, Player, PLAYER_A, PLAYER_B
      <4>3. QED BY <1>9, <3>1, <4>1, <4>2
    <3>3. QED BY <1>7, <3>1, <3>2
  <2>3. QED BY <2>1, <2>2
<1>11. QED BY <1>5, <1>6, <1>10

\* What the loops of a move come to is Played, and the end of the game is looked
\* at on that board.
LEMMA CaptureReturnsKeeps ==
  ASSUME TypeOK, CallInv, CaptureReturns
  PROVE  CallInv'
<1>1. /\ board' = board /\ crashed' = crashed /\ ~crashed
      /\ call.phase = "capture" /\ call \in Running /\ LoopsDone
      /\ call.plays => ValidateMove(board, call.player, call.pit) = "SUCCESS"
  BY DEF CaptureReturns, LoopsDone, vars, CallInv, Running, Checking, NoCall
<1>2. CASE call.plays
  <2> DEFINE move == SimulateMove(board.pits, call.player, call.pit)
  <2>1. call.player \in Player /\ call.pit \in Pit
    BY <1>1 DEF Running
  <2>2. call.pits = move.pits /\ call.captured = move.captured
    <3>1. [pits |-> call.pits, captured |-> call.captured] = move
      BY <1>1, LoopsEnd DEF SimulationsAgree
    <3>2. /\ [pits |-> call.pits, captured |-> call.captured].pits = call.pits
          /\ [pits |-> call.pits, captured |-> call.captured].captured = call.captured
      OBVIOUS
    <3>3. QED BY <3>1, <3>2, Zenon
  <2>3. call' = Check(Played(board, call.player, call.pit), TRUE)
    BY <1>2, <2>2 DEF CaptureReturns, Played
  <2>4. Played(board, call.player, call.pit) \in Board
    BY <2>1, PlayedType
  <2>5. PICK b \in Board : b = Played(board, call.player, call.pit)
    BY <2>4
  <2>6. /\ call'.phase = "check" /\ call'.on = b /\ call'.plays = TRUE
        /\ call' \in Checking
    BY <2>3, <2>5 DEF Check, Checking
  <2>7. \E player \in Player, pit \in Pit :
          /\ ValidateMove(board, player, pit) = "SUCCESS"
          /\ call'.on = Played(board, player, pit)
    BY <1>1, <1>2, <2>1, <2>5, <2>6
  <2>8. QED BY <1>1, <2>6, <2>7 DEF CallInv
<1>3. CASE ~call.plays
  <2>1. call' = NoCall
    BY <1>3 DEF CaptureReturns
  <2>2. QED BY <1>1, <2>1 DEF CallInv, NoCall
<1>4. QED BY <1>2, <1>3

\* The check that asks for the winner is the one Awale.tla calls diverging.
LEMMA AsksWinnerDiverges ==
  ASSUME NEW b \in Board
  PROVE  (/\ \A player \in Player : b.scores[player] < WinScore
          /\ IsStarved(b)) <=> Diverges(b)
<1>1. /\ \A player \in Player : b.scores[player] \in Nat
      /\ Player = {PLAYER_A, PLAYER_B} /\ WinScore \in Nat
  BY BoardAssumption DEF Board, Player
<1>2. (\A player \in Player : b.scores[player] < WinScore)
        <=> ~(b.scores[PLAYER_A] >= WinScore) /\ ~(b.scores[PLAYER_B] >= WinScore)
  BY <1>1
<1>3. QED BY <1>2 DEF Diverges, CheckWinCondition

\* What a check does to the game: nothing while it has frames to go, and in the
\* end what Awale.tla says of the call it belongs to.
LEMMA CheckSteps ==
  ASSUME TypeOK, CallInv, CheckRecurs \/ CheckReturns
  PROVE  CallInv' /\ [Next]_vars
<1>1. call.phase = "check" /\ call \in Checking /\ ~crashed /\ call.on \in Board
  BY DEF CheckRecurs, CheckReturns, CallInv, Running, Checking, NoCall
<1>2. AsksWinner <=> Diverges(call.on)
  BY <1>1, AsksWinnerDiverges DEF AsksWinner
<1>3. ~call.plays => call.on = board
  BY <1>1 DEF CallInv
<1>4. ASSUME call.plays
      PROVE  \E player \in Player, pit \in Pit :
               /\ ValidateMove(board, player, pit) = "SUCCESS"
               /\ call.on = Played(board, player, pit)
  BY <1>1, <1>4 DEF CallInv
<1>5. CASE UNCHANGED vars /\ call' = [call EXCEPT !.depth = @ + 1]
  <2>1. /\ call'.phase = "check" /\ call'.on = call.on /\ call'.plays = call.plays
        /\ call' \in Checking
    BY <1>1, <1>5 DEF Checking
  <2>2. board' = board /\ crashed' = crashed
    BY <1>5 DEF vars
  <2>3. QED BY <1>1, <1>3, <1>4, <1>5, <2>1, <2>2 DEF CallInv
<1>6. CASE call' = NoCall
  <2>1. CallInv'
    BY <1>6 DEF CallInv, NoCall
  <2>2. \/ Diverges(call.on) /\ board' = call.on /\ crashed' = TRUE
        \/ /\ ~Diverges(call.on) /\ crashed' = crashed
           /\ board' = IF call.plays THEN Settled(call.on) ELSE board
    <3>1. call # NoCall /\ \A d \in Nat : [call EXCEPT !.depth = d] # NoCall
      BY <1>1 DEF Checking, NoCall
    <3>2. call.depth + 1 \in Nat
      BY <1>1 DEF Checking
    <3>3. QED BY <1>2, <1>6, <3>1, <3>2 DEF CheckRecurs, CheckReturns
  <2>3. CASE call.plays
    <3>1. PICK player \in Player, pit \in Pit :
            /\ ValidateMove(board, player, pit) = "SUCCESS"
            /\ call.on = Played(board, player, pit)
      BY <1>4, <2>3
    <3>2. ExecuteMove(player, pit)
      BY <1>1, <2>2, <2>3, <3>1 DEF ExecuteMove
    <3>3. QED BY <2>1, <3>2 DEF Next
  <2>4. CASE ~call.plays
    <3>1. AskGameOver \/ UNCHANGED vars
      BY <1>1, <1>3, <2>2, <2>4 DEF AskGameOver, vars
    <3>2. QED BY <2>1, <3>1 DEF Next
  <2>5. QED BY <2>3, <2>4
<1>7. QED BY <1>5, <1>6 DEF CheckRecurs, CheckReturns

\* Every step of a loop or of a call is a step of Awale.tla or none.
LEMMA LoopStep ==
  ASSUME LoopInv, [LoopNext]_loopVars
  PROVE  LoopInv' /\ [Next]_vars
<1>1. TypeOK /\ CallInv
  BY DEF LoopInv
<1>2. CallInv' /\ [Next]_vars
  <2>1. ASSUME NEW player \in Player, NEW pit \in Pit, MoveStarts(player, pit)
        PROVE  CallInv' /\ UNCHANGED vars
    <3>1. /\ UNCHANGED vars /\ ~crashed /\ call' = PickUp(player, pit, TRUE)
          /\ ValidateMove(board, player, pit) = "SUCCESS"
      BY <2>1 DEF MoveStarts, Idle
    <3>2. board.pits[pit] # 0
      BY <3>1 DEF ValidateMove
    <3>3. QED BY <1>1, <3>1, <3>2, PickUpFacts
  <2>2. ASSUME NEW player \in Player, NEW pit \in Pit, SimulationStarts(player, pit)
        PROVE  CallInv' /\ UNCHANGED vars
    <3>1. UNCHANGED vars /\ ~crashed /\ call' = PickUp(player, pit, FALSE) /\ board.pits[pit] # 0
      BY <2>2 DEF SimulationStarts, Idle
    <3>2. QED BY <1>1, <3>1, PickUpFacts
  <2>3. CASE SowSeed
    BY <1>1, <2>3, SowSeedKeeps DEF SowSeed
  <2>4. CASE SowReturns
    BY <1>1, <2>4, SowReturnsKeeps DEF SowReturns
  <2>5. CASE CapturePit
    BY <1>1, <2>5, CapturePitKeeps DEF CapturePit
  <2>6. CASE CaptureReturns
    BY <1>1, <2>6, CaptureReturnsKeeps DEF CaptureReturns
  <2>7. CASE QuestionStarts
    <3>1. /\ board' = board /\ crashed' = crashed /\ ~crashed /\ UNCHANGED vars
          /\ board \in Board
      BY <1>1, <2>7 DEF QuestionStarts, Idle, vars, TypeOK
    <3>2. /\ call'.phase = "check" /\ call'.on = board /\ call'.plays = FALSE
          /\ call' \in Checking
      BY <2>7, <3>1 DEF QuestionStarts, Check, Checking
    <3>3. QED BY <3>1, <3>2 DEF CallInv
  <2>8. CASE CheckRecurs \/ CheckReturns
    BY <1>1, <2>8, CheckSteps
  <2>9. CASE UNCHANGED loopVars
    BY <1>1, <2>9 DEF loopVars, vars, CallInv, Sown, Captured
  <2>10. QED BY <2>1, <2>2, <2>3, <2>4, <2>5, <2>6, <2>7, <2>8, <2>9 DEF LoopNext
<1>3. TypeOK'
  BY <1>1, <1>2, TypeStep
<1>4. QED BY <1>2, <1>3 DEF LoopInv

\* The loops and the calls keep their invariant, and do what Awale.tla does.
LEMMA LoopsKeepInvariant == LoopSpec => []LoopInv /\ Spec
<1>1. LoopInit => LoopInv /\ Init
  <2>1. Init => TypeOK
    BY InitTypes
  <2>2. QED BY <2>1 DEF LoopInit, LoopInv, CallInv, NoCall, Init
<1>2. LoopInv /\ [LoopNext]_loopVars => LoopInv' /\ [Next]_vars
  BY LoopStep
<1>3. QED BY <1>1, <1>2, PTL DEF LoopSpec, Spec

\* The invariant SimulationsAgree of AwaleLoops.tla: for boards of every size, what
\* the loops of rules.c compute seed by seed and pit by pit is what Awale.tla says
\* in one formula, for a move and for the simulations of the feeding rule.
THEOREM LoopsGiveTheForms == LoopSpec => []SimulationsAgree
<1>1. LoopInv => SimulationsAgree
  BY LoopsEnd DEF LoopInv
<1>2. QED BY <1>1, LoopsKeepInvariant, PTL

\* The property FormsAgree of AwaleLoops.tla: the end of the game is what the calls
\* come to, however deep the stack, and so every game of the code, loop by loop and
\* call by call, is a game of Awale.tla.
THEOREM LoopsImplementRules == LoopSpec => FormsAgree
BY LoopsKeepInvariant, PTL DEF FormsAgree

\* So what holds of Awale.tla holds of the code: here the invariants and the
\* abstract games.
THEOREM LoopsKeepTheRules ==
  LoopSpec => /\ []WinnersAgree /\ []WinnerHoldsTheTurn /\ []MoverNotBlocked
              /\ WinnerIsFinal /\ CaptureStaysAcross /\ RefinesRace /\ RefinesTurns
<1>1. LoopSpec => Spec
  BY LoopsImplementRules DEF FormsAgree
<1>2. QED BY <1>1, BothWinnersAgree, WinnerKeepsTheTurn, FeedingRuleLeavesAMove, WinnerStays,
             CapturesStayAcross, ImplementsRace, ImplementsTurns, PTL
=============================================================================
