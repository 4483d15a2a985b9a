----------------------------- MODULE GamesProofs -----------------------------
(***************************************************************************)
(* Theorems about Games.tla, for any number of players, pairs and slots:   *)
(* game_count is the number of games in the table, no game of a pair that  *)
(* plays once leaves the table before it is won, and one that is won has a *)
(* thread that removes it; as long as no pair plays again no result is     *)
(* missing from the statistics; and every slot holds games of turns.       *)
(***************************************************************************)
EXTENDS Games, FiniteSetTheorems, TLAPS

\* What ties a pair that plays once to its slot, its result, and the threads that
\* have seen its game over.
SlotOfPair ==
  /\ \A s, t \in Slot : Id(games[s]) \in Once /\ Id(games[s]) = Id(games[t]) => s = t
  /\ \A s \in Slot : Id(games[s]) \in Pairing => created[Id(games[s])] >= 1
ResultOfPair ==
  /\ \A s \in Slot : Id(games[s]) \in Once => games[s].winner = result[Id(games[s])]
  /\ \A id \in Pairing : result[id] # "none" => created[id] >= 1
Copied(p) ==
  op[p].at = "copy" /\ op[p].id \in Once =>
    Id(games[op[p].slot]) = op[p].id \/ result[op[p].id] # "none"
SeenOver(p) ==
  op[p].at \in {"count_a", "count_b", "remove"} /\ op[p].id \in Once =>
    result[op[p].id] # "none"

IInv ==
  /\ TypeOK /\ GameCountMatches
  /\ SlotOfPair /\ ResultOfPair /\ RemovedIsWon
  /\ \A p \in Player : Copied(p) /\ SeenOver(p)
-----------------------------------------------------------------------------
(* The table of games and the places of the threads.                        *)

\* There are as many slots as MaxGames says.
LEMMA SlotsFinite == IsFiniteSet(Slot) /\ Cardinality(Slot) = MaxGames
  BY GamesAssumption, FS_Interval DEF Slot

\* The slots in use are finitely many, MaxGames at most.
LEMMA ActiveFinite ==
  /\ IsFiniteSet(Active) /\ Cardinality(Active) \in Nat
  /\ Cardinality(Active) <= MaxGames
<1>1. Active \subseteq Slot
  BY DEF Active
<1>2. QED BY <1>1, SlotsFinite, FS_Subset, FS_CardinalityType

\* A count that is right is within the table.
LEMMA CountIsBounded == ASSUME GameCountMatches PROVE game_count \in 0 .. MaxGames
  BY ActiveFinite, GamesAssumption DEF GameCountMatches

\* A look-up finds one slot or none, and a pointer to what it finds.
LEMMA LookupFacts ==
  ASSUME NEW id
  PROVE  /\ Lookup(id) \subseteq Active
         /\ \A s \in Lookup(id) : s \in Slot /\ Id(games[s]) = id
         /\ Lookup(id) = {} \/ \E s \in Active : Lookup(id) = {s}
         /\ Pointer(Lookup(id)) \in {0} \union Slot
         /\ Pointer(Lookup(id)) # 0 => Pointer(Lookup(id)) \in Lookup(id)
<1>1. Lookup(id) \subseteq Active /\ \A s \in Lookup(id) : s \in Slot /\ Id(games[s]) = id
  BY DEF Lookup, Active
<1>2. \A s, t \in Lookup(id) : s = t
  <2>1. \A s \in Slot : s \in Int
    BY GamesAssumption DEF Slot
  <2>2. \A s, t \in Lookup(id) : s <= t /\ t <= s
    BY DEF Lookup
  <2>3. QED BY <1>1, <2>1, <2>2
<1>3. Lookup(id) = {} \/ \E s \in Active : Lookup(id) = {s}
  BY <1>1, <1>2
<1>4. Lookup(id) # {} => Pointer(Lookup(id)) \in Lookup(id)
  BY DEF Pointer
<1>5. Lookup(id) = {} => Pointer(Lookup(id)) = 0
  BY DEF Pointer
<1>6. QED BY <1>1, <1>3, <1>4, <1>5

\* A thread that goes to another place.
LEMMA GoesTo ==
  ASSUME TypeOK, NEW p \in Player, NEW r \in Place, op' = [op EXCEPT ![p] = r],
         r.at \in {"move", "copy"} => r.slot \in Slot,
         r.at \in {"count_a", "count_b"} => r.game \in Slot
  PROVE  /\ op' \in [Player -> Place]
         /\ \A q \in Player :
              /\ op'[q].at \in {"move", "copy"} => op'[q].slot \in Slot
              /\ op'[q].at \in {"count_a", "count_b"} => op'[q].game \in Slot
         /\ op'[p] = r /\ \A q \in Player \ {p} : op'[q] = op[q]
  BY DEF TypeOK

\* An idle thread has the type of a thread.
LEMMA IdleType == Idle \in Place
  BY DEF Idle, Place, Step, Winner

\* What a thread changes in its place.
LEMMA PlaceAt ==
  ASSUME NEW r \in Place, NEW a \in Step
  PROVE  /\ [r EXCEPT !.at = a] \in Place /\ [r EXCEPT !.at = a].at = a
         /\ [r EXCEPT !.at = a].id = r.id /\ [r EXCEPT !.at = a].slot = r.slot
         /\ [r EXCEPT !.at = a].game = r.game
  BY DEF Place

\* What a thread changes in its place with a pointer to a game.
LEMMA PlaceGame ==
  ASSUME NEW r \in Place, NEW a \in Step, NEW s \in {0} \union Slot
  PROVE  /\ [r EXCEPT !.at = a, !.game = s] \in Place
         /\ [r EXCEPT !.at = a, !.game = s].at = a
  BY DEF Place

\* The steps of a handler.
LEMMA Steps ==
  /\ "idle" \in Step /\ "move" \in Step /\ "refind" \in Step /\ "seek" \in Step
  /\ "copy" \in Step /\ "count_a" \in Step /\ "count_b" \in Step /\ "remove" \in Step
  /\ "reply" \in Step /\ "notify" \in Step
  BY DEF Step

\* One more result.
LEMMA StatsType ==
  ASSUME NEW f \in [Player -> [won : Nat, lost : Nat]], NEW player
  PROVE  /\ [f EXCEPT ![player].won = @ + 1] \in [Player -> [won : Nat, lost : Nat]]
         /\ [f EXCEPT ![player].lost = @ + 1] \in [Player -> [won : Nat, lost : Nat]]
<1>1. \A q \in Player : /\ [f[q] EXCEPT !.won = f[q].won + 1] \in [won : Nat, lost : Nat]
                        /\ [f[q] EXCEPT !.lost = f[q].lost + 1] \in [won : Nat, lost : Nat]
  OBVIOUS
<1>2. QED BY <1>1

\* What creating a game does to the table.
LEMMA CreateFacts ==
  ASSUME TypeOK, GameCountMatches, NEW pair \in Pairing, CreateGame(pair[1], pair[2])
  PROVE  \E s \in Slot \ Active :
           /\ games' = [games EXCEPT ![s] = [active |-> TRUE, a |-> pair[1], b |-> pair[2],
                                             turn |-> "a", winner |-> "none", moved |-> FALSE]]
           /\ Active' = Active \union {s}
           /\ Id(games'[s]) = pair /\ games'[s].winner = "none"
           /\ \A t \in Slot \ {s} : games'[t] = games[t]
           /\ GameCountMatches'
           /\ created' = [created EXCEPT ![pair] = @ + 1]
           /\ result' = [result EXCEPT ![pair] = "none"]
           /\ UNCHANGED <<op, stats>>
<1>0. pair = <<pair[1], pair[2]>> /\ pair[1] \in Player /\ pair[2] \in Player
  BY GamesAssumption
<1>1. PICK s \in Slot \ Active :
        games' = [games EXCEPT ![s] = [active |-> TRUE, a |-> pair[1], b |-> pair[2],
                                       turn |-> "a", winner |-> "none", moved |-> FALSE]]
  BY DEF CreateGame
<1>2. /\ games'[s] = [active |-> TRUE, a |-> pair[1], b |-> pair[2],
                      turn |-> "a", winner |-> "none", moved |-> FALSE]
      /\ \A t \in Slot \ {s} : games'[t] = games[t]
  BY <1>1 DEF TypeOK
<1>3. Active' = Active \union {s}
  BY <1>1, <1>2 DEF Active
<1>4. game_count' = game_count + 1 /\ UNCHANGED <<op, stats>>
      /\ created' = [created EXCEPT ![<<pair[1], pair[2]>>] = @ + 1]
      /\ result' = [result EXCEPT ![<<pair[1], pair[2]>>] = "none"]
  BY DEF CreateGame
<1>5. Cardinality(Active \union {s}) = Cardinality(Active) + 1
  BY <1>1, ActiveFinite, FS_AddElement
<1>6. GameCountMatches'
  BY <1>3, <1>4, <1>5 DEF GameCountMatches
<1>7. Id(games'[s]) = pair /\ games'[s].winner = "none"
  BY <1>0, <1>2 DEF Id
<1>8. /\ created' = [created EXCEPT ![pair] = @ + 1]
      /\ result' = [result EXCEPT ![pair] = "none"]
  BY <1>0, <1>4
<1>9. WITNESS s \in Slot \ Active
<1>10. QED BY <1>1, <1>2, <1>3, <1>4, <1>6, <1>7, <1>8

\* What removing a game does to the table: the players of every slot stay.
LEMMA RemoveFacts ==
  ASSUME TypeOK, GameCountMatches, NEW p \in Player, Remove(p)
  PROVE  /\ Active' = Active \ Lookup(op[p].id)
         /\ \A s \in Slot :
              /\ games'[s] = [games[s] EXCEPT !.active = games[s].active /\ s \notin Lookup(op[p].id)]
              /\ Id(games'[s]) = Id(games[s]) /\ games'[s].winner = games[s].winner
         /\ games' \in [Slot -> Game]
         /\ GameCountMatches'
<1> DEFINE Gone == Lookup(op[p].id)
<1>1. /\ games' = [s \in Slot |-> IF s \in Gone THEN [games[s] EXCEPT !.active = FALSE]
                                  ELSE games[s]]
      /\ game_count' = game_count - Cardinality(Gone)
  BY DEF Remove
<1>2. /\ Gone \subseteq Active
      /\ Gone = {} \/ \E s \in Active : Gone = {s}
  BY LookupFacts
<1>3. \A s \in Slot : games[s] \in Game
  BY DEF TypeOK
<1> HIDE DEF Gone
<1>4. \A s \in Slot : /\ games'[s] \in Game
                      /\ games'[s].active = (games[s].active /\ s \notin Gone)
                      /\ games'[s] = [games[s] EXCEPT !.active = games[s].active /\ s \notin Gone]
                      /\ Id(games'[s]) = Id(games[s]) /\ games'[s].winner = games[s].winner
  BY <1>1, <1>3 DEF Id, Game
<1>5. Active' = Active \ Gone
  BY <1>4 DEF Active
<1>6. IsFiniteSet(Gone) /\ Cardinality(Active \ Gone) = Cardinality(Active) - Cardinality(Gone)
  <2>1. IsFiniteSet(Gone) /\ Active \cap Gone = Gone
    BY <1>2, ActiveFinite, FS_Subset
  <2>2. QED BY <2>1, ActiveFinite, FS_Difference
<1>7. GameCountMatches'
  BY <1>1, <1>5, <1>6 DEF GameCountMatches
<1>8. QED BY <1>1, <1>4, <1>5, <1>7 DEF Gone
-----------------------------------------------------------------------------
(* The type invariant, and the count.                                       *)

\* The initial state is typed, and its count is right.
LEMMA InitIsTyped == Init => TypeOK /\ GameCountMatches
<1> SUFFICES ASSUME Init PROVE TypeOK /\ GameCountMatches
  OBVIOUS
<1>1. Active = {}
  BY DEF Init, Active
<1>2. GameCountMatches
  BY <1>1, FS_EmptySet DEF Init, GameCountMatches
<1>3. op \in [Player -> Place] /\ \A p \in Player : op[p].at = "idle"
  <2>1. op = [p \in Player |-> Idle]
    BY DEF Init
  <2>2. Idle.at = "idle"
    BY DEF Idle
  <2>3. QED BY <2>1, <2>2, IdleType
<1>4. games \in [Slot -> Game]
  BY DEF Init, Role, Winner, Game
<1>5. /\ stats \in [Player -> [won : Nat, lost : Nat]]
      /\ created \in [Pairing -> Nat] /\ result \in [Pairing -> Winner]
  BY DEF Init, Winner
<1>6. QED BY <1>2, <1>3, <1>4, <1>5, CountIsBounded DEF TypeOK

\* A step that leaves the table alone, and moves a thread.
LEMMA TypedMove ==
  ASSUME TypeOK, GameCountMatches, NEW p \in Player, NEW r \in Place,
         op' = [op EXCEPT ![p] = r],
         r.at \in {"move", "copy"} => r.slot \in Slot,
         r.at \in {"count_a", "count_b"} => r.game \in Slot,
         UNCHANGED <<games, game_count, created, result>>,
         stats' \in [Player -> [won : Nat, lost : Nat]]
  PROVE  TypeOK' /\ GameCountMatches'
<1>1. /\ op' \in [Player -> Place]
      /\ \A q \in Player :
           /\ op'[q].at \in {"move", "copy"} => op'[q].slot \in Slot
           /\ op'[q].at \in {"count_a", "count_b"} => op'[q].game \in Slot
  BY GoesTo
<1>2. TypeOK'
  BY <1>1 DEF TypeOK
<1>3. GameCountMatches'
  BY DEF GameCountMatches, Active
<1>4. QED BY <1>2, <1>3

\* Every step keeps the types and the count.
LEMMA TypePreserved == TypeOK /\ GameCountMatches /\ [Next]_vars => TypeOK' /\ GameCountMatches'
<1> SUFFICES ASSUME TypeOK, GameCountMatches, [Next]_vars PROVE TypeOK' /\ GameCountMatches'
  OBVIOUS
<1>0. \A p \in Player : op[p] \in Place
  BY DEF TypeOK
<1>1. ASSUME NEW pair \in Pairing, CreateGame(pair[1], pair[2])
      PROVE  TypeOK' /\ GameCountMatches'
  <2>1. PICK s \in Slot \ Active :
          /\ games' = [games EXCEPT ![s] = [active |-> TRUE, a |-> pair[1], b |-> pair[2],
                                            turn |-> "a", winner |-> "none", moved |-> FALSE]]
          /\ GameCountMatches'
          /\ created' = [created EXCEPT ![pair] = @ + 1]
          /\ result' = [result EXCEPT ![pair] = "none"]
          /\ UNCHANGED <<op, stats>>
    BY <1>1, CreateFacts
  <2>2. game_count' \in 0 .. MaxGames
    <3>1. game_count < MaxGames /\ game_count' = game_count + 1
      BY <1>1 DEF CreateGame
    <3>2. QED BY <3>1, CountIsBounded, GamesAssumption
  <2>3. [active |-> TRUE, a |-> pair[1], b |-> pair[2], turn |-> "a", winner |-> "none", moved |-> FALSE]
          \in Game
    BY GamesAssumption DEF Role, Winner, Game
  <2>4. games' \in [Slot -> Game]
    BY <2>1, <2>3 DEF TypeOK
  <2>5. created' \in [Pairing -> Nat] /\ result' \in [Pairing -> Winner]
    <3>1. created[pair] + 1 \in Nat /\ "none" \in Winner
      <4>1. created \in [Pairing -> Nat]
        BY DEF TypeOK
      <4>2. created[pair] \in Nat
        BY <4>1
      <4>3. QED BY <4>2 DEF Winner
    <3>2. created' \in [Pairing -> Nat]
      BY <2>1, <3>1 DEF TypeOK
    <3>3. result' \in [Pairing -> Winner]
      BY <2>1, <3>1 DEF TypeOK
    <3>4. QED BY <3>2, <3>3
  <2>6. QED BY <2>1, <2>2, <2>4, <2>5 DEF TypeOK
<1>2. ASSUME NEW p \in Player, NEW id \in Pairing, Play(p, id)
      PROVE  TypeOK' /\ GameCountMatches'
  <2>1. PICK s \in Lookup(id) :
          op' = [op EXCEPT ![p] = [Idle EXCEPT !.at = "move", !.id = id, !.slot = s]]
    BY <1>2 DEF Play
  <2> DEFINE r == [Idle EXCEPT !.at = "move", !.id = id, !.slot = s]
  <2>2. r \in Place /\ r.at = "move" /\ r.slot \in Slot
    <3>1. s \in Slot
      BY LookupFacts
    <3>2. QED BY <3>1 DEF Idle, Place, Step, Winner
  <2> HIDE DEF r
  <2>3. op' = [op EXCEPT ![p] = r]
    BY <2>1 DEF r
  <2>4. UNCHANGED <<games, game_count, stats, created, result>>
    BY <1>2 DEF Play
  <2>5. QED BY <2>2, <2>3, <2>4, TypedMove DEF TypeOK
<1>3. ASSUME NEW p \in Player, Move(p) PROVE TypeOK' /\ GameCountMatches'
  <2> DEFINE s == op[p].slot
             r == [op[p] EXCEPT !.at = "refind"]
  <2>1. s \in Slot /\ games[s] \in Game
    BY <1>3 DEF Move, TypeOK
  <2>2. PICK role \in Role :
          \/ games' = [games EXCEPT ![s].turn = Other(role), ![s].moved = TRUE] /\ UNCHANGED result
          \/ /\ games' = [games EXCEPT ![s].winner = role]
             /\ result' = [result EXCEPT ![Id(games[s])] = role]
    BY <1>3 DEF Move, RoleOf, Role
  <2>3. role \in Winner /\ Other(role) \in Role
    BY DEF Role, Winner, Other
  <2>4. /\ games' \in [Slot -> Game]
        /\ \A u \in Slot : games'[u].active = games[u].active
    <3>1. CASE games' = [games EXCEPT ![s].turn = Other(role), ![s].moved = TRUE]
      BY <2>1, <2>3, <3>1 DEF TypeOK, Game
    <3>2. CASE games' = [games EXCEPT ![s].winner = role]
      BY <2>1, <2>3, <3>2 DEF TypeOK, Game
    <3>3. QED BY <2>2, <3>1, <3>2
  <2>5. result' \in [Pairing -> Winner]
    BY <2>2, <2>3 DEF TypeOK
  <2>6. r \in Place /\ r.at = "refind"
    BY <1>0, PlaceAt, Steps
  <2>7. op' = [op EXCEPT ![p] = r] /\ UNCHANGED <<game_count, stats, created>>
    BY <1>3 DEF Move
  <2> HIDE DEF r
  <2>8. /\ op' \in [Player -> Place]
        /\ \A q \in Player :
             /\ op'[q].at \in {"move", "copy"} => op'[q].slot \in Slot
             /\ op'[q].at \in {"count_a", "count_b"} => op'[q].game \in Slot
    BY <2>6, <2>7, GoesTo
  <2>9. Active' = Active
    BY <2>4 DEF Active
  <2>10. TypeOK'
    BY <2>4, <2>5, <2>7, <2>8 DEF TypeOK
  <2>11. GameCountMatches'
    BY <2>7, <2>9 DEF GameCountMatches
  <2>12. QED BY <2>10, <2>11
<1>4. ASSUME NEW p \in Player, Refused(p) PROVE TypeOK' /\ GameCountMatches'
  <2>1. Idle.at = "idle"
    BY DEF Idle
  <2>2. QED BY <1>4, <2>1, IdleType, TypedMove DEF Refused, Done, TypeOK
<1>5. ASSUME NEW p \in Player, Refind(p) PROVE TypeOK' /\ GameCountMatches'
  <2> DEFINE s == Pointer(Lookup(op[p].id))
             r == [op[p] EXCEPT !.at = "seek", !.game = s]
  <2>1. r \in Place /\ r.at = "seek"
    <3>1. op[p] \in Place /\ "seek" \in Step /\ s \in {0} \union Slot
      BY <1>0, LookupFacts, Steps
    <3> HIDE DEF s
    <3>2. QED BY <3>1, PlaceGame
  <2>2. op' = [op EXCEPT ![p] = r] /\ UNCHANGED <<games, game_count, stats, created, result>>
    BY <1>5 DEF Refind
  <2> HIDE DEF r
  <2>3. QED BY <2>1, <2>2, TypedMove DEF TypeOK
<1>6. ASSUME NEW p \in Player, Seek(p) PROVE TypeOK' /\ GameCountMatches'
  <2> DEFINE s == Pointer(Lookup(op[p].id))
             step == IF s = 0 THEN "reply" ELSE "copy"
             r == [op[p] EXCEPT !.at = step, !.slot = s]
  <2>1. r \in Place /\ r.at = step /\ r.slot = s
    <3>1. op[p] \in Place /\ step \in Step /\ s \in {0} \union Slot
      BY <1>0, LookupFacts, Steps
    <3> HIDE DEF s, step
    <3>2. QED BY <3>1 DEF Place
  <2>2. op' = [op EXCEPT ![p] = r] /\ UNCHANGED <<games, game_count, stats, created, result>>
    BY <1>6 DEF Seek
  <2>3. r.at = "copy" => r.slot \in Slot
    BY <2>1 DEF Place
  <2>4. r.at \in {"reply", "copy"}
    BY <2>1
  <2> HIDE DEF r
  <2>5. QED BY <2>1, <2>2, <2>3, <2>4, TypedMove DEF TypeOK
<1>7. ASSUME NEW p \in Player, Copy(p) PROVE TypeOK' /\ GameCountMatches'
  <2> DEFINE winner == games[op[p].slot].winner
             step == IF winner # "none" /\ op[p].game # 0 THEN "count_a" ELSE "reply"
             r == [op[p] EXCEPT !.at = step, !.winner = winner]
  <2>1. r \in Place /\ r.at = step /\ r.game = op[p].game
    <3>1. winner \in Winner
      BY <1>7 DEF Copy, TypeOK, Game
    <3>2. op[p] \in Place /\ step \in Step
      BY <1>0, Steps
    <3> HIDE DEF winner, step
    <3>3. QED BY <3>1, <3>2 DEF Place
  <2>2. op' = [op EXCEPT ![p] = r] /\ UNCHANGED <<games, game_count, stats, created, result>>
    BY <1>7 DEF Copy
  <2>3. r.at = "count_a" => r.game \in Slot
    BY <1>0, <2>1 DEF Place
  <2>4. r.at \in {"reply", "count_a"}
    BY <2>1
  <2> HIDE DEF r
  <2>5. QED BY <2>1, <2>2, <2>3, <2>4, TypedMove DEF TypeOK
<1>8. ASSUME NEW p \in Player, Count(p, "a", "count_b") \/ Count(p, "b", "remove")
      PROVE  TypeOK' /\ GameCountMatches'
  <2>1. PICK next \in {"count_b", "remove"}, role \in Role : Count(p, role, next)
    BY <1>8 DEF Role
  <2> DEFINE r == [op[p] EXCEPT !.at = next]
  <2>2. r \in Place /\ r.at = next /\ r.game = op[p].game
    BY <1>0, PlaceAt, Steps
  <2>3. op' = [op EXCEPT ![p] = r] /\ UNCHANGED <<games, game_count, created, result>>
    BY <2>1 DEF Count
  <2>4. op[p].at \in {"count_a", "count_b"}
    BY <2>1 DEF Count
  <2>5. r.game \in Slot
    BY <2>2, <2>4 DEF TypeOK
  <2>6. stats' \in [Player -> [won : Nat, lost : Nat]]
    <3>1. PICK player : \/ stats' = [stats EXCEPT ![player].won = @ + 1]
                        \/ stats' = [stats EXCEPT ![player].lost = @ + 1]
      BY <2>1 DEF Count
    <3>2. stats \in [Player -> [won : Nat, lost : Nat]]
      BY DEF TypeOK
    <3>3. QED BY <3>1, <3>2, StatsType
  <2> HIDE DEF r
  <2>7. QED BY <2>2, <2>3, <2>5, <2>6, TypedMove
<1>9. ASSUME NEW p \in Player, Remove(p) PROVE TypeOK' /\ GameCountMatches'
  <2> DEFINE r == [op[p] EXCEPT !.at = "reply"]
  <2>1. r \in Place /\ r.at = "reply"
    BY <1>0, PlaceAt, Steps
  <2>2. op' = [op EXCEPT ![p] = r] /\ UNCHANGED <<stats, created, result>>
    BY <1>9 DEF Remove
  <2> HIDE DEF r
  <2>3. /\ op' \in [Player -> Place]
        /\ \A q \in Player :
             /\ op'[q].at \in {"move", "copy"} => op'[q].slot \in Slot
             /\ op'[q].at \in {"count_a", "count_b"} => op'[q].game \in Slot
    BY <2>1, <2>2, GoesTo
  <2>4. /\ GameCountMatches'
        /\ games' \in [Slot -> Game]
        /\ Active' = Active \ Lookup(op[p].id)
    BY <1>9, RemoveFacts
  <2>5. game_count' \in 0 .. MaxGames
    <3>1. /\ IsFiniteSet(Active') /\ Cardinality(Active') \in Nat
          /\ Cardinality(Active') <= Cardinality(Active)
      BY <2>4, ActiveFinite, FS_Subset, FS_CardinalityType
    <3>2. game_count' = Cardinality(Active')
      BY <2>4 DEF GameCountMatches
    <3>3. QED BY <3>1, <3>2, ActiveFinite, GamesAssumption
  <2>6. QED BY <2>2, <2>3, <2>4, <2>5 DEF TypeOK
<1>10. ASSUME NEW p \in Player, Reply(p) PROVE TypeOK' /\ GameCountMatches'
  <2> DEFINE r == [op[p] EXCEPT !.at = "notify"]
  <2>1. r \in Place /\ r.at = "notify"
    BY <1>0, PlaceAt, Steps
  <2>2. op' = [op EXCEPT ![p] = r] /\ UNCHANGED <<games, game_count, stats, created, result>>
    BY <1>10 DEF Reply
  <2> HIDE DEF r
  <2>3. QED BY <2>1, <2>2, TypedMove DEF TypeOK
<1>11. ASSUME NEW p \in Player, Notify(p) PROVE TypeOK' /\ GameCountMatches'
  <2>1. Idle.at = "idle"
    BY DEF Idle
  <2>2. QED BY <1>11, <2>1, IdleType, TypedMove DEF Notify, Done, TypeOK
<1>12. CASE UNCHANGED vars
  BY <1>12 DEF vars, TypeOK, GameCountMatches, Active
<1>13. QED
  BY <1>1, <1>2, <1>3, <1>4, <1>5, <1>6, <1>7, <1>8, <1>9, <1>10, <1>11, <1>12
  DEF Next, Handler

\* The invariant TypeOK of Games.tla.
THEOREM GamesTyped == Spec => []TypeOK
<1>1. Init /\ [][Next]_vars => [](TypeOK /\ GameCountMatches)
  BY InitIsTyped, TypePreserved, PTL
<1>2. QED BY <1>1, PTL DEF Spec

\* The invariant GameCountMatches of Games.tla: the count kept by hand is right,
\* whichever threads remove a game that is over.
THEOREM GameCountIsRight == Spec => []GameCountMatches
<1>1. Init /\ [][Next]_vars => [](TypeOK /\ GameCountMatches)
  BY InitIsTyped, TypePreserved, PTL
<1>2. QED BY <1>1, PTL DEF Spec
-----------------------------------------------------------------------------
(* Pairs that play once.                                                    *)

\* A step that leaves the games alone, and moves a thread.
LEMMA QuietStep ==
  ASSUME IInv, NEW p \in Player, NEW r \in Place, op' = [op EXCEPT ![p] = r],
         UNCHANGED <<games, created, result>>, TypeOK', GameCountMatches',
         r.at = "copy" /\ r.id \in Once =>
           Id(games[r.slot]) = r.id \/ result[r.id] # "none",
         r.at \in {"count_a", "count_b", "remove"} /\ r.id \in Once => result[r.id] # "none"
  PROVE  IInv'
<1>1. Once' = Once /\ Present' = Present
  BY DEF Once, Present, Active
<1>2. SlotOfPair' /\ ResultOfPair' /\ RemovedIsWon'
  BY <1>1 DEF IInv, SlotOfPair, ResultOfPair, RemovedIsWon
<1>3. op'[p] = r /\ \A q \in Player \ {p} : op'[q] = op[q]
  BY DEF IInv, TypeOK
<1>4. \A q \in Player : Copied(q)' /\ SeenOver(q)'
  BY <1>1, <1>3 DEF IInv, Copied, SeenOver
<1>5. QED BY <1>2, <1>4 DEF IInv

\* The four places from which a thread cannot take a game away.
LEMMA QuietMove ==
  ASSUME IInv, NEW p \in Player, NEW r \in Place, op' = [op EXCEPT ![p] = r],
         UNCHANGED <<games, created, result>>, TypeOK', GameCountMatches',
         r.at \in {"idle", "move", "refind", "seek", "reply", "notify"}
  PROVE  IInv'
  BY QuietStep

\* The invariant about pairs holds initially.
LEMMA PairsInit == Init => IInv
<1> SUFFICES ASSUME Init PROVE IInv
  OBVIOUS
<1>1. TypeOK /\ GameCountMatches
  BY InitIsTyped
<1>2. \A s \in Slot : Id(games[s]) \notin Pairing
  BY GamesAssumption DEF Init, Id
<1>3. \A id \in Pairing : created[id] = 0 /\ result[id] = "none"
  BY DEF Init
<1>4. SlotOfPair /\ ResultOfPair
  BY <1>2, <1>3 DEF SlotOfPair, ResultOfPair, Once
<1>5. RemovedIsWon
  BY <1>3 DEF RemovedIsWon, Once
<1>6. \A p \in Player : op[p].at = "idle"
  BY DEF Init, Idle
<1>7. QED BY <1>1, <1>4, <1>5, <1>6 DEF IInv, Copied, SeenOver

\* A game that is created in a slot takes the place of one of a pair whose result
\* is there, if that pair played once.
LEMMA PairsCreate ==
  ASSUME IInv, NEW pair \in Pairing, CreateGame(pair[1], pair[2]), TypeOK', GameCountMatches'
  PROVE  IInv'
<1>1. PICK s \in Slot \ Active :
        /\ Active' = Active \union {s}
        /\ Id(games'[s]) = pair /\ games'[s].winner = "none"
        /\ \A t \in Slot \ {s} : games'[t] = games[t]
        /\ created' = [created EXCEPT ![pair] = @ + 1]
        /\ result' = [result EXCEPT ![pair] = "none"]
        /\ UNCHANGED <<op, stats>>
  BY CreateFacts DEF IInv
<1>2. created \in [Pairing -> Nat] /\ result \in [Pairing -> Winner]
  BY DEF IInv, TypeOK
<1>3. /\ created'[pair] = created[pair] + 1 /\ result'[pair] = "none"
      /\ \A id \in Pairing \ {pair} : created'[id] = created[id] /\ result'[id] = result[id]
  BY <1>1, <1>2
<1>4. /\ Once' \subseteq Once
      /\ pair \in Once' => created[pair] = 0
  BY <1>2, <1>3 DEF Once
<1>5. created[pair] = 0 => \A t \in Slot : Id(games[t]) # pair
  BY DEF IInv, SlotOfPair
<1>6. \A t \in Slot \ {s} : Id(games'[t]) = Id(games[t]) /\ games'[t].winner = games[t].winner
  BY <1>1
<1>7. SlotOfPair'
  <2>1. ASSUME NEW t \in Slot, NEW u \in Slot, Id(games'[t]) \in Once', Id(games'[t]) = Id(games'[u])
        PROVE  t = u
    <3>1. CASE t = s \/ u = s
      BY <1>1, <1>4, <1>5, <1>6, <2>1, <3>1
    <3>2. CASE t # s /\ u # s
      BY <1>4, <1>6, <2>1, <3>2 DEF IInv, SlotOfPair
    <3>3. QED BY <3>1, <3>2
  <2>2. ASSUME NEW t \in Slot, Id(games'[t]) \in Pairing
        PROVE  created'[Id(games'[t])] >= 1
    <3>1. CASE t = s
      BY <1>1, <1>2, <1>3, <3>1
    <3>2. CASE t # s
      <4>1. Id(games'[t]) = Id(games[t]) /\ created[Id(games[t])] >= 1
        BY <1>6, <2>2, <3>2 DEF IInv, SlotOfPair
      <4>2. QED BY <1>2, <1>3, <2>2, <4>1
    <3>3. QED BY <3>1, <3>2
  <2>3. QED BY <2>1, <2>2 DEF SlotOfPair
<1>8. ResultOfPair'
  <2>1. ASSUME NEW t \in Slot, Id(games'[t]) \in Once'
        PROVE  games'[t].winner = result'[Id(games'[t])]
    <3>1. CASE t = s
      BY <1>1, <1>3, <3>1
    <3>2. CASE t # s
      <4>1. /\ Id(games'[t]) = Id(games[t]) /\ games'[t].winner = games[t].winner
            /\ Id(games[t]) \in Once
        BY <1>4, <1>6, <2>1, <3>2
      <4>2. Id(games[t]) # pair
        BY <1>4, <1>5, <2>1, <4>1
      <4>3. result'[Id(games[t])] = result[Id(games[t])]
        BY <1>3, <4>1, <4>2 DEF Once
      <4>4. QED BY <4>1, <4>3 DEF IInv, ResultOfPair
    <3>3. QED BY <3>1, <3>2
  <2>2. ASSUME NEW id \in Pairing, result'[id] # "none" PROVE created'[id] >= 1
    BY <1>2, <1>3, <2>2 DEF IInv, ResultOfPair
  <2>3. QED BY <2>1, <2>2 DEF ResultOfPair
<1>9. RemovedIsWon'
  <2>1. SUFFICES ASSUME NEW id \in Once', created'[id] = 1, id \notin Present'
                 PROVE  result'[id] # "none"
    BY DEF RemovedIsWon
  <2>2. id # pair
    BY <1>1, <2>1 DEF Present
  <2>3. id \notin Present
    <3>1. \A t \in Active : t # s /\ t \in Slot
      BY <1>1 DEF Active
    <3>2. Present \subseteq Present'
      BY <1>1, <1>6, <3>1 DEF Present
    <3>3. QED BY <2>1, <3>2
  <2>4. id \in Once /\ id \in Pairing /\ created[id] = 1 /\ result'[id] = result[id]
    BY <1>3, <1>4, <2>1, <2>2 DEF Once
  <2>5. QED BY <2>3, <2>4 DEF IInv, RemovedIsWon
\* The pair of a slot that is taken, if it played once, has its result.
<1>10. Id(games[s]) \in Once => result[Id(games[s])] # "none"
  <2> SUFFICES ASSUME Id(games[s]) \in Once PROVE result[Id(games[s])] # "none"
    OBVIOUS
  <2>1. created[Id(games[s])] = 1
    BY <1>2 DEF IInv, SlotOfPair, Once
  <2>2. Id(games[s]) \notin Present
    <3>1. \A t \in Active : t # s /\ t \in Slot
      BY <1>1 DEF Active
    <3>2. QED BY <3>1 DEF IInv, SlotOfPair, Present
  <2>3. QED BY <2>1, <2>2 DEF IInv, RemovedIsWon
<1>11. \A p \in Player : Copied(p)' /\ SeenOver(p)'
  <2> TAKE p \in Player
  <2>1. op'[p] = op[p]
    BY <1>1
  <2>2. op[p].id \in Once' => op[p].id \in Once /\ op[p].id \in Pairing
    BY <1>4 DEF Once
  <2>3. Copied(p)'
    <3>1. SUFFICES ASSUME op[p].at = "copy", op[p].id \in Once'
                   PROVE  Id(games'[op[p].slot]) = op[p].id \/ result'[op[p].id] # "none"
      BY <2>1 DEF Copied
    <3>2. Id(games[op[p].slot]) = op[p].id \/ result[op[p].id] # "none"
      BY <2>2, <3>1 DEF IInv, Copied
    <3>3. op[p].slot \in Slot
      BY <3>1 DEF IInv, TypeOK
    <3>4. op[p].id # pair
      <4>1. created[pair] = 0 => result[pair] = "none"
        BY <1>2 DEF IInv, ResultOfPair
      <4>2. QED BY <1>4, <1>5, <3>1, <3>2, <3>3, <4>1
    <3>5. result'[op[p].id] = result[op[p].id]
      BY <1>3, <2>2, <3>1, <3>4
    <3>6. CASE op[p].slot = s
      BY <1>10, <2>2, <3>1, <3>2, <3>5, <3>6
    <3>7. CASE op[p].slot # s
      BY <1>6, <3>2, <3>3, <3>5, <3>7
    <3>8. QED BY <3>6, <3>7
  <2>4. SeenOver(p)'
    <3>1. SUFFICES ASSUME op[p].at \in {"count_a", "count_b", "remove"}, op[p].id \in Once'
                   PROVE  result'[op[p].id] # "none"
      BY <2>1 DEF SeenOver
    <3>2. result[op[p].id] # "none"
      BY <2>2, <3>1 DEF IInv, SeenOver
    <3>3. op[p].id # pair
      <4>1. created[pair] = 0 => result[pair] = "none"
        BY <1>2 DEF IInv, ResultOfPair
      <4>2. QED BY <1>4, <3>1, <3>2, <4>1
    <3>4. QED BY <1>3, <2>2, <3>1, <3>2, <3>3
  <2>5. QED BY <2>3, <2>4
<1>12. QED BY <1>7, <1>8, <1>9, <1>11 DEF IInv

\* A move changes the winner of a slot and the result of its pair alike.
LEMMA PairsMove ==
  ASSUME IInv, NEW p \in Player, Move(p), TypeOK', GameCountMatches'
  PROVE  IInv'
<1> DEFINE s == op[p].slot
<1>1. s \in Slot /\ op[p] \in Place
  BY DEF Move, IInv, TypeOK
<1>2. op' = [op EXCEPT ![p].at = "refind"] /\ UNCHANGED created
  BY DEF Move
<1>3. /\ op'[p].at = "refind"
      /\ \A q \in Player \ {p} : op'[q] = op[q]
  BY <1>1, <1>2 DEF IInv, TypeOK, Place
<1>4. /\ games \in [Slot -> Game]
      /\ result \in [Pairing -> Winner]
  BY DEF IInv, TypeOK
<1>5. PICK role \in Role :
        \/ games' = [games EXCEPT ![s].turn = Other(role), ![s].moved = TRUE] /\ UNCHANGED result
        \/ /\ games' = [games EXCEPT ![s].winner = role]
           /\ result' = [result EXCEPT ![Id(games[s])] = role]
  BY DEF Move, RoleOf, Role
<1>6. \A t \in Slot : Id(games'[t]) = Id(games[t]) /\ games'[t].active = games[t].active
  <2>1. CASE games' = [games EXCEPT ![s].turn = Other(role), ![s].moved = TRUE]
    BY <1>1, <1>4, <2>1 DEF Id
  <2>2. CASE games' = [games EXCEPT ![s].winner = role]
    BY <1>1, <1>4, <2>2 DEF Id
  <2>3. QED BY <1>5, <2>1, <2>2
<1>7. Once' = Once /\ Present' = Present /\ Once \subseteq Pairing
  <2>1. Active' = Active
    BY <1>6 DEF Active
  <2>2. \A t \in Active : t \in Slot
    BY DEF Active
  <2>3. QED BY <1>2, <1>6, <2>1, <2>2 DEF Once, Present
<1>8. \A id \in Pairing : \/ result'[id] = result[id]
                          \/ id = Id(games[s]) /\ result'[id] = role
  BY <1>4, <1>5
<1>9. role # "none"
  BY DEF Role
<1>10. \A t \in Slot : Id(games[t]) \in Once => games'[t].winner = result'[Id(games[t])]
  <2> TAKE t \in Slot
  <2>1. SUFFICES ASSUME Id(games[t]) \in Once PROVE games'[t].winner = result'[Id(games[t])]
    OBVIOUS
  <2>2. games[t].winner = result[Id(games[t])]
    BY <2>1 DEF IInv, ResultOfPair
  <2>3. Id(games[t]) = Id(games[s]) => t = s
    BY <1>1, <2>1 DEF IInv, SlotOfPair
  <2>4. CASE games' = [games EXCEPT ![s].turn = Other(role), ![s].moved = TRUE] /\ UNCHANGED result
    BY <1>1, <1>4, <2>2, <2>4
  <2>5. CASE /\ games' = [games EXCEPT ![s].winner = role]
             /\ result' = [result EXCEPT ![Id(games[s])] = role]
    <3>1. CASE t = s
      BY <1>1, <1>4, <1>7, <2>1, <2>5, <3>1
    <3>2. CASE t # s
      BY <1>4, <1>7, <2>1, <2>2, <2>3, <2>5, <3>2
    <3>3. QED BY <3>1, <3>2
  <2>6. QED BY <1>5, <2>4, <2>5
<1>11. SlotOfPair'
  BY <1>2, <1>6, <1>7 DEF IInv, SlotOfPair
<1>12. ResultOfPair'
  <2>1. \A id \in Pairing : result'[id] # "none" => created[id] >= 1
    BY <1>1, <1>8 DEF IInv, ResultOfPair, SlotOfPair
  <2>2. QED BY <1>2, <1>6, <1>7, <1>10, <2>1 DEF ResultOfPair
<1>13. RemovedIsWon'
  BY <1>2, <1>7, <1>8, <1>9 DEF IInv, RemovedIsWon
<1>14. \A q \in Player : Copied(q)' /\ SeenOver(q)'
  <2> TAKE q \in Player
  <2>1. CASE q = p
    BY <1>3, <2>1 DEF Copied, SeenOver
  <2>2. CASE q # p
    <3>1. op'[q] = op[q] /\ Copied(q) /\ SeenOver(q)
      BY <1>3, <2>2 DEF IInv
    <3>2. op[q].at = "copy" => op[q].slot \in Slot
      BY DEF IInv, TypeOK
    <3>3. QED BY <1>6, <1>7, <1>8, <1>9, <3>1, <3>2 DEF Copied, SeenOver
  <2>3. QED BY <2>1, <2>2
<1>15. QED BY <1>11, <1>12, <1>13, <1>14 DEF IInv

\* The game that a thread removes has its result, if its pair played once.
LEMMA PairsRemove ==
  ASSUME IInv, NEW p \in Player, Remove(p), TypeOK', GameCountMatches'
  PROVE  IInv'
<1>1. /\ Active' = Active \ Lookup(op[p].id)
      /\ \A s \in Slot : Id(games'[s]) = Id(games[s]) /\ games'[s].winner = games[s].winner
  BY RemoveFacts DEF IInv
<1>2. /\ op' = [op EXCEPT ![p].at = "reply"] /\ op[p].at = "remove"
      /\ UNCHANGED <<created, result>>
  BY DEF Remove
<1>3. /\ op'[p].at = "reply"
      /\ \A q \in Player \ {p} : op'[q] = op[q]
  BY <1>2 DEF IInv, TypeOK, Place
<1>4. Once' = Once
  BY <1>2 DEF Once
<1>5. SlotOfPair' /\ ResultOfPair'
  BY <1>1, <1>2, <1>4 DEF IInv, SlotOfPair, ResultOfPair
<1>6. \A id \in Present : id \in Present' \/ id = op[p].id
  <2>1. \A s \in Lookup(op[p].id) : Id(games[s]) = op[p].id
    BY LookupFacts
  <2>2. \A s \in Active : s \in Slot
    BY DEF Active
  <2>3. QED BY <1>1, <2>1, <2>2 DEF Present
<1>7. op[p].id \in Once => result[op[p].id] # "none"
  BY <1>2 DEF IInv, SeenOver
<1>8. RemovedIsWon'
  BY <1>2, <1>4, <1>6, <1>7 DEF IInv, RemovedIsWon
<1>9. \A q \in Player : Copied(q)' /\ SeenOver(q)'
  <2> TAKE q \in Player
  <2>1. CASE q = p
    BY <1>3, <2>1 DEF Copied, SeenOver
  <2>2. CASE q # p
    <3>1. op'[q] = op[q] /\ Copied(q) /\ SeenOver(q)
      BY <1>3, <2>2 DEF IInv
    <3>2. op[q].at = "copy" => op[q].slot \in Slot
      BY DEF IInv, TypeOK
    <3>3. QED BY <1>1, <1>2, <1>4, <3>1, <3>2 DEF Copied, SeenOver
  <2>3. QED BY <2>1, <2>2
<1>10. QED BY <1>5, <1>8, <1>9 DEF IInv

\* Every step keeps the invariant about pairs.
LEMMA PairsPreserved == IInv /\ [Next]_vars => IInv'
<1> SUFFICES ASSUME IInv, [Next]_vars PROVE IInv'
  OBVIOUS
<1>0. TypeOK' /\ GameCountMatches'
  BY TypePreserved DEF IInv
<1>1. \A p \in Player : op[p] \in Place
  BY DEF IInv, TypeOK
<1>2. \A p \in Player, step \in Step :
        /\ [op[p] EXCEPT !.at = step] \in Place /\ [op[p] EXCEPT !.at = step].at = step
        /\ [op[p] EXCEPT !.at = step].id = op[p].id
  BY <1>1, PlaceAt
<1>3. Idle.at = "idle"
  BY DEF Idle
<1>4. ASSUME NEW p \in Player, NEW id \in Pairing, Play(p, id) PROVE IInv'
  <2>1. PICK s \in Lookup(id) :
          op' = [op EXCEPT ![p] = [Idle EXCEPT !.at = "move", !.id = id, !.slot = s]]
    BY <1>4 DEF Play
  <2> DEFINE r == [Idle EXCEPT !.at = "move", !.id = id, !.slot = s]
  <2>2. r \in Place /\ r.at = "move"
    <3>1. s \in Slot
      BY LookupFacts
    <3>2. QED BY <3>1 DEF Idle, Place, Step, Winner
  <2> HIDE DEF r
  <2>3. op' = [op EXCEPT ![p] = r]
    BY <2>1 DEF r
  <2>4. QED BY <1>0, <1>4, <2>2, <2>3, QuietMove DEF Play
<1>5. ASSUME NEW p \in Player, Refused(p) PROVE IInv'
  BY <1>0, <1>3, <1>5, IdleType, QuietMove DEF Refused, Done
<1>6. ASSUME NEW p \in Player, Refind(p) PROVE IInv'
  <2> DEFINE s == Pointer(Lookup(op[p].id))
             r == [op[p] EXCEPT !.at = "seek", !.game = s]
  <2>1. r \in Place /\ r.at = "seek"
    <3>1. op[p] \in Place /\ "seek" \in Step /\ s \in {0} \union Slot
      BY <1>1, LookupFacts, Steps
    <3> HIDE DEF s
    <3>2. QED BY <3>1, PlaceGame
  <2>2. op' = [op EXCEPT ![p] = r] /\ UNCHANGED <<games, created, result>>
    BY <1>6 DEF Refind
  <2> HIDE DEF r
  <2>3. QED BY <1>0, <2>1, <2>2, QuietMove
<1>7. ASSUME NEW p \in Player, Seek(p) PROVE IInv'
  <2> DEFINE s == Pointer(Lookup(op[p].id))
             step == IF s = 0 THEN "reply" ELSE "copy"
             r == [op[p] EXCEPT !.at = step, !.slot = s]
  <2>1. r \in Place /\ r.at = step /\ r.slot = s /\ r.id = op[p].id
    <3>1. op[p] \in Place /\ step \in Step /\ s \in {0} \union Slot
      BY <1>1, LookupFacts, Steps
    <3> HIDE DEF s, step
    <3>2. QED BY <3>1 DEF Place
  <2>2. op' = [op EXCEPT ![p] = r] /\ UNCHANGED <<games, created, result>>
    BY <1>7 DEF Seek
  <2>3. r.at = "copy" => Id(games[r.slot]) = r.id
    <3>1. s # 0 => Id(games[s]) = op[p].id
      BY LookupFacts
    <3>2. QED BY <2>1, <3>1
  <2>4. r.at \in {"reply", "copy"}
    BY <2>1
  <2> HIDE DEF r
  <2>5. QED BY <1>0, <2>1, <2>2, <2>3, <2>4, QuietStep
<1>8. ASSUME NEW p \in Player, Copy(p) PROVE IInv'
  <2> DEFINE winner == games[op[p].slot].winner
             step == IF winner # "none" /\ op[p].game # 0 THEN "count_a" ELSE "reply"
             r == [op[p] EXCEPT !.at = step, !.winner = winner]
  <2>1. op[p].at = "copy" /\ op[p].slot \in Slot
    BY <1>8 DEF Copy, IInv, TypeOK
  <2>2. r \in Place /\ r.at = step /\ r.id = op[p].id
    <3>1. winner \in Winner
      BY <2>1 DEF IInv, TypeOK, Game
    <3>2. op[p] \in Place /\ step \in Step
      BY <1>1, Steps
    <3> HIDE DEF winner, step
    <3>3. QED BY <3>1, <3>2 DEF Place
  <2>3. op' = [op EXCEPT ![p] = r] /\ UNCHANGED <<games, created, result>>
    BY <1>8 DEF Copy
  <2>4. r.at = "count_a" /\ r.id \in Once => result[r.id] # "none"
    <3>1. SUFFICES ASSUME step = "count_a", op[p].id \in Once PROVE result[op[p].id] # "none"
      BY <2>2
    <3>2. winner # "none"
      BY <3>1
    <3>3. Id(games[op[p].slot]) = op[p].id \/ result[op[p].id] # "none"
      BY <2>1, <3>1 DEF IInv, Copied
    <3>4. Id(games[op[p].slot]) = op[p].id => winner = result[op[p].id]
      BY <2>1, <3>1 DEF IInv, ResultOfPair
    <3>5. QED BY <3>2, <3>3, <3>4
  <2>5. r.at \in {"reply", "count_a"}
    BY <2>2
  <2> HIDE DEF r
  <2>6. QED BY <1>0, <2>2, <2>3, <2>4, <2>5, QuietStep
<1>9. ASSUME NEW p \in Player, Count(p, "a", "count_b") \/ Count(p, "b", "remove")
      PROVE  IInv'
  <2>1. PICK next \in {"count_b", "remove"}, role \in Role : Count(p, role, next)
    BY <1>9 DEF Role
  <2> DEFINE r == [op[p] EXCEPT !.at = next]
  <2>2. r \in Place /\ r.at = next /\ r.id = op[p].id
    BY <1>2, Steps
  <2>3. /\ op' = [op EXCEPT ![p] = r] /\ UNCHANGED <<games, created, result>>
        /\ op[p].at \in {"count_a", "count_b"}
    BY <2>1 DEF Count
  <2>4. r.id \in Once => result[r.id] # "none"
    BY <2>2, <2>3 DEF IInv, SeenOver
  <2>5. r.at # "copy"
    BY <2>2
  <2> HIDE DEF r
  <2>6. QED BY <1>0, <2>2, <2>3, <2>4, <2>5, QuietStep
<1>10. ASSUME NEW p \in Player, Reply(p) PROVE IInv'
  <2> DEFINE r == [op[p] EXCEPT !.at = "notify"]
  <2>1. r \in Place /\ r.at = "notify"
    BY <1>2, Steps
  <2>2. op' = [op EXCEPT ![p] = r] /\ UNCHANGED <<games, created, result>>
    BY <1>10 DEF Reply
  <2> HIDE DEF r
  <2>3. QED BY <1>0, <2>1, <2>2, QuietMove
<1>11. ASSUME NEW p \in Player, Notify(p) PROVE IInv'
  BY <1>0, <1>3, <1>11, IdleType, QuietMove DEF Notify, Done
<1>12. CASE UNCHANGED vars
  BY <1>0, <1>12 DEF vars, IInv, SlotOfPair, ResultOfPair, RemovedIsWon, Copied, SeenOver,
                     Once, Present, Active
<1>13. QED
  BY <1>0, <1>4, <1>5, <1>6, <1>7, <1>8, <1>9, <1>10, <1>11, <1>12,
     PairsCreate, PairsMove, PairsRemove DEF Next, Handler

\* The invariant RemovedIsWon of Games.tla: a game of a pair that plays once does
\* not leave the table before it is won, though the thread that removes it has
\* looked it up by its name three times and copied what a slot held by then.
THEOREM GamesLeaveWhenWon == Spec => []RemovedIsWon
<1>1. Init /\ [][Next]_vars => []IInv
  BY PairsInit, PairsPreserved, PTL
<1>2. IInv => RemovedIsWon
  BY DEF IInv
<1>3. QED BY <1>1, <1>2, PTL DEF Spec
-----------------------------------------------------------------------------
(* The results in the statistics.                                           *)

\* A slot whose game is won keeps the turn of the winner.
TurnOfWinner == \A s \in Slot : games[s].winner # "none" => games[s].turn = games[s].winner

\* A thread is at a game that there was.
Began(q) == op[q].at # "idle" => op[q].id \in Pairing /\ created[op[q].id] >= 1

\* As long as the game of a pair that plays once is in the table, a thread points
\* to it, and has its winner.
Held == Once \intersect Present
Pointed(q) ==
  op[q].id \in Held =>
    /\ op[q].at \in {"seek", "copy", "count_a", "count_b"} /\ op[q].game # 0 =>
         Id(games[op[q].game]) = op[q].id
    /\ op[q].at = "copy" => Id(games[op[q].slot]) = op[q].id
    /\ op[q].at \in {"count_a", "count_b"} => op[q].winner = result[op[q].id]

\* The result of a pair is counted for the player of a role: its game has left the
\* table, or is about to.
After(role) == IF role = "a" THEN {"count_b", "remove"} ELSE {"remove"}
Counted(id, role) ==
  id \notin Present \/ \E q \in Player : op[q].id = id /\ op[q].at \in After(role)

PlayerOf(id, role) == IF role = "a" THEN id[1] ELSE id[2]
WonBy(p)  == {id \in Once : \E role \in Role :
                result[id] = role /\ PlayerOf(id, role) = p /\ Counted(id, role)}
LostBy(p) == {id \in Once : \E role \in Role :
                result[id] = Other(role) /\ PlayerOf(id, role) = p /\ Counted(id, role)}

StatsCover ==
  \A p \in Player : stats[p].won >= Cardinality(WonBy(p)) /\ stats[p].lost >= Cardinality(LostBy(p))

\* What makes the count inductive.
CountInv ==
  IInv /\ TurnOfWinner /\ StatsCover /\ \A q \in Player : Began(q) /\ Pointed(q)

\* A part of the pairs has a number of members, and a part of it no more.
LEMMA PairsFinite ==
  ASSUME NEW T \in SUBSET Pairing
  PROVE  /\ IsFiniteSet(T) /\ Cardinality(T) \in Nat
         /\ \A S \in SUBSET T : Cardinality(S) \in Nat /\ Cardinality(S) <= Cardinality(T)
         /\ \A S, id : S \subseteq T \union {id} /\ S \subseteq Pairing =>
              Cardinality(S) \in Nat /\ Cardinality(S) <= Cardinality(T) + 1
<1>1. IsFiniteSet(Pairing) /\ IsFiniteSet(T) /\ Cardinality(T) \in Nat
  BY GamesAssumption, FS_Subset, FS_CardinalityType
<1>2. \A S \in SUBSET T : Cardinality(S) \in Nat /\ Cardinality(S) <= Cardinality(T)
  BY <1>1, FS_Subset, FS_CardinalityType
<1>3. ASSUME NEW S \in SUBSET Pairing, NEW id, S \subseteq T \union {id}
      PROVE  Cardinality(S) \in Nat /\ Cardinality(S) <= Cardinality(T) + 1
  <2>1. /\ IsFiniteSet(T \union {id})
        /\ Cardinality(T \union {id}) = Cardinality(T) \/ Cardinality(T \union {id}) = Cardinality(T) + 1
    BY <1>1, FS_AddElement
  <2>2. Cardinality(S) \in Nat /\ Cardinality(S) <= Cardinality(T \union {id})
    BY <1>3, <2>1, FS_Subset, FS_CardinalityType
  <2>3. QED BY <1>1, <2>1, <2>2
<1>4. QED BY <1>1, <1>2, <1>3

\* Who has won, and lost, are pairs.
LEMMA CountsArePairs ==
  \A p : WonBy(p) \subseteq Pairing /\ LostBy(p) \subseteq Pairing
  BY DEF WonBy, LostBy, Once

\* What a step does to the pairs that had a game.
Stays ==
  /\ Once' \subseteq Once
  /\ \A id \in Pairing : created'[id] >= created[id] /\ created[id] \in Nat /\ created'[id] \in Nat
  /\ \A id \in Once' : created[id] >= 1 =>
       /\ id \in Present' => id \in Present
       /\ result[id] # "none" => result'[id] = result[id]
       /\ \A s \in Slot : id \in Present' /\ Id(games[s]) = id => Id(games'[s]) = id

\* A thread that takes no part in a step.
LEMMA OtherThread ==
  ASSUME IInv, Stays, NEW q \in Player, op'[q] = op[q], Began(q), Pointed(q)
  PROVE  Began(q)' /\ Pointed(q)'
<1>1. Began(q)'
  BY DEF Began, Stays
<1>2. ASSUME op[q].id \in Held', op[q].at # "idle" PROVE Pointed(q)'
  <2>1. op[q].id \in Once' /\ op[q].id \in Present' /\ op[q].id \in Pairing /\ created[op[q].id] >= 1
    BY <1>2 DEF Held, Began
  <2>2. op[q].id \in Held
    BY <2>1 DEF Held, Stays
  <2>3. /\ op[q].at \in {"seek", "copy", "count_a", "count_b"} /\ op[q].game # 0 =>
             Id(games[op[q].game]) = op[q].id /\ op[q].game \in Slot
        /\ op[q].at = "copy" => Id(games[op[q].slot]) = op[q].id /\ op[q].slot \in Slot
    BY <2>2 DEF Pointed, IInv, TypeOK, Place
  <2>4. op[q].at \in {"count_a", "count_b"} =>
          op[q].winner = result[op[q].id] /\ result[op[q].id] # "none"
    BY <2>1, <2>2 DEF Pointed, IInv, SeenOver, Held
  <2>5. QED BY <2>1, <2>3, <2>4 DEF Pointed, Stays
<1>3. CASE op[q].at = "idle"
  BY <1>1, <1>3 DEF Pointed
<1>4. CASE op[q].id \notin Held'
  BY <1>1, <1>4 DEF Pointed
<1>5. QED BY <1>1, <1>2, <1>3, <1>4

\* A step by which a player has no more results than it has in its statistics.
LEMMA CoverStep ==
  ASSUME TypeOK, TypeOK', StatsCover,
         \A q \in Player :
           /\ \/ WonBy(q)' \subseteq WonBy(q) /\ stats'[q].won >= stats[q].won
              \/ \E i : WonBy(q)' \subseteq WonBy(q) \union {i} /\ stats'[q].won = stats[q].won + 1
           /\ \/ LostBy(q)' \subseteq LostBy(q) /\ stats'[q].lost >= stats[q].lost
              \/ \E i : LostBy(q)' \subseteq LostBy(q) \union {i} /\ stats'[q].lost = stats[q].lost + 1
  PROVE  StatsCover'
<1> SUFFICES ASSUME NEW q \in Player
             PROVE  stats'[q].won >= Cardinality(WonBy(q)') /\ stats'[q].lost >= Cardinality(LostBy(q)')
  BY DEF StatsCover
<1>1. WonBy(q) \in SUBSET Pairing /\ LostBy(q) \in SUBSET Pairing
  BY CountsArePairs
<1>2. WonBy(q)' \in SUBSET Pairing /\ LostBy(q)' \in SUBSET Pairing
  BY DEF WonBy, LostBy, Once
<1>3. /\ stats[q].won \in Nat /\ stats[q].lost \in Nat
      /\ stats'[q].won \in Nat /\ stats'[q].lost \in Nat
  BY DEF TypeOK
<1>4. stats[q].won >= Cardinality(WonBy(q)) /\ stats[q].lost >= Cardinality(LostBy(q))
  BY DEF StatsCover
<1> DEFINE W == WonBy(q)
           L == LostBy(q)
           X == WonBy(q)'
           Y == LostBy(q)'
<1>5. /\ \/ X \subseteq W /\ stats'[q].won >= stats[q].won
         \/ \E i : X \subseteq W \union {i} /\ stats'[q].won = stats[q].won + 1
      /\ \/ Y \subseteq L /\ stats'[q].lost >= stats[q].lost
         \/ \E i : Y \subseteq L \union {i} /\ stats'[q].lost = stats[q].lost + 1
  OBVIOUS
<1> HIDE DEF W, L, X, Y
<1>6. /\ Cardinality(W) \in Nat /\ Cardinality(X) \in Nat
      /\ X \subseteq W => Cardinality(X) <= Cardinality(W)
      /\ \A i : X \subseteq W \union {i} => Cardinality(X) <= Cardinality(W) + 1
  <2>1. W \in SUBSET Pairing /\ X \in SUBSET Pairing
    BY <1>1, <1>2 DEF W, X
  <2>2. QED BY <2>1, PairsFinite
<1>7. /\ Cardinality(L) \in Nat /\ Cardinality(Y) \in Nat
      /\ Y \subseteq L => Cardinality(Y) <= Cardinality(L)
      /\ \A i : Y \subseteq L \union {i} => Cardinality(Y) <= Cardinality(L) + 1
  <2>1. L \in SUBSET Pairing /\ Y \in SUBSET Pairing
    BY <1>1, <1>2 DEF L, Y
  <2>2. QED BY <2>1, PairsFinite
<1>8. stats[q].won >= Cardinality(W) /\ stats[q].lost >= Cardinality(L)
  BY <1>4 DEF W, L
<1>9. stats'[q].won >= Cardinality(X) /\ stats'[q].lost >= Cardinality(Y)
  <2>1. stats'[q].won >= Cardinality(X)
    BY <1>3, <1>5, <1>6, <1>8
  <2>2. stats'[q].lost >= Cardinality(Y)
    BY <1>3, <1>5, <1>7, <1>8
  <2>3. QED BY <2>1, <2>2
<1>10. QED BY <1>9 DEF X, Y

\* No result is counted in a step.
LEMMA NothingCounted ==
  ASSUME TypeOK, TypeOK', StatsCover, Once' \subseteq Once, stats' = stats,
         \A id \in Once', role \in Role : Counted(id, role)' /\ result'[id] # "none" =>
           result[id] = result'[id] /\ Counted(id, role)
  PROVE  StatsCover'
<1>1. ASSUME NEW p \in Player PROVE WonBy(p)' \subseteq WonBy(p) /\ LostBy(p)' \subseteq LostBy(p)
  BY DEF WonBy, LostBy, Role, Other
<1>2. \A p \in Player : stats'[p].won >= stats[p].won /\ stats'[p].lost >= stats[p].lost
  <2>1. \A p \in Player : stats[p].won \in Nat /\ stats[p].lost \in Nat
    BY DEF TypeOK
  <2>2. QED BY <2>1
<1>3. QED BY <1>1, <1>2, CoverStep

\* A step of a thread that leaves the games alone.
LEMMA QuietStays ==
  ASSUME IInv, UNCHANGED <<games, created, result>>
  PROVE  Stays /\ Once' = Once /\ Present' = Present /\ Held' = Held /\ (TurnOfWinner => TurnOfWinner')
<1>1. Once' = Once /\ Present' = Present
  BY DEF Once, Present, Active
<1>2. \A id \in Pairing : created[id] \in Nat
  BY DEF IInv, TypeOK
<1>3. QED BY <1>1, <1>2 DEF Stays, Held, TurnOfWinner

\* The steps between which nothing is counted.
LEMMA QuietCount ==
  ASSUME CountInv, NEW p \in Player, NEW r, op' = [op EXCEPT ![p] = r],
         UNCHANGED <<games, created, result, stats>>, IInv',
         r.at \notin {"count_b", "remove"}, r.at # "idle" => r.id \in Pairing /\ created[r.id] >= 1,
         r.at \in {"seek", "copy", "count_a"} /\ r.game # 0 /\ r.id \in Held => Id(games[r.game]) = r.id,
         r.at = "copy" /\ r.id \in Held => Id(games[r.slot]) = r.id,
         r.at = "count_a" /\ r.id \in Held => r.winner = result[r.id]
  PROVE  CountInv'
<1>1. /\ Stays /\ Once' = Once /\ Present' = Present /\ Held' = Held /\ TurnOfWinner'
      /\ TypeOK /\ StatsCover
  BY QuietStays DEF CountInv, IInv
<1>2. op'[p] = r /\ \A q \in Player \ {p} : op'[q] = op[q]
  BY <1>1 DEF TypeOK
<1>3. \A id, role : Counted(id, role)' => Counted(id, role)
  BY <1>1, <1>2 DEF Counted, After
<1>4. StatsCover'
  <2>1. TypeOK'
    BY DEF IInv
  <2>2. QED BY <1>1, <1>3, <2>1, NothingCounted
<1>5. ASSUME NEW q \in Player PROVE Began(q)' /\ Pointed(q)'
  <2>1. CASE q = p
    BY <1>1, <1>2, <2>1 DEF Began, Pointed
  <2>2. CASE q # p
    BY <1>1, <1>2, <2>2, OtherThread DEF CountInv
  <2>3. QED BY <2>1, <2>2
<1>6. QED BY <1>1, <1>4, <1>5 DEF CountInv

\* A result is counted for the player of one role.
LEMMA CountOne ==
  ASSUME CountInv, NEW p \in Player, NEW role \in Role, NEW next \in {"count_b", "remove"},
         role = "a" => next = "count_b", role = "b" => next = "remove",
         Count(p, role, next), IInv'
  PROVE  CountInv'
<1> DEFINE id     == op[p].id
           game   == games[op[p].game]
           player == IF role = "a" THEN game.a ELSE game.b
<1>0. TypeOK /\ StatsCover /\ IInv /\ Began(p) /\ Pointed(p) /\ SeenOver(p)
  BY DEF CountInv, IInv
<1>1. /\ op[p].at = (IF role = "a" THEN "count_a" ELSE "count_b") /\ op[p].at \in {"count_a", "count_b"}
      /\ stats' = IF op[p].winner = role THEN [stats EXCEPT ![player].won = @ + 1]
                                         ELSE [stats EXCEPT ![player].lost = @ + 1]
      /\ UNCHANGED <<games, created, result>>
  BY DEF Count
<1>2. /\ op'[p].at = next /\ op'[p].id = id /\ op'[p].game = op[p].game /\ op'[p].winner = op[p].winner
      /\ \A q \in Player \ {p} : op'[q] = op[q]
  BY <1>0 DEF Count, TypeOK, Place
<1>3. Stays /\ Once' = Once /\ Present' = Present /\ Held' = Held /\ TurnOfWinner'
  BY <1>0, <1>1, QuietStays DEF CountInv
<1>4. ASSUME NEW i, NEW o \in Role, Counted(i, o)', ~(i = id /\ o = role) PROVE Counted(i, o)
  BY <1>1, <1>2, <1>3, <1>4 DEF Counted, After, Role
<1>5. ASSUME NEW q \in Player, NEW i, i \in WonBy(q)', i \notin WonBy(q)
      PROVE  i = id /\ id \in Once /\ ~Counted(id, role) /\ result[id] = role /\ q = PlayerOf(id, role)
  <2>1. PICK o \in Role : result[i] = o /\ PlayerOf(i, o) = q /\ Counted(i, o)'
    BY <1>1, <1>5 DEF WonBy
  <2>2. i \in Once /\ ~Counted(i, o)
    BY <1>3, <1>5, <2>1 DEF WonBy
  <2>3. QED BY <1>4, <2>1, <2>2
<1>6. ASSUME NEW q \in Player, NEW i, i \in LostBy(q)', i \notin LostBy(q)
      PROVE  i = id /\ id \in Once /\ ~Counted(id, role) /\ result[id] = Other(role) /\ q = PlayerOf(id, role)
  <2>1. PICK o \in Role : result[i] = Other(o) /\ PlayerOf(i, o) = q /\ Counted(i, o)'
    BY <1>1, <1>6 DEF LostBy
  <2>2. i \in Once /\ ~Counted(i, o)
    BY <1>3, <1>6, <2>1 DEF LostBy
  <2>3. QED BY <1>4, <2>1, <2>2
<1>7. ASSUME id \in Once, ~Counted(id, role)
      PROVE  player = PlayerOf(id, role) /\ op[p].winner = result[id]
  <2>1. id \in Present /\ id \in Held
    BY <1>7 DEF Counted, Held
  <2>2. op[p].game \in Slot /\ op[p].game # 0
    <3>1. op[p].game \in Slot
      BY <1>0, <1>1 DEF TypeOK
    <3>2. \A t \in Slot : t # 0
      BY GamesAssumption DEF Slot
    <3>3. QED BY <3>1, <3>2
  <2>3. Id(game) = id /\ op[p].winner = result[id]
    BY <1>0, <1>1, <2>1, <2>2 DEF Pointed
  <2>4. QED BY <2>3 DEF PlayerOf, Id
<1>8. /\ \A q \in Player : stats'[q].won >= stats[q].won /\ stats'[q].lost >= stats[q].lost
      /\ player \in Player /\ op[p].winner = role => stats'[player].won = stats[player].won + 1
      /\ player \in Player /\ op[p].winner # role => stats'[player].lost = stats[player].lost + 1
  <2> HIDE DEF player
  <2>1. \A q \in Player : stats[q] \in [won : Nat, lost : Nat] /\ stats[q].won \in Nat /\ stats[q].lost \in Nat
    BY <1>0 DEF TypeOK
  <2>2. stats \in [Player -> [won : Nat, lost : Nat]]
    BY <1>0 DEF TypeOK
  <2>3. CASE op[p].winner = role
    BY <1>1, <2>1, <2>2, <2>3
  <2>4. CASE op[p].winner # role
    BY <1>1, <2>1, <2>2, <2>4
  <2>5. QED BY <2>3, <2>4
<1> HIDE DEF id, game, player
<1>9. StatsCover'
  <2>1. Role = {"a", "b"} /\ Other(role) # role
    BY DEF Role, Other
  <2>2. ASSUME NEW q \in Player
        PROVE  \/ WonBy(q)' \subseteq WonBy(q) /\ stats'[q].won >= stats[q].won
               \/ \E i : WonBy(q)' \subseteq WonBy(q) \union {i} /\ stats'[q].won = stats[q].won + 1
    <3>1. CASE WonBy(q)' \subseteq WonBy(q)
      BY <1>8, <3>1
    <3>2. CASE ~(WonBy(q)' \subseteq WonBy(q))
      <4>1. q = player /\ op[p].winner = role
        BY <1>5, <1>7, <3>2
      <4>2. WonBy(q)' \subseteq WonBy(q) \union {id}
        BY <1>5
      <4>3. QED BY <1>8, <4>1, <4>2
    <3>3. QED BY <3>1, <3>2
  <2>3. ASSUME NEW q \in Player
        PROVE  \/ LostBy(q)' \subseteq LostBy(q) /\ stats'[q].lost >= stats[q].lost
               \/ \E i : LostBy(q)' \subseteq LostBy(q) \union {i} /\ stats'[q].lost = stats[q].lost + 1
    <3>1. CASE LostBy(q)' \subseteq LostBy(q)
      BY <1>8, <3>1
    <3>2. CASE ~(LostBy(q)' \subseteq LostBy(q))
      <4>1. q = player /\ op[p].winner # role
        BY <1>6, <1>7, <2>1, <3>2
      <4>2. LostBy(q)' \subseteq LostBy(q) \union {id}
        BY <1>6
      <4>3. QED BY <1>8, <4>1, <4>2
    <3>3. QED BY <3>1, <3>2
  <2>4. TypeOK'
    BY DEF IInv
  <2>5. QED BY <1>0, <2>2, <2>3, <2>4, CoverStep
<1>10. ASSUME NEW q \in Player PROVE Began(q)' /\ Pointed(q)'
  <2>1. CASE q = p
    <3>1. Began(p)'
      BY <1>0, <1>1, <1>2 DEF Began, id
    <3>2. Pointed(p)'
      BY <1>0, <1>1, <1>2, <1>3 DEF Pointed, id
    <3>3. QED BY <2>1, <3>1, <3>2
  <2>2. CASE q # p
    BY <1>0, <1>2, <1>3, <2>2, OtherThread DEF CountInv
  <2>3. QED BY <2>1, <2>2
<1>11. QED BY <1>3, <1>9, <1>10 DEF CountInv

\* Nothing is counted at first, and there is nothing to count.
LEMMA CountInit == Init => CountInv
<1> SUFFICES ASSUME Init PROVE CountInv
  OBVIOUS
<1>1. IInv
  BY PairsInit
<1>2. /\ \A s \in Slot : games[s].winner = "none"
      /\ \A id \in Pairing : result[id] = "none"
      /\ \A p \in Player : op[p].at = "idle" /\ stats[p].won = 0 /\ stats[p].lost = 0
  BY DEF Init, Idle
<1>3. \A p : WonBy(p) = {} /\ LostBy(p) = {}
  BY <1>2 DEF WonBy, LostBy, Once, Role, Other
<1>4. StatsCover
  BY <1>2, <1>3, FS_EmptySet DEF StatsCover
<1>5. TurnOfWinner /\ \A q \in Player : Began(q) /\ Pointed(q)
  BY <1>2 DEF TurnOfWinner, Began, Pointed
<1>6. QED BY <1>1, <1>4, <1>5 DEF CountInv

\* A game that is created has no result, and takes the slot of no game.
LEMMA CountCreate ==
  ASSUME CountInv, NEW pair \in Pairing, CreateGame(pair[1], pair[2]), IInv'
  PROVE  CountInv'
<1>0. IInv /\ TypeOK /\ StatsCover /\ TypeOK' /\ GameCountMatches
  BY DEF CountInv, IInv
<1>1. PICK s \in Slot \ Active :
        /\ games' = [games EXCEPT ![s] = [active |-> TRUE, a |-> pair[1], b |-> pair[2],
                                          turn |-> "a", winner |-> "none", moved |-> FALSE]]
        /\ Active' = Active \union {s}
        /\ Id(games'[s]) = pair /\ games'[s].winner = "none"
        /\ \A t \in Slot \ {s} : games'[t] = games[t]
        /\ created' = [created EXCEPT ![pair] = @ + 1]
        /\ result' = [result EXCEPT ![pair] = "none"]
        /\ UNCHANGED <<op, stats>>
  BY <1>0, CreateFacts
<1>2. \A id \in Pairing : created[id] \in Nat /\ created'[id] \in Nat
  BY <1>0 DEF TypeOK
<1>3. /\ created'[pair] = created[pair] + 1 /\ result'[pair] = "none"
      /\ \A id \in Pairing \ {pair} : created'[id] = created[id] /\ result'[id] = result[id]
  BY <1>0, <1>1 DEF TypeOK
<1>4. /\ Once' \subseteq Once /\ Once' \subseteq Pairing
      /\ \A id \in Pairing : created'[id] >= created[id]
      /\ pair \in Once' => created[pair] = 0
  BY <1>2, <1>3 DEF Once
<1>5. \A t \in Active : t \in Slot /\ t # s
  BY <1>1 DEF Active
<1>6. Present' = Present \union {pair}
  BY <1>1, <1>5 DEF Present
<1>7. ASSUME NEW id \in Once', created[id] >= 1
      PROVE  /\ id \in Present' => id \in Present
             /\ result'[id] = result[id]
             /\ \A t \in Slot : id \in Present' /\ Id(games[t]) = id => Id(games'[t]) = id
  <2>1. id # pair /\ id \in Once /\ id \in Pairing
    BY <1>2, <1>4, <1>7
  <2>2. id \in Present' => id \in Present
    BY <1>6, <2>1
  <2>3. id \in Present => Id(games[s]) # id
    BY <1>0, <1>5, <2>1 DEF IInv, SlotOfPair, Present
  <2>4. QED BY <1>1, <1>3, <2>1, <2>2, <2>3
<1>8. Stays
  BY <1>2, <1>4, <1>7 DEF Stays
<1>9. TurnOfWinner'
  BY <1>1 DEF CountInv, TurnOfWinner
<1>10. StatsCover'
  <2>1. ASSUME NEW id \in Once', NEW role \in Role, Counted(id, role)', result'[id] # "none"
        PROVE  result[id] = result'[id] /\ Counted(id, role)
    <3>1. id # pair /\ id \in Pairing
      BY <1>3, <1>4, <2>1
    <3>2. QED BY <1>1, <1>3, <1>6, <2>1, <3>1 DEF Counted
  <2>2. QED BY <1>0, <1>1, <1>4, <2>1, NothingCounted
<1>11. \A q \in Player : Began(q)' /\ Pointed(q)'
  BY <1>0, <1>1, <1>8, OtherThread DEF CountInv
<1>12. QED BY <1>9, <1>10, <1>11 DEF CountInv

\* A move does not change a result, and one it makes is not counted yet.
LEMMA CountMove ==
  ASSUME CountInv, NEW p \in Player, Move(p), IInv'
  PROVE  CountInv'
<1> DEFINE s == op[p].slot
<1>0. /\ IInv /\ TypeOK /\ StatsCover /\ TypeOK' /\ TurnOfWinner /\ Began(p)
      /\ s \in Slot /\ op[p] \in Place /\ op[p].at = "move"
  BY DEF Move, CountInv, IInv, TypeOK
<1>1. op' = [op EXCEPT ![p].at = "refind"] /\ UNCHANGED <<created, stats>>
  BY DEF Move
<1>2. /\ op'[p].at = "refind" /\ op'[p].id = op[p].id
      /\ \A q \in Player \ {p} : op'[q] = op[q]
  BY <1>0, <1>1 DEF TypeOK, Place
<1>3. /\ games \in [Slot -> Game]
      /\ result \in [Pairing -> Winner]
  BY <1>0 DEF TypeOK
<1>4. PICK role \in Role :
        /\ games[s].turn = role
        /\ \/ /\ games[s].winner = "none"
              /\ games' = [games EXCEPT ![s].turn = Other(role), ![s].moved = TRUE] /\ UNCHANGED result
           \/ /\ games' = [games EXCEPT ![s].winner = role]
              /\ result' = [result EXCEPT ![Id(games[s])] = role]
  BY DEF Move, RoleOf, Role
<1>5. \A t \in Slot : /\ Id(games'[t]) = Id(games[t]) /\ games'[t].active = games[t].active
                      /\ t # s => games'[t] = games[t]
                      /\ games[t].winner # "none" => games[t].turn = games[t].winner
  <2>1. CASE games' = [games EXCEPT ![s].turn = Other(role), ![s].moved = TRUE]
    BY <1>0, <1>3, <2>1 DEF Id, TurnOfWinner
  <2>2. CASE games' = [games EXCEPT ![s].winner = role]
    BY <1>0, <1>3, <2>2 DEF Id, TurnOfWinner
  <2>3. QED BY <1>4, <2>1, <2>2
<1>6. Once' = Once /\ Present' = Present /\ Once \subseteq Pairing
  <2>1. Active' = Active /\ \A t \in Active : t \in Slot
    BY <1>5 DEF Active
  <2>2. QED BY <1>1, <1>5, <2>1 DEF Once, Present
<1>7. TurnOfWinner'
  <2>1. CASE games[s].winner = "none" /\ games' = [games EXCEPT ![s].turn = Other(role), ![s].moved = TRUE]
    <3>1. games'[s].winner = "none"
      BY <1>0, <1>3, <2>1
    <3>2. QED BY <1>5, <3>1 DEF TurnOfWinner
  <2>2. CASE games' = [games EXCEPT ![s].winner = role]
    <3>1. games'[s] = [games[s] EXCEPT !.winner = role]
      BY <1>0, <1>3, <2>2
    <3>2. games'[s].winner = role /\ games'[s].turn = role
      <4>1. games[s] \in Game
        BY <1>0, <1>3
      <4>2. QED BY <1>4, <3>1, <4>1
    <3>3. QED BY <1>5, <3>2 DEF TurnOfWinner
  <2>3. QED BY <1>4, <2>1, <2>2
<1>8. ASSUME NEW id \in Once, result[id] # "none" PROVE result'[id] = result[id]
  <2> DEFINE there == Id(games[s])
  <2>1. /\ id \in Pairing
        /\ result'[id] = result[id] \/ (id = there /\ result'[id] = role)
    <3>1. result' = result \/ result' = [result EXCEPT ![there] = role]
      BY <1>4
    <3>2. id \in Pairing
      BY <1>6
    <3>3. result \in [Pairing -> Winner]
      BY <1>3
    <3> HIDE DEF there
    <3>4. CASE result' = result
      BY <3>2, <3>4
    <3>5. CASE result' = [result EXCEPT ![there] = role]
      BY <3>2, <3>3, <3>5
    <3>6. QED BY <3>1, <3>4, <3>5
  <2>2. CASE id = Id(games[s])
    <3>1. games[s].winner = result[id]
      BY <1>0, <2>2 DEF IInv, ResultOfPair
    <3>2. result[id] = role
      BY <1>0, <1>4, <1>5, <1>8, <3>1
    <3>3. QED BY <2>1, <3>2
  <2>3. QED BY <2>1, <2>2
<1>9. Stays
  <2>1. \A id \in Pairing : created[id] \in Nat /\ created'[id] = created[id]
    BY <1>0, <1>1 DEF TypeOK
  <2>2. QED BY <1>5, <1>6, <1>8, <2>1 DEF Stays
<1>10. StatsCover'
  <2>1. ASSUME NEW id \in Once', NEW o \in Role, Counted(id, o)', result'[id] # "none"
        PROVE  result[id] = result'[id] /\ Counted(id, o)
    <3>1. Counted(id, o)
      BY <1>2, <1>6, <2>1 DEF Counted, After
    <3>2. id \in Once /\ id \in Pairing /\ created[id] \in Nat
      BY <1>0, <1>6 DEF TypeOK
    <3>3. CASE id \in Present
      <4>1. PICK q \in Player : op[q].id = id /\ op[q].at \in After(o)
        BY <3>1, <3>3 DEF Counted
      <4>2. result[id] # "none"
        BY <1>0, <3>2, <4>1 DEF IInv, SeenOver, After
      <4>3. QED BY <1>8, <3>1, <3>2, <4>2
    <3>4. CASE id \notin Present
      <4>1. created'[id] >= 1 /\ created'[id] <= 1
        BY <2>1, <3>2 DEF IInv, ResultOfPair, Once
      <4>2. created[id] = 1
        BY <1>1, <3>2, <4>1
      <4>3. result[id] # "none"
        BY <1>0, <3>2, <3>4, <4>2 DEF IInv, RemovedIsWon
      <4>4. QED BY <1>8, <3>1, <3>2, <4>3
    <3>5. QED BY <3>3, <3>4
  <2>2. QED BY <1>0, <1>1, <1>6, <2>1, NothingCounted
<1>11. ASSUME NEW q \in Player PROVE Began(q)' /\ Pointed(q)'
  <2>1. CASE q = p
    BY <1>0, <1>1, <1>2, <2>1 DEF Began, Pointed
  <2>2. CASE q # p
    BY <1>0, <1>2, <1>9, <2>2, OtherThread DEF CountInv
  <2>3. QED BY <2>1, <2>2
<1>12. QED BY <1>7, <1>10, <1>11 DEF CountInv

\* The thread that removes a game has counted its result for both players.
LEMMA CountRemove ==
  ASSUME CountInv, NEW p \in Player, Remove(p), IInv'
  PROVE  CountInv'
<1>0. /\ IInv /\ TypeOK /\ GameCountMatches /\ StatsCover /\ TypeOK' /\ TurnOfWinner /\ Began(p)
  BY DEF CountInv, IInv
<1>1. /\ Active' = Active \ Lookup(op[p].id)
      /\ \A s \in Slot :
           /\ games'[s] = [games[s] EXCEPT !.active = games[s].active /\ s \notin Lookup(op[p].id)]
           /\ Id(games'[s]) = Id(games[s]) /\ games'[s].winner = games[s].winner
  BY <1>0, RemoveFacts
<1>2. /\ op' = [op EXCEPT ![p].at = "reply"] /\ op[p].at = "remove"
      /\ UNCHANGED <<created, result, stats>>
  BY DEF Remove
<1>3. /\ op'[p].at = "reply" /\ op'[p].id = op[p].id
      /\ \A q \in Player \ {p} : op'[q] = op[q]
  BY <1>2, <1>0 DEF TypeOK, Place
<1>4. Once' = Once /\ \A id \in Pairing : created[id] \in Nat /\ created'[id] = created[id]
  BY <1>0, <1>2 DEF Once, TypeOK
<1>5. Present' \subseteq Present /\ \A id \in Present : id \in Present' \/ id = op[p].id
  <2>1. \A s \in Lookup(op[p].id) : Id(games[s]) = op[p].id
    BY LookupFacts
  <2>2. \A s \in Active : s \in Slot
    BY DEF Active
  <2>3. QED BY <1>1, <2>1, <2>2 DEF Present
<1>6. TurnOfWinner'
  <2>1. \A s \in Slot : games'[s].turn = games[s].turn
    <3>1. \A s \in Slot : games[s] \in Game
      BY <1>0 DEF TypeOK
    <3>2. QED BY <1>1, <3>1 DEF Game
  <2>2. QED BY <1>0, <1>1, <2>1 DEF TurnOfWinner
<1>7. Stays
  <2>1. \A id \in Pairing : created'[id] >= created[id]
    BY <1>4
  <2>2. QED BY <1>1, <1>2, <1>4, <1>5, <2>1 DEF Stays
<1>8. StatsCover'
  <2>1. ASSUME NEW id \in Once', NEW role \in Role, Counted(id, role)' PROVE Counted(id, role)
    <3>1. CASE id = op[p].id
      BY <1>2, <3>1 DEF Counted, After, Role
    <3>2. CASE id # op[p].id
      BY <1>3, <1>5, <2>1, <3>2 DEF Counted, After
    <3>3. QED BY <3>1, <3>2
  <2>2. QED BY <1>0, <1>2, <1>4, <2>1, NothingCounted
<1>9. ASSUME NEW q \in Player PROVE Began(q)' /\ Pointed(q)'
  <2>1. CASE q = p
    BY <1>0, <1>2, <1>3, <1>4, <2>1 DEF Began, Pointed
  <2>2. CASE q # p
    BY <1>0, <1>3, <1>7, <2>2, OtherThread DEF CountInv
  <2>3. QED BY <2>1, <2>2
<1>10. QED BY <1>6, <1>8, <1>9 DEF CountInv

\* Every step keeps what the count rests on.
LEMMA CountPreserved == CountInv /\ [Next]_vars => CountInv'
<1> SUFFICES ASSUME CountInv, [Next]_vars PROVE CountInv'
  OBVIOUS
<1>0. IInv' /\ IInv /\ TypeOK /\ \A p \in Player : Began(p) /\ Pointed(p) /\ op[p] \in Place
  BY PairsPreserved DEF CountInv, IInv, TypeOK
<1>1. /\ Idle.at = "idle"
      /\ \A p \in Player, step \in Step :
           /\ [op[p] EXCEPT !.at = step].at = step /\ [op[p] EXCEPT !.at = step].id = op[p].id
           /\ [op[p] EXCEPT !.at = step].game = op[p].game
  BY <1>0, PlaceAt DEF Idle
<1>2. ASSUME NEW p \in Player, NEW id \in Pairing, Play(p, id) PROVE CountInv'
  <2>1. PICK s \in Lookup(id) :
          op' = [op EXCEPT ![p] = [Idle EXCEPT !.at = "move", !.id = id, !.slot = s]]
    BY <1>2 DEF Play
  <2> DEFINE r == [Idle EXCEPT !.at = "move", !.id = id, !.slot = s]
  <2>2. r.at = "move" /\ r.id = id
    BY DEF Idle
  <2>3. created[id] >= 1
    <3>1. s \in Slot /\ Id(games[s]) = id
      BY LookupFacts
    <3>2. QED BY <1>0, <3>1 DEF IInv, SlotOfPair
  <2> HIDE DEF r
  <2>4. op' = [op EXCEPT ![p] = r] /\ UNCHANGED <<games, created, result, stats>>
    BY <1>2, <2>1 DEF Play, r
  <2>5. QED BY <1>0, <2>2, <2>3, <2>4, QuietCount
<1>3. ASSUME NEW p \in Player, Refused(p) \/ Notify(p) PROVE CountInv'
  <2>1. op' = [op EXCEPT ![p] = Idle] /\ UNCHANGED <<games, created, result, stats>>
    BY <1>3 DEF Refused, Notify, Done
  <2>2. QED BY <1>0, <1>1, <2>1, QuietCount
<1>4. ASSUME NEW p \in Player, Refind(p) PROVE CountInv'
  <2> DEFINE s == Pointer(Lookup(op[p].id))
             r == [op[p] EXCEPT !.at = "seek", !.game = s]
  <2>1. r.at = "seek" /\ r.id = op[p].id /\ r.game = s
    <3> HIDE DEF s
    <3>1. QED BY <1>0 DEF Place
  <2>2. /\ op' = [op EXCEPT ![p] = r] /\ UNCHANGED <<games, created, result, stats>>
        /\ op[p].at = "refind"
    BY <1>4 DEF Refind
  <2>3. s # 0 => Id(games[s]) = op[p].id
    BY LookupFacts
  <2>4. op[p].id \in Pairing /\ created[op[p].id] >= 1
    BY <1>0, <2>2 DEF Began
  <2>5. r.game # 0 => Id(games[r.game]) = r.id
    BY <2>1, <2>3
  <2> HIDE DEF r, s
  <2>6. QED BY <1>0, <2>1, <2>2, <2>4, <2>5, QuietCount
<1>5. ASSUME NEW p \in Player, Seek(p) PROVE CountInv'
  <2> DEFINE s    == Pointer(Lookup(op[p].id))
             step == IF s = 0 THEN "reply" ELSE "copy"
             r    == [op[p] EXCEPT !.at = step, !.slot = s]
  <2>1. r.at = step /\ r.id = op[p].id /\ r.game = op[p].game /\ r.slot = s
    <3> HIDE DEF s, step
    <3>1. QED BY <1>0 DEF Place
  <2>2. /\ op' = [op EXCEPT ![p] = r] /\ UNCHANGED <<games, created, result, stats>>
        /\ op[p].at = "seek"
    BY <1>5 DEF Seek
  <2>3. s # 0 => Id(games[s]) = op[p].id
    BY LookupFacts
  <2>4. op[p].id \in Pairing /\ created[op[p].id] >= 1
    BY <1>0, <2>2 DEF Began
  <2>5. /\ r.at \in {"reply", "copy"}
        /\ r.at = "copy" => Id(games[r.slot]) = r.id
    BY <2>1, <2>3
  <2>6. r.id \in Held /\ r.game # 0 => Id(games[r.game]) = r.id
    BY <1>0, <2>1, <2>2 DEF Pointed
  <2> HIDE DEF r, s, step
  <2>7. QED BY <1>0, <2>1, <2>2, <2>4, <2>5, <2>6, QuietCount
<1>6. ASSUME NEW p \in Player, Copy(p) PROVE CountInv'
  <2> DEFINE winner == games[op[p].slot].winner
             step   == IF winner # "none" /\ op[p].game # 0 THEN "count_a" ELSE "reply"
             r      == [op[p] EXCEPT !.at = step, !.winner = winner]
  <2>1. r.at = step /\ r.id = op[p].id /\ r.game = op[p].game /\ r.winner = winner
    <3> HIDE DEF winner, step
    <3>1. QED BY <1>0 DEF Place
  <2>2. /\ op' = [op EXCEPT ![p] = r] /\ UNCHANGED <<games, created, result, stats>>
        /\ op[p].at = "copy" /\ op[p].slot \in Slot
    BY <1>0, <1>6 DEF Copy, TypeOK
  <2>3. op[p].id \in Pairing /\ created[op[p].id] >= 1
    BY <1>0, <2>2 DEF Began
  <2>4. r.at \in {"reply", "count_a"}
    BY <2>1
  <2>5. r.id \in Held => /\ r.game # 0 => Id(games[r.game]) = r.id
                         /\ r.winner = result[r.id]
    <3>1. SUFFICES ASSUME op[p].id \in Held
                   PROVE  /\ op[p].game # 0 => Id(games[op[p].game]) = op[p].id
                          /\ winner = result[op[p].id]
      BY <2>1
    <3>2. Id(games[op[p].slot]) = op[p].id /\ op[p].id \in Once
      BY <1>0, <2>2, <3>1 DEF Pointed, Held
    <3>3. winner = result[op[p].id]
      BY <1>0, <2>2, <3>2 DEF IInv, ResultOfPair
    <3>4. QED BY <1>0, <2>2, <3>1, <3>3 DEF Pointed
  <2> HIDE DEF r, winner, step
  <2>6. QED BY <1>0, <2>1, <2>2, <2>3, <2>4, <2>5, QuietCount
<1>7. ASSUME NEW p \in Player, Reply(p) PROVE CountInv'
  <2> DEFINE r == [op[p] EXCEPT !.at = "notify"]
  <2>1. r.at = "notify" /\ r.id = op[p].id
    BY <1>1, Steps
  <2>2. /\ op' = [op EXCEPT ![p] = r] /\ UNCHANGED <<games, created, result, stats>>
        /\ op[p].at = "reply"
    BY <1>7 DEF Reply
  <2>3. op[p].id \in Pairing /\ created[op[p].id] >= 1
    BY <1>0, <2>2 DEF Began
  <2> HIDE DEF r
  <2>4. QED BY <1>0, <2>1, <2>2, <2>3, QuietCount
<1>8. ASSUME NEW p \in Player, Count(p, "a", "count_b") \/ Count(p, "b", "remove")
      PROVE  CountInv'
  BY <1>0, <1>8, CountOne DEF Role
<1>9. CASE UNCHANGED vars
  <2>1. Stays /\ Once' = Once /\ Present' = Present /\ TurnOfWinner' /\ TypeOK' /\ StatsCover
    BY <1>0, <1>9, QuietStays DEF CountInv, IInv, vars
  <2>2. StatsCover'
    BY <1>0, <1>9, <2>1, NothingCounted DEF vars, Counted
  <2>3. \A q \in Player : Began(q)' /\ Pointed(q)'
    BY <1>0, <1>9, <2>1, OtherThread DEF vars
  <2>4. QED BY <1>0, <2>1, <2>2, <2>3 DEF CountInv
<1>10. QED
  BY <1>0, <1>2, <1>3, <1>4, <1>5, <1>6, <1>7, <1>8, <1>9,
     CountCreate, CountMove, CountRemove DEF Next, Handler

\* The invariant ResultsAreCounted of Games.tla: as long as no pair plays again, the
\* result of a game that has left the table is in the statistics of both players,
\* whichever thread of the two counted it, through a pointer it kept from before.
THEOREM ResultsAreInStats == Spec => []ResultsAreCounted
<1>1. Init /\ [][Next]_vars => []CountInv
  BY CountInit, CountPreserved, PTL
<1>2. CountInv => ResultsAreCounted
  <2> SUFFICES ASSUME CountInv, Once = Pairing, NEW p \in Player
               PROVE  /\ stats[p].won  >= Wins(p, Pairing \ Present)
                      /\ stats[p].lost >= Losses(p, Pairing \ Present)
    BY DEF ResultsAreCounted
  <2> DEFINE W == {id \in Pairing \ Present : result[id] # "none" /\
                     p = (IF result[id] = "a" THEN id[1] ELSE id[2])}
             L == {id \in Pairing \ Present : result[id] # "none" /\
                     p = (IF result[id] = "a" THEN id[2] ELSE id[1])}
  <2>1. \A id \in Pairing : result[id] \in {"none", "a", "b"}
    BY DEF CountInv, IInv, TypeOK, Winner
  <2>2. W \subseteq WonBy(p)
    BY <2>1 DEF WonBy, Counted, PlayerOf, Role
  <2>3. L \subseteq LostBy(p)
    BY <2>1 DEF LostBy, Counted, PlayerOf, Role, Other
  <2>4. /\ WonBy(p) \in SUBSET Pairing /\ LostBy(p) \in SUBSET Pairing
        /\ stats[p].won \in Nat /\ stats[p].lost \in Nat
        /\ stats[p].won >= Cardinality(WonBy(p)) /\ stats[p].lost >= Cardinality(LostBy(p))
    BY CountsArePairs DEF CountInv, IInv, TypeOK, StatsCover
  <2>5. Wins(p, Pairing \ Present) = Cardinality(W) /\ Losses(p, Pairing \ Present) = Cardinality(L)
    BY DEF Wins, Losses
  <2> HIDE DEF W, L
  <2>6. stats[p].won >= Cardinality(W)
    <3>1. /\ Cardinality(W) \in Nat /\ Cardinality(WonBy(p)) \in Nat
          /\ Cardinality(W) <= Cardinality(WonBy(p))
      BY <2>2, <2>4, PairsFinite
    <3>2. QED BY <2>4, <3>1
  <2>7. stats[p].lost >= Cardinality(L)
    <3>1. /\ Cardinality(L) \in Nat /\ Cardinality(LostBy(p)) \in Nat
          /\ Cardinality(L) <= Cardinality(LostBy(p))
      BY <2>3, <2>4, PairsFinite
    <3>2. QED BY <2>4, <3>1
  <2>8. QED BY <2>5, <2>6, <2>7
<1>3. QED BY <1>1, <1>2, PTL DEF Spec

-----------------------------------------------------------------------------
(* A game that is won is removed.                                           *)

\* The first move of a game is that of player_a, and does not win.
Unmoved == \A s \in Slot : ~games[s].moved => games[s].turn = "a" /\ games[s].winner = "none"

\* A thread that found a slot, which has another game by the time it makes its move,
\* is not in that game, or it is to make the first move of it: player_b has accepted
\* the game with its own thread, and player_a has not moved since.
Late(p) ==
  LET game == games[op[p].slot]
  IN  op[p].at = "move" /\ op[p].id # Id(game) =>
        p # game.b /\ (p = game.a => ~game.moved)

EndInv == CountInv /\ Unmoved /\ WonIsAttended /\ \A p \in Player : Late(p)

\* The game of a pair that plays once is found while it is in the table.
LEMMA HeldIsFound ==
  ASSUME TypeOK, SlotOfPair, NEW id \in Held
  PROVE  /\ Pointer(Lookup(id)) # 0
         /\ \A s \in Active : Id(games[s]) = id => s \in Lookup(id)
<1>1. PICK s \in Active : Id(games[s]) = id
  BY DEF Held, Present
<1>2. \A t \in Active : t \in Slot /\ t \in Int
  BY GamesAssumption DEF Active, Slot
<1>3. \A t \in Active : Id(games[t]) = id => t = s
  BY <1>1, <1>2 DEF SlotOfPair, Held
<1>4. s <= s
  BY <1>1, <1>2
<1>5. s \in Lookup(id)
  BY <1>1, <1>3, <1>4 DEF Lookup
<1>6. Pointer(Lookup(id)) \in Lookup(id) /\ 0 \notin Lookup(id)
  <2>1. \A t \in Lookup(id) : t \in Slot
    BY LookupFacts
  <2>2. QED BY <1>5, <2>1, GamesAssumption DEF Pointer, Slot
<1>7. QED BY <1>1, <1>3, <1>5, <1>6

\* Nothing is won, and no thread is under way, when the server starts.
LEMMA EndInit == Init => EndInv
<1> SUFFICES ASSUME Init PROVE EndInv
  OBVIOUS
<1>1. CountInv
  BY CountInit
<1>2. Unmoved
  BY DEF Init, Unmoved
<1>3. WonIsAttended
  BY DEF Init, WonIsAttended, Held, Once
<1>4. \A p \in Player : Late(p)
  BY DEF Init, Idle, Late
<1>5. QED BY <1>1, <1>2, <1>3, <1>4 DEF EndInv

\* A new game may take the slot of one a thread has found: not of the thread of its
\* player_b, which is at the creation.
LEMMA EndCreate ==
  ASSUME EndInv, NEW pair \in Pairing, CreateGame(pair[1], pair[2]), CountInv'
  PROVE  EndInv'
<1>0. TypeOK /\ GameCountMatches
  BY DEF EndInv, CountInv, IInv
<1>1. PICK s \in Slot \ Active :
        /\ games' = [games EXCEPT ![s] = [active |-> TRUE, a |-> pair[1], b |-> pair[2],
                                          turn |-> "a", winner |-> "none", moved |-> FALSE]]
        /\ Active' = Active \union {s}
        /\ Id(games'[s]) = pair
        /\ \A t \in Slot \ {s} : games'[t] = games[t]
        /\ created' = [created EXCEPT ![pair] = @ + 1]
        /\ result' = [result EXCEPT ![pair] = "none"]
        /\ UNCHANGED <<op, stats>>
  BY <1>0, CreateFacts
<1>2. games'[s] = [active |-> TRUE, a |-> pair[1], b |-> pair[2],
                   turn |-> "a", winner |-> "none", moved |-> FALSE]
  BY <1>0, <1>1 DEF TypeOK
<1>3. op[pair[2]].at = "idle"
  BY DEF CreateGame
<1>4. Unmoved'
  BY <1>1, <1>2 DEF EndInv, Unmoved
<1>5. ASSUME NEW q \in Player PROVE Late(q)'
  <2>1. CASE op[q].slot = s
    <3>1. op[q].at = "move" => q # pair[2]
      BY <1>3
    <3>2. games'[s].b = pair[2] /\ ~games'[s].moved
      BY <1>2
    <3>3. QED BY <1>1, <2>1, <3>1, <3>2 DEF Late
  <2>2. CASE op[q].slot # s
    <3>1. op[q].at = "move" => games'[op[q].slot] = games[op[q].slot]
      BY <1>0, <1>1, <2>2 DEF TypeOK
    <3>2. QED BY <1>1, <3>1 DEF Late, EndInv
  <2>3. QED BY <2>1, <2>2
<1>6. WonIsAttended'
  <2>1. SUFFICES ASSUME NEW id \in Held', result'[id] # "none"
                 PROVE  \E q \in Player : Attends(q, id)
    BY <1>1 DEF WonIsAttended, Attends, Held
  <2>2. id \in Pairing /\ created \in [Pairing -> Nat] /\ result \in [Pairing -> Winner]
    BY <1>0, <2>1 DEF Held, Once, TypeOK
  <2>3. id # pair
    BY <1>1, <2>1, <2>2
  <2>4. created'[id] = created[id] /\ result'[id] = result[id]
    BY <1>1, <2>2, <2>3
  <2>5. id \in Held
    <3>1. id \in Once
      BY <2>1, <2>4 DEF Held, Once
    <3>2. PICK t \in Active' : id = Id(games'[t])
      BY <2>1 DEF Held, Present
    <3>3. t # s
      BY <1>1, <2>3, <3>2
    <3>4. t \in Active /\ games'[t] = games[t]
      BY <1>1, <3>2, <3>3 DEF Active
    <3>5. QED BY <3>1, <3>2, <3>4 DEF Held, Present
  <2>6. QED BY <2>1, <2>4, <2>5 DEF EndInv, WonIsAttended, Held
<1>7. QED BY <1>4, <1>5, <1>6 DEF EndInv

\* A move that wins is one of the game its thread was asked for.
LEMMA EndMove ==
  ASSUME EndInv, NEW p \in Player, Move(p), CountInv'
  PROVE  EndInv'
<1> DEFINE s == op[p].slot
<1>0. TypeOK /\ s \in Slot /\ op[p].at = "move" /\ Late(p) /\ Unmoved
  BY DEF Move, EndInv, CountInv, IInv, TypeOK
<1>1. op' = [op EXCEPT ![p].at = "refind"] /\ UNCHANGED created
  BY DEF Move
<1>2. /\ op'[p].at = "refind" /\ op'[p].id = op[p].id
      /\ \A q \in Player \ {p} : op'[q] = op[q]
  BY <1>0, <1>1 DEF TypeOK, Place
<1>3. games \in [Slot -> Game] /\ result \in [Pairing -> Winner]
  BY <1>0 DEF TypeOK
<1>4. PICK role \in RoleOf(p, games[s]) :
        /\ games[s].turn = role
        /\ \/ /\ games' = [games EXCEPT ![s].turn = Other(role), ![s].moved = TRUE]
              /\ UNCHANGED result
           \/ /\ games[s].moved
              /\ games' = [games EXCEPT ![s].winner = role]
              /\ result' = [result EXCEPT ![Id(games[s])] = role]
  BY DEF Move
<1>5. /\ games[s].a = p \/ games[s].b = p
      /\ role = "a" => games[s].a = p
  BY <1>4 DEF RoleOf
<1>6. /\ \A t \in Slot : /\ Id(games'[t]) = Id(games[t]) /\ games'[t].active = games[t].active
                         /\ games'[t].a = games[t].a /\ games'[t].b = games[t].b
                         /\ t # s => games'[t] = games[t]
      /\ games'[s].moved
      /\ games'[s].moved = games[s].moved \/ UNCHANGED result
  <2>1. CASE games' = [games EXCEPT ![s].turn = Other(role), ![s].moved = TRUE] /\ UNCHANGED result
    BY <1>0, <1>3, <2>1 DEF Id, Game
  <2>2. CASE games[s].moved /\ games' = [games EXCEPT ![s].winner = role]
    BY <1>0, <1>3, <2>2 DEF Id, Game
  <2>3. QED BY <1>4, <2>1, <2>2
<1>7. Unmoved'
  BY <1>0, <1>6 DEF Unmoved
<1>8. ASSUME NEW q \in Player PROVE Late(q)'
  <2>1. CASE q = p
    BY <1>2, <2>1 DEF Late
  <2>2. CASE q # p /\ op[q].at = "move"
    <3>1. op'[q] = op[q] /\ op[q].slot \in Slot /\ Late(q)
      BY <1>0, <1>2, <2>2 DEF TypeOK, EndInv
    <3>2. CASE op[q].slot # s
      BY <1>6, <3>1, <3>2 DEF Late
    <3>3. CASE op[q].slot = s
      <4>1. op[q].id # Id(games[s]) => q # games[s].b /\ (q = games[s].a => ~games[s].moved)
        BY <2>2, <3>1, <3>3 DEF Late
      <4>2. q = games[s].a => games[s].moved
        BY <1>0, <1>4, <1>5, <2>2 DEF Unmoved
      <4>3. QED BY <1>0, <1>6, <3>1, <3>3, <4>1, <4>2 DEF Late
    <3>4. QED BY <3>2, <3>3
  <2>3. CASE q # p /\ op[q].at # "move"
    BY <1>2, <2>3 DEF Late
  <2>4. QED BY <2>1, <2>2, <2>3
<1>9. WonIsAttended'
  <2>1. SUFFICES ASSUME NEW id \in Held', result'[id] # "none"
                 PROVE  \E q \in Player : Attends(q, id)'
    BY DEF WonIsAttended, Held
  <2>2. id \in Held /\ id \in Pairing
    <3>1. Active' = Active /\ \A t \in Active : t \in Slot
      BY <1>6 DEF Active
    <3>2. QED BY <1>1, <1>6, <2>1, <3>1 DEF Held, Once, Present
  <2>3. CASE result[id] # "none"
    <3>1. PICK q \in Player : Attends(q, id)
      BY <2>2, <2>3 DEF EndInv, WonIsAttended, Held
    <3>2. q # p
      BY <1>0, <3>1 DEF Attends
    <3>3. op'[q] = op[q]
      BY <1>2, <3>2
    <3>4. QED BY <3>1, <3>3 DEF Attends
  <2>4. CASE result[id] = "none"
    <3>1. result' # result
      BY <2>1, <2>4
    <3>2. games[s].moved /\ result' = [result EXCEPT ![Id(games[s])] = role]
      BY <1>4, <3>1
    <3>3. id = Id(games[s])
      BY <1>3, <2>1, <2>2, <2>4, <3>2
    <3>4. op[p].id = id
      BY <1>0, <1>5, <3>2, <3>3 DEF Late
    <3>5. QED BY <1>2, <3>4 DEF Attends
  <2>5. QED BY <2>3, <2>4
<1>10. QED BY <1>7, <1>8, <1>9 DEF EndInv

\* A removal ends what was to be attended.
LEMMA EndRemove ==
  ASSUME EndInv, NEW p \in Player, Remove(p), CountInv'
  PROVE  EndInv'
<1>0. TypeOK /\ GameCountMatches /\ SlotOfPair
  BY DEF EndInv, CountInv, IInv
<1>1. /\ Active' = Active \ Lookup(op[p].id)
      /\ \A s \in Slot :
           /\ games'[s] = [games[s] EXCEPT !.active = games[s].active /\ s \notin Lookup(op[p].id)]
           /\ Id(games'[s]) = Id(games[s])
  BY <1>0, RemoveFacts
<1>2. /\ op' = [op EXCEPT ![p].at = "reply"] /\ UNCHANGED <<created, result>>
  BY DEF Remove
<1>3. /\ op'[p].at = "reply"
      /\ \A q \in Player \ {p} : op'[q] = op[q]
  BY <1>0, <1>2 DEF TypeOK, Place
<1>4. \A s \in Slot : /\ games'[s].a = games[s].a /\ games'[s].b = games[s].b
                      /\ games'[s].turn = games[s].turn /\ games'[s].winner = games[s].winner
                      /\ games'[s].moved = games[s].moved
  <2>1. \A s \in Slot : games[s] \in Game
    BY <1>0 DEF TypeOK
  <2>2. QED BY <1>1, <2>1 DEF Game
<1>5. Unmoved'
  BY <1>4 DEF EndInv, Unmoved
<1>6. ASSUME NEW q \in Player PROVE Late(q)'
  <2>1. CASE q = p
    BY <1>3, <2>1 DEF Late
  <2>2. CASE q # p
    <3>1. op'[q] = op[q] /\ Late(q) /\ (op[q].at = "move" => op[q].slot \in Slot)
      BY <1>0, <1>3, <2>2 DEF EndInv, TypeOK
    <3>2. QED BY <1>1, <1>4, <3>1 DEF Late
  <2>3. QED BY <2>1, <2>2
<1>7. WonIsAttended'
  <2>1. SUFFICES ASSUME NEW id \in Held', result'[id] # "none"
                 PROVE  \E q \in Player : Attends(q, id)'
    BY DEF WonIsAttended, Held
  <2>2. PICK s \in Active' : id = Id(games'[s])
    BY <2>1 DEF Held, Present
  <2>3. s \in Active /\ s \notin Lookup(op[p].id) /\ id = Id(games[s])
    BY <1>1, <2>2 DEF Active
  <2>4. id \in Held
    BY <1>2, <2>1, <2>3 DEF Held, Present, Once
  <2>5. id # op[p].id
    BY <1>0, <2>3, <2>4, HeldIsFound
  <2>6. PICK q \in Player : Attends(q, id)
    BY <1>2, <2>1, <2>4 DEF EndInv, WonIsAttended, Held
  <2>7. q # p
    BY <2>5, <2>6 DEF Attends
  <2>8. op'[q] = op[q]
    BY <1>3, <2>7
  <2>9. QED BY <2>6, <2>8 DEF Attends
<1>8. QED BY <1>5, <1>6, <1>7 DEF EndInv

\* A step of a thread that leaves the games alone, and goes on to remove what it was
\* to remove.
LEMMA EndQuiet ==
  ASSUME EndInv, NEW p \in Player, NEW r, op' = [op EXCEPT ![p] = r],
         UNCHANGED <<games, created, result>>, CountInv',
         r.at = "move" => r.id = Id(games[r.slot]),
         \A id \in Held : result[id] # "none" /\ Attends(p, id) =>
           /\ r.id = id
           /\ r.at \in {"count_a", "count_b", "remove"} \/ (r.at \in {"seek", "copy"} /\ r.game # 0)
  PROVE  EndInv'
<1>1. TypeOK /\ Held' = Held
  BY QuietStays DEF EndInv, CountInv, IInv
<1>2. op'[p] = r /\ \A q \in Player \ {p} : op'[q] = op[q]
  BY <1>1 DEF TypeOK
<1>3. Unmoved'
  BY DEF EndInv, Unmoved
<1>4. ASSUME NEW q \in Player PROVE Late(q)'
  BY <1>2 DEF EndInv, Late
<1>5. WonIsAttended'
  <2>1. SUFFICES ASSUME NEW id \in Held, result[id] # "none"
                 PROVE  \E q \in Player : Attends(q, id)'
    BY <1>1 DEF WonIsAttended, Held
  <2>2. PICK q \in Player : Attends(q, id)
    BY <2>1 DEF EndInv, WonIsAttended, Held
  <2>3. Attends(q, id)'
    <3>1. CASE q = p
      BY <1>2, <2>1, <2>2, <3>1 DEF Attends
    <3>2. CASE q # p
      BY <1>2, <2>2, <3>2 DEF Attends
    <3>3. QED BY <3>1, <3>2
  <2>4. QED BY <2>3
<1>6. QED BY <1>3, <1>4, <1>5 DEF EndInv

\* Every step keeps the won games attended.
LEMMA EndPreserved == EndInv /\ [Next]_vars => EndInv'
<1> SUFFICES ASSUME EndInv, [Next]_vars PROVE EndInv'
  OBVIOUS
<1>0. /\ CountInv' /\ CountInv /\ IInv /\ TypeOK /\ SlotOfPair /\ Idle.at = "idle"
      /\ \A p \in Player : op[p] \in Place
      /\ \A id \in Held : id \in Once
  BY CountPreserved DEF EndInv, CountInv, IInv, TypeOK, Idle, Held
<1>1. ASSUME NEW p \in Player, NEW id \in Pairing, Play(p, id) PROVE EndInv'
  <2>1. PICK s \in Lookup(id) :
          op' = [op EXCEPT ![p] = [Idle EXCEPT !.at = "move", !.id = id, !.slot = s]]
    BY <1>1 DEF Play
  <2> DEFINE r == [Idle EXCEPT !.at = "move", !.id = id, !.slot = s]
  <2>2. r.id = id /\ r.slot = s
    BY DEF Idle
  <2>3. Id(games[s]) = id
    BY LookupFacts
  <2>4. \A i : ~Attends(p, i)
    BY <1>1 DEF Play, Attends
  <2> HIDE DEF r
  <2>5. op' = [op EXCEPT ![p] = r] /\ UNCHANGED <<games, created, result>>
    BY <1>1, <2>1 DEF Play, r
  <2>6. QED BY <1>0, <2>2, <2>3, <2>4, <2>5, EndQuiet
<1>2. ASSUME NEW p \in Player, Refused(p) \/ Notify(p) PROVE EndInv'
  <2>1. op' = [op EXCEPT ![p] = Idle] /\ UNCHANGED <<games, created, result>>
    BY <1>2 DEF Refused, Notify, Done
  <2>2. \A i : ~Attends(p, i)
    BY <1>2 DEF Refused, Notify, Attends
  <2>3. QED BY <1>0, <2>1, <2>2, EndQuiet
<1>3. ASSUME NEW p \in Player, Refind(p) PROVE EndInv'
  <2> DEFINE s == Pointer(Lookup(op[p].id))
             r == [op[p] EXCEPT !.at = "seek", !.game = s]
  <2>1. r.at = "seek" /\ r.id = op[p].id /\ r.game = s
    <3> HIDE DEF s
    <3>1. QED BY <1>0 DEF Place
  <2>2. op' = [op EXCEPT ![p] = r] /\ UNCHANGED <<games, created, result>>
    BY <1>3 DEF Refind
  <2>3. ASSUME NEW id \in Held, Attends(p, id) PROVE r.id = id /\ r.game # 0
    <3>1. op[p].id = id
      BY <2>3 DEF Attends
    <3>2. QED BY <1>0, <2>1, <3>1, HeldIsFound
  <2> HIDE DEF r, s
  <2>4. QED BY <1>0, <2>1, <2>2, <2>3, EndQuiet
<1>4. ASSUME NEW p \in Player, Seek(p) PROVE EndInv'
  <2> DEFINE s    == Pointer(Lookup(op[p].id))
             step == IF s = 0 THEN "reply" ELSE "copy"
             r    == [op[p] EXCEPT !.at = step, !.slot = s]
  <2>1. r.at = step /\ r.id = op[p].id /\ r.game = op[p].game
    <3> HIDE DEF s, step
    <3>1. QED BY <1>0 DEF Place
  <2>2. op' = [op EXCEPT ![p] = r] /\ UNCHANGED <<games, created, result>> /\ op[p].at = "seek"
    BY <1>4 DEF Seek
  <2>3. ASSUME NEW id \in Held, Attends(p, id) PROVE r.id = id /\ r.at = "copy" /\ r.game # 0
    <3>1. op[p].id = id /\ op[p].game # 0
      BY <2>2, <2>3 DEF Attends
    <3>2. s # 0
      BY <1>0, <3>1, HeldIsFound
    <3>3. QED BY <2>1, <3>1, <3>2
  <2>4. r.at # "move"
    BY <2>1
  <2> HIDE DEF r, s, step
  <2>5. QED BY <1>0, <2>2, <2>3, <2>4, EndQuiet
<1>5. ASSUME NEW p \in Player, Copy(p) PROVE EndInv'
  <2> DEFINE winner == games[op[p].slot].winner
             step   == IF winner # "none" /\ op[p].game # 0 THEN "count_a" ELSE "reply"
             r      == [op[p] EXCEPT !.at = step, !.winner = winner]
  <2>1. r.at = step /\ r.id = op[p].id
    <3> HIDE DEF winner, step
    <3>1. QED BY <1>0 DEF Place
  <2>2. /\ op' = [op EXCEPT ![p] = r] /\ UNCHANGED <<games, created, result>>
        /\ op[p].at = "copy" /\ op[p].slot \in Slot
    BY <1>0, <1>5 DEF Copy, TypeOK
  <2>3. ASSUME NEW id \in Held, result[id] # "none", Attends(p, id)
        PROVE  r.id = id /\ r.at = "count_a"
    <3>1. op[p].id = id /\ op[p].game # 0
      BY <2>2, <2>3 DEF Attends
    <3>2. Id(games[op[p].slot]) = id
      BY <1>0, <2>2, <3>1 DEF CountInv, Pointed
    <3>3. winner = result[id]
      BY <1>0, <2>2, <3>2 DEF IInv, ResultOfPair
    <3>4. QED BY <2>1, <2>3, <3>1, <3>3
  <2>4. r.at # "move"
    BY <2>1
  <2> HIDE DEF r, winner, step
  <2>5. QED BY <1>0, <2>2, <2>3, <2>4, EndQuiet
<1>6. ASSUME NEW p \in Player, NEW role \in Role, NEW next \in {"count_b", "remove"},
             Count(p, role, next)
      PROVE  EndInv'
  <2> DEFINE r == [op[p] EXCEPT !.at = next]
  <2>1. r.at = next /\ r.id = op[p].id
    BY <1>0 DEF Place
  <2>2. op' = [op EXCEPT ![p] = r] /\ UNCHANGED <<games, created, result>>
    BY <1>6 DEF Count
  <2> HIDE DEF r
  <2>3. QED BY <1>0, <2>1, <2>2, EndQuiet DEF Attends
<1>7. ASSUME NEW p \in Player, Reply(p) PROVE EndInv'
  <2> DEFINE r == [op[p] EXCEPT !.at = "notify"]
  <2>1. r.at = "notify"
    BY <1>0 DEF Place
  <2>2. op' = [op EXCEPT ![p] = r] /\ UNCHANGED <<games, created, result>>
    BY <1>7 DEF Reply
  <2>3. \A i : ~Attends(p, i)
    BY <1>7 DEF Reply, Attends
  <2> HIDE DEF r
  <2>4. QED BY <1>0, <2>1, <2>2, <2>3, EndQuiet
<1>8. CASE UNCHANGED vars
  BY <1>0, <1>8 DEF vars, EndInv, Unmoved, Late, WonIsAttended, Attends, Held, Once, Present, Active
<1>9. QED
  BY <1>0, <1>1, <1>2, <1>3, <1>4, <1>5, <1>6, <1>7, <1>8,
     EndCreate, EndMove, EndRemove DEF Next, Handler, Role

\* The invariant WonIsAttended of Games.tla, on which WonGamesEnd rests: a won game of
\* a pair that plays once has a thread on its way to remove it.
THEOREM SomeoneRemoves == Spec => []WonIsAttended
<1>1. Init /\ [][Next]_vars => []EndInv
  BY EndInit, EndPreserved, PTL
<1>2. EndInv => WonIsAttended
  BY DEF EndInv
<1>3. QED BY <1>1, <1>2, PTL DEF Spec

-----------------------------------------------------------------------------
(* The games are games of TurnGame.tla, as those of Awale.tla are.          *)

\* The game in a slot.
Turns(s) == INSTANCE TurnGame WITH
              One <- "a", Two <- "b", Nobody <- "none",
              turn <- games[s].turn, winner <- games[s].winner

\* A slot without a game is given one.
Starts(s) == s \notin Active /\ s \in Active' /\ Turns(s)!Init'

\* Whatever the threads do, and however late they come, the game in a slot goes on as
\* a game does: in turns, until one player wins, for good.  The board that is left out
\* of Games.tla would not do anything else to it.
GoesOn(s) == Starts(s) \/ Turns(s)!Next \/ UNCHANGED Turns(s)!vars

\* Every slot holds one game of TurnGame.tla after another.
THEOREM GamesTakeTurns == Spec => [][\A s \in Slot : GoesOn(s)]_vars
<1>1. CountInv /\ [Next]_vars => [\A s \in Slot : GoesOn(s)]_vars
  <2> SUFFICES ASSUME CountInv, Next, NEW s \in Slot PROVE GoesOn(s)
    OBVIOUS
  <2>0. TypeOK /\ GameCountMatches /\ TurnOfWinner
    BY DEF CountInv, IInv
  <2>1. ASSUME NEW pair \in Pairing, CreateGame(pair[1], pair[2]) PROVE GoesOn(s)
    <3>1. PICK t \in Slot \ Active :
            /\ games' = [games EXCEPT ![t] = [active |-> TRUE, a |-> pair[1], b |-> pair[2],
                                              turn |-> "a", winner |-> "none", moved |-> FALSE]]
            /\ Active' = Active \union {t}
      BY <2>0, <2>1, CreateFacts
    <3>2. CASE s = t
      <4>1. games'[s].turn = "a" /\ games'[s].winner = "none"
        BY <2>0, <3>1, <3>2 DEF TypeOK
      <4>2. QED BY <3>1, <3>2, <4>1 DEF GoesOn, Starts, Turns!Init
    <3>3. CASE s # t
      BY <2>0, <3>1, <3>3 DEF TypeOK, GoesOn, Turns!vars
    <3>4. QED BY <3>2, <3>3
  <2>2. ASSUME NEW p \in Player, Move(p) PROVE GoesOn(s)
    <3> DEFINE t == op[p].slot
    <3>1. PICK role \in Role :
            /\ games[t].turn = role
            /\ \/ /\ games[t].winner = "none"
                  /\ games' = [games EXCEPT ![t].turn = Other(role), ![t].moved = TRUE]
               \/ games' = [games EXCEPT ![t].winner = role]
      BY <2>2 DEF Move, RoleOf, Role
    <3>2. games \in [Slot -> Game] /\ games[s] \in Game
      BY <2>0 DEF TypeOK
    <3>3. CASE s # t
      <4>1. games'[s] = games[s]
        BY <3>1, <3>2, <3>3
      <4>2. QED BY <4>1 DEF GoesOn, Turns!vars
    <3>4. CASE s = t /\ games[t].winner = "none"
                     /\ games' = [games EXCEPT ![t].turn = Other(role), ![t].moved = TRUE]
      <4>1. games'[s].turn = Other(games[s].turn) /\ games'[s].winner = games[s].winner
        BY <3>1, <3>2, <3>4 DEF Game
      <4>2. QED BY <3>4, <4>1 DEF GoesOn, Turns!Next, Turns!Pass, Turns!Other, Other
    <3>5. CASE s = t /\ games' = [games EXCEPT ![t].winner = role]
      <4>1. games'[s].turn = games[s].turn /\ games'[s].winner = games[s].turn
        BY <3>1, <3>2, <3>5 DEF Game
      <4>2. games[s].winner \in {"none", games[s].turn}
        BY <2>0 DEF TurnOfWinner
      <4>3. QED BY <4>1, <4>2 DEF GoesOn, Turns!Next, Turns!Win, Turns!vars
    <3>6. QED BY <3>1, <3>3, <3>4, <3>5
  <2>3. ASSUME NEW p \in Player, Remove(p) PROVE GoesOn(s)
    <3>1. games'[s] = [games[s] EXCEPT !.active = games[s].active /\ s \notin Lookup(op[p].id)]
      BY <2>0, <2>3, RemoveFacts
    <3>2. games[s] \in Game
      BY <2>0 DEF TypeOK
    <3>3. games'[s].turn = games[s].turn /\ games'[s].winner = games[s].winner
      BY <3>1, <3>2 DEF Game
    <3>4. QED BY <3>3 DEF GoesOn, Turns!vars
  <2>4. CASE UNCHANGED games
    BY <2>4 DEF GoesOn, Turns!vars
  <2>5. QED
    BY <2>1, <2>2, <2>3, <2>4
       DEF Next, Handler, Play, Refused, Refind, Seek, Copy, Count, Reply, Notify
<1>2. Init /\ [][Next]_vars => []CountInv
  BY CountInit, CountPreserved, PTL
<1>3. QED BY <1>1, <1>2, PTL DEF Spec
=============================================================================
