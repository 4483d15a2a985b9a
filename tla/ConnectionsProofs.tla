-------------------------- MODULE ConnectionsProofs --------------------------
(***************************************************************************)
(* Theorems about Connections.tla, for any number of players, sessions,    *)
(* threads and games: a pseudo has one session, no client that was let in  *)
(* is turned away, every connected pseudo is accounted for, a thread never *)
(* reads past the end of the table of games, and a client that has left is *)
(* a spectator of no game.                                                 *)
(*                                                                         *)
(* The first three rest on who holds a pseudo: one thread from its start   *)
(* to the step that clears the flag, or the main thread about to start it, *)
(* or nobody, when the thread could not be started.  The fourth rests on   *)
(* game_count and the slots it counts, the last on which slots a thread in *)
(* its cleanup has been through.                                           *)
(***************************************************************************)
EXTENDS Connections, FiniteSetTheorems, TLAPS

Registered == {"serving", "spectate", "stop", "unregister"}
Holding    == Registered \union {"start", "remove_player"}
Holder(t)  == thread[t].at \in Holding

\* The part of the state the argument is about, well typed.
Types ==
  /\ players \subseteq Player /\ connected \subseteq players
  /\ IsFiniteSet(players) /\ Cardinality(players) <= MaxPlayers
  /\ main \in [at : {"accept", "add", "spawn"}, who : Player \union {NoPlayer}]
  /\ main.at # "accept" => main.who \in Player
  /\ thread \in [Thread -> [at : At, who : Player \union {NoPlayer}, i : Int, slot : Int]]
  /\ game_count \in Int

\* One holder at most for each pseudo, which is connected.
Held ==
  /\ \A t \in Thread : Holder(t) => thread[t].who \in connected \ unserved
  /\ \A t, u \in Thread : Holder(t) /\ Holder(u) /\ thread[t].who = thread[u].who => t = u
  /\ main.at = "add" => main.who \notin connected
  /\ main.at = "spawn" =>
       /\ main.who \in connected \ unserved
       /\ \A t \in Thread : Holder(t) => thread[t].who # main.who
  /\ unserved \subseteq connected
  /\ \A p \in connected : \/ p \in unserved
                          \/ main.at = "spawn" /\ main.who = p
                          \/ \E t \in Thread : Holder(t) /\ thread[t].who = p

\* The registry has the threads between two of their steps.
Enlisted == registry = {t \in Thread : thread[t].at \in Registered}

IInv == Types /\ Held /\ Enlisted

\* A thread about to register and those that have are of different pseudos, all
\* of them connected, for which the registry has room.
LEMMA Room ==
  ASSUME IInv, NEW t \in Thread, thread[t].at = "start"
  PROVE  /\ IsFiniteSet(registry)
         /\ Cardinality(registry) < MaxSessions
<1> DEFINE All == registry \union {t}
           f == [u \in All |-> thread[u].who]
<1>1. \A u \in All : u \in Thread /\ Holder(u)
  BY DEF IInv, Enlisted, Holder, Holding
<1>2. f \in Injection(All, connected)
  <2>1. \A u \in All : thread[u].who \in connected
    BY <1>1 DEF IInv, Held
  <2>2. \A u, v \in All : thread[u].who = thread[v].who => u = v
    BY <1>1 DEF IInv, Held
  <2> HIDE DEF All
  <2>3. QED BY <2>1, <2>2 DEF Injection, IsInjective
<1>3. /\ IsFiniteSet(connected) /\ Cardinality(connected) \in Nat
      /\ Cardinality(connected) <= MaxPlayers
  <2>1. IsFiniteSet(players) /\ connected \subseteq players
    BY DEF IInv, Types
  <2>2. /\ IsFiniteSet(connected) /\ Cardinality(connected) <= Cardinality(players)
    BY <2>1, FS_Subset
  <2>3. Cardinality(connected) \in Nat /\ Cardinality(players) \in Nat
    BY <2>1, <2>2, FS_CardinalityType
  <2>4. QED BY <2>2, <2>3, ConnectionsAssumption DEF IInv, Types
<1> HIDE DEF f
<1>4. IsFiniteSet(All) /\ Cardinality(All) <= Cardinality(connected)
  BY <1>2, <1>3, FS_Injection
<1>5. IsFiniteSet(registry) /\ t \notin registry
  <2>1. registry \subseteq All
    OBVIOUS
  <2>2. QED BY <1>4, <2>1, FS_Subset DEF IInv, Enlisted, Registered
<1>6. Cardinality(All) = Cardinality(registry) + 1 /\ Cardinality(registry) \in Nat
  BY <1>5, FS_AddElement, FS_CardinalityType
<1>7. QED BY <1>3, <1>4, <1>5, <1>6, ConnectionsAssumption

\* A step of a thread that keeps its place among the holders.
LEMMA SamePlace ==
  ASSUME IInv, NEW t \in Thread,
         NEW r \in [at : At, who : Player \union {NoPlayer}, i : Int, slot : Int],
         r.who = thread[t].who,
         thread[t].at \in Holding <=> r.at \in Holding,
         thread[t].at \in Registered <=> r.at \in Registered,
         thread' = [thread EXCEPT ![t] = r],
         UNCHANGED <<playerVars, registry, main, unserved>>, game_count' \in Int
  PROVE  IInv'
<1> USE DEF playerVars
<1>1. /\ \A u \in Thread : /\ thread'[u].who = thread[u].who
                           /\ Holder(u)' <=> Holder(u)
                           /\ thread'[u].at \in Registered <=> thread[u].at \in Registered
      /\ Types'
  BY DEF IInv, Types, Holder
<1>2. Held'
  BY <1>1 DEF IInv, Held
<1>3. Enlisted'
  BY <1>1 DEF IInv, Enlisted
<1>4. QED BY <1>1, <1>2, <1>3 DEF IInv

\* The places a thread goes to, and a thread that is not used, are well typed.
LEMMA Places ==
  /\ "unused" \in At /\ "start" \in At /\ "serving" \in At /\ "spectate" \in At
  /\ "stop" \in At /\ "unregister" \in At /\ "remove_player" \in At
  /\ "test" \in At /\ "look" \in At /\ "unspectate" \in At
  BY DEF At, Leaving

\* A thread that goes to another place, with another slot, or index, or both.
LEMMA Moves ==
  ASSUME NEW r \in [at : At, who : Player \union {NoPlayer}, i : Int, slot : Int],
         NEW a \in At, NEW k \in Int, NEW s \in Int
  PROVE  /\ [r EXCEPT !.at = a, !.slot = s] \in
              [at : At, who : Player \union {NoPlayer}, i : Int, slot : Int]
         /\ [r EXCEPT !.at = a, !.slot = s].who = r.who
         /\ [r EXCEPT !.at = a, !.slot = s].at = a
         /\ [r EXCEPT !.at = a, !.i = k] \in
              [at : At, who : Player \union {NoPlayer}, i : Int, slot : Int]
         /\ [r EXCEPT !.at = a, !.i = k].who = r.who
         /\ [r EXCEPT !.at = a, !.i = k].at = a
         /\ [r EXCEPT !.at = a, !.i = k, !.slot = s] \in
              [at : At, who : Player \union {NoPlayer}, i : Int, slot : Int]
         /\ [r EXCEPT !.at = a, !.i = k, !.slot = s].who = r.who
         /\ [r EXCEPT !.at = a, !.i = k, !.slot = s].at = a
  OBVIOUS

\* A thread that is taken for a client.
LEMMA Takes ==
  ASSUME NEW r \in [at : At, who : Player \union {NoPlayer}, i : Int, slot : Int],
         NEW a \in At, NEW p \in Player \union {NoPlayer}
  PROVE  /\ [r EXCEPT !.at = a, !.who = p] \in
              [at : At, who : Player \union {NoPlayer}, i : Int, slot : Int]
         /\ [r EXCEPT !.at = a, !.who = p].who = p
         /\ [r EXCEPT !.at = a, !.who = p].at = a
  OBVIOUS

\* An unused thread has the type of a thread.
LEMMA UnusedType ==
  Unused \in [at : At, who : Player \union {NoPlayer}, i : Int, slot : Int]
  BY DEF Unused, At

\* The inductive invariant holds initially.
LEMMA Initially == Init => IInv
<1> SUFFICES ASSUME Init PROVE IInv
  OBVIOUS
<1>1. Types
  <2>1. thread \in [Thread -> [at : At, who : Player \union {NoPlayer}, i : Int, slot : Int]]
    BY UnusedType DEF Init
  <2>2. players \subseteq Player /\ IsFiniteSet(players) /\ Cardinality(players) <= MaxPlayers
    BY ConnectionsAssumption DEF Init
  <2>3. main \in [at : {"accept", "add", "spawn"}, who : Player \union {NoPlayer}]
        /\ main.at = "accept"
    <3>1. main = [at |-> "accept", who |-> NoPlayer]
      BY DEF Init
    <3>2. QED BY <3>1
  <2>4. connected \subseteq players /\ game_count \in Int
    <3>1. connected = {} BY DEF Init
    <3>2. game_count = 0 BY DEF Init
    <3>3. QED BY <3>1, <3>2
  <2>5. QED BY <2>1, <2>2, <2>3, <2>4 DEF Types
<1>2. Held
  BY DEF Init, Held, Holder, Holding, Registered, Unused
<1>3. Enlisted
  BY DEF Init, Enlisted, Registered, Unused
<1>4. QED BY <1>1, <1>2, <1>3 DEF IInv

\* Every step keeps the inductive invariant.
LEMMA Preserved == IInv /\ [Next]_vars => IInv'
<1> SUFFICES ASSUME IInv, [Next]_vars PROVE IInv'
  OBVIOUS
<1> DEFINE Record == [at : At, who : Player \union {NoPlayer}, i : Int, slot : Int]
<1>0. thread \in [Thread -> Record] /\ \A t \in Thread : thread[t] \in Record
  BY DEF IInv, Types
<1> USE DEF playerVars, gameVars
<1>1. ASSUME NEW p \in Player, Accept(p) PROVE IInv'
  <2>1. Types' /\ Enlisted'
    BY <1>1 DEF Accept, IInv, Types, Enlisted
  <2>2. Held'
    BY <1>1 DEF Accept, IInv, Held, Holder
  <2>3. QED BY <2>1, <2>2 DEF IInv
<1>2. CASE Add
  <2>1. CASE main.who \in players \/ Cardinality(players) < MaxPlayers
    <3>1. /\ players' = players \union {main.who}
          /\ connected' = connected \union {main.who}
          /\ main.at = "add" /\ main' = [main EXCEPT !.at = "spawn"]
          /\ UNCHANGED <<registry, thread, gameVars, unserved>>
      BY <1>2, <2>1 DEF Add
    <3>2. IsFiniteSet(players') /\ Cardinality(players') <= MaxPlayers
      <4>1. IsFiniteSet(players) /\ Cardinality(players) \in Nat
        BY FS_CardinalityType DEF IInv, Types
      <4>2. /\ IsFiniteSet(players')
            /\ Cardinality(players') = IF main.who \in players THEN Cardinality(players)
                                       ELSE Cardinality(players) + 1
        BY <3>1, <4>1, FS_AddElement
      <4>3. QED BY <2>1, <4>1, <4>2, ConnectionsAssumption DEF IInv, Types
    <3>3. Types'
      BY <3>1, <3>2 DEF IInv, Types
    <3>4. Held'
      BY <3>1 DEF IInv, Types, Held, Holder
    <3>5. Enlisted'
      BY <3>1 DEF IInv, Enlisted
    <3>6. QED BY <3>3, <3>4, <3>5 DEF IInv
  <2>2. CASE ~(main.who \in players \/ Cardinality(players) < MaxPlayers)
    <3>1. /\ main.at = "add" /\ main' = [at |-> "accept", who |-> NoPlayer]
          /\ UNCHANGED <<playerVars, registry, thread, gameVars, unserved>>
      BY <1>2, <2>2 DEF Add
    <3>2. Types' /\ Enlisted'
      BY <3>1 DEF IInv, Types, Enlisted
    <3>3. Held'
      BY <3>1 DEF IInv, Held, Holder
    <3>4. QED BY <3>2, <3>3 DEF IInv
  <2>3. QED BY <2>1, <2>2
<1>3. CASE SpawnFails
  <2>1. Types' /\ Enlisted'
    BY <1>3 DEF SpawnFails, IInv, Types, Enlisted
  <2>2. Held'
    BY <1>3 DEF SpawnFails, IInv, Held, Holder
  <2>3. QED BY <2>1, <2>2 DEF IInv
<1>4. ASSUME NEW t \in Thread, Spawn(t) PROVE IInv'
  <2> DEFINE new == [Unused EXCEPT !.at = "start", !.who = main.who]
  <2>1. /\ main.at = "spawn" /\ main' = [at |-> "accept", who |-> NoPlayer]
        /\ thread[t].at = "unused" /\ thread' = [thread EXCEPT ![t] = new]
        /\ UNCHANGED <<playerVars, registry, gameVars, unserved>>
    BY <1>4 DEF Spawn
  <2>2. new \in Record /\ new.at = "start" /\ new.who = main.who
    <3>1. main.who \in Player /\ "start" \in At
      BY <2>1, Places DEF IInv, Types
    <3>2. QED BY <3>1, UnusedType, Takes
  <2> HIDE DEF new
  <2>3. Types'
    BY <1>0, <2>1, <2>2 DEF IInv, Types
  <2>4. /\ \A u \in Thread \ {t} : thread'[u] = thread[u]
        /\ thread'[t].at = "start" /\ thread'[t].who = main.who
    BY <1>0, <2>1, <2>2
  <2>5. ~Holder(t) /\ Holder(t)' /\ \A u \in Thread \ {t} : Holder(u)' <=> Holder(u)
    BY <2>1, <2>4 DEF Holder, Holding, Registered
  <2>6. Held'
    BY <2>1, <2>4, <2>5 DEF IInv, Held
  <2>7. Enlisted'
    BY <2>1, <2>4 DEF IInv, Enlisted, Registered
  <2>8. QED BY <2>3, <2>6, <2>7 DEF IInv
<1>5. ASSUME NEW t \in Thread, Register(t) PROVE IInv'
  <2>1. thread[t].at = "start" /\ Cardinality(registry) < MaxSessions
    BY <1>5, Room DEF Register
  <2>2. /\ registry' = registry \union {t}
        /\ thread' = [thread EXCEPT ![t].at = "serving"]
        /\ UNCHANGED <<playerVars, main, gameVars, unserved>>
    BY <1>5, <2>1 DEF Register, GoTo
  <2>3. /\ \A u \in Thread \ {t} : thread'[u] = thread[u]
        /\ thread'[t].at = "serving" /\ thread'[t].who = thread[t].who
    BY <1>0, <2>2
  <2>4. \A u \in Thread : /\ Holder(u)' <=> Holder(u)
                         /\ thread'[u].who = thread[u].who
    BY <2>1, <2>3 DEF Holder, Holding, Registered
  <2>5. Types'
    BY <1>0, <2>2, Places DEF IInv, Types
  <2>6. Held'
    BY <2>2, <2>4 DEF IInv, Held
  <2>7. Enlisted'
    BY <2>2, <2>3 DEF IInv, Enlisted, Registered
  <2>8. QED BY <2>5, <2>6, <2>7 DEF IInv
<1>6. ASSUME NEW t \in Thread, Unregister(t) PROVE IInv'
  <2>1. /\ thread[t].at = "unregister"
        /\ registry' = registry \ {t}
        /\ thread' = [thread EXCEPT ![t].at = "remove_player"]
        /\ UNCHANGED <<playerVars, main, gameVars, unserved>>
    BY <1>6 DEF Unregister, GoTo
  <2>2. /\ \A u \in Thread \ {t} : thread'[u] = thread[u]
        /\ thread'[t].at = "remove_player" /\ thread'[t].who = thread[t].who
    BY <1>0, <2>1
  <2>3. \A u \in Thread : /\ Holder(u)' <=> Holder(u)
                         /\ thread'[u].who = thread[u].who
    BY <2>1, <2>2 DEF Holder, Holding, Registered
  <2>4. Types'
    BY <1>0, <2>1, Places DEF IInv, Types
  <2>5. Held'
    BY <2>1, <2>3 DEF IInv, Held
  <2>6. Enlisted'
    BY <2>1, <2>2 DEF IInv, Enlisted, Registered
  <2>7. QED BY <2>4, <2>5, <2>6 DEF IInv
<1>7. ASSUME NEW t \in Thread, RemovePlayer(t) PROVE IInv'
  <2>1. /\ thread[t].at = "remove_player"
        /\ connected' = connected \ {thread[t].who}
        /\ thread' = [thread EXCEPT ![t].at = "test", ![t].i = 1]
        /\ UNCHANGED <<players, registry, main, gameVars, unserved>>
    BY <1>7 DEF RemovePlayer
  <2> DEFINE r == [thread[t] EXCEPT !.at = "test", !.i = 1]
  <2>r. r \in Record /\ thread' = [thread EXCEPT ![t] = r]
    <3>1. "test" \in At /\ 1 \in Int
      BY Places
    <3>2. QED BY <1>0, <2>1, <3>1, Moves
  <2>2. /\ \A u \in Thread \ {t} : thread'[u] = thread[u]
        /\ thread'[t].at = "test" /\ thread'[t].who = thread[t].who
    BY <1>0, <2>1
  <2>3. Holder(t) /\ ~Holder(t)' /\ \A u \in Thread \ {t} : Holder(u)' <=> Holder(u)
    BY <2>1, <2>2 DEF Holder, Holding, Registered
  <2>4. Types'
    <3> HIDE DEF r
    <3>1. QED BY <1>0, <2>1, <2>r DEF IInv, Types
  <2>5. Held'
    <3>1. /\ thread[t].who \in connected \ unserved
          /\ \A u \in Thread \ {t} : Holder(u) => thread[u].who # thread[t].who
          /\ main.at = "spawn" => main.who # thread[t].who
      BY <2>3 DEF IInv, Held
    <3>2. \A u \in Thread : Holder(u)' => /\ u # t /\ Holder(u)
                                         /\ thread'[u].who = thread[u].who
      BY <2>2, <2>3
    <3>3. \A u \in Thread : Holder(u)' => thread'[u].who \in connected' \ unserved'
      <4>1. /\ unserved' = unserved /\ connected' = connected \ {thread[t].who}
        BY <2>1
      <4>2. ASSUME NEW u \in Thread, Holder(u)'
            PROVE  /\ thread'[u].who = thread[u].who /\ thread[u].who # thread[t].who
                   /\ thread[u].who \in connected \ unserved
        BY <3>1, <3>2, <4>2 DEF IInv, Held
      <4>3. QED BY <4>1, <4>2
    <3>4. \A u, v \in Thread : Holder(u)' /\ Holder(v)' /\ thread'[u].who = thread'[v].who
                               => u = v
      BY <3>2 DEF IInv, Held
    <3>5. /\ main'.at = "add" => main'.who \notin connected'
          /\ main'.at = "spawn" =>
               /\ main'.who \in connected' \ unserved'
               /\ \A u \in Thread : Holder(u)' => thread'[u].who # main'.who
      <4>1. main' = main /\ unserved' = unserved
            /\ connected' = connected \ {thread[t].who}
        BY <2>1
      <4>2. main.at = "add" => main.who \notin connected'
        BY <4>1 DEF IInv, Held
      <4>3. main.at = "spawn" => /\ main.who \in connected' \ unserved'
                                /\ \A u \in Thread : Holder(u) => thread[u].who # main.who
        BY <3>1, <4>1 DEF IInv, Held
      <4>4. main.at = "spawn" => \A u \in Thread : Holder(u)' => thread'[u].who # main.who
        BY <3>2, <4>3
      <4>5. QED BY <4>1, <4>2, <4>3, <4>4
    <3>6. unserved' \subseteq connected'
      BY <2>1, <3>1 DEF IInv, Held
    <3>7. \A p \in connected' :
                 \/ p \in unserved'
                 \/ main'.at = "spawn" /\ main'.who = p
                 \/ \E u \in Thread : Holder(u)' /\ thread'[u].who = p
      <4> TAKE p \in connected'
      <4>1. p \in connected /\ p # thread[t].who /\ main' = main /\ unserved' = unserved
        BY <2>1
      <4>2. CASE \E u \in Thread : Holder(u) /\ thread[u].who = p
        <5>1. PICK u \in Thread : Holder(u) /\ thread[u].who = p
          BY <4>2
        <5>2. u # t
          BY <4>1, <5>1
        <5>3. Holder(u)' /\ thread'[u].who = p
          BY <2>2, <2>3, <5>1, <5>2
        <5>4. QED BY <5>3
      <4>3. CASE p \in unserved \/ (main.at = "spawn" /\ main.who = p)
        BY <4>1, <4>3
      <4>4. QED BY <4>1, <4>2, <4>3 DEF IInv, Held
    <3>8. QED BY <3>3, <3>4, <3>5, <3>6, <3>7 DEF Held
  <2>6. Enlisted'
    BY <2>1, <2>2 DEF IInv, Enlisted, Registered
  <2>7. QED BY <2>4, <2>5, <2>6 DEF IInv
<1>8. ASSUME NEW t \in Thread, Test(t) PROVE IInv'
  <2>1. CASE thread[t].i <= game_count
    <3>1. thread' = [thread EXCEPT ![t] = [thread[t] EXCEPT !.at = "look"]]
      BY <1>8, <2>1 DEF Test, GoTo
    <3>2. [thread[t] EXCEPT !.at = "look"] \in Record
      BY <1>0, Places
    <3>3. QED
      BY <1>0, <1>8, <3>1, <3>2, SamePlace DEF Test, Holding, Registered, IInv, Types
  <2>2. CASE ~(thread[t].i <= game_count)
    <3>1. /\ thread[t].at = "test" /\ thread' = [thread EXCEPT ![t] = Unused]
          /\ UNCHANGED <<playerVars, registry, main, gameVars, unserved>>
      BY <1>8, <2>2 DEF Test, End
    <3>2. Unused \in Record
      BY DEF Unused, At
    <3>3. \A u \in Thread \ {t} : thread'[u] = thread[u]
      BY <3>1
    <3>4. thread'[t].at = "unused"
      BY <1>0, <3>1 DEF IInv, Types, Unused
    <3>5. ~Holder(t) /\ ~Holder(t)' /\ \A u \in Thread \ {t} : Holder(u)' <=> Holder(u)
      BY <3>1, <3>3, <3>4 DEF Holder, Holding, Registered
    <3>6. Types'
      BY <3>1, <3>2 DEF IInv, Types
    <3>7. Held'
      BY <3>1, <3>3, <3>5 DEF IInv, Held
    <3>8. Enlisted'
      BY <3>1, <3>3, <3>4 DEF IInv, Enlisted, Registered
    <3>9. QED BY <3>6, <3>7, <3>8 DEF IInv
  <2>3. QED BY <2>1, <2>2
<1>9. ASSUME NEW t \in Thread, NEW id \in GameId, NEW step \in {"spectate", "stop"},
             Seek(t, id, step)
      PROVE  IInv'
  <2>1. PICK s \in Lookup(id) :
          thread' = [thread EXCEPT ![t].at = step, ![t].slot = s]
    BY <1>9 DEF Seek
  <2> DEFINE r == [thread[t] EXCEPT !.at = step, !.slot = s]
  <2>2. r \in Record /\ r.who = thread[t].who /\ r.at = step
    <3>1. s \in Int
      BY ConnectionsAssumption DEF Lookup, Active, Slot
    <3>2. step \in At
      BY Places
    <3>3. QED BY <1>0, <3>1, <3>2, Moves
  <2>3. thread' = [thread EXCEPT ![t] = r]
    BY <2>1
  <2> HIDE DEF r
  <2>4. QED
    BY <1>9, <2>2, <2>3, SamePlace DEF Seek, Holding, Registered, IInv, Types
<1>10. ASSUME NEW t \in Thread, AddSpectator(t) \/ StopSpectate(t) PROVE IInv'
  <2> DEFINE r == [thread[t] EXCEPT !.at = "serving", !.slot = 0]
  <2>1. r \in Record /\ r.who = thread[t].who /\ r.at = "serving"
    <3>1. "serving" \in At /\ 0 \in Int
      BY Places
    <3>2. QED BY <1>0, <3>1, Moves
  <2>2. thread' = [thread EXCEPT ![t] = r]
    BY <1>10 DEF AddSpectator, StopSpectate, Serve
  <2> HIDE DEF r
  <2>3. thread[t].at \in {"spectate", "stop"}
        /\ UNCHANGED <<playerVars, registry, main, game_count, unserved>>
    BY <1>10 DEF AddSpectator, StopSpectate
  <2>4. QED
    BY <2>1, <2>2, <2>3, SamePlace DEF Holding, Registered, IInv, Types
<1>11. ASSUME NEW t \in Thread, Leave(t) PROVE IInv'
  <2> DEFINE r == [thread[t] EXCEPT !.at = "unregister"]
  <2>1. r \in Record /\ r.who = thread[t].who /\ r.at = "unregister"
    BY <1>0, Places
  <2>2. thread' = [thread EXCEPT ![t] = r]
    BY <1>11 DEF Leave, GoTo
  <2> HIDE DEF r
  <2>3. QED
    BY <1>11, <2>1, <2>2, SamePlace DEF Leave, Holding, Registered, IInv, Types
<1>12. ASSUME NEW t \in Thread, Look(t) PROVE IInv'
  <2>1. thread[t].at = "look" /\ UNCHANGED <<playerVars, registry, main, gameVars, unserved>>
    BY <1>12 DEF Look
  <2>2. CASE Advance(t)
    <3> DEFINE r == [thread[t] EXCEPT !.at = "test", !.i = @ + 1, !.slot = 0]
    <3>1. r \in Record /\ r.who = thread[t].who /\ r.at = "test"
      <4>1. "test" \in At /\ thread[t].i + 1 \in Int /\ 0 \in Int
        BY <1>0, Places
      <4>2. QED BY <1>0, <4>1, Moves
    <3>2. thread' = [thread EXCEPT ![t] = r]
      BY <2>2 DEF Advance
    <3> HIDE DEF r
    <3>3. QED
      BY <2>1, <3>1, <3>2, SamePlace DEF Holding, Registered, IInv, Types
  <2>3. CASE ~Advance(t)
    <3>1. PICK s \in Lookup(games[thread[t].i].id) :
            thread' = [thread EXCEPT ![t].at = "unspectate", ![t].slot = s]
      BY <1>12, <2>3 DEF Look
    <3> DEFINE r == [thread[t] EXCEPT !.at = "unspectate", !.slot = s]
    <3>2. r \in Record /\ r.who = thread[t].who /\ r.at = "unspectate"
      <4>1. "unspectate" \in At /\ s \in Int
        BY Places, ConnectionsAssumption DEF Lookup, Active, Slot
      <4>2. QED BY <1>0, <4>1, Moves
    <3>3. thread' = [thread EXCEPT ![t] = r]
      BY <3>1
    <3> HIDE DEF r
    <3>4. QED
      BY <2>1, <3>2, <3>3, SamePlace DEF Holding, Registered, IInv, Types
  <2>4. QED BY <2>2, <2>3
<1>13. ASSUME NEW t \in Thread, Unspectate(t) PROVE IInv'
  <2> DEFINE r == [thread[t] EXCEPT !.at = "test", !.i = @ + 1, !.slot = 0]
  <2>1. r \in Record /\ r.who = thread[t].who /\ r.at = "test"
    <3>1. "test" \in At /\ thread[t].i + 1 \in Int /\ 0 \in Int
      BY <1>0, Places
    <3>2. QED BY <1>0, <3>1, Moves
  <2>2. thread' = [thread EXCEPT ![t] = r]
    BY <1>13 DEF Unspectate, Advance
  <2> HIDE DEF r
  <2>3. QED
    BY <1>13, <2>1, <2>2, SamePlace DEF Unspectate, Holding, Registered, IInv, Types
<1>14. ASSUME NEW id \in GameId, CreateGame(id) \/ RemoveGame(id) PROVE IInv'
  <2>1. UNCHANGED <<playerVars, registry, main, thread, unserved>> /\ game_count' \in Int
    BY <1>14 DEF CreateGame, RemoveGame, IInv, Types
  <2>2. QED BY <2>1 DEF IInv, Types, Held, Enlisted, Holder
<1>15. CASE UNCHANGED vars
  BY <1>15 DEF vars, IInv, Types, Held, Enlisted, Holder
<1>16. QED
  BY <1>1, <1>2, <1>3, <1>4, <1>5, <1>6, <1>7, <1>8, <1>9, <1>10, <1>11, <1>12, <1>13,
     <1>14, <1>15 DEF Next

\* The inductive invariant holds in every reachable state.
LEMMA Invariant == Spec => []IInv
  BY Initially, Preserved, PTL DEF Spec

-----------------------------------------------------------------------------

\* The invariant OneSessionEach of Connections.tla: the look-up of a session by
\* its pseudo finds one client at most, and it is a connected one.
THEOREM PseudoHasOneSession == Spec => []OneSessionEach
<1>1. IInv => OneSessionEach
  BY DEF IInv, Types, Held, Enlisted, Holder, Holding, OneSessionEach
<1>2. QED BY <1>1, Invariant, PTL

\* The invariant NobodyTurnedAway of Connections.tla: the registry has room for
\* every client that was let in, if it has for as many as there can be players.
THEOREM RegistryHasRoom == Spec => []NobodyTurnedAway
<1>1. IInv => NobodyTurnedAway
  BY Room DEF NobodyTurnedAway
<1>2. QED BY <1>1, Invariant, PTL

\* The invariant ConnectedIsServed of Connections.tla: a pseudo in use has its
\* thread, or the main thread about to start it, or could not be given one.
THEOREM PseudoIsAccountedFor == Spec => []ConnectedIsServed
<1>1. IInv => ConnectedIsServed
  <2> SUFFICES ASSUME IInv PROVE ConnectedIsServed
    OBVIOUS
  <2> DEFINE Serving == {thread[t].who : t \in {u \in Thread : Holder(u)}}
  <2>1. \A u \in Thread : Holder(u) <=> thread[u].at \in
          {"start", "serving", "spectate", "stop", "unregister", "remove_player"}
    BY DEF Holder, Holding, Registered
  <2>2. ConnectedIsServed <=>
          connected = unserved \union Serving
                        \union (IF main.at = "spawn" THEN {main.who} ELSE {})
    BY <2>1 DEF ConnectedIsServed
  <2>3. QED BY <2>2 DEF IInv, Held
<1>2. QED BY <1>1, Invariant, PTL
-----------------------------------------------------------------------------
(* The table of games, and the threads that point into it.                  *)

GameRecord == [active : BOOLEAN, id : GameId \union {""}, spectators : SUBSET Player]

\* The table is well typed, its lists are not too long, and it is counted.
Table ==
  /\ games \in [Slot -> GameRecord]
  /\ \A s \in Slot : /\ IsFiniteSet(games[s].spectators)
                     /\ Cardinality(games[s].spectators) <= MaxSpectators
  /\ game_count = Cardinality(Active)

\* A thread that is to look at a slot, or to change one, has the number of one.
\* The loop over the games starts with the first.
Points ==
  \A t \in Thread :
    /\ thread[t].at \in {"test", "look", "unspectate"} => thread[t].i >= 1
    /\ thread[t].at = "look" => thread[t].i <= MaxGames
    /\ thread[t].at \in {"spectate", "stop", "unspectate"} => thread[t].slot \in Slot
    /\ thread[t].at # "unused" => thread[t].who \in Player

\* The games of the table can be counted, and are not more than it has slots.
LEMMA ActiveIsSmall ==
  /\ IsFiniteSet(Active) /\ Cardinality(Active) \in Nat /\ Cardinality(Active) <= MaxGames
<1>1. IsFiniteSet(Slot) /\ Cardinality(Slot) = MaxGames
  BY FS_Interval, ConnectionsAssumption DEF Slot
<1>2. Active \subseteq Slot
  BY DEF Active
<1>3. QED BY <1>1, <1>2, FS_Subset, FS_CardinalityType

\* A step that leaves the flags and the ids of the games as they are, and one
\* list changed to another that is not too long.
LEMMA ListChanges ==
  ASSUME Table, NEW s \in Slot, NEW list \in SUBSET Player,
         IsFiniteSet(list), Cardinality(list) <= MaxSpectators,
         games' = [games EXCEPT ![s].spectators = list], game_count' = game_count
  PROVE  Table'
<1>1. games' \in [Slot -> GameRecord]
  BY DEF Table, GameRecord
<1>2. \A u \in Slot : /\ games'[u].active = games[u].active
                      /\ games'[u].spectators = IF u = s THEN list ELSE games[u].spectators
  BY DEF Table, GameRecord
<1>3. Active' = Active
  BY <1>2 DEF Active
<1>4. QED BY <1>1, <1>2, <1>3 DEF Table

\* A thread that goes on leaves the others where they are.
LEMMA PointsOn ==
  ASSUME Types, Points, NEW t \in Thread,
         \A u \in Thread \ {t} : thread'[u] = thread[u],
         /\ thread'[t].at \in {"test", "look", "unspectate"} => thread'[t].i >= 1
         /\ thread'[t].at = "look" => thread'[t].i <= MaxGames
         /\ thread'[t].at \in {"spectate", "stop", "unspectate"} => thread'[t].slot \in Slot,
         thread'[t].at # "unused" => thread'[t].who \in Player
  PROVE  Points'
<1>1. ASSUME NEW u \in Thread
      PROVE  /\ thread'[u].at \in {"test", "look", "unspectate"} => thread'[u].i >= 1
             /\ thread'[u].at = "look" => thread'[u].i <= MaxGames
             /\ thread'[u].at \in {"spectate", "stop", "unspectate"} => thread'[u].slot \in Slot
             /\ thread'[u].at # "unused" => thread'[u].who \in Player
  BY DEF Points
<1>2. QED BY <1>1 DEF Points, Slot

\* An empty table of games is well formed, and nobody points into it.
LEMMA TableInit == Init => Table /\ Points
<1> SUFFICES ASSUME Init PROVE Table /\ Points
  OBVIOUS
<1>1. games \in [Slot -> GameRecord] /\ \A s \in Slot : games[s].spectators = {} /\ ~games[s].active
  BY DEF Init, GameRecord
<1>2. Active = {}
  BY <1>1 DEF Active
<1>3. Cardinality({}) = 0 /\ IsFiniteSet({})
  BY FS_EmptySet
<1>4. Table
  <2>1. game_count = Cardinality(Active)
    BY <1>2, <1>3 DEF Init
  <2>2. ASSUME NEW s \in Slot
        PROVE  /\ IsFiniteSet(games[s].spectators)
               /\ Cardinality(games[s].spectators) <= MaxSpectators
    <3>1. games[s].spectators = {}
      BY <1>1
    <3>2. QED BY <1>3, <3>1, ConnectionsAssumption
  <2>3. QED BY <1>1, <2>1, <2>2 DEF Table
<1>5. Points
  BY DEF Points, Init, Unused
<1>6. QED BY <1>4, <1>5

\* Each step keeps the table and the pointers into it.
LEMMA TableKept ==
  ASSUME IInv, Table, Points, [Next]_vars
  PROVE  Table' /\ Points'
<1> USE DEF playerVars, gameVars
<1>0. /\ thread \in [Thread -> [at : At, who : Player \union {NoPlayer}, i : Int, slot : Int]]
      /\ Types
  BY DEF IInv, Types
<1>1. ASSUME UNCHANGED <<games, game_count, thread>> PROVE Table' /\ Points'
  BY <1>1 DEF Table, Points, Active
<1>2. ASSUME UNCHANGED <<games, game_count>> PROVE Table'
  BY <1>2 DEF Table, Active
<1>3. CASE UNCHANGED vars \/ (\E p \in Player : Accept(p)) \/ Add \/ SpawnFails
  <2>1. UNCHANGED <<games, game_count, thread>>
    BY <1>3 DEF vars, Accept, Add, SpawnFails
  <2>2. QED BY <2>1, <1>1
<1>4. ASSUME NEW t \in Thread, Spawn(t) PROVE Table' /\ Points'
  <2>1. /\ UNCHANGED <<games, game_count>>
        /\ thread' = [thread EXCEPT ![t] = [Unused EXCEPT !.at = "start", !.who = main.who]]
    BY <1>4 DEF Spawn
  <2>2. /\ thread'[t].at = "start" /\ thread'[t].who = main.who /\ main.who \in Player
        /\ \A u \in Thread \ {t} : thread'[u] = thread[u]
    BY <1>0, <1>4, <2>1 DEF Unused, Spawn, Types
  <2>3. QED BY <1>0, <1>2, <2>1, <2>2, PointsOn
<1>5. ASSUME NEW t \in Thread, Register(t) \/ Leave(t) \/ Unregister(t) PROVE Table' /\ Points'
  <2>1. UNCHANGED <<games, game_count>>
    BY <1>5 DEF Register, Leave, Unregister
  <2>2. PICK a \in {"serving", "unregister", "remove_player"} :
          GoTo(t, a) \/ End(t)
    BY <1>5 DEF Register, Leave, Unregister
  <2>3. thread[t].who \in Player
    BY <1>5 DEF Register, Leave, Unregister, Points
  <2>4. /\ thread'[t].at \in {"serving", "unregister", "remove_player", "unused"}
        /\ thread'[t].at # "unused" => thread'[t].who = thread[t].who
        /\ \A u \in Thread \ {t} : thread'[u] = thread[u]
    BY <1>0, <2>2 DEF GoTo, End, Unused
  <2>5. QED BY <1>0, <1>2, <2>1, <2>3, <2>4, PointsOn
<1>6. ASSUME NEW t \in Thread, RemovePlayer(t) PROVE Table' /\ Points'
  <2>1. /\ UNCHANGED <<games, game_count>>
        /\ thread' = [thread EXCEPT ![t].at = "test", ![t].i = 1]
        /\ thread[t].who \in Player
    BY <1>6 DEF RemovePlayer, Points
  <2>2. /\ thread'[t].at = "test" /\ thread'[t].i = 1 /\ thread'[t].who = thread[t].who
        /\ \A u \in Thread \ {t} : thread'[u] = thread[u]
    BY <1>0, <2>1
  <2>3. QED BY <1>0, <1>2, <2>1, <2>2, PointsOn
<1>7. ASSUME NEW t \in Thread, Test(t) PROVE Table' /\ Points'
  <2>1. /\ UNCHANGED <<games, game_count>> /\ thread[t].at = "test" /\ thread[t].i >= 1
        /\ thread[t].who \in Player
    BY <1>7 DEF Test, Points
  <2>2. CASE thread[t].i <= game_count
    <3>1. thread' = [thread EXCEPT ![t].at = "look"]
      BY <1>7, <2>2 DEF Test, GoTo
    <3>2. /\ thread'[t].at = "look" /\ thread'[t].i = thread[t].i
          /\ thread'[t].who = thread[t].who
          /\ \A u \in Thread \ {t} : thread'[u] = thread[u]
      BY <1>0, <3>1
    <3>3. thread[t].i \in Int /\ thread[t].i <= MaxGames
      BY <1>0, <2>2, ActiveIsSmall, ConnectionsAssumption DEF Table
    <3>4. QED BY <1>0, <1>2, <2>1, <3>2, <3>3, PointsOn
  <2>3. CASE ~(thread[t].i <= game_count)
    <3>1. thread' = [thread EXCEPT ![t] = Unused]
      BY <1>7, <2>3 DEF Test, End
    <3>2. thread'[t].at = "unused" /\ \A u \in Thread \ {t} : thread'[u] = thread[u]
      BY <1>0, <3>1 DEF Unused
    <3>3. QED BY <1>0, <1>2, <2>1, <3>2, PointsOn
  <2>4. QED BY <2>2, <2>3
<1>8. ASSUME NEW t \in Thread, thread[t].at \in {"look", "unspectate"}, Advance(t)
      PROVE  Points'
  <2>1. /\ thread'[t].at = "test" /\ thread'[t].i = thread[t].i + 1
        /\ thread'[t].who = thread[t].who
        /\ \A u \in Thread \ {t} : thread'[u] = thread[u]
    BY <1>0, <1>8 DEF Advance
  <2>2. thread[t].i \in Int /\ thread[t].i >= 1 /\ thread[t].who \in Player
    BY <1>0, <1>8 DEF Points
  <2>3. QED BY <1>0, <2>1, <2>2, PointsOn
<1>9. ASSUME NEW t \in Thread, Look(t) PROVE Table' /\ Points'
  <2>1. /\ UNCHANGED <<games, game_count>> /\ thread[t].at = "look" /\ thread[t].i >= 1
        /\ thread[t].who \in Player
    BY <1>9 DEF Look, Points
  <2>2. CASE Advance(t)
    BY <1>2, <1>8, <2>1, <2>2
  <2>3. CASE ~Advance(t)
    <3>1. PICK s \in Lookup(games[thread[t].i].id) :
            thread' = [thread EXCEPT ![t].at = "unspectate", ![t].slot = s]
      BY <1>9, <2>3 DEF Look
    <3>2. /\ thread'[t].at = "unspectate" /\ thread'[t].slot = s /\ thread'[t].i = thread[t].i
          /\ thread'[t].who = thread[t].who
          /\ \A u \in Thread \ {t} : thread'[u] = thread[u]
      BY <1>0, <3>1
    <3>3. s \in Slot
      BY <3>1 DEF Lookup, Active
    <3>4. QED BY <1>0, <1>2, <2>1, <3>2, <3>3, PointsOn
  <2>4. QED BY <2>2, <2>3
<1>10. ASSUME NEW t \in Thread, NEW id \in GameId, NEW step \in {"spectate", "stop"},
              Seek(t, id, step)
       PROVE  Table' /\ Points'
  <2>1. PICK s \in Lookup(id) :
          thread' = [thread EXCEPT ![t].at = step, ![t].slot = s]
    BY <1>10 DEF Seek
  <2>2. /\ thread'[t].at = step /\ thread'[t].slot = s /\ thread'[t].who = thread[t].who
        /\ \A u \in Thread \ {t} : thread'[u] = thread[u]
    BY <1>0, <2>1
  <2>3. s \in Slot /\ thread[t].who \in Player /\ UNCHANGED <<games, game_count>>
    BY <1>10, <2>1 DEF Lookup, Active, Seek, Points
  <2>4. QED BY <1>0, <1>2, <2>2, <2>3, PointsOn
<1>11. ASSUME NEW t \in Thread, thread[t].who \in Player, Serve(t) PROVE Points'
  <2>1. /\ thread'[t].at = "serving" /\ thread'[t].who = thread[t].who
        /\ \A u \in Thread \ {t} : thread'[u] = thread[u]
    BY <1>0, <1>11 DEF Serve
  <2>2. QED BY <1>0, <1>11, <2>1, PointsOn
<1>12. ASSUME NEW t \in Thread, thread[t].slot \in Slot, RemoveSpectator(t), game_count' = game_count
       PROVE  Table'
  <2> DEFINE s == thread[t].slot
             list == games[s].spectators \ {thread[t].who}
  <2>1. IsFiniteSet(games[s].spectators) /\ games[s].spectators \subseteq Player
        /\ Cardinality(games[s].spectators) <= MaxSpectators
    BY <1>12 DEF Table, GameRecord
  <2>2. list \subseteq games[s].spectators
    OBVIOUS
  <2>3. IsFiniteSet(list) /\ Cardinality(list) <= Cardinality(games[s].spectators)
    BY <2>1, <2>2, FS_Subset
  <2>4. Cardinality(list) \in Nat /\ Cardinality(games[s].spectators) \in Nat
    BY <2>1, <2>3, FS_CardinalityType
  <2>5. Cardinality(list) <= MaxSpectators /\ list \in SUBSET Player
    BY <2>1, <2>2, <2>3, <2>4, ConnectionsAssumption
  <2>6. games' = [games EXCEPT ![s].spectators = list]
    BY <1>12 DEF RemoveSpectator
  <2> HIDE DEF list
  <2>7. QED BY <1>12, <2>3, <2>5, <2>6, ListChanges
<1>13. ASSUME NEW t \in Thread, AddSpectator(t) PROVE Table' /\ Points'
  <2> DEFINE s == thread[t].slot
             list == games[s].spectators \union {thread[t].who}
  <2>1. s \in Slot /\ thread[t].who \in Player
    <3>1. thread[t].at = "spectate"
      BY <1>13 DEF AddSpectator
    <3>2. QED BY <3>1 DEF Points
  <2>2. game_count' = game_count /\ Serve(t)
    BY <1>13 DEF AddSpectator
  <2>3. CASE Cardinality(games[s].spectators) < MaxSpectators
    <3>1. IsFiniteSet(games[s].spectators) /\ games[s].spectators \subseteq Player
      BY <2>1 DEF Table, GameRecord
    <3>2. /\ IsFiniteSet(list)
          /\ Cardinality(list) = IF thread[t].who \in games[s].spectators
                                 THEN Cardinality(games[s].spectators)
                                 ELSE Cardinality(games[s].spectators) + 1
      BY <3>1, FS_AddElement
    <3>3. Cardinality(games[s].spectators) \in Nat
      BY <3>1, FS_CardinalityType
    <3>4. Cardinality(list) <= MaxSpectators
      BY <2>3, <3>2, <3>3, ConnectionsAssumption
    <3>5. list \in SUBSET Player
      BY <2>1, <3>1
    <3>6. games' = [games EXCEPT ![s].spectators = list]
      BY <1>13, <2>3 DEF AddSpectator
    <3> HIDE DEF list
    <3>7. Table'
      BY <2>1, <2>2, <3>2, <3>4, <3>5, <3>6, ListChanges
    <3>8. QED BY <1>11, <2>1, <2>2, <3>7
  <2>4. CASE ~(Cardinality(games[s].spectators) < MaxSpectators)
    <3>1. games' = games
      BY <1>13, <2>4 DEF AddSpectator
    <3>2. QED BY <1>2, <1>11, <2>1, <2>2, <3>1
  <2>5. QED BY <2>3, <2>4
<1>14. ASSUME NEW t \in Thread, StopSpectate(t) PROVE Table' /\ Points'
  <2>1. /\ thread[t].slot \in Slot /\ RemoveSpectator(t) /\ Serve(t)
        /\ game_count' = game_count /\ thread[t].who \in Player
    BY <1>14 DEF StopSpectate, Points
  <2>2. QED BY <1>11, <1>12, <2>1
<1>15. ASSUME NEW t \in Thread, Unspectate(t) PROVE Table' /\ Points'
  <2>1. /\ thread[t].at = "unspectate" /\ thread[t].slot \in Slot
        /\ RemoveSpectator(t) /\ Advance(t) /\ game_count' = game_count
    BY <1>15 DEF Unspectate, Points
  <2>2. QED BY <1>8, <1>12, <2>1
<1>16. ASSUME NEW id \in GameId, CreateGame(id) PROVE Table' /\ Points'
  <2>1. PICK s \in Slot \ Active :
          games' = [games EXCEPT ![s] = [active |-> TRUE, id |-> id, spectators |-> {}]]
    BY <1>16 DEF CreateGame
  <2>2. game_count' = game_count + 1 /\ thread' = thread
    BY <1>16 DEF CreateGame
  <2>3. games' \in [Slot -> GameRecord]
    BY <2>1 DEF Table, GameRecord
  <2>4. \A u \in Slot : games'[u] = IF u = s THEN [active |-> TRUE, id |-> id, spectators |-> {}]
                                    ELSE games[u]
    BY <2>1 DEF Table
  <2>5. Active' = Active \union {s}
    BY <2>1, <2>4 DEF Active
  <2>6. Cardinality(Active') = Cardinality(Active) + 1
    BY <2>1, <2>5, ActiveIsSmall, FS_AddElement
  <2>7. \A u \in Slot : /\ IsFiniteSet(games'[u].spectators)
                        /\ Cardinality(games'[u].spectators) <= MaxSpectators
    BY <2>4, FS_EmptySet, ConnectionsAssumption DEF Table
  <2>8. Table'
    BY <2>2, <2>3, <2>6, <2>7 DEF Table
  <2>9. QED BY <2>2, <2>8 DEF Points
<1>17. ASSUME NEW id \in GameId, RemoveGame(id) PROVE Table' /\ Points'
  <2>1. PICK s \in Lookup(id) : games' = [games EXCEPT ![s].active = FALSE]
    BY <1>17 DEF RemoveGame
  <2>2. game_count' = game_count - 1 /\ thread' = thread
    BY <1>17 DEF RemoveGame
  <2>3. s \in Active /\ s \in Slot
    BY <2>1 DEF Lookup, Active
  <2>4. games' \in [Slot -> GameRecord]
    BY <2>1, <2>3 DEF Table, GameRecord
  <2>5. \A u \in Slot : /\ games'[u].active = (u # s /\ games[u].active)
                        /\ games'[u].spectators = games[u].spectators
    BY <2>1, <2>3 DEF Table, GameRecord
  <2>6. Active' = Active \ {s}
    BY <2>5 DEF Active
  <2>7. Cardinality(Active') = Cardinality(Active) - 1
    BY <2>3, <2>6, ActiveIsSmall, FS_RemoveElement
  <2>8. Table'
    BY <2>2, <2>4, <2>5, <2>7 DEF Table
  <2>9. QED BY <2>2, <2>8 DEF Points
<1>18. QED
  BY <1>3, <1>4, <1>5, <1>6, <1>7, <1>9, <1>10, <1>13, <1>14, <1>15, <1>16, <1>17 DEF Next

\* The invariant TypeOK of Connections.tla: a thread that looks at a slot, or
\* changes one, does so inside the table, whatever games come and go between its
\* steps, and game_count is the number of games.
THEOREM ThreadsStayInTheTable == Spec => []TypeOK
<1>1. IInv /\ Table /\ Points => TypeOK
  <2> SUFFICES ASSUME IInv, Table, Points PROVE TypeOK
    OBVIOUS
  <2>1. /\ players \subseteq Player /\ connected \subseteq players /\ registry \subseteq Thread
        /\ main.at \in {"accept", "add", "spawn"}
        /\ main.at # "accept" => main.who \in Player
    BY DEF IInv, Types, Enlisted
  <2>2. ASSUME NEW t \in Thread
        PROVE  /\ thread[t].at \in At
               /\ thread[t].at # "unused" => thread[t].who \in Player
               /\ thread[t].at = "look" => thread[t].i \in Slot
               /\ thread[t].at \in {"spectate", "stop", "unspectate"} => thread[t].slot \in Slot
    BY DEF IInv, Types, Points, Slot
  <2>3. QED BY <2>1, <2>2 DEF TypeOK, Table, GameRecord
<1>2. QED BY <1>1, Invariant, TableInit, TableKept, PTL DEF Spec
-----------------------------------------------------------------------------
(* The spectators that a client leaves behind.                              *)

Unique == \A s, u \in Active : games[s].id = games[u].id => s = u

\* A thread that has yet to come to slot s in the loop at its end.
WillVisit(t, s) ==
  \/ thread[t].at \in Holding
  \/ thread[t].at \in {"test", "look", "unspectate"} /\ thread[t].i <= s

\* As long as no game has left the table, its games are in the first slots, so
\* that the loop, which is bounded by their number, comes to each; what it finds
\* by its id is the slot it looked at; and a spectator has a thread that is to
\* come to the slot.
Visited ==
  ~removed =>
    /\ Active = 1 .. game_count
    /\ Unique =>
         /\ \A t \in Thread : thread[t].at = "unspectate" => thread[t].slot = thread[t].i
         /\ \A s \in Active : \A p \in games[s].spectators :
              \E t \in Thread : thread[t].who = p /\ WillVisit(t, s)

TInv == IInv /\ Table /\ Points

\* A thread that goes on: it still has to come to the slots it had to come to,
\* but for those whose list its client has left.
LEMMA VisitedOn ==
  ASSUME TInv, Visited, NEW t \in Thread,
         \A u \in Thread \ {t} : thread'[u] = thread[u],
         thread'[t].at = "unspectate" => thread'[t].slot = thread'[t].i,
         \A s \in Active : WillVisit(t, s) =>
           thread'[t].who = thread[t].who /\ WillVisit(t, s)',
         UNCHANGED <<games, game_count, removed>>
  PROVE  Visited'
<1> SUFFICES ASSUME ~removed PROVE Visited'
  BY DEF Visited
<1>1. Active' = Active /\ Unique' = Unique
  BY DEF Active, Unique
<1>2. ASSUME Unique
      PROVE  \A u \in Thread : thread'[u].at = "unspectate" => thread'[u].slot = thread'[u].i
  BY <1>2 DEF Visited
<1>3. ASSUME Unique, NEW s \in Active, NEW p \in games[s].spectators
      PROVE  \E u \in Thread : thread'[u].who = p /\ WillVisit(u, s)'
  <2>1. PICK u \in Thread : thread[u].who = p /\ WillVisit(u, s)
    BY <1>3 DEF Visited
  <2>2. CASE u = t
    BY <2>1, <2>2
  <2>3. CASE u # t
    BY <2>1, <2>3 DEF WillVisit
  <2>4. QED BY <2>2, <2>3
<1>4. QED BY <1>1, <1>2, <1>3 DEF Visited

\* Initially no cleanup has gone through anything.
LEMMA VisitedInit == Init => Visited
<1> SUFFICES ASSUME Init PROVE Visited
  OBVIOUS
<1>1. Active = {} /\ game_count = 0
  BY DEF Init, Active
<1>2. \A t \in Thread : thread[t].at = "unused"
  BY DEF Init, Unused
<1>3. QED BY <1>1, <1>2 DEF Visited

\* A cleanup leaves its player in no game it has passed, whatever others do.
LEMMA VisitedKept ==
  ASSUME TInv, Visited, [Next]_vars
  PROVE  Visited'
<1> USE DEF playerVars, gameVars
<1>0. /\ thread \in [Thread -> [at : At, who : Player \union {NoPlayer}, i : Int, slot : Int]]
      /\ Table /\ Points
  BY DEF TInv, IInv, Types
<1>1. CASE UNCHANGED vars \/ (\E p \in Player : Accept(p)) \/ Add \/ SpawnFails
  <2>1. UNCHANGED <<games, game_count, removed, thread>>
    BY <1>1 DEF vars, Accept, Add, SpawnFails
  <2>2. QED BY <2>1 DEF Visited, Unique, Active, WillVisit
<1>2. ASSUME NEW t \in Thread, Spawn(t) PROVE Visited'
  <2>1. /\ UNCHANGED <<games, game_count, removed>> /\ thread[t].at = "unused"
        /\ thread' = [thread EXCEPT ![t] = [Unused EXCEPT !.at = "start", !.who = main.who]]
    BY <1>2 DEF Spawn
  <2>2. thread'[t].at = "start" /\ \A u \in Thread \ {t} : thread'[u] = thread[u]
    BY <1>0, <2>1 DEF Unused
  <2>3. \A s \in Active : ~WillVisit(t, s)
    BY <2>1 DEF WillVisit, Holding, Registered
  <2>4. QED BY <2>1, <2>2, <2>3, VisitedOn
<1>3. ASSUME NEW t \in Thread, Register(t) \/ Leave(t) \/ Unregister(t) PROVE Visited'
  <2>1. UNCHANGED <<games, game_count, removed>> /\ thread[t].at \in Holding
    BY <1>3 DEF Register, Leave, Unregister, Holding, Registered
  <2>2. PICK a \in {"serving", "unregister", "remove_player"} : GoTo(t, a)
    <3>1. Register(t) => GoTo(t, "serving")
      BY Room DEF TInv, Register
    <3>2. QED BY <1>3, <3>1 DEF Leave, Unregister
  <2>3. /\ thread'[t].at = a /\ thread'[t].who = thread[t].who
        /\ \A u \in Thread \ {t} : thread'[u] = thread[u]
    BY <1>0, <2>2 DEF GoTo
  <2>4. \A s \in Active : WillVisit(t, s)'
    BY <2>3 DEF WillVisit, Holding, Registered
  <2>5. QED BY <2>1, <2>3, <2>4, VisitedOn
<1>4. ASSUME NEW t \in Thread, RemovePlayer(t) PROVE Visited'
  <2>1. /\ UNCHANGED <<games, game_count, removed>>
        /\ thread' = [thread EXCEPT ![t].at = "test", ![t].i = 1]
    BY <1>4 DEF RemovePlayer
  <2>2. /\ thread'[t].at = "test" /\ thread'[t].i = 1 /\ thread'[t].who = thread[t].who
        /\ \A u \in Thread \ {t} : thread'[u] = thread[u]
    BY <1>0, <2>1
  <2>3. \A s \in Active : WillVisit(t, s)'
    <3>1. \A s \in Active : s \in Int /\ 1 <= s
      BY ConnectionsAssumption DEF Active, Slot
    <3>2. QED BY <2>2, <3>1 DEF WillVisit
  <2>4. QED BY <2>1, <2>2, <2>3, VisitedOn
<1>5. ASSUME NEW t \in Thread, Test(t) PROVE Visited'
  <2>1. UNCHANGED <<games, game_count, removed>> /\ thread[t].at = "test"
    BY <1>5 DEF Test
  <2>2. CASE thread[t].i <= game_count
    <3>1. thread' = [thread EXCEPT ![t].at = "look"]
      BY <1>5, <2>2 DEF Test, GoTo
    <3>2. /\ thread'[t].at = "look" /\ thread'[t].i = thread[t].i
          /\ thread'[t].who = thread[t].who
          /\ \A u \in Thread \ {t} : thread'[u] = thread[u]
      BY <1>0, <3>1
    <3>3. \A s \in Active : WillVisit(t, s) => WillVisit(t, s)'
      BY <2>1, <3>2 DEF WillVisit, Holding, Registered
    <3>4. QED BY <2>1, <3>2, <3>3, VisitedOn
  <2>3. CASE ~(thread[t].i <= game_count)
    <3>1. thread' = [thread EXCEPT ![t] = Unused]
      BY <1>5, <2>3 DEF Test, End
    <3>2. thread'[t].at = "unused" /\ \A u \in Thread \ {t} : thread'[u] = thread[u]
      BY <1>0, <3>1 DEF Unused
    <3>3. ASSUME ~removed, NEW s \in Active PROVE ~WillVisit(t, s)
      <4>1. s \in Int /\ s <= game_count
        BY <3>3, ActiveIsSmall DEF Visited, Table
      <4>2. thread[t].i \in Int /\ game_count \in Int
        BY <1>0, ActiveIsSmall DEF Table
      <4>3. ~(thread[t].i <= s)
        BY <2>3, <4>1, <4>2
      <4>4. QED BY <2>1, <4>3 DEF WillVisit, Holding, Registered
    <3>4. CASE removed
      BY <2>1, <3>4 DEF Visited
    <3>5. QED BY <2>1, <3>2, <3>3, <3>4, VisitedOn
  <2>4. QED BY <2>2, <2>3
<1>6. ASSUME NEW t \in Thread, Look(t) PROVE Visited'
  <2>1. UNCHANGED <<games, game_count, removed>> /\ thread[t].at = "look"
    BY <1>6 DEF Look
  <2> DEFINE i == thread[t].i
  <2>2. i \in Slot
    BY <1>0, <2>1 DEF Points, Slot
  <2>3. CASE ~games[i].active
    <3>1. Advance(t)
      BY <1>6, <2>3 DEF Look
    <3>2. /\ thread'[t].at = "test" /\ thread'[t].i = i + 1
          /\ thread'[t].who = thread[t].who
          /\ \A u \in Thread \ {t} : thread'[u] = thread[u]
      BY <1>0, <3>1 DEF Advance
    <3>3. ASSUME NEW s \in Active, WillVisit(t, s) PROVE WillVisit(t, s)'
      <4>1. s \in Int /\ i \in Int /\ i <= s /\ s # i
        BY <2>1, <2>2, <2>3, <3>3, ConnectionsAssumption
           DEF WillVisit, Active, Slot, Holding, Registered
      <4>2. i + 1 <= s
        BY <4>1
      <4>3. QED BY <3>2, <4>2 DEF WillVisit
    <3>4. QED BY <2>1, <3>2, <3>3, VisitedOn
  <2>4. CASE games[i].active
    <3>1. PICK s \in Lookup(games[i].id) :
            thread' = [thread EXCEPT ![t].at = "unspectate", ![t].slot = s]
      BY <1>6, <2>4 DEF Look
    <3>2. /\ thread'[t].at = "unspectate" /\ thread'[t].slot = s /\ thread'[t].i = i
          /\ thread'[t].who = thread[t].who
          /\ \A u \in Thread \ {t} : thread'[u] = thread[u]
      BY <1>0, <3>1
    <3>3. \A u \in Active : WillVisit(t, u) => WillVisit(t, u)'
      BY <2>1, <3>2 DEF WillVisit, Holding, Registered
    <3>4. CASE Unique
      <4>1. s = i
        BY <2>2, <2>4, <3>1, <3>4 DEF Lookup, Active, Unique
      <4>2. QED BY <2>1, <3>2, <3>3, <4>1, VisitedOn
    <3>5. CASE ~Unique
      BY <2>1, <3>5 DEF Visited, Unique, Active
    <3>6. QED BY <3>4, <3>5
  <2>5. QED BY <2>3, <2>4
<1>7. ASSUME NEW t \in Thread, NEW id \in GameId, NEW step \in {"spectate", "stop"},
             Seek(t, id, step)
      PROVE  Visited'
  <2>1. PICK s \in Lookup(id) :
          thread' = [thread EXCEPT ![t].at = step, ![t].slot = s]
    BY <1>7 DEF Seek
  <2>2. /\ thread'[t].at = step /\ thread'[t].who = thread[t].who
        /\ \A u \in Thread \ {t} : thread'[u] = thread[u]
    BY <1>0, <2>1
  <2>3. UNCHANGED <<games, game_count, removed>>
    BY <1>7 DEF Seek
  <2>4. \A u \in Active : WillVisit(t, u)'
    BY <2>2 DEF WillVisit, Holding, Registered
  <2>5. QED BY <2>2, <2>3, <2>4, VisitedOn
<1>8. ASSUME NEW t \in Thread, AddSpectator(t) \/ StopSpectate(t) \/ Unspectate(t)
      PROVE  Visited'
  <2> DEFINE k == thread[t].slot
             p == thread[t].who
  <2>1. /\ UNCHANGED <<game_count, removed>> /\ k \in Slot
        /\ thread[t].at \in {"spectate", "stop", "unspectate"}
    BY <1>0, <1>8 DEF AddSpectator, StopSpectate, Unspectate, Points
  <2>2. PICK list \in SUBSET (games[k].spectators \union {p}) :
          /\ games' = [games EXCEPT ![k].spectators = list]
          /\ Unspectate(t) => list = games[k].spectators \ {p}
    <3>1. CASE AddSpectator(t)
      <4>1. /\ ~Unspectate(t)
            /\ games' = [games EXCEPT ![k].spectators = games[k].spectators \union {p}] \/ games' = games
        BY <3>1 DEF AddSpectator, Unspectate
      <4>2. games = [games EXCEPT ![k].spectators = games[k].spectators]
        BY <1>0, <2>1 DEF Table, GameRecord
      <4>3. QED BY <4>1, <4>2
    <3>2. CASE StopSpectate(t) \/ Unspectate(t)
      BY <3>2 DEF StopSpectate, Unspectate, RemoveSpectator
    <3>3. QED BY <1>8, <3>1, <3>2
  <2>3. \A u \in Slot : /\ games'[u].active = games[u].active /\ games'[u].id = games[u].id
                        /\ games'[u].spectators = IF u = k THEN list ELSE games[u].spectators
    BY <1>0, <2>1, <2>2 DEF Table, GameRecord
  <2>4. Active' = Active /\ Unique' = Unique
    <3>1. Active' = Active
      BY <2>3 DEF Active
    <3>2. QED BY <2>3, <3>1 DEF Unique, Active
  <2>5. /\ thread'[t].who = p /\ \A u \in Thread \ {t} : thread'[u] = thread[u]
        /\ \/ thread'[t].at = "serving" /\ ~Unspectate(t)
           \/ /\ Unspectate(t) /\ thread'[t].at = "test" /\ thread'[t].i = thread[t].i + 1
              /\ thread[t].at = "unspectate"
    BY <1>0, <1>8, <2>1 DEF AddSpectator, StopSpectate, Unspectate, Serve, Advance
  <2>6. ASSUME ~removed, Unique, NEW s \in Active, NEW q \in games'[s].spectators
        PROVE  \E u \in Thread : thread'[u].who = q /\ WillVisit(u, s)'
    <3>0. s \in Slot
      BY DEF Active
    <3>1. CASE q = p /\ ~Unspectate(t)
      <4>1. WillVisit(t, s)'
        BY <2>5, <3>1 DEF WillVisit, Holding, Registered
      <4>2. QED BY <2>5, <3>1, <4>1
    <3>2. CASE q # p \/ Unspectate(t)
      <4>1. q \in games[s].spectators /\ (s = k /\ Unspectate(t) => q # p)
        BY <2>2, <2>3, <2>6, <3>0, <3>2
      <4>2. PICK u \in Thread : thread[u].who = q /\ WillVisit(u, s)
        BY <2>6, <4>1 DEF Visited
      <4>3. CASE u # t
        BY <2>5, <4>2, <4>3 DEF WillVisit
      <4>4. CASE u = t
        <5>1. q = p /\ Unspectate(t) /\ s # k
          BY <3>2, <4>1, <4>2, <4>4
        <5>2. k = thread[t].i
          BY <2>5, <2>6, <5>1 DEF Visited
        <5>3. thread[t].i <= s /\ thread'[t].at = "test" /\ thread'[t].i = thread[t].i + 1
          BY <2>5, <4>2, <4>4, <5>1 DEF WillVisit, Holding, Registered
        <5>4. s \in Int /\ k \in Int
          BY <2>1, <3>0, ConnectionsAssumption DEF Slot
        <5>5. thread'[t].i <= s
          BY <5>1, <5>2, <5>3, <5>4
        <5>6. WillVisit(t, s)'
          BY <5>3, <5>5 DEF WillVisit
        <5>7. QED BY <2>5, <5>1, <5>6
      <4>5. QED BY <4>3, <4>4
    <3>3. QED BY <3>1, <3>2
  <2>7. ASSUME ~removed, Unique, NEW u \in Thread, thread'[u].at = "unspectate"
        PROVE  thread'[u].slot = thread'[u].i
    BY <2>5, <2>7 DEF Visited
  <2>8. QED BY <2>1, <2>4, <2>6, <2>7 DEF Visited
<1>9. ASSUME NEW id \in GameId, CreateGame(id) PROVE Visited'
  <2>1. PICK s \in Slot \ Active :
          /\ \A u \in Slot \ Active : s <= u
          /\ games' = [games EXCEPT ![s] = [active |-> TRUE, id |-> id, spectators |-> {}]]
    BY <1>9 DEF CreateGame
  <2>2. game_count' = game_count + 1 /\ game_count < MaxGames /\ UNCHANGED <<thread, removed>>
    BY <1>9 DEF CreateGame
  <2>3. \A u \in Slot : games'[u] = IF u = s THEN [active |-> TRUE, id |-> id, spectators |-> {}]
                                    ELSE games[u]
    BY <1>0, <2>1 DEF Table
  <2>4. Active' = Active \union {s}
    BY <2>1, <2>3 DEF Active
  <2>5. ASSUME ~removed PROVE Active' = 1 .. game_count'
    <3>1. game_count \in Nat /\ Active = 1 .. game_count
      BY <2>5, ActiveIsSmall, <1>0 DEF Visited, Table
    <3>2. s = game_count + 1
      <4>1. game_count + 1 \in Slot \ Active
        BY <2>2, <3>1, ConnectionsAssumption DEF Slot
      <4>2. s <= game_count + 1
        BY <2>1, <4>1
      <4>3. s \in Nat /\ s >= 1 /\ ~(s <= game_count)
        BY <2>1, <3>1, ConnectionsAssumption DEF Slot
      <4>4. QED BY <3>1, <4>2, <4>3
    <3>3. QED BY <2>2, <2>4, <3>1, <3>2
  <2>6. Unique' => Unique
    <3>1. \A u \in Active : u \in Active' /\ games'[u].id = games[u].id
      BY <2>1, <2>3, <2>4 DEF Active
    <3>2. QED BY <3>1 DEF Unique
  <2>7. ASSUME ~removed, Unique', NEW u \in Active', NEW p \in games'[u].spectators
        PROVE  \E t \in Thread : thread'[t].who = p /\ WillVisit(t, u)'
    <3>1. u \in Active /\ p \in games[u].spectators
      BY <2>1, <2>3, <2>4 DEF Active
    <3>2. PICK t \in Thread : thread[t].who = p /\ WillVisit(t, u)
      BY <2>6, <2>7, <3>1 DEF Visited
    <3>3. QED BY <2>2, <3>2 DEF WillVisit
  <2>8. QED BY <2>2, <2>5, <2>6, <2>7 DEF Visited
<1>10. ASSUME NEW id \in GameId, RemoveGame(id) PROVE Visited'
  BY <1>10 DEF RemoveGame, Visited
<1>11. QED
  BY <1>1, <1>2, <1>3, <1>4, <1>5, <1>6, <1>7, <1>8, <1>9, <1>10 DEF Next

\* The invariant SpectatorsLeave of Connections.tla: unless a game has left the
\* table or two have one id, a player whose threads have ended is in no list of
\* spectators, for any number of players, threads and games.
THEOREM LeaversWatchNothing == Spec => []SpectatorsLeave
<1>1. TInv /\ Visited => SpectatorsLeave
  <2> SUFFICES ASSUME TInv, Visited, ~removed, Unique, NEW p \in Player, Gone(p),
                      NEW s \in Active
               PROVE  p \notin games[s].spectators
    BY DEF SpectatorsLeave, Unique
  <2>1. QED BY DEF Visited, Gone
<1>2. Spec => [](TInv)
  BY Invariant, TableInit, TableKept, PTL DEF Spec, TInv
<1>3. QED BY <1>1, <1>2, VisitedInit, VisitedKept, PTL DEF Spec
=============================================================================
