-------------------------- MODULE ChallengesProofs --------------------------
(***************************************************************************)
(* Theorems about Matchmaking.tla and Challenges.tla, for any number of    *)
(* players, slots and challenges, any limits and any period of the         *)
(* cleanup.  Of the tables of matchmaking by themselves: their invariants, *)
(* and that they implement ChallengeBook.tla.  Of the handlers over them:  *)
(* their types, that a challenge is answered once, that the answer is the  *)
(* answer to the challenge that was made, though the handlers keep a       *)
(* pointer to a slot they hold no lock on, and that nobody is declined     *)
(* beyond the limit.                                                       *)
(*                                                                         *)
(* The argument for the handlers: an id is heard by one player, the        *)
(* opponent it was issued for, whose thread handles one message at a time. *)
(* So nobody but this thread and the cleanup frees the slot of the         *)
(* challenge, and between finding and answering a challenge the thread     *)
(* points to its slot unless it expired, and the challenge has no answer   *)
(* yet.                                                                    *)
(***************************************************************************)
EXTENDS Challenges, FiniteSetTheorems, TLAPS

-----------------------------------------------------------------------------
(* The tables of matchmaking.                                               *)

\* There are as many slots as MaxChallenges says.
LEMMA SlotsFinite == IsFiniteSet(Slot) /\ Cardinality(Slot) = MaxChallenges
  BY MatchmakingAssumption, FS_Interval DEF Slot

\* The slots in use are finitely many.
LEMMA ActiveFinite == IsFiniteSet(Active) /\ Cardinality(Active) \in Nat
  BY SlotsFinite, FS_Subset, FS_CardinalityType DEF Active

\* What freeing some of the slots in use does, and that the count follows.
LEMMA FreeFacts ==
  ASSUME MMTypeOK, NEW slots \in SUBSET Active, Free(slots)
  PROVE  /\ Active' = Active \ slots
         /\ challenges' \in [Slot -> Challenge]
         /\ \A s \in Slot : /\ challenges'[s].id = challenges[s].id
                            /\ challenges'[s].challenger = challenges[s].challenger
                            /\ challenges'[s].opponent = challenges[s].opponent
                            /\ challenges'[s].created_at = challenges[s].created_at
         /\ challenge_count' \in Int
         /\ CountMatchesSlots => CountMatchesSlots'
<1>1. challenges \in [Slot -> Challenge] /\ challenge_count \in Int
  BY DEF MMTypeOK
<1>2. \A s \in Slot : challenges[s] \in Challenge
  BY <1>1
<1>3. challenges' = [s \in Slot |->
        IF s \in slots THEN [challenges[s] EXCEPT !.active = FALSE] ELSE challenges[s]]
  BY DEF Free
<1>4. \A s \in Slot :
        /\ challenges'[s] \in Challenge
        /\ challenges'[s].active = (challenges[s].active /\ s \notin slots)
        /\ challenges'[s].id = challenges[s].id
        /\ challenges'[s].challenger = challenges[s].challenger
        /\ challenges'[s].opponent = challenges[s].opponent
        /\ challenges'[s].created_at = challenges[s].created_at
  BY <1>2, <1>3 DEF Challenge
<1>5. Active' = Active \ slots
  BY <1>4 DEF Active
<1>6. challenges' \in [Slot -> Challenge]
  BY <1>3, <1>4
<1>7. /\ IsFiniteSet(slots) /\ Cardinality(slots) \in Nat
      /\ Cardinality(Active \ slots) = Cardinality(Active) - Cardinality(slots)
  <2>1. IsFiniteSet(slots) /\ Cardinality(slots) \in Nat
    BY ActiveFinite, FS_Subset, FS_CardinalityType
  <2>2. Active \cap slots = slots
    OBVIOUS
  <2>3. QED BY <2>1, <2>2, ActiveFinite, FS_Difference
<1>8. challenge_count' = challenge_count - Cardinality(slots)
  BY DEF Free
<1>9. QED BY <1>1, <1>4, <1>5, <1>6, <1>7, <1>8, ActiveFinite DEF CountMatchesSlots

\* What a new challenge does to the slots.
LEMMA CreateFacts ==
  ASSUME MMTypeOK, NEW c \in Player, NEW o \in Player, CreateChallenge(c, o)
  PROVE  \E s \in Slot \ Active :
           /\ Active' = Active \union {s}
           /\ challenges' \in [Slot -> Challenge]
           /\ \A t \in Slot \ {s} : challenges'[t] = challenges[t]
           /\ challenges'[s] = [active |-> TRUE, id |-> next_id, challenger |-> c,
                                opponent |-> o, created_at |-> now']
<1>1. PICK s \in FirstFree :
        challenges' = [challenges EXCEPT ![s] =
          [active |-> TRUE, id |-> next_id, challenger |-> c, opponent |-> o,
           created_at |-> now']]
  BY DEF CreateChallenge
<1>2. s \in Slot \ Active
  BY DEF FirstFree
<1>3. challenges \in [Slot -> Challenge] /\ next_id \in Nat /\ now' \in Nat
  BY DEF MMTypeOK, CreateChallenge
<1>4. [active |-> TRUE, id |-> next_id, challenger |-> c, opponent |-> o,
       created_at |-> now'] \in Challenge
  BY <1>3 DEF Challenge
<1>5. challenges' \in [Slot -> Challenge]
  BY <1>1, <1>3, <1>4
<1>6. /\ \A t \in Slot \ {s} : challenges'[t] = challenges[t]
      /\ challenges'[s] = [active |-> TRUE, id |-> next_id, challenger |-> c,
                           opponent |-> o, created_at |-> now']
  BY <1>1, <1>2, <1>3
<1>7. Active' = Active \union {s}
  BY <1>2, <1>6 DEF Active
<1>8. QED BY <1>2, <1>5, <1>6, <1>7

\* Any call of a function of the component, whoever makes it and whenever: the
\* steps of MMSpec are such calls, and so are those of the handlers in Challenges.tla.
Anyone == Player \union {NoPlayer}
Call ==
  \/ \E p \in Player : AddPlayer(p) \/ RemovePlayer(p)
  \/ \E id \in Nat : RemoveChallengeById(id)
  \/ \E c, o \in Player : CreateChallenge(c, o) \/ NoNewChallenge(c, o) \/ RemoveChallenge(c, o)
  \/ \E c, o \in Anyone : TrackDecline(c, o)
  \/ CleanupExpired
  \/ Tick
  \/ UNCHANGED mmVars

\* Every step of matchmaking is one of its calls, or a stutter.
LEMMA StepIsCall == ASSUME MMTypeOK, [MMNext]_mmVars PROVE Call
<1>1. next_id - 1 \in Int /\ 1 .. next_id - 1 \subseteq Nat
  BY DEF MMTypeOK
<1>2. Player \subseteq Anyone
  BY DEF Anyone
<1>3. QED BY <1>1, <1>2 DEF MMNext, Call

\* Every call takes a slot, frees slots, or leaves the book alone.
LEMMA CallKinds ==
  ASSUME MMTypeOK, Call
  PROVE  \/ \E c, o \in Player : CreateChallenge(c, o)
         \/ \E slots \in SUBSET Active : Free(slots) /\ next_id' = next_id
         \/ UNCHANGED bookVars
<1>1. \A id : First(SlotsWithId(id)) \in SUBSET Active
  BY DEF First, SlotsWithId
<1>2. \A c, o : First(SlotsOf(c, o)) \in SUBSET Active
  BY DEF First, SlotsOf
<1>3. Expired \in SUBSET Active
  BY DEF Expired
<1>4. QED BY <1>1, <1>2, <1>3
  DEF Call, AddPlayer, RemovePlayer, NoNewChallenge, RemoveChallengeById, RemoveChallenge,
      CleanupExpired, TrackDecline, Tick, mmVars, bookVars

-----------------------------------------------------------------------------
(* The type invariant.                                                      *)

\* Declines that count are a natural number.
LEMMA DeclinesType ==
  ASSUME MMTypeOK, NEW c \in Player, NEW o \in Player
  PROVE  CurrentDeclines(o, c) \in Nat
  BY DEF MMTypeOK, CurrentDeclines

\* What a call stores of the declines is well typed.
LEMMA ForgetType ==
  ASSUME MMTypeOK, NEW c \in Player, NEW o \in Player, ForgetDeclines(c, o)
  PROVE  decline_counts' \in [Player -> [Player -> Nat]]
  BY DeclinesType DEF MMTypeOK, ForgetDeclines

\* Every call keeps the types.
LEMMA CallKeepsTypes == ASSUME MMTypeOK, Call PROVE MMTypeOK'
<1> USE DEF playerVars, bookVars, limitVars
<1>1. ASSUME NEW p \in Player, AddPlayer(p) PROVE MMTypeOK'
  BY <1>1 DEF AddPlayer, MMTypeOK, Slot, Challenge
<1>2. ASSUME NEW p \in Player, RemovePlayer(p) PROVE MMTypeOK'
  BY <1>2 DEF RemovePlayer, MMTypeOK, Slot, Challenge
<1>3. ASSUME NEW slots \in SUBSET Active, Free(slots),
             UNCHANGED <<playerVars, next_id, limitVars, now>>
      PROVE  MMTypeOK'
  <2>1. challenges' \in [Slot -> Challenge] /\ challenge_count' \in Int
    BY <1>3, FreeFacts
  <2>2. QED BY <1>3, <2>1 DEF MMTypeOK
<1>4. ASSUME NEW c \in Player, NEW o \in Player, CreateChallenge(c, o) PROVE MMTypeOK'
  <2>1. challenges' \in [Slot -> Challenge]
    BY <1>4, CreateFacts
  <2>2. decline_counts' \in [Player -> [Player -> Nat]]
    BY <1>4, ForgetType DEF CreateChallenge
  <2>3. last_challenge_times' \in [Player -> [Player -> Nat]]
    BY <1>4 DEF CreateChallenge, MMTypeOK
  <2>4. QED BY <1>4, <2>1, <2>2, <2>3 DEF CreateChallenge, MMTypeOK
<1>5. ASSUME NEW c \in Player, NEW o \in Player, NoNewChallenge(c, o) PROVE MMTypeOK'
  <2>1. decline_counts' \in [Player -> [Player -> Nat]]
    BY <1>5, ForgetType DEF NoNewChallenge
  <2>2. QED BY <1>5, <2>1 DEF NoNewChallenge, MMTypeOK
<1>6. ASSUME NEW c \in Anyone, NEW o \in Anyone, TrackDecline(c, o) PROVE MMTypeOK'
  <2>1. CASE {c, o} \subseteq players
    <3>1. c \in Player /\ o \in Player
      BY <2>1 DEF MMTypeOK
    <3>2. CurrentDeclines(o, c) + 1 \in Nat /\ now \in Nat
      BY <3>1, DeclinesType DEF MMTypeOK
    <3>3. /\ decline_counts' = [decline_counts EXCEPT ![o][c] = CurrentDeclines(o, c) + 1]
          /\ last_decline_times' = [last_decline_times EXCEPT ![o][c] = now]
      BY <1>6, <2>1 DEF TrackDecline
    <3>4. /\ decline_counts' \in [Player -> [Player -> Nat]]
          /\ last_decline_times' \in [Player -> [Player -> Nat]]
      BY <3>1, <3>2, <3>3 DEF MMTypeOK
    <3>5. QED BY <1>6, <3>4 DEF TrackDecline, MMTypeOK
  <2>2. CASE ~({c, o} \subseteq players)
    BY <1>6, <2>2 DEF TrackDecline, MMTypeOK
  <2>3. QED BY <2>1, <2>2
<1>7. CASE Tick
  BY <1>7 DEF Tick, MMTypeOK
<1>8. CASE UNCHANGED mmVars
  BY <1>8 DEF mmVars, MMTypeOK
<1>9. /\ \A id : First(SlotsWithId(id)) \in SUBSET Active
      /\ \A c, o : First(SlotsOf(c, o)) \in SUBSET Active
      /\ Expired \in SUBSET Active
  BY DEF First, SlotsWithId, SlotsOf, Expired
<1>10. ASSUME NEW id, RemoveChallengeById(id) PROVE MMTypeOK'
  BY <1>3, <1>9, <1>10 DEF RemoveChallengeById
<1>11. ASSUME NEW c \in Player, NEW o \in Player, RemoveChallenge(c, o) PROVE MMTypeOK'
  BY <1>3, <1>9, <1>11 DEF RemoveChallenge
<1>12. CASE CleanupExpired
  BY <1>3, <1>9, <1>12 DEF CleanupExpired
<1>13. QED
  BY <1>1, <1>2, <1>4, <1>5, <1>6, <1>7, <1>8, <1>10, <1>11, <1>12 DEF Call

\* The initial state is typed.
LEMMA MMInitTypes == MMInit => MMTypeOK
<1> SUFFICES ASSUME MMInit PROVE MMTypeOK
  OBVIOUS
<1>1. [active |-> FALSE, id |-> 0, challenger |-> NoPlayer, opponent |-> NoPlayer,
       created_at |-> 0] \in Challenge
  BY DEF Challenge
<1>2. challenges \in [Slot -> Challenge]
  BY <1>1 DEF MMInit
<1>3. now \in Nat
  BY MatchmakingAssumption DEF MMInit
<1>4. [c \in Player |-> [o \in Player |-> 0]] \in [Player -> [Player -> Nat]]
  OBVIOUS
<1>5. /\ last_challenge_times \in [Player -> [Player -> Nat]]
      /\ decline_counts \in [Player -> [Player -> Nat]]
      /\ last_decline_times \in [Player -> [Player -> Nat]]
  BY <1>4 DEF MMInit
<1>6. players \subseteq Player /\ connected \subseteq players
  BY MatchmakingAssumption DEF MMInit
<1>7. challenge_count \in Int /\ next_id \in Nat \ {0}
  BY DEF MMInit
<1>8. QED BY <1>2, <1>3, <1>5, <1>6, <1>7 DEF MMTypeOK

\* The invariant MMTypeOK of Matchmaking.tla.
THEOREM TypeCorrect == MMSpec => []MMTypeOK
<1>1. MMTypeOK /\ [MMNext]_mmVars => MMTypeOK'
  BY StepIsCall, CallKeepsTypes
<1>2. QED BY MMInitTypes, <1>1, PTL DEF MMSpec

-----------------------------------------------------------------------------
(* The count kept by hand.                                                  *)

\* Every call keeps the count right.
LEMMA CallKeepsCount ==
  ASSUME MMTypeOK, CountMatchesSlots, Call PROVE CountMatchesSlots'
<1>1. ASSUME NEW c \in Player, NEW o \in Player, CreateChallenge(c, o)
      PROVE  CountMatchesSlots'
  <2>1. PICK s \in Slot \ Active : Active' = Active \union {s}
    BY <1>1, CreateFacts
  <2>2. Cardinality(Active') = Cardinality(Active) + 1
    BY <2>1, ActiveFinite, FS_AddElement
  <2>3. challenge_count' = challenge_count + 1
    BY <1>1 DEF CreateChallenge
  <2>4. QED BY <2>2, <2>3 DEF CountMatchesSlots
<1>2. ASSUME NEW slots \in SUBSET Active, Free(slots) PROVE CountMatchesSlots'
  BY <1>2, FreeFacts
<1>3. CASE UNCHANGED bookVars
  BY <1>3 DEF bookVars, CountMatchesSlots, Active
<1>4. QED BY <1>1, <1>2, <1>3, CallKinds

\* Initially no slot is in use, and the count says so.
LEMMA MMInitCount == MMInit => CountMatchesSlots
<1> SUFFICES ASSUME MMInit PROVE CountMatchesSlots
  OBVIOUS
<1>1. Active = {}
  BY DEF MMInit, Active
<1>2. QED BY <1>1, FS_EmptySet DEF MMInit, CountMatchesSlots

\* The invariant CountMatchesSlots of Matchmaking.tla: every function that takes
\* or frees slots leaves the count right, however many it frees.
THEOREM CountIsRight == MMSpec => []CountMatchesSlots
<1>1. MMTypeOK /\ CountMatchesSlots /\ [MMNext]_mmVars => CountMatchesSlots'
  BY StepIsCall, CallKeepsCount
<1>2. QED BY MMInitCount, <1>1, TypeCorrect, PTL DEF MMSpec

-----------------------------------------------------------------------------
(* One slot per challenge.                                                  *)

\* Every call keeps the challenges apart.
LEMMA CallKeepsApart ==
  ASSUME MMTypeOK, OneSlotPerChallenge, Call PROVE OneSlotPerChallenge'
<1>0. next_id \in Nat \ {0} /\ Active \subseteq Slot
  BY DEF MMTypeOK, Active
<1>1. ASSUME NEW c \in Player, NEW o \in Player, CreateChallenge(c, o)
      PROVE  OneSlotPerChallenge'
  <2>1. PICK n \in Slot \ Active :
          /\ Active' = Active \union {n}
          /\ \A t \in Slot \ {n} : challenges'[t] = challenges[t]
          /\ challenges'[n] = [active |-> TRUE, id |-> next_id, challenger |-> c,
                               opponent |-> o, created_at |-> now']
    BY <1>1, CreateFacts
  <2>2. next_id' = next_id + 1
    BY <1>1 DEF CreateChallenge
  <2>3. SlotsOf(c, o) = {}
    BY <1>1 DEF CreateChallenge, CreateResult
  <2>4. \A s \in Active : challenges[s].challenger # c \/ challenges[s].opponent # o
    BY <2>3 DEF SlotsOf
  <2>5. \A s \in Active : challenges'[s] = challenges[s]
    BY <1>0, <2>1
  <2>6. \A s \in Active : challenges'[s].id \in 1 .. next_id - 1
    BY <2>5 DEF OneSlotPerChallenge
  <2>7. challenges'[n].id = next_id /\ challenges'[n].challenger = c
        /\ challenges'[n].opponent = o
    BY <2>1
  <2>8. ASSUME NEW s \in Active', NEW t \in Active'
        PROVE  /\ challenges'[s].id \in 1 .. next_id' - 1
               /\ s # t => /\ challenges'[s].id # challenges'[t].id
                           /\ <<challenges'[s].challenger, challenges'[s].opponent>>
                                # <<challenges'[t].challenger, challenges'[t].opponent>>
    <3>1. challenges'[s].id \in 1 .. next_id' - 1
      BY <1>0, <2>1, <2>2, <2>6, <2>7
    <3>2. CASE s \in Active /\ t \in Active
      BY <2>5, <3>1, <3>2 DEF OneSlotPerChallenge
    <3>3. CASE s = n /\ t \in Active
      BY <1>0, <2>4, <2>5, <2>6, <2>7, <3>1, <3>3
    <3>4. CASE s \in Active /\ t = n
      BY <1>0, <2>4, <2>5, <2>6, <2>7, <3>1, <3>4
    <3>5. CASE s = n /\ t = n
      BY <3>1, <3>5
    <3>6. QED BY <2>1, <3>2, <3>3, <3>4, <3>5
  <2>9. QED BY <2>8 DEF OneSlotPerChallenge
<1>2. ASSUME NEW slots \in SUBSET Active, Free(slots), next_id' = next_id
      PROVE  OneSlotPerChallenge'
  <2>1. /\ Active' \subseteq Active
        /\ \A s \in Active : /\ challenges'[s].id = challenges[s].id
                             /\ challenges'[s].challenger = challenges[s].challenger
                             /\ challenges'[s].opponent = challenges[s].opponent
    BY <1>0, <1>2, FreeFacts
  <2>2. QED BY <1>2, <2>1 DEF OneSlotPerChallenge
<1>3. CASE UNCHANGED bookVars
  BY <1>3 DEF bookVars, OneSlotPerChallenge, Active
<1>4. QED BY <1>1, <1>2, <1>3, CallKinds

\* The invariant OneSlotPerChallenge of Matchmaking.tla: an id is given once,
\* and a pair that has an open challenge is given no other.
THEOREM ChallengesAreToldApart == MMSpec => []OneSlotPerChallenge
<1>1. MMInit => OneSlotPerChallenge
  BY DEF MMInit, Active, OneSlotPerChallenge
<1>2. MMTypeOK /\ OneSlotPerChallenge /\ [MMNext]_mmVars => OneSlotPerChallenge'
  BY StepIsCall, CallKeepsApart
<1>3. QED BY <1>1, <1>2, TypeCorrect, PTL DEF MMSpec

-----------------------------------------------------------------------------
(* The rate limit.                                                          *)

\* LimitCountsFromChallenge, with whose the challenges are.
Limits ==
  \A s \in Active :
    /\ challenges[s].challenger \in Player /\ challenges[s].opponent \in Player
    /\ challenges[s].created_at
         \in LET since == last_challenge_times[challenges[s].challenger][challenges[s].opponent]
            IN  {since, since + 1}

\* A new challenge dates its own pair, which no other open challenge is of.
LEMMA CallKeepsLimits ==
  ASSUME MMTypeOK, OneSlotPerChallenge, OneSlotPerChallenge', Limits, Call
  PROVE  Limits'
<1>1. Active \subseteq Slot /\ challenges \in [Slot -> Challenge]
  BY DEF Active, MMTypeOK
<1>2. ASSUME NEW c \in Player, NEW o \in Player, CreateChallenge(c, o)
      PROVE  Limits'
  <2>1. PICK s \in Slot \ Active :
          /\ Active' = Active \union {s}
          /\ \A t \in Slot \ {s} : challenges'[t] = challenges[t]
          /\ challenges'[s] = [active |-> TRUE, id |-> next_id, challenger |-> c,
                               opponent |-> o, created_at |-> now']
    BY <1>2, CreateFacts
  <2>2. /\ last_challenge_times' = [last_challenge_times EXCEPT ![c][o] = now]
        /\ now' \in {now, now + 1} /\ last_challenge_times \in [Player -> [Player -> Nat]]
    BY <1>2 DEF CreateChallenge, MMTypeOK
  <2>3. /\ last_challenge_times'[c][o] = now
        /\ \A a, b \in Player : <<a, b>> # <<c, o>> =>
             last_challenge_times'[a][b] = last_challenge_times[a][b]
    BY <2>2
  <2>4. ASSUME NEW t \in Active
        PROVE  /\ challenges'[t] = challenges[t]
               /\ <<challenges[t].challenger, challenges[t].opponent>> # <<c, o>>
    <3>1. t \in Active' /\ s \in Active' /\ t # s /\ challenges'[t] = challenges[t]
      BY <1>1, <2>1
    <3>2. <<challenges'[t].challenger, challenges'[t].opponent>>
            # <<challenges'[s].challenger, challenges'[s].opponent>>
      BY <3>1 DEF OneSlotPerChallenge
    <3>3. QED BY <2>1, <3>1, <3>2
  <2>5. QED BY <2>1, <2>2, <2>3, <2>4 DEF Limits
<1>3. ASSUME NEW slots \in SUBSET Active, Free(slots), last_challenge_times' = last_challenge_times
      PROVE  Limits'
  BY <1>1, <1>3, FreeFacts DEF Limits
<1>4. ASSUME UNCHANGED bookVars, last_challenge_times' = last_challenge_times
      PROVE  Limits'
  BY <1>4 DEF Limits, bookVars, Active
<1>5. CASE \/ \E id \in Nat : RemoveChallengeById(id)
           \/ \E c, o \in Player : RemoveChallenge(c, o)
           \/ CleanupExpired
  <2>1. /\ \A id : First(SlotsWithId(id)) \in SUBSET Active
        /\ \A c, o : First(SlotsOf(c, o)) \in SUBSET Active
        /\ Expired \in SUBSET Active
    BY DEF First, SlotsWithId, SlotsOf, Expired
  <2>2. QED BY <1>3, <1>5, <2>1 DEF RemoveChallengeById, RemoveChallenge, CleanupExpired, limitVars
<1>6. CASE \/ \E p \in Player : AddPlayer(p) \/ RemovePlayer(p)
           \/ \E c, o \in Player : NoNewChallenge(c, o)
           \/ \E c, o \in Anyone : TrackDecline(c, o)
           \/ Tick \/ UNCHANGED mmVars
  BY <1>4, <1>6 DEF AddPlayer, RemovePlayer, NoNewChallenge, TrackDecline, Tick, limitVars,
                    bookVars, mmVars
<1>7. QED BY <1>2, <1>5, <1>6 DEF Call

\* create_challenge_with_id: the time the rate limit counts from is the one of the
\* challenge that is open, or the second before it.
THEOREM LimitIsOfTheChallenge == MMSpec => []LimitCountsFromChallenge
<1>1. MMInit => Limits
  BY DEF MMInit, Active, Limits
<1>2. ASSUME MMTypeOK, OneSlotPerChallenge, OneSlotPerChallenge', Limits, [MMNext]_mmVars
      PROVE  Limits'
  BY <1>2, StepIsCall, CallKeepsLimits
<1>3. Limits => LimitCountsFromChallenge
  BY DEF Limits, LimitCountsFromChallenge
<1>4. QED BY <1>1, <1>2, <1>3, TypeCorrect, ChallengesAreToldApart, PTL DEF MMSpec

-----------------------------------------------------------------------------
(* The component implements ChallengeBook.tla.                              *)

\* There are no more open challenges than slots in use.
LEMMA OpenIsSmall == Cardinality(Open) <= Cardinality(Active)
<1> DEFINE Entry(s) == [id |-> challenges[s].id, challenger |-> challenges[s].challenger,
                        opponent |-> challenges[s].opponent]
           f == [s \in Active |-> Entry(s)]
<1>1. Open = {Entry(s) : s \in Active}
  BY DEF Open
<1> HIDE DEF Entry
<1>2. f \in Surjection(Active, Open)
  BY <1>1 DEF Surjection
<1>3. QED BY <1>2, ActiveFinite, FS_Surjection

\* The empty table maps to the empty book.
LEMMA MMInitBook == MMInit => Book!Init
<1> SUFFICES ASSUME MMInit PROVE Book!Init
  OBVIOUS
<1>1. Active = {}
  BY DEF MMInit, Active
<1>2. QED BY <1>1 DEF MMInit, Open, Book!Init

\* Every call is a step of the book.
LEMMA CallRefinesBook ==
  ASSUME MMTypeOK, CountMatchesSlots, OneSlotPerChallenge, Call
  PROVE  [Book!Next]_(Book!vars)
<1> DEFINE Entry(s) == [id |-> challenges[s].id, challenger |-> challenges[s].challenger,
                        opponent |-> challenges[s].opponent]
<1>0. Active \subseteq Slot
  BY DEF Active
<1>1. ASSUME NEW c \in Player, NEW o \in Player, CreateChallenge(c, o)
      PROVE  Book!Issue(c, o)
  <2> DEFINE new == [id |-> next_id, challenger |-> c, opponent |-> o]
  <2>1. PICK n \in Slot \ Active :
          /\ Active' = Active \union {n}
          /\ \A t \in Slot \ {n} : challenges'[t] = challenges[t]
          /\ challenges'[n] = [active |-> TRUE, id |-> next_id, challenger |-> c,
                               opponent |-> o, created_at |-> now']
    BY <1>1, CreateFacts
  <2>2. \A s \in Active : Entry(s)' = Entry(s)
    BY <1>0, <2>1
  <2>3. Entry(n)' = new
    BY <2>1
  <2>4. Open' = {Entry(s)' : s \in Active} \union {Entry(n)'}
    BY <2>1 DEF Open
  <2>5. Open = {Entry(s) : s \in Active}
    BY DEF Open
  <2>6. Open' = Open \union {new}
    <3> HIDE DEF Entry, new
    <3>1. {Entry(s)' : s \in Active} = {Entry(s) : s \in Active}
      BY <2>2
    <3>2. QED BY <3>1, <2>3, <2>4, <2>5
  <2>7. Cardinality(Open) < MaxChallenges
    <3>1. challenge_count < MaxChallenges
      BY <1>1, MatchmakingAssumption DEF CreateChallenge, CreateResult, MMTypeOK
    <3>2. Cardinality(Open) \in Nat
      <4> DEFINE g == [s \in Active |-> Entry(s)]
      <4>1. g \in Surjection(Active, Open)
        <5> HIDE DEF Entry
        <5>1. QED BY <2>5 DEF Surjection
      <4> HIDE DEF g
      <4>2. IsFiniteSet(Open)
        BY <4>1, ActiveFinite, FS_Surjection
      <4>3. QED BY <4>2, FS_CardinalityType
    <3>3. QED
      BY <3>1, <3>2, OpenIsSmall, ActiveFinite, MatchmakingAssumption DEF CountMatchesSlots
  <2>8. SlotsOf(c, o) = {}
    BY <1>1 DEF CreateChallenge, CreateResult
  <2>9. \A e \in Open : <<e.challenger, e.opponent>> # <<c, o>>
    BY <2>5, <2>8 DEF SlotsOf
  <2>10. next_id' = next_id + 1
    BY <1>1 DEF CreateChallenge
  <2>11. Book!Cardinality(Open) = Cardinality(Open)
    BY DEF Book!Cardinality, Cardinality
  <2>12. QED BY <2>6, <2>7, <2>9, <2>10, <2>11 DEF Book!Issue
<1>2. ASSUME NEW slots \in SUBSET Active, Free(slots), next_id' = next_id
      PROVE  Book!Withdraw({Entry(s) : s \in slots}) /\ {Entry(s) : s \in slots} \subseteq Open
  <2>1. /\ Active' = Active \ slots
        /\ \A s \in Active : /\ challenges'[s].id = challenges[s].id
                             /\ challenges'[s].challenger = challenges[s].challenger
                             /\ challenges'[s].opponent = challenges[s].opponent
    BY <1>0, <1>2, FreeFacts
  <2>2. \A s \in Active : Entry(s)' = Entry(s)
    BY <2>1
  <2>3. \A s, t \in Active : Entry(s) = Entry(t) => s = t
    BY DEF OneSlotPerChallenge
  <2>4. Open = {Entry(s) : s \in Active} /\ Open' = {Entry(s)' : s \in Active'}
    BY DEF Open
  <2> HIDE DEF Entry
  <2>5. Open' = {Entry(s) : s \in Active \ slots}
    BY <2>1, <2>2, <2>4
  <2>6. Open' = Open \ {Entry(s) : s \in slots}
    BY <2>3, <2>4, <2>5
  <2>7. {Entry(s) : s \in slots} \subseteq Open
    BY <2>4
  <2>8. QED BY <1>2, <2>6, <2>7 DEF Book!Withdraw
<1>3. CASE UNCHANGED bookVars
  BY <1>3 DEF bookVars, Open, Active, Book!vars
<1> HIDE DEF Entry
<1>4. QED BY <1>1, <1>2, <1>3, CallKinds DEF Book!Next

\* The refinement RefinesBook of Matchmaking.tla.
THEOREM ImplementsBook == MMSpec => RefinesBook
<1>1. MMTypeOK /\ CountMatchesSlots /\ OneSlotPerChallenge /\ [MMNext]_mmVars
        => [Book!Next]_(Book!vars)
  BY StepIsCall, CallRefinesBook
<1>2. QED
  BY MMInitBook, <1>1, TypeCorrect, CountIsRight, ChallengesAreToldApart, PTL
  DEF MMSpec, RefinesBook, Book!Spec

-----------------------------------------------------------------------------
(* The handlers.                                                            *)

\* The ids given out, and the steps of a handler: while it may point to the slot
\* of an open challenge, when it has answered one, and all those that answer one.
Made      == 1 .. next_id - 1
Finding   == {"accept_check", "accept_session", "accept_create", "decline_check", "decline_track"}
Removing  == {"accept_remove", "decline_remove"}
Answering == Step \ {"idle", "create", "notify"}

\* What the thread of a player holds, and what the history variables hold.
Desk   == [at : Step, id : 0 .. next_id - 1, slot : {0} \union Slot, who : Anyone]
Issue  == [challenger : Player, opponent : Player, at : Nat]
Answer == [kind : {"game", "decline"}, id : Made, at : Nat, a : Anyone, b : Anyone]

AtDesk(p) ==
  /\ op[p].at # "idle" => p \in online
  /\ op[p].at \in Answering => op[p].slot \in Slot /\ op[p].id \in Made
  /\ op[p].at \in {"create", "notify"} => op[p].who \in Player
  /\ op[p].at = "notify" => op[p].id \in Made

\* The invariant the types rest on.
Types ==
  /\ MMTypeOK
  /\ online \subseteq connected /\ main \in {"top", "accept"} /\ last_cleanup \in Nat
  /\ op \in [Player -> Desk] /\ \A p \in Player : AtDesk(p)
  /\ issued \in Seq(Issue) /\ Len(issued) = next_id - 1
  /\ heard \in [Player -> SUBSET Made]
  /\ answers \in Seq(Answer)

-----------------------------------------------------------------------------
(* What a step does to the desk of a thread.                                *)

\* The thread of p goes on with this at hand.
Turn(p, at, id, slot, who) ==
  op' = [op EXCEPT ![p] = [at |-> at, id |-> id, slot |-> slot, who |-> who]]

\* The parts of a handler's desk, and that they are all of it.
LEMMA DeskFields ==
  ASSUME op \in [Player -> Desk], NEW p \in Player
  PROVE  /\ op[p].at \in Step /\ op[p].id \in 0 .. next_id - 1
         /\ op[p].slot \in {0} \union Slot /\ op[p].who \in Anyone
         /\ op[p] = [at |-> op[p].at, id |-> op[p].id, slot |-> op[p].slot, who |-> op[p].who]
<1>1. op[p] \in Desk
  OBVIOUS
<1>2. QED BY <1>1 DEF Desk

\* A desk at another step is otherwise the same.
LEMMA DeskMoves ==
  ASSUME NEW desk \in Desk, NEW step
  PROVE  [desk EXCEPT !.at = step] =
           [at |-> step, id |-> desk.id, slot |-> desk.slot, who |-> desk.who]
<1>1. desk = [at |-> desk.at, id |-> desk.id, slot |-> desk.slot, who |-> desk.who]
  BY DEF Desk
<1>2. QED BY <1>1

\* A desk at another step, with another player noted.
LEMMA DeskMovesWith ==
  ASSUME NEW desk \in Desk, NEW step, NEW them
  PROVE  [desk EXCEPT !.at = step, !.who = them] =
           [at |-> step, id |-> desk.id, slot |-> desk.slot, who |-> them]
<1>1. [desk EXCEPT !.at = step, !.who = them] = [[desk EXCEPT !.at = step] EXCEPT !.who = them]
  OBVIOUS
<1>2. [[at |-> step, id |-> desk.id, slot |-> desk.slot, who |-> desk.who] EXCEPT !.who = them]
        = [at |-> step, id |-> desk.id, slot |-> desk.slot, who |-> them]
  OBVIOUS
<1>3. QED BY <1>1, <1>2, DeskMoves

\* GoTo changes the step of one player only.
LEMMA GoToTurns ==
  ASSUME op \in [Player -> Desk], NEW p \in Player, NEW step, GoTo(p, step)
  PROVE  Turn(p, step, op[p].id, op[p].slot, op[p].who)
<1>1. op' = [op EXCEPT ![p] = [op[p] EXCEPT !.at = step]]
  BY DEF GoTo
<1>2. QED BY <1>1, DeskMoves DEF Turn

\* A handler that is done leaves an idle desk.
LEMMA DoneTurns ==
  ASSUME NEW p \in Player, Done(p)
  PROVE  Turn(p, "idle", 0, 0, NoPlayer)
  BY DEF Done, Idle, Turn

\* What a turn says of the desk it changes, and of the others.
LEMMA TurnFacts ==
  ASSUME op \in [Player -> Desk], NEW p \in Player,
         NEW at, NEW id, NEW slot, NEW who, Turn(p, at, id, slot, who)
  PROVE  /\ op'[p].at = at /\ op'[p].id = id /\ op'[p].slot = slot /\ op'[p].who = who
         /\ \A q \in Player : q # p => op'[q] = op[q]
<1>1. op'[p] = [at |-> at, id |-> id, slot |-> slot, who |-> who]
  BY DEF Turn
<1>2. QED BY <1>1 DEF Turn

\* The steps of a thread in the handlers, by what they leave at its desk.
LEMMA ThreadTurns ==
  ASSUME op \in [Player -> Desk], NEW p \in Player
  PROVE  /\ \A o \in Player : Challenge1(p, o) => Turn(p, "create", 0, 0, o)
         /\ CreateNew(p) => Turn(p, "notify", next_id, op[p].slot, op[p].who)
         /\ CreateNothing(p) => Turn(p, "idle", 0, 0, NoPlayer)
         /\ Notify(p) => Turn(p, "idle", 0, 0, NoPlayer)
         /\ \A id, step : Find(p, id, step) =>
              \E s \in First(SlotsWithId(id)) : Turn(p, step, id, s, NoPlayer)
         /\ \A step, next : Check(p, step, next) =>
              \/ Turn(p, next, op[p].id, op[p].slot, op[p].who) /\ Pointed(p).opponent = p
              \/ Turn(p, "idle", 0, 0, NoPlayer)
         /\ \A step, next : Remove(p, step, next) =>
              \/ Turn(p, next, op[p].id, op[p].slot, op[p].who) /\ next # "idle"
              \/ Turn(p, "idle", 0, 0, NoPlayer) /\ next = "idle"
         /\ AcceptSession(p) =>
              \/ Turn(p, "accept_create", op[p].id, op[p].slot, Pointed(p).challenger)
              \/ Turn(p, "accept_drop", op[p].id, op[p].slot, op[p].who)
         /\ AcceptCreate(p) => Turn(p, "accept_remove", op[p].id, op[p].slot, op[p].who)
         /\ AcceptNoRoom(p) => Turn(p, "idle", 0, 0, NoPlayer)
         /\ AcceptStart(p) => Turn(p, "idle", 0, 0, NoPlayer)
         /\ DeclineTrack(p) => Turn(p, "decline_remove", op[p].id, op[p].slot, op[p].who)
         /\ DeclineNotify(p) => Turn(p, "idle", 0, 0, NoPlayer)
<1>1. \A o \in Player : Challenge1(p, o) => Turn(p, "create", 0, 0, o)
  BY DEF Challenge1, Idle, Turn
<1>2. CreateNew(p) => Turn(p, "notify", next_id, op[p].slot, op[p].who)
  BY DeskFields DEF CreateNew, Turn
<1>3. /\ CreateNothing(p) => Turn(p, "idle", 0, 0, NoPlayer)
      /\ Notify(p) => Turn(p, "idle", 0, 0, NoPlayer)
      /\ AcceptNoRoom(p) => Turn(p, "idle", 0, 0, NoPlayer)
      /\ AcceptStart(p) => Turn(p, "idle", 0, 0, NoPlayer)
      /\ DeclineNotify(p) => Turn(p, "idle", 0, 0, NoPlayer)
  BY DoneTurns DEF CreateNothing, Notify, AcceptNoRoom, AcceptStart, DeclineNotify
<1>4. ASSUME NEW id, NEW step, Find(p, id, step)
      PROVE  \E s \in First(SlotsWithId(id)) : Turn(p, step, id, s, NoPlayer)
  BY <1>4 DEF Find, Idle, Turn
<1>5. ASSUME NEW step, NEW next, Check(p, step, next)
      PROVE  \/ Turn(p, next, op[p].id, op[p].slot, op[p].who) /\ Pointed(p).opponent = p
             \/ Turn(p, "idle", 0, 0, NoPlayer)
  BY <1>5, GoToTurns, DoneTurns DEF Check
<1>6. ASSUME NEW step, NEW next, Remove(p, step, next)
      PROVE  \/ Turn(p, next, op[p].id, op[p].slot, op[p].who) /\ next # "idle"
             \/ Turn(p, "idle", 0, 0, NoPlayer) /\ next = "idle"
  BY <1>6, GoToTurns, DoneTurns DEF Remove
<1>7. ASSUME AcceptSession(p)
      PROVE  \/ Turn(p, "accept_create", op[p].id, op[p].slot, Pointed(p).challenger)
             \/ Turn(p, "accept_drop", op[p].id, op[p].slot, op[p].who)
  <2> DEFINE them == Pointed(p).challenger
  <2> HIDE DEF them
  <2>1. ASSUME op' = [op EXCEPT ![p].at = "accept_create", ![p].who = them]
        PROVE  Turn(p, "accept_create", op[p].id, op[p].slot, them)
    <3>1. op' = [op EXCEPT ![p] = [op[p] EXCEPT !.at = "accept_create", !.who = them]]
      BY <2>1
    <3>2. op[p] \in Desk
      OBVIOUS
    <3>3. [op[p] EXCEPT !.at = "accept_create", !.who = them] =
            [at |-> "accept_create", id |-> op[p].id, slot |-> op[p].slot, who |-> them]
      BY <3>2, DeskMovesWith
    <3>4. QED BY <3>1, <3>3, Zenon DEF Turn
  <2>2. CASE op' = [op EXCEPT ![p].at = "accept_drop"]
    <3>1. GoTo(p, "accept_drop")
      BY <2>2 DEF GoTo
    <3>2. QED BY <3>1, GoToTurns
  <2>3. QED BY <1>7, <2>1, <2>2 DEF AcceptSession, them
<1>8. /\ AcceptCreate(p) => Turn(p, "accept_remove", op[p].id, op[p].slot, op[p].who)
      /\ DeclineTrack(p) => Turn(p, "decline_remove", op[p].id, op[p].slot, op[p].who)
  BY GoToTurns DEF AcceptCreate, DeclineTrack
<1>9. QED BY <1>1, <1>2, <1>3, <1>4, <1>5, <1>6, <1>7, <1>8
-----------------------------------------------------------------------------
(* The type invariant.                                                      *)

\* A handler works on the tables through the functions of matchmaking.
LEMMA NextIsCall == ASSUME Types, [Next]_vars PROVE Call
<1>1. \A p \in Player : /\ Pointed(p).challenger \in Anyone \/ op[p].slot \notin Slot
                        /\ Pointed(p).opponent \in Anyone \/ op[p].slot \notin Slot
  <2>1. \A s \in Slot : challenges[s] \in Challenge
    BY DEF Types, MMTypeOK
  <2>2. \A s \in Slot : challenges[s].challenger \in Anyone /\ challenges[s].opponent \in Anyone
    BY <2>1 DEF Challenge, Anyone
  <2>3. QED BY <2>2 DEF Pointed
<1>2. op \in [Player -> Desk] /\ \A p \in Player : AtDesk(p)
  BY DEF Types
<1>3. \A p \in Player : op[p].id \in Nat
  BY <1>2, DeskFields
<1>4. ASSUME NEW p \in Player, CreateNew(p) \/ CreateNothing(p) PROVE Call
  <2>1. op[p].who \in Player
    BY <1>2, <1>4 DEF AtDesk, CreateNew, CreateNothing
  <2>2. CreateChallenge(p, op[p].who) \/ NoNewChallenge(p, op[p].who)
    BY <1>4 DEF CreateNew, CreateNothing
  <2>3. QED BY <2>1, <2>2 DEF Call
<1>5. ASSUME NEW p \in Player, NEW step, NEW next, Remove(p, step, next) PROVE Call
  BY <1>3, <1>5 DEF Remove, Call
<1>6. ASSUME NEW p \in Player, DeclineTrack(p) PROVE Call
  <2>1. op[p].slot \in Slot
    BY <1>2, <1>6 DEF AtDesk, DeclineTrack, Answering, Step
  <2>2. TrackDecline(Pointed(p).challenger, Pointed(p).opponent)
    BY <1>6 DEF DeclineTrack
  <2>3. QED BY <1>1, <2>1, <2>2 DEF Call
<1>7. ASSUME NEW p \in Player, Login(p) \/ Logout(p) PROVE Call
  BY <1>7 DEF Login, Logout, Call
<1>8. ASSUME MainTop \/ Reject \/ Wait PROVE Call
  BY <1>8 DEF MainTop, Reject, Wait, Call
<1>9. CASE UNCHANGED vars
  BY <1>9 DEF vars, Call
<1>10. ASSUME NEW p \in Player, Thread(p) PROVE Call
  <2>1. CASE UNCHANGED mmVars
    BY <2>1 DEF Call
  <2>2. QED BY <1>4, <1>5, <1>6, <1>10, <2>1
    DEF Thread, Challenge1, Notify, Find, Check, AcceptSession, AcceptCreate, AcceptNoRoom,
        AcceptStart, DeclineNotify
<1>11. QED BY <1>7, <1>8, <1>9, <1>10 DEF Next

\* A smaller interval is part of a larger one.
LEMMA Intervals ==
  \A m, n \in Nat : m <= n => 0 .. m - 1 \subseteq 0 .. n - 1 /\ 1 .. m - 1 \subseteq 1 .. n - 1
  OBVIOUS

\* What is not zero in an interval from zero is in the one from one.
LEMMA Positive ==
  ASSUME NEW n \in Nat
  PROVE  /\ n # 0 => 0 \in 0 .. n - 1
         /\ \A id \in 0 .. n - 1 : id # 0 => id \in 1 .. n - 1
  OBVIOUS

\* Ids are given out by CreateNew, one after another.
LEMMA NextKeepsIds ==
  ASSUME Types, [Next]_vars
  PROVE  /\ MMTypeOK' /\ next_id' \in Nat
         /\ next_id' = next_id \/ (next_id' = next_id + 1 /\ \E p \in Player : CreateNew(p))
         /\ Made \subseteq Made'
<1>1. MMTypeOK' /\ next_id' \in Nat /\ next_id \in Nat
  <2>1. MMTypeOK'
    BY NextIsCall, CallKeepsTypes DEF Types
  <2>2. QED BY <2>1 DEF Types, MMTypeOK
<1>2. next_id' = next_id \/ (next_id' = next_id + 1 /\ \E p \in Player : CreateNew(p))
  <2>1. ASSUME NEW p \in Player, Thread(p), ~CreateNew(p) PROVE next_id' = next_id
    <3>1. \A step, next : Remove(p, step, next) => next_id' = next_id
      BY DEF Remove, RemoveChallengeById
    <3>2. CreateNothing(p) \/ DeclineTrack(p) => next_id' = next_id
      BY DEF CreateNothing, NoNewChallenge, DeclineTrack, TrackDecline, bookVars
    <3>3. QED BY <2>1, <3>1, <3>2
      DEF Thread, Challenge1, Notify, Find, Check, AcceptSession, AcceptCreate, AcceptNoRoom,
          AcceptStart, DeclineNotify, mmVars, bookVars
  <2>2. ASSUME NEW p \in Player, CreateNew(p) PROVE next_id' = next_id + 1
    BY <2>2 DEF CreateNew, CreateChallenge
  <2>3. ASSUME NEW p \in Player, Login(p) \/ Logout(p) PROVE next_id' = next_id
    BY <2>3 DEF Login, Logout, AddPlayer, RemovePlayer, bookVars
  <2>4. ASSUME Reject \/ Wait \/ UNCHANGED vars PROVE next_id' = next_id
    BY <2>4 DEF Reject, Wait, Tick, vars, mmVars, bookVars
  <2>5. ASSUME MainTop PROVE next_id' = next_id
    <3>1. CleanupExpired \/ UNCHANGED mmVars
      BY <2>5 DEF MainTop
    <3>2. QED BY <3>1 DEF CleanupExpired, mmVars, bookVars
  <2>6. QED BY <2>1, <2>2, <2>3, <2>4, <2>5 DEF Next
<1>3. next_id <= next_id'
  BY <1>1, <1>2
<1>4. QED BY <1>1, <1>2, <1>3, Intervals DEF Made

\* The desk of a thread that goes on, and those of the others, are in order.
LEMMA TurnKeepsDesks ==
  ASSUME Types, Made \subseteq Made', next_id' \in Nat, next_id' >= next_id, online' = online,
         NEW p \in Player, p \in online,
         NEW at \in Step, NEW id, NEW slot \in {0} \union Slot, NEW who \in Anyone,
         Turn(p, at, id, slot, who),
         id \in 0 .. next_id' - 1,
         at \in Answering => slot \in Slot /\ id # 0,
         at \in {"create", "notify"} => who \in Player,
         at = "notify" => id # 0
  PROVE  op' \in [Player -> Desk'] /\ \A q \in Player : AtDesk(q)'
<1>1. op \in [Player -> Desk] /\ next_id \in Nat /\ \A q \in Player : AtDesk(q)
  BY DEF Types, MMTypeOK
<1>2. Slot' = Slot /\ Anyone' = Anyone
  BY DEF Slot, Anyone
<1>3. Desk \subseteq Desk'
  <2>1. 0 .. next_id - 1 \subseteq 0 .. next_id' - 1
    BY <1>1, Intervals
  <2>2. ASSUME NEW d \in Desk PROVE d \in Desk'
    BY <2>1 DEF Desk, Slot, Anyone
  <2>3. QED BY <2>2
<1>4. [at |-> at, id |-> id, slot |-> slot, who |-> who] \in Desk'
  BY <1>2 DEF Desk
<1>5. op' \in [Player -> Desk']
  BY <1>1, <1>3, <1>4 DEF Turn
<1>6. /\ op'[p].at = at /\ op'[p].id = id /\ op'[p].slot = slot /\ op'[p].who = who
      /\ \A q \in Player : q # p => op'[q] = op[q]
  BY <1>1, TurnFacts
<1>7. AtDesk(p)'
  <2>1. id # 0 => id \in 1 .. next_id' - 1
    BY Positive
  <2>2. QED BY <1>2, <1>6, <2>1 DEF AtDesk, Made
<1>8. \A q \in Player : q # p => AtDesk(q)'
  BY <1>1, <1>2, <1>6 DEF AtDesk
<1>9. QED BY <1>5, <1>7, <1>8

\* A step of a thread keeps to the sessions there are, and the desks in order.
LEMMA ThreadKeepsDesks ==
  ASSUME Types, NEW p \in Player, Thread(p)
  PROVE  /\ p \in online /\ UNCHANGED <<online, connected, main, last_cleanup>>
         /\ op' \in [Player -> Desk'] /\ \A q \in Player : AtDesk(q)'
<1>1. /\ op \in [Player -> Desk] /\ \A q \in Player : AtDesk(q)
      /\ next_id \in Nat \ {0} /\ challenges \in [Slot -> Challenge]
  BY DEF Types, MMTypeOK
<1>2. [Next]_vars
  BY DEF Next
<1>3. Made \subseteq Made' /\ next_id' \in Nat /\ next_id' >= next_id
  BY <1>1, <1>2, NextKeepsIds
<1>4. p \in online
  BY <1>1 DEF AtDesk, Thread, Challenge1, CreateNew, CreateNothing, Notify, Find, Check,
              AcceptSession, AcceptCreate, AcceptNoRoom, Remove, AcceptStart, DeclineTrack,
              DeclineNotify
<1>5. UNCHANGED <<online, connected, main, last_cleanup>>
  <2>1. \A step, next : Remove(p, step, next) => UNCHANGED <<online, connected, main, last_cleanup>>
    BY DEF Remove, RemoveChallengeById, playerVars
  <2>2. CreateNew(p) \/ CreateNothing(p) \/ DeclineTrack(p)
          => UNCHANGED <<online, connected, main, last_cleanup>>
    BY DEF CreateNew, CreateChallenge, CreateNothing, NoNewChallenge, DeclineTrack, TrackDecline,
           playerVars
  <2>3. QED BY <2>1, <2>2
    DEF Thread, Challenge1, Notify, Find, Check, AcceptSession, AcceptCreate, AcceptNoRoom,
        AcceptStart, DeclineNotify, mmVars, playerVars
<1> DEFINE Kept == op' \in [Player -> Desk'] /\ \A q \in Player : AtDesk(q)'
<1>6. /\ op[p].at \in Step /\ op[p].id \in 0 .. next_id' - 1
      /\ op[p].slot \in {0} \union Slot /\ op[p].who \in Anyone /\ NoPlayer \in Anyone
      /\ op[p].at \in Answering => op[p].slot \in Slot /\ op[p].id # 0
      /\ Pointed(p).challenger \in Anyone \/ op[p].slot = 0
  <2>1. op[p].id \in 0 .. next_id' - 1
    BY <1>1, <1>3, DeskFields, Intervals
  <2>2. op[p].at \in Answering => op[p].slot \in Slot /\ op[p].id # 0
    BY <1>1 DEF AtDesk, Made
  <2>3. \A s \in Slot : challenges[s].challenger \in Anyone
    BY <1>1 DEF Challenge, Anyone
  <2>4. QED BY <1>1, <2>1, <2>2, <2>3, DeskFields DEF Pointed, Anyone
<1>7. Turn(p, "idle", 0, 0, NoPlayer) => Kept
  <2>1. 0 \in 0 .. next_id' - 1
    <3>1. next_id' # 0
      BY <1>1, <1>3
    <3>2. QED BY <1>3, <3>1, Positive
  <2>2. "idle" \in Step /\ "idle" \notin Answering
    BY DEF Step, Answering
  <2>3. QED BY <1>3, <1>4, <1>5, <1>6, <2>1, <2>2, TurnKeepsDesks
<1>8. \A step \in Answering :
        op[p].at \in Answering /\ Turn(p, step, op[p].id, op[p].slot, op[p].who) => Kept
  BY <1>3, <1>4, <1>5, <1>6, TurnKeepsDesks DEF Step, Answering
<1> HIDE DEF Kept
<1>9. ASSUME NEW o \in Player, Challenge1(p, o) PROVE Kept
  <2>1. Turn(p, "create", 0, 0, o)
    BY <1>1, <1>9, ThreadTurns
  <2>2. next_id' # 0
    BY <1>1, <1>3
  <2>3. 0 \in 0 .. next_id' - 1
    BY <1>3, <2>2, Positive
  <2>4. "create" \in Step /\ "create" \notin Answering /\ o \in Anyone
    BY DEF Step, Answering, Anyone
  <2>5. QED BY <1>3, <1>4, <1>5, <2>1, <2>3, <2>4, TurnKeepsDesks DEF Kept
<1>10. ASSUME CreateNew(p) PROVE Kept
  <2>1. Turn(p, "notify", next_id, op[p].slot, op[p].who)
    BY <1>1, <1>10, ThreadTurns
  <2>2. next_id' = next_id + 1
    BY <1>10 DEF CreateNew, CreateChallenge
  <2>3. next_id \in 0 .. next_id' - 1 /\ next_id # 0
    BY <1>1, <2>2
  <2>4. op[p].who \in Player
    BY <1>1, <1>10 DEF AtDesk, CreateNew
  <2>5. "notify" \in Step /\ "notify" \notin Answering
    BY DEF Step, Answering
  <2>6. QED BY <1>3, <1>4, <1>5, <1>6, <2>1, <2>3, <2>4, <2>5, TurnKeepsDesks DEF Kept
<1>11. ASSUME NEW id \in heard[p], NEW step \in Answering, Find(p, id, step) PROVE Kept
  <2>1. PICK s \in First(SlotsWithId(id)) : Turn(p, step, id, s, NoPlayer)
    BY <1>1, <1>11, ThreadTurns
  <2>2. s \in Slot
    BY DEF First, SlotsWithId, Active
  <2>3. id \in Made
    BY DEF Types
  <2>4. id # 0 /\ id \in 0 .. next_id - 1
    BY <1>1, <2>3 DEF Made
  <2>5. id \in 0 .. next_id' - 1
    BY <1>1, <1>3, <2>4, Intervals
  <2>6. step \in Step /\ step \notin {"create", "notify"} /\ NoPlayer \in Anyone
    BY DEF Step, Answering, Anyone
  <2>7. QED BY <1>3, <1>4, <1>5, <2>1, <2>2, <2>4, <2>5, <2>6, TurnKeepsDesks DEF Kept
<1>12. ASSUME AcceptSession(p) PROVE Kept
  <2>1. \/ Turn(p, "accept_create", op[p].id, op[p].slot, Pointed(p).challenger)
        \/ Turn(p, "accept_drop", op[p].id, op[p].slot, op[p].who)
    BY <1>1, <1>12, ThreadTurns
  <2>2. op[p].at \in Answering
    BY <1>12 DEF AcceptSession, Step, Answering
  <2>3. "accept_create" \in Answering /\ "accept_drop" \in Answering
    BY DEF Step, Answering
  <2>4. op[p].slot # 0
    BY <1>6, <2>2 DEF Slot
  <2>5. "accept_create" \in Step /\ "accept_create" \notin {"create", "notify"}
    BY DEF Step
  <2>6. Turn(p, "accept_create", op[p].id, op[p].slot, Pointed(p).challenger) => Kept
    BY <1>3, <1>4, <1>5, <1>6, <2>2, <2>4, <2>5, TurnKeepsDesks DEF Kept
  <2>7. QED BY <1>8, <2>1, <2>2, <2>3, <2>6
<1>13. ASSUME NEW step \in Answering, NEW next \in Answering \union {"idle"},
              Remove(p, step, next) \/ (Check(p, step, next) /\ next # "idle")
       PROVE  Kept
  <2>1. op[p].at \in Answering
    BY <1>13 DEF Check, Remove
  <2>2. \/ Turn(p, next, op[p].id, op[p].slot, op[p].who) /\ next \in Answering
        \/ Turn(p, "idle", 0, 0, NoPlayer)
    BY <1>1, <1>13, ThreadTurns
  <2>3. QED BY <1>7, <1>8, <2>1, <2>2
<1>14. ASSUME AcceptCreate(p) \/ DeclineTrack(p) PROVE Kept
  <2>1. op[p].at \in Answering
    BY <1>14 DEF AcceptCreate, DeclineTrack, Step, Answering
  <2>2. "accept_remove" \in Answering /\ "decline_remove" \in Answering
    BY DEF Step, Answering
  <2>3. QED BY <1>1, <1>8, <1>14, <2>1, <2>2, ThreadTurns
<1>15. ASSUME CreateNothing(p) \/ Notify(p) \/ AcceptNoRoom(p) \/ AcceptStart(p) \/ DeclineNotify(p)
       PROVE  Kept
  BY <1>1, <1>7, <1>15, ThreadTurns
<1>16. {"accept_check", "accept_session", "accept_remove", "accept_start", "accept_drop",
        "decline_check", "decline_track", "decline_remove", "decline_notify"} \subseteq Answering
  BY DEF Step, Answering
<1>17. Kept
  BY <1>9, <1>10, <1>11, <1>12, <1>13, <1>14, <1>15, <1>16 DEF Thread
<1>18. QED BY <1>4, <1>5, <1>17 DEF Kept

\* Which steps add to the histories.
LEMMA HistorySteps ==
  ASSUME [Next]_vars
  PROVE  /\ issued' = issued \/ \E p \in Player : CreateNew(p)
         /\ heard' = heard \/ \E p \in Player : Notify(p)
         /\ answers' = answers \/ \E p \in Player : AcceptCreate(p) \/ DeclineTrack(p)
         /\ expired \subseteq expired'
<1>1. ASSUME NEW p \in Player, Thread(p),
             ~CreateNew(p), ~Notify(p), ~AcceptCreate(p), ~DeclineTrack(p)
      PROVE  UNCHANGED historyVars
  <2>1. \A step, next : Remove(p, step, next) \/ Check(p, step, next) => UNCHANGED historyVars
    BY DEF Remove, Check, historyVars
  <2>2. QED BY <1>1, <2>1
    DEF Thread, Challenge1, CreateNothing, Find, AcceptSession, AcceptNoRoom, AcceptStart,
        DeclineNotify, historyVars
<1>2. ASSUME NEW p \in Player
      PROVE  /\ CreateNew(p) => heard' = heard /\ answers' = answers /\ expired' = expired
             /\ Notify(p) => issued' = issued /\ answers' = answers /\ expired' = expired
             /\ (AcceptCreate(p) \/ DeclineTrack(p)) =>
                  issued' = issued /\ heard' = heard /\ expired' = expired
  BY DEF CreateNew, Notify, AcceptCreate, DeclineTrack
<1>3. \A p \in Player : Login(p) \/ Logout(p) => UNCHANGED historyVars
  BY DEF Login, Logout
<1>4. MainTop => UNCHANGED <<issued, heard, answers>> /\ expired \subseteq expired'
  BY DEF MainTop
<1>5. Reject \/ Wait \/ UNCHANGED vars => UNCHANGED historyVars
  BY DEF Reject, Wait, vars
<1>6. ASSUME NEW p \in Player, Thread(p) \/ Login(p) \/ Logout(p)
      PROVE  /\ issued' = issued \/ CreateNew(p)
             /\ heard' = heard \/ Notify(p)
             /\ answers' = answers \/ AcceptCreate(p) \/ DeclineTrack(p)
             /\ expired \subseteq expired'
  <2>1. CASE CreateNew(p)
    BY <1>2, <2>1
  <2>2. CASE Notify(p)
    BY <1>2, <2>2
  <2>3. CASE AcceptCreate(p) \/ DeclineTrack(p)
    BY <1>2, <2>3
  <2>4. CASE UNCHANGED historyVars
    BY <2>4 DEF historyVars
  <2>5. QED BY <1>1, <1>3, <1>6, <2>1, <2>2, <2>3, <2>4
<1>7. ASSUME MainTop \/ Reject \/ Wait \/ UNCHANGED vars
      PROVE  UNCHANGED <<issued, heard, answers>> /\ expired \subseteq expired'
  BY <1>4, <1>5, <1>7 DEF historyVars
<1>8. CASE \E p \in Player : Thread(p) \/ Login(p) \/ Logout(p)
  BY <1>6, <1>8
<1>9. CASE MainTop \/ Reject \/ Wait \/ UNCHANGED vars
  BY <1>7, <1>9
<1>10. QED BY <1>8, <1>9 DEF Next

\* What appending to a sequence adds and keeps.
LEMMA AppendFacts ==
  ASSUME NEW S, NEW s \in Seq(S), NEW e \in S
  PROVE  /\ Append(s, e) \in Seq(S) /\ Len(Append(s, e)) = Len(s) + 1
         /\ DOMAIN Append(s, e) = DOMAIN s \union {Len(s) + 1} /\ Len(s) + 1 \notin DOMAIN s
         /\ Append(s, e)[Len(s) + 1] = e
         /\ \A i \in DOMAIN s : Append(s, e)[i] = s[i]
  OBVIOUS

\* The histories keep their types.
LEMMA NextKeepsHistories ==
  ASSUME Types, [Next]_vars
  PROVE  /\ issued' \in Seq(Issue) /\ Len(issued') = next_id' - 1
         /\ \A id \in Made : id \in DOMAIN issued /\ issued'[id] = issued[id]
         /\ heard' \in [Player -> SUBSET Made']
         /\ answers' \in Seq(Answer')
<1>1. /\ next_id \in Nat \ {0} /\ next_id' \in Nat /\ Made \subseteq Made'
      /\ now \in Nat /\ challenges \in [Slot -> Challenge] /\ now' \in Nat
  BY NextKeepsIds DEF Types, MMTypeOK
<1>2. /\ issued \in Seq(Issue) /\ Len(issued) = next_id - 1 /\ heard \in [Player -> SUBSET Made]
      /\ answers \in Seq(Answer) /\ \A p \in Player : AtDesk(p)
  BY DEF Types
<1>3. /\ issued' \in Seq(Issue) /\ Len(issued') = next_id' - 1
      /\ \A id \in Made : id \in DOMAIN issued /\ issued'[id] = issued[id]
  <2>0. \A id \in Made : id \in DOMAIN issued
    BY <1>1, <1>2 DEF Made
  <2>1. ASSUME NEW p \in Player, CreateNew(p)
        PROVE  /\ issued' \in Seq(Issue) /\ Len(issued') = next_id' - 1
               /\ \A id \in Made : issued'[id] = issued[id]
    <3> DEFINE made == [challenger |-> p, opponent |-> op[p].who, at |-> now']
    <3>1. made \in Issue
      BY <1>1, <1>2, <2>1 DEF CreateNew, AtDesk, Issue
    <3>2. issued' = Append(issued, made) /\ next_id' = next_id + 1
      BY <2>1 DEF CreateNew, CreateChallenge
    <3> HIDE DEF made
    <3>3. issued' \in Seq(Issue) /\ Len(issued') = Len(issued) + 1
      BY <1>2, <3>1, <3>2, AppendFacts
    <3>4. \A id \in DOMAIN issued : issued'[id] = issued[id]
      BY <1>2, <3>1, <3>2, AppendFacts
    <3>5. QED BY <1>1, <1>2, <2>0, <3>2, <3>3, <3>4
  <2>2. CASE ~\E p \in Player : CreateNew(p)
    BY <1>2, <2>0, <2>2, HistorySteps, NextKeepsIds
  <2>3. QED BY <2>0, <2>1, <2>2
<1>4. heard' \in [Player -> SUBSET Made']
  <2>1. ASSUME NEW p \in Player, Notify(p) PROVE heard' \in [Player -> SUBSET Made']
    <3>1. op[p].id \in Made
      BY <1>2, <2>1 DEF Notify, AtDesk
    <3>2. QED BY <1>1, <1>2, <2>1, <3>1 DEF Notify
  <2>2. CASE heard' = heard
    BY <1>1, <1>2, <2>2
  <2>3. QED BY <2>1, <2>2, HistorySteps
<1>5. answers' \in Seq(Answer')
  <2>1. \A a \in Answer : a \in Answer'
    BY <1>1 DEF Answer, Anyone
  <2>2. answers \in Seq(Answer')
    BY <1>2, <2>1
  <2>3. \A s \in Slot : challenges[s].challenger \in Anyone /\ challenges[s].opponent \in Anyone
    BY <1>1 DEF Challenge, Anyone
  <2>4. ASSUME NEW p \in Player, AcceptCreate(p) PROVE answers' \in Seq(Answer')
    <3> DEFINE answer == [kind |-> "game", id |-> op[p].id, at |-> now,
                          a |-> Pointed(p).challenger, b |-> p]
    <3>1. op[p].slot \in Slot /\ op[p].id \in Made
      BY <1>2, <2>4 DEF AcceptCreate, AtDesk, Answering, Step
    <3>2. answer \in Answer
      BY <1>1, <2>3, <3>1 DEF Pointed, Answer, Anyone
    <3>3. answers' = Append(answers, answer)
      BY <2>4 DEF AcceptCreate
    <3> HIDE DEF answer
    <3>4. QED BY <2>1, <2>2, <3>2, <3>3
  <2>5. ASSUME NEW p \in Player, DeclineTrack(p) PROVE answers' \in Seq(Answer')
    <3> DEFINE answer == [kind |-> "decline", id |-> op[p].id, at |-> now,
                          a |-> Pointed(p).challenger, b |-> Pointed(p).opponent]
    <3>1. op[p].slot \in Slot /\ op[p].id \in Made
      BY <1>2, <2>5 DEF DeclineTrack, AtDesk, Answering, Step
    <3>2. answer \in Answer
      BY <1>1, <2>3, <3>1 DEF Pointed, Answer, Anyone
    <3>3. answers' = Append(answers, answer)
      BY <2>5 DEF DeclineTrack
    <3> HIDE DEF answer
    <3>4. QED BY <2>1, <2>2, <3>2, <3>3
  <2>6. CASE answers' = answers
    BY <2>2, <2>6
  <2>7. QED BY <2>4, <2>5, <2>6, HistorySteps
<1>6. QED BY <1>3, <1>4, <1>5

\* The initial state is typed.
LEMMA InitTypes == Init => Types
<1> SUFFICES ASSUME Init PROVE Types
  OBVIOUS
<1>1. MMTypeOK
  BY MMInitTypes DEF Init
<1>2. next_id = 1 /\ connected = {} /\ StartTime \in Nat
  BY MatchmakingAssumption DEF Init, MMInit
<1>3. Idle \in Desk
  BY <1>2 DEF Idle, Desk, Step, Anyone
<1>4. op \in [Player -> Desk] /\ \A p \in Player : op[p].at = "idle"
  BY <1>3 DEF Init, Idle
<1>5. \A p \in Player : AtDesk(p)
  BY <1>4 DEF AtDesk, Answering, Step
<1>6. issued \in Seq(Issue) /\ Len(issued) = next_id - 1 /\ answers \in Seq(Answer)
  BY <1>2 DEF Init
<1>7. QED BY <1>1, <1>2, <1>4, <1>5, <1>6 DEF Init, Types

\* Every step keeps the types.
LEMMA NextKeepsTypes == ASSUME Types, [Next]_vars PROVE Types'
<1>1. /\ MMTypeOK' /\ Made \subseteq Made'
      /\ online \subseteq connected /\ main \in {"top", "accept"} /\ last_cleanup \in Nat
      /\ now \in Nat /\ op \in [Player -> Desk] /\ \A p \in Player : AtDesk(p)
  BY NextKeepsIds DEF Types, MMTypeOK
<1>2. ASSUME op' = op, next_id' = next_id, \A p \in Player : op[p].at # "idle" => p \in online'
      PROVE  op' \in [Player -> Desk'] /\ \A p \in Player : AtDesk(p)'
  BY <1>1, <1>2 DEF AtDesk, Desk, Made, Slot, Anyone
<1> DEFINE Main == online' \subseteq connected' /\ main' \in {"top", "accept"} /\ last_cleanup' \in Nat
           Desks == op' \in [Player -> Desk'] /\ \A p \in Player : AtDesk(p)'
<1>3. ASSUME NEW p \in Player, Thread(p) PROVE Main /\ Desks
  BY <1>1, <1>3, ThreadKeepsDesks
<1>4. ASSUME NEW p \in Player, Login(p) \/ Logout(p) PROVE Main /\ Desks
  <2>1. op' = op /\ next_id' = next_id
    BY <1>4 DEF Login, Logout, AddPlayer, RemovePlayer, bookVars
  <2>2. \A q \in Player : op[q].at # "idle" => q \in online'
    BY <1>1, <1>4 DEF Login, Logout, AtDesk
  <2>3. Main
    BY <1>1, <1>4 DEF Login, Logout, AddPlayer, RemovePlayer
  <2>4. QED BY <1>2, <2>1, <2>2, <2>3
<1>5. ASSUME MainTop PROVE Main /\ Desks
  <2>1. CleanupExpired \/ UNCHANGED mmVars
    BY <1>5 DEF MainTop
  <2>2. UNCHANGED <<connected, next_id>>
    BY <2>1 DEF CleanupExpired, mmVars, playerVars, bookVars
  <2>3. UNCHANGED <<online, op>> /\ Main
    BY <1>1, <1>5, <2>2 DEF MainTop
  <2>4. QED BY <1>1, <1>2, <2>2, <2>3 DEF AtDesk
<1>6. ASSUME Reject \/ Wait \/ UNCHANGED vars PROVE Main /\ Desks
  <2>1. UNCHANGED <<online, connected, op, next_id, last_cleanup>> /\ main' \in {main, "top"}
    BY <1>6 DEF Reject, Wait, Tick, vars, mmVars, playerVars, bookVars, serverVars
  <2>2. QED BY <1>1, <1>2, <2>1 DEF AtDesk
<1>7. Main /\ Desks
  BY <1>3, <1>4, <1>5, <1>6 DEF Next
<1>8. MMTypeOK'
  BY <1>1
<1>9. /\ issued' \in Seq(Issue) /\ Len(issued') = next_id' - 1
      /\ heard' \in [Player -> SUBSET Made'] /\ answers' \in Seq(Answer')
  BY NextKeepsHistories
<1>10. Issue' = Issue
  BY DEF Issue
<1>11. QED BY <1>7, <1>8, <1>9, <1>10 DEF Types

\* Every reachable state is typed.
LEMMA TypesAlways == Spec => []Types
BY InitTypes, NextKeepsTypes, PTL DEF Spec

\* The invariant TypeOK of Challenges.tla.
THEOREM HandlersAreTyped == Spec => []TypeOK
<1>1. Types => TypeOK
  BY DEF Types, TypeOK, AtDesk, Desk, Answering, Anyone, Step
<1>2. QED BY <1>1, TypesAlways, PTL

-----------------------------------------------------------------------------
(* What a step does to the desk of one thread, and to the slots in use.     *)

\* What one step may do to a desk: by this, what holds of a handler follows it.
LEMMA DeskSteps ==
  ASSUME Types, [Next]_vars, NEW q \in Player
  PROVE  \/ op'[q] = op[q]
         \/ op'[q].at \in {"idle", "create"}
         \/ /\ CreateNew(q)
            /\ op'[q].at = "notify" /\ op'[q].id = next_id /\ op'[q].who = op[q].who
         \/ /\ op[q].at = "idle" /\ op'[q].at \in Answering /\ op'[q].id \in heard[q]
            /\ op'[q].slot \in SlotsWithId(op'[q].id) /\ UNCHANGED <<bookVars, answers, expired>>
         \/ /\ op[q].at \in Answering /\ op'[q].at \in Answering
            /\ op'[q].id = op[q].id /\ op'[q].slot = op[q].slot
            /\ op'[q].at \in Finding =>
                 op[q].at \in Finding /\ UNCHANGED <<bookVars, answers, expired>>
<1> DEFINE Goal == \/ op'[q] = op[q]
                   \/ op'[q].at \in {"idle", "create"}
                   \/ /\ CreateNew(q)
                      /\ op'[q].at = "notify" /\ op'[q].id = next_id /\ op'[q].who = op[q].who
                   \/ /\ op[q].at = "idle" /\ op'[q].at \in Answering /\ op'[q].id \in heard[q]
                      /\ op'[q].slot \in SlotsWithId(op'[q].id)
                      /\ UNCHANGED <<bookVars, answers, expired>>
                   \/ /\ op[q].at \in Answering /\ op'[q].at \in Answering
                      /\ op'[q].id = op[q].id /\ op'[q].slot = op[q].slot
                      /\ op'[q].at \in Finding =>
                           op[q].at \in Finding /\ UNCHANGED <<bookVars, answers, expired>>
<1> HIDE DEF Goal
<1>1. op \in [Player -> Desk]
  BY DEF Types
<1>2. ASSUME op' = op PROVE Goal
  BY <1>2 DEF Goal
<1>3. ASSUME NEW p \in Player, Thread(p), p # q PROVE Goal
  <2>1. \E at, id, slot, who : Turn(p, at, id, slot, who)
    <3>1. \A id, step : Find(p, id, step) => \E at, i, slot, who : Turn(p, at, i, slot, who)
      BY <1>1, ThreadTurns
    <3>2. \A step, next : Check(p, step, next) \/ Remove(p, step, next)
            => \E at, id, slot, who : Turn(p, at, id, slot, who)
      BY <1>1, ThreadTurns
    <3>3. QED BY <1>1, <1>3, <3>1, <3>2, ThreadTurns DEF Thread
  <2>2. op'[q] = op[q]
    BY <1>1, <1>3, <2>1, TurnFacts
  <2>3. QED BY <2>2 DEF Goal
<1>4. ASSUME NEW o \in Player, Challenge1(q, o) PROVE Goal
  BY <1>1, <1>4, ThreadTurns, TurnFacts DEF Goal
<1>5. ASSUME Turn(q, "idle", 0, 0, NoPlayer) PROVE Goal
  BY <1>1, <1>5, TurnFacts DEF Goal
<1>6. ASSUME CreateNew(q) PROVE Goal
  BY <1>1, <1>6, ThreadTurns, TurnFacts DEF Goal
<1>7. ASSUME NEW id \in heard[q], NEW step \in Answering, Find(q, id, step) PROVE Goal
  <2>1. PICK s \in First(SlotsWithId(id)) : Turn(q, step, id, s, NoPlayer)
    BY <1>1, <1>7, ThreadTurns
  <2>2. op'[q].at = step /\ op'[q].id = id /\ op'[q].slot = s
    BY <1>1, <2>1, TurnFacts
  <2>3. s \in SlotsWithId(id)
    BY DEF First
  <2>4. op[q].at = "idle" /\ UNCHANGED <<bookVars, answers, expired>>
    BY <1>7 DEF Find, mmVars, historyVars
  <2>5. QED BY <2>2, <2>3, <2>4 DEF Goal
<1>8. ASSUME NEW step \in Finding, NEW next \in Finding, Check(q, step, next) PROVE Goal
  <2>1. op[q].at = step /\ UNCHANGED <<bookVars, answers, expired>>
    BY <1>8 DEF Check, mmVars, historyVars
  <2>2. Turn(q, next, op[q].id, op[q].slot, op[q].who) => Goal
    BY <1>1, <2>1, TurnFacts DEF Goal, Finding, Answering, Step
  <2>3. QED BY <1>1, <1>5, <1>8, <2>2, ThreadTurns
<1>9. ASSUME AcceptSession(q) PROVE Goal
  <2>1. op[q].at = "accept_session" /\ UNCHANGED <<bookVars, answers, expired>>
    BY <1>9 DEF AcceptSession, mmVars, historyVars
  <2>2. \A who : \A at \in {"accept_create", "accept_drop"} :
          Turn(q, at, op[q].id, op[q].slot, who) => Goal
    BY <1>1, <2>1, TurnFacts DEF Goal, Finding, Answering, Step
  <2>3. QED BY <1>1, <1>9, <2>2, ThreadTurns
<1>10. ASSUME NEW at \in Answering \ Finding, op[q].at \in Answering,
              Turn(q, at, op[q].id, op[q].slot, op[q].who)
       PROVE  Goal
  BY <1>1, <1>10, TurnFacts DEF Goal
<1>11. ASSUME AcceptCreate(q) \/ DeclineTrack(q) PROVE Goal
  <2>1. op[q].at \in Answering
    BY <1>11 DEF AcceptCreate, DeclineTrack, Answering, Step
  <2>2. {"accept_remove", "decline_remove"} \subseteq Answering \ Finding
    BY DEF Answering, Step, Finding
  <2>3. QED BY <1>1, <1>10, <1>11, <2>1, <2>2, ThreadTurns
<1>12. ASSUME NEW step \in Answering, NEW next \in (Answering \ Finding) \union {"idle"},
              Remove(q, step, next)
       PROVE  Goal
  <2>1. op[q].at \in Answering
    BY <1>12 DEF Remove
  <2>2. QED BY <1>1, <1>5, <1>10, <1>12, <2>1, ThreadTurns
<1>13. ASSUME Thread(q) PROVE Goal
  <2>1. /\ {"accept_check", "accept_session", "decline_check", "decline_track"} \subseteq Finding
        /\ {"accept_check", "decline_check", "accept_remove", "accept_drop", "decline_remove"}
             \subseteq Answering
        /\ {"accept_start", "decline_notify"} \subseteq Answering \ Finding
    BY DEF Answering, Step, Finding
  <2>2. CreateNothing(q) \/ Notify(q) \/ AcceptNoRoom(q) \/ AcceptStart(q) \/ DeclineNotify(q)
          => Goal
    BY <1>1, <1>5, ThreadTurns
  <2>3. QED BY <1>4, <1>6, <1>7, <1>8, <1>9, <1>11, <1>12, <1>13, <2>1, <2>2 DEF Thread
<1>14. ASSUME NEW p \in Player, Login(p) \/ Logout(p) PROVE op' = op
  BY <1>14 DEF Login, Logout
<1>15. ASSUME MainTop \/ Reject \/ Wait \/ UNCHANGED vars PROVE op' = op
  BY <1>15 DEF MainTop, Reject, Wait, serverVars, vars
<1>16. ASSUME NEW p \in Player, Thread(p) PROVE Goal
  BY <1>3, <1>13, <1>16
<1>17. Goal
  BY <1>2, <1>14, <1>15, <1>16 DEF Next
<1>18. QED BY <1>17 DEF Goal

\* The slots in use are those of before, but for the one that CreateNew takes, and
\* a slot is freed by the cleanup, or by the player who answered its challenge.
LEMMA SlotSteps ==
  ASSUME Types, [Next]_vars
  PROVE  /\ \A s \in Active : /\ challenges'[s].id = challenges[s].id
                              /\ challenges'[s].challenger = challenges[s].challenger
                              /\ challenges'[s].opponent = challenges[s].opponent
         /\ \A s \in Active' \ Active :
              /\ challenges'[s].id = next_id /\ next_id' = next_id + 1
              /\ PairOf(challenges'[s]) = PairOf(issued'[next_id])
         /\ \A s \in Active \ Active' :
              \/ challenges[s].id \in expired'
              \/ \E p \in Player : /\ op[p].at \in Answering \ Finding
                                  /\ op[p].id = challenges[s].id
<1>1. /\ MMTypeOK /\ issued \in Seq(Issue) /\ Len(issued) = next_id - 1 /\ next_id \in Nat
      /\ now' \in Nat /\ \A p \in Player : AtDesk(p)
  BY NextKeepsIds DEF Types, MMTypeOK
<1>2. Active \subseteq Slot
  BY DEF Active
<1> DEFINE Same(s) == /\ challenges'[s].id = challenges[s].id
                      /\ challenges'[s].challenger = challenges[s].challenger
                      /\ challenges'[s].opponent = challenges[s].opponent
           Taken(s) == /\ challenges'[s].id = next_id /\ next_id' = next_id + 1
                       /\ PairOf(challenges'[s]) = PairOf(issued'[next_id])
           Freed(s) == \/ challenges[s].id \in expired'
                       \/ \E p \in Player : /\ op[p].at \in Answering \ Finding
                                           /\ op[p].id = challenges[s].id
           Goal == /\ \A s \in Active : Same(s)
                   /\ \A s \in Active' \ Active : Taken(s)
                   /\ \A s \in Active \ Active' : Freed(s)
<1>3. ASSUME UNCHANGED bookVars PROVE Goal
  BY <1>3 DEF bookVars, Active
<1>4. ASSUME NEW p \in Player, CreateNew(p) PROVE Goal
  <2> DEFINE made == [challenger |-> p, opponent |-> op[p].who, at |-> now']
  <2>1. op[p].who \in Player
    BY <1>1, <1>4 DEF CreateNew, AtDesk
  <2>2. CreateChallenge(p, op[p].who)
    BY <1>4 DEF CreateNew
  <2>3. PICK n \in Slot \ Active :
          /\ Active' = Active \union {n}
          /\ \A t \in Slot \ {n} : challenges'[t] = challenges[t]
          /\ challenges'[n] = [active |-> TRUE, id |-> next_id, challenger |-> p,
                               opponent |-> op[p].who, created_at |-> now']
    BY <1>1, <2>1, <2>2, CreateFacts
  <2>4. next_id' = next_id + 1
    BY <2>2 DEF CreateChallenge
  <2>5. issued'[next_id] = made
    <3>1. made \in Issue
      BY <1>1, <2>1 DEF Issue
    <3>2. issued' = Append(issued, made)
      BY <1>4 DEF CreateNew
    <3> HIDE DEF made
    <3>3. Len(issued) + 1 = next_id
      BY <1>1
    <3>4. QED BY <1>1, <3>1, <3>2, <3>3, AppendFacts
  <2>6. Taken(n)
    BY <2>3, <2>4, <2>5 DEF PairOf
  <2>7. \A s \in Active : Same(s)
    BY <1>2, <2>3
  <2>8. QED BY <2>3, <2>6, <2>7
<1>5. ASSUME NEW slots \in SUBSET Active, Free(slots), \A s \in slots : Freed(s) PROVE Goal
  BY <1>1, <1>2, <1>5, FreeFacts
<1>6. ASSUME NEW p \in Player, NEW step \in Answering \ Finding, NEW next, Remove(p, step, next)
      PROVE  Goal
  <2>1. First(SlotsWithId(op[p].id)) \in SUBSET Active
    BY DEF First, SlotsWithId
  <2>2. \A s \in First(SlotsWithId(op[p].id)) : Freed(s)
    BY <1>6 DEF First, SlotsWithId, Remove
  <2>3. QED BY <1>5, <1>6, <2>1, <2>2 DEF Remove, RemoveChallengeById
<1>7. ASSUME MainTop PROVE Goal
  <2>1. CASE CleanupExpired /\ expired' = expired \union {challenges[s].id : s \in Expired}
    <3>1. Expired \in SUBSET Active
      BY DEF Expired
    <3>2. \A s \in Expired : Freed(s)
      BY <2>1
    <3>3. Free(Expired)
      BY <2>1 DEF CleanupExpired
    <3>4. QED BY <1>5, <3>1, <3>2, <3>3
  <2>2. CASE UNCHANGED mmVars
    BY <1>3, <2>2 DEF mmVars
  <2>3. QED BY <1>7, <2>1, <2>2 DEF MainTop
<1> HIDE DEF Goal
<1>8. ASSUME NEW p \in Player, Thread(p) PROVE Goal
  <2>1. {"accept_remove", "accept_drop", "decline_remove"} \subseteq Answering \ Finding
    BY DEF Answering, Step, Finding
  <2>2. CreateNothing(p) \/ DeclineTrack(p) => Goal
    BY <1>3 DEF CreateNothing, NoNewChallenge, DeclineTrack, TrackDecline
  <2>3. \A step, next : Check(p, step, next) => Goal
    BY <1>3 DEF Check, mmVars
  <2>4. QED BY <1>3, <1>4, <1>6, <1>8, <2>1, <2>2, <2>3
    DEF Thread, Challenge1, Notify, Find, AcceptSession, AcceptCreate, AcceptNoRoom, AcceptStart,
        DeclineNotify, mmVars
<1>9. ASSUME NEW p \in Player, Login(p) \/ Logout(p) PROVE Goal
  BY <1>3, <1>9 DEF Login, Logout, AddPlayer, RemovePlayer
<1>10. ASSUME Reject \/ Wait \/ UNCHANGED vars PROVE Goal
  BY <1>3, <1>10 DEF Reject, Wait, Tick, vars, mmVars
<1>11. Goal
  BY <1>7, <1>8, <1>9, <1>10 DEF Next
<1>12. QED BY <1>11 DEF Goal

-----------------------------------------------------------------------------
(* Whom a challenge is for.                                                 *)

\* An id is heard, and a challenge answered, by the opponent it was issued for
\* only, and a slot in use holds the players of the challenge that was issued.
Addressed ==
  /\ \A p \in Player : \A id \in heard[p] : issued[id].opponent = p
  /\ \A p \in Player : /\ op[p].at = "notify" => issued[op[p].id].opponent = op[p].who
                       /\ op[p].at \in Answering => issued[op[p].id].opponent = p
  /\ \A s \in Active : /\ challenges[s].id \in Made
                       /\ PairOf(challenges[s]) = PairOf(issued[challenges[s].id])

\* An id stays heard by the one player it was issued for.
LEMMA NextKeepsAddressed == ASSUME Types, Addressed, [Next]_vars PROVE Addressed'
<1>1. /\ next_id \in Nat \ {0} /\ \A p \in Player : AtDesk(p) /\ heard \in [Player -> SUBSET Made]
      /\ Len(issued) = next_id - 1 /\ issued \in Seq(Issue)
  BY DEF Types, MMTypeOK
<1>2. \A id \in Made : issued'[id] = issued[id] /\ id \in Made'
  BY NextKeepsHistories, NextKeepsIds
<1>3. \A p \in Player : CreateNew(p) =>
        /\ next_id' = next_id + 1 /\ issued'[next_id].opponent = op[p].who
  <2> SUFFICES ASSUME NEW p \in Player, CreateNew(p)
               PROVE  next_id' = next_id + 1 /\ issued'[next_id].opponent = op[p].who
    OBVIOUS
  <2> DEFINE made == [challenger |-> p, opponent |-> op[p].who, at |-> now']
  <2>1. made \in Issue
    BY <1>1, NextKeepsIds DEF CreateNew, AtDesk, Issue, MMTypeOK
  <2>2. issued' = Append(issued, made) /\ next_id' = next_id + 1
    BY DEF CreateNew, CreateChallenge
  <2>3. Len(issued) + 1 = next_id
    BY <1>1
  <2>4. made.opponent = op[p].who
    OBVIOUS
  <2> HIDE DEF made
  <2>5. issued'[next_id] = made
    BY <1>1, <2>1, <2>2, <2>3, AppendFacts
  <2>6. QED BY <2>2, <2>4, <2>5
<1>4. ASSUME NEW p \in Player, NEW id \in heard'[p] PROVE issued'[id].opponent = p
  <2>1. CASE id \in heard[p]
    BY <1>1, <1>2, <2>1 DEF Addressed
  <2>2. CASE id \notin heard[p]
    <3>1. PICK r \in Player : Notify(r)
      BY <2>2, HistorySteps
    <3>2. heard' = [heard EXCEPT ![op[r].who] =
                      @ \union (IF op[r].who \in online THEN {op[r].id} ELSE {})]
          /\ op[r].at = "notify"
      BY <3>1 DEF Notify
    <3>3. op[r].who = p /\ id = op[r].id
      BY <1>1, <2>2, <3>2
    <3>4. op[r].id \in Made
      BY <1>1, <3>2 DEF AtDesk
    <3>5. QED BY <1>2, <3>2, <3>3, <3>4 DEF Addressed
  <2>3. QED BY <2>1, <2>2
<1>5. ASSUME NEW p \in Player
      PROVE  /\ op'[p].at = "notify" => issued'[op'[p].id].opponent = op'[p].who
             /\ op'[p].at \in Answering => issued'[op'[p].id].opponent = p
  <2>1. CASE op'[p] = op[p]
    BY <1>1, <1>2, <2>1 DEF Addressed, AtDesk
  <2>2. CASE op'[p].at \in {"idle", "create"}
    BY <2>2 DEF Answering, Step
  <2>3. CASE CreateNew(p) /\ op'[p].at = "notify" /\ op'[p].id = next_id /\ op'[p].who = op[p].who
    BY <1>3, <2>3 DEF Answering, Step
  <2>4. CASE op'[p].at \in Answering /\ op'[p].id \in heard[p]
    <3>1. op'[p].at # "notify"
      BY <2>4 DEF Answering, Step
    <3>2. QED BY <1>1, <1>2, <2>4, <3>1 DEF Addressed
  <2>5. CASE op[p].at \in Answering /\ op'[p].at \in Answering /\ op'[p].id = op[p].id
    <3>1. op'[p].at # "notify"
      BY <2>5 DEF Answering, Step
    <3>2. QED BY <1>1, <1>2, <2>5, <3>1 DEF Addressed, AtDesk
  <2>6. QED BY <2>1, <2>2, <2>3, <2>4, <2>5, DeskSteps
<1>6. ASSUME NEW s \in Active'
      PROVE  /\ challenges'[s].id \in Made'
             /\ PairOf(challenges'[s]) = PairOf(issued'[challenges'[s].id])
  <2>1. CASE s \in Active
    BY <1>2, <2>1, SlotSteps DEF Addressed, PairOf
  <2>2. CASE s \notin Active
    <3>1. /\ challenges'[s].id = next_id /\ next_id' = next_id + 1
          /\ PairOf(challenges'[s]) = PairOf(issued'[next_id])
      BY <2>2, SlotSteps
    <3>2. QED BY <1>1, <3>1 DEF Made
  <2>3. QED BY <2>1, <2>2
<1>7. QED BY <1>4, <1>5, <1>6 DEF Addressed

-----------------------------------------------------------------------------
(* What a handler finds is there, and not answered, when it answers.        *)

\* Between finding a challenge and answering it a thread points to its slot,
\* unless the challenge expired.
Found ==
  \A p \in Player : op[p].at \in Finding =>
    op[p].id \in expired \/ (op[p].slot \in Active /\ challenges[op[p].slot].id = op[p].id)

\* And all that time the challenge has no answer.
Fresh ==
  \A p \in Player : op[p].at \in Finding => \A i \in DOMAIN answers : answers[i].id # op[p].id

\* A new answer is that of a thread that has found a challenge.
LEMMA AnswerSteps ==
  ASSUME Types, [Next]_vars
  PROVE  \/ answers' = answers
         \/ \E r \in Player, answer \in Answer :
              /\ op[r].at \in Finding /\ op'[r].at \in Removing /\ op'[r].id = op[r].id
              /\ answers' = Append(answers, answer)
              /\ answer.id = op[r].id
              /\ answer.a = Pointed(r).challenger /\ answer.b \in {r, Pointed(r).opponent}
              /\ answer.at = now
              /\ \/ AcceptCreate(r) /\ answer.kind = "game"
                 \/ DeclineTrack(r) /\ answer.kind = "decline"
              /\ UNCHANGED <<bookVars, expired, issued, players, now>>
<1>1. /\ op \in [Player -> Desk] /\ \A p \in Player : AtDesk(p)
      /\ now \in Nat /\ challenges \in [Slot -> Challenge]
  BY DEF Types, MMTypeOK
<1>2. \A s \in Slot : challenges[s].challenger \in Anyone /\ challenges[s].opponent \in Anyone
  BY <1>1 DEF Challenge, Anyone
<1>3. ASSUME NEW r \in Player, NEW kind \in {"game", "decline"}, NEW b \in Anyone,
             op[r].at \in {"accept_create", "decline_track"},
             answers' = Append(answers, [kind |-> kind, id |-> op[r].id, at |-> now,
                                         a |-> Pointed(r).challenger, b |-> b])
      PROVE  \E answer \in Answer :
               /\ answers' = Append(answers, answer)
               /\ answer.id = op[r].id /\ answer.a = Pointed(r).challenger /\ answer.b = b
               /\ answer.at = now /\ answer.kind = kind
  <2> DEFINE answer == [kind |-> kind, id |-> op[r].id, at |-> now,
                        a |-> Pointed(r).challenger, b |-> b]
  <2>1. op[r].slot \in Slot /\ op[r].id \in Made
    BY <1>1, <1>3 DEF AtDesk, Answering, Step
  <2>2. answer \in Answer
    BY <1>1, <1>2, <2>1 DEF Pointed, Answer, Anyone
  <2>3. /\ answer.id = op[r].id /\ answer.a = Pointed(r).challenger /\ answer.b = b
        /\ answer.at = now /\ answer.kind = kind
    OBVIOUS
  <2>4. answers' = Append(answers, answer)
    BY <1>3
  <2> HIDE DEF answer
  <2>5. QED BY <2>2, <2>3, <2>4
<1>4. ASSUME NEW r \in Player, AcceptCreate(r) \/ DeclineTrack(r)
      PROVE  /\ op[r].at \in {"accept_create", "decline_track"} /\ op[r].at \in Finding
             /\ op'[r].at \in Removing /\ op'[r].id = op[r].id
             /\ UNCHANGED <<bookVars, expired, issued, players, now>>
  <2>1. \E at \in Removing : Turn(r, at, op[r].id, op[r].slot, op[r].who)
    BY <1>1, <1>4, ThreadTurns DEF Removing
  <2>2. op'[r].at \in Removing /\ op'[r].id = op[r].id
    BY <1>1, <2>1, TurnFacts
  <2>3. UNCHANGED <<bookVars, expired, issued, players, now>>
    BY <1>4 DEF AcceptCreate, DeclineTrack, TrackDecline, mmVars, playerVars
  <2>4. QED BY <1>4, <2>2, <2>3 DEF AcceptCreate, DeclineTrack, Finding
<1>5. ASSUME NEW r \in Player, AcceptCreate(r)
      PROVE  \E answer \in Answer :
               /\ answers' = Append(answers, answer) /\ answer.id = op[r].id
               /\ answer.a = Pointed(r).challenger /\ answer.b = r
               /\ answer.at = now /\ answer.kind = "game"
  <2>1. r \in Anyone /\ "game" \in {"game", "decline"}
    BY DEF Anyone
  <2>2. answers' = Append(answers, [kind |-> "game", id |-> op[r].id, at |-> now,
                                    a |-> Pointed(r).challenger, b |-> r])
    BY <1>5 DEF AcceptCreate
  <2>3. QED BY <1>3, <1>4, <1>5, <2>1, <2>2
<1>6. ASSUME NEW r \in Player, DeclineTrack(r)
      PROVE  \E answer \in Answer :
               /\ answers' = Append(answers, answer) /\ answer.id = op[r].id
               /\ answer.a = Pointed(r).challenger /\ answer.b = Pointed(r).opponent
               /\ answer.at = now /\ answer.kind = "decline"
  <2>1. op[r].slot \in Slot
    BY <1>1, <1>6 DEF DeclineTrack, AtDesk, Answering, Step
  <2>2. Pointed(r).opponent \in Anyone /\ "decline" \in {"game", "decline"}
    BY <1>2, <2>1 DEF Pointed
  <2>3. answers' = Append(answers, [kind |-> "decline", id |-> op[r].id, at |-> now,
                                    a |-> Pointed(r).challenger, b |-> Pointed(r).opponent])
    BY <1>6 DEF DeclineTrack
  <2>4. QED BY <1>3, <1>4, <1>6, <2>2, <2>3
<1>7. QED BY <1>4, <1>5, <1>6, HistorySteps

\* Between look-up and answer the slot keeps the challenge, or that expired.
LEMMA NextKeepsFound == ASSUME Types, Addressed, Found, [Next]_vars PROVE Found'
<1>1. SUFFICES ASSUME NEW p \in Player, op'[p].at \in Finding
               PROVE  \/ op'[p].id \in expired'
                      \/ op'[p].slot \in Active' /\ challenges'[op'[p].slot].id = op'[p].id
  BY DEF Found
<1>2. expired \subseteq expired'
  BY HistorySteps
<1>3. CASE op'[p] = op[p]
  <2>1. CASE op[p].id \in expired
    BY <1>2, <1>3, <2>1
  <2>2. CASE op[p].slot \in Active /\ challenges[op[p].slot].id = op[p].id
    <3>1. CASE op[p].slot \in Active'
      BY <1>3, <2>2, <3>1, SlotSteps
    <3>2. CASE op[p].slot \notin Active'
      <4>1. ASSUME NEW r \in Player, op[r].at \in Answering \ Finding, op[r].id = op[p].id
            PROVE  FALSE
        <5>1. issued[op[r].id].opponent = r
          BY <4>1 DEF Addressed
        <5>2. issued[op[p].id].opponent = p
          BY <1>1, <1>3 DEF Addressed, Finding, Answering, Step
        <5>3. QED BY <1>1, <1>3, <4>1, <5>1, <5>2
      <4>2. QED BY <1>3, <2>2, <3>2, <4>1, SlotSteps
    <3>3. QED BY <3>1, <3>2
  <2>3. QED BY <1>1, <1>3, <2>1, <2>2 DEF Found
<1>4. CASE op'[p].slot \in SlotsWithId(op'[p].id) /\ UNCHANGED bookVars
  BY <1>4 DEF SlotsWithId, Active, bookVars
<1>5. CASE /\ op'[p].id = op[p].id /\ op'[p].slot = op[p].slot
           /\ op[p].at \in Finding /\ UNCHANGED <<bookVars, expired>>
  BY <1>5 DEF Found, Active, bookVars
<1>6. op'[p].at \notin {"idle", "create", "notify"}
  BY <1>1 DEF Finding
<1>7. QED BY <1>1, <1>3, <1>4, <1>5, <1>6, DeskSteps

\* A challenge that a handler has found is answered by no one else meanwhile.
LEMMA NextKeepsFresh == ASSUME Types, Addressed, Fresh, AnsweredOnce, [Next]_vars PROVE Fresh'
<1>1. SUFFICES ASSUME NEW p \in Player, op'[p].at \in Finding, NEW i \in DOMAIN answers'
               PROVE  answers'[i].id # op'[p].id
  BY DEF Fresh
<1>2. answers \in Seq(Answer)
  BY DEF Types
<1>3. Finding \subseteq Answering
  BY DEF Finding, Answering, Step
<1>4. CASE op'[p] = op[p]
  <2>1. CASE answers' = answers
    BY <1>1, <1>4, <2>1 DEF Fresh
  <2>2. CASE answers' # answers
    <3>1. PICK r \in Player, answer \in Answer :
            /\ op[r].at \in Finding /\ op'[r].at \in Removing
            /\ answers' = Append(answers, answer) /\ answer.id = op[r].id
      BY <2>2, AnswerSteps
    <3>2. r # p
      BY <1>1, <3>1 DEF Finding, Removing
    <3>3. op[r].id # op[p].id
      BY <1>1, <1>3, <1>4, <3>1, <3>2 DEF Addressed
    <3>4. CASE i \in DOMAIN answers
      BY <1>1, <1>2, <1>4, <3>1, <3>4, AppendFacts DEF Fresh
    <3>5. CASE i \notin DOMAIN answers
      BY <1>1, <1>2, <1>4, <3>1, <3>3, <3>5, AppendFacts
    <3>6. QED BY <3>4, <3>5
  <2>3. QED BY <2>1, <2>2
<1>5. CASE /\ op[p].at = "idle" /\ op'[p].id \in heard[p]
           /\ op'[p].slot \in SlotsWithId(op'[p].id) /\ answers' = answers
  <2>1. issued[op'[p].id].opponent = p
    BY <1>5 DEF Addressed
  <2>2. ASSUME NEW r \in Player, op[r].id = op'[p].id, op[r].at \in Removing PROVE FALSE
    <3>1. issued[op[r].id].opponent = r
      BY <2>2 DEF Addressed, Removing, Answering, Step
    <3>2. QED BY <1>5, <2>1, <2>2, <3>1 DEF Removing
  <2>3. QED BY <1>1, <1>5, <2>2 DEF AnsweredOnce, Removing
<1>6. CASE op'[p].id = op[p].id /\ op[p].at \in Finding /\ answers' = answers
  BY <1>1, <1>6 DEF Fresh
<1>7. op'[p].at \notin {"idle", "create", "notify"}
  BY <1>1 DEF Finding
<1>8. QED BY <1>1, <1>4, <1>5, <1>6, <1>7, DeskSteps

-----------------------------------------------------------------------------
(* One answer, and the right one.                                           *)

\* To remove a challenge leaves no slot with its id.
LEMMA RemovedIsGone ==
  ASSUME Types, OneSlotPerChallenge, NEW id, RemoveChallengeById(id)
  PROVE  \A s \in Active' : challenges'[s].id # id
<1>1. MMTypeOK /\ First(SlotsWithId(id)) \in SUBSET Active /\ Free(First(SlotsWithId(id)))
  BY DEF Types, First, SlotsWithId, RemoveChallengeById
<1>2. /\ Active' = Active \ First(SlotsWithId(id))
      /\ \A s \in Slot : challenges'[s].id = challenges[s].id
  BY <1>1, FreeFacts
<1>3. \A s, t \in SlotsWithId(id) : s = t
  BY DEF SlotsWithId, OneSlotPerChallenge
<1>4. SlotsWithId(id) \subseteq First(SlotsWithId(id))
  <2>1. \A s \in SlotsWithId(id) : s \in Int
    BY DEF SlotsWithId, Active, Slot
  <2>2. QED BY <1>3, <2>1 DEF First
<1>5. \A s \in Active' : s \in Active /\ challenges'[s].id = challenges[s].id
  BY <1>2 DEF Active
<1>6. QED BY <1>2, <1>4, <1>5 DEF SlotsWithId

\* Who has answered a challenge removes it next.
LEMMA RemovingSteps ==
  ASSUME Types, [Next]_vars, NEW p \in Player, op[p].at \in Removing
  PROVE  op'[p] = op[p] \/ RemoveChallengeById(op[p].id)
<1>1. op \in [Player -> Desk]
  BY DEF Types
<1>2. ASSUME NEW r \in Player, Thread(r), r # p PROVE op'[p] = op[p]
  <2>1. \A id, step : Find(r, id, step) => \E at, i, slot, who : Turn(r, at, i, slot, who)
    BY <1>1, ThreadTurns
  <2>2. \A step, next : Check(r, step, next) \/ Remove(r, step, next)
          => \E at, id, slot, who : Turn(r, at, id, slot, who)
    BY <1>1, ThreadTurns
  <2>3. \E at, id, slot, who : Turn(r, at, id, slot, who)
    BY <1>1, <1>2, <2>1, <2>2, ThreadTurns DEF Thread
  <2>4. QED BY <1>1, <1>2, <2>3, TurnFacts
<1>3. ASSUME Thread(p) PROVE RemoveChallengeById(op[p].id)
  BY <1>3 DEF Thread, Removing, Challenge1, CreateNew, CreateNothing, Notify, Find, Check, Remove,
              AcceptSession, AcceptCreate, AcceptNoRoom, AcceptStart, DeclineTrack, DeclineNotify
<1>4. \A r \in Player : Login(r) \/ Logout(r) => op' = op
  BY DEF Login, Logout
<1>5. ASSUME MainTop \/ Reject \/ Wait \/ UNCHANGED vars PROVE op' = op
  BY <1>5 DEF MainTop, Reject, Wait, serverVars, vars
<1>6. QED BY <1>2, <1>3, <1>4, <1>5 DEF Next

\* A new answer is for a challenge without one.
LEMMA NextKeepsAnsweredOnce ==
  ASSUME Types, OneSlotPerChallenge, Addressed, Fresh, AnsweredOnce, [Next]_vars
  PROVE  AnsweredOnce'
<1>1. answers \in Seq(Answer) /\ next_id \in Nat
  BY DEF Types, MMTypeOK
<1>2. \A i \in DOMAIN answers : answers[i].id \in Made
  <2>1. \A i \in DOMAIN answers : answers[i] \in Answer
    BY <1>1
  <2>2. QED BY <2>1 DEF Answer
<1> DEFINE InUse(id) == \E s \in Active' : challenges'[s].id = id
           Going(id) == \E p \in Player : op'[p].id = id /\ op'[p].at \in Removing
\* An old answer.
<1>3. ASSUME NEW i \in DOMAIN answers, InUse(answers[i].id) PROVE Going(answers[i].id)
  <2> DEFINE id == answers[i].id
  <2>1. PICK s \in Active' : challenges'[s].id = id
    BY <1>3
  <2>2. id \in Made /\ id # next_id
    BY <1>1, <1>2 DEF Made
  <2>3. s \in Active /\ challenges[s].id = id
    BY <2>1, <2>2, SlotSteps
  <2>4. SlotsWithId(id) # {}
    BY <2>3 DEF SlotsWithId
  <2>5. PICK p \in Player : op[p].id = id /\ op[p].at \in Removing
    BY <2>4 DEF AnsweredOnce, Removing
  <2>6. ~RemoveChallengeById(op[p].id)
    BY <2>1, <2>5, RemovedIsGone
  <2>7. op'[p] = op[p]
    BY <2>5, <2>6, RemovingSteps
  <2>8. QED BY <2>5, <2>7
<1>4. SUFFICES /\ \A i, j \in DOMAIN answers' : answers'[i].id = answers'[j].id => i = j
               /\ \A i \in DOMAIN answers' : InUse(answers'[i].id) => Going(answers'[i].id)
  <2>1. SUFFICES ASSUME NEW i \in DOMAIN answers', SlotsWithId(answers[i].id)' # {}
                 PROVE  InUse(answers'[i].id)
    BY DEF AnsweredOnce, Removing
  <2>2. QED BY <2>1 DEF SlotsWithId
<1> HIDE DEF InUse, Going
<1>5. CASE answers' = answers
  <2>1. \A i, j \in DOMAIN answers : answers[i].id = answers[j].id => i = j
    BY DEF AnsweredOnce
  <2>2. QED BY <1>3, <1>5, <2>1
<1>6. CASE answers' # answers
  <2>1. PICK r \in Player, answer \in Answer :
          /\ op[r].at \in Finding /\ op'[r].at \in Removing /\ op'[r].id = op[r].id
          /\ answers' = Append(answers, answer) /\ answer.id = op[r].id
    BY <1>6, AnswerSteps
  <2>2. \A i \in DOMAIN answers : answers[i].id # answer.id
    BY <2>1 DEF Fresh
  <2>3. /\ DOMAIN answers' = DOMAIN answers \union {Len(answers) + 1}
        /\ answers'[Len(answers) + 1] = answer
        /\ \A i \in DOMAIN answers : answers'[i] = answers[i]
    BY <1>1, <2>1, AppendFacts
  <2>4. \A i, j \in DOMAIN answers' : answers'[i].id = answers'[j].id => i = j
    BY <2>2, <2>3 DEF AnsweredOnce
  <2>5. Going(answer.id)
    BY <2>1 DEF Going
  <2>6. \A i \in DOMAIN answers' : InUse(answers'[i].id) => Going(answers'[i].id)
    BY <1>3, <2>3, <2>5
  <2>7. QED BY <2>4, <2>6
<1>7. QED BY <1>5, <1>6

\* A new answer is for the players of its challenge, unless it expired.
LEMMA NextKeepsMatches ==
  ASSUME Types, Addressed, Found, AnswerMatchesChallenge, [Next]_vars
  PROVE  AnswerMatchesChallenge'
<1>1. answers \in Seq(Answer) /\ \A i \in DOMAIN answers : answers[i].id \in Made
  <2>1. answers \in Seq(Answer)
    BY DEF Types
  <2>2. \A i \in DOMAIN answers : answers[i] \in Answer
    BY <2>1
  <2>3. QED BY <2>1, <2>2 DEF Answer
<1>2. expired \subseteq expired' /\ \A id \in Made : issued'[id] = issued[id]
  BY HistorySteps, NextKeepsHistories
<1>3. \A i \in DOMAIN answers : answers[i].id \notin expired' =>
        <<answers[i].a, answers[i].b>> = PairOf(issued'[answers[i].id])
  BY <1>1, <1>2 DEF AnswerMatchesChallenge
<1>4. CASE answers' = answers
  BY <1>3, <1>4 DEF AnswerMatchesChallenge, PairOf
<1>5. CASE answers' # answers
  <2>1. PICK r \in Player, answer \in Answer :
          /\ op[r].at \in Finding
          /\ answers' = Append(answers, answer) /\ answer.id = op[r].id
          /\ answer.a = Pointed(r).challenger /\ answer.b \in {r, Pointed(r).opponent}
          /\ UNCHANGED <<bookVars, expired, issued>>
    BY <1>5, AnswerSteps
  <2>2. ASSUME answer.id \notin expired'
        PROVE  <<answer.a, answer.b>> = PairOf(issued'[answer.id])
    <3>1. op[r].slot \in Active /\ challenges[op[r].slot].id = op[r].id
      BY <2>1, <2>2 DEF Found
    <3>2. PairOf(Pointed(r)) = PairOf(issued[op[r].id])
      BY <3>1 DEF Addressed, Pointed
    <3>3. issued[op[r].id].opponent = r
      BY <2>1 DEF Addressed, Finding, Answering, Step
    <3>4. QED BY <2>1, <3>2, <3>3 DEF PairOf
  <2>3. /\ DOMAIN answers' = DOMAIN answers \union {Len(answers) + 1}
        /\ answers'[Len(answers) + 1] = answer
        /\ \A i \in DOMAIN answers : answers'[i] = answers[i]
    BY <1>1, <2>1, AppendFacts
  <2>4. ASSUME NEW i \in DOMAIN answers', answers'[i].id \notin expired'
        PROVE  <<answers'[i].a, answers'[i].b>> = PairOf(issued'[answers'[i].id])
    BY <1>3, <2>2, <2>3, <2>4
  <2>5. QED BY <2>4 DEF AnswerMatchesChallenge, PairOf
<1>6. QED BY <1>4, <1>5

\* The inductive invariant.
Answered ==
  /\ OneSlotPerChallenge /\ Addressed /\ Found /\ Fresh
  /\ AnsweredOnce /\ AnswerMatchesChallenge

\* The invariant about answers holds in every reachable state.
LEMMA AnsweredAlways == Spec => []Answered
<1>1. Init => Answered
  <2> SUFFICES ASSUME Init PROVE Answered
    OBVIOUS
  <2>1. Active = {} /\ answers = <<>> /\ \A p \in Player : op[p].at = "idle" /\ heard[p] = {}
    BY DEF Init, MMInit, Active, Idle
  <2>2. OneSlotPerChallenge /\ AnsweredOnce /\ AnswerMatchesChallenge
    BY <2>1 DEF OneSlotPerChallenge, AnsweredOnce, AnswerMatchesChallenge
  <2>3. Addressed /\ Found /\ Fresh
    BY <2>1 DEF Addressed, Found, Fresh, Finding, Answering, Step
  <2>4. QED BY <2>2, <2>3 DEF Answered
<1>2. Types /\ Answered /\ [Next]_vars => Answered'
  <2> SUFFICES ASSUME Types, Answered, [Next]_vars PROVE Answered'
    OBVIOUS
  <2>1. OneSlotPerChallenge'
    BY NextIsCall, CallKeepsApart DEF Types, Answered
  <2>2. QED BY <2>1, NextKeepsAddressed, NextKeepsFound, NextKeepsFresh, NextKeepsAnsweredOnce,
               NextKeepsMatches DEF Answered
<1>3. QED BY <1>1, <1>2, TypesAlways, PTL DEF Spec

\* The invariant AnsweredOnce of Challenges.tla: whatever the threads, the cleanup
\* and the time that goes by do between two steps of a handler, a challenge that
\* was made leads to one game or one decline, and is removed by who answered it.
THEOREM OneAnswer == Spec => []AnsweredOnce
<1>1. Answered => AnsweredOnce
  BY DEF Answered
<1>2. QED BY <1>1, AnsweredAlways, PTL

\* The invariant AnswerMatchesChallenge of Challenges.tla: the slot that a handler
\* reads with no lock has the challenge that it found, unless that one expired.
THEOREM TheRightAnswer == Spec => []AnswerMatchesChallenge
<1>1. Answered => AnswerMatchesChallenge
  BY DEF Answered
<1>2. QED BY <1>1, AnsweredAlways, PTL

\* The handlers use matchmaking as its own specification allows: the invariants
\* CountMatchesSlots and OneSlotPerChallenge of Matchmaking.tla hold of the server.
THEOREM TablesStayRight == Spec => [](CountMatchesSlots /\ OneSlotPerChallenge)
<1>1. Init => CountMatchesSlots
  BY MMInitCount DEF Init
<1>2. Types /\ CountMatchesSlots /\ [Next]_vars => CountMatchesSlots'
  BY NextIsCall, CallKeepsCount DEF Types
<1>3. Answered => OneSlotPerChallenge
  BY DEF Answered
<1>4. QED BY <1>1, <1>2, <1>3, TypesAlways, AnsweredAlways, PTL DEF Spec

\* The server with its handlers implements ChallengeBook.tla as matchmaking alone
\* does, the refinement RefinesBook: what the handlers do between their calls
\* breaks no promise of the component.
THEOREM ServerImplementsBook == Spec => RefinesBook
<1>1. Init => Book!Init
  BY MMInitBook DEF Init
<1>2. Types /\ CountMatchesSlots /\ OneSlotPerChallenge /\ [Next]_vars
        => [Book!Next]_(Book!vars)
  BY NextIsCall, CallRefinesBook DEF Types
<1>3. QED BY <1>1, <1>2, TypesAlways, TablesStayRight, PTL DEF Spec, RefinesBook, Book!Spec

-----------------------------------------------------------------------------
(* How often a player can be declined.                                      *)

\* Answer i is a decline of a challenge of c to o that did not expire, and those
\* that are not forgotten yet.
Counts(i, c, o) ==
  /\ answers[i].kind = "decline" /\ answers[i].id \notin expired
  /\ PairOf(issued[answers[i].id]) = <<c, o>>
Declines(c, o) ==
  {i \in DOMAIN answers : Counts(i, c, o) /\ now - answers[i].at < DeclineWindow}

Unanswered(s) == \A i \in DOMAIN answers : answers[i].id # challenges[s].id

\* The tables count at least the declines that there were, and date the last of
\* them; who has an open challenge has not had all the declines.
Limited ==
  /\ \A i \in DOMAIN answers : answers[i].at <= now
  /\ \A c, o \in Player : \A i \in DOMAIN answers :
       Counts(i, c, o) => answers[i].at <= last_decline_times[o][c]
  /\ \A id \in Made : issued[id].challenger \in players /\ issued[id].opponent \in players
  /\ \A c, o \in Player : /\ Cardinality(Declines(c, o)) <= CurrentDeclines(o, c)
                          /\ Cardinality(Declines(c, o)) <= MaxDeclines
  /\ \A c, o \in Player : \A s \in Active :
       PairOf(challenges[s]) = <<c, o>> /\ Unanswered(s)
         => Cardinality(Declines(c, o)) < MaxDeclines
  /\ DeclinesAreLimited

\* What is in the histories, and stays there.
LEMMA HistoryFacts ==
  ASSUME Types, [Next]_vars
  PROVE  /\ answers \in Seq(Answer)
         /\ \A i \in DOMAIN answers :
              /\ i \in Nat /\ i \in DOMAIN answers' /\ answers'[i] = answers[i]
              /\ answers[i].id \in Made /\ answers[i].at \in Nat
         /\ \A id \in Made : /\ issued'[id] = issued[id]
                             /\ issued[id].challenger \in Player /\ issued[id].opponent \in Player
         /\ expired \subseteq expired'
<1>1. answers \in Seq(Answer) /\ issued \in Seq(Issue)
  BY DEF Types
<1>2. \A i \in DOMAIN answers : i \in Nat /\ answers[i] \in Answer
  BY <1>1
<1>3. \A i \in DOMAIN answers : i \in DOMAIN answers' /\ answers'[i] = answers[i]
  BY <1>1, AnswerSteps, AppendFacts
<1>4. \A id \in Made : id \in DOMAIN issued /\ issued'[id] = issued[id]
  BY NextKeepsHistories
<1>5. \A id \in DOMAIN issued : issued[id] \in Issue
  BY <1>1
<1>6. QED BY <1>1, <1>2, <1>3, <1>4, <1>5, HistorySteps DEF Answer, Issue

\* There are finitely many declines.
LEMMA DeclinesFinite ==
  ASSUME Types, NEW c, NEW o
  PROVE  IsFiniteSet(Declines(c, o)) /\ Cardinality(Declines(c, o)) \in Nat
<1>1. Len(answers) \in Nat /\ DOMAIN answers = 1 .. Len(answers)
  BY DEF Types
<1>2. IsFiniteSet(DOMAIN answers)
  BY <1>1, FS_Interval
<1>3. Declines(c, o) \subseteq DOMAIN answers
  BY DEF Declines
<1>4. QED BY <1>2, <1>3, FS_Subset, FS_CardinalityType

\* Time goes on, players stay known, and declines are counted by DeclineTrack only;
\* all that other steps do is to forget the old ones.
LEMMA LimitSteps ==
  ASSUME Types, [Next]_vars
  PROVE  /\ players \subseteq players' /\ now \in Nat /\ now' \in Nat /\ now <= now'
         /\ \/ /\ last_decline_times' = last_decline_times
               /\ \/ decline_counts' = decline_counts
                  \/ \E c, o \in Player :
                       decline_counts' = [decline_counts EXCEPT ![o][c] = CurrentDeclines(o, c)]
            \/ \E p \in Player : DeclineTrack(p)
<1>1. now \in Nat /\ now' \in Nat /\ \A p \in Player : AtDesk(p)
  BY NextKeepsIds DEF Types, MMTypeOK
<1> DEFINE Forgets == \/ decline_counts' = decline_counts
                      \/ \E c, o \in Player :
                           decline_counts' = [decline_counts EXCEPT ![o][c] = CurrentDeclines(o, c)]
           Quiet == /\ players \subseteq players' /\ now <= now'
                    /\ last_decline_times' = last_decline_times /\ Forgets
<1>2. ASSUME UNCHANGED <<players, limitVars, now>> PROVE Quiet
  BY <1>1, <1>2 DEF limitVars
<1>3. ASSUME NEW p \in Player, CreateNew(p) \/ CreateNothing(p) PROVE Quiet
  <2>1. op[p].who \in Player
    BY <1>1, <1>3 DEF CreateNew, CreateNothing, AtDesk
  <2>2. /\ ForgetDeclines(p, op[p].who) /\ now' \in {now, now + 1}
        /\ UNCHANGED <<players, last_decline_times>>
    BY <1>3 DEF CreateNew, CreateChallenge, CreateNothing, NoNewChallenge, playerVars
  <2>3. Forgets
    BY <2>1, <2>2 DEF ForgetDeclines
  <2> HIDE DEF Forgets
  <2>4. QED BY <1>1, <2>2, <2>3
<1>4. ASSUME NEW p \in Player, NEW step, NEW next, Remove(p, step, next)
      PROVE  UNCHANGED <<players, limitVars, now>>
  BY <1>4 DEF Remove, RemoveChallengeById, playerVars
<1>5. ASSUME NEW p \in Player, Login(p) \/ Logout(p) PROVE Quiet
  BY <1>1, <1>5 DEF Login, Logout, AddPlayer, RemovePlayer, limitVars
<1>6. ASSUME MainTop PROVE UNCHANGED <<players, limitVars, now>>
  <2>1. CleanupExpired \/ UNCHANGED mmVars
    BY <1>6 DEF MainTop
  <2>2. QED BY <2>1 DEF CleanupExpired, mmVars, playerVars
<1>7. ASSUME Reject \/ UNCHANGED vars PROVE UNCHANGED <<players, limitVars, now>>
  BY <1>7 DEF Reject, vars, mmVars, playerVars
<1>8. ASSUME Wait PROVE Quiet
  BY <1>1, <1>8 DEF Wait, Tick, limitVars, playerVars
<1>9. ASSUME NEW p \in Player, DeclineTrack(p) PROVE players \subseteq players' /\ now <= now'
  BY <1>1, <1>9 DEF DeclineTrack, TrackDecline, playerVars
<1> HIDE DEF Quiet, Forgets
<1>10. ASSUME NEW p \in Player, Thread(p), ~DeclineTrack(p) PROVE Quiet
  <2>1. \A step, next : Remove(p, step, next) \/ Check(p, step, next) => Quiet
    BY <1>2, <1>4 DEF Check, mmVars, playerVars
  <2>2. CASE UNCHANGED mmVars
    BY <1>2, <2>2 DEF mmVars, playerVars
  <2>3. QED BY <1>3, <1>10, <2>1, <2>2
    DEF Thread, Challenge1, Notify, Find, AcceptSession, AcceptCreate, AcceptNoRoom, AcceptStart,
        DeclineNotify
<1>11. Quiet \/ \E p \in Player : DeclineTrack(p)
  BY <1>2, <1>5, <1>6, <1>7, <1>8, <1>10 DEF Next
<1>12. QED BY <1>1, <1>9, <1>11 DEF Quiet, Forgets

\* A step that counts no decline adds none that are not forgotten, and what the
\* tables count of them stays, or is out of date.
LEMMA QuietDeclines ==
  ASSUME Types, [Next]_vars, \A p \in Player : ~DeclineTrack(p),
         NEW c \in Player, NEW o \in Player
  PROVE  /\ Declines(c, o)' \subseteq Declines(c, o)
         /\ \/ CurrentDeclines(o, c)' = CurrentDeclines(o, c)
            \/ now' - last_decline_times[o][c] >= DeclineWindow /\ CurrentDeclines(o, c)' = 0
         /\ last_decline_times' = last_decline_times
<1>1. /\ now \in Nat /\ now' \in Nat /\ now <= now' /\ DeclineWindow \in Nat
      /\ last_decline_times' = last_decline_times
      /\ \/ decline_counts' = decline_counts
         \/ \E a, b \in Player :
              decline_counts' = [decline_counts EXCEPT ![b][a] = CurrentDeclines(b, a)]
      /\ last_decline_times[o][c] \in Nat /\ decline_counts \in [Player -> [Player -> Nat]]
  <2>1. last_decline_times[o][c] \in Nat /\ decline_counts \in [Player -> [Player -> Nat]]
    BY DEF Types, MMTypeOK
  <2>2. QED BY <2>1, LimitSteps, MatchmakingAssumption
<1>2. decline_counts'[o][c] \in {decline_counts[o][c], CurrentDeclines(o, c)}
  BY <1>1
<1>3. now' - last_decline_times[o][c] < DeclineWindow => now - last_decline_times[o][c] < DeclineWindow
  BY <1>1
<1>4. \/ CurrentDeclines(o, c)' = CurrentDeclines(o, c)
      \/ now' - last_decline_times[o][c] >= DeclineWindow /\ CurrentDeclines(o, c)' = 0
  BY <1>1, <1>2, <1>3 DEF CurrentDeclines
<1>5. ASSUME NEW i \in Declines(c, o)' PROVE i \in Declines(c, o)
  <2>1. i \in DOMAIN answers' /\ Counts(i, c, o)' /\ now' - answers'[i].at < DeclineWindow
    BY <1>5 DEF Declines
  <2>2. i \in DOMAIN answers
    <3>1. CASE answers' = answers
      BY <2>1, <3>1
    <3>2. CASE answers' # answers
      <4>1. PICK answer \in Answer :
              answers' = Append(answers, answer) /\ answer.kind = "game"
        BY <3>2, AnswerSteps
      <4>2. QED BY <2>1, <4>1, HistoryFacts, AppendFacts DEF Counts
    <3>3. QED BY <3>1, <3>2
  <2>3. answers'[i] = answers[i] /\ answers[i].id \in Made /\ answers[i].at \in Nat
    BY <2>2, HistoryFacts
  <2>4. issued'[answers[i].id] = issued[answers[i].id] /\ expired \subseteq expired'
    BY <2>3, HistoryFacts
  <2>5. Counts(i, c, o)
    BY <2>1, <2>3, <2>4 DEF Counts, PairOf
  <2>6. now - answers[i].at < DeclineWindow
    BY <1>1, <2>1, <2>3
  <2>7. QED BY <2>2, <2>5, <2>6 DEF Declines
<1>6. QED BY <1>1, <1>4, <1>5

\* The answers there are stay in time.
LEMMA OldAnswersInTime ==
  ASSUME Types, Limited, [Next]_vars
  PROVE  /\ \A i \in DOMAIN answers : answers'[i].at <= now'
         /\ \A c, o \in Player : \A i \in DOMAIN answers : Counts(i, c, o)' => Counts(i, c, o)
<1>1. now \in Nat /\ now' \in Nat /\ now <= now'
  BY LimitSteps
<1>2. \A i \in DOMAIN answers : answers'[i].at <= now'
  <2> SUFFICES ASSUME NEW i \in DOMAIN answers PROVE answers'[i].at <= now'
    OBVIOUS
  <2>1. answers'[i] = answers[i] /\ answers[i].at \in Nat /\ answers[i].at <= now
    BY HistoryFacts DEF Limited
  <2>2. QED BY <1>1, <2>1
<1>3. \A c, o \in Player : \A i \in DOMAIN answers : Counts(i, c, o)' => Counts(i, c, o)
  <2> SUFFICES ASSUME NEW c \in Player, NEW o \in Player, NEW i \in DOMAIN answers, Counts(i, c, o)'
               PROVE  Counts(i, c, o)
    OBVIOUS
  <2>1. /\ answers'[i] = answers[i] /\ issued'[answers[i].id] = issued[answers[i].id]
        /\ expired \subseteq expired'
    BY HistoryFacts
  <2>2. QED BY <2>1 DEF Counts, PairOf
<1>4. QED BY <1>2, <1>3

\* What holds of a span that ends with an old answer goes on to hold, and of one
\* that ends now it is the limit on the declines that are not forgotten.
LEMMA SpansAreLimited ==
  ASSUME Types, Types', Limited, [Next]_vars,
         \A c, o \in Player : Cardinality(Declines(c, o)') <= MaxDeclines
  PROVE  DeclinesAreLimited'
<1> DEFINE Span(j) == {i \in 1 .. j :
      /\ answers[i].kind = "decline" /\ answers[i].id \notin expired
      /\ PairOf(issued[answers[i].id]) = PairOf(issued[answers[j].id])
      /\ answers[j].at - answers[i].at < DeclineWindow}
<1>1. SUFFICES ASSUME NEW j \in DOMAIN answers'
               PROVE  Cardinality(Span(j)') <= MaxDeclines
  BY DEF DeclinesAreLimited
<1>2. /\ answers \in Seq(Answer) /\ MaxDeclines \in Nat /\ answers' \in Seq(Answer')
      /\ issued' \in Seq(Issue')
  BY MatchmakingAssumption DEF Types
<1>3. CASE j \in DOMAIN answers
  <2>1. \A i \in 1 .. j : i \in DOMAIN answers
    BY <1>2, <1>3
  <2>2. Span(j)' \subseteq Span(j)
    <3> SUFFICES ASSUME NEW i \in 1 .. j, i \in Span(j)' PROVE i \in Span(j)
      OBVIOUS
    <3>1. /\ answers'[i] = answers[i] /\ issued'[answers[i].id] = issued[answers[i].id]
          /\ answers'[j] = answers[j] /\ issued'[answers[j].id] = issued[answers[j].id]
          /\ expired \subseteq expired'
      BY <1>3, <2>1, HistoryFacts
    <3>2. QED BY <3>1 DEF PairOf
  <2>3. IsFiniteSet(Span(j)) /\ Cardinality(Span(j)) <= MaxDeclines
    <3>1. IsFiniteSet(1 .. j)
      BY <1>2, <1>3, FS_Interval
    <3>2. Span(j) \subseteq 1 .. j
      OBVIOUS
    <3>3. Cardinality(Span(j)) <= MaxDeclines
      BY <1>3 DEF Limited, DeclinesAreLimited
    <3> HIDE DEF Span
    <3>4. QED BY <3>1, <3>2, <3>3, FS_Subset
  <2> HIDE DEF Span
  <2>4. Cardinality(Span(j)') <= Cardinality(Span(j)) /\ Cardinality(Span(j)') \in Nat
        /\ Cardinality(Span(j)) \in Nat
    BY <2>2, <2>3, FS_Subset, FS_CardinalityType
  <2>5. QED BY <1>2, <2>3, <2>4
<1>4. CASE j \notin DOMAIN answers
  <2>1. PICK r \in Player, answer \in Answer :
          /\ answers' = Append(answers, answer) /\ answer.at = now /\ now' = now
    BY <1>4, AnswerSteps
  <2>2. j = Len(answers) + 1 /\ answers'[j] = answer /\ DOMAIN answers' = 1 .. j
    <3>1. j = Len(answers) + 1 /\ answers'[j] = answer
      BY <1>2, <1>4, <2>1, AppendFacts
    <3>2. Len(answers') = Len(answers) + 1 /\ DOMAIN answers' = 1 .. Len(answers')
      BY <1>2, <2>1, AppendFacts
    <3>3. QED BY <3>1, <3>2
  <2> DEFINE pair == PairOf(issued'[answer.id])
  <2>3. PICK c \in Player, o \in Player : pair = <<c, o>>
    <3>1. answer.id \in Made
      BY DEF Answer
    <3>2. issued'[answer.id].challenger \in Player /\ issued'[answer.id].opponent \in Player
      BY <3>1, HistoryFacts
    <3>3. QED BY <3>2 DEF PairOf
  <2>4. Span(j)' = Declines(c, o)'
    BY <2>1, <2>2, <2>3 DEF Declines, Counts, PairOf
  <2>5. QED BY <2>4
<1>5. QED BY <1>3, <1>4

\* A new challenge is one that its opponent may still decline.
LEMMA NewChallengeIsLimited ==
  ASSUME Types, Limited, [Next]_vars, NEW s \in Active' \ Active,
         NEW c \in Player, NEW o \in Player, PairOf(challenges'[s]) = <<c, o>>
  PROVE  /\ Cardinality(Declines(c, o)) < MaxDeclines
         /\ c \in players /\ o \in players
         /\ \A p \in Player : ~DeclineTrack(p)
<1>1. next_id' = next_id + 1 /\ PairOf(challenges'[s]) = PairOf(issued'[next_id])
  BY SlotSteps
<1>2. next_id \in Nat /\ MaxDeclines \in Nat /\ issued \in Seq(Issue) /\ Len(issued) = next_id - 1
  BY MatchmakingAssumption DEF Types, MMTypeOK
<1>3. PICK p \in Player : CreateNew(p)
  BY <1>1, <1>2, NextKeepsIds
<1> DEFINE made == [challenger |-> p, opponent |-> op[p].who, at |-> now']
<1>4. issued'[next_id] = made
  <2>1. made \in Issue
    <3>1. op[p].who \in Player /\ now' \in Nat
      BY <1>3, LimitSteps DEF Types, AtDesk, CreateNew
    <3>2. QED BY <3>1 DEF Issue
  <2>2. issued' = Append(issued, made)
    BY <1>3 DEF CreateNew
  <2> HIDE DEF made
  <2>3. Len(issued) + 1 = next_id
    BY <1>2
  <2>4. QED BY <1>2, <2>1, <2>2, <2>3, AppendFacts
<1>5. c = p /\ o = op[p].who
  BY <1>1, <1>4 DEF PairOf
<1>6. CreateResult(c, o) = "NEW"
  BY <1>3, <1>5 DEF CreateNew, CreateChallenge
<1>7. c \in players /\ o \in players /\ ~(CurrentDeclines(o, c) >= MaxDeclines)
  BY <1>6 DEF CreateResult
<1>8. CurrentDeclines(o, c) \in Nat /\ Cardinality(Declines(c, o)) \in Nat
      /\ Cardinality(Declines(c, o)) <= CurrentDeclines(o, c)
  BY DeclinesType, DeclinesFinite DEF Types, Limited
<1>9. \A q \in Player : ~DeclineTrack(q)
  <2> SUFFICES ASSUME NEW q \in Player, DeclineTrack(q) PROVE FALSE
    OBVIOUS
  <2>1. UNCHANGED bookVars
    BY DEF DeclineTrack, TrackDecline
  <2>2. QED BY <2>1 DEF bookVars, Active
<1>10. QED BY <1>2, <1>7, <1>8, <1>9

\* Who has been given an id was known to matchmaking.
LEMMA IssuedAreKnown ==
  ASSUME Types, Limited, [Next]_vars
  PROVE  \A id \in Made' : issued'[id].challenger \in players' /\ issued'[id].opponent \in players'
<1>1. /\ next_id \in Nat \ {0} /\ players \subseteq players'
      /\ issued \in Seq(Issue) /\ Len(issued) = next_id - 1
  BY LimitSteps DEF Types, MMTypeOK
<1>2. \A id \in Made : issued'[id].challenger \in players' /\ issued'[id].opponent \in players'
  BY <1>1, HistoryFacts DEF Limited
<1>3. CASE next_id' = next_id
  BY <1>2, <1>3 DEF Made
<1>4. CASE next_id' = next_id + 1 /\ \E p \in Player : CreateNew(p)
  <2>1. PICK p \in Player : CreateNew(p)
    BY <1>4
  <2> DEFINE made == [challenger |-> p, opponent |-> op[p].who, at |-> now']
  <2>2. issued'[next_id] = made
    <3>1. made \in Issue
      <4>1. op[p].who \in Player /\ now' \in Nat
        BY <2>1, LimitSteps DEF Types, AtDesk, CreateNew
      <4>2. QED BY <4>1 DEF Issue
    <3>2. issued' = Append(issued, made)
      BY <2>1 DEF CreateNew
    <3> HIDE DEF made
    <3>3. Len(issued) + 1 = next_id
      BY <1>1
    <3>4. QED BY <1>1, <3>1, <3>2, <3>3, AppendFacts
  <2>3. {p, op[p].who} \subseteq players
    BY <2>1 DEF CreateNew, CreateChallenge, CreateResult
  <2>4. Made' = Made \union {next_id}
    BY <1>1, <1>4 DEF Made
  <2>5. QED BY <1>1, <1>2, <2>2, <2>3, <2>4
<1>5. QED BY <1>3, <1>4, NextKeepsIds

\* Fewer declines, and no more than there may be.
LEMMA FewerDeclines ==
  ASSUME Types, NEW c, NEW o, NEW D, D \subseteq Declines(c, o)
  PROVE  /\ Cardinality(D) \in Nat /\ Cardinality(Declines(c, o)) \in Nat
         /\ Cardinality(D) <= Cardinality(Declines(c, o))
  BY DeclinesFinite, FS_Subset, FS_CardinalityType

\* The limit holds after a step that counts no decline.
LEMMA QuietStepsAreLimited ==
  ASSUME Types, Types', Addressed, Limited, [Next]_vars, \A p \in Player : ~DeclineTrack(p)
  PROVE  Limited'
<1>1. /\ now \in Nat /\ now' \in Nat /\ now <= now' /\ DeclineWindow \in Nat /\ MaxDeclines \in Nat
      /\ answers \in Seq(Answer)
  BY LimitSteps, HistoryFacts, MatchmakingAssumption
<1>2. \A i \in DOMAIN answers' : answers'[i].at <= now'
  <2>1. CASE answers' = answers
    BY <2>1, OldAnswersInTime
  <2>2. CASE answers' # answers
    <3>1. PICK answer \in Answer : /\ answers' = Append(answers, answer)
                                   /\ answer.at = now /\ now' = now
      BY <2>2, AnswerSteps
    <3>2. /\ DOMAIN answers' = DOMAIN answers \union {Len(answers) + 1}
          /\ answers'[Len(answers) + 1] = answer
      BY <1>1, <3>1, AppendFacts
    <3>3. QED BY <1>1, <3>1, <3>2, OldAnswersInTime
  <2>3. QED BY <2>1, <2>2
<1>3. ASSUME NEW c \in Player, NEW o \in Player, NEW i \in DOMAIN answers', Counts(i, c, o)'
      PROVE  answers'[i].at <= last_decline_times'[o][c]
  <2>1. i \in DOMAIN answers
    <3>1. CASE answers' # answers
      <4>1. PICK answer \in Answer :
              answers' = Append(answers, answer) /\ answer.kind = "game"
        BY <3>1, AnswerSteps
      <4>2. QED BY <1>1, <1>3, <4>1, AppendFacts DEF Counts
    <3>2. QED BY <3>1
  <2>2. Counts(i, c, o) /\ answers'[i] = answers[i]
    BY <1>3, <2>1, OldAnswersInTime, HistoryFacts
  <2>3. last_decline_times' = last_decline_times
    BY QuietDeclines
  <2>4. QED BY <2>1, <2>2, <2>3 DEF Limited
<1>4. ASSUME NEW c \in Player, NEW o \in Player
      PROVE  /\ Cardinality(Declines(c, o)') <= CurrentDeclines(o, c)'
             /\ Cardinality(Declines(c, o)') <= MaxDeclines
  <2>1. /\ Declines(c, o)' \subseteq Declines(c, o)
        /\ \/ CurrentDeclines(o, c)' = CurrentDeclines(o, c)
           \/ now' - last_decline_times[o][c] >= DeclineWindow /\ CurrentDeclines(o, c)' = 0
        /\ last_decline_times' = last_decline_times
    BY QuietDeclines
  <2>2. /\ Cardinality(Declines(c, o)') \in Nat /\ Cardinality(Declines(c, o)) \in Nat
        /\ Cardinality(Declines(c, o)') <= Cardinality(Declines(c, o))
    BY <2>1, FewerDeclines
  <2>3. /\ Cardinality(Declines(c, o)) <= CurrentDeclines(o, c)
        /\ Cardinality(Declines(c, o)) <= MaxDeclines
        /\ CurrentDeclines(o, c) \in Nat
    BY DeclinesType DEF Limited, Types
  <2>4. CASE CurrentDeclines(o, c)' = CurrentDeclines(o, c)
    BY <1>1, <2>2, <2>3, <2>4
  <2>5. CASE now' - last_decline_times[o][c] >= DeclineWindow /\ CurrentDeclines(o, c)' = 0
    <3>1. last_decline_times[o][c] \in Nat
      BY DEF Types, MMTypeOK
    <3>2. ASSUME NEW i \in Declines(c, o)' PROVE FALSE
      <4>1. /\ i \in DOMAIN answers' /\ Counts(i, c, o)' /\ now' - answers'[i].at < DeclineWindow
        BY <3>2 DEF Declines
      <4>2. i \in DOMAIN answers /\ answers'[i] = answers[i] /\ answers[i].at \in Nat
        BY <2>1, <3>2, HistoryFacts DEF Declines
      <4>3. answers'[i].at <= last_decline_times[o][c]
        BY <1>3, <2>1, <4>1
      <4>4. QED BY <1>1, <2>5, <3>1, <4>1, <4>2, <4>3
    <3>3. Declines(c, o)' = {}
      BY <3>2
    <3>4. Cardinality(Declines(c, o)') = 0
      BY <3>3, FS_EmptySet
    <3>5. QED BY <1>1, <2>5, <3>4
  <2>6. QED BY <2>1, <2>4, <2>5
<1>5. ASSUME NEW c \in Player, NEW o \in Player, NEW s \in Active',
             PairOf(challenges'[s]) = <<c, o>>, Unanswered(s)'
      PROVE  Cardinality(Declines(c, o)') < MaxDeclines
  <2>1. Declines(c, o)' \subseteq Declines(c, o)
    BY QuietDeclines
  <2>2. /\ Cardinality(Declines(c, o)') \in Nat /\ Cardinality(Declines(c, o)) \in Nat
        /\ Cardinality(Declines(c, o)') <= Cardinality(Declines(c, o))
    BY <2>1, FewerDeclines
  <2>3. Cardinality(Declines(c, o)) < MaxDeclines
    <3>1. CASE s \in Active
      <4>1. challenges'[s].id = challenges[s].id /\ PairOf(challenges'[s]) = PairOf(challenges[s])
        BY <3>1, SlotSteps DEF PairOf
      <4>2. Unanswered(s)
        BY <1>5, <4>1, HistoryFacts DEF Unanswered
      <4>3. QED BY <1>5, <3>1, <4>1, <4>2 DEF Limited
    <3>2. CASE s \notin Active
      BY <1>5, <3>2, NewChallengeIsLimited
    <3>3. QED BY <3>1, <3>2
  <2>4. QED BY <1>1, <2>2, <2>3
<1>6. DeclinesAreLimited'
  BY <1>4, SpansAreLimited
<1>7. QED BY <1>2, <1>3, <1>4, <1>5, <1>6, IssuedAreKnown DEF Limited

\* The limit holds after a decline: it is one of a challenge that was open and not
\* answered, or that expired and does not count.
LEMMA DeclineIsLimited ==
  ASSUME Types, Types', OneSlotPerChallenge, Addressed, Found, Fresh, Limited, [Next]_vars,
         NEW r \in Player, DeclineTrack(r)
  PROVE  Limited'
<1>0. PICK n \in Nat : n = Len(answers) + 1
  BY HistoryFacts
<1> DEFINE id == op[r].id
           them == Pointed(r).challenger
           me   == Pointed(r).opponent
           answer == [kind |-> "decline", id |-> id, at |-> now, a |-> them, b |-> me]
<1>1. /\ now \in Nat /\ DeclineWindow \in Nat /\ MaxDeclines \in Nat
      /\ answers \in Seq(Answer)
      /\ decline_counts \in [Player -> [Player -> Nat]]
      /\ last_decline_times \in [Player -> [Player -> Nat]] /\ players \subseteq Player
  <2>1. /\ decline_counts \in [Player -> [Player -> Nat]]
        /\ last_decline_times \in [Player -> [Player -> Nat]] /\ players \subseteq Player
    BY DEF Types, MMTypeOK
  <2>2. QED BY <2>1, LimitSteps, HistoryFacts, MatchmakingAssumption
<1>2. op[r].at = "decline_track" /\ op[r].slot \in Slot /\ id \in Made
  BY DEF DeclineTrack, Types, AtDesk, Answering, Step
<1>3. /\ TrackDecline(them, me) /\ now' = now /\ UNCHANGED bookVars
      /\ answers' = Append(answers, answer) /\ expired' = expired
  BY DEF DeclineTrack, TrackDecline
<1>4. answer \in Answer
  <2>1. \A s \in Slot : challenges[s].challenger \in Anyone /\ challenges[s].opponent \in Anyone
    BY DEF Types, MMTypeOK, Challenge, Anyone
  <2>2. QED BY <1>1, <1>2, <2>1 DEF Pointed, Answer
<1>5. answer.kind = "decline" /\ answer.id = id /\ answer.at = now
  OBVIOUS
<1> HIDE DEF answer
<1>6. /\ DOMAIN answers' = DOMAIN answers \union {n} /\ answers'[n] = answer
      /\ n \notin DOMAIN answers
      /\ \A i \in DOMAIN answers : answers'[i] = answers[i] /\ answers[i].at \in Nat
  BY <1>0, <1>1, <1>3, <1>4, AppendFacts, HistoryFacts
<1> DEFINE Mine(c, o) == id \notin expired /\ PairOf(issued[id]) = <<c, o>>
\* What the handler counts is its own challenge, unless that expired.
<1>7. ASSUME id \notin expired
      PROVE  /\ op[r].slot \in Active /\ challenges[op[r].slot].id = id
             /\ PairOf(issued[id]) = <<them, me>> /\ PairOf(challenges[op[r].slot]) = <<them, me>>
             /\ {them, me} \subseteq players
             /\ Unanswered(op[r].slot)
  <2>1. op[r].slot \in Active /\ challenges[op[r].slot].id = id
    BY <1>2, <1>7 DEF Found, Finding
  <2>2. PairOf(issued[id]) = <<them, me>> /\ PairOf(challenges[op[r].slot]) = <<them, me>>
    BY <2>1 DEF Addressed, Pointed, PairOf
  <2>3. {them, me} \subseteq players
    BY <1>2, <2>2 DEF Limited, PairOf
  <2>4. Unanswered(op[r].slot)
    BY <1>2, <2>1 DEF Fresh, Finding, Unanswered
  <2>5. QED BY <2>1, <2>2, <2>3, <2>4
<1>8. ASSUME NEW c \in Player, NEW o \in Player
      PROVE  /\ Declines(c, o)' \subseteq Declines(c, o) \union {n}
             /\ ~Mine(c, o) => Declines(c, o)' \subseteq Declines(c, o)
             /\ Counts(n, c, o)' => Mine(c, o)
  <2>1. Counts(n, c, o)' => Mine(c, o)
    <3>1. issued'[id] = issued[id]
      BY <1>2, HistoryFacts
    <3>2. QED BY <1>3, <1>5, <1>6, <3>1 DEF Counts, PairOf
  <2>2. ASSUME NEW i \in Declines(c, o)', i # n PROVE i \in Declines(c, o)
    <3>1. i \in DOMAIN answers /\ Counts(i, c, o)'
      BY <1>6, <2>2 DEF Declines
    <3>2. Counts(i, c, o)
      BY <3>1, OldAnswersInTime
    <3>3. QED BY <1>3, <1>6, <2>2, <3>1, <3>2 DEF Declines
  <2>3. n \in Declines(c, o)' => Mine(c, o)
    BY <2>1 DEF Declines
  <2>4. QED BY <2>1, <2>2, <2>3
\* What the tables say after it.
<1>9. ASSUME NEW c \in Player, NEW o \in Player
      PROVE  /\ last_decline_times'[o][c] \in {last_decline_times[o][c], now}
             /\ Mine(c, o) => last_decline_times'[o][c] = now
             /\ \/ CurrentDeclines(o, c)' = CurrentDeclines(o, c) /\ ~Mine(c, o)
                \/ CurrentDeclines(o, c)' = CurrentDeclines(o, c) + 1
                \/ DeclineWindow = 0
  <2>1. CASE {them, me} \subseteq players /\ c = them /\ o = me
    <3>1. /\ decline_counts' = [decline_counts EXCEPT ![o][c] = CurrentDeclines(o, c) + 1]
          /\ last_decline_times' = [last_decline_times EXCEPT ![o][c] = now]
      BY <1>3, <2>1 DEF TrackDecline
    <3>2. decline_counts'[o][c] = CurrentDeclines(o, c) + 1 /\ last_decline_times'[o][c] = now
      BY <1>1, <3>1
    <3>3. DeclineWindow # 0 => ~(now - now >= DeclineWindow)
      BY <1>1
    <3>4. QED BY <1>3, <3>2, <3>3 DEF CurrentDeclines
  <2>2. CASE ~({them, me} \subseteq players /\ c = them /\ o = me)
    <3>1. ~Mine(c, o)
      BY <1>7, <2>2
    <3>2. /\ decline_counts'[o][c] = decline_counts[o][c]
          /\ last_decline_times'[o][c] = last_decline_times[o][c]
      <4>1. CASE {them, me} \subseteq players
        <5>1. /\ decline_counts' = [decline_counts EXCEPT ![me][them] = CurrentDeclines(me, them) + 1]
              /\ last_decline_times' = [last_decline_times EXCEPT ![me][them] = now]
          BY <1>3, <4>1 DEF TrackDecline
        <5>2. QED BY <1>1, <2>2, <4>1, <5>1
      <4>2. CASE ~({them, me} \subseteq players)
        BY <1>3, <4>2 DEF TrackDecline
      <4>3. QED BY <4>1, <4>2
    <3>3. CurrentDeclines(o, c)' = CurrentDeclines(o, c)
      BY <1>3, <3>2 DEF CurrentDeclines
    <3>4. QED BY <3>1, <3>2, <3>3
  <2>3. QED BY <2>1, <2>2
<1> HIDE DEF Mine
<1>10. \A i \in DOMAIN answers' : answers'[i].at <= now'
  BY <1>1, <1>3, <1>5, <1>6, OldAnswersInTime
<1>11. ASSUME NEW c \in Player, NEW o \in Player, NEW i \in DOMAIN answers', Counts(i, c, o)'
       PROVE  answers'[i].at <= last_decline_times'[o][c]
  <2>1. CASE i = n
    <3>1. Mine(c, o) /\ answers'[i].at = now
      BY <1>5, <1>6, <1>8, <1>11, <2>1
    <3>2. last_decline_times'[o][c] = now
      BY <1>9, <3>1
    <3>3. QED BY <1>1, <3>1, <3>2
  <2>2. CASE i # n
    <3>1. i \in DOMAIN answers /\ answers'[i] = answers[i] /\ answers[i].at \in Nat
      BY <1>6, <2>2
    <3>2. answers[i].at <= last_decline_times[o][c] /\ answers[i].at <= now
      BY <1>11, <3>1, OldAnswersInTime DEF Limited
    <3>3. QED BY <1>9, <3>1, <3>2
  <2>3. QED BY <2>1, <2>2
<1>12. ASSUME NEW c \in Player, NEW o \in Player, Mine(c, o)
       PROVE  /\ Cardinality(Declines(c, o)) < MaxDeclines
              /\ Cardinality(Declines(c, o)') <= Cardinality(Declines(c, o)) + 1
              /\ Cardinality(Declines(c, o)') \in Nat /\ Cardinality(Declines(c, o)) \in Nat
  <2>1. Cardinality(Declines(c, o)) < MaxDeclines
    BY <1>7, <1>12 DEF Limited, Mine
  <2>2. IsFiniteSet(Declines(c, o)) /\ Cardinality(Declines(c, o)) \in Nat
    BY DeclinesFinite
  <2>3. n \notin Declines(c, o)
    BY <1>6 DEF Declines
  <2>4. IsFiniteSet(Declines(c, o) \union {n})
        /\ Cardinality(Declines(c, o) \union {n}) = Cardinality(Declines(c, o)) + 1
    BY <2>2, <2>3, FS_AddElement
  <2>5. Declines(c, o)' \subseteq Declines(c, o) \union {n}
    BY <1>8
  <2>6. /\ Cardinality(Declines(c, o)') <= Cardinality(Declines(c, o) \union {n})
        /\ Cardinality(Declines(c, o)') \in Nat
    BY <2>4, <2>5, FS_Subset, FS_CardinalityType
  <2>7. QED BY <2>1, <2>2, <2>4, <2>6
<1>13. ASSUME NEW c \in Player, NEW o \in Player
       PROVE  /\ Cardinality(Declines(c, o)') <= CurrentDeclines(o, c)'
              /\ Cardinality(Declines(c, o)') <= MaxDeclines
  <2>1. /\ Cardinality(Declines(c, o)) <= CurrentDeclines(o, c)
        /\ Cardinality(Declines(c, o)) <= MaxDeclines
        /\ CurrentDeclines(o, c) \in Nat /\ CurrentDeclines(o, c)' \in Nat
    BY DeclinesType DEF Limited, Types, MMTypeOK, CurrentDeclines
  <2>2. CASE DeclineWindow = 0
    <3>1. ASSUME NEW i \in Declines(c, o)' PROVE FALSE
      <4>1. i \in DOMAIN answers' /\ now' - answers'[i].at < 0
        BY <2>2, <3>1 DEF Declines
      <4>2. answers'[i].at <= now' /\ answers'[i].at \in Nat /\ now' \in Nat
        BY <1>1, <1>3, <1>5, <1>6, <1>10, <4>1
      <4>3. QED BY <4>1, <4>2
    <3>2. Declines(c, o)' = {}
      BY <3>1
    <3>3. Cardinality(Declines(c, o)') = 0
      BY <3>2, FS_EmptySet
    <3>4. QED BY <1>1, <2>1, <3>3
  <2>3. CASE Mine(c, o) /\ CurrentDeclines(o, c)' = CurrentDeclines(o, c) + 1
    <3>1. /\ Cardinality(Declines(c, o)) < MaxDeclines
          /\ Cardinality(Declines(c, o)') <= Cardinality(Declines(c, o)) + 1
          /\ Cardinality(Declines(c, o)') \in Nat /\ Cardinality(Declines(c, o)) \in Nat
      BY <1>12, <2>3
    <3>2. Cardinality(Declines(c, o)') <= MaxDeclines
      BY <1>1, <3>1
    <3>3. Cardinality(Declines(c, o)) + 1 <= CurrentDeclines(o, c)'
      BY <2>1, <2>3, <3>1
    <3>4. Cardinality(Declines(c, o)') <= CurrentDeclines(o, c)'
      BY <2>1, <3>1, <3>3
    <3>5. QED BY <3>2, <3>4
  <2>4. CASE ~Mine(c, o) /\ CurrentDeclines(o, c)' \in {CurrentDeclines(o, c), CurrentDeclines(o, c) + 1}
    <3>1. Declines(c, o)' \subseteq Declines(c, o)
      BY <1>8, <2>4
    <3>2. /\ Cardinality(Declines(c, o)') \in Nat /\ Cardinality(Declines(c, o)) \in Nat
          /\ Cardinality(Declines(c, o)') <= Cardinality(Declines(c, o))
      BY <3>1, FewerDeclines
    <3>3. Cardinality(Declines(c, o)') <= MaxDeclines
      BY <1>1, <2>1, <3>2
    <3>4. CurrentDeclines(o, c) <= CurrentDeclines(o, c)'
      BY <2>1, <2>4
    <3>5. Cardinality(Declines(c, o)') <= CurrentDeclines(o, c)'
      BY <2>1, <3>2, <3>4
    <3>6. QED BY <3>3, <3>5
  <2>5. QED BY <1>9, <2>2, <2>3, <2>4
<1>14. ASSUME NEW c \in Player, NEW o \in Player, NEW s \in Active',
              PairOf(challenges'[s]) = <<c, o>>, Unanswered(s)'
       PROVE  Cardinality(Declines(c, o)') < MaxDeclines
  <2>1. s \in Active /\ challenges'[s] = challenges[s]
    BY <1>3, <1>14 DEF bookVars, Active
  <2>2. Unanswered(s) /\ challenges[s].id # id
    BY <1>5, <1>6, <1>14, <2>1 DEF Unanswered
  <2>3. ~Mine(c, o)
    <3> SUFFICES ASSUME Mine(c, o) PROVE FALSE
      OBVIOUS
    <3>1. /\ op[r].slot \in Active /\ challenges[op[r].slot].id = id
          /\ PairOf(challenges[op[r].slot]) = PairOf(challenges[s])
      BY <1>7, <1>14, <2>1 DEF Mine
    <3>2. op[r].slot = s
      BY <2>1, <3>1 DEF OneSlotPerChallenge, PairOf
    <3>3. QED BY <2>2, <3>1, <3>2
  <2>4. Cardinality(Declines(c, o)) < MaxDeclines
    BY <1>14, <2>1, <2>2 DEF Limited
  <2>5. Declines(c, o)' \subseteq Declines(c, o)
    BY <1>8, <2>3
  <2>6. /\ Cardinality(Declines(c, o)') \in Nat /\ Cardinality(Declines(c, o)) \in Nat
        /\ Cardinality(Declines(c, o)') <= Cardinality(Declines(c, o))
    BY <2>5, FewerDeclines
  <2>7. QED BY <1>1, <2>4, <2>6
<1>15. DeclinesAreLimited'
  BY <1>13, SpansAreLimited
<1>16. QED BY <1>10, <1>11, <1>13, <1>14, <1>15, IssuedAreKnown DEF Limited

\* The invariant DeclinesAreLimited of Challenges.tla: the table of declines counts
\* as many as there were of a pair in the window, and it is looked at when a
\* challenge is made, so that the one challenge the pair may have open is at most
\* the last that has to be declined.
THEOREM DeclinesStayLimited == Spec => []DeclinesAreLimited
<1>1. Init => Limited
  <2> SUFFICES ASSUME Init PROVE Limited
    OBVIOUS
  <2>1. /\ answers = <<>> /\ next_id = 1 /\ Active = {} /\ now = StartTime
        /\ decline_counts = [o \in Player |-> [c \in Player |-> 0]]
        /\ MaxDeclines \in Nat /\ DeclineWindow \in Nat
    BY MatchmakingAssumption DEF Init, MMInit, Active
  <2>2. \A c, o \in Player : Cardinality(Declines(c, o)) = 0
    <3>1. \A c, o \in Player : Declines(c, o) = {}
      BY <2>1 DEF Declines
    <3>2. QED BY <3>1, FS_EmptySet
  <2>3. \A c, o \in Player : CurrentDeclines(o, c) = 0
    BY <2>1 DEF CurrentDeclines
  <2>4. Made = {}
    BY <2>1 DEF Made
  <2>5. QED BY <2>1, <2>2, <2>3, <2>4 DEF Limited, DeclinesAreLimited
<1>2. Types /\ Types' /\ Answered /\ Limited /\ [Next]_vars => Limited'
  BY QuietStepsAreLimited, DeclineIsLimited DEF Answered
<1>3. Limited => DeclinesAreLimited
  BY DEF Limited
<1>4. QED BY <1>1, <1>2, <1>3, TypesAlways, AnsweredAlways, PTL DEF Spec
=============================================================================
