----------------------------- MODULE Matchmaking -----------------------------
(***************************************************************************)
(* The matchmaking component, src/src/server/matchmaking.c: the table of   *)
(* players, the table of challenges and the limits on challenging.  Every  *)
(* function holds mm->lock from its first read to its last write, so each  *)
(* is one action.  Challenges.tla has the message handlers that call them. *)
(*                                                                         *)
(* players       the pseudos of players[0 .. player_count - 1]: never      *)
(*               removed, so their index is left out                       *)
(* connected     those with the connected flag                             *)
(* challenges    the slots, which keep what they hold when freed           *)
(* last_challenge_times, decline_counts, last_decline_times                *)
(*               as in the code, by player instead of by index             *)
(* now           time(NULL)                                                *)
(***************************************************************************)
EXTENDS Integers, FiniteSets

CONSTANTS
  Player,             \* pseudos
  NoPlayer,           \* what a slot never used has for a pseudo
  Known,              \* the players storage_load_players finds at the start
  MaxPlayers,         \* MAX_PLAYERS, 100 in the program
  MaxChallenges,      \* MAX_CHALLENGES, 100
  RateLimit,          \* seconds between two challenges of a pair, 10
  DeclineWindow,      \* seconds after which declines are forgotten, 300
  MaxDeclines,        \* declines that block a pair, 3
  ChallengeTimeout,   \* CHALLENGE_TIMEOUT_SECONDS, 60
  StartTime,          \* time(NULL) when the server starts
  Pair,               \* bound of the model: who may challenge whom
  MaxNow, MaxId       \* bounds of the model: last second, ids given out

ASSUME MatchmakingAssumption ==
  /\ NoPlayer \notin Player
  /\ MaxPlayers \in Nat
  /\ Known \subseteq Player
  /\ MaxChallenges \in Nat
  /\ RateLimit \in Nat /\ DeclineWindow \in Nat /\ MaxDeclines \in Nat
  /\ ChallengeTimeout \in Nat
  /\ StartTime \in Nat /\ StartTime >= RateLimit /\ StartTime >= DeclineWindow
  /\ Pair \subseteq Player \X Player
  /\ MaxNow \in Nat /\ MaxNow >= StartTime /\ MaxId \in Nat

VARIABLES players, connected, challenges, challenge_count, next_id,
          last_challenge_times, decline_counts, last_decline_times, now

playerVars == <<players, connected>>
bookVars   == <<challenges, challenge_count, next_id>>
limitVars  == <<last_challenge_times, decline_counts, last_decline_times>>
mmVars     == <<playerVars, bookVars, limitVars, now>>

Slot   == 1 .. MaxChallenges
Active == {s \in Slot : challenges[s].active}

MMInit ==
  /\ players = Known /\ connected = {}
  /\ challenges = [s \in Slot |-> [active |-> FALSE, id |-> 0, challenger |-> NoPlayer,
                                   opponent |-> NoPlayer, created_at |-> 0]]
  /\ challenge_count = 0
  /\ next_id = 1
  /\ last_challenge_times = [c \in Player |-> [o \in Player |-> 0]]
  /\ decline_counts       = [o \in Player |-> [c \in Player |-> 0]]
  /\ last_decline_times   = [o \in Player |-> [c \in Player |-> 0]]
  /\ now = StartTime

-----------------------------------------------------------------------------
(* Players.                                                                 *)

AddPlayer(p) ==
  /\ p \in players \/ Cardinality(players) < MaxPlayers   \* else ERR_MAX_CAPACITY
  /\ players' = players \union {p}
  /\ connected' = connected \union {p}
  /\ UNCHANGED <<bookVars, limitVars, now>>

RemovePlayer(p) ==
  /\ connected' = connected \ {p}
  /\ UNCHANGED <<players, bookVars, limitVars, now>>

-----------------------------------------------------------------------------
(* Challenges.                                                              *)

SlotsOf(challenger, opponent) ==
  {s \in Active : challenges[s].challenger = challenger /\ challenges[s].opponent = opponent}

\* Mutant: the id is not compared.
SlotsWithAnyId(id) == Active

SlotsWithId(id) == {s \in Active : challenges[s].id = id}

\* Mutant: a slot is taken without a look at its active flag.
FirstSlot == {s \in Slot : \A t \in Slot : s <= t}

FirstFree == {s \in Slot \ Active : \A t \in Slot \ Active : s <= t}

\* The declines that still count against a challenger, old ones forgotten.
CurrentDeclines(opponent, challenger) ==
  IF now - last_decline_times[opponent][challenger] >= DeclineWindow THEN 0
  ELSE decline_counts[opponent][challenger]

\* Mutant: no search for a challenge of the same pair.
CreateAnyway(challenger, opponent) ==
  IF ~({challenger, opponent} \subseteq players)           THEN "ERR_PLAYER_NOT_FOUND"
  ELSE IF now - last_challenge_times[challenger][opponent] < RateLimit
                                                           THEN "ERR_RATE_LIMITED"
  ELSE IF CurrentDeclines(opponent, challenger) >= MaxDeclines
                                                           THEN "ERR_TOO_MANY_DECLINES"
  ELSE IF challenge_count >= MaxChallenges                 THEN "ERR_MAX_CAPACITY"
  ELSE "NEW"

\* The first check that fails names the error of create_challenge_with_id.
CreateResult(challenger, opponent) ==
  IF ~({challenger, opponent} \subseteq players)           THEN "ERR_PLAYER_NOT_FOUND"
  ELSE IF now - last_challenge_times[challenger][opponent] < RateLimit
                                                           THEN "ERR_RATE_LIMITED"
  ELSE IF CurrentDeclines(opponent, challenger) >= MaxDeclines
                                                           THEN "ERR_TOO_MANY_DECLINES"
  ELSE IF SlotsOf(challenger, opponent) # {}               THEN "EXISTS"
  ELSE IF challenge_count >= MaxChallenges                 THEN "ERR_MAX_CAPACITY"
  ELSE "NEW"

\* A call of create_challenge_with_id that gets to the decline check stores
\* that old declines are forgotten, whatever comes of it.
ForgetDeclines(challenger, opponent) ==
  decline_counts' =
    IF CreateResult(challenger, opponent) \in {"ERR_PLAYER_NOT_FOUND", "ERR_RATE_LIMITED"}
    THEN decline_counts
    ELSE [decline_counts EXCEPT ![opponent][challenger] = CurrentDeclines(opponent, challenger)]

\* Mutant: the limit is counted for the opposite pair.
CreateSwapped(challenger, opponent) ==
  /\ CreateResult(challenger, opponent) = "NEW"
  /\ next_id <= MaxId
  /\ \E s \in FirstFree :
       challenges' = [challenges EXCEPT ![s] =
         [active |-> TRUE, id |-> next_id, challenger |-> challenger,
          opponent |-> opponent, created_at |-> now]]
  /\ challenge_count' = challenge_count + 1
  /\ next_id' = next_id + 1
  /\ last_challenge_times' = [last_challenge_times EXCEPT ![opponent][challenger] = now]
  /\ ForgetDeclines(challenger, opponent)
  /\ UNCHANGED <<playerVars, last_decline_times, now>>

\* The call that takes a slot (is_new is true).  It asks for the time twice: a
\* second may begin in between.
CreateChallenge(challenger, opponent) ==
  /\ CreateResult(challenger, opponent) = "NEW"
  /\ next_id <= MaxId
  /\ now' \in {now, now + 1} /\ now' <= MaxNow
  /\ \E s \in FirstFree :
       challenges' = [challenges EXCEPT ![s] =
         [active |-> TRUE, id |-> next_id, challenger |-> challenger,
          opponent |-> opponent, created_at |-> now']]
  /\ challenge_count' = challenge_count + 1
  /\ next_id' = next_id + 1
  /\ last_challenge_times' = [last_challenge_times EXCEPT ![challenger][opponent] = now]
  /\ ForgetDeclines(challenger, opponent)
  /\ UNCHANGED <<playerVars, last_decline_times>>

\* The call that finds the challenge there, or fails.
NoNewChallenge(challenger, opponent) ==
  /\ CreateResult(challenger, opponent) # "NEW"
  /\ ForgetDeclines(challenger, opponent)
  /\ UNCHANGED <<playerVars, bookVars, last_challenge_times, last_decline_times, now>>

\* Mutant: one is subtracted however many slots are freed.
FreeCountsOne(slots) ==
  /\ challenges' = [s \in Slot |->
       IF s \in slots THEN [challenges[s] EXCEPT !.active = FALSE] ELSE challenges[s]]
  /\ challenge_count' = challenge_count - 1

Free(slots) ==
  /\ challenges' = [s \in Slot |->
       IF s \in slots THEN [challenges[s] EXCEPT !.active = FALSE] ELSE challenges[s]]
  /\ challenge_count' = challenge_count - Cardinality(slots)

\* The first of some slots, as an empty or a one-element set.
First(slots) == {s \in slots : \A t \in slots : s <= t}

RemoveChallengeById(id) ==
  /\ Free(First(SlotsWithId(id)))
  /\ UNCHANGED <<playerVars, next_id, limitVars, now>>

RemoveChallenge(challenger, opponent) ==
  /\ Free(First(SlotsOf(challenger, opponent)))
  /\ UNCHANGED <<playerVars, next_id, limitVars, now>>

Expired == {s \in Active : now - challenges[s].created_at > ChallengeTimeout}

CleanupExpired ==
  /\ Free(Expired)
  /\ UNCHANGED <<playerVars, next_id, limitVars, now>>

\* Mutant: a decline is dated and not counted.
DateDecline(challenger, opponent) ==
  /\ last_decline_times' = [last_decline_times EXCEPT ![opponent][challenger] = now]
  /\ UNCHANGED <<playerVars, bookVars, last_challenge_times, decline_counts, now>>

\* The locked part of handle_challenge_decline, which works on the tables itself.
TrackDecline(challenger, opponent) ==
  /\ decline_counts' = IF {challenger, opponent} \subseteq players
       THEN [decline_counts EXCEPT ![opponent][challenger] =
               CurrentDeclines(opponent, challenger) + 1]
       ELSE decline_counts
  /\ last_decline_times' = IF {challenger, opponent} \subseteq players
       THEN [last_decline_times EXCEPT ![opponent][challenger] = now]
       ELSE last_decline_times
  /\ UNCHANGED <<playerVars, bookVars, last_challenge_times, now>>

Tick ==
  /\ now < MaxNow
  /\ now' = now + 1
  /\ UNCHANGED <<playerVars, bookVars, limitVars>>

-----------------------------------------------------------------------------
(* The component on its own: its functions are called in any order that    *)
(* the handlers could call them in, and more.  Declines of one pair within *)
(* the window stop at the first that no challenge could have led to.       *)

MMNext ==
  \/ \E p \in Player : AddPlayer(p) \/ RemovePlayer(p)
  \/ \E id \in 1 .. next_id - 1 : RemoveChallengeById(id)
  \/ \E c, o \in Player :
       /\ <<c, o>> \in Pair
       /\ \/ c \in connected /\ CreateChallenge(c, o)
          \/ c \in connected /\ NoNewChallenge(c, o)
          \/ RemoveChallenge(c, o)
          \/ /\ SlotsOf(c, o) # {}
             /\ CurrentDeclines(o, c) <= MaxDeclines
             /\ TrackDecline(c, o)
  \/ CleanupExpired
  \/ Tick

MMSpec == MMInit /\ [][MMNext]_mmVars

-----------------------------------------------------------------------------
(* Properties.                                                              *)

Challenge == [active : BOOLEAN, id : Nat, challenger : Player \union {NoPlayer},
              opponent : Player \union {NoPlayer}, created_at : Nat]

\* The type invariant.
MMTypeOK ==
  /\ players \subseteq Player /\ connected \subseteq players
  /\ challenges \in [Slot -> Challenge]
  /\ challenge_count \in Int /\ next_id \in Nat \ {0} /\ now \in Nat
  /\ last_challenge_times \in [Player -> [Player -> Nat]]
  /\ decline_counts \in [Player -> [Player -> Nat]]
  /\ last_decline_times \in [Player -> [Player -> Nat]]

\* challenge_count, which every function that takes or frees a slot keeps by
\* hand, is the number of slots in use: ERR_MAX_CAPACITY is returned when the
\* table is full and only then, and whoever passes that check finds a slot.
CountMatchesSlots == challenge_count = Cardinality(Active)

\* The open challenges are told apart by their ids, which are old ones, and by
\* their pair of players, so that finding one by either finds the right one.
OneSlotPerChallenge ==
  \A s, t \in Active :
    /\ challenges[s].id \in 1 .. next_id - 1
    /\ s # t => /\ challenges[s].id # challenges[t].id
                /\ <<challenges[s].challenger, challenges[s].opponent>>
                     # <<challenges[t].challenger, challenges[t].opponent>>

\* An open challenge is the last its pair made, so that the rate limit counts
\* from its creation, or from the second before: nobody waits longer, and nobody
\* gets around it.
LimitCountsFromChallenge ==
  \A s \in Active :
    LET since == last_challenge_times[challenges[s].challenger][challenges[s].opponent]
    IN  challenges[s].created_at \in {since, since + 1}

\* What the component promises, whatever slots it keeps challenges in.
Open == {[id |-> challenges[s].id, challenger |-> challenges[s].challenger,
          opponent |-> challenges[s].opponent] : s \in Active}
Book == INSTANCE ChallengeBook WITH open <- Open, Capacity <- MaxChallenges
RefinesBook == Book!Spec
=============================================================================
