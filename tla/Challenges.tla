----------------------------- MODULE Challenges ------------------------------
(***************************************************************************)
(* The life of a challenge: the handlers of src/src/server/                *)
(* server_handlers.c that make and answer challenges, each run by the      *)
(* thread of its client, over the tables of Matchmaking.tla, with the      *)
(* accept loop of main.c that expires them.                                *)
(*                                                                         *)
(* A handler takes a lock, lets it go, and keeps a pointer to the slot it  *)
(* found: its steps are the actions, and op[p] is where the thread of p is *)
(* between them, with the id asked for, the slot and the session pointers  *)
(* it holds.  Answers that are only errors to the caller change nothing    *)
(* and are left out.  A message to a session that has ended is lost.       *)
(*                                                                         *)
(* online        the players whose session is in the registry              *)
(* main, last_cleanup   the main thread: "top" of the loop or in "accept"  *)
(* heard         the ids of the challenges a client was notified of        *)
(* issued        each challenge as it was made (history)                   *)
(* expired       the ids removed by the cleanup (history)                  *)
(* answers       the games started and declines counted (history)          *)
(***************************************************************************)
EXTENDS Matchmaking, Sequences

CONSTANT CleanupPeriod   \* seconds between two cleanups, 30 in the program
ASSUME CleanupAssumption == CleanupPeriod \in Nat

VARIABLES online, op, main, last_cleanup, heard, issued, expired, answers

serverVars  == <<online, op, main, last_cleanup>>
historyVars == <<heard, issued, expired, answers>>
vars        == <<mmVars, serverVars, historyVars>>

Idle == [at |-> "idle", id |-> 0, slot |-> 0, who |-> NoPlayer]

Init ==
  /\ MMInit
  /\ online = {} /\ op = [p \in Player |-> Idle]
  /\ main = "top" /\ last_cleanup = StartTime
  /\ heard = [p \in Player |-> {}] /\ issued = <<>> /\ expired = {}
  /\ answers = <<>>

\* The thread of p goes on to another step, or has done with its message.
GoTo(p, step) == op' = [op EXCEPT ![p].at = step]
Done(p)       == op' = [op EXCEPT ![p] = Idle]

\* The challenge p's thread points to, as it is now.
Pointed(p) == challenges[op[p].slot]

-----------------------------------------------------------------------------
(* The main thread: a loop around a blocking accept.                        *)

MainTop ==
  /\ main = "top"
  /\ main' = "accept"
  /\ IF now - last_cleanup >= CleanupPeriod
     THEN /\ CleanupExpired
          /\ last_cleanup' = now
          /\ expired' = expired \union {challenges[s].id : s \in Expired}
     ELSE UNCHANGED <<mmVars, last_cleanup, expired>>
  /\ UNCHANGED <<online, op, heard, issued, answers>>

\* A client is let in, and its thread enters its session in the registry.
Login(p) ==
  /\ main = "accept"
  /\ p \notin connected
  /\ AddPlayer(p)
  /\ online' = online \union {p}
  /\ main' = "top"
  /\ UNCHANGED <<op, last_cleanup, historyVars>>

\* A connection that comes to nothing: its pseudo is in use, or it is no client.
Reject ==
  /\ main = "accept"
  /\ main' = "top"
  /\ UNCHANGED <<mmVars, online, op, last_cleanup, historyVars>>

Logout(p) ==
  /\ p \in online /\ op[p].at = "idle"
  /\ RemovePlayer(p)
  /\ online' = online \ {p}
  /\ UNCHANGED <<op, main, last_cleanup, historyVars>>

\* Time goes on while the main thread waits in accept.
Wait ==
  /\ main = "accept"
  /\ Tick
  /\ UNCHANGED <<serverVars, historyVars>>

-----------------------------------------------------------------------------
(* handle_challenge.                                                        *)

Challenge1(p, o) ==
  /\ p \in online /\ op[p].at = "idle" /\ <<p, o>> \in Pair
  /\ o \in online
  /\ op' = [op EXCEPT ![p] = [Idle EXCEPT !.at = "create", !.who = o]]
  /\ UNCHANGED <<mmVars, online, main, last_cleanup, historyVars>>

CreateNew(p) ==
  /\ op[p].at = "create"
  /\ CreateChallenge(p, op[p].who)
  /\ issued' = Append(issued, [challenger |-> p, opponent |-> op[p].who, at |-> now'])
  /\ op' = [op EXCEPT ![p].at = "notify", ![p].id = next_id]
  /\ UNCHANGED <<online, main, last_cleanup, heard, expired, answers>>

CreateNothing(p) ==
  /\ op[p].at = "create"
  /\ NoNewChallenge(p, op[p].who)
  /\ Done(p)
  /\ UNCHANGED <<online, main, last_cleanup, historyVars>>

Notify(p) ==
  /\ op[p].at = "notify"
  /\ heard' = [heard EXCEPT ![op[p].who] = @ \union (IF op[p].who \in online THEN {op[p].id} ELSE {})]
  /\ Done(p)
  /\ UNCHANGED <<mmVars, online, main, last_cleanup, issued, expired, answers>>

-----------------------------------------------------------------------------
(* The two handlers that answer a challenge begin alike: find it by its id, *)
(* keep the pointer, and check, with no lock, whom the slot is for.         *)

\* The client answers a challenge it was notified of.
Find(p, id, step) ==
  /\ p \in online /\ op[p].at = "idle"
  /\ id \in heard[p]
  /\ \E s \in First(SlotsWithId(id)) :
       op' = [op EXCEPT ![p] = [Idle EXCEPT !.at = step, !.id = id, !.slot = s]]
  /\ UNCHANGED <<mmVars, online, main, last_cleanup, historyVars>>

Check(p, step, next) ==
  /\ op[p].at = step
  /\ IF Pointed(p).opponent = p THEN GoTo(p, next) ELSE Done(p)
  /\ UNCHANGED <<mmVars, online, main, last_cleanup, historyVars>>

Remove(p, step, next) ==
  /\ op[p].at = step
  /\ RemoveChallengeById(op[p].id)
  /\ IF next = "idle" THEN Done(p) ELSE GoTo(p, next)
  /\ UNCHANGED <<online, main, last_cleanup, historyVars>>

(* handle_challenge_accept.                                                 *)

AcceptSession(p) ==
  /\ op[p].at = "accept_session"
  /\ op' = IF Pointed(p).challenger \in online
           THEN [op EXCEPT ![p].at = "accept_create", ![p].who = Pointed(p).challenger]
           ELSE [op EXCEPT ![p].at = "accept_drop"]
  /\ UNCHANGED <<mmVars, online, main, last_cleanup, historyVars>>

\* Mutant: the challenge is not removed once its game is there.
AcceptKeepsOpen(p) ==
  /\ op[p].at = "accept_create"
  /\ answers' = Append(answers, [kind |-> "game", id |-> op[p].id, at |-> now,
                                 a |-> Pointed(p).challenger, b |-> p])
  /\ GoTo(p, "accept_start")
  /\ UNCHANGED <<mmVars, online, main, last_cleanup, heard, issued, expired>>

\* game_manager_create_game, which finds room for the game ...
AcceptCreate(p) ==
  /\ op[p].at = "accept_create"
  /\ answers' = Append(answers, [kind |-> "game", id |-> op[p].id, at |-> now,
                                 a |-> Pointed(p).challenger, b |-> p])
  /\ GoTo(p, "accept_remove")
  /\ UNCHANGED <<mmVars, online, main, last_cleanup, heard, issued, expired>>

\* ... or does not: the challenge stays open.
AcceptNoRoom(p) ==
  /\ op[p].at = "accept_create"
  /\ Done(p)
  /\ UNCHANGED <<mmVars, online, main, last_cleanup, historyVars>>

\* MSG_GAME_STARTED, whose player_a is read from the slot again: a freed slot, in
\* which another thread may have put another challenge.
AcceptStart(p) ==
  /\ op[p].at = "accept_start"
  /\ Done(p)
  /\ UNCHANGED <<mmVars, online, main, last_cleanup, heard, issued, expired, answers>>

(* handle_challenge_decline.                                                *)

DeclineTrack(p) ==
  /\ op[p].at = "decline_track"
  /\ TrackDecline(Pointed(p).challenger, Pointed(p).opponent)
  /\ answers' = Append(answers, [kind |-> "decline", id |-> op[p].id, at |-> now,
                                 a |-> Pointed(p).challenger, b |-> Pointed(p).opponent])
  /\ GoTo(p, "decline_remove")
  /\ UNCHANGED <<online, main, last_cleanup, heard, issued, expired>>

\* The freed slot is read again to learn who is to be told, as above.
DeclineNotify(p) ==
  /\ op[p].at = "decline_notify"
  /\ Done(p)
  /\ UNCHANGED <<mmVars, online, main, last_cleanup, heard, issued, expired, answers>>

-----------------------------------------------------------------------------

Thread(p) ==
  \/ \E o \in Player : Challenge1(p, o)
  \/ CreateNew(p) \/ CreateNothing(p) \/ Notify(p)
  \/ \E id \in heard[p] : \/ Find(p, id, "accept_check")
                          \/ Find(p, id, "decline_check")
  \/ Check(p, "accept_check", "accept_session")
  \/ AcceptSession(p) \/ AcceptCreate(p) \/ AcceptNoRoom(p)
  \/ Remove(p, "accept_remove", "accept_start")
  \/ Remove(p, "accept_drop", "idle")
  \/ AcceptStart(p)
  \/ Check(p, "decline_check", "decline_track")
  \/ DeclineTrack(p)
  \/ Remove(p, "decline_remove", "decline_notify")
  \/ DeclineNotify(p)

Next ==
  \/ \E p \in Player : Thread(p) \/ Login(p) \/ Logout(p)
  \/ MainTop \/ Reject \/ Wait

Spec == Init /\ [][Next]_vars

-----------------------------------------------------------------------------
(* Properties.                                                              *)

Step == {"idle", "create", "notify", "accept_check", "accept_session", "accept_create",
         "accept_remove", "accept_drop", "accept_start", "decline_check", "decline_track",
         "decline_remove", "decline_notify"}

\* The type invariant: a thread in a handler points to a slot if its step reads
\* one, and it is in a handler only as long as its session lives.
TypeOK ==
  /\ MMTypeOK
  /\ online \subseteq connected /\ main \in {"top", "accept"} /\ last_cleanup \in Nat
  /\ op \in [Player -> [at : Step, id : 0 .. next_id - 1, slot : {0} \union Slot,
                        who : Player \union {NoPlayer}]]
  /\ \A p \in Player :
       /\ op[p].at # "idle" => p \in online
       /\ op[p].at \notin {"idle", "create", "notify"} => op[p].slot \in Slot
  /\ Len(issued) = next_id - 1

PairOf(challenge) == <<challenge.challenger, challenge.opponent>>

\* A challenge is answered once, by a game or by a decline, and an answered
\* challenge is open only as long as the thread that answered it is about to
\* remove it.
AnsweredOnce ==
  \A i \in DOMAIN answers :
    /\ \A j \in DOMAIN answers : answers[i].id = answers[j].id => i = j
    /\ SlotsWithId(answers[i].id) # {} =>
         \E p \in Player : /\ op[p].id = answers[i].id
                          /\ op[p].at \in {"accept_remove", "decline_remove"}

\* Though the handlers read the slot they found after they let go of the lock,
\* the game that answers a challenge is between the two players of it, and the
\* decline is counted for them, unless the challenge expired meanwhile.
AnswerMatchesChallenge ==
  \A i \in DOMAIN answers :
    answers[i].id \notin expired => <<answers[i].a, answers[i].b>> = PairOf(issued[answers[i].id])

\* Nobody has to decline one player more than MaxDeclines times in any span of
\* DeclineWindow seconds.
DeclinesAreLimited ==
  \A j \in DOMAIN answers :
    Cardinality({i \in 1 .. j :
        /\ answers[i].kind = "decline" /\ answers[i].id \notin expired
        /\ PairOf(issued[answers[i].id]) = PairOf(issued[answers[j].id])
        /\ answers[j].at - answers[i].at < DeclineWindow}) <= MaxDeclines
=============================================================================
