------------------------------ MODULE ChatProofs -------------------------------
(***************************************************************************)
(* Theorems about Chat.tla, for any number of clients and of messages: the *)
(* type invariant, that one thread at a time sends a global chat, that it  *)
(* sends to no session that has ended, and that clients hear of others in  *)
(* one order.                                                              *)
(*                                                                         *)
(* A session that is found is in the registry, so its thread has not come  *)
(* to its cleanup; it may start it while the message is sent, and then has *)
(* to take the lock that the sender holds.                                 *)
(*                                                                         *)
(* The order: the one thread in the loop sends what nobody had before it   *)
(* took the lock, to each client once, because nobody is in the table      *)
(* twice; so what it sends is the last of others that a client has heard.  *)
(*                                                                         *)
(* The lock: what the holder has ahead of it grows less with its steps.    *)
(***************************************************************************)
EXTENDS Chat, TLAPS

\* mm->lock is held by the thread in the loop over the players, and no other is
\* in it.
LockIsHeld == \A t \in Client : InLoop(t) => lock = t

\* The cleanup of a session that is in the registry has not begun.
RegisteredLive ==
  \A c \in registered : th[c].at \notin {"remove", "close", "ended"}

IInv == TypeOK /\ LockIsHeld /\ RegisteredLive /\ HeldSessionsLive

\* Where the threads are.
Place == {"serve", "lock", "loop", "select", "send", "remove", "close", "ended"}
State == [at : Place, msg : Message, to : Client, next : 1 .. Len(Table) + 1]

\* The table has finitely many places, each of a client.
LEMMA TableInClient ==
  /\ Len(Table) \in Nat
  /\ \A i \in 1 .. Len(Table) : Table[i] \in Client
  BY ChatAssumption DEF Client

\* The initial state is typed.
LEMMA InitIsTyped == Init => TypeOK
<1> SUFFICES ASSUME Init PROVE TypeOK
  OBVIOUS
<1>1. \A t \in Client : Serving(t) \in State
  BY TableInClient, ChatAssumption DEF Serving, NotFound, Message, State, Place
<1>2. QED
  BY <1>1, ChatAssumption DEF Init, TypeOK, State, Place

\* What a thread goes on with is a state of it.
LEMMA SentIsState ==
  ASSUME TypeOK, NEW t \in Client
  PROVE  Sent(t) \in State
<1>1. th[t] \in State
  BY DEF TypeOK, State, Place
<1>2. Serving(t) \in State
  BY TableInClient, ChatAssumption DEF Serving, NotFound, Message, State, Place
<1>3. [th[t] EXCEPT !.at = "loop"] \in State
  BY <1>1 DEF State, Place
<1>4. [th[t] EXCEPT !.at = "select", !.to = t] \in State
  BY <1>1 DEF State, Place
<1>5. QED
  BY <1>2, <1>3, <1>4 DEF Sent

\* A state of a thread stays one when it goes to another place, or has another
\* message, or another client to send to.
LEMMA Placed ==
  ASSUME NEW r \in State, NEW place \in Place, NEW c \in Client
  PROVE  /\ [r EXCEPT !.at = place] \in State
         /\ [r EXCEPT !.at = place, !.to = c] \in State
  BY DEF State

\* What a handler notes when it begins to send.
LEMMA Begun ==
  ASSUME NEW r \in State, NEW place \in Place, NEW m \in Message, NEW c \in Client
  PROVE  /\ [r EXCEPT !.at = place, !.to = c, !.msg = m] \in State
         /\ [r EXCEPT !.at = place, !.next = 1, !.msg = m] \in State
<1>1. 1 \in 1 .. Len(Table) + 1
  BY TableInClient
<1>2. QED BY <1>1 DEF State

\* A thread has a state of a thread.
LEMMA ThreadIsState == ASSUME TypeOK, NEW t \in Client PROVE th[t] \in State
  BY DEF TypeOK, State, Place

\* Every step keeps the types.
LEMMA StepIsTyped ==
  ASSUME TypeOK, [Next]_vars
  PROVE  TypeOK'
<1> USE DEF TypeOK
<1>1. th \in [Client -> State]
  BY DEF State, Place
<1>2. ASSUME NEW t \in Client, NEW r \in State, Moves(t, r)
      PROVE  th' \in [Client -> State]
  BY <1>1, <1>2 DEF Moves
<1>3. ASSUME NEW t \in Client, Lock(t) PROVE TypeOK'
  <2>1. [th[t] EXCEPT !.at = "loop"] \in State
    BY ThreadIsState, Placed DEF Place
  <2>2. QED BY <1>2, <1>3, <2>1 DEF Lock, State, Place
<1>4. ASSUME NEW t \in Client, Find(t) PROVE TypeOK'
  <2> DEFINE c == Table[th[t].next]
  <2>0. th[t].next <= Len(Table)
    BY <1>4 DEF Find
  <2>1. th[t] \in State /\ th[t].next \in 1 .. Len(Table)
    BY <2>0, ThreadIsState, TableInClient DEF State
  <2>2. c \in Client
    BY <2>1, TableInClient
  <2>3. th[t].next + 1 \in 1 .. Len(Table) + 1
    BY <2>1, TableInClient
  <2>4. [th[t] EXCEPT !.at = "select", !.to = c, !.next = @ + 1] \in State
    BY <2>1, <2>2, <2>3 DEF State, Place
  <2>5. [th[t] EXCEPT !.next = @ + 1] \in State
    BY <2>1, <2>3 DEF State, Place
  <2> HIDE DEF c
  <2>6. th' \in [Client -> State]
    BY <1>2, <1>4, <2>4, <2>5 DEF Find, c
  <2>7. QED BY <1>4, <2>6 DEF Find, State, Place
<1>5. ASSUME NEW t \in Client, Unlock(t) PROVE TypeOK'
  <2>1. [th[t] EXCEPT !.at = "select", !.to = t] \in State
    BY ThreadIsState, Placed DEF Place
  <2>2. QED BY <1>2, <1>5, <2>1 DEF Unlock, State, Place
<1>6. ASSUME NEW t \in Client, Writable(t) PROVE TypeOK'
  <2>1. [th[t] EXCEPT !.at = "send"] \in State
    BY ThreadIsState, Placed DEF Place
  <2>2. QED BY <1>2, <1>6, <2>1 DEF Writable, State, Place
<1>7. ASSUME NEW t \in Client, Fails(t) PROVE TypeOK'
  BY <1>2, <1>7, SentIsState DEF Fails, State, Place
<1>8. ASSUME NEW t \in Client, Write(t) PROVE TypeOK'
  <2>1. th' \in [Client -> State]
    <3>1. Moves(t, Sent(t))
      BY <1>8 DEF Write
    <3>2. QED BY <1>2, <3>1, SentIsState
  <2>2. th[t].to \in Client /\ th[t].msg \in Message
    BY ThreadIsState DEF State
  <2>3. unread' \in [Client -> 0 .. Room]
    <3>1. unread[th[t].to] + 1 \in 0 .. Room
      BY <1>8, <2>2, ChatAssumption DEF Write
    <3>2. QED BY <1>8, <2>2, <3>1 DEF Write
  <2>4. got' \in [Client -> Seq(Message)]
    <3>1. Append(got[th[t].to], th[t].msg) \in Seq(Message)
      BY <2>2
    <3>2. QED BY <1>8, <2>2, <3>1 DEF Write
  <2>5. QED BY <1>8, <2>1, <2>3, <2>4 DEF Write, State, Place
<1>9. ASSUME NEW t \in Client, Unregister(t) PROVE TypeOK'
  <2>1. [th[t] EXCEPT !.at = "remove"] \in State
    BY ThreadIsState, Placed DEF Place
  <2>2. QED BY <1>2, <1>9, <2>1 DEF Unregister, State, Place
<1>10. ASSUME NEW t \in Client, RemovePlayer(t) PROVE TypeOK'
  <2>1. [th[t] EXCEPT !.at = "close"] \in State
    BY ThreadIsState, Placed DEF Place
  <2>2. QED BY <1>2, <1>10, <2>1 DEF RemovePlayer, State, Place
<1>11. ASSUME NEW t \in Client, End(t) PROVE TypeOK'
  <2>1. [th[t] EXCEPT !.at = "ended"] \in State
    BY ThreadIsState, Placed DEF Place
  <2>2. QED BY <1>2, <1>11, <2>1 DEF End, State, Place
<1>12. ASSUME NEW t \in Client, HangUp(t) PROVE TypeOK'
  BY <1>12, ChatAssumption DEF HangUp
<1>13. ASSUME NEW t \in Client, Read(t) PROVE TypeOK'
  BY <1>13, ChatAssumption DEF Read
<1>14. ASSUME NEW t \in Client, Global(t) PROVE TypeOK'
  <2>1. chats' \in 0 .. MaxChats
    BY <1>14, ChatAssumption DEF Global
  <2>2. [from |-> t, global |-> TRUE, n |-> chats'] \in Message
    BY <2>1 DEF Message
  <2>3. [th[t] EXCEPT !.at = "lock", !.next = 1,
           !.msg = [from |-> t, global |-> TRUE, n |-> chats']] \in State
    BY ThreadIsState, <2>2, Begun DEF Place
  <2>4. QED BY <1>2, <1>14, <2>1, <2>3 DEF Global, State, Place
<1>15. ASSUME NEW t \in Client, NEW c \in Client, Private(t, c) PROVE TypeOK'
  <2>1. chats' \in 0 .. MaxChats
    BY <1>15, ChatAssumption DEF Private
  <2>2. [from |-> t, global |-> FALSE, n |-> chats'] \in Message
    BY <2>1 DEF Message
  <2>3. NotFound(t) \in Message
    BY ChatAssumption DEF NotFound, Message
  <2>4. [th[t] EXCEPT !.at = "select", !.to = c,
           !.msg = [from |-> t, global |-> FALSE, n |-> chats']] \in State
    BY ThreadIsState, <2>2, Begun DEF Place
  <2>5. [th[t] EXCEPT !.at = "select", !.to = t, !.msg = NotFound(t)] \in State
    BY ThreadIsState, <2>3, Begun DEF Place
  <2>6. th' \in [Client -> State]
    BY <1>2, <1>15, <2>4, <2>5 DEF Private
  <2>7. QED BY <1>15, <2>1, <2>6 DEF Private, State, Place
<1>16. CASE UNCHANGED vars
  BY <1>16 DEF vars
<1>17. QED
  BY <1>3, <1>4, <1>5, <1>6, <1>7, <1>8, <1>9, <1>10, <1>11, <1>12, <1>13, <1>14, <1>15,
     <1>16 DEF Next, Step

\* Where a step can take a thread, and that it leaves the others where they are.
LEMMA Elsewhere ==
  ASSUME TypeOK, NEW t \in Client, NEW r, Moves(t, r)
  PROVE  th'[t] = r /\ \A u \in Client \ {t} : th'[u] = th[u]
  BY DEF TypeOK, Moves

\* A thread that goes on after a message is in the loop if it was in it, and has
\* not come to its cleanup.
LEMMA SentGoesOn ==
  ASSUME TypeOK, NEW t \in Client, th[t].at \in {"select", "send"}
  PROVE  /\ Sent(t).at \in {"serve", "loop", "select"}
         /\ Sent(t).at = "loop" => InLoop(t)
         /\ Sent(t).at = "select" => Sent(t).to = t
<1>1. th[t] \in State
  BY ThreadIsState
<1>2. CASE th[t].to = t
  BY <1>2 DEF Sent, Serving
<1>3. CASE th[t].to # t /\ th[t].msg.global
  BY <1>1, <1>3 DEF Sent, InLoop, State
<1>4. CASE th[t].to # t /\ ~th[t].msg.global
  BY <1>1, <1>4 DEF Sent, State
<1>5. QED BY <1>2, <1>3, <1>4

\* The step of a thread that is neither the lock, nor its release, nor the find of
\* a session: the thread is in the loop after it only if it was, it sends to no
\* other session, and the registry keeps the threads that have not begun to end.
LEMMA OtherStep ==
  ASSUME IInv, NEW t \in Client, NEW r \in State, Moves(t, r),
         lock' = lock, registered' \subseteq registered,
         r.at \in {"remove", "close", "ended"} => t \notin registered',
         (r.at = "loop" \/ (r.at \in {"select", "send"} /\ r.msg.global /\ r.to # t)) => InLoop(t),
         (r.at \in {"select", "send"} /\ r.msg.global /\ r.to # t) =>
           th[t].at \in {"select", "send"} /\ r.to = th[t].to,
         r.at \in {"close", "ended"} => lock = Nobody \/ th[t].at = "close"
  PROVE  LockIsHeld' /\ RegisteredLive' /\ HeldSessionsLive'
<1>1. th'[t] = r /\ \A u \in Client \ {t} : th'[u] = th[u]
  BY Elsewhere DEF IInv
<1>2. \A u \in Client : InLoop(u)' => InLoop(u)
  BY <1>1 DEF InLoop
<1>3. LockIsHeld'
  BY <1>2 DEF IInv, LockIsHeld
<1>4. RegisteredLive'
  BY <1>1 DEF IInv, TypeOK, RegisteredLive
<1>5. HeldSessionsLive'
  <2> SUFFICES ASSUME NEW u \in Client, InLoop(u)', th'[u].at # "loop"
               PROVE  th'[th'[u].to].at \notin {"close", "ended"}
    BY DEF HeldSessionsLive
  <2>1. InLoop(u) /\ lock = u /\ lock # Nobody
    BY <1>2, ChatAssumption DEF IInv, LockIsHeld
  <2>2. th[u].at # "loop" /\ th'[u].to = th[u].to
    BY <1>1 DEF InLoop
  <2>3. th[u].to \in Client /\ th[th[u].to].at \notin {"close", "ended"}
    BY <2>1, <2>2, ThreadIsState DEF IInv, HeldSessionsLive, State
  <2>4. th[u].to = t => r.at \notin {"close", "ended"}
    BY <2>1, <2>3
  <2>5. QED BY <1>1, <2>2, <2>3, <2>4
<1>6. QED BY <1>3, <1>4, <1>5

\* The invariant is inductive.
LEMMA InvStep == IInv /\ [Next]_vars => IInv'
<1> SUFFICES ASSUME IInv, [Next]_vars PROVE IInv'
  OBVIOUS
<1>1. TypeOK /\ TypeOK'
  BY StepIsTyped DEF IInv
<1> SUFFICES LockIsHeld' /\ RegisteredLive' /\ HeldSessionsLive'
  BY <1>1 DEF IInv
<1>3. ASSUME NEW t \in Client, Lock(t)
      PROVE  LockIsHeld' /\ RegisteredLive' /\ HeldSessionsLive'
  <2>1. th'[t] = [th[t] EXCEPT !.at = "loop"] /\ \A u \in Client \ {t} : th'[u] = th[u]
    BY <1>1, <1>3, Elsewhere DEF Lock
  <2>2. th[t] \in State
    BY <1>1, ThreadIsState
  <2>3. th'[t].at = "loop"
    BY <2>1, <2>2 DEF State
  <2>4. \A u \in Client : ~InLoop(u)
    BY <1>3, ChatAssumption DEF Lock, IInv, LockIsHeld
  <2>5. \A u \in Client : InLoop(u)' => u = t
    BY <2>1, <2>4 DEF InLoop
  <2>6. LockIsHeld'
    BY <1>3, <2>5 DEF LockIsHeld, Lock
  <2>7. RegisteredLive'
    BY <1>1, <1>3, <2>1, <2>3 DEF IInv, TypeOK, RegisteredLive, Lock
  <2>8. HeldSessionsLive'
    BY <2>3, <2>5 DEF HeldSessionsLive
  <2>9. QED BY <2>6, <2>7, <2>8
<1>4. ASSUME NEW t \in Client, Find(t)
      PROVE  LockIsHeld' /\ RegisteredLive' /\ HeldSessionsLive'
  <2> DEFINE c == Table[th[t].next]
             r == IF c # t /\ c \in registered
                  THEN [th[t] EXCEPT !.at = "select", !.to = c, !.next = @ + 1]
                  ELSE [th[t] EXCEPT !.next = @ + 1]
  <2>1. th[t] \in State /\ th[t].at = "loop" /\ Moves(t, r)
    BY <1>1, <1>4, ThreadIsState DEF Find
  <2>2. InLoop(t) /\ lock = t /\ lock' = lock /\ registered' = registered
    BY <1>4, <2>1 DEF IInv, LockIsHeld, InLoop, Find
  <2>3. r.at = "loop" \/ (r.at = "select" /\ r.to \in registered)
    BY <2>1 DEF State
  <2> HIDE DEF c, r
  <2>4. th'[t] = r /\ \A u \in Client \ {t} : th'[u] = th[u]
    BY <1>1, <2>1, Elsewhere
  <2>5. \A u \in Client : InLoop(u)' => lock = u
    BY <2>2, <2>4 DEF InLoop, IInv, LockIsHeld
  <2>6. LockIsHeld'
    BY <2>2, <2>5 DEF LockIsHeld
  <2>7. RegisteredLive'
    BY <1>1, <2>2, <2>3, <2>4 DEF IInv, TypeOK, RegisteredLive
  <2>8. HeldSessionsLive'
    <3> SUFFICES ASSUME NEW u \in Client, InLoop(u)', th'[u].at # "loop"
                 PROVE  th'[th'[u].to].at \notin {"close", "ended"}
      BY DEF HeldSessionsLive
    <3>1. u = t
      BY <2>2, <2>5
    <3>2. th'[u].to \in registered'
      BY <2>2, <2>3, <2>4, <3>1
    <3>3. QED BY <2>7, <3>2 DEF RegisteredLive
  <2>9. QED BY <2>6, <2>7, <2>8
<1>5. ASSUME NEW t \in Client, Unlock(t)
      PROVE  LockIsHeld' /\ RegisteredLive' /\ HeldSessionsLive'
  <2>1. th[t] \in State /\ th[t].at = "loop" /\ lock = t
    BY <1>1, <1>5, ThreadIsState DEF Unlock, IInv, LockIsHeld, InLoop
  <2>2. /\ th'[t] = [th[t] EXCEPT !.at = "select", !.to = t]
        /\ \A u \in Client \ {t} : th'[u] = th[u]
    BY <1>1, <1>5, Elsewhere DEF Unlock
  <2>3. th'[t].at = "select" /\ th'[t].to = t
    BY <2>1, <2>2 DEF State
  <2>4. \A u \in Client : ~InLoop(u)'
    BY <2>1, <2>2, <2>3 DEF InLoop, IInv, LockIsHeld
  <2>5. LockIsHeld' /\ HeldSessionsLive'
    BY <2>4 DEF LockIsHeld, HeldSessionsLive
  <2>6. RegisteredLive'
    BY <1>1, <1>5, <2>2, <2>3 DEF IInv, TypeOK, RegisteredLive, Unlock
  <2>7. QED BY <2>5, <2>6
<1>6. ASSUME NEW t \in Client, Writable(t)
      PROVE  LockIsHeld' /\ RegisteredLive' /\ HeldSessionsLive'
  <2> DEFINE r == [th[t] EXCEPT !.at = "send"]
  <2>1. th[t] \in State
    BY <1>1, ThreadIsState
  <2>2. r \in State /\ r.at = "send" /\ r.msg = th[t].msg /\ r.to = th[t].to
    BY <2>1 DEF State, Place
  <2>3. th[t].at = "select" /\ Moves(t, r) /\ lock' = lock /\ registered' = registered
    BY <1>6 DEF Writable
  <2> HIDE DEF r
  <2>4. QED BY <2>2, <2>3, OtherStep DEF InLoop
<1>7. ASSUME NEW t \in Client, Fails(t) \/ Write(t)
      PROVE  LockIsHeld' /\ RegisteredLive' /\ HeldSessionsLive'
  <2>1. th[t].at \in {"select", "send"}
    BY <1>7 DEF Fails, Write
  <2>2. Moves(t, Sent(t)) /\ lock' = lock /\ registered' = registered
    BY <1>7 DEF Fails, Write
  <2>3. Sent(t) \in State
    BY <1>1, SentIsState
  <2>4. QED BY <1>1, <2>1, <2>2, <2>3, SentGoesOn, OtherStep
<1>8. ASSUME NEW t \in Client, Unregister(t)
      PROVE  LockIsHeld' /\ RegisteredLive' /\ HeldSessionsLive'
  <2> DEFINE r == [th[t] EXCEPT !.at = "remove"]
  <2>1. r \in State /\ r.at = "remove"
    BY <1>1, ThreadIsState DEF State, Place
  <2>2. Moves(t, r) /\ lock' = lock /\ registered' = registered \ {t}
    BY <1>8 DEF Unregister
  <2> HIDE DEF r
  <2>3. QED BY <2>1, <2>2, OtherStep
<1>9. ASSUME NEW t \in Client, RemovePlayer(t) \/ End(t)
      PROVE  LockIsHeld' /\ RegisteredLive' /\ HeldSessionsLive'
  <2> DEFINE r == [th[t] EXCEPT !.at = IF th[t].at = "remove" THEN "close" ELSE "ended"]
  <2>1. r \in State /\ r.at \in {"close", "ended"}
    BY <1>1, ThreadIsState DEF State, Place
  <2>2. Moves(t, r) /\ lock' = lock /\ registered' = registered
    BY <1>9 DEF RemovePlayer, End
  <2>3. t \notin registered
    BY <1>9 DEF RemovePlayer, End, IInv, RegisteredLive
  <2>4. lock = Nobody \/ th[t].at = "close"
    BY <1>9 DEF RemovePlayer, End
  <2> HIDE DEF r
  <2>5. QED BY <2>1, <2>2, <2>3, <2>4, OtherStep
<1>10. ASSUME NEW t \in Client, Global(t)
       PROVE  LockIsHeld' /\ RegisteredLive' /\ HeldSessionsLive'
  <2> DEFINE m == [from |-> t, global |-> TRUE, n |-> chats']
             r == [th[t] EXCEPT !.at = "lock", !.next = 1, !.msg = m]
  <2>1. m \in Message
    BY <1>1, <1>10, ChatAssumption DEF Global, Message, TypeOK
  <2>2. Moves(t, r) /\ lock' = lock /\ registered' = registered
    BY <1>10 DEF Global
  <2> HIDE DEF m
  <2>3. r \in State /\ r.at = "lock"
    <3>1. th[t] \in State /\ "lock" \in Place
      BY <1>1, ThreadIsState DEF Place
    <3>2. r \in State
      BY <2>1, <3>1, Begun
    <3>3. QED BY <3>1, <3>2 DEF State
  <2> HIDE DEF r
  <2>4. QED BY <2>2, <2>3, OtherStep
<1>11. ASSUME NEW t \in Client, NEW c \in Client, Private(t, c)
       PROVE  LockIsHeld' /\ RegisteredLive' /\ HeldSessionsLive'
  <2> DEFINE m == IF c \in registered THEN [from |-> t, global |-> FALSE, n |-> chats']
                  ELSE NotFound(t)
             d == IF c \in registered THEN c ELSE t
             r == [th[t] EXCEPT !.at = "select", !.to = d, !.msg = m]
  <2>1. m \in Message /\ m.global = FALSE
    BY <1>1, <1>11, ChatAssumption DEF Private, Message, TypeOK, NotFound
  <2>2. Moves(t, r) /\ lock' = lock /\ registered' = registered
    BY <1>11 DEF Private
  <2>3. d \in Client
    OBVIOUS
  <2> HIDE DEF m, d
  <2>4. r \in State /\ r.at = "select" /\ r.msg.global = FALSE
    <3>1. th[t] \in State /\ "select" \in Place
      BY <1>1, ThreadIsState DEF Place
    <3>2. r \in State
      BY <2>1, <2>3, <3>1, Begun
    <3>3. QED BY <2>1, <3>1, <3>2 DEF State
  <2> HIDE DEF r
  <2>5. QED BY <2>2, <2>4, OtherStep
<1>12. ASSUME NEW t \in Client, HangUp(t) \/ Read(t)
       PROVE  LockIsHeld' /\ RegisteredLive' /\ HeldSessionsLive'
  BY <1>12 DEF HangUp, Read, IInv, LockIsHeld, RegisteredLive, HeldSessionsLive, InLoop
<1>13. CASE UNCHANGED vars
  BY <1>13 DEF vars, IInv, LockIsHeld, RegisteredLive, HeldSessionsLive, InLoop
<1>14. QED
  BY <1>3, <1>4, <1>5, <1>6, <1>7, <1>8, <1>9, <1>10, <1>11, <1>12, <1>13 DEF Next, Step

\* The inductive invariant holds initially.
LEMMA InitHolds == Init => IInv
<1> SUFFICES ASSUME Init PROVE IInv
  OBVIOUS
<1>1. TypeOK
  BY InitIsTyped
<1>2. \A t \in Client : th[t].at = "serve"
  BY DEF Init, Serving
<1>3. QED
  BY <1>1, <1>2 DEF IInv, LockIsHeld, RegisteredLive, HeldSessionsLive, InLoop, TypeOK

\* The inductive invariant holds in every reachable state.
LEMMA Invariance == Spec => []IInv
<1>1. Init => IInv
  BY InitHolds
<1>2. IInv /\ [Next]_vars => IInv'
  BY InvStep
<1>3. QED BY <1>1, <1>2, PTL DEF Spec

\* The variables of a chat keep their types: no client has more than Room messages
\* unread, and no thread sends to anything but the session of a client.
THEOREM TypeCorrect == Spec => []TypeOK
<1>1. IInv => TypeOK
  BY DEF IInv
<1>2. QED BY <1>1, Invariance, PTL

\* The loop of handle_send_chat over the players is in one thread at a time, the
\* one that holds mm->lock.
THEOREM OneGlobalChat == Spec => []LockIsHeld
<1>1. IInv => LockIsHeld
  BY DEF IInv
<1>2. QED BY <1>1, Invariance, PTL

\* A global chat never sends to the session of a thread that has closed it or has
\* ended, for any number of clients, however they leave.
THEOREM ChatFindsLiveSessions == Spec => []HeldSessionsLive
<1>1. IInv => HeldSessionsLive
  BY DEF IInv
<1>2. QED BY <1>1, Invariance, PTL
-----------------------------------------------------------------------------
(* The order in which clients hear of others.                               *)

\* A thread sends messages of its own, and what is in a connection has a number.
Own      == \A t \in Client : th[t].msg.from = t /\ th[t].msg.n <= chats
Numbered == \A d \in Client : \A k \in DOMAIN got[d] : got[d][k].n <= chats

Heard(d, m) == \E k \in DOMAIN got[d] : got[d][k] = m

\* A global message that waits for the lock has reached nobody.
Unheard ==
  \A t \in Client : th[t].at = "lock" =>
    th[t].next = 1 /\ th[t].msg.global /\ \A d \in Client : ~Heard(d, th[t].msg)

\* The place in the table of the client that is next to hear a global message.
Turn(r) == IF r.at = "loop" THEN r.next ELSE r.next - 1

\* The loop sends to one client after the other, and to none that it has yet to
\* reach.
Reaching ==
  \A t \in Client : InLoop(t) =>
    /\ th[t].msg.global
    /\ th[t].at # "loop" => th[t].next > 1 /\ th[t].to = Table[th[t].next - 1]
    /\ \A i \in DOMAIN Table : i >= Turn(th[t]) => ~Heard(Table[i], th[t].msg)

\* What it has sent is the last that a client has heard of others.
Latest ==
  \A t \in Client : InLoop(t) =>
    \A d \in Client : \A k, l \in DOMAIN got[d] :
      got[d][k] = th[t].msg /\ got[d][l].from # d => l <= k

\* What makes the order inductive.
Hearing == Own /\ Numbered /\ Unheard /\ Reaching /\ Latest /\ SameOrder

\* A message that is heard is one more, at the end.
LEMMA HeardLast ==
  ASSUME TypeOK, NEW c \in Client, NEW m \in Message, got' = [got EXCEPT ![c] = Append(@, m)]
  PROVE  LET last == Len(got[c]) + 1
         IN  /\ \A d \in Client : DOMAIN got[d] \subseteq DOMAIN got'[d]
             /\ \A d \in Client \ {c} : got'[d] = got[d]
             /\ \A d \in Client : \A i \in DOMAIN got[d] :
                  i \in Int /\ got'[d][i] = got[d][i] /\ (d = c => i < last)
             /\ last \in Int /\ last \in DOMAIN got'[c] /\ got'[c][last] = m
             /\ \A d \in Client : \A i \in DOMAIN got'[d] : i \in DOMAIN got[d] \/ (d = c /\ i = last)
<1>1. got \in [Client -> Seq(Message)] /\ got[c] \in Seq(Message)
  BY DEF TypeOK
<1>2. got'[c] = Append(got[c], m) /\ \A d \in Client \ {c} : got'[d] = got[d]
  BY <1>1
<1>3. \A d \in Client : DOMAIN got[d] = 1 .. Len(got[d]) /\ Len(got[d]) \in Nat
  BY <1>1
<1>4. /\ DOMAIN got'[c] = 1 .. Len(got[c]) + 1 /\ got'[c][Len(got[c]) + 1] = m
      /\ \A i \in 1 .. Len(got[c]) : got'[c][i] = got[c][i]
  BY <1>1, <1>2
<1>5. QED BY <1>2, <1>3, <1>4

\* A thread goes to another place, and nobody hears anything.
LEMMA NobodyHears ==
  ASSUME TypeOK, Hearing, NEW t \in Client, NEW r, Moves(t, r), got' = got, chats <= chats', chats' \in Nat,
         r.msg.from = t, r.msg.n <= chats',
         r.at = "lock" => r.next = 1 /\ r.msg.global /\ \A d \in Client : ~Heard(d, r.msg),
         r.at = "loop" \/ (r.at \in {"select", "send"} /\ r.msg.global /\ r.to # t) =>
           /\ r.msg.global
           /\ r.at # "loop" => r.next > 1 /\ r.to = Table[r.next - 1]
           /\ \/ InLoop(t) /\ r.msg = th[t].msg /\ Turn(th[t]) <= Turn(r)
              \/ \A d \in Client : ~Heard(d, r.msg),
         r.at = "loop" \/ (r.at \in {"select", "send"} /\ r.msg.global /\ r.to # t) =>
           Turn(r) \in Int /\ Turn(th[t]) \in Int
  PROVE  Hearing'
<1>1. th'[t] = r /\ \A u \in Client \ {t} : th'[u] = th[u]
  BY Elsewhere
<1>2. \A u \in Client \ {t} : InLoop(u)' = InLoop(u) /\ Turn(th[u])' = Turn(th[u])
  BY <1>1 DEF InLoop, Turn
<1>3. \A d, m : Heard(d, m)' = Heard(d, m)
  BY DEF Heard
<1>4. Own'
  <2>1. \A u \in Client : th[u].msg.from = u /\ th[u].msg.n <= chats /\ th[u].msg.n \in Int
    BY ThreadIsState, ChatAssumption DEF Hearing, Own, State, Message
  <2>2. chats \in Int
    BY ChatAssumption DEF TypeOK
  <2>3. QED BY <1>1, <2>1, <2>2 DEF Own
<1>5. Numbered'
  <2>1. \A d \in Client : \A k \in DOMAIN got[d] : got[d][k].n \in Int
    <3>1. ASSUME NEW d \in Client, NEW k \in DOMAIN got[d] PROVE got[d][k] \in Message
      BY DEF TypeOK
    <3>2. QED BY <3>1, ChatAssumption DEF Message
  <2>2. chats \in Int
    BY ChatAssumption DEF TypeOK
  <2>3. QED BY <2>1, <2>2 DEF Hearing, Numbered
<1>6. Unheard'
  BY <1>1, <1>3 DEF Hearing, Unheard
<1>7. InLoop(t)' <=> r.at = "loop" \/ (r.at \in {"select", "send"} /\ r.msg.global /\ r.to # t)
  BY <1>1 DEF InLoop
<1>8. Reaching'
  <2>1. ASSUME InLoop(t)', NEW i \in DOMAIN Table, i >= Turn(r) PROVE ~Heard(Table[i], r.msg)
    <3>1. Table[i] \in Client /\ i \in Int
      BY TableInClient, ChatAssumption
    <3>2. QED BY <1>7, <2>1, <3>1 DEF Hearing, Reaching
  <2>2. Turn(th[t])' = Turn(r)
    BY <1>1 DEF Turn
  <2>3. QED BY <1>1, <1>2, <1>3, <1>7, <2>1, <2>2 DEF Hearing, Reaching
<1>9. Latest'
  <2>1. ASSUME NEW u \in Client, InLoop(u)', NEW d \in Client, NEW k \in DOMAIN got[d], NEW l \in DOMAIN got[d],
               got[d][k] = th'[u].msg, got[d][l].from # d
        PROVE  l <= k
    <3>1. InLoop(u) /\ th'[u].msg = th[u].msg
      BY <1>1, <1>2, <1>7, <2>1 DEF Heard
    <3>2. QED BY <2>1, <3>1 DEF Hearing, Latest
  <2>2. QED BY <2>1 DEF Latest
<1>10. SameOrder'
  BY DEF Hearing, SameOrder
<1>11. QED BY <1>4, <1>5, <1>6, <1>8, <1>9, <1>10 DEF Hearing

\* A sender hears its own message, which counts for none of its orders.
LEMMA SenderHears ==
  ASSUME IInv, Hearing, NEW t \in Client, Write(t), th[t].msg.global, th[t].to = t
  PROVE  Hearing'
<1> DEFINE m    == th[t].msg
           last == Len(got[t]) + 1
<1>1. /\ TypeOK /\ m \in Message /\ m.from = t /\ m.n <= chats /\ chats' = chats
      /\ got' = [got EXCEPT ![t] = Append(@, m)] /\ Moves(t, Serving(t))
  BY ThreadIsState DEF IInv, State, Hearing, Own, Write, Sent
<1>2. th'[t] = Serving(t) /\ \A u \in Client \ {t} : th'[u] = th[u]
  BY <1>1, Elsewhere
<1>3. /\ \A d \in Client \ {t} : got'[d] = got[d]
      /\ \A d \in Client : \A i \in DOMAIN got[d] :
           i \in Int /\ got'[d][i] = got[d][i] /\ (d = t => i < last)
      /\ last \in Int /\ last \in DOMAIN got'[t] /\ got'[t][last] = m
      /\ \A d \in Client : \A i \in DOMAIN got'[d] : i \in DOMAIN got[d] \/ (d = t /\ i = last)
  <2> HIDE DEF m
  <2>1. TypeOK /\ m \in Message /\ got' = [got EXCEPT ![t] = Append(@, m)]
    BY <1>1
  <2>2. QED BY <2>1, HeardLast
<1>4. th'[t].at = "serve" /\ th'[t].msg.from = t /\ th'[t].msg.n = 0
  BY <1>2 DEF Serving, NotFound
<1>5. \A u \in Client : InLoop(u)' => u # t /\ InLoop(u)
  BY <1>2, <1>4 DEF InLoop
<1>6. \A d \in Client : \A i \in DOMAIN got'[d] :
        \/ i \in DOMAIN got[d] /\ got'[d][i] = got[d][i]
        \/ d = t /\ got'[d][i] = m
  BY <1>3
<1>7. ASSUME NEW u \in Client \ {t}, NEW d \in Client, Heard(d, th[u].msg)' PROVE Heard(d, th[u].msg)
  <2>1. th[u].msg.from # t /\ th'[u] = th[u]
    BY <1>2 DEF Hearing, Own
  <2>2. PICK k \in DOMAIN got'[d] : got'[d][k] = th[u].msg
    BY <1>7, <2>1 DEF Heard
  <2>3. k \in DOMAIN got[d] /\ got'[d][k] = got[d][k]
    BY <1>1, <1>6, <2>1, <2>2
  <2>4. QED BY <2>2, <2>3 DEF Heard
<1> HIDE DEF m, last
<1>8. Own'
  <2>1. chats \in Int /\ chats >= 0
    BY <1>1, ChatAssumption DEF TypeOK
  <2>2. QED BY <1>1, <1>2, <1>4, <2>1 DEF Hearing, Own
<1>9. Numbered'
  BY <1>1, <1>6 DEF Hearing, Numbered
<1>10. Unheard'
  BY <1>2, <1>4, <1>7 DEF Hearing, Unheard
<1>11. Reaching'
  <2>1. SUFFICES ASSUME NEW u \in Client, InLoop(u)'
        PROVE  /\ th'[u].msg.global
               /\ th'[u].at # "loop" => th'[u].next > 1 /\ th'[u].to = Table[th'[u].next - 1]
               /\ \A i \in DOMAIN Table : i >= Turn(th'[u]) => ~Heard(Table[i], th[u].msg)'
    BY DEF Reaching, Turn
  <2>2. u \in Client \ {t} /\ InLoop(u) /\ th'[u] = th[u]
    BY <1>2, <1>5, <2>1
  <2>3. \A i \in DOMAIN Table : Table[i] \in Client
    BY DEF Client
  <2>4. QED BY <1>7, <2>2, <2>3 DEF Hearing, Reaching
<1>12. Latest'
  <2> SUFFICES ASSUME NEW u \in Client, InLoop(u)', NEW d \in Client,
                      NEW k \in DOMAIN got'[d], NEW l \in DOMAIN got'[d],
                      got'[d][k] = th'[u].msg, got'[d][l].from # d
               PROVE  l <= k
    BY DEF Latest
  <2>1. u # t /\ InLoop(u) /\ th'[u] = th[u] /\ th[u].msg.from = u
    BY <1>2, <1>5 DEF Hearing, Own
  <2>2. k \in DOMAIN got[d] /\ got'[d][k] = got[d][k] /\ l \in DOMAIN got[d] /\ got'[d][l] = got[d][l]
    BY <1>1, <1>6, <2>1
  <2>3. QED BY <2>1, <2>2 DEF Hearing, Latest
<1>13. SameOrder'
  <2> SUFFICES ASSUME NEW c \in Client, NEW d \in Client,
                      NEW i \in DOMAIN got'[c], NEW j \in DOMAIN got'[c],
                      NEW k \in DOMAIN got'[d], NEW l \in DOMAIN got'[d],
                      i < j, got'[c][i].from \notin {c, d}, got'[c][j].from \notin {c, d},
                      got'[c][i] = got'[d][l], got'[c][j] = got'[d][k]
               PROVE  l < k
    BY DEF SameOrder
  <2>1. /\ i \in DOMAIN got[c] /\ got'[c][i] = got[c][i] /\ j \in DOMAIN got[c] /\ got'[c][j] = got[c][j]
        /\ k \in DOMAIN got[d] /\ got'[d][k] = got[d][k] /\ l \in DOMAIN got[d] /\ got'[d][l] = got[d][l]
    BY <1>1, <1>6
  <2>2. /\ got[c][i].from \notin {c, d} /\ got[c][j].from \notin {c, d}
        /\ got[c][i] = got[d][l] /\ got[c][j] = got[d][k]
    BY <2>1
  <2>3. QED BY <2>1, <2>2 DEF Hearing, SameOrder
<1>14. QED BY <1>8, <1>9, <1>10, <1>11, <1>12, <1>13 DEF Hearing

\* A client hears the message of another one: the one that holds the lock.
LEMMA OtherHears ==
  ASSUME IInv, Hearing, NEW t \in Client, Write(t), th[t].msg.global, th[t].to # t
  PROVE  Hearing'
<1> DEFINE m    == th[t].msg
           c    == th[t].to
           last == Len(got[c]) + 1
<1>1. /\ TypeOK /\ m \in Message /\ m.from = t /\ m.n <= chats /\ chats' = chats /\ c \in Client
      /\ got' = [got EXCEPT ![c] = Append(@, m)] /\ Moves(t, [th[t] EXCEPT !.at = "loop"])
      /\ th[t].at = "send" /\ th[t].next \in Int /\ th[t] \in State
  BY ThreadIsState, TableInClient DEF IInv, State, Hearing, Own, Write, Sent
<1>2. th'[t] = [th[t] EXCEPT !.at = "loop"] /\ \A u \in Client \ {t} : th'[u] = th[u]
  BY <1>1, Elsewhere
<1>3. /\ th'[t].at = "loop" /\ th'[t].msg = m /\ th'[t].next = th[t].next
      /\ InLoop(t) /\ \A u \in Client : InLoop(u) => u = t
  BY <1>1, <1>2 DEF InLoop, State, IInv, LockIsHeld
<1>4. \A u \in Client : InLoop(u)' => u = t
  BY <1>2, <1>3 DEF InLoop
<1>5. /\ th[t].next > 1 /\ c = Table[th[t].next - 1]
      /\ \A i \in DOMAIN Table : i >= th[t].next - 1 => ~Heard(Table[i], m)
  BY <1>1, <1>3 DEF Hearing, Reaching, Turn
<1>6. th[t].next - 1 \in DOMAIN Table /\ DOMAIN Table = 1 .. Len(Table)
  <2>1. th[t].next \in 1 .. Len(Table) + 1 /\ Len(Table) \in Nat /\ DOMAIN Table = 1 .. Len(Table)
    BY <1>1, TableInClient, ChatAssumption DEF State
  <2>2. QED BY <1>5, <2>1
<1>7. ~Heard(c, m)
  BY <1>5, <1>6
<1>8. /\ \A d \in Client \ {c} : got'[d] = got[d]
      /\ \A d \in Client : \A i \in DOMAIN got[d] :
           i \in Int /\ got'[d][i] = got[d][i] /\ (d = c => i < last)
      /\ last \in Int /\ got'[c][last] = m
      /\ \A d \in Client : \A i \in DOMAIN got'[d] : i \in DOMAIN got[d] \/ (d = c /\ i = last)
  BY <1>1, HeardLast
<1> HIDE DEF m, c, last
<1>9. Own'
  <2>1. m.from = t /\ m.n <= chats /\ chats' = chats
    BY <1>1
  <2>2. th'[t].msg = m /\ \A u \in Client \ {t} : th'[u] = th[u]
    BY <1>2, <1>3
  <2>3. QED BY <2>1, <2>2 DEF Hearing, Own
<1>10. Numbered'
  BY <1>1, <1>8 DEF Hearing, Numbered
<1>11. Unheard'
  <2> SUFFICES ASSUME NEW u \in Client, th'[u].at = "lock"
               PROVE  th'[u].next = 1 /\ th'[u].msg.global /\ \A d \in Client : ~Heard(d, th[u].msg)'
    BY DEF Unheard
  <2>1. u # t /\ th'[u] = th[u] /\ th[u].msg.from = u
    BY <1>2, <1>3 DEF Hearing, Own
  <2>2. \A d \in Client : \A k \in DOMAIN got'[d] : got'[d][k] = th[u].msg => k \in DOMAIN got[d] /\ got[d][k] = th[u].msg
    BY <1>1, <1>8, <2>1
  <2>3. QED BY <2>1, <2>2 DEF Hearing, Unheard, Heard
<1>12. Reaching'
  <2>1. ASSUME NEW i \in DOMAIN Table, i >= th[t].next PROVE ~Heard(Table[i], th[t].msg)'
    <3>1. Table[i] \in Client /\ Table[i] # c
      <4>1. i # th[t].next - 1
        BY <1>1, <1>6, <2>1
      <4>2. QED BY <1>5, <1>6, <4>1, ChatAssumption DEF Client
    <3>2. ~Heard(Table[i], m)
      BY <1>1, <1>5, <1>6, <2>1
    <3>3. th'[t].msg = m /\ got'[Table[i]] = got[Table[i]]
      BY <1>3, <1>8, <3>1
    <3>4. QED BY <3>2, <3>3 DEF Heard
  <2>2. th'[t].msg.global
    BY <1>3 DEF m
  <2>3. QED BY <1>3, <1>4, <2>1, <2>2 DEF Reaching, Turn
<1>13. ASSUME NEW d \in Client, NEW k \in DOMAIN got[d], NEW l \in DOMAIN got[d],
              got[d][k] = m, got[d][l].from # d
       PROVE  l <= k
  BY <1>3, <1>13 DEF Hearing, Latest, m
<1>14. Latest'
  <2> SUFFICES ASSUME NEW d \in Client, NEW k \in DOMAIN got'[d], NEW l \in DOMAIN got'[d],
                      got'[d][k] = m, got'[d][l].from # d
               PROVE  l <= k
    BY <1>3, <1>4 DEF Latest
  <2>1. CASE d = c
    <3>1. k = last
      BY <1>7, <1>8, <2>1 DEF Heard
    <3>2. l = last \/ l < last
      BY <1>8, <2>1
    <3>3. QED BY <1>8, <3>1, <3>2
  <2>2. CASE d # c
    BY <1>8, <1>13, <2>2
  <2>3. QED BY <2>1, <2>2
<1>15. SameOrder'
  <2> SUFFICES ASSUME NEW a \in Client, NEW b \in Client,
                      NEW i \in DOMAIN got'[a], NEW j \in DOMAIN got'[a],
                      NEW k \in DOMAIN got'[b], NEW l \in DOMAIN got'[b],
                      i < j, got'[a][i].from \notin {a, b}, got'[a][j].from \notin {a, b},
                      got'[a][i] = got'[b][l], got'[a][j] = got'[b][k]
               PROVE  l < k
    BY DEF SameOrder
  <2>1. i \in DOMAIN got[a] /\ got'[a][i] = got[a][i]
    BY <1>8
  <2>2. a = c => got[a][i] # m
    BY <1>7, <2>1 DEF Heard
  <2>3. CASE a = c /\ j = last
    <3>1. got'[b][k] = m
      BY <1>8, <2>3
    <3>2. l \in DOMAIN got[b] /\ got'[b][l] = got[b][l] /\ got[b][l] # m
      BY <1>8, <2>1, <2>2, <2>3
    <3>3. CASE b = c
      <4>1. k = last
        BY <1>7, <1>8, <3>1, <3>3 DEF Heard
      <4>2. QED BY <1>8, <3>2, <3>3, <4>1
    <3>4. CASE b # c
      <4>1. k \in DOMAIN got[b] /\ got[b][k] = m
        BY <1>8, <3>1, <3>4
      <4>2. l <= k /\ l # k
        BY <1>13, <3>2, <4>1
      <4>3. k \in Int /\ l \in Int
        BY <1>8, <3>2, <4>1
      <4>4. QED BY <4>2, <4>3
    <3>5. QED BY <3>3, <3>4
  <2>4. CASE j \in DOMAIN got[a]
    <3>1. got'[a][j] = got[a][j] /\ i \in Int /\ j \in Int
      BY <1>8, <2>1, <2>4
    <3>2. got[a][i] # m
      <4>1. SUFFICES ASSUME got[a][i] = m PROVE FALSE
        OBVIOUS
      <4>2. j <= i
        BY <1>13, <2>1, <2>4, <3>1, <4>1
      <4>3. QED BY <3>1, <4>2
    <3>3. l \in DOMAIN got[b] /\ got'[b][l] = got[b][l]
      BY <1>8, <2>1, <3>2
    <3>4. CASE b = c /\ k = last
      BY <1>8, <3>3, <3>4
    <3>5. CASE k \in DOMAIN got[b]
      <4>1. got'[b][k] = got[b][k]
        BY <1>8, <3>5
      <4>2. /\ got[a][i].from \notin {a, b} /\ got[a][j].from \notin {a, b}
            /\ got[a][i] = got[b][l] /\ got[a][j] = got[b][k]
        BY <2>1, <3>1, <3>3, <4>1
      <4>3. QED BY <2>1, <2>4, <3>3, <3>5, <4>2 DEF Hearing, SameOrder
    <3>6. QED BY <1>8, <3>4, <3>5
  <2>5. QED BY <1>8, <2>3, <2>4
<1>16. QED BY <1>9, <1>10, <1>11, <1>12, <1>14, <1>15 DEF Hearing

\* A thread goes to a place that is not in the loop.
LEMMA NotInTheLoop ==
  ASSUME TypeOK, Hearing, NEW t \in Client, NEW r, Moves(t, r), got' = got, chats <= chats', chats' \in Nat,
         r.msg.from = t, r.msg.n <= chats', r.at \notin {"lock", "loop"},
         r.at \in {"select", "send"} => ~r.msg.global \/ r.to = t
  PROVE  Hearing'
  BY NobodyHears

\* A chat that begins has a number that no message before it has.
LEMMA NewsToAll ==
  ASSUME TypeOK, Numbered, NEW m, m.n = chats + 1
  PROVE  \A d \in Client : ~Heard(d, m)
<1> SUFFICES ASSUME NEW d \in Client, NEW k \in DOMAIN got[d], got[d][k] = m PROVE FALSE
  BY DEF Heard
<1>1. got[d][k].n <= chats
  BY DEF Numbered
<1>2. chats \in Int
  BY ChatAssumption DEF TypeOK
<1>3. QED BY <1>1, <1>2

\* A message is sent, or not, and the handler goes on; nobody hears of it that
\* the order is about.
LEMMA GoesOn ==
  ASSUME IInv, Hearing, NEW t \in Client, th[t].at \in {"select", "send"}, Moves(t, Sent(t)),
         got' = got, chats' = chats
  PROVE  Hearing'
<1>1. th[t] \in State /\ th[t].msg.from = t /\ th[t].msg.n <= chats /\ chats \in Nat /\ TypeOK
  <2>1. TypeOK /\ th[t].msg.from = t /\ th[t].msg.n <= chats
    BY DEF Hearing, Own, IInv
  <2>2. chats \in Nat
    BY <2>1, ChatAssumption DEF TypeOK
  <2>3. QED BY <2>1, <2>2, ThreadIsState
<1>2. CASE th[t].to = t
  <2>1. Sent(t).at = "serve" /\ Sent(t).msg.from = t /\ Sent(t).msg.n = 0
    BY <1>2 DEF Sent, Serving, NotFound
  <2>2. chats <= chats' /\ chats' \in Nat /\ 0 <= chats'
    BY <1>1
  <2>3. QED BY <1>1, <2>1, <2>2, NotInTheLoop
<1>3. CASE th[t].to # t /\ ~th[t].msg.global
  <2>1. /\ Sent(t).at = "select" /\ Sent(t).to = t /\ Sent(t).msg = th[t].msg
    BY <1>1, <1>3 DEF Sent, State
  <2>2. chats <= chats' /\ chats' \in Nat
    BY <1>1
  <2>3. QED BY <1>1, <2>1, <2>2, NotInTheLoop
<1>4. CASE th[t].to # t /\ th[t].msg.global
  <2> DEFINE r == Sent(t)
  <2>1. r.at = "loop" /\ r.msg = th[t].msg /\ r.next = th[t].next /\ InLoop(t)
    BY <1>1, <1>4 DEF Sent, State, InLoop
  <2>2. Turn(r) = th[t].next /\ Turn(th[t]) = th[t].next - 1 /\ th[t].next \in Int
    BY <1>1, <2>1, TableInClient DEF Turn, State
  <2>3. Turn(th[t]) <= Turn(r) /\ Turn(r) \in Int /\ Turn(th[t]) \in Int
    BY <2>2
  <2>4. chats <= chats' /\ chats' \in Nat
    BY <1>1
  <2> HIDE DEF r
  <2>5. Moves(t, r)
    BY DEF r
  <2>6. QED BY <1>1, <1>4, <2>1, <2>3, <2>4, <2>5, NobodyHears
<1>5. QED BY <1>2, <1>3, <1>4

\* A place that is not in the loop, with the message that the thread had.
LEMMA GoesTo ==
  ASSUME TypeOK, Hearing, NEW t \in Client, NEW at \in Place \ {"lock", "loop"}, NEW r,
         r.at = at, r.msg = th[t].msg, Moves(t, r), got' = got, chats' = chats,
         at \in {"select", "send"} => ~r.msg.global \/ r.to = t
  PROVE  Hearing'
<1>1. r.msg.from = t /\ r.msg.n <= chats'
  BY DEF Hearing, Own
<1>2. chats <= chats' /\ chats' \in Nat
  BY ChatAssumption DEF TypeOK
<1>3. QED BY <1>1, <1>2, NotInTheLoop

\* The order is inductive.
LEMMA HearingStep == IInv /\ Hearing /\ [Next]_vars => Hearing'
<1> SUFFICES ASSUME IInv, Hearing, [Next]_vars PROVE Hearing'
  OBVIOUS
<1>1. TypeOK /\ chats \in Nat /\ \A t \in Client : th[t] \in State
  <2>1. TypeOK
    BY DEF IInv
  <2>2. chats \in Nat
    BY <2>1, ChatAssumption DEF TypeOK
  <2>3. QED BY <2>1, <2>2, ThreadIsState
<1>2. \A t \in Client : th[t].msg.from = t /\ th[t].msg.n <= chats
  BY DEF Hearing, Own
<1>3. ASSUME NEW t \in Client, Lock(t) PROVE Hearing'
  <2> DEFINE r == [th[t] EXCEPT !.at = "loop"]
  <2>1. /\ th[t].at = "lock" /\ Moves(t, r) /\ got' = got /\ chats' = chats
        /\ r.at = "loop" /\ r.msg = th[t].msg /\ r.next = th[t].next
    BY <1>1, <1>3 DEF Lock, State
  <2> HIDE DEF r
  <2>2. r.msg.global /\ \A d \in Client : ~Heard(d, r.msg)
    BY <2>1 DEF Hearing, Unheard
  <2>3. Turn(r) \in Int /\ Turn(th[t]) \in Int
    <3>1. th[t].next \in Int
      BY <1>1, TableInClient DEF State
    <3>2. QED BY <2>1, <3>1 DEF Turn
  <2>4. chats <= chats' /\ chats' \in Nat
    BY <1>1, <2>1
  <2>5. QED BY <1>1, <1>2, <2>1, <2>2, <2>3, <2>4, NobodyHears
<1>4. ASSUME NEW t \in Client, Find(t) PROVE Hearing'
  <2> DEFINE c == Table[th[t].next]
             r == IF c # t /\ c \in registered
                  THEN [th[t] EXCEPT !.at = "select", !.to = c, !.next = @ + 1]
                  ELSE [th[t] EXCEPT !.next = @ + 1]
  <2>1. th[t].at = "loop" /\ Moves(t, r) /\ got' = got /\ chats' = chats /\ InLoop(t)
    BY <1>4 DEF Find, InLoop
  <2>2. r.msg = th[t].msg /\ r.next = th[t].next + 1 /\ (r.at = "loop" \/ (r.at = "select" /\ r.to = c))
    BY <1>1, <2>1 DEF State
  <2>3. th[t].next \in Int /\ th[t].next >= 1
    BY <1>1, TableInClient DEF State
  <2> HIDE DEF r
  <2>4. r.next > 1 /\ r.next - 1 = th[t].next /\ r.next \in Int
    BY <2>2, <2>3
  <2>5. Turn(r) \in Int /\ Turn(th[t]) \in Int /\ Turn(th[t]) <= Turn(r)
    BY <2>1, <2>2, <2>3 DEF Turn
  <2>6. th[t].msg.global
    BY <2>1 DEF Hearing, Reaching
  <2>7. chats <= chats' /\ chats' \in Nat
    BY <1>1, <2>1
  <2>8. r.at # "loop" => r.to = Table[r.next - 1]
    BY <2>2, <2>4
  <2> HIDE DEF c
  <2>9. QED BY <1>1, <1>2, <2>1, <2>2, <2>4, <2>5, <2>6, <2>7, <2>8, NobodyHears
<1>5. ASSUME NEW t \in Client, Unlock(t) PROVE Hearing'
  <2> DEFINE r == [th[t] EXCEPT !.at = "select", !.to = t]
  <2>1. Moves(t, r) /\ got' = got /\ chats' = chats /\ r.at = "select" /\ r.to = t /\ r.msg = th[t].msg
    BY <1>1, <1>5 DEF Unlock, State
  <2> HIDE DEF r
  <2>2. QED BY <1>1, <2>1, GoesTo DEF Place
<1>6. ASSUME NEW t \in Client, Writable(t) PROVE Hearing'
  <2> DEFINE r == [th[t] EXCEPT !.at = "send"]
  <2>1. /\ Moves(t, r) /\ got' = got /\ chats' = chats /\ th[t].at = "select"
        /\ r.at = "send" /\ r.to = th[t].to /\ r.msg = th[t].msg /\ r.next = th[t].next
    BY <1>1, <1>6 DEF Writable, State
  <2> HIDE DEF r
  <2>2. CASE ~InLoop(t)
    <3>1. ~r.msg.global \/ r.to = t
      BY <2>1, <2>2 DEF InLoop
    <3>2. QED BY <1>1, <2>1, <3>1, GoesTo DEF Place
  <2>3. CASE InLoop(t)
    <3>1. Turn(r) = th[t].next - 1 /\ Turn(th[t]) = th[t].next - 1 /\ th[t].next \in Int
      BY <1>1, <2>1, TableInClient DEF Turn, State
    <3>2. Turn(r) \in Int /\ Turn(th[t]) \in Int /\ Turn(th[t]) <= Turn(r)
      BY <3>1
    <3>3. r.msg.global /\ r.next > 1 /\ r.to = Table[r.next - 1]
      BY <2>1, <2>3 DEF Hearing, Reaching
    <3>4. chats <= chats' /\ chats' \in Nat
      BY <1>1, <2>1
    <3>5. QED BY <1>1, <1>2, <2>1, <2>3, <3>2, <3>3, <3>4, NobodyHears
  <2>4. QED BY <2>2, <2>3
<1>7. ASSUME NEW t \in Client, Fails(t) PROVE Hearing'
  BY <1>7, GoesOn DEF Fails
<1>8. ASSUME NEW t \in Client, Write(t) PROVE Hearing'
  <2>1. CASE ~th[t].msg.global
    BY <1>8, <2>1, GoesOn DEF Write
  <2>2. CASE th[t].msg.global /\ th[t].to = t
    BY <1>8, <2>2, SenderHears
  <2>3. CASE th[t].msg.global /\ th[t].to # t
    BY <1>8, <2>3, OtherHears
  <2>4. QED BY <2>1, <2>2, <2>3
<1>9. ASSUME NEW t \in Client, Unregister(t) PROVE Hearing'
  <2> DEFINE r == [th[t] EXCEPT !.at = "remove"]
  <2>1. Moves(t, r) /\ got' = got /\ chats' = chats /\ r.at = "remove" /\ r.msg = th[t].msg
    BY <1>1, <1>9 DEF Unregister, State
  <2> HIDE DEF r
  <2>2. QED BY <1>1, <2>1, GoesTo DEF Place
<1>10. ASSUME NEW t \in Client, RemovePlayer(t) PROVE Hearing'
  <2> DEFINE r == [th[t] EXCEPT !.at = "close"]
  <2>1. Moves(t, r) /\ got' = got /\ chats' = chats /\ r.at = "close" /\ r.msg = th[t].msg
    BY <1>1, <1>10 DEF RemovePlayer, State
  <2> HIDE DEF r
  <2>2. QED BY <1>1, <2>1, GoesTo DEF Place
<1>11. ASSUME NEW t \in Client, End(t) PROVE Hearing'
  <2> DEFINE r == [th[t] EXCEPT !.at = "ended"]
  <2>1. Moves(t, r) /\ got' = got /\ chats' = chats /\ r.at = "ended" /\ r.msg = th[t].msg
    BY <1>1, <1>11 DEF End, State
  <2> HIDE DEF r
  <2>2. QED BY <1>1, <2>1, GoesTo DEF Place
<1>12. ASSUME NEW t \in Client, Global(t) PROVE Hearing'
  <2> DEFINE m == [from |-> t, global |-> TRUE, n |-> chats']
             r == [th[t] EXCEPT !.at = "lock", !.next = 1, !.msg = m]
  <2>1. /\ Moves(t, r) /\ got' = got /\ chats' = chats + 1
        /\ r.at = "lock" /\ r.next = 1 /\ r.msg = m
    BY <1>1, <1>12 DEF Global, State
  <2>2. m.from = t /\ m.global /\ m.n = chats + 1
    BY <2>1
  <2> HIDE DEF m, r
  <2>3. \A d \in Client : ~Heard(d, m)
    BY <1>1, <2>2, NewsToAll DEF Hearing
  <2>4. chats <= chats' /\ chats' \in Nat /\ m.n <= chats'
    BY <1>1, <2>1, <2>2
  <2>5. QED BY <1>1, <2>1, <2>2, <2>3, <2>4, NobodyHears
<1>13. ASSUME NEW t \in Client, NEW c \in Client, Private(t, c) PROVE Hearing'
  <2> DEFINE r == IF c \in registered
                  THEN [th[t] EXCEPT !.at = "select", !.to = c,
                          !.msg = [from |-> t, global |-> FALSE, n |-> chats']]
                  ELSE [th[t] EXCEPT !.at = "select", !.to = t, !.msg = NotFound(t)]
  <2>1. Moves(t, r) /\ got' = got /\ chats' = chats + 1
    BY <1>13 DEF Private
  <2>2. r.at = "select" /\ r.msg.from = t /\ ~r.msg.global /\ (r.msg.n = chats' \/ r.msg.n = 0)
    BY <1>1 DEF NotFound, State
  <2> HIDE DEF r
  <2>3. chats <= chats' /\ chats' \in Nat /\ r.msg.n <= chats'
    BY <1>1, <2>1, <2>2
  <2>4. QED BY <1>1, <2>1, <2>2, <2>3, NotInTheLoop
<1>14. ASSUME th' = th, got' = got, chats' = chats PROVE Hearing'
  BY <1>14 DEF Hearing, Own, Numbered, Unheard, Reaching, Latest, SameOrder, Heard, Turn, InLoop
<1>15. ASSUME NEW c \in Client, HangUp(c) \/ Read(c) PROVE Hearing'
  BY <1>14, <1>15 DEF HangUp, Read
<1>16. CASE UNCHANGED vars
  BY <1>14, <1>16 DEF vars
<1>17. QED
  BY <1>3, <1>4, <1>5, <1>6, <1>7, <1>8, <1>9, <1>10, <1>11, <1>12, <1>13, <1>15, <1>16 DEF Next, Step

\* Initially nobody has said a word.
LEMMA HearingInit == Init => Hearing
<1> SUFFICES ASSUME Init PROVE Hearing
  OBVIOUS
<1>1. \A t \in Client : th[t].at = "serve" /\ th[t].msg.from = t /\ th[t].msg.n = 0 /\ got[t] = <<>>
  BY DEF Init, Serving, NotFound
<1>2. \A t \in Client : ~InLoop(t) /\ th[t].at # "lock" /\ DOMAIN got[t] = {}
  BY <1>1 DEF InLoop
<1>3. chats = 0
  BY DEF Init
<1>4. Own
  BY <1>1, <1>3 DEF Own
<1>5. Numbered /\ Unheard /\ Reaching /\ Latest /\ SameOrder
  BY <1>2 DEF Numbered, Unheard, Reaching, Latest, SameOrder
<1>6. QED BY <1>4, <1>5 DEF Hearing

\* Two clients hear the same global messages of others in the same order, for any
\* number of clients and messages, whoever leaves and whoever does not read.
THEOREM GlobalsInOrder == Spec => []SameOrder
<1>1. Init => IInv /\ Hearing
  BY InitHolds, HearingInit
<1>2. IInv /\ Hearing /\ [Next]_vars => (IInv /\ Hearing)'
  BY InvStep, HearingStep
<1>3. Hearing => SameOrder
  BY DEF Hearing
<1>4. QED BY <1>1, <1>2, <1>3, PTL DEF Spec

-----------------------------------------------------------------------------
(* How long the lock is held: the safety that LockIsFreed rests on.         *)

\* mm->lock is not left behind: whoever holds it is in the loop.
HolderInLoop == lock # Nobody => InLoop(lock)

\* What a thread in the loop has ahead of it, at most: for each client of the table
\* that it has not come to a look-up, a select() and a send().
Left(r)  == Len(Table) + 1 - r.next
Doing(r) == IF r.at = "select" THEN 2 ELSE IF r.at = "send" THEN 1 ELSE 0
Ahead(t) == 3 * Left(th[t]) + Doing(th[t])

\* Every step of the holder brings it nearer to the end of the loop or releases the
\* lock, and no other step takes the lock from it or sends it back.
Nearer == lock' = Nobody \/ (lock' = lock /\ Ahead(lock)' < Ahead(lock))
HolderAdvances ==
  lock # Nobody =>
    /\ Step(lock) => Nearer
    /\ Nearer \/ UNCHANGED <<lock, th[lock]>>

\* It is a number of steps.
LEMMA AheadIsNatural ==
  ASSUME TypeOK, NEW t \in Client
  PROVE  Ahead(t) \in Nat
<1>1. th[t].next \in 1 .. Len(Table) + 1 /\ Len(Table) \in Nat
  BY ThreadIsState, TableInClient DEF State
<1>2. Left(th[t]) \in Nat
  BY <1>1 DEF Left
<1>3. Doing(th[t]) \in Nat
  BY DEF Doing
<1>4. QED BY <1>2, <1>3 DEF Ahead

\* A step in the loop that does not end it.
LEMMA LoopStep ==
  ASSUME IInv, Hearing, NEW t \in Client, InLoop(t), Find(t) \/ Writable(t) \/ Fails(t) \/ Write(t)
  PROVE  lock' = lock /\ InLoop(t)' /\ Ahead(t)' < Ahead(t)
<1> DEFINE r == th[t]
           k == Left(r)
<1>1. r \in State /\ r.msg.global /\ TypeOK
  BY ThreadIsState DEF IInv, Hearing, Reaching
<1>2. r.next \in 1 .. Len(Table) + 1 /\ Len(Table) \in Nat
  BY <1>1, TableInClient DEF State
<1>3. k \in Int
  BY <1>2 DEF Left
<1> HIDE DEF k
<1>4. Ahead(t) = 3 * k + Doing(r)
  BY DEF Ahead, k
<1>5. CASE Find(t)
  <2> DEFINE c == Table[r.next]
             s == IF c # t /\ c \in registered
                  THEN [r EXCEPT !.at = "select", !.to = c, !.next = @ + 1]
                  ELSE [r EXCEPT !.next = @ + 1]
  <2>1. Moves(t, s) /\ lock' = lock /\ r.at = "loop"
    BY <1>5 DEF Find
  <2>2. /\ s.next = r.next + 1 /\ s.msg = r.msg
        /\ s.at = "loop" \/ (s.at = "select" /\ s.to # t)
    BY <1>1, <2>1 DEF State
  <2> HIDE DEF c, s
  <2>3. th'[t] = s
    BY <1>1, <2>1, Elsewhere
  <2>4. InLoop(t)'
    BY <1>1, <2>2, <2>3 DEF InLoop
  <2>5. Left(s) = k - 1
    BY <1>2, <2>2 DEF Left, k
  <2>6. Ahead(t)' = 3 * (k - 1) + Doing(s)
    BY <2>3, <2>5 DEF Ahead
  <2>7. Doing(r) = 0 /\ Doing(s) \in 0 .. 2
    BY <2>1 DEF Doing
  <2>8. Ahead(t)' < Ahead(t)
    BY <1>3, <1>4, <2>6, <2>7
  <2>9. QED BY <2>1, <2>4, <2>8
<1>6. CASE Writable(t)
  <2> DEFINE s == [r EXCEPT !.at = "send"]
  <2>1. Moves(t, s) /\ lock' = lock /\ r.at = "select"
    BY <1>6 DEF Writable
  <2>2. s.at = "send" /\ s.next = r.next /\ s.msg = r.msg /\ s.to = r.to
    BY <1>1 DEF State
  <2> HIDE DEF s
  <2>3. th'[t] = s
    BY <1>1, <2>1, Elsewhere
  <2>4. InLoop(t)'
    BY <2>1, <2>2, <2>3 DEF InLoop
  <2>5. Doing(r) = 2 /\ Doing(s) = 1 /\ Left(s) = k
    BY <2>1, <2>2 DEF Doing, Left, k
  <2>6. Ahead(t)' = 3 * k + Doing(s)
    BY <2>3, <2>5 DEF Ahead
  <2>7. Ahead(t)' < Ahead(t)
    BY <1>3, <1>4, <2>5, <2>6
  <2>8. QED BY <2>1, <2>4, <2>7
<1>7. CASE Fails(t) \/ Write(t)
  <2> DEFINE s == [r EXCEPT !.at = "loop"]
  <2>1. r.at \in {"select", "send"} /\ r.to # t /\ lock' = lock /\ Moves(t, Sent(t))
    BY <1>7 DEF Fails, Write, InLoop
  <2>2. Sent(t) = s
    BY <1>1, <2>1 DEF Sent
  <2>3. s.at = "loop" /\ s.next = r.next
    BY <1>1 DEF State
  <2> HIDE DEF s
  <2>4. th'[t] = s
    BY <1>1, <2>1, <2>2, Elsewhere
  <2>5. InLoop(t)'
    BY <2>3, <2>4 DEF InLoop
  <2>6. Doing(r) \in {1, 2} /\ Doing(s) = 0 /\ Left(s) = k
    BY <2>1, <2>3 DEF Doing, Left, k
  <2>7. Ahead(t)' = 3 * k + Doing(s)
    BY <2>4, <2>6 DEF Ahead
  <2>8. Ahead(t)' < Ahead(t)
    BY <1>3, <1>4, <2>6, <2>7
  <2>9. QED BY <2>1, <2>5, <2>8
<1>8. QED BY <1>5, <1>6, <1>7

\* A step of the holder.
LEMMA OwnStep ==
  ASSUME IInv, Hearing, HolderInLoop, lock # Nobody, Step(lock)
  PROVE  Nearer /\ HolderInLoop'
<1>1. lock \in Client /\ InLoop(lock)
  BY DEF IInv, TypeOK, HolderInLoop
<1>2. CASE Unlock(lock)
  BY <1>2 DEF Unlock, Nearer, HolderInLoop
<1>3. CASE Find(lock) \/ Writable(lock) \/ Fails(lock) \/ Write(lock)
  <2> DEFINE t == lock
  <2>1. lock' = t /\ InLoop(t)' /\ Ahead(t)' < Ahead(t)
    BY <1>1, <1>3, LoopStep
  <2>2. QED BY <2>1 DEF Nearer, HolderInLoop
<1>4. ~Lock(lock) /\ ~Unregister(lock) /\ ~RemovePlayer(lock) /\ ~End(lock)
  BY <1>1 DEF InLoop, Lock, Unregister, RemovePlayer, End
<1>5. QED BY <1>2, <1>3, <1>4 DEF Step

\* One step of any thread or client.
LEMMA HolderStep ==
  ASSUME IInv, Hearing, HolderInLoop, [Next]_vars
  PROVE  HolderInLoop' /\ HolderAdvances
<1>1. TypeOK /\ lock \in Client \union {Nobody} /\ Nobody \notin Client
  BY ChatAssumption DEF IInv, TypeOK
<1>2. Step(lock) /\ lock # Nobody => Nearer /\ HolderInLoop'
  BY OwnStep
<1>3. CASE UNCHANGED <<lock, th>>
  BY <1>2, <1>3 DEF HolderInLoop, HolderAdvances, InLoop
<1>4. ASSUME NEW t \in Client, Lock(t)
      PROVE  HolderInLoop' /\ HolderAdvances
  <2>1. lock = Nobody /\ lock' = t /\ Moves(t, [th[t] EXCEPT !.at = "loop"])
    BY <1>4 DEF Lock
  <2>2. th'[t].at = "loop"
    BY <1>1, <2>1, Elsewhere, ThreadIsState DEF State
  <2>3. QED BY <2>1, <2>2 DEF HolderInLoop, HolderAdvances, InLoop
<1>5. ASSUME NEW t \in Client, NEW r, Moves(t, r), lock' = lock, lock # t
      PROVE  HolderInLoop' /\ HolderAdvances
  <2>1. \A u \in Client \ {t} : th'[u] = th[u]
    BY <1>1, <1>5, Elsewhere
  <2>2. lock # Nobody => th'[lock] = th[lock]
    BY <1>1, <1>5, <2>1
  <2>3. HolderInLoop'
    BY <1>5, <2>2 DEF HolderInLoop, InLoop
  <2>4. QED BY <1>2, <1>5, <2>2, <2>3 DEF HolderAdvances
<1>6. ASSUME NEW t \in Client, NEW r, Moves(t, r), lock' = lock, th[t].at = "serve"
      PROVE  HolderInLoop' /\ HolderAdvances
  <2>1. ~InLoop(t)
    BY <1>6 DEF InLoop
  <2>2. lock # t
    BY <1>1, <2>1 DEF HolderInLoop
  <2>3. QED BY <1>5, <1>6, <2>2
<1>7. ASSUME NEW t \in Client, Step(t)
      PROVE  HolderInLoop' /\ HolderAdvances
  <2>1. CASE lock = t
    BY <1>1, <1>2, <1>7, <2>1 DEF HolderAdvances
  <2>2. CASE lock # t /\ ~Lock(t)
    <3>1. ~Unlock(t)
      BY <2>2 DEF Unlock, IInv, LockIsHeld, InLoop
    <3>2. lock' = lock /\ \E r : Moves(t, r)
      <4>1. CASE Find(t)
        BY <4>1 DEF Find
      <4>2. CASE Writable(t) \/ Fails(t) \/ Write(t)
        BY <4>2 DEF Writable, Fails, Write
      <4>3. CASE Unregister(t) \/ RemovePlayer(t) \/ End(t)
        BY <4>3 DEF Unregister, RemovePlayer, End
      <4>4. QED BY <1>7, <2>2, <3>1, <4>1, <4>2, <4>3 DEF Step
    <3>3. QED BY <1>5, <2>2, <3>2
  <2>3. QED BY <1>4, <2>1, <2>2
<1>8. ASSUME NEW t \in Client, Global(t)
      PROVE  HolderInLoop' /\ HolderAdvances
  <2>1. lock' = lock /\ th[t].at = "serve" /\ \E r : Moves(t, r)
    BY <1>8 DEF Global
  <2>2. QED BY <1>6, <2>1
<1>9. ASSUME NEW t \in Client, NEW c \in Client, Private(t, c)
      PROVE  HolderInLoop' /\ HolderAdvances
  <2>1. lock' = lock /\ th[t].at = "serve" /\ \E r : Moves(t, r)
    BY <1>9 DEF Private
  <2>2. QED BY <1>6, <2>1
<1>10. CASE \E t \in Client : Read(t) \/ HangUp(t)
  BY <1>3, <1>10 DEF Read, HangUp
<1>11. CASE UNCHANGED vars
  BY <1>3, <1>11 DEF vars
<1>12. QED BY <1>7, <1>8, <1>9, <1>10, <1>11 DEF Next

\* handle_send_chat and session_send_message: mm->lock is held by a thread that is
\* in the loop, and for three steps of that thread at most for each player, whatever
\* the other threads and the clients do meanwhile.  LockIsFreed adds that the holder
\* is scheduled, and has no step only where Stuck holds.
THEOREM LockIsHeldForALoop ==
  Spec => [](HolderInLoop /\ \A t \in Client : Ahead(t) \in Nat) /\ [][HolderAdvances]_vars
<1> DEFINE Inv == IInv /\ Hearing /\ HolderInLoop
           Safe == HolderInLoop /\ \A t \in Client : Ahead(t) \in Nat
<1>1. Init => Inv
  BY InitHolds, HearingInit DEF Init, HolderInLoop
<1>2. Inv /\ [Next]_vars => Inv' /\ [HolderAdvances]_vars
  BY InvStep, HearingStep, HolderStep
<1>3. Inv => Safe
  BY AheadIsNatural DEF IInv
<1> HIDE DEF Inv, Safe
<1>4. Spec => []Safe /\ [][HolderAdvances]_vars
  BY <1>1, <1>2, <1>3, PTL DEF Spec
<1>5. QED BY <1>4 DEF Safe
=============================================================================
