--------------------------------- MODULE Chat ----------------------------------
(***************************************************************************)
(* Chat messages, as the threads of the clients send them to the sessions  *)
(* of one another: handle_send_chat of src/src/server/server_handlers.c,   *)
(* session_send_message and connection_send_timeout of src/src/network,    *)
(* and the end of client_handler in server_connection.c.                   *)
(*                                                                         *)
(* The session of a client is a variable of its thread.  Other threads     *)
(* find it in the registry and use it when the registry is unlocked again. *)
(* A global chat does so under the lock of matchmaking, which the cleanup  *)
(* of a thread takes in passing, between leaving the registry and its end. *)
(*                                                                         *)
(* lock        the thread that holds mm->lock, or Nobody                   *)
(* registered  the clients whose session is in the registry                *)
(* th[t]       where the thread of client t is: what it sends, and to      *)
(*             whom, and how far a global chat has come                    *)
(* up          the clients whose connection is up                          *)
(* unread[c]   messages in the connection to c, not read yet               *)
(* got[c]      global messages that went into the connection to c (history)*)
(* chats       chat messages so far, the last of which has this number     *)
(***************************************************************************)
EXTENDS Integers, Sequences

CONSTANTS
  Table,      \* the clients, in their order in the table of players
  Nobody,
  Room,       \* messages that the connection to a client holds unread
  Talker,     \* bound of the model: clients who chat
  Leaver,     \* bound of the model: clients who leave
  MaxChats    \* bound of the model: chat messages

Client == {Table[i] : i \in DOMAIN Table}

ASSUME ChatAssumption ==
  /\ Table \in Seq(Client) /\ Nobody \notin Client
  /\ \A i, j \in DOMAIN Table : Table[i] = Table[j] => i = j
  /\ Room \in Nat \ {0} /\ MaxChats \in Nat

VARIABLES lock, registered, th, up, unread, got, chats
vars == <<lock, registered, th, up, unread, got, chats>>

Message == [from : Client, global : BOOLEAN, n : 0 .. MaxChats]
\* What the sender is told of a recipient who is not there; it has no number.
NotFound(t) == [from |-> t, global |-> FALSE, n |-> 0]

\* A thread that serves, and has nothing to send.
Serving(t) == [at |-> "serve", msg |-> NotFound(t), to |-> t, next |-> 1]

Init ==
  /\ lock = Nobody /\ registered = Client /\ up = Client
  /\ th = [t \in Client |-> Serving(t)]
  /\ unread = [c \in Client |-> 0] /\ got = [c \in Client |-> <<>>]
  /\ chats = 0

-----------------------------------------------------------------------------
(* handle_send_chat.                                                        *)

Moves(t, r) == th' = [th EXCEPT ![t] = r]

\* A private chat: the recipient is found, or the sender is told that it is not.
Private(t, c) ==
  /\ th[t].at = "serve" /\ t \in up /\ chats < MaxChats
  /\ chats' = chats + 1
  /\ Moves(t, IF c \in registered
              THEN [th[t] EXCEPT !.at = "select", !.to = c,
                      !.msg = [from |-> t, global |-> FALSE, n |-> chats']]
              ELSE [th[t] EXCEPT !.at = "select", !.to = t, !.msg = NotFound(t)])
  /\ UNCHANGED <<lock, registered, up, unread, got>>

Global(t) ==
  /\ th[t].at = "serve" /\ t \in up /\ chats < MaxChats
  /\ chats' = chats + 1
  /\ Moves(t, [th[t] EXCEPT !.at = "lock", !.next = 1,
                 !.msg = [from |-> t, global |-> TRUE, n |-> chats']])
  /\ UNCHANGED <<lock, registered, up, unread, got>>

\* Mutant: the loop over the players takes no lock.
LockNothing(t) ==
  /\ th[t].at = "lock"
  /\ Moves(t, [th[t] EXCEPT !.at = "loop"])
  /\ UNCHANGED <<lock, registered, up, unread, got, chats>>

Lock(t) ==
  /\ th[t].at = "lock" /\ lock = Nobody
  /\ lock' = t
  /\ Moves(t, [th[t] EXCEPT !.at = "loop"])
  /\ UNCHANGED <<registered, up, unread, got, chats>>

\* The next player of the table, if it is another one and has a session.
Find(t) ==
  /\ th[t].at = "loop" /\ th[t].next <= Len(Table)
  /\ LET c == Table[th[t].next]
     IN  Moves(t, IF c # t /\ c \in registered
                  THEN [th[t] EXCEPT !.at = "select", !.to = c, !.next = @ + 1]
                  ELSE [th[t] EXCEPT !.next = @ + 1])
  /\ UNCHANGED <<lock, registered, up, unread, got, chats>>

\* After the last one, and with the lock released, the sender has its own message.
Unlock(t) ==
  /\ th[t].at = "loop" /\ th[t].next > Len(Table)
  /\ lock' = Nobody
  /\ Moves(t, [th[t] EXCEPT !.at = "select", !.to = t])
  /\ UNCHANGED <<registered, up, unread, got, chats>>

-----------------------------------------------------------------------------
(* session_send_message.                                                    *)

\* Where the handler goes on after a message, which was sent or not: nobody
\* looks at what session_send_message returns.  The sender has it last.
Sent(t) ==
  LET r == th[t]
  IN  IF r.to = t THEN Serving(t)
      ELSE IF r.msg.global THEN [r EXCEPT !.at = "loop"]
      ELSE [r EXCEPT !.at = "select", !.to = t]

\* select() finds room for a message.
Writable(t) ==
  /\ th[t].at = "select" /\ th[t].to \in up /\ unread[th[t].to] < Room
  /\ Moves(t, [th[t] EXCEPT !.at = "send"])
  /\ UNCHANGED <<lock, registered, up, unread, got, chats>>

\* Mutant: select() waits for as long as it takes.
FailsOnly(t) ==
  /\ th[t].at \in {"select", "send"} /\ th[t].to \notin up
  /\ Moves(t, Sent(t))
  /\ UNCHANGED <<lock, registered, up, unread, got, chats>>

\* There is none in five seconds, or the connection is down: the message is lost.
Fails(t) ==
  /\ \/ th[t].at = "select" /\ unread[th[t].to] = Room
     \/ th[t].at \in {"select", "send"} /\ th[t].to \notin up
  /\ Moves(t, Sent(t))
  /\ UNCHANGED <<lock, registered, up, unread, got, chats>>

\* send() blocks until there is room, which another thread may have taken.
Write(t) ==
  LET c == th[t].to
  IN  /\ th[t].at = "send" /\ c \in up /\ unread[c] < Room
      /\ unread' = [unread EXCEPT ![c] = @ + 1]
      /\ got' = IF th[t].msg.global THEN [got EXCEPT ![c] = Append(@, th[t].msg)] ELSE got
      /\ Moves(t, Sent(t))
      /\ UNCHANGED <<lock, registered, up, chats>>

-----------------------------------------------------------------------------
(* The end of a thread, and the client.                                     *)

\* The client is gone, which its thread finds when it waits for a request.
HangUp(c) ==
  /\ c \in up /\ up' = up \ {c}
  /\ unread' = [unread EXCEPT ![c] = 0]
  /\ UNCHANGED <<lock, registered, th, got, chats>>

\* session_registry_remove.
Unregister(t) ==
  /\ th[t].at = "serve" /\ t \notin up
  /\ registered' = registered \ {t}
  /\ Moves(t, [th[t] EXCEPT !.at = "remove"])
  /\ UNCHANGED <<lock, up, unread, got, chats>>

\* Mutant: matchmaking does not lock its table.
RemoveUnlocked(t) ==
  /\ th[t].at = "remove"
  /\ Moves(t, [th[t] EXCEPT !.at = "close"])
  /\ UNCHANGED <<lock, registered, up, unread, got, chats>>

\* matchmaking_remove_player takes the lock and releases it.
RemovePlayer(t) ==
  /\ th[t].at = "remove" /\ lock = Nobody
  /\ Moves(t, [th[t] EXCEPT !.at = "close"])
  /\ UNCHANGED <<lock, registered, up, unread, got, chats>>

\* session_close; the thread ends, and its session with it.
End(t) ==
  /\ th[t].at = "close"
  /\ Moves(t, [th[t] EXCEPT !.at = "ended"])
  /\ UNCHANGED <<lock, registered, up, unread, got, chats>>

\* The listener of the client reads a message.
Read(c) ==
  /\ c \in up /\ unread[c] > 0
  /\ unread' = [unread EXCEPT ![c] = @ - 1]
  /\ UNCHANGED <<lock, registered, th, up, got, chats>>

-----------------------------------------------------------------------------

\* What a thread does of its own; its client asks for the chats.
Step(t) ==
  \/ Lock(t) \/ Find(t) \/ Unlock(t) \/ Writable(t) \/ Fails(t) \/ Write(t)
  \/ Unregister(t) \/ RemovePlayer(t) \/ End(t)

Next ==
  \E t \in Client :
    \/ Step(t) \/ Read(t) \/ (t \in Leaver /\ HangUp(t))
    \/ t \in Talker /\ (Global(t) \/ \E c \in Client \ {t} : Private(t, c))

\* The threads are scheduled; clients need neither chat nor read.
Spec == Init /\ [][Next]_vars /\ \A t \in Client : WF_vars(Step(t))

-----------------------------------------------------------------------------
(* Properties.                                                              *)

\* The threads between the lock of handle_send_chat and its release.
InLoop(t) ==
  \/ th[t].at = "loop"
  \/ th[t].at \in {"select", "send"} /\ th[t].msg.global /\ th[t].to # t

\* The type invariant.
TypeOK ==
  /\ lock \in Client \union {Nobody}
  /\ registered \subseteq Client /\ up \subseteq Client
  /\ th \in [Client -> [at   : {"serve", "lock", "loop", "select", "send", "remove", "close", "ended"},
                        msg  : Message, to : Client, next : 1 .. Len(Table) + 1]]
  /\ unread \in [Client -> 0 .. Room]
  /\ got \in [Client -> Seq(Message)]
  /\ chats \in 0 .. MaxChats

\* A global chat never sends to the session of a thread that has ended, though
\* the registry is unlocked while it sends: the cleanup of that thread waits for
\* mm->lock after it has left the registry and before it ends.
HeldSessionsLive ==
  \A t \in Client : InLoop(t) /\ th[t].at # "loop" => th[th[t].to].at \notin {"close", "ended"}

\* Two clients hear the same global messages of others in the same order, also
\* when one of them leaves, or misses what comes while it does not read.  The
\* sender hears its own message when the lock is released, in any order.
SameOrder ==
  \A c, d \in Client : \A i, j \in DOMAIN got[c] : \A k, l \in DOMAIN got[d] :
    /\ i < j
    /\ got[c][i].from \notin {c, d} /\ got[c][j].from \notin {c, d}
    /\ got[c][i] = got[d][l] /\ got[c][j] = got[d][k]
    => l < k

\* A thread in send() finds no room, because another one was faster.
Stuck == \E t \in Client : th[t].at = "send" /\ unread[th[t].to] = Room /\ th[t].to \in up

\* session.c: "Use send with timeout to prevent freezing".  Whoever does not read,
\* the lock of matchmaking is released again, unless two threads take the room of
\* one message for their own.
LockIsFreed ==
  (lock # Nobody) ~> (lock = Nobody \/ Stuck)
=============================================================================
