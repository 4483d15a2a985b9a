----------------------------- MODULE ClientLink -------------------------------
(***************************************************************************)
(* What a client receives, as its two threads read it from one socket:     *)
(* session.c and connection_tcp.c under src/src/network, and the listener  *)
(* of src/src/client/client_notifications.c.  PlayMode.tla and Menu.tla    *)
(* add the main thread and what the server sends.                          *)
(*                                                                         *)
(* A message is a header and, for most types, a payload.  The server sends *)
(* both at once, but a thread receives them by one read() after another,   *)
(* with no lock.  A part of the stream is as long as a header, and a       *)
(* payload has PayloadParts of them.                                       *)
(*                                                                         *)
(* wire      the parts that are sent and not read: part 0 is the header    *)
(* rx[t]     where thread t is in session_recv_message_timeout, the        *)
(*           header it has, how many parts it lacks, and what it returns   *)
(* listener  where notification_listener is, its errors and its retries    *)
(* torn      a thread has read parts of another thread's message (history) *)
(*                                                                         *)
(* The connection stays up: a broken one ends the client.                  *)
(***************************************************************************)
EXTENDS Integers, Sequences

CONSTANTS
  PayloadParts,   \* parts of a payload
  MaxErrors,      \* MAX_CONSECUTIVE_ERRORS of the listener, 3 in the program
  MaxRecvRetries, \* MAX_RECV_RETRIES of the listener, 3 in the program
  Nothing,        \* what a message without data carries
  Garbage         \* what a payload of parts of two messages carries

ASSUME LinkAssumption ==
  PayloadParts \in Nat \ {0} /\ MaxErrors \in Nat \ {0} /\ MaxRecvRetries \in Nat \ {0}

VARIABLES wire, rx, listener, torn
linkVars == <<wire, rx, listener, torn>>

Thread == {"main", "listener"}

\* IS_NOTIFICATION_MESSAGE.
NotificationType ==
  {"challenge_received", "game_started", "move_result", "spectator_joined", "game_over",
   "chat_message", "player_stats"}

Message(type, data) == [type |-> type, data |-> data]
NoMessage == Message("none", Nothing)
\* A message whose header was read from the middle of a payload has a type
\* that nobody sends.
Junk == Message("junk", Nothing)

\* An acknowledgement is a header alone.
Payload(m) == IF m.type \in {"ack", "junk"} THEN 0 ELSE PayloadParts
Parts(m)   == [i \in 1 .. 1 + Payload(m) |-> [of |-> m, part |-> i - 1]]

\* Mutant: a message is written before those that wait to be read.
SentFirst(m) == Parts(m) \o wire

\* serialize_message and connection_send_timeout, by a thread of the server.
Sent(m) == wire \o Parts(m)

Heads == {wire[i].of : i \in {j \in DOMAIN wire : wire[j].part = 0}}

LinkInit ==
  /\ wire = <<>>
  /\ rx = [t \in Thread |-> [at |-> "off", msg |-> NoMessage, left |-> 0, err |-> "none"]]
  /\ listener = [at |-> "peek", errors |-> 0, retries |-> 0]
  /\ torn = FALSE

-----------------------------------------------------------------------------
(* session_recv_message_timeout.                                            *)

\* Called, and returned to the caller with an error or a message.
Receiving(t)    == rx[t].at = "select"
Calls(t)        == [rx EXCEPT ![t] = [@ EXCEPT !.at = "select", !.msg = NoMessage, !.err = "none"]]
Returns(t, err) == [rx[t] EXCEPT !.at = "done", !.left = 0, !.err = err]
Returned(t)     == rx[t].at = "done"
Consumed(t)     == [rx EXCEPT ![t].at = "off"]

\* select() finds data, which need not be there when the thread reads.
Readable(t) ==
  /\ Receiving(t) /\ wire # <<>>
  /\ rx' = [rx EXCEPT ![t].at = "header"]
  /\ UNCHANGED <<wire, listener, torn>>

\* Mutant: what is left of the time for the header is the time for the payload.
TimesOutInPayload(t) ==
  /\ \/ Receiving(t) /\ wire = <<>>
     \/ rx[t].at = "payload" /\ rx[t].left = Payload(rx[t].msg)
  /\ rx' = [rx EXCEPT ![t] = Returns(t, "timeout")]
  /\ UNCHANGED <<wire, listener, torn>>

\* Nothing came in time: for a header, or for the payload of one that was read.
TimesOut(t) ==
  /\ wire = <<>>
  /\ \/ Receiving(t)
     \/ rx[t].at = "payload" /\ rx[t].left = Payload(rx[t].msg)
  /\ rx' = [rx EXCEPT ![t] = Returns(t, "timeout")]
  /\ UNCHANGED <<wire, listener, torn>>

\* read() of a header blocks until there is one.  Bytes of a payload in its
\* place give a length too long, or a message without a payload.
ReadHeader(t) ==
  /\ rx[t].at = "header" /\ wire # <<>>
  /\ wire' = Tail(wire)
  /\ LET m == Head(wire).of
     IN  IF Head(wire).part = 0
         THEN /\ rx' = [rx EXCEPT ![t] =
                   IF Payload(m) = 0 THEN [Returns(t, "success") EXCEPT !.msg = m]
                   ELSE [@ EXCEPT !.at = "payload", !.msg = m, !.left = Payload(m)]]
              /\ UNCHANGED torn
         ELSE /\ \E err \in {"success", "serialization"} :
                   rx' = [rx EXCEPT ![t] = [Returns(t, err) EXCEPT !.msg = Junk]]
              /\ torn' = TRUE
  /\ UNCHANGED listener

\* read() of a payload takes what there is, whose ever it is, until it has all.
ReadPayload(t) ==
  LET n    == IF rx[t].left < Len(wire) THEN rx[t].left ELSE Len(wire)
      from == Payload(rx[t].msg) - rx[t].left
      own  == \A i \in 1 .. n : wire[i] = [of |-> rx[t].msg, part |-> from + i]
  IN  /\ rx[t].at = "payload" /\ wire # <<>>
      /\ wire' = SubSeq(wire, n + 1, Len(wire))
      /\ LET r == IF n = rx[t].left THEN Returns(t, "success")
                  ELSE [rx[t] EXCEPT !.left = @ - n]
         IN  rx' = [rx EXCEPT ![t] = IF own THEN r ELSE [r EXCEPT !.msg.data = Garbage]]
      /\ torn' = (torn \/ ~own)
      /\ UNCHANGED listener

Receive(t) == Readable(t) \/ TimesOut(t) \/ ReadHeader(t) \/ ReadPayload(t)

-----------------------------------------------------------------------------
(* notification_listener.                                                   *)

\* Mutant: whatever is next is received.
PeekTakesAll ==
  /\ listener.at = "peek" /\ wire # <<>>
  /\ Head(wire).part = 0
  /\ rx' = Calls("listener")
  /\ listener' = [at |-> "recv", errors |-> 0, retries |-> 0]
  /\ UNCHANGED <<wire, torn>>

\* session_peek_message_type: a notification is received, anything else is left
\* for the main thread, and a header that makes no sense is an error, the last
\* of which ends the thread.
Peek ==
  /\ listener.at = "peek" /\ wire # <<>>
  /\ \/ /\ Head(wire).part = 0 /\ Head(wire).of.type \in NotificationType
        /\ rx' = Calls("listener")
        /\ listener' = [at |-> "recv", errors |-> 0, retries |-> 0]
     \/ /\ Head(wire).part = 0 => Head(wire).of.type \notin NotificationType
        /\ listener' = [listener EXCEPT !.errors = 0]
        /\ UNCHANGED rx
     \/ /\ Head(wire).part # 0
        /\ listener' = [listener EXCEPT !.errors = @ + 1,
                          !.at = IF listener.errors + 1 = MaxErrors THEN "ended" ELSE @]
        /\ UNCHANGED rx
  /\ UNCHANGED <<wire, torn>>

PeekTimesOut ==
  /\ listener.at = "peek" /\ wire = <<>>
  /\ listener' = [listener EXCEPT !.errors = 0]
  /\ UNCHANGED <<wire, rx, torn>>

\* Mutant: one retry too many.
RetryOnceMore ==
  /\ listener.at = "recv" /\ Returned("listener")
  /\ IF rx["listener"].err = "timeout" /\ listener.retries < MaxRecvRetries
     THEN /\ listener' = [listener EXCEPT !.retries = @ + 1]
          /\ rx' = Calls("listener")
     ELSE /\ rx["listener"].err # "success"
          /\ listener' = [at |-> "peek", errors |-> 0, retries |-> 0]
          /\ rx' = Consumed("listener")
  /\ UNCHANGED <<wire, torn>>

\* The notification may be gone by now, or the main thread may have it.
RetryOrGiveUp ==
  /\ listener.at = "recv" /\ Returned("listener")
  /\ IF rx["listener"].err = "timeout" /\ listener.retries + 1 < MaxRecvRetries
     THEN /\ listener' = [listener EXCEPT !.retries = @ + 1]
          /\ rx' = Calls("listener")
     ELSE /\ rx["listener"].err # "success"
          /\ listener' = [at |-> "peek", errors |-> 0, retries |-> 0]
          /\ rx' = Consumed("listener")
  /\ UNCHANGED <<wire, torn>>

\* handle_notification_message is called with whatever was received, a
\* notification or not: the caller of Handles(m) says what it does with it.
Handles(m) ==
  /\ listener.at = "recv" /\ Returned("listener") /\ rx["listener"].err = "success"
  /\ m = rx["listener"].msg
  /\ listener' = [at |-> "peek", errors |-> 0, retries |-> 0]
  /\ rx' = Consumed("listener")
  /\ UNCHANGED <<wire, torn>>

Listen == Peek \/ PeekTimesOut \/ RetryOrGiveUp

\* The parts of the type invariants of the modules that extend this one.
LinkTypeOK ==
  /\ \A i \in DOMAIN wire : wire[i].part \in 0 .. Payload(wire[i].of)
  /\ \A t \in Thread :
       /\ rx[t].at \in {"off", "select", "header", "payload", "done"}
       /\ rx[t].err \in {"none", "success", "timeout", "serialization"}
       /\ rx[t].left \in 0 .. PayloadParts
       /\ rx[t].at = "payload" => rx[t].left > 0
  /\ listener.at \in {"peek", "recv", "ended"}
  /\ listener.at = "recv" <=> rx["listener"].at # "off"
  /\ listener.errors \in 0 .. MaxErrors /\ listener.retries \in 0 .. MaxRecvRetries - 1

\* The stream goes out of step only when both threads are reading a message at
\* once: one that reads alone has all of it, whatever it does with it after.
OnlyReadersTear ==
  [][torn' /\ ~torn => \A t \in Thread : rx[t].at \in {"header", "payload"}]_linkVars
=============================================================================
