---------------------------- MODULE PlayModeProofs ----------------------------
(***************************************************************************)
(* Theorems about PlayMode.tla, for any length of a message, any number of *)
(* moves and of requests and any number of retries: its types, that no     *)
(* answer is left over, that no wake-up is lost, that moves are sent in    *)
(* turn and that boards are shown in their order.                          *)
(*                                                                         *)
(* The argument has three layers.  Framing: until a thread has read parts  *)
(* of another's message, the stream is the rest of the one message that is *)
(* being read, and whole messages.  Flow: the answer of the one request    *)
(* that is waited for is in one place at most.  Freshness: a board on its  *)
(* way or shown is the board of the game, or the notice of the move since  *)
(* is on its way as well.                                                  *)
(* The order of the boards needs the first layer only: they do not         *)
(* overtake each other between the game and the screen.                    *)
(* The game of the server, last, is the game of TurnGame.tla.              *)
(***************************************************************************)
EXTENDS PlayMode, FiniteSetTheorems, SequenceTheorems, TLAPS

Waiting == {"WAITING_BOARD", "listing"}
Place   == {"menu", "INIT", "IDLE", "MOVE_SENT", "GAME_OVER"} \union Waiting
Request == {"get_board", "list", "play_move", "challenge"}

\* What the server sends, and what a thread may take for a message.
WireMessage == [type : {"board_state", "my_game_list"}, data : Board]
                 \union [type : {"ack", "move_result"}, data : {Nothing}]
ReadMessage == [type : {"board_state", "my_game_list", "ack", "move_result", "junk", "none"},
                data : Board \union {Nothing, Garbage}]
Part        == [of : WireMessage, part : 0 .. PayloadParts]

Receiver == [at   : {"off", "select", "header", "payload", "done"}, msg : ReadMessage,
             left : 0 .. PayloadParts, err : {"none", "success", "timeout", "serialization"}]

WireTypes ==
  /\ wire \in Seq(Part) /\ torn \in BOOLEAN
  /\ \A i \in DOMAIN wire : wire[i].part <= Payload(wire[i].of)
RxTypes ==
  /\ rx \in [Thread -> Receiver]
  /\ \A t \in Thread : rx[t].at = "payload" => rx[t].left \in 1 .. Payload(rx[t].msg)
ListenerTypes ==
  /\ listener \in [at : {"peek", "recv", "ended"}, errors : 0 .. MaxErrors,
                   retries : 0 .. MaxRecvRetries - 1]
  /\ listener.at # "ended" => listener.errors < MaxErrors
  /\ listener.at = "recv" <=> rx["listener"].at # "off"
MainTypes ==
  /\ at \in Place /\ board \in Board
  /\ wanted \in BOOLEAN /\ known \in BOOLEAN /\ pipe \in BOOLEAN /\ slipped \in BOOLEAN
  /\ retries \in 0 .. MaxRetries
  /\ at \in Waiting <=> rx["main"].at # "off"
ServerTypes ==
  /\ game \in Board /\ moving \subseteq Seat
  /\ reply = {} \/ \E m \in WireMessage : reply = {m}
  /\ requests \in Seq(Request) /\ sent \in 0 .. MaxRequests
Types == WireTypes /\ RxTypes /\ ListenerTypes /\ MainTypes /\ ServerTypes

-----------------------------------------------------------------------------

\* Messages are whole: a part is followed by the next part of its message, and
\* the last part by a header, or by nothing.
Whole ==
  \A i \in DOMAIN wire :
    /\ wire[i].part < Payload(wire[i].of) =>
         i < Len(wire) /\ wire[i + 1] = [of |-> wire[i].of, part |-> wire[i].part + 1]
    /\ wire[i].part = Payload(wire[i].of) /\ i < Len(wire) => wire[i + 1].part = 0

\* The stream starts with a header, or with the rest of what a thread reads.
Start == wire # <<>> /\ (\A t \in Thread : rx[t].at # "payload") => wire[1].part = 0
Rest1(t) ==
  rx[t].at = "payload" =>
    /\ wire # <<>>
    /\ wire[1] = [of |-> rx[t].msg, part |-> Payload(rx[t].msg) - rx[t].left + 1]
    /\ \A u \in Thread : rx[u].at = "payload" => u = t

\* A thread has a message only when it has read its header.
Hand(t) ==
  /\ rx[t].at \in {"select", "header"} => rx[t].msg = NoMessage
  /\ rx[t].at = "payload" => rx[t].msg \in WireMessage
  /\ rx[t].at = "done" =>
       \/ rx[t].err = "success" /\ rx[t].msg \in WireMessage
       \/ rx[t].err = "timeout" /\ rx[t].msg = NoMessage

Core    == Whole /\ Start /\ \A t \in Thread : Rest1(t) /\ Hand(t)
Framing == ~torn => Core

-----------------------------------------------------------------------------

Asks     == IF at = "listing" THEN "list" ELSE "get_board"
Expected == IF at = "listing" THEN "my_game_list" ELSE "board_state"

Has(t, type) == rx[t].at \in {"payload", "done"} /\ rx[t].msg.type = type
InHand == \E type \in Answers : Has("main", type)
OnWire == {i \in DOMAIN wire : wire[i].part = 0 /\ wire[i].of.type \in Answers}
Clear  == reply = {} /\ OnWire = {}

Asked    == requests \in {<<Asks>>, <<"play_move", Asks>>} /\ Clear /\ ~InHand
Replying == /\ requests = <<>> /\ OnWire = {} /\ ~InHand
            /\ \E m \in WireMessage : reply = {m} /\ m.type = Expected
Sending  == /\ requests = <<>> /\ reply = {} /\ ~InHand
            /\ \E i \in OnWire : OnWire = {i} /\ wire[i].of.type = Expected
Read     == requests = <<>> /\ Clear /\ (InHand => Has("main", Expected))

Flow ==
  /\ at \notin Waiting => Clear /\ requests \in {<<>>, <<"play_move">>}
  /\ at \in Waiting => Asked \/ Replying \/ Sending \/ Read
  /\ at \in {"IDLE", "GAME_OVER"} => requests = <<>>
  /\ at = "IDLE" => board.phase = "playing"
  /\ requests # <<>> /\ Head(requests) = "play_move" =>
       game.turn = "me" /\ game.phase = "playing" /\ board = game

-----------------------------------------------------------------------------

BoardMessage(b) == Message("board_state", b)
Underway(b) ==
  \/ BoardMessage(b) \in reply
  \/ \E i \in DOMAIN wire : wire[i].part = 0 /\ wire[i].of = BoardMessage(b)
  \/ rx["main"].at \in {"payload", "done"} /\ rx["main"].msg = BoardMessage(b)
Shown(b) == at = "IDLE" /\ board = b

\* The main thread has taken a notice for its answer, and gives the answer up.
Mistaken == Has("main", "move_result")

Fresh ==
  \A b \in Board : Shown(b) \/ Underway(b) =>
    /\ b.phase = "playing" /\ b.turn = "me" => b = game
    /\ game.phase = "playing" => b = game \/ Announced \/ Mistaken

IInv == Types /\ Framing /\ (Clean => Flow /\ Fresh)

-----------------------------------------------------------------------------
(* The link: what a step does to the receivers.                             *)

\* What the assumptions say of the constants.
LEMMA Sizes ==
  /\ PayloadParts \in Nat /\ PayloadParts >= 1 /\ MaxErrors \in Nat /\ MaxErrors >= 1
  /\ MaxRecvRetries \in Nat /\ MaxRecvRetries >= 1
  /\ MaxRetries \in Nat /\ MaxMoves \in Nat /\ MaxRequests \in Nat
  BY LinkAssumption, PlayAssumption

\* A payload has PayloadParts parts at most.
LEMMA PayloadSize == \A m : Payload(m) \in 0 .. PayloadParts /\ Payload(m) \in Nat
  BY Sizes DEF Payload

\* What is sent may be read; junk and no message are never sent.
LEMMA MessageTypes ==
  /\ WireMessage \subseteq ReadMessage
  /\ NoMessage \in ReadMessage /\ Junk \in ReadMessage /\ NoMessage \notin WireMessage
  /\ Junk \notin WireMessage
  BY DEF WireMessage, ReadMessage, NoMessage, Junk, Message

\* The parts of a receiver.
LEMMA ReceiverFields ==
  ASSUME RxTypes, NEW t \in Thread
  PROVE  /\ rx[t] \in Receiver /\ rx[t].msg \in ReadMessage /\ rx[t].left \in 0 .. PayloadParts
         /\ rx[t].at \in {"off", "select", "header", "payload", "done"}
         /\ rx[t].err \in {"none", "success", "timeout", "serialization"}
         /\ rx[t].at = "payload" => rx[t].left \in 1 .. Payload(rx[t].msg)
  BY DEF RxTypes, Receiver

\* One receiver changes.
LEMMA OneReceiver ==
  ASSUME RxTypes, NEW t \in Thread, NEW r \in Receiver, rx' = [rx EXCEPT ![t] = r],
         r.at = "payload" => r.left \in 1 .. Payload(r.msg)
  PROVE  RxTypes' /\ rx'[t] = r /\ \A u \in Thread : u # t => rx'[u] = rx[u]
<1>1. rx' \in [Thread -> Receiver] /\ rx'[t] = r /\ \A u \in Thread : u # t => rx'[u] = rx[u]
  BY DEF RxTypes
<1>2. \A u \in Thread : rx'[u].at = "payload" => rx'[u].left \in 1 .. Payload(rx'[u].msg)
  BY <1>1 DEF RxTypes
<1>3. QED BY <1>1, <1>2 DEF RxTypes

\* A receiver that is called waits in select, with nothing read.
LEMMA CallsFacts ==
  ASSUME RxTypes, NEW t \in Thread, rx' = Calls(t)
  PROVE  /\ RxTypes' /\ \A u \in Thread : u # t => rx'[u] = rx[u]
         /\ rx'[t].at = "select" /\ rx'[t].msg = NoMessage
<1> DEFINE r == [rx[t] EXCEPT !.at = "select", !.msg = NoMessage, !.err = "none"]
<1>1. r \in Receiver /\ r.at = "select" /\ r.msg = NoMessage
  BY ReceiverFields, MessageTypes DEF Receiver
<1>2. rx' = [rx EXCEPT ![t] = r]
  BY DEF Calls, RxTypes
<1> HIDE DEF r
<1>3. QED BY <1>1, <1>2, OneReceiver

\* A receiver whose result is taken is off.
LEMMA ConsumedFacts ==
  ASSUME RxTypes, NEW t \in Thread, rx' = Consumed(t)
  PROVE  /\ RxTypes' /\ \A u \in Thread : u # t => rx'[u] = rx[u]
         /\ rx'[t].at = "off"
<1> DEFINE r == [rx[t] EXCEPT !.at = "off"]
<1>1. r \in Receiver /\ r.at = "off"
  BY ReceiverFields DEF Receiver
<1>2. rx' = [rx EXCEPT ![t] = r]
  BY DEF Consumed, RxTypes
<1> HIDE DEF r
<1>3. QED BY <1>1, <1>2, OneReceiver

\* A receiver that returns is done, and keeps what it has read.
LEMMA ReturnsFields ==
  ASSUME RxTypes, NEW t \in Thread, NEW err \in {"success", "timeout", "serialization"}
  PROVE  /\ Returns(t, err) \in Receiver /\ Returns(t, err).at = "done"
         /\ Returns(t, err).err = err /\ Returns(t, err).msg = rx[t].msg
         /\ \A m \in ReadMessage :
              LET r == [Returns(t, err) EXCEPT !.msg = m]
              IN  r \in Receiver /\ r.at = "done" /\ r.err = err /\ r.msg = m
<1>1. rx[t] \in Receiver /\ 0 \in 0 .. PayloadParts
  BY ReceiverFields, Sizes
<1>2. QED BY <1>1 DEF Returns, Receiver

\* select finds something to read.
LEMMA ReadableFacts ==
  ASSUME RxTypes, NEW t \in Thread, Readable(t)
  PROVE  /\ RxTypes' /\ \A u \in Thread : u # t => rx'[u] = rx[u]
         /\ rx[t].at = "select" /\ rx'[t].at = "header" /\ rx'[t].msg = rx[t].msg
<1> DEFINE r == [rx[t] EXCEPT !.at = "header"]
<1>1. r \in Receiver /\ r.at = "header" /\ r.msg = rx[t].msg
  BY ReceiverFields DEF Receiver
<1>2. rx' = [rx EXCEPT ![t] = r] /\ rx[t].at = "select"
  BY DEF Readable, Receiving, RxTypes
<1> HIDE DEF r
<1>3. QED BY <1>1, <1>2, OneReceiver

\* A receiver times out only when there is nothing to read.
LEMMA TimesOutFacts ==
  ASSUME RxTypes, NEW t \in Thread, TimesOut(t)
  PROVE  /\ RxTypes' /\ \A u \in Thread : u # t => rx'[u] = rx[u]
         /\ rx[t].at \in {"select", "payload"} /\ wire = <<>>
         /\ rx'[t].at = "done" /\ rx'[t].err = "timeout" /\ rx'[t].msg = rx[t].msg
<1> DEFINE r == Returns(t, "timeout")
<1>1. rx' = [rx EXCEPT ![t] = r] /\ wire = <<>> /\ rx[t].at \in {"select", "payload"}
  BY DEF TimesOut, Receiving
<1>2. r \in Receiver /\ r.at = "done" /\ r.err = "timeout" /\ r.msg = rx[t].msg
  BY ReturnsFields
<1> HIDE DEF r
<1>3. RxTypes' /\ rx'[t] = r /\ \A u \in Thread : u # t => rx'[u] = rx[u]
  BY <1>1, <1>2, OneReceiver
<1>4. QED BY <1>1, <1>2, <1>3

\* A header is read, or the stream is torn.
LEMMA ReadHeaderFacts ==
  ASSUME RxTypes, WireTypes, NEW t \in Thread, ReadHeader(t)
  PROVE  /\ RxTypes' /\ \A u \in Thread : u # t => rx'[u] = rx[u]
         /\ rx[t].at = "header" /\ wire # <<>> /\ wire' = Tail(wire)
         /\ rx'[t].at \in {"payload", "done"}
         /\ \/ torn' = TRUE
            \/ /\ torn' = torn /\ wire[1].part = 0 /\ rx'[t].msg = wire[1].of
               /\ \/ Payload(wire[1].of) = 0 /\ rx'[t].at = "done" /\ rx'[t].err = "success"
                  \/ /\ Payload(wire[1].of) # 0 /\ rx'[t].at = "payload"
                     /\ rx'[t].left = Payload(wire[1].of)
<1> DEFINE m == wire[1].of
<1>1. /\ rx[t].at = "header" /\ wire # <<>> /\ wire' = Tail(wire) /\ Head(wire) = wire[1]
      /\ wire[1] \in Part
  BY DEF ReadHeader, WireTypes
<1>2. m \in ReadMessage
  BY <1>1, MessageTypes DEF Part
<1>3. CASE wire[1].part = 0 /\ Payload(m) = 0
  <2> DEFINE r == [Returns(t, "success") EXCEPT !.msg = m]
  <2>1. rx' = [rx EXCEPT ![t] = r] /\ torn' = torn
    BY <1>1, <1>3 DEF ReadHeader
  <2>2. r \in Receiver /\ r.at = "done" /\ r.err = "success" /\ r.msg = m
    BY <1>2, ReturnsFields
  <2> HIDE DEF r
  <2>3. RxTypes' /\ rx'[t] = r /\ \A u \in Thread : u # t => rx'[u] = rx[u]
    BY <2>1, <2>2, OneReceiver
  <2>4. QED BY <1>1, <1>3, <2>1, <2>2, <2>3
<1>4. CASE wire[1].part = 0 /\ Payload(m) # 0
  <2> DEFINE r == [rx[t] EXCEPT !.at = "payload", !.msg = m, !.left = Payload(m)]
  <2>1. rx' = [rx EXCEPT ![t] = r] /\ torn' = torn
    BY <1>1, <1>4 DEF ReadHeader, RxTypes
  <2>2. Payload(m) \in 0 .. PayloadParts /\ Payload(m) \in 1 .. Payload(m)
    BY <1>4, PayloadSize
  <2>3. r \in Receiver /\ r.at = "payload" /\ r.msg = m /\ r.left = Payload(m)
    BY <1>2, <2>2, ReceiverFields DEF Receiver
  <2> HIDE DEF r
  <2>4. QED BY <1>1, <1>4, <2>1, <2>2, <2>3, OneReceiver
<1>5. CASE wire[1].part # 0
  <2>1. torn' = TRUE
    BY <1>1, <1>5 DEF ReadHeader
  <2>2. PICK err \in {"success", "serialization"} :
          rx' = [rx EXCEPT ![t] = [Returns(t, err) EXCEPT !.msg = Junk]]
    BY <1>1, <1>5 DEF ReadHeader
  <2> DEFINE r == [Returns(t, err) EXCEPT !.msg = Junk]
  <2>3. r \in Receiver /\ r.at = "done"
    BY MessageTypes, ReturnsFields
  <2>4. rx' = [rx EXCEPT ![t] = r]
    BY <2>2
  <2> HIDE DEF r
  <2>5. RxTypes' /\ rx'[t] = r /\ \A u \in Thread : u # t => rx'[u] = rx[u]
    BY <2>3, <2>4, OneReceiver
  <2>6. QED BY <1>1, <2>1, <2>3, <2>5
<1>6. QED BY <1>3, <1>4, <1>5

\* A payload is read, or some of it, or the stream is torn.
LEMMA ReadPayloadFacts ==
  ASSUME RxTypes, WireTypes, NEW t \in Thread, ReadPayload(t)
  PROVE  LET n == IF rx[t].left < Len(wire) THEN rx[t].left ELSE Len(wire)
         IN  /\ RxTypes' /\ \A u \in Thread : u # t => rx'[u] = rx[u]
             /\ rx[t].at = "payload" /\ wire # <<>> /\ wire' = SubSeq(wire, n + 1, Len(wire))
             /\ n \in 1 .. Len(wire) /\ n <= rx[t].left
             /\ rx'[t].at \in {"payload", "done"} /\ torn' \in BOOLEAN /\ (torn => torn')
             /\ \/ torn' = TRUE
                \/ /\ torn' = torn /\ rx'[t].msg = rx[t].msg
                   /\ \A i \in 1 .. n :
                        wire[i] = [of |-> rx[t].msg, part |-> Payload(rx[t].msg) - rx[t].left + i]
                   /\ \/ n = rx[t].left /\ rx'[t].at = "done" /\ rx'[t].err = "success"
                      \/ n < rx[t].left /\ n = Len(wire)
<1> DEFINE left == rx[t].left
           n    == IF left < Len(wire) THEN left ELSE Len(wire)
           from == Payload(rx[t].msg) - left
           own  == \A i \in 1 .. n : wire[i] = [of |-> rx[t].msg, part |-> from + i]
           r    == IF n = left THEN Returns(t, "success") ELSE [rx[t] EXCEPT !.left = @ - n]
           s    == IF own THEN r ELSE [r EXCEPT !.msg.data = Garbage]
<1>1. /\ rx[t].at = "payload" /\ wire # <<>> /\ wire' = SubSeq(wire, n + 1, Len(wire))
      /\ rx' = [rx EXCEPT ![t] = s] /\ torn' = (torn \/ ~own)
  BY DEF ReadPayload
<1>2. /\ left \in 1 .. Payload(rx[t].msg) /\ left \in 1 .. PayloadParts
      /\ Len(wire) \in Nat /\ Len(wire) >= 1 /\ torn \in BOOLEAN
  BY <1>1, ReceiverFields, PayloadSize DEF WireTypes
<1>3. n \in 1 .. Len(wire) /\ n <= left /\ (n = left \/ (n < left /\ n = Len(wire)))
  BY <1>2
<1>4. /\ r \in Receiver /\ r.msg = rx[t].msg /\ r.at \in {"payload", "done"}
      /\ n = left => r.at = "done" /\ r.err = "success"
      /\ r.at = "payload" => r.left \in 1 .. Payload(r.msg)
  <2>1. CASE n = left
    BY <2>1, ReturnsFields, ReceiverFields
  <2>2. CASE n # left
    <3>1. left - n \in 0 .. PayloadParts /\ left - n \in 1 .. Payload(rx[t].msg)
      <4> DEFINE size == Payload(rx[t].msg)
      <4>1. size \in Nat /\ PayloadParts \in Nat
        BY PayloadSize, Sizes
      <4> HIDE DEF left, n, size
      <4>2. /\ left \in 1 .. size /\ left \in 1 .. PayloadParts /\ Len(wire) \in Nat
            /\ n \in 1 .. Len(wire) /\ n <= left
        BY <1>2, <1>3 DEF size
      <4>3. left - n \in 0 .. PayloadParts /\ left - n \in 1 .. size
        BY <4>1, <4>2, <2>2
      <4>4. QED BY <4>3 DEF size
    <3>2. r = [rx[t] EXCEPT !.left = left - n]
      BY <2>2
    <3>3. [rx[t] EXCEPT !.left = left - n] \in Receiver
      BY <3>1, ReceiverFields DEF Receiver
    <3>4. QED BY <1>1, <2>2, <3>1, <3>2, <3>3, ReceiverFields DEF Receiver
  <2>3. QED BY <2>1, <2>2
<1>5. /\ s \in Receiver /\ s.at = r.at /\ s.err = r.err /\ s.left = r.left
      /\ s.msg.type = rx[t].msg.type /\ (own => s.msg = rx[t].msg)
  <2> HIDE DEF r, own
  <2>1. [r EXCEPT !.msg.data = Garbage] = [r EXCEPT !.msg = [r.msg EXCEPT !.data = Garbage]]
    OBVIOUS
  <2>2. [r.msg EXCEPT !.data = Garbage] \in ReadMessage /\ [r.msg EXCEPT !.data = Garbage].type = r.msg.type
    BY <1>4, ReceiverFields DEF ReadMessage
  <2>3. QED BY <1>4, <2>1, <2>2 DEF Receiver
<1>6. Payload(s.msg) = Payload(r.msg)
  BY <1>4, <1>5 DEF Payload
<1> HIDE DEF s, r
<1>7. RxTypes' /\ rx'[t] = s /\ \A u \in Thread : u # t => rx'[u] = rx[u]
  BY <1>1, <1>4, <1>5, <1>6, OneReceiver
<1> HIDE DEF own, n
<1>8. torn' = TRUE \/ (torn' = torn /\ own)
  BY <1>1, <1>2
<1>9. torn' \in BOOLEAN /\ (torn => torn')
  BY <1>1, <1>2
<1>10. QED BY <1>1, <1>2, <1>3, <1>4, <1>5, <1>7, <1>8, <1>9 DEF own, n

-----------------------------------------------------------------------------
(* The link: what a step does to the stream.                                *)

\* The first n parts are read.
Shifts(n) ==
  /\ Len(wire') = Len(wire) - n
  /\ \A i \in 1 .. Len(wire') : i + n \in DOMAIN wire /\ wire'[i] = wire[i + n]
  /\ \A j \in DOMAIN wire : j > n => j - n \in DOMAIN wire' /\ wire'[j - n] = wire[j]

\* The stream as a sequence of parts.
LEMMA WireFacts ==
  ASSUME WireTypes
  PROVE  /\ wire \in Seq(Part) /\ Len(wire) \in Nat /\ DOMAIN wire = 1 .. Len(wire)
         /\ wire # <<>> => Len(wire) >= 1 /\ 1 \in DOMAIN wire /\ Head(wire) = wire[1]
         /\ \A i \in DOMAIN wire : /\ wire[i] \in Part /\ wire[i].of \in WireMessage
                                   /\ wire[i].part \in 0 .. Payload(wire[i].of)
                                   /\ wire[i].part \in Nat
<1>1. wire \in Seq(Part)
  BY DEF WireTypes
<1>2. Len(wire) \in Nat /\ DOMAIN wire = 1 .. Len(wire) /\ wire \in [1 .. Len(wire) -> Part]
  BY <1>1, LenProperties
<1>3. wire # <<>> => Len(wire) >= 1 /\ 1 \in DOMAIN wire /\ Head(wire) = wire[1]
  <2> SUFFICES ASSUME wire # <<>> PROVE Len(wire) >= 1 /\ 1 \in DOMAIN wire /\ Head(wire) = wire[1]
    OBVIOUS
  <2>1. Len(wire) \in Nat \ {0}
    BY <1>1, EmptySeq
  <2>2. Head(wire) = wire[1]
    BY <1>1
  <2>3. QED BY <1>2, <2>1, <2>2
<1>4. \A i \in DOMAIN wire : /\ wire[i] \in Part /\ wire[i].of \in WireMessage
                             /\ wire[i].part \in 0 .. Payload(wire[i].of) /\ wire[i].part \in Nat
  <2> TAKE i \in DOMAIN wire
  <2>1. wire[i] \in Part
    BY <1>2
  <2>2. wire[i].of \in WireMessage /\ wire[i].part \in 0 .. PayloadParts
    BY <2>1 DEF Part
  <2>3. wire[i].part <= Payload(wire[i].of)
    BY DEF WireTypes
  <2>4. Payload(wire[i].of) \in Nat
    BY PayloadSize
  <2>5. QED BY <2>1, <2>2, <2>3, <2>4, Sizes
<1>5. QED BY <1>1, <1>2, <1>3, <1>4

\* What is left of a sequence without its first k - 1 elements.
LEMMA Suffix ==
  ASSUME NEW S, NEW s \in Seq(S), NEW len \in Nat, len = Len(s), NEW k \in 1 .. len + 1,
         NEW u, u = SubSeq(s, k, len)
  PROVE  /\ u \in Seq(S) /\ Len(u) = len + 1 - k
         /\ \A i \in 1 .. len + 1 - k : u[i] = s[k + i - 1]
<1>1. k \in Int /\ len \in Int /\ \A i \in k .. len : s[i] \in S
  BY ElementOfSeq
<1>2. /\ u \in Seq(S) /\ Len(u) = (IF k <= len THEN len - k + 1 ELSE 0)
      /\ \A i \in 1 .. len - k + 1 : u[i] = s[k + i - 1]
  BY <1>1, SubSeqProperties
<1>3. len - k + 1 = len + 1 - k /\ (IF k <= len THEN len - k + 1 ELSE 0) = len + 1 - k
  BY <1>1
<1>4. QED BY <1>2, <1>3

\* The places of a sequence whose first n elements are gone.
LEMMA Places ==
  ASSUME NEW len \in Nat, NEW n \in Nat, n <= len
  PROVE  /\ n + 1 \in 1 .. len + 1 /\ len + 1 - (n + 1) = len - n
         /\ \A i \in 1 .. len - n : i + n \in 1 .. len /\ (n + 1) + i - 1 = i + n
         /\ \A j \in 1 .. len : j > n => j - n \in 1 .. len - n /\ (j - n) + n = j
  OBVIOUS

\* What is left after reading n parts has types, and is shifted by n.
LEMMA ReadFacts ==
  ASSUME WireTypes, NEW n \in Nat, n <= Len(wire), wire' = SubSeq(wire, n + 1, Len(wire)),
         torn' \in BOOLEAN
  PROVE  WireTypes' /\ Shifts(n)
<1> DEFINE len == Len(wire)
           k   == n + 1
<1>0. wire \in Seq(Part) /\ len \in Nat /\ DOMAIN wire = 1 .. len /\ n \in 0 .. len
      /\ len = Len(wire) /\ wire' = SubSeq(wire, k, len)
  <2>1. wire \in Seq(Part) /\ len \in Nat /\ DOMAIN wire = 1 .. len
    BY WireFacts
  <2>2. wire' = SubSeq(wire, k, len)
    OBVIOUS
  <2> HIDE DEF k
  <2>3. n \in 0 .. len /\ len = Len(wire)
    OBVIOUS
  <2>4. QED BY <2>1, <2>2, <2>3
<1> HIDE DEF len
<1>1. /\ k \in 1 .. len + 1 /\ len + 1 - k = len - n
      /\ \A i \in 1 .. len - n : i + n \in 1 .. len /\ k + i - 1 = i + n
      /\ \A j \in 1 .. len : j > n => j - n \in 1 .. len - n /\ (j - n) + n = j
  BY <1>0, Places
<1>2. wire' \in Seq(Part) /\ Len(wire') = len - n
      /\ \A i \in 1 .. Len(wire') : i + n \in DOMAIN wire /\ wire'[i] = wire[i + n]
  <2> HIDE DEF k
  <2>2. wire' \in Seq(Part) /\ Len(wire') = len + 1 - k
        /\ \A i \in 1 .. len + 1 - k : wire'[i] = wire[k + i - 1]
    <3> DEFINE u == SubSeq(wire, k, len)
    <3> HIDE DEF u
    <3>1. u \in Seq(Part) /\ Len(u) = len + 1 - k /\ \A i \in 1 .. len + 1 - k : u[i] = wire[k + i - 1]
      <4>1. wire \in Seq(Part) /\ len \in Nat /\ len = Len(wire) /\ k \in 1 .. len + 1 /\ u = SubSeq(wire, k, len)
        BY <1>0, <1>1 DEF u
      <4>2. QED BY <4>1, Suffix
    <3>2. wire' = u
      BY <1>0 DEF u
    <3>3. QED BY <3>1, <3>2
  <2>3. Len(wire') = len - n /\ \A i \in 1 .. len - n : wire'[i] = wire[k + i - 1]
    BY <1>1, <2>2
  <2>4. \A i \in 1 .. len - n : i + n \in DOMAIN wire /\ wire'[i] = wire[i + n]
    BY <1>0, <1>1, <2>3
  <2>5. QED BY <2>2, <2>3, <2>4
<1>3. DOMAIN wire' = 1 .. Len(wire')
  BY <1>2
<1>4. \A i \in DOMAIN wire' : wire'[i].part <= Payload(wire'[i].of)
  BY <1>2, <1>3 DEF WireTypes
<1>5. \A j \in DOMAIN wire : j > n => j - n \in DOMAIN wire' /\ wire'[j - n] = wire[j]
  <2> TAKE j \in DOMAIN wire
  <2> HAVE j > n
  <2>1. j - n \in 1 .. Len(wire') /\ (j - n) + n = j
    <3>1. j \in 1 .. len
      BY <1>0
    <3>2. QED BY <1>1, <1>2, <3>1
  <2>2. QED BY <1>2, <1>3, <2>1
<1>7. WireTypes'
  BY <1>2, <1>4 DEF WireTypes, Payload
<1>8. QED BY <1>0, <1>2, <1>5, <1>7 DEF Shifts

\* A message is sent: what was there stays, and its parts follow.
LEMMA SentFacts ==
  ASSUME WireTypes, NEW m \in WireMessage, wire' = Sent(m), torn' = torn
  PROVE  /\ WireTypes' /\ Len(wire') = Len(wire) + 1 + Payload(m)
         /\ DOMAIN wire' = 1 .. Len(wire')
         /\ \A i \in DOMAIN wire : i \in DOMAIN wire' /\ wire'[i] = wire[i]
         /\ \A i \in DOMAIN wire' : i > Len(wire) =>
              wire'[i] = [of |-> m, part |-> i - Len(wire) - 1]
<1> DEFINE size == Payload(m)
<1>1. size \in Nat /\ size \in 0 .. PayloadParts
  BY PayloadSize
<1>2. Parts(m) = [i \in 1 .. 1 + size |-> [of |-> m, part |-> i - 1]]
  BY DEF Parts
<1> HIDE DEF size
<1>3. Parts(m) \in Seq(Part) /\ Len(Parts(m)) = 1 + size
      /\ \A i \in 1 .. 1 + size : Parts(m)[i] = [of |-> m, part |-> i - 1]
  <2>1. \A i \in 1 .. 1 + size : [of |-> m, part |-> i - 1] \in Part
    BY <1>1, Sizes DEF Part
  <2>2. QED BY <1>1, <1>2, <2>1
<1> DEFINE len == Len(wire)
<1>0. wire \in Seq(Part) /\ len \in Nat /\ DOMAIN wire = 1 .. len
  BY WireFacts
<1>4. /\ wire' \in Seq(Part) /\ Len(wire') = len + 1 + size /\ DOMAIN wire' = 1 .. Len(wire')
      /\ \A i \in 1 .. len + 1 + size : wire'[i] = IF i <= len THEN wire[i] ELSE Parts(m)[i - len]
  <2>1. wire' = wire \o Parts(m)
    BY DEF Sent
  <2>2. /\ wire \o Parts(m) \in Seq(Part)
        /\ Len(wire \o Parts(m)) = Len(wire) + Len(Parts(m))
        /\ \A i \in 1 .. Len(wire) + Len(Parts(m)) :
             (wire \o Parts(m))[i] = IF i <= Len(wire) THEN wire[i] ELSE Parts(m)[i - Len(wire)]
    BY <1>0, <1>3, ConcatProperties
  <2>3. Len(wire) + Len(Parts(m)) = len + 1 + size
    BY <1>0, <1>1, <1>3
  <2>4. DOMAIN wire' = 1 .. Len(wire')
    BY <2>1, <2>2, LenProperties
  <2>5. QED BY <2>1, <2>2, <2>3, <2>4
<1> HIDE DEF len
<1>5. \A i \in DOMAIN wire : i \in DOMAIN wire' /\ wire'[i] = wire[i]
  <2> TAKE i \in DOMAIN wire
  <2>1. i \in 1 .. len + 1 + size /\ i <= len
    BY <1>0, <1>1
  <2>2. QED BY <1>4, <2>1
<1>6. \A i \in DOMAIN wire' : i > len => wire'[i] = [of |-> m, part |-> i - len - 1]
  <2> TAKE i \in DOMAIN wire'
  <2> HAVE i > len
  <2>1. i \in 1 .. len + 1 + size /\ i - len \in 1 .. 1 + size /\ ~(i <= len)
    BY <1>0, <1>1, <1>4
  <2>2. wire'[i] = Parts(m)[i - len]
    BY <1>4, <2>1
  <2>3. QED BY <1>3, <2>1, <2>2
<1>7. \A i \in DOMAIN wire' : wire'[i].part <= Payload(wire'[i].of)
  <2> TAKE i \in DOMAIN wire'
  <2>1. CASE i \in DOMAIN wire
    BY <1>5, <2>1 DEF WireTypes
  <2>2. CASE i \notin DOMAIN wire
    <3>1. i > len /\ i - len - 1 <= size
      BY <1>0, <1>1, <1>4, <2>2
    <3>2. wire'[i].of = m /\ wire'[i].part = i - len - 1
      BY <1>6, <3>1
    <3>3. QED BY <3>1, <3>2 DEF size
  <2>3. QED BY <2>1, <2>2
<1>8. WireTypes'
  BY <1>4, <1>7 DEF WireTypes, Payload
<1>9. QED BY <1>0, <1>4, <1>5, <1>6, <1>8 DEF size, len

-----------------------------------------------------------------------------
(* The link: whole messages are read as they were sent.                     *)

\* What a receiver does to a stream that is not torn.
Waits(t) ==
  /\ wire' = wire /\ rx[t].at = "select"
  /\ rx'[t].at \in {"header", "done"} /\ rx'[t].msg = NoMessage
TakesHeader(t) ==
  /\ Shifts(1) /\ 1 \in DOMAIN wire /\ wire[1].part = 0
  /\ rx[t].at = "header" /\ rx'[t].at \in {"payload", "done"} /\ rx'[t].msg = wire[1].of
TakesPayload(t) ==
  /\ \E n \in Nat : Shifts(n) /\ \A i \in 1 .. n : i \in DOMAIN wire /\ wire[i].part > 0
  /\ rx[t].at = "payload" /\ rx'[t].at = "done" /\ rx'[t].msg = rx[t].msg
Takes(t) == Waits(t) \/ TakesHeader(t) \/ TakesPayload(t)

\* What holds of a receiver that is handed to or from its caller, or waits.
LEMMA OnlyReceivers ==
  ASSUME Core, WireTypes, RxTypes, NEW t \in Thread, wire' = wire,
         \A u \in Thread : u # t => rx'[u] = rx[u],
         rx[t].at # "payload", rx'[t].at # "payload", Hand(t)'
  PROVE  Core'
<1>1. Whole' /\ \A u \in Thread : Hand(u)'
  BY DEF Core, Whole, Hand
<1>2. \A u \in Thread : rx'[u].at = "payload" => u # t /\ rx'[u] = rx[u]
  OBVIOUS
<1>3. \A u \in Thread : Rest1(u)'
  BY <1>2 DEF Core, Rest1
<1>4. (\A u \in Thread : rx'[u].at # "payload") => \A u \in Thread : rx[u].at # "payload"
  OBVIOUS
<1>5. Start'
  BY <1>4 DEF Core, Start
<1>6. QED BY <1>1, <1>3, <1>5 DEF Core

\* Finding something to read disturbs no frame.
LEMMA ReadableFrames ==
  ASSUME Core, WireTypes, RxTypes, NEW t \in Thread, Readable(t)
  PROVE  Core' /\ Waits(t)
<1>1. wire' = wire /\ rx[t].at = "select" /\ rx'[t].at = "header" /\ rx'[t].msg = NoMessage
      /\ \A u \in Thread : u # t => rx'[u] = rx[u]
  BY ReadableFacts DEF Readable, Core, Hand
<1>2. Hand(t)'
  BY <1>1 DEF Hand
<1>3. QED BY <1>1, <1>2, OnlyReceivers DEF Waits

\* Nor does a timeout, which finds no message half read.
LEMMA TimesOutFrames ==
  ASSUME Core, WireTypes, RxTypes, NEW t \in Thread, TimesOut(t)
  PROVE  Core' /\ Waits(t)
<1>1. rx[t].at # "payload"
  BY TimesOutFacts DEF Core, Rest1
<1>2. /\ wire' = wire /\ rx[t].at = "select" /\ rx'[t].at = "done" /\ rx'[t].msg = NoMessage
      /\ rx'[t].err = "timeout" /\ \A u \in Thread : u # t => rx'[u] = rx[u]
  BY <1>1, TimesOutFacts DEF TimesOut, Core, Hand
<1>3. Hand(t)'
  BY <1>2 DEF Hand
<1>4. QED BY <1>2, <1>3, OnlyReceivers DEF Waits

\* After n parts are read the rest is whole, if it was.
LEMMA RestIsWhole ==
  ASSUME Whole, WireTypes, NEW n \in Nat, Shifts(n), WireTypes'
  PROVE  /\ Whole'
         /\ n \in DOMAIN wire /\ wire' # <<>> =>
              /\ wire[n].part = Payload(wire[n].of) => wire'[1].part = 0
              /\ wire[n].part < Payload(wire[n].of) =>
                   wire'[1] = [of |-> wire[n].of, part |-> wire[n].part + 1]
<1> DEFINE len == Len(wire)
           rest == Len(wire')
<1>1. /\ len \in Nat /\ rest \in Nat /\ rest = len - n
      /\ DOMAIN wire = 1 .. len /\ DOMAIN wire' = 1 .. rest
      /\ \A i \in 1 .. rest : i + n \in 1 .. len /\ wire'[i] = wire[i + n]
  <2>1. Len(wire') \in Nat /\ DOMAIN wire' = 1 .. Len(wire')
    BY LenProperties DEF WireTypes
  <2>2. QED BY <2>1, WireFacts DEF Shifts
<1>2. \A i \in 1 .. len :
        /\ wire[i].part < Payload(wire[i].of) =>
             i < len /\ wire[i + 1] = [of |-> wire[i].of, part |-> wire[i].part + 1]
        /\ wire[i].part = Payload(wire[i].of) /\ i < len => wire[i + 1].part = 0
  BY <1>1 DEF Whole
<1> HIDE DEF len, rest
<1>3. \A i \in 1 .. rest : i + n \in 1 .. len /\ (i + n < len => i < rest /\ i + 1 \in 1 .. rest)
                          /\ (i < rest => i + n < len) /\ (i + 1) + n = (i + n) + 1
  BY <1>1
<1>4. \A i \in 1 .. rest :
        /\ wire'[i].part < Payload(wire'[i].of) =>
             i < rest /\ wire'[i + 1] = [of |-> wire'[i].of, part |-> wire'[i].part + 1]
        /\ wire'[i].part = Payload(wire'[i].of) /\ i < rest => wire'[i + 1].part = 0
  <2> TAKE i \in 1 .. rest
  <2> DEFINE j == i + n
  <2>1. j \in 1 .. len /\ wire'[i] = wire[j] /\ (j < len => i < rest /\ i + 1 \in 1 .. rest)
        /\ (i < rest => j < len) /\ (i + 1) + n = j + 1
    BY <1>1, <1>3
  <2>2. i + 1 \in 1 .. rest => wire'[i + 1] = wire[j + 1]
    BY <1>1, <2>1
  <2> HIDE DEF j
  <2>3. QED BY <1>2, <2>1, <2>2
<1>5. Whole'
  <2>1. \A i \in DOMAIN wire' :
          /\ wire'[i].part < Payload(wire'[i].of) =>
               i < Len(wire') /\ wire'[i + 1] = [of |-> wire'[i].of, part |-> wire'[i].part + 1]
          /\ wire'[i].part = Payload(wire'[i].of) /\ i < Len(wire') => wire'[i + 1].part = 0
    BY <1>1, <1>4 DEF rest
  <2>2. QED BY <2>1 DEF Whole, Payload
<1>6. ASSUME n \in DOMAIN wire, wire' # <<>>
      PROVE  /\ wire[n].part = Payload(wire[n].of) => wire'[1].part = 0
             /\ wire[n].part < Payload(wire[n].of) =>
                  wire'[1] = [of |-> wire[n].of, part |-> wire[n].part + 1]
  <2>1. 1 \in 1 .. rest
    <3>1. rest \in Nat \ {0}
      BY <1>6, EmptySeq DEF WireTypes, rest
    <3>2. QED BY <3>1
  <2>2. n \in 1 .. len /\ n < len /\ wire'[1] = wire[n + 1]
    <3>1. wire'[1] = wire[1 + n] /\ 1 + n \in 1 .. len /\ 1 + n = n + 1
      BY <1>1, <2>1
    <3>2. QED BY <1>1, <1>6, <3>1
  <2>3. /\ wire[n].part < Payload(wire[n].of) =>
             wire[n + 1] = [of |-> wire[n].of, part |-> wire[n].part + 1]
        /\ wire[n].part = Payload(wire[n].of) => wire[n + 1].part = 0
    BY <1>2, <2>2
  <2>4. QED BY <2>2, <2>3
<1>7. QED BY <1>5, <1>6

\* A header that is read is one, and its payload is next.
LEMMA ReadHeaderFrames ==
  ASSUME Core, WireTypes, RxTypes, NEW t \in Thread, ReadHeader(t), ~torn', torn \in BOOLEAN
  PROVE  WireTypes' /\ Core' /\ TakesHeader(t)
<1>1. /\ \A u \in Thread : u # t => rx'[u] = rx[u]
      /\ rx[t].at = "header" /\ wire # <<>> /\ wire' = Tail(wire) /\ torn' = torn
      /\ wire[1].part = 0 /\ rx'[t].msg = wire[1].of
      /\ \/ Payload(wire[1].of) = 0 /\ rx'[t].at = "done" /\ rx'[t].err = "success"
         \/ /\ Payload(wire[1].of) # 0 /\ rx'[t].at = "payload"
            /\ rx'[t].left = Payload(wire[1].of)
  BY ReadHeaderFacts
<1>2. WireTypes' /\ Shifts(1)
  <2>1. wire \in Seq(Part) /\ Len(wire) >= 1
    BY <1>1, WireFacts
  <2>2. wire' = SubSeq(wire, 1 + 1, Len(wire))
    BY <1>1, <2>1, TailIsSubSeq
  <2>3. torn' \in BOOLEAN
    BY <1>1
  <2>4. QED BY <2>1, <2>2, <2>3, ReadFacts
<1>3. 1 \in DOMAIN wire /\ wire[1].of \in WireMessage /\ wire[1].part \in Nat
      /\ Payload(wire[1].of) \in Nat
  BY <1>1, WireFacts, PayloadSize
<1>4. \A u \in Thread : rx[u].at # "payload"
  <2> SUFFICES ASSUME NEW u \in Thread, rx[u].at = "payload" PROVE FALSE
    OBVIOUS
  <2> DEFINE place == Payload(rx[u].msg) - rx[u].left + 1
  <2>1. wire[1] = [of |-> rx[u].msg, part |-> place]
    BY DEF Core, Rest1
  <2>2. rx[u].left \in 1 .. Payload(rx[u].msg) /\ Payload(rx[u].msg) \in Nat
    BY ReceiverFields, PayloadSize
  <2>3. place >= 1
    BY <2>2
  <2> HIDE DEF place
  <2>4. QED BY <1>1, <2>1, <2>3
<1>5. TakesHeader(t)
  BY <1>1, <1>2, <1>3 DEF TakesHeader
<1>6. /\ Whole'
      /\ wire' # <<>> =>
           /\ wire[1].part = Payload(wire[1].of) => wire'[1].part = 0
           /\ wire[1].part < Payload(wire[1].of) =>
                wire'[1] = [of |-> wire[1].of, part |-> wire[1].part + 1]
  BY <1>2, <1>3, RestIsWhole DEF Core
<1>7. \A u \in Thread : Hand(u)'
  <2>1. Hand(t)'
    BY <1>1, <1>3 DEF Hand
  <2>2. \A u \in Thread : u # t => Hand(u)'
    BY <1>1 DEF Core, Hand
  <2>3. QED BY <2>1, <2>2
<1>8. CASE Payload(wire[1].of) = 0
  <2>1. \A u \in Thread : rx'[u].at # "payload"
    BY <1>1, <1>4, <1>8
  <2>2. Start' /\ \A u \in Thread : Rest1(u)'
    <3>1. wire' # <<>> => wire'[1].part = 0
      BY <1>1, <1>6, <1>8
    <3>2. Start'
      BY <3>1 DEF Start
    <3>3. QED BY <2>1, <3>2 DEF Rest1
  <2>3. QED BY <1>2, <1>5, <1>6, <1>7, <2>2 DEF Core
<1>9. CASE Payload(wire[1].of) # 0
  <2> DEFINE size == Payload(wire[1].of)
  <2>1. /\ rx'[t].at = "payload" /\ rx'[t].left = size /\ rx'[t].msg = wire[1].of
        /\ \A u \in Thread : rx'[u].at = "payload" => u = t
    BY <1>1, <1>4, <1>9
  <2>2. size \in Nat /\ 0 < size /\ size - size + 1 = 1 /\ Payload(rx'[t].msg) = size
    BY <1>3, <1>9, <2>1
  <2>3. wire' # <<>>
    <3>1. Len(wire) > 1
      BY <1>1, <1>3, <2>2 DEF Core, Whole
    <3>2. Len(wire') = Len(wire) - 1 /\ Len(wire) \in Nat
      BY <1>2, WireFacts DEF Shifts
    <3>3. QED BY <3>1, <3>2, EmptySeq
  <2>4. wire'[1] = [of |-> wire[1].of, part |-> 1]
    BY <1>1, <1>6, <2>2, <2>3
  <2> HIDE DEF size
  <2>5. wire'[1] = [of |-> rx'[t].msg, part |-> Payload(rx'[t].msg) - rx'[t].left + 1]
    BY <2>1, <2>2, <2>4
  <2>6. Rest1(t)' /\ Start'
    BY <2>1, <2>3, <2>5 DEF Start, Rest1, Payload
  <2>7. \A u \in Thread : u # t => Rest1(u)'
    BY <2>1 DEF Rest1
  <2>8. QED BY <1>2, <1>5, <1>6, <1>7, <2>6, <2>7 DEF Core
<1>10. QED BY <1>8, <1>9

\* A payload is read from its own message, up to its end at most.
LEMMA ReadPayloadFrames ==
  ASSUME Core, WireTypes, RxTypes, NEW t \in Thread, ReadPayload(t), ~torn', torn \in BOOLEAN
  PROVE  WireTypes' /\ Core' /\ TakesPayload(t)
<1> DEFINE left == rx[t].left
           size == Payload(rx[t].msg)
           place(i) == size - left + i
<1>1. PICK n \in Nat :
        /\ \A u \in Thread : u # t => rx'[u] = rx[u]
        /\ rx[t].at = "payload" /\ wire # <<>> /\ wire' = SubSeq(wire, n + 1, Len(wire))
        /\ n \in 1 .. Len(wire) /\ n <= left
        /\ torn' = torn /\ rx'[t].msg = rx[t].msg
        /\ \A i \in 1 .. n : wire[i] = [of |-> rx[t].msg, part |-> place(i)]
        /\ \/ n = left /\ rx'[t].at = "done" /\ rx'[t].err = "success"
           \/ n < left /\ n = Len(wire)
  <2> DEFINE k == IF left < Len(wire) THEN left ELSE Len(wire)
  <2>1. /\ \A u \in Thread : u # t => rx'[u] = rx[u]
        /\ rx[t].at = "payload" /\ wire # <<>> /\ wire' = SubSeq(wire, k + 1, Len(wire))
        /\ k \in 1 .. Len(wire) /\ k <= left
        /\ torn' = torn /\ rx'[t].msg = rx[t].msg
        /\ \A i \in 1 .. k : wire[i] = [of |-> rx[t].msg, part |-> place(i)]
        /\ \/ k = left /\ rx'[t].at = "done" /\ rx'[t].err = "success"
           \/ k < left /\ k = Len(wire)
    BY ReadPayloadFacts
  <2> HIDE DEF k
  <2>2. k \in Nat
    BY <2>1, WireFacts
  <2>3. QED BY <2>1, <2>2
<1>2. left \in 1 .. size /\ size \in Nat /\ Len(wire) \in Nat /\ DOMAIN wire = 1 .. Len(wire)
  BY <1>1, ReceiverFields, PayloadSize, WireFacts
<1>3. /\ \A i \in 1 .. n : wire[i].of = rx[t].msg /\ wire[i].part = size - left + i
      /\ n \in 1 .. n /\ n \in DOMAIN wire
  <2>1. n \in 1 .. Len(wire)
    BY <1>1
  <2>2. \A i \in 1 .. n : wire[i].of = rx[t].msg /\ wire[i].part = place(i)
    <3> TAKE i \in 1 .. n
    <3>1. wire[i] = [of |-> rx[t].msg, part |-> place(i)]
      BY <1>1
    <3> DEFINE p == place(i)
    <3>2. wire[i] = [of |-> rx[t].msg, part |-> p]
      BY <3>1
    <3> HIDE DEF p
    <3>3. wire[i].of = rx[t].msg /\ wire[i].part = p
      BY <3>2
    <3>4. QED BY <3>3 DEF p
  <2> HIDE DEF left, size, place
  <2>3. n \in DOMAIN wire /\ n \in 1 .. n
    BY <1>2, <2>1
  <2>4. \A i \in 1 .. n : place(i) = size - left + i
    BY DEF place
  <2>5. QED BY <2>1, <2>2, <2>3, <2>4
<1>4. n = left /\ rx'[t].at = "done" /\ rx'[t].err = "success"
  <2> SUFFICES ASSUME n < left, n = Len(wire) PROVE FALSE
    BY <1>1
  <2>1. wire[n].part < Payload(wire[n].of)
    BY <1>2, <1>3
  <2>2. n < Len(wire)
    BY <1>3, <2>1 DEF Core, Whole
  <2>3. QED BY <1>2, <2>2
<1>5. WireTypes' /\ Shifts(n)
  <2>1. n <= Len(wire) /\ torn' \in BOOLEAN
    BY <1>1, <1>2
  <2>2. QED BY <1>1, <2>1, ReadFacts
<1>6. \A i \in 1 .. n : i \in DOMAIN wire /\ wire[i].part > 0
  <2> TAKE i \in 1 .. n
  <2>1. wire[i].part = size - left + i
    BY <1>3
  <2> HIDE DEF size, left
  <2>2. i \in 1 .. Len(wire) /\ size - left + i > 0
    BY <1>1, <1>2
  <2>3. QED BY <1>2, <2>1, <2>2
<1>7. TakesPayload(t)
  BY <1>1, <1>4, <1>5, <1>6 DEF TakesPayload
<1>8. wire[n].part = Payload(wire[n].of)
  BY <1>2, <1>3, <1>4
<1>9. Whole' /\ (wire' # <<>> => wire'[1].part = 0)
  BY <1>3, <1>5, <1>8, RestIsWhole DEF Core
<1>10. \A u \in Thread : Hand(u)'
  <2>1. Hand(t)'
    BY <1>1, <1>4 DEF Core, Hand
  <2>2. \A u \in Thread : u # t => Hand(u)'
    BY <1>1 DEF Core, Hand
  <2>3. QED BY <2>1, <2>2
<1>11. \A u \in Thread : rx'[u].at # "payload"
  <2>1. \A u \in Thread : rx[u].at = "payload" => u = t
    BY <1>1 DEF Core, Rest1
  <2>2. QED BY <1>1, <1>4, <2>1
<1>12. Start' /\ \A u \in Thread : Rest1(u)'
  <2>1. Start'
    BY <1>9 DEF Start
  <2>2. QED BY <1>11, <2>1 DEF Rest1
<1>13. QED BY <1>5, <1>7, <1>9, <1>10, <1>12 DEF Core

\* Whatever a thread does to receive, it leaves whole messages behind it, or has
\* torn the stream.
LEMMA ReceiveFrames ==
  ASSUME Framing, WireTypes, RxTypes, NEW t \in Thread, Receive(t)
  PROVE  /\ WireTypes' /\ RxTypes' /\ Framing'
         /\ rx[t].at # "off" /\ rx'[t].at # "off"
         /\ \A u \in Thread : u # t => rx'[u] = rx[u]
         /\ torn => torn'
         /\ ~torn' => Core /\ Core' /\ Takes(t)
<1>1. torn \in BOOLEAN
  BY DEF WireTypes
<1>2. CASE Readable(t)
  <2>1. wire' = wire /\ torn' = torn
    BY <1>2 DEF Readable
  <2>2. WireTypes'
    BY <2>1 DEF WireTypes, Payload
  <2>3. QED BY <1>2, <2>1, <2>2, ReadableFacts, ReadableFrames DEF Framing, Takes
<1>3. CASE TimesOut(t)
  <2>1. wire' = wire /\ torn' = torn
    BY <1>3 DEF TimesOut
  <2>2. WireTypes'
    BY <2>1 DEF WireTypes, Payload
  <2>3. QED BY <1>3, <2>1, <2>2, TimesOutFacts, TimesOutFrames DEF Framing, Takes
<1>4. CASE ReadHeader(t)
  <2>1. /\ RxTypes' /\ \A u \in Thread : u # t => rx'[u] = rx[u]
        /\ rx[t].at = "header" /\ rx'[t].at \in {"payload", "done"} /\ torn' \in BOOLEAN
        /\ (torn' = TRUE \/ torn' = torn) /\ wire # <<>> /\ wire' = Tail(wire)
    BY <1>1, <1>4, ReadHeaderFacts
  <2>2. WireTypes'
    <3>1. wire \in Seq(Part) /\ Len(wire) >= 1 /\ wire' = SubSeq(wire, 1 + 1, Len(wire))
      BY <2>1, WireFacts, TailIsSubSeq
    <3>2. QED BY <2>1, <3>1, ReadFacts
  <2>3. QED BY <1>1, <1>4, <2>1, <2>2, ReadHeaderFrames DEF Framing, Takes
<1>5. CASE ReadPayload(t)
  <2> DEFINE n == IF rx[t].left < Len(wire) THEN rx[t].left ELSE Len(wire)
  <2>1. /\ RxTypes' /\ \A u \in Thread : u # t => rx'[u] = rx[u]
        /\ rx[t].at = "payload" /\ rx'[t].at \in {"payload", "done"} /\ torn' \in BOOLEAN
        /\ (torn => torn') /\ wire' = SubSeq(wire, n + 1, Len(wire)) /\ n \in 1 .. Len(wire)
    BY <1>5, ReadPayloadFacts
  <2> HIDE DEF n
  <2>2. WireTypes'
    <3>1. n \in Nat /\ n <= Len(wire)
      BY <2>1, WireFacts
    <3>2. QED BY <2>1, <3>1, ReadFacts
  <2>3. QED BY <1>1, <1>5, <2>1, <2>2, ReadPayloadFrames DEF Framing, Takes
<1>6. QED BY <1>2, <1>3, <1>4, <1>5 DEF Receive

\* What a message that is sent adds to the stream.
Adds(m) ==
  /\ \A i \in DOMAIN wire : i \in DOMAIN wire' /\ wire'[i] = wire[i]
  /\ \E k \in DOMAIN wire' :
       /\ k \notin DOMAIN wire /\ wire'[k] = [of |-> m, part |-> 0]
       /\ \A i \in DOMAIN wire' : i \notin DOMAIN wire /\ i # k => wire'[i].part > 0

\* A message that is sent comes after whole messages.
LEMMA SentFrames ==
  ASSUME Framing, WireTypes, RxTypes, NEW m \in WireMessage, wire' = Sent(m),
         rx' = rx, torn' = torn
  PROVE  WireTypes' /\ RxTypes' /\ Framing' /\ Adds(m)
<1> DEFINE len  == Len(wire)
           size == Payload(m)
<1>1. /\ len \in Nat /\ DOMAIN wire = 1 .. len /\ DOMAIN wire' = 1 .. len + 1 + size
      /\ Len(wire') = len + 1 + size
      /\ \A i \in DOMAIN wire : i \in DOMAIN wire' /\ wire'[i] = wire[i]
      /\ \A i \in DOMAIN wire' : i > len => wire'[i] = [of |-> m, part |-> i - len - 1]
      /\ WireTypes'
  BY WireFacts, SentFacts
<1>2. size \in Nat
  BY PayloadSize
<1>3. RxTypes'
  BY DEF RxTypes, Payload
<1> HIDE DEF len, size
<1>4. \A i \in DOMAIN wire' : i > len => wire'[i].of = m /\ wire'[i].part = i - len - 1
  <2> TAKE i \in DOMAIN wire'
  <2> HAVE i > len
  <2> DEFINE p == i - len - 1
  <2>1. wire'[i] = [of |-> m, part |-> p]
    BY <1>1
  <2> HIDE DEF p
  <2>2. wire'[i].of = m /\ wire'[i].part = p
    BY <2>1
  <2>3. QED BY <2>2 DEF p
<1>5. Adds(m)
  <2>1. len + 1 \in DOMAIN wire' /\ len + 1 \notin DOMAIN wire /\ len + 1 > len
        /\ (len + 1) - len - 1 = 0
    BY <1>1, <1>2
  <2>2. wire'[len + 1] = [of |-> m, part |-> 0]
    <3>1. wire'[len + 1] = [of |-> m, part |-> (len + 1) - len - 1]
      BY <1>1, <2>1
    <3>2. QED BY <2>1, <3>1
  <2>3. ASSUME NEW i \in DOMAIN wire', i \notin DOMAIN wire, i # len + 1
        PROVE  wire'[i].part > 0
    <3>1. i > len /\ i - len - 1 > 0
      BY <1>1, <1>2, <2>3
    <3>2. QED BY <1>4, <3>1
  <2>4. QED BY <1>1, <2>1, <2>2, <2>3 DEF Adds
<1>6. ASSUME Core PROVE Core'
  <2>1. wire # <<>> => len \in DOMAIN wire /\ len >= 1 /\ 1 \in DOMAIN wire
    BY <1>1, WireFacts DEF len
  <2>2. \A i \in DOMAIN wire' :
          /\ wire'[i].part < Payload(wire'[i].of) =>
               i < Len(wire') /\ wire'[i + 1] = [of |-> wire'[i].of, part |-> wire'[i].part + 1]
          /\ wire'[i].part = Payload(wire'[i].of) /\ i < Len(wire') => wire'[i + 1].part = 0
    <3> TAKE i \in DOMAIN wire'
    <3>1. CASE i \in DOMAIN wire /\ i < len
      <4>1. i + 1 \in DOMAIN wire /\ i < Len(wire') /\ wire'[i] = wire[i] /\ wire'[i + 1] = wire[i + 1]
        <5>1. i + 1 \in DOMAIN wire /\ i < Len(wire')
          BY <1>1, <1>2, <3>1
        <5>2. QED BY <1>1, <3>1, <5>1
      <4>2. /\ wire[i].part < Payload(wire[i].of) =>
                 wire[i + 1] = [of |-> wire[i].of, part |-> wire[i].part + 1]
            /\ wire[i].part = Payload(wire[i].of) => wire[i + 1].part = 0
        BY <1>6, <3>1 DEF Core, Whole, len
      <4>3. QED BY <4>1, <4>2
    <3>2. CASE i \in DOMAIN wire /\ ~(i < len)
      <4>1. i = len /\ wire'[i] = wire[i] /\ len + 1 \in DOMAIN wire' /\ i < Len(wire')
        BY <1>1, <1>2, <3>2
      <4>2. wire[i].part \in 0 .. Payload(wire[i].of) /\ Payload(wire[i].of) \in Nat
        BY <3>2, WireFacts, PayloadSize
      <4>3. ~(wire[i].part < Payload(wire[i].of))
        <5>1. ~(i < Len(wire))
          BY <3>2 DEF len
        <5>2. QED BY <1>6, <3>2, <5>1 DEF Core, Whole
      <4>4. wire'[i + 1].part = 0
        <5>1. wire'[len + 1].part = (len + 1) - len - 1 /\ (len + 1) - len - 1 = 0
          BY <1>1, <1>4, <4>1
        <5>2. QED BY <4>1, <5>1
      <4>5. QED BY <4>1, <4>3, <4>4
    <3>3. CASE i \notin DOMAIN wire
      <4>1. i > len /\ i <= len + 1 + size /\ i \in Nat
        BY <1>1, <1>2, <3>3
      <4>2. wire'[i].of = m /\ wire'[i].part = i - len - 1
        BY <1>4, <4>1
      <4>3. CASE i < Len(wire')
        <5>1. i + 1 \in DOMAIN wire' /\ i + 1 > len /\ (i + 1) - len - 1 = (i - len - 1) + 1
          BY <1>1, <1>2, <4>1, <4>3
        <5>2. wire'[i + 1] = [of |-> m, part |-> (i + 1) - len - 1]
          BY <1>1, <5>1
        <5>3. ~(i - len - 1 = size)
          BY <1>1, <1>2, <4>1, <4>3
        <5>4. QED BY <4>2, <4>3, <5>1, <5>2, <5>3 DEF size
      <4>4. CASE ~(i < Len(wire'))
        <5>1. ~(i - len - 1 < size)
          BY <1>1, <1>2, <4>1, <4>4
        <5>2. QED BY <4>2, <4>4, <5>1 DEF size
      <4>5. QED BY <4>3, <4>4
    <3>4. QED BY <3>1, <3>2, <3>3
  <2>3. Whole'
    BY <2>2 DEF Whole, Payload
  <2>4. Start'
    <3> SUFFICES ASSUME \A u \in Thread : rx[u].at # "payload" PROVE wire'[1].part = 0
      BY DEF Start
    <3>1. CASE wire # <<>>
      BY <1>1, <1>6, <2>1, <3>1 DEF Core, Start
    <3>2. CASE wire = <<>>
      <4>1. len = 0
        BY <3>2, EmptySeq DEF len
      <4>2. 1 \in DOMAIN wire' /\ 1 > len /\ 1 - len - 1 = 0
        BY <1>1, <1>2, <4>1
      <4>3. QED BY <1>4, <4>2
    <3>3. QED BY <3>1, <3>2
  <2>5. \A u \in Thread : Rest1(u)' /\ Hand(u)'
    <3> TAKE u \in Thread
    <3>1. Hand(u)'
      BY <1>6 DEF Core, Hand
    <3>2. CASE rx[u].at = "payload"
      <4>1. /\ wire # <<>> /\ wire[1] = [of |-> rx[u].msg, part |-> Payload(rx[u].msg) - rx[u].left + 1]
            /\ \A v \in Thread : rx[v].at = "payload" => v = u
        BY <1>6, <3>2 DEF Core, Rest1
      <4>2. 1 \in DOMAIN wire' /\ wire'[1] = wire[1]
        BY <1>1, <2>1, <4>1
      <4>3. wire' # <<>>
        <5>1. Len(wire') # 0
          BY <1>1, <1>2
        <5>2. QED BY <5>1, EmptySeq
      <4>4. QED BY <3>1, <4>1, <4>2, <4>3 DEF Rest1, Payload
    <3>3. CASE rx[u].at # "payload"
      BY <3>1, <3>3 DEF Rest1
    <3>4. QED BY <3>2, <3>3
  <2>6. QED BY <2>3, <2>4, <2>5 DEF Core
<1>7. QED BY <1>1, <1>3, <1>5, <1>6 DEF Framing

\* A receiver is called, or its caller takes what it returned.
LEMMA HandedFrames ==
  ASSUME Framing, WireTypes, RxTypes, NEW t \in Thread, rx[t].at # "payload",
         rx' = Calls(t) \/ rx' = Consumed(t), wire' = wire, torn' = torn
  PROVE  /\ WireTypes' /\ RxTypes' /\ Framing'
         /\ \A u \in Thread : u # t => rx'[u] = rx[u]
         /\ rx' = Calls(t) => rx'[t].at = "select" /\ rx'[t].msg = NoMessage
         /\ rx' = Consumed(t) => rx'[t].at = "off"
<1>1. /\ RxTypes' /\ \A u \in Thread : u # t => rx'[u] = rx[u]
      /\ rx' = Calls(t) => rx'[t].at = "select" /\ rx'[t].msg = NoMessage
      /\ rx' = Consumed(t) => rx'[t].at = "off"
  BY CallsFacts, ConsumedFacts
<1>2. WireTypes'
  BY DEF WireTypes, Payload
<1>3. ASSUME Core PROVE Core'
  <2>1. Hand(t)'
    BY <1>1 DEF Hand
  <2>2. rx'[t].at # "payload"
    BY <1>1
  <2>3. QED BY <1>1, <1>3, <2>1, <2>2, OnlyReceivers
<1>4. QED BY <1>1, <1>2, <1>3 DEF Framing

-----------------------------------------------------------------------------
(* The listener.                                                            *)

LinkTypes == WireTypes /\ RxTypes /\ ListenerTypes

\* The listener has a notice of a move, or has read its header.
Noticed == listener.at = "recv" /\ rx["listener"].msg.type = "move_result"

\* The parts of the listener, and that they are all of it.
LEMMA ListenerFields ==
  ASSUME ListenerTypes
  PROVE  /\ listener.at \in {"peek", "recv", "ended"} /\ listener.errors \in 0 .. MaxErrors
         /\ listener.retries \in 0 .. MaxRecvRetries - 1
         /\ listener = [at |-> listener.at, errors |-> listener.errors, retries |-> listener.retries]
  BY DEF ListenerTypes

\* A step that neither calls a receiver nor hands its result on.
LEMMA ListenerStays ==
  ASSUME ListenerTypes, listener' = listener,
         rx'["listener"].at = "off" <=> rx["listener"].at = "off"
  PROVE  ListenerTypes'
  BY DEF ListenerTypes

\* What the listener does between its calls disturbs no frame.
LEMMA ListenFrames ==
  ASSUME Framing, LinkTypes, Listen
  PROVE  /\ LinkTypes' /\ Framing' /\ wire' = wire /\ torn' = torn /\ rx'["main"] = rx["main"]
         /\ listener.at = "ended" => listener'.at = "ended"
         /\ ~torn /\ Noticed => Noticed'
<1>1. wire' = wire /\ torn' = torn
  BY DEF Listen, Peek, PeekTimesOut, RetryOrGiveUp
<1>2. WireTypes' /\ "listener" \in Thread /\ "main" \in Thread /\ "main" # "listener"
  BY <1>1 DEF LinkTypes, WireTypes, Payload, Thread
<1>3. ASSUME rx' = rx PROVE RxTypes' /\ Framing'
  <2>1. Core => Core'
    BY <1>1, <1>3 DEF Core, Whole, Start, Rest1, Hand, Payload
  <2>2. RxTypes'
    BY <1>3 DEF LinkTypes, RxTypes, Payload
  <2>3. QED BY <1>1, <2>1, <2>2 DEF Framing
<1>4. ASSUME rx["listener"].at # "payload", rx' = Calls("listener") \/ rx' = Consumed("listener")
      PROVE  /\ RxTypes' /\ Framing' /\ rx'["main"] = rx["main"]
             /\ rx' = Calls("listener") => rx'["listener"].at = "select"
             /\ rx' = Consumed("listener") => rx'["listener"].at = "off"
  BY <1>1, <1>2, <1>4, HandedFrames DEF LinkTypes
<1>5. /\ listener.at \in {"peek", "recv", "ended"} /\ listener.errors \in 0 .. MaxErrors
      /\ listener.retries \in 0 .. MaxRecvRetries - 1
      /\ listener = [at |-> listener.at, errors |-> listener.errors, retries |-> listener.retries]
      /\ listener.at # "ended" => listener.errors < MaxErrors
      /\ listener.at = "recv" <=> rx["listener"].at # "off"
  BY ListenerFields DEF LinkTypes, ListenerTypes
<1>6. 0 \in 0 .. MaxErrors /\ 0 \in 0 .. MaxRecvRetries - 1 /\ 0 < MaxErrors
  BY Sizes
<1>7. ASSUME Peek PROVE LinkTypes' /\ Framing' /\ rx'["main"] = rx["main"]
  <2>1. listener.at = "peek" /\ rx["listener"].at = "off"
    BY <1>5, <1>7 DEF Peek
  <2>2. CASE rx' = Calls("listener") /\ listener' = [at |-> "recv", errors |-> 0, retries |-> 0]
    <3>1. RxTypes' /\ Framing' /\ rx'["main"] = rx["main"] /\ rx'["listener"].at = "select"
      BY <1>4, <2>1, <2>2
    <3>2. ListenerTypes'
      BY <1>6, <2>2, <3>1 DEF ListenerTypes
    <3>3. QED BY <1>2, <3>1, <3>2 DEF LinkTypes
  <2>3. CASE listener' = [listener EXCEPT !.errors = 0] /\ rx' = rx
    <3>1. ListenerTypes'
      BY <1>5, <1>6, <2>1, <2>3 DEF ListenerTypes
    <3>2. QED BY <1>2, <1>3, <2>3, <3>1 DEF LinkTypes
  <2>4. CASE /\ listener' = [listener EXCEPT !.errors = @ + 1,
                               !.at = IF listener.errors + 1 = MaxErrors THEN "ended" ELSE @]
             /\ rx' = rx
    <3> DEFINE errors == listener.errors + 1
               where  == IF errors = MaxErrors THEN "ended" ELSE "peek"
    <3>1. listener' = [at |-> where, errors |-> errors, retries |-> listener.retries]
      BY <1>5, <2>1, <2>4
    <3>2. errors \in 0 .. MaxErrors /\ (errors = MaxErrors \/ errors < MaxErrors)
      BY <1>5, <2>1, Sizes
    <3>3. where \in {"peek", "ended"} /\ (where # "ended" => errors < MaxErrors)
      BY <3>2
    <3> HIDE DEF errors, where
    <3>4. ListenerTypes'
      <4>1. /\ listener'.at = where /\ listener'.errors = errors
            /\ listener' \in [at : {"peek", "recv", "ended"}, errors : 0 .. MaxErrors,
                              retries : 0 .. MaxRecvRetries - 1]
        BY <1>5, <3>1, <3>2, <3>3
      <4>2. rx'["listener"].at = "off" /\ listener'.at # "recv"
        BY <2>1, <2>4, <3>3, <4>1
      <4>3. QED BY <3>3, <4>1, <4>2 DEF ListenerTypes
    <3>5. QED BY <1>2, <1>3, <2>4, <3>4 DEF LinkTypes
  <2>5. QED BY <1>7, <2>2, <2>3, <2>4 DEF Peek
<1>8. ASSUME PeekTimesOut PROVE LinkTypes' /\ Framing' /\ rx'["main"] = rx["main"]
  <2>1. listener.at = "peek" /\ listener' = [listener EXCEPT !.errors = 0] /\ rx' = rx
    BY <1>8 DEF PeekTimesOut
  <2>2. ListenerTypes'
    BY <1>5, <1>6, <2>1 DEF ListenerTypes
  <2>3. QED BY <1>2, <1>3, <2>1, <2>2 DEF LinkTypes
<1>9. ASSUME RetryOrGiveUp PROVE LinkTypes' /\ Framing' /\ rx'["main"] = rx["main"]
  <2>1. listener.at = "recv" /\ rx["listener"].at = "done"
    BY <1>9 DEF RetryOrGiveUp, Returned
  <2>2. CASE /\ listener.retries + 1 < MaxRecvRetries
             /\ listener' = [listener EXCEPT !.retries = @ + 1] /\ rx' = Calls("listener")
    <3>1. RxTypes' /\ Framing' /\ rx'["main"] = rx["main"] /\ rx'["listener"].at = "select"
      BY <1>4, <2>1, <2>2
    <3>2. listener.retries + 1 \in 0 .. MaxRecvRetries - 1
      BY <1>5, <2>2, Sizes
    <3>3. ListenerTypes'
      BY <1>5, <2>1, <2>2, <3>1, <3>2 DEF ListenerTypes
    <3>4. QED BY <1>2, <3>1, <3>3 DEF LinkTypes
  <2>3. CASE /\ listener' = [at |-> "peek", errors |-> 0, retries |-> 0] /\ rx' = Consumed("listener")
    <3>1. RxTypes' /\ Framing' /\ rx'["main"] = rx["main"] /\ rx'["listener"].at = "off"
      BY <1>4, <2>1, <2>3
    <3>2. ListenerTypes'
      BY <1>6, <2>3, <3>1 DEF ListenerTypes
    <3>3. QED BY <1>2, <3>1, <3>2 DEF LinkTypes
  <2>4. QED BY <1>9, <2>2, <2>3 DEF RetryOrGiveUp
<1>10. listener.at # "ended"
  BY DEF Listen, Peek, PeekTimesOut, RetryOrGiveUp
<1>11. ASSUME ~torn PROVE ~Noticed
  <2> SUFFICES ASSUME Noticed PROVE FALSE
    OBVIOUS
  <2>1. RetryOrGiveUp
    BY DEF Listen, Peek, PeekTimesOut, Noticed
  <2>2. rx["listener"].at = "done" /\ rx["listener"].err # "success"
    BY <2>1 DEF RetryOrGiveUp, Returned
  <2>3. rx["listener"].msg = NoMessage
    BY <1>2, <1>11, <2>2 DEF Framing, Core, Hand
  <2>4. QED BY <2>3 DEF Noticed, NoMessage, Message
<1>12. LinkTypes' /\ Framing' /\ rx'["main"] = rx["main"]
  BY <1>7, <1>8, <1>9 DEF Listen
<1>13. QED BY <1>1, <1>10, <1>11, <1>12

\* Nor does handling what it received.
LEMMA HandlesFrames ==
  ASSUME Framing, LinkTypes, NEW m, Handles(m)
  PROVE  /\ LinkTypes' /\ Framing' /\ wire' = wire /\ torn' = torn /\ rx'["main"] = rx["main"]
         /\ listener.at # "ended" /\ m = rx["listener"].msg
<1>1. /\ wire' = wire /\ torn' = torn /\ rx' = Consumed("listener") /\ rx["listener"].at = "done"
      /\ listener.at = "recv" /\ listener' = [at |-> "peek", errors |-> 0, retries |-> 0]
      /\ m = rx["listener"].msg
  BY DEF Handles, Returned
<1>2. "listener" \in Thread /\ "main" \in Thread /\ "main" # "listener"
  BY DEF Thread
<1>3. WireTypes' /\ RxTypes' /\ Framing' /\ rx'["main"] = rx["main"] /\ rx'["listener"].at = "off"
  BY <1>1, <1>2, HandedFrames DEF LinkTypes
<1>4. 0 \in 0 .. MaxErrors /\ 0 \in 0 .. MaxRecvRetries - 1 /\ 0 < MaxErrors
  BY Sizes
<1>5. ListenerTypes'
  BY <1>1, <1>3, <1>4 DEF ListenerTypes
<1>6. QED BY <1>1, <1>3, <1>5 DEF LinkTypes

-----------------------------------------------------------------------------
(* Types and framing.                                                       *)

Sound == Types /\ Framing

\* History only grows, and an ended listener does not return.
Monotone == (torn => torn') /\ (slipped => slipped') /\ (listener.at = "ended" => listener'.at = "ended")

\* What the server sends are messages.
LEMMA Messages ==
  /\ \A b \in Board : Message("board_state", b) \in WireMessage
                    /\ Message("my_game_list", b) \in WireMessage
  /\ Message("ack", Nothing) \in WireMessage /\ Message("move_result", Nothing) \in WireMessage
  BY DEF Message, WireMessage

\* The link is as good as it was if nobody touches it.
LEMMA LinkStays ==
  ASSUME LinkTypes, Framing, UNCHANGED linkVars
  PROVE  LinkTypes' /\ Framing' /\ rx' = rx /\ wire' = wire /\ torn' = torn /\ listener' = listener
<1>1. rx' = rx /\ wire' = wire /\ torn' = torn /\ listener' = listener
  BY DEF linkVars
<1>2. WireTypes'
  BY <1>1 DEF LinkTypes, WireTypes, Payload
<1>3. RxTypes' /\ ListenerTypes'
  BY <1>1 DEF LinkTypes, RxTypes, ListenerTypes, Payload
<1>4. Core => Core'
  BY <1>1 DEF Core, Whole, Start, Rest1, Hand, Payload
<1>5. QED BY <1>1, <1>2, <1>3, <1>4 DEF LinkTypes, Framing

\* The main thread calls the receiver, or takes what it returned.
LEMMA MainHands ==
  ASSUME LinkTypes, Framing, UNCHANGED <<wire, listener, torn>>, rx["main"].at # "payload",
         rx' = Calls("main") \/ rx' = Consumed("main")
  PROVE  /\ LinkTypes' /\ Framing' /\ rx'["listener"] = rx["listener"]
         /\ wire' = wire /\ torn' = torn /\ listener' = listener
         /\ rx' = Calls("main") => rx'["main"].at = "select" /\ rx'["main"].msg = NoMessage
         /\ rx' = Consumed("main") => rx'["main"].at = "off"
<1>1. "listener" \in Thread /\ "main" \in Thread /\ "main" # "listener"
  BY DEF Thread
<1>2. /\ WireTypes' /\ RxTypes' /\ Framing' /\ rx'["listener"] = rx["listener"]
      /\ rx' = Calls("main") => rx'["main"].at = "select" /\ rx'["main"].msg = NoMessage
      /\ rx' = Consumed("main") => rx'["main"].at = "off"
  BY <1>1, HandedFrames DEF LinkTypes
<1>3. ListenerTypes'
  BY <1>2, ListenerStays DEF LinkTypes
<1>4. QED BY <1>2, <1>3 DEF LinkTypes

\* A message is sent to the client, or nothing is.
LEMMA LinkSends ==
  ASSUME LinkTypes, Framing, UNCHANGED <<rx, listener, torn>>, NEW m \in WireMessage, wire' = Sent(m)
  PROVE  LinkTypes' /\ Framing' /\ Adds(m)
<1>1. WireTypes' /\ RxTypes' /\ Framing' /\ Adds(m)
  BY SentFrames DEF LinkTypes
<1>2. ListenerTypes'
  BY ListenerStays DEF LinkTypes
<1>3. QED BY <1>1, <1>2 DEF LinkTypes

\* A thread that receives keeps the link whole, and waits on or is done.
LEMMA LinkReceives ==
  ASSUME LinkTypes, Framing, NEW t \in Thread, Receive(t)
  PROVE  LinkTypes' /\ Framing' /\ listener' = listener /\ (torn => torn')
         /\ (rx'["main"].at = "off" <=> rx["main"].at = "off")
<1>1. listener' = listener
  BY DEF Receive, Readable, TimesOut, ReadHeader, ReadPayload
<1>2. /\ WireTypes' /\ RxTypes' /\ Framing' /\ (torn => torn')
      /\ \A u \in Thread : rx'[u].at = "off" <=> rx[u].at = "off"
  BY ReceiveFrames DEF LinkTypes
<1>3. ListenerTypes'
  BY <1>1, <1>2, ListenerStays DEF LinkTypes, Thread
<1>4. QED BY <1>1, <1>2, <1>3 DEF LinkTypes, Thread

\* The main thread does not receive unless it waits.
LEMMA MainAtRest ==
  ASSUME MainTypes
  PROVE  at \notin Waiting <=> rx["main"].at = "off"
  BY DEF MainTypes

\* A step of the client changes no more of the server than its requests.
LEMMA ServerStays ==
  ASSUME ServerTypes, UNCHANGED serverVars,
         UNCHANGED <<requests, sent>> \/ \E request \in Request : Sends(request)
  PROVE  ServerTypes'
<1>1. game' = game /\ moving' = moving /\ reply' = reply
  BY DEF serverVars
<1>2. requests' \in Seq(Request) /\ sent' \in 0 .. MaxRequests
  <2>1. requests \in Seq(Request) /\ sent \in 0 .. MaxRequests
    BY DEF ServerTypes
  <2>2. CASE UNCHANGED <<requests, sent>>
    BY <2>1, <2>2
  <2>3. CASE \E request \in Request : Sends(request)
    <3>1. PICK request \in Request : Sends(request)
      BY <2>3
    <3>2. requests' = Append(requests, request) /\ sent' = sent + 1 /\ sent < MaxRequests
      BY <3>1 DEF Sends
    <3>3. sent' \in 0 .. MaxRequests
      BY <2>1, <3>2, Sizes
    <3>4. QED BY <2>1, <3>2, <3>3, AppendProperties
  <2>4. QED BY <2>2, <2>3
<1>3. QED BY <1>1, <1>2 DEF ServerTypes

\* The main thread calls, or takes what it is handed.
LEMMA MainCallsSound ==
  ASSUME Sound, Listed \/ List \/ RequestBoard \/ RetryBoard \/ AskAgain \/ ShowBoard
  PROVE  Sound' /\ Monotone
<1>1. LinkTypes /\ Framing /\ MainTypes /\ ServerTypes
  BY DEF Sound, Types, LinkTypes
<1>2. SUFFICES LinkTypes' /\ Framing' /\ MainTypes' /\ ServerTypes' /\ Monotone
  BY DEF Sound, Types, LinkTypes
<1> DEFINE Hands == /\ UNCHANGED <<wire, listener, torn>>
                    /\ rx' = Calls("main") \/ rx' = Consumed("main")
<1>3. Hands /\ rx["main"].at \in {"off", "done"}
  <2>1. CASE Listed \/ AskAgain \/ ShowBoard \/ RetryBoard
    BY <2>1 DEF Listed, RetryBoard, AskAgain, ShowBoard, Got, Returned
  <2>2. CASE List \/ RequestBoard
    BY <1>1, <2>2, MainAtRest DEF List, RequestBoard, Waiting
  <2>3. QED BY <2>1, <2>2
<1>4. /\ LinkTypes' /\ Framing' /\ torn' = torn /\ listener' = listener
      /\ rx' = Calls("main") => rx'["main"].at = "select"
      /\ rx' = Consumed("main") => rx'["main"].at = "off"
  <2>1. rx["main"].at # "payload"
    BY <1>3
  <2>2. QED BY <1>1, <1>3, <2>1, MainHands
<1>5. ServerTypes'
  <2>1. UNCHANGED serverVars
    BY DEF Listed, List, RequestBoard, RetryBoard, AskAgain, ShowBoard
  <2>2. UNCHANGED <<requests, sent>> \/ \E request \in Request : Sends(request)
    BY DEF Listed, List, RequestBoard, RetryBoard, AskAgain, ShowBoard, Request
  <2>3. QED BY <1>1, <2>1, <2>2, ServerStays
<1>6. /\ at \in Place /\ board \in Board /\ wanted \in BOOLEAN /\ known \in BOOLEAN
      /\ pipe \in BOOLEAN /\ slipped \in BOOLEAN /\ retries \in 0 .. MaxRetries
      /\ at \in Waiting <=> rx["main"].at # "off"
  BY <1>1 DEF MainTypes
<1>7. MainTypes' /\ (slipped => slipped')
  <2>1. CASE Listed
    <3>1. PICK found \in BOOLEAN : /\ known' = found /\ wanted' = found /\ pipe' = (pipe /\ ~found)
                                   /\ at' = IF found THEN "INIT" ELSE "menu"
      <4> DEFINE there == rx["main"].msg.data.phase # "gone"
                 Found == IF ~Got("my_game_list") THEN {FALSE}
                          ELSE IF rx["main"].msg.data = Garbage THEN BOOLEAN ELSE {there}
      <4>1. PICK found \in Found : /\ known' = found /\ wanted' = found /\ pipe' = (pipe /\ ~found)
                                   /\ at' = IF found THEN "INIT" ELSE "menu"
        BY <2>1 DEF Listed
      <4>2. there \in BOOLEAN
        OBVIOUS
      <4> HIDE DEF there
      <4>3. found \in BOOLEAN
        BY <4>2
      <4>4. QED BY <4>1, <4>3
    <3>2. rx'["main"].at = "off" /\ board' = board /\ retries' = retries
          /\ slipped' = (slipped \/ ~Got("my_game_list"))
      BY <1>4, <2>1 DEF Listed
    <3>3. at' \in {"INIT", "menu"} /\ pipe' \in BOOLEAN /\ slipped' \in BOOLEAN /\ (slipped => slipped')
      BY <1>6, <3>1, <3>2
    <3>4. QED BY <1>6, <3>1, <3>2, <3>3 DEF MainTypes, Place, Waiting
  <2>2. CASE List
    <3>1. /\ rx'["main"].at = "select" /\ at' = "listing"
          /\ UNCHANGED <<board, wanted, retries, known, pipe, slipped>>
      BY <1>4, <2>2 DEF List
    <3>2. QED BY <1>6, <3>1 DEF MainTypes, Place, Waiting
  <2>3. CASE RequestBoard
    <3>1. /\ rx'["main"].at = "select" /\ at' = "WAITING_BOARD" /\ wanted' = FALSE /\ retries' = 0
          /\ UNCHANGED <<board, known, pipe, slipped>>
      BY <1>4, <2>3 DEF RequestBoard
    <3>2. 0 \in 0 .. MaxRetries
      BY Sizes
    <3>3. QED BY <1>6, <3>1, <3>2 DEF MainTypes, Place, Waiting
  <2>4. CASE RetryBoard
    <3>1. /\ rx'["main"].at = "select" /\ at = "WAITING_BOARD" /\ retries' = retries + 1
          /\ retries < MaxRetries /\ UNCHANGED <<at, board, wanted, known, pipe, slipped>>
      BY <1>4, <2>4 DEF RetryBoard
    <3>2. retries + 1 \in 0 .. MaxRetries
      BY <1>6, <3>1, Sizes
    <3>3. QED BY <1>6, <3>1, <3>2 DEF MainTypes, Place, Waiting
  <2>5. CASE AskAgain
    <3>1. /\ rx'["main"].at = "off" /\ at' = "INIT" /\ wanted' = TRUE /\ slipped' = TRUE
          /\ UNCHANGED <<board, retries, known, pipe>>
      BY <1>4, <2>5 DEF AskAgain
    <3>2. QED BY <1>6, <3>1 DEF MainTypes, Place, Waiting
  <2>6. CASE ShowBoard
    <3>1. PICK b \in Board :
            /\ board' = b
            /\ at' = CASE b.phase = "gone"     -> "menu"
                       [] b.phase = "finished" -> "GAME_OVER"
                       [] b.phase = "playing"  -> "IDLE"
            /\ known' = (known /\ b.phase # "gone")
      BY <2>6 DEF ShowBoard
    <3>2. at' \in {"menu", "GAME_OVER", "IDLE"} /\ known' \in BOOLEAN
      <4>1. b.phase \in {"playing", "finished", "gone"}
        BY DEF Board
      <4>2. QED BY <1>6, <3>1, <4>1
    <3>3. rx'["main"].at = "off" /\ UNCHANGED <<wanted, retries, pipe, slipped>>
      BY <1>4, <2>6 DEF ShowBoard
    <3>4. QED BY <1>6, <3>1, <3>2, <3>3 DEF MainTypes, Place, Waiting
  <2>7. QED BY <2>1, <2>2, <2>3, <2>4, <2>5, <2>6
<1>8. QED BY <1>4, <1>5, <1>7 DEF Monotone

\* The main thread does something else.
LEMMA MainActsSound ==
  ASSUME Sound, Enter \/ Wake \/ MoveTimesOut \/ PlayMove \/ Leave \/ Rematch
  PROVE  Sound' /\ Monotone /\ rx' = rx /\ wire' = wire /\ listener' = listener /\ torn' = torn
<1>1. LinkTypes /\ Framing /\ MainTypes /\ ServerTypes
  BY DEF Sound, Types, LinkTypes
<1>2. LinkTypes' /\ Framing' /\ rx' = rx /\ wire' = wire /\ listener' = listener /\ torn' = torn
  <2>1. UNCHANGED linkVars
    BY DEF Enter, Wake, MoveTimesOut, PlayMove, Leave, Rematch
  <2>2. QED BY <1>1, <2>1, LinkStays
<1>3. ServerTypes'
  <2>1. UNCHANGED serverVars
    BY DEF Enter, Wake, MoveTimesOut, PlayMove, Leave, Rematch
  <2>2. UNCHANGED <<requests, sent>> \/ \E request \in Request : Sends(request)
    BY DEF Enter, Wake, MoveTimesOut, PlayMove, Leave, Rematch, Request
  <2>3. QED BY <1>1, <2>1, <2>2, ServerStays
<1>4. MainTypes' /\ (slipped => slipped')
  <2>1. at \notin Waiting /\ at' \in Place /\ at' \notin Waiting
    BY DEF Enter, Wake, MoveTimesOut, PlayMove, Leave, Rematch, Polling, Waiting, Place
  <2>2. /\ wanted' \in BOOLEAN /\ known' \in BOOLEAN /\ pipe' \in BOOLEAN /\ slipped' \in BOOLEAN
        /\ retries' \in 0 .. MaxRetries /\ board' = board /\ (slipped => slipped')
    <3>1. 0 \in 0 .. MaxRetries
      BY Sizes
    <3>2. /\ wanted \in BOOLEAN /\ known \in BOOLEAN /\ pipe \in BOOLEAN /\ slipped \in BOOLEAN
          /\ retries \in 0 .. MaxRetries
      BY <1>1 DEF MainTypes
    <3>3. CASE Enter
      BY <3>1, <3>2, <3>3 DEF Enter, ClearNotifications
    <3>4. CASE Wake
      BY <3>2, <3>4 DEF Wake, ClearNotifications
    <3>5. CASE MoveTimesOut
      BY <3>2, <3>5 DEF MoveTimesOut
    <3>6. CASE PlayMove
      BY <3>2, <3>6 DEF PlayMove
    <3>7. CASE Leave
      BY <3>2, <3>7 DEF Leave
    <3>8. CASE Rematch
      BY <3>2, <3>8 DEF Rematch
    <3>9. QED BY <3>3, <3>4, <3>5, <3>6, <3>7, <3>8
  <2>3. QED BY <1>1, <1>2, <2>1, <2>2 DEF MainTypes
<1>5. QED BY <1>1, <1>2, <1>3, <1>4 DEF Sound, Types, LinkTypes, Monotone

\* A thread receives, or the listener does what it does.
LEMMA ReaderSound ==
  ASSUME Sound, (\E t \in Thread : Receive(t) /\ Rest) \/ (Listen /\ Rest) \/ Notified
  PROVE  Sound' /\ Monotone
<1>1. LinkTypes /\ Framing /\ MainTypes /\ ServerTypes
  BY DEF Sound, Types, LinkTypes
<1>2. /\ LinkTypes' /\ Framing' /\ (rx'["main"].at = "off" <=> rx["main"].at = "off")
      /\ (torn => torn') /\ (listener.at = "ended" => listener'.at = "ended")
  <2>1. CASE \E t \in Thread : Receive(t) /\ Rest
    BY <1>1, <2>1, LinkReceives
  <2>2. CASE Listen /\ Rest
    BY <1>1, <2>2, ListenFrames
  <2>3. CASE Notified
    BY <1>1, <2>3, HandlesFrames DEF Notified
  <2>4. QED BY <2>1, <2>2, <2>3
<1>3. UNCHANGED <<mainVars, serverVars, requests, sent>> /\ (pipe' = pipe \/ pipe' = TRUE)
  BY DEF Rest, Notified, NotifyTurn
<1>4. ServerTypes'
  BY <1>1, <1>3, ServerStays
<1>5. MainTypes' /\ slipped' = slipped
  <2>1. UNCHANGED <<at, board, wanted, retries, known, slipped>>
    BY <1>3 DEF mainVars
  <2>2. pipe' \in BOOLEAN
    BY <1>1, <1>3 DEF MainTypes
  <2>3. QED BY <1>1, <1>2, <2>1, <2>2 DEF MainTypes
<1>6. QED BY <1>2, <1>4, <1>5 DEF Sound, Types, LinkTypes, Monotone

\* A move that is accepted.
LEMMA PlayedTypes ==
  ASSUME game \in Board, NEW seat \in Seat, Played(seat)
  PROVE  game' \in Board /\ game.turn = seat /\ game'.moves = game.moves + 1
<1>1. /\ game.moves \in 0 .. MaxMoves /\ game.moves < MaxMoves /\ game.turn = seat
      /\ \/ game' = [game EXCEPT !.moves = @ + 1, !.turn = Other(seat)]
         \/ game' = [game EXCEPT !.moves = @ + 1, !.phase = "finished"]
  BY DEF Played, Board
<1>2. game.moves + 1 \in 0 .. MaxMoves /\ Other(seat) \in Seat
  BY <1>1, Sizes DEF Other, Seat
<1>3. game' \in Board /\ game'.moves = game.moves + 1
  BY <1>1, <1>2 DEF Board
<1>4. QED BY <1>1, <1>3

\* The head of the requests is taken.
LEMMA TailTypes ==
  ASSUME ServerTypes, requests # <<>>, requests' = Tail(requests)
  PROVE  requests' \in Seq(Request)
  BY HeadTailProperties DEF ServerTypes

\* The threads of the server.
LEMMA ServerSound ==
  ASSUME Sound,
         HandlePlayMove \/ OpponentMoves \/ RemoveGame \/ Copy \/ Answer \/ \E seat \in Seat : TellMove(seat)
  PROVE  /\ Sound' /\ Monotone /\ UNCHANGED <<rx, listener, torn, mainVars, pipe>>
         /\ wire' = wire \/ (\E seat \in Seat : TellMove(seat)) \/ Answer
<1>1. LinkTypes /\ Framing /\ MainTypes /\ ServerTypes
  BY DEF Sound, Types, LinkTypes
<1>2. UNCHANGED <<rx, listener, torn, mainVars, pipe>>
  BY DEF HandlePlayMove, OpponentMoves, RemoveGame, Copy, Answer, TellMove, linkVars
<1>3. /\ game \in Board /\ moving \subseteq Seat /\ requests \in Seq(Request) /\ sent \in 0 .. MaxRequests
      /\ reply = {} \/ \E m \in WireMessage : reply = {m}
  BY <1>1 DEF ServerTypes
<1>4. MainTypes'
  BY <1>1, <1>2 DEF MainTypes, mainVars
<1>5. ASSUME UNCHANGED wire PROVE LinkTypes' /\ Framing'
  <2>1. UNCHANGED linkVars
    BY <1>2, <1>5 DEF linkVars
  <2>2. QED BY <1>1, <2>1, LinkStays
<1>6. ASSUME NEW m \in WireMessage, wire' = Sent(m) PROVE LinkTypes' /\ Framing'
  BY <1>1, <1>2, <1>6, LinkSends
<1>7. CASE HandlePlayMove
  <2>1. wire' = wire /\ reply' = reply /\ sent' = sent /\ requests # <<>> /\ requests' = Tail(requests)
        /\ moving' = moving \union {"me"} /\ (Played("me") \/ game' = game)
    BY <1>7 DEF HandlePlayMove, linkVars
  <2>2. game' \in Board /\ moving' \subseteq Seat
    BY <1>3, <2>1, PlayedTypes DEF Seat
  <2>3. ServerTypes'
    BY <1>1, <1>3, <2>1, <2>2, TailTypes DEF ServerTypes
  <2>4. QED BY <1>2, <1>4, <1>5, <2>1, <2>3 DEF Sound, Types, LinkTypes, Monotone, mainVars
<1>8. CASE OpponentMoves
  <2>1. wire' = wire /\ reply' = reply /\ sent' = sent /\ requests' = requests
        /\ moving' = moving \union {"opponent"} /\ Played("opponent")
    BY <1>8 DEF OpponentMoves, linkVars
  <2>2. game' \in Board /\ moving' \subseteq Seat
    BY <1>3, <2>1, PlayedTypes DEF Seat
  <2>3. ServerTypes'
    BY <1>3, <2>1, <2>2 DEF ServerTypes
  <2>4. QED BY <1>2, <1>4, <1>5, <2>1, <2>3 DEF Sound, Types, LinkTypes, Monotone, mainVars
<1>9. CASE RemoveGame
  <2>1. wire' = wire /\ reply' = reply /\ sent' = sent /\ requests' = requests /\ moving' = moving
        /\ game' = [game EXCEPT !.phase = "gone"]
    BY <1>9 DEF RemoveGame, linkVars
  <2>2. game' \in Board
    BY <1>3, <2>1 DEF Board
  <2>3. ServerTypes'
    BY <1>3, <2>1, <2>2 DEF ServerTypes
  <2>4. QED BY <1>2, <1>4, <1>5, <2>1, <2>3 DEF Sound, Types, LinkTypes, Monotone, mainVars
<1>10. CASE Copy
  <2>1. wire' = wire /\ game' = game /\ sent' = sent /\ moving' = moving /\ requests # <<>>
        /\ requests' = Tail(requests) /\ Head(requests) \in {"get_board", "list", "challenge"}
    BY <1>10 DEF Copy, linkVars
  <2>2. \E m \in WireMessage : reply' = {m}
    BY <1>3, <1>10, <2>1, Messages DEF Copy
  <2>3. ServerTypes'
    BY <1>1, <1>3, <2>1, <2>2, TailTypes DEF ServerTypes
  <2>4. QED BY <1>2, <1>4, <1>5, <2>1, <2>3 DEF Sound, Types, LinkTypes, Monotone, mainVars
<1>11. CASE Answer
  <2>1. PICK m \in reply : wire' = Sent(m) /\ reply' = {}
    BY <1>11 DEF Answer
  <2>2. game' = game /\ sent' = sent /\ moving' = moving /\ requests' = requests
    BY <1>11 DEF Answer
  <2>3. m \in WireMessage
    BY <1>3, <2>1
  <2>4. ServerTypes'
    BY <1>3, <2>1, <2>2 DEF ServerTypes
  <2>5. QED BY <1>2, <1>4, <1>6, <1>11, <2>1, <2>3, <2>4 DEF Sound, Types, LinkTypes, Monotone, mainVars
<1>12. CASE \E seat \in Seat : TellMove(seat)
  <2>1. PICK seat \in Seat : TellMove(seat)
    BY <1>12
  <2>2. game' = game /\ sent' = sent /\ reply' = reply /\ requests' = requests /\ moving' = moving \ {seat}
        /\ (wire' = wire \/ wire' = Sent(Message("move_result", Nothing)))
    BY <2>1 DEF TellMove
  <2>3. ServerTypes'
    BY <1>3, <2>2 DEF ServerTypes
  <2>4. LinkTypes' /\ Framing'
    BY <1>5, <1>6, <2>2, Messages
  <2>5. QED BY <1>2, <1>4, <1>12, <2>3, <2>4 DEF Sound, Types, LinkTypes, Monotone, mainVars
<1>13. QED BY <1>7, <1>8, <1>9, <1>10, <1>11, <1>12

-----------------------------------------------------------------------------
(* Where the answer is, and what is on its way.                             *)

\* Nobody waits: there is no answer, and no board on its way.
LEMMA AtRest ==
  ASSUME Sound, Flow, at \notin Waiting
  PROVE  /\ rx["main"].at = "off" /\ Clear /\ requests \in {<<>>, <<"play_move">>}
         /\ ~Mistaken /\ ~InHand /\ \A b \in Board : ~Underway(b)
<1>1. rx["main"].at = "off"
  BY MainAtRest DEF Sound, Types
<1>2. Clear /\ requests \in {<<>>, <<"play_move">>}
  BY DEF Flow
<1>3. ~Mistaken /\ ~InHand
  BY <1>1 DEF Mistaken, InHand, Has
<1>4. \A b \in Board : ~Underway(b)
  BY <1>1, <1>2 DEF Underway, Clear, OnWire, Answers, BoardMessage, Message
<1>5. QED BY <1>1, <1>2, <1>3, <1>4

\* The answer in hand is the only one.
LEMMA AnswerInHand ==
  ASSUME Flow, at \in Waiting, InHand
  PROVE  requests = <<>> /\ Clear /\ Has("main", Expected)
  BY DEF Flow, Asked, Replying, Sending, Read

\* The headers of answers after n parts are read.
LEMMA OnWireShifts ==
  ASSUME WireTypes, WireTypes', NEW n \in Nat, Shifts(n)
  PROVE  /\ \A i \in OnWire' : i + n \in OnWire /\ wire'[i] = wire[i + n] /\ i \in Nat /\ i >= 1
         /\ OnWire = {} => OnWire' = {}
         /\ \A j \in OnWire : j \in Nat /\ j >= 1 /\ (j > n => j - n \in OnWire' /\ wire'[j - n] = wire[j])
<1>1. DOMAIN wire = 1 .. Len(wire) /\ DOMAIN wire' = 1 .. Len(wire') /\ Len(wire) \in Nat /\ Len(wire') \in Nat
  BY LenProperties DEF WireTypes
<1>2. ASSUME NEW i \in OnWire'
      PROVE  i + n \in OnWire /\ wire'[i] = wire[i + n] /\ i \in Nat /\ i >= 1
  <2>1. i \in 1 .. Len(wire') /\ wire'[i].part = 0 /\ wire'[i].of.type \in Answers
    BY <1>1, <1>2 DEF OnWire
  <2>2. i + n \in DOMAIN wire /\ wire'[i] = wire[i + n]
    BY <2>1 DEF Shifts
  <2>3. QED BY <1>1, <2>1, <2>2 DEF OnWire
<1>3. ASSUME NEW j \in OnWire
      PROVE  j \in Nat /\ j >= 1 /\ (j > n => j - n \in OnWire' /\ wire'[j - n] = wire[j])
  <2>1. j \in DOMAIN wire /\ j \in 1 .. Len(wire) /\ wire[j].part = 0 /\ wire[j].of.type \in Answers
    BY <1>1, <1>3 DEF OnWire
  <2>2. j > n => j - n \in DOMAIN wire' /\ wire'[j - n] = wire[j]
    BY <2>1 DEF Shifts
  <2>3. QED BY <1>1, <2>1, <2>2 DEF OnWire
<1>4. QED BY <1>2, <1>3

\* What a receiver does to the answers that are sent: it leaves the one there is,
\* or takes it.
LEMMA OneOnWire ==
  ASSUME WireTypes, WireTypes', NEW t \in Thread, Takes(t)
  PROVE  /\ OnWire = {} => OnWire' = {}
         /\ \A i \in OnWire : OnWire = {i} =>
              \/ TakesHeader(t) /\ i = 1 /\ OnWire' = {}
              \/ \E k \in OnWire' : OnWire' = {k} /\ wire'[k] = wire[i] /\ ~(TakesHeader(t) /\ i = 1)
<1>1. CASE Waits(t)
  <2>1. OnWire' = OnWire /\ wire' = wire
    BY <1>1 DEF Waits, OnWire
  <2>2. ~TakesHeader(t)
    BY <1>1 DEF Waits, TakesHeader
  <2>3. QED BY <2>1, <2>2
<1>2. ASSUME NEW n \in Nat, Shifts(n), \A i \in OnWire : i <= n => n = 1 /\ TakesHeader(t)
      PROVE  /\ OnWire = {} => OnWire' = {}
             /\ \A i \in OnWire : OnWire = {i} =>
                  \/ TakesHeader(t) /\ i = 1 /\ OnWire' = {}
                  \/ \E k \in OnWire' : OnWire' = {k} /\ wire'[k] = wire[i] /\ i > n
  <2>1. /\ \A i \in OnWire' : i + n \in OnWire /\ i \in Nat /\ i >= 1
        /\ OnWire = {} => OnWire' = {}
        /\ \A j \in OnWire : j \in Nat /\ j >= 1 /\ (j > n => j - n \in OnWire' /\ wire'[j - n] = wire[j])
    BY <1>2, OnWireShifts
  <2>2. ASSUME NEW i \in OnWire, OnWire = {i}
        PROVE  \/ TakesHeader(t) /\ i = 1 /\ OnWire' = {}
               \/ \E k \in OnWire' : OnWire' = {k} /\ wire'[k] = wire[i] /\ i > n
    <3>1. i \in Nat /\ i >= 1 /\ \A k \in OnWire' : k \in Nat /\ k >= 1 /\ k + n = i
      BY <2>1, <2>2
    <3>2. CASE i > n
      <4>1. i - n \in OnWire' /\ wire'[i - n] = wire[i]
        BY <2>1, <3>2
      <4>2. \A k \in OnWire' : k = i - n
        BY <3>1
      <4>3. QED BY <3>2, <4>1, <4>2
    <3>3. CASE ~(i > n)
      <4>1. n = 1 /\ TakesHeader(t) /\ i = 1
        BY <1>2, <3>1, <3>3
      <4>2. OnWire' = {}
        BY <3>1, <4>1
      <4>3. QED BY <4>1, <4>2
    <3>4. QED BY <3>2, <3>3
  <2>3. QED BY <2>1, <2>2
<1>3. \A i \in OnWire : i \in Nat /\ wire[i].part = 0
  BY WireFacts DEF OnWire
<1>4. CASE TakesHeader(t)
  <2>1. Shifts(1)
    BY <1>4 DEF TakesHeader
  <2>2. \A i \in OnWire : i > 1 => ~(i = 1)
    BY <1>3
  <2>3. QED BY <1>2, <1>4, <2>1, <2>2
<1>5. CASE TakesPayload(t)
  <2>1. PICK n \in Nat : Shifts(n) /\ \A i \in 1 .. n : wire[i].part > 0
    BY <1>5 DEF TakesPayload
  <2>2. \A i \in OnWire : ~(i <= n)
    <3> SUFFICES ASSUME NEW i \in OnWire, i <= n PROVE FALSE
      OBVIOUS
    <3>1. i \in 1 .. n /\ wire[i].part = 0
      BY WireFacts DEF OnWire
    <3>2. QED BY <2>1, <3>1
  <2>3. ~TakesHeader(t)
    BY <1>5 DEF TakesPayload, TakesHeader
  <2>4. QED BY <1>2, <2>1, <2>2, <2>3
<1>6. QED BY <1>1, <1>4, <1>5 DEF Takes

\* What a receiver does to the hands of the main thread.
LEMMA HandAfter ==
  ASSUME Core, NEW t \in Thread, Takes(t), \A u \in Thread : u # t => rx'[u] = rx[u], NEW type, type # "none"
  PROVE  /\ Has("main", type) => Has("main", type)' /\ rx'["main"].msg = rx["main"].msg
         /\ Has("main", type)' =>
              \/ Has("main", type) /\ rx'["main"].msg = rx["main"].msg
              \/ t = "main" /\ TakesHeader(t) /\ wire[1].of.type = type /\ rx'["main"].msg = wire[1].of
<1>1. "main" \in Thread
  BY DEF Thread
<1>2. CASE t # "main"
  BY <1>1, <1>2 DEF Has
<1>3. CASE t = "main" /\ Waits(t)
  <2>1. rx["main"].at = "select" /\ rx'["main"].msg.type = "none"
    BY <1>3 DEF Waits, NoMessage, Message
  <2>2. QED BY <2>1 DEF Has
<1>4. CASE t = "main" /\ TakesHeader(t)
  BY <1>4 DEF TakesHeader, Has
<1>5. CASE t = "main" /\ TakesPayload(t)
  BY <1>5 DEF TakesPayload, Has
<1>6. QED BY <1>2, <1>3, <1>4, <1>5 DEF Takes

\* Receiving moves the answer from the wire into the hand of the main thread.
LEMMA ReceiveFlow ==
  ASSUME Sound, Sound', ~torn', Flow, NEW t \in Thread, Receive(t), Rest
  PROVE  Flow'
<1>1. /\ Core /\ Takes(t) /\ WireTypes /\ WireTypes'
      /\ \A u \in Thread : u # t => rx'[u] = rx[u]
  BY ReceiveFrames DEF Sound, Types
<1>2. /\ at' = at /\ board' = board /\ game' = game /\ reply' = reply /\ requests' = requests
      /\ Expected' = Expected /\ Asks' = Asks
  BY DEF Rest, mainVars, serverVars, Expected, Asks
<1>3. /\ OnWire = {} => OnWire' = {}
      /\ \A i \in OnWire : OnWire = {i} =>
           \/ TakesHeader(t) /\ i = 1 /\ OnWire' = {}
           \/ \E k \in OnWire' : OnWire' = {k} /\ wire'[k] = wire[i] /\ ~(TakesHeader(t) /\ i = 1)
  BY <1>1, OneOnWire
<1>4. \A type \in Answers :
        /\ Has("main", type) => Has("main", type)'
        /\ Has("main", type)' => Has("main", type) \/ (TakesHeader(t) /\ wire[1].of.type = type)
  <2> TAKE type \in Answers
  <2>1. type # "none"
    BY DEF Answers
  <2>2. QED BY <1>1, <2>1, HandAfter
<1>5. Expected \in Answers
  BY DEF Expected, Answers
<1>6. TakesHeader(t) /\ wire[1].of.type \in Answers => 1 \in OnWire
  BY DEF TakesHeader, OnWire
<1>7. InHand' => InHand \/ (TakesHeader(t) /\ wire[1].of.type \in Answers)
  BY <1>4 DEF InHand
<1>8. ASSUME OnWire = {} PROVE InHand' => InHand
  BY <1>6, <1>7, <1>8
<1>9. at' \notin Waiting => Clear' /\ requests' \in {<<>>, <<"play_move">>}
  BY <1>2, <1>3 DEF Flow, Clear
<1>10. ASSUME at' \in Waiting PROVE Asked' \/ Replying' \/ Sending' \/ Read'
  <2>1. Asked \/ Replying \/ Sending \/ Read
    BY <1>2, <1>10 DEF Flow
  <2>2. CASE Asked
    BY <1>2, <1>3, <1>8, <2>2 DEF Asked, Clear
  <2>3. CASE Replying
    BY <1>2, <1>3, <1>8, <2>3 DEF Replying
  <2>4. CASE Sending
    <3>1. PICK i \in OnWire : OnWire = {i} /\ wire[i].of.type = Expected
      BY <2>4 DEF Sending
    <3>2. requests' = <<>> /\ reply' = {} /\ ~InHand
      BY <1>2, <2>4 DEF Sending
    <3>3. CASE TakesHeader(t) /\ i = 1 /\ OnWire' = {}
      <4>1. InHand' => Has("main", Expected)'
        <5> SUFFICES ASSUME NEW type \in Answers, Has("main", type)' PROVE Has("main", Expected)'
          BY DEF InHand
        <5>1. ~Has("main", type)
          BY <3>2 DEF InHand
        <5>2. type = Expected
          BY <1>4, <3>1, <3>3, <5>1
        <5>3. QED BY <1>2, <5>2
      <4>2. QED BY <3>2, <3>3, <4>1 DEF Read, Clear
    <3>4. CASE \E k \in OnWire' : OnWire' = {k} /\ wire'[k] = wire[i] /\ ~(TakesHeader(t) /\ i = 1)
      <4>1. ~InHand'
        BY <1>6, <1>7, <3>1, <3>2, <3>4
      <4>2. QED BY <1>2, <3>1, <3>2, <3>4, <4>1 DEF Sending
    <3>5. QED BY <1>3, <3>1, <3>3, <3>4
  <2>5. CASE Read
    <3>1. InHand' => Has("main", Expected)'
      BY <1>2, <1>4, <1>5, <1>8, <2>5 DEF Read, Clear
    <3>2. QED BY <1>2, <1>3, <2>5, <3>1 DEF Read, Clear
  <2>6. QED BY <2>1, <2>2, <2>3, <2>4, <2>5
<1>11. QED BY <1>2, <1>9, <1>10 DEF Flow

\* A notice that is on its way stays so, or comes into the hands of the main thread.
LEMMA ReceiveNotices ==
  ASSUME Sound, Sound', ~torn', NEW t \in Thread, Receive(t), Rest, Announced
  PROVE  Announced' \/ Mistaken'
<1>1. /\ Core /\ Takes(t) /\ WireTypes /\ WireTypes' /\ ListenerTypes
      /\ \A u \in Thread : u # t => rx'[u] = rx[u]
  BY ReceiveFrames DEF Sound, Types
<1>2. moving' = moving /\ pipe' = pipe /\ wanted' = wanted /\ listener' = listener
  BY DEF Rest, mainVars, serverVars, Receive, Readable, TimesOut, ReadHeader, ReadPayload
<1>3. CASE moving # {} \/ pipe \/ wanted
  BY <1>2, <1>3 DEF Announced
<1>4. CASE \E m \in Heads : m.type = "move_result"
  <2>1. PICK i \in DOMAIN wire : wire[i].part = 0 /\ wire[i].of.type = "move_result"
    BY <1>4 DEF Heads
  <2>2. ASSUME NEW n \in Nat, Shifts(n), i > n PROVE Announced'
    <3>1. i - n \in DOMAIN wire' /\ wire'[i - n] = wire[i]
      BY <2>2 DEF Shifts
    <3>2. wire'[i - n].of \in Heads' /\ wire'[i - n].of.type = "move_result"
      BY <2>1, <3>1 DEF Heads
    <3>3. QED BY <3>2 DEF Announced
  <2>3. i \in Nat /\ i >= 1
    BY <1>1, WireFacts
  <2>4. CASE Waits(t)
    <3>1. Heads' = Heads
      BY <2>4 DEF Waits, Heads
    <3>2. QED BY <1>4, <3>1 DEF Announced
  <2>5. CASE TakesHeader(t)
    <3>1. CASE i > 1
      BY <2>2, <2>5, <3>1 DEF TakesHeader
    <3>2. CASE ~(i > 1)
      <4>1. rx'[t].msg.type = "move_result" /\ rx'[t].at \in {"payload", "done"} /\ rx[t].at # "off"
        <5>1. i = 1
          BY <2>3, <3>2
        <5>2. QED BY <2>1, <2>5, <5>1 DEF TakesHeader
      <4>2. CASE t = "main"
        BY <4>1, <4>2 DEF Mistaken, Has
      <4>3. CASE t = "listener"
        <5>1. listener'.at = "recv"
          BY <1>1, <1>2, <4>1, <4>3 DEF ListenerTypes
        <5>2. QED BY <4>1, <4>3, <5>1 DEF Announced
      <4>4. QED BY <4>2, <4>3 DEF Thread
    <3>3. QED BY <3>1, <3>2
  <2>6. CASE TakesPayload(t)
    <3>1. PICK n \in Nat : Shifts(n) /\ \A j \in 1 .. n : wire[j].part > 0
      BY <2>6 DEF TakesPayload
    <3>2. i > n
      <4> SUFFICES ASSUME i <= n PROVE FALSE
        BY <2>3
      <4>1. i \in 1 .. n
        BY <2>3
      <4>2. QED BY <2>1, <3>1, <4>1
    <3>3. QED BY <2>2, <3>1, <3>2
  <2>7. QED BY <1>1, <2>4, <2>5, <2>6 DEF Takes
<1>5. CASE Noticed
  <2>1. listener'.at = "recv" /\ rx["listener"].msg.type = "move_result" /\ rx["listener"].msg # NoMessage
    BY <1>2, <1>5 DEF Noticed, NoMessage, Message
  <2>2. rx'["listener"].msg = rx["listener"].msg
    <3>1. CASE t # "listener"
      BY <1>1, <3>1 DEF Thread
    <3>2. CASE t = "listener"
      <4>1. rx[t].at \notin {"select", "header"}
        BY <1>1, <2>1, <3>2 DEF Core, Hand
      <4>2. TakesPayload(t)
        BY <1>1, <4>1 DEF Takes, Waits, TakesHeader
      <4>3. QED BY <3>2, <4>2 DEF TakesPayload
    <3>3. QED BY <3>1, <3>2
  <2>3. QED BY <2>1, <2>2 DEF Announced
<1>6. QED BY <1>3, <1>4, <1>5 DEF Announced, Noticed

\* Receiving makes no board older than it was.
LEMMA ReceiveFresh ==
  ASSUME Sound, Sound', ~torn', Fresh, NEW t \in Thread, Receive(t), Rest
  PROVE  Fresh'
<1>1. /\ Core /\ Takes(t) /\ WireTypes /\ WireTypes'
      /\ \A u \in Thread : u # t => rx'[u] = rx[u]
  BY ReceiveFrames DEF Sound, Types
<1>2. at' = at /\ board' = board /\ game' = game /\ reply' = reply
  BY DEF Rest, mainVars, serverVars
<1>3. Mistaken => Mistaken'
  BY <1>1, HandAfter DEF Mistaken
<1>4. ASSUME NEW b \in Board, Underway(b)' PROVE Underway(b)
  <2>1. BoardMessage(b)' = BoardMessage(b)
    BY DEF BoardMessage, Message
  <2>2. CASE BoardMessage(b) \in reply'
    BY <1>2, <2>2 DEF Underway
  <2>3. CASE \E i \in DOMAIN wire' : wire'[i].part = 0 /\ wire'[i].of = BoardMessage(b)
    <3>1. PICK i \in DOMAIN wire' : wire'[i].part = 0 /\ wire'[i].of = BoardMessage(b)
      BY <2>3
    <3>2. CASE Waits(t)
      BY <3>1, <3>2 DEF Waits, Underway
    <3>3. CASE \E n \in Nat : Shifts(n)
      <4>1. PICK n \in Nat : Shifts(n)
        BY <3>3
      <4>2. i \in 1 .. Len(wire')
        BY <1>1, LenProperties DEF WireTypes
      <4>3. i + n \in DOMAIN wire /\ wire'[i] = wire[i + n]
        BY <4>1, <4>2 DEF Shifts
      <4>4. QED BY <3>1, <4>3 DEF Underway
    <3>4. QED BY <1>1, <3>2, <3>3 DEF Takes, TakesHeader, TakesPayload
  <2>4. CASE rx'["main"].at \in {"payload", "done"} /\ rx'["main"].msg = BoardMessage(b)
    <3>1. Has("main", "board_state")'
      BY <2>4 DEF Has, BoardMessage, Message
    <3>2. \/ Has("main", "board_state") /\ rx'["main"].msg = rx["main"].msg
          \/ TakesHeader(t) /\ rx'["main"].msg = wire[1].of
      BY <1>1, <3>1, HandAfter
    <3>3. QED BY <2>4, <3>2 DEF Underway, Has, TakesHeader
  <2>5. QED BY <1>4, <2>1, <2>2, <2>3, <2>4 DEF Underway
<1>5. ASSUME NEW b \in Board, Shown(b)' \/ Underway(b)'
      PROVE  /\ b.phase = "playing" /\ b.turn = "me" => b = game'
             /\ game'.phase = "playing" => b = game' \/ Announced' \/ Mistaken'
  <2>1. Shown(b) \/ Underway(b)
    BY <1>2, <1>4, <1>5 DEF Shown
  <2>2. Announced => Announced' \/ Mistaken'
    BY ReceiveNotices
  <2>3. QED BY <1>2, <1>3, <2>1, <2>2 DEF Fresh
<1>6. QED BY <1>5 DEF Fresh

\* Steps of the listener and of the server that leave the main thread alone.
LEMMA SameFlow ==
  ASSUME Flow, wire' = wire, rx'["main"] = rx["main"],
         UNCHANGED <<at, board, requests, reply, game>>
  PROVE  Flow'
<1>1. /\ OnWire' = OnWire /\ InHand' = InHand /\ Clear' = Clear /\ Asks' = Asks /\ Expected' = Expected
      /\ \A type : Has("main", type)' = Has("main", type)
  BY DEF OnWire, InHand, Has, Clear, Asks, Expected
<1>2. Asked' = Asked /\ Replying' = Replying /\ Sending' = Sending /\ Read' = Read
  BY <1>1 DEF Asked, Replying, Sending, Read
<1>3. QED BY <1>1, <1>2 DEF Flow

\* A step that keeps the boards and the game keeps them fresh.
LEMMA SameFresh ==
  ASSUME Fresh, wire' = wire, rx'["main"] = rx["main"],
         UNCHANGED <<at, board, reply, game>>, Announced => Announced'
  PROVE  Fresh'
<1>1. \A b \in Board : Shown(b)' = Shown(b) /\ Underway(b)' = Underway(b)
  BY DEF Shown, Underway, BoardMessage, Message
<1>2. Mistaken' = Mistaken
  BY DEF Mistaken, Has
<1>3. QED BY <1>1, <1>2 DEF Fresh

\* The readers of the stream.
LEMMA ReaderKeeps ==
  ASSUME Sound, Sound', Clean, Clean', Flow, Fresh,
         (\E t \in Thread : Receive(t) /\ Rest) \/ (Listen /\ Rest) \/ Notified
  PROVE  Flow' /\ Fresh'
<1>1. ~torn /\ ~torn' /\ LinkTypes /\ Framing
  BY DEF Clean, Sound, Types, LinkTypes
<1>2. CASE \E t \in Thread : Receive(t) /\ Rest
  BY <1>1, <1>2, ReceiveFlow, ReceiveFresh
<1>3. CASE Listen /\ Rest
  <2>1. wire' = wire /\ rx'["main"] = rx["main"] /\ (Noticed => Noticed')
    BY <1>1, <1>3, ListenFrames
  <2>2. UNCHANGED <<at, board, requests, reply, game, moving, pipe, wanted>>
    BY <1>3 DEF Rest, mainVars, serverVars
  <2>3. Heads' = Heads
    BY <2>1 DEF Heads
  <2>4. Announced => Announced'
    BY <2>1, <2>2, <2>3 DEF Announced, Noticed
  <2>5. QED BY <2>1, <2>2, <2>4, SameFlow, SameFresh
<1>4. CASE Notified
  <2>1. /\ wire' = wire /\ rx'["main"] = rx["main"]
        /\ rx["listener"].msg.type = "move_result" => pipe' = TRUE
        /\ pipe' = pipe \/ pipe' = TRUE
    BY <1>1, <1>4, HandlesFrames DEF Notified, NotifyTurn
  <2>2. UNCHANGED <<at, board, requests, reply, game, moving, wanted>>
    BY <1>4 DEF Notified, mainVars, serverVars
  <2>3. Heads' = Heads
    BY <2>1 DEF Heads
  <2>4. Announced => Announced'
    BY <2>1, <2>2, <2>3 DEF Announced
  <2>5. QED BY <2>1, <2>2, <2>4, SameFlow, SameFresh
<1>5. QED BY <1>2, <1>3, <1>4

\* What the main thread waits for, and has: the answer.
LEMMA GotAnswer ==
  ASSUME Sound, Clean, Flow, at \in Waiting, Got(Expected)
  PROVE  /\ requests = <<>> /\ Clear /\ rx["main"].at = "done" /\ rx["main"].msg \in WireMessage
         /\ rx["main"].msg.type = Expected /\ ~Mistaken
<1>1. /\ rx["main"].at = "done" /\ rx["main"].err = "success" /\ rx["main"].msg.type = Expected
      /\ Expected \in {"board_state", "my_game_list"}
  BY DEF Got, Returned, Expected
<1>2. InHand
  BY <1>1 DEF InHand, Has, Answers
<1>3. rx["main"].msg \in WireMessage
  BY <1>1 DEF Sound, Framing, Clean, Core, Hand, Thread
<1>4. ~Mistaken
  BY <1>1 DEF Mistaken, Has
<1>5. QED BY <1>1, <1>2, <1>3, <1>4, AnswerInHand

\* Appending to a sequence of one.
LEMMA AppendOne ==
  ASSUME NEW S, NEW a \in S, NEW b \in S
  PROVE  Append(<<b>>, a) = <<b, a>>
<1> DEFINE s == Append(<<b>>, a)
           t == <<b, a>>
<1>1. <<b>> \in Seq(S) /\ Len(<<b>>) = 1 /\ <<b>>[1] = b
  OBVIOUS
<1>2. t \in Seq(S) /\ Len(t) = 2 /\ t[1] = b /\ t[2] = a
  OBVIOUS
<1>3. s \in Seq(S) /\ Len(s) = 2 /\ s[1] = b /\ s[2] = a
  <2>1. s \in Seq(S) /\ Len(s) = Len(<<b>>) + 1 /\ s[Len(<<b>>) + 1] = a
        /\ \A i \in 1 .. Len(<<b>>) : s[i] = <<b>>[i]
    BY <1>1, AppendProperties
  <2> HIDE DEF s
  <2>2. 1 \in 1 .. 1 /\ 1 + 1 = 2
    OBVIOUS
  <2>3. QED BY <1>1, <2>1, <2>2
<1> HIDE DEF s, t
<1>4. \A i \in 1 .. Len(s) : s[i] = t[i]
  BY <1>2, <1>3
<1>5. s = t
  BY <1>2, <1>3, <1>4, SeqEqual
<1>6. QED BY <1>5 DEF s, t

\* The main thread asks.
LEMMA AskKeeps ==
  ASSUME Sound, Sound', Clean, Clean', Flow, Fresh, List \/ RequestBoard
  PROVE  Flow' /\ Fresh'
<1>1. /\ at \notin Waiting /\ at' \in Waiting /\ rx' = Calls("main") /\ wire' = wire /\ reply' = reply
      /\ UNCHANGED <<wire, listener, torn>> /\ game' = game /\ board' = board
      /\ requests' = Append(requests, Asks')
  BY DEF List, RequestBoard, Sends, Waiting, serverVars, Asks
<1>2. /\ rx["main"].at = "off" /\ Clear /\ requests \in {<<>>, <<"play_move">>}
  BY <1>1, AtRest
<1>3. rx'["main"].at = "select"
  BY <1>1, <1>2, MainHands DEF Sound, Types, LinkTypes
<1>4. Clear' /\ ~InHand'
  BY <1>1, <1>2, <1>3 DEF Clear, OnWire, InHand, Has
<1>5. requests' \in {<<Asks'>>, <<"play_move", Asks'>>}
  <2> DEFINE a == Asks'
  <2>0. a \in Request /\ "play_move" \in Request
    BY DEF Asks, Request
  <2> HIDE DEF a
  <2>1. Append(<<>>, a) = <<a>> /\ Append(<<"play_move">>, a) = <<"play_move", a>>
    BY <2>0, AppendOne
  <2>2. requests' = Append(requests, a)
    BY <1>1 DEF a
  <2>3. requests' \in {<<a>>, <<"play_move", a>>}
    BY <1>2, <2>1, <2>2
  <2>4. QED BY <2>3 DEF a
<1>6. Asked'
  BY <1>4, <1>5 DEF Asked
<1>7. requests' # <<>> /\ Head(requests') = "play_move" =>
        game'.turn = "me" /\ game'.phase = "playing" /\ board' = game'
  <2>1. CASE requests = <<>>
    <3>1. Head(requests') = Asks' /\ Asks' # "play_move"
      BY <1>1, <2>1 DEF Asks
    <3>2. QED BY <3>1
  <2>2. CASE requests = <<"play_move">>
    BY <1>1, <2>2 DEF Flow
  <2>3. QED BY <1>2, <2>1, <2>2
<1>8. Flow'
  BY <1>1, <1>6, <1>7 DEF Flow, Waiting
<1>9. \A b \in Board : ~Shown(b)' /\ ~Underway(b)'
  BY <1>1, <1>3, <1>4 DEF Shown, Underway, Waiting, Clear, OnWire, Answers, BoardMessage, Message
<1>10. QED BY <1>8, <1>9 DEF Fresh

\* The main thread waits again.
LEMMA RetryKeeps ==
  ASSUME Sound, Sound', Clean, Clean', Flow, Fresh, RetryBoard
  PROVE  Flow' /\ Fresh'
<1>1. /\ at = "WAITING_BOARD" /\ at' = at /\ rx' = Calls("main") /\ wire' = wire /\ reply' = reply
      /\ UNCHANGED <<wire, listener, torn>> /\ game' = game /\ board' = board /\ requests' = requests
      /\ moving' = moving /\ pipe' = pipe /\ wanted' = wanted
      /\ rx["main"].at = "done" /\ rx["main"].err = "timeout"
  BY DEF RetryBoard, Returned, serverVars
<1>2. rx["main"].msg = NoMessage
  BY <1>1 DEF Sound, Framing, Clean, Core, Hand, Thread
<1>3. rx'["main"].at = "select" /\ rx'["listener"] = rx["listener"]
  BY <1>1, MainHands DEF Sound, Types, LinkTypes
<1>4. OnWire' = OnWire /\ Clear' = Clear /\ ~InHand' /\ Asks' = Asks /\ Expected' = Expected
  BY <1>1, <1>3 DEF OnWire, Clear, InHand, Has, Asks, Expected
<1>5. at \in Waiting
  BY <1>1 DEF Waiting
<1>6. Asked' \/ Replying' \/ Sending' \/ Read'
  <2>1. Asked \/ Replying \/ Sending \/ Read
    BY <1>5 DEF Flow
  <2>2. QED BY <1>1, <1>4, <2>1 DEF Asked, Replying, Sending, Read
<1>7. Flow'
  BY <1>1, <1>5, <1>6 DEF Flow
<1>8. ~Mistaken
  BY <1>2 DEF Mistaken, Has, NoMessage, Message
<1>9. Announced => Announced'
  <2>1. Heads' = Heads
    BY <1>1 DEF Heads
  <2>2. QED BY <1>1, <1>3, <2>1 DEF Announced
<1>10. \A b \in Board : (Shown(b)' => Shown(b)) /\ (Underway(b)' => Underway(b))
  BY <1>1, <1>3 DEF Shown, Underway, BoardMessage, Message
<1>11. QED BY <1>1, <1>7, <1>8, <1>9, <1>10 DEF Fresh

\* The main thread takes the answer; going on without it is not clean.
LEMMA TakeKeeps ==
  ASSUME Sound, Sound', Clean, Clean', Flow, Fresh, Listed \/ AskAgain \/ ShowBoard
  PROVE  Flow' /\ Fresh'
<1>1. ~AskAgain
  BY DEF AskAgain, Clean
<1>2. /\ at \in Waiting /\ Got(Expected) /\ wire' = wire /\ reply' = reply /\ requests' = requests
      /\ UNCHANGED <<wire, listener, torn>> /\ game' = game /\ moving' = moving
      /\ rx' = Consumed("main")
  <2>1. CASE Listed
    BY <2>1 DEF Listed, Clean, Waiting, Expected, serverVars
  <2>2. CASE ShowBoard
    BY <2>2 DEF ShowBoard, Waiting, Expected, serverVars
  <2>3. QED BY <1>1, <2>1, <2>2
<1>3. /\ requests = <<>> /\ Clear /\ rx["main"].at = "done" /\ rx["main"].msg \in WireMessage
      /\ rx["main"].msg.type = Expected /\ ~Mistaken
  BY <1>2, GotAnswer
<1>4. rx'["main"].at = "off" /\ rx'["listener"] = rx["listener"]
  BY <1>2, <1>3, MainHands DEF Sound, Types, LinkTypes
<1>5. Clear'
  BY <1>2, <1>3 DEF Clear, OnWire
<1>6. \A b \in Board : ~Underway(b)'
  BY <1>4, <1>5 DEF Underway, Clear, OnWire, Answers, BoardMessage, Message
<1>7. CASE Listed
  <2>1. at' \in {"INIT", "menu"}
    BY <1>7 DEF Listed
  <2>2. Flow'
    BY <1>2, <1>3, <1>5, <2>1 DEF Flow, Waiting
  <2>3. \A b \in Board : ~Shown(b)'
    BY <2>1 DEF Shown
  <2>4. QED BY <1>6, <2>2, <2>3 DEF Fresh
<1>8. CASE ShowBoard
  <2>1. PICK b \in Board :
          /\ rx["main"].msg.data \in {b, Garbage} /\ board' = b
          /\ at' = CASE b.phase = "gone"     -> "menu"
                     [] b.phase = "finished" -> "GAME_OVER"
                     [] b.phase = "playing"  -> "IDLE"
    BY <1>8 DEF ShowBoard
  <2>2. at = "WAITING_BOARD" /\ pipe' = pipe /\ wanted' = wanted
    BY <1>8 DEF ShowBoard
  <2>3. b.phase \in {"playing", "finished", "gone"}
    BY DEF Board
  <2>4. at' \in {"menu", "GAME_OVER", "IDLE"} /\ (at' = "IDLE" => board'.phase = "playing")
    BY <2>1, <2>3
  <2>5. Flow'
    BY <1>2, <1>3, <1>5, <2>4 DEF Flow, Waiting
  <2>6. rx["main"].msg = BoardMessage(b)
    <3>1. rx["main"].msg.type = "board_state" /\ rx["main"].msg.data \in Board
      BY <1>3, <2>2 DEF WireMessage, Expected
    <3>2. rx["main"].msg.data = b
      BY <2>1, <3>1, PlayAssumption
    <3>3. QED BY <1>3, <3>1, <3>2 DEF WireMessage, BoardMessage, Message
  <2>7. Underway(b)
    BY <1>3, <2>6 DEF Underway
  <2>8. /\ b.phase = "playing" /\ b.turn = "me" => b = game
        /\ game.phase = "playing" => b = game \/ Announced
    BY <1>3, <2>7 DEF Fresh
  <2>9. Announced => Announced'
    <3>1. Heads' = Heads
      BY <1>2 DEF Heads
    <3>2. QED BY <1>2, <1>4, <2>2, <3>1 DEF Announced
  <2>10. \A c \in Board : Shown(c)' => c = b
    BY <2>1 DEF Shown
  <2>11. QED BY <1>2, <1>6, <2>5, <2>8, <2>9, <2>10 DEF Fresh
<1>9. QED BY <1>1, <1>7, <1>8

\* The main thread leaves the connection alone, or sends a move.
LEMMA ActKeeps ==
  ASSUME Sound, Sound', Clean, Clean', Flow, Fresh,
         Enter \/ Wake \/ MoveTimesOut \/ PlayMove \/ Leave \/ Rematch
  PROVE  Flow' /\ Fresh'
<1>1. ~Rematch
  BY DEF Rematch, Clean
<1>2. rx' = rx /\ wire' = wire /\ board' = board /\ game' = game /\ reply' = reply
  BY MainActsSound DEF Enter, Wake, MoveTimesOut, PlayMove, Leave, Rematch, serverVars
<1>3. at \notin Waiting /\ at' \notin Waiting
  BY DEF Enter, Wake, MoveTimesOut, PlayMove, Leave, Rematch, Polling, Waiting
<1>4. /\ rx["main"].at = "off" /\ Clear /\ requests \in {<<>>, <<"play_move">>}
      /\ \A b \in Board : ~Underway(b)
  BY <1>3, AtRest
<1>5. Clear' /\ \A b \in Board : ~Underway(b)'
  BY <1>2, <1>4 DEF Clear, OnWire, Underway, BoardMessage, Message
<1>6. CASE PlayMove
  <2>1. at = "IDLE" /\ at' = "MOVE_SENT" /\ board.turn = "me" /\ requests' = Append(requests, "play_move")
    BY <1>6 DEF PlayMove, Sends
  <2>2. requests = <<>> /\ board.phase = "playing" /\ board \in Board
    BY <2>1 DEF Flow, Sound, Types, MainTypes
  <2>3. requests' = <<"play_move">>
    BY <2>1, <2>2
  <2>4. board = game
    BY <2>1, <2>2 DEF Fresh, Shown
  <2>5. Flow'
    BY <1>2, <1>3, <1>5, <2>1, <2>2, <2>3, <2>4 DEF Flow
  <2>6. \A b \in Board : ~Shown(b)'
    BY <2>1 DEF Shown
  <2>7. QED BY <1>5, <2>5, <2>6 DEF Fresh
<1>7. CASE Wake
  <2>1. requests' = requests /\ at' \in {"INIT", "IDLE"} /\ wanted' = TRUE /\ (at' = "IDLE" => at = "IDLE")
    BY <1>7 DEF Wake, Polling
  <2>2. Flow'
    BY <1>2, <1>3, <1>4, <1>5, <2>1 DEF Flow
  <2>3. Announced'
    BY <2>1 DEF Announced
  <2>4. \A b \in Board : Shown(b)' => Shown(b)
    BY <1>2, <2>1 DEF Shown
  <2>5. QED BY <1>2, <1>5, <2>2, <2>3, <2>4 DEF Fresh
<1>8. CASE Enter \/ MoveTimesOut \/ Leave
  <2>1. requests' = requests /\ at' \in {"INIT", "menu"}
    BY <1>8 DEF Enter, MoveTimesOut, Leave
  <2>2. Flow'
    BY <1>2, <1>3, <1>4, <1>5, <2>1 DEF Flow
  <2>3. \A b \in Board : ~Shown(b)'
    BY <2>1 DEF Shown
  <2>4. QED BY <1>5, <2>2, <2>3 DEF Fresh
<1>9. QED BY <1>1, <1>6, <1>7, <1>8

\* The server takes a request: a move, or a question.
LEMMA HandleKeeps ==
  ASSUME Sound, Sound', Clean, Clean', Flow, Fresh, HandlePlayMove \/ Copy
  PROVE  Flow' /\ Fresh'
<1>1. /\ rx' = rx /\ wire' = wire /\ at' = at /\ board' = board
      /\ requests # <<>> /\ requests' = Tail(requests)
  BY DEF HandlePlayMove, Copy, linkVars, mainVars
<1>2. OnWire' = OnWire /\ InHand' = InHand /\ Asks' = Asks /\ Expected' = Expected
  BY <1>1 DEF OnWire, InHand, Has, Asks, Expected
<1>3. \A x, y : Head(<<x>>) = x /\ Tail(<<x>>) = <<>> /\ Head(<<x, y>>) = x /\ Tail(<<x, y>>) = <<y>>
  OBVIOUS
<1>4. Asks # "play_move" /\ Asks \in {"list", "get_board"}
  BY DEF Asks
<1>5. CASE HandlePlayMove
  <2>1. Head(requests) = "play_move" /\ reply' = reply
    BY <1>5 DEF HandlePlayMove
  <2>2. at \notin {"IDLE", "GAME_OVER"}
    BY <1>1 DEF Flow
  <2>3. CASE at \notin Waiting
    <3>1. requests = <<"play_move">> /\ Clear /\ \A b \in Board : ~Underway(b)
      BY <1>1, <2>3, AtRest
    <3>2. requests' = <<>>
      BY <1>1, <1>3, <3>1
    <3>3. Clear'
      BY <1>2, <2>1, <3>1 DEF Clear
    <3>4. Flow'
      BY <1>1, <2>2, <2>3, <3>2, <3>3 DEF Flow
    <3>5. \A b \in Board : ~Shown(b)' /\ ~Underway(b)'
      BY <1>1, <2>1, <2>2, <3>1 DEF Shown, Underway, BoardMessage, Message
    <3>6. QED BY <3>4, <3>5 DEF Fresh
  <2>4. CASE at \in Waiting
    <3>1. Asked
      BY <1>1, <2>4 DEF Flow, Asked, Replying, Sending, Read
    <3>2. requests = <<"play_move", Asks>>
      <4>1. requests # <<Asks>>
        BY <1>3, <1>4, <2>1
      <4>2. QED BY <3>1, <4>1 DEF Asked
    <3>3. requests' = <<Asks>>
      BY <1>1, <1>3, <3>2
    <3>4. Asked'
      BY <1>2, <2>1, <3>1, <3>3 DEF Asked, Clear
    <3>5. Head(requests') # "play_move"
      BY <1>3, <1>4, <3>3
    <3>6. Flow'
      BY <1>1, <2>2, <2>4, <3>4, <3>5 DEF Flow
    <3>7. \A b \in Board : ~Shown(b)'
      BY <1>1, <2>2 DEF Shown
    <3>8. \A b \in Board : ~Underway(b)'
      <4>1. reply' = {} /\ OnWire' = {} /\ ~InHand'
        BY <3>4 DEF Asked, Clear
      <4>2. QED BY <4>1 DEF Underway, OnWire, InHand, Has, Answers, BoardMessage, Message
    <3>9. QED BY <3>6, <3>7, <3>8 DEF Fresh
  <2>5. QED BY <2>3, <2>4
<1>6. CASE Copy
  <2>1. /\ Head(requests) \in {"get_board", "list", "challenge"} /\ game' = game /\ pipe' = pipe
        /\ wanted' = wanted /\ moving' = moving /\ listener' = listener
        /\ reply' = {CASE Head(requests) = "get_board" -> Message("board_state", game)
                       [] Head(requests) = "list"      -> Message("my_game_list", game)
                       [] Head(requests) = "challenge" -> Message("ack", Nothing)}
    BY <1>6 DEF Copy, linkVars, mainVars
  <2>2. at \in Waiting
    <3>1. requests # <<"play_move">>
      BY <1>3, <2>1
    <3>2. QED BY <1>1, <3>1 DEF Flow
  <2>3. Asked
    BY <1>1, <2>2 DEF Flow, Asked, Replying, Sending, Read
  <2>4. requests = <<Asks>>
    <3>1. requests # <<"play_move", Asks>>
      BY <1>3, <2>1
    <3>2. QED BY <2>3, <3>1 DEF Asked
  <2>5. Head(requests) = Asks /\ requests' = <<>>
    BY <1>1, <1>3, <2>4
  <2>6. CASE Asks = "get_board"
    <3>1. reply' = {BoardMessage(game)} /\ game \in Board
      BY <2>1, <2>5, <2>6 DEF BoardMessage, Sound, Types, ServerTypes
    <3>2. at = "WAITING_BOARD" /\ Expected = "board_state"
      BY <2>2, <2>6 DEF Asks, Expected, Waiting
    <3>3. BoardMessage(game) \in WireMessage /\ BoardMessage(game).type = "board_state"
      BY <3>1, Messages DEF BoardMessage, Message
    <3>4. Replying'
      BY <1>2, <2>3, <2>5, <3>1, <3>2, <3>3 DEF Replying, Asked, Clear
    <3>5. Flow'
      BY <1>1, <2>2, <2>5, <3>2, <3>4 DEF Flow
    <3>6. \A b \in Board : Underway(b)' => b = game
      <4>1. OnWire' = {} /\ ~InHand'
        BY <1>2, <2>3 DEF Asked, Clear
      <4>2. QED BY <3>1, <4>1 DEF Underway, OnWire, InHand, Has, Answers, BoardMessage, Message
    <3>7. \A b \in Board : ~Shown(b)'
      BY <1>1, <3>2 DEF Shown
    <3>8. QED BY <2>1, <3>5, <3>6, <3>7 DEF Fresh
  <2>7. CASE Asks = "list"
    <3>1. reply' = {Message("my_game_list", game)} /\ game \in Board
      BY <2>1, <2>5, <2>7 DEF Sound, Types, ServerTypes
    <3>2. at = "listing" /\ Expected = "my_game_list"
      BY <2>2, <2>7 DEF Asks, Expected, Waiting
    <3>3. Message("my_game_list", game) \in WireMessage /\ Message("my_game_list", game).type = "my_game_list"
      BY <3>1, Messages DEF Message
    <3>4. Replying'
      BY <1>2, <2>3, <2>5, <3>1, <3>2, <3>3 DEF Replying, Asked, Clear
    <3>5. Flow'
      BY <1>1, <2>2, <2>5, <3>2, <3>4 DEF Flow
    <3>6. \A b \in Board : ~Underway(b)'
      <4>1. OnWire' = {} /\ ~InHand'
        BY <1>2, <2>3 DEF Asked, Clear
      <4>2. QED BY <3>1, <4>1 DEF Underway, OnWire, InHand, Has, Answers, BoardMessage, Message
    <3>7. \A b \in Board : ~Shown(b)'
      BY <1>1, <3>2 DEF Shown
    <3>8. QED BY <3>5, <3>6, <3>7 DEF Fresh
  <2>8. QED BY <1>4, <2>6, <2>7
<1>7. QED BY <1>5, <1>6

\* The game goes on, or is removed.
LEMMA GameKeeps ==
  ASSUME Sound, Sound', Clean, Clean', Flow, Fresh, OpponentMoves \/ RemoveGame
  PROVE  Flow' /\ Fresh'
<1>1. /\ rx' = rx /\ wire' = wire /\ at' = at /\ board' = board /\ requests' = requests /\ reply' = reply
      /\ pipe' = pipe /\ wanted' = wanted /\ listener' = listener
  BY DEF OpponentMoves, RemoveGame, linkVars, mainVars
<1>2. ~(game.turn = "me" /\ game.phase = "playing")
  <2>1. CASE OpponentMoves
    BY <2>1 DEF OpponentMoves, Played
  <2>2. CASE RemoveGame
    BY <2>2 DEF RemoveGame
  <2>3. QED BY <2>1, <2>2
<1>3. /\ OnWire' = OnWire /\ InHand' = InHand /\ Asks' = Asks /\ Expected' = Expected /\ Clear' = Clear
      /\ Has("main", Expected)' = Has("main", Expected)
  BY <1>1 DEF OnWire, InHand, Has, Asks, Expected, Clear
<1>4. Asked' = Asked /\ Replying' = Replying /\ Sending' = Sending /\ Read' = Read
  BY <1>1, <1>3 DEF Asked, Replying, Sending, Read
<1>5. ~(requests # <<>> /\ Head(requests) = "play_move")
  BY <1>2 DEF Flow
<1>6. Flow'
  BY <1>1, <1>3, <1>4, <1>5 DEF Flow
<1>7. \A b \in Board : (Shown(b) \/ Underway(b))' = (Shown(b) \/ Underway(b))
  BY <1>1 DEF Shown, Underway, BoardMessage, Message
<1>8. \A b \in Board : Shown(b) \/ Underway(b) => ~(b.phase = "playing" /\ b.turn = "me")
  BY <1>2 DEF Fresh
<1>9. game'.phase = "playing" => Announced'
  <2>1. CASE OpponentMoves
    <3>1. "opponent" \in moving'
      BY <2>1 DEF OpponentMoves
    <3>2. QED BY <3>1 DEF Announced
  <2>2. CASE RemoveGame
    <3>1. game' = [game EXCEPT !.phase = "gone"] /\ game \in Board
      BY <2>2 DEF RemoveGame, Sound, Types, ServerTypes
    <3>2. QED BY <3>1 DEF Board
  <2>3. QED BY <2>1, <2>2
<1>10. QED BY <1>6, <1>7, <1>8, <1>9 DEF Fresh

\* The answer is sent.
LEMMA AnswerKeeps ==
  ASSUME Sound, Sound', Clean, Clean', Flow, Fresh, Answer
  PROVE  Flow' /\ Fresh'
<1>1. PICK m \in reply : wire' = Sent(m) /\ reply' = {}
  BY DEF Answer
<1>2. /\ rx' = rx /\ UNCHANGED <<rx, listener, torn>> /\ at' = at /\ board' = board /\ requests' = requests
      /\ game' = game /\ pipe' = pipe /\ wanted' = wanted /\ moving' = moving /\ listener' = listener
  BY DEF Answer, mainVars
<1>3. at \in Waiting
  BY <1>1 DEF Flow, Clear
<1>4. Replying /\ reply = {m} /\ m \in WireMessage /\ m.type = Expected
  <2>1. Replying
    BY <1>1, <1>3 DEF Flow, Asked, Sending, Read, Clear
  <2>2. QED BY <1>1, <2>1 DEF Replying
<1>5. /\ \A i \in DOMAIN wire : i \in DOMAIN wire' /\ wire'[i] = wire[i]
      /\ \E k \in DOMAIN wire' :
           /\ k \notin DOMAIN wire /\ wire'[k] = [of |-> m, part |-> 0]
           /\ \A i \in DOMAIN wire' : i \notin DOMAIN wire /\ i # k => wire'[i].part > 0
  BY <1>1, <1>2, <1>4, LinkSends DEF Sound, Types, LinkTypes, Adds
<1>6. PICK k \in DOMAIN wire' :
        /\ k \notin DOMAIN wire /\ wire'[k] = [of |-> m, part |-> 0]
        /\ \A i \in DOMAIN wire' : i \notin DOMAIN wire /\ i # k => wire'[i].part > 0
  BY <1>5
<1>7. wire'[k].of = m /\ wire'[k].part = 0
  BY <1>6
<1>8. \A i \in DOMAIN wire' : wire'[i].part = 0 => i = k \/ (i \in DOMAIN wire /\ wire'[i] = wire[i])
  BY <1>5, <1>6
<1>9. Expected' = Expected /\ Expected \in Answers /\ InHand' = InHand
  BY <1>2 DEF Expected, Answers, InHand, Has
<1>10. OnWire' = {k}
  <2>1. k \in OnWire'
    BY <1>4, <1>7, <1>9 DEF OnWire
  <2>2. ASSUME NEW i \in OnWire' PROVE i = k
    <3>1. i \in DOMAIN wire' /\ wire'[i].part = 0 /\ wire'[i].of.type \in Answers
      BY <2>2 DEF OnWire
    <3>2. ~(i \in DOMAIN wire /\ wire'[i] = wire[i])
      BY <1>4, <3>1 DEF Replying, OnWire
    <3>3. QED BY <1>8, <3>1, <3>2
  <2>3. QED BY <2>1, <2>2
<1>11. Sending'
  BY <1>1, <1>2, <1>4, <1>7, <1>9, <1>10 DEF Sending, Replying
<1>12. Flow'
  BY <1>2, <1>3, <1>4, <1>11 DEF Flow, Replying
<1>13. \A b \in Board : (Shown(b)' => Shown(b)) /\ (Underway(b)' => Underway(b))
  <2> TAKE b \in Board
  <2>1. Shown(b)' => Shown(b)
    BY <1>2 DEF Shown
  <2>2. BoardMessage(b)' = BoardMessage(b)
    BY DEF BoardMessage, Message
  <2>3. ASSUME Underway(b)' PROVE Underway(b)
    <3>1. CASE \E i \in DOMAIN wire' : wire'[i].part = 0 /\ wire'[i].of = BoardMessage(b)
      <4>1. PICK i \in DOMAIN wire' : wire'[i].part = 0 /\ wire'[i].of = BoardMessage(b)
        BY <3>1
      <4>2. CASE i = k
        BY <1>4, <1>7, <4>1, <4>2 DEF Underway
      <4>3. CASE i \in DOMAIN wire /\ wire'[i] = wire[i]
        BY <4>1, <4>3 DEF Underway
      <4>4. QED BY <1>8, <4>1, <4>2, <4>3
    <3>2. CASE rx'["main"].at \in {"payload", "done"} /\ rx'["main"].msg = BoardMessage(b)
      BY <1>2, <3>2 DEF Underway
    <3>3. BoardMessage(b) \notin reply'
      BY <1>1
    <3>4. QED BY <2>2, <2>3, <3>1, <3>2, <3>3 DEF Underway
  <2>4. QED BY <2>1, <2>3
<1>14. Announced => Announced'
  <2>1. Heads \subseteq Heads'
    BY <1>5 DEF Heads
  <2>2. QED BY <1>2, <2>1 DEF Announced
<1>15. Mistaken' = Mistaken
  BY <1>2 DEF Mistaken, Has
<1>16. QED BY <1>2, <1>12, <1>13, <1>14, <1>15 DEF Fresh

\* A move is told.
LEMMA TellKeeps ==
  ASSUME Sound, Sound', Clean, Clean', Flow, Fresh, NEW seat \in Seat, TellMove(seat)
  PROVE  Flow' /\ Fresh'
<1> DEFINE m == Message("move_result", Nothing)
<1>1. /\ rx' = rx /\ UNCHANGED <<rx, listener, torn>> /\ at' = at /\ board' = board /\ requests' = requests
      /\ game' = game /\ pipe' = pipe /\ wanted' = wanted /\ listener' = listener /\ reply' = reply
      /\ wire' = Sent(m) \/ (wire' = wire /\ game.phase = "gone")
  BY DEF TellMove, mainVars
<1>2. m \in WireMessage /\ m.type = "move_result" /\ m.type \notin Answers
  BY Messages DEF Message, Answers
<1>3. CASE wire' = wire /\ game.phase = "gone"
  <2>1. Flow'
    BY <1>1, <1>3, SameFlow
  <2>2. \A b \in Board : (Shown(b) \/ Underway(b))' = (Shown(b) \/ Underway(b))
    BY <1>1, <1>3 DEF Shown, Underway, BoardMessage, Message
  <2>3. QED BY <1>1, <1>3, <2>1, <2>2 DEF Fresh
<1>4. CASE wire' = Sent(m)
  <2>1. /\ \A i \in DOMAIN wire : i \in DOMAIN wire' /\ wire'[i] = wire[i]
        /\ \E k \in DOMAIN wire' :
             /\ k \notin DOMAIN wire /\ wire'[k] = [of |-> m, part |-> 0]
             /\ \A i \in DOMAIN wire' : i \notin DOMAIN wire /\ i # k => wire'[i].part > 0
    BY <1>1, <1>2, <1>4, LinkSends DEF Sound, Types, LinkTypes, Adds
  <2> HIDE DEF m
  <2>2. PICK k \in DOMAIN wire' :
          /\ k \notin DOMAIN wire /\ wire'[k] = [of |-> m, part |-> 0]
          /\ \A i \in DOMAIN wire' : i \notin DOMAIN wire /\ i # k => wire'[i].part > 0
    BY <2>1
  <2>3. wire'[k].of = m /\ wire'[k].part = 0
    BY <2>2
  <2>4. \A i \in DOMAIN wire' : wire'[i].part = 0 => i = k \/ (i \in DOMAIN wire /\ wire'[i] = wire[i])
    BY <2>1, <2>2
  <2>5. OnWire' = OnWire /\ \A i \in OnWire : wire'[i] = wire[i]
    <3>1. ASSUME NEW i \in OnWire PROVE i \in OnWire' /\ wire'[i] = wire[i]
      BY <2>1, <3>1 DEF OnWire
    <3>2. ASSUME NEW i \in OnWire' PROVE i \in OnWire
      <4>1. i \in DOMAIN wire' /\ wire'[i].part = 0 /\ wire'[i].of.type \in Answers
        BY <3>2 DEF OnWire
      <4>2. i # k
        BY <1>2, <2>3, <4>1
      <4>3. QED BY <2>4, <4>1, <4>2 DEF OnWire
    <3>3. QED BY <3>1, <3>2
  <2>6. /\ InHand' = InHand /\ Clear' = Clear /\ Asks' = Asks /\ Expected' = Expected
        /\ Has("main", Expected)' = Has("main", Expected)
    BY <1>1, <2>5 DEF InHand, Has, Clear, Asks, Expected
  <2>7. Asked \/ Replying \/ Sending \/ Read => Asked' \/ Replying' \/ Sending' \/ Read'
    <3>1. Sending => Sending'
      BY <1>1, <2>5, <2>6 DEF Sending
    <3>2. Asked' = Asked /\ Replying' = Replying /\ Read' = Read
      BY <1>1, <2>5, <2>6 DEF Asked, Replying, Read
    <3>3. QED BY <3>1, <3>2
  <2>8. Flow'
    BY <1>1, <2>6, <2>7 DEF Flow
  <2>9. m \in Heads'
    BY <2>3 DEF Heads
  <2>10. Announced'
    BY <1>2, <2>9 DEF Announced
  <2>11. \A b \in Board : (Shown(b)' => Shown(b)) /\ (Underway(b)' => Underway(b))
    <3> TAKE b \in Board
    <3>1. Shown(b)' => Shown(b)
      BY <1>1 DEF Shown
    <3>2. BoardMessage(b)' = BoardMessage(b) /\ BoardMessage(b).type = "board_state"
      BY DEF BoardMessage, Message
    <3>3. ASSUME Underway(b)' PROVE Underway(b)
      <4>1. CASE \E i \in DOMAIN wire' : wire'[i].part = 0 /\ wire'[i].of = BoardMessage(b)
        <5>1. PICK i \in DOMAIN wire' : wire'[i].part = 0 /\ wire'[i].of = BoardMessage(b)
          BY <4>1
        <5>2. i # k
          BY <1>2, <2>3, <3>2, <5>1
        <5>3. QED BY <2>4, <5>1, <5>2 DEF Underway
      <4>2. CASE rx'["main"].at \in {"payload", "done"} /\ rx'["main"].msg = BoardMessage(b)
        BY <1>1, <4>2 DEF Underway
      <4>3. CASE BoardMessage(b) \in reply'
        BY <1>1, <4>3 DEF Underway
      <4>4. QED BY <3>2, <3>3, <4>1, <4>2, <4>3 DEF Underway
    <3>4. QED BY <3>1, <3>3
  <2>12. QED BY <1>1, <2>8, <2>10, <2>11 DEF Fresh
<1>5. QED BY <1>1, <1>3, <1>4

-----------------------------------------------------------------------------
(* The invariant.                                                           *)

\* The inductive invariant holds initially.
LEMMA InitHolds == Init => IInv
<1> SUFFICES ASSUME Init PROVE IInv
  OBVIOUS
<1>1. /\ wire = <<>> /\ torn = FALSE /\ listener = [at |-> "peek", errors |-> 0, retries |-> 0]
      /\ rx = [t \in Thread |-> [at |-> "off", msg |-> NoMessage, left |-> 0, err |-> "none"]]
      /\ at = "menu" /\ board = game /\ wanted = FALSE /\ retries = 0 /\ known = TRUE /\ pipe = FALSE
      /\ requests = <<>> /\ moving = {} /\ reply = {} /\ slipped = FALSE /\ sent = 0
      /\ game \in [moves : {0}, turn : Seat, phase : {"playing"}]
  BY DEF Init, LinkInit
<1>2. wire \in Seq(Part) /\ requests \in Seq(Request) /\ DOMAIN wire = {} /\ Len(wire) = 0
  BY <1>1
<1>3. WireTypes
  BY <1>1, <1>2 DEF WireTypes
<1>4. /\ 0 \in 0 .. PayloadParts /\ 0 \in 0 .. MaxErrors /\ 0 < MaxErrors /\ 0 \in 0 .. MaxRecvRetries - 1
      /\ 0 \in 0 .. MaxRetries /\ 0 \in 0 .. MaxRequests /\ 0 \in 0 .. MaxMoves
  BY Sizes
<1>5. \A t \in Thread : rx[t].at = "off" /\ rx[t].msg = NoMessage
  BY <1>1
<1>6. RxTypes
  <2>1. [at |-> "off", msg |-> NoMessage, left |-> 0, err |-> "none"] \in Receiver
    BY <1>4, MessageTypes DEF Receiver
  <2>2. QED BY <1>1, <1>5, <2>1 DEF RxTypes
<1>7. ListenerTypes
  BY <1>1, <1>4, <1>5 DEF ListenerTypes, Thread
<1>8. game \in Board
  BY <1>1, <1>4 DEF Board
<1>9. MainTypes
  BY <1>1, <1>4, <1>5, <1>8 DEF MainTypes, Place, Waiting, Thread
<1>10. ServerTypes
  BY <1>1, <1>2, <1>4, <1>8 DEF ServerTypes, Seat
<1>11. Framing
  <2>1. Whole
    BY <1>2 DEF Whole
  <2>2. Start
    BY <1>1 DEF Start
  <2>3. \A t \in Thread : Rest1(t) /\ Hand(t)
    BY <1>5 DEF Rest1, Hand
  <2>4. QED BY <2>1, <2>2, <2>3 DEF Framing, Core
<1>12. Flow
  BY <1>1, <1>2 DEF Flow, Clear, OnWire, Waiting
<1>13. Fresh
  BY <1>1, <1>2, <1>5 DEF Fresh, Shown, Underway, Thread
<1>14. QED BY <1>3, <1>6, <1>7, <1>9, <1>10, <1>11, <1>12, <1>13 DEF IInv, Types

\* Every step keeps the inductive invariant.
LEMMA NextKeeps == IInv /\ [Next]_vars => IInv' /\ Monotone
<1> SUFFICES ASSUME IInv, [Next]_vars PROVE IInv' /\ Monotone
  OBVIOUS
<1>1. Sound /\ (Clean => Flow /\ Fresh)
  BY DEF IInv, Sound
<1> DEFINE Keeps == Sound' /\ Monotone /\ (Clean /\ Clean' => Flow' /\ Fresh')
<1>2. Keeps => IInv' /\ Monotone
  BY <1>1 DEF IInv, Sound, Monotone, Clean
<1>3. CASE (\E t \in Thread : Receive(t) /\ Rest) \/ (Listen /\ Rest) \/ Notified
  BY <1>1, <1>2, <1>3, ReaderSound, ReaderKeeps
<1>4. CASE List \/ RequestBoard
  BY <1>1, <1>2, <1>4, MainCallsSound, AskKeeps
<1>5. CASE RetryBoard
  BY <1>1, <1>2, <1>5, MainCallsSound, RetryKeeps
<1>6. CASE Listed \/ AskAgain \/ ShowBoard
  BY <1>1, <1>2, <1>6, MainCallsSound, TakeKeeps
<1>7. CASE Enter \/ Wake \/ MoveTimesOut \/ PlayMove \/ Leave \/ Rematch
  BY <1>1, <1>2, <1>7, MainActsSound, ActKeeps
<1>8. CASE HandlePlayMove \/ Copy
  BY <1>1, <1>2, <1>8, ServerSound, HandleKeeps
<1>9. CASE OpponentMoves \/ RemoveGame
  BY <1>1, <1>2, <1>9, ServerSound, GameKeeps
<1>10. CASE Answer
  BY <1>1, <1>2, <1>10, ServerSound, AnswerKeeps
<1>11. CASE \E seat \in Seat : TellMove(seat)
  BY <1>1, <1>2, <1>11, ServerSound, TellKeeps
<1>12. CASE UNCHANGED vars
  <2>1. UNCHANGED linkVars /\ UNCHANGED mainVars /\ UNCHANGED serverVars
        /\ UNCHANGED <<pipe, requests, sent>>
    BY <1>12 DEF vars
  <2>2. /\ LinkTypes' /\ Framing' /\ rx' = rx /\ wire' = wire /\ torn' = torn /\ listener' = listener
    BY <1>1, <2>1, LinkStays DEF Sound, Types, LinkTypes
  <2>3. UNCHANGED <<at, board, wanted, retries, known, slipped, game, moving, reply>>
    BY <2>1 DEF mainVars, serverVars
  <2>4. MainTypes' /\ ServerTypes'
    BY <1>1, <2>1, <2>2, <2>3 DEF Sound, Types, MainTypes, ServerTypes
  <2>5. Sound' /\ Monotone
    BY <2>2, <2>3, <2>4 DEF Sound, Types, LinkTypes, Monotone
  <2>6. Announced => Announced'
    BY <2>1, <2>2, <2>3 DEF Announced, Heads
  <2>7. Clean => Flow' /\ Fresh'
    BY <1>1, <2>1, <2>2, <2>3, <2>6, SameFlow, SameFresh
  <2>8. QED BY <1>2, <2>5, <2>7
<1>13. QED
  <2>1. CASE Main
    BY <1>3, <1>4, <1>5, <1>6, <1>7, <2>1 DEF Main, Thread
  <2>2. CASE Listener
    BY <1>3, <2>2 DEF Listener, Thread
  <2>3. CASE PlayerThread \/ OpponentThread
    BY <1>8, <1>10, <1>11, <2>3 DEF PlayerThread, OpponentThread, Seat
  <2>4. CASE Users
    BY <1>4, <1>7, <1>9, <2>4 DEF Users
  <2>5. CASE RemoveGame
    BY <1>9, <2>5
  <2>6. QED BY <1>12, <2>1, <2>2, <2>3, <2>4, <2>5 DEF Next

\* The inductive invariant.
THEOREM InvariantHolds == Spec => []IInv
<1>1. QED BY InitHolds, NextKeeps, PTL DEF Spec

\* The variables have their types: among others, the receivers of the two threads
\* never lack more of a payload than there is, and the listener ends at its limit.
THEOREM PlayModeTyped == Spec => []TypeOK
<1>1. IInv => TypeOK
  <2> SUFFICES ASSUME IInv PROVE TypeOK
    OBVIOUS
  <2>1. WireTypes /\ RxTypes /\ ListenerTypes /\ MainTypes /\ ServerTypes
    BY DEF IInv, Types
  <2>2. \A i \in DOMAIN wire : wire[i].part \in 0 .. Payload(wire[i].of)
    BY <2>1, WireFacts
  <2>3. \A t \in Thread :
          /\ rx[t].at \in {"off", "select", "header", "payload", "done"}
          /\ rx[t].err \in {"none", "success", "timeout", "serialization"}
          /\ rx[t].left \in 0 .. PayloadParts
          /\ rx[t].at = "payload" => rx[t].left > 0
    <3> TAKE t \in Thread
    <3>1. /\ rx[t].at \in {"off", "select", "header", "payload", "done"}
          /\ rx[t].err \in {"none", "success", "timeout", "serialization"}
          /\ rx[t].left \in 0 .. PayloadParts
          /\ rx[t].at = "payload" => rx[t].left \in 1 .. Payload(rx[t].msg)
      BY <2>1, ReceiverFields
    <3>2. Payload(rx[t].msg) \in Nat
      BY PayloadSize
    <3>3. QED BY <3>1, <3>2
  <2>4. LinkTypeOK
    BY <2>1, <2>2, <2>3, ListenerFields DEF LinkTypeOK, ListenerTypes
  <2>5. Cardinality(reply) <= 1
    <3>1. Cardinality({}) = 0 /\ \A m : Cardinality({m}) = 1
      BY FS_EmptySet, FS_Singleton
    <3>2. CASE reply = {}
      BY <3>1, <3>2
    <3>3. CASE \E m \in WireMessage : reply = {m}
      <4>1. PICK m \in WireMessage : reply = {m}
        BY <3>3
      <4>2. Cardinality(reply) = 1
        BY <3>1, <4>1, Zenon
      <4>3. QED BY <4>2
    <3>4. QED BY <2>1, <3>2, <3>3 DEF ServerTypes
  <2>6. QED BY <2>1, <2>4, <2>5 DEF TypeOK, MainTypes, ServerTypes, Place, Waiting
<1>2. QED BY <1>1, InvariantHolds, PTL

\* receive_board and its retries: as long as the client gave no answer up, none is
\* on its way when it does not wait for one, whichever thread reads what.
THEOREM NoAnswerLeftOver == Spec => []NoAnswerIsLeft
<1>1. IInv => NoAnswerIsLeft
  <2> SUFFICES ASSUME IInv, Clean, at \notin Waiting
               PROVE  /\ reply = {} /\ \A i \in DOMAIN requests : requests[i] = "play_move"
                      /\ \A m \in Heads : m.type \notin Answers
    BY DEF NoAnswerIsLeft, Waiting
  <2>1. Clear /\ requests \in {<<>>, <<"play_move">>}
    BY DEF IInv, Flow
  <2>2. \A i \in DOMAIN requests : requests[i] = "play_move"
    BY <2>1
  <2>3. \A m \in Heads : m.type \notin Answers
    BY <2>1 DEF Clear, OnWire, Heads
  <2>4. QED BY <2>1, <2>2, <2>3 DEF Clear
<1>2. QED BY <1>1, InvariantHolds, PTL

\* The pipe between the threads: a board that is shown while the game has gone on
\* will be replaced, since the notice of the move is still somewhere.
THEOREM RefreshComes == Spec => []RefreshIsComing
<1>1. IInv => RefreshIsComing
  <2> SUFFICES ASSUME IInv, Clean, at = "IDLE", game.phase = "playing", board # game
               PROVE  Announced
    BY DEF RefreshIsComing
  <2>1. Sound /\ Flow /\ Fresh /\ board \in Board
    BY DEF IInv, Sound, Types, MainTypes
  <2>2. at \notin Waiting /\ Shown(board)
    BY DEF Waiting, Shown
  <2>3. ~Mistaken
    BY <2>1, <2>2, AtRest
  <2>4. QED BY <2>1, <2>2, <2>3 DEF Fresh
<1>2. QED BY <1>1, InvariantHolds, PTL

\* handle_user_input: a move is chosen on the board that the game still has when
\* the move is received, so that it finds its turn.
THEOREM MovesFindTheirTurn == Spec => []MovesAreInTurn
<1>1. IInv => MovesAreInTurn
  <2> SUFFICES ASSUME IInv, Clean, NEW i \in DOMAIN requests, requests[i] = "play_move"
               PROVE  game.turn = "me" /\ game.phase = "playing" /\ board = game
    BY DEF MovesAreInTurn
  <2>1. Flow /\ Asks # "play_move"
    BY DEF IInv, Asks
  <2>2. requests \in {<<>>, <<"play_move">>, <<Asks>>, <<"play_move", Asks>>}
    BY <2>1 DEF Flow, Asked, Replying, Sending, Read
  <2>3. requests # <<>> /\ Head(requests) = "play_move"
    <3>1. requests # <<>> /\ requests # <<Asks>>
      BY <2>1
    <3>2. QED BY <2>2, <3>1
  <2>4. QED BY <2>1, <2>3 DEF Flow
<1>2. QED BY <1>1, InvariantHolds, PTL
-----------------------------------------------------------------------------
(* The order of the boards.                                                 *)

\* The places of a board, from the oldest on: it is shown, in the hand of the main
\* thread, or on the wire, where the next one to be read comes first.
Where(p, b) ==
  \/ p = 0 /\ board = b
  \/ p = 1 /\ rx["main"].at \in {"payload", "done"} /\ rx["main"].msg = BoardMessage(b)
  \/ p - 1 \in DOMAIN wire /\ wire[p - 1].part = 0 /\ wire[p - 1].of = BoardMessage(b)

\* A board has no more moves than one in a later place, than the one that is being
\* sent, and than the game.
Ordered ==
  /\ \A p \in Nat, a \in Board : Where(p, a) =>
       /\ a.moves <= game.moves
       /\ \A b \in Board : BoardMessage(b) \in reply => a.moves <= b.moves
  /\ \A p, q \in Nat, a, b \in Board :
       p < q /\ Where(p, a) /\ Where(q, b) => a.moves <= b.moves
  /\ \A b \in Board : BoardMessage(b) \in reply => b.moves <= game.moves

\* Boards that move on without overtaking, and a new one that is the game's.
LEMMA Forward ==
  ASSUME Ordered, game \in Board, game' \in Board, game.moves <= game'.moves,
         \A b \in Board : BoardMessage(b) \in reply' =>
           BoardMessage(b) \in reply \/ b.moves = game.moves,
         \A p \in Nat, a \in Board : Where(p, a)' => \E i \in Nat : Where(i, a),
         \A p, q \in Nat, a, b \in Board : p < q /\ Where(p, a)' /\ Where(q, b)' =>
           \E i, j \in Nat : i < j /\ Where(i, a) /\ Where(j, b)
  PROVE  Ordered'
<1>1. game.moves \in Nat /\ game'.moves \in Nat /\ \A b \in Board : b.moves \in Nat
  BY Sizes DEF Board
<1>2. \A b : BoardMessage(b)' = BoardMessage(b)
  BY DEF BoardMessage, Message
<1>3. ASSUME NEW p \in Nat, NEW a \in Board, Where(p, a)'
      PROVE  /\ a.moves <= game'.moves
             /\ \A b \in Board : BoardMessage(b) \in reply' => a.moves <= b.moves
  <2>1. PICK i \in Nat : Where(i, a)
    BY <1>3
  <2>2. a.moves <= game.moves /\ \A b \in Board : BoardMessage(b) \in reply => a.moves <= b.moves
    BY <2>1 DEF Ordered
  <2>3. QED BY <1>1, <2>2
<1>4. ASSUME NEW p \in Nat, NEW q \in Nat, NEW a \in Board, NEW b \in Board,
             p < q, Where(p, a)', Where(q, b)'
      PROVE  a.moves <= b.moves
  <2>1. PICK i \in Nat, j \in Nat : i < j /\ Where(i, a) /\ Where(j, b)
    BY <1>4
  <2>2. QED BY <2>1 DEF Ordered
<1>5. ASSUME NEW b \in Board, BoardMessage(b) \in reply' PROVE b.moves <= game'.moves
  BY <1>1, <1>5 DEF Ordered
<1>6. QED BY <1>2, <1>3, <1>4, <1>5 DEF Ordered

\* Boards that stay where they are, or leave.
LEMMA BoardsStay ==
  ASSUME Ordered, game \in Board, game' \in Board, game.moves <= game'.moves,
         \A b \in Board : BoardMessage(b) \in reply' =>
           BoardMessage(b) \in reply \/ b.moves = game.moves,
         \A p \in Nat, a \in Board : Where(p, a)' => Where(p, a)
  PROVE  Ordered'
  BY Forward

\* The main thread hands no board on, and the stream stays.
LEMMA HandEmptied ==
  ASSUME board' = board, wire' = wire, rx'["main"] = rx["main"] \/ rx'["main"].at \in {"off", "select"}
  PROVE  \A p \in Nat, a \in Board : Where(p, a)' => Where(p, a)
<1>1. \A b : BoardMessage(b)' = BoardMessage(b)
  BY DEF BoardMessage, Message
<1>2. QED BY <1>1 DEF Where

\* A thread that receives takes the first message of the stream, if any.
LEMMA ReceiveOrders ==
  ASSUME Sound, Sound', ~torn', Ordered, NEW t \in Thread, Receive(t), Rest
  PROVE  Ordered'
<1>1. /\ Core /\ Takes(t) /\ WireTypes /\ WireTypes' /\ game \in Board
      /\ \A u \in Thread : u # t => rx'[u] = rx[u]
  BY ReceiveFrames DEF Sound, Types, ServerTypes
<1>2. board' = board /\ game' = game /\ reply' = reply
  BY DEF Rest, mainVars, serverVars
<1>3. DOMAIN wire' = 1 .. Len(wire') /\ Len(wire') \in Nat
  BY <1>1, LenProperties DEF WireTypes
<1>4. \A b \in Board : BoardMessage(b)' = BoardMessage(b) /\ BoardMessage(b).type = "board_state"
  BY DEF BoardMessage, Message
<1>5. ASSUME NEW a \in Board, Where(1, a)'
      PROVE  Where(1, a) \/ (TakesHeader(t) /\ Where(2, a))
  <2>1. Has("main", "board_state")' /\ rx'["main"].msg = BoardMessage(a)
    BY <1>3, <1>4, <1>5 DEF Where, Has
  <2>2. \/ Has("main", "board_state") /\ rx'["main"].msg = rx["main"].msg
        \/ TakesHeader(t) /\ rx'["main"].msg = wire[1].of
    BY <1>1, <2>1, HandAfter
  <2>3. QED BY <2>1, <2>2 DEF Where, Has, TakesHeader
<1>6. \A a \in Board : Where(0, a)' => Where(0, a)
  BY <1>2, <1>3 DEF Where
<1>7. PICK n \in Nat :
        /\ TakesHeader(t) => n = 1
        /\ \A p \in Nat, a \in Board : p > 1 /\ Where(p, a)' => Where(p + n, a)
  <2>1. CASE Waits(t)
    <3>1. ~TakesHeader(t) /\ wire' = wire
      BY <2>1 DEF Waits, TakesHeader
    <3>2. \A p \in Nat, a \in Board : p > 1 /\ Where(p, a)' => Where(p + 0, a)
      BY <1>4, <3>1 DEF Where
    <3>3. QED BY <3>1, <3>2
  <2>2. ASSUME NEW n \in Nat, Shifts(n)
        PROVE  \A p \in Nat, a \in Board : p > 1 /\ Where(p, a)' => Where(p + n, a)
    <3>1. SUFFICES ASSUME NEW p \in Nat, NEW a \in Board, p > 1, Where(p, a)'
                   PROVE  Where(p + n, a)
      OBVIOUS
    <3>2. /\ p - 1 \in 1 .. Len(wire') /\ wire'[p - 1].part = 0
          /\ wire'[p - 1].of = BoardMessage(a)
      BY <1>3, <1>4, <3>1 DEF Where
    <3>3. (p - 1) + n \in DOMAIN wire /\ wire'[p - 1] = wire[(p - 1) + n]
      BY <2>2, <3>2 DEF Shifts
    <3>4. (p - 1) + n = (p + n) - 1
      OBVIOUS
    <3>5. QED BY <3>2, <3>3, <3>4 DEF Where
  <2>3. CASE TakesHeader(t)
    BY <2>2, <2>3 DEF TakesHeader
  <2>4. CASE TakesPayload(t)
    <3>1. ~TakesHeader(t)
      BY <2>4 DEF TakesPayload, TakesHeader
    <3>2. PICK n \in Nat : Shifts(n)
      BY <2>4 DEF TakesPayload
    <3>3. QED BY <2>2, <3>1, <3>2
  <2>5. QED BY <1>1, <2>1, <2>3, <2>4 DEF Takes
<1>8. ASSUME NEW p \in Nat, NEW a \in Board, Where(p, a)'
      PROVE  \E i \in Nat : /\ Where(i, a) /\ (p = 0 => i = 0) /\ (p > 1 => i = p + n)
                            /\ p = 1 => i \in 1 .. 1 + n
  <2>1. CASE p = 0
    BY <1>6, <1>8, <2>1
  <2>2. CASE p = 1
    BY <1>5, <1>7, <1>8, <2>2
  <2>3. CASE p > 1
    <3>1. p + n \in Nat /\ Where(p + n, a)
      BY <1>7, <1>8, <2>3
    <3>2. QED BY <2>3, <3>1
  <2>4. QED BY <2>1, <2>2, <2>3
<1>9. \A p \in Nat, a \in Board : Where(p, a)' => \E i \in Nat : Where(i, a)
  BY <1>8
<1>10. ASSUME NEW p \in Nat, NEW q \in Nat, NEW a \in Board, NEW b \in Board,
              p < q, Where(p, a)', Where(q, b)'
       PROVE  \E i, j \in Nat : i < j /\ Where(i, a) /\ Where(j, b)
  <2>1. PICK i \in Nat : /\ Where(i, a) /\ (p = 0 => i = 0) /\ (p > 1 => i = p + n)
                         /\ p = 1 => i \in 1 .. 1 + n
    BY <1>8, <1>10
  <2>2. PICK j \in Nat : /\ Where(j, b) /\ (q = 0 => j = 0) /\ (q > 1 => j = q + n)
                         /\ q = 1 => j \in 1 .. 1 + n
    BY <1>8, <1>10
  <2>3. i < j
    BY <1>10, <2>1, <2>2
  <2>4. QED BY <2>1, <2>2, <2>3
<1>11. game' \in Board /\ game.moves <= game'.moves
  BY <1>1, <1>2, Sizes DEF Board
<1>12. QED BY <1>1, <1>2, <1>9, <1>10, <1>11, Forward

\* The board that is handed over is shown.
LEMMA ShowOrders ==
  ASSUME Sound, ~torn, Ordered, ShowBoard
  PROVE  Ordered' /\ board'.moves >= board.moves
<1>1. PICK b \in Board : rx["main"].msg.data \in {b, Garbage} /\ board' = b
  BY DEF ShowBoard
<1>2. /\ Got("board_state") /\ rx' = Consumed("main") /\ wire' = wire
      /\ game' = game /\ reply' = reply
  BY DEF ShowBoard, serverVars
<1>3. RxTypes /\ WireTypes /\ game \in Board /\ board \in Board /\ "main" \in Thread
  BY DEF Sound, Types, ServerTypes, MainTypes, Thread
<1>4. rx["main"].at = "done" /\ rx["main"].msg \in WireMessage /\ rx["main"].msg.type = "board_state"
  BY <1>2, <1>3 DEF Got, Returned, Sound, Framing, Core, Hand
<1>5. rx["main"].msg = BoardMessage(b)
  <2>1. rx["main"].msg = BoardMessage(rx["main"].msg.data) /\ rx["main"].msg.data \in Board
    BY <1>4 DEF WireMessage, BoardMessage, Message
  <2>2. rx["main"].msg.data = b
    BY <1>1, <2>1, PlayAssumption
  <2>3. QED BY <2>1, <2>2
<1>6. Where(0, board) /\ Where(1, b) /\ board'.moves = b.moves
  BY <1>1, <1>4, <1>5 DEF Where
<1>7. board.moves <= b.moves /\ board.moves \in Nat /\ b.moves \in Nat
  BY <1>3, <1>6, Sizes DEF Ordered, Board
<1>8. rx'["main"].at = "off"
  BY <1>2, <1>3, ConsumedFacts
<1>9. ASSUME NEW p \in Nat, NEW a \in Board, Where(p, a)'
      PROVE  (p = 0 /\ Where(1, a)) \/ (p > 1 /\ Where(p, a))
  <2>1. DOMAIN wire = 1 .. Len(wire) /\ BoardMessage(a)' = BoardMessage(a)
    BY <1>3, LenProperties DEF WireTypes, BoardMessage, Message
  <2>2. CASE p = 0 /\ board' = a
    BY <1>1, <1>6, <2>2
  <2>3. CASE p - 1 \in DOMAIN wire /\ wire[p - 1].part = 0 /\ wire[p - 1].of = BoardMessage(a)
    BY <2>1, <2>3 DEF Where
  <2>4. QED BY <1>2, <1>8, <1>9, <2>1, <2>2, <2>3 DEF Where
<1>10. Ordered'
  <2>1. \A p \in Nat, a \in Board : Where(p, a)' => \E i \in Nat : Where(i, a)
    BY <1>9
  <2>2. \A p, q \in Nat, a, c \in Board : p < q /\ Where(p, a)' /\ Where(q, c)' =>
          \E i, j \in Nat : i < j /\ Where(i, a) /\ Where(j, c)
    BY <1>9
  <2>3. game.moves <= game'.moves
    BY <1>2, <1>3, Sizes DEF Board
  <2>4. QED BY <1>2, <1>3, <2>1, <2>2, <2>3, Forward
<1>11. QED BY <1>6, <1>7, <1>10

\* What is sent comes last, and no answer is left to be sent.
LEMMA AnswerOrders ==
  ASSUME Sound, Ordered, Answer
  PROVE  Ordered'
<1>1. PICK m \in reply : wire' = Sent(m) /\ reply' = {}
  BY DEF Answer
<1>2. rx' = rx /\ listener' = listener /\ torn' = torn /\ board' = board /\ game' = game
  BY DEF Answer, mainVars
<1>3. LinkTypes /\ Framing /\ game \in Board /\ m \in WireMessage /\ reply = {m}
  BY <1>1 DEF Sound, Types, LinkTypes, ServerTypes
<1>4. WireTypes /\ WireTypes' /\ Adds(m)
  BY <1>1, <1>2, <1>3, LinkSends DEF LinkTypes
<1>5. PICK k \in DOMAIN wire' :
        /\ k \notin DOMAIN wire /\ wire'[k] = [of |-> m, part |-> 0]
        /\ \A i \in DOMAIN wire' : i \notin DOMAIN wire /\ i # k => wire'[i].part > 0
  BY <1>4 DEF Adds
<1>6. /\ DOMAIN wire = 1 .. Len(wire) /\ Len(wire) \in Nat
      /\ DOMAIN wire' = 1 .. Len(wire') /\ Len(wire') \in Nat
  BY <1>4, LenProperties DEF WireTypes
<1>7. k \in Nat /\ k > Len(wire)
  BY <1>5, <1>6
<1>8. ASSUME NEW p \in Nat, NEW a \in Board, Where(p, a)'
      PROVE  \/ Where(p, a) /\ p < k + 1
             \/ p = k + 1 /\ m = BoardMessage(a)
  <2>1. BoardMessage(a)' = BoardMessage(a)
    BY DEF BoardMessage, Message
  <2>2. CASE p \in {0, 1} /\ Where(p, a)
    BY <1>7, <2>2
  <2>3. CASE p - 1 \in DOMAIN wire' /\ wire'[p - 1].part = 0 /\ wire'[p - 1].of = BoardMessage(a)
    <3>1. CASE p - 1 = k
      BY <1>5, <1>7, <2>3, <3>1
    <3>2. CASE p - 1 # k
      <4>1. p - 1 \in DOMAIN wire
        BY <1>5, <2>3, <3>2
      <4>2. wire'[p - 1] = wire[p - 1]
        BY <1>4, <4>1 DEF Adds
      <4>3. Where(p, a)
        BY <2>3, <4>1, <4>2 DEF Where
      <4>4. p < k + 1
        BY <1>6, <1>7, <4>1
      <4>5. QED BY <4>3, <4>4
    <3>3. QED BY <3>1, <3>2
  <2>4. QED BY <1>2, <1>8, <2>1, <2>2, <2>3 DEF Where
<1>9. \A a \in Board : m = BoardMessage(a) => BoardMessage(a) \in reply
  BY <1>1
<1>10. ASSUME NEW p \in Nat, NEW a \in Board, Where(p, a)' PROVE a.moves <= game.moves
  <2>1. CASE Where(p, a)
    BY <2>1 DEF Ordered
  <2>2. CASE m = BoardMessage(a)
    BY <1>9, <2>2 DEF Ordered
  <2>3. QED BY <1>8, <1>10, <2>1, <2>2
<1>11. ASSUME NEW p \in Nat, NEW q \in Nat, NEW a \in Board, NEW b \in Board,
              p < q, Where(p, a)', Where(q, b)'
       PROVE  a.moves <= b.moves
  <2>1. Where(p, a) /\ (Where(q, b) \/ m = BoardMessage(b))
    BY <1>7, <1>8, <1>11
  <2>2. CASE Where(q, b)
    BY <1>11, <2>1, <2>2 DEF Ordered
  <2>3. CASE m = BoardMessage(b)
    BY <1>9, <2>1, <2>3 DEF Ordered
  <2>4. QED BY <2>1, <2>2, <2>3
<1>12. QED BY <1>1, <1>2, <1>10, <1>11 DEF Ordered

\* A notice that is sent is no board.
LEMMA TellOrders ==
  ASSUME Sound, Ordered, NEW seat \in Seat, TellMove(seat)
  PROVE  Ordered'
<1> DEFINE m == Message("move_result", Nothing)
<1>1. /\ rx' = rx /\ UNCHANGED <<rx, listener, torn>> /\ board' = board /\ game' = game
      /\ reply' = reply /\ (wire' = Sent(m) \/ wire' = wire)
  BY DEF TellMove, mainVars
<1>2. m \in WireMessage /\ m.type = "move_result"
  BY Messages DEF Message
<1>3. game \in Board /\ LinkTypes /\ Framing
  BY DEF Sound, Types, LinkTypes, ServerTypes
<1>4. \A p \in Nat, a \in Board : Where(p, a)' => Where(p, a)
  <2>1. CASE wire' = wire
    BY <1>1, <2>1, HandEmptied
  <2>2. CASE wire' = Sent(m)
    <3>1. Adds(m)
      BY <1>1, <1>2, <1>3, <2>2, LinkSends
    <3> HIDE DEF m
    <3>2. PICK k \in DOMAIN wire' :
            /\ k \notin DOMAIN wire /\ wire'[k] = [of |-> m, part |-> 0]
            /\ \A i \in DOMAIN wire' : i \notin DOMAIN wire /\ i # k => wire'[i].part > 0
      BY <3>1 DEF Adds
    <3>3. ASSUME NEW i \in DOMAIN wire', wire'[i].part = 0, wire'[i].of.type = "board_state"
          PROVE  i \in DOMAIN wire /\ wire'[i] = wire[i]
      <4>1. i # k
        BY <1>2, <3>2, <3>3
      <4>2. i \in DOMAIN wire
        BY <3>2, <3>3, <4>1
      <4>3. QED BY <3>1, <4>2 DEF Adds
    <3>4. \A a : BoardMessage(a)' = BoardMessage(a) /\ BoardMessage(a).type = "board_state"
      BY DEF BoardMessage, Message
    <3>5. QED BY <1>1, <3>3, <3>4 DEF Where
  <2>3. QED BY <1>1, <2>1, <2>2
<1>5. game.moves <= game'.moves
  BY <1>1, <1>3, Sizes DEF Board
<1>6. QED BY <1>1, <1>3, <1>4, <1>5, BoardsStay

\* The game goes forward, and what is copied is its board.
LEMMA GameOrders ==
  ASSUME Sound, Sound', Ordered, HandlePlayMove \/ OpponentMoves \/ RemoveGame \/ Copy
  PROVE  Ordered'
<1>1. game \in Board /\ game' \in Board /\ game.moves \in Nat
  BY Sizes DEF Sound, Types, ServerTypes, Board
<1>2. rx' = rx /\ wire' = wire /\ board' = board
  BY DEF HandlePlayMove, OpponentMoves, RemoveGame, Copy, linkVars, mainVars
<1>3. game.moves <= game'.moves
  <2>1. ASSUME NEW seat \in Seat, Played(seat) PROVE game'.moves = game.moves + 1
    BY <1>1, <2>1, PlayedTypes
  <2>2. CASE RemoveGame
    BY <1>1, <2>2 DEF RemoveGame, Board
  <2>3. CASE HandlePlayMove \/ OpponentMoves \/ Copy
    BY <1>1, <2>1, <2>3 DEF HandlePlayMove, OpponentMoves, Copy, Seat
  <2>4. QED BY <2>2, <2>3
<1>4. ASSUME NEW b \in Board, BoardMessage(b) \in reply'
      PROVE  BoardMessage(b) \in reply \/ b.moves = game.moves
  <2>1. CASE Copy
    <3>1. reply' \subseteq {Message("board_state", game), Message("my_game_list", game),
                            Message("ack", Nothing)}
      BY <2>1 DEF Copy
    <3>2. BoardMessage(b) = Message("board_state", game)
      BY <1>4, <3>1 DEF BoardMessage, Message
    <3>3. b = game
      BY <3>2 DEF BoardMessage, Message
    <3>4. QED BY <3>3
  <2>2. CASE HandlePlayMove \/ OpponentMoves \/ RemoveGame
    BY <1>4, <2>2 DEF HandlePlayMove, OpponentMoves, RemoveGame
  <2>3. QED BY <2>1, <2>2
<1>5. \A p \in Nat, a \in Board : Where(p, a)' => Where(p, a)
  BY <1>2, HandEmptied
<1>6. QED BY <1>1, <1>3, <1>4, <1>5, BoardsStay

\* What the main thread and the listener do besides.
LEMMA ClientOrders ==
  ASSUME Sound, Ordered,
         \/ Listed \/ List \/ RequestBoard \/ RetryBoard \/ AskAgain
         \/ Enter \/ Wake \/ MoveTimesOut \/ PlayMove \/ Leave \/ Rematch
         \/ (Listen /\ Rest) \/ Notified \/ UNCHANGED vars
  PROVE  Ordered' /\ board' = board
<1>1. RxTypes /\ LinkTypes /\ Framing /\ game \in Board /\ "main" \in Thread
  BY DEF Sound, Types, LinkTypes, ServerTypes, Thread
<1>2. board' = board /\ game' = game /\ reply' = reply
  BY DEF Listed, List, RequestBoard, RetryBoard, AskAgain, Enter, Wake, MoveTimesOut, PlayMove,
         Leave, Rematch, Notified, Rest, vars, mainVars, serverVars
<1>3. wire' = wire /\ (rx'["main"] = rx["main"] \/ rx'["main"].at \in {"off", "select"})
  <2>1. CASE Listed \/ List \/ RequestBoard \/ RetryBoard \/ AskAgain
    <3>1. wire' = wire /\ (rx' = Calls("main") \/ rx' = Consumed("main"))
      BY <2>1 DEF Listed, List, RequestBoard, RetryBoard, AskAgain
    <3>2. QED BY <1>1, <3>1, CallsFacts, ConsumedFacts
  <2>2. CASE Enter \/ Wake \/ MoveTimesOut \/ PlayMove \/ Leave \/ Rematch \/ UNCHANGED vars
    BY <2>2 DEF Enter, Wake, MoveTimesOut, PlayMove, Leave, Rematch, vars, linkVars
  <2>3. CASE Listen /\ Rest
    BY <1>1, <2>3, ListenFrames
  <2>4. CASE Notified
    BY <1>1, <2>4, HandlesFrames DEF Notified
  <2>5. QED BY <2>1, <2>2, <2>3, <2>4
<1>4. \A p \in Nat, a \in Board : Where(p, a)' => Where(p, a)
  BY <1>2, <1>3, HandEmptied
<1>5. game.moves <= game'.moves
  BY <1>1, <1>2, Sizes DEF Board
<1>6. QED BY <1>1, <1>2, <1>4, <1>5, BoardsStay

\* Every step keeps the order, and shows no older board.
LEMMA NextOrders ==
  ASSUME Sound, Sound', Ordered, ~torn, ~torn', [Next]_vars
  PROVE  Ordered' /\ board'.moves >= board.moves
<1>1. board.moves \in Nat
  BY Sizes DEF Sound, Types, MainTypes, Board
<1>2. CASE \E t \in Thread : Receive(t) /\ Rest
  BY <1>1, <1>2, ReceiveOrders DEF Rest, mainVars
<1>3. CASE ShowBoard
  BY <1>3, ShowOrders
<1>4. CASE Answer
  BY <1>1, <1>4, AnswerOrders DEF Answer, mainVars
<1>5. CASE \E seat \in Seat : TellMove(seat)
  BY <1>1, <1>5, TellOrders DEF TellMove, mainVars
<1>6. CASE HandlePlayMove \/ OpponentMoves \/ RemoveGame \/ Copy
  BY <1>1, <1>6, GameOrders DEF HandlePlayMove, OpponentMoves, RemoveGame, Copy, mainVars
<1>7. CASE \/ Listed \/ List \/ RequestBoard \/ RetryBoard \/ AskAgain
           \/ Enter \/ Wake \/ MoveTimesOut \/ PlayMove \/ Leave \/ Rematch
           \/ (Listen /\ Rest) \/ Notified \/ UNCHANGED vars
  BY <1>1, <1>7, ClientOrders
<1>8. QED
  <2>1. CASE Main
    BY <1>2, <1>3, <1>7, <2>1 DEF Main, Thread
  <2>2. CASE Listener
    BY <1>2, <1>7, <2>2 DEF Listener, Thread
  <2>3. CASE PlayerThread \/ OpponentThread
    BY <1>4, <1>5, <1>6, <2>3 DEF PlayerThread, OpponentThread, Seat
  <2>4. CASE Users
    BY <1>6, <1>7, <2>4 DEF Users
  <2>5. CASE RemoveGame \/ UNCHANGED vars
    BY <1>6, <1>7, <2>5
  <2>6. QED BY <2>1, <2>2, <2>3, <2>4, <2>5 DEF Next

\* The invariant with the order of the boards.
OrderInv == IInv /\ (~torn => Ordered)

\* Initially the board shown is the one there is.
LEMMA OrderInit == Init => OrderInv
<1> SUFFICES ASSUME Init PROVE Ordered
  BY InitHolds DEF OrderInv
<1>1. wire = <<>> /\ rx["main"].at = "off" /\ board = game /\ reply = {} /\ game \in Board
  <2>1. "main" \in Thread
    BY DEF Thread
  <2>2. game \in Board
    BY InitHolds DEF IInv, Types, ServerTypes
  <2>3. QED BY <2>1, <2>2 DEF Init, LinkInit
<1>2. \A p \in Nat, a \in Board : Where(p, a) => p = 0 /\ a = game
  BY <1>1 DEF Where
<1>3. game.moves \in Nat
  BY <1>1, Sizes DEF Board
<1>4. QED BY <1>1, <1>2, <1>3 DEF Ordered

\* receive_board: while messages are read whole, no board is shown that is older
\* than the one before it, also when an answer was taken for another.
THEOREM BoardsInOrder == Spec => BoardsGoForward
<1>1. ASSUME OrderInv, [Next]_vars
      PROVE  OrderInv' /\ (~torn' => board'.moves >= board.moves)
  <2>1. IInv' /\ (torn => torn')
    BY <1>1, NextKeeps DEF OrderInv, Monotone
  <2>2. ~torn' => Ordered' /\ board'.moves >= board.moves
    BY <1>1, <2>1, NextOrders DEF OrderInv, IInv, Sound
  <2>3. QED BY <2>1, <2>2 DEF OrderInv
<1>2. OrderInv /\ [Next]_vars => OrderInv' /\ [~torn' => board'.moves >= board.moves]_board
  BY <1>1
<1>3. QED BY <1>2, OrderInit, PTL DEF Spec, BoardsGoForward
-----------------------------------------------------------------------------
(* The game of the server, of which the client sees boards.                 *)

\* Who has won: the one whose turn it was when the game ended.
WinnerSoFar == IF game.phase = "playing" THEN "nobody" ELSE game.turn

Turns == INSTANCE TurnGame
  WITH One <- "me", Two <- "opponent", Nobody <- "nobody", turn <- game.turn, winner <- WinnerSoFar

\* handle_play_move: a move passes the turn or wins, and changes neither when the
\* game is over already.
LEMMA PlayedTurns ==
  ASSUME ServerTypes, NEW seat \in Seat, Played(seat)
  PROVE  [Turns!Next]_(Turns!vars)
<1> DEFINE n == game.moves + 1
<1>1. /\ game \in Board /\ game.turn = seat /\ game.phase \in {"playing", "finished"}
      /\ seat # "nobody"
  BY DEF Played, ServerTypes, Seat, Board
<1>2. Turns!Other(seat) = Other(seat)
  BY DEF Turns!Other, Other
<1>3. CASE game.phase = "playing" /\ game' = [game EXCEPT !.moves = n, !.turn = Other(seat)]
  <2>1. game'.turn = Other(seat) /\ game'.phase = "playing"
    BY <1>1, <1>3 DEF Board
  <2>2. QED BY <1>1, <1>2, <1>3, <2>1 DEF Turns!Next, Turns!Pass, WinnerSoFar
<1>4. CASE game' = [game EXCEPT !.moves = n, !.phase = "finished"]
  <2>1. game'.turn = game.turn /\ game'.phase = "finished"
    BY <1>1, <1>4 DEF Board
  <2>2. CASE game.phase = "playing"
    BY <1>1, <2>1, <2>2 DEF Turns!Next, Turns!Win, WinnerSoFar
  <2>3. CASE game.phase = "finished"
    BY <2>1, <2>3 DEF Turns!vars, WinnerSoFar
  <2>4. QED BY <1>1, <2>2, <2>3
<1>5. QED BY <1>3, <1>4 DEF Played

\* game_manager_play_move and game_manager_remove_game, as play mode meets them:
\* the two players move in turn until the one whose turn it is wins, and what is
\* asked, told or removed around the moves changes neither the turn nor the winner.
THEOREM GameTakesTurns == Spec => Turns!Spec
<1>1. Init => Turns!Init
  <2> SUFFICES ASSUME Init PROVE Turns!Init
    OBVIOUS
  <2>1. game.turn \in Seat /\ game.phase = "playing"
    BY DEF Init
  <2>2. QED BY <2>1 DEF Turns!Init, WinnerSoFar, Seat
<1>2. ASSUME IInv, [Next]_vars
      PROVE  [Turns!Next]_(Turns!vars)
  <2>1. ServerTypes
    BY <1>2 DEF IInv, Types
  <2>2. CASE UNCHANGED game
    BY <2>2 DEF Turns!vars, WinnerSoFar
  <2>3. CASE \E seat \in Seat : Played(seat)
    BY <2>1, <2>3, PlayedTurns
  <2>4. CASE RemoveGame
    <3>1. game \in Board /\ game.phase = "finished" /\ game' = [game EXCEPT !.phase = "gone"]
      BY <2>1, <2>4 DEF RemoveGame, ServerTypes
    <3>2. game'.turn = game.turn /\ game'.phase = "gone"
      BY <3>1 DEF Board
    <3>3. QED BY <3>1, <3>2 DEF Turns!vars, WinnerSoFar
  <2>5. CASE Main
    BY <2>2, <2>5 DEF Main, Rest, serverVars, Listed, RequestBoard, RetryBoard, AskAgain, ShowBoard, Wake
  <2>6. CASE Listener
    BY <2>2, <2>6 DEF Listener, Rest, serverVars, Notified
  <2>7. CASE PlayerThread \/ OpponentThread
    BY <2>2, <2>3, <2>7 DEF PlayerThread, OpponentThread, HandlePlayMove, Copy, Answer, TellMove, Seat
  <2>8. CASE Users
    BY <2>2, <2>3, <2>8
       DEF Users, Enter, List, PlayMove, Leave, Rematch, OpponentMoves, MoveTimesOut, serverVars, Seat
  <2>9. CASE UNCHANGED vars
    BY <2>2, <2>9 DEF vars, serverVars
  <2>10. QED BY <1>2, <2>4, <2>5, <2>6, <2>7, <2>8, <2>9 DEF Next
<1>3. QED BY <1>1, <1>2, InvariantHolds, PTL DEF Spec, Turns!Spec
=============================================================================
