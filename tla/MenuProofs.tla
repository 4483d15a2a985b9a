------------------------------ MODULE MenuProofs ------------------------------
(***************************************************************************)
(* Theorems about Menu.tla, for any length of a message, any number of     *)
(* challengers, challenges, requests and slots of the pending challenges:  *)
(* its types, that a command shows the answer to its own request, that the *)
(* server has no spectator who is back in the menu, and that an open       *)
(* challenge is listed, or how it came not to be.                          *)
(*                                                                         *)
(* The argument has two layers.  Framing, as in PlayModeProofs: until a    *)
(* thread has read parts of another's message, the stream is the rest of   *)
(* the one message that is being read, and whole messages.  Flow: a        *)
(* message answers the request that is waited for, of which there is one   *)
(* answer at most, or a request that was left, or nobody asked for it.     *)
(***************************************************************************)
EXTENDS Menu, SequenceTheorems, TLAPS

\* What the server sends, and what a thread may take for a message.  A message of
\* a challenge says which.
PlainType ==
  {"player_list", "ack", "error", "bio_response", "player_stats", "friend_list",
   "saved_game_list", "saved_game_state", "game_list", "spectate_ack", "board_state",
   "game_started", "chat_message", "move_result", "spectator_joined", "game_over"}
ChallengeData == {About(c) : c \in ChallengeRecord}
WireMessage   == [type : PlainType, data : Data]
                   \union [type : {"challenge_received"}, data : ChallengeData]
ReadMessage   == [type : PlainType \union {"junk", "none"}, data : Data \union {Nothing, Garbage}]
                   \union [type : {"challenge_received"}, data : ChallengeData \union {Garbage}]
Part          == [of : WireMessage, part : 0 .. PayloadParts]

Receiver == [at   : {"off", "select", "header", "payload", "done"}, msg : ReadMessage,
             left : 0 .. PayloadParts, err : {"none", "success", "timeout", "serialization"}]

\* The requests whose answer nobody waits for, and the request of a command.
Unheard     == {"chat", "accept", "decline", "stop_spectate"}
RequestOf(w) == IF w \in {"first_board", "refresh"} THEN "get_board" ELSE w
Request     == [type : Requests, n : Nat, challenge : ChallengeRecord \union {NoChallenge}]

WireTypes ==
  /\ wire \in Seq(Part) /\ torn \in BOOLEAN
  /\ \A i \in DOMAIN wire : wire[i].part <= Payload(wire[i].of)
RxTypes ==
  /\ rx \in [Thread -> Receiver]
  /\ \A t \in Thread : rx[t].at = "payload" => rx[t].left \in 1 .. Payload(rx[t].msg)
ListenerTypes ==
  /\ listener \in [at : {"peek", "recv", "ended"}, errors : 0 .. MaxErrors,
                   retries : 0 .. MaxRecvRetries - 1]
  /\ listener.at # "ended" => listener.errors < MaxErrors
  /\ listener.at = "recv" <=> rx["listener"].at # "off"
ClientTypes ==
  /\ at \in Waiting \union {"menu", "choose_saved", "choose_game", "spectating", "ended"}
  /\ at \in Waiting <=> rx["main"].at # "off"
  /\ pending \in [Slot -> ChallengeRecord \union {NoChallenge}]
  /\ spectator \in [active : BOOLEAN, updated : BOOLEAN]
ServerTypes ==
  /\ open \subseteq ChallengeRecord /\ asked \in BOOLEAN /\ watching \in BOOLEAN
  /\ others \in [challenges : 0 .. MaxChallenges, notices : Nat]
RequestTypes == requests \in Seq(Request) /\ sent \in Nat
HistoryTypes ==
  /\ left \subseteq 1 .. sent /\ lost \in BOOLEAN
  /\ answered \subseteq ChallengeRecord /\ full \subseteq ChallengeRecord
  /\ dropped \subseteq ChallengeRecord
Types ==
  /\ WireTypes /\ RxTypes /\ ListenerTypes /\ ClientTypes /\ ServerTypes
  /\ RequestTypes /\ HistoryTypes

-----------------------------------------------------------------------------

\* Messages are whole: a part is followed by the next part of its message, and
\* the last part by a header, or by nothing.
Whole ==
  \A i \in DOMAIN wire :
    /\ wire[i].part < Payload(wire[i].of) =>
         i < Len(wire) /\ wire[i + 1] = [of |-> wire[i].of, part |-> wire[i].part + 1]
    /\ wire[i].part = Payload(wire[i].of) /\ i < Len(wire) => wire[i + 1].part = 0

\* The stream starts with a header, or with the rest of what a thread reads.
Start == wire # <<>> /\ (\A t \in Thread : rx[t].at # "payload") => wire[1].part = 0
Rest1(t) ==
  rx[t].at = "payload" =>
    /\ wire # <<>>
    /\ wire[1] = [of |-> rx[t].msg, part |-> Payload(rx[t].msg) - rx[t].left + 1]
    /\ \A u \in Thread : rx[u].at = "payload" => u = t

\* A thread has a message only when it has read its header.
Hand(t) ==
  /\ rx[t].at \in {"select", "header"} => rx[t].msg = NoMessage
  /\ rx[t].at = "payload" => rx[t].msg \in WireMessage
  /\ rx[t].at = "done" =>
       \/ rx[t].err = "success" /\ rx[t].msg \in WireMessage
       \/ rx[t].err = "timeout" /\ rx[t].msg = NoMessage

Core    == Whole /\ Start /\ \A t \in Thread : Rest1(t) /\ Hand(t)
Framing == ~torn => Core

-----------------------------------------------------------------------------
(* The link: what a step does to the receivers.                             *)

\* What the assumptions say of the constants.
LEMMA Sizes ==
  /\ PayloadParts \in Nat /\ PayloadParts >= 1 /\ MaxErrors \in Nat /\ MaxErrors >= 1
  /\ MaxRecvRetries \in Nat /\ MaxRecvRetries >= 1
  BY LinkAssumption

\* A payload has PayloadParts parts at most.
LEMMA PayloadSize == \A m : Payload(m) \in 0 .. PayloadParts /\ Payload(m) \in Nat
  BY Sizes DEF Payload

\* What is sent may be read; junk and no message are never sent.
LEMMA MessageTypes ==
  /\ WireMessage \subseteq ReadMessage
  /\ NoMessage \in ReadMessage /\ Junk \in ReadMessage /\ NoMessage \notin WireMessage
  /\ Junk \notin WireMessage
<1>1. "none" \notin PlainType /\ "junk" \notin PlainType /\ "challenge_received" \notin PlainType
  BY DEF PlainType
<1>2. NoMessage = [type |-> "none", data |-> Nothing] /\ Junk = [type |-> "junk", data |-> Nothing]
  BY DEF NoMessage, Junk, Message
<1>3. NoMessage \in ReadMessage /\ Junk \in ReadMessage
  BY <1>2 DEF ReadMessage
<1>4. NoMessage \notin WireMessage /\ Junk \notin WireMessage
  BY <1>1, <1>2 DEF WireMessage
<1>5. WireMessage \subseteq ReadMessage
  BY DEF WireMessage, ReadMessage
<1>6. QED BY <1>3, <1>4, <1>5

\* The parts of a receiver.
LEMMA ReceiverFields ==
  ASSUME RxTypes, NEW t \in Thread
  PROVE  /\ rx[t] \in Receiver /\ rx[t].msg \in ReadMessage /\ rx[t].left \in 0 .. PayloadParts
         /\ rx[t].at \in {"off", "select", "header", "payload", "done"}
         /\ rx[t].err \in {"none", "success", "timeout", "serialization"}
         /\ rx[t].at = "payload" => rx[t].left \in 1 .. Payload(rx[t].msg)
  BY DEF RxTypes, Receiver

\* One receiver changes.
LEMMA OneReceiver ==
  ASSUME RxTypes, NEW t \in Thread, NEW r \in Receiver, rx' = [rx EXCEPT ![t] = r],
         r.at = "payload" => r.left \in 1 .. Payload(r.msg)
  PROVE  RxTypes' /\ rx'[t] = r /\ \A u \in Thread : u # t => rx'[u] = rx[u]
<1>1. rx' \in [Thread -> Receiver] /\ rx'[t] = r /\ \A u \in Thread : u # t => rx'[u] = rx[u]
  BY DEF RxTypes
<1>2. \A u \in Thread : rx'[u].at = "payload" => rx'[u].left \in 1 .. Payload(rx'[u].msg)
  BY <1>1 DEF RxTypes
<1>3. QED BY <1>1, <1>2 DEF RxTypes

\* A receiver that is called waits in select, with nothing read.
LEMMA CallsFacts ==
  ASSUME RxTypes, NEW t \in Thread, rx' = Calls(t)
  PROVE  /\ RxTypes' /\ \A u \in Thread : u # t => rx'[u] = rx[u]
         /\ rx'[t].at = "select" /\ rx'[t].msg = NoMessage
<1> DEFINE r == [rx[t] EXCEPT !.at = "select", !.msg = NoMessage, !.err = "none"]
<1>1. r \in Receiver /\ r.at = "select" /\ r.msg = NoMessage
  BY ReceiverFields, MessageTypes DEF Receiver
<1>2. rx' = [rx EXCEPT ![t] = r]
  BY DEF Calls, RxTypes
<1> HIDE DEF r
<1>3. QED BY <1>1, <1>2, OneReceiver

\* A receiver whose result is taken is off.
LEMMA ConsumedFacts ==
  ASSUME RxTypes, NEW t \in Thread, rx' = Consumed(t)
  PROVE  /\ RxTypes' /\ \A u \in Thread : u # t => rx'[u] = rx[u]
         /\ rx'[t].at = "off"
<1> DEFINE r == [rx[t] EXCEPT !.at = "off"]
<1>1. r \in Receiver /\ r.at = "off"
  BY ReceiverFields DEF Receiver
<1>2. rx' = [rx EXCEPT ![t] = r]
  BY DEF Consumed, RxTypes
<1> HIDE DEF r
<1>3. QED BY <1>1, <1>2, OneReceiver

\* A receiver that returns is done, and keeps what it has read.
LEMMA ReturnsFields ==
  ASSUME RxTypes, NEW t \in Thread, NEW err \in {"success", "timeout", "serialization"}
  PROVE  /\ Returns(t, err) \in Receiver /\ Returns(t, err).at = "done"
         /\ Returns(t, err).err = err /\ Returns(t, err).msg = rx[t].msg
         /\ \A m \in ReadMessage :
              LET r == [Returns(t, err) EXCEPT !.msg = m]
              IN  r \in Receiver /\ r.at = "done" /\ r.err = err /\ r.msg = m
<1>1. rx[t] \in Receiver /\ 0 \in 0 .. PayloadParts
  BY ReceiverFields, Sizes
<1>2. QED BY <1>1 DEF Returns, Receiver

\* select finds something to read.
LEMMA ReadableFacts ==
  ASSUME RxTypes, NEW t \in Thread, Readable(t)
  PROVE  /\ RxTypes' /\ \A u \in Thread : u # t => rx'[u] = rx[u]
         /\ rx[t].at = "select" /\ rx'[t].at = "header" /\ rx'[t].msg = rx[t].msg
<1> DEFINE r == [rx[t] EXCEPT !.at = "header"]
<1>1. r \in Receiver /\ r.at = "header" /\ r.msg = rx[t].msg
  BY ReceiverFields DEF Receiver
<1>2. rx' = [rx EXCEPT ![t] = r] /\ rx[t].at = "select"
  BY DEF Readable, Receiving, RxTypes
<1> HIDE DEF r
<1>3. QED BY <1>1, <1>2, OneReceiver

\* A receiver times out only when there is nothing to read.
LEMMA TimesOutFacts ==
  ASSUME RxTypes, NEW t \in Thread, TimesOut(t)
  PROVE  /\ RxTypes' /\ \A u \in Thread : u # t => rx'[u] = rx[u]
         /\ rx[t].at \in {"select", "payload"} /\ wire = <<>>
         /\ rx'[t].at = "done" /\ rx'[t].err = "timeout" /\ rx'[t].msg = rx[t].msg
<1> DEFINE r == Returns(t, "timeout")
<1>1. rx' = [rx EXCEPT ![t] = r] /\ wire = <<>> /\ rx[t].at \in {"select", "payload"}
  BY DEF TimesOut, Receiving
<1>2. r \in Receiver /\ r.at = "done" /\ r.err = "timeout" /\ r.msg = rx[t].msg
  BY ReturnsFields
<1> HIDE DEF r
<1>3. RxTypes' /\ rx'[t] = r /\ \A u \in Thread : u # t => rx'[u] = rx[u]
  BY <1>1, <1>2, OneReceiver
<1>4. QED BY <1>1, <1>2, <1>3

\* A header is read, or the stream is torn.
LEMMA ReadHeaderFacts ==
  ASSUME RxTypes, WireTypes, NEW t \in Thread, ReadHeader(t)
  PROVE  /\ RxTypes' /\ \A u \in Thread : u # t => rx'[u] = rx[u]
         /\ rx[t].at = "header" /\ wire # <<>> /\ wire' = Tail(wire)
         /\ rx'[t].at \in {"payload", "done"}
         /\ \/ torn' = TRUE
            \/ /\ torn' = torn /\ wire[1].part = 0 /\ rx'[t].msg = wire[1].of
               /\ \/ Payload(wire[1].of) = 0 /\ rx'[t].at = "done" /\ rx'[t].err = "success"
                  \/ /\ Payload(wire[1].of) # 0 /\ rx'[t].at = "payload"
                     /\ rx'[t].left = Payload(wire[1].of)
<1> DEFINE m == wire[1].of
<1>1. /\ rx[t].at = "header" /\ wire # <<>> /\ wire' = Tail(wire) /\ Head(wire) = wire[1]
      /\ wire[1] \in Part
  BY DEF ReadHeader, WireTypes
<1>2. m \in ReadMessage
  BY <1>1, MessageTypes DEF Part
<1>3. CASE wire[1].part = 0 /\ Payload(m) = 0
  <2> DEFINE r == [Returns(t, "success") EXCEPT !.msg = m]
  <2>1. rx' = [rx EXCEPT ![t] = r] /\ torn' = torn
    BY <1>1, <1>3 DEF ReadHeader
  <2>2. r \in Receiver /\ r.at = "done" /\ r.err = "success" /\ r.msg = m
    BY <1>2, ReturnsFields
  <2> HIDE DEF r
  <2>3. RxTypes' /\ rx'[t] = r /\ \A u \in Thread : u # t => rx'[u] = rx[u]
    BY <2>1, <2>2, OneReceiver
  <2>4. QED BY <1>1, <1>3, <2>1, <2>2, <2>3
<1>4. CASE wire[1].part = 0 /\ Payload(m) # 0
  <2> DEFINE r == [rx[t] EXCEPT !.at = "payload", !.msg = m, !.left = Payload(m)]
  <2>1. rx' = [rx EXCEPT ![t] = r] /\ torn' = torn
    BY <1>1, <1>4 DEF ReadHeader, RxTypes
  <2>2. Payload(m) \in 0 .. PayloadParts /\ Payload(m) \in 1 .. Payload(m)
    BY <1>4, PayloadSize
  <2>3. r \in Receiver /\ r.at = "payload" /\ r.msg = m /\ r.left = Payload(m)
    BY <1>2, <2>2, ReceiverFields DEF Receiver
  <2> HIDE DEF r
  <2>4. QED BY <1>1, <1>4, <2>1, <2>2, <2>3, OneReceiver
<1>5. CASE wire[1].part # 0
  <2>1. torn' = TRUE
    BY <1>1, <1>5 DEF ReadHeader
  <2>2. PICK err \in {"success", "serialization"} :
          rx' = [rx EXCEPT ![t] = [Returns(t, err) EXCEPT !.msg = Junk]]
    BY <1>1, <1>5 DEF ReadHeader
  <2> DEFINE r == [Returns(t, err) EXCEPT !.msg = Junk]
  <2>3. r \in Receiver /\ r.at = "done"
    BY MessageTypes, ReturnsFields
  <2>4. rx' = [rx EXCEPT ![t] = r]
    BY <2>2
  <2> HIDE DEF r
  <2>5. RxTypes' /\ rx'[t] = r /\ \A u \in Thread : u # t => rx'[u] = rx[u]
    BY <2>3, <2>4, OneReceiver
  <2>6. QED BY <1>1, <2>1, <2>3, <2>5
<1>6. QED BY <1>3, <1>4, <1>5

\* A payload is read, or some of it, or the stream is torn.
LEMMA ReadPayloadFacts ==
  ASSUME RxTypes, WireTypes, NEW t \in Thread, ReadPayload(t)
  PROVE  LET n == IF rx[t].left < Len(wire) THEN rx[t].left ELSE Len(wire)
         IN  /\ RxTypes' /\ \A u \in Thread : u # t => rx'[u] = rx[u]
             /\ rx[t].at = "payload" /\ wire # <<>> /\ wire' = SubSeq(wire, n + 1, Len(wire))
             /\ n \in 1 .. Len(wire) /\ n <= rx[t].left
             /\ rx'[t].at \in {"payload", "done"} /\ torn' \in BOOLEAN /\ (torn => torn')
             /\ \/ torn' = TRUE
                \/ /\ torn' = torn /\ rx'[t].msg = rx[t].msg
                   /\ \A i \in 1 .. n :
                        wire[i] = [of |-> rx[t].msg, part |-> Payload(rx[t].msg) - rx[t].left + i]
                   /\ \/ n = rx[t].left /\ rx'[t].at = "done" /\ rx'[t].err = "success"
                      \/ n < rx[t].left /\ n = Len(wire)
<1> DEFINE lack == rx[t].left
           n    == IF lack < Len(wire) THEN lack ELSE Len(wire)
           from == Payload(rx[t].msg) - lack
           own  == \A i \in 1 .. n : wire[i] = [of |-> rx[t].msg, part |-> from + i]
           r    == IF n = lack THEN Returns(t, "success") ELSE [rx[t] EXCEPT !.left = @ - n]
           s    == IF own THEN r ELSE [r EXCEPT !.msg.data = Garbage]
<1>1. /\ rx[t].at = "payload" /\ wire # <<>> /\ wire' = SubSeq(wire, n + 1, Len(wire))
      /\ rx' = [rx EXCEPT ![t] = s] /\ torn' = (torn \/ ~own)
  BY DEF ReadPayload
<1>2. /\ lack \in 1 .. Payload(rx[t].msg) /\ lack \in 1 .. PayloadParts
      /\ Len(wire) \in Nat /\ Len(wire) >= 1 /\ torn \in BOOLEAN
  BY <1>1, ReceiverFields, PayloadSize DEF WireTypes
<1>3. n \in 1 .. Len(wire) /\ n <= lack /\ (n = lack \/ (n < lack /\ n = Len(wire)))
  BY <1>2
<1>4. /\ r \in Receiver /\ r.msg = rx[t].msg /\ r.at \in {"payload", "done"}
      /\ n = lack => r.at = "done" /\ r.err = "success"
      /\ r.at = "payload" => r.left \in 1 .. Payload(r.msg)
  <2>1. CASE n = lack
    BY <2>1, ReturnsFields, ReceiverFields
  <2>2. CASE n # lack
    <3>1. lack - n \in 0 .. PayloadParts /\ lack - n \in 1 .. Payload(rx[t].msg)
      <4> DEFINE size == Payload(rx[t].msg)
      <4>1. size \in Nat /\ PayloadParts \in Nat
        BY PayloadSize, Sizes
      <4> HIDE DEF lack, n, size
      <4>2. /\ lack \in 1 .. size /\ lack \in 1 .. PayloadParts /\ Len(wire) \in Nat
            /\ n \in 1 .. Len(wire) /\ n <= lack
        BY <1>2, <1>3 DEF size
      <4>3. lack - n \in 0 .. PayloadParts /\ lack - n \in 1 .. size
        BY <4>1, <4>2, <2>2
      <4>4. QED BY <4>3 DEF size
    <3>2. r = [rx[t] EXCEPT !.left = lack - n]
      BY <2>2
    <3>3. [rx[t] EXCEPT !.left = lack - n] \in Receiver
      BY <3>1, ReceiverFields DEF Receiver
    <3>4. QED BY <1>1, <2>2, <3>1, <3>2, <3>3, ReceiverFields DEF Receiver
  <2>3. QED BY <2>1, <2>2
<1>5. /\ s \in Receiver /\ s.at = r.at /\ s.err = r.err /\ s.left = r.left
      /\ s.msg.type = rx[t].msg.type /\ (own => s.msg = rx[t].msg)
  <2> HIDE DEF r, own
  <2>1. [r EXCEPT !.msg.data = Garbage] = [r EXCEPT !.msg = [r.msg EXCEPT !.data = Garbage]]
    OBVIOUS
  <2>2. [r.msg EXCEPT !.data = Garbage] \in ReadMessage /\ [r.msg EXCEPT !.data = Garbage].type = r.msg.type
    BY <1>4, ReceiverFields DEF ReadMessage
  <2>3. QED BY <1>4, <2>1, <2>2 DEF Receiver
<1>6. Payload(s.msg) = Payload(r.msg)
  BY <1>4, <1>5 DEF Payload
<1> HIDE DEF s, r
<1>7. RxTypes' /\ rx'[t] = s /\ \A u \in Thread : u # t => rx'[u] = rx[u]
  BY <1>1, <1>4, <1>5, <1>6, OneReceiver
<1> HIDE DEF own, n
<1>8. torn' = TRUE \/ (torn' = torn /\ own)
  BY <1>1, <1>2
<1>9. torn' \in BOOLEAN /\ (torn => torn')
  BY <1>1, <1>2
<1>10. QED BY <1>1, <1>2, <1>3, <1>4, <1>5, <1>7, <1>8, <1>9 DEF own, n

-----------------------------------------------------------------------------
(* The link: what a step does to the stream.                                *)

\* The first n parts are read.
Shifts(n) ==
  /\ Len(wire') = Len(wire) - n
  /\ \A i \in 1 .. Len(wire') : i + n \in DOMAIN wire /\ wire'[i] = wire[i + n]
  /\ \A j \in DOMAIN wire : j > n => j - n \in DOMAIN wire' /\ wire'[j - n] = wire[j]

\* The stream as a sequence of parts.
LEMMA WireFacts ==
  ASSUME WireTypes
  PROVE  /\ wire \in Seq(Part) /\ Len(wire) \in Nat /\ DOMAIN wire = 1 .. Len(wire)
         /\ wire # <<>> => Len(wire) >= 1 /\ 1 \in DOMAIN wire /\ Head(wire) = wire[1]
         /\ \A i \in DOMAIN wire : /\ wire[i] \in Part /\ wire[i].of \in WireMessage
                                   /\ wire[i].part \in 0 .. Payload(wire[i].of)
                                   /\ wire[i].part \in Nat
<1>1. wire \in Seq(Part)
  BY DEF WireTypes
<1>2. Len(wire) \in Nat /\ DOMAIN wire = 1 .. Len(wire) /\ wire \in [1 .. Len(wire) -> Part]
  BY <1>1, LenProperties
<1>3. wire # <<>> => Len(wire) >= 1 /\ 1 \in DOMAIN wire /\ Head(wire) = wire[1]
  <2> SUFFICES ASSUME wire # <<>> PROVE Len(wire) >= 1 /\ 1 \in DOMAIN wire /\ Head(wire) = wire[1]
    OBVIOUS
  <2>1. Len(wire) \in Nat \ {0}
    BY <1>1, EmptySeq
  <2>2. Head(wire) = wire[1]
    BY <1>1
  <2>3. QED BY <1>2, <2>1, <2>2
<1>4. \A i \in DOMAIN wire : /\ wire[i] \in Part /\ wire[i].of \in WireMessage
                             /\ wire[i].part \in 0 .. Payload(wire[i].of) /\ wire[i].part \in Nat
  <2> TAKE i \in DOMAIN wire
  <2>1. wire[i] \in Part
    BY <1>2
  <2>2. wire[i].of \in WireMessage /\ wire[i].part \in 0 .. PayloadParts
    BY <2>1 DEF Part
  <2>3. wire[i].part <= Payload(wire[i].of)
    BY DEF WireTypes
  <2>4. Payload(wire[i].of) \in Nat
    BY PayloadSize
  <2>5. QED BY <2>1, <2>2, <2>3, <2>4, Sizes
<1>5. QED BY <1>1, <1>2, <1>3, <1>4

\* What is left of a sequence without its first k - 1 elements.
LEMMA Suffix ==
  ASSUME NEW S, NEW s \in Seq(S), NEW len \in Nat, len = Len(s), NEW k \in 1 .. len + 1,
         NEW u, u = SubSeq(s, k, len)
  PROVE  /\ u \in Seq(S) /\ Len(u) = len + 1 - k
         /\ \A i \in 1 .. len + 1 - k : u[i] = s[k + i - 1]
<1>1. k \in Int /\ len \in Int /\ \A i \in k .. len : s[i] \in S
  BY ElementOfSeq
<1>2. /\ u \in Seq(S) /\ Len(u) = (IF k <= len THEN len - k + 1 ELSE 0)
      /\ \A i \in 1 .. len - k + 1 : u[i] = s[k + i - 1]
  BY <1>1, SubSeqProperties
<1>3. len - k + 1 = len + 1 - k /\ (IF k <= len THEN len - k + 1 ELSE 0) = len + 1 - k
  BY <1>1
<1>4. QED BY <1>2, <1>3

\* The places of a sequence whose first n elements are gone.
LEMMA Places ==
  ASSUME NEW len \in Nat, NEW n \in Nat, n <= len
  PROVE  /\ n + 1 \in 1 .. len + 1 /\ len + 1 - (n + 1) = len - n
         /\ \A i \in 1 .. len - n : i + n \in 1 .. len /\ (n + 1) + i - 1 = i + n
         /\ \A j \in 1 .. len : j > n => j - n \in 1 .. len - n /\ (j - n) + n = j
  OBVIOUS

\* What is left after reading n parts has types, and is shifted by n.
LEMMA ReadFacts ==
  ASSUME WireTypes, NEW n \in Nat, n <= Len(wire), wire' = SubSeq(wire, n + 1, Len(wire)),
         torn' \in BOOLEAN
  PROVE  WireTypes' /\ Shifts(n)
<1> DEFINE len == Len(wire)
           k   == n + 1
<1>0. wire \in Seq(Part) /\ len \in Nat /\ DOMAIN wire = 1 .. len /\ n \in 0 .. len
      /\ len = Len(wire) /\ wire' = SubSeq(wire, k, len)
  <2>1. wire \in Seq(Part) /\ len \in Nat /\ DOMAIN wire = 1 .. len
    BY WireFacts
  <2>2. wire' = SubSeq(wire, k, len)
    OBVIOUS
  <2> HIDE DEF k
  <2>3. n \in 0 .. len /\ len = Len(wire)
    OBVIOUS
  <2>4. QED BY <2>1, <2>2, <2>3
<1> HIDE DEF len
<1>1. /\ k \in 1 .. len + 1 /\ len + 1 - k = len - n
      /\ \A i \in 1 .. len - n : i + n \in 1 .. len /\ k + i - 1 = i + n
      /\ \A j \in 1 .. len : j > n => j - n \in 1 .. len - n /\ (j - n) + n = j
  BY <1>0, Places
<1>2. wire' \in Seq(Part) /\ Len(wire') = len - n
      /\ \A i \in 1 .. Len(wire') : i + n \in DOMAIN wire /\ wire'[i] = wire[i + n]
  <2> HIDE DEF k
  <2>2. wire' \in Seq(Part) /\ Len(wire') = len + 1 - k
        /\ \A i \in 1 .. len + 1 - k : wire'[i] = wire[k + i - 1]
    <3> DEFINE u == SubSeq(wire, k, len)
    <3> HIDE DEF u
    <3>1. u \in Seq(Part) /\ Len(u) = len + 1 - k /\ \A i \in 1 .. len + 1 - k : u[i] = wire[k + i - 1]
      <4>1. wire \in Seq(Part) /\ len \in Nat /\ len = Len(wire) /\ k \in 1 .. len + 1 /\ u = SubSeq(wire, k, len)
        BY <1>0, <1>1 DEF u
      <4>2. QED BY <4>1, Suffix
    <3>2. wire' = u
      BY <1>0 DEF u
    <3>3. QED BY <3>1, <3>2
  <2>3. Len(wire') = len - n /\ \A i \in 1 .. len - n : wire'[i] = wire[k + i - 1]
    BY <1>1, <2>2
  <2>4. \A i \in 1 .. len - n : i + n \in DOMAIN wire /\ wire'[i] = wire[i + n]
    BY <1>0, <1>1, <2>3
  <2>5. QED BY <2>2, <2>3, <2>4
<1>3. DOMAIN wire' = 1 .. Len(wire')
  BY <1>2
<1>4. \A i \in DOMAIN wire' : wire'[i].part <= Payload(wire'[i].of)
  BY <1>2, <1>3 DEF WireTypes
<1>5. \A j \in DOMAIN wire : j > n => j - n \in DOMAIN wire' /\ wire'[j - n] = wire[j]
  <2> TAKE j \in DOMAIN wire
  <2> HAVE j > n
  <2>1. j - n \in 1 .. Len(wire') /\ (j - n) + n = j
    <3>1. j \in 1 .. len
      BY <1>0
    <3>2. QED BY <1>1, <1>2, <3>1
  <2>2. QED BY <1>2, <1>3, <2>1
<1>7. WireTypes'
  BY <1>2, <1>4 DEF WireTypes, Payload
<1>8. QED BY <1>0, <1>2, <1>5, <1>7 DEF Shifts

\* A message is sent: what was there stays, and its parts follow.
LEMMA SentFacts ==
  ASSUME WireTypes, NEW m \in WireMessage, wire' = Sent(m), torn' = torn
  PROVE  /\ WireTypes' /\ Len(wire') = Len(wire) + 1 + Payload(m)
         /\ DOMAIN wire' = 1 .. Len(wire')
         /\ \A i \in DOMAIN wire : i \in DOMAIN wire' /\ wire'[i] = wire[i]
         /\ \A i \in DOMAIN wire' : i > Len(wire) =>
              wire'[i] = [of |-> m, part |-> i - Len(wire) - 1]
<1> DEFINE size == Payload(m)
<1>1. size \in Nat /\ size \in 0 .. PayloadParts
  BY PayloadSize
<1>2. Parts(m) = [i \in 1 .. 1 + size |-> [of |-> m, part |-> i - 1]]
  BY DEF Parts
<1> HIDE DEF size
<1>3. Parts(m) \in Seq(Part) /\ Len(Parts(m)) = 1 + size
      /\ \A i \in 1 .. 1 + size : Parts(m)[i] = [of |-> m, part |-> i - 1]
  <2>1. \A i \in 1 .. 1 + size : [of |-> m, part |-> i - 1] \in Part
    BY <1>1, Sizes DEF Part
  <2>2. QED BY <1>1, <1>2, <2>1
<1> DEFINE len == Len(wire)
<1>0. wire \in Seq(Part) /\ len \in Nat /\ DOMAIN wire = 1 .. len
  BY WireFacts
<1>4. /\ wire' \in Seq(Part) /\ Len(wire') = len + 1 + size /\ DOMAIN wire' = 1 .. Len(wire')
      /\ \A i \in 1 .. len + 1 + size : wire'[i] = IF i <= len THEN wire[i] ELSE Parts(m)[i - len]
  <2>1. wire' = wire \o Parts(m)
    BY DEF Sent
  <2>2. /\ wire \o Parts(m) \in Seq(Part)
        /\ Len(wire \o Parts(m)) = Len(wire) + Len(Parts(m))
        /\ \A i \in 1 .. Len(wire) + Len(Parts(m)) :
             (wire \o Parts(m))[i] = IF i <= Len(wire) THEN wire[i] ELSE Parts(m)[i - Len(wire)]
    BY <1>0, <1>3, ConcatProperties
  <2>3. Len(wire) + Len(Parts(m)) = len + 1 + size
    BY <1>0, <1>1, <1>3
  <2>4. DOMAIN wire' = 1 .. Len(wire')
    BY <2>1, <2>2, LenProperties
  <2>5. QED BY <2>1, <2>2, <2>3, <2>4
<1> HIDE DEF len
<1>5. \A i \in DOMAIN wire : i \in DOMAIN wire' /\ wire'[i] = wire[i]
  <2> TAKE i \in DOMAIN wire
  <2>1. i \in 1 .. len + 1 + size /\ i <= len
    BY <1>0, <1>1
  <2>2. QED BY <1>4, <2>1
<1>6. \A i \in DOMAIN wire' : i > len => wire'[i] = [of |-> m, part |-> i - len - 1]
  <2> TAKE i \in DOMAIN wire'
  <2> HAVE i > len
  <2>1. i \in 1 .. len + 1 + size /\ i - len \in 1 .. 1 + size /\ ~(i <= len)
    BY <1>0, <1>1, <1>4
  <2>2. wire'[i] = Parts(m)[i - len]
    BY <1>4, <2>1
  <2>3. QED BY <1>3, <2>1, <2>2
<1>7. \A i \in DOMAIN wire' : wire'[i].part <= Payload(wire'[i].of)
  <2> TAKE i \in DOMAIN wire'
  <2>1. CASE i \in DOMAIN wire
    BY <1>5, <2>1 DEF WireTypes
  <2>2. CASE i \notin DOMAIN wire
    <3>1. i > len /\ i - len - 1 <= size
      BY <1>0, <1>1, <1>4, <2>2
    <3>2. wire'[i].of = m /\ wire'[i].part = i - len - 1
      BY <1>6, <3>1
    <3>3. QED BY <3>1, <3>2 DEF size
  <2>3. QED BY <2>1, <2>2
<1>8. WireTypes'
  BY <1>4, <1>7 DEF WireTypes, Payload
<1>9. QED BY <1>0, <1>4, <1>5, <1>6, <1>8 DEF size, len

-----------------------------------------------------------------------------
(* The link: whole messages are read as they were sent.                     *)

\* What a receiver does to a stream that is not torn.
Waits(t) ==
  /\ wire' = wire /\ rx[t].at = "select"
  /\ rx'[t].at \in {"header", "done"} /\ rx'[t].msg = NoMessage
TakesHeader(t) ==
  /\ Shifts(1) /\ 1 \in DOMAIN wire /\ wire[1].part = 0
  /\ rx[t].at = "header" /\ rx'[t].at \in {"payload", "done"} /\ rx'[t].msg = wire[1].of
TakesPayload(t) ==
  /\ \E n \in Nat : Shifts(n) /\ \A i \in 1 .. n : i \in DOMAIN wire /\ wire[i].part > 0
  /\ rx[t].at = "payload" /\ rx'[t].at = "done" /\ rx'[t].msg = rx[t].msg
Takes(t) == Waits(t) \/ TakesHeader(t) \/ TakesPayload(t)

\* What holds of a receiver that is handed to or from its caller, or waits.
LEMMA OnlyReceivers ==
  ASSUME Core, WireTypes, RxTypes, NEW t \in Thread, wire' = wire,
         \A u \in Thread : u # t => rx'[u] = rx[u],
         rx[t].at # "payload", rx'[t].at # "payload", Hand(t)'
  PROVE  Core'
<1>1. Whole' /\ \A u \in Thread : Hand(u)'
  BY DEF Core, Whole, Hand
<1>2. \A u \in Thread : rx'[u].at = "payload" => u # t /\ rx'[u] = rx[u]
  OBVIOUS
<1>3. \A u \in Thread : Rest1(u)'
  BY <1>2 DEF Core, Rest1
<1>4. (\A u \in Thread : rx'[u].at # "payload") => \A u \in Thread : rx[u].at # "payload"
  OBVIOUS
<1>5. Start'
  BY <1>4 DEF Core, Start
<1>6. QED BY <1>1, <1>3, <1>5 DEF Core

\* Finding something to read disturbs no frame.
LEMMA ReadableFrames ==
  ASSUME Core, WireTypes, RxTypes, NEW t \in Thread, Readable(t)
  PROVE  Core' /\ Waits(t)
<1>1. wire' = wire /\ rx[t].at = "select" /\ rx'[t].at = "header" /\ rx'[t].msg = NoMessage
      /\ \A u \in Thread : u # t => rx'[u] = rx[u]
  BY ReadableFacts DEF Readable, Core, Hand
<1>2. Hand(t)'
  BY <1>1 DEF Hand
<1>3. QED BY <1>1, <1>2, OnlyReceivers DEF Waits

\* Nor does a timeout, which finds no message half read.
LEMMA TimesOutFrames ==
  ASSUME Core, WireTypes, RxTypes, NEW t \in Thread, TimesOut(t)
  PROVE  Core' /\ Waits(t)
<1>1. rx[t].at # "payload"
  BY TimesOutFacts DEF Core, Rest1
<1>2. /\ wire' = wire /\ rx[t].at = "select" /\ rx'[t].at = "done" /\ rx'[t].msg = NoMessage
      /\ rx'[t].err = "timeout" /\ \A u \in Thread : u # t => rx'[u] = rx[u]
  BY <1>1, TimesOutFacts DEF TimesOut, Core, Hand
<1>3. Hand(t)'
  BY <1>2 DEF Hand
<1>4. QED BY <1>2, <1>3, OnlyReceivers DEF Waits

\* After n parts are read the rest is whole, if it was.
LEMMA RestIsWhole ==
  ASSUME Whole, WireTypes, NEW n \in Nat, Shifts(n), WireTypes'
  PROVE  /\ Whole'
         /\ n \in DOMAIN wire /\ wire' # <<>> =>
              /\ wire[n].part = Payload(wire[n].of) => wire'[1].part = 0
              /\ wire[n].part < Payload(wire[n].of) =>
                   wire'[1] = [of |-> wire[n].of, part |-> wire[n].part + 1]
<1> DEFINE len == Len(wire)
           rest == Len(wire')
<1>1. /\ len \in Nat /\ rest \in Nat /\ rest = len - n
      /\ DOMAIN wire = 1 .. len /\ DOMAIN wire' = 1 .. rest
      /\ \A i \in 1 .. rest : i + n \in 1 .. len /\ wire'[i] = wire[i + n]
  <2>1. Len(wire') \in Nat /\ DOMAIN wire' = 1 .. Len(wire')
    BY LenProperties DEF WireTypes
  <2>2. QED BY <2>1, WireFacts DEF Shifts
<1>2. \A i \in 1 .. len :
        /\ wire[i].part < Payload(wire[i].of) =>
             i < len /\ wire[i + 1] = [of |-> wire[i].of, part |-> wire[i].part + 1]
        /\ wire[i].part = Payload(wire[i].of) /\ i < len => wire[i + 1].part = 0
  BY <1>1 DEF Whole
<1> HIDE DEF len, rest
<1>3. \A i \in 1 .. rest : i + n \in 1 .. len /\ (i + n < len => i < rest /\ i + 1 \in 1 .. rest)
                          /\ (i < rest => i + n < len) /\ (i + 1) + n = (i + n) + 1
  BY <1>1
<1>4. \A i \in 1 .. rest :
        /\ wire'[i].part < Payload(wire'[i].of) =>
             i < rest /\ wire'[i + 1] = [of |-> wire'[i].of, part |-> wire'[i].part + 1]
        /\ wire'[i].part = Payload(wire'[i].of) /\ i < rest => wire'[i + 1].part = 0
  <2> TAKE i \in 1 .. rest
  <2> DEFINE j == i + n
  <2>1. j \in 1 .. len /\ wire'[i] = wire[j] /\ (j < len => i < rest /\ i + 1 \in 1 .. rest)
        /\ (i < rest => j < len) /\ (i + 1) + n = j + 1
    BY <1>1, <1>3
  <2>2. i + 1 \in 1 .. rest => wire'[i + 1] = wire[j + 1]
    BY <1>1, <2>1
  <2> HIDE DEF j
  <2>3. QED BY <1>2, <2>1, <2>2
<1>5. Whole'
  <2>1. \A i \in DOMAIN wire' :
          /\ wire'[i].part < Payload(wire'[i].of) =>
               i < Len(wire') /\ wire'[i + 1] = [of |-> wire'[i].of, part |-> wire'[i].part + 1]
          /\ wire'[i].part = Payload(wire'[i].of) /\ i < Len(wire') => wire'[i + 1].part = 0
    BY <1>1, <1>4 DEF rest
  <2>2. QED BY <2>1 DEF Whole, Payload
<1>6. ASSUME n \in DOMAIN wire, wire' # <<>>
      PROVE  /\ wire[n].part = Payload(wire[n].of) => wire'[1].part = 0
             /\ wire[n].part < Payload(wire[n].of) =>
                  wire'[1] = [of |-> wire[n].of, part |-> wire[n].part + 1]
  <2>1. 1 \in 1 .. rest
    <3>1. rest \in Nat \ {0}
      BY <1>6, EmptySeq DEF WireTypes, rest
    <3>2. QED BY <3>1
  <2>2. n \in 1 .. len /\ n < len /\ wire'[1] = wire[n + 1]
    <3>1. wire'[1] = wire[1 + n] /\ 1 + n \in 1 .. len /\ 1 + n = n + 1
      BY <1>1, <2>1
    <3>2. QED BY <1>1, <1>6, <3>1
  <2>3. /\ wire[n].part < Payload(wire[n].of) =>
             wire[n + 1] = [of |-> wire[n].of, part |-> wire[n].part + 1]
        /\ wire[n].part = Payload(wire[n].of) => wire[n + 1].part = 0
    BY <1>2, <2>2
  <2>4. QED BY <2>2, <2>3
<1>7. QED BY <1>5, <1>6

\* A header that is read is one, and its payload is next.
LEMMA ReadHeaderFrames ==
  ASSUME Core, WireTypes, RxTypes, NEW t \in Thread, ReadHeader(t), ~torn', torn \in BOOLEAN
  PROVE  WireTypes' /\ Core' /\ TakesHeader(t)
<1>1. /\ \A u \in Thread : u # t => rx'[u] = rx[u]
      /\ rx[t].at = "header" /\ wire # <<>> /\ wire' = Tail(wire) /\ torn' = torn
      /\ wire[1].part = 0 /\ rx'[t].msg = wire[1].of
      /\ \/ Payload(wire[1].of) = 0 /\ rx'[t].at = "done" /\ rx'[t].err = "success"
         \/ /\ Payload(wire[1].of) # 0 /\ rx'[t].at = "payload"
            /\ rx'[t].left = Payload(wire[1].of)
  BY ReadHeaderFacts
<1>2. WireTypes' /\ Shifts(1)
  <2>1. wire \in Seq(Part) /\ Len(wire) >= 1
    BY <1>1, WireFacts
  <2>2. wire' = SubSeq(wire, 1 + 1, Len(wire))
    BY <1>1, <2>1, TailIsSubSeq
  <2>3. torn' \in BOOLEAN
    BY <1>1
  <2>4. QED BY <2>1, <2>2, <2>3, ReadFacts
<1>3. 1 \in DOMAIN wire /\ wire[1].of \in WireMessage /\ wire[1].part \in Nat
      /\ Payload(wire[1].of) \in Nat
  BY <1>1, WireFacts, PayloadSize
<1>4. \A u \in Thread : rx[u].at # "payload"
  <2> SUFFICES ASSUME NEW u \in Thread, rx[u].at = "payload" PROVE FALSE
    OBVIOUS
  <2> DEFINE place == Payload(rx[u].msg) - rx[u].left + 1
  <2>1. wire[1] = [of |-> rx[u].msg, part |-> place]
    BY DEF Core, Rest1
  <2>2. rx[u].left \in 1 .. Payload(rx[u].msg) /\ Payload(rx[u].msg) \in Nat
    BY ReceiverFields, PayloadSize
  <2>3. place >= 1
    BY <2>2
  <2> HIDE DEF place
  <2>4. QED BY <1>1, <2>1, <2>3
<1>5. TakesHeader(t)
  BY <1>1, <1>2, <1>3 DEF TakesHeader
<1>6. /\ Whole'
      /\ wire' # <<>> =>
           /\ wire[1].part = Payload(wire[1].of) => wire'[1].part = 0
           /\ wire[1].part < Payload(wire[1].of) =>
                wire'[1] = [of |-> wire[1].of, part |-> wire[1].part + 1]
  BY <1>2, <1>3, RestIsWhole DEF Core
<1>7. \A u \in Thread : Hand(u)'
  <2>1. Hand(t)'
    BY <1>1, <1>3 DEF Hand
  <2>2. \A u \in Thread : u # t => Hand(u)'
    BY <1>1 DEF Core, Hand
  <2>3. QED BY <2>1, <2>2
<1>8. CASE Payload(wire[1].of) = 0
  <2>1. \A u \in Thread : rx'[u].at # "payload"
    BY <1>1, <1>4, <1>8
  <2>2. Start' /\ \A u \in Thread : Rest1(u)'
    <3>1. wire' # <<>> => wire'[1].part = 0
      BY <1>1, <1>6, <1>8
    <3>2. Start'
      BY <3>1 DEF Start
    <3>3. QED BY <2>1, <3>2 DEF Rest1
  <2>3. QED BY <1>2, <1>5, <1>6, <1>7, <2>2 DEF Core
<1>9. CASE Payload(wire[1].of) # 0
  <2> DEFINE size == Payload(wire[1].of)
  <2>1. /\ rx'[t].at = "payload" /\ rx'[t].left = size /\ rx'[t].msg = wire[1].of
        /\ \A u \in Thread : rx'[u].at = "payload" => u = t
    BY <1>1, <1>4, <1>9
  <2>2. size \in Nat /\ 0 < size /\ size - size + 1 = 1 /\ Payload(rx'[t].msg) = size
    BY <1>3, <1>9, <2>1
  <2>3. wire' # <<>>
    <3>1. Len(wire) > 1
      BY <1>1, <1>3, <2>2 DEF Core, Whole
    <3>2. Len(wire') = Len(wire) - 1 /\ Len(wire) \in Nat
      BY <1>2, WireFacts DEF Shifts
    <3>3. QED BY <3>1, <3>2, EmptySeq
  <2>4. wire'[1] = [of |-> wire[1].of, part |-> 1]
    BY <1>1, <1>6, <2>2, <2>3
  <2> HIDE DEF size
  <2>5. wire'[1] = [of |-> rx'[t].msg, part |-> Payload(rx'[t].msg) - rx'[t].left + 1]
    BY <2>1, <2>2, <2>4
  <2>6. Rest1(t)' /\ Start'
    BY <2>1, <2>3, <2>5 DEF Start, Rest1, Payload
  <2>7. \A u \in Thread : u # t => Rest1(u)'
    BY <2>1 DEF Rest1
  <2>8. QED BY <1>2, <1>5, <1>6, <1>7, <2>6, <2>7 DEF Core
<1>10. QED BY <1>8, <1>9

\* A payload is read from its own message, up to its end at most.
LEMMA ReadPayloadFrames ==
  ASSUME Core, WireTypes, RxTypes, NEW t \in Thread, ReadPayload(t), ~torn', torn \in BOOLEAN
  PROVE  WireTypes' /\ Core' /\ TakesPayload(t)
<1> DEFINE lack == rx[t].left
           size == Payload(rx[t].msg)
           place(i) == size - lack + i
<1>1. PICK n \in Nat :
        /\ \A u \in Thread : u # t => rx'[u] = rx[u]
        /\ rx[t].at = "payload" /\ wire # <<>> /\ wire' = SubSeq(wire, n + 1, Len(wire))
        /\ n \in 1 .. Len(wire) /\ n <= lack
        /\ torn' = torn /\ rx'[t].msg = rx[t].msg
        /\ \A i \in 1 .. n : wire[i] = [of |-> rx[t].msg, part |-> place(i)]
        /\ \/ n = lack /\ rx'[t].at = "done" /\ rx'[t].err = "success"
           \/ n < lack /\ n = Len(wire)
  <2> DEFINE k == IF lack < Len(wire) THEN lack ELSE Len(wire)
  <2>1. /\ \A u \in Thread : u # t => rx'[u] = rx[u]
        /\ rx[t].at = "payload" /\ wire # <<>> /\ wire' = SubSeq(wire, k + 1, Len(wire))
        /\ k \in 1 .. Len(wire) /\ k <= lack
        /\ torn' = torn /\ rx'[t].msg = rx[t].msg
        /\ \A i \in 1 .. k : wire[i] = [of |-> rx[t].msg, part |-> place(i)]
        /\ \/ k = lack /\ rx'[t].at = "done" /\ rx'[t].err = "success"
           \/ k < lack /\ k = Len(wire)
    BY ReadPayloadFacts
  <2> HIDE DEF k
  <2>2. k \in Nat
    BY <2>1, WireFacts
  <2>3. QED BY <2>1, <2>2
<1>2. lack \in 1 .. size /\ size \in Nat /\ Len(wire) \in Nat /\ DOMAIN wire = 1 .. Len(wire)
  BY <1>1, ReceiverFields, PayloadSize, WireFacts
<1>3. /\ \A i \in 1 .. n : wire[i].of = rx[t].msg /\ wire[i].part = size - lack + i
      /\ n \in 1 .. n /\ n \in DOMAIN wire
  <2>1. n \in 1 .. Len(wire)
    BY <1>1
  <2>2. \A i \in 1 .. n : wire[i].of = rx[t].msg /\ wire[i].part = place(i)
    <3> TAKE i \in 1 .. n
    <3>1. wire[i] = [of |-> rx[t].msg, part |-> place(i)]
      BY <1>1
    <3> DEFINE p == place(i)
    <3>2. wire[i] = [of |-> rx[t].msg, part |-> p]
      BY <3>1
    <3> HIDE DEF p
    <3>3. wire[i].of = rx[t].msg /\ wire[i].part = p
      BY <3>2
    <3>4. QED BY <3>3 DEF p
  <2> HIDE DEF lack, size, place
  <2>3. n \in DOMAIN wire /\ n \in 1 .. n
    BY <1>2, <2>1
  <2>4. \A i \in 1 .. n : place(i) = size - lack + i
    BY DEF place
  <2>5. QED BY <2>1, <2>2, <2>3, <2>4
<1>4. n = lack /\ rx'[t].at = "done" /\ rx'[t].err = "success"
  <2> SUFFICES ASSUME n < lack, n = Len(wire) PROVE FALSE
    BY <1>1
  <2>1. wire[n].part < Payload(wire[n].of)
    BY <1>2, <1>3
  <2>2. n < Len(wire)
    BY <1>3, <2>1 DEF Core, Whole
  <2>3. QED BY <1>2, <2>2
<1>5. WireTypes' /\ Shifts(n)
  <2>1. n <= Len(wire) /\ torn' \in BOOLEAN
    BY <1>1, <1>2
  <2>2. QED BY <1>1, <2>1, ReadFacts
<1>6. \A i \in 1 .. n : i \in DOMAIN wire /\ wire[i].part > 0
  <2> TAKE i \in 1 .. n
  <2>1. wire[i].part = size - lack + i
    BY <1>3
  <2> HIDE DEF size, lack
  <2>2. i \in 1 .. Len(wire) /\ size - lack + i > 0
    BY <1>1, <1>2
  <2>3. QED BY <1>2, <2>1, <2>2
<1>7. TakesPayload(t)
  BY <1>1, <1>4, <1>5, <1>6 DEF TakesPayload
<1>8. wire[n].part = Payload(wire[n].of)
  BY <1>2, <1>3, <1>4
<1>9. Whole' /\ (wire' # <<>> => wire'[1].part = 0)
  BY <1>3, <1>5, <1>8, RestIsWhole DEF Core
<1>10. \A u \in Thread : Hand(u)'
  <2>1. Hand(t)'
    BY <1>1, <1>4 DEF Core, Hand
  <2>2. \A u \in Thread : u # t => Hand(u)'
    BY <1>1 DEF Core, Hand
  <2>3. QED BY <2>1, <2>2
<1>11. \A u \in Thread : rx'[u].at # "payload"
  <2>1. \A u \in Thread : rx[u].at = "payload" => u = t
    BY <1>1 DEF Core, Rest1
  <2>2. QED BY <1>1, <1>4, <2>1
<1>12. Start' /\ \A u \in Thread : Rest1(u)'
  <2>1. Start'
    BY <1>9 DEF Start
  <2>2. QED BY <1>11, <2>1 DEF Rest1
<1>13. QED BY <1>5, <1>7, <1>9, <1>10, <1>12 DEF Core

\* Whatever a thread does to receive, it leaves whole messages behind it, or has
\* torn the stream.
LEMMA ReceiveFrames ==
  ASSUME Framing, WireTypes, RxTypes, NEW t \in Thread, Receive(t)
  PROVE  /\ WireTypes' /\ RxTypes' /\ Framing'
         /\ rx[t].at # "off" /\ rx'[t].at # "off"
         /\ \A u \in Thread : u # t => rx'[u] = rx[u]
         /\ torn => torn'
         /\ ~torn' => Core /\ Core' /\ Takes(t)
<1>1. torn \in BOOLEAN
  BY DEF WireTypes
<1>2. CASE Readable(t)
  <2>1. wire' = wire /\ torn' = torn
    BY <1>2 DEF Readable
  <2>2. WireTypes'
    BY <2>1 DEF WireTypes, Payload
  <2>3. QED BY <1>2, <2>1, <2>2, ReadableFacts, ReadableFrames DEF Framing, Takes
<1>3. CASE TimesOut(t)
  <2>1. wire' = wire /\ torn' = torn
    BY <1>3 DEF TimesOut
  <2>2. WireTypes'
    BY <2>1 DEF WireTypes, Payload
  <2>3. QED BY <1>3, <2>1, <2>2, TimesOutFacts, TimesOutFrames DEF Framing, Takes
<1>4. CASE ReadHeader(t)
  <2>1. /\ RxTypes' /\ \A u \in Thread : u # t => rx'[u] = rx[u]
        /\ rx[t].at = "header" /\ rx'[t].at \in {"payload", "done"} /\ torn' \in BOOLEAN
        /\ (torn' = TRUE \/ torn' = torn) /\ wire # <<>> /\ wire' = Tail(wire)
    BY <1>1, <1>4, ReadHeaderFacts
  <2>2. WireTypes'
    <3>1. wire \in Seq(Part) /\ Len(wire) >= 1 /\ wire' = SubSeq(wire, 1 + 1, Len(wire))
      BY <2>1, WireFacts, TailIsSubSeq
    <3>2. QED BY <2>1, <3>1, ReadFacts
  <2>3. QED BY <1>1, <1>4, <2>1, <2>2, ReadHeaderFrames DEF Framing, Takes
<1>5. CASE ReadPayload(t)
  <2> DEFINE n == IF rx[t].left < Len(wire) THEN rx[t].left ELSE Len(wire)
  <2>1. /\ RxTypes' /\ \A u \in Thread : u # t => rx'[u] = rx[u]
        /\ rx[t].at = "payload" /\ rx'[t].at \in {"payload", "done"} /\ torn' \in BOOLEAN
        /\ (torn => torn') /\ wire' = SubSeq(wire, n + 1, Len(wire)) /\ n \in 1 .. Len(wire)
    BY <1>5, ReadPayloadFacts
  <2> HIDE DEF n
  <2>2. WireTypes'
    <3>1. n \in Nat /\ n <= Len(wire)
      BY <2>1, WireFacts
    <3>2. QED BY <2>1, <3>1, ReadFacts
  <2>3. QED BY <1>1, <1>5, <2>1, <2>2, ReadPayloadFrames DEF Framing, Takes
<1>6. QED BY <1>2, <1>3, <1>4, <1>5 DEF Receive

\* What a message that is sent adds to the stream.
Adds(m) ==
  /\ \A i \in DOMAIN wire : i \in DOMAIN wire' /\ wire'[i] = wire[i]
  /\ \E k \in DOMAIN wire' :
       /\ k \notin DOMAIN wire /\ wire'[k] = [of |-> m, part |-> 0]
       /\ \A i \in DOMAIN wire' : i \notin DOMAIN wire /\ i # k => wire'[i].part > 0

\* A message that is sent comes after whole messages.
LEMMA SentFrames ==
  ASSUME Framing, WireTypes, RxTypes, NEW m \in WireMessage, wire' = Sent(m),
         rx' = rx, torn' = torn
  PROVE  WireTypes' /\ RxTypes' /\ Framing' /\ Adds(m)
<1> DEFINE len  == Len(wire)
           size == Payload(m)
<1>1. /\ len \in Nat /\ DOMAIN wire = 1 .. len /\ DOMAIN wire' = 1 .. len + 1 + size
      /\ Len(wire') = len + 1 + size
      /\ \A i \in DOMAIN wire : i \in DOMAIN wire' /\ wire'[i] = wire[i]
      /\ \A i \in DOMAIN wire' : i > len => wire'[i] = [of |-> m, part |-> i - len - 1]
      /\ WireTypes'
  BY WireFacts, SentFacts
<1>2. size \in Nat
  BY PayloadSize
<1>3. RxTypes'
  BY DEF RxTypes, Payload
<1> HIDE DEF len, size
<1>4. \A i \in DOMAIN wire' : i > len => wire'[i].of = m /\ wire'[i].part = i - len - 1
  <2> TAKE i \in DOMAIN wire'
  <2> HAVE i > len
  <2> DEFINE p == i - len - 1
  <2>1. wire'[i] = [of |-> m, part |-> p]
    BY <1>1
  <2> HIDE DEF p
  <2>2. wire'[i].of = m /\ wire'[i].part = p
    BY <2>1
  <2>3. QED BY <2>2 DEF p
<1>5. Adds(m)
  <2>1. len + 1 \in DOMAIN wire' /\ len + 1 \notin DOMAIN wire /\ len + 1 > len
        /\ (len + 1) - len - 1 = 0
    BY <1>1, <1>2
  <2>2. wire'[len + 1] = [of |-> m, part |-> 0]
    <3>1. wire'[len + 1] = [of |-> m, part |-> (len + 1) - len - 1]
      BY <1>1, <2>1
    <3>2. QED BY <2>1, <3>1
  <2>3. ASSUME NEW i \in DOMAIN wire', i \notin DOMAIN wire, i # len + 1
        PROVE  wire'[i].part > 0
    <3>1. i > len /\ i - len - 1 > 0
      BY <1>1, <1>2, <2>3
    <3>2. QED BY <1>4, <3>1
  <2>4. QED BY <1>1, <2>1, <2>2, <2>3 DEF Adds
<1>6. ASSUME Core PROVE Core'
  <2>1. wire # <<>> => len \in DOMAIN wire /\ len >= 1 /\ 1 \in DOMAIN wire
    BY <1>1, WireFacts DEF len
  <2>2. \A i \in DOMAIN wire' :
          /\ wire'[i].part < Payload(wire'[i].of) =>
               i < Len(wire') /\ wire'[i + 1] = [of |-> wire'[i].of, part |-> wire'[i].part + 1]
          /\ wire'[i].part = Payload(wire'[i].of) /\ i < Len(wire') => wire'[i + 1].part = 0
    <3> TAKE i \in DOMAIN wire'
    <3>1. CASE i \in DOMAIN wire /\ i < len
      <4>1. i + 1 \in DOMAIN wire /\ i < Len(wire') /\ wire'[i] = wire[i] /\ wire'[i + 1] = wire[i + 1]
        <5>1. i + 1 \in DOMAIN wire /\ i < Len(wire')
          BY <1>1, <1>2, <3>1
        <5>2. QED BY <1>1, <3>1, <5>1
      <4>2. /\ wire[i].part < Payload(wire[i].of) =>
                 wire[i + 1] = [of |-> wire[i].of, part |-> wire[i].part + 1]
            /\ wire[i].part = Payload(wire[i].of) => wire[i + 1].part = 0
        BY <1>6, <3>1 DEF Core, Whole, len
      <4>3. QED BY <4>1, <4>2
    <3>2. CASE i \in DOMAIN wire /\ ~(i < len)
      <4>1. i = len /\ wire'[i] = wire[i] /\ len + 1 \in DOMAIN wire' /\ i < Len(wire')
        BY <1>1, <1>2, <3>2
      <4>2. wire[i].part \in 0 .. Payload(wire[i].of) /\ Payload(wire[i].of) \in Nat
        BY <3>2, WireFacts, PayloadSize
      <4>3. ~(wire[i].part < Payload(wire[i].of))
        <5>1. ~(i < Len(wire))
          BY <3>2 DEF len
        <5>2. QED BY <1>6, <3>2, <5>1 DEF Core, Whole
      <4>4. wire'[i + 1].part = 0
        <5>1. wire'[len + 1].part = (len + 1) - len - 1 /\ (len + 1) - len - 1 = 0
          BY <1>1, <1>4, <4>1
        <5>2. QED BY <4>1, <5>1
      <4>5. QED BY <4>1, <4>3, <4>4
    <3>3. CASE i \notin DOMAIN wire
      <4>1. i > len /\ i <= len + 1 + size /\ i \in Nat
        BY <1>1, <1>2, <3>3
      <4>2. wire'[i].of = m /\ wire'[i].part = i - len - 1
        BY <1>4, <4>1
      <4>3. CASE i < Len(wire')
        <5>1. i + 1 \in DOMAIN wire' /\ i + 1 > len /\ (i + 1) - len - 1 = (i - len - 1) + 1
          BY <1>1, <1>2, <4>1, <4>3
        <5>2. wire'[i + 1] = [of |-> m, part |-> (i + 1) - len - 1]
          BY <1>1, <5>1
        <5>3. ~(i - len - 1 = size)
          BY <1>1, <1>2, <4>1, <4>3
        <5>4. QED BY <4>2, <4>3, <5>1, <5>2, <5>3 DEF size
      <4>4. CASE ~(i < Len(wire'))
        <5>1. ~(i - len - 1 < size)
          BY <1>1, <1>2, <4>1, <4>4
        <5>2. QED BY <4>2, <4>4, <5>1 DEF size
      <4>5. QED BY <4>3, <4>4
    <3>4. QED BY <3>1, <3>2, <3>3
  <2>3. Whole'
    BY <2>2 DEF Whole, Payload
  <2>4. Start'
    <3> SUFFICES ASSUME \A u \in Thread : rx[u].at # "payload" PROVE wire'[1].part = 0
      BY DEF Start
    <3>1. CASE wire # <<>>
      BY <1>1, <1>6, <2>1, <3>1 DEF Core, Start
    <3>2. CASE wire = <<>>
      <4>1. len = 0
        BY <3>2, EmptySeq DEF len
      <4>2. 1 \in DOMAIN wire' /\ 1 > len /\ 1 - len - 1 = 0
        BY <1>1, <1>2, <4>1
      <4>3. QED BY <1>4, <4>2
    <3>3. QED BY <3>1, <3>2
  <2>5. \A u \in Thread : Rest1(u)' /\ Hand(u)'
    <3> TAKE u \in Thread
    <3>1. Hand(u)'
      BY <1>6 DEF Core, Hand
    <3>2. CASE rx[u].at = "payload"
      <4>1. /\ wire # <<>> /\ wire[1] = [of |-> rx[u].msg, part |-> Payload(rx[u].msg) - rx[u].left + 1]
            /\ \A v \in Thread : rx[v].at = "payload" => v = u
        BY <1>6, <3>2 DEF Core, Rest1
      <4>2. 1 \in DOMAIN wire' /\ wire'[1] = wire[1]
        BY <1>1, <2>1, <4>1
      <4>3. wire' # <<>>
        <5>1. Len(wire') # 0
          BY <1>1, <1>2
        <5>2. QED BY <5>1, EmptySeq
      <4>4. QED BY <3>1, <4>1, <4>2, <4>3 DEF Rest1, Payload
    <3>3. CASE rx[u].at # "payload"
      BY <3>1, <3>3 DEF Rest1
    <3>4. QED BY <3>2, <3>3
  <2>6. QED BY <2>3, <2>4, <2>5 DEF Core
<1>7. QED BY <1>1, <1>3, <1>5, <1>6 DEF Framing

\* A receiver is called, or its caller takes what it returned.
LEMMA HandedFrames ==
  ASSUME Framing, WireTypes, RxTypes, NEW t \in Thread, rx[t].at # "payload",
         rx' = Calls(t) \/ rx' = Consumed(t), wire' = wire, torn' = torn
  PROVE  /\ WireTypes' /\ RxTypes' /\ Framing'
         /\ \A u \in Thread : u # t => rx'[u] = rx[u]
         /\ rx' = Calls(t) => rx'[t].at = "select" /\ rx'[t].msg = NoMessage
         /\ rx' = Consumed(t) => rx'[t].at = "off"
<1>1. /\ RxTypes' /\ \A u \in Thread : u # t => rx'[u] = rx[u]
      /\ rx' = Calls(t) => rx'[t].at = "select" /\ rx'[t].msg = NoMessage
      /\ rx' = Consumed(t) => rx'[t].at = "off"
  BY CallsFacts, ConsumedFacts
<1>2. WireTypes'
  BY DEF WireTypes, Payload
<1>3. ASSUME Core PROVE Core'
  <2>1. Hand(t)'
    BY <1>1 DEF Hand
  <2>2. rx'[t].at # "payload"
    BY <1>1
  <2>3. QED BY <1>1, <1>3, <2>1, <2>2, OnlyReceivers
<1>4. QED BY <1>1, <1>2, <1>3 DEF Framing

-----------------------------------------------------------------------------
(* The listener.                                                            *)

LinkTypes == WireTypes /\ RxTypes /\ ListenerTypes

\* A thread has read the header of a message.
Holds(t, m) == rx[t].at \in {"payload", "done"} /\ rx[t].msg = m

\* The parts of the listener, and that they are all of it.
LEMMA ListenerFields ==
  ASSUME ListenerTypes
  PROVE  /\ listener.at \in {"peek", "recv", "ended"} /\ listener.errors \in 0 .. MaxErrors
         /\ listener.retries \in 0 .. MaxRecvRetries - 1
         /\ listener = [at |-> listener.at, errors |-> listener.errors, retries |-> listener.retries]
  BY DEF ListenerTypes

\* A step that neither calls a receiver nor hands its result on.
LEMMA ListenerStays ==
  ASSUME ListenerTypes, listener' = listener,
         rx'["listener"].at = "off" <=> rx["listener"].at = "off"
  PROVE  ListenerTypes'
  BY DEF ListenerTypes

\* What the listener does between its calls disturbs no frame.
LEMMA ListenFrames ==
  ASSUME Framing, LinkTypes, Listen
  PROVE  /\ LinkTypes' /\ Framing' /\ wire' = wire /\ torn' = torn /\ rx'["main"] = rx["main"]
         /\ listener.at = "ended" => listener'.at = "ended"
         /\ ~torn => \A m \in WireMessage : ~Holds("listener", m) /\ ~Holds("listener", m)'
<1>1. wire' = wire /\ torn' = torn
  BY DEF Listen, Peek, PeekTimesOut, RetryOrGiveUp
<1>2. WireTypes' /\ "listener" \in Thread /\ "main" \in Thread /\ "main" # "listener"
  BY <1>1 DEF LinkTypes, WireTypes, Payload, Thread
<1>3. ASSUME rx' = rx PROVE RxTypes' /\ Framing'
  <2>1. Core => Core'
    BY <1>1, <1>3 DEF Core, Whole, Start, Rest1, Hand, Payload
  <2>2. RxTypes'
    BY <1>3 DEF LinkTypes, RxTypes, Payload
  <2>3. QED BY <1>1, <2>1, <2>2 DEF Framing
<1>4. ASSUME rx["listener"].at # "payload", rx' = Calls("listener") \/ rx' = Consumed("listener")
      PROVE  /\ RxTypes' /\ Framing' /\ rx'["main"] = rx["main"]
             /\ rx' = Calls("listener") => rx'["listener"].at = "select"
             /\ rx' = Consumed("listener") => rx'["listener"].at = "off"
  BY <1>1, <1>2, <1>4, HandedFrames DEF LinkTypes
<1>5. /\ listener.at \in {"peek", "recv", "ended"} /\ listener.errors \in 0 .. MaxErrors
      /\ listener.retries \in 0 .. MaxRecvRetries - 1
      /\ listener = [at |-> listener.at, errors |-> listener.errors, retries |-> listener.retries]
      /\ listener.at # "ended" => listener.errors < MaxErrors
      /\ listener.at = "recv" <=> rx["listener"].at # "off"
  BY ListenerFields DEF LinkTypes, ListenerTypes
<1>6. 0 \in 0 .. MaxErrors /\ 0 \in 0 .. MaxRecvRetries - 1 /\ 0 < MaxErrors
  BY Sizes
<1>7. ASSUME Peek PROVE LinkTypes' /\ Framing' /\ rx'["main"] = rx["main"]
  <2>1. listener.at = "peek" /\ rx["listener"].at = "off"
    BY <1>5, <1>7 DEF Peek
  <2>2. CASE rx' = Calls("listener") /\ listener' = [at |-> "recv", errors |-> 0, retries |-> 0]
    <3>1. RxTypes' /\ Framing' /\ rx'["main"] = rx["main"] /\ rx'["listener"].at = "select"
      BY <1>4, <2>1, <2>2
    <3>2. ListenerTypes'
      BY <1>6, <2>2, <3>1 DEF ListenerTypes
    <3>3. QED BY <1>2, <3>1, <3>2 DEF LinkTypes
  <2>3. CASE listener' = [listener EXCEPT !.errors = 0] /\ rx' = rx
    <3>1. ListenerTypes'
      BY <1>5, <1>6, <2>1, <2>3 DEF ListenerTypes
    <3>2. QED BY <1>2, <1>3, <2>3, <3>1 DEF LinkTypes
  <2>4. CASE /\ listener' = [listener EXCEPT !.errors = @ + 1,
                               !.at = IF listener.errors + 1 = MaxErrors THEN "ended" ELSE @]
             /\ rx' = rx
    <3> DEFINE errors == listener.errors + 1
               where  == IF errors = MaxErrors THEN "ended" ELSE "peek"
    <3>1. listener' = [at |-> where, errors |-> errors, retries |-> listener.retries]
      BY <1>5, <2>1, <2>4
    <3>2. errors \in 0 .. MaxErrors /\ (errors = MaxErrors \/ errors < MaxErrors)
      BY <1>5, <2>1, Sizes
    <3>3. where \in {"peek", "ended"} /\ (where # "ended" => errors < MaxErrors)
      BY <3>2
    <3> HIDE DEF errors, where
    <3>4. ListenerTypes'
      <4>1. /\ listener'.at = where /\ listener'.errors = errors
            /\ listener' \in [at : {"peek", "recv", "ended"}, errors : 0 .. MaxErrors,
                              retries : 0 .. MaxRecvRetries - 1]
        BY <1>5, <3>1, <3>2, <3>3
      <4>2. rx'["listener"].at = "off" /\ listener'.at # "recv"
        BY <2>1, <2>4, <3>3, <4>1
      <4>3. QED BY <3>3, <4>1, <4>2 DEF ListenerTypes
    <3>5. QED BY <1>2, <1>3, <2>4, <3>4 DEF LinkTypes
  <2>5. QED BY <1>7, <2>2, <2>3, <2>4 DEF Peek
<1>8. ASSUME PeekTimesOut PROVE LinkTypes' /\ Framing' /\ rx'["main"] = rx["main"]
  <2>1. listener.at = "peek" /\ listener' = [listener EXCEPT !.errors = 0] /\ rx' = rx
    BY <1>8 DEF PeekTimesOut
  <2>2. ListenerTypes'
    BY <1>5, <1>6, <2>1 DEF ListenerTypes
  <2>3. QED BY <1>2, <1>3, <2>1, <2>2 DEF LinkTypes
<1>9. ASSUME RetryOrGiveUp PROVE LinkTypes' /\ Framing' /\ rx'["main"] = rx["main"]
  <2>1. listener.at = "recv" /\ rx["listener"].at = "done"
    BY <1>9 DEF RetryOrGiveUp, Returned
  <2>2. CASE /\ listener.retries + 1 < MaxRecvRetries
             /\ listener' = [listener EXCEPT !.retries = @ + 1] /\ rx' = Calls("listener")
    <3>1. RxTypes' /\ Framing' /\ rx'["main"] = rx["main"] /\ rx'["listener"].at = "select"
      BY <1>4, <2>1, <2>2
    <3>2. listener.retries + 1 \in 0 .. MaxRecvRetries - 1
      BY <1>5, <2>2, Sizes
    <3>3. ListenerTypes'
      BY <1>5, <2>1, <2>2, <3>1, <3>2 DEF ListenerTypes
    <3>4. QED BY <1>2, <3>1, <3>3 DEF LinkTypes
  <2>3. CASE /\ listener' = [at |-> "peek", errors |-> 0, retries |-> 0] /\ rx' = Consumed("listener")
    <3>1. RxTypes' /\ Framing' /\ rx'["main"] = rx["main"] /\ rx'["listener"].at = "off"
      BY <1>4, <2>1, <2>3
    <3>2. ListenerTypes'
      BY <1>6, <2>3, <3>1 DEF ListenerTypes
    <3>3. QED BY <1>2, <3>1, <3>2 DEF LinkTypes
  <2>4. QED BY <1>9, <2>2, <2>3 DEF RetryOrGiveUp
<1>10. listener.at # "ended"
  BY DEF Listen, Peek, PeekTimesOut, RetryOrGiveUp
<1>11. ASSUME ~torn, NEW m \in WireMessage
       PROVE  ~Holds("listener", m) /\ ~Holds("listener", m)'
  <2>1. m # NoMessage
    BY MessageTypes
  <2>2. Core
    BY <1>11 DEF Framing
  <2>3. CASE rx["listener"].at = "off"
    <3>1. rx' = rx \/ rx' = Calls("listener")
      BY <1>5, <2>3 DEF Listen, Peek, PeekTimesOut, RetryOrGiveUp, Returned
    <3>2. rx'["listener"].at \in {"off", "select"}
      BY <1>4, <2>3, <3>1
    <3>3. QED BY <2>3, <3>2 DEF Holds
  <2>4. CASE rx["listener"].at # "off"
    <3>1. RetryOrGiveUp
      BY <1>5, <2>4 DEF Listen, Peek, PeekTimesOut
    <3>2. /\ rx["listener"].at = "done" /\ rx["listener"].err # "success"
          /\ rx' = Calls("listener") \/ rx' = Consumed("listener")
      BY <3>1 DEF RetryOrGiveUp, Returned
    <3>3. rx["listener"].msg = NoMessage
      BY <1>2, <2>2, <3>2 DEF Core, Hand
    <3>4. rx'["listener"].at \in {"off", "select"}
      BY <1>4, <3>2
    <3>5. QED BY <2>1, <3>3, <3>4 DEF Holds
  <2>5. QED BY <2>3, <2>4
<1>12. LinkTypes' /\ Framing' /\ rx'["main"] = rx["main"]
  BY <1>7, <1>8, <1>9 DEF Listen
<1>13. QED BY <1>1, <1>10, <1>11, <1>12

\* Nor does handling what it received.
LEMMA HandlesFrames ==
  ASSUME Framing, LinkTypes, NEW m, Handles(m)
  PROVE  /\ LinkTypes' /\ Framing' /\ wire' = wire /\ torn' = torn /\ rx'["main"] = rx["main"]
         /\ listener.at # "ended" /\ m = rx["listener"].msg
<1>1. /\ wire' = wire /\ torn' = torn /\ rx' = Consumed("listener") /\ rx["listener"].at = "done"
      /\ listener.at = "recv" /\ listener' = [at |-> "peek", errors |-> 0, retries |-> 0]
      /\ m = rx["listener"].msg
  BY DEF Handles, Returned
<1>2. "listener" \in Thread /\ "main" \in Thread /\ "main" # "listener"
  BY DEF Thread
<1>3. WireTypes' /\ RxTypes' /\ Framing' /\ rx'["main"] = rx["main"] /\ rx'["listener"].at = "off"
  BY <1>1, <1>2, HandedFrames DEF LinkTypes
<1>4. 0 \in 0 .. MaxErrors /\ 0 \in 0 .. MaxRecvRetries - 1 /\ 0 < MaxErrors
  BY Sizes
<1>5. ListenerTypes'
  BY <1>1, <1>3, <1>4 DEF ListenerTypes
<1>6. QED BY <1>1, <1>3, <1>5 DEF LinkTypes

\* The link is as good as it was if nobody touches it.
LEMMA LinkStays ==
  ASSUME LinkTypes, Framing, UNCHANGED linkVars
  PROVE  LinkTypes' /\ Framing' /\ rx' = rx /\ wire' = wire /\ torn' = torn /\ listener' = listener
<1>1. rx' = rx /\ wire' = wire /\ torn' = torn /\ listener' = listener
  BY DEF linkVars
<1>2. WireTypes'
  BY <1>1 DEF LinkTypes, WireTypes, Payload
<1>3. RxTypes' /\ ListenerTypes'
  BY <1>1 DEF LinkTypes, RxTypes, ListenerTypes, Payload
<1>4. Core => Core'
  BY <1>1 DEF Core, Whole, Start, Rest1, Hand, Payload
<1>5. QED BY <1>1, <1>2, <1>3, <1>4 DEF LinkTypes, Framing

\* The main thread calls the receiver, or takes what it returned.
LEMMA MainHands ==
  ASSUME LinkTypes, Framing, UNCHANGED <<wire, listener, torn>>, rx["main"].at # "payload",
         rx' = Calls("main") \/ rx' = Consumed("main")
  PROVE  /\ LinkTypes' /\ Framing' /\ rx'["listener"] = rx["listener"]
         /\ wire' = wire /\ torn' = torn /\ listener' = listener
         /\ rx' = Calls("main") => rx'["main"].at = "select" /\ rx'["main"].msg = NoMessage
         /\ rx' = Consumed("main") => rx'["main"].at = "off"
<1>1. "listener" \in Thread /\ "main" \in Thread /\ "main" # "listener"
  BY DEF Thread
<1>2. /\ WireTypes' /\ RxTypes' /\ Framing' /\ rx'["listener"] = rx["listener"]
      /\ rx' = Calls("main") => rx'["main"].at = "select" /\ rx'["main"].msg = NoMessage
      /\ rx' = Consumed("main") => rx'["main"].at = "off"
  BY <1>1, HandedFrames DEF LinkTypes
<1>3. ListenerTypes'
  BY <1>2, ListenerStays DEF LinkTypes
<1>4. QED BY <1>2, <1>3 DEF LinkTypes

\* A message is sent to the client, or nothing is.
LEMMA LinkSends ==
  ASSUME LinkTypes, Framing, UNCHANGED <<rx, listener, torn>>, NEW m \in WireMessage, wire' = Sent(m)
  PROVE  LinkTypes' /\ Framing' /\ Adds(m)
<1>1. WireTypes' /\ RxTypes' /\ Framing' /\ Adds(m)
  BY SentFrames DEF LinkTypes
<1>2. ListenerTypes'
  BY ListenerStays DEF LinkTypes
<1>3. QED BY <1>1, <1>2 DEF LinkTypes

\* A thread that receives keeps the link whole, and waits on or is done.
LEMMA LinkReceives ==
  ASSUME LinkTypes, Framing, NEW t \in Thread, Receive(t)
  PROVE  LinkTypes' /\ Framing' /\ listener' = listener /\ (torn => torn')
         /\ (rx'["main"].at = "off" <=> rx["main"].at = "off")
<1>1. listener' = listener
  BY DEF Receive, Readable, TimesOut, ReadHeader, ReadPayload
<1>2. /\ WireTypes' /\ RxTypes' /\ Framing' /\ (torn => torn')
      /\ \A u \in Thread : rx'[u].at = "off" <=> rx[u].at = "off"
  BY ReceiveFrames DEF LinkTypes
<1>3. ListenerTypes'
  BY <1>1, <1>2, ListenerStays DEF LinkTypes, Thread
<1>4. QED BY <1>1, <1>2, <1>3 DEF LinkTypes, Thread

-----------------------------------------------------------------------------
(* What is on its way.                                                      *)

\* The messages that are sent and not handled, those that answer a request on the
\* wire and in the hands of the threads, and that there is none, or one.
Messages  == Heads \union {rx[t].msg : t \in {u \in Thread : rx[u].at \in {"payload", "done"}}}
OnWire(n) == {i \in DOMAIN wire : wire[i].part = 0 /\ For(wire[i].of) = n}
InHand(n) == {t \in Thread : rx[t].at \in {"payload", "done"} /\ For(rx[t].msg) = n}
None(n)   == OnWire(n) = {} /\ InHand(n) = {}
One(n)    ==
  /\ \A i, j \in OnWire(n) : i = j
  /\ \A t, u \in InHand(n) : t = u
  /\ OnWire(n) = {} \/ InHand(n) = {}

\* A request was left, or is the last one and waited for.
Awaited(i) ==
  /\ at \in Waiting /\ i = Len(requests)
  /\ requests[i].n = sent /\ requests[i].type = RequestOf(at)
Queued == \A i \in DOMAIN requests : requests[i].n \in left \/ Awaited(i)

\* So is the request that a message answers, if it is one.
Replied(m) ==
  \/ For(m) \in {0} \union left
  \/ at \in Waiting /\ For(m) = sent /\ m.type \in Replies[RequestOf(at)]
Awaits ==
  /\ sent \notin left /\ One(sent)
  /\ (\E i \in DOMAIN requests : requests[i].n = sent) => None(sent)
Flow == Queued /\ (\A m \in Messages : Replied(m)) /\ (at \in Waiting => Awaits)

\* A player who is a spectator at the server watches, or the server will be told
\* that it does not, or has answered that it does.
Watches  == at \in {"first_board", "spectating", "refresh"}
Stopping == \E i \in DOMAIN requests : requests[i].type = "stop_spectate"
Accepted ==
  /\ at = "spectate" /\ requests = <<>>
  /\ \A m \in Messages : For(m) = sent => m.type = "spectate_ack"
LeftUnheard == \A i \in DOMAIN requests : requests[i].n \in left => requests[i].type \in Unheard
Watch ==
  /\ LeftUnheard
  /\ spectator.active => Watches
  /\ watching => Stopping \/ Watches \/ Accepted

\* What nobody waited for is answered so, while no command went on without its answer.
UnheardReplies == {"ack", "error", "game_started", "chat_message"}
LeftReplies    == \A m \in Messages : For(m) \in left => m.type \in UnheardReplies

\* Who waits has asked.
Asked == at \in Waiting => sent > 0

\* What is sent without a request, and that the rest is not.
Unasked == {"challenge_received", "game_started", "error", "none"} \union Notice
Told    == \A m \in Messages : For(m) = 0 => m.type \in Unasked

\* The inductive invariant: what is on its way is known until the stream is torn,
\* and the spectator, and what is left, until a command goes on without its answer.
Course == Flow /\ Told /\ (~lost => Watch /\ LeftReplies)
IInv   == Types /\ Framing /\ Asked /\ OpenIsListed /\ (~torn => Course)

-----------------------------------------------------------------------------
(* Types and framing.                                                       *)

Sound == Types /\ Framing

\* History only grows.
Grows ==
  /\ (torn => torn') /\ (lost => lost')
  /\ answered \subseteq answered' /\ full \subseteq full' /\ dropped \subseteq dropped'

\* The parts of the client and of the connection.
LEMMA SoundParts ==
  Sound <=> /\ LinkTypes /\ Framing /\ ClientTypes /\ ServerTypes /\ RequestTypes /\ HistoryTypes
  BY DEF Sound, Types, LinkTypes

\* The commands of the client and what the server answers to each request.
LEMMA Tables ==
  /\ Waiting = {"list_players", "challenge", "set_bio", "get_bio", "get_stats", "list_friends",
                "add_friend", "remove_friend", "list_saved", "view_saved", "list_games",
                "spectate", "first_board", "refresh"}
  /\ Requests = (Waiting \ {"first_board", "refresh"}) \union {"get_board"} \union Unheard
  /\ Expected["spectate"] = {"spectate_ack"}
  /\ Expected["first_board"] = {"board_state"} /\ Expected["refresh"] = {"board_state"}
  /\ Replies["spectate"] = {"spectate_ack", "error"} /\ Replies["get_board"] = {"board_state"}
<1>1. Waiting = {"list_players", "challenge", "set_bio", "get_bio", "get_stats", "list_friends",
                 "add_friend", "remove_friend", "list_saved", "view_saved", "list_games",
                 "spectate", "first_board", "refresh"}
  BY DEF Waiting, PlayerCommands, RecordCommands, FriendCommands, SavedCommands, WatchCommands,
         RefreshCommands
<1>2. Requests = (Waiting \ {"first_board", "refresh"}) \union {"get_board"} \union Unheard
  BY <1>1 DEF Unheard, Requests, PlayerReplies, RecordReplies, FriendReplies, SavedReplies,
         WatchReplies, BoardReplies, AnswerReplies, ChatReplies
<1>3. /\ Expected["spectate"] = {"spectate_ack"}
      /\ Expected["first_board"] = {"board_state"} /\ Expected["refresh"] = {"board_state"}
  BY DEF Waiting, Expected, PlayerCommands, RecordCommands, FriendCommands, SavedCommands,
         WatchCommands, RefreshCommands
<1>4. Replies["spectate"] = {"spectate_ack", "error"} /\ Replies["get_board"] = {"board_state"}
  BY DEF Requests, Replies, PlayerReplies, RecordReplies, FriendReplies, SavedReplies,
         WatchReplies, BoardReplies, AnswerReplies, ChatReplies
<1>5. QED BY <1>1, <1>2, <1>3, <1>4

\* What is answered, and by what.
LEMMA ReplyTypes ==
  \A type \in Requests : /\ Replies[type] \subseteq PlainType \union {"nothing"}
                         /\ "spectate_ack" \in Replies[type] => type = "spectate"
  BY DEF PlainType, Requests, Replies, PlayerReplies, RecordReplies, FriendReplies, SavedReplies,
         WatchReplies, BoardReplies, AnswerReplies, ChatReplies

\* What is answered to a request that nobody waits for.
LEMMA UnheardAnswers == \A type \in Unheard : Replies[type] \subseteq UnheardReplies
  BY DEF Unheard, UnheardReplies, Requests, Replies, PlayerReplies, RecordReplies, FriendReplies,
         SavedReplies, WatchReplies, BoardReplies, AnswerReplies, ChatReplies

\* No command takes a notice of the others for its answer, except an error.
LEMMA NoticesAreNoAnswers ==
  \A w \in Waiting :
    /\ Expected[w] \intersect ({"challenge_received", "game_started", "none"} \union Notice) = {}
    /\ Expected[w] \intersect {"game_started", "chat_message"} = {}
<1>1. Notice \subseteq {"move_result", "spectator_joined", "game_over", "chat_message"}
  BY MenuAssumption
<1>2. \A w \in Waiting :
        Expected[w] \subseteq
          {"player_list", "ack", "error", "junk", "bio_response", "player_stats", "friend_list",
           "saved_game_list", "saved_game_state", "game_list", "spectate_ack", "board_state"}
  BY DEF Waiting, Expected, PlayerCommands, RecordCommands, FriendCommands, SavedCommands,
         WatchCommands, RefreshCommands
<1>3. QED BY <1>1, <1>2

\* What the user can ask for is a command with a request of its own.
LEMMA CommandFacts ==
  Commands \subseteq Waiting \ {"first_board", "refresh"} /\ Commands \subseteq Requests
<1>1. Commands \subseteq Waiting \ {"first_board", "refresh"}
  BY MenuAssumption, Tables
<1>2. QED BY <1>1, Tables

\* The challenge that a message tells of, if it is not torn.
LEMMA ToldChallenge ==
  ASSUME NEW m \in ReadMessage, m.type = "challenge_received", m.data # Garbage
  PROVE  m.data.challenge \in ChallengeRecord /\ m.data = About(m.data.challenge)
<1>1. m.data \in ChallengeData
  BY DEF ReadMessage, PlainType
<1>2. PICK c \in ChallengeRecord : m.data = About(c)
  BY <1>1 DEF ChallengeData
<1>3. m.data.challenge = c
  BY <1>2 DEF About
<1>4. QED BY <1>2, <1>3

\* A challenge that is added is in the list, if there is room; no other leaves it.
LEMMA AddFacts ==
  ASSUME ClientTypes, HistoryTypes, NEW c \in ChallengeRecord, Add(c)
  PROVE  /\ pending' \in [Slot -> ChallengeRecord \union {NoChallenge}]
         /\ full' \subseteq ChallengeRecord /\ full \subseteq full'
         /\ Listed \subseteq Listed' /\ c \in Listed' \union full'
<1> DEFINE free == {s \in Slot \ Used : \A u \in Slot \ Used : s <= u}
<1>1. /\ pending' = [s \in Slot |-> IF s \in free /\ c \notin Listed THEN c ELSE pending[s]]
      /\ full' = IF free = {} THEN full \union {c} ELSE full
  BY DEF Add
<1>2. \A s \in free : s \in Slot /\ s \notin Used
  OBVIOUS
<1> HIDE DEF free
<1>3. /\ pending \in [Slot -> ChallengeRecord \union {NoChallenge}]
      /\ full \subseteq ChallengeRecord /\ c # NoChallenge
  BY MenuAssumption DEF ClientTypes, HistoryTypes
<1>4. \A s \in Used : s \in Slot /\ s \notin free /\ pending'[s] = pending[s]
  BY <1>1, <1>2 DEF Used
<1>5. \A s \in Used : s \in Used'
  BY <1>4 DEF Used
<1>6. Listed \subseteq Listed'
  BY <1>4, <1>5 DEF Listed
<1>7. ASSUME c \notin full' PROVE c \in Listed'
  <2>1. CASE c \in Listed
    BY <1>6, <2>1
  <2>2. CASE c \notin Listed
    <3>1. PICK s \in free : TRUE
      BY <1>1, <1>7
    <3>2. s \in Slot /\ pending'[s] = c
      BY <1>1, <1>2, <2>2, <3>1
    <3>3. s \in Used'
      BY <1>3, <3>2 DEF Used
    <3>4. QED BY <3>2, <3>3 DEF Listed
  <2>3. QED BY <2>1, <2>2
<1>8. pending' \in [Slot -> ChallengeRecord \union {NoChallenge}]
  BY <1>1, <1>3
<1>9. QED BY <1>1, <1>3, <1>6, <1>7, <1>8

\* The requests as a sequence.
LEMMA RequestFacts ==
  ASSUME RequestTypes
  PROVE  /\ Len(requests) \in Nat /\ DOMAIN requests = 1 .. Len(requests)
         /\ \A i \in DOMAIN requests : requests[i] \in Request
  BY LenProperties DEF RequestTypes

\* A request that is sent is the last one.
LEMMA SendsFacts ==
  ASSUME RequestTypes, NEW type \in Requests, NEW c \in ChallengeRecord \union {NoChallenge},
         Sends(type, c)
  PROVE  /\ RequestTypes' /\ sent' = sent + 1 /\ sent \in Nat
         /\ Len(requests') = Len(requests) + 1
         /\ \A i \in DOMAIN requests : i \in DOMAIN requests' /\ requests'[i] = requests[i]
         /\ \A i \in DOMAIN requests' : i \in DOMAIN requests \/ i = Len(requests')
         /\ Len(requests') \in DOMAIN requests'
         /\ requests'[Len(requests')] = [type |-> type, n |-> sent + 1, challenge |-> c]
<1> DEFINE r == [type |-> type, n |-> sent + 1, challenge |-> c]
<1>1. requests' = Append(requests, r) /\ sent' = sent + 1 /\ sent \in Nat /\ requests \in Seq(Request)
  BY DEF Sends, RequestTypes
<1>2. r \in Request
  BY <1>1 DEF Request
<1>3. Len(requests) \in Nat /\ DOMAIN requests = 1 .. Len(requests)
  BY RequestFacts
<1> HIDE DEF r
<1>4. /\ requests' \in Seq(Request) /\ Len(requests') = Len(requests) + 1
      /\ DOMAIN requests' = 1 .. Len(requests) + 1
      /\ \A i \in 1 .. Len(requests) : requests'[i] = requests[i]
      /\ requests'[Len(requests) + 1] = r
  BY <1>1, <1>2, <1>3, AppendProperties
<1>5. Len(requests') \in DOMAIN requests' /\ \A i \in DOMAIN requests : i \in DOMAIN requests'
  BY <1>3, <1>4
<1>6. \A i \in DOMAIN requests' : i \in DOMAIN requests \/ i = Len(requests')
  BY <1>3, <1>4
<1>7. QED BY <1>1, <1>3, <1>4, <1>5, <1>6 DEF r, RequestTypes

\* The requests after one is sent.
LEMMA NextRequest ==
  ASSUME RequestTypes, NEW type \in Requests, NEW c \in ChallengeRecord \union {NoChallenge},
         Sends(type, c)
  PROVE  \A i \in DOMAIN requests' : \/ i \in DOMAIN requests /\ requests'[i] = requests[i]
                                     \/ requests'[i].n = sent' /\ requests'[i].type = type
<1>1. /\ requests'[Len(requests')] = [type |-> type, n |-> sent + 1, challenge |-> c]
      /\ sent' = sent + 1
      /\ \A i \in DOMAIN requests : requests'[i] = requests[i]
      /\ \A i \in DOMAIN requests' : i \in DOMAIN requests \/ i = Len(requests')
  BY SendsFacts
<1>2. requests'[Len(requests')].n = sent' /\ requests'[Len(requests')].type = type
  BY <1>1
<1>3. QED
  <2> TAKE i \in DOMAIN requests'
  <2>1. CASE i \in DOMAIN requests
    BY <1>1, <2>1
  <2>2. CASE i = Len(requests')
    BY <1>2, <2>2
  <2>3. QED BY <1>1, <2>1, <2>2

\* The first request is taken.
LEMMA TakenFacts ==
  ASSUME RequestTypes, requests # <<>>, requests' = Tail(requests), sent' = sent
  PROVE  /\ RequestTypes' /\ 1 \in DOMAIN requests /\ Head(requests) = requests[1]
         /\ Len(requests') = Len(requests) - 1
         /\ \A i \in DOMAIN requests' : i + 1 \in DOMAIN requests /\ requests'[i] = requests[i + 1]
         /\ \A j \in DOMAIN requests : j # 1 => j - 1 \in DOMAIN requests' /\ requests'[j - 1] = requests[j]
<1>1. requests \in Seq(Request) /\ Len(requests) \in Nat /\ DOMAIN requests = 1 .. Len(requests)
  BY RequestFacts DEF RequestTypes
<1>2. Len(requests) >= 1 /\ Head(requests) = requests[1]
  BY <1>1, EmptySeq
<1>3. /\ requests' \in Seq(Request) /\ Len(requests') = Len(requests) - 1
      /\ \A i \in 1 .. Len(requests) - 1 : requests'[i] = requests[i + 1]
  BY <1>1, HeadTailProperties
<1>4. DOMAIN requests' = 1 .. Len(requests) - 1
  BY <1>3, LenProperties
<1>5. \A i \in DOMAIN requests' : i + 1 \in DOMAIN requests
  BY <1>1, <1>4
<1>6. \A j \in DOMAIN requests : j # 1 => j - 1 \in DOMAIN requests' /\ (j - 1) + 1 = j
  BY <1>1, <1>4
<1>7. QED BY <1>1, <1>2, <1>3, <1>4, <1>5, <1>6 DEF RequestTypes

\* The main thread calls the receiver, or takes what it is handed.
MainStep ==
  \/ (\E command \in Commands : Ask(command)) \/ Show \/ StartWatching \/ GiveUp \/ Meanwhile
  \/ Refresh \/ AutoRefresh \/ KeepWatching \/ Expelled

\* Where the main thread is before such a step, and after it.
LEMMA MainStepPlaces ==
  ASSUME Sound, MainStep
  PROVE  /\ UNCHANGED <<wire, listener, torn, open, asked, watching, others>>
         /\ \/ at \in Waiting /\ rx["main"].at = "done"
            \/ at \notin Waiting /\ rx["main"].at = "off"
         /\ \/ at' \in Waiting /\ rx' = Calls("main")
            \/ /\ at' \in {"menu", "choose_saved", "choose_game", "spectating"}
               /\ at \in Waiting /\ rx' = Consumed("main")
<1>1. at \in Waiting <=> rx["main"].at # "off"
  BY SoundParts DEF ClientTypes
<1>2. /\ {"spectate", "first_board", "refresh"} \subseteq Waiting
      /\ {"menu", "choose_saved", "choose_game", "spectating"} \cap Waiting = {}
  BY Tables
<1>3. CASE \E command \in Commands : Ask(command)
  BY <1>1, <1>2, <1>3, CommandFacts DEF Ask, Asks, AskedAt, serverVars
<1>4. CASE Show
  BY <1>1, <1>2, <1>4 DEF Show, Got, Returned, After, serverVars
<1>5. CASE StartWatching
  BY <1>1, <1>2, <1>5 DEF StartWatching, Asks, Got, Returned, serverVars
<1>6. CASE GiveUp
  BY <1>1, <1>2, <1>6 DEF GiveUp, Failed, Returned, serverVars
<1>7. CASE Meanwhile
  BY <1>1, <1>2, <1>7 DEF Meanwhile, Failed, Returned, serverVars
<1>8. CASE Refresh \/ AutoRefresh
  BY <1>1, <1>2, <1>8 DEF Refresh, AutoRefresh, Asks, serverVars
<1>9. CASE KeepWatching
  BY <1>1, <1>2, <1>9 DEF KeepWatching, Failed, Returned, serverVars
<1>10. CASE Expelled
  BY <1>1, <1>2, <1>10 DEF Expelled, StopWatching, Failed, Returned, serverVars
<1>11. QED BY <1>3, <1>4, <1>5, <1>6, <1>7, <1>8, <1>9, <1>10 DEF MainStep

\* What a command settles is in the history.
LEMMA SettlesFacts ==
  ASSUME HistoryTypes, sent \in Nat, sent > 0
  PROVE  left \union ({sent} \ {Taken}) \subseteq 1 .. sent
<1>1. sent \in 1 .. sent
  OBVIOUS
<1>2. QED BY <1>1 DEF HistoryTypes

\* The connection after such a step.
LEMMA MainStepLink ==
  ASSUME Sound, MainStep
  PROVE  /\ LinkTypes' /\ Framing' /\ rx'["listener"] = rx["listener"]
         /\ wire' = wire /\ torn' = torn /\ ServerTypes'
         /\ at' \in Waiting <=> rx'["main"].at # "off"
         /\ rx'["main"].at \in {"select", "off"}
<1>1. LinkTypes /\ Framing /\ ServerTypes
  BY SoundParts
<1>2. /\ UNCHANGED <<wire, listener, torn, open, asked, watching, others>>
      /\ rx["main"].at # "payload" /\ (rx' = Calls("main") \/ rx' = Consumed("main"))
  BY MainStepPlaces
<1>3. /\ LinkTypes' /\ Framing' /\ rx'["listener"] = rx["listener"]
      /\ rx' = Calls("main") => rx'["main"].at = "select"
      /\ rx' = Consumed("main") => rx'["main"].at = "off"
  BY <1>1, <1>2, MainHands
<1>4. ServerTypes'
  BY <1>1, <1>2 DEF ServerTypes
<1>5. {"menu", "choose_saved", "choose_game", "spectating"} \cap Waiting = {}
  BY Tables
<1>6. QED BY <1>2, <1>3, <1>4, <1>5, MainStepPlaces

\* The requests and the history after such a step.
LEMMA MainStepSends ==
  ASSUME Sound, MainStep
  PROVE  /\ RequestTypes' /\ sent <= sent'
         /\ \/ requests' = requests /\ sent' = sent
            \/ \E type \in Requests : Sends(type, NoChallenge)
<1>1. RequestTypes /\ sent \in Nat
  BY SoundParts DEF RequestTypes
<1>2. Commands \subseteq Requests /\ "get_board" \in Requests /\ "stop_spectate" \in Requests
  BY CommandFacts, Tables DEF Unheard
<1>3. \/ requests' = requests /\ sent' = sent
      \/ \E type \in Requests : Sends(type, NoChallenge)
  BY <1>2 DEF MainStep, Ask, Asks, Show, StartWatching, GiveUp, Meanwhile, Refresh, AutoRefresh,
              KeepWatching, Expelled, StopWatching
<1>4. CASE requests' = requests /\ sent' = sent
  BY <1>1, <1>3, <1>4 DEF RequestTypes
<1>5. ASSUME NEW type \in Requests, Sends(type, NoChallenge)
      PROVE  RequestTypes' /\ sent <= sent'
  <2>1. RequestTypes' /\ sent' = sent + 1
    BY <1>1, <1>5, SendsFacts
  <2>2. QED BY <1>1, <2>1
<1>6. QED BY <1>1, <1>3, <1>4, <1>5

\* Such a step keeps the types.
LEMMA MainStepSound ==
  ASSUME Sound, Asked, MainStep
  PROVE  Sound' /\ Grows
<1>1. /\ ClientTypes /\ HistoryTypes /\ sent \in Nat /\ RxTypes
      /\ lost \in BOOLEAN /\ full \subseteq ChallengeRecord
  BY SoundParts DEF RequestTypes, HistoryTypes, LinkTypes
<1>2. /\ RequestTypes' /\ sent <= sent' /\ sent' \in Nat
  BY MainStepSends DEF RequestTypes
<1>3. at' \in Waiting \union {"menu", "choose_saved", "choose_game", "spectating", "ended"}
      /\ (at' \in Waiting <=> rx'["main"].at # "off")
  BY MainStepPlaces, MainStepLink
<1>4. /\ pending' \in [Slot -> ChallengeRecord \union {NoChallenge}]
      /\ spectator' \in [active : BOOLEAN, updated : BOOLEAN]
      /\ full' \subseteq ChallengeRecord /\ full \subseteq full'
  <2>1. /\ pending \in [Slot -> ChallengeRecord \union {NoChallenge}]
        /\ spectator \in [active : BOOLEAN, updated : BOOLEAN]
    BY <1>1 DEF ClientTypes
  <2>2. CASE Meanwhile
    <3>1. /\ pending' \in [Slot -> ChallengeRecord \union {NoChallenge}]
          /\ full' \subseteq ChallengeRecord /\ full \subseteq full'
      <4> DEFINE m == rx["main"].msg
      <4>1. CASE m.type = "challenge_received" /\ m.data # Garbage
        <5>1. m \in ReadMessage
          BY <1>1, ReceiverFields DEF Thread
        <5>2. m.data.challenge \in ChallengeRecord /\ Add(m.data.challenge)
          BY <2>2, <4>1, <5>1, ToldChallenge DEF Meanwhile
        <5>3. QED BY <1>1, <5>2, AddFacts
      <4>2. CASE ~(m.type = "challenge_received" /\ m.data # Garbage)
        BY <1>1, <2>1, <2>2, <4>2 DEF Meanwhile
      <4>3. QED BY <4>1, <4>2
    <3>2. spectator' = [spectator EXCEPT !.updated = @ \/ rx["main"].msg.type = "move_result"]
      BY <2>2 DEF Meanwhile
    <3>3. spectator' \in [active : BOOLEAN, updated : BOOLEAN]
      BY <2>1, <3>2
    <3>4. QED BY <3>1, <3>3
  <2>3. CASE ~Meanwhile
    <3>1. pending' = pending /\ full' = full
      BY <2>3 DEF MainStep, Ask, Show, StartWatching, GiveUp, Refresh, AutoRefresh, KeepWatching,
                  Expelled, historyVars
    <3>2. \/ spectator' = spectator
          \/ spectator' = [active |-> TRUE, updated |-> FALSE]
          \/ spectator' = [active |-> FALSE, updated |-> FALSE]
          \/ spectator' = [spectator EXCEPT !.updated = FALSE]
      BY <2>3 DEF MainStep, Ask, Show, StartWatching, GiveUp, Refresh, AutoRefresh, KeepWatching,
                  Expelled, StopWatching
    <3>3. /\ [active |-> TRUE, updated |-> FALSE] \in [active : BOOLEAN, updated : BOOLEAN]
          /\ [active |-> FALSE, updated |-> FALSE] \in [active : BOOLEAN, updated : BOOLEAN]
      OBVIOUS
    <3>4. [spectator EXCEPT !.updated = FALSE] \in [active : BOOLEAN, updated : BOOLEAN]
      BY <2>1
    <3>5. QED BY <1>1, <2>1, <3>1, <3>2, <3>3, <3>4
  <2>4. QED BY <2>2, <2>3
<1>5. /\ left' \subseteq 1 .. sent' /\ answered' = answered
      /\ lost' \in BOOLEAN /\ (lost => lost')
  <2>1. left \subseteq 1 .. sent
    BY <1>1 DEF HistoryTypes
  <2>2. answered' = answered /\ lost' \in BOOLEAN /\ (lost => lost')
    BY <1>1 DEF MainStep, Ask, Show, StartWatching, GiveUp, Meanwhile, Refresh, AutoRefresh,
                KeepWatching, Expelled, Settles, historyVars
  <2>3. 1 .. sent \subseteq 1 .. sent'
    BY <1>1, <1>2
  <2>4. CASE left' = left
    BY <2>1, <2>2, <2>3, <2>4
  <2>5. CASE Settles /\ at \in Waiting
    <3>1. left' \subseteq 1 .. sent
      BY <1>1, <2>5, SettlesFacts DEF Settles, Asked
    <3>2. QED BY <2>1, <2>2, <2>3, <3>1
  <2>6. CASE Expelled
    <3>1. left' = left \union {sent'} \union ({sent} \ {Taken}) /\ sent' = sent + 1 /\ at = "refresh"
      BY <2>6 DEF Expelled, StopWatching, Sends
    <3>2. at \in Waiting
      BY <3>1, Tables
    <3>3. left \union ({sent} \ {Taken}) \subseteq 1 .. sent
      BY <1>1, <3>2, SettlesFacts DEF Asked
    <3>4. sent' \in 1 .. sent'
      BY <1>1, <3>1
    <3>5. QED BY <2>1, <2>2, <2>3, <3>1, <3>3, <3>4
  <2>7. left' = left \/ (Settles /\ at \in Waiting) \/ Expelled
    <3>1. {"spectate", "refresh"} \subseteq Waiting
      BY Tables
    <3>2. QED
      BY <3>1 DEF MainStep, Ask, Show, StartWatching, GiveUp, Meanwhile, Refresh, AutoRefresh,
                  KeepWatching, historyVars
  <2>8. QED BY <2>4, <2>5, <2>6, <2>7
<1>6. dropped' \subseteq ChallengeRecord /\ dropped \subseteq dropped'
  <2>1. dropped' = dropped \/ dropped' = dropped \union Drops
    BY DEF MainStep, Ask, Show, StartWatching, GiveUp, Meanwhile, Refresh, AutoRefresh,
           KeepWatching, Expelled, Settles, historyVars
  <2>2. rx["main"].msg \in ReadMessage
    BY <1>1, ReceiverFields DEF Thread
  <2>3. Drops \subseteq ChallengeRecord
    BY <2>2, ToldChallenge DEF Drops
  <2>4. QED BY <1>1, <2>1, <2>3 DEF HistoryTypes
<1>7. ClientTypes' /\ HistoryTypes'
  BY <1>1, <1>3, <1>4, <1>5, <1>6 DEF ClientTypes, HistoryTypes, Slot
<1>8. QED BY <1>2, <1>4, <1>5, <1>6, <1>7, MainStepLink, SoundParts DEF Sound, Types, LinkTypes, Grows

\* The main thread at its prompt, without a call of the receiver.
PromptStep ==
  \/ Cancel \/ Chat \/ Leave \/ Disconnect
  \/ \E c \in Listed : Respond("accept", c) \/ Respond("decline", c)

\* What is listed is a challenge.
LEMMA ListedTypes ==
  ASSUME ClientTypes
  PROVE  Listed \subseteq ChallengeRecord /\ \A c \in Listed : c.from \in Challenger
<1>1. Listed \subseteq ChallengeRecord
  BY DEF ClientTypes, Listed, Used
<1>2. QED BY <1>1 DEF ChallengeRecord

\* Where such a step leads, and what it sends.
LEMMA PromptFacts ==
  ASSUME Sound, PromptStep
  PROVE  /\ UNCHANGED <<linkVars, serverVars, lost, full, crossed, dropped>>
         /\ at \in {"menu", "choose_saved", "choose_game", "spectating"}
         /\ at' \in {"menu", "ended"}
         /\ at \notin Waiting /\ at' \notin Waiting
         /\ \/ /\ requests' = requests /\ sent' = sent /\ left' = left
               /\ pending' = pending /\ spectator' = spectator /\ answered' = answered
            \/ /\ left' = left \union {sent'}
               /\ \E type \in Unheard, c \in ChallengeRecord \union {NoChallenge} :
                    Sends(type, c) /\ (at = "spectating" => type = "stop_spectate")
<1>1. {"menu", "choose_saved", "choose_game", "spectating", "ended"} \cap Waiting = {}
  BY Tables
<1>2. CASE Cancel \/ Disconnect
  BY <1>1, <1>2 DEF Cancel, Disconnect, historyVars
<1>3. CASE Chat
  BY <1>1, <1>3 DEF Chat, Unheard, clientVars
<1>4. CASE Leave
  BY <1>1, <1>4 DEF Leave, StopWatching, Unheard
<1>5. CASE \E c \in Listed : Respond("accept", c) \/ Respond("decline", c)
  <2>1. PICK c \in Listed, type \in {"accept", "decline"} : Respond(type, c)
    BY <1>5
  <2>2. c \in ChallengeRecord
    BY ListedTypes, SoundParts
  <2>3. QED BY <1>1, <2>1, <2>2 DEF Respond, Unheard
<1>6. QED BY <1>2, <1>3, <1>4, <1>5 DEF PromptStep

\* Such a step keeps the types.
LEMMA PromptStepSound ==
  ASSUME Sound, PromptStep
  PROVE  Sound' /\ Grows
<1>1. /\ LinkTypes /\ Framing /\ ClientTypes /\ ServerTypes /\ RequestTypes /\ HistoryTypes
      /\ sent \in Nat
  BY SoundParts DEF RequestTypes
<1>2. LinkTypes' /\ Framing' /\ rx' = rx /\ torn' = torn
  BY <1>1, PromptFacts, LinkStays
<1>3. ServerTypes'
  BY <1>1, PromptFacts DEF ServerTypes, serverVars
<1>4. RequestTypes' /\ left' \subseteq 1 .. sent'
  <2>1. left \subseteq 1 .. sent
    BY <1>1 DEF HistoryTypes
  <2>2. CASE requests' = requests /\ sent' = sent /\ left' = left
    BY <1>1, <2>1, <2>2 DEF RequestTypes
  <2>3. ASSUME NEW type \in Unheard, NEW c \in ChallengeRecord \union {NoChallenge},
               Sends(type, c), left' = left \union {sent'}
        PROVE  RequestTypes' /\ left' \subseteq 1 .. sent'
    <3>1. type \in Requests
      BY Tables
    <3>2. RequestTypes' /\ sent' = sent + 1
      BY <1>1, <2>3, <3>1, SendsFacts
    <3>3. sent' \in 1 .. sent' /\ 1 .. sent \subseteq 1 .. sent'
      BY <1>1, <3>2
    <3>4. QED BY <2>1, <2>3, <3>2, <3>3
  <2>4. QED BY <2>2, <2>3, PromptFacts
<1>5. /\ pending' \in [Slot -> ChallengeRecord \union {NoChallenge}]
      /\ spectator' \in [active : BOOLEAN, updated : BOOLEAN]
      /\ answered' \subseteq ChallengeRecord /\ answered \subseteq answered'
  <2>1. /\ pending \in [Slot -> ChallengeRecord \union {NoChallenge}]
        /\ spectator \in [active : BOOLEAN, updated : BOOLEAN] /\ answered \subseteq ChallengeRecord
    BY <1>1 DEF ClientTypes, HistoryTypes
  <2>2. CASE \E c \in Listed : Respond("accept", c) \/ Respond("decline", c)
    <3>1. PICK c \in Listed, type \in {"accept", "decline"} : Respond(type, c)
      BY <2>2
    <3>2. pending' \in [Slot -> ChallengeRecord \union {NoChallenge}]
      BY <2>1, <3>1 DEF Respond
    <3>3. spectator' = spectator /\ answered' = answered \union {pending[s] : s \in FirstOf(c)}
      BY <3>1 DEF Respond
    <3>4. {pending[s] : s \in FirstOf(c)} \subseteq Listed
      BY DEF FirstOf, Listed
    <3>5. QED BY <1>1, <2>1, <3>2, <3>3, <3>4, ListedTypes
  <2>3. CASE Cancel \/ Chat \/ Disconnect
    BY <2>1, <2>3 DEF Cancel, Chat, Disconnect, clientVars, historyVars
  <2>4. CASE Leave
    BY <2>1, <2>4 DEF Leave, StopWatching
  <2>5. QED BY <2>2, <2>3, <2>4 DEF PromptStep
<1>6. /\ at' \in {"menu", "ended"} /\ lost' = lost /\ full' = full /\ dropped' = dropped
      /\ (at' \in Waiting <=> rx'["main"].at # "off")
  BY <1>1, <1>2, PromptFacts DEF ClientTypes
<1>7. ClientTypes' /\ HistoryTypes'
  BY <1>1, <1>4, <1>5, <1>6 DEF ClientTypes, HistoryTypes, Slot
<1>8. QED BY <1>2, <1>3, <1>4, <1>5, <1>6, <1>7, SoundParts DEF Sound, Types, LinkTypes, Grows

\* A thread receives, or the listener does what it does.
ReaderStep == (\E t \in Thread : Receive(t) /\ Rest) \/ (Listen /\ Rest) \/ Notified

\* Such a step keeps the types.
LEMMA ReaderStepSound ==
  ASSUME Sound, ReaderStep
  PROVE  /\ Sound' /\ Grows
         /\ UNCHANGED <<at, serverVars, left, lost, crossed, answered, dropped, requests, sent>>
         /\ spectator'.active = spectator.active
<1>1. /\ LinkTypes /\ Framing /\ ClientTypes /\ ServerTypes /\ RequestTypes /\ HistoryTypes
      /\ RxTypes
  BY SoundParts DEF LinkTypes
<1>2. /\ LinkTypes' /\ Framing' /\ (torn => torn')
      /\ (rx'["main"].at = "off" <=> rx["main"].at = "off")
  <2>1. CASE \E t \in Thread : Receive(t) /\ Rest
    BY <1>1, <2>1, LinkReceives
  <2>2. CASE Listen /\ Rest
    BY <1>1, <2>2, ListenFrames
  <2>3. CASE Notified
    <3>1. Handles(rx["listener"].msg)
      BY <2>3 DEF Notified
    <3>2. QED BY <1>1, <3>1, HandlesFrames
  <2>4. QED BY <2>1, <2>2, <2>3 DEF ReaderStep
<1>3. UNCHANGED <<at, serverVars, left, lost, crossed, answered, dropped, requests, sent>>
  BY DEF ReaderStep, Rest, Notified, clientVars, historyVars
<1>4. /\ pending \in [Slot -> ChallengeRecord \union {NoChallenge}]
      /\ spectator \in [active : BOOLEAN, updated : BOOLEAN] /\ full \subseteq ChallengeRecord
  BY <1>1 DEF ClientTypes, HistoryTypes
<1>5. /\ pending' \in [Slot -> ChallengeRecord \union {NoChallenge}]
      /\ full' \subseteq ChallengeRecord /\ full \subseteq full'
      /\ spectator' \in [active : BOOLEAN, updated : BOOLEAN] /\ spectator'.active = spectator.active
  <2>1. CASE Notified
    <3> DEFINE m == rx["listener"].msg
    <3>1. /\ IF m.type = "challenge_received" /\ m.data # Garbage
             THEN Add(m.data.challenge) ELSE UNCHANGED <<pending, full>>
          /\ spectator' = [spectator EXCEPT !.updated = @ \/ (m.type = "move_result" /\ spectator.active)]
      BY <2>1 DEF Notified
    <3>2. m \in ReadMessage
      BY <1>1, ReceiverFields DEF Thread
    <3>3. spectator' \in [active : BOOLEAN, updated : BOOLEAN] /\ spectator'.active = spectator.active
      BY <1>4, <3>1
    <3>4. CASE m.type = "challenge_received" /\ m.data # Garbage
      <4>1. m.data.challenge \in ChallengeRecord /\ Add(m.data.challenge)
        BY <3>1, <3>2, <3>4, ToldChallenge
      <4>2. QED BY <1>1, <3>3, <4>1, AddFacts
    <3>5. CASE ~(m.type = "challenge_received" /\ m.data # Garbage)
      BY <1>4, <3>1, <3>3, <3>5
    <3>6. QED BY <3>4, <3>5
  <2>2. CASE Rest
    BY <1>4, <2>2 DEF Rest, clientVars, historyVars
  <2>3. QED BY <2>1, <2>2 DEF ReaderStep
<1>6. ClientTypes' /\ HistoryTypes'
  BY <1>1, <1>2, <1>3, <1>5 DEF ClientTypes, HistoryTypes, Slot
<1>7. ServerTypes' /\ RequestTypes' /\ lost' = lost
  BY <1>1, <1>3 DEF ServerTypes, RequestTypes, serverVars
<1>8. QED BY <1>2, <1>3, <1>5, <1>6, <1>7, SoundParts DEF Sound, Types, LinkTypes, Grows

\* The server, and those who send notices and challenges.
ServerStep == Handle \/ Others

\* What the server sends are messages.
LEMMA SentMessages ==
  /\ \A r \in Request : \A reply \in Replies[r.type] \ {"nothing"} :
       Message(reply, [for |-> r.n, challenge |-> NoChallenge]) \in WireMessage
  /\ \A c \in ChallengeRecord : Message("challenge_received", About(c)) \in WireMessage
  /\ \A type \in {"game_started", "error"} \union Notice :
       Message(type, About(NoChallenge)) \in WireMessage
<1>1. ASSUME NEW r \in Request, NEW reply \in Replies[r.type] \ {"nothing"}
      PROVE  Message(reply, [for |-> r.n, challenge |-> NoChallenge]) \in WireMessage
  <2>1. reply \in PlainType
    BY ReplyTypes DEF Request
  <2>2. [for |-> r.n, challenge |-> NoChallenge] \in Data
    BY DEF Request, Data
  <2>3. QED BY <2>1, <2>2 DEF Message, WireMessage
<1>2. ASSUME NEW c \in ChallengeRecord
      PROVE  Message("challenge_received", About(c)) \in WireMessage
  BY DEF Message, WireMessage, ChallengeData
<1>3. ASSUME NEW type \in {"game_started", "error"} \union Notice
      PROVE  Message(type, About(NoChallenge)) \in WireMessage
  <2>1. type \in PlainType
    BY MenuAssumption DEF PlainType
  <2>2. About(NoChallenge) \in Data
    BY DEF About, Data
  <2>3. QED BY <2>1, <2>2 DEF Message, WireMessage
<1>4. QED BY <1>1, <1>2, <1>3

\* A challenge that is made is one of those the types allow.
LEMMA ChallengeTypes ==
  ASSUME ServerTypes, NEW p \in Challenger, Challenged(p)
  PROVE  LET c == [id |-> others.challenges + 1, from |-> p]
         IN  /\ c \in ChallengeRecord /\ open' = open \union {c}
             /\ wire' = Sent(Message("challenge_received", About(c)))
             /\ others' \in [challenges : 0 .. MaxChallenges, notices : Nat]
<1> DEFINE k == others.challenges
           c == [id |-> k + 1, from |-> p]
<1>1. /\ k < MaxChallenges /\ others' = [others EXCEPT !.challenges = @ + 1]
      /\ open' = open \union {c} /\ wire' = Sent(Message("challenge_received", About(c)))
  BY DEF Challenged, Pushes
<1>2. k \in 0 .. MaxChallenges /\ others \in [challenges : 0 .. MaxChallenges, notices : Nat]
  BY DEF ServerTypes
<1>3. k + 1 \in 1 .. MaxChallenges /\ k + 1 \in 0 .. MaxChallenges
  BY <1>1, <1>2, MenuAssumption
<1>4. c \in ChallengeRecord
  BY <1>3 DEF ChallengeRecord
<1>5. others' = [others EXCEPT !.challenges = k + 1]
  BY <1>1
<1> HIDE DEF k
<1>6. others' \in [challenges : 0 .. MaxChallenges, notices : Nat]
  BY <1>2, <1>3, <1>5
<1>7. QED BY <1>1, <1>4, <1>6 DEF k

\* What the server sends in a step, and what it changes.
LEMMA ServerFacts ==
  ASSUME Sound, ServerStep
  PROVE  /\ UNCHANGED <<rx, listener, torn, clientVars, historyVars, sent>>
         /\ wire' = wire \/ \E m \in WireMessage : wire' = Sent(m)
         /\ ServerTypes' /\ RequestTypes'
<1>1. ServerTypes /\ RequestTypes
  BY SoundParts
<1>2. /\ open \subseteq ChallengeRecord /\ asked \in BOOLEAN /\ watching \in BOOLEAN
      /\ others \in [challenges : 0 .. MaxChallenges, notices : Nat]
  BY <1>1 DEF ServerTypes
<1>3. CASE Handle
  <2>1. PICK r \in Request : r = Head(requests) /\ RequestTypes'
    <3>1. RequestTypes' /\ Head(requests) = requests[1] /\ 1 \in DOMAIN requests
      BY <1>1, <1>3, TakenFacts DEF Handle
    <3>2. QED BY <1>1, <3>1, RequestFacts
  <2>2. PICK reply \in Replies[r.type] :
          /\ wire' = IF reply = "nothing" THEN wire
                     ELSE Sent(Message(reply, [for |-> r.n, challenge |-> NoChallenge]))
          /\ open' = open \ {r.challenge} \/ open' = open
          /\ asked' = (asked \/ (r.type = "challenge" /\ reply = "ack"))
          /\ watching' = IF r.type = "stop_spectate" THEN FALSE
                         ELSE watching \/ reply = "spectate_ack"
    BY <1>3, <2>1 DEF Handle
  <2>3. wire' = wire \/ \E m \in WireMessage : wire' = Sent(m)
    BY <2>2, SentMessages
  <2>4. open' \subseteq ChallengeRecord /\ asked' \in BOOLEAN /\ watching' \in BOOLEAN
    BY <1>2, <2>2
  <2>5. UNCHANGED <<rx, listener, torn, clientVars, historyVars, others, sent>>
    BY <1>3 DEF Handle
  <2>6. QED BY <1>2, <2>1, <2>3, <2>4, <2>5 DEF ServerTypes
<1>4. CASE Others
  <2>1. UNCHANGED <<rx, listener, torn, clientVars, historyVars, requests, sent>>
    BY <1>4 DEF Others, Challenged, Expire, Answered, Push, GameEnds, linkVars
  <2>2. RequestTypes'
    BY <1>1, <2>1 DEF RequestTypes
  <2>3. CASE \E p \in Challenger : Challenged(p)
    <3>1. PICK p \in Challenger : Challenged(p)
      BY <2>3
    <3>2. PICK c \in ChallengeRecord :
            /\ open' = open \union {c} /\ wire' = Sent(Message("challenge_received", About(c)))
            /\ others' \in [challenges : 0 .. MaxChallenges, notices : Nat]
      BY <1>1, <3>1, ChallengeTypes
    <3>3. asked' = asked /\ watching' = watching
      BY <3>1 DEF Challenged
    <3>4. ServerTypes'
      BY <1>2, <3>2, <3>3 DEF ServerTypes
    <3>5. \E m \in WireMessage : wire' = Sent(m)
      BY <3>2, SentMessages
    <3>6. QED BY <2>1, <2>2, <3>4, <3>5
  <2>4. CASE Expire \/ GameEnds
    BY <1>2, <2>1, <2>2, <2>4 DEF Expire, GameEnds, linkVars, ServerTypes
  <2>5. CASE Answered
    <3>1. /\ asked' = FALSE /\ UNCHANGED <<open, watching, others>>
          /\ wire' = wire \/ \E type \in {"game_started", "error"} :
                                wire' = Sent(Message(type, About(NoChallenge)))
      BY <2>5 DEF Answered, Pushes
    <3>2. wire' = wire \/ \E m \in WireMessage : wire' = Sent(m)
      BY <3>1, SentMessages
    <3>3. ServerTypes'
      BY <1>2, <3>1 DEF ServerTypes
    <3>4. QED BY <2>1, <2>2, <3>2, <3>3
  <2>6. CASE Push
    <3>1. /\ others' = [others EXCEPT !.notices = @ + 1] /\ UNCHANGED <<open, asked, watching>>
          /\ \E type \in Notice : wire' = Sent(Message(type, About(NoChallenge)))
      BY <2>6 DEF Push, Pushes
    <3>2. \E m \in WireMessage : wire' = Sent(m)
      BY <3>1, SentMessages
    <3>3. others' \in [challenges : 0 .. MaxChallenges, notices : Nat]
      BY <1>2, <3>1
    <3>4. ServerTypes'
      BY <1>2, <3>1, <3>3 DEF ServerTypes
    <3>5. QED BY <2>1, <2>2, <3>2, <3>4
  <2>7. QED BY <1>4, <2>3, <2>4, <2>5, <2>6 DEF Others
<1>5. QED BY <1>3, <1>4 DEF ServerStep

\* Such a step keeps the types.
LEMMA ServerStepSound ==
  ASSUME Sound, ServerStep
  PROVE  Sound' /\ Grows
<1>1. LinkTypes /\ Framing /\ ClientTypes /\ HistoryTypes
  BY SoundParts
<1>2. /\ UNCHANGED <<rx, listener, torn, clientVars, historyVars, sent>>
      /\ ServerTypes' /\ RequestTypes'
  BY ServerFacts
<1>3. LinkTypes' /\ Framing'
  <2>1. CASE wire' = wire
    <3>1. UNCHANGED linkVars
      BY <1>2, <2>1 DEF linkVars
    <3>2. QED BY <1>1, <3>1, LinkStays
  <2>2. ASSUME NEW m \in WireMessage, wire' = Sent(m) PROVE LinkTypes' /\ Framing'
    BY <1>1, <1>2, <2>2, LinkSends
  <2>3. QED BY <2>1, <2>2, ServerFacts
<1>4. ClientTypes' /\ HistoryTypes'
  BY <1>1, <1>2 DEF ClientTypes, HistoryTypes, clientVars, historyVars, Slot
<1>5. QED BY <1>2, <1>3, <1>4, SoundParts DEF Sound, Types, LinkTypes, Grows, historyVars

-----------------------------------------------------------------------------
(* The answers on their way.                                                *)

\* Nothing comes to the messages that are on their way: they are read, or gone.
Drains ==
  /\ \A n \in Nat \ {0} : (None(n) => None(n)') /\ (One(n) => One(n)')
  /\ Messages' \subseteq Messages \union {NoMessage}

\* Nobody asked for a message that there is not.
LEMMA NoMessageFor == For(NoMessage) = 0
  BY DEF For, NoMessage, Message

\* The messages of receivers that stay as they are, or are handed to their callers.
LEMMA HandsDrain ==
  ASSUME wire' = wire, \A u \in Thread : rx'[u] = rx[u] \/ rx'[u].at \in {"off", "select"}
  PROVE  Drains
<1>1. Heads' = Heads /\ \A n : OnWire(n)' = OnWire(n)
  BY DEF Heads, OnWire
<1>2. \A n : InHand(n)' \subseteq InHand(n)
  BY DEF InHand
<1>3. Messages' \subseteq Messages
  BY <1>1 DEF Messages
<1>4. QED BY <1>1, <1>2, <1>3 DEF Drains, None, One

\* A thread that waits reads nothing.
LEMMA WaitsDrain ==
  ASSUME NEW t \in Thread, Waits(t), \A u \in Thread : u # t => rx'[u] = rx[u]
  PROVE  Drains
<1>1. Heads' = Heads /\ \A n : OnWire(n)' = OnWire(n)
  BY DEF Waits, Heads, OnWire
<1>2. \A n \in Nat \ {0} : InHand(n)' \subseteq InHand(n)
  BY NoMessageFor DEF InHand, Waits
<1>3. Messages' \subseteq Messages \union {NoMessage}
  BY <1>1 DEF Messages, Waits
<1>4. QED BY <1>1, <1>2, <1>3 DEF Drains, None, One

\* The headers after k parts are read are k places nearer.
LEMMA Nearer ==
  ASSUME WireTypes, WireTypes', NEW k \in Nat, Shifts(k)
  PROVE  /\ \A i \in DOMAIN wire' : i \in Nat /\ i >= 1 /\ i + k \in DOMAIN wire /\ wire'[i] = wire[i + k]
         /\ Heads' \subseteq Heads
         /\ \A n : \A i \in OnWire(n)' : i \in Nat /\ i >= 1 /\ i + k \in OnWire(n)
<1>1. DOMAIN wire' = 1 .. Len(wire') /\ Len(wire') \in Nat
  BY LenProperties DEF WireTypes
<1>2. \A i \in DOMAIN wire' : i \in Nat /\ i >= 1 /\ i + k \in DOMAIN wire /\ wire'[i] = wire[i + k]
  BY <1>1 DEF Shifts
<1>3. Heads' \subseteq Heads
  <2> SUFFICES ASSUME NEW i \in DOMAIN wire', wire'[i].part = 0 PROVE wire'[i].of \in Heads
    BY DEF Heads
  <2>1. i + k \in DOMAIN wire /\ wire[i + k].part = 0 /\ wire'[i].of = wire[i + k].of
    BY <1>2
  <2>2. QED BY <2>1 DEF Heads
<1>4. ASSUME NEW n, NEW i \in OnWire(n)'
      PROVE  i \in Nat /\ i >= 1 /\ i + k \in OnWire(n)
  <2>1. i \in DOMAIN wire' /\ wire'[i].part = 0 /\ For(wire'[i].of) = n
    BY <1>4 DEF OnWire, For
  <2>2. i + k \in DOMAIN wire /\ wire[i + k].part = 0 /\ For(wire[i + k].of) = n
    BY <1>2, <2>1
  <2>3. QED BY <1>2, <2>1, <2>2 DEF OnWire
<1>5. QED BY <1>2, <1>3, <1>4

\* A thread that reads a header takes the message into its hands.
LEMMA HeaderDrains ==
  ASSUME WireTypes, WireTypes', NEW t \in Thread, TakesHeader(t),
         \A u \in Thread : u # t => rx'[u] = rx[u]
  PROVE  Drains
<1>1. /\ 1 \in DOMAIN wire /\ wire[1].part = 0 /\ rx'[t].msg = wire[1].of
      /\ rx[t].at = "header" /\ rx'[t].at \in {"payload", "done"} /\ Shifts(1)
  BY DEF TakesHeader
<1>2. /\ Heads' \subseteq Heads
      /\ \A n : \A i \in OnWire(n)' : i \in Nat /\ i >= 1 /\ i + 1 \in OnWire(n)
  BY <1>1, Nearer
<1>3. wire[1].of \in Heads
  BY <1>1 DEF Heads
<1>4. Messages' \subseteq Messages
  BY <1>1, <1>2, <1>3 DEF Messages
<1>5. ASSUME NEW n \in Nat \ {0}
      PROVE  /\ For(wire[1].of) # n => InHand(n)' \subseteq InHand(n)
             /\ For(wire[1].of) = n => InHand(n)' \subseteq InHand(n) \union {t} /\ 1 \in OnWire(n)
  BY <1>1 DEF InHand, OnWire
<1>6. ASSUME NEW n \in Nat \ {0}, None(n) PROVE None(n)'
  BY <1>2, <1>5, <1>6 DEF None
<1>7. ASSUME NEW n \in Nat \ {0}, One(n) PROVE One(n)'
  <2>1. CASE For(wire[1].of) = n
    <3>1. 1 \in OnWire(n) /\ InHand(n)' \subseteq InHand(n) \union {t}
      BY <1>5, <2>1
    <3>2. InHand(n) = {} /\ \A i \in OnWire(n) : i = 1
      BY <1>7, <3>1 DEF One
    <3>3. OnWire(n)' = {}
      <4> SUFFICES ASSUME NEW i \in OnWire(n)' PROVE FALSE
        OBVIOUS
      <4>1. i \in Nat /\ i >= 1 /\ i + 1 = 1
        BY <1>2, <3>2
      <4>2. QED BY <4>1
    <3>4. QED BY <3>1, <3>2, <3>3 DEF One
  <2>2. CASE For(wire[1].of) # n
    <3>1. InHand(n)' \subseteq InHand(n)
      BY <1>5, <2>2
    <3>2. \A i, j \in OnWire(n)' : i = j
      <4> TAKE i, j \in OnWire(n)'
      <4>1. i \in Nat /\ j \in Nat /\ i + 1 = j + 1
        BY <1>2, <1>7 DEF One
      <4>2. QED BY <4>1
    <3>3. OnWire(n) = {} => OnWire(n)' = {}
      BY <1>2
    <3>4. QED BY <1>7, <3>1, <3>2, <3>3 DEF One
  <2>3. QED BY <2>1, <2>2
<1>8. QED BY <1>4, <1>6, <1>7 DEF Drains

\* A thread that reads a payload has its message already.
LEMMA PayloadDrains ==
  ASSUME WireTypes, WireTypes', NEW t \in Thread, TakesPayload(t),
         \A u \in Thread : u # t => rx'[u] = rx[u]
  PROVE  Drains
<1>1. PICK k \in Nat : Shifts(k)
  BY DEF TakesPayload
<1>2. /\ Heads' \subseteq Heads
      /\ \A n : \A i \in OnWire(n)' : i \in Nat /\ i >= 1 /\ i + k \in OnWire(n)
  BY <1>1, Nearer
<1>3. rx[t].at = "payload" /\ rx'[t].at = "done" /\ rx'[t].msg = rx[t].msg
  BY DEF TakesPayload
<1>4. Messages' \subseteq Messages
  BY <1>2, <1>3 DEF Messages
<1>5. \A n : InHand(n)' \subseteq InHand(n)
  BY <1>3 DEF InHand
<1>6. ASSUME NEW n \in Nat \ {0}, One(n) PROVE One(n)'
  <2>1. \A i, j \in OnWire(n)' : i = j
    <3> TAKE i, j \in OnWire(n)'
    <3>1. i \in Nat /\ j \in Nat /\ i + k = j + k
      BY <1>2, <1>6 DEF One
    <3>2. QED BY <3>1
  <2>2. OnWire(n) = {} => OnWire(n)' = {}
    BY <1>2
  <2>3. QED BY <1>5, <1>6, <2>1, <2>2 DEF One
<1>7. ASSUME NEW n \in Nat \ {0}, None(n) PROVE None(n)'
  BY <1>2, <1>5, <1>7 DEF None
<1>8. QED BY <1>4, <1>6, <1>7 DEF Drains

\* What the readers do brings nothing.
LEMMA ReadersDrain ==
  ASSUME Sound, ~torn', ReaderStep
  PROVE  Drains
<1>1. LinkTypes /\ Framing /\ WireTypes /\ RxTypes
  BY SoundParts DEF LinkTypes
<1>2. CASE \E t \in Thread : Receive(t) /\ Rest
  <2>1. PICK t \in Thread : Receive(t)
    BY <1>2
  <2>2. WireTypes' /\ Takes(t) /\ \A u \in Thread : u # t => rx'[u] = rx[u]
    BY <1>1, <2>1, ReceiveFrames
  <2>3. QED BY <1>1, <2>2, WaitsDrain, HeaderDrains, PayloadDrains DEF Takes
<1>3. CASE Listen /\ Rest
  <2>1. wire' = wire /\ rx'["main"] = rx["main"]
    BY <1>1, <1>3, ListenFrames
  <2>2. rx' = rx \/ rx' = Calls("listener") \/ rx' = Consumed("listener")
    BY <1>3 DEF Listen, Peek, PeekTimesOut, RetryOrGiveUp
  <2>3. rx'["listener"] = rx["listener"] \/ rx'["listener"].at \in {"off", "select"}
    BY <1>1, <2>2, CallsFacts, ConsumedFacts DEF Thread
  <2>4. QED BY <2>1, <2>3, HandsDrain DEF Thread
<1>4. CASE Notified
  <2>1. Handles(rx["listener"].msg)
    BY <1>4 DEF Notified
  <2>2. wire' = wire /\ rx'["main"] = rx["main"] /\ rx' = Consumed("listener")
    BY <1>1, <2>1, HandlesFrames DEF Handles
  <2>3. rx'["listener"].at = "off"
    BY <1>1, <2>2, ConsumedFacts DEF Thread
  <2>4. QED BY <2>2, <2>3, HandsDrain DEF Thread
<1>5. QED BY <1>2, <1>3, <1>4 DEF ReaderStep

\* A step that brings no message and asks for none.
LEMMA QuietFlow ==
  ASSUME Flow, Drains, Asked, sent \in Nat, UNCHANGED <<at, requests, sent, left>>
  PROVE  Flow'
<1>1. Queued'
  BY DEF Flow, Queued, Awaited
<1>2. \A m \in Messages' : Replied(m)'
  <2> TAKE m \in Messages'
  <2>1. CASE m \in Messages
    BY <2>1 DEF Flow, Replied
  <2>2. CASE m = NoMessage
    BY <2>2, NoMessageFor DEF Replied
  <2>3. QED BY <2>1, <2>2 DEF Drains
<1>3. ASSUME at' \in Waiting PROVE Awaits'
  <2>1. Awaits /\ sent \in Nat \ {0}
    BY <1>3 DEF Flow, Asked
  <2>2. (None(sent) => None(sent)') /\ (One(sent) => One(sent)')
    <3>1. PICK n \in Nat \ {0} : n = sent
      BY <2>1
    <3>2. (None(n) => None(n)') /\ (One(n) => One(n)')
      BY DEF Drains
    <3>3. n = sent'
      BY <3>1
    <3>4. QED BY <3>1, <3>2, <3>3 DEF None, One, OnWire, InHand
  <2>3. QED BY <2>1, <2>2 DEF Awaits
<1>4. QED BY <1>1, <1>2, <1>3 DEF Flow

\* What came before a new request is left, or answered.
Old(settled) ==
  /\ \A i \in DOMAIN requests : requests[i].n \in settled
  /\ \A m \in Messages' : For(m) \in {0} \union settled

\* A new request is the only one that is not left.
LEMMA NewRequest ==
  ASSUME RequestTypes, NEW c \in ChallengeRecord \union {NoChallenge}, NEW type \in Requests,
         Sends(type, c), at' \in Waiting, type = RequestOf(at'),
         left' \subseteq 1 .. sent, Old(left')
  PROVE  Flow'
<1>1. /\ sent' = sent + 1 /\ sent \in Nat
      /\ \A i \in DOMAIN requests : i \in DOMAIN requests' /\ requests'[i] = requests[i]
      /\ \A i \in DOMAIN requests' : i \in DOMAIN requests \/ i = Len(requests')
      /\ requests'[Len(requests')] = [type |-> type, n |-> sent + 1, challenge |-> c]
  BY SendsFacts
<1>2. sent' \notin left' /\ sent' # 0
  BY <1>1
<1>3. Queued'
  <2> SUFFICES ASSUME NEW i \in DOMAIN requests'
               PROVE  requests'[i].n \in left' \/ Awaited(i)'
    BY DEF Queued
  <2>1. CASE i \in DOMAIN requests
    BY <1>1, <2>1 DEF Old
  <2>2. CASE i = Len(requests')
    BY <1>1, <2>2 DEF Awaited
  <2>3. QED BY <1>1, <2>1, <2>2
<1>4. \A m \in Messages' : Replied(m)'
  BY DEF Old, Replied
<1>5. Awaits'
  <2>1. ASSUME NEW n, n = sent' PROVE None(n)'
    <3>1. \A m \in Messages' : For(m) # n
      BY <1>2, <2>1 DEF Old
    <3>2. OnWire(n)' = {}
      BY <3>1 DEF OnWire, Messages, Heads
    <3>3. InHand(n)' = {}
      BY <3>1 DEF InHand, Messages
    <3>4. QED BY <3>2, <3>3 DEF None
  <2>2. None(sent)'
    BY <2>1 DEF None, OnWire, InHand
  <2>3. QED BY <1>2, <2>2 DEF Awaits, None, One
<1>6. QED BY <1>3, <1>4, <1>5 DEF Flow

\* Nobody waits after a step that leaves what was asked.
LEMMA NoRequest ==
  ASSUME at' \notin Waiting, \A m \in Messages' : For(m) \in {0} \union left',
         \A i \in DOMAIN requests' : requests'[i].n \in left'
  PROVE  Flow'
  BY DEF Flow, Queued, Replied

\* A command that goes on leaves its request, or has the answer in its hands, and
\* there is no other.
LEMMA SettlesOld ==
  ASSUME Sound, Asked, Flow, MainStep, at \in Waiting
  PROVE  Old(left \union ({sent} \ {Taken}))
<1>1. /\ wire' = wire /\ rx'["listener"] = rx["listener"] /\ rx'["main"].at \in {"select", "off"}
      /\ rx["main"].at = "done"
  BY MainStepLink, MainStepPlaces
<1>2. Heads' = Heads
  BY <1>1 DEF Heads
<1>3. \A m \in Messages' : m \in Heads \/ (rx["listener"].at \in {"payload", "done"} /\ m = rx["listener"].msg)
  BY <1>1, <1>2 DEF Messages, Thread
<1>4. Messages' \subseteq Messages
  BY <1>3 DEF Messages, Thread
<1>5. /\ \A i \in DOMAIN requests : requests[i].n \in left \union {sent}
      /\ \A m \in Messages' : For(m) \in {0} \union left \union {sent}
  BY <1>4 DEF Flow, Queued, Awaited, Replied
<1>6. CASE Taken # sent
  BY <1>5, <1>6 DEF Old
<1>7. CASE Taken = sent
  <2>1. sent # 0 /\ Awaits
    BY DEF Asked, Flow
  <2>2. For(rx["main"].msg) = sent
    BY <1>7, <2>1 DEF Taken
  <2>3. "main" \in InHand(sent)
    BY <1>1, <2>2 DEF InHand, Thread
  <2>4. OnWire(sent) = {} /\ \A t \in InHand(sent) : t = "main"
    BY <2>1, <2>3 DEF Awaits, One
  <2>5. \A i \in DOMAIN requests : requests[i].n # sent
    BY <2>1, <2>3 DEF Awaits, None
  <2>6. \A m \in Heads : For(m) # sent
    BY <2>4 DEF Heads, OnWire
  <2>7. rx["listener"].at \in {"payload", "done"} => For(rx["listener"].msg) # sent
    <3>1. "listener" \in Thread /\ "listener" # "main"
      BY DEF Thread
    <3>2. QED BY <2>4, <3>1 DEF InHand
  <2>8. QED BY <1>3, <1>5, <1>7, <2>5, <2>6, <2>7 DEF Old
<1>8. QED BY <1>6, <1>7

\* The steps of the main thread.
LEMMA MainStepFlow ==
  ASSUME Sound, Asked, Flow, MainStep
  PROVE  Flow'
<1>1. /\ RequestTypes /\ sent \in Nat /\ left \subseteq 1 .. sent
  BY SoundParts DEF RequestTypes, HistoryTypes
<1>2. /\ wire' = wire /\ rx'["listener"] = rx["listener"] /\ rx'["main"].at \in {"select", "off"}
  BY MainStepLink
<1>3. Drains
  BY <1>2, HandsDrain DEF Thread
<1>4. /\ {"spectate", "first_board", "refresh"} \subseteq Waiting
      /\ {"menu", "choose_saved", "choose_game", "spectating"} \cap Waiting = {}
  BY Tables
<1>5. CASE Meanwhile
  <2>1. UNCHANGED <<at, requests, sent, left>>
    BY <1>5 DEF Meanwhile
  <2>2. QED BY <1>1, <1>3, <2>1, QuietFlow
<1>6. ASSUME at \notin Waiting PROVE Old(left)
  <2>1. \A i \in DOMAIN requests : requests[i].n \in left
    BY <1>6 DEF Flow, Queued, Awaited
  <2>2. \A m \in Messages' : For(m) \in {0} \union left
    BY <1>3, <1>6, NoMessageFor DEF Flow, Replied, Drains
  <2>3. QED BY <2>1, <2>2 DEF Old
<1>7. CASE (\E command \in Commands : Ask(command)) \/ Refresh \/ AutoRefresh
  <2>1. PICK type \in Requests : /\ Sends(type, NoChallenge) /\ at' \in Waiting
                                 /\ type = RequestOf(at') /\ left' = left /\ at \notin Waiting
    <3>1. CASE Refresh \/ AutoRefresh
      BY <1>4, <3>1, Tables DEF Refresh, AutoRefresh, Asks, RequestOf, historyVars
    <3>2. CASE \E command \in Commands : Ask(command)
      <4>1. PICK command \in Commands : Ask(command)
        BY <3>2
      <4>2. /\ command \in Requests /\ command \in Waiting /\ RequestOf(command) = command
            /\ AskedAt(command) \notin Waiting
        BY <1>4, CommandFacts DEF RequestOf, AskedAt
      <4>3. QED BY <4>1, <4>2 DEF Ask, Asks, historyVars
    <3>3. QED BY <1>7, <3>1, <3>2
  <2>2. Old(left')
    BY <1>6, <2>1
  <2>3. left' \subseteq 1 .. sent
    BY <1>1, <2>1
  <2>4. QED BY <1>1, <2>1, <2>2, <2>3, NewRequest
<1>8. CASE Show \/ GiveUp \/ KeepWatching
  <2>1. /\ at \in Waiting /\ at' \notin Waiting /\ requests' = requests
        /\ left' = left \union ({sent} \ {Taken})
    BY <1>4, <1>8 DEF Show, GiveUp, KeepWatching, Settles, After
  <2>2. Old(left')
    BY <2>1, SettlesOld
  <2>3. QED BY <2>1, <2>2, NoRequest DEF Old
<1>9. CASE StartWatching
  <2>1. /\ at \in Waiting /\ at' = "first_board" /\ Sends("get_board", NoChallenge)
        /\ left' = left \union ({sent} \ {Taken})
    BY <1>4, <1>9 DEF StartWatching, Asks, Settles
  <2>2. Old(left') /\ left' \subseteq 1 .. sent
    <3>1. sent \in 1 .. sent
      BY <1>1, <2>1 DEF Asked
    <3>2. QED BY <1>1, <2>1, <3>1, SettlesOld
  <2>3. "get_board" \in Requests /\ RequestOf("first_board") = "get_board"
    BY Tables DEF RequestOf
  <2>4. QED BY <1>1, <1>4, <2>1, <2>2, <2>3, NewRequest
<1>10. CASE Expelled
  <2>1. /\ at \in Waiting /\ at' = "menu" /\ Sends("stop_spectate", NoChallenge)
        /\ left' = left \union {sent'} \union ({sent} \ {Taken})
    BY <1>4, <1>10 DEF Expelled, StopWatching
  <2>2. Old(left \union ({sent} \ {Taken}))
    BY <2>1, SettlesOld
  <2>3. "stop_spectate" \in Requests
    BY Tables DEF Unheard
  <2>4. \A i \in DOMAIN requests' : requests'[i].n \in left'
    <3>1. \A i \in DOMAIN requests' : \/ i \in DOMAIN requests /\ requests'[i] = requests[i]
                                      \/ requests'[i].n = sent'
      BY <1>1, <2>1, <2>3, NextRequest
    <3>2. QED BY <2>1, <2>2, <3>1 DEF Old
  <2>5. QED BY <1>4, <2>1, <2>2, <2>4, NoRequest DEF Old
<1>11. QED BY <1>5, <1>7, <1>8, <1>9, <1>10 DEF MainStep

\* The steps of the main thread at its prompt.
LEMMA PromptStepFlow ==
  ASSUME Sound, Flow, PromptStep
  PROVE  Flow'
<1>1. RequestTypes /\ Unheard \subseteq Requests
  BY SoundParts, Tables
<1>2. /\ wire' = wire /\ rx' = rx /\ at \notin Waiting /\ at' \notin Waiting
  BY PromptFacts DEF linkVars
<1>3. Drains
  BY <1>2, HandsDrain
<1>4. /\ \A i \in DOMAIN requests : requests[i].n \in left
      /\ \A m \in Messages' : For(m) \in {0} \union left
  BY <1>2, <1>3, NoMessageFor DEF Flow, Queued, Awaited, Replied, Drains
<1>5. CASE requests' = requests /\ left' = left
  BY <1>2, <1>4, <1>5, NoRequest
<1>6. ASSUME NEW type \in Unheard, NEW c \in ChallengeRecord \union {NoChallenge},
             Sends(type, c), left' = left \union {sent'}
      PROVE  Flow'
  <2>1. type \in Requests
    BY <1>1
  <2>2. \A i \in DOMAIN requests' : \/ i \in DOMAIN requests /\ requests'[i] = requests[i]
                                    \/ requests'[i].n = sent'
    BY <1>1, <1>6, <2>1, NextRequest
  <2>3. /\ \A i \in DOMAIN requests' : requests'[i].n \in left'
        /\ \A m \in Messages' : For(m) \in {0} \union left'
    BY <1>4, <1>6, <2>2
  <2>4. QED BY <1>2, <2>3, NoRequest
<1>7. QED BY <1>5, <1>6, PromptFacts

\* The steps of the readers.
LEMMA ReaderStepFlow ==
  ASSUME Sound, Asked, Flow, ~torn', ReaderStep
  PROVE  Flow'
<1>1. sent \in Nat /\ UNCHANGED <<at, requests, sent, left>>
  BY ReaderStepSound, SoundParts DEF RequestTypes
<1>2. QED BY <1>1, ReadersDrain, QuietFlow

\* What a message that is sent adds to those that are on their way.
LEMMA AddsOne ==
  ASSUME NEW m, Adds(m), rx' = rx
  PROVE  /\ Messages' = Messages \union {m}
         /\ \A n : n # For(m) => (None(n) => None(n)') /\ (One(n) => One(n)')
         /\ \A n : None(n) => One(n)'
<1>1. PICK k \in DOMAIN wire' :
        /\ k \notin DOMAIN wire /\ wire'[k] = [of |-> m, part |-> 0]
        /\ \A i \in DOMAIN wire' : i \notin DOMAIN wire /\ i # k => wire'[i].part > 0
  BY DEF Adds
<1>2. \A i \in DOMAIN wire : i \in DOMAIN wire' /\ wire'[i] = wire[i]
  BY DEF Adds
<1>3. wire'[k].of = m /\ wire'[k].part = 0
  BY <1>1
<1>4. \A i \in DOMAIN wire' : wire'[i].part = 0 => i \in DOMAIN wire \/ i = k
  BY <1>1
<1>5. Heads' = Heads \union {m}
  BY <1>2, <1>3, <1>4 DEF Heads
<1>6. Messages' = Messages \union {m}
  BY <1>5 DEF Messages
<1>7. ASSUME NEW n
      PROVE  /\ InHand(n)' = InHand(n) /\ OnWire(n)' \subseteq OnWire(n) \union {k}
             /\ n # For(m) => OnWire(n)' \subseteq OnWire(n)
  <2>1. InHand(n)' = InHand(n)
    BY DEF InHand
  <2>2. ASSUME NEW i \in OnWire(n)'
        PROVE  i \in OnWire(n) \/ (i = k /\ n = For(m))
    <3>1. i \in DOMAIN wire' /\ wire'[i].part = 0 /\ For(wire'[i].of) = n
      BY <2>2 DEF OnWire, For
    <3>2. QED BY <1>2, <1>3, <1>4, <3>1 DEF OnWire
  <2>3. QED BY <2>1, <2>2
<1>8. ASSUME NEW n, n # For(m) PROVE (None(n) => None(n)') /\ (One(n) => One(n)')
  BY <1>7, <1>8 DEF None, One
<1>9. ASSUME NEW n, None(n) PROVE One(n)'
  BY <1>7, <1>9 DEF None, One
<1>10. QED BY <1>6, <1>8, <1>9

\* What the others send answers nothing.
LEMMA OthersSend ==
  ASSUME Sound, Others
  PROVE  /\ UNCHANGED <<rx, listener, torn, clientVars, historyVars, requests, sent>>
         /\ \/ wire' = wire
            \/ \E m \in WireMessage : wire' = Sent(m) /\ For(m) = 0 /\ m.type \in Unasked
<1>1. UNCHANGED <<rx, listener, torn, clientVars, historyVars, requests, sent>>
  BY DEF Others, Challenged, Expire, Answered, Push, GameEnds, linkVars
<1>2. ASSUME NEW type, NEW c, Message(type, About(c)) \in WireMessage
      PROVE  For(Message(type, About(c))) = 0 /\ Message(type, About(c)).type = type
  BY DEF For, Message, About
<1>3. CASE \E p \in Challenger : Challenged(p)
  <2>1. PICK c \in ChallengeRecord : wire' = Sent(Message("challenge_received", About(c)))
    BY <1>3, ChallengeTypes, SoundParts
  <2>2. QED BY <1>1, <1>2, <2>1, SentMessages DEF Unasked
<1>4. CASE Expire \/ GameEnds
  BY <1>1, <1>4 DEF Expire, GameEnds, linkVars
<1>5. CASE Answered \/ Push
  <2>1. \/ wire' = wire
        \/ \E type \in {"game_started", "error"} \union Notice : wire' = Sent(Message(type, About(NoChallenge)))
    BY <1>5 DEF Answered, Push, Pushes
  <2>2. QED BY <1>1, <1>2, <2>1, SentMessages DEF Unasked
<1>6. QED BY <1>3, <1>4, <1>5 DEF Others

\* The handler of a request, and what it answers to it.
LEMMA HandleFacts ==
  ASSUME Sound, Handle
  PROVE  /\ UNCHANGED <<rx, listener, torn, clientVars, historyVars, others, sent>>
         /\ 1 \in DOMAIN requests /\ requests[1] \in Request
         /\ Len(requests') = Len(requests) - 1
         /\ \A i \in DOMAIN requests' : i + 1 \in DOMAIN requests /\ requests'[i] = requests[i + 1]
         /\ \E reply \in Replies[requests[1].type] :
              /\ CanReply(requests[1], reply)
              /\ \/ reply = "nothing" /\ wire' = wire
                 \/ \E m \in WireMessage :
                      wire' = Sent(m) /\ For(m) = requests[1].n /\ m.type = reply
              /\ \/ open' = open \ {requests[1].challenge}
                 \/ open' = open
              /\ watching' = IF requests[1].type = "stop_spectate" THEN FALSE
                             ELSE watching \/ reply = "spectate_ack"
<1>1. /\ UNCHANGED <<rx, listener, torn, clientVars, historyVars, others, sent>>
      /\ requests # <<>> /\ requests' = Tail(requests) /\ RequestTypes
  BY SoundParts DEF Handle
<1>2. /\ 1 \in DOMAIN requests /\ Head(requests) = requests[1] /\ Len(requests') = Len(requests) - 1
      /\ \A i \in DOMAIN requests' : i + 1 \in DOMAIN requests /\ requests'[i] = requests[i + 1]
  BY <1>1, TakenFacts
<1>3. PICK r \in Request : r = requests[1]
  BY <1>1, <1>2, RequestFacts
<1>4. PICK reply \in Replies[r.type] :
        /\ CanReply(r, reply)
        /\ wire' = IF reply = "nothing" THEN wire
                   ELSE Sent(Message(reply, [for |-> r.n, challenge |-> NoChallenge]))
        /\ open' = open \ {r.challenge} \/ open' = open
        /\ watching' = IF r.type = "stop_spectate" THEN FALSE
                       ELSE watching \/ reply = "spectate_ack"
  BY <1>2, <1>3 DEF Handle
<1>5. ASSUME reply # "nothing"
      PROVE  \E m \in WireMessage : wire' = Sent(m) /\ For(m) = r.n /\ m.type = reply
  <2> DEFINE d == [for |-> r.n, challenge |-> NoChallenge]
             m == Message(reply, d)
  <2>1. m \in WireMessage /\ wire' = Sent(m)
    BY <1>4, <1>5, SentMessages
  <2>2. d \in Data
    BY DEF Request, Data
  <2>3. d \notin {Nothing, Garbage} /\ d.for = r.n
    BY <2>2, MenuAssumption
  <2>4. m.type = reply /\ m.data = d
    BY DEF Message
  <2> HIDE DEF m, d
  <2>5. For(m) = r.n
    BY <2>3, <2>4 DEF For
  <2>6. QED BY <2>1, <2>4, <2>5
<1>6. QED BY <1>1, <1>2, <1>3, <1>4, <1>5

\* The steps of the server.
LEMMA ServerStepFlow ==
  ASSUME Sound, Asked, Flow, ServerStep
  PROVE  Flow'
<1>1. LinkTypes /\ Framing /\ sent \in Nat /\ left \subseteq 1 .. sent /\ RequestTypes
  BY SoundParts DEF RequestTypes, HistoryTypes
<1>2. UNCHANGED <<rx, listener, torn, at, left, sent>>
  BY ServerFacts DEF clientVars, historyVars
<1>3. \A m \in WireMessage : wire' = Sent(m) => Adds(m)
  BY <1>1, <1>2, LinkSends
<1>4. CASE Others
  <2>1. UNCHANGED <<at, requests, sent, left>> /\ rx' = rx
    BY <1>2, <1>4, OthersSend
  <2>2. CASE wire' = wire
    <3>1. Drains
      BY <2>1, <2>2, HandsDrain
    <3>2. QED BY <1>1, <2>1, <3>1, QuietFlow
  <2>3. ASSUME NEW m \in WireMessage, wire' = Sent(m), For(m) = 0 PROVE Flow'
    <3>1. /\ Messages' = Messages \union {m}
          /\ \A n : n # 0 => (None(n) => None(n)') /\ (One(n) => One(n)')
      BY <1>3, <2>1, <2>3, AddsOne
    <3>2. Queued'
      BY <2>1 DEF Flow, Queued, Awaited
    <3>3. \A o \in Messages' : Replied(o)'
      BY <2>1, <2>3, <3>1 DEF Flow, Replied
    <3>4. ASSUME at' \in Waiting PROVE Awaits'
      <4>1. Awaits /\ sent # 0
        BY <1>1, <2>1, <3>4 DEF Flow, Asked
      <4>2. PICK n : n = sent
        OBVIOUS
      <4>3. (None(n) => None(n)') /\ (One(n) => One(n)') /\ n = sent'
        BY <2>1, <3>1, <4>1, <4>2
      <4>4. (None(sent) => None(sent)') /\ (One(sent) => One(sent)')
        BY <4>2, <4>3 DEF None, One, OnWire, InHand
      <4>5. QED BY <2>1, <4>1, <4>4 DEF Awaits
    <3>5. QED BY <3>2, <3>3, <3>4 DEF Flow
  <2>4. QED BY <1>4, <2>2, <2>3, OthersSend
<1>5. CASE Handle
  <2>1. /\ 1 \in DOMAIN requests /\ Len(requests') = Len(requests) - 1 /\ Len(requests) \in Nat
        /\ \A i \in DOMAIN requests' : i + 1 \in DOMAIN requests /\ requests'[i] = requests[i + 1]
        /\ \A i \in DOMAIN requests' : i \in Nat /\ i >= 1
    <3>1. RequestTypes'
      BY <1>5, ServerFacts DEF ServerStep
    <3>2. DOMAIN requests' = 1 .. Len(requests') /\ Len(requests') \in Nat
      BY <3>1, LenProperties DEF RequestTypes
    <3>3. QED BY <1>1, <1>5, <3>2, HandleFacts, RequestFacts
  <2>2. PICK reply \in Replies[requests[1].type] :
          \/ reply = "nothing" /\ wire' = wire
          \/ \E m \in WireMessage : wire' = Sent(m) /\ For(m) = requests[1].n /\ m.type = reply
    BY <1>5, HandleFacts
  <2>3. ASSUME NEW i \in DOMAIN requests', Awaited(i + 1) PROVE Awaited(i)'
    <3>1. requests'[i] = requests[i + 1] /\ i + 1 = Len(requests)
      BY <2>1, <2>3 DEF Awaited
    <3>2. i = Len(requests')
      BY <2>1, <3>1
    <3>3. QED BY <1>2, <2>3, <3>1, <3>2 DEF Awaited
  <2>4. Queued'
    BY <1>2, <2>1, <2>3 DEF Flow, Queued
  <2>5. requests[1].n \in left \/ Awaited(1)
    BY <2>1 DEF Flow, Queued
  <2>6. Messages' \subseteq Messages \union {m \in Messages' : For(m) = requests[1].n /\ m.type = reply}
    <3>1. CASE wire' = wire
      BY <1>2, <3>1 DEF Messages, Heads
    <3>2. ASSUME NEW m \in WireMessage, wire' = Sent(m), For(m) = requests[1].n, m.type = reply
          PROVE  Messages' \subseteq Messages \union
                                      {o \in Messages' : For(o) = requests[1].n /\ o.type = reply}
      <4>1. Messages' = Messages \union {m}
        BY <1>2, <1>3, <3>2, AddsOne
      <4>2. QED BY <3>2, <4>1
    <3>3. QED BY <2>2, <3>1, <3>2
  <2>7. \A m \in Messages' : Replied(m)'
    <3> TAKE m \in Messages'
    <3>1. CASE m \in Messages
      BY <1>2, <3>1 DEF Flow, Replied
    <3>2. CASE For(m) = requests[1].n /\ m.type = reply
      BY <1>2, <2>2, <2>5, <3>2 DEF Replied, Awaited
    <3>3. QED BY <2>6, <3>1, <3>2
  <2>8. ASSUME at' \in Waiting PROVE Awaits'
    <3>1. Awaits /\ sent # 0 /\ sent \notin left
      BY <1>1, <1>2, <2>8 DEF Flow, Asked, Awaits
    <3>2. PICK n : n = sent
      OBVIOUS
    <3>3. CASE requests[1].n = sent
      <4>1. Len(requests) = 1
        BY <2>5, <3>1, <3>3 DEF Awaited
      <4>2. DOMAIN requests' = {}
        BY <2>1, <4>1, <1>1, RequestFacts
      <4>3. None(n)
        BY <2>1, <3>1, <3>2, <3>3 DEF Awaits, None, OnWire, InHand
      <4>4. One(n)'
        <5>1. CASE wire' = wire
          BY <1>2, <4>3, <5>1 DEF None, One, OnWire, InHand
        <5>2. CASE \E m \in WireMessage : wire' = Sent(m)
          BY <1>2, <1>3, <4>3, <5>2, AddsOne
        <5>3. QED BY <2>2, <5>1, <5>2
      <4>5. One(sent)'
        BY <1>2, <3>2, <4>4 DEF One, OnWire, InHand
      <4>6. QED BY <1>2, <3>1, <4>2, <4>5 DEF Awaits
    <3>4. CASE requests[1].n # sent
      <4>1. (None(n) => None(n)') /\ (One(n) => One(n)')
        <5>1. CASE wire' = wire
          BY <1>2, <5>1 DEF None, One, OnWire, InHand
        <5>2. ASSUME NEW m \in WireMessage, wire' = Sent(m), For(m) = requests[1].n
              PROVE  (None(n) => None(n)') /\ (One(n) => One(n)')
          BY <1>2, <1>3, <3>2, <3>4, <5>2, AddsOne
        <5>3. QED BY <2>2, <5>1, <5>2
      <4>2. (None(sent) => None(sent)') /\ (One(sent) => One(sent)')
        BY <1>2, <3>2, <4>1 DEF None, One, OnWire, InHand
      <4>3. (\E i \in DOMAIN requests' : requests'[i].n = sent') =>
              \E i \in DOMAIN requests : requests[i].n = sent
        BY <1>2, <2>1
      <4>4. QED BY <1>2, <3>1, <4>2, <4>3 DEF Awaits
    <3>5. QED BY <3>3, <3>4
  <2>9. QED BY <2>4, <2>7, <2>8 DEF Flow
<1>6. QED BY <1>4, <1>5 DEF ServerStep

\* Whoever waits for an answer has asked.
LEMMA MainStepAsked ==
  ASSUME Sound, Asked, MainStep
  PROVE  Asked'
<1>1. sent \in Nat /\ RequestTypes /\ sent <= sent' /\ sent' \in Nat
  BY SoundParts, MainStepSends DEF RequestTypes
<1>2. CASE at \in Waiting
  BY <1>1, <1>2 DEF Asked
<1>3. CASE at \notin Waiting
  <2>1. {"spectate", "first_board", "refresh"} \subseteq Waiting
    BY Tables
  <2>2. (\E command \in Commands : Ask(command)) \/ Refresh \/ AutoRefresh
    BY <1>3, <2>1 DEF MainStep, Show, StartWatching, GiveUp, Meanwhile, KeepWatching, Expelled
  <2>3. sent' = sent + 1
    BY <2>2 DEF Ask, Refresh, AutoRefresh, Asks, Sends
  <2>4. QED BY <1>1, <2>3 DEF Asked
<1>4. QED BY <1>2, <1>3

-----------------------------------------------------------------------------
(* The spectator.                                                           *)

\* What waits at the server without anybody who waits for the answer was sent so.
LEMMA NextUnheard ==
  ASSUME Sound, Asked, Flow, LeftUnheard, NEW type \in Requests,
         NEW c \in ChallengeRecord \union {NoChallenge}, Sends(type, c),
         left' = left \/ (left' = left \union {sent'} /\ type \in Unheard)
  PROVE  LeftUnheard'
<1>1. RequestTypes /\ sent \in Nat /\ left \subseteq 1 .. sent
  BY SoundParts DEF RequestTypes, HistoryTypes
<1>2. sent' = sent + 1
  BY <1>1, SendsFacts
<1>3. \A i \in DOMAIN requests' : \/ i \in DOMAIN requests /\ requests'[i] = requests[i]
                                  \/ requests'[i].n = sent' /\ requests'[i].type = type
  BY <1>1, NextRequest
<1>4. \A i \in DOMAIN requests : requests[i].n \in left \union {sent}
  BY DEF Flow, Queued, Awaited
<1>5. \A n \in left \union {sent} : n # sent'
  BY <1>1, <1>2
<1>6. sent' \notin left
  BY <1>5
<1>7. SUFFICES ASSUME NEW i \in DOMAIN requests', requests'[i].n \in left'
               PROVE  requests'[i].type \in Unheard
  BY DEF LeftUnheard
<1>8. CASE i \in DOMAIN requests /\ requests'[i] = requests[i]
  <2>1. requests[i].n \in left
    BY <1>4, <1>5, <1>7, <1>8
  <2>2. QED BY <1>8, <2>1 DEF LeftUnheard
<1>9. CASE requests'[i].n = sent' /\ requests'[i].type = type
  BY <1>6, <1>7, <1>9
<1>10. QED BY <1>3, <1>8, <1>9

\* What is asked last is answered to the one who waits.
LEMMA OwnAnswer ==
  ASSUME Sound, ~torn, Asked, Flow, at \in Waiting, rx["main"].at = "done", Taken = sent
  PROVE  /\ rx["main"].err = "success" /\ For(rx["main"].msg) = sent
         /\ rx["main"].msg \in Messages /\ rx["main"].msg \in WireMessage
         /\ rx["main"].msg.type \in Replies[RequestOf(at)]
<1>1. sent # 0 /\ sent \in Nat /\ sent \notin left
  BY SoundParts DEF Asked, RequestTypes, Flow, Awaits
<1>2. rx["main"].err = "success" /\ For(rx["main"].msg) = sent
  BY <1>1 DEF Taken
<1>3. "main" \in Thread
  BY DEF Thread
<1>4. rx["main"].msg \in Messages
  BY <1>3 DEF Messages
<1>5. rx["main"].msg \in WireMessage
  BY <1>2, <1>3, SoundParts DEF Framing, Core, Hand
<1>6. rx["main"].msg.type \in Replies[RequestOf(at)]
  BY <1>1, <1>2, <1>4 DEF Flow, Replied
<1>7. QED BY <1>2, <1>4, <1>5, <1>6

\* The steps of the main thread.
LEMMA MainStepWatch ==
  ASSUME Sound, Asked, ~torn, Flow, Watch, MainStep, ~lost'
  PROVE  Watch'
<1>1. /\ RequestTypes /\ sent \in Nat /\ LeftUnheard /\ watching' = watching
      /\ Commands \subseteq Requests /\ {"get_board", "stop_spectate"} \subseteq Requests
      /\ "stop_spectate" \in Unheard
  BY SoundParts, MainStepPlaces, CommandFacts, Tables DEF RequestTypes, Watch, Unheard
<1>2. /\ {"spectate", "first_board", "refresh"} \subseteq Waiting
      /\ {"menu", "choose_saved", "choose_game", "spectating"} \cap Waiting = {}
  BY Tables
<1>3. Stopping => Stopping'
  <2>1. \A i \in DOMAIN requests : i \in DOMAIN requests' /\ requests'[i] = requests[i]
    <3>1. CASE requests' = requests
      BY <3>1
    <3>2. ASSUME NEW type \in Requests, Sends(type, NoChallenge)
          PROVE  \A i \in DOMAIN requests : i \in DOMAIN requests' /\ requests'[i] = requests[i]
      BY <1>1, <3>2, SendsFacts
    <3>3. QED BY <3>1, <3>2, MainStepSends
  <2>2. QED BY <2>1 DEF Stopping
<1>4. at \in Waiting => rx["main"].at = "done"
  BY MainStepPlaces
<1>5. CASE (\E command \in Commands : Ask(command)) \/ Refresh \/ AutoRefresh
  <2>1. /\ left' = left /\ at \notin Waiting /\ spectator'.active = spectator.active
        /\ \E type \in Requests : Sends(type, NoChallenge)
        /\ at \in {"menu", "choose_saved", "choose_game"} \/ at' = "refresh"
    <3>1. CASE \E command \in Commands : Ask(command)
      BY <1>1, <1>2, <3>1 DEF Ask, Asks, AskedAt, historyVars
    <3>2. CASE Refresh
      BY <1>1, <1>2, <3>2 DEF Refresh, Asks, historyVars
    <3>3. CASE AutoRefresh
      <4>1. spectator'.active = spectator.active
        BY <3>3, SoundParts DEF AutoRefresh, ClientTypes
      <4>2. QED BY <1>1, <1>2, <3>3, <4>1 DEF AutoRefresh, Asks, historyVars
    <3>4. QED BY <1>5, <3>1, <3>2, <3>3
  <2>2. LeftUnheard'
    BY <1>1, <2>1, NextUnheard
  <2>3. ~Accepted
    BY <1>2, <2>1 DEF Accepted
  <2>4. QED BY <1>1, <1>3, <2>1, <2>2, <2>3 DEF Watch, Watches
<1>6. CASE Show
  <2>1. /\ at \in Waiting \ {"spectate"} /\ at' \in After(at) /\ requests' = requests
        /\ left' = left /\ spectator' = spectator
    BY <1>6 DEF Show, Settles
  <2>2. LeftUnheard'
    BY <1>1, <2>1 DEF LeftUnheard
  <2>3. Watches => Watches'
    BY <1>2, <2>1 DEF Watches, After
  <2>4. ~Accepted
    BY <2>1 DEF Accepted
  <2>5. QED BY <1>1, <1>3, <2>1, <2>2, <2>3, <2>4 DEF Watch
<1>7. CASE StartWatching
  <2>1. left' = left /\ Sends("get_board", NoChallenge) /\ at' = "first_board"
    BY <1>7 DEF StartWatching, Asks, Settles
  <2>2. LeftUnheard'
    BY <1>1, <2>1, NextUnheard
  <2>3. QED BY <2>1, <2>2 DEF Watch, Watches
<1>8. CASE GiveUp
  <2>1. /\ at \in Waiting \ {"refresh"} /\ ~Got /\ Returned("main") /\ requests' = requests
        /\ left' = left /\ spectator' = spectator /\ Taken = sent
    BY <1>8 DEF GiveUp, Settles, Failed
  <2>2. LeftUnheard'
    BY <1>1, <2>1 DEF LeftUnheard
  <2>3. /\ rx["main"].err = "success" /\ For(rx["main"].msg) = sent /\ rx["main"].msg \in Messages
        /\ rx["main"].msg.type \in Replies[RequestOf(at)]
    BY <1>4, <2>1, OwnAnswer
  <2>4. rx["main"].msg.type \notin Expected[at]
    BY <2>1, <2>3 DEF Got
  <2>5. at # "first_board"
    BY <2>3, <2>4, Tables DEF RequestOf
  <2>6. ~Accepted
    BY <2>3, <2>4, Tables DEF Accepted
  <2>7. ~Watches
    BY <1>2, <2>1, <2>5 DEF Watches
  <2>8. QED BY <1>1, <1>3, <2>1, <2>2, <2>6, <2>7 DEF Watch
<1>9. CASE Meanwhile
  <2>1. at = "first_board" /\ at' = at /\ requests' = requests /\ left' = left
    BY <1>9 DEF Meanwhile
  <2>2. QED BY <1>1, <2>1 DEF Watch, LeftUnheard, Watches
<1>10. CASE KeepWatching
  <2>1. at \in Waiting /\ rx["main"].err = "timeout" /\ Taken = sent
    BY <1>2, <1>10 DEF KeepWatching, Settles
  <2>2. rx["main"].err = "success"
    BY <1>4, <2>1, OwnAnswer
  <2>3. QED BY <2>1, <2>2
<1>11. CASE Expelled
  <2>1. /\ Sends("stop_spectate", NoChallenge) /\ left' = left \union {sent'}
        /\ spectator'.active = FALSE
    BY <1>11 DEF Expelled, StopWatching
  <2>2. LeftUnheard'
    BY <1>1, <2>1, NextUnheard
  <2>3. Stopping'
    <3>1. /\ Len(requests') \in DOMAIN requests'
          /\ requests'[Len(requests')] = [type |-> "stop_spectate", n |-> sent + 1, challenge |-> NoChallenge]
      BY <1>1, <2>1, SendsFacts
    <3>2. requests'[Len(requests')].type = "stop_spectate"
      BY <3>1
    <3>3. QED BY <3>1, <3>2 DEF Stopping
  <2>4. QED BY <2>1, <2>2, <2>3 DEF Watch
<1>12. QED BY <1>5, <1>6, <1>7, <1>8, <1>9, <1>10, <1>11 DEF MainStep

\* The steps at the prompt.
LEMMA PromptStepWatch ==
  ASSUME Sound, Asked, Flow, Watch, PromptStep
  PROVE  Watch'
<1>1. /\ RequestTypes /\ LeftUnheard /\ watching' = watching /\ at \notin Waiting
      /\ at \in {"menu", "choose_saved", "choose_game", "spectating"} /\ at' \in {"menu", "ended"}
      /\ Unheard \subseteq Requests /\ "spectate" \in Waiting
  BY SoundParts, PromptFacts, Tables DEF Watch, serverVars
<1>2. /\ \/ requests' = requests /\ left' = left
         \/ /\ left' = left \union {sent'}
            /\ \E type \in Unheard, c \in ChallengeRecord \union {NoChallenge} : Sends(type, c)
      /\ at # "spectating" => spectator' = spectator
      /\ at = "spectating" => spectator'.active = FALSE /\ Sends("stop_spectate", NoChallenge)
  <2>1. \/ requests' = requests /\ left' = left
        \/ /\ left' = left \union {sent'}
           /\ \E type \in Unheard, c \in ChallengeRecord \union {NoChallenge} : Sends(type, c)
    BY PromptFacts
  <2>2. CASE at = "spectating"
    <3>1. Leave
      BY <2>2 DEF PromptStep, Cancel, Chat, Disconnect, Respond
    <3>2. QED BY <2>1, <2>2, <3>1 DEF Leave, StopWatching
  <2>3. CASE at # "spectating"
    <3>1. spectator' = spectator
      BY <2>3 DEF PromptStep, Cancel, Chat, Disconnect, Respond, Leave, clientVars
    <3>2. QED BY <2>1, <2>3, <3>1
  <2>4. QED BY <2>2, <2>3
<1>3. LeftUnheard' /\ (Stopping => Stopping')
  <2>1. CASE requests' = requests /\ left' = left
    BY <1>1, <2>1 DEF LeftUnheard, Stopping
  <2>2. ASSUME NEW type \in Unheard, NEW c \in ChallengeRecord \union {NoChallenge},
               Sends(type, c), left' = left \union {sent'}
        PROVE  LeftUnheard' /\ (Stopping => Stopping')
    <3>1. type \in Requests
      BY <1>1
    <3>2. LeftUnheard'
      BY <1>1, <2>2, <3>1, NextUnheard
    <3>3. \A i \in DOMAIN requests : i \in DOMAIN requests' /\ requests'[i] = requests[i]
      BY <1>1, <2>2, <3>1, SendsFacts
    <3>4. QED BY <3>2, <3>3 DEF Stopping
  <2>3. QED BY <1>2, <2>1, <2>2
<1>4. CASE at = "spectating"
  <2>1. Stopping'
    <3>1. "stop_spectate" \in Requests
      BY <1>1 DEF Unheard
    <3>2. /\ Len(requests') \in DOMAIN requests'
          /\ requests'[Len(requests')] = [type |-> "stop_spectate", n |-> sent + 1, challenge |-> NoChallenge]
      BY <1>1, <1>2, <1>4, <3>1, SendsFacts
    <3>3. requests'[Len(requests')].type = "stop_spectate"
      BY <3>2
    <3>4. QED BY <3>2, <3>3 DEF Stopping
  <2>2. QED BY <1>2, <1>3, <1>4, <2>1 DEF Watch
<1>5. CASE at # "spectating"
  <2>1. ~Watches /\ ~Accepted
    BY <1>1, <1>5 DEF Watches, Accepted
  <2>2. QED BY <1>1, <1>2, <1>3, <1>5, <2>1 DEF Watch
<1>6. QED BY <1>4, <1>5

\* The steps of the readers.
LEMMA ReaderStepWatch ==
  ASSUME Sound, Asked, Watch, ~torn', ReaderStep
  PROVE  Watch'
<1>1. UNCHANGED <<at, watching, left, requests, sent>>
  BY ReaderStepSound DEF serverVars
<1>2. spectator'.active = spectator.active
  <2>1. CASE Notified
    BY <2>1, SoundParts DEF Notified, ClientTypes
  <2>2. CASE ~Notified
    BY <2>2 DEF ReaderStep, Rest, clientVars
  <2>3. QED BY <2>1, <2>2
<1>3. Accepted => Accepted'
  <2>1. "spectate" \in Waiting
    BY Tables
  <2>2. \A m \in Messages' : m \in Messages \/ For(m) = 0
    BY ReadersDrain, NoMessageFor DEF Drains
  <2>3. QED BY <1>1, <2>1, <2>2, SoundParts DEF Accepted, Asked, RequestTypes
<1>4. QED BY <1>1, <1>2, <1>3 DEF Watch, LeftUnheard, Watches, Stopping

\* The steps of the server.
LEMMA ServerStepWatch ==
  ASSUME Sound, Asked, Flow, Watch, ServerStep
  PROVE  Watch'
<1>1. LinkTypes /\ Framing /\ sent \in Nat /\ RequestTypes /\ "spectate" \in Waiting
  BY SoundParts, Tables DEF RequestTypes
<1>2. UNCHANGED <<rx, listener, torn, at, spectator, left, sent>>
  BY ServerFacts DEF clientVars, historyVars
<1>3. \A m \in WireMessage : wire' = Sent(m) => Messages' = Messages \union {m}
  BY <1>1, <1>2, LinkSends, AddsOne
<1>4. CASE Others
  <2>1. requests' = requests /\ (watching' => watching)
    <3>1. requests' = requests
      BY <1>4, OthersSend
    <3>2. watching' = watching \/ watching' = FALSE
      BY <1>4 DEF Others, Challenged, Expire, Answered, Push, GameEnds
    <3>3. QED BY <3>1, <3>2
  <2>2. \A m \in Messages' : m \in Messages \/ For(m) = 0
    <3>1. CASE wire' = wire
      BY <1>2, <3>1 DEF Messages, Heads
    <3>2. CASE \E m \in WireMessage : wire' = Sent(m) /\ For(m) = 0
      BY <1>3, <3>2
    <3>3. QED BY <1>4, <3>1, <3>2, OthersSend
  <2>3. Accepted => Accepted'
    BY <1>1, <1>2, <2>1, <2>2 DEF Accepted, Asked
  <2>4. QED BY <1>2, <2>1, <2>3 DEF Watch, LeftUnheard, Watches, Stopping
<1>5. CASE Handle
  <2>1. /\ 1 \in DOMAIN requests /\ requests[1] \in Request
        /\ \A i \in DOMAIN requests' : i + 1 \in DOMAIN requests /\ requests'[i] = requests[i + 1]
        /\ Len(requests') = Len(requests) - 1
    BY <1>5, HandleFacts
  <2>2. PICK reply \in Replies[requests[1].type] :
          /\ \/ reply = "nothing" /\ wire' = wire
             \/ \E m \in WireMessage :
                  wire' = Sent(m) /\ For(m) = requests[1].n /\ m.type = reply
          /\ watching' = IF requests[1].type = "stop_spectate" THEN FALSE
                         ELSE watching \/ reply = "spectate_ack"
    BY <1>5, HandleFacts
  <2>3. LeftUnheard'
    BY <1>2, <2>1 DEF Watch, LeftUnheard
  <2>4. ASSUME Stopping, requests[1].type # "stop_spectate" PROVE Stopping'
    <3>1. PICK i \in DOMAIN requests : requests[i].type = "stop_spectate"
      BY <2>4 DEF Stopping
    <3>2. i # 1
      BY <2>4, <3>1
    <3>3. i - 1 \in DOMAIN requests' /\ requests'[i - 1] = requests[i]
      BY <1>1, <1>2, <1>5, <3>2, TakenFacts DEF Handle
    <3>4. QED BY <3>1, <3>3 DEF Stopping
  <2>5. ASSUME reply = "spectate_ack" PROVE Accepted'
    <3>1. requests[1].type = "spectate"
      BY <2>1, <2>5, ReplyTypes DEF Request
    <3>2. requests[1].n \notin left
      BY <2>1, <3>1 DEF Watch, LeftUnheard, Unheard
    <3>3. Awaited(1)
      BY <2>1, <3>2 DEF Flow, Queued
    <3>4. at = "spectate" /\ Len(requests) = 1 /\ requests[1].n = sent
      BY <3>1, <3>3 DEF Awaited, RequestOf
    <3>5. requests' = <<>>
      <4>1. RequestTypes' /\ Len(requests') = 0
        BY <1>5, <2>1, <3>4, ServerFacts DEF ServerStep
      <4>2. QED BY <4>1, EmptySeq DEF RequestTypes
    <3>6. None(sent)
      BY <1>1, <2>1, <3>4 DEF Flow, Awaits
    <3>7. \A m \in Messages : For(m) # sent
      BY <3>6 DEF None, OnWire, InHand, Messages, Heads
    <3>8. \A m \in Messages' : For(m) = sent => m.type = "spectate_ack"
      BY <1>3, <2>2, <2>5, <3>7
    <3>9. QED BY <1>2, <3>4, <3>5, <3>8 DEF Accepted
  <2>6. requests # <<>>
    BY <1>5 DEF Handle
  <2>7. QED BY <1>2, <2>2, <2>3, <2>4, <2>5, <2>6 DEF Watch, Watches, Accepted
<1>6. QED BY <1>4, <1>5 DEF ServerStep

-----------------------------------------------------------------------------
(* The answers to what was left.                                            *)

\* A request that is left is a new one, and is not answered yet.
LEMMA ClientReplies ==
  ASSUME Sound, Flow, LeftReplies, Drains, left' \subseteq left \union {sent + 1}
  PROVE  LeftReplies'
<1>1. sent \in Nat /\ left \subseteq 1 .. sent
  BY SoundParts DEF RequestTypes, HistoryTypes
<1>2. SUFFICES ASSUME NEW m \in Messages', For(m) \in left' PROVE m.type \in UnheardReplies
  BY DEF LeftReplies, For
<1>3. For(m) # 0
  BY <1>1, <1>2
<1>4. m \in Messages
  BY <1>3, NoMessageFor DEF Drains
<1>5. For(m) \in {0, sent} \union left
  BY <1>4 DEF Flow, Replied
<1>6. For(m) # sent + 1
  BY <1>1, <1>5
<1>7. QED BY <1>2, <1>4, <1>6 DEF LeftReplies

\* The main thread leaves only what it sends, if every answer came.
LEMMA MainStepLeaves ==
  ASSUME Sound, MainStep, ~lost'
  PROVE  left' \subseteq left \union {sent + 1}
<1>1. CASE (\E command \in Commands : Ask(command)) \/ Refresh \/ AutoRefresh \/ Meanwhile
  BY <1>1 DEF Ask, Refresh, AutoRefresh, Meanwhile, historyVars
<1>2. CASE Show \/ StartWatching \/ GiveUp \/ KeepWatching
  BY <1>2 DEF Show, StartWatching, GiveUp, KeepWatching, Settles
<1>3. CASE Expelled
  BY <1>3 DEF Expelled, StopWatching, Sends
<1>4. QED BY <1>1, <1>2, <1>3 DEF MainStep

\* The user leaves the last request, or none.
LEMMA PromptStepLeaves ==
  ASSUME Sound, PromptStep
  PROVE  left' \subseteq left \union {sent + 1}
  BY PromptFacts DEF Sends

\* The server answers a request that was left as nobody hears it.
LEMMA ServerStepReplies ==
  ASSUME Sound, Asked, Watch, LeftReplies, ServerStep
  PROVE  LeftReplies'
<1>1. LinkTypes /\ Framing /\ sent \in Nat /\ left \subseteq 1 .. sent
  BY SoundParts DEF RequestTypes, HistoryTypes
<1>2. UNCHANGED <<rx, listener, torn, left>>
  BY ServerFacts DEF historyVars
<1>3. \A m \in WireMessage : wire' = Sent(m) => Messages' = Messages \union {m}
  BY <1>1, <1>2, LinkSends, AddsOne
<1>4. CASE wire' = wire
  BY <1>2, <1>4 DEF LeftReplies, Messages, Heads
<1>5. ASSUME NEW m \in WireMessage, wire' = Sent(m), For(m) \in left => m.type \in UnheardReplies
      PROVE  LeftReplies'
  BY <1>2, <1>3, <1>5 DEF LeftReplies
<1>6. CASE Others
  <2>1. 0 \notin left
    BY <1>1
  <2>2. QED BY <1>4, <1>5, <1>6, <2>1, OthersSend
<1>7. CASE Handle
  <2>1. PICK reply \in Replies[requests[1].type] :
          \/ wire' = wire
          \/ \E m \in WireMessage : wire' = Sent(m) /\ For(m) = requests[1].n /\ m.type = reply
    BY <1>7, HandleFacts
  <2>2. requests[1].n \in left => reply \in UnheardReplies
    BY <1>7, <2>1, HandleFacts, UnheardAnswers DEF Watch, LeftUnheard
  <2>3. QED BY <1>4, <1>5, <2>1, <2>2
<1>8. QED BY <1>6, <1>7 DEF ServerStep

-----------------------------------------------------------------------------
(* What nobody asked for.                                                   *)

\* The steps of the client.
LEMMA ClientTold ==
  ASSUME Told, Drains
  PROVE  Told'
<1>1. NoMessage.type = "none"
  BY DEF NoMessage, Message
<1>2. QED BY <1>1 DEF Told, Drains, Unasked

\* The steps of the server, which answers requests with a number.
LEMMA ServerStepTold ==
  ASSUME Sound, Asked, Flow, Told, ServerStep
  PROVE  Told'
<1>1. LinkTypes /\ Framing /\ sent \in Nat /\ left \subseteq 1 .. sent
  BY SoundParts DEF RequestTypes, HistoryTypes
<1>2. UNCHANGED <<rx, listener, torn>>
  BY ServerFacts
<1>3. \A m \in WireMessage : wire' = Sent(m) => Messages' = Messages \union {m}
  BY <1>1, <1>2, LinkSends, AddsOne
<1>4. CASE wire' = wire
  BY <1>2, <1>4 DEF Told, Messages, Heads
<1>5. ASSUME NEW m \in WireMessage, wire' = Sent(m), For(m) = 0 => m.type \in Unasked
      PROVE  Told'
  BY <1>3, <1>5 DEF Told
<1>6. CASE Others
  BY <1>4, <1>5, <1>6, OthersSend
<1>7. CASE Handle
  <2>1. requests[1].n # 0
    <3>1. requests[1].n \in left \/ Awaited(1)
      BY <1>7, HandleFacts DEF Flow, Queued
    <3>2. QED BY <1>1, <3>1 DEF Awaited, Asked
  <2>2. wire' = wire \/ \E m \in WireMessage : wire' = Sent(m) /\ For(m) # 0
    BY <1>7, <2>1, HandleFacts
  <2>3. QED BY <1>4, <1>5, <2>2
<1>8. QED BY <1>6, <1>7 DEF ServerStep

-----------------------------------------------------------------------------
(* The challenges.                                                          *)

\* A list of all the challenges that are open stays one if it grows, and no message
\* is lost but those that are dropped or find it full.
OpenStays ==
  ~torn' =>
    /\ \A c \in open' : c \in open \/ Underway(c)'
    /\ \A c \in open : c \in Listed => c \in Listed' \/ c \in answered'
    /\ \A c \in open : Underway(c) => Underway(c)' \/ c \in Listed' \union full' \union dropped'
LEMMA ListStays ==
  ASSUME OpenIsListed, Grows, OpenStays
  PROVE  OpenIsListed'
<1> SUFFICES ASSUME ~torn', NEW c \in open'
             PROVE  c \in Listed' \/ Underway(c)' \/ c \in answered' \union full' \union dropped'
  BY DEF OpenIsListed
<1>1. c \in open \/ Underway(c)'
  BY DEF OpenStays
<1>2. CASE c \in open
  <2>1. c \in Listed \/ Underway(c) \/ c \in answered \union full \union dropped
    BY <1>2 DEF OpenIsListed, Grows
  <2>2. CASE c \in Listed
    BY <1>2, <2>2 DEF OpenStays
  <2>3. CASE Underway(c)
    BY <1>2, <2>3 DEF OpenStays
  <2>4. CASE c \in answered \union full \union dropped
    BY <2>4 DEF Grows
  <2>5. QED BY <2>1, <2>2, <2>3, <2>4
<1>3. QED BY <1>1, <1>2

\* What is on its way stays so.
LEMMA MessagesStay ==
  ASSUME Messages \subseteq Messages', NEW c, Underway(c)
  PROVE  Underway(c)'
  BY DEF Underway, Messages

\* A message of a challenge that a thread handles is listed.
LEMMA ChallengeAdded ==
  ASSUME Sound, NEW m \in ReadMessage, NEW c \in ChallengeRecord,
         m.type = "challenge_received", m.data = About(c),
         IF m.type = "challenge_received" /\ m.data # Garbage
         THEN Add(m.data.challenge) ELSE UNCHANGED <<pending, full>>
  PROVE  c \in Listed' \union full'
<1>1. m.data # Garbage
  <2>1. About(c) \in Data
    BY DEF About, Data
  <2>2. QED BY <2>1, MenuAssumption
<1>2. m.data.challenge = c
  BY DEF About
<1>3. QED BY <1>1, <1>2, AddFacts, SoundParts

\* What a thread handles does not shorten the list.
LEMMA ListGrows ==
  ASSUME Sound, NEW m \in ReadMessage,
         IF m.type = "challenge_received" /\ m.data # Garbage
         THEN Add(m.data.challenge) ELSE UNCHANGED <<pending, full>>
  PROVE  Listed \subseteq Listed'
<1>1. CASE m.type = "challenge_received" /\ m.data # Garbage
  <2>1. m.data.challenge \in ChallengeRecord
    BY <1>1, ToldChallenge
  <2>2. QED BY <1>1, <2>1, AddFacts, SoundParts
<1>2. CASE ~(m.type = "challenge_received" /\ m.data # Garbage)
  BY <1>2 DEF Listed, Used, Slot
<1>3. QED BY <1>1, <1>2

\* The steps of the main thread.
LEMMA MainStepListed ==
  ASSUME Sound, Asked, OpenIsListed, MainStep
  PROVE  OpenIsListed'
<1>1. /\ Grows /\ open' = open /\ wire' = wire /\ rx'["listener"] = rx["listener"]
      /\ open \subseteq ChallengeRecord
  BY MainStepSound, MainStepLink, MainStepPlaces, SoundParts DEF ServerTypes
<1>2. /\ {"spectate", "first_board", "refresh"} \subseteq Waiting
      /\ {"menu", "choose_saved", "choose_game", "spectating"} \cap Waiting = {}
  BY Tables
<1>3. answered' = answered
  BY DEF MainStep, Ask, Show, StartWatching, GiveUp, Meanwhile, Refresh, AutoRefresh, KeepWatching,
         Expelled, historyVars
<1>4. \A m \in Messages : m \in Messages' \/ (at \in Waiting /\ rx["main"].at = "done" /\ m = rx["main"].msg)
  <2>1. Heads' = Heads
    BY <1>1 DEF Heads
  <2>2. "listener" \in Thread /\ Thread = {"main", "listener"}
    BY DEF Thread
  <2>3. rx["main"].at \in {"payload", "done"} => at \in Waiting /\ rx["main"].at = "done"
    BY MainStepPlaces
  <2>4. QED BY <1>1, <2>1, <2>2, <2>3 DEF Messages
<1>5. CASE Meanwhile
  <2>1. PICK m \in ReadMessage :
          /\ m = rx["main"].msg
          /\ IF m.type = "challenge_received" /\ m.data # Garbage
             THEN Add(m.data.challenge) ELSE UNCHANGED <<pending, full>>
    <3>1. rx["main"].msg \in ReadMessage
      BY SoundParts, ReceiverFields DEF LinkTypes, RxTypes, Thread
    <3>2. QED BY <1>5, <3>1 DEF Meanwhile
  <2>2. Listed \subseteq Listed'
    BY <2>1, ListGrows
  <2>3. ASSUME NEW c \in open, Underway(c) PROVE Underway(c)' \/ c \in Listed' \union full'
    <3>1. PICK o \in Messages : o.type = "challenge_received" /\ o.data = About(c)
      BY <2>3 DEF Underway, Messages
    <3>2. CASE o \in Messages'
      BY <3>1, <3>2 DEF Underway, Messages
    <3>3. CASE o = rx["main"].msg
      BY <1>1, <2>1, <2>3, <3>1, <3>3, ChallengeAdded
    <3>4. QED BY <1>4, <3>2, <3>3
  <2>4. QED BY <1>1, <1>3, <2>2, <2>3, ListStays DEF OpenStays
<1>6. CASE ~Meanwhile
  <2>1. pending' = pending
    BY <1>6 DEF MainStep, Ask, Show, StartWatching, GiveUp, Refresh, AutoRefresh, KeepWatching, Expelled
  <2>2. Listed' = Listed
    BY <2>1 DEF Listed, Used, Slot
  <2>3. at \in Waiting => dropped' = dropped \union Drops
    BY <1>2, <1>6 DEF MainStep, Ask, AskedAt, Show, StartWatching, GiveUp, Refresh, AutoRefresh,
                      KeepWatching, Expelled, Settles
  <2>4. ASSUME ~torn', NEW c \in open, Underway(c) PROVE Underway(c)' \/ c \in dropped'
    <3>1. PICK o \in Messages : o.type = "challenge_received" /\ o.data = About(c)
      BY <2>4 DEF Underway, Messages
    <3>2. CASE o \in Messages'
      BY <3>1, <3>2 DEF Underway, Messages
    <3>3. CASE at \in Waiting /\ rx["main"].at = "done" /\ o = rx["main"].msg
      <4>1. rx["main"].err = "success"
        <5>1. Hand("main")
          BY <2>4, MainStepPlaces, SoundParts DEF Framing, Core, Thread
        <5>2. NoMessage.type # "challenge_received"
          BY DEF NoMessage, Message
        <5>3. QED BY <3>1, <3>3, <5>1, <5>2 DEF Hand
      <4>2. About(c) \in Data /\ About(c) # Garbage /\ About(c).challenge = c
        <5>1. c \in ChallengeRecord
          BY <1>1
        <5>2. About(c) \in Data
          BY <5>1 DEF About, Data
        <5>3. QED BY <5>2, MenuAssumption DEF About
      <4>3. c \in Drops
        BY <3>1, <3>3, <4>1, <4>2 DEF Drops, IsNotice, NotificationType
      <4>4. QED BY <2>3, <3>3, <4>3
    <3>4. QED BY <1>4, <3>2, <3>3
  <2>5. QED BY <1>1, <1>3, <2>2, <2>4, ListStays DEF OpenStays
<1>7. QED BY <1>5, <1>6

\* The steps at the prompt: an answer to a challenge is an answer to its sender.
LEMMA PromptStepListed ==
  ASSUME Sound, OpenIsListed, PromptStep
  PROVE  OpenIsListed'
<1>1. Grows /\ open' = open /\ wire' = wire /\ rx' = rx
  BY PromptStepSound, PromptFacts DEF linkVars, serverVars
<1>2. Messages' = Messages
  BY <1>1 DEF Messages, Heads
<1>3. CASE \E c \in Listed : Respond("accept", c) \/ Respond("decline", c)
  <2>1. PICK c \in Listed, type \in {"accept", "decline"} : Respond(type, c)
    BY <1>3
  <2>2. /\ pending' = [s \in Slot |-> IF s \in FirstOf(c) THEN NoChallenge ELSE pending[s]]
        /\ answered' = answered \union {pending[s] : s \in FirstOf(c)}
    BY <2>1 DEF Respond
  <2>3. ASSUME NEW d \in Listed PROVE d \in Listed' \/ d \in answered'
    <3>1. PICK s \in Used : d = pending[s]
      BY <2>3 DEF Listed
    <3>2. CASE s \in FirstOf(c)
      BY <2>2, <3>1, <3>2
    <3>3. CASE s \notin FirstOf(c)
      <4>1. s \in Slot /\ pending'[s] = d /\ d # NoChallenge
        BY <2>2, <3>1, <3>3 DEF Used
      <4>2. s \in Used' /\ pending'[s] = d
        BY <4>1 DEF Used, Slot
      <4>3. QED BY <4>2 DEF Listed
    <3>4. QED BY <3>2, <3>3
  <2>4. QED BY <1>1, <1>2, <2>2, <2>3, ListStays, MessagesStay DEF OpenStays
<1>4. CASE Cancel \/ Chat \/ Leave \/ Disconnect
  <2>1. pending' = pending /\ answered' = answered
    BY <1>4 DEF Cancel, Chat, Leave, Disconnect, clientVars, historyVars
  <2>2. Listed' = Listed
    BY <2>1 DEF Listed, Used, Slot
  <2>3. QED BY <1>1, <1>2, <2>1, <2>2, ListStays, MessagesStay DEF OpenStays
<1>5. QED BY <1>3, <1>4 DEF PromptStep

\* A thread that receives has in its hands what it takes from the stream.
LEMMA TakesKeeps ==
  ASSUME WireTypes, WireTypes', NEW t \in Thread, Takes(t), \A u \in Thread : u # t => rx'[u] = rx[u]
  PROVE  Messages \subseteq Messages'
<1>1. Heads \subseteq Heads' \/ (Heads \subseteq Heads' \union {rx'[t].msg} /\ rx'[t].at \in {"payload", "done"})
  <2>1. CASE Waits(t)
    BY <2>1 DEF Waits, Heads
  <2>2. ASSUME NEW n \in Nat, Shifts(n), NEW j \in DOMAIN wire, wire[j].part = 0, j > n
        PROVE  wire[j].of \in Heads'
    <3>1. j - n \in DOMAIN wire' /\ wire'[j - n] = wire[j]
      BY <2>2 DEF Shifts
    <3>2. QED BY <2>2, <3>1 DEF Heads
  <2>3. DOMAIN wire = 1 .. Len(wire) /\ Len(wire) \in Nat
    BY WireFacts
  <2>4. CASE TakesHeader(t)
    <3>1. Shifts(1) /\ rx'[t].msg = wire[1].of /\ rx'[t].at \in {"payload", "done"}
      BY <2>4 DEF TakesHeader
    <3>2. ASSUME NEW j \in DOMAIN wire, wire[j].part = 0
          PROVE  wire[j].of \in Heads' \union {rx'[t].msg}
      <4>1. j = 1 \/ j > 1
        BY <2>3
      <4>2. QED BY <2>2, <3>1, <3>2, <4>1
    <3>3. QED BY <3>1, <3>2 DEF Heads
  <2>5. CASE TakesPayload(t)
    <3>1. PICK n \in Nat : Shifts(n) /\ \A i \in 1 .. n : i \in DOMAIN wire /\ wire[i].part > 0
      BY <2>5 DEF TakesPayload
    <3>2. ASSUME NEW j \in DOMAIN wire, wire[j].part = 0
          PROVE  wire[j].of \in Heads'
      <4>1. j > n
        <5>1. j \notin 1 .. n
          BY <3>1, <3>2
        <5>2. QED BY <2>3, <5>1
      <4>2. QED BY <2>2, <3>1, <3>2, <4>1
    <3>3. QED BY <3>2 DEF Heads
  <2>6. QED BY <2>1, <2>4, <2>5 DEF Takes
<1>2. rx[t].at \in {"payload", "done"} => rx'[t].at \in {"payload", "done"} /\ rx'[t].msg = rx[t].msg
  BY DEF Takes, Waits, TakesHeader, TakesPayload
<1>3. ASSUME NEW u \in Thread, rx[u].at \in {"payload", "done"}
      PROVE  rx[u].msg \in Messages'
  <2>1. rx'[u].at \in {"payload", "done"} /\ rx'[u].msg = rx[u].msg
    BY <1>2, <1>3
  <2>2. QED BY <2>1 DEF Messages
<1>4. Heads \subseteq Messages'
  BY <1>1 DEF Messages
<1>5. QED BY <1>3, <1>4 DEF Messages

\* The steps of the readers.
LEMMA ReaderStepListed ==
  ASSUME Sound, OpenIsListed, ReaderStep
  PROVE  OpenIsListed'
<1>1. /\ Grows /\ open' = open /\ answered' = answered
      /\ LinkTypes /\ Framing /\ WireTypes /\ RxTypes /\ open \subseteq ChallengeRecord
  BY ReaderStepSound, SoundParts DEF serverVars, LinkTypes, ServerTypes
<1>2. ASSUME NEW t \in Thread, Receive(t), Rest, ~torn' PROVE OpenIsListed'
  <2>1. WireTypes' /\ Takes(t) /\ \A u \in Thread : u # t => rx'[u] = rx[u]
    BY <1>1, <1>2, ReceiveFrames
  <2>2. Messages \subseteq Messages'
    BY <1>1, <2>1, TakesKeeps
  <2>3. Listed' = Listed
    BY <1>2 DEF Rest, clientVars, Listed, Used, Slot
  <2>4. QED BY <1>1, <2>2, <2>3, ListStays, MessagesStay DEF OpenStays
<1>3. ASSUME Listen, Rest, ~torn' PROVE OpenIsListed'
  <2>1. /\ wire' = wire /\ rx'["main"] = rx["main"] /\ torn' = torn
        /\ ~torn => \A m \in WireMessage : ~Holds("listener", m)
    BY <1>1, <1>3, ListenFrames
  <2>2. Heads' = Heads /\ Thread = {"main", "listener"}
    BY <2>1 DEF Heads, Thread
  <2>3. ASSUME rx["listener"].at \in {"payload", "done"} PROVE rx["listener"].msg.type = "none"
    <3>1. Hand("listener")
      BY <1>1, <1>3, <2>1, <2>2 DEF Framing, Core
    <3>2. rx["listener"].msg = NoMessage
      BY <1>3, <2>1, <2>3, <3>1 DEF Hand, Holds
    <3>3. QED BY <3>2 DEF NoMessage, Message
  <2>4. ASSUME NEW c, Underway(c) PROVE Underway(c)'
    <3>1. PICK o \in Messages : o.type = "challenge_received" /\ o.data = About(c)
      BY <2>4 DEF Underway, Messages
    <3>2. o \in Messages'
      BY <2>1, <2>2, <2>3, <3>1 DEF Messages
    <3>3. QED BY <3>1, <3>2 DEF Underway, Messages
  <2>5. Listed' = Listed
    BY <1>3 DEF Rest, clientVars, Listed, Used, Slot
  <2>6. QED BY <1>1, <2>4, <2>5, ListStays DEF OpenStays
<1>4. CASE Notified
  <2>1. PICK m \in ReadMessage :
          /\ m = rx["listener"].msg /\ Handles(m)
          /\ IF m.type = "challenge_received" /\ m.data # Garbage
             THEN Add(m.data.challenge) ELSE UNCHANGED <<pending, full>>
    <3>1. rx["listener"].msg \in ReadMessage
      BY <1>1, ReceiverFields DEF RxTypes, Thread
    <3>2. QED BY <1>4, <3>1 DEF Notified
  <2>2. wire' = wire /\ rx'["main"] = rx["main"]
    BY <1>1, <2>1, HandlesFrames
  <2>3. Heads' = Heads /\ Thread = {"main", "listener"}
    BY <2>2 DEF Heads, Thread
  <2>4. ASSUME NEW c \in open, Underway(c) PROVE Underway(c)' \/ c \in Listed' \union full'
    <3>1. PICK o \in Messages : o.type = "challenge_received" /\ o.data = About(c)
      BY <2>4 DEF Underway, Messages
    <3>2. CASE o = m
      BY <1>1, <2>1, <2>4, <3>1, <3>2, ChallengeAdded
    <3>3. CASE o # m
      <4>1. o \in Messages'
        BY <2>1, <2>2, <2>3, <3>1, <3>3 DEF Messages
      <4>2. QED BY <3>1, <4>1 DEF Underway, Messages
    <3>4. QED BY <3>2, <3>3
  <2>5. Listed \subseteq Listed'
    BY <2>1, ListGrows
  <2>6. QED BY <1>1, <2>4, <2>5, ListStays DEF OpenStays
<1>5. ASSUME torn' PROVE OpenIsListed'
  BY <1>5 DEF OpenIsListed
<1>6. QED BY <1>2, <1>3, <1>4, <1>5 DEF ReaderStep

\* The steps of the server.
LEMMA ServerStepListed ==
  ASSUME Sound, OpenIsListed, ServerStep
  PROVE  OpenIsListed'
<1>1. /\ Grows /\ UNCHANGED <<rx, listener, torn, clientVars, historyVars>>
      /\ LinkTypes /\ Framing /\ ServerTypes
  BY ServerStepSound, ServerFacts, SoundParts
<1>2. answered' = answered /\ Listed' = Listed
  BY <1>1 DEF clientVars, historyVars, Listed, Used, Slot
<1>3. \A m \in WireMessage : wire' = Sent(m) => Messages' = Messages \union {m}
  BY <1>1, LinkSends, AddsOne
<1>4. Messages \subseteq Messages'
  <2>1. CASE wire' = wire
    BY <1>1, <2>1 DEF Messages, Heads
  <2>2. CASE \E m \in WireMessage : wire' = Sent(m)
    BY <1>3, <2>2
  <2>3. QED BY <2>1, <2>2, ServerFacts
<1>5. \A c \in open' : c \in open \/ Underway(c)'
  <2>1. CASE \E p \in Challenger : Challenged(p)
    <3>1. PICK c \in ChallengeRecord :
            open' = open \union {c} /\ wire' = Sent(Message("challenge_received", About(c)))
      BY <1>1, <2>1, ChallengeTypes
    <3>2. Message("challenge_received", About(c)) \in Messages'
      BY <1>3, <3>1, SentMessages
    <3>3. Underway(c)'
      BY <3>2 DEF Underway, Messages, Message
    <3>4. QED BY <3>1, <3>3
  <2>2. CASE Expire \/ Answered \/ Push \/ GameEnds
    BY <2>2 DEF Expire, Answered, Push, GameEnds
  <2>3. CASE Handle
    BY <2>3, HandleFacts
  <2>4. QED BY <2>1, <2>2, <2>3 DEF ServerStep, Others
<1>6. QED BY <1>1, <1>2, <1>4, <1>5, ListStays, MessagesStay DEF OpenStays

-----------------------------------------------------------------------------
(* The invariant.                                                           *)

\* It holds when the client is in the menu and nothing is sent.
LEMMA InitHolds == Init => IInv
<1> SUFFICES ASSUME Init PROVE IInv
  OBVIOUS
<1>1. /\ wire = <<>> /\ torn = FALSE /\ listener = [at |-> "peek", errors |-> 0, retries |-> 0]
      /\ rx = [t \in Thread |-> [at |-> "off", msg |-> NoMessage, left |-> 0, err |-> "none"]]
      /\ at = "menu" /\ pending = [s \in Slot |-> NoChallenge]
      /\ spectator = [active |-> FALSE, updated |-> FALSE]
      /\ requests = <<>> /\ open = {} /\ asked = FALSE /\ watching = FALSE
      /\ sent = 0 /\ others = [challenges |-> 0, notices |-> 0]
      /\ left = {} /\ lost = FALSE /\ answered = {} /\ full = {}
      /\ dropped = {}
  BY DEF Init, LinkInit
<1>2. wire \in Seq(Part) /\ requests \in Seq(Request) /\ DOMAIN wire = {} /\ DOMAIN requests = {}
  BY <1>1
<1>3. WireTypes
  BY <1>1, <1>2 DEF WireTypes
<1>4. /\ 0 \in 0 .. PayloadParts /\ 0 \in 0 .. MaxErrors /\ 0 < MaxErrors /\ 0 \in 0 .. MaxRecvRetries - 1
      /\ 0 \in 0 .. MaxChallenges
  BY Sizes, MenuAssumption
<1>5. \A t \in Thread : rx[t].at = "off"
  BY <1>1
<1>6. RxTypes
  <2>1. [at |-> "off", msg |-> NoMessage, left |-> 0, err |-> "none"] \in Receiver
    BY <1>4, MessageTypes DEF Receiver
  <2>2. QED BY <1>1, <1>5, <2>1 DEF RxTypes
<1>7. ListenerTypes
  BY <1>1, <1>4, <1>5 DEF ListenerTypes, Thread
<1>8. at \notin Waiting
  BY <1>1, Tables
<1>9. ClientTypes
  BY <1>1, <1>5, <1>8 DEF ClientTypes, Thread
<1>10. ServerTypes
  BY <1>1, <1>4 DEF ServerTypes
<1>11. RequestTypes /\ HistoryTypes
  BY <1>1, <1>2 DEF RequestTypes, HistoryTypes
<1>12. Framing
  <2>1. Whole
    BY <1>2 DEF Whole
  <2>2. Start
    BY <1>1 DEF Start
  <2>3. \A t \in Thread : Rest1(t) /\ Hand(t)
    BY <1>5 DEF Rest1, Hand
  <2>4. QED BY <2>1, <2>2, <2>3 DEF Framing, Core
<1>13. Messages = {}
  BY <1>2, <1>5 DEF Messages, Heads
<1>14. Flow /\ Told /\ LeftReplies
  BY <1>2, <1>8, <1>13 DEF Flow, Told, Queued, LeftReplies
<1>15. Watch
  BY <1>1, <1>2 DEF Watch, LeftUnheard
<1>16. Asked /\ OpenIsListed
  BY <1>1, <1>8 DEF Asked, OpenIsListed
<1>17. QED BY <1>3, <1>6, <1>7, <1>9, <1>10, <1>11, <1>12, <1>14, <1>15, <1>16 DEF IInv, Types, Course

\* The steps, by who takes them.
LEMMA Steps ==
  Next => MainStep \/ PromptStep \/ ReaderStep \/ ServerStep
<1>1. Main => MainStep \/ ReaderStep
  BY DEF Main, MainStep, ReaderStep, Thread
<1>2. Listener => ReaderStep
  BY DEF Listener, ReaderStep, Thread
<1>3. User => MainStep \/ PromptStep
  BY DEF User, MainStep, PromptStep
<1>4. QED BY <1>1, <1>2, <1>3 DEF Next, ServerStep

\* The types and the framing are kept by every step.
LEMMA NextSound ==
  ASSUME Sound, Asked, Next
  PROVE  Sound' /\ Grows
  BY Steps, MainStepSound, PromptStepSound, ReaderStepSound, ServerStepSound

\* So is the rest.
LEMMA NextKeeps ==
  ASSUME IInv, Next
  PROVE  IInv'
<1>1. Sound /\ Asked /\ OpenIsListed /\ (~torn => Course)
  BY DEF IInv, Sound
<1>2. Sound' /\ Grows
  BY <1>1, NextSound
<1>3. CASE MainStep
  <2>1. Asked' /\ OpenIsListed'
    BY <1>1, <1>3, MainStepAsked, MainStepListed
  <2>2. ASSUME ~torn' PROVE Course'
    <3>1. ~torn /\ (lost => lost') /\ Flow /\ Told /\ (~lost' => Watch /\ LeftReplies)
      BY <1>1, <1>2, <2>2 DEF Grows, Course
    <3>2. Drains
      BY <1>1, <1>3, MainStepLink, HandsDrain DEF Thread
    <3>3. Flow' /\ Told' /\ (~lost' => Watch')
      BY <1>1, <1>3, <3>1, <3>2, MainStepFlow, MainStepWatch, ClientTold
    <3>4. ~lost' => LeftReplies'
      BY <1>1, <1>3, <3>1, <3>2, MainStepLeaves, ClientReplies
    <3>5. QED BY <3>3, <3>4 DEF Course
  <2>3. QED BY <1>2, <2>1, <2>2 DEF IInv, Sound
<1>4. CASE PromptStep
  <2>1. OpenIsListed'
    BY <1>1, <1>4, PromptStepListed
  <2>2. Asked'
    BY <1>4, PromptFacts, <1>1 DEF Asked
  <2>3. ASSUME ~torn' PROVE Course'
    <3>1. ~torn /\ (lost => lost') /\ Flow /\ Told /\ (~lost' => Watch /\ LeftReplies)
      BY <1>1, <1>2, <2>3 DEF Grows, Course
    <3>2. Drains
      BY <1>1, <1>4, PromptFacts, HandsDrain DEF linkVars
    <3>3. Flow' /\ Told' /\ (~lost' => Watch')
      BY <1>1, <1>4, <3>1, <3>2, PromptStepFlow, PromptStepWatch, ClientTold
    <3>4. ~lost' => LeftReplies'
      BY <1>1, <1>4, <3>1, <3>2, PromptStepLeaves, ClientReplies
    <3>5. QED BY <3>3, <3>4 DEF Course
  <2>4. QED BY <1>2, <2>1, <2>2, <2>3 DEF IInv, Sound
<1>5. CASE ReaderStep
  <2>1. OpenIsListed'
    BY <1>1, <1>5, ReaderStepListed
  <2>2. Asked'
    BY <1>1, <1>5, ReaderStepSound DEF Asked
  <2>3. ASSUME ~torn' PROVE Course'
    <3>1. ~torn /\ (lost => lost') /\ Flow /\ Told /\ (~lost' => Watch /\ LeftReplies)
      BY <1>1, <1>2, <2>3 DEF Grows, Course
    <3>2. Flow' /\ Told' /\ (~lost' => Watch')
      BY <1>1, <1>5, <2>3, <3>1, ReadersDrain, ReaderStepFlow, ReaderStepWatch, ClientTold
    <3>3. Drains /\ left' = left
      BY <1>1, <1>5, <2>3, ReadersDrain, ReaderStepSound
    <3>4. ~lost' => LeftReplies'
      BY <1>1, <3>1, <3>3, ClientReplies
    <3>5. QED BY <3>2, <3>4 DEF Course
  <2>4. QED BY <1>2, <2>1, <2>2, <2>3 DEF IInv, Sound
<1>6. CASE ServerStep
  <2>1. OpenIsListed'
    BY <1>1, <1>6, ServerStepListed
  <2>2. Asked'
    BY <1>1, <1>6, ServerFacts DEF Asked, clientVars
  <2>3. ASSUME ~torn' PROVE Course'
    <3>1. ~torn /\ (lost => lost') /\ Flow /\ Told /\ (~lost' => Watch /\ LeftReplies)
      BY <1>1, <1>2, <2>3 DEF Grows, Course
    <3>2. Flow' /\ Told' /\ (~lost' => Watch')
      BY <1>1, <1>6, <3>1, ServerStepFlow, ServerStepWatch, ServerStepTold
    <3>3. ~lost' => LeftReplies'
      BY <1>1, <1>6, <3>1, ServerStepReplies
    <3>4. QED BY <3>2, <3>3 DEF Course
  <2>4. QED BY <1>2, <2>1, <2>2, <2>3 DEF IInv, Sound
<1>7. QED BY <1>3, <1>4, <1>5, <1>6, Steps

\* A step that changes nothing.
LEMMA StutterKeeps ==
  ASSUME IInv, UNCHANGED vars
  PROVE  IInv'
<1>1. /\ UNCHANGED linkVars /\ wire' = wire /\ rx' = rx /\ torn' = torn
      /\ UNCHANGED <<at, pending, spectator, requests, open, asked, watching, sent, others,
                     left, lost, crossed, answered, full, dropped>>
  BY DEF vars, linkVars, clientVars, serverVars, historyVars
<1>2. /\ LinkTypes /\ Framing /\ ClientTypes /\ ServerTypes /\ RequestTypes /\ HistoryTypes
      /\ sent \in Nat /\ Asked /\ OpenIsListed /\ (~torn => Course)
  BY DEF IInv, Types, LinkTypes, RequestTypes
<1>3. LinkTypes' /\ Framing'
  BY <1>1, <1>2, LinkStays
<1>4. ClientTypes' /\ ServerTypes' /\ RequestTypes' /\ HistoryTypes' /\ Asked'
  BY <1>1, <1>2 DEF ClientTypes, ServerTypes, RequestTypes, HistoryTypes, Asked, Slot
<1>5. Drains /\ Messages' = Messages /\ Listed' = Listed
  BY <1>1, HandsDrain DEF Messages, Heads, Listed, Used, Slot
<1>6. OpenIsListed'
  BY <1>1, <1>2, <1>5, ListStays, MessagesStay DEF Grows, OpenStays
<1>7. (Flow => Flow') /\ (Told => Told')
  BY <1>1, <1>2, <1>5, QuietFlow, ClientTold
<1>8. Watch => Watch'
  BY <1>1, <1>5 DEF Watch, LeftUnheard, Watches, Stopping, Accepted
<1>9. LeftReplies => LeftReplies'
  BY <1>1, <1>5 DEF LeftReplies, For
<1>10. Course => Course'
  BY <1>1, <1>7, <1>8, <1>9 DEF Course
<1>11. QED BY <1>1, <1>2, <1>3, <1>4, <1>6, <1>10 DEF IInv, Types, LinkTypes

THEOREM InvariantHolds == Spec => []IInv
<1>1. IInv /\ [Next]_vars => IInv'
  BY NextKeeps, StutterKeeps
<1>2. QED BY InitHolds, <1>1, PTL DEF Spec

-----------------------------------------------------------------------------
(* The theorems.                                                            *)

\* The variables have their types: among others, the main thread is in a call of
\* the receiver whenever a command waits, and no request is left that was not sent.
THEOREM MenuTyped == Spec => []TypeOK
<1>1. IInv => TypeOK
  <2> SUFFICES ASSUME IInv PROVE TypeOK
    OBVIOUS
  <2>1. WireTypes /\ RxTypes /\ ListenerTypes /\ ClientTypes /\ ServerTypes /\ HistoryTypes
    BY DEF IInv, Types
  <2>2. \A i \in DOMAIN wire : wire[i].part \in 0 .. Payload(wire[i].of)
    BY <2>1, WireFacts
  <2>3. \A t \in Thread :
          /\ rx[t].at \in {"off", "select", "header", "payload", "done"}
          /\ rx[t].err \in {"none", "success", "timeout", "serialization"}
          /\ rx[t].left \in 0 .. PayloadParts
          /\ rx[t].at = "payload" => rx[t].left > 0
    <3> TAKE t \in Thread
    <3>1. /\ rx[t].at \in {"off", "select", "header", "payload", "done"}
          /\ rx[t].err \in {"none", "success", "timeout", "serialization"}
          /\ rx[t].left \in 0 .. PayloadParts
          /\ rx[t].at = "payload" => rx[t].left \in 1 .. Payload(rx[t].msg)
      BY <2>1, ReceiverFields
    <3>2. Payload(rx[t].msg) \in Nat
      BY PayloadSize
    <3>3. QED BY <3>1, <3>2
  <2>4. LinkTypeOK
    BY <2>1, <2>2, <2>3, ListenerFields DEF LinkTypeOK, ListenerTypes
  <2>5. QED BY <2>1, <2>4 DEF TypeOK, ClientTypes, ServerTypes, HistoryTypes
<1>2. QED BY <1>1, InvariantHolds, PTL

\* The commands of the client and their type checks: what a command shows answers
\* its own request; or it is the acknowledgment or the error of a request that nobody
\* waited for, or the error that tells of a declined challenge; or a command has gone
\* on without its answer.  Whichever of the two threads reads first.
THEOREM AnswersShown == Spec => AnswersAreOwn
<1>1. ASSUME IInv, Show \/ StartWatching
      PROVE  \/ torn \/ Taken = sent
             \/ Taken \in left /\ (lost \/ rx["main"].msg.type \in {"ack", "error"})
             \/ Taken = 0 /\ rx["main"].msg.type = "error"
  <2>1. SUFFICES ASSUME ~torn, Taken # sent
                 PROVE  \/ Taken \in left /\ (lost \/ rx["main"].msg.type \in {"ack", "error"})
                        \/ Taken = 0 /\ rx["main"].msg.type = "error"
    OBVIOUS
  <2>2. Flow /\ Told /\ (~lost => LeftReplies)
    BY <1>1, <2>1 DEF IInv, Course
  <2>3. at \in Waiting /\ Got
    BY <1>1, Tables DEF Show, StartWatching
  <2>4. /\ rx["main"].at = "done" /\ rx["main"].err = "success"
        /\ rx["main"].msg.type \in Expected[at] /\ Taken = For(rx["main"].msg)
    BY <2>3 DEF Got, Returned, Taken
  <2>5. rx["main"].msg \in Messages
    BY <2>4 DEF Messages, Thread
  <2>6. Taken \in {0} \union left
    BY <2>1, <2>2, <2>4, <2>5 DEF Flow, Replied
  <2>7. ASSUME Taken = 0 PROVE rx["main"].msg.type = "error"
    <3>1. rx["main"].msg.type \in Unasked
      BY <2>2, <2>4, <2>5, <2>7 DEF Told
    <3>2. QED BY <2>3, <2>4, <3>1, NoticesAreNoAnswers DEF Unasked
  <2>8. ASSUME Taken \in left, ~lost PROVE rx["main"].msg.type \in {"ack", "error"}
    <3>1. rx["main"].msg.type \in UnheardReplies
      BY <2>2, <2>4, <2>5, <2>8 DEF LeftReplies
    <3>2. QED BY <2>3, <2>4, <3>1, NoticesAreNoAnswers DEF UnheardReplies
  <2>9. QED BY <2>6, <2>7, <2>8
<1>2. IInv /\ [Next]_vars =>
        [Show \/ StartWatching =>
           \/ torn \/ Taken = sent
           \/ Taken \in left /\ (lost \/ rx["main"].msg.type \in {"ack", "error"})
           \/ Taken = 0 /\ rx["main"].msg.type = "error"]_vars
  BY <1>1
<1>3. QED BY <1>2, InvariantHolds, PTL DEF Spec, AnswersAreOwn

\* cmd_spectate_game: whatever path leads back to the menu, with every answer read,
\* the server has no spectator any more once it has read what was sent.
THEOREM MenuIsNoSpectator == Spec => []MenuIsNotWatching
<1>1. IInv => MenuIsNotWatching
  <2> SUFFICES ASSUME IInv, ~lost, ~torn, at \in {"menu", "ended"}, requests = <<>>
               PROVE  ~watching /\ ~spectator.active
    BY DEF MenuIsNotWatching
  <2>1. Watch
    BY DEF IInv, Course
  <2>2. ~Watches /\ ~Accepted /\ ~Stopping
    BY DEF Watches, Accepted, Stopping
  <2>3. QED BY <2>1, <2>2 DEF Watch
<1>2. QED BY <1>1, InvariantHolds, PTL

\* The pending challenges, which two threads list: while messages are whole, one
\* that is open at the server is in the list, or a message of it is on its way, or
\* its entry was taken off by an answer, or found the list full, or the main thread
\* read the notice while it waited for an answer and dropped it.
THEOREM ChallengesAreListed == Spec => []OpenIsListed
<1>1. IInv => OpenIsListed
  BY DEF IInv
<1>2. QED BY <1>1, InvariantHolds, PTL

=============================================================================
