-------------------------- MODULE MqttClientProofs --------------------------
(***************************************************************************)
(* What MqttClient keeps for every number of Lua tasks, messages and       *)
(* faults, every assignment of lengths to messages and every size of the   *)
(* buffer, the ring and the length queue: the sockets are accounted for,   *)
(* the ring is while no length was lost, and, as long as no two tasks used *)
(* out_buffer at once, every packet is one whole message and the messages  *)
(* go out in the order they were built.                                    *)
(***************************************************************************)
EXTENDS MqttClient, SequenceTheorems, FunctionTheorems, FiniteSetTheorems, WellFoundedInduction, TLAPS

(* The sending task outside a message owes nothing; inside one the piece   *)
(* is all that is left, because a length never exceeds the buffer.         *)
SenderOK ==
  /\ snd.pc \in {"dead", "wait", "ping"} => snd.left = 0
  /\ snd.pc \in {"read", "write"} => snd.left > 0 /\ snd.n = snd.left /\ snd.k <= snd.n
  /\ mq \in {"dial", "greet", "await"} => snd.pc = "dead"

(* The message ids given since the last handshake.                         *)
IdsOK == message_id <= built

(* One writer at a time, and the length is still that of its message.      *)
WritersOK ==
  /\ \A v, w \in Busy : v = w
  /\ \A w \in Writer : writer[w].pc = "write" => writer[w].len = length /\ writer[w].k <= length + 1

TypeInv == TypeOK /\ IdsOK /\ SenderOK /\ SocketsAccounted
FramedInv == (Framed => WritersOK) /\ RingAccounted

-----------------------------------------------------------------------------
(* As long as no two tasks used the buffer at once.                        *)

(* The buffer has one user.                                                *)
Exclusive == Busy # {} => ~SenderBusy /\ mq # "greet"

(* It holds the control message, or the one that a writer copies.          *)
Holds(m) == length = MsgLen[m] /\ \A i \in 1 .. MsgLen[m] : out_buffer[i] = <<m, i>>
BufferOK ==
  /\ mq = "greet" \/ snd.pc = "ping" => Holds(0)
  /\ Busy # {} => built # 0 /\ Holds(built)

(* The last message that is not with a writer.                             *)
Passed == IF Busy = {} THEN built ELSE built - 1

(* What the sending task has in hand is message c: the start of it in the  *)
(* buffer, the rest at the head of the ring.                               *)
InHand(c) ==
  /\ snd.left > 0 => /\ c \in 1 .. Passed
                     /\ MsgLen[c] = snd.left
                     /\ \A p \in 1 .. Len(sent) : sent[p] < c
  /\ snd.pc = "read" => \A i \in 1 .. snd.k - 1 : out_buffer[i] = <<c, i>>
  /\ snd.pc = "write" => \A i \in 1 .. snd.left : out_buffer[i] = <<c, i>>
  /\ \A i \in 1 .. Owed : send_rb[i] = <<c, snd.left - Owed + i>>

(* Behind it the ring holds the messages q whose lengths are queued, each  *)
(* from its place in start on, and then what a writer has copied.          *)
Queued(q, start) ==
  /\ start[1] = Owed
  /\ \A j \in 1 .. Len(sendQ) :
       /\ sendQ[j] = MsgLen[q[j]]
       /\ start[j + 1] = start[j] + sendQ[j]
       /\ \A i \in 1 .. sendQ[j] : send_rb[start[j] + i] = <<q[j], i>>
  /\ \A i, j \in 1 .. Len(sendQ) + 1 : i <= j => start[i] <= start[j]

Copied(end) ==
  /\ \A w \in Writer : writer[w].pc = "write" => end + writer[w].k - 1 = Len(send_rb)
  /\ (\A w \in Writer : writer[w].pc # "write") => end = Len(send_rb)
  /\ \A i \in end + 1 .. Len(send_rb) : send_rb[i] = <<built, i - end>>

(* All in the order they were built.                                       *)
Ordered(c, q) ==
  /\ \A j \in 1 .. Len(sendQ) :
       /\ \A p \in 1 .. Len(sent) : sent[p] < q[j]
       /\ snd.left > 0 => c < q[j]
       /\ q[j] <= Passed
  /\ \A i, j \in 1 .. Len(sendQ) : i < j => q[i] < q[j]
  /\ \A p \in 1 .. Len(sent) : sent[p] <= Passed

Stream(c, q, start) ==
  InHand(c) /\ Queued(q, start) /\ Copied(start[Len(sendQ) + 1]) /\ Ordered(c, q)

StreamOK ==
  \E c \in 0 .. MaxMsg, q \in [1 .. Len(sendQ) -> Msg],
     start \in [1 .. Len(sendQ) + 1 -> 0 .. Len(send_rb)] : Stream(c, q, start)

(* What was sent is whole and in order.                                    *)
WireOK == wire # <<>> => \E m \in 0 .. MaxMsg : wire = Whole(m)
SentOK == \A p, q \in 1 .. Len(sent) : p < q => sent[p] < sent[q]

UnhurtInv == Unhurt => Exclusive /\ BufferOK /\ StreamOK /\ WireOK /\ SentOK

-----------------------------------------------------------------------------
(* The steps, with those that build a message taken together.              *)
BuildStep == LuaBuild \/ CallbackBuild \/ ReceiveRequest
QueueStep == \E w \in Writer : WriteBegin(w) \/ WriteByte(w) \/ Enqueue(w)
Talk ==
  \/ ConnectedCallback \/ ReceiveOther \/ (\E id \in Msg : ReceiveSuback(id))
Lose == \E how \in {"closed", "reset"} : LoseLink(how)

LEMMA NextCases ==
  ASSUME Next
  PROVE  \/ BuildStep \/ QueueStep
         \/ ReceiveLength \/ NextPiece \/ MessageSent \/ ReadByte
         \/ SendPiece \/ Tick \/ PingBuild \/ PingSend
         \/ Dial \/ Greet \/ Accepted \/ Refused \/ Talk \/ ReceiveEnd \/ Reap
         \/ Lose
BY Zenon DEF Next, mqtt_queue, mqtt_sending_task, mqtt_task, BuildStep, QueueStep, Talk, Lose

(* Whoever builds a message builds it in the same way.                     *)
LEMMA BuildIs == ASSUME BuildStep PROVE \E w \in Writer, ack \in BOOLEAN : Build(w, ack)
BY Zenon DEF BuildStep, LuaBuild, CallbackBuild, ReceiveRequest, Writer

LEMMA NextBuilt ==
  ASSUME NEW w, NEW ack, Build(w, ack), built \in 0 .. MaxMsg
  PROVE  built' = built + 1 /\ built' \in Msg
<1>1. built < MaxMsg /\ built' = built + 1
  BY Zenon DEF Build
<1> QED BY <1>1, MqttAssumption DEF Msg

(* Laying out a message.                                                   *)
LEMMA LaidTyped ==
  ASSUME NEW m \in 0 .. MaxMsg, out_buffer \in [1 .. BufSize -> Byte]
  PROVE  /\ Laid(m) \in [1 .. BufSize -> Byte]
         /\ MsgLen[m] \in 0 .. BufSize
         /\ \A i \in 1 .. MsgLen[m] : Laid(m)[i] = <<m, i>>
<1>1. BufSize \in Nat /\ MsgLen[m] \in 0 .. BufSize
  BY MqttAssumption
<1>2. ASSUME NEW i \in 1 .. BufSize
      PROVE  (IF i <= MsgLen[m] THEN <<m, i>> ELSE out_buffer[i]) \in Byte
  BY <1>1 DEF Byte
<1>3. Laid(m) \in [1 .. BufSize -> Byte]
  BY <1>2 DEF Laid
<1>4. ASSUME NEW i \in 1 .. MsgLen[m] PROVE Laid(m)[i] = <<m, i>>
  BY <1>1 DEF Laid
<1> QED BY <1>1, <1>3, <1>4

BuildTypes ==
  /\ built \in 0 .. MaxMsg
  /\ out_buffer \in [1 .. BufSize -> Byte]
  /\ length \in 0 .. BufSize
  /\ message_id \in 0 .. MaxMsg /\ ids \in [Msg -> 0 .. MaxMsg]
  /\ IdsOK

LEMMA NextBuildTypes == ASSUME TypeOK, IdsOK, SenderOK, Next PROVE BuildTypes'
<1>0. BuildTypes /\ MaxMsg \in Nat /\ 0 \in 0 .. MaxMsg
  BY MqttAssumption DEF TypeOK, BuildTypes
<1>1. CASE BuildStep
  <2>1. PICK w \in Writer, ack \in BOOLEAN : Build(w, ack)
    BY <1>1, BuildIs, Zenon
  <2>2. built' = built + 1 /\ built' \in 1 .. MaxMsg
    BY <1>0, <2>1 DEF Build, BuildTypes
  <2>3. out_buffer' = Laid(built') /\ length' = MsgLen[built']
    BY <2>1, Zenon DEF Build, Lay
  <2>4. out_buffer' \in [1 .. BufSize -> Byte] /\ length' \in 0 .. BufSize
    BY <1>0, <2>2, <2>3, LaidTyped DEF BuildTypes
  <2>5. AppendId(built')
    BY <2>1, Zenon DEF Build
  <2>6. /\ message_id' \in 0 .. MaxMsg /\ message_id' <= built'
        /\ ids' \in [Msg -> 0 .. MaxMsg]
    <3>1. CASE built' \in Subscribes \union Unsubscribes
      <4>1. message_id' = message_id + 1 /\ ids' = [ids EXCEPT ![built'] = message_id']
        BY <2>5, <3>1, Zenon DEF AppendId
      <4>2. message_id' \in 0 .. MaxMsg /\ message_id' <= built'
        BY <1>0, <2>2, <4>1 DEF BuildTypes, IdsOK
      <4> QED BY <1>0, <4>1, <4>2 DEF BuildTypes
    <3>2. CASE ~(built' \in Subscribes \union Unsubscribes)
      <4>1. UNCHANGED <<message_id, ids>>
        BY <2>5, <3>2, Zenon DEF AppendId
      <4> QED BY <1>0, <2>2, <4>1 DEF BuildTypes, IdsOK
    <3> QED BY <3>1, <3>2
  <2> QED BY <2>2, <2>4, <2>6 DEF BuildTypes, IdsOK
<1>2. CASE ReadByte
  <2>1. Head(send_rb) \in Byte
    BY <1>2, HeadTailProperties DEF ReadByte, TypeOK
  <2>2. out_buffer' = [out_buffer EXCEPT ![snd.k] = Head(send_rb)]
    BY <1>2, Zenon DEF ReadByte
  <2>3. out_buffer' \in [1 .. BufSize -> Byte]
    BY <1>0, <2>1, <2>2 DEF BuildTypes
  <2>4. UNCHANGED <<built, length, message_id, ids>>
    BY <1>2, Zenon DEF ReadByte
  <2> QED BY <1>0, <2>3, <2>4 DEF BuildTypes, IdsOK
<1>3. CASE PingBuild \/ Dial
  <2>1. out_buffer' = Laid(0) /\ length' = MsgLen[0]
    BY <1>3, Zenon DEF PingBuild, Dial, Lay
  <2>2. out_buffer' \in [1 .. BufSize -> Byte] /\ length' \in 0 .. BufSize
    BY <1>0, <2>1, LaidTyped DEF BuildTypes
  <2>3. UNCHANGED <<built, ids>> /\ message_id' \in {message_id, 0}
    BY <1>3 DEF PingBuild, Dial, TaskStep
  <2>4. message_id' \in 0 .. MaxMsg /\ message_id' <= built
    BY <1>0, <2>3 DEF BuildTypes, IdsOK
  <2> QED BY <1>0, <2>2, <2>3, <2>4 DEF BuildTypes, IdsOK
<1>4. CASE \/ QueueStep \/ ReceiveLength \/ NextPiece \/ MessageSent \/ SendPiece \/ Tick \/ PingSend
           \/ Greet \/ Accepted \/ Refused \/ Talk \/ ReceiveEnd \/ Reap \/ Lose
  <2>1. UNCHANGED buildVars
    BY <1>4 DEF QueueStep, WriteBegin, WriteByte, Enqueue, ReceiveLength, NextPiece, MessageSent,
                SendPiece, Tick, PingSend, Greet, Accepted, Refused, Talk, ConnectedCallback,
                ReceiveOther, ReceiveSuback, ReceiveEnd, Reap, Lose, LoseLink, TaskStep, buildVars
  <2> QED BY <1>0, <2>1 DEF buildVars, BuildTypes, IdsOK
<1> QED BY <1>1, <1>2, <1>3, <1>4, NextCases

RingTypes ==
  /\ send_rb \in Seq(Byte) /\ Len(send_rb) <= RingSize
  /\ sendQ \in Seq(0 .. BufSize) /\ Len(sendQ) <= QueueLen

LEMMA NextRingTypes == ASSUME TypeOK, Next PROVE RingTypes'
<1>0. RingTypes /\ Len(send_rb) \in Nat /\ Len(sendQ) \in Nat /\ RingSize \in Nat /\ QueueLen \in Nat
  BY MqttAssumption, LenProperties DEF TypeOK, RingTypes
<1>1. CASE QueueStep
  <2>1. PICK w \in Writer : WriteBegin(w) \/ WriteByte(w) \/ Enqueue(w)
    BY <1>1, Zenon DEF QueueStep
  <2>2. CASE WriteBegin(w)
    BY <1>0, <2>2 DEF WriteBegin, RingTypes
  <2>3. CASE WriteByte(w)
    <3>1. writer[w].k \in 1 .. BufSize
      <4>1. writer[w].k \in 1 .. BufSize + 1 /\ writer[w].len \in 0 .. BufSize
        BY DEF TypeOK
      <4>2. writer[w].k <= writer[w].len /\ BufSize \in Nat
        BY <2>3, MqttAssumption DEF WriteByte
      <4> QED BY <4>1, <4>2
    <3>2. out_buffer[writer[w].k] \in Byte
      BY <3>1 DEF TypeOK
    <3>3. send_rb' = Append(send_rb, out_buffer[writer[w].k]) /\ Len(send_rb) < RingSize
      BY <2>3, Zenon DEF WriteByte, HasSpace
    <3>4. send_rb' \in Seq(Byte) /\ Len(send_rb') = Len(send_rb) + 1
      BY <1>0, <3>2, <3>3, AppendProperties DEF RingTypes
    <3>5. UNCHANGED sendQ
      BY <2>3, Zenon DEF WriteByte
    <3> QED BY <1>0, <3>3, <3>4, <3>5 DEF RingTypes
  <2>4. CASE Enqueue(w)
    <3>1. UNCHANGED send_rb
      BY <2>4, Zenon DEF Enqueue
    <3>2. CASE UNCHANGED sendQ
      BY <1>0, <3>1, <3>2 DEF RingTypes
    <3>3. CASE Len(sendQ) < QueueLen /\ sendQ' = Announced
      <4>1. length \in 0 .. BufSize
        BY DEF TypeOK
      <4>2. sendQ' \in Seq(0 .. BufSize) /\ Len(sendQ') = Len(sendQ) + 1
        BY <1>0, <3>3, <4>1, AppendProperties DEF RingTypes, Announced
      <4> QED BY <1>0, <3>1, <3>3, <4>2 DEF RingTypes
    <3> QED BY <2>4, <3>2, <3>3, Zenon DEF Enqueue
  <2> QED BY <2>1, <2>2, <2>3, <2>4
<1>2. CASE ReceiveLength
  <2>1. UNCHANGED send_rb /\ sendQ # <<>> /\ sendQ' = Tail(sendQ)
    BY <1>2, Zenon DEF ReceiveLength
  <2>2. sendQ' \in Seq(0 .. BufSize) /\ Len(sendQ') = Len(sendQ) - 1
    BY <1>0, <2>1, HeadTailProperties DEF RingTypes
  <2> QED BY <1>0, <2>1, <2>2 DEF RingTypes
<1>3. CASE ReadByte
  <2>1. UNCHANGED sendQ /\ send_rb # <<>> /\ send_rb' = Tail(send_rb)
    BY <1>3, Zenon DEF ReadByte, Rest
  <2>2. send_rb' \in Seq(Byte) /\ Len(send_rb') = Len(send_rb) - 1
    BY <1>0, <2>1, HeadTailProperties DEF RingTypes
  <2> QED BY <1>0, <2>1, <2>2 DEF RingTypes
<1>4. CASE \/ BuildStep \/ NextPiece \/ MessageSent \/ SendPiece \/ Tick \/ PingBuild \/ PingSend
           \/ Dial \/ Greet \/ Accepted \/ Refused \/ Talk \/ ReceiveEnd \/ Reap \/ Lose
  <2>1. UNCHANGED <<send_rb, sendQ>>
    BY <1>4 DEF BuildStep, LuaBuild, CallbackBuild, ReceiveRequest, Build, NextPiece, MessageSent, SendPiece, Tick, PingBuild, PingSend,
                Dial, Greet, Accepted, Refused, Talk, ConnectedCallback, ReceiveOther,
                ReceiveSuback, ReceiveEnd, Reap, Lose, LoseLink, TaskStep
  <2> QED BY <1>0, <2>1 DEF RingTypes
<1> QED BY <1>1, <1>2, <1>3, <1>4, NextCases

WriterTypes ==
  writer \in [Writer -> [pc : {"idle", "built", "write"}, len : 0 .. BufSize,
                         k : 1 .. BufSize + 1]]

LEMMA NextWriterTypes == ASSUME TypeOK, Next PROVE WriterTypes'
<1>0. WriterTypes /\ BufSize \in Nat \ {0} /\ length \in 0 .. BufSize
  BY MqttAssumption DEF TypeOK, WriterTypes
<1>1. CASE BuildStep
  <2>1. PICK w \in Writer, ack \in BOOLEAN : Build(w, ack)
    BY <1>1, BuildIs, Zenon
  <2>2. writer' = writer \/ writer' = [writer EXCEPT ![w].pc = "built"]
    BY <2>1, Zenon DEF Build
  <2> QED BY <1>0, <2>2 DEF WriterTypes
<1>2. CASE QueueStep
  <2>1. PICK w \in Writer : WriteBegin(w) \/ WriteByte(w) \/ Enqueue(w)
    BY <1>2, Zenon DEF QueueStep
  <2>2. CASE WriteBegin(w)
    <3>1. writer' = [writer EXCEPT ![w] = [pc |-> "write", len |-> length, k |-> 1]]
      BY <2>2, Zenon DEF WriteBegin
    <3> QED BY <1>0, <3>1 DEF WriterTypes
  <2>3. CASE WriteByte(w)
    <3>1. writer' = [writer EXCEPT ![w].k = @ + 1] /\ writer[w].k <= writer[w].len
      BY <2>3, Zenon DEF WriteByte
    <3>2. writer[w].k + 1 \in 1 .. BufSize + 1
      BY <1>0, <3>1 DEF WriterTypes
    <3> QED BY <1>0, <3>1, <3>2 DEF WriterTypes
  <2>4. CASE Enqueue(w)
    <3>1. writer' = [writer EXCEPT ![w] = Idle]
      BY <2>4, Zenon DEF Enqueue
    <3> QED BY <1>0, <3>1 DEF WriterTypes, Idle
  <2> QED BY <2>1, <2>2, <2>3, <2>4
<1>3. CASE \/ ReceiveLength \/ NextPiece \/ MessageSent \/ ReadByte \/ SendPiece \/ Tick \/ PingBuild
           \/ PingSend \/ Dial \/ Greet \/ Accepted \/ Refused \/ Talk \/ ReceiveEnd \/ Reap \/ Lose
  <2>1. UNCHANGED writer
    BY <1>3 DEF ReceiveLength, NextPiece, MessageSent, ReadByte, SendPiece, Tick, PingBuild,
                PingSend, Dial, Greet, Accepted, Refused, Talk, ConnectedCallback, ReceiveOther,
                ReceiveSuback, ReceiveEnd, Reap, Lose, LoseLink, TaskStep
  <2> QED BY <1>0, <2>1 DEF WriterTypes
<1> QED BY <1>1, <1>2, <1>3, NextCases

Sender == [pc : {"dead", "wait", "loop", "read", "write", "ping"},
           left : 0 .. BufSize, n : 0 .. BufSize, k : 1 .. BufSize]
Place == {"dial", "greet", "await", "callback", "receive", "reap"}
SenderTypes == snd \in Sender /\ keepalive \in 0 .. Keepalive /\ mq \in Place /\ SenderOK

(* The steps of the sending task inside a message.                         *)
LEMMA SenderSteps ==
  ASSUME TypeOK, SenderOK, ReceiveLength \/ NextPiece \/ ReadByte \/ SendPiece
  PROVE  snd' \in Sender /\ SenderOK' /\ UNCHANGED <<keepalive, mq>>
<1>0. /\ snd \in Sender /\ BufSize \in Nat \ {0}
      /\ snd.left \in 0 .. BufSize /\ snd.n \in 0 .. BufSize /\ snd.k \in 1 .. BufSize
  BY MqttAssumption DEF TypeOK, Sender
<1>1. UNCHANGED <<keepalive, mq>>
  BY Zenon DEF ReceiveLength, NextPiece, ReadByte, SendPiece
<1>2. snd.pc # "dead" /\ mq' \notin {"dial", "greet", "await"}
  BY <1>1 DEF ReceiveLength, NextPiece, ReadByte, SendPiece, SenderOK
<1>3. CASE ReceiveLength
  <2>1. Head(sendQ) \in 0 .. BufSize
    BY <1>3, HeadTailProperties DEF ReceiveLength, TypeOK
  <2>2. snd' = [Fresh EXCEPT !.pc = "loop", !.left = Head(sendQ)]
    BY <1>3, Zenon DEF ReceiveLength
  <2>3. snd' = [pc |-> "loop", left |-> Head(sendQ), n |-> 0, k |-> 1]
    BY <2>2 DEF Fresh
  <2> QED BY <1>0, <1>1, <1>2, <2>1, <2>3 DEF Sender, SenderOK
<1>4. CASE NextPiece
  <2>1. /\ snd.left > 0
        /\ snd' = [snd EXCEPT !.pc = "read", !.n = Lesser(snd.left, BufSize), !.k = 1]
    BY <1>4, Zenon DEF NextPiece
  <2>2. Lesser(snd.left, BufSize) = snd.left
    BY <1>0 DEF Lesser
  <2>3. snd' = [pc |-> "read", left |-> snd.left, n |-> snd.left, k |-> 1]
    BY <1>0, <2>1, <2>2 DEF Sender
  <2>4. snd' \in Sender
    BY <1>0, <2>3 DEF Sender
  <2>5. snd'.pc = "read" /\ snd'.left = snd.left /\ snd'.n = snd.left /\ snd'.k = 1
    BY <2>3
  <2>6. SenderOK'
    BY <1>0, <1>2, <2>1, <2>5 DEF SenderOK
  <2> QED BY <1>1, <2>4, <2>6
<1>5. CASE ReadByte
  <2>1. snd.pc = "read" /\ snd.left > 0 /\ snd.n = snd.left /\ snd.k <= snd.n
    BY <1>5, Zenon DEF ReadByte, SenderOK
  <2>2. snd' = IF snd.k = snd.n THEN [snd EXCEPT !.pc = "write"] ELSE [snd EXCEPT !.k = @ + 1]
    BY <1>5, Zenon DEF ReadByte
  <2>3. CASE snd.k = snd.n
    <3>1. snd' = [snd EXCEPT !.pc = "write"]
      BY <2>2, <2>3
    <3> QED BY <1>0, <1>1, <1>2, <2>1, <2>3, <3>1 DEF Sender, SenderOK
  <2>4. CASE snd.k # snd.n
    <3>1. snd' = [snd EXCEPT !.k = @ + 1]
      BY <2>2, <2>4
    <3> QED BY <1>0, <1>1, <1>2, <2>1, <2>4, <3>1 DEF Sender, SenderOK
  <2> QED BY <2>3, <2>4
<1>6. CASE SendPiece
  <2>1. /\ snd.pc = "write" /\ snd.n = snd.left
        /\ snd' = [snd EXCEPT !.pc = "loop", !.left = @ - snd.n]
    BY <1>6, Zenon DEF SendPiece, SenderOK
  <2>0. snd.left - snd.n = 0
    BY <1>0, <2>1
  <2>2. snd' = [pc |-> "loop", left |-> 0, n |-> snd.n, k |-> snd.k]
    BY <1>0, <2>0, <2>1 DEF Sender
  <2> QED BY <1>0, <1>1, <1>2, <2>2 DEF Sender, SenderOK
<1> QED BY <1>1, <1>3, <1>4, <1>5, <1>6

LEMMA NextSenderTypes == ASSUME TypeOK, SenderOK, Next PROVE SenderTypes'
<1>0. /\ SenderTypes /\ BufSize \in Nat \ {0} /\ Keepalive \in Nat
      /\ snd.left \in 0 .. BufSize /\ snd.n \in 0 .. BufSize /\ snd.k \in 1 .. BufSize
  BY MqttAssumption DEF TypeOK, SenderTypes, Sender, Place
<1>1. Fresh \in Sender /\ Dead \in Sender
  BY <1>0 DEF Fresh, Dead, Sender
<1>2. CASE ReceiveLength \/ NextPiece \/ ReadByte \/ SendPiece
  BY <1>0, <1>2, SenderSteps, Zenon DEF SenderTypes
<1>3. CASE MessageSent \/ PingSend
  <2>1. snd' = Fresh /\ keepalive' \in {keepalive, Keepalive} /\ mq' = mq /\ snd.pc # "dead"
    BY <1>3 DEF MessageSent, PingSend
  <2> QED BY <1>0, <1>1, <2>1 DEF SenderTypes, SenderOK, Fresh
<1>4. CASE Tick
  <2>1. keepalive' = keepalive - 1 /\ keepalive > 0 /\ UNCHANGED <<snd, mq>>
    BY <1>4, Zenon DEF Tick
  <2> QED BY <1>0, <2>1 DEF SenderTypes, SenderOK
<1>5. CASE PingBuild
  <2>1. /\ snd.pc = "wait" /\ snd' = [snd EXCEPT !.pc = "ping"] /\ keepalive' = Keepalive
        /\ mq' = mq
    BY <1>5, Zenon DEF PingBuild
  <2> QED BY <1>0, <2>1 DEF SenderTypes, SenderOK, Sender
<1>6. CASE Dial \/ Greet \/ Refused
  <2>1. /\ mq \in {"dial", "greet", "await"} /\ mq' \in {"dial", "greet", "await"}
        /\ UNCHANGED <<snd, keepalive>>
    BY <1>6 DEF Dial, Greet, Refused, TaskStep
  <2> QED BY <1>0, <2>1 DEF SenderTypes, SenderOK, Place
<1>7. CASE Accepted \/ Reap
  <2>1. /\ (snd' = Fresh /\ mq' = "callback") \/ (snd' = Dead /\ mq' = "dial")
        /\ UNCHANGED keepalive
    BY <1>7, Zenon DEF Accepted, Reap, TaskStep, Spawned
  <2> QED BY <1>0, <1>1, <2>1 DEF SenderTypes, SenderOK, Place, Fresh, Dead
<1>8. CASE BuildStep \/ QueueStep \/ Talk \/ ReceiveEnd \/ Lose
  <2>1. /\ UNCHANGED <<snd, keepalive>>
        /\ mq' = mq \/ mq' \in {"receive", "reap"}
    BY <1>8 DEF BuildStep, LuaBuild, CallbackBuild, ReceiveRequest, Build, QueueStep, WriteBegin, WriteByte, Enqueue, Talk,
                ConnectedCallback, ReceiveOther, ReceiveSuback, ReceiveEnd, Lose, LoseLink,
                TaskStep, sndVars
  <2> QED BY <1>0, <2>1 DEF SenderTypes, SenderOK, Place
<1> QED BY <1>2, <1>3, <1>4, <1>5, <1>6, <1>7, <1>8, NextCases

ConnTypes ==
  /\ link \in {"none", "up", "closed", "reset"}
  /\ sockets \in Nat /\ refused \in Nat /\ faults \in 0 .. MaxFaults
  /\ heard \in BOOLEAN
  /\ SocketsAccounted

(* What keeps the connection variables keeps them accounted for unless it  *)
(* moves mqtt_task past an open or a close.                                *)
LEMMA NextConnTypes == ASSUME TypeOK, SocketsAccounted, Next PROVE ConnTypes'
<1>0. ConnTypes /\ MaxFaults \in Nat /\ mq \in Place
  BY MqttAssumption DEF TypeOK, ConnTypes, Place
<1>1. CASE Dial
  <2>1. /\ mq = "dial" /\ mq' = "greet" /\ sockets' = sockets + 1 /\ link' = "up"
        /\ heard' = FALSE /\ UNCHANGED <<refused, faults>>
    BY <1>1, Zenon DEF Dial, TaskStep
  <2>2. sockets = refused
    BY <1>0, <2>1 DEF ConnTypes, SocketsAccounted
  <2>3. sockets' = refused' + 1 /\ mq' \notin {"dial", "reap"}
    BY <2>1, <2>2
  <2>4. SocketsAccounted'
    BY <2>3, Zenon DEF SocketsAccounted
  <2>5. sockets' \in Nat
    BY <1>0, <2>1 DEF ConnTypes
  <2>6. /\ link' \in {"none", "up", "closed", "reset"} /\ heard' \in BOOLEAN
        /\ refused' \in Nat /\ faults' \in 0 .. MaxFaults
    BY <1>0, <2>1 DEF ConnTypes
  <2> QED BY <2>4, <2>5, <2>6, Zenon DEF ConnTypes
<1>2. CASE Refused
  <2>1. /\ mq = "await" /\ mq' = "dial" /\ refused' = refused + 1 /\ link' = "none"
        /\ UNCHANGED <<sockets, heard>>
    BY <1>2, Zenon DEF Refused, TaskStep
  <2>2. (faults < MaxFaults /\ faults' = faults + 1) \/ faults' = faults
    BY <1>2, Zenon DEF Refused
  <2>3. faults' \in 0 .. MaxFaults
    BY <1>0, <2>2 DEF ConnTypes
  <2> QED BY <1>0, <2>1, <2>3 DEF ConnTypes, SocketsAccounted
<1>3. CASE ReceiveEnd
  <2>1. /\ mq = "receive" /\ mq' = "reap" /\ sockets' = sockets - 1 /\ link' = "none"
        /\ UNCHANGED <<refused, faults, heard>>
    BY <1>3, Zenon DEF ReceiveEnd, TaskStep
  <2> QED BY <1>0, <2>1 DEF ConnTypes, SocketsAccounted
<1>4. CASE Reap
  <2>1. mq = "reap" /\ mq' = "dial" /\ UNCHANGED connVars
    BY <1>4, Zenon DEF Reap, TaskStep
  <2> QED BY <1>0, <2>1 DEF ConnTypes, SocketsAccounted, connVars
<1>5. CASE Greet \/ Accepted \/ Talk
  <2>1. /\ UNCHANGED <<link, sockets, refused, faults>> /\ heard' \in {heard, TRUE}
        /\ mq' = mq \/ (mq \notin {"dial", "reap"} /\ mq' \notin {"dial", "reap"})
    BY <1>5 DEF Greet, Accepted, Talk, ConnectedCallback, ReceiveOther, ReceiveSuback, TaskStep,
                connVars
  <2> QED BY <1>0, <2>1 DEF ConnTypes, SocketsAccounted
<1>6. CASE Lose
  <2>1. PICK how \in {"closed", "reset"} : LoseLink(how)
    BY <1>6, Zenon DEF Lose
  <2>2. /\ link' = how /\ faults < MaxFaults /\ faults' = faults + 1
        /\ UNCHANGED <<sockets, refused, heard, mq>>
    BY <2>1, Zenon DEF LoseLink
  <2> QED BY <1>0, <2>2 DEF ConnTypes, SocketsAccounted
<1>7. CASE \/ BuildStep \/ QueueStep \/ ReceiveLength \/ NextPiece \/ MessageSent \/ ReadByte
           \/ SendPiece \/ Tick \/ PingBuild \/ PingSend
  <2>1. UNCHANGED connVars /\ UNCHANGED mq
    BY <1>7, Zenon DEF BuildStep, LuaBuild, CallbackBuild, ReceiveRequest, Build, QueueStep, WriteBegin, WriteByte, Enqueue, ReceiveLength,
                NextPiece, MessageSent, ReadByte, SendPiece, Tick, PingBuild, PingSend
  <2> QED BY <1>0, <2>1 DEF ConnTypes, SocketsAccounted, connVars
<1> QED BY <1>1, <1>2, <1>3, <1>4, <1>5, <1>6, <1>7, NextCases

Heard == {Nothing, Connack, Request} \union {Suback(id) : id \in Msg}
Pending == [type : {"none", "control", "subscribe", "publish"}, id : 0 .. MaxMsg]
InTypes ==
  /\ in_buffer \in Heard
  /\ pending \in Pending
  /\ lastCb \in {"none", "connected", "subscribe", "disconnected"}

(* The header of what is in the buffer.                                    *)
LEMMA HeaderTyped == ASSUME TypeOK PROVE Header(out_buffer) \in Pending
<1>1. 1 \in 1 .. BufSize
  BY MqttAssumption
<1>2. out_buffer[1] \in (0 .. MaxMsg) \X (1 .. BufSize)
  BY <1>1 DEF TypeOK, Byte
<1>3. out_buffer[1][1] \in 0 .. MaxMsg
  BY <1>2
<1> DEFINE m == out_buffer[1][1]
<1>4. TypeOf(m) \in {"control", "subscribe", "publish"}
  BY Zenon DEF TypeOf
<1>5. (IF m = 0 THEN 0 ELSE ids[m]) \in 0 .. MaxMsg
  <2>1. CASE m = 0
    BY <2>1, MqttAssumption
  <2>2. CASE m # 0
    <3>1. m \in Msg
      BY <1>3, <2>2, MqttAssumption DEF Msg
    <3> HIDE DEF m
    <3> QED BY <2>2, <3>1 DEF TypeOK
  <2> QED BY <2>1, <2>2
<1> HIDE DEF m
<1>6. [type |-> TypeOf(m), id |-> IF m = 0 THEN 0 ELSE ids[m]] \in Pending
  <2> DEFINE t == TypeOf(m)  i == IF m = 0 THEN 0 ELSE ids[m]
  <2>1. t \in {"none", "control", "subscribe", "publish"} /\ i \in 0 .. MaxMsg
    BY <1>4, <1>5
  <2> HIDE DEF t, i
  <2>2. [type |-> t, id |-> i] \in Pending
    BY <2>1 DEF Pending
  <2> QED BY <2>2 DEF t, i
<1> QED BY <1>6 DEF Header, m

LEMMA NextInTypes == ASSUME TypeOK, IdsOK, SenderOK, Next PROVE InTypes'
<1>0. InTypes
  BY DEF TypeOK, InTypes, Heard, Pending
<1>1. CASE BuildStep
  <2>1. PICK w \in Writer, ack \in BOOLEAN : Build(w, ack)
    BY <1>1, BuildIs, Zenon
  <2>2. BuildTypes'
    BY NextBuildTypes
  <2>3. built' \in Msg
    BY <2>1, NextBuilt DEF TypeOK
  <2>4. ids'[built'] \in 0 .. MaxMsg
    BY <2>2, <2>3 DEF BuildTypes
  <2>5. pending' = IF ack THEN pending ELSE [pending EXCEPT !.id = ids'[built']]
    BY <2>1, Zenon DEF Build
  <2>6. pending' \in Pending
    <3> DEFINE i == ids'[built']
    <3>1. pending' = pending \/ pending' = [pending EXCEPT !.id = i]
      BY <2>5
    <3> HIDE DEF i
    <3> QED BY <1>0, <2>4, <3>1 DEF InTypes, Pending, i
  <2>7. in_buffer' \in {in_buffer, Request} /\ UNCHANGED lastCb
    BY <1>1 DEF BuildStep, LuaBuild, CallbackBuild, ReceiveRequest, inVars
  <2> QED BY <1>0, <2>6, <2>7 DEF InTypes, Heard
<1>2. CASE SendPiece \/ PingSend
  <2>1. pending' = Header(out_buffer) /\ UNCHANGED inVars
    BY <1>2, Zenon DEF SendPiece, PingSend
  <2> QED BY <1>0, <2>1, HeaderTyped DEF InTypes, inVars
<1>3. CASE Dial
  <2>1. pending' = [type |-> "control", id |-> 0] /\ UNCHANGED inVars
    BY <1>3, Zenon DEF Dial
  <2> QED BY <1>0, <2>1, MqttAssumption DEF InTypes, inVars, Pending
<1>4. CASE Accepted \/ Refused \/ Talk
  <2>1. UNCHANGED pending /\ lastCb' \in {lastCb, "connected", "subscribe"}
    BY <1>4 DEF Accepted, Refused, Talk, ConnectedCallback, ReceiveOther, ReceiveSuback
  <2>2. in_buffer' \in {in_buffer, Nothing, Connack} \/ \E id \in Msg : in_buffer' = Suback(id)
    BY <1>4, Zenon DEF Accepted, Refused, Talk, ConnectedCallback, ReceiveOther, ReceiveSuback
  <2>3. in_buffer' \in Heard
    BY <1>0, <2>2, Zenon DEF InTypes, Heard
  <2> QED BY <1>0, <2>1, <2>3 DEF InTypes
<1>5. CASE \/ QueueStep \/ ReceiveLength \/ NextPiece \/ MessageSent \/ ReadByte \/ Tick
           \/ PingBuild \/ Greet \/ ReceiveEnd \/ Reap \/ Lose
  <2>1. UNCHANGED inVars /\ UNCHANGED pending
    BY <1>5, Zenon DEF QueueStep, WriteBegin, WriteByte, Enqueue, ReceiveLength, NextPiece, MessageSent,
                ReadByte, Tick, PingBuild, Greet, ReceiveEnd, Reap, Lose, LoseLink
  <2> QED BY <1>0, <2>1 DEF InTypes, inVars
<1> QED BY <1>1, <1>2, <1>3, <1>4, <1>5, NextCases

(* The first n bytes of the buffer.                                        *)
Packet(n) == [i \in 1 .. n |-> out_buffer[i]]

LEMMA PacketTyped ==
  ASSUME TypeOK, NEW n \in 0 .. BufSize
  PROVE  Packet(n) \in Seq(Byte) /\ Len(Packet(n)) = n
<1>1. n \in Nat /\ \A i \in 1 .. n : out_buffer[i] \in Byte
  <2>1. BufSize \in Nat
    BY MqttAssumption
  <2> QED BY <2>1 DEF TypeOK
<1> QED BY <1>1 DEF Packet

WireTypes == wire \in Seq(Byte) /\ sent \in Seq(Msg)

LEMMA TransmitTyped ==
  ASSUME TypeOK, NEW packet \in Seq(Byte), Transmit(packet)
  PROVE  WireTypes'
<1>0. WireTypes
  BY DEF TypeOK, WireTypes
<1>1. CASE ~(link = "up" /\ packet # <<>>)
  <2>1. UNCHANGED wireVars
    BY <1>1, Zenon DEF Transmit
  <2> QED BY <1>0, <2>1 DEF wireVars, WireTypes
<1>2. CASE link = "up" /\ packet # <<>>
  <2>1. packet[1] \in Byte
    BY <1>2, EmptySeq, ElementOfSeq
  <2>2. packet[1][1] \in 0 .. MaxMsg
    BY <2>1 DEF Byte
  <2> DEFINE m == packet[1][1]
  <2>3. wire' = packet /\ sent' = IF m = 0 THEN sent ELSE Append(sent, m)
    BY <1>2, Zenon DEF Transmit
  <2>4. m # 0 => m \in Msg
    BY <2>2, MqttAssumption DEF Msg
  <2> HIDE DEF m
  <2>5. sent' \in Seq(Msg)
    BY <1>0, <2>3, <2>4, AppendProperties DEF WireTypes
  <2> QED BY <2>3, <2>5 DEF WireTypes
<1> QED BY <1>1, <1>2

LEMMA NextWireTypes == ASSUME TypeOK, Next PROVE WireTypes'
<1>0. WireTypes
  BY DEF TypeOK, WireTypes
<1>1. CASE SendPiece
  <2>1. snd.n \in 0 .. BufSize
    BY DEF TypeOK
  <2>2. Transmit(Packet(snd.n))
    BY <1>1, Zenon DEF SendPiece, Piece, Packet
  <2> QED BY <2>1, <2>2, PacketTyped, TransmitTyped
<1>2. CASE PingSend \/ Greet
  <2>1. length \in 0 .. BufSize
    BY DEF TypeOK
  <2>2. Transmit(Packet(length))
    BY <1>2, Zenon DEF PingSend, Greet, Packet
  <2> QED BY <2>1, <2>2, PacketTyped, TransmitTyped
<1>3. CASE \/ BuildStep \/ QueueStep \/ ReceiveLength \/ NextPiece \/ MessageSent \/ ReadByte \/ Tick
           \/ PingBuild \/ Dial \/ Accepted \/ Refused \/ Talk \/ ReceiveEnd \/ Reap \/ Lose
  <2>1. UNCHANGED wireVars
    BY <1>3, Zenon DEF BuildStep, LuaBuild, CallbackBuild, ReceiveRequest, Build, QueueStep,
                WriteBegin, WriteByte, Enqueue, ReceiveLength, NextPiece, MessageSent, ReadByte,
                Tick, PingBuild, Dial, Accepted, Refused, Talk, ConnectedCallback, ReceiveOther,
                ReceiveSuback, ReceiveEnd, Reap, Lose, LoseLink
  <2> QED BY <1>0, <2>1 DEF wireVars, WireTypes
<1> QED BY <1>1, <1>2, <1>3, NextCases

Damage == {"shared", "lengths", "queueFull", "killed"}

(* Damage is never repaired.                                               *)
LEMMA NextDamage ==
  ASSUME TypeOK, Next PROVE damage \subseteq damage' /\ damage' \subseteq Damage
<1>0. damage \subseteq Damage
  BY DEF TypeOK, Damage
<1>1. \A cond : /\ Hurt("shared", cond) \subseteq {"shared"} /\ Hurt("lengths", cond) \subseteq {"lengths"}
                /\ Hurt("killed", cond) \subseteq {"killed"}
  BY DEF Hurt
<1>2. \A others, cond : /\ damage \subseteq LayDamage(others, cond)
                        /\ LayDamage(others, cond) \subseteq damage \union {"shared", "lengths"}
  BY <1>1 DEF LayDamage
<1>3. CASE BuildStep
  <2>1. PICK w \in Writer, ack \in BOOLEAN : Build(w, ack)
    BY <1>3, BuildIs, Zenon
  <2>2. damage' = LayDamage(Busy, SenderBusy \/ mq = "greet")
    BY <2>1, Zenon DEF Build
  <2> QED BY <1>0, <1>2, <2>2 DEF Damage
<1>4. CASE PingBuild \/ Dial
  <2>1. damage' = LayDamage(Busy, FALSE)
    BY <1>4, Zenon DEF PingBuild, Dial
  <2> QED BY <1>0, <1>2, <2>1 DEF Damage
<1>5. CASE NextPiece \/ Reap
  <2>1. damage' \subseteq damage \union {"shared", "killed"} /\ damage \subseteq damage'
    BY <1>1, <1>5 DEF NextPiece, Reap
  <2> QED BY <1>0, <2>1 DEF Damage
<1>6. CASE QueueStep
  <2>1. damage' = damage \/ damage' = damage \union {"queueFull"}
    BY <1>6, Zenon DEF QueueStep, WriteBegin, WriteByte, Enqueue
  <2> QED BY <1>0, <2>1 DEF Damage
<1>7. CASE \/ ReceiveLength \/ MessageSent \/ ReadByte \/ SendPiece \/ Tick \/ PingSend
           \/ Greet \/ Accepted \/ Refused \/ Talk \/ ReceiveEnd \/ Lose
  <2>1. UNCHANGED damage
    BY <1>7, Zenon DEF ReceiveLength, MessageSent, ReadByte, SendPiece, Tick, PingSend, Greet,
                Accepted, Refused, Talk, ConnectedCallback, ReceiveOther, ReceiveSuback,
                ReceiveEnd, Lose, LoseLink
  <2> QED BY <1>0, <2>1
<1> QED BY <1>3, <1>4, <1>5, <1>6, <1>7, NextCases

(* Every variable keeps its type, and the sockets stay accounted for.      *)
LEMMA TypeInit == ASSUME Init PROVE TypeInv
<1> USE MqttAssumption
<1>1. /\ built = 0 /\ length = 0 /\ message_id = 0 /\ ids = [m \in Msg |-> 0]
      /\ built \in 0 .. MaxMsg /\ length \in 0 .. BufSize /\ message_id \in 0 .. MaxMsg
      /\ ids \in [Msg -> 0 .. MaxMsg]
  BY DEF Init
<1>2. out_buffer \in [1 .. BufSize -> Byte]
  BY DEF Init, Byte
<1>3. /\ send_rb \in Seq(Byte) /\ Len(send_rb) <= RingSize
      /\ sendQ \in Seq(0 .. BufSize) /\ Len(sendQ) <= QueueLen
      /\ wire \in Seq(Byte) /\ sent \in Seq(Msg)
  BY EmptySeq DEF Init
<1>4. writer \in [Writer -> [pc : {"idle", "built", "write"}, len : 0 .. BufSize,
                             k : 1 .. BufSize + 1]]
  BY DEF Init, Idle
<1>5. /\ snd \in Sender /\ keepalive \in 0 .. Keepalive /\ mq \in Place
      /\ snd.pc = "dead" /\ snd.left = 0
  BY DEF Init, Dead, Sender, Place
<1>6. /\ link = "none" /\ sockets = 0 /\ refused = 0 /\ faults \in 0 .. MaxFaults
      /\ in_buffer \in {Nothing, Connack} /\ lastCb = "none" /\ heard = FALSE
      /\ damage = {} /\ mq = "dial"
  BY DEF Init
<1>7. pending \in Pending
  BY DEF Init, Nothing, Pending
<1>8. SocketsAccounted
  BY <1>6 DEF SocketsAccounted
<1>9. IdsOK /\ SenderOK
  BY <1>1, <1>5 DEF IdsOK, SenderOK
<1> QED BY <1>1, <1>2, <1>3, <1>4, <1>5, <1>6, <1>7, <1>8, <1>9 DEF TypeInv, TypeOK, Sender, Place, Pending

LEMMA TypeStep == ASSUME TypeInv, [Next]_vars PROVE TypeInv'
<1>1. CASE Next
  <2>1. TypeOK /\ IdsOK /\ SenderOK /\ SocketsAccounted
    BY DEF TypeInv
  <2>2. /\ BuildTypes' /\ RingTypes' /\ WriterTypes' /\ SenderTypes' /\ ConnTypes' /\ InTypes'
        /\ WireTypes' /\ (damage \subseteq Damage)'
    BY <1>1, <2>1, NextBuildTypes, NextRingTypes, NextWriterTypes, NextSenderTypes,
       NextConnTypes, NextInTypes, NextWireTypes, NextDamage
  <2> QED BY <2>2, Zenon DEF TypeInv, TypeOK, BuildTypes, RingTypes, WriterTypes, SenderTypes, ConnTypes,
               InTypes, WireTypes, Damage, Sender, Place, Heard, Pending
<1>2. CASE UNCHANGED vars
  <2>1. /\ UNCHANGED <<built, out_buffer, length, message_id, ids, send_rb, sendQ, writer, snd>>
        /\ UNCHANGED <<keepalive, mq, link, sockets, refused, faults, heard, in_buffer, lastCb>>
        /\ UNCHANGED <<pending, wire, sent, damage>>
    BY <1>2 DEF vars, buildVars, sndVars, connVars, inVars, wireVars
  <2>2. IdsOK' /\ SenderOK' /\ SocketsAccounted'
    BY <2>1 DEF TypeInv, IdsOK, SenderOK, SocketsAccounted
  <2>3. TypeOK'
    BY <2>1 DEF TypeInv, TypeOK
  <2> QED BY <2>2, <2>3, Zenon DEF TypeInv
<1> QED BY <1>1, <1>2

-----------------------------------------------------------------------------
(* Sums of lengths.                                                        *)

LEMMA Least ==
  ASSUME NEW S \in SUBSET Nat, S # {}
  PROVE  \E x \in S : \A y \in S : x <= y
<1>1. PICK x \in S : \A y \in S : ~(<<y, x>> \in OpToRel(<, Nat))
  BY NatLessThanWellFounded, WFMin
<1>2. \A y \in Nat : y < x => <<y, x>> \in OpToRel(<, Nat)
  BY SMT DEF OpToRel
<1>3. ASSUME NEW y \in S PROVE x <= y
  <2>1. x \in Nat /\ y \in Nat
    OBVIOUS
  <2>2. ~(y < x)
    BY <1>1, <1>2, <2>1, Zenon
  <2> QED BY <2>1, <2>2
<1> QED BY <1>3, Zenon

(* f holds the sums of the first elements of s.                            *)
Sums(f, s, n) ==
  /\ f \in [0 .. n -> Nat] /\ f[0] = 0
  /\ \A i \in 1 .. n : f[i] = f[i - 1] + s[i]

LEMMA SumsExist ==
  ASSUME NEW s \in Seq(Nat)
  PROVE  \E f : Sums(f, s, Len(s))
<1>1. Len(s) \in Nat /\ \A i \in 1 .. Len(s) : s[i] \in Nat
  BY LenProperties, ElementOfSeq
<1> DEFINE bad == {n \in 0 .. Len(s) : ~\E f : Sums(f, s, n)}
<1>2. SUFFICES ASSUME bad # {} PROVE FALSE
  BY <1>1
<1>3. bad \in SUBSET Nat
  BY <1>1
<1>4. PICK n \in bad : \A m \in bad : n <= m
  <2> HIDE DEF bad
  <2> QED BY <1>2, <1>3, Least
<1>5. n \in 0 .. Len(s) /\ ~\E f : Sums(f, s, n)
  OBVIOUS
<1>6. n # 0
  <2>1. Sums([i \in 0 .. 0 |-> 0], s, 0)
    BY DEF Sums
  <2> QED BY <1>5, <2>1
<1>7. n - 1 \in 0 .. Len(s) /\ ~(n <= n - 1)
  BY <1>1, <1>5, <1>6
<1>8. n - 1 \notin bad
  <2> HIDE DEF bad
  <2> QED BY <1>4, <1>7
<1>9. PICK f : Sums(f, s, n - 1)
  BY <1>7, <1>8, Zenon
<1> DEFINE g == [i \in 0 .. n |-> IF i = n THEN f[n - 1] + s[n] ELSE f[i]]
<1>10. Sums(g, s, n)
  <2> HIDE DEF bad
  <2>1. n \in Nat \ {0} /\ s[n] \in Nat /\ f[n - 1] \in Nat
    BY <1>1, <1>5, <1>6, <1>9 DEF Sums
  <2>2. g \in [0 .. n -> Nat] /\ g[0] = 0
    BY <1>9, <2>1 DEF Sums
  <2>3. ASSUME NEW i \in 1 .. n PROVE g[i] = g[i - 1] + s[i]
    BY <1>9, <2>1, <2>3 DEF Sums
  <2> HIDE DEF g
  <2> QED BY <2>2, <2>3 DEF Sums
<1> QED BY <1>5, <1>10

LEMMA TotalIs ==
  ASSUME NEW s \in Seq(Nat), NEW f, Sums(f, s, Len(s))
  PROVE  Total(s) = f[Len(s)]
<1> DEFINE n == Len(s)
           sum == CHOOSE g : g = [i \in 0 .. n |-> IF i = 0 THEN 0 ELSE g[i - 1] + s[i]]
<1>1. n \in Nat
  BY LenProperties
<1>2. f = [i \in 0 .. n |-> IF i = 0 THEN 0 ELSE f[i - 1] + s[i]]
  BY <1>1 DEF Sums
<1>3. sum = [i \in 0 .. n |-> IF i = 0 THEN 0 ELSE sum[i - 1] + s[i]]
  <2> HIDE DEF n
  <2> QED BY <1>2, Zenon
<1>4. Total(s) = sum[n]
  BY Zenon DEF Total
<1> HIDE DEF sum
<1> DEFINE bad == {i \in 0 .. n : sum[i] # f[i]}
<1>5. ASSUME bad # {} PROVE FALSE
  <2>1. bad \in SUBSET Nat
    BY <1>1
  <2>2. PICK m \in bad : \A j \in bad : m <= j
    <3> HIDE DEF bad
    <3> QED BY <1>5, <2>1, Least
  <2>3. m \in 0 .. n /\ sum[m] # f[m]
    OBVIOUS
  <2>4. m # 0
    BY <1>1, <1>3, <2>3 DEF Sums
  <2>5. m - 1 \in 0 .. n /\ ~(m <= m - 1)
    BY <1>1, <2>3, <2>4
  <2>6. sum[m - 1] = f[m - 1]
    BY <2>2, <2>5
  <2>7. sum[m] = sum[m - 1] + s[m]
    BY <1>3, <2>3, <2>4
  <2>8. f[m] = f[m - 1] + s[m]
    BY <1>1, <2>3, <2>4 DEF Sums
  <2> QED BY <2>3, <2>6, <2>7, <2>8
<1> QED BY <1>1, <1>4, <1>5

LEMMA TotalEmpty == Total(<<>>) = 0
<1>1. <<>> \in Seq(Nat) /\ Len(<<>>) = 0
  BY EmptySeq
<1>2. Sums([i \in 0 .. 0 |-> 0], <<>>, 0)
  BY DEF Sums
<1>3. Total(<<>>) = [i \in 0 .. 0 |-> 0][0]
  BY <1>1, <1>2, TotalIs
<1> QED BY <1>3

LEMMA TotalAppend ==
  ASSUME NEW s \in Seq(Nat), NEW x \in Nat
  PROVE  Total(s) \in Nat /\ Total(Append(s, x)) = Total(s) + x
<1> DEFINE n == Len(s)  t == Append(s, x)
<1>1. PICK f : Sums(f, s, n)
  BY SumsExist
<1>2. n \in Nat
  BY LenProperties
<1>3. t \in Seq(Nat) /\ Len(t) = n + 1 /\ t[n + 1] = x /\ \A i \in 1 .. n : t[i] = s[i]
  BY <1>2, AppendProperties
<1>4. Total(s) = f[n]
  BY <1>1, TotalIs
<1> HIDE DEF n, t
<1> DEFINE g == [i \in 0 .. n + 1 |-> IF i = n + 1 THEN f[n] + x ELSE f[i]]
<1>5. g \in [0 .. n + 1 -> Nat] /\ g[0] = 0 /\ f[n] \in Nat
  BY <1>1, <1>2 DEF Sums
<1>6. ASSUME NEW i \in 1 .. n + 1 PROVE g[i] = g[i - 1] + t[i]
  BY <1>1, <1>2, <1>3 DEF Sums
<1>7. g[n + 1] = f[n] + x
  BY <1>2
<1> HIDE DEF g
<1>8. Sums(g, t, n + 1)
  BY <1>5, <1>6 DEF Sums
<1>9. Total(t) = g[n + 1]
  BY <1>3, <1>8, TotalIs
<1> QED BY <1>4, <1>5, <1>7, <1>9 DEF n, t

LEMMA TotalTail ==
  ASSUME NEW s \in Seq(Nat), s # <<>>
  PROVE  Total(Tail(s)) \in Nat /\ Total(s) = Head(s) + Total(Tail(s))
<1> DEFINE n == Len(s)  t == Tail(s)  x == s[1]
<1>1. PICK f : Sums(f, s, n)
  BY SumsExist
<1>2. n \in Nat \ {0}
  BY EmptySeq
<1>3. /\ t \in Seq(Nat) /\ Len(t) = n - 1 /\ \A i \in 1 .. n - 1 : t[i] = s[i + 1]
      /\ Head(s) = x
  BY <1>2, HeadTailProperties
<1>4. Total(s) = f[n]
  BY <1>1, TotalIs
<1>5. PICK g : Sums(g, t, n - 1)
  BY <1>3, SumsExist
<1>6. Total(t) = g[n - 1]
  BY <1>3, <1>5, TotalIs
<1>7. x \in Nat
  BY <1>2, ElementOfSeq
<1> HIDE DEF n, t, x
<1> DEFINE h == [i \in 0 .. n |-> IF i = 0 THEN 0 ELSE g[i - 1] + x]
<1>8. h \in [0 .. n -> Nat] /\ h[0] = 0 /\ g[n - 1] \in Nat
  BY <1>2, <1>5, <1>7 DEF Sums
<1>9. ASSUME NEW i \in 1 .. n PROVE h[i] = h[i - 1] + s[i]
  <2>1. CASE i = 1
    BY <1>2, <1>5, <1>7, <2>1 DEF Sums, x
  <2>2. CASE i # 1
    <3>1. i - 1 \in 1 .. n - 1
      BY <1>2, <2>2
    <3> DEFINE j == i - 1
    <3>2. j \in 1 .. n - 1 /\ j + 1 = i /\ j - 1 \in 0 .. n - 1
      BY <1>2, <3>1
    <3>3. g[j] = g[j - 1] + t[j] /\ t[j] = s[i] /\ g[j - 1] \in Nat
      <4> HIDE DEF j
      <4> QED BY <1>3, <1>5, <3>2 DEF Sums
    <3>4. h[i] = g[j] + x /\ h[j] = g[j - 1] + x
      BY <1>2, <3>1
    <3>5. s[i] \in Nat
      BY <1>2, ElementOfSeq DEF n
    <3> QED BY <1>7, <3>3, <3>4, <3>5
  <2> QED BY <2>1, <2>2
<1>10. h[n] = g[n - 1] + x
  BY <1>2
<1> HIDE DEF h
<1>11. Sums(h, s, n)
  BY <1>8, <1>9 DEF Sums
<1>12. Total(s) = h[n]
  BY <1>11, TotalIs DEF n
<1> QED BY <1>3, <1>6, <1>7, <1>8, <1>10, <1>12 DEF t

-----------------------------------------------------------------------------
(* What the sending task owes and what the writers have not announced, as  *)
(* functions of their states.                                              *)
OwedOf(s) ==
  CASE s.pc = "read" -> s.left - (s.k - 1)
    [] s.pc = "write" -> s.left - s.n
    [] OTHER -> s.left

SenderShape(s) ==
  /\ s.pc \in {"dead", "wait", "ping"} => s.left = 0
  /\ s.pc \in {"read", "write"} => s.left > 0 /\ s.n = s.left /\ s.k <= s.n

LEMMA OwedIs == Owed = OwedOf(snd) /\ Owed' = OwedOf(snd')
BY Zenon DEF Owed, OwedOf

LEMMA OwedCases ==
  ASSUME NEW s \in Sender, SenderShape(s)
  PROVE  /\ s.pc = "read" => OwedOf(s) = s.left - (s.k - 1) /\ OwedOf(s) > 0
         /\ s.pc = "loop" => OwedOf(s) = s.left
         /\ s.pc \notin {"read", "loop"} => OwedOf(s) = 0
         /\ OwedOf(s) \in 0 .. s.left
<1>1. /\ s.left \in 0 .. BufSize /\ s.n \in 0 .. BufSize /\ s.k \in 1 .. BufSize
      /\ s.pc \in {"dead", "wait", "loop", "read", "write", "ping"} /\ BufSize \in Nat
  BY MqttAssumption DEF Sender
<1>2. CASE s.pc = "read"
  BY <1>1, <1>2 DEF OwedOf, SenderShape
<1>3. CASE s.pc = "write"
  <2>1. OwedOf(s) = s.left - s.n
    BY <1>3 DEF OwedOf
  <2> QED BY <1>1, <1>3, <2>1 DEF SenderShape
<1>4. CASE s.pc \notin {"read", "write"}
  <2>1. OwedOf(s) = s.left
    BY <1>4 DEF OwedOf
  <2> QED BY <1>1, <1>4, <2>1 DEF SenderShape
<1> QED BY <1>2, <1>3, <1>4

UnannouncedOf(wr) ==
  {b \in Writer \X (1 .. BufSize) : wr[b[1]].pc = "write" /\ b[2] < wr[b[1]].k}

LEMMA UnannouncedIs ==
  Unannounced = UnannouncedOf(writer) /\ Unannounced' = UnannouncedOf(writer')
BY Zenon DEF Unannounced, UnannouncedOf

LEMMA UnannouncedNone ==
  ASSUME NEW wr, \A w \in Writer : wr[w].pc # "write"
  PROVE  Cardinality(UnannouncedOf(wr)) = 0
<1>1. UnannouncedOf(wr) = {}
  BY DEF UnannouncedOf
<1> QED BY <1>1, FS_EmptySet

(* One writer that has copied n bytes.                                     *)
LEMMA UnannouncedOne ==
  ASSUME NEW wr, NEW w \in Writer, NEW n \in 0 .. BufSize,
         wr[w].pc = "write", wr[w].k = n + 1,
         \A v \in Writer : v # w => wr[v].pc # "write"
  PROVE  Cardinality(UnannouncedOf(wr)) = n
<1> DEFINE bytes == UnannouncedOf(wr)
           f == [i \in 1 .. n |-> <<w, i>>]
<1>1. n \in Nat /\ BufSize \in Nat
  BY MqttAssumption
<1>2. \A i \in 1 .. n : <<w, i>> \in bytes
  BY <1>1 DEF UnannouncedOf
<1>3. ASSUME NEW b \in bytes PROVE \E i \in 1 .. n : b = <<w, i>>
  <2>1. b \in Writer \X (1 .. BufSize) /\ wr[b[1]].pc = "write" /\ b[2] < wr[b[1]].k
    BY DEF UnannouncedOf
  <2>2. b[1] = w /\ b[2] \in 1 .. n /\ b = <<b[1], b[2]>>
    BY <1>1, <2>1
  <2> QED BY <2>2
<1> HIDE DEF bytes
<1>4. f \in Bijection(1 .. n, bytes)
  <2>1. f \in [1 .. n -> bytes] /\ \A b \in bytes : \E i \in 1 .. n : f[i] = b
    BY <1>2, <1>3
  <2>2. \A i, j \in 1 .. n : f[i] = f[j] => i = j
    OBVIOUS
  <2> HIDE DEF f
  <2> QED BY <2>1, <2>2 DEF Bijection, Injection, Surjection, IsInjective
<1>5. IsFiniteSet(1 .. n) /\ Cardinality(1 .. n) = n
  BY <1>1, FS_Interval
<1>6. Cardinality(bytes) = Cardinality(1 .. n)
  BY <1>4, <1>5, FS_Bijection DEF ExistsBijection
<1> QED BY <1>5, <1>6 DEF bytes

(* A message that is laid out while somebody else is busy breaks the       *)
(* framing.                                                                *)
LEMMA LayFramed ==
  ASSUME NEW others, NEW cond, damage' = LayDamage(others, cond)
  PROVE  /\ Framed' => others = {}
         /\ Unhurt' => ~cond
BY DEF LayDamage, Hurt, Framed, Unhurt

LEMMA Undamaged ==
  ASSUME TypeOK, Next PROVE (Framed' => Framed) /\ (Unhurt' => Unhurt) /\ (Unhurt => Framed)
BY NextDamage DEF Framed, Unhurt

LEMMA NextWriters ==
  ASSUME TypeOK, WritersOK, Next, Framed'
  PROVE  WritersOK'
<1>0. /\ WritersOK /\ WriterTypes /\ length \in 0 .. BufSize /\ BufSize \in Nat
      /\ DOMAIN writer = Writer
  BY MqttAssumption DEF TypeOK, WriterTypes
<1>1. CASE BuildStep
  <2>1. PICK w \in Writer, ack \in BOOLEAN : Build(w, ack)
    BY <1>1, BuildIs, Zenon
  <2>2. Busy = {}
    <3>1. damage' = LayDamage(Busy, SenderBusy \/ mq = "greet")
      BY <2>1, Zenon DEF Build
    <3> QED BY <3>1, LayFramed
  <2>3. writer' = writer \/ writer' = [writer EXCEPT ![w].pc = "built"]
    BY <2>1, Zenon DEF Build
  <2>4. \A v \in Writer : writer'[v].pc = "idle" \/ (v = w /\ writer'[v].pc = "built")
    BY <1>0, <2>2, <2>3 DEF Busy, WriterTypes
  <2> QED BY <2>4 DEF WritersOK, Busy
<1>2. CASE PingBuild \/ Dial
  <2>1. damage' = LayDamage(Busy, FALSE) /\ UNCHANGED writer
    BY <1>2 DEF PingBuild, Dial, TaskStep
  <2>2. Busy = {}
    BY <2>1, LayFramed
  <2> QED BY <2>1, <2>2 DEF WritersOK, Busy
<1>3. CASE QueueStep
  <2>1. PICK w \in Writer : WriteBegin(w) \/ WriteByte(w) \/ Enqueue(w)
    BY <1>3, Zenon DEF QueueStep
  <2>2. writer[w].pc # "idle" /\ UNCHANGED length
    BY <2>1 DEF WriteBegin, WriteByte, Enqueue, Written, buildVars
  <2>3. \A v \in Writer : v # w => writer[v].pc = "idle"
    BY <1>0, <2>2 DEF WritersOK, Busy
  <2>4. \A v \in Writer : v # w => writer'[v] = writer[v]
    BY <1>0, <2>1 DEF WriteBegin, WriteByte, Enqueue, Written, WriterTypes
  <2>5. writer'[w].pc = "write" => writer'[w].len = length /\ writer'[w].k <= length + 1
    <3>1. CASE WriteBegin(w)
      <4>1. writer'[w] = [pc |-> "write", len |-> length, k |-> 1]
        BY <1>0, <3>1 DEF WriteBegin
      <4> QED BY <1>0, <4>1
    <3>2. CASE WriteByte(w)
      <4>1. /\ writer[w].pc = "write" /\ writer[w].k <= writer[w].len
            /\ writer' = [writer EXCEPT ![w].k = @ + 1]
        BY <3>2, Zenon DEF WriteByte
      <4>2. writer'[w].len = writer[w].len /\ writer'[w].k = writer[w].k + 1
        BY <1>0, <4>1 DEF WriterTypes
      <4>3. writer[w].k \in 1 .. BufSize + 1 /\ writer[w].len = length
        BY <1>0, <4>1 DEF WriterTypes, WritersOK
      <4> QED BY <1>0, <4>1, <4>2, <4>3
    <3>3. CASE Enqueue(w)
      <4>1. writer'[w] = Idle
        BY <1>0, <3>3 DEF Enqueue
      <4> QED BY <4>1 DEF Idle
    <3> QED BY <2>1, <3>1, <3>2, <3>3
  <2>6. \A v \in Busy' : v = w
    BY <2>3, <2>4 DEF Busy
  <2>7. \A v \in Writer : writer'[v].pc = "write" => v = w
    BY <2>3, <2>4
  <2> QED BY <2>2, <2>5, <2>6, <2>7 DEF WritersOK
<1>4. CASE \/ ReceiveLength \/ NextPiece \/ MessageSent \/ ReadByte \/ SendPiece \/ Tick
           \/ PingSend \/ Greet \/ Accepted \/ Refused \/ Talk \/ ReceiveEnd \/ Reap \/ Lose
  <2>1. UNCHANGED <<writer, length>>
    BY <1>4, Zenon DEF ReceiveLength, NextPiece, MessageSent, ReadByte, SendPiece, Tick, PingSend,
                Greet, Accepted, Refused, Talk, ConnectedCallback, ReceiveOther, ReceiveSuback,
                ReceiveEnd, Reap, Lose, LoseLink, TaskStep, buildVars
  <2> QED BY <1>0, <2>1 DEF WritersOK, Busy
<1> QED BY <1>1, <1>2, <1>3, <1>4, NextCases

(* Steps that leave the ring, the queue and the writers alone keep what is *)
(* owed, unless they kill the sending task inside a message.               *)
LEMMA OwedKept ==
  ASSUME TypeInv, TypeInv', Framed',
         \/ NextPiece \/ MessageSent \/ SendPiece \/ Tick \/ PingBuild \/ PingSend
         \/ Dial \/ Greet \/ Accepted \/ Refused \/ Talk \/ ReceiveEnd \/ Reap \/ Lose
  PROVE  OwedOf(snd') = OwedOf(snd) /\ UNCHANGED <<send_rb, sendQ, writer>>
<1>1. UNCHANGED <<send_rb, sendQ, writer>>
  BY Zenon DEF NextPiece, MessageSent, SendPiece, Tick, PingBuild, PingSend, Dial, Greet, Accepted,
       Refused, Talk, ConnectedCallback, ReceiveOther, ReceiveSuback, ReceiveEnd, Reap, Lose,
       LoseLink, TaskStep
<1>2. /\ snd \in Sender /\ SenderShape(snd) /\ snd' \in Sender /\ SenderShape(snd')
      /\ snd.left \in Nat /\ BufSize \in Nat /\ (mq = "await" => snd.pc = "dead")
  BY MqttAssumption DEF TypeInv, TypeOK, SenderOK, Sender, SenderShape
<1>3. CASE NextPiece
  <2>1. snd.pc = "loop" /\ snd' = [snd EXCEPT !.pc = "read", !.n = Lesser(snd.left, BufSize), !.k = 1]
    BY <1>3, Zenon DEF NextPiece
  <2>2. snd'.pc = "read" /\ snd'.left = snd.left /\ snd'.k = 1
    BY <1>2, <2>1 DEF Sender
  <2>3. OwedOf(snd) = snd.left
    BY <1>2, <2>1, OwedCases
  <2>4. OwedOf(snd') = snd'.left - (snd'.k - 1)
    BY <1>2, <2>2, OwedCases
  <2> QED BY <1>1, <1>2, <2>2, <2>3, <2>4
<1>4. CASE SendPiece
  <2>1. /\ snd.pc = "write" /\ snd.n = snd.left
        /\ snd' = [snd EXCEPT !.pc = "loop", !.left = @ - snd.n]
    BY <1>2, <1>4, Zenon DEF SendPiece, SenderShape
  <2>2. snd'.pc = "loop" /\ snd'.left = 0
    BY <1>2, <2>1 DEF Sender
  <2>3. OwedOf(snd) = 0 /\ OwedOf(snd') = 0
    BY <1>2, <2>1, <2>2, OwedCases
  <2> QED BY <1>1, <2>3
<1>5. CASE MessageSent \/ PingBuild \/ PingSend \/ Accepted
  <2>1. /\ snd.pc \in {"wait", "ping", "dead"} \/ (snd.pc = "loop" /\ snd.left = 0)
        /\ snd' = Fresh \/ snd' = [snd EXCEPT !.pc = "ping"]
    BY <1>2, <1>5 DEF MessageSent, PingBuild, PingSend, Accepted, TaskStep, Spawned
  <2>2. snd'.pc \in {"wait", "ping"}
    BY <1>2, <2>1 DEF Fresh, Sender
  <2>3. OwedOf(snd) = 0 /\ OwedOf(snd') = 0
    BY <1>2, <2>1, <2>2, OwedCases
  <2> QED BY <1>1, <2>3
<1>6. CASE Reap
  <2>1. snd' = Dead /\ damage' = damage \union Hurt("killed", Owed > 0)
    BY <1>6, Zenon DEF Reap
  <2>2. ~(Owed > 0)
    BY <2>1 DEF Hurt, Framed
  <2>3. OwedOf(snd) \in Nat /\ snd'.pc = "dead"
    BY <1>2, <2>1, OwedCases DEF Dead
  <2>4. OwedOf(snd) = 0
    BY <2>2, <2>3, OwedIs
  <2>5. OwedOf(snd') = 0
    BY <1>2, <2>3, OwedCases
  <2> QED BY <1>1, <2>4, <2>5
<1>7. CASE Tick \/ Dial \/ Greet \/ Refused \/ Talk \/ ReceiveEnd \/ Lose
  <2>1. UNCHANGED snd
    BY <1>7, Zenon DEF Tick, Dial, Greet, Refused, Talk, ConnectedCallback, ReceiveOther,
         ReceiveSuback, ReceiveEnd, Lose, LoseLink, sndVars
  <2> QED BY <1>1, <2>1
<1> QED BY <1>3, <1>4, <1>5, <1>6, <1>7

LEMMA UnannouncedCounted ==
  ASSUME WritersOK, WriterTypes, length \in 0 .. BufSize
  PROVE  Cardinality(UnannouncedOf(writer)) \in Nat
<1>1. CASE \A w \in Writer : writer[w].pc # "write"
  BY <1>1, UnannouncedNone
<1>2. CASE \E w \in Writer : writer[w].pc = "write"
  <2>1. PICK w \in Writer : writer[w].pc = "write"
    BY <1>2
  <2> DEFINE n == writer[w].k - 1
  <2>2. n \in 0 .. BufSize /\ writer[w].k = n + 1
    BY <2>1, MqttAssumption DEF WriterTypes, WritersOK
  <2>3. \A v \in Writer : v # w => writer[v].pc # "write"
    BY <2>1 DEF WritersOK, Busy
  <2> HIDE DEF n
  <2>4. Cardinality(UnannouncedOf(writer)) = n
    BY <2>1, <2>2, <2>3, UnannouncedOne
  <2> QED BY <2>2, <2>4, MqttAssumption
<1> QED BY <1>1, <1>2

(* The balance of the ring, on the functions above.                        *)
Balance(rb, q, s, wr) ==
  Len(rb) = Total(q) + OwedOf(s) + Cardinality(UnannouncedOf(wr))

LEMMA BalanceIs ==
  /\ RingAccounted <=> (Framed => Balance(send_rb, sendQ, snd, writer))
  /\ RingAccounted' <=> (Framed' => Balance(send_rb', sendQ', snd', writer'))
BY OwedIs, UnannouncedIs DEF RingAccounted, Balance

LEMMA NextBalance ==
  ASSUME TypeInv, TypeInv', WritersOK, Balance(send_rb, sendQ, snd, writer), Next, Framed'
  PROVE  Balance(send_rb', sendQ', snd', writer')
<1> DEFINE tot == Total(sendQ)  owed == OwedOf(snd)  un == Cardinality(UnannouncedOf(writer))
<1>0. /\ WriterTypes /\ length \in 0 .. BufSize /\ BufSize \in Nat /\ DOMAIN writer = Writer
      /\ snd \in Sender /\ SenderShape(snd) /\ snd' \in Sender /\ SenderShape(snd')
      /\ send_rb \in Seq(Byte) /\ Len(send_rb) \in Nat
      /\ sendQ \in Seq(0 .. BufSize) /\ sendQ \in Seq(Nat)
  <2>1. 0 .. BufSize \subseteq Nat
    BY MqttAssumption
  <2>2. sendQ \in Seq(Nat)
    BY <2>1, SeqMonotonic DEF TypeInv, TypeOK
  <2> QED BY <2>2, MqttAssumption, LenProperties DEF TypeInv, TypeOK, SenderOK, Sender, SenderShape, WriterTypes
<1>1. tot \in Nat /\ owed \in Nat /\ un \in Nat /\ Len(send_rb) = tot + owed + un
  <2>1. tot \in Nat
    BY <1>0, TotalAppend
  <2>2. owed \in Nat
    BY <1>0, OwedCases DEF Sender
  <2>3. un \in Nat
    BY <1>0, UnannouncedCounted
  <2> QED BY <2>1, <2>2, <2>3 DEF Balance
<1>2. CASE \/ NextPiece \/ MessageSent \/ SendPiece \/ Tick \/ PingBuild \/ PingSend
           \/ Dial \/ Greet \/ Accepted \/ Refused \/ Talk \/ ReceiveEnd \/ Reap \/ Lose
  <2>1. OwedOf(snd') = OwedOf(snd) /\ UNCHANGED <<send_rb, sendQ, writer>>
    BY <1>2, OwedKept
  <2> QED BY <2>1 DEF Balance
<1>3. CASE BuildStep
  <2>1. PICK w \in Writer, ack \in BOOLEAN : Build(w, ack)
    BY <1>3, BuildIs, Zenon
  <2>2. UNCHANGED <<send_rb, sendQ, snd>>
    BY <2>1 DEF Build, sndVars
  <2>3. writer[w].pc = "idle"
    BY <2>1 DEF Build, Busy
  <2>4. writer' = writer \/ writer' = [writer EXCEPT ![w].pc = "built"]
    BY <2>1, Zenon DEF Build
  <2>5. UnannouncedOf(writer') = UnannouncedOf(writer)
    <3>1. \A v \in Writer : (writer'[v].pc = "write" <=> writer[v].pc = "write") /\ writer'[v].k = writer[v].k
      <4>1. CASE writer' = writer
        BY <4>1
      <4>2. CASE writer' = [writer EXCEPT ![w].pc = "built"]
        <5>1. \A v \in Writer : v # w => writer'[v] = writer[v]
          BY <1>0, <4>2
        <5>2. writer'[w] = [writer[w] EXCEPT !.pc = "built"]
          BY <1>0, <4>2
        <5>3. writer'[w].pc = "built" /\ writer'[w].k = writer[w].k
          BY <1>0, <5>2 DEF WriterTypes
        <5> QED BY <2>3, <5>1, <5>3
      <4> QED BY <2>4, <4>1, <4>2
    <3> QED BY <3>1 DEF UnannouncedOf
  <2> QED BY <2>2, <2>5 DEF Balance
<1>4. CASE QueueStep
  <2>1. PICK w \in Writer : WriteBegin(w) \/ WriteByte(w) \/ Enqueue(w)
    BY <1>4, Zenon DEF QueueStep
  <2>2. writer[w].pc # "idle" /\ UNCHANGED snd
    BY <2>1 DEF WriteBegin, WriteByte, Enqueue, Written, sndVars
  <2>3. \A v \in Writer : v # w => writer[v].pc # "write"
    BY <2>2 DEF WritersOK, Busy
  <2>4. \A v \in Writer : v # w => writer'[v].pc # "write"
    BY <1>0, <2>1, <2>3 DEF WriteBegin, WriteByte, Enqueue, Written, WriterTypes
  <2>5. CASE WriteBegin(w)
    <3>1. /\ writer[w].pc = "built" /\ UNCHANGED <<send_rb, sendQ>>
          /\ writer'[w] = [pc |-> "write", len |-> length, k |-> 1]
      BY <1>0, <2>5 DEF WriteBegin
    <3>2. un = 0
      BY <2>3, <3>1, UnannouncedNone
    <3>3. Cardinality(UnannouncedOf(writer')) = 0
      BY <1>0, <2>4, <3>1, UnannouncedOne
    <3> QED BY <2>2, <3>1, <3>2, <3>3 DEF Balance
  <2>6. CASE WriteByte(w)
    <3>1. /\ writer[w].pc = "write" /\ writer[w].k <= writer[w].len
          /\ writer' = [writer EXCEPT ![w].k = @ + 1]
          /\ send_rb' = Append(send_rb, out_buffer[writer[w].k]) /\ UNCHANGED sendQ
      BY <2>6, Zenon DEF WriteByte
    <3>2. writer'[w].pc = "write" /\ writer'[w].k = writer[w].k + 1
      BY <1>0, <3>1 DEF WriterTypes
    <3>3. writer[w].k \in 1 .. BufSize
      BY <1>0, <3>1 DEF WriterTypes
    <3> DEFINE n == writer[w].k
    <3>4. un = n - 1
      <4>1. n - 1 \in 0 .. BufSize /\ n = (n - 1) + 1
        BY <1>0, <3>3
      <4> QED BY <2>3, <3>1, <4>1, UnannouncedOne
    <3>5. Cardinality(UnannouncedOf(writer')) = n
      <4>1. n \in 0 .. BufSize
        BY <1>0, <3>3
      <4> QED BY <2>4, <3>2, <4>1, UnannouncedOne
    <3>6. Len(send_rb') = Len(send_rb) + 1
      <4>1. out_buffer[n] \in Byte
        BY <3>3 DEF TypeInv, TypeOK
      <4> QED BY <1>0, <3>1, <4>1, AppendProperties
    <3>7. Total(sendQ') = tot /\ OwedOf(snd') = owed
      BY <2>2, <3>1
    <3> HIDE DEF n, tot, owed, un
    <3>8. Len(send_rb') = tot + owed + n
      BY <1>0, <1>1, <3>3, <3>4, <3>6 DEF n
    <3> QED BY <3>5, <3>7, <3>8 DEF Balance
  <2>7. CASE Enqueue(w)
    <3>1. /\ writer[w].pc = "write" /\ writer[w].k > writer[w].len /\ UNCHANGED send_rb
          /\ writer'[w] = Idle
      BY <1>0, <2>7 DEF Enqueue, Written
    <3>2. writer[w].k = length + 1
      BY <1>0, <3>1 DEF WritersOK, WriterTypes
    <3>3. un = length
      BY <1>0, <2>3, <3>1, <3>2, UnannouncedOne
    <3>4. Cardinality(UnannouncedOf(writer')) = 0
      <4>1. writer'[w].pc # "write"
        BY <3>1 DEF Idle
      <4> QED BY <2>4, <4>1, UnannouncedNone
    <3>5. sendQ' = Append(sendQ, length)
      <4>1. sendQ' = Announced \/ damage' = damage \union {"queueFull"}
        BY <2>7, Zenon DEF Enqueue
      <4> QED BY <4>1 DEF Announced, Framed
    <3>6. Total(sendQ') = tot + length
      <4>1. length \in Nat
        BY <1>0
      <4> QED BY <1>0, <3>5, <4>1, TotalAppend
    <3>7. OwedOf(snd') = owed
      BY <2>2
    <3> HIDE DEF tot, owed, un
    <3>8. Len(send_rb') = (tot + length) + owed + 0
      BY <1>0, <1>1, <3>1, <3>3
    <3> QED BY <3>4, <3>6, <3>7, <3>8 DEF Balance
  <2> QED BY <2>1, <2>5, <2>6, <2>7
<1>5. CASE ReceiveLength
  <2>1. /\ snd.pc = "wait" /\ sendQ # <<>> /\ sendQ' = Tail(sendQ)
        /\ snd' = [Fresh EXCEPT !.pc = "loop", !.left = Head(sendQ)]
        /\ UNCHANGED <<send_rb, writer>>
    BY <1>5, Zenon DEF ReceiveLength
  <2>2. snd'.pc = "loop" /\ snd'.left = Head(sendQ)
    BY <2>1 DEF Fresh
  <2>3. owed = 0 /\ OwedOf(snd') = Head(sendQ)
    BY <1>0, <2>1, <2>2, OwedCases
  <2>4. tot = Head(sendQ) + Total(sendQ') /\ Total(sendQ') \in Nat
    BY <1>0, <2>1, TotalTail
  <2>5. Head(sendQ) \in 0 .. BufSize
    BY <1>0, <2>1, HeadTailProperties
  <2> DEFINE h == Head(sendQ)  rest == Total(sendQ')
  <2>6. UnannouncedOf(writer') = UnannouncedOf(writer) /\ Len(send_rb') = Len(send_rb)
    BY <2>1
  <2>7. Len(send_rb') = rest + h + un
    <3>1. h \in Nat /\ rest \in Nat /\ tot = h + rest /\ owed = 0
      BY <1>0, <2>3, <2>4, <2>5
    <3>2. tot + owed + un = rest + h + un
      <4> HIDE DEF h, rest, tot, owed, un
      <4> QED BY <3>1
    <3> QED BY <1>1, <2>6, <3>2
  <2> QED BY <2>3, <2>6, <2>7 DEF Balance
<1>6. CASE ReadByte
  <2>1. /\ snd.pc = "read" /\ send_rb # <<>> /\ send_rb' = Tail(send_rb)
        /\ snd' = IF snd.k = snd.n THEN [snd EXCEPT !.pc = "write"] ELSE [snd EXCEPT !.k = @ + 1]
        /\ UNCHANGED <<sendQ, writer>>
    BY <1>6, Zenon DEF ReadByte, Rest
  <2>2. Len(send_rb') = Len(send_rb) - 1
    BY <1>0, <2>1, HeadTailProperties
  <2>3. owed = snd.left - (snd.k - 1) /\ snd.n = snd.left /\ snd.left \in Nat /\ snd.k \in Nat
    <3>1. owed = snd.left - (snd.k - 1)
      BY <1>0, <2>1, OwedCases
    <3>2. snd.n = snd.left /\ snd.left \in Nat /\ snd.k \in Nat
      BY <1>0, <2>1 DEF SenderShape, Sender
    <3> QED BY <3>1, <3>2
  <2>4. OwedOf(snd') = owed - 1
    <3>1. CASE snd.k = snd.n
      <4>1. snd'.pc = "write"
        BY <1>0, <2>1, <3>1 DEF Sender
      <4>2. OwedOf(snd') = 0
        BY <1>0, <4>1, OwedCases
      <4> QED BY <2>3, <3>1, <4>2
    <3>2. CASE snd.k # snd.n
      <4>1. snd'.pc = "read" /\ snd'.k = snd.k + 1 /\ snd'.left = snd.left
        BY <1>0, <2>1, <3>2 DEF Sender
      <4>2. OwedOf(snd') = snd'.left - (snd'.k - 1)
        BY <1>0, <4>1, OwedCases
      <4> QED BY <2>3, <4>1, <4>2
    <3> QED BY <3>1, <3>2
  <2>5. Total(sendQ') = tot /\ Cardinality(UnannouncedOf(writer')) = un
    BY <2>1
  <2> HIDE DEF tot, owed, un
  <2>6. Len(send_rb') = tot + (owed - 1) + un
    BY <1>0, <1>1, <2>2
  <2> QED BY <2>4, <2>5, <2>6 DEF Balance
<1> QED BY <1>2, <1>3, <1>4, <1>5, <1>6, NextCases

LEMMA FramedInit == ASSUME Init PROVE FramedInv
<1>1. \A w \in Writer : writer[w].pc = "idle"
  BY DEF Init, Idle
<1>2. WritersOK
  BY <1>1 DEF WritersOK, Busy
<1>3. Cardinality(UnannouncedOf(writer)) = 0
  BY <1>1, UnannouncedNone
<1>4. OwedOf(snd) = 0
  BY DEF Init, Dead, OwedOf
<1>5. Len(send_rb) = 0 /\ Total(sendQ) = 0
  BY TotalEmpty, EmptySeq DEF Init
<1>6. Balance(send_rb, sendQ, snd, writer)
  <2>1. 0 = 0 + 0 + 0
    OBVIOUS
  <2> QED BY <1>3, <1>4, <1>5, <2>1, Zenon DEF Balance
<1> QED BY <1>2, <1>6, BalanceIs DEF FramedInv

LEMMA FramedStep == ASSUME TypeInv, TypeInv', FramedInv, [Next]_vars PROVE FramedInv'
<1>1. CASE Next
  <2>1. SUFFICES ASSUME Framed' PROVE WritersOK' /\ Balance(send_rb', sendQ', snd', writer')
    <3>1. (Framed => WritersOK)' <=> (Framed' => WritersOK')
      OBVIOUS
    <3> QED BY <2>1, <3>1, BalanceIs DEF FramedInv
  <2>2. TypeOK /\ Framed
    BY <1>1, <2>1, Undamaged DEF TypeInv
  <2>3. WritersOK /\ Balance(send_rb, sendQ, snd, writer)
    BY <2>2, BalanceIs DEF FramedInv
  <2> QED BY <1>1, <2>1, <2>2, <2>3, NextWriters, NextBalance
<1>2. CASE UNCHANGED vars
  <2>1. UNCHANGED <<writer, length, damage, send_rb, sendQ, snd>>
    BY <1>2 DEF vars, buildVars, sndVars
  <2>2. Framed' = Framed /\ (WritersOK <=> WritersOK')
    BY <2>1 DEF Framed, WritersOK, Busy
  <2>3. Balance(send_rb, sendQ, snd, writer) <=> Balance(send_rb', sendQ', snd', writer')
    BY <2>1 DEF Balance
  <2> QED BY <2>2, <2>3, BalanceIs DEF FramedInv
<1> QED BY <1>1, <1>2

-----------------------------------------------------------------------------
(* Alone in the buffer. *)

(* The steps that leave the buffer, its length, the writers and built.     *)
LEMMA BufferKept ==
  ASSUME QueueStep \/ ReceiveLength \/ NextPiece \/ MessageSent \/ SendPiece \/ Tick \/ PingSend
         \/ Greet \/ Accepted \/ Refused \/ Talk \/ ReceiveEnd \/ Reap \/ Lose
  PROVE  UNCHANGED <<built, out_buffer, length>>
BY DEF QueueStep, WriteBegin, WriteByte, Enqueue, ReceiveLength, NextPiece, MessageSent, SendPiece,
       Tick, PingSend, Greet, Accepted, Refused, Talk, ConnectedCallback, ReceiveOther,
       ReceiveSuback, ReceiveEnd, Reap, Lose, LoseLink, TaskStep, buildVars

LEMMA NextBuffer ==
  ASSUME TypeInv, Exclusive, BufferOK, Next, Unhurt'
  PROVE  Exclusive' /\ BufferOK'
<1>0. /\ WriterTypes /\ DOMAIN writer = Writer /\ out_buffer \in [1 .. BufSize -> Byte]
      /\ built \in 0 .. MaxMsg /\ MaxMsg \in Nat /\ snd \in Sender
  BY MqttAssumption DEF TypeInv, TypeOK, WriterTypes, Sender
<1>f. Framed'
  BY DEF Framed, Unhurt
<1>1. CASE BuildStep
  <2>1. PICK w \in Writer, ack \in BOOLEAN : Build(w, ack)
    BY <1>1, BuildIs, Zenon
  <2>2. /\ damage' = LayDamage(Busy, SenderBusy \/ mq = "greet")
        /\ out_buffer' = Laid(built') /\ length' = MsgLen[built']
    BY <2>1, Zenon DEF Build, Lay
  <2>3. ~SenderBusy /\ mq # "greet"
    BY <2>2, LayFramed
  <2>4. UNCHANGED snd /\ UNCHANGED mq
    BY <2>1 DEF Build, sndVars
  <2>5. built' \in Msg /\ built' \in 0 .. MaxMsg /\ built' # 0
    BY <1>0, <2>1, NextBuilt DEF Msg
  <2>6. PICK m \in 0 .. MaxMsg : m = built'
    BY <2>5
  <2>7. Holds(built)'
    <3>1. \A i \in 1 .. MsgLen[m] : Laid(m)[i] = <<m, i>>
      BY <1>0, LaidTyped
    <3>2. length' = MsgLen[m] /\ out_buffer' = Laid(m)
      BY <2>2, <2>6
    <3> QED BY <2>6, <3>1, <3>2 DEF Holds
  <2>8. Exclusive' /\ snd'.pc # "ping" /\ mq' # "greet"
    BY <2>3, <2>4 DEF Exclusive, SenderBusy
  <2> QED BY <2>5, <2>7, <2>8, Zenon DEF BufferOK
<1>2. CASE QueueStep
  <2>1. PICK w \in Writer : WriteBegin(w) \/ WriteByte(w) \/ Enqueue(w)
    BY <1>2, Zenon DEF QueueStep
  <2>2. writer[w].pc # "idle" /\ UNCHANGED snd /\ UNCHANGED mq
    BY <2>1 DEF WriteBegin, WriteByte, Enqueue, Written, sndVars
  <2>3. \A v \in Writer : v # w => writer'[v] = writer[v]
    BY <1>0, <2>1 DEF WriteBegin, WriteByte, Enqueue, Written, WriterTypes
  <2>4. Busy # {} /\ Busy' \subseteq Busy
    BY <2>2, <2>3 DEF Busy
  <2>5. UNCHANGED <<built, out_buffer, length>>
    BY <1>2, BufferKept
  <2> QED BY <2>2, <2>4, <2>5 DEF Exclusive, BufferOK, SenderBusy, Holds
<1>3. CASE PingBuild \/ Dial
  <2>1. /\ damage' = LayDamage(Busy, FALSE) /\ out_buffer' = Laid(0) /\ length' = MsgLen[0]
        /\ UNCHANGED writer
    BY <1>3 DEF PingBuild, Dial, Lay, TaskStep
  <2>2. Busy' = {}
    <3>1. Busy = {}
      BY <1>f, <2>1, LayFramed
    <3> QED BY <2>1, <3>1 DEF Busy
  <2>3. Holds(0)'
    BY <1>0, <2>1, LaidTyped DEF Holds
  <2> QED BY <2>2, <2>3 DEF Exclusive, BufferOK
<1>4. CASE NextPiece \/ ReadByte
  <2>1. Busy = {} /\ UNCHANGED writer
    <3>1. UNCHANGED writer
      BY <1>4, Zenon DEF NextPiece, ReadByte
    <3>2. CASE NextPiece
      BY <3>1, <3>2 DEF NextPiece, Hurt, Unhurt
    <3>3. CASE ReadByte
      BY <3>1, <3>3 DEF ReadByte, Exclusive, SenderBusy
    <3> QED BY <1>4, <3>1, <3>2, <3>3
  <2>2. snd'.pc # "ping" /\ mq' # "greet"
    BY <1>0, <1>4 DEF NextPiece, ReadByte, TypeInv, SenderOK, Sender
  <2>3. Busy' = {}
    BY <2>1 DEF Busy
  <2> QED BY <2>2, <2>3 DEF Exclusive, BufferOK
<1>5. CASE \/ ReceiveLength \/ MessageSent \/ SendPiece \/ Tick \/ PingSend \/ Greet
           \/ Accepted \/ Refused \/ Talk \/ ReceiveEnd \/ Reap \/ Lose
  <2>1. UNCHANGED <<built, out_buffer, length>>
    BY <1>5, BufferKept
  <2>2. UNCHANGED writer
    BY <1>5, Zenon DEF ReceiveLength, MessageSent, SendPiece, Tick, PingSend, Greet, Accepted,
         Refused, Talk, ConnectedCallback, ReceiveOther, ReceiveSuback, ReceiveEnd, Reap, Lose,
         LoseLink, TaskStep
  <2>3. mq' = "greet" => mq = "greet"
    BY <1>5, Zenon DEF ReceiveLength, MessageSent, SendPiece, Tick, PingSend, Greet, Accepted,
         Refused, Talk, ConnectedCallback, ReceiveOther, ReceiveSuback, ReceiveEnd, Reap, Lose,
         LoseLink, TaskStep
  <2>4. snd' = snd \/ snd'.pc \notin {"read", "write", "ping"}
    <3>1. CASE ReceiveLength
      <4>1. snd' = [Fresh EXCEPT !.pc = "loop", !.left = Head(sendQ)]
        BY <3>1, Zenon DEF ReceiveLength
      <4> QED BY <4>1 DEF Fresh
    <3>2. CASE SendPiece
      <4>1. snd' = [snd EXCEPT !.pc = "loop", !.left = @ - snd.n]
        BY <3>2, Zenon DEF SendPiece
      <4> QED BY <1>0, <4>1 DEF Sender
    <3>3. CASE \/ MessageSent \/ Tick \/ PingSend \/ Greet
               \/ Accepted \/ Refused \/ Talk \/ ReceiveEnd \/ Reap \/ Lose
      <4>1. snd' \in {snd, Fresh, Dead}
        BY <3>3 DEF MessageSent, Tick, PingSend, Greet, Accepted, Refused, Talk,
             ConnectedCallback, ReceiveOther, ReceiveSuback, ReceiveEnd, Reap, Lose, LoseLink,
             TaskStep, Spawned, sndVars
      <4> QED BY <4>1 DEF Fresh, Dead
    <3> QED BY <1>5, <3>1, <3>2, <3>3
  <2>5. Busy' = Busy
    BY <2>2 DEF Busy
  <2>6. Exclusive'
    BY <2>3, <2>4, <2>5 DEF Exclusive, SenderBusy
  <2>7. (Holds(0) <=> Holds(0)') /\ (Holds(built) <=> Holds(built)')
    BY <2>1 DEF Holds
  <2>8. BufferOK'
    <3>1. mq' = "greet" \/ snd'.pc = "ping" => Holds(0)'
      BY <2>3, <2>4, <2>7 DEF BufferOK
    <3>2. Busy' # {} => built' # 0 /\ Holds(built)'
      BY <2>1, <2>5, <2>7 DEF BufferOK
    <3> QED BY <3>1, <3>2, Zenon DEF BufferOK
  <2> QED BY <2>6, <2>8
<1> QED BY <1>1, <1>2, <1>3, <1>4, <1>5, NextCases

(* A packet that is taken from a buffer holding message m is the whole of m. *)
LEMMA PacketIsWhole ==
  ASSUME TypeInv, NEW m \in 0 .. MaxMsg, NEW n, n = MsgLen[m],
         \A i \in 1 .. n : out_buffer[i] = <<m, i>>
  PROVE  /\ Packet(n) = Whole(m)
         /\ n > 0 => Packet(n) # <<>> /\ Packet(n)[1][1] = m
<1>1. n \in 0 .. BufSize /\ BufSize \in Nat
  BY MqttAssumption
<1>2. Packet(n) = Whole(m)
  BY <1>1 DEF Packet, Whole
<1>3. Len(Packet(n)) = n /\ Packet(n) \in Seq(Byte)
  BY <1>1, PacketTyped DEF TypeInv
<1>4. ASSUME n > 0 PROVE Packet(n) # <<>> /\ Packet(n)[1][1] = m
  <2>1. 1 \in 1 .. n
    BY <1>1, <1>4
  <2>2. Packet(n)[1] = <<m, 1>>
    BY <2>1 DEF Packet
  <2>3. Packet(n) # <<>>
    BY <1>1, <1>3, <1>4, EmptySeq
  <2> QED BY <2>2, <2>3
<1> QED BY <1>2, <1>4

(* Writing a control message.                                              *)
LEMMA ControlSent ==
  ASSUME TypeInv, BufferOK, PingSend \/ Greet
  PROVE  UNCHANGED sent /\ (wire' = wire \/ wire' = Whole(0))
<1>1. Holds(0)
  BY DEF PingSend, Greet, TaskStep, BufferOK
<1>2. Transmit(Packet(length))
  BY Zenon DEF PingSend, Greet, Packet
<1>3. 0 \in 0 .. MaxMsg /\ MsgLen[0] > 0
  BY MqttAssumption
<1>4. Packet(length) = Whole(0) /\ Packet(length) # <<>> /\ Packet(length)[1][1] = 0
  BY <1>1, <1>3, PacketIsWhole DEF Holds
<1>5. UNCHANGED wireVars \/ (wire' = Packet(length) /\ sent' = sent)
  <2> DEFINE packet == Packet(length)
  <2>1. packet # <<>> /\ packet[1][1] = 0
    BY <1>4
  <2> HIDE DEF packet
  <2> QED BY <1>2, <2>1, Zenon DEF Transmit, packet
<1> QED BY <1>4, <1>5 DEF wireVars

(* Writing the message in hand.                                            *)
LEMMA MessageWritten ==
  ASSUME TypeInv, SendPiece, NEW c \in 0 .. MaxMsg, InHand(c)
  PROVE  \/ UNCHANGED wireVars
         \/ wire' = Whole(c) /\ sent' = Append(sent, c) /\ c \in Msg
<1>1. /\ snd.pc = "write" /\ snd.left > 0 /\ snd.n = snd.left
      /\ snd.left \in 0 .. BufSize /\ BufSize \in Nat
  BY MqttAssumption DEF TypeInv, TypeOK, SenderOK, SendPiece
<1>2. /\ MsgLen[c] = snd.n /\ \A i \in 1 .. snd.n : out_buffer[i] = <<c, i>>
      /\ c \in 1 .. Passed
  BY <1>1 DEF InHand
<1>3. c # 0 /\ c \in Msg
  BY <1>2, MqttAssumption DEF Msg
<1>4. Packet(snd.n) = Whole(c) /\ Packet(snd.n) # <<>> /\ Packet(snd.n)[1][1] = c
  BY <1>1, <1>2, PacketIsWhole
<1>5. Transmit(Packet(snd.n))
  BY Zenon DEF SendPiece, Piece, Packet
<1> DEFINE packet == Packet(snd.n)
<1>6. packet = Whole(c) /\ packet # <<>> /\ packet[1][1] = c
  BY <1>4
<1>7. Transmit(packet)
  BY <1>5
<1> HIDE DEF packet
<1> QED BY <1>3, <1>6, <1>7 DEF Transmit

-----------------------------------------------------------------------------
(* The messages between the first byte of the ring and the last. *)

LEMMA StreamTypes ==
  ASSUME TypeInv
  PROVE  /\ send_rb \in Seq(Byte) /\ Len(send_rb) \in Nat
         /\ sendQ \in Seq(0 .. BufSize) /\ Len(sendQ) \in Nat /\ BufSize \in Nat
         /\ \A j \in 1 .. Len(sendQ) : sendQ[j] \in Nat
         /\ snd \in Sender /\ SenderShape(snd)
         /\ snd.left \in Nat /\ snd.n \in Nat /\ snd.k \in Nat \ {0}
         /\ OwedOf(snd) \in Nat /\ OwedOf(snd) <= snd.left
         /\ built \in Nat /\ MaxMsg \in Nat /\ Msg \subseteq Nat
         /\ sent \in Seq(Msg) /\ Len(sent) \in Nat /\ \A p \in 1 .. Len(sent) : sent[p] \in Nat
         /\ WriterTypes /\ DOMAIN writer = Writer
         /\ length \in 0 .. BufSize
<1>1. /\ send_rb \in Seq(Byte) /\ sendQ \in Seq(0 .. BufSize) /\ BufSize \in Nat
      /\ snd \in Sender /\ SenderShape(snd) /\ built \in 0 .. MaxMsg /\ MaxMsg \in Nat
      /\ sent \in Seq(Msg) /\ WriterTypes /\ length \in 0 .. BufSize
  BY MqttAssumption DEF TypeInv, TypeOK, SenderOK, SenderShape, Sender, WriterTypes
<1>2. Len(send_rb) \in Nat /\ Len(sendQ) \in Nat /\ Len(sent) \in Nat
  BY <1>1, LenProperties
<1>3. \A j \in 1 .. Len(sendQ) : sendQ[j] \in Nat
  BY <1>1, ElementOfSeq
<1>4. Msg \subseteq Nat
  BY <1>1 DEF Msg
<1>5. \A p \in 1 .. Len(sent) : sent[p] \in Nat
  BY <1>1, <1>4, ElementOfSeq
<1>6. snd.left \in Nat /\ snd.n \in Nat /\ snd.k \in Nat \ {0}
  BY <1>1 DEF Sender
<1>7. OwedOf(snd) \in Nat /\ OwedOf(snd) <= snd.left
  BY <1>1, <1>6, OwedCases
<1>8. DOMAIN writer = Writer
  BY <1>1 DEF WriterTypes
<1> QED BY <1>1, <1>2, <1>3, <1>4, <1>5, <1>6, <1>7, <1>8

(* To show that the stream is in order after a step.                       *)
LEMMA StreamWitness ==
  ASSUME NEW c \in 0 .. MaxMsg, NEW n, n = Len(sendQ'), NEW q \in [1 .. n -> Msg],
         NEW start \in [1 .. n + 1 -> 0 .. Len(send_rb')], NEW end, end = start[n + 1],
         InHand(c)', Queued(q, start)', Copied(end)', Ordered(c, q)'
  PROVE  StreamOK'
<1>1. Copied(start[Len(sendQ) + 1])'
  BY DEF Copied
<1>2. Stream(c, q, start)'
  BY <1>1, Zenon DEF Stream
<1>3. q \in [1 .. Len(sendQ') -> Msg] /\ start \in [1 .. Len(sendQ') + 1 -> 0 .. Len(send_rb')]
  OBVIOUS
<1> QED BY <1>2, <1>3, Zenon DEF StreamOK

(* Steps that leave the ring, the queue, the writers and what was sent     *)
(* alone, and begin no message and finish none.                            *)
LEMMA StreamKept ==
  ASSUME TypeInv, TypeInv', StreamOK,
         UNCHANGED <<send_rb, sendQ, writer, built, sent>>,
         OwedOf(snd') = OwedOf(snd), snd'.left > 0 => snd'.left = snd.left,
         snd'.pc = "read" => snd'.k = 1 \/ (UNCHANGED <<snd, out_buffer>>),
         snd'.pc = "write" => UNCHANGED <<snd, out_buffer>>
  PROVE  StreamOK'
<1>1. PICK c \in 0 .. MaxMsg, q \in [1 .. Len(sendQ) -> Msg],
           start \in [1 .. Len(sendQ) + 1 -> 0 .. Len(send_rb)] : Stream(c, q, start)
  BY Zenon DEF StreamOK
<1>0. PICK n, end : n = Len(sendQ) /\ end = start[n + 1]
  OBVIOUS
<1>2. InHand(c) /\ Queued(q, start) /\ Copied(end) /\ Ordered(c, q)
  BY <1>0, <1>1, Zenon DEF Stream
<1>3. Owed = OwedOf(snd) /\ Owed' = Owed
  BY OwedIs
<1>4. Passed' = Passed /\ n = Len(sendQ')
  BY <1>0 DEF Passed, Busy
<1>5. InHand(c)'
  <2>1. snd'.left > 0 => /\ c \in 1 .. Passed' /\ MsgLen[c] = snd'.left
                         /\ \A p \in 1 .. Len(sent') : sent'[p] < c
    BY <1>2, <1>4 DEF InHand
  <2>2. snd'.pc = "read" => \A i \in 1 .. snd'.k - 1 : out_buffer'[i] = <<c, i>>
    BY <1>2 DEF InHand
  <2>3. snd'.pc = "write" => \A i \in 1 .. snd'.left : out_buffer'[i] = <<c, i>>
    BY <1>2 DEF InHand
  <2>4. ASSUME NEW i \in 1 .. Owed' PROVE send_rb'[i] = <<c, snd'.left - Owed' + i>>
    <3>1. snd'.left = snd.left
      <4>1. OwedOf(snd') \in Nat /\ OwedOf(snd') <= snd'.left /\ snd'.left \in Nat
        <5>1. snd' \in Sender /\ SenderShape(snd') /\ BufSize \in Nat
          BY MqttAssumption DEF TypeInv, TypeOK, SenderOK, SenderShape, Sender
        <5> QED BY <5>1, OwedCases DEF Sender
      <4> QED BY <1>3, <4>1
    <3> QED BY <1>2, <1>3, <3>1 DEF InHand
  <2> QED BY <2>1, <2>2, <2>3, <2>4 DEF InHand
<1>6. Queued(q, start)'
  BY <1>2, <1>3 DEF Queued
<1>7. Copied(end)'
  BY <1>2 DEF Copied
<1>8. Ordered(c, q)'
  BY <1>2, <1>4 DEF Ordered
<1>9. /\ q \in [1 .. n -> Msg] /\ start \in [1 .. n + 1 -> 0 .. Len(send_rb')]
      /\ end = start[n + 1]
  BY <1>0
<1> QED BY <1>4, <1>5, <1>6, <1>7, <1>8, <1>9, StreamWitness

(* The parts of the stream, with names for the number of lengths queued    *)
(* and for the place behind their messages.                                *)
Parts(c, n, q, start, end) ==
  /\ c \in 0 .. MaxMsg /\ n = Len(sendQ) /\ q \in [1 .. n -> Msg]
  /\ start \in [1 .. n + 1 -> 0 .. Len(send_rb)] /\ end = start[n + 1]
  /\ InHand(c) /\ Queued(q, start) /\ Copied(end) /\ Ordered(c, q)

LEMMA StreamIs ==
  ASSUME StreamOK
  PROVE  \E c, n, q, start, end : Parts(c, n, q, start, end)
<1>1. PICK c \in 0 .. MaxMsg, q \in [1 .. Len(sendQ) -> Msg],
           start \in [1 .. Len(sendQ) + 1 -> 0 .. Len(send_rb)] : Stream(c, q, start)
  BY Zenon DEF StreamOK
<1>2. Parts(c, Len(sendQ), q, start, start[Len(sendQ) + 1])
  BY <1>1, Zenon DEF Stream, Parts
<1> QED BY <1>2, Zenon

LEMMA StreamBuild ==
  ASSUME TypeInv, TypeInv', Exclusive, StreamOK, BuildStep, Unhurt'
  PROVE  StreamOK'
<1>0. PICK c, n, q, start, end : Parts(c, n, q, start, end)
  BY StreamIs
<1>1. /\ c \in 0 .. MaxMsg /\ n = Len(sendQ) /\ q \in [1 .. n -> Msg]
      /\ start \in [1 .. n + 1 -> 0 .. Len(send_rb)] /\ end = start[n + 1]
      /\ InHand(c) /\ Queued(q, start) /\ Copied(end) /\ Ordered(c, q)
  BY <1>0, Zenon DEF Parts
<1>2. PICK w \in Writer, ack \in BOOLEAN : Build(w, ack)
  BY BuildIs, Zenon
<1>3. Busy = {} /\ ~SenderBusy
  <2>1. damage' = LayDamage(Busy, SenderBusy \/ mq = "greet")
    BY <1>2, Zenon DEF Build
  <2> QED BY <2>1, LayFramed DEF Framed, Unhurt
<1>4. UNCHANGED <<send_rb, sendQ, snd, sent>> /\ built' = built + 1
  BY <1>2 DEF Build, sndVars, wireVars
<1>5. writer' = writer \/ writer' = [writer EXCEPT ![w].pc = "built"]
  BY <1>2, Zenon DEF Build
<1>6. /\ \A v \in Writer : writer[v].pc = "idle"
      /\ \A v \in Writer : writer'[v].pc # "write"
  BY <1>3, <1>5, StreamTypes DEF Busy, WriterTypes
<1>7. Passed = built /\ Passed' \in {built, built + 1}
  <2>1. built \in Nat
    BY StreamTypes
  <2>2. Passed' = IF Busy' = {} THEN built' ELSE built' - 1
    BY DEF Passed
  <2> QED BY <1>3, <1>4, <2>1, <2>2 DEF Passed
<1>8. Owed' = Owed
  BY <1>4, OwedIs
<1>9. InHand(c)'
  <2>1. snd.pc \notin {"read", "write"}
    BY <1>3 DEF SenderBusy
  <2>2. 1 .. Passed \subseteq 1 .. Passed'
    BY <1>7, StreamTypes
  <2> QED BY <1>1, <1>4, <1>8, <2>1, <2>2 DEF InHand
<1>10. Queued(q, start)'
  BY <1>1, <1>4, <1>8 DEF Queued
<1>11. Copied(end)'
  <2>1. end = Len(send_rb)
    BY <1>1, <1>6 DEF Copied
  <2>2. end + 1 .. Len(send_rb) = {}
    BY <2>1, StreamTypes
  <2> QED BY <1>4, <1>6, <2>1, <2>2 DEF Copied
<1>12. Ordered(c, q)'
  <2>1. \A x \in Nat : x <= Passed => x <= Passed'
    BY <1>7, StreamTypes
  <2>2. \A j \in 1 .. Len(sendQ) : q[j] \in Nat
    BY <1>1, StreamTypes
  <2> QED BY <1>1, <1>4, <2>1, <2>2, StreamTypes DEF Ordered
<1>13. n = Len(sendQ') /\ start \in [1 .. n + 1 -> 0 .. Len(send_rb')] /\ end = start[n + 1]
  BY <1>1, <1>4
<1> QED BY <1>1, <1>9, <1>10, <1>11, <1>12, <1>13, StreamWitness

(* A writer begins to copy its message.                                    *)
LEMMA StreamBegin ==
  ASSUME TypeInv, TypeInv', WritersOK, StreamOK, NEW w \in Writer, WriteBegin(w)
  PROVE  StreamOK'
<1>0. PICK c, n, q, start, end : Parts(c, n, q, start, end)
  BY StreamIs
<1>1. /\ c \in 0 .. MaxMsg /\ n = Len(sendQ) /\ q \in [1 .. n -> Msg]
      /\ start \in [1 .. n + 1 -> 0 .. Len(send_rb)] /\ end = start[n + 1]
      /\ InHand(c) /\ Queued(q, start) /\ Copied(end) /\ Ordered(c, q)
  BY <1>0, Zenon DEF Parts
<1>2. /\ UNCHANGED <<send_rb, sendQ, snd, sent, built, out_buffer>> /\ writer[w].pc = "built"
      /\ writer' = [writer EXCEPT ![w] = [pc |-> "write", len |-> length, k |-> 1]]
  BY DEF WriteBegin, sndVars, wireVars, buildVars
<1>3. /\ writer'[w].pc = "write" /\ writer'[w].k = 1
      /\ \A v \in Writer : v # w => writer'[v] = writer[v] /\ writer[v].pc = "idle"
  BY <1>2, StreamTypes DEF WritersOK, Busy
<1>4. Passed' = Passed /\ Owed' = Owed
  <2>1. Busy' = Busy
    BY <1>2, <1>3 DEF Busy
  <2> QED BY <1>2, <2>1, OwedIs DEF Passed
<1>5. Copied(end)'
  <2>1. end = Len(send_rb)
    BY <1>1, <1>2, <1>3 DEF Copied
  <2>2. end + 1 .. Len(send_rb) = {} /\ end + 1 - 1 = Len(send_rb)
    BY <2>1, StreamTypes
  <2> QED BY <1>2, <1>3, <2>1, <2>2 DEF Copied
<1>6. InHand(c)' /\ Queued(q, start)' /\ Ordered(c, q)'
  BY <1>1, <1>2, <1>4 DEF InHand, Queued, Ordered
<1>7. n = Len(sendQ') /\ start \in [1 .. n + 1 -> 0 .. Len(send_rb')] /\ end = start[n + 1]
  BY <1>1, <1>2
<1> QED BY <1>1, <1>5, <1>6, <1>7, StreamWitness

(* A byte more behind the queued messages.                                 *)
LEMMA StreamByte ==
  ASSUME TypeInv, TypeInv', WritersOK, BufferOK, StreamOK, NEW w \in Writer, WriteByte(w)
  PROVE  StreamOK'
<1>0. PICK c, n, q, start, end : Parts(c, n, q, start, end)
  BY StreamIs
<1>1. /\ c \in 0 .. MaxMsg /\ n = Len(sendQ) /\ q \in [1 .. n -> Msg]
      /\ start \in [1 .. n + 1 -> 0 .. Len(send_rb)] /\ end = start[n + 1]
      /\ InHand(c) /\ Queued(q, start) /\ Copied(end) /\ Ordered(c, q)
  BY <1>0, Zenon DEF Parts
<1>2. /\ UNCHANGED <<sendQ, snd, sent, built, out_buffer>>
      /\ writer[w].pc = "write" /\ writer[w].k <= writer[w].len
      /\ writer' = [writer EXCEPT ![w].k = @ + 1]
      /\ send_rb' = Append(send_rb, out_buffer[writer[w].k])
  BY DEF WriteByte, sndVars, wireVars, buildVars
<1> DEFINE len == Len(send_rb)
<1>3. PICK k : k = writer[w].k
  OBVIOUS
<1>4. k \in Nat \ {0} /\ k <= length /\ length \in Nat
  <2>1. WriterTypes /\ length \in 0 .. BufSize /\ BufSize \in Nat
    BY StreamTypes
  <2>2. writer[w].k \in Nat \ {0} /\ writer[w].len = length
    BY <1>2, <2>1 DEF WriterTypes, WritersOK
  <2> QED BY <1>2, <1>3, <2>1, <2>2
<1>5. /\ writer'[w].pc = "write" /\ writer'[w].k = k + 1
      /\ \A v \in Writer : v # w => writer'[v] = writer[v] /\ writer[v].pc = "idle"
  <2>1. WriterTypes
    BY StreamTypes
  <2>2. \A v \in Writer : v # w => writer[v].pc = "idle"
    BY <1>2 DEF WritersOK, Busy
  <2> QED BY <1>2, <1>3, <2>1, <2>2 DEF WriterTypes
<1>6. Passed' = Passed /\ Owed' = Owed /\ Busy # {}
  <2>1. Busy' = Busy /\ Busy # {}
    BY <1>2, <1>5 DEF Busy
  <2> QED BY <1>2, <2>1, OwedIs DEF Passed
<1>7. out_buffer[k] = <<built, k>> /\ out_buffer[k] \in Byte
  <2>1. Holds(built) /\ k \in 1 .. MsgLen[built] /\ k \in 1 .. BufSize
    BY <1>4, <1>6, StreamTypes DEF BufferOK, Holds
  <2> QED BY <2>1 DEF Holds, TypeInv, TypeOK
<1>8. /\ Len(send_rb') = len + 1 /\ len \in Nat /\ send_rb'[len + 1] = <<built, k>>
      /\ \A i \in 1 .. len : send_rb'[i] = send_rb[i]
  BY <1>2, <1>3, <1>7, StreamTypes, AppendProperties
<1>9. n \in Nat /\ n = Len(sendQ) /\ end = start[n + 1] /\ end \in 0 .. len
  <2>1. n \in Nat /\ n = Len(sendQ) /\ end = start[n + 1]
    BY <1>1, StreamTypes
  <2>2. n + 1 \in 1 .. n + 1
    BY <2>1
  <2>3. start[n + 1] \in 0 .. len
    BY <1>1, <2>2
  <2> QED BY <2>1, <2>3
<1>10. \A j \in 1 .. n + 1 : start[j] \in 0 .. len /\ start[j] <= end
  BY <1>1, <1>9 DEF Queued
<1>11. Owed \in Nat /\ Owed <= len
  <2>1. Owed = start[1]
    BY <1>1 DEF Queued
  <2> QED BY <1>9, <1>10, <2>1
<1> HIDE DEF len
<1>12. InHand(c)'
  <2>1. \A i \in 1 .. Owed : send_rb'[i] = <<c, snd.left - Owed + i>>
    BY <1>1, <1>8, <1>11 DEF InHand
  <2> QED BY <1>1, <1>2, <1>6, <2>1 DEF InHand
<1>13. Queued(q, start)'
  <2>1. ASSUME NEW j \in 1 .. n, NEW i \in 1 .. sendQ[j]
        PROVE  send_rb'[start[j] + i] = <<q[j], i>>
    <3>1. start[j] + i \in 1 .. len
      <4>1. start[j + 1] = start[j] + sendQ[j] /\ sendQ[j] \in Nat
        BY <1>1, <1>9, StreamTypes DEF Queued
      <4>2. start[j] \in 0 .. len /\ start[j + 1] \in 0 .. len
        BY <1>9, <1>10
      <4>3. len \in Nat
        BY <1>8
      <4> QED BY <4>1, <4>2, <4>3
    <3>2. send_rb[start[j] + i] = <<q[j], i>>
      BY <1>1, <1>9 DEF Queued
    <3> QED BY <1>8, <3>1, <3>2
  <2> QED BY <1>1, <1>2, <1>6, <1>9, <2>1 DEF Queued
<1>14. Copied(end)'
  <2>1. end + k - 1 = len
    BY <1>1, <1>2, <1>3 DEF Copied, len
  <2>2. \A v \in Writer : writer'[v].pc = "write" => end + writer'[v].k - 1 = Len(send_rb')
    <3>1. \A v \in Writer : writer'[v].pc = "write" => v = w
      BY <1>5
    <3>2. end + (k + 1) - 1 = len + 1
      BY <1>4, <1>8, <1>9, <2>1
    <3>3. end + writer'[w].k - 1 = Len(send_rb')
      BY <1>5, <1>8, <3>2
    <3> QED BY <3>1, <3>3, Zenon
  <2>3. ASSUME NEW i \in end + 1 .. Len(send_rb') PROVE send_rb'[i] = <<built, i - end>>
    <3>1. CASE i = len + 1
      <4>1. i - end = k
        BY <1>4, <1>8, <1>9, <2>1, <3>1
      <4> QED BY <1>8, <3>1, <4>1
    <3>2. CASE i # len + 1
      <4>1. i \in end + 1 .. len /\ i \in 1 .. len
        BY <1>8, <1>9, <3>2
      <4> QED BY <1>1, <1>8, <4>1 DEF Copied, len
    <3> QED BY <3>1, <3>2
  <2> QED BY <1>2, <1>5, <2>2, <2>3 DEF Copied
<1>15. Ordered(c, q)'
  BY <1>1, <1>2, <1>6 DEF Ordered
<1>16. n = Len(sendQ') /\ start \in [1 .. n + 1 -> 0 .. Len(send_rb')] /\ end = start[n + 1]
  <2>1. 0 .. len \subseteq 0 .. Len(send_rb')
    BY <1>8
  <2> QED BY <1>1, <1>2, <1>9, <1>10, <2>1
<1> QED BY <1>1, <1>12, <1>13, <1>14, <1>15, <1>16, StreamWitness

(* A message copied and announced comes last in the queue.                 *)
LEMMA StreamEnqueue ==
  ASSUME TypeInv, TypeInv', WritersOK, BufferOK, StreamOK, Unhurt', NEW w \in Writer, Enqueue(w)
  PROVE  StreamOK'
<1>0. PICK c, n, q, start, end : Parts(c, n, q, start, end)
  BY StreamIs
<1>1. /\ c \in 0 .. MaxMsg /\ n = Len(sendQ) /\ q \in [1 .. n -> Msg]
      /\ start \in [1 .. n + 1 -> 0 .. Len(send_rb)] /\ end = start[n + 1]
      /\ InHand(c) /\ Queued(q, start) /\ Copied(end) /\ Ordered(c, q)
  BY <1>0, Zenon DEF Parts
<1>2. /\ UNCHANGED <<send_rb, snd, sent, built, out_buffer>>
      /\ writer[w].pc = "write" /\ writer[w].k > writer[w].len
      /\ writer' = [writer EXCEPT ![w] = Idle]
  BY DEF Enqueue, Written, sndVars, wireVars, buildVars
<1>3. sendQ' = Append(sendQ, length)
  <2>1. sendQ' = Announced \/ damage' = damage \union {"queueFull"}
    BY Zenon DEF Enqueue
  <2> QED BY <2>1 DEF Announced, Unhurt
<1>4. PICK len, m : len = Len(send_rb) /\ m = built
  OBVIOUS
<1>5. writer[w].k = length + 1 /\ length \in Nat
  <2>1. length \in Nat /\ writer[w].k \in Nat /\ writer[w].len \in Nat
    BY StreamTypes DEF WriterTypes
  <2>2. writer[w].len = length /\ writer[w].k <= length + 1
    BY <1>2 DEF WritersOK
  <2> QED BY <1>2, <2>1, <2>2
<1>6. \A v \in Writer : writer'[v].pc = "idle" /\ (v # w => writer[v].pc = "idle")
  BY <1>2, StreamTypes DEF WritersOK, Busy, Idle
<1>7. Busy # {} /\ Busy' = {} /\ Passed = built - 1 /\ Passed' = built
  <2>1. Busy # {} /\ Busy' = {}
    BY <1>2, <1>6 DEF Busy
  <2> QED BY <1>2, <2>1 DEF Passed
<1>8. m \in Msg /\ length = MsgLen[m] /\ m \in Nat
  <2>1. built # 0 /\ Holds(built)
    BY <1>7 DEF BufferOK
  <2>2. built \in 0 .. MaxMsg /\ MaxMsg \in Nat
    BY MqttAssumption DEF TypeInv, TypeOK
  <2> QED BY <1>4, <2>1, <2>2 DEF Holds, Msg
<1>9. /\ len \in Nat /\ end + length = len
      /\ \A i \in end + 1 .. len : send_rb[i] = <<m, i - end>>
  <2>1. end + (length + 1) - 1 = len
    BY <1>1, <1>2, <1>4, <1>5 DEF Copied
  <2>2. len \in Nat /\ end \in Int
    <3>1. n \in Nat /\ n + 1 \in 1 .. n + 1 /\ len \in Nat
      BY <1>1, <1>4, StreamTypes
    <3>2. end \in 0 .. len
      BY <1>1, <1>4, <3>1
    <3> QED BY <3>1, <3>2
  <2>3. \A i \in end + 1 .. len : send_rb[i] = <<m, i - end>>
    BY <1>1, <1>4 DEF Copied
  <2> QED BY <1>5, <2>1, <2>2, <2>3
<1> DEFINE q2 == [j \in 1 .. n + 1 |-> IF j = n + 1 THEN m ELSE q[j]]
           start2 == [j \in 1 .. n + 2 |-> IF j = n + 2 THEN len ELSE start[j]]
<1>10. /\ n \in Nat /\ Len(sendQ') = n + 1 /\ sendQ'[n + 1] = length
       /\ \A j \in 1 .. n : sendQ'[j] = sendQ[j]
  <2>1. length \in 0 .. BufSize
    BY StreamTypes
  <2> QED BY <1>1, <1>3, <2>1, StreamTypes, AppendProperties
<1>11. /\ \A j \in 1 .. n + 1 : start[j] \in 0 .. len /\ start[j] <= end
       /\ end \in 0 .. len
  <2>1. \A j \in 1 .. n + 1 : start[j] \in 0 .. len
    BY <1>1, <1>4
  <2>2. n + 1 \in 1 .. n + 1
    BY <1>10
  <2>3. \A j \in 1 .. n + 1 : start[j] <= start[n + 1]
    BY <1>1, <1>10, <2>2 DEF Queued
  <2> QED BY <1>1, <2>1, <2>2, <2>3
<1>12. /\ q2 \in [1 .. n + 1 -> Msg] /\ start2 \in [1 .. n + 2 -> 0 .. len]
       /\ q2[n + 1] = m /\ \A j \in 1 .. n : q2[j] = q[j]
       /\ start2[n + 2] = len /\ \A j \in 1 .. n + 1 : start2[j] = start[j]
  <2>1. q2 \in [1 .. n + 1 -> Msg] /\ q2[n + 1] = m /\ \A j \in 1 .. n : q2[j] = q[j]
    BY <1>1, <1>8, <1>10
  <2>2. start2 \in [1 .. n + 2 -> 0 .. len]
    <3>1. \A j \in 1 .. n + 2 : j # n + 2 => j \in 1 .. n + 1
      BY <1>10
    <3> QED BY <1>9, <1>11, <3>1
  <2>3. start2[n + 2] = len /\ \A j \in 1 .. n + 1 : start2[j] = start[j]
    BY <1>10
  <2> QED BY <2>1, <2>2, <2>3
<1> HIDE DEF q2, start2
<1>13. PICK qq, ss : qq = q2 /\ ss = start2
  OBVIOUS
<1>14. Owed' = Owed
  BY <1>2, OwedIs
<1>15. InHand(c)'
  <2>1. 1 .. Passed \subseteq 1 .. Passed'
    BY <1>4, <1>7, <1>8
  <2> QED BY <1>1, <1>2, <1>14, <2>1 DEF InHand
<1>16. Queued(qq, ss)'
  <2>1. ss[1] = Owed'
    BY <1>1, <1>10, <1>12, <1>13, <1>14 DEF Queued
  <2>2. ASSUME NEW j \in 1 .. n + 1
        PROVE  /\ sendQ'[j] = MsgLen[qq[j]]
               /\ ss[j + 1] = ss[j] + sendQ'[j]
               /\ \A i \in 1 .. sendQ'[j] : send_rb'[ss[j] + i] = <<qq[j], i>>
    <3>1. CASE j = n + 1
      <4>1. sendQ'[j] = length /\ qq[j] = m /\ ss[j] = end /\ ss[j + 1] = len
        BY <1>1, <1>10, <1>12, <1>13, <3>1
      <4>2. ASSUME NEW i \in 1 .. length PROVE send_rb[end + i] = <<m, i>>
        <5>1. end + i \in end + 1 .. len /\ (end + i) - end = i
          BY <1>5, <1>9, <1>11
        <5> QED BY <1>9, <5>1
      <4> QED BY <1>2, <1>8, <1>9, <4>1, <4>2
    <3>2. CASE j # n + 1
      <4>1. j \in 1 .. n /\ j \in 1 .. n + 1 /\ j + 1 \in 1 .. n + 1
        BY <1>10, <3>2
      <4>2. sendQ'[j] = sendQ[j] /\ qq[j] = q[j] /\ ss[j] = start[j] /\ ss[j + 1] = start[j + 1]
        BY <1>10, <1>12, <1>13, <4>1
      <4> QED BY <1>1, <1>2, <4>1, <4>2 DEF Queued
    <3> QED BY <3>1, <3>2
  <2>3. ASSUME NEW i \in 1 .. n + 2, NEW j \in 1 .. n + 2, i <= j PROVE ss[i] <= ss[j]
    <3>1. CASE i = n + 2
      <4>1. j = n + 2
        BY <1>10, <2>3, <3>1
      <4> QED BY <1>9, <1>12, <1>13, <3>1, <4>1
    <3>2. CASE i # n + 2 /\ j = n + 2
      <4>1. i \in 1 .. n + 1
        BY <1>10, <3>2
      <4> QED BY <1>9, <1>11, <1>12, <1>13, <3>2, <4>1
    <3>3. CASE i # n + 2 /\ j # n + 2
      <4>1. i \in 1 .. n + 1 /\ j \in 1 .. n + 1
        BY <1>10, <3>3
      <4>2. start[i] <= start[j]
        BY <1>1, <2>3, <4>1 DEF Queued
      <4> QED BY <1>12, <1>13, <4>1, <4>2
    <3> QED BY <3>1, <3>2, <3>3
  <2>4. Len(sendQ') = n + 1 /\ Len(sendQ') + 1 = n + 2
    BY <1>10
  <2> QED BY <2>1, <2>2, <2>3, <2>4 DEF Queued
<1>17. Copied(len)'
  <2>1. len + 1 .. len = {}
    BY <1>9
  <2> QED BY <1>2, <1>4, <1>6, <2>1 DEF Copied
<1>18. Ordered(c, qq)'
  <2>1. \A j \in 1 .. n + 1 : j # n + 1 => j \in 1 .. n
    BY <1>10
  <2>2. \A j \in 1 .. n : /\ q[j] <= m - 1 /\ q[j] \in Nat
                          /\ \A p \in 1 .. Len(sent) : sent[p] < q[j]
                          /\ snd.left > 0 => c < q[j]
    BY <1>1, <1>4, <1>7, StreamTypes DEF Ordered
  <2>3. \A p \in 1 .. Len(sent) : sent[p] <= m - 1 /\ sent[p] \in Nat
    BY <1>1, <1>4, <1>7, StreamTypes DEF Ordered
  <2>4. snd.left > 0 => c < m /\ c \in Nat
    BY <1>1, <1>4, <1>7, <1>8 DEF InHand
  <2>5. ASSUME NEW j \in 1 .. n + 1
        PROVE  /\ \A p \in 1 .. Len(sent) : sent[p] < qq[j]
               /\ snd.left > 0 => c < qq[j]
               /\ qq[j] <= m
    <3>1. CASE j = n + 1
      BY <1>8, <1>12, <1>13, <2>3, <2>4, <3>1
    <3>2. CASE j # n + 1
      <4>1. j \in 1 .. n /\ qq[j] = q[j]
        BY <1>12, <1>13, <2>1, <3>2
      <4> QED BY <1>8, <2>2, <4>1
    <3> QED BY <3>1, <3>2
  <2>6. ASSUME NEW i \in 1 .. n + 1, NEW j \in 1 .. n + 1, i < j PROVE qq[i] < qq[j]
    <3>1. i \in 1 .. n /\ qq[i] = q[i]
      BY <1>10, <1>12, <1>13, <2>6
    <3>2. CASE j = n + 1
      BY <1>8, <1>12, <1>13, <2>2, <3>1, <3>2
    <3>3. CASE j # n + 1
      <4>1. j \in 1 .. n /\ qq[j] = q[j]
        BY <1>12, <1>13, <2>1, <3>3
      <4> QED BY <1>1, <2>6, <3>1, <4>1 DEF Ordered
    <3> QED BY <3>2, <3>3
  <2>7. \A p \in 1 .. Len(sent) : sent[p] <= m
    BY <1>8, <2>3
  <2>8. Passed' = m /\ Len(sendQ') = n + 1
    BY <1>4, <1>7, <1>10
  <2> QED BY <1>2, <2>5, <2>6, <2>7, <2>8 DEF Ordered
<1>19. /\ n + 1 = Len(sendQ') /\ qq \in [1 .. n + 1 -> Msg]
       /\ ss \in [1 .. (n + 1) + 1 -> 0 .. Len(send_rb')] /\ len = ss[(n + 1) + 1]
  <2>1. (n + 1) + 1 = n + 2
    BY <1>10
  <2> QED BY <1>2, <1>4, <1>10, <1>12, <1>13, <2>1
<1> QED BY <1>1, <1>15, <1>16, <1>17, <1>18, <1>19, StreamWitness

(* The first length in the queue makes its message the one in hand.        *)
LEMMA StreamReceive ==
  ASSUME TypeInv, TypeInv', StreamOK, ReceiveLength
  PROVE  StreamOK'
<1>0. PICK c, n, q, start, end : Parts(c, n, q, start, end)
  BY StreamIs
<1>1. /\ c \in 0 .. MaxMsg /\ n = Len(sendQ) /\ q \in [1 .. n -> Msg]
      /\ start \in [1 .. n + 1 -> 0 .. Len(send_rb)] /\ end = start[n + 1]
      /\ InHand(c) /\ Queued(q, start) /\ Copied(end) /\ Ordered(c, q)
  BY <1>0, Zenon DEF Parts
<1>2. /\ UNCHANGED <<send_rb, writer, sent, built, out_buffer>>
      /\ snd.pc = "wait" /\ sendQ # <<>> /\ sendQ' = Tail(sendQ)
      /\ snd' = [Fresh EXCEPT !.pc = "loop", !.left = Head(sendQ)]
  BY DEF ReceiveLength, wireVars, buildVars
<1>3. PICK h, len : h = Head(sendQ) /\ len = Len(send_rb)
  OBVIOUS
<1>4. snd'.pc = "loop" /\ snd'.left = h
  BY <1>2, <1>3 DEF Fresh
<1>5. /\ n \in Nat \ {0} /\ Len(sendQ') = n - 1 /\ h = sendQ[1] /\ h \in Nat /\ len \in Nat
      /\ \A j \in 1 .. n - 1 : sendQ'[j] = sendQ[j + 1]
  <2>1. n \in Nat \ {0}
    BY <1>1, <1>2, StreamTypes, EmptySeq
  <2>2. h = sendQ[1] /\ h \in Nat /\ len \in Nat
    <3>1. len \in Nat /\ Len(sendQ) = n /\ sendQ \in Seq(0 .. BufSize)
      BY <1>1, <1>3, StreamTypes
    <3>2. sendQ[1] \in Nat
      BY <1>1, <2>1, StreamTypes
    <3>3. Head(sendQ) = sendQ[1]
      BY <3>1, <1>2
    <3> QED BY <1>3, <3>1, <3>2, <3>3
  <2> QED BY <1>1, <1>2, <2>1, <2>2, StreamTypes, HeadTailProperties
<1>6. Owed = 0 /\ Owed' = h
  <2>1. snd' \in Sender /\ SenderShape(snd')
    BY DEF TypeInv, TypeOK, SenderOK, SenderShape, Sender
  <2> QED BY <1>2, <1>4, <2>1, OwedIs, OwedCases, StreamTypes
<1>7. PICK cc : cc = q[1]
  OBVIOUS
<1>8. /\ cc \in Msg /\ cc \in 0 .. MaxMsg /\ cc \in Nat /\ h = MsgLen[cc] /\ start[1] = 0 /\ start[2] = h
      /\ \A i \in 1 .. h : send_rb[i] = <<cc, i>>
  <2>1. 1 \in 1 .. n
    BY <1>5
  <2>2. cc \in Msg
    BY <1>1, <1>7, <2>1
  <2>3. cc \in 0 .. MaxMsg /\ cc \in Nat
    BY <2>2, MqttAssumption DEF Msg
  <2>4. /\ sendQ[1] = MsgLen[q[1]] /\ start[1 + 1] = start[1] + sendQ[1] /\ start[1] = 0
        /\ \A i \in 1 .. sendQ[1] : send_rb[start[1] + i] = <<q[1], i>>
    BY <1>1, <1>6, <2>1 DEF Queued
  <2>5. start[2] = h
    BY <1>5, <2>4
  <2>6. ASSUME NEW i \in 1 .. h PROVE send_rb[i] = <<cc, i>>
    <3>1. 0 + i = i
      BY <1>5
    <3> QED BY <1>5, <1>7, <2>4, <3>1
  <2> QED BY <1>5, <1>7, <2>2, <2>3, <2>4, <2>5, <2>6
<1> DEFINE q2 == [j \in 1 .. n - 1 |-> q[j + 1]]
           start2 == [j \in 1 .. n |-> start[j + 1]]
<1>9. /\ \A j \in 1 .. n : j \in 1 .. n + 1 /\ j + 1 \in 1 .. n + 1
      /\ \A j \in 1 .. n - 1 : j \in 1 .. n /\ j + 1 \in 1 .. n
  BY <1>5
<1>10. /\ q2 \in [1 .. n - 1 -> Msg] /\ start2 \in [1 .. n -> 0 .. len]
       /\ \A j \in 1 .. n - 1 : q2[j] = q[j + 1]
       /\ \A j \in 1 .. n : start2[j] = start[j + 1]
  BY <1>1, <1>3, <1>9
<1> HIDE DEF q2, start2
<1>11. PICK qq, ss : qq = q2 /\ ss = start2
  OBVIOUS
<1>12. Passed' = Passed
  BY <1>2 DEF Passed, Busy
<1>13. InHand(cc)'
  <2>1. snd'.left > 0 => /\ cc \in 1 .. Passed' /\ MsgLen[cc] = snd'.left
                         /\ \A p \in 1 .. Len(sent') : sent'[p] < cc
    <3>1. 1 \in 1 .. n
      BY <1>5
    <3>2. cc <= Passed /\ \A p \in 1 .. Len(sent) : sent[p] < cc
      BY <1>1, <1>7, <3>1 DEF Ordered
    <3>3. Passed \in Int
      BY StreamTypes DEF Passed
    <3>4. cc \in 1 .. Passed
      BY <1>8, <3>2, <3>3 DEF Msg
    <3> QED BY <1>2, <1>4, <1>8, <1>12, <3>2, <3>4
  <2>2. ASSUME NEW i \in 1 .. Owed' PROVE send_rb'[i] = <<cc, snd'.left - Owed' + i>>
    <3>1. h - h + i = i
      BY <1>5, <1>6
    <3> QED BY <1>2, <1>4, <1>6, <1>8, <3>1
  <2> QED BY <1>4, <2>1, <2>2 DEF InHand
<1>14. Queued(qq, ss)'
  <2>1. ss[1] = Owed'
    <3>1. 1 \in 1 .. n /\ 1 + 1 = 2
      BY <1>5
    <3> QED BY <1>6, <1>8, <1>10, <1>11, <3>1
  <2>2. ASSUME NEW j \in 1 .. n - 1
        PROVE  /\ sendQ'[j] = MsgLen[qq[j]]
               /\ ss[j + 1] = ss[j] + sendQ'[j]
               /\ \A i \in 1 .. sendQ'[j] : send_rb'[ss[j] + i] = <<qq[j], i>>
    <3>1. PICK k : k = j + 1
      OBVIOUS
    <3>2. k \in 1 .. n /\ j \in 1 .. n
      BY <1>9, <3>1
    <3>3. sendQ'[j] = sendQ[k] /\ qq[j] = q[k] /\ ss[j] = start[k] /\ ss[j + 1] = start[k + 1]
      BY <1>5, <1>10, <1>11, <3>1, <3>2
    <3>4. /\ sendQ[k] = MsgLen[q[k]] /\ start[k + 1] = start[k] + sendQ[k]
          /\ \A i \in 1 .. sendQ[k] : send_rb[start[k] + i] = <<q[k], i>>
      BY <1>1, <3>2 DEF Queued
    <3> QED BY <1>2, <3>3, <3>4
  <2>3. ASSUME NEW i \in 1 .. n, NEW j \in 1 .. n, i <= j PROVE ss[i] <= ss[j]
    <3>1. i + 1 \in 1 .. n + 1 /\ j + 1 \in 1 .. n + 1 /\ i + 1 <= j + 1
      BY <1>5, <2>3
    <3>2. start[i + 1] <= start[j + 1]
      BY <1>1, <3>1 DEF Queued
    <3> QED BY <1>10, <1>11, <3>2
  <2>4. Len(sendQ') = n - 1 /\ Len(sendQ') + 1 = n
    BY <1>5
  <2> QED BY <2>1, <2>2, <2>3, <2>4 DEF Queued
<1>15. Copied(end)'
  BY <1>1, <1>2 DEF Copied
<1>16. Ordered(cc, qq)'
  <2>1. ASSUME NEW j \in 1 .. n - 1
        PROVE  /\ \A p \in 1 .. Len(sent) : sent[p] < qq[j]
               /\ cc < qq[j]
               /\ qq[j] <= Passed
    <3>1. PICK k : k = j + 1
      OBVIOUS
    <3>2. k \in 1 .. n /\ 1 \in 1 .. n /\ 1 < k
      BY <1>5, <3>1
    <3>3. qq[j] = q[k]
      BY <1>10, <1>11, <3>1
    <3> QED BY <1>1, <1>7, <3>2, <3>3 DEF Ordered
  <2>2. ASSUME NEW i \in 1 .. n - 1, NEW j \in 1 .. n - 1, i < j PROVE qq[i] < qq[j]
    <3>1. i + 1 \in 1 .. n /\ j + 1 \in 1 .. n /\ i + 1 < j + 1
      BY <1>5, <2>2
    <3>2. q[i + 1] < q[j + 1]
      BY <1>1, <3>1 DEF Ordered
    <3> QED BY <1>10, <1>11, <3>2
  <2>3. \A p \in 1 .. Len(sent) : sent[p] <= Passed
    BY <1>1 DEF Ordered
  <2> QED BY <1>2, <1>5, <1>12, <2>1, <2>2, <2>3 DEF Ordered
<1>17. /\ n - 1 = Len(sendQ') /\ qq \in [1 .. n - 1 -> Msg]
       /\ ss \in [1 .. (n - 1) + 1 -> 0 .. Len(send_rb')] /\ end = ss[(n - 1) + 1]
  <2>1. (n - 1) + 1 = n /\ n \in 1 .. n
    BY <1>5
  <2> QED BY <1>1, <1>2, <1>3, <1>5, <1>10, <1>11, <2>1
<1> QED BY <1>8, <1>13, <1>14, <1>15, <1>16, <1>17, StreamWitness

(* A byte moves from the ring into the buffer, and everything behind it    *)
(* moves up.                                                               *)
LEMMA StreamRead ==
  ASSUME TypeInv, TypeInv', StreamOK, ReadByte
  PROVE  StreamOK'
<1>0. PICK c, n, q, start, end : Parts(c, n, q, start, end)
  BY StreamIs
<1>1. /\ c \in 0 .. MaxMsg /\ n = Len(sendQ) /\ q \in [1 .. n -> Msg]
      /\ start \in [1 .. n + 1 -> 0 .. Len(send_rb)] /\ end = start[n + 1]
      /\ InHand(c) /\ Queued(q, start) /\ Copied(end) /\ Ordered(c, q)
  BY <1>0, Zenon DEF Parts
<1>2. /\ UNCHANGED <<sendQ, writer, sent, built>>
      /\ snd.pc = "read" /\ send_rb # <<>> /\ send_rb' = Tail(send_rb)
      /\ out_buffer' = [out_buffer EXCEPT ![snd.k] = Head(send_rb)]
      /\ snd' = IF snd.k = snd.n THEN [snd EXCEPT !.pc = "write"] ELSE [snd EXCEPT !.k = @ + 1]
  BY DEF ReadByte, Rest, wireVars
<1>3. PICK len, k, left, owed : len = Len(send_rb) /\ k = snd.k /\ left = snd.left /\ owed = Owed
  OBVIOUS
<1>4. /\ k \in 1 .. BufSize /\ k \in Nat \ {0} /\ left \in Nat /\ snd.n = left /\ k <= left
      /\ owed = left - (k - 1) /\ owed \in Nat \ {0}
  <2>1. k \in 1 .. BufSize /\ BufSize \in Nat /\ left \in Nat /\ k \in Nat \ {0}
    BY <1>3, StreamTypes DEF Sender
  <2>2. snd.n = left /\ k <= left
    BY <1>2, <1>3, StreamTypes DEF SenderShape
  <2>3. owed = left - (k - 1)
    BY <1>2, <1>3, StreamTypes, OwedIs, OwedCases
  <2> QED BY <2>1, <2>2, <2>3
<1>5. /\ snd'.left = left
      /\ (k = left /\ snd'.pc = "write") \/ (k # left /\ snd'.pc = "read" /\ snd'.k = k + 1)
  BY <1>2, <1>3, <1>4, StreamTypes DEF Sender
<1>6. Owed' = owed - 1
  <2>1. snd' \in Sender /\ SenderShape(snd')
    BY DEF TypeInv, TypeOK, SenderOK, SenderShape, Sender
  <2>2. CASE k = left
    <3>1. OwedOf(snd') = 0
      BY <1>5, <2>1, <2>2, OwedCases
    <3> QED BY <1>4, <2>2, <3>1, OwedIs
  <2>3. CASE k # left
    <3>1. OwedOf(snd') = left - ((k + 1) - 1)
      BY <1>5, <2>1, <2>3, OwedCases
    <3> QED BY <1>4, <3>1, OwedIs
  <2> QED BY <2>2, <2>3
<1>7. /\ len \in Nat \ {0} /\ Len(send_rb') = len - 1 /\ Head(send_rb) = send_rb[1]
      /\ \A i \in 1 .. len - 1 : send_rb'[i] = send_rb[i + 1]
  <2>1. len \in Nat \ {0}
    BY <1>2, <1>3, StreamTypes, EmptySeq
  <2> QED BY <1>2, <1>3, <2>1, StreamTypes, HeadTailProperties
<1>8. /\ n \in Nat /\ \A j \in 1 .. n + 1 : start[j] \in 1 .. len
      /\ owed <= len /\ end \in 1 .. len
  <2>1. n \in Nat /\ 1 \in 1 .. n + 1 /\ n + 1 \in 1 .. n + 1
    BY <1>1, StreamTypes
  <2>2. start[1] = owed
    BY <1>1, <1>3 DEF Queued
  <2>3. ASSUME NEW j \in 1 .. n + 1 PROVE start[j] \in 1 .. len
    <3>1. start[j] \in 0 .. len
      BY <1>1, <1>3
    <3>2. start[1] <= start[j]
      BY <1>1, <2>1 DEF Queued
    <3> QED BY <1>4, <1>7, <2>2, <3>1, <3>2
  <2>4. start[1] \in 1 .. len /\ start[n + 1] \in 1 .. len
    BY <2>1, <2>3
  <2> QED BY <1>1, <1>7, <2>1, <2>2, <2>3, <2>4
<1>9. Head(send_rb) = <<c, k>>
  <2>1. 1 \in 1 .. Owed /\ snd.left - Owed + 1 = k
    BY <1>3, <1>4
  <2>2. send_rb[1] = <<c, snd.left - Owed + 1>>
    BY <1>1, <2>1 DEF InHand
  <2> QED BY <1>7, <2>1, <2>2
<1> DEFINE start2 == [j \in 1 .. n + 1 |-> start[j] - 1]
<1>10. start2 \in [1 .. n + 1 -> 0 .. len - 1] /\ \A j \in 1 .. n + 1 : start2[j] = start[j] - 1
  <2>1. \A j \in 1 .. n + 1 : start[j] - 1 \in 0 .. len - 1
    BY <1>7, <1>8
  <2> QED BY <2>1
<1> HIDE DEF start2
<1>11. PICK ss, end2 : ss = start2 /\ end2 = end - 1
  OBVIOUS
<1>12. Passed' = Passed
  BY <1>2 DEF Passed, Busy
<1>13. InHand(c)'
  <2>1. snd'.left > 0 => /\ c \in 1 .. Passed' /\ MsgLen[c] = snd'.left
                         /\ \A p \in 1 .. Len(sent') : sent'[p] < c
    BY <1>1, <1>2, <1>3, <1>5, <1>12 DEF InHand
  <2>2. \A i \in 1 .. k : out_buffer'[i] = <<c, i>>
    <3>1. DOMAIN out_buffer = 1 .. BufSize /\ BufSize \in Nat
      BY MqttAssumption DEF TypeInv, TypeOK
    <3>2. \A i \in 1 .. k - 1 : out_buffer[i] = <<c, i>>
      BY <1>1, <1>2, <1>3 DEF InHand
    <3>3. out_buffer'[k] = <<c, k>>
      BY <1>2, <1>3, <1>4, <1>9, <3>1
    <3>4. \A i \in 1 .. k - 1 : out_buffer'[i] = out_buffer[i]
      BY <1>2, <1>3, <1>4, <3>1
    <3> QED BY <1>4, <3>2, <3>3, <3>4
  <2>3. snd'.pc = "read" => \A i \in 1 .. snd'.k - 1 : out_buffer'[i] = <<c, i>>
    BY <1>4, <1>5, <2>2
  <2>4. snd'.pc = "write" => \A i \in 1 .. snd'.left : out_buffer'[i] = <<c, i>>
    BY <1>5, <2>2
  <2>5. ASSUME NEW i \in 1 .. Owed' PROVE send_rb'[i] = <<c, snd'.left - Owed' + i>>
    <3>1. i \in 1 .. len - 1 /\ i + 1 \in 1 .. Owed
      BY <1>3, <1>4, <1>6, <1>7, <1>8
    <3>2. send_rb[i + 1] = <<c, snd.left - Owed + (i + 1)>>
      BY <1>1, <3>1 DEF InHand
    <3>3. snd.left - Owed + (i + 1) = snd'.left - Owed' + i
      <4>1. left - owed + (i + 1) = left - (owed - 1) + i
        BY <1>4, <1>7, <3>1
      <4> QED BY <1>3, <1>5, <1>6, <4>1
    <3> QED BY <1>7, <3>1, <3>2, <3>3
  <2> QED BY <2>1, <2>3, <2>4, <2>5 DEF InHand
<1>14. Queued(q, ss)'
  <2>1. ss[1] = Owed'
    <3>1. 1 \in 1 .. n + 1
      BY <1>8
    <3>2. start[1] = owed
      BY <1>1, <1>3 DEF Queued
    <3> QED BY <1>6, <1>10, <1>11, <3>1, <3>2
  <2>2. ASSUME NEW j \in 1 .. n
        PROVE  /\ sendQ[j] = MsgLen[q[j]]
               /\ ss[j + 1] = ss[j] + sendQ[j]
               /\ \A i \in 1 .. sendQ[j] : send_rb'[ss[j] + i] = <<q[j], i>>
    <3>1. /\ sendQ[j] = MsgLen[q[j]] /\ start[j + 1] = start[j] + sendQ[j]
          /\ \A i \in 1 .. sendQ[j] : send_rb[start[j] + i] = <<q[j], i>>
      BY <1>1 DEF Queued
    <3>2. j \in 1 .. n + 1 /\ j + 1 \in 1 .. n + 1 /\ sendQ[j] \in Nat
      BY <1>1, <1>8, StreamTypes
    <3>3. /\ ss[j] = start[j] - 1 /\ ss[j + 1] = start[j + 1] - 1
          /\ start[j] \in 1 .. len /\ start[j + 1] \in 1 .. len
      BY <1>8, <1>10, <1>11, <3>2
    <3>4. ss[j + 1] = ss[j] + sendQ[j]
      BY <1>7, <3>1, <3>2, <3>3
    <3>5. ASSUME NEW i \in 1 .. sendQ[j] PROVE send_rb'[ss[j] + i] = <<q[j], i>>
      <4>0. PICK x, y, z : x = start[j] /\ y = start[j + 1] /\ z = sendQ[j]
        OBVIOUS
      <4>1. /\ x \in 1 .. len /\ y \in 1 .. len /\ y = x + z /\ z \in Nat
            /\ ss[j] = x - 1 /\ i \in 1 .. z /\ len \in Nat
        BY <1>7, <3>1, <3>2, <3>3, <4>0
      <4>2. (x - 1) + i \in 1 .. len - 1 /\ ((x - 1) + i) + 1 = x + i
        BY <4>1
      <4>3. ss[j] + i \in 1 .. len - 1 /\ (ss[j] + i) + 1 = start[j] + i
        BY <4>0, <4>1, <4>2
      <4> QED BY <1>7, <3>1, <4>3
    <3> QED BY <3>1, <3>4, <3>5
  <2>3. ASSUME NEW i \in 1 .. n + 1, NEW j \in 1 .. n + 1, i <= j PROVE ss[i] <= ss[j]
    <3>1. start[i] <= start[j] /\ start[i] \in 1 .. len /\ start[j] \in 1 .. len
      BY <1>1, <1>8, <2>3 DEF Queued
    <3> QED BY <1>7, <1>10, <1>11, <3>1
  <2> QED BY <1>1, <1>2, <2>1, <2>2, <2>3 DEF Queued
<1>15. Copied(end2)'
  <2>1. ASSUME NEW w \in Writer, writer[w].pc = "write"
        PROVE  end2 + writer[w].k - 1 = len - 1
    <3>1. writer[w].k \in Nat
      BY StreamTypes DEF WriterTypes
    <3>2. end + writer[w].k - 1 = len
      BY <1>1, <1>3, <2>1 DEF Copied
    <3> QED BY <1>7, <1>8, <1>11, <3>1, <3>2
  <2>2. (\A w \in Writer : writer[w].pc # "write") => end2 = len - 1
    BY <1>1, <1>3, <1>11 DEF Copied
  <2>3. ASSUME NEW i \in end2 + 1 .. len - 1 PROVE send_rb'[i] = <<built, i - end2>>
    <3>1. i \in 1 .. len - 1 /\ i + 1 \in end + 1 .. len /\ (i + 1) - end = i - end2
      BY <1>7, <1>8, <1>11
    <3>2. send_rb[i + 1] = <<built, (i + 1) - end>>
      BY <1>1, <1>3, <3>1 DEF Copied
    <3> QED BY <1>7, <3>1, <3>2
  <2> QED BY <1>2, <1>7, <2>1, <2>2, <2>3 DEF Copied
<1>16. Ordered(c, q)'
  BY <1>1, <1>2, <1>3, <1>5, <1>12 DEF Ordered
<1>17. /\ n = Len(sendQ') /\ ss \in [1 .. n + 1 -> 0 .. Len(send_rb')] /\ end2 = ss[n + 1]
  <2>1. n + 1 \in 1 .. n + 1
    BY <1>8
  <2> QED BY <1>1, <1>2, <1>7, <1>10, <1>11, <2>1
<1> QED BY <1>1, <1>13, <1>14, <1>15, <1>16, <1>17, StreamWitness

(* The message in hand goes out.                                           *)
LEMMA StreamSend ==
  ASSUME TypeInv, TypeInv', StreamOK, WireOK, SentOK, SendPiece
  PROVE  StreamOK' /\ WireOK' /\ SentOK'
<1>0. PICK c, n, q, start, end : Parts(c, n, q, start, end)
  BY StreamIs
<1>1. /\ c \in 0 .. MaxMsg /\ n = Len(sendQ) /\ q \in [1 .. n -> Msg]
      /\ start \in [1 .. n + 1 -> 0 .. Len(send_rb)] /\ end = start[n + 1]
      /\ InHand(c) /\ Queued(q, start) /\ Copied(end) /\ Ordered(c, q)
  BY <1>0, Zenon DEF Parts
<1>2. /\ UNCHANGED <<send_rb, sendQ, writer, built>>
      /\ snd.pc = "write" /\ snd' = [snd EXCEPT !.pc = "loop", !.left = @ - snd.n]
  BY DEF SendPiece, buildVars
<1>3. snd'.pc = "loop" /\ snd'.left = 0 /\ snd.left > 0
  BY <1>2, StreamTypes DEF Sender, SenderShape
<1>4. Owed = 0 /\ Owed' = 0
  <2>1. snd' \in Sender /\ SenderShape(snd')
    BY DEF TypeInv, TypeOK, SenderOK, SenderShape, Sender
  <2>2. OwedOf(snd') = snd'.left
    BY <1>3, <2>1, OwedCases
  <2>3. OwedOf(snd) = 0
    BY <1>2, StreamTypes, OwedCases
  <2> QED BY <1>3, <2>2, <2>3, OwedIs
<1>5. Passed' = Passed /\ Passed \in Int
  BY <1>2, StreamTypes DEF Passed, Busy
<1>6. UNCHANGED wireVars \/ (wire' = Whole(c) /\ sent' = Append(sent, c) /\ c \in Msg)
  BY <1>1, MessageWritten
<1>7. c \in 1 .. Passed /\ \A p \in 1 .. Len(sent) : sent[p] < c
  BY <1>1, <1>3 DEF InHand
(* What was sent before, and perhaps c.                                    *)
<1>8. /\ Len(sent') \in Nat
      /\ \A p \in 1 .. Len(sent') : \/ p \in 1 .. Len(sent) /\ sent'[p] = sent[p]
                                    \/ p = Len(sent) + 1 /\ p = Len(sent') /\ sent'[p] = c
  <2>1. CASE UNCHANGED wireVars
    BY <2>1, StreamTypes DEF wireVars
  <2>2. CASE sent' = Append(sent, c) /\ c \in Msg
    <3>1. /\ Len(sent') = Len(sent) + 1 /\ sent'[Len(sent) + 1] = c
          /\ \A p \in 1 .. Len(sent) : sent'[p] = sent[p]
      BY <2>2, StreamTypes, AppendProperties
    <3>2. PICK l : l = Len(sent) /\ l \in Nat
      BY StreamTypes
    <3>3. \A p \in 1 .. l + 1 : p \in 1 .. l \/ p = l + 1
      BY <3>2
    <3>4. Len(sent') = l + 1 /\ l + 1 \in Nat
      BY <3>1, <3>2
    <3> QED BY <3>1, <3>2, <3>3, <3>4, Zenon
  <2> QED BY <1>6, <2>1, <2>2
<1>9. InHand(c)'
  BY <1>3, <1>4 DEF InHand
<1>10. Queued(q, start)' /\ Copied(end)'
  BY <1>1, <1>2, <1>4 DEF Queued, Copied
<1>11. Ordered(c, q)'
  <2>1. \A j \in 1 .. n : /\ \A p \in 1 .. Len(sent) : sent[p] < q[j]
                          /\ c < q[j] /\ q[j] <= Passed
    BY <1>1, <1>3 DEF Ordered
  <2>2. \A i, j \in 1 .. n : i < j => q[i] < q[j]
    BY <1>1 DEF Ordered
  <2>3. \A p \in 1 .. Len(sent) : sent[p] <= Passed
    BY <1>1 DEF Ordered
  <2>4. \A p \in 1 .. Len(sent') : sent'[p] <= Passed
    BY <1>5, <1>7, <1>8, <2>3
  <2>5. \A j \in 1 .. n : \A p \in 1 .. Len(sent') : sent'[p] < q[j]
    BY <1>8, <2>1
  <2> QED BY <1>1, <1>2, <1>3, <1>5, <2>1, <2>2, <2>4, <2>5 DEF Ordered
<1>12. StreamOK'
  <2>1. n = Len(sendQ') /\ start \in [1 .. n + 1 -> 0 .. Len(send_rb')]
    BY <1>1, <1>2
  <2> QED BY <1>1, <1>9, <1>10, <1>11, <2>1, StreamWitness
<1>13. WireOK'
  BY <1>1, <1>6 DEF WireOK, wireVars, Whole
<1>14. SentOK'
  <2>1. ASSUME NEW i \in 1 .. Len(sent'), NEW j \in 1 .. Len(sent'), i < j
        PROVE  sent'[i] < sent'[j]
    <3>1. i \in 1 .. Len(sent) /\ sent'[i] = sent[i]
      BY <1>8, <2>1, StreamTypes
    <3>2. CASE j \in 1 .. Len(sent) /\ sent'[j] = sent[j]
      BY <2>1, <3>1, <3>2 DEF SentOK
    <3>3. CASE sent'[j] = c
      BY <1>7, <3>1, <3>3
    <3> QED BY <1>8, <3>2, <3>3
  <2> QED BY <2>1 DEF SentOK
<1> QED BY <1>12, <1>13, <1>14

(* All other steps keep the stream as it is.                               *)
LEMMA StreamRest ==
  ASSUME TypeInv, TypeInv', BufferOK, StreamOK, Unhurt',
         \/ NextPiece \/ MessageSent \/ Tick \/ PingBuild \/ PingSend
         \/ Dial \/ Greet \/ Accepted \/ Refused \/ Talk \/ ReceiveEnd \/ Reap \/ Lose
  PROVE  StreamOK'
<1>1. OwedOf(snd') = OwedOf(snd) /\ UNCHANGED <<send_rb, sendQ, writer>>
  BY OwedKept DEF Framed, Unhurt
<1>2. UNCHANGED built
  BY Zenon DEF NextPiece, MessageSent, Tick, PingBuild, PingSend, Dial, Greet, Accepted, Refused, Talk,
     ConnectedCallback, ReceiveOther, ReceiveSuback, ReceiveEnd, Reap, Lose, LoseLink, TaskStep,
     buildVars
<1>3. UNCHANGED sent
  <2>1. CASE PingSend \/ Greet
    BY <2>1, ControlSent
  <2>2. CASE \/ NextPiece \/ MessageSent \/ Tick \/ PingBuild \/ Dial \/ Accepted \/ Refused
             \/ Talk \/ ReceiveEnd \/ Reap \/ Lose
    <3>1. UNCHANGED wireVars
      BY <2>2, Zenon DEF NextPiece, MessageSent, Tick, PingBuild, Dial, Accepted, Refused, Talk,
         ConnectedCallback, ReceiveOther, ReceiveSuback, ReceiveEnd, Reap, Lose, LoseLink
    <3> QED BY <3>1 DEF wireVars
  <2> QED BY <2>1, <2>2
<1>4. CASE NextPiece
  <2>1. snd' = [snd EXCEPT !.pc = "read", !.n = Lesser(snd.left, BufSize), !.k = 1]
    BY <1>4, Zenon DEF NextPiece
  <2>2. snd'.pc = "read" /\ snd'.left = snd.left /\ snd'.k = 1
    BY <2>1, StreamTypes DEF Sender
  <2> QED BY <1>1, <1>2, <1>3, <2>2, StreamKept
<1>5. CASE PingBuild
  <2>1. snd.pc = "wait" /\ snd' = [snd EXCEPT !.pc = "ping"]
    BY <1>5, Zenon DEF PingBuild
  <2>2. snd'.pc = "ping" /\ snd'.left = snd.left
    BY <2>1, StreamTypes DEF Sender
  <2> QED BY <1>1, <1>2, <1>3, <2>2, StreamKept
<1>6. CASE MessageSent \/ PingSend \/ Accepted \/ Reap
  <2>1. snd' \in {Fresh, Dead}
    BY <1>6 DEF MessageSent, PingSend, Accepted, Reap, Spawned
  <2>2. snd'.pc \in {"wait", "dead"} /\ snd'.left = 0
    BY <2>1 DEF Fresh, Dead
  <2> QED BY <1>1, <1>2, <1>3, <2>2, StreamKept
<1>7. CASE Dial
  <2>1. UNCHANGED snd /\ mq = "dial"
    BY <1>7, Zenon DEF Dial, TaskStep
  <2>2. snd'.pc = "dead" /\ snd'.left = snd.left
    BY <2>1 DEF TypeInv, SenderOK
  <2> QED BY <1>1, <1>2, <1>3, <2>2, StreamKept
<1>8. CASE Tick \/ Greet \/ Refused \/ Talk \/ ReceiveEnd \/ Lose
  <2>1. UNCHANGED snd
    BY <1>8, Zenon DEF Tick, Greet, Refused, Talk, ConnectedCallback, ReceiveOther, ReceiveSuback,
       ReceiveEnd, Lose, LoseLink, sndVars
  <2>2. UNCHANGED out_buffer
    BY <1>8, Zenon DEF Tick, Greet, Refused, Talk, ConnectedCallback, ReceiveOther, ReceiveSuback,
       ReceiveEnd, Lose, LoseLink, buildVars
  <2> QED BY <1>1, <1>2, <1>3, <2>1, <2>2, StreamKept
<1> QED BY <1>4, <1>5, <1>6, <1>7, <1>8

(* What is on the wire changes only when something is written.             *)
LEMMA WireRest ==
  ASSUME TypeInv, BufferOK, WireOK, SentOK, Next, ~SendPiece
  PROVE  WireOK' /\ SentOK'
<1>1. CASE PingSend \/ Greet
  <2>1. UNCHANGED sent /\ (wire' = wire \/ wire' = Whole(0))
    BY <1>1, ControlSent
  <2>2. 0 \in 0 .. MaxMsg
    BY MqttAssumption
  <2> QED BY <2>1, <2>2 DEF WireOK, SentOK, Whole
<1>2. CASE \/ BuildStep \/ QueueStep \/ ReceiveLength \/ NextPiece \/ MessageSent \/ ReadByte \/ Tick
           \/ PingBuild \/ Dial \/ Accepted \/ Refused \/ Talk \/ ReceiveEnd \/ Reap \/ Lose
  <2>1. UNCHANGED wireVars
    BY <1>2, Zenon DEF BuildStep, LuaBuild, CallbackBuild, ReceiveRequest, Build, QueueStep,
                WriteBegin, WriteByte, Enqueue, ReceiveLength, NextPiece, MessageSent, ReadByte,
                Tick, PingBuild, Dial, Accepted, Refused, Talk, ConnectedCallback, ReceiveOther,
                ReceiveSuback, ReceiveEnd, Reap, Lose, LoseLink
  <2> QED BY <2>1 DEF wireVars, WireOK, SentOK, Whole
<1> QED BY <1>1, <1>2, NextCases

LEMMA UnhurtInit == ASSUME Init PROVE UnhurtInv
<1>1. \A w \in Writer : writer[w].pc = "idle"
  BY DEF Init, Idle
<1>2. /\ Busy = {} /\ mq = "dial" /\ snd = Dead /\ wire = <<>> /\ sent = <<>> /\ built = 0
      /\ send_rb = <<>> /\ sendQ = <<>> /\ Len(<<>>) = 0
  BY <1>1, EmptySeq DEF Init, Busy
<1>3. snd.pc = "dead" /\ snd.left = 0 /\ Owed = 0
  BY <1>2, OwedIs DEF Dead, OwedOf
<1>4. Exclusive /\ BufferOK /\ WireOK /\ SentOK
  BY <1>2, <1>3 DEF Exclusive, BufferOK, WireOK, SentOK
<1>5. StreamOK
  <2> DEFINE q == [j \in 1 .. 0 |-> 1]  start == [j \in 1 .. 1 |-> 0]
  <2>1. q \in [1 .. 0 -> Msg] /\ start \in [1 .. 1 -> 0 .. 0] /\ start[1] = 0
    OBVIOUS
  <2> HIDE DEF q, start
  <2>2. InHand(0) /\ Queued(q, start) /\ Copied(start[1]) /\ Ordered(0, q)
    BY <1>1, <1>2, <1>3, <2>1 DEF InHand, Queued, Copied, Ordered
  <2>3. Len(sendQ) = 0 /\ Len(sendQ) + 1 = 1 /\ Len(send_rb) = 0
    BY <1>2
  <2>4. Stream(0, q, start)
    BY <2>2, <2>3 DEF Stream
  <2>5. 0 \in 0 .. MaxMsg
    BY MqttAssumption
  <2> QED BY <2>1, <2>3, <2>4, <2>5 DEF StreamOK
<1> QED BY <1>4, <1>5 DEF UnhurtInv

LEMMA UnhurtStep ==
  ASSUME TypeInv, TypeInv', FramedInv, UnhurtInv, [Next]_vars
  PROVE  UnhurtInv'
<1>1. CASE Next
  <2>1. SUFFICES ASSUME Unhurt'
                 PROVE  Exclusive' /\ BufferOK' /\ StreamOK' /\ WireOK' /\ SentOK'
    BY DEF UnhurtInv
  <2>2. WritersOK /\ Exclusive /\ BufferOK /\ StreamOK /\ WireOK /\ SentOK
    BY <1>1, <2>1, Undamaged DEF TypeInv, FramedInv, UnhurtInv
  <2>3. Exclusive' /\ BufferOK'
    BY <1>1, <2>1, <2>2, NextBuffer
  <2>4. CASE SendPiece
    BY <2>2, <2>3, <2>4, StreamSend
  <2>5. CASE ~SendPiece
    <3>1. WireOK' /\ SentOK'
      BY <1>1, <2>2, <2>5, WireRest
    <3>2. CASE BuildStep
      BY <2>1, <2>2, <2>3, <3>1, <3>2, StreamBuild
    <3>3. CASE QueueStep
      <4>1. PICK w \in Writer : WriteBegin(w) \/ WriteByte(w) \/ Enqueue(w)
        BY <3>3, Zenon DEF QueueStep
      <4> QED BY <2>1, <2>2, <2>3, <3>1, <4>1, StreamBegin, StreamByte, StreamEnqueue
    <3>4. CASE ReceiveLength
      BY <2>2, <2>3, <3>1, <3>4, StreamReceive
    <3>5. CASE ReadByte
      BY <2>2, <2>3, <3>1, <3>5, StreamRead
    <3>6. CASE \/ NextPiece \/ MessageSent \/ Tick \/ PingBuild \/ PingSend
               \/ Dial \/ Greet \/ Accepted \/ Refused \/ Talk \/ ReceiveEnd \/ Reap \/ Lose
      BY <2>1, <2>2, <2>3, <3>1, <3>6, StreamRest
    <3> QED BY <1>1, <2>5, <3>2, <3>3, <3>4, <3>5, <3>6, NextCases
  <2> QED BY <2>4, <2>5
<1>2. CASE UNCHANGED vars
  <2>1. UNCHANGED <<built, out_buffer, length, send_rb, sendQ, writer, snd, mq, wire, sent, damage>>
    BY <1>2 DEF vars, buildVars, sndVars, wireVars
  <2>2. /\ Unhurt' = Unhurt /\ (Exclusive' <=> Exclusive) /\ (WireOK' <=> WireOK) /\ (SentOK' <=> SentOK)
        /\ (BufferOK' <=> BufferOK)
    BY <2>1 DEF Unhurt, Exclusive, SenderBusy, Busy, WireOK, SentOK, Whole, BufferOK, Holds
  <2>3. Unhurt /\ StreamOK => StreamOK'
    <3>1. OwedOf(snd') = OwedOf(snd)
      BY <2>1
    <3> QED BY <2>1, <3>1, StreamKept
  <2> QED BY <2>2, <2>3 DEF UnhurtInv
<1> QED BY <1>1, <1>2

-----------------------------------------------------------------------------

(* What holds of every state of the client, whatever was damaged.          *)
THEOREM MqttInvariant == Spec => [](TypeInv /\ FramedInv /\ UnhurtInv)
<1>1. Init => TypeInv /\ FramedInv /\ UnhurtInv
  BY TypeInit, FramedInit, UnhurtInit
<1>2. TypeInv /\ FramedInv /\ UnhurtInv /\ [Next]_vars => (TypeInv /\ FramedInv /\ UnhurtInv)'
  BY TypeStep, FramedStep, UnhurtStep
<1> QED BY <1>1, <1>2, PTL DEF Spec

(* The ring, the length queue and the indices into out_buffer of           *)
(* mqtt_sending_task and rb_write stay within their sizes.                 *)
THEOREM MqttTypeCorrect == Spec => []TypeOK
<1>1. TypeInv /\ FramedInv /\ UnhurtInv => TypeOK
  BY DEF TypeInv
<1> QED BY <1>1, MqttInvariant, PTL

(* mqtt_task leaks one socket for each failed handshake and no other.      *)
THEOREM SocketsBalanced == Spec => []SocketsAccounted
<1>1. TypeInv /\ FramedInv /\ UnhurtInv => SocketsAccounted
  BY DEF TypeInv
<1> QED BY <1>1, MqttInvariant, PTL

(* While the framing holds, the ring holds exactly what the lengths queued, *)
(* the sending task and the writer at work account for.                    *)
THEOREM RingBalanced == Spec => []RingAccounted
<1>1. TypeInv /\ FramedInv /\ UnhurtInv => RingAccounted
  BY DEF FramedInv
<1> QED BY <1>1, MqttInvariant, PTL

(* Every packet that mqtt_sending_task and mqtt_connect write is the whole *)
(* of one message as long as no two tasks were in out_buffer at once.      *)
THEOREM WholePackets == Spec => []PacketsWhole
<1>1. TypeInv /\ FramedInv /\ UnhurtInv => PacketsWhole
  BY DEF UnhurtInv, WireOK, PacketsWhole
<1> QED BY <1>1, MqttInvariant, PTL

(* Messages leave in the order in which they were built, none twice, and   *)
(* across the reconnections of mqtt_task.                                  *)
THEOREM OrderedPackets == Spec => []PacketsInOrder
<1>1. TypeInv /\ FramedInv /\ UnhurtInv => PacketsInOrder
  BY DEF UnhurtInv, SentOK, PacketsInOrder
<1> QED BY <1>1, MqttInvariant, PTL

=============================================================================
