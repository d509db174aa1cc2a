----------------------------- MODULE MqttClient -----------------------------
(***************************************************************************)
(* The MQTT client of the LuaNode32 firmware, components/espmqtt/mqtt.c.   *)
(* Three kinds of tasks share one client without a lock:                   *)
(*   - tasks that run Lua build PUBLISH and SUBSCRIBE messages in          *)
(*     out_buffer and copy them byte by byte into the ring send_rb, then   *)
(*     put their length on xSendingQueue;                                  *)
(*   - mqtt_task connects, shakes hands, starts the sending task, receives, *)
(*     builds acknowledgements the same way, and deletes the sending task  *)
(*     when the connection closes;                                         *)
(*   - the sending task takes a length, reads that many bytes from the     *)
(*     ring back into out_buffer and writes them to the socket, or builds  *)
(*     a PINGREQ in out_buffer when nothing was queued for long enough.    *)
(*                                                                         *)
(* A byte is <<m, i>>, the i-th byte of message m; message 0 stands for    *)
(* the control messages (CONNECT, PINGREQ), which never enter the ring.    *)
(* Building a message is one step, and so is moving a byte through the     *)
(* ring.  A broker that answers anything but CONNACK first, and a failing  *)
(* xTaskCreate, are left out.                                              *)
(***************************************************************************)
EXTENDS Integers, Sequences, FiniteSets

CONSTANTS
  LuaTask,      (* the tasks that run Lua                                  *)
  MqttTask,     (* mqtt_task, a writer while it receives                   *)
  MaxMsg,       (* bound: messages 1 .. MaxMsg are built                   *)
  MsgLen,       (* MsgLen[m]: the bytes of message m, none when it does not *)
                (* fit in the buffer; MsgLen[0] of a control message       *)
  Subscribes,   (* the messages that are SUBSCRIBEs,                       *)
  Unsubscribes, (* UNSUBSCRIBEs; the others have no message id             *)
  BufSize,      (* CONFIG_MQTT_BUFFER_SIZE_BYTE                            *)
  RingSize,     (* CONFIG_MQTT_QUEUE_BUFFER_SIZE_WORD * 4                  *)
  QueueLen,     (* the length of xSendingQueue, 64                         *)
  Keepalive,    (* settings->keepalive / 2                                 *)
  MaxFaults     (* bound: refused handshakes and lost connections          *)

Msg == 1 .. MaxMsg

ASSUME MqttAssumption ==
  /\ MqttTask \notin LuaTask
  /\ MaxMsg \in Nat /\ BufSize \in Nat \ {0}
  /\ MsgLen \in [0 .. MaxMsg -> 0 .. BufSize] /\ MsgLen[0] > 0
  /\ Subscribes \subseteq Msg /\ Unsubscribes \subseteq Msg \ Subscribes
  /\ RingSize \in Nat \ {0} /\ QueueLen \in Nat \ {0}
  /\ Keepalive \in Nat /\ MaxFaults \in Nat

Writer == LuaTask \union {MqttTask}
Byte == (0 .. MaxMsg) \X (1 .. BufSize)

VARIABLES
  built,       (* messages built so far                                     *)
  out_buffer,  (* the buffer that every message passes through              *)
  length,      (* mqtt_connection.message.length, shared like the buffer    *)
  message_id,  (* mqtt_connection.message_id                                *)
  ids,         (* the message id of each message built, 0 for none          *)
  send_rb,     (* the bytes in the ring                                     *)
  sendQ,       (* xSendingQueue                                             *)
  writer,      (* where each writer is inside mqtt_publish and mqtt_queue   *)
  snd,         (* the sending task                                          *)
  keepalive,   (* keepalive_tick                                            *)
  mq,          (* where mqtt_task is                                        *)
  link,        (* the connection: "none", "up", "closed" or "reset"         *)
  sockets,     (* sockets that are open                                     *)
  refused,     (* handshakes that failed                                    *)
  faults,      (* bound: refused handshakes and lost connections            *)
  in_buffer,   (* the message read last                                     *)
  pending,     (* pending_msg_type and pending_msg_id                       *)
  lastCb,      (* the callback of settings called last                      *)
  heard,       (* history: this connection has been read from               *)
  wire,        (* history: the last packet written to a live connection     *)
  sent,        (* history: the messages whose first byte was written        *)
  damage       (* history: what has happened that the client does not       *)
               (* guard against                                             *)

buildVars == <<built, out_buffer, length, message_id, ids>>
sndVars == <<snd, keepalive>>
connVars == <<link, sockets, refused, faults, heard>>
inVars == <<in_buffer, lastCb>>
wireVars == <<wire, sent>>
vars == <<buildVars, send_rb, sendQ, writer, sndVars, mq, connVars, inVars, pending,
          wireVars, damage>>

Idle == [pc |-> "idle", len |-> 0, k |-> 1]
Dead == [pc |-> "dead", left |-> 0, n |-> 0, k |-> 1]
Fresh == [pc |-> "wait", left |-> 0, n |-> 0, k |-> 1]
Nothing == [type |-> "none", id |-> 0]
Connack == [type |-> "connack", id |-> 0]
Request == [type |-> "request", id |-> 0]
Suback(id) == [type |-> "suback", id |-> id]

(* mqtt_start; in_buffer comes from malloc and is not cleared, so that an  *)
(* earlier CONNACK may still be in it.                                     *)
Init ==
  /\ built = 0
  /\ out_buffer = [i \in 1 .. BufSize |-> <<0, 1>>]
  /\ length = 0
  /\ message_id = 0 /\ ids = [m \in Msg |-> 0]
  /\ send_rb = <<>>
  /\ sendQ = <<>>
  /\ writer = [w \in Writer |-> Idle]
  /\ snd = Dead
  /\ keepalive = Keepalive
  /\ mq = "dial"
  /\ link = "none"
  /\ sockets = 0 /\ refused = 0 /\ faults = 0
  /\ in_buffer \in {Nothing, Connack}
  /\ pending = Nothing
  /\ lastCb = "none"
  /\ heard = FALSE
  /\ wire = <<>> /\ sent = <<>>
  /\ damage = {}

-----------------------------------------------------------------------------
(* The shared buffer. *)

(* Message m laid out in the buffer; what lies behind it stays. *)
Laid(m) == [i \in 1 .. BufSize |-> IF i <= MsgLen[m] THEN <<m, i>> ELSE out_buffer[i]]

Lay(m) ==
  /\ out_buffer' = Laid(m)
  /\ length' = MsgLen[m]

Busy == {w \in Writer : writer[w].pc # "idle"}
SenderBusy == snd.pc \in {"read", "write", "ping"}

(* The kinds of damage: "shared", two tasks use out_buffer at once;        *)
(* "lengths", the length changes under a writer; "queueFull", a length is  *)
(* dropped; "killed", the sending task is deleted inside a message.        *)
Hurt(kind, cond) == IF cond THEN {kind} ELSE {}

(* Damage of laying out a message while the writers in others are busy.    *)
LayDamage(others, shared) ==
  damage \union Hurt("lengths", others # {}) \union Hurt("shared", others # {} \/ shared)

(* append_message_id numbers the messages that have an id. *)
AppendId(m) ==
  IF m \in Subscribes \union Unsubscribes
  THEN message_id' = message_id + 1 /\ ids' = [ids EXCEPT ![m] = message_id']
  ELSE UNCHANGED <<message_id, ids>>

TypeOf(m) == CASE m = 0 -> "control"
               [] m \in Subscribes -> "subscribe"
               [] OTHER -> "publish"
Header(buf) == [type |-> TypeOf(buf[1][1]), id |-> IF buf[1][1] = 0 THEN 0 ELSE ids[buf[1][1]]]

-----------------------------------------------------------------------------
(* A writer: mqtt_publish, mqtt_subscribe, mqtt_unsubscribe or an          *)
(* acknowledgement, and then mqtt_queue.                                   *)

(* The message is built; all but acknowledgements also set the pending id, *)
(* whatever is pending.  An UNSUBSCRIBE is built and not queued.           *)
Build(w, ack) ==
  /\ w \notin Busy
  /\ built < MaxMsg
  /\ built' = built + 1
  /\ Lay(built')
  /\ AppendId(built')
  /\ pending' = IF ack THEN pending ELSE [pending EXCEPT !.id = ids'[built']]
  /\ writer' = IF built' \in Unsubscribes
               THEN writer ELSE [writer EXCEPT ![w].pc = "built"]
  /\ damage' = LayDamage(Busy, SenderBusy \/ mq = "greet")
  /\ UNCHANGED <<send_rb, sendQ, sndVars, mq, connVars, wireVars>>

LuaBuild ==
  /\ \E w \in LuaTask : Build(w, FALSE)
  /\ UNCHANGED inVars

(* rb_write is called with the length of the moment. *)
WriteBegin(w) ==
  /\ writer[w].pc = "built"
  /\ writer' = [writer EXCEPT ![w] = [pc |-> "write", len |-> length, k |-> 1]]
  /\ UNCHANGED <<buildVars, send_rb, sendQ, sndVars, mq, connVars, inVars, pending, wireVars, damage>>

(* Mutant: rb_put takes one byte too many. *)
HasSpaceLate == Len(send_rb) <= RingSize

HasSpace == Len(send_rb) < RingSize

(* It spins while the ring is full. *)
WriteByte(w) ==
  /\ writer[w].pc = "write"
  /\ writer[w].k <= writer[w].len
  /\ HasSpace
  /\ send_rb' = Append(send_rb, out_buffer[writer[w].k])
  /\ writer' = [writer EXCEPT ![w].k = @ + 1]
  /\ UNCHANGED <<buildVars, sendQ, sndVars, mq, connVars, inVars, pending, wireVars, damage>>

(* Mutant: the last byte of a message is left out of the ring. *)
WrittenShort(w) == writer[w].pc = "write" /\ writer[w].k >= writer[w].len

Written(w) == writer[w].pc = "write" /\ writer[w].k > writer[w].len

Announced == Append(sendQ, length)

(* The length is read again and queued without waiting; when the queue is  *)
(* full it is dropped while the bytes stay in the ring.                    *)
Enqueue(w) ==
  /\ Written(w)
  /\ writer' = [writer EXCEPT ![w] = Idle]
  /\ \/ /\ Len(sendQ) < QueueLen
        /\ sendQ' = Announced
        /\ UNCHANGED damage
     \/ /\ Len(sendQ) = QueueLen
        /\ damage' = damage \union {"queueFull"}
        /\ UNCHANGED sendQ
  /\ UNCHANGED <<buildVars, send_rb, sndVars, mq, connVars, inVars, pending, wireVars>>

mqtt_queue(w) == WriteBegin(w) \/ WriteByte(w) \/ Enqueue(w)

-----------------------------------------------------------------------------
(* mqtt_sending_task. *)

Lesser(a, b) == IF a < b THEN a ELSE b

(* What is written reaches the broker only while the connection is up; the *)
(* result of write is not looked at.                                       *)
Transmit(packet) ==
  IF link = "up" /\ packet # <<>>
  THEN /\ wire' = packet
       /\ sent' = IF packet[1][1] = 0 THEN sent ELSE Append(sent, packet[1][1])
  ELSE UNCHANGED wireVars

ReceiveLength ==
  /\ snd.pc = "wait"
  /\ sendQ # <<>>
  /\ snd' = [Fresh EXCEPT !.pc = "loop", !.left = Head(sendQ)]
  /\ sendQ' = Tail(sendQ)
  /\ UNCHANGED <<buildVars, send_rb, writer, keepalive, mq, connVars, inVars, pending, wireVars,
                 damage>>

(* The message goes out in pieces no longer than the buffer. *)
NextPiece ==
  /\ snd.pc = "loop"
  /\ snd.left > 0
  /\ snd' = [snd EXCEPT !.pc = "read", !.n = Lesser(snd.left, BufSize), !.k = 1]
  /\ damage' = damage \union Hurt("shared", Busy # {})
  /\ UNCHANGED <<buildVars, send_rb, sendQ, writer, keepalive, mq, connVars, inVars, pending,
                 wireVars>>

MessageSent ==
  /\ snd.pc = "loop"
  /\ snd.left = 0
  /\ snd' = Fresh
  /\ keepalive' = Keepalive
  /\ UNCHANGED <<buildVars, send_rb, sendQ, writer, mq, connVars, inVars, pending, wireVars, damage>>

(* Mutant: rb_get gives a byte and leaves it in the ring. *)
RestKept == send_rb

Rest == Tail(send_rb)

(* rb_read spins while the ring is empty. *)
ReadByte ==
  /\ snd.pc = "read"
  /\ send_rb # <<>>
  /\ out_buffer' = [out_buffer EXCEPT ![snd.k] = Head(send_rb)]
  /\ send_rb' = Rest
  /\ snd' = IF snd.k = snd.n THEN [snd EXCEPT !.pc = "write"] ELSE [snd EXCEPT !.k = @ + 1]
  /\ UNCHANGED <<built, length, message_id, ids, sendQ, writer, keepalive, mq, connVars, inVars, pending, wireVars,
                 damage>>

(* Mutant: as many bytes are written as the last message built has. *)
PieceByLength == [i \in 1 .. length |-> out_buffer[i]]

Piece == [i \in 1 .. snd.n |-> out_buffer[i]]

SendPiece ==
  /\ snd.pc = "write"
  /\ pending' = Header(out_buffer)
  /\ Transmit(Piece)
  /\ snd' = [snd EXCEPT !.pc = "loop", !.left = @ - snd.n]
  /\ UNCHANGED <<buildVars, send_rb, sendQ, writer, keepalive, mq, connVars, inVars, damage>>

(* A second without anything queued. *)
Tick ==
  /\ snd.pc = "wait"
  /\ sendQ = <<>>
  /\ keepalive > 0
  /\ keepalive' = keepalive - 1
  /\ UNCHANGED <<buildVars, send_rb, sendQ, writer, snd, mq, connVars, inVars, pending, wireVars,
                 damage>>

PingBuild ==
  /\ snd.pc = "wait"
  /\ sendQ = <<>>
  /\ keepalive = 0
  /\ keepalive' = Keepalive
  /\ Lay(0)
  /\ snd' = [snd EXCEPT !.pc = "ping"]
  /\ damage' = LayDamage(Busy, FALSE)
  /\ UNCHANGED <<built, message_id, ids, send_rb, sendQ, writer, mq, connVars, inVars, pending,
                 wireVars>>

PingSend ==
  /\ snd.pc = "ping"
  /\ pending' = Header(out_buffer)
  /\ Transmit([i \in 1 .. length |-> out_buffer[i]])
  /\ snd' = Fresh
  /\ UNCHANGED <<buildVars, send_rb, sendQ, writer, keepalive, mq, connVars, inVars, damage>>

mqtt_sending_task ==
  ReceiveLength \/ NextPiece \/ MessageSent \/ ReadByte \/ SendPiece \/ Tick \/ PingBuild \/ PingSend

-----------------------------------------------------------------------------
(* mqtt_task. *)

TaskStep(from, to) ==
  /\ mq = from
  /\ mq' = to
  /\ UNCHANGED <<built, ids, send_rb, sendQ, writer, keepalive>>

(* client_connect retries until a socket is connected, and mqtt_connect    *)
(* builds CONNECT where every other message is built, after mqtt_msg_init  *)
(* has started the message ids again.                                      *)
Dial ==
  /\ TaskStep("dial", "greet")
  /\ sockets' = sockets + 1
  /\ link' = "up"
  /\ heard' = FALSE
  /\ Lay(0)
  /\ message_id' = 0
  /\ pending' = [type |-> "control", id |-> 0]
  /\ damage' = LayDamage(Busy, FALSE)
  /\ UNCHANGED <<snd, refused, faults, inVars, wireVars>>

Greet ==
  /\ TaskStep("greet", "await")
  /\ Transmit([i \in 1 .. length |-> out_buffer[i]])
  /\ UNCHANGED <<out_buffer, length, message_id, snd, connVars, inVars, pending, damage>>

(* Mutant: the sending task is not created. *)
NotSpawned == Dead

(* xTaskCreate of the sending task. *)
Spawned == Fresh

(* read may return nothing because the broker closed the connection; what  *)
(* is in in_buffer then counts as the answer.                              *)
Accepted ==
  /\ TaskStep("await", "callback")
  /\ snd' = Spawned
  /\ \/ link = "up" /\ in_buffer' = Connack /\ heard' = TRUE
     \/ link = "closed" /\ in_buffer = Connack /\ UNCHANGED <<in_buffer, heard>>
  /\ UNCHANGED <<out_buffer, length, message_id, link, sockets, refused, faults, lastCb, pending, wireVars, damage>>

(* Mutant: only a read that fails is an error. *)
AnswerMissingOnError == link = "reset"

(* The read failed, or it read nothing and in_buffer holds no CONNACK. *)
AnswerMissing ==
  \/ link = "reset"
  \/ link = "closed" /\ in_buffer # Connack

(* No answer in ten seconds, a lost connection, or a refusal: the loop     *)
(* starts over, and the socket stays open.                                 *)
Refused ==
  /\ TaskStep("await", "dial")
  /\ \/ link = "up" /\ faults < MaxFaults /\ faults' = faults + 1
     \/ AnswerMissing /\ UNCHANGED faults
  /\ in_buffer' \in {in_buffer, IF link = "up" THEN Nothing ELSE in_buffer}
  /\ refused' = refused + 1
  /\ link' = "none"
  /\ UNCHANGED <<out_buffer, length, message_id, snd, sockets, heard, lastCb, pending, wireVars, damage>>

(* connected_cb, and data_cb and publish_cb while a PUBLISH is delivered,   *)
(* also one that came before the peer closed, run Lua in mqtt_task, which  *)
(* may publish.                                                            *)
CallbackBuild ==
  /\ mq \in {"callback", "receive"}
  /\ Build(MqttTask, FALSE)
  /\ UNCHANGED inVars

ConnectedCallback ==
  /\ MqttTask \notin Busy
  /\ TaskStep("callback", "receive")
  /\ lastCb' = "connected"
  /\ UNCHANGED <<out_buffer, length, message_id, snd, connVars, in_buffer, pending, wireVars, damage>>

(* mqtt_start_receive_schedule. *)
Receiving(how) == mq = "receive" /\ MqttTask \notin Busy /\ link = how

(* PUBLISH with QoS, PUBREC, PUBREL and PINGREQ are answered.  The loop    *)
(* does not tell a read that fails from one that succeeds: what is in      *)
(* in_buffer is then handled again.                                        *)
ReceiveRequest ==
  /\ \/ Receiving("up")
     \/ Receiving("reset") /\ in_buffer = Request
  /\ Build(MqttTask, TRUE)
  /\ in_buffer' = Request
  /\ UNCHANGED lastCb

(* The broker acknowledges a SUBSCRIBE that it has received. *)
ReceiveSuback(id) ==
  /\ \/ Receiving("up") /\ \E i \in 1 .. Len(sent) : sent[i] \in Subscribes /\ ids[sent[i]] = id
     \/ Receiving("reset") /\ in_buffer = Suback(id)
  /\ in_buffer' = Suback(id)
  /\ lastCb' = IF pending = [type |-> "subscribe", id |-> id] THEN "subscribe" ELSE lastCb
  /\ UNCHANGED <<buildVars, send_rb, sendQ, writer, sndVars, mq, connVars, pending, wireVars, damage>>

(* Every other message changes nothing but in_buffer. *)
ReceiveOther ==
  /\ Receiving("up")
  /\ in_buffer' = Nothing
  /\ UNCHANGED <<buildVars, send_rb, sendQ, writer, sndVars, mq, connVars, lastCb, pending, wireVars,
                 damage>>

(* Mutant: the loop ends and the socket is not closed. *)
ReceiveEndUnclosed ==
  /\ Receiving("closed")
  /\ TaskStep("receive", "reap")
  /\ link' = "none"
  /\ UNCHANGED <<out_buffer, length, message_id, snd, sockets, refused, faults, heard, inVars, pending, wireVars,
                 damage>>

(* Only a read of nothing ends the loop; close(client->socket). *)
ReceiveEnd ==
  /\ Receiving("closed")
  /\ TaskStep("receive", "reap")
  /\ sockets' = sockets - 1
  /\ link' = "none"
  /\ UNCHANGED <<out_buffer, length, message_id, snd, refused, faults, heard, inVars, pending, wireVars, damage>>

(* The bytes of its message that the sending task has not read yet. *)
Owed ==
  CASE snd.pc = "read" -> snd.left - (snd.k - 1)
    [] snd.pc = "write" -> snd.left - snd.n
    [] OTHER -> snd.left

(* vTaskDelete stops the sending task wherever it is. *)
Reap ==
  /\ TaskStep("reap", "dial")
  /\ snd' = Dead
  /\ damage' = damage \union Hurt("killed", Owed > 0)
  /\ UNCHANGED <<out_buffer, length, message_id, connVars, inVars, pending, wireVars>>

mqtt_task ==
  \/ Dial \/ Greet \/ Accepted \/ Refused
  \/ CallbackBuild \/ ConnectedCallback
  \/ ReceiveRequest \/ ReceiveOther \/ ReceiveEnd
  \/ \E id \in Msg : ReceiveSuback(id)
  \/ Reap

(* The network: the broker closes the connection, or it is reset. *)
LoseLink(how) ==
  /\ mq \in {"await", "callback", "receive"}
  /\ link = "up"
  /\ faults < MaxFaults
  /\ faults' = faults + 1
  /\ link' = how
  /\ UNCHANGED <<buildVars, send_rb, sendQ, writer, sndVars, mq, sockets, refused, heard, inVars,
                 pending, wireVars, damage>>

-----------------------------------------------------------------------------

Next ==
  \/ LuaBuild
  \/ \E w \in Writer : mqtt_queue(w)
  \/ mqtt_sending_task
  \/ mqtt_task
  \/ \E how \in {"closed", "reset"} : LoseLink(how)

(* The tasks run when they can; a broker that is asked often enough        *)
(* accepts.                                                                *)
Fairness ==
  /\ \A w \in Writer : WF_vars(mqtt_queue(w))
  /\ WF_vars(mqtt_sending_task)
  /\ WF_vars(Dial \/ Greet \/ Accepted \/ Refused \/ ConnectedCallback \/ ReceiveEnd \/ Reap)

Spec == Init /\ [][Next]_vars /\ Fairness

(***************************************************************************)
(* Properties                                                              *)
(***************************************************************************)

(* Every variable has its type: the ring, the queue and the indices into   *)
(* the buffer stay within their sizes.                                     *)
TypeOK ==
  /\ built \in 0 .. MaxMsg
  /\ out_buffer \in [1 .. BufSize -> Byte]
  /\ length \in 0 .. BufSize
  /\ message_id \in 0 .. MaxMsg /\ ids \in [Msg -> 0 .. MaxMsg]
  /\ send_rb \in Seq(Byte) /\ Len(send_rb) <= RingSize
  /\ sendQ \in Seq(0 .. BufSize) /\ Len(sendQ) <= QueueLen
  /\ writer \in [Writer -> [pc : {"idle", "built", "write"}, len : 0 .. BufSize,
                            k : 1 .. BufSize + 1]]
  /\ snd \in [pc : {"dead", "wait", "loop", "read", "write", "ping"},
              left : 0 .. BufSize, n : 0 .. BufSize, k : 1 .. BufSize]
  /\ keepalive \in 0 .. Keepalive
  /\ mq \in {"dial", "greet", "await", "callback", "receive", "reap"}
  /\ link \in {"none", "up", "closed", "reset"}
  /\ sockets \in Nat /\ refused \in Nat /\ faults \in 0 .. MaxFaults
  /\ in_buffer \in {Nothing, Connack, Request} \union {Suback(id) : id \in Msg}
  /\ pending \in [type : {"none", "control", "subscribe", "publish"}, id : 0 .. MaxMsg]
  /\ lastCb \in {"none", "connected", "subscribe", "disconnected"}
  /\ heard \in BOOLEAN
  /\ wire \in Seq(Byte) /\ sent \in Seq(Msg)
  /\ damage \subseteq {"shared", "lengths", "queueFull", "killed"}

Framed == damage \subseteq {"shared"}
Unhurt == damage = {}

Total(s) == LET sum[i \in 0 .. Len(s)] == IF i = 0 THEN 0 ELSE sum[i - 1] + s[i]
            IN  sum[Len(s)]

(* The bytes that writers have put in the ring and not announced yet. *)
Unannounced ==
  {b \in Writer \X (1 .. BufSize) : writer[b[1]].pc = "write" /\ b[2] < writer[b[1]].k}

(* The ring holds exactly the bytes that the queued lengths, the message   *)
(* being sent and the messages being written account for, even while the   *)
(* sending task and a writer share out_buffer.  The three ways to lose the *)
(* balance, and with it the framing of everything sent later, are a        *)
(* message built while another one is being queued (mqtt_queue), a full    *)
(* length queue, and the deletion of the sending task inside a message.    *)
RingAccounted ==
  Framed => Len(send_rb) = Total(sendQ) + Owed + Cardinality(Unannounced)

(* Every packet that mqtt_sending_task and mqtt_connect write is one whole *)
(* message, as long as no two tasks used out_buffer at once.               *)
Whole(m) == [i \in 1 .. MsgLen[m] |-> <<m, i>>]
PacketsWhole ==
  Unhurt /\ wire # <<>> => \E m \in 0 .. MaxMsg : wire = Whole(m)

(* Messages are sent at most once and in the order they were built, across *)
(* the reconnections of mqtt_task too; some may be lost.                   *)
PacketsInOrder ==
  Unhurt => \A p, q \in 1 .. Len(sent) : p < q => sent[p] < sent[q]

(* Each failed handshake leaks a socket of mqtt_task; nothing else does.   *)
SocketsAccounted ==
  sockets = refused + IF mq \in {"dial", "reap"} THEN 0 ELSE 1

(* What is in the ring leaves it: no writer that spins in rb_write, no     *)
(* reader that spins in rb_read and no reconnection keeps it there for     *)
(* ever while the framing holds.                                           *)
RingDrains == (send_rb # <<>>) ~> (send_rb = <<>> \/ ~Framed)

(* A connection that the broker closes is dialled again by mqtt_task.      *)
ClosedIsRedialled == (link = "closed") ~> (link = "up" \/ ~Framed)

(* What the comment of mqtt_connect says, "return 1: success": after it    *)
(* mqtt_task calls connected_cb, so the broker has answered by then.       *)
ConnectSucceeded == mq = "callback" => heard

=============================================================================
