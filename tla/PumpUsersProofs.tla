--------------------------- MODULE PumpUsersProofs ---------------------------
(***************************************************************************)
(* What the two users of the task pump keep.                               *)
(*                                                                         *)
(* NetSocket, for every number of sockets, control blocks, addresses and   *)
(* priorities and every length of the boxes: the queries of a socket are   *)
(* accounted for, and the pin outlives them and the connection.  An error  *)
(* event, which takes the pin when no query is open, is the hard part: it  *)
(* may be handled after the socket has a new control block, and then the   *)
(* query of that one must still be open.                                   *)
(*                                                                         *)
(* EspEvents, for every set of senders and events, length of the event     *)
(* queue and of the boxes, and number of other messages: no event is       *)
(* stranded.                                                               *)
(***************************************************************************)
EXTENDS NetSocket, EspEvents, SequenceTheorems, FiniteSetTheorems, TLAPS

IsErr(e, s) == e.kind = "ERR" /\ e.sock = s

(* What is posted where: answers and errors go to the medium box.          *)
EventOK(p, e) ==
  /\ e.kind \in {"DNSFOUND", "ERR"} => p = Medium
  /\ e.kind = "DNSFOUND" => e.val \in Addr \union {NoAddr}
  /\ e.kind = "ERR" => Type[e.sock] = "client"

EventsOK ==
  /\ \A p \in Prio : \A i \in DOMAIN box[p] : EventOK(p, box[p][i])
  /\ hand # None => EventOK(hand.prio, hand.msg)

(* What is pinned, or given to the callback that runs, is there.           *)
AliveOK == \A s \in Sock : pinned[s] \/ Given(s) => life[s] \in {"held", "dropped"}

(* A socket is pinned as long as it counts queries.                        *)
WaitsPinned == \A s \in Sock : wait_dns[s] # 0 => pinned[s] /\ Type[s] # "server"

(* A query of s is open, and will not be answered to Lua before the event  *)
(* at place i of the medium box is handled.                                *)
OpenBehind(s, i) ==
  \/ asked[s] # <<>>
  \/ lost[s]["DNSFOUND"] > 0
  \/ \E j \in DOMAIN box[Medium] : i < j /\ IsFound(box[Medium][j], s)

(* An error of an earlier control block finds a query of the present one.  *)
Overtaken(s) ==
  /\ \A i \in DOMAIN box[Medium] : IsErr(box[Medium][i], s) => OpenBehind(s, i)
  /\ hand # None /\ IsErr(hand.msg, s) => OpenBehind(s, 0)

ErrorsOvertaken == \A s \in Sock : pcb[s] # None => Overtaken(s)

IInv ==
  /\ NetTypeOK /\ EventsOK
  /\ WaitsAccounted /\ AliveOK /\ WaitsPinned
  /\ ErrorsOvertaken /\ ConnectedIsPinned

-----------------------------------------------------------------------------
(* Answers in a box.                                                       *)

FoundIn(b, s) == {i \in DOMAIN b : IsFound(b[i], s)}

(* They can be counted.                                                    *)
LEMMA FoundCount ==
  ASSUME NEW b \in Seq(NetEvent), NEW s
  PROVE  /\ IsFiniteSet(FoundIn(b, s))
         /\ Cardinality(FoundIn(b, s)) \in Nat
         /\ Cardinality(FoundIn(b, s)) = 0 <=> FoundIn(b, s) = {}
<1>1. Len(b) \in Nat /\ DOMAIN b = 1 .. Len(b)
  BY LenProperties
<1>2. IsFiniteSet(1 .. Len(b))
  BY <1>1, FS_Interval
<1>3. IsFiniteSet(FoundIn(b, s))
  BY <1>1, <1>2, FS_Subset DEF FoundIn
<1> QED BY <1>3, FS_CardinalityType, FS_EmptySet

(* One more when an answer is posted.                                      *)
LEMMA FoundAppend ==
  ASSUME NEW b \in Seq(NetEvent), NEW e \in NetEvent, NEW s
  PROVE  Cardinality(FoundIn(Append(b, e), s))
           = Cardinality(FoundIn(b, s)) + (IF IsFound(e, s) THEN 1 ELSE 0)
<1> DEFINE n == Len(b)  c == Append(b, e)
<1>1. n \in Nat /\ DOMAIN b = 1 .. n
  BY LenProperties
<1>2. /\ DOMAIN c = 1 .. n + 1 /\ c[n + 1] = e
      /\ \A i \in 1 .. n : c[i] = b[i]
  BY <1>1, AppendProperties, LenProperties
<1>3. IsFiniteSet(FoundIn(b, s)) /\ Cardinality(FoundIn(b, s)) \in Nat
  BY FoundCount
<1>4. n + 1 \notin FoundIn(b, s)
  BY <1>1 DEF FoundIn
<1>5. CASE IsFound(e, s)
  <2>1. FoundIn(c, s) = FoundIn(b, s) \union {n + 1}
    BY <1>1, <1>2, <1>5 DEF FoundIn
  <2> QED BY <1>3, <1>4, <1>5, <2>1, FS_AddElement
<1>6. CASE ~IsFound(e, s)
  <2>1. FoundIn(c, s) = FoundIn(b, s)
    BY <1>1, <1>2, <1>6 DEF FoundIn
  <2> QED BY <1>3, <1>6, <2>1
<1> QED BY <1>5, <1>6

(* One less when it is taken.                                              *)
LEMMA FoundOfTail ==
  ASSUME NEW b \in Seq(NetEvent), b # <<>>, NEW s
  PROVE  Cardinality(FoundIn(b, s))
           = Cardinality(FoundIn(Tail(b), s)) + (IF IsFound(Head(b), s) THEN 1 ELSE 0)
<1> DEFINE n == Len(b)  c == Tail(b)
<1>1. n \in Nat \ {0} /\ DOMAIN b = 1 .. n
  BY LenProperties, EmptySeq
<1>2. /\ Head(b) = b[1] /\ c \in Seq(NetEvent) /\ DOMAIN c = 1 .. n - 1
      /\ \A i \in 1 .. n - 1 : c[i] = b[i + 1]
  BY <1>1, HeadTailProperties, LenProperties
<1>3. /\ IsFiniteSet(FoundIn(b, s)) /\ Cardinality(FoundIn(b, s)) \in Nat
      /\ IsFiniteSet(FoundIn(c, s)) /\ Cardinality(FoundIn(c, s)) \in Nat
  BY <1>2, FoundCount
<1> DEFINE rest == FoundIn(b, s) \ {1}
           f == [i \in FoundIn(c, s) |-> i + 1]
<1>4. Cardinality(rest) = Cardinality(FoundIn(c, s))
  <2>1. \A i \in FoundIn(c, s) : i + 1 \in rest
    BY <1>1, <1>2 DEF FoundIn
  <2>2. \A j \in rest : j - 1 \in FoundIn(c, s) /\ (j - 1) + 1 = j
    <3> SUFFICES ASSUME NEW j \in rest PROVE j - 1 \in FoundIn(c, s) /\ (j - 1) + 1 = j
      OBVIOUS
    <3>1. j \in 2 .. n /\ IsFound(b[j], s)
      BY <1>1 DEF FoundIn
    <3>2. j - 1 \in 1 .. n - 1 /\ c[j - 1] = b[(j - 1) + 1] /\ (j - 1) + 1 = j
      BY <1>1, <1>2, <3>1
    <3> QED BY <1>2, <3>1, <3>2 DEF FoundIn
  <2>3. \A i, j \in FoundIn(c, s) : i + 1 = j + 1 => i = j
    BY <1>1, <1>2 DEF FoundIn
  <2>4. f \in Bijection(FoundIn(c, s), rest)
    <3>1. f \in [FoundIn(c, s) -> rest]
      BY <2>1
    <3>2. \A i, j \in FoundIn(c, s) : f[i] = f[j] => i = j
      BY <2>3
    <3>3. \A j \in rest : \E i \in FoundIn(c, s) : f[i] = j
      BY <2>2
    <3> QED BY <3>1, <3>2, <3>3 DEF Bijection, Injection, Surjection, IsInjective
  <2>5. ExistsBijection(FoundIn(c, s), rest)
    BY <2>4 DEF ExistsBijection
  <2> QED BY <1>3, <2>5, FS_Bijection
<1>5. 1 \in FoundIn(b, s) <=> IsFound(Head(b), s)
  BY <1>1, <1>2 DEF FoundIn
<1>6. CASE 1 \in FoundIn(b, s)
  <2>1. Cardinality(rest) = Cardinality(FoundIn(b, s)) - 1
    BY <1>3, <1>6, FS_RemoveElement
  <2> HIDE DEF rest
  <2> QED BY <1>3, <1>4, <1>5, <1>6, <2>1
<1>7. CASE 1 \notin FoundIn(b, s)
  <2>1. rest = FoundIn(b, s)
    BY <1>7
  <2> HIDE DEF rest
  <2> QED BY <1>3, <1>4, <1>5, <1>7, <2>1
<1> QED BY <1>6, <1>7

-----------------------------------------------------------------------------
(* Types.                                                                  *)

(* A post adds the event at the end, or counts it as lost.                 *)
LEMMA Posts ==
  ASSUME NetTypeOK, NEW p \in Prio, NEW e \in NetEvent, PostNet(p, e)
  PROVE  /\ box' \in [Prio -> Seq(NetEvent)]
         /\ lost' \in [Sock -> [Counted -> Nat]]
         /\ refusals' \in 0 .. MaxRefusals
<1> USE NetSocketAssumption DEF NetTypeOK
<1>1. CASE Put(p, e) /\ UNCHANGED <<lost, refusals>>
  <2>1. Append(box[p], e) \in Seq(NetEvent)
    BY AppendProperties
  <2> QED BY <1>1, <2>1 DEF Put
<1>2. CASE ~(Put(p, e) /\ UNCHANGED <<lost, refusals>>)
  <2>1. e.sock \in Sock /\ e.kind \in EventKind
    BY DEF NetEvent
  <2>2. /\ HasRoom(p) => refusals < MaxRefusals
        /\ refusals' = IF HasRoom(p) THEN refusals + 1 ELSE refusals
        /\ lost' = IF e.kind \in Counted
                   THEN [lost EXCEPT ![e.sock][e.kind] = @ + 1] ELSE lost
        /\ UNCHANGED box
    BY <1>2 DEF PostNet
  <2>3. refusals' \in 0 .. MaxRefusals
    BY <2>2
  <2>4. lost' \in [Sock -> [Counted -> Nat]]
    <3>1. CASE e.kind \in Counted
      <4> DEFINE one == [lost[e.sock] EXCEPT ![e.kind] = @ + 1]
      <4>1. one \in [Counted -> Nat]
        BY <2>1, <3>1
      <4>2. lost' = [lost EXCEPT ![e.sock] = one]
        BY <2>1, <2>2, <3>1
      <4> HIDE DEF one
      <4> QED BY <2>1, <4>1, <4>2
    <3>2. CASE e.kind \notin Counted
      BY <2>2, <3>2
    <3> QED BY <3>1, <3>2
  <2> QED BY <2>2, <2>3, <2>4
<1> QED BY <1>1, <1>2

(* Removing a query leaves one less.                                       *)
LEMMA Removed ==
  ASSUME NEW S, NEW q \in Seq(S), NEW i \in 1 .. Len(q)
  PROVE  RemoveAt(q, i) \in Seq(S) /\ Len(RemoveAt(q, i)) = Len(q) - 1 /\ q[i] \in S
<1>1. Len(q) \in Nat
  BY LenProperties
<1> DEFINE a == SubSeq(q, 1, i - 1)
           b == SubSeq(q, i + 1, Len(q))
<1>2. a \in Seq(S) /\ Len(a) = i - 1
  BY <1>1, SubSeqProperties
<1>3. b \in Seq(S) /\ Len(b) = Len(q) - i
  BY <1>1, SubSeqProperties
<1>4. a \o b \in Seq(S) /\ Len(a \o b) = Len(a) + Len(b)
  BY <1>2, <1>3, ConcatProperties
<1>5. RemoveAt(q, i) = a \o b
  BY DEF RemoveAt
<1>6. q[i] \in S
  BY ElementOfSeq
<1> HIDE DEF a, b
<1>7. Len(a) + Len(b) = Len(q) - 1
  BY <1>1, <1>2, <1>3
<1> QED BY <1>4, <1>5, <1>6, <1>7

(* What may be posted for a socket.                                        *)
LEMMA Events ==
  ASSUME NEW s \in Sock
  PROVE  /\ \A a \in Addr \union {NoAddr} : Event("DNSFOUND", s, a) \in NetEvent
         /\ \A v \in {"ok", "bad"} : Event("ERR", s, v) \in NetEvent
         /\ \A k \in {"CONNECTED", "RECVDATA", "SENTDATA"} : Event(k, s, None) \in NetEvent
  BY DEF Event, NetEvent, EventKind

MailTypes ==
  /\ box \in [Prio -> Seq(NetEvent)]
  /\ lost \in [Sock -> [Counted -> Nat]]
  /\ refusals \in 0 .. MaxRefusals

PcbTypes == pcb \in [Sock -> Pcb \union {None}]

LEMMA NoPost == ASSUME NetTypeOK, UNCHANGED posting PROVE MailTypes'
  BY DEF NetTypeOK, MailTypes, posting

LEMMA DnsPosts ==
  ASSUME NetTypeOK, NEW s \in Sock, NEW a \in Addr \union {NoAddr}, NetDns(s, a)
  PROVE  MailTypes'
  BY Events, Posts, NetSocketAssumption DEF NetDns, MailTypes

LEMMA ErrPosts ==
  ASSUME NetTypeOK, NEW s \in Sock \union {None}, NEW v \in {"ok", "bad"}, NetErr(s, v)
  PROVE  MailTypes' /\ PcbTypes'
<1>1. CASE s # None /\ Type[s] = "client" /\ pinned[s]
  <2>1. PostNet(Medium, Event("ERR", s, v)) /\ pcb' = [pcb EXCEPT ![s] = None]
    BY <1>1 DEF NetErr
  <2>2. MailTypes'
    BY <1>1, <2>1, Events, Posts, NetSocketAssumption DEF MailTypes
  <2> QED BY <2>1, <2>2 DEF NetTypeOK, PcbTypes
<1>2. CASE ~(s # None /\ Type[s] = "client" /\ pinned[s])
  <2>1. UNCHANGED <<pcb, posting>>
    BY <1>2 DEF NetErr
  <2> QED BY <2>1, NoPost DEF NetTypeOK, PcbTypes
<1> QED BY <1>1, <1>2

(* What becomes of a control block.                                        *)
LEMMA Moved ==
  ASSUME NEW b \in Block, NEW st \in {"connecting", "open", "closing", "over"}
  PROVE  [b EXCEPT !.state = st] \in Block
  BY DEF Block

LEMMA Sent ==
  ASSUME NEW b \in Block, NEW u \in BOOLEAN
  PROVE  [b EXCEPT !.unacked = u] \in Block
  BY DEF Block

LEMMA Free == Unused \in Block
  BY DEF Unused, InUse, Block

LEMMA Resolves ==
  ASSUME NetTypeOK, NEW s \in Sock, NEW a \in Addr, Resolving(s, a)
  PROVE  /\ MailTypes' /\ asked' \in [Sock -> Seq(Addr)]
         /\ wait_dns' \in [Sock -> Nat] /\ pinned' \in [Sock -> BOOLEAN]
<1> USE DEF NetTypeOK
<1>1. wait_dns' \in [Sock -> Nat] /\ pinned' \in [Sock -> BOOLEAN]
  BY DEF Resolving
<1>2. CASE NetDns(s, a) /\ UNCHANGED asked
  BY <1>1, <1>2, DnsPosts
<1>3. CASE asked' = [asked EXCEPT ![s] = Append(@, a)] /\ UNCHANGED posting
  <2>1. Append(asked[s], a) \in Seq(Addr)
    BY AppendProperties
  <2> QED BY <1>1, <1>3, <2>1, NoPost
<1> QED BY <1>2, <1>3 DEF Resolving

(* Lua's functions.                                                        *)
LEMMA LuaTypes ==
  ASSUME NetTypeOK, NEW s \in Sock, Lua(s)
  PROVE  NetTypeOK'
<1> USE NetSocketAssumption
<1>1. CASE net_create(s) \/ Script(s)
  BY <1>1 DEF net_create, Script, mailboxVars, bounds, NetTypeOK
<1>2. ASSUME NEW c \in Used, net_on(s, c) PROVE NetTypeOK'
  <2>1. on' \in [Sock -> SUBSET Callback]
    BY <1>2 DEF net_on, NetTypeOK
  <2> QED BY <1>2, <2>1 DEF net_on, mailboxVars, bounds, NetTypeOK
<1>3. CASE net_delete(s)
  <2>1. tcp' = [p \in Pcb |-> IF p = pcb[s] THEN Unused ELSE tcp[p]]
    BY <1>3 DEF net_delete
  <2>2. tcp' \in [Pcb -> Block]
    BY <2>1 DEF NetTypeOK, Unused, InUse, Block
  <2> QED BY <1>3, <2>2 DEF net_delete, mailboxVars, bounds, NetTypeOK
<1>4. ASSUME NEW a \in Addr, net_connect(s, a) PROVE NetTypeOK'
  <2>1. /\ MailTypes' /\ asked' \in [Sock -> Seq(Addr)]
        /\ wait_dns' \in [Sock -> Nat] /\ pinned' \in [Sock -> BOOLEAN]
    BY <1>4, Resolves DEF net_connect
  <2>2. PICK p \in Pcb : pcb' = [pcb EXCEPT ![s] = p] /\ tcp' = [tcp EXCEPT ![p] = InUse("new", s)]
    BY <1>4 DEF net_connect
  <2>3. InUse("new", s) \in Block
    BY DEF InUse, Block
  <2>4. pcb' \in [Sock -> Pcb \union {None}] /\ tcp' \in [Pcb -> Block]
    BY <2>2, <2>3 DEF NetTypeOK
  <2>5. UNCHANGED <<on, hand, life, calling, arrivals, dangling>>
        /\ calls < MaxCalls /\ calls' = calls + 1
    BY <1>4 DEF net_connect, Call
  <2>6. calls' \in 0 .. MaxCalls
    BY <2>5, NetSocketAssumption DEF NetTypeOK
  <2> QED BY <2>1, <2>4, <2>5, <2>6 DEF MailTypes, NetTypeOK
<1>5. ASSUME NEW a \in Addr, net_dns(s, a) PROVE NetTypeOK'
  <2>1. /\ MailTypes' /\ asked' \in [Sock -> Seq(Addr)]
        /\ wait_dns' \in [Sock -> Nat] /\ pinned' \in [Sock -> BOOLEAN]
    BY <1>5, Resolves DEF net_dns
  <2>2. on' \in [Sock -> SUBSET Callback]
    BY <1>5 DEF net_dns, NetTypeOK
  <2> QED BY <1>5, <2>1, <2>2 DEF net_dns, Call, MailTypes, NetTypeOK
<1>6. CASE ConnectFails(s)
  <2>1. MailTypes' /\ PcbTypes'
    BY <1>6, ErrPosts DEF ConnectFails
  <2> QED BY <1>6, <2>1 DEF ConnectFails, Call, MailTypes, PcbTypes, NetTypeOK
<1>7. CASE net_send(s)
  <2>1. MailTypes'
    BY <1>7, NoPost DEF net_send
  <2>2. on' \in [Sock -> SUBSET Callback]
    <3>1. [on EXCEPT ![s] = @ \union ({"sent"} \intersect Used)] \in [Sock -> SUBSET Callback]
      BY DEF NetTypeOK
    <3> QED BY <1>7, <3>1 DEF net_send, NetTypeOK
  <2>3. pcb' \in [Sock -> Pcb \union {None}] /\ tcp' \in [Pcb -> Block] /\ pinned' \in [Sock -> BOOLEAN]
    <3>1. CASE Type[s] = "client"
      <4> DEFINE sent == [tcp[pcb[s]] EXCEPT !.unacked = TRUE]
      <4>1. pcb[s] \in Pcb /\ tcp' = [tcp EXCEPT ![pcb[s]] = sent] /\ UNCHANGED <<pcb, pinned>>
        BY <1>7, <3>1 DEF net_send, NetTypeOK
      <4>2. tcp[pcb[s]] \in Block
        BY <4>1 DEF NetTypeOK
      <4>3. sent \in Block
        BY <4>2, Sent
      <4> HIDE DEF sent
      <4> QED BY <4>1, <4>3 DEF NetTypeOK
    <3>2. CASE Type[s] = "udp"
      <4>1. PICK p \in Pcb : pcb' = [pcb EXCEPT ![s] = p] /\ tcp' = [tcp EXCEPT ![p] = InUse("udp", s)]
        BY <1>7, <3>2 DEF net_send
      <4>2. InUse("udp", s) \in Block
        BY DEF InUse, Block
      <4>3. pinned' = [pinned EXCEPT ![s] = TRUE]
        BY <1>7, <3>2 DEF net_send
      <4> QED BY <4>1, <4>2, <4>3 DEF NetTypeOK
    <3> QED BY <1>7, <3>1, <3>2 DEF net_send
  <2> QED BY <1>7, <2>1, <2>2, <2>3 DEF net_send, Call, MailTypes, NetTypeOK
<1>8. CASE net_listen(s)
  <2>1. MailTypes'
    BY <1>8, NoPost DEF net_listen
  <2>2. on' \in [Sock -> SUBSET Callback]
    <3>1. [on EXCEPT ![s] = {"accept"}] \in [Sock -> SUBSET Callback]
      BY DEF NetTypeOK, Callback
    <3> QED BY <1>8, <3>1 DEF net_listen, NetTypeOK
  <2>3. pcb' \in [Sock -> Pcb \union {None}] /\ tcp' \in [Pcb -> Block] /\ pinned' \in [Sock -> BOOLEAN]
    <3>1. CASE UNCHANGED <<pcb, tcp, pinned>>
      BY <3>1 DEF NetTypeOK
    <3>2. CASE ~UNCHANGED <<pcb, tcp, pinned>>
      <4> DEFINE st == IF Type[s] = "server" THEN "listen" ELSE "udp"
      <4>1. InUse(st, s) \in Block
        BY DEF InUse, Block
      <4>2. PICK p \in Pcb : pcb' = [pcb EXCEPT ![s] = p] /\ tcp' = [tcp EXCEPT ![p] = InUse(st, s)]
        BY <1>8, <3>2 DEF net_listen
      <4>3. pinned' = [pinned EXCEPT ![s] = TRUE]
        BY <1>8, <3>2 DEF net_listen, ListenPins
      <4> HIDE DEF st
      <4> QED BY <4>1, <4>2, <4>3 DEF NetTypeOK
    <3> QED BY <3>1, <3>2
  <2> QED BY <1>8, <2>1, <2>2, <2>3 DEF net_listen, Call, MailTypes, NetTypeOK
<1>9. CASE net_close(s)
  <2>1. tcp' \in [Pcb -> Block]
    <3> DEFINE closing == [tcp[pcb[s]] EXCEPT !.state = "closing"]
    <3>1. pcb[s] \in Pcb /\ tcp' \in Closed(pcb[s])
      BY <1>9 DEF net_close, NetTypeOK
    <3>2. tcp[pcb[s]] \in Block
      BY <3>1 DEF NetTypeOK
    <3>3. closing \in Block /\ Unused \in Block
      BY <3>2, Moved, Free
    <3>4. tcp' \in {[tcp EXCEPT ![pcb[s]] = closing], [tcp EXCEPT ![pcb[s]] = Unused]}
      BY <3>1 DEF Closed
    <3> HIDE DEF closing
    <3> QED BY <3>1, <3>3, <3>4 DEF NetTypeOK
  <2>2. wait_dns' = wait_dns /\ pinned' \in [Sock -> BOOLEAN]
    <3>1. (pinned[s] /\ KeepsPin(s)) \in BOOLEAN
      BY DEF NetTypeOK
    <3> QED BY <1>9, <3>1 DEF net_close, WaitsAfterClose, NetTypeOK
  <2> QED BY <1>9, <2>1, <2>2 DEF net_close, mailboxVars, bounds, NetTypeOK
<1> QED BY <1>1, <1>2, <1>3, <1>4, <1>5, <1>6, <1>7, <1>8, <1>9 DEF Lua

(* The callbacks of lwIP.                                                  *)
LEMMA LwipTypes ==
  ASSUME NetTypeOK, Lwip
  PROVE  NetTypeOK'
<1> USE NetSocketAssumption
<1>1. ASSUME NEW s \in Sock, Answer(s) PROVE NetTypeOK'
  <2>1. PICK i \in 1 .. Len(asked[s]) :
          /\ asked' = [asked EXCEPT ![s] = RemoveAt(@, i)]
          /\ \E a \in {asked[s][i], NoAddr} : NetDns(s, a)
    BY <1>1 DEF Answer
  <2>2. asked[s] \in Seq(Addr)
    BY DEF NetTypeOK
  <2>3. RemoveAt(asked[s], i) \in Seq(Addr) /\ asked[s][i] \in Addr
    BY <2>2, Removed
  <2>4. asked' \in [Sock -> Seq(Addr)]
    BY <2>1, <2>3 DEF NetTypeOK
  <2>5. MailTypes'
    BY <2>1, <2>3, DnsPosts
  <2>6. dangling' \in BOOLEAN
    BY <1>1 DEF Answer, Touch, Dead, NetTypeOK
  <2> QED BY <1>1, <2>4, <2>5, <2>6 DEF Answer, LwipStep, MailTypes, NetTypeOK
<1>2. ASSUME NEW p \in Pcb,
             Established(p) \/ Reset(p) \/ PeerCloses(p) \/ Gone(p)
               \/ Receive(p) \/ Acknowledged(p) \/ Knock(p)
      PROVE  NetTypeOK'
  <2> DEFINE s == tcp[p].arg
  <2>1. tcp[p] \in Block /\ s \in Sock \union {None}
    BY DEF NetTypeOK, Block
  <2>2. dangling' \in BOOLEAN
    BY <1>2 DEF Established, Reset, PeerCloses, Gone, Receive, Acknowledged, Knock, Touch, Dead,
                NetTypeOK
  <2>3. arrivals' \in 0 .. MaxArrivals
    BY <1>2 DEF Established, Reset, PeerCloses, Gone, Receive, Acknowledged, Knock, NetTypeOK
  <2>4. tcp' \in [Pcb -> Block]
    <3>1. \A b \in Block : [tcp EXCEPT ![p] = b] \in [Pcb -> Block]
      BY DEF NetTypeOK
    <3>2. CASE Established(p)
      <4>1. tcp' = [tcp EXCEPT ![p] = [tcp[p] EXCEPT !.state = "open"]]
        BY <3>2 DEF Established
      <4> QED BY <2>1, <3>1, <4>1, Moved
    <3>3. CASE Reset(p) \/ Gone(p)
      BY <3>1, <3>3, Free DEF Reset, Gone
    <3>4. CASE PeerCloses(p)
      <4>1. tcp' \in {[tcp EXCEPT ![p] = [tcp[p] EXCEPT !.state = "over"]],
                      [tcp EXCEPT ![p] = Unused]}
        BY <3>4 DEF PeerCloses
      <4>2. [tcp[p] EXCEPT !.state = "over"] \in Block
        BY <2>1, Moved
      <4> QED BY <3>1, <4>1, <4>2, Free
    <3>5. CASE Acknowledged(p)
      <4>1. tcp' = [tcp EXCEPT ![p] = [tcp[p] EXCEPT !.unacked = FALSE]]
        BY <3>5 DEF Acknowledged
      <4>2. [tcp[p] EXCEPT !.unacked = FALSE] \in Block
        BY <2>1, Sent
      <4> QED BY <3>1, <4>1, <4>2
    <3>6. CASE Receive(p) \/ Knock(p)
      BY <3>6 DEF Receive, Knock, NetTypeOK
    <3> QED BY <1>2, <3>2, <3>3, <3>4, <3>5, <3>6
  <2>5. MailTypes' /\ PcbTypes'
    <3>1. CASE Reset(p) \/ (PeerCloses(p) /\ Hears(s))
      <4>1. \E v \in {"ok", "bad"} : NetErr(s, v)
        BY <3>1 DEF Reset, PeerCloses
      <4> HIDE DEF s
      <4> QED BY <2>1, <4>1, ErrPosts
    <3>2. CASE \/ UNCHANGED posting /\ UNCHANGED pcb
      <4>1. PcbTypes'
        BY <3>2 DEF PcbTypes, NetTypeOK
      <4> QED BY <3>2, <4>1, NoPost
    <3>3. CASE UNCHANGED pcb /\ s # None /\ \E q \in {Medium, High}, k \in {"CONNECTED", "RECVDATA", "SENTDATA"} :
                 PostNet(q, Event(k, s, None))
      <4>1. PICK q \in {Medium, High}, k \in {"CONNECTED", "RECVDATA", "SENTDATA"} :
              PostNet(q, Event(k, s, None))
        BY <3>3
      <4>2. s \in Sock
        BY <2>1, <3>3
      <4> HIDE DEF s
      <4>3. MailTypes'
        BY <4>1, <4>2, Events, Posts DEF MailTypes
      <4>4. PcbTypes'
        BY <3>3 DEF PcbTypes, NetTypeOK
      <4> QED BY <4>3, <4>4
    <3>4. CASE Established(p) \/ Receive(p) \/ Acknowledged(p) \/ Knock(p)
      BY <3>2, <3>3, <3>4 DEF Established, Receive, Acknowledged, Knock, Hears
    <3>5. CASE (PeerCloses(p) /\ ~Hears(s)) \/ Gone(p)
      BY <3>2, <3>5 DEF PeerCloses, Gone
    <3> QED BY <1>2, <3>1, <3>4, <3>5
  <2>6. LwipStep /\ UNCHANGED asked
    BY <1>2 DEF Established, Reset, PeerCloses, Gone, Receive, Acknowledged, Knock
  <2> HIDE DEF s
  <2> QED BY <2>2, <2>3, <2>4, <2>5, <2>6 DEF LwipStep, MailTypes, PcbTypes, NetTypeOK
<1> QED BY <1>1, <1>2 DEF Lwip

(* The pump.  An answer that is handled was counted in wait_dns.           *)
LEMMA PumpTypes ==
  ASSUME NetTypeOK, EventsOK, WaitsAccounted, Pump
  PROVE  NetTypeOK'
<1> USE NetSocketAssumption
<1>1. CASE PumpDeliver
  <2>1. PICK p \in Prio : Deliver(p)
    BY <1>1 DEF PumpDeliver
  <2> DEFINE e == Head(box[p])
  <2>2. e \in NetEvent /\ Tail(box[p]) \in Seq(NetEvent)
    BY <2>1, HeadTailProperties DEF Deliver, NetTypeOK
  <2>3. box' \in [Prio -> Seq(NetEvent)]
    BY <2>1, <2>2 DEF Deliver, NetTypeOK
  <2>4. hand' = [msg |-> e, prio |-> p]
    BY <2>1 DEF Deliver
  <2>5. e.sock \in Sock /\ e.kind \in EventKind
    BY <2>2 DEF NetEvent
  <2> HIDE DEF e
  <2>6. hand' \in [msg : NetEvent, prio : Prio] /\ hand'.msg = e
    BY <2>2, <2>4
  <2>7. CallbackFor(e) \in Callback
    BY <2>5 DEF CallbackFor, Callback, EventKind
  <2>8. calling' = None \/ calling' \in [cb : Callback, obj : Sock \union {None}]
    <3>1. calling' \in {None, [cb |-> CallbackFor(e), obj |-> Self(e.sock)]}
      BY <1>1, <2>6 DEF PumpDeliver, Calls
    <3>2. Self(e.sock) \in Sock \union {None}
      BY <2>5 DEF Self
    <3> QED BY <2>7, <3>1, <3>2
  <2>9. dangling' \in BOOLEAN
    BY <1>1 DEF PumpDeliver, Dead, NetTypeOK
  <2> QED BY <1>1, <2>3, <2>6, <2>8, <2>9 DEF PumpDeliver, udVars, bounds, NetTypeOK
<1>2. CASE FoundTail
  <2> DEFINE e == hand.msg  s == hand.msg.sock
  <2>1. /\ hand # None /\ e.kind = "DNSFOUND" /\ hand \in [msg : NetEvent, prio : Prio]
        /\ e \in NetEvent /\ s \in Sock
    BY <1>2 DEF FoundTail, HandlerEnds, NetTypeOK, NetEvent
  <2>2. e.val \in Addr \union {NoAddr}
    BY <2>1 DEF EventsOK, EventOK
  <2>3. wait_dns[s] \in Nat \ {0}
    <3>1. FoundInHand(s)
      BY <2>1 DEF FoundInHand, IsFound
    <3>2. wait_dns[s] = Len(asked[s]) + Cardinality(Found(s)) + lost[s]["DNSFOUND"] + 1
      BY <2>1, <3>1 DEF WaitsAccounted, Out, InHand
    <3>3. box[Medium] \in Seq(NetEvent) /\ asked[s] \in Seq(Addr) /\ lost[s]["DNSFOUND"] \in Nat
      BY <2>1 DEF NetTypeOK, Counted
    <3>4. Cardinality(Found(s)) \in Nat
      BY <3>3, FoundCount DEF Found, FoundIn
    <3>5. Len(asked[s]) \in Nat
      BY <3>3, LenProperties
    <3> DEFINE l == Len(asked[s])  c == Cardinality(Found(s))  x == lost[s]["DNSFOUND"]
    <3>6. l \in Nat /\ c \in Nat /\ x \in Nat /\ wait_dns[s] = l + c + x + 1
      BY <3>2, <3>3, <3>4, <3>5
    <3> HIDE DEF l, c, x
    <3> QED BY <3>6
  <2>4. wait_dns' \in [Sock -> Nat]
    BY <1>2, <2>1, <2>3 DEF FoundTail, NetTypeOK
  <2>5. tcp' \in [Pcb -> Block]
    <3>1. CASE ToConnect(s) /\ tcp' # tcp
      <4>1. pcb[s] \in Pcb
        BY <2>1, <3>1 DEF ToConnect, NetTypeOK
      <4> DEFINE b == tcp[pcb[s]]
                 c == [b EXCEPT !.state = "connecting", !.peer = e.val]
      <4>2. tcp' = [tcp EXCEPT ![pcb[s]] = c]
        BY <1>2, <3>1, <4>1 DEF FoundTail, Connects, NetTypeOK
      <4>3. b \in Block
        BY <4>1 DEF NetTypeOK
      <4>4. c \in Block
        BY <2>2, <4>3 DEF Block
      <4> HIDE DEF c
      <4> QED BY <4>1, <4>2, <4>4 DEF NetTypeOK
    <3>2. CASE ~(ToConnect(s) /\ tcp' # tcp)
      BY <1>2, <3>2 DEF FoundTail, NetTypeOK
    <3> QED BY <3>1, <3>2
  <2>6. pinned' \in [Sock -> BOOLEAN]
    <3>1. (pinned[s] /\ ~FoundUnpins(s)) \in BOOLEAN
      BY DEF NetTypeOK
    <3> QED BY <1>2, <3>1 DEF FoundTail, NetTypeOK
  <2> QED BY <1>2, <2>4, <2>5, <2>6 DEF FoundTail, HandlerEnds, Finish, bounds, NetTypeOK
<1>3. CASE ErrTail
  <2> DEFINE s == hand.msg.sock
  <2>1. pinned' \in [Sock -> BOOLEAN]
    <3>1. (pinned[s] /\ ~ErrUnpins(s)) \in BOOLEAN
      BY DEF NetTypeOK
    <3> QED BY <1>3, <3>1 DEF ErrTail, NetTypeOK
  <2> QED BY <1>3, <2>1 DEF ErrTail, HandlerEnds, Finish, bounds, NetTypeOK
<1>4. CASE OtherTail
  BY <1>4 DEF OtherTail, HandlerEnds, Finish, bounds, NetTypeOK
<1> QED BY <1>1, <1>2, <1>3, <1>4 DEF Pump

-----------------------------------------------------------------------------
(* What a step does to the boxes.                                          *)

(* A post leaves what is there where it is, and adds e at the end or       *)
(* counts it.                                                              *)
LEMMA PostEvents ==
  ASSUME NetTypeOK, NEW p \in Prio, NEW e \in NetEvent, PostNet(p, e)
  PROVE  /\ \A q \in Prio : \A i \in DOMAIN box[q] :
              i \in DOMAIN box'[q] /\ box'[q][i] = box[q][i]
         /\ \A q \in Prio : \A i \in DOMAIN box'[q] :
              \/ i \in DOMAIN box[q]
              \/ q = p /\ i = Len(box[p]) + 1 /\ box'[q][i] = e
<1>1. box[p] \in Seq(NetEvent)
  BY DEF NetTypeOK
<1>2. CASE Put(p, e)
  <2>1. box' = [box EXCEPT ![p] = Append(box[p], e)]
    BY <1>2 DEF Put
  <2>2. /\ Len(box[p]) \in Nat /\ DOMAIN box[p] = 1 .. Len(box[p])
        /\ Append(box[p], e) \in Seq(NetEvent)
        /\ Len(Append(box[p], e)) = Len(box[p]) + 1
        /\ \A i \in 1 .. Len(box[p]) : Append(box[p], e)[i] = box[p][i]
        /\ Append(box[p], e)[Len(box[p]) + 1] = e
    BY <1>1, LenProperties, AppendProperties
  <2>3. DOMAIN Append(box[p], e) = 1 .. Len(box[p]) + 1
    BY <2>2, LenProperties
  <2>4. box'[p] = Append(box[p], e) /\ \A q \in Prio : q # p => box'[q] = box[q]
    BY <2>1 DEF NetTypeOK
  <2> DEFINE b == box[p]  c == Append(box[p], e)  n == Len(box[p])
  <2>5. /\ n \in Nat /\ DOMAIN b = 1 .. n /\ DOMAIN c = 1 .. n + 1
        /\ \A i \in 1 .. n : c[i] = b[i]
        /\ c[n + 1] = e
    BY <2>2, <2>3
  <2> HIDE DEF b, c, n
  <2>6. /\ \A i \in DOMAIN b : i \in DOMAIN c /\ c[i] = b[i]
        /\ \A i \in DOMAIN c : i \in DOMAIN b \/ (i = n + 1 /\ c[i] = e)
    BY <2>5
  <2> QED BY <2>4, <2>6 DEF b, c, n
<1>3. CASE UNCHANGED box
  BY <1>3
<1> QED BY <1>2, <1>3 DEF PostNet

(* An answer that is posted is counted, in the box or as lost.             *)
LEMMA PostCounts ==
  ASSUME NetTypeOK, NEW p \in Prio, NEW e \in NetEvent, EventOK(p, e), PostNet(p, e),
         NEW s \in Sock
  PROVE  /\ Cardinality(FoundIn(box'[Medium], s)) + lost'[s]["DNSFOUND"]
              = Cardinality(FoundIn(box[Medium], s)) + lost[s]["DNSFOUND"]
                  + (IF IsFound(e, s) THEN 1 ELSE 0)
         /\ lost'[s]["DNSFOUND"] \in Nat /\ lost'[s]["DNSFOUND"] >= lost[s]["DNSFOUND"]
         /\ IsFound(e, s) =>
              \/ lost'[s]["DNSFOUND"] > 0
              \/ /\ Len(box[Medium]) + 1 \in DOMAIN box'[Medium]
                 /\ box'[Medium][Len(box[Medium]) + 1] = e
<1>1. /\ Medium \in Prio /\ box[Medium] \in Seq(NetEvent) /\ box[p] \in Seq(NetEvent)
      /\ e.sock \in Sock
  BY NetSocketAssumption DEF NetTypeOK, NetEvent
<1>2. lost[s] \in [Counted -> Nat] /\ lost[s]["DNSFOUND"] \in Nat
  BY DEF NetTypeOK, Counted
<1>3. Cardinality(FoundIn(box[Medium], s)) \in Nat
  BY <1>1, FoundCount
<1>4. CASE Put(p, e) /\ UNCHANGED lost
  <2>1. box' = [box EXCEPT ![p] = Append(box[p], e)]
    BY <1>4 DEF Put
  <2>2. CASE p = Medium
    <3>1. box'[Medium] = Append(box[Medium], e)
      BY <1>1, <2>1, <2>2 DEF NetTypeOK
    <3>2. Cardinality(FoundIn(box'[Medium], s))
            = Cardinality(FoundIn(box[Medium], s)) + (IF IsFound(e, s) THEN 1 ELSE 0)
      BY <1>1, <3>1, FoundAppend
    <3>3. /\ Len(box[Medium]) + 1 \in DOMAIN box'[Medium]
          /\ box'[Medium][Len(box[Medium]) + 1] = e
      BY <1>1, <3>1, AppendProperties, LenProperties
    <3> QED BY <1>2, <1>3, <1>4, <3>2, <3>3
  <2>3. CASE p # Medium
    <3>1. box'[Medium] = box[Medium] /\ ~IsFound(e, s)
      BY <1>1, <2>1, <2>3 DEF NetTypeOK, EventOK, IsFound
    <3> QED BY <1>2, <1>3, <1>4, <3>1
  <2> QED BY <2>2, <2>3
<1>5. CASE /\ UNCHANGED box
           /\ lost' = IF e.kind \in Counted
                      THEN [lost EXCEPT ![e.sock][e.kind] = @ + 1] ELSE lost
  <2>1. CASE IsFound(e, s)
    <3>1. lost'[s]["DNSFOUND"] = lost[s]["DNSFOUND"] + 1
      BY <1>1, <1>2, <1>5, <2>1 DEF IsFound, Counted, NetTypeOK
    <3>2. /\ lost'[s]["DNSFOUND"] \in Nat /\ lost'[s]["DNSFOUND"] > 0
          /\ lost'[s]["DNSFOUND"] >= lost[s]["DNSFOUND"]
      BY <1>2, <3>1
    <3>3. Cardinality(FoundIn(box'[Medium], s)) = Cardinality(FoundIn(box[Medium], s))
      BY <1>5
    <3>4. Cardinality(FoundIn(box'[Medium], s)) + lost'[s]["DNSFOUND"]
            = Cardinality(FoundIn(box[Medium], s)) + lost[s]["DNSFOUND"] + 1
      BY <1>2, <1>3, <3>1, <3>3
    <3> QED BY <2>1, <3>2, <3>4
  <2>2. CASE ~IsFound(e, s)
    <3>1. lost'[s]["DNSFOUND"] = lost[s]["DNSFOUND"]
      BY <1>1, <1>2, <1>5, <2>2 DEF IsFound, Counted, NetTypeOK
    <3> QED BY <1>2, <1>3, <1>5, <2>2, <3>1
  <2> QED BY <2>1, <2>2
<1> QED BY <1>4, <1>5 DEF PostNet

(* Why an event may be posted: its socket was pinned, and has lost its     *)
(* control block when the event is an error; or it is pinned now.          *)
Posted ==
  /\ UNCHANGED hand
  /\ \E p \in Prio, e \in NetEvent :
       /\ PostNet(p, e) /\ EventOK(p, e)
       /\ e.kind = "ERR" => pcb'[e.sock] = None
       /\ e.kind = "DNSFOUND" => wait_dns' # wait_dns \/ asked' # asked
       /\ \/ pinned'[e.sock]
          \/ \E i \in 1 .. Len(asked[e.sock]) : e.kind = "DNSFOUND" /\ UNCHANGED pinned

LEMMA DnsPosted ==
  ASSUME NetTypeOK, NEW s \in Sock, NEW a \in Addr \union {NoAddr}, NetDns(s, a), UNCHANGED hand,
         pinned'[s] \/ (UNCHANGED pinned /\ \E i \in 1 .. Len(asked[s]) : TRUE),
         wait_dns' # wait_dns \/ asked' # asked
  PROVE  Posted
<1> DEFINE e == Event("DNSFOUND", s, a)
<1>1. e \in NetEvent /\ e.kind = "DNSFOUND" /\ e.sock = s /\ e.val = a
  BY Events DEF Event
<1>2. EventOK(Medium, e) /\ Medium \in Prio
  BY <1>1, NetSocketAssumption DEF EventOK
<1>3. PostNet(Medium, e)
  BY DEF NetDns
<1> HIDE DEF e
<1> QED BY <1>1, <1>2, <1>3 DEF Posted

LEMMA ErrPosted ==
  ASSUME NetTypeOK, NEW s \in Sock \union {None}, NEW v \in {"ok", "bad"}, NetErr(s, v),
         UNCHANGED <<hand, pinned>>
  PROVE  Posted \/ UNCHANGED <<posting, hand>>
<1>1. CASE s # None /\ Type[s] = "client" /\ pinned[s]
  <2> DEFINE e == Event("ERR", s, v)
  <2>1. s \in Sock
    BY <1>1
  <2>2. e \in NetEvent /\ e.kind = "ERR" /\ e.sock = s
    BY <2>1, Events DEF Event
  <2>3. EventOK(Medium, e) /\ Medium \in Prio
    BY <1>1, <2>2, NetSocketAssumption DEF EventOK
  <2>4. PostNet(Medium, e) /\ pcb'[s] = None
    BY <1>1, <2>1 DEF NetErr, NetTypeOK
  <2> HIDE DEF e
  <2> QED BY <1>1, <2>2, <2>3, <2>4 DEF Posted
<1>2. CASE ~(s # None /\ Type[s] = "client" /\ pinned[s])
  BY <1>2 DEF NetErr
<1> QED BY <1>1, <1>2

(* Lua and lwIP post at most one event.                                    *)
LEMMA PostsOne ==
  ASSUME NetTypeOK, ConnectedIsPinned, Lwip \/ \E s \in Sock : Lua(s)
  PROVE  Posted \/ UNCHANGED <<box, lost, hand>>
<1>1. ASSUME NEW s \in Sock, Lua(s) PROVE Posted \/ UNCHANGED <<box, lost, hand>>
  <2>1. CASE net_create(s) \/ Script(s) \/ net_delete(s) \/ net_close(s) \/ \E c \in Used : net_on(s, c)
    BY <2>1 DEF net_create, Script, net_delete, net_close, net_on, mailboxVars
  <2>2. CASE net_send(s) \/ net_listen(s)
    BY <2>2 DEF net_send, net_listen, Call, posting
  <2>3. CASE ConnectFails(s)
    <3>1. NetErr(s, "bad") /\ UNCHANGED <<hand, pinned>>
      BY <2>3 DEF ConnectFails, Call
    <3> QED BY <3>1, ErrPosted DEF posting
  <2>4. ASSUME NEW a \in Addr, net_connect(s, a) \/ net_dns(s, a)
        PROVE  Posted \/ UNCHANGED <<box, lost, hand>>
    <3>1. Resolving(s, a) /\ UNCHANGED hand
      BY <2>4 DEF net_connect, net_dns, Call
    <3>2. pinned'[s] /\ wait_dns' # wait_dns
      <4>1. wait_dns'[s] = wait_dns[s] + 1 /\ wait_dns[s] \in Nat
        BY <3>1 DEF Resolving, NetTypeOK
      <4> QED BY <3>1, <4>1 DEF Resolving, NetTypeOK
    <3>3. CASE NetDns(s, a)
      BY <3>1, <3>2, <3>3, DnsPosted
    <3>4. CASE UNCHANGED posting
      BY <3>1, <3>4 DEF posting
    <3> QED BY <3>1, <3>3, <3>4 DEF Resolving
  <2> QED BY <1>1, <2>1, <2>2, <2>3, <2>4 DEF Lua
<1>2. ASSUME NEW s \in Sock, Answer(s) PROVE Posted
  <2>1. PICK i \in 1 .. Len(asked[s]) :
          /\ asked' = [asked EXCEPT ![s] = RemoveAt(@, i)]
          /\ \E a \in {asked[s][i], NoAddr} : NetDns(s, a)
    BY <1>2 DEF Answer
  <2>2. asked[s] \in Seq(Addr)
    BY DEF NetTypeOK
  <2>3. asked[s][i] \in Addr
    BY <2>2, ElementOfSeq
  <2>4. PICK a \in Addr \union {NoAddr} : NetDns(s, a)
    BY <2>1, <2>3
  <2>5. UNCHANGED <<hand, pinned>>
    BY <1>2 DEF Answer, LwipStep
  <2>6. asked' # asked
    <3>1. Len(asked[s]) \in Nat /\ Len(RemoveAt(asked[s], i)) = Len(asked[s]) - 1
      BY <2>2, Removed, LenProperties
    <3>2. asked'[s] = RemoveAt(asked[s], i)
      BY <2>1 DEF NetTypeOK
    <3> QED BY <3>1, <3>2
  <2> QED BY <2>1, <2>4, <2>5, <2>6, DnsPosted
<1>3. ASSUME NEW p \in Pcb,
             Established(p) \/ Reset(p) \/ PeerCloses(p) \/ Gone(p)
               \/ Receive(p) \/ Acknowledged(p) \/ Knock(p)
      PROVE  Posted \/ UNCHANGED <<box, lost, hand>>
  <2> DEFINE s == tcp[p].arg
  <2>1. s \in Sock \union {None}
    <3>1. tcp[p] \in Block
      BY DEF NetTypeOK
    <3> QED BY <3>1 DEF Block
  <2>2. UNCHANGED <<hand, pinned>>
    BY <1>3 DEF Established, Reset, PeerCloses, Gone, Receive, Acknowledged, Knock, LwipStep
  <2>3. CASE \E v \in {"ok", "bad"} : NetErr(s, v)
    <3> HIDE DEF s
    <3> QED BY <2>1, <2>2, <2>3, ErrPosted DEF posting
  <2>4. CASE /\ s # None /\ pinned[s]
             /\ \E q \in {Medium, High}, k \in {"CONNECTED", "RECVDATA", "SENTDATA"} :
                  PostNet(q, Event(k, s, None))
    <3>1. PICK q \in {Medium, High}, k \in {"CONNECTED", "RECVDATA", "SENTDATA"} :
            PostNet(q, Event(k, s, None))
      BY <2>4
    <3>2. s \in Sock
      BY <2>1, <2>4
    <3> HIDE DEF s
    <3> DEFINE e == Event(k, s, None)
    <3>3. e \in NetEvent /\ e.kind = k /\ e.sock = s
      BY <3>2, Events DEF Event
    <3>4. EventOK(q, e) /\ q \in Prio
      BY <3>3, NetSocketAssumption DEF EventOK
    <3> HIDE DEF e
    <3> QED BY <2>2, <2>4, <3>1, <3>3, <3>4 DEF Posted, e
  <2>5. CASE Reset(p) \/ PeerCloses(p) \/ Gone(p)
    BY <2>2, <2>3, <2>5 DEF Reset, PeerCloses, Gone, posting
  <2>6. CASE Established(p)
    <3>1. s # None /\ pcb[s] = p => pinned[s]
      BY <2>1, NetSocketAssumption DEF ConnectedIsPinned
    <3> QED BY <2>2, <2>4, <2>6, <3>1 DEF Established, posting
  <2>7. CASE Receive(p) \/ Acknowledged(p) \/ Knock(p)
    BY <2>2, <2>4, <2>7 DEF Receive, Acknowledged, Knock, Hears, posting
  <2> QED BY <1>3, <2>5, <2>6, <2>7
<1> QED BY <1>1, <1>2, <1>3 DEF Lwip

(* A step posts one event, takes one, is done with one, or leaves the      *)
(* boxes alone.                                                            *)
LEMMA Moves ==
  ASSUME NetTypeOK, ConnectedIsPinned, NetNext
  PROVE  \/ Posted
         \/ UNCHANGED <<box, lost, hand>>
         \/ UNCHANGED lost /\ \E p \in Prio : Deliver(p)
         \/ UNCHANGED lost /\ Finish
<1>1. CASE Pump
  BY <1>1 DEF Pump, PumpDeliver, FoundTail, ErrTail, OtherTail, HandlerEnds
<1> QED BY <1>1, PostsOne DEF NetNext

(* Events stay what they are.                                              *)
LEMMA EventsKept ==
  ASSUME NetTypeOK, EventsOK, ConnectedIsPinned, NetNext
  PROVE  EventsOK'
<1>1. CASE Posted
  <2>1. PICK p \in Prio, e \in NetEvent : PostNet(p, e) /\ EventOK(p, e)
    BY <1>1 DEF Posted
  <2>2. UNCHANGED hand
    BY <1>1 DEF Posted
  <2>3. \A q \in Prio : \A i \in DOMAIN box'[q] :
           \/ i \in DOMAIN box[q] /\ box'[q][i] = box[q][i]
           \/ q = p /\ box'[q][i] = e
    BY <2>1, PostEvents
  <2> QED BY <2>1, <2>2, <2>3 DEF EventsOK, EventOK
<1>2. CASE UNCHANGED <<box, lost, hand>>
  BY <1>2 DEF EventsOK, EventOK
<1>3. CASE \E p \in Prio : Deliver(p)
  <2>1. PICK p \in Prio : Deliver(p)
    BY <1>3
  <2> DEFINE b == box[p]
  <2>2. b \in Seq(NetEvent) /\ b # <<>>
    BY <2>1 DEF NetTypeOK, Deliver
  <2>3. Len(b) \in Nat \ {0} /\ DOMAIN b = 1 .. Len(b) /\ Head(b) = b[1]
    BY <2>2, LenProperties, EmptySeq
  <2>4. /\ DOMAIN Tail(b) = 1 .. Len(b) - 1
        /\ \A i \in 1 .. Len(b) - 1 : Tail(b)[i] = b[i + 1]
    BY <2>2, <2>3, HeadTailProperties, LenProperties
  <2>5. \A i \in DOMAIN b : EventOK(p, b[i])
    BY DEF EventsOK
  <2>6. /\ box'[p] = Tail(b) /\ hand' = [msg |-> Head(b), prio |-> p]
        /\ \A q \in Prio : q # p => box'[q] = box[q]
    BY <2>1 DEF Deliver, NetTypeOK
  <2> HIDE DEF b
  <2>7. \A i \in DOMAIN Tail(b) : EventOK(p, Tail(b)[i])
    BY <2>3, <2>4, <2>5
  <2>8. EventOK(p, Head(b))
    BY <2>3, <2>5
  <2>9. \A q \in Prio : \A i \in DOMAIN box'[q] : EventOK(q, box'[q][i])
    BY <2>6, <2>7 DEF EventsOK
  <2>10. EventOK(hand'.prio, hand'.msg)
    BY <2>6, <2>8
  <2> QED BY <2>9, <2>10 DEF EventsOK, EventOK
<1>4. CASE Finish
  BY <1>4 DEF Finish, EventsOK, EventOK
<1> QED BY <1>1, <1>2, <1>3, <1>4, Moves

-----------------------------------------------------------------------------
(* The conjuncts of the invariant, one after the other.                    *)

(* Lua's functions leave the other sockets alone, and what the script can  *)
(* use is there.                                                           *)
LEMMA LuaFrame ==
  ASSUME NetTypeOK, AliveOK, NEW s \in Sock, Lua(s)
  PROVE  /\ UNCHANGED calling
         /\ \A t \in Sock : t # s => /\ pinned'[t] = pinned[t] /\ pcb'[t] = pcb[t]
                                     /\ wait_dns'[t] = wait_dns[t] /\ life'[t] = life[t]
         /\ \/ life'[s] \in {"held", "dropped"} /\ (pinned'[s] => pinned[s] \/ CanUse(s))
            \/ ~pinned'[s] /\ ~Given(s)
<1> USE DEF NetTypeOK
<1>1. CASE net_create(s) \/ Script(s)
  BY <1>1 DEF net_create, Script
<1>2. CASE net_delete(s)
  BY <1>2 DEF net_delete
<1>3. CanUse(s) => life[s] \in {"held", "dropped"}
  BY DEF CanUse, AliveOK
<1>4. CASE \E c \in Used : net_on(s, c)
  BY <1>3, <1>4 DEF net_on
<1>5. CASE \E a \in Addr : net_connect(s, a) \/ net_dns(s, a)
  <2>1. PICK a \in Addr : net_connect(s, a) \/ net_dns(s, a)
    BY <1>5
  <2>2. Call(s) /\ Resolving(s, a)
    BY <2>1 DEF net_connect, net_dns
  <2>3. \A t \in Sock : t # s => pcb'[t] = pcb[t]
    BY <2>1 DEF net_connect, net_dns
  <2> QED BY <1>3, <2>2, <2>3 DEF Call, Resolving
<1>6. CASE ConnectFails(s)
  <2>1. \A t \in Sock : t # s => pcb'[t] = pcb[t]
    BY <1>6 DEF ConnectFails, NetErr
  <2> QED BY <1>3, <1>6, <2>1 DEF ConnectFails, Call
<1>7. CASE net_send(s)
  <2>1. \A t \in Sock : t # s => pcb'[t] = pcb[t] /\ pinned'[t] = pinned[t]
    BY <1>7 DEF net_send
  <2> QED BY <1>3, <1>7, <2>1 DEF net_send, Call
<1>8. CASE net_listen(s)
  <2>1. \A t \in Sock : t # s => pcb'[t] = pcb[t] /\ pinned'[t] = pinned[t]
    BY <1>8 DEF net_listen, ListenPins
  <2> QED BY <1>3, <1>8, <2>1 DEF net_listen, Call
<1>9. CASE net_close(s)
  BY <1>3, <1>9 DEF net_close, WaitsAfterClose
<1> QED BY <1>1, <1>2, <1>4, <1>5, <1>6, <1>7, <1>8, <1>9 DEF Lua

(* The callbacks of lwIP only take control blocks away.                    *)
LEMMA LwipFrame ==
  ASSUME NetTypeOK, Lwip
  PROVE  /\ UNCHANGED <<hand, life, pinned, wait_dns, calling>>
         /\ \A s \in Sock : pcb'[s] \in {pcb[s], None}
<1>1. UNCHANGED <<hand, life, pinned, wait_dns, calling>>
  BY DEF Lwip, Answer, Established, Reset, PeerCloses, Gone, Receive, Acknowledged, Knock, LwipStep
<1>2. ASSUME NEW t, NEW v, NetErr(t, v) PROVE \A s \in Sock : pcb'[s] \in {pcb[s], None}
  BY <1>2 DEF NetErr, NetTypeOK
<1>3. \A s \in Sock : pcb'[s] \in {pcb[s], None}
  BY <1>2 DEF Lwip, Answer, Established, Reset, PeerCloses, Gone, Receive, Acknowledged, Knock
<1> QED BY <1>1, <1>3

(* The pump leaves control blocks alone and takes pins away.               *)
LEMMA TailFrame ==
  ASSUME NetTypeOK, FoundTail \/ ErrTail \/ OtherTail
  PROVE  /\ Finish /\ calling' = None /\ UNCHANGED <<life, pcb, asked, lost>>
         /\ \A s \in Sock : pinned'[s] => pinned[s]
<1>1. Finish /\ calling' = None /\ UNCHANGED <<life, pcb, asked, lost>>
  BY DEF FoundTail, ErrTail, OtherTail, HandlerEnds
<1>2. \A s \in Sock : pinned'[s] => pinned[s]
  BY DEF FoundTail, ErrTail, OtherTail, NetTypeOK
<1> QED BY <1>1, <1>2

LEMMA AliveKept ==
  ASSUME NetTypeOK, AliveOK, NetNext
  PROVE  AliveOK'
<1>1. ASSUME NEW s \in Sock, Lua(s) PROVE AliveOK'
  <2>1. \A t \in Sock : Given(t)' = Given(t)
    BY <1>1, LuaFrame DEF Given
  <2>2. ASSUME NEW t \in Sock, t # s, pinned'[t] \/ Given(t)
        PROVE  life'[t] \in {"held", "dropped"}
    BY <1>1, <2>2, LuaFrame DEF AliveOK
  <2>3. pinned'[s] \/ Given(s) => life'[s] \in {"held", "dropped"}
    BY <1>1, LuaFrame
  <2> QED BY <2>1, <2>2, <2>3 DEF AliveOK
<1>2. CASE Lwip
  BY <1>2, LwipFrame DEF AliveOK, Given
<1>3. CASE PumpDeliver
  <2>1. UNCHANGED <<life, pinned>>
    BY <1>3 DEF PumpDeliver, udVars
  <2>2. \A s \in Sock : Given(s)' => pinned[s]
    <3>1. PICK e : calling' \in Calls(e)
      BY <1>3 DEF PumpDeliver
    <3>2. calling' \in {None, [cb |-> CallbackFor(e), obj |-> Self(e.sock)]}
      BY <3>1 DEF Calls
    <3>3. calling' # None => calling'.obj = Self(e.sock)
      BY <3>2
    <3> QED BY <3>3, NetSocketAssumption DEF Given, Self
  <2> QED BY <2>1, <2>2 DEF AliveOK
<1>4. CASE FoundTail \/ ErrTail \/ OtherTail
  BY <1>4, TailFrame DEF AliveOK, Given
<1> QED BY <1>1, <1>2, <1>3, <1>4 DEF NetNext, Pump

(* Queries keep the pin.                                                   *)
LEMMA WaitsPinnedKept ==
  ASSUME NetTypeOK, AliveOK, WaitsPinned, NetTypeOK', NetNext
  PROVE  WaitsPinned'
<1>1. ASSUME NEW s \in Sock, Lua(s) PROVE WaitsPinned'
  <2>1. wait_dns'[s] # 0 => pinned'[s] /\ Type[s] # "server"
    <3>1. CASE \E a \in Addr : net_connect(s, a) \/ net_dns(s, a)
      BY <3>1 DEF net_connect, net_dns, Resolving, NetTypeOK
    <3>2. CASE net_close(s)
      BY <3>2 DEF net_close, KeepsPin, WaitsAfterClose, WaitsPinned, NetTypeOK
    <3>3. CASE net_send(s) \/ net_listen(s)
      BY <3>3 DEF net_send, net_listen, ListenPins, WaitsPinned, NetTypeOK
    <3>4. CASE \/ net_create(s) \/ Script(s) \/ net_delete(s) \/ ConnectFails(s)
               \/ \E c \in Used : net_on(s, c)
      BY <3>4 DEF net_create, Script, net_delete, ConnectFails, net_on, WaitsPinned
    <3> QED BY <1>1, <3>1, <3>2, <3>3, <3>4 DEF Lua
  <2>2. \A t \in Sock : t # s => pinned'[t] = pinned[t] /\ wait_dns'[t] = wait_dns[t]
    BY <1>1, LuaFrame
  <2> QED BY <2>1, <2>2 DEF WaitsPinned
<1>2. CASE Lwip
  BY <1>2, LwipFrame DEF WaitsPinned
<1>3. CASE PumpDeliver
  BY <1>3 DEF PumpDeliver, udVars, WaitsPinned
<1>4. CASE FoundTail
  <2> DEFINE s == hand.msg.sock
  <2>1. /\ wait_dns' = [wait_dns EXCEPT ![s] = @ - 1]
        /\ pinned' = [pinned EXCEPT ![s] = @ /\ ~FoundUnpins(s)]
    BY <1>4 DEF FoundTail
  <2> HIDE DEF s
  <2>2. ASSUME NEW t \in Sock, wait_dns'[t] # 0 PROVE pinned'[t] /\ Type[t] # "server"
    <3>1. wait_dns[t] \in Nat /\ wait_dns'[t] \in Nat
      BY DEF NetTypeOK
    <3>2. CASE t = s
      <4>1. wait_dns'[t] = wait_dns[t] - 1 /\ pinned'[t] = (pinned[t] /\ ~FoundUnpins(t))
        BY <2>1, <3>2 DEF NetTypeOK
      <4>2. wait_dns[t] # 0 /\ wait_dns[t] # 1
        BY <2>2, <3>1, <4>1
      <4> QED BY <4>1, <4>2 DEF WaitsPinned, FoundUnpins
    <3>3. CASE t # s
      BY <2>1, <2>2, <3>3 DEF WaitsPinned, NetTypeOK
    <3> QED BY <3>2, <3>3
  <2> QED BY <2>2 DEF WaitsPinned
<1>5. CASE ErrTail \/ OtherTail
  BY <1>5 DEF ErrTail, OtherTail, ErrUnpins, WaitsPinned, NetTypeOK
<1> QED BY <1>1, <1>2, <1>3, <1>4, <1>5 DEF NetNext, Pump

(* A query of s: it is asked, or its answer is posted or lost.             *)
LEMMA NumbersOK ==
  ASSUME NetTypeOK, NEW s \in Sock
  PROVE  /\ Len(asked[s]) \in Nat /\ (Len(asked[s]) = 0 <=> asked[s] = <<>>)
         /\ Cardinality(FoundIn(box[Medium], s)) \in Nat
         /\ Cardinality(FoundIn(box[Medium], s)) = 0 <=> FoundIn(box[Medium], s) = {}
         /\ lost[s]["DNSFOUND"] \in Nat /\ wait_dns[s] \in Nat
<1>1. /\ asked[s] \in Seq(Addr) /\ box[Medium] \in Seq(NetEvent)
      /\ lost[s]["DNSFOUND"] \in Nat /\ wait_dns[s] \in Nat
  BY NetSocketAssumption DEF NetTypeOK, Counted
<1>2. Len(asked[s]) \in Nat /\ (Len(asked[s]) = 0 <=> asked[s] = <<>>)
  BY <1>1, LenProperties, EmptySeq
<1> QED BY <1>1, <1>2, FoundCount

LEMMA OutIs ==
  ASSUME NEW s \in Sock
  PROVE  /\ Out(s) = Len(asked[s]) + Cardinality(FoundIn(box[Medium], s)) + lost[s]["DNSFOUND"]
         /\ Out(s)' = Len(asked'[s]) + Cardinality(FoundIn(box'[Medium], s)) + lost'[s]["DNSFOUND"]
<1>1. Found(s) = FoundIn(box[Medium], s) /\ Found(s)' = FoundIn(box'[Medium], s)
  BY DEF Found, FoundIn, IsFound
<1> QED BY <1>1 DEF Out

(* A post adds an answer to the sum, and nothing else.                     *)
LEMMA PostSums ==
  ASSUME NetTypeOK, NEW p \in Prio, NEW e \in NetEvent, EventOK(p, e), PostNet(p, e),
         NEW s \in Sock, Len(asked'[s]) \in Nat
  PROVE  /\ Out(s) \in Nat
         /\ Out(s)' = Out(s) + (Len(asked'[s]) - Len(asked[s])) + (IF IsFound(e, s) THEN 1 ELSE 0)
<1>1. box' \in [Prio -> Seq(NetEvent)]
  BY Posts
<1>2. Cardinality(FoundIn(box'[Medium], s)) \in Nat
  BY <1>1, FoundCount, NetSocketAssumption
<1>3. /\ Len(asked[s]) \in Nat /\ Cardinality(FoundIn(box[Medium], s)) \in Nat
      /\ lost[s]["DNSFOUND"] \in Nat /\ lost'[s]["DNSFOUND"] \in Nat
  BY NumbersOK, PostCounts
<1>4. Cardinality(FoundIn(box'[Medium], s)) + lost'[s]["DNSFOUND"]
        = Cardinality(FoundIn(box[Medium], s)) + lost[s]["DNSFOUND"]
            + (IF IsFound(e, s) THEN 1 ELSE 0)
  BY PostCounts
<1>5. /\ Out(s) = Len(asked[s]) + Cardinality(FoundIn(box[Medium], s)) + lost[s]["DNSFOUND"]
      /\ Out(s)' = Len(asked'[s]) + Cardinality(FoundIn(box'[Medium], s)) + lost'[s]["DNSFOUND"]
  BY OutIs
<1> DEFINE l == Len(asked[s])    m == Len(asked'[s])
           c == Cardinality(FoundIn(box[Medium], s))
           d == Cardinality(FoundIn(box'[Medium], s))
           x == lost[s]["DNSFOUND"]    y == lost'[s]["DNSFOUND"]
           one == IF IsFound(e, s) THEN 1 ELSE 0
<1>6. /\ l \in Nat /\ m \in Nat /\ c \in Nat /\ d \in Nat /\ x \in Nat /\ y \in Nat /\ one \in Nat
      /\ d + y = c + x + one /\ Out(s) = l + c + x /\ Out(s)' = m + d + y
  BY <1>2, <1>3, <1>4, <1>5
<1> HIDE DEF l, m, c, d, x, y, one
<1>7. Out(s) \in Nat /\ Out(s)' = Out(s) + (m - l) + one
  BY <1>6
<1> QED BY <1>7 DEF l, m, one

(* Steps that ask nothing, answer nothing and deliver nothing.             *)
LEMMA SumsKept ==
  ASSUME NetTypeOK, WaitsAccounted, UNCHANGED <<wait_dns, asked, hand>>,
         \/ UNCHANGED <<box, lost>>
         \/ \E p \in Prio, e \in NetEvent :
              EventOK(p, e) /\ PostNet(p, e) /\ e.kind # "DNSFOUND"
  PROVE  WaitsAccounted'
<1>1. ASSUME NEW s \in Sock PROVE Out(s)' = Out(s)
  <2>1. CASE UNCHANGED <<box, lost>>
    BY <2>1, OutIs
  <2>2. ASSUME NEW p \in Prio, NEW e \in NetEvent,
               EventOK(p, e), PostNet(p, e), e.kind # "DNSFOUND"
        PROVE  Out(s)' = Out(s)
    <3>1. ~IsFound(e, s) /\ asked' = asked
      BY <2>2 DEF IsFound
    <3>2. Len(asked[s]) \in Nat
      BY NumbersOK
    <3> QED BY <2>2, <3>1, <3>2, PostSums
  <2> QED BY <2>1, <2>2
<1>2. \A s \in Sock : InHand(s)' = InHand(s)
  BY DEF InHand, FoundInHand, IsFound
<1> QED BY <1>1, <1>2 DEF WaitsAccounted

LEMMA ResolvingAccounted ==
  ASSUME NetTypeOK, WaitsAccounted, NEW s \in Sock, NEW a \in Addr, Resolving(s, a),
         UNCHANGED hand
  PROVE  WaitsAccounted'
<1>1. \A t \in Sock : InHand(t)' = InHand(t)
  BY DEF InHand, FoundInHand, IsFound
<1>2. \A t \in Sock : wait_dns'[t] = wait_dns[t] + (IF t = s THEN 1 ELSE 0)
  BY DEF Resolving, NetTypeOK
<1>3. ASSUME NEW t \in Sock PROVE Out(t) \in Nat /\ Out(t)' = Out(t) + (IF t = s THEN 1 ELSE 0)
  <2> DEFINE k == IF t = s THEN 1 ELSE 0
             l == Len(asked[t])
             c == Cardinality(FoundIn(box[Medium], t))
             x == lost[t]["DNSFOUND"]
  <2>0. k \in Nat /\ l \in Nat /\ c \in Nat /\ x \in Nat
    BY NumbersOK
  <2>1. CASE NetDns(s, a) /\ UNCHANGED asked
    <3> DEFINE e == Event("DNSFOUND", s, a)
               f == IF IsFound(e, t) THEN 1 ELSE 0
    <3>1. e \in NetEvent /\ e.kind = "DNSFOUND" /\ e.sock = s /\ e.val = a
      BY Events DEF Event
    <3>2. EventOK(Medium, e) /\ Medium \in Prio
      BY <3>1, NetSocketAssumption DEF EventOK
    <3>3. PostNet(Medium, e)
      BY <2>1 DEF NetDns
    <3>4. f = k
      BY <3>1 DEF IsFound
    <3>5. Len(asked'[t]) = l
      BY <2>1
    <3> HIDE DEF e
    <3>6. Out(t) \in Nat /\ Out(t)' = Out(t) + (l - l) + f
      BY <2>0, <3>1, <3>2, <3>3, <3>5, PostSums
    <3> HIDE DEF k, l, f
    <3>7. Out(t) \in Nat /\ Out(t)' = Out(t) + k
      BY <2>0, <3>4, <3>6
    <3> QED BY <3>7 DEF k
  <2>2. CASE asked' = [asked EXCEPT ![s] = Append(@, a)] /\ UNCHANGED posting
    <3>1. asked[t] \in Seq(Addr)
      BY DEF NetTypeOK
    <3>2. Len(asked'[t]) = l + k
      <4>1. CASE t = s
        <5>1. asked'[t] = Append(asked[t], a)
          BY <2>2, <4>1 DEF NetTypeOK
        <5>2. Len(Append(asked[t], a)) = Len(asked[t]) + 1
          BY <3>1, AppendProperties
        <5> QED BY <4>1, <5>1, <5>2
      <4>2. CASE t # s
        <5>1. asked'[t] = asked[t]
          BY <2>2, <4>2 DEF NetTypeOK
        <5> HIDE DEF l
        <5> QED BY <2>0, <4>2, <5>1 DEF l
      <4> QED BY <4>1, <4>2
    <3>3. box' = box /\ lost' = lost
      BY <2>2 DEF posting
    <3>4. Out(t) = l + c + x /\ Out(t)' = (l + k) + c + x
      BY <3>2, <3>3, OutIs
    <3> HIDE DEF k, l, c, x
    <3>5. Out(t) \in Nat /\ Out(t)' = Out(t) + k
      BY <2>0, <3>4
    <3> QED BY <3>5 DEF k
  <2> QED BY <2>1, <2>2 DEF Resolving
<1>4. \A t \in Sock : InHand(t) \in Nat
  BY DEF InHand
<1> QED BY <1>1, <1>2, <1>3, <1>4 DEF WaitsAccounted

LEMMA AnswerAccounted ==
  ASSUME NetTypeOK, WaitsAccounted, NEW s \in Sock, Answer(s)
  PROVE  WaitsAccounted'
<1>1. PICK i \in 1 .. Len(asked[s]) :
        /\ asked' = [asked EXCEPT ![s] = RemoveAt(@, i)]
        /\ \E a \in {asked[s][i], NoAddr} : NetDns(s, a)
  BY DEF Answer
<1>2. asked[s] \in Seq(Addr)
  BY DEF NetTypeOK
<1>3. /\ RemoveAt(asked[s], i) \in Seq(Addr) /\ Len(RemoveAt(asked[s], i)) = Len(asked[s]) - 1
      /\ asked[s][i] \in Addr
  BY <1>2, Removed
<1>4. PICK a \in Addr \union {NoAddr} : NetDns(s, a)
  BY <1>1, <1>3
<1> DEFINE e == Event("DNSFOUND", s, a)
<1>5. /\ e \in NetEvent /\ e.kind = "DNSFOUND" /\ e.sock = s /\ e.val = a
      /\ EventOK(Medium, e) /\ Medium \in Prio /\ PostNet(Medium, e)
  <2>1. e \in NetEvent /\ e.kind = "DNSFOUND" /\ e.sock = s /\ e.val = a
    BY Events DEF Event
  <2>2. PostNet(Medium, e)
    BY <1>4 DEF NetDns
  <2> QED BY <2>1, <2>2, NetSocketAssumption DEF EventOK
<1> HIDE DEF e
<1>6. ASSUME NEW t \in Sock PROVE Out(t)' = Out(t)
  <2> DEFINE k == IF t = s THEN 1 ELSE 0
             f == IF IsFound(e, t) THEN 1 ELSE 0
             l == Len(asked[t])
             m == Len(asked'[t])
  <2>1. f = k
    BY <1>5 DEF IsFound
  <2>2. k \in Nat /\ l \in Nat /\ m \in Nat /\ m = l - k
    <3>1. l \in Nat
      BY NumbersOK
    <3>2. CASE t = s
      <4>1. asked'[t] = RemoveAt(asked[t], i) /\ RemoveAt(asked[t], i) \in Seq(Addr)
        BY <1>1, <1>3, <3>2 DEF NetTypeOK
      <4>2. m \in Nat
        BY <4>1, LenProperties
      <4> QED BY <1>3, <3>1, <3>2, <4>1, <4>2
    <3>3. CASE t # s
      <4>1. asked'[t] = asked[t] /\ k = 0
        BY <1>1, <3>3 DEF NetTypeOK
      <4>2. m = l
        BY <4>1
      <4> HIDE DEF k, l, m
      <4> QED BY <3>1, <4>1, <4>2
    <3> QED BY <3>2, <3>3
  <2>3. Out(t) \in Nat /\ Out(t)' = Out(t) + (m - l) + f
    BY <1>5, <2>2, PostSums
  <2> HIDE DEF k, f, l, m
  <2> QED BY <2>1, <2>2, <2>3
<1>7. \A t \in Sock : InHand(t)' = InHand(t) /\ wait_dns'[t] = wait_dns[t]
  BY DEF Answer, LwipStep, InHand, FoundInHand, IsFound
<1> QED BY <1>6, <1>7 DEF WaitsAccounted

(* An answer that is delivered leaves the box for the hand.                *)
LEMMA DeliverAccounted ==
  ASSUME NetTypeOK, EventsOK, WaitsAccounted, NEW p \in Prio, Deliver(p),
         UNCHANGED <<wait_dns, asked, lost>>
  PROVE  WaitsAccounted'
<1> DEFINE e == Head(box[p])
<1>1. /\ Medium \in Prio /\ box[p] \in Seq(NetEvent) /\ box[p] # <<>> /\ box[Medium] \in Seq(NetEvent)
  BY NetSocketAssumption DEF Deliver, NetTypeOK
<1>2. /\ hand = None /\ hand' # None /\ hand'.msg = e
      /\ box' = [box EXCEPT ![p] = Tail(@)]
  <2>1. hand = None /\ hand' = [msg |-> e, prio |-> p] /\ box' = [box EXCEPT ![p] = Tail(@)]
    BY DEF Deliver
  <2>2. e \in NetEvent
    BY <1>1, HeadTailProperties
  <2>3. hand' \in [msg : NetEvent, prio : Prio]
    BY <2>1, <2>2
  <2>4. NetEvent \subseteq Msg
    BY NetSocketAssumption
  <2>5. hand' # None
    BY <2>1, <2>2, <2>4, MailboxAssumption
  <2> QED BY <2>1, <2>5
<1>3. EventOK(p, e)
  <2>1. e = box[p][1] /\ 1 \in DOMAIN box[p]
    BY <1>1, LenProperties, EmptySeq
  <2> QED BY <2>1 DEF EventsOK
<1> HIDE DEF e
<1>4. ASSUME NEW t \in Sock PROVE Out(t)' + InHand(t)' = Out(t) + InHand(t)
  <2> DEFINE f == IF IsFound(e, t) THEN 1 ELSE 0
             l == Len(asked[t])
             c == Cardinality(FoundIn(box[Medium], t))
             d == Cardinality(FoundIn(box'[Medium], t))
             x == lost[t]["DNSFOUND"]
  <2>1. InHand(t) = 0 /\ InHand(t)' = f
    BY <1>2 DEF InHand, FoundInHand, IsFound
  <2>2. l \in Nat /\ c \in Nat /\ x \in Nat /\ f \in Nat
    BY NumbersOK
  <2>3. d \in Nat /\ c = d + f
    <3>1. CASE p = Medium
      <4>1. box'[Medium] = Tail(box[Medium]) /\ Tail(box[Medium]) \in Seq(NetEvent)
        BY <1>1, <1>2, <3>1, HeadTailProperties DEF NetTypeOK
      <4>2. d \in Nat
        BY <4>1, FoundCount
      <4>3. c = d + f
        BY <1>1, <3>1, <4>1, FoundOfTail DEF e
      <4> QED BY <4>2, <4>3
    <3>2. CASE p # Medium
      <4>1. box'[Medium] = box[Medium] /\ ~IsFound(e, t)
        BY <1>1, <1>2, <1>3, <3>2 DEF NetTypeOK, EventOK, IsFound
      <4>2. d = c /\ f = 0
        BY <4>1
      <4> HIDE DEF c, d, f
      <4> QED BY <2>2, <4>2
    <3> QED BY <3>1, <3>2
  <2>4. Out(t) = l + c + x /\ Out(t)' = l + d + x
    BY OutIs
  <2> HIDE DEF f, l, c, d, x
  <2> QED BY <2>1, <2>2, <2>3, <2>4
<1> QED BY <1>4 DEF WaitsAccounted

(* A callback that ends took its answer from the sum.                      *)
LEMMA TailAccounted ==
  ASSUME NetTypeOK, WaitsAccounted, FoundTail \/ ErrTail \/ OtherTail
  PROVE  WaitsAccounted'
<1>1. /\ hand # None /\ hand' = None /\ UNCHANGED <<box, asked, lost>>
      /\ hand \in [msg : NetEvent, prio : Prio]
  BY TailFrame DEF Finish, NetTypeOK
<1>2. \A t \in Sock : Out(t)' = Out(t) /\ InHand(t)' = 0
  <2>1. \A t \in Sock : Out(t)' = Out(t)
    BY <1>1, OutIs
  <2>2. \A t \in Sock : InHand(t)' = 0
    BY <1>1 DEF InHand, FoundInHand
  <2> QED BY <2>1, <2>2
<1>3. ASSUME NEW t \in Sock PROVE Out(t) \in Nat
  BY NumbersOK, OutIs
<1>4. CASE FoundTail
  <2> DEFINE s == hand.msg.sock
  <2>1. /\ hand.msg.kind = "DNSFOUND" /\ wait_dns' = [wait_dns EXCEPT ![s] = @ - 1]
    BY <1>4 DEF FoundTail, HandlerEnds
  <2>2. \A t \in Sock : InHand(t) = IF t = s THEN 1 ELSE 0
    BY <1>1, <2>1 DEF InHand, FoundInHand, IsFound
  <2> HIDE DEF s
  <2>3. ASSUME NEW t \in Sock PROVE wait_dns'[t] = Out(t)
    <3>1. wait_dns[t] = Out(t) + InHand(t)
      BY DEF WaitsAccounted
    <3>2. CASE t = s
      <4>1. InHand(t) = 1 /\ wait_dns'[t] = wait_dns[t] - 1
        BY <2>1, <2>2, <3>2 DEF NetTypeOK
      <4> QED BY <1>3, <3>1, <4>1
    <3>3. CASE t # s
      <4>1. InHand(t) = 0 /\ wait_dns'[t] = wait_dns[t]
        BY <2>1, <2>2, <3>3 DEF NetTypeOK
      <4> QED BY <1>3, <3>1, <4>1
    <3> QED BY <3>2, <3>3
  <2>4. ASSUME NEW t \in Sock PROVE wait_dns'[t] = Out(t)' + InHand(t)'
    BY <1>2, <1>3, <2>3
  <2> QED BY <2>4 DEF WaitsAccounted
<1>5. CASE ErrTail \/ OtherTail
  <2>1. hand.msg.kind # "DNSFOUND" /\ wait_dns' = wait_dns
    BY <1>5 DEF ErrTail, OtherTail, HandlerEnds
  <2>2. \A t \in Sock : InHand(t) = 0
    BY <2>1 DEF InHand, FoundInHand, IsFound
  <2>3. \A t \in Sock : wait_dns'[t] = Out(t)' + InHand(t)'
    BY <1>2, <2>1, <2>2 DEF WaitsAccounted
  <2> QED BY <2>3 DEF WaitsAccounted
<1> QED BY <1>4, <1>5

LEMMA WaitsAccountedKept ==
  ASSUME NetTypeOK, EventsOK, WaitsAccounted, ConnectedIsPinned, NetNext
  PROVE  WaitsAccounted'
<1>1. ASSUME UNCHANGED <<wait_dns, asked, hand>>, Lwip \/ \E s \in Sock : Lua(s)
      PROVE  WaitsAccounted'
  <2>1. CASE Posted
    BY <1>1, <2>1, SumsKept DEF Posted
  <2>2. CASE UNCHANGED <<box, lost, hand>>
    BY <1>1, <2>2, SumsKept
  <2> QED BY <1>1, <2>1, <2>2, PostsOne
<1>2. ASSUME NEW s \in Sock, Lua(s) PROVE WaitsAccounted'
  <2>1. ASSUME NEW a \in Addr, net_connect(s, a) \/ net_dns(s, a) PROVE WaitsAccounted'
    <3>1. Resolving(s, a) /\ UNCHANGED hand
      BY <2>1 DEF net_connect, net_dns, Call
    <3> QED BY <3>1, ResolvingAccounted
  <2>2. CASE \/ net_create(s) \/ Script(s) \/ net_delete(s) \/ ConnectFails(s) \/ net_send(s)
             \/ net_listen(s) \/ net_close(s) \/ \E c \in Used : net_on(s, c)
    <3>1. UNCHANGED <<wait_dns, asked, hand>>
      BY <2>2 DEF net_create, Script, net_delete, ConnectFails, net_send, net_listen, net_close,
                  net_on, Call, mailboxVars, WaitsAfterClose
    <3> QED BY <1>1, <1>2, <3>1
  <2> QED BY <1>2, <2>1, <2>2 DEF Lua
<1>3. CASE Lwip
  <2>1. ASSUME NEW s \in Sock, Answer(s) PROVE WaitsAccounted'
    BY <2>1, AnswerAccounted
  <2>2. CASE \A s \in Sock : ~Answer(s)
    <3>1. UNCHANGED <<wait_dns, asked, hand>>
      BY <1>3, <2>2 DEF Lwip, Established, Reset, PeerCloses, Gone, Receive, Acknowledged, Knock,
                        LwipStep
    <3> QED BY <1>1, <1>3, <3>1
  <2> QED BY <2>1, <2>2
<1>4. CASE PumpDeliver
  BY <1>4, DeliverAccounted DEF PumpDeliver, udVars
<1>5. CASE FoundTail \/ ErrTail \/ OtherTail
  BY <1>5, TailAccounted
<1> QED BY <1>2, <1>3, <1>4, <1>5 DEF NetNext, Pump

(* What is open stays open when an event is posted.                        *)
LEMMA StaysOpen ==
  ASSUME NetTypeOK, NEW p \in Prio, NEW e \in NetEvent, EventOK(p, e), PostNet(p, e),
         NEW s \in Sock, NEW i \in 0 .. Len(box[Medium]),
         (OpenBehind(s, i) /\ asked'[s] = asked[s]) \/ asked'[s] # <<>> \/ IsFound(e, s)
  PROVE  OpenBehind(s, i)'
<1>1. Medium \in Prio
  BY NetSocketAssumption
<1>2. CASE asked'[s] # <<>>
  BY <1>2 DEF OpenBehind
<1>3. CASE IsFound(e, s)
  <2>1. i < Len(box[Medium]) + 1
    <3>1. box[Medium] \in Seq(NetEvent)
      BY <1>1 DEF NetTypeOK
    <3>2. Len(box[Medium]) \in Nat
      BY <3>1, LenProperties
    <3> QED BY <3>2
  <2>2. \/ lost'[s]["DNSFOUND"] > 0
        \/ /\ Len(box[Medium]) + 1 \in DOMAIN box'[Medium]
           /\ box'[Medium][Len(box[Medium]) + 1] = e
    BY <1>3, PostCounts
  <2>3. \/ lost'[s]["DNSFOUND"] > 0
        \/ \E j \in DOMAIN box'[Medium] : i < j /\ IsFound(box'[Medium][j], s)
    BY <1>3, <2>1, <2>2
  <2> QED BY <2>3 DEF OpenBehind, IsFound
<1>4. CASE asked'[s] = <<>> /\ OpenBehind(s, i) /\ asked'[s] = asked[s]
  <2>1. CASE lost[s]["DNSFOUND"] > 0
    <3>1. /\ lost'[s]["DNSFOUND"] \in Nat /\ lost[s]["DNSFOUND"] \in Nat
          /\ lost'[s]["DNSFOUND"] >= lost[s]["DNSFOUND"]
      BY PostCounts, NumbersOK
    <3>2. lost'[s]["DNSFOUND"] > 0
      BY <2>1, <3>1
    <3> QED BY <3>2 DEF OpenBehind
  <2>2. ASSUME NEW j \in DOMAIN box[Medium], i < j, IsFound(box[Medium][j], s)
        PROVE  OpenBehind(s, i)'
    <3>1. j \in DOMAIN box'[Medium] /\ box'[Medium][j] = box[Medium][j]
      BY <1>1, PostEvents
    <3> QED BY <2>2, <3>1 DEF OpenBehind, IsFound
  <2> QED BY <1>4, <2>1, <2>2 DEF OpenBehind
<1> QED BY <1>2, <1>3, <1>4

(* Errors stay overtaken when an event is posted ...                       *)
LEMMA OvertakenPosted ==
  ASSUME NetTypeOK, EventsOK, NEW p \in Prio, NEW e \in NetEvent, EventOK(p, e), PostNet(p, e),
         UNCHANGED hand, e.kind = "ERR" => pcb'[e.sock] = None,
         \A s \in Sock : pcb'[s] # None =>
           \/ Type[s] # "client"
           \/ Overtaken(s) /\ asked'[s] = asked[s]
           \/ asked'[s] # <<>>
           \/ IsFound(e, s)
  PROVE  ErrorsOvertaken'
<1>1. Medium \in Prio /\ box[Medium] \in Seq(NetEvent)
  BY NetSocketAssumption DEF NetTypeOK
<1>2. Len(box[Medium]) \in Nat /\ DOMAIN box[Medium] = 1 .. Len(box[Medium])
  BY <1>1, LenProperties
<1>3. ASSUME NEW s \in Sock, pcb'[s] # None PROVE Overtaken(s)'
  <2>1. ASSUME NEW i \in DOMAIN box'[Medium], IsErr(box'[Medium][i], s) PROVE OpenBehind(s, i)'
    <3>1. i \in DOMAIN box[Medium] /\ IsErr(box[Medium][i], s)
      <4>1. \/ i \in DOMAIN box[Medium]
            \/ Medium = p /\ box'[Medium][i] = e
        BY <1>1, PostEvents
      <4>2. box'[Medium][i] # e
        BY <1>3, <2>1 DEF IsErr
      <4>3. i \in DOMAIN box[Medium]
        BY <4>1, <4>2
      <4>4. box'[Medium][i] = box[Medium][i]
        BY <1>1, <4>3, PostEvents
      <4> QED BY <2>1, <4>3, <4>4
    <3>2. Type[s] = "client"
      BY <1>1, <3>1 DEF EventsOK, EventOK, IsErr
    <3>3. i \in 0 .. Len(box[Medium])
      BY <1>2, <3>1
    <3>4. (OpenBehind(s, i) /\ asked'[s] = asked[s]) \/ asked'[s] # <<>> \/ IsFound(e, s)
      BY <1>3, <3>1, <3>2 DEF Overtaken
    <3> QED BY <3>3, <3>4, StaysOpen
  <2>2. ASSUME hand' # None, IsErr(hand'.msg, s) PROVE OpenBehind(s, 0)'
    <3>1. Type[s] = "client"
      BY <2>2 DEF EventsOK, EventOK, IsErr
    <3>2. (OpenBehind(s, 0) /\ asked'[s] = asked[s]) \/ asked'[s] # <<>> \/ IsFound(e, s)
      BY <1>3, <2>2, <3>1 DEF Overtaken
    <3>3. 0 \in 0 .. Len(box[Medium])
      BY <1>2
    <3> QED BY <3>2, <3>3, StaysOpen
  <2> QED BY <2>1, <2>2 DEF Overtaken, IsErr
<1> QED BY <1>3 DEF ErrorsOvertaken

(* ... or when the boxes are left alone ...                                *)
LEMMA OvertakenIdle ==
  ASSUME NetTypeOK, EventsOK, UNCHANGED <<box, lost, hand>>,
         \A s \in Sock : pcb'[s] # None =>
           \/ Type[s] # "client"
           \/ Overtaken(s) /\ asked'[s] = asked[s]
           \/ asked'[s] # <<>>
  PROVE  ErrorsOvertaken'
<1>1. ASSUME NEW s \in Sock, pcb'[s] # None PROVE Overtaken(s)'
  <2>1. CASE Type[s] # "client"
    <3>1. \A i \in DOMAIN box[Medium] : ~IsErr(box[Medium][i], s)
      BY <2>1, NetSocketAssumption DEF EventsOK, EventOK, IsErr
    <3>2. hand # None => ~IsErr(hand.msg, s)
      BY <2>1 DEF EventsOK, EventOK, IsErr
    <3> QED BY <3>1, <3>2 DEF Overtaken, IsErr
  <2>2. CASE Overtaken(s) /\ asked'[s] = asked[s]
    BY <2>2 DEF Overtaken, OpenBehind, IsErr, IsFound
  <2>3. CASE asked'[s] # <<>>
    BY <2>3 DEF Overtaken, OpenBehind
  <2> QED BY <1>1, <2>1, <2>2, <2>3
<1> QED BY <1>1 DEF ErrorsOvertaken

(* ... or when one is delivered: what was behind it still is.              *)
LEMMA OvertakenDelivered ==
  ASSUME NetTypeOK, EventsOK, ErrorsOvertaken, NEW p \in Prio, Deliver(p),
         UNCHANGED <<pcb, asked, lost>>
  PROVE  ErrorsOvertaken'
<1> DEFINE b == box[Medium]
<1>1. Medium \in Prio /\ b \in Seq(NetEvent) /\ box[p] \in Seq(NetEvent) /\ box[p] # <<>>
  BY NetSocketAssumption DEF NetTypeOK, Deliver
<1>2. /\ hand' = [msg |-> Head(box[p]), prio |-> p]
      /\ box' = [box EXCEPT ![p] = Tail(@)]
  BY DEF Deliver
<1>3. CASE p # Medium
  <2>1. box'[Medium] = b
    BY <1>1, <1>2, <1>3 DEF NetTypeOK
  <2>2. \A s \in Sock : ~IsErr(hand'.msg, s)
    <3>1. Head(box[p]) = box[p][1] /\ 1 \in DOMAIN box[p]
      BY <1>1, LenProperties, EmptySeq
    <3>2. EventOK(p, Head(box[p]))
      BY <3>1 DEF EventsOK
    <3> QED BY <1>2, <1>3, <3>2 DEF EventOK, IsErr
  <2>3. ASSUME NEW s \in Sock, pcb'[s] # None PROVE Overtaken(s)'
    <3>1. \A i \in DOMAIN b : IsErr(b[i], s) => OpenBehind(s, i)
      BY <2>3 DEF ErrorsOvertaken, Overtaken
    <3>2. ASSUME NEW i \in DOMAIN box'[Medium], IsErr(box'[Medium][i], s) PROVE OpenBehind(s, i)'
      BY <2>1, <3>1, <3>2 DEF OpenBehind, IsFound
    <3> QED BY <2>2, <3>2 DEF Overtaken, IsErr
  <2> QED BY <2>3 DEF ErrorsOvertaken
<1>4. CASE p = Medium
  <2> DEFINE c == box'[Medium]  n == Len(b)
  <2>1. c = Tail(b)
    BY <1>1, <1>2, <1>4 DEF NetTypeOK
  <2>2. n \in Nat \ {0} /\ DOMAIN b = 1 .. n /\ Head(b) = b[1]
    BY <1>1, <1>4, LenProperties, EmptySeq
  <2>3. DOMAIN c = 1 .. n - 1 /\ \A i \in 1 .. n - 1 : c[i] = b[i + 1]
    BY <1>1, <1>4, <2>1, <2>2, HeadTailProperties, LenProperties
  <2>4. hand'.msg = b[1]
    BY <1>2, <1>4, <2>2
  <2>5. ASSUME NEW s \in Sock, NEW i \in 0 .. n - 1, OpenBehind(s, i + 1) PROVE OpenBehind(s, i)'
    <3>1. CASE asked[s] # <<>> \/ lost[s]["DNSFOUND"] > 0
      BY <3>1 DEF OpenBehind
    <3>2. ASSUME NEW j \in DOMAIN b, i + 1 < j, IsFound(b[j], s) PROVE OpenBehind(s, i)'
      <4>1. j - 1 \in 1 .. n - 1 /\ i < j - 1 /\ c[j - 1] = b[(j - 1) + 1] /\ (j - 1) + 1 = j
        BY <2>2, <2>3, <2>5, <3>2
      <4>2. j - 1 \in DOMAIN c /\ i < j - 1 /\ IsFound(c[j - 1], s)
        BY <2>3, <3>2, <4>1
      <4> QED BY <4>2 DEF OpenBehind, IsFound
    <3> QED BY <2>5, <3>1, <3>2 DEF OpenBehind
  <2>6. ASSUME NEW s \in Sock, pcb'[s] # None PROVE Overtaken(s)'
    <3>1. \A i \in 1 .. n : IsErr(b[i], s) => OpenBehind(s, i)
      BY <2>2, <2>6 DEF ErrorsOvertaken, Overtaken
    <3>2. ASSUME NEW i \in DOMAIN c, IsErr(c[i], s) PROVE OpenBehind(s, i)'
      <4>1. i \in 0 .. n - 1 /\ i + 1 \in 1 .. n /\ c[i] = b[i + 1]
        BY <2>2, <2>3, <3>2
      <4> QED BY <2>5, <3>1, <3>2, <4>1
    <3>3. ASSUME IsErr(hand'.msg, s) PROVE OpenBehind(s, 0)'
      <4>1. OpenBehind(s, 1) /\ 0 \in 0 .. n - 1 /\ 0 + 1 = 1
        BY <2>2, <2>4, <3>1, <3>3
      <4> QED BY <2>5, <4>1
    <3> QED BY <3>2, <3>3 DEF Overtaken, IsErr
  <2> QED BY <2>6 DEF ErrorsOvertaken
<1> QED BY <1>3, <1>4

LEMMA ErrorsOvertakenKept ==
  ASSUME NetTypeOK, EventsOK, AliveOK, ErrorsOvertaken, ConnectedIsPinned, NetNext
  PROVE  ErrorsOvertaken'
(* Steps that ask nothing, and give a control block only to others than clients. *)
<1>1. ASSUME UNCHANGED asked, Lwip \/ \E s \in Sock : Lua(s),
             \A s \in Sock : pcb'[s] # None => Type[s] # "client" \/ pcb[s] # None
      PROVE  ErrorsOvertaken'
  <2>1. \A s \in Sock : pcb'[s] # None =>
          Type[s] # "client" \/ (Overtaken(s) /\ asked'[s] = asked[s])
    BY <1>1 DEF ErrorsOvertaken
  <2>2. CASE Posted
    <3>1. PICK p \in Prio, e \in NetEvent :
            PostNet(p, e) /\ EventOK(p, e) /\ (e.kind = "ERR" => pcb'[e.sock] = None)
      BY <2>2 DEF Posted
    <3>2. UNCHANGED hand
      BY <2>2 DEF Posted
    <3> QED BY <2>1, <3>1, <3>2, OvertakenPosted
  <2>3. CASE UNCHANGED <<box, lost, hand>>
    BY <2>1, <2>3, OvertakenIdle
  <2> QED BY <1>1, <2>2, <2>3, PostsOne
<1>2. ASSUME NEW s \in Sock, Lua(s) PROVE ErrorsOvertaken'
  <2>1. ASSUME NEW a \in Addr, net_connect(s, a) \/ net_dns(s, a) PROVE ErrorsOvertaken'
    <3>1. Resolving(s, a) /\ UNCHANGED hand
      BY <2>1 DEF net_connect, net_dns, Call
    <3>2. \A t \in Sock : t # s => pcb'[t] = pcb[t]
      BY <1>2, LuaFrame
    <3>3. CASE NetDns(s, a) /\ UNCHANGED asked
      <4> DEFINE e == Event("DNSFOUND", s, a)
      <4>1. e \in NetEvent /\ e.kind = "DNSFOUND" /\ e.sock = s /\ e.val = a
        BY Events DEF Event
      <4>2. EventOK(Medium, e) /\ Medium \in Prio /\ PostNet(Medium, e)
        BY <3>3, <4>1, NetSocketAssumption DEF EventOK, NetDns
      <4>3. IsFound(e, s)
        BY <4>1 DEF IsFound
      <4> HIDE DEF e
      <4>4. \A t \in Sock : pcb'[t] # None =>
              (Overtaken(t) /\ asked'[t] = asked[t]) \/ IsFound(e, t)
        BY <3>2, <3>3, <4>3 DEF ErrorsOvertaken
      <4> QED BY <3>1, <4>1, <4>2, <4>4, OvertakenPosted
    <3>4. CASE asked' = [asked EXCEPT ![s] = Append(@, a)] /\ UNCHANGED posting
      <4>1. asked[s] \in Seq(Addr) /\ asked'[s] = Append(asked[s], a)
        BY <3>4 DEF NetTypeOK
      <4>2. asked'[s] # <<>>
        BY <4>1, AppendProperties
      <4>3. \A t \in Sock : t # s => asked'[t] = asked[t]
        BY <3>4 DEF NetTypeOK
      <4>4. \A t \in Sock : pcb'[t] # None =>
              (Overtaken(t) /\ asked'[t] = asked[t]) \/ asked'[t] # <<>>
        BY <3>2, <4>2, <4>3 DEF ErrorsOvertaken
      <4>5. UNCHANGED <<box, lost, hand>>
        BY <3>1, <3>4 DEF posting
      <4> QED BY <4>4, <4>5, OvertakenIdle
    <3> QED BY <3>1, <3>3, <3>4 DEF Resolving
  <2>2. CASE \/ net_create(s) \/ Script(s) \/ net_delete(s) \/ ConnectFails(s) \/ net_send(s)
             \/ net_listen(s) \/ net_close(s) \/ \E c \in Used : net_on(s, c)
    <3>1. UNCHANGED asked
      BY <2>2 DEF net_create, Script, net_delete, ConnectFails, net_send, net_listen, net_close,
                  net_on
    <3>2. pcb'[s] # None => Type[s] # "client" \/ pcb[s] # None
      <4>1. CASE net_send(s) \/ net_listen(s)
        BY <4>1 DEF net_send, net_listen
      <4>2. CASE net_close(s) \/ net_delete(s) \/ ConnectFails(s)
        BY <4>2 DEF net_close, net_delete, ConnectFails, NetErr, NetTypeOK
      <4>3. CASE net_create(s) \/ Script(s) \/ \E c \in Used : net_on(s, c)
        BY <4>3 DEF net_create, Script, net_on
      <4> QED BY <2>2, <4>1, <4>2, <4>3
    <3>3. \A t \in Sock : t # s => pcb'[t] = pcb[t]
      BY <1>2, LuaFrame
    <3> QED BY <1>1, <1>2, <3>1, <3>2, <3>3
  <2> QED BY <1>2, <2>1, <2>2 DEF Lua
<1>3. CASE Lwip
  <2>1. \A s \in Sock : pcb'[s] \in {pcb[s], None}
    BY <1>3, LwipFrame
  <2>2. ASSUME NEW s \in Sock, Answer(s) PROVE ErrorsOvertaken'
    <3>1. PICK i \in 1 .. Len(asked[s]) :
            /\ asked' = [asked EXCEPT ![s] = RemoveAt(@, i)]
            /\ \E a \in {asked[s][i], NoAddr} : NetDns(s, a)
      BY <2>2 DEF Answer
    <3>2. asked[s][i] \in Addr
      BY ElementOfSeq DEF NetTypeOK
    <3>3. PICK a \in Addr \union {NoAddr} : NetDns(s, a)
      BY <3>1, <3>2
    <3> DEFINE e == Event("DNSFOUND", s, a)
    <3>4. e \in NetEvent /\ e.kind = "DNSFOUND" /\ e.sock = s /\ e.val = a
      BY Events DEF Event
    <3>5. EventOK(Medium, e) /\ Medium \in Prio /\ PostNet(Medium, e) /\ IsFound(e, s)
      BY <3>3, <3>4, NetSocketAssumption DEF EventOK, NetDns, IsFound
    <3> HIDE DEF e
    <3>6. \A t \in Sock : t # s => asked'[t] = asked[t]
      BY <3>1 DEF NetTypeOK
    <3>7. \A t \in Sock : pcb'[t] # None =>
            (Overtaken(t) /\ asked'[t] = asked[t]) \/ IsFound(e, t)
      BY <2>1, <3>5, <3>6 DEF ErrorsOvertaken
    <3>8. UNCHANGED hand
      BY <2>2 DEF Answer, LwipStep
    <3> QED BY <3>4, <3>5, <3>7, <3>8, OvertakenPosted
  <2>3. CASE \A s \in Sock : ~Answer(s)
    <3>1. UNCHANGED asked
      BY <1>3, <2>3 DEF Lwip, Established, Reset, PeerCloses, Gone, Receive, Acknowledged, Knock
    <3> QED BY <1>1, <1>3, <2>1, <3>1
  <2> QED BY <2>2, <2>3
<1>4. CASE PumpDeliver
  BY <1>4, OvertakenDelivered DEF PumpDeliver, udVars
<1>5. CASE FoundTail \/ ErrTail \/ OtherTail
  <2>1. hand' = None /\ UNCHANGED <<box, lost, asked, pcb>>
    BY <1>5, TailFrame DEF Finish
  <2>2. \A s \in Sock : Overtaken(s) => Overtaken(s)'
    BY <2>1 DEF Overtaken, OpenBehind, IsErr, IsFound
  <2> QED BY <2>1, <2>2 DEF ErrorsOvertaken
<1> QED BY <1>2, <1>3, <1>4, <1>5 DEF NetNext, Pump

(* A control block keeps the pin.  The error event that is handled when    *)
(* there is one finds a query, and leaves the pin to it.                   *)
LEMMA ConnectedKept ==
  ASSUME NetTypeOK, AliveOK, WaitsAccounted, ErrorsOvertaken, ConnectedIsPinned, NetNext
  PROVE  ConnectedIsPinned'
<1>1. ASSUME NEW s \in Sock, Lua(s) PROVE ConnectedIsPinned'
  <2>1. pcb'[s] # None => pinned'[s]
    <3>1. CASE \E a \in Addr : net_connect(s, a) \/ net_dns(s, a)
      BY <3>1 DEF net_connect, net_dns, Resolving, NetTypeOK
    <3>2. CASE net_send(s) \/ net_listen(s)
      BY <3>2 DEF net_send, net_listen, ListenPins, ConnectedIsPinned, NetTypeOK
    <3>3. CASE net_close(s) \/ net_delete(s) \/ ConnectFails(s)
      BY <3>3 DEF net_close, net_delete, ConnectFails, NetErr, ConnectedIsPinned, NetTypeOK
    <3>4. CASE net_create(s) \/ Script(s) \/ \E c \in Used : net_on(s, c)
      BY <3>4 DEF net_create, Script, net_on, ConnectedIsPinned
    <3> QED BY <1>1, <3>1, <3>2, <3>3, <3>4 DEF Lua
  <2>2. \A t \in Sock : t # s => pcb'[t] = pcb[t] /\ pinned'[t] = pinned[t]
    BY <1>1, LuaFrame
  <2> QED BY <2>1, <2>2 DEF ConnectedIsPinned
<1>2. CASE Lwip
  BY <1>2, LwipFrame DEF ConnectedIsPinned
<1>3. CASE PumpDeliver
  BY <1>3 DEF PumpDeliver, udVars, ConnectedIsPinned
<1>4. CASE FoundTail
  BY <1>4 DEF FoundTail, HandlerEnds, FoundUnpins, ConnectedIsPinned, NetTypeOK
<1>5. CASE ErrTail
  <2> DEFINE s == hand.msg.sock
  <2>1. /\ hand # None /\ hand.msg.kind = "ERR" /\ hand \in [msg : NetEvent, prio : Prio]
        /\ UNCHANGED pcb /\ pinned' = [pinned EXCEPT ![s] = @ /\ ~ErrUnpins(s)]
    BY <1>5 DEF ErrTail, HandlerEnds, NetTypeOK
  <2>2. s \in Sock /\ IsErr(hand.msg, s)
    BY <2>1 DEF NetEvent, IsErr
  <2> HIDE DEF s
  <2>3. ASSUME pcb[s] # None PROVE wait_dns[s] # 0
    <3>1. OpenBehind(s, 0)
      BY <2>1, <2>2, <2>3 DEF ErrorsOvertaken, Overtaken
    <3>2. /\ Len(asked[s]) \in Nat /\ (Len(asked[s]) = 0 <=> asked[s] = <<>>)
          /\ Cardinality(FoundIn(box[Medium], s)) \in Nat
          /\ Cardinality(FoundIn(box[Medium], s)) = 0 <=> FoundIn(box[Medium], s) = {}
          /\ lost[s]["DNSFOUND"] \in Nat
      BY <2>2, NumbersOK
    <3>3. \/ asked[s] # <<>> \/ lost[s]["DNSFOUND"] > 0 \/ FoundIn(box[Medium], s) # {}
      BY <3>1 DEF OpenBehind, FoundIn
    <3>4. Len(asked[s]) + Cardinality(FoundIn(box[Medium], s)) + lost[s]["DNSFOUND"] > 0
      BY <3>2, <3>3
    <3>5. Out(s) > 0 /\ Out(s) \in Nat
      BY <2>2, <3>2, <3>4, OutIs
    <3>6. InHand(s) \in Nat /\ wait_dns[s] = Out(s) + InHand(s)
      BY <2>2 DEF InHand, WaitsAccounted
    <3> QED BY <3>5, <3>6
  <2>4. ASSUME NEW t \in Sock, pcb'[t] # None PROVE pinned'[t]
    <3>1. pcb[t] # None /\ pinned[t]
      BY <2>1, <2>4 DEF ConnectedIsPinned
    <3> QED BY <2>1, <2>3, <3>1 DEF ErrUnpins, NetTypeOK
  <2> QED BY <2>4 DEF ConnectedIsPinned
<1>6. CASE OtherTail
  BY <1>6 DEF OtherTail, HandlerEnds, ConnectedIsPinned
<1> QED BY <1>1, <1>2, <1>3, <1>4, <1>5, <1>6 DEF NetNext, Pump

-----------------------------------------------------------------------------
(* The invariant.                                                          *)

LEMMA InitIInv == NetInit => IInv
<1> SUFFICES ASSUME NetInit PROVE IInv
  OBVIOUS
<1> USE DEF NetInit, Init
<1>1. NetTypeOK
  <2>1. tcp \in [Pcb -> Block]
    BY Free
  <2>2. box \in [Prio -> Seq(NetEvent)] /\ asked \in [Sock -> Seq(Addr)]
    BY EmptySeq
  <2>3. lost \in [Sock -> [Counted -> Nat]]
    OBVIOUS
  <2>4. calls \in 0 .. MaxCalls /\ arrivals \in 0 .. MaxArrivals /\ refusals \in 0 .. MaxRefusals
    BY NetSocketAssumption
  <2> QED BY <2>1, <2>2, <2>3, <2>4 DEF NetTypeOK
<1>2. Medium \in Prio /\ box[Medium] = <<>> /\ hand = None
  BY NetSocketAssumption
<1>3. EventsOK
  <2>1. \A p \in Prio : box[p] \in Seq(NetEvent) /\ Len(box[p]) = 0
    <3>1. <<>> \in Seq(NetEvent) /\ Len(<<>>) = 0
      BY EmptySeq
    <3>2. \A p \in Prio : box[p] = <<>>
      BY Zenon
    <3> QED BY <3>1, <3>2, Zenon
  <2> HIDE DEF NetInit, Init
  <2>2. \A p \in Prio : DOMAIN box[p] = 1 .. 0
    BY <2>1, LenProperties
  <2> QED BY <1>2, <2>2 DEF EventsOK
<1>4. WaitsAccounted
  <2>1. ASSUME NEW s \in Sock PROVE wait_dns[s] = Out(s) + InHand(s)
    <3>1. FoundIn(box[Medium], s) = {}
      BY <1>2 DEF FoundIn
    <3>2. Cardinality(FoundIn(box[Medium], s)) = 0
      BY <3>1, FS_EmptySet
    <3>3. Len(asked[s]) = 0 /\ lost[s]["DNSFOUND"] = 0 /\ wait_dns[s] = 0
      BY DEF Counted
    <3>4. InHand(s) = 0
      BY <1>2 DEF InHand, FoundInHand
    <3>5. Out(s) = Len(asked[s]) + Cardinality(FoundIn(box[Medium], s)) + lost[s]["DNSFOUND"]
      BY OutIs
    <3> QED BY <3>2, <3>3, <3>4, <3>5
  <2> QED BY <2>1 DEF WaitsAccounted
<1>5. AliveOK /\ WaitsPinned /\ ConnectedIsPinned /\ ErrorsOvertaken
  BY DEF AliveOK, Given, WaitsPinned, ConnectedIsPinned, ErrorsOvertaken
<1> QED BY <1>1, <1>3, <1>4, <1>5 DEF IInv

LEMMA IInvKept == IInv /\ [NetNext]_vars => IInv'
<1> SUFFICES ASSUME IInv, [NetNext]_vars PROVE IInv'
  OBVIOUS
<1> USE DEF IInv
<1>1. CASE NetNext
  <2>1. NetTypeOK'
    BY <1>1, LuaTypes, LwipTypes, PumpTypes DEF NetNext
  <2>2. EventsOK' /\ WaitsAccounted' /\ AliveOK'
    BY <1>1, EventsKept, WaitsAccountedKept, AliveKept
  <2>3. WaitsPinned'
    BY <1>1, <2>1, WaitsPinnedKept
  <2>4. ErrorsOvertaken' /\ ConnectedIsPinned'
    BY <1>1, ErrorsOvertakenKept, ConnectedKept
  <2> QED BY <2>1, <2>2, <2>3, <2>4
<1>2. CASE UNCHANGED vars
  <2> USE <1>2 DEF vars, mailboxVars, udVars, bounds
  <2>1. NetTypeOK' /\ EventsOK'
    BY DEF NetTypeOK, EventsOK, EventOK
  <2>2. WaitsAccounted'
    <3>1. \A s \in Sock : Out(s)' = Out(s) /\ InHand(s)' = InHand(s)
      BY OutIs DEF InHand, FoundInHand, IsFound
    <3> QED BY <3>1 DEF WaitsAccounted
  <2>3. AliveOK' /\ WaitsPinned' /\ ConnectedIsPinned'
    BY DEF AliveOK, Given, WaitsPinned, ConnectedIsPinned
  <2>4. ErrorsOvertaken'
    <3>1. \A s \in Sock : Overtaken(s) => Overtaken(s)'
      BY DEF Overtaken, OpenBehind, IsErr, IsFound
    <3> QED BY <3>1 DEF ErrorsOvertaken
  <2> QED BY <2>1, <2>2, <2>3, <2>4
<1> QED BY <1>1, <1>2

(* The inductive invariant holds of every behaviour.                       *)
THEOREM NetInvariant == NetSpec => []IInv
  BY InitIInv, IInvKept, PTL DEF NetSpec

(* Every variable keeps its type; wait_dns of net.c never drops below zero,  *)
(* whatever is closed, refused or answered late.                           *)
THEOREM NetTypeCorrect == NetSpec => []NetTypeOK
<1>1. IInv => NetTypeOK
  BY DEF IInv
<1> QED BY <1>1, NetInvariant, PTL

(* wait_dns counts exactly the queries whose end Lua has not been told.    *)
THEOREM QueriesAccounted == NetSpec => []WaitsAccounted
<1>1. IInv => WaitsAccounted
  BY DEF IInv
<1> QED BY <1>1, NetInvariant, PTL

(* A control block always has its socket pinned: an error event of an      *)
(* earlier connection that is handled late does not release it.            *)
THEOREM ConnectedPinned == NetSpec => []ConnectedIsPinned
<1>1. IInv => ConnectedIsPinned
  BY DEF IInv
<1> QED BY <1>1, NetInvariant, PTL

(* A socket with a query or an answer under way is pinned and not yet      *)
(* collected, so that ldnsfound_cb finds it.                               *)
THEOREM ResolvingPinned == NetSpec => []ResolvingStaysPinned
<1>1. IInv => ResolvingStaysPinned
  <2> SUFFICES ASSUME IInv, NEW s \in Sock,
                      asked[s] # <<>> \/ Found(s) # {} \/ FoundInHand(s)
               PROVE  pinned[s] /\ life[s] # "collected"
    BY DEF ResolvingStaysPinned
  <2> USE DEF IInv
  <2>1. Found(s) = FoundIn(box[Medium], s)
    BY DEF Found, FoundIn
  <2>2. /\ Len(asked[s]) \in Nat /\ (Len(asked[s]) = 0 <=> asked[s] = <<>>)
        /\ Cardinality(FoundIn(box[Medium], s)) \in Nat
        /\ Cardinality(FoundIn(box[Medium], s)) = 0 <=> FoundIn(box[Medium], s) = {}
        /\ lost[s]["DNSFOUND"] \in Nat
    BY NumbersOK
  <2>3. /\ Out(s) = Len(asked[s]) + Cardinality(FoundIn(box[Medium], s)) + lost[s]["DNSFOUND"]
        /\ wait_dns[s] = Out(s) + InHand(s)
    BY OutIs DEF WaitsAccounted
  <2>4. InHand(s) \in Nat /\ (FoundInHand(s) => InHand(s) = 1)
    BY DEF InHand
  <2> DEFINE l == Len(asked[s])  c == Cardinality(FoundIn(box[Medium], s))
             x == lost[s]["DNSFOUND"]
  <2>5. l \in Nat /\ c \in Nat /\ x \in Nat /\ (l # 0 \/ c # 0 \/ InHand(s) = 1)
    BY <2>1, <2>2, <2>4
  <2>6. wait_dns[s] = (l + c + x) + InHand(s)
    BY <2>3
  <2> HIDE DEF l, c, x
  <2>7. wait_dns[s] # 0
    BY <2>4, <2>5, <2>6
  <2> QED BY <2>7 DEF WaitsPinned, AliveOK
<1> QED BY <1>1, NetInvariant, PTL

(* No event is posted for a socket without a pin.                          *)
THEOREM NewsForPinned == NetSpec => NewsOnlyForPinned
<1> DEFINE News == \A p \in Prio : Len(box'[p]) > Len(box[p]) => pinned'[Last(box'[p]).sock]
<1>1. IInv /\ [NetNext]_vars => [News]_vars
  <2> SUFFICES ASSUME IInv, NetNext PROVE News
    OBVIOUS
  <2> USE DEF IInv
  <2> SUFFICES ASSUME NEW q \in Prio, Len(box'[q]) > Len(box[q]) PROVE pinned'[Last(box'[q]).sock]
    OBVIOUS
  <2>1. box[q] \in Seq(NetEvent) /\ box' \in [Prio -> Seq(NetEvent)]
    <3>1. NetTypeOK'
      BY LuaTypes, LwipTypes, PumpTypes DEF NetNext
    <3> QED BY <3>1 DEF NetTypeOK
  <2>2. Len(box[q]) \in Nat /\ Len(box'[q]) \in Nat
    BY <2>1, LenProperties
  <2>3. CASE Posted
    <3>1. PICK p \in Prio, e \in NetEvent :
            /\ PostNet(p, e)
            /\ \/ pinned'[e.sock]
               \/ \E i \in 1 .. Len(asked[e.sock]) : e.kind = "DNSFOUND" /\ UNCHANGED pinned
      BY <2>3 DEF Posted
    <3>2. Last(box'[q]) = e
      <4>1. Put(p, e)
        BY <2>2, <3>1 DEF PostNet
      <4>2. box'[q] = Append(box[q], e)
        BY <2>2, <4>1 DEF Put, NetTypeOK
      <4> QED BY <2>1, <4>2, AppendProperties, LenProperties DEF Last
    <3>3. ASSUME NEW i \in 1 .. Len(asked[e.sock]), UNCHANGED pinned PROVE pinned'[e.sock]
      <4> DEFINE s == e.sock
      <4>1. s \in Sock
        BY DEF NetEvent
      <4> HIDE DEF s
      <4>2. /\ Len(asked[s]) \in Nat /\ Cardinality(FoundIn(box[Medium], s)) \in Nat
            /\ lost[s]["DNSFOUND"] \in Nat
        BY <4>1, NumbersOK
      <4>3. /\ Out(s) = Len(asked[s]) + Cardinality(FoundIn(box[Medium], s)) + lost[s]["DNSFOUND"]
            /\ wait_dns[s] = Out(s) + InHand(s) /\ InHand(s) \in Nat
        BY <4>1, OutIs DEF WaitsAccounted, InHand
      <4>4. Len(asked[s]) # 0
        BY <3>3, <4>2 DEF s
      <4>5. wait_dns[s] # 0
        BY <4>2, <4>3, <4>4
      <4> QED BY <3>3, <4>1, <4>5 DEF WaitsPinned, s
    <3> QED BY <3>1, <3>2, <3>3
  <2>4. CASE UNCHANGED <<box, lost, hand>> \/ Finish
    BY <2>2, <2>4 DEF Finish
  <2>5. CASE \E p \in Prio : Deliver(p)
    <3>1. PICK p \in Prio : Deliver(p)
      BY <2>5
    <3>2. CASE p = q
      <4>1. box[q] # <<>> /\ box'[q] = Tail(box[q])
        BY <3>1, <3>2 DEF Deliver, NetTypeOK
      <4> QED BY <2>1, <2>2, <4>1, HeadTailProperties
    <3>3. CASE p # q
      <4>1. box'[q] = box[q]
        BY <3>1, <3>3 DEF Deliver, NetTypeOK
      <4> QED BY <2>2, <4>1
    <3> QED BY <3>2, <3>3
  <2> QED BY <2>3, <2>4, <2>5, Moves
<1> QED BY <1>1, NetInvariant, PTL DEF NetSpec, NewsOnlyForPinned

-----------------------------------------------------------------------------
(***************************************************************************)
(* System events.                                                          *)
(***************************************************************************)

(* Boxes and queues as sequences. *)

(* A message stays in its box when another is put behind it. *)
LEMMA PutKeeps ==
  ASSUME NEW S, NEW q \in Seq(S), NEW m \in S, NEW x
  PROVE  /\ Append(q, m) \in Seq(S)
         /\ (\E i \in 1 .. Len(q) : q[i] = x) => \E i \in 1 .. Len(Append(q, m)) : Append(q, m)[i] = x
         /\ \E i \in 1 .. Len(Append(q, m)) : Append(q, m)[i] = m
<1>1. /\ Append(q, m) \in Seq(S)
      /\ Len(Append(q, m)) = Len(q) + 1
      /\ \A i \in 1 .. Len(q) : Append(q, m)[i] = q[i]
      /\ Append(q, m)[Len(q) + 1] = m
  BY AppendProperties
<1>2. Len(q) \in Nat
  BY LenProperties
<1>. QED
  BY <1>1, <1>2

(* When the head is taken, what else was in the box stays in it. *)
LEMMA TakeKeeps ==
  ASSUME NEW S, NEW q \in Seq(S), NEW i \in 1 .. Len(q), q[i] # Head(q)
  PROVE  i - 1 \in 1 .. Len(Tail(q)) /\ Tail(q)[i - 1] = q[i]
<1>1. Len(q) \in Nat
  BY LenProperties
<1>2. q # <<>>
  BY <1>1, EmptySeq
<1>3. Head(q) = q[1] /\ Len(Tail(q)) = Len(q) - 1
      /\ \A j \in 1 .. Len(Tail(q)) : Tail(q)[j] = q[j + 1]
  BY <1>2, HeadTailProperties
<1>4. i - 1 \in 1 .. Len(Tail(q))
  BY <1>1, <1>3
<1>5. Tail(q)[i - 1] = q[(i - 1) + 1] /\ (i - 1) + 1 = i
  BY <1>3, <1>4
<1>. QED
  BY <1>4, <1>5

LEMMA TailType ==
  ASSUME NEW S, NEW q \in Seq(S), q # <<>>
  PROVE  Tail(q) \in Seq(S) /\ Head(q) \in S /\ Len(Tail(q)) = Len(q) - 1
BY HeadTailProperties

-----------------------------------------------------------------------------
(* Every variable keeps its type; the queue of events never grows beyond   *)
(* its length, which is what esp_event_send asks FreeRTOS for.             *)

LEMMA EspTypeInit == EspInit => EspTypeOK
<1>. SUFFICES ASSUME EspInit PROVE EspTypeOK
  OBVIOUS
<1>1. box \in [Prio -> Seq({"esp", "net"})]
  BY EmptySeq DEF EspInit, Init
<1>2. esp_event_queue \in Seq(SysEvent) /\ Len(esp_event_queue) <= EspLen
  BY EspEventsAssumption, EmptySeq DEF EspInit
<1>3. sends \in 0 .. MaxSends /\ others \in 0 .. MaxOthers
  BY EspEventsAssumption DEF EspInit
<1>. QED
  BY <1>1, <1>2, <1>3 DEF EspInit, Init, EspTypeOK

LEMMA BoxType ==
  ASSUME EspTypeOK, NEW p \in Prio, NEW m \in {"esp", "net"}, Put(p, m)
  PROVE  box' \in [Prio -> Seq({"esp", "net"})]
<1>1. Append(box[p], m) \in Seq({"esp", "net"})
  BY PutKeeps DEF EspTypeOK
<1>. QED
  BY <1>1 DEF Put, EspTypeOK

LEMMA EspTypeNext == EspTypeOK /\ [EspNext]_eventVars => EspTypeOK'
<1>. SUFFICES ASSUME EspTypeOK, [EspNext]_eventVars PROVE EspTypeOK'
  OBVIOUS
<1>. USE EspEventsAssumption, MailboxAssumption
<1>1. CASE Boot
  BY <1>1 DEF Boot, CreateQueue, GetTaskId, FlashRestart, StartServices, StartPump, BootStep,
              EspTypeOK, mailboxVars
<1>2. ASSUME NEW s \in Sender, NEW e \in SysEvent, SendQueue(s, e) PROVE EspTypeOK'
  <2>1. CASE QueueHasRoom
    <3>1. esp_event_queue' \in Seq(SysEvent) /\ Len(esp_event_queue') = Len(esp_event_queue) + 1
      <4>1. esp_event_queue' = Append(esp_event_queue, e) /\ esp_event_queue \in Seq(SysEvent)
        BY <1>2, <2>1 DEF SendQueue, EspTypeOK
      <4>. QED
        BY <4>1, AppendProperties
    <3>2. Len(esp_event_queue) < EspLen /\ Len(esp_event_queue) \in Nat
      BY <2>1, LenProperties DEF QueueHasRoom, EspTypeOK
    <3>3. sends' \in 0 .. MaxSends
      BY <1>2 DEF SendQueue, EspTypeOK
    <3>. QED
      BY <1>2, <2>1, <3>1, <3>2, <3>3 DEF SendQueue, EspTypeOK, mailboxVars, bootVars
  <2>2. CASE ~QueueHasRoom
    BY <1>2, <2>2 DEF SendQueue, EspTypeOK, mailboxVars, bootVars
  <2>. QED
    BY <2>1, <2>2
<1>3. ASSUME NEW s \in Sender, SendPost(s) PROVE EspTypeOK'
  <2>1. box' \in [Prio -> Seq({"esp", "net"})]
    BY <1>3, BoxType DEF SendPost, EspTypeOK
  <2>2. crowdedOut' \in BOOLEAN
    BY <1>3 DEF SendPost, EspTypeOK
  <2>. QED
    BY <1>3, <2>1, <2>2 DEF SendPost, EspTypeOK, bootVars
<1>4. ASSUME NEW p \in Prio, OtherPost(p) PROVE EspTypeOK'
  <2>1. box' \in [Prio -> Seq({"esp", "net"})]
    BY <1>4, BoxType DEF OtherPost, Accept
  <2>. QED
    BY <1>4, <2>1 DEF OtherPost, Accept, EspTypeOK, bootVars
<1>5. CASE EspDeliver
  <2>1. PICK p \in Prio : Deliver(p)
    BY <1>5 DEF EspDeliver
  <2>2. Tail(box[p]) \in Seq({"esp", "net"}) /\ Head(box[p]) \in {"esp", "net"}
    BY <2>1, TailType DEF Deliver, EspTypeOK
  <2>3. box' \in [Prio -> Seq({"esp", "net"})] /\ hand' \in [msg : {"esp", "net"}, prio : Prio]
    BY <2>1, <2>2 DEF Deliver, EspTypeOK
  <2>. QED
    BY <1>5, <2>3 DEF EspDeliver, EspTypeOK, espVars, bootVars
<1>6. CASE HandleOne
  <2>1. esp_event_queue' \in Seq(SysEvent) /\ Len(esp_event_queue') = Len(esp_event_queue) - 1
    BY <1>6, TailType DEF HandleOne, EspTypeOK
  <2>2. Len(esp_event_queue') <= EspLen
    BY <2>1, LenProperties DEF EspTypeOK
  <2>. QED
    BY <1>6, <2>1, <2>2 DEF HandleOne, EspTypeOK, mailboxVars, bootVars
<1>7. CASE HandleReturns
  BY <1>7 DEF HandleReturns, Finish, EspTypeOK, bootVars
<1>8. CASE HandleNet
  BY <1>8 DEF HandleNet, Finish, EspTypeOK, espVars, bootVars
<1>9. CASE UNCHANGED eventVars
  BY <1>9 DEF eventVars, mailboxVars, espVars, bootVars, EspTypeOK
<1>. QED
  BY <1>1, <1>2, <1>3, <1>4, <1>5, <1>6, <1>7, <1>8, <1>9 DEF EspNext, EspPump

(* Every variable has its type in every reachable state. *)
THEOREM EspTypeCorrect == EspSpec => []EspTypeOK
BY EspTypeInit, EspTypeNext, PTL DEF EspSpec

-----------------------------------------------------------------------------
(* No event is stranded.  With the types NoStrandedEvent is inductive: a   *)
(* sender is between its two calls from the moment its event is queued;    *)
(* its post either puts a message in the box or finds it full, and then    *)
(* one of ours is in it, or the handler runs, or crowdedOut is set.        *)

LEMMA StrandedInit == EspInit => NoStrandedEvent
BY DEF EspInit, NoStrandedEvent

(* Taking a message out of the medium box starts the handler, if it was    *)
(* the only one of ours.                                                   *)
LEMMA DeliverWakes ==
  ASSUME EspTypeOK, NEW p \in Prio, Deliver(p), EspInBox
  PROVE  EspInBox' \/ Handling'
<1>. USE EspEventsAssumption, MailboxAssumption
<1>1. box[p] \in Seq({"esp", "net"}) /\ box[p] # <<>> /\ box' = [box EXCEPT ![p] = Tail(@)]
      /\ hand' = [msg |-> Head(box[p]), prio |-> p]
  BY DEF Deliver, EspTypeOK
<1>2. Head(box[p]) \in {"esp", "net"}
  BY <1>1, TailType
<1>3. hand' \in [msg : Msg, prio : Prio]
  BY <1>1, <1>2
<1>4. CASE p = EspPrio /\ Head(box[p]) = "esp"
  BY <1>1, <1>3, <1>4 DEF Handling
<1>5. CASE p = EspPrio /\ Head(box[p]) # "esp"
  <2>1. PICK i \in 1 .. Len(box[p]) : box[p][i] = "esp"
    BY <1>5 DEF EspInBox
  <2>2. box'[EspPrio] = Tail(box[p])
    BY <1>1, <1>5 DEF EspTypeOK
  <2>3. i - 1 \in 1 .. Len(Tail(box[p])) /\ Tail(box[p])[i - 1] = "esp"
    BY <1>1, <1>5, <2>1, TakeKeeps
  <2>. QED
    BY <2>2, <2>3 DEF EspInBox
<1>6. CASE p # EspPrio
  BY <1>1, <1>6 DEF EspInBox, EspTypeOK
<1>. QED
  BY <1>4, <1>5, <1>6

LEMMA StrandedNext == EspTypeOK /\ NoStrandedEvent /\ [EspNext]_eventVars => NoStrandedEvent'
<1>. SUFFICES ASSUME EspTypeOK, NoStrandedEvent, [EspNext]_eventVars, (esp_event_queue # <<>>)'
              PROVE  (WakeComing \/ crowdedOut)'
  BY DEF NoStrandedEvent
<1>. USE EspEventsAssumption, MailboxAssumption
<1>1. CASE Boot
  BY <1>1 DEF Boot, CreateQueue, GetTaskId, FlashRestart, StartServices, StartPump, BootStep,
              NoStrandedEvent, WakeComing, EspInBox, Handling, mailboxVars
<1>2. ASSUME NEW s \in Sender, NEW e \in SysEvent, SendQueue(s, e) PROVE (WakeComing \/ crowdedOut)'
  <2>1. CASE QueueHasRoom
    BY <1>2, <2>1 DEF SendQueue, WakeComing, EspTypeOK
  <2>2. CASE ~QueueHasRoom
    BY <1>2, <2>2 DEF SendQueue, NoStrandedEvent, WakeComing, EspInBox, Handling, mailboxVars
  <2>. QED
    BY <2>1, <2>2
<1>3. ASSUME NEW s \in Sender, SendPost(s) PROVE (WakeComing \/ crowdedOut)'
  <2>1. CASE Put(EspPrio, "esp")
    <3>1. box'[EspPrio] = Append(box[EspPrio], "esp") /\ box[EspPrio] \in Seq({"esp", "net"})
      BY <2>1 DEF Put, EspTypeOK
    <3>2. EspInBox'
      BY <3>1, PutKeeps DEF EspInBox
    <3>. QED
      BY <3>2 DEF WakeComing
  <2>2. CASE ~Put(EspPrio, "esp")
    BY <1>3, <2>2 DEF SendPost, WakeComing, EspInBox, Handling
  <2>. QED
    BY <2>1, <2>2
<1>4. ASSUME NEW p \in Prio, OtherPost(p) PROVE (WakeComing \/ crowdedOut)'
  <2>1. EspInBox => EspInBox'
    <3>1. box' = [box EXCEPT ![p] = Append(@, "net")] /\ box[EspPrio] \in Seq({"esp", "net"})
      BY <1>4 DEF OtherPost, Accept, Put, EspTypeOK
    <3>2. CASE p = EspPrio
      <4>1. box'[EspPrio] = Append(box[EspPrio], "net")
        BY <3>1, <3>2 DEF EspTypeOK
      <4>. QED
        BY <3>1, <4>1, PutKeeps DEF EspInBox
    <3>3. CASE p # EspPrio
      BY <3>1, <3>3 DEF EspInBox, EspTypeOK
    <3>. QED
      BY <3>2, <3>3
  <2>. QED
    BY <1>4, <2>1 DEF OtherPost, Accept, NoStrandedEvent, WakeComing, Handling
<1>5. CASE EspDeliver
  <2>1. PICK p \in Prio : Deliver(p)
    BY <1>5 DEF EspDeliver
  <2>2. EspInBox => EspInBox' \/ Handling'
    BY <2>1, DeliverWakes
  <2>3. ~Handling
    BY <2>1 DEF Deliver, Handling
  <2>. QED
    BY <1>5, <2>2, <2>3 DEF EspDeliver, espVars, NoStrandedEvent, WakeComing
<1>6. CASE HandleOne
  BY <1>6 DEF HandleOne, WakeComing, Handling, mailboxVars
<1>7. CASE HandleReturns
  BY <1>7 DEF HandleReturns
<1>8. CASE HandleNet
  BY <1>8 DEF HandleNet, Finish, espVars, NoStrandedEvent, WakeComing, EspInBox, Handling
<1>9. CASE UNCHANGED eventVars
  BY <1>9 DEF eventVars, mailboxVars, espVars, NoStrandedEvent, WakeComing, EspInBox, Handling
<1>. QED
  BY <1>1, <1>2, <1>3, <1>4, <1>5, <1>6, <1>7, <1>8, <1>9 DEF EspNext, EspPump

(* An event on esp_event_queue has a message to the pump under way, or its *)
(* handler is at work, unless a box full of other messages refused the     *)
(* post: for any number of senders, events and messages.                   *)
THEOREM EventsNotStranded == EspSpec => []NoStrandedEvent
<1>1. EspInit => EspTypeOK /\ NoStrandedEvent
  BY EspTypeInit, StrandedInit
<1>2. EspTypeOK /\ NoStrandedEvent /\ [EspNext]_eventVars => (EspTypeOK /\ NoStrandedEvent)'
  BY EspTypeNext, StrandedNext
<1>. QED
  BY <1>1, <1>2, PTL DEF EspSpec

=============================================================================
