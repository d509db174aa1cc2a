------------------------------ MODULE EspconnTcp ------------------------------
(***************************************************************************)
(* The TCP side of components/espconn: the list of active connections, the *)
(* packets that wait on each of them, the callbacks of lwIP and the task   *)
(* that takes a connection apart when one of them has said so.  Three      *)
(* parties work on the same nodes without a lock: the application, the     *)
(* thread of lwIP and espconn_Task.  A packet is handed over in three      *)
(* steps, since a task of the application may do it (as send_task of       *)
(* examples/tcp_client_espconn does) while callbacks run; what else the    *)
(* applications of this repository call, they call from a callback, and it *)
(* is one step.  The calls of the application do not overlap one another.  *)
(*                                                                         *)
(* The bytes of a connection are numbered: a packet stands for the numbers *)
(* from at on, the unsent bytes are those behind wrote, those under way lie *)
(* between acked and wrote.  lwIP, the event queue of the ROM and the      *)
(* application are external.  Left out: what is received, ports and        *)
(* addresses, the limits of the control blocks, malloc that fails, two     *)
(* writes to one control block at the very same time, and what the error   *)
(* callbacks (822-832, 1212-1220), a close (592) and                       *)
(* espconn_tcp_disconnect_successful (330-367) still do with a control     *)
(* block that was given back: the freed memory followed here is that of    *)
(* nodes and packets, and of control blocks only where a later call of the *)
(* application uses one.                                                   *)
(***************************************************************************)
EXTENDS Integers, Sequences, FiniteSets

CONSTANTS
  MaxNode,    (* bound: connections, numbered as they are made             *)
  MaxCon,     (* espconn_tcp_get_max_con                                   *)
  MaxLinks,   (* count_opt: connections of the server                      *)
  Length,     (* the lengths of packets                                    *)
  Heap,       (* what malloc may leave in the tot_len of a packet          *)
  TotLens,    (* how many values tot_len has: 65536                        *)
  MaxCalls,   (* bound: packets offered and options changed, of each node  *)
  SndBuf,     (* bytes that lwIP takes before they are acknowledged        *)
  SndQueue,   (* TCP_SND_QUEUELEN, counted in bytes under way              *)
  Bufs,       (* what espconn_tcp_set_buf_count is called with             *)
  Timeout,    (* polls without traffic that close a server's connection    *)
  QueueLen    (* espconn_TaskQueueLen                                      *)

ASSUME EspconnAssumption ==
  /\ MaxNode \in Nat /\ MaxCon \in Nat /\ MaxLinks \in Nat /\ MaxCalls \in [1 .. MaxNode -> Nat]
  /\ TotLens \in Nat \ {0} /\ Length \subseteq 1 .. TotLens - 1 /\ Heap \subseteq 0 .. TotLens - 1
  /\ Bufs \subseteq Nat
  /\ SndBuf \in Nat \ {0} /\ SndQueue \in Nat \ {0} /\ Timeout \in Nat \ {0} /\ QueueLen \in Nat

Node == 1 .. MaxNode
NoBuf == -1      (* ptail = NULL                                           *)
Freed == -2      (* ptail points to a packet that was freed                *)

VARIABLES
  life,        (* of a node: "unused", "listed" in plink_active, "freed"   *)
  role,        (* "client" or "server"                                     *)
  conn,        (* its control block: "idle", "syn", "up", "half" closed by *)
               (* the peer, "closing" with its callbacks taken off, "gone" *)
  closed,      (* pespconn->state = ESPCONN_CLOSE                          *)
  pbuf, ptail, (* the packets that wait, and the one to go on with         *)
  wrote, acked,
  write_flag, copy, pbuf_num,
  nagle,       (* of its control block: Nagle is on                        *)
  recv_check,
  events,      (* what is posted to espconn_Task                           *)
  busy, carry, (* the node that espconn_tcp_finish works on, its len       *)
  sending,     (* the node that espconn_sent works on                      *)
  lowered,     (* and has come to its write                                *)
  listening,
  fault,       (* the node at which freed memory or NULL was used: the end *)
  calls,       (* bound: packets offered and options changed               *)
  blame,       (* history: what was done to a node that it does not expect *)
  dropped      (* history: an event found the queue full                   *)

packets == <<pbuf, ptail, wrote, acked, write_flag>>
options == <<copy, nagle, pbuf_num>>
finish == <<busy, carry>>
send == <<sending, lowered>>
bounds == <<calls, dropped>>
vars == <<life, role, conn, closed, packets, options, recv_check, events, finish, send, listening,
          fault, blame, bounds>>

Init ==
  /\ life = [n \in Node |-> "unused"]
  /\ role = [n \in Node |-> "client"]
  /\ conn = [n \in Node |-> "idle"]
  /\ closed = [n \in Node |-> FALSE]
  /\ pbuf = [n \in Node |-> <<>>] /\ ptail = [n \in Node |-> NoBuf]
  /\ wrote = [n \in Node |-> 0] /\ acked = [n \in Node |-> 0]
  /\ write_flag = [n \in Node |-> FALSE]
  /\ copy = [n \in Node |-> FALSE] /\ nagle = [n \in Node |-> FALSE] /\ pbuf_num = [n \in Node |-> 0]
  /\ recv_check = [n \in Node |-> 0]
  /\ events = <<>>
  /\ busy = 0 /\ carry = 0
  /\ sending = 0 /\ lowered = FALSE
  /\ listening = FALSE
  /\ fault = 0
  /\ calls = [n \in Node |-> 0] /\ dropped = FALSE
  /\ blame = [n \in Node |-> {}]

Listed(r) == {n \in Node : life[n] = "listed" /\ role[n] = r}
Attached(n) == conn[n] \in {"up", "half"}       (* the callbacks are set   *)

(* Mutant: every event finds room.                                         *)
PostUnbounded(posts) == events' = events \o posts /\ UNCHANGED dropped

(* ets_post, whose answer nobody reads.                                    *)
Post(posts) ==
  LET all == events \o posts IN
    /\ events' = IF Len(all) > QueueLen THEN SubSeq(all, 1, QueueLen) ELSE all
    /\ dropped' = (dropped \/ Len(all) > QueueLen)

Blame(n, what) == blame' = [blame EXCEPT ![n] = @ \union what]
Cause(what, condition) == IF condition THEN {what} ELSE {}

(* Memory that is not there any more is used.                              *)
Fault(n) ==
  /\ fault' = n
  /\ UNCHANGED <<life, role, conn, closed, packets, options, recv_check, events, finish, send, listening,
                 blame, bounds>>

Running == fault = 0

-----------------------------------------------------------------------------
(* The next node comes into being.                                         *)
Creates(n, r) ==
  /\ Running
  /\ life[n] = "unused"
  /\ \A m \in Node : m < n => life[m] # "unused"
  /\ role' = [role EXCEPT ![n] = r]

(* espconn_connect and espconn_tcp_client; without a route the node is     *)
(* freed again, any other error leaves it in the list.                     *)
espconn_connect(n) ==
  /\ Creates(n, "client")
  /\ Cardinality(Listed("client") \union Listed("server")) < MaxCon
  /\ Listed("client") = {}
  /\ \/ life' = [life EXCEPT ![n] = "freed"] /\ UNCHANGED conn
     \/ \E c \in {"syn", "idle"} :
          life' = [life EXCEPT ![n] = "listed"] /\ conn' = [conn EXCEPT ![n] = c]
  /\ UNCHANGED <<closed, packets, options, recv_check, events, finish, send, listening, fault, blame, bounds>>

Established(n) ==
  /\ conn' = [conn EXCEPT ![n] = "up"]
  /\ write_flag' = [write_flag EXCEPT ![n] = TRUE]
  /\ nagle' = [nagle EXCEPT ![n] = FALSE] /\ pbuf_num' = [pbuf_num EXCEPT ![n] = 1]
  /\ UNCHANGED <<closed, pbuf, ptail, wrote, acked, copy, recv_check, events, finish, send, fault, blame, bounds>>

(* espconn_client_connect *)
espconn_client_connect(n) ==
  /\ Running
  /\ busy = 0
  /\ conn[n] = "syn"
  /\ Established(n)
  /\ UNCHANGED <<life, role, listening>>

(* espconn_tcp_accept *)
espconn_tcp_accept(n) ==
  /\ Creates(n, "server")
  /\ listening
  /\ busy = 0
  /\ Cardinality(Listed("server")) # MaxLinks
  /\ life' = [life EXCEPT ![n] = "listed"]
  /\ Established(n)
  /\ UNCHANGED listening

(* espconn_accept and espconn_tcp_delete                                   *)
espconn_accept ==
  /\ Running
  /\ ~listening
  /\ listening' = TRUE
  /\ UNCHANGED <<life, role, conn, closed, packets, options, recv_check, events, finish, send, fault, blame, bounds>>

espconn_tcp_delete ==
  /\ Running
  /\ listening
  /\ Listed("server") = {}
  /\ listening' = FALSE
  /\ UNCHANGED <<life, role, conn, closed, packets, options, recv_check, events, finish, send, fault, blame, bounds>>

-----------------------------------------------------------------------------
(* The packets b of a node wait, t is the one to go on with and a is how   *)
(* far the peer has acknowledged.                                          *)
End(n, b) == IF b = <<>> THEN wrote[n] ELSE b[Len(b)].at + b[Len(b)].len
Holder(b, x) == CHOOSE at \in {b[i].at : i \in 1 .. Len(b)} :
                  \E i \in 1 .. Len(b) : b[i].at = at /\ x \in at .. at + b[i].len - 1
Least(x, y) == IF x < y THEN x ELSE y

QueueFull(n, a) == wrote[n] - a >= SndQueue

(* Nagle, which espconn_clear_opt turns on whatever it clears, takes the   *)
(* check of the queue away.                                                *)
HeldBack(n, a) == ~nagle[n] /\ QueueFull(n, a)
SndBufFree(n, a) == SndBuf - (wrote[n] - a)

(* Where espconn_tcp_write may end: everything is written, or lwIP has no  *)
(* room left and ptail stays behind, or tcp_write fails on the way.        *)
Written(n, b, t, a) ==
  LET last == Least(wrote[n] + SndBufFree(n, a), End(n, b)) IN
    CASE HeldBack(n, a) -> {[ok |-> FALSE, wrote |-> wrote[n], ptail |-> t]}
      [] ~HeldBack(n, a) /\ (SndBufFree(n, a) = 0 \/ t = NoBuf) ->
           {[ok |-> TRUE, wrote |-> wrote[n], ptail |-> t]}
      [] OTHER ->
           {[ok |-> FALSE, wrote |-> w, ptail |-> Holder(b, w)] :
              w \in IF Attached(n) THEN wrote[n] .. last - 1 ELSE {wrote[n]} \ {last}}
           \union
           IF Attached(n) \/ last = wrote[n]
           THEN {[ok |-> TRUE, wrote |-> last,
                  ptail |-> IF last = wrote[n] + SndBufFree(n, a) THEN Holder(b, last - 1) ELSE NoBuf]}
           ELSE {}

(* espconn_tcp_write follows a ptail that was freed.                       *)
Follows(n, t, a) == t = Freed /\ ~HeldBack(n, a) /\ SndBufFree(n, a) > 0

(* Mutant: the last byte of a write finishes nothing.                      *)
FinishedBefore(n, b, w) == {i \in 1 .. Len(b) : b[i].at + b[i].len \in wrote[n] + 1 .. w - 1}

(* The packets that a write finishes: with the copy option each of them is *)
(* told to the task.                                                       *)
Finished(n, b, w) == {i \in 1 .. Len(b) : b[i].at + b[i].len \in wrote[n] + 1 .. w}
Told(n, b, w) == IF copy[n] THEN [i \in 1 .. Cardinality(Finished(n, b, w)) |-> [sig |-> "WRITE", node |-> n]]
                 ELSE <<>>

(* espconn_sent refuses before it looks at the connection.                 *)
Refuses(n) ==
  \/ ~write_flag[n]
  \/ ~copy[n] /\ Len(pbuf[n]) >= pbuf_num[n]
  \/ copy[n] /\ conn[n] # "gone" /\ QueueFull(n, acked[n])

Called(n) ==
  /\ Running
  /\ sending = 0
  /\ life[n] = "listed"
  /\ calls[n] < MaxCalls[n]
  /\ calls' = [calls EXCEPT ![n] = @ + 1]

(* A call finds a node of the server by the listening espconn too, and     *)
(* then looks at the state of that one: the node's own is as it was.       *)
Leaves(n) == {FALSE} \union {c \in {closed[n]} : role[n] = "server"}

(* A connection that was closed looks open again.                          *)
Opens(n) ==
  \E c \in Leaves(n) : closed' = [closed EXCEPT ![n] = c]
Reopened(n) == Cause("reopened", closed[n] /\ ~closed'[n])

Refused(n) ==
  /\ Called(n)
  /\ Refuses(n)
  /\ Opens(n)
  /\ Blame(n, Reopened(n))
  /\ UNCHANGED <<life, role, conn, packets, options, recv_check, events, finish, send, listening, fault, dropped>>

(* A control block that is gone is looked at.                              *)
SentFaults(n) ==
  /\ Running
  /\ sending = 0
  /\ life[n] = "listed"
  /\ ~Refuses(n)
  /\ conn[n] = "gone"
  /\ Fault(n)

GoesOnWith(t, at) == IF t = NoBuf THEN at ELSE t

(* espconn_sent takes a packet; nothing sets its tot_len.                  *)
espconn_sent(n) ==
  /\ Called(n)
  /\ ~Refuses(n)
  /\ conn[n] # "gone"
  /\ Opens(n)
  /\ \E len \in Length, tot \in Heap :
       LET at == End(n, pbuf[n]) IN
         /\ pbuf' = [pbuf EXCEPT ![n] = Append(@, [at |-> at, len |-> len, tot |-> tot])]
         /\ ptail' = [ptail EXCEPT ![n] = GoesOnWith(@, at)]
         /\ Blame(n, Reopened(n) \union Cause("heap", tot # 0))
  /\ sending' = n /\ lowered' = FALSE
  /\ UNCHANGED <<life, role, conn, wrote, acked, write_flag, options, recv_check, events, finish,
                 listening, fault, dropped>>

(* With the copy option it lowers write_flag,                              *)
Lowers ==
  /\ Running
  /\ sending # 0 /\ ~lowered
  /\ life[sending] = "listed"
  /\ write_flag' = [write_flag EXCEPT ![sending] = @ /\ ~copy[sending]]
  /\ lowered' = TRUE
  /\ UNCHANGED <<life, role, conn, closed, pbuf, ptail, wrote, acked, options, recv_check, events, finish,
                 sending, listening, fault, blame, bounds>>

(* and writes.  A packet, the last one, that cannot be written is freed,   *)
(* also when ptail points to it.                                           *)
WithoutLast(b) == SubSeq(b, 1, Len(b) - 1)

(* It would be freed though a callback has written it, or freed it too.    *)
Overtaken(n) == HeldBack(n, acked[n]) /\ (pbuf[n] = <<>> \/ ptail[n] = NoBuf)

Lost(n) ==
  \/ life[n] # "listed" \/ conn[n] = "gone"
  \/ Follows(n, ptail[n], acked[n]) \/ Overtaken(n)

Writes(n) ==
  /\ Running
  /\ sending = n /\ lowered
  /\ ~Lost(n)
  /\ \E o \in Written(n, pbuf[n], ptail[n], acked[n]) :
       LET told == Told(n, pbuf[n], o.wrote)
           own == ~o.ok /\ o.ptail = pbuf[n][Len(pbuf[n])].at
       IN /\ wrote' = [wrote EXCEPT ![n] = o.wrote]
          /\ pbuf' = IF o.ok THEN pbuf ELSE [pbuf EXCEPT ![n] = WithoutLast(@)]
          /\ ptail' = [ptail EXCEPT ![n] = IF own THEN Freed ELSE o.ptail]
          /\ write_flag' = [write_flag EXCEPT ![n] = @ \/ told # <<>>]
          /\ Post(told)
          /\ Blame(n, Cause("refused", ~o.ok /\ (own \/ ~write_flag'[n])))
  /\ sending' = 0 /\ lowered' = FALSE
  /\ UNCHANGED <<life, role, conn, closed, acked, options, recv_check, finish, listening, fault, calls>>

SendFaults ==
  /\ Running
  /\ sending # 0
  /\ life[sending] # "listed" \/ (lowered /\ Lost(sending))
  /\ Fault(sending)

(* tot_len is a uint16.                                                    *)
Credited(p, k) == (p.tot + k) % TotLens

(* espconn_client_sent and espconn_server_sent: the head is credited with  *)
(* what was acknowledged, then more is written.                            *)
Acknowledged(n, k) ==
  /\ Running
  /\ busy = 0
  /\ Attached(n)
  /\ k \in 1 .. wrote[n] - acked[n]

(* A callback works on the node while espconn_sent does.                   *)
Raced(n) == Cause("raced", sending = n)

Sent(n) ==
  \E k \in 1 .. SndBuf :
    /\ Acknowledged(n, k)
    /\ pbuf[n] # <<>>
    /\ ~Follows(n, ptail[n], acked[n] + k)
    /\ LET b == [pbuf[n] EXCEPT ![1].tot = Credited(pbuf[n][1], k)] IN
         \E o \in Written(n, b, ptail[n], acked[n] + k) :
           LET told == Told(n, b, o.wrote) IN
             /\ acked' = [acked EXCEPT ![n] = @ + k]
             /\ wrote' = [wrote EXCEPT ![n] = o.wrote]
             /\ pbuf' = [pbuf EXCEPT ![n] = b]
             /\ ptail' = [ptail EXCEPT ![n] = o.ptail]
             /\ write_flag' = [write_flag EXCEPT ![n] = @ \/ told # <<>>]
             /\ Post(told)
             /\ Blame(n, Raced(n) \union Cause("wrapped", pbuf[n][1].tot + k >= TotLens)
                           \union Cause("stranded", ~o.ok /\ o.wrote = acked[n] + k))
    /\ recv_check' = [recv_check EXCEPT ![n] = 0]
    /\ busy' = n /\ carry' = 0
    /\ UNCHANGED <<life, role, conn, closed, options, send, listening, fault, calls>>

SentAcksFault(n) ==
  \E k \in 1 .. SndBuf :
    /\ Acknowledged(n, k)
    /\ pbuf[n] = <<>> \/ Follows(n, ptail[n], acked[n] + k)
    /\ Fault(n)

(* Mutant: what a packet has too much is not passed on.                    *)
PassedOnNot(p) == 0

PassedOn(p) == Credited(p, carry) - p.len

(* The loop of espconn_tcp_finish, one packet at a time, since             *)
(* sent_callback may send and disconnect.                                  *)
Finishes ==
  /\ Running
  /\ busy # 0
  /\ life[busy] = "listed"
  /\ UNCHANGED <<life, role, conn, wrote, acked, write_flag, options, recv_check, events, send, listening,
                 fault, bounds>>
  /\ \/ /\ pbuf[busy] = <<>>
        /\ busy' = 0 /\ carry' = 0
        /\ UNCHANGED <<closed, pbuf, ptail, blame>>
     \/ /\ pbuf[busy] # <<>>
        /\ LET p == Head(pbuf[busy]) IN
             IF Credited(p, carry) >= p.len
             THEN /\ pbuf' = [pbuf EXCEPT ![busy] = Tail(@)]
                  /\ ptail' = IF ptail[busy] = p.at THEN [ptail EXCEPT ![busy] = Freed] ELSE ptail
                  /\ carry' = PassedOn(p)
                  /\ closed' = [closed EXCEPT ![busy] = FALSE]
                  /\ Blame(busy, Reopened(busy) \union Raced(busy))
                  /\ UNCHANGED busy
             ELSE /\ pbuf' = [pbuf EXCEPT ![busy][1].tot = Credited(p, carry)]
                  /\ busy' = 0 /\ carry' = 0
                  /\ UNCHANGED <<closed, ptail, blame>>

FinishFaults ==
  /\ Running
  /\ busy # 0
  /\ life[busy] = "freed"
  /\ Fault(busy)

-----------------------------------------------------------------------------
(* Mutant: the task is not told.                                           *)
TellsNot(n) == <<>>

Tells(n) == <<[sig |-> "CLOSE", node |-> n]>>

(* espconn_client_close and espconn_server_close: closing fails, or the    *)
(* callbacks are taken off and the task is told.                           *)
Closes(n) ==
  \/ /\ conn[n] \in {"up", "half"}
     /\ UNCHANGED <<conn, closed, events, dropped>>
  \/ /\ conn[n] # "gone"
     /\ conn' = [conn EXCEPT ![n] = IF @ \in {"idle", "syn"} THEN "gone" ELSE "closing"]
     /\ closed' = [closed EXCEPT ![n] = TRUE]
     /\ Post(Tells(n))

(* Mutant: a connection that is being closed is closed again.              *)
MayCloseTwice(n) == TRUE

(* The listening espconn may still say that a node is open.                *)
MayClose(n) == ~closed[n] \/ role[n] = "server"

Asked(n) == Running /\ sending = 0 /\ life[n] = "listed" /\ MayClose(n)
Asking(n) == Cause("inside", busy = n) \union Cause("listener", closed[n] /\ role[n] = "server")

espconn_disconnect(n) ==
  /\ Asked(n)
  /\ Closes(n)
  /\ Blame(n, Asking(n))
  /\ UNCHANGED <<life, role, packets, options, recv_check, finish, send, listening, fault, calls>>

(* espconn_abort; tcp_abort calls the error callback, which tells the task *)
(* a first time.                                                           *)
espconn_abort(n) ==
  /\ Asked(n)
  /\ conn[n] # "gone"
  /\ conn' = [conn EXCEPT ![n] = "gone"]
  /\ closed' = [closed EXCEPT ![n] = TRUE]
  /\ Post((IF conn[n] = "closing" THEN <<>> ELSE <<[sig |-> "ERRER", node |-> n]>>)
          \o <<[sig |-> "CLOSE", node |-> n]>>)
  /\ Blame(n, {"abort"})
  /\ UNCHANGED <<life, role, packets, options, recv_check, finish, send, listening, fault, calls>>

(* either of them when the control block is gone                           *)
CloseFaults(n) ==
  /\ Asked(n)
  /\ conn[n] = "gone"
  /\ Fault(n)

(* The peer closes: espconn_client_recv and espconn_server_recv without data. *)
PeerCloses(n) ==
  /\ Running
  /\ busy = 0
  /\ conn[n] = "up"
  /\ \/ conn' = [conn EXCEPT ![n] = "half"] /\ UNCHANGED <<closed, events, dropped>>
     \/ Closes(n) /\ conn' # conn
  /\ UNCHANGED <<life, role, packets, options, recv_check, finish, send, listening, fault, calls, blame>>

(* Data comes: espconn_server_recv.                                        *)
Receives(n) ==
  /\ Running
  /\ busy = 0
  /\ conn[n] = "up"
  /\ recv_check[n] > 0
  /\ recv_check' = [recv_check EXCEPT ![n] = 0]
  /\ UNCHANGED <<life, role, conn, closed, packets, options, events, finish, send, listening, fault, bounds, blame>>

(* espconn_server_poll *)
espconn_server_poll(n) ==
  /\ Running
  /\ busy = 0
  /\ role[n] = "server"
  /\ Attached(n)
  /\ IF conn[n] = "up" /\ recv_check[n] + 1 < Timeout
     THEN /\ recv_check' = [recv_check EXCEPT ![n] = @ + 1]
          /\ UNCHANGED <<conn, closed, events, dropped>>
     ELSE /\ recv_check' = [recv_check EXCEPT ![n] = IF conn[n] = "up" THEN 0 ELSE @]
          /\ Closes(n)
  /\ UNCHANGED <<life, role, packets, options, finish, send, listening, fault, calls, blame>>

(* espconn_client_err and esponn_server_err                                *)
Errs(n) ==
  /\ Running
  /\ busy = 0
  /\ conn[n] \in {"syn", "up", "half"}
  /\ conn' = [conn EXCEPT ![n] = "gone"]
  /\ closed' = [closed EXCEPT ![n] = TRUE]
  /\ Post(<<[sig |-> "ERRER", node |-> n]>>)
  /\ UNCHANGED <<life, role, packets, options, recv_check, finish, send, listening, fault, calls, blame>>

(* lwIP: a connection that was closed comes to its end.                    *)
Ends(n) ==
  /\ Running
  /\ conn[n] = "closing"
  /\ conn' = [conn EXCEPT ![n] = "gone"]
  /\ UNCHANGED <<life, role, closed, packets, options, recv_check, events, finish, send, listening, fault, bounds,
                 blame>>

-----------------------------------------------------------------------------
(* espconn_set_opt and espconn_clear_opt, ESPCONN_COPY; espconn_tcp_set_buf_count *)
espconn_set_opt(n, on) ==
  /\ Called(n)
  /\ on => ~copy[n]
  /\ copy' = [copy EXCEPT ![n] = on]
  /\ nagle' = [nagle EXCEPT ![n] = @ \/ ~on]
  /\ Blame(n, Cause("option", ~on /\ ~write_flag[n] /\ Attached(n)))
  /\ UNCHANGED <<life, role, conn, closed, packets, pbuf_num, recv_check, events, finish, send, listening, fault,
                 dropped>>

espconn_tcp_set_buf_count(n) ==
  /\ Called(n)
  /\ \E k \in Bufs : pbuf_num[n] # k /\ pbuf_num' = [pbuf_num EXCEPT ![n] = k]
  /\ UNCHANGED <<life, role, conn, closed, packets, copy, nagle, recv_check, events, finish, send, listening, fault,
                 dropped, blame>>

(* espconn_Task, with espconn_tcp_reconnect and espconn_tcp_disconnect_successful: *)
(* a node that is freed keeps nothing, and of a control block that is      *)
(* being closed nobody hears again.                                        *)
Delete(n) ==
  /\ life' = [life EXCEPT ![n] = "freed"]
  /\ conn' = [conn EXCEPT ![n] = IF @ = "closing" THEN "gone" ELSE @]
  /\ closed' = [closed EXCEPT ![n] = FALSE]
  /\ pbuf' = [pbuf EXCEPT ![n] = <<>>] /\ ptail' = [ptail EXCEPT ![n] = NoBuf]
  /\ wrote' = [wrote EXCEPT ![n] = 0] /\ acked' = [acked EXCEPT ![n] = 0]
  /\ write_flag' = [write_flag EXCEPT ![n] = FALSE]
  /\ copy' = [copy EXCEPT ![n] = FALSE] /\ nagle' = [nagle EXCEPT ![n] = FALSE]
  /\ pbuf_num' = [pbuf_num EXCEPT ![n] = 0]
  /\ recv_check' = [recv_check EXCEPT ![n] = 0]
  /\ calls' = [calls EXCEPT ![n] = 0]

espconn_Task ==
  /\ Running
  /\ events # <<>>
  /\ LET e == Head(events) IN
       \/ /\ life[e.node] = "listed"
          /\ events' = Tail(events)
          /\ \/ e.sig = "WRITE" /\ UNCHANGED <<life, conn, closed, packets, options, recv_check, calls>>
             \/ e.sig # "WRITE" /\ Delete(e.node)
          /\ UNCHANGED <<role, finish, send, listening, fault, dropped, blame>>
       \/ /\ life[e.node] # "listed"
          /\ Fault(e.node)

Application ==
  \/ espconn_accept \/ espconn_tcp_delete
  \/ \E n \in Node :
       \/ espconn_connect(n) \/ Refused(n) \/ SentFaults(n) \/ espconn_sent(n) \/ Writes(n)
       \/ espconn_disconnect(n) \/ espconn_abort(n) \/ CloseFaults(n)
       \/ espconn_set_opt(n, TRUE) \/ espconn_set_opt(n, FALSE) \/ espconn_tcp_set_buf_count(n)
  \/ Lowers \/ SendFaults

Lwip ==
  \/ \E n \in Node :
       \/ espconn_client_connect(n) \/ espconn_tcp_accept(n) \/ Sent(n) \/ SentAcksFault(n)
       \/ PeerCloses(n) \/ Receives(n) \/ espconn_server_poll(n) \/ Errs(n) \/ Ends(n)
  \/ Finishes \/ FinishFaults

Next == Application \/ Lwip \/ espconn_Task
Spec == Init /\ [][Next]_vars

(* The task runs whenever something is posted to it.                       *)
FairSpec == Spec /\ WF_vars(espconn_Task)

-----------------------------------------------------------------------------
Packet == [at : Nat, len : Nat, tot : Nat]

TypeOK ==
  /\ life \in [Node -> {"unused", "listed", "freed"}]
  /\ role \in [Node -> {"client", "server"}]
  /\ conn \in [Node -> {"idle", "syn", "up", "half", "closing", "gone"}]
  /\ closed \in [Node -> BOOLEAN] /\ write_flag \in [Node -> BOOLEAN] /\ copy \in [Node -> BOOLEAN]
  /\ nagle \in [Node -> BOOLEAN]
  /\ pbuf \in [Node -> Seq(Packet)] /\ ptail \in [Node -> Nat \union {NoBuf, Freed}]
  /\ wrote \in [Node -> Nat] /\ acked \in [Node -> Nat]
  /\ pbuf_num \in [Node -> Nat] /\ recv_check \in [Node -> 0 .. Timeout]
  /\ events \in Seq([sig : {"WRITE", "ERRER", "CLOSE"}, node : Node]) /\ Len(events) <= QueueLen
  /\ busy \in 0 .. MaxNode /\ carry \in Nat /\ sending \in 0 .. MaxNode /\ lowered \in BOOLEAN
  /\ listening \in BOOLEAN /\ fault \in 0 .. MaxNode
  /\ calls \in [Node -> Nat] /\ dropped \in BOOLEAN
  /\ blame \in [Node -> SUBSET {"abort", "reopened", "listener", "inside", "refused", "heap", "wrapped",
                                "raced", "option", "stranded"}]

(* A node is in the list as long as something names it: no callback of     *)
(* lwIP finds its node freed, no event names a node that is freed, behind  *)
(* the event of its end there is no other, which would free it twice, and  *)
(* espconn_tcp_finish goes on with a node that is there.  Not so after     *)
(* espconn_abort, whose error callback tells the task too, a state that    *)
(* another call overwrites, a second disconnect through the listening      *)
(* espconn, and, for espconn_tcp_finish, a disconnect from sent_callback.  *)
ListedWhileNamed ==
  /\ \A n \in Node : Attached(n) => life[n] = "listed"
  /\ \A i \in 1 .. Len(events) :
       LET n == events[i].node IN
         blame[n] \intersect {"abort", "reopened", "listener"} = {} =>
           /\ life[n] = "listed"
           /\ events[i].sig # "WRITE" => \A j \in i + 1 .. Len(events) : events[j].node # n
  /\ busy # 0 /\ blame[busy] \intersect {"abort", "reopened", "listener", "inside"} = {} =>
       life[busy] = "listed"

(* What the peer acknowledges is credited to the packets in order and      *)
(* without a rest, so that sent_callback speaks of a packet when, and not  *)
(* before, its last byte was acknowledged.  Not so for a packet to which   *)
(* malloc gave a tot_len (nobody clears it), whose tot_len wraps (a packet *)
(* of almost 64 KB), which was freed while bytes of it were written, and   *)
(* after a callback that came between the steps of espconn_sent.           *)
AcksAccounted ==
  \A n \in Node : life[n] = "listed" /\ blame[n] \intersect {"refused", "heap", "wrapped", "raced"} = {} =>
    /\ pbuf[n] = <<>> => acked[n] = wrote[n] /\ (busy = n => carry = 0)
    /\ pbuf[n] # <<>> =>
         pbuf[n][1].at + pbuf[n][1].tot + (IF busy = n THEN carry ELSE 0) = acked[n]
    /\ busy # n => \A i \in 1 .. Len(pbuf[n]) : acked[n] < pbuf[n][i].at + pbuf[n][i].len

(* While write_flag is down espconn_sent refuses, and only a write that    *)
(* finishes a packet raises it: there are bytes to be written, and bytes   *)
(* under way, whose acknowledgement will write them, or espconn_sent is at *)
(* it.  Not so when tcp_write fails with nothing under way, the option is  *)
(* cleared, a packet is freed unwritten or too early, or a callback comes  *)
(* between the steps of espconn_sent.                                      *)
FlagAwaits ==
  \A n \in Node :
    Attached(n) /\ ~write_flag[n]
    /\ blame[n] \intersect {"refused", "heap", "wrapped", "raced", "option", "stranded"} = {} =>
      End(n, pbuf[n]) > wrote[n] /\ (sending = n \/ acked[n] < wrote[n])

(* Again and again no connection that has ended is in the list: each one   *)
(* is freed, if the queue of the task had room for its event.              *)
Forgotten == []<>(fault # 0 \/ dropped \/ \A n \in Node : closed[n] => life[n] # "listed")

=============================================================================
