----------------------------- MODULE NetSocket -----------------------------
(***************************************************************************)
(* Lua sockets of the LuaNode32 firmware, components/modules/net.c.  A     *)
(* socket is a userdata of the Lua heap.  While it is pinned (self_ref) it *)
(* cannot be collected.  Its control block (pcb) belongs to lwIP, whose    *)
(* thread calls the net_*_cb functions; they only post events to the task  *)
(* pump, which runs handle_net_event, which calls Lua.  The pump is the    *)
(* Mailbox that TaskPump implements.                                       *)
(*                                                                         *)
(* Lua may call the functions of a socket at any time, in a callback or    *)
(* between two events.  A call that raises an error before it changes      *)
(* anything is no step.  lwIP, the DNS client and the script are external. *)
(* What follows a read of a collected userdata is not defined: every       *)
(* action stops then (dangling).                                           *)
(***************************************************************************)
EXTENDS Mailbox, SequencesExt

CONSTANTS
  Sock,         (* the userdata                                         *)
  Type,         (* Type[s]: "client", "server" or "udp"                 *)
  Pcb,          (* the control blocks lwIP has; a free one is used again *)
  Addr,         (* the addresses that names resolve to                  *)
  NoAddr,       (* ip_addr_any: the name was not found                  *)
  Medium, High, (* TASK_PRIORITY_MEDIUM, TASK_PRIORITY_HIGH             *)
  Used,         (* the callbacks that scripts register                  *)
  MaxCalls,     (* bound: connect, dns, send and listen                 *)
  MaxArrivals,  (* bound: segments, datagrams and new connections       *)
  MaxRefusals   (* bound: failures of malloc                            *)

Callback == {"dns", "connection", "receive", "sent", "disconnection",
             "reconnection", "accept"}

(* Nothing posts ACCEPT; DNSSTATIC, of net.dns.resolve, has no socket. *)
EventKind == {"DNSFOUND", "CONNECTED", "RECVDATA", "SENTDATA", "ERR"}

(* The kinds whose loss is remembered (lost).                          *)
Counted == {"DNSFOUND", "ERR"}

NetEvent == [kind : EventKind, sock : Sock, val : Addr \cup {NoAddr, None, "ok", "bad"}]

ASSUME NetSocketAssumption ==
  /\ Type \in [Sock -> {"client", "server", "udp"}]
  /\ {Medium, High} \subseteq Prio
  /\ Medium # High
  /\ NetEvent \subseteq Msg
  /\ None \notin Sock \cup Pcb \cup Addr
  /\ NoAddr \notin Addr
  /\ Used \subseteq Callback
  /\ {MaxCalls, MaxArrivals, MaxRefusals} \subseteq Nat

VARIABLES
  life,       (* "absent", "held" by the script, "dropped", "collected"   *)
  pcb,        (* ud->pcb, or None                                         *)
  pinned,     (* ud->self_ref # LUA_NOREF                                 *)
  wait_dns,   (* ud->client.wait_dns                                      *)
  on,         (* the callbacks registered                                 *)
  tcp,        (* lwIP: the control blocks                                 *)
  asked,      (* asked[s]: the DNS client's unanswered queries for s      *)
  calling,    (* the Lua callback that runs and what it is given, or None *)
  lost,       (* history: events that could not be posted                 *)
  dangling,   (* history: a collected userdata was read                   *)
  calls, arrivals, refusals  (* what the bounds count                     *)

udVars == <<life, pcb, pinned, wait_dns, on>>
bounds == <<calls, arrivals>>
posting == <<box, lost, refusals>>
vars == <<mailboxVars, udVars, tcp, asked, calling, lost, dangling, bounds, refusals>>

InUse(state, s) == [state |-> state, arg |-> s, peer |-> None, unacked |-> FALSE]
Unused == InUse("free", None)

NetInit ==
  /\ Init
  /\ life = [s \in Sock |-> "absent"]
  /\ pcb = [s \in Sock |-> None]
  /\ pinned = [s \in Sock |-> FALSE]
  /\ wait_dns = [s \in Sock |-> 0]
  /\ on = [s \in Sock |-> {}]
  /\ tcp = [p \in Pcb |-> Unused]
  /\ asked = [s \in Sock |-> <<>>]
  /\ calling = None
  /\ lost = [s \in Sock |-> [k \in Counted |-> 0]]
  /\ dangling = FALSE
  /\ calls = 0 /\ arrivals = 0 /\ refusals = 0

-----------------------------------------------------------------------------
(* The post_net_* functions: malloc and task_post. *)

Event(k, s, v) == [kind |-> k, sock |-> s, val |-> v]

PostNet(p, e) ==
  \/ /\ Put(p, e)
     /\ UNCHANGED <<lost, refusals>>
  \/ /\ HasRoom(p) => refusals < MaxRefusals
     /\ refusals' = IF HasRoom(p) THEN refusals + 1 ELSE refusals
     /\ lost' = IF e.kind \in Counted
                THEN [lost EXCEPT ![e.sock][e.kind] = @ + 1] ELSE lost
     /\ UNCHANGED box

(* Mutant: a socket without connection is not told. *)
NetDnsIfConnected(s, a) ==
  IF pcb[s] # None THEN PostNet(Medium, Event("DNSFOUND", s, a)) ELSE UNCHANGED posting

(* net_dns_cb: whatever the socket does now, it is told. *)
NetDns(s, a) == PostNet(Medium, Event("DNSFOUND", s, a))

(* Mutant: the error of an unpinned socket is posted too. *)
NetErrUnguarded(s, v) ==
  IF s # None /\ Type[s] = "client"
  THEN /\ pcb' = [pcb EXCEPT ![s] = None]
       /\ PostNet(Medium, Event("ERR", s, v))
  ELSE UNCHANGED <<pcb, posting>>

(* net_err_cb: it does not ask which control block the error is of. *)
NetErr(s, v) ==
  IF s # None /\ Type[s] = "client" /\ pinned[s]
  THEN /\ pcb' = [pcb EXCEPT ![s] = None]
       /\ PostNet(Medium, Event("ERR", s, v))
  ELSE UNCHANGED <<pcb, posting>>

Dead(s) == s # None /\ life[s] = "collected"

-----------------------------------------------------------------------------
(* The functions that Lua calls.                                           *)

(* The script has the socket in a variable, or it is the argument of the   *)
(* callback that runs.                                                     *)
Given(s) == calling # None /\ calling.obj = s
CanUse(s) == ~dangling /\ (life[s] = "held" \/ Given(s))

Call(s) ==
  /\ CanUse(s)
  /\ calls < MaxCalls
  /\ calls' = calls + 1
  /\ UNCHANGED <<hand, life, calling, arrivals, dangling>>

net_create(s) ==
  /\ ~dangling
  /\ life[s] = "absent"
  /\ life' = [life EXCEPT ![s] = "held"]
  /\ UNCHANGED <<mailboxVars, pcb, pinned, wait_dns, on, tcp, asked, calling, lost,
                 dangling, bounds, refusals>>

(* The script lets go of the socket, or keeps the one it was given. *)
Script(s) ==
  /\ ~dangling
  /\ \/ /\ life[s] = "held"
        /\ life' = [life EXCEPT ![s] = "dropped"]
     \/ /\ life[s] = "dropped" /\ Given(s)
        /\ life' = [life EXCEPT ![s] = "held"]
  /\ UNCHANGED <<mailboxVars, pcb, pinned, wait_dns, on, tcp, asked, calling, lost,
                 dangling, bounds, refusals>>

(* A function or nil. *)
net_on(s, c) ==
  /\ CanUse(s)
  /\ Type[s] = "client" \/ (Type[s] = "udp" /\ c \in {"dns", "receive", "sent"})
  /\ on' = [on EXCEPT ![s] = IF c \in @ THEN @ \ {c} ELSE @ \cup {c}]
  /\ UNCHANGED <<mailboxVars, life, pcb, pinned, wait_dns, tcp, asked, calling, lost,
                 dangling, bounds, refusals>>

(* dns_gethostbyname knows the answer, at once (an address in digits, or a *)
(* name in the cache), or asks.                                            *)
Resolving(s, a) ==
  /\ wait_dns' = [wait_dns EXCEPT ![s] = @ + 1]
  /\ pinned' = [pinned EXCEPT ![s] = TRUE]
  /\ \/ /\ NetDns(s, a)
        /\ UNCHANGED asked
     \/ /\ asked' = [asked EXCEPT ![s] = Append(@, a)]
        /\ UNCHANGED posting

(* The port is taken as given, and never zero. *)
net_connect(s, a) ==
  /\ Call(s)
  /\ Type[s] = "client"
  /\ pcb[s] = None
  /\ \E p \in Pcb :
       /\ tcp[p].state = "free"
       /\ pcb' = [pcb EXCEPT ![s] = p]
       /\ tcp' = [tcp EXCEPT ![p] = InUse("new", s)]
  /\ Resolving(s, a)
  /\ UNCHANGED on

(* It cannot ask: wait_dns and the pin become what they were, and          *)
(* tcp_abort calls net_err_cb, which is heard if the socket was pinned     *)
(* before.                                                                 *)
ConnectFails(s) ==
  /\ Call(s)
  /\ Type[s] = "client"
  /\ pcb[s] = None
  /\ \E p \in Pcb : tcp[p].state = "free"
  /\ NetErr(s, "bad")
  /\ UNCHANGED <<pinned, wait_dns, on, tcp, asked>>

net_dns(s, a) ==
  /\ Call(s)
  /\ Type[s] # "server"
  /\ "dns" \in Used
  /\ on' = [on EXCEPT ![s] = @ \cup {"dns"}]
  /\ Resolving(s, a)
  /\ UNCHANGED <<pcb, tcp>>

(* tcp_write; or udp_sendto by a UDP socket, which gets its control block  *)
(* here if it has none.                                                    *)
net_send(s) ==
  /\ Call(s)
  /\ \/ /\ Type[s] = "client"
        /\ pcb[s] # None /\ pinned[s]
        /\ tcp[pcb[s]].state = "open"
        /\ tcp' = [tcp EXCEPT ![pcb[s]].unacked = TRUE]
        /\ UNCHANGED <<pcb, pinned>>
     \/ /\ Type[s] = "udp"
        /\ pcb[s] = None
        /\ \E p \in Pcb :
             /\ tcp[p].state = "free"
             /\ pcb' = [pcb EXCEPT ![s] = p]
             /\ tcp' = [tcp EXCEPT ![p] = InUse("udp", s)]
        /\ pinned' = [pinned EXCEPT ![s] = TRUE]
  /\ on' \in {on, [on EXCEPT ![s] = @ \cup ({"sent"} \cap Used)]}
  /\ UNCHANGED <<wait_dns, asked, posting>>

(* Mutant: listening does not pin. *)
ListenPinsNot(s) == pinned

ListenPins(s) == [pinned EXCEPT ![s] = TRUE]

net_listen(s) ==
  /\ Call(s)
  /\ Type[s] # "client"
  /\ pcb[s] = None
  /\ on' = IF Type[s] = "server" THEN [on EXCEPT ![s] = {"accept"}] ELSE on
  /\ \/ /\ \E p \in Pcb :
             /\ tcp[p].state = "free"
             /\ pcb' = [pcb EXCEPT ![s] = p]
             /\ tcp' = [tcp EXCEPT ![p] = InUse(IF Type[s] = "server" THEN "listen" ELSE "udp", s)]
        /\ pinned' = ListenPins(s)
     \/ UNCHANGED <<pcb, tcp, pinned>>   (* the address is in use *)
  /\ UNCHANGED <<wait_dns, asked, posting>>

(* tcp_close of an open connection leaves the control block to lwIP, with  *)
(* the socket still its argument; if it fails the argument is cleared.     *)
Closed(p) ==
  IF tcp[p].state = "open"
  THEN {[tcp EXCEPT ![p].state = "closing"], [tcp EXCEPT ![p] = Unused]}
  ELSE {[tcp EXCEPT ![p] = Unused]}

(* Mutant: closing does not wait for the answers. *)
KeepsPinNever(s) == FALSE

(* An event of a query carries the socket, which must be there then. *)
KeepsPin(s) == Type[s] # "server" /\ wait_dns[s] # 0

(* Mutant: closing forgets the queries. *)
WaitsAfterCloseNone(s) == [wait_dns EXCEPT ![s] = 0]

WaitsAfterClose(s) == wait_dns

net_close(s) ==
  /\ CanUse(s)
  /\ pcb[s] # None
  /\ tcp' \in Closed(pcb[s])
  /\ pcb' = [pcb EXCEPT ![s] = None]
  /\ pinned' = [pinned EXCEPT ![s] = @ /\ KeepsPin(s)]
  /\ wait_dns' = WaitsAfterClose(s)
  /\ UNCHANGED <<mailboxVars, life, on, asked, calling, lost, dangling, bounds, refusals>>

(* net_delete, __gc.  The control block it still has is aborted, with the  *)
(* argument cleared.                                                       *)
net_delete(s) ==
  /\ ~dangling
  /\ life[s] = "dropped" /\ ~pinned[s] /\ ~Given(s)
  /\ life' = [life EXCEPT ![s] = "collected"]
  /\ tcp' = [p \in Pcb |-> IF p = pcb[s] THEN Unused ELSE tcp[p]]
  /\ pcb' = [pcb EXCEPT ![s] = None]
  /\ on' = [on EXCEPT ![s] = {}]
  /\ UNCHANGED <<mailboxVars, pinned, wait_dns, asked, calling, lost, dangling, bounds, refusals>>

Lua(s) ==
  \/ net_create(s) \/ Script(s) \/ net_delete(s)
  \/ \E c \in Used : net_on(s, c)
  \/ \E a \in Addr : net_connect(s, a) \/ net_dns(s, a)
  \/ ConnectFails(s) \/ net_send(s) \/ net_listen(s) \/ net_close(s)

-----------------------------------------------------------------------------
(* lwIP, which calls back in a thread of its own.                          *)

(* The callbacks look at the userdata they have as argument.               *)
Touch(s) == dangling' = (dangling \/ Dead(s))

LwipStep ==
  /\ ~dangling
  /\ UNCHANGED <<hand, life, pinned, wait_dns, on, calling, calls>>

(* An answer to a query, or none found. *)
Answer(s) ==
  /\ \E i \in 1 .. Len(asked[s]) :
       /\ asked' = [asked EXCEPT ![s] = RemoveAt(@, i)]
       /\ \E a \in {asked[s][i], NoAddr} : NetDns(s, a)
  /\ Touch(s)
  /\ LwipStep /\ UNCHANGED <<pcb, tcp, arrivals>>

(* net_connected_cb *)
Established(p) ==
  LET s == tcp[p].arg IN
  /\ tcp[p].state = "connecting"
  /\ tcp' = [tcp EXCEPT ![p].state = "open"]
  /\ IF s # None /\ pcb[s] = p
     THEN PostNet(Medium, Event("CONNECTED", s, None)) ELSE UNCHANGED posting
  /\ Touch(s)
  /\ LwipStep /\ UNCHANGED <<pcb, asked, arrivals>>

(* Reset, refused or timed out: net_err_cb, the control block is gone. *)
Reset(p) ==
  /\ tcp[p].state \in {"connecting", "open", "closing", "over"}
  /\ tcp' = [tcp EXCEPT ![p] = Unused]
  /\ NetErr(tcp[p].arg, "bad")
  /\ Touch(tcp[p].arg)
  /\ LwipStep /\ UNCHANGED <<asked, arrivals>>

(* What the callbacks check: not that the control block is the socket's. *)
Hears(s) == s # None /\ pcb[s] # None /\ pinned[s]

(* The peer closes: net_tcp_recv_cb without data, which closes as well.    *)
(* Nothing more is said of a connection that was closed before.            *)
PeerCloses(p) ==
  LET s == tcp[p].arg IN
  /\ \/ /\ tcp[p].state = "open"
        /\ tcp' = [tcp EXCEPT ![p].state = "over"]
     \/ /\ tcp[p].state = "closing"
        /\ tcp' = [tcp EXCEPT ![p] = Unused]
  /\ IF Hears(s) THEN NetErr(s, "ok") ELSE UNCHANGED <<pcb, posting>>
  /\ Touch(s)
  /\ LwipStep /\ UNCHANGED <<asked, arrivals>>

(* The last acknowledgement of a connection that was closed. *)
Gone(p) ==
  /\ tcp[p].state \in {"closing", "over"}
  /\ tcp' = [tcp EXCEPT ![p] = Unused]
  /\ LwipStep /\ UNCHANGED <<pcb, posting, asked, arrivals, dangling>>

(* net_tcp_recv_cb with data, net_udp_recv_cb.  Data that cannot be posted *)
(* is lost, though TCP acknowledges it.                                    *)
Receive(p) ==
  LET s == tcp[p].arg IN
  /\ arrivals < MaxArrivals
  /\ arrivals' = arrivals + 1
  /\ tcp[p].state \in {"open", "udp"}
  /\ IF Hears(s) THEN PostNet(High, Event("RECVDATA", s, None)) ELSE UNCHANGED posting
  /\ Touch(s)
  /\ LwipStep /\ UNCHANGED <<pcb, tcp, asked>>

(* net_sent_cb *)
Acknowledged(p) ==
  LET s == tcp[p].arg IN
  /\ tcp[p].unacked
  /\ tcp' = [tcp EXCEPT ![p].unacked = FALSE]
  /\ IF Hears(s) /\ "sent" \in on[s]
     THEN PostNet(Medium, Event("SENTDATA", s, None)) ELSE UNCHANGED posting
  /\ Touch(s)
  /\ LwipStep /\ UNCHANGED <<pcb, asked, arrivals>>

(* net_accept_cb: post_net_accept posts SENTDATA. *)
Knock(p) ==
  LET s == tcp[p].arg IN
  /\ arrivals < MaxArrivals
  /\ arrivals' = arrivals + 1
  /\ tcp[p].state = "listen"
  /\ IF Hears(s) /\ "accept" \in on[s]
     THEN PostNet(Medium, Event("SENTDATA", s, None)) ELSE UNCHANGED posting
  /\ Touch(s)
  /\ LwipStep /\ UNCHANGED <<pcb, tcp, asked>>

Lwip ==
  \/ \E s \in Sock : Answer(s)
  \/ \E p \in Pcb : Established(p) \/ Reset(p) \/ PeerCloses(p) \/ Gone(p)
                    \/ Receive(p) \/ Acknowledged(p) \/ Knock(p)

-----------------------------------------------------------------------------
(* The pump and handle_net_event.                                          *)

CallbackFor(e) ==
  IF e.kind = "ERR"
  THEN IF e.val = "bad" /\ "reconnection" \in on[e.sock] THEN "reconnection" ELSE "disconnection"
  ELSE [DNSFOUND |-> "dns", CONNECTED |-> "connection", RECVDATA |-> "receive",
        SENTDATA |-> "sent"][e.kind]

(* What self_ref stands for: the socket, or nil. *)
Self(s) == IF pinned[s] THEN s ELSE None

(* Only the dns and connection callbacks ask for the pin first.  A server  *)
(* has no cb_sent_ref: lsent_cb reads memory nobody wrote.                 *)
Calls(e) ==
  LET s == e.sock
      this == [cb |-> CallbackFor(e), obj |-> Self(s)] IN
  IF Type[s] = "server" THEN {None, this}
  ELSE IF this.cb \in on[s] /\ (e.kind \in {"DNSFOUND", "CONNECTED"} => pinned[s]) THEN {this}
  ELSE {None}

(* The handler begins, and with it the Lua callback. *)
PumpDeliver ==
  /\ ~dangling
  /\ \E p \in Prio : Deliver(p)
  /\ dangling' = (dangling \/ Dead(hand'.msg.sock))
  /\ calling' \in Calls(hand'.msg)
  /\ UNCHANGED <<udVars, tcp, asked, lost, bounds, refusals>>

HandlerEnds(k) ==
  /\ ~dangling
  /\ hand # None /\ hand.msg.kind = k
  /\ Finish
  /\ calling' = None
  /\ UNCHANGED <<life, pcb, on, asked, lost, dangling, bounds, refusals>>

(* tcp_connect goes where the answer says; that it may fail is ignored. *)
Connects(p, a) == {tcp, [tcp EXCEPT ![p].state = "connecting", ![p].peer = a]}

ToConnect(s) == Type[s] = "client" /\ pcb[s] # None /\ tcp[pcb[s]].state = "new"

(* Mutant: the last answer does not unpin. *)
FoundUnpinsNever(s) == FALSE

FoundUnpins(s) == pcb[s] = None /\ wait_dns[s] = 1

(* ldnsfound_cb after the callback *)
FoundTail ==
  LET s == hand.msg.sock IN
  /\ HandlerEnds("DNSFOUND")
  /\ wait_dns' = [wait_dns EXCEPT ![s] = @ - 1]
  /\ tcp' \in IF ToConnect(s) THEN Connects(pcb[s], hand.msg.val) ELSE {tcp}
  /\ pinned' = [pinned EXCEPT ![s] = @ /\ ~FoundUnpins(s)]

(* Mutant: an error unpins at once. *)
ErrUnpinsAlways(s) == TRUE

ErrUnpins(s) == wait_dns[s] = 0

(* lerr_cb after the callback *)
ErrTail ==
  LET s == hand.msg.sock IN
  /\ HandlerEnds("ERR")
  /\ pinned' = [pinned EXCEPT ![s] = @ /\ ~ErrUnpins(s)]
  /\ UNCHANGED <<wait_dns, tcp>>

(* lconnected_cb, lrecv_cb and lsent_cb only call. *)
OtherTail ==
  /\ \E k \in {"CONNECTED", "RECVDATA", "SENTDATA"} : HandlerEnds(k)
  /\ UNCHANGED <<pinned, wait_dns, tcp>>

Pump == PumpDeliver \/ FoundTail \/ ErrTail \/ OtherTail

-----------------------------------------------------------------------------

NetNext == Pump \/ Lwip \/ \E s \in Sock : Lua(s)

(* The main task pumps, and every query is answered in the end. *)
NetSpec ==
  /\ NetInit
  /\ [][NetNext]_vars
  /\ WF_vars(Pump)
  /\ \A s \in Sock : WF_vars(Answer(s))

-----------------------------------------------------------------------------
(***************************************************************************)
(* Properties                                                              *)
(***************************************************************************)

Block == [state : {"free", "new", "connecting", "open", "closing", "over", "listen", "udp"},
          arg : Sock \cup {None}, peer : Addr \cup {NoAddr, None}, unacked : BOOLEAN]

(* Every variable has its type; wait_dns never drops below zero. *)
NetTypeOK ==
  /\ box \in [Prio -> Seq(NetEvent)]
  /\ hand = None \/ hand \in [msg : NetEvent, prio : Prio]
  /\ life \in [Sock -> {"absent", "held", "dropped", "collected"}]
  /\ pcb \in [Sock -> Pcb \cup {None}]
  /\ pinned \in [Sock -> BOOLEAN]
  /\ wait_dns \in [Sock -> Nat]
  /\ on \in [Sock -> SUBSET Callback]
  /\ tcp \in [Pcb -> Block]
  /\ asked \in [Sock -> Seq(Addr)]
  /\ calling = None \/ calling \in [cb : Callback, obj : Sock \cup {None}]
  /\ lost \in [Sock -> [Counted -> Nat]]
  /\ dangling \in BOOLEAN
  /\ calls \in 0 .. MaxCalls /\ arrivals \in 0 .. MaxArrivals /\ refusals \in 0 .. MaxRefusals

(* An answer for s, and where those are that wait to be handled.           *)
IsFound(e, s) == e.kind = "DNSFOUND" /\ e.sock = s
Found(s) == {i \in DOMAIN box[Medium] : IsFound(box[Medium][i], s)}
FoundInHand(s) == hand # None /\ IsFound(hand.msg, s)

(* The queries that are unanswered, the answers on their way to Lua, and,  *)
(* for ever, those whose event could not be posted.                        *)
Out(s) == Len(asked[s]) + Cardinality(Found(s)) + lost[s]["DNSFOUND"]
InHand(s) == IF FoundInHand(s) THEN 1 ELSE 0

(* wait_dns counts the queries that Lua was not yet told the end of.       *)
WaitsAccounted == \A s \in Sock : wait_dns[s] = Out(s) + InHand(s)

(* A socket with a query or an answer under way cannot be collected,       *)
(* whatever Lua and the network did to its connection meanwhile.           *)
ResolvingStaysPinned ==
  \A s \in Sock :
    asked[s] # <<>> \/ Found(s) # {} \/ FoundInHand(s) => pinned[s] /\ life[s] # "collected"

(* A socket that has a control block is pinned: an error event that was    *)
(* posted for the last connection does not take the pin of the next one.   *)
ConnectedIsPinned == \A s \in Sock : pcb[s] # None => pinned[s]

(* No event is posted for a socket that may be collected; an event can     *)
(* only outlive its socket when the pin is released while it is queued.    *)
NewsOnlyForPinned ==
  [][\A p \in Prio : Len(box'[p]) > Len(box[p]) => pinned'[Last(box'[p]).sock]]_vars

(* A socket without connection gives up its pin, unless the event that     *)
(* would do it was not posted.                                             *)
PinReleased ==
  \A s \in Sock :
    (pinned[s] /\ pcb[s] = None)
      ~> (~pinned[s] \/ pcb[s] # None \/ lost[s]["DNSFOUND"] > 0 \/ lost[s]["ERR"] > 0 \/ dangling)

=============================================================================
