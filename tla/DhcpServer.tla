------------------------------ MODULE DhcpServer ------------------------------
(***************************************************************************)
(* The address pool of the access point, components/espconn/dhcpserver.c:  *)
(* the sorted list of leases, the search for a free address, the minute    *)
(* timer, and starting and stopping, which the application does.           *)
(*                                                                         *)
(* An address is segment * Octets + octet.  In memory it is in network     *)
(* order and compared as a number of the little-endian core: the last      *)
(* octet counts most (Rank).  Stations are external: they ask, renew,      *)
(* release, decline, are switched off, and hold what was acknowledged for  *)
(* as long as they were told, by a clock of their own that starts with the *)
(* acknowledgement: a minute of the server ends at any moment of theirs.   *)
(* Their messages and the answers may be lost.                             *)
(* Left out: malloc that fails, a call of espconn_dhcps_stop in the middle *)
(* of handle_dhcp, and addresses of other than the last two octets.        *)
(***************************************************************************)
EXTENDS Integers, SequencesExt

CONSTANTS
  Station,         (* the MAC addresses                                    *)
  Octets,          (* 256                                                  *)
  Ips,             (* addresses that the access point is given             *)
  Ranges,          (* what wifi_softap_set_dhcps_lease is called with      *)
  MAX_LEASE,       (* DHCPS_MAX_LEASE                                      *)
  MAX_STATION_NUM,
  LEASE_TIMER,     (* DHCPS_LEASE_TIMER, in minutes                        *)
  MaxSettings      (* bound: starts, stops and changes of the range        *)

Address == 0 .. Octets * Octets - 1
NoIp == -1

ASSUME DhcpAssumption ==
  /\ Octets \in Nat /\ MAX_LEASE \in 1 .. Octets \div 2 - 1
  /\ Ips \subseteq Address
  /\ Ranges \subseteq [start : Address, end : Address]
  /\ MAX_STATION_NUM \in Nat /\ MAX_STATION_NUM > 1 /\ LEASE_TIMER \in Nat \ {0}
  /\ MaxSettings \in Nat

VARIABLES
  started,     (* pcb_dhcps listens                                        *)
  lease,       (* dhcps_lease: whether it was configured, and the range    *)
  plus,        (* client_address_plus, the address to be tried next        *)
  plist,       (* the leases                                               *)
  held, left,  (* of a station: its address, the minutes it may keep it    *)
  due,         (* the stations of whose minute the server's timer has seen *)
               (* the end already, but they not yet                        *)
  bereft,      (* history: the stations whose lease was taken away         *)
  settings,    (* bound: starts, stops and changes of the range            *)
  astray       (* history: "moved", the range was changed under the leases, *)
               (* "spilled", the search has left the segment of the range  *)

server == <<started, lease, plus, plist, astray, settings>>
stations == <<held, left, due, bereft>>
dhcpVars == <<server, stations>>

DhcpInit ==
  /\ started = FALSE
  /\ lease = [enable |-> FALSE, start |-> 0, end |-> 0]
  /\ plus = 0
  /\ plist = <<>>
  /\ held = [m \in Station |-> NoIp] /\ left = [m \in Station |-> 0]
  /\ due = {} /\ bereft = {}
  /\ astray = {} /\ settings = 0

Rank(a) == (a % Octets) * Octets + a \div Octets
Less(a, b) == Rank(a) < Rank(b)
Segment(a) == a \div Octets

Bereaves(ms) == bereft' = bereft \union {m \in ms : held[m] # NoIp}
Astray(what, condition) == IF condition THEN {what} ELSE {}

Macs(list) == {list[i].mac : i \in DOMAIN list}

-----------------------------------------------------------------------------
(* Starting, stopping and configuring. *)

InSegment(r, ip) ==
  /\ Segment(r.start) = Segment(ip) /\ Segment(r.end) = Segment(ip)
  /\ r.end - r.start \in 0 .. MAX_LEASE
InRange(r, a) == r.start <= a /\ a <= r.end

Setting == settings < MaxSettings /\ settings' = settings + 1

(* wifi_softap_init_dhcps_lease: a range that does not suit the address of *)
(* the access point is replaced by the one beside it.                      *)
Usable(r, ip) == r.enable /\ ~InRange(r, ip) /\ InSegment(r, ip)
Default(ip) ==
  LET octet == ip % Octets
      local == IF octet >= Octets \div 2 THEN octet - MAX_LEASE ELSE octet + 1
      first == Segment(ip) * Octets + local
  IN  [enable |-> FALSE, start |-> first, end |-> first + MAX_LEASE - 1]

(* It may be called again without a stop, and then keeps the leases.       *)
espconn_dhcps_start(ip) ==
  /\ Setting
  /\ started' = TRUE
  /\ lease' = IF Usable(lease, ip) THEN lease ELSE Default(ip)
  /\ plus' = lease'.start
  /\ astray' = IF plist = <<>> THEN {} ELSE astray \union Astray("moved", lease' # lease)
  /\ UNCHANGED <<plist, stations>>

espconn_dhcps_stop ==
  /\ Setting
  /\ started
  /\ started' = FALSE
  /\ plist' = <<>>
  /\ Bereaves(Macs(plist))
  /\ UNCHANGED <<lease, plus, astray, held, left, due>>

(* That the server runs does not keep anyone from it: DHCP_STARTED is 0xFF, *)
(* and no answer of wifi_softap_dhcps_status.                              *)
wifi_softap_set_dhcps_lease ==
  /\ Setting
  /\ \/ \E r \in Ranges, ip \in Ips :
          /\ ~InRange(r, ip) /\ InSegment(r, ip)
          /\ lease' = [enable |-> TRUE, start |-> r.start, end |-> r.end]
     \/ lease' = [lease EXCEPT !.enable = FALSE]
  /\ astray' = astray \union Astray("moved", started /\ <<lease'.start, lease'.end>> # <<lease.start, lease.end>>)
  /\ UNCHANGED <<started, plus, plist, stations>>

-----------------------------------------------------------------------------
(* The pool. *)

Leased(m) == m \in Macs(plist)
NodeOf(list, m) == CHOOSE i \in DOMAIN list : list[i].mac = m
LeaseOf(m) == NodeOf(plist, m)

(* The nodes that the loop of parse_msg passes for m.                      *)
Passed(m) == IF Leased(m) THEN SubSeq(plist, 1, LeaseOf(m) - 1) ELSE plist

(* At each the address to be tried moves on if it is taken, and so does    *)
(* the first one that may be free, until one is.                           *)
Passes(at, node) ==
  LET past == at.past \/ Less(at.first, node.ip) IN
    [past |-> past,
     plus |-> IF node.ip = at.plus THEN at.plus + 1 ELSE at.plus,
     first |-> IF past THEN at.first ELSE at.first + 1]

Walk(list) ==
  LET at[i \in 0 .. Len(list)] ==
        IF i = 0 THEN [past |-> FALSE, plus |-> plus, first |-> lease.start]
                 ELSE Passes(at[i - 1], list[i])
  IN  at[Len(list)]
Search(m) == Walk(Passed(m))

(* The address for a station without a lease: one beyond the range says    *)
(* that there is none.                                                     *)
Chosen(m) ==
  IF Less(lease.end, Search(m).plus) THEN Search(m).first ELSE Search(m).plus
Exhausted(m) == ~Leased(m) /\ Less(lease.end, Chosen(m))

(* Mutant: the new lease comes first.                                      *)
InsertedFirst(list, node) == <<node>> \o list

node_insert_to_list(list, node) ==
  InsertAt(list, Min({i \in DOMAIN list : Less(node.ip, list[i].ip)} \union {Len(list) + 1}), node)

NewLease(m, a) == [ip |-> a, mac |-> m, timer |-> LEASE_TIMER]

(* Mutant: the timer of a lease that is asked for again goes on.           *)
FoundUnrefreshed(m) == [plus |-> Search(m).plus, list |-> plist, ip |-> plist[LeaseOf(m)].ip]

(* The list, the next address and the address of m when it has a lease,    *)
Found(m) ==
  [plus |-> Search(m).plus, list |-> [plist EXCEPT ![LeaseOf(m)].timer = LEASE_TIMER],
   ip |-> plist[LeaseOf(m)].ip]

(* and when it is given one.                                               *)
Given(m) ==
  LET a == Chosen(m) IN
    [plus |-> IF a = lease.end THEN lease.start ELSE a + 1,
     list |-> node_insert_to_list(plist, NewLease(m, a)), ip |-> a]

Without(list, m) == RemoveAt(list, NodeOf(list, m))

(* A request is for the address that the pool has for the station, for     *)
(* another one, or for none, when it renews the one it says is its own.    *)
parse_options(msg, renew) ==
  CASE msg.type = "discover" -> "offer"
    [] msg.type = "request" ->
         IF msg.req = "same" \/ (msg.req = "none" /\ renew) THEN "ack" ELSE "nak"
    [] OTHER -> "none"

(* What becomes of a station when its message is answered, or not.         *)
Learns(m, msg, answer, a) ==
  LET leaves == msg.type \in {"release", "decline"} \/ answer = "nak"
      gets == answer = "ack"
  IN  /\ held' = [held EXCEPT ![m] = IF leaves THEN NoIp ELSE IF gets THEN a ELSE @]
      /\ left' = [left EXCEPT ![m] = IF leaves THEN 0 ELSE IF gets THEN LEASE_TIMER ELSE @]
      /\ due' = IF leaves \/ gets THEN due \ {m} ELSE due

(* The pool is exhausted.                                                  *)
RefusesLease(m, msg) ==
  /\ Exhausted(m)
  /\ plus' = lease.start
  /\ UNCHANGED <<plist, bereft, astray>>
  /\ \E answer \in {"nak", "none"} : Learns(m, msg, answer, NoIp)

(* The lease of m lies behind the end of the range as it is now.           *)
Withdraws(m, msg) ==
  /\ Leased(m)
  /\ Less(lease.end, Found(m).ip)
  /\ plus' = Search(m).plus
  /\ plist' = Without(plist, m)
  /\ \E answer \in {"nak", "none"} : Learns(m, msg, answer, NoIp)
  /\ bereft' = IF held'[m] = NoIp THEN bereft \ {m} ELSE bereft \union {m}
  /\ UNCHANGED astray

(* The address of m, or the one its search began with, is of another       *)
(* segment than the range.                                                 *)
LeavesSegment(m, ip) ==
  \/ Segment(ip) # Segment(lease.end)
  \/ ~Leased(m) /\ Segment(plus) # Segment(lease.end)

(* Every other message leaves m with a lease, whatever it asks for, but a  *)
(* release.  wifi_softap_set_station_info may have it go unanswered.       *)
Answers(m, msg) ==
  LET pool == IF Leased(m) THEN Found(m) ELSE Given(m)
      renew == Leased(m) /\ msg.ciaddr = pool.ip
  IN  /\ ~Exhausted(m)
      /\ ~Less(lease.end, pool.ip)
      /\ plus' = pool.plus
      /\ plist' = IF msg.type = "release" THEN Without(pool.list, m) ELSE pool.list
      /\ astray' = astray \union Astray("spilled", LeavesSegment(m, pool.ip))
      /\ \E answer \in {parse_options(msg, renew), "none"} :
           /\ Learns(m, msg, answer, pool.ip)
           /\ bereft' = IF answer = "ack" \/ held'[m] = NoIp THEN bereft \ {m} ELSE bereft

handle_dhcp(m, msg) ==
  /\ started
  /\ RefusesLease(m, msg) \/ Withdraws(m, msg) \/ Answers(m, msg)
  /\ UNCHANGED <<started, lease, settings>>

-----------------------------------------------------------------------------
(* kill_oldest_dhcps_pool never looks at the first node.                   *)
Oldest(list) ==
  CHOOSE i \in 2 .. Len(list) :
    \A j \in 2 .. Len(list) : IF j < i THEN list[i].timer < list[j].timer
                                        ELSE list[i].timer <= list[j].timer

Lowered(node) == [node EXCEPT !.timer = @ - 1]

(* Mutant: a lease is looked at before its timer is lowered.               *)
AgesLate(list, node) == IF node.timer = 0 THEN list ELSE Append(list, Lowered(node))

Ages(list, node) == IF Lowered(node).timer = 0 THEN list ELSE Append(list, Lowered(node))

Aged ==
  LET list[i \in 0 .. Len(plist)] == IF i = 0 THEN <<>> ELSE Ages(list[i - 1], plist[i])
  IN  list[Len(plist)]

(* Once a minute leases run out, and when there are as many as stations    *)
(* can be, one more goes.  Between two ticks a minute of every station     *)
(* ends, and who has none left gives its address up.                       *)
dhcps_coarse_tmr ==
  /\ \A m \in Station : held[m] # NoIp => left[m] > 0 /\ m \notin due
  /\ IF Len(Aged) >= MAX_STATION_NUM
     THEN /\ plist' = RemoveAt(Aged, Oldest(Aged))
          /\ Bereaves({Aged[Oldest(Aged)].mac})
     ELSE /\ plist' = Aged
          /\ UNCHANGED bereft
  /\ due' = {m \in Station : held[m] # NoIp}
  /\ UNCHANGED <<started, lease, plus, astray, settings, held, left>>

(* The stations. *)
Message(type, req, ciaddr) == [type |-> type, req |-> req, ciaddr |-> ciaddr]

(* One without an address looks for one, or asks for one it was offered or *)
(* has had, from whatever server; one with an address renews it, gives it  *)
(* back or says that someone else uses it; others have theirs from         *)
(* elsewhere (INFORM).                                                     *)
Asks(m) ==
  \/ /\ held[m] = NoIp
     /\ \/ \E type \in {"discover", "inform"} : handle_dhcp(m, Message(type, "none", NoIp))
        \/ \E req \in {"same", "other"} : handle_dhcp(m, Message("request", req, NoIp))
  \/ /\ held[m] # NoIp
     /\ \/ \E type \in {"request", "release"} : handle_dhcp(m, Message(type, "none", held[m]))
        \/ handle_dhcp(m, Message("decline", "same", NoIp))

(* A minute of its own clock is over.                                      *)
Minute(m) ==
  /\ m \in due
  /\ left' = [left EXCEPT ![m] = @ - 1]
  /\ due' = due \ {m}
  /\ UNCHANGED <<server, held, bereft>>

(* It is switched off or its time is over.                                 *)
Forgets(m) ==
  /\ held[m] # NoIp
  /\ held' = [held EXCEPT ![m] = NoIp] /\ left' = [left EXCEPT ![m] = 0]
  /\ due' = due \ {m} /\ bereft' = bereft \ {m}
  /\ UNCHANGED server

DhcpNext ==
  \/ \E ip \in Ips : espconn_dhcps_start(ip)
  \/ espconn_dhcps_stop
  \/ wifi_softap_set_dhcps_lease
  \/ dhcps_coarse_tmr
  \/ \E m \in Station : Asks(m) \/ Minute(m) \/ Forgets(m)

DhcpSpec == DhcpInit /\ [][DhcpNext]_dhcpVars

(***************************************************************************)
(* Properties                                                              *)
(***************************************************************************)

(* Every variable has its type.  Addresses of leases are numbers: a search *)
(* that runs over the end of its segment counts on.                        *)
DhcpTypeOK ==
  /\ started \in BOOLEAN /\ astray \subseteq {"moved", "spilled"}
  /\ lease \in [enable : BOOLEAN, start : Address, end : Address]
  /\ plus \in Nat
  /\ plist \in Seq([ip : Nat, mac : Station, timer : 1 .. LEASE_TIMER])
  /\ held \in [Station -> Nat \union {NoIp}] /\ left \in [Station -> 0 .. LEASE_TIMER]
  /\ due \subseteq {m \in Station : left[m] > 0}
  /\ bereft \subseteq Station /\ settings \in 0 .. MaxSettings

(* The list stays in the order that the search for a free address and      *)
(* node_insert_to_list rely on: no address and no station is in it twice,  *)
(* and as long as the range is not changed under it, all are in the range. *)
(* A range that ends with the last address of its segment breaks this.     *)
LeasesOrdered ==
  "spilled" \notin astray =>
    /\ \A i, j \in DOMAIN plist : i < j =>
         Less(plist[i].ip, plist[j].ip) /\ plist[i].mac # plist[j].mac
    /\ astray = {} => \A i \in DOMAIN plist : InRange(lease, plist[i].ip)

(* What a station may count on of the minutes that it was told: a lease is *)
(* counted in ticks of the server, and the first comes at any moment of    *)
(* the station's first minute.                                             *)
Sure(m) == IF m \in due THEN left[m] - 1 ELSE left[m]

(* A station has its address leased to it for the time that it was told,   *)
(* but for less than a minute at its end, unless the oldest lease was      *)
(* killed for want of room, the server was stopped, or its range was       *)
(* changed: no loss of an answer, no renewal and no other station's        *)
(* message takes it away.                                                  *)
InUseIsLeased ==
  \A m \in Station : held[m] # NoIp /\ Sure(m) > 0 /\ m \notin bereft =>
    \E i \in DOMAIN plist : plist[i].mac = m /\ plist[i].ip = held[m] /\ plist[i].timer >= Sure(m)

(* A new station is refused only when every address of the range is        *)
(* leased, and then it is: no station goes without while one is free, and  *)
(* none is given one twice, unless the range was changed or ends with its  *)
(* segment.                                                                *)
EndsSegment(a) == a % Octets = Octets - 1
RefusedWhenFull ==
  \A m \in Station : started /\ astray = {} /\ ~Leased(m) /\ ~EndsSegment(lease.end) =>
    (Exhausted(m) <=> lease.start .. lease.end \subseteq {plist[i].ip : i \in DOMAIN plist})

(* The pool gives every address of the range once and all of them.         *)
PoolExact == LeasesOrdered /\ RefusedWhenFull

=============================================================================
