# Verification of ESP32Project

TLA+ models, model-checking runs and machine-checked proofs for the code in this
repository that schedules, shares and recovers: above all the LuaNode firmware
for the ESP32 (`src/LuaNode-master/LuaNode_Esp32/LuaNode32`, written L32 below),
which is the one program of the repository with tasks, queues, callbacks and
reconnections of its own. The remaining directories under `src/` are some ninety
Arduino sketches, mostly a `setup` and a `loop` around a library.

## 1. The system and its parts

| part | state it keeps | operations | talks to | what makes it correct |
|---|---|---|---|---|
| task pump, `components/task` | handler table, three FreeRTOS queues, a binary semaphore | `task_get_id`, `task_post` (tasks and interrupts), `task_pump_messages` | everything that posts; calls handlers | no event lost, reordered within a priority or delivered twice; no lost wake-up; bounded priority inversion; only registered functions are called |
| system events and boot, `main/app_main.c` | `esp_event_queue`, its task handle | `app_main`, `esp_event_send`, `handle_esp_event` | Wi-Fi and TCP/IP tasks; posts to the pump | a queued event is handled |
| MQTT client, `components/espmqtt` | shared `out_buffer` and length, byte ring, length queue, connection, sending task | publish, subscribe, unsubscribe, connect, receive, keep-alive, destroy | Lua callbacks, lwIP sockets | bytes in the ring match the lengths queued; packets whole and in order; reconnects; leaks nothing |
| MQTT message framing, `mqtt_msg.c` | message under construction | builders and parsers of headers | MQTT client | lengths agree between writer and reader; nothing beyond the buffer |
| Lua MQTT handles, `components/modules/mqtt.c` | three handles with callback references | `new`, `close`, `on`, `publish`, ... | MQTT client | a handle is never used after `close`; callbacks belong to their client |
| Lua sockets, `components/modules/net.c` | userdata with pinned references, lwIP control blocks | create, connect, listen, send, close, DNS | lwIP callbacks post to the pump, the pump calls Lua | events reach the object they are for; pins are released; receive after connect |
| console, `components/uart`, `components/lua/lua.c` | receive ring, line buffer | UART task, `lua_handle_input`, `node.input` | Lua runs in the UART task and in the main task | lines arrive whole; line ends count once; positions stay inside their buffers |
| easy_mem, `components/easy_mem` | heap list with byte offsets; buddy lists | alloc, free, realloc | any | blocks disjoint, inside the arena, nothing lost on free |
| Lua timers, `components/modules/tmr.c` | timer table, event queue | register, start, stop, interrupt, timer task | hardware timers, Lua | a stopped timer does not fire; one-shot fires once |
| espconn TCP, `components/espconn/espconn.c`, `espconn_tcp.c` | the list of connections, packets that wait, an event queue | connect, accept, send, disconnect, abort, options | application, lwIP callbacks, `espconn_Task` | a node is used until it is freed and freed once; acknowledgements reach their packets; a connection can be sent to again |
| DHCP server, `components/espconn/dhcpserver.c` | the sorted list of leases, the address to try next, the range, a timer per lease | start, stop, set the range, `handle_dhcp`, the minute timer | lwIP callbacks, stations, the application | no address leased twice and none withheld; a station keeps its lease but for the last minute |
| espconn UDP, ping | datagrams | send, receive | lwIP callbacks | none beyond lwIP's |
| platform, file system, other modules | mounts, drivers | thin wrappers | hardware, SPIFFS | argument checks |
| FTP server sketch | command and transfer state | `handleFTP` polled from `loop` | SD card, two TCP connections | a transfer ends with its session; what is reported as done was read to the end and written, lost blocks aside; a client that is gone is forgotten |
| app controller sketch | current app, menu index | navigation, enter, exit | apps | index in range, exit returns to the menu |
| sketches with an interrupt or two tasks | a counter or flag | interrupt, task, loop | none | no update lost |

### How the parts interact

lwIP and Wi-Fi tasks, interrupts and Lua all meet in the task pump: they post a
`(handle, param)` pair and the pump, in the main task, calls the handler
registered for the handle. System events add a queue of their own in front of it
(`esp_event_send` queues the event, then posts a message without content). The
MQTT client stands beside this: it has its own two tasks, shares one client
structure between them and with every task that runs Lua, and takes no lock.
`espconn` is a second set of sockets beside `net.c`, with an event queue and a task
of its own. The console task reads the UART and runs Lua itself, on the interpreter
that the main task runs for the pump.

### What is hard

* steps of several tasks between a queue operation and the signal that announces
  it (`task_post`, `esp_event_send`, `mqtt_queue`);
* a buffer and a length shared by builders and senders of MQTT messages;
* a task deleted from outside in the middle of a message;
* results nobody looks at: a refused post, a full length queue, a read of zero or
  minus one, a failed `realloc`;
* reconnection with what the last connection left behind;
* memory that one task frees while another still points to it (`espconn`);
* a count that two cores load and store without a lock (`ringbuf.c`);
* a search that trusts the order of a list and a cursor, which requests, refusals,
  releases and a timer leave behind (the DHCP server);
* one file, one data connection and one buffer that serve both the transfer under
  way and the commands obeyed meanwhile (the FTP server).

`PROJECT.json` lists each of these under `hazards` at its line, with the
properties that would catch it going wrong.

## 2. The modules

| module | models | built on |
|---|---|---|
| `Mailbox` | what the pump promises: bounded first-in first-out boxes, one message in hand | |
| `TaskPump` | `task.c`, step by step | `Mailbox` by refinement |
| `TaskPumpProofs` | theorems about `TaskPump` | `TaskPump`, `TLAPS` |
| `EspEvents` | `app_main.c` | `Mailbox` by extension |
| `NetSocket` | `modules/net.c` | `Mailbox` by extension |
| `PumpUsersProofs` | theorems about the two users of the pump | `NetSocket`, `EspEvents`, `TLAPS` |
| `MqttClient` | `espmqtt/mqtt.c`, `ringbuf.c`, and of `mqtt_msg.c` the ids and the layout in the buffer | |
| `MqttClientProofs` | theorems about `MqttClient` | `MqttClient`, `TLAPS` |
| `RingBuf` | the inside of `ringbuf.c` under two cores | |
| `RingBufProofs` | theorems about `RingBuf` | `RingBuf`, `TLAPS` |
| `UartConsole` | `my_uart.c`, the interactive half of `lua.c`, `node.input` | |
| `UartConsoleProofs` | theorems about `UartConsole` | `UartConsole`, `TLAPS` |
| `EspconnTcp` | `espconn.c` and `espconn_tcp.c` | |
| `EspconnTcpProofs` | theorems about `EspconnTcp` | `EspconnTcp`, `TLAPS` |
| `DhcpServer` | `dhcpserver.c` | |
| `DhcpServerProofs` | theorems about `DhcpServer` | `DhcpServer`, `TLAPS` |
| `FtpSession` | the FTP server sketch | |
| `FtpSessionProofs` | theorems about `FtpSession` | `FtpSession`, `TLAPS` |
| `MC...` | constants for TLC | the module each is named after |

### TaskPump

State: `task_Q` (the three queues), `pending` (the semaphore: not created, empty,
full), the handler table as `allocated` and written entries, `post[c]` (how far
context `c` is inside `task_post`), and the pump's program counter, poll position,
event in hand and function called. One action stands for one FreeRTOS call or for
the code between two of them, because another context can run exactly there:
`PostSend` and `PostGive` are the two calls of `task_post`; `PollTake` and
`PollSkip` the loop of `next_event`; `Take` the wait of `task_pump_messages`.
The main task may itself post, from inside a handler. `task_get_id` is one
action with its allocation failures: the queue creation of the first call, and
a `realloc` whose failure overwrites the only pointer to the table, after
which every handle given out before is dead and the memory of a later table holds
anything (`Retained`). `late` is a history variable.

Abstracted: parameters of events, and the length of the queues (a constant).

### Mailbox and EspEvents

`Mailbox` is the specification other modules are written against. `TaskPump`
implements it (`ImplementsMailbox`, checked with liveness by TLC; its safety half
proved). `EspEvents` extends it: `SendQueue` and `SendPost` are the two calls of
`esp_event_send`, `HandleOne` and `HandleReturns` the loop of `handle_esp_event`,
`OtherPost` the callbacks of `net.c` that fill the same medium box. Booting is
modelled from the creation of the queue to the pump, including the restart when
the flash size is wrong; nothing checks that the queue or the handle exist.

### NetSocket

State: per userdata its life in Lua (`life`), `pcb`, `pinned` (`self_ref`),
`wait_dns` and the callbacks registered; per lwIP control block its state, the
argument lwIP hands to the callbacks and where it connects; the queries the DNS
client has not answered. Each Lua function is one action; so is each lwIP callback.
An event handler is two: `PumpDeliver` starts it and with it the Lua callback, and
`FoundTail`, `ErrTail` or `OtherTail` is what the C code does after the callback
returns. In between Lua may call anything and lwIP may call back, which is where the
interesting behaviours are. Lua code of other tasks (console, timers) calls the same
functions, so a function may be called at any time. A Lua function, an lwIP callback
and the tail of a handler are each taken as atomic with respect to one another; the
firmware takes no lock that would make them so.

`dangling` records that a handler or a callback has read a userdata that Lua had
collected, which is possible because `net_close` drops the pin while events are
queued and because `tcp_close` leaves the userdata with lwIP as an argument. What the
program does after that is not defined, and every action stops.

External, modelled as `net.c` uses it: lwIP (a connection is made, reset, closed by
the peer, closed for good; data and acknowledgements arrive), the DNS client, the
script and the collector. A call that raises a Lua error before it changes anything
is no step.

Not modelled: `net.dns.resolve`, `hold` (a flag that nothing reads), multicast and
DNS server settings, and `laccept_cb`, because no event of kind `ACCEPT` is ever
posted (see 5).

### MqttClient

A byte is a pair of a message and an index, so that a packet that mixes two
messages can be told from a whole one. A writer (a task that runs Lua, or
`mqtt_task` from a callback or while acknowledging) lays its message out in
`out_buffer` (`Build`), reads the length and copies the bytes (`WriteBegin`,
`WriteByte`), then reads the length again and queues it (`Enqueue`). The sending
task is `ReceiveLength`, `NextPiece`, `ReadByte`, `SendPiece`, `MessageSent`, and
`Tick`, `PingBuild`, `PingSend` when nothing is queued. `mqtt_task` is `Dial`,
`Greet`, `Accepted` or `Refused`, `ConnectedCallback`, the receive actions,
`ReceiveEnd` and `Reap` (which deletes the sending task). A message that does not
fit has length zero, as `fail_message` makes it. `in_buffer` keeps the kind of
message read last, because a read that returns nothing or fails leaves it there
and the code looks at it all the same.

`damage` is a history variable: it records that two tasks were in `out_buffer` at
once ("shared"), that the length changed under a writer ("lengths"), that a length
was dropped ("queueFull") or that the sending task was deleted with bytes of its
message still in the ring ("killed"). The code guards against none of these, so
the properties say exactly how far each invariant depends on their absence.
Notably `RingAccounted` does **not** need the absence of "shared".

Abstracted: bytes within a message, topics and payloads, QoS beyond
"answered or not", DNS, and the ring's pointers and counter (they are `RingBuf`). The four bytes
that `xQueueSend` copies from a 16-bit length are taken as the length: the upper
two are structure padding, which `mqtt_msg_init` has cleared.

### RingBuf

`MqttClient` takes the ring for a sequence; this module looks inside. The writer
and the sending task run on two cores. `fill_cnt += n` and `-= n` are each a load and
a later store (`PutLoad`, `PutRaise`; `GetLoad`, `GetLower`), the byte is stored after
it is counted (`PutStore`) and taken after its place is given back (`GetTake`). The
k-th byte has the value k. The sending task only reads what a queued length announces,
which is what makes reads safe even when the counter is not.

`torn` records that a store undid the other task's, `dropped` that a length found the
queue full. What depends on their absence says so.

### UartConsole

One step of the UART task is a character stored into the ring (`Store`), one taken
from it (`SecondOfPair`, `Erase`, `EndEmptyLine`, `EndLine`, `AddLetter`, the branches
of `readline`), or the beginning or end of a run of Lua (`StartJob`, `EndJob`).
`LuaMain` is the boot of the interpreter in the main task, a second or more after the
UART task has started: one step for each assignment to `gLoad` that the UART task can see
(lua.c:601-607), then the `dojob` at its end, which runs a line it finds, resets flag and
position (523, 524) and clears `line_buffer` place by place (`Wipe`). `main` is where it is.
Its two resets of the position may also fall between the uses that `readline` makes of the
position for one character, which ends in the steps of `Torn`: the reset is lost, or what
follows it starts from 0, or an erasure leaves the position at -1. `NodeInput` and
`NodeInputEnds` are the two halves of a script that feeds a line. Writes that miss
`line_buffer` land elsewhere (`Put`), and a prompt or line that does not exist yet
stops the model (`halted`). A letter stands for any printable character. What a
statement does, and output, are left out. Simpler than the code: the two tasks do not run a
line at once (no lock keeps them from it, and what the interpreter does then is undefined); a
character is hit by one reset at most; the clearing at the end of a job (`Clear`) is one step,
because only the main task, clearing or in `node.input`, could come between, which the flags
`crossed` and `fed` record anyhow.

### EspconnTcp

A node is `unused`, `listed` or `freed`. The application calls `espconn_connect`,
`espconn_sent`, `espconn_disconnect`, ...; the thread of lwIP calls back (`Established`,
`Sent`, `PeerCloses`, `espconn_server_poll`, `Errs`); `espconn_Task` takes the events they
post and frees. No lock keeps the three apart. A send is three steps, between which callbacks
and the task run: the packet is appended and `ptail` may come to it (`espconn_sent`,
espconn.c:463-476), `write_flag` goes down with the copy option (`Lowers`, 477-479), and the
packets are written, or the last one is freed again (`Writes`, 480-489); `sending` and
`lowered` say how far it has come. The other calls of an application are one step each:
the applications in this repository make them from a callback, whereas `send_task` of
`examples/tcp_client_espconn` sends from a task of its own. Calls of the application do
not overlap one another.

A call finds a node of the server also by the listening `espconn`, and then
`espconn_disconnect` looks at the state of that one, not at the node's: `MayClose` lets a closed
node of a server be closed again (blamed "listener"), `Opens` lets a send leave the state
of the node as it was. `espconn_clear_opt` turns Nagle on whatever it clears, and with Nagle
`espconn_tcp_write` does not look at the queue of lwIP (`HeldBack`).

The loop of `espconn_tcp_finish` is one step per packet (`Finishes`),
because `sent_callback` runs in it and may send and disconnect; the node it works on is
`busy`, and lwIP does not call back meanwhile.

Bytes of a connection are numbered, a packet stands for the numbers from `at` on.
`tot_len` of a new packet is whatever `malloc` left (`Heap`), because nothing in the
component sets it. A `ptail` that points to a packet that was freed is `Freed`, and
following it, finding a node freed, or a call of the application that looks at a control
block that lwIP has given back, is a `fault`, which stops everything. `blame` records what was
done to a node that the component does not expect. `tot_len` has `TotLens` values and wraps.

External: lwIP (what it acknowledges, when it fails to write or to close), the event
queue of the ROM, the application. Left out: received data and its holding back, ports
and addresses, keep-alive, the limits of the control blocks, failing
allocations, two writes to one control block at the very same time, and what else the code does
with control blocks that were given back. There is some of that: the error callbacks read
`state` and `nrtx` of a control block that their own comment calls deallocated
(espconn_tcp.c:822-832, 1212-1220), a close goes on with one (592), and the task writes
through the one of a client that was closed before it connected (330-367, with the callbacks of
204-205). The model follows the memory of nodes and packets, not that of these, and nothing in
this project says that the code uses no freed memory but what the model shows.

### DhcpServer

An address is a segment and an octet, and `Rank` is the order in which the code compares
addresses: they lie in memory in network order and are read as little-endian numbers, so
that the last octet counts most. `plist` is the list of leases, `plus` the address that
the search tries first. `handle_dhcp` is one action per message, as lwIP calls it with
nothing beside it: `Search` takes one step (`Passes`) at each node that the loop of
`parse_msg` passes, then the message is refused (`RefusesLease`), takes the lease away
(`Withdraws`) or leaves the station with one (`Answers`), whatever it asked for. `dhcps_coarse_tmr` is the
minute timer with `kill_oldest_dhcps_pool`. The application starts, stops and configures
the server at any time.

Stations are external: each looks for an address, asks, renews, releases, declines or is
switched off, and its message or the answer may be lost. `held` and `left` are what a
station was told and the minutes that it may rely on it by its own clock, which starts when it is
told: the server counts a lease in ticks of `dhcps_coarse_tmr`, and the first of them may come
right after the lease was given. Between two ticks a minute of every station ends (`Minute`), in
any order and anywhere among the messages; `due` are the stations whose minute the server
has counted already and they have not. `bereft` names the stations whose
lease the server itself took away, `astray` what the list does not survive: a range changed
under the leases ("moved"), or a lease outside the segment of the range, or one whose search
began outside it ("spilled"), because the range ends with its segment and was run over, or
because it was moved to another segment while the server ran.

Left out: failing allocations, a stop in the middle of a message, how messages are
taken apart and written, and the lease time and router option that can be set.

### FtpSession

`handleFTP` is called for ever from `loop`. One call is up to three steps: a new
control connection (`Accept`), a line or a state of the session (`Dispatch` and the
commands), a block of the transfer (`Retrieve`, `Store`, `NoTransfer`). Lines are obeyed
during a transfer too, so every command shares `file`, `data` and `buf` with it. Peers
connect, hang up and let the clock run out between any two steps. The history
variables compare what a transfer had to move (`owed`) with what it moved (`moved`) and with what
was lost because a write of a block failed (`lost`): nobody looks at what `data.write` and
`file.write` return (722, 738), so that a receiver that is slow or gone, or a full card, costs that
block, while the transfer goes on. They name what else came between (`blame`: a read error of
the card, or a command that took the file, the connection or the card's entry) and keep what was
reported (`verdict`).

External: the WiFi library, the card, the peers, the clock. Left out: how a line is put together and
taken apart, answers, listings, directories, and a rename that the card refuses.

## 3. The runs

| run | instance | shows |
|---|---|---|
| `task_pump` | two posting contexts and the main task, two messages, two priorities, queues of two, fair | `NoLostWakeup`, `OvertakenAtMostOnce`, `HighServed`, `ImplementsMailbox` |
| `task_table` | five registrations with a brick of four, every allocation may fail | `CallsRegistered` |
| `esp_events` | two senders, queue and boxes of two, four sends, four other posts | `NoStrandedEvent`, `QueueDrains` |
| `net_client` | one client, two control blocks, boxes of two, three calls, one failed `malloc`, fair | `WaitsAccounted`, `ResolvingStaysPinned`, `ConnectedIsPinned`, `NewsOnlyForPinned`, `PinReleased` |
| `net_server` | a server and a UDP socket, three calls, two arrivals | `ConnectedIsPinned` |
| `mqtt_client` | one Lua task and `mqtt_task`, four messages (a SUBSCRIBE, one of two bytes, an UNSUBSCRIBE), ring of two bytes, length queue of one, one fault, fair | `RingAccounted`, `PacketsWhole`, `PacketsInOrder`, `SocketsAccounted`, `RingDrains`, `ClosedIsRedialled` |
| `mqtt_connack` | one message, two faults | **violated**: `ConnectSucceeded` |
| `ring` | a ring of three bytes, messages of one and two, two lengths, nine bytes in all, fair | `ReadsWhatWasPut`, `RingHolds`, `NeitherSpins` |
| `console` | a line of two letters, reads of two characters, five characters typed, scripts that feed a letter, letters interchangeable | `RingKeepsAll`, `LineIsWhatWasTyped`, `StaysInside`, `PairsAnsweredOnce` |
| `espconn` | two connections, packets of two bytes, lwIP takes three, a `tot_len` of four values, three packets or options on the first, an event queue of two, fair | `ListedWhileNamed`, `AcksAccounted`, `FlagAwaits`, `Forgotten` |
| `dhcp` | three stations, ranges of three addresses, of two, and of the one that ends the segment, at most three stations, leases of two minutes, three settings | `PoolExact`, `InUseIsLeased` |
| `ftp` | two files, one of two blocks, two control and two data connections, three lines, fair | `TransferWithinSession`, `SuccessIsWhole`, `RenamesTheNamed`, `GoneIsForgotten` |

The runs of `NetSocket`, `MqttClient`, `EspconnTcp` and `DhcpServer` also check the type
invariant. That of every module but `Mailbox` is a theorem (section 4), as is
`TableInBounds`, which no run repeats.

### Bounds, and why they are enough

* Two contexts besides the main task are needed for a post to be overtaken by
  another between its two calls, and a third adds nothing: contexts interact only
  through the queues and one semaphore. Two priorities show every overtaking; the
  proofs cover any number. Queues of two are both full and in order.
* Five registrations pass the first brick of the table (`TASK_HANDLE_ALLOCATION_BRICK`
  is 4).
* Three calls on a client make a connection, a second one while lwIP still has the
  control block of the first, and a lookup beside them. Three control blocks would
  only add another closed connection. Boxes of two are full after an error and an
  answer, so that posts are refused; one failure of `malloc` refuses a post with room.
* In `mqtt_client` a ring of two bytes is filled by two messages, so that writers do spin,
  and a length queue of one overflows with two messages queued while nobody is
  connected. No message is too long for the buffer: one that is only puts a length of zero
  in the queue. One fault is a refused handshake or a lost connection; the two of
  `mqtt_connack` allow a connection to be lost again with what the first loss left behind.
* `WhileFramed` is a state constraint of the MQTT runs: once the framing is
  damaged no later state is explored. Every property checked there has the
  damage in its hypothesis or as an alternative outcome, and damage never
  goes away, so nothing a property says is cut off. `SocketsAccounted` and `TypeOK` alone do
  not mention damage; they are proved (section 4) without the constraint.

* Nine bytes go three times around a ring of three; a full ring, an empty one and the
  place given back but not read all occur, with one and two bytes per message.
* Five characters with reads of two and lines of two letters cross a read, a line end
  and a discarded line in every combination; a third letter would be a third kind of the
  same thing. The real sizes (256 for the line) only make the cases rarer.
* In `espconn` three bytes of buffer against packets of two leave a packet half
  written, with `write_flag` down while its rest waits, and one acknowledgement may cover parts
  of two packets. `tot_len` has four values where the code has 65536, so that it wraps when a packet
  that is credited in part, or by malloc, is credited with three bytes. The second connection is
  opened, closed and reset beside the first but carries no packets: nodes share only
  the list, the event queue and the loop of `espconn_tcp_finish`. `Heap` is 0 and 3, the
  least and the greatest start of `tot_len`: the one that is right, and one that ends a
  packet at once or wraps. An event queue of two (100 in the code) is full after one abort.
* In `dhcp` a range of three addresses is just enough for three stations and a range of two is
  not, so that stations are refused; with three leases `kill_oldest_dhcps_pool` takes one.
  Leases of two minutes are seen young, old and over. Three settings are a start, a stop
  or a change of the range, and another start. `Explored` follows nothing after
  "spilled", nor after a third setting that moved the range: every property that could then fail
  has their absence in the hypothesis; `InUseIsLeased` and the types do not mention them, and are
  proved without the constraint.
* In `ftp`, three lines log a client in and give it a command during a transfer, or
  rename; two blocks let a transfer be cut in the middle; a second control connection takes
  over the first. The proofs cover any number of each.

`CHECK_DEADLOCK FALSE` is set where the system really may stop: a pump that nobody
can post to (no registration succeeded), a boot without further events, sockets that
were collected, an MQTT client whose bounded faults and messages are used up, a console
where nobody types, and a fault in the console, the FTP server or `espconn`.

### Fairness

* `TaskPump`: weak fairness of the pump's own steps and of a context that is
  between the two calls of `task_post` (an interrupt runs to its end, a task is
  scheduled again). Starting the pump and returning from a handler are assumed
  with strong fairness: a handler that is preempted by posts it makes itself still
  returns. Posting is never assumed.
* `EspEvents`: boot, the pump, and a sender between its two calls. No sender is
  obliged to send another event.
* `NetSocket`: the pump, and the DNS client, which answers every query in the end
  (lwIP gives up after its retries). Neither Lua nor the network is obliged to do
  anything. `PumpDeliver` may take any box: that the medium one has its turn rests on
  received data being bounded, for the pump itself serves the high one first
  (`HighServed`) and endless data would starve the rest.
* `MqttClient`: each task takes its enabled steps. The sending task runs at
  `CONFIG_MQTT_PRIORITY + 1`, above `mqtt_task`, so `mqtt_task` spinning in
  `rb_write` cannot keep it from running; a Lua task of higher priority can on the
  same core (the UART task has priority 12), and there `RingDrains` rests on the
  second core. A broker that is dialled often enough accepts: refusals are
  bounded by `MaxFaults`.
* `RingBuf`: the writer's steps and the sending task's, for the same reason. Beginning
  another message is not assumed.
* `EspconnTcp`: `espconn_Task` only, which the system calls for whatever is posted to
  it. Neither the application nor lwIP is obliged to do anything.
* `DhcpServer`: none. What it promises is safety; every station may fall silent.
* `FtpSession`: `handleFTP`, which `loop` calls for ever. The clock runs out, and peers
  hang up, or not.

## 4. What is proved

`TaskPumpProofs`, for every number of contexts, priorities, queue lengths and
registrations allowed by the assumptions of `TaskPump`:

| theorem | property |
|---|---|
| `TypeCorrect` | `TypeOK` |
| `WakeupsArrive` | `NoLostWakeup` |
| `InversionBounded` | `OvertakenAtMostOnce` |
| `CallsAreRegistered` | `CallsRegistered` |
| `TableStaysInBounds` | `TableInBounds` |
| `PumpImplementsMailbox` | the initial states and steps of `ImplementsMailbox` |

The argument, in layers, each relative to the one before:

1. `TypeInv` strengthens `TypeOK` with what the program counter implies about the
   poll position and the event in hand; `PollTake` needs it to index a queue.
2. `WakeupInv`: for a priority the pump has polled past in the present round, an
   event in its queue was put there after the poll, hence the context that put it
   has still to give the semaphore or has given it. `NoLostWakeup` alone is
   enough once `Passed` is known to grow by one priority per poll
   (`PassedGrowth`) and to be empty at the start of a round.
3. `LateInv` ties `late[p]` to the poll position: a lower priority is only taken
   after `p` was polled empty in the same round, and the next round starts at the
   top, which resets it. It uses `WakeupInv` for the round between.
4. `CallInv`: every written entry of the table is the one its handle was given
   for. `Retained` is the only action that can disturb it, and it only
   forgets.
5. `BoxStep` maps each step: `PostSend` that finds room is `Accept`, `PollTake` is
   `Deliver`, the return of the handler (or an event nobody handles) is `Finish`,
   everything else stutters.

`PumpUsersProofs` of `EspEvents`, for every number of senders, events and messages and every length
of the queue and the boxes:

| theorem | property |
|---|---|
| `EspTypeCorrect` | `EspTypeOK` |
| `EventsNotStranded` | `NoStrandedEvent` |

With the types `NoStrandedEvent` is inductive: between its two calls a sender is
itself the wake-up; its post leaves a message in the box, or finds the box full with
one of ours in it or the handler at work, or sets `crowdedOut`. The step that needs
work is the delivery (`DeliverWakes`): taking the head of the medium box either
starts the handler or leaves our message behind. The proof uses of the constants
that `None` is no message in hand, that `EspPrio` is a priority and that both kinds of
messages can be posted.

`RingBufProofs`, for every size of the ring, set of message lengths and length of the
queue:

| theorem | property |
|---|---|
| `RingTypeCorrect` | `TypeOK` |
| `NeverReadsAhead` | `ReadsWhatWasPut` |
| `RingKeepsBlocks` | `RingHolds` |

Neither property is inductive. `IInv` adds what the two program counters imply about the
bytes left (`Places`); that the queued lengths lie one behind the other, each within what
has been written (`Announced`), from which alone reads follow writes, torn counter or
not (`ReaderHasBlock`); and, until the counter is torn, that `fill_cnt` is the distance
of writer and reader up to the byte each has counted and not moved (`CountOK`,
`Bounded`), that the positions are that distance apart around the ring (`PositionsOK`),
and that the places between them hold their blocks (`Contents`). The last one
needs the middle two: a store hits place `p_w`, which is outside the part that must be
kept only because the distance is bounded.

`UartConsoleProofs`, for every size of the ring and of the line:

| theorem | property |
|---|---|
| `ConsoleInvariant` | the inductive invariant |
| `ConsoleTypeCorrect` | `TypeOK` |
| `RingLosesNothing` | `RingKeepsAll` |
| `LineStaysInside` | `StaysInside` |
| `LineIsTyped` | `LineIsWhatWasTyped` |
| `PairsAnswered` | `PairsAnsweredOnce` |

The ring part counts: as many characters are unread as lie between the positions, plus
those of the present read that are not stored yet, and never more than `RX_BUFF_SIZE`,
because the task reads only when the ring is empty (`Counted`); the i-th unread one is at
the i-th place from `rpos` on (`Queued`). `RingIsStored` carries this from places to the
remainders in which `RingKeepsAll` is written. The line part is that the last place of
`line_buffer` always holds a Nul (`LineOK`): a line that `node.input` feeds is therefore at
most one short of the buffer, and what `readline` adds behind it stays inside unless
something was fed into the line being typed. That the text of a line ends with its first
Nul (`TextOfLine`) uses the well-foundedness of the numbers.

`LineIsWhatWasTyped` looks at one moment, the start of a job; `Typing` is what holds before it:
as long as nothing is fed and `lua_main` is not clearing, `line_buffer` up to its position is what an editor makes of the
characters since the last clearing (`Shows`); a Nul stands at the position (`Ended`) except
behind a letter of a line that was begun over; and behind the position there are only Nuls
until a line is discarded (`Clean`), which is what makes `Ended` hold after the next letter.
While `lua_main` clears, a character that is taken marks its line as `crossed`, and nothing is
claimed of that line. `Boot` says what the steps of `lua_main` do to a line nobody types
meanwhile: no line waits to be run, and behind the memset there are only Nuls, so that `Typing`
holds again when it ends.
`PairsAnsweredOnce` needs that `last_nl_char` is the line end that still waits for its other
half (`Paired`). `Edited` and `EndsPair` are recursive functions over what was typed; that they
exist and what one more character does to them (`EditedAppend`, `EndsPairAppend`) is proved
once from a chain of values (`ChainExists`) and the smallest place of disagreement (`Agree`).
The assumptions about the constants say that letters, line ends, the erasing character and
Nul differ.

`FtpSessionProofs`, for every number of names, blocks, connections and lines:

| theorem | property |
|---|---|
| `FtpTypeCorrect` | `TypeOK` |
| `TransfersEndWithSessions` | `TransferWithinSession` |
| `SuccessesAreWhole` | `SuccessIsWhole` |
| `RenamesAreNamed` | `RenamesTheNamed` |

`RenamesTheNamed` is inductive with the types; `TransferWithinSession` needs that an open data
connection belongs to a transfer (`DataOfTransfer`).
`SuccessIsWhole` speaks of the moment a success is reported and needs to know the
transfer before that: `Retrieving` (the open file is still the one owed, and the
position in it is what was moved or lost) and `Storing` (all that arrived so far was written or
lost), both as long as `blame` is empty. That every command that takes the file, the
connection or the buffer away either aborts the transfer or adds to `blame` is the
content of the proof (`AbortSound`, `BlamedSound`, `UntouchedSound`).

`PumpUsersProofs` of `NetSocket`, for every number of sockets, control blocks, addresses and priorities and
every length of the boxes:

| theorem | property |
|---|---|
| `NetInvariant` | the inductive invariant |
| `NetTypeCorrect` | `NetTypeOK` |
| `QueriesAccounted` | `WaitsAccounted` |
| `ResolvingPinned` | `ResolvingStaysPinned` |
| `ConnectedPinned` | `ConnectedIsPinned` |
| `NewsForPinned` | `NewsOnlyForPinned` |

`WaitsAccounted` counts: `wait_dns` is the number of open queries, of answers in the box and
of answers lost to a full box, so an answer that arrives moves one from the first to the
second and its handler takes it out of both (`FoundCount` and the lemmas behind it say what
adding and taking an event does to the count). A counter above zero keeps the pin
(`WaitsPinned`), because every place that drops it looks at the counter first; what is
pinned, or handed to the callback at work, is not collected (`AliveOK`).
`ConnectedIsPinned` is not inductive even with these: the handler of an error event drops the
pin, and the socket may have a new control block by the time it runs. `ErrorsOvertaken` says
why that does no harm: a socket that has a control block while an error of it is queued has
got it from a query, and that query is still open or its answer lies *behind* the error in
the box (`OpenBehind`), so the counter is not zero when the error is handled. Every action
that queues, delivers or finishes an event must preserve that order.

`MqttClientProofs`, for every number of Lua tasks, messages and faults, every assignment of
lengths to messages and every size of the buffer, the ring and the length queue:

| theorem | property |
|---|---|
| `MqttInvariant` | the inductive invariant |
| `MqttTypeCorrect` | `TypeOK` |
| `SocketsBalanced` | `SocketsAccounted` |
| `RingBalanced` | `RingAccounted` |
| `WholePackets` | `PacketsWhole` |
| `OrderedPackets` | `PacketsInOrder` |

Three layers, for three degrees of damage:

1. `TypeInv` holds whatever happened: the types, that no message id is ahead of the messages
   built, and what the program counter of the sending task says of the bytes left.
2. `FramedInv` holds while no length was lost or read late and no sending task was deleted
   within a message: at most one writer is at work and its length is still that of its message
   (`WritersOK`), which makes `RingAccounted` inductive. Each step moves a byte, or a whole
   length, from one term of the balance to another (`NextBalance`). The sum over the queue
   is a recursive function; what it is for an empty queue, one more length and one less
   (`TotalEmpty`, `TotalAppend`, `TotalTail`) is proved from the smallest place at which two
   candidates would differ.
3. `UnhurtInv` holds while moreover no two tasks used `out_buffer` at once, and is what the
   last two theorems need. Neither `PacketsWhole` nor `PacketsInOrder` says anything of the
   ring, so the invariant has to: `StreamOK` says that there are a message in hand, one message
   per queued length and a place in the ring where each begins, such that buffer, ring, queue
   and writer hold exactly the parts of these (`InHand`, `Queued`, `Copied`) and their
   numbers grow from what was sent to what is built last (`Ordered`). Each step that
   changes one of them has a lemma that names the new layout (`StreamBegin`, `StreamByte`,
   `StreamEnqueue`, `StreamReceive`, `StreamRead`, `StreamSend`). A sending task that is
   deleted between messages leaves the layout as it is, which is why the order survives
   reconnections.

`EspconnTcpProofs`, for every number of connections, set of packet lengths, size of lwIP's
send buffer and queue, and length of the event queue:

| theorem | property |
|---|---|
| `EspconnInvariant` | the inductive invariant |
| `EspconnTypes` | `TypeOK` |
| `EspconnListedWhileNamed` | `ListedWhileNamed` |
| `EspconnFlagAwaits` | `FlagAwaits` |
| `EspconnAcksAccounted` | `AcksAccounted` |

`IInv` has three parts besides the types, each as long as nothing in `blame` excuses the node.

* `Control`: no connection lives on a node that is not listed (`Lives`); an event of the end of a
  connection is queued only once the connection has ended, and no other event of that
  node is behind it (`Announced`). `espconn_Task` therefore frees a node once, and what
  it finds next is another node's. `Finishing` says the same of the loop of
  `espconn_tcp_finish`.
* `Packets`: the packets that wait lie one behind the other (`InOrder`). `ptail` is at the one
  in which the unwritten bytes begin, or at the last one if all are written, and the
  last byte of that packet is not acknowledged yet (`Kept`). A packet is freed when its
  last byte is credited; `Credits` says that no more is credited than was acknowledged,
  so the packet at `ptail` is never the one freed.
* `Flags`: the packet that a send hands over is still to be written, unless a callback came between
  (`Handed`), and `write_flag` is down only while bytes are to be written and others are
  under way (`Flagged`).

`AcksAccounted` wants equality where `Credits` has an inequality, which `Exact` adds: what is credited
stays below `TotLens` until `blame` says "wrapped". Nothing is assumed of the sizes: a packet of almost
64 KB, which `espconn_sent` takes, is among them.

`DhcpServerProofs`, for every number of stations, size of the pool and of a segment, range, lease
time and number of stations allowed:

| theorem | property |
|---|---|
| `DhcpInvariant` | the inductive invariant |
| `DhcpTypes` | `DhcpTypeOK` |
| `DhcpPoolExact` | `PoolExact` |
| `DhcpInUseIsLeased` | `InUseIsLeased` |

`Inv` adds three things to the properties: the range lies in one segment (`RangeOK`); nothing
spilled, the list is in the order of `Less` and all of it are addresses (`Ordered`); and nothing
moved or spilled while the server runs, the address to be tried next is in the range, as are all
leases (`Cursor`). The order of the addresses comes first: within a segment it is that of the
numbers (`SegmentOrder`), across segments it is not, and addresses that overflow the last segment
may even have equal ranks, so that `LessTotal` is about addresses only.

The search is what the proof is about. It carries two addresses past the nodes, and what holds of
each at one node holds at the next (`Upwards`): the first, as long as it has not left the segment
it began in, is no address the search has passed (`WalkPlusFree`); the second, as long as it is in
the segment of the range, is behind all of them, or was passed over and lies before the last
(`WalkFirst`). So what a station is given nobody has (`ChosenFresh`), and
`node_insert_to_list` keeps the order (`InsertedList`). That a refusal means a full range needs the
second address again: all before it are leased (`WalkWhole`), at most the range is. A list
that loses a node or has its timers changed is a thinned one (`Thins`), and keeps order, range and
stations (`ThinnedList`); `AgedFacts` says that a lease whose minutes are not over is still there
a minute later.

The attempt to prove `PoolExact` showed that an earlier form of it was false for larger
instances than the run's: it had called a lease spilled only when it was *given* outside
the segment of the range. When the range is moved to another segment under a running server, the
search begins in the old segment, may come out in the new one, and has not compared what it finds
there with the leases it passed; an address is then leased twice. `LeavesSegment` now names where
the search began as well.

### Only model-checked

Liveness (`HighServed`, `QueueDrains`, `PinReleased`, `RingDrains`,
`ClosedIsRedialled`, `NeitherSpins`, `Forgotten`, `GoneIsForgotten`, the liveness half
of `ImplementsMailbox`) is outside what the prover supports: `ENABLED`, on which fairness
rests, has no backend. `ConnectSucceeded` is false. Every invariant that a passing run checks is
a theorem.

## 5. Where the code disagrees with its documentation

With a run:

* `espmqtt/mqtt.c:79`: `mqtt_connect` is to "return 1: success, 0: fail". If the
  broker closes the connection before answering, `read` returns 0, and an old
  CONNACK in `in_buffer` passes for the answer (`mqtt_connack`).

Visible in the code, without a run:

* `main/app_main.c:62`: "If the task_post() fails, it only means the event gets
  delayed". If the medium queue is full of network messages at that post, and no
  further system event comes, the event is never handled. `NoStrandedEvent` has this
  case as `crowdedOut`.
* `lua_samples/net/net_tcp_server.lua:11` gives `listen` a function to be called
  with each new connection. `post_net_accept` (`net.c:333`) posts the connection as
  `SENTDATA`, so the function is never called.
* `modules/net.c:200` says of the control block that `net_err_cb` forgets "Will be
  freed at LWIP level". The callback takes every error for one of the current control
  block. After the peer has closed and Lua has connected again, a reset of the old
  connection makes the socket forget the new one, which lives on.
* `modules/net.c:494` documents `client:connect(port, addr)`. The first answer of any
  query connects the control block the socket has by then, so that a socket closed
  while it resolves and connected elsewhere goes to the first address.
* `modules/mqtt.c:386` documents a `disconnect` callback that the client never calls,
  `modules/mqtt.c:353` an `mqtt.unsubscribe` whose message is built and never queued,
  and `lua_samples/net/net_tcp_client.lua:9` a receive callback given the socket, which
  is given nil when the data was queued before `net_close`.

The passing runs state what the code does, so some of their properties name a condition
under which a user of the code would not expect it to matter. The ones to know:

* `ListedWhileNamed`: a node is freed under an event or freed twice after `espconn_abort` (the error
  callback tells the task too), after `espconn_sent` or `espconn_tcp_finish` wrote over the state
  that keeps a closed connection from being closed again, and after a second
  `espconn_disconnect` through the listening `espconn`, which nothing refuses; and under
  `espconn_tcp_finish` after a disconnect from `sent_callback`. These are calls the interface allows.
* `AcksAccounted`: `tot_len` is what malloc left, and wraps near 64 KB; either makes `sent_callback`
  come early, late or never. So may a callback between the steps of a send: the packet it
  has written and credited is then freed once more, or counted with another.
* `FlagAwaits`: `write_flag` stays down for good, and every later send is refused, if a callback writes
  the new packet before `espconn_sent` lowers the flag (espconn.c:477-480), if a write fails
  after all that was under way has been acknowledged, or if the copy option is cleared meanwhile.
* `Forgotten`: a connection whose event found the queue of `espconn_Task` full (it holds
  100 in the code) stays in the list for good.
* `RingHolds`: two cores that update `fill_cnt` at once tear it, after which bytes are
  overwritten or the writer waits for ever.
* `LineIsWhatWasTyped`, `StaysInside`: `node.input` writes over a line being typed and,
  behind a discarded line, past the end of `line_buffer`. And `lua_main` clears the line that is
  being typed when it comes to it, in three steps without a lock (lua.c:523-525): a letter between
  the reset of the position and the memset leaves the position behind a Nul, so that Lua is given an
  empty line though letters follow; other orders give it any part of the line, or leave the position at
  -1 until the next job. The property says nothing of that one line (`crossed`); it does say that no
  rest of it reaches the next one. Nor does a line end count as typed: what follows it in the same
  read joins the line before it (566), and the property calls the joined line the one that was typed.
* `PoolExact`: a range that ends with the last octet of its segment makes the search go on in
  the next one, and a search that begins in another segment than that of the range may
  lease an address twice. `DHCP_STARTED` is 0xFF, which is no answer of `wifi_softap_dhcps_status`, so the
  check that keeps the range of a running server from being changed never does.
* `InUseIsLeased`: `kill_oldest_dhcps_pool` ends a live lease every minute once
  `MAX_STATION_NUM` are out, and never the first of the list. And a lease of `DHCPS_LEASE_TIMER`
  minutes is one of as many ticks, the first of which may follow at once: in the last minute that
  a station was told (dhcpserver.c:165-170) its address may be another's (1082). The
  property promises the minutes before that one (`Sure`).
* `SuccessIsWhole`: the FTP server reports a success whatever became of the blocks. A write that
  moved less than its block, to a receiver that is slow or gone or to a card that is full, loses that
  much without a trace (722, 738; `lost`); a read error of the card ends a RETR as the end of the file
  does (719); and a command may take the file, the connection or the entry of the card. The property
  says that nothing else is missing, not that a success is one.

## 6. Plan

Done: the pump, events, sockets, the MQTT client, the ring, the console, `espconn`, the DHCP
server and the FTP server, each with proofs of every invariant its runs check. Left:

* `MqttFraming`: header arithmetic of `mqtt_msg.c` against a reference definition,
  and reassembly of long PUBLISHes.

## 7. Not modelled

`PROJECT.json` gives the reason for each component. In short:

* **Lua MQTT handles**: a handle adds nothing that several steps share but the client that
  `mqtt_destroy` frees under its own tasks, which nothing guards; there is no behaviour to
  model after that.
* **`easy_mem`**: only an example that is not part of the firmware calls it.
* **Lua timers**: one queue from an interrupt to a task, with an alarm path that is in part
  never enabled.
* **espconn datagrams, ping**: straight to lwIP, behind one callback.
* **platform, file system, other Lua modules**: argument checks and one driver call each.
* **sketches**: a `setup` and a `loop` around a library; the app controller is one loop without
  a second party, the interrupt and timer examples a counter each.
* **third-party code**: the Lua VM, lpeg, SPIFFS, FreeRTOS, lwIP, TLS and JSON appear only as
  their callers see them. `LuaNode_Esp8266` is an older port of the same firmware with many of
  them beside it. They are by far the most of the lines under `src/`, which is why the
  modules stand for a small share of those.
