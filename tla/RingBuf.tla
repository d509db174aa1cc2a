------------------------------- MODULE RingBuf -------------------------------
(***************************************************************************)
(* The ring buffer of the LuaNode32 firmware, components/espmqtt/ringbuf.c, *)
(* as the MQTT client uses it: one task writes a message into it block by  *)
(* block and then announces its length on xSendingQueue; the sending task  *)
(* takes a length and reads as many blocks.  The tasks run on two cores    *)
(* and share fill_cnt without a lock: += and -= load it, and store it in a *)
(* later step.  MqttClient looks at the tasks and takes the ring for a     *)
(* sequence; this module looks inside the ring.                            *)
(*                                                                         *)
(* The k-th block written has the value k.  A block moves in one step and  *)
(* sizes are counted in blocks, which the client makes one byte long.      *)
(***************************************************************************)
EXTENDS Integers, Sequences

CONSTANTS
  size,      (* the blocks of the ring                                     *)
  MaxLen,    (* the longest message                                        *)
  QueueLen,  (* the length of xSendingQueue                                *)
  MaxPut     (* bound: blocks written                                      *)

ASSUME RingAssumption ==
  /\ size \in Nat /\ size > 1
  /\ MaxLen \in Nat \ {0} /\ QueueLen \in Nat \ {0} /\ MaxPut \in Nat

Slot == 0 .. size - 1

VARIABLES
  fill_cnt,           (* the number of filled blocks, shared               *)
  p_w, p_r, buf,      (* the two positions and the memory                  *)
  ppc, preg, pleft, plen, (* the writer: its place, the fill_cnt it loaded, *)
                      (* blocks still to write, the length of the message  *)
  cpc, creg, cleft,   (* the reader                                        *)
  queue,              (* xSendingQueue; upto is a history: put, when sent  *)
  put, got,           (* history: blocks written and read                  *)
  last,               (* history: the block read last                      *)
  torn,               (* history: a store of fill_cnt undid the other one  *)
  dropped             (* history: a length found the queue full            *)

writerVars == <<p_w, buf, ppc, preg, pleft, plen, put>>
readerVars == <<p_r, cpc, creg, cleft, got, last>>
vars == <<fill_cnt, writerVars, readerVars, queue, torn, dropped>>

Init ==
  /\ fill_cnt = 0
  /\ p_w = 0 /\ p_r = 0 /\ buf = [s \in Slot |-> 0]
  /\ ppc = "idle" /\ preg = 0 /\ pleft = 0 /\ plen = 0
  /\ cpc = "wait" /\ creg = 0 /\ cleft = 0
  /\ queue = <<>>
  /\ put = 0 /\ got = 0 /\ last = 0
  /\ torn = FALSE /\ dropped = FALSE

Wrap(p) == IF p + 1 >= size THEN 0 ELSE p + 1

-----------------------------------------------------------------------------
(* rb_write of a message.                                                  *)

WriteBegin(n) ==
  /\ ppc = "idle"
  /\ put + n <= MaxPut
  /\ ppc' = "check"
  /\ pleft' = n
  /\ plen' = n
  /\ UNCHANGED <<fill_cnt, p_w, buf, preg, put, readerVars, queue, torn, dropped>>

(* Mutant: a full ring is taken for one with room.                         *)
HasRoomLate(n) == n <= size

HasRoom(n) == n < size

(* rb_put finds room; while it does not, rb_write calls it again.          *)
PutCheck ==
  /\ ppc = "check"
  /\ HasRoom(fill_cnt)
  /\ ppc' = "load"
  /\ UNCHANGED <<fill_cnt, p_w, buf, preg, pleft, plen, put, readerVars, queue, torn, dropped>>

PutLoad ==
  /\ ppc = "load"
  /\ preg' = fill_cnt
  /\ ppc' = "raise"
  /\ UNCHANGED <<fill_cnt, p_w, buf, pleft, plen, put, readerVars, queue, torn, dropped>>

PutRaise ==
  /\ ppc = "raise"
  /\ fill_cnt' = preg + 1
  /\ torn' = (torn \/ fill_cnt # preg)
  /\ ppc' = "store"
  /\ UNCHANGED <<p_w, buf, preg, pleft, plen, put, readerVars, queue, dropped>>

(* The block is stored after it was counted.                               *)
PutStore ==
  /\ ppc = "store"
  /\ buf' = [buf EXCEPT ![p_w] = put + 1]
  /\ put' = put + 1
  /\ p_w' = Wrap(p_w)
  /\ pleft' = pleft - 1
  /\ ppc' = IF pleft = 1 THEN "announce" ELSE "check"
  /\ UNCHANGED <<fill_cnt, preg, plen, readerVars, queue, torn, dropped>>

(* mqtt_queue: the length follows the blocks, and is lost when the queue is *)
(* full.                                                                   *)
Announce ==
  /\ ppc = "announce"
  /\ ppc' = "idle"
  /\ IF Len(queue) < QueueLen
     THEN queue' = Append(queue, [len |-> plen, upto |-> put]) /\ UNCHANGED dropped
     ELSE dropped' = TRUE /\ UNCHANGED queue
  /\ UNCHANGED <<fill_cnt, p_w, buf, preg, pleft, plen, put, readerVars, torn>>

-----------------------------------------------------------------------------
(* The sending task: a length, and rb_read of as many blocks.              *)

(* Mutant: one block more than the length is read.                         *)
ToReadMore(n) == n + 1

ToRead(n) == n

ReceiveLength ==
  /\ cpc = "wait"
  /\ queue # <<>>
  /\ queue' = Tail(queue)
  /\ cleft' = ToRead(Head(queue).len)
  /\ cpc' = "check"
  /\ UNCHANGED <<fill_cnt, writerVars, p_r, creg, got, last, torn, dropped>>

(* rb_get finds something; while it does not, rb_read calls it again.      *)
GetCheck ==
  /\ cpc = "check"
  /\ fill_cnt > 0
  /\ cpc' = "load"
  /\ UNCHANGED <<fill_cnt, writerVars, p_r, creg, cleft, got, last, queue, torn, dropped>>

GetLoad ==
  /\ cpc = "load"
  /\ creg' = fill_cnt
  /\ cpc' = "lower"
  /\ UNCHANGED <<fill_cnt, writerVars, p_r, cleft, got, last, queue, torn, dropped>>

GetLower ==
  /\ cpc = "lower"
  /\ fill_cnt' = creg - 1
  /\ torn' = (torn \/ fill_cnt # creg)
  /\ cpc' = "take"
  /\ UNCHANGED <<writerVars, p_r, creg, cleft, got, last, queue, dropped>>

(* The block is taken after its place was given back.                      *)
GetTake ==
  /\ cpc = "take"
  /\ last' = buf[p_r]
  /\ got' = got + 1
  /\ p_r' = Wrap(p_r)
  /\ cleft' = cleft - 1
  /\ cpc' = IF cleft = 1 THEN "wait" ELSE "check"
  /\ UNCHANGED <<fill_cnt, writerVars, creg, queue, torn, dropped>>

-----------------------------------------------------------------------------
RbPut == PutCheck \/ PutLoad \/ PutRaise \/ PutStore
RbGet == GetCheck \/ GetLoad \/ GetLower \/ GetTake
Writing == RbPut \/ Announce
Reading == ReceiveLength \/ RbGet
Next == (\E n \in 1 .. MaxLen : WriteBegin(n)) \/ Writing \/ Reading

Spec == Init /\ [][Next]_vars

(* Both tasks keep running: a task that spins in rb_write or rb_read does   *)
(* not keep the other one from its core.                                   *)
FairSpec == Spec /\ WF_vars(Writing) /\ WF_vars(Reading)

-----------------------------------------------------------------------------
TypeOK ==
  /\ fill_cnt \in Int /\ preg \in Int /\ creg \in Int
  /\ p_w \in Slot /\ p_r \in Slot /\ buf \in [Slot -> Nat]
  /\ ppc \in {"idle", "check", "load", "raise", "store", "announce"}
  /\ cpc \in {"wait", "check", "load", "lower", "take"}
  /\ pleft \in 0 .. MaxLen /\ plen \in 0 .. MaxLen /\ cleft \in 0 .. MaxLen
  /\ queue \in Seq([len : 1 .. MaxLen, upto : Nat])
  /\ put \in Nat /\ got \in Nat /\ last \in Nat
  /\ torn \in BOOLEAN /\ dropped \in BOOLEAN

(* The sending task never takes a block that was not written yet, whatever *)
(* has become of fill_cnt: a length comes after its blocks.  The counter   *)
(* alone would not keep it, for it is raised before the block is there.    *)
ReadsWhatWasPut == cpc # "wait" => got < put

Counted == IF ppc = "store" THEN 1 ELSE 0
Given == IF cpc = "take" THEN 1 ELSE 0

(* Until a store undoes another one, fill_cnt is the number of blocks in   *)
(* the ring, but for the one that is being stored and the one being taken. *)
FillAccounted == ~torn => fill_cnt = put - got + Counted - Given

(* The place of block k, for a k that the ring still may hold.             *)
Place(k) == IF p_r + (k - got) - 1 < size THEN p_r + (k - got) - 1
            ELSE p_r + (k - got) - 1 - size

(* Until then the ring holds what was written and not read, in order: all  *)
(* of it, or, when the writer took the place that rb_get has given back and *)
(* not yet read, all but that one block.                                   *)
RingHolds ==
  /\ FillAccounted
  /\ ~torn => put - got <= size + Given
  /\ ~torn => \A k \in got + 1 .. put : k > put - size => buf[Place(k)] = k

(* Unless stores of fill_cnt collide or a length was dropped, both tasks   *)
(* come to the end of every message: neither spins for ever on the ring.   *)
NeitherSpins == []<>(torn \/ dropped \/ cpc = "wait") /\ []<>(torn \/ dropped \/ ppc = "idle")

=============================================================================
