--------------------------- MODULE RingBufProofs ----------------------------
(***************************************************************************)
(* What RingBuf keeps for every size of the ring, length of the messages   *)
(* and of the queue: the sending task reads only what was written, always; *)
(* and until two stores of fill_cnt collide the ring holds its blocks in   *)
(* order.  The inductive invariant has a part about the announced lengths, *)
(* one about the counter and one about the positions.                      *)
(***************************************************************************)
EXTENDS RingBuf, SequenceTheorems, TLAPS

(* The blocks written when the message under way began.                    *)
Base == IF ppc = "idle" THEN put ELSE put - (plen - pleft)

(* Where the two tasks are, and what they still have to do.                *)
Places ==
  /\ ppc \in {"check", "load", "raise", "store"} => pleft >= 1
  /\ ppc = "announce" => pleft = 0
  /\ ppc # "idle" => plen >= 1 /\ pleft <= plen
  /\ cpc # "wait" => cleft >= 1
  /\ cpc = "wait" => cleft = 0

(* Every announced block was written, and is announced once: the reader    *)
(* and the lengths in the queue follow each other without overlap.         *)
Announced ==
  /\ got + cleft <= Base
  /\ \A i \in 1 .. Len(queue) :
       /\ queue[i].upto <= Base
       /\ got + cleft + queue[i].len <= queue[i].upto
  /\ \A i, j \in 1 .. Len(queue) : i < j => queue[i].upto + queue[j].len <= queue[j].upto

(* The counter, and what the writer has made sure of.                      *)
CountOK ==
  ~torn =>
    /\ fill_cnt = put - got + Counted - Given
    /\ fill_cnt <= size
    /\ ppc \in {"load", "raise"} => fill_cnt < size

(* The positions are as far apart as the blocks, around the ring; the      *)
(* writer may be one block more than a round ahead.                        *)
PositionsOK ==
  ~torn =>
    \/ p_w = p_r + (put - got)
    \/ p_w = p_r + (put - got) - size
    \/ p_w = p_r + (put - got) - size - size

Contents == ~torn => \A k \in got + 1 .. put : k > put - size => buf[Place(k)] = k

Bounded == ~torn => put - got <= size + Given

IInv == TypeOK /\ Places /\ Announced /\ CountOK /\ Bounded /\ PositionsOK /\ Contents

-----------------------------------------------------------------------------
Entry == [len : 1 .. MaxLen, upto : Nat]

(* What the queue holds are lengths with their marks.                      *)
LEMMA Entries ==
  ASSUME TypeOK
  PROVE \A i \in 1 .. Len(queue) : queue[i].len \in 1 .. MaxLen /\ queue[i].upto \in Nat
<1>1. queue \in Seq(Entry)
  BY DEF TypeOK, Entry
<1>2. \A i \in 1 .. Len(queue) : queue[i] \in Entry
  BY <1>1, ElementOfSeq
<1> QED BY <1>2 DEF Entry

(* What a length that leaves the queue leaves behind.                      *)
LEMMA Leaves ==
  ASSUME TypeOK, queue # <<>>
  PROVE /\ Tail(queue) \in Seq(Entry)
        /\ Head(queue) = queue[1] /\ Len(queue) \in Nat \ {0}
        /\ Len(Tail(queue)) = Len(queue) - 1
        /\ \A i \in 1 .. Len(Tail(queue)) : Tail(queue)[i] = queue[i + 1]
        /\ queue[1].len \in 1 .. MaxLen
<1>1. queue \in Seq(Entry)
  BY DEF TypeOK, Entry
<1>2. /\ Head(queue) = queue[1]
      /\ Tail(queue) \in Seq(Entry)
      /\ Len(Tail(queue)) = Len(queue) - 1
      /\ \A i \in 1 .. Len(Tail(queue)) : Tail(queue)[i] = queue[i + 1]
  BY <1>1, HeadTailProperties
<1>3. Len(queue) \in Nat \ {0}
  BY <1>1, LenProperties, EmptySeq
<1>4. queue[1].len \in 1 .. MaxLen
  BY <1>3, Entries
<1> QED BY <1>2, <1>3, <1>4

(* What a length that joins the queue adds.                                *)
LEMMA Joins ==
  ASSUME TypeOK, NEW e \in Entry
  PROVE /\ Append(queue, e) \in Seq(Entry)
        /\ Len(queue) \in Nat /\ Len(Append(queue, e)) = Len(queue) + 1
        /\ \A i \in 1 .. Len(queue) : Append(queue, e)[i] = queue[i]
        /\ Append(queue, e)[Len(queue) + 1] = e
<1>1. queue \in Seq(Entry)
  BY DEF TypeOK, Entry
<1> QED BY <1>1, AppendProperties, LenProperties

(* The invariant holds of an empty ring.                                   *)
LEMMA InitIInv == Init => IInv
  BY RingAssumption DEF Init, IInv, TypeOK, Places, Announced, Base, CountOK, Bounded,
    PositionsOK, Contents, Counted, Given, Slot

(* Every step keeps the types.                                             *)
LEMMA NextTypeOK == ASSUME TypeOK, Places, Next PROVE TypeOK'
<1> USE RingAssumption DEF TypeOK, Places, Slot
<1>1. ASSUME NEW n \in 1 .. MaxLen, WriteBegin(n) PROVE TypeOK'
  BY <1>1 DEF WriteBegin, readerVars
<1>2. CASE PutCheck
  BY <1>2 DEF PutCheck, readerVars
<1>3. CASE PutLoad
  BY <1>3 DEF PutLoad, readerVars
<1>4. CASE PutRaise
  BY <1>4 DEF PutRaise, readerVars
<1>5. CASE PutStore
  BY <1>5 DEF PutStore, readerVars, Wrap
<1>6. CASE Announce
  <2>1. [len |-> plen, upto |-> put] \in Entry
    BY <1>6 DEF Announce, Entry
  <2>2. queue \in Seq(Entry) /\ Append(queue, [len |-> plen, upto |-> put]) \in Seq(Entry)
    BY <2>1, Joins DEF Entry
  <2>3. queue' \in Seq(Entry)
    BY <1>6, <2>2 DEF Announce
  <2> QED BY <1>6, <2>3 DEF Announce, readerVars, Entry
<1>7. CASE ReceiveLength
  <2>1. queue' \in Seq(Entry) /\ Head(queue).len \in 1 .. MaxLen
    BY <1>7, Leaves DEF ReceiveLength
  <2> QED BY <1>7, <2>1 DEF ReceiveLength, writerVars, ToRead, Entry
<1>8. CASE GetCheck
  BY <1>8 DEF GetCheck, writerVars
<1>9. CASE GetLoad
  BY <1>9 DEF GetLoad, writerVars
<1>10. CASE GetLower
  BY <1>10 DEF GetLower, writerVars
<1>11. CASE GetTake
  BY <1>11 DEF GetTake, writerVars, Wrap
<1> QED
  BY <1>1, <1>2, <1>3, <1>4, <1>5, <1>6, <1>7, <1>8, <1>9, <1>10, <1>11
  DEF Next, Writing, Reading, RbPut, RbGet

(* Every step keeps the tasks' places.                                     *)
LEMMA NextPlaces == ASSUME TypeOK, Places, Next PROVE Places'
<1> USE RingAssumption DEF TypeOK, Places
<1>1. ASSUME NEW n \in 1 .. MaxLen, WriteBegin(n) PROVE Places'
  BY <1>1 DEF WriteBegin, readerVars
<1>2. CASE RbPut
  BY <1>2 DEF RbPut, PutCheck, PutLoad, PutRaise, PutStore, readerVars
<1>3. CASE Announce
  BY <1>3 DEF Announce, readerVars
<1>4. CASE ReceiveLength
  <2>1. Head(queue).len \in 1 .. MaxLen
    BY <1>4, Leaves DEF ReceiveLength
  <2> QED BY <1>4, <2>1 DEF ReceiveLength, writerVars, ToRead
<1>5. CASE RbGet
  BY <1>5 DEF RbGet, GetCheck, GetLoad, GetLower, GetTake, writerVars
<1> QED
  BY <1>1, <1>2, <1>3, <1>4, <1>5 DEF Next, Writing, Reading

(* Every step keeps the announced lengths apart: the queue changes only    *)
(* when a length joins it at the end or leaves it at the front.            *)
LEMMA NextAnnounced == ASSUME TypeOK, Places, Announced, Next PROVE Announced'
<1>1. /\ put \in Nat /\ got \in Nat /\ plen \in Nat /\ pleft \in Nat /\ cleft \in Nat
      /\ put - (plen - pleft) \in Int
  BY RingAssumption DEF TypeOK
<1>2. Base \in Int
  BY <1>1 DEF Base
<1>3. ASSUME UNCHANGED <<queue, Base>>, got' + cleft' = got + cleft PROVE Announced'
  BY <1>3 DEF Announced
<1>4. ASSUME NEW n \in 1 .. MaxLen, WriteBegin(n) PROVE Announced'
  <2>1. Base' = Base
    BY <1>1, <1>4 DEF WriteBegin, Base
  <2> QED BY <1>3, <1>4, <2>1 DEF WriteBegin, readerVars
<1>5. CASE RbPut
  <2>1. Base' = Base
    BY <1>1, <1>5 DEF RbPut, PutCheck, PutLoad, PutRaise, PutStore, Base
  <2> QED BY <1>3, <1>5, <2>1 DEF RbPut, PutCheck, PutLoad, PutRaise, PutStore, readerVars
<1>6. CASE Announce
  <2> DEFINE e == [len |-> plen, upto |-> put]
  <2>1. /\ pleft = 0 /\ Base = put - plen /\ Base' = put /\ got' = got /\ cleft' = cleft
        /\ plen \in 1 .. MaxLen
    BY <1>1, <1>6 DEF Announce, readerVars, Base, Places, TypeOK
  <2>2. e \in Entry /\ e.len = plen /\ e.upto = put
    BY <1>1, <2>1 DEF Entry
  <2>3. CASE queue' = queue
    BY <1>1, <2>1, <2>3, Entries DEF Announced
  <2>4. CASE queue' = Append(queue, e)
    <3>1. /\ Len(queue) \in Nat /\ Len(queue') = Len(queue) + 1
          /\ \A i \in 1 .. Len(queue) : queue'[i] = queue[i]
          /\ queue'[Len(queue) + 1] = e
      BY <2>2, <2>4, Joins
    <3>2. ASSUME NEW i \in 1 .. Len(queue')
          PROVE queue'[i].upto <= Base' /\ got' + cleft' + queue'[i].len <= queue'[i].upto
      BY <1>1, <2>1, <2>2, <3>1, Entries DEF Announced
    <3>3. ASSUME NEW i \in 1 .. Len(queue'), NEW j \in 1 .. Len(queue'), i < j
          PROVE queue'[i].upto + queue'[j].len <= queue'[j].upto
      <4>1. CASE j = Len(queue) + 1
        <5>1. i \in 1 .. Len(queue) /\ queue'[i] = queue[i] /\ queue'[j] = e
          BY <3>1, <3>3, <4>1
        <5>2. queue[i].upto <= put - plen /\ queue[i].upto \in Nat
          BY <2>1, <5>1, Entries DEF Announced
        <5> QED BY <1>1, <2>2, <5>1, <5>2
      <4>2. CASE j # Len(queue) + 1
        <5>1. i \in 1 .. Len(queue) /\ j \in 1 .. Len(queue)
          BY <3>1, <3>3, <4>2
        <5>2. queue'[i] = queue[i] /\ queue'[j] = queue[j]
          BY <3>1, <5>1
        <5> QED BY <3>3, <5>1, <5>2 DEF Announced
      <4> QED BY <4>1, <4>2
    <3>4. got' + cleft' <= Base'
      BY <1>1, <2>1 DEF Announced
    <3> QED BY <3>2, <3>3, <3>4 DEF Announced
  <2> QED BY <1>6, <2>3, <2>4 DEF Announce
<1>7. CASE ReceiveLength
  <2>1. /\ Len(queue) \in Nat \ {0} /\ Len(queue') = Len(queue) - 1
        /\ \A i \in 1 .. Len(queue') : queue'[i] = queue[i + 1]
        /\ cleft' = queue[1].len /\ queue[1].len \in 1 .. MaxLen
    BY <1>7, Leaves DEF ReceiveLength, ToRead
  <2>2. cleft = 0 /\ got' = got /\ Base' = Base
    BY <1>7 DEF ReceiveLength, writerVars, Base, Places
  <2>3. got + queue[1].len <= queue[1].upto /\ queue[1].upto <= Base
    BY <1>1, <2>1, <2>2 DEF Announced
  <2>4. ASSUME NEW i \in 1 .. Len(queue')
        PROVE queue'[i].upto <= Base' /\ got' + cleft' + queue'[i].len <= queue'[i].upto
    <3>1. i + 1 \in 1 .. Len(queue) /\ 1 \in 1 .. Len(queue) /\ 1 < i + 1
      BY <2>1
    <3>2. queue[1].upto + queue[i + 1].len <= queue[i + 1].upto /\ queue[i + 1].upto <= Base
      BY <3>1 DEF Announced
    <3>3. /\ queue[1].upto \in Nat /\ queue[i + 1].len \in Nat /\ queue[i + 1].upto \in Nat
          /\ queue[1].len \in Nat
      BY <3>1, Entries
    <3>4. queue'[i] = queue[i + 1]
      BY <2>1
    <3>5. got + queue[1].len + queue[i + 1].len <= queue[i + 1].upto
      <4>1. PICK a \in Nat : a = queue[1].len
        BY <3>3
      <4>2. PICK u \in Nat : u = queue[1].upto
        BY <3>3
      <4>3. PICK b \in Nat : b = queue[i + 1].len
        BY <3>3
      <4>4. PICK v \in Nat : v = queue[i + 1].upto
        BY <3>3
      <4>5. got \in Nat /\ got + a <= u /\ u + b <= v
        BY <1>1, <2>3, <3>2, <4>1, <4>2, <4>3, <4>4
      <4>6. got + a + b <= v
        BY <4>5
      <4> QED BY <4>1, <4>3, <4>4, <4>6
    <3>6. queue'[i].upto <= Base'
      BY <2>2, <3>2, <3>4
    <3>7. got' + cleft' + queue'[i].len <= queue'[i].upto
      BY <2>1, <2>2, <3>4, <3>5
    <3> QED BY <3>6, <3>7
  <2>5. ASSUME NEW i \in 1 .. Len(queue'), NEW j \in 1 .. Len(queue'), i < j
        PROVE queue'[i].upto + queue'[j].len <= queue'[j].upto
    <3>1. i + 1 \in 1 .. Len(queue) /\ j + 1 \in 1 .. Len(queue) /\ i + 1 < j + 1
      BY <2>1, <2>5
    <3> QED BY <2>1, <3>1 DEF Announced
  <2>6. got' + cleft' <= Base'
    BY <1>1, <1>2, <2>1, <2>2, <2>3, Entries
  <2> QED BY <2>4, <2>5, <2>6 DEF Announced
<1>8. CASE RbGet
  <2>1. UNCHANGED <<queue, Base>> /\ got' + cleft' = got + cleft
    BY <1>1, <1>8 DEF RbGet, GetCheck, GetLoad, GetLower, GetTake, writerVars, Base
  <2> QED BY <1>3, <2>1
<1> QED
  BY <1>4, <1>5, <1>6, <1>7, <1>8 DEF Next, Writing, Reading

(* A reader that is not waiting has a block to take.                       *)
LEMMA ReaderHasBlock == ASSUME TypeOK, Places, Announced PROVE ReadsWhatWasPut /\ got <= put
<1>1. put \in Nat /\ got \in Nat /\ plen \in Nat /\ pleft \in Nat /\ cleft \in Nat
  BY RingAssumption DEF TypeOK
<1>2. Base <= put /\ Base \in Int
  BY <1>1 DEF Base, Places, TypeOK
<1>3. got + cleft <= Base
  BY DEF Announced
<1> QED BY <1>1, <1>2, <1>3 DEF ReadsWhatWasPut, Places

(* Every step keeps the count, and the writer within a round and a block.  *)
LEMMA NextCountOK ==
  ASSUME TypeOK, CountOK, Bounded, Next PROVE CountOK' /\ Bounded'
<1> USE RingAssumption DEF TypeOK, CountOK, Bounded, Counted, Given
<1>1. ASSUME NEW n \in 1 .. MaxLen, WriteBegin(n) PROVE CountOK' /\ Bounded'
  BY <1>1 DEF WriteBegin, readerVars
<1>2. CASE PutCheck \/ PutLoad
  BY <1>2 DEF PutCheck, PutLoad, HasRoom, readerVars
<1>3. CASE PutRaise
  <2>1. ~torn' => ~torn /\ fill_cnt = preg
    BY <1>3 DEF PutRaise
  <2>2. /\ ppc = "raise" /\ ppc' = "store" /\ fill_cnt' = preg + 1
        /\ UNCHANGED <<put, got, cpc>>
    BY <1>3 DEF PutRaise, readerVars
  <2> QED BY <2>1, <2>2
<1>4. CASE PutStore
  <2>1. /\ ppc = "store" /\ ppc' \in {"announce", "check"} /\ put' = put + 1
        /\ UNCHANGED <<fill_cnt, got, cpc, torn>>
    BY <1>4 DEF PutStore, readerVars
  <2> QED BY <2>1
<1>5. CASE Announce
  BY <1>5 DEF Announce, readerVars
<1>6. CASE ReceiveLength
  BY <1>6 DEF ReceiveLength, writerVars
<1>7. CASE GetCheck \/ GetLoad
  BY <1>7 DEF GetCheck, GetLoad, writerVars
<1>8. CASE GetLower
  <2>1. ~torn' => ~torn /\ fill_cnt = creg
    BY <1>8 DEF GetLower
  <2>2. /\ cpc = "lower" /\ cpc' = "take" /\ fill_cnt' = creg - 1
        /\ UNCHANGED <<put, got, ppc>>
    BY <1>8 DEF GetLower, writerVars
  <2> QED BY <2>1, <2>2
<1>9. CASE GetTake
  <2>1. /\ cpc = "take" /\ cpc' \in {"wait", "check"} /\ got' = got + 1
        /\ UNCHANGED <<fill_cnt, put, ppc, torn>>
    BY <1>9 DEF GetTake, writerVars
  <2> QED BY <2>1
<1> QED
  BY <1>1, <1>2, <1>3, <1>4, <1>5, <1>6, <1>7, <1>8, <1>9
  DEF Next, Writing, Reading, RbPut, RbGet

(* The steps that touch neither the positions nor the blocks.              *)
LEMMA StillHolds ==
  ASSUME PositionsOK, Contents, torn' \/ ~torn, torn => torn',
         UNCHANGED <<p_w, p_r, buf, put, got>>
  PROVE PositionsOK' /\ Contents'
  BY DEF PositionsOK, Contents, Place

(* Every step keeps the positions and the blocks in their places.          *)
LEMMA NextContents ==
  ASSUME TypeOK, ReadsWhatWasPut, got <= put, CountOK, Bounded, PositionsOK, Contents, Next
  PROVE PositionsOK' /\ Contents'
<1> USE RingAssumption DEF TypeOK, Slot
<1>1. CASE PutStore
  <2>1. /\ p_w' = Wrap(p_w) /\ put' = put + 1 /\ got' = got /\ p_r' = p_r /\ torn' = torn
        /\ buf' = [buf EXCEPT ![p_w] = put + 1]
    BY <1>1 DEF PutStore, readerVars
  <2>2. torn \/ (put - got <= size /\ put - got >= 0)
    BY <1>1 DEF PutStore, CountOK, Counted, Given, ReadsWhatWasPut
  <2>3. PositionsOK'
    BY <2>1, <2>2 DEF PositionsOK, Wrap
  <2>4. ASSUME ~torn PROVE Place(put + 1) = p_w
    BY <2>2, <2>4 DEF PositionsOK, Place
  <2>5. ASSUME ~torn, NEW k \in got + 1 .. put, k > put + 1 - size
        PROVE Place(k) \in Slot /\ Place(k) # p_w
    BY <2>2, <2>5 DEF PositionsOK, Place
  <2>6. \A k \in Int : Place(k)' = Place(k)
    BY <2>1 DEF Place
  <2>7. ASSUME ~torn, NEW k \in got + 1 .. put + 1, k > put + 1 - size
        PROVE buf'[Place(k)] = k
    <3>1. CASE k = put + 1
      BY <2>1, <2>4, <2>7, <3>1
    <3>2. CASE k \in got + 1 .. put
      BY <2>1, <2>5, <2>7, <3>2 DEF Contents
    <3> QED BY <2>7, <3>1, <3>2
  <2>8. Contents'
    BY <2>1, <2>6, <2>7 DEF Contents
  <2> QED BY <2>3, <2>8
<1>2. CASE GetTake
  <2>1. /\ p_r' = Wrap(p_r) /\ got' = got + 1 /\ put' = put /\ p_w' = p_w /\ torn' = torn
        /\ buf' = buf
    BY <1>2 DEF GetTake, writerVars
  <2>2. torn \/ (put - got <= size + 1 /\ put - got >= 1)
    BY <1>2 DEF GetTake, Bounded, Given, ReadsWhatWasPut
  <2>3. PositionsOK'
    BY <2>1, <2>2 DEF PositionsOK, Wrap
  <2>4. ASSUME ~torn, NEW k \in got + 2 .. put PROVE Place(k)' = Place(k)
    BY <2>1, <2>2, <2>4 DEF Place, Wrap
  <2>5. Contents'
    BY <2>1, <2>4 DEF Contents
  <2> QED BY <2>3, <2>5
<1>3. CASE UNCHANGED <<p_w, p_r, buf, put, got>> /\ (torn => torn')
  BY <1>3, StillHolds
<1>4. ASSUME NEW n \in 1 .. MaxLen, WriteBegin(n) PROVE UNCHANGED <<p_w, p_r, buf, put, got, torn>>
  BY <1>4 DEF WriteBegin, readerVars
<1>5. CASE PutCheck \/ PutLoad \/ PutRaise \/ Announce
  BY <1>3, <1>5 DEF PutCheck, PutLoad, PutRaise, Announce, readerVars
<1>6. CASE ReceiveLength \/ GetCheck \/ GetLoad \/ GetLower
  BY <1>3, <1>6 DEF ReceiveLength, GetCheck, GetLoad, GetLower, writerVars
<1> QED
  BY <1>1, <1>2, <1>3, <1>4, <1>5, <1>6 DEF Next, Writing, Reading, RbPut, RbGet

(* A step that changes nothing keeps the invariant.                        *)
LEMMA StutterIInv == ASSUME IInv, UNCHANGED vars PROVE IInv'
  BY DEF IInv, TypeOK, Places, Announced, Base, CountOK, Bounded, PositionsOK, Contents,
    Place, Counted, Given, vars, writerVars, readerVars

(* The inductive invariant holds in every reachable state.                 *)
THEOREM RingInvariant == Spec => []IInv
<1>1. Init => IInv
  BY InitIInv
<1>2. IInv /\ [Next]_vars => IInv'
  <2>1. CASE IInv /\ Next
    BY <2>1, NextTypeOK, NextPlaces, NextAnnounced, ReaderHasBlock, NextCountOK, NextContents
    DEF IInv
  <2>2. CASE IInv /\ UNCHANGED vars
    BY <2>2, StutterIInv
  <2> QED BY <2>1, <2>2
<1> QED BY <1>1, <1>2, PTL DEF Spec

(* The types of the ring, its tasks and its queue, of any size: both       *)
(* positions stay inside the memory.                                       *)
THEOREM RingTypeCorrect == Spec => []TypeOK
<1>1. IInv => TypeOK
  BY DEF IInv
<1> QED BY <1>1, RingInvariant, PTL

(* The sending task never takes a block before it was written, whatever    *)
(* becomes of fill_cnt, for rings, messages and queues of any size.        *)
THEOREM NeverReadsAhead == Spec => []ReadsWhatWasPut
<1>1. IInv => ReadsWhatWasPut
  BY ReaderHasBlock DEF IInv
<1> QED BY <1>1, RingInvariant, PTL

(* Until two stores of fill_cnt collide, the count is exact and the ring   *)
(* keeps every block but, when it was full, the one being taken.           *)
THEOREM RingKeepsBlocks == Spec => []RingHolds
<1>1. IInv => RingHolds
  BY DEF IInv, RingHolds, FillAccounted, CountOK, Bounded, Contents
<1> QED BY <1>1, RingInvariant, PTL

=============================================================================
