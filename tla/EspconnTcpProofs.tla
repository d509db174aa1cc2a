--------------------------- MODULE EspconnTcpProofs ---------------------------
(***************************************************************************)
(* What EspconnTcp keeps for every number of connections, every length of  *)
(* packets and every size of lwIP's buffers: a node is in the list as long *)
(* as a callback or an event names it, a lowered write_flag has an         *)
(* acknowledgement to wait for, and acknowledgements are credited to the   *)
(* packets they are of.                                                    *)
(* The control part of the inductive invariant says that one event of the  *)
(* end of a connection is posted at most; the packet part that ptail is at *)
(* the packet in which the unwritten bytes begin, and that its last byte   *)
(* was not acknowledged yet.                                               *)
(***************************************************************************)
EXTENDS EspconnTcp, SequenceTheorems, FiniteSetTheorems, WellFoundedInduction, TLAPS

(* What was done to a node: its state was overwritten or its end told      *)
(* twice; or espconn_tcp_finish was at work on it too.                     *)
Spoilt(n) == blame[n] \intersect {"abort", "reopened", "listener"} # {}
Disturbed(n) == blame[n] \intersect {"abort", "reopened", "listener", "inside"} # {}

(* No packet of it was freed under ptail, or had a tot_len from malloc;    *)
(* and no write failed with nothing under way, no option was cleared.      *)
Clear(n) == blame[n] \intersect {"refused", "heap", "wrapped", "raced"} = {}
Calm(n) == blame[n] \intersect {"refused", "heap", "wrapped", "raced", "option", "stranded"} = {}

(* The packets that wait are one behind the other.                         *)
InOrder(b) ==
  /\ \A i \in 1 .. Len(b) : b[i].len \in Length
  /\ \A i \in 1 .. Len(b) - 1 : b[i + 1].at = b[i].at + b[i].len
  /\ \A i, j \in 1 .. Len(b) : i < j => b[i].at + b[i].len <= b[j].at

(* The packet at t is the one that is written next, or was the last.       *)
GoesOn(b, t, w) == {i \in 1 .. Len(b) : b[i].at = t /\ t <= w /\ w <= b[i].at + b[i].len}

Kept(n) ==
  /\ InOrder(pbuf[n])
  /\ acked[n] <= wrote[n] /\ wrote[n] - acked[n] <= SndBuf
  /\ ptail[n] = NoBuf => End(n, pbuf[n]) = wrote[n]
  /\ ptail[n] = Freed => ~Clear(n)
  /\ ptail[n] \in Nat =>
       \E i \in GoesOn(pbuf[n], ptail[n], wrote[n]) :
         Clear(n) => acked[n] < pbuf[n][i].at + pbuf[n][i].len

(* What espconn_tcp_finish still has to credit.                            *)
Over(n) == IF busy = n THEN carry ELSE 0

Credits(n) ==
  life[n] = "listed" /\ Clear(n) =>
    /\ \A i \in 2 .. Len(pbuf[n]) : pbuf[n][i].tot = 0
    /\ pbuf[n] = <<>> => acked[n] = wrote[n] /\ Over(n) = 0
    /\ pbuf[n] # <<>> => pbuf[n][1].at + pbuf[n][1].tot + Over(n) <= acked[n]

Bare(n) ==
  life[n] # "listed" => pbuf[n] = <<>> /\ ptail[n] = NoBuf /\ wrote[n] = 0 /\ acked[n] = 0

Lives(n) ==
  /\ life[n] = "unused" => conn[n] = "idle" /\ ~Disturbed(n)
  /\ conn[n] \in {"syn", "up", "half", "closing"} => life[n] = "listed"
  /\ life[n] = "listed" /\ conn[n] \in {"closing", "gone"} => closed[n] \/ Spoilt(n)

(* A node that is not listed has no event, one whose connection lives no   *)
(* event of its end, and behind that event there is no other.              *)
Announced ==
  \A i \in 1 .. Len(events) :
    LET n == events[i].node IN
      /\ life[n] # "listed" => Spoilt(n)
      /\ events[i].sig # "WRITE" =>
           /\ life[n] = "listed" => conn[n] \in {"closing", "gone"}
           /\ \A j \in i + 1 .. Len(events) : events[j].node = n => Spoilt(n)

Finishing == busy # 0 => Attached(busy) \/ Disturbed(busy)

(* The packet that espconn_sent hands over is still to be written.         *)
Handed(n) == sending = n /\ conn[n] # "gone" /\ Calm(n) => End(n, pbuf[n]) > wrote[n]

Flagged(n) ==
  Attached(n) /\ ~write_flag[n] /\ Calm(n) =>
    copy[n] /\ End(n, pbuf[n]) > wrote[n] /\ (sending = n \/ acked[n] < wrote[n])

Control == (\A n \in Node : Lives(n)) /\ Announced /\ Finishing
Packets == \A n \in Node : Kept(n) /\ Credits(n) /\ Bare(n)
Flags == \A n \in Node : Handed(n) /\ Flagged(n)

IInv == TypeOK /\ Control /\ Packets /\ Flags

-----------------------------------------------------------------------------
(* Constants, sequences and sets.                                          *)

LEMMA Buffers == SndBuf \in Nat /\ SndBuf > 0 /\ SndQueue \in Nat /\ SndQueue > 0
<1>1. SndBuf \in Nat \ {0} /\ SndQueue \in Nat \ {0}
  BY EspconnAssumption, SMT
<1>. QED
  BY <1>1

LEMMA LeastOf ==
  ASSUME NEW S \in SUBSET Nat, S # {}
  PROVE  \E x \in S : \A y \in S : x <= y
<1>1. PICK x \in S : \A y \in S : ~(<<y, x>> \in OpToRel(<, Nat))
  BY NatLessThanWellFounded, WFMin
<1>2. \A y \in Nat : y < x => <<y, x>> \in OpToRel(<, Nat)
  BY SMT DEF OpToRel
<1>3. ASSUME NEW y \in S PROVE x <= y
  <2>1. x \in Nat /\ y \in Nat
    OBVIOUS
  <2>2. ~(y < x)
    BY <1>1, <1>2, <2>1, Zenon
  <2> QED BY <2>1, <2>2
<1> QED BY <1>3, Zenon

LEMMA PacketFields ==
  ASSUME NEW b \in Seq(Packet), NEW i \in 1 .. Len(b)
  PROVE  b[i] \in Packet /\ b[i].at \in Nat /\ b[i].len \in Nat /\ b[i].tot \in Nat
<1>1. b[i] \in Packet
  BY ElementOfSeq
<1>. QED
  BY <1>1 DEF Packet

LEMMA BeginningOf ==
  ASSUME NEW S, NEW s \in Seq(S), NEW k \in 0 .. Len(s)
  PROVE  /\ SubSeq(s, 1, k) \in Seq(S) /\ Len(SubSeq(s, 1, k)) = k
         /\ \A i \in 1 .. k : SubSeq(s, 1, k)[i] = s[i]
<1>1. Len(s) \in Nat /\ k \in Nat /\ k <= Len(s)
  BY LenProperties
<1>2. \A i \in 1 .. k : s[i] \in S
  BY <1>1, ElementOfSeq
<1>3. /\ SubSeq(s, 1, k) \in Seq(S)
      /\ Len(SubSeq(s, 1, k)) = IF 1 <= k THEN k - 1 + 1 ELSE 0
      /\ \A i \in 1 .. k - 1 + 1 : SubSeq(s, 1, k)[i] = s[1 + i - 1]
  BY <1>1, <1>2, SubSeqProperties
<1>4. Len(SubSeq(s, 1, k)) = k
  BY <1>1, <1>3
<1>5. \A i \in 1 .. k : i \in 1 .. k - 1 + 1 /\ 1 + i - 1 = i
  BY <1>1
<1>6. \A i \in 1 .. k : SubSeq(s, 1, k)[i] = s[i]
  BY <1>3, <1>5
<1>. QED
  BY <1>3, <1>4, <1>6

LEMMA LengthsAndCounts ==
  /\ \A l \in Length : l \in Nat /\ l > 0
  /\ \A k \in Bufs : k \in Nat
  /\ \A h \in Heap : h \in Nat
BY EspconnAssumption

(* No packet ends behind the last one.                                     *)
LEMMA EndsBefore ==
  ASSUME NEW b \in Seq(Packet), b # <<>>, InOrder(b), NEW i \in 1 .. Len(b)
  PROVE  b[i].at + b[i].len <= b[Len(b)].at + b[Len(b)].len
<1>1. Len(b) \in Nat /\ Len(b) \in 1 .. Len(b)
  BY EmptySeq
<1>2. b[i] \in Packet /\ b[Len(b)] \in Packet
  BY <1>1, ElementOfSeq
<1>3. CASE i = Len(b)
  BY <1>2, <1>3 DEF Packet
<1>4. CASE i < Len(b)
  <2>1. b[i].at + b[i].len <= b[Len(b)].at
    BY <1>1, <1>4 DEF InOrder
  <2>. QED
    BY <1>2, <2>1, SMTT(20) DEF Packet
<1>. QED
  BY <1>1, <1>3, <1>4

(* The packet that holds a byte which waits.                               *)
LEMMA HolderHolds ==
  ASSUME NEW b \in Seq(Packet), b # <<>>, InOrder(b), NEW x \in Nat,
         b[1].at <= x, x < b[Len(b)].at + b[Len(b)].len
  PROVE  \E i \in 1 .. Len(b) : /\ b[i].at = Holder(b, x)
                                /\ b[i].at <= x /\ x < b[i].at + b[i].len
<1>1. Len(b) \in Nat /\ Len(b) \in 1 .. Len(b) /\ 1 \in 1 .. Len(b)
  BY EmptySeq
<1>2. \A i \in 1 .. Len(b) : b[i] \in Packet /\ b[i].at \in Nat /\ b[i].len \in Nat
  BY PacketFields
<1>3. PICK S : S = {i \in 1 .. Len(b) : x < b[i].at + b[i].len}
  OBVIOUS
<1>4. S \in SUBSET Nat /\ S # {}
  BY <1>1, <1>3
<1>5. PICK i \in S : \A j \in S : i <= j
  BY <1>4, LeastOf
<1>6. i \in 1 .. Len(b) /\ x < b[i].at + b[i].len
  BY <1>3, <1>5
<1>7. b[i].at <= x
  <2>1. CASE i = 1
    BY <2>1
  <2>2. CASE i # 1
    <3>1. i - 1 \in 1 .. Len(b) /\ i - 1 \in 1 .. Len(b) - 1 /\ (i - 1) + 1 = i /\ ~(i <= i - 1)
      BY <1>1, <1>6, <2>2
    <3>2. i - 1 \notin S
      BY <1>5, <3>1
    <3>3. ~(x < b[i - 1].at + b[i - 1].len)
      BY <1>3, <3>1, <3>2
    <3>4. b[i].at = b[i - 1].at + b[i - 1].len
      BY <3>1 DEF InOrder
    <3>. QED
      BY <1>2, <3>1, <3>3, <3>4
  <2>. QED
    BY <2>1, <2>2
<1>8. x \in b[i].at .. b[i].at + b[i].len - 1
  BY <1>2, <1>6, <1>7
<1>9. \E at \in {b[j].at : j \in 1 .. Len(b)} :
        \E j \in 1 .. Len(b) : b[j].at = at /\ x \in at .. at + b[j].len - 1
  BY <1>6, <1>8
<1>10. PICK j \in 1 .. Len(b) : b[j].at = Holder(b, x) /\ x \in Holder(b, x) .. Holder(b, x) + b[j].len - 1
  BY <1>9 DEF Holder
<1>. QED
  BY <1>2, <1>10

LEMMA AppendInOrder ==
  ASSUME NEW n \in Node, NEW b \in Seq(Packet), InOrder(b),
         NEW p \in Packet, p.len \in Length, p.at = End(n, b)
  PROVE  /\ Append(b, p) \in Seq(Packet) /\ InOrder(Append(b, p))
         /\ End(n, Append(b, p)) = p.at + p.len
         /\ Append(b, p) # <<>> /\ Len(Append(b, p)) = Len(b) + 1
         /\ Append(b, p)[Len(b) + 1] = p
         /\ \A i \in 1 .. Len(b) : Append(b, p)[i] = b[i]
<1>1. PICK c : c = Append(b, p)
  OBVIOUS
<1>2. /\ c \in Seq(Packet) /\ c # <<>> /\ Len(c) = Len(b) + 1 /\ c[Len(b) + 1] = p
      /\ \A i \in 1 .. Len(b) : c[i] = b[i]
  BY <1>1, AppendProperties
<1>3. Len(b) \in Nat
  BY LenProperties
<1>4. End(n, c) = p.at + p.len
  BY <1>2 DEF End
<1>5. ASSUME NEW i \in 1 .. Len(b) PROVE c[i].at + c[i].len <= p.at
  <2>1. b # <<>>
    BY EmptySeq
  <2>2. b[i].at + b[i].len <= b[Len(b)].at + b[Len(b)].len
    BY <2>1, EndsBefore
  <2>. QED
    BY <1>2, <2>1, <2>2 DEF End
<1>6. \A i \in 1 .. Len(c) : c[i].len \in Length
  BY <1>2, <1>3 DEF InOrder
<1>7. ASSUME NEW i \in 1 .. Len(c) - 1 PROVE c[i + 1].at = c[i].at + c[i].len
  <2>1. i \in 1 .. Len(b)
    BY <1>2, <1>3
  <2>2. CASE i = Len(b)
    <3>1. b # <<>>
      BY <2>1, EmptySeq
    <3>. QED
      BY <1>2, <2>1, <2>2, <3>1 DEF End
  <2>3. CASE i # Len(b)
    <3>1. i \in 1 .. Len(b) - 1 /\ i + 1 \in 1 .. Len(b)
      BY <1>3, <2>1, <2>3
    <3>. QED
      BY <1>2, <2>1, <3>1 DEF InOrder
  <2>. QED
    BY <2>2, <2>3
<1>8. ASSUME NEW i \in 1 .. Len(c), NEW j \in 1 .. Len(c), i < j PROVE c[i].at + c[i].len <= c[j].at
  <2>1. i \in 1 .. Len(b) /\ (j \in 1 .. Len(b) \/ j = Len(b) + 1)
    BY <1>2, <1>3, <1>8
  <2>2. CASE j = Len(b) + 1
    BY <1>2, <1>5, <2>1, <2>2
  <2>3. CASE j \in 1 .. Len(b)
    BY <1>2, <1>8, <2>1, <2>3 DEF InOrder
  <2>. QED
    BY <2>1, <2>2, <2>3
<1>9. InOrder(c)
  BY <1>6, <1>7, <1>8 DEF InOrder
<1>. QED
  BY <1>1, <1>2, <1>4, <1>9

LEMMA TailInOrder ==
  ASSUME NEW n \in Node, NEW b \in Seq(Packet), InOrder(b), b # <<>>
  PROVE  /\ Tail(b) \in Seq(Packet) /\ InOrder(Tail(b)) /\ Len(Tail(b)) = Len(b) - 1
         /\ \A i \in 1 .. Len(Tail(b)) : i + 1 \in 1 .. Len(b) /\ Tail(b)[i] = b[i + 1]
         /\ Tail(b) = <<>> => End(n, b) = b[1].at + b[1].len
         /\ Tail(b) # <<>> => End(n, Tail(b)) = End(n, b) /\ Tail(b)[1].at = b[1].at + b[1].len
<1>1. PICK c : c = Tail(b)
  OBVIOUS
<1>2. c \in Seq(Packet) /\ Len(c) = Len(b) - 1 /\ \A i \in 1 .. Len(c) : c[i] = b[i + 1]
  BY <1>1, HeadTailProperties
<1>3. Len(b) \in Nat \ {0} /\ Len(c) \in Nat
  BY <1>2, EmptySeq, LenProperties
<1>4. \A i \in 1 .. Len(c) : i + 1 \in 1 .. Len(b)
  BY <1>2, <1>3
<1>5. c = <<>> => End(n, b) = b[1].at + b[1].len
  <2>1. ASSUME c = <<>> PROVE Len(b) = 1
    BY <1>2, <1>3, <2>1, EmptySeq
  <2>. QED
    BY <2>1 DEF End
<1>6. ASSUME c # <<>> PROVE End(n, c) = End(n, b) /\ c[1].at = b[1].at + b[1].len
  <2>1. Len(c) \in 1 .. Len(c) /\ 1 \in 1 .. Len(c) /\ 1 \in 1 .. Len(b) - 1
    BY <1>2, <1>3, <1>6, EmptySeq
  <2>2. Len(c) + 1 = Len(b)
    BY <1>2, <1>3
  <2>3. c[Len(c)] = b[Len(b)] /\ c[1] = b[1 + 1]
    BY <1>2, <2>1, <2>2
  <2>4. b[1 + 1].at = b[1].at + b[1].len
    BY <2>1 DEF InOrder
  <2>. QED
    BY <1>6, <2>3, <2>4 DEF End
<1>7. InOrder(c)
  <2>1. \A i \in 1 .. Len(c) : c[i].len \in Length
    BY <1>2, <1>4 DEF InOrder
  <2>2. ASSUME NEW i \in 1 .. Len(c) - 1 PROVE c[i + 1].at = c[i].at + c[i].len
    <3>1. i \in 1 .. Len(c) /\ i + 1 \in 1 .. Len(c) /\ i + 1 \in 1 .. Len(b) - 1
      BY <1>2, <1>3
    <3>2. b[(i + 1) + 1].at = b[i + 1].at + b[i + 1].len
      BY <3>1 DEF InOrder
    <3>. QED
      BY <1>2, <3>1, <3>2
  <2>3. ASSUME NEW i \in 1 .. Len(c), NEW j \in 1 .. Len(c), i < j PROVE c[i].at + c[i].len <= c[j].at
    <3>1. i + 1 \in 1 .. Len(b) /\ j + 1 \in 1 .. Len(b) /\ i + 1 < j + 1
      BY <1>3, <1>4, <2>3
    <3>2. b[i + 1].at + b[i + 1].len <= b[j + 1].at
      BY <3>1 DEF InOrder
    <3>. QED
      BY <1>2, <3>2
  <2>. QED
    BY <2>1, <2>2, <2>3 DEF InOrder
<1>. QED
  BY <1>1, <1>2, <1>4, <1>5, <1>6, <1>7

(* The head is credited.                                                   *)
Credit(b, x) == [b EXCEPT ![1].tot = x]

LEMMA CreditInOrder ==
  ASSUME NEW n \in Node, NEW b \in Seq(Packet), InOrder(b), b # <<>>, NEW x \in Nat
  PROVE  /\ Credit(b, x) \in Seq(Packet) /\ InOrder(Credit(b, x)) /\ Credit(b, x) # <<>>
         /\ Len(Credit(b, x)) = Len(b) /\ Credit(b, x)[1].tot = x /\ End(n, Credit(b, x)) = End(n, b)
         /\ \A i \in 1 .. Len(b) : Credit(b, x)[i].at = b[i].at /\ Credit(b, x)[i].len = b[i].len
         /\ \A i \in 2 .. Len(b) : Credit(b, x)[i].tot = b[i].tot
<1>0. PICK c : c = Credit(b, x)
  OBVIOUS
<1>1. Len(b) \in Nat \ {0} /\ 1 \in 1 .. Len(b) /\ Len(b) \in 1 .. Len(b)
  BY EmptySeq, LenProperties
<1>2. b[1] \in Packet
  BY <1>1, PacketFields
<1>3. PICK p : p = [b[1] EXCEPT !.tot = x]
  OBVIOUS
<1>4. p \in Packet /\ p.at = b[1].at /\ p.len = b[1].len /\ p.tot = x
  BY <1>2, <1>3 DEF Packet
<1>5. c = [b EXCEPT ![1] = p]
  BY <1>0, <1>3 DEF Credit
<1>6. /\ c \in Seq(Packet) /\ Len(c) = Len(b)
      /\ \A i \in 1 .. Len(b) : c[i] = IF i = 1 THEN p ELSE b[i]
  BY <1>1, <1>4, <1>5, ExceptSeq
<1>7. \A i \in 1 .. Len(b) : c[i].at = b[i].at /\ c[i].len = b[i].len
  BY <1>4, <1>6
<1>8. c # <<>>
  BY <1>1, <1>6, EmptySeq
<1>9. InOrder(c)
  <2>1. \A i \in 1 .. Len(b) - 1 : i \in 1 .. Len(b) /\ i + 1 \in 1 .. Len(b)
    BY <1>1
  <2>. QED
    BY <1>6, <1>7, <2>1 DEF InOrder
<1>10. End(n, c) = End(n, b)
  BY <1>1, <1>6, <1>7, <1>8 DEF End
<1>11. \A i \in 2 .. Len(b) : i \in 1 .. Len(b) /\ i # 1
  BY <1>1
<1>. QED
  BY <1>0, <1>1, <1>4, <1>6, <1>7, <1>8, <1>9, <1>10, <1>11


(* The packet that is gone on with ends no later than the last one.        *)
LEMMA EndReached ==
  ASSUME NEW n \in Node, wrote[n] \in Nat, NEW b \in Seq(Packet), InOrder(b),
         NEW t \in Nat, GoesOn(b, t, wrote[n]) # {}
  PROVE  /\ b # <<>> /\ b[1].at <= wrote[n] /\ wrote[n] <= End(n, b) /\ End(n, b) \in Nat
         /\ End(n, b) = b[Len(b)].at + b[Len(b)].len
<1>1. PICK i \in 1 .. Len(b) : b[i].at = t /\ t <= wrote[n] /\ wrote[n] <= b[i].at + b[i].len
  BY DEF GoesOn
<1>2. Len(b) \in Nat /\ 1 \in 1 .. Len(b) /\ Len(b) \in 1 .. Len(b)
  BY <1>1, LenProperties
<1>3. b # <<>>
  BY <1>2, EmptySeq
<1>4. /\ b[1].at \in Nat /\ b[1].len \in Nat /\ b[i].at \in Nat /\ b[i].len \in Nat
      /\ b[Len(b)].at \in Nat /\ b[Len(b)].len \in Nat
  BY <1>1, <1>2, PacketFields
<1>5. b[1].at <= b[i].at
  <2>1. CASE i = 1
    BY <1>4, <2>1
  <2>2. CASE i # 1
    <3>1. 1 < i
      BY <2>2
    <3>2. b[1].at + b[1].len <= b[i].at
      BY <1>2, <3>1 DEF InOrder
    <3>. QED
      BY <1>4, <3>2
  <2>. QED
    BY <2>1, <2>2
<1>6. b[i].at + b[i].len <= b[Len(b)].at + b[Len(b)].len
  BY <1>3, EndsBefore
<1>7. End(n, b) = b[Len(b)].at + b[Len(b)].len
  BY <1>3 DEF End
<1>8. b[1].at <= wrote[n]
  BY <1>1, <1>4, <1>5
<1>9. End(n, b) \in Nat
  BY <1>4, <1>7
<1>10. wrote[n] <= End(n, b)
  BY <1>1, <1>4, <1>6, <1>7
<1>. QED
  BY <1>3, <1>7, <1>8, <1>9, <1>10

-----------------------------------------------------------------------------
(* What espconn_tcp_write leaves behind: it does not reach beyond the last *)
(* packet nor over what lwIP takes, and where it goes on, if it does, is a *)
(* packet whose last byte was not acknowledged.                            *)

LEMMA WrittenFacts ==
  ASSUME NEW n \in Node, wrote[n] \in Nat,
         NEW b \in Seq(Packet), InOrder(b), NEW a \in Nat, a <= wrote[n], wrote[n] - a <= SndBuf,
         NEW t \in Nat \union {NoBuf, Freed}, t \in Nat => GoesOn(b, t, wrote[n]) # {},
         ~Follows(n, t, a), NEW o \in Written(n, b, t, a)
  PROVE  /\ o.wrote \in Nat /\ wrote[n] <= o.wrote /\ o.wrote - a <= SndBuf
         /\ ~Attached(n) => o.wrote = wrote[n]
         /\ t \in Nat => o.wrote <= End(n, b)
         /\ \/ o.ptail = t /\ o.wrote = wrote[n] /\ (t \in Nat => a < wrote[n])
            \/ t \in Nat /\ o.ok /\ o.ptail = NoBuf /\ o.wrote = End(n, b)
            \/ t \in Nat /\ \E i \in GoesOn(b, o.ptail, o.wrote) : a < b[i].at + b[i].len
         /\ \/ a < o.wrote
            \/ t = NoBuf /\ o.ok
            \/ t \in Nat /\ (~o.ok \/ o.wrote = End(n, b))
         /\ ~o.ok /\ t \notin Nat => HeldBack(n, a)
<1>1. PICK free \in Nat : free = SndBufFree(n, a) /\ free = SndBuf - (wrote[n] - a)
  <2>1. SndBuf - (wrote[n] - a) \in Nat
    BY Buffers
  <2>. QED
    BY <2>1 DEF SndBufFree
<1>2. CASE HeldBack(n, a)
  <2>1. Written(n, b, t, a) = {[ok |-> FALSE, wrote |-> wrote[n], ptail |-> t]}
    BY <1>2, Zenon DEF Written
  <2>2. o.wrote = wrote[n] /\ o.ptail = t
    BY <2>1
  <2>3. a < wrote[n] /\ HeldBack(n, a)
    BY <1>2, Buffers DEF HeldBack, QueueFull
  <2>4. t \in Nat => wrote[n] <= End(n, b)
    BY EndReached
  <2>. QED
    BY <2>2, <2>3, <2>4
<1>3. CASE ~HeldBack(n, a) /\ (free = 0 \/ t = NoBuf)
  <2>1. Written(n, b, t, a) = {[ok |-> TRUE, wrote |-> wrote[n], ptail |-> t]}
    BY <1>1, <1>3, Zenon DEF Written
  <2>2. o.ok /\ o.wrote = wrote[n] /\ o.ptail = t
    BY <2>1
  <2>3. t # NoBuf => a < wrote[n]
    BY <1>1, <1>3, Buffers DEF NoBuf
  <2>4. t \in Nat => wrote[n] <= End(n, b)
    BY EndReached
  <2>5. t \in Nat => t # NoBuf
    BY DEF NoBuf
  <2>. QED
    BY <2>2, <2>3, <2>4, <2>5
<1>4. CASE ~HeldBack(n, a) /\ free > 0 /\ t # NoBuf
  <2>1. t \in Nat
    BY <1>1, <1>4 DEF Follows
  <2>2. PICK last : last = Least(wrote[n] + free, End(n, b))
    OBVIOUS
  <2>3. /\ b # <<>> /\ b[1].at <= wrote[n] /\ wrote[n] <= End(n, b) /\ End(n, b) \in Nat
        /\ End(n, b) = b[Len(b)].at + b[Len(b)].len
    BY <2>1, EndReached
  <2>4. /\ last \in Nat /\ wrote[n] <= last /\ last <= End(n, b) /\ last <= wrote[n] + free
        /\ last = wrote[n] + free \/ last = End(n, b)
    BY <2>2, <2>3 DEF Least
  <2>5. ASSUME NEW w \in Nat, wrote[n] <= w, w < last, o.ptail = Holder(b, w)
        PROVE  \E i \in 1 .. Len(b) : /\ b[i].at = o.ptail
                                      /\ b[i].at <= w /\ w < b[i].at + b[i].len
    <3>1. b[1].at \in Nat
      BY <2>3, EmptySeq, PacketFields
    <3>2. b[1].at <= w /\ w < b[Len(b)].at + b[Len(b)].len
      BY <2>3, <2>4, <2>5, <3>1
    <3>3. \E i \in 1 .. Len(b) : b[i].at = Holder(b, w) /\ b[i].at <= w /\ w < b[i].at + b[i].len
      BY <2>3, <3>2, HolderHolds
    <3>. QED
      BY <2>5, <3>3
  <2>6. \/ \E w \in IF Attached(n) THEN wrote[n] .. last - 1 ELSE {wrote[n]} \ {last} :
              o = [ok |-> FALSE, wrote |-> w, ptail |-> Holder(b, w)]
        \/ /\ Attached(n) \/ last = wrote[n]
           /\ o = [ok |-> TRUE, wrote |-> last,
                   ptail |-> IF last = wrote[n] + free THEN Holder(b, last - 1) ELSE NoBuf]
    <3>1. free # 0
      BY <1>4
    <3>2. PICK holder, end : end = Least(wrote[n] + SndBufFree(n, a), End(n, b)) /\ holder = Holder(b, end - 1)
      OBVIOUS
    <3>3. end = last
      BY <1>1, <2>2, <3>2
    <3>4. o \in {[ok |-> FALSE, wrote |-> w, ptail |-> Holder(b, w)] :
                    w \in IF Attached(n) THEN wrote[n] .. last - 1 ELSE {wrote[n]} \ {last}}
                \union
                IF Attached(n) \/ last = wrote[n]
                THEN {[ok |-> TRUE, wrote |-> last,
                       ptail |-> IF last = wrote[n] + free THEN Holder(b, last - 1) ELSE NoBuf]}
                ELSE {}
      BY <1>1, <1>4, <2>2, <3>1, Zenon DEF Written
    <3>. QED
      BY <3>4, Zenon
  <2>7. ASSUME NEW w \in IF Attached(n) THEN wrote[n] .. last - 1 ELSE {wrote[n]} \ {last},
               o = [ok |-> FALSE, wrote |-> w, ptail |-> Holder(b, w)]
        PROVE  /\ ~o.ok /\ o.wrote = w /\ w \in Nat /\ wrote[n] <= w /\ w < last /\ (~Attached(n) => w = wrote[n])
               /\ \E i \in GoesOn(b, o.ptail, w) : a < b[i].at + b[i].len
    <3>1. w \in Nat /\ wrote[n] <= w /\ w < last
      BY <2>4
    <3>2. ~Attached(n) => w = wrote[n]
      OBVIOUS
    <3>3. ~o.ok /\ o.wrote = w /\ o.ptail = Holder(b, w)
      BY <2>7
    <3>4. PICK i \in 1 .. Len(b) : b[i].at = o.ptail /\ b[i].at <= w /\ w < b[i].at + b[i].len
      BY <2>5, <3>1, <3>3
    <3>5. b[i].at \in Nat /\ b[i].len \in Nat
      BY PacketFields
    <3>6. i \in GoesOn(b, o.ptail, w) /\ a < b[i].at + b[i].len
      BY <3>1, <3>4, <3>5 DEF GoesOn
    <3>. QED
      BY <3>1, <3>2, <3>3, <3>6
  <2>8. CASE \E w \in IF Attached(n) THEN wrote[n] .. last - 1 ELSE {wrote[n]} \ {last} :
               o = [ok |-> FALSE, wrote |-> w, ptail |-> Holder(b, w)]
    <3>1. PICK w \in IF Attached(n) THEN wrote[n] .. last - 1 ELSE {wrote[n]} \ {last} :
                 o = [ok |-> FALSE, wrote |-> w, ptail |-> Holder(b, w)]
      BY <2>8
    <3>2. /\ ~o.ok /\ o.wrote = w /\ w \in Nat /\ wrote[n] <= w /\ w < last /\ (~Attached(n) => w = wrote[n])
          /\ \E i \in GoesOn(b, o.ptail, w) : a < b[i].at + b[i].len
      BY <2>7, <3>1
    <3>3. o.wrote - a <= SndBuf /\ o.wrote <= End(n, b)
      BY <1>1, <2>3, <2>4, <3>2, Buffers, SMTT(20)
    <3>. QED
      BY <1>4, <2>1, <3>2, <3>3
  <2>9. CASE /\ Attached(n) \/ last = wrote[n]
             /\ o = [ok |-> TRUE, wrote |-> last,
                     ptail |-> IF last = wrote[n] + free THEN Holder(b, last - 1) ELSE NoBuf]
    <3>1. o.ok /\ o.wrote = last /\ (~Attached(n) => o.wrote = wrote[n])
      BY <2>9
    <3>2. last - a <= SndBuf /\ (last = wrote[n] + free => a < last)
      BY <1>1, <1>4, <2>4, Buffers
    <3>3. CASE last = wrote[n] + free
      <4>1. PICK w : w = last - 1
        OBVIOUS
      <4>2. w \in Nat /\ wrote[n] <= w /\ w < last /\ last = w + 1
        BY <1>4, <2>4, <3>3, <4>1
      <4>3. o.ptail = Holder(b, w)
        BY <2>9, <3>3, <4>1
      <4>4. PICK i \in 1 .. Len(b) : b[i].at = o.ptail /\ b[i].at <= w /\ w < b[i].at + b[i].len
        BY <2>5, <4>2, <4>3
      <4>5. b[i].at \in Nat /\ b[i].len \in Nat
        BY PacketFields
      <4>6. i \in GoesOn(b, o.ptail, last) /\ a < b[i].at + b[i].len
        BY <4>2, <4>4, <4>5, SMTT(20) DEF GoesOn
      <4>. QED
        BY <1>4, <2>1, <2>4, <3>1, <3>2, <3>3, <4>6
    <3>4. CASE last # wrote[n] + free
      <4>1. o.ptail = NoBuf
        BY <2>9, <3>4
      <4>. QED
        BY <1>4, <2>1, <2>4, <3>1, <3>2, <3>4, <4>1
    <3>. QED
      BY <3>3, <3>4
  <2>. QED
    BY <2>6, <2>8, <2>9
<1>. QED
  BY <1>1, <1>2, <1>3, <1>4

-----------------------------------------------------------------------------
(* What a write tells the task, and what finds room in the queue.          *)

Event == [sig : {"WRITE", "ERRER", "CLOSE"}, node : Node]

LEMMA ToldFacts ==
  ASSUME NEW n \in Node, wrote[n] \in Nat, copy[n] \in BOOLEAN, NEW b \in Seq(Packet), NEW w \in Nat
  PROVE  /\ Told(n, b, w) \in Seq(Event)
         /\ \A i \in 1 .. Len(Told(n, b, w)) : Told(n, b, w)[i] = [sig |-> "WRITE", node |-> n]
         /\ w = wrote[n] => Told(n, b, w) = <<>>
         /\ b # <<>> /\ copy[n] /\ wrote[n] < w /\ w = End(n, b) => Told(n, b, w) # <<>>
<1>1. PICK c : c = Cardinality(Finished(n, b, w))
  OBVIOUS
<1>2. Len(b) \in Nat
  BY LenProperties
<1>3. IsFiniteSet(1 .. Len(b))
  BY <1>2, FS_Interval
<1>4. IsFiniteSet(Finished(n, b, w))
  <2>1. Finished(n, b, w) \subseteq 1 .. Len(b)
    BY DEF Finished
  <2>. QED
    BY <1>3, <2>1, FS_Subset
<1>5. c \in Nat
  BY <1>1, <1>4, FS_CardinalityType
<1>6. PICK told : told = Told(n, b, w)
  OBVIOUS
<1>7. told = IF copy[n] THEN [i \in 1 .. c |-> [sig |-> "WRITE", node |-> n]] ELSE <<>>
  BY <1>1, <1>6 DEF Told
<1>8. [sig |-> "WRITE", node |-> n] \in Event
  BY DEF Event
<1>9. CASE ~copy[n]
  <2>1. told = <<>>
    BY <1>7, <1>9
  <2>. QED
    BY <1>6, <1>9, <2>1, EmptySeq
<1>10. CASE copy[n]
  <2>1. told = [i \in 1 .. c |-> [sig |-> "WRITE", node |-> n]]
    BY <1>7, <1>10
  <2>2. told \in Seq(Event) /\ Len(told) = c
    BY <1>5, <1>8, <2>1, IsASeq
  <2>3. \A i \in 1 .. Len(told) : told[i] = [sig |-> "WRITE", node |-> n]
    BY <2>1, <2>2
  <2>4. ASSUME w = wrote[n] PROVE told = <<>>
    <3>1. Finished(n, b, w) = {}
      BY <2>4 DEF Finished
    <3>2. c = 0
      BY <1>1, <3>1, FS_EmptySet
    <3>. QED
      BY <2>2, <3>2, EmptySeq
  <2>5. ASSUME b # <<>>, wrote[n] < w, w = End(n, b) PROVE told # <<>>
    <3>1. Len(b) \in 1 .. Len(b)
      BY <1>2, <2>5, EmptySeq
    <3>2. Len(b) \in Finished(n, b, w)
      BY <2>5, <3>1 DEF Finished, End
    <3>3. c # 0
      BY <1>1, <1>4, <3>2, FS_EmptySet
    <3>. QED
      BY <2>2, <3>3, EmptySeq
  <2>. QED
    BY <1>6, <1>10, <2>2, <2>3, <2>4, <2>5
<1>. QED
  BY <1>9, <1>10

LEMMA PostFacts ==
  ASSUME events \in Seq(Event), Len(events) <= QueueLen, NEW posts \in Seq(Event), Post(posts)
  PROVE  /\ events' \in Seq(Event) /\ Len(events') \in Nat
         /\ Len(events') <= QueueLen /\ Len(events') <= Len(events) + Len(posts)
         /\ \A i \in 1 .. Len(events') :
              \/ i \in 1 .. Len(events) /\ events'[i] = events[i]
              \/ i > Len(events) /\ i - Len(events) \in 1 .. Len(posts) /\ events'[i] = posts[i - Len(events)]
         /\ dropped \in BOOLEAN => dropped' \in BOOLEAN
         /\ posts = <<>> => events' = events
<1>1. PICK all : all = events \o posts
  OBVIOUS
<1>2. /\ all \in Seq(Event) /\ Len(all) = Len(events) + Len(posts)
      /\ \A i \in 1 .. Len(events) + Len(posts) :
           all[i] = IF i <= Len(events) THEN events[i] ELSE posts[i - Len(events)]
  BY <1>1, ConcatProperties
<1>3. Len(events) \in Nat /\ Len(posts) \in Nat /\ Len(all) \in Nat
  BY <1>2, LenProperties
<1>4. QueueLen \in Nat
  BY EspconnAssumption, SMT
<1>5. events' = IF Len(all) > QueueLen THEN SubSeq(all, 1, QueueLen) ELSE all
  BY <1>1 DEF Post
<1>6. /\ events' \in Seq(Event) /\ Len(events') <= QueueLen /\ Len(events') \in 0 .. Len(all)
      /\ \A i \in 1 .. Len(events') : events'[i] = all[i]
  <2>1. CASE Len(all) > QueueLen
    <3>1. QueueLen \in 0 .. Len(all) /\ events' = SubSeq(all, 1, QueueLen)
      BY <1>3, <1>4, <1>5, <2>1
    <3>2. /\ events' \in Seq(Event) /\ Len(events') = QueueLen
          /\ \A i \in 1 .. QueueLen : events'[i] = all[i]
      BY <1>2, <3>1, BeginningOf
    <3>. QED
      BY <1>3, <1>4, <2>1, <3>2
  <2>2. CASE ~(Len(all) > QueueLen)
    BY <1>2, <1>3, <1>4, <1>5, <2>2
  <2>. QED
    BY <2>1, <2>2
<1>7. ASSUME NEW i \in 1 .. Len(events')
      PROVE  \/ i \in 1 .. Len(events) /\ events'[i] = events[i]
             \/ i > Len(events) /\ i - Len(events) \in 1 .. Len(posts) /\ events'[i] = posts[i - Len(events)]
  <2>1. i \in 1 .. Len(events) + Len(posts)
    BY <1>2, <1>3, <1>6
  <2>2. events'[i] = IF i <= Len(events) THEN events[i] ELSE posts[i - Len(events)]
    BY <1>2, <1>6, <2>1
  <2>3. CASE i <= Len(events)
    BY <1>3, <2>1, <2>2, <2>3
  <2>4. CASE ~(i <= Len(events))
    BY <1>3, <2>1, <2>2, <2>4
  <2>. QED
    BY <2>3, <2>4
<1>8. dropped \in BOOLEAN => dropped' \in BOOLEAN
  BY DEF Post
<1>9. ASSUME posts = <<>> PROVE events' = events
  <2>1. all = events
    BY <1>1, <1>9, ConcatEmptySeq
  <2>. QED
    BY <1>3, <1>4, <1>5, <2>1
<1>. QED
  BY <1>2, <1>3, <1>6, <1>7, <1>8, <1>9

-----------------------------------------------------------------------------
(* What a step leaves alone it keeps.                                      *)

Grows == \A m \in Node : blame[m] \subseteq blame'[m]

LEMMA BlameStays ==
  ASSUME NEW m \in Node, Grows
  PROVE  /\ Spoilt(m) => Spoilt(m)'
         /\ Disturbed(m) => Disturbed(m)'
         /\ Clear(m)' => Clear(m)
         /\ Calm(m)' => Calm(m)
<1>1. blame[m] \subseteq blame'[m]
  BY DEF Grows
<1>2. \A X : blame[m] \intersect X # {} => blame'[m] \intersect X # {}
  BY <1>1
<1>. QED
  BY <1>2 DEF Spoilt, Disturbed, Clear, Calm

(* What is said of blame alone stays when it does.                         *)
LEMMA BlameSame ==
  ASSUME NEW m, blame'[m] = blame[m]
  PROVE  /\ Spoilt(m)' <=> Spoilt(m)
         /\ Disturbed(m)' <=> Disturbed(m)
         /\ Clear(m)' <=> Clear(m)
         /\ Calm(m)' <=> Calm(m)
BY DEF Spoilt, Disturbed, Clear, Calm

LEMMA SpoiltDisturbs ==
  ASSUME NEW m, Spoilt(m)
  PROVE  Disturbed(m)
BY DEF Spoilt, Disturbed

LEMMA ClearOfCalm ==
  ASSUME NEW m, Calm(m)
  PROVE  Clear(m)
BY DEF Clear, Calm

LEMMA PacketsFrame ==
  ASSUME TypeOK, Packets, UNCHANGED <<pbuf, ptail, wrote, acked>>, UNCHANGED finish, Grows,
         \A m \in Node : life[m] = "listed" => life'[m] = "listed",
         \A m \in Node : life[m] # "listed" /\ life'[m] = "listed" => busy # m
  PROVE  Packets'
<1>. SUFFICES ASSUME NEW m \in Node PROVE Kept(m)' /\ Credits(m)' /\ Bare(m)'
  BY DEF Packets
<1>1. Kept(m) /\ Credits(m) /\ Bare(m)
  BY DEF Packets
<1>2. Clear(m)' => Clear(m)
  BY BlameStays
<1>3. pbuf' = pbuf /\ ptail' = ptail /\ wrote' = wrote /\ acked' = acked /\ busy' = busy /\ carry' = carry
  BY DEF finish
<1>4. Kept(m)'
  BY <1>1, <1>2, <1>3 DEF Kept, End
<1>5. Bare(m)'
  BY <1>1, <1>3 DEF Bare
<1>6. Over(m)' = Over(m)
  BY <1>3 DEF Over
<1>7. Credits(m)'
  <2>1. CASE life[m] = "listed"
    BY <1>1, <1>2, <1>3, <1>6, <2>1 DEF Credits
  <2>2. CASE life[m] # "listed" /\ life'[m] = "listed"
    <3>1. pbuf[m] = <<>> /\ wrote[m] = 0 /\ acked[m] = 0
      BY <1>1, <2>2 DEF Bare
    <3>2. Over(m) = 0 /\ Len(pbuf[m]) = 0
      BY <2>2, <3>1, EmptySeq DEF Over
    <3>. QED
      BY <1>3, <1>6, <3>1, <3>2 DEF Credits
  <2>. QED
    BY <2>1, <2>2 DEF Credits
<1>. QED
  BY <1>4, <1>5, <1>7

LEMMA FlagsFrame ==
  ASSUME Flags, UNCHANGED <<pbuf, wrote, acked, sending>>, Grows,
         \A m \in Node : conn'[m] # "gone" => conn[m] # "gone",
         \A m \in Node : Attached(m)' /\ ~write_flag'[m] =>
           (Attached(m) /\ ~write_flag[m] /\ (copy[m] => copy'[m])) \/ ~Calm(m)'
  PROVE  Flags'
<1>. SUFFICES ASSUME NEW m \in Node PROVE Handed(m)' /\ Flagged(m)'
  BY DEF Flags
<1>1. Handed(m) /\ Flagged(m)
  BY DEF Flags
<1>2. End(m, pbuf[m])' = End(m, pbuf[m]) /\ wrote' = wrote /\ acked' = acked /\ sending' = sending
  BY DEF End
<1>3. Calm(m)' => Calm(m)
  BY BlameStays
<1>4. Handed(m)'
  BY <1>1, <1>2, <1>3, Zenon DEF Handed
<1>5. Flagged(m)'
  BY <1>1, <1>2, <1>3, Zenon DEF Flagged
<1>. QED
  BY <1>4, <1>5

LEMMA EventFacts ==
  ASSUME TypeOK
  PROVE  /\ events \in Seq(Event) /\ Len(events) \in Nat /\ Len(events) <= QueueLen
         /\ \A i \in 1 .. Len(events) : events[i].node \in Node
<1>1. events \in Seq(Event) /\ Len(events) <= QueueLen
  BY DEF TypeOK, Event
<1>2. \A i \in 1 .. Len(events) : events[i] \in Event
  BY <1>1, ElementOfSeq
<1>. QED
  BY <1>1, <1>2, LenProperties DEF Event

LEMMA AnnouncedFrame ==
  ASSUME TypeOK, Control, UNCHANGED events, Grows,
         \A m \in Node : life[m] = "unused" \/ life'[m] = life[m],
         \A m \in Node : life[m] # "unused" /\ conn[m] \in {"closing", "gone"} => conn'[m] \in {"closing", "gone"}
  PROVE  Announced'
<1>. SUFFICES ASSUME NEW i \in 1 .. Len(events), NEW n, n = events[i].node
              PROVE  /\ life'[n] # "listed" => Spoilt(n)'
                     /\ events[i].sig # "WRITE" =>
                          /\ life'[n] = "listed" => conn'[n] \in {"closing", "gone"}
                          /\ \A j \in i + 1 .. Len(events) : events[j].node = n => Spoilt(n)'
  BY DEF Announced
<1>1. n \in Node
  BY EventFacts
<1>2. /\ life[n] # "listed" => Spoilt(n)
      /\ events[i].sig # "WRITE" =>
           /\ life[n] = "listed" => conn[n] \in {"closing", "gone"}
           /\ \A j \in i + 1 .. Len(events) : events[j].node = n => Spoilt(n)
  BY DEF Control, Announced
<1>3. Spoilt(n) => Spoilt(n)'
  BY <1>1, BlameStays
<1>4. life[n] # "unused"
  BY <1>1, <1>2, SpoiltDisturbs DEF Control, Lives
<1>. QED
  BY <1>1, <1>2, <1>3, <1>4

LEMMA AnnouncedPost ==
  ASSUME TypeOK, Control, NEW posts \in Seq(Event), Post(posts), Grows, UNCHANGED life,
         \A m \in Node : conn[m] \in {"closing", "gone"} => conn'[m] \in {"closing", "gone"},
         NEW n \in Node,
         \A i \in 1 .. Len(posts) :
           /\ posts[i].node = n /\ life[n] = "listed"
           /\ posts[i].sig # "WRITE" => conn'[n] \in {"closing", "gone"}
           /\ \/ Spoilt(n)'
              \/ /\ conn[n] \notin {"closing", "gone"}
                 /\ Len(posts) = 1 \/ posts[i].sig = "WRITE"
  PROVE  Announced'
<1>1. events \in Seq(Event) /\ Len(events) \in Nat /\ Len(events) <= QueueLen
  BY EventFacts
<1>2. /\ Len(events') \in Nat /\ Len(events') <= Len(events) + Len(posts)
      /\ \A i \in 1 .. Len(events') :
           \/ i \in 1 .. Len(events) /\ events'[i] = events[i]
           \/ i > Len(events) /\ i - Len(events) \in 1 .. Len(posts) /\ events'[i] = posts[i - Len(events)]
  BY <1>1, PostFacts
<1>3. Len(posts) \in Nat
  BY LenProperties
<1>. SUFFICES ASSUME NEW i \in 1 .. Len(events'), NEW m, m = events'[i].node
              PROVE  /\ life'[m] # "listed" => Spoilt(m)'
                     /\ events'[i].sig # "WRITE" =>
                          /\ life'[m] = "listed" => conn'[m] \in {"closing", "gone"}
                          /\ \A j \in i + 1 .. Len(events') : events'[j].node = m => Spoilt(m)'
  BY DEF Announced
<1>4. CASE i \in 1 .. Len(events) /\ events'[i] = events[i]
  <2>1. m \in Node
    BY <1>4, EventFacts
  <2>2. /\ life[m] # "listed" => Spoilt(m)
        /\ events[i].sig # "WRITE" =>
             /\ life[m] = "listed" => conn[m] \in {"closing", "gone"}
             /\ \A j \in i + 1 .. Len(events) : events[j].node = m => Spoilt(m)
    BY <1>4 DEF Control, Announced
  <2>3. Spoilt(m) => Spoilt(m)'
    BY <2>1, BlameStays
  <2>4. ASSUME events[i].sig # "WRITE", NEW j \in i + 1 .. Len(events'), events'[j].node = m
        PROVE  Spoilt(m)'
    <3>1. CASE j \in 1 .. Len(events) /\ events'[j] = events[j]
      BY <1>1, <2>2, <2>3, <2>4, <3>1
    <3>2. CASE j - Len(events) \in 1 .. Len(posts) /\ events'[j] = posts[j - Len(events)]
      <4>1. m = n /\ life[n] = "listed"
        BY <2>4, <3>2
      <4>2. conn[n] \in {"closing", "gone"}
        BY <2>2, <2>4, <4>1
      <4>. QED
        BY <3>2, <4>1, <4>2
    <3>3. j \in 1 .. Len(events')
      BY <1>1, <1>2, <1>4
    <3>. QED
      BY <1>2, <3>1, <3>2, <3>3
  <2>. QED
    BY <1>4, <2>1, <2>2, <2>3, <2>4
<1>5. CASE i > Len(events) /\ i - Len(events) \in 1 .. Len(posts) /\ events'[i] = posts[i - Len(events)]
  <2>1. m = n /\ life[n] = "listed" /\ (events'[i].sig # "WRITE" => conn'[n] \in {"closing", "gone"})
    BY <1>5
  <2>2. ASSUME events'[i].sig # "WRITE", NEW j \in i + 1 .. Len(events'), events'[j].node = m
        PROVE  Spoilt(m)'
    <3>1. Len(posts) # 1
      BY <1>1, <1>2, <1>3, <1>5, <2>2
    <3>. QED
      BY <1>5, <2>1, <2>2, <3>1
  <2>. QED
    BY <2>1, <2>2
<1>. QED
  BY <1>2, <1>4, <1>5

-----------------------------------------------------------------------------
(* The types of every step.                                                *)

Blames == {"abort", "reopened", "listener", "inside", "refused", "heap", "wrapped", "raced", "option", "stranded"}

LEMMA BlameFacts ==
  ASSUME TypeOK, NEW n \in Node, NEW S \in SUBSET Blames, Blame(n, S)
  PROVE  /\ blame' \in [Node -> SUBSET Blames] /\ Grows
         /\ blame'[n] = blame[n] \union S /\ \A m \in Node \ {n} : blame'[m] = blame[m]
<1>1. blame \in [Node -> SUBSET Blames]
  BY DEF TypeOK, Blames
<1>2. blame' = [blame EXCEPT ![n] = @ \union S]
  BY DEF Blame
<1>3. \A m \in Node : blame'[m] = IF m = n THEN blame[n] \union S ELSE blame[m]
  BY <1>1, <1>2
<1>. QED
  BY <1>1, <1>2, <1>3 DEF Grows

LEMMA NodeNat == MaxNode \in Nat /\ 0 \notin Node /\ Node \subseteq 0 .. MaxNode
<1>1. MaxNode \in Nat
  BY EspconnAssumption, SMT
<1>. QED
  BY <1>1 DEF Node

LEMMA FaultTypes ==
  ASSUME TypeOK, NEW n \in Node, Fault(n)
  PROVE  TypeOK' /\ Grows
BY NodeNat DEF TypeOK, Grows, Fault, packets, options, finish, send, bounds

LEMMA CausesTyped ==
  ASSUME NEW n \in Node, NEW c, NEW what \in Blames
  PROVE  Cause(what, c) \in SUBSET Blames
BY Zenon DEF Cause

LEMMA TypesOpen ==
  ASSUME TypeOK, NEW n \in Node, espconn_connect(n) \/ espconn_client_connect(n) \/ espconn_tcp_accept(n)
  PROVE  TypeOK'
<1>1. CASE espconn_connect(n)
  <2>1. /\ life' \in [Node -> {"unused", "listed", "freed"}]
        /\ role' \in [Node -> {"client", "server"}]
        /\ conn' \in [Node -> {"idle", "syn", "up", "half", "closing", "gone"}]
    <3>1. role' \in [Node -> {"client", "server"}]
      BY <1>1 DEF TypeOK, espconn_connect, Creates
    <3>2. CASE life' = [life EXCEPT ![n] = "freed"] /\ UNCHANGED conn
      BY <3>1, <3>2 DEF TypeOK
    <3>3. CASE \E c \in {"syn", "idle"} :
                 life' = [life EXCEPT ![n] = "listed"] /\ conn' = [conn EXCEPT ![n] = c]
      BY <3>1, <3>3 DEF TypeOK
    <3>. QED
      BY <1>1, <3>2, <3>3 DEF espconn_connect
  <2>2. UNCHANGED <<closed, packets, options, recv_check, events, finish, send, listening, fault, blame, bounds>>
    BY <1>1 DEF espconn_connect
  <2>. QED
    BY <2>1, <2>2 DEF TypeOK, packets, options, finish, send, bounds
<1>2. CASE espconn_client_connect(n)
  BY <1>2 DEF TypeOK, espconn_client_connect, Established, packets, options, finish, send, bounds
<1>3. CASE espconn_tcp_accept(n)
  BY <1>3 DEF TypeOK, espconn_tcp_accept, Creates, Established, packets, options, finish, send, bounds
<1>. QED
  BY <1>1, <1>2, <1>3

(* A call that finds a node open, or through the listening espconn as it was. *)
LEMMA OpensFacts ==
  ASSUME TypeOK, NEW n \in Node, Opens(n)
  PROVE  /\ closed' \in [Node -> BOOLEAN] /\ \A m \in Node \ {n} : closed'[m] = closed[m]
         /\ closed[n] => closed'[n] \/ "reopened" \in Reopened(n)
<1>1. PICK c \in BOOLEAN : closed' = [closed EXCEPT ![n] = c]
  BY DEF Opens, Leaves, TypeOK
<1>2. closed[n] => closed'[n] \/ "reopened" \in Reopened(n)
  BY DEF Reopened, Cause
<1>. QED
  BY <1>1, <1>2 DEF TypeOK

LEMMA TypesOption ==
  ASSUME TypeOK, NEW n \in Node,
         Refused(n) \/ espconn_set_opt(n, TRUE) \/ espconn_set_opt(n, FALSE) \/ espconn_tcp_set_buf_count(n)
  PROVE  TypeOK' /\ Grows
<1>1. CASE Refused(n)
  <2>1. Blame(n, Reopened(n)) /\ Reopened(n) \in SUBSET Blames
    BY <1>1, CausesTyped DEF Refused, Reopened, Blames
  <2>2. blame' \in [Node -> SUBSET Blames] /\ Grows
    BY <2>1, BlameFacts
  <2>3. calls' \in [Node -> Nat] /\ closed' \in [Node -> BOOLEAN]
    <3>1. calls \in [Node -> Nat] /\ calls' = [calls EXCEPT ![n] = @ + 1]
      BY <1>1 DEF TypeOK, Refused, Called
    <3>2. closed' \in [Node -> BOOLEAN]
      <4>1. Opens(n)
        BY <1>1, Zenon DEF Refused
      <4>. QED
        BY <4>1, OpensFacts, Zenon
    <3>. QED
      <4>1. calls' \in [Node -> Nat]
        BY <3>1
      <4>. QED
        BY <3>2, <4>1, Zenon
  <2>4. UNCHANGED <<life, role, conn, packets, options, recv_check, events, finish, send, listening, fault, dropped>>
    BY <1>1 DEF Refused
  <2>. QED
    BY <2>2, <2>3, <2>4 DEF TypeOK, Blames, packets, options, finish, send
<1>2. ASSUME NEW on \in BOOLEAN, espconn_set_opt(n, on) PROVE TypeOK' /\ Grows
  <2>1. Cause("option", ~on /\ ~write_flag[n] /\ Attached(n)) \in SUBSET Blames
    BY CausesTyped DEF Blames
  <2>2. blame' \in [Node -> SUBSET Blames] /\ Grows
    BY <1>2, <2>1, BlameFacts DEF espconn_set_opt
  <2>3. calls' \in [Node -> Nat] /\ copy' \in [Node -> BOOLEAN] /\ nagle' \in [Node -> BOOLEAN]
    BY <1>2 DEF TypeOK, espconn_set_opt, Called
  <2>4. UNCHANGED <<life, role, conn, closed, packets, pbuf_num, recv_check, events, finish, send, listening, fault,
                    dropped>>
    BY <1>2 DEF espconn_set_opt
  <2>. QED
    BY <2>2, <2>3, <2>4 DEF TypeOK, Blames, packets, finish, send
<1>3. CASE espconn_tcp_set_buf_count(n)
  <2>0. PICK k \in Bufs : pbuf_num' = [pbuf_num EXCEPT ![n] = k]
    BY <1>3, Zenon DEF espconn_tcp_set_buf_count
  <2>1. calls' \in [Node -> Nat] /\ pbuf_num' \in [Node -> Nat]
    <3>1. k \in Nat
      BY LengthsAndCounts
    <3>2. calls' = [calls EXCEPT ![n] = @ + 1]
      BY <1>3 DEF espconn_tcp_set_buf_count, Called
    <3>. QED
      BY <2>0, <3>1, <3>2 DEF TypeOK
  <2>2. UNCHANGED <<life, role, conn, closed, packets, copy, nagle, recv_check, events, finish, send, listening, fault,
                    dropped, blame>>
    BY <1>3 DEF espconn_tcp_set_buf_count
  <2>. QED
    BY <2>1, <2>2 DEF TypeOK, Grows, packets, finish, send
<1>. QED
  BY <1>1, <1>2, <1>3

(* A close, from whichever side, tells the task at most once.              *)
LEMMA ClosesFacts ==
  ASSUME TypeOK, NEW n \in Node, Closes(n)
  PROVE  /\ conn' \in [Node -> {"idle", "syn", "up", "half", "closing", "gone"}]
         /\ closed' \in [Node -> BOOLEAN] /\ dropped' \in BOOLEAN
         /\ events' \in Seq(Event) /\ Len(events') <= QueueLen
         /\ Tells(n) \in Seq(Event) /\ Len(Tells(n)) = 1 /\ Tells(n)[1] = [sig |-> "CLOSE", node |-> n]
         /\ \/ UNCHANGED <<conn, closed, events>>
            \/ /\ Post(Tells(n)) /\ conn'[n] \in {"closing", "gone"} /\ closed'[n] /\ conn[n] # "gone"
               /\ conn'[n] = IF conn[n] \in {"idle", "syn"} THEN "gone" ELSE "closing"
               /\ \A m \in Node \ {n} : conn'[m] = conn[m] /\ closed'[m] = closed[m]
<1>1. [sig |-> "CLOSE", node |-> n] \in Event
  BY DEF Event
<1>2. Tells(n) \in Seq(Event) /\ Len(Tells(n)) = 1 /\ Tells(n)[1] = [sig |-> "CLOSE", node |-> n]
  BY <1>1 DEF Tells
<1>3. events \in Seq(Event) /\ Len(events) <= QueueLen
  BY EventFacts
<1>4. CASE UNCHANGED <<conn, closed, events, dropped>>
  BY <1>2, <1>3, <1>4 DEF TypeOK
<1>5. CASE /\ conn[n] # "gone" /\ Post(Tells(n))
           /\ conn' = [conn EXCEPT ![n] = IF @ \in {"idle", "syn"} THEN "gone" ELSE "closing"]
           /\ closed' = [closed EXCEPT ![n] = TRUE]
  <2>1. events' \in Seq(Event) /\ Len(events') <= QueueLen /\ (dropped \in BOOLEAN => dropped' \in BOOLEAN)
    BY <1>2, <1>3, <1>5, PostFacts
  <2>2. conn' \in [Node -> {"idle", "syn", "up", "half", "closing", "gone"}] /\ closed' \in [Node -> BOOLEAN]
    BY <1>5 DEF TypeOK
  <2>3. /\ conn'[n] = IF conn[n] \in {"idle", "syn"} THEN "gone" ELSE "closing"
        /\ \A m \in Node \ {n} : conn'[m] = conn[m] /\ closed'[m] = closed[m]
        /\ closed'[n]
    BY <1>5 DEF TypeOK
  <2>4. dropped' \in BOOLEAN
    BY <2>1 DEF TypeOK
  <2>. QED
    BY <1>2, <1>5, <2>1, <2>2, <2>3, <2>4
<1>. QED
  BY <1>4, <1>5 DEF Closes

LEMMA TypesClose ==
  ASSUME TypeOK, NEW n \in Node, Closes(n), recv_check' \in [Node -> 0 .. Timeout],
         UNCHANGED <<life, role, packets, options, finish, send, listening, fault, calls>>,
         blame' \in [Node -> SUBSET Blames]
  PROVE  TypeOK'
<1>1. /\ conn' \in [Node -> {"idle", "syn", "up", "half", "closing", "gone"}]
      /\ closed' \in [Node -> BOOLEAN] /\ dropped' \in BOOLEAN
      /\ events' \in Seq(Event) /\ Len(events') <= QueueLen
  BY ClosesFacts
<1>. QED
  BY <1>1 DEF TypeOK, Event, Blames, packets, options, finish, send

LEMMA TypesDisconnect ==
  ASSUME TypeOK, NEW n \in Node, espconn_disconnect(n)
  PROVE  TypeOK' /\ Grows
<1>1. Asking(n) \in SUBSET Blames
  <2>1. Cause("inside", busy = n) \in SUBSET Blames
    BY CausesTyped DEF Blames
  <2>2. Cause("listener", closed[n] /\ role[n] = "server") \in SUBSET Blames
    BY CausesTyped DEF Blames
  <2>. QED
    BY <2>1, <2>2 DEF Asking
<1>2. blame' \in [Node -> SUBSET Blames] /\ Grows
  BY <1>1, BlameFacts DEF espconn_disconnect
<1>3. Closes(n) /\ UNCHANGED <<life, role, packets, options, recv_check, finish, send, listening, fault, calls>>
  BY DEF espconn_disconnect
<1>4. recv_check' \in [Node -> 0 .. Timeout]
  BY <1>3 DEF TypeOK
<1>. QED
  BY <1>2, <1>3, <1>4, TypesClose

LEMMA OnePost ==
  ASSUME NEW S, NEW e \in S
  PROVE  <<e>> \in Seq(S) /\ Len(<<e>>) = 1 /\ <<e>>[1] = e
OBVIOUS

LEMMA TwoPosts ==
  ASSUME NEW S, NEW e \in S, NEW c \in S
  PROVE  /\ <<e>> \o <<c>> \in Seq(S) /\ Len(<<e>> \o <<c>>) = 2
         /\ (<<e>> \o <<c>>)[1] = e /\ (<<e>> \o <<c>>)[2] = c
<1>1. PICK x \in Seq(S), y \in Seq(S) : x = <<e>> /\ y = <<c>>
  BY OnePost
<1>2. Len(x) = 1 /\ Len(y) = 1 /\ x[1] = e /\ y[1] = c
  BY <1>1
<1>3. /\ x \o y \in Seq(S) /\ Len(x \o y) = Len(x) + Len(y)
      /\ \A i \in 1 .. Len(x) + Len(y) : (x \o y)[i] = IF i <= Len(x) THEN x[i] ELSE y[i - Len(x)]
  BY ConcatProperties
<1>4. (x \o y)[1] = x[1] /\ (x \o y)[2] = y[2 - 1]
  BY <1>2, <1>3
<1>. QED
  BY <1>1, <1>2, <1>3, <1>4

LEMMA AbortPosts ==
  ASSUME NEW n \in Node, NEW posts,
         posts = (IF conn[n] = "closing" THEN <<>> ELSE <<[sig |-> "ERRER", node |-> n]>>)
                   \o <<[sig |-> "CLOSE", node |-> n]>>
  PROVE  posts \in Seq(Event) /\ \A i \in 1 .. Len(posts) : posts[i].node = n
<1>1. PICK e \in Event, c \in Event : /\ e = [sig |-> "ERRER", node |-> n] /\ e.node = n
                                      /\ c = [sig |-> "CLOSE", node |-> n] /\ c.node = n
  BY DEF Event
<1>2. CASE posts = <<e>> \o <<c>>
  <2>1. posts \in Seq(Event) /\ Len(posts) = 2 /\ posts[1] = e /\ posts[2] = c
    BY <1>2, TwoPosts
  <2>. QED
    BY <1>1, <2>1
<1>3. CASE posts = <<c>>
  <2>1. posts \in Seq(Event) /\ Len(posts) = 1 /\ posts[1] = c
    BY <1>3, OnePost
  <2>. QED
    BY <1>1, <2>1
<1>4. <<>> \o <<c>> = <<c>>
  BY OnePost, ConcatEmptySeq
<1>. QED
  BY <1>1, <1>2, <1>3, <1>4, Zenon

LEMMA TypesAbort ==
  ASSUME TypeOK, NEW n \in Node, espconn_abort(n)
  PROVE  TypeOK' /\ Grows
<1>1. {"abort"} \in SUBSET Blames
  BY DEF Blames
<1>2. blame' \in [Node -> SUBSET Blames] /\ Grows
  BY <1>1, BlameFacts DEF espconn_abort
<1>3. PICK posts : posts = (IF conn[n] = "closing" THEN <<>> ELSE <<[sig |-> "ERRER", node |-> n]>>)
                            \o <<[sig |-> "CLOSE", node |-> n]>>
  OBVIOUS
<1>4. posts \in Seq(Event)
  BY <1>3, AbortPosts
<1>5. Post(posts)
  BY <1>3 DEF espconn_abort
<1>6. events \in Seq(Event) /\ Len(events) <= QueueLen
  BY EventFacts
<1>7. events' \in Seq(Event) /\ Len(events') <= QueueLen /\ (dropped \in BOOLEAN => dropped' \in BOOLEAN)
  BY <1>4, <1>5, <1>6, PostFacts
<1>8. /\ conn' \in [Node -> {"idle", "syn", "up", "half", "closing", "gone"}]
      /\ closed' \in [Node -> BOOLEAN]
  BY DEF TypeOK, espconn_abort
<1>9. UNCHANGED <<life, role, packets, options, recv_check, finish, send, listening, fault, calls>>
  BY DEF espconn_abort
<1>. QED
  BY <1>2, <1>7, <1>8, <1>9 DEF TypeOK, Event, Blames, packets, options, finish, send

LEMMA TypesLwip ==
  ASSUME TypeOK, NEW n \in Node, PeerCloses(n) \/ Receives(n) \/ espconn_server_poll(n) \/ Ends(n)
  PROVE  TypeOK' /\ UNCHANGED blame
<1>0. Timeout \in Nat \ {0}
  BY EspconnAssumption
<1>1. CASE PeerCloses(n)
  <2>1. /\ UNCHANGED <<life, role, packets, options, recv_check, finish, send, listening, fault, calls, blame>>
        /\ recv_check' \in [Node -> 0 .. Timeout] /\ blame' \in [Node -> SUBSET Blames]
    BY <1>1 DEF PeerCloses, TypeOK, Blames
  <2>2. CASE Closes(n)
    BY <2>1, <2>2, TypesClose
  <2>3. CASE conn' = [conn EXCEPT ![n] = "half"] /\ UNCHANGED <<closed, events, dropped>>
    BY <2>1, <2>3 DEF TypeOK, packets, options, finish, send
  <2>. QED
    BY <1>1, <2>1, <2>2, <2>3 DEF PeerCloses
<1>2. CASE Receives(n)
  <2>1. UNCHANGED <<life, role, conn, closed, packets, options, events, finish, send, listening, fault, bounds, blame>>
    BY <1>2 DEF Receives
  <2>2. recv_check' \in [Node -> 0 .. Timeout]
    BY <1>0, <1>2 DEF Receives, TypeOK
  <2>. QED
    BY <2>1, <2>2 DEF TypeOK, packets, options, finish, send, bounds
<1>3. CASE espconn_server_poll(n)
  <2>1. UNCHANGED <<life, role, packets, options, finish, send, listening, fault, calls, blame>>
    BY <1>3 DEF espconn_server_poll
  <2>2. blame' \in [Node -> SUBSET Blames]
    BY <2>1 DEF TypeOK, Blames
  <2>3. CASE conn[n] = "up" /\ recv_check[n] + 1 < Timeout
    <3>1. recv_check' = [recv_check EXCEPT ![n] = @ + 1] /\ UNCHANGED <<conn, closed, events, dropped>>
      BY <1>3, <2>3 DEF espconn_server_poll
    <3>2. recv_check' \in [Node -> 0 .. Timeout]
      BY <1>0, <2>3, <3>1 DEF TypeOK
    <3>. QED
      BY <2>1, <3>1, <3>2 DEF TypeOK, packets, options, finish, send
  <2>4. CASE ~(conn[n] = "up" /\ recv_check[n] + 1 < Timeout)
    <3>1. recv_check' = [recv_check EXCEPT ![n] = IF conn[n] = "up" THEN 0 ELSE @] /\ Closes(n)
      BY <1>3, <2>4 DEF espconn_server_poll
    <3>2. recv_check' \in [Node -> 0 .. Timeout]
      BY <1>0, <3>1 DEF TypeOK
    <3>. QED
      BY <2>1, <2>2, <3>1, <3>2, TypesClose
  <2>. QED
    BY <2>1, <2>3, <2>4
<1>4. CASE Ends(n)
  <2>1. /\ conn' \in [Node -> {"idle", "syn", "up", "half", "closing", "gone"}]
        /\ UNCHANGED <<life, role, closed, packets, options, recv_check, events, finish, send, listening, fault, bounds,
                       blame>>
    BY <1>4 DEF TypeOK, Ends
  <2>. QED
    BY <2>1 DEF TypeOK, packets, options, finish, send, bounds
<1>. QED
  BY <1>1, <1>2, <1>3, <1>4

LEMMA TypesErrs ==
  ASSUME TypeOK, NEW n \in Node, Errs(n)
  PROVE  TypeOK'
<1>1. <<[sig |-> "ERRER", node |-> n]>> \in Seq(Event)
  BY DEF Event
<1>2. events \in Seq(Event) /\ Len(events) <= QueueLen
  BY EventFacts
<1>3. events' \in Seq(Event) /\ Len(events') <= QueueLen /\ (dropped \in BOOLEAN => dropped' \in BOOLEAN)
  BY <1>1, <1>2, PostFacts DEF Errs
<1>4. /\ conn' \in [Node -> {"idle", "syn", "up", "half", "closing", "gone"}]
      /\ closed' \in [Node -> BOOLEAN]
  BY DEF TypeOK, Errs
<1>5. UNCHANGED <<life, role, packets, options, recv_check, finish, send, listening, fault, calls, blame>>
  BY DEF Errs
<1>. QED
  BY <1>3, <1>4, <1>5 DEF TypeOK, Event, packets, options, finish, send

LEMMA TypesFaults ==
  ASSUME TypeOK, NEW n \in Node,
         \/ SentFaults(n) \/ CloseFaults(n) \/ SentAcksFault(n)
         \/ (FinishFaults /\ n = busy) \/ (SendFaults /\ n = sending)
  PROVE  Fault(n) /\ TypeOK' /\ Grows
<1>1. Fault(n)
  BY DEF SentFaults, CloseFaults, SentAcksFault, FinishFaults, SendFaults
<1>. QED
  BY <1>1, FaultTypes

LEMMA TypesListen ==
  ASSUME TypeOK, espconn_accept \/ espconn_tcp_delete
  PROVE  TypeOK'
<1>1. /\ listening' \in BOOLEAN
      /\ UNCHANGED <<life, role, conn, closed, packets, options, recv_check, events, finish, send, fault, blame, bounds>>
  BY DEF espconn_accept, espconn_tcp_delete
<1>. QED
  BY <1>1 DEF TypeOK, packets, options, finish, send, bounds

LEMMA TypesDelete ==
  ASSUME TypeOK, NEW n \in Node, Delete(n), UNCHANGED <<role, finish, send, listening, fault, dropped, blame>>,
         events' \in Seq(Event), Len(events') <= QueueLen
  PROVE  TypeOK'
<1>0. Timeout \in Nat \ {0}
  BY EspconnAssumption
<1>1. /\ life' \in [Node -> {"unused", "listed", "freed"}]
      /\ conn' \in [Node -> {"idle", "syn", "up", "half", "closing", "gone"}]
      /\ closed' \in [Node -> BOOLEAN] /\ write_flag' \in [Node -> BOOLEAN]
      /\ copy' \in [Node -> BOOLEAN] /\ nagle' \in [Node -> BOOLEAN]
  BY DEF TypeOK, Delete
<1>2. /\ pbuf' \in [Node -> Seq(Packet)] /\ ptail' \in [Node -> Nat \union {NoBuf, Freed}]
  <2>1. <<>> \in Seq(Packet)
    BY EmptySeq
  <2>. QED
    BY <2>1 DEF TypeOK, Delete
<1>3. /\ wrote' \in [Node -> Nat] /\ acked' \in [Node -> Nat] /\ pbuf_num' \in [Node -> Nat]
      /\ recv_check' \in [Node -> 0 .. Timeout] /\ calls' \in [Node -> Nat]
  BY <1>0 DEF TypeOK, Delete
<1>. QED
  BY <1>1, <1>2, <1>3 DEF TypeOK, Event, finish, send

LEMMA TypesTask ==
  ASSUME TypeOK, espconn_Task
  PROVE  TypeOK' /\ Grows
<1>1. PICK e : e = Head(events)
  OBVIOUS
<1>2. /\ events \in Seq(Event) /\ Len(events) <= QueueLen /\ events # <<>> /\ Len(events) \in Nat
  BY EventFacts DEF espconn_Task
<1>3. e \in Event /\ Tail(events) \in Seq(Event) /\ Len(Tail(events)) <= QueueLen
  <2>1. Len(Tail(events)) = Len(events) - 1 /\ QueueLen \in Nat
    BY <1>2, HeadTailProperties, EspconnAssumption
  <2>. QED
    BY <1>1, <1>2, <2>1, HeadTailProperties
<1>4. e.node \in Node
  BY <1>3 DEF Event
<1>5. CASE life[e.node] # "listed" /\ Fault(e.node)
  BY <1>4, <1>5, FaultTypes
<1>6. CASE /\ events' = Tail(events)
           /\ UNCHANGED <<life, conn, closed, packets, options, recv_check, calls>> \/ Delete(e.node)
           /\ UNCHANGED <<role, finish, send, listening, fault, dropped, blame>>
  <2>1. events' \in Seq(Event) /\ Len(events') <= QueueLen /\ Grows
    BY <1>3, <1>6 DEF Grows
  <2>2. CASE UNCHANGED <<life, conn, closed, packets, options, recv_check, calls>>
    BY <1>6, <2>1, <2>2 DEF TypeOK, Event, packets, options, finish, send
  <2>3. CASE Delete(e.node)
    BY <1>4, <1>6, <2>1, <2>3, TypesDelete
  <2>. QED
    BY <1>6, <2>1, <2>2, <2>3
<1>. QED
  BY <1>1, <1>5, <1>6 DEF espconn_Task

-----------------------------------------------------------------------------
(* What becomes of a node, its connection and its events in every step.    *)

LEMMA FinishingFrame ==
  ASSUME TypeOK, Control, UNCHANGED busy, Grows,
         \A m \in Node : busy = m /\ Attached(m) => Attached(m)' \/ Disturbed(m)'
  PROVE  Finishing'
<1>1. busy # 0 => busy \in Node
  BY NodeNat DEF TypeOK, Node
<1>2. busy # 0 => Attached(busy) \/ Disturbed(busy)
  BY DEF Control, Finishing
<1>3. CASE busy = 0
  BY <1>3 DEF Finishing
<1>4. CASE busy # 0
  <2>1. PICK m \in Node : m = busy /\ m = busy'
    BY <1>1, <1>4
  <2>2. Disturbed(m) => Disturbed(m)'
    BY BlameStays
  <2>3. Attached(m) => Attached(m)' \/ Disturbed(m)'
    BY <2>1
  <2>4. Attached(m) \/ Disturbed(m)
    BY <1>2, <1>4, <2>1 DEF Attached, Disturbed
  <2>. QED
    BY <2>1, <2>2, <2>3, <2>4 DEF Finishing, Attached, Disturbed
<1>. QED
  BY <1>3, <1>4

(* Nothing that the control part speaks of changes, or more is blamed.     *)
LEMMA ControlFrame ==
  ASSUME TypeOK, Control, UNCHANGED <<life, conn, events, busy>>, Grows,
         \A m \in Node : life[m] = "unused" => blame'[m] = blame[m],
         \A m \in Node : closed[m] => closed'[m] \/ Spoilt(m)'
  PROVE  Control'
<1>3. ASSUME NEW m \in Node PROVE Lives(m)'
  <2>1. Spoilt(m) => Spoilt(m)'
    BY BlameStays
  <2>2. life[m] = "unused" => (Disturbed(m)' <=> Disturbed(m))
    BY BlameSame
  <2>3. Lives(m)
    BY DEF Control
  <2>. QED
    BY <2>1, <2>2, <2>3 DEF Lives
<1>4. Announced'
  BY AnnouncedFrame
<1>5. Finishing'
  BY FinishingFrame DEF Attached
<1>. QED
  BY <1>3, <1>4, <1>5 DEF Control

LEMMA ControlOpen ==
  ASSUME TypeOK, Control, NEW n \in Node,
         espconn_connect(n) \/ espconn_client_connect(n) \/ espconn_tcp_accept(n)
  PROVE  Control'
<1>1. /\ UNCHANGED <<closed, events, busy, fault, blame>> /\ fault = 0
      /\ \A m \in Node \ {n} : life'[m] = life[m] /\ conn'[m] = conn[m]
      /\ life[n] = "unused" \/ (life'[n] = life[n] /\ busy = 0)
  <2>1. CASE espconn_connect(n)
    <3>1. /\ UNCHANGED <<closed, events, busy, fault, blame>> /\ fault = 0 /\ life[n] = "unused"
          /\ \/ life' = [life EXCEPT ![n] = "freed"] /\ UNCHANGED conn
             \/ \E c \in {"syn", "idle"} :
                  life' = [life EXCEPT ![n] = "listed"] /\ conn' = [conn EXCEPT ![n] = c]
      BY <2>1 DEF espconn_connect, Creates, Running, finish
    <3>. QED
      BY <3>1 DEF TypeOK
  <2>2. CASE espconn_client_connect(n)
    BY <2>2 DEF espconn_client_connect, Established, Running, TypeOK, finish
  <2>3. CASE espconn_tcp_accept(n)
    BY <2>3 DEF espconn_tcp_accept, Established, Creates, Running, TypeOK, finish
  <2>. QED
    BY <2>1, <2>2, <2>3
<1>2. /\ life'[n] # "unused" /\ conn'[n] \notin {"closing", "gone"}
      /\ conn'[n] \in {"syn", "up", "half"} => life'[n] = "listed"
      /\ conn[n] \notin {"closing", "gone"}
  <2>0. Lives(n)
    BY DEF Control
  <2>1. CASE espconn_connect(n)
    BY <2>0, <2>1 DEF espconn_connect, Creates, TypeOK, Lives
  <2>2. CASE espconn_client_connect(n)
    BY <2>0, <2>2 DEF espconn_client_connect, Established, TypeOK, Lives
  <2>3. CASE espconn_tcp_accept(n)
    BY <2>0, <2>3 DEF espconn_tcp_accept, Established, Creates, TypeOK, Lives
  <2>. QED
    BY <2>1, <2>2, <2>3
<1>3. Grows
  BY <1>1 DEF Grows
<1>4. ASSUME NEW m \in Node PROVE Lives(m)'
  <2>1. Lives(m) /\ (Spoilt(m)' <=> Spoilt(m)) /\ (Disturbed(m)' <=> Disturbed(m))
    BY <1>1, BlameSame DEF Control
  <2>2. CASE m = n
    BY <1>2, <2>2 DEF Lives
  <2>3. CASE m # n
    BY <1>1, <2>1, <2>3 DEF Lives
  <2>. QED
    BY <2>2, <2>3
<1>5. Announced'
  <2>1. \A m \in Node : life[m] = "unused" \/ life'[m] = life[m]
    BY <1>1
  <2>2. \A m \in Node : life[m] # "unused" /\ conn[m] \in {"closing", "gone"} => conn'[m] \in {"closing", "gone"}
    BY <1>1, <1>2
  <2>. QED
    BY <1>1, <1>3, <2>1, <2>2, AnnouncedFrame
<1>6. Finishing'
  <2>1. ASSUME NEW m \in Node, busy = m, Attached(m) PROVE m # n
    BY <1>1, <2>1, NodeNat DEF Control, Lives, Attached
  <2>2. \A m \in Node : busy = m /\ Attached(m) => Attached(m)'
    BY <1>1, <2>1 DEF Attached
  <2>. QED
    BY <1>1, <1>3, <2>2, FinishingFrame
<1>. QED
  BY <1>1, <1>4, <1>5, <1>6 DEF Control

(* The connection of n ends, and the task is told, or it goes on ending.   *)
LEMMA ControlEnd ==
  ASSUME TypeOK, Control, NEW n \in Node, fault = 0, UNCHANGED <<life, busy, fault>>, Grows,
         life[n] = "listed",
         \A m \in Node \ {n} : conn'[m] = conn[m] /\ closed'[m] = closed[m] /\ blame'[m] = blame[m],
         conn'[n] \in {"closing", "gone"},
         closed'[n] \/ Spoilt(n)',
         busy = n => ~Attached(n) \/ Disturbed(n)',
         NEW posts \in Seq(Event), Post(posts) \/ (posts = <<>> /\ UNCHANGED events),
         \A i \in 1 .. Len(posts) :
           posts[i].node = n /\ (Spoilt(n)' \/ (conn[n] \notin {"closing", "gone"} /\ Len(posts) = 1))
  PROVE  Control'
<1>1. ASSUME NEW m \in Node PROVE Lives(m)'
  <2>1. Lives(m)
    BY DEF Control
  <2>2. CASE m = n
    BY <2>2 DEF Lives
  <2>3. CASE m # n
    <3>1. (Spoilt(m)' <=> Spoilt(m)) /\ (Disturbed(m)' <=> Disturbed(m))
      BY <2>3, BlameSame
    <3>. QED
      BY <2>1, <2>3, <3>1 DEF Lives
  <2>. QED
    BY <2>2, <2>3
<1>2. \A m \in Node : conn[m] \in {"closing", "gone"} => conn'[m] \in {"closing", "gone"}
  OBVIOUS
<1>3. Announced'
  <2>1. CASE Post(posts)
    BY <1>2, <2>1, AnnouncedPost
  <2>2. CASE UNCHANGED events
    BY <1>2, <2>2, AnnouncedFrame
  <2>. QED
    BY <2>1, <2>2
<1>4. Finishing'
  <2>1. \A m \in Node : busy = m /\ Attached(m) => Attached(m)' \/ Disturbed(m)'
    BY DEF Attached
  <2>. QED
    BY <2>1, FinishingFrame
<1>. QED
  BY <1>1, <1>3, <1>4 DEF Control

(* A step that leaves life, connections and events alone.                  *)
LEMMA ControlQuiet ==
  ASSUME TypeOK, Control, NEW n \in Node,
         \/ Refused(n) \/ espconn_set_opt(n, TRUE) \/ espconn_set_opt(n, FALSE)
         \/ espconn_tcp_set_buf_count(n) \/ Receives(n) \/ espconn_accept \/ espconn_tcp_delete
  PROVE  Control' /\ Grows
<1>1. ASSUME NEW S \in SUBSET Blames, Blame(n, S), life[n] = "listed",
             UNCHANGED <<life, conn, events, busy, fault>>,
             \A m \in Node \ {n} : closed'[m] = closed[m], closed[n] => closed'[n] \/ "reopened" \in S
      PROVE  Control' /\ Grows
  <2>1. Grows /\ blame'[n] = blame[n] \union S /\ \A m \in Node \ {n} : blame'[m] = blame[m]
    BY <1>1, BlameFacts
  <2>2. \A m \in Node : life[m] = "unused" => blame'[m] = blame[m]
    BY <1>1, <2>1
  <2>3. \A m \in Node : closed[m] => closed'[m] \/ Spoilt(m)'
    BY <1>1, <2>1 DEF TypeOK, Spoilt
  <2>. QED
    BY <1>1, <2>1, <2>2, <2>3, ControlFrame
<1>2. CASE Refused(n)
  <2>1. /\ Blame(n, Reopened(n)) /\ life[n] = "listed" /\ Opens(n)
        /\ UNCHANGED <<life, conn, events, busy, fault>>
    BY <1>2 DEF Refused, Called, finish
  <2>2. Reopened(n) \in SUBSET Blames
    BY CausesTyped DEF Reopened, Blames
  <2>3. (\A m \in Node \ {n} : closed'[m] = closed[m]) /\ (closed[n] => closed'[n] \/ "reopened" \in Reopened(n))
    BY <2>1, OpensFacts
  <2>. QED
    BY <1>1, <2>1, <2>2, <2>3
<1>3. ASSUME NEW on \in BOOLEAN, espconn_set_opt(n, on) PROVE Control' /\ Grows
  <2>1. /\ Blame(n, Cause("option", ~on /\ ~write_flag[n] /\ Attached(n))) /\ life[n] = "listed"
        /\ UNCHANGED <<life, conn, closed, events, busy, fault>>
    BY <1>3 DEF espconn_set_opt, Called, finish
  <2>2. Cause("option", ~on /\ ~write_flag[n] /\ Attached(n)) \in SUBSET Blames
    BY CausesTyped DEF Blames
  <2>. QED
    BY <1>1, <2>1, <2>2
<1>4. CASE espconn_tcp_set_buf_count(n) \/ Receives(n) \/ espconn_accept \/ espconn_tcp_delete
  <2>1. UNCHANGED <<life, conn, closed, events, busy, fault, blame>>
    <3>1. CASE espconn_tcp_set_buf_count(n)
      BY <3>1 DEF espconn_tcp_set_buf_count, finish
    <3>2. CASE Receives(n)
      BY <3>2 DEF Receives, finish
    <3>3. CASE espconn_accept
      BY <3>3 DEF espconn_accept, finish
    <3>4. CASE espconn_tcp_delete
      BY <3>4 DEF espconn_tcp_delete, finish
    <3>. QED
      BY <1>4, <3>1, <3>2, <3>3, <3>4
  <2>2. Grows
    BY <2>1 DEF Grows
  <2>. QED
    BY <2>1, <2>2, ControlFrame
<1>. QED
  BY <1>2, <1>3, <1>4

LEMMA ControlClose ==
  ASSUME TypeOK, Control, NEW n \in Node, Closes(n), fault = 0, UNCHANGED <<life, busy, fault>>,
         life[n] = "listed", NEW S \in SUBSET Blames, Blame(n, S) \/ (S = {} /\ UNCHANGED blame),
         busy = n => "inside" \in S,
         conn[n] = "closing" => Spoilt(n) \/ "listener" \in S
  PROVE  Control'
<1>1. Grows /\ blame'[n] = blame[n] \union S /\ \A m \in Node \ {n} : blame'[m] = blame[m]
  BY BlameFacts DEF Grows
<1>2. /\ Tells(n) \in Seq(Event) /\ Len(Tells(n)) = 1 /\ Tells(n)[1] = [sig |-> "CLOSE", node |-> n]
      /\ \/ UNCHANGED <<conn, closed, events>>
         \/ /\ Post(Tells(n)) /\ conn'[n] \in {"closing", "gone"} /\ closed'[n] /\ conn[n] # "gone"
            /\ \A m \in Node \ {n} : conn'[m] = conn[m] /\ closed'[m] = closed[m]
  BY ClosesFacts
<1>3. CASE UNCHANGED <<conn, closed, events>>
  <2>1. \A m \in Node : life[m] = "unused" => blame'[m] = blame[m]
    BY <1>1
  <2>. QED
    BY <1>1, <1>3, <2>1, ControlFrame
<1>4. CASE /\ Post(Tells(n)) /\ conn'[n] \in {"closing", "gone"} /\ closed'[n] /\ conn[n] # "gone"
           /\ \A m \in Node \ {n} : conn'[m] = conn[m] /\ closed'[m] = closed[m]
  <2>1. conn[n] = "closing" => Spoilt(n)'
    BY <1>1 DEF Spoilt
  <2>2. \A i \in 1 .. Len(Tells(n)) :
          Tells(n)[i].node = n /\ (Spoilt(n)' \/ (conn[n] \notin {"closing", "gone"} /\ Len(Tells(n)) = 1))
    BY <1>2, <1>4, <2>1
  <2>3. busy = n => Disturbed(n)'
    BY <1>1 DEF Disturbed
  <2>. QED
    BY <1>1, <1>2, <1>4, <2>2, <2>3, ControlEnd
<1>. QED
  BY <1>2, <1>3, <1>4

LEMMA ControlDisconnect ==
  ASSUME TypeOK, Control, NEW n \in Node, espconn_disconnect(n)
  PROVE  Control'
<1>1. /\ Closes(n) /\ fault = 0 /\ UNCHANGED <<life, busy, fault>> /\ life[n] = "listed"
      /\ Blame(n, Asking(n)) /\ (~closed[n] \/ role[n] = "server")
  BY DEF espconn_disconnect, Asked, Running, MayClose, finish
<1>2. Asking(n) \in SUBSET Blames /\ (busy = n => "inside" \in Asking(n))
      /\ (closed[n] /\ role[n] = "server" => "listener" \in Asking(n))
  BY Zenon DEF Asking, Cause, Blames
<1>3. conn[n] = "closing" => Spoilt(n) \/ "listener" \in Asking(n)
  BY <1>1, <1>2 DEF Control, Lives
<1>. QED
  BY <1>1, <1>2, <1>3, ControlClose

LEMMA ControlAbort ==
  ASSUME TypeOK, Control, NEW n \in Node, espconn_abort(n)
  PROVE  Control'
<1>1. {"abort"} \in SUBSET Blames
  BY DEF Blames
<1>2. Grows /\ Spoilt(n)' /\ \A m \in Node \ {n} : blame'[m] = blame[m]
  BY <1>1, BlameFacts DEF espconn_abort, Spoilt
<1>3. PICK posts : posts = (IF conn[n] = "closing" THEN <<>> ELSE <<[sig |-> "ERRER", node |-> n]>>)
                            \o <<[sig |-> "CLOSE", node |-> n]>>
  OBVIOUS
<1>4. posts \in Seq(Event) /\ \A i \in 1 .. Len(posts) : posts[i].node = n
  BY <1>3, AbortPosts
<1>5. Post(posts)
  BY <1>3 DEF espconn_abort
<1>6. /\ conn' = [conn EXCEPT ![n] = "gone"] /\ closed' = [closed EXCEPT ![n] = TRUE]
      /\ fault = 0 /\ life[n] = "listed" /\ UNCHANGED <<life, busy, fault>>
  BY DEF espconn_abort, Asked, Running, finish
<1>7. conn'[n] = "gone" /\ closed'[n] /\ \A m \in Node \ {n} : conn'[m] = conn[m] /\ closed'[m] = closed[m]
  BY <1>6 DEF TypeOK
<1>8. conn'[n] \in {"closing", "gone"} /\ Disturbed(n)'
  BY <1>2, <1>7, SpoiltDisturbs DEF Spoilt, Disturbed
<1>. QED
  BY <1>2, <1>4, <1>5, <1>6, <1>7, <1>8, ControlEnd

LEMMA ControlLwip ==
  ASSUME TypeOK, Control, NEW n \in Node, PeerCloses(n) \/ espconn_server_poll(n)
  PROVE  Control'
<1>1. /\ fault = 0 /\ busy = 0 /\ conn[n] \in {"up", "half"} /\ UNCHANGED <<life, busy, fault, blame>>
      /\ \/ Closes(n)
         \/ UNCHANGED <<conn, closed, events>>
         \/ conn' = [conn EXCEPT ![n] = "half"] /\ UNCHANGED <<closed, events>>
  BY DEF PeerCloses, espconn_server_poll, Running, Attached, finish
<1>2. n # 0 /\ life[n] = "listed" /\ Grows
  BY <1>1, NodeNat DEF Control, Lives, Grows
<1>3. CASE Closes(n)
  <2>1. {} \in SUBSET Blames
    OBVIOUS
  <2>. QED
    BY <1>1, <1>2, <1>3, <2>1, ControlClose
<1>4. CASE UNCHANGED <<conn, closed, events>>
  BY <1>1, <1>2, <1>4, ControlFrame
<1>5. CASE conn' = [conn EXCEPT ![n] = "half"] /\ UNCHANGED <<closed, events>>
  <2>1. conn'[n] = "half" /\ \A m \in Node \ {n} : conn'[m] = conn[m]
    BY <1>5 DEF TypeOK
  <2>2. ASSUME NEW m \in Node PROVE Lives(m)'
    <3>1. Lives(m) /\ (Spoilt(m)' <=> Spoilt(m)) /\ (Disturbed(m)' <=> Disturbed(m))
      BY <1>1, BlameSame DEF Control
    <3>2. CASE m = n
      BY <1>1, <1>2, <2>1, <3>2 DEF Lives
    <3>3. CASE m # n
      BY <1>1, <1>5, <2>1, <3>1, <3>3 DEF Lives
    <3>. QED
      BY <3>2, <3>3
  <2>3. \A m \in Node : conn[m] \in {"closing", "gone"} => conn'[m] \in {"closing", "gone"}
    BY <1>1, <2>1
  <2>4. Announced'
    BY <1>1, <1>2, <1>5, <2>3, AnnouncedFrame
  <2>5. Finishing'
    BY <1>1 DEF Finishing
  <2>. QED
    BY <1>1, <2>2, <2>4, <2>5 DEF Control
<1>. QED
  BY <1>1, <1>3, <1>4, <1>5

LEMMA ControlErrs ==
  ASSUME TypeOK, Control, NEW n \in Node, Errs(n) \/ Ends(n)
  PROVE  Control'
<1>1. CASE Errs(n)
  <2>1. /\ conn' = [conn EXCEPT ![n] = "gone"] /\ closed' = [closed EXCEPT ![n] = TRUE]
        /\ Post(<<[sig |-> "ERRER", node |-> n]>>) /\ conn[n] \in {"syn", "up", "half"}
        /\ fault = 0 /\ busy = 0 /\ UNCHANGED <<life, busy, fault, blame>>
    BY <1>1 DEF Errs, Running, finish
  <2>2. life[n] = "listed" /\ Grows /\ busy # n
    BY <2>1, NodeNat DEF Control, Lives, Grows
  <2>3. PICK e \in Event : e = [sig |-> "ERRER", node |-> n] /\ e.node = n
    <3>1. [sig |-> "ERRER", node |-> n] \in Event
      BY DEF Event
    <3>. QED
      BY <3>1
  <2>4. PICK posts \in Seq(Event) : Post(posts) /\ Len(posts) = 1 /\ posts[1] = e
    BY <2>1, <2>3, OnePost
  <2>5. /\ conn'[n] \in {"closing", "gone"} /\ closed'[n]
        /\ \A m \in Node \ {n} : conn'[m] = conn[m] /\ closed'[m] = closed[m] /\ blame'[m] = blame[m]
    BY <2>1 DEF TypeOK
  <2>6. \A i \in 1 .. Len(posts) :
          posts[i].node = n /\ (Spoilt(n)' \/ (conn[n] \notin {"closing", "gone"} /\ Len(posts) = 1))
    BY <2>1, <2>3, <2>4
  <2>. QED
    BY <2>1, <2>2, <2>4, <2>5, <2>6, ControlEnd
<1>2. CASE Ends(n)
  <2>1. /\ conn' = [conn EXCEPT ![n] = "gone"] /\ conn[n] = "closing" /\ fault = 0
        /\ UNCHANGED <<life, closed, events, busy, fault, blame>>
    BY <1>2 DEF Ends, Running, finish
  <2>2. life[n] = "listed" /\ Grows /\ ~Attached(n) /\ (closed[n] \/ Spoilt(n))
    BY <2>1 DEF Control, Lives, Grows, Attached
  <2>3. /\ conn'[n] \in {"closing", "gone"} /\ (closed'[n] \/ Spoilt(n)')
        /\ \A m \in Node \ {n} : conn'[m] = conn[m] /\ closed'[m] = closed[m] /\ blame'[m] = blame[m]
    BY <2>1, <2>2, BlameSame DEF TypeOK
  <2>4. PICK posts \in Seq(Event) : posts = <<>> /\ Len(posts) = 0
    BY EmptySeq
  <2>5. \A i \in 1 .. Len(posts) :
          posts[i].node = n /\ (Spoilt(n)' \/ (conn[n] \notin {"closing", "gone"} /\ Len(posts) = 1))
    BY <2>4
  <2>. QED
    BY <2>1, <2>2, <2>3, <2>4, <2>5, ControlEnd
<1>. QED
  BY <1>1, <1>2

LEMMA ControlFault ==
  ASSUME TypeOK, Control, NEW n \in Node, Fault(n)
  PROVE  Control'
<1>1. UNCHANGED <<life, conn, closed, events, busy, blame>>
  BY DEF Fault, finish
<1>2. Grows
  BY <1>1 DEF Grows
<1>. QED
  BY <1>1, <1>2, ControlFrame

LEMMA FirstEvent ==
  ASSUME TypeOK, Control, events # <<>>, NEW e, e = Head(events)
  PROVE  /\ e \in Event /\ e.node \in Node
         /\ life[e.node] # "listed" => Spoilt(e.node)
         /\ e.sig # "WRITE" =>
              /\ life[e.node] = "listed" => conn[e.node] \in {"closing", "gone"}
              /\ \A j \in 2 .. Len(events) : events[j].node = e.node => Spoilt(e.node)
<1>1. events \in Seq(Event) /\ Len(events) \in Nat /\ 1 \in 1 .. Len(events)
  BY EventFacts, EmptySeq
<1>2. e = events[1] /\ e \in Event
  BY <1>1, ElementOfSeq
<1>3. e.node \in Node
  BY <1>2 DEF Event
<1>. QED
  BY <1>1, <1>2, <1>3 DEF Control, Announced

LEMMA ControlTask ==
  ASSUME TypeOK, Control, espconn_Task
  PROVE  Control'
<1>1. events # <<>>
  BY DEF espconn_Task
<1>2. PICK e : e = Head(events)
  OBVIOUS
<1>3. /\ e \in Event /\ e.node \in Node
      /\ life[e.node] # "listed" => Spoilt(e.node)
      /\ e.sig # "WRITE" =>
           /\ life[e.node] = "listed" => conn[e.node] \in {"closing", "gone"}
           /\ \A j \in 2 .. Len(events) : events[j].node = e.node => Spoilt(e.node)
  BY <1>1, <1>2, FirstEvent
<1>4. CASE life[e.node] # "listed" /\ Fault(e.node)
  BY <1>3, <1>4, ControlFault
<1>5. CASE /\ life[e.node] = "listed" /\ events' = Tail(events)
           /\ \/ e.sig = "WRITE" /\ UNCHANGED <<life, conn, closed, packets, options, recv_check, calls>>
              \/ e.sig # "WRITE" /\ Delete(e.node)
           /\ UNCHANGED <<role, finish, send, listening, fault, dropped, blame>>
  <2>1. PICK n \in Node : n = e.node
    BY <1>3
  <2>2. fault = 0 /\ fault' = 0 /\ busy' = busy /\ blame' = blame
    BY <1>5 DEF espconn_Task, Running, finish
  <2>3. /\ \A m \in Node \ {n} : life'[m] = life[m] /\ conn'[m] = conn[m] /\ closed'[m] = closed[m]
        /\ \/ life'[n] = life[n] /\ conn'[n] = conn[n] /\ closed'[n] = closed[n]
           \/ /\ life'[n] = "freed" /\ conn[n] \in {"closing", "gone"} /\ conn'[n] = "gone"
              /\ e.sig # "WRITE"
    <3>1. CASE UNCHANGED <<life, conn, closed, packets, options, recv_check, calls>>
      BY <3>1
    <3>2. CASE e.sig # "WRITE" /\ Delete(e.node)
      <4>1. conn[n] \in {"closing", "gone"}
        BY <1>3, <1>5, <2>1, <3>2
      <4>2. /\ life' = [life EXCEPT ![n] = "freed"]
            /\ conn' = [conn EXCEPT ![n] = IF @ = "closing" THEN "gone" ELSE @]
            /\ closed' = [closed EXCEPT ![n] = FALSE]
        BY <2>1, <3>2 DEF Delete
      <4>. QED
        BY <3>2, <4>1, <4>2 DEF TypeOK
    <3>. QED
      BY <1>5, <3>1, <3>2
  <2>4. ASSUME NEW m \in Node PROVE Lives(m)'
    <3>1. Lives(m) /\ (Spoilt(m)' <=> Spoilt(m)) /\ (Disturbed(m)' <=> Disturbed(m))
      BY <2>2, BlameSame DEF Control
    <3>2. CASE life'[m] = life[m] /\ conn'[m] = conn[m] /\ closed'[m] = closed[m]
      BY <2>2, <3>1, <3>2 DEF Lives
    <3>3. CASE life'[m] = "freed" /\ conn'[m] = "gone"
      BY <3>3 DEF Lives
    <3>. QED
      BY <2>3, <3>2, <3>3
  <2>5. Announced'
    <3>1. /\ events \in Seq(Event) /\ Len(events) \in Nat /\ Len(events') = Len(events) - 1
          /\ \A i \in 1 .. Len(events') : events'[i] = events[i + 1]
      BY <1>1, <1>5, EventFacts, HeadTailProperties
    <3>2. ASSUME NEW i \in 1 .. Len(events'), NEW m, m = events'[i].node
          PROVE  /\ life'[m] # "listed" => Spoilt(m)
                 /\ events'[i].sig # "WRITE" =>
                      /\ life'[m] = "listed" => conn'[m] \in {"closing", "gone"}
                      /\ \A j \in i + 1 .. Len(events') : events'[j].node = m => Spoilt(m)
      <4>1. PICK k \in 2 .. Len(events) : k = i + 1
        BY <3>1
      <4>2. k \in 1 .. Len(events) /\ events'[i] = events[k]
        BY <3>1, <4>1
      <4>3. m \in Node /\ m = events[k].node
        BY <3>2, <4>2, EventFacts
      <4>4. /\ life[m] # "listed" => Spoilt(m)
            /\ events[k].sig # "WRITE" =>
                 /\ life[m] = "listed" => conn[m] \in {"closing", "gone"}
                 /\ \A j \in k + 1 .. Len(events) : events[j].node = m => Spoilt(m)
        BY <4>2, <4>3 DEF Control, Announced
      <4>5. ASSUME events'[i].sig # "WRITE", NEW j \in i + 1 .. Len(events'), events'[j].node = m
            PROVE  Spoilt(m)
        <5>1. j + 1 \in k + 1 .. Len(events) /\ events'[j] = events[j + 1]
          BY <3>1, <4>1
        <5>. QED
          BY <4>2, <4>4, <4>5, <5>1
      <4>6. CASE life'[m] = life[m] /\ conn'[m] = conn[m]
        BY <4>2, <4>4, <4>5, <4>6
      <4>7. CASE m = n /\ e.sig # "WRITE" /\ life'[m] = "freed"
        <5>1. Spoilt(m)
          BY <1>3, <2>1, <4>1, <4>3, <4>7
        <5>. QED
          BY <4>7, <5>1
      <4>. QED
        BY <2>3, <4>3, <4>6, <4>7
    <3>. QED
      BY <2>2, <3>2 DEF Announced, Spoilt
  <2>6. Finishing'
    <3>1. Grows /\ UNCHANGED busy
      BY <2>2 DEF Grows
    <3>2. \A m \in Node : busy = m /\ Attached(m) => Attached(m)' \/ Disturbed(m)'
      BY <2>3 DEF Attached
    <3>. QED
      BY <3>1, <3>2, FinishingFrame
  <2>. QED
    BY <2>2, <2>4, <2>5, <2>6 DEF Control
<1>. QED
  BY <1>2, <1>4, <1>5 DEF espconn_Task

-----------------------------------------------------------------------------
(* The steps that leave the packets alone.                                 *)

QuietStep(n) ==
  \/ Refused(n) \/ espconn_tcp_set_buf_count(n) \/ Receives(n) \/ espconn_accept \/ espconn_tcp_delete
  \/ espconn_disconnect(n) \/ espconn_abort(n) \/ PeerCloses(n) \/ espconn_server_poll(n)
  \/ Errs(n) \/ Ends(n) \/ Fault(n)

LEMMA ClosesDetaches ==
  ASSUME TypeOK, NEW n \in Node, Closes(n)
  PROVE  \A m \in Node : (Attached(m)' => Attached(m)) /\ (conn'[m] # "gone" => conn[m] # "gone")
<1>1. \/ UNCHANGED conn
      \/ conn'[n] \in {"closing", "gone"} /\ conn[n] # "gone" /\ \A m \in Node \ {n} : conn'[m] = conn[m]
  BY ClosesFacts
<1>. QED
  BY <1>1 DEF Attached

LEMMA QuietFacts ==
  ASSUME TypeOK, NEW n \in Node, QuietStep(n)
  PROVE  /\ UNCHANGED <<life, packets, finish, send, copy>>
         /\ \A m \in Node : (Attached(m)' => Attached(m)) /\ (conn'[m] # "gone" => conn[m] # "gone")
<1>1. CASE Refused(n) \/ espconn_tcp_set_buf_count(n) \/ Receives(n)
  <2>1. UNCHANGED <<life, packets, finish, send, copy, conn>>
    BY <1>1 DEF Refused, espconn_tcp_set_buf_count, Receives, options
  <2>. QED
    BY <2>1 DEF Attached
<1>2. CASE espconn_accept \/ espconn_tcp_delete \/ Fault(n)
  <2>1. UNCHANGED <<life, packets, finish, send, copy, conn>>
    BY <1>2 DEF espconn_accept, espconn_tcp_delete, Fault, options
  <2>. QED
    BY <2>1 DEF Attached
<1>3. CASE espconn_disconnect(n)
  <2>1. UNCHANGED <<life, packets, finish, send, copy>> /\ Closes(n)
    BY <1>3 DEF espconn_disconnect, options
  <2>. QED
    BY <2>1, ClosesDetaches
<1>4. CASE PeerCloses(n) \/ espconn_server_poll(n)
  <2>1. /\ UNCHANGED <<life, packets, finish, send, copy>> /\ conn[n] \in {"up", "half"}
        /\ UNCHANGED conn \/ Closes(n) \/ conn' = [conn EXCEPT ![n] = "half"]
    BY <1>4 DEF PeerCloses, espconn_server_poll, Attached, options
  <2>2. CASE UNCHANGED conn
    BY <2>1, <2>2 DEF Attached
  <2>3. CASE conn' = [conn EXCEPT ![n] = "half"]
    BY <2>1, <2>3 DEF Attached, TypeOK
  <2>. QED
    BY <2>1, <2>2, <2>3, ClosesDetaches
<1>5. CASE espconn_abort(n) \/ Errs(n) \/ Ends(n)
  <2>1. UNCHANGED <<life, packets, finish, send, copy>> /\ conn' = [conn EXCEPT ![n] = "gone"]
    BY <1>5 DEF espconn_abort, Errs, Ends, options
  <2>. QED
    BY <2>1 DEF Attached, TypeOK
<1>. QED
  BY <1>1, <1>2, <1>3, <1>4, <1>5 DEF QuietStep

LEMMA PacketsQuiet ==
  ASSUME IInv, NEW n \in Node, QuietStep(n), Grows
  PROVE  Packets' /\ Flags'
<1>1. /\ UNCHANGED <<life, packets, finish, send, copy>>
      /\ \A m \in Node : (Attached(m)' => Attached(m)) /\ (conn'[m] # "gone" => conn[m] # "gone")
  BY QuietFacts DEF IInv
<1>2. UNCHANGED <<pbuf, ptail, wrote, acked, write_flag, copy, life, finish, sending>>
  BY <1>1 DEF packets, send
<1>3. Packets'
  BY <1>2, PacketsFrame DEF IInv
<1>4. Flags'
  BY <1>1, <1>2, FlagsFrame DEF IInv
<1>. QED
  BY <1>3, <1>4

LEMMA PacketsOption ==
  ASSUME IInv, NEW n \in Node, NEW on \in BOOLEAN, espconn_set_opt(n, on)
  PROVE  Packets' /\ Flags'
<1>1. PICK S \in SUBSET Blames : /\ Blame(n, S) /\ S = Cause("option", ~on /\ ~write_flag[n] /\ Attached(n))
                                 /\ (~on /\ ~write_flag[n] /\ Attached(n) => "option" \in S)
  <2>1. Cause("option", ~on /\ ~write_flag[n] /\ Attached(n)) \in SUBSET Blames
    BY CausesTyped DEF Blames
  <2>2. ~on /\ ~write_flag[n] /\ Attached(n) => "option" \in Cause("option", ~on /\ ~write_flag[n] /\ Attached(n))
    BY Zenon DEF Cause
  <2>. QED
    BY <2>1, <2>2 DEF espconn_set_opt
<1>2. Grows /\ blame'[n] = blame[n] \union S
  BY <1>1, BlameFacts DEF IInv
<1>3. /\ copy' = [copy EXCEPT ![n] = on]
      /\ UNCHANGED <<life, conn, pbuf, ptail, wrote, acked, write_flag, finish, sending>>
  BY DEF espconn_set_opt, packets, send
<1>4. Packets'
  BY <1>2, <1>3, PacketsFrame DEF IInv
<1>5. ASSUME NEW m \in Node, Attached(m)', ~write_flag'[m]
      PROVE  (~write_flag[m] /\ (copy[m] => copy'[m])) \/ ~Calm(m)'
  <2>1. Attached(m) /\ ~write_flag[m]
    BY <1>3, <1>5 DEF Attached
  <2>2. CASE m # n
    <3>1. copy'[m] = copy[m]
      BY <1>3, <2>2 DEF IInv, TypeOK
    <3>. QED
      BY <2>1, <3>1
  <2>3. CASE m = n /\ on
    <3>1. copy'[m] = TRUE
      BY <1>3, <2>3 DEF IInv, TypeOK
    <3>. QED
      BY <2>1, <3>1
  <2>4. CASE m = n /\ ~on
    BY <1>1, <1>2, <2>1, <2>4 DEF Calm
  <2>. QED
    BY <2>2, <2>3, <2>4
<1>6. Flags'
  <2>1. \A m \in Node : Attached(m)' => Attached(m)
    BY <1>3 DEF Attached
  <2>. QED
    BY <1>2, <1>3, <1>5, <2>1, FlagsFrame DEF IInv
<1>. QED
  BY <1>4, <1>6

LEMMA PacketsOpen ==
  ASSUME IInv, NEW n \in Node,
         espconn_connect(n) \/ espconn_client_connect(n) \/ espconn_tcp_accept(n)
  PROVE  Packets' /\ Flags'
<1>1. /\ UNCHANGED <<pbuf, ptail, wrote, acked, finish, sending, copy, blame>>
      /\ \A m \in Node \ {n} : life'[m] = life[m] /\ conn'[m] = conn[m] /\ write_flag'[m] = write_flag[m]
      /\ life[n] = "unused" \/ life'[n] = life[n]
      /\ conn'[n] \in {"syn", "idle"} \/ conn'[n] = conn[n] \/ write_flag'[n]
      /\ conn[n] = "gone" => conn'[n] = "gone"
  <2>0. life[n] = "unused" => conn[n] = "idle"
    BY DEF IInv, Control, Lives
  <2>1. CASE espconn_connect(n)
    <3>1. /\ UNCHANGED <<pbuf, ptail, wrote, acked, finish, sending, copy, blame, write_flag>>
          /\ life[n] = "unused"
          /\ \/ life' = [life EXCEPT ![n] = "freed"] /\ UNCHANGED conn
             \/ \E c \in {"syn", "idle"} :
                  life' = [life EXCEPT ![n] = "listed"] /\ conn' = [conn EXCEPT ![n] = c]
      BY <2>1 DEF espconn_connect, Creates, packets, options, send
    <3>. QED
      BY <2>0, <3>1 DEF IInv, TypeOK
  <2>2. CASE espconn_client_connect(n)
    BY <2>2 DEF espconn_client_connect, Established, finish, send, IInv, TypeOK
  <2>3. CASE espconn_tcp_accept(n)
    BY <2>0, <2>3 DEF espconn_tcp_accept, Creates, Established, finish, send, IInv, TypeOK
  <2>. QED
    BY <2>1, <2>2, <2>3
<1>2. Grows
  BY <1>1 DEF Grows
<1>3. life[n] = "unused" => busy # n /\ conn[n] = "idle"
  <2>1. life[n] = "unused" => conn[n] = "idle" /\ ~Disturbed(n)
    BY DEF IInv, Control, Lives
  <2>2. busy = n => Attached(n) \/ Disturbed(n)
    BY NodeNat DEF IInv, Control, Finishing, Attached, Disturbed
  <2>. QED
    BY <2>1, <2>2 DEF Attached
<1>4. \A m \in Node : life[m] = "listed" => life'[m] = "listed"
  BY <1>1
<1>5. \A m \in Node : life[m] # "listed" /\ life'[m] = "listed" => busy # m
  BY <1>1, <1>3
<1>6. Packets'
  BY <1>1, <1>2, <1>4, <1>5, PacketsFrame DEF IInv
<1>7. ASSUME NEW m \in Node, Attached(m)', ~write_flag'[m] PROVE Attached(m) /\ ~write_flag[m]
  <2>1. CASE m # n
    BY <1>1, <1>7, <2>1 DEF Attached
  <2>2. CASE m = n /\ conn'[n] = conn[n]
    <3>1. CASE write_flag'[n] = write_flag[n]
      BY <1>7, <2>2, <3>1 DEF Attached
    <3>2. CASE write_flag'[n] # write_flag[n]
      <4>1. espconn_client_connect(n) \/ espconn_tcp_accept(n)
        BY <3>2 DEF espconn_connect, packets
      <4>2. write_flag'[n]
        BY <4>1 DEF espconn_client_connect, espconn_tcp_accept, Established, IInv, TypeOK
      <4>. QED
        BY <1>7, <2>2, <4>2
    <3>. QED
      BY <3>1, <3>2
  <2>3. CASE m = n /\ conn'[n] \in {"syn", "idle"}
    BY <1>7, <2>3 DEF Attached
  <2>. QED
    BY <1>1, <1>7, <2>1, <2>2, <2>3
<1>8. Flags'
  <2>1. copy' = copy /\ \A m \in Node : conn'[m] # "gone" => conn[m] # "gone"
    BY <1>1
  <2>. QED
    BY <1>1, <1>2, <1>7, <2>1, FlagsFrame DEF IInv
<1>. QED
  BY <1>6, <1>8

LEMMA NodeFrame ==
  ASSUME IInv, NEW m \in Node,
         life'[m] = life[m], conn'[m] = conn[m], pbuf'[m] = pbuf[m], ptail'[m] = ptail[m],
         wrote'[m] = wrote[m], acked'[m] = acked[m], write_flag'[m] = write_flag[m],
         copy'[m] = copy[m], blame'[m] = blame[m], Over(m)' = Over(m), sending' = m <=> sending = m
  PROVE  Kept(m)' /\ Credits(m)' /\ Bare(m)' /\ Handed(m)' /\ Flagged(m)'
<1>1. Kept(m) /\ Credits(m) /\ Bare(m) /\ Handed(m) /\ Flagged(m)
  BY DEF IInv, Packets, Flags
<1>2. /\ (Clear(m)' <=> Clear(m)) /\ (Calm(m)' <=> Calm(m)) /\ (Attached(m)' <=> Attached(m))
      /\ End(m, pbuf[m])' = End(m, pbuf[m])
  BY DEF Clear, Calm, Attached, End
<1>3. Kept(m)'
  BY <1>1, <1>2 DEF Kept
<1>4. Credits(m)' /\ Bare(m)'
  BY <1>1, <1>2 DEF Credits, Bare
<1>5. Handed(m)'
  BY <1>1, <1>2, Zenon DEF Handed
<1>6. Flagged(m)'
  BY <1>1, <1>2, Zenon DEF Flagged
<1>. QED
  BY <1>3, <1>4, <1>5, <1>6

LEMMA PacketsTask ==
  ASSUME IInv, espconn_Task
  PROVE  Packets' /\ Flags'
<1>1. PICK e : e = Head(events)
  OBVIOUS
<1>2. e.node \in Node /\ Grows
  BY <1>1, FirstEvent, TypesTask DEF espconn_Task, IInv
<1>3. PICK n \in Node : n = e.node
  BY <1>2
<1>4. CASE Fault(n)
  BY <1>2, <1>4, PacketsQuiet DEF QuietStep
<1>5. CASE UNCHANGED <<life, conn, packets, options, finish, send, blame>>
  <2>1. UNCHANGED <<life, conn, pbuf, ptail, wrote, acked, write_flag, finish, copy, sending>>
    BY <1>5 DEF packets, options, send
  <2>2. Packets'
    BY <1>2, <2>1, PacketsFrame DEF IInv
  <2>3. \A m \in Node : Attached(m)' => Attached(m)
    BY <2>1 DEF Attached
  <2>4. Flags'
    <3>1. \A m \in Node : conn'[m] # "gone" => conn[m] # "gone"
      BY <2>1
    <3>2. \A m \in Node : Attached(m)' /\ ~write_flag'[m] =>
            Attached(m) /\ ~write_flag[m] /\ (copy[m] => copy'[m])
      BY <2>1, <2>3
    <3>. QED
      BY <1>2, <2>1, <3>1, <3>2, FlagsFrame DEF IInv
  <2>. QED
    BY <2>2, <2>4
<1>6. CASE Delete(n) /\ e.sig # "WRITE" /\ life[n] = "listed" /\ UNCHANGED <<finish, send, blame>>
  <2>1. /\ life'[n] = "freed" /\ pbuf'[n] = <<>> /\ ptail'[n] = NoBuf /\ wrote'[n] = 0 /\ acked'[n] = 0
        /\ \A m \in Node \ {n} : /\ life'[m] = life[m] /\ pbuf'[m] = pbuf[m] /\ ptail'[m] = ptail[m]
                                 /\ wrote'[m] = wrote[m] /\ acked'[m] = acked[m]
    BY <1>6 DEF Delete, IInv, TypeOK
  <2>2. /\ conn'[n] = "gone"
        /\ \A m \in Node \ {n} : conn'[m] = conn[m] /\ write_flag'[m] = write_flag[m] /\ copy'[m] = copy[m]
    <3>1. conn[n] \in {"closing", "gone"}
      BY <1>1, <1>3, <1>6, FirstEvent DEF espconn_Task, IInv
    <3>. QED
      BY <1>6, <3>1 DEF Delete, IInv, TypeOK
  <2>3. UNCHANGED <<busy, carry, blame, sending>>
    BY <1>6 DEF finish, send
  <2>4. Kept(n)' /\ Credits(n)' /\ Bare(n)'
    <3>1. Len(pbuf'[n]) = 0
      BY <2>1, EmptySeq
    <3>2. InOrder(pbuf'[n])
      BY <3>1 DEF InOrder
    <3>3. acked'[n] <= wrote'[n] /\ wrote'[n] - acked'[n] <= SndBuf
      BY <2>1, Buffers
    <3>4. ptail'[n] # Freed /\ ptail'[n] \notin Nat /\ End(n, pbuf[n])' = wrote'[n]
      BY <2>1 DEF End, NoBuf, Freed
    <3>5. Kept(n)'
      BY <3>2, <3>3, <3>4, Zenon DEF Kept
    <3>. QED
      BY <2>1, <3>5 DEF Credits, Bare
  <2>5. ASSUME NEW m \in Node \ {n} PROVE Kept(m)' /\ Credits(m)' /\ Bare(m)' /\ Handed(m)' /\ Flagged(m)'
    <3>1. /\ life'[m] = life[m] /\ pbuf'[m] = pbuf[m] /\ ptail'[m] = ptail[m] /\ wrote'[m] = wrote[m]
          /\ acked'[m] = acked[m] /\ conn'[m] = conn[m] /\ write_flag'[m] = write_flag[m]
          /\ copy'[m] = copy[m] /\ blame'[m] = blame[m] /\ Over(m)' = Over(m)
          /\ sending' = m <=> sending = m
      BY <2>1, <2>2, <2>3 DEF Over
    <3>. QED
      BY <3>1, NodeFrame
  <2>6. Handed(n)' /\ Flagged(n)'
    BY <2>2 DEF Handed, Flagged, Attached
  <2>. QED
    BY <2>4, <2>5, <2>6 DEF Packets, Flags
<1>. QED
  BY <1>1, <1>3, <1>4, <1>5, <1>6 DEF espconn_Task

(* Memory that is not there is used, and that is the end.                  *)
LEMMA FaultStep ==
  ASSUME IInv, NEW n \in Node,
         \/ SentFaults(n) \/ CloseFaults(n) \/ SentAcksFault(n)
         \/ (FinishFaults /\ n = busy) \/ (SendFaults /\ n = sending)
  PROVE  IInv'
<1>1. Fault(n) /\ TypeOK' /\ Grows
  BY TypesFaults DEF IInv
<1>2. Control'
  BY <1>1, ControlFault DEF IInv
<1>3. Packets' /\ Flags'
  BY <1>1, PacketsQuiet DEF QuietStep
<1>. QED
  BY <1>1, <1>2, <1>3 DEF IInv

-----------------------------------------------------------------------------
(* espconn_sent: the new packet lies behind the last one, and what is      *)
(* written next is where ptail is, or the new packet.                      *)

LEMMA EndNat ==
  ASSUME NEW n \in Node, NEW b \in Seq(Packet), wrote[n] \in Nat
  PROVE  End(n, b) \in Nat
<1>1. CASE b = <<>>
  BY <1>1 DEF End
<1>2. CASE b # <<>>
  <2>1. Len(b) \in 1 .. Len(b)
    BY <1>2, EmptySeq
  <2>2. b[Len(b)].at \in Nat /\ b[Len(b)].len \in Nat
    BY <2>1, PacketFields
  <2>3. End(n, b) = b[Len(b)].at + b[Len(b)].len
    BY <1>2, Zenon DEF End
  <2>. QED
    BY <2>2, <2>3
<1>. QED
  BY <1>1, <1>2

LEMMA SendBegins ==
  ASSUME IInv, NEW n \in Node, NEW p \in Packet, p.len \in Length, p.at = End(n, pbuf[n]),
         NEW b, b = Append(pbuf[n], p), NEW t, t = GoesOnWith(ptail[n], p.at)
  PROVE  /\ b \in Seq(Packet) /\ InOrder(b) /\ End(n, b) = p.at + p.len /\ b # <<>>
         /\ t \in Nat \union {Freed} /\ (t = Freed => ~Clear(n))
         /\ t \in Nat =>
              /\ wrote[n] < End(n, b)
              /\ \E i \in GoesOn(b, t, wrote[n]) : Clear(n) => acked[n] < b[i].at + b[i].len
<1>1. /\ pbuf[n] \in Seq(Packet) /\ ptail[n] \in Nat \union {NoBuf, Freed}
      /\ wrote[n] \in Nat /\ acked[n] \in Nat /\ Kept(n) /\ InOrder(pbuf[n])
  BY DEF IInv, TypeOK, Packets, Kept
<1>2. /\ b \in Seq(Packet) /\ InOrder(b) /\ End(n, b) = p.at + p.len /\ b # <<>>
      /\ Len(b) = Len(pbuf[n]) + 1 /\ b[Len(pbuf[n]) + 1] = p
      /\ \A i \in 1 .. Len(pbuf[n]) : b[i] = pbuf[n][i]
  BY <1>1, AppendInOrder
<1>3. Len(pbuf[n]) \in Nat /\ p.at \in Nat /\ p.len \in Nat /\ p.len > 0
  BY <1>1, LenProperties, LengthsAndCounts DEF Packet
<1>4. CASE ptail[n] = NoBuf
  <2>1. t = p.at /\ wrote[n] = p.at /\ acked[n] <= wrote[n]
    BY <1>1, <1>4 DEF GoesOnWith, Kept
  <2>2. Len(b) \in 1 .. Len(b) /\ b[Len(b)] = p
    BY <1>2, <1>3
  <2>3. Len(b) \in GoesOn(b, t, wrote[n])
    BY <1>3, <2>1, <2>2 DEF GoesOn
  <2>4. acked[n] < b[Len(b)].at + b[Len(b)].len
    BY <1>1, <1>3, <2>1, <2>2
  <2>5. t # Freed
    BY <1>3, <2>1 DEF Freed
  <2>. QED
    BY <1>2, <1>3, <2>1, <2>3, <2>4, <2>5
<1>5. CASE ptail[n] = Freed
  <2>1. t = Freed
    BY <1>5 DEF GoesOnWith, NoBuf, Freed
  <2>2. ~Clear(n)
    BY <1>1, <1>5 DEF Kept
  <2>. QED
    BY <1>2, <2>1, <2>2 DEF Freed
<1>6. CASE ptail[n] \in Nat
  <2>1. t = ptail[n] /\ t # Freed
    BY <1>6 DEF GoesOnWith, NoBuf, Freed
  <2>2. PICK i \in GoesOn(pbuf[n], t, wrote[n]) : Clear(n) => acked[n] < pbuf[n][i].at + pbuf[n][i].len
    BY <1>1, <1>6, <2>1 DEF Kept
  <2>3. /\ i \in 1 .. Len(pbuf[n]) /\ pbuf[n][i].at = t /\ t <= wrote[n]
        /\ wrote[n] <= pbuf[n][i].at + pbuf[n][i].len
    BY DEF GoesOn
  <2>4. b[i] = pbuf[n][i] /\ i \in 1 .. Len(b)
    BY <1>2, <1>3, <2>3
  <2>5. i \in GoesOn(b, t, wrote[n])
    BY <2>3, <2>4 DEF GoesOn
  <2>6. wrote[n] <= p.at
    BY <1>1, <1>6, <2>1, <2>2, EndReached
  <2>7. wrote[n] < End(n, b)
    BY <1>1, <1>2, <1>3, <2>6
  <2>. QED
    BY <1>2, <1>6, <2>1, <2>2, <2>4, <2>5, <2>7
<1>. QED
  BY <1>1, <1>4, <1>5, <1>6

(* It is appended, and credited with nothing.                              *)
Appends(n) ==
  /\ UNCHANGED <<life, acked, busy, carry>> /\ Grows
  /\ \A m \in Node \ {n} : pbuf'[m] = pbuf[m]
  /\ \E p \in Packet : /\ pbuf'[n] = Append(pbuf[n], p) /\ p.len \in Length /\ p.at = End(n, pbuf[n])
                       /\ Clear(n)' => p.tot = 0

LEMMA SendStep ==
  ASSUME IInv, NEW n \in Node, espconn_sent(n)
  PROVE  IInv' /\ Appends(n)
<1>1. /\ TypeOK /\ Control /\ Kept(n) /\ Credits(n) /\ Bare(n) /\ Handed(n) /\ Flagged(n) /\ Lives(n)
      /\ pbuf[n] \in Seq(Packet) /\ ptail[n] \in Nat \union {NoBuf, Freed} /\ wrote[n] \in Nat /\ acked[n] \in Nat
      /\ blame \in [Node -> SUBSET Blames]
  BY DEF IInv, TypeOK, Control, Packets, Flags, Blames
<1>2. /\ life[n] = "listed" /\ sending = 0 /\ sending' = n /\ lowered' = FALSE /\ write_flag[n]
      /\ Opens(n) /\ calls' = [calls EXCEPT ![n] = @ + 1]
      /\ UNCHANGED <<life, role, conn, wrote, acked, write_flag, options, recv_check, events, finish,
                     listening, fault, dropped>>
  BY DEF espconn_sent, Called, Refuses
<1>3. PICK len \in Length, tot \in Heap :
        LET at == End(n, pbuf[n]) IN
          /\ pbuf' = [pbuf EXCEPT ![n] = Append(@, [at |-> at, len |-> len, tot |-> tot])]
          /\ ptail' = [ptail EXCEPT ![n] = GoesOnWith(@, at)]
          /\ Blame(n, Reopened(n) \union Cause("heap", tot # 0))
  BY Zenon DEF espconn_sent
<1>4. PICK at, p, b, t : /\ at = End(n, pbuf[n]) /\ p = [at |-> at, len |-> len, tot |-> tot]
                         /\ b = Append(pbuf[n], p) /\ t = GoesOnWith(ptail[n], at)
  OBVIOUS
<1>5. pbuf' = [pbuf EXCEPT ![n] = b] /\ ptail' = [ptail EXCEPT ![n] = t]
  BY <1>1, <1>3, <1>4 DEF TypeOK
<1>6. at \in Nat /\ p \in Packet /\ p.at = at /\ p.len = len /\ p.tot = tot /\ len \in Nat /\ len > 0 /\ tot \in Nat
  <2>1. len \in Nat /\ len > 0 /\ tot \in Nat
    BY LengthsAndCounts
  <2>2. at \in Nat
    BY <1>1, <1>4, EndNat
  <2>. QED
    BY <1>4, <2>1, <2>2 DEF Packet
<1>7. /\ b \in Seq(Packet) /\ InOrder(b) /\ End(n, b) = at + len /\ b # <<>>
      /\ t \in Nat \union {Freed} /\ (t = Freed => ~Clear(n))
      /\ t \in Nat =>
           /\ wrote[n] < End(n, b)
           /\ \E i \in GoesOn(b, t, wrote[n]) : Clear(n) => acked[n] < b[i].at + b[i].len
  <2>1. /\ p \in Packet /\ p.len \in Length /\ p.at = End(n, pbuf[n])
        /\ b = Append(pbuf[n], p) /\ t = GoesOnWith(ptail[n], p.at)
    BY <1>4, <1>6
  <2>2. /\ b \in Seq(Packet) /\ InOrder(b) /\ End(n, b) = p.at + p.len /\ b # <<>>
        /\ t \in Nat \union {Freed} /\ (t = Freed => ~Clear(n))
        /\ t \in Nat =>
             /\ wrote[n] < End(n, b)
             /\ \E i \in GoesOn(b, t, wrote[n]) : Clear(n) => acked[n] < b[i].at + b[i].len
    BY <2>1, SendBegins, Zenon
  <2>. QED
    BY <1>6, <2>2
<1>8. /\ Len(pbuf[n]) \in Nat /\ Len(b) = Len(pbuf[n]) + 1 /\ b[Len(pbuf[n]) + 1] = p
      /\ \A i \in 1 .. Len(pbuf[n]) : b[i] = pbuf[n][i]
  BY <1>1, <1>4, <1>6, AppendProperties, LenProperties
<1>9. PICK S \in SUBSET Blames : Blame(n, S) /\ (tot # 0 => "heap" \in S) /\ Reopened(n) \subseteq S
  <2>1. Reopened(n) \union Cause("heap", tot # 0) \in SUBSET Blames
    BY Zenon DEF Reopened, Cause, Blames
  <2>2. tot # 0 => "heap" \in Cause("heap", tot # 0)
    BY Zenon DEF Cause
  <2>. QED
    BY <1>3, <2>1, <2>2
<1>10. /\ blame' \in [Node -> SUBSET Blames] /\ Grows /\ blame'[n] = blame[n] \union S
       /\ \A m \in Node \ {n} : blame'[m] = blame[m]
  BY <1>1, <1>9, BlameFacts
<1>11. /\ closed' \in [Node -> BOOLEAN] /\ \A m \in Node \ {n} : closed'[m] = closed[m]
       /\ closed[n] => closed'[n] \/ "reopened" \in S
  BY <1>1, <1>2, <1>9, OpensFacts
<1>12. /\ pbuf'[n] = b /\ ptail'[n] = t
       /\ \A m \in Node \ {n} : pbuf'[m] = pbuf[m] /\ ptail'[m] = ptail[m]
  BY <1>1, <1>5 DEF TypeOK
<1>13. UNCHANGED <<copy, nagle, pbuf_num, busy, carry>>
  BY <1>2 DEF options, finish
<1>14. TypeOK'
  <2>1. pbuf' \in [Node -> Seq(Packet)] /\ ptail' \in [Node -> Nat \union {NoBuf, Freed}]
    BY <1>1, <1>5, <1>7 DEF TypeOK
  <2>2. calls' \in [Node -> Nat] /\ lowered' \in BOOLEAN
    <3>1. calls \in [Node -> Nat]
      BY <1>1 DEF TypeOK
    <3>2. calls' = [calls EXCEPT ![n] = @ + 1]
      BY <1>2
    <3>3. calls' \in [Node -> Nat]
      BY <3>1, <3>2
    <3>4. lowered' \in BOOLEAN
      BY <1>2, Zenon
    <3>. QED
      BY <3>3, <3>4
  <2>3. sending' \in 0 .. MaxNode
    BY <1>2, NodeNat
  <2>. QED
    BY <1>1, <1>2, <1>10, <1>11, <1>13, <2>1, <2>2, <2>3 DEF TypeOK, Blames
<1>15. Control'
  <2>1. \A m \in Node : closed[m] => closed'[m] \/ Spoilt(m)'
    BY <1>10, <1>11 DEF Spoilt
  <2>2. \A m \in Node : life[m] = "unused" => blame'[m] = blame[m]
    BY <1>2, <1>10
  <2>. QED
    BY <1>1, <1>2, <1>10, <1>13, <2>1, <2>2, ControlFrame
<1>16. ASSUME NEW m \in Node \ {n}
       PROVE  Kept(m)' /\ Credits(m)' /\ Bare(m)' /\ Handed(m)' /\ Flagged(m)'
  <2>1. Over(m)' = Over(m) /\ (sending' = m <=> sending = m)
    BY <1>2, <1>13, NodeNat DEF Over
  <2>. QED
    BY <1>2, <1>10, <1>12, <1>13, <2>1, NodeFrame
<1>17. (Clear(n)' => Clear(n) /\ tot = 0) /\ (Calm(n)' => Clear(n))
  BY <1>9, <1>10 DEF Clear, Calm
<1>18. End(n, pbuf[n])' = End(n, b)
  BY <1>7, <1>12 DEF End
<1>19. Kept(n)'
  <2>1. t # NoBuf
    BY <1>7 DEF NoBuf, Freed
  <2>2. acked'[n] <= wrote'[n] /\ wrote'[n] - acked'[n] <= SndBuf
    BY <1>1, <1>2 DEF Kept
  <2>3. t = Freed => ~Clear(n)'
    BY <1>7, <1>17
  <2>4. t \in Nat => \E i \in GoesOn(b, t, wrote'[n]) : Clear(n)' => acked'[n] < b[i].at + b[i].len
    BY <1>2, <1>7, <1>17
  <2>. QED
    BY <1>7, <1>12, <2>1, <2>2, <2>3, <2>4 DEF Kept
<1>20. Credits(n)'
  <2>. SUFFICES ASSUME Clear(n)'
                PROVE  /\ \A i \in 2 .. Len(b) : b[i].tot = 0
                       /\ b[1].at + b[1].tot + Over(n) <= acked[n]
    BY <1>2, <1>7, <1>12, <1>13 DEF Credits, Over
  <2>1. /\ \A i \in 2 .. Len(pbuf[n]) : pbuf[n][i].tot = 0
        /\ pbuf[n] = <<>> => acked[n] = wrote[n] /\ Over(n) = 0
        /\ pbuf[n] # <<>> => pbuf[n][1].at + pbuf[n][1].tot + Over(n) <= acked[n]
    BY <1>1, <1>2, <1>17 DEF Credits
  <2>2. ASSUME NEW i \in 2 .. Len(b) PROVE b[i].tot = 0
    <3>1. CASE i = Len(pbuf[n]) + 1
      BY <1>6, <1>8, <1>17, <3>1
    <3>2. CASE i \in 2 .. Len(pbuf[n])
      BY <1>8, <2>1, <3>2
    <3>. QED
      BY <1>8, <3>1, <3>2
  <2>3. CASE pbuf[n] = <<>>
    <3>1. Len(pbuf[n]) = 0
      BY <2>3, EmptySeq
    <3>2. b[1] = p /\ at = wrote[n]
      BY <1>4, <1>8, <2>3, <3>1 DEF End
    <3>. QED
      BY <1>1, <1>6, <1>17, <2>1, <2>2, <2>3, <3>2
  <2>4. CASE pbuf[n] # <<>>
    <3>1. 1 \in 1 .. Len(pbuf[n])
      BY <1>1, <2>4, EmptySeq
    <3>2. b[1] = pbuf[n][1]
      BY <1>8, <3>1
    <3>. QED
      BY <2>1, <2>2, <2>4, <3>2
  <2>. QED
    BY <2>3, <2>4
<1>21. Bare(n)'
  BY <1>2 DEF Bare
<1>22. Handed(n)'
  BY <1>2, <1>7, <1>17, <1>18 DEF Handed
<1>23. Flagged(n)'
  BY <1>2 DEF Flagged
<1>24. Appends(n)
  <2>1. pbuf'[n] = Append(pbuf[n], p) /\ p.len \in Length /\ p.at = End(n, pbuf[n])
    BY <1>4, <1>6, <1>12
  <2>. QED
    BY <1>2, <1>6, <1>10, <1>12, <1>13, <1>17, <2>1 DEF Appends
<1>25. IInv'
  BY <1>14, <1>15, <1>16, <1>19, <1>20, <1>21, <1>22, <1>23 DEF IInv, Packets, Flags
<1>. QED
  BY <1>24, <1>25

(* It is still to be written when write_flag is lowered.                   *)
LEMMA LowersStep ==
  ASSUME IInv, Lowers
  PROVE  IInv' /\ UNCHANGED <<life, pbuf, acked, busy, carry>> /\ Grows
<1>1. PICK n \in Node : n = sending
  <2>1. sending \in 0 .. MaxNode /\ sending # 0
    BY DEF IInv, TypeOK, Lowers
  <2>. QED
    BY <2>1, NodeNat DEF Node
<1>2. /\ write_flag' = [write_flag EXCEPT ![n] = @ /\ ~copy[n]] /\ lowered' = TRUE
      /\ UNCHANGED <<life, role, conn, closed, pbuf, ptail, wrote, acked, options, recv_check, events, finish,
                     sending, listening, fault, blame, bounds>>
  BY <1>1 DEF Lowers
<1>3. UNCHANGED <<copy, nagle, pbuf_num, busy, carry, calls, dropped>> /\ Grows
  BY <1>2 DEF options, finish, bounds, Grows
<1>4. TypeOK'
  <2>1. write_flag' \in [Node -> BOOLEAN] /\ lowered' \in BOOLEAN
    BY <1>2 DEF IInv, TypeOK
  <2>. QED
    BY <1>2, <1>3, <2>1 DEF IInv, TypeOK
<1>5. Control'
  BY <1>2, <1>3, ControlFrame DEF IInv
<1>6. Packets'
  BY <1>2, <1>3, PacketsFrame DEF IInv
<1>7. ASSUME NEW m \in Node \ {n} PROVE Handed(m)' /\ Flagged(m)'
  <2>1. Over(m)' = Over(m) /\ write_flag'[m] = write_flag[m]
    BY <1>2, <1>3 DEF Over, IInv, TypeOK
  <2>. QED
    BY <1>2, <1>3, <2>1, NodeFrame
<1>8. Handed(n)' /\ Flagged(n)'
  <2>1. Handed(n) /\ Flagged(n)
    BY DEF IInv, Flags
  <2>2. (Calm(n)' <=> Calm(n)) /\ (Attached(n)' <=> Attached(n)) /\ End(n, pbuf[n])' = End(n, pbuf[n])
    BY <1>2, BlameSame DEF Attached, End
  <2>3. Handed(n)'
    BY <1>2, <2>1, <2>2, Zenon DEF Handed
  <2>4. (write_flag'[n] <=> write_flag[n] /\ ~copy[n]) /\ (Attached(n) => conn[n] # "gone")
    BY <1>2 DEF IInv, TypeOK, Attached
  <2>5. ASSUME Attached(n), Calm(n), ~write_flag'[n]
        PROVE  copy[n] /\ End(n, pbuf[n]) > wrote[n]
    <3>1. End(n, pbuf[n]) > wrote[n]
      BY <1>1, <2>1, <2>4, <2>5 DEF Handed
    <3>2. copy[n]
      BY <2>1, <2>4, <2>5 DEF Flagged
    <3>. QED
      BY <3>1, <3>2
  <2>6. Flagged(n)'
    BY <1>1, <1>2, <1>3, <2>2, <2>5, Zenon DEF Flagged
  <2>. QED
    BY <2>3, <2>6
<1>9. IInv'
  BY <1>4, <1>5, <1>6, <1>7, <1>8 DEF IInv, Flags
<1>. QED
  BY <1>2, <1>3, <1>9

(* The write: a packet that cannot be written is taken off again, and if   *)
(* ptail was at it the node is blamed.                                     *)
LEMMA DroppedInOrder ==
  ASSUME NEW b \in Seq(Packet), InOrder(b), b # <<>>
  PROVE  /\ WithoutLast(b) \in Seq(Packet) /\ InOrder(WithoutLast(b)) /\ Len(WithoutLast(b)) = Len(b) - 1
         /\ \A i \in 1 .. Len(b) - 1 : i \in 1 .. Len(b) /\ WithoutLast(b)[i] = b[i]
<1>1. Len(b) \in Nat \ {0} /\ Len(b) - 1 \in 0 .. Len(b)
  BY EmptySeq, LenProperties
<1>2. PICK c : c = WithoutLast(b)
  OBVIOUS
<1>3. c \in Seq(Packet) /\ Len(c) = Len(b) - 1 /\ \A i \in 1 .. Len(b) - 1 : c[i] = b[i]
  BY <1>1, <1>2, BeginningOf DEF WithoutLast
<1>4. \A i \in 1 .. Len(b) - 1 : i \in 1 .. Len(b)
  BY <1>1
<1>5. \A i \in 1 .. Len(c) - 1 : i \in 1 .. Len(b) - 1 /\ i + 1 \in 1 .. Len(b) - 1
  BY <1>1, <1>3
<1>6. \A i \in 1 .. Len(c) - 1 : c[i + 1].at = c[i].at + c[i].len
  BY <1>3, <1>5 DEF InOrder
<1>7. InOrder(c)
  BY <1>3, <1>4, <1>6 DEF InOrder
<1>. QED
  BY <1>2, <1>3, <1>4, <1>7

Drops(n) ==
  /\ UNCHANGED <<life, acked, busy, carry>> /\ Grows
  /\ \A m \in Node \ {n} : pbuf'[m] = pbuf[m]
  /\ \/ pbuf'[n] = pbuf[n]
     \/ /\ pbuf[n] # <<>> /\ pbuf'[n] = WithoutLast(pbuf[n])
        /\ Clear(n)' => pbuf'[n] # <<>>

LEMMA WritesStep ==
  ASSUME IInv, NEW n \in Node, Writes(n)
  PROVE  IInv' /\ Drops(n)
<1>1. /\ TypeOK /\ Control /\ Kept(n) /\ Credits(n) /\ Bare(n) /\ Handed(n) /\ Flagged(n) /\ InOrder(pbuf[n])
      /\ pbuf[n] \in Seq(Packet) /\ ptail[n] \in Nat \union {NoBuf, Freed} /\ wrote[n] \in Nat /\ acked[n] \in Nat
      /\ acked[n] <= wrote[n] /\ wrote[n] - acked[n] <= SndBuf
  BY DEF IInv, TypeOK, Packets, Flags, Kept
<1>2. /\ life[n] = "listed" /\ conn[n] # "gone" /\ ~Follows(n, ptail[n], acked[n]) /\ ~Overtaken(n)
      /\ sending = n /\ sending' = 0 /\ lowered' = FALSE
      /\ UNCHANGED <<life, role, conn, closed, acked, options, recv_check, finish, listening, fault, calls>>
  BY DEF Writes, Lost
<1>3. PICK o \in Written(n, pbuf[n], ptail[n], acked[n]) :
        LET told == Told(n, pbuf[n], o.wrote)
            own == ~o.ok /\ o.ptail = pbuf[n][Len(pbuf[n])].at
        IN /\ wrote' = [wrote EXCEPT ![n] = o.wrote]
           /\ pbuf' = IF o.ok THEN pbuf ELSE [pbuf EXCEPT ![n] = WithoutLast(@)]
           /\ ptail' = [ptail EXCEPT ![n] = IF own THEN Freed ELSE o.ptail]
           /\ write_flag' = [write_flag EXCEPT ![n] = @ \/ told # <<>>]
           /\ Post(told)
           /\ Blame(n, Cause("refused", ~o.ok /\ (own \/ ~write_flag'[n])))
  BY Zenon DEF Writes
<1>4. PICK b, t, a, told, w : /\ b = pbuf[n] /\ t = ptail[n] /\ a = acked[n]
                              /\ told = Told(n, pbuf[n], o.wrote) /\ w = o.wrote
  OBVIOUS
<1>5. /\ wrote' = [wrote EXCEPT ![n] = w]
      /\ pbuf' = IF o.ok THEN pbuf ELSE [pbuf EXCEPT ![n] = WithoutLast(@)]
      /\ ptail' = [ptail EXCEPT ![n] = IF ~o.ok /\ o.ptail = b[Len(b)].at THEN Freed ELSE o.ptail]
      /\ write_flag' = [write_flag EXCEPT ![n] = @ \/ told # <<>>]
      /\ Post(told)
      /\ Blame(n, Cause("refused", ~o.ok /\ (o.ptail = b[Len(b)].at \/ ~write_flag'[n])))
  <2>1. \A x, y : (x /\ ((x /\ y) \/ ~write_flag'[n])) <=> (x /\ (y \/ ~write_flag'[n]))
    OBVIOUS
  <2>2. Cause("refused", ~o.ok /\ ((~o.ok /\ o.ptail = b[Len(b)].at) \/ ~write_flag'[n]))
          = Cause("refused", ~o.ok /\ (o.ptail = b[Len(b)].at \/ ~write_flag'[n]))
    BY Zenon DEF Cause
  <2>. QED
    BY <1>3, <1>4, <2>2, Zenon
<1>6. /\ b \in Seq(Packet) /\ InOrder(b) /\ t \in Nat \union {NoBuf, Freed} /\ a \in Nat
      /\ a <= wrote[n] /\ wrote[n] - a <= SndBuf
      /\ t = NoBuf => End(n, b) = wrote[n]
      /\ t = Freed => ~Clear(n)
      /\ t \in Nat => \E i \in GoesOn(b, t, wrote[n]) : Clear(n) => a < b[i].at + b[i].len
  BY <1>1, <1>4 DEF Kept
<1>7. /\ w \in Nat /\ wrote[n] <= w /\ w - a <= SndBuf
      /\ ~Attached(n) => w = wrote[n]
      /\ t \in Nat => w <= End(n, b)
      /\ \/ o.ptail = t /\ w = wrote[n] /\ (t \in Nat => a < wrote[n])
         \/ t \in Nat /\ o.ok /\ o.ptail = NoBuf /\ w = End(n, b)
         \/ t \in Nat /\ \E i \in GoesOn(b, o.ptail, w) : a < b[i].at + b[i].len
      /\ \/ a < w
         \/ t = NoBuf /\ o.ok
         \/ t \in Nat /\ (~o.ok \/ w = End(n, b))
      /\ ~o.ok /\ t \notin Nat => HeldBack(n, a)
  <2>1. ~Follows(n, t, a) /\ o \in Written(n, b, t, a)
    BY <1>2, <1>3, <1>4
  <2>2. t \in Nat => GoesOn(b, t, wrote[n]) # {}
    BY <1>6
  <2>3. /\ wrote[n] \in Nat /\ b \in Seq(Packet) /\ InOrder(b) /\ a \in Nat /\ a <= wrote[n]
        /\ wrote[n] - a <= SndBuf /\ t \in Nat \union {NoBuf, Freed}
    BY <1>1, <1>6
  <2>4. /\ o.wrote \in Nat /\ wrote[n] <= o.wrote /\ o.wrote - a <= SndBuf
        /\ ~Attached(n) => o.wrote = wrote[n]
        /\ t \in Nat => o.wrote <= End(n, b)
        /\ \/ o.ptail = t /\ o.wrote = wrote[n] /\ (t \in Nat => a < wrote[n])
           \/ t \in Nat /\ o.ok /\ o.ptail = NoBuf /\ o.wrote = End(n, b)
           \/ t \in Nat /\ \E i \in GoesOn(b, o.ptail, o.wrote) : a < b[i].at + b[i].len
        /\ \/ a < o.wrote
           \/ t = NoBuf /\ o.ok
           \/ t \in Nat /\ (~o.ok \/ o.wrote = End(n, b))
        /\ ~o.ok /\ t \notin Nat => HeldBack(n, a)
    BY <2>1, <2>2, <2>3, WrittenFacts
  <2>5. w = o.wrote
    BY <1>4
  <2>. QED
    BY <2>4, <2>5, Zenon
<1>8. t \in Nat => b # <<>>
  BY <1>1, <1>6, EndReached
<1>9. ~o.ok => b # <<>> /\ t # NoBuf
  <2>1. ~(HeldBack(n, a) /\ (b = <<>> \/ t = NoBuf))
    BY <1>2, <1>4 DEF Overtaken
  <2>2. t = NoBuf => t \notin Nat
    BY DEF NoBuf
  <2>. QED
    BY <1>7, <1>8, <2>1, <2>2
<1>10. /\ o.ptail \in Nat \union {NoBuf, Freed}
       /\ o.ptail = NoBuf => o.ok /\ w = End(n, b)
       /\ o.ptail = Freed => ~Clear(n)
       /\ o.ptail \in Nat => \E i \in GoesOn(b, o.ptail, w) : Clear(n) => a < b[i].at + b[i].len
  <2>1. CASE o.ptail = t /\ w = wrote[n]
    BY <1>6, <1>9, <2>1
  <2>2. CASE o.ok /\ o.ptail = NoBuf /\ w = End(n, b)
    BY <2>2 DEF NoBuf, Freed
  <2>3. CASE \E i \in GoesOn(b, o.ptail, w) : a < b[i].at + b[i].len
    <3>1. PICK i \in GoesOn(b, o.ptail, w) : a < b[i].at + b[i].len
      BY <2>3
    <3>2. i \in 1 .. Len(b) /\ o.ptail = b[i].at
      BY DEF GoesOn
    <3>3. o.ptail \in Nat
      BY <1>6, <3>2, PacketFields
    <3>. QED
      BY <3>1, <3>3 DEF NoBuf, Freed
  <2>. QED
    BY <1>7, <2>1, <2>2, <2>3
<1>11. /\ told \in Seq(Event)
       /\ \A i \in 1 .. Len(told) : told[i] = [sig |-> "WRITE", node |-> n]
       /\ w = wrote[n] => told = <<>>
       /\ b # <<>> /\ copy[n] /\ wrote[n] < w /\ w = End(n, b) => told # <<>>
  <2>1. told = Told(n, b, w) /\ copy[n] \in BOOLEAN
    BY <1>1, <1>4 DEF TypeOK
  <2>2. /\ Told(n, b, w) \in Seq(Event)
        /\ \A i \in 1 .. Len(Told(n, b, w)) : Told(n, b, w)[i] = [sig |-> "WRITE", node |-> n]
        /\ w = wrote[n] => Told(n, b, w) = <<>>
        /\ b # <<>> /\ copy[n] /\ wrote[n] < w /\ w = End(n, b) => Told(n, b, w) # <<>>
    BY <1>1, <1>6, <1>7, <2>1, ToldFacts
  <2>. QED
    BY <2>1, <2>2, Zenon
<1>12. PICK S \in SUBSET Blames :
         Blame(n, S) /\ (~o.ok /\ (o.ptail = b[Len(b)].at \/ ~write_flag'[n]) => "refused" \in S)
  BY <1>5, Zenon DEF Cause, Blames
<1>13. /\ blame' \in [Node -> SUBSET Blames] /\ Grows /\ blame'[n] = blame[n] \union S
       /\ \A m \in Node \ {n} : blame'[m] = blame[m]
  BY <1>1, <1>12, BlameFacts
<1>14. /\ Clear(n)' => Clear(n) /\ (~o.ok => o.ptail # b[Len(b)].at /\ write_flag'[n])
       /\ Calm(n)' => Calm(n) /\ Clear(n)'
  <2>1. (Clear(n)' => Clear(n)) /\ (Calm(n)' => Calm(n) /\ Clear(n)')
    BY <1>13, BlameStays DEF Clear, Calm
  <2>2. Clear(n)' => "refused" \notin blame'[n]
    BY DEF Clear
  <2>. QED
    BY <1>12, <1>13, <2>1, <2>2
<1>15. /\ wrote'[n] = w /\ pbuf'[n] = (IF o.ok THEN b ELSE WithoutLast(b))
       /\ ptail'[n] = (IF ~o.ok /\ o.ptail = b[Len(b)].at THEN Freed ELSE o.ptail)
       /\ \A m \in Node \ {n} : wrote'[m] = wrote[m] /\ pbuf'[m] = pbuf[m] /\ ptail'[m] = ptail[m]
  BY <1>1, <1>4, <1>5 DEF TypeOK
<1>16. /\ write_flag'[n] <=> write_flag[n] \/ told # <<>>
       /\ \A m \in Node \ {n} : write_flag'[m] = write_flag[m]
  BY <1>1, <1>5, Zenon DEF TypeOK
<1>17. ~o.ok => /\ WithoutLast(b) \in Seq(Packet) /\ InOrder(WithoutLast(b))
                /\ Len(WithoutLast(b)) = Len(b) - 1
                /\ \A i \in 1 .. Len(b) - 1 : i \in 1 .. Len(b) /\ WithoutLast(b)[i] = b[i]
  BY <1>6, <1>9, DroppedInOrder
<1>18. UNCHANGED <<copy, nagle, pbuf_num, busy, carry>>
  BY <1>2 DEF options, finish
<1>19. TypeOK'
  <2>1. wrote' \in [Node -> Nat] /\ ptail' \in [Node -> Nat \union {NoBuf, Freed}]
    BY <1>1, <1>5, <1>7, <1>10 DEF TypeOK
  <2>2. pbuf' \in [Node -> Seq(Packet)]
    BY <1>1, <1>4, <1>5, <1>6, <1>17 DEF TypeOK
  <2>3. write_flag' \in [Node -> BOOLEAN]
    BY <1>1, <1>5 DEF TypeOK
  <2>4. events' \in Seq(Event) /\ Len(events') <= QueueLen /\ dropped' \in BOOLEAN
    BY <1>1, <1>5, <1>11, EventFacts, PostFacts DEF TypeOK
  <2>5. sending' \in 0 .. MaxNode
    BY <1>2, NodeNat
  <2>6. lowered' \in BOOLEAN
    BY <1>2, Zenon
  <2>. QED
    BY <1>1, <1>2, <1>13, <1>18, <2>1, <2>2, <2>3, <2>4, <2>5, <2>6 DEF TypeOK, Blames, Event
<1>20. Control'
  <2>1. Announced'
    <3>1. ASSUME NEW i \in 1 .. Len(told)
          PROVE  /\ told[i].node = n /\ life[n] = "listed" /\ told[i].sig = "WRITE"
                 /\ conn[n] \notin {"closing", "gone"}
      <4>1. told # <<>>
        BY <3>1, EmptySeq
      <4>2. Attached(n)
        BY <1>7, <1>11, <4>1
      <4>. QED
        BY <1>2, <1>11, <4>2 DEF Attached
    <3>. QED
      BY <1>1, <1>2, <1>5, <1>11, <1>13, <3>1, AnnouncedPost
  <2>2. ASSUME NEW m \in Node PROVE Lives(m)'
    <3>1. Lives(m) /\ (Spoilt(m) => Spoilt(m)')
      BY <1>1, <1>13, BlameStays DEF Control
    <3>2. life[m] = "unused" => (Disturbed(m)' <=> Disturbed(m))
      BY <1>2, <1>13, BlameSame
    <3>. QED
      BY <1>2, <3>1, <3>2 DEF Lives
  <2>3. Finishing'
    BY <1>1, <1>2, <1>13, <1>18, FinishingFrame DEF Attached
  <2>. QED
    BY <2>1, <2>2, <2>3 DEF Control
<1>21. ASSUME NEW m \in Node \ {n}
       PROVE  Kept(m)' /\ Credits(m)' /\ Bare(m)' /\ Handed(m)' /\ Flagged(m)'
  <2>1. Over(m)' = Over(m) /\ (sending' = m <=> sending = m)
    BY <1>2, <1>18, NodeNat DEF Over
  <2>. QED
    BY <1>2, <1>13, <1>15, <1>16, <1>18, <2>1, NodeFrame
<1>22. ASSUME ~o.ok, Clear(n)'
       PROVE  \E i \in GoesOn(pbuf'[n], o.ptail, w) : pbuf'[n] # <<>> /\ a < pbuf'[n][i].at + pbuf'[n][i].len
  <2>1. Clear(n) /\ o.ptail # b[Len(b)].at /\ o.ptail \in Nat /\ pbuf'[n] = WithoutLast(b)
    BY <1>10, <1>14, <1>15, <1>22
  <2>2. PICK i \in GoesOn(b, o.ptail, w) : a < b[i].at + b[i].len
    BY <1>10, <2>1
  <2>3. i \in 1 .. Len(b) /\ b[i].at = o.ptail /\ o.ptail <= w /\ w <= b[i].at + b[i].len
    BY DEF GoesOn
  <2>4. i \in 1 .. Len(b) - 1 /\ Len(b) \in Nat
    BY <1>6, <2>1, <2>3, LenProperties
  <2>5. pbuf'[n][i] = b[i] /\ i \in 1 .. Len(pbuf'[n]) /\ pbuf'[n] \in Seq(Packet)
    BY <1>17, <1>22, <2>1, <2>4
  <2>6. pbuf'[n] # <<>>
    BY <2>5, EmptySeq
  <2>. QED
    BY <2>2, <2>3, <2>5, <2>6 DEF GoesOn
<1>23. End(n, pbuf[n])' = IF b = <<>> THEN w ELSE IF o.ok THEN End(n, b) ELSE End(n, pbuf[n])'
  BY <1>9, <1>15 DEF End
<1>24. Kept(n)'
  <2>1. InOrder(pbuf'[n])
    BY <1>6, <1>15, <1>17
  <2>2. acked'[n] <= wrote'[n] /\ wrote'[n] - acked'[n] <= SndBuf
    BY <1>1, <1>2, <1>4, <1>7, <1>15
  <2>3. ASSUME ptail'[n] = NoBuf PROVE End(n, pbuf[n])' = wrote'[n]
    <3>1. o.ptail = NoBuf
      BY <1>15, <2>3 DEF NoBuf, Freed
    <3>. QED
      BY <1>10, <1>15, <1>23, <3>1
  <2>4. ASSUME ptail'[n] = Freed PROVE ~Clear(n)'
    BY <1>10, <1>14, <1>15, <2>4
  <2>5. ASSUME ptail'[n] \in Nat
        PROVE  \E i \in GoesOn(pbuf'[n], ptail'[n], wrote'[n]) :
                 Clear(n)' => acked'[n] < pbuf'[n][i].at + pbuf'[n][i].len
    <3>1. ptail'[n] = o.ptail /\ (o.ok \/ o.ptail # b[Len(b)].at)
      BY <1>15, <2>5 DEF Freed
    <3>2. PICK i \in GoesOn(b, o.ptail, w) : Clear(n) => a < b[i].at + b[i].len
      BY <1>10, <2>5, <3>1
    <3>3. i \in 1 .. Len(b) /\ b[i].at = o.ptail /\ o.ptail <= w /\ w <= b[i].at + b[i].len
      BY DEF GoesOn
    <3>4. i \in 1 .. Len(pbuf'[n]) /\ pbuf'[n][i] = b[i]
      <4>1. CASE o.ok
        BY <1>15, <3>3, <4>1
      <4>2. CASE ~o.ok
        <5>1. i \in 1 .. Len(b) - 1 /\ Len(b) \in Nat
          BY <1>6, <3>1, <3>3, <4>2, LenProperties
        <5>. QED
          BY <1>15, <1>17, <4>2, <5>1
      <4>. QED
        BY <4>1, <4>2
    <3>5. i \in GoesOn(pbuf'[n], ptail'[n], wrote'[n])
      BY <1>15, <3>1, <3>3, <3>4 DEF GoesOn
    <3>6. Clear(n)' => acked'[n] < pbuf'[n][i].at + pbuf'[n][i].len
      BY <1>2, <1>4, <1>14, <3>2, <3>4
    <3>. QED
      BY <3>5, <3>6
  <2>. QED
    BY <2>1, <2>2, <2>3, <2>4, <2>5 DEF Kept
<1>25. Credits(n)'
  <2>. SUFFICES ASSUME Clear(n)'
                PROVE  /\ \A i \in 2 .. Len(pbuf'[n]) : pbuf'[n][i].tot = 0
                       /\ pbuf'[n] = <<>> => a = w /\ Over(n) = 0
                       /\ pbuf'[n] # <<>> => pbuf'[n][1].at + pbuf'[n][1].tot + Over(n) <= a
    BY <1>2, <1>4, <1>15, <1>18 DEF Credits, Over
  <2>1. /\ \A i \in 2 .. Len(b) : b[i].tot = 0
        /\ b = <<>> => a = wrote[n] /\ Over(n) = 0
        /\ b # <<>> => b[1].at + b[1].tot + Over(n) <= a
    BY <1>1, <1>2, <1>4, <1>14 DEF Credits
  <2>2. CASE o.ok
    <3>1. pbuf'[n] = b
      BY <1>15, <2>2
    <3>2. b = <<>> => w = wrote[n]
      BY <1>7, <1>8
    <3>. QED
      BY <2>1, <3>1, <3>2
  <2>3. CASE ~o.ok
    <3>1. pbuf'[n] # <<>> /\ pbuf'[n] = WithoutLast(b) /\ b # <<>> /\ Len(b) \in Nat
      BY <1>6, <1>9, <1>15, <1>22, <2>3, LenProperties
    <3>2. 1 \in 1 .. Len(b) - 1 /\ Len(pbuf'[n]) = Len(b) - 1
      BY <1>17, <2>3, <3>1, EmptySeq
    <3>3. pbuf'[n][1] = b[1]
      BY <1>17, <2>3, <3>1, <3>2
    <3>4. ASSUME NEW i \in 2 .. Len(pbuf'[n]) PROVE pbuf'[n][i].tot = 0
      <4>1. i \in 1 .. Len(b) - 1 /\ i \in 2 .. Len(b)
        BY <3>1, <3>2
      <4>. QED
        BY <1>17, <2>1, <2>3, <3>1, <4>1
    <3>. QED
      BY <2>1, <3>1, <3>3, <3>4
  <2>. QED
    BY <2>2, <2>3
<1>26. Bare(n)'
  BY <1>2 DEF Bare
<1>27. Handed(n)'
  BY <1>2, NodeNat DEF Handed
<1>28. Flagged(n)'
  <2>. SUFFICES ASSUME Attached(n)', ~write_flag'[n], Calm(n)'
                PROVE  copy'[n] /\ End(n, pbuf[n])' > wrote'[n] /\ acked'[n] < wrote'[n]
    BY Zenon DEF Flagged
  <2>1. Attached(n) /\ Calm(n) /\ Clear(n) /\ ~write_flag[n] /\ told = <<>> /\ o.ok
    BY <1>2, <1>14, <1>16 DEF Attached
  <2>2. copy[n] /\ End(n, b) > wrote[n]
    BY <1>1, <1>4, <2>1 DEF Flagged
  <2>3. t \in Nat /\ End(n, b) \in Nat
    BY <1>1, <1>6, <2>1, <2>2, EndNat
  <2>4. w # End(n, b)
    BY <1>8, <1>11, <2>1, <2>2, <2>3
  <2>5. w < End(n, b) /\ a < w
    BY <1>6, <1>7, <2>1, <2>3, <2>4 DEF NoBuf
  <2>6. End(n, pbuf[n])' = End(n, b)
    BY <1>8, <1>23, <2>1, <2>3
  <2>. QED
    BY <1>2, <1>4, <1>15, <1>18, <2>2, <2>5, <2>6
<1>29. Drops(n)
  <2>1. CASE o.ok
    BY <1>2, <1>4, <1>13, <1>15, <1>18, <2>1 DEF Drops
  <2>2. CASE ~o.ok
    <3>1. pbuf[n] # <<>> /\ pbuf'[n] = WithoutLast(pbuf[n]) /\ (Clear(n)' => pbuf'[n] # <<>>)
      BY <1>4, <1>9, <1>15, <1>22, <2>2
    <3>. QED
      BY <1>2, <1>13, <1>15, <1>18, <3>1 DEF Drops
  <2>. QED
    BY <2>1, <2>2
<1>30. IInv'
  BY <1>19, <1>20, <1>21, <1>24, <1>25, <1>26, <1>27, <1>28 DEF IInv, Packets, Flags
<1>. QED
  BY <1>29, <1>30

-----------------------------------------------------------------------------
(* What is acknowledged: the head is credited, and the write goes on.      *)

LEMMA TotLenValues == TotLens \in Nat /\ TotLens > 0
<1>1. TotLens \in Nat \ {0}
  BY EspconnAssumption, SMT
<1>. QED
  BY <1>1

LEMMA CreditedFacts ==
  ASSUME NEW p, NEW k \in Nat, p.tot \in Nat
  PROVE  /\ Credited(p, k) \in Nat /\ Credited(p, k) <= p.tot + k
         /\ Credited(p, k) < TotLens /\ (p.tot + k < TotLens => Credited(p, k) = p.tot + k)
<1>1. TotLens \in Nat /\ TotLens > 0
  BY TotLenValues
<1>2. PICK x \in Nat : x = p.tot + k
  OBVIOUS
<1>3. x % TotLens \in Nat /\ x % TotLens <= x /\ x % TotLens < TotLens /\ (x < TotLens => x % TotLens = x)
  BY <1>1
<1>4. Credited(p, k) = x % TotLens
  BY <1>2 DEF Credited
<1>. QED
  BY <1>2, <1>3, <1>4

CreditsHead(n) ==
  \E k \in 1 .. SndBuf :
    /\ pbuf[n] # <<>> /\ pbuf'[n] = Credit(pbuf[n], Credited(pbuf[n][1], k)) /\ acked'[n] = acked[n] + k
    /\ \A m \in Node \ {n} : pbuf'[m] = pbuf[m] /\ acked'[m] = acked[m]
    /\ busy = 0 /\ busy' = n /\ carry' = 0 /\ life[n] = "listed" /\ UNCHANGED life /\ Grows
    /\ Clear(n)' => pbuf[n][1].tot + k < TotLens

LEMMA AckStep ==
  ASSUME IInv, NEW n \in Node, Sent(n)
  PROVE  IInv' /\ CreditsHead(n)
<1>1. /\ TypeOK /\ Control /\ Kept(n) /\ Credits(n) /\ Bare(n) /\ Handed(n) /\ Flagged(n) /\ Lives(n)
      /\ pbuf[n] \in Seq(Packet) /\ ptail[n] \in Nat \union {NoBuf, Freed} /\ wrote[n] \in Nat /\ acked[n] \in Nat
      /\ write_flag[n] \in BOOLEAN /\ copy[n] \in BOOLEAN
  BY DEF IInv, TypeOK, Control, Packets, Flags
<1>2. PICK k \in 1 .. SndBuf :
        /\ Acknowledged(n, k) /\ pbuf[n] # <<>> /\ ~Follows(n, ptail[n], acked[n] + k)
        /\ LET b == [pbuf[n] EXCEPT ![1].tot = Credited(pbuf[n][1], k)] IN
             \E o \in Written(n, b, ptail[n], acked[n] + k) :
               LET told == Told(n, b, o.wrote) IN
                 /\ acked' = [acked EXCEPT ![n] = @ + k]
                 /\ wrote' = [wrote EXCEPT ![n] = o.wrote]
                 /\ pbuf' = [pbuf EXCEPT ![n] = b]
                 /\ ptail' = [ptail EXCEPT ![n] = o.ptail]
                 /\ write_flag' = [write_flag EXCEPT ![n] = @ \/ told # <<>>]
                 /\ Post(told)
                 /\ Blame(n, Raced(n) \union Cause("wrapped", pbuf[n][1].tot + k >= TotLens)
                               \union Cause("stranded", ~o.ok /\ o.wrote = acked[n] + k))
  BY Zenon DEF Sent
<1>3. /\ recv_check' = [recv_check EXCEPT ![n] = 0] /\ busy' = n /\ carry' = 0
      /\ UNCHANGED <<life, role, conn, closed, copy, nagle, pbuf_num, sending, lowered, listening, fault, calls>>
  BY DEF Sent, options, send
<1>4. PICK x, b : x = Credited(pbuf[n][1], k) /\ b = [pbuf[n] EXCEPT ![1].tot = x]
  OBVIOUS
<1>5. PICK o, told :
        /\ o \in Written(n, b, ptail[n], acked[n] + k)
        /\ told = Told(n, b, o.wrote)
        /\ acked' = [acked EXCEPT ![n] = @ + k]
        /\ wrote' = [wrote EXCEPT ![n] = o.wrote]
        /\ pbuf' = [pbuf EXCEPT ![n] = b]
        /\ ptail' = [ptail EXCEPT ![n] = o.ptail]
        /\ write_flag' = [write_flag EXCEPT ![n] = @ \/ told # <<>>]
        /\ Post(told)
        /\ Blame(n, Raced(n) \union Cause("wrapped", pbuf[n][1].tot + k >= TotLens)
                      \union Cause("stranded", ~o.ok /\ o.wrote = acked[n] + k))
  BY <1>2, <1>4
<1>6. /\ k \in Nat /\ k > 0 /\ fault = 0 /\ busy = 0 /\ Attached(n) /\ life[n] = "listed"
      /\ acked[n] + k \in Nat /\ acked[n] + k <= wrote[n]
  <2>1. k \in Nat /\ k > 0
    BY Buffers
  <2>2. k \in 1 .. wrote[n] - acked[n] /\ fault = 0 /\ busy = 0 /\ Attached(n)
    BY <1>2 DEF Acknowledged, Running
  <2>3. life[n] = "listed"
    BY <1>1, <2>2 DEF Lives, Attached
  <2>. QED
    BY <1>1, <2>1, <2>2, <2>3
<1>7. Len(pbuf[n]) \in Nat /\ 1 \in 1 .. Len(pbuf[n]) /\ pbuf[n][1].at \in Nat /\ pbuf[n][1].tot \in Nat
  <2>1. Len(pbuf[n]) \in Nat /\ 1 \in 1 .. Len(pbuf[n])
    <3>1. pbuf[n] # <<>>
      BY <1>2
    <3>. QED
      BY <1>1, <3>1, EmptySeq, LenProperties
  <2>. QED
    BY <1>1, <2>1, PacketFields
<1>8. x \in Nat /\ x <= pbuf[n][1].tot + k
  BY <1>4, <1>6, <1>7, CreditedFacts
<1>9. /\ b \in Seq(Packet) /\ InOrder(b) /\ b # <<>> /\ Len(b) = Len(pbuf[n])
      /\ b[1].tot = x /\ End(n, b) = End(n, pbuf[n])
      /\ \A i \in 1 .. Len(pbuf[n]) : b[i].at = pbuf[n][i].at /\ b[i].len = pbuf[n][i].len
      /\ \A i \in 2 .. Len(pbuf[n]) : b[i].tot = pbuf[n][i].tot
  <2>1. PICK q \in Seq(Packet) : q = pbuf[n]
    BY <1>1
  <2>2. InOrder(q) /\ q # <<>>
    BY <1>1, <1>2, <2>1 DEF Kept
  <2>3. b = Credit(q, x)
    BY <1>4, <2>1 DEF Credit
  <2>4. /\ b \in Seq(Packet) /\ InOrder(b) /\ b # <<>> /\ Len(b) = Len(q)
        /\ b[1].tot = x /\ End(n, b) = End(n, q)
        /\ \A i \in 1 .. Len(q) : b[i].at = q[i].at /\ b[i].len = q[i].len
        /\ \A i \in 2 .. Len(q) : b[i].tot = q[i].tot
    <3>1. x \in Nat
      BY <1>8
    <3>. QED
      BY <2>2, <2>3, <3>1, CreditInOrder
  <2>. QED
    BY <2>1, <2>4
<1>10. GoesOn(b, ptail[n], wrote[n]) = GoesOn(pbuf[n], ptail[n], wrote[n])
  BY <1>9 DEF GoesOn
<1>11. wrote[n] - (acked[n] + k) <= SndBuf
  BY <1>1, <1>6, Buffers DEF Kept
<1>12. ptail[n] \in Nat => GoesOn(b, ptail[n], wrote[n]) # {}
  BY <1>1, <1>10 DEF Kept
<1>13. /\ o.wrote \in Nat /\ wrote[n] <= o.wrote /\ o.wrote - (acked[n] + k) <= SndBuf
       /\ ptail[n] \in Nat => o.wrote <= End(n, b)
       /\ \/ o.ptail = ptail[n] /\ o.wrote = wrote[n] /\ (ptail[n] \in Nat => acked[n] + k < wrote[n])
          \/ ptail[n] \in Nat /\ o.ok /\ o.ptail = NoBuf /\ o.wrote = End(n, b)
          \/ ptail[n] \in Nat /\ \E i \in GoesOn(b, o.ptail, o.wrote) : acked[n] + k < b[i].at + b[i].len
       /\ \/ acked[n] + k < o.wrote
          \/ ptail[n] = NoBuf /\ o.ok
          \/ ptail[n] \in Nat /\ (~o.ok \/ o.wrote = End(n, b))
  BY <1>1, <1>2, <1>5, <1>6, <1>9, <1>11, <1>12, WrittenFacts
<1>14. /\ o.ptail \in Nat \union {NoBuf, Freed}
       /\ o.ptail = NoBuf => End(n, b) = o.wrote
       /\ o.ptail = Freed => ptail[n] = Freed
       /\ o.ptail \in Nat => \E i \in GoesOn(b, o.ptail, o.wrote) : acked[n] + k < b[i].at + b[i].len
  <2>1. CASE o.ptail = ptail[n] /\ o.wrote = wrote[n] /\ (ptail[n] \in Nat => acked[n] + k < wrote[n])
    <3>1. ASSUME o.ptail \in Nat
          PROVE  \E i \in GoesOn(b, o.ptail, o.wrote) : acked[n] + k < b[i].at + b[i].len
      <4>1. PICK i \in GoesOn(b, o.ptail, o.wrote) : TRUE
        BY <1>12, <2>1, <3>1
      <4>2. i \in 1 .. Len(b) /\ o.wrote <= b[i].at + b[i].len
        BY DEF GoesOn
      <4>3. b[i].at \in Nat /\ b[i].len \in Nat
        BY <1>9, <4>2, PacketFields
      <4>4. acked[n] + k < b[i].at + b[i].len
        <5>1. o.wrote = wrote[n] /\ acked[n] + k < wrote[n]
          BY <2>1, <3>1
        <5>2. b[i].at + b[i].len \in Nat
          BY <4>3
        <5>3. PICK e \in Nat, w \in Nat, v \in Nat : e = b[i].at + b[i].len /\ w = wrote[n] /\ v = acked[n] + k
          BY <1>1, <1>6, <5>2
        <5>4. v < w /\ w <= e
          BY <4>2, <5>1, <5>3
        <5>. QED
          BY <5>3, <5>4
      <4>. QED
        BY <4>4
    <3>2. ptail[n] = NoBuf => End(n, b) = wrote[n]
      BY <1>1, <1>9 DEF Kept
    <3>. QED
      BY <1>1, <2>1, <3>1, <3>2
  <2>2. CASE ptail[n] \in Nat /\ o.ok /\ o.ptail = NoBuf /\ o.wrote = End(n, b)
    BY <2>2 DEF NoBuf, Freed
  <2>3. CASE ptail[n] \in Nat /\ \E i \in GoesOn(b, o.ptail, o.wrote) : acked[n] + k < b[i].at + b[i].len
    <3>1. PICK i \in GoesOn(b, o.ptail, o.wrote) : TRUE
      BY <2>3
    <3>2. i \in 1 .. Len(b) /\ o.ptail = b[i].at
      BY DEF GoesOn
    <3>3. o.ptail \in Nat
      BY <1>9, <3>2, PacketFields
    <3>. QED
      BY <2>3, <3>3 DEF NoBuf, Freed
  <2>. QED
    BY <1>13, <2>1, <2>2, <2>3
<1>15. /\ told \in Seq(Event)
       /\ \A i \in 1 .. Len(told) : told[i] = [sig |-> "WRITE", node |-> n]
       /\ copy[n] /\ wrote[n] < o.wrote /\ o.wrote = End(n, b) => told # <<>>
  <2>1. told = Told(n, b, o.wrote)
    BY <1>5
  <2>2. /\ Told(n, b, o.wrote) \in Seq(Event)
        /\ \A i \in 1 .. Len(Told(n, b, o.wrote)) : Told(n, b, o.wrote)[i] = [sig |-> "WRITE", node |-> n]
        /\ b # <<>> /\ copy[n] /\ wrote[n] < o.wrote /\ o.wrote = End(n, b) => Told(n, b, o.wrote) # <<>>
    BY <1>1, <1>9, <1>13, ToldFacts
  <2>. QED
    BY <1>9, <2>1, <2>2, Zenon
<1>16. /\ wrote'[n] = o.wrote /\ pbuf'[n] = b /\ ptail'[n] = o.ptail /\ acked'[n] = acked[n] + k
       /\ \A m \in Node \ {n} : /\ wrote'[m] = wrote[m] /\ pbuf'[m] = pbuf[m]
                                /\ ptail'[m] = ptail[m] /\ acked'[m] = acked[m]
  BY <1>1, <1>5 DEF TypeOK
<1>17. /\ write_flag'[n] <=> write_flag[n] \/ told # <<>>
       /\ \A m \in Node \ {n} : write_flag'[m] = write_flag[m]
  BY <1>1, <1>5, Zenon DEF TypeOK
<1>s. PICK S \in SUBSET Blames :
        /\ Blame(n, S)
        /\ sending = n => "raced" \in S
        /\ pbuf[n][1].tot + k >= TotLens => "wrapped" \in S
        /\ ~o.ok /\ o.wrote = acked[n] + k => "stranded" \in S
  <2>1. PICK T : T = Raced(n) \union Cause("wrapped", pbuf[n][1].tot + k >= TotLens)
                       \union Cause("stranded", ~o.ok /\ o.wrote = acked[n] + k)
    OBVIOUS
  <2>2. T \in SUBSET Blames
    BY <2>1, Zenon DEF Raced, Cause, Blames
  <2>3. /\ sending = n => "raced" \in T
        /\ pbuf[n][1].tot + k >= TotLens => "wrapped" \in T
        /\ ~o.ok /\ o.wrote = acked[n] + k => "stranded" \in T
    BY <2>1, Zenon DEF Raced, Cause
  <2>4. Blame(n, T)
    BY <1>5, <2>1
  <2>. QED
    BY <2>2, <2>3, <2>4
<1>19. /\ blame' \in [Node -> SUBSET Blames] /\ Grows /\ blame'[n] = blame[n] \union S
       /\ \A m \in Node \ {n} : blame'[m] = blame[m]
  BY <1>1, <1>s, BlameFacts
<1>22. /\ Clear(n)' => Clear(n) /\ sending # n /\ pbuf[n][1].tot + k < TotLens
       /\ Calm(n)' => Calm(n) /\ Clear(n)' /\ ~(~o.ok /\ o.wrote = acked[n] + k)
  <2>1. (Clear(n)' => Clear(n)) /\ (Calm(n)' => Calm(n) /\ Clear(n)')
    BY <1>19, BlameStays DEF Clear, Calm
  <2>2. /\ Clear(n)' => "raced" \notin blame'[n] /\ "wrapped" \notin blame'[n]
        /\ Calm(n)' => "stranded" \notin blame'[n]
    BY DEF Clear, Calm
  <2>3. S \subseteq blame'[n]
    BY <1>19
  <2>4. /\ Clear(n)' => sending # n /\ ~(pbuf[n][1].tot + k >= TotLens)
        /\ Calm(n)' => ~(~o.ok /\ o.wrote = acked[n] + k)
    BY <1>s, <2>2, <2>3, Zenon
  <2>. QED
    BY <1>6, <1>7, <2>1, <2>4, TotLenValues
<1>18. TypeOK'
  <2>1. /\ wrote' \in [Node -> Nat] /\ acked' \in [Node -> Nat] /\ pbuf' \in [Node -> Seq(Packet)]
        /\ ptail' \in [Node -> Nat \union {NoBuf, Freed}]
    BY <1>1, <1>5, <1>6, <1>9, <1>13, <1>14 DEF TypeOK
  <2>2. write_flag' \in [Node -> BOOLEAN] /\ recv_check' \in [Node -> 0 .. Timeout]
    <3>1. 0 \in 0 .. Timeout
      BY EspconnAssumption, SMT
    <3>. QED
      BY <1>1, <1>3, <1>5, <3>1 DEF TypeOK
  <2>3. events' \in Seq(Event) /\ Len(events') <= QueueLen /\ dropped' \in BOOLEAN
    BY <1>1, <1>5, <1>15, EventFacts, PostFacts DEF TypeOK
  <2>4. busy' \in 0 .. MaxNode /\ carry' \in Nat
    BY <1>3, NodeNat
  <2>. QED
    BY <1>1, <1>3, <1>19, <2>1, <2>2, <2>3, <2>4 DEF TypeOK, Event, Blames
<1>20. Control'
  <2>1. Announced'
    <3>1. ASSUME NEW i \in 1 .. Len(told)
          PROVE  /\ told[i].node = n /\ life[n] = "listed" /\ told[i].sig = "WRITE"
                 /\ conn[n] \notin {"closing", "gone"}
      BY <1>6, <1>15 DEF Attached
    <3>. QED
      BY <1>1, <1>3, <1>5, <1>15, <1>19, <3>1, AnnouncedPost
  <2>2. ASSUME NEW m \in Node PROVE Lives(m)'
    <3>1. Lives(m) /\ (Spoilt(m) => Spoilt(m)')
      BY <1>1, <1>19, BlameStays DEF Control
    <3>2. life[m] = "unused" => (Disturbed(m)' <=> Disturbed(m))
      BY <1>6, <1>19, BlameSame
    <3>. QED
      BY <1>3, <3>1, <3>2 DEF Lives
  <2>3. Finishing'
    BY <1>3, <1>6 DEF Finishing, Attached
  <2>. QED
    BY <2>1, <2>2, <2>3 DEF Control
<1>21. ASSUME NEW m \in Node \ {n}
       PROVE  Kept(m)' /\ Credits(m)' /\ Bare(m)' /\ Handed(m)' /\ Flagged(m)'
  <2>1. Over(m)' = Over(m) /\ (sending' = m <=> sending = m)
    BY <1>3, <1>6, NodeNat DEF Over
  <2>. QED
    BY <1>3, <1>16, <1>17, <1>19, <2>1, NodeFrame
<1>23. End(n, pbuf[n])' = End(n, b)
  BY <1>9, <1>16 DEF End
<1>24. Kept(n)'
  <2>1. acked'[n] <= wrote'[n] /\ wrote'[n] - acked'[n] <= SndBuf
    BY <1>1, <1>6, <1>13, <1>16
  <2>2. ptail'[n] = Freed => ~Clear(n)'
    BY <1>1, <1>14, <1>16, <1>22 DEF Kept
  <2>3. ptail'[n] = NoBuf => End(n, pbuf[n])' = wrote'[n]
    BY <1>14, <1>16, <1>23
  <2>. QED
    BY <1>9, <1>14, <1>16, <2>1, <2>2, <2>3 DEF Kept
<1>25. Credits(n)'
  <2>. SUFFICES ASSUME Clear(n)
                PROVE  /\ \A i \in 2 .. Len(b) : b[i].tot = 0
                       /\ b[1].at + b[1].tot + Over(n)' <= acked'[n]
    BY <1>9, <1>16, <1>22 DEF Credits
  <2>1. Over(n) = 0 /\ Over(n)' = 0
    BY <1>3, <1>6, NodeNat DEF Over
  <2>2. /\ \A i \in 2 .. Len(pbuf[n]) : pbuf[n][i].tot = 0
        /\ pbuf[n][1].at + pbuf[n][1].tot + Over(n) <= acked[n]
    BY <1>1, <1>2, <1>6 DEF Credits
  <2>3. b[1].at + b[1].tot + Over(n)' <= acked'[n]
    <3>1. b[1].at = pbuf[n][1].at /\ b[1].tot = x
      BY <1>7, <1>9
    <3>. QED
      BY <1>1, <1>6, <1>7, <1>8, <1>16, <2>1, <2>2, <3>1, SMTT(20)
  <2>. QED
    BY <1>9, <2>2, <2>3
<1>26. Bare(n)'
  BY <1>3, <1>6 DEF Bare
<1>h. Handed(n)'
  BY <1>3, <1>22 DEF Handed
<1>27. Flagged(n)'
  <2>. SUFFICES ASSUME Attached(n)', ~write_flag'[n], Calm(n)'
                PROVE  copy'[n] /\ End(n, pbuf[n])' > wrote'[n] /\ acked'[n] < wrote'[n]
    BY Zenon DEF Flagged
  <2>1. told = <<>> /\ ~write_flag[n] /\ Calm(n) /\ Clear(n) /\ ~(~o.ok /\ o.wrote = acked[n] + k)
    BY <1>17, <1>22
  <2>2. copy[n] /\ End(n, pbuf[n]) > wrote[n]
    BY <1>1, <1>6, <2>1 DEF Flagged
  <2>3. ptail[n] \in Nat
    BY <1>1, <2>1, <2>2 DEF Kept
  <2>4. o.wrote <= End(n, b) /\ End(n, b) \in Nat
    BY <1>1, <1>9, <1>12, <1>13, <2>3, EndReached
  <2>5. o.wrote # End(n, b)
    BY <1>1, <1>9, <1>13, <1>15, <2>1, <2>2, <2>4
  <2>6. acked[n] + k < o.wrote
    BY <1>1, <1>6, <1>13, <2>1, <2>3, <2>5 DEF NoBuf
  <2>. QED
    BY <1>3, <1>13, <1>16, <1>23, <2>2, <2>4, <2>5, <2>6
<1>28. CreditsHead(n)
  <2>1. b = Credit(pbuf[n], Credited(pbuf[n][1], k)) /\ pbuf[n] # <<>>
    BY <1>2, <1>4 DEF Credit
  <2>. QED
    BY <1>3, <1>6, <1>16, <1>19, <1>22, <2>1 DEF CreditsHead
<1>29. IInv'
  BY <1>18, <1>20, <1>21, <1>24, <1>25, <1>26, <1>h, <1>27 DEF IInv, Packets, Flags
<1>. QED
  BY <1>28, <1>29

(* The loop of espconn_tcp_finish ends, or its head is not yet complete.   *)
LEMMA FinishEnds ==
  ASSUME IInv, NEW n \in Node, n = busy, busy' = 0, carry' = 0,
         UNCHANGED <<life, role, conn, closed, ptail, wrote, acked, write_flag, options, recv_check, events,
                     send, listening, fault, calls, dropped, blame>>,
         \/ pbuf[n] = <<>> /\ UNCHANGED pbuf
         \/ /\ pbuf[n] # <<>>
            /\ pbuf' = [pbuf EXCEPT ![n] = Credit(pbuf[n], Credited(pbuf[n][1], carry))]
  PROVE  IInv'
<1>1. /\ TypeOK /\ Control /\ Kept(n) /\ Credits(n) /\ Bare(n) /\ Handed(n) /\ Flagged(n)
      /\ pbuf[n] \in Seq(Packet) /\ wrote[n] \in Nat /\ acked[n] \in Nat /\ carry \in Nat
  BY DEF IInv, TypeOK, Packets, Flags
<1>2. Over(n) = carry /\ Over(n)' = 0 /\ \A m \in Node \ {n} : Over(m)' = Over(m)
  BY NodeNat DEF Over
<1>3. UNCHANGED <<copy, nagle, pbuf_num, sending, lowered>>
  BY DEF options, send
<1>4. PICK b : b = pbuf'[n]
  OBVIOUS
<1>5. /\ pbuf' \in [Node -> Seq(Packet)] /\ \A m \in Node \ {n} : pbuf'[m] = pbuf[m]
      /\ InOrder(b) /\ End(n, b) = End(n, pbuf[n]) /\ Len(b) = Len(pbuf[n]) /\ (b = <<>> => pbuf[n] = <<>>)
      /\ \A i \in 1 .. Len(pbuf[n]) : b[i].at = pbuf[n][i].at /\ b[i].len = pbuf[n][i].len
      /\ \A i \in 2 .. Len(pbuf[n]) : b[i].tot = pbuf[n][i].tot
      /\ pbuf[n] # <<>> => b[1].at + b[1].tot <= pbuf[n][1].at + pbuf[n][1].tot + carry
  <2>1. CASE UNCHANGED pbuf /\ pbuf[n] = <<>>
    BY <1>1, <1>4, <2>1 DEF TypeOK, Kept
  <2>2. CASE pbuf[n] # <<>> /\ pbuf' = [pbuf EXCEPT ![n] = Credit(pbuf[n], Credited(pbuf[n][1], carry))]
    <3>1. 1 \in 1 .. Len(pbuf[n]) /\ pbuf[n] # <<>>
      BY <1>1, <2>2, EmptySeq
    <3>2. pbuf[n][1].at \in Nat /\ pbuf[n][1].tot \in Nat
      BY <1>1, <3>1, PacketFields
    <3>3. PICK x \in Nat : x = Credited(pbuf[n][1], carry) /\ x <= pbuf[n][1].tot + carry
      BY <1>1, <3>2, CreditedFacts
    <3>4. b = Credit(pbuf[n], x) /\ pbuf' = [pbuf EXCEPT ![n] = b] /\ \A m \in Node \ {n} : pbuf'[m] = pbuf[m]
      BY <1>1, <1>4, <2>2, <3>3 DEF TypeOK
    <3>5. InOrder(pbuf[n])
      BY <1>1 DEF Kept
    <3>6. /\ b \in Seq(Packet) /\ InOrder(b) /\ b # <<>>
          /\ Len(b) = Len(pbuf[n]) /\ b[1].tot = x /\ End(n, b) = End(n, pbuf[n])
          /\ \A i \in 1 .. Len(pbuf[n]) : b[i].at = pbuf[n][i].at /\ b[i].len = pbuf[n][i].len
          /\ \A i \in 2 .. Len(pbuf[n]) : b[i].tot = pbuf[n][i].tot
      BY <1>1, <3>1, <3>4, <3>5, CreditInOrder
    <3>7. pbuf' \in [Node -> Seq(Packet)]
      BY <1>1, <3>4, <3>6 DEF TypeOK
    <3>8. b[1].at + b[1].tot <= pbuf[n][1].at + pbuf[n][1].tot + carry
      <4>1. PICK at \in Nat, tot \in Nat, over \in Nat :
              at = pbuf[n][1].at /\ tot = pbuf[n][1].tot /\ over = carry
        BY <1>1, <3>2
      <4>2. x <= tot + over
        BY <3>3, <4>1
      <4>3. b[1].at = at /\ b[1].tot = x
        BY <3>1, <3>6, <4>1
      <4>4. at + x <= at + tot + over
        BY <4>2
      <4>. QED
        BY <4>1, <4>3, <4>4
    <3>. QED
      BY <3>4, <3>6, <3>7, <3>8
  <2>. QED
    BY <2>1, <2>2
<1>6. TypeOK'
  <2>1. busy' \in 0 .. MaxNode /\ carry' \in Nat
    BY NodeNat
  <2>. QED
    BY <1>1, <1>3, <1>5, <2>1 DEF TypeOK
<1>7. /\ Grows /\ (Clear(n)' <=> Clear(n)) /\ (Calm(n)' <=> Calm(n))
      /\ End(n, pbuf[n])' = End(n, pbuf[n]) /\ (Attached(n)' <=> Attached(n))
  BY <1>4, <1>5 DEF Grows, Clear, Calm, End, Attached
<1>8. Control'
  <2>1. Announced'
    BY <1>1, <1>7, AnnouncedFrame
  <2>2. ASSUME NEW m \in Node PROVE Lives(m)'
    <3>1. Lives(m) /\ (Spoilt(m)' <=> Spoilt(m)) /\ (Disturbed(m)' <=> Disturbed(m))
      BY <1>1, BlameSame DEF Control
    <3>. QED
      BY <3>1 DEF Lives
  <2>3. Finishing'
    BY DEF Finishing
  <2>. QED
    BY <2>1, <2>2, <2>3 DEF Control
<1>9. ASSUME NEW m \in Node \ {n}
      PROVE  Kept(m)' /\ Credits(m)' /\ Bare(m)' /\ Handed(m)' /\ Flagged(m)'
  BY <1>2, <1>3, <1>5, NodeFrame
<1>10. Kept(n)'
  <2>1. GoesOn(b, ptail[n], wrote[n]) = GoesOn(pbuf[n], ptail[n], wrote[n])
    BY <1>5 DEF GoesOn
  <2>2. ASSUME ptail[n] \in Nat
        PROVE  \E i \in GoesOn(b, ptail[n], wrote[n]) : Clear(n) => acked[n] < b[i].at + b[i].len
    <3>1. PICK i \in GoesOn(pbuf[n], ptail[n], wrote[n]) : Clear(n) => acked[n] < pbuf[n][i].at + pbuf[n][i].len
      BY <1>1, <2>2 DEF Kept
    <3>2. i \in 1 .. Len(pbuf[n])
      BY DEF GoesOn
    <3>. QED
      BY <1>5, <2>1, <3>1, <3>2
  <2>. QED
    BY <1>1, <1>4, <1>5, <1>7, <2>2 DEF Kept
<1>11. Credits(n)'
  <2>. SUFFICES ASSUME life[n] = "listed", Clear(n)
                PROVE  /\ \A i \in 2 .. Len(b) : b[i].tot = 0
                       /\ b = <<>> => acked[n] = wrote[n]
                       /\ b # <<>> => b[1].at + b[1].tot + Over(n)' <= acked[n]
    BY <1>2, <1>4, <1>7 DEF Credits
  <2>1. /\ \A i \in 2 .. Len(pbuf[n]) : pbuf[n][i].tot = 0
        /\ pbuf[n] = <<>> => acked[n] = wrote[n]
        /\ pbuf[n] # <<>> => pbuf[n][1].at + pbuf[n][1].tot + carry <= acked[n]
    BY <1>1, <1>2 DEF Credits
  <2>2. ASSUME b # <<>> PROVE b[1].at + b[1].tot + Over(n)' <= acked[n]
    <3>1. pbuf[n] # <<>> /\ b \in Seq(Packet)
      BY <1>4, <1>5, <2>2
    <3>2. 1 \in 1 .. Len(pbuf[n]) /\ 1 \in 1 .. Len(b)
      BY <1>1, <2>2, <3>1, EmptySeq
    <3>3. /\ pbuf[n][1].at \in Nat /\ pbuf[n][1].tot \in Nat /\ b[1].at \in Nat /\ b[1].tot \in Nat
      BY <1>1, <3>1, <3>2, PacketFields
    <3>4. Over(n)' = 0 /\ acked[n] \in Nat /\ carry \in Nat
      BY <1>1, <1>2
    <3>5. PICK at \in Nat, tot \in Nat, at0 \in Nat, tot0 \in Nat, over \in Nat, a \in Nat :
            /\ at = b[1].at /\ tot = b[1].tot /\ over = carry /\ a = acked[n]
            /\ at0 = pbuf[n][1].at /\ tot0 = pbuf[n][1].tot
      BY <3>3, <3>4
    <3>6. at + tot <= at0 + tot0 + over
      BY <1>5, <2>2, <3>1, <3>5
    <3>7. at0 + tot0 + over <= a
      BY <2>1, <3>1, <3>5
    <3>8. at + tot + 0 <= a
      BY <3>6, <3>7
    <3>. QED
      BY <3>4, <3>5, <3>8
  <2>. QED
    BY <1>5, <2>1, <2>2
<1>12. Bare(n)'
  <2>1. pbuf[n] = <<>> => b = <<>>
    BY <1>4
  <2>. QED
    BY <1>1, <1>4, <2>1 DEF Bare
<1>13. Flagged(n)'
  BY <1>1, <1>3, <1>7, Zenon DEF Flagged
<1>14. Handed(n)'
  BY <1>1, <1>3, <1>7, Zenon DEF Handed
<1>. QED
  BY <1>6, <1>8, <1>9, <1>10, <1>11, <1>12, <1>13, <1>14 DEF IInv, Packets, Flags

(* A complete head is taken off: all its bytes were acknowledged, so that  *)
(* ptail is not at it.                                                     *)
Takes(n) ==
  /\ n = busy /\ pbuf[n] # <<>>
  /\ Credited(pbuf[n][1], carry) >= pbuf[n][1].len
  /\ pbuf' = [pbuf EXCEPT ![n] = Tail(pbuf[n])]
  /\ ptail' = IF ptail[n] = pbuf[n][1].at THEN [ptail EXCEPT ![n] = Freed] ELSE ptail
  /\ busy' = busy /\ carry' = PassedOn(pbuf[n][1])
  /\ closed' = [closed EXCEPT ![n] = FALSE]
  /\ Blame(n, Reopened(n) \union Raced(n))
  /\ UNCHANGED <<life, role, conn, wrote, acked, write_flag, options, recv_check, events, send, listening, fault,
                 calls, dropped>>

LEMMA FinishTakes ==
  ASSUME IInv, NEW n \in Node, Takes(n)
  PROVE  IInv'
<1>1. /\ TypeOK /\ Control /\ Kept(n) /\ Credits(n) /\ Bare(n) /\ Handed(n) /\ Flagged(n) /\ Lives(n)
      /\ pbuf[n] \in Seq(Packet) /\ ptail[n] \in Nat \union {NoBuf, Freed}
      /\ wrote[n] \in Nat /\ acked[n] \in Nat /\ carry \in Nat
  BY DEF IInv, TypeOK, Control, Packets, Flags
<1>0. PICK p : p = pbuf[n][1]
  OBVIOUS
<1>n. n = busy /\ pbuf[n] # <<>> /\ n # 0 /\ busy' = busy
  BY NodeNat DEF Takes
<1>c. Credited(p, carry) >= p.len /\ carry' = PassedOn(p)
  BY <1>0 DEF Takes
<1>p. /\ pbuf' = [pbuf EXCEPT ![n] = Tail(pbuf[n])]
      /\ ptail' = IF ptail[n] = p.at THEN [ptail EXCEPT ![n] = Freed] ELSE ptail
  BY <1>0 DEF Takes
<1>b. closed' = [closed EXCEPT ![n] = FALSE] /\ Blame(n, Reopened(n) \union Raced(n))
  BY DEF Takes
<1>u. UNCHANGED <<life, role, conn, wrote, acked, write_flag, copy, nagle, pbuf_num, recv_check, events,
                  sending, lowered, listening, fault, calls, dropped>>
  BY DEF Takes, options, send
<1>2. 1 \in 1 .. Len(pbuf[n]) /\ Len(pbuf[n]) \in Nat
  BY <1>1, <1>n, EmptySeq, LenProperties
<1>3. p \in Packet /\ p.at \in Nat /\ p.len \in Nat /\ p.tot \in Nat /\ p.len > 0
  <2>1. p.len \in Length
    BY <1>0, <1>1, <1>2 DEF Kept, InOrder
  <2>. QED
    BY <1>0, <1>1, <1>2, <2>1, PacketFields, LengthsAndCounts
<1>4. PICK x \in Nat : x = Credited(p, carry) /\ x <= p.tot + carry /\ x >= p.len
  BY <1>1, <1>3, <1>c, CreditedFacts
<1>5. carry' = x - p.len /\ carry' \in Nat
  BY <1>3, <1>4, <1>c DEF PassedOn
<1>6. PICK b : b = Tail(pbuf[n])
  OBVIOUS
<1>7. /\ b \in Seq(Packet) /\ InOrder(b) /\ Len(b) = Len(pbuf[n]) - 1
      /\ \A i \in 1 .. Len(b) : i + 1 \in 1 .. Len(pbuf[n]) /\ b[i] = pbuf[n][i + 1]
      /\ b = <<>> => End(n, pbuf[n]) = p.at + p.len
      /\ b # <<>> => End(n, b) = End(n, pbuf[n]) /\ b[1].at = p.at + p.len
  BY <1>0, <1>1, <1>6, <1>n, TailInOrder DEF Kept
<1>8. /\ pbuf' \in [Node -> Seq(Packet)] /\ pbuf'[n] = b /\ \A m \in Node \ {n} : pbuf'[m] = pbuf[m]
      /\ ptail' \in [Node -> Nat \union {NoBuf, Freed}] /\ \A m \in Node \ {n} : ptail'[m] = ptail[m]
      /\ ptail'[n] = (IF ptail[n] = p.at THEN Freed ELSE ptail[n])
  BY <1>1, <1>6, <1>7, <1>p DEF TypeOK
<1>9. PICK S \in SUBSET Blames : Blame(n, S) /\ (closed[n] => "reopened" \in S) /\ (sending = n => "raced" \in S)
  <2>1. Reopened(n) \union Raced(n) \in SUBSET Blames
    BY Zenon DEF Reopened, Raced, Cause, Blames
  <2>2. ~closed'[n]
    BY <1>1, <1>b DEF TypeOK
  <2>3. closed[n] => "reopened" \in Reopened(n)
    BY <2>2, Zenon DEF Reopened, Cause
  <2>4. sending = n => "raced" \in Raced(n)
    BY Zenon DEF Raced, Cause
  <2>. QED
    BY <1>b, <2>1, <2>3, <2>4
<1>10. /\ blame' \in [Node -> SUBSET Blames] /\ Grows /\ blame'[n] = blame[n] \union S
       /\ \A m \in Node \ {n} : blame'[m] = blame[m]
  BY <1>1, <1>9, BlameFacts
<1>12. /\ Clear(n)' => Clear(n)
       /\ Calm(n)' => Calm(n) /\ Clear(n)' /\ sending # n
  <2>1. (Clear(n)' => Clear(n)) /\ (Calm(n)' => Calm(n) /\ Clear(n)')
    BY <1>10, BlameStays DEF Clear, Calm
  <2>2. Calm(n)' => "raced" \notin blame'[n]
    BY DEF Calm
  <2>. QED
    BY <1>9, <1>10, <2>1, <2>2
<1>13. TypeOK'
  BY <1>1, <1>5, <1>8, <1>10, <1>b, <1>n, <1>u DEF TypeOK, Blames
<1>16. life[n] = "listed"
  BY <1>1, <1>n DEF Bare
<1>14. Control'
  <2>1. Announced'
    BY <1>1, <1>10, <1>u, AnnouncedFrame
  <2>2. ASSUME NEW m \in Node PROVE Lives(m)'
    <3>1. Lives(m)
      BY <1>1 DEF Control
    <3>2. CASE m = n
      <4>1. closed[n] => Spoilt(n)'
        BY <1>9, <1>10 DEF Spoilt
      <4>2. Spoilt(n) => Spoilt(n)'
        BY <1>10, BlameStays
      <4>. QED
        BY <1>16, <1>u, <3>1, <3>2, <4>1, <4>2 DEF Lives
    <3>3. CASE m # n
      <4>1. closed'[m] = closed[m] /\ blame'[m] = blame[m]
        BY <1>1, <1>10, <1>b, <3>3 DEF TypeOK
      <4>2. (Spoilt(m)' <=> Spoilt(m)) /\ (Disturbed(m)' <=> Disturbed(m))
        BY <4>1, BlameSame
      <4>. QED
        BY <1>u, <3>1, <4>1, <4>2 DEF Lives
    <3>. QED
      BY <3>2, <3>3
  <2>3. Finishing'
    BY <1>1, <1>10, <1>n, <1>u, FinishingFrame DEF Attached
  <2>. QED
    BY <2>1, <2>2, <2>3 DEF Control
<1>15. ASSUME NEW m \in Node \ {n}
       PROVE  Kept(m)' /\ Credits(m)' /\ Bare(m)' /\ Handed(m)' /\ Flagged(m)'
  <2>1. Over(m)' = Over(m)
    BY <1>n DEF Over
  <2>. QED
    BY <1>8, <1>10, <1>u, <2>1, NodeFrame
<1>17. ASSUME Clear(n)
       PROVE  /\ p.at + x <= acked[n] /\ p.at + p.len <= acked[n] /\ acked[n] <= wrote[n]
              /\ \A i \in 2 .. Len(pbuf[n]) : pbuf[n][i].tot = 0
  <2>1. p.at + p.tot + carry <= acked[n] /\ \A i \in 2 .. Len(pbuf[n]) : pbuf[n][i].tot = 0
    BY <1>0, <1>1, <1>16, <1>17, <1>n DEF Credits, Over
  <2>2. acked[n] <= wrote[n]
    BY <1>1 DEF Kept
  <2>3. PICK at \in Nat, len \in Nat, tot \in Nat, over \in Nat, a \in Nat :
          at = p.at /\ len = p.len /\ tot = p.tot /\ over = carry /\ a = acked[n]
    BY <1>1, <1>3
  <2>4. x <= tot + over /\ x >= len /\ at + tot + over <= a
    BY <1>4, <2>1, <2>3
  <2>5. at + x <= a /\ at + len <= a
    BY <2>4
  <2>. QED
    BY <2>1, <2>2, <2>3, <2>5
<1>18. ASSUME NEW i \in GoesOn(pbuf[n], ptail[n], wrote[n])
       PROVE  /\ i \in 1 .. Len(pbuf[n]) /\ pbuf[n][i].at = ptail[n]
              /\ ptail[n] <= wrote[n] /\ wrote[n] <= pbuf[n][i].at + pbuf[n][i].len
              /\ ptail[n] = p.at <=> i = 1
  <2>1. /\ i \in 1 .. Len(pbuf[n]) /\ pbuf[n][i].at = ptail[n]
        /\ ptail[n] <= wrote[n] /\ wrote[n] <= pbuf[n][i].at + pbuf[n][i].len
    BY DEF GoesOn
  <2>2. ASSUME i # 1 PROVE ptail[n] # p.at
    <3>1. p.at + p.len <= pbuf[n][i].at
      <4>1. 1 < i /\ InOrder(pbuf[n])
        BY <1>1, <2>1, <2>2 DEF Kept
      <4>. QED
        BY <1>0, <1>2, <2>1, <4>1 DEF InOrder
    <3>. QED
      BY <1>3, <2>1, <3>1
  <2>. QED
    BY <1>0, <2>1, <2>2
<1>19. Kept(n)'
  <2>1. acked'[n] <= wrote'[n] /\ wrote'[n] - acked'[n] <= SndBuf
    BY <1>1, <1>u DEF Kept
  <2>2. ASSUME ptail'[n] = Freed PROVE ~Clear(n)'
    <3>1. CASE ptail[n] = Freed
      BY <1>1, <1>12, <3>1 DEF Kept
    <3>2. CASE ptail[n] = p.at
      <4>1. PICK i \in GoesOn(pbuf[n], ptail[n], wrote[n]) : Clear(n) => acked[n] < pbuf[n][i].at + pbuf[n][i].len
        BY <1>1, <1>3, <3>2 DEF Kept
      <4>2. Clear(n) => acked[n] < p.at + p.len
        BY <1>0, <1>18, <3>2, <4>1
      <4>3. Clear(n) => p.at + p.len <= acked[n]
        BY <1>17
      <4>4. p.at + p.len \in Nat
        BY <1>3
      <4>. QED
        BY <1>1, <1>12, <4>2, <4>3, <4>4
    <3>. QED
      BY <1>8, <2>2, <3>1, <3>2
  <2>3. ASSUME ptail'[n] = NoBuf PROVE End(n, pbuf[n])' = wrote'[n]
    <3>1. ptail[n] = NoBuf
      BY <1>8, <2>3 DEF NoBuf, Freed
    <3>2. End(n, pbuf[n]) = wrote[n]
      BY <1>1, <3>1 DEF Kept
    <3>3. End(n, pbuf[n])' = End(n, b)
      BY <1>8, <1>u DEF End
    <3>4. CASE b = <<>>
      BY <1>u, <3>3, <3>4 DEF End
    <3>. QED
      BY <1>7, <1>u, <3>2, <3>3, <3>4
  <2>4. ASSUME ptail'[n] \in Nat
        PROVE  \E i \in GoesOn(b, ptail'[n], wrote'[n]) : Clear(n)' => acked'[n] < b[i].at + b[i].len
    <3>1. ptail'[n] = ptail[n] /\ ptail[n] # p.at
      BY <1>8, <2>4 DEF Freed
    <3>2. PICK i \in GoesOn(pbuf[n], ptail[n], wrote[n]) : Clear(n) => acked[n] < pbuf[n][i].at + pbuf[n][i].len
      BY <1>1, <2>4, <3>1 DEF Kept
    <3>9. i \in 1 .. Len(pbuf[n]) /\ i # 1
      BY <1>18, <3>1
    <3>3. PICK j \in 1 .. Len(b) : i = j + 1
      <4>1. Len(b) = Len(pbuf[n]) - 1 /\ i - 1 \in 1 .. Len(pbuf[n]) - 1 /\ i = (i - 1) + 1
        BY <1>2, <1>7, <3>9
      <4>. QED
        BY <4>1
    <3>4. b[j] = pbuf[n][i]
      BY <1>7, <3>3
    <3>5. j \in GoesOn(b, ptail[n], wrote[n])
      BY <1>18, <3>2, <3>4 DEF GoesOn
    <3>. QED
      BY <1>12, <1>u, <3>1, <3>2, <3>4, <3>5
  <2>. QED
    BY <1>7, <1>8, <2>1, <2>2, <2>3, <2>4 DEF Kept
<1>20. Credits(n)'
  <2>. SUFFICES ASSUME Clear(n)
                PROVE  /\ \A i \in 2 .. Len(b) : b[i].tot = 0
                       /\ b = <<>> => acked[n] = wrote[n] /\ carry' = 0
                       /\ b # <<>> => b[1].at + b[1].tot + carry' <= acked[n]
    BY <1>8, <1>12, <1>n, <1>u DEF Credits, Over
  <2>1. \A i \in 1 .. Len(b) : b[i].tot = 0
    <3>1. \A i \in 1 .. Len(b) : i + 1 \in 2 .. Len(pbuf[n])
      BY <1>2, <1>7
    <3>. QED
      BY <1>7, <1>17, <3>1
  <2>2. ASSUME b = <<>> PROVE acked[n] = wrote[n] /\ carry' = 0
    <3>1. wrote[n] <= p.at + p.len
      <4>1. CASE ptail[n] = NoBuf
        BY <1>1, <1>3, <1>7, <2>2, <4>1 DEF Kept
      <4>2. CASE ptail[n] \in Nat
        <5>1. InOrder(pbuf[n]) /\ GoesOn(pbuf[n], ptail[n], wrote[n]) # {}
          BY <1>1, <4>2 DEF Kept
        <5>2. wrote[n] <= End(n, pbuf[n])
          BY <1>1, <4>2, <5>1, EndReached
        <5>. QED
          BY <1>7, <2>2, <5>2
      <4>3. ptail[n] # Freed
        BY <1>1 DEF Kept
      <4>. QED
        BY <1>1, <4>1, <4>2, <4>3
    <3>2. p.at + x <= acked[n] /\ acked[n] <= wrote[n]
      BY <1>17
    <3>. QED
      <4>1. PICK at \in Nat, len \in Nat, w \in Nat, a \in Nat :
              at = p.at /\ len = p.len /\ w = wrote[n] /\ a = acked[n]
        BY <1>1, <1>3
      <4>2. w <= at + len /\ at + x <= a /\ a <= w /\ x >= len
        BY <1>4, <3>1, <3>2, <4>1
      <4>3. a = w /\ x - len = 0
        BY <4>2
      <4>. QED
        BY <1>5, <4>1, <4>3
  <2>3. ASSUME b # <<>> PROVE b[1].at + b[1].tot + carry' <= acked[n]
    <3>1. 1 \in 1 .. Len(b)
      BY <1>7, <2>3, EmptySeq
    <3>2. b[1].at = p.at + p.len /\ b[1].tot = 0
      BY <1>7, <2>1, <2>3, <3>1
    <3>. QED
      <4>1. p.at + x <= acked[n]
        BY <1>17
      <4>2. p.at + p.len + 0 + (x - p.len) = p.at + x
        BY <1>3, <1>4
      <4>. QED
        BY <1>5, <3>2, <4>1, <4>2
  <2>. QED
    BY <2>1, <2>2, <2>3
<1>21. Bare(n)'
  BY <1>16, <1>u DEF Bare
<1>22. Flagged(n)'
  <2>. SUFFICES ASSUME Attached(n), ~write_flag[n], Calm(n), Clear(n), sending # n
                PROVE  copy[n] /\ End(n, pbuf[n])' > wrote[n] /\ acked[n] < wrote[n]
    BY <1>12, <1>u, Zenon DEF Flagged, Attached
  <2>1. copy[n] /\ End(n, pbuf[n]) > wrote[n] /\ Clear(n) /\ acked[n] < wrote[n]
    BY <1>1 DEF Flagged
  <2>2. b # <<>>
    <3>1. p.at + p.len <= wrote[n]
      <4>1. p.at + p.len <= acked[n] /\ acked[n] <= wrote[n]
        BY <1>17, <2>1
      <4>2. p.at + p.len \in Nat
        BY <1>3
      <4>. QED
        BY <1>1, <4>1, <4>2
    <3>. QED
      BY <1>1, <1>3, <1>7, <2>1, <3>1
  <2>3. End(n, pbuf[n])' = End(n, b)
    BY <1>8, <1>u DEF End
  <2>. QED
    BY <1>7, <2>1, <2>2, <2>3
<1>23. Handed(n)'
  BY <1>12, <1>u DEF Handed
<1>. QED
  BY <1>13, <1>14, <1>15, <1>19, <1>20, <1>21, <1>22, <1>23 DEF IInv, Packets, Flags

LEMMA FinishStep ==
  ASSUME IInv, Finishes
  PROVE  IInv'
<1>1. PICK n \in Node : n = busy
  <2>1. busy \in 0 .. MaxNode /\ busy # 0
    BY DEF IInv, TypeOK, Finishes
  <2>. QED
    BY <2>1, NodeNat DEF Node
<1>2. UNCHANGED <<life, role, conn, wrote, acked, write_flag, options, recv_check, events, send, listening, fault,
                  calls, dropped>>
  BY DEF Finishes, bounds
<1>3. /\ pbuf[n] \in Seq(Packet)
      /\ pbuf[n] # <<>> => Head(pbuf[n]) = pbuf[n][1]
  BY DEF IInv, TypeOK
<1>4. CASE pbuf[busy] = <<>> /\ busy' = 0 /\ carry' = 0 /\ UNCHANGED <<closed, pbuf, ptail, blame>>
  BY <1>1, <1>2, <1>4, FinishEnds
<1>5. CASE /\ pbuf[busy] # <<>> /\ Credited(Head(pbuf[busy]), carry) >= Head(pbuf[busy]).len
           /\ pbuf' = [pbuf EXCEPT ![busy] = Tail(@)]
           /\ ptail' = IF ptail[busy] = Head(pbuf[busy]).at THEN [ptail EXCEPT ![busy] = Freed] ELSE ptail
           /\ carry' = PassedOn(Head(pbuf[busy])) /\ closed' = [closed EXCEPT ![busy] = FALSE]
           /\ Blame(busy, Reopened(busy) \union Raced(busy)) /\ UNCHANGED busy
  <2>1. Takes(n)
    BY <1>1, <1>2, <1>3, <1>5 DEF Takes
  <2>. QED
    BY <2>1, FinishTakes
<1>6. CASE /\ pbuf[busy] # <<>>
           /\ pbuf' = [pbuf EXCEPT ![busy][1].tot = Credited(Head(pbuf[busy]), carry)]
           /\ busy' = 0 /\ carry' = 0 /\ UNCHANGED <<closed, ptail, blame>>
  <2>1. pbuf' = [pbuf EXCEPT ![n] = Credit(pbuf[n], Credited(pbuf[n][1], carry))] /\ pbuf[n] # <<>>
    BY <1>1, <1>3, <1>6 DEF Credit
  <2>. QED
    BY <1>1, <1>2, <1>6, <2>1, FinishEnds
<1>. QED
  BY <1>4, <1>5, <1>6 DEF Finishes

LEMMA FinishFaultStep ==
  ASSUME IInv, FinishFaults
  PROVE  IInv'
<1>1. busy \in Node
  BY NodeNat DEF IInv, TypeOK, Node, FinishFaults
<1>. QED
  BY <1>1, FaultStep

LEMMA ListenStep ==
  ASSUME IInv, espconn_accept \/ espconn_tcp_delete
  PROVE  IInv'
<1>1. UNCHANGED <<life, role, conn, closed, packets, options, recv_check, events, finish, send, fault, blame, bounds>>
  BY DEF espconn_accept, espconn_tcp_delete
<1>2. /\ UNCHANGED <<life, conn, closed, pbuf, ptail, wrote, acked, write_flag, copy, events, blame, finish>>
      /\ UNCHANGED <<busy, sending>>
  BY <1>1 DEF packets, options, finish, send
<1>3. Grows
  BY <1>2 DEF Grows
<1>4. TypeOK'
  BY TypesListen DEF IInv
<1>5. Control'
  BY <1>2, <1>3, ControlFrame DEF IInv
<1>6. Packets'
  BY <1>2, <1>3, PacketsFrame DEF IInv
<1>7. Flags'
  BY <1>2, <1>3, FlagsFrame DEF IInv, Attached
<1>. QED
  BY <1>4, <1>5, <1>6, <1>7 DEF IInv

LEMMA OptionStep ==
  ASSUME IInv, NEW n \in Node,
         Refused(n) \/ espconn_set_opt(n, TRUE) \/ espconn_set_opt(n, FALSE) \/ espconn_tcp_set_buf_count(n)
  PROVE  IInv'
<1>1. TypeOK' /\ Grows /\ Control'
  BY TypesOption, ControlQuiet DEF IInv
<1>2. CASE Refused(n) \/ espconn_tcp_set_buf_count(n)
  BY <1>1, <1>2, PacketsQuiet DEF IInv, QuietStep
<1>3. CASE espconn_set_opt(n, TRUE) \/ espconn_set_opt(n, FALSE)
  BY <1>1, <1>3, PacketsOption DEF IInv
<1>. QED
  BY <1>2, <1>3

LEMMA CloseStep ==
  ASSUME IInv, NEW n \in Node, espconn_disconnect(n) \/ espconn_abort(n)
  PROVE  IInv'
<1>1. TypeOK' /\ Grows /\ Control'
  BY TypesDisconnect, TypesAbort, ControlDisconnect, ControlAbort DEF IInv
<1>2. Packets' /\ Flags'
  BY <1>1, PacketsQuiet DEF QuietStep
<1>. QED
  BY <1>1, <1>2 DEF IInv

LEMMA OpenStep ==
  ASSUME IInv, NEW n \in Node,
         espconn_connect(n) \/ espconn_client_connect(n) \/ espconn_tcp_accept(n)
  PROVE  IInv'
<1>1. TypeOK' /\ Control'
  BY TypesOpen, ControlOpen DEF IInv
<1>2. Packets' /\ Flags'
  BY PacketsOpen
<1>. QED
  BY <1>1, <1>2 DEF IInv

LEMMA LwipStep ==
  ASSUME IInv, NEW n \in Node,
         PeerCloses(n) \/ Receives(n) \/ espconn_server_poll(n) \/ Errs(n) \/ Ends(n)
  PROVE  IInv'
<1>1. TypeOK'
  BY TypesLwip, TypesErrs DEF IInv
<1>2. Grows
  <2>1. UNCHANGED blame
    BY DEF PeerCloses, Receives, espconn_server_poll, Errs, Ends
  <2>. QED
    BY <2>1 DEF Grows
<1>3. Control'
  BY ControlLwip, ControlErrs, ControlQuiet DEF IInv
<1>4. Packets' /\ Flags'
  BY <1>2, PacketsQuiet DEF QuietStep
<1>. QED
  BY <1>1, <1>3, <1>4 DEF IInv

LEMMA TaskStep ==
  ASSUME IInv, espconn_Task
  PROVE  IInv'
BY TypesTask, ControlTask, PacketsTask DEF IInv

LEMMA StutterStep ==
  ASSUME IInv, UNCHANGED vars
  PROVE  IInv'
<1>1. /\ UNCHANGED <<life, role, conn, closed, pbuf, ptail, wrote, acked, write_flag, copy, nagle, pbuf_num>>
      /\ UNCHANGED <<recv_check, events, finish, busy, carry, sending, lowered, listening, fault, calls, dropped, blame>>
  BY DEF vars, packets, options, finish, send, bounds
<1>2. Grows
  BY <1>1 DEF Grows
<1>3. TypeOK'
  BY <1>1 DEF IInv, TypeOK
<1>4. Control'
  BY <1>1, <1>2, ControlFrame DEF IInv
<1>5. Packets'
  BY <1>1, <1>2, PacketsFrame DEF IInv
<1>6. Flags'
  BY <1>1, <1>2, FlagsFrame DEF IInv, Attached
<1>. QED
  BY <1>3, <1>4, <1>5, <1>6 DEF IInv

-----------------------------------------------------------------------------
(* The invariant.                                                          *)

LEMMA InitIInv == Init => IInv
<1>. SUFFICES ASSUME Init PROVE IInv
  OBVIOUS
<1>1. /\ 0 \in 0 .. MaxNode /\ 0 \in 0 .. Timeout /\ QueueLen \in Nat
  <2>1. Timeout \in Nat /\ QueueLen \in Nat
    BY EspconnAssumption, SMT
  <2>. QED
    BY <2>1, NodeNat
<1>2. \A S : <<>> \in Seq(S) /\ Len(<<>>) = 0
  BY EmptySeq
<1>3. TypeOK
  <2>1. <<>> \in Seq(Packet) /\ <<>> \in Seq([sig : {"WRITE", "ERRER", "CLOSE"}, node : Node]) /\ Len(<<>>) = 0
    BY <1>2
  <2>2. pbuf \in [Node -> Seq(Packet)]
    BY <2>1 DEF Init
  <2>3. events \in Seq([sig : {"WRITE", "ERRER", "CLOSE"}, node : Node]) /\ Len(events) <= QueueLen
    BY <1>1, <2>1 DEF Init
  <2>4. /\ ptail \in [Node -> Nat \union {NoBuf, Freed}]
        /\ wrote \in [Node -> Nat] /\ acked \in [Node -> Nat] /\ calls \in [Node -> Nat]
        /\ pbuf_num \in [Node -> Nat] /\ recv_check \in [Node -> 0 .. Timeout]
        /\ busy \in 0 .. MaxNode /\ carry \in Nat /\ sending \in 0 .. MaxNode /\ fault \in 0 .. MaxNode
    BY <1>1 DEF Init
  <2>5. /\ life \in [Node -> {"unused", "listed", "freed"}]
        /\ role \in [Node -> {"client", "server"}]
        /\ conn \in [Node -> {"idle", "syn", "up", "half", "closing", "gone"}]
        /\ blame \in [Node -> SUBSET Blames]
    BY DEF Init
  <2>6. /\ closed \in [Node -> BOOLEAN] /\ write_flag \in [Node -> BOOLEAN] /\ copy \in [Node -> BOOLEAN]
        /\ nagle \in [Node -> BOOLEAN] /\ lowered \in BOOLEAN /\ listening \in BOOLEAN /\ dropped \in BOOLEAN
    BY DEF Init
  <2>. QED
    BY <2>2, <2>3, <2>4, <2>5, <2>6 DEF TypeOK, Blames
<1>4. Control
  <2>1. Len(events) = 0
    BY <1>2 DEF Init
  <2>2. Announced
    BY <2>1 DEF Announced
  <2>3. ASSUME NEW n \in Node PROVE Lives(n)
    BY DEF Init, Lives, Disturbed
  <2>4. Finishing
    BY DEF Init, Finishing
  <2>. QED
    BY <2>2, <2>3, <2>4 DEF Control
<1>5. ASSUME NEW n \in Node PROVE Kept(n) /\ Credits(n) /\ Bare(n) /\ Handed(n) /\ Flagged(n)
  <2>1. /\ pbuf[n] = <<>> /\ ptail[n] = NoBuf /\ wrote[n] = 0 /\ acked[n] = 0
        /\ life[n] = "unused" /\ conn[n] = "idle"
    BY DEF Init
  <2>2. Len(pbuf[n]) = 0
    BY <1>2, <2>1
  <2>3. InOrder(pbuf[n])
    BY <2>2 DEF InOrder
  <2>4. ptail[n] # Freed /\ ptail[n] \notin Nat /\ End(n, pbuf[n]) = wrote[n]
    BY <2>1 DEF End, NoBuf, Freed
  <2>5. acked[n] <= wrote[n] /\ wrote[n] - acked[n] <= SndBuf
    BY <2>1, Buffers
  <2>6. Kept(n)
    BY <2>3, <2>4, <2>5 DEF Kept
  <2>7. Handed(n)
    BY NodeNat DEF Init, Handed
  <2>. QED
    BY <2>1, <2>6, <2>7 DEF Credits, Bare, Flagged, Attached
<1>. QED
  BY <1>3, <1>4, <1>5 DEF IInv, Packets, Flags

LEMMA NextIInv == IInv /\ [Next]_vars => IInv'
<1>. SUFFICES ASSUME IInv, [Next]_vars PROVE IInv'
  OBVIOUS
<1>1. CASE Application
  <2>1. ASSUME NEW n \in Node,
               \/ espconn_connect(n) \/ Refused(n) \/ espconn_sent(n) \/ SentFaults(n) \/ Writes(n)
               \/ espconn_disconnect(n) \/ espconn_abort(n) \/ CloseFaults(n)
               \/ espconn_set_opt(n, TRUE) \/ espconn_set_opt(n, FALSE) \/ espconn_tcp_set_buf_count(n)
        PROVE  IInv'
    BY <2>1, OpenStep, OptionStep, SendStep, WritesStep, FaultStep, CloseStep
  <2>2. CASE SendFaults
    <3>1. sending \in Node
      BY <2>2, NodeNat DEF IInv, TypeOK, Node, SendFaults
    <3>. QED
      BY <2>2, <3>1, FaultStep
  <2>. QED
    BY <1>1, <2>1, <2>2, LowersStep, ListenStep DEF Application
<1>2. CASE Lwip
  <2>1. ASSUME NEW n \in Node,
               \/ espconn_client_connect(n) \/ espconn_tcp_accept(n) \/ Sent(n) \/ SentAcksFault(n)
               \/ PeerCloses(n) \/ Receives(n) \/ espconn_server_poll(n) \/ Errs(n) \/ Ends(n)
        PROVE  IInv'
    BY <2>1, OpenStep, AckStep, FaultStep, LwipStep
  <2>. QED
    BY <1>2, <2>1, FinishStep, FinishFaultStep DEF Lwip
<1>3. CASE espconn_Task
  BY <1>3, TaskStep
<1>4. CASE UNCHANGED vars
  BY <1>4, StutterStep
<1>. QED
  BY <1>1, <1>2, <1>3, <1>4 DEF Next

(* The inductive invariant: one event of the end of a connection is posted *)
(* at most, ptail is at the packet that the unwritten bytes begin in, and  *)
(* a packet that nobody blames has credited no more than the peer has      *)
(* acknowledged.                                                           *)
THEOREM EspconnInvariant == Spec => []IInv
BY InitIInv, NextIInv, PTL DEF Spec

(* Every variable of the nodes, the queue and the loop keeps its type: a   *)
(* tot_len that wraps stays a number, and the queue of espconn_Task never  *)
(* holds more than espconn_TaskQueueLen events.                            *)
THEOREM EspconnTypes == Spec => []TypeOK
<1>1. IInv => TypeOK
  BY DEF IInv
<1>. QED
  BY <1>1, EspconnInvariant, PTL

(* Whatever the order of the application's calls, of acknowledgements,     *)
(* polls, closes and resets and of the events of espconn_Task, and however *)
(* long its queue: a node that a callback of lwIP, an event or the loop of *)
(* espconn_tcp_finish names is in the list, and its end is told once, but  *)
(* for the calls that ListedWhileNamed lists.                              *)
THEOREM EspconnListedWhileNamed == Spec => []ListedWhileNamed
<1>1. IInv => ListedWhileNamed
  <2>. SUFFICES ASSUME IInv PROVE ListedWhileNamed
    OBVIOUS
  <2>1. ASSUME NEW n \in Node, Attached(n) PROVE life[n] = "listed"
    BY <2>1 DEF IInv, Control, Lives, Attached
  <2>2. ASSUME NEW i \in 1 .. Len(events), NEW n, n = events[i].node,
               blame[n] \intersect {"abort", "reopened", "listener"} = {}
        PROVE  /\ life[n] = "listed"
               /\ events[i].sig # "WRITE" => \A j \in i + 1 .. Len(events) : events[j].node # n
    BY <2>2 DEF IInv, Control, Announced, Spoilt
  <2>3. ASSUME busy # 0, blame[busy] \intersect {"abort", "reopened", "listener", "inside"} = {}
        PROVE  life[busy] = "listed"
    <3>1. Attached(busy)
      BY <2>3 DEF IInv, Control, Finishing, Disturbed
    <3>2. busy \in Node
      BY <2>3, NodeNat DEF IInv, TypeOK, Node
    <3>. QED
      BY <2>1, <3>1, <3>2
  <2>. QED
    BY <2>1, <2>2, <2>3 DEF ListedWhileNamed
<1>. QED
  BY <1>1, EspconnInvariant, PTL

(* While write_flag is down on a connection there are bytes to write, and  *)
(* bytes under way whose acknowledgement goes on with them, or             *)
(* espconn_sent is at it: whatever the sizes, and wherever the callbacks   *)
(* come between its steps, but for the causes that FlagAwaits lists.       *)
THEOREM EspconnFlagAwaits == Spec => []FlagAwaits
<1>1. IInv => FlagAwaits
  BY DEF IInv, Flags, Flagged, FlagAwaits, Calm
<1>. QED
  BY <1>1, EspconnInvariant, PTL

-----------------------------------------------------------------------------
(* The acknowledgements.  What espconn_tcp_finish still carries and what   *)
(* the head was credited with reach exactly as far as the peer has         *)
(* acknowledged, outside of its loop no packet is complete, and tot_len    *)
(* has not wrapped unless blame says so.                                   *)

Exact(n) ==
  life[n] = "listed" /\ Clear(n) /\ pbuf[n] # <<>> =>
    /\ pbuf[n][1].at + pbuf[n][1].tot + Over(n) = acked[n]
    /\ pbuf[n][1].tot + Over(n) < TotLens
    /\ busy # n => acked[n] < pbuf[n][1].at + pbuf[n][1].len

Exacts == \A n \in Node : Exact(n)

LEMMA ExactFrame ==
  ASSUME IInv, Exacts, NEW m \in Node, life'[m] = "listed" => life[m] = "listed" \/ pbuf[m] = <<>>,
         pbuf'[m] = pbuf[m], acked'[m] = acked[m], Over(m)' = Over(m), busy = m => busy' = m,
         Clear(m)' => Clear(m)
  PROVE  Exact(m)'
<1>1. Exact(m)
  BY DEF Exacts
<1>. QED
  BY <1>1 DEF Exact

LEMMA ExactKept ==
  ASSUME IInv, Exacts, UNCHANGED <<pbuf, acked, busy, carry>>, Grows,
         \A m \in Node : life'[m] = "listed" => life[m] \in {"unused", "listed"}
  PROVE  Exacts'
<1>. SUFFICES ASSUME NEW m \in Node PROVE Exact(m)'
  BY DEF Exacts
<1>1. life'[m] = "listed" => life[m] = "listed" \/ pbuf[m] = <<>>
  BY DEF IInv, Packets, Bare
<1>2. Over(m)' = Over(m)
  BY DEF Over
<1>3. Clear(m)' => Clear(m)
  BY BlameStays
<1>. QED
  BY <1>1, <1>2, <1>3, ExactFrame

(* The head of the packets that wait.                                      *)
LEMMA HeadFacts ==
  ASSUME IInv, NEW n \in Node, pbuf[n] # <<>>
  PROVE  /\ 1 \in 1 .. Len(pbuf[n]) /\ InOrder(pbuf[n]) /\ pbuf[n] \in Seq(Packet)
         /\ pbuf[n][1].at \in Nat /\ pbuf[n][1].tot \in Nat /\ pbuf[n][1].len \in Nat
         /\ pbuf[n][1].len > 0 /\ pbuf[n][1].len \in Length
         /\ acked[n] \in Nat /\ carry \in Nat /\ Over(n) \in Nat
<1>1. pbuf[n] \in Seq(Packet) /\ acked[n] \in Nat /\ carry \in Nat /\ InOrder(pbuf[n])
  BY DEF IInv, TypeOK, Packets, Kept
<1>2. 1 \in 1 .. Len(pbuf[n])
  BY <1>1, EmptySeq
<1>3. pbuf[n][1].at \in Nat /\ pbuf[n][1].tot \in Nat /\ pbuf[n][1].len \in Length
  BY <1>1, <1>2, PacketFields DEF InOrder
<1>4. Over(n) \in Nat
  BY <1>1 DEF Over
<1>. QED
  BY <1>1, <1>2, <1>3, <1>4, LengthsAndCounts

LEMMA ExactSend ==
  ASSUME IInv, Exacts, NEW n \in Node, Appends(n)
  PROVE  Exacts'
<1>1. UNCHANGED <<life, acked, busy, carry>> /\ Grows
  BY DEF Appends
<1>2. ASSUME NEW m \in Node, pbuf'[m] = pbuf[m] PROVE Exact(m)'
  <2>1. Over(m)' = Over(m) /\ (Clear(m)' => Clear(m))
    BY <1>1, BlameStays DEF Over
  <2>. QED
    BY <1>1, <1>2, <2>1, ExactFrame
<1>3. ASSUME NEW p \in Packet, pbuf'[n] = Append(pbuf[n], p), p.len \in Length, p.at = End(n, pbuf[n]),
             Clear(n)' => p.tot = 0
      PROVE  Exact(n)'
  <2>1. /\ pbuf[n] \in Seq(Packet) /\ wrote[n] \in Nat /\ acked[n] \in Nat /\ Credits(n) /\ Exact(n)
        /\ Clear(n)' => Clear(n)
    BY <1>1, BlameStays DEF IInv, TypeOK, Packets, Exacts
  <2>2. /\ Len(pbuf[n]) \in Nat /\ pbuf'[n][Len(pbuf[n]) + 1] = p
        /\ \A i \in 1 .. Len(pbuf[n]) : pbuf'[n][i] = pbuf[n][i]
    BY <1>3, <2>1, AppendProperties, LenProperties
  <2>3. Over(n)' = Over(n)
    BY <1>1 DEF Over
  <2>4. CASE pbuf[n] # <<>>
    <3>1. pbuf'[n][1] = pbuf[n][1]
      BY <2>2, <2>4, HeadFacts
    <3>. QED
      BY <1>1, <2>1, <2>3, <2>4, <3>1 DEF Exact
  <2>5. CASE pbuf[n] = <<>>
    <3>1. pbuf'[n][1] = p /\ p.at = wrote[n]
      BY <1>3, <2>2, <2>5, EmptySeq DEF End
    <3>2. life[n] = "listed" /\ Clear(n) => acked[n] = wrote[n] /\ Over(n) = 0
      BY <2>1, <2>5 DEF Credits
    <3>3. p.len \in Nat /\ p.len > 0 /\ 0 < TotLens
      BY <1>3, LengthsAndCounts, TotLenValues
    <3>4. ASSUME life'[n] = "listed", Clear(n)'
          PROVE  /\ pbuf'[n][1].at + pbuf'[n][1].tot + Over(n)' = acked'[n]
                 /\ pbuf'[n][1].tot + Over(n)' < TotLens
                 /\ acked'[n] < pbuf'[n][1].at + pbuf'[n][1].len
      <4>1. p.tot = 0 /\ p.at = acked[n] /\ Over(n) = 0 /\ acked'[n] = acked[n]
        BY <1>1, <1>3, <2>1, <3>1, <3>2, <3>4
      <4>. QED
        BY <2>1, <2>3, <3>1, <3>3, <4>1
    <3>. QED
      BY <3>4 DEF Exact
  <2>. QED
    BY <2>4, <2>5
<1>. QED
  BY <1>2, <1>3 DEF Appends, Exacts

(* A write takes off the last packet at most, and leaves the head alone.   *)
LEMMA ExactWrites ==
  ASSUME IInv, Exacts, NEW n \in Node, Drops(n)
  PROVE  Exacts'
<1>1. UNCHANGED <<life, acked, busy, carry>> /\ Grows
  BY DEF Drops
<1>2. ASSUME NEW m \in Node, pbuf'[m] = pbuf[m] PROVE Exact(m)'
  <2>1. Over(m)' = Over(m) /\ (Clear(m)' => Clear(m))
    BY <1>1, BlameStays DEF Over
  <2>. QED
    BY <1>1, <1>2, <2>1, ExactFrame
<1>3. ASSUME pbuf[n] # <<>>, pbuf'[n] = WithoutLast(pbuf[n]) PROVE Exact(n)'
  <2>. SUFFICES ASSUME pbuf'[n] # <<>> PROVE Exact(n)'
    BY DEF Exact
  <2>1. PICK q \in Seq(Packet) : q = pbuf[n] /\ InOrder(q) /\ q # <<>> /\ Len(q) \in Nat
    BY <1>3, HeadFacts, LenProperties
  <2>2. /\ WithoutLast(q) \in Seq(Packet) /\ Len(WithoutLast(q)) = Len(q) - 1
        /\ \A i \in 1 .. Len(q) - 1 : WithoutLast(q)[i] = q[i]
    BY <2>1, DroppedInOrder
  <2>3. WithoutLast(q) # <<>>
    BY <1>3, <2>1
  <2>4. 1 \in 1 .. Len(q) - 1
    BY <2>1, <2>2, <2>3, EmptySeq
  <2>5. pbuf'[n][1] = pbuf[n][1]
    BY <1>3, <2>1, <2>2, <2>4
  <2>6. Exact(n) /\ Over(n)' = Over(n) /\ (Clear(n)' => Clear(n))
    BY <1>1, BlameStays DEF Exacts, Over
  <2>. QED
    BY <1>1, <1>3, <2>5, <2>6 DEF Exact
<1>. QED
  BY <1>2, <1>3 DEF Drops, Exacts

LEMMA ExactAck ==
  ASSUME IInv, Exacts, NEW n \in Node, CreditsHead(n)
  PROVE  Exacts'
<1>1. PICK k \in 1 .. SndBuf :
        /\ pbuf[n] # <<>> /\ pbuf'[n] = Credit(pbuf[n], Credited(pbuf[n][1], k)) /\ acked'[n] = acked[n] + k
        /\ \A m \in Node \ {n} : pbuf'[m] = pbuf[m] /\ acked'[m] = acked[m]
        /\ busy = 0 /\ busy' = n /\ carry' = 0 /\ life[n] = "listed" /\ UNCHANGED life /\ Grows
        /\ Clear(n)' => pbuf[n][1].tot + k < TotLens
  BY DEF CreditsHead
<1>2. \A m \in Node : (Clear(m)' => Clear(m)) /\ Over(m) = 0 /\ Over(m)' = 0
  BY <1>1, NodeNat, BlameStays DEF Over
<1>3. ASSUME NEW m \in Node \ {n} PROVE Exact(m)'
  BY <1>1, <1>2, NodeNat, ExactFrame
<1>4. Exact(n)'
  <2>. SUFFICES ASSUME Clear(n), pbuf[n][1].tot + k < TotLens
                PROVE  /\ pbuf'[n][1].at + pbuf'[n][1].tot + 0 = acked'[n]
                       /\ pbuf'[n][1].tot + 0 < TotLens
    BY <1>1, <1>2 DEF Exact
  <2>1. PICK at \in Nat, tot \in Nat, len \in Nat, a \in Nat :
          at = pbuf[n][1].at /\ tot = pbuf[n][1].tot /\ len = pbuf[n][1].len /\ a = acked[n]
    BY <1>1, HeadFacts
  <2>2. at + tot = a
    <3>1. Exact(n)
      BY <1>1 DEF Exacts
    <3>2. pbuf[n][1].at + pbuf[n][1].tot + Over(n) = acked[n]
      BY <1>1, <3>1 DEF Exact
    <3>. QED
      BY <1>2, <2>1, <3>2
  <2>3. k \in Nat /\ TotLens \in Nat
    BY Buffers, TotLenValues
  <2>4. tot + k < TotLens
    BY <2>1
  <2>5. PICK x \in Nat : x = Credited(pbuf[n][1], k) /\ x = tot + k
    BY <2>1, <2>3, <2>4, CreditedFacts
  <2>6. pbuf'[n][1].at = at /\ pbuf'[n][1].tot = x
    <3>1. pbuf'[n] = Credit(pbuf[n], x)
      BY <1>1, <2>5
    <3>. QED
      BY <1>1, <2>1, <3>1, HeadFacts, CreditInOrder
  <2>7. acked'[n] = a + k
    BY <1>1, <2>1
  <2>. QED
    BY <2>2, <2>3, <2>4, <2>5, <2>6, <2>7
<1>. QED
  BY <1>3, <1>4 DEF Exacts

LEMMA ExactFinish ==
  ASSUME IInv, Exacts, Finishes
  PROVE  Exacts'
<1>1. PICK n \in Node : n = busy
  <2>1. busy \in 0 .. MaxNode /\ busy # 0
    BY DEF IInv, TypeOK, Finishes
  <2>. QED
    BY <2>1, NodeNat DEF Node
<1>2. UNCHANGED <<life, acked>> /\ busy # 0 /\ busy' \in {0, busy}
  BY DEF Finishes
<1>3. Grows /\ \A m \in Node \ {n} : pbuf'[m] = pbuf[m]
  <2>1. Reopened(busy) \union Raced(busy) \in SUBSET Blames
    BY Zenon DEF Reopened, Raced, Cause, Blames
  <2>2. UNCHANGED blame \/ Blame(busy, Reopened(busy) \union Raced(busy))
    BY DEF Finishes
  <2>3. Grows
    BY <1>1, <2>1, <2>2, BlameFacts DEF IInv, Grows
  <2>. QED
    BY <1>1, <2>3 DEF Finishes, IInv, TypeOK
<1>4. ASSUME NEW m \in Node \ {n} PROVE Exact(m)'
  <2>1. Over(m)' = Over(m)
    BY <1>1, <1>2, NodeNat DEF Over
  <2>2. Clear(m)' => Clear(m)
    BY <1>3, BlameStays
  <2>. QED
    BY <1>1, <1>2, <1>3, <2>1, <2>2, ExactFrame
<1>5. Clear(n)' => Clear(n)
  BY <1>3, BlameStays
<1>6. ASSUME pbuf'[n] = <<>> PROVE Exact(n)'
  BY <1>6 DEF Exact
<1>7. ASSUME pbuf[n] # <<>>, Clear(n), life[n] = "listed"
      PROVE  \E at, len, tot, x \in Nat :
               /\ at = pbuf[n][1].at /\ len = pbuf[n][1].len /\ tot = pbuf[n][1].tot
               /\ x = Credited(pbuf[n][1], carry) /\ x < TotLens /\ at + x = acked[n]
  <2>1. PICK at \in Nat, len \in Nat, tot \in Nat, over \in Nat :
          at = pbuf[n][1].at /\ len = pbuf[n][1].len /\ tot = pbuf[n][1].tot /\ over = carry
    BY <1>7, HeadFacts
  <2>2. Exact(n) /\ Over(n) = over
    BY <1>1, <2>1 DEF Exacts, Over
  <2>3. at + tot + over = acked[n] /\ tot + over < TotLens
    BY <1>7, <2>1, <2>2 DEF Exact
  <2>4. PICK x \in Nat : x = Credited(pbuf[n][1], carry) /\ x = tot + over
    BY <2>1, <2>3, CreditedFacts
  <2>5. x < TotLens /\ at + x = acked[n]
    BY <2>3, <2>4
  <2>. QED
    BY <2>1, <2>4, <2>5, Zenon
<1>8. ASSUME pbuf[n] # <<>>, pbuf' = [pbuf EXCEPT ![busy] = Tail(@)], busy' = busy,
             carry' = PassedOn(pbuf[n][1]), Credited(pbuf[n][1], carry) >= pbuf[n][1].len
      PROVE  Exact(n)'
  <2>. SUFFICES ASSUME pbuf'[n] # <<>>, Clear(n), life[n] = "listed"
                PROVE  /\ pbuf'[n][1].at + pbuf'[n][1].tot + carry' = acked[n]
                       /\ pbuf'[n][1].tot + carry' < TotLens
    BY <1>1, <1>2, <1>5, <1>8 DEF Exact, Over
  <2>1. PICK at, len, tot, x \in Nat :
          /\ at = pbuf[n][1].at /\ len = pbuf[n][1].len /\ tot = pbuf[n][1].tot
          /\ x = Credited(pbuf[n][1], carry) /\ x < TotLens /\ at + x = acked[n]
    BY <1>7, <1>8
  <2>2. x >= len /\ carry' = x - len
    BY <1>8, <2>1 DEF PassedOn
  <2>3. pbuf'[n] = Tail(pbuf[n])
    BY <1>1, <1>8 DEF IInv, TypeOK
  <2>4. /\ pbuf'[n] \in Seq(Packet)
        /\ \A i \in 1 .. Len(pbuf'[n]) : i + 1 \in 1 .. Len(pbuf[n]) /\ pbuf'[n][i] = pbuf[n][i + 1]
        /\ pbuf'[n][1].at = pbuf[n][1].at + pbuf[n][1].len
    <3>1. PICK q \in Seq(Packet) : q = pbuf[n] /\ InOrder(q) /\ q # <<>>
      BY <1>8, HeadFacts
    <3>2. pbuf'[n] = Tail(q) /\ Tail(q) # <<>>
      BY <2>3, <3>1
    <3>3. /\ Tail(q) \in Seq(Packet) /\ Tail(q)[1].at = q[1].at + q[1].len
          /\ \A i \in 1 .. Len(Tail(q)) : i + 1 \in 1 .. Len(q) /\ Tail(q)[i] = q[i + 1]
      BY <3>1, <3>2, TailInOrder
    <3>. QED
      BY <3>1, <3>2, <3>3
  <2>5. 1 \in 1 .. Len(pbuf'[n])
    BY <2>4, EmptySeq
  <2>6. pbuf'[n][1].tot = 0
    <3>1. 1 + 1 \in 2 .. Len(pbuf[n]) /\ pbuf'[n][1] = pbuf[n][1 + 1]
      BY <2>4, <2>5
    <3>. QED
      BY <3>1 DEF IInv, Packets, Credits
  <2>7. pbuf'[n][1].at = at + len
    BY <2>1, <2>4
  <2>8. at + len + 0 + (x - len) = at + x /\ 0 + (x - len) <= x
    BY <2>2
  <2>9. TotLens \in Nat
    BY TotLenValues
  <2>. QED
    BY <2>1, <2>2, <2>6, <2>7, <2>8, <2>9
<1>9. ASSUME pbuf[n] # <<>>, pbuf' = [pbuf EXCEPT ![busy][1].tot = Credited(pbuf[n][1], carry)], busy' = 0,
             ~(Credited(pbuf[n][1], carry) >= pbuf[n][1].len)
      PROVE  Exact(n)'
  <2>. SUFFICES ASSUME Clear(n), life[n] = "listed"
                PROVE  /\ pbuf'[n][1].at + pbuf'[n][1].tot + 0 = acked[n]
                       /\ pbuf'[n][1].tot + 0 < TotLens
                       /\ acked[n] < pbuf'[n][1].at + pbuf'[n][1].len
    BY <1>1, <1>2, <1>5, <1>9 DEF Exact, Over
  <2>1. PICK at, len, tot, x \in Nat :
          /\ at = pbuf[n][1].at /\ len = pbuf[n][1].len /\ tot = pbuf[n][1].tot
          /\ x = Credited(pbuf[n][1], carry) /\ x < TotLens /\ at + x = acked[n]
    BY <1>7, <1>9
  <2>2. x < len
    BY <1>9, <2>1
  <2>3. pbuf'[n] = Credit(pbuf[n], x)
    BY <1>1, <1>9, <2>1 DEF IInv, TypeOK, Credit
  <2>4. pbuf'[n][1].at = at /\ pbuf'[n][1].len = len /\ pbuf'[n][1].tot = x
    <3>1. PICK q \in Seq(Packet) : q = pbuf[n] /\ InOrder(q) /\ q # <<>> /\ 1 \in 1 .. Len(q)
      BY <1>9, HeadFacts
    <3>2. Credit(q, x)[1].tot = x /\ Credit(q, x)[1].at = q[1].at /\ Credit(q, x)[1].len = q[1].len
      BY <3>1, CreditInOrder
    <3>. QED
      BY <2>1, <2>3, <3>1, <3>2
  <2>. QED
    BY <2>1, <2>2, <2>4
<1>10. pbuf[n] # <<>> => Head(pbuf[n]) = pbuf[n][1]
  BY HeadFacts
<1>11. CASE pbuf[busy] = <<>> /\ UNCHANGED pbuf
  BY <1>1, <1>4, <1>6, <1>11 DEF Exacts
<1>12. CASE /\ pbuf[busy] # <<>> /\ Credited(Head(pbuf[busy]), carry) >= Head(pbuf[busy]).len
            /\ pbuf' = [pbuf EXCEPT ![busy] = Tail(@)] /\ carry' = PassedOn(Head(pbuf[busy])) /\ busy' = busy
  BY <1>1, <1>4, <1>8, <1>10, <1>12 DEF Exacts
<1>13. CASE /\ pbuf[busy] # <<>> /\ ~(Credited(Head(pbuf[busy]), carry) >= Head(pbuf[busy]).len)
            /\ pbuf' = [pbuf EXCEPT ![busy][1].tot = Credited(Head(pbuf[busy]), carry)] /\ busy' = 0
  BY <1>1, <1>4, <1>9, <1>10, <1>13 DEF Exacts
<1>. QED
  BY <1>11, <1>12, <1>13 DEF Finishes

LEMMA ExactTask ==
  ASSUME IInv, Exacts, espconn_Task
  PROVE  Exacts'
<1>1. PICK e : e = Head(events)
  OBVIOUS
<1>2. e.node \in Node /\ Grows
  BY <1>1, FirstEvent, TypesTask DEF espconn_Task, IInv
<1>3. PICK n \in Node : n = e.node
  BY <1>2
<1>4. CASE Fault(n) \/ UNCHANGED <<life, conn, packets, options, finish>>
  <2>1. UNCHANGED <<life, pbuf, acked, busy, carry>>
    <3>1. CASE Fault(n)
      BY <3>1 DEF Fault, packets, finish
    <3>2. CASE UNCHANGED <<life, conn, packets, options, finish>>
      BY <3>2 DEF packets, finish
    <3>. QED
      BY <1>4, <3>1, <3>2
  <2>. QED
    BY <1>2, <2>1, ExactKept
<1>5. CASE Delete(n) /\ UNCHANGED <<finish, blame>>
  <2>1. /\ life'[n] = "freed" /\ UNCHANGED <<busy, carry, blame>>
        /\ \A m \in Node \ {n} : life'[m] = life[m] /\ pbuf'[m] = pbuf[m] /\ acked'[m] = acked[m]
    BY <1>5 DEF Delete, finish, IInv, TypeOK
  <2>2. Exact(n)'
    BY <2>1 DEF Exact
  <2>3. ASSUME NEW m \in Node \ {n} PROVE Exact(m)'
    <3>1. Over(m)' = Over(m) /\ (Clear(m)' => Clear(m))
      BY <2>1 DEF Over, Clear
    <3>. QED
      BY <2>1, <3>1, ExactFrame
  <2>. QED
    BY <2>2, <2>3 DEF Exacts
<1>. QED
  BY <1>1, <1>3, <1>4, <1>5 DEF espconn_Task

LEMMA ExactFault ==
  ASSUME IInv, Exacts, NEW n \in Node,
         \/ SentFaults(n) \/ CloseFaults(n) \/ SentAcksFault(n)
         \/ (FinishFaults /\ n = busy) \/ (SendFaults /\ n = sending)
  PROVE  Exacts'
<1>1. Fault(n)
  BY DEF SentFaults, CloseFaults, SentAcksFault, FinishFaults, SendFaults
<1>2. Grows
  BY TypesFaults DEF IInv
<1>3. UNCHANGED <<life, pbuf, acked, busy, carry>>
  BY <1>1 DEF Fault, packets, finish
<1>. QED
  BY <1>2, <1>3, ExactKept

LEMMA ExactQuiet ==
  ASSUME IInv, Exacts, NEW n \in Node,
         \/ Refused(n) \/ espconn_set_opt(n, TRUE) \/ espconn_set_opt(n, FALSE) \/ espconn_tcp_set_buf_count(n)
         \/ espconn_disconnect(n) \/ espconn_abort(n) \/ PeerCloses(n) \/ Receives(n)
         \/ espconn_server_poll(n) \/ Errs(n) \/ Ends(n)
  PROVE  Exacts'
<1>1. Grows
  <2>1. CASE PeerCloses(n) \/ Receives(n) \/ espconn_server_poll(n) \/ Errs(n) \/ Ends(n)
    <3>1. UNCHANGED blame
      BY <2>1 DEF PeerCloses, Receives, espconn_server_poll, Errs, Ends
    <3>. QED
      BY <3>1 DEF Grows
  <2>. QED
    BY <2>1, TypesOption, TypesDisconnect, TypesAbort DEF IInv
<1>2. UNCHANGED <<life, pbuf, acked, busy, carry>>
  <2>1. CASE QuietStep(n)
    BY <2>1, QuietFacts DEF IInv, packets, finish
  <2>2. CASE espconn_set_opt(n, TRUE) \/ espconn_set_opt(n, FALSE)
    BY <2>2 DEF espconn_set_opt, packets, finish
  <2>. QED
    BY <2>1, <2>2 DEF QuietStep
<1>. QED
  BY <1>1, <1>2, ExactKept

LEMMA ExactOpen ==
  ASSUME IInv, Exacts, NEW n \in Node,
         espconn_connect(n) \/ espconn_client_connect(n) \/ espconn_tcp_accept(n)
  PROVE  Exacts'
<1>1. /\ UNCHANGED <<pbuf, acked, busy, carry, blame>>
      /\ \A m \in Node : life[m] = "unused" \/ life'[m] = life[m]
  <2>1. CASE espconn_connect(n)
    BY <2>1 DEF espconn_connect, Creates, packets, finish, IInv, TypeOK
  <2>2. CASE espconn_client_connect(n)
    BY <2>2 DEF espconn_client_connect, Established, finish
  <2>3. CASE espconn_tcp_accept(n)
    BY <2>3 DEF espconn_tcp_accept, Creates, Established, finish, send, IInv, TypeOK
  <2>. QED
    BY <2>1, <2>2, <2>3
<1>2. Grows
  BY <1>1 DEF Grows
<1>. QED
  BY <1>1, <1>2, ExactKept

LEMMA InitExacts == Init => Exacts
BY DEF Init, Exacts, Exact

LEMMA NextExacts ==
  ASSUME IInv, Exacts, [Next]_vars
  PROVE  Exacts'
<1>1. CASE (espconn_accept \/ espconn_tcp_delete) \/ UNCHANGED vars
  <2>1. UNCHANGED <<life, pbuf, acked, busy, carry, blame>>
    BY <1>1 DEF espconn_accept, espconn_tcp_delete, vars, packets, finish
  <2>2. Grows
    BY <2>1 DEF Grows
  <2>. QED
    BY <2>1, <2>2, ExactKept
<1>2. CASE Application
  <2>1. ASSUME NEW n \in Node,
               \/ espconn_connect(n) \/ Refused(n) \/ espconn_sent(n) \/ SentFaults(n) \/ Writes(n)
               \/ espconn_disconnect(n) \/ espconn_abort(n) \/ CloseFaults(n)
               \/ espconn_set_opt(n, TRUE) \/ espconn_set_opt(n, FALSE) \/ espconn_tcp_set_buf_count(n)
        PROVE  Exacts'
    <3>1. CASE espconn_sent(n)
      BY <3>1, SendStep, ExactSend
    <3>2. CASE Writes(n)
      BY <3>2, WritesStep, ExactWrites
    <3>. QED
      BY <2>1, <3>1, <3>2, ExactOpen, ExactFault, ExactQuiet
  <2>2. CASE Lowers
    <3>1. UNCHANGED <<life, pbuf, acked, busy, carry>> /\ Grows
      BY <2>2, LowersStep
    <3>. QED
      BY <3>1, ExactKept
  <2>3. CASE SendFaults
    <3>1. sending \in Node
      BY <2>3, NodeNat DEF IInv, TypeOK, Node, SendFaults
    <3>. QED
      BY <2>3, <3>1, ExactFault
  <2>. QED
    BY <1>1, <1>2, <2>1, <2>2, <2>3 DEF Application
<1>3. CASE Lwip
  <2>1. ASSUME NEW n \in Node,
               \/ espconn_client_connect(n) \/ espconn_tcp_accept(n) \/ Sent(n) \/ SentAcksFault(n)
               \/ PeerCloses(n) \/ Receives(n) \/ espconn_server_poll(n) \/ Errs(n) \/ Ends(n)
        PROVE  Exacts'
    <3>1. CASE Sent(n)
      BY <3>1, AckStep, ExactAck
    <3>. QED
      BY <2>1, <3>1, ExactOpen, ExactFault, ExactQuiet
  <2>2. CASE FinishFaults
    <3>1. busy \in Node
      BY <2>2, NodeNat DEF IInv, TypeOK, Node, FinishFaults
    <3>. QED
      BY <2>2, <3>1, ExactFault
  <2>. QED
    BY <1>3, <2>1, <2>2, ExactFinish DEF Lwip
<1>4. CASE espconn_Task
  BY <1>4, ExactTask
<1>. QED
  BY <1>1, <1>2, <1>3, <1>4 DEF Next

LEMMA ExactAccounts ==
  ASSUME IInv, Exacts
  PROVE  AcksAccounted
<1>. SUFFICES ASSUME NEW n \in Node, life[n] = "listed", Clear(n)
              PROVE  /\ pbuf[n] = <<>> => acked[n] = wrote[n] /\ (busy = n => carry = 0)
                     /\ pbuf[n] # <<>> =>
                          pbuf[n][1].at + pbuf[n][1].tot + (IF busy = n THEN carry ELSE 0) = acked[n]
                     /\ busy # n => \A i \in 1 .. Len(pbuf[n]) : acked[n] < pbuf[n][i].at + pbuf[n][i].len
  BY DEF AcksAccounted, Clear
<1>1. Credits(n) /\ Exact(n)
  BY DEF IInv, Packets, Exacts
<1>2. pbuf[n] = <<>> => acked[n] = wrote[n] /\ (busy = n => carry = 0)
  BY <1>1 DEF Credits, Over
<1>3. pbuf[n] # <<>> => pbuf[n][1].at + pbuf[n][1].tot + (IF busy = n THEN carry ELSE 0) = acked[n]
  BY <1>1 DEF Exact, Over
<1>4. ASSUME busy # n, NEW i \in 1 .. Len(pbuf[n]) PROVE acked[n] < pbuf[n][i].at + pbuf[n][i].len
  <2>1. pbuf[n] \in Seq(Packet)
    BY DEF IInv, TypeOK
  <2>2. pbuf[n] # <<>>
    BY <2>1, EmptySeq
  <2>3. acked[n] < pbuf[n][1].at + pbuf[n][1].len
    BY <1>1, <1>4, <2>2 DEF Exact
  <2>4. CASE i = 1
    BY <2>3, <2>4
  <2>5. CASE i # 1
    <3>1. 1 \in 1 .. Len(pbuf[n]) /\ InOrder(pbuf[n]) /\ 1 < i
      BY <2>2, <2>5, HeadFacts
    <3>2. pbuf[n][1].at + pbuf[n][1].len <= pbuf[n][i].at
      BY <3>1 DEF InOrder
    <3>3. pbuf[n][i].at \in Nat /\ pbuf[n][i].len \in Nat
      BY <2>1, PacketFields
    <3>4. acked[n] \in Nat /\ pbuf[n][1].at \in Nat /\ pbuf[n][1].len \in Nat
      BY <2>2, HeadFacts
    <3>5. PICK a \in Nat, first \in Nat, size \in Nat, at \in Nat, len \in Nat :
            /\ a = acked[n] /\ first = pbuf[n][1].at /\ size = pbuf[n][1].len
            /\ at = pbuf[n][i].at /\ len = pbuf[n][i].len
      BY <3>3, <3>4
    <3>6. a < first + size /\ first + size <= at
      BY <2>3, <3>2, <3>5
    <3>7. a < at + len
      BY <3>6
    <3>. QED
      BY <3>5, <3>7
  <2>. QED
    BY <2>4, <2>5
<1>. QED
  BY <1>2, <1>3, <1>4

(* sent_callback speaks of a packet when its last byte was acknowledged,   *)
(* and not before: what espconn_client_sent and espconn_tcp_finish credit  *)
(* adds up to what the peer has acknowledged, whatever the sizes of the    *)
(* packets, of the send buffer and of the acknowledgements, but for the    *)
(* causes that AcksAccounted lists, of which a tot_len that wraps is one.  *)
THEOREM EspconnAcksAccounted == Spec => []AcksAccounted
<1>1. Init => Exacts
  BY InitExacts
<1>2. IInv /\ Exacts /\ [Next]_vars => Exacts'
  BY NextExacts
<1>3. IInv /\ Exacts => AcksAccounted
  BY ExactAccounts
<1>. QED
  BY <1>1, <1>2, <1>3, EspconnInvariant, PTL DEF Spec
=============================================================================
