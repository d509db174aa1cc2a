-------------------------- MODULE DhcpServerProofs --------------------------
(***************************************************************************)
(* What DhcpServer keeps for every number of stations, size of the pool,   *)
(* range, lease time and number of octets: every address of the range is   *)
(* leased once and none is withheld, and a station keeps its lease for the *)
(* time it was told, but for the last minute.  The inductive invariant     *)
(* says where the cursor of the search may be, that the list is in the     *)
(* order the search goes by, and that all of it lies in the range.  The    *)
(* search itself is followed node by node: what holds of the two addresses *)
(* it keeps at one node holds at the next.                                 *)
(***************************************************************************)
EXTENDS DhcpServer, SequenceTheorems, FiniteSetTheorems, WellFoundedInduction, TLAPS

(* The order of the addresses.                                             *)

(* A range fits into half a segment, so that a segment has some addresses. *)
LEMMA OctetsNat == Octets \in Nat /\ Octets > 3
<1>1. Octets \in Nat /\ MAX_LEASE \in 1 .. Octets \div 2 - 1
  BY DhcpAssumption
<1>. QED
  BY <1>1

(* Quotient and rest.                                                      *)
LEMMA Parts ==
  ASSUME NEW a \in Nat
  PROVE  \E q \in Nat, r \in 0 .. Octets - 1 :
           /\ a = q * Octets + r
           /\ Segment(a) = q /\ a % Octets = r /\ Rank(a) = r * Octets + q
<1>1. PICK q \in Int, r \in Int : q = a \div Octets /\ r = a % Octets
  BY OctetsNat
<1>2. a = q * Octets + r /\ r \in 0 .. Octets - 1
  BY <1>1, OctetsNat
<1>3. q \in Nat
  BY <1>1, OctetsNat
<1>. QED
  BY <1>1, <1>2, <1>3 DEF Segment, Rank

(* The quotient and the rest are the only ones.                            *)
LEMMA PartsAre ==
  ASSUME NEW q \in Nat, NEW r \in 0 .. Octets - 1
  PROVE  Segment(q * Octets + r) = q /\ (q * Octets + r) % Octets = r
BY OctetsNat DEF Segment

(* Segments do not overlap.                                                *)
LEMMA Multiples ==
  ASSUME NEW p \in Nat, NEW q \in Nat, p < q
  PROVE  p * Octets + Octets <= q * Octets
BY OctetsNat

(* The rank is a number.                                                   *)
LEMMA RankNat ==
  ASSUME NEW a \in Nat
  PROVE  Rank(a) \in Nat
<1>1. PICK q \in Nat, r \in 0 .. Octets - 1 : Rank(a) = r * Octets + q
  BY Parts
<1>. QED
  BY <1>1, OctetsNat

(* Less is an order, also against addresses of the same rank.              *)
LEMMA LessOrder ==
  ASSUME NEW a \in Nat, NEW b \in Nat, NEW c \in Nat
  PROVE  /\ Less(a, b) /\ Less(b, c) => Less(a, c)
         /\ ~Less(b, a) /\ Less(b, c) => Less(a, c)
         /\ Less(a, b) => a # b /\ ~Less(b, a)
<1>1. Rank(a) \in Nat /\ Rank(b) \in Nat /\ Rank(c) \in Nat
  BY RankNat
<1>. QED
  BY <1>1 DEF Less

(* Two addresses are different or in order.                                *)
LEMMA LessTotal ==
  ASSUME NEW a \in Address, NEW b \in Address, a # b
  PROVE  Less(a, b) \/ Less(b, a)
<1>. a \in Nat /\ b \in Nat
  BY OctetsNat DEF Address
<1>1. PICK qa \in Nat, ra \in 0 .. Octets - 1 : a = qa * Octets + ra /\ Rank(a) = ra * Octets + qa
  BY Parts
<1>2. PICK qb \in Nat, rb \in 0 .. Octets - 1 : b = qb * Octets + rb /\ Rank(b) = rb * Octets + qb
  BY Parts
<1>3. qa < Octets /\ qb < Octets
  BY <1>1, <1>2, OctetsNat DEF Address
<1>4. CASE ra < rb
  BY <1>1, <1>2, <1>3, <1>4, OctetsNat, Multiples DEF Less
<1>5. CASE rb < ra
  BY <1>1, <1>2, <1>3, <1>5, OctetsNat, Multiples DEF Less
<1>6. CASE ra = rb
  BY <1>1, <1>2, <1>6, OctetsNat DEF Less
<1>. QED
  BY <1>4, <1>5, <1>6, OctetsNat

(* Within a segment the order is that of the numbers.                      *)
LEMMA SegmentOrder ==
  ASSUME NEW a \in Nat, NEW b \in Nat, Segment(a) = Segment(b)
  PROVE  Less(a, b) <=> a < b
<1>1. PICK qa \in Nat, ra \in 0 .. Octets - 1 : a = qa * Octets + ra /\ Rank(a) = ra * Octets + qa /\ Segment(a) = qa
  BY Parts
<1>2. PICK qb \in Nat, rb \in 0 .. Octets - 1 : b = qb * Octets + rb /\ Rank(b) = rb * Octets + qb /\ Segment(b) = qb
  BY Parts
<1>3. a < b <=> ra < rb
  BY <1>1, <1>2, OctetsNat
<1>4. ra < rb => ra * Octets + Octets <= rb * Octets
  BY Multiples, OctetsNat
<1>5. rb < ra => rb * Octets + Octets <= ra * Octets
  BY Multiples, OctetsNat
<1>6. Rank(a) < Rank(b) <=> ra < rb
  BY <1>1, <1>2, <1>4, <1>5, OctetsNat
<1>. QED
  BY <1>3, <1>6 DEF Less

(* Addresses between two of a segment are of the segment.                  *)
LEMMA SegmentBetween ==
  ASSUME NEW a \in Nat, NEW b \in Nat, NEW c \in Nat, a <= b, b <= c, Segment(a) = Segment(c)
  PROVE  Segment(b) = Segment(a)
<1>1. PICK qa \in Nat, ra \in 0 .. Octets - 1 : a = qa * Octets + ra /\ Segment(a) = qa
  BY Parts
<1>2. PICK qb \in Nat, rb \in 0 .. Octets - 1 : b = qb * Octets + rb /\ Segment(b) = qb
  BY Parts
<1>3. PICK qc \in Nat, rc \in 0 .. Octets - 1 : c = qc * Octets + rc /\ Segment(c) = qc
  BY Parts
<1>4. ~(qb < qa)
  BY <1>1, <1>2, Multiples, OctetsNat
<1>5. ~(qc < qb)
  BY <1>2, <1>3, Multiples, OctetsNat
<1>. QED
  BY <1>1, <1>2, <1>3, <1>4, <1>5

(* The next address is of the same segment, but after the last of it.      *)
LEMMA SegmentNext ==
  ASSUME NEW a \in Nat, ~EndsSegment(a)
  PROVE  Segment(a + 1) = Segment(a)
<1>1. PICK q \in Nat, r \in 0 .. Octets - 1 : a = q * Octets + r /\ Segment(a) = q /\ a % Octets = r
  BY Parts
<1>2. r + 1 \in 0 .. Octets - 1 /\ a + 1 = q * Octets + (r + 1)
  BY <1>1, OctetsNat DEF EndsSegment
<1>. QED
  BY <1>1, <1>2, PartsAre

(* Whatever is in the segment of an address is an address.                 *)
LEMMA SegmentAddress ==
  ASSUME NEW a \in Nat, NEW b \in Address, Segment(a) = Segment(b)
  PROVE  a \in Address
<1>. b \in Nat
  BY OctetsNat DEF Address
<1>1. PICK qa \in Nat, ra \in 0 .. Octets - 1 : a = qa * Octets + ra /\ Segment(a) = qa
  BY Parts
<1>2. PICK qb \in Nat, rb \in 0 .. Octets - 1 : b = qb * Octets + rb /\ Segment(b) = qb
  BY Parts
<1>3. qa < Octets
  BY <1>1, <1>2, OctetsNat DEF Address
<1>4. qa * Octets + Octets <= Octets * Octets
  BY <1>3, Multiples, OctetsNat
<1>. QED
  BY <1>1, <1>4, OctetsNat DEF Address

-----------------------------------------------------------------------------
(* Lists of leases. *)

LeaseNode == [ip : Nat, mac : Station, timer : 1 .. LEASE_TIMER]

InSequence(list) == \A i, j \in 1 .. Len(list) : i < j => Less(list[i].ip, list[j].ip)
Apart(list) == \A i, j \in 1 .. Len(list) : i < j => list[i].mac # list[j].mac
Within(r, list) == \A i \in 1 .. Len(list) : InRange(r, list[i].ip)
Addresses(list) == \A i \in 1 .. Len(list) : list[i].ip \in Address

(* m has the address a for t minutes or more.                              *)
Holds(list, m, a, t) == \E i \in 1 .. Len(list) : list[i].mac = m /\ list[i].ip = a /\ list[i].timer >= t

(* A list whose nodes are those of another, in the order of that.          *)
Thins(f, new, list) ==
  /\ f \in [1 .. Len(new) -> 1 .. Len(list)]
  /\ \A i, j \in 1 .. Len(new) : i < j => f[i] < f[j]
  /\ \A i \in 1 .. Len(new) : new[i].ip = list[f[i]].ip /\ new[i].mac = list[f[i]].mac

(* What thins a list keeps its order, its stations apart and its addresses *)
(* where they were.                                                        *)
LEMMA ThinnedList ==
  ASSUME NEW new, NEW list, NEW f, Thins(f, new, list)
  PROVE  /\ InSequence(list) => InSequence(new)
         /\ Apart(list) => Apart(new)
         /\ \A r : Within(r, list) => Within(r, new)
         /\ Addresses(list) => Addresses(new)
<1>1. ASSUME NEW i \in 1 .. Len(new), NEW j \in 1 .. Len(new), i < j
      PROVE  f[i] \in 1 .. Len(list) /\ f[j] \in 1 .. Len(list) /\ f[i] < f[j]
  BY <1>1 DEF Thins
<1>2. ASSUME NEW i \in 1 .. Len(new)
      PROVE  f[i] \in 1 .. Len(list) /\ new[i].ip = list[f[i]].ip /\ new[i].mac = list[f[i]].mac
  BY <1>2 DEF Thins
<1>3. InSequence(list) => InSequence(new)
  BY <1>1, <1>2 DEF InSequence
<1>4. Apart(list) => Apart(new)
  BY <1>1, <1>2 DEF Apart
<1>5. \A r : Within(r, list) => Within(r, new)
  BY <1>2 DEF Within
<1>6. Addresses(list) => Addresses(new)
  BY <1>2 DEF Addresses
<1>. QED
  BY <1>3, <1>4, <1>5, <1>6

(* The fields of a node of a list.                                         *)
LEMMA NodeFields ==
  ASSUME NEW list \in Seq(LeaseNode), NEW i \in 1 .. Len(list)
  PROVE  /\ list[i] \in LeaseNode /\ list[i].ip \in Nat /\ list[i].mac \in Station
         /\ list[i].timer \in 1 .. LEASE_TIMER
<1>1. list[i] \in LeaseNode
  BY ElementOfSeq
<1>. QED
  BY <1>1 DEF LeaseNode

(* InsertAt puts an element at its place and moves what is behind it up.   *)
LEMMA InsertedAt ==
  ASSUME NEW S, NEW s \in Seq(S), NEW i \in 1 .. Len(s) + 1, NEW e \in S
  PROVE  /\ InsertAt(s, i, e) \in Seq(S) /\ Len(InsertAt(s, i, e)) = Len(s) + 1
         /\ \A k \in 1 .. i - 1 : InsertAt(s, i, e)[k] = s[k]
         /\ InsertAt(s, i, e)[i] = e
         /\ \A k \in i + 1 .. Len(s) + 1 : InsertAt(s, i, e)[k] = s[k - 1]
<1>. DEFINE p == SubSeq(s, 1, i - 1)
            q == SubSeq(s, i, Len(s))
<1>1. Len(s) \in Nat
  BY LenProperties
<1>2. p \in Seq(S) /\ Len(p) = i - 1 /\ \A k \in 1 .. i - 1 : p[k] = s[k]
  BY <1>1, SubSeqProperties
<1>3. q \in Seq(S) /\ Len(q) = Len(s) - i + 1 /\ \A k \in 1 .. Len(s) - i + 1 : q[k] = s[i + k - 1]
  BY <1>1, SubSeqProperties
<1>4. <<e>> \in Seq(S) /\ Len(<<e>>) = 1 /\ <<e>>[1] = e
  OBVIOUS
<1>. HIDE DEF p, q
<1>5. PICK t : t = p \o <<e>>
  OBVIOUS
<1>6. /\ t \in Seq(S) /\ Len(t) = i /\ t[i] = e
      /\ \A k \in 1 .. i - 1 : t[k] = s[k]
  <2>1. /\ t \in Seq(S) /\ Len(t) = Len(p) + Len(<<e>>)
        /\ \A k \in 1 .. Len(p) + Len(<<e>>) :
             t[k] = IF k <= Len(p) THEN p[k] ELSE <<e>>[k - Len(p)]
    BY <1>2, <1>4, <1>5, ConcatProperties
  <2>. QED
    BY <1>1, <1>2, <1>4, <2>1
<1>7. PICK u : u = t \o q
  OBVIOUS
<1>8. /\ u \in Seq(S) /\ Len(u) = Len(s) + 1 /\ u[i] = e
      /\ \A k \in 1 .. i - 1 : u[k] = s[k]
  <2>1. /\ u \in Seq(S) /\ Len(u) = Len(t) + Len(q)
        /\ \A k \in 1 .. Len(t) + Len(q) :
             u[k] = IF k <= Len(t) THEN t[k] ELSE q[k - Len(t)]
    BY <1>3, <1>6, <1>7, ConcatProperties
  <2>2. Len(u) = Len(s) + 1
    BY <1>1, <1>3, <1>6, <2>1
  <2>3. ASSUME NEW k \in 1 .. i PROVE u[k] = t[k]
    <3>1. k \in 1 .. Len(t) + Len(q) /\ k <= Len(t)
      BY <1>1, <1>3, <1>6
    <3>. QED
      BY <2>1, <3>1
  <2>4. u \in Seq(S)
    BY <2>1
  <2>5. u[i] = e
    BY <1>1, <1>6, <2>3
  <2>6. ASSUME NEW k \in 1 .. i - 1 PROVE u[k] = s[k]
    <3>1. k \in 1 .. i
      BY <1>1
    <3>2. u[k] = t[k]
      BY <2>3, <3>1
    <3>. QED
      BY <1>6, <3>2
  <2>. QED
    BY <2>2, <2>4, <2>5, <2>6
<1>9. ASSUME NEW k \in i + 1 .. Len(s) + 1 PROVE u[k] = s[k - 1]
  <2>1. PICK j \in 1 .. Len(s) - i + 1 : k = i + j
    <3>1. k - i \in 1 .. Len(s) - i + 1 /\ k = i + (k - i)
      BY <1>1
    <3>. QED
      BY <3>1
  <2>2. u[Len(t) + j] = q[j]
    <3>1. \A n \in 1 .. Len(t) + Len(q) :
            u[n] = IF n <= Len(t) THEN t[n] ELSE q[n - Len(t)]
      BY <1>3, <1>6, <1>7, ConcatProperties
    <3>2. /\ k \in 1 .. Len(t) + Len(q) /\ ~(k <= Len(t))
          /\ k - Len(t) = j /\ Len(t) + j = k
      BY <1>1, <1>3, <1>6, <2>1
    <3>3. u[k] = q[k - Len(t)]
      BY <3>1, <3>2
    <3>. QED
      BY <3>2, <3>3
  <2>3. q[j] = s[i + j - 1]
    BY <1>3, <2>1
  <2>4. Len(t) + j = k /\ i + j - 1 = k - 1
    BY <1>6, <2>1
  <2>. QED
    BY <2>2, <2>3, <2>4
<1>10. InsertAt(s, i, e) = u
  BY <1>5, <1>7 DEF InsertAt, p, q
<1>. QED
  BY <1>8, <1>9, <1>10

(* RemoveAt takes an element away and moves what is behind it down.        *)
LEMMA RemovedAt ==
  ASSUME NEW S, NEW s \in Seq(S), NEW i \in 1 .. Len(s)
  PROVE  /\ RemoveAt(s, i) \in Seq(S) /\ Len(RemoveAt(s, i)) = Len(s) - 1
         /\ \A k \in 1 .. i - 1 : RemoveAt(s, i)[k] = s[k]
         /\ \A k \in i .. Len(s) - 1 : RemoveAt(s, i)[k] = s[k + 1]
<1>. DEFINE p == SubSeq(s, 1, i - 1)
            q == SubSeq(s, i + 1, Len(s))
<1>1. Len(s) \in Nat
  BY LenProperties
<1>2. p \in Seq(S) /\ Len(p) = i - 1 /\ \A k \in 1 .. i - 1 : p[k] = s[k]
  BY <1>1, SubSeqProperties
<1>3. q \in Seq(S) /\ Len(q) = Len(s) - i /\ \A k \in 1 .. Len(s) - i : q[k] = s[i + k]
  BY <1>1, SubSeqProperties
<1>. HIDE DEF p, q
<1>7. PICK u : u = p \o q
  OBVIOUS
<1>8. /\ u \in Seq(S) /\ Len(u) = Len(s) - 1
      /\ \A k \in 1 .. i - 1 : u[k] = s[k]
  <2>1. /\ u \in Seq(S) /\ Len(u) = Len(p) + Len(q)
        /\ \A k \in 1 .. Len(p) + Len(q) :
             u[k] = IF k <= Len(p) THEN p[k] ELSE q[k - Len(p)]
    BY <1>2, <1>3, <1>7, ConcatProperties
  <2>2. Len(u) = Len(s) - 1
    BY <1>1, <1>2, <1>3, <2>1
  <2>3. ASSUME NEW k \in 1 .. i - 1 PROVE u[k] = s[k]
    <3>1. k \in 1 .. Len(p) + Len(q) /\ k <= Len(p)
      BY <1>1, <1>2, <1>3
    <3>2. u[k] = p[k]
      BY <2>1, <3>1
    <3>. QED
      BY <1>2, <3>2
  <2>4. u \in Seq(S)
    BY <2>1
  <2>. QED
    BY <2>2, <2>3, <2>4
<1>9. ASSUME NEW k \in i .. Len(s) - 1 PROVE u[k] = s[k + 1]
  <2>1. k - i + 1 \in 1 .. Len(s) - i /\ k = Len(p) + (k - i + 1) /\ i + (k - i + 1) = k + 1
    BY <1>1, <1>2
  <2>2. u[Len(p) + (k - i + 1)] = q[k - i + 1]
    <3>1. \A j \in 1 .. Len(p) + Len(q) :
            u[j] = IF j <= Len(p) THEN p[j] ELSE q[j - Len(p)]
      BY <1>2, <1>3, <1>7, ConcatProperties
    <3>2. /\ k \in 1 .. Len(p) + Len(q) /\ ~(k <= Len(p))
          /\ k - Len(p) = k - i + 1
      BY <1>1, <1>2, <1>3
    <3>3. u[k] = q[k - Len(p)]
      BY <3>1, <3>2
    <3>. QED
      BY <2>1, <3>2, <3>3
  <2>3. q[k - i + 1] = s[i + (k - i + 1)]
    BY <1>3, <2>1
  <2>. QED
    BY <2>1, <2>2, <2>3
<1>10. RemoveAt(s, i) = u
  BY <1>7 DEF RemoveAt, p, q
<1>. QED
  BY <1>8, <1>9, <1>10

(* A list has a length, and its places are counted from 1.                 *)
LEMMA ListDomain ==
  ASSUME NEW list \in Seq(LeaseNode)
  PROVE  Len(list) \in Nat /\ DOMAIN list = 1 .. Len(list) /\ list \in [1 .. Len(list) -> LeaseNode]
BY LenProperties

(* The node that is found for a station is one of that station.            *)
LEMMA NodeOfIs ==
  ASSUME NEW list \in Seq(LeaseNode), NEW m \in Macs(list)
  PROVE  NodeOf(list, m) \in 1 .. Len(list) /\ list[NodeOf(list, m)].mac = m
<1>1. \E i \in DOMAIN list : list[i].mac = m
  BY DEF Macs
<1>2. NodeOf(list, m) \in DOMAIN list /\ list[NodeOf(list, m)].mac = m
  BY <1>1 DEF NodeOf
<1>. QED
  BY <1>2, ListDomain

(* A node is removed.                                                      *)
LEMMA RemovedThins ==
  ASSUME NEW list \in Seq(LeaseNode), NEW i \in 1 .. Len(list)
  PROVE  /\ RemoveAt(list, i) \in Seq(LeaseNode)
         /\ \E f : Thins(f, RemoveAt(list, i), list)
         /\ \A m, a, t : m # list[i].mac /\ Holds(list, m, a, t) => Holds(RemoveAt(list, i), m, a, t)
<1>1. PICK new : new = RemoveAt(list, i)
  OBVIOUS
<1>2. /\ new \in Seq(LeaseNode) /\ Len(new) = Len(list) - 1
      /\ \A k \in 1 .. i - 1 : new[k] = list[k]
      /\ \A k \in i .. Len(list) - 1 : new[k] = list[k + 1]
  BY <1>1, RemovedAt
<1>3. Len(list) \in Nat
  BY ListDomain
<1>4. Thins([k \in 1 .. Len(new) |-> IF k < i THEN k ELSE k + 1], new, list)
  <2>. DEFINE f == [k \in 1 .. Len(new) |-> IF k < i THEN k ELSE k + 1]
  <2>1. f \in [1 .. Len(new) -> 1 .. Len(list)]
    BY <1>2, <1>3
  <2>2. \A k, j \in 1 .. Len(new) : k < j => f[k] < f[j]
    BY <1>2, <1>3
  <2>3. ASSUME NEW k \in 1 .. Len(new) PROVE new[k] = list[f[k]]
    <3>1. CASE k < i
      <4>1. k \in 1 .. i - 1 /\ f[k] = k
        BY <1>2, <1>3, <3>1
      <4>. QED
        BY <1>2, <4>1
    <3>2. CASE ~(k < i)
      <4>1. k \in i .. Len(list) - 1 /\ f[k] = k + 1
        BY <1>2, <1>3, <3>2
      <4>. QED
        BY <1>2, <4>1
    <3>. QED
      BY <3>1, <3>2
  <2>. HIDE DEF f
  <2>4. Thins(f, new, list)
    BY <2>1, <2>2, <2>3 DEF Thins
  <2>. QED
    BY <2>4 DEF f
<1>5. ASSUME NEW m, NEW a, NEW t, m # list[i].mac, Holds(list, m, a, t) PROVE Holds(new, m, a, t)
  <2>1. PICK k \in 1 .. Len(list) : list[k].mac = m /\ list[k].ip = a /\ list[k].timer >= t
    BY <1>5 DEF Holds
  <2>2. k # i
    BY <1>5, <2>1
  <2>3. CASE k < i
    <3>1. k \in 1 .. i - 1 /\ k \in 1 .. Len(new)
      BY <1>2, <1>3, <2>3
    <3>2. new[k] = list[k]
      BY <1>2, <3>1
    <3>. QED
      BY <2>1, <3>1, <3>2 DEF Holds
  <2>4. CASE i < k
    <3>1. PICK j \in i .. Len(list) - 1 : k = j + 1
      <4>1. k - 1 \in i .. Len(list) - 1 /\ k = (k - 1) + 1
        BY <1>3, <2>4
      <4>. QED
        BY <4>1
    <3>2. new[j] = list[k] /\ j \in 1 .. Len(new)
      BY <1>2, <1>3, <3>1
    <3>. QED
      BY <2>1, <3>2 DEF Holds
  <2>. QED
    BY <2>2, <2>3, <2>4
<1>. QED
  BY <1>1, <1>2, <1>4, <1>5

(* A node with another timer is a node of the same lease.                  *)
LEMMA TimedNode ==
  ASSUME NEW x \in LeaseNode, NEW t \in 1 .. LEASE_TIMER
  PROVE  /\ [x EXCEPT !.timer = t] \in LeaseNode
         /\ [x EXCEPT !.timer = t].ip = x.ip /\ [x EXCEPT !.timer = t].mac = x.mac
         /\ [x EXCEPT !.timer = t].timer = t
BY DEF LeaseNode

(* The timer of a node starts again.                                       *)
Refreshed(list, i) == [list EXCEPT ![i].timer = LEASE_TIMER]

(* The list keeps its leases when a timer starts again, and that lease has *)
(* its whole time.                                                         *)
LEMMA RefreshedThins ==
  ASSUME NEW list \in Seq(LeaseNode), NEW i \in 1 .. Len(list)
  PROVE  /\ Refreshed(list, i) \in Seq(LeaseNode) /\ Len(Refreshed(list, i)) = Len(list)
         /\ \A k \in 1 .. Len(list) : /\ Refreshed(list, i)[k].mac = list[k].mac
                                      /\ Refreshed(list, i)[k].ip = list[k].ip
         /\ \E f : Thins(f, Refreshed(list, i), list)
         /\ \A m, a, t : t <= LEASE_TIMER /\ Holds(list, m, a, t) => Holds(Refreshed(list, i), m, a, t)
         /\ Holds(Refreshed(list, i), list[i].mac, list[i].ip, LEASE_TIMER)
<1>1. PICK new : new = Refreshed(list, i)
  OBVIOUS
<1>2. Len(list) \in Nat /\ LEASE_TIMER \in Nat \ {0}
  BY ListDomain, DhcpAssumption
<1>3. \A k \in 1 .. Len(list) :
        list[k] \in LeaseNode /\ new[k] = IF k = i THEN [list[k] EXCEPT !.timer = LEASE_TIMER] ELSE list[k]
  BY <1>1, NodeFields, ListDomain DEF Refreshed
<1>4. \A k \in 1 .. Len(list) :
        /\ new[k] \in LeaseNode /\ new[k].mac = list[k].mac /\ new[k].ip = list[k].ip
        /\ new[k].timer = IF k = i THEN LEASE_TIMER ELSE list[k].timer
  <2>. SUFFICES ASSUME NEW k \in 1 .. Len(list)
                PROVE  /\ new[k] \in LeaseNode /\ new[k].mac = list[k].mac /\ new[k].ip = list[k].ip
                       /\ new[k].timer = IF k = i THEN LEASE_TIMER ELSE list[k].timer
    OBVIOUS
  <2>1. CASE k = i
    <3>1. LEASE_TIMER \in 1 .. LEASE_TIMER
      BY <1>2
    <3>2. PICK x \in LeaseNode : x = list[k]
      BY <1>3
    <3>3. new[k] = [x EXCEPT !.timer = LEASE_TIMER]
      BY <1>3, <2>1, <3>2
    <3>. QED
      BY <2>1, <3>1, <3>2, <3>3, TimedNode
  <2>2. CASE k # i
    BY <1>3, <2>2
  <2>. QED
    BY <2>1, <2>2
<1>5. new \in Seq(LeaseNode) /\ Len(new) = Len(list)
  <2>1. DOMAIN new = 1 .. Len(list) /\ new = [k \in 1 .. Len(list) |-> new[k]]
    BY <1>1, ListDomain DEF Refreshed
  <2>2. new \in [1 .. Len(list) -> LeaseNode]
    BY <1>4, <2>1
  <2>. QED
    BY <1>2, <2>2, SeqDef, LenProperties
<1>6. Thins([k \in 1 .. Len(new) |-> k], new, list)
  BY <1>4, <1>5 DEF Thins
<1>7. ASSUME NEW m, NEW a, NEW t, t <= LEASE_TIMER, Holds(list, m, a, t) PROVE Holds(new, m, a, t)
  BY <1>4, <1>5, <1>7 DEF Holds
<1>8. Holds(new, list[i].mac, list[i].ip, LEASE_TIMER)
  BY <1>2, <1>4, <1>5 DEF Holds
<1>. QED
  BY <1>1, <1>4, <1>5, <1>6, <1>7, <1>8

(* A set of numbers has a least one.                                       *)
LEMMA LeastOf ==
  ASSUME NEW S \in SUBSET Nat, S # {}
  PROVE  \E x \in S : \A y \in S : x <= y
<1>1. PICK x \in S : \A y \in S : ~(<<y, x>> \in OpToRel(<, Nat))
  BY NatLessThanWellFounded, WFMin
<1>2. \A y \in Nat : y < x => <<y, x>> \in OpToRel(<, Nat)
  BY SMT DEF OpToRel
<1>3. ASSUME NEW y \in S PROVE x <= y
  <2>1. x \in Nat /\ y \in Nat
    OBVIOUS
  <2>2. ~(y < x)
    BY <1>1, <1>2, <2>1, Zenon
  <2> QED BY <2>1, <2>2
<1> QED BY <1>3, Zenon

(* Where node_insert_to_list inserts: before the first node that is        *)
(* greater, and after all when there is none.                              *)
LEMMA InsertedWhere ==
  ASSUME NEW list \in Seq(LeaseNode), NEW node \in LeaseNode
  PROVE  \E p \in 1 .. Len(list) + 1 :
           /\ node_insert_to_list(list, node) = InsertAt(list, p, node)
           /\ \A k \in 1 .. p - 1 : ~Less(node.ip, list[k].ip)
           /\ p <= Len(list) => Less(node.ip, list[p].ip)
<1>1. PICK S : S = {i \in DOMAIN list : Less(node.ip, list[i].ip)} \union {Len(list) + 1}
  OBVIOUS
<1>2. Len(list) \in Nat /\ DOMAIN list = 1 .. Len(list)
  BY ListDomain
<1>3. S \in SUBSET Nat /\ S # {} /\ S \subseteq 1 .. Len(list) + 1
  BY <1>1, <1>2
<1>4. \E x \in S : \A y \in S : x <= y
  BY <1>3, LeastOf
<1>5. PICK p : p = Min(S)
  OBVIOUS
<1>6. p \in S /\ \A y \in S : p <= y
  BY <1>4, <1>5 DEF Min
<1>7. node_insert_to_list(list, node) = InsertAt(list, p, node)
  BY <1>1, <1>5 DEF node_insert_to_list
<1>8. ASSUME NEW k \in 1 .. p - 1 PROVE ~Less(node.ip, list[k].ip)
  <2>1. k \in 1 .. Len(list) /\ ~(p <= k)
    BY <1>2, <1>3, <1>6
  <2>2. k \notin S
    BY <1>6, <2>1
  <2>. QED
    BY <1>1, <1>2, <2>1, <2>2
<1>9. ASSUME p <= Len(list) PROVE Less(node.ip, list[p].ip)
  <2>1. p # Len(list) + 1
    BY <1>2, <1>3, <1>6, <1>9
  <2>. QED
    BY <1>1, <1>6, <2>1
<1>. QED
  BY <1>3, <1>6, <1>7, <1>8, <1>9

(* A node is inserted.                                                     *)
LEMMA InsertedList ==
  ASSUME NEW list \in Seq(LeaseNode), NEW node \in LeaseNode,
         NEW new, new = node_insert_to_list(list, node)
  PROVE  /\ new \in Seq(LeaseNode) /\ node.mac \in Macs(new)
         /\ \A m, a, t : Holds(list, m, a, t) => Holds(new, m, a, t)
         /\ \A t : node.timer >= t => Holds(new, node.mac, node.ip, t)
         /\ Apart(list) /\ node.mac \notin Macs(list) => Apart(new)
         /\ \A r : Within(r, list) /\ InRange(r, node.ip) => Within(r, new)
         /\ Addresses(list) /\ node.ip \in Address => Addresses(new)
         /\ /\ Addresses(list) /\ node.ip \in Address /\ InSequence(list)
            /\ \A i \in 1 .. Len(list) : list[i].ip # node.ip
            => InSequence(new)
<1>1. PICK p \in 1 .. Len(list) + 1 :
        /\ new = InsertAt(list, p, node)
        /\ \A k \in 1 .. p - 1 : ~Less(node.ip, list[k].ip)
        /\ p <= Len(list) => Less(node.ip, list[p].ip)
  BY InsertedWhere
<1>2. Len(list) \in Nat /\ DOMAIN list = 1 .. Len(list)
  BY ListDomain
<1>3. /\ new \in Seq(LeaseNode) /\ Len(new) = Len(list) + 1 /\ new[p] = node
      /\ \A k \in 1 .. p - 1 : new[k] = list[k]
      /\ \A k \in p + 1 .. Len(list) + 1 : new[k] = list[k - 1]
  BY <1>1, InsertedAt
<1>4. DOMAIN new = 1 .. Len(new) /\ p \in 1 .. Len(new)
  BY <1>2, <1>3, ListDomain
<1>5. ASSUME NEW k \in 1 .. Len(list)
      PROVE  \E j \in 1 .. Len(new) : new[j] = list[k]
  <2>1. CASE k < p
    <3>1. k \in 1 .. p - 1 /\ k \in 1 .. Len(new)
      BY <1>2, <1>3, <2>1
    <3>. QED
      BY <1>3, <3>1
  <2>2. CASE p <= k
    <3>1. k + 1 \in p + 1 .. Len(list) + 1 /\ k + 1 \in 1 .. Len(new) /\ (k + 1) - 1 = k
      BY <1>2, <1>3, <2>2
    <3>2. new[k + 1] = list[(k + 1) - 1]
      BY <1>3, <3>1
    <3>. QED
      BY <3>1, <3>2
  <2>. QED
    BY <1>2, <2>1, <2>2
<1>6. ASSUME NEW j \in 1 .. Len(new), j # p
      PROVE  \E k \in 1 .. Len(list) : new[j] = list[k] /\ k = IF j < p THEN j ELSE j - 1
  <2>1. CASE j < p
    <3>1. j \in 1 .. p - 1 /\ j \in 1 .. Len(list)
      BY <1>2, <1>3, <2>1
    <3>. QED
      BY <1>3, <2>1, <3>1
  <2>2. CASE ~(j < p)
    <3>1. j \in p + 1 .. Len(list) + 1 /\ j - 1 \in 1 .. Len(list)
      BY <1>2, <1>3, <1>6, <2>2
    <3>. QED
      BY <1>3, <2>2, <3>1
  <2>. QED
    BY <2>1, <2>2
<1>7. node.mac \in Macs(new)
  BY <1>3, <1>4 DEF Macs
<1>8. ASSUME NEW m, NEW a, NEW t, Holds(list, m, a, t) PROVE Holds(new, m, a, t)
  BY <1>5, <1>8 DEF Holds
<1>9. ASSUME NEW t, node.timer >= t PROVE Holds(new, node.mac, node.ip, t)
  BY <1>3, <1>4, <1>9 DEF Holds
<1>10. ASSUME NEW r, Within(r, list), InRange(r, node.ip) PROVE Within(r, new)
  <2>1. ASSUME NEW j \in 1 .. Len(new) PROVE InRange(r, new[j].ip)
    BY <1>3, <1>6, <1>10 DEF Within
  <2>. QED
    BY <2>1 DEF Within
<1>11. ASSUME Addresses(list), node.ip \in Address PROVE Addresses(new)
  <2>1. ASSUME NEW j \in 1 .. Len(new) PROVE new[j].ip \in Address
    BY <1>3, <1>6, <1>11 DEF Addresses
  <2>. QED
    BY <2>1 DEF Addresses
<1>12. ASSUME Apart(list), node.mac \notin Macs(list) PROVE Apart(new)
  <2>1. \A k \in 1 .. Len(list) : list[k].mac # node.mac
    BY <1>2, <1>12 DEF Macs
  <2>2. ASSUME NEW i \in 1 .. Len(new), NEW j \in 1 .. Len(new), i < j PROVE new[i].mac # new[j].mac
    <3>1. CASE i = p
      <4>1. PICK k \in 1 .. Len(list) : new[j] = list[k]
        BY <1>6, <2>2, <3>1
      <4>. QED
        BY <1>3, <2>1, <3>1, <4>1
    <3>2. CASE j = p
      <4>1. PICK k \in 1 .. Len(list) : new[i] = list[k]
        BY <1>6, <2>2, <3>2
      <4>. QED
        BY <1>3, <2>1, <3>2, <4>1
    <3>3. CASE i # p /\ j # p
      <4>1. PICK k \in 1 .. Len(list) : new[i] = list[k] /\ k = IF i < p THEN i ELSE i - 1
        BY <1>6, <3>3
      <4>2. PICK l \in 1 .. Len(list) : new[j] = list[l] /\ l = IF j < p THEN j ELSE j - 1
        BY <1>6, <3>3
      <4>3. k < l
        BY <1>2, <1>3, <2>2, <3>3, <4>1, <4>2
      <4>4. list[k].mac # list[l].mac
        BY <1>12, <4>3 DEF Apart
      <4>. QED
        BY <4>1, <4>2, <4>4
    <3>. QED
      BY <3>1, <3>2, <3>3
  <2>. QED
    BY <2>2 DEF Apart
<1>13. ASSUME Addresses(list), node.ip \in Address, InSequence(list),
              \A i \in 1 .. Len(list) : list[i].ip # node.ip
       PROVE  InSequence(new)
  <2>1. ASSUME NEW k \in 1 .. Len(list) PROVE list[k].ip \in Address /\ list[k].ip \in Nat /\ node.ip \in Nat
    BY <1>13, NodeFields DEF Addresses, LeaseNode
  <2>2. ASSUME NEW k \in 1 .. Len(list), k < p PROVE Less(list[k].ip, node.ip)
    <3>1. k \in 1 .. p - 1
      BY <1>2, <2>2
    <3>. QED
      BY <1>1, <1>13, <2>1, <3>1, LessTotal
  <2>3. ASSUME NEW k \in 1 .. Len(list), p <= k PROVE Less(node.ip, list[k].ip)
    <3>1. p \in 1 .. Len(list) /\ Less(node.ip, list[p].ip)
      BY <1>1, <1>2, <2>3
    <3>2. CASE k = p
      BY <3>1, <3>2
    <3>3. CASE p < k
      <4>1. Less(list[p].ip, list[k].ip)
        BY <1>13, <3>1, <3>3 DEF InSequence
      <4>. QED
        BY <2>1, <3>1, <4>1, LessOrder
    <3>. QED
      BY <1>2, <2>3, <3>2, <3>3
  <2>4. ASSUME NEW i \in 1 .. Len(new), NEW j \in 1 .. Len(new), i < j PROVE Less(new[i].ip, new[j].ip)
    <3>1. CASE i = p
      <4>1. PICK k \in 1 .. Len(list) : new[j] = list[k] /\ k = IF j < p THEN j ELSE j - 1
        BY <1>6, <2>4, <3>1
      <4>2. p <= k
        BY <1>2, <1>3, <2>4, <3>1, <4>1
      <4>. QED
        BY <1>3, <2>3, <3>1, <4>1, <4>2
    <3>2. CASE j = p
      <4>1. PICK k \in 1 .. Len(list) : new[i] = list[k] /\ k = IF i < p THEN i ELSE i - 1
        BY <1>6, <2>4, <3>2
      <4>2. k < p
        BY <1>2, <1>3, <2>4, <3>2, <4>1
      <4>. QED
        BY <1>3, <2>2, <3>2, <4>1, <4>2
    <3>3. CASE i # p /\ j # p
      <4>1. PICK k \in 1 .. Len(list) : new[i] = list[k] /\ k = IF i < p THEN i ELSE i - 1
        BY <1>6, <3>3
      <4>2. PICK l \in 1 .. Len(list) : new[j] = list[l] /\ l = IF j < p THEN j ELSE j - 1
        BY <1>6, <3>3
      <4>3. k < l
        BY <1>2, <1>3, <2>4, <3>3, <4>1, <4>2
      <4>. QED
        BY <1>13, <4>1, <4>2, <4>3 DEF InSequence
    <3>. QED
      BY <3>1, <3>2, <3>3
  <2>. QED
    BY <2>4 DEF InSequence
<1>. QED
  BY <1>3, <1>7, <1>8, <1>9, <1>10, <1>11, <1>12, <1>13

-----------------------------------------------------------------------------
(* The search. *)

(* What holds at 0, and then from each place to the next.                  *)
LEMMA Upwards ==
  ASSUME NEW n \in Nat, NEW S, 0 \in S, \A i \in 1 .. n : i - 1 \in S => i \in S
  PROVE  \A i \in 0 .. n : i \in S
<1>. DEFINE bad == {i \in 0 .. n : i \notin S}
<1>1. ASSUME bad # {} PROVE FALSE
  <2>1. bad \in SUBSET Nat
    OBVIOUS
  <2>2. PICK m \in bad : \A j \in bad : m <= j
    <3>. HIDE DEF bad
    <3>. QED
      BY <1>1, <2>1, LeastOf
  <2>3. m \in 1 .. n /\ m - 1 \in 0 .. n /\ ~(m <= m - 1) /\ m \notin S
    <3>1. m \in 0 .. n /\ m \notin S
      OBVIOUS
    <3>2. m # 0
      BY <3>1
    <3>. QED
      BY <3>1, <3>2
  <2>4. m - 1 \notin bad
    <3>. HIDE DEF bad
    <3>. QED
      BY <2>2, <2>3
  <2>. QED
    BY <2>3, <2>4
<1>. QED
  BY <1>1

(* A recursion on the places of a list has values.                         *)
Traces(f, n, V, a, R) ==
  f \in [0 .. n -> V] /\ f[0] = a /\ \A i \in 1 .. n : f[i] = R[<<i, f[i - 1]>>]

(* There are such values.                                                  *)
LEMMA TraceExists ==
  ASSUME NEW n \in Nat, NEW V, NEW a \in V, NEW R \in [(1 .. n) \X V -> V]
  PROVE  \E f : Traces(f, n, V, a, R)
<1>. DEFINE S == {m \in 0 .. n : \E f : Traces(f, m, V, a, R)}
<1>1. 0 \in S
  <2>1. Traces([i \in 0 .. 0 |-> a], 0, V, a, R)
    BY DEF Traces
  <2>. QED
    BY <2>1
<1>2. ASSUME NEW m \in 1 .. n, m - 1 \in S PROVE m \in S
  <2>1. PICK f : Traces(f, m - 1, V, a, R)
    BY <1>2
  <2>. DEFINE g == [i \in 0 .. m |-> IF i = m THEN R[<<m, f[m - 1]>>] ELSE f[i]]
  <2>2. f[m - 1] \in V /\ R[<<m, f[m - 1]>>] \in V
    BY <2>1 DEF Traces
  <2>3. g \in [0 .. m -> V] /\ g[0] = a
    BY <2>1, <2>2 DEF Traces
  <2>4. ASSUME NEW i \in 1 .. m PROVE g[i] = R[<<i, g[i - 1]>>]
    <3>1. CASE i = m
      <4>1. g[m - 1] = f[m - 1] /\ g[m] = R[<<m, f[m - 1]>>]
        OBVIOUS
      <4>. HIDE DEF g
      <4>. QED
        BY <3>1, <4>1
    <3>2. CASE i # m
      BY <2>1, <3>2 DEF Traces
    <3>. QED
      BY <3>1, <3>2
  <2>5. Traces(g, m, V, a, R)
    <3>. HIDE DEF g
    <3>. QED
      BY <2>3, <2>4 DEF Traces
  <2>. HIDE DEF g
  <2>. QED
    BY <2>5
<1>3. n \in S
  <2>. HIDE DEF S
  <2>. QED
    BY <1>1, <1>2, Upwards
<1>. QED
  BY <1>3

(* The search at each node it has passed.                                  *)
At == [past : BOOLEAN, plus : Nat, first : Nat]
AtFirst == [past |-> FALSE, plus |-> plus, first |-> lease.start]

Walks(f, list) ==
  /\ f \in [0 .. Len(list) -> At] /\ f[0] = AtFirst
  /\ \A i \in 1 .. Len(list) : f[i] = Passes(f[i - 1], list[i])

(* A step of the search is again a place of it.                            *)
LEMMA PassesType ==
  ASSUME NEW at \in At, NEW node \in LeaseNode
  PROVE  Passes(at, node) \in At
BY DEF Passes, At, LeaseNode

(* The search has a place at every node.                                   *)
LEMMA WalkExists ==
  ASSUME NEW list \in Seq(LeaseNode), AtFirst \in At
  PROVE  \E f : Walks(f, list)
<1>. DEFINE n == Len(list)
            R == [x \in (1 .. n) \X At |-> Passes(x[2], list[x[1]])]
<1>1. n \in Nat
  BY ListDomain
<1>2. R \in [(1 .. n) \X At -> At]
  BY PassesType, NodeFields
<1>3. \A i \in 1 .. n, t \in At : R[<<i, t>>] = Passes(t, list[i])
  OBVIOUS
<1>. HIDE DEF R, n
<1>4. PICK f : Traces(f, n, At, AtFirst, R)
  BY <1>1, <1>2, TraceExists
<1>5. f \in [0 .. n -> At] /\ f[0] = AtFirst /\ \A i \in 1 .. n : f[i] = R[<<i, f[i - 1]>>]
  BY <1>4 DEF Traces
<1>6. \A i \in 1 .. n : f[i - 1] \in At
  BY <1>1, <1>5
<1>7. Walks(f, list)
  BY <1>3, <1>5, <1>6 DEF Walks, n
<1>. QED
  BY <1>7

(* The last of these places is what Walk returns.                          *)
LEMMA WalkIs ==
  ASSUME NEW list \in Seq(LeaseNode), NEW f, Walks(f, list)
  PROVE  Walk(list) = f[Len(list)]
<1>. DEFINE n == Len(list)
            at == CHOOSE g : g = [i \in 0 .. n |-> IF i = 0 THEN [past |-> FALSE, plus |-> plus, first |-> lease.start]
                                                           ELSE Passes(g[i - 1], list[i])]
<1>1. n \in Nat
  BY ListDomain
<1>2. f = [i \in 0 .. n |-> IF i = 0 THEN [past |-> FALSE, plus |-> plus, first |-> lease.start]
                                     ELSE Passes(f[i - 1], list[i])]
  <2>1. \A i \in 0 .. n : f[i] = IF i = 0 THEN [past |-> FALSE, plus |-> plus, first |-> lease.start]
                                          ELSE Passes(f[i - 1], list[i])
    BY <1>1 DEF Walks, AtFirst
  <2>2. f = [i \in 0 .. n |-> f[i]]
    BY DEF Walks
  <2>. HIDE DEF n
  <2>. QED
    BY <2>1, <2>2
<1>3. at = [i \in 0 .. n |-> IF i = 0 THEN [past |-> FALSE, plus |-> plus, first |-> lease.start]
                                      ELSE Passes(at[i - 1], list[i])]
  <2>. HIDE DEF n
  <2>. QED
    BY <1>2, Zenon
<1>4. Walk(list) = at[n]
  BY Zenon DEF Walk
<1>. HIDE DEF at
<1>. DEFINE S == {i \in 0 .. n : at[i] = f[i]}
<1>5. 0 \in S
  BY <1>1, <1>3 DEF Walks, AtFirst
<1>6. ASSUME NEW i \in 1 .. n, i - 1 \in S PROVE i \in S
  <2>1. f[i] = Passes(f[i - 1], list[i])
    BY DEF Walks
  <2>2. i \in 0 .. n /\ i # 0
    BY <1>1
  <2>3. at[i] = Passes(at[i - 1], list[i])
    <3>. HIDE DEF n
    <3>. QED
      BY <1>3, <2>2
  <2>. QED
    BY <1>6, <2>1, <2>2, <2>3
<1>7. n \in S
  <2>. HIDE DEF S, n
  <2>1. \A i \in 1 .. n : i - 1 \in S => i \in S
    BY <1>6
  <2>2. \A i \in 0 .. n : i \in S
    BY <1>1, <1>5, <2>1, Upwards
  <2>. QED
    BY <1>1, <2>2
<1>. QED
  BY <1>4, <1>7

(* One step of the search.                                                 *)
LEMMA WalkStep ==
  ASSUME NEW list \in Seq(LeaseNode), NEW f, Walks(f, list), NEW i \in 1 .. Len(list)
  PROVE  /\ list[i].ip \in Nat
         /\ f[i - 1] \in At /\ f[i - 1].plus \in Nat /\ f[i - 1].first \in Nat /\ f[i - 1].past \in BOOLEAN
         /\ f[i] \in At /\ f[i].plus \in Nat /\ f[i].first \in Nat /\ f[i].past \in BOOLEAN
         /\ f[i].plus = IF list[i].ip = f[i - 1].plus THEN f[i - 1].plus + 1 ELSE f[i - 1].plus
         /\ f[i].past <=> f[i - 1].past \/ Less(f[i - 1].first, list[i].ip)
         /\ f[i].first = IF f[i].past THEN f[i - 1].first ELSE f[i - 1].first + 1
<1>1. Len(list) \in Nat /\ i - 1 \in 0 .. Len(list) /\ i \in 0 .. Len(list)
  BY ListDomain
<1>2. f[i - 1] \in At /\ f[i] \in At /\ f[i] = Passes(f[i - 1], list[i])
  BY <1>1 DEF Walks
<1>3. list[i].ip \in Nat
  BY NodeFields
<1>4. /\ f[i].plus = IF list[i].ip = f[i - 1].plus THEN f[i - 1].plus + 1 ELSE f[i - 1].plus
      /\ f[i].past = (f[i - 1].past \/ Less(f[i - 1].first, list[i].ip))
      /\ f[i].first = IF f[i - 1].past \/ Less(f[i - 1].first, list[i].ip) THEN f[i - 1].first ELSE f[i - 1].first + 1
  BY <1>2 DEF Passes
<1>. QED
  BY <1>2, <1>3, <1>4 DEF At

(* The first and the second address go up, from where they began; the      *)
(* first is behind an address that the search has passed.                  *)
LEMMA WalkUp ==
  ASSUME NEW list \in Seq(LeaseNode), NEW f, Walks(f, list), plus \in Nat, lease.start \in Nat
  PROVE  \A i \in 0 .. Len(list) :
           /\ f[i] \in At /\ f[i].plus \in Nat /\ f[i].first \in Nat
           /\ plus <= f[i].plus /\ lease.start <= f[i].first
           /\ f[i].plus # plus => \E k \in 1 .. i : list[k].ip + 1 = f[i].plus
<1>. DEFINE n == Len(list)
            P(i) == /\ f[i] \in At /\ f[i].plus \in Nat /\ f[i].first \in Nat
                    /\ plus <= f[i].plus /\ lease.start <= f[i].first
                    /\ f[i].plus # plus => \E k \in 1 .. i : list[k].ip + 1 = f[i].plus
            S == {i \in 0 .. n : P(i)}
<1>1. n \in Nat
  BY ListDomain
<1>2. 0 \in S
  BY <1>1 DEF Walks, AtFirst, At
<1>3. ASSUME NEW i \in 1 .. n, i - 1 \in S PROVE i \in S
  <2>1. P(i - 1)
    BY <1>3
  <2>2. /\ list[i].ip \in Nat /\ f[i - 1].plus \in Nat /\ f[i - 1].first \in Nat
        /\ f[i] \in At /\ f[i].plus \in Nat /\ f[i].first \in Nat
        /\ f[i].plus = IF list[i].ip = f[i - 1].plus THEN f[i - 1].plus + 1 ELSE f[i - 1].plus
        /\ f[i].first = IF f[i].past THEN f[i - 1].first ELSE f[i - 1].first + 1
    BY WalkStep
  <2>3. plus <= f[i].plus /\ lease.start <= f[i].first
    <3>1. f[i - 1].plus <= f[i].plus
      BY <2>2
    <3>2. f[i - 1].first <= f[i].first
      BY <2>2
    <3>3. plus <= f[i - 1].plus /\ lease.start <= f[i - 1].first
      BY <2>1
    <3>4. PICK p \in Nat, s \in Nat : p = plus /\ s = lease.start
      OBVIOUS
    <3>5. f[i - 1].first \in Nat /\ f[i].first \in Nat /\ f[i - 1].plus \in Nat /\ f[i].plus \in Nat
      BY <2>2
    <3>6. PICK x \in Nat, y \in Nat : x = f[i - 1].first /\ y = f[i].first
      BY <3>5
    <3>7. PICK v \in Nat, w \in Nat : v = f[i - 1].plus /\ w = f[i].plus
      BY <3>5
    <3>8. p <= v /\ v <= w /\ s <= x /\ x <= y
      BY <3>1, <3>2, <3>3, <3>4, <3>6, <3>7
    <3>9. p <= w /\ s <= y
      BY <3>8
    <3>. QED
      BY <3>4, <3>6, <3>7, <3>9
  <2>4. ASSUME f[i].plus # plus PROVE \E k \in 1 .. i : list[k].ip + 1 = f[i].plus
    <3>1. CASE list[i].ip = f[i - 1].plus
      <4>1. i \in 1 .. i /\ list[i].ip + 1 = f[i].plus
        BY <1>1, <2>2, <3>1
      <4>. QED
        BY <4>1
    <3>2. CASE list[i].ip # f[i - 1].plus
      <4>1. PICK k \in 1 .. i - 1 : list[k].ip + 1 = f[i - 1].plus
        BY <2>1, <2>2, <2>4, <3>2
      <4>2. k \in 1 .. i
        BY <1>1
      <4>. QED
        BY <2>2, <3>2, <4>1, <4>2
    <3>. QED
      BY <3>1, <3>2
  <2>5. P(i)
    BY <2>2, <2>3, <2>4
  <2>6. i \in 0 .. n
    BY <1>1
  <2>. HIDE DEF P
  <2>. QED
    BY <2>5, <2>6
<1>4. \A i \in 0 .. n : i \in S
  <2>. HIDE DEF S, n
  <2>1. \A i \in 1 .. n : i - 1 \in S => i \in S
    BY <1>3
  <2>. QED
    BY <1>1, <1>2, <2>1, Upwards
<1>. QED
  BY <1>4

(* As long as it is of the segment it began in, the first address is none  *)
(* that the search has passed.                                             *)
LEMMA WalkPlusFree ==
  ASSUME NEW list \in Seq(LeaseNode), NEW f, Walks(f, list), plus \in Nat, lease.start \in Nat,
         InSequence(list)
  PROVE  \A i \in 0 .. Len(list) : Segment(f[i].plus) = Segment(plus) =>
           \A k \in 1 .. i : list[k].ip # f[i].plus
<1>. DEFINE n == Len(list)
            P(i) == Segment(f[i].plus) = Segment(plus) => \A k \in 1 .. i : list[k].ip # f[i].plus
            S == {i \in 0 .. n : P(i)}
<1>1. n \in Nat
  BY ListDomain
<1>2. 0 \in S
  BY <1>1
<1>3. ASSUME NEW i \in 1 .. n, i - 1 \in S PROVE i \in S
  <2>1. P(i - 1)
    BY <1>3
  <2>. HIDE DEF P
  <2>2. /\ list[i].ip \in Nat /\ f[i - 1].plus \in Nat /\ f[i].plus \in Nat
        /\ f[i].plus = IF list[i].ip = f[i - 1].plus THEN f[i - 1].plus + 1 ELSE f[i - 1].plus
    BY WalkStep
  <2>3. i - 1 \in 0 .. n /\ i \in 0 .. n
    BY <1>1
  <2>4. plus <= f[i - 1].plus
    BY <2>3, WalkUp
  <2>5. ASSUME Segment(f[i].plus) = Segment(plus), NEW k \in 1 .. i PROVE list[k].ip # f[i].plus
    <3>1. Segment(f[i - 1].plus) = Segment(plus)
      BY <2>2, <2>4, <2>5, SegmentBetween
    <3>2. k \in 1 .. n /\ list[k].ip \in Nat
      BY <1>1, NodeFields
    <3>3. CASE k = i
      BY <2>2, <3>3
    <3>4. CASE k # i
      <4>1. k \in 1 .. i - 1 /\ k < i
        BY <1>1, <3>4
      <4>2. list[k].ip # f[i - 1].plus
        BY <2>1, <3>1, <4>1 DEF P
      <4>3. CASE list[i].ip # f[i - 1].plus
        BY <2>2, <4>2, <4>3
      <4>4. CASE list[i].ip = f[i - 1].plus
        <5>1. Less(list[k].ip, list[i].ip)
          BY <3>2, <4>1 DEF InSequence
        <5>2. Less(list[i].ip, f[i].plus)
          BY <2>2, <2>5, <3>1, <4>4, SegmentOrder
        <5>. QED
          BY <2>2, <3>2, <5>1, <5>2, LessOrder
      <4>. QED
        BY <4>3, <4>4
    <3>. QED
      BY <3>3, <3>4
  <2>6. P(i)
    BY <2>5 DEF P
  <2>. QED
    BY <2>3, <2>6
<1>4. \A i \in 0 .. n : i \in S
  <2>. HIDE DEF S, n
  <2>1. \A i \in 1 .. n : i - 1 \in S => i \in S
    BY <1>3
  <2>. QED
    BY <1>1, <1>2, <2>1, Upwards
<1>. QED
  BY <1>4

(* The second one is behind what the search has passed, until it is passed *)
(* over itself, and then before the last.                                  *)
Beside(f, list, i) ==
  IF f[i].past
  THEN /\ 0 < i /\ Less(f[i].first, list[i].ip)
       /\ \A k \in 1 .. i : list[k].ip # f[i].first
  ELSE \A k \in 1 .. i : Less(list[k].ip, f[i].first)

(* As long as it is of the segment of the range, the second address is so. *)
LEMMA WalkFirst ==
  ASSUME NEW list \in Seq(LeaseNode), NEW f, Walks(f, list), plus \in Nat, lease.start \in Nat,
         InSequence(list)
  PROVE  \A i \in 0 .. Len(list) : Segment(f[i].first) = Segment(lease.start) => Beside(f, list, i)
<1>. DEFINE n == Len(list)
            P(i) == Segment(f[i].first) = Segment(lease.start) => Beside(f, list, i)
            S == {i \in 0 .. n : P(i)}
<1>1. n \in Nat
  BY ListDomain
<1>2. 0 \in S
  <2>1. ~f[0].past /\ 0 \in 0 .. n
    BY <1>1 DEF Walks, AtFirst
  <2>2. Beside(f, list, 0)
    BY <2>1 DEF Beside
  <2>. QED
    BY <2>1, <2>2
<1>3. ASSUME NEW i \in 1 .. n, i - 1 \in S PROVE i \in S
  <2>1. P(i - 1)
    BY <1>3
  <2>. HIDE DEF P
  <2>2. /\ list[i].ip \in Nat /\ f[i - 1].first \in Nat /\ f[i].first \in Nat
        /\ f[i].past <=> f[i - 1].past \/ Less(f[i - 1].first, list[i].ip)
        /\ f[i].first = IF f[i].past THEN f[i - 1].first ELSE f[i - 1].first + 1
    BY WalkStep
  <2>3. i - 1 \in 0 .. n /\ i \in 0 .. n /\ 0 < i
    BY <1>1
  <2>4. lease.start <= f[i - 1].first
    BY <2>3, WalkUp
  <2>5. ASSUME Segment(f[i].first) = Segment(lease.start) PROVE Beside(f, list, i)
    <3>1. f[i - 1].first <= f[i].first
      BY <2>2
    <3>2. Segment(f[i - 1].first) = Segment(lease.start)
      BY <2>2, <2>4, <2>5, <3>1, SegmentBetween
    <3>3. Beside(f, list, i - 1)
      BY <2>1, <3>2 DEF P
    <3>4. ASSUME NEW k \in 1 .. i, k # i
          PROVE  k \in 1 .. i - 1 /\ list[k].ip \in Nat /\ Less(list[k].ip, list[i].ip)
      <4>1. k \in 1 .. n /\ k < i /\ k \in 1 .. i - 1
        BY <1>1, <3>4
      <4>. QED
        BY <4>1, NodeFields DEF InSequence
    <3>5. CASE f[i - 1].past
      <4>1. f[i].past /\ f[i].first = f[i - 1].first
        BY <2>2, <3>5
      <4>2. /\ 0 < i - 1 /\ Less(f[i - 1].first, list[i - 1].ip)
            /\ \A k \in 1 .. i - 1 : list[k].ip # f[i - 1].first
        BY <3>3, <3>5 DEF Beside
      <4>3. i - 1 \in 1 .. i /\ i - 1 # i
        BY <1>1, <4>2
      <4>4. list[i - 1].ip \in Nat /\ Less(list[i - 1].ip, list[i].ip)
        BY <3>4, <4>3
      <4>5. Less(f[i].first, list[i].ip)
        BY <2>2, <4>1, <4>2, <4>4, LessOrder
      <4>6. ASSUME NEW k \in 1 .. i PROVE list[k].ip # f[i].first
        BY <2>2, <3>4, <4>1, <4>2, <4>5, LessOrder
      <4>. QED
        BY <2>3, <4>1, <4>5, <4>6 DEF Beside
    <3>6. CASE ~f[i - 1].past /\ Less(f[i - 1].first, list[i].ip)
      <4>1. f[i].past /\ f[i].first = f[i - 1].first
        BY <2>2, <3>6
      <4>2. \A k \in 1 .. i - 1 : Less(list[k].ip, f[i - 1].first)
        BY <3>3, <3>6 DEF Beside
      <4>3. Less(f[i].first, list[i].ip)
        BY <3>6, <4>1
      <4>4. ASSUME NEW k \in 1 .. i PROVE list[k].ip # f[i].first
        BY <2>2, <3>4, <4>1, <4>2, <4>3, LessOrder
      <4>. QED
        BY <2>3, <4>1, <4>3, <4>4 DEF Beside
    <3>7. CASE ~f[i - 1].past /\ ~Less(f[i - 1].first, list[i].ip)
      <4>1. ~f[i].past /\ f[i].first = f[i - 1].first + 1
        BY <2>2, <3>7
      <4>2. \A k \in 1 .. i - 1 : Less(list[k].ip, f[i - 1].first)
        BY <3>3, <3>7 DEF Beside
      <4>3. Less(f[i - 1].first, f[i].first)
        BY <2>2, <2>5, <3>2, <4>1, SegmentOrder
      <4>4. ASSUME NEW k \in 1 .. i PROVE Less(list[k].ip, f[i].first)
        <5>1. CASE k = i
          BY <2>2, <3>7, <4>3, <5>1, LessOrder
        <5>2. CASE k # i
          BY <2>2, <3>4, <4>2, <4>3, <5>2, LessOrder
        <5>. QED
          BY <5>1, <5>2
      <4>. QED
        BY <4>1, <4>4 DEF Beside
    <3>. QED
      BY <3>5, <3>6, <3>7
  <2>6. P(i)
    BY <2>5 DEF P
  <2>. QED
    BY <2>3, <2>6
<1>4. \A i \in 0 .. n : i \in S
  <2>. HIDE DEF S, n
  <2>1. \A i \in 1 .. n : i - 1 \in S => i \in S
    BY <1>3
  <2>. QED
    BY <1>1, <1>2, <2>1, Upwards
<1>. QED
  BY <1>4

(* When the leases are in the range and this does not end its segment, the *)
(* second address is at most the one behind the range, and all before it   *)
(* are leased.                                                             *)
LEMMA WalkWhole ==
  ASSUME NEW list \in Seq(LeaseNode), NEW f, Walks(f, list), plus \in Nat, lease.start \in Nat,
         NEW lo \in Nat, NEW hi \in Nat, lo = lease.start, hi = lease.end, lo <= hi,
         Segment(lo) = Segment(hi), ~EndsSegment(hi), InSequence(list), Within(lease, list)
  PROVE  \A i \in 0 .. Len(list) :
           /\ f[i].first <= hi + 1
           /\ \A a \in lo .. f[i].first - 1 : \E k \in 1 .. i : list[k].ip = a
<1>. DEFINE n == Len(list)
            P(i) == /\ f[i].first <= hi + 1
                    /\ \A a \in lo .. f[i].first - 1 : \E k \in 1 .. i : list[k].ip = a
            S == {i \in 0 .. n : P(i)}
<1>1. n \in Nat
  BY ListDomain
<1>2. 0 \in S
  <2>1. f[0].first = lo /\ 0 \in 0 .. n
    BY <1>1 DEF Walks, AtFirst
  <2>. QED
    BY <2>1
<1>3. ASSUME NEW i \in 1 .. n, i - 1 \in S PROVE i \in S
  <2>1. P(i - 1)
    BY <1>3
  <2>2. i - 1 \in 0 .. n /\ i \in 0 .. n /\ i \in 1 .. i
    BY <1>1
  <2>3. PICK v \in Nat, x \in Nat, y \in Nat : v = list[i].ip /\ x = f[i - 1].first /\ y = f[i].first
    BY WalkStep
  <2>4. /\ f[i].past <=> f[i - 1].past \/ Less(x, v)
        /\ y = IF f[i].past THEN x ELSE x + 1
    BY <2>3, WalkStep
  <2>5. lo <= v /\ v <= hi
    BY <2>3 DEF Within, InRange
  <2>6. x <= hi + 1 /\ \A a \in lo .. x - 1 : \E k \in 1 .. i - 1 : list[k].ip = a
    BY <2>1, <2>3
  <2>7. lo <= x
    <3>1. lease.start <= f[i - 1].first
      BY <2>2, WalkUp
    <3>. QED
      BY <2>3, <3>1
  <2>. HIDE DEF P
  <2>8. CASE f[i].past
    <3>1. ASSUME NEW a \in lo .. y - 1 PROVE \E k \in 1 .. i : list[k].ip = a
      <4>1. PICK k \in 1 .. i - 1 : list[k].ip = a
        BY <2>4, <2>6, <2>8
      <4>2. k \in 1 .. i
        BY <1>1
      <4>. QED
        BY <4>1, <4>2
    <3>2. P(i)
      BY <2>3, <2>4, <2>6, <2>8, <3>1 DEF P
    <3>. QED
      BY <2>2, <3>2
  <2>9. CASE ~f[i].past
    <3>1. ~Less(x, v) /\ y = x + 1
      BY <2>4, <2>9
    <3>2. Segment(hi + 1) = Segment(hi)
      BY SegmentNext
    <3>3. Segment(x) = Segment(lo) /\ Segment(v) = Segment(lo)
      BY <2>5, <2>6, <2>7, <3>2, SegmentBetween
    <3>4. ~(x < v)
      BY <3>1, <3>3, SegmentOrder
    <3>5. ~(v < x)
      <4>1. SUFFICES ASSUME v < x PROVE FALSE
        OBVIOUS
      <4>2. PICK k \in 1 .. i - 1 : list[k].ip = v
        <5>1. v \in lo .. x - 1
          BY <2>5, <4>1
        <5>. QED
          BY <2>6, <5>1
      <4>3. k \in 1 .. n /\ k < i
        BY <1>1
      <4>4. Less(v, v)
        BY <2>3, <4>2, <4>3 DEF InSequence
      <4>. QED
        BY <4>4, LessOrder
    <3>6. v = x
      BY <3>4, <3>5
    <3>7. ASSUME NEW a \in lo .. y - 1 PROVE \E k \in 1 .. i : list[k].ip = a
      <4>1. CASE a = x
        BY <2>2, <2>3, <3>6, <4>1
      <4>2. CASE a # x
        <5>1. PICK k \in 1 .. i - 1 : list[k].ip = a
          BY <2>6, <3>1, <4>2
        <5>2. k \in 1 .. i
          BY <1>1
        <5>. QED
          BY <5>1, <5>2
      <4>. QED
        BY <4>1, <4>2
    <3>8. P(i)
      BY <2>3, <2>5, <3>1, <3>6, <3>7 DEF P
    <3>. QED
      BY <2>2, <3>8
  <2>. QED
    BY <2>8, <2>9
<1>4. \A i \in 0 .. n : i \in S
  <2>. HIDE DEF S, n
  <2>1. \A i \in 1 .. n : i - 1 \in S => i \in S
    BY <1>3
  <2>. QED
    BY <1>1, <1>2, <2>1, Upwards
<1>. QED
  BY <1>4

(* What the search comes to.                                               *)
LEMMA WalkFacts ==
  ASSUME NEW list \in Seq(LeaseNode), plus \in Nat, lease.start \in Nat,
         NEW w, w = Walk(list)
  PROVE  /\ w.plus \in Nat /\ w.first \in Nat
         /\ plus <= w.plus /\ lease.start <= w.first
         /\ w.plus # plus => \E k \in 1 .. Len(list) : list[k].ip + 1 = w.plus
         /\ InSequence(list) =>
              /\ Segment(w.plus) = Segment(plus) => \A k \in 1 .. Len(list) : list[k].ip # w.plus
              /\ Segment(w.first) = Segment(lease.start) => \A k \in 1 .. Len(list) : list[k].ip # w.first
<1>1. AtFirst \in At
  BY DEF AtFirst, At
<1>2. PICK f : Walks(f, list)
  BY <1>1, WalkExists
<1>3. w = f[Len(list)]
  BY <1>2, WalkIs
<1>4. Len(list) \in Nat /\ Len(list) \in 0 .. Len(list)
  BY ListDomain
<1>5. /\ w.plus \in Nat /\ w.first \in Nat
      /\ plus <= w.plus /\ lease.start <= w.first
      /\ w.plus # plus => \E k \in 1 .. Len(list) : list[k].ip + 1 = w.plus
  BY <1>2, <1>3, <1>4, WalkUp
<1>6. ASSUME InSequence(list), Segment(w.plus) = Segment(plus), NEW k \in 1 .. Len(list)
      PROVE  list[k].ip # w.plus
  BY <1>2, <1>3, <1>4, <1>6, WalkPlusFree
<1>7. ASSUME InSequence(list), Segment(w.first) = Segment(lease.start), NEW k \in 1 .. Len(list)
      PROVE  list[k].ip # w.first
  <2>1. Beside(f, list, Len(list))
    BY <1>2, <1>3, <1>4, <1>7, WalkFirst
  <2>2. list[k].ip \in Nat
    BY NodeFields
  <2>. QED
    BY <1>3, <1>5, <2>1, <2>2, LessOrder DEF Beside
<1>. QED
  BY <1>5, <1>6, <1>7

(* The list is as the search relies on; and it is in the range.            *)
RangeOK == lease.start <= lease.end /\ Segment(lease.start) = Segment(lease.end)
Ordered == "spilled" \notin astray => InSequence(plist) /\ Addresses(plist)
Cursor == started /\ astray = {} => plus \in lease.start .. lease.end /\ Within(lease, plist)

Inv ==
  /\ DhcpTypeOK /\ RangeOK
  /\ Apart(plist) /\ (~started => plist = <<>>)
  /\ Ordered /\ Cursor /\ InUseIsLeased

(* The types in the form the lemmas need.                                  *)
LEMMA Typed ==
  ASSUME DhcpTypeOK
  PROVE  /\ plist \in Seq(LeaseNode) /\ plus \in Nat
         /\ lease.start \in Address /\ lease.end \in Address
         /\ lease.start \in Nat /\ lease.end \in Nat
         /\ DOMAIN plist = 1 .. Len(plist) /\ Len(plist) \in Nat
<1>1. plist \in Seq(LeaseNode)
  BY DEF DhcpTypeOK, LeaseNode
<1>2. lease.start \in Address /\ lease.end \in Address /\ plus \in Nat
  BY DEF DhcpTypeOK
<1>3. lease.start \in Nat /\ lease.end \in Nat
  BY <1>2, OctetsNat DEF Address
<1>. QED
  BY <1>1, <1>2, <1>3, ListDomain

(* The nodes that the search passes: all before that of m, or all.         *)
LEMMA PassedNodes ==
  ASSUME DhcpTypeOK, NEW m, NEW list, list = Passed(m)
  PROVE  /\ list \in Seq(LeaseNode) /\ Len(list) <= Len(plist)
         /\ \A k \in 1 .. Len(list) : list[k] = plist[k] /\ k \in 1 .. Len(plist)
         /\ Leased(m) => LeaseOf(m) \in 1 .. Len(plist) /\ Len(list) < LeaseOf(m) /\ plist[LeaseOf(m)].mac = m
         /\ ~Leased(m) => list = plist
         /\ InSequence(plist) => InSequence(list)
<1>1. plist \in Seq(LeaseNode) /\ Len(plist) \in Nat
  BY Typed
<1>2. ASSUME Leased(m)
      PROVE  /\ LeaseOf(m) \in 1 .. Len(plist) /\ plist[LeaseOf(m)].mac = m
             /\ list = SubSeq(plist, 1, LeaseOf(m) - 1)
             /\ list \in Seq(LeaseNode) /\ Len(list) = LeaseOf(m) - 1
             /\ \A k \in 1 .. Len(list) : list[k] = plist[k]
  <2>1. LeaseOf(m) \in 1 .. Len(plist) /\ plist[LeaseOf(m)].mac = m
    BY <1>1, <1>2, NodeOfIs DEF Leased, LeaseOf
  <2>2. list = SubSeq(plist, 1, LeaseOf(m) - 1)
    BY <1>2 DEF Passed
  <2>3. PICK l \in 1 .. Len(plist) : l = LeaseOf(m)
    BY <2>1
  <2>4. /\ SubSeq(plist, 1, l - 1) \in Seq(LeaseNode) /\ Len(SubSeq(plist, 1, l - 1)) = l - 1
        /\ \A k \in 1 .. l - 1 : SubSeq(plist, 1, l - 1)[k] = plist[k]
    BY <1>1, SubSeqProperties
  <2>. QED
    BY <2>1, <2>2, <2>3, <2>4
<1>3. ASSUME ~Leased(m) PROVE list = plist
  BY <1>3 DEF Passed
<1>4. list \in Seq(LeaseNode) /\ Len(list) <= Len(plist) /\ Len(list) \in Nat
  BY <1>1, <1>2, <1>3
<1>5. \A k \in 1 .. Len(list) : list[k] = plist[k] /\ k \in 1 .. Len(plist)
  BY <1>1, <1>2, <1>3, <1>4
<1>6. InSequence(plist) => InSequence(list)
  BY <1>5 DEF InSequence
<1>7. Leased(m) => LeaseOf(m) \in 1 .. Len(plist) /\ Len(list) < LeaseOf(m) /\ plist[LeaseOf(m)].mac = m
  BY <1>1, <1>2
<1>. QED
  BY <1>3, <1>4, <1>5, <1>6, <1>7

(* An address of the range is of its segment.                              *)
LEMMA RangeSegment ==
  ASSUME DhcpTypeOK, RangeOK, NEW a \in Nat, InRange(lease, a)
  PROVE  Segment(a) = Segment(lease.end) /\ Segment(a) = Segment(lease.start)
<1>1. PICK lo \in Nat, hi \in Nat : lo = lease.start /\ hi = lease.end
  BY Typed
<1>2. lo <= a /\ a <= hi /\ Segment(lo) = Segment(hi)
  BY <1>1 DEF RangeOK, InRange
<1>3. Segment(a) = Segment(lo)
  BY <1>2, SegmentBetween
<1>. QED
  BY <1>1, <1>2, <1>3

(* The search comes to addresses.                                          *)
LEMMA SearchTypes ==
  ASSUME DhcpTypeOK, NEW m
  PROVE  Search(m).plus \in Nat /\ Search(m).first \in Nat /\ Chosen(m) \in Nat
<1>1. PICK list : list = Passed(m)
  OBVIOUS
<1>2. list \in Seq(LeaseNode)
  BY <1>1, PassedNodes
<1>3. PICK w : w = Walk(list)
  OBVIOUS
<1>4. w.plus \in Nat /\ w.first \in Nat
  BY <1>2, <1>3, Typed, WalkFacts
<1>5. Search(m) = w
  BY <1>1, <1>3 DEF Search
<1>. QED
  BY <1>4, <1>5 DEF Chosen

(* An address that is given to a station without a lease: while nothing    *)
(* was spilled no one has it, and while nothing is astray it is in the     *)
(* range.                                                                  *)
LEMMA ChosenFresh ==
  ASSUME DhcpTypeOK, RangeOK, Ordered, NEW m, ~Leased(m), "spilled" \notin astray,
         ~LeavesSegment(m, Chosen(m))
  PROVE  Chosen(m) \in Address /\ \A i \in 1 .. Len(plist) : plist[i].ip # Chosen(m)
<1>1. PICK w : w = Walk(plist)
  OBVIOUS
<1>2. Search(m) = w
  BY <1>1, PassedNodes DEF Search
<1>3. InSequence(plist)
  BY DEF Ordered
<1>4. PICK a : a = Chosen(m)
  OBVIOUS
<1>5. Segment(a) = Segment(lease.end) /\ Segment(plus) = Segment(lease.end) /\ Segment(lease.start) = Segment(lease.end)
  BY <1>4 DEF LeavesSegment, RangeOK
<1>6. a = w.plus \/ a = w.first
  BY <1>2, <1>4 DEF Chosen
<1>7. \A i \in 1 .. Len(plist) : plist[i].ip # a
  <2>1. Segment(w.plus) = Segment(plus) => \A i \in 1 .. Len(plist) : plist[i].ip # w.plus
    BY <1>1, <1>3, Typed, WalkFacts
  <2>2. Segment(w.first) = Segment(lease.start) => \A i \in 1 .. Len(plist) : plist[i].ip # w.first
    BY <1>1, <1>3, Typed, WalkFacts
  <2>. QED
    BY <1>5, <1>6, <2>1, <2>2
<1>8. a \in Address
  BY <1>4, <1>5, SearchTypes, Typed, SegmentAddress
<1>. QED
  BY <1>4, <1>7, <1>8

(* The new lease is in the range, and so is the address that is tried      *)
(* next.                                                                   *)
LEMMA ChosenWithin ==
  ASSUME DhcpTypeOK, RangeOK, Cursor, started, astray = {}, NEW m, ~Leased(m),
         ~LeavesSegment(m, Chosen(m)), ~Less(lease.end, Chosen(m))
  PROVE  InRange(lease, Chosen(m)) /\ Given(m).plus \in lease.start .. lease.end
<1>1. PICK w : w = Walk(plist)
  OBVIOUS
<1>2. Search(m) = w
  BY <1>1, PassedNodes DEF Search
<1>3. PICK a \in Nat : a = Chosen(m)
  BY SearchTypes
<1>4. PICK lo \in Nat, hi \in Nat, p \in Nat : lo = lease.start /\ hi = lease.end /\ p = plus
  BY Typed
<1>5. lo <= p /\ lo <= hi
  BY <1>4 DEF Cursor, RangeOK
<1>6. a <= hi
  <2>1. Segment(a) = Segment(hi) /\ ~Less(hi, a)
    BY <1>3, <1>4 DEF LeavesSegment
  <2>2. ~(hi < a)
    BY <2>1, SegmentOrder
  <2>. QED
    BY <2>2
<1>7. lo <= a
  <2>1. PICK x \in Nat, y \in Nat : x = w.plus /\ y = w.first
    BY <1>1, Typed, WalkFacts
  <2>2. plus <= w.plus /\ lease.start <= w.first
    BY <1>1, Typed, WalkFacts
  <2>3. p <= x /\ lo <= y
    BY <1>4, <2>1, <2>2
  <2>4. a = x \/ a = y
    BY <1>2, <1>3, <2>1 DEF Chosen
  <2>. QED
    BY <1>5, <2>3, <2>4
<1>8. Given(m).plus = IF a = hi THEN lo ELSE a + 1
  BY <1>3, <1>4 DEF Given
<1>9. Given(m).plus \in lo .. hi
  BY <1>5, <1>6, <1>7, <1>8
<1>. QED
  BY <1>3, <1>4, <1>6, <1>7, <1>9 DEF InRange

(* The cursor after a search for a station that has a lease.               *)
LEMMA FoundWithin ==
  ASSUME DhcpTypeOK, RangeOK, Ordered, Cursor, started, astray = {}, NEW m, Leased(m)
  PROVE  Search(m).plus \in lease.start .. lease.end
<1>1. PICK list : list = Passed(m)
  OBVIOUS
<1>2. /\ list \in Seq(LeaseNode)
      /\ \A k \in 1 .. Len(list) : list[k] = plist[k] /\ k \in 1 .. Len(plist)
      /\ LeaseOf(m) \in 1 .. Len(plist) /\ Len(list) < LeaseOf(m)
  BY <1>1, PassedNodes
<1>3. PICK w : w = Walk(list)
  OBVIOUS
<1>4. Search(m) = w
  BY <1>1, <1>3 DEF Search
<1>5. PICK lo \in Nat, hi \in Nat, p \in Nat, x \in Nat :
        lo = lease.start /\ hi = lease.end /\ p = plus /\ x = w.plus
  BY <1>2, <1>3, Typed, WalkFacts
<1>6. plus <= w.plus
  BY <1>2, <1>3, Typed, WalkFacts
<1>7. lo <= p /\ p <= hi
  BY <1>5 DEF Cursor
<1>8. x <= hi
  <2>1. CASE x = p
    BY <1>7, <2>1
  <2>2. CASE x # p
    <3>1. PICK k \in 1 .. Len(list) : list[k].ip + 1 = x
      <4>1. w.plus # plus => \E k \in 1 .. Len(list) : list[k].ip + 1 = w.plus
        BY <1>2, <1>3, Typed, WalkFacts
      <4>. QED
        BY <1>5, <2>2, <4>1
    <3>2. PICK l \in 1 .. Len(plist) : l = LeaseOf(m)
      BY <1>2
    <3>3. k \in 1 .. Len(plist) /\ plist[k].ip + 1 = x /\ k < l
      <4>1. Len(list) \in Nat
        BY <1>2, ListDomain
      <4>. QED
        BY <1>2, <3>1, <3>2, <4>1
    <3>4. PICK a \in Nat, b \in Nat : a = plist[k].ip /\ b = plist[l].ip
      BY <3>3, Typed, NodeFields
    <3>5. Less(a, b)
      BY <3>3, <3>4 DEF Ordered, InSequence
    <3>6. InRange(lease, a) /\ InRange(lease, b)
      BY <3>3, <3>4 DEF Cursor, Within
    <3>7. a < b
      <4>1. Segment(a) = Segment(b)
        BY <3>6, RangeSegment
      <4>. QED
        BY <3>5, <4>1, SegmentOrder
    <3>8. b <= hi
      BY <1>5, <3>6 DEF InRange
    <3>9. a + 1 = x
      BY <3>3, <3>4
    <3>. QED
      BY <3>7, <3>8, <3>9
  <2>. QED
    BY <2>1, <2>2
<1>9. lo <= x
  <2>1. p <= x
    BY <1>5, <1>6
  <2>. QED
    BY <1>7, <2>1
<1>10. x \in lo .. hi
  BY <1>8, <1>9
<1>. QED
  BY <1>4, <1>5, <1>10

-----------------------------------------------------------------------------
(* The pool after a message that is answered. *)

Pool(m) == IF Leased(m) THEN Found(m) ELSE Given(m)
Gone(m) == astray \union Astray("spilled", LeavesSegment(m, Pool(m).ip))

(* The pool when the station has a lease: it starts again.                 *)
LEMMA FoundFacts ==
  ASSUME Inv, started, NEW m, Leased(m), NEW pool, pool = Found(m)
  PROVE  /\ pool.plus \in Nat /\ pool.list \in Seq(LeaseNode) /\ pool.ip \in Nat
         /\ m \in Macs(pool.list) /\ Apart(pool.list)
         /\ "spilled" \notin astray => InSequence(pool.list) /\ Addresses(pool.list)
         /\ astray = {} => pool.plus \in lease.start .. lease.end /\ Within(lease, pool.list)
         /\ \A n, a, t : t <= LEASE_TIMER /\ Holds(plist, n, a, t) => Holds(pool.list, n, a, t)
         /\ Holds(pool.list, m, pool.ip, LEASE_TIMER)
<1>1. LeaseOf(m) \in 1 .. Len(plist) /\ plist[LeaseOf(m)].mac = m
  BY PassedNodes DEF Inv
<1>2. PICK l \in 1 .. Len(plist) : l = LeaseOf(m)
  BY <1>1
<1>3. PICK new : new = Refreshed(plist, l)
  OBVIOUS
<1>4. pool.plus = Search(m).plus /\ pool.list = new /\ pool.ip = plist[l].ip
  BY <1>2, <1>3 DEF Found, Refreshed
<1>5. /\ new \in Seq(LeaseNode) /\ Len(new) = Len(plist)
      /\ \A k \in 1 .. Len(plist) : new[k].mac = plist[k].mac
      /\ \E f : Thins(f, new, plist)
      /\ \A n, a, t : t <= LEASE_TIMER /\ Holds(plist, n, a, t) => Holds(new, n, a, t)
      /\ Holds(new, m, plist[l].ip, LEASE_TIMER)
  BY <1>1, <1>2, <1>3, RefreshedThins, Typed DEF Inv
<1>6. pool.plus \in Nat /\ pool.ip \in Nat
  <2>1. plist[l].ip \in Nat
    BY <1>2, Typed, NodeFields DEF Inv
  <2>. QED
    BY <1>4, <2>1, SearchTypes DEF Inv
<1>7. m \in Macs(new)
  <2>1. DOMAIN new = 1 .. Len(plist) /\ new[l].mac = m
    BY <1>1, <1>2, <1>5, ListDomain
  <2>. QED
    BY <2>1 DEF Macs
<1>8. PICK f : Thins(f, new, plist)
  BY <1>5
<1>9. Apart(new) /\ ("spilled" \notin astray => InSequence(new) /\ Addresses(new))
  BY <1>8, ThinnedList DEF Inv, Ordered
<1>10. astray = {} => pool.plus \in lease.start .. lease.end /\ Within(lease, new)
  BY <1>4, <1>8, ThinnedList, FoundWithin DEF Inv, Cursor
<1>. QED
  BY <1>4, <1>5, <1>6, <1>7, <1>9, <1>10

(* The pool when it is given one.                                          *)
LEMMA GivenFacts ==
  ASSUME Inv, started, NEW m \in Station, ~Leased(m), NEW pool, pool = Given(m),
         ~Less(lease.end, pool.ip)
  PROVE  /\ pool.plus \in Nat /\ pool.list \in Seq(LeaseNode) /\ pool.ip \in Nat
         /\ m \in Macs(pool.list) /\ Apart(pool.list)
         /\ "spilled" \notin astray /\ ~LeavesSegment(m, pool.ip) =>
              InSequence(pool.list) /\ Addresses(pool.list)
         /\ astray = {} /\ ~LeavesSegment(m, pool.ip) =>
              pool.plus \in lease.start .. lease.end /\ Within(lease, pool.list)
         /\ \A n, a, t : Holds(plist, n, a, t) => Holds(pool.list, n, a, t)
         /\ Holds(pool.list, m, pool.ip, LEASE_TIMER)
<1>1. PICK a \in Nat : a = Chosen(m)
  BY SearchTypes DEF Inv
<1>2. PICK node : node = NewLease(m, a)
  OBVIOUS
<1>3. node \in LeaseNode /\ node.ip = a /\ node.mac = m /\ node.timer = LEASE_TIMER
  <2>1. LEASE_TIMER \in 1 .. LEASE_TIMER
    BY DhcpAssumption
  <2>. QED
    BY <1>2, <2>1 DEF NewLease, LeaseNode
<1>4. PICK new : new = node_insert_to_list(plist, node)
  OBVIOUS
<1>5. /\ pool.plus = IF a = lease.end THEN lease.start ELSE a + 1
      /\ pool.list = new /\ pool.ip = a
  BY <1>1, <1>2, <1>4 DEF Given
<1>6. plist \in Seq(LeaseNode) /\ lease.start \in Nat /\ lease.end \in Nat
  BY Typed DEF Inv
<1>7. /\ new \in Seq(LeaseNode) /\ m \in Macs(new)
      /\ \A n, b, t : Holds(plist, n, b, t) => Holds(new, n, b, t)
      /\ \A t : LEASE_TIMER >= t => Holds(new, m, a, t)
      /\ Apart(plist) /\ m \notin Macs(plist) => Apart(new)
      /\ \A r : Within(r, plist) /\ InRange(r, a) => Within(r, new)
      /\ Addresses(plist) /\ a \in Address => Addresses(new)
      /\ /\ Addresses(plist) /\ a \in Address /\ InSequence(plist)
         /\ \A i \in 1 .. Len(plist) : plist[i].ip # a
         => InSequence(new)
  BY <1>3, <1>4, <1>6, InsertedList
<1>8. Apart(new)
  BY <1>7 DEF Inv, Leased
<1>9. Holds(new, m, a, LEASE_TIMER)
  <2>1. LEASE_TIMER >= LEASE_TIMER
    BY DhcpAssumption
  <2>. QED
    BY <1>7, <2>1
<1>10. pool.plus \in Nat
  BY <1>5, <1>6
<1>11. ASSUME "spilled" \notin astray, ~LeavesSegment(m, a) PROVE InSequence(new) /\ Addresses(new)
  <2>1. a \in Address /\ \A i \in 1 .. Len(plist) : plist[i].ip # a
    BY <1>1, <1>11, ChosenFresh DEF Inv
  <2>2. InSequence(plist) /\ Addresses(plist)
    BY <1>11 DEF Inv, Ordered
  <2>. QED
    BY <1>7, <2>1, <2>2
<1>12. ASSUME astray = {}, ~LeavesSegment(m, a)
       PROVE  pool.plus \in lease.start .. lease.end /\ Within(lease, new)
  <2>1. InRange(lease, a) /\ Given(m).plus \in lease.start .. lease.end
    BY <1>1, <1>5, <1>12, ChosenWithin DEF Inv
  <2>2. Within(lease, plist)
    BY <1>12 DEF Inv, Cursor
  <2>. QED
    BY <1>7, <2>1, <2>2
<1>. QED
  BY <1>5, <1>7, <1>8, <1>9, <1>10, <1>11, <1>12

(* Either way the list is as it has to be, nobody loses a lease, and the   *)
(* station has its own for the whole time.                                 *)
LEMMA PoolFacts ==
  ASSUME Inv, started, NEW m \in Station, NEW pool, pool = Pool(m), ~Less(lease.end, pool.ip)
  PROVE  /\ pool.plus \in Nat /\ pool.list \in Seq(LeaseNode) /\ pool.ip \in Nat
         /\ m \in Macs(pool.list) /\ Apart(pool.list)
         /\ "spilled" \notin Gone(m) => InSequence(pool.list) /\ Addresses(pool.list)
         /\ Gone(m) = {} => pool.plus \in lease.start .. lease.end /\ Within(lease, pool.list)
         /\ \A n, a, t : t <= LEASE_TIMER /\ Holds(plist, n, a, t) => Holds(pool.list, n, a, t)
         /\ Holds(pool.list, m, pool.ip, LEASE_TIMER)
<1>1. "spilled" \notin Gone(m) => "spilled" \notin astray /\ ~LeavesSegment(m, pool.ip)
  BY DEF Gone, Astray
<1>2. Gone(m) = {} => astray = {} /\ ~LeavesSegment(m, pool.ip)
  BY DEF Gone, Astray
<1>3. CASE Leased(m)
  <2>1. pool = Found(m)
    BY <1>3 DEF Pool
  <2>. QED
    BY <1>1, <1>2, <1>3, <2>1, FoundFacts
<1>4. CASE ~Leased(m)
  <2>1. pool = Given(m)
    BY <1>4 DEF Pool
  <2>. QED
    BY <1>1, <1>2, <1>4, <2>1, GivenFacts
<1>. QED
  BY <1>3, <1>4

-----------------------------------------------------------------------------
(* The list after a minute. *)

(* A node whose minutes are over is left out, another has one less.        *)
LEMMA AgesFacts ==
  ASSUME NEW list \in Seq(LeaseNode), NEW node \in LeaseNode
  PROVE  /\ Ages(list, node) \in Seq(LeaseNode)
         /\ node.timer <= 1 => Ages(list, node) = list
         /\ node.timer > 1 => \E new \in LeaseNode :
              /\ Ages(list, node) = Append(list, new)
              /\ new.ip = node.ip /\ new.mac = node.mac /\ new.timer = node.timer - 1
<1>1. node.timer \in 1 .. LEASE_TIMER /\ LEASE_TIMER \in Nat
  BY DhcpAssumption DEF LeaseNode
<1>2. PICK t \in 0 .. LEASE_TIMER : t = node.timer - 1
  BY <1>1
<1>3. Lowered(node) = [node EXCEPT !.timer = t]
  BY <1>2 DEF Lowered
<1>4. [node EXCEPT !.timer = t].timer = t
  BY DEF LeaseNode
<1>5. CASE t = 0
  <2>1. Ages(list, node) = list
    BY <1>3, <1>4, <1>5 DEF Ages
  <2>2. ~(node.timer > 1)
    BY <1>1, <1>2, <1>5
  <2>. QED
    BY <2>1, <2>2
<1>6. CASE t # 0
  <2>1. t \in 1 .. LEASE_TIMER
    BY <1>1, <1>6
  <2>2. PICK new : new = [node EXCEPT !.timer = t]
    OBVIOUS
  <2>3. new \in LeaseNode /\ new.ip = node.ip /\ new.mac = node.mac /\ new.timer = t
    BY <2>1, <2>2, TimedNode
  <2>4. Ages(list, node) = Append(list, new)
    BY <1>3, <1>4, <1>6, <2>2 DEF Ages
  <2>5. Append(list, new) \in Seq(LeaseNode)
    BY <2>3, AppendProperties
  <2>6. ~(node.timer <= 1)
    BY <1>1, <1>2, <1>6
  <2>. QED
    BY <1>2, <2>3, <2>4, <2>5, <2>6
<1>. QED
  BY <1>5, <1>6

(* The list at each node that dhcps_coarse_tmr has looked at.              *)
Minutes(g, list) ==
  /\ g \in [0 .. Len(list) -> Seq(LeaseNode)] /\ g[0] = <<>>
  /\ \A i \in 1 .. Len(list) : g[i] = Ages(g[i - 1], list[i])

(* There are such lists.                                                   *)
LEMMA MinutesExist ==
  ASSUME NEW list \in Seq(LeaseNode)
  PROVE  \E g : Minutes(g, list)
<1>. DEFINE n == Len(list)
            R == [x \in (1 .. n) \X Seq(LeaseNode) |-> Ages(x[2], list[x[1]])]
<1>1. n \in Nat /\ <<>> \in Seq(LeaseNode)
  BY ListDomain, EmptySeq
<1>2. R \in [(1 .. n) \X Seq(LeaseNode) -> Seq(LeaseNode)]
  BY AgesFacts, NodeFields
<1>3. \A i \in 1 .. n, t \in Seq(LeaseNode) : R[<<i, t>>] = Ages(t, list[i])
  OBVIOUS
<1>. HIDE DEF R, n
<1>4. PICK f : Traces(f, n, Seq(LeaseNode), <<>>, R)
  BY <1>1, <1>2, TraceExists
<1>5. f \in [0 .. n -> Seq(LeaseNode)] /\ f[0] = <<>> /\ \A i \in 1 .. n : f[i] = R[<<i, f[i - 1]>>]
  BY <1>4 DEF Traces
<1>6. \A i \in 1 .. n : f[i - 1] \in Seq(LeaseNode)
  BY <1>1, <1>5
<1>7. Minutes(f, list)
  BY <1>3, <1>5, <1>6 DEF Minutes, n
<1>. QED
  BY <1>7

(* The last of them is what Aged says.                                     *)
LEMMA AgedIs ==
  ASSUME plist \in Seq(LeaseNode), NEW g, Minutes(g, plist)
  PROVE  Aged = g[Len(plist)]
<1>. DEFINE n == Len(plist)
            list == CHOOSE h : h = [i \in 0 .. n |-> IF i = 0 THEN <<>> ELSE Ages(h[i - 1], plist[i])]
<1>1. n \in Nat
  BY ListDomain
<1>2. g = [i \in 0 .. n |-> IF i = 0 THEN <<>> ELSE Ages(g[i - 1], plist[i])]
  <2>1. \A i \in 0 .. n : g[i] = IF i = 0 THEN <<>> ELSE Ages(g[i - 1], plist[i])
    BY <1>1 DEF Minutes
  <2>2. g = [i \in 0 .. n |-> g[i]]
    BY DEF Minutes
  <2>. HIDE DEF n
  <2>. QED
    BY <2>1, <2>2
<1>3. list = [i \in 0 .. n |-> IF i = 0 THEN <<>> ELSE Ages(list[i - 1], plist[i])]
  <2>. HIDE DEF n
  <2>. QED
    BY <1>2, Zenon
<1>4. Aged = list[n]
  BY Zenon DEF Aged
<1>. HIDE DEF list
<1>. DEFINE S == {i \in 0 .. n : list[i] = g[i]}
<1>5. 0 \in S
  BY <1>1, <1>3 DEF Minutes
<1>6. ASSUME NEW i \in 1 .. n, i - 1 \in S PROVE i \in S
  <2>1. g[i] = Ages(g[i - 1], plist[i])
    BY DEF Minutes
  <2>2. i \in 0 .. n /\ i # 0
    BY <1>1
  <2>3. list[i] = Ages(list[i - 1], plist[i])
    <3>. HIDE DEF n
    <3>. QED
      BY <1>3, <2>2
  <2>. QED
    BY <1>6, <2>1, <2>2, <2>3
<1>7. n \in S
  <2>. HIDE DEF S, n
  <2>1. \A i \in 1 .. n : i - 1 \in S => i \in S
    BY <1>6
  <2>2. \A i \in 0 .. n : i \in S
    BY <1>1, <1>5, <2>1, Upwards
  <2>. QED
    BY <1>1, <2>2
<1>. QED
  BY <1>4, <1>7

(* The nodes of new are of the first i nodes of list, in their order.      *)
Draws(f, new, list, i) ==
  /\ f \in [1 .. Len(new) -> 1 .. i]
  /\ \A j, k \in 1 .. Len(new) : j < k => f[j] < f[k]
  /\ \A j \in 1 .. Len(new) : new[j].ip = list[f[j]].ip /\ new[j].mac = list[f[j]].mac

(* One more node is taken over.                                            *)
LEMMA DrawsOne ==
  ASSUME NEW list \in Seq(LeaseNode), NEW i \in 1 .. Len(list), NEW old \in Seq(LeaseNode),
         NEW f, Draws(f, old, list, i - 1), NEW node \in LeaseNode,
         node.ip = list[i].ip, node.mac = list[i].mac
  PROVE  \E h : Draws(h, Append(old, node), list, i)
<1>1. PICK new : new = Append(old, node)
  OBVIOUS
<1>2. PICK l \in Nat : l = Len(old)
  BY ListDomain
<1>3. Len(new) = l + 1 /\ new[l + 1] = node /\ \A j \in 1 .. l : new[j] = old[j]
  BY <1>1, <1>2, AppendProperties
<1>. DEFINE h == [j \in 1 .. l + 1 |-> IF j = l + 1 THEN i ELSE f[j]]
<1>4. i \in 1 .. i /\ \A j \in 1 .. l : f[j] \in 1 .. i - 1 /\ f[j] \in 1 .. i /\ f[j] < i
  BY <1>2, ListDomain DEF Draws
<1>5. h \in [1 .. l + 1 -> 1 .. i]
  BY <1>2, <1>4
<1>6. ASSUME NEW j \in 1 .. l + 1, NEW k \in 1 .. l + 1, j < k PROVE h[j] < h[k]
  <2>1. j \in 1 .. l /\ h[j] = f[j]
    BY <1>2, <1>6
  <2>2. CASE k = l + 1
    BY <1>4, <2>1, <2>2
  <2>3. CASE k # l + 1
    <3>1. k \in 1 .. l /\ h[k] = f[k]
      <4>1. k \in 1 .. l
        BY <2>3
      <4>. QED
        BY <2>3, <4>1
    <3>. QED
      BY <1>2, <1>6, <2>1, <3>1 DEF Draws
  <2>. QED
    BY <2>2, <2>3
<1>7. ASSUME NEW j \in 1 .. l + 1 PROVE new[j].ip = list[h[j]].ip /\ new[j].mac = list[h[j]].mac
  <2>1. CASE j = l + 1
    BY <1>3, <2>1
  <2>2. CASE j # l + 1
    <3>1. j \in 1 .. l /\ h[j] = f[j]
      <4>1. j \in 1 .. l
        BY <2>2
      <4>. QED
        BY <2>2, <4>1
    <3>. QED
      BY <1>2, <1>3, <3>1 DEF Draws
  <2>. QED
    BY <2>1, <2>2
<1>8. Draws(h, new, list, i)
  <2>. HIDE DEF h
  <2>. QED
    BY <1>3, <1>5, <1>6, <1>7 DEF Draws
<1>. HIDE DEF h
<1>. QED
  BY <1>1, <1>8

(* A list keeps its leases when one is appended.                           *)
LEMMA HoldsAppended ==
  ASSUME NEW list \in Seq(LeaseNode), NEW node \in LeaseNode
  PROVE  /\ \A m, a, t : Holds(list, m, a, t) => Holds(Append(list, node), m, a, t)
         /\ Holds(Append(list, node), node.mac, node.ip, node.timer)
<1>1. PICK new : new = Append(list, node)
  OBVIOUS
<1>2. PICK l \in Nat : l = Len(list)
  BY ListDomain
<1>3. Len(new) = l + 1 /\ new[l + 1] = node /\ \A j \in 1 .. l : new[j] = list[j]
  BY <1>1, <1>2, AppendProperties
<1>4. ASSUME NEW m, NEW a, NEW t, Holds(list, m, a, t) PROVE Holds(new, m, a, t)
  <2>1. PICK j \in 1 .. l : list[j].mac = m /\ list[j].ip = a /\ list[j].timer >= t
    BY <1>2, <1>4 DEF Holds
  <2>2. j \in 1 .. l + 1
    BY <1>2
  <2>. QED
    BY <1>3, <2>1, <2>2 DEF Holds
<1>5. Holds(new, node.mac, node.ip, node.timer)
  <2>1. l + 1 \in 1 .. l + 1 /\ node.timer >= node.timer
    BY <1>2, DhcpAssumption DEF LeaseNode
  <2>. QED
    BY <1>3, <2>1 DEF Holds
<1>. QED
  BY <1>1, <1>4, <1>5

(* The list has the nodes whose minutes are not over, with one minute less.*)
LEMMA AgedFacts ==
  ASSUME plist \in Seq(LeaseNode)
  PROVE  /\ Aged \in Seq(LeaseNode)
         /\ \E f : Thins(f, Aged, plist)
         /\ \A j \in 1 .. Len(plist) : plist[j].timer > 1 =>
              Holds(Aged, plist[j].mac, plist[j].ip, plist[j].timer - 1)
<1>. DEFINE n == Len(plist)
<1>1. n \in Nat
  BY ListDomain
<1>2. PICK g : Minutes(g, plist)
  BY MinutesExist
<1>. DEFINE P(i) == /\ g[i] \in Seq(LeaseNode)
                    /\ \E f : Draws(f, g[i], plist, i)
                    /\ \A j \in 1 .. i : plist[j].timer > 1 =>
                         Holds(g[i], plist[j].mac, plist[j].ip, plist[j].timer - 1)
            S == {i \in 0 .. n : P(i)}
<1>3. 0 \in S
  <2>1. g[0] = <<>> /\ g[0] \in Seq(LeaseNode) /\ Len(g[0]) = 0
    BY <1>2, EmptySeq DEF Minutes
  <2>2. Draws([j \in 1 .. 0 |-> j], g[0], plist, 0)
    BY <2>1 DEF Draws
  <2>3. P(0)
    BY <2>1, <2>2
  <2>4. 0 \in 0 .. n
    BY <1>1
  <2>. HIDE DEF P
  <2>. QED
    BY <2>3, <2>4
<1>4. ASSUME NEW i \in 1 .. n, i - 1 \in S PROVE i \in S
  <2>1. /\ g[i - 1] \in Seq(LeaseNode)
        /\ \A j \in 1 .. i - 1 : plist[j].timer > 1 =>
             Holds(g[i - 1], plist[j].mac, plist[j].ip, plist[j].timer - 1)
    BY <1>4
  <2>2. PICK f : Draws(f, g[i - 1], plist, i - 1)
    BY <1>4
  <2>. HIDE DEF P
  <2>3. i \in 0 .. n
    BY <1>1
  <2>4. g[i] = Ages(g[i - 1], plist[i])
    BY <1>2 DEF Minutes
  <2>5. plist[i] \in LeaseNode /\ plist[i].timer \in 1 .. LEASE_TIMER
    BY NodeFields
  <2>6. g[i] \in Seq(LeaseNode)
    BY <2>1, <2>4, <2>5, AgesFacts
  <2>7. CASE plist[i].timer <= 1
    <3>1. g[i] = g[i - 1]
      BY <2>1, <2>4, <2>5, <2>7, AgesFacts
    <3>2. Draws(f, g[i], plist, i)
      <4>1. 1 .. i - 1 \subseteq 1 .. i
        BY <1>1
      <4>. QED
        BY <2>2, <3>1, <4>1 DEF Draws
    <3>3. ASSUME NEW j \in 1 .. i, plist[j].timer > 1
          PROVE  Holds(g[i], plist[j].mac, plist[j].ip, plist[j].timer - 1)
      <4>1. ~(plist[i].timer > 1)
        BY <2>5, <2>7, DhcpAssumption
      <4>2. j \in 1 .. i - 1
        BY <1>1, <3>3, <4>1
      <4>. QED
        BY <2>1, <3>1, <3>3, <4>2
    <3>4. P(i)
      BY <2>6, <3>2, <3>3 DEF P
    <3>. QED
      BY <2>3, <3>4
  <2>8. CASE plist[i].timer > 1
    <3>1. PICK new \in LeaseNode :
            /\ g[i] = Append(g[i - 1], new)
            /\ new.ip = plist[i].ip /\ new.mac = plist[i].mac /\ new.timer = plist[i].timer - 1
      <4>1. PICK old \in Seq(LeaseNode), node \in LeaseNode : old = g[i - 1] /\ node = plist[i]
        BY <2>1, <2>5
      <4>2. PICK new \in LeaseNode :
              /\ Ages(old, node) = Append(old, new)
              /\ new.ip = node.ip /\ new.mac = node.mac /\ new.timer = node.timer - 1
        BY <2>8, <4>1, AgesFacts
      <4>. QED
        BY <2>4, <4>1, <4>2
    <3>2. \E h : Draws(h, g[i], plist, i)
      BY <2>1, <2>2, <3>1, DrawsOne
    <3>3. ASSUME NEW j \in 1 .. i, plist[j].timer > 1
          PROVE  Holds(g[i], plist[j].mac, plist[j].ip, plist[j].timer - 1)
      <4>1. CASE j = i
        BY <2>1, <3>1, <4>1, HoldsAppended
      <4>2. CASE j # i
        <5>1. j \in 1 .. i - 1
          BY <1>1, <4>2
        <5>. QED
          BY <2>1, <3>1, <3>3, <5>1, HoldsAppended
      <4>. QED
        BY <4>1, <4>2
    <3>4. P(i)
      BY <2>6, <3>2, <3>3 DEF P
    <3>. QED
      BY <2>3, <3>4
  <2>. QED
    BY <2>5, <2>7, <2>8, DhcpAssumption
<1>5. n \in S
  <2>. HIDE DEF S, n
  <2>1. \A i \in 1 .. n : i - 1 \in S => i \in S
    BY <1>4
  <2>2. \A i \in 0 .. n : i \in S
    BY <1>1, <1>3, <2>1, Upwards
  <2>. QED
    BY <1>1, <2>2
<1>6. P(n)
  BY <1>5
<1>. HIDE DEF P
<1>7. Aged = g[n]
  BY <1>2, AgedIs
<1>8. PICK f : Draws(f, g[n], plist, n)
  BY <1>6 DEF P
<1>9. Thins(f, Aged, plist)
  BY <1>7, <1>8 DEF Draws, Thins
<1>. QED
  BY <1>6, <1>7, <1>9 DEF P

(* There is an oldest node behind the first.                               *)
LEMMA OldestIs ==
  ASSUME NEW list \in Seq(LeaseNode), Len(list) > 1
  PROVE  Oldest(list) \in 1 .. Len(list)
<1>1. PICK n \in Nat : n = Len(list)
  BY ListDomain
<1>2. \A i \in 2 .. n : i \in 1 .. n /\ list[i].timer \in Nat
  BY <1>1, NodeFields, DhcpAssumption
<1>3. PICK T : T = {list[i].timer : i \in 2 .. n}
  OBVIOUS
<1>4. T \in SUBSET Nat /\ list[2].timer \in T
  BY <1>1, <1>2, <1>3
<1>5. PICK t \in T : \A u \in T : t <= u
  BY <1>4, LeastOf
<1>6. PICK I : I = {i \in 2 .. n : list[i].timer = t}
  OBVIOUS
<1>7. I \in SUBSET Nat /\ I # {}
  BY <1>3, <1>5, <1>6
<1>8. PICK i \in I : \A j \in I : i <= j
  BY <1>7, LeastOf
<1>9. i \in 2 .. n /\ list[i].timer = t /\ t \in Nat
  BY <1>4, <1>5, <1>6, <1>8
<1>10. ASSUME NEW j \in 2 .. n
       PROVE  IF j < i THEN list[i].timer < list[j].timer ELSE list[i].timer <= list[j].timer
  <2>1. list[j].timer \in Nat /\ t <= list[j].timer
    BY <1>2, <1>3, <1>5
  <2>2. j < i => list[j].timer # t
    BY <1>6, <1>8, <1>9
  <2>. QED
    BY <1>9, <2>1, <2>2
<1>11. Oldest(list) \in 2 .. n
  <2>1. \E x \in 2 .. n : \A j \in 2 .. n :
          IF j < x THEN list[x].timer < list[j].timer ELSE list[x].timer <= list[j].timer
    BY <1>9, <1>10
  <2>. QED
    BY <1>1, <2>1 DEF Oldest
<1>. QED
  BY <1>1, <1>11

-----------------------------------------------------------------------------
(* The steps. *)

(* The times of the stations, and what each may count on.                  *)
TimesOK ==
  left \in [Station -> 0 .. LEASE_TIMER] /\ due \subseteq {m \in Station : left[m] > 0}
Kept == [m \in Station |-> Sure(m)]

LEMMA KeptTime ==
  ASSUME TimesOK
  PROVE  Kept \in [Station -> 0 .. LEASE_TIMER]
<1>1. ASSUME NEW m \in Station PROVE Sure(m) \in 0 .. LEASE_TIMER
  <2>1. left[m] \in 0 .. LEASE_TIMER /\ (m \in due => left[m] > 0) /\ LEASE_TIMER \in Nat
    BY DhcpAssumption DEF TimesOK
  <2>. QED
    BY <2>1 DEF Sure
<1>. QED
  BY <1>1 DEF Kept

(* Stations that keep to their time hold what is leased to them.           *)
InUse(h, l, b, list) ==
  \A m \in Station : h[m] # NoIp /\ l[m] > 0 /\ m \notin b => Holds(list, m, h[m], l[m])

(* The property in the words of the lemmas.                                *)
LEMMA InUseNow ==
  ASSUME plist \in Seq(LeaseNode), InUseIsLeased
  PROVE  InUse(held, Kept, bereft, plist)
BY ListDomain DEF InUseIsLeased, InUse, Holds, Kept

(* And after a step.                                                       *)
LEMMA InUseNext ==
  ASSUME plist' \in Seq(LeaseNode), InUse(held', Kept', bereft', plist')
  PROVE  InUseIsLeased'
<1>1. DOMAIN plist' = 1 .. Len(plist')
  BY ListDomain
<1>. QED
  BY <1>1 DEF InUseIsLeased, InUse, Holds, Kept

(* What is to be shown of a step that does not configure the server.       *)
LEMMA InvNext ==
  ASSUME Inv, UNCHANGED <<started, lease, settings>>,
         astray' \subseteq {"moved", "spilled"},
         plus' \in Nat, plist' \in Seq(LeaseNode), Apart(plist'), ~started => plist' = <<>>,
         "spilled" \notin astray' => InSequence(plist') /\ Addresses(plist'),
         started /\ astray' = {} => plus' \in lease.start .. lease.end /\ Within(lease, plist'),
         held' \in [Station -> Nat \union {NoIp}], TimesOK',
         bereft' \subseteq Station, InUse(held', Kept', bereft', plist')
  PROVE  Inv'
<1>1. started' = started /\ lease' = lease /\ settings' = settings
  OBVIOUS
<1>2. DhcpTypeOK'
  <2>1. plist' \in Seq([ip : Nat, mac : Station, timer : 1 .. LEASE_TIMER])
    BY DEF LeaseNode
  <2>. QED
    BY <1>1, <2>1 DEF Inv, DhcpTypeOK, TimesOK
<1>3. RangeOK' /\ Apart(plist)' /\ (~started => plist = <<>>)'
  BY <1>1 DEF Inv, RangeOK, Apart
<1>4. Ordered' /\ Cursor'
  BY <1>1 DEF Ordered, Cursor, InSequence, Addresses, Within
<1>5. InUseIsLeased'
  BY InUseNext
<1>. QED
  BY <1>2, <1>3, <1>4, <1>5 DEF Inv

(* What a station learns.                                                  *)
LEMMA LearnsFacts ==
  ASSUME DhcpTypeOK, NEW m \in Station, NEW msg, NEW answer, NEW a \in Nat \union {NoIp},
         Learns(m, msg, answer, a)
  PROVE  /\ held' \in [Station -> Nat \union {NoIp}] /\ TimesOK'
         /\ \A n \in Station : n # m => held'[n] = held[n] /\ Kept'[n] = Kept[n]
         /\ held'[m] # NoIp =>
              /\ answer = "ack" => held'[m] = a /\ Kept'[m] = LEASE_TIMER
              /\ answer # "ack" => held'[m] = held[m] /\ Kept'[m] = Kept[m]
         /\ msg.type = "release" => held'[m] = NoIp
<1>. DEFINE leaves == msg.type \in {"release", "decline"} \/ answer = "nak"
<1>1. PICK h \in Nat \union {NoIp} :
        h = IF leaves THEN NoIp ELSE IF answer = "ack" THEN a ELSE held[m]
  BY DEF DhcpTypeOK
<1>2. PICK l \in 0 .. LEASE_TIMER :
        l = IF leaves THEN 0 ELSE IF answer = "ack" THEN LEASE_TIMER ELSE left[m]
  BY DhcpAssumption DEF DhcpTypeOK
<1>3. /\ held' = [held EXCEPT ![m] = h] /\ left' = [left EXCEPT ![m] = l]
      /\ due' = IF leaves \/ answer = "ack" THEN due \ {m} ELSE due
  BY <1>1, <1>2 DEF Learns
<1>4. held \in [Station -> Nat \union {NoIp}] /\ TimesOK
  BY DEF DhcpTypeOK, TimesOK
<1>5. held' \in [Station -> Nat \union {NoIp}] /\ left' \in [Station -> 0 .. LEASE_TIMER]
  BY <1>3, <1>4 DEF TimesOK
<1>6. held'[m] = h /\ left'[m] = l /\ \A n \in Station : n # m => held'[n] = held[n] /\ left'[n] = left[n]
  BY <1>3, <1>4 DEF TimesOK
<1>7. /\ h # NoIp => ~leaves
      /\ msg.type = "release" => leaves
  BY <1>1
<1>8. ASSUME h # NoIp
      PROVE  /\ answer = "ack" => h = a /\ l = LEASE_TIMER /\ m \notin due'
             /\ answer # "ack" => h = held[m] /\ l = left[m] /\ due' = due
  BY <1>1, <1>2, <1>3, <1>7, <1>8
<1>9. msg.type = "release" => h = NoIp
  BY <1>7
<1>10. \A n \in Station : n # m => (n \in due' <=> n \in due)
  BY <1>3
<1>11. TimesOK'
  <2>1. due' \subseteq due /\ (m \in due' => l = left[m])
    BY <1>2, <1>3
  <2>. QED
    BY <1>4, <1>5, <1>6, <2>1 DEF TimesOK
<1>12. ASSUME NEW n \in Station, n # m PROVE Kept'[n] = Kept[n]
  BY <1>6, <1>10, <1>12 DEF Kept, Sure
<1>13. /\ m \notin due' => Kept'[m] = l
       /\ due' = due /\ l = left[m] => Kept'[m] = Kept[m]
  BY <1>6 DEF Kept, Sure
<1>. QED
  BY <1>5, <1>6, <1>8, <1>9, <1>11, <1>12, <1>13

(* The pool is exhausted: the search begins at the start of the range      *)
(* again.                                                                  *)
LEMMA RefusesStep ==
  ASSUME Inv, started, NEW m \in Station, NEW msg, RefusesLease(m, msg),
         UNCHANGED <<started, lease, settings>>
  PROVE  Inv'
<1>1. /\ plus' = lease.start /\ plist' = plist /\ bereft' = bereft /\ astray' = astray
      /\ plist \in Seq(LeaseNode) /\ lease.start \in Nat /\ lease.end \in Nat
  BY Typed DEF RefusesLease, Inv
<1>2. PICK answer \in {"nak", "none"} : Learns(m, msg, answer, NoIp)
  BY DEF RefusesLease
<1>3. /\ held' \in [Station -> Nat \union {NoIp}] /\ TimesOK'
      /\ \A n \in Station : n # m => held'[n] = held[n] /\ Kept'[n] = Kept[n]
      /\ held'[m] # NoIp => held'[m] = held[m] /\ Kept'[m] = Kept[m]
  BY <1>2, LearnsFacts DEF Inv
<1>4. InUse(held', Kept', bereft', plist')
  <2>1. InUse(held, Kept, bereft, plist)
    BY <1>1, InUseNow DEF Inv
  <2>2. \A n \in Station : held'[n] # NoIp => held'[n] = held[n] /\ Kept'[n] = Kept[n]
    BY <1>3
  <2>. QED
    BY <1>1, <2>1, <2>2 DEF InUse
<1>5. plus' \in lease.start .. lease.end
  BY <1>1 DEF Inv, RangeOK
<1>6. /\ astray' \subseteq {"moved", "spilled"} /\ bereft' \subseteq Station
      /\ Apart(plist') /\ (~started => plist' = <<>>)
      /\ "spilled" \notin astray' => InSequence(plist') /\ Addresses(plist')
      /\ started /\ astray' = {} => Within(lease, plist')
  BY <1>1 DEF Inv, DhcpTypeOK, Ordered, Cursor
<1>. QED
  BY <1>1, <1>3, <1>4, <1>5, <1>6, InvNext

(* A lease behind the end of the range is withdrawn; this happens only     *)
(* after the range was moved.                                              *)
LEMMA WithdrawsStep ==
  ASSUME Inv, started, NEW m \in Station, NEW msg, Withdraws(m, msg),
         UNCHANGED <<started, lease, settings>>
  PROVE  Inv'
<1>1. /\ Leased(m) /\ Less(lease.end, plist[LeaseOf(m)].ip)
      /\ plus' = Search(m).plus /\ plist' = Without(plist, m) /\ astray' = astray
  BY DEF Withdraws, Found
<1>2. plist \in Seq(LeaseNode) /\ lease.start \in Nat /\ lease.end \in Nat
  BY Typed DEF Inv
<1>3. PICK l \in 1 .. Len(plist) : l = LeaseOf(m) /\ plist[l].mac = m
  BY <1>1, PassedNodes DEF Inv
<1>4. plist' = RemoveAt(plist, l)
  BY <1>1, <1>3 DEF Without, LeaseOf
<1>5. /\ plist' \in Seq(LeaseNode)
      /\ \E f : Thins(f, plist', plist)
      /\ \A n, a, t : n # m /\ Holds(plist, n, a, t) => Holds(plist', n, a, t)
  BY <1>2, <1>3, <1>4, RemovedThins
<1>6. PICK answer \in {"nak", "none"} : Learns(m, msg, answer, NoIp)
  BY DEF Withdraws
<1>7. /\ held' \in [Station -> Nat \union {NoIp}] /\ TimesOK'
      /\ \A n \in Station : n # m => held'[n] = held[n] /\ Kept'[n] = Kept[n]
  BY <1>6, LearnsFacts DEF Inv
<1>8. bereft' = IF held'[m] = NoIp THEN bereft \ {m} ELSE bereft \union {m}
  BY DEF Withdraws
<1>9. InUse(held', Kept', bereft', plist')
  <2>1. InUse(held, Kept, bereft, plist)
    BY <1>2, InUseNow DEF Inv
  <2>2. ASSUME NEW n \in Station, held'[n] # NoIp, Kept'[n] > 0, n \notin bereft'
        PROVE  Holds(plist', n, held'[n], Kept'[n])
    <3>1. n # m
      BY <1>8, <2>2
    <3>2. held'[n] = held[n] /\ Kept'[n] = Kept[n] /\ n \notin bereft
      BY <1>7, <1>8, <2>2, <3>1
    <3>3. Holds(plist, n, held[n], Kept[n])
      BY <2>1, <2>2, <3>2 DEF InUse
    <3>. QED
      BY <1>5, <3>1, <3>2, <3>3
  <2>. QED
    BY <2>2 DEF InUse
<1>10. astray # {}
  <2>1. SUFFICES ASSUME astray = {} PROVE FALSE
    OBVIOUS
  <2>2. PICK a \in Nat, hi \in Nat : a = plist[l].ip /\ hi = lease.end
    BY <1>2, NodeFields
  <2>3. InRange(lease, a)
    BY <2>1, <2>2 DEF Inv, Cursor, Within
  <2>4. Segment(a) = Segment(hi) /\ a <= hi
    BY <2>2, <2>3, RangeSegment DEF Inv, InRange
  <2>5. hi < a
    BY <1>1, <1>3, <2>2, <2>4, SegmentOrder
  <2>. QED
    BY <2>4, <2>5
<1>11. PICK f : Thins(f, plist', plist)
  BY <1>5
<1>12. Apart(plist') /\ ("spilled" \notin astray' => InSequence(plist') /\ Addresses(plist'))
  BY <1>1, <1>11, ThinnedList DEF Inv, Ordered
<1>13. plus' \in Nat
  BY <1>1, SearchTypes DEF Inv
<1>14. astray' \subseteq {"moved", "spilled"} /\ bereft' \subseteq Station
  BY <1>1, <1>8 DEF Inv, DhcpTypeOK
<1>. QED
  BY <1>1, <1>5, <1>7, <1>9, <1>10, <1>12, <1>13, <1>14, InvNext

(* A message is answered, or its answer is lost.                           *)
LEMMA AnswersStep ==
  ASSUME Inv, started, NEW m \in Station, NEW msg, Answers(m, msg),
         UNCHANGED <<started, lease, settings>>
  PROVE  Inv'
<1>1. PICK pool : pool = Pool(m)
  OBVIOUS
<1>2. /\ ~Less(lease.end, pool.ip) /\ plus' = pool.plus
      /\ plist' = IF msg.type = "release" THEN Without(pool.list, m) ELSE pool.list
      /\ astray' = Gone(m)
  BY <1>1 DEF Answers, Pool, Gone
<1>3. PICK answer :
        /\ Learns(m, msg, answer, pool.ip)
        /\ bereft' = IF answer = "ack" \/ held'[m] = NoIp THEN bereft \ {m} ELSE bereft
  BY <1>1 DEF Answers, Pool
<1>4. /\ pool.plus \in Nat /\ pool.list \in Seq(LeaseNode) /\ pool.ip \in Nat
      /\ m \in Macs(pool.list) /\ Apart(pool.list)
      /\ "spilled" \notin Gone(m) => InSequence(pool.list) /\ Addresses(pool.list)
      /\ Gone(m) = {} => pool.plus \in lease.start .. lease.end /\ Within(lease, pool.list)
      /\ \A n, a, t : t <= LEASE_TIMER /\ Holds(plist, n, a, t) => Holds(pool.list, n, a, t)
      /\ Holds(pool.list, m, pool.ip, LEASE_TIMER)
  BY <1>1, <1>2, PoolFacts
<1>5. /\ held' \in [Station -> Nat \union {NoIp}] /\ TimesOK'
      /\ \A n \in Station : n # m => held'[n] = held[n] /\ Kept'[n] = Kept[n]
      /\ held'[m] # NoIp =>
           /\ answer = "ack" => held'[m] = pool.ip /\ Kept'[m] = LEASE_TIMER
           /\ answer # "ack" => held'[m] = held[m] /\ Kept'[m] = Kept[m]
      /\ msg.type = "release" => held'[m] = NoIp
  BY <1>3, <1>4, LearnsFacts DEF Inv
<1>6. PICK i \in 1 .. Len(pool.list) : i = NodeOf(pool.list, m) /\ pool.list[i].mac = m
  BY <1>4, NodeOfIs
<1>7. /\ RemoveAt(pool.list, i) \in Seq(LeaseNode)
      /\ \E f : Thins(f, RemoveAt(pool.list, i), pool.list)
      /\ \A n, a, t : n # m /\ Holds(pool.list, n, a, t) => Holds(RemoveAt(pool.list, i), n, a, t)
  BY <1>4, <1>6, RemovedThins
<1>8. CASE msg.type = "release"
  <2>1. plist' = RemoveAt(pool.list, i)
    BY <1>2, <1>6, <1>8 DEF Without
  <2>2. PICK f : Thins(f, plist', pool.list)
    BY <1>7, <2>1
  <2>3. /\ Apart(plist')
        /\ "spilled" \notin astray' => InSequence(plist') /\ Addresses(plist')
        /\ astray' = {} => plus' \in lease.start .. lease.end /\ Within(lease, plist')
    BY <1>2, <1>4, <2>2, ThinnedList
  <2>4. \A n, a, t : n # m /\ t <= LEASE_TIMER /\ Holds(plist, n, a, t) => Holds(plist', n, a, t)
    BY <1>4, <1>7, <2>1
  <2>5. InUse(held', Kept', bereft', plist')
    <3>1. InUse(held, Kept, bereft, plist)
      BY InUseNow, Typed DEF Inv
    <3>2. ASSUME NEW n \in Station, held'[n] # NoIp, Kept'[n] > 0, n \notin bereft'
          PROVE  Holds(plist', n, held'[n], Kept'[n])
      <4>1. n # m
        BY <1>5, <1>8, <3>2
      <4>2. held'[n] = held[n] /\ Kept'[n] = Kept[n] /\ n \notin bereft
        BY <1>3, <1>5, <3>2, <4>1
      <4>3. Holds(plist, n, held[n], Kept[n])
        BY <3>1, <3>2, <4>2 DEF InUse
      <4>4. Kept[n] <= LEASE_TIMER
        BY KeptTime, DhcpAssumption DEF Inv, DhcpTypeOK, TimesOK
      <4>. QED
        BY <2>4, <4>1, <4>2, <4>3, <4>4
    <3>. QED
      BY <3>2 DEF InUse
  <2>6. astray' \subseteq {"moved", "spilled"} /\ bereft' \subseteq Station
    BY <1>2, <1>3 DEF Inv, DhcpTypeOK, Gone, Astray
  <2>7. plus' \in Nat /\ plist' \in Seq(LeaseNode)
    BY <1>2, <1>4, <1>7, <2>1
  <2>. QED
    BY <1>5, <2>3, <2>5, <2>6, <2>7, InvNext
<1>9. CASE msg.type # "release"
  <2>1. plist' = pool.list
    BY <1>2, <1>9
  <2>2. InUse(held', Kept', bereft', plist')
    <3>1. InUse(held, Kept, bereft, plist)
      BY InUseNow, Typed DEF Inv
    <3>2. ASSUME NEW n \in Station, held'[n] # NoIp, Kept'[n] > 0, n \notin bereft'
          PROVE  Holds(plist', n, held'[n], Kept'[n])
      <4>1. CASE n = m /\ answer = "ack"
        BY <1>4, <1>5, <2>1, <3>2, <4>1
      <4>2. CASE ~(n = m /\ answer = "ack")
        <5>1. held'[n] = held[n] /\ Kept'[n] = Kept[n] /\ n \notin bereft
          BY <1>3, <1>5, <3>2, <4>2
        <5>2. Holds(plist, n, held[n], Kept[n])
          BY <3>1, <3>2, <5>1 DEF InUse
        <5>3. Kept[n] <= LEASE_TIMER
          BY KeptTime, DhcpAssumption DEF Inv, DhcpTypeOK, TimesOK
        <5>. QED
          BY <1>4, <2>1, <5>1, <5>2, <5>3
      <4>. QED
        BY <4>1, <4>2
    <3>. QED
      BY <3>2 DEF InUse
  <2>3. astray' \subseteq {"moved", "spilled"} /\ bereft' \subseteq Station
    BY <1>2, <1>3 DEF Inv, DhcpTypeOK, Gone, Astray
  <2>. QED
    BY <1>2, <1>4, <1>5, <2>1, <2>2, <2>3, InvNext
<1>. QED
  BY <1>8, <1>9

(* A minute passes.                                                        *)
LEMMA MinuteStep ==
  ASSUME Inv, dhcps_coarse_tmr
  PROVE  Inv'
<1>1. /\ \A m \in Station : held[m] # NoIp => left[m] > 0 /\ m \notin due
      /\ due' = {m \in Station : held[m] # NoIp}
      /\ UNCHANGED <<started, lease, plus, astray, settings, held, left>>
  BY DEF dhcps_coarse_tmr
<1>2. plist \in Seq(LeaseNode) /\ Len(plist) \in Nat /\ plus \in Nat
  BY Typed DEF Inv
<1>3. PICK aged : aged = Aged
  OBVIOUS
<1>4. /\ aged \in Seq(LeaseNode)
      /\ \E f : Thins(f, aged, plist)
      /\ \A j \in 1 .. Len(plist) : plist[j].timer > 1 =>
           Holds(aged, plist[j].mac, plist[j].ip, plist[j].timer - 1)
  BY <1>2, <1>3, AgedFacts
<1>5. held \in [Station -> Nat \union {NoIp}] /\ TimesOK /\ LEASE_TIMER \in Nat
  BY DhcpAssumption DEF Inv, DhcpTypeOK, TimesOK
<1>6. TimesOK'
  BY <1>1, <1>5 DEF TimesOK
<1>7. ASSUME NEW n \in Station, held'[n] # NoIp, Kept'[n] > 0, n \notin bereft
      PROVE  Holds(aged, n, held'[n], Kept'[n])
  <2>1. held'[n] = held[n] /\ Kept[n] > 1 /\ Kept'[n] = Kept[n] - 1
    <3>1. held[n] # NoIp /\ n \notin due /\ n \in due' /\ left'[n] = left[n]
      BY <1>1, <1>7
    <3>2. Kept[n] = left[n] /\ Kept'[n] = left[n] - 1
      BY <3>1 DEF Kept, Sure
    <3>3. left[n] \in Nat
      BY <1>5 DEF TimesOK
    <3>. QED
      BY <1>1, <1>7, <3>2, <3>3
  <2>0. Kept[n] \in Nat
    BY <1>5, KeptTime
  <2>2. Holds(plist, n, held[n], Kept[n])
    <3>1. InUse(held, Kept, bereft, plist) /\ Kept[n] > 0
      BY <1>2, <2>0, <2>1, InUseNow DEF Inv
    <3>. QED
      BY <1>7, <2>1, <3>1 DEF InUse
  <2>3. PICK j \in 1 .. Len(plist) : plist[j].mac = n /\ plist[j].ip = held[n] /\ plist[j].timer >= Kept[n]
    BY <2>2 DEF Holds
  <2>4. plist[j].timer \in Nat /\ Kept[n] \in Nat
    BY <1>2, <1>5, <2>0, NodeFields
  <2>5. Holds(aged, n, held[n], plist[j].timer - 1)
    BY <1>4, <2>1, <2>3, <2>4
  <2>6. PICK k \in 1 .. Len(aged) : aged[k].mac = n /\ aged[k].ip = held[n] /\ aged[k].timer >= plist[j].timer - 1
    BY <2>5 DEF Holds
  <2>7. aged[k].timer \in Nat
    BY <1>4, <1>5, NodeFields
  <2>8. aged[k].timer >= Kept'[n]
    <3>1. PICK x \in Nat, y \in Nat, z \in Nat : x = aged[k].timer /\ y = plist[j].timer /\ z = Kept[n]
      BY <2>4, <2>7
    <3>2. x >= y - 1 /\ y >= z
      BY <2>3, <2>6, <3>1
    <3>3. x >= z - 1
      BY <3>2
    <3>. QED
      BY <2>1, <3>1, <3>3
  <2>. QED
    BY <2>1, <2>6, <2>8 DEF Holds
<1>8. PICK f : Thins(f, aged, plist)
  BY <1>4
<1>9. /\ Apart(aged)
      /\ "spilled" \notin astray => InSequence(aged) /\ Addresses(aged)
      /\ started /\ astray = {} => Within(lease, aged)
  BY <1>8, ThinnedList DEF Inv, Ordered, Cursor
<1>10. CASE Len(aged) >= MAX_STATION_NUM
  <2>1. Len(aged) > 1
    BY <1>4, <1>10, ListDomain, DhcpAssumption
  <2>2. PICK i \in 1 .. Len(aged) : i = Oldest(aged)
    BY <1>4, <2>1, OldestIs
  <2>3. /\ plist' = RemoveAt(aged, i)
        /\ bereft' = bereft \union {m \in {aged[i].mac} : held[m] # NoIp}
    BY <1>3, <1>10, <2>2 DEF dhcps_coarse_tmr, Bereaves
  <2>4. /\ plist' \in Seq(LeaseNode)
        /\ \E h : Thins(h, plist', aged)
        /\ \A m, a, t : m # aged[i].mac /\ Holds(aged, m, a, t) => Holds(plist', m, a, t)
    BY <1>4, <2>3, RemovedThins
  <2>5. PICK h : Thins(h, plist', aged)
    BY <2>4
  <2>6. /\ Apart(plist')
        /\ "spilled" \notin astray => InSequence(plist') /\ Addresses(plist')
        /\ started /\ astray = {} => Within(lease, plist')
    BY <1>9, <2>5, ThinnedList
  <2>7. InUse(held', Kept', bereft', plist')
    <3>1. ASSUME NEW n \in Station, held'[n] # NoIp, Kept'[n] > 0, n \notin bereft'
          PROVE  Holds(plist', n, held'[n], Kept'[n])
      <4>1. n # aged[i].mac /\ n \notin bereft
        BY <1>1, <2>3, <3>1
      <4>. QED
        BY <1>7, <2>4, <3>1, <4>1
    <3>. QED
      BY <3>1 DEF InUse
  <2>8. started
    <3>1. SUFFICES ASSUME ~started PROVE FALSE
      OBVIOUS
    <3>2. Len(plist) = 0
      BY <3>1, EmptySeq DEF Inv
    <3>3. 1 \in 1 .. Len(aged) /\ f[1] \in 1 .. Len(plist)
      BY <1>4, <1>8, <2>1, ListDomain DEF Thins
    <3>. QED
      BY <3>2, <3>3
  <2>9. bereft' \subseteq Station /\ astray' \subseteq {"moved", "spilled"}
    <3>1. aged[i].mac \in Station
      BY <1>4, NodeFields
    <3>. QED
      BY <1>1, <2>3, <3>1 DEF Inv, DhcpTypeOK
  <2>10. started /\ astray = {} => plus \in lease.start .. lease.end
    BY DEF Inv, Cursor
  <2>. QED
    BY <1>1, <1>2, <1>5, <1>6, <2>4, <2>6, <2>7, <2>8, <2>9, <2>10, InvNext
<1>11. CASE ~(Len(aged) >= MAX_STATION_NUM)
  <2>1. plist' = aged /\ bereft' = bereft
    BY <1>3, <1>11 DEF dhcps_coarse_tmr
  <2>2. InUse(held', Kept', bereft', plist')
    BY <1>7, <2>1 DEF InUse
  <2>3. ~started => plist' = <<>>
    <3>1. SUFFICES ASSUME ~started PROVE aged = <<>>
      BY <2>1
    <3>2. Len(plist) = 0
      BY <3>1, EmptySeq DEF Inv
    <3>3. Len(aged) = 0
      <4>1. Len(aged) \in Nat
        BY <1>4, ListDomain
      <4>2. ASSUME Len(aged) > 0 PROVE FALSE
        <5>1. 1 \in 1 .. Len(aged)
          BY <4>1, <4>2
        <5>2. f[1] \in 1 .. Len(plist)
          BY <1>8, <5>1 DEF Thins
        <5>. QED
          BY <3>2, <5>2
      <4>. QED
        BY <4>1, <4>2
    <3>. QED
      BY <1>4, <3>3, EmptySeq
  <2>4. bereft' \subseteq Station /\ astray' \subseteq {"moved", "spilled"}
    BY <1>1, <2>1 DEF Inv, DhcpTypeOK
  <2>5. started /\ astray = {} => plus \in lease.start .. lease.end
    BY DEF Inv, Cursor
  <2>. QED
    BY <1>1, <1>2, <1>4, <1>5, <1>6, <1>9, <2>1, <2>2, <2>3, <2>4, <2>5, InvNext
<1>. QED
  BY <1>10, <1>11

(* The range beside the address of the access point.                       *)
LEMMA DefaultRange ==
  ASSUME NEW ip \in Address, NEW r, r = Default(ip)
  PROVE  /\ r \in [enable : BOOLEAN, start : Address, end : Address]
         /\ r.start <= r.end /\ Segment(r.start) = Segment(r.end)
<1>1. Octets \in Nat /\ Octets > 3 /\ MAX_LEASE \in 1 .. Octets \div 2 - 1
  BY OctetsNat, DhcpAssumption
<1>2. ip \in Nat
  BY <1>1 DEF Address
<1>3. PICK q \in Nat, o \in 0 .. Octets - 1 : Segment(ip) = q /\ ip % Octets = o
  BY <1>2, Parts
<1>4. PICK local : local = IF o >= Octets \div 2 THEN o - MAX_LEASE ELSE o + 1
  OBVIOUS
<1>5. PICK half \in Int : half = Octets \div 2 /\ half + half <= Octets
  BY <1>1
<1>6. local \in 0 .. Octets - 1 /\ local + MAX_LEASE - 1 \in 0 .. Octets - 1
  BY <1>1, <1>3, <1>4, <1>5
<1>7. PICK a \in Nat, b \in Nat : a = q * Octets + local /\ b = q * Octets + (local + MAX_LEASE - 1)
  BY <1>1, <1>6
<1>8. Segment(a) = q /\ Segment(b) = q
  BY <1>6, <1>7, PartsAre
<1>9. a \in Address /\ b \in Address
  BY <1>3, <1>8, SegmentAddress
<1>10. a <= b /\ b = a + MAX_LEASE - 1
  BY <1>1, <1>4, <1>7
<1>11. r = [enable |-> FALSE, start |-> a, end |-> b]
  BY <1>3, <1>4, <1>7, <1>10 DEF Default
<1>. QED
  BY <1>8, <1>9, <1>10, <1>11

(* What is to be shown of a step that only configures the server.          *)
LEMMA InvConfigured ==
  ASSUME Inv, lease' \in [enable : BOOLEAN, start : Address, end : Address], RangeOK',
         started' \in BOOLEAN, settings' \in 0 .. MaxSettings, plus' \in Nat,
         astray' \subseteq {"moved", "spilled"}, UNCHANGED stations, plist' = plist,
         "spilled" \in astray /\ plist # <<>> => "spilled" \in astray',
         ~started' => plist = <<>>, Cursor'
  PROVE  Inv'
<1>1. held' = held /\ left' = left /\ due' = due /\ bereft' = bereft
  BY DEF stations
<1>2. DhcpTypeOK'
  BY <1>1 DEF Inv, DhcpTypeOK
<1>3. Apart(plist)' /\ (~started => plist = <<>>)'
  BY DEF Inv, Apart
<1>4. Ordered'
  <2>1. CASE plist = <<>>
    <3>1. Len(plist') = 0
      BY <2>1, EmptySeq
    <3>. QED
      BY <3>1 DEF Ordered, InSequence, Addresses
  <2>2. CASE plist # <<>>
    BY <2>2 DEF Inv, Ordered, InSequence, Addresses
  <2>. QED
    BY <2>1, <2>2
<1>5. InUseIsLeased'
  BY <1>1 DEF Inv, InUseIsLeased, Sure
<1>. QED
  BY <1>2, <1>3, <1>4, <1>5 DEF Inv

(* The server is started, perhaps once more.                               *)
LEMMA StartStep ==
  ASSUME Inv, NEW ip \in Ips, espconn_dhcps_start(ip)
  PROVE  Inv'
<1>1. /\ settings \in 0 .. MaxSettings /\ settings < MaxSettings /\ settings' = settings + 1
      /\ MaxSettings \in Nat
      /\ started' = TRUE
      /\ lease' = IF Usable(lease, ip) THEN lease ELSE Default(ip)
      /\ plus' = lease'.start /\ plist' = plist /\ UNCHANGED stations
      /\ astray' = IF plist = <<>> THEN {} ELSE astray \union Astray("moved", lease' # lease)
  BY DhcpAssumption DEF espconn_dhcps_start, Setting, Inv, DhcpTypeOK
<1>2. lease' \in [enable : BOOLEAN, start : Address, end : Address] /\ RangeOK'
  <2>1. CASE Usable(lease, ip)
    BY <1>1, <2>1 DEF Inv, DhcpTypeOK, RangeOK
  <2>2. CASE ~Usable(lease, ip)
    <3>1. ip \in Address
      BY DhcpAssumption
    <3>. QED
      BY <1>1, <2>2, <3>1, DefaultRange DEF RangeOK
  <2>. QED
    BY <2>1, <2>2
<1>3. PICK lo \in Nat, hi \in Nat : lo = lease'.start /\ hi = lease'.end /\ lo <= hi
  BY <1>2, OctetsNat DEF Address, RangeOK
<1>4. plus' \in Nat /\ plus' \in lease'.start .. lease'.end
  BY <1>1, <1>3
<1>5. Cursor'
  <2>1. SUFFICES ASSUME astray' = {} PROVE Within(lease', plist)
    BY <1>1, <1>4 DEF Cursor
  <2>2. CASE plist = <<>>
    <3>1. Len(plist) = 0
      BY <2>2, EmptySeq
    <3>. QED
      BY <3>1 DEF Within
  <2>3. CASE plist # <<>>
    <3>1. astray = {} /\ lease' = lease /\ started
      BY <1>1, <2>1, <2>3 DEF Astray, Inv
    <3>. QED
      BY <3>1 DEF Inv, Cursor
  <2>. QED
    BY <2>2, <2>3
<1>6. settings' \in 0 .. MaxSettings
  BY <1>1
<1>7. /\ astray' \subseteq {"moved", "spilled"}
      /\ "spilled" \in astray /\ plist # <<>> => "spilled" \in astray'
  BY <1>1 DEF Inv, DhcpTypeOK, Astray
<1>. QED
  BY <1>1, <1>2, <1>4, <1>5, <1>6, <1>7, InvConfigured

(* The range is configured.                                                *)
LEMMA SetLeaseStep ==
  ASSUME Inv, wifi_softap_set_dhcps_lease
  PROVE  Inv'
<1>1. /\ settings \in 0 .. MaxSettings /\ settings < MaxSettings /\ settings' = settings + 1
      /\ MaxSettings \in Nat
      /\ started' = started /\ plus' = plus /\ plist' = plist /\ UNCHANGED stations
      /\ astray' = astray \union
           Astray("moved", started /\ <<lease'.start, lease'.end>> # <<lease.start, lease.end>>)
  BY DhcpAssumption DEF wifi_softap_set_dhcps_lease, Setting, Inv, DhcpTypeOK
<1>2. lease' \in [enable : BOOLEAN, start : Address, end : Address] /\ RangeOK'
  <2>1. CASE lease' = [lease EXCEPT !.enable = FALSE]
    BY <2>1 DEF Inv, DhcpTypeOK, RangeOK
  <2>2. CASE \E r \in Ranges, ip \in Ips :
               /\ ~InRange(r, ip) /\ InSegment(r, ip)
               /\ lease' = [enable |-> TRUE, start |-> r.start, end |-> r.end]
    <3>1. PICK r \in Ranges, ip \in Ips :
            InSegment(r, ip) /\ lease' = [enable |-> TRUE, start |-> r.start, end |-> r.end]
      BY <2>2
    <3>2. r.start \in Address /\ r.end \in Address
      BY DhcpAssumption
    <3>3. Segment(r.start) = Segment(r.end) /\ r.end - r.start >= 0
      BY <3>1, DhcpAssumption, OctetsNat DEF InSegment
    <3>4. r.start <= r.end
      BY <3>2, <3>3, OctetsNat DEF Address
    <3>. QED
      BY <3>1, <3>2, <3>3, <3>4 DEF RangeOK
  <2>. QED
    BY <2>1, <2>2 DEF wifi_softap_set_dhcps_lease
<1>3. Cursor'
  <2>1. SUFFICES ASSUME started, astray' = {}
                 PROVE  plus \in lease'.start .. lease'.end /\ Within(lease', plist)
    BY <1>1 DEF Cursor
  <2>2. astray = {} /\ lease'.start = lease.start /\ lease'.end = lease.end
    BY <1>1, <2>1 DEF Astray
  <2>. QED
    BY <2>1, <2>2 DEF Inv, Cursor, Within, InRange
<1>4. settings' \in 0 .. MaxSettings
  BY <1>1
<1>5. /\ astray' \subseteq {"moved", "spilled"}
      /\ "spilled" \in astray /\ plist # <<>> => "spilled" \in astray'
      /\ started' \in BOOLEAN /\ plus' \in Nat /\ (~started' => plist = <<>>)
  BY <1>1 DEF Inv, DhcpTypeOK, Astray
<1>. QED
  BY <1>1, <1>2, <1>3, <1>4, <1>5, InvConfigured

(* The server is stopped.                                                  *)
LEMMA StopStep ==
  ASSUME Inv, espconn_dhcps_stop
  PROVE  Inv'
<1>1. /\ settings \in 0 .. MaxSettings /\ settings < MaxSettings /\ settings' = settings + 1
      /\ MaxSettings \in Nat
      /\ started' = FALSE /\ plist' = <<>>
      /\ bereft' = bereft \union {m \in Macs(plist) : held[m] # NoIp}
      /\ UNCHANGED <<lease, plus, astray, held, left, due>>
  BY DhcpAssumption DEF espconn_dhcps_stop, Setting, Bereaves, Inv, DhcpTypeOK
<1>2. plist \in Seq(LeaseNode) /\ DOMAIN plist = 1 .. Len(plist)
  BY Typed DEF Inv
<1>3. plist' \in Seq(LeaseNode) /\ Len(plist') = 0 /\ DOMAIN plist' = 1 .. Len(plist')
  BY <1>1, EmptySeq, ListDomain
<1>4. Macs(plist) \subseteq Station
  BY <1>2, NodeFields DEF Macs
<1>5. InUse(held', Kept', bereft', plist')
  <2>1. InUse(held, Kept, bereft, plist)
    BY <1>2, InUseNow DEF Inv
  <2>2. ASSUME NEW n \in Station, held'[n] # NoIp, Kept'[n] > 0, n \notin bereft' PROVE FALSE
    <3>1. Holds(plist, n, held[n], Kept[n])
      BY <1>1, <2>1, <2>2 DEF InUse, Kept, Sure
    <3>2. n \in Macs(plist)
      BY <1>2, <3>1 DEF Holds, Macs
    <3>. QED
      BY <1>1, <2>2, <3>2
  <2>. QED
    BY <2>2 DEF InUse
<1>6. InUseIsLeased'
  BY <1>3, <1>5, InUseNext
<1>7. DhcpTypeOK'
  <2>1. settings' \in 0 .. MaxSettings /\ bereft' \subseteq Station
    BY <1>1, <1>4 DEF Inv, DhcpTypeOK
  <2>2. plist' \in Seq([ip : Nat, mac : Station, timer : 1 .. LEASE_TIMER])
    BY <1>3 DEF LeaseNode
  <2>. QED
    BY <1>1, <2>1, <2>2 DEF Inv, DhcpTypeOK
<1>8. RangeOK'
  BY <1>1 DEF Inv, RangeOK
<1>9. Apart(plist)' /\ Ordered' /\ (~started => plist = <<>>)' /\ Cursor'
  BY <1>1, <1>3 DEF Apart, Ordered, InSequence, Addresses, Cursor
<1>. QED
  BY <1>6, <1>7, <1>8, <1>9 DEF Inv

(* A station is switched off.                                              *)
LEMMA ForgetsStep ==
  ASSUME Inv, NEW m \in Station, Forgets(m)
  PROVE  Inv'
<1>1. /\ held' = [held EXCEPT ![m] = NoIp] /\ left' = [left EXCEPT ![m] = 0]
      /\ due' = due \ {m} /\ bereft' = bereft \ {m}
      /\ UNCHANGED <<started, lease, plus, plist, astray, settings>>
  BY DEF Forgets, server
<1>2. held \in [Station -> Nat \union {NoIp}] /\ TimesOK /\ LEASE_TIMER \in Nat
  BY DhcpAssumption DEF Inv, DhcpTypeOK, TimesOK
<1>3. held' \in [Station -> Nat \union {NoIp}] /\ TimesOK'
  BY <1>1, <1>2 DEF TimesOK
<1>4. \A n \in Station : held'[n] # NoIp => n # m /\ held'[n] = held[n] /\ Kept'[n] = Kept[n]
  <2>1. ASSUME NEW n \in Station, held'[n] # NoIp PROVE n # m /\ held'[n] = held[n]
    BY <1>1, <1>2, <2>1
  <2>2. ASSUME NEW n \in Station, n # m PROVE Kept'[n] = Kept[n]
    <3>1. left'[n] = left[n] /\ (n \in due' <=> n \in due)
      BY <1>1, <1>2, <2>2 DEF TimesOK
    <3>. QED
      BY <3>1 DEF Kept, Sure
  <2>. QED
    BY <2>1, <2>2
<1>5. plist \in Seq(LeaseNode) /\ plus \in Nat
  BY Typed DEF Inv
<1>6. InUse(held', Kept', bereft', plist')
  <2>1. InUse(held, Kept, bereft, plist)
    BY <1>5, InUseNow DEF Inv
  <2>. QED
    BY <1>1, <1>4, <2>1 DEF InUse
<1>7. /\ astray' \subseteq {"moved", "spilled"} /\ bereft' \subseteq Station
      /\ Apart(plist') /\ (~started => plist' = <<>>)
      /\ "spilled" \notin astray' => InSequence(plist') /\ Addresses(plist')
      /\ started /\ astray' = {} => plus' \in lease.start .. lease.end /\ Within(lease, plist')
  BY <1>1 DEF Inv, DhcpTypeOK, Ordered, Cursor
<1>. QED
  BY <1>1, <1>3, <1>5, <1>6, <1>7, InvNext

(* A minute of a station is over: it counts on no less than before.        *)
LEMMA StationMinuteStep ==
  ASSUME Inv, NEW m \in Station, Minute(m)
  PROVE  Inv'
<1>1. /\ m \in due /\ left' = [left EXCEPT ![m] = @ - 1] /\ due' = due \ {m}
      /\ UNCHANGED <<started, lease, plus, plist, astray, settings, held, bereft>>
  BY DEF Minute, server
<1>2. held \in [Station -> Nat \union {NoIp}] /\ TimesOK /\ LEASE_TIMER \in Nat
  BY DhcpAssumption DEF Inv, DhcpTypeOK, TimesOK
<1>3. PICK l \in 1 .. LEASE_TIMER : l = left[m]
  BY <1>1, <1>2 DEF TimesOK
<1>4. left' = [left EXCEPT ![m] = l - 1] /\ l - 1 \in 0 .. LEASE_TIMER
  BY <1>1, <1>2, <1>3
<1>5. /\ left' \in [Station -> 0 .. LEASE_TIMER] /\ left'[m] = l - 1
      /\ \A n \in Station : n # m => left'[n] = left[n]
  BY <1>2, <1>4 DEF TimesOK
<1>6. TimesOK'
  BY <1>1, <1>2, <1>5 DEF TimesOK
<1>7. ASSUME NEW n \in Station PROVE Kept'[n] = Kept[n]
  <2>1. CASE n = m
    BY <1>1, <1>3, <1>5, <2>1 DEF Kept, Sure
  <2>2. CASE n # m
    BY <1>1, <1>5, <2>2 DEF Kept, Sure
  <2>. QED
    BY <2>1, <2>2
<1>8. plist \in Seq(LeaseNode) /\ plus \in Nat
  BY Typed DEF Inv
<1>9. InUse(held', Kept', bereft', plist')
  <2>1. InUse(held, Kept, bereft, plist)
    BY <1>8, InUseNow DEF Inv
  <2>. QED
    BY <1>1, <1>7, <2>1 DEF InUse
<1>10. /\ astray' \subseteq {"moved", "spilled"} /\ bereft' \subseteq Station
       /\ Apart(plist') /\ (~started => plist' = <<>>)
       /\ "spilled" \notin astray' => InSequence(plist') /\ Addresses(plist')
       /\ started /\ astray' = {} => plus' \in lease.start .. lease.end /\ Within(lease, plist')
  BY <1>1 DEF Inv, DhcpTypeOK, Ordered, Cursor
<1>. QED
  BY <1>1, <1>2, <1>6, <1>8, <1>9, <1>10, InvNext

(* A station sends a message.                                              *)
LEMMA AsksStep ==
  ASSUME Inv, NEW m \in Station, Asks(m)
  PROVE  Inv'
<1>1. PICK msg : handle_dhcp(m, msg)
  BY DEF Asks
<1>2. /\ started /\ UNCHANGED <<started, lease, settings>>
      /\ RefusesLease(m, msg) \/ Withdraws(m, msg) \/ Answers(m, msg)
  BY <1>1 DEF handle_dhcp
<1>. QED
  BY <1>2, RefusesStep, WithdrawsStep, AnswersStep

(* The invariant holds at first,                                           *)
LEMMA InvInit ==
  ASSUME DhcpInit
  PROVE  Inv
<1>1. /\ started = FALSE /\ lease = [enable |-> FALSE, start |-> 0, end |-> 0] /\ plus = 0
      /\ plist = <<>> /\ held = [m \in Station |-> NoIp] /\ left = [m \in Station |-> 0]
      /\ due = {} /\ bereft = {} /\ astray = {} /\ settings = 0
  BY DEF DhcpInit
<1>2. plist \in Seq(LeaseNode) /\ Len(plist) = 0 /\ DOMAIN plist = 1 .. Len(plist)
  BY <1>1, EmptySeq, ListDomain
<1>3. 0 \in Address /\ MaxSettings \in Nat /\ LEASE_TIMER \in Nat
  BY OctetsNat, DhcpAssumption DEF Address
<1>4. DhcpTypeOK
  <2>1. plist \in Seq([ip : Nat, mac : Station, timer : 1 .. LEASE_TIMER])
    BY <1>2 DEF LeaseNode
  <2>2. lease \in [enable : BOOLEAN, start : Address, end : Address] /\ settings \in 0 .. MaxSettings
    BY <1>1, <1>3
  <2>3. held \in [Station -> Nat \union {NoIp}] /\ left \in [Station -> 0 .. LEASE_TIMER]
    BY <1>1, <1>3
  <2>. QED
    BY <1>1, <2>1, <2>2, <2>3 DEF DhcpTypeOK
<1>5. RangeOK
  BY <1>1 DEF RangeOK
<1>6. Apart(plist) /\ Ordered /\ (~started => plist = <<>>) /\ Cursor
  BY <1>1, <1>2 DEF Apart, Ordered, InSequence, Addresses, Cursor
<1>7. InUseIsLeased
  BY <1>1 DEF InUseIsLeased
<1>. QED
  BY <1>4, <1>5, <1>6, <1>7 DEF Inv

(* and every step keeps it.                                                *)
LEMMA InvStep ==
  ASSUME Inv, [DhcpNext]_dhcpVars
  PROVE  Inv'
<1>1. ASSUME NEW ip \in Ips, espconn_dhcps_start(ip) PROVE Inv'
  BY <1>1, StartStep
<1>2. CASE espconn_dhcps_stop
  BY <1>2, StopStep
<1>3. CASE wifi_softap_set_dhcps_lease
  BY <1>3, SetLeaseStep
<1>4. CASE dhcps_coarse_tmr
  BY <1>4, MinuteStep
<1>5. ASSUME NEW m \in Station, Asks(m) PROVE Inv'
  BY <1>5, AsksStep
<1>6. ASSUME NEW m \in Station, Forgets(m) PROVE Inv'
  BY <1>6, ForgetsStep
<1>7. ASSUME NEW m \in Station, Minute(m) PROVE Inv'
  BY <1>7, StationMinuteStep
<1>8. CASE UNCHANGED dhcpVars
  <2>1. UNCHANGED <<started, lease, plus, plist, held, left, due, bereft, settings, astray>>
    BY <1>8 DEF dhcpVars, server, stations
  <2>. QED
    BY <2>1 DEF Inv, DhcpTypeOK, RangeOK, Apart, Ordered, InSequence, Addresses, Cursor, Within, InUseIsLeased, Sure
<1>. QED
  BY <1>1, <1>2, <1>3, <1>4, <1>5, <1>6, <1>7, <1>8 DEF DhcpNext

-----------------------------------------------------------------------------
(* A new station and the addresses of the range. *)

(* The search ends behind the range exactly when all of the range is       *)
(* leased.                                                                 *)
LEMMA Refused ==
  ASSUME Inv, started, astray = {}, NEW m \in Station, ~Leased(m), ~EndsSegment(lease.end)
  PROVE  Exhausted(m) <=> lease.start .. lease.end \subseteq {plist[i].ip : i \in DOMAIN plist}
<1>1. plist \in Seq(LeaseNode) /\ Len(plist) \in Nat /\ DOMAIN plist = 1 .. Len(plist) /\ AtFirst \in At
  BY Typed DEF Inv, AtFirst, At
<1>2. PICK lo \in Nat, hi \in Nat, p \in Nat : lo = lease.start /\ hi = lease.end /\ p = plus
  BY Typed DEF Inv
<1>3. /\ lo <= hi /\ Segment(lo) = Segment(hi) /\ lo <= p /\ p <= hi
      /\ InSequence(plist) /\ Within(lease, plist) /\ ~EndsSegment(hi)
  BY <1>2 DEF Inv, RangeOK, Ordered, Cursor
<1>4. PICK w : w = Walk(plist)
  OBVIOUS
<1>5. PICK x \in Nat, y \in Nat : x = w.plus /\ y = w.first
  BY <1>1, <1>2, <1>4, WalkFacts
<1>6. Search(m) = w
  BY <1>4, PassedNodes DEF Inv, Search
<1>7. Exhausted(m) <=> Less(hi, IF Less(hi, x) THEN y ELSE x)
  BY <1>2, <1>5, <1>6 DEF Exhausted, Chosen
<1>8. Segment(hi + 1) = Segment(hi) /\ Less(hi, hi + 1)
  <2>1. Segment(hi + 1) = Segment(hi)
    BY <1>3, SegmentNext
  <2>. QED
    BY <2>1, SegmentOrder
<1>9. ASSUME NEW i \in 1 .. Len(plist) PROVE plist[i].ip \in Nat /\ plist[i].ip <= hi
  BY <1>1, <1>2, <1>3, NodeFields DEF Within, InRange
<1>10. lo <= x /\ x <= hi + 1
  <2>1. plus <= w.plus /\ (w.plus # plus => \E k \in 1 .. Len(plist) : plist[k].ip + 1 = w.plus)
    BY <1>1, <1>2, <1>4, WalkFacts
  <2>2. p <= x /\ (x # p => \E k \in 1 .. Len(plist) : plist[k].ip + 1 = x)
    BY <1>2, <1>5, <2>1
  <2>3. CASE x = p
    BY <1>3, <2>3
  <2>4. CASE x # p
    <3>1. PICK k \in 1 .. Len(plist) : plist[k].ip + 1 = x
      BY <2>2, <2>4
    <3>2. PICK v \in Nat : v = plist[k].ip /\ v <= hi
      BY <1>9
    <3>3. v + 1 = x
      BY <3>1, <3>2
    <3>. QED
      BY <1>3, <2>2, <3>2, <3>3
  <2>. QED
    BY <2>3, <2>4
<1>11. /\ lo <= y /\ y <= hi + 1
       /\ \A a \in lo .. y - 1 : \E k \in 1 .. Len(plist) : plist[k].ip = a
  <2>1. lease.start <= w.first
    BY <1>1, <1>2, <1>4, WalkFacts
  <2>2. PICK f : Walks(f, plist)
    BY <1>1, WalkExists
  <2>3. w = f[Len(plist)]
    BY <1>1, <1>4, <2>2, WalkIs
  <2>4. Len(plist) \in 0 .. Len(plist) /\ lease.start \in Nat /\ plus \in Nat
    BY <1>1, <1>2
  <2>5. /\ f[Len(plist)].first <= hi + 1
        /\ \A a \in lo .. f[Len(plist)].first - 1 : \E k \in 1 .. Len(plist) : plist[k].ip = a
    BY <1>1, <1>2, <1>3, <2>2, <2>4, WalkWhole
  <2>6. lo <= y
    BY <1>2, <1>5, <2>1
  <2>. QED
    BY <1>5, <2>3, <2>5, <2>6
<1>12. Segment(x) = Segment(hi) /\ Segment(y) = Segment(hi) /\ Segment(p) = Segment(hi)
  BY <1>3, <1>8, <1>10, <1>11, SegmentBetween
<1>13. ASSUME NEW i \in 1 .. Len(plist) PROVE plist[i].ip # x /\ plist[i].ip # y
  <2>1. /\ Segment(w.plus) = Segment(plus) => plist[i].ip # w.plus
        /\ Segment(w.first) = Segment(lease.start) => plist[i].ip # w.first
    BY <1>1, <1>2, <1>3, <1>4, WalkFacts
  <2>. QED
    BY <1>2, <1>3, <1>5, <1>12, <2>1
<1>14. ASSUME Exhausted(m), NEW a \in lo .. hi PROVE \E k \in 1 .. Len(plist) : plist[k].ip = a
  <2>1. Less(hi, y)
    BY <1>7, <1>14
  <2>2. hi < y
    BY <1>12, <2>1, SegmentOrder
  <2>3. a \in lo .. y - 1
    BY <2>2
  <2>. QED
    BY <1>11, <2>3
<1>15. ASSUME \A a \in lo .. hi : \E k \in 1 .. Len(plist) : plist[k].ip = a
       PROVE  Exhausted(m)
  <2>1. x \notin lo .. hi /\ y \notin lo .. hi
    BY <1>13, <1>15
  <2>2. x = hi + 1
    BY <1>10, <2>1
  <2>3. y = hi + 1
    BY <1>11, <2>1
  <2>. QED
    BY <1>7, <1>8, <2>2, <2>3
<1>16. lease.start .. lease.end \subseteq {plist[i].ip : i \in DOMAIN plist}
         <=> \A a \in lo .. hi : \E k \in 1 .. Len(plist) : plist[k].ip = a
  BY <1>1, <1>2
<1>. QED
  BY <1>14, <1>15, <1>16

(* What the invariant says of the pool.                                    *)
LEMMA InvExact ==
  ASSUME Inv
  PROVE  PoolExact
<1>1. DOMAIN plist = 1 .. Len(plist)
  BY Typed DEF Inv
<1>2. LeasesOrdered
  <2>1. ASSUME "spilled" \notin astray, NEW i \in DOMAIN plist, NEW j \in DOMAIN plist, i < j
        PROVE  Less(plist[i].ip, plist[j].ip) /\ plist[i].mac # plist[j].mac
    BY <1>1, <2>1 DEF Inv, Ordered, InSequence, Apart
  <2>2. ASSUME astray = {}, NEW i \in DOMAIN plist PROVE InRange(lease, plist[i].ip)
    BY <1>1, <2>2 DEF Inv, Cursor, Within
  <2>. QED
    BY <2>1, <2>2 DEF LeasesOrdered
<1>3. RefusedWhenFull
  BY Refused DEF RefusedWhenFull
<1>. QED
  BY <1>2, <1>3 DEF PoolExact

-----------------------------------------------------------------------------
(* The inductive invariant holds in every reachable state.                 *)
THEOREM DhcpInvariant == DhcpSpec => []Inv
<1>1. DhcpInit => Inv
  BY InvInit
<1>2. Inv /\ [DhcpNext]_dhcpVars => Inv'
  BY InvStep
<1>. QED
  BY <1>1, <1>2, PTL DEF DhcpSpec

(* Every variable keeps its type: no timer is 0 or above                   *)
(* DHCPS_LEASE_TIMER, and no address is less than none.                    *)
THEOREM DhcpTypes == DhcpSpec => []DhcpTypeOK
<1>1. Inv => DhcpTypeOK
  BY DEF Inv
<1>. QED
  BY <1>1, DhcpInvariant, PTL

(* No address and no station is in the list twice, all leases are in the   *)
(* range, and a new station is refused exactly when all of the range is    *)
(* leased: what parse_msg and node_insert_to_list make of the list and of  *)
(* client_address_plus.                                                    *)
THEOREM DhcpPoolExact == DhcpSpec => []PoolExact
<1>1. Inv => PoolExact
  BY InvExact
<1>. QED
  BY <1>1, DhcpInvariant, PTL

(* A station has its address leased to it for the time that it was told,   *)
(* but for less than a minute at its end: no message, lost answer or       *)
(* minute of dhcps_coarse_tmr takes it away, but the lease that is killed  *)
(* for want of room, a stop, or a move of the range.                       *)
THEOREM DhcpInUseIsLeased == DhcpSpec => []InUseIsLeased
<1>1. Inv => InUseIsLeased
  BY DEF Inv
<1>. QED
  BY <1>1, DhcpInvariant, PTL

=============================================================================
