-------------------------- MODULE UartConsoleProofs --------------------------
(***************************************************************************)
(* What UartConsole keeps for every size of the ring and of the line: the  *)
(* ring gives back what was put into it, and no position leaves            *)
(* line_buffer unless node.input moves it or lua_main resets it halfway    *)
(* through an erasure.  The ring part of the inductive invariant counts    *)
(* the characters between the two positions; the line part says that the   *)
(* last place of line_buffer always holds a Nul, and what the buffer shows *)
(* of a line that lua_main did not disturb.                                *)
(***************************************************************************)
EXTENDS UartConsole, SequenceTheorems, WellFoundedInduction, TLAPS

Size == RX_BUFF_SIZE + 1

(* How many characters the ring holds, and where the i-th of them is.      *)
Dist == IF wpos >= rpos THEN wpos - rpos ELSE wpos - rpos + Size
Place(i) == IF rpos + i - 1 >= Size THEN rpos + i - 1 - Size ELSE rpos + i - 1

RingTypes ==
  /\ pbuff \in Seq(Char) /\ unread \in Seq(Char)
  /\ ring \in [0 .. RX_BUFF_SIZE -> Char \union {Nul}]
  /\ wpos \in 0 .. RX_BUFF_SIZE /\ rpos \in 0 .. RX_BUFF_SIZE
  /\ pc \in {"wait", "store", "read", "job", "lua", "halted"}

Counted ==
  /\ Len(unread) = Dist + Len(pbuff)
  /\ Len(unread) <= RX_BUFF_SIZE
  /\ pc \in {"wait", "job", "lua"} => rpos = wpos
  /\ pc = "store" <=> Len(pbuff) > 0

Queued ==
  /\ \A i \in 1 .. Dist : unread[i] = ring[Place(i)]
  /\ \A i \in 1 .. Len(pbuff) : unread[Dist + i] = pbuff[i]

RingOK == RingTypes /\ Counted /\ Queued

LineOK ==
  /\ line[LUA_MAXINPUT - 1] = Nul
  /\ ~fed => pos < LUA_MAXINPUT
  /\ pos < 0 => crossed

(* Before its position line_buffer holds what was typed since it was       *)
(* cleared, and there it ends, unless it shows a line discarded before;    *)
(* node.input may break this until the line is cleared again, and so may   *)
(* lua_main while it clears the line, for the characters taken meanwhile.  *)
Shows(text) == Len(text) = pos /\ \A i \in 1 .. pos : line[i - 1] = text[i]
Ended == line[pos] = Nul \/ (discarded /\ last_nl_char = Nul /\ Last(typed) \in Letter)
Clean == ~discarded => \A i \in pos .. LUA_MAXINPUT - 1 : line[i] = Nul
Typing == ~fed /\ ~crossed /\ ~Clearing => Shows(Edited(Since)) /\ Ended /\ Clean

(* As long as nothing is taken while lua_main clears the line, no line     *)
(* waits to be run, and its memset leaves nothing behind.                  *)
Boot ==
  ~fed /\ ~crossed =>
    /\ Clearing => ~done
    /\ main = "wipe" => pos = 0 /\ \A i \in (0 .. LUA_MAXINPUT - 1) \ stale : line[i] = Nul

(* last_nl_char is the line end that waits for its second half.            *)
Paired ==
  last_nl_char = IF typed # <<>> /\ Last(typed) \in LineEnd /\ ~EndsPair(typed)
                 THEN Last(typed) ELSE Nul

IInv == TypeOK /\ RingOK /\ LineOK /\ Typing /\ Boot /\ Paired

-----------------------------------------------------------------------------
(* The steps that take a character, and those of the main task.            *)

Taking == SecondOfPair \/ Erase \/ EndEmptyLine \/ EndLine \/ AddLetter \/ Torn

LEMMA TornTakes ==
  ASSUME Torn
  PROVE  (\E ch \in Char : Take(ch)) /\ Clearing /\ UNCHANGED <<fed, from, feeder>> /\ crossed' = TRUE
<1>1. \E ch \in Char : Take(ch)
  BY DEF Torn, TornLetter, TornErase, TornEnd, TakeEnd, Char, LineEnd
<1>2. Clearing
  BY DEF Torn, TornLetter, TornErase, TornEnd, Resets, Clearing
<1> QED BY <1>1, <1>2 DEF Take

LEMMA TakingTakes ==
  ASSUME Taking
  PROVE  /\ \E ch \in Char : Take(ch)
         /\ pc' \in {pc, "halted"}
         /\ (Torn \/ UNCHANGED <<main, stale>>)
<1>1. CASE SecondOfPair \/ Erase \/ EndEmptyLine \/ EndLine \/ AddLetter
  BY <1>1, Zenon DEF SecondOfPair, Erase, EndEmptyLine, EndLine, AddLetter, TakeEnd, Prompt, Char, LineEnd
<1>2. CASE Torn
  <2>1. pc' \in {pc, "halted"}
    BY <1>2, Zenon DEF Torn, TornLetter, TornErase, TornEnd, Prompt
  <2> QED BY <1>2, <2>1, TornTakes
<1> QED BY <1>1, <1>2 DEF Taking

LEMMA MainKeeps ==
  ASSUME LuaMain
  PROVE  UNCHANGED <<pc, ringVars, need, last_nl_char, feeder, typed, fed, crossed>>
<1>1. CASE ResetPos
  BY <1>1 DEF ResetPos, history
<1>2. CASE LoadInit \/ LoadLine \/ LoadPrompt \/ MainJob \/ MainNoJob
  BY <1>2 DEF LoadInit, LoadLine, LoadPrompt, MainJob, MainNoJob, Main
<1>3. CASE MainEndJob \/ ClearDone \/ Wipe
  BY <1>3 DEF MainEndJob, ClearDone, Wipe, Main
<1> QED BY <1>1, <1>2, <1>3 DEF LuaMain

(* What does not touch the line, nor what it is compared with.             *)
Aside == \/ Receive \/ Store \/ ReadEnds \/ StartJob
         \/ LoadLine \/ LoadPrompt \/ MainJob \/ MainNoJob \/ MainEndJob

LEMMA AsideKeeps ==
  ASSUME Aside
  PROVE  UNCHANGED <<line, pos, done, last_nl_char, history, stale, feeder>>
<1>1. CASE Receive \/ Store \/ ReadEnds \/ StartJob
  BY <1>1 DEF Receive, Store, ReadEnds, StartJob, mainVars
<1>2. CASE LoadLine \/ LoadPrompt \/ MainJob \/ MainNoJob \/ MainEndJob
  BY <1>2 DEF LoadLine, LoadPrompt, MainJob, MainNoJob, MainEndJob, Main, history
<1> QED BY <1>1, <1>2 DEF Aside

LEMMA NextCases ==
  ASSUME Next
  PROVE  \/ Taking \/ Aside \/ EndJob \/ NoJob
         \/ LoadInit \/ ClearDone \/ ResetPos \/ Wipe \/ NodeInput \/ NodeInputEnds
BY DEF Next, UartTask, ReadLine, LuaMain, Taking, Aside

-----------------------------------------------------------------------------
(* Recursion on the places of a sequence.                                  *)

LEMMA Least ==
  ASSUME NEW S \in SUBSET Nat, S # {}
  PROVE  \E x \in S : \A y \in S : x <= y
<1>1. PICK x \in S : \A y \in S : ~(<<y, x>> \in OpToRel(<, Nat))
  BY NatLessThanWellFounded, WFMin
<1>2. \A y \in Nat : y < x => <<y, x>> \in OpToRel(<, Nat)
  BY SMT DEF OpToRel
<1>3. ASSUME NEW y \in S PROVE x <= y
  <2>1. x \in Nat /\ y \in Nat
    OBVIOUS
  <2>2. ~(y < x)
    BY <1>1, <1>2, <2>1, Zenon
  <2> QED BY <2>1, <2>2
<1> QED BY <1>3, Zenon

(* Two functions that agree at b, and then from each place to the next.    *)
LEMMA Agree ==
  ASSUME NEW b \in Nat, NEW n \in Nat, b <= n, NEW f, NEW g, f[b] = g[b],
         \A i \in b + 1 .. n : f[i - 1] = g[i - 1] => f[i] = g[i]
  PROVE  f[n] = g[n]
<1> DEFINE bad == {i \in b .. n : f[i] # g[i]}
<1>1. ASSUME bad # {} PROVE FALSE
  <2>1. bad \in SUBSET Nat
    OBVIOUS
  <2>2. PICK m \in bad : \A j \in bad : m <= j
    <3> HIDE DEF bad
    <3> QED BY <1>1, <2>1, Least
  <2>3. m \in b + 1 .. n /\ m - 1 \in b .. n /\ ~(m <= m - 1)
    OBVIOUS
  <2>4. m - 1 \notin bad
    <3> HIDE DEF bad
    <3> QED BY <2>2, <2>3
  <2> QED BY <2>3, <2>4
<1> QED BY <1>1

(* The values of a step function one after the other.                      *)
Chain(f, n, V, a, R) ==
  f \in [0 .. n -> V] /\ f[0] = a /\ \A i \in 1 .. n : f[i] = R[<<i, f[i - 1]>>]

LEMMA ChainExists ==
  ASSUME NEW n \in Nat, NEW V, NEW a \in V, NEW R \in [(1 .. n) \X V -> V]
  PROVE  \E f : Chain(f, n, V, a, R)
<1> DEFINE bad == {m \in 0 .. n : ~\E f : Chain(f, m, V, a, R)}
<1>1. SUFFICES ASSUME bad # {} PROVE FALSE
  OBVIOUS
<1>2. PICK m \in bad : \A j \in bad : m <= j
  <2>1. bad \in SUBSET Nat
    OBVIOUS
  <2> HIDE DEF bad
  <2> QED BY <1>1, <2>1, Least
<1>3. m \in 0 .. n /\ ~\E f : Chain(f, m, V, a, R)
  OBVIOUS
<1>4. m # 0
  <2>1. Chain([i \in 0 .. 0 |-> a], 0, V, a, R)
    BY DEF Chain
  <2> QED BY <1>3, <2>1
<1>5. m \in Nat \ {0} /\ m - 1 \in 0 .. n /\ ~(m <= m - 1)
  BY <1>3, <1>4
<1>6. m - 1 \notin bad
  <2> HIDE DEF bad
  <2> QED BY <1>2, <1>5
<1>7. PICK f : Chain(f, m - 1, V, a, R)
  BY <1>5, <1>6, Zenon
<1> HIDE DEF bad
<1> DEFINE g == [i \in 0 .. m |-> IF i = m THEN R[<<m, f[m - 1]>>] ELSE f[i]]
<1>8. f[m - 1] \in V /\ R[<<m, f[m - 1]>>] \in V
  BY <1>3, <1>5, <1>7 DEF Chain
<1>9. g \in [0 .. m -> V] /\ g[0] = a
  BY <1>5, <1>7, <1>8 DEF Chain
<1>10. ASSUME NEW i \in 1 .. m PROVE g[i] = R[<<i, g[i - 1]>>]
  <2>1. CASE i = m
    <3>1. g[m - 1] = f[m - 1] /\ g[m] = R[<<m, f[m - 1]>>]
      BY <1>5
    <3> HIDE DEF g
    <3> QED BY <2>1, <3>1
  <2>2. CASE i # m
    BY <1>5, <1>7, <2>2 DEF Chain
  <2> QED BY <2>1, <2>2
<1>11. Chain(g, m, V, a, R)
  <2> HIDE DEF g
  <2> QED BY <1>9, <1>10 DEF Chain
<1> QED BY <1>3, <1>11

-----------------------------------------------------------------------------
(* The ring.                                                               *)

(* What the ring has no part in leaves it as it is.                        *)
LEMMA RingKept ==
  ASSUME RingOK, UNCHANGED ringVars,
         \/ pc' = pc
         \/ pc \in {"wait", "job", "lua"} /\ pc' \in {"wait", "lua", "halted"}
         \/ pc = "read" /\ rpos = wpos /\ pc' \in {"job", "wait"}
  PROVE  RingOK'
<1>1. RingTypes' /\ Counted'
  BY DEF RingOK, RingTypes, Counted, Dist, ringVars
<1>2. Queued'
  BY DEF RingOK, Queued, Dist, Place, ringVars
<1> QED BY <1>1, <1>2 DEF RingOK

(* A read of the driver finds the ring empty, and fits into it.            *)
LEMMA RingReceive == ASSUME RingOK, Receive PROVE RingOK'
<1> USE ConsoleAssumption DEF RingOK
<1>1. PICK s \in BoundedSeq(Char, RX_BUFF_SIZE) \ {<<>>} : pbuff' = s /\ unread' = s
  BY DEF Receive
<1>2. s \in Seq(Char) /\ Len(s) \in 1 .. RX_BUFF_SIZE
  <2>1. PICK n \in 0 .. RX_BUFF_SIZE : s \in [1 .. n -> Char]
    BY <1>1 DEF BoundedSeq, SeqOf
  <2>2. s \in Seq(Char) /\ Len(s) = n
    BY <2>1
  <2> QED BY <1>1, <2>1, <2>2, EmptySeq
<1>3. Dist = 0 /\ Dist' = 0
  BY DEF Receive, RingTypes, Counted, Dist
<1>4. RingTypes' /\ Counted'
  BY <1>1, <1>2, <1>3 DEF Receive, RingTypes, Counted
<1>5. Queued'
  BY <1>1, <1>2, <1>3 DEF Queued
<1> QED BY <1>4, <1>5

(* There is room for a character that is stored, so that the oldest stays. *)
LEMMA RingStore == ASSUME RingOK, Store PROVE RingOK'
<1> USE ConsoleAssumption DEF RingOK, Size
<1>1. /\ pbuff \in Seq(Char) /\ Len(pbuff) > 0 /\ Len(pbuff) \in Nat /\ pbuff # <<>>
      /\ unread \in Seq(Char) /\ Len(unread) \in Nat
  BY LenProperties, EmptySeq DEF Store, RingTypes, Counted
<1>2. /\ Head(pbuff) = pbuff[1] /\ Head(pbuff) \in Char
      /\ Tail(pbuff) \in Seq(Char) /\ Len(Tail(pbuff)) = Len(pbuff) - 1
      /\ \A i \in 1 .. Len(Tail(pbuff)) : Tail(pbuff)[i] = pbuff[i + 1]
  BY <1>1, HeadTailProperties
<1>3. Dist \in 0 .. RX_BUFF_SIZE - 1
  BY <1>1 DEF RingTypes, Counted, Dist
<1>4. rpos' = rpos /\ wpos' \in 0 .. RX_BUFF_SIZE /\ Dist' = Dist + 1 /\ Place(Dist + 1) = wpos
  BY <1>3 DEF Store, Follow, RingTypes, Dist, Place
<1>5. RingTypes'
  BY <1>2, <1>4 DEF Store, RingTypes
<1>6. Counted'
  <2>1. pc' = "store" <=> Len(pbuff') > 0
    <3>1. Tail(pbuff) = <<>> <=> Len(Tail(pbuff)) = 0
      BY <1>2, EmptySeq
    <3>2. Len(Tail(pbuff)) \in Nat
      BY <1>1, <1>2
    <3>3. pbuff' = Tail(pbuff) /\ pc' = (IF Tail(pbuff) = <<>> THEN "read" ELSE "store")
      BY DEF Store
    <3> QED BY <3>1, <3>2, <3>3
  <2>2. Len(unread') = Len(unread) /\ Len(pbuff') = Len(pbuff) - 1 /\ pc' \in {"read", "store"}
    BY <1>2 DEF Store
  <2> QED BY <1>1, <1>3, <1>4, <2>1, <2>2 DEF Counted
<1>7. ASSUME NEW i \in 1 .. Dist' PROVE unread'[i] = ring'[Place(i)']
  <2>1. Place(i)' = Place(i) /\ Place(i) \in 0 .. RX_BUFF_SIZE
    BY <1>3, <1>4 DEF Place, RingTypes
  <2>2. CASE i = Dist + 1
    BY <1>1, <1>2, <1>3, <1>4, <2>1, <2>2 DEF Store, Queued, RingTypes
  <2>3. CASE i \in 1 .. Dist
    <3>1. Place(i) # wpos
      BY <1>3, <2>3 DEF RingTypes, Dist, Place
    <3> QED BY <2>1, <2>3, <3>1 DEF Store, Queued, RingTypes
  <2> QED BY <1>3, <1>4, <2>2, <2>3
<1>8. ASSUME NEW i \in 1 .. Len(pbuff') PROVE unread'[Dist' + i] = pbuff'[i]
  <2>2. pbuff' = Tail(pbuff) /\ unread' = unread
    BY DEF Store
  <2>1. i + 1 \in 1 .. Len(pbuff) /\ Dist' + i = Dist + (i + 1)
    <3>1. i \in 1 .. Len(pbuff) - 1
      BY <1>2, <2>2
    <3>2. Dist' = Dist + 1
      BY <1>4
    <3> HIDE DEF Dist
    <3> QED BY <1>1, <1>3, <3>1, <3>2
  <2>3. pbuff'[i] = pbuff[i + 1]
    BY <1>2, <2>2
  <2> QED BY <2>1, <2>2, <2>3 DEF Queued
<1> QED BY <1>5, <1>6, <1>7, <1>8 DEF Queued

(* The reader takes the oldest.                                            *)
LEMMA RingTake ==
  ASSUME RingOK, NEW ch, Take(ch), pc' \in {"read", "halted"}
  PROVE  RingOK' /\ unread # <<>>
<1> USE ConsoleAssumption DEF RingOK, Size
<1>1. /\ pbuff \in Seq(Char) /\ Len(pbuff) = 0 /\ unread \in Seq(Char) /\ Len(unread) \in Nat
  BY LenProperties DEF Take, RingTypes, Counted
<1>2. Dist \in 1 .. RX_BUFF_SIZE /\ Len(unread) = Dist
  BY <1>1 DEF Take, RingTypes, Counted, Dist
<1>3. unread # <<>>
  BY <1>2, EmptySeq
<1>4. /\ Tail(unread) \in Seq(Char) /\ Len(Tail(unread)) = Len(unread) - 1
      /\ \A i \in 1 .. Len(Tail(unread)) : Tail(unread)[i] = unread[i + 1]
  BY <1>1, <1>3, HeadTailProperties
<1>5. rpos' \in 0 .. RX_BUFF_SIZE /\ wpos' = wpos /\ Dist' = Dist - 1
  BY <1>2 DEF Take, Follow, RingTypes, Dist
<1>6. RingTypes'
  BY <1>4, <1>5 DEF Take, RingTypes
<1>7. Counted'
  BY <1>1, <1>2, <1>4, <1>5 DEF Take, Counted
<1>8. ASSUME NEW i \in 1 .. Dist' PROVE unread'[i] = ring'[Place(i)']
  <2>1. i + 1 \in 1 .. Dist /\ i \in 1 .. Len(Tail(unread))
    BY <1>2, <1>4, <1>5
  <2>2. Place(i)' = Place(i + 1)
    BY <2>1, <1>2 DEF Take, Follow, Place, RingTypes
  <2> QED BY <1>4, <2>1, <2>2 DEF Take, Queued
<1>9. Len(pbuff') = 0
  BY <1>1 DEF Take
<1> QED BY <1>3, <1>6, <1>7, <1>8, <1>9 DEF Queued

LEMMA NextRing == ASSUME TypeOK, RingOK, Next PROVE RingOK'
<1>1. CASE Taking
  <2>1. PICK ch : Take(ch) /\ pc' \in {pc, "halted"}
    BY <1>1, TakingTakes
  <2> QED BY <2>1, RingTake DEF Take
<1>2. CASE Receive \/ Store
  BY <1>2, RingReceive, RingStore
<1>3. CASE ReadEnds
  BY <1>3, RingKept DEF ReadEnds
<1>4. CASE StartJob \/ EndJob \/ NoJob
  BY <1>4, RingKept DEF StartJob, EndJob, NoJob, Prompt
<1>5. CASE NodeInput \/ NodeInputEnds \/ LuaMain
  <2>1. pc' = pc /\ UNCHANGED ringVars
    BY <1>5, MainKeeps, Zenon DEF NodeInput, NodeInputEnds
  <2> QED BY <2>1, RingKept
<1> QED BY <1>1, <1>2, <1>3, <1>4, <1>5 DEF Next, UartTask, ReadLine, Taking

(* The remainders that RingKeepsAll counts with.                           *)
LEMMA Around ==
  ASSUME NEW a \in Int, NEW n \in Nat \ {0}, -n <= a, a < 2 * n
  PROVE  a % n = IF a < 0 THEN a + n ELSE IF a < n THEN a ELSE a - n
OBVIOUS

LEMMA RingIsStored == ASSUME RingOK PROVE RingKeepsAll
<1> USE ConsoleAssumption DEF RingOK, Size
<1> DEFINE m == RX_BUFF_SIZE + 1
<1>0. m \in Nat \ {0} /\ wpos \in 0 .. m - 1 /\ rpos \in 0 .. m - 1 /\ wpos \in Int /\ rpos \in Int
  BY DEF RingTypes
<1>1. (wpos - rpos) % m = Dist
  <2> HIDE DEF m
  <2>1. wpos - rpos \in Int /\ -m <= wpos - rpos /\ wpos - rpos < 2 * m
    BY <1>0
  <2>2. (wpos - rpos) % m = IF wpos - rpos < 0 THEN wpos - rpos + m
                            ELSE IF wpos - rpos < m THEN wpos - rpos ELSE wpos - rpos - m
    BY <1>0, <2>1, Around
  <2> QED BY <1>0, <2>2 DEF Dist, m
<1>2. ASSUME NEW i \in 1 .. Dist
      PROVE  (rpos + i - 1) % (RX_BUFF_SIZE + 1) = Place(i) /\ Place(i) \in 0 .. RX_BUFF_SIZE
  <2> DEFINE a == rpos + i - 1
  <2>1. Dist \in 0 .. m - 1
    BY <1>0 DEF Dist
  <2>2. a \in Int /\ -m <= a /\ a < 2 * m /\ 0 <= a
    BY <1>0, <2>1
  <2>3. a % m = IF a < 0 THEN a + m ELSE IF a < m THEN a ELSE a - m
    <3> HIDE DEF a, m
    <3> QED BY <1>0, <2>2, Around
  <2>4. Place(i) = IF a >= m THEN a - m ELSE a
    BY <1>0 DEF Place
  <2> HIDE DEF a
  <2> QED BY <1>0, <2>2, <2>3, <2>4 DEF a
<1>3. /\ Dist \in Nat
      /\ Len(unread) = Dist + Len(pbuff)
      /\ pbuff \in Seq(Char) /\ Len(pbuff) \in Nat /\ unread \in Seq(Char)
      /\ \A i \in 1 .. Len(unread) : unread[i] \in Char
  BY LenProperties, ElementOfSeq DEF RingTypes, Counted, Dist
<1> DEFINE held == [i \in 1 .. Dist |-> ring[Place(i)]]
<1>4. Stored = held
  BY <1>1, <1>2 DEF Stored
<1>5. held \in Seq(Char) /\ Len(held) = Dist
  <2>1. \A i \in 1 .. Dist : ring[Place(i)] \in Char
    BY <1>3 DEF Queued
  <2> QED BY <1>3, <2>1
<1>6. /\ held \o pbuff \in Seq(Char) /\ Len(held \o pbuff) = Dist + Len(pbuff)
      /\ \A i \in 1 .. Dist + Len(pbuff) :
           (held \o pbuff)[i] = IF i <= Dist THEN held[i] ELSE pbuff[i - Dist]
  BY <1>3, <1>5, ConcatProperties
<1>7. ASSUME NEW i \in 1 .. Len(unread) PROVE unread[i] = (held \o pbuff)[i]
  <2>1. CASE i <= Dist
    BY <1>3, <1>6, <2>1 DEF Queued
  <2>2. CASE i > Dist
    <3>1. i - Dist \in 1 .. Len(pbuff) /\ Dist + (i - Dist) = i
      BY <1>3, <2>2
    <3>2. unread[i] = pbuff[i - Dist]
      BY <3>1 DEF Queued
    <3>3. (held \o pbuff)[i] = pbuff[i - Dist]
      <4> HIDE DEF held
      <4> QED BY <1>3, <1>6, <2>2
    <3> QED BY <3>2, <3>3
  <2> QED BY <1>3, <2>1, <2>2
<1>8. unread = held \o pbuff
  BY <1>3, <1>6, <1>7, SeqEqual
<1> QED BY <1>4, <1>8 DEF RingKeepsAll

-----------------------------------------------------------------------------
(* The line.                                                               *)

(* What c_strlen finds is text, and ends inside a line that has a Nul.     *)
LEMMA TextOfLine ==
  ASSUME NEW l \in [0 .. LUA_MAXINPUT - 1 -> Letter \union {Nul}]
  PROVE  /\ TextOf(l) \in Seq(Letter)
         /\ (\E i \in 0 .. LUA_MAXINPUT - 1 : l[i] = Nul) => Len(TextOf(l)) < LUA_MAXINPUT
<1> USE ConsoleAssumption
<1> DEFINE ends == {i \in DOMAIN l : l[i] = Nul}
           first == CHOOSE i \in ends : \A j \in ends : i <= j
           n == IF ends = {} THEN LUA_MAXINPUT ELSE first
<1>1. ends \subseteq 0 .. LUA_MAXINPUT - 1
  OBVIOUS
<1>2. ASSUME ends # {} PROVE first \in ends /\ \A j \in ends : first <= j
  <2>1. ends \subseteq Nat
    BY <1>1
  <2>2. \E x \in ends : \A y \in ends : x <= y
    <3> HIDE DEF ends
    <3> QED BY <1>2, <2>1, Least
  <2> HIDE DEF ends
  <2> QED BY <2>2
<1>3. n \in 0 .. LUA_MAXINPUT /\ \A i \in 1 .. n : l[i - 1] \in Letter
  <2>1. CASE ends = {}
    BY <2>1
  <2>2. CASE ends # {}
    <3>1. first \in 0 .. LUA_MAXINPUT - 1 /\ \A j \in ends : first <= j
      BY <1>1, <1>2, <2>2
    <3>2. ASSUME NEW i \in 1 .. first PROVE l[i - 1] \in Letter
      <4> HIDE DEF first
      <4>1. i - 1 \in 0 .. LUA_MAXINPUT - 1 /\ ~(first <= i - 1)
        BY <3>1
      <4>2. i - 1 \notin ends
        BY <3>1, <4>1
      <4> QED BY <4>1, <4>2
    <3> HIDE DEF first
    <3> QED BY <2>2, <3>1, <3>2
  <2> QED BY <2>1, <2>2
<1>4. TextOf(l) = [i \in 1 .. n |-> l[i - 1]]
  BY Zenon DEF TextOf
<1>5. ends # {} => n < LUA_MAXINPUT
  <2> SUFFICES ASSUME ends # {} PROVE first < LUA_MAXINPUT
    OBVIOUS
  <2> HIDE DEF first
  <2> QED BY <1>1, <1>2
<1> HIDE DEF n
<1>6. TextOf(l) \in Seq(Letter) /\ Len(TextOf(l)) = n
  BY <1>3, <1>4
<1> QED BY <1>5, <1>6

LineTypes ==
  /\ line \in [0 .. LUA_MAXINPUT - 1 -> Letter \union {Nul}]
  /\ pos \in -1 .. LUA_MAXINPUT

(* Where readline writes, and what.                                        *)
LEMMA TakesWhere ==
  ASSUME LineTypes, Taking
  PROVE  \/ line' = line
         \/ \E p \in -1 .. LUA_MAXINPUT : line' = Put(p, Nul)
         \/ \E p \in -1 .. LUA_MAXINPUT - 2, ch \in Letter : line' = Put(p, ch)
<1> USE ConsoleAssumption DEF LineTypes
<1>1. CASE SecondOfPair
  BY <1>1 DEF SecondOfPair
<1>2. CASE EndEmptyLine \/ EndLine \/ TornEnd
  <2>1. line' = Put(pos, Nul)
    BY <1>2 DEF EndEmptyLine, EndLine, TornEnd
  <2> QED BY <2>1
<1>3. CASE Erase \/ TornErase
  <2>1. line' = Put(pos', Nul) /\ pos' \in {Back(pos), -1, 0, pos - 1} /\ (pos > 0 \/ pos' = Back(pos))
    BY <1>3 DEF Erase, TornErase
  <2>2. pos' \in -1 .. LUA_MAXINPUT
    BY <2>1 DEF Back
  <2> QED BY <2>1, <2>2
<1>4. CASE AddLetter
  <2>1. PICK ch \in Letter : line' = Put(IF TooLong THEN 0 ELSE pos, ch)
    BY <1>4 DEF AddLetter
  <2>2. (IF TooLong THEN 0 ELSE pos) \in -1 .. LUA_MAXINPUT - 2
    BY DEF TooLong
  <2> QED BY <2>1, <2>2
<1>5. CASE TornLetter
  <2>1. PICK ch \in Letter : line' = Put(pos, ch)
    BY <1>5 DEF TornLetter
  <2>2. pos \in -1 .. LUA_MAXINPUT - 2
    BY <1>5 DEF TornLetter, TooLong
  <2> QED BY <2>1, <2>2
<1> QED BY <1>1, <1>2, <1>3, <1>4, <1>5 DEF Taking, Torn

(* Where it leaves the position.                                           *)
LEMMA TakesTo ==
  ASSUME LineTypes, crossed \in BOOLEAN, Taking
  PROVE  /\ pos' \in -1 .. LUA_MAXINPUT
         /\ pos < LUA_MAXINPUT => pos' < LUA_MAXINPUT
         /\ pos' < 0 => pos < 0 \/ crossed'
<1> USE ConsoleAssumption DEF LineTypes
<1>1. CASE SecondOfPair \/ EndEmptyLine \/ EndLine
  BY <1>1 DEF SecondOfPair, EndEmptyLine, EndLine
<1>2. CASE Erase
  BY <1>2 DEF Erase, Back
<1>3. CASE AddLetter
  BY <1>3 DEF AddLetter, TooLong
<1>4. CASE Torn
  <2>1. crossed' = TRUE
    BY <1>4, TornTakes
  <2>2. \/ pos' \in {1, pos + 1} /\ ~(pos + 1 >= LUA_MAXINPUT)
        \/ pos > 0 /\ pos' \in {-1, 0, pos - 1}
        \/ pos' = 0
    BY <1>4 DEF Torn, TornLetter, TornErase, TornEnd, TooLong
  <2> QED BY <2>1, <2>2
<1> QED BY <1>1, <1>2, <1>3, <1>4 DEF Taking

(* A character or a Nul is put where line_buffer has room for it, and the  *)
(* last place is never one of a character.                                 *)
LEMMA NextLine == ASSUME TypeOK, LineOK, Next PROVE LineTypes' /\ LineOK'
<1> USE ConsoleAssumption
<1>0. LineTypes /\ fed \in BOOLEAN /\ crossed \in BOOLEAN
  BY DEF TypeOK, LineTypes
<1>1. CASE Taking
  <2>1. fed' = fed /\ (crossed => crossed')
    BY <1>1, TakingTakes DEF Take
  <2>2. \/ line' = line
        \/ \E p \in -1 .. LUA_MAXINPUT : line' = Put(p, Nul)
        \/ \E p \in -1 .. LUA_MAXINPUT - 2, ch \in Letter : line' = Put(p, ch)
    BY <1>0, <1>1, TakesWhere
  <2>3. line' \in [0 .. LUA_MAXINPUT - 1 -> Letter \union {Nul}] /\ line'[LUA_MAXINPUT - 1] = Nul
    BY <1>0, <2>2 DEF Put, LineTypes, LineOK
  <2>4. pos' \in -1 .. LUA_MAXINPUT /\ (pos < LUA_MAXINPUT => pos' < LUA_MAXINPUT)
        /\ (pos' < 0 => pos < 0 \/ crossed')
    BY <1>0, <1>1, TakesTo
  <2> QED BY <1>0, <2>1, <2>3, <2>4 DEF LineTypes, LineOK
<1>2. CASE Wipe
  <2>1. PICK i : line' = Put(i, Nul)
    BY <1>2 DEF Wipe
  <2>2. UNCHANGED <<pos, fed, crossed>>
    BY <1>2 DEF Wipe, Main
  <2> QED BY <1>0, <2>1, <2>2 DEF Put, LineTypes, LineOK
<1>3. CASE EndJob \/ NoJob
  <2>1. pos' = 0 /\ line' = NoLine
    BY <1>3 DEF EndJob, NoJob, Clear, ClearedPos
  <2> QED BY <2>1 DEF NoLine, LineTypes, LineOK
<1>6. CASE LoadInit \/ ClearDone
  BY <1>0, <1>6 DEF LoadInit, ClearDone, Main, LineTypes, LineOK
<1>7. CASE ResetPos
  BY <1>0, <1>7 DEF ResetPos, history, LineTypes, LineOK
<1>8. CASE NodeInputEnds
  <2>1. pos' = Len(TextOf(line)) + 1 /\ fed' = TRUE /\ line' = line
    BY <1>8, Zenon DEF NodeInputEnds
  <2>2. TextOf(line) \in Seq(Letter) /\ Len(TextOf(line)) < LUA_MAXINPUT
    BY <1>0, TextOfLine DEF LineTypes, LineOK
  <2>3. Len(TextOf(line)) \in Nat
    BY <2>2, LenProperties
  <2> QED BY <1>0, <2>1, <2>2, <2>3 DEF LineTypes, LineOK
<1>4. CASE NodeInput
  <2>1. PICK s \in Fed :
          /\ Len(s) > 0 /\ Len(s) < LUA_MAXINPUT - 1
          /\ line' = [i \in DOMAIN line |-> CASE i < Len(s) -> s[i + 1]
                                              [] i = Len(s) + 1 -> Nul
                                              [] OTHER -> line[i]]
    BY <1>4, Zenon DEF NodeInput
  <2>2. s \in Seq(Letter) /\ Len(s) \in Nat /\ \A i \in 1 .. Len(s) : s[i] \in Letter
    BY LenProperties, ElementOfSeq
  <2>3. line' = [i \in 0 .. LUA_MAXINPUT - 1 |-> IF i < Len(s) THEN s[i + 1]
                                                  ELSE IF i = Len(s) + 1 THEN Nul ELSE line[i]]
    <3>1. DOMAIN line = 0 .. LUA_MAXINPUT - 1
      BY <1>0 DEF LineTypes
    <3>2. \A i \in 0 .. LUA_MAXINPUT - 1 :
            (CASE i < Len(s) -> s[i + 1] [] i = Len(s) + 1 -> Nul [] OTHER -> line[i])
              = IF i < Len(s) THEN s[i + 1] ELSE IF i = Len(s) + 1 THEN Nul ELSE line[i]
      <4>1. \A i \in 0 .. LUA_MAXINPUT - 1 : ~(i < Len(s) /\ i = Len(s) + 1)
        BY <2>2
      <4> QED BY <4>1, Zenon
    <3> QED BY <2>1, <3>1, <3>2, Zenon
  <2>4. line' \in [0 .. LUA_MAXINPUT - 1 -> Letter \union {Nul}]
    BY <1>0, <2>2, <2>3 DEF LineTypes
  <2>6. line'[LUA_MAXINPUT - 1] = Nul
    BY <2>1, <2>2, <2>3 DEF LineOK
  <2>7. UNCHANGED <<pos, crossed>> /\ fed' = TRUE
    BY <1>4, Zenon DEF NodeInput
  <2> QED BY <1>0, <2>4, <2>6, <2>7 DEF LineTypes, LineOK
<1>5. CASE Aside
  BY <1>0, <1>5, AsideKeeps DEF history, LineTypes, LineOK
<1> QED BY <1>1, <1>2, <1>3, <1>4, <1>5, <1>6, <1>7, <1>8, NextCases

(* The history of what was typed, and the lines that wait for more.        *)
LEMMA NextTyped ==
  ASSUME TypeOK, Next
  PROVE  typed' \in Seq(Char) /\ from' \in 0 .. Len(typed') /\ chunk' \in Seq(Seq(Letter))
<1> USE ConsoleAssumption
<1>0. /\ typed \in Seq(Char) /\ Len(typed) \in Nat /\ from \in 0 .. Len(typed)
      /\ chunk \in Seq(Seq(Letter)) /\ <<>> \in Seq(Seq(Letter))
  BY LenProperties, EmptySeq DEF TypeOK
<1>1. CASE Taking
  <2>1. PICK ch \in Char : Take(ch)
    BY <1>1, TakingTakes
  <2>2. typed' \in Seq(Char) /\ Len(typed') = Len(typed) + 1
    BY <1>0, <2>1, AppendProperties DEF Take
  <2> QED BY <1>0, <2>1, <2>2 DEF Take, jobVars
<1>2. CASE StartJob \/ MainJob
  <2>1. TextOf(line) \in Seq(Letter)
    BY TextOfLine DEF TypeOK
  <2>2. PICK c \in Seq(Seq(Letter)) : chunk' = Append(c, TextOf(line))
    BY <1>0, <1>2 DEF StartJob, MainJob, Join
  <2>3. chunk' \in Seq(Seq(Letter))
    BY <2>1, <2>2, AppendProperties
  <2>4. UNCHANGED <<typed, from>>
    BY <1>2, AsideKeeps DEF Aside, history
  <2> QED BY <1>0, <2>3, <2>4
<1>3. CASE EndJob \/ NoJob \/ Wipe \/ MainEndJob
  <2>1. UNCHANGED typed /\ from' \in {from, Len(typed)}
    BY <1>3 DEF EndJob, NoJob, Wipe, MainEndJob, Main, Clear
  <2>2. chunk' \in {chunk, <<>>}
    BY <1>3, Zenon DEF EndJob, NoJob, Wipe, MainEndJob, Answer, jobVars
  <2>3. chunk' \in Seq(Seq(Letter))
    BY <1>0, <2>2, Zenon
  <2> QED BY <1>0, <2>1, <2>3
<1>4. CASE NodeInput \/ NodeInputEnds
  <2>1. UNCHANGED <<typed, from, chunk>>
    BY <1>4, Zenon DEF NodeInput, NodeInputEnds, jobVars
  <2> QED BY <1>0, <2>1
<1>5. CASE Receive \/ Store \/ ReadEnds
  BY <1>0, <1>5 DEF Receive, Store, ReadEnds, jobVars, history
<1>6. CASE LoadInit \/ LoadLine \/ LoadPrompt \/ MainNoJob \/ ClearDone \/ ResetPos
  BY <1>0, <1>6 DEF LoadInit, LoadLine, LoadPrompt, MainNoJob, ClearDone, ResetPos, Main, jobVars, history
<1> QED BY <1>1, <1>2, <1>3, <1>4, <1>5, <1>6 DEF Next, UartTask, ReadLine, LuaMain, Taking

Marks ==
  /\ last_nl_char \in LineEnd \union {Nul} /\ prompts \in Nat
  /\ need \in BOOLEAN /\ done \in BOOLEAN /\ firstline \in BOOLEAN /\ prmt \in BOOLEAN
  /\ discarded \in BOOLEAN /\ fed \in BOOLEAN /\ crossed \in BOOLEAN

LEMMA NextMarks == ASSUME TypeOK, Next PROVE Marks'
<1>0. Marks
  BY DEF TypeOK, Marks
<1>1. CASE Taking
  <2>1. last_nl_char' \in LineEnd \union {Nul}
    BY <1>1 DEF Taking, SecondOfPair, Erase, EndEmptyLine, EndLine, AddLetter, Torn, TornLetter,
                TornErase, TornEnd, TakeEnd
  <2>2. UNCHANGED <<firstline, prmt, fed>> /\ crossed' \in BOOLEAN
    BY <1>1, TakingTakes DEF Take, jobVars
  <2>3. /\ need' \in {need, TRUE} /\ done' \in {done, TRUE} /\ prompts' \in {prompts, prompts + 1}
        /\ discarded' \in BOOLEAN
    <3>1. CASE SecondOfPair \/ Erase \/ EndEmptyLine \/ EndLine
      BY <1>0, <3>1, Zenon DEF SecondOfPair, Erase, EndEmptyLine, EndLine, Prompt, Marks
    <3>2. CASE AddLetter
      <4>1. (discarded \/ TooLong) \in BOOLEAN
        BY Zenon
      <4> QED BY <3>2, <4>1, Zenon DEF AddLetter
    <3>3. CASE Torn
      BY <1>0, <3>3, Zenon DEF Torn, TornLetter, TornErase, TornEnd, Prompt, Marks
    <3> QED BY <1>1, <3>1, <3>2, <3>3 DEF Taking
  <2>4. prompts' \in Nat
    BY <1>0, <2>3 DEF Marks
  <2> QED BY <1>0, <2>1, <2>2, <2>3, <2>4, Zenon DEF Marks
<1>2. CASE EndJob \/ NoJob
  <2>1. /\ UNCHANGED <<need, last_nl_char>> /\ done' = FALSE /\ discarded' = FALSE /\ fed' = FALSE
        /\ crossed' \in BOOLEAN
    BY <1>2 DEF EndJob, NoJob, Clear
  <2>2. firstline' \in {firstline, TRUE, FALSE} /\ prmt' \in {prmt, TRUE} /\ prompts' \in {prompts, prompts + 1}
    BY <1>2, Zenon DEF EndJob, NoJob, Answer, Prompt, jobVars
  <2>3. prompts' \in Nat
    BY <1>0, <2>2 DEF Marks
  <2> QED BY <1>0, <2>1, <2>2, <2>3, Zenon DEF Marks
<1>3. CASE LuaMain
  <2>1. UNCHANGED <<need, last_nl_char, fed, crossed>>
    BY <1>3, MainKeeps
  <2>2. /\ done' \in {done, FALSE} /\ discarded' \in {discarded, FALSE}
        /\ firstline' \in {firstline, TRUE, FALSE} /\ prmt' \in {prmt, TRUE}
        /\ prompts' \in {prompts, prompts + 1}
    <3>1. CASE LoadInit \/ LoadLine \/ LoadPrompt \/ MainJob \/ MainNoJob
      BY <3>1, Zenon DEF LoadInit, LoadLine, LoadPrompt, MainJob, MainNoJob, jobVars
    <3>2. CASE MainEndJob \/ ClearDone \/ ResetPos
      BY <3>2, Zenon DEF MainEndJob, ClearDone, ResetPos, Answer, jobVars, history
    <3>3. CASE Wipe
      BY <3>3, Zenon DEF Wipe, jobVars
    <3> QED BY <1>3, <3>1, <3>2, <3>3 DEF LuaMain
  <2>3. prompts' \in Nat
    BY <1>0, <2>2 DEF Marks
  <2> QED BY <1>0, <2>1, <2>2, <2>3, Zenon DEF Marks
<1>4. CASE NodeInput \/ NodeInputEnds
  <2>1. /\ done' \in {done, TRUE} /\ fed' = TRUE
        /\ UNCHANGED <<need, last_nl_char, firstline, prmt, discarded, crossed, prompts>>
    BY <1>4, Zenon DEF NodeInput, NodeInputEnds, jobVars
  <2> QED BY <1>0, <2>1 DEF Marks
<1>5. CASE Receive \/ Store \/ ReadEnds \/ StartJob
  BY <1>0, <1>5 DEF Receive, Store, ReadEnds, StartJob, jobVars, history, Marks
<1> QED BY <1>1, <1>2, <1>3, <1>4, <1>5 DEF Next, UartTask, ReadLine, Taking

(* Where the main task is.                                                 *)
MainTypes ==
  /\ main \in {"load", "line", "pos", "prompt", "dojob", "lua", "done", "reset", "wipe", "idle"}
  /\ stale \subseteq 0 .. LUA_MAXINPUT - 1
  /\ feeder \in {"uart", "main", "nobody"}

LEMMA NextMain == ASSUME TypeOK, Next PROVE MainTypes'
<1>0. MainTypes /\ DOMAIN line = 0 .. LUA_MAXINPUT - 1
  BY DEF TypeOK, MainTypes
<1>1. CASE Taking
  <2>1. feeder' = feeder
    BY <1>1, TakingTakes DEF Take
  <2>2. CASE Torn
    <3>1. main' \in {"prompt", "wipe"} /\ stale' \in {stale, DOMAIN line}
      BY <2>2, Zenon DEF Torn, TornLetter, TornErase, TornEnd, Resets
    <3> QED BY <1>0, <2>1, <3>1 DEF MainTypes
  <2> QED BY <1>0, <1>1, <2>1, <2>2, TakingTakes DEF MainTypes
<1>2. CASE Receive \/ Store \/ ReadEnds \/ StartJob \/ EndJob \/ NoJob
  BY <1>0, <1>2 DEF Receive, Store, ReadEnds, StartJob, EndJob, NoJob, mainVars, MainTypes
<1>3. CASE ResetPos
  <2>1. main' \in {"prompt", "wipe"} /\ stale' \in {stale, DOMAIN line} /\ feeder' = feeder
    BY <1>3, Zenon DEF ResetPos, Resets
  <2> QED BY <1>0, <2>1 DEF MainTypes
<1>4. CASE LoadInit \/ LoadLine \/ LoadPrompt \/ MainJob \/ MainNoJob \/ MainEndJob \/ ClearDone
  <2>1. /\ main' \in {"line", "pos", "dojob", "lua", "done", "reset"}
        /\ UNCHANGED <<stale, feeder>>
    BY <1>4, Zenon DEF LoadInit, LoadLine, LoadPrompt, MainJob, MainNoJob, MainEndJob, ClearDone, Main
  <2> QED BY <1>0, <2>1 DEF MainTypes
<1>5. CASE Wipe
  <2>1. main' \in {"idle", "wipe"} /\ feeder' = feeder /\ \E i : stale' = stale \ {i}
    BY <1>5, Zenon DEF Wipe, Main
  <2> QED BY <1>0, <2>1 DEF MainTypes
<1>6. CASE NodeInput \/ NodeInputEnds
  <2>1. feeder' \in {"uart", "main", "nobody"} /\ UNCHANGED <<main, stale>>
    BY <1>6, Zenon DEF NodeInput, NodeInputEnds
  <2> QED BY <1>0, <2>1 DEF MainTypes
<1> QED BY <1>1, <1>2, <1>3, <1>4, <1>5, <1>6 DEF Next, UartTask, ReadLine, LuaMain, Taking

-----------------------------------------------------------------------------
(* What an editor makes of what is typed.                                  *)

LEMMA EditTyped ==
  ASSUME NEW text \in Seq(Letter), NEW ch \in Char
  PROVE  Edit(text, ch) \in Seq(Letter)
<1> USE ConsoleAssumption
<1>1. CASE ch \in LineEnd
  <2>1. Edit(text, ch) = text
    BY <1>1, Zenon DEF Edit, LineEnd
  <2> QED BY <2>1
<1>2. CASE ch = BS
  <2>1. Edit(text, ch) = IF text = <<>> THEN text ELSE Front(text)
    BY <1>2 DEF Edit, LineEnd
  <2>2. \A i \in 1 .. Len(text) - 1 : text[i] \in Letter
    BY ElementOfSeq
  <2>3. Front(text) \in Seq(Letter)
    BY <2>2, SubSeqProperties DEF Front
  <2> QED BY <2>1, <2>3
<1>3. CASE ch \in Letter
  <2>1. Edit(text, ch) = IF Len(text) + 1 < LUA_MAXINPUT THEN Append(text, ch) ELSE <<ch>>
    BY <1>3, Zenon DEF Edit, LineEnd
  <2> QED BY <1>3, <2>1
<1> QED BY <1>1, <1>2, <1>3 DEF Char, LineEnd

(* The texts that s has been edited to after each of its characters.       *)
Texts(f, s) ==
  /\ f \in [0 .. Len(s) -> Seq(Letter)] /\ f[0] = <<>>
  /\ \A i \in 1 .. Len(s) : f[i] = Edit(f[i - 1], s[i])

LEMMA TextsExist ==
  ASSUME NEW s \in Seq(Char)
  PROVE  \E f : Texts(f, s)
<1> DEFINE n == Len(s)
           R == [p \in (1 .. n) \X Seq(Letter) |-> Edit(p[2], s[p[1]])]
<1>1. n \in Nat /\ \A i \in 1 .. n : s[i] \in Char
  BY LenProperties, ElementOfSeq
<1>2. <<>> \in Seq(Letter)
  BY EmptySeq
<1>3. R \in [(1 .. n) \X Seq(Letter) -> Seq(Letter)]
  <2>1. \A p \in (1 .. n) \X Seq(Letter) : Edit(p[2], s[p[1]]) \in Seq(Letter)
    BY <1>1, EditTyped
  <2> QED BY <2>1
<1>4. \A i \in 1 .. n, t \in Seq(Letter) : R[<<i, t>>] = Edit(t, s[i])
  OBVIOUS
<1> HIDE DEF R, n
<1>5. PICK f : Chain(f, n, Seq(Letter), <<>>, R)
  BY <1>1, <1>2, <1>3, ChainExists
<1>6. f \in [0 .. n -> Seq(Letter)] /\ f[0] = <<>> /\ \A i \in 1 .. n : f[i] = R[<<i, f[i - 1]>>]
  BY <1>5 DEF Chain
<1>7. \A i \in 1 .. n : f[i - 1] \in Seq(Letter)
  BY <1>1, <1>6
<1>8. Texts(f, s)
  BY <1>4, <1>6, <1>7 DEF Texts, n
<1> QED BY <1>8

LEMMA EditedIs ==
  ASSUME NEW s \in Seq(Char), NEW f, Texts(f, s)
  PROVE  Edited(s) = f[Len(s)]
<1> DEFINE n == Len(s)
           text == CHOOSE g : g = [i \in 0 .. n |-> IF i = 0 THEN <<>> ELSE Edit(g[i - 1], s[i])]
<1>1. n \in Nat
  BY LenProperties
<1>2. f = [i \in 0 .. n |-> IF i = 0 THEN <<>> ELSE Edit(f[i - 1], s[i])]
  <2>1. \A i \in 0 .. n : f[i] = IF i = 0 THEN <<>> ELSE Edit(f[i - 1], s[i])
    BY <1>1 DEF Texts
  <2>2. f = [i \in 0 .. n |-> f[i]]
    BY DEF Texts
  <2> HIDE DEF n
  <2> QED BY <2>1, <2>2
<1>3. text = [i \in 0 .. n |-> IF i = 0 THEN <<>> ELSE Edit(text[i - 1], s[i])]
  <2> HIDE DEF n
  <2> QED BY <1>2, Zenon
<1>4. Edited(s) = text[n]
  BY Zenon DEF Edited
<1> HIDE DEF text
<1>5. text[0] = f[0] /\ \A i \in 1 .. n : text[i - 1] = f[i - 1] => text[i] = f[i]
  <2>1. text[0] = <<>> /\ \A i \in 1 .. n : text[i] = Edit(text[i - 1], s[i])
    BY <1>1, <1>3
  <2> QED BY <2>1 DEF Texts
<1>6. text[n] = f[n]
  <2> HIDE DEF n
  <2>1. 0 <= n /\ 0 + 1 = 1
    BY <1>1
  <2> QED BY <1>1, <1>5, <2>1, Agree
<1> QED BY <1>4, <1>6

LEMMA EditedEmpty == Edited(<<>>) = <<>>
<1>1. <<>> \in Seq(Char) /\ Len(<<>>) = 0 /\ <<>> \in Seq(Letter)
  BY EmptySeq
<1>2. Texts([i \in 0 .. 0 |-> <<>>], <<>>)
  BY <1>1 DEF Texts
<1>3. Edited(<<>>) = [i \in 0 .. 0 |-> <<>>][0]
  BY <1>1, <1>2, EditedIs
<1> QED BY <1>3

LEMMA EditedAppend ==
  ASSUME NEW s \in Seq(Char), NEW ch \in Char
  PROVE  Edited(s) \in Seq(Letter) /\ Edited(Append(s, ch)) = Edit(Edited(s), ch)
<1> DEFINE n == Len(s)  t == Append(s, ch)
<1>1. n \in Nat
  BY LenProperties
<1>2. PICK f : Texts(f, s)
  BY TextsExist
<1>3. Edited(s) = f[n] /\ f[n] \in Seq(Letter)
  BY <1>1, <1>2, EditedIs DEF Texts
<1>4. t \in Seq(Char) /\ Len(t) = n + 1 /\ t[n + 1] = ch /\ \A i \in 1 .. n : t[i] = s[i]
  BY <1>1, AppendProperties
<1> DEFINE e == Edit(f[n], ch)
           g == [i \in 0 .. n + 1 |-> IF i = n + 1 THEN e ELSE f[i]]
<1>5. e \in Seq(Letter)
  BY <1>3, EditTyped
<1>6. g \in [0 .. n + 1 -> Seq(Letter)] /\ g[0] = <<>> /\ g[n + 1] = e
  <2> HIDE DEF e
  <2> QED BY <1>1, <1>2, <1>5 DEF Texts
<1>7. ASSUME NEW i \in 1 .. n + 1 PROVE g[i] = Edit(g[i - 1], t[i])
  <2>1. CASE i = n + 1
    <3>1. g[i] = e /\ g[i - 1] = f[n]
      <4> HIDE DEF e
      <4> QED BY <1>1, <2>1
    <3> QED BY <1>4, <2>1, <3>1
  <2>2. CASE i # n + 1
    <3>1. i \in 1 .. n /\ g[i] = f[i] /\ g[i - 1] = f[i - 1]
      <4> HIDE DEF e
      <4> QED BY <1>1, <2>2
    <3> QED BY <1>2, <1>4, <3>1 DEF Texts
  <2> QED BY <2>1, <2>2
<1> HIDE DEF g, e
<1>8. Texts(g, t)
  BY <1>4, <1>6, <1>7 DEF Texts
<1>9. Edited(t) = g[n + 1]
  BY <1>4, <1>8, EditedIs
<1> QED BY <1>3, <1>6, <1>9 DEF e

(* The line is edited on from where it was last cleared.                   *)
LEMMA SinceSeq ==
  ASSUME NEW s \in Seq(Char), NEW b \in 0 .. Len(s)
  PROVE  /\ SubSeq(s, b + 1, Len(s)) \in Seq(Char)
         /\ b = Len(s) => SubSeq(s, b + 1, Len(s)) = <<>>
         /\ \A ch \in Char : SubSeq(Append(s, ch), b + 1, Len(Append(s, ch)))
                               = Append(SubSeq(s, b + 1, Len(s)), ch)
<1>1. Len(s) \in Nat /\ b \in Nat /\ \A i \in 1 .. Len(s) : s[i] \in Char
  BY LenProperties, ElementOfSeq
<1>2. PICK n : n = Len(s)
  OBVIOUS
<1>3. n \in Nat /\ b \in 0 .. n
  BY <1>1, <1>2
<1> DEFINE u == SubSeq(s, b + 1, n)
<1>4. /\ u \in Seq(Char) /\ Len(u) = n - b
      /\ \A i \in 1 .. n - b : u[i] = s[b + i]
  <2>1. \A i \in b + 1 .. n : s[i] \in Char
    BY <1>1, <1>2, <1>3
  <2>2. /\ u \in Seq(Char) /\ Len(u) = IF b + 1 <= n THEN n - (b + 1) + 1 ELSE 0
        /\ \A i \in 1 .. n - (b + 1) + 1 : u[i] = s[(b + 1) + i - 1]
    BY <1>3, <2>1, SubSeqProperties
  <2>3. n - (b + 1) + 1 = n - b /\ \A i \in 1 .. n - b : (b + 1) + i - 1 = b + i
    BY <1>3
  <2>4. Len(u) = n - b
    <3> HIDE DEF u
    <3> QED BY <1>3, <2>2
  <2> HIDE DEF u
  <2> QED BY <2>2, <2>3, <2>4
<1>5. b = n => u = <<>>
  BY <1>3, SubSeqEmpty
<1>6. ASSUME NEW ch \in Char
      PROVE  SubSeq(Append(s, ch), b + 1, Len(Append(s, ch))) = Append(u, ch)
  <2> DEFINE t == Append(s, ch)  v == SubSeq(t, b + 1, n + 1)  w == Append(u, ch)
  <2>1. t \in Seq(Char) /\ Len(t) = n + 1 /\ t[n + 1] = ch /\ \A i \in 1 .. n : t[i] = s[i]
    BY <1>2, AppendProperties
  <2>2. /\ w \in Seq(Char) /\ Len(w) = n - b + 1 /\ w[n - b + 1] = ch
        /\ \A i \in 1 .. n - b : w[i] = u[i]
    <3> HIDE DEF u
    <3> QED BY <1>4, AppendProperties
  <2>3. /\ v \in Seq(Char) /\ Len(v) = n - b + 1
        /\ \A i \in 1 .. n - b + 1 : v[i] = t[b + i]
    <3> HIDE DEF t
    <3>1. \A i \in b + 1 .. n + 1 : t[i] \in Char
      <4>1. \A i \in 1 .. Len(t) : t[i] \in Char
        BY <2>1, ElementOfSeq
      <4> QED BY <1>3, <2>1, <4>1
    <3>2. /\ v \in Seq(Char) /\ Len(v) = IF b + 1 <= n + 1 THEN (n + 1) - (b + 1) + 1 ELSE 0
          /\ \A i \in 1 .. (n + 1) - (b + 1) + 1 : v[i] = t[(b + 1) + i - 1]
      BY <1>3, <3>1, SubSeqProperties
    <3>3. (n + 1) - (b + 1) + 1 = n - b + 1 /\ \A i \in 1 .. n - b + 1 : (b + 1) + i - 1 = b + i
      BY <1>3
    <3> HIDE DEF v
    <3> QED BY <1>3, <3>2, <3>3
  <2>4. ASSUME NEW i \in 1 .. n - b + 1 PROVE v[i] = w[i]
    <3> HIDE DEF v, w, t, u
    <3>1. CASE i = n - b + 1
      <4>1. b + i = n + 1
        BY <1>3, <3>1
      <4> QED BY <2>1, <2>2, <2>3, <3>1, <4>1
    <3>2. CASE i # n - b + 1
      <4>1. i \in 1 .. n - b /\ b + i \in 1 .. n
        BY <1>3, <3>2
      <4> QED BY <1>4, <2>1, <2>2, <2>3, <4>1
    <3> QED BY <3>1, <3>2
  <2>5. v = w
    <3> HIDE DEF v, w
    <3> QED BY <2>2, <2>3, <2>4, SeqEqual
  <2> QED BY <2>1, <2>5
<1> QED BY <1>2, <1>4, <1>5, <1>6

(* Whether each of the first n characters of s is the second of a pair.    *)
SecondAt(s, i, before) ==
  i > 1 /\ s[i] \in LineEnd /\ s[i - 1] \in LineEnd /\ s[i] # s[i - 1] /\ ~before
Seconds(f, s, n) ==
  f \in [1 .. n -> BOOLEAN] /\ \A i \in 1 .. n : f[i] = SecondAt(s, i, f[i - 1])

LEMMA SecondsExist ==
  ASSUME NEW s, NEW n \in Nat
  PROVE  \E f : Seconds(f, s, n)
<1> DEFINE R == [p \in (1 .. n) \X BOOLEAN |-> SecondAt(s, p[1], p[2])]
<1>1. R \in [(1 .. n) \X BOOLEAN -> BOOLEAN]
  <2>1. \A p \in (1 .. n) \X BOOLEAN : SecondAt(s, p[1], p[2]) \in BOOLEAN
    BY DEF SecondAt
  <2> QED BY <2>1
<1>2. \A i \in 1 .. n, b \in BOOLEAN : R[<<i, b>>] = SecondAt(s, i, b)
  OBVIOUS
<1> HIDE DEF R
<1>3. PICK f : Chain(f, n, BOOLEAN, FALSE, R)
  BY <1>1, ChainExists
<1>4. f \in [0 .. n -> BOOLEAN] /\ \A i \in 1 .. n : f[i] = R[<<i, f[i - 1]>>]
  BY <1>3 DEF Chain
<1> DEFINE g == [i \in 1 .. n |-> f[i]]
<1>5. ASSUME NEW i \in 1 .. n PROVE g[i] = SecondAt(s, i, g[i - 1])
  <2>1. f[i - 1] \in BOOLEAN /\ f[i] = R[<<i, f[i - 1]>>] /\ g[i] = f[i]
    BY <1>4
  <2>2. g[i] = SecondAt(s, i, f[i - 1])
    <3> HIDE DEF g
    <3> QED BY <1>2, <2>1
  <2>3. i > 1 => g[i - 1] = f[i - 1]
    OBVIOUS
  <2> HIDE DEF g
  <2> QED BY <2>2, <2>3 DEF SecondAt
<1>6. Seconds(g, s, n)
  <2>1. g \in [1 .. n -> BOOLEAN]
    BY <1>4
  <2> HIDE DEF g
  <2> QED BY <1>5, <2>1 DEF Seconds
<1> QED BY <1>6

(* They are what EndsPair computes.                                        *)
LEMMA EndsPairIs ==
  ASSUME NEW s \in Seq(Char), s # <<>>, NEW f, Seconds(f, s, Len(s))
  PROVE  EndsPair(s) = f[Len(s)]
<1> DEFINE n == Len(s)
           Def(g) == [i \in 1 .. n |-> i > 1 /\ s[i] \in LineEnd /\ s[i - 1] \in LineEnd
                                         /\ s[i] # s[i - 1] /\ ~g[i - 1]]
           second == CHOOSE g : g = Def(g)
<1>1. n \in Nat \ {0}
  BY LenProperties, EmptySeq
<1>2. f = Def(f)
  <2>1. \A i \in 1 .. n : f[i] = (i > 1 /\ s[i] \in LineEnd /\ s[i - 1] \in LineEnd
                                    /\ s[i] # s[i - 1] /\ ~f[i - 1])
    BY DEF Seconds, SecondAt
  <2>2. f = [i \in 1 .. n |-> f[i]]
    BY DEF Seconds
  <2> HIDE DEF n
  <2> QED BY <2>1, <2>2, Zenon
<1>3. second = Def(second)
  <2> HIDE DEF Def
  <2> QED BY <1>2, Zenon
<1>4. EndsPair(s) = second[n]
  BY Zenon DEF EndsPair
<1> HIDE DEF second
<1>5. \A i \in 1 .. n : second[i] = SecondAt(s, i, second[i - 1])
  <2> HIDE DEF n
  <2> QED BY <1>3, Zenon DEF SecondAt
<1> HIDE DEF Def
<1>6. second[1] = f[1]
  <2>1. 1 \in 1 .. n
    BY <1>1
  <2>2. second[1] = FALSE /\ f[1] = FALSE
    <3> HIDE DEF n
    <3> QED BY <1>5, <2>1 DEF Seconds, SecondAt, n
  <2> QED BY <2>2
<1>7. ASSUME NEW i \in 2 .. n, second[i - 1] = f[i - 1] PROVE second[i] = f[i]
  <2>1. i \in 1 .. n
    OBVIOUS
  <2>2. second[i] = SecondAt(s, i, second[i - 1]) /\ f[i] = SecondAt(s, i, f[i - 1])
    BY <1>5, <2>1 DEF Seconds
  <2> QED BY <1>7, <2>2
<1>8. second[n] = f[n]
  <2> HIDE DEF n
  <2>1. 1 <= n /\ 1 + 1 = 2 /\ 1 \in Nat /\ n \in Nat
    BY <1>1
  <2> QED BY <1>6, <1>7, <2>1, Agree
<1> QED BY <1>4, <1>8

LEMMA EndsPairAppend ==
  ASSUME NEW s \in Seq(Char), NEW ch \in Char
  PROVE  EndsPair(Append(s, ch)) <=>
           s # <<>> /\ ch \in LineEnd /\ Last(s) \in LineEnd /\ ch # Last(s) /\ ~EndsPair(s)
<1> DEFINE n == Len(s)  t == Append(s, ch)
<1>1. n \in Nat /\ (s # <<>> <=> n > 0)
  BY LenProperties, EmptySeq
<1>2. t \in Seq(Char) /\ Len(t) = n + 1 /\ t[n + 1] = ch /\ \A i \in 1 .. n : t[i] = s[i]
  BY AppendProperties
<1>3. t # <<>>
  BY <1>1, <1>2, EmptySeq
<1> HIDE DEF t
<1>4. PICK f : Seconds(f, t, n + 1)
  BY <1>1, SecondsExist
<1>5. EndsPair(t) = f[n + 1] /\ f[n + 1] \in BOOLEAN /\ f[n + 1] = SecondAt(t, n + 1, f[n])
  <2>1. n + 1 \in 1 .. n + 1 /\ (n + 1) - 1 = n
    BY <1>1
  <2>2. EndsPair(t) = f[n + 1]
    BY <1>2, <1>3, <1>4, EndsPairIs
  <2>3. f[n + 1] \in BOOLEAN /\ f[n + 1] = SecondAt(t, n + 1, f[(n + 1) - 1])
    <3> HIDE DEF n
    <3> QED BY <1>4, <2>1 DEF Seconds
  <2> QED BY <2>1, <2>2, <2>3
<1>6. CASE s = <<>>
  <2>1. ~SecondAt(t, n + 1, f[n])
    BY <1>1, <1>6 DEF SecondAt
  <2> QED BY <1>5, <1>6, <2>1 DEF t
<1>7. CASE s # <<>>
  <2>1. n \in 1 .. n /\ n + 1 > 1 /\ (n + 1) - 1 = n
    BY <1>1, <1>7
  <2> DEFINE g == [i \in 1 .. n |-> f[i]]
  <2>2. Seconds(g, s, n)
    <3>1. g \in [1 .. n -> BOOLEAN]
      BY <1>1, <1>4 DEF Seconds
    <3>2. ASSUME NEW i \in 1 .. n PROVE g[i] = SecondAt(s, i, g[i - 1])
      <4>1. g[i] = SecondAt(t, i, f[i - 1]) /\ t[i] = s[i]
        BY <1>1, <1>2, <1>4 DEF Seconds
      <4>2. i > 1 => g[i - 1] = f[i - 1] /\ t[i - 1] = s[i - 1]
        BY <1>1, <1>2
      <4> HIDE DEF g
      <4> QED BY <4>1, <4>2 DEF SecondAt
    <3> HIDE DEF g
    <3> QED BY <3>1, <3>2 DEF Seconds
  <2>3. EndsPair(s) = f[n]
    <3>1. EndsPair(s) = g[n]
      <4> HIDE DEF g
      <4> QED BY <1>7, <2>2, EndsPairIs
    <3> QED BY <2>1, <3>1
  <2>4. t[n] = Last(s) /\ t[n + 1] = ch
    BY <1>2, <2>1 DEF Last
  <2>5. SecondAt(t, n + 1, f[n]) <=> ch \in LineEnd /\ Last(s) \in LineEnd /\ ch # Last(s) /\ ~f[n]
    <3> HIDE DEF n
    <3> QED BY <2>1, <2>4 DEF SecondAt
  <2> QED BY <1>5, <1>7, <2>3, <2>5 DEF t
<1> QED BY <1>6, <1>7

-----------------------------------------------------------------------------
(* The characters that readline takes.                                     *)

LEMMA TakesOne ==
  ASSUME TypeOK, Taking
  PROVE  \E ch \in Char :
           /\ Take(ch)
           /\ typed' \in Seq(Char) /\ typed' # <<>> /\ Last(typed') = ch
           /\ EndsPair(typed') <=> /\ typed # <<>> /\ ch \in LineEnd /\ Last(typed) \in LineEnd
                                   /\ ch # Last(typed) /\ ~EndsPair(typed)
           /\ Since' = Append(Since, ch) /\ Since \in Seq(Char)
<1>1. PICK ch \in Char : Take(ch)
  BY TakingTakes
<1>2. /\ typed \in Seq(Char) /\ from \in 0 .. Len(typed) /\ Len(typed) \in Nat
      /\ typed' = Append(typed, ch) /\ from' = from
  BY <1>1 DEF TypeOK, Take
<1>3. typed' \in Seq(Char) /\ Len(typed') = Len(typed) + 1 /\ typed'[Len(typed) + 1] = ch
  BY <1>2, AppendProperties
<1>4. typed' # <<>> /\ Last(typed') = ch
  BY <1>2, <1>3, EmptySeq DEF Last
<1>5. EndsPair(Append(typed, ch)) <=> /\ typed # <<>> /\ ch \in LineEnd /\ Last(typed) \in LineEnd
                                      /\ ch # Last(typed) /\ ~EndsPair(typed)
  BY <1>2, EndsPairAppend
<1>6. Since \in Seq(Char) /\ Since' = Append(Since, ch)
  <2>1. Since' = SubSeq(Append(typed, ch), from + 1, Len(Append(typed, ch)))
    BY <1>2 DEF Since
  <2>2. /\ SubSeq(typed, from + 1, Len(typed)) \in Seq(Char)
        /\ SubSeq(Append(typed, ch), from + 1, Len(Append(typed, ch)))
             = Append(SubSeq(typed, from + 1, Len(typed)), ch)
    BY <1>2, SinceSeq
  <2> QED BY <2>1, <2>2 DEF Since
<1> QED BY <1>1, <1>2, <1>3, <1>4, <1>5, <1>6

(* A pair is recognised by the line end that waits.                        *)
LEMMA PairIs ==
  ASSUME TypeOK, Paired, Taking
  PROVE  PairWith(last_nl_char, Last(typed')) <=> EndsPair(typed')
<1>1. PICK ch \in Char :
        /\ Last(typed') = ch
        /\ EndsPair(typed') <=> /\ typed # <<>> /\ ch \in LineEnd /\ Last(typed) \in LineEnd
                                /\ ch # Last(typed) /\ ~EndsPair(typed)
  BY TakesOne
<1>2. Nul \notin LineEnd
  BY ConsoleAssumption DEF LineEnd
<1>3. CASE typed # <<>> /\ Last(typed) \in LineEnd /\ ~EndsPair(typed)
  BY <1>1, <1>3, Zenon DEF Paired, PairWith
<1>4. CASE ~(typed # <<>> /\ Last(typed) \in LineEnd /\ ~EndsPair(typed))
  <2>1. last_nl_char = Nul
    BY <1>4 DEF Paired
  <2> QED BY <1>1, <1>2, <1>4, <2>1 DEF PairWith
<1> QED BY <1>3, <1>4

LEMMA NextPaired == ASSUME TypeOK, Paired, Next PROVE Paired'
<1>0. Nul \notin LineEnd /\ BS \notin LineEnd /\ Letter \intersect LineEnd = {}
  BY ConsoleAssumption DEF LineEnd
<1>1. CASE Taking
  <2>1. typed' # <<>> /\ (PairWith(last_nl_char, Last(typed')) <=> EndsPair(typed'))
    BY <1>1, TakesOne, PairIs
  <2>2. PICK ch : Last(typed') = ch /\ Take(ch)
    BY <1>1, TakesOne
  <2>3. \A c : Take(c) => c = ch
    BY <2>2 DEF Take
  <2>4. CASE SecondOfPair
    <3>1. PairWith(last_nl_char, ch) /\ last_nl_char' = Nul
      BY <2>3, <2>4 DEF SecondOfPair
    <3> QED BY <2>1, <2>2, <3>1 DEF Paired
  <2>5. CASE EndEmptyLine \/ EndLine \/ TornEnd
    <3>1. ch \in LineEnd /\ ~PairWith(last_nl_char, ch) /\ last_nl_char' = ch
      BY <2>3, <2>5, Zenon DEF EndEmptyLine, EndLine, TornEnd, TakeEnd
    <3> QED BY <2>1, <2>2, <3>1 DEF Paired
  <2>6. CASE Erase \/ AddLetter \/ TornErase \/ TornLetter
    <3>1. ch \notin LineEnd /\ last_nl_char' = Nul
      BY <1>0, <2>3, <2>6 DEF Erase, AddLetter, TornErase, TornLetter
    <3> QED BY <2>2, <3>1 DEF Paired
  <2> QED BY <1>1, <2>4, <2>5, <2>6 DEF Taking, Torn
<1>2. CASE NodeInput \/ NodeInputEnds
  <2>1. UNCHANGED <<last_nl_char, typed>>
    BY <1>2, Zenon DEF NodeInput, NodeInputEnds
  <2> QED BY <2>1 DEF Paired
<1>3. CASE Receive \/ Store \/ ReadEnds \/ StartJob \/ EndJob \/ NoJob \/ LuaMain
  <2>1. UNCHANGED <<last_nl_char, typed>>
    BY <1>3, MainKeeps, Zenon DEF Receive, Store, ReadEnds, StartJob, EndJob, NoJob, Clear, history
  <2> QED BY <2>1 DEF Paired
<1> QED BY <1>1, <1>2, <1>3 DEF Next, UartTask, ReadLine, Taking

(* What each character makes of a text that the line shows.                *)
LEMMA Edits ==
  ASSUME NEW text \in Seq(Letter)
  PROVE  /\ \A ch \in LineEnd : Edit(text, ch) = text
         /\ Len(text) \in Nat
         /\ /\ Len(Edit(text, BS)) = Back(Len(text))
            /\ \A i \in 1 .. Back(Len(text)) : Edit(text, BS)[i] = text[i]
         /\ \A ch \in Letter :
              IF Len(text) + 1 < LUA_MAXINPUT
              THEN /\ Len(Edit(text, ch)) = Len(text) + 1 /\ Edit(text, ch)[Len(text) + 1] = ch
                   /\ \A i \in 1 .. Len(text) : Edit(text, ch)[i] = text[i]
              ELSE Len(Edit(text, ch)) = 1 /\ Edit(text, ch)[1] = ch
<1> USE ConsoleAssumption
<1>1. ASSUME NEW ch \in LineEnd PROVE Edit(text, ch) = text
  BY Zenon DEF Edit, LineEnd
<1>2. Len(text) \in Nat /\ (text = <<>> <=> Len(text) = 0) /\ \A i \in 1 .. Len(text) : text[i] \in Letter
  BY LenProperties, EmptySeq, ElementOfSeq
<1>3. /\ Len(Edit(text, BS)) = Back(Len(text))
      /\ \A i \in 1 .. Back(Len(text)) : Edit(text, BS)[i] = text[i]
  <2>1. Edit(text, BS) = IF text = <<>> THEN text ELSE Front(text)
    BY DEF Edit, LineEnd
  <2>2. CASE text = <<>>
    BY <1>2, <2>1, <2>2 DEF Back
  <2>3. CASE text # <<>>
    <3>1. PICK n : n = Len(text) - 1
      OBVIOUS
    <3>2. n \in Nat /\ Back(Len(text)) = n /\ Edit(text, BS) = SubSeq(text, 1, n)
      BY <1>2, <2>1, <2>3, <3>1 DEF Back, Front
    <3>3. \A i \in 1 .. n : text[i] \in Letter
      BY <1>2, <3>1
    <3>4. /\ Len(SubSeq(text, 1, n)) = IF 1 <= n THEN n - 1 + 1 ELSE 0
          /\ \A i \in 1 .. n - 1 + 1 : SubSeq(text, 1, n)[i] = text[1 + i - 1]
      BY <3>2, <3>3, SubSeqProperties
    <3> QED BY <3>2, <3>4
  <2> QED BY <2>2, <2>3
<1>4. ASSUME NEW ch \in Letter
      PROVE  IF Len(text) + 1 < LUA_MAXINPUT
             THEN /\ Len(Edit(text, ch)) = Len(text) + 1 /\ Edit(text, ch)[Len(text) + 1] = ch
                  /\ \A i \in 1 .. Len(text) : Edit(text, ch)[i] = text[i]
             ELSE Len(Edit(text, ch)) = 1 /\ Edit(text, ch)[1] = ch
  <2>1. ch # BS /\ ch \notin LineEnd
    BY DEF LineEnd
  <2>2. Edit(text, ch) = IF Len(text) + 1 < LUA_MAXINPUT THEN Append(text, ch) ELSE <<ch>>
    BY <2>1, Zenon DEF Edit
  <2> QED BY <2>2, AppendProperties
<1> QED BY <1>1, <1>2, <1>3, <1>4

LEMMA TakeTyping == ASSUME TypeOK, LineOK, Typing, Taking PROVE Typing'
<1> USE ConsoleAssumption
<1>0. CASE Clearing
  <2>1. crossed' = TRUE
    BY <1>0, TakingTakes DEF Take
  <2> QED BY <2>1 DEF Typing
<1> SUFFICES ASSUME ~Clearing PROVE Typing'
  BY <1>0
<1>1. PICK ch \in Char :
        /\ Take(ch) /\ Last(typed') = ch
        /\ Since' = Append(Since, ch) /\ Since \in Seq(Char)
  BY TakesOne
<1>2. \A c : Take(c) => c = ch
  BY <1>1 DEF Take
<1>3. fed' = fed /\ (crossed => crossed')
  BY <1>1 DEF Take
<1>13. ~Torn
  BY TornTakes
<1> SUFFICES ASSUME ~fed, ~crossed PROVE (Shows(Edited(Since)) /\ Ended /\ Clean)'
  BY <1>3 DEF Typing
<1>4. PICK e, e2 : e = Edited(Since) /\ e \in Seq(Letter) /\ e2 = Edit(e, ch) /\ Edited(Since') = e2
  BY <1>1, EditedAppend
<1>5. /\ Shows(e) /\ Ended /\ Clean
  BY <1>4 DEF Typing
<1>6. SUFFICES Shows(e2)' /\ Ended' /\ Clean'
  BY <1>4 DEF Shows
<1>7. PICK p, p2, n : p = pos /\ p2 = pos' /\ n = LUA_MAXINPUT
  OBVIOUS
<1>8. /\ p \in Nat /\ p < n /\ n \in Nat /\ n > 2 /\ DOMAIN line = 0 .. n - 1
      /\ Len(e) = p /\ \A i \in 1 .. p : line[i - 1] = e[i]
  BY <1>5, <1>7 DEF TypeOK, LineOK, Shows
<1>9. CASE SecondOfPair
  <2>1. /\ UNCHANGED <<line, pos, discarded>> /\ ch \in LineEnd
        /\ last_nl_char \in LineEnd /\ Nul \notin LineEnd
    BY <1>2, <1>9 DEF SecondOfPair, PairWith, LineEnd
  <2>2. e2 = e
    BY <1>4, <2>1, Edits
  <2>3. line[pos] = Nul
    BY <1>5, <2>1 DEF Ended
  <2>4. Shows(e2)' /\ Ended'
    BY <1>5, <2>1, <2>2, <2>3 DEF Shows, Ended
  <2>5. Clean'
    BY <1>5, <2>1 DEF Clean
  <2> QED BY <2>4, <2>5
<1>10. CASE EndEmptyLine \/ EndLine
  <2>1. /\ UNCHANGED <<pos, discarded>> /\ ch \in LineEnd
        /\ line' = Put(pos, Nul)
    BY <1>2, <1>10, Zenon DEF EndEmptyLine, EndLine, TakeEnd
  <2>2. e2 = e
    BY <1>4, <2>1, Edits
  <2>3. line'[p] = Nul /\ \A i \in 0 .. n - 1 : i # p => line'[i] = line[i]
    BY <1>7, <1>8, <2>1 DEF Put
  <2>4. Shows(e2)'
    BY <1>7, <1>8, <2>1, <2>2, <2>3 DEF Shows
  <2>5. Ended'
    BY <1>7, <2>1, <2>3 DEF Ended
  <2>6. Clean'
    BY <1>5, <1>7, <1>8, <2>1, <2>3 DEF Clean
  <2> QED BY <2>4, <2>5, <2>6
<1>11. CASE Erase
  <2>1. UNCHANGED discarded /\ ch = BS /\ p2 = Back(p) /\ line' = Put(p2, Nul)
    BY <1>2, <1>7, <1>11 DEF Erase
  <2>2. Len(e2) = Back(p) /\ \A i \in 1 .. Back(p) : e2[i] = e[i]
    BY <1>4, <1>8, <2>1, Edits
  <2>3. p2 \in 0 .. p /\ p2 < n /\ (p2 = p \/ p2 = p - 1)
    BY <1>8, <2>1 DEF Back
  <2>4. line'[p2] = Nul /\ \A i \in 0 .. n - 1 : i # p2 => line'[i] = line[i]
    BY <1>8, <2>1, <2>3 DEF Put
  <2>5. Len(e2) = p2 /\ \A i \in 1 .. p2 : line'[i - 1] = e2[i]
    <3>1. \A i \in 1 .. p2 : e2[i] = e[i] /\ line[i - 1] = e[i] /\ line'[i - 1] = line[i - 1]
      BY <1>8, <2>1, <2>2, <2>3, <2>4
    <3> QED BY <2>1, <2>2, <3>1
  <2>6. Shows(e2)'
    BY <1>7, <2>5 DEF Shows
  <2>7. Ended'
    BY <1>7, <2>4 DEF Ended
  <2>8. Clean'
    <3>1. ~discarded => \A i \in p .. n - 1 : line[i] = Nul
      BY <1>5, <1>7 DEF Clean
    <3>2. ~discarded => \A i \in p2 .. n - 1 : line'[i] = Nul
      BY <1>8, <2>3, <2>4, <3>1
    <3> QED BY <1>7, <2>1, <3>2 DEF Clean
  <2> QED BY <2>6, <2>7, <2>8
<1>12. CASE AddLetter
  <2>1. /\ ch \in Letter /\ line' = Put(IF TooLong THEN 0 ELSE pos, ch)
        /\ pos' = (IF TooLong THEN 1 ELSE pos + 1)
        /\ discarded' = (discarded \/ TooLong) /\ last_nl_char' = Nul
    BY <1>2, <1>12 DEF AddLetter
  <2>2. CASE TooLong
    <3>1. p + 1 >= n
      BY <1>7, <2>2 DEF TooLong
    <3>2. Len(e2) = 1 /\ e2[1] = ch
      BY <1>4, <1>7, <1>8, <2>1, <3>1, Edits
    <3>0. pos' = 1 /\ line' = Put(0, ch)
      BY <2>1, <2>2
    <3>3. line'[0] = ch /\ pos' = 1 /\ discarded' = TRUE
      <4>1. (discarded \/ TooLong) = TRUE
        BY <2>2, Zenon
      <4>2. discarded' = TRUE
        BY <2>1, <4>1, Zenon
      <4> QED BY <1>8, <3>0, <4>2 DEF Put
    <3>4. Shows(e2)'
      BY <3>2, <3>3 DEF Shows
    <3> QED BY <1>1, <2>1, <3>3, <3>4 DEF Ended, Clean
  <2>3. CASE ~TooLong
    <3>1. p + 1 < n
      BY <1>7, <1>8, <2>3 DEF TooLong
    <3>2. Len(e2) = p + 1 /\ e2[p + 1] = ch /\ \A i \in 1 .. p : e2[i] = e[i]
      <4>1. e \in Seq(Letter) /\ e2 = Edit(e, ch) /\ ch \in Letter /\ Len(e) = p
        BY <1>4, <1>8, <2>1
      <4>2. Len(e) + 1 < LUA_MAXINPUT
        BY <1>7, <1>8, <3>1
      <4>3. /\ Len(Edit(e, ch)) = Len(e) + 1 /\ Edit(e, ch)[Len(e) + 1] = ch
            /\ \A i \in 1 .. Len(e) : Edit(e, ch)[i] = e[i]
        BY <4>1, <4>2, Edits
      <4> QED BY <4>1, <4>3
    <3>3. p2 = p + 1 /\ discarded' = discarded /\ line' = Put(p, ch) /\ discarded \in BOOLEAN
      BY <1>7, <2>1, <2>3 DEF TypeOK
    <3>4. line'[p] = ch /\ \A i \in 0 .. n - 1 : i # p => line'[i] = line[i]
      BY <1>8, <3>3 DEF Put
    <3>5. \A i \in 1 .. p + 1 : line'[i - 1] = e2[i]
      BY <1>8, <3>2, <3>4
    <3>6. Shows(e2)'
      BY <1>7, <3>2, <3>3, <3>5 DEF Shows
    <3>7. discarded \/ \A i \in p .. n - 1 : line[i] = Nul
      BY <1>5, <1>7 DEF Clean
    <3>8. discarded \/ \A i \in p + 1 .. n - 1 : line'[i] = Nul
      BY <1>8, <3>4, <3>7
    <3>9. Ended'
      <4>1. discarded \/ line'[p2] = Nul
        BY <1>8, <3>1, <3>3, <3>8
      <4> QED BY <1>1, <1>7, <2>1, <3>3, <4>1 DEF Ended
    <3>10. Clean'
      BY <1>7, <3>3, <3>8 DEF Clean
    <3> QED BY <3>6, <3>9, <3>10
  <2> QED BY <2>2, <2>3
<1> QED BY <1>9, <1>10, <1>11, <1>12, <1>13 DEF Taking

(* A line that is cleared shows that nothing was typed.                    *)
LEMMA ClearTyping ==
  ASSUME TypeOK, typed' = typed, from' = Len(typed), pos' = 0, line' = NoLine
  PROVE  Typing'
<1> USE ConsoleAssumption
<1>1. Since' = <<>>
  <2>1. typed \in Seq(Char) /\ Len(typed) \in 0 .. Len(typed)
    BY LenProperties DEF TypeOK
  <2>2. SubSeq(typed, Len(typed) + 1, Len(typed)) = <<>>
    BY <2>1, SinceSeq
  <2> QED BY <2>2 DEF Since
<1>2. Edited(Since') = <<>>
  BY <1>1, EditedEmpty
<1>3. \A i \in 0 .. LUA_MAXINPUT - 1 : line'[i] = Nul
  BY DEF NoLine
<1>4. Shows(<<>>)'
  BY DEF Shows
<1>5. Ended' /\ Clean'
  BY <1>3 DEF Ended, Clean
<1> QED BY <1>2, <1>4, <1>5 DEF Typing, Shows

LEMMA NextTyping == ASSUME TypeOK, LineOK, Typing, Boot, Next PROVE Typing'
<1>1. CASE Taking
  BY <1>1, TakeTyping
<1>2. CASE EndJob \/ NoJob
  <2>1. typed' = typed /\ from' = Len(typed) /\ pos' = 0 /\ line' = NoLine
    BY <1>2, Zenon DEF EndJob, NoJob, Clear, ClearedPos
  <2> QED BY <2>1, ClearTyping
<1>3. CASE NodeInput \/ NodeInputEnds
  <2>1. fed' = TRUE
    BY <1>3, Zenon DEF NodeInput, NodeInputEnds
  <2> QED BY <2>1 DEF Typing
<1>4. CASE Aside
  <2>1. UNCHANGED <<line, pos, discarded, fed, crossed, last_nl_char, typed, from>>
    BY <1>4, AsideKeeps DEF history
  <2>2. Since' = Since
    BY <2>1 DEF Since
  <2>3. Clearing' = Clearing
    BY <1>4 DEF Aside, Receive, Store, ReadEnds, StartJob, LoadLine, LoadPrompt, MainJob, MainNoJob,
                MainEndJob, Main, mainVars, Clearing
  <2> QED BY <2>1, <2>2, <2>3 DEF Typing, Shows, Ended, Clean
<1>5. CASE LoadInit \/ ClearDone \/ ResetPos
  <2>1. Clearing'
    BY <1>5 DEF LoadInit, ClearDone, ResetPos, Resets, Main, Clearing
  <2> QED BY <2>1 DEF Typing
<1>6. CASE Wipe
  <2>1. PICK i \in stale : line' = Put(i, Nul) /\ stale' = stale \ {i}
    BY <1>6 DEF Wipe
  <2>2. /\ UNCHANGED <<pos, typed, fed, crossed>> /\ main = "wipe"
        /\ stale' = {} => from' = Len(typed)
        /\ stale' # {} => main' = "wipe"
    BY <1>6 DEF Wipe, Main
  <2>3. SUFFICES ASSUME ~fed, ~crossed, stale' = {} PROVE Typing'
    BY <2>2 DEF Typing, Clearing
  <2>4. pos' = 0 /\ \A j \in 0 .. LUA_MAXINPUT - 1 : j # i => line[j] = Nul
    BY <2>1, <2>2, <2>3 DEF Boot
  <2>5. line' = NoLine
    <3>1. DOMAIN line = 0 .. LUA_MAXINPUT - 1
      BY DEF TypeOK
    <3> QED BY <2>1, <2>4, <3>1 DEF Put, NoLine
  <2> QED BY <2>2, <2>3, <2>4, <2>5, ClearTyping
<1> QED BY <1>1, <1>2, <1>3, <1>4, <1>5, <1>6, NextCases

LEMMA NextBoot == ASSUME TypeOK, Boot, Next PROVE Boot'
<1>1. CASE Taking
  <2>1. /\ fed' = fed /\ (crossed => crossed') /\ (Clearing => crossed')
        /\ Torn \/ UNCHANGED <<main, stale>>
    BY <1>1, TakingTakes DEF Take
  <2>2. Torn => crossed'
    BY TornTakes
  <2> QED BY <2>1, <2>2 DEF Boot, Clearing
<1>2. CASE EndJob \/ NoJob
  BY <1>2 DEF EndJob, NoJob, Clear, ClearedPos, NoLine, Boot
<1>3. CASE NodeInput \/ NodeInputEnds
  <2>1. fed' = TRUE
    BY <1>3, Zenon DEF NodeInput, NodeInputEnds
  <2> QED BY <2>1 DEF Boot
<1>4. CASE Aside
  <2>1. UNCHANGED <<line, pos, done, fed, crossed, stale>>
    BY <1>4, AsideKeeps DEF history
  <2>2. Clearing' = Clearing /\ (main' = "wipe" => main = "wipe")
    BY <1>4 DEF Aside, Receive, Store, ReadEnds, StartJob, LoadLine, LoadPrompt, MainJob, MainNoJob,
                MainEndJob, Main, mainVars, Clearing
  <2> QED BY <2>1, <2>2 DEF Boot
<1>5. CASE LoadInit \/ ClearDone
  <2>1. done' = FALSE /\ main' # "wipe"
    BY <1>5 DEF LoadInit, ClearDone, Main
  <2> QED BY <2>1 DEF Boot
<1>6. CASE ResetPos
  <2>1. /\ UNCHANGED <<done, fed, crossed>> /\ Clearing /\ pos' = 0
        /\ main' = "wipe" => stale' = DOMAIN line
    BY <1>6 DEF ResetPos, Resets, Clearing, history
  <2>2. DOMAIN line = 0 .. LUA_MAXINPUT - 1
    BY DEF TypeOK
  <2> QED BY <2>1, <2>2 DEF Boot
<1>7. CASE Wipe
  <2>1. PICK i \in stale : line' = Put(i, Nul) /\ stale' = stale \ {i}
    BY <1>7 DEF Wipe
  <2>2. UNCHANGED <<pos, done, fed, crossed>> /\ main = "wipe"
    BY <1>7 DEF Wipe, Main
  <2>3. DOMAIN line = 0 .. LUA_MAXINPUT - 1
    BY DEF TypeOK
  <2>4. ASSUME \A j \in (0 .. LUA_MAXINPUT - 1) \ stale : line[j] = Nul
        PROVE  \A j \in (0 .. LUA_MAXINPUT - 1) \ stale' : line'[j] = Nul
    BY <2>1, <2>3, <2>4 DEF Put
  <2> QED BY <2>2, <2>4 DEF Boot, Clearing
<1> QED BY <1>1, <1>2, <1>3, <1>4, <1>5, <1>6, <1>7, NextCases

(* What c_strlen finds in a line that ends where it should.                *)
LEMMA TextIs ==
  ASSUME TypeOK, LineOK, NEW text \in Seq(Letter), Shows(text), line[pos] = Nul, ~fed, ~crossed
  PROVE  TextOf(line) = text
<1> USE ConsoleAssumption
<1> DEFINE ends == {i \in DOMAIN line : line[i] = Nul}
           n == IF ends = {} THEN LUA_MAXINPUT ELSE CHOOSE i \in ends : \A j \in ends : i <= j
<1>1. DOMAIN line = 0 .. LUA_MAXINPUT - 1 /\ pos \in 0 .. LUA_MAXINPUT - 1 /\ Len(text) = pos
  BY DEF TypeOK, LineOK, Shows
<1>2. pos \in ends
  BY <1>1
<1>3. ASSUME NEW i \in ends PROVE pos <= i
  <2>1. i \in 0 .. LUA_MAXINPUT - 1 /\ line[i] = Nul
    BY <1>1
  <2>2. ASSUME i < pos PROVE FALSE
    <3>1. i + 1 \in 1 .. pos /\ (i + 1) - 1 = i
      BY <1>1, <2>1, <2>2
    <3>2. line[i] = text[i + 1] /\ text[i + 1] \in Letter
      BY <1>1, <3>1, ElementOfSeq DEF Shows
    <3> QED BY <2>1, <3>2
  <2> QED BY <1>1, <2>1, <2>2
<1>4. n = pos
  <2>1. \A x \in ends : (\A j \in ends : x <= j) => x = pos
    <3>1. ASSUME NEW x \in ends, \A j \in ends : x <= j PROVE x = pos
      <4>1. x \in Int /\ pos \in Int /\ x <= pos /\ pos <= x
        BY <1>1, <1>2, <1>3, <3>1
      <4> QED BY <4>1
    <3> QED BY <3>1
  <2> HIDE DEF ends
  <2> QED BY <1>2, <1>3, <2>1
<1>5. TextOf(line) = [i \in 1 .. n |-> line[i - 1]]
  BY Zenon DEF TextOf
<1> HIDE DEF n
<1>6. \A i \in 1 .. pos : line[i - 1] = text[i]
  BY DEF Shows
<1>7. text = [i \in 1 .. pos |-> text[i]]
  BY <1>1
<1> QED BY <1>4, <1>5, <1>6, <1>7

-----------------------------------------------------------------------------
LEMMA InitIInv == Init => IInv
<1> SUFFICES ASSUME Init PROVE IInv
  OBVIOUS
<1> USE ConsoleAssumption
<1>1. <<>> \in Seq(Char) /\ <<>> \in Seq(Seq(Letter)) /\ Len(<<>>) = 0
  BY EmptySeq
<1>2. RingOK
  <2>1. RingTypes
    BY <1>1 DEF Init, RingTypes
  <2>2. Counted /\ Queued
    BY <1>1 DEF Init, Counted, Queued, Dist
  <2> QED BY <2>1, <2>2 DEF RingOK
<1>3. TypeOK
  <2>1. LineTypes
    BY DEF Init, NoLine, LineTypes
  <2>2. Marks
    BY DEF Init, Marks
  <2>3. typed \in Seq(Char) /\ from \in 0 .. Len(typed) /\ chunk \in Seq(Seq(Letter))
    BY <1>1 DEF Init
  <2>4. MainTypes
    BY DEF Init, MainTypes
  <2> QED BY <1>2, <2>1, <2>2, <2>3, <2>4 DEF TypeOK, RingOK, RingTypes, LineTypes, Marks, MainTypes
<1>4. LineOK
  BY DEF Init, NoLine, LineOK
<1>5. Typing
  <2>1. typed = <<>> /\ from = 0 /\ pos = 0 /\ line = NoLine /\ ~discarded /\ ~fed
    BY DEF Init
  <2>2. Since = <<>>
    BY <1>1, <2>1, SubSeqEmpty DEF Since
  <2>3. Edited(Since) = <<>>
    BY <2>2, EditedEmpty
  <2>4. \A i \in 0 .. LUA_MAXINPUT - 1 : line[i] = Nul
    BY <2>1 DEF NoLine
  <2> QED BY <2>1, <2>3, <2>4 DEF Typing, Shows, Ended, Clean
<1>6. Paired
  BY DEF Init, Paired
<1>7. Boot
  BY DEF Init, Boot, Clearing
<1> QED BY <1>2, <1>3, <1>4, <1>5, <1>6, <1>7 DEF IInv

(* The inductive invariant holds in every reachable state.                 *)
THEOREM ConsoleInvariant == Spec => []IInv
<1>1. IInv /\ [Next]_vars => IInv'
  <2>1. CASE IInv /\ Next
    <3>1. RingOK' /\ LineTypes' /\ LineOK' /\ Marks' /\ MainTypes'
          /\ typed' \in Seq(Char) /\ from' \in 0 .. Len(typed') /\ chunk' \in Seq(Seq(Letter))
      BY <2>1, NextRing, NextLine, NextTyped, NextMarks, NextMain DEF IInv
    <3>2. TypeOK'
      BY <3>1 DEF TypeOK, RingOK, RingTypes, LineTypes, Marks, MainTypes
    <3>3. Typing' /\ Boot' /\ Paired'
      BY <2>1, NextTyping, NextBoot, NextPaired DEF IInv
    <3> QED BY <3>1, <3>2, <3>3 DEF IInv
  <2>2. CASE IInv /\ UNCHANGED vars
    <3>1. TypeOK' /\ LineOK'
      BY <2>2 DEF IInv, TypeOK, LineOK, vars, ringVars, jobVars, mainVars, history
    <3>5. RingOK'
      <4>1. UNCHANGED ringVars /\ pc' = pc
        BY <2>2 DEF vars
      <4> QED BY <2>2, <4>1, RingKept DEF IInv
    <3>2. UNCHANGED <<line, pos, done, discarded, fed, crossed, last_nl_char, typed, from, main, stale>>
      BY <2>2 DEF vars, mainVars, history
    <3>3. Since' = Since /\ Clearing' = Clearing
      BY <3>2 DEF Since, Clearing
    <3>4. Typing' /\ Boot' /\ Paired'
      BY <2>2, <3>2, <3>3 DEF IInv, Typing, Boot, Shows, Ended, Clean, Paired
    <3> QED BY <3>1, <3>4, <3>5 DEF IInv
  <2> QED BY <2>1, <2>2
<1> QED BY <1>1, InitIInv, PTL DEF Spec

(* Every variable keeps its type, for every ring, line and number of       *)
(* characters typed.                                                       *)
THEOREM ConsoleTypeCorrect == Spec => []TypeOK
<1>1. IInv => TypeOK
  BY DEF IInv
<1> QED BY <1>1, ConsoleInvariant, PTL

(* What the driver hands over comes out of the ring once and in order.     *)
THEOREM RingLosesNothing == Spec => []RingKeepsAll
<1>1. IInv => RingKeepsAll
  BY RingIsStored DEF IInv
<1> QED BY <1>1, ConsoleInvariant, PTL

(* Positions stay inside line_buffer unless node.input moves them, or a    *)
(* reset by lua_main falls into an erasure.                                *)
THEOREM LineStaysInside == Spec => []StaysInside
<1>1. IInv => StaysInside
  <2> SUFFICES ASSUME IInv PROVE StaysInside
    OBVIOUS
  <2>1. LUA_MAXINPUT - 1 \in DOMAIN line
    BY ConsoleAssumption DEF IInv, TypeOK
  <2> QED BY <2>1 DEF IInv, LineOK, StaysInside
<1> QED BY <1>1, ConsoleInvariant, PTL

(* Lua is given the line that was typed since the last one was cleared, in  *)
(* the cases that LineIsWhatWasTyped names: dojob reads neither less nor    *)
(* more of line_buffer than readline has written for it.  Nothing is said   *)
(* of the line whose characters were taken while lua_main was clearing.     *)
THEOREM LineIsTyped == Spec => []LineIsWhatWasTyped
<1>1. IInv => LineIsWhatWasTyped
  <2> SUFFICES ASSUME IInv, done, ~fed, ~crossed, discarded => Last(typed) \notin Letter
               PROVE  TextOf(line) = Edited(Since)
    BY DEF LineIsWhatWasTyped
  <2>0. ~Clearing
    BY DEF IInv, Boot
  <2>1. Shows(Edited(Since)) /\ line[pos] = Nul
    BY <2>0 DEF IInv, Typing, Ended
  <2>2. Edited(Since) \in Seq(Letter)
    <3>1. typed \in Seq(Char) /\ from \in 0 .. Len(typed)
      BY DEF IInv, TypeOK
    <3>2. Since \in Seq(Char)
      BY <3>1, SinceSeq DEF Since
    <3>3. CR \in Char
      BY DEF Char
    <3> QED BY <3>2, <3>3, EditedAppend
  <2> QED BY <2>1, <2>2, TextIs DEF IInv
<1> QED BY <1>1, ConsoleInvariant, PTL

(* A line end is answered by readline unless it is the second half of a pair. *)
THEOREM PairsAnswered == Spec => PairsAnsweredOnce
<1> DEFINE Answered ==
      IF EndsPair(typed') THEN UNCHANGED <<pc, line, pos, done, need, prompts>>
      ELSE prompts' = prompts + 1 \/ (done' /\ need') \/ pc' = "halted"
<1>1. IInv /\ [Next]_vars =>
        [Len(typed') > Len(typed) /\ Last(typed') \in LineEnd => Answered]_vars
  <2> SUFFICES ASSUME IInv, Next, Len(typed') > Len(typed), Last(typed') \in LineEnd PROVE Answered
    OBVIOUS
  <2>0. Len(typed) \in Nat
    BY LenProperties DEF IInv, TypeOK
  <2>1. Taking
    <3>1. UNCHANGED typed => FALSE
      BY <2>0
    <3>2. ~(NodeInput \/ NodeInputEnds)
      BY <3>1, Zenon DEF NodeInput, NodeInputEnds
    <3>3. ~(Receive \/ Store \/ ReadEnds \/ StartJob \/ EndJob \/ NoJob \/ LuaMain)
      BY <3>1, MainKeeps, Zenon DEF Receive, Store, ReadEnds, StartJob, EndJob, NoJob, Clear, history
    <3> QED BY <3>2, <3>3 DEF Next, UartTask, ReadLine, Taking
  <2>2. PairWith(last_nl_char, Last(typed')) <=> EndsPair(typed')
    BY <2>1, PairIs DEF IInv
  <2>3. PICK ch : Last(typed') = ch /\ Take(ch)
    BY <2>1, TakesOne DEF IInv
  <2>4. \A c : Take(c) => c = ch
    BY <2>3 DEF Take
  <2>5. BS \notin LineEnd /\ Letter \intersect LineEnd = {}
    BY ConsoleAssumption DEF LineEnd
  <2>6. CASE SecondOfPair
    <3>1. PairWith(last_nl_char, ch) /\ UNCHANGED <<pc, need, line, pos, done, prompts>>
      BY <2>4, <2>6 DEF SecondOfPair
    <3> QED BY <2>2, <2>3, <3>1
  <2>7. CASE EndEmptyLine \/ EndLine \/ TornEnd
    <3>1. ~PairWith(last_nl_char, ch)
      BY <2>4, <2>7, Zenon DEF EndEmptyLine, EndLine, TornEnd, TakeEnd
    <3>2. prompts' = prompts + 1 \/ (done' /\ need') \/ pc' = "halted"
      BY <2>7 DEF EndEmptyLine, EndLine, TornEnd, Prompt
    <3> QED BY <2>2, <2>3, <3>1, <3>2
  <2>8. CASE Erase \/ AddLetter \/ TornErase \/ TornLetter
    BY <2>3, <2>4, <2>5, <2>8 DEF Erase, AddLetter, TornErase, TornLetter
  <2> QED BY <2>1, <2>6, <2>7, <2>8 DEF Taking, Torn
<1> QED BY <1>1, ConsoleInvariant, PTL DEF Spec, PairsAnsweredOnce

=============================================================================
