----------------------------- MODULE UartConsole -----------------------------
(***************************************************************************)
(* The serial console of the LuaNode32 firmware: components/uart/my_uart.c *)
(* and the interactive half of components/lua/lua.c.  One task takes what  *)
(* the UART driver has received, at most RX_BUFF_SIZE characters at a time,*)
(* stores it in a ring, empties the ring into line_buffer while it handles *)
(* line ends and erasures, and runs the line.  Meanwhile the main task     *)
(* boots, which is when the interpreter comes to exist, and later runs Lua *)
(* of its own, which may feed a line to the console with node.input.       *)
(*                                                                         *)
(* A step of the UART task is one turn of a loop: a character stored, a    *)
(* character taken, a line run.  A step of the main task is one assignment *)
(* that the UART task can see; its two resets of the position may also     *)
(* fall into the middle of a character (Torn).                             *)
(***************************************************************************)
EXTENDS Integers, Sequences, SequencesExt

CONSTANTS
  RX_BUFF_SIZE,   (* what one read of the driver returns at most             *)
  LUA_MAXINPUT,   (* the size of line_buffer                                 *)
  Letter,         (* printable characters                                    *)
  CR, LF, BS,     (* carriage return, line feed, and either erasing character *)
  Nul,
  Fed,            (* what a script may pass to node.input                    *)
  MaxTyped        (* bound: characters typed                                 *)

ASSUME ConsoleAssumption ==
  /\ RX_BUFF_SIZE \in Nat \ {0}
  /\ LUA_MAXINPUT \in Nat /\ LUA_MAXINPUT > 2
  /\ MaxTyped \in Nat
  /\ Nul \notin Letter \union {CR, LF, BS}
  /\ Letter \intersect {CR, LF, BS} = {} /\ BS \notin {CR, LF}
  /\ Fed \subseteq Seq(Letter)

Char == Letter \union {CR, LF, BS}
LineEnd == {CR, LF}

VARIABLES
  pc,            (* the UART task: "wait", "store", "read", "job", "lua";    *)
                 (* "halted" after a fault                                   *)
  pbuff,         (* read from the driver and not stored yet                  *)
  ring, wpos, rpos, (* rcvMsgBuff                                            *)
  need,          (* need_dojob                                               *)
  last_nl_char,
  line,          (* line_buffer                                              *)
  pos,           (* gLoad.line_position                                      *)
  done, firstline,  (* gLoad                                                 *)
  prmt,          (* gLoad.prmt points to a prompt                            *)
  chunk,         (* the lines on the Lua stack that wait for more            *)
  main,          (* the main task: what lua_main does next; "idle" once it   *)
                 (* has returned                                             *)
  stale,         (* the places its memset has still to clear                 *)
  feeder,        (* the task inside node.input: "uart", "main" or "nobody"   *)
  prompts,       (* history: prompts written                                 *)
  typed,         (* history: characters taken from the ring, from the start  *)
  from,          (* history: how many of them belong to earlier lines        *)
  unread,        (* history: characters read from the driver, not yet taken  *)
  discarded,     (* history: a line of this job was too long                 *)
  fed,           (* history: node.input has put something into this line     *)
  crossed        (* history: lua_main was clearing while this line was typed *)

ringVars == <<pbuff, ring, wpos, rpos, unread>>
jobVars == <<firstline, prmt, chunk>>
mainVars == <<main, stale, feeder>>
history == <<typed, from, discarded, fed, crossed>>
vars == <<pc, ringVars, need, last_nl_char, line, pos, done, jobVars, mainVars, prompts, history>>

NoLine == [i \in 0 .. LUA_MAXINPUT - 1 |-> Nul]

Init ==
  /\ pc = "wait"
  /\ pbuff = <<>>
  /\ ring = [i \in 0 .. RX_BUFF_SIZE |-> Nul] /\ wpos = 0 /\ rpos = 0
  /\ need = FALSE
  /\ last_nl_char = Nul
  /\ line = NoLine /\ pos = 0
  /\ done = FALSE /\ firstline = FALSE /\ prmt = FALSE /\ chunk = <<>>
  /\ main = "load" /\ stale = {} /\ feeder = "nobody"
  /\ prompts = 0
  /\ typed = <<>> /\ from = 0 /\ unread = <<>>
  /\ discarded = FALSE /\ fed = FALSE /\ crossed = FALSE

-----------------------------------------------------------------------------
(* The ring.  The last position is one beyond the memory allocated for it, *)
(* and without it the ring would be one character short (see RingKeepsAll).*)

(* Mutant: the ring wraps where its memory ends.                           *)
FollowInside(p) == IF p >= RX_BUFF_SIZE - 1 THEN 0 ELSE p + 1

Follow(p) == IF p = RX_BUFF_SIZE THEN 0 ELSE p + 1

(* uart_event_task: a UART_DATA event.  What the driver drops when its own *)
(* buffers are full was never received.                                    *)
Receive ==
  /\ pc = "wait"
  /\ \E s \in BoundedSeq(Char, RX_BUFF_SIZE) \ {<<>>} :
       /\ Len(typed) + Len(s) <= MaxTyped
       /\ pbuff' = s
       /\ unread' = s
  /\ pc' = "store"
  /\ UNCHANGED <<ring, wpos, rpos, need, last_nl_char, line, pos, done, jobVars, mainVars,
                 prompts, history>>

(* One character goes into the ring; should it be full, the oldest is lost. *)
Store ==
  /\ pc = "store"
  /\ ring' = [ring EXCEPT ![wpos] = Head(pbuff)]
  /\ wpos' = Follow(wpos)
  /\ rpos' = IF wpos' = rpos THEN Follow(rpos) ELSE rpos
  /\ pbuff' = Tail(pbuff)
  /\ pc' = IF pbuff' = <<>> THEN "read" ELSE "store"
  /\ need' = FALSE
  /\ UNCHANGED <<unread, last_nl_char, line, pos, done, jobVars, mainVars, prompts, history>>

-----------------------------------------------------------------------------
(* readline: the characters of the ring, one by one.                       *)

(* lua_main is between its first reset of gLoad and the end of its memset.  *)
Clearing == main \notin {"load", "idle"}

Take(ch) ==
  /\ pc = "read"
  /\ rpos # wpos
  /\ ch = ring[rpos]
  /\ rpos' = Follow(rpos)
  /\ unread' = Tail(unread)
  /\ typed' = Append(typed, ch)
  /\ crossed' = (crossed \/ Clearing)
  /\ UNCHANGED <<pbuff, ring, wpos, jobVars, feeder, from, fed>>

(* What is written at a position outside line_buffer lands elsewhere.      *)
Put(p, ch) == [i \in DOMAIN line |-> IF i = p THEN ch ELSE line[i]]

(* Mutant: two equal line ends count as one too.                           *)
PairWithSame(nl, ch) == ch \in LineEnd /\ nl \in LineEnd

PairWith(nl, ch) == ch \in LineEnd /\ nl \in LineEnd /\ ch # nl

SecondOfPair ==
  /\ \E ch \in LineEnd : Take(ch) /\ PairWith(last_nl_char, ch)
  /\ last_nl_char' = Nul
  /\ UNCHANGED <<pc, need, line, pos, done, discarded, prompts, main, stale>>

Back(p) == IF p > 0 THEN p - 1 ELSE p

Erase ==
  /\ Take(BS)
  /\ last_nl_char' = Nul
  /\ pos' = Back(pos)
  /\ line' = Put(pos', Nul)
  /\ UNCHANGED <<pc, need, done, discarded, prompts, main, stale>>

(* uart_sendStr(load->prmt): there is no prompt before lua_main, or a job,  *)
(* has set one, and reading it is a fault.                                 *)
Prompt(next) ==
  IF prmt THEN prompts' = prompts + 1 /\ pc' = next
  ELSE prompts' = prompts /\ pc' = "halted"

(* A character that ends a line.                                           *)
TakeEnd ==
  \E ch \in LineEnd : Take(ch) /\ ~PairWith(last_nl_char, ch) /\ last_nl_char' = ch

(* An empty line is answered with a prompt.                                *)
EndEmptyLine ==
  /\ TakeEnd
  /\ pos = 0
  /\ line' = Put(0, Nul)
  /\ Prompt(pc)
  /\ UNCHANGED <<need, pos, done, discarded, main, stale>>

(* The loop goes on after the line end: what follows in the same read is   *)
(* added to the same line.                                                 *)
EndLine ==
  /\ TakeEnd
  /\ pos # 0
  /\ line' = Put(pos, Nul)
  /\ done' = TRUE
  /\ need' = TRUE
  /\ UNCHANGED <<pc, pos, discarded, prompts, main, stale>>

(* Mutant: the last position of line_buffer is used.                       *)
TooLongLate == pos >= LUA_MAXINPUT

TooLong == pos + 1 >= LUA_MAXINPUT

AddLetter ==
  /\ \E ch \in Letter :
       /\ Take(ch)
       /\ line' = Put(IF TooLong THEN 0 ELSE pos, ch)
  /\ pos' = IF TooLong THEN 1 ELSE pos + 1
  /\ discarded' = (discarded \/ TooLong)
  /\ last_nl_char' = Nul
  /\ UNCHANGED <<pc, need, done, prompts, main, stale>>

ReadEnds ==
  /\ pc = "read"
  /\ rpos = wpos
  /\ pc' = IF need THEN "job" ELSE "wait"
  /\ UNCHANGED <<ringVars, need, last_nl_char, line, pos, done, jobVars, mainVars, prompts,
                 history>>

-----------------------------------------------------------------------------
(* dojob, and the scripts that run beside it.                              *)

(* c_strlen(line): the positions before the first Nul.                     *)
TextOf(l) ==
  LET ends == {i \in DOMAIN l : l[i] = Nul}
      n == IF ends = {} THEN LUA_MAXINPUT ELSE CHOOSE i \in ends : \A j \in ends : i <= j
  IN  [i \in 1 .. n |-> l[i - 1]]

(* Mutant: the position is left where it was.                              *)
ClearedPosKept(p) == p

ClearedPos(p) == 0

(* The end of dojob: line_buffer is cleared, for whatever it is typed next. *)
Clear ==
  /\ done' = FALSE
  /\ pos' = ClearedPos(pos)
  /\ line' = NoLine
  /\ from' = Len(typed)
  /\ discarded' = FALSE
  /\ fed' = FALSE
  /\ crossed' = (crossed /\ Clearing)
  /\ UNCHANGED typed

(* The text joins the lines that wait for it, and Lua is given them all.   *)
Join == chunk' = Append(IF firstline THEN <<>> ELSE chunk, TextOf(line))

(* Lua comes back with a complete statement, run or refused, or for more.  *)
Answer ==
  /\ \/ firstline' = TRUE /\ chunk' = <<>>
     \/ firstline' = FALSE /\ UNCHANGED chunk
  /\ prmt' = TRUE

(* Before lua_main has set gLoad.line there is nothing to read.  That the   *)
(* two tasks run Lua one after the other is the model's, not the code's.   *)
StartJob ==
  /\ pc = "job"
  /\ done
  /\ main # "lua"
  /\ pc' = IF main \in {"load", "line"} THEN "halted" ELSE "lua"
  /\ Join
  /\ UNCHANGED <<ringVars, need, last_nl_char, line, pos, done, firstline, prmt, mainVars, prompts,
                 history>>

EndJob ==
  /\ pc = "lua"
  /\ feeder # "uart"
  /\ pc' = "wait"
  /\ Answer
  /\ Clear
  /\ prompts' = prompts + 1
  /\ UNCHANGED <<ringVars, need, last_nl_char, mainVars>>

(* lua_main has cleared the line that was to run, or run it itself.        *)
NoJob ==
  /\ pc = "job"
  /\ ~done
  /\ Clear
  /\ Prompt("wait")
  /\ UNCHANGED <<ringVars, need, last_nl_char, jobVars, mainVars>>

-----------------------------------------------------------------------------
(* lua_main: the interpreter and gLoad, and a dojob that ought to have no  *)
(* line.                                                                   *)

Main(here, next) ==
  /\ pc # "halted"
  /\ main = here
  /\ main' = next
  /\ UNCHANGED <<ringVars, need, last_nl_char, feeder, typed, fed>>

LoadInit ==
  /\ Main("load", "line")
  /\ firstline' = TRUE
  /\ done' = FALSE
  /\ UNCHANGED <<pc, line, pos, prmt, chunk, stale, prompts, from, discarded, crossed>>

LoadLine ==
  /\ Main("line", "pos")
  /\ UNCHANGED <<pc, line, pos, done, jobVars, stale, prompts, from, discarded, crossed>>

LoadPrompt ==
  /\ Main("prompt", "dojob")
  /\ prmt' = TRUE
  /\ UNCHANGED <<pc, line, pos, done, firstline, chunk, stale, prompts, from, discarded, crossed>>

(* The main task finds a line that was ended since it reset the flag.      *)
MainJob ==
  /\ pc # "lua"
  /\ Main("dojob", "lua")
  /\ done
  /\ Join
  /\ UNCHANGED <<pc, line, pos, done, firstline, prmt, stale, prompts, from, discarded, crossed>>

MainNoJob ==
  /\ Main("dojob", "done")
  /\ ~done
  /\ UNCHANGED <<pc, line, pos, done, jobVars, stale, prompts, from, discarded, crossed>>

MainEndJob ==
  /\ Main("lua", "done")
  /\ feeder # "main"
  /\ Answer
  /\ UNCHANGED <<pc, line, pos, done, stale, prompts, from, discarded, crossed>>

ClearDone ==
  /\ Main("done", "reset")
  /\ done' = FALSE
  /\ UNCHANGED <<pc, line, pos, jobVars, stale, prompts, from, discarded, crossed>>

(* gLoad.line_position = 0, in lua_main and in its dojob.                  *)
Resets ==
  /\ pc # "halted"
  /\ \/ main = "pos" /\ main' = "prompt" /\ UNCHANGED stale
     \/ main = "reset" /\ main' = "wipe" /\ stale' = DOMAIN line

ResetPos ==
  /\ Resets
  /\ pos' = 0
  /\ UNCHANGED <<pc, ringVars, need, last_nl_char, line, done, jobVars, feeder, prompts, history>>

(* memset, in any order; then the prompt is written.                       *)
Wipe ==
  /\ \E i \in stale :
       /\ line' = Put(i, Nul)
       /\ stale' = stale \ {i}
  /\ Main("wipe", IF stale' = {} THEN "idle" ELSE "wipe")
  /\ IF stale' = {}
     THEN from' = Len(typed) /\ discarded' = FALSE /\ prompts' = prompts + 1
     ELSE UNCHANGED <<from, discarded, prompts>>
  /\ UNCHANGED <<pc, pos, done, jobVars, crossed>>

(* The position is reset between two uses readline makes of it for one     *)
(* character: the reset is lost, or what follows it starts from 0.         *)
TornLetter ==
  /\ Resets
  /\ ~TooLong
  /\ \E ch \in Letter : Take(ch) /\ line' = Put(pos, ch)
  /\ pos' \in {1, pos + 1}
  /\ last_nl_char' = Nul
  /\ UNCHANGED <<pc, need, done, discarded, prompts>>

TornErase ==
  /\ Resets
  /\ Take(BS)
  /\ pos > 0
  /\ pos' \in {-1, 0, pos - 1}
  /\ line' = Put(pos', Nul)
  /\ last_nl_char' = Nul
  /\ UNCHANGED <<pc, need, done, discarded, prompts>>

TornEnd ==
  /\ Resets
  /\ TakeEnd
  /\ pos # 0
  /\ pos' = 0
  /\ line' = Put(pos, Nul)
  /\ Prompt(pc)
  /\ UNCHANGED <<need, done, discarded>>

-----------------------------------------------------------------------------
(* node.input, from a script in the main task or from a line that runs.    *)

(* The Nul is written one position too far.                                *)
NodeInput ==
  /\ pc # "halted"
  /\ feeder = "nobody"
  /\ \/ pc = "lua" /\ feeder' = "uart"
     \/ main \in {"lua", "idle"} /\ feeder' = "main"
  /\ pos = 0
  /\ \E s \in Fed :
       /\ Len(s) > 0 /\ Len(s) < LUA_MAXINPUT - 1
       /\ line' = [i \in DOMAIN line |-> CASE i < Len(s) -> s[i + 1]
                                           [] i = Len(s) + 1 -> Nul
                                           [] OTHER -> line[i]]
  /\ fed' = TRUE
  /\ UNCHANGED <<pc, ringVars, need, last_nl_char, pos, done, jobVars, main, stale, prompts, typed,
                 from, discarded, crossed>>

(* The position and the flag follow, and nobody is told of the line.       *)
NodeInputEnds ==
  /\ pc # "halted"
  /\ feeder # "nobody"
  /\ feeder' = "nobody"
  /\ pos' = Len(TextOf(line)) + 1
  /\ done' = TRUE
  /\ fed' = TRUE
  /\ UNCHANGED <<pc, ringVars, need, last_nl_char, line, jobVars, main, stale, prompts, typed,
                 from, discarded, crossed>>

-----------------------------------------------------------------------------
ReadLine == SecondOfPair \/ Erase \/ EndEmptyLine \/ EndLine \/ AddLetter \/ ReadEnds
UartTask == Receive \/ Store \/ ReadLine \/ StartJob \/ EndJob \/ NoJob
Torn == TornLetter \/ TornErase \/ TornEnd
LuaMain == \/ LoadInit \/ LoadLine \/ LoadPrompt \/ MainJob \/ MainNoJob \/ MainEndJob
           \/ ClearDone \/ ResetPos \/ Wipe
Next == UartTask \/ LuaMain \/ Torn \/ NodeInput \/ NodeInputEnds
Spec == Init /\ [][Next]_vars

TypeOK ==
  /\ pc \in {"wait", "store", "read", "job", "lua", "halted"}
  /\ pbuff \in Seq(Char) /\ unread \in Seq(Char) /\ typed \in Seq(Char)
  /\ ring \in [0 .. RX_BUFF_SIZE -> Char \union {Nul}]
  /\ wpos \in 0 .. RX_BUFF_SIZE /\ rpos \in 0 .. RX_BUFF_SIZE
  /\ last_nl_char \in LineEnd \union {Nul}
  /\ line \in [0 .. LUA_MAXINPUT - 1 -> Letter \union {Nul}]
  /\ pos \in -1 .. LUA_MAXINPUT
  /\ chunk \in Seq(Seq(Letter))
  /\ {need, done, firstline, prmt, discarded, fed, crossed} \subseteq BOOLEAN
  /\ main \in {"load", "line", "pos", "prompt", "dojob", "lua", "done", "reset", "wipe", "idle"}
  /\ stale \subseteq 0 .. LUA_MAXINPUT - 1
  /\ feeder \in {"uart", "main", "nobody"}
  /\ prompts \in Nat /\ from \in 0 .. Len(typed)

-----------------------------------------------------------------------------
(* Everything the driver handed over goes through the ring once and in     *)
(* order: a read of RX_BUFF_SIZE characters just fits, and the push of the *)
(* oldest character at my_uart.c:93 never costs one.                       *)
Stored == [i \in 1 .. (wpos - rpos) % (RX_BUFF_SIZE + 1) |->
             ring[(rpos + i - 1) % (RX_BUFF_SIZE + 1)]]
RingKeepsAll == unread = Stored \o pbuff

(* What an editor with a line of this size makes of a character, and of    *)
(* all that is typed.                                                      *)
Edit(text, ch) ==
  CASE ch \in LineEnd -> text
    [] ch = BS -> IF text = <<>> THEN text ELSE Front(text)
    [] OTHER -> IF Len(text) + 1 < LUA_MAXINPUT THEN Append(text, ch) ELSE <<ch>>
Edited(s) ==
  LET text[i \in 0 .. Len(s)] == IF i = 0 THEN <<>> ELSE Edit(text[i - 1], s[i])
  IN  text[Len(s)]
Since == SubSeq(typed, from + 1, Len(typed))

(* The line that Lua is given is what was typed since line_buffer was last *)
(* cleared, with the erasures made, and nothing of an older line; a line   *)
(* end inside one read counts as nothing typed.  This is not so for a line *)
(* node.input had a hand in, when a discarded line shows behind letters    *)
(* that no line end follows, and for the line that was being typed while   *)
(* lua_main cleared line_buffer (crossed): Lua may be given any part of    *)
(* it, or an empty line.                                                   *)
LineIsWhatWasTyped ==
  pc = "job" /\ done /\ ~fed /\ ~crossed /\ (discarded => Last(typed) \notin Letter)
    => TextOf(line) = Edited(Since)

(* c_strlen stays inside line_buffer, and so do the Nuls of line ends and  *)
(* erasures, as long as node.input does not move the position: after a     *)
(* discarded line it may find stale letters behind its text and put the    *)
(* position beyond the buffer.  A reset by lua_main that falls into an     *)
(* erasure may leave it one before the buffer, until the next job.         *)
StaysInside ==
  /\ \E i \in DOMAIN line : line[i] = Nul
  /\ ~fed => pos < LUA_MAXINPUT
  /\ pos < 0 => crossed

(* The second half of a CR LF or LF CR, wherever reads and lines part them, *)
(* does nothing; every other line end is answered, by a prompt or by a job. *)
EndsPair(s) ==
  LET second[i \in 1 .. Len(s)] ==
        i > 1 /\ s[i] \in LineEnd /\ s[i - 1] \in LineEnd /\ s[i] # s[i - 1] /\ ~second[i - 1]
  IN  second[Len(s)]

PairsAnsweredOnce ==
  [][Len(typed') > Len(typed) /\ Last(typed') \in LineEnd =>
       IF EndsPair(typed') THEN UNCHANGED <<pc, line, pos, done, need, prompts>>
       ELSE prompts' = prompts + 1 \/ (done' /\ need') \/ pc' = "halted"]_vars

=============================================================================
