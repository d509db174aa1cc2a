------------------------------ MODULE FtpSession ------------------------------
(***************************************************************************)
(* The FTP server sketch, ESP32_FTPServer_SD/ESP32FtpServer.cpp.  loop()   *)
(* calls handleFTP for ever; a call takes a new control connection, if     *)
(* there is one, moves the session by one line or one state, and moves the *)
(* transfer under way by one block.  One control connection, one data      *)
(* connection and one file are served at a time, and all of it is shared:  *)
(* a line is obeyed while a transfer runs, and a new control connection    *)
(* takes over whatever the old one was doing.                              *)
(*                                                                         *)
(* A line is read in one step, and a name stands for its whole path; block *)
(* sizes, answers and directories are left out, and so are the commands    *)
(* that only answer.  The network and the card are external.               *)
(***************************************************************************)
EXTENDS Integers, Sequences

CONSTANTS
  Name,        (* files that may be on the card                            *)
  OnCard,      (* those that are there in the beginning                    *)
  MaxClient,   (* bound: control connections, numbered as they come        *)
  MaxBlocks,   (* bound: the blocks of a file                              *)
  MaxLines,    (* bound: lines read                                        *)
  MaxData,     (* bound: data connections made by the peers                *)
  Data,        (* what buf holds after a block went through it             *)
  Absent       (* no name, no file                                         *)

ASSUME FtpAssumption ==
  /\ OnCard \subseteq Name
  /\ MaxClient \in Nat /\ MaxBlocks \in Nat /\ MaxLines \in Nat /\ MaxData \in Nat
  /\ Data \notin Name /\ Absent \notin Name \union Nat /\ Data # Absent

Client == 1 .. MaxClient
NoFile == [name |-> Absent, mode |-> "r", pos |-> 0]
Opened(n, m) == [name |-> n, mode |-> m, pos |-> 0]

VARIABLES
  pc,              (* the part of handleFTP: "accept", "command", "transfer"; *)
                   (* "halted" after a fault                               *)
  cmdStatus, transferStatus,
  client,          (* the control connection, 0 for none                   *)
  backlog,         (* control connections that wait                        *)
  alive,           (* those that the peer keeps open                       *)
  expired,         (* millisEndConnection is over                          *)
  data,            (* the data connection: "none", "up", or "ended" by the peer *)
  dataQ,           (* data connections that wait                           *)
  file, card,      (* the open file; the blocks of each file               *)
  rnfrCmd, buf,    (* buf serves the transfers and RNFR alike              *)
  lines, dials, knocks, (* bounds: lines read, connections made            *)
  named,           (* history: the name of this session's last RNFR        *)
  owed, moved,     (* history: blocks that this transfer had to move, and did *)
  lost,            (* history: blocks whose write failed: nobody looks     *)
  blame,           (* history: what has come between this transfer         *)
  verdict          (* history: how the last transfer ended, "whole" and    *)
                   (* "cut" both reported as a success                     *)

peerVars == <<backlog, alive, expired, dataQ, dials, knocks>>
fileVars == <<file, card, buf>>
history == <<owed, moved, lost, blame, verdict>>
vars == <<pc, cmdStatus, transferStatus, client, peerVars, data, fileVars, rnfrCmd,
          lines, named, history>>

(* FtpServer::begin *)
Init ==
  /\ pc = "accept"
  /\ cmdStatus = 0 /\ transferStatus = 0
  /\ client = 0 /\ backlog = <<>> /\ alive = {}
  /\ expired = FALSE
  /\ data = "none" /\ dataQ = 0
  /\ file = NoFile
  /\ card = [n \in Name |-> IF n \in OnCard THEN MaxBlocks ELSE Absent]
  /\ rnfrCmd = FALSE /\ buf = Absent
  /\ lines = 0 /\ dials = 0 /\ knocks = 0
  /\ named = Absent
  /\ owed = 0 /\ moved = 0 /\ lost = 0 /\ blame = {} /\ verdict = "none"

Connected == client \in alive

(* abortTransfer: only what a transfer uses is closed.                     *)
DropTransfer ==
  IF transferStatus > 0 THEN file' = NoFile /\ data' = "none" /\ verdict' = "aborted"
                        ELSE UNCHANGED <<file, data, verdict>>
Abort == transferStatus' = 0 /\ DropTransfer

(* client.stop() *)
StopClient == client' = 0 /\ alive' = alive \ {client}

-----------------------------------------------------------------------------
(* A new control connection takes the place of the old one, the state of   *)
(* the session stays.                                                      *)
Accept ==
  /\ pc = "accept"
  /\ pc' = "command"
  /\ IF backlog # <<>>
     THEN client' = Head(backlog) /\ backlog' = Tail(backlog) /\ alive' = alive \ {client}
     ELSE UNCHANGED <<client, backlog, alive>>
  /\ UNCHANGED <<cmdStatus, transferStatus, expired, dataQ, dials, knocks, data, fileVars, rnfrCmd,
                 lines, named, history>>

Dispatch == pc = "command" /\ pc' = "transfer"

(* cmdStatus 0: the client is sent away.                                   *)
Dismiss ==
  /\ Dispatch
  /\ cmdStatus = 0
  /\ cmdStatus' = 1
  /\ IF Connected THEN Abort /\ StopClient
     ELSE UNCHANGED <<transferStatus, file, data, verdict, client, alive>>
  /\ UNCHANGED <<backlog, expired, dataQ, dials, knocks, card, buf, rnfrCmd, lines, named,
                 owed, moved, lost, blame>>

(* Mutant: iniVariables leaves the command before the next session alone.  *)
FreshRnfrKept == rnfrCmd

FreshRnfr == FALSE

(* Mutant: a session that just ends leaves its transfer to iniVariables,   *)
(* which forgets it, but closes nothing.                                   *)
AbortsNot == UNCHANGED <<file, data, verdict>>

Aborts == DropTransfer

(* cmdStatus 1: abortTransfer and iniVariables, either of which ends with  *)
(* transferStatus 0.                                                       *)
Prepare ==
  /\ Dispatch
  /\ cmdStatus = 1
  /\ cmdStatus' = 2
  /\ Aborts
  /\ transferStatus' = 0
  /\ rnfrCmd' = FreshRnfr
  /\ named' = Absent
  /\ UNCHANGED <<client, peerVars, card, buf, lines, owed, moved, lost, blame>>

(* cmdStatus 2: waiting for a client.                                      *)
Greet ==
  /\ Dispatch
  /\ cmdStatus = 2
  /\ IF Connected THEN cmdStatus' = 3 /\ expired' = FALSE ELSE UNCHANGED <<cmdStatus, expired>>
  /\ UNCHANGED <<transferStatus, client, backlog, alive, dataQ, dials, knocks, data, fileVars,
                 rnfrCmd, lines, named, history>>

(* Mutant: a transfer is allowed to end first.                             *)
GivesUpIdle == ~Connected /\ transferStatus = 0

GivesUp == ~Connected

(* No line, and nobody there to send one.                                  *)
Leaves ==
  /\ Dispatch
  /\ cmdStatus > 2
  /\ cmdStatus' = IF GivesUp THEN 1 ELSE cmdStatus
  /\ UNCHANGED <<transferStatus, client, peerVars, data, fileVars, rnfrCmd, lines, named,
                 history>>

-----------------------------------------------------------------------------
(* A line of the client.                                                   *)
Line(statuses) ==
  /\ Dispatch
  /\ cmdStatus \in statuses
  /\ client # 0

Counted == lines < MaxLines /\ lines' = lines + 1
Obeyed == cmdStatus' = cmdStatus /\ expired' = FALSE
Command == Line({5}) /\ Counted /\ Obeyed

Quiet == UNCHANGED <<client, backlog, alive, dials, knocks>>

(* userIdentity and userPassword.                                          *)
LogIn ==
  /\ Line({3, 4})
  /\ \/ cmdStatus' = cmdStatus + 1 /\ expired' = (expired /\ cmdStatus = 3)
     \/ cmdStatus' = 0 /\ UNCHANGED expired
  /\ Quiet
  /\ UNCHANGED <<transferStatus, dataQ, data, fileVars, rnfrCmd, lines, named, history>>

(* A command that reads a parameter which the line does not have.          *)
NoParameter ==
  /\ pc = "command"
  /\ cmdStatus \in 3 .. 5
  /\ client # 0
  /\ pc' = "halted"
  /\ UNCHANGED <<cmdStatus, transferStatus, client, peerVars, data, fileVars, rnfrCmd, lines, named,
                 history>>

(* NOOP and all the commands that only answer, or are refused.             *)
Answer ==
  /\ Command
  /\ Quiet
  /\ UNCHANGED <<transferStatus, dataQ, data, fileVars, rnfrCmd, named, history>>

(* disconnectClient, at once.                                              *)
Quit ==
  /\ Line({5})
  /\ Counted
  /\ cmdStatus' = 0
  /\ Abort
  /\ StopClient
  /\ UNCHANGED <<backlog, expired, dataQ, dials, knocks, card, buf, rnfrCmd, named, owed, moved, lost, blame>>

Abor ==
  /\ Command
  /\ Abort
  /\ Quiet
  /\ UNCHANGED <<dataQ, card, buf, rnfrCmd, named, owed, moved, lost, blame>>

(* What a command does that a transfer does not expect.                    *)
Comes(what) == blame' = IF transferStatus > 0 THEN blame \union {what} ELSE blame

(* PASV and PORT end the data connection and say where the next one comes. *)
NewPort ==
  /\ Command
  /\ data' = "none"
  /\ Comes("data")
  /\ Quiet
  /\ UNCHANGED <<transferStatus, dataQ, fileVars, rnfrCmd, named, owed, moved, lost, verdict>>

HasClient(q) == q > 0

(* dataConnect, after a wait of up to ten seconds: the connection that has *)
(* waited longest may be over already.                                     *)
DataConnect ==
  IF data # "up" /\ HasClient(dataQ)
  THEN dataQ' = dataQ - 1 /\ data' \in {"up", "ended"}
  ELSE UNCHANGED <<dataQ, data>>

(* LIST, MLSD and NLST: a listing goes over the data connection, which ends *)
(* with it.                                                                *)
List ==
  /\ Command
  /\ \/ data = "up" /\ dataQ' = dataQ
     \/ data # "up" /\ HasClient(dataQ) /\ dataQ' = dataQ - 1
  /\ data' = "none"
  /\ Comes("data")
  /\ Quiet
  /\ UNCHANGED <<transferStatus, fileVars, rnfrCmd, named, owed, moved, lost, verdict>>

Begin(status, n) ==
  /\ transferStatus' = status
  /\ owed' = n /\ moved' = 0 /\ lost' = 0 /\ blame' = {} /\ verdict' = "none"

NotBegun == Comes("file") /\ UNCHANGED <<transferStatus, owed, moved, lost, verdict>>

(* RETR; without a data connection the file stays open.                    *)
Retr(n) ==
  /\ Command
  /\ IF card[n] = Absent
     THEN file' = NoFile /\ NotBegun /\ UNCHANGED <<data, dataQ>>
     ELSE /\ file' = Opened(n, "r")
          /\ DataConnect
          /\ IF data' = "up" THEN Begin(1, card[n]) ELSE NotBegun
  /\ Quiet
  /\ UNCHANGED <<card, buf, rnfrCmd, named>>

(* STOR; the file is emptied before there is a data connection.            *)
Stor(n) ==
  /\ Command
  /\ \/ /\ file' = NoFile
        /\ NotBegun
        /\ UNCHANGED <<card, data, dataQ>>
     \/ /\ card' = [card EXCEPT ![n] = 0]
        /\ DataConnect
        /\ IF data' = "up" THEN file' = Opened(n, "w") /\ Begin(2, 0)
           ELSE file' = NoFile /\ NotBegun
  /\ Quiet
  /\ UNCHANGED <<buf, rnfrCmd, named>>

(* SIZE opens and closes the same file object that a transfer uses.        *)
Size ==
  /\ Command
  /\ file' = NoFile
  /\ Comes("file")
  /\ Quiet
  /\ UNCHANGED <<transferStatus, dataQ, data, card, buf, rnfrCmd, named, owed, moved, lost, verdict>>

(* A change of the card under the file that is open.                       *)
Gone(n) == [card EXCEPT ![n] = Absent]
ComesToCard(n) == IF file.name = n THEN Comes("card") ELSE UNCHANGED blame

Dele(n) ==
  /\ Command
  /\ card[n] # Absent
  /\ card' = Gone(n)
  /\ ComesToCard(n)
  /\ Quiet
  /\ UNCHANGED <<transferStatus, dataQ, data, file, buf, rnfrCmd, named, owed, moved, lost, verdict>>

(* RNFR; a name that does not exist replaces the one before it, and leaves *)
(* rnfrCmd as it was.                                                      *)
Rnfr(n) ==
  /\ Command
  /\ buf' = n
  /\ named' = n
  /\ rnfrCmd' = (rnfrCmd \/ card[n] # Absent)
  /\ Quiet
  /\ UNCHANGED <<transferStatus, dataQ, data, file, card, history>>

(* RNFR without a name: what was in buf is gone, rnfrCmd stays as it was.  *)
RnfrNoName ==
  /\ Command
  /\ buf' = Absent
  /\ named' = Absent
  /\ Quiet
  /\ UNCHANGED <<transferStatus, dataQ, data, file, card, rnfrCmd, history>>

(* RNTO; SD.rename needs a file of the name that is in buf.                *)
Rnto(n) ==
  /\ Command
  /\ rnfrCmd' = FALSE
  /\ IF rnfrCmd /\ card[n] = Absent /\ buf \in Name /\ card[buf] # Absent
     THEN card' = [Gone(buf) EXCEPT ![n] = card[buf]] /\ ComesToCard(buf)
     ELSE UNCHANGED <<card, blame>>
  /\ Quiet
  /\ UNCHANGED <<transferStatus, dataQ, data, file, buf, named, owed, moved, lost, verdict>>

-----------------------------------------------------------------------------
(* The rest of the call: a block, or a look at the clock.                  *)
After == pc = "transfer" /\ pc' = "accept"

(* What a transfer owes it has moved, or lost in a write that failed.      *)
Ended ==
  IF moved + lost = owed /\ (transferStatus = 2 => data = "ended") THEN "whole" ELSE "cut"

(* closeTransfer: what it answers is a success.                            *)
Close ==
  /\ transferStatus' = 0
  /\ file' = NoFile
  /\ data' = "none"
  /\ verdict' = Ended
  /\ UNCHANGED <<card, buf, owed, moved, lost>>

Readable == file.name # Absent /\ card[file.name] # Absent /\ file.pos < card[file.name]

(* A block of doRetrieve: data.write may write less of it than all, or     *)
(* nothing, to a receiver that is slow as to one that has gone.            *)
Send ==
  /\ file' = [file EXCEPT !.pos = @ + 1]
  /\ buf' = Data
  /\ \/ data = "up" /\ moved' = moved + 1 /\ lost' = lost
     \/ lost' = lost + 1 /\ moved' = moved
  /\ UNCHANGED <<transferStatus, data, card, owed, blame, verdict>>

(* doRetrieve: nothing read, at the end of the file or because the card    *)
(* fails, is the end.                                                      *)
Retrieve ==
  /\ After
  /\ transferStatus = 1
  /\ \/ Readable /\ Send
     \/ Readable /\ Close /\ blame' = blame \union {"card"}
     \/ ~Readable /\ Close /\ UNCHANGED blame
  /\ UNCHANGED <<cmdStatus, client, peerVars, rnfrCmd, lines, named>>

(* Mutant: a pause in the data is taken for its end.                       *)
GoesOnWithData(nb) == data = "up" /\ nb > 0

GoesOn(nb) == data = "up"

Writes == file.name # Absent /\ file.mode = "w" /\ card[file.name] # Absent

(* A block of doStore, if there is one: the card may not take it.          *)
Receive(nb) ==
  /\ owed + nb <= MaxBlocks
  /\ owed' = owed + nb
  /\ IF nb > 0 THEN buf' = Data ELSE UNCHANGED buf
  /\ \/ /\ Writes
        /\ card' = [card EXCEPT ![file.name] = @ + nb]
        /\ file' = [file EXCEPT !.pos = @ + nb]
        /\ moved' = moved + nb
        /\ UNCHANGED lost
     \/ /\ lost' = lost + nb
        /\ UNCHANGED <<card, file, moved>>
  /\ UNCHANGED <<transferStatus, data, verdict>>

(* doStore: nothing read is a pause.                                       *)
Store ==
  /\ After
  /\ transferStatus = 2
  /\ \E nb \in 0 .. 1 : IF GoesOn(nb) THEN Receive(nb) ELSE Close
  /\ UNCHANGED <<cmdStatus, client, peerVars, rnfrCmd, lines, named, blame>>

(* Outside of transfers a client that is silent for too long is sent away. *)
NoTransfer ==
  /\ After
  /\ transferStatus = 0
  /\ cmdStatus' = IF cmdStatus > 2 /\ expired THEN 0 ELSE cmdStatus
  /\ UNCHANGED <<transferStatus, client, peerVars, data, fileVars, rnfrCmd, lines, named,
                 history>>

-----------------------------------------------------------------------------
(* The peers and the clock.                                                *)
Knock ==
  /\ knocks < MaxClient
  /\ knocks' = knocks + 1
  /\ backlog' = Append(backlog, knocks')
  /\ alive' = alive \union {knocks'}
  /\ UNCHANGED <<pc, cmdStatus, transferStatus, client, expired, dataQ, dials, data, fileVars,
                 rnfrCmd, lines, named, history>>

HangUp ==
  /\ \E c \in alive : alive' = alive \ {c}
  /\ UNCHANGED <<pc, cmdStatus, transferStatus, client, backlog, expired, dataQ, dials, knocks, data,
                 fileVars, rnfrCmd, lines, named, history>>

DialData ==
  /\ dials < MaxData
  /\ dials' = dials + 1
  /\ dataQ' = dataQ + 1
  /\ UNCHANGED <<pc, cmdStatus, transferStatus, client, backlog, alive, expired, knocks, data, fileVars,
                 rnfrCmd, lines, named, history>>

EndData ==
  /\ data = "up"
  /\ data' = "ended"
  /\ UNCHANGED <<pc, cmdStatus, transferStatus, client, peerVars, fileVars, rnfrCmd, lines,
                 named, history>>

TimePasses ==
  /\ cmdStatus > 2
  /\ ~expired
  /\ expired' = TRUE
  /\ UNCHANGED <<pc, cmdStatus, transferStatus, client, backlog, alive, dataQ, dials, knocks, data,
                 fileVars, rnfrCmd, lines, named, history>>

Peers == Knock \/ HangUp \/ DialData \/ EndData \/ TimePasses
FileCommand == \E n \in Name : Retr(n) \/ Stor(n) \/ Dele(n) \/ Rnfr(n) \/ Rnto(n)
ReadLine == LogIn \/ NoParameter \/ Answer \/ Quit \/ Abor \/ NewPort \/ List \/ Size \/ RnfrNoName \/ FileCommand
HandleFTP == Accept \/ Dismiss \/ Prepare \/ Greet \/ Leaves \/ ReadLine
             \/ Retrieve \/ Store \/ NoTransfer
Next == HandleFTP \/ Peers
Spec == Init /\ [][Next]_vars

(* loop() calls handleFTP for ever.                                        *)
FairSpec == Spec /\ WF_vars(HandleFTP)

-----------------------------------------------------------------------------
Flags == expired \in BOOLEAN /\ rnfrCmd \in BOOLEAN

Types ==
  /\ pc \in {"accept", "command", "transfer", "halted"}
  /\ cmdStatus \in 0 .. 5 /\ transferStatus \in 0 .. 2
  /\ client \in 0 .. MaxClient /\ backlog \in Seq(Client) /\ alive \subseteq Client
  /\ data \in {"none", "up", "ended"} /\ dataQ \in 0 .. dials /\ dials \in 0 .. MaxData
  /\ file \in [name : Name \union {Absent}, mode : {"r", "w"}, pos : Nat]
  /\ card \in [Name -> Nat \union {Absent}]
  /\ buf \in Name \union {Data, Absent} /\ named \in Name \union {Absent}
  /\ lines \in 0 .. MaxLines /\ knocks \in 0 .. MaxClient /\ owed \in Nat /\ moved \in Nat /\ lost \in Nat
  /\ blame \subseteq {"file", "data", "card"}
  /\ verdict \in {"none", "whole", "cut", "aborted"}

TypeOK == Types /\ Flags

(* No transfer goes on into the next session: every way out of one, by     *)
(* QUIT, a failed login, the clock or a lost connection, goes through      *)
(* abortTransfer before another client is greeted, and so the connection   *)
(* of the last transfer is no longer there to be taken for the next one's. *)
TransferWithinSession == cmdStatus \in 2 .. 4 => transferStatus = 0 /\ data # "up"

(* Of a transfer that is reported as a success each block was read, and    *)
(* written once: none is missing, except those whose own write failed,     *)
(* which the code ignores, unless the card could not be read, or a command *)
(* that came during the transfer took its file or its connection.  No      *)
(* pause, no lost block, no new control connection and no end of a session *)
(* makes it stop early or go astray.                                       *)
SuccessIsWhole == verdict = "cut" => blame # {}

(* What RNTO renames is what this session named last with RNFR, unless a   *)
(* block of a transfer went through buf since.                             *)
RenamesTheNamed == rnfrCmd /\ buf # Data => buf = named

(* When the client is gone the server comes to wait for the next one, or   *)
(* is taken over by it, also in the middle of a transfer.                  *)
GoneIsForgotten == cmdStatus > 2 /\ ~Connected ~> cmdStatus = 2 \/ Connected \/ pc = "halted"

=============================================================================
