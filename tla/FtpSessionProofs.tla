-------------------------- MODULE FtpSessionProofs --------------------------
(***************************************************************************)
(* What FtpSession keeps for any number of connections, files, blocks and  *)
(* lines.  That a success is whole needs a strengthening: while a transfer *)
(* runs and nothing has come between, what it moved or lost is what it had *)
(* to move so far, and its file and its connection are still the ones it   *)
(* began with.                                                             *)
(***************************************************************************)
EXTENDS FtpSession, SequenceTheorems, TLAPS

Retrieving ==
  transferStatus = 1 /\ blame = {} =>
    /\ file.name \in Name /\ file.mode = "r"
    /\ card[file.name] = owed
    /\ moved + lost = file.pos /\ file.pos <= owed

Storing ==
  transferStatus = 2 /\ blame = {} => moved + lost = owed /\ data \in {"up", "ended"}

(* The data connection belongs to a transfer.                              *)
DataOfTransfer == data = "up" => transferStatus > 0

IInv == TypeOK /\ TransferWithinSession /\ DataOfTransfer /\ RenamesTheNamed /\ SuccessIsWhole
        /\ Retrieving /\ Storing

-----------------------------------------------------------------------------
(* The invariant holds before the first call of handleFTP.                 *)
LEMMA InitIInv == Init => IInv
<1> SUFFICES ASSUME Init PROVE IInv
  OBVIOUS
<1>1. backlog \in Seq(Client) /\ Flags
  <2>1. backlog = <<>> /\ expired = FALSE /\ rnfrCmd = FALSE
    BY Zenon DEF Init
  <2>2. backlog \in Seq(Client)
    BY <2>1, EmptySeq
  <2> QED BY <2>1, <2>2, Zenon DEF Flags
<1>2. Types
  <2>1. card \in [Name -> Nat \union {Absent}]
    BY FtpAssumption DEF Init
  <2>2. /\ pc = "accept" /\ cmdStatus = 0 /\ transferStatus = 0 /\ client = 0 /\ alive = {}
        /\ data = "none" /\ dataQ = 0 /\ dials = 0 /\ lines = 0 /\ knocks = 0 /\ owed = 0 /\ moved = 0 /\ lost = 0
        /\ file = NoFile /\ buf = Absent /\ named = Absent /\ blame = {} /\ verdict = "none"
    BY Zenon DEF Init
  <2> QED BY FtpAssumption, <1>1, <2>1, <2>2 DEF Types, NoFile
<1>3. TransferWithinSession /\ DataOfTransfer /\ RenamesTheNamed /\ SuccessIsWhole /\ Retrieving /\ Storing
  BY DEF Init, TransferWithinSession, DataOfTransfer, RenamesTheNamed, SuccessIsWhole, Retrieving, Storing
<1> QED BY <1>1, <1>2, <1>3 DEF IInv, TypeOK

(* What remains in the backlog and what joins it.                          *)
LEMMA Backlog ==
  ASSUME NEW S, NEW q \in Seq(S)
  PROVE /\ q # <<>> => Head(q) \in S /\ Tail(q) \in Seq(S)
        /\ \A e \in S : Append(q, e) \in Seq(S)
  BY HeadTailProperties, AppendProperties

(* Every step keeps the types: the session's own steps,                    *)
LEMMA SessionTypes ==
  ASSUME TypeOK, Accept \/ Dismiss \/ Prepare \/ Greet \/ Leaves \/ LogIn \/ NoParameter
                 \/ Answer \/ Quit \/ Abor
  PROVE Types'
<1> USE FtpAssumption DEF TypeOK, Types, Dispatch, Abort, DropTransfer, StopClient, NoFile, Client, peerVars, fileVars, history
<1>1. CASE Accept
  <2>1. CASE backlog # <<>>
    <3>1. Head(backlog) \in Client /\ Tail(backlog) \in Seq(Client)
      BY <2>1, Backlog
    <3>2. /\ pc' = "command" /\ client' = Head(backlog) /\ backlog' = Tail(backlog)
          /\ alive' = alive \ {client}
          /\ UNCHANGED <<cmdStatus, transferStatus, dataQ, dials, knocks, data, fileVars, lines, named,
                        history>>
      BY <1>1, <2>1, Zenon DEF Accept
    <3> QED BY <3>1, <3>2
  <2>2. CASE backlog = <<>>
    BY <1>1, <2>2 DEF Accept
  <2> QED BY <2>1, <2>2
<1>2. CASE Dismiss
  <2>1. /\ pc' = "transfer" /\ cmdStatus' = 1
        /\ UNCHANGED <<backlog, dataQ, dials, knocks, card, buf, lines, named, owed, moved, lost, blame>>
    BY <1>2, Zenon DEF Dismiss
  <2>2. CASE Connected
    <3>1. Abort /\ StopClient
      BY <1>2, <2>2, Zenon DEF Dismiss
    <3> QED BY <2>1, <3>1
  <2>3. CASE ~Connected
    <3>1. UNCHANGED <<transferStatus, file, data, verdict, client, alive>>
      BY <1>2, <2>3, Zenon DEF Dismiss
    <3> QED BY <2>1, <3>1
  <2> QED BY <2>2, <2>3
<1>3. CASE Prepare
  BY <1>3 DEF Prepare, Aborts, FreshRnfr
<1>4. CASE Greet \/ Leaves
  <2>1. /\ pc' = "transfer" /\ cmdStatus' \in {cmdStatus, 1, 3}
        /\ UNCHANGED <<transferStatus, client, backlog, alive, dataQ, dials, knocks, data, fileVars,
                      lines, named, history>>
    BY <1>4, Zenon DEF Greet, Leaves
  <2> QED BY <2>1
<1>5. CASE LogIn
  BY <1>5 DEF LogIn, Line, Quiet
<1>6. CASE NoParameter
  BY <1>6 DEF NoParameter
<1>7. CASE Answer
  BY <1>7 DEF Answer, Command, Line, Counted, Obeyed, Quiet
<1>8. CASE Quit
  BY <1>8 DEF Quit, Line, Counted
<1>9. CASE Abor
  BY <1>9 DEF Abor, Command, Line, Counted, Obeyed, Quiet
<1> QED BY <1>1, <1>2, <1>3, <1>4, <1>5, <1>6, <1>7, <1>8, <1>9

(* the commands that a transfer may meet,                                  *)
LEMMA CommandTypes ==
  ASSUME TypeOK, NewPort \/ List \/ Size \/ RnfrNoName \/ FileCommand
  PROVE Types'
<1> USE FtpAssumption DEF TypeOK, Types, Dispatch, Command, Line, Counted, Obeyed, Quiet, Comes, NoFile,
      Opened, fileVars, history
<1>1. CASE NewPort
  BY <1>1 DEF NewPort
<1>2. CASE List
  BY <1>2 DEF List, HasClient
<1>3. CASE Size
  BY <1>3 DEF Size
<1>9. CASE RnfrNoName
  <2>1. buf' = Absent /\ named' = Absent /\ UNCHANGED <<transferStatus, dataQ, data, file, card, history>>
    BY <1>9, Zenon DEF RnfrNoName
  <2>2. Command /\ Quiet
    BY <1>9, Zenon DEF RnfrNoName
  <2> QED BY <2>1, <2>2
<1>4. ASSUME NEW n \in Name, Retr(n) PROVE Types'
  <2>1. dataQ' \in 0 .. dials /\ data' \in {"none", "up", "ended"}
    BY <1>4 DEF Retr, DataConnect, HasClient
  <2>2. owed' \in Nat /\ moved' \in Nat /\ lost' \in Nat /\ verdict' \in {"none", "whole", "cut", "aborted"}
        /\ blame' \subseteq {"file", "data", "card"} /\ transferStatus' \in 0 .. 2
    <3>1. CASE NotBegun
      BY <3>1 DEF NotBegun
    <3>2. CASE card[n] # Absent /\ Begin(1, card[n])
      BY <3>2 DEF Begin
    <3> QED BY <1>4, <3>1, <3>2 DEF Retr
  <2>3. file' \in [name : Name \union {Absent}, mode : {"r", "w"}, pos : Nat]
    BY <1>4 DEF Retr
  <2> QED BY <1>4, <2>1, <2>2, <2>3 DEF Retr
<1>5. ASSUME NEW n \in Name, Stor(n) PROVE Types'
  <2>1. dataQ' \in 0 .. dials /\ data' \in {"none", "up", "ended"}
    BY <1>5 DEF Stor, DataConnect, HasClient
  <2>2. owed' \in Nat /\ moved' \in Nat /\ lost' \in Nat /\ verdict' \in {"none", "whole", "cut", "aborted"}
        /\ blame' \subseteq {"file", "data", "card"} /\ transferStatus' \in 0 .. 2
    <3>1. CASE NotBegun
      BY <3>1 DEF NotBegun
    <3>2. CASE Begin(2, 0)
      BY <3>2 DEF Begin
    <3> QED BY <1>5, <3>1, <3>2 DEF Stor
  <2>3. file' \in [name : Name \union {Absent}, mode : {"r", "w"}, pos : Nat]
    BY <1>5 DEF Stor
  <2>4. card' \in [Name -> Nat \union {Absent}]
    BY <1>5 DEF Stor
  <2> QED BY <1>5, <2>1, <2>2, <2>3, <2>4 DEF Stor
<1>6. ASSUME NEW n \in Name, Dele(n) PROVE Types'
  <2>1. card' \in [Name -> Nat \union {Absent}]
    BY <1>6 DEF Dele, Gone
  <2>2. blame' \subseteq {"file", "data", "card"}
    BY <1>6 DEF Dele, ComesToCard
  <2> QED BY <1>6, <2>1, <2>2 DEF Dele
<1>7. ASSUME NEW n \in Name, Rnfr(n) PROVE Types'
  BY <1>7 DEF Rnfr
<1>8. ASSUME NEW n \in Name, Rnto(n) PROVE Types'
  <2>1. card' \in [Name -> Nat \union {Absent}]
    BY <1>8 DEF Rnto, Gone
  <2>2. blame' \subseteq {"file", "data", "card"}
    BY <1>8 DEF Rnto, ComesToCard
  <2>3. UNCHANGED <<transferStatus, dataQ, data, file, buf, named, owed, moved, lost, verdict>>
    BY <1>8, Zenon DEF Rnto
  <2>4. Command /\ Quiet
    BY <1>8, Zenon DEF Rnto
  <2> QED BY <2>1, <2>2, <2>3, <2>4
<1> QED BY <1>1, <1>2, <1>3, <1>4, <1>5, <1>6, <1>7, <1>8, <1>9 DEF FileCommand

(* The place in a file moves on.                                           *)
LEMMA FileMoves ==
  ASSUME NEW S, NEW T, NEW g \in [name : S, mode : T, pos : Nat], NEW p \in Nat
  PROVE  [g EXCEPT !.pos = p] \in [name : S, mode : T, pos : Nat]
OBVIOUS

(* and the transfers and the peers.                                        *)
LEMMA TransferTypes ==
  ASSUME TypeOK, Retrieve \/ Store \/ NoTransfer \/ Peers
  PROVE Types'
<1> USE FtpAssumption DEF TypeOK, Types, After, Close, Ended, NoFile, peerVars, fileVars, history
<1>1. CASE Retrieve
  <2>1. UNCHANGED <<client, backlog, alive, dataQ, dials, knocks, cmdStatus, lines, named>> /\ pc' = "accept"
    BY <1>1, Zenon DEF Retrieve
  <2>2. CASE Send
    <3>1. /\ file' = [file EXCEPT !.pos = @ + 1] /\ buf' = Data
          /\ moved' \in {moved, moved + 1} /\ lost' \in {lost, lost + 1}
          /\ UNCHANGED <<transferStatus, data, card, owed, blame, verdict>>
      BY <2>2 DEF Send
    <3>2. file' \in [name : Name \union {Absent}, mode : {"r", "w"}, pos : Nat]
      <4>1. PICK p \in Nat : p = file.pos + 1
        OBVIOUS
      <4>2. file' = [file EXCEPT !.pos = p]
        BY <3>1, <4>1
      <4>3. file \in [name : Name \union {Absent}, mode : {"r", "w"}, pos : Nat]
        BY Zenon
      <4> HIDE DEF TypeOK, Types
      <4> QED BY <4>1, <4>2, <4>3, FileMoves, Zenon
    <3>3. moved' \in Nat /\ lost' \in Nat /\ buf' \in Name \union {Data, Absent}
      <4>1. PICK m \in Nat, l \in Nat : m = moved /\ l = lost
        BY Zenon
      <4> HIDE DEF TypeOK, Types
      <4> QED BY <3>1, <4>1
    <3>4. UNCHANGED <<transferStatus, data, card, owed, blame, verdict>>
      BY <3>1
    <3> HIDE DEF Close, Ended, NoFile
    <3> QED BY <2>1, <3>2, <3>3, <3>4
  <2>3. CASE Close /\ (blame' = blame \union {"card"} \/ blame' = blame)
    <3>1. /\ transferStatus' = 0 /\ data' = "none" /\ UNCHANGED <<card, buf, owed, moved, lost>>
          /\ file' = NoFile /\ verdict' = Ended
      BY <2>3, Zenon
    <3>2. verdict' \in {"none", "whole", "cut", "aborted"}
      BY <3>1
    <3>3. blame' \subseteq {"file", "data", "card"}
      BY <2>3
    <3>4. file' \in [name : Name \union {Absent}, mode : {"r", "w"}, pos : Nat]
      BY <3>1
    <3> HIDE DEF Close, Ended, NoFile
    <3> QED BY <2>1, <3>1, <3>2, <3>3, <3>4
  <2>4. \/ Send
        \/ Close /\ (blame' = blame \union {"card"} \/ blame' = blame)
    <3> HIDE DEF Close
    <3> QED BY <1>1, Zenon DEF Retrieve
  <2> HIDE DEF Close, TypeOK, Types
  <2> QED BY <2>2, <2>3, <2>4
<1>2. CASE Store
  <2>1. PICK nb \in 0 .. 1 : IF GoesOn(nb) THEN Receive(nb) ELSE Close
    BY <1>2 DEF Store
  <2>2. /\ UNCHANGED <<client, backlog, alive, dataQ, dials, knocks, cmdStatus, lines, named, blame>>
        /\ pc' = "accept"
    BY <1>2, Zenon DEF Store
  <2>3. CASE ~GoesOn(nb)
    BY <2>1, <2>2, <2>3
  <2>4. CASE GoesOn(nb)
    <3>1. /\ UNCHANGED <<transferStatus, data, verdict>> /\ owed' \in Nat /\ buf' \in {buf, Data}
          /\ \/ /\ Writes
                /\ card' = [card EXCEPT ![file.name] = @ + nb]
                /\ file' = [file EXCEPT !.pos = @ + nb]
                /\ moved' = moved + nb
                /\ UNCHANGED lost
             \/ /\ lost' = lost + nb
                /\ UNCHANGED <<card, file, moved>>
      <4>1. PICK o \in Nat : o = owed
        BY Zenon
      <4> HIDE DEF TypeOK, Types
      <4> QED BY <2>1, <2>4, <4>1 DEF Receive
    <3>2. CASE lost' = lost + nb /\ UNCHANGED <<card, file, moved>>
      <4>1. lost' \in Nat
        <5>1. PICK l \in Nat : l = lost
          BY Zenon
        <5> HIDE DEF TypeOK, Types
        <5> QED BY <3>2, <5>1
      <4>2. UNCHANGED <<card, file, moved>>
        BY <3>2, Zenon
      <4> QED BY <2>2, <3>1, <4>1, <4>2
    <3>3. CASE /\ Writes
               /\ card' = [card EXCEPT ![file.name] = @ + nb]
               /\ file' = [file EXCEPT !.pos = @ + nb]
               /\ moved' = moved + nb
               /\ UNCHANGED lost
      <4>1. card' \in [Name -> Nat \union {Absent}]
        BY <3>3 DEF Writes
      <4>2. file' \in [name : Name \union {Absent}, mode : {"r", "w"}, pos : Nat] /\ moved' \in Nat
        <5>1. PICK p \in Nat : p = file.pos + nb
          OBVIOUS
        <5>2. file' = [file EXCEPT !.pos = p]
          BY <3>3, <5>1
        <5>3. moved' \in Nat
          BY <3>3
        <5>4. file \in [name : Name \union {Absent}, mode : {"r", "w"}, pos : Nat]
          BY Zenon
        <5> HIDE DEF TypeOK, Types
        <5> QED BY <5>1, <5>2, <5>3, <5>4, FileMoves, Zenon
      <4>3. lost' \in Nat
        BY <3>3
      <4> QED BY <2>2, <3>1, <4>1, <4>2, <4>3
    <3> QED BY <3>1, <3>2, <3>3
  <2> HIDE DEF Close, TypeOK, Types
  <2> QED BY <2>3, <2>4
<1>3. CASE NoTransfer
  BY <1>3 DEF NoTransfer
<1>4. CASE Knock
  <2>1. knocks' \in Client
    BY <1>4 DEF Knock, Client
  <2>2. backlog' \in Seq(Client) /\ alive' \subseteq Client /\ knocks' \in 0 .. MaxClient
    BY <1>4, <2>1, Backlog DEF Knock, Client
  <2> QED BY <1>4, <2>2 DEF Knock
<1>5. CASE HangUp \/ EndData \/ TimePasses
  BY <1>5 DEF HangUp, EndData, TimePasses
<1>6. CASE DialData
  BY <1>6 DEF DialData
<1> QED BY <1>1, <1>2, <1>3, <1>4, <1>5, <1>6 DEF Peers

(* and the two Booleans.                                                   *)
LEMMA NextFlags == ASSUME Flags, Next PROVE Flags'
<1> USE DEF Flags, Quiet, Line, Command, Obeyed
<1>1. CASE Accept \/ Dismiss \/ Prepare \/ Greet \/ Leaves
  BY <1>1, Zenon DEF Accept, Dismiss, Prepare, FreshRnfr, Greet, Leaves, peerVars
<1>2. CASE LogIn
  BY <1>2, Zenon DEF LogIn
<1>3. CASE NoParameter \/ Answer \/ Quit \/ Abor \/ NewPort \/ List \/ Size \/ RnfrNoName
  BY <1>3, Zenon DEF NoParameter, Answer, Quit, Abor, NewPort, List, Size, RnfrNoName, peerVars
<1>4. CASE FileCommand
  BY <1>4, Zenon DEF FileCommand, Retr, Stor, Dele, Rnfr, Rnto
<1>5. CASE Retrieve \/ Store \/ NoTransfer \/ Peers
  BY <1>5, Zenon DEF Retrieve, Store, NoTransfer, Peers, Knock, HangUp, DialData, EndData, TimePasses, peerVars
<1> QED BY <1>1, <1>2, <1>3, <1>4, <1>5 DEF Next, HandleFTP, ReadLine

(* A transfer begins only for a client that has logged in, and every way   *)
(* back to the greeting passes abortTransfer.                              *)
LEMMA NextTransferWithinSession ==
  ASSUME TypeOK, TransferWithinSession, DataOfTransfer, Next
  PROVE TransferWithinSession' /\ DataOfTransfer'
<1> USE DEF TypeOK, Types, TransferWithinSession, DataOfTransfer
<1>1. CASE Prepare
  BY <1>1 DEF Prepare, Aborts, DropTransfer
<1>2. CASE Accept \/ Dismiss \/ Greet \/ Leaves \/ NoParameter
  BY <1>2 DEF Accept, Dismiss, Greet, Leaves, NoParameter, Abort, DropTransfer
<1>3. CASE LogIn \/ Answer \/ Quit \/ Abor \/ NewPort \/ List \/ Size \/ RnfrNoName
  BY <1>3 DEF LogIn, Answer, Quit, Abor, NewPort, List, Size, RnfrNoName, Line, Command, Obeyed, Abort, DropTransfer
<1>4. ASSUME NEW n \in Name, Retr(n) \/ Stor(n) PROVE TransferWithinSession' /\ DataOfTransfer'
  <2>1. cmdStatus' = 5
    BY <1>4 DEF Retr, Stor, Line, Command, Obeyed
  <2>2. data' = "up" => transferStatus' > 0
    BY <1>4 DEF Retr, Stor, Begin, NotBegun
  <2> QED BY <2>1, <2>2
<1>5. ASSUME NEW n \in Name, Dele(n) \/ Rnfr(n) \/ Rnto(n) PROVE TransferWithinSession' /\ DataOfTransfer'
  BY <1>5 DEF Dele, Rnfr, Rnto, Line, Command, Obeyed
<1>6. CASE Retrieve \/ Store \/ NoTransfer
  BY <1>6 DEF Retrieve, Store, NoTransfer, Close, Send, Receive
<1>7. CASE Peers
  BY <1>7 DEF Peers, Knock, HangUp, DialData, EndData, TimePasses
<1> QED BY <1>1, <1>2, <1>3, <1>4, <1>5, <1>6, <1>7 DEF Next, HandleFTP, ReadLine, FileCommand

(* buf changes with RNFR and with the blocks of a transfer only.           *)
LEMMA NextRenamesTheNamed ==
  ASSUME TypeOK, RenamesTheNamed, Next PROVE RenamesTheNamed'
<1> USE FtpAssumption DEF RenamesTheNamed, fileVars
<1>1. CASE Prepare
  BY <1>1 DEF Prepare, FreshRnfr
<1>2. CASE Accept \/ Dismiss \/ Greet \/ Leaves \/ NoParameter
  BY <1>2 DEF Accept, Dismiss, Greet, Leaves, NoParameter
<1>3. CASE LogIn \/ Answer \/ Quit \/ Abor \/ NewPort \/ List \/ Size \/ RnfrNoName
  BY <1>3 DEF LogIn, Answer, Quit, Abor, NewPort, List, Size, RnfrNoName
<1>4. CASE FileCommand
  BY <1>4 DEF FileCommand, Retr, Stor, Dele, Rnfr, Rnto
<1>5. CASE Retrieve
  BY <1>5 DEF Retrieve, Close, Send
<1>6. CASE Store
  BY <1>6 DEF Store, Close, Receive
<1>7. CASE NoTransfer \/ Peers
  BY <1>7 DEF NoTransfer, Peers, Knock, HangUp, DialData, EndData, TimePasses
<1> QED BY <1>1, <1>2, <1>3, <1>4, <1>5, <1>6, <1>7 DEF Next, HandleFTP, ReadLine

Sound == SuccessIsWhole /\ Retrieving /\ Storing

(* A transfer that is aborted leaves nothing to be sound about.            *)
LEMMA AbortSound ==
  ASSUME Sound, transferStatus' = 0, DropTransfer, UNCHANGED <<card, owed, moved, lost, blame>>
  PROVE Sound'
  BY DEF Sound, SuccessIsWhole, Retrieving, Storing, DropTransfer

(* A step that says what it does to a transfer has said enough.            *)
LEMMA BlamedSound ==
  ASSUME Sound, NEW what, Comes(what), UNCHANGED <<transferStatus, owed, moved, lost, verdict>>
  PROVE Sound'
  BY DEF Sound, SuccessIsWhole, Retrieving, Storing, Comes

LEMMA UntouchedSound ==
  ASSUME Sound, UNCHANGED <<transferStatus, file, card, data, history>> PROVE Sound'
  BY DEF Sound, SuccessIsWhole, Retrieving, Storing, history

(* A file that comes to another name does not disturb the one that is open. *)
LEMMA CardSound ==
  ASSUME Sound, TypeOK, NEW n \in Name,
         ComesToCard(n), file.name \in Name \ {n} => card'[file.name] = card[file.name] \/ card[file.name] = Absent,
         UNCHANGED <<transferStatus, file, data, owed, moved, lost, verdict>>
  PROVE Sound'
<1>1. CASE file.name = n
  BY <1>1, BlamedSound DEF ComesToCard
<1>2. CASE file.name # n
  BY <1>2, FtpAssumption DEF ComesToCard, Sound, SuccessIsWhole, Retrieving, Storing, TypeOK, Types
<1> QED BY <1>1, <1>2

(* Every step keeps a success whole.                                       *)
LEMMA NextSound == ASSUME TypeOK, Sound, Next PROVE Sound'
<1>1. CASE Accept \/ Greet \/ Leaves \/ NoParameter \/ NoTransfer
  BY <1>1, UntouchedSound DEF Accept, Greet, Leaves, NoParameter, NoTransfer, fileVars, history
<1>2. CASE Prepare
  BY <1>2, AbortSound DEF Prepare, Aborts
<1>3. CASE Dismiss
  <2>1. CASE Connected
    BY <1>3, <2>1, AbortSound DEF Dismiss, Abort
  <2>2. CASE ~Connected
    BY <1>3, <2>2, UntouchedSound DEF Dismiss, history
  <2> QED BY <2>1, <2>2
<1>4. CASE Quit \/ Abor
  BY <1>4, AbortSound DEF Quit, Abor, Abort
<1>5. CASE LogIn \/ Answer \/ RnfrNoName
  BY <1>5, UntouchedSound DEF LogIn, Answer, RnfrNoName, fileVars, history
<1>6. CASE NewPort \/ List \/ Size
  BY <1>6, BlamedSound DEF NewPort, List, Size
<1>7. ASSUME NEW n \in Name, Retr(n) PROVE Sound'
  <2>1. CASE NotBegun
    BY <2>1, BlamedSound DEF NotBegun
  <2>2. CASE card[n] # Absent /\ file' = Opened(n, "r") /\ Begin(1, card[n])
    <3>1. card' = card /\ card[n] \in Nat
      BY <1>7, <2>2 DEF Retr, TypeOK, Types
    <3> QED BY <2>2, <3>1 DEF Sound, SuccessIsWhole, Retrieving, Storing, Begin, Opened
  <2> QED BY <1>7, <2>1, <2>2 DEF Retr
<1>8. ASSUME NEW n \in Name, Stor(n) PROVE Sound'
  <2>1. CASE NotBegun
    BY <2>1, BlamedSound DEF NotBegun
  <2>2. CASE data' = "up" /\ Begin(2, 0)
    BY <2>2 DEF Sound, SuccessIsWhole, Retrieving, Storing, Begin
  <2> QED BY <1>8, <2>1, <2>2 DEF Stor
<1>9. ASSUME NEW n \in Name, Dele(n) PROVE Sound'
  <2>1. file.name \in Name \ {n} => card'[file.name] = card[file.name] \/ card[file.name] = Absent
    BY <1>9 DEF Dele, Gone, TypeOK, Types
  <2> QED BY <1>9, <2>1, CardSound DEF Dele
<1>10. ASSUME NEW n \in Name, Rnfr(n) PROVE Sound'
  BY <1>10, UntouchedSound DEF Rnfr, history
<1>11. ASSUME NEW n \in Name, Rnto(n) PROVE Sound'
  <2>1. CASE rnfrCmd /\ card[n] = Absent /\ buf \in Name /\ card[buf] # Absent
    <3>1. card' = [Gone(buf) EXCEPT ![n] = card[buf]] /\ ComesToCard(buf)
      BY <1>11, <2>1 DEF Rnto
    <3>2. file.name \in Name \ {buf} => card'[file.name] = card[file.name] \/ card[file.name] = Absent
      BY <2>1, <3>1 DEF Gone, TypeOK, Types
    <3> QED BY <1>11, <2>1, <3>1, <3>2, CardSound DEF Rnto
  <2>2. CASE UNCHANGED <<card, blame>>
    BY <1>11, <2>2, UntouchedSound DEF Rnto, history
  <2> QED BY <1>11, <2>1, <2>2 DEF Rnto
<1>12. CASE Retrieve
  <2>0. transferStatus = 1
    BY <1>12 DEF Retrieve
  <2>1. CASE Readable /\ Send
    <3>1. /\ transferStatus' = 1 /\ file' = [file EXCEPT !.pos = @ + 1]
          /\ UNCHANGED <<card, owed, verdict, blame>>
          /\ \/ moved' = moved + 1 /\ lost' = lost
             \/ lost' = lost + 1 /\ moved' = moved
      BY <2>0, <2>1 DEF Send
    <3>2. moved \in Nat /\ lost \in Nat /\ owed \in Nat /\ file.pos \in Nat
      BY DEF TypeOK, Types
    <3>3. /\ file'.pos = file.pos + 1 /\ file'.name = file.name /\ file'.mode = file.mode
      BY <3>1 DEF TypeOK, Types
    <3>4. moved' + lost' = moved + lost + 1
      BY <3>1, <3>2
    <3>5. Retrieving'
      BY <2>0, <2>1, <3>1, <3>2, <3>3, <3>4 DEF Readable, Sound, Retrieving, TypeOK, Types
    <3> QED BY <3>1, <3>5 DEF Sound, SuccessIsWhole, Storing
  <2>2. CASE Close /\ blame' = blame \union {"card"}
    BY <2>2 DEF Close, Sound, SuccessIsWhole, Retrieving, Storing
  <2>3. CASE ~Readable /\ Close /\ UNCHANGED blame
    <3>1. blame = {} => Ended = "whole"
      BY <2>0, <2>3, FtpAssumption DEF Readable, Sound, Retrieving, Ended, TypeOK, Types
    <3> QED BY <2>3, <3>1 DEF Close, Sound, SuccessIsWhole, Retrieving, Storing
  <2> QED BY <1>12, <2>1, <2>2, <2>3 DEF Retrieve
<1>13. CASE Store
  <2>1. PICK nb \in 0 .. 1 : IF GoesOn(nb) THEN Receive(nb) ELSE Close
    BY <1>13 DEF Store
  <2>2. transferStatus = 2 /\ UNCHANGED blame
    BY <1>13 DEF Store
  <2>3. CASE GoesOn(nb)
    <3>1. /\ owed' = owed + nb
          /\ \/ moved' = moved + nb /\ lost' = lost
             \/ lost' = lost + nb /\ moved' = moved
          /\ UNCHANGED <<transferStatus, data, verdict>>
      BY <2>1, <2>3 DEF Receive
    <3>2. moved \in Nat /\ lost \in Nat /\ owed \in Nat
      BY DEF TypeOK, Types
    <3>3. moved' + lost' = moved + lost + nb
      BY <3>1, <3>2
    <3> QED BY <2>2, <3>1, <3>2, <3>3 DEF Sound, SuccessIsWhole, Retrieving, Storing
  <2>4. CASE ~GoesOn(nb)
    <3>1. blame = {} => Ended = "whole"
      BY <2>2, <2>4 DEF GoesOn, Sound, Storing, Ended, TypeOK, Types
    <3> QED BY <2>1, <2>2, <2>4, <3>1 DEF Close, Sound, SuccessIsWhole, Retrieving, Storing
  <2> QED BY <2>3, <2>4
<1>14. CASE Knock \/ HangUp \/ DialData \/ TimePasses
  BY <1>14, UntouchedSound DEF Knock, HangUp, DialData, TimePasses, fileVars, history
<1>15. CASE EndData
  BY <1>15 DEF EndData, fileVars, history, Sound, SuccessIsWhole, Retrieving, Storing
<1> QED
  BY <1>1, <1>2, <1>3, <1>4, <1>5, <1>6, <1>7, <1>8, <1>9, <1>10, <1>11, <1>12, <1>13, <1>14, <1>15
  DEF Next, HandleFTP, ReadLine, FileCommand, Peers

(* The inductive invariant holds in every reachable state.                 *)
THEOREM FtpInvariant == Spec => []IInv
<1>1. Init => IInv
  BY InitIInv
<1>2. IInv /\ [Next]_vars => IInv'
  <2>1. CASE IInv /\ Next
    <3>1. Types'
      BY <2>1, SessionTypes, CommandTypes, TransferTypes DEF IInv, Next, HandleFTP, ReadLine
    <3>2. Flags'
      BY <2>1, NextFlags DEF IInv, TypeOK
    <3> QED BY <2>1, <3>1, <3>2, NextTransferWithinSession, NextRenamesTheNamed, NextSound DEF IInv, TypeOK, Sound
  <2>2. CASE IInv /\ UNCHANGED vars
    BY <2>2 DEF IInv, TypeOK, Types, Flags, TransferWithinSession, DataOfTransfer, RenamesTheNamed, SuccessIsWhole, Retrieving,
      Storing, vars, peerVars, fileVars, history
  <2> QED BY <2>1, <2>2
<1> QED BY <1>1, <1>2, PTL DEF Spec

(* Every variable keeps its type, however many clients, commands and       *)
(* blocks there are.                                                       *)
THEOREM FtpTypeCorrect == Spec => []TypeOK
<1>1. IInv => TypeOK
  BY DEF IInv
<1> QED BY <1>1, FtpInvariant, PTL

(* No transfer goes on into the next session, whatever the clients do.     *)
THEOREM TransfersEndWithSessions == Spec => []TransferWithinSession
<1>1. IInv => TransferWithinSession
  BY DEF IInv
<1> QED BY <1>1, FtpInvariant, PTL

(* Of a transfer reported as a success no block is missing but those whose *)
(* own write failed, unless the card could not be read or a command took   *)
(* its file or its connection: for files and commands without bound.       *)
THEOREM SuccessesAreWhole == Spec => []SuccessIsWhole
<1>1. IInv => SuccessIsWhole
  BY DEF IInv
<1> QED BY <1>1, FtpInvariant, PTL

(* RNTO renames what this session named with RNFR, or what a block of a    *)
(* transfer has made of the name.                                          *)
THEOREM RenamesAreNamed == Spec => []RenamesTheNamed
<1>1. IInv => RenamesTheNamed
  BY DEF IInv
<1> QED BY <1>1, FtpInvariant, PTL

=============================================================================
