------------------------------ MODULE TaskPump ------------------------------
(***************************************************************************)
(* The task pump of the LuaNode32 firmware, components/task/task.c: three  *)
(* FreeRTOS queues, one per priority, into which any task or interrupt may *)
(* post, and one task that takes events from them, highest priority first, *)
(* and calls the handler registered under the event's handle.  A binary    *)
(* semaphore wakes the pump; it is raised after the event is queued, in a  *)
(* step of its own, and it does not exist before the pump has started.     *)
(*                                                                         *)
(* A step here is one FreeRTOS call (each is a critical section) together  *)
(* with the local computation around it.                                   *)
(***************************************************************************)
EXTENDS Integers, Sequences

CONSTANTS
  Producers,   (* tasks and interrupts, other than the main task, that post *)
  Main,        (* the main task: registers handlers, then runs the pump     *)
  QueueLen,    (* TASK_DEFAULT_QUEUE_LEN, 8 in the firmware                 *)
  Callback,    (* the handler functions                                     *)
  Garbage,     (* the contents of memory nobody has written                 *)
  Param,       (* event parameters                                          *)
  MaxTasks     (* bound: registrations that the main task attempts          *)

ASSUME TaskPumpAssumption ==
  /\ Main \notin Producers
  /\ QueueLen \in Nat \ {0}
  /\ Garbage \notin Callback
  /\ MaxTasks \in Nat

TASK_PRIORITY_COUNT == 3
TASK_HANDLE_ALLOCATION_BRICK == 4

Prio == 0 .. TASK_PRIORITY_COUNT - 1
Context == Producers \union {Main}

(* A handle is the index of its handler; the fingerprint in its upper bits *)
(* tells it from the 0 that a failed registration returns.                 *)
Handle == 0 .. MaxTasks - 1
Event == [sig : Handle, par : Param]

VARIABLES
  created,     (* the priorities whose queue exists                          *)
  task_Q,      (* the queues                                                 *)
  pending,     (* the semaphore: "null" before the pump, "empty" or "full"   *)
  task_func,   (* the handler table, entry h at position h + 1; <<>> is NULL *)
  task_cap,    (* the entries the table has memory for                       *)
  task_count,  (* the handles given out                                      *)
  attempts,    (* bound: registrations tried                                 *)
  post,        (* post[c]: where context c is inside task_post               *)
  pc,          (* where the main task is                                     *)
  scan,        (* the loop variable pr of next_event                         *)
  ev,          (* the event in hand, [event, prio], meaningful at pc         *)
               (* "dispatch" and "handler"                                   *)
  called,      (* the function dispatch has called                           *)
  owner,       (* history: the handler that each handle was given out for    *)
  late         (* history: late[p], events of lower priority taken while     *)
               (* queue p had one waiting, since p was last served; stops at 2 *)

tableVars == <<created, task_func, task_cap, task_count, attempts, owner>>
pumpVars == <<pc, scan, ev, called, late>>
vars == <<created, task_Q, pending, task_func, task_cap, task_count, attempts,
          post, pc, scan, ev, called, owner, late>>

NoEvent == [sig |-> -1, par |-> -1, prio |-> -1]

Init ==
  /\ created = {}
  /\ task_Q = [p \in Prio |-> <<>>]
  /\ pending = "null"
  /\ task_func = <<>>
  /\ task_cap = 0
  /\ task_count = 0
  /\ attempts = 0
  /\ post = [c \in Context |-> "idle"]
  /\ pc = "boot"
  /\ scan = TASK_PRIORITY_COUNT
  /\ ev = NoEvent
  /\ called = Garbage
  /\ owner = <<>>
  /\ late = [p \in Prio |-> 0]

-----------------------------------------------------------------------------
(* Registration: task_get_id, called by the main task while it boots.      *)

MayRegister ==
  /\ pc = "boot"
  /\ post[Main] = "idle"
  /\ attempts < MaxTasks
  /\ attempts' = attempts + 1
  /\ UNCHANGED <<task_Q, pending, post, pumpVars>>

(* task_init_handler runs out of memory for some queue; the queues of the  *)
(* lower priorities have been created and stay.                            *)
QueueCreateFails ==
  /\ MayRegister
  /\ \E p \in Prio \ created : created' = created \union 0 .. p - 1
  /\ UNCHANGED <<task_func, task_cap, task_count, owner>>

(* Mutant: the table is reallocated every time. *)
NeedsBrickAlways == TRUE

(* The table grows when the count is 0, 4, 8, ... *)
NeedsBrick == task_count % TASK_HANDLE_ALLOCATION_BRICK = 0

(* realloc fails: its NULL overwrites the only pointer to the old table.   *)
ReallocFails ==
  /\ MayRegister
  /\ NeedsBrick
  /\ created' = Prio
  /\ task_func' = <<>>
  /\ task_cap' = 0
  /\ UNCHANGED <<task_count, owner>>

(* What the table holds below task_count after a realloc of it: the old    *)
(* entries, or, when the old table was lost, unwritten memory.             *)
Retained ==
  IF task_func = <<>> THEN [i \in 1 .. task_count |-> Garbage] ELSE task_func

Registers(t) ==
  /\ MayRegister
  /\ created' = Prio
  /\ task_cap' = IF NeedsBrick THEN task_count + TASK_HANDLE_ALLOCATION_BRICK
                               ELSE task_cap
  /\ task_func' = Append(Retained, t)
  /\ task_count' = task_count + 1
  /\ owner' = Append(owner, t)

task_get_id ==
  \/ QueueCreateFails
  \/ ReallocFails
  \/ \E t \in Callback : Registers(t)

-----------------------------------------------------------------------------
(* Posting: any context, and the main task while it boots or is inside a   *)
(* handler.                                                                *)

MayRun(c) == c = Main => pc \in {"boot", "handler"}

(* Mutant: a full queue makes room by dropping its oldest event.           *)
QueuedOverwriting(q, e) ==
  IF Len(q) < QueueLen THEN Append(q, e) ELSE Append(Tail(q), e)

Queued(q, e) == IF Len(q) < QueueLen THEN Append(q, e) ELSE q

(* The queue takes the event if it has room. *)
PostSend(c, p, e) ==
  /\ MayRun(c)
  /\ post[c] = "idle"
  /\ p \in created
  /\ e.sig < task_count
  /\ task_Q' = [task_Q EXCEPT ![p] = Queued(@, e)]
  /\ post' = [post EXCEPT ![c] = "sent"]
  /\ UNCHANGED <<pending, tableVars, pumpVars>>

(* Mutant: the poster raises the semaphore only for a pump that sleeps. *)
PostGiveIfAsleep(c) ==
  /\ post[c] = "sent"
  /\ pending' = IF pc = "take" THEN "full" ELSE pending
  /\ post' = [post EXCEPT ![c] = "idle"]
  /\ UNCHANGED <<task_Q, tableVars, pumpVars>>

(* The semaphore is raised whether or not the event was queued, unless the *)
(* pump has not created it yet.                                            *)
PostGive(c) ==
  /\ post[c] = "sent"
  /\ pending' = IF pending = "null" THEN "null" ELSE "full"
  /\ post' = [post EXCEPT ![c] = "idle"]
  /\ UNCHANGED <<task_Q, tableVars, pumpVars>>

task_post(c) ==
  \/ \E p \in Prio, e \in Event : PostSend(c, p, e)
  \/ PostGive(c)

-----------------------------------------------------------------------------
(* The pump: task_pump_messages.                                           *)

(* vSemaphoreCreateBinary leaves the new semaphore raised. *)
PumpStart ==
  /\ pc = "boot"
  /\ post[Main] = "idle"
  /\ pending' = "full"
  /\ pc' = "poll"
  /\ scan' = TASK_PRIORITY_COUNT
  /\ UNCHANGED <<task_Q, post, tableVars, ev, called, late>>

(* Mutant: the loop runs from the lowest priority up. *)
PolledUpwards == TASK_PRIORITY_COUNT - scan

(* One turn of the loop of next_event: receive from queue scan - 1. *)
Polled == scan - 1

HasEvent(p) == p \in created /\ task_Q[p] # <<>>

PollTake ==
  /\ pc = "poll"
  /\ scan > 0
  /\ HasEvent(Polled)
  /\ ev' = [sig |-> Head(task_Q[Polled]).sig, par |-> Head(task_Q[Polled]).par,
            prio |-> Polled]
  /\ task_Q' = [task_Q EXCEPT ![Polled] = Tail(@)]
  /\ pc' = "dispatch"
  /\ late' = [p \in Prio |->
                IF p = Polled THEN 0
                ELSE IF p > Polled /\ task_Q[p] # <<>> /\ late[p] < 2
                     THEN late[p] + 1
                     ELSE late[p]]
  /\ UNCHANGED <<pending, post, tableVars, scan, called>>

PollSkip ==
  /\ pc = "poll"
  /\ scan > 0
  /\ ~HasEvent(Polled)
  /\ scan' = scan - 1
  /\ pc' = IF scan' = 0 THEN "take" ELSE "poll"
  /\ UNCHANGED <<task_Q, pending, post, tableVars, ev, called, late>>

(* Mutant: the scan goes on where it stopped. *)
NextScanResumes ==
  /\ pc' = "poll"
  /\ scan' = IF scan = 0 THEN TASK_PRIORITY_COUNT ELSE scan

(* The pump goes back to next_event, which starts at the top. *)
NextScan ==
  /\ pc' = "poll"
  /\ scan' = TASK_PRIORITY_COUNT

(* A handle whose entry is in the table is called; others are ignored. *)
CanCall(h) == task_func # <<>> /\ h < task_count

DispatchCall ==
  /\ pc = "dispatch"
  /\ CanCall(ev.sig)
  /\ called' = task_func[ev.sig + 1]
  /\ pc' = "handler"
  /\ UNCHANGED <<task_Q, pending, post, tableVars, scan, ev, late>>

DispatchIgnore ==
  /\ pc = "dispatch"
  /\ ~CanCall(ev.sig)
  /\ NextScan
  /\ UNCHANGED <<task_Q, pending, post, tableVars, ev, called, late>>

HandlerReturns ==
  /\ pc = "handler"
  /\ post[Main] = "idle"
  /\ NextScan
  /\ UNCHANGED <<task_Q, pending, post, tableVars, ev, called, late>>

(* Nothing was queued: wait for the semaphore. *)
Take ==
  /\ pc = "take"
  /\ pending = "full"
  /\ pending' = "empty"
  /\ NextScan
  /\ UNCHANGED <<task_Q, post, tableVars, ev, called, late>>

Pump ==
  \/ PumpStart
  \/ PollTake
  \/ PollSkip
  \/ DispatchCall
  \/ DispatchIgnore
  \/ HandlerReturns
  \/ Take

-----------------------------------------------------------------------------

Next ==
  \/ task_get_id
  \/ \E c \in Context : task_post(c)
  \/ Pump

(* FreeRTOS runs a ready task: the main task keeps going, and a context    *)
(* that has queued an event goes on to raise the semaphore.  app_main      *)
(* reaches the pump and every handler returns, after however many posts of *)
(* its own.  Nobody is obliged to post.                                    *)
Fairness ==
  /\ WF_vars(Pump)
  /\ SF_vars(PumpStart)
  /\ SF_vars(HandlerReturns)
  /\ \A c \in Context : WF_vars(PostGive(c))

Spec == Init /\ [][Next]_vars /\ Fairness

(***************************************************************************)
(* Properties                                                              *)
(***************************************************************************)

TableEntry == Callback \union {Garbage}

(* The variables have their types; a queue never exceeds its length. *)
TypeOK ==
  /\ created \in SUBSET Prio
  /\ task_Q \in [Prio -> Seq(Event)]
  /\ \A p \in Prio : Len(task_Q[p]) <= QueueLen
  /\ pending \in {"null", "empty", "full"}
  /\ task_func \in Seq(TableEntry)
  /\ task_cap \in Nat
  /\ task_count \in Nat
  /\ attempts \in 0 .. MaxTasks
  /\ post \in [Context -> {"idle", "sent"}]
  /\ pc \in {"boot", "poll", "dispatch", "handler", "take"}
  /\ scan \in 0 .. TASK_PRIORITY_COUNT
  /\ ev \in [sig : Handle \union {-1}, par : Param \union {-1},
             prio : Prio \union {-1}]
  /\ called \in TableEntry
  /\ owner \in Seq(Callback)
  /\ late \in [Prio -> 0 .. 2]

(* The queues that the current scan has found empty. *)
Passed ==
  CASE pc = "poll" -> scan .. TASK_PRIORITY_COUNT - 1
    [] pc = "take" -> Prio
    [] OTHER -> {}

(* No wake-up is lost: when the pump waits for the semaphore, or is on its *)
(* way to it past a queue that has received an event since it was polled,  *)
(* the semaphore is raised or a context that has queued an event is about  *)
(* to raise it.  (task_post queues and raises in two steps, next_event     *)
(* polls three queues in three.)                                           *)
NoLostWakeup ==
  \A p \in Passed :
    task_Q[p] # <<>> => pending = "full" \/ \E c \in Context : post[c] = "sent"

(* Priority inversion is bounded: while an event waits at priority p, at   *)
(* most one event of lower priority is taken before queue p is served.     *)
OvertakenAtMostOnce == \A p \in Prio : late[p] <= 1

(* dispatch calls the function for which the event's handle was given out, *)
(* and never another one, although the table moves when it grows.  The one *)
(* exception needs a fifth registration: a realloc that fails loses the    *)
(* table, and the next that succeeds leaves its old entries unwritten.     *)
CallsRegistered ==
  pc = "handler" =>
    \/ called = owner[ev.sig + 1]
    \/ called = Garbage /\ task_count > TASK_HANDLE_ALLOCATION_BRICK

(* task_get_id never writes past the memory of the table. *)
TableInBounds == Len(task_func) <= task_cap

(* A high priority event is not starved, whatever is posted below it. *)
HighServed ==
  task_Q[TASK_PRIORITY_COUNT - 1] # <<>>
    ~> (pc = "dispatch" /\ ev.prio = TASK_PRIORITY_COUNT - 1)

(* The pump implements the mailbox: accepted events are neither lost nor   *)
(* reordered within a priority nor handled twice, and while one waits the  *)
(* pump goes on to take one.                                               *)
InHand ==
  IF pc \in {"dispatch", "handler"}
  THEN [msg |-> [sig |-> ev.sig, par |-> ev.par], prio |-> ev.prio]
  ELSE NoEvent

Box == INSTANCE Mailbox WITH
         Capacity <- QueueLen, Msg <- Event, None <- NoEvent,
         box <- task_Q, hand <- InHand

ImplementsMailbox == Box!Spec

=============================================================================
