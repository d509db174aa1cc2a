--------------------------- MODULE TaskPumpProofs ---------------------------
(***************************************************************************)
(* Proofs about the task pump, for every set of producers, queue length,   *)
(* set of handlers and number of registrations.                            *)
(***************************************************************************)
EXTENDS TaskPump, SequenceTheorems, TLAPS

-----------------------------------------------------------------------------
(* The handler table and the event in hand.  A table that is not lost has  *)
(* an entry for every handle, and the memory for it comes in whole bricks; *)
(* a lost table is only ever lost at a brick boundary.                     *)

TableInv ==
  /\ Len(owner) = task_count
  /\ task_count <= attempts
  /\ task_func = <<>> => task_count % TASK_HANDLE_ALLOCATION_BRICK = 0
  /\ task_func # <<>> =>
       /\ Len(task_func) = task_count
       /\ task_count <= task_cap
       /\ task_cap % TASK_HANDLE_ALLOCATION_BRICK = 0

(* An entry is the handler registered there, or was lost with a full brick. *)
EntryInv ==
  \A i \in 1 .. Len(task_func) :
    \/ task_func[i] = owner[i]
    \/ task_func[i] = Garbage /\ task_count > TASK_HANDLE_ALLOCATION_BRICK

HandInv ==
  pc \in {"dispatch", "handler"} => ev.sig \in Handle /\ ev.par \in Param
                                    /\ ev.prio \in Prio

TypeInv == TypeOK /\ TableInv /\ HandInv

(* What a registration finds in the table: an entry for every handle. *)
LEMMA RetainedType ==
  ASSUME TypeOK, TableInv
  PROVE  /\ Retained \in Seq(TableEntry)
         /\ Len(Retained) = task_count
<1>1. CASE task_func = <<>>
  <2>1. task_count \in Nat /\ Garbage \in TableEntry
    BY DEF TypeOK, TableEntry
  <2>2. Retained = [i \in 1 .. task_count |-> Garbage]
    BY <1>1 DEF Retained
  <2>. QED
    BY <2>1, <2>2
<1>2. CASE task_func # <<>>
  BY <1>2 DEF Retained, TypeOK, TableInv
<1>. QED
  BY <1>1, <1>2

LEMMA TypeInvInit == Init => TypeInv
BY TaskPumpAssumption, EmptySeq
   DEF Init, TypeInv, TypeOK, TableInv, HandInv, NoEvent, Prio, Context,
       TASK_PRIORITY_COUNT, TASK_HANDLE_ALLOCATION_BRICK, TableEntry

LEMMA TypeInvNext == TypeInv /\ [Next]_vars => TypeInv'
<1>. SUFFICES ASSUME TypeInv, [Next]_vars PROVE TypeInv'
  OBVIOUS
<1>. USE TaskPumpAssumption DEF TypeInv
<1>1. CASE QueueCreateFails
  BY <1>1 DEF QueueCreateFails, MayRegister, pumpVars, TypeOK, TableInv, HandInv,
              Prio, TASK_PRIORITY_COUNT
<1>2. CASE ReallocFails
  BY <1>2, EmptySeq DEF ReallocFails, MayRegister, NeedsBrick, pumpVars, TypeOK, TableInv,
              HandInv, Prio, TASK_PRIORITY_COUNT
<1>3. ASSUME NEW t \in Callback, Registers(t) PROVE TypeInv'
  <2>0. Retained \in Seq(TableEntry) /\ Len(Retained) = task_count
        /\ t \in TableEntry /\ task_func' = Append(Retained, t)
    BY <1>3, RetainedType DEF Registers, TableEntry
  <2>1. task_func' \in Seq(TableEntry) /\ Len(task_func') = task_count + 1
        /\ task_func' # <<>>
    BY <2>0, AppendProperties
  <2>2. owner' \in Seq(Callback) /\ Len(owner') = task_count + 1
    BY <1>3 DEF Registers, TypeOK, TableInv
  <2>3. task_count' = task_count + 1 /\ attempts' = attempts + 1
        /\ attempts < MaxTasks
    BY <1>3 DEF Registers, MayRegister
  <2>4. task_count' <= task_cap' /\ task_cap' \in Nat
        /\ task_cap' % TASK_HANDLE_ALLOCATION_BRICK = 0
    <3>. USE DEF TASK_HANDLE_ALLOCATION_BRICK
    <3>1. task_count \in Nat /\ task_cap \in Nat
      BY DEF TypeOK
    <3>2. CASE NeedsBrick
      <4>1. task_count % 4 = 0 /\ task_cap' = task_count + 4
        BY <1>3, <3>2 DEF Registers, NeedsBrick
      <4>. QED
        BY <2>3, <3>1, <4>1
    <3>3. CASE ~NeedsBrick
      <4>1. task_count % 4 # 0 /\ task_cap' = task_cap
        BY <1>3, <3>3 DEF Registers, NeedsBrick
      <4>2. task_count <= task_cap /\ task_cap % 4 = 0
        BY <4>1 DEF TableInv
      <4>. QED
        BY <2>3, <3>1, <4>1, <4>2
    <3>. QED
      BY <3>2, <3>3
  <2>. QED
    BY <1>3, <2>1, <2>2, <2>3, <2>4
       DEF Registers, MayRegister, pumpVars, TypeOK, TableInv, HandInv
<1>4. ASSUME NEW c \in Context, NEW p \in Prio, NEW e \in Event, PostSend(c, p, e)
      PROVE  TypeInv'
  <2>1. task_Q' \in [Prio -> Seq(Event)] /\ \A q \in Prio : Len(task_Q'[q]) <= QueueLen
    BY <1>4 DEF PostSend, Queued, TypeOK
  <2>. QED
    BY <1>4, <2>1 DEF PostSend, tableVars, pumpVars, TypeOK, TableInv, HandInv
<1>5. ASSUME NEW c \in Context, PostGive(c) PROVE TypeInv'
  BY <1>5 DEF PostGive, tableVars, pumpVars, TypeOK, TableInv, HandInv
<1>6. CASE PumpStart
  BY <1>6 DEF PumpStart, tableVars, TypeOK, TableInv, HandInv, TASK_PRIORITY_COUNT
<1>7. CASE PollTake
  <2>1. Polled \in Prio /\ task_Q[Polled] \in Seq(Event) /\ task_Q[Polled] # <<>>
    BY <1>7 DEF PollTake, Polled, HasEvent, TypeOK, Prio, TASK_PRIORITY_COUNT
  <2>2. Head(task_Q[Polled]) \in Event /\ Tail(task_Q[Polled]) \in Seq(Event)
        /\ Len(Tail(task_Q[Polled])) <= QueueLen
    BY <2>1, HeadTailProperties DEF TypeOK
  <2>3. task_Q' \in [Prio -> Seq(Event)] /\ \A q \in Prio : Len(task_Q'[q]) <= QueueLen
    BY <1>7, <2>1, <2>2 DEF PollTake, TypeOK
  <2>4. ev'.sig \in Handle /\ ev'.par \in Param /\ ev'.prio \in Prio
        /\ ev' \in [sig : Handle \union {-1}, par : Param \union {-1},
                    prio : Prio \union {-1}]
    BY <1>7, <2>1, <2>2 DEF PollTake, Event
  <2>5. late' \in [Prio -> 0 .. 2]
    BY <1>7 DEF PollTake, TypeOK
  <2>. QED
    BY <1>7, <2>3, <2>4, <2>5 DEF PollTake, tableVars, TypeOK, TableInv, HandInv
<1>8. CASE PollSkip
  BY <1>8 DEF PollSkip, tableVars, TypeOK, TableInv, HandInv, TASK_PRIORITY_COUNT
<1>9. CASE DispatchCall
  <2>1. ev.sig + 1 \in 1 .. Len(task_func)
    BY <1>9 DEF DispatchCall, CanCall, TypeOK, TableInv, HandInv, Handle
  <2>2. called' \in TableEntry
    BY <1>9, <2>1, ElementOfSeq DEF DispatchCall, TypeOK
  <2>. QED
    BY <1>9, <2>2 DEF DispatchCall, tableVars, TypeOK, TableInv, HandInv
<1>10. CASE DispatchIgnore
  BY <1>10 DEF DispatchIgnore, NextScan, tableVars, TypeOK, TableInv, HandInv,
               TASK_PRIORITY_COUNT
<1>11. CASE HandlerReturns
  BY <1>11 DEF HandlerReturns, NextScan, tableVars, TypeOK, TableInv, HandInv,
               TASK_PRIORITY_COUNT
<1>12. CASE Take
  BY <1>12 DEF Take, NextScan, tableVars, TypeOK, TableInv, HandInv,
               TASK_PRIORITY_COUNT
<1>13. CASE UNCHANGED vars
  BY <1>13 DEF vars, TypeOK, TableInv, HandInv
<1>. QED
  BY <1>1, <1>2, <1>3, <1>4, <1>5, <1>6, <1>7, <1>8, <1>9, <1>10, <1>11, <1>12,
     <1>13 DEF Next, task_get_id, task_post, Pump

(* Type correctness of the pump, with queues that never exceed the length  *)
(* they were created with.                                                 *)
THEOREM TypeCorrect == Spec => []TypeOK
<1>1. TypeInv => TypeOK
  BY DEF TypeInv
<1>. QED
  BY TypeInvInit, TypeInvNext, <1>1, PTL DEF Spec

LEMMA TypeInvariance == Spec => []TypeInv
BY TypeInvInit, TypeInvNext, PTL DEF Spec

-----------------------------------------------------------------------------
(* Wake-ups.  Besides NoLostWakeup itself: the semaphore exists once the   *)
(* pump has started, and a queue that does not exist holds nothing.        *)

WakeupInv ==
  /\ NoLostWakeup
  /\ pc # "boot" => pending # "null"
  /\ \A p \in Prio \ created : task_Q[p] = <<>>

(* A queue that the scan has not passed before and passes now is empty; no *)
(* other step adds to Passed.                                              *)
LEMMA PassedGrowth ==
  ASSUME TypeInv, [Next]_vars
  PROVE  \A p \in Passed' : p \in Passed \/ (PollSkip /\ p = Polled)
<1>. USE DEF Passed
<1>1. CASE task_get_id
  BY <1>1 DEF task_get_id, QueueCreateFails, ReallocFails, Registers,
              MayRegister, pumpVars
<1>2. ASSUME NEW c \in Context, task_post(c)
      PROVE  Passed' = Passed
  BY <1>2 DEF task_post, PostSend, PostGive, pumpVars
<1>3. CASE PumpStart
  BY <1>3 DEF PumpStart, TASK_PRIORITY_COUNT
<1>4. CASE PollTake
  BY <1>4 DEF PollTake
<1>5. CASE PollSkip
  <2>1. pc = "poll" /\ scan \in 1 .. TASK_PRIORITY_COUNT /\ scan' = scan - 1
    BY <1>5 DEF PollSkip, TypeInv, TypeOK, TASK_PRIORITY_COUNT
  <2>2. CASE scan' = 0
    <3>1. Passed' = Prio /\ Passed = 1 .. TASK_PRIORITY_COUNT - 1 /\ Polled = 0
      BY <1>5, <2>1, <2>2 DEF PollSkip, Polled
    <3>. QED
      BY <1>5, <3>1 DEF Prio, TASK_PRIORITY_COUNT
  <2>3. CASE scan' # 0
    <3>1. /\ Passed' = scan - 1 .. TASK_PRIORITY_COUNT - 1
          /\ Passed = scan .. TASK_PRIORITY_COUNT - 1
          /\ Polled = scan - 1
      BY <1>5, <2>1, <2>3 DEF PollSkip, Polled
    <3>. QED
      BY <1>5, <2>1, <3>1 DEF TASK_PRIORITY_COUNT
  <2>. QED
    BY <2>2, <2>3
<1>6. CASE DispatchCall
  BY <1>6 DEF DispatchCall
<1>7. CASE DispatchIgnore \/ HandlerReturns \/ Take
  BY <1>7 DEF DispatchIgnore, HandlerReturns, Take, NextScan, TASK_PRIORITY_COUNT
<1>8. CASE UNCHANGED vars
  BY <1>8 DEF vars
<1>. QED
  BY <1>1, <1>2, <1>3, <1>4, <1>5, <1>6, <1>7, <1>8 DEF Next, Pump

LEMMA PassedType ==
  ASSUME TypeInv
  PROVE  /\ Passed \subseteq Prio
         /\ Passed # {} => pc # "boot"
BY DEF Passed, TypeInv, TypeOK, Prio, TASK_PRIORITY_COUNT

LEMMA WakeupInit == Init => WakeupInv
BY DEF Init, WakeupInv, NoLostWakeup, Passed

LEMMA WakeupNext == TypeInv /\ WakeupInv /\ [Next]_vars => WakeupInv'
<1>. SUFFICES ASSUME TypeInv, WakeupInv, [Next]_vars PROVE WakeupInv'
  OBVIOUS
<1>. USE PassedGrowth, PassedType DEF WakeupInv, NoLostWakeup
<1>1. CASE task_get_id
  BY <1>1 DEF task_get_id, QueueCreateFails, ReallocFails, Registers, MayRegister,
              pumpVars, Passed, Prio
<1>2. ASSUME NEW c \in Context, NEW p \in Prio, NEW e \in Event, PostSend(c, p, e)
      PROVE  WakeupInv'
  <2>1. post'[c] = "sent"
    BY <1>2 DEF PostSend, TypeInv, TypeOK
  <2>2. \A q \in Prio \ created' : task_Q'[q] = <<>>
    BY <1>2 DEF PostSend, tableVars, TypeInv, TypeOK
  <2>. QED
    BY <1>2, <2>1, <2>2 DEF PostSend, tableVars, pumpVars
<1>3. ASSUME NEW c \in Context, PostGive(c) PROVE WakeupInv'
  <2>1. pc # "boot" => pending' = "full"
    BY <1>3 DEF PostGive
  <2>2. Passed' = Passed /\ pc' = pc
    BY <1>3 DEF PostGive, pumpVars, Passed
  <2>. QED
    BY <1>3, <2>1, <2>2 DEF PostGive, tableVars, pumpVars
<1>4. CASE PumpStart
  <2>1. Passed' = {} /\ pending' = "full"
    BY <1>4 DEF PumpStart, Passed, TASK_PRIORITY_COUNT
  <2>. QED
    BY <1>4, <2>1 DEF PumpStart, tableVars
<1>5. CASE PollTake
  <2>1. Passed' = {}
    BY <1>5 DEF PollTake, Passed
  <2>2. \A q \in Prio \ created' : task_Q'[q] = <<>>
    BY <1>5 DEF PollTake, HasEvent, tableVars, TypeInv, TypeOK
  <2>. QED
    BY <1>5, <2>1, <2>2 DEF PollTake
<1>6. CASE PollSkip
  <2>1. Polled \in Prio
    BY <1>6 DEF PollSkip, Polled, Prio, TypeInv, TypeOK, TASK_PRIORITY_COUNT
  <2>2. task_Q[Polled] = <<>>
    BY <1>6, <2>1 DEF PollSkip, HasEvent
  <2>. QED
    BY <1>6, <2>2 DEF PollSkip, tableVars
<1>7. CASE DispatchCall
  BY <1>7 DEF DispatchCall, tableVars, Passed
<1>8. CASE DispatchIgnore \/ HandlerReturns \/ Take
  <2>1. Passed' = {}
    BY <1>8 DEF DispatchIgnore, HandlerReturns, Take, NextScan, Passed,
                TASK_PRIORITY_COUNT
  <2>. QED
    BY <1>8, <2>1 DEF DispatchIgnore, HandlerReturns, Take, NextScan, tableVars
<1>9. CASE UNCHANGED vars
  BY <1>9 DEF vars, Passed
<1>. QED
  BY <1>1, <1>2, <1>3, <1>4, <1>5, <1>6, <1>7, <1>8, <1>9
     DEF Next, task_post, Pump

(* No wake-up is lost, whatever posts, at any priority, at any moment.     *)
THEOREM WakeupsArrive == Spec => []NoLostWakeup
<1>1. WakeupInv => NoLostWakeup
  BY DEF WakeupInv
<1>. QED
  BY TypeInvariance, WakeupInit, WakeupNext, <1>1, PTL DEF Spec

-----------------------------------------------------------------------------
(* Priority inversion.  A queue that has been overtaken still holds the    *)
(* event that was overtaken, so the next scan cannot pass it.              *)

LateInv ==
  \A p \in Prio :
    /\ late[p] <= 1
    /\ late[p] # 0 => task_Q[p] # <<>>
    /\ p \in Passed => late[p] = 0

LEMMA LateInit == Init => LateInv
BY DEF Init, LateInv, Passed

LEMMA LateNext == TypeInv /\ WakeupInv /\ LateInv /\ [Next]_vars => LateInv'
<1>. SUFFICES ASSUME TypeInv, WakeupInv, LateInv, [Next]_vars,
                     NEW p \in Prio
              PROVE  /\ late'[p] <= 1
                     /\ late'[p] # 0 => task_Q'[p] # <<>>
                     /\ p \in Passed' => late'[p] = 0
  BY DEF LateInv
<1>0. /\ late[p] \in 0 .. 2 /\ late[p] <= 1
      /\ late[p] # 0 => task_Q[p] # <<>>
      /\ p \in Passed => late[p] = 0
      /\ task_Q[p] \in Seq(Event)
  BY DEF LateInv, TypeInv, TypeOK
<1>1. CASE PollTake
  <2>1. Passed' = {}
    BY <1>1 DEF PollTake, Passed
  <2>2. late'[p] = IF p = Polled THEN 0
                   ELSE IF p > Polled /\ task_Q[p] # <<>> /\ late[p] < 2
                        THEN late[p] + 1
                        ELSE late[p]
    BY <1>1, Zenon DEF PollTake
  <2>3. p > Polled => late[p] = 0
    <3>1. scan \in 1 .. TASK_PRIORITY_COUNT /\ Passed = scan .. TASK_PRIORITY_COUNT - 1
      BY <1>1 DEF PollTake, Passed, TypeInv, TypeOK, TASK_PRIORITY_COUNT
    <3>. QED
      BY <1>0, <3>1 DEF Polled, Prio, TASK_PRIORITY_COUNT
  <2>4. p # Polled => task_Q'[p] = task_Q[p]
    BY <1>1 DEF PollTake, TypeInv, TypeOK
  <2>. QED
    BY <1>0, <2>1, <2>2, <2>3, <2>4
<1>2. CASE PollSkip
  <2>1. p = Polled => task_Q[p] = <<>>
    BY <1>2 DEF PollSkip, HasEvent, WakeupInv
  <2>. QED
    BY <1>0, <1>2, <2>1, PassedGrowth DEF PollSkip
<1>3. ASSUME NEW c \in Context, NEW q \in Prio, NEW e \in Event, PostSend(c, q, e)
      PROVE  /\ late'[p] <= 1
             /\ late'[p] # 0 => task_Q'[p] # <<>>
             /\ p \in Passed' => late'[p] = 0
  <2>1. Passed' = Passed /\ late' = late
    BY <1>3 DEF PostSend, pumpVars, Passed
  <2>2. task_Q[p] # <<>> => task_Q'[p] # <<>>
    <3>1. task_Q'[p] = IF p = q THEN Queued(task_Q[p], e) ELSE task_Q[p]
      BY <1>3 DEF PostSend, TypeInv, TypeOK
    <3>2. Append(task_Q[p], e) # <<>>
      BY <1>0, AppendProperties
    <3>. QED
      BY <3>1, <3>2 DEF Queued
  <2>. QED
    BY <1>0, <2>1, <2>2
<1>4. ASSUME ~PollTake, ~PollSkip, UNCHANGED <<task_Q, late>>
      PROVE  /\ late'[p] <= 1
             /\ late'[p] # 0 => task_Q'[p] # <<>>
             /\ p \in Passed' => late'[p] = 0
  BY <1>0, <1>4, PassedGrowth
<1>5. CASE UNCHANGED vars
  BY <1>0, <1>5 DEF vars, Passed
<1>. QED
  BY <1>1, <1>2, <1>3, <1>4, <1>5
     DEF Next, task_get_id, QueueCreateFails, ReallocFails, Registers, MayRegister,
         task_post, PostGive, Pump, PumpStart, DispatchCall, DispatchIgnore,
         HandlerReturns, Take, pumpVars

(* A waiting event is overtaken by at most one of lower priority.          *)
THEOREM InversionBounded == Spec => []OvertakenAtMostOnce
<1>1. LateInv => OvertakenAtMostOnce
  BY DEF LateInv, OvertakenAtMostOnce
<1>. QED
  BY TypeInvariance, WakeupInit, WakeupNext, LateInit, LateNext, <1>1, PTL DEF Spec

-----------------------------------------------------------------------------
(* Calls.  Every entry of the table is the one the handle was given for,   *)
(* or unwritten memory left by the loss of a full brick.                   *)

CallInv == EntryInv /\ CallsRegistered

LEMMA CallInit == Init => CallInv
BY DEF Init, CallInv, EntryInv, CallsRegistered

(* The entries that a registration retains. *)
LEMMA RetainedEntries ==
  ASSUME TypeInv, EntryInv, NEW i \in 1 .. task_count
  PROVE  \/ Retained[i] = owner[i]
         \/ /\ Retained[i] = Garbage
            /\ task_count + 1 > TASK_HANDLE_ALLOCATION_BRICK
<1>. USE DEF TypeInv
<1>0. task_count \in Nat
  BY DEF TypeOK
<1>1. CASE task_func = <<>>
  <2>1. Retained[i] = Garbage
    BY <1>1 DEF Retained
  <2>2. task_count % 4 = 0 /\ task_count >= 1
    BY <1>0, <1>1 DEF TableInv, TASK_HANDLE_ALLOCATION_BRICK
  <2>. QED
    BY <1>0, <2>1, <2>2 DEF TASK_HANDLE_ALLOCATION_BRICK
<1>2. CASE task_func # <<>>
  <2>1. Retained[i] = task_func[i] /\ i \in 1 .. Len(task_func)
    BY <1>2 DEF Retained, TableInv
  <2>. QED
    BY <1>0, <2>1 DEF EntryInv, TASK_HANDLE_ALLOCATION_BRICK
<1>. QED
  BY <1>1, <1>2

LEMMA CallNext == TypeInv /\ CallInv /\ [Next]_vars => CallInv'
<1>. SUFFICES ASSUME TypeInv, CallInv, [Next]_vars PROVE CallInv'
  OBVIOUS
<1>. USE DEF CallInv
<1>1. CASE QueueCreateFails
  BY <1>1 DEF QueueCreateFails, MayRegister, pumpVars, EntryInv, CallsRegistered
<1>2. CASE ReallocFails
  BY <1>2 DEF ReallocFails, MayRegister, pumpVars, EntryInv, CallsRegistered
<1>3. ASSUME NEW t \in Callback, Registers(t) PROVE CallInv'
  <2>1. /\ Retained \in Seq(TableEntry) /\ Len(Retained) = task_count
        /\ owner \in Seq(Callback) /\ Len(owner) = task_count
        /\ t \in TableEntry /\ task_count \in Nat
    BY RetainedType DEF TypeInv, TypeOK, TableInv, TableEntry
  <2>2. /\ task_func' = Append(Retained, t) /\ owner' = Append(owner, t)
        /\ task_count' = task_count + 1
        /\ pc' # "handler"
    BY <1>3 DEF Registers, MayRegister, pumpVars
  <2>3. ASSUME NEW i \in 1 .. Len(task_func')
        PROVE  \/ task_func'[i] = owner'[i]
               \/ /\ task_func'[i] = Garbage
                  /\ task_count' > TASK_HANDLE_ALLOCATION_BRICK
    <3>1. Len(task_func') = task_count + 1
      BY <2>1, <2>2, AppendProperties
    <3>2. CASE i = task_count + 1
      BY <2>1, <2>2, <3>2, AppendProperties
    <3>3. CASE i \in 1 .. task_count
      <4>1. task_func'[i] = Retained[i] /\ owner'[i] = owner[i]
        BY <2>1, <2>2, <3>3, AppendProperties
      <4>. QED
        BY <2>2, <3>3, <4>1, RetainedEntries
    <3>. QED
      BY <2>1, <3>1, <3>2, <3>3
  <2>. QED
    BY <2>2, <2>3 DEF EntryInv, CallsRegistered
<1>4. CASE DispatchCall
  <2>1. ev.sig + 1 \in 1 .. Len(task_func)
    BY <1>4 DEF DispatchCall, CanCall, TypeInv, TypeOK, TableInv, HandInv, Handle
  <2>. QED
    BY <1>4, <2>1 DEF DispatchCall, tableVars, EntryInv, CallsRegistered
<1>5. ASSUME UNCHANGED <<task_func, owner, task_count, called>>,
             pc' = "handler" => pc = "handler" /\ ev' = ev
      PROVE  CallInv'
  BY <1>5 DEF EntryInv, CallsRegistered
<1>6. CASE UNCHANGED vars
  BY <1>5, <1>6 DEF vars
<1>. QED
  BY <1>1, <1>2, <1>3, <1>4, <1>5, <1>6
     DEF Next, task_get_id, task_post, PostSend, PostGive, Pump, PumpStart, PollTake,
         PollSkip, DispatchIgnore, HandlerReturns, Take, NextScan, tableVars, pumpVars

(* dispatch calls the handler that the event's handle was given out for;   *)
(* only a table lost after a full brick of registrations can call anything *)
(* else, and then it is unwritten memory, never another handler.           *)
THEOREM CallsAreRegistered == Spec => []CallsRegistered
<1>1. CallInv => CallsRegistered
  BY DEF CallInv
<1>. QED
  BY TypeInvariance, CallInit, CallNext, <1>1, PTL DEF Spec

(* task_get_id writes inside the memory that realloc returned.             *)
THEOREM TableStaysInBounds == Spec => []TableInBounds
<1>1. TypeInv => TableInBounds
  BY EmptySeq DEF TypeInv, TypeOK, TableInv, TableInBounds
<1>. QED
  BY TypeInvariance, <1>1, PTL

-----------------------------------------------------------------------------
(* Refinement of the mailbox: the initial state and every step.  (That the *)
(* pump also meets the mailbox's fairness is left to TLC.)                 *)

LEMMA BoxInit == Init => Box!Init
BY DEF Init, Box!Init, InHand

LEMMA BoxStep == TypeInv /\ [Next]_vars => [Box!Next]_(Box!mailboxVars)
<1>. SUFFICES ASSUME TypeInv, [Next]_vars
              PROVE  Box!Next \/ (task_Q' = task_Q /\ InHand' = InHand)
  BY DEF Box!mailboxVars
<1>0. pc \in {"dispatch", "handler"} => InHand # NoEvent
  BY DEF TypeInv, HandInv, InHand, NoEvent, Prio
<1>1. ASSUME NEW c \in Context, NEW p \in Prio, NEW e \in Event, PostSend(c, p, e)
      PROVE  Box!Next \/ (task_Q' = task_Q /\ InHand' = InHand)
  <2>1. InHand' = InHand
    BY <1>1 DEF PostSend, pumpVars, InHand
  <2>2. CASE Len(task_Q[p]) < QueueLen
    BY <1>1, <2>1, <2>2 DEF PostSend, Queued, Box!Next, Box!Accept, Box!Put, Box!HasRoom
  <2>3. CASE ~(Len(task_Q[p]) < QueueLen)
    BY <1>1, <2>1, <2>3 DEF PostSend, Queued, TypeInv, TypeOK
  <2>. QED
    BY <2>2, <2>3
<1>2. CASE PollTake
  <2>1. Polled \in Prio /\ task_Q[Polled] \in Seq(Event) /\ task_Q[Polled] # <<>>
    BY <1>2 DEF PollTake, Polled, HasEvent, TypeInv, TypeOK, Prio, TASK_PRIORITY_COUNT
  <2>2. Head(task_Q[Polled]) \in Event
    BY <2>1, HeadTailProperties
  <2>3. InHand = NoEvent
    BY <1>2 DEF PollTake, InHand
  <2>4. InHand' = [msg |-> Head(task_Q[Polled]), prio |-> Polled]
    BY <1>2, <2>2 DEF PollTake, InHand, Event
  <2>5. Box!Deliver(Polled)
    BY <1>2, <2>1, <2>3, <2>4 DEF PollTake, Box!Deliver
  <2>. QED
    BY <2>1, <2>5 DEF Box!Next
<1>3. CASE DispatchIgnore \/ HandlerReturns
  <2>1. InHand' = NoEvent /\ task_Q' = task_Q
    BY <1>3 DEF DispatchIgnore, HandlerReturns, NextScan, InHand
  <2>2. InHand # NoEvent
    BY <1>0, <1>3 DEF DispatchIgnore, HandlerReturns
  <2>. QED
    BY <2>1, <2>2 DEF Box!Next, Box!Finish
<1>4. CASE DispatchCall
  BY <1>4 DEF DispatchCall, InHand
<1>5. ASSUME UNCHANGED <<task_Q, ev>>, pc \notin {"dispatch", "handler"},
             pc' \notin {"dispatch", "handler"}
      PROVE  task_Q' = task_Q /\ InHand' = InHand
  BY <1>5 DEF InHand
<1>6. CASE task_get_id
  BY <1>5, <1>6 DEF task_get_id, QueueCreateFails, ReallocFails, Registers, MayRegister,
                    pumpVars
<1>7. ASSUME NEW c \in Context, PostGive(c)
      PROVE  task_Q' = task_Q /\ InHand' = InHand
  BY <1>7 DEF PostGive, pumpVars, InHand
<1>8. CASE PumpStart \/ PollSkip \/ Take
  BY <1>5, <1>8 DEF PumpStart, PollSkip, Take, NextScan
<1>9. CASE UNCHANGED vars
  BY <1>9 DEF vars, InHand
<1>. QED
  BY <1>1, <1>2, <1>3, <1>4, <1>6, <1>7, <1>8, <1>9 DEF Next, task_post, Pump

(* The pump implements the safety part of the mailbox: an accepted event   *)
(* is not lost, reordered within its priority or handled twice, and one is *)
(* in hand at a time.                                                      *)
THEOREM PumpImplementsMailbox ==
  Spec => Box!Init /\ [][Box!Next]_(Box!mailboxVars)
BY TypeInvariance, BoxInit, BoxStep, PTL DEF Spec

=============================================================================
