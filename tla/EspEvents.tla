----------------------------- MODULE EspEvents -----------------------------
(***************************************************************************)
(* System events of the LuaNode32 firmware, main/app_main.c.  Wi-Fi and    *)
(* TCP/IP tasks hand events to esp_event_send, which puts them on a queue  *)
(* of their own and then posts a message to the task pump; the pump calls  *)
(* handle_esp_event, which empties the queue.  The pump is the Mailbox     *)
(* that TaskPump implements; its medium box is shared with the network     *)
(* events of net.c.                                                        *)
(***************************************************************************)
EXTENDS Mailbox

CONSTANTS
  Sender,      (* the tasks that call esp_event_send             *)
  SysEvent,    (* the events                                     *)
  EspLen,      (* CONFIG_SYSTEM_EVENT_QUEUE_SIZE                 *)
  EspPrio,     (* TASK_PRIORITY_MEDIUM                           *)
  MaxSends,    (* bound: calls of esp_event_send                 *)
  MaxOthers    (* bound: messages that net.c posts               *)

ASSUME EspEventsAssumption ==
  /\ EspLen \in Nat \ {0}
  /\ EspPrio \in Prio
  /\ MaxSends \in Nat /\ MaxOthers \in Nat
  /\ {"esp", "net"} \subseteq Msg

VARIABLES
  boot,             (* how far app_main has come                          *)
  flashOk,          (* the flash size in the image header is the real one *)
  queueMade,        (* esp_event_queue is not NULL                        *)
  esp_event_queue,
  esp_event_task,   (* TRUE: a handle; FALSE: 0                           *)
  sender,           (* where each sender is inside esp_event_send         *)
  sends, others,    (* what the bounds count                              *)
  crowdedOut        (* history: a post of esp_event_send was refused, with *)
                    (* only other messages in the box, since the queue was *)
                    (* last empty                                          *)

bootVars == <<boot, flashOk, queueMade, esp_event_task>>
espVars == <<bootVars, esp_event_queue, sender, sends, others, crowdedOut>>
eventVars == <<mailboxVars, espVars>>

EspInit ==
  /\ Init
  /\ boot = "queue"
  /\ flashOk \in BOOLEAN
  /\ queueMade = FALSE
  /\ esp_event_queue = <<>>
  /\ esp_event_task = FALSE
  /\ sender = [s \in Sender |-> "idle"]
  /\ sends = 0
  /\ others = 0
  /\ crowdedOut = FALSE

-----------------------------------------------------------------------------
(* app_main.  Neither the queue nor the handle is checked.                 *)

BootStep(from, to) ==
  /\ boot = from
  /\ boot' = to
  /\ UNCHANGED <<mailboxVars, esp_event_queue, sender, sends, others, crowdedOut>>

CreateQueue ==
  /\ BootStep("queue", "task")
  /\ queueMade' \in BOOLEAN
  /\ UNCHANGED <<flashOk, esp_event_task>>

GetTaskId ==
  /\ BootStep("task", "flash")
  /\ esp_event_task' \in BOOLEAN
  /\ UNCHANGED <<flashOk, queueMade>>

(* A wrong flash size is corrected and the chip restarts, before anything  *)
(* that sends events has been started.                                     *)
FlashRestart ==
  /\ BootStep("flash", "queue")
  /\ ~flashOk
  /\ flashOk' = TRUE
  /\ queueMade' = FALSE
  /\ esp_event_task' = FALSE

(* Mounting, formatting, the TCP/IP adapter and Lua: none of their results *)
(* keeps the pump from starting.                                           *)
StartServices ==
  /\ BootStep("flash", "services")
  /\ flashOk
  /\ UNCHANGED <<flashOk, queueMade, esp_event_task>>

StartPump ==
  /\ BootStep("services", "run")
  /\ UNCHANGED <<flashOk, queueMade, esp_event_task>>

Boot == CreateQueue \/ GetTaskId \/ FlashRestart \/ StartServices \/ StartPump

-----------------------------------------------------------------------------
(* esp_event_send: two calls of FreeRTOS, and another sender, the pump or  *)
(* net.c may run between them.                                             *)

QueueHasRoom == Len(esp_event_queue) < EspLen

(* The event goes on the queue; if there is no room it is lost and the     *)
(* sender is told.                                                         *)
SendQueue(s, e) ==
  /\ boot \in {"services", "run"}
  /\ queueMade /\ esp_event_task
  /\ sends < MaxSends
  /\ sends' = sends + 1
  /\ sender[s] = "idle"
  /\ IF QueueHasRoom
     THEN /\ esp_event_queue' = Append(esp_event_queue, e)
          /\ sender' = [sender EXCEPT ![s] = "post"]
     ELSE UNCHANGED <<esp_event_queue, sender>>
  /\ UNCHANGED <<mailboxVars, bootVars, others, crowdedOut>>

EspInBox == \E i \in 1 .. Len(box[EspPrio]) : box[EspPrio][i] = "esp"
Handling == hand # None /\ hand.msg = "esp"

(* Mutant: only the sender of the first event on the queue posts. *)
SendPostIfFirst(s) ==
  /\ sender[s] = "post"
  /\ sender' = [sender EXCEPT ![s] = "idle"]
  /\ Len(esp_event_queue) = 1 => Put(EspPrio, "esp")
  /\ Len(esp_event_queue) # 1 => UNCHANGED box
  /\ UNCHANGED <<hand, bootVars, esp_event_queue, sends, others, crowdedOut>>

(* task_post_medium, whose result is ignored. *)
SendPost(s) ==
  /\ sender[s] = "post"
  /\ sender' = [sender EXCEPT ![s] = "idle"]
  /\ \/ /\ Put(EspPrio, "esp")
        /\ UNCHANGED crowdedOut
     \/ /\ ~HasRoom(EspPrio)
        /\ crowdedOut' = (crowdedOut \/ (esp_event_queue # <<>> /\ ~EspInBox /\ ~Handling))
        /\ UNCHANGED box
  /\ UNCHANGED <<hand, bootVars, esp_event_queue, sends, others>>

(* The callbacks of net.c post at medium and high priority. *)
OtherPost(p) ==
  /\ boot = "run"
  /\ others < MaxOthers
  /\ others' = others + 1
  /\ Accept(p, "net")
  /\ UNCHANGED <<bootVars, esp_event_queue, sender, sends, crowdedOut>>

-----------------------------------------------------------------------------
(* The pump. *)

EspDeliver ==
  /\ boot = "run"
  /\ \E p \in Prio : Deliver(p)
  /\ UNCHANGED espVars

(* handle_esp_event: the loop receives one event and passes it on. *)
HandleOne ==
  /\ Handling
  /\ esp_event_queue # <<>>
  /\ esp_event_queue' = Tail(esp_event_queue)
  /\ UNCHANGED <<mailboxVars, bootVars, sender, sends, others, crowdedOut>>

(* Mutant: the handler takes one event per message instead of emptying the *)
(* queue.                                                                  *)
HandleReturnsEarly ==
  /\ Handling
  /\ Finish
  /\ esp_event_queue' = IF esp_event_queue = <<>> THEN <<>> ELSE Tail(esp_event_queue)
  /\ crowdedOut' = FALSE
  /\ UNCHANGED <<bootVars, sender, sends, others>>

(* It returns when it finds the queue empty. *)
HandleReturns ==
  /\ Handling
  /\ esp_event_queue = <<>>
  /\ Finish
  /\ crowdedOut' = FALSE
  /\ UNCHANGED <<bootVars, esp_event_queue, sender, sends, others>>

(* A network event is handled. *)
HandleNet ==
  /\ hand # None /\ hand.msg = "net"
  /\ Finish
  /\ UNCHANGED espVars

EspPump == EspDeliver \/ HandleOne \/ HandleReturns \/ HandleNet

-----------------------------------------------------------------------------

EspNext ==
  \/ Boot
  \/ \E s \in Sender, e \in SysEvent : SendQueue(s, e)
  \/ \E s \in Sender : SendPost(s)
  \/ \E p \in Prio : OtherPost(p)
  \/ EspPump

(* The main task boots and pumps, and a sender that has queued its event   *)
(* goes on to post.  A further event need never come.                      *)
EspSpec ==
  /\ EspInit
  /\ [][EspNext]_eventVars
  /\ WF_eventVars(Boot)
  /\ WF_eventVars(EspPump)
  /\ \A s \in Sender : WF_eventVars(SendPost(s))

-----------------------------------------------------------------------------
(***************************************************************************)
(* Properties                                                              *)
(***************************************************************************)

(* Every variable has its type: esp_event_queue never outgrows its length. *)
EspTypeOK ==
  /\ box \in [Prio -> Seq({"esp", "net"})]
  /\ hand = None \/ hand \in [msg : {"esp", "net"}, prio : Prio]
  /\ boot \in {"queue", "task", "flash", "services", "run"}
  /\ flashOk \in BOOLEAN /\ queueMade \in BOOLEAN /\ esp_event_task \in BOOLEAN
  /\ esp_event_queue \in Seq(SysEvent) /\ Len(esp_event_queue) <= EspLen
  /\ sender \in [Sender -> {"idle", "post"}]
  /\ sends \in 0 .. MaxSends /\ others \in 0 .. MaxOthers
  /\ crowdedOut \in BOOLEAN

(* Somebody is going to look at the queue. *)
WakeComing == EspInBox \/ Handling \/ \E s \in Sender : sender[s] = "post"

(* An event on the queue has a message to the pump under way, or the       *)
(* handler is still emptying the queue; the one way to strand it is a box  *)
(* full of other modules' messages at the moment of its post.              *)
NoStrandedEvent == esp_event_queue # <<>> => WakeComing \/ crowdedOut

(* Unless it is crowded out, every queued event is handled.                *)
QueueDrains == (esp_event_queue # <<>>) ~> (esp_event_queue = <<>> \/ crowdedOut)

=============================================================================
