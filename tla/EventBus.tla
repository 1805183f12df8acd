------------------------------ MODULE EventBus ------------------------------
(***************************************************************************)
(* The in-process event dispatcher (app/core/event_dispatcher).            *)
(*                                                                         *)
(* publish() starts one asyncio task per subscribed handler and returns.   *)
(* Nothing is stored, nothing is retried and no order is kept between the  *)
(* tasks: a published event is a task that runs whenever the event loop    *)
(* gets to it, step by step between its awaits, and that vanishes with the *)
(* process.  A slot of `task` is one such running handler.                 *)
(***************************************************************************)

CONSTANTS
  Task,        \* slots for handlers in flight; |Task| bounds their number
  Agent,       \* users with the role "agent"
  NoAgent      \* agent_id = None

ASSUME EventBusAssumption == NoAgent \notin Agent

VARIABLES
  task,        \* Task -> [pc, event, agent]; pc = "free" when the slot is unused
  fired        \* history: the kinds of events ever published

busVars == <<task, fired>>

(***************************************************************************)
(* The ticket events and the ones ConversationListener subscribes to.      *)
(* TICKET_CANCELLED is published and nobody subscribes to it.              *)
(***************************************************************************)
Event == {"created", "assignee", "escalated", "closed", "cancelled"}

Subscribed == {"created", "assignee", "escalated", "closed"}

\* The points between two awaits where a handler can be.
HandlerPc == {"free", "start", "append", "insert", "notice", "end", "save",
              "child", "attach", "attaching", "assign", "closing"}

FreeSlot == [pc |-> "free", event |-> "created", agent |-> NoAgent]

BusInit ==
  /\ task = [t \in Task |-> FreeSlot]
  /\ fired = {}

BusTypeOK ==
  /\ task \in [Task -> [pc : HandlerPc, event : Event, agent : Agent \union {NoAgent}]]
  /\ fired \subseteq Event

\* Start the handler of event e; a is the event's new agent, if it names one.
Publish(e, a) ==
  /\ fired' = fired \union {e}
  /\ IF e \in Subscribed
     THEN \E t \in Task :
            /\ task[t].pc = "free"
            /\ task' = [task EXCEPT ![t] =
                          [pc |-> "start", event |-> e, agent |-> a]]
     ELSE UNCHANGED task

\* A handler moves on to its next await, or ends.
Goto(t, pc) == task' = [task EXCEPT ![t].pc = pc]

End(t) == task' = [task EXCEPT ![t] = FreeSlot]

Quiet == \A t \in Task : task[t].pc = "free"

\* The process stops: every handler in flight is lost and nothing replays it.
TasksLost == task' = [t \in Task |-> FreeSlot]
=============================================================================
