---------------------------- MODULE SupportFlow -----------------------------
(***************************************************************************)
(* The ticket desk and the conversations of the ticket together: the       *)
(* events a request publishes start the handlers of ConversationListener,  *)
(* and a handler that opened a conversation writes to the ticket document  *)
(* itself.  The bus between them is EventBus, which both modules extend.   *)
(***************************************************************************)
EXTENDS TicketDesk, Conversations

VARIABLE
  copy         \* Task -> the ticket as _attach_chat_to_ticket read it

flowVars == <<vars, convVars, copy>>

\* Ticket.get in the handler.  A ticket that lists the chat is left alone.
AttachRead(t) ==
  /\ At(t, "attach")
  /\ IF frame[t].fresh \in ticket.chats
     THEN Finish(t) /\ UNCHANGED copy
     ELSE /\ copy' = [copy EXCEPT ![t] = ticket]
          /\ Goto(t, "attaching")
          /\ UNCHANGED frame
  /\ UNCHANGED <<chatVars, deskVars, fired>>

\* Mutant: the handler writes the list with only its own chat.
AttachesOnly(t) ==
  /\ At(t, "attaching")
  /\ ticket' = [copy[t] EXCEPT !.chats = {frame[t].fresh}]
  /\ copy' = [copy EXCEPT ![t] = Absent]
  /\ Finish(t)
  /\ UNCHANGED <<chatVars, request, fired>>

\* The whole copy is saved, whatever requests did to the document meanwhile.
AttachSave(t) ==
  /\ At(t, "attaching")
  /\ ticket' = [copy[t] EXCEPT !.chats = @ \union {frame[t].fresh}]
  /\ copy' = [copy EXCEPT ![t] = Absent]
  /\ Finish(t)
  /\ UNCHANGED <<chatVars, request, fired>>

FlowHandlerStep(t) ==
  \/ HandlerStep(t) /\ UNCHANGED <<deskVars, copy>>
  \/ AttachRead(t)
  \/ AttachSave(t)

FlowHandlerFails(t) ==
  /\ HandlerFails(t)
  /\ copy' = [copy EXCEPT ![t] = Absent]
  /\ UNCHANGED deskVars

\* HasIndex bounds the events as it does for the listener alone.
DeskStep == DeskNext /\ UNCHANGED <<convVars, copy>> /\ HasIndex(0)'

FlowCrash ==
  /\ Crash
  /\ ConversationsLost
  /\ copy' = [t \in Task |-> Absent]

FlowInit ==
  /\ DeskInit
  /\ ConvInit
  /\ copy = [t \in Task |-> Absent]

HandlersNext == \E t \in Task : FlowHandlerStep(t) \/ FlowHandlerFails(t)

FlowNext ==
  \/ DeskStep
  \/ HandlersNext
  \/ RouteStep /\ UNCHANGED <<deskVars, copy>>
  \/ FlowCrash

FlowSpec == FlowInit /\ [][FlowNext]_flowVars

\* Calm: nobody touches the ticket before its handlers have run, and none fails.
CalmNext == (Quiet /\ DeskStep) \/ \E t \in Task : FlowHandlerStep(t)

CalmSpec == FlowInit /\ [][CalmNext]_flowVars

\* The event loop runs every task that is ready; nothing else is fair.
FairCalmSpec == CalmSpec /\ \A t \in Task : WF_flowVars(FlowHandlerStep(t))

-----------------------------------------------------------------------------
(* Properties.                                                             *)

Shown == IF Existing = {} THEN NoAgent ELSE conv[Newest(Existing)].agent

\* Once the handlers have run, the agent of the newest conversation is the
\* agent the ticket is assigned to.
ConversationInStep ==
  Quiet /\ Assignee(ticket) # NoAgent => Shown = Assignee(ticket)

\* Once the handlers have run, a finished ticket has no open conversation, and
\* one that may still be worked on has exactly one, its newest.  What becomes
\* of the conversation of a cancelled ticket is CancelledCloses.
OpenWhileUnfinished ==
  Quiet /\ Existing # {} =>
    /\ ticket.status = "finished" => OpenOnes = {}
    /\ ticket.status \notin {"finished", "cancelled"} => OpenOnes = {Newest(Existing)}

\* What the schema of TICKET_CANCELLED says of its listeners: "closes the active
\* conversation".  No listener subscribes to the event.
CancelledCloses == Quiet /\ ticket.status = "cancelled" => OpenOnes = {}

\* Once the handlers have run, chat_ids of the ticket lists its conversations.
ChatsListed == Quiet => ticket.chats = Existing
=============================================================================
