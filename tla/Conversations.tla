--------------------------- MODULE Conversations ----------------------------
(***************************************************************************)
(* The chain of conversations of one ticket (app/domains/live_chat) and    *)
(* the handlers of ConversationListener that keep it in step with the      *)
(* ticket.                                                                 *)
(*                                                                         *)
(* A conversation is identified by its sequential_index: the collection    *)
(* has a unique index on (ticket_id, sequential_index).  The handlers are  *)
(* the tasks of EventBus; each action below is one await of a handler, so  *)
(* handlers interleave with each other, with the HTTP routes and with the  *)
(* messages that arrive on open sockets.                                   *)
(***************************************************************************)
EXTENDS EventBus, Integers, FiniteSets

CONSTANTS
  Message,      \* messages the participants may send
  MaxIndex,     \* bound: the highest sequential_index
  ManualIndex,  \* indices that clients ask for in POST /conversations
  MaxPending,   \* bound: agent changes checked but not yet written
  MaxSockets,   \* bound: conversations with a connected socket
  Raised,       \* standalone: the kinds of events the ticket desk raises
  Faults        \* whether handlers may fail and the process may stop

ASSUME ConversationsAssumption ==
  /\ MaxIndex \in Nat
  /\ ManualIndex \subseteq 0..MaxIndex
  /\ MaxPending \in Nat
  /\ MaxSockets \in Nat
  /\ Raised \subseteq Event
  /\ Faults \in BOOLEAN

VARIABLES
  conv,      \* Index -> the stored conversation, or one that does not exist
  frame,     \* Task -> the local variables of its handler
  pending,   \* agent changes that passed their checks and are being written
  joined,    \* conversations with a connected socket
  sent       \* history: <<m, i>> when message m was stored in conversation i

chatVars == <<conv, pending, joined, sent>>
convVars == <<conv, frame, pending, joined, sent>>

Index == 0..MaxIndex
None == -1
AnyAgent == Agent \union {NoAgent}
Notice == {"assigned", "transferred", "ended"}

Conversation ==
  [exists : BOOLEAN, agent : AnyAgent, parent : Index \union {None},
   children : SUBSET Index, open : BOOLEAN, messages : SUBSET (Message \union Notice)]

NewConversation(a, p) ==
  [exists |-> TRUE, agent |-> a, parent |-> p, children |-> {}, open |-> TRUE,
   messages |-> {}]

NoConversation == [NewConversation(NoAgent, None) EXCEPT !.exists = FALSE, !.open = FALSE]

\* last: the conversation the handler works on; fresh: the one it inserted;
\* seen: the copy end_conversation read.
Frame == [last : Index \union {None}, fresh : Index \union {None}, seen : Conversation]

EmptyFrame == [last |-> None, fresh |-> None, seen |-> NoConversation]

Pending == [by : {"assume", "admin"}, conv : Index, agent : Agent]

Existing == {i \in Index : conv[i].exists}
OpenOnes == {i \in Existing : conv[i].open}

\* sort by sequential_index descending, take the first.
Newest(S) == IF S = {} THEN None ELSE CHOOSE i \in S : \A j \in S : j <= i

-----------------------------------------------------------------------------
(* The handlers.                                                           *)

At(t, pc) == task[t].pc = pc

Finish(t) == End(t) /\ frame' = [frame EXCEPT ![t] = EmptyFrame]

\* on_ticket_created does nothing when the ticket has a conversation.
StartCreated(t) ==
  /\ At(t, "start") /\ task[t].event = "created"
  /\ IF Existing # {} THEN Finish(t) ELSE Goto(t, "append") /\ UNCHANGED frame
  /\ UNCHANGED <<chatVars, fired>>

\* Mutant: an open conversation gets the notice, but not the agent.
NoticeOnly(t) ==
  /\ At(t, "start") /\ task[t].event = "assignee"
  /\ Goto(t, IF OpenOnes = {} THEN "append" ELSE "notice")
  /\ frame' = [frame EXCEPT ![t].last = Newest(OpenOnes)]
  /\ UNCHANGED <<chatVars, fired>>

\* on_ticket_assignee_updated reuses the latest open conversation, if any.
StartAssignee(t) ==
  /\ At(t, "start") /\ task[t].event = "assignee"
  /\ Goto(t, IF OpenOnes = {} THEN "append" ELSE "assign")
  /\ frame' = [frame EXCEPT ![t].last = Newest(OpenOnes)]
  /\ UNCHANGED <<chatVars, fired>>

\* close_active_ticket_conversation closes the latest open one, if any.
StartClosed(t) ==
  /\ At(t, "start") /\ task[t].event = "closed"
  /\ IF OpenOnes = {} THEN Finish(t)
     ELSE /\ Goto(t, "notice")
          /\ frame' = [frame EXCEPT ![t].last = Newest(OpenOnes)]
  /\ UNCHANGED <<chatVars, fired>>

\* append_conversation_to_ticket: the last conversation, open or not.
ReadLast(t) ==
  /\ At(t, "append") \/ (At(t, "start") /\ task[t].event = "escalated")
  /\ Goto(t, "insert")
  /\ frame' = [frame EXCEPT ![t].last = Newest(Existing)]
  /\ UNCHANGED <<chatVars, fired>>

\* Mutant: the number is computed when inserting, the parent was read before.
InsertsAtEnd(t) ==
  LET p == frame[t].last
      n == Newest(Existing) + 1
  IN  /\ At(t, "insert")
      /\ conv' = [conv EXCEPT ![n] = NewConversation(task[t].agent, p)]
      /\ frame' = [frame EXCEPT ![t].fresh = n]
      /\ Goto(t, IF p = None THEN "attach"
                 ELSE IF task[t].event = "escalated" THEN "notice" ELSE "end")
      /\ UNCHANGED <<pending, joined, sent, fired>>

\* The unique index rejects a second conversation with the same number: the
\* handler's exception is logged and the event is gone.
Insert(t) ==
  LET p == frame[t].last
      n == p + 1
  IN  /\ At(t, "insert")
      /\ IF conv[n].exists
         THEN Finish(t) /\ UNCHANGED conv
         ELSE /\ conv' = [conv EXCEPT ![n] = NewConversation(task[t].agent, p)]
              /\ frame' = [frame EXCEPT ![t].fresh = n]
              /\ Goto(t, IF p = None THEN "attach"
                         ELSE IF task[t].event = "escalated" THEN "notice" ELSE "end")
      /\ UNCHANGED <<pending, joined, sent, fired>>

\* attribute_agent: $set on the conversation that was open when it was looked up.
AttributeAgent(t) ==
  /\ At(t, "assign")
  /\ conv' = [conv EXCEPT ![frame[t].last].agent = task[t].agent]
  /\ Goto(t, "notice")
  /\ UNCHANGED <<frame, pending, joined, sent, fired>>

NoticeOf(e) ==
  CASE e = "assignee" -> "assigned" [] e = "escalated" -> "transferred" [] OTHER -> "ended"

\* add_message of a System message: $push.
PushNotice(t) ==
  LET e == task[t].event IN
  /\ At(t, "notice")
  /\ conv' = [conv EXCEPT ![frame[t].last].messages = @ \union {NoticeOf(e)}]
  /\ IF e = "assignee" THEN Finish(t) ELSE Goto(t, "end") /\ UNCHANGED frame
  /\ UNCHANGED <<pending, joined, sent, fired>>

\* Mutant: it ends whatever conversation is the newest by then.
EndsNewest(t) ==
  LET n == Newest(Existing) IN
  /\ At(t, "end")
  /\ frame' = [frame EXCEPT ![t].last = n, ![t].seen = conv[n]]
  /\ Goto(t, "save")
  /\ UNCHANGED <<chatVars, fired>>

\* end_conversation reads the whole document ...
EndRead(t) ==
  /\ At(t, "end")
  /\ frame' = [frame EXCEPT ![t].seen = conv[frame[t].last]]
  /\ Goto(t, "save")
  /\ UNCHANGED <<chatVars, fired>>

\* ... and saves all of it with finished_at set.
EndSave(t) ==
  /\ At(t, "save")
  /\ conv' = [conv EXCEPT ![frame[t].last] = [frame[t].seen EXCEPT !.open = FALSE]]
  /\ IF task[t].event = "closed" THEN Finish(t) ELSE Goto(t, "child") /\ UNCHANGED frame
  /\ UNCHANGED <<pending, joined, sent, fired>>

\* Mutant: parent and child swapped.
AddsParent(t) ==
  /\ At(t, "child")
  /\ conv' = [conv EXCEPT ![frame[t].fresh].children = @ \union {frame[t].last}]
  /\ Goto(t, "attach")
  /\ UNCHANGED <<frame, pending, joined, sent, fired>>

\* add_child: $push on the old conversation.
AddChild(t) ==
  /\ At(t, "child")
  /\ conv' = [conv EXCEPT ![frame[t].last].children = @ \union {frame[t].fresh}]
  /\ Goto(t, "attach")
  /\ UNCHANGED <<frame, pending, joined, sent, fired>>

\* An await raised: the wrapper of event_handler logs it and gives up.
HandlerFails(t) ==
  /\ Faults
  /\ ~At(t, "free")
  /\ Finish(t)
  /\ UNCHANGED <<chatVars, fired>>

HandlerStep(t) ==
  \/ StartCreated(t)
  \/ StartAssignee(t)
  \/ StartClosed(t)
  \/ ReadLast(t)
  \/ Insert(t)
  \/ AttributeAgent(t)
  \/ PushNotice(t)
  \/ EndRead(t)
  \/ EndSave(t)
  \/ AddChild(t)

-----------------------------------------------------------------------------
(* Routes and sockets.                                                     *)

\* Handlers that may still insert a conversation.
Inserting ==
  {t \in Task : task[t].pc \in {"start", "append", "insert"} /\ task[t].event # "closed"}

\* Bound: the handlers in flight and n more fit under MaxIndex.
HasIndex(n) == Newest(Existing) + Cardinality(Inserting) + n <= MaxIndex

\* POST /conversations: index, parent and agent come from the body.
CreateRoute ==
  /\ \E i \in ManualIndex, p \in Existing \union {None}, a \in AnyAgent :
       /\ ~conv[i].exists
       /\ i + Cardinality(Inserting) <= MaxIndex
       /\ conv' = [conv EXCEPT ![i] = NewConversation(a, p)]
  /\ UNCHANGED <<frame, pending, joined, sent, busVars>>

AddPending(p) ==
  /\ Cardinality(pending) < MaxPending
  /\ pending' = pending \union {p}
  /\ UNCHANGED <<conv, frame, joined, sent, busVars>>

\* POST /{chat_id}/assume by an agent: it must be open and nobody's.
AssumeCheck(i, a) ==
  /\ i \in OpenOnes
  /\ conv[i].agent = NoAgent
  /\ AddPending([by |-> "assume", conv |-> i, agent |-> a])

\* /assume by an admin (open conversations, for himself) and set-agent by an
\* admin or by the present agent (any conversation): someone may displace.
SetAgentCheck(i, a) ==
  /\ i \in Existing
  /\ AddPending([by |-> "admin", conv |-> i, agent |-> a])

\* Mutant: a new agent reopens the conversation.
WriteReopens(p) ==
  /\ p \in pending
  /\ conv' = [conv EXCEPT ![p.conv].agent = p.agent, ![p.conv].open = TRUE]
  /\ pending' = pending \ {p}
  /\ UNCHANGED <<frame, joined, sent, busVars>>

\* attribute_agent: $set, whatever happened since the checks.
WriteAgent(p) ==
  /\ p \in pending
  /\ conv' = [conv EXCEPT ![p.conv].agent = p.agent]
  /\ pending' = pending \ {p}
  /\ UNCHANGED <<frame, joined, sent, busVars>>

\* A socket is accepted while the conversation is open, and stays connected.
Connect(i) ==
  /\ i \in OpenOnes \ joined
  /\ Cardinality(joined) < MaxSockets
  /\ joined' = joined \union {i}
  /\ UNCHANGED <<conv, frame, pending, sent, busVars>>

Disconnect(i) ==
  /\ i \in joined
  /\ joined' = joined \ {i}
  /\ UNCHANGED <<conv, frame, pending, sent, busVars>>

\* The receive loop does not look at the conversation again before it stores.
Say(m, i) ==
  /\ i \in joined
  /\ <<m, i>> \notin sent
  /\ conv' = [conv EXCEPT ![i].messages = @ \union {m}]
  /\ sent' = sent \union {<<m, i>>}
  /\ UNCHANGED <<frame, pending, joined, busVars>>

RouteStep ==
  \/ CreateRoute
  \/ \E i \in Index, a \in Agent : AssumeCheck(i, a) \/ SetAgentCheck(i, a)
  \/ \E p \in pending : WriteAgent(p)
  \/ \E i \in Index : Connect(i) \/ Disconnect(i)
  \/ \E m \in Message, i \in Index : Say(m, i)

\* What a restart leaves: the documents.
ConversationsLost ==
  /\ frame' = [t \in Task |-> EmptyFrame]
  /\ pending' = {}
  /\ joined' = {}
  /\ UNCHANGED <<conv, sent>>

ConvInit ==
  /\ conv = [i \in Index |-> NoConversation]
  /\ frame = [t \in Task |-> EmptyFrame]
  /\ pending = {} /\ joined = {} /\ sent = {}

-----------------------------------------------------------------------------
(* The listener on its own: any event may come at any time, "created" once *)
(* and before the others, and the ticket is in another module.             *)

Raise(e) ==
  /\ IF e = "created" THEN fired = {} ELSE "created" \in fired
  /\ HasIndex(1)
  /\ \E a \in Agent : Publish(e, IF e \in {"assignee", "escalated"} THEN a ELSE NoAgent)
  /\ UNCHANGED convVars

\* _attach_chat_to_ticket works on the ticket only.
Attached(t) ==
  /\ At(t, "attach")
  /\ Finish(t)
  /\ UNCHANGED <<chatVars, fired>>

ProcessStops ==
  /\ Faults
  /\ TasksLost /\ ConversationsLost /\ UNCHANGED fired

convSpecVars == <<convVars, busVars>>

ListenerStep(t) == HandlerStep(t) \/ Attached(t)

ListenerNext ==
  \/ \E e \in Raised : Raise(e)
  \/ \E t \in Task : ListenerStep(t) \/ HandlerFails(t)
  \/ RouteStep
  \/ ProcessStops

ListenerSpec == ConvInit /\ BusInit /\ [][ListenerNext]_convSpecVars

-----------------------------------------------------------------------------
(* Properties.                                                             *)

\* Documents, handler locals, sockets and tasks have their shape.
ConvTypeOK ==
  /\ conv \in [Index -> Conversation]
  /\ frame \in [Task -> Frame]
  /\ pending \subseteq Pending
  /\ joined \subseteq Existing
  /\ sent \subseteq Message \X Index
  /\ BusTypeOK

\* Handlers racing to append build one chain: the indices have no gap and each
\* conversation's parent is the one before it.
ChainLinked ==
  \A i \in Existing : conv[i].parent = i - 1 /\ (i > 0 => conv[i - 1].exists)

\* append creates the new conversation before it closes the old one, so that a
\* failure does not leave the ticket without an open conversation: unless the
\* ticket was closed, the newest conversation is open, crashes included.
NewestOpen ==
  Existing # {} /\ "closed" \notin fired => Newest(Existing) \in OpenOnes

\* Once the handlers have run, only the newest conversation can be open: a
\* superseded one was closed whatever the handlers raced with.
SupersededClosed ==
  Quiet => \A i \in OpenOnes : i = Newest(Existing)

\* Once the handlers have run, children_ids mirrors parent_id.
ChildrenMirrorParents ==
  Quiet => \A i, j \in Existing : j \in conv[i].children <=> conv[j].parent = i

\* Until the ticket is closed, handlers that race leave one open conversation,
\* the newest, and a chain linked both ways.
ChainSettled ==
  "closed" \notin fired => SupersededClosed /\ ChildrenMirrorParents

\* No step reopens a conversation, stale copies included.
ClosedStaysClosed ==
  [][\A i \in Existing : ~conv[i].open => ~conv'[i].open]_convSpecVars

\* A superseded conversation is eventually closed.
EventuallyClosed ==
  \A i \in Index : (i \in Existing /\ i # Newest(Existing)) ~> ~conv[i].open

\* A message that was stored stays in the record of its conversation.
MessageKept == \A mi \in sent : mi[1] \in conv[mi[2]].messages

=============================================================================
