------------------------- MODULE SupportFlowProofs --------------------------
(***************************************************************************)
(* Proofs about Conversations and SupportFlow.                             *)
(*                                                                         *)
(* However many handlers, routes and sockets interleave, fail or are lost  *)
(* in a restart, the conversations of a ticket form one chain without      *)
(* gaps, the newest of them is open until the ticket is closed, and none   *)
(* is reopened.  ConvInv says what a handler knows at each await (Place):  *)
(* the one that closes a conversation has already inserted its successor.  *)
(* As long as no handler fails they also leave the chain linked both ways  *)
(* and only its newest conversation open: RaceInv says which handler owes  *)
(* what to which conversation.                                             *)
(*                                                                         *)
(* What holds of the ticket desk alone and of the conversations alone also *)
(* holds of the two together, although a handler saves its own copy of the *)
(* ticket document.                                                        *)
(***************************************************************************)
EXTENDS SupportFlow, TicketDeskProofs, MCConversationScenes, FiniteSetTheorems,
        WellFoundedInduction, TLAPS

\* The handlers in flight are finitely many, and clients that post a
\* conversation themselves ask for the first one only.
Linear == IsFiniteSet(Task) /\ ManualIndex \subseteq {0}

Slot == [pc : HandlerPc, event : Event, agent : AnyAgent]

\* The successor of the handler's conversation, which the handler inserted.
Fresh(f) == f.fresh \in Existing /\ f.fresh = f.last + 1

\* What a handler w with the local variables f knows at the await where it is.
Placed(w, f) ==
  /\ w.pc \in {"append", "insert", "child"} => w.event # "closed"
  /\ w.pc = "assign" => w.event = "assignee"
  /\ w.pc = "insert" => f.last \in Existing \union {None}
  /\ w.pc \in {"assign", "notice", "end", "save", "child"} => f.last \in Existing
  /\ w.pc \in {"end", "save", "child"} /\ w.event # "closed" => Fresh(f)
  /\ w.pc = "notice" /\ w.event \notin {"assignee", "closed"} => Fresh(f)
  /\ w.pc = "save" => f.seen.exists /\ f.seen.parent = f.last - 1
  /\ w.pc # "free" /\ w.event = "closed" => "closed" \in fired

Place(t) == Placed(task[t], frame[t])

Chain ==
  /\ \E k \in Index \union {None} : Existing = 0..k
  /\ \A i \in Existing : conv[i].parent = i - 1

\* Every handler that may still insert has an index left.
Room == Newest(Existing) + Cardinality(Inserting) <= MaxIndex

ConvInv ==
  /\ ConvTypeOK
  /\ Chain
  /\ Room
  /\ NewestOpen
  /\ \A t \in Task : Place(t)

-----------------------------------------------------------------------------
(* Indices.                                                                *)

\* A set of indices that is not empty has a greatest element, and Newest is it.
LEMMA NewestIn ==
  ASSUME NEW S \in SUBSET Index, S # {}
  PROVE  Newest(S) \in S /\ \A j \in S : j <= Newest(S)
<1>1. MaxIndex \in Nat
  BY ConversationsAssumption
<1> DEFINE T == {MaxIndex - i : i \in S}
<1>2. T \subseteq Nat /\ T # {}
  <2>1. \A i \in S : MaxIndex - i \in Nat
    BY <1>1 DEF Index
  <2> QED
    BY <2>1
<1>3. PICK x \in T : \A y \in T : ~(<<y, x>> \in OpToRel(<, Nat))
  <2> HIDE DEF T
  <2> QED
    BY <1>2, NatLessThanWellFounded, WFMin
<1>4. \A y \in T : ~(y < x)
  BY <1>2, <1>3 DEF OpToRel
<1>5. PICK i \in S : x = MaxIndex - i
  OBVIOUS
<1>6. ASSUME NEW j \in S PROVE j <= i
  <2>1. ~(MaxIndex - j < MaxIndex - i)
    BY <1>4, <1>5
  <2>2. i \in Nat /\ j \in Nat
    BY <1>1 DEF Index
  <2> QED
    BY <1>1, <2>1, <2>2
<1> QED
  BY <1>6 DEF Newest

\* The newest of a chain is its last one.
LEMMA NewestOfChain ==
  ASSUME NEW k \in Index \union {None}
  PROVE  Newest(0..k) = k
<1>1. MaxIndex \in Nat
  BY ConversationsAssumption
<1>2. CASE k = None
  BY <1>2 DEF Newest, None
<1>3. CASE k \in Index
  <2>1. 0..k \in SUBSET Index /\ k \in 0..k
    BY <1>1, <1>3 DEF Index
  <2>2. Newest(0..k) \in 0..k /\ k <= Newest(0..k)
    BY <2>1, NewestIn
  <2> QED
    BY <1>1, <1>3, <2>2 DEF Index
<1> QED
  BY <1>2, <1>3

\* Sets of handlers in flight are finite, and a smaller one has fewer.
LEMMA Fewer ==
  ASSUME IsFiniteSet(Task), NEW S \in SUBSET Task, NEW R \in SUBSET S
  PROVE  /\ IsFiniteSet(S)
         /\ Cardinality(S) \in Nat /\ Cardinality(R) \in Nat
         /\ Cardinality(R) <= Cardinality(S)
  BY FS_Subset, FS_CardinalityType

\* What Chain and Room say of the last index and the handlers under way.
LEMMA ChainEnd ==
  ASSUME Linear, ConvInv
  PROVE  \E k \in Index \union {None} :
           /\ Existing = 0..k /\ Newest(Existing) = k
           /\ k \in Int /\ MaxIndex \in Nat
           /\ Cardinality(Inserting) \in Nat
           /\ k + Cardinality(Inserting) <= MaxIndex
<1>1. PICK k \in Index \union {None} : Existing = 0..k
  BY DEF ConvInv, Chain
<1>2. Newest(Existing) = k
  BY <1>1, NewestOfChain
<1>3. k \in Int /\ MaxIndex \in Nat
  BY ConversationsAssumption DEF Index, None
<1>4. Cardinality(Inserting) \in Nat
  BY Fewer DEF Linear, Inserting
<1>5. k + Cardinality(Inserting) <= MaxIndex
  BY <1>2 DEF ConvInv, Room
<1> QED
  BY <1>1, <1>2, <1>3, <1>4, <1>5

-----------------------------------------------------------------------------
(* Steps that keep the chain.                                              *)

\* The chain, its room and its open end survive a step that neither adds nor
\* closes: the same conversations with the same parents, and no new inserter.
LEMMA ChainKept ==
  ASSUME Linear, ConvInv,
         conv' \in [Index -> Conversation],
         \A i \in Index : /\ conv'[i].exists = conv[i].exists
                          /\ conv[i].exists => conv'[i].parent = conv[i].parent,
         \A i \in Existing : \/ conv[i].open => conv'[i].open
                             \/ i + 1 \in Existing
                             \/ "closed" \in fired',
         Inserting' \subseteq Inserting, fired \subseteq fired'
  PROVE  Existing' = Existing /\ Chain' /\ Room' /\ NewestOpen'
<1>1. PICK k \in Index \union {None} :
        /\ Existing = 0..k /\ Newest(Existing) = k
        /\ k \in Int /\ MaxIndex \in Nat
        /\ k + Cardinality(Inserting) <= MaxIndex
  BY ChainEnd
<1>2. Existing' = Existing
  BY DEF Existing
<1>3. Chain'
  BY <1>1, <1>2 DEF Chain, ConvInv, Existing
<1>4. Room'
  <2>1. /\ Cardinality(Inserting) \in Nat /\ Cardinality(Inserting') \in Nat
        /\ Cardinality(Inserting') <= Cardinality(Inserting)
    BY Fewer DEF Linear, Inserting
  <2>2. Newest(Existing') = k
    BY <1>1, <1>2
  <2>3. Newest(Existing') + Cardinality(Inserting') <= MaxIndex
    BY <1>1, <2>1, <2>2
  <2> QED
    BY <2>3 DEF Room, Newest
<1>5. NewestOpen'
  <2> SUFFICES ASSUME Existing' # {}, "closed" \notin fired'
               PROVE  Newest(Existing)' \in OpenOnes'
    BY DEF NewestOpen
  <2>1. k \in OpenOnes /\ k \in Existing /\ k + 1 \notin Existing
    BY <1>1, <1>2 DEF ConvInv, NewestOpen, OpenOnes
  <2>2. conv'[k].open
    BY <2>1 DEF OpenOnes
  <2>3. Newest(Existing') = k
    BY <1>1, <1>2
  <2> QED
    BY <1>2, <2>1, <2>2, <2>3 DEF OpenOnes, Newest
<1> QED
  BY <1>2, <1>3, <1>4, <1>5

\* A handler keeps its event when it goes on.
LEMMA GotoSlot ==
  ASSUME BusTypeOK, NEW t \in Task, NEW pc \in HandlerPc, Goto(t, pc)
  PROVE  LET w == [pc |-> pc, event |-> task[t].event, agent |-> task[t].agent]
         IN  w \in Slot /\ task' = [task EXCEPT ![t] = w]
<1> DEFINE w == [pc |-> pc, event |-> task[t].event, agent |-> task[t].agent]
<1>1. task \in [Task -> Slot] /\ task[t] \in Slot
  BY DEF BusTypeOK, Slot, AnyAgent
<1>2. w \in Slot
  BY <1>1 DEF Slot
<1>3. [task[t] EXCEPT !.pc = pc] = w
  BY <1>1 DEF Slot
<1>4. task' = [task EXCEPT ![t] = [task[t] EXCEPT !.pc = pc]]
  BY DEF Goto
<1> QED
  BY <1>2, <1>3, <1>4

\* The slot and the locals of a handler that has ended.
LEMMA Emptied == FreeSlot \in Slot /\ EmptyFrame \in Frame
  BY DEF FreeSlot, Slot, HandlerPc, Event, AnyAgent, EmptyFrame, Frame, NoConversation,
     NewConversation, Conversation, None

\* A handler that ends knows nothing.
LEMMA EndedPlace == Placed(FreeSlot, EmptyFrame)
  BY DEF Placed, FreeSlot

\* A handler that goes on or ends, without inserting or closing the newest
\* conversation of an open ticket, keeps the invariant if it knows enough where
\* it arrives.
LEMMA HandlerMoves ==
  ASSUME Linear, ConvInv, NEW t \in Task, NEW w \in Slot, NEW f \in Frame,
         task' = [task EXCEPT ![t] = w], frame' = [frame EXCEPT ![t] = f],
         Placed(w, f),
         w.pc \in {"start", "append", "insert"} /\ w.event # "closed" => t \in Inserting,
         UNCHANGED <<pending, joined, sent, fired>>,
         conv' \in [Index -> Conversation],
         \A i \in Index : /\ conv'[i].exists = conv[i].exists
                          /\ conv[i].exists => conv'[i].parent = conv[i].parent,
         \A i \in Existing : \/ conv[i].open => conv'[i].open
                             \/ i + 1 \in Existing
                             \/ "closed" \in fired
  PROVE  ConvInv'
<1>1. ConvTypeOK /\ BusTypeOK
  BY DEF ConvInv, ConvTypeOK
<1>2. \A o \in Task : /\ task'[o] = IF o = t THEN w ELSE task[o]
                      /\ frame'[o] = IF o = t THEN f ELSE frame[o]
  BY <1>1 DEF ConvTypeOK, BusTypeOK
<1>3. Inserting' \subseteq Inserting
  BY <1>2 DEF Inserting
<1>4. Existing' = Existing /\ Chain' /\ Room' /\ NewestOpen'
  BY <1>3, ChainKept
<1>5. ConvTypeOK'
  <2>1. BusTypeOK'
    BY <1>1 DEF BusTypeOK, Slot, AnyAgent
  <2>2. frame' \in [Task -> Frame]
    BY <1>1 DEF ConvTypeOK
  <2> QED
    BY <1>1, <1>4, <2>1, <2>2 DEF ConvTypeOK
<1>6. ASSUME NEW o \in Task PROVE Place(o)'
  <2>1. Placed(task'[o], frame'[o])
    BY <1>2 DEF ConvInv, Place
  <2>2. fired' = fired
    OBVIOUS
  <2> QED
    BY <1>4, <2>1, <2>2 DEF Place, Placed, Fresh
<1> QED
  BY <1>4, <1>5, <1>6 DEF ConvInv

\* The same for a handler that only looks.
LEMMA HandlerReads ==
  ASSUME Linear, ConvInv, NEW t \in Task, NEW w \in Slot, NEW f \in Frame,
         task' = [task EXCEPT ![t] = w], frame' = [frame EXCEPT ![t] = f],
         Placed(w, f),
         w.pc \in {"start", "append", "insert"} /\ w.event # "closed" => t \in Inserting,
         UNCHANGED <<chatVars, fired>>
  PROVE  ConvInv'
<1>1. conv \in [Index -> Conversation] /\ conv' = conv
  BY DEF ConvInv, ConvTypeOK, chatVars
<1> QED
  BY <1>1, HandlerMoves DEF chatVars

\* Ending, by return or by exception, keeps it.
LEMMA HandlerFinishes ==
  ASSUME Linear, ConvInv, NEW t \in Task, Finish(t), UNCHANGED <<chatVars, fired>>
  PROVE  ConvInv'
<1>1. task' = [task EXCEPT ![t] = FreeSlot] /\ frame' = [frame EXCEPT ![t] = EmptyFrame]
  BY DEF Finish, End
<1>2. FreeSlot.pc = "free"
  BY DEF FreeSlot
<1> QED
  BY <1>1, <1>2, Emptied, EndedPlace, HandlerReads

-----------------------------------------------------------------------------
(* The steps of the handlers.                                              *)

\* What the invariant says of one handler, its locals and the documents.
LEMMA HandlerFacts ==
  ASSUME ConvInv, NEW t \in Task
  PROVE  /\ task[t] \in Slot /\ task[t].event \in Event
         /\ frame[t] \in Frame /\ frame[t].seen \in Conversation
         /\ frame[t].last \in Index \union {None} /\ frame[t].fresh \in Index \union {None}
         /\ Placed(task[t], frame[t]) /\ BusTypeOK
         /\ conv \in [Index -> Conversation]
         /\ Existing \subseteq Index /\ OpenOnes \subseteq Existing
  BY DEF ConvInv, ConvTypeOK, BusTypeOK, Slot, AnyAgent, Frame, Place, Existing, OpenOnes

\* Local variables after an assignment to last, fresh or seen.
LEMMA NewLocals ==
  ASSUME ConvInv, NEW t \in Task, NEW i \in Index \union {None}, NEW c \in Conversation
  PROVE  LET f == frame[t] IN
         /\ [f EXCEPT !.last = i] = [last |-> i, fresh |-> f.fresh, seen |-> f.seen]
         /\ [f EXCEPT !.fresh = i] = [last |-> f.last, fresh |-> i, seen |-> f.seen]
         /\ [f EXCEPT !.seen = c] = [last |-> f.last, fresh |-> f.fresh, seen |-> c]
         /\ [last |-> i, fresh |-> f.fresh, seen |-> f.seen] \in Frame
         /\ [last |-> f.last, fresh |-> i, seen |-> f.seen] \in Frame
         /\ [last |-> f.last, fresh |-> f.fresh, seen |-> c] \in Frame
         /\ frame = [frame EXCEPT ![t] = f]
  BY DEF ConvInv, ConvTypeOK, Frame

\* on_ticket_created ends, or goes on to append.
LEMMA StartCreatedKeeps ==
  ASSUME Linear, ConvInv, NEW t \in Task, StartCreated(t)
  PROVE  ConvInv'
<1>1. task[t].pc = "start" /\ task[t].event = "created"
  BY DEF StartCreated, At
<1>2. CASE Finish(t)
  BY <1>2, HandlerFinishes DEF StartCreated
<1>3. CASE Goto(t, "append") /\ UNCHANGED frame
  <2> DEFINE w == [pc |-> "append", event |-> task[t].event, agent |-> task[t].agent]
  <2>1. w \in Slot /\ task' = [task EXCEPT ![t] = w]
    BY <1>3, HandlerFacts, GotoSlot DEF HandlerPc
  <2>2. frame' = [frame EXCEPT ![t] = frame[t]] /\ frame[t] \in Frame
    BY <1>3, HandlerFacts DEF ConvInv, ConvTypeOK
  <2>3. Placed(w, frame[t]) /\ t \in Inserting
    BY <1>1 DEF Placed, Inserting
  <2> HIDE DEF w
  <2> QED
    BY <2>1, <2>2, <2>3, HandlerReads DEF StartCreated
<1> QED
  BY <1>2, <1>3 DEF StartCreated

\* on_ticket_assignee_updated goes on with the latest open one, if there is one.
LEMMA StartAssigneeKeeps ==
  ASSUME Linear, ConvInv, NEW t \in Task, StartAssignee(t)
  PROVE  ConvInv'
<1> DEFINE pc == IF OpenOnes = {} THEN "append" ELSE "assign"
           w == [pc |-> pc, event |-> task[t].event, agent |-> task[t].agent]
           i == Newest(OpenOnes)
           f == [last |-> i, fresh |-> frame[t].fresh, seen |-> frame[t].seen]
<1>1. task[t].pc = "start" /\ task[t].event = "assignee"
  BY DEF StartAssignee, At
<1>2. w \in Slot /\ task' = [task EXCEPT ![t] = w]
  BY HandlerFacts, GotoSlot DEF HandlerPc, StartAssignee
<1>3. OpenOnes # {} => i \in Existing
  BY HandlerFacts, NewestIn
<1>4. i \in Index \union {None}
  BY <1>3, HandlerFacts DEF Newest
<1>5. f \in Frame /\ frame' = [frame EXCEPT ![t] = f]
  <2> HIDE DEF i
  <2> QED
    BY <1>4, HandlerFacts, NewLocals DEF StartAssignee, i
<1>6. Placed(w, f) /\ t \in Inserting
  BY <1>1, <1>3 DEF Placed, Inserting
<1> HIDE DEF w, f
<1> QED
  BY <1>2, <1>5, <1>6, HandlerReads DEF StartAssignee

\* close_active_ticket_conversation goes on with the latest open one, or ends.
LEMMA StartClosedKeeps ==
  ASSUME Linear, ConvInv, NEW t \in Task, StartClosed(t)
  PROVE  ConvInv'
<1> DEFINE w == [pc |-> "notice", event |-> task[t].event, agent |-> task[t].agent]
           i == Newest(OpenOnes)
           f == [last |-> i, fresh |-> frame[t].fresh, seen |-> frame[t].seen]
<1>1. task[t].pc = "start" /\ task[t].event = "closed"
  BY DEF StartClosed, At
<1>2. CASE Finish(t)
  BY <1>2, HandlerFinishes DEF StartClosed
<1>3. CASE OpenOnes # {}
  <2>1. w \in Slot /\ task' = [task EXCEPT ![t] = w]
    BY <1>3, HandlerFacts, GotoSlot DEF HandlerPc, StartClosed
  <2>2. i \in Existing /\ i \in Index
    BY <1>3, HandlerFacts, NewestIn
  <2>3. f \in Frame /\ frame' = [frame EXCEPT ![t] = f]
    <3> HIDE DEF i
    <3> QED
      BY <1>3, <2>2, HandlerFacts, NewLocals DEF StartClosed, i
  <2>4. Placed(w, f)
    BY <1>1, <2>2, HandlerFacts DEF Placed
  <2>5. w.pc = "notice"
    OBVIOUS
  <2> HIDE DEF w, f
  <2> QED
    BY <2>1, <2>3, <2>4, <2>5, HandlerReads DEF StartClosed
<1> QED
  BY <1>2, <1>3 DEF StartClosed

\* append reads the last conversation there is.
LEMMA ReadLastKeeps ==
  ASSUME Linear, ConvInv, NEW t \in Task, ReadLast(t)
  PROVE  ConvInv'
<1> DEFINE w == [pc |-> "insert", event |-> task[t].event, agent |-> task[t].agent]
           i == Newest(Existing)
           f == [last |-> i, fresh |-> frame[t].fresh, seen |-> frame[t].seen]
<1>1. task[t].pc \in {"start", "append"} /\ task[t].event # "closed"
  BY HandlerFacts DEF ReadLast, At, Placed
<1>2. w \in Slot /\ task' = [task EXCEPT ![t] = w]
  BY HandlerFacts, GotoSlot DEF HandlerPc, ReadLast
<1>3. i \in Existing \union {None} /\ i \in Index \union {None}
  <2>1. CASE Existing = {}
    BY <2>1 DEF Newest
  <2>2. CASE Existing # {}
    BY <2>2, HandlerFacts, NewestIn
  <2> QED
    BY <2>1, <2>2
<1>4. f \in Frame /\ frame' = [frame EXCEPT ![t] = f]
  <2> HIDE DEF i
  <2> QED
    BY <1>3, HandlerFacts, NewLocals DEF ReadLast, i
<1>5. Placed(w, f) /\ t \in Inserting
  BY <1>1, <1>3 DEF Placed, Inserting
<1> HIDE DEF w, f
<1> QED
  BY <1>2, <1>4, <1>5, HandlerReads DEF ReadLast

\* end_conversation reads the conversation it is about to save.
LEMMA EndReadKeeps ==
  ASSUME Linear, ConvInv, NEW t \in Task, EndRead(t)
  PROVE  ConvInv'
<1> DEFINE w == [pc |-> "save", event |-> task[t].event, agent |-> task[t].agent]
           c == conv[frame[t].last]
           f == [last |-> frame[t].last, fresh |-> frame[t].fresh, seen |-> c]
<1>1. task[t].pc = "end" /\ frame[t].last \in Existing
  BY HandlerFacts DEF EndRead, At, Placed
<1>2. w \in Slot /\ task' = [task EXCEPT ![t] = w]
  BY HandlerFacts, GotoSlot DEF HandlerPc, EndRead
<1>3. c \in Conversation /\ c.exists /\ c.parent = frame[t].last - 1
  BY <1>1, HandlerFacts DEF ConvInv, Chain, Existing
<1>4. f \in Frame /\ frame' = [frame EXCEPT ![t] = f]
  <2> HIDE DEF c
  <2> QED
    BY ZenonT(60), <1>3, HandlerFacts, NewLocals DEF EndRead, c
<1>5. Placed(w, f)
  <2> HIDE DEF c
  <2> QED
    BY <1>1, <1>3, HandlerFacts DEF Placed, Fresh
<1>6. w.pc = "save"
  OBVIOUS
<1> HIDE DEF w, f
<1> QED
  BY <1>2, <1>4, <1>5, <1>6, HandlerReads DEF EndRead

\* A conversation that is written over keeps its place in the chain.
LEMMA Rewritten ==
  ASSUME ConvInv, NEW i \in Index, NEW c \in Conversation,
         conv' = [conv EXCEPT ![i] = c],
         c.exists = conv[i].exists, conv[i].exists => c.parent = conv[i].parent,
         (conv[i].open => c.open) \/ i + 1 \in Existing \/ "closed" \in fired
  PROVE  /\ conv' \in [Index -> Conversation]
         /\ \A j \in Index : /\ conv'[j].exists = conv[j].exists
                             /\ conv[j].exists => conv'[j].parent = conv[j].parent
         /\ \A j \in Existing : \/ conv[j].open => conv'[j].open
                                \/ j + 1 \in Existing
                                \/ "closed" \in fired
<1>1. conv \in [Index -> Conversation]
  BY DEF ConvInv, ConvTypeOK
<1>2. conv' \in [Index -> Conversation]
  BY <1>1
<1>3. \A j \in Index : conv'[j] = IF j = i THEN c ELSE conv[j]
  BY <1>1
<1>4. Existing \subseteq Index
  BY DEF Existing
<1> QED
  BY <1>2, <1>3, <1>4

\* $set of the agent touches nothing else.
LEMMA AgentField ==
  ASSUME NEW c \in Conversation, NEW a \in AnyAgent
  PROVE  /\ [c EXCEPT !.agent = a] \in Conversation
         /\ [c EXCEPT !.agent = a].exists = c.exists
         /\ [c EXCEPT !.agent = a].parent = c.parent
         /\ [c EXCEPT !.agent = a].open = c.open
  BY DEF Conversation

\* $push of a message touches nothing else.
LEMMA MessagesField ==
  ASSUME NEW c \in Conversation,
         NEW M \in SUBSET (Message \union Notice)
  PROVE  /\ [c EXCEPT !.messages = M] \in Conversation
         /\ [c EXCEPT !.messages = M].exists = c.exists
         /\ [c EXCEPT !.messages = M].parent = c.parent
         /\ [c EXCEPT !.messages = M].open = c.open
  BY DEF Conversation

\* $push of a child touches nothing else.
LEMMA ChildrenField ==
  ASSUME NEW c \in Conversation, NEW K \in SUBSET Index
  PROVE  /\ [c EXCEPT !.children = K] \in Conversation
         /\ [c EXCEPT !.children = K].exists = c.exists
         /\ [c EXCEPT !.children = K].parent = c.parent
         /\ [c EXCEPT !.children = K].open = c.open
  BY DEF Conversation

\* Finishing a copy only sets its end.
LEMMA ClosedField ==
  ASSUME NEW c \in Conversation
  PROVE  /\ [c EXCEPT !.open = FALSE] \in Conversation
         /\ [c EXCEPT !.open = FALSE].exists = c.exists
         /\ [c EXCEPT !.open = FALSE].parent = c.parent
         /\ [c EXCEPT !.open = FALSE].open = FALSE
  BY DEF Conversation

\* attribute_agent names the agent of the event.
LEMMA AttributeKeeps ==
  ASSUME Linear, ConvInv, NEW t \in Task, AttributeAgent(t)
  PROVE  ConvInv'
<1> DEFINE w == [pc |-> "notice", event |-> task[t].event, agent |-> task[t].agent]
           i == frame[t].last
           c == [conv[i] EXCEPT !.agent = task[t].agent]
<1>1. task[t].pc = "assign" /\ task[t].event = "assignee" /\ i \in Existing /\ i \in Index
  BY HandlerFacts DEF AttributeAgent, At, Placed
<1>2. w \in Slot /\ task' = [task EXCEPT ![t] = w]
  BY HandlerFacts, GotoSlot DEF HandlerPc, AttributeAgent
<1>3. frame[t] \in Frame /\ frame' = [frame EXCEPT ![t] = frame[t]]
  BY HandlerFacts DEF AttributeAgent, ConvInv, ConvTypeOK
<1>4. Placed(w, frame[t])
  BY <1>1 DEF Placed
<1>5. conv' = [conv EXCEPT ![i] = c]
  BY DEF AttributeAgent
<1>6. conv[i] \in Conversation /\ task[t].agent \in AnyAgent
  BY <1>1, HandlerFacts DEF Slot
<1>7. /\ c \in Conversation /\ c.exists = conv[i].exists
      /\ c.parent = conv[i].parent /\ c.open = conv[i].open
  BY <1>6, AgentField
<1>8. w.pc = "notice"
  OBVIOUS
<1> HIDE DEF w, c
<1>9. UNCHANGED <<pending, joined, sent, fired>>
  BY DEF AttributeAgent
<1> QED
  BY <1>1, <1>2, <1>3, <1>4, <1>5, <1>7, <1>8, <1>9, Rewritten, HandlerMoves

\* The notice is pushed; an assignment ends there.
LEMMA PushKeeps ==
  ASSUME Linear, ConvInv, NEW t \in Task, PushNotice(t)
  PROVE  ConvInv'
<1> DEFINE w == [pc |-> "end", event |-> task[t].event, agent |-> task[t].agent]
           i == frame[t].last
           M == conv[i].messages \union {NoticeOf(task[t].event)}
           c == [conv[i] EXCEPT !.messages = M]
<1>1. task[t].pc = "notice" /\ i \in Existing /\ i \in Index
  BY HandlerFacts DEF PushNotice, At, Placed
<1>2. conv[i] \in Conversation
  BY <1>1, HandlerFacts
<1>3. M \subseteq Message \union Notice
  <2>1. NoticeOf(task[t].event) \in Notice
    BY DEF NoticeOf, Notice
  <2> QED
    BY <1>2, <2>1 DEF Conversation
<1>4. conv' = [conv EXCEPT ![i] = c]
  BY DEF PushNotice
<1>5. /\ c \in Conversation /\ c.exists = conv[i].exists
      /\ c.parent = conv[i].parent /\ c.open = conv[i].open
  <2> HIDE DEF M
  <2> QED
    BY <1>2, <1>3, MessagesField
<1>6. UNCHANGED <<pending, joined, sent, fired>>
  BY DEF PushNotice
<1> HIDE DEF c
<1>7. CASE task[t].event = "assignee"
  <2>1. task' = [task EXCEPT ![t] = FreeSlot] /\ frame' = [frame EXCEPT ![t] = EmptyFrame]
    BY <1>7 DEF PushNotice, Finish, End
  <2>2. FreeSlot.pc = "free"
    BY DEF FreeSlot
  <2> QED
    BY <1>1, <1>4, <1>5, <1>6, <2>1, <2>2, Emptied, EndedPlace, Rewritten, HandlerMoves
<1>8. CASE task[t].event # "assignee"
  <2>1. w \in Slot /\ task' = [task EXCEPT ![t] = w]
    BY <1>8, HandlerFacts, GotoSlot DEF HandlerPc, PushNotice
  <2>2. frame[t] \in Frame /\ frame' = [frame EXCEPT ![t] = frame[t]]
    BY <1>8, HandlerFacts DEF PushNotice, ConvInv, ConvTypeOK
  <2>3. Placed(w, frame[t])
    BY <1>1, <1>8, HandlerFacts DEF Placed
  <2>4. w.pc = "end"
    OBVIOUS
  <2> HIDE DEF w
  <2> QED
    BY <1>1, <1>4, <1>5, <1>6, <2>1, <2>2, <2>3, <2>4, Rewritten, HandlerMoves
<1> QED
  BY <1>7, <1>8

\* end_conversation saves: what it closes has a successor, unless the ticket
\* was closed.
LEMMA EndSaveKeeps ==
  ASSUME Linear, ConvInv, NEW t \in Task, EndSave(t)
  PROVE  ConvInv'
<1> DEFINE w == [pc |-> "child", event |-> task[t].event, agent |-> task[t].agent]
           i == frame[t].last
           c == [frame[t].seen EXCEPT !.open = FALSE]
<1>1. /\ task[t].pc = "save" /\ i \in Existing /\ i \in Index
      /\ frame[t].seen.exists /\ frame[t].seen.parent = i - 1
  BY HandlerFacts DEF EndSave, At, Placed
<1>2. conv[i].exists /\ conv[i].parent = i - 1
  BY <1>1 DEF Existing, ConvInv, Chain
<1>3. /\ c \in Conversation /\ c.exists = frame[t].seen.exists
      /\ c.parent = frame[t].seen.parent
  BY HandlerFacts, ClosedField
<1>4. c.exists = conv[i].exists /\ c.parent = conv[i].parent
  <2>1. conv[i] \in Conversation /\ frame[t].seen \in Conversation
    BY <1>1, HandlerFacts
  <2> HIDE DEF c
  <2> QED
    BY <1>1, <1>2, <1>3, <2>1 DEF Conversation
<1>5. conv' = [conv EXCEPT ![i] = c]
  BY DEF EndSave
<1>6. i + 1 \in Existing \/ "closed" \in fired
  BY <1>1, HandlerFacts DEF Placed, Fresh
<1>7. UNCHANGED <<pending, joined, sent, fired>>
  BY DEF EndSave
<1> HIDE DEF c
<1>8. CASE task[t].event = "closed"
  <2>1. task' = [task EXCEPT ![t] = FreeSlot] /\ frame' = [frame EXCEPT ![t] = EmptyFrame]
    BY <1>8 DEF EndSave, Finish, End
  <2>2. FreeSlot.pc = "free"
    BY DEF FreeSlot
  <2> QED
    BY <1>1, <1>3, <1>4, <1>5, <1>6, <1>7, <2>1, <2>2, Emptied, EndedPlace, Rewritten,
       HandlerMoves
<1>9. CASE task[t].event # "closed"
  <2>1. w \in Slot /\ task' = [task EXCEPT ![t] = w]
    BY <1>9, HandlerFacts, GotoSlot DEF HandlerPc, EndSave
  <2>2. frame[t] \in Frame /\ frame' = [frame EXCEPT ![t] = frame[t]]
    BY <1>9, HandlerFacts DEF EndSave, ConvInv, ConvTypeOK
  <2>3. Placed(w, frame[t])
    BY <1>1, <1>9, HandlerFacts DEF Placed
  <2>4. w.pc = "child"
    OBVIOUS
  <2> HIDE DEF w
  <2> QED
    BY <1>1, <1>3, <1>4, <1>5, <1>6, <1>7, <2>1, <2>2, <2>3, <2>4, Rewritten, HandlerMoves
<1> QED
  BY <1>8, <1>9

\* add_child links the old conversation to the new one.
LEMMA AddChildKeeps ==
  ASSUME Linear, ConvInv, NEW t \in Task, AddChild(t)
  PROVE  ConvInv'
<1> DEFINE w == [pc |-> "attach", event |-> task[t].event, agent |-> task[t].agent]
           i == frame[t].last
           K == conv[i].children \union {frame[t].fresh}
           c == [conv[i] EXCEPT !.children = K]
<1>1. /\ task[t].pc = "child" /\ i \in Existing /\ i \in Index /\ frame[t].fresh \in Index
      /\ task[t].event # "closed"
  BY HandlerFacts DEF AddChild, At, Placed, Fresh
<1>2. conv[i] \in Conversation
  BY <1>1, HandlerFacts
<1>3. K \subseteq Index
  BY <1>1, <1>2 DEF Conversation
<1>4. conv' = [conv EXCEPT ![i] = c]
  BY DEF AddChild
<1>5. /\ c \in Conversation /\ c.exists = conv[i].exists
      /\ c.parent = conv[i].parent /\ c.open = conv[i].open
  <2> HIDE DEF K
  <2> QED
    BY <1>2, <1>3, ChildrenField
<1>6. UNCHANGED <<pending, joined, sent, fired>>
  BY DEF AddChild
<1>7. w \in Slot /\ task' = [task EXCEPT ![t] = w]
  BY HandlerFacts, GotoSlot DEF HandlerPc, AddChild
<1>8. frame[t] \in Frame /\ frame' = [frame EXCEPT ![t] = frame[t]]
  BY HandlerFacts DEF AddChild, ConvInv, ConvTypeOK
<1>9. Placed(w, frame[t]) /\ w.pc = "attach"
  BY <1>1 DEF Placed
<1> HIDE DEF w, c
<1> QED
  BY <1>1, <1>4, <1>5, <1>6, <1>7, <1>8, <1>9, Rewritten, HandlerMoves

-----------------------------------------------------------------------------
(* New conversations.                                                      *)

\* A conversation inserted after p, where there was none, is the new end of the
\* chain, and open.
LEMMA ChainGrows ==
  ASSUME Linear, ConvInv, NEW a \in AnyAgent, NEW p \in Existing \union {None},
         p + 1 \in Index, ~conv[p + 1].exists,
         conv' = [conv EXCEPT ![p + 1] = NewConversation(a, p)],
         p + 1 + Cardinality(Inserting') <= MaxIndex
  PROVE  /\ conv' \in [Index -> Conversation]
         /\ Existing' = Existing \union {p + 1}
         /\ Chain' /\ Room' /\ NewestOpen'
<1>1. PICK k \in Index \union {None} :
        Existing = 0..k /\ k \in Int /\ MaxIndex \in Nat
  BY ChainEnd
<1>2. p + 1 \notin Existing
  BY DEF Existing
<1>3. p \in Int /\ p = k /\ k + 1 \in Index
  BY <1>1, <1>2 DEF None, Index
<1> DEFINE c == NewConversation(a, p)
<1>4. c \in Conversation /\ c.exists /\ c.open /\ c.parent = p
  <2>1. p \in Index \union {None}
    BY <1>1 DEF Existing
  <2> QED
    BY <2>1 DEF NewConversation, Conversation
<1> HIDE DEF c
<1>5. conv' \in [Index -> Conversation]
      /\ \A i \in Index : conv'[i] = IF i = k + 1 THEN c ELSE conv[i]
  BY <1>3, <1>4 DEF ConvInv, ConvTypeOK, c
<1>6. Existing' = Existing \union {k + 1}
  BY <1>3, <1>4, <1>5 DEF Existing
<1>7. Existing' = 0..(k + 1)
  BY <1>1, <1>3, <1>6 DEF Index
<1>8. Chain'
  <2>1. \A i \in Existing' : conv'[i].parent = i - 1
    <3>1. \A i \in Existing : i \in Index /\ i # k + 1
      BY <1>2, <1>3 DEF Existing
    <3>2. conv'[k + 1].parent = (k + 1) - 1
      BY <1>1, <1>3, <1>4, <1>5
    <3>3. \A i \in Existing : conv'[i].parent = i - 1
      BY <1>5, <3>1 DEF ConvInv, Chain
    <3> QED
      BY <1>6, <3>2, <3>3
  <2> QED
    BY <1>3, <1>7, <2>1 DEF Chain
<1>9. Newest(Existing') = k + 1
  BY <1>3, <1>7, NewestOfChain
<1>10. Room'
  <2>1. Newest(Existing') + Cardinality(Inserting') <= MaxIndex
    BY <1>3, <1>9
  <2> QED
    BY <2>1 DEF Room, Newest
<1>11. NewestOpen'
  <2>1. k + 1 \in Existing' /\ conv'[k + 1].open
    BY <1>3, <1>4, <1>5, <1>6
  <2>2. Newest(Existing') \in {i \in Existing' : conv'[i].open}
    BY <1>9, <2>1
  <2>3. Newest(Existing)' = Newest(Existing')
    BY DEF Newest
  <2> QED
    BY <2>2, <2>3 DEF NewestOpen, OpenOnes
<1> QED
  BY <1>3, <1>5, <1>6, <1>8, <1>10, <1>11

\* There is an index left for what a handler is about to insert.
LEMMA InsertIndex ==
  ASSUME Linear, ConvInv, NEW t \in Task, At(t, "insert")
  PROVE  frame[t].last + 1 \in Index
<1> DEFINE p == frame[t].last
           x == Cardinality(Inserting)
<1>1. p \in Existing \union {None} /\ t \in Inserting
  BY HandlerFacts DEF At, Placed, Inserting
<1>2. PICK k \in Index \union {None} :
        Existing = 0..k /\ k \in Int /\ MaxIndex \in Nat /\ k + x <= MaxIndex
  BY ChainEnd
<1>3. x \in Nat /\ x # 0
  <2>1. IsFiniteSet(Inserting)
    BY Fewer DEF Linear, Inserting
  <2> QED
    BY <1>1, <2>1, FS_EmptySet, FS_CardinalityType
<1>4. p \in Int /\ p >= -1 /\ p <= k
  BY <1>1, <1>2 DEF None, Index
<1> HIDE DEF x, p
<1>5. p + 1 \in 0..MaxIndex
  BY <1>2, <1>3, <1>4
<1> QED
  BY <1>5 DEF p, Index

\* append inserts after the conversation it found last, or fails.
LEMMA InsertKeeps ==
  ASSUME Linear, ConvInv, NEW t \in Task, Insert(t)
  PROVE  ConvInv'
<1> DEFINE p == frame[t].last
           n == p + 1
           pc == IF p = None THEN "attach"
                 ELSE IF task[t].event = "escalated" THEN "notice" ELSE "end"
           w == [pc |-> pc, event |-> task[t].event, agent |-> task[t].agent]
           f == [last |-> p, fresh |-> n, seen |-> frame[t].seen]
<1>1. /\ task[t].pc = "insert" /\ task[t].event # "closed"
      /\ p \in Existing \union {None}
  BY HandlerFacts DEF Insert, At, Placed
<1>2. PICK k \in Index \union {None} :
        /\ Existing = 0..k /\ k \in Int /\ MaxIndex \in Nat
        /\ k + Cardinality(Inserting) <= MaxIndex
  BY ChainEnd
<1>3. t \in Inserting
  BY <1>1 DEF Inserting
<1>4. CASE conv[n].exists
  BY <1>4, HandlerFinishes DEF Insert, chatVars
<1>5. CASE ~conv[n].exists
  <2>1. w \in Slot /\ task' = [task EXCEPT ![t] = w]
    <3>1. Goto(t, pc) /\ pc \in HandlerPc
      BY <1>5 DEF Insert, HandlerPc
    <3> HIDE DEF pc
    <3> QED
      BY <3>1, HandlerFacts, GotoSlot
  <2>2. \A o \in Task \ {t} : task'[o] = task[o]
    BY <2>1
  <2>3. task'[t] = w
    BY <2>1, HandlerFacts DEF BusTypeOK
  <2>4. Inserting' \subseteq Inserting \ {t}
    BY <2>2, <2>3 DEF Inserting
  <2>5. /\ Cardinality(Inserting') \in Nat
        /\ Cardinality(Inserting') + 1 <= Cardinality(Inserting)
    <3>1. IsFiniteSet(Inserting) /\ Cardinality(Inserting) \in Nat
      BY Fewer DEF Linear, Inserting
    <3>2. Cardinality(Inserting \ {t}) = Cardinality(Inserting) - 1
      BY <1>3, <3>1, FS_RemoveElement
    <3>3. /\ Cardinality(Inserting') \in Nat /\ Cardinality(Inserting \ {t}) \in Nat
          /\ Cardinality(Inserting') <= Cardinality(Inserting \ {t})
      BY <2>4, Fewer DEF Linear, Inserting
    <3> QED
      BY <3>1, <3>2, <3>3
  <2>6. p \in Int /\ p <= k
    BY <1>1, <1>2 DEF None, Index
  <2>7. n \in Index /\ n + Cardinality(Inserting') <= MaxIndex
    <3> DEFINE x == Cardinality(Inserting)
               y == Cardinality(Inserting')
    <3>1. p >= -1
      BY <1>1, <1>2 DEF None
    <3>2. y \in Nat /\ x \in Nat /\ y + 1 <= x /\ k + x <= MaxIndex
      <4>1. x \in Nat
        BY Fewer DEF Linear, Inserting
      <4> QED
        BY <1>2, <2>5, <4>1
    <3> HIDE DEF x, y
    <3>3. n \in 0..MaxIndex /\ n + y <= MaxIndex
      <4> HIDE DEF p
      <4> QED
        BY <1>2, <2>6, <3>1, <3>2
    <3> QED
      BY <3>3 DEF Index, y
  <2>8. conv' = [conv EXCEPT ![n] = NewConversation(task[t].agent, p)]
    BY <1>5 DEF Insert
  <2>9. task[t].agent \in AnyAgent
    BY HandlerFacts DEF Slot
  <2>10. /\ conv' \in [Index -> Conversation]
         /\ Existing' = Existing \union {n}
         /\ Chain' /\ Room' /\ NewestOpen'
    BY <1>1, <1>5, <2>7, <2>8, <2>9, ChainGrows
  <2>11. f \in Frame /\ frame' = [frame EXCEPT ![t] = f]
    <3>1. frame' = [frame EXCEPT ![t].fresh = n]
      BY <1>5 DEF Insert
    <3> HIDE DEF n
    <3> QED
      BY <2>7, <3>1, HandlerFacts, NewLocals
  <2>12. ConvTypeOK'
    <3>1. BusTypeOK'
      BY <1>5, <2>1, HandlerFacts DEF BusTypeOK, Slot, AnyAgent, Insert
    <3>2. frame' \in [Task -> Frame]
      BY <2>11 DEF ConvInv, ConvTypeOK
    <3>3. UNCHANGED <<pending, joined, sent>>
      BY DEF Insert
    <3> QED
      BY <2>10, <3>1, <3>2, <3>3 DEF ConvInv, ConvTypeOK
  <2>13. ASSUME NEW o \in Task PROVE Place(o)'
    <3>1. fired' = fired
      BY DEF Insert
    <3>2. CASE o # t
      <4>1. task'[o] = task[o] /\ frame'[o] = frame[o]
        BY <2>2, <2>11, <3>2
      <4>2. Placed(task[o], frame[o])
        BY DEF ConvInv, Place
      <4> QED
        BY <2>10, <3>1, <4>1, <4>2 DEF Place, Placed, Fresh
    <3>3. CASE o = t
      <4>1. frame'[t] = f
        BY <2>11 DEF ConvInv, ConvTypeOK
      <4>2. f.last = p /\ f.fresh = p + 1 /\ f.fresh \in Existing'
        BY <2>10
      <4>3. w.pc = pc /\ w.event = task[t].event
        OBVIOUS
      <4>4. task[t].event \in Event
        BY HandlerFacts
      <4>5. p # None => p \in Existing'
        BY <1>1, <2>10
      <4>6. w.event = "assignee" => w.pc # "assign"
        OBVIOUS
      <4> HIDE DEF w, f
      <4> QED
        BY <1>1, <2>3, <3>3, <4>1, <4>2, <4>3, <4>4, <4>5 DEF Place, Placed, Fresh
    <3> QED
      BY <3>2, <3>3
  <2> QED
    BY <2>10, <2>12, <2>13 DEF ConvInv
<1> QED
  BY <1>4, <1>5

\* A client posts the first conversation.
LEMMA CreateRouteKeeps ==
  ASSUME Linear, ConvInv, CreateRoute
  PROVE  ConvInv'
<1>1. PICK i \in ManualIndex, p \in Existing \union {None}, a \in AnyAgent :
        /\ ~conv[i].exists
        /\ i + Cardinality(Inserting) <= MaxIndex
        /\ conv' = [conv EXCEPT ![i] = NewConversation(a, p)]
  BY DEF CreateRoute
<1>2. UNCHANGED <<frame, pending, joined, sent, task, fired>>
  BY DEF CreateRoute, busVars
<1>3. Inserting' = Inserting
  BY <1>2 DEF Inserting
<1>4. i = 0 /\ 0 \in Index
  BY ConversationsAssumption DEF Linear, Index
<1>5. Existing = {}
  <2>1. PICK k \in Index \union {None} : Existing = 0..k /\ k \in Int
    BY ChainEnd
  <2>2. 0 \notin Existing
    BY <1>1, <1>4 DEF Existing
  <2> QED
    BY <2>1, <2>2
<1>6. p = None /\ p + 1 = i
  BY <1>4, <1>5 DEF None
<1>7. /\ conv' \in [Index -> Conversation]
      /\ Existing' = Existing \union {p + 1}
      /\ Chain' /\ Room' /\ NewestOpen'
  <2>1. /\ p + 1 \in Index /\ ~conv[p + 1].exists
        /\ conv' = [conv EXCEPT ![p + 1] = NewConversation(a, p)]
        /\ p + 1 + Cardinality(Inserting') <= MaxIndex
    BY <1>1, <1>3, <1>4, <1>6
  <2> QED
    BY <2>1, ChainGrows
<1>8. ConvTypeOK'
  BY <1>2, <1>7 DEF ConvInv, ConvTypeOK, BusTypeOK
<1>9. \A t \in Task : Place(t)'
  BY <1>2, <1>7 DEF ConvInv, Place, Placed, Fresh
<1> QED
  BY <1>7, <1>8, <1>9 DEF ConvInv

-----------------------------------------------------------------------------
(* The other routes, the sockets, the events and the restart.              *)

\* A step that runs no handler and writes at most over one conversation.
LEMMA RouteKeeps ==
  ASSUME Linear, ConvInv, UNCHANGED <<frame, task, fired>>,
         pending' \subseteq Pending, joined' \subseteq Existing, sent' \subseteq Message \X Index,
         conv' \in [Index -> Conversation],
         \A j \in Index : /\ conv'[j].exists = conv[j].exists
                          /\ conv[j].exists => conv'[j].parent = conv[j].parent,
         \A j \in Existing : \/ conv[j].open => conv'[j].open
                             \/ j + 1 \in Existing
                             \/ "closed" \in fired
  PROVE  ConvInv'
<1>1. Inserting' \subseteq Inserting
  BY DEF Inserting
<1>2. Existing' = Existing /\ Chain' /\ Room' /\ NewestOpen'
  BY <1>1, ChainKept
<1>3. ConvTypeOK'
  BY <1>2 DEF ConvInv, ConvTypeOK, BusTypeOK
<1>4. \A t \in Task : Place(t)'
  BY <1>2 DEF ConvInv, Place, Placed, Fresh
<1> QED
  BY <1>2, <1>3, <1>4 DEF ConvInv

\* The routes that set an agent and the sockets keep the invariant.
LEMMA RoutesKeep ==
  ASSUME Linear, ConvInv, RouteStep
  PROVE  ConvInv'
<1>1. /\ conv \in [Index -> Conversation] /\ Existing \subseteq Index
      /\ OpenOnes \subseteq Existing
      /\ pending \subseteq Pending /\ joined \subseteq Existing /\ sent \subseteq Message \X Index
  BY DEF ConvInv, ConvTypeOK, Existing, OpenOnes
<1>2. ASSUME conv' = conv, UNCHANGED <<frame, task, fired>>,
             pending' \subseteq Pending, joined' \subseteq Existing, sent' = sent
      PROVE  ConvInv'
  BY <1>1, <1>2, RouteKeeps
<1>3. CASE CreateRoute
  BY <1>3, CreateRouteKeeps
<1>4. ASSUME NEW i \in Index, NEW a \in Agent, AssumeCheck(i, a) \/ SetAgentCheck(i, a)
      PROVE  ConvInv'
  <2>1. PICK b \in {"assume", "admin"} : AddPending([by |-> b, conv |-> i, agent |-> a])
    BY <1>4 DEF AssumeCheck, SetAgentCheck
  <2>2. [by |-> b, conv |-> i, agent |-> a] \in Pending
    BY DEF Pending
  <2> QED
    BY <1>1, <1>2, <2>1, <2>2 DEF AddPending, busVars
<1>5. ASSUME NEW p \in pending, WriteAgent(p) PROVE ConvInv'
  <2> DEFINE c == [conv[p.conv] EXCEPT !.agent = p.agent]
  <2>1. p.conv \in Index /\ p.agent \in AnyAgent
    BY <1>1 DEF Pending, AnyAgent
  <2>2. /\ c \in Conversation /\ c.exists = conv[p.conv].exists
        /\ c.parent = conv[p.conv].parent /\ c.open = conv[p.conv].open
    BY <1>1, <2>1, AgentField
  <2>3. /\ conv' = [conv EXCEPT ![p.conv] = c]
        /\ pending' \subseteq Pending /\ joined' = joined /\ sent' = sent
        /\ UNCHANGED <<frame, task, fired>>
    BY <1>1, <1>5 DEF WriteAgent, busVars
  <2> HIDE DEF c
  <2> QED
    BY <1>1, <2>1, <2>2, <2>3, Rewritten, RouteKeeps
<1>6. ASSUME NEW i \in Index, Connect(i) \/ Disconnect(i) PROVE ConvInv'
  BY <1>1, <1>2, <1>6 DEF Connect, Disconnect, busVars
<1>7. ASSUME NEW m \in Message, NEW i \in Index, Say(m, i) PROVE ConvInv'
  <2> DEFINE M == conv[i].messages \union {m}
             c == [conv[i] EXCEPT !.messages = M]
  <2>1. M \subseteq Message \union Notice
    BY <1>1 DEF Conversation
  <2>2. /\ c \in Conversation /\ c.exists = conv[i].exists
        /\ c.parent = conv[i].parent /\ c.open = conv[i].open
    <3> HIDE DEF M
    <3> QED
      BY <1>1, <2>1, MessagesField
  <2>3. /\ conv' = [conv EXCEPT ![i] = c]
        /\ pending' = pending /\ joined' = joined /\ sent' \subseteq Message \X Index
        /\ UNCHANGED <<frame, task, fired>>
    BY <1>1, <1>7 DEF Say, busVars
  <2> HIDE DEF c
  <2> QED
    BY <1>1, <2>2, <2>3, Rewritten, RouteKeeps
<1> QED
  BY <1>3, <1>4, <1>5, <1>6, <1>7 DEF RouteStep

\* Publishing an event keeps the invariant if its handler has an index left.
LEMMA PublishKeeps ==
  ASSUME Linear, ConvInv, NEW e \in Event, NEW a \in AnyAgent, Publish(e, a),
         UNCHANGED convVars, Room'
  PROVE  ConvInv'
<1>1. UNCHANGED <<conv, frame, pending, joined, sent>>
  BY DEF convVars
<1>2. fired' = fired \union {e} /\ fired' \subseteq Event
  BY DEF Publish, ConvInv, ConvTypeOK, BusTypeOK
<1>3. Existing' = Existing /\ Chain' /\ NewestOpen'
  BY <1>1, <1>2 DEF ConvInv, Existing, Chain, NewestOpen, OpenOnes, Newest
<1>4. CASE e \in Subscribed
  <2> DEFINE w == [pc |-> "start", event |-> e, agent |-> a]
  <2>1. PICK t \in Task : task[t].pc = "free" /\ task' = [task EXCEPT ![t] = w]
    BY <1>4 DEF Publish
  <2>2. w \in Slot
    BY DEF Slot, HandlerPc
  <2>3. \A o \in Task : task'[o] = IF o = t THEN w ELSE task[o]
    BY <2>1 DEF ConvInv, ConvTypeOK, BusTypeOK
  <2>4. ConvTypeOK'
    <3>1. BusTypeOK'
      BY <1>2, <2>1, <2>2 DEF ConvInv, ConvTypeOK, BusTypeOK, Slot, AnyAgent
    <3> QED
      BY <1>1, <1>3, <3>1 DEF ConvInv, ConvTypeOK
  <2>5. ASSUME NEW o \in Task PROVE Place(o)'
    <3>1. CASE o = t
      <4>1. task'[o].pc = "start" /\ task'[o].event = e
        BY <2>3, <3>1
      <4> QED
        BY <1>2, <4>1 DEF Place, Placed
    <3>2. CASE o # t
      <4>1. task'[o] = task[o] /\ frame'[o] = frame[o]
        BY <1>1, <2>3, <3>2
      <4>2. Placed(task[o], frame[o])
        BY DEF ConvInv, Place
      <4> QED
        BY <1>2, <1>3, <4>1, <4>2 DEF Place, Placed, Fresh
    <3> QED
      BY <3>1, <3>2
  <2> QED
    BY <1>3, <2>4, <2>5 DEF ConvInv
<1>5. CASE e \notin Subscribed
  <2>1. task' = task
    BY <1>5 DEF Publish
  <2>2. ConvTypeOK'
    BY <1>1, <1>2, <1>3, <2>1 DEF ConvInv, ConvTypeOK, BusTypeOK
  <2>3. \A o \in Task : Place(o)'
    BY <1>1, <1>2, <1>3, <2>1 DEF ConvInv, Place, Placed, Fresh
  <2> QED
    BY <1>3, <2>2, <2>3 DEF ConvInv
<1> QED
  BY <1>4, <1>5

\* An event is raised while there is an index left for its handler.
LEMMA RaiseKeeps ==
  ASSUME Linear, ConvInv, NEW e \in Raised, Raise(e)
  PROVE  ConvInv'
<1>1. e \in Event
  BY ConversationsAssumption
<1>2. PICK a \in AnyAgent : Publish(e, a)
  BY DEF Raise, AnyAgent
<1>3. UNCHANGED convVars /\ conv' = conv
  BY DEF Raise, convVars
<1>4. Room'
  <2>1. IsFiniteSet(Inserting) /\ Cardinality(Inserting) \in Nat
    BY Fewer DEF Linear, Inserting
  <2>2. /\ Cardinality(Inserting') \in Nat
        /\ Cardinality(Inserting') <= Cardinality(Inserting) + 1
    <3>1. CASE task' = task
      <4>1. Inserting' = Inserting
        BY <3>1 DEF Inserting
      <4> QED
        BY <2>1, <4>1
    <3>2. ASSUME NEW t \in Task,
                 task' = [task EXCEPT ![t] = [pc |-> "start", event |-> e, agent |-> a]]
          PROVE  /\ Cardinality(Inserting') \in Nat
                 /\ Cardinality(Inserting') <= Cardinality(Inserting) + 1
      <4> DEFINE x == Cardinality(Inserting)
                 y == Cardinality(Inserting \union {t})
                 z == Cardinality(Inserting')
      <4>1. Inserting' \subseteq Inserting \union {t} /\ Inserting \union {t} \subseteq Task
        BY <3>2 DEF ConvInv, ConvTypeOK, BusTypeOK, Inserting
      <4>2. y \in {x, x + 1}
        BY <2>1, FS_AddElement
      <4>3. z \in Nat /\ z <= y
        BY <4>1, Fewer DEF Linear
      <4>4. x \in Nat
        BY <2>1
      <4> HIDE DEF x, y, z
      <4>5. z \in Nat /\ z <= x + 1
        BY <4>2, <4>3, <4>4
      <4> QED
        BY <4>5 DEF x, z
    <3> QED
      BY <1>2, <3>1, <3>2 DEF Publish
  <2>3. PICK k \in Index \union {None} :
          Newest(Existing) = k /\ k \in Int /\ MaxIndex \in Nat
    BY ChainEnd
  <2>4. k + Cardinality(Inserting) + 1 <= MaxIndex
    BY <2>3 DEF Raise, HasIndex
  <2>5. Existing' = Existing
    BY <1>3 DEF Existing
  <2>6. Newest(Existing') + Cardinality(Inserting') <= MaxIndex
    BY <2>1, <2>2, <2>3, <2>4, <2>5
  <2> QED
    BY <2>6 DEF Room, Newest
<1> QED
  BY <1>1, <1>2, <1>3, <1>4, PublishKeeps

\* A restart leaves the documents, and no handler.
LEMMA StopKeeps ==
  ASSUME Linear, ConvInv, TasksLost, ConversationsLost, UNCHANGED fired
  PROVE  ConvInv'
<1>1. /\ conv' = conv /\ sent' = sent /\ fired' = fired /\ pending' = {} /\ joined' = {}
      /\ task' = [t \in Task |-> FreeSlot] /\ frame' = [t \in Task |-> EmptyFrame]
  BY DEF TasksLost, ConversationsLost
<1>2. Inserting' \subseteq Inserting
  <2>1. FreeSlot.pc = "free"
    BY DEF FreeSlot
  <2> QED
    BY <1>1, <2>1 DEF Inserting
<1>3. conv \in [Index -> Conversation]
  BY DEF ConvInv, ConvTypeOK
<1>4. Existing' = Existing /\ Chain' /\ Room' /\ NewestOpen'
  BY <1>1, <1>2, <1>3, ChainKept
<1>5. ConvTypeOK'
  BY <1>1, <1>4, Emptied DEF ConvInv, ConvTypeOK, BusTypeOK, Slot, AnyAgent
<1>6. \A t \in Task : Place(t)'
  BY <1>1 DEF Place, Placed, FreeSlot
<1> QED
  BY <1>4, <1>5, <1>6 DEF ConvInv

-----------------------------------------------------------------------------
(* The theorems.                                                           *)

\* Before the ticket is created there is no conversation.
LEMMA ConvStarts == Linear /\ ConvInit /\ BusInit => ConvInv
<1> SUFFICES ASSUME Linear, ConvInit, BusInit PROVE ConvInv
  OBVIOUS
<1>1. NoConversation \in Conversation /\ ~NoConversation.exists
  BY DEF NoConversation, NewConversation, Conversation, AnyAgent, None
<1>2. Existing = {}
  BY <1>1 DEF ConvInit, Existing
<1>3. ConvTypeOK
  BY <1>1, Emptied DEF ConvInit, BusInit, ConvTypeOK, BusTypeOK, Slot, AnyAgent
<1>4. Existing = 0..None
  BY <1>2 DEF None
<1>5. Chain /\ NewestOpen
  BY <1>2, <1>4 DEF Chain, NewestOpen
<1>6. Room
  <2>1. Inserting = {}
    BY DEF BusInit, Inserting, FreeSlot
  <2>2. Newest(Existing) = -1
    BY <1>2 DEF Newest, None
  <2> QED
    BY <2>1, <2>2, FS_EmptySet, ConversationsAssumption DEF Room
<1>7. \A t \in Task : Place(t)
  BY DEF BusInit, Place, Placed, FreeSlot
<1> QED
  BY <1>3, <1>5, <1>6, <1>7 DEF ConvInv

\* Every step keeps the invariant.
LEMMA ListenerKeeps == Linear /\ ConvInv /\ [ListenerNext]_convSpecVars => ConvInv'
<1> SUFFICES ASSUME Linear, ConvInv, [ListenerNext]_convSpecVars PROVE ConvInv'
  OBVIOUS
<1>1. CASE \E e \in Raised : Raise(e)
  BY <1>1, RaiseKeeps
<1>2. ASSUME NEW t \in Task, HandlerStep(t) PROVE ConvInv'
  BY <1>2, StartCreatedKeeps, StartAssigneeKeeps, StartClosedKeeps, ReadLastKeeps,
     InsertKeeps, AttributeKeeps, PushKeeps, EndReadKeeps, EndSaveKeeps, AddChildKeeps
     DEF HandlerStep
<1>3. ASSUME NEW t \in Task, Attached(t) \/ HandlerFails(t) PROVE ConvInv'
  BY <1>3, HandlerFinishes DEF Attached, HandlerFails
<1>4. CASE RouteStep
  BY <1>4, RoutesKeep
<1>5. CASE ProcessStops
  BY <1>5, StopKeeps DEF ProcessStops
<1>6. CASE UNCHANGED convSpecVars
  BY <1>6 DEF convSpecVars, convVars, busVars, ConvInv, ConvTypeOK, BusTypeOK, Chain, Room,
     NewestOpen, Place, Placed, Fresh, Existing, OpenOnes, Inserting, Newest
<1> QED
  BY <1>1, <1>2, <1>3, <1>4, <1>5, <1>6 DEF ListenerNext, ListenerStep

\* What handlers know at their awaits, and the shape of the chain, hold in every
\* reachable state of ConversationListener, its routes and its sockets, failing
\* handlers and restarts included.
THEOREM ConversationsInvariant == Linear => (ListenerSpec => []ConvInv)
<1> SUFFICES ASSUME Linear PROVE ListenerSpec => []ConvInv
  OBVIOUS
<1>1. ConvInit /\ BusInit => ConvInv
  BY ConvStarts
<1>2. ConvInv /\ [ListenerNext]_convSpecVars => ConvInv'
  BY ListenerKeeps
<1> QED
  BY <1>1, <1>2, PTL DEF ListenerSpec

\* Documents, handler locals, sockets and tasks keep their shape.
THEOREM ConversationTypes == Linear => (ListenerSpec => []ConvTypeOK)
<1> SUFFICES ASSUME Linear PROVE ListenerSpec => []ConvTypeOK
  OBVIOUS
<1>1. ConvInv => ConvTypeOK
  BY DEF ConvInv
<1> QED
  BY <1>1, ConversationsInvariant, PTL

\* The chain of the invariant is what ChainLinked asks for.
LEMMA ChainHasNoGap == ConvInv => ChainLinked
<1> SUFFICES ASSUME ConvInv, NEW i \in Existing
             PROVE  conv[i].parent = i - 1 /\ (i > 0 => conv[i - 1].exists)
  BY DEF ChainLinked
<1>1. PICK k \in Index \union {None} : Existing = 0..k
  BY DEF ConvInv, Chain
<1>2. i > 0 => i - 1 \in Existing
  <2>1. k \in Int /\ i \in 0..k
    BY <1>1, ConversationsAssumption DEF Index, None
  <2> QED
    BY <1>1, <2>1
<1> QED
  BY <1>2 DEF ConvInv, Chain, Existing

\* append_conversation_to_ticket builds one chain however its callers race: no
\* index is missing and each conversation's parent is the one before it.
THEOREM OneChain == Linear => (ListenerSpec => []ChainLinked)
<1> SUFFICES ASSUME Linear PROVE ListenerSpec => []ChainLinked
  OBVIOUS
<1> QED
  BY ChainHasNoGap, ConversationsInvariant, PTL

\* Until the ticket is closed its newest conversation is open, wherever the
\* handlers were when one failed or the process stopped.
THEOREM NewestStaysOpen == Linear => (ListenerSpec => []NewestOpen)
<1> SUFFICES ASSUME Linear PROVE ListenerSpec => []NewestOpen
  OBVIOUS
<1>1. ConvInv => NewestOpen
  BY DEF ConvInv
<1> QED
  BY <1>1, ConversationsInvariant, PTL

\* No step of a handler, a route or a socket reopens a conversation.
LEMMA StepCloses ==
  ASSUME ConvInv, NEW i \in Existing, ~conv[i].open,
         (\E t \in Task : HandlerStep(t)) \/ RouteStep
  PROVE  ~conv'[i].open
<1>1. conv \in [Index -> Conversation] /\ i \in Index /\ conv[i].exists
  BY DEF ConvInv, ConvTypeOK, Existing
<1>2. ASSUME NEW j, NEW c, conv' = [conv EXCEPT ![j] = c], j = i => ~c.open
      PROVE  ~conv'[i].open
  BY <1>1, <1>2
<1>3. ASSUME NEW t \in Task, HandlerStep(t) PROVE ~conv'[i].open
  <2>1. CASE StartCreated(t) \/ StartAssignee(t) \/ StartClosed(t) \/ ReadLast(t) \/ EndRead(t)
    BY <2>1 DEF StartCreated, StartAssignee, StartClosed, ReadLast, EndRead, chatVars
  <2>2. CASE Insert(t)
    BY <1>1, <1>2, <2>2 DEF Insert
  <2>3. CASE AttributeAgent(t)
    <3> DEFINE j == frame[t].last
               c == [conv[j] EXCEPT !.agent = task[t].agent]
    <3>1. conv' = [conv EXCEPT ![j] = c]
      BY <2>3 DEF AttributeAgent
    <3>2. j = i => ~c.open
      BY <1>1 DEF Conversation
    <3> HIDE DEF j, c
    <3> QED
      BY <1>2, <3>1, <3>2
  <2>4. CASE PushNotice(t)
    <3> DEFINE j == frame[t].last
               c == [conv[j] EXCEPT !.messages = @ \union {NoticeOf(task[t].event)}]
    <3>1. conv' = [conv EXCEPT ![j] = c]
      BY <2>4 DEF PushNotice
    <3>2. j = i => ~c.open
      BY <1>1 DEF Conversation
    <3> HIDE DEF j, c
    <3> QED
      BY <1>2, <3>1, <3>2
  <2>5. CASE EndSave(t)
    <3> DEFINE j == frame[t].last
               c == [frame[t].seen EXCEPT !.open = FALSE]
    <3>1. conv' = [conv EXCEPT ![j] = c]
      BY <2>5 DEF EndSave
    <3>2. ~c.open
      BY HandlerFacts, ClosedField
    <3> HIDE DEF j, c
    <3> QED
      BY <1>2, <3>1, <3>2
  <2>6. CASE AddChild(t)
    <3> DEFINE j == frame[t].last
               c == [conv[j] EXCEPT !.children = @ \union {frame[t].fresh}]
    <3>1. conv' = [conv EXCEPT ![j] = c]
      BY <2>6 DEF AddChild
    <3>2. j = i => ~c.open
      BY <1>1 DEF Conversation
    <3> HIDE DEF j, c
    <3> QED
      BY <1>2, <3>1, <3>2
  <2> QED
    BY <1>3, <2>1, <2>2, <2>3, <2>4, <2>5, <2>6 DEF HandlerStep
<1>4. CASE RouteStep
  <2>1. CASE CreateRoute
    BY <1>1, <2>1 DEF CreateRoute
  <2>2. ASSUME NEW p \in pending, WriteAgent(p) PROVE ~conv'[i].open
    <3> DEFINE c == [conv[p.conv] EXCEPT !.agent = p.agent]
    <3>1. conv' = [conv EXCEPT ![p.conv] = c]
      BY <2>2 DEF WriteAgent
    <3>2. p.conv = i => ~c.open
      BY <1>1 DEF Conversation
    <3> HIDE DEF c
    <3> QED
      BY <1>2, <3>1, <3>2
  <2>3. ASSUME NEW m \in Message, NEW j \in Index, Say(m, j) PROVE ~conv'[i].open
    <3> DEFINE c == [conv[j] EXCEPT !.messages = @ \union {m}]
    <3>1. conv' = [conv EXCEPT ![j] = c]
      BY <2>3 DEF Say
    <3>2. j = i => ~c.open
      BY <1>1 DEF Conversation
    <3> HIDE DEF c
    <3> QED
      BY <1>2, <3>1, <3>2
  <2> QED
    BY <1>4, <2>1, <2>2, <2>3 DEF RouteStep, AssumeCheck, SetAgentCheck, AddPending, Connect,
       Disconnect
<1> QED
  BY <1>3, <1>4

\* A conversation that was finished stays finished: not even the stale copy that
\* end_conversation saves brings it back.
THEOREM NoneReopened == Linear => (ListenerSpec => ClosedStaysClosed)
<1> SUFFICES ASSUME Linear PROVE ListenerSpec => ClosedStaysClosed
  OBVIOUS
<1>1. ConvInv /\ [ListenerNext]_convSpecVars
        => [\A i \in Existing : ~conv[i].open => ~conv'[i].open]_convSpecVars
  <2> SUFFICES ASSUME ConvInv, ListenerNext, NEW i \in Existing, ~conv[i].open
               PROVE  ~conv'[i].open
    OBVIOUS
  <2>1. CASE (\E e \in Raised : Raise(e)) \/ ProcessStops
    BY <2>1 DEF Raise, ProcessStops, ConversationsLost, convVars
  <2>2. CASE \E t \in Task : Attached(t) \/ HandlerFails(t)
    BY <2>2 DEF Attached, HandlerFails, chatVars
  <2> QED
    BY <2>1, <2>2, StepCloses DEF ListenerNext, ListenerStep
<1> QED
  BY <1>1, ConversationsInvariant, PTL DEF ListenerSpec, ClosedStaysClosed
-----------------------------------------------------------------------------
(* Handlers that race and do not fail.  The unique index makes one of them *)
(* the successor's only inserter, and that one owes its predecessor an end *)
(* and the name of its child: RaceInv keeps the account.                   *)

\* The handler w with the locals f inserted the successor of i and has not
\* named it in i yet.
Holding(w, f, i) ==
  /\ f.last = i
  /\ \/ w.pc \in {"end", "save", "child"}
     \/ w.pc = "notice" /\ w.event # "assignee"

\* What is left to do for the conversation c it supersedes.
Owed(w, f, c) ==
  /\ c.children = {}
  /\ w.pc = "save" => f.seen.children = {}
  /\ w.pc = "child" => ~c.open

OnlySuccessors == \A i \in Existing : conv[i].children \subseteq {i + 1} \intersect Existing

Accounted ==
  \A i \in Existing : i + 1 \in Existing =>
    \/ ~conv[i].open /\ i + 1 \in conv[i].children
    \/ \E t \in Task : Holding(task[t], frame[t], i)

Owing ==
  \A t \in Task, i \in Existing :
    Holding(task[t], frame[t], i) => Owed(task[t], frame[t], conv[i])

OneHolder ==
  \A t, u \in Task, i \in Existing :
    Holding(task[t], frame[t], i) /\ Holding(task[u], frame[u], i) => t = u

RaceInv ==
  "closed" \notin fired => OnlySuccessors /\ Accounted /\ Owing /\ OneHolder

\* A handler t goes on, or ends, and holds what it held before.
LEMMA RaceMoves ==
  ASSUME ConvInv, RaceInv, "closed" \notin fired, Existing' = Existing,
         NEW t \in Task, NEW w, NEW f,
         task' = [task EXCEPT ![t] = w], frame' = [frame EXCEPT ![t] = f],
         \A i \in Existing : conv'[i].children = conv[i].children /\ conv'[i].open = conv[i].open,
         \A i \in Existing : Holding(w, f, i) <=> Holding(task[t], frame[t], i),
         \A i \in Existing : Holding(w, f, i) => Owed(w, f, conv[i])
  PROVE  RaceInv'
<1>1. \A o \in Task : /\ task'[o] = IF o = t THEN w ELSE task[o]
                      /\ frame'[o] = IF o = t THEN f ELSE frame[o]
  BY DEF ConvInv, ConvTypeOK, BusTypeOK
<1>2. \A o \in Task, i \in Existing :
        Holding(task'[o], frame'[o], i) <=> Holding(task[o], frame[o], i)
  BY <1>1
<1>3. OnlySuccessors /\ Accounted /\ Owing /\ OneHolder
  BY DEF RaceInv
<1>4. OnlySuccessors'
  BY <1>3 DEF OnlySuccessors
<1>5. Accounted'
  <2> SUFFICES ASSUME NEW i \in Existing, i + 1 \in Existing
               PROVE  \/ ~conv'[i].open /\ i + 1 \in conv'[i].children
                      \/ \E o \in Task : Holding(task'[o], frame'[o], i)
    BY DEF Accounted, Holding
  <2> QED
    BY <1>2, <1>3 DEF Accounted
<1>6. Owing'
  <2> SUFFICES ASSUME NEW o \in Task, NEW i \in Existing, Holding(task'[o], frame'[o], i)
               PROVE  Owed(task'[o], frame'[o], conv'[i])
    BY DEF Owing, Holding, Owed
  <2>1. Owed(task'[o], frame'[o], conv[i])
    BY <1>1, <1>2, <1>3 DEF Owing
  <2> QED
    BY <2>1 DEF Owed
<1>7. OneHolder'
  <2> SUFFICES ASSUME NEW o \in Task, NEW u \in Task, NEW i \in Existing,
                      Holding(task'[o], frame'[o], i), Holding(task'[u], frame'[u], i)
               PROVE  o = u
    BY DEF OneHolder, Holding
  <2> QED
    BY <1>2, <1>3 DEF OneHolder
<1> QED
  BY <1>4, <1>5, <1>6, <1>7 DEF RaceInv

\* A step that runs no handler.
LEMMA RaceRoutes ==
  ASSUME ConvInv, RaceInv, Existing' = Existing, UNCHANGED <<task, frame, fired>>,
         \A i \in Existing : conv'[i].children = conv[i].children /\ conv'[i].open = conv[i].open
  PROVE  RaceInv'
  BY DEF RaceInv, OnlySuccessors, Accounted, Owing, OneHolder, Holding, Owed

\* Before the ticket is closed no handler works on its closing.
LEMMA NoClosing ==
  ASSUME ConvInv, "closed" \notin fired, NEW t \in Task, task[t].pc # "free"
  PROVE  task[t].event # "closed"
  BY DEF ConvInv, Place, Placed

\* $set of the agent and $push of a message leave end and children alone.
LEMMA OtherFields ==
  ASSUME ConvInv, NEW i \in Index, NEW c, conv' = [conv EXCEPT ![i] = c],
         (\E a : c = [conv[i] EXCEPT !.agent = a]) \/ (\E M : c = [conv[i] EXCEPT !.messages = M])
  PROVE  /\ Existing' = Existing
         /\ \A j \in Existing : conv'[j].children = conv[j].children /\ conv'[j].open = conv[j].open
<1>1. conv \in [Index -> Conversation] /\ conv[i] \in Conversation
  BY DEF ConvInv, ConvTypeOK
<1>2. c.children = conv[i].children /\ c.open = conv[i].open /\ c.exists = conv[i].exists
  BY <1>1 DEF Conversation
<1>3. \A j \in Index : conv'[j] = IF j = i THEN c ELSE conv[j]
  BY <1>1
<1> QED
  BY <1>2, <1>3 DEF Existing

\* Steps of a handler that neither inserts, ends nor links a conversation.
LEMMA RaceWalks ==
  ASSUME ConvInv, RaceInv, "closed" \notin fired, NEW t \in Task,
         \/ StartCreated(t) \/ StartAssignee(t) \/ StartClosed(t) \/ ReadLast(t)
         \/ AttributeAgent(t) \/ PushNotice(t) \/ EndRead(t) \/ Attached(t)
         \/ Insert(t) /\ Finish(t)
  PROVE  RaceInv'
<1>1. /\ task[t] \in Slot /\ BusTypeOK /\ frame \in [Task -> Frame] /\ frame[t] \in Frame
      /\ Placed(task[t], frame[t]) /\ conv \in [Index -> Conversation]
  BY HandlerFacts DEF ConvInv, ConvTypeOK
<1>2. /\ ~Holding(FreeSlot, EmptyFrame, EmptyFrame.last)
      /\ \A i \in Existing : ~Holding(FreeSlot, EmptyFrame, i)
  BY DEF Holding, FreeSlot
<1>3. ASSUME Finish(t), UNCHANGED conv,
             \A i \in Existing : ~Holding(task[t], frame[t], i)
      PROVE  RaceInv'
  <2>1. task' = [task EXCEPT ![t] = FreeSlot] /\ frame' = [frame EXCEPT ![t] = EmptyFrame]
    BY <1>3 DEF Finish, End
  <2>2. Existing' = Existing
    BY <1>3 DEF Existing
  <2> QED
    BY <1>2, <1>3, <2>1, <2>2, RaceMoves
<1>4. ASSUME NEW pc \in {"append", "assign", "insert"}, Goto(t, pc), UNCHANGED conv,
             NEW f, frame' = [frame EXCEPT ![t] = f],
             \A i \in Existing : ~Holding(task[t], frame[t], i)
      PROVE  RaceInv'
  <2>1. PICK w : w = [pc |-> pc, event |-> task[t].event, agent |-> task[t].agent]
    OBVIOUS
  <2>2. task' = [task EXCEPT ![t] = w]
    <3>1. pc \in HandlerPc /\ Goto(t, pc)
      BY <1>4 DEF HandlerPc
    <3> QED
      BY <1>1, <2>1, <3>1, GotoSlot
  <2>3. \A i \in Existing : ~Holding(w, f, i)
    BY <1>4, <2>1 DEF Holding
  <2>4. Existing' = Existing
    BY <1>4 DEF Existing
  <2> QED
    BY <1>4, <2>2, <2>3, <2>4, RaceMoves
<1>5. frame' = frame => frame' = [frame EXCEPT ![t] = frame[t]]
  BY <1>1
<1>6. CASE task[t].pc \in {"start", "append"}
  <2>1. \A i \in Existing : ~Holding(task[t], frame[t], i)
    BY <1>6 DEF Holding
  <2>2. CASE StartCreated(t)
    BY <1>3, <1>4, <1>5, <2>1, <2>2 DEF StartCreated, chatVars
  <2>3. CASE StartAssignee(t)
    BY <1>4, <2>1, <2>3 DEF StartAssignee, chatVars
  <2>4. CASE StartClosed(t)
    BY <1>6, <2>4, NoClosing DEF StartClosed
  <2>5. CASE ReadLast(t)
    BY <1>4, <2>1, <2>5 DEF ReadLast, chatVars
  <2> QED
    BY <1>6, <2>2, <2>3, <2>4, <2>5
       DEF AttributeAgent, PushNotice, EndRead, Attached, Insert, At
<1>7. CASE AttributeAgent(t)
  <2>1. task[t].pc = "assign" /\ task[t].event = "assignee" /\ frame[t].last \in Index
    BY <1>1, <1>7 DEF AttributeAgent, At, Placed, Existing
  <2>2. PICK c : c = [conv[frame[t].last] EXCEPT !.agent = task[t].agent]
    OBVIOUS
  <2>3. /\ Existing' = Existing
        /\ \A j \in Existing : conv'[j].children = conv[j].children /\ conv'[j].open = conv[j].open
    BY <1>7, <2>1, <2>2, OtherFields DEF AttributeAgent
  <2>4. PICK w : w = [pc |-> "notice", event |-> task[t].event, agent |-> task[t].agent]
    OBVIOUS
  <2>5. task' = [task EXCEPT ![t] = w]
    BY <1>1, <1>7, <2>4, GotoSlot DEF HandlerPc, AttributeAgent
  <2>6. \A i \in Existing : ~Holding(w, frame[t], i) /\ ~Holding(task[t], frame[t], i)
    BY <2>1, <2>4 DEF Holding
  <2>7. frame' = [frame EXCEPT ![t] = frame[t]]
    BY <1>5, <1>7 DEF AttributeAgent
  <2> QED
    BY <2>3, <2>5, <2>6, <2>7, RaceMoves
<1>8. CASE PushNotice(t)
  <2>1. task[t].pc = "notice" /\ frame[t].last \in Index
    BY <1>1, <1>8 DEF PushNotice, At, Placed, Existing
  <2>2. PICK c : c = [conv[frame[t].last] EXCEPT !.messages = @ \union {NoticeOf(task[t].event)}]
    OBVIOUS
  <2>3. /\ Existing' = Existing
        /\ \A j \in Existing : conv'[j].children = conv[j].children /\ conv'[j].open = conv[j].open
    BY <1>8, <2>1, <2>2, OtherFields DEF PushNotice
  <2>4. CASE task[t].event = "assignee"
    <3>1. task' = [task EXCEPT ![t] = FreeSlot] /\ frame' = [frame EXCEPT ![t] = EmptyFrame]
      BY <1>8, <2>4 DEF PushNotice, Finish, End
    <3>2. \A i \in Existing : ~Holding(task[t], frame[t], i)
      BY <2>1, <2>4 DEF Holding
    <3> QED
      BY <1>2, <2>3, <3>1, <3>2, RaceMoves
  <2>5. CASE task[t].event # "assignee"
    <3>1. PICK w : w = [pc |-> "end", event |-> task[t].event, agent |-> task[t].agent]
      OBVIOUS
    <3>2. task' = [task EXCEPT ![t] = w]
      BY <1>1, <1>8, <2>5, <3>1, GotoSlot DEF HandlerPc, PushNotice
    <3>3. \A i \in Existing : Holding(w, frame[t], i) <=> Holding(task[t], frame[t], i)
      BY <2>1, <2>5, <3>1 DEF Holding
    <3>4. \A i \in Existing : Holding(w, frame[t], i) => Owed(w, frame[t], conv[i])
      <4>1. \A i \in Existing : Holding(w, frame[t], i) => Owed(task[t], frame[t], conv[i])
        BY <3>3 DEF RaceInv, Owing
      <4> QED
        BY <3>1, <4>1 DEF Owed
    <3>5. frame' = [frame EXCEPT ![t] = frame[t]]
      BY <1>5, <1>8, <2>5 DEF PushNotice
    <3> QED
      BY <2>3, <3>2, <3>3, <3>4, <3>5, RaceMoves
  <2> QED
    BY <2>4, <2>5
<1>9. CASE EndRead(t)
  <2>1. task[t].pc = "end" /\ frame[t].last \in Existing
    BY <1>1, <1>9 DEF EndRead, At, Placed
  <2>2. PICK w : w = [pc |-> "save", event |-> task[t].event, agent |-> task[t].agent]
    OBVIOUS
  <2>3. PICK f : f = [frame[t] EXCEPT !.seen = conv[frame[t].last]]
    OBVIOUS
  <2>4. task' = [task EXCEPT ![t] = w] /\ frame' = [frame EXCEPT ![t] = f]
    BY <1>1, <1>9, <2>2, <2>3, GotoSlot DEF HandlerPc, EndRead
  <2>5. w.pc = "save" /\ f.last = frame[t].last /\ f.seen = conv[frame[t].last]
    BY <1>1, <2>2, <2>3 DEF Frame
  <2>6. \A i \in Existing : Holding(w, f, i) <=> Holding(task[t], frame[t], i)
    BY <2>1, <2>5 DEF Holding
  <2>7. \A i \in Existing : Holding(w, f, i) => Owed(w, f, conv[i])
    <3>1. \A i \in Existing : Holding(w, f, i) => Owed(task[t], frame[t], conv[i]) /\ f.last = i
      BY <2>6 DEF RaceInv, Owing, Holding
    <3> QED
      BY <2>5, <3>1 DEF Owed
  <2>8. Existing' = Existing /\ conv' = conv
    BY <1>9 DEF EndRead, chatVars, Existing
  <2> QED
    BY <2>4, <2>6, <2>7, <2>8, RaceMoves
<1>10. CASE Attached(t) \/ (Insert(t) /\ Finish(t))
  <2>1. task[t].pc \in {"attach", "insert"} /\ Finish(t)
    BY <1>10 DEF Attached, Insert, At
  <2>2. conv' = conv
    <3>1. CASE Attached(t)
      BY <3>1 DEF Attached, chatVars
    <3>2. CASE Insert(t) /\ Finish(t)
      <4>1. \A pc \in HandlerPc \ {"free"} : ~Goto(t, pc)
        BY <1>1, <2>1, <3>2 DEF Finish, End, Goto, BusTypeOK, FreeSlot, Slot
      <4> QED
        BY <3>2, <4>1 DEF Insert, HandlerPc
    <3> QED
      BY <1>10, <3>1, <3>2
  <2>3. \A i \in Existing : ~Holding(task[t], frame[t], i)
    BY <2>1 DEF Holding
  <2> QED
    BY <1>3, <2>1, <2>2, <2>3
<1> QED
  BY <1>6, <1>7, <1>8, <1>9, <1>10
     DEF StartCreated, StartAssignee, StartClosed, ReadLast, At

\* The one handler whose insert succeeds owes the predecessor its end; nobody
\* else can, since there was no successor yet.
LEMMA RaceInserts ==
  ASSUME Linear, ConvInv, RaceInv, "closed" \notin fired, NEW t \in Task, Insert(t),
         ~conv[frame[t].last + 1].exists
  PROVE  RaceInv'
<1> DEFINE p == frame[t].last
           n == p + 1
<1>1. /\ task[t].pc = "insert" /\ p \in Existing \union {None} /\ n \in Index
      /\ task[t].agent \in AnyAgent
  BY HandlerFacts, InsertIndex DEF Insert, At, Placed, Slot
<1>2. PICK c : c = NewConversation(task[t].agent, p)
  OBVIOUS
<1>3. c.exists /\ c.children = {} /\ c.open
  BY <1>2 DEF NewConversation
<1>4. conv \in [Index -> Conversation] /\ conv' = [conv EXCEPT ![n] = c]
  BY <1>2 DEF Insert, ConvInv, ConvTypeOK
<1>5. \A i \in Index : conv'[i] = IF i = n THEN c ELSE conv[i]
  BY <1>4
<1>6. n \notin Existing /\ Existing' = Existing \union {n}
  BY <1>1, <1>3, <1>5 DEF Existing
<1>7. PICK k \in Index \union {None} : Existing = 0..k /\ k \in Int
  BY ChainEnd
<1>8. p \in Int /\ p = k
  BY <1>1, <1>6, <1>7 DEF None, Index
<1>9. n + 1 \notin Existing' /\ \A i \in Existing : i = p \/ (i + 1 \in Existing /\ i + 1 # n)
  <2>1. n + 1 \notin 0..k /\ n + 1 # n
    BY <1>7, <1>8
  <2>2. \A i \in 0..k : i = k \/ (i + 1 \in 0..k /\ i + 1 # n)
    BY <1>7, <1>8
  <2> QED
    BY <1>6, <1>7, <1>8, <2>1, <2>2
<1>10. PICK pc \in HandlerPc :
         /\ Goto(t, pc)
         /\ pc \in {"attach", "notice", "end"}
         /\ pc # "attach" <=> p # None
         /\ pc = "notice" => task[t].event = "escalated"
  BY DEF Insert, HandlerPc
<1>11. PICK w : w = [pc |-> pc, event |-> task[t].event, agent |-> task[t].agent]
  OBVIOUS
<1>12. task' = [task EXCEPT ![t] = w]
  BY <1>10, <1>11, HandlerFacts, GotoSlot
<1>13. PICK f : f = [frame[t] EXCEPT !.fresh = n]
  OBVIOUS
<1>14. frame' = [frame EXCEPT ![t] = f] /\ f.last = p
  BY <1>13, HandlerFacts DEF Insert, Frame, ConvInv, ConvTypeOK
<1>15. \A o \in Task : /\ task'[o] = IF o = t THEN w ELSE task[o]
                       /\ frame'[o] = IF o = t THEN f ELSE frame[o]
  BY <1>12, <1>14 DEF ConvInv, ConvTypeOK, BusTypeOK
<1>16. ASSUME NEW o \in Task, NEW i \in Index, Holding(task[o], frame[o], i)
       PROVE  i \in Existing /\ i + 1 \in Existing /\ i # p
  <2>1. i \in Existing /\ i + 1 \in Existing
    BY <1>16, HandlerFacts, NoClosing DEF Holding, Placed, Fresh
  <2> QED
    BY <1>6, <2>1
<1>17. /\ ~Holding(task[t], frame[t], p)
       /\ \A i \in Index : Holding(w, f, i) => i = p
       /\ p # None => Holding(w, f, p)
       /\ Holding(w, f, p) => p \in Existing
  BY <1>1, <1>10, <1>11, <1>14 DEF Holding
<1>18. \A i \in Existing : conv'[i] = conv[i] /\ i \in Index
  BY <1>5, <1>6 DEF Existing
<1>19. conv'[n] = c
  BY <1>1, <1>5
<1>20. OnlySuccessors /\ Accounted /\ Owing /\ OneHolder
  BY DEF RaceInv
<1> HIDE DEF n, p
<1>21. OnlySuccessors'
  <2> SUFFICES ASSUME NEW i \in Existing'
               PROVE  conv'[i].children \subseteq {i + 1} \intersect Existing'
    BY DEF OnlySuccessors
  <2>1. CASE i = n
    BY <1>3, <1>19, <2>1
  <2>2. CASE i \in Existing
    BY <1>6, <1>18, <1>20, <2>2 DEF OnlySuccessors
  <2> QED
    BY <1>6, <2>1, <2>2
<1>22. Accounted'
  <2> SUFFICES ASSUME NEW i \in Existing', i + 1 \in Existing'
               PROVE  \/ ~conv'[i].open /\ i + 1 \in conv'[i].children
                      \/ \E o \in Task : Holding(task'[o], frame'[o], i)
    BY DEF Accounted, Holding
  <2>1. i # n
    BY <1>9
  <2>2. CASE i = p
    <3>1. p # None
      BY <1>6, <1>7, <2>1, <2>2 DEF None
    <3> QED
      BY <1>15, <1>17, <2>2, <3>1
  <2>3. CASE i \in Existing /\ i # p
    <3>1. i + 1 \in Existing
      BY <1>9, <2>3
    <3>2. CASE ~conv[i].open /\ i + 1 \in conv[i].children
      BY <1>18, <2>3, <3>2
    <3>3. ASSUME NEW o \in Task, Holding(task[o], frame[o], i)
          PROVE  Holding(task'[o], frame'[o], i)
      <4>1. o # t
        BY <1>1, <3>3 DEF Holding
      <4> QED
        BY <1>15, <3>3, <4>1
    <3> QED
      BY <1>20, <2>3, <3>1, <3>2, <3>3 DEF Accounted
  <2> QED
    BY <1>6, <2>1, <2>2, <2>3
<1>23. \A o \in Task, i \in Index :
         Holding(task'[o], frame'[o], i) =>
           \/ o = t /\ i = p
           \/ o # t /\ i # p /\ i \in Existing /\ Holding(task[o], frame[o], i)
  BY <1>15, <1>16, <1>17
<1>24. Existing' \subseteq Index
  BY <1>1, <1>6, <1>18
<1>25. Owing'
  <2> SUFFICES ASSUME NEW o \in Task, NEW i \in Existing', Holding(task'[o], frame'[o], i)
               PROVE  Owed(task'[o], frame'[o], conv'[i])
    BY DEF Owing, Holding, Owed
  <2>1. CASE o = t /\ i = p
    <3>1. w.pc \notin {"save", "child"}
      BY <1>10, <1>11
    <3>2. i \in Existing
      BY <1>15, <1>17, <2>1
    <3>3. conv'[i].children = {}
      <4>1. conv[i].children \subseteq {i + 1} \intersect Existing
        BY <1>20, <3>2 DEF OnlySuccessors
      <4>2. i + 1 \notin Existing
        BY <1>6, <2>1 DEF n
      <4> QED
        BY <1>18, <3>2, <4>1, <4>2
    <3> QED
      BY <1>15, <2>1, <3>1, <3>3 DEF Owed
  <2>2. CASE o # t /\ i # p /\ i \in Existing /\ Holding(task[o], frame[o], i)
    <3>1. Owed(task[o], frame[o], conv[i])
      BY <1>20, <2>2 DEF Owing
    <3> QED
      BY <1>15, <1>18, <2>2, <3>1
  <2> QED
    BY <1>23, <1>24, <2>1, <2>2
<1>26. OneHolder'
  <2> SUFFICES ASSUME NEW o \in Task, NEW u \in Task, NEW i \in Existing',
                      Holding(task'[o], frame'[o], i), Holding(task'[u], frame'[u], i)
               PROVE  o = u
    BY DEF OneHolder, Holding
  <2> QED
    BY <1>20, <1>23, <1>24 DEF OneHolder
<1> QED
  BY <1>21, <1>22, <1>25, <1>26 DEF RaceInv

\* The handler that owes i something pays part of it, or the rest.
LEMMA RacePays ==
  ASSUME ConvInv, RaceInv, "closed" \notin fired, Existing' = Existing,
         NEW t \in Task, NEW i \in Existing, i + 1 \in Existing,
         NEW w, NEW f, NEW c, Holding(task[t], frame[t], i),
         task' = [task EXCEPT ![t] = w], frame' = [frame EXCEPT ![t] = f],
         conv' = [conv EXCEPT ![i] = c],
         \A j \in Existing : Holding(w, f, j) => j = i,
         \/ Holding(w, f, i) /\ Owed(w, f, c)
         \/ ~Holding(w, f, i) /\ ~c.open /\ c.children = {i + 1}
  PROVE  RaceInv'
<1>1. \A o \in Task : /\ task'[o] = IF o = t THEN w ELSE task[o]
                      /\ frame'[o] = IF o = t THEN f ELSE frame[o]
  BY DEF ConvInv, ConvTypeOK, BusTypeOK
<1>2. \A j \in Existing : conv'[j] = IF j = i THEN c ELSE conv[j]
  BY DEF ConvInv, ConvTypeOK, Existing
<1>3. OnlySuccessors /\ Accounted /\ Owing /\ OneHolder
  BY DEF RaceInv
<1>4. \A o \in Task, j \in Existing :
        Holding(task'[o], frame'[o], j) =>
          IF o = t THEN j = i ELSE j # i /\ Holding(task[o], frame[o], j)
  BY <1>1, <1>3 DEF OneHolder
<1>5. OnlySuccessors'
  <2> SUFFICES ASSUME NEW j \in Existing
               PROVE  conv'[j].children \subseteq {j + 1} \intersect Existing
    BY DEF OnlySuccessors
  <2>1. c.children \subseteq {i + 1}
    BY DEF Owed
  <2> QED
    BY <1>2, <1>3, <2>1 DEF OnlySuccessors
<1>6. Accounted'
  <2> SUFFICES ASSUME NEW j \in Existing, j + 1 \in Existing
               PROVE  \/ ~conv'[j].open /\ j + 1 \in conv'[j].children
                      \/ \E o \in Task : Holding(task'[o], frame'[o], j)
    BY DEF Accounted, Holding
  <2>1. CASE j = i
    BY <1>1, <1>2, <2>1
  <2>2. CASE j # i
    <3>1. ASSUME NEW o \in Task, Holding(task[o], frame[o], j)
          PROVE  Holding(task'[o], frame'[o], j)
      <4>1. o # t
        BY <2>2, <3>1 DEF Holding
      <4> QED
        BY <1>1, <3>1, <4>1
    <3> QED
      BY <1>2, <1>3, <2>2, <3>1 DEF Accounted
  <2> QED
    BY <2>1, <2>2
<1>7. Owing'
  <2> SUFFICES ASSUME NEW o \in Task, NEW j \in Existing, Holding(task'[o], frame'[o], j)
               PROVE  Owed(task'[o], frame'[o], conv'[j])
    BY DEF Owing, Holding, Owed
  <2> QED
    BY <1>1, <1>2, <1>3, <1>4 DEF Owing
<1>8. OneHolder'
  <2> SUFFICES ASSUME NEW o \in Task, NEW u \in Task, NEW j \in Existing,
                      Holding(task'[o], frame'[o], j), Holding(task'[u], frame'[u], j)
               PROVE  o = u
    BY DEF OneHolder, Holding
  <2> QED
    BY <1>3, <1>4 DEF OneHolder
<1> QED
  BY <1>5, <1>6, <1>7, <1>8 DEF RaceInv

\* end_conversation finishes the predecessor; its copy has lost no child.
LEMMA RaceEnds ==
  ASSUME ConvInv, RaceInv, "closed" \notin fired, NEW t \in Task, EndSave(t)
  PROVE  RaceInv'
<1> DEFINE i == frame[t].last
<1>1. /\ task[t].pc = "save" /\ task[t].event # "closed" /\ i \in Existing /\ i + 1 \in Existing
      /\ frame[t].seen.exists /\ frame[t].seen \in Conversation /\ i \in Index
  BY HandlerFacts, NoClosing DEF EndSave, At, Placed, Fresh
<1>2. Holding(task[t], frame[t], i)
  BY <1>1 DEF Holding
<1>3. frame[t].seen.children = {}
  BY <1>1, <1>2 DEF RaceInv, Owing, Owed
<1>4. PICK c : c = [frame[t].seen EXCEPT !.open = FALSE]
  OBVIOUS
<1>5. c.exists /\ c.children = {} /\ ~c.open
  BY <1>1, <1>3, <1>4 DEF Conversation
<1>6. conv' = [conv EXCEPT ![i] = c]
  BY <1>4 DEF EndSave
<1>7. Existing' = Existing
  BY <1>1, <1>5, <1>6 DEF Existing, ConvInv, ConvTypeOK
<1>8. PICK w : w = [pc |-> "child", event |-> task[t].event, agent |-> task[t].agent]
  OBVIOUS
<1>9. task' = [task EXCEPT ![t] = w] /\ frame' = [frame EXCEPT ![t] = frame[t]]
  BY <1>1, <1>8, HandlerFacts, GotoSlot DEF EndSave, HandlerPc, ConvInv, ConvTypeOK
<1>10. /\ Holding(w, frame[t], i) /\ Owed(w, frame[t], c)
       /\ \A j \in Existing : Holding(w, frame[t], j) => j = i
  BY <1>5, <1>8 DEF Holding, Owed
<1> HIDE DEF i
<1> QED
  BY <1>1, <1>2, <1>6, <1>7, <1>9, <1>10, RacePays

\* add_child names the successor in the conversation it ended.
LEMMA RaceLinks ==
  ASSUME ConvInv, RaceInv, "closed" \notin fired, NEW t \in Task, AddChild(t)
  PROVE  RaceInv'
<1> DEFINE i == frame[t].last
<1>1. /\ task[t].pc = "child" /\ i \in Existing /\ i + 1 \in Existing
      /\ frame[t].fresh = i + 1 /\ i \in Index /\ conv[i] \in Conversation
  BY HandlerFacts, NoClosing DEF AddChild, At, Placed, Fresh
<1>2. Holding(task[t], frame[t], i)
  BY <1>1 DEF Holding
<1>3. conv[i].children = {} /\ ~conv[i].open /\ conv[i].exists
  BY <1>1, <1>2 DEF RaceInv, Owing, Owed, Existing
<1>4. PICK c : c = [conv[i] EXCEPT !.children = @ \union {frame[t].fresh}]
  OBVIOUS
<1>5. c.exists /\ c.children = {i + 1} /\ ~c.open
  BY <1>1, <1>3, <1>4 DEF Conversation
<1>6. conv' = [conv EXCEPT ![i] = c]
  BY <1>4 DEF AddChild
<1>7. Existing' = Existing
  BY <1>1, <1>5, <1>6 DEF Existing, ConvInv, ConvTypeOK
<1>8. PICK w : w = [pc |-> "attach", event |-> task[t].event, agent |-> task[t].agent]
  OBVIOUS
<1>9. task' = [task EXCEPT ![t] = w] /\ frame' = [frame EXCEPT ![t] = frame[t]]
  BY <1>8, HandlerFacts, GotoSlot DEF AddChild, HandlerPc, ConvInv, ConvTypeOK
<1>10. \A j \in Index : ~Holding(w, frame[t], j)
  BY <1>8 DEF Holding
<1>11. Existing \subseteq Index
  BY DEF Existing
<1> HIDE DEF i
<1> QED
  BY <1>1, <1>2, <1>5, <1>6, <1>7, <1>9, <1>10, <1>11, RacePays

\* Routes and sockets owe nothing and pay nothing; the first conversation of a
\* ticket supersedes none.
LEMMA RaceBeside ==
  ASSUME Linear, ConvInv, RaceInv, "closed" \notin fired, RouteStep
  PROVE  RaceInv'
<1>1. CASE CreateRoute
  <2>1. PICK i \in ManualIndex, p \in Existing \union {None}, a \in AnyAgent :
          ~conv[i].exists /\ conv' = [conv EXCEPT ![i] = NewConversation(a, p)]
    BY <1>1 DEF CreateRoute
  <2>2. i = 0 /\ 0 \in Index
    BY ConversationsAssumption DEF Linear, Index
  <2>3. Existing = {}
    <3>1. PICK k \in Index \union {None} : Existing = 0..k /\ k \in Int
      BY ChainEnd
    <3>2. 0 \notin Existing
      BY <2>1, <2>2 DEF Existing
    <3> QED
      BY <3>1, <3>2
  <2>4. conv'[0].children = {} /\ Existing' \subseteq {0}
    <3>1. PICK c : c = NewConversation(a, p)
      OBVIOUS
    <3>2. c.children = {}
      BY <3>1 DEF NewConversation
    <3>3. \A j \in Index : conv'[j] = IF j = 0 THEN c ELSE conv[j]
      BY <2>1, <2>2, <3>1 DEF ConvInv, ConvTypeOK
    <3> QED
      BY <2>2, <2>3, <3>2, <3>3 DEF Existing
  <2>5. UNCHANGED <<task, frame, fired>>
    BY <1>1 DEF CreateRoute, busVars
  <2>6. \A t \in Task : ~Holding(task[t], frame[t], 0)
    BY <2>2, <2>3, HandlerFacts DEF Holding, Placed
  <2>7. \A t \in Task : ~Holding(task'[t], frame'[t], 0)
    BY <2>5, <2>6 DEF Holding
  <2>8. OnlySuccessors' /\ Accounted'
    <3>1. \A j \in Existing' : conv'[j].children \subseteq {j + 1} \intersect Existing'
      BY <2>4
    <3>2. \A j \in Existing' : j + 1 \notin Existing'
      BY <2>4
    <3> QED
      BY <3>1, <3>2 DEF OnlySuccessors, Accounted
  <2>9. Owing' /\ OneHolder'
    BY <2>4, <2>7 DEF Owing, OneHolder, Holding
  <2> QED
    BY <2>8, <2>9 DEF RaceInv
<1>2. ASSUME NEW i \in Index, NEW a \in Agent, AssumeCheck(i, a) \/ SetAgentCheck(i, a)
      PROVE  RaceInv'
  <2>1. UNCHANGED <<conv, frame, task, fired>>
    BY <1>2 DEF AssumeCheck, SetAgentCheck, AddPending, busVars
  <2> QED
    BY <2>1, RaceRoutes DEF Existing
<1>3. ASSUME NEW p \in pending, WriteAgent(p) PROVE RaceInv'
  <2>1. p.conv \in Index
    BY DEF ConvInv, ConvTypeOK, Pending
  <2>2. PICK c : c = [conv[p.conv] EXCEPT !.agent = p.agent]
    OBVIOUS
  <2>3. conv' = [conv EXCEPT ![p.conv] = c] /\ UNCHANGED <<task, frame, fired>>
    BY <1>3, <2>2 DEF WriteAgent, busVars
  <2>4. \E a : c = [conv[p.conv] EXCEPT !.agent = a]
    BY <2>2
  <2> QED
    BY <2>1, <2>3, <2>4, OtherFields, RaceRoutes
<1>4. ASSUME NEW i \in Index, Connect(i) \/ Disconnect(i) PROVE RaceInv'
  <2>1. UNCHANGED <<conv, frame, task, fired>>
    BY <1>4 DEF Connect, Disconnect, busVars
  <2> QED
    BY <2>1, RaceRoutes DEF Existing
<1>5. ASSUME NEW m \in Message, NEW i \in Index, Say(m, i) PROVE RaceInv'
  <2>1. PICK c : c = [conv[i] EXCEPT !.messages = @ \union {m}]
    OBVIOUS
  <2>2. conv' = [conv EXCEPT ![i] = c] /\ UNCHANGED <<task, frame, fired>>
    BY <1>5, <2>1 DEF Say, busVars
  <2>3. \E M : c = [conv[i] EXCEPT !.messages = M]
    BY <2>1
  <2> QED
    BY <2>2, <2>3, OtherFields, RaceRoutes
<1> QED
  BY <1>1, <1>2, <1>3, <1>4, <1>5 DEF RouteStep

\* An event of another kind starts a handler that owes nothing yet.
LEMMA RaceRaises ==
  ASSUME ConvInv, RaceInv, "closed" \notin fired, NEW e \in Raised, Raise(e)
  PROVE  RaceInv'
<1>1. UNCHANGED <<conv, frame>> /\ Existing' = Existing
  BY DEF Raise, convVars, Existing
<1>2. CASE task' = task
  BY <1>1, <1>2 DEF RaceInv, OnlySuccessors, Accounted, Owing, OneHolder, Holding, Owed
<1>3. CASE task' # task
  <2>1. PICK t \in Task, a \in AnyAgent :
          /\ task[t].pc = "free"
          /\ task' = [task EXCEPT ![t] = [pc |-> "start", event |-> e, agent |-> a]]
    BY <1>3 DEF Raise, Publish, AnyAgent
  <2>2. PICK w : w = [pc |-> "start", event |-> e, agent |-> a]
    OBVIOUS
  <2>3. \A i \in Existing : ~Holding(w, frame[t], i) /\ ~Holding(task[t], frame[t], i)
    BY <2>1, <2>2 DEF Holding
  <2>4. task' = [task EXCEPT ![t] = w] /\ frame' = [frame EXCEPT ![t] = frame[t]]
    BY <1>1, <2>1, <2>2 DEF ConvInv, ConvTypeOK
  <2> QED
    BY <1>1, <2>3, <2>4, RaceMoves
<1> QED
  BY <1>2, <1>3

\* The account is kept while handlers run, events come and routes are called.
LEMMA RaceKeeps ==
  ASSUME Linear, ConvInv, RaceInv,
         \/ \E e \in Raised : Raise(e)
         \/ \E t \in Task : ListenerStep(t)
         \/ RouteStep
         \/ UNCHANGED convSpecVars
  PROVE  RaceInv'
<1>1. CASE "closed" \in fired
  <2>1. fired \subseteq fired'
    BY DEF Raise, Publish, ListenerStep, HandlerStep, StartCreated, StartAssignee, StartClosed,
       ReadLast, Insert, AttributeAgent, PushNotice, EndRead, EndSave, AddChild, Attached,
       RouteStep, CreateRoute, AssumeCheck, SetAgentCheck, AddPending, WriteAgent, Connect,
       Disconnect, Say, busVars, convSpecVars
  <2> QED
    BY <1>1, <2>1 DEF RaceInv
<1>2. CASE "closed" \notin fired
  <2>1. ASSUME NEW t \in Task, ListenerStep(t) PROVE RaceInv'
    <3>1. CASE Insert(t)
      <4>1. conv[frame[t].last + 1].exists => Finish(t)
        BY <3>1 DEF Insert
      <4> QED
        BY <1>2, <3>1, <4>1, RaceWalks, RaceInserts
    <3> QED
      BY <1>2, <2>1, <3>1, RaceWalks, RaceEnds, RaceLinks DEF ListenerStep, HandlerStep
  <2>2. CASE UNCHANGED convSpecVars
    BY <2>2, RaceRoutes DEF convSpecVars, convVars, busVars, Existing
  <2> QED
    BY <1>2, <2>1, <2>2, RaceRaises, RaceBeside
<1> QED
  BY <1>1, <1>2

LEMMA RaceStarts == ConvInit /\ BusInit => RaceInv
<1> SUFFICES ASSUME ConvInit, BusInit PROVE RaceInv
  OBVIOUS
<1>1. ~NoConversation.exists
  BY DEF NoConversation, NewConversation
<1>2. Existing = {}
  BY <1>1 DEF ConvInit, Existing
<1> QED
  BY <1>2 DEF RaceInv, OnlySuccessors, Accounted, Owing, OneHolder

\* When nobody runs, nobody owes: every superseded conversation was ended and
\* names its successor.
LEMMA RaceSettled == Linear /\ ConvInv /\ RaceInv => ChainSettled
<1> SUFFICES ASSUME Linear, ConvInv, RaceInv, "closed" \notin fired, Quiet
             PROVE  /\ \A i \in OpenOnes : i = Newest(Existing)
                    /\ \A i, j \in Existing : j \in conv[i].children <=> conv[j].parent = i
  BY DEF ChainSettled, SupersededClosed, ChildrenMirrorParents
<1>1. \A t \in Task, i \in Existing : ~Holding(task[t], frame[t], i)
  BY DEF Quiet, Holding
<1>2. \A i \in Existing : i + 1 \in Existing => ~conv[i].open /\ conv[i].children = {i + 1}
  BY <1>1 DEF RaceInv, Accounted, OnlySuccessors
<1>3. \A i \in Existing : i + 1 \notin Existing => conv[i].children = {}
  BY DEF RaceInv, OnlySuccessors
<1>4. PICK k \in Index \union {None} : Existing = 0..k /\ k \in Int /\ Newest(Existing) = k
  BY ChainEnd
<1>5. ASSUME NEW i \in OpenOnes PROVE i = Newest(Existing)
  <2>1. i \in Existing /\ i + 1 \notin Existing
    BY <1>2 DEF OpenOnes
  <2>2. i \in 0..k /\ i + 1 \notin 0..k
    BY <1>4, <2>1
  <2>3. i = k
    BY <1>4, <2>2
  <2> QED
    BY <1>4, <2>3
<1>6. ASSUME NEW i \in Existing, NEW j \in Existing
      PROVE  j \in conv[i].children <=> conv[j].parent = i
  <2>1. conv[j].parent = j - 1
    BY DEF ConvInv, Chain
  <2>2. j \in conv[i].children <=> j = i + 1
    BY <1>2, <1>3
  <2>3. i \in Int /\ j \in Int
    BY <1>4
  <2> QED
    BY <2>1, <2>2, <2>3
<1> QED
  BY <1>5, <1>6

\* Until the ticket is closed, once its handlers have run only the newest
\* conversation is open and children_ids mirrors parent_id, in whatever order
\* the handlers were started and raced, as long as none of them fails.
THEOREM RacersSettle == Linear /\ ~Faults => (ListenerSpec => []ChainSettled)
<1> SUFFICES ASSUME Linear, ~Faults PROVE ListenerSpec => []ChainSettled
  OBVIOUS
<1>1. ConvInit /\ BusInit => RaceInv
  BY RaceStarts
<1>2. ConvInv /\ RaceInv /\ [ListenerNext]_convSpecVars => RaceInv'
  BY RaceKeeps DEF ListenerNext, HandlerFails, ProcessStops
<1>3. ConvInv /\ RaceInv => ChainSettled
  BY RaceSettled
<1> QED
  BY <1>1, <1>2, <1>3, ConversationsInvariant, PTL DEF ListenerSpec

\* The same of the handlers of a behaviour that is about a race, in a system
\* whose handlers may fail in others.
THEOREM SceneSettles == Linear => (ScenesSpec => []RacingSettles)
<1> SUFFICES ASSUME Linear PROVE ScenesSpec => []RacingSettles
  OBVIOUS
<1> DEFINE Undisturbed == scene = "racing" => RaceInv
<1>1. ScenesInit => ConvInv /\ Undisturbed
  BY ConvStarts, RaceStarts DEF ScenesInit
<1>2. ConvInv /\ [ScenesNext]_<<convSpecVars, scene>> => ConvInv'
  BY ListenerKeeps DEF ScenesNext, Faulty, Racing, ListenerNext
<1>3. ConvInv /\ Undisturbed /\ [ScenesNext]_<<convSpecVars, scene>> => Undisturbed'
  BY RaceKeeps DEF ScenesNext, Faulty, Racing
<1>4. ConvInv /\ Undisturbed => RacingSettles
  BY RaceSettled DEF RacingSettles
<1> QED
  BY <1>1, <1>2, <1>3, <1>4, PTL DEF ScenesSpec

-----------------------------------------------------------------------------
(* The document, under requests and handlers.                              *)

\* What a handler w with the local variables f knows of the conversation it
\* inserted: by the time it attaches it to the ticket, it has its number.
Numbered(w, f) ==
  /\ DOMAIN f = {"last", "fresh", "seen"}
  /\ w.pc = "assign" => w.event = "assignee"
  /\ w.pc = "insert" => f.last \in Nat \union {None}
  /\ w.pc \in {"child", "attach", "attaching"} => f.fresh \in Nat
  /\ w.pc \in {"end", "save"} /\ w.event # "closed" => f.fresh \in Nat
  /\ w.pc = "notice" /\ w.event \notin {"assignee", "closed"} => f.fresh \in Nat

\* The copies that requests and handlers are about to save are as sound as the
\* document.
FlowInv ==
  /\ DeskInv
  /\ copy \in [Task -> Ticket]
  /\ \A t \in Task : Sound(copy[t])
  /\ frame = [t \in Task |-> frame[t]]
  /\ \A t \in Task : Numbered(task[t], frame[t])

\* Listing one more conversation touches nothing a sound document depends on.
LEMMA AttachedSound ==
  ASSUME NEW d \in Ticket, Sound(d), NEW C \in SUBSET Nat
  PROVE  [d EXCEPT !.chats = C] \in Ticket /\ Sound([d EXCEPT !.chats = C])
<1> DEFINE u == [d EXCEPT !.chats = C]
<1>1. /\ u \in Ticket /\ u.history = d.history /\ u.level = d.level
      /\ u.closed = d.closed /\ u.closedBy = d.closedBy /\ u.status = d.status
  BY DEF Ticket
<1>2. ClosingRecorded(d)
  BY DEF Sound
<1> HIDE DEF u
<1>3. Sound(u)
  BY <1>1, <1>2, SameHistory DEF ClosingRecorded
<1> QED
  BY <1>1, <1>3 DEF u

\* Everything is empty at the start.
LEMMA FlowStarts == FlowInit => FlowInv
<1> SUFFICES ASSUME FlowInit PROVE FlowInv
  OBVIOUS
<1>1. DeskInv
  BY InitDesk DEF FlowInit
<1>2. Absent \in Ticket /\ Sound(Absent)
  BY NewSound, TicketDeskAssumption
<1>3. copy \in [Task -> Ticket] /\ \A t \in Task : Sound(copy[t])
  BY <1>2 DEF FlowInit
<1>4. frame = [t \in Task |-> frame[t]] /\ \A t \in Task : Numbered(task[t], frame[t])
  BY DEF FlowInit, ConvInit, BusInit, Numbered, EmptyFrame, FreeSlot, DeskInit
<1> QED
  BY <1>1, <1>3, <1>4 DEF FlowInv

\* A handler that goes on or ends keeps the invariant, if the document, its copy
\* and what it knows where it arrives are sound.
LEMMA FlowMoves ==
  ASSUME FlowInv, NEW t \in Task, NEW w \in Slot, NEW f,
         task' = [task EXCEPT ![t] = w], frame' = [frame EXCEPT ![t] = f],
         Numbered(w, f),
         UNCHANGED <<request, fired>>,
         ticket' \in Ticket, Sound(ticket'),
         NEW d \in Ticket, Sound(d), copy' = [copy EXCEPT ![t] = d]
  PROVE  FlowInv'
<1>1. TypeOK /\ BusTypeOK
  BY DEF FlowInv, DeskInv, TypeOK
<1>2. BusTypeOK'
  BY <1>1 DEF BusTypeOK, Slot, AnyAgent
<1>3. DeskInv'
  BY <1>1, <1>2 DEF FlowInv, DeskInv, TypeOK
<1>4. copy' \in [Task -> Ticket] /\ \A o \in Task : Sound(copy'[o])
  BY DEF FlowInv
<1>5. frame' = [o \in Task |-> frame'[o]]
  BY DEF FlowInv
<1>6. ASSUME NEW o \in Task PROVE Numbered(task'[o], frame'[o])
  BY <1>1 DEF FlowInv, BusTypeOK
<1> QED
  BY <1>3, <1>4, <1>5, <1>6 DEF FlowInv, Numbered

\* The same for a step on the conversations alone.
LEMMA FlowPasses ==
  ASSUME FlowInv, NEW t \in Task, NEW w \in Slot, NEW f,
         task' = [task EXCEPT ![t] = w], frame' = [frame EXCEPT ![t] = f],
         Numbered(w, f), UNCHANGED <<ticket, request, fired, copy>>
  PROVE  FlowInv'
<1>1. ticket' \in Ticket /\ Sound(ticket')
  BY DEF FlowInv, DeskInv, TypeOK
<1>2. copy[t] \in Ticket /\ Sound(copy[t]) /\ copy' = [copy EXCEPT ![t] = copy[t]]
  BY DEF FlowInv
<1> QED
  BY <1>1, <1>2, FlowMoves

\* A handler that has ended has nothing to know.
LEMMA FlowEnds ==
  ASSUME FlowInv, NEW t \in Task, Finish(t), UNCHANGED <<request, fired>>,
         ticket' \in Ticket, Sound(ticket'),
         copy' \in {copy, [copy EXCEPT ![t] = Absent]}
  PROVE  FlowInv'
<1>1. task' = [task EXCEPT ![t] = FreeSlot] /\ frame' = [frame EXCEPT ![t] = EmptyFrame]
  BY DEF Finish, End
<1>2. FreeSlot \in Slot /\ Numbered(FreeSlot, EmptyFrame)
  BY Emptied DEF Numbered, FreeSlot, EmptyFrame
<1>3. PICK d \in Ticket : Sound(d) /\ copy' = [copy EXCEPT ![t] = d]
  <2>1. Absent \in Ticket /\ Sound(Absent)
    BY NewSound, TicketDeskAssumption
  <2>2. copy[t] \in Ticket /\ Sound(copy[t]) /\ copy = [copy EXCEPT ![t] = copy[t]]
    BY DEF FlowInv
  <2> QED
    BY <2>1, <2>2
<1> QED
  BY <1>1, <1>2, <1>3, FlowMoves

\* Every step of ConversationListener keeps the invariant: the number of what it
\* inserted stays among its local variables.
LEMMA FlowHandlerKeeps ==
  ASSUME FlowInv, NEW t \in Task, HandlerStep(t), UNCHANGED <<deskVars, copy>>
  PROVE  FlowInv'
<1> DEFINE g == frame[t]
           Slots(pc) == [pc |-> pc, event |-> task[t].event, agent |-> task[t].agent]
<1>1. /\ BusTypeOK /\ Numbered(task[t], g)
      /\ frame = [frame EXCEPT ![t] = g]
      /\ ticket \in Ticket /\ Sound(ticket)
  BY DEF FlowInv, DeskInv, TypeOK
<1>2. UNCHANGED <<ticket, request, fired, copy>>
  BY DEF deskVars, HandlerStep, StartCreated, StartAssignee, StartClosed, ReadLast, Insert,
     AttributeAgent, PushNotice, EndRead, EndSave, AddChild
<1>3. CASE Finish(t)
  BY <1>1, <1>2, <1>3, FlowEnds
<1>4. ASSUME NEW pc \in HandlerPc, Goto(t, pc), NEW f,
             frame' = [frame EXCEPT ![t] = f], Numbered(Slots(pc), f)
      PROVE  FlowInv'
  <2>1. Slots(pc) \in Slot /\ task' = [task EXCEPT ![t] = Slots(pc)]
    BY <1>1, <1>4, GotoSlot
  <2> QED
    BY <1>2, <1>4, <2>1, FlowPasses
<1>5. {"append", "assign", "notice", "insert", "attach", "end", "save", "child"}
        \subseteq HandlerPc
  BY DEF HandlerPc
<1>6. \A S \in SUBSET Index : Newest(S) \in Nat \union {None}
  <2>1. Index \subseteq Nat
    BY ConversationsAssumption DEF Index
  <2> QED
    BY <2>1, NewestIn DEF Newest
<1>7. CASE StartCreated(t) \/ AttributeAgent(t) \/ EndSave(t) \/ PushNotice(t) \/ AddChild(t)
  <2> SUFFICES ASSUME ~Finish(t) PROVE FlowInv'
    BY <1>3
  <2>1. frame' = [frame EXCEPT ![t] = g]
    BY <1>1, <1>7 DEF StartCreated, AttributeAgent, EndSave, PushNotice, AddChild
  <2>2. PICK pc \in {"append", "notice", "end", "child", "attach"} :
          Goto(t, pc) /\ Numbered(Slots(pc), g)
    BY <1>1, <1>7 DEF StartCreated, AttributeAgent, EndSave, PushNotice, AddChild, At,
       Numbered
  <2> QED
    BY <1>4, <1>5, <2>1, <2>2
<1>8. CASE StartAssignee(t) \/ StartClosed(t) \/ ReadLast(t)
  <2> SUFFICES ASSUME ~Finish(t) PROVE FlowInv'
    BY <1>3
  <2>1. PICK i \in Nat \union {None} : frame' = [frame EXCEPT ![t].last = i]
    BY <1>6, <1>8 DEF StartAssignee, StartClosed, ReadLast, Existing, OpenOnes
  <2>2. PICK pc \in {"append", "assign", "notice", "insert"} :
          /\ Goto(t, pc)
          /\ pc = "notice" => task[t].event = "closed"
          /\ pc = "assign" => task[t].event = "assignee"
    BY <1>8 DEF StartAssignee, StartClosed, ReadLast, At
  <2>3. frame' = [frame EXCEPT ![t] = [g EXCEPT !.last = i]]
    BY <1>1, <2>1
  <2>4. Numbered(Slots(pc), [g EXCEPT !.last = i])
    BY <1>1, <2>2 DEF Numbered
  <2> QED
    BY <1>4, <1>5, <2>2, <2>3, <2>4
<1>9. CASE EndRead(t)
  <2> DEFINE f == [g EXCEPT !.seen = conv[g.last]]
  <2>1. frame' = [frame EXCEPT ![t] = f] /\ Goto(t, "save") /\ task[t].pc = "end"
    BY <1>1, <1>9 DEF EndRead, At
  <2>2. Numbered(Slots("save"), f)
    BY <1>1, <2>1 DEF Numbered
  <2> QED
    BY <1>4, <1>5, <2>1, <2>2
<1>10. CASE Insert(t)
  <2> SUFFICES ASSUME ~Finish(t) PROVE FlowInv'
    BY <1>3
  <2> DEFINE n == g.last + 1
             f == [g EXCEPT !.fresh = n]
             pc == IF g.last = None THEN "attach"
                   ELSE IF task[t].event = "escalated" THEN "notice" ELSE "end"
  <2>1. frame' = [frame EXCEPT ![t] = f] /\ Goto(t, pc) /\ task[t].pc = "insert"
    BY <1>1, <1>10 DEF Insert, At
  <2>2. n \in Nat
    BY <1>1, <2>1 DEF Numbered, None
  <2>3. Numbered(Slots(pc), f)
    <3> HIDE DEF n
    <3> QED
      BY <1>1, <2>2 DEF Numbered
  <2> QED
    BY <1>4, <1>5, <2>1, <2>3
<1> QED
  BY <1>7, <1>8, <1>9, <1>10 DEF HandlerStep

\* _attach_chat_to_ticket reads a sound ticket ...
LEMMA AttachReadKeeps ==
  ASSUME FlowInv, NEW t \in Task, AttachRead(t)
  PROVE  FlowInv'
<1> DEFINE g == frame[t]
           w == [pc |-> "attaching", event |-> task[t].event, agent |-> task[t].agent]
<1>1. /\ BusTypeOK /\ Numbered(task[t], g) /\ frame = [frame EXCEPT ![t] = g]
      /\ ticket \in Ticket /\ Sound(ticket)
  BY DEF FlowInv, DeskInv, TypeOK
<1>2. UNCHANGED <<ticket, request, fired>> /\ task[t].pc = "attach"
  BY DEF AttachRead, deskVars, At
<1>3. CASE Finish(t) /\ UNCHANGED copy
  BY <1>1, <1>2, <1>3, FlowEnds
<1>4. CASE copy' = [copy EXCEPT ![t] = ticket] /\ Goto(t, "attaching") /\ UNCHANGED frame
  <2>1. w \in Slot /\ task' = [task EXCEPT ![t] = w]
    BY <1>1, <1>4, GotoSlot DEF HandlerPc
  <2>2. Numbered(w, g)
    BY <1>1, <1>2 DEF Numbered
  <2>3. frame' = [frame EXCEPT ![t] = g]
    BY <1>1, <1>4
  <2> QED
    BY <1>1, <1>2, <1>4, <2>1, <2>2, <2>3, FlowMoves
<1> QED
  BY <1>3, <1>4 DEF AttachRead

\* ... and saves its copy with one chat more.
LEMMA AttachSaveKeeps ==
  ASSUME FlowInv, NEW t \in Task, AttachSave(t)
  PROVE  FlowInv'
<1> DEFINE d == copy[t]
           C == d.chats \union {frame[t].fresh}
<1>1. d \in Ticket /\ Sound(d) /\ Numbered(task[t], frame[t])
  BY DEF FlowInv
<1>2. C \in SUBSET Nat
  BY <1>1 DEF Ticket, AttachSave, At, Numbered
<1>3. ticket' = [d EXCEPT !.chats = C]
  BY DEF AttachSave
<1>4. ticket' \in Ticket /\ Sound(ticket')
  <2> HIDE DEF d, C
  <2> QED
    BY <1>1, <1>2, <1>3, AttachedSound
<1> QED
  BY <1>4, FlowEnds DEF AttachSave

\* The requests do not touch what handlers know: an event starts a handler with
\* nothing to know yet.
LEMMA FlowDeskKeeps ==
  ASSUME FlowInv, DeskStep
  PROVE  FlowInv'
<1>1. DeskInv'
  BY StepKeeps DEF FlowInv, DeskStep, Next
<1>2. UNCHANGED <<frame, copy>>
  BY DEF DeskStep, convVars
<1>3. \A t \in Task : task'[t].pc = "start" \/ task'[t] = task[t]
  <2>1. UNCHANGED task \/ \E e, a : Publish(e, a)
    BY DEF DeskStep, DeskNext, CreateTicket, RequestStep, Load, Take, Assign, Escalate,
       Transfer, Cancel, UpdateStatus, UpdateTicket, PublishIfClosed, AddComment,
       EditComment, DeleteComment, Refuse, busVars
  <2>2. task \in [Task -> Slot]
    BY DEF FlowInv, DeskInv, TypeOK, BusTypeOK, Slot, AnyAgent
  <2> QED
    BY <2>1, <2>2 DEF Publish
<1>4. \A t \in Task : Numbered(task'[t], frame'[t])
  BY <1>2, <1>3 DEF FlowInv, Numbered
<1> QED
  BY <1>1, <1>2, <1>4 DEF FlowInv, Numbered

\* A restart loses the copies, and the document stays.
LEMMA FlowCrashKeeps ==
  ASSUME FlowInv, FlowCrash
  PROVE  FlowInv'
<1>1. DeskInv'
  BY StepKeeps DEF FlowInv, FlowCrash, Next
<1>2. Absent \in Ticket /\ Sound(Absent)
  BY NewSound, TicketDeskAssumption
<1>3. copy' \in [Task -> Ticket] /\ \A t \in Task : Sound(copy'[t])
  BY <1>2 DEF FlowCrash
<1>4. /\ frame' = [t \in Task |-> frame'[t]]
      /\ \A t \in Task : Numbered(task'[t], frame'[t])
  BY DEF FlowCrash, Crash, TasksLost, ConversationsLost, Numbered, FreeSlot, EmptyFrame
<1> QED
  BY <1>1, <1>3, <1>4 DEF FlowInv, Numbered

\* Every step of the composition keeps the invariant.
LEMMA FlowStepKeeps == FlowInv /\ [FlowNext]_flowVars => FlowInv'
<1> SUFFICES ASSUME FlowInv, [FlowNext]_flowVars PROVE FlowInv'
  OBVIOUS
<1>1. ticket \in Ticket /\ Sound(ticket)
  BY DEF FlowInv, DeskInv, TypeOK
<1>2. CASE DeskStep
  BY <1>2, FlowDeskKeeps
<1>3. ASSUME NEW t \in Task, FlowHandlerStep(t) PROVE FlowInv'
  BY <1>3, FlowHandlerKeeps, AttachReadKeeps, AttachSaveKeeps DEF FlowHandlerStep
<1>4. ASSUME NEW t \in Task, FlowHandlerFails(t) PROVE FlowInv'
  BY <1>1, <1>4, FlowEnds DEF FlowHandlerFails, HandlerFails, deskVars
<1>5. CASE FlowCrash
  BY <1>5, FlowCrashKeeps
<1>6. ASSUME UNCHANGED <<ticket, request, task, fired, frame, copy>> PROVE FlowInv'
  BY <1>6 DEF FlowInv, DeskInv, TypeOK, BusTypeOK, Numbered
<1>7. CASE RouteStep /\ UNCHANGED <<deskVars, copy>>
  BY <1>6, <1>7 DEF RouteStep, CreateRoute, AssumeCheck, SetAgentCheck, AddPending, WriteAgent,
     Connect, Disconnect, Say, busVars, deskVars
<1>8. CASE UNCHANGED flowVars
  BY <1>6, <1>8 DEF flowVars, vars, convVars
<1> QED
  BY <1>2, <1>3, <1>4, <1>5, <1>7, <1>8 DEF FlowNext, HandlersNext

\* The document and every copy of it, those of handlers included, are well typed
\* and sound in every reachable state of the composition: overlapping requests,
\* handlers that save a stale document, failures and restarts.
THEOREM FlowInvariant == FlowSpec => []FlowInv
<1> QED
  BY FlowStarts, FlowStepKeeps, PTL DEF FlowSpec

\* A handler that attaches a conversation never brings back a second active
\* assignee, although it writes the whole document it read before.
THEOREM FlowOneAssignee == FlowSpec => []SingleActiveAssignment
<1>1. FlowInv => SingleActiveAssignment
  BY DEF FlowInv, DeskInv, Sound, SingleActiveAssignment
<1> QED
  BY <1>1, FlowInvariant, PTL

\* Closing date and closing agent fit the status, whoever saved last.
THEOREM FlowClosingInStep == FlowSpec => []ClosingConsistent
<1>1. FlowInv => ClosingConsistent
  BY DEF FlowInv, DeskInv, Sound, ClosingConsistent
<1> QED
  BY <1>1, FlowInvariant, PTL

\* The active assignee holds the level of the ticket, whoever saved last.
THEOREM FlowQualifiedAssignee == FlowSpec => []AssigneeQualified
<1>1. FlowInv => AssigneeQualified
  BY DEF FlowInv, DeskInv, Sound, AssigneeQualified
<1> QED
  BY <1>1, FlowInvariant, PTL

-----------------------------------------------------------------------------
(* The conversations, under the events that requests raise.                *)

\* A request publishes one event, or none; HasIndex keeps an index for it.
LEMMA RequestsPublish ==
  ASSUME Linear, ConvInv, DeskInv, DeskStep
  PROVE  ConvInv'
<1>1. UNCHANGED convVars /\ Room'
  <2>1. UNCHANGED convVars /\ Existing' = Existing
    BY DEF DeskStep, convVars, Existing
  <2>2. PICK k \in Int : Newest(Existing) = k
    BY ChainEnd
  <2>3. Newest(Existing)' = k
    BY <2>1, <2>2 DEF Newest
  <2>4. Cardinality(Inserting)' \in Nat
    BY Fewer DEF Linear, Inserting
  <2> QED
    BY <2>1, <2>3, <2>4 DEF DeskStep, HasIndex, Room
<1>2. UNCHANGED <<task, fired>> \/ \E e \in Event, a \in AnyAgent : Publish(e, a)
  <2>1. {"created", "assignee", "escalated", "closed", "cancelled"} \subseteq Event
    BY DEF Event
  <2>2. CASE CreateTicket
    BY <2>1, <2>2 DEF CreateTicket, AnyAgent
  <2>3. ASSUME NEW r \in Request, Assign(r) \/ Escalate(r) \/ Transfer(r)
        PROVE  \E e \in Event, a \in AnyAgent : Publish(e, a)
    <3>1. request[r].args.agent \in Agent
      BY <2>3, LoadedCopy, ArgsType DEF Assign, Escalate, Transfer, Ready
    <3>2. \E e \in {"assignee", "escalated"} : Publish(e, request[r].args.agent)
      BY <2>3 DEF Assign, Escalate, Transfer
    <3> QED
      BY <2>1, <3>1, <3>2 DEF AnyAgent
  <2>4. ASSUME NEW r \in Request, Cancel(r) \/ UpdateStatus(r) \/ UpdateTicket(r)
        PROVE  UNCHANGED busVars \/ \E e \in Event, a \in AnyAgent : Publish(e, a)
    <3>1. UNCHANGED busVars \/ \E e \in {"cancelled", "closed"} : Publish(e, NoAgent)
      BY <2>4 DEF Cancel, UpdateStatus, UpdateTicket, PublishIfClosed
    <3> QED
      BY <2>1, <3>1 DEF AnyAgent
  <2>5. ASSUME NEW r \in Request, RequestStep(r),
               ~(Assign(r) \/ Escalate(r) \/ Transfer(r)),
               ~(Cancel(r) \/ UpdateStatus(r) \/ UpdateTicket(r))
        PROVE  UNCHANGED busVars
    BY <2>5 DEF RequestStep, Load, Take, AddComment, EditComment, DeleteComment, Refuse
  <2> QED
    BY <2>2, <2>3, <2>4, <2>5 DEF DeskStep, DeskNext, busVars
<1>3. CASE UNCHANGED <<task, fired>>
  BY <1>1, <1>3 DEF convVars, ConvInv, ConvTypeOK, BusTypeOK, Chain, NewestOpen, Place,
     Placed, Fresh, Existing, OpenOnes, Newest
<1> QED
  BY <1>1, <1>2, <1>3, PublishKeeps

\* Every step of the composition keeps the invariant of the conversations.
LEMMA FlowConvKeeps == Linear /\ ConvInv /\ DeskInv /\ [FlowNext]_flowVars => ConvInv'
<1> SUFFICES ASSUME Linear, ConvInv, DeskInv, [FlowNext]_flowVars PROVE ConvInv'
  OBVIOUS
<1>1. CASE DeskStep
  BY <1>1, RequestsPublish
<1>2. ASSUME NEW t \in Task, HandlerStep(t) PROVE ConvInv'
  BY <1>2, StartCreatedKeeps, StartAssigneeKeeps, StartClosedKeeps, ReadLastKeeps,
     InsertKeeps, AttributeKeeps, PushKeeps, EndReadKeeps, EndSaveKeeps, AddChildKeeps
     DEF HandlerStep
<1>3. ASSUME NEW t \in Task, AttachRead(t) PROVE ConvInv'
  <2> DEFINE w == [pc |-> "attaching", event |-> task[t].event, agent |-> task[t].agent]
  <2>1. CASE Finish(t)
    BY <1>3, <2>1, HandlerFinishes DEF AttachRead
  <2>2. CASE Goto(t, "attaching") /\ UNCHANGED frame
    <3>1. w \in Slot /\ task' = [task EXCEPT ![t] = w]
      BY <2>2, HandlerFacts, GotoSlot DEF HandlerPc
    <3>2. frame[t] \in Frame /\ frame' = [frame EXCEPT ![t] = frame[t]]
      BY <2>2, HandlerFacts DEF ConvInv, ConvTypeOK
    <3>3. Placed(w, frame[t]) /\ w.pc = "attaching"
      BY HandlerFacts, <1>3 DEF Placed, AttachRead, At
    <3> HIDE DEF w
    <3> QED
      BY <1>3, <3>1, <3>2, <3>3, HandlerReads DEF AttachRead
  <2> QED
    BY <1>3, <2>1, <2>2 DEF AttachRead
<1>4. ASSUME NEW t \in Task, AttachSave(t) \/ HandlerFails(t) PROVE ConvInv'
  BY <1>4, HandlerFinishes DEF AttachSave, HandlerFails
<1>5. CASE RouteStep
  BY <1>5, RoutesKeep
<1>6. CASE FlowCrash
  BY <1>6, StopKeeps DEF FlowCrash, Crash
<1>7. CASE UNCHANGED flowVars
  BY <1>7 DEF flowVars, vars, convVars, ConvInv, ConvTypeOK, BusTypeOK, Chain, Room,
     NewestOpen, Place, Placed, Fresh, Existing, OpenOnes, Inserting, Newest
<1> QED
  BY <1>1, <1>2, <1>3, <1>4, <1>5, <1>6, <1>7
     DEF FlowNext, HandlersNext, FlowHandlerStep, FlowHandlerFails

\* What handlers know at their awaits, and the shape of the chain, hold when the
\* events come from requests and handlers write to the ticket as well.
THEOREM FlowConversations == Linear => (FlowSpec => []ConvInv)
<1> SUFFICES ASSUME Linear PROVE FlowSpec => []ConvInv
  OBVIOUS
<1>1. FlowInit => ConvInv
  BY ConvStarts DEF FlowInit, DeskInit
<1>2. ConvInv /\ FlowInv /\ [FlowNext]_flowVars => ConvInv'
  BY FlowConvKeeps DEF FlowInv
<1> QED
  BY <1>1, <1>2, FlowInvariant, PTL DEF FlowSpec

\* Under the events of the desk the conversations form one chain without gaps.
THEOREM FlowOneChain == Linear => (FlowSpec => []ChainLinked)
<1> SUFFICES ASSUME Linear PROVE FlowSpec => []ChainLinked
  OBVIOUS
<1>1. ConvInv => ChainLinked
  BY ChainHasNoGap
<1> QED
  BY <1>1, FlowConversations, PTL

\* Until the ticket is closed its newest conversation is open, at any moment of
\* any request, handler, failure and restart.
THEOREM FlowNewestOpen == Linear => (FlowSpec => []NewestOpen)
<1> SUFFICES ASSUME Linear PROVE FlowSpec => []NewestOpen
  OBVIOUS
<1>1. ConvInv => NewestOpen
  BY DEF ConvInv
<1> QED
  BY <1>1, FlowConversations, PTL

\* No request and no handler reopens a finished conversation.
THEOREM FlowNoneReopened == Linear => (FlowSpec => ClosedStaysClosed)
<1> SUFFICES ASSUME Linear PROVE FlowSpec => ClosedStaysClosed
  OBVIOUS
<1>1. ConvInv /\ [FlowNext]_flowVars
        => [\A i \in Existing : ~conv[i].open => ~conv'[i].open]_convSpecVars
  <2> SUFFICES ASSUME ConvInv, [FlowNext]_flowVars, NEW i \in Existing, ~conv[i].open
               PROVE  ~conv'[i].open
    OBVIOUS
  <2>1. CASE (\E t \in Task : HandlerStep(t)) \/ RouteStep
    BY <2>1, StepCloses
  <2>2. CASE UNCHANGED conv
    BY <2>2
  <2> QED
    BY <2>1, <2>2 DEF FlowNext, HandlersNext, FlowHandlerStep, FlowHandlerFails, AttachRead,
       AttachSave, HandlerFails, DeskStep, FlowCrash, ConversationsLost, chatVars, convVars,
       flowVars
<1> QED
  BY <1>1, FlowConversations, PTL DEF FlowSpec, ClosedStaysClosed

-----------------------------------------------------------------------------
(* One request at a time, and its handlers before the next one.            *)

\* take publishes no event, so the conversations cannot follow it.
Announced == "take" \notin Operation

Last == Newest(Existing)

Unfinished == ticket.status \notin {"absent", "finished"}

\* The ticket with its first conversation under way.
Opening(w, f) ==
  /\ Unfinished /\ Assignee(ticket) = NoAgent /\ ticket.chats = {}
  /\ \/ w.pc \in {"start", "append"} /\ Existing = {}
     \/ w.pc = "insert" /\ Existing = {} /\ f.last = None
     \/ /\ w.pc \in {"attach", "attaching"}
        /\ Existing = {0} /\ OpenOnes = {0} /\ f.fresh = 0

\* The newest conversation, the only open one, gets the new assignee.
Reassigning(w, f) ==
  /\ Unfinished /\ Assignee(ticket) = w.agent /\ ticket.chats = Existing
  /\ Existing # {} /\ OpenOnes = {Last}
  /\ \/ w.pc = "start"
     \/ w.pc \in {"assign", "notice"} /\ f.last = Last
  /\ w.pc = "notice" => conv[Last].agent = w.agent

\* A successor for the new assignee, then the end of the old conversation.
Escalating(w, f) ==
  /\ Unfinished /\ Assignee(ticket) = w.agent
  /\ Existing # {}
  /\ \/ /\ w.pc \in {"start", "insert"}
        /\ ticket.chats = Existing /\ OpenOnes = {Last}
        /\ w.pc = "insert" => f.last = Last
     \/ /\ w.pc \in {"notice", "end", "save", "child", "attach", "attaching"}
        /\ f.fresh = Last /\ f.last = Last - 1 /\ conv[Last].agent = w.agent
        /\ f.last \in Existing
        /\ ticket.chats = Existing \ {Last}
        /\ OpenOnes = IF w.pc \in {"notice", "end", "save"} THEN {f.last, Last} ELSE {Last}

\* The newest conversation, the only open one, ends with its ticket.
Closing(w, f) ==
  /\ ticket.status = "finished" /\ ticket.chats = Existing
  /\ Existing # {} /\ OpenOnes = {Last}
  /\ Assignee(ticket) # NoAgent => conv[Last].agent = Assignee(ticket)
  /\ \/ w.pc = "start"
     \/ w.pc \in {"notice", "end", "save"} /\ f.last = Last
  /\ w.pc = "save" => f.seen.agent = conv[Last].agent

\* How far the only handler in flight has got.
UnderWay(t) ==
  /\ \A r \in Request : request[r].pc = "idle"
  /\ \/ task[t].event = "created" /\ Opening(task[t], frame[t])
     \/ task[t].event = "assignee" /\ Reassigning(task[t], frame[t])
     \/ task[t].event = "escalated" /\ Escalating(task[t], frame[t])
     \/ task[t].event = "closed" /\ Closing(task[t], frame[t])
  /\ task[t].pc = "attaching" => copy[t] = ticket

\* Ticket and conversations when no handler is in flight.
Settled ==
  /\ ticket.chats = Existing
  /\ Existing = {} <=> ticket.status = "absent"
  /\ Existing # {} => OpenOnes = IF ticket.status = "finished" THEN {} ELSE {Last}
  /\ Assignee(ticket) # NoAgent => Shown = Assignee(ticket)

CalmInv ==
  /\ Current
  /\ \A t, u \in Task : ~At(t, "free") /\ ~At(u, "free") => t = u
  /\ \A t \in Task : ~At(t, "free") => UnderWay(t)
  /\ Quiet => Settled

\* What a step that leaves the conversations alone leaves alone.
LEMMA ConvSame ==
  ASSUME conv' = conv
  PROVE  Existing' = Existing /\ OpenOnes' = OpenOnes /\ Last' = Last /\ Shown' = Shown
<1>1. Existing' = Existing /\ OpenOnes' = OpenOnes
  BY DEF Existing, OpenOnes
<1>2. Last' = Last
  BY <1>1 DEF Last, Newest
<1>3. Shown' = Shown
  BY <1>1, <1>2 DEF Shown, Last
<1> QED
  BY <1>1, <1>2, <1>3

\* The same history has the same assignee, in the next state too.
LEMMA AssigneeLater ==
  /\ Assignee(ticket)' = Assignee(ticket')
  /\ ticket'.history = ticket.history => Assignee(ticket') = Assignee(ticket)
<1>1. Assignee(ticket)' = Assignee(ticket')
  BY DEF Assignee, ActiveIndex
<1> QED
  BY <1>1, SameAssignee

\* Types, and what is known while a handler is in flight.
LEMMA CalmFacts ==
  ASSUME FlowInv, ConvInv, CalmInv, NEW t \in Task, ~At(t, "free")
  PROVE  /\ task \in [Task -> Slot] /\ task[t] \in Slot
         /\ frame \in [Task -> Frame] /\ frame[t] \in Frame
         /\ frame = [frame EXCEPT ![t] = frame[t]]
         /\ BusTypeOK /\ conv \in [Index -> Conversation] /\ Existing \subseteq Index
         /\ Existing # {} => Last \in Existing
         /\ UnderWay(t) /\ ticket \in Ticket
         /\ \A o \in Task \ {t} : task[o].pc = "free"
<1>1. /\ task \in [Task -> Slot] /\ frame \in [Task -> Frame] /\ BusTypeOK
      /\ conv \in [Index -> Conversation] /\ ticket \in Ticket
  BY DEF FlowInv, DeskInv, TypeOK, BusTypeOK, Slot, AnyAgent, ConvInv, ConvTypeOK
<1>2. Existing \subseteq Index
  BY DEF Existing
<1>3. Existing # {} => Last \in Existing
  BY <1>2, NewestIn DEF Last
<1> QED
  BY <1>1, <1>2, <1>3 DEF CalmInv, At

\* The handler in flight goes on.
LEMMA CalmGoes ==
  ASSUME FlowInv, ConvInv, CalmInv, NEW t \in Task, ~At(t, "free"),
         NEW pc \in HandlerPc \ {"free"}, Goto(t, pc),
         UNCHANGED <<ticket, request>>, UnderWay(t)'
  PROVE  CalmInv'
<1>1. \A o \in Task : o # t => task'[o].pc = "free"
  BY CalmFacts DEF Goto
<1>2. task'[t].pc # "free"
  BY CalmFacts DEF Goto, Slot
<1>3. Current'
  BY DEF CalmInv, Current
<1> QED
  BY <1>1, <1>2, <1>3 DEF CalmInv, At, Quiet

\* The handler in flight ends.
LEMMA CalmEnds ==
  ASSUME FlowInv, ConvInv, CalmInv, NEW t \in Task, ~At(t, "free"), Finish(t),
         UNCHANGED request, ticket'.status = ticket.status,
         ticket'.history = ticket.history, Settled'
  PROVE  CalmInv'
<1>1. \A o \in Task : task'[o].pc = "free"
  BY CalmFacts DEF Finish, End, FreeSlot
<1>2. Current'
  BY CalmFacts DEF CalmInv, Current, UnderWay
<1> QED
  BY <1>1, <1>2 DEF CalmInv, At, Quiet

\* Goto as the new slot of the handler.
LEMMA SlotAfter ==
  ASSUME BusTypeOK, NEW t \in Task, NEW pc \in HandlerPc, Goto(t, pc)
  PROVE  /\ task'[t].pc = pc
         /\ task'[t].event = task[t].event /\ task'[t].agent = task[t].agent
  BY DEF BusTypeOK, Goto

\* The first step of a handler.
LEMMA StartsCalm ==
  ASSUME FlowInv, ConvInv, CalmInv, NEW t \in Task, UNCHANGED <<ticket, request>>,
         StartCreated(t) \/ StartAssignee(t) \/ StartClosed(t) \/ ReadLast(t)
  PROVE  CalmInv'
<1>1. ~At(t, "free") /\ conv' = conv
  BY DEF StartCreated, StartAssignee, StartClosed, ReadLast, At, chatVars
<1>2. /\ task[t].pc = "start" => (OpenOnes # {} => Newest(OpenOnes) = Last)
      /\ task[t].pc = "start" /\ task[t].event # "created" => OpenOnes = {Last}
  <2>1. task[t].pc = "start" /\ task[t].event # "created" => OpenOnes = {Last}
    BY <1>1, CalmFacts DEF UnderWay, Reassigning, Escalating, Closing
  <2>2. OpenOnes = {Last} => Newest(OpenOnes) = Last
    BY NewestIn DEF OpenOnes, Existing
  <2>3. task[t].pc = "start" /\ task[t].event = "created" => OpenOnes = {}
    BY <1>1, CalmFacts DEF UnderWay, Opening, OpenOnes
  <2> QED
    BY <2>1, <2>2, <2>3
<1>3. Existing' = Existing /\ OpenOnes' = OpenOnes /\ Last' = Last
  BY <1>1, ConvSame
<1>4. Assignee(ticket)' = Assignee(ticket)
  BY AssigneeLater
<1>5. CASE StartCreated(t)
  <2>1. Goto(t, "append") /\ UNCHANGED frame
    BY <1>1, <1>5, CalmFacts DEF StartCreated, UnderWay, Opening, At
  <2>2. /\ task'[t].pc = "append"
        /\ task'[t].event = task[t].event /\ task'[t].agent = task[t].agent
    BY <1>1, <2>1, CalmFacts, SlotAfter DEF HandlerPc
  <2>3. UnderWay(t)'
    BY <1>1, <1>3, <1>4, <1>5, <2>1, <2>2, CalmFacts
       DEF StartCreated, UnderWay, Opening, At, Unfinished
  <2> QED
    BY <1>1, <2>1, <2>3, CalmGoes DEF HandlerPc
<1>6. CASE StartAssignee(t)
  <2>1. /\ Goto(t, "assign") /\ frame' = [frame EXCEPT ![t].last = Last]
        /\ task[t].pc = "start" /\ task[t].event = "assignee"
    BY <1>2, <1>6 DEF StartAssignee, At
  <2>2. /\ task'[t].pc = "assign"
        /\ task'[t].event = task[t].event /\ task'[t].agent = task[t].agent
    BY <1>1, <2>1, CalmFacts, SlotAfter DEF HandlerPc
  <2>3. frame'[t].last = Last
    BY <1>1, <2>1, CalmFacts DEF Frame
  <2>4. UnderWay(t)'
    BY <1>1, <1>3, <1>4, <2>1, <2>2, <2>3, CalmFacts DEF UnderWay, Reassigning, Unfinished
  <2> QED
    BY <1>1, <2>1, <2>4, CalmGoes DEF HandlerPc
<1>7. CASE StartClosed(t)
  <2>1. /\ Goto(t, "notice") /\ frame' = [frame EXCEPT ![t].last = Last]
        /\ task[t].pc = "start" /\ task[t].event = "closed"
    BY <1>2, <1>7 DEF StartClosed, At
  <2>2. /\ task'[t].pc = "notice"
        /\ task'[t].event = task[t].event /\ task'[t].agent = task[t].agent
    BY <1>1, <2>1, CalmFacts, SlotAfter DEF HandlerPc
  <2>3. frame'[t].last = Last
    BY <1>1, <2>1, CalmFacts DEF Frame
  <2>4. UnderWay(t)'
    BY <1>1, <1>3, <1>4, <2>1, <2>2, <2>3, CalmFacts DEF UnderWay, Closing
  <2> QED
    BY <1>1, <2>1, <2>4, CalmGoes DEF HandlerPc
<1>8. CASE ReadLast(t)
  <2>1. /\ Goto(t, "insert") /\ frame' = [frame EXCEPT ![t].last = Last]
        /\ \/ task[t].pc = "append"
           \/ task[t].pc = "start" /\ task[t].event = "escalated"
    BY <1>8 DEF ReadLast, At, Last
  <2>2. /\ task'[t].pc = "insert"
        /\ task'[t].event = task[t].event /\ task'[t].agent = task[t].agent
    BY <1>1, <2>1, CalmFacts, SlotAfter DEF HandlerPc
  <2>3. frame'[t].last = Last
    BY <1>1, <2>1, CalmFacts DEF Frame
  <2>4. Existing = {} => Last = None
    BY DEF Last, Newest
  <2>5. UnderWay(t)'
    <3>1. CASE task[t].event = "created"
      BY <1>1, <1>3, <1>4, <2>1, <2>2, <2>3, <2>4, <3>1, CalmFacts
         DEF UnderWay, Opening, Unfinished
    <3>2. CASE task[t].event # "created"
      BY <1>1, <1>3, <1>4, <2>1, <2>2, <2>3, <3>2, CalmFacts
         DEF UnderWay, Reassigning, Closing, Escalating, Unfinished
    <3> QED
      BY <3>1, <3>2
  <2> QED
    BY <1>1, <2>1, <2>5, CalmGoes DEF HandlerPc
<1> QED
  BY <1>5, <1>6, <1>7, <1>8

\* A conversation that is written over, as the others see it.
LEMMA OneWritten ==
  ASSUME conv \in [Index -> Conversation], NEW i \in Existing, NEW c,
         conv' = [conv EXCEPT ![i] = c], c.exists
  PROVE  /\ Existing' = Existing /\ Last' = Last
         /\ OpenOnes' = IF c.open THEN OpenOnes \union {i} ELSE OpenOnes \ {i}
         /\ conv'[i] = c /\ \A j \in Existing : j # i => conv'[j] = conv[j]
<1>1. i \in Index /\ \A j \in Index : conv'[j] = IF j = i THEN c ELSE conv[j]
  BY DEF Existing
<1>2. Existing' = Existing
  BY <1>1 DEF Existing
<1>3. Last' = Last
  BY <1>2 DEF Last, Newest
<1>4. OpenOnes' = IF c.open THEN OpenOnes \union {i} ELSE OpenOnes \ {i}
  BY <1>1, <1>2 DEF OpenOnes, Existing
<1> QED
  BY <1>1, <1>2, <1>3, <1>4 DEF Existing

\* The agent is written, the notice and the child are pushed.
LEMMA WritesCalm ==
  ASSUME FlowInv, ConvInv, CalmInv, NEW t \in Task, UNCHANGED <<ticket, request>>,
         AttributeAgent(t) \/ PushNotice(t) \/ AddChild(t)
  PROVE  CalmInv'
<1> DEFINE i == frame[t].last
<1>1. ~At(t, "free") /\ i \in Existing /\ conv[i] \in Conversation
  <2>1. task[t].pc \in {"assign", "notice", "child"}
    BY DEF AttributeAgent, PushNotice, AddChild, At
  <2> QED
    BY <2>1, HandlerFacts DEF Placed, At
<1>2. Assignee(ticket)' = Assignee(ticket) /\ ticket' = ticket
  BY AssigneeLater
<1>3. CASE AttributeAgent(t)
  <2> DEFINE c == [conv[i] EXCEPT !.agent = task[t].agent]
  <2>1. /\ conv' = [conv EXCEPT ![i] = c] /\ Goto(t, "notice") /\ UNCHANGED frame
        /\ task[t].pc = "assign"
    BY <1>3 DEF AttributeAgent, At
  <2>2. c.exists /\ c.open = conv[i].open /\ c.agent = task[t].agent
    BY <1>1 DEF Conversation, Existing
  <2>3. /\ Existing' = Existing /\ Last' = Last /\ conv'[i].agent = task[t].agent
        /\ OpenOnes' = OpenOnes
    <3> HIDE DEF c
    <3>1. OpenOnes' = IF c.open THEN OpenOnes \union {i} ELSE OpenOnes \ {i}
      BY <1>1, <2>1, <2>2, CalmFacts, OneWritten
    <3>2. OpenOnes' = OpenOnes
      BY <1>1, <2>2, <3>1 DEF OpenOnes
    <3> QED
      BY <1>1, <2>1, <2>2, <3>2, CalmFacts, OneWritten
  <2>4. /\ task'[t].pc = "notice"
        /\ task'[t].event = task[t].event /\ task'[t].agent = task[t].agent
    BY <1>1, <2>1, CalmFacts, SlotAfter DEF HandlerPc
  <2>5. task[t].event = "assignee" /\ Reassigning(task[t], frame[t])
    BY <1>1, <2>1, CalmFacts DEF UnderWay, Opening, Escalating, Closing
  <2>6. UnderWay(t)'
    <3> HIDE DEF c
    <3> QED
      BY <1>1, <1>2, <2>1, <2>3, <2>4, <2>5, CalmFacts DEF UnderWay, Reassigning, Unfinished
  <2> QED
    BY <1>1, <2>1, <2>6, CalmGoes DEF HandlerPc
<1>4. CASE PushNotice(t)
  <2> DEFINE c == [conv[i] EXCEPT !.messages = @ \union {NoticeOf(task[t].event)}]
  <2>1. conv' = [conv EXCEPT ![i] = c] /\ task[t].pc = "notice"
    BY <1>4 DEF PushNotice, At
  <2>2. c.exists /\ c.open = conv[i].open /\ c.agent = conv[i].agent
    BY <1>1 DEF Conversation, Existing
  <2>3. /\ Existing' = Existing /\ Last' = Last /\ OpenOnes' = OpenOnes
        /\ \A j \in Existing : conv'[j].agent = conv[j].agent
    <3> HIDE DEF c
    <3>1. OpenOnes' = IF c.open THEN OpenOnes \union {i} ELSE OpenOnes \ {i}
      BY <1>1, <2>1, <2>2, CalmFacts, OneWritten
    <3>2. OpenOnes' = OpenOnes
      BY <1>1, <2>2, <3>1 DEF OpenOnes
    <3> QED
      BY <1>1, <2>1, <2>2, <3>2, CalmFacts, OneWritten
  <2> HIDE DEF c
  <2>4. CASE task[t].event = "assignee"
    <3>1. Finish(t) /\ Reassigning(task[t], frame[t])
      BY <1>1, <1>4, <2>4, CalmFacts DEF PushNotice, UnderWay
    <3>2. Settled'
      BY <1>1, <1>2, <2>1, <2>3, <3>1, CalmFacts
         DEF Settled, Reassigning, Unfinished, Shown, Last
    <3> QED
      BY <1>1, <3>1, <3>2, CalmEnds
  <2>5. CASE task[t].event # "assignee"
    <3>1. Goto(t, "end") /\ UNCHANGED frame
      BY <1>4, <2>5 DEF PushNotice
    <3>2. /\ task'[t].pc = "end"
          /\ task'[t].event = task[t].event /\ task'[t].agent = task[t].agent
      BY <1>1, <3>1, CalmFacts, SlotAfter DEF HandlerPc
    <3>3. \/ task[t].event = "escalated" /\ Escalating(task[t], frame[t])
          \/ task[t].event = "closed" /\ Closing(task[t], frame[t])
      BY <1>1, <2>1, <2>5, CalmFacts DEF UnderWay, Opening
    <3>4. UnderWay(t)'
      BY <1>1, <1>2, <2>1, <2>3, <3>1, <3>2, <3>3, CalmFacts
         DEF UnderWay, Escalating, Closing, Unfinished
    <3> QED
      BY <1>1, <3>1, <3>4, CalmGoes DEF HandlerPc
  <2> QED
    BY <2>4, <2>5
<1>5. CASE AddChild(t)
  <2> DEFINE c == [conv[i] EXCEPT !.children = @ \union {frame[t].fresh}]
  <2>1. /\ conv' = [conv EXCEPT ![i] = c] /\ Goto(t, "attach") /\ UNCHANGED frame
        /\ task[t].pc = "child"
    BY <1>5 DEF AddChild, At
  <2>2. c.exists /\ c.open = conv[i].open /\ c.agent = conv[i].agent
    BY <1>1 DEF Conversation, Existing
  <2>3. /\ Existing' = Existing /\ Last' = Last /\ OpenOnes' = OpenOnes
        /\ \A j \in Existing : conv'[j].agent = conv[j].agent
    <3> HIDE DEF c
    <3>1. OpenOnes' = IF c.open THEN OpenOnes \union {i} ELSE OpenOnes \ {i}
      BY <1>1, <2>1, <2>2, CalmFacts, OneWritten
    <3>2. OpenOnes' = OpenOnes
      BY <1>1, <2>2, <3>1 DEF OpenOnes
    <3> QED
      BY <1>1, <2>1, <2>2, <3>2, CalmFacts, OneWritten
  <2> HIDE DEF c
  <2>4. /\ task'[t].pc = "attach"
        /\ task'[t].event = task[t].event /\ task'[t].agent = task[t].agent
    BY <1>1, <2>1, CalmFacts, SlotAfter DEF HandlerPc
  <2>5. task[t].event = "escalated" /\ Escalating(task[t], frame[t])
    BY <1>1, <2>1, CalmFacts DEF UnderWay, Opening, Reassigning, Closing
  <2>6. UnderWay(t)'
    BY <1>1, <1>2, <2>1, <2>3, <2>4, <2>5, CalmFacts DEF UnderWay, Escalating, Unfinished
  <2> QED
    BY <1>1, <2>1, <2>6, CalmGoes DEF HandlerPc
<1> QED
  BY <1>3, <1>4, <1>5

\* end_conversation on the conversation that was the newest and open.
LEMMA EndsCalm ==
  ASSUME FlowInv, ConvInv, CalmInv, NEW t \in Task, UNCHANGED <<ticket, request>>,
         EndRead(t) \/ EndSave(t)
  PROVE  CalmInv'
<1> DEFINE i == frame[t].last
<1>1. ~At(t, "free") /\ i \in Existing /\ conv[i] \in Conversation
  <2>1. task[t].pc \in {"end", "save"}
    BY DEF EndRead, EndSave, At
  <2> QED
    BY <2>1, HandlerFacts DEF Placed, At
<1>2. Assignee(ticket)' = Assignee(ticket) /\ ticket' = ticket
  BY AssigneeLater
<1>3. \/ task[t].event = "escalated" /\ Escalating(task[t], frame[t])
      \/ task[t].event = "closed" /\ Closing(task[t], frame[t])
  <2>1. task[t].pc \in {"end", "save"}
    BY DEF EndRead, EndSave, At
  <2> QED
    BY <1>1, <2>1, CalmFacts DEF UnderWay, Opening, Reassigning
<1>4. CASE EndRead(t)
  <2>1. /\ frame' = [frame EXCEPT ![t].seen = conv[i]] /\ Goto(t, "save")
        /\ task[t].pc = "end" /\ conv' = conv
    BY <1>4 DEF EndRead, At, chatVars
  <2>2. frame'[t].seen = conv[i] /\ frame'[t].last = i /\ frame'[t].fresh = frame[t].fresh
    BY <1>1, <2>1, CalmFacts DEF Frame
  <2>3. Existing' = Existing /\ OpenOnes' = OpenOnes /\ Last' = Last
    BY <2>1, ConvSame
  <2>4. /\ task'[t].pc = "save"
        /\ task'[t].event = task[t].event /\ task'[t].agent = task[t].agent
    BY <1>1, <2>1, CalmFacts, SlotAfter DEF HandlerPc
  <2>5. UnderWay(t)'
    <3>1. CASE task[t].event = "escalated"
      BY <1>1, <1>2, <1>3, <2>1, <2>2, <2>3, <2>4, <3>1, CalmFacts
         DEF UnderWay, Escalating, Unfinished
    <3>2. CASE task[t].event = "closed"
      BY <1>1, <1>2, <1>3, <2>1, <2>2, <2>3, <2>4, <3>2, CalmFacts
         DEF UnderWay, Closing
    <3> QED
      BY <1>3, <3>1, <3>2
  <2> QED
    BY <1>1, <2>1, <2>5, CalmGoes DEF HandlerPc
<1>5. CASE EndSave(t)
  <2> DEFINE c == [frame[t].seen EXCEPT !.open = FALSE]
  <2>1. conv' = [conv EXCEPT ![i] = c] /\ task[t].pc = "save"
    BY <1>5 DEF EndSave, At
  <2>2. c.exists /\ ~c.open /\ c.agent = frame[t].seen.agent
    <3>1. frame[t].seen.exists /\ frame[t].seen \in Conversation
      BY <2>1, HandlerFacts DEF Placed
    <3> QED
      BY <3>1 DEF Conversation
  <2> HIDE DEF c
  <2>3. /\ Existing' = Existing /\ Last' = Last /\ OpenOnes' = OpenOnes \ {i}
        /\ conv'[i].agent = frame[t].seen.agent
        /\ \A j \in Existing : j # i => conv'[j] = conv[j]
    BY <1>1, <2>1, <2>2, CalmFacts, OneWritten
  <2>4. CASE task[t].event = "closed"
    <3>1. Finish(t)
      BY <1>5, <2>4 DEF EndSave
    <3>2. Settled'
      BY <1>1, <1>2, <1>3, <2>1, <2>3, <2>4, CalmFacts DEF Settled, Closing, Shown, Last
    <3> QED
      BY <1>1, <3>1, <3>2, CalmEnds
  <2>5. CASE task[t].event = "escalated"
    <3>1. Goto(t, "child") /\ UNCHANGED frame
      BY <1>5, <2>5 DEF EndSave
    <3>2. /\ task'[t].pc = "child"
          /\ task'[t].event = task[t].event /\ task'[t].agent = task[t].agent
      BY <1>1, <3>1, CalmFacts, SlotAfter DEF HandlerPc
    <3>3. i # Last
      <4>1. i = Last - 1 /\ i \in Int
        BY <1>1, <1>3, <2>1, <2>5, CalmFacts, ConversationsAssumption
           DEF Escalating, Index
      <4> QED
        BY <4>1
    <3>4. UnderWay(t)'
      BY <1>1, <1>2, <1>3, <2>1, <2>3, <2>5, <3>1, <3>2, <3>3, CalmFacts
         DEF UnderWay, Escalating, Unfinished
    <3> QED
      BY <1>1, <3>1, <3>4, CalmGoes DEF HandlerPc
  <2> QED
    BY <1>3, <2>4, <2>5
<1> QED
  BY <1>4, <1>5

\* The first conversation of the ticket, or the successor of the newest.
LEMMA InsertCalm ==
  ASSUME Linear, FlowInv, ConvInv, CalmInv, NEW t \in Task, UNCHANGED <<ticket, request>>,
         Insert(t)
  PROVE  CalmInv'
<1> DEFINE p == frame[t].last
           n == p + 1
<1>1. ~At(t, "free") /\ task[t].pc = "insert"
  BY DEF Insert, At
<1>2. Assignee(ticket)' = Assignee(ticket) /\ ticket' = ticket
  BY AssigneeLater
<1>3. \/ task[t].event = "created" /\ Opening(task[t], frame[t])
      \/ task[t].event = "escalated" /\ Escalating(task[t], frame[t])
  BY <1>1, CalmFacts DEF UnderWay, Reassigning, Closing
<1>4. PICK k \in Index \union {None} : Existing = 0..k /\ k \in Int /\ Last = k
  BY ChainEnd DEF Last
<1>5. p = k /\ n \in Index
  <2>1. p = k
    BY <1>1, <1>3, <1>4 DEF Opening, Escalating, Last, Newest
  <2> QED
    BY <1>1, <2>1, InsertIndex DEF At
<1>6. ~conv[n].exists
  <2>1. n \notin Existing
    BY <1>4, <1>5
  <2> QED
    BY <1>5, <2>1 DEF Existing
<1> DEFINE c == NewConversation(task[t].agent, p)
           pc == IF p = None THEN "attach"
                 ELSE IF task[t].event = "escalated" THEN "notice" ELSE "end"
<1>7. /\ conv' = [conv EXCEPT ![n] = c] /\ frame' = [frame EXCEPT ![t].fresh = n]
      /\ Goto(t, pc)
  BY <1>6 DEF Insert
<1>8. c.exists /\ c.open /\ c.agent = task[t].agent
  BY DEF NewConversation
<1> HIDE DEF c
<1>9. \A j \in Index : conv'[j] = IF j = n THEN c ELSE conv[j]
  BY <1>1, <1>5, <1>7, CalmFacts
<1>10. Existing' = Existing \union {n} /\ OpenOnes' = OpenOnes \union {n}
  BY <1>5, <1>6, <1>8, <1>9 DEF Existing, OpenOnes
<1>11. Last' = n
  <2>1. Existing' = 0..n /\ n \in Index \union {None}
    <3>1. 0..n = 0..k \union {n}
      BY <1>4, <1>5, ConversationsAssumption DEF Index
    <3> QED
      BY <1>4, <1>5, <1>10, <3>1
  <2>2. Newest(Existing') = n
    BY <2>1, NewestOfChain
  <2> QED
    BY <2>2 DEF Last, Newest
<1>12. frame'[t].fresh = n /\ frame'[t].last = p
  BY <1>1, <1>7, CalmFacts DEF Frame
<1>13. CASE task[t].event = "created"
  <2>1. p = None /\ n = 0 /\ Goto(t, "attach") /\ Existing = {}
    BY <1>1, <1>3, <1>7, <1>13 DEF Opening, None
  <2>2. /\ task'[t].pc = "attach"
        /\ task'[t].event = task[t].event /\ task'[t].agent = task[t].agent
    BY <1>1, <2>1, CalmFacts, SlotAfter DEF HandlerPc
  <2>3. Existing' = {0} /\ OpenOnes' = {0}
    BY <1>10, <2>1 DEF OpenOnes
  <2>4. UnderWay(t)'
    BY <1>1, <1>2, <1>3, <1>12, <1>13, <2>1, <2>2, <2>3, CalmFacts
       DEF UnderWay, Opening, Unfinished
  <2> QED
    BY <1>1, <2>1, <2>4, CalmGoes DEF HandlerPc
<1>14. CASE task[t].event = "escalated"
  <2>1. /\ p = Last /\ Existing # {} /\ OpenOnes = {p} /\ ticket.chats = Existing
        /\ Unfinished /\ Assignee(ticket) = task[t].agent
    BY <1>1, <1>3, <1>14 DEF Escalating
  <2>2. p \in Existing /\ p # None
    <3>1. p \in Existing
      BY <1>1, <2>1, CalmFacts
    <3> QED
      BY <1>4, <3>1 DEF None
  <2>3. Goto(t, "notice")
    BY <1>7, <1>14, <2>2
  <2>4. /\ task'[t].pc = "notice"
        /\ task'[t].event = task[t].event /\ task'[t].agent = task[t].agent
    BY <1>1, <2>3, CalmFacts, SlotAfter DEF HandlerPc
  <2>5. p = n - 1 /\ n \notin Existing
    BY <1>4, <1>5
  <2>6. conv'[n].agent = task[t].agent
    BY <1>5, <1>8, <1>9
  <2> HIDE DEF n
  <2>7. UnderWay(t)'
    BY <1>1, <1>2, <1>10, <1>11, <1>12, <1>14, <2>1, <2>2, <2>4, <2>5, <2>6, CalmFacts
       DEF UnderWay, Escalating, Unfinished
  <2> QED
    BY <1>1, <2>3, <2>7, CalmGoes DEF HandlerPc
<1> QED
  BY <1>3, <1>13, <1>14

\* The ticket lists the conversation the handler opened: no request has touched
\* the document since the event.
LEMMA AttachCalm ==
  ASSUME FlowInv, ConvInv, CalmInv, NEW t \in Task, AttachRead(t) \/ AttachSave(t)
  PROVE  CalmInv'
<1>1. ~At(t, "free") /\ conv' = conv /\ request' = request
  BY DEF AttachRead, AttachSave, At, chatVars, deskVars
<1>2. Existing' = Existing /\ OpenOnes' = OpenOnes /\ Last' = Last /\ Shown' = Shown
  BY <1>1, ConvSame
<1>3. task[t].pc \in {"attach", "attaching"}
  BY DEF AttachRead, AttachSave, At
<1>4. /\ \/ task[t].event = "created" /\ Opening(task[t], frame[t])
         \/ task[t].event = "escalated" /\ Escalating(task[t], frame[t])
      /\ frame[t].fresh = Last /\ Existing # {} /\ OpenOnes = {Last}
      /\ ticket.chats = Existing \ {Last} /\ Unfinished
      /\ Assignee(ticket) # NoAgent => conv[Last].agent = Assignee(ticket)
      /\ Last \in Existing
  <2>1. \/ task[t].event = "created" /\ Opening(task[t], frame[t])
        \/ task[t].event = "escalated" /\ Escalating(task[t], frame[t])
    BY <1>1, <1>3, CalmFacts DEF UnderWay, Reassigning, Closing
  <2>2. CASE task[t].event = "created"
    <3>1. Existing = {0} /\ OpenOnes = {0} /\ frame[t].fresh = 0 /\ ticket.chats = {}
          /\ Unfinished /\ Assignee(ticket) = NoAgent
      BY <1>3, <2>1, <2>2 DEF Opening
    <3>2. Last = 0
      BY <1>1, <3>1, CalmFacts
    <3> QED
      BY <2>1, <3>1, <3>2
  <2>3. CASE task[t].event = "escalated"
    BY <1>1, <1>3, <2>1, <2>3, CalmFacts DEF Escalating
  <2> QED
    BY <2>1, <2>2, <2>3
<1>5. CASE AttachRead(t)
  <2>1. /\ copy' = [copy EXCEPT ![t] = ticket] /\ Goto(t, "attaching") /\ UNCHANGED frame
        /\ ticket' = ticket /\ task[t].pc = "attach"
    BY <1>4, <1>5 DEF AttachRead, deskVars, At
  <2>2. /\ task'[t].pc = "attaching"
        /\ task'[t].event = task[t].event /\ task'[t].agent = task[t].agent
    BY <1>1, <2>1, CalmFacts, SlotAfter DEF HandlerPc
  <2>3. copy'[t] = ticket
    BY <2>1 DEF FlowInv
  <2>4. Assignee(ticket)' = Assignee(ticket)
    BY <2>1, AssigneeLater
  <2>5. UnderWay(t)'
    <3>1. CASE task[t].event = "created"
      BY <1>1, <1>2, <1>4, <2>1, <2>2, <2>3, <2>4, <3>1, CalmFacts
         DEF UnderWay, Opening, Unfinished
    <3>2. CASE task[t].event = "escalated"
      BY <1>1, <1>2, <1>4, <2>1, <2>2, <2>3, <2>4, <3>2, CalmFacts
         DEF UnderWay, Escalating, Unfinished
    <3> QED
      BY <1>4, <3>1, <3>2
  <2> QED
    BY <1>1, <2>1, <2>5, CalmGoes DEF HandlerPc
<1>6. CASE AttachSave(t)
  <2>1. copy[t] = ticket /\ Finish(t)
    BY <1>1, <1>6, CalmFacts DEF AttachSave, At, UnderWay
  <2>2. ticket' = [ticket EXCEPT !.chats = @ \union {Last}]
    BY <1>4, <1>6, <2>1 DEF AttachSave
  <2>3. /\ ticket'.chats = Existing /\ ticket'.status = ticket.status
        /\ ticket'.history = ticket.history
    BY <1>1, <1>4, <2>2, CalmFacts DEF Ticket
  <2>4. Assignee(ticket)' = Assignee(ticket)
    BY <2>3, AssigneeLater
  <2>5. Settled'
    BY <1>1, <1>2, <1>4, <2>3, <2>4 DEF Settled, Unfinished, Shown, Last
  <2> QED
    BY <1>1, <2>1, <2>3, <2>5, CalmEnds
<1> QED
  BY <1>5, <1>6

\* assign, escalate and transfer: the agent of the event is the new assignee.
LEMMA HandsOver ==
  ASSUME DeskInv, Current, DeskInv', NEW r \in Request,
         Assign(r) \/ Escalate(r) \/ Transfer(r)
  PROVE  /\ ticket.status \in Status \ {"finished"}
         /\ ticket'.status \in Status \ {"finished"}
         /\ ticket'.chats = ticket.chats
         /\ \E a \in Agent : /\ Assignee(ticket') = a
                             /\ \/ ~Escalate(r) /\ Publish("assignee", a)
                                \/ Escalate(r) /\ Publish("escalated", a)
<1> DEFINE a == request[r].args.agent
<1>1. /\ request[r].seen = ticket /\ ticket.status \in Status
      /\ a \in Agent /\ ticket \in Ticket /\ OneActive(ticket)
      /\ ticket' \in Ticket /\ OneActive(ticket')
  BY LoadedCopy, ArgsType DEF Assign, Escalate, Transfer, Ready, Current, DeskInv, TypeOK,
     Sound
<1>2. ticket.status # "finished"
  BY <1>1 DEF Assign, Escalate, Transfer, CanAssign, CanEscalate, CanTransfer, CanHandOver
<1>3. PICK l \in Level :
        /\ ticket'.history = Append(ExitActive(ticket), NewEntry(a, l))
        /\ ticket'.status \in {ticket.status, "in_progress"}
        /\ ticket'.chats = ticket.chats
  <2>1. ticket.level \in Level
    BY <1>1 DEF Ticket
  <2>2. CASE Assign(r) \/ Transfer(r)
    BY <1>1, <2>1, <2>2 DEF Assign, Transfer, Save, Assigned, Transferred, Ticket
  <2>3. CASE Escalate(r)
    <3>1. PICK k \in TargetLevel(a, ticket.level) : ticket' = Escalated(a, k, ticket)
      BY <1>1, <2>3 DEF Escalate, Save
    <3>2. k \in Level
      BY <1>1, TicketDeskAssumption DEF TargetLevel, HigherLevels
    <3> QED
      BY <1>1, <3>1, <3>2 DEF Escalated, Ticket
  <2> QED
    BY <2>2, <2>3
<1>4. Assignee(ticket') = a
  BY <1>1, <1>3, NewAssignee
<1>5. ticket'.status \in Status \ {"finished"}
  BY <1>1, <1>2, <1>3 DEF Status
<1>6. \/ ~Escalate(r) /\ Publish("assignee", a)
      \/ Escalate(r) /\ Publish("escalated", a)
  <2>1. (Assign(r) \/ Transfer(r)) /\ ~Escalate(r) => Publish("assignee", a)
    BY DEF Assign, Transfer
  <2>2. Escalate(r) => Publish("escalated", a)
    BY DEF Escalate
  <2> QED
    BY <2>1, <2>2
<1> QED
  BY <1>1, <1>2, <1>3, <1>4, <1>5, <1>6

\* cancel, the status routes and the comments.
LEMMA KeepsOrMoves ==
  ASSUME DeskInv, Current, NEW r \in Request, RequestStep(r),
         ~(Take(r) \/ Assign(r) \/ Escalate(r) \/ Transfer(r))
  PROVE  /\ ticket'.chats = ticket.chats
         /\ \/ /\ ticket'.status = ticket.status
               /\ Assignee(ticket') = Assignee(ticket)
               /\ UNCHANGED busVars
            \/ /\ ticket.status \in Status \ {"finished"}
               /\ ticket'.status \in Status \ {"finished"}
               /\ Assignee(ticket') \in {Assignee(ticket), NoAgent}
               /\ UNCHANGED task
            \/ /\ ticket.status \in Status \ {"finished"}
               /\ ticket'.status = "finished"
               /\ Assignee(ticket') = Assignee(ticket)
               /\ Publish("closed", NoAgent)
<1> DEFINE q == request[r].args
<1>1. CASE Load(r) \/ Refuse(r)
  BY <1>1 DEF Load, Refuse
<1> SUFFICES ASSUME ~(Load(r) \/ Refuse(r)) PROVE
         /\ ticket'.chats = ticket.chats
         /\ \/ /\ ticket'.status = ticket.status
               /\ Assignee(ticket') = Assignee(ticket)
               /\ UNCHANGED busVars
            \/ /\ ticket.status \in Status \ {"finished"}
               /\ ticket'.status \in Status \ {"finished"}
               /\ Assignee(ticket') \in {Assignee(ticket), NoAgent}
               /\ UNCHANGED task
            \/ /\ ticket.status \in Status \ {"finished"}
               /\ ticket'.status = "finished"
               /\ Assignee(ticket') = Assignee(ticket)
               /\ Publish("closed", NoAgent)
  BY <1>1
<1>2. /\ request[r].seen = ticket /\ ticket.status \in Status /\ ticket \in Ticket
      /\ q \in RequestArgs /\ OneActive(ticket)
  BY LoadedCopy DEF RequestStep, Take, Assign, Escalate, Transfer, Cancel, UpdateStatus,
     UpdateTicket, AddComment, EditComment, DeleteComment, Ready, Current, DeskInv, Sound
<1>3. CASE Cancel(r)
  <2>1. ticket' = Cancelled(ticket) /\ CanCancel(ticket) /\ UNCHANGED task
    BY <1>2, <1>3 DEF Cancel, Save, Publish, Subscribed
  <2>2. /\ ticket'.history = ExitActive(ticket) /\ ticket'.status = "cancelled"
        /\ ticket'.chats = ticket.chats
    BY <1>2, <2>1 DEF Cancelled, Ticket
  <2>3. Assignee(ticket') = NoAgent
    BY <1>2, <2>2, NobodyLeft
  <2> QED
    BY <1>2, <2>1, <2>2, <2>3 DEF CanCancel, Status
<1>4. ASSUME NEW s \in Status, s \in AllowedTransitions[ticket.status],
             ticket'.status = s, ticket'.history = ticket.history,
             ticket'.chats = ticket.chats, PublishIfClosed(s)
      PROVE  /\ ticket'.chats = ticket.chats
             /\ ticket.status \in Status \ {"finished"}
             /\ \/ /\ ticket'.status \in Status \ {"finished"}
                   /\ Assignee(ticket') = Assignee(ticket)
                   /\ UNCHANGED task
                \/ /\ ticket'.status = "finished"
                   /\ Assignee(ticket') = Assignee(ticket)
                   /\ Publish("closed", NoAgent)
  <2>1. Assignee(ticket') = Assignee(ticket)
    BY <1>4, SameAssignee
  <2>2. ticket.status # "finished"
    BY <1>2, <1>4 DEF AllowedTransitions, Status
  <2> QED
    BY <1>2, <1>4, <2>1, <2>2 DEF PublishIfClosed, busVars
<1>5. CASE UpdateStatus(r)
  <2>1. /\ q.status \in Status /\ q.status \in AllowedTransitions[ticket.status]
        /\ ticket' = WithStatus(ticket, q.status) /\ PublishIfClosed(q.status)
    BY <1>2, <1>5, ArgsType DEF UpdateStatus, Ready, Save, CanUpdateStatus
  <2>2. /\ ticket'.status = q.status /\ ticket'.history = ticket.history
        /\ ticket'.chats = ticket.chats
    BY <1>2, <2>1 DEF WithStatus, Ticket
  <2> QED
    BY <1>4, <2>1, <2>2
<1>6. CASE UpdateTicket(r)
  <2> DEFINE s == q.status
             u == IF s \in {"same", ticket.status} THEN ticket ELSE WithStatus(ticket, s)
  <2>1. /\ s \in Status \union {"same"} /\ CanUpdateTicket(s, q.item, ticket)
        /\ ticket' = IF q.item = NoItem THEN u ELSE [u EXCEPT !.detail = q.item]
        /\ PublishIfClosed(IF s = ticket.status THEN "same" ELSE s)
    BY <1>2, <1>6, ArgsType DEF UpdateTicket, Ready, Save, Updated
  <2>2. /\ DOMAIN u = {"status", "level", "history", "closed", "closedBy", "comments",
                       "detail", "chats"}
        /\ u.history = ticket.history /\ u.chats = ticket.chats
        /\ u.status = IF s \in {"same", ticket.status} THEN ticket.status ELSE s
    BY <1>2 DEF WithStatus, Ticket
  <2>3. /\ ticket'.history = ticket.history /\ ticket'.chats = ticket.chats
        /\ ticket'.status = IF s \in {"same", ticket.status} THEN ticket.status ELSE s
    <3> HIDE DEF u
    <3> QED
      BY <2>1, <2>2
  <2>4. CASE s \in {"same", ticket.status}
    <3>1. UNCHANGED busVars
      BY <2>1, <2>4 DEF PublishIfClosed
    <3> QED
      BY <2>3, <2>4, <3>1, SameAssignee
  <2>5. CASE s \notin {"same", ticket.status}
    <3>1. s \in Status /\ s \in AllowedTransitions[ticket.status] /\ PublishIfClosed(s)
      BY <2>1, <2>5 DEF CanUpdateTicket
    <3> QED
      BY <1>4, <2>3, <2>5, <3>1
  <2> QED
    BY <2>4, <2>5
<1>7. CASE AddComment(r) \/ EditComment(r) \/ DeleteComment(r)
  <2>1. /\ ticket' = ticket \/ \E C : ticket' = [ticket EXCEPT !.comments = C]
        /\ UNCHANGED busVars
    BY <1>2, <1>7 DEF AddComment, EditComment, DeleteComment, Save
  <2>2. /\ ticket'.status = ticket.status /\ ticket'.history = ticket.history
        /\ ticket'.chats = ticket.chats
    BY <1>2, <2>1 DEF Ticket
  <2> QED
    BY <2>1, <2>2, SameAssignee
<1> QED
  BY <1>3, <1>5, <1>6, <1>7 DEF RequestStep

\* A published event starts the only handler in flight.
LEMMA EventStarts ==
  ASSUME FlowInv, Quiet, NEW e \in Subscribed, NEW a, Publish(e, a), Current',
         \A t \in Task : task'[t] = [pc |-> "start", event |-> e, agent |-> a] => UnderWay(t)'
  PROVE  CalmInv'
<1> DEFINE w == [pc |-> "start", event |-> e, agent |-> a]
<1>1. PICK t \in Task : task' = [task EXCEPT ![t] = w]
  BY DEF Publish
<1>2. \A o \in Task : task'[o] = IF o = t THEN w ELSE task[o]
  BY <1>1 DEF FlowInv, DeskInv, TypeOK, BusTypeOK
<1>3. \A o \in Task : o # t => task'[o].pc = "free"
  BY <1>2 DEF Quiet
<1>4. task'[t] = w /\ w.pc = "start"
  BY <1>2
<1> HIDE DEF w
<1>5. ~Quiet'
  BY <1>4 DEF Quiet
<1>6. UnderWay(t)'
  BY <1>4 DEF w
<1> QED
  BY <1>3, <1>4, <1>5, <1>6 DEF CalmInv, At

\* A request that publishes nothing anyone handles leaves the two in step.
LEMMA StaysQuiet ==
  ASSUME Quiet, UNCHANGED task, Current', Settled'
  PROVE  CalmInv'
  BY DEF Quiet, CalmInv, At

\* A request on a settled ticket: what it changes is what its event tells the
\* handlers, or what the conversations do not depend on.
LEMMA DeskCalm ==
  ASSUME Alone, Announced, FlowInv, ConvInv, CalmInv, Quiet, DeskStep
  PROVE  CalmInv'
<1>1. /\ DeskInv /\ DeskInv' /\ Current /\ Settled
      /\ conv' = conv /\ frame' = frame
  BY FlowDeskKeeps DEF FlowInv, CalmInv, DeskStep, convVars
<1>2. Current'
  BY <1>1, CurrentKept DEF DeskStep, Next
<1>3. /\ Existing' = Existing /\ OpenOnes' = OpenOnes /\ Last' = Last /\ Shown' = Shown
      /\ Shown = IF Existing = {} THEN NoAgent ELSE conv[Last].agent
  BY <1>1, ConvSame DEF Shown, Last
<1>4. Assignee(ticket)' = Assignee(ticket') /\ "absent" \notin Status
  BY AssigneeLater DEF Status
<1>5. \A r \in Request : request[r].pc \in {"idle", "loaded"}
  BY <1>1 DEF DeskInv, TypeOK, RequestType
<1>6. CASE CreateTicket
  <2>1. /\ ticket.status = "absent" /\ Existing = {} /\ OpenOnes = {} /\ ticket.chats = {}
        /\ Publish("created", NoAgent) /\ request' = request
    BY <1>1, <1>6 DEF CreateTicket, Settled, OpenOnes
  <2>2. /\ ticket'.status = "awaiting_assignment" /\ ticket'.chats = {}
        /\ Assignee(ticket') = NoAgent
    BY <1>6 DEF CreateTicket, NewTicket, Assignee, ActiveEntries
  <2>3. \A r \in Request : request'[r].pc = "idle"
    BY <1>1, <1>4, <1>5, <2>1 DEF Current
  <2>4. "created" \in Subscribed
    BY DEF Subscribed
  <2>5. ASSUME NEW t \in Task,
               task'[t] = [pc |-> "start", event |-> "created", agent |-> NoAgent]
        PROVE  UnderWay(t)'
    BY <1>3, <1>4, <2>1, <2>2, <2>3, <2>5 DEF UnderWay, Opening, Unfinished
  <2> QED
    BY <1>2, <2>1, <2>4, <2>5, EventStarts
<1>7. ASSUME NEW r \in Request, RequestStep(r), ~Load(r), ~Refuse(r)
      PROVE  \A o \in Request : request'[o].pc = "idle"
  <2>1. request' = [request EXCEPT ![r] = IdleRequest]
    BY <1>7 DEF RequestStep, Take, Assign, Escalate, Transfer, Cancel, UpdateStatus,
       UpdateTicket, AddComment, EditComment, DeleteComment, Save
  <2>2. DOMAIN request = Request
    BY <1>1 DEF DeskInv, TypeOK
  <2> QED
    BY <2>1, <2>2 DEF Alone, IdleRequest
<1>8. ASSUME NEW r \in Request, Assign(r) \/ Escalate(r) \/ Transfer(r)
      PROVE  CalmInv'
  <2>1. PICK a \in Agent, e \in {"assignee", "escalated"} :
          /\ Assignee(ticket') = a /\ Publish(e, a)
    BY <1>1, <1>8, HandsOver
  <2>2. /\ ticket.status \in Status \ {"finished"}
        /\ ticket'.status \in Status \ {"finished"} /\ ticket'.chats = ticket.chats
    BY <1>1, <1>8, HandsOver
  <2>3. Existing # {} /\ OpenOnes = {Last} /\ ticket.chats = Existing
    BY <1>1, <1>4, <2>2 DEF Settled
  <2>4. \A o \in Request : request'[o].pc = "idle"
    <3>1. RequestStep(r) /\ ~Load(r) /\ ~Refuse(r)
      <4>1. request[r].pc = "loaded" /\ Accepts(request[r].args, request[r].seen)
        BY <1>8 DEF Assign, Escalate, Transfer, Ready, Accepts
      <4> QED
        BY <1>8, <4>1 DEF RequestStep, Load, Refuse
    <3> QED
      BY <1>7, <3>1
  <2>5. e \in Subscribed
    BY DEF Subscribed
  <2>6. ASSUME NEW t \in Task, task'[t] = [pc |-> "start", event |-> e, agent |-> a]
        PROVE  UnderWay(t)'
    BY <1>3, <1>4, <2>1, <2>2, <2>3, <2>4, <2>6
       DEF UnderWay, Reassigning, Escalating, Unfinished
  <2> QED
    BY <1>2, <2>1, <2>5, <2>6, EventStarts
<1>9. ASSUME NEW r \in Request, RequestStep(r), ~(Assign(r) \/ Escalate(r) \/ Transfer(r))
      PROVE  CalmInv'
  <2>1. ~Take(r)
    <3>1. request[r].pc = "loaded" => request[r].args.op \in Operation \union
            {"assign", "escalate", "transfer", "update_status", "update_ticket", "cancel",
             "add_comment", "update_comment", "delete_comment"}
      BY <1>1, LoadedCopy DEF RequestArgs
    <3> QED
      BY <3>1 DEF Announced, Take, Ready
  <2>2. ticket'.chats = ticket.chats
    BY <1>1, <1>9, <2>1, KeepsOrMoves
  <2>3. CASE /\ ticket'.status = ticket.status
             /\ Assignee(ticket') = Assignee(ticket)
             /\ UNCHANGED busVars
    <3>1. Settled'
      BY <1>1, <1>3, <1>4, <2>2, <2>3 DEF Settled
    <3> QED
      BY <1>2, <2>3, <3>1, StaysQuiet DEF busVars
  <2>4. CASE /\ ticket.status \in Status \ {"finished"}
             /\ ticket'.status \in Status \ {"finished"}
             /\ Assignee(ticket') \in {Assignee(ticket), NoAgent}
             /\ UNCHANGED task
    <3>1. Settled'
      BY <1>1, <1>3, <1>4, <2>2, <2>4 DEF Settled
    <3> QED
      BY <1>2, <2>4, <3>1, StaysQuiet
  <2>5. CASE /\ ticket.status \in Status \ {"finished"}
             /\ ticket'.status = "finished"
             /\ Assignee(ticket') = Assignee(ticket)
             /\ Publish("closed", NoAgent)
    <3>1. ~Load(r) /\ ~Refuse(r)
      BY <2>5 DEF Load, Refuse
    <3>2. Existing # {} /\ OpenOnes = {Last} /\ ticket.chats = Existing
      BY <1>1, <1>4, <2>5 DEF Settled
    <3>3. "closed" \in Subscribed
      BY DEF Subscribed
    <3>4. ASSUME NEW t \in Task,
                 task'[t] = [pc |-> "start", event |-> "closed", agent |-> NoAgent]
          PROVE  UnderWay(t)'
      <4>1. \A o \in Request : request'[o].pc = "idle"
        BY <1>7, <1>9, <3>1
      <4> QED
        BY <1>1, <1>3, <1>4, <2>2, <2>5, <3>2, <3>4, <4>1 DEF UnderWay, Closing, Settled
    <3> QED
      BY <1>2, <2>5, <3>3, <3>4, EventStarts
  <2> QED
    BY <1>1, <1>9, <2>1, <2>3, <2>4, <2>5, KeepsOrMoves
<1> QED
  BY <1>6, <1>8, <1>9 DEF DeskStep, DeskNext

\* Before the ticket is created, nothing is there.
LEMMA CalmStarts == FlowInit => CalmInv
<1> SUFFICES ASSUME FlowInit PROVE CalmInv
  OBVIOUS
<1>1. /\ ticket = Absent /\ \A r \in Request : request[r] = IdleRequest
      /\ \A t \in Task : task[t].pc = "free"
  BY DEF FlowInit, DeskInit, BusInit, FreeSlot
<1>2. Existing = {}
  BY DEF FlowInit, ConvInit, Existing, NoConversation, NewConversation
<1>3. /\ Absent.status = "absent" /\ Absent.history = <<>> /\ Absent.chats = {}
      /\ IdleRequest.pc = "idle"
  BY DEF Absent, AnyTicket, NewTicket, IdleRequest
<1>4. Assignee(ticket) = NoAgent
  BY <1>1, <1>3 DEF Assignee, ActiveEntries
<1>5. Settled /\ Current
  BY <1>1, <1>2, <1>3, <1>4 DEF Settled, Current
<1> QED
  BY <1>1, <1>5 DEF CalmInv, At

\* Every calm step keeps ticket and conversations in step.
LEMMA CalmStepKeeps ==
  ASSUME Alone, Announced, Linear, FlowInv, ConvInv, CalmInv, [CalmNext]_flowVars
  PROVE  CalmInv'
<1>1. CASE Quiet /\ DeskStep
  BY <1>1, DeskCalm
<1>2. ASSUME NEW t \in Task, HandlerStep(t), UNCHANGED <<deskVars, copy>> PROVE CalmInv'
  <2>1. UNCHANGED <<ticket, request>>
    BY <1>2 DEF deskVars
  <2> QED
    BY <1>2, <2>1, StartsCalm, InsertCalm, WritesCalm, EndsCalm DEF HandlerStep
<1>3. ASSUME NEW t \in Task, AttachRead(t) \/ AttachSave(t) PROVE CalmInv'
  BY <1>3, AttachCalm
<1>4. CASE UNCHANGED flowVars
  <2>1. UNCHANGED <<ticket, request, task, fired, conv, frame, copy>>
    BY <1>4 DEF flowVars, vars, convVars
  <2>2. /\ Existing' = Existing /\ OpenOnes' = OpenOnes /\ Last' = Last /\ Shown' = Shown
        /\ Assignee(ticket)' = Assignee(ticket)
    BY <2>1, ConvSame, AssigneeLater
  <2>3. \A t \in Task : UnderWay(t) => UnderWay(t)'
    BY <2>1, <2>2 DEF UnderWay, Opening, Reassigning, Escalating, Closing, Unfinished
  <2>4. Settled => Settled'
    BY <2>1, <2>2 DEF Settled
  <2>5. Current'
    BY <2>1 DEF CalmInv, Current
  <2> QED
    BY <2>1, <2>3, <2>4, <2>5 DEF CalmInv, At, Quiet
<1> QED
  BY <1>1, <1>2, <1>3, <1>4 DEF CalmNext, FlowHandlerStep

\* A calm behaviour is one of the composition.
LEMMA CalmIsFlow == [CalmNext]_flowVars => [FlowNext]_flowVars
  BY DEF CalmNext, FlowNext, HandlersNext

\* One request at a time, each followed by its handlers: the invariant that says
\* how far a handler has brought ticket and conversations.
THEOREM CalmInvariant == Alone /\ Announced /\ Linear => (CalmSpec => []CalmInv)
<1> SUFFICES ASSUME Alone, Announced, Linear PROVE CalmSpec => []CalmInv
  OBVIOUS
<1>1. FlowInv /\ ConvInv /\ CalmInv /\ [CalmNext]_flowVars => CalmInv'
  BY CalmStepKeeps
<1>2. CalmSpec => FlowSpec
  BY CalmIsFlow, PTL DEF CalmSpec, FlowSpec
<1> QED
  BY <1>1, <1>2, CalmStarts, FlowInvariant, FlowConversations, PTL DEF CalmSpec

\* Once the handlers have run, the newest conversation shows the assignee.
THEOREM CalmInStep ==
  Alone /\ Announced /\ Linear => (CalmSpec => []ConversationInStep)
<1> SUFFICES ASSUME Alone, Announced, Linear PROVE CalmSpec => []ConversationInStep
  OBVIOUS
<1>1. CalmInv => ConversationInStep
  BY DEF CalmInv, Settled, ConversationInStep
<1> QED
  BY <1>1, CalmInvariant, PTL

\* Once the handlers have run, a finished ticket has no open conversation, and
\* one that may still be worked on has its newest open and no other.
THEOREM CalmOpen ==
  Alone /\ Announced /\ Linear => (CalmSpec => []OpenWhileUnfinished)
<1> SUFFICES ASSUME Alone, Announced, Linear PROVE CalmSpec => []OpenWhileUnfinished
  OBVIOUS
<1>1. CalmInv => OpenWhileUnfinished
  BY DEF CalmInv, Settled, OpenWhileUnfinished, Last
<1> QED
  BY <1>1, CalmInvariant, PTL

\* Once the handlers have run, the ticket lists all its conversations.
THEOREM CalmListed ==
  Alone /\ Announced /\ Linear => (CalmSpec => []ChatsListed)
<1> SUFFICES ASSUME Alone, Announced, Linear PROVE CalmSpec => []ChatsListed
  OBVIOUS
<1>1. CalmInv => ChatsListed
  BY DEF CalmInv, Settled, ChatsListed
<1> QED
  BY <1>1, CalmInvariant, PTL

\* With its handlers around it the desk still implements the board: listing a
\* conversation shows nothing on it.
THEOREM CalmBoard ==
  Alone /\ Announced /\ Linear => (CalmSpec => ImplementsBoard)
<1> SUFFICES ASSUME Alone, Announced, Linear PROVE CalmSpec => ImplementsBoard
  OBVIOUS
<1>1. FlowInit => Board!BoardInit
  BY BoardStart DEF FlowInit
<1>2. FlowInv /\ ConvInv /\ CalmInv /\ [CalmNext]_flowVars
        => [Board!BoardNext]_(Board!boardVars)
  <2> SUFFICES ASSUME FlowInv, ConvInv, CalmInv, [CalmNext]_flowVars
               PROVE  [Board!BoardNext]_(Board!boardVars)
    OBVIOUS
  <2>1. CASE DeskStep
    BY <2>1, BoardStep DEF FlowInv, CalmInv, DeskStep, Next
  <2>2. ASSUME NEW t \in Task, AttachSave(t)
        PROVE  UNCHANGED Board!boardVars
    <3>1. ~At(t, "free") /\ task[t].pc = "attaching"
      BY <2>2 DEF AttachSave, At
    <3>2. copy[t] = ticket /\ ticket \in Ticket
      BY <3>1, CalmFacts DEF UnderWay
    <3>3. ticket' = [ticket EXCEPT !.chats = @ \union {frame[t].fresh}]
      BY <2>2, <3>2 DEF AttachSave
    <3>4. /\ ticket'.status = ticket.status /\ ticket'.level = ticket.level
          /\ ticket'.history = ticket.history
      BY <3>2, <3>3 DEF Ticket
    <3> QED
      BY <3>4, UnseenStep
  <2>3. CASE UNCHANGED ticket
    BY <2>3, UnseenStep
  <2> QED
    BY <2>1, <2>2, <2>3
       DEF CalmNext, FlowHandlerStep, AttachRead, deskVars, flowVars, vars
<1>3. CalmSpec => FlowSpec
  BY CalmIsFlow, PTL DEF CalmSpec, FlowSpec
<1> QED
  BY <1>1, <1>2, <1>3, CalmInvariant, FlowInvariant, FlowConversations, PTL
     DEF CalmSpec, ImplementsBoard, Board!BoardSpec
=============================================================================
