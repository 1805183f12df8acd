----------------------------- MODULE TicketDesk -----------------------------
(***************************************************************************)
(* One ticket document and the requests that work on it                    *)
(* (app/domains/ticket/services.py and repositories.py).                   *)
(*                                                                         *)
(* Every operation of TicketService reads the document, awaits look-ups in *)
(* another database, decides on the copy it read and writes the whole copy *)
(* back (Document.save()).  A request is therefore two steps, Load and the *)
(* operation itself, and anything may happen to the document in between.   *)
(* The look-ups (user exists, has the role "agent") select the requests    *)
(* that are enumerated: they name users that exist and have the role.      *)
(***************************************************************************)
EXTENDS EventBus, TicketStatus, Integers, Sequences, FiniteSets

CONSTANTS
  Request,     \* requests in flight at the same time
  Admin,       \* an actor with the role "admin"
  Level,       \* support levels: N1, N2, N3 as 1, 2, 3
  LevelsOf,    \* Agent -> the levels stored for him in user_levels
  Comment,     \* comments a request may add or delete
  Detail,      \* values of the fields a PATCH may overwrite
  NoItem,      \* "no comment, no detail" in the arguments of a request
  Operation,   \* the operations this instance runs
  MaxHistory,  \* bound: entries in agent_history
  Crashes      \* whether the process may stop and restart

ASSUME TicketDeskAssumption ==
  /\ Admin \notin Agent \union {NoAgent}
  /\ Level \subseteq Nat /\ Level # {}
  /\ LevelsOf \in [Agent -> SUBSET Level]
  /\ NoItem \notin Comment \union Detail /\ Detail # {}
  /\ MaxHistory \in Nat
  /\ Crashes \in BOOLEAN

VARIABLES
  ticket,      \* the stored document; status "absent" before its insertion
  request      \* Request -> [pc, args, seen]: seen is the copy that was read

deskVars == <<ticket, request>>
vars == <<ticket, request, task, fired>>

-----------------------------------------------------------------------------
(* The document.                                                           *)

\* An entry of agent_history; active stands for exit_date = None.
Entry == [agent : Agent, level : Level, active : BOOLEAN]

NewEntry(a, l) == [agent |-> a, level |-> l, active |-> TRUE]

\* closed: closed_at is set; closedBy: the agent of closed_by_agent.
Ticket == [status : Status \union {"absent"}, level : Level,
           history : Seq(Entry), closed : BOOLEAN,
           closedBy : Agent \union {NoAgent},
           comments : SUBSET Comment, detail : Detail, chats : SUBSET Nat]

ActiveEntries(t) == {i \in DOMAIN t.history : t.history[i].active}

\* The last entry without an exit date.
ActiveIndex(t) ==
  CHOOSE i \in ActiveEntries(t) : \A j \in ActiveEntries(t) : j <= i

Assignee(t) ==
  IF ActiveEntries(t) = {} THEN NoAgent ELSE t.history[ActiveIndex(t)].agent

\* Mutant: the old assignment gets no exit date.
NobodyExits(t) == t.history

ExitActive(t) ==
  IF ActiveEntries(t) = {} THEN t.history
  ELSE [t.history EXCEPT ![ActiveIndex(t)].active = FALSE]

\* A new document: only these fields are not defaults.  A ticket is taken to be
\* created without chat_ids, which the body of POST may hold.
NewTicket(l, d) ==
  [status |-> "awaiting_assignment", level |-> l, history |-> <<>>,
   closed |-> FALSE, closedBy |-> NoAgent, comments |-> {}, detail |-> d,
   chats |-> {}]

AnyTicket == NewTicket(CHOOSE l \in Level : TRUE, CHOOSE d \in Detail : TRUE)

Absent == [AnyTicket EXCEPT !.status = "absent"]

\* Mutant: closing records no metadata.
BareStatus(t, s) == [t EXCEPT !.status = s]

\* A document whose status becomes s, with the metadata of a closing.
WithStatus(t, s) ==
  IF s = "finished"
  THEN [t EXCEPT !.status = s, !.closed = TRUE, !.closedBy = Assignee(t)]
  ELSE [t EXCEPT !.status = s]

-----------------------------------------------------------------------------
(* Requests.                                                               *)

\* What a request may ask; status "same" and item NoItem: not in the body.
RequestArgs ==
  [op : Operation \intersect {"take", "assign", "escalate", "transfer"},
   agent : Agent, status : {"same"}, item : {NoItem}]
  \union
  [op : Operation \intersect {"update_status"},
   agent : Agent \union {Admin}, status : Status, item : {NoItem}]
  \union
  [op : Operation \intersect {"update_ticket"},
   agent : {NoAgent}, status : Status \union {"same"}, item : Detail \union {NoItem}]
  \union
  [op : Operation \intersect {"cancel"},
   agent : {NoAgent}, status : {"same"}, item : {NoItem}]
  \union
  [op : Operation \intersect {"add_comment", "update_comment", "delete_comment"},
   agent : {NoAgent}, status : {"same"}, item : Comment]

AnyArgs == [op |-> "none", agent |-> NoAgent, status |-> "same", item |-> NoItem]

IdleRequest == [pc |-> "idle", args |-> AnyArgs, seen |-> Absent]

\* Insertion and TICKET_CREATED; the level comes with the request body.
CreateTicket ==
  /\ ticket.status = "absent"
  /\ \E l \in Level, d \in Detail : ticket' = NewTicket(l, d)
  /\ Publish("created", NoAgent)
  /\ UNCHANGED request

\* Bound: no request that adds an entry once agent_history is full.
HasRoom(q) ==
  q.op \in {"take", "assign", "escalate", "transfer"} =>
    Len(ticket.history) < MaxHistory

\* Ticket.get: the copy the rest of the request works on.
Load(r) ==
  /\ request[r].pc = "idle"
  /\ ticket.status # "absent"
  /\ \E q \in RequestArgs :
       /\ HasRoom(q)
       /\ request' = [request EXCEPT ![r] = [pc |-> "loaded", args |-> q,
                                             seen |-> ticket]]
  /\ UNCHANGED <<ticket, busVars>>

Ready(r, op) == request[r].pc = "loaded" /\ request[r].args.op = op

\* Document.save(): the whole copy replaces the document, and the request ends.
Save(r, doc) ==
  /\ ticket' = doc
  /\ request' = [request EXCEPT ![r] = IdleRequest]

-----------------------------------------------------------------------------
(* What each operation demands of the copy it read.                        *)

\* Mutant: the level of the agent is not checked.
CanTakeAnyLevel(a, t) == Assignee(t) = NoAgent

CanTake(a, t) ==
  /\ t.level \in LevelsOf[a]
  /\ Assignee(t) = NoAgent

CanAssign(a, t) ==
  /\ t.level \in LevelsOf[a]
  /\ t.status # "finished"

\* Escalation and transfer both move an assigned, unfinished ticket elsewhere.
CanHandOver(a, t) ==
  /\ Assignee(t) # NoAgent
  /\ Assignee(t) # a
  /\ t.status # "finished"

HigherLevels(a, l) == {k \in LevelsOf[a] : k > l}

CanEscalate(a, t) == CanHandOver(a, t) /\ HigherLevels(a, t.level) # {}

CanTransfer(a, t) == CanHandOver(a, t) /\ t.level \in LevelsOf[a]

CanCancel(t) ==
  /\ t.status \notin {"finished", "cancelled"}
  /\ "cancelled" \in AllowedTransitions[t.status]

CanUpdateStatus(a, s, t) ==
  /\ Assignee(t) # NoAgent
  /\ a \in {Admin, Assignee(t)}
  /\ s # t.status
  /\ s \in AllowedTransitions[t.status]

\* Mutant: a PATCH may set any status.
PatchesAnyStatus(s, d, t) == IF s \in {"same", t.status} THEN d # NoItem ELSE TRUE

\* A body with only the present status, or with nothing, saves nothing.  Bodies
\* with an explicit null are left out.
CanUpdateTicket(s, d, t) ==
  IF s \in {"same", t.status} THEN d # NoItem ELSE s \in AllowedTransitions[t.status]

Accepts(q, t) ==
  \/ q.op = "take" /\ CanTake(q.agent, t)
  \/ q.op = "assign" /\ CanAssign(q.agent, t)
  \/ q.op = "escalate" /\ CanEscalate(q.agent, t)
  \/ q.op = "transfer" /\ CanTransfer(q.agent, t)
  \/ q.op = "cancel" /\ CanCancel(t)
  \/ q.op = "update_status" /\ CanUpdateStatus(q.agent, q.status, t)
  \/ q.op = "update_ticket" /\ CanUpdateTicket(q.status, q.item, t)
  \/ q.op = "add_comment"
  \/ q.op \in {"update_comment", "delete_comment"} /\ q.item \in t.comments

-----------------------------------------------------------------------------
(* What each operation makes of its copy.                                  *)

Taken(a, t) == [t EXCEPT !.history = Append(@, NewEntry(a, t.level))]

\* assign_ticket leaves a status other than open and awaiting_assignment alone.
Assigned(a, t) ==
  [t EXCEPT !.history = Append(ExitActive(t), NewEntry(a, t.level)),
            !.status = IF @ \in {"open", "awaiting_assignment"}
                       THEN "in_progress" ELSE @]

\* The lowest of the agent's levels above the ticket's.
TargetLevel(a, l) ==
  {k \in HigherLevels(a, l) : \A m \in HigherLevels(a, l) : k <= m}

Escalated(a, k, t) ==
  [t EXCEPT !.history = Append(ExitActive(t), NewEntry(a, k)),
            !.level = k,
            !.status = "in_progress"]

Transferred(a, t) ==
  [t EXCEPT !.history = Append(ExitActive(t), NewEntry(a, t.level)),
            !.status = "in_progress"]

Cancelled(t) ==
  [t EXCEPT !.history = ExitActive(t), !.status = "cancelled"]

Updated(s, d, t) ==
  LET u == IF s \in {"same", t.status} THEN t ELSE WithStatus(t, s)
  IN  IF d = NoItem THEN u ELSE [u EXCEPT !.detail = d]

-----------------------------------------------------------------------------
(* The second half of every request: decide on the copy, save, publish.    *)

Take(r) ==
  LET a == request[r].args.agent
      t == request[r].seen
  IN  /\ Ready(r, "take")
      /\ CanTake(a, t)
      /\ Save(r, Taken(a, t))
      /\ UNCHANGED busVars

Assign(r) ==
  LET a == request[r].args.agent
      t == request[r].seen
  IN  /\ Ready(r, "assign")
      /\ CanAssign(a, t)
      /\ Save(r, Assigned(a, t))
      /\ Publish("assignee", a)

Escalate(r) ==
  LET a == request[r].args.agent
      t == request[r].seen
  IN  /\ Ready(r, "escalate")
      /\ CanEscalate(a, t)
      /\ \E k \in TargetLevel(a, t.level) : Save(r, Escalated(a, k, t))
      /\ Publish("escalated", a)

Transfer(r) ==
  LET a == request[r].args.agent
      t == request[r].seen
  IN  /\ Ready(r, "transfer")
      /\ CanTransfer(a, t)
      /\ Save(r, Transferred(a, t))
      /\ Publish("assignee", a)

Cancel(r) ==
  LET t == request[r].seen IN
  /\ Ready(r, "cancel")
  /\ CanCancel(t)
  /\ Save(r, Cancelled(t))
  /\ Publish("cancelled", NoAgent)

\* Mutant: nobody is told.
ClosesSilently(s) == UNCHANGED busVars

\* TICKET_CLOSED follows the save that made the status finished.
PublishIfClosed(s) ==
  IF s = "finished" THEN Publish("closed", NoAgent) ELSE UNCHANGED busVars

UpdateStatus(r) ==
  LET q == request[r].args
      t == request[r].seen
  IN  /\ Ready(r, "update_status")
      /\ CanUpdateStatus(q.agent, q.status, t)
      /\ Save(r, WithStatus(t, q.status))
      /\ PublishIfClosed(q.status)

UpdateTicket(r) ==
  LET q == request[r].args
      t == request[r].seen
  IN  /\ Ready(r, "update_ticket")
      /\ CanUpdateTicket(q.status, q.item, t)
      /\ Save(r, Updated(q.status, q.item, t))
      /\ PublishIfClosed(IF q.status = t.status THEN "same" ELSE q.status)

AddComment(r) ==
  LET t == request[r].seen IN
  /\ Ready(r, "add_comment")
  /\ Save(r, [t EXCEPT !.comments = @ \union {request[r].args.item}])
  /\ UNCHANGED busVars

\* The text of a comment is not modelled: what counts is that the copy is saved.
EditComment(r) ==
  LET t == request[r].seen IN
  /\ Ready(r, "update_comment")
  /\ request[r].args.item \in t.comments
  /\ Save(r, t)
  /\ UNCHANGED busVars

DeleteComment(r) ==
  LET t == request[r].seen
      c == request[r].args.item
  IN  /\ Ready(r, "delete_comment")
      /\ c \in t.comments
      /\ Save(r, [t EXCEPT !.comments = @ \ {c}])
      /\ UNCHANGED busVars

\* An HTTP error, or the reply of a request that has nothing to do.
Refuse(r) ==
  /\ request[r].pc = "loaded"
  /\ ~Accepts(request[r].args, request[r].seen)
  /\ request' = [request EXCEPT ![r] = IdleRequest]
  /\ UNCHANGED <<ticket, busVars>>

RequestStep(r) ==
  \/ Load(r)
  \/ Take(r)
  \/ Assign(r)
  \/ Escalate(r)
  \/ Transfer(r)
  \/ Cancel(r)
  \/ UpdateStatus(r)
  \/ UpdateTicket(r)
  \/ AddComment(r)
  \/ EditComment(r)
  \/ DeleteComment(r)
  \/ Refuse(r)

\* The process stops and starts again: only the documents are still there.
Crash ==
  /\ Crashes
  /\ request' = [r \in Request |-> IdleRequest]
  /\ TasksLost
  /\ UNCHANGED <<ticket, fired>>

DeskInit ==
  /\ ticket = Absent
  /\ request = [r \in Request |-> IdleRequest]
  /\ BusInit

DeskNext == CreateTicket \/ \E r \in Request : RequestStep(r)

-----------------------------------------------------------------------------
(* The desk on its own: the handlers of its events run elsewhere and end.  *)

HandlerEnds(t) ==
  /\ task[t].pc # "free"
  /\ End(t)
  /\ UNCHANGED <<ticket, request, fired>>

Next == DeskNext \/ Crash \/ \E t \in Task : HandlerEnds(t)

Spec == DeskInit /\ [][Next]_vars

-----------------------------------------------------------------------------
(* Properties.                                                             *)

RequestType ==
  [pc : {"idle"}, args : {AnyArgs}, seen : Ticket]
  \union [pc : {"loaded"}, args : RequestArgs, seen : Ticket]

\* The stored document, the copies in flight and the tasks have their shape.
TypeOK ==
  /\ ticket \in Ticket
  /\ request \in [Request -> RequestType]
  /\ BusTypeOK

OneActive(t) == \A i \in DOMAIN t.history : t.history[i].active => i = Len(t.history)

\* However requests interleave and overwrite each other, a stored ticket has
\* at most one assignment without exit date, and it is the last entry: what
\* _get_active_assignment finds is the only answer it could give.
SingleActiveAssignment == OneActive(ticket)

ClosingRecorded(t) ==
  /\ t.closed <=> t.status = "finished"
  /\ t.closedBy # NoAgent => t.status = "finished" /\ Assignee(t) = t.closedBy

\* The closing dashboard selects on closed_at and groups by closed_by_agent:
\* both are there exactly when the status says finished, also after stale
\* copies were saved over newer ones, and the agent is the ticket's assignee.
ClosingConsistent == ClosingRecorded(ticket)

Climbing(t) ==
  /\ \A i, j \in DOMAIN t.history : i <= j => t.history[i].level <= t.history[j].level
  /\ \A i \in DOMAIN t.history : t.history[i].level <= t.level

\* Escalation only ever raises the support level, and the snapshots kept in
\* agent_history never exceed the level of the ticket.
LevelsClimb == Climbing(ticket)

Qualified(t) ==
  \A i \in ActiveEntries(t) :
    /\ t.history[i].level = t.level
    /\ t.level \in LevelsOf[t.history[i].agent]

\* Whoever is the active assignee holds the current level of the ticket, even
\* when the level was raised by a request his own request did not see.
AssigneeQualified == Qualified(ticket)

\* The inductive invariant behind the four above: the copies that requests in
\* flight are about to save are as sound as the document.
Sound(t) == OneActive(t) /\ ClosingRecorded(t) /\ Climbing(t) /\ Qualified(t)

DeskInv ==
  /\ TypeOK
  /\ Sound(ticket)
  /\ \A r \in Request : Sound(request[r].seen)

\* The board the desk shows: status, level and assignee of the document.
Board == INSTANCE TicketBoard
         WITH status <- ticket.status, level <- ticket.level,
              assignee <- Assignee(ticket)

\* When requests do not overlap, the desk implements the board: what it shows
\* changes along the transition table or by handing the ticket to an agent who
\* holds its level, and by nothing else.
ImplementsBoard == Board!BoardSpec

\* A cancelled ticket stays cancelled: the transition table leaves no way out.
CancelledIsFinal == [][ticket.status = "cancelled" => ticket'.status = "cancelled"]_vars
=============================================================================
