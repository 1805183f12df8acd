-------------------------- MODULE TicketDeskProofs --------------------------
(***************************************************************************)
(* Proofs about TicketDesk: the document and every copy of it that a       *)
(* request is about to save are well typed and sound (DeskInv), for any    *)
(* number of requests, agents, levels and handlers in flight.  Each        *)
(* operation gets a lemma about the document it makes of its copy.  The    *)
(* second half shows that the desk implements TicketBoard when requests do *)
(* not overlap.                                                            *)
(***************************************************************************)
EXTENDS TicketDesk, SequenceTheorems, TLAPS

USE DEF Entry, NewEntry, ActiveEntries

-----------------------------------------------------------------------------
(* The history and its active entry.                                       *)

\* Append adds e at the end and leaves the rest alone.
LEMMA AppendEntry ==
  ASSUME NEW s \in Seq(Entry), NEW e \in Entry
  PROVE  /\ Append(s, e) \in Seq(Entry)
         /\ Len(Append(s, e)) = Len(s) + 1
         /\ DOMAIN Append(s, e) = 1..(Len(s) + 1)
         /\ \A i \in 1..Len(s) : Append(s, e)[i] = s[i]
         /\ Append(s, e)[Len(s) + 1] = e
  OBVIOUS

\* A history is a sequence of entries, whose levels are numbers.
LEMMA HistoryType ==
  ASSUME NEW t \in Ticket
  PROVE  /\ t.history \in Seq(Entry)
         /\ Len(t.history) \in Nat
         /\ DOMAIN t.history = 1..Len(t.history)
         /\ \A i \in 1..Len(t.history) :
              /\ t.history[i] \in Entry
              /\ t.history[i].agent \in Agent
              /\ t.history[i].level \in Nat
<1>1. t.history \in Seq(Entry)
  BY DEF Ticket
<1>2. \A i \in 1..Len(t.history) : t.history[i] \in Entry
  <2> HIDE DEF Entry
  <2> QED
    BY <1>1
<1>3. \A x \in Entry : x.agent \in Agent /\ x.level \in Nat
  BY TicketDeskAssumption
<1> QED
  <2> HIDE DEF Entry
  <2> QED
    BY <1>1, <1>2, <1>3

\* With at most one active entry, it is the last one, and it is the assignee.
LEMMA ActiveEntry ==
  ASSUME NEW t \in Ticket, OneActive(t)
  PROVE  \/ /\ ActiveEntries(t) = {}
            /\ Assignee(t) = NoAgent
         \/ /\ ActiveEntries(t) = {Len(t.history)}
            /\ ActiveIndex(t) = Len(t.history)
            /\ Len(t.history) \in DOMAIN t.history
            /\ Assignee(t) = t.history[Len(t.history)].agent
            /\ Assignee(t) \in Agent
<1> DEFINE n == Len(t.history)
<1>1. t.history \in Seq(Entry) /\ DOMAIN t.history = 1..n /\ n \in Nat
  BY HistoryType
<1>2. ActiveEntries(t) \subseteq {n}
  BY <1>1 DEF OneActive
<1>3. CASE ActiveEntries(t) = {}
  BY <1>3 DEF Assignee
<1>4. CASE ActiveEntries(t) = {n}
  <2>1. ActiveIndex(t) = n
    BY <1>1, <1>4 DEF ActiveIndex
  <2>2. n \in DOMAIN t.history
    BY <1>4
  <2>3. t.history[n].agent \in Agent
    BY <1>1, <2>2, HistoryType
  <2> QED
    BY <1>4, <2>1, <2>2, <2>3 DEF Assignee
<1> QED
  BY <1>2, <1>3, <1>4

\* Leaving: the entries keep agent and level, and none is active any more.
LEMMA ExitedHistory ==
  ASSUME NEW t \in Ticket, OneActive(t)
  PROVE  /\ ExitActive(t) \in Seq(Entry)
         /\ Len(ExitActive(t)) = Len(t.history)
         /\ \A i \in 1..Len(t.history) :
              /\ ~ExitActive(t)[i].active
              /\ ExitActive(t)[i].level = t.history[i].level
<1> DEFINE n == Len(t.history)
           e == [t.history[n] EXCEPT !.active = FALSE]
<1>1. t.history \in Seq(Entry) /\ DOMAIN t.history = 1..n /\ n \in Nat
  BY HistoryType
<1>2. CASE ActiveEntries(t) = {}
  BY <1>1, <1>2 DEF ExitActive
<1>3. CASE ActiveEntries(t) # {}
  <2>1. ActiveEntries(t) = {n} /\ ActiveIndex(t) = n /\ n \in 1..n
    BY <1>1, <1>3, ActiveEntry
  <2>2. ExitActive(t) = [t.history EXCEPT ![n] = e]
    BY <1>3, <2>1 DEF ExitActive
  <2>3. t.history[n] \in Entry
    BY <1>1, <2>1, HistoryType
  <2>4. e \in Entry /\ ~e.active /\ e.level = t.history[n].level
    BY <2>3
  <2>5. /\ [t.history EXCEPT ![n] = e] \in Seq(Entry)
        /\ Len([t.history EXCEPT ![n] = e]) = n
        /\ \A j \in 1..n : [t.history EXCEPT ![n] = e][j] = IF j = n THEN e ELSE t.history[j]
    <3> HIDE DEF e
    <3> QED
      BY <1>1, <2>1, <2>4, ExceptSeq
  <2>6. \A j \in 1..n : j # n => ~t.history[j].active
    BY <1>1, <2>1
  <2> QED
    <3> HIDE DEF e
    <3> QED
      BY <2>2, <2>4, <2>5, <2>6
<1> QED
  BY <1>2, <1>3

\* A ticket that goes to an agent qualified for its new level, where the old
\* assignee has left, is sound.
LEMMA HandedOver ==
  ASSUME NEW t \in Ticket, Sound(t), NEW u \in Ticket,
         NEW a \in Agent, NEW l \in Level, l \in LevelsOf[a], l >= t.level,
         u.history = Append(ExitActive(t), NewEntry(a, l)), u.level = l,
         u.closed <=> u.status = "finished", u.closedBy = NoAgent
  PROVE  Sound(u)
<1> DEFINE n == Len(t.history)
<1>1. t.level \in Nat /\ l \in Nat
  BY TicketDeskAssumption DEF Ticket
<1>2. NewEntry(a, l) \in Entry
  OBVIOUS
<1>3. /\ ExitActive(t) \in Seq(Entry) /\ Len(ExitActive(t)) = n
      /\ \A i \in 1..n : ~ExitActive(t)[i].active
                         /\ ExitActive(t)[i].level = t.history[i].level
  BY ExitedHistory DEF Sound
<1>4. /\ n \in Nat /\ DOMAIN t.history = 1..n
      /\ \A i \in 1..n : t.history[i].level \in Nat
  BY HistoryType
<1>5. /\ DOMAIN u.history = 1..(n + 1) /\ Len(u.history) = n + 1
      /\ \A i \in 1..n : ~u.history[i].active
                         /\ u.history[i].level = t.history[i].level
      /\ u.history[n + 1] = NewEntry(a, l)
  <2> HIDE DEF NewEntry, Entry
  <2> QED
    BY <1>2, <1>3, AppendEntry
<1>6. OneActive(u)
  BY <1>4, <1>5 DEF OneActive
<1>7. Climbing(u)
  <2>1. \A i, j \in 1..n : i <= j => t.history[i].level <= t.history[j].level
    BY <1>4 DEF Sound, Climbing
  <2>2. \A i \in 1..n : t.history[i].level <= l
    BY <1>1, <1>4 DEF Sound, Climbing
  <2>3. \A i \in 1..(n + 1) : u.history[i].level <= l
    BY <1>1, <1>4, <1>5, <2>2
  <2> QED
    BY SMTT(30), <1>1, <1>4, <1>5, <2>1, <2>2, <2>3 DEF Climbing
<1>8. Qualified(u)
  <2>1. ActiveEntries(u) \subseteq {n + 1}
    BY <1>4, <1>5
  <2> QED
    BY <1>5, <2>1 DEF Qualified
<1>9. ClosingRecorded(u)
  BY DEF ClosingRecorded
<1> QED
  BY <1>6, <1>7, <1>8, <1>9 DEF Sound

\* A ticket with the same history and level as a sound one, closed exactly
\* when it is finished and by its assignee, is sound.
LEMMA SameHistory ==
  ASSUME NEW t \in Ticket, Sound(t), NEW u \in Ticket,
         u.history = t.history, u.level = t.level,
         u.closed <=> u.status = "finished",
         u.closedBy # NoAgent => u.status = "finished" /\ Assignee(t) = u.closedBy
  PROVE  Sound(u)
  BY DEF Sound, OneActive, ClosingRecorded, Climbing, Qualified, Assignee, ActiveIndex

-----------------------------------------------------------------------------
(* What the operations make of a sound copy is a sound document.           *)

\* A copy with a longer history, and any status but "absent", is a ticket.
LEMMA NewHistoryType ==
  ASSUME NEW t \in Ticket, OneActive(t), NEW a \in Agent, NEW l \in Level
  PROVE  /\ ExitActive(t) \in Seq(Entry)
         /\ Append(ExitActive(t), NewEntry(a, l)) \in Seq(Entry)
<1>1. ExitActive(t) \in Seq(Entry) /\ NewEntry(a, l) \in Entry
  BY ExitedHistory
<1> QED
  <2> HIDE DEF Entry, NewEntry
  <2> QED
    BY <1>1, AppendEntry

\* A ticket may move at its own level.
LEMMA OwnLevel ==
  ASSUME NEW t \in Ticket
  PROVE  t.level \in Level /\ t.level \in Nat /\ t.level >= t.level
<1>1. t.level \in Level
  BY DEF Ticket
<1>2. t.level \in Nat
  BY <1>1, TicketDeskAssumption
<1>3. \A n \in Nat : n >= n
  OBVIOUS
<1> QED
  BY <1>1, <1>2, <1>3

\* take on a sound copy yields a sound document: the taker is its only active
\* entry and holds its level.
LEMMA TakenSound ==
  ASSUME NEW t \in Ticket, Sound(t), NEW a \in Agent, CanTake(a, t)
  PROVE  Taken(a, t) \in Ticket /\ Sound(Taken(a, t))
<1> DEFINE u == Taken(a, t)
<1>1. OneActive(t) /\ ClosingRecorded(t)
  BY DEF Sound
<1>2. t.level \in Level /\ t.level \in LevelsOf[a] /\ t.level >= t.level
  BY OwnLevel DEF CanTake
<1>3. ActiveEntries(t) = {} /\ ExitActive(t) = t.history
  BY <1>1, ActiveEntry, EventBusAssumption DEF CanTake, ExitActive
<1>4. t.closedBy = NoAgent
  BY <1>1 DEF CanTake, ClosingRecorded
<1>5. u \in Ticket
  <2>1. Append(t.history, NewEntry(a, t.level)) \in Seq(Entry)
    BY <1>1, <1>2, <1>3, NewHistoryType
  <2> QED
    <3> HIDE DEF Entry, NewEntry
    <3> QED
      BY <2>1 DEF Taken, Ticket
<1>6. /\ u.history = Append(ExitActive(t), NewEntry(a, t.level))
      /\ u.level = t.level /\ u.closedBy = NoAgent
      /\ u.closed <=> u.status = "finished"
  BY <1>1, <1>3, <1>4 DEF Taken, Ticket, ClosingRecorded
<1>7. Sound(u)
  <2> HIDE DEF u, NewEntry
  <2> QED
    BY <1>2, <1>5, <1>6, HandedOver
<1> QED
  BY <1>5, <1>7

\* assign, escalate and transfer give an unfinished ticket a new last entry.
LEMMA MovedSound ==
  ASSUME NEW t \in Ticket, Sound(t), t.status # "finished",
         NEW a \in Agent, NEW l \in Level, l \in LevelsOf[a], l >= t.level,
         NEW u \in Ticket, u.history = Append(ExitActive(t), NewEntry(a, l)),
         u.level = l, u.status # "finished",
         u.closed = t.closed, u.closedBy = t.closedBy
  PROVE  Sound(u)
<1>1. ClosingRecorded(t)
  BY DEF Sound
<1>2. ~t.closed /\ t.closedBy = NoAgent
  BY <1>1 DEF ClosingRecorded, Ticket
<1> HIDE DEF NewEntry
<1> QED
  BY <1>2, HandedOver

\* assign on a sound copy yields a sound document, whatever its status.
LEMMA AssignedSound ==
  ASSUME NEW t \in Ticket, Sound(t), NEW a \in Agent, CanAssign(a, t)
  PROVE  Assigned(a, t) \in Ticket /\ Sound(Assigned(a, t))
<1> DEFINE u == Assigned(a, t)
           h == Append(ExitActive(t), NewEntry(a, t.level))
<1>1. t.level \in Level /\ t.level \in LevelsOf[a] /\ t.level >= t.level
  BY OwnLevel DEF CanAssign
<1>2. h \in Seq(Entry)
  BY <1>1, NewHistoryType DEF Sound
<1> HIDE DEF Entry, NewEntry
<1>3. /\ u \in Ticket /\ u.history = h /\ u.level = t.level /\ u.status # "finished"
      /\ u.closed = t.closed /\ u.closedBy = t.closedBy
  BY <1>2 DEF Assigned, CanAssign, Ticket, Status
<1>4. t.status # "finished"
  BY DEF CanAssign
<1> HIDE DEF u
<1>5. Sound(u)
  BY <1>1, <1>3, <1>4, MovedSound
<1> QED
  BY <1>3, <1>5 DEF u

\* escalate on a sound copy yields a sound document at the higher level.
LEMMA EscalatedSound ==
  ASSUME NEW t \in Ticket, Sound(t), NEW a \in Agent, CanEscalate(a, t),
         NEW k \in TargetLevel(a, t.level)
  PROVE  Escalated(a, k, t) \in Ticket /\ Sound(Escalated(a, k, t))
<1> DEFINE u == Escalated(a, k, t)
           h == Append(ExitActive(t), NewEntry(a, k))
<1>1. k \in Level /\ k \in LevelsOf[a] /\ k > t.level
  BY TicketDeskAssumption DEF TargetLevel, HigherLevels
<1>2. k >= t.level
  <2>1. k \in Nat /\ t.level \in Nat
    BY <1>1, OwnLevel, TicketDeskAssumption
  <2>2. \A m, n \in Nat : m > n => m >= n
    OBVIOUS
  <2> QED
    BY <1>1, <2>1, <2>2
<1>3. h \in Seq(Entry)
  BY <1>1, NewHistoryType DEF Sound
<1> HIDE DEF Entry, NewEntry
<1>4. /\ u \in Ticket /\ u.history = h /\ u.level = k /\ u.status # "finished"
      /\ u.closed = t.closed /\ u.closedBy = t.closedBy
  BY <1>1, <1>3 DEF Escalated, Ticket, Status
<1>5. t.status # "finished"
  BY DEF CanEscalate, CanHandOver
<1> HIDE DEF u
<1>6. Sound(u)
  BY <1>1, <1>2, <1>4, <1>5, MovedSound
<1> QED
  BY <1>4, <1>6 DEF u

\* transfer on a sound copy yields a sound document at the same level.
LEMMA TransferredSound ==
  ASSUME NEW t \in Ticket, Sound(t), NEW a \in Agent, CanTransfer(a, t)
  PROVE  Transferred(a, t) \in Ticket /\ Sound(Transferred(a, t))
<1> DEFINE u == Transferred(a, t)
           h == Append(ExitActive(t), NewEntry(a, t.level))
<1>1. t.level \in Level /\ t.level \in LevelsOf[a] /\ t.level >= t.level
  BY OwnLevel DEF CanTransfer
<1>2. h \in Seq(Entry)
  BY <1>1, NewHistoryType DEF Sound
<1> HIDE DEF Entry, NewEntry
<1>3. /\ u \in Ticket /\ u.history = h /\ u.level = t.level /\ u.status # "finished"
      /\ u.closed = t.closed /\ u.closedBy = t.closedBy
  BY <1>2 DEF Transferred, Ticket, Status
<1>4. t.status # "finished"
  BY DEF CanTransfer, CanHandOver
<1> HIDE DEF u
<1>5. Sound(u)
  BY <1>1, <1>3, <1>4, MovedSound
<1> QED
  BY <1>3, <1>5 DEF u

\* cancel on a sound copy yields a sound document without an assignee.
LEMMA CancelledSound ==
  ASSUME NEW t \in Ticket, Sound(t), CanCancel(t)
  PROVE  Cancelled(t) \in Ticket /\ Sound(Cancelled(t))
<1> DEFINE u == Cancelled(t)
           n == Len(t.history)
<1>1. OneActive(t) /\ ClosingRecorded(t) /\ Climbing(t)
  BY DEF Sound
<1>2. /\ ExitActive(t) \in Seq(Entry) /\ Len(ExitActive(t)) = n
      /\ \A i \in 1..n : ~ExitActive(t)[i].active
                         /\ ExitActive(t)[i].level = t.history[i].level
  BY <1>1, ExitedHistory
<1>3. n \in Nat /\ DOMAIN t.history = 1..n
  BY HistoryType
<1>4. ~t.closed /\ t.closedBy = NoAgent
  BY <1>1 DEF ClosingRecorded, CanCancel, Ticket
<1>5. u = [t EXCEPT !.history = ExitActive(t), !.status = "cancelled"]
  BY DEF Cancelled
<1>6. u \in Ticket
  <2> HIDE DEF Entry, u
  <2> QED
    BY <1>2, <1>5 DEF Ticket, Status
<1>7. /\ u.history = ExitActive(t) /\ u.level = t.level
      /\ u.status = "cancelled" /\ ~u.closed /\ u.closedBy = NoAgent
  BY <1>4, <1>5 DEF Ticket
<1> HIDE DEF u
<1>8. DOMAIN u.history = 1..n
  <2> HIDE DEF Entry
  <2> QED
    BY <1>2, <1>7
<1>9. OneActive(u) /\ Qualified(u)
  BY <1>2, <1>7, <1>8 DEF OneActive, Qualified
<1>10. Climbing(u)
  BY <1>1, <1>2, <1>3, <1>7, <1>8 DEF Climbing
<1>11. ClosingRecorded(u)
  BY <1>7 DEF ClosingRecorded
<1> QED
  BY <1>1, <1>6, <1>9, <1>10, <1>11 DEF Sound, u

\* The table has no way out of finished, so metadata and status stay in step.
LEMMA MovedByTable ==
  ASSUME NEW t \in Ticket, Sound(t), NEW s \in Status, s \in AllowedTransitions[t.status]
  PROVE  WithStatus(t, s) \in Ticket /\ Sound(WithStatus(t, s))
<1> DEFINE u == WithStatus(t, s)
<1>1. OneActive(t) /\ ClosingRecorded(t)
  BY DEF Sound
<1>2. t.status # "finished"
  BY DEF AllowedTransitions, Status
<1>3. ~t.closed /\ t.closedBy = NoAgent
  BY <1>1, <1>2 DEF ClosingRecorded, Ticket
<1>4. Assignee(t) \in Agent \union {NoAgent}
  BY <1>1, ActiveEntry
<1>5. u \in Ticket /\ u.history = t.history /\ u.level = t.level
  <2> HIDE DEF Entry
  <2> QED
    BY <1>4 DEF WithStatus, Ticket
<1>6. /\ u.closed <=> u.status = "finished"
      /\ u.closedBy # NoAgent => u.status = "finished" /\ Assignee(t) = u.closedBy
  BY <1>3 DEF WithStatus, Ticket
<1>7. Sound(u)
  <2> HIDE DEF u
  <2> QED
    BY <1>5, <1>6, SameHistory
<1> QED
  BY <1>5, <1>7

\* A PATCH on a sound copy yields a sound document, with or without a status.
LEMMA UpdatedSound ==
  ASSUME NEW t \in Ticket, Sound(t), NEW s \in Status \union {"same"},
         NEW d \in Detail \union {NoItem}, CanUpdateTicket(s, d, t)
  PROVE  Updated(s, d, t) \in Ticket /\ Sound(Updated(s, d, t))
<1> DEFINE v == IF s \in {"same", t.status} THEN t ELSE WithStatus(t, s)
           u == Updated(s, d, t)
<1> SUFFICES u \in Ticket /\ Sound(u)
  OBVIOUS
<1>1. v \in Ticket /\ Sound(v)
  BY MovedByTable DEF CanUpdateTicket
<1>2. u = IF d = NoItem THEN v ELSE [v EXCEPT !.detail = d]
  BY DEF Updated
<1> HIDE DEF u, v
<1>3. CASE d = NoItem
  BY <1>1, <1>2, <1>3
<1>4. CASE d \in Detail /\ d # NoItem
  <2>1. /\ u \in Ticket /\ u.history = v.history /\ u.level = v.level
        /\ u.closed = v.closed /\ u.closedBy = v.closedBy /\ u.status = v.status
    <3> HIDE DEF Entry
    <3> QED
      BY <1>1, <1>2, <1>4 DEF Ticket
  <2>2. ClosingRecorded(v)
    BY <1>1 DEF Sound
  <2> QED
    BY <1>1, <2>1, <2>2, SameHistory DEF ClosingRecorded
<1> QED
  BY <1>3, <1>4

\* Adding or deleting a comment touches nothing a sound document depends on.
LEMMA CommentedSound ==
  ASSUME NEW t \in Ticket, Sound(t), NEW C \in SUBSET Comment
  PROVE  [t EXCEPT !.comments = C] \in Ticket /\ Sound([t EXCEPT !.comments = C])
<1> DEFINE u == [t EXCEPT !.comments = C]
<1>1. /\ u \in Ticket /\ u.history = t.history /\ u.level = t.level
      /\ u.closed = t.closed /\ u.closedBy = t.closedBy /\ u.status = t.status
  <2> HIDE DEF Entry
  <2> QED
    BY DEF Ticket
<1>2. ClosingRecorded(t)
  BY DEF Sound
<1> HIDE DEF u
<1>3. Sound(u)
  BY <1>1, <1>2, SameHistory DEF ClosingRecorded
<1> QED
  BY <1>1, <1>3 DEF u

\* A document that was never assigned is sound.
LEMMA NewSound ==
  ASSUME NEW l \in Level, NEW d \in Detail
  PROVE  /\ NewTicket(l, d) \in Ticket /\ Sound(NewTicket(l, d))
         /\ Absent \in Ticket /\ Sound(Absent)
<1>1. ASSUME NEW u \in Ticket, u.history = <<>>, u.status # "finished", ~u.closed,
             u.closedBy = NoAgent
      PROVE  Sound(u)
  <2>1. DOMAIN u.history = {}
    BY <1>1
  <2> QED
    BY <1>1, <2>1 DEF Sound, OneActive, ClosingRecorded, Climbing, Qualified
<1>2. <<>> \in Seq(Entry)
  BY EmptySeq
<1> HIDE DEF Entry
<1>3. ASSUME NEW k \in Level, NEW e \in Detail
      PROVE  NewTicket(k, e) \in Ticket
  BY <1>2 DEF NewTicket, Ticket, Status
<1>4. Sound(NewTicket(l, d))
  BY <1>1, <1>3 DEF NewTicket
<1>5. Absent \in Ticket /\ Sound(Absent)
  <2>1. AnyTicket \in Ticket
    BY <1>3, TicketDeskAssumption DEF AnyTicket
  <2>2. Absent \in Ticket
    BY <2>1 DEF Absent, Ticket
  <2>3. /\ Absent.history = <<>> /\ Absent.status = "absent" /\ ~Absent.closed
        /\ Absent.closedBy = NoAgent
    BY DEF Absent, AnyTicket, NewTicket
  <2> QED
    BY <1>1, <2>2, <2>3
<1> QED
  BY <1>3, <1>4, <1>5

-----------------------------------------------------------------------------
(* Requests, handlers and the steps.                                       *)

\* The operation of a request says which of its arguments are there.
LEMMA ArgsType ==
  ASSUME NEW q \in RequestArgs
  PROVE  /\ q.op \in {"take", "assign", "escalate", "transfer"} => q.agent \in Agent
         /\ q.op = "update_status" => q.status \in Status
         /\ q.op = "update_ticket" =>
              q.status \in Status \union {"same"} /\ q.item \in Detail \union {NoItem}
         /\ q.op \in {"add_comment", "update_comment", "delete_comment"} => q.item \in Comment
  BY DEF RequestArgs

\* A loaded request has proper arguments and a sound copy.
LEMMA LoadedCopy ==
  ASSUME DeskInv, NEW r \in Request, request[r].pc = "loaded"
  PROVE  /\ request[r].args \in RequestArgs
         /\ request[r].seen \in Ticket
         /\ Sound(request[r].seen)
<1>1. request[r] \in RequestType /\ Sound(request[r].seen)
  BY DEF DeskInv, TypeOK
<1>2. \A x \in RequestType : x.pc = "loaded" => x.args \in RequestArgs /\ x.seen \in Ticket
  <2> HIDE DEF Entry
  <2> QED
    BY DEF RequestType
<1> QED
  BY <1>1, <1>2

\* The slot of a request that has ended is well typed and its copy is sound.
LEMMA IdleType == IdleRequest \in RequestType /\ Sound(IdleRequest.seen)
<1>1. Absent \in Ticket /\ Sound(Absent)
  BY NewSound, TicketDeskAssumption
<1>2. IdleRequest.seen = Absent
  BY DEF IdleRequest
<1> QED
  BY <1>1, <1>2 DEF IdleRequest, RequestType

\* Publishing an event keeps the tasks well typed.
LEMMA PublishType ==
  ASSUME BusTypeOK, NEW e \in Event, NEW a \in Agent \union {NoAgent}, Publish(e, a)
  PROVE  BusTypeOK'
<1>1. fired' \subseteq Event
  BY DEF BusTypeOK, Publish
<1>2. task' \in [Task -> [pc : HandlerPc, event : Event, agent : Agent \union {NoAgent}]]
  <2>1. "start" \in HandlerPc
    BY DEF HandlerPc
  <2> QED
    BY <2>1 DEF BusTypeOK, Publish
<1> QED
  BY <1>1, <1>2 DEF BusTypeOK

\* Saving a sound document and returning keeps the invariant.
LEMMA SaveKeeps ==
  ASSUME DeskInv, NEW r \in Request, NEW doc \in Ticket, Sound(doc), Save(r, doc),
         BusTypeOK'
  PROVE  DeskInv'
<1>1. request' = [request EXCEPT ![r] = IdleRequest] /\ ticket' = doc
  BY DEF Save
<1>2. request' \in [Request -> RequestType]
  BY <1>1, IdleType DEF DeskInv, TypeOK
<1>3. ASSUME NEW x \in Request PROVE Sound(request'[x].seen)
  <2>1. request'[x] = IF x = r THEN IdleRequest ELSE request[x]
    BY <1>1 DEF DeskInv, TypeOK
  <2> QED
    BY <2>1, IdleType DEF DeskInv
<1>4. ticket' \in Ticket /\ Sound(ticket')
  BY <1>1
<1> QED
  BY <1>2, <1>3, <1>4 DEF DeskInv, TypeOK

\* A step that publishes nothing keeps the tasks well typed.
LEMMA BusUnchanged == BusTypeOK /\ UNCHANGED busVars => BusTypeOK'
  BY DEF BusTypeOK, busVars

\* The invariant holds before the ticket is created.
LEMMA InitDesk == DeskInit => DeskInv
<1> SUFFICES ASSUME DeskInit PROVE DeskInv
  OBVIOUS
<1>1. Absent \in Ticket /\ Sound(Absent)
  BY NewSound, TicketDeskAssumption
<1>2. BusTypeOK
  BY DEF DeskInit, BusInit, BusTypeOK, FreeSlot, HandlerPc, Event
<1>3. request \in [Request -> RequestType] /\ \A r \in Request : Sound(request[r].seen)
  BY IdleType DEF DeskInit
<1> QED
  BY <1>1, <1>2, <1>3 DEF DeskInit, DeskInv, TypeOK

\* Every step of a request keeps the invariant: it reads the sound document,
\* saves what its operation makes of its sound copy, or is refused.
LEMMA RequestStepKeeps ==
  ASSUME DeskInv, NEW r \in Request, RequestStep(r)
  PROVE  DeskInv'
<1> DEFINE q == request[r].args
           t == request[r].seen
<1>1. BusTypeOK /\ ticket \in Ticket /\ Sound(ticket)
  BY DEF DeskInv, TypeOK
<1>2. request[r].pc = "loaded" => q \in RequestArgs /\ t \in Ticket /\ Sound(t)
  BY LoadedCopy
<1>3. {"assignee", "escalated", "closed", "cancelled"} \subseteq Event
  BY DEF Event
<1>4. CASE Load(r)
  <2>1. PICK p \in RequestArgs :
          request' = [request EXCEPT ![r] = [pc |-> "loaded", args |-> p, seen |-> ticket]]
    BY <1>4 DEF Load
  <2>2. [pc |-> "loaded", args |-> p, seen |-> ticket] \in RequestType
    BY <1>1 DEF RequestType
  <2>3. request' \in [Request -> RequestType]
    BY <2>1, <2>2 DEF DeskInv, TypeOK
  <2>4. \A x \in Request : Sound(request'[x].seen)
    BY <1>1, <2>1 DEF DeskInv, TypeOK
  <2>5. ticket' = ticket /\ BusTypeOK'
    BY <1>1, <1>4, BusUnchanged DEF Load
  <2> QED
    BY <1>1, <2>3, <2>4, <2>5 DEF DeskInv, TypeOK
<1>5. CASE Take(r)
  <2>1. request[r].pc = "loaded" /\ q.agent \in Agent
    BY <1>2, <1>5, ArgsType DEF Take, Ready
  <2>2. Taken(q.agent, t) \in Ticket /\ Sound(Taken(q.agent, t))
    BY <1>2, <1>5, <2>1, TakenSound DEF Take
  <2>3. Save(r, Taken(q.agent, t)) /\ BusTypeOK'
    BY <1>1, <1>5, BusUnchanged DEF Take
  <2> QED
    BY <2>2, <2>3, SaveKeeps
<1>6. CASE Assign(r)
  <2> DEFINE s == IF t.status \in {"open", "awaiting_assignment"}
                  THEN "in_progress" ELSE t.status
  <2>1. request[r].pc = "loaded" /\ q.agent \in Agent
    BY <1>2, <1>6, ArgsType DEF Assign, Ready
  <2>2. Assigned(q.agent, t) \in Ticket /\ Sound(Assigned(q.agent, t))
    BY <1>2, <1>6, <2>1, AssignedSound DEF Assign
  <2>3. Save(r, Assigned(q.agent, t)) /\ BusTypeOK'
    BY <1>1, <1>3, <1>6, <2>1, PublishType DEF Assign
  <2> QED
    BY <2>2, <2>3, SaveKeeps
<1>7. CASE Escalate(r)
  <2>1. request[r].pc = "loaded" /\ q.agent \in Agent
    BY <1>2, <1>7, ArgsType DEF Escalate, Ready
  <2>2. PICK k \in TargetLevel(q.agent, t.level) : Save(r, Escalated(q.agent, k, t))
    BY <1>7 DEF Escalate
  <2>3. Escalated(q.agent, k, t) \in Ticket /\ Sound(Escalated(q.agent, k, t))
    BY <1>2, <1>7, <2>1, EscalatedSound DEF Escalate
  <2>4. BusTypeOK'
    BY <1>1, <1>3, <1>7, <2>1, PublishType DEF Escalate
  <2> QED
    BY <2>2, <2>3, <2>4, SaveKeeps
<1>8. CASE Transfer(r)
  <2>1. request[r].pc = "loaded" /\ q.agent \in Agent
    BY <1>2, <1>8, ArgsType DEF Transfer, Ready
  <2>2. Transferred(q.agent, t) \in Ticket /\ Sound(Transferred(q.agent, t))
    BY <1>2, <1>8, <2>1, TransferredSound DEF Transfer
  <2>3. Save(r, Transferred(q.agent, t)) /\ BusTypeOK'
    BY <1>1, <1>3, <1>8, <2>1, PublishType DEF Transfer
  <2> QED
    BY <2>2, <2>3, SaveKeeps
<1>9. CASE Cancel(r)
  <2>1. Cancelled(t) \in Ticket /\ Sound(Cancelled(t))
    BY <1>2, <1>9, CancelledSound DEF Cancel, Ready
  <2>2. Save(r, Cancelled(t)) /\ BusTypeOK'
    BY <1>1, <1>3, <1>9, PublishType DEF Cancel
  <2> QED
    BY <2>1, <2>2, SaveKeeps
<1>10. CASE UpdateStatus(r)
  <2>1. request[r].pc = "loaded" /\ q.status \in Status
    BY <1>2, <1>10, ArgsType DEF UpdateStatus, Ready
  <2>2. WithStatus(t, q.status) \in Ticket /\ Sound(WithStatus(t, q.status))
    BY <1>2, <1>10, <2>1, MovedByTable DEF UpdateStatus, CanUpdateStatus
  <2>3. Save(r, WithStatus(t, q.status)) /\ BusTypeOK'
    BY <1>1, <1>3, <1>10, PublishType, BusUnchanged DEF UpdateStatus, PublishIfClosed
  <2> QED
    BY <2>2, <2>3, SaveKeeps
<1>11. CASE UpdateTicket(r)
  <2>1. /\ request[r].pc = "loaded"
        /\ q.status \in Status \union {"same"} /\ q.item \in Detail \union {NoItem}
    BY <1>2, <1>11, ArgsType DEF UpdateTicket, Ready
  <2>2. Updated(q.status, q.item, t) \in Ticket /\ Sound(Updated(q.status, q.item, t))
    BY <1>2, <1>11, <2>1, UpdatedSound DEF UpdateTicket
  <2>3. Save(r, Updated(q.status, q.item, t)) /\ BusTypeOK'
    BY <1>1, <1>3, <1>11, PublishType, BusUnchanged DEF UpdateTicket, PublishIfClosed
  <2> QED
    BY <2>2, <2>3, SaveKeeps
<1>12. CASE AddComment(r)
  <2> DEFINE C == t.comments \union {q.item}
  <2>1. request[r].pc = "loaded" /\ q.item \in Comment
    BY <1>2, <1>12, ArgsType DEF AddComment, Ready
  <2>2. C \in SUBSET Comment
    BY <1>2, <2>1 DEF Ticket
  <2>3. Save(r, [t EXCEPT !.comments = C]) /\ BusTypeOK'
    BY <1>1, <1>12, BusUnchanged DEF AddComment
  <2> HIDE DEF C
  <2> QED
    BY <1>2, <2>1, <2>2, <2>3, CommentedSound, SaveKeeps
<1>13. CASE DeleteComment(r)
  <2> DEFINE C == t.comments \ {q.item}
  <2>1. request[r].pc = "loaded"
    BY <1>13 DEF DeleteComment, Ready
  <2>2. C \in SUBSET Comment
    BY <1>2, <2>1 DEF Ticket
  <2>3. Save(r, [t EXCEPT !.comments = C]) /\ BusTypeOK'
    BY <1>1, <1>13, BusUnchanged DEF DeleteComment
  <2> HIDE DEF C
  <2> QED
    BY <1>2, <2>1, <2>2, <2>3, CommentedSound, SaveKeeps
<1>14. CASE EditComment(r)
  <2>1. request[r].pc = "loaded"
    BY <1>14 DEF EditComment, Ready
  <2>2. Save(r, t) /\ BusTypeOK'
    BY <1>1, <1>14, BusUnchanged DEF EditComment
  <2> QED
    BY <1>2, <2>1, <2>2, SaveKeeps
<1>15. CASE Refuse(r)
  <2>1. Save(r, ticket) /\ BusTypeOK'
    BY <1>1, <1>15, BusUnchanged DEF Refuse, Save
  <2> QED
    BY <1>1, <2>1, SaveKeeps
<1> QED
  BY <1>4, <1>5, <1>6, <1>7, <1>8, <1>9, <1>10, <1>11, <1>12, <1>13, <1>14, <1>15
     DEF RequestStep

-----------------------------------------------------------------------------
(* The theorems.                                                           *)

\* Every step of the desk keeps the invariant, the crash included.
LEMMA StepKeeps == DeskInv /\ [Next]_vars => DeskInv'
<1> SUFFICES ASSUME DeskInv, [Next]_vars PROVE DeskInv'
  OBVIOUS
<1>1. BusTypeOK /\ ticket \in Ticket /\ Sound(ticket)
  BY DEF DeskInv, TypeOK
<1>2. FreeSlot \in [pc : HandlerPc, event : Event, agent : Agent \union {NoAgent}]
  BY DEF FreeSlot, HandlerPc, Event
<1>3. CASE CreateTicket
  <2>1. ticket' \in Ticket /\ Sound(ticket')
    BY <1>3, NewSound DEF CreateTicket
  <2>2. BusTypeOK'
    BY <1>1, <1>3, PublishType DEF CreateTicket, Event
  <2> QED
    BY <1>3, <2>1, <2>2 DEF CreateTicket, DeskInv, TypeOK
<1>4. CASE \E r \in Request : RequestStep(r)
  BY <1>4, RequestStepKeeps
<1>5. CASE Crash
  <2>1. request' \in [Request -> RequestType] /\ \A r \in Request : Sound(request'[r].seen)
    BY <1>5, IdleType DEF Crash
  <2>2. BusTypeOK' /\ ticket' = ticket
    BY <1>1, <1>2, <1>5 DEF Crash, TasksLost, BusTypeOK
  <2> QED
    BY <1>1, <2>1, <2>2 DEF DeskInv, TypeOK
<1>6. CASE \E t \in Task : HandlerEnds(t)
  <2>1. BusTypeOK' /\ ticket' = ticket /\ request' = request
    BY <1>1, <1>2, <1>6 DEF HandlerEnds, End, BusTypeOK
  <2> QED
    BY <2>1 DEF DeskInv, TypeOK
<1>7. CASE UNCHANGED vars
  BY <1>7 DEF vars, DeskInv, TypeOK, BusTypeOK
<1> QED
  BY <1>3, <1>4, <1>5, <1>6, <1>7 DEF Next, DeskNext

\* The document and every copy in flight are well typed and sound in every
\* reachable state: take, assign, escalate, transfer, cancel, status and field
\* updates and comments keep it so in any interleaving, crashes included.
THEOREM DeskInvariant == Spec => []DeskInv
<1> QED
  BY InitDesk, StepKeeps, PTL DEF Spec

\* The stored document, the copies in flight and the handlers are well typed.
THEOREM TypeCorrect == Spec => []TypeOK
<1>1. DeskInv => TypeOK
  BY DEF DeskInv
<1> QED
  BY <1>1, DeskInvariant, PTL

\* At most one assignment without exit date, always the last entry: concurrent
\* take, assign, escalate and transfer never leave two active assignees.
THEOREM OneAssignee == Spec => []SingleActiveAssignment
<1>1. DeskInv => SingleActiveAssignment
  BY DEF DeskInv, Sound, SingleActiveAssignment
<1> QED
  BY <1>1, DeskInvariant, PTL

\* closed_at is set exactly on finished tickets, closed_by_agent is the
\* assignee, whatever stale copy was saved last.
THEOREM ClosingInStep == Spec => []ClosingConsistent
<1>1. DeskInv => ClosingConsistent
  BY DEF DeskInv, Sound, ClosingConsistent
<1> QED
  BY <1>1, DeskInvariant, PTL

\* The level snapshots of agent_history never fall and never exceed the level.
THEOREM LevelsOnlyClimb == Spec => []LevelsClimb
<1>1. DeskInv => LevelsClimb
  BY DEF DeskInv, Sound, LevelsClimb
<1> QED
  BY <1>1, DeskInvariant, PTL

\* The active assignee holds the present level of the ticket.
THEOREM QualifiedAssignee == Spec => []AssigneeQualified
<1>1. DeskInv => AssigneeQualified
  BY DEF DeskInv, Sound, AssigneeQualified
<1> QED
  BY <1>1, DeskInvariant, PTL

-----------------------------------------------------------------------------
(* The desk implements the board when requests do not overlap: the copy a  *)
(* request holds is then the document (Current), every operation that      *)
(* saves is a step of TicketBoard, and every other step stutters.          *)

Alone == \A r, o \in Request : r = o

\* What a request alone knows: its copy is the ticket, and the ticket exists;
\* before that, nobody was assigned.
Current ==
  /\ \A r \in Request :
       request[r].pc = "loaded" => request[r].seen = ticket /\ ticket.status \in Status
  /\ ticket.status = "absent" => ticket.history = <<>>

\* The board has the desk's own table.
LEMMA SameTable ==
  /\ Board!Status = Status
  /\ Board!AllowedTransitions = AllowedTransitions
  BY DEF Board!Status, Status, Board!AllowedTransitions, AllowedTransitions

-----------------------------------------------------------------------------
(* Who is assigned after an operation.                                     *)

\* The agent of a new last entry is the assignee.
LEMMA NewAssignee ==
  ASSUME NEW t \in Ticket, OneActive(t), NEW u \in Ticket, OneActive(u),
         NEW a \in Agent, NEW l \in Level,
         u.history = Append(ExitActive(t), NewEntry(a, l))
  PROVE  Assignee(u) = a
<1> DEFINE n == Len(t.history)
<1>1. ExitActive(t) \in Seq(Entry) /\ Len(ExitActive(t)) = n /\ n \in Nat
  BY ExitedHistory, HistoryType
<1>2. NewEntry(a, l) \in Entry
  OBVIOUS
<1>3. /\ DOMAIN u.history = 1..(n + 1) /\ Len(u.history) = n + 1
      /\ u.history[n + 1] = NewEntry(a, l)
  <2> HIDE DEF NewEntry, Entry
  <2> QED
    BY <1>1, <1>2, AppendEntry
<1>4. n + 1 \in ActiveEntries(u)
  BY <1>1, <1>3
<1>5. Assignee(u) = u.history[n + 1].agent
  BY <1>3, <1>4, ActiveEntry
<1> QED
  BY <1>3, <1>5

\* Once the active entry has its exit date, nobody is assigned.
LEMMA NobodyLeft ==
  ASSUME NEW t \in Ticket, OneActive(t), NEW u, u.history = ExitActive(t)
  PROVE  Assignee(u) = NoAgent
<1>1. /\ ExitActive(t) \in Seq(Entry) /\ Len(ExitActive(t)) = Len(t.history)
      /\ \A i \in 1..Len(t.history) : ~ExitActive(t)[i].active
  BY ExitedHistory
<1>2. DOMAIN u.history = 1..Len(t.history)
  <2> HIDE DEF Entry
  <2> QED
    BY <1>1
<1>3. ActiveEntries(u) = {}
  BY <1>1, <1>2
<1> QED
  BY <1>3 DEF Assignee

\* Documents with the same history have the same assignee.
LEMMA SameAssignee ==
  ASSUME NEW t, NEW u, u.history = t.history
  PROVE  Assignee(u) = Assignee(t)
<1>1. ActiveEntries(u) = ActiveEntries(t)
  OBVIOUS
<1>2. ActiveIndex(u) = ActiveIndex(t)
  <2> HIDE DEF ActiveEntries
  <2> QED
    BY <1>1 DEF ActiveIndex
<1> HIDE DEF ActiveEntries
<1> QED
  BY <1>1, <1>2 DEF Assignee

-----------------------------------------------------------------------------
(* What an operation makes of the ticket is a step of the board.           *)

\* assign, escalate and transfer hand the ticket to a qualified agent.
LEMMA HandedIsStep ==
  ASSUME ticket.status \in Status \ {"finished"}, NEW a \in Agent, NEW l \in Level,
         l >= ticket.level, l \in LevelsOf[a],
         ticket'.level = l, Assignee(ticket') = a,
         ticket'.status \in {ticket.status, "in_progress"}
  PROVE  Board!BoardNext
<1>1. Board!HandTo(a, l)
  BY SameTable DEF Board!HandTo, Assignee, ActiveIndex
<1> QED
  BY <1>1 DEF Board!BoardNext

\* A change along the table that keeps level and assignee, or clears it.
LEMMA MovedIsStep ==
  ASSUME ticket.status \in Status, NEW s \in Status, s \in AllowedTransitions[ticket.status],
         ticket'.status = s, ticket'.level = ticket.level,
         \/ Assignee(ticket') = Assignee(ticket)
         \/ s = "cancelled" /\ Assignee(ticket') = NoAgent
  PROVE  Board!BoardNext
<1>1. Assignee(ticket)' = Assignee(ticket')
  BY DEF Assignee, ActiveIndex
<1>2. Board!Move(s)
  BY <1>1, SameTable DEF Board!Move
<1> QED
  BY <1>2, SameTable DEF Board!BoardNext

\* The board does not see a change that keeps status, level and history.
LEMMA UnseenStep ==
  ASSUME ticket'.status = ticket.status, ticket'.level = ticket.level,
         ticket'.history = ticket.history
  PROVE  UNCHANGED Board!boardVars
<1>1. Assignee(ticket') = Assignee(ticket)
  BY SameAssignee
<1>2. Assignee(ticket)' = Assignee(ticket')
  BY DEF Assignee, ActiveIndex
<1> QED
  BY <1>1, <1>2 DEF Board!boardVars

\* take: an agent who serves the level claims a ticket nobody has.
LEMMA TakeIsStep ==
  ASSUME DeskInv, Current, NEW r \in Request, Take(r)
  PROVE  Board!BoardNext
<1> DEFINE a == request[r].args.agent
<1>1. /\ request[r].seen = ticket /\ ticket.status \in Status
      /\ a \in Agent /\ ticket \in Ticket /\ Sound(ticket)
  BY LoadedCopy, ArgsType DEF Take, Ready, Current
<1>2. CanTake(a, ticket) /\ ticket' = Taken(a, ticket)
  BY <1>1 DEF Take, Save
<1>3. Taken(a, ticket) \in Ticket /\ Sound(Taken(a, ticket))
  BY <1>1, <1>2, TakenSound
<1>4. ActiveEntries(ticket) = {} /\ ExitActive(ticket) = ticket.history
  BY <1>1, <1>2, ActiveEntry, EventBusAssumption DEF CanTake, ExitActive, Sound
<1>5. /\ ticket'.history = Append(ExitActive(ticket), NewEntry(a, ticket.level))
      /\ ticket'.status = ticket.status /\ ticket'.level = ticket.level
  BY <1>1, <1>2, <1>4 DEF Taken, Ticket
<1>6. Assignee(ticket') = a
  <2> HIDE DEF NewEntry
  <2> QED
    BY <1>1, <1>2, <1>3, <1>5, NewAssignee, OwnLevel DEF Sound
<1>7. Board!Claim(a)
  BY <1>1, <1>2, <1>5, <1>6, SameTable DEF CanTake, Board!Claim, Assignee, ActiveIndex
<1> QED
  BY <1>1, <1>7 DEF Board!BoardNext

\* assign: an unfinished ticket goes to an agent who serves its level.
LEMMA AssignIsStep ==
  ASSUME DeskInv, Current, NEW r \in Request, Assign(r)
  PROVE  Board!BoardNext
<1> DEFINE a == request[r].args.agent
<1>1. /\ request[r].seen = ticket /\ ticket.status \in Status
      /\ a \in Agent /\ ticket \in Ticket /\ Sound(ticket)
  BY LoadedCopy, ArgsType DEF Assign, Ready, Current
<1>2. CanAssign(a, ticket) /\ ticket' = Assigned(a, ticket)
  BY <1>1 DEF Assign, Save
<1>3. Assigned(a, ticket) \in Ticket /\ Sound(Assigned(a, ticket))
  BY <1>1, <1>2, AssignedSound
<1>4. /\ ticket'.history = Append(ExitActive(ticket), NewEntry(a, ticket.level))
      /\ ticket'.status \in {ticket.status, "in_progress"} /\ ticket'.level = ticket.level
  BY <1>1, <1>2 DEF Assigned, Ticket
<1>5. Assignee(ticket') = a
  <2> HIDE DEF NewEntry
  <2> QED
    BY <1>1, <1>2, <1>3, <1>4, NewAssignee, OwnLevel DEF Sound
<1> QED
  BY <1>1, <1>2, <1>4, <1>5, OwnLevel, HandedIsStep DEF CanAssign

\* escalate: it goes to the lowest higher level of another agent.
LEMMA EscalateIsStep ==
  ASSUME DeskInv, Current, NEW r \in Request, Escalate(r)
  PROVE  Board!BoardNext
<1> DEFINE a == request[r].args.agent
<1>1. /\ request[r].seen = ticket /\ ticket.status \in Status
      /\ a \in Agent /\ ticket \in Ticket /\ Sound(ticket)
  BY LoadedCopy, ArgsType DEF Escalate, Ready, Current
<1>2. CanEscalate(a, ticket)
  BY <1>1 DEF Escalate
<1>3. PICK k \in TargetLevel(a, ticket.level) : ticket' = Escalated(a, k, ticket)
  BY <1>1 DEF Escalate, Save
<1>4. k \in Level /\ k \in LevelsOf[a] /\ k > ticket.level
  BY <1>1, TicketDeskAssumption DEF TargetLevel, HigherLevels
<1>5. k >= ticket.level
  <2>1. k \in Nat /\ ticket.level \in Nat
    BY <1>1, <1>4, OwnLevel, TicketDeskAssumption
  <2>2. \A m, n \in Nat : m > n => m >= n
    OBVIOUS
  <2> QED
    BY <1>4, <2>1, <2>2
<1>6. Escalated(a, k, ticket) \in Ticket /\ Sound(Escalated(a, k, ticket))
  BY <1>1, <1>2, EscalatedSound
<1>7. /\ ticket'.history = Append(ExitActive(ticket), NewEntry(a, k))
      /\ ticket'.status = "in_progress" /\ ticket'.level = k
  BY <1>1, <1>3 DEF Escalated, Ticket
<1>8. Assignee(ticket') = a
  <2> HIDE DEF NewEntry
  <2> QED
    BY <1>1, <1>3, <1>4, <1>6, <1>7, NewAssignee DEF Sound
<1> QED
  BY <1>1, <1>2, <1>4, <1>5, <1>7, <1>8, HandedIsStep DEF CanEscalate, CanHandOver

\* transfer: it goes to another agent of the same level.
LEMMA TransferIsStep ==
  ASSUME DeskInv, Current, NEW r \in Request, Transfer(r)
  PROVE  Board!BoardNext
<1> DEFINE a == request[r].args.agent
<1>1. /\ request[r].seen = ticket /\ ticket.status \in Status
      /\ a \in Agent /\ ticket \in Ticket /\ Sound(ticket)
  BY LoadedCopy, ArgsType DEF Transfer, Ready, Current
<1>2. CanTransfer(a, ticket) /\ ticket' = Transferred(a, ticket)
  BY <1>1 DEF Transfer, Save
<1>3. Transferred(a, ticket) \in Ticket /\ Sound(Transferred(a, ticket))
  BY <1>1, <1>2, TransferredSound
<1>4. /\ ticket'.history = Append(ExitActive(ticket), NewEntry(a, ticket.level))
      /\ ticket'.status = "in_progress" /\ ticket'.level = ticket.level
  BY <1>1, <1>2 DEF Transferred, Ticket
<1>5. Assignee(ticket') = a
  <2> HIDE DEF NewEntry
  <2> QED
    BY <1>1, <1>2, <1>3, <1>4, NewAssignee, OwnLevel DEF Sound
<1> QED
  BY <1>1, <1>2, <1>4, <1>5, OwnLevel, HandedIsStep DEF CanTransfer, CanHandOver

\* cancel: along the table, and nobody stays assigned.
LEMMA CancelIsStep ==
  ASSUME DeskInv, Current, NEW r \in Request, Cancel(r)
  PROVE  Board!BoardNext
<1>1. /\ request[r].seen = ticket /\ ticket.status \in Status
      /\ ticket \in Ticket /\ OneActive(ticket)
  BY LoadedCopy DEF Cancel, Ready, Current, Sound
<1>2. CanCancel(ticket) /\ ticket' = Cancelled(ticket)
  BY <1>1 DEF Cancel, Save
<1>3. /\ ticket'.history = ExitActive(ticket)
      /\ ticket'.status = "cancelled" /\ ticket'.level = ticket.level
  BY <1>1, <1>2 DEF Cancelled, Ticket
<1>4. Assignee(ticket') = NoAgent
  BY <1>1, <1>3, NobodyLeft
<1> QED
  BY <1>1, <1>2, <1>3, <1>4, MovedIsStep DEF CanCancel, Status

\* A document whose status moved along the table kept level and history.
LEMMA MovedFields ==
  ASSUME NEW t \in Ticket, NEW s \in Status
  PROVE  /\ WithStatus(t, s).status = s
         /\ WithStatus(t, s).level = t.level
         /\ WithStatus(t, s).history = t.history
  BY DEF WithStatus, Ticket

\* The legacy status route moves along the table.
LEMMA UpdateStatusIsStep ==
  ASSUME DeskInv, Current, NEW r \in Request, UpdateStatus(r)
  PROVE  Board!BoardNext
<1> DEFINE s == request[r].args.status
<1>1. /\ request[r].seen = ticket /\ ticket.status \in Status
      /\ ticket \in Ticket /\ s \in Status
  BY LoadedCopy, ArgsType DEF UpdateStatus, Ready, Current
<1>2. s \in AllowedTransitions[ticket.status] /\ ticket' = WithStatus(ticket, s)
  BY <1>1 DEF UpdateStatus, Save, CanUpdateStatus
<1>3. ticket'.status = s /\ ticket'.level = ticket.level /\ ticket'.history = ticket.history
  BY <1>1, <1>2, MovedFields
<1>4. Assignee(ticket') = Assignee(ticket)
  BY <1>3, SameAssignee
<1> QED
  BY <1>1, <1>2, <1>3, <1>4, MovedIsStep

\* A PATCH moves along the table, or changes what the board does not show.
LEMMA UpdateTicketIsStep ==
  ASSUME DeskInv, Current, NEW r \in Request, UpdateTicket(r)
  PROVE  Board!BoardNext \/ UNCHANGED Board!boardVars
<1> DEFINE s == request[r].args.status
           d == request[r].args.item
           u == IF s \in {"same", ticket.status} THEN ticket ELSE WithStatus(ticket, s)
<1>1. /\ request[r].seen = ticket /\ ticket.status \in Status
      /\ ticket \in Ticket /\ s \in Status \union {"same"}
  BY LoadedCopy, ArgsType DEF UpdateTicket, Ready, Current
<1>2. CanUpdateTicket(s, d, ticket) /\ ticket' = Updated(s, d, ticket)
  BY <1>1 DEF UpdateTicket, Save
<1>3. DOMAIN u = {"status", "level", "history", "closed", "closedBy", "comments",
                  "detail", "chats"}
  BY <1>1 DEF WithStatus, Ticket
<1>4. ticket'.status = u.status /\ ticket'.level = u.level /\ ticket'.history = u.history
  <2>1. ticket' = IF d = NoItem THEN u ELSE [u EXCEPT !.detail = d]
    BY <1>2 DEF Updated
  <2> HIDE DEF u
  <2> QED
    BY <1>3, <2>1
<1>5. CASE s \in {"same", ticket.status}
  BY <1>4, <1>5, UnseenStep
<1>6. CASE s \notin {"same", ticket.status}
  <2>1. s \in Status /\ s \in AllowedTransitions[ticket.status]
    BY <1>1, <1>2, <1>6 DEF CanUpdateTicket
  <2>2. /\ ticket'.status = s /\ ticket'.level = ticket.level
        /\ ticket'.history = ticket.history
    BY <1>1, <1>4, <1>6, <2>1, MovedFields
  <2>3. Assignee(ticket') = Assignee(ticket)
    BY <2>2, SameAssignee
  <2> QED
    BY <1>1, <2>1, <2>2, <2>3, MovedIsStep
<1> QED
  BY <1>5, <1>6

\* Comments are not on the board.
LEMMA CommentStep ==
  ASSUME DeskInv, Current, NEW r \in Request,
         AddComment(r) \/ EditComment(r) \/ DeleteComment(r)
  PROVE  UNCHANGED Board!boardVars
<1>1. request[r].seen = ticket /\ ticket \in Ticket
  BY LoadedCopy DEF AddComment, EditComment, DeleteComment, Ready, Current
<1>2. ticket' = ticket \/ \E C : ticket' = [ticket EXCEPT !.comments = C]
  BY <1>1 DEF AddComment, EditComment, DeleteComment, Save
<1>3. /\ ticket'.status = ticket.status /\ ticket'.level = ticket.level
      /\ ticket'.history = ticket.history
  BY <1>1, <1>2 DEF Ticket
<1> QED
  BY <1>3, UnseenStep

-----------------------------------------------------------------------------
(* The copy stays current.                                                 *)

\* What a request saves has a status of an existing ticket.
LEMMA SavedExists ==
  ASSUME DeskInv, Current, NEW r \in Request, RequestStep(r)
  PROVE  ticket' = ticket \/ ticket'.status \in Status
<1> DEFINE q == request[r].args
<1>1. CASE Load(r) \/ Refuse(r)
  BY <1>1 DEF Load, Refuse
<1>2. CASE ~(Load(r) \/ Refuse(r))
  <2>1. request[r].seen = ticket /\ ticket.status \in Status /\ ticket \in Ticket
        /\ q \in RequestArgs
    BY <1>2, LoadedCopy DEF RequestStep, Take, Assign, Escalate, Transfer, Cancel,
       UpdateStatus, UpdateTicket, AddComment, EditComment, DeleteComment, Ready, Current
  <2>2. CASE Take(r) \/ Assign(r) \/ Escalate(r) \/ Transfer(r) \/ Cancel(r)
    BY <2>1, <2>2 DEF Take, Assign, Escalate, Transfer, Cancel, Save, Taken, Assigned,
       Escalated, Transferred, Cancelled, Ticket, Status
  <2>3. CASE UpdateStatus(r)
    BY <2>1, <2>3, ArgsType, MovedFields DEF UpdateStatus, Ready, Save
  <2>4. CASE UpdateTicket(r)
    <3>1. q.status \in Status \union {"same"}
      BY <2>1, <2>4, ArgsType DEF UpdateTicket, Ready
    <3>2. ticket' = Updated(q.status, q.item, ticket)
      BY <2>1, <2>4 DEF UpdateTicket, Save
    <3>3. ticket'.status \in {ticket.status, q.status} \ {"same"}
      BY <2>1, <3>1, <3>2 DEF Updated, WithStatus, Ticket, Status
    <3> QED
      BY <2>1, <3>1, <3>3
  <2>5. CASE AddComment(r) \/ EditComment(r) \/ DeleteComment(r)
    BY <2>1, <2>5 DEF AddComment, EditComment, DeleteComment, Save, Ticket
  <2> QED
    BY <1>2, <2>2, <2>3, <2>4, <2>5 DEF RequestStep
<1> QED
  BY <1>1, <1>2

\* A request alone always works on the present document: what saves the ticket
\* ends the only request there is, and what inserts it finds none loaded.
LEMMA CurrentKept ==
  ASSUME Alone, DeskInv, Current, [Next]_vars
  PROVE  Current'
<1>1. DOMAIN request = Request /\ IdleRequest.pc = "idle"
  BY DEF DeskInv, TypeOK, IdleRequest
<1>2. "absent" \notin Status
  BY DEF Status
<1>3. CASE CreateTicket
  <2>1. \A r \in Request : request[r].pc # "loaded"
    BY <1>2, <1>3 DEF Current, CreateTicket
  <2>2. ticket'.status # "absent"
    BY <1>3 DEF CreateTicket, NewTicket
  <2> QED
    BY <1>3, <2>1, <2>2 DEF Current, CreateTicket
<1>4. ASSUME NEW r \in Request, RequestStep(r) PROVE Current'
  <2>1. CASE Load(r)
    <3>1. PICK p \in RequestArgs :
            request' = [request EXCEPT ![r] = [pc |-> "loaded", args |-> p, seen |-> ticket]]
      BY <2>1 DEF Load
    <3>2. ticket' = ticket /\ ticket.status \in Status
      BY <2>1 DEF Load, DeskInv, TypeOK, Ticket
    <3>3. \A o \in Request : request'[o].seen = ticket
      BY <1>1, <3>1 DEF Alone
    <3> QED
      BY <1>2, <3>2, <3>3 DEF Current
  <2>2. CASE ~Load(r)
    <3>1. request' = [request EXCEPT ![r] = IdleRequest]
      BY <1>4, <2>2 DEF RequestStep, Take, Assign, Escalate, Transfer, Cancel, UpdateStatus,
         UpdateTicket, AddComment, EditComment, DeleteComment, Refuse, Save
    <3>2. \A o \in Request : request'[o].pc = "idle"
      BY <1>1, <3>1 DEF Alone
    <3>3. ticket' = ticket \/ ticket'.status # "absent"
      BY <1>2, <1>4, SavedExists
    <3> QED
      BY <3>2, <3>3 DEF Current
  <2> QED
    BY <2>1, <2>2
<1>5. CASE Crash
  BY <1>1, <1>5 DEF Crash, Current
<1>6. CASE \E t \in Task : HandlerEnds(t)
  BY <1>6 DEF HandlerEnds, Current
<1>7. CASE UNCHANGED vars
  BY <1>7 DEF vars, Current
<1> QED
  BY <1>3, <1>4, <1>5, <1>6, <1>7 DEF Next, DeskNext

-----------------------------------------------------------------------------
(* The refinement.                                                         *)

\* Before its insertion the ticket is blank, and so is the board.
LEMMA BoardStart == DeskInit => Board!BoardInit
<1> SUFFICES ASSUME DeskInit PROVE Board!BoardInit
  OBVIOUS
<1>1. ticket = Absent /\ Absent \in Ticket /\ Sound(Absent)
  BY NewSound, TicketDeskAssumption DEF DeskInit
<1>2. Absent.status = "absent" /\ Absent.history = <<>> /\ Absent.level \in Level
  BY <1>1 DEF Absent, AnyTicket, NewTicket, Ticket
<1>3. Assignee(Absent) = NoAgent
  BY <1>2 DEF Assignee
<1> QED
  BY <1>1, <1>2, <1>3 DEF Board!BoardInit

\* The insertion opens the ticket: a level, and nobody assigned.
LEMMA CreateIsStep ==
  ASSUME Current, CreateTicket
  PROVE  Board!BoardNext
<1>1. PICK l \in Level, d \in Detail : ticket' = NewTicket(l, d)
  BY DEF CreateTicket
<1>2. /\ ticket'.status = "awaiting_assignment" /\ ticket'.level = l
      /\ Assignee(ticket') = NoAgent
  BY <1>1 DEF NewTicket, Assignee
<1>3. Assignee(ticket) = NoAgent
  BY DEF CreateTicket, Current, Assignee
<1>4. Board!Open
  BY <1>2, <1>3 DEF CreateTicket, Board!Open, Assignee, ActiveIndex
<1> QED
  BY <1>4 DEF Board!BoardNext

\* A step of the desk is a step of the board or leaves it alone.
LEMMA BoardStep ==
  ASSUME DeskInv, Current, [Next]_vars
  PROVE  [Board!BoardNext]_(Board!boardVars)
<1>1. ticket' = ticket => UNCHANGED Board!boardVars
  BY UnseenStep
<1>2. CASE CreateTicket
  BY <1>2, CreateIsStep
<1>3. ASSUME NEW r \in Request, RequestStep(r)
      PROVE  Board!BoardNext \/ UNCHANGED Board!boardVars
  <2>1. CASE Load(r) \/ Refuse(r)
    BY <1>1, <2>1 DEF Load, Refuse
  <2>2. CASE Take(r)
    BY <2>2, TakeIsStep
  <2>3. CASE Assign(r)
    BY <2>3, AssignIsStep
  <2>4. CASE Escalate(r)
    BY <2>4, EscalateIsStep
  <2>5. CASE Transfer(r)
    BY <2>5, TransferIsStep
  <2>6. CASE Cancel(r)
    BY <2>6, CancelIsStep
  <2>7. CASE UpdateStatus(r)
    BY <2>7, UpdateStatusIsStep
  <2>8. CASE UpdateTicket(r)
    BY <2>8, UpdateTicketIsStep
  <2>9. CASE AddComment(r) \/ EditComment(r) \/ DeleteComment(r)
    BY <2>9, CommentStep
  <2> QED
    BY <1>3, <2>1, <2>2, <2>3, <2>4, <2>5, <2>6, <2>7, <2>8, <2>9 DEF RequestStep
<1>4. CASE Crash \/ (\E t \in Task : HandlerEnds(t)) \/ UNCHANGED vars
  BY <1>1, <1>4 DEF Crash, HandlerEnds, vars
<1> QED
  BY <1>2, <1>3, <1>4 DEF Next, DeskNext

\* With requests that do not overlap, crashes and handlers at any time
\* included, the tickets of TicketService behave like the board: every change
\* of status, level or assignee is one the board allows.
THEOREM BoardImplemented == Alone => (Spec => ImplementsBoard)
<1> SUFFICES ASSUME Alone PROVE Spec => ImplementsBoard
  OBVIOUS
<1>1. DeskInit => Current
  BY DEF DeskInit, Current, IdleRequest, Absent, AnyTicket, NewTicket
<1>2. DeskInv /\ Current /\ [Next]_vars => Current'
  BY CurrentKept
<1>3. DeskInv /\ Current /\ [Next]_vars => [Board!BoardNext]_(Board!boardVars)
  BY BoardStep
<1> QED
  BY <1>1, <1>2, <1>3, BoardStart, DeskInvariant, PTL
     DEF Spec, ImplementsBoard, Board!BoardSpec
=============================================================================
