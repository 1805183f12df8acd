--------------------------- MODULE ReportsProofs ----------------------------
(***************************************************************************)
(* Proofs about TicketReports: what is read from the whole collection is   *)
(* right for any archive of filed tickets and whatever the desk does with  *)
(* its own (ReportsInv).  The first half is about the collection; the rest *)
(* is about what is computed from it, whatever its size: the dashboard     *)
(* adds up and agrees with the queue, the pages cover the queue, and the   *)
(* charts lose nothing between two months.                                 *)
(*                                                                         *)
(* Sums, FlattenSeq and MonthKeys are recursive.  Each gets the equation   *)
(* it is a solution of, a lemma that two solutions agree (a smallest place *)
(* where they differ would have a smaller one), and a solution in closed   *)
(* form.                                                                   *)
(***************************************************************************)
EXTENDS TicketReports, TicketDeskProofs, FiniteSetTheorems

USE DEF Entry, ActiveEntries

-----------------------------------------------------------------------------
(* The collection.  The reports rely on what is stored: the ticket of the  *)
(* desk, once it exists, is as well filed as the archive.                  *)

\* The desk works on a current copy, the clock is in its bounds, and every
\* stored ticket is filed.
ReportsInv ==
  /\ DeskInv /\ Current
  /\ today \in FirstDay..LastDay
  /\ archive \in Archives
  /\ {"closedAt", "closerLevel"} \subseteq DOMAIN card
  /\ ticket.status # "absent" => Filed(Stored(ticket, card))

\* A closing that names an agent names the one who was assigned.
Closes(t, u) ==
  u.closedBy = t.closedBy \/ (u.closed /\ ~t.closed /\ u.closedBy = Assignee(t))

\* WithStatus records the assignee when it closes a ticket, and only then.
LEMMA MovedCloses ==
  ASSUME NEW t \in Ticket, ClosingRecorded(t), NEW s \in Status \ {t.status}
  PROVE  Closes(t, WithStatus(t, s))
<1>1. CASE s = "finished"
  <2>1. ~t.closed
    BY <1>1 DEF ClosingRecorded
  <2>2. PICK u : u = [t EXCEPT !.status = s, !.closed = TRUE, !.closedBy = Assignee(t)]
    OBVIOUS
  <2>3. u.closed = TRUE /\ u.closedBy = Assignee(t)
    BY <2>2 DEF Ticket
  <2> QED
    BY <1>1, <2>1, <2>2, <2>3 DEF Closes, WithStatus
<1>2. CASE s # "finished"
  <2>1. PICK u : u = [t EXCEPT !.status = s]
    OBVIOUS
  <2>2. u.closedBy = t.closedBy
    BY <2>1 DEF Ticket
  <2> QED
    BY <1>2, <2>1, <2>2 DEF Closes, WithStatus
<1> QED
  BY <1>1, <1>2

\* No step of a request changes who closed the ticket but a closing.
LEMMA StepCloses ==
  ASSUME DeskInv, Current, NEW r \in Request, RequestStep(r)
  PROVE  Closes(ticket, ticket')
<1> DEFINE q == request[r].args
<1>1. CASE Load(r) \/ Refuse(r)
  BY <1>1 DEF Load, Refuse, Closes
<1>2. CASE ~(Load(r) \/ Refuse(r))
  <2>1. request[r].seen = ticket /\ ticket \in Ticket /\ q \in RequestArgs
        /\ ClosingRecorded(ticket)
    <3>1. request[r].pc = "loaded"
      BY <1>2 DEF RequestStep, Take, Assign, Escalate, Transfer, Cancel,
         UpdateStatus, UpdateTicket, AddComment, EditComment, DeleteComment, Ready
    <3> QED
      BY <3>1, LoadedCopy DEF Current, Sound
  <2>2. CASE Take(r) \/ Assign(r) \/ Escalate(r) \/ Transfer(r) \/ Cancel(r)
    <3>1. ticket'.closedBy = ticket.closedBy
      BY <2>1, <2>2 DEF Take, Assign, Escalate, Transfer, Cancel, Save, Taken, Assigned,
         Escalated, Transferred, Cancelled, Ticket
    <3> QED
      BY <3>1 DEF Closes
  <2>3. CASE UpdateStatus(r)
    <3>1. q.status \in Status \ {ticket.status} /\ ticket' = WithStatus(ticket, q.status)
      BY <2>1, <2>3, ArgsType DEF UpdateStatus, Ready, Save, CanUpdateStatus
    <3> QED
      BY <2>1, <3>1, MovedCloses
  <2>4. CASE UpdateTicket(r)
    <3>1. q.status \in Status \union {"same"} /\ ticket' = Updated(q.status, q.item, ticket)
      BY <2>1, <2>4, ArgsType DEF UpdateTicket, Ready, Save
    <3>2. PICK u : u = IF q.status \in {"same", ticket.status} THEN ticket
                       ELSE WithStatus(ticket, q.status)
      OBVIOUS
    <3>3. Closes(ticket, u)
      BY <2>1, <3>1, <3>2, MovedCloses DEF Closes
    <3>4. DOMAIN u = DOMAIN ticket
      BY <2>1, <3>2 DEF WithStatus, Ticket
    <3>5. ticket' = u \/ ticket' = [u EXCEPT !.detail = q.item]
      BY <3>1, <3>2 DEF Updated
    <3>6. ticket'.closedBy = u.closedBy /\ ticket'.closed = u.closed
      BY <2>1, <3>4, <3>5 DEF Ticket
    <3> QED
      BY <3>3, <3>6 DEF Closes
  <2>5. CASE AddComment(r) \/ EditComment(r) \/ DeleteComment(r)
    <3>1. ticket'.closedBy = ticket.closedBy
      BY <2>1, <2>5 DEF AddComment, EditComment, DeleteComment, Save, Ticket
    <3> QED
      BY <3>1 DEF Closes
  <2> QED
    BY <1>2, <2>2, <2>3, <2>4, <2>5 DEF RequestStep
<1> QED
  BY <1>1, <1>2

\* Filing the ticket of the desk: its half is sound, and the other half has
\* the day and the level when an agent closed it.
LEMMA DeskFiled ==
  ASSUME NEW t \in Ticket, Sound(t), t.status # "absent", NEW c,
         c.type \in Type, c.created \in Nat,
         t.closedBy # NoAgent => c.closedAt \in 0..LastDay /\ c.closerLevel \in Level
  PROVE  Filed(Stored(t, c))
<1>1. Stored(t, c).doc = t /\ Stored(t, c).card = c
  BY DEF Stored
<1>2. t.status \in Status /\ t.history \in Seq(Entry) /\ t.detail \in Detail
  BY DEF Ticket
<1> HIDE DEF Entry
<1> QED
  BY <1>1, <1>2, ArchiveAssumption DEF Filed, Sound, ClosingRecorded

\* Nothing is stored but the archive.
LEMMA ReportsStart == ReportsInit => ReportsInv
<1> SUFFICES ASSUME ReportsInit PROVE ReportsInv
  OBVIOUS
<1>1. DeskInv
  BY InitDesk DEF ReportsInit
<1>2. Current /\ ticket.status = "absent"
  BY DEF ReportsInit, DeskInit, Current, IdleRequest, Absent, AnyTicket, NewTicket
<1> QED
  BY <1>1, <1>2, ReportsAssumption DEF ReportsInit, ReportsInv, NewCard

\* What is noted of a closing is the day and the level of the assignee.
LEMMA WorkedFiled ==
  ASSUME ReportsInv, DeskInv', Closes(ticket, ticket'), ClosingNoted,
         ticket.status # "absent", ticket'.status # "absent", UNCHANGED today
  PROVE  Filed(Stored(ticket', card'))
<1>1. ticket \in Ticket /\ Sound(ticket) /\ ticket' \in Ticket /\ Sound(ticket')
  BY DEF ReportsInv, DeskInv, TypeOK
<1>2. /\ card.type \in Type /\ card.created \in Nat
      /\ ticket.closedBy # NoAgent => card.closedAt \in 0..LastDay /\ card.closerLevel \in Level
  BY DEF ReportsInv, Filed, Stored
<1>3. CASE ~(ticket'.closed /\ ~ticket.closed)
  <2>1. card' = card /\ ticket'.closedBy = ticket.closedBy
    BY <1>3 DEF ClosingNoted, Closes
  <2>2. card'.type \in Type /\ card'.created \in Nat /\
        (ticket'.closedBy # NoAgent => card'.closedAt \in 0..LastDay /\ card'.closerLevel \in Level)
    BY <1>2, <2>1
  <2> QED
    BY <1>1, <2>2, DeskFiled
<1>4. CASE ticket'.closed /\ ~ticket.closed
  <2> DEFINE l == IF ActiveEntries(ticket) = {} THEN 0
                  ELSE ticket.history[ActiveIndex(ticket)].level
  <2>1. card' = [card EXCEPT !.closedAt = today, !.closerLevel = l]
    BY <1>4 DEF ClosingNoted
  <2>2. card'.type = card.type /\ card'.created = card.created
    BY <2>1
  <2>3. ASSUME ticket'.closedBy # NoAgent
        PROVE  card'.closedAt \in 0..LastDay /\ card'.closerLevel \in Level
    <3>1. ticket.closedBy = NoAgent
      BY <1>1, <1>4 DEF Sound, ClosingRecorded
    <3>2. Assignee(ticket) # NoAgent
      BY <2>3, <3>1 DEF Closes
    <3>3. ActiveEntries(ticket) # {} /\ ActiveIndex(ticket) \in DOMAIN ticket.history
      BY <1>1, <3>2, ActiveEntry DEF Sound, Assignee
    <3>4. l \in Level
      <4>1. ticket.history[ActiveIndex(ticket)] \in Entry
        <5>1. ticket.history \in Seq(Entry)
          BY <1>1, HistoryType
        <5> HIDE DEF Entry
        <5> QED
          BY <3>3, <5>1
      <4>2. \A e \in Entry : e.level \in Level
        OBVIOUS
      <4> HIDE DEF ActiveEntries, Entry
      <4> QED
        BY <3>3, <4>1, <4>2
    <3>5. card'.closedAt = today /\ card'.closerLevel = l
      BY <2>1 DEF ReportsInv
    <3>6. today \in 0..LastDay
      BY ReportsAssumption DEF ReportsInv
    <3> QED
      BY <3>4, <3>5, <3>6
  <2> QED
    BY <1>1, <1>2, <2>2, <2>3, DeskFiled
<1> QED
  BY <1>3, <1>4

\* Every step leaves the collection filed.
LEMMA ReportsStep == ReportsInv /\ [ReportsNext]_reportVars => ReportsInv'
<1> SUFFICES ASSUME ReportsInv, [ReportsNext]_reportVars PROVE ReportsInv'
  OBVIOUS
<1> USE DEF ReportsInv
<1>1. [Next]_vars
  BY DEF ReportsNext, Created, Worked, DayPasses, Next, DeskNext, reportVars, vars
<1>2. DeskInv' /\ Current'
  BY <1>1, StepKeeps, CurrentKept, ReportsAssumption DEF Alone
<1>3. CASE Created
  <2>1. PICK arrival \in Arrivals : card' = NewCard(arrival[1], arrival[2])
    BY <1>3 DEF Created
  <2>2. arrival[1] \in Type
    BY ReportsAssumption
  <2>3. /\ card'.type \in Type /\ card'.created = today
        /\ {"closedAt", "closerLevel"} \subseteq DOMAIN card'
    BY <2>1, <2>2 DEF NewCard
  <2>4. ticket'.closedBy = NoAgent
    BY <1>3 DEF Created, CreateTicket, NewTicket
  <2>5. today \in Nat /\ ticket' \in Ticket /\ Sound(ticket')
    BY <1>2, ReportsAssumption DEF DeskInv, TypeOK
  <2>6. ticket'.status # "absent" => Filed(Stored(ticket', card'))
    BY <2>3, <2>4, <2>5, DeskFiled
  <2> QED
    BY <1>2, <1>3, <2>3, <2>6 DEF Created
<1>4. CASE Worked
  <2>1. {"closedAt", "closerLevel"} \subseteq DOMAIN card'
    BY <1>4 DEF Worked, ClosingNoted
  <2>2. ticket'.status # "absent" => ticket.status # "absent"
    <3>1. CASE \E r \in Request : RequestStep(r)
      <4> SUFFICES ASSUME ticket.status = "absent" PROVE ticket' = ticket
        OBVIOUS
      <4>1. PICK r \in Request : RequestStep(r)
        BY <3>1
      <4>2. request[r].pc # "loaded"
        BY DEF Current, Status
      <4> QED
        BY <4>1, <4>2 DEF RequestStep, Load, Take, Assign, Escalate, Transfer, Cancel,
           UpdateStatus, UpdateTicket, AddComment, EditComment, DeleteComment, Refuse, Ready
    <3> QED
      BY <1>4, <3>1 DEF Worked, Crash, HandlerEnds
  <2>3. Closes(ticket, ticket')
    <3>1. CASE \E r \in Request : RequestStep(r)
      BY <3>1, StepCloses
    <3> QED
      BY <1>4, <3>1 DEF Worked, Crash, HandlerEnds, Closes
  <2>4. ticket'.status # "absent" => Filed(Stored(ticket', card'))
    BY <1>2, <1>4, <2>2, <2>3, WorkedFiled DEF Worked
  <2> QED
    BY <1>2, <1>4, <2>1, <2>4 DEF Worked
<1>5. CASE DayPasses
  BY <1>2, <1>5, ReportsAssumption DEF DayPasses, vars
<1>6. CASE UNCHANGED reportVars
  BY <1>2, <1>6 DEF reportVars, vars
<1> QED
  BY <1>3, <1>4, <1>5, <1>6 DEF ReportsNext

\* Whatever the desk does with its ticket and whatever day it is, every stored
\* ticket is filed: it has at most one active assignment, its last one, and a
\* closing that names an agent has a day and a level.
THEOREM CollectionFiled == ReportsSpec => []ReportsInv
  BY ReportsStart, ReportsStep, PTL DEF ReportsSpec

\* Days that pass and tickets of the archive do not matter to the board.
THEOREM BoardReported == ReportsSpec => ImplementsBoard
<1>1. ReportsInit => Board!BoardInit
  BY BoardStart DEF ReportsInit
<1>2. ReportsInv /\ [ReportsNext]_reportVars => [Board!BoardNext]_(Board!boardVars)
  <2> SUFFICES ASSUME ReportsInv, [ReportsNext]_reportVars
               PROVE  [Board!BoardNext]_(Board!boardVars)
    OBVIOUS
  <2>1. [Next]_vars
    BY DEF ReportsNext, Created, Worked, DayPasses, Next, DeskNext, reportVars, vars
  <2> QED
    BY <2>1, BoardStep DEF ReportsInv
<1> QED
  BY <1>1, <1>2, CollectionFiled, PTL DEF ReportsSpec, ImplementsBoard, Board!BoardSpec

-----------------------------------------------------------------------------
(* Sums over functions.  SumFunction adds the values one by one, in an     *)
(* order CHOOSE picks; what it returns is proved by well-founded induction *)
(* on the sets that are left.                                              *)

\* What SumFunction unfolds.
SumRec(f, D, g) ==
  g = [s \in SUBSET D |->
         IF s = {} THEN 0 ELSE f[CHOOSE x \in s : TRUE] + g[s \ {CHOOSE x \in s : TRUE}]]

\* SumFunction is one of its solutions.
LEMMA Unfold ==
  ASSUME NEW f
  PROVE  SumFunction(f) = (CHOOSE g : SumRec(f, DOMAIN f, g))[DOMAIN f]
  BY DEF SumFunction, SumFunctionOnSet, FoldFunctionOnSet, MapThenFoldSet, SumRec

\* There is one solution: a smallest set where two differ has a smaller one.
LEMMA OneSum ==
  ASSUME NEW f, NEW D, IsFiniteSet(D), NEW g, NEW h, SumRec(f, D, g), SumRec(f, D, h)
  PROVE  g[D] = h[D]
<1> DEFINE Differ == {s \in SUBSET D : g[s] # h[s]}
<1>1. Differ = {}
  <2>1. SUFFICES ASSUME Differ # {} PROVE FALSE
    OBVIOUS
  <2>2. Differ \subseteq FiniteSubsetsOf(D)
    BY FS_FiniteSubsetsOfFinite
  <2>3. PICK s \in Differ : \A t \in Differ : ~ (<<t, s>> \in StrictSubsetOrdering(D))
    <3> HIDE DEF Differ
    <3> QED
      BY <2>1, <2>2, FS_StrictSubsetOrderingWellFounded, WFMin
  <2> DEFINE x == CHOOSE x \in s : TRUE
  <2>4. g[s] = (IF s = {} THEN 0 ELSE f[x] + g[s \ {x}])
    BY DEF SumRec
  <2>5. h[s] = (IF s = {} THEN 0 ELSE f[x] + h[s \ {x}])
    BY DEF SumRec
  <2>6. s # {} /\ g[s \ {x}] # h[s \ {x}]
    BY <2>4, <2>5
  <2>7. x \in s
    BY <2>6
  <2>8. <<s \ {x}, s>> \in StrictSubsetOrdering(D)
    BY <2>7 DEF StrictSubsetOrdering
  <2> QED
    BY <2>3, <2>6, <2>8
<1> QED
  BY <1>1

\* One value more counts what is mapped to it.
LEMMA Whole ==
  ASSUME NEW S, IsFiniteSet(S), NEW D, NEW g \in [S -> D], NEW s \in SUBSET D, NEW x \in s
  PROVE  Cardinality({i \in S : g[i] \in s})
           = Cardinality({i \in S : g[i] = x}) + Cardinality({i \in S : g[i] \in s \ {x}})
<1> DEFINE A == {i \in S : g[i] = x}
           B == {i \in S : g[i] \in s \ {x}}
           C == {i \in S : g[i] \in s}
<1>1. C = A \union B /\ A \intersect B = {}
  OBVIOUS
<1>2. IsFiniteSet(A) /\ IsFiniteSet(B)
  BY FS_Subset
<1> HIDE DEF A, B, C
<1>3. Cardinality(C) = Cardinality(A) + Cardinality(B) - Cardinality({})
  BY <1>1, <1>2, FS_Union
<1>4. Cardinality(C) = Cardinality(A) + Cardinality(B)
  BY <1>2, <1>3, FS_EmptySet, FS_CardinalityType
<1> QED
  BY <1>4 DEF A, B, C

\* What g maps to d.
Fibre(S, g, d) == {i \in S : g[i] = d}

\* Counting what a function maps to each of its values, and adding that up,
\* counts everything once.
LEMMA SumFibres ==
  ASSUME NEW S, IsFiniteSet(S), NEW D, IsFiniteSet(D), NEW f, DOMAIN f = D,
         NEW g \in [S -> D], \A d \in D : f[d] = Cardinality(Fibre(S, g, d))
  PROVE  SumFunction(f) = Cardinality(S)
<1> DEFINE G == [s \in SUBSET D |-> Cardinality({i \in S : g[i] \in s})]
           H == CHOOSE h : SumRec(f, D, h)
<1>1. SumRec(f, D, G)
  <2>1. SUFFICES ASSUME NEW s \in SUBSET D
        PROVE  G[s] = IF s = {} THEN 0
                      ELSE f[CHOOSE x \in s : TRUE] + G[s \ {CHOOSE x \in s : TRUE}]
    BY DEF SumRec
  <2>2. CASE s = {}
    <3>1. {i \in S : g[i] \in s} = {}
      BY <2>2
    <3> QED
      BY <2>2, <3>1, FS_EmptySet
  <2>3. CASE s # {}
    <3> DEFINE x == CHOOSE x \in s : TRUE
    <3>1. x \in s
      BY <2>3
    <3> HIDE DEF x
    <3>2. G[s] = Cardinality({i \in S : g[i] = x}) + G[s \ {x}]
      <4>1. G[s \ {x}] = Cardinality({i \in S : g[i] \in s \ {x}})
        OBVIOUS
      <4> QED
        BY <3>1, <4>1, Whole
    <3>3. f[x] = Cardinality({i \in S : g[i] = x})
      BY <3>1 DEF Fibre
    <3>4. G[s] = f[x] + G[s \ {x}]
      BY <3>2, <3>3
    <3> QED
      BY <2>3, <3>4 DEF x
  <2> QED
    BY <2>2, <2>3
<1> HIDE DEF G
<1>2. SumRec(f, D, H)
  BY <1>1
<1>3. SumFunction(f) = H[D]
  BY Unfold
<1> HIDE DEF H
<1>4. SumFunction(f) = G[D]
  BY <1>1, <1>2, <1>3, OneSum
<1>5. {i \in S : g[i] \in D} = S
  OBVIOUS
<1> QED
  BY <1>4, <1>5 DEF G

\* The parts of a finite set.
LEMMA TwoParts ==
  ASSUME NEW S, IsFiniteSet(S), NEW A \in SUBSET S, NEW B \in SUBSET S,
         A \intersect B = {}, A \union B = S
  PROVE  Cardinality(S) = Cardinality(A) + Cardinality(B)
<1>1. IsFiniteSet(A) /\ IsFiniteSet(B)
  BY FS_Subset
<1>2. Cardinality(S) = Cardinality(A) + Cardinality(B) - Cardinality({})
  BY <1>1, FS_Union
<1> QED
  BY <1>1, <1>2, FS_EmptySet, FS_CardinalityType

\* The values of a function on a finite set are finitely many.
LEMMA FiniteImage ==
  ASSUME NEW S, IsFiniteSet(S), NEW g, DOMAIN g = S
  PROVE  IsFiniteSet({g[i] : i \in S})
<1> DEFINE T == {g[i] : i \in S}
           f == [i \in S |-> g[i]]
<1>1. f \in [S -> T] /\ \A y \in T : \E i \in S : f[i] = y
  OBVIOUS
<1> HIDE DEF f, T
<1>2. f \in Surjection(S, T)
  BY <1>1 DEF Surjection
<1>3. IsFiniteSet(T)
  BY <1>2, FS_Surjection
<1> QED
  BY <1>3 DEF T

-----------------------------------------------------------------------------
(* What is read from the collection.                                       *)

\* A finite sequence of filed tickets.
Stocked ==
  \E n \in Nat : Position = 1..n /\ \A i \in Position : Filed(Collection[i])

\* The desk's ticket is stored behind the archive.
LEMMA StockKept == ReportsInv => Stocked
<1> SUFFICES ASSUME ReportsInv PROVE Stocked
  OBVIOUS
<1>1. archive \in Seq(Range(archive)) /\ \A x \in Range(archive) : Filed(x)
  BY ArchiveAssumption DEF ReportsInv
<1>2. /\ Len(archive) \in Nat /\ DOMAIN archive = 1..Len(archive)
      /\ \A i \in DOMAIN archive : Filed(archive[i])
  BY <1>1 DEF Range
<1>3. CASE ticket.status = "absent"
  BY <1>2, <1>3 DEF Stocked, Position, Collection
<1>4. CASE ticket.status # "absent"
  <2> DEFINE x == Stored(ticket, card)
             n == Len(archive)
             T == Range(archive) \union {x}
  <2>1. archive \in Seq(T) /\ x \in T
    BY <1>1
  <2>2. Filed(x)
    BY <1>4 DEF ReportsInv
  <2> HIDE DEF x, T
  <2>3. /\ DOMAIN Append(archive, x) = 1..(n + 1)
        /\ \A i \in 1..n : Append(archive, x)[i] = archive[i]
        /\ Append(archive, x)[n + 1] = x
    BY <2>1
  <2>4. \A i \in 1..(n + 1) : Filed(Append(archive, x)[i])
    BY <1>2, <2>2, <2>3
  <2>5. Collection = Append(archive, x)
    BY <1>4 DEF Collection, x
  <2> QED
    BY <1>2, <2>3, <2>4, <2>5 DEF Stocked, Position
<1> QED
  BY <1>3, <1>4

\* There is one active entry at most, so the first of the dashboard and the
\* last of the queue name the same agent, and nobody without one.
LEMMA SameAgent ==
  ASSUME NEW x, Filed(x)
  PROVE  /\ HasActive(x.doc) <=> Assignee(x.doc) # NoAgent
         /\ HasActive(x.doc) => FirstActive(x.doc) = Assignee(x.doc)
<1> DEFINE h == x.doc.history
           n == Len(h)
<1>1. h \in Seq(Entry) /\ OneActive(x.doc)
  BY DEF Filed
<1>2. n \in Nat /\ DOMAIN h = 1..n /\ \A i \in 1..n : h[i] \in Entry
  <2> HIDE DEF Entry
  <2> QED
    BY <1>1
<1>3. ActiveEntries(x.doc) \subseteq {n}
  BY DEF Filed, OneActive
<1>4. CASE ActiveEntries(x.doc) = {}
  BY <1>4 DEF HasActive, Assignee
<1>5. CASE ActiveEntries(x.doc) = {n}
  <2>1. n \in 1..n
    BY <1>2, <1>5
  <2>2. h[n].agent \in Agent
    <3>1. \A e \in Entry : e.agent \in Agent
      OBVIOUS
    <3> HIDE DEF Entry
    <3> QED
      BY <1>2, <2>1, <3>1
  <2> HIDE DEF ActiveEntries
  <2>3. ActiveIndex(x.doc) = n
    BY <1>2, <1>5 DEF ActiveIndex
  <2>4. (CHOOSE i \in ActiveEntries(x.doc) : \A j \in ActiveEntries(x.doc) : i <= j) = n
    BY <1>2, <1>5
  <2>5. Assignee(x.doc) = h[n].agent /\ FirstActive(x.doc) = h[n].agent
    BY <1>5, <2>3, <2>4 DEF Assignee, FirstActive
  <2> QED
    BY <1>5, <2>2, <2>5, EventBusAssumption DEF HasActive
<1> QED
  BY <1>3, <1>4, <1>5

\* The queue without a status filter is what is open.
LEMMA OpenQueue ==
  ASSUME Stocked, NEW ty \in Type
  PROVE  OpenOfType(ty) = {i \in Position : /\ Collection[i].doc.status \in QueueStatuses("any")
                                            /\ Collection[i].card.type = ty}
<1>1. \A i \in Position : Collection[i].doc.status \in Status
  BY DEF Stocked, Filed
<1>2. \A i \in Position : IsOpen(Collection[i].doc) <=> Collection[i].doc.status \in QueueStatuses("any")
  BY <1>1 DEF IsOpen, QueueStatuses, Status
<1> QED
  BY <1>2 DEF OpenOfType, OfType

\* The filter of a type, and what may be asked besides.
LEMMA TypeFilter ==
  ASSUME NEW ty
  PROVE  LET f == OfTypeFilter(ty) IN
         /\ f.status = "any" /\ f.type = ty /\ f.level = 0
         /\ f.unassigned = FALSE /\ f.assignee = NoAgent
         /\ DOMAIN f = {"status", "type", "unassigned", "level", "assignee"}
  BY DEF OfTypeFilter, AnyFilter

\* The counters of the dashboard are totals of the queue.
LEMMA QueueSame == Stocked => QueueAgrees
<1> SUFFICES ASSUME Stocked, NEW ty \in Type
    PROVE /\ Kpis(ty).open = QueueTotal(OfTypeFilter(ty))
    /\ Kpis(ty).unassigned = QueueTotal([OfTypeFilter(ty) EXCEPT !.unassigned = TRUE])
    /\ \A row \in AssignedRows(ty) :
         row.count = QueueTotal([OfTypeFilter(ty) EXCEPT !.assignee = row.agent])
  BY DEF QueueAgrees
<1>1. ty # "any"
  BY DEF Type
<1>2. \A i \in Position : Filed(Collection[i])
  BY DEF Stocked
<1> DEFINE f == OfTypeFilter(ty)
<1>3. \A i \in Position :
        /\ HasActive(Collection[i].doc) <=> Assignee(Collection[i].doc) # NoAgent
        /\ HasActive(Collection[i].doc) =>
             FirstActive(Collection[i].doc) = Assignee(Collection[i].doc)
  <2> SUFFICES ASSUME NEW i \in Position
               PROVE  LET t == Collection[i].doc IN
                      /\ HasActive(t) <=> Assignee(t) # NoAgent
                      /\ HasActive(t) => FirstActive(t) = Assignee(t)
    OBVIOUS
  <2> QED
    BY <1>2, SameAgent
<1>4. Queued(f) = OpenOfType(ty)
  <2> HIDE DEF f
  <2>1. /\ f.status = "any" /\ f.type = ty /\ f.level = 0
        /\ f.unassigned = FALSE /\ f.assignee = NoAgent
    BY TypeFilter DEF f
  <2> QED
    BY <1>1, <2>1, OpenQueue DEF Queued, MatchesQueue
<1>5. Queued([f EXCEPT !.unassigned = TRUE]) = {i \in OpenOfType(ty) : ~HasActive(Collection[i].doc)}
  <2> HIDE DEF f
  <2>1. PICK g : g = [f EXCEPT !.unassigned = TRUE]
    OBVIOUS
  <2>2. /\ g.status = "any" /\ g.type = ty /\ g.level = 0
        /\ g.unassigned = TRUE /\ g.assignee = NoAgent
    <3>1. /\ f.status = "any" /\ f.type = ty /\ f.level = 0
          /\ f.unassigned = FALSE /\ f.assignee = NoAgent
          /\ DOMAIN f = {"status", "type", "unassigned", "level", "assignee"}
      BY TypeFilter DEF f
    <3> QED
      BY <2>1, <3>1
  <2>3. \A i \in Position :
          MatchesQueue(Collection[i].doc, g) <=> ~HasActive(Collection[i].doc)
    BY <1>3, <2>2 DEF MatchesQueue
  <2>4. Queued(g) = {i \in Position : /\ Collection[i].doc.status \in QueueStatuses("any")
                                     /\ Collection[i].card.type = ty
                                     /\ ~HasActive(Collection[i].doc)}
    BY <1>1, <2>2, <2>3 DEF Queued
  <2>5. Queued(g) = {i \in OpenOfType(ty) : ~HasActive(Collection[i].doc)}
    BY <2>4, OpenQueue
  <2> QED
    BY <2>1, <2>5
<1>6. ASSUME NEW row \in AssignedRows(ty)
      PROVE  row.count = QueueTotal([f EXCEPT !.assignee = row.agent])
  <2> HIDE DEF f
  <2> DEFINE S == {i \in OpenOfType(ty) : HasActive(Collection[i].doc)}
             under(a) == {i \in S : FirstActive(Collection[i].doc) = a}
  <2>1. PICK a \in {FirstActive(Collection[i].doc) : i \in S} :
          row = [agent |-> a, count |-> Count(under(a))]
    BY DEF AssignedRows
  <2>2. S \subseteq Position
    BY DEF OpenOfType, OfType
  <2>3. a # NoAgent
    <3>1. PICK i \in S : a = FirstActive(Collection[i].doc)
      BY <2>1
    <3> QED
      BY <1>3, <2>2, <3>1
  <2>4. PICK g : g = [f EXCEPT !.assignee = a]
    OBVIOUS
  <2>5. /\ g.status = "any" /\ g.type = ty /\ g.level = 0
        /\ g.unassigned = FALSE /\ g.assignee = a
    <3>1. /\ f.status = "any" /\ f.type = ty /\ f.level = 0
          /\ f.unassigned = FALSE /\ f.assignee = NoAgent
          /\ DOMAIN f = {"status", "type", "unassigned", "level", "assignee"}
      BY TypeFilter DEF f
    <3> QED
      BY <2>4, <3>1
  <2>6. Queued(g) = under(a)
    BY <1>1, <1>3, <2>3, <2>5, OpenQueue DEF Queued, MatchesQueue
  <2> QED
    BY <2>1, <2>4, <2>6 DEF QueueTotal
<1> QED
  BY <1>4, <1>5, <1>6 DEF Kpis, QueueTotal

-----------------------------------------------------------------------------
(* The dashboard adds up.                                                  *)

\* The collection is finite, and so is what is read from it.
LEMMA FiniteStock ==
  ASSUME Stocked
  PROVE  /\ IsFiniteSet(Position)
         /\ \A S \in SUBSET Position : IsFiniteSet(S) /\ Cardinality(S) \in Nat
<1>1. IsFiniteSet(Position)
  BY FS_Interval DEF Stocked
<1>2. ASSUME NEW S \in SUBSET Position PROVE IsFiniteSet(S) /\ Cardinality(S) \in Nat
  BY <1>1, FS_Subset, FS_CardinalityType
<1> QED
  BY <1>1, <1>2

\* Every open status has one bucket.
LEMMA BucketsAddUp ==
  ASSUME Stocked, NEW ty \in Type
  PROVE  LET buckets == OpenBreakdown(ty) IN
         Kpis(ty).open
           = buckets["pendente"] + buckets["em_atendimento"] + buckets["nao_atribuidos"]
<1> DEFINE O == OpenOfType(ty)
           in(b) == {i \in O : /\ Collection[i].doc.status \in DOMAIN BucketOf
                               /\ BucketOf[Collection[i].doc.status] = b}
           P == in("pendente")
           E == in("em_atendimento")
           N == in("nao_atribuidos")
<1>1. O \subseteq Position
  BY DEF OpenOfType, OfType
<1>2. \A i \in O : /\ Collection[i].doc.status \in DOMAIN BucketOf
                    /\ BucketOf[Collection[i].doc.status]
                         \in {"pendente", "em_atendimento", "nao_atribuidos"}
  <2> SUFFICES ASSUME NEW i \in O
               PROVE  /\ Collection[i].doc.status \in DOMAIN BucketOf
                      /\ BucketOf[Collection[i].doc.status]
                           \in {"pendente", "em_atendimento", "nao_atribuidos"}
    OBVIOUS
  <2>1. Collection[i].doc.status \in Status \ {"finished", "cancelled"}
    BY <1>1 DEF Stocked, Filed, OpenOfType, IsOpen
  <2> QED
    BY <2>1 DEF BucketOf, Status
<1>3. O = P \union (E \union N) /\ P \intersect (E \union N) = {} /\ E \intersect N = {}
  BY <1>2
<1>4. IsFiniteSet(O) /\ IsFiniteSet(E \union N) /\ Cardinality(P) \in Nat
      /\ Cardinality(E) \in Nat /\ Cardinality(N) \in Nat
  BY <1>1, FiniteStock
<1>5. /\ OpenBreakdown(ty)["pendente"] = Cardinality(P)
      /\ OpenBreakdown(ty)["em_atendimento"] = Cardinality(E)
      /\ OpenBreakdown(ty)["nao_atribuidos"] = Cardinality(N)
      /\ Kpis(ty).open = Cardinality(O)
  BY DEF OpenBreakdown, Kpis, Count
<1> HIDE DEF O, P, E, N
<1>6. Cardinality(O) = Cardinality(P) + Cardinality(E \union N)
  BY <1>3, <1>4, TwoParts
<1>7. Cardinality(E \union N) = Cardinality(E) + Cardinality(N)
  BY <1>3, <1>4, TwoParts
<1> QED
  BY <1>4, <1>5, <1>6, <1>7

\* The open tickets that are assigned.
Assigns(ty) == {i \in OpenOfType(ty) : HasActive(Collection[i].doc)}

\* The rows of the assigned tickets in one of their orders: each agent has one
\* row, at some place.
LEMMA RowPlaces ==
  ASSUME Stocked, NEW ty \in Type, NEW rows \in BiggestFirst(AssignedRows(ty))
  PROVE  \E n \in Nat : \E place \in [Assigns(ty) -> 1..n] :
           /\ DOMAIN rows = 1..n /\ rows \in Seq(AssignedRows(ty)) /\ Len(rows) = n
           /\ \A k \in 1..n : rows[k].count = Cardinality(Fibre(Assigns(ty), place, k))
<1> DEFINE R == AssignedRows(ty)
           S == Assigns(ty)
           agent(i) == FirstActive(Collection[i].doc)
           row(a) == [agent |-> a, count |-> Count({i \in S : agent(i) = a})]
           n == Cardinality(R)
           place == [i \in S |-> CHOOSE k \in 1..n : rows[k] = row(agent(i))]
<1>1. S \subseteq Position
  BY DEF Assigns, OpenOfType, OfType
<1>2. R = {row(a) : a \in {agent(i) : i \in S}}
  BY DEF AssignedRows, Assigns
<1> HIDE DEF S
<1>3. IsFiniteSet(R) /\ n \in Nat
  <2> DEFINE f == [i \in S |-> row(agent(i))]
  <2>1. f \in Surjection(S, R)
    <3>1. \A i \in S : row(agent(i)) \in R
      BY <1>2
    <3>2. f \in [S -> R]
      <4> HIDE DEF row, R, agent
      <4> QED
        BY <3>1
    <3>3. \A x \in R : \E i \in S : x = row(agent(i))
      <4> HIDE DEF row, R, agent
      <4> QED
        BY <1>2
    <3>4. \A x \in R : \E i \in S : f[i] = x
      <4> HIDE DEF row, R, agent
      <4> QED
        BY <3>3
    <3> HIDE DEF f, R
    <3> QED
      BY <3>2, <3>4 DEF Surjection
  <2>2. IsFiniteSet(S)
    BY <1>1, FiniteStock
  <2> HIDE DEF f, R
  <2> QED
    BY <2>1, <2>2, FS_Surjection, FS_CardinalityType
<1>4. rows \in [1..n -> R] /\ \A i, j \in 1..n : i # j => rows[i] # rows[j]
  BY DEF BiggestFirst, SetToSeqs
<1>5. \A x \in R : \E k \in 1..n : rows[k] = x
  <2>1. rows \in Injection(1..n, R)
    BY <1>4 DEF Injection, IsInjective
  <2>2. Cardinality(1..n) = n
    BY <1>3, FS_Interval
  <2> HIDE DEF R
  <2>3. rows \in Surjection(1..n, R)
    BY <1>3, <2>1, <2>2, FS_Injection
  <2> QED
    BY <2>3 DEF Surjection
<1>6. \A i \in S : place[i] \in 1..n /\ rows[place[i]] = row(agent(i))
  <2> SUFFICES ASSUME NEW i \in S PROVE place[i] \in 1..n /\ rows[place[i]] = row(agent(i))
    OBVIOUS
  <2>1. row(agent(i)) \in R
    BY <1>2
  <2>2. \E k \in 1..n : rows[k] = row(agent(i))
    BY <1>5, <2>1
  <2> HIDE DEF row, R
  <2> QED
    BY <2>2
<1>7. ASSUME NEW k \in 1..n PROVE rows[k].count = Cardinality(Fibre(S, place, k))
  <2>1. PICK a \in {agent(i) : i \in S} : rows[k] = row(a)
    BY <1>2, <1>4
  <2>2. \A i \in S : place[i] = k <=> agent(i) = a
    <3> SUFFICES ASSUME NEW i \in S PROVE place[i] = k <=> agent(i) = a
      OBVIOUS
    <3>1. place[i] \in 1..n /\ rows[place[i]] = row(agent(i))
      BY <1>6
    <3>2. row(agent(i)).agent = agent(i) /\ row(a).agent = a
      OBVIOUS
    <3> HIDE DEF place, row
    <3> QED
      BY <1>4, <2>1, <3>1, <3>2
  <2>3. {i \in S : place[i] = k} = {i \in S : agent(i) = a}
    BY <2>2
  <2>4. rows[k].count = Count({i \in S : agent(i) = a})
    BY <2>1
  <2> HIDE DEF place
  <2> QED
    BY <2>3, <2>4 DEF Count, Fibre
<1> HIDE DEF R, place
<1>8. rows \in Seq(R) /\ Len(rows) = n /\ DOMAIN rows = 1..n
  BY <1>3, <1>4
<1>9. place \in [S -> 1..n]
  BY <1>6 DEF place
<1> QED
  BY <1>3, <1>7, <1>8, <1>9 DEF R, S

\* The agents that are shown one by one, and the others together.
LEMMA TopAddsUp ==
  ASSUME Stocked, NEW ty \in Type, NEW rows \in BiggestFirst(AssignedRows(ty))
  PROVE  SumOf(TopRows(rows)) = Kpis(ty).open - Kpis(ty).unassigned
<1> DEFINE O == OpenOfType(ty)
           S == Assigns(ty)
           U == {i \in O : ~HasActive(Collection[i].doc)}
           rest == SubSeq(rows, TopLimit + 1, Len(rows))
           head == SubSeq(rows, 1, IF Len(rows) < TopLimit THEN Len(rows) ELSE TopLimit)
           others == [agent |-> NoAgent, count |-> SumOf(rest)]
           L == TopLimit
<1>1. S \subseteq Position /\ IsFiniteSet(S)
  BY FiniteStock DEF Assigns, OpenOfType, OfType
<1>2. PICK n \in Nat : \E place \in [S -> 1..n] :
        /\ DOMAIN rows = 1..n /\ rows \in Seq(AssignedRows(ty)) /\ Len(rows) = n
        /\ \A k \in 1..n : rows[k].count = Cardinality(Fibre(S, place, k))
  BY RowPlaces
<1>3. PICK place \in [S -> 1..n] :
        /\ DOMAIN rows = 1..n /\ rows \in Seq(AssignedRows(ty)) /\ Len(rows) = n
        /\ \A k \in 1..n : rows[k].count = Cardinality(Fibre(S, place, k))
  BY <1>2
<1>4. L \in Nat \ {0}
  BY ReportsAssumption
<1> HIDE DEF S, L
<1>5. SumOf(TopRows(rows)) = Cardinality(S)
  <2>1. CASE n <= L
    <3>1. rest = <<>> /\ head = rows
      BY <1>3, <1>4, <2>1 DEF L
    <3>2. TopRows(rows) = rows
      <4>1. TopRows(rows) = head \o <<>>
        BY <3>1 DEF TopRows
      <4> HIDE DEF rest, head
      <4> QED
        BY <1>3, <3>1, <4>1
    <3> DEFINE f == [k \in DOMAIN rows |-> rows[k].count]
    <3>3. DOMAIN f = 1..n /\ \A k \in DOMAIN f : f[k] = Cardinality(Fibre(S, place, k))
      BY <1>3
    <3>4. IsFiniteSet(1..n)
      BY FS_Interval
    <3> HIDE DEF f
    <3>5. SumFunction(f) = Cardinality(S)
      BY <1>1, <3>3, <3>4, SumFibres
    <3> QED
      BY <3>2, <3>5 DEF SumOf, f
  <2>2. CASE n > L
    <3> DEFINE Z == {i \in S : place[i] > L}
    <3>1. /\ Len(rest) = n - L /\ DOMAIN rest = 1..(n - L)
          /\ \A k \in 1..(n - L) : rest[k] = rows[L + k]
      BY <1>3, <1>4, <2>2 DEF L
    <3>2. /\ Len(head) = L /\ DOMAIN head = 1..L /\ head \in Seq(AssignedRows(ty))
          /\ \A k \in 1..L : head[k] = rows[k]
      BY <1>3, <1>4, <2>2 DEF L
    <3>3. SumOf(rest) = Cardinality(Z)
      <4> DEFINE f == [k \in DOMAIN rest |-> rest[k].count]
                 g == [i \in Z |-> place[i] - L]
      <4>1. IsFiniteSet(Z)
        BY <1>1, FS_Subset
      <4>2. DOMAIN f = 1..(n - L) /\ IsFiniteSet(1..(n - L))
        <5>1. n - L \in Int
          BY <1>2, <1>4
        <5>2. IsFiniteSet(1..(n - L))
          BY <5>1, FS_Interval
        <5> QED
          BY <3>1, <5>2
      <4>3. g \in [Z -> 1..(n - L)]
        BY <1>3, <1>4, <2>2
      <4>4. ASSUME NEW k \in 1..(n - L) PROVE f[k] = Cardinality(Fibre(Z, g, k))
        <5>1. f[k] = rows[L + k].count
          BY <3>1
        <5>2. L + k \in 1..n
          BY <1>4, <2>2
        <5>3. Fibre(Z, g, k) = Fibre(S, place, L + k)
          <6>1. \A i \in S : place[i] \in 1..n
            OBVIOUS
          <6>2. k \in Nat \ {0} /\ \A m \in 1..n : m \in Int
            BY <1>2, <1>4, <2>2
          <6>3. \A m \in Int : (m > L /\ m - L = k) <=> m = L + k
            BY <1>4, <6>2
          <6>4. \A i \in S : (i \in Z /\ g[i] = k) <=> place[i] = L + k
            BY <6>1, <6>2, <6>3
          <6> HIDE DEF Z, g
          <6> QED
            BY <6>4 DEF Fibre, Z
        <5> QED
          BY <1>3, <5>1, <5>2, <5>3
      <4> DEFINE D == 1..(n - L)
      <4> HIDE DEF f, g, Z, rest
      <4>5. IsFiniteSet(D) /\ DOMAIN f = D /\ g \in [Z -> D]
            /\ \A k \in D : f[k] = Cardinality(Fibre(Z, g, k))
        BY <4>2, <4>3, <4>4
      <4> HIDE DEF D
      <4>6. SumFunction(f) = Cardinality(Z)
        BY <4>1, <4>5, SumFibres
      <4> QED
        BY <4>6 DEF SumOf, f
    <3> DEFINE T == TopRows(rows)
               f == [k \in DOMAIN T |-> T[k].count]
               g == [i \in S |-> IF place[i] > L THEN L + 1 ELSE place[i]]
    <3>4. T = head \o <<others>>
      <4>1. rest # <<>>
        <5> HIDE DEF rest
        <5>1. Len(rest) # 0
          BY <1>2, <1>4, <2>2, <3>1
        <5> QED
          BY <5>1
      <4> QED
        BY <4>1 DEF TopRows, L
    <3>5. /\ DOMAIN T = 1..(L + 1)
          /\ \A k \in 1..L : T[k] = rows[k]
          /\ T[L + 1] = others
      <4> HIDE DEF T, head, others
      <4> QED
        BY <1>4, <3>2, <3>4
    <3>6. others.count = Cardinality(Z)
      BY <3>3
    <3>7. DOMAIN f = 1..(L + 1) /\ IsFiniteSet(1..(L + 1))
      <4>1. L + 1 \in Int
        BY <1>4
      <4>2. IsFiniteSet(1..(L + 1))
        BY <4>1, FS_Interval
      <4> QED
        BY <3>5, <4>2
    <3>8. g \in [S -> 1..(L + 1)]
      BY <1>3, <1>4, <2>2
    <3>9. ASSUME NEW k \in 1..(L + 1) PROVE f[k] = Cardinality(Fibre(S, g, k))
      <4>1. CASE k \in 1..L
        <5>1. f[k] = rows[k].count /\ k \in 1..n
          BY <1>4, <2>2, <3>5, <4>1
        <5>2. Fibre(S, g, k) = Fibre(S, place, k)
          BY <1>2, <1>4, <2>2, <4>1 DEF Fibre
        <5> QED
          BY <1>3, <5>1, <5>2
      <4>2. CASE k = L + 1
        <5>1. f[k] = Cardinality(Z)
          BY <3>5, <3>6, <4>2
        <5>2. Fibre(S, g, k) = Z
          BY <1>2, <1>4, <2>2, <4>2 DEF Fibre
        <5> QED
          BY <5>1, <5>2
      <4> QED
        BY <1>4, <4>1, <4>2
    <3> HIDE DEF T, f, g
    <3>10. SumFunction(f) = Cardinality(S)
      <4> DEFINE D == 1..(L + 1)
      <4>1. IsFiniteSet(D) /\ DOMAIN f = D /\ g \in [S -> D]
            /\ \A k \in D : f[k] = Cardinality(Fibre(S, g, k))
        BY <3>7, <3>8, <3>9
      <4> HIDE DEF D
      <4> QED
        BY <1>1, <4>1, SumFibres
    <3> QED
      BY <3>10 DEF SumOf, f, T
  <2> QED
    BY <1>4, <2>1, <2>2
<1>6. Cardinality(O) = Cardinality(S) + Cardinality(U)
  <2>1. IsFiniteSet(O)
    BY FiniteStock DEF OpenOfType, OfType
  <2> HIDE DEF O
  <2>2. S \union U = O /\ S \intersect U = {}
    BY DEF S, O, Assigns
  <2> HIDE DEF U
  <2> QED
    BY <2>1, <2>2, TwoParts
<1>7. Kpis(ty).open = Cardinality(O) /\ Kpis(ty).unassigned = Cardinality(U)
  BY DEF Kpis, Count
<1>8. Cardinality(S) \in Nat /\ Cardinality(U) \in Nat
  <2>1. U \subseteq Position
    BY DEF OpenOfType, OfType
  <2> QED
    BY <1>1, <2>1, FiniteStock
<1> QED
  BY <1>5, <1>6, <1>7, <1>8

\* Buckets and rows add up for every type.
LEMMA AddsUp == Stocked => DashboardAddsUp
<1> SUFFICES ASSUME Stocked, NEW ty \in Type
    PROVE  LET buckets == OpenBreakdown(ty) IN
           /\ Kpis(ty).open
                = buckets["pendente"] + buckets["em_atendimento"] + buckets["nao_atribuidos"]
           /\ \A rows \in BiggestFirst(AssignedRows(ty)) :
                SumOf(TopRows(rows)) = Kpis(ty).open - Kpis(ty).unassigned
  BY DEF DashboardAddsUp
<1> QED
  BY BucketsAddUp, TopAddsUp

\* For any archive, any agents and any TopLimit, the dashboard agrees with the
\* queue: TicketService and the aggregation of MongoDB count the same tickets,
\* although one looks at the last active assignment and the other at the
\* first; and the buckets and the rows, with "Outros", add up.
THEOREM DashboardSound == ReportsSpec => []DashboardAgrees
<1>1. ReportsInv => DashboardAgrees
  BY StockKept, QueueSame, AddsUp DEF DashboardAgrees
<1> QED
  BY <1>1, CollectionFiled, PTL

-----------------------------------------------------------------------------
(* The queue and its pages.                                                *)

\* What stands before a ticket among those of S.
Ahead(S, i) == {j \in S : Before(j, i)}

\* The sort key and the stored order leave no two tickets in the same place.
LEMMA BeforeOrders ==
  ASSUME Stocked
  PROVE  /\ \A i \in Position : ~Before(i, i)
         /\ \A i, j, k \in Position : Before(i, j) /\ Before(j, k) => Before(i, k)
         /\ \A i, j \in Position : i = j \/ Before(i, j) \/ Before(j, i)
         /\ \A i, j \in Position : MoreUrgent(Collection[i], Collection[j]) => Before(i, j)
<1> DEFINE r(i) == Rank[Collection[i].doc.detail.criticality]
           d(i) == Collection[i].card.created
           urgent(i, j) == r(i) < r(j) \/ (r(i) = r(j) /\ d(i) < d(j))
<1>1. \A i \in Position : r(i) \in Int /\ d(i) \in Int /\ i \in Int
  <2> SUFFICES ASSUME NEW i \in Position PROVE r(i) \in Int /\ d(i) \in Int /\ i \in Int
    OBVIOUS
  <2>1. Filed(Collection[i]) /\ i \in Int
    BY DEF Stocked
  <2>2. r(i) \in Int
    BY <2>1 DEF Filed, Rank, SlaDays
  <2> QED
    BY <2>1, <2>2 DEF Filed
<1>2. \A i, j : MoreUrgent(Collection[i], Collection[j]) <=> urgent(i, j)
  BY DEF MoreUrgent
<1>3. \A i, j : Before(i, j) <=> urgent(i, j) \/ (~urgent(j, i) /\ i < j)
  BY <1>2 DEF Before
<1> HIDE DEF r, d
<1>4. \A i \in Position : ~Before(i, i)
  BY <1>1, <1>3
<1>5. ASSUME NEW i \in Position, NEW j \in Position, NEW k \in Position,
             Before(i, j), Before(j, k)
      PROVE  Before(i, k)
  BY <1>1, <1>3, <1>5
<1>6. \A i, j \in Position : i = j \/ Before(i, j) \/ Before(j, i)
  BY <1>1, <1>3
<1> QED
  BY <1>2, <1>3, <1>4, <1>5, <1>6

\* Counting what stands before numbers the tickets of S from 0 on.
LEMMA Ranks ==
  ASSUME Stocked, NEW S \in SUBSET Position
  PROVE  /\ \A i \in S : Count(Ahead(S, i)) \in 0..(Count(S) - 1)
         /\ \A i, j \in S : Before(i, j) => Count(Ahead(S, i)) < Count(Ahead(S, j))
         /\ \A k \in 0..(Count(S) - 1) : \E i \in S : Count(Ahead(S, i)) = k
<1>1. IsFiniteSet(S) /\ Count(S) \in Nat
  BY FiniteStock DEF Count
<1>2. ASSUME NEW i \in S, NEW T \in SUBSET S, Ahead(S, i) \union {i} \subseteq T
      PROVE  Count(Ahead(S, i)) \in Nat /\ Count(Ahead(S, i)) + 1 <= Count(T)
  <2>1. Ahead(S, i) \subseteq S /\ i \notin Ahead(S, i)
    BY BeforeOrders DEF Ahead
  <2>2. IsFiniteSet(Ahead(S, i)) /\ Count(Ahead(S, i)) \in Nat
    BY <1>1, <2>1, FS_Subset, FS_CardinalityType DEF Count
  <2>3. /\ IsFiniteSet(Ahead(S, i) \union {i})
        /\ Count(Ahead(S, i) \union {i}) = Count(Ahead(S, i)) + 1
    BY <2>1, <2>2, FS_AddElement DEF Count
  <2>4. Count(Ahead(S, i) \union {i}) <= Count(T)
    BY <1>1, <1>2, FS_Subset DEF Count
  <2> QED
    BY <2>2, <2>3, <2>4
<1>3. \A i \in S : Count(Ahead(S, i)) \in 0..(Count(S) - 1)
  <2> SUFFICES ASSUME NEW i \in S PROVE Count(Ahead(S, i)) \in 0..(Count(S) - 1)
    OBVIOUS
  <2>1. Ahead(S, i) \union {i} \subseteq S
    BY DEF Ahead
  <2>2. Count(Ahead(S, i)) \in Nat /\ Count(Ahead(S, i)) + 1 <= Count(S)
    BY <1>2, <2>1
  <2> QED
    BY <1>1, <2>2
<1>4. ASSUME NEW i \in S, NEW j \in S, Before(i, j)
      PROVE  Count(Ahead(S, i)) < Count(Ahead(S, j))
  <2>1. Ahead(S, j) \in SUBSET S /\ Ahead(S, i) \union {i} \subseteq Ahead(S, j)
    BY <1>4, BeforeOrders DEF Ahead
  <2>2. Count(Ahead(S, i)) + 1 <= Count(Ahead(S, j))
    BY <1>2, <2>1
  <2> QED
    BY <1>1, <1>3, <2>2
<1>5. \A k \in 0..(Count(S) - 1) : \E i \in S : Count(Ahead(S, i)) = k
  <2> DEFINE T == 0..(Count(S) - 1)
             f == [i \in S |-> Count(Ahead(S, i))]
  <2>1. f \in [S -> T]
    BY <1>3
  <2>2. ASSUME NEW i \in S, NEW j \in S, f[i] = f[j] PROVE i = j
    <3>1. i = j \/ f[i] < f[j] \/ f[j] < f[i]
      BY <1>4, BeforeOrders
    <3>2. f[i] \in Int
      BY <1>1, <1>3
    <3> QED
      BY <2>2, <3>1, <3>2
  <2>3. IsFiniteSet(T) /\ Cardinality(T) = Cardinality(S)
    BY <1>1, FS_Interval DEF Count
  <2> HIDE DEF f, T
  <2>4. f \in Injection(S, T)
    BY <2>1, <2>2 DEF Injection, IsInjective
  <2>5. f \in Surjection(S, T)
    BY <2>3, <2>4, FS_Injection
  <2>6. \A t \in T : \E i \in S : f[i] = t
    BY <2>5 DEF Surjection
  <2> QED
    BY <2>6 DEF f, T
<1> QED
  BY <1>3, <1>4, <1>5

\* The queue is a sequence of what is queued, each ticket once, in the order
\* of the sort key.
LEMMA QueueSorted ==
  ASSUME Stocked, NEW f
  PROVE  /\ Queue(f) \in Seq(Queued(f)) /\ Len(Queue(f)) = Count(Queued(f))
         /\ \A i \in Queued(f) : \E k \in 1..Len(Queue(f)) : Queue(f)[k] = i
         /\ \A j, k \in 1..Len(Queue(f)) :
              j < k => ~MoreUrgent(Collection[Queue(f)[k]], Collection[Queue(f)[j]])
<1> DEFINE S == Queued(f)
           N == Count(S)
           q == Queue(f)
           c(i) == Count(Ahead(S, i))
<1>1. S \in SUBSET Position
  BY DEF Queued
<1>2. N \in Nat
  BY <1>1, FiniteStock DEF Count
<1>3. q = [k \in 1..N |-> CHOOSE i \in S : c(i) = k - 1]
  BY DEF Queue, Ahead
<1> HIDE DEF S, N, q, c
<1>4. /\ \A i \in S : c(i) \in 0..(N - 1)
      /\ \A i, j \in S : Before(i, j) => c(i) < c(j)
      /\ \A k \in 0..(N - 1) : \E i \in S : c(i) = k
  BY <1>1, Ranks DEF c, N
<1>5. \A k \in 1..N : q[k] \in S /\ c(q[k]) = k - 1
  <2> SUFFICES ASSUME NEW k \in 1..N PROVE q[k] \in S /\ c(q[k]) = k - 1
    OBVIOUS
  <2>1. k - 1 \in 0..(N - 1)
    BY <1>2
  <2>2. \E i \in S : c(i) = k - 1
    BY <1>4, <2>1
  <2> QED
    BY <1>3, <2>2
<1>6. q \in Seq(S) /\ Len(q) = N
  BY <1>2, <1>3, <1>5
<1>7. ASSUME NEW i \in S PROVE \E k \in 1..N : q[k] = i
  <2>1. c(i) + 1 \in 1..N /\ c(i) \in Int
    BY <1>2, <1>4
  <2>2. q[c(i) + 1] \in S /\ c(q[c(i) + 1]) = c(i)
    BY <1>5, <2>1
  <2>3. i \in Position /\ q[c(i) + 1] \in Position
    BY <1>1, <2>2
  <2>4. i = q[c(i) + 1] \/ Before(i, q[c(i) + 1]) \/ Before(q[c(i) + 1], i)
    BY <2>3, BeforeOrders
  <2> QED
    BY <1>4, <2>1, <2>2, <2>4
<1>8. ASSUME NEW j \in 1..N, NEW k \in 1..N, j < k
      PROVE  ~MoreUrgent(Collection[q[k]], Collection[q[j]])
  <2>1. q[j] \in S /\ q[k] \in S /\ c(q[j]) = j - 1 /\ c(q[k]) = k - 1
    BY <1>5
  <2>2. ~(c(q[k]) < c(q[j]))
    BY <1>2, <1>8, <2>1
  <2>3. ~Before(q[k], q[j])
    BY <1>4, <2>1, <2>2
  <2>4. q[j] \in Position /\ q[k] \in Position
    BY <1>1, <2>1
  <2> QED
    BY <2>3, <2>4, BeforeOrders
<1> QED
  BY <1>6, <1>7, <1>8 DEF S, N, q

\* What FlattenSeq unfolds.
Flattens(seqs, g) ==
  g = [i \in 1..Len(seqs) |-> IF i = 1 THEN seqs[i] ELSE g[i - 1] \o seqs[i]]

\* FlattenSeq is one of its solutions.
LEMMA FlattenUnfolds ==
  ASSUME NEW seqs
  PROVE  FlattenSeq(seqs)
           = IF Len(seqs) = 0 THEN seqs ELSE (CHOOSE g : Flattens(seqs, g))[Len(seqs)]
  BY DEF FlattenSeq, Flattens

\* There is one solution: an earliest place where two differ has an earlier
\* one.
LEMMA OneFlattening ==
  ASSUME NEW seqs, Len(seqs) \in Nat \ {0}, NEW g, NEW h, Flattens(seqs, g), Flattens(seqs, h)
  PROVE  g[Len(seqs)] = h[Len(seqs)]
<1> DEFINE n == Len(seqs)
           Differ == {i \in 1..n : g[i] # h[i]}
<1>1. SUFFICES ASSUME Differ # {} PROVE FALSE
  OBVIOUS
<1>2. Differ \subseteq Nat
  OBVIOUS
<1>3. PICK i \in Differ : \A j \in Differ : ~ (<<j, i>> \in OpToRel(<, Nat))
  <2> HIDE DEF Differ
  <2> QED
    BY <1>1, <1>2, NatLessThanWellFounded, WFMin
<1>4. \A j \in Differ : ~ (j < i)
  BY <1>2, <1>3 DEF OpToRel
<1>5. /\ g[i] = IF i = 1 THEN seqs[i] ELSE g[i - 1] \o seqs[i]
      /\ h[i] = IF i = 1 THEN seqs[i] ELSE h[i - 1] \o seqs[i]
  BY DEF Flattens
<1>6. i # 1 /\ g[i - 1] # h[i - 1]
  BY <1>5
<1>7. i - 1 \in Differ /\ i - 1 < i
  BY <1>6
<1> QED
  BY <1>4, <1>7

\* Pages that follow each other without a gap are the whole.
LEMMA PagesJoin ==
  ASSUME NEW T, NEW q \in Seq(T)
  PROVE  FlattenSeq([p \in Pages(Len(q)) |-> PageOf(q, p)]) = q
<1> DEFINE N == Len(q)
           P == (N + PageSize - 1) \div PageSize
           seqs == [p \in Pages(Len(q)) |-> PageOf(q, p)]
           end(p) == IF p * PageSize < N THEN p * PageSize ELSE N
           G == [p \in 1..P |-> SubSeq(q, 1, end(p))]
<1>1. N \in Nat /\ PageSize \in Nat \ {0}
  BY ReportsAssumption
<1>2. P \in Int /\ P * PageSize <= N + PageSize - 1 /\ N + PageSize - 1 < P * PageSize + PageSize
  BY <1>1
<1>3. P \in Nat /\ (P = 0 => N = 0)
  BY <1>1, <1>2
<1>4. DOMAIN seqs = 1..P /\ \A p \in 1..P : seqs[p] = PageOf(q, p)
  BY DEF Pages
<1>5. Len(seqs) = P
  BY <1>3, <1>4
<1>6. CASE P = 0
  <2>1. DOMAIN seqs = {}
    BY <1>4, <1>6
  <2>2. seqs = <<>>
    <3> HIDE DEF seqs, P
    <3> QED
      BY <1>5, <1>6, <2>1, EmptySeq
  <2>3. q = <<>>
    BY <1>3, <1>6
  <2> HIDE DEF seqs, P
  <2> QED
    BY <1>5, <1>6, <2>2, <2>3, FlattenUnfolds DEF seqs
<1>7. CASE P # 0
  <2>1. \A p \in 0..P : p * PageSize \in Nat /\ end(p) \in 0..N
    BY <1>1, <1>3
  <2>2. \A p \in 1..P : (p - 1) * PageSize + PageSize = p * PageSize
    BY <1>1, <1>3
  <2>3. Flattens(seqs, G)
    <3> SUFFICES ASSUME NEW p \in 1..P
                 PROVE  G[p] = IF p = 1 THEN PageOf(q, p) ELSE G[p - 1] \o PageOf(q, p)
      BY <1>4, <1>5 DEF Flattens
    <3>1. PageOf(q, p) = SubSeq(q, (p - 1) * PageSize + 1, end(p))
      BY <2>2 DEF PageOf
    <3>2. CASE p = 1
      <4>1. (p - 1) * PageSize + 1 = 1
        BY <1>1, <3>2
      <4>2. G[p] = SubSeq(q, 1, end(p))
        OBVIOUS
      <4> HIDE DEF G, end
      <4> QED
        BY <3>1, <3>2, <4>1, <4>2
    <3>3. CASE p # 1
      <4> DEFINE before == (p - 1) * PageSize
      <4>1. p - 1 \in 1..P /\ p - 1 \in 0..P /\ p \in 0..P
        BY <1>3, <3>3
      <4>2. before \in Nat /\ end(p) \in 0..N /\ end(p - 1) \in 0..N /\ before <= p * PageSize
        BY <1>1, <2>1, <2>2, <4>1
      <4>3. end(p - 1) = IF before < N THEN before ELSE N
        OBVIOUS
      <4>4. PageOf(q, p) = SubSeq(q, end(p - 1) + 1, end(p))
        <5>1. CASE before < N
          BY <3>1, <4>3, <5>1
        <5>2. CASE ~(before < N)
          <6>1. end(p) = N /\ end(p - 1) = N
            BY <1>1, <2>1, <4>1, <4>2, <4>3, <5>2
          <6>2. N + 1 \in Int /\ before + 1 \in Int /\ N < N + 1 /\ N < before + 1 /\ N \in Int
            BY <1>1, <4>2, <5>2
          <6> HIDE DEF before, N, end
          <6>3. SubSeq(q, N + 1, N) = <<>> /\ SubSeq(q, before + 1, N) = <<>>
            BY <6>2, SubSeqEmpty
          <6> QED
            BY <3>1, <6>1, <6>3 DEF before
        <5> QED
          BY <5>1, <5>2
      <4>5. end(p - 1) <= end(p)
        BY <1>1, <4>2, <4>3
      <4>6. SubSeq(q, 1, end(p - 1)) \o SubSeq(q, end(p - 1) + 1, end(p)) = SubSeq(q, 1, end(p))
        <5>1. 1 \in 1..(Len(q) + 1) /\ end(p - 1) \in (1 - 1)..Len(q) /\ end(p) \in end(p - 1)..Len(q)
          BY <1>1, <4>2, <4>5
        <5> HIDE DEF end
        <5> QED
          BY <5>1, ConcatAdjacentSubSeq
      <4>7. G[p] = SubSeq(q, 1, end(p)) /\ G[p - 1] = SubSeq(q, 1, end(p - 1))
        BY <4>1
      <4> HIDE DEF G, end
      <4> QED
        BY <3>3, <4>4, <4>6, <4>7
    <3> QED
      BY <3>2, <3>3
  <2>4. G[P] = q
    <3>1. P \in 1..P
      BY <1>3, <1>7
    <3>2. end(P) = N
      <4>1. N <= P * PageSize
        BY <1>1, <1>2
      <4> QED
        BY <1>1, <1>3, <4>1
    <3>3. G[P] = SubSeq(q, 1, end(P))
      BY <3>1
    <3> HIDE DEF G, P, end
    <3>4. G[P] = SubSeq(q, 1, Len(q))
      BY <3>2, <3>3
    <3> QED
      BY <3>4, SubSeqFull
  <2> DEFINE H == CHOOSE g : Flattens(seqs, g)
  <2> HIDE DEF G, seqs, P
  <2>5. Flattens(seqs, H)
    BY <2>3
  <2>6. FlattenSeq(seqs) = H[Len(seqs)]
    BY <1>5, <1>7, FlattenUnfolds
  <2> HIDE DEF H
  <2>7. H[Len(seqs)] = G[Len(seqs)]
    BY <1>3, <1>5, <1>7, <2>3, <2>5, OneFlattening
  <2> QED
    BY <1>5, <2>4, <2>6, <2>7 DEF seqs
<1> QED
  BY <1>6, <1>7

\* What is open has one of the statuses that have a bucket.
LEMMA PagesComplete == Stocked => PagesCover
<1> SUFFICES ASSUME Stocked PROVE PagesCover
  OBVIOUS
<1> DEFINE queue == Queue(AnyFilter)
           S == Queued(AnyFilter)
<1>1. /\ queue \in Seq(S)
      /\ \A i \in S : \E k \in 1..Len(queue) : queue[k] = i
      /\ \A j, k \in 1..Len(queue) :
           j < k => ~MoreUrgent(Collection[queue[k]], Collection[queue[j]])
  BY QueueSorted
<1>2. S = {i \in Position : Collection[i].doc.status \in QueueStatuses("any")}
  BY DEF Queued, AnyFilter, MatchesQueue
<1>3. UNION {Listed(s, "any") : s \in DOMAIN BucketOf}
        = {i \in Position : Collection[i].doc.status \in QueueStatuses("any")}
  <2>1. DOMAIN BucketOf = QueueStatuses("any") /\ "any" \notin DOMAIN BucketOf
    BY DEF BucketOf, QueueStatuses
  <2>2. \A s \in DOMAIN BucketOf : Listed(s, "any") = {i \in Position : Collection[i].doc.status = s}
    BY <2>1 DEF Listed
  <2> QED
    BY <2>1, <2>2
<1> HIDE DEF queue, S
<1>4. DOMAIN queue = 1..Len(queue) /\ \A k \in DOMAIN queue : queue[k] \in S
  BY <1>1
<1>5. {queue[k] : k \in DOMAIN queue} = S
  BY <1>1, <1>4
<1>6. FlattenSeq([p \in Pages(Len(queue)) |-> PageOf(queue, p)]) = queue
  BY <1>1, PagesJoin
<1> QED
  BY <1>1, <1>2, <1>3, <1>4, <1>5, <1>6 DEF PagesCover, queue

\* For any collection and any page size, list_queue's pages leave out no open
\* ticket, repeat none, and follow the sort key.
THEOREM PagesSound == ReportsSpec => []PagesCover
<1>1. ReportsInv => PagesCover
  BY StockKept, PagesComplete
<1> QED
  BY <1>1, CollectionFiled, PTL

-----------------------------------------------------------------------------
(* The calendar: months are numbered, and a day is in one of them.         *)

AnyMonth == [year : Int, month : 1..12]

\* The months from the first of the year 0 to m.
Number(m) == 12 * m.year + m.month - 1

\* A month is known by its number, and begins after so many months.
LEMMA MonthNumber ==
  /\ \A m \in AnyMonth : Number(m) \in Int /\ FirstDayOf(m) = Number(m) * MonthDays
                         /\ FirstDayOf(m) \in Int
  /\ \A m, n \in AnyMonth : Number(m) = Number(n) => m = n
  /\ \A m, n \in AnyMonth : NotAfter(m, n) <=> Number(m) <= Number(n)
<1>1. MonthDays \in Nat \ {0}
  BY ReportsAssumption
<1>2. \A m \in AnyMonth : m.year \in Int /\ m.month \in 1..12
  BY DEF AnyMonth
<1>3. \A m \in AnyMonth : Number(m) \in Int /\ FirstDayOf(m) = Number(m) * MonthDays
                         /\ FirstDayOf(m) \in Int
  BY <1>1, <1>2 DEF Number, FirstDayOf
<1>4. ASSUME NEW m \in AnyMonth, NEW n \in AnyMonth, Number(m) = Number(n) PROVE m = n
  <2>1. m.year = n.year /\ m.month = n.month
    BY <1>2, <1>4 DEF Number
  <2> QED
    BY <2>1 DEF AnyMonth
<1>5. ASSUME NEW m \in AnyMonth, NEW n \in AnyMonth
      PROVE  NotAfter(m, n) <=> Number(m) <= Number(n)
  <2>1. NotAfter(m, n) <=> Number(m) * MonthDays <= Number(n) * MonthDays
    BY <1>3 DEF NotAfter
  <2>2. \A a, b \in Int : a * MonthDays <= b * MonthDays <=> a <= b
    BY <1>1
  <2> QED
    BY <1>3, <2>1, <2>2
<1> QED
  BY <1>3, <1>4, <1>5

\* The next month has the next number, and shifting adds to the number.
LEMMA MonthSteps ==
  ASSUME NEW m \in AnyMonth
  PROVE  /\ NextMonth(m) \in AnyMonth /\ Number(NextMonth(m)) = Number(m) + 1
         /\ FirstDayOf(NextMonth(m)) = FirstDayOf(m) + MonthDays
         /\ MonthWindow(m) = <<FirstDayOf(m), FirstDayOf(m) + MonthDays>>
         /\ \A k \in Int : /\ ShiftMonths(m, k) \in AnyMonth
                           /\ Number(ShiftMonths(m, k)) = Number(m) + k
<1>1. m.year \in Int /\ m.month \in 1..12
  BY DEF AnyMonth
<1>2. NextMonth(m) \in AnyMonth /\ Number(NextMonth(m)) = Number(m) + 1
  BY <1>1 DEF NextMonth, Month, AnyMonth, Number
<1>3. FirstDayOf(NextMonth(m)) = FirstDayOf(m) + MonthDays
  <2>1. FirstDayOf(NextMonth(m)) = (Number(m) + 1) * MonthDays
    BY <1>2, MonthNumber
  <2>2. FirstDayOf(m) = Number(m) * MonthDays /\ Number(m) \in Int
    BY MonthNumber
  <2> QED
    BY <2>1, <2>2, ReportsAssumption
<1>4. MonthWindow(m) = <<FirstDayOf(m), FirstDayOf(m) + MonthDays>>
  BY <1>3 DEF MonthWindow, NextMonth
<1>5. ASSUME NEW k \in Int
      PROVE  ShiftMonths(m, k) \in AnyMonth /\ Number(ShiftMonths(m, k)) = Number(m) + k
  <2> DEFINE z == m.month - 1 + k
             y == z \div 12
             r == z % 12
  <2>1. z \in Int
    BY <1>1
  <2>2. ShiftMonths(m, k) = [year |-> m.year + y, month |-> r + 1]
    BY DEF ShiftMonths, Month
  <2>3. 12 * m.year + z = Number(m) + k
    BY <1>1 DEF Number
  <2> HIDE DEF z
  <2>4. z = y * 12 + r /\ r \in 0..11 /\ y \in Int
    BY <2>1
  <2> HIDE DEF y, r
  <2>5. m.year + y \in Int /\ r + 1 \in 1..12
    BY <1>1, <2>4
  <2>6. ShiftMonths(m, k) \in AnyMonth
    BY <2>2, <2>5 DEF AnyMonth
  <2>7. Number(ShiftMonths(m, k)) = 12 * (m.year + y) + (r + 1) - 1
    BY <2>2 DEF Number
  <2> QED
    BY <1>1, <2>1, <2>3, <2>4, <2>6, <2>7
<1> QED
  BY <1>2, <1>3, <1>4, <1>5

\* A day is in the month it begins in, and in no other.
LEMMA DayInMonth ==
  ASSUME NEW d \in Int
  PROVE  /\ MonthOf(d) \in AnyMonth
         /\ \A m \in AnyMonth :
              m = MonthOf(d) <=> (FirstDayOf(m) <= d /\ d < FirstDayOf(m) + MonthDays)
<1> DEFINE q == d \div MonthDays
<1>1. MonthDays \in Nat \ {0}
  BY ReportsAssumption
<1>2. q \in Int /\ q * MonthDays <= d /\ d < q * MonthDays + MonthDays
  BY <1>1
<1>3. MonthOf(d) = [year |-> q \div 12, month |-> (q % 12) + 1]
  BY DEF MonthOf, Month
<1>4. \A k \in Int : k * MonthDays <= d /\ d < k * MonthDays + MonthDays => k = q
  BY <1>1
<1> HIDE DEF q
<1>5. q = (q \div 12) * 12 + (q % 12) /\ q % 12 \in 0..11 /\ q \div 12 \in Int
  BY <1>2
<1>6. MonthOf(d) \in AnyMonth /\ Number(MonthOf(d)) = q
  BY <1>3, <1>5 DEF AnyMonth, Number
<1>7. ASSUME NEW m \in AnyMonth
      PROVE  m = MonthOf(d) <=> (FirstDayOf(m) <= d /\ d < FirstDayOf(m) + MonthDays)
  <2>1. Number(m) \in Int /\ FirstDayOf(m) = Number(m) * MonthDays
    BY MonthNumber
  <2>2. m = MonthOf(d) <=> Number(m) = q
    BY <1>6, MonthNumber
  <2> QED
    BY <1>2, <1>4, <2>1, <2>2
<1> QED
  BY <1>6, <1>7

-----------------------------------------------------------------------------
(* The closings of the agents.                                             *)

\* The number of closings in the rows of a month.
Total(m, l) == SumFunction([row \in ClosingRows(m, l) |-> row.count])

\* The rows share out the closings.
LEMMA RowsTotal ==
  ASSUME Stocked, NEW m, NEW l
  PROVE  Total(m, l) = Cardinality(ClosedIn(m, l))
<1> DEFINE S == ClosedIn(m, l)
           by(i) == Collection[i].doc.closedBy
           row(a) == [agent |-> a,
                      types |-> [ty \in Type |->
                        Count({i \in S : by(i) = a /\ Collection[i].card.type = ty})],
                      count |-> Count({i \in S : by(i) = a})]
           R == ClosingRows(m, l)
           g == [i \in S |-> row(by(i))]
           f == [r \in R |-> r.count]
<1>1. IsFiniteSet(S)
  BY FiniteStock DEF ClosedIn
<1>2. R = {row(a) : a \in {by(i) : i \in S}}
  BY DEF ClosingRows
<1>3. \A a : row(a).agent = a /\ row(a).count = Cardinality({i \in S : by(i) = a})
  BY DEF Count
<1> HIDE DEF S, R, row, by
<1>4. g \in [S -> R] /\ \A r \in R : \E i \in S : g[i] = r
  BY <1>2
<1>5. IsFiniteSet(R)
  <2> HIDE DEF g
  <2>1. g \in Surjection(S, R)
    BY <1>4 DEF Surjection
  <2> QED
    BY <1>1, <2>1, FS_Surjection
<1>6. ASSUME NEW r \in R PROVE f[r] = Cardinality(Fibre(S, g, r))
  <2>1. PICK a : r = row(a)
    BY <1>2
  <2>2. \A i \in S : g[i] = r <=> by(i) = a
    BY <1>3, <2>1
  <2>3. Fibre(S, g, r) = {i \in S : by(i) = a}
    BY <2>2 DEF Fibre
  <2> QED
    BY <1>3, <2>1, <2>3
<1>7. DOMAIN f = R
  OBVIOUS
<1> HIDE DEF f, g
<1>8. SumFunction(f) = Cardinality(S)
  BY <1>1, <1>4, <1>5, <1>6, <1>7, SumFibres
<1> QED
  BY <1>8 DEF Total, f, R, S

\* The counters of a row share out its closings.
LEMMA TypesShared ==
  ASSUME Stocked, NEW m, NEW l, NEW row \in ClosingRows(m, l)
  PROVE  row.count = SumFunction(row.types)
<1> DEFINE by(i) == Collection[i].doc.closedBy
           type(i) == Collection[i].card.type
<1>1. PICK a : row = [agent |-> a,
                      types |-> [ty \in Type |->
                        Count({i \in ClosedIn(m, l) : by(i) = a /\ type(i) = ty})],
                      count |-> Count({i \in ClosedIn(m, l) : by(i) = a})]
  BY DEF ClosingRows
<1> DEFINE S == {i \in ClosedIn(m, l) : by(i) = a}
           g == [i \in S |-> type(i)]
           f == row.types
<1>2. f = [ty \in Type |-> Count({i \in ClosedIn(m, l) : by(i) = a /\ type(i) = ty})]
      /\ row.count = Count(S)
  BY <1>1
<1>3. S \in SUBSET Position
  BY DEF ClosedIn
<1>4. \A i \in S : type(i) \in Type
  BY <1>3 DEF Stocked, Filed
<1>5. IsFiniteSet(S) /\ IsFiniteSet(Type)
  <2>1. IsFiniteSet({})
    BY FS_EmptySet
  <2>2. IsFiniteSet({} \union {"issue"})
    BY <2>1, FS_AddElement
  <2>3. IsFiniteSet({} \union {"issue"} \union {"access"})
    BY <2>2, FS_AddElement
  <2>4. IsFiniteSet({} \union {"issue"} \union {"access"} \union {"new_feature"})
    BY <2>3, FS_AddElement
  <2>5. Type = {} \union {"issue"} \union {"access"} \union {"new_feature"}
    BY DEF Type
  <2> QED
    BY <1>3, <2>4, <2>5, FiniteStock
<1>6. ASSUME NEW ty \in Type PROVE f[ty] = Cardinality(Fibre(S, g, ty))
  <2>1. Fibre(S, g, ty) = {i \in ClosedIn(m, l) : by(i) = a /\ type(i) = ty}
    BY DEF Fibre
  <2> QED
    BY <1>2, <2>1 DEF Count
<1>7. DOMAIN f = Type /\ g \in [S -> Type]
  BY <1>2, <1>4
<1> HIDE DEF S, g, f
<1>8. SumFunction(f) = Cardinality(S)
  BY <1>5, <1>6, <1>7, SumFibres
<1> QED
  BY <1>2, <1>8 DEF f, Count

\* The levels share out the closings of a month: whoever closed one had a
\* level.
LEMMA LevelsShared ==
  ASSUME Stocked, NEW m
  PROVE  Total(m, 0) = SumFunction([l \in Level |-> Total(m, l)])
<1> DEFINE S == ClosedIn(m, 0)
           g == [i \in S |-> Collection[i].card.closerLevel]
           f == [l \in Level |-> Total(m, l)]
<1>1. S \in SUBSET Position
  BY DEF ClosedIn
<1>2. IsFiniteSet(S)
  BY <1>1, FiniteStock
<1>3. \A i \in S : Collection[i].card.closerLevel \in Level
  <2>1. \A i \in S : Filed(Collection[i]) /\ Collection[i].doc.closedBy # NoAgent
    BY <1>1 DEF Stocked, ClosedIn
  <2> QED
    BY <2>1 DEF Filed
<1>4. ASSUME NEW l \in Level PROVE f[l] = Cardinality(Fibre(S, g, l))
  <2>1. l # 0
    BY ReportsAssumption
  <2>2. Fibre(S, g, l) = ClosedIn(m, l)
    BY <2>1 DEF Fibre, ClosedIn
  <2> QED
    BY <2>2, RowsTotal
<1>5. DOMAIN f = Level /\ g \in [S -> Level] /\ IsFiniteSet(Level)
  BY <1>3, ReportsAssumption
<1> HIDE DEF S, g, f
<1>6. SumFunction(f) = Cardinality(S)
  BY <1>2, <1>4, <1>5, SumFibres
<1> QED
  BY <1>6, RowsTotal DEF f, S

\* The months share out the closings that have an agent.
LEMMA MonthsShared ==
  ASSUME Stocked
  PROVE  LET months == {MonthOf(d) : d \in 0..LastDay} IN
         Count({i \in Position : Collection[i].doc.closedBy # NoAgent})
           = SumFunction([m \in months |-> Total(m, 0)])
<1> DEFINE months == {MonthOf(d) : d \in 0..LastDay}
           S == {i \in Position : Collection[i].doc.closedBy # NoAgent}
           at(i) == Collection[i].card.closedAt
           g == [i \in S |-> MonthOf(at(i))]
           f == [m \in months |-> Total(m, 0)]
<1>1. IsFiniteSet(S)
  BY FiniteStock
<1>2. IsFiniteSet(months)
  <2> DEFINE D == 0..LastDay
             h == [d \in D |-> MonthOf(d)]
  <2>1. LastDay \in Int
    BY ReportsAssumption
  <2>2. IsFiniteSet(D)
    BY <2>1, FS_Interval
  <2>3. DOMAIN h = D /\ months = {h[d] : d \in D}
    OBVIOUS
  <2> HIDE DEF D, h
  <2>4. IsFiniteSet({h[d] : d \in D})
    BY <2>2, <2>3, FiniteImage
  <2> QED
    BY <2>3, <2>4
<1>3. \A i \in S : at(i) \in 0..LastDay /\ Collection[i].doc.status = "finished"
  <2>1. \A i \in S : Filed(Collection[i]) /\ Collection[i].doc.closedBy # NoAgent
    BY DEF Stocked
  <2> QED
    BY <2>1 DEF Filed
<1>4. ASSUME NEW m \in months PROVE f[m] = Cardinality(Fibre(S, g, m))
  <2>1. m \in AnyMonth
    BY DayInMonth
  <2>2. MonthWindow(m)[1] = FirstDayOf(m) /\ MonthWindow(m)[2] = FirstDayOf(m) + MonthDays
    BY <2>1, MonthSteps
  <2>3. ASSUME NEW i \in S
        PROVE  MonthOf(at(i)) = m
                 <=> (at(i) >= MonthWindow(m)[1] /\ at(i) < MonthWindow(m)[2])
    <3>1. at(i) \in Int
      BY <1>3
    <3>2. FirstDayOf(m) \in Int
      BY <2>1, MonthNumber
    <3> HIDE DEF at, S, months
    <3>3. m = MonthOf(at(i))
            <=> (FirstDayOf(m) <= at(i) /\ at(i) < FirstDayOf(m) + MonthDays)
      BY <2>1, <3>1, DayInMonth
    <3> QED
      BY <2>2, <3>1, <3>2, <3>3
  <2>4. ClosedIn(m, 0) = {i \in S : at(i) >= MonthWindow(m)[1] /\ at(i) < MonthWindow(m)[2]}
    BY <1>3 DEF ClosedIn
  <2>5. Fibre(S, g, m) = {i \in S : MonthOf(at(i)) = m}
    BY DEF Fibre
  <2>6. Fibre(S, g, m) = ClosedIn(m, 0)
    <3> HIDE DEF S, at, g
    <3> QED
      BY <2>3, <2>4, <2>5
  <2> QED
    BY <2>6, RowsTotal
<1>5. DOMAIN f = months /\ g \in [S -> months]
  BY <1>3
<1> HIDE DEF S, g, f, months
<1>6. SumFunction(f) = Cardinality(S)
  BY <1>1, <1>2, <1>4, <1>5, SumFibres
<1> QED
  BY <1>6 DEF f, S, months, Count

\* The agents, the types, the levels and the months each share them out.
LEMMA ClosingsCounted == Stocked => ClosingsShared
<1> SUFFICES ASSUME Stocked PROVE ClosingsShared
  OBVIOUS
<1>1. \A m : \A row \in ClosingRows(m, 0) : row.count = SumFunction(row.types)
  BY TypesShared
<1>2. \A m : Total(m, 0) = SumFunction([l \in Level |-> Total(m, l)])
  BY LevelsShared
<1> QED
  BY <1>1, <1>2, MonthsShared DEF ClosingsShared, Total

-----------------------------------------------------------------------------
(* The months of the issues chart.                                         *)

\* What _month_keys_between unfolds.
Unrolls(f, last) ==
  f = [m \in AnyMonth |-> IF NotAfter(m, last) THEN <<m>> \o f[NextMonth(m)] ELSE <<>>]

\* MonthKeys is one of its solutions.
LEMMA KeysUnroll ==
  ASSUME NEW first, NEW last
  PROVE  MonthKeys(first, last) = (CHOOSE f : Unrolls(f, last))[first]
  BY DEF MonthKeys, Unrolls, AnyMonth

\* The months from m to last.
Span(m, last) == IF NotAfter(m, last) THEN Number(last) - Number(m) + 1 ELSE 0

Run(m, last) == [k \in 1..Span(m, last) |-> ShiftMonths(m, k - 1)]

\* How long a run is, and the numbers of its months.
LEMMA RunMonths ==
  ASSUME NEW m \in AnyMonth, NEW last \in AnyMonth
  PROVE  /\ Span(m, last) \in Nat /\ (NotAfter(m, last) <=> Span(m, last) # 0)
         /\ Run(m, last) \in Seq(AnyMonth) /\ Len(Run(m, last)) = Span(m, last)
         /\ DOMAIN Run(m, last) = 1..Span(m, last)
         /\ \A k \in 1..Span(m, last) : Number(Run(m, last)[k]) = Number(m) + k - 1
<1>1. Number(m) \in Int /\ Number(last) \in Int
      /\ (NotAfter(m, last) <=> Number(m) <= Number(last))
  BY MonthNumber
<1>2. Span(m, last) \in Nat /\ (NotAfter(m, last) <=> Span(m, last) # 0)
  BY <1>1 DEF Span
<1>3. ASSUME NEW k \in 1..Span(m, last)
      PROVE  /\ ShiftMonths(m, k - 1) \in AnyMonth
             /\ Number(ShiftMonths(m, k - 1)) = Number(m) + k - 1
  <2>1. k - 1 \in Int
    BY <1>2
  <2> QED
    BY <1>1, <2>1, MonthSteps
<1>4. Run(m, last) \in Seq(AnyMonth) /\ Len(Run(m, last)) = Span(m, last)
      /\ DOMAIN Run(m, last) = 1..Span(m, last)
  BY <1>2, <1>3 DEF Run
<1> QED
  BY <1>2, <1>3, <1>4 DEF Run

\* The months of a run follow the first.
LEMMA RunUnrolls ==
  ASSUME NEW last \in AnyMonth
  PROVE  Unrolls([m \in AnyMonth |-> Run(m, last)], last)
<1> SUFFICES ASSUME NEW m \in AnyMonth
             PROVE  Run(m, last) = IF NotAfter(m, last) THEN <<m>> \o Run(NextMonth(m), last)
                                   ELSE <<>>
  BY MonthSteps DEF Unrolls
<1>1. CASE ~NotAfter(m, last)
  <2>1. Run(m, last) \in Seq(AnyMonth) /\ Len(Run(m, last)) = 0
    BY <1>1, RunMonths
  <2>2. Run(m, last) = <<>>
    BY <2>1
  <2> QED
    BY <1>1, <2>2
<1>2. CASE NotAfter(m, last)
  <2> DEFINE n == NextMonth(m)
             r == Run(m, last)
             t == Run(n, last)
             s == Span(m, last)
  <2>1. n \in AnyMonth /\ Number(n) = Number(m) + 1 /\ Number(m) \in Int /\ Number(last) \in Int
    BY MonthSteps, MonthNumber
  <2> HIDE DEF n
  <2>2. /\ s \in Nat /\ s # 0 /\ r \in Seq(AnyMonth) /\ Len(r) = s
        /\ \A k \in 1..s : Number(r[k]) = Number(m) + k - 1
    BY <1>2, RunMonths
  <2>3. /\ t \in Seq(AnyMonth) /\ Len(t) = Span(n, last)
        /\ \A k \in 1..Span(n, last) : Number(t[k]) = Number(n) + k - 1
    BY <2>1, RunMonths
  <2>4. Span(n, last) = s - 1
    <3>1. (NotAfter(m, last) <=> Number(m) <= Number(last))
          /\ (NotAfter(n, last) <=> Number(n) <= Number(last))
      BY <2>1, MonthNumber
    <3> QED
      BY <1>2, <2>1, <3>1 DEF Span
  <2> HIDE DEF r, t, s
  <2>5. <<m>> \o t \in Seq(AnyMonth) /\ Len(<<m>> \o t) = s
    BY <2>2, <2>3, <2>4
  <2>6. ASSUME NEW k \in 1..s PROVE r[k] = (<<m>> \o t)[k]
    <3>1. r[k] \in AnyMonth /\ (<<m>> \o t)[k] \in AnyMonth
      BY <2>2, <2>5
    <3>2. Number((<<m>> \o t)[k]) = Number(m) + k - 1
      <4>1. CASE k = 1
        <5>1. (<<m>> \o t)[k] = m
          BY <2>3, <4>1
        <5> QED
          BY <2>1, <4>1, <5>1
      <4>2. CASE k # 1
        <5>1. k - 1 \in 1..(s - 1)
          BY <2>2, <4>2
        <5>2. (<<m>> \o t)[k] = t[k - 1]
          BY <2>2, <2>3, <2>4, <4>2
        <5>3. Number(t[k - 1]) = Number(n) + (k - 1) - 1
          BY <2>3, <2>4, <5>1
        <5>4. k \in Int /\ Number(n) + (k - 1) - 1 = Number(m) + k - 1
          BY <2>1, <2>2
        <5> QED
          BY <5>2, <5>3, <5>4
      <4> QED
        BY <4>1, <4>2
    <3>3. Number(r[k]) = Number((<<m>> \o t)[k])
      BY <2>2, <3>2
    <3> QED
      BY <3>1, <3>3, MonthNumber
  <2>7. r = <<m>> \o t
    BY <2>2, <2>5, <2>6, SeqEqual
  <2> QED
    BY <1>2, <2>7 DEF r, t, n
<1> QED
  BY <1>1, <1>2

\* There is one solution: the run of the next month is shorter.
LEMMA OneUnrolling ==
  ASSUME NEW last \in AnyMonth, NEW f, NEW g, Unrolls(f, last), Unrolls(g, last),
         NEW first \in AnyMonth
  PROVE  f[first] = g[first]
<1> DEFINE Differ == {m \in AnyMonth : f[m] # g[m]}
           Spans == {Span(m, last) : m \in Differ}
<1>1. SUFFICES ASSUME Differ # {} PROVE FALSE
  OBVIOUS
<1>2. Spans \subseteq Nat /\ Spans # {}
  BY <1>1, RunMonths
<1>3. PICK s \in Spans : \A z \in Spans : ~ (<<z, s>> \in OpToRel(<, Nat))
  <2> HIDE DEF Spans
  <2> QED
    BY <1>2, NatLessThanWellFounded, WFMin
<1>4. PICK m \in Differ : s = Span(m, last)
  OBVIOUS
<1>5. \A z \in Spans : ~ (z < s)
  BY <1>2, <1>3 DEF OpToRel
<1>6. /\ f[m] = IF NotAfter(m, last) THEN <<m>> \o f[NextMonth(m)] ELSE <<>>
      /\ g[m] = IF NotAfter(m, last) THEN <<m>> \o g[NextMonth(m)] ELSE <<>>
  BY DEF Unrolls
<1>7. NotAfter(m, last) /\ NextMonth(m) \in Differ
  <2>1. NextMonth(m) \in AnyMonth
    BY MonthSteps
  <2> QED
    BY <1>6, <2>1
<1>8. Span(NextMonth(m), last) < s
  <2>1. Number(NextMonth(m)) = Number(m) + 1 /\ Number(m) \in Int /\ Number(last) \in Int
        /\ NextMonth(m) \in AnyMonth
    BY MonthSteps, MonthNumber
  <2>2. /\ NotAfter(m, last) <=> Number(m) <= Number(last)
        /\ NotAfter(NextMonth(m), last) <=> Number(NextMonth(m)) <= Number(last)
    BY <2>1, MonthNumber
  <2> QED
    BY <1>4, <1>7, <2>1, <2>2 DEF Span
<1> QED
  BY <1>5, <1>7, <1>8

\* The months of a chart are a run.
LEMMA KeysRun ==
  ASSUME NEW first \in AnyMonth, NEW last \in AnyMonth
  PROVE  MonthKeys(first, last) = Run(first, last)
<1> DEFINE G == [m \in AnyMonth |-> Run(m, last)]
           F == CHOOSE f : Unrolls(f, last)
<1>1. Unrolls(G, last)
  BY RunUnrolls
<1>2. G[first] = Run(first, last)
  OBVIOUS
<1> HIDE DEF G
<1>3. Unrolls(F, last)
  BY <1>1
<1>4. MonthKeys(first, last) = F[first]
  BY KeysUnroll
<1> HIDE DEF F
<1>5. F[first] = G[first]
  BY <1>1, <1>3, OneUnrolling
<1> QED
  BY <1>2, <1>4, <1>5

\* The months of a chart, of any request for one.
LEMMA ChartRun ==
  ASSUME today \in Int, NEW p \in Period
  PROVE  /\ ChartStart(p) \in AnyMonth /\ ChartEnd(p) \in AnyMonth
         /\ ChartMonths(p) = Run(ChartStart(p), ChartEnd(p))
         /\ p[1] = NoDate => Number(ChartStart(p)) = Number(ChartEnd(p)) - 5
<1>1. p[1] \in Int /\ p[2] \in Int
  BY ReportsAssumption DEF NoDate
<1>2. ChartEnd(p) \in AnyMonth /\ Number(ChartEnd(p)) \in Int
  BY <1>1, DayInMonth, MonthNumber DEF ChartEnd
<1>3. CASE p[1] = NoDate
  <2>1. ChartStart(p) = ShiftMonths(ChartEnd(p), -5)
    BY <1>3 DEF ChartStart, ChartEnd, DefaultMonths
  <2>2. -5 \in Int
    OBVIOUS
  <2>3. ChartStart(p) \in AnyMonth /\ Number(ChartStart(p)) = Number(ChartEnd(p)) + (-5)
    BY <1>2, <2>1, <2>2, MonthSteps
  <2> QED
    BY <1>2, <2>3, KeysRun DEF ChartMonths
<1>4. CASE p[1] # NoDate
  <2>1. ChartStart(p) \in AnyMonth
    BY <1>1, <1>4, DayInMonth DEF ChartStart
  <2> QED
    BY <1>2, <1>4, <2>1, KeysRun DEF ChartMonths
<1> QED
  BY <1>3, <1>4

\* A day from the first of the months of a run to the end of the last is in
\* one of them, and no other day is.
LEMMA RunCovers ==
  ASSUME NEW m \in AnyMonth, NEW last \in AnyMonth, NEW d \in Int
  PROVE  /\ (FirstDayOf(m) <= d /\ d < FirstDayOf(NextMonth(last)))
              <=> \E k \in DOMAIN Run(m, last) : MonthOf(d) = Run(m, last)[k]
         /\ \A j, k \in DOMAIN Run(m, last) : Run(m, last)[j] = Run(m, last)[k] => j = k
<1> DEFINE r == Run(m, last)
           s == Span(m, last)
           c == MonthOf(d)
<1>1. /\ s \in Nat /\ (NotAfter(m, last) <=> s # 0)
      /\ r \in Seq(AnyMonth) /\ DOMAIN r = 1..s
      /\ \A k \in 1..s : Number(r[k]) = Number(m) + k - 1
  BY RunMonths
<1>2. Number(m) \in Int /\ Number(last) \in Int /\ (NotAfter(m, last) <=> Number(m) <= Number(last))
  BY MonthNumber
<1>3. s = IF Number(m) <= Number(last) THEN Number(last) - Number(m) + 1 ELSE 0
  BY <1>2 DEF Span
<1>4. c \in AnyMonth /\ FirstDayOf(c) <= d /\ d < FirstDayOf(c) + MonthDays
  BY DayInMonth
<1> HIDE DEF r, s, c
<1>5. MonthDays \in Nat \ {0} /\ Number(c) \in Int /\ FirstDayOf(c) = Number(c) * MonthDays
  BY <1>4, MonthNumber, ReportsAssumption
<1>6. FirstDayOf(m) <= d <=> Number(m) <= Number(c)
  <2>1. FirstDayOf(m) = Number(m) * MonthDays
    BY MonthNumber
  <2> DEFINE a == Number(m)
             b == Number(c)
  <2>2. a \in Int /\ b \in Int /\ b * MonthDays <= d /\ d < b * MonthDays + MonthDays
    BY <1>2, <1>4, <1>5
  <2> HIDE DEF a, b
  <2>3. a * MonthDays <= d <=> a <= b
    BY <1>5, <2>2
  <2> QED
    BY <2>1, <2>3 DEF a, b
<1>7. d < FirstDayOf(NextMonth(last)) <=> Number(c) <= Number(last)
  <2>1. FirstDayOf(NextMonth(last)) = Number(last) * MonthDays + MonthDays
    BY MonthSteps, MonthNumber
  <2> DEFINE a == Number(last)
             b == Number(c)
  <2>2. a \in Int /\ b \in Int /\ b * MonthDays <= d /\ d < b * MonthDays + MonthDays
    BY <1>2, <1>4, <1>5
  <2> HIDE DEF a, b
  <2>3. d < a * MonthDays + MonthDays <=> b <= a
    BY <1>5, <2>2
  <2> QED
    BY <2>1, <2>3 DEF a, b
<1>8. ASSUME NEW k \in 1..s PROVE c = r[k] <=> Number(c) = Number(m) + k - 1
  <2>1. r[k] \in AnyMonth /\ Number(r[k]) = Number(m) + k - 1
    BY <1>1
  <2> QED
    BY <1>4, <2>1, MonthNumber
<1>9. (Number(m) <= Number(c) /\ Number(c) <= Number(last)) <=> \E k \in 1..s : c = r[k]
  <2>1. ASSUME Number(m) <= Number(c), Number(c) <= Number(last)
        PROVE  \E k \in 1..s : c = r[k]
    <3>1. Number(c) - Number(m) + 1 \in 1..s
          /\ Number(c) = Number(m) + (Number(c) - Number(m) + 1) - 1
      BY <1>2, <1>3, <1>5, <2>1
    <3> QED
      BY <1>8, <3>1
  <2>2. ASSUME NEW k \in 1..s, c = r[k]
        PROVE  Number(m) <= Number(c) /\ Number(c) <= Number(last)
    <3>1. Number(c) = Number(m) + k - 1
      BY <1>8, <2>2
    <3> QED
      BY <1>1, <1>2, <1>3, <3>1
  <2> QED
    BY <2>1, <2>2
<1>10. ASSUME NEW j \in 1..s, NEW k \in 1..s, r[j] = r[k] PROVE j = k
  <2>1. Number(m) + j - 1 = Number(m) + k - 1
    BY <1>1, <1>10
  <2> QED
    BY <1>1, <1>2, <2>1
<1> QED
  BY <1>1, <1>6, <1>7, <1>9, <1>10 DEF r, c

\* The first, the last and the steps of the months of a run.
LEMMA RunShape ==
  ASSUME NEW m \in AnyMonth, NEW last \in AnyMonth, NotAfter(m, last)
  PROVE  LET r == Run(m, last) IN
         /\ r # <<>> /\ Len(r) = Number(last) - Number(m) + 1
         /\ r[Len(r)] = last
         /\ \A k \in 1..(Len(r) - 1) : FirstDayOf(r[k + 1]) = FirstDayOf(r[k]) + MonthDays
<1> DEFINE r == Run(m, last)
           s == Span(m, last)
<1>1. /\ s \in Nat \ {0} /\ r \in Seq(AnyMonth) /\ Len(r) = s /\ DOMAIN r = 1..s
      /\ \A k \in 1..s : Number(r[k]) = Number(m) + k - 1
  BY RunMonths
<1>2. Number(m) \in Int /\ Number(last) \in Int
  BY MonthNumber
<1>3. s = Number(last) - Number(m) + 1
  BY DEF Span
<1> HIDE DEF r, s
<1>4. \A k \in 1..s : r[k] \in AnyMonth
  BY <1>1
<1>5. r[s] = last
  <2>1. Number(r[s]) = Number(last) /\ r[s] \in AnyMonth
    BY <1>1, <1>2, <1>3, <1>4
  <2> QED
    BY <2>1, MonthNumber
<1>6. ASSUME NEW k \in 1..(s - 1) PROVE FirstDayOf(r[k + 1]) = FirstDayOf(r[k]) + MonthDays
  <2>1. k \in 1..s /\ k + 1 \in 1..s /\ k \in Int
    BY <1>1
  <2>2. Number(r[k + 1]) = Number(r[k]) + 1 /\ Number(r[k]) \in Int
    BY <1>1, <1>2, <2>1
  <2>3. FirstDayOf(r[k + 1]) = (Number(r[k]) + 1) * MonthDays
        /\ FirstDayOf(r[k]) = Number(r[k]) * MonthDays
    BY <1>4, <2>1, <2>2, MonthNumber
  <2> DEFINE a == Number(r[k])
  <2>4. a \in Int
    BY <2>2
  <2> HIDE DEF a
  <2>5. (a + 1) * MonthDays = a * MonthDays + MonthDays
    BY <2>4, ReportsAssumption
  <2> QED
    BY <2>3, <2>5 DEF a
<1>7. r # <<>>
  BY <1>1
<1> QED
  BY <1>1, <1>3, <1>5, <1>6, <1>7 DEF r

\* The points of a chart share out the issues it is about.
LEMMA PointsShared ==
  ASSUME Stocked, today \in Int, NEW p \in Period, NEW company
  PROVE  LET series == ProductSeries(p, company)
             total == [product \in DOMAIN series |-> SumFunction(series[product])]
         IN SumFunction(total) = Cardinality(IssuesIn(p, company))
<1> DEFINE S == IssuesIn(p, company)
           months == ChartMonths(p)
           prod(i) == Collection[i].doc.detail.product
           day(i) == Collection[i].card.created
           products == {prod(i) : i \in S}
           series == ProductSeries(p, company)
           total == [product \in DOMAIN series |-> SumFunction(series[product])]
<1>1. S \in SUBSET Position /\ IsFiniteSet(S)
  BY FiniteStock DEF IssuesIn
<1>2. series = [product \in products |-> [k \in DOMAIN months |->
                  Count({i \in S : prod(i) = product /\ MonthOf(day(i)) = months[k]})]]
  BY DEF ProductSeries
<1>3. /\ \A i \in S : \E k \in DOMAIN months : MonthOf(day(i)) = months[k]
      /\ \A j, k \in DOMAIN months : months[j] = months[k] => j = k
      /\ IsFiniteSet(DOMAIN months)
  <2>1. /\ ChartStart(p) \in AnyMonth /\ ChartEnd(p) \in AnyMonth
        /\ months = Run(ChartStart(p), ChartEnd(p))
    BY ChartRun
  <2>2. ASSUME NEW i \in S PROVE \E k \in DOMAIN months : MonthOf(day(i)) = months[k]
    <3>1. day(i) \in Int
      BY <1>1 DEF Stocked, Filed
    <3>2. FirstDayOf(ChartStart(p)) <= day(i) /\ day(i) < FirstDayOf(NextMonth(ChartEnd(p)))
      <4>1. day(i) >= FirstDayOf(ChartStart(p)) /\ day(i) < FirstDayOf(NextMonth(ChartEnd(p)))
        BY DEF IssuesIn
      <4>2. FirstDayOf(ChartStart(p)) \in Int
        BY <2>1, MonthNumber
      <4> HIDE DEF day
      <4> QED
        BY <3>1, <4>1, <4>2
    <3> HIDE DEF day, months, S
    <3> QED
      BY <2>1, <3>1, <3>2, RunCovers
  <2>3. \A j, k \in DOMAIN months : months[j] = months[k] => j = k
    <3>1. today \in Int
      OBVIOUS
    <3> HIDE DEF months
    <3> QED
      BY <2>1, <3>1, RunCovers
  <2>4. Span(ChartStart(p), ChartEnd(p)) \in Int /\ DOMAIN months = 1..Span(ChartStart(p), ChartEnd(p))
    <3> HIDE DEF months
    <3> QED
      BY <2>1, RunMonths
  <2>5. IsFiniteSet(DOMAIN months)
    BY <2>4, FS_Interval
  <2> QED
    BY <2>2, <2>3, <2>5
<1> HIDE DEF S, months, series, day, prod
<1>4. ASSUME NEW product \in products
      PROVE  SumFunction(series[product]) = Cardinality({i \in S : prod(i) = product})
  <2> DEFINE A == {i \in S : prod(i) = product}
             D == DOMAIN months
             f == series[product]
             g == [i \in A |-> CHOOSE k \in D : MonthOf(day(i)) = months[k]]
  <2>1. IsFiniteSet(A)
    BY <1>1, FS_Subset
  <2>2. \A i \in A : g[i] \in D /\ MonthOf(day(i)) = months[g[i]]
    BY <1>3
  <2>3. DOMAIN f = D /\ \A k \in D :
          f[k] = Count({i \in S : prod(i) = product /\ MonthOf(day(i)) = months[k]})
    BY <1>2
  <2>4. ASSUME NEW k \in D PROVE f[k] = Cardinality(Fibre(A, g, k))
    <3>1. \A i \in A : g[i] = k <=> MonthOf(day(i)) = months[k]
      <4> HIDE DEF g
      <4> QED
        BY <1>3, <2>2
    <3>2. Fibre(A, g, k) = {i \in S : prod(i) = product /\ MonthOf(day(i)) = months[k]}
      <4> HIDE DEF g
      <4> QED
        BY <3>1 DEF Fibre
    <3> QED
      BY <2>3, <3>2 DEF Count
  <2>5. g \in [A -> D]
    BY <2>2
  <2> HIDE DEF A, D, f, g
  <2>6. SumFunction(f) = Cardinality(A)
    <3>1. IsFiniteSet(D)
      BY <1>3 DEF D
    <3> QED
      BY <2>1, <2>3, <2>4, <2>5, <3>1, SumFibres
  <2> QED
    BY <2>6 DEF f, A
<1>5. DOMAIN series = products
  BY <1>2
<1>6. DOMAIN total = products
      /\ \A product \in products : total[product] = Cardinality({i \in S : prod(i) = product})
  BY <1>4, <1>5
<1> DEFINE h == [i \in S |-> prod(i)]
<1>7. IsFiniteSet(products)
  <2>1. DOMAIN h = S /\ products = {h[i] : i \in S}
    OBVIOUS
  <2> HIDE DEF h, products
  <2> QED
    BY <1>1, <2>1, FiniteImage
<1>8. ASSUME NEW product \in products PROVE total[product] = Cardinality(Fibre(S, h, product))
  <2>1. Fibre(S, h, product) = {i \in S : prod(i) = product}
    BY DEF Fibre
  <2> QED
    BY <1>6, <2>1
<1>9. h \in [S -> products]
  OBVIOUS
<1> HIDE DEF h, products, total
<1>10. SumFunction(total) = Cardinality(S)
  BY <1>1, <1>6, <1>7, <1>8, <1>9, SumFibres
<1> QED
  BY <1>10 DEF total, series, S

\* A chart that is allowed is a run that is not empty.
LEMMA IssuesCounted == Stocked /\ today \in Int => IssuesCharted
<1> SUFFICES ASSUME Stocked, today \in Int, NEW p \in Period, NEW company \in Company \union {NoItem},
                    ChartAllowed(p)
    PROVE LET months == ChartMonths(p)
          series == ProductSeries(p, company)
          total == [product \in DOMAIN series |-> SumFunction(series[product])]
      IN /\ months # <<>> /\ Len(months) <= MaxMonths
         /\ p[1] = NoDate => Len(months) = DefaultMonths
         /\ months[Len(months)] = ChartEnd(p)
         /\ \A k \in 1..(Len(months) - 1) :
              FirstDayOf(months[k + 1]) = FirstDayOf(months[k]) + MonthDays
         /\ SumFunction(total)
              = Count({i \in Position :
                  /\ Collection[i].card.type = "issue" /\ Collection[i].card.dated
                  /\ company \in {NoItem, Collection[i].card.company}
                  /\ \E k \in DOMAIN months :
                       MonthOf(Collection[i].card.created) = months[k]})
  BY DEF IssuesCharted
<1> DEFINE months == ChartMonths(p)
           b == ChartStart(p)
           e == ChartEnd(p)
           day(i) == Collection[i].card.created
           M == {i \in Position :
                  /\ Collection[i].card.type = "issue" /\ Collection[i].card.dated
                  /\ company \in {NoItem, Collection[i].card.company}
                  /\ \E k \in DOMAIN months : MonthOf(day(i)) = months[k]}
<1>1. b \in AnyMonth /\ e \in AnyMonth /\ months = Run(b, e)
      /\ (p[1] = NoDate => Number(b) = Number(e) - 5)
  BY ChartRun
<1>2. NotAfter(b, e) /\ Len(months) <= MaxMonths
  BY DEF ChartAllowed
<1> HIDE DEF months, b, e
<1>3. /\ months # <<>> /\ Len(months) = Number(e) - Number(b) + 1
      /\ months[Len(months)] = e
      /\ \A k \in 1..(Len(months) - 1) :
           FirstDayOf(months[k + 1]) = FirstDayOf(months[k]) + MonthDays
  BY <1>1, <1>2, RunShape
<1>4. p[1] = NoDate => Len(months) = DefaultMonths
  <2>1. Number(e) \in Int
    BY <1>1, MonthNumber
  <2> QED
    BY <1>1, <1>3, <2>1 DEF DefaultMonths
<1>5. IssuesIn(p, company) = M
  <2>1. ASSUME NEW i \in Position
        PROVE  (day(i) >= FirstDayOf(b) /\ day(i) < FirstDayOf(NextMonth(e)))
                 <=> \E k \in DOMAIN months : MonthOf(day(i)) = months[k]
    <3>1. day(i) \in Int
      BY DEF Stocked, Filed
    <3>2. FirstDayOf(b) \in Int
      BY <1>1, MonthNumber
    <3> HIDE DEF day
    <3>3. (FirstDayOf(b) <= day(i) /\ day(i) < FirstDayOf(NextMonth(e)))
            <=> \E k \in DOMAIN Run(b, e) : MonthOf(day(i)) = Run(b, e)[k]
      BY <1>1, <3>1, RunCovers
    <3>4. day(i) >= FirstDayOf(b) <=> FirstDayOf(b) <= day(i)
      BY <3>1, <3>2
    <3> QED
      BY <1>1, <3>3, <3>4
  <2>2. IssuesIn(p, company)
          = {i \in Position :
              /\ Collection[i].card.type = "issue" /\ Collection[i].card.dated
              /\ company \in {NoItem, Collection[i].card.company}
              /\ day(i) >= FirstDayOf(b) /\ day(i) < FirstDayOf(NextMonth(e))}
    BY DEF IssuesIn, b, e
  <2> HIDE DEF day
  <2> QED
    BY <2>1, <2>2
<1> HIDE DEF M
<1>6. LET series == ProductSeries(p, company)
          total == [product \in DOMAIN series |-> SumFunction(series[product])]
      IN SumFunction(total) = Count(M)
  BY <1>5, PointsShared DEF Count
<1> QED
  BY <1>2, <1>3, <1>4, <1>6 DEF months, e, M

\* For any collection, any length of a month and any periods, no ticket is
\* lost at the end of a month or of a year by _month_window_utc,
\* _month_keys_between and _shift_months: the two charts share out what they
\* are about.
THEOREM ChartsSound == ReportsSpec => []ChartsAddUp
<1>1. ReportsInv => Stocked /\ today \in Int
  BY StockKept, ReportsAssumption DEF ReportsInv
<1>2. ReportsInv => ChartsAddUp
  BY <1>1, ClosingsCounted, IssuesCounted DEF ChartsAddUp
<1> QED
  BY <1>2, CollectionFiled, PTL
=============================================================================
