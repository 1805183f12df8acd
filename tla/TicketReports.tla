---------------------------- MODULE TicketReports ----------------------------
(***************************************************************************)
(* What is read from the whole collection of tickets: the list, the queue, *)
(* the dashboard and its two charts.  One ticket of the collection is the  *)
(* one TicketDesk works on; the others stay as they are.                   *)
(*                                                                         *)
(* Some of these are computed by MongoDB from the stored documents, others *)
(* by TicketService from the documents it loaded, and each has its own     *)
(* idea of "open", of "assigned" and of a month.                           *)
(***************************************************************************)
EXTENDS TicketDesk, SequencesExt

CONSTANTS
  Company,    \* companies of the clients
  Arrivals,   \* <<type, company>> of the tickets the desk may get
  Archives,   \* the other tickets, in the order of their insertion: one of these
  FirstDay,   \* the day the ticket of the desk may be created at the earliest
  LastDay,    \* bound: the clock, in days
  MonthDays,  \* days of a month
  TopLimit,   \* _TOP_ASSIGNEES_LIMIT (10 in the code)
  PageSize,   \* page_size of the requests for pages
  Period      \* <<date_from, date_to>> of the requests for the issues chart

Type == {"issue", "access", "new_feature"}

NoDate == -1

\* Requests on the desk's ticket run one after the other here.  Level 0 stands
\* for no filter.
ASSUME ReportsAssumption ==
  /\ \A r, o \in Request : r = o
  /\ {FirstDay, LastDay} \subseteq Nat /\ FirstDay <= LastDay
  /\ Arrivals \subseteq Type \X Company
  /\ {MonthDays, TopLimit, PageSize} \subseteq Nat \ {0}
  /\ Period \subseteq (Nat \union {NoDate}) \X (Nat \union {NoDate})
  /\ IsFiniteSet(Level) /\ 0 \notin Level

VARIABLES
  card,       \* of the desk's ticket: type, company, day of creation, closing
  archive,    \* the other tickets
  today       \* the clock

reportVars == <<vars, card, archive, today>>

Never == -1

\* dated: creation_date is stored as a date.
NewCard(ty, co) ==
  [type |-> ty, company |-> co, created |-> today, dated |-> TRUE, closedAt |-> Never,
   closerLevel |-> 0]

\* A stored ticket: what the desk keeps of it, and the rest of the document.
Stored(t, c) == [doc |-> t, card |-> c]

\* What the seed puts into a new collection: _build_tickets, n days before and
\* on the day NOW.  The dates are strings, every assignment has an exit date,
\* and none has a level, which is then N1.
ExampleTickets(n1, n2, techsol, dataflow, NOW) ==
  LET example(ty, co, criticality, product, status, agents, n) ==
        Stored([NewTicket(1, [criticality |-> criticality, product |-> product]) EXCEPT
                  !.status = status,
                  !.history = [i \in DOMAIN agents |->
                    [agent |-> agents[i], level |-> i, active |-> FALSE]]],
               [type |-> ty, company |-> co, created |-> NOW - n, dated |-> FALSE,
                closedAt |-> Never, closerLevel |-> 0])
  IN << example("issue", techsol, "high", "Product A", "in_progress", <<n1>>, 3),
        example("new_feature", techsol, "low", "Product B", "open", <<>>, 2),
        example("access", dataflow, "medium", "N/A", "waiting_for_provider", <<n1>>, 1),
        example("issue", dataflow, "high", "Product C", "in_progress", <<n1, n2>>, 0),
        example("issue", techsol, "high", "Product A", "open", <<>>, 0) >>

Collection ==
  IF ticket.status = "absent" THEN archive ELSE Append(archive, Stored(ticket, card))

Position == DOMAIN Collection

\* Counts positions, as $group does with {"$sum": 1}.
Count(S) == Cardinality(S)

-----------------------------------------------------------------------------
(* The calendar.                                                           *)

Month(y, m) == [year |-> y, month |-> m]

MonthOf(day) == Month((day \div MonthDays) \div 12, ((day \div MonthDays) % 12) + 1)

FirstDayOf(m) == (12 * m.year + m.month - 1) * MonthDays

NotAfter(m, n) == FirstDayOf(m) <= FirstDayOf(n)

\* Mutant: the month after December is lost.
SkipsJanuary(m) == IF m.month = 12 THEN Month(m.year + 1, 2) ELSE Month(m.year, m.month + 1)

\* _first_day_of_next_month
NextMonth(m) == IF m.month = 12 THEN Month(m.year + 1, 1) ELSE Month(m.year, m.month + 1)

\* _shift_months
ShiftMonths(m, delta) ==
  LET z == m.month - 1 + delta IN Month(m.year + z \div 12, (z % 12) + 1)

\* _month_window_utc: from the first instant of the month to that of the next.
MonthWindow(m) ==
  <<FirstDayOf(m),
    FirstDayOf(IF m.month = 12 THEN Month(m.year + 1, 1) ELSE Month(m.year, m.month + 1))>>

\* _month_keys_between
MonthKeys(first, last) ==
  LET keys[m \in [year : Int, month : 1..12]] ==
        IF NotAfter(m, last) THEN <<m>> \o keys[NextMonth(m)] ELSE <<>>
  IN keys[first]

-----------------------------------------------------------------------------
(* Due dates.                                                              *)

SlaDays == [criticality \in {"high", "medium", "low"} |->
  CASE criticality = "high" -> 1 [] criticality = "medium" -> 3 [] OTHER -> 5]

\* compute_due_date
DueDate(x) == x.card.created + SlaDays[x.doc.detail.criticality]

-----------------------------------------------------------------------------
(* The archive.                                                            *)

\* What the reports take for granted in a stored ticket: its shape, and what
\* the requests that made it kept (DeskInv), with the day and the level of a
\* closing that had an agent.
Filed(x) ==
  /\ x.doc.status \in Status /\ x.doc.history \in Seq(Entry) /\ OneActive(x.doc)
  /\ x.doc.detail.criticality \in DOMAIN SlaDays
  /\ x.card.type \in Type /\ x.card.created \in Nat
  /\ x.doc.closedBy # NoAgent =>
       /\ x.doc.status = "finished"
       /\ x.card.closedAt \in 0..LastDay /\ x.card.closerLevel \in Level

ASSUME ArchiveAssumption ==
  /\ \A a \in Archives : a \in Seq(Range(a)) /\ \A x \in Range(a) : Filed(x)
  /\ \A d \in Detail : d.criticality \in DOMAIN SlaDays

-----------------------------------------------------------------------------
(* GET /tickets and GET /tickets/queue.                                    *)

\* list_tickets: the documents that match, in the order they are stored.
Listed(status, type) ==
  {i \in Position : /\ status \in {"any", Collection[i].doc.status}
                    /\ type \in {"any", Collection[i].card.type}}

\* Mutant: tickets that wait for validation are not listed.
WithoutValidation(status) ==
  IF status = "any"
  THEN {"open", "awaiting_assignment", "in_progress", "waiting_for_provider"}
  ELSE {status}

\* _build_queue_query without a status filter: the statuses by name.
QueueStatuses(status) ==
  IF status = "any"
  THEN {"open", "awaiting_assignment", "in_progress", "waiting_for_provider",
        "waiting_for_validation"}
  ELSE {status}

AnyFilter == [status |-> "any", type |-> "any", unassigned |-> FALSE, level |-> 0,
              assignee |-> NoAgent]

\* _matches_queue_filters: the level and the last entry without an exit date.
MatchesQueue(t, f) ==
  /\ f.unassigned => Assignee(t) = NoAgent
  /\ f.level \in {0, t.level}
  /\ f.assignee \in {NoAgent, Assignee(t)}

Queued(f) ==
  {i \in Position : /\ Collection[i].doc.status \in QueueStatuses(f.status)
                    /\ f.type \in {"any", Collection[i].card.type}
                    /\ MatchesQueue(Collection[i].doc, f)}

\* _queue_sort_key; sorted() keeps the stored order of equal keys.
Rank == [criticality \in DOMAIN SlaDays |->
  CASE criticality = "high" -> 0 [] criticality = "medium" -> 1 [] OTHER -> 2]

MoreUrgent(x, y) ==
  LET r == Rank[x.doc.detail.criticality]
      s == Rank[y.doc.detail.criticality]
  IN r < s \/ (r = s /\ x.card.created < y.card.created)

Before(i, j) ==
  \/ MoreUrgent(Collection[i], Collection[j])
  \/ ~MoreUrgent(Collection[j], Collection[i]) /\ i < j

\* The k-th has k - 1 of them before it.
Queue(f) ==
  LET S == Queued(f) IN
  [k \in 1..Count(S) |-> CHOOSE i \in S : Count({j \in S : Before(j, i)}) = k - 1]

Pages(n) == 1..((n + PageSize - 1) \div PageSize)

\* Mutant: pages numbered from 0.
LateOffset(s, page) ==
  LET offset == page * PageSize IN
  SubSeq(s, offset + 1, IF offset + PageSize < Len(s) THEN offset + PageSize ELSE Len(s))

\* sorted_tickets[offset : offset + page_size]
PageOf(s, page) ==
  LET offset == (page - 1) * PageSize IN
  SubSeq(s, offset + 1, IF offset + PageSize < Len(s) THEN offset + PageSize ELSE Len(s))

-----------------------------------------------------------------------------
(* GET /tickets/dashboard: one aggregation over the tickets of a type.     *)

OfType(type) == {i \in Position : Collection[i].card.type = type}

\* is_open
IsOpen(t) == t.status \notin {"finished", "cancelled"}

HasActive(t) == ActiveEntries(t) # {}

\* active_assignment: the first entry without an exit date.
FirstActive(t) ==
  t.history[CHOOSE i \in ActiveEntries(t) : \A j \in ActiveEntries(t) : i <= j].agent

OpenOfType(type) == {i \in OfType(type) : IsOpen(Collection[i].doc)}

Kpis(type) ==
  [open |-> Count(OpenOfType(type)),
   cancelled |-> Count({i \in OfType(type) : Collection[i].doc.status = "cancelled"}),
   unassigned |-> Count({i \in OpenOfType(type) : ~HasActive(Collection[i].doc)}),
   overdue |-> Count({i \in OpenOfType(type) : DueDate(Collection[i]) < today})]

\* _STATUS_TO_OPEN_BUCKET
BucketOf ==
  [status \in {"open", "awaiting_assignment", "in_progress", "waiting_for_provider",
               "waiting_for_validation"} |->
     CASE status \in {"open", "awaiting_assignment"} -> "nao_atribuidos"
       [] status = "in_progress" -> "em_atendimento"
       [] OTHER -> "pendente"]

\* _build_open_breakdown: a status without a bucket is left out.
OpenBreakdown(type) ==
  [bucket \in {"pendente", "em_atendimento", "nao_atribuidos"} |->
     Count({i \in OpenOfType(type) :
       /\ Collection[i].doc.status \in DOMAIN BucketOf
       /\ BucketOf[Collection[i].doc.status] = bucket})]

\* assigned_breakdown_raw, in one of the orders the sort by count allows.
AssignedRows(type) ==
  LET S == {i \in OpenOfType(type) : HasActive(Collection[i].doc)}
      agents == {FirstActive(Collection[i].doc) : i \in S}
  IN {[agent |-> a, count |-> Count({i \in S : FirstActive(Collection[i].doc) = a})] :
        a \in agents}

BiggestFirst(rows) ==
  {s \in SetToSeqs(rows) : IsSorted(s, LAMBDA x, y : x.count >= y.count)}

SumOf(rows) == SumFunction([k \in DOMAIN rows |-> rows[k].count])

\* The top rows one by one, the others together as "Outros".
TopRows(rows) ==
  LET rest == SubSeq(rows, TopLimit + 1, Len(rows)) IN
  SubSeq(rows, 1, IF Len(rows) < TopLimit THEN Len(rows) ELSE TopLimit)
    \o (IF rest = <<>> THEN <<>> ELSE <<[agent |-> NoAgent, count |-> SumOf(rest)]>>)

-----------------------------------------------------------------------------
(* GET /tickets/dashboard/agent-closings.                                  *)

\* aggregate_agent_closings, level 0 for no filter.
ClosedIn(m, l) ==
  {i \in Position :
    LET x == Collection[i] IN
    /\ x.doc.status = "finished"
    /\ x.card.closedAt >= MonthWindow(m)[1] /\ x.card.closedAt < MonthWindow(m)[2]
    /\ x.doc.closedBy # NoAgent
    /\ l \in {0, x.card.closerLevel}}

\* The pivot: a counter per type, and their sum.  The sort and the rows beyond the
\* tenth, added up as "Outros", are left out.
ClosingRows(m, l) ==
  {[agent |-> a,
    types |-> [ty \in Type |-> Count({i \in ClosedIn(m, l) :
                 Collection[i].doc.closedBy = a /\ Collection[i].card.type = ty})],
    count |-> Count({i \in ClosedIn(m, l) : Collection[i].doc.closedBy = a})] :
     a \in {Collection[i].doc.closedBy : i \in ClosedIn(m, l)}}

-----------------------------------------------------------------------------
(* GET /tickets/dashboard/issues-by-product.                               *)

DefaultMonths == 6
MaxMonths == 12

\* _resolve_chart_period without the errors: from the first day of a month to
\* the end of a month.
ChartStart(p) ==
  IF p[1] = NoDate
  THEN ShiftMonths(MonthOf(IF p[2] = NoDate THEN today ELSE p[2]), -(DefaultMonths - 1))
  ELSE MonthOf(p[1])

ChartEnd(p) == MonthOf(IF p[2] = NoDate THEN today ELSE p[2])

ChartMonths(p) == MonthKeys(ChartStart(p), ChartEnd(p))

\* 422 for an end before the start and for more than _ISSUES_CHART_MAX_MONTHS.
ChartAllowed(p) == NotAfter(ChartStart(p), ChartEnd(p)) /\ Len(ChartMonths(p)) <= MaxMonths

\* aggregate_issues_by_product, company NoItem for no filter.  $match compares
\* dates with dates only, where the dashboard converts.
IssuesIn(p, company) ==
  {i \in Position :
    LET x == Collection[i] IN
    /\ x.card.type = "issue" /\ x.card.dated
    /\ x.card.created >= FirstDayOf(ChartStart(p))
    /\ x.card.created < FirstDayOf(NextMonth(ChartEnd(p)))
    /\ company \in {NoItem, x.card.company}}

\* _build_product_series: a point for every month, zero where nothing is.
ProductSeries(p, company) ==
  [product \in {Collection[i].doc.detail.product : i \in IssuesIn(p, company)} |->
     [k \in DOMAIN ChartMonths(p) |->
        Count({i \in IssuesIn(p, company) :
          /\ Collection[i].doc.detail.product = product
          /\ MonthOf(Collection[i].card.created) = ChartMonths(p)[k]})]]

-----------------------------------------------------------------------------
(* Behaviour: the desk works on its ticket while days pass.                *)

Created ==
  /\ CreateTicket
  /\ \E arrival \in Arrivals : card' = NewCard(arrival[1], arrival[2])
  /\ UNCHANGED <<archive, today>>

\* _apply_finished_metadata: when, and the level in the entry of the closer.
ClosingNoted ==
  card' =
    IF ticket'.closed /\ ~ticket.closed
    THEN [card EXCEPT !.closedAt = today,
            !.closerLevel = IF ActiveEntries(ticket) = {} THEN 0
                            ELSE ticket.history[ActiveIndex(ticket)].level]
    ELSE card

Worked ==
  /\ \/ \E r \in Request : RequestStep(r)
     \/ Crash
     \/ \E t \in Task : HandlerEnds(t)
  /\ ClosingNoted
  /\ UNCHANGED <<archive, today>>

DayPasses ==
  /\ today < LastDay
  /\ today' = today + 1
  /\ UNCHANGED <<vars, card, archive>>

ReportsInit ==
  /\ DeskInit
  /\ today = FirstDay
  /\ card = NewCard("issue", CHOOSE co \in Company : TRUE)
  /\ archive \in Archives

ReportsNext == Created \/ Worked \/ DayPasses

ReportsSpec == ReportsInit /\ [][ReportsNext]_reportVars

-----------------------------------------------------------------------------
(* Properties.                                                             *)

\* A request that has only read the ticket has changed no report: it is enough
\* to ask between requests.
Between == \A r \in Request : request[r].pc = "idle"

QueueTotal(f) == Count(Queued(f))

OfTypeFilter(ty) == [AnyFilter EXCEPT !.type = ty]

\* What TicketService counts in the documents of the queue is what MongoDB
\* counts for the dashboard: the open tickets of a type, the ones nobody is
\* assigned to, and the ones of each agent.
QueueAgrees ==
  Between =>
  \A ty \in Type :
    /\ Kpis(ty).open = QueueTotal(OfTypeFilter(ty))
    /\ Kpis(ty).unassigned = QueueTotal([OfTypeFilter(ty) EXCEPT !.unassigned = TRUE])
    /\ \A row \in AssignedRows(ty) :
         row.count = QueueTotal([OfTypeFilter(ty) EXCEPT !.assignee = row.agent])

\* The parts of the dashboard add up as its documentation promises: the
\* buckets to the open tickets, the agents with "Outros" to the open tickets
\* that are assigned.
DashboardAddsUp ==
  Between =>
  \A ty \in Type :
    LET buckets == OpenBreakdown(ty) IN
    /\ Kpis(ty).open
         = buckets["pendente"] + buckets["em_atendimento"] + buckets["nao_atribuidos"]
    /\ \A rows \in BiggestFirst(AssignedRows(ty)) :
         SumOf(TopRows(rows)) = Kpis(ty).open - Kpis(ty).unassigned

\* The dashboard agrees with the queue, and with itself.
DashboardAgrees == QueueAgrees /\ DashboardAddsUp

\* The pages of the queue, put together, list every open ticket once, the
\* most urgent first.
PagesCover ==
  Between =>
  LET queue == Queue(AnyFilter)
      together == FlattenSeq([p \in Pages(Len(queue)) |-> PageOf(queue, p)])
  IN /\ together = queue
     /\ {queue[k] : k \in DOMAIN queue} = UNION {Listed(s, "any") : s \in DOMAIN BucketOf}
     /\ \A j, k \in DOMAIN queue :
          j < k => ~MoreUrgent(Collection[queue[k]], Collection[queue[j]])

\* The months of the closings chart share out the finished tickets that had
\* an agent: each is in one month, under its agent and its type, and the
\* levels share out the month.
ClosingsShared ==
  Between =>
  LET months == {MonthOf(d) : d \in 0..LastDay}
      total(m, l) == SumFunction([row \in ClosingRows(m, l) |-> row.count])
  IN /\ Count({i \in Position : Collection[i].doc.closedBy # NoAgent})
          = SumFunction([m \in months |-> total(m, 0)])
     /\ \A m \in months :
          /\ total(m, 0) = SumFunction([l \in Level |-> total(m, l)])
          /\ \A row \in ClosingRows(m, 0) :
               row.count = SumFunction(row.types)

\* A chart that is not refused has every month from the first to the last
\* once, at most twelve, and every issue created in them counts in one point,
\* unless its date is a string.
IssuesCharted ==
  Between =>
  \A p \in Period, company \in Company \union {NoItem} :
    ChartAllowed(p) =>
      LET months == ChartMonths(p)
          series == ProductSeries(p, company)
          total == [product \in DOMAIN series |-> SumFunction(series[product])]
      IN /\ months # <<>> /\ Len(months) <= MaxMonths
         /\ p[1] = NoDate => Len(months) = DefaultMonths
         /\ months[Len(months)] = ChartEnd(p)
         /\ \A k \in 1..(Len(months) - 1) :
              FirstDayOf(months[k + 1]) = FirstDayOf(months[k]) + MonthDays
         /\ SumFunction(total)
              = Count({i \in Position :
                  /\ Collection[i].card.type = "issue" /\ Collection[i].card.dated
                  /\ company \in {NoItem, Collection[i].card.company}
                  /\ \E k \in DOMAIN months :
                       MonthOf(Collection[i].card.created) = months[k]})

\* What the charts count adds up, and agrees with the collection.
ChartsAddUp == ClosingsShared /\ IssuesCharted

\* What docs/grafico_dashboard_ticket.md says of the unassigned tickets: the
\* count and the bucket "represent the same set".  They do not: a ticket that
\* was taken is assigned and still awaits assignment.
UnassignedIsBucket ==
  \A ty \in Type : Kpis(ty).unassigned = OpenBreakdown(ty)["nao_atribuidos"]
=============================================================================
