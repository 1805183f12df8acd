-------------------------- MODULE MCTicketReports ---------------------------
(* An instance of TicketReports: the ticket of the desk beside an archive.  *)
EXTENDS TicketReports, TLC

CONSTANTS a1, a2, co1, co2

MCLevelsOf == [a \in Agent |-> Level \intersect (IF a = a1 THEN {1, 2} ELSE {2})]

MCOperations ==
  {"take", "assign", "escalate", "transfer", "cancel", "update_status", "update_ticket",
   "add_comment", "update_comment", "delete_comment"}

MCArrivals == {<<"issue", co1>>, <<"access", co2>>}

\* The fields a PATCH may overwrite.
MCDetail == {[criticality |-> "high", product |-> "p1"],
             [criticality |-> "low", product |-> "p2"]}

\* A ticket of the archive: who was assigned, and which of them still is.
Archived(status, agents, active, criticality, product, ty, co, created, closedAt) ==
  LET level(a) == IF a = a1 THEN 1 ELSE 2
      history == [i \in DOMAIN agents |-> [agent |-> agents[i], level |-> level(agents[i]),
                                           active |-> active /\ i = Len(agents)]]
      closer == IF closedAt # Never /\ active /\ agents # <<>>
                THEN agents[Len(agents)] ELSE NoAgent
  IN [doc |-> [NewTicket(IF agents = <<>> THEN 1 ELSE level(agents[Len(agents)]),
                         [criticality |-> criticality, product |-> product])
                 EXCEPT !.status = status, !.history = history,
                        !.closed = closedAt # Never, !.closedBy = closer],
      card |-> [type |-> ty, company |-> co, created |-> created, dated |-> TRUE, closedAt |-> closedAt,
                closerLevel |-> IF closer = NoAgent THEN 0 ELSE level(closer)]]

\* From the February of year 0 to the February of year 1; and what the seed left.
MCArchives ==
  {<< Archived("finished", <<a1, a2>>, TRUE, "low", "p1", "issue", co1, 2, 23),
      Archived("waiting_for_validation", <<a2>>, TRUE, "medium", "p2", "issue", co2, 3, Never),
      Archived("finished", <<a1>>, TRUE, "high", "p1", "access", co1, 14, 22),
      Archived("cancelled", <<a1>>, FALSE, "medium", "p1", "issue", co1, 22, Never),
      Archived("awaiting_assignment", <<>>, FALSE, "high", "p1", "issue", co1, 23, Never),
      Archived("finished", <<>>, FALSE, "high", "p2", "issue", co2, 24, 25),
      Archived("in_progress", <<a1>>, TRUE, "high", "p2", "issue", co2, 25, Never) >>,
   ExampleTickets(a1, a2, co1, co2, 25)}

\* The defaults, a year, more than a year, across a new year, and backwards.
MCPeriod ==
  {<<NoDate, NoDate>>, <<NoDate, 27>>, <<2, 25>>, <<2, 26>>, <<22, NoDate>>, <<26, 3>>}
=============================================================================
