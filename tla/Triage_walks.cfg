SPECIFICATION TriageSpec
CONSTANTS
  Request = {q1, q2}
  Choice = {"1", "2", "4", "5", " 2", " 5"}
  Strip <- MCStrip
  Text = {"2"}
  Rating = {g1}
  Nothing = Nothing
  MaxSteps = 7
  MaxTickets = 2
  Faults = TRUE
  RacedSteps = 3
  RacedChoice = {"1", "5"}
CONSTRAINT Bounded
CHECK_DEADLOCK FALSE
SYMMETRY Symmetry
INVARIANTS TicketOnItsWay OneTicket TicketMatchesPath
PROPERTY OutcomeStays
