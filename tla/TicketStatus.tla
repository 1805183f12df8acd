---------------------------- MODULE TicketStatus ----------------------------
(***************************************************************************)
(* The ticket states and the transitions TicketService validates against.  *)
(***************************************************************************)

Status == {"open", "awaiting_assignment", "in_progress",
           "waiting_for_provider", "waiting_for_validation",
           "finished", "cancelled"}

AllowedTransitions ==
  [s \in Status |->
     CASE s = "open" -> {"awaiting_assignment", "in_progress", "cancelled"}
       [] s = "awaiting_assignment" -> {"in_progress", "cancelled"}
       [] s = "in_progress" -> {"awaiting_assignment", "waiting_for_provider",
                                "waiting_for_validation", "finished", "cancelled"}
       [] s = "waiting_for_provider" -> {"in_progress", "cancelled"}
       [] s = "waiting_for_validation" -> {"in_progress", "finished", "cancelled"}
       [] OTHER -> {}]
=============================================================================
