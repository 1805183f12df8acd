---------------------------- MODULE TicketBoard -----------------------------
(***************************************************************************)
(* What the ticket service promises when requests do not overlap: a board  *)
(* with the status, the level and the assignee of a ticket, every          *)
(* operation one step.  The transition table governs explicit status       *)
(* changes; handing a ticket to an agent needs his level and puts an       *)
(* unfinished ticket in progress or leaves its status alone.               *)
(***************************************************************************)
EXTENDS TicketStatus, Integers

CONSTANTS Agent, NoAgent, Level, LevelsOf

VARIABLES status, level, assignee

boardVars == <<status, level, assignee>>

BoardInit == status = "absent" /\ level \in Level /\ assignee = NoAgent

Open ==
  /\ status = "absent"
  /\ status' = "awaiting_assignment"
  /\ level' \in Level
  /\ UNCHANGED assignee

Move(s) ==
  /\ status \in Status
  /\ s \in AllowedTransitions[status]
  /\ status' = s
  /\ assignee' \in (IF s = "cancelled" THEN {assignee, NoAgent} ELSE {assignee})
  /\ UNCHANGED level

\* A finished ticket nobody held when it was closed may still be claimed.
Claim(a) ==
  /\ status \in Status
  /\ assignee = NoAgent
  /\ level \in LevelsOf[a]
  /\ assignee' = a
  /\ UNCHANGED <<status, level>>

HandTo(a, l) ==
  /\ status \in Status \ {"finished"}
  /\ l >= level /\ l \in LevelsOf[a]
  /\ level' = l
  /\ assignee' = a
  /\ status' \in {status, "in_progress"}

BoardNext ==
  \/ Open
  \/ \E s \in Status : Move(s)
  \/ \E a \in Agent : Claim(a)
  \/ \E a \in Agent, l \in Level : HandTo(a, l)

BoardSpec == BoardInit /\ [][BoardNext]_boardVars
=============================================================================
