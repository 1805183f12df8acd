--------------------------- MODULE MCSupportFlow ----------------------------
(* TLC instances of SupportFlow.                                           *)
EXTENDS SupportFlow, TLC

CONSTANTS a1, a2

\* a1 serves both levels, a2 only the upper one.
MCLevelsOf == [a \in Agent |-> Level \intersect (IF a = a1 THEN {1, 2} ELSE {2})]

\* take aside, all operations: take publishes nothing a handler could act on.
AnnouncedOperations ==
  {"assign", "escalate", "transfer", "cancel", "update_status", "update_ticket",
   "add_comment", "update_comment", "delete_comment"}

OverlapOperations == {"take", "escalate", "update_status"}

\* The desk raises the events itself.
MCRaised == {}
=============================================================================
