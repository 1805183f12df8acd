---------------------------- MODULE MCTicketDesk ----------------------------
(* TLC instances of TicketDesk.                                            *)
EXTENDS TicketDesk, TLC

CONSTANTS a1, a2

\* a1 serves both levels, a2 only the upper one.
MCLevelsOf == [a \in Agent |-> Level \intersect (IF a = a1 THEN {1, 2} ELSE {2})]

AllOperations == {"take", "assign", "escalate", "transfer", "cancel",
                  "update_status", "update_ticket",
                  "add_comment", "update_comment", "delete_comment"}

Symmetry == Permutations(Request) \union Permutations(Task)
=============================================================================
