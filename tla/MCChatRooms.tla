---------------------------- MODULE MCChatRooms -----------------------------
(* Connections are alike.  In a scene of its own, an agent reads what was  *)
(* said while it goes on.                                                  *)
EXTENDS ChatRooms, ChatHistory, TLC

CONSTANTS a1, a2

VARIABLE scene   \* "room" or "history": the other one does nothing

RoomScene ==
  /\ scene = "room" /\ Next /\ UNCHANGED histVars

\* One agent reads; the ticket's conversations are for different agents; two
\* copies or messages are on their way at a time.
HistoryScene ==
  /\ scene = "history" /\ HistNext /\ UNCHANGED vars
  /\ \A u \in User \ {a1} : reader[u]' = NotReading
  /\ \A t \in Ticket : \A p \in DOMAIN chats'[t] :
       chats'[t][p].agent \in {NoAgent, <<a1, a2>>[p]}
  /\ Cardinality(ending') <= 1 /\ Cardinality(ending') + Cardinality(coming') <= 2

ScenesInit == Init /\ HistInit /\ scene \in {"room", "history"}

ScenesSpec ==
  ScenesInit /\ [][(RoomScene \/ HistoryScene) /\ UNCHANGED scene]_<<vars, histVars, scene>>

Symmetry == Permutations(Conn)
=============================================================================
