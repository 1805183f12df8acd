----------------------------- MODULE ChatRooms ------------------------------
(***************************************************************************)
(* The in-memory room of one conversation (app/domains/live_chat:          *)
(* ChatManager, ChatRoom and the loop of the WebSocket endpoint).  Rooms   *)
(* of different conversations share nothing.                               *)
(*                                                                         *)
(* Every connection runs its own coroutine on one event loop: another one  *)
(* may run wherever a coroutine awaits (the database, a send, a close).    *)
(* The table of rooms maps the conversation to a room object; a coroutine  *)
(* keeps the object it looked up, whatever becomes of the table meanwhile. *)
(* A broadcast walks the live list of its room by position.                *)
(***************************************************************************)
EXTENDS Naturals, Sequences, FiniteSets

CONSTANTS
  Conn,        \* connections: each is accepted once
  MaxRoom,     \* bound: room objects made for the conversation
  MaxMessage   \* bound: messages a connection sends

ASSUME ChatRoomsAssumption == MaxRoom \in Nat \ {0} /\ MaxMessage \in Nat

VARIABLES
  opened,      \* the conversation is open
  current,     \* the entry of the table: a room object, or 0
  made,        \* room objects made
  members,     \* room object -> its connections, in the order they joined
  dead,        \* room object -> connections a send has failed on
  conn,        \* Conn -> [pc, up, room, sent], one per coroutine
  walk,        \* Conn -> the broadcast its coroutine is in
  failed       \* history: connections whose join or close raised

vars == <<opened, current, made, members, dead, conn, walk, failed>>

-----------------------------------------------------------------------------
Room == 1..MaxRoom

\* at is the room walked, next the position of the list iterator.  The rest
\* is history: reached by the message; owed it, as members since it began;
\* removals from the list since.
NoWalk == [at |-> 1, next |-> 1, reached |-> {}, owed |-> {}, removals |-> 0]

Inside == {"confirming", "open", "storing", "walking", "closing"}

Members(m) == {members[m][p] : p \in DOMAIN members[m]}

Walking(c, m) == conn[c].pc = "walking" /\ walk[c].at = m

\* list.remove for each connection of gone: the others keep their order.
Without(list, gone) ==
  LET kept == {p \in DOMAIN list : list[p] \notin gone}
      before(p) == Cardinality({q \in kept : q < p})
  IN [n \in 1..Cardinality(kept) |-> list[CHOOSE p \in kept : before(p) = n - 1]]

Removed(m, gone) == [members EXCEPT ![m] = Without(@, gone)]

\* The walks of others over room m while the connections of gone leave it.
Disturbed(m, gone) ==
  [c \in Conn |->
     IF Walking(c, m)
     THEN [walk[c] EXCEPT !.owed = @ \ gone,
                          !.removals = @ + Cardinality(gone \intersect Members(m))]
     ELSE walk[c]]

\* Mutant: the walk starts behind the first connection.
StartLate(m) ==
  [at |-> m, next |-> 2, reached |-> {}, owed |-> Members(m), removals |-> 0]

\* room.broadcast up to its first send.
StartWalk(m) ==
  [at |-> m, next |-> 1, reached |-> {}, owed |-> Members(m), removals |-> 0]

Goto(c, pc) == conn' = [conn EXCEPT ![c].pc = pc]

-----------------------------------------------------------------------------
(* Joining.                                                                *)

\* connect_to_conversation: the conversation exists, is open and the user may
\* join; then the handshake is awaited.
Accept(c) ==
  /\ conn[c].pc = "outside" /\ opened
  /\ Goto(c, "accepted")
  /\ UNCHANGED <<opened, current, made, members, dead, walk, failed>>

Joined(list, c) == Append(list, c)

\* join_room: the room of the table, or a new one; the confirmation is sent.
Join(c) ==
  /\ conn[c].pc = "accepted"
  /\ current # 0 \/ made < MaxRoom
  /\ LET m == IF current = 0 THEN made + 1 ELSE current
     IN /\ current' = m
        /\ made' = IF current = 0 THEN m ELSE made
        /\ members' = [members EXCEPT ![m] = Joined(@, c)]
        /\ conn' = [conn EXCEPT ![c].pc = "confirming", ![c].room = m]
  /\ UNCHANGED <<opened, dead, walk, failed>>

\* The confirmation was sent and the join is announced; or it raised, and
\* connect_to_conversation does not leave the room: joined is not set yet.
Confirm(c) ==
  /\ conn[c].pc = "confirming"
  /\ IF conn[c].up
     THEN /\ Goto(c, "walking")
          /\ walk' = [walk EXCEPT ![c] = StartWalk(conn[c].room)]
          /\ UNCHANGED failed
     ELSE /\ Goto(c, "gone")
          /\ failed' = failed \union {c}
          /\ UNCHANGED walk
  /\ UNCHANGED <<opened, current, made, members, dead>>

-----------------------------------------------------------------------------
(* Messages.                                                               *)

\* A message arrived and is valid; a file it names is checked, then the
\* message is stored.  A message that is not valid is answered with an error.
Receive(c) ==
  /\ conn[c].pc = "open" /\ conn[c].up
  /\ conn[c].sent < MaxMessage
  /\ conn' = [conn EXCEPT ![c].pc = "storing", ![c].sent = @ + 1]
  /\ UNCHANGED <<opened, current, made, members, dead, walk, failed>>

\* The message is in the database; manager.broadcast looks the room up.
Stored(c) ==
  /\ conn[c].pc = "storing"
  /\ IF current = 0
     THEN Goto(c, "open") /\ UNCHANGED walk
     ELSE Goto(c, "walking") /\ walk' = [walk EXCEPT ![c] = StartWalk(current)]
  /\ UNCHANGED <<opened, current, made, members, dead, failed>>

\* One turn of the loop of broadcast.
Send(c) ==
  LET m == walk[c].at
      target == members[m][walk[c].next]
  IN /\ conn[c].pc = "walking"
     /\ walk[c].next <= Len(members[m])
     /\ IF conn[target].up
        THEN walk' = [walk EXCEPT ![c].next = @ + 1, ![c].reached = @ \union {target}]
             /\ UNCHANGED dead
        ELSE walk' = [walk EXCEPT ![c].next = @ + 1]
             /\ dead' = [dead EXCEPT ![m] = @ \union {target}]
     /\ UNCHANGED <<opened, current, made, members, conn, failed>>

AtEnd(c) == conn[c].pc = "walking" /\ walk[c].next > Len(members[walk[c].at])

\* _drop_dead_connections
DropDead(m) == dead[m]

\* The end of the loop; back to receiving.
EndWalk(c) ==
  /\ AtEnd(c)
  /\ LET m == walk[c].at
     IN /\ members' = Removed(m, DropDead(m))
        /\ dead' = [dead EXCEPT ![m] = {}]
        /\ walk' = [Disturbed(m, DropDead(m)) EXCEPT ![c] = NoWalk]
  /\ Goto(c, "open")
  /\ UNCHANGED <<opened, current, made, failed>>

-----------------------------------------------------------------------------
(* Leaving.                                                                *)

\* Mutant: the room stays in the table.
StaysListed(list) == current

\* An empty room is popped; the pop names the conversation, not the room.
PopIfEmpty(list) == IF list = <<>> THEN 0 ELSE current

\* The client is gone: receive_json raises, and leave_room awaits nothing.
Leave(c) ==
  /\ conn[c].pc = "open" /\ ~conn[c].up
  /\ IF current = 0 THEN UNCHANGED <<current, members, walk>>
     ELSE /\ members' = Removed(current, {c})
          /\ current' = PopIfEmpty(members'[current])
          /\ walk' = Disturbed(current, {c})
  /\ Goto(c, "gone")
  /\ UNCHANGED <<opened, made, dead, failed>>

\* The database fails, or an error frame cannot be sent: leave_room with a
\* socket the server holds for connected, which it closes.
Break(c) ==
  /\ conn[c].pc \in {"open", "storing"}
  /\ conn[c].pc = "open" => ~conn[c].up
  /\ IF current = 0
     THEN Goto(c, "gone") /\ UNCHANGED <<members, walk>>
     ELSE /\ members' = Removed(current, {c})
          /\ walk' = Disturbed(current, {c})
          /\ conn' = [conn EXCEPT ![c].pc = "closing", ![c].room = current]
  /\ UNCHANGED <<opened, current, made, dead, failed>>

\* The close returned; the room left may have emptied meanwhile.
Closed(c) ==
  /\ conn[c].pc = "closing"
  /\ current' = PopIfEmpty(members[conn[c].room])
  /\ Goto(c, "gone")
  /\ UNCHANGED <<opened, made, members, dead, walk, failed>>

\* The close raised.
CloseRaises(c) ==
  /\ conn[c].pc = "closing" /\ ~conn[c].up
  /\ Goto(c, "gone")
  /\ failed' = failed \union {c}
  /\ UNCHANGED <<opened, current, made, members, dead, walk>>

-----------------------------------------------------------------------------
(* Around the room.                                                        *)

\* The client disconnects.
Cut(c) ==
  /\ conn[c].pc \in Inside \union {"accepted"} /\ conn[c].up
  /\ conn' = [conn EXCEPT ![c].up = FALSE]
  /\ UNCHANGED <<opened, current, made, members, dead, walk, failed>>

\* The conversation is closed; its room is not told.
CloseConversation ==
  /\ opened
  /\ opened' = FALSE
  /\ UNCHANGED <<current, made, members, dead, conn, walk, failed>>

Init ==
  /\ opened = TRUE
  /\ current = 0 /\ made = 0
  /\ members = [m \in Room |-> <<>>]
  /\ dead = [m \in Room |-> {}]
  /\ conn = [c \in Conn |-> [pc |-> "outside", up |-> TRUE, room |-> 1, sent |-> 0]]
  /\ walk = [c \in Conn |-> NoWalk]
  /\ failed = {}

ConnNext(c) ==
  \/ Accept(c) \/ Join(c) \/ Confirm(c)
  \/ Receive(c) \/ Stored(c) \/ Send(c) \/ EndWalk(c)
  \/ Leave(c) \/ Break(c) \/ Closed(c) \/ CloseRaises(c)
  \/ Cut(c)

Next == (\E c \in Conn : ConnNext(c)) \/ CloseConversation

Spec == Init /\ [][Next]_vars

-----------------------------------------------------------------------------
(* Properties.                                                             *)

\* Type correctness.
TypeOK ==
  /\ opened \in BOOLEAN
  /\ current \in Room \union {0} /\ made \in Room \union {0}
  /\ members \in [Room -> Seq(Conn)]
  /\ dead \in [Room -> SUBSET Conn]
  /\ conn \in [Conn -> [pc : Inside \union {"outside", "accepted", "gone"},
                        up : BOOLEAN, room : Room, sent : 0..MaxMessage]]
  /\ walk \in [Conn -> [at : Room, next : Nat \ {0}, reached : SUBSET Conn,
                        owed : SUBSET Conn, removals : Nat]]
  /\ failed \subseteq Conn

\* A connected client stays in the room it joined until its own coroutine
\* leaves it: nobody else's broadcast drops it.
LiveStays ==
  \A c \in Conn :
    conn[c].up /\ conn[c].pc \in {"confirming", "open", "storing", "walking"} =>
      c \in Members(conn[c].room)

\* A message reaches a connection at most once, whatever joins and leaves
\* while it is sent.
ReachedOnce ==
  \A c \in Conn : conn[c].pc = "walking" =>
    \A p \in DOMAIN members[walk[c].at] :
      p >= walk[c].next => members[walk[c].at][p] \notin walk[c].reached

\* A connection that was in the room from the beginning to the end of a
\* broadcast and was not reached was skipped because another was removed from
\* the list meanwhile: each removal skips one at most.
SkipsExplained ==
  \A c \in Conn : AtEnd(c) =>
    Cardinality({o \in walk[c].owed : conn[o].up} \ walk[c].reached) <= walk[c].removals

\* What a broadcast promises while connections come, break and go: it drops no
\* live client, nobody gets the message twice, and who is left out was skipped
\* by a removal.
BroadcastReaches == LiveStays /\ ReachedOnce /\ SkipsExplained

\* A room is kept in the table by a coroutine that will still leave it; only a
\* join or a close that raised can keep one for nobody.
RoomHasReason ==
  current # 0 =>
    \/ \E c \in Conn : conn[c].pc \in Inside
    \/ failed # {}

\* What the guide of the chat says: "The message is broadcast to all clients
\* in the room, including the sender".
ReachesAll ==
  \A c \in Conn : AtEnd(c) => {o \in walk[c].owed : conn[o].up} \subseteq walk[c].reached
=============================================================================
