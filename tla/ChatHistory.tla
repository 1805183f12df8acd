----------------------------- MODULE ChatHistory ------------------------------
(***************************************************************************)
(* What is read from the conversations of the tickets: the messages of a   *)
(* ticket in pages, its conversations, the list of active conversations    *)
(* and the search (ConversationRepository, ConversationService and the     *)
(* routes of conversation_router).                                         *)
(*                                                                         *)
(* How the conversations come about is in Conversations; here they change  *)
(* in the same steps, with the order of the messages and the time each was *)
(* made.  A message gets its time when it is received and its place in the *)
(* document when it is stored.  A reader asks for one page after another,  *)
(* and messages arrive, conversations end and agents change in between.    *)
(***************************************************************************)
EXTENDS Integers, Sequences, FiniteSets

CONSTANTS
  Ticket, Agent,
  Client,      \* the client of the tickets
  Admin,       \* a user with the role "admin"
  NoAgent,     \* agent_id is None
  PageLimit,   \* limit of the requests for pages
  Matching,    \* the messages whose content matches what is searched for
  MaxChats,    \* bound: conversations of a ticket
  MaxSaid,     \* bound: messages
  MaxTime      \* bound: the clock

ASSUME HistoryAssumption ==
  /\ Ticket # {}
  /\ {Client, Admin, NoAgent} \intersect Agent = {}
  /\ PageLimit \in Nat \ {0}
  /\ {MaxChats, MaxSaid, MaxTime} \subseteq Nat

VARIABLES
  chats,    \* Ticket -> its conversations, by sequential_index
  spoken,   \* messages made so far
  coming,   \* messages that are made and not stored yet
  ending,   \* copies end_conversation has read and not saved yet
  now,      \* the clock; messages of one millisecond have the same time
  reader    \* User -> the pages of a ticket's messages it asks for

histVars == <<chats, spoken, coming, ending, now, reader>>

-----------------------------------------------------------------------------
User == Agent \union {Client, Admin}

\* finished_at while it is None, as the sort of get_by_ticket_id puts it.
NotEnded == MaxTime + 1

Said == [id : 1..MaxSaid, at : 0..MaxTime]

Chat == [agent : Agent \union {NoAgent}, ended : 0..NotEnded, messages : Seq(Said)]

NewChat(a) == [agent |-> a, ended |-> NotEnded, messages |-> <<>>]

IsOpened(c) == c.ended = NotEnded

\* Conversation.participants
Participants(c) == {Client, c.agent} \ {NoAgent}

-----------------------------------------------------------------------------
(* GET /ticket/{id}/messages.                                              *)

\* $unwind: the conversations by sequential_index, the messages as they are stored.
Places(t) == UNION {{p} \X DOMAIN chats[t][p].messages : p \in DOMAIN chats[t]}

Message(t, x) == chats[t][x[1]].messages[x[2]]

\* $sort by timestamp; messages of the same time are taken to stay in their order.
Precedes(t, x, y) ==
  \/ Message(t, x).at < Message(t, y).at
  \/ /\ Message(t, x).at = Message(t, y).at
     /\ x[1] < y[1] \/ (x[1] = y[1] /\ x[2] < y[2])

History(t) ==
  LET before(x) == Cardinality({y \in Places(t) : Precedes(t, y, x)})
  IN [n \in 1..Cardinality(Places(t)) |->
        Message(t, CHOOSE x \in Places(t) : before(x) = n - 1)]

StoredIds(t) == {History(t)[k].id : k \in DOMAIN History(t)}

AtLeast0(n) == IF n > 0 THEN n ELSE 0

\* ceiling and floor: page 1 is at the end of the history.
Ceiling(t, page) == AtLeast0(Len(History(t)) - (page - 1) * PageLimit)
Floor(t, page) == AtLeast0(Ceiling(t, page) - PageLimit)

PageOf(t, page) == SubSeq(History(t), Floor(t, page) + 1, Ceiling(t, page))

\* $slice takes no length of 0.
PageFails(t, page) == History(t) # <<>> /\ PageOf(t, page) = <<>>

\* Mutant: a last page of one message is not announced.
SkipsSingle(t, page) == Floor(t, page) > 1

HasNext(t, page) == Floor(t, page) > 0

\* get_current_ticket_participants: of the highest sequential_index.
MayRead(u, t) ==
  chats[t] # <<>> /\ (u = Admin \/ u \in Participants(chats[t][Len(chats[t])]))

-----------------------------------------------------------------------------
(* GET /ticket/{id}, /active and /search, and what their results lead to.  *)

\* get_by_ticket_id sorts by finished_at; any of equal ones may be the last.
LastByEnd(t) ==
  {p \in DOMAIN chats[t] : \A q \in DOMAIN chats[t] : chats[t][q].ended <= chats[t][p].ended}

\* GET /ticket/{id} asks the participants of the last one.
MayList(u, t, p) == u = Admin \/ u \in Participants(chats[t][p])

\* Mutant: whoever is the agent, agents see every conversation.
ListsAll(u, c) == IsOpened(c)

\* get_active_conversations
Listed(u, c) == IsOpened(c) /\ (u = Admin \/ c.agent \in {u, NoAgent})

CanJoinLive(u, c) == u = Admin \/ c.agent = u
NeedsAssume(u, c) == u # Admin /\ c.agent = NoAgent

\* can_user_join_conversation, for a conversation that is open.
Admitted(u, c) == IsOpened(c) /\ (u = Admin \/ u \in Participants(c))

\* assume_conversation does not raise.
Assumable(u, c) == IsOpened(c) /\ (c.agent \in {u, NoAgent} \/ u = Admin)

\* search_conversation_by_text: the scope is chosen by the role.
InScope(u, c) == u \in {Admin, Client} \/ c.agent = u

MatchScore(c) == Cardinality({k \in DOMAIN c.messages : c.messages[k].id \in Matching})

\* The first of each ticket by match_score, then by sequential_index.
Found(u, t) ==
  LET S == {p \in DOMAIN chats[t] : InScope(u, chats[t][p]) /\ MatchScore(chats[t][p]) > 0}
      score(p) == MatchScore(chats[t][p])
  IN {p \in S : \A q \in S : score(q) < score(p) \/ (score(q) = score(p) /\ q <= p)}

-----------------------------------------------------------------------------
(* Conversations.                                                          *)

Tick ==
  /\ now < MaxTime
  /\ now' = now + 1
  /\ UNCHANGED <<chats, spoken, coming, ending, reader>>

\* append_conversation_to_ticket, up to the insertion.
AppendChat(t, a) ==
  /\ Len(chats[t]) < MaxChats
  /\ chats' = [chats EXCEPT ![t] = Append(@, NewChat(a))]
  /\ UNCHANGED <<spoken, coming, ending, now, reader>>

\* attribute_agent
SetAgent(t, p, a) ==
  /\ p \in DOMAIN chats[t]
  /\ chats' = [chats EXCEPT ![t][p].agent = a]
  /\ UNCHANGED <<spoken, coming, ending, now, reader>>

\* ChatMessage.create: of a socket, which may outlive the conversation, or of
\* the system.
Make(t, p) ==
  /\ p \in DOMAIN chats[t] /\ spoken < MaxSaid
  /\ spoken' = spoken + 1
  /\ coming' = coming \union
       {[ticket |-> t, place |-> p, said |-> [id |-> spoken', at |-> now]]}
  /\ UNCHANGED <<chats, ending, now, reader>>

\* add_message: $push.
Push(x) ==
  /\ x \in coming
  /\ chats' = [chats EXCEPT ![x.ticket][x.place].messages = Append(@, x.said)]
  /\ coming' = coming \ {x}
  /\ UNCHANGED <<spoken, ending, now, reader>>

\* end_conversation reads the document ...
EndReads(t, p) ==
  /\ p \in DOMAIN chats[t] /\ IsOpened(chats[t][p])
  /\ \A x \in ending : x.ticket # t \/ x.place # p
  /\ ending' = ending \union {[ticket |-> t, place |-> p, seen |-> chats[t][p]]}
  /\ UNCHANGED <<chats, spoken, coming, now, reader>>

\* ... and saves what it read, with finished_at.  steady is history: no message
\* of the ticket was lost since the reader began.
EndSaves(x) ==
  /\ x \in ending
  /\ chats' = [chats EXCEPT ![x.ticket][x.place] = [x.seen EXCEPT !.ended = now]]
  /\ ending' = ending \ {x}
  /\ reader' = [u \in User |->
       IF reader[u].ticket = x.ticket /\ x.seen.messages # chats[x.ticket][x.place].messages
       THEN [reader[u] EXCEPT !.steady = FALSE] ELSE reader[u]]
  /\ UNCHANGED <<spoken, coming, now>>

-----------------------------------------------------------------------------
(* Readers.                                                                *)

\* got: the messages shown; due: those stored when page 1 was read (history).
NotReading ==
  [pc |-> "none", ticket |-> CHOOSE t \in Ticket : TRUE, page |-> 1, got |-> {}, due |-> {},
   steady |-> TRUE]

\* The participants are read; every page is a request of its own.
Ask(u, t) ==
  /\ reader[u].pc = "none" \/ (reader[u].pc = "next" /\ reader[u].ticket = t)
  /\ MayRead(u, t)
  /\ reader' = [reader EXCEPT ![u].pc = "asked", ![u].ticket = t]
  /\ UNCHANGED <<chats, spoken, coming, ending, now>>

\* 403: he is no participant any more.
Refused(u) ==
  /\ reader[u].pc = "next" /\ ~MayRead(u, reader[u].ticket)
  /\ reader' = [reader EXCEPT ![u] = NotReading]
  /\ UNCHANGED <<chats, spoken, coming, ending, now>>

\* get_paginated_messages, whoever the participants are by now.
ReadPage(u) ==
  LET r == reader[u]
      page == PageOf(r.ticket, r.page)
  IN /\ r.pc = "asked"
     /\ reader' = [reader EXCEPT ![u] =
          IF PageFails(r.ticket, r.page) THEN NotReading
          ELSE [r EXCEPT !.got = @ \union {page[k].id : k \in DOMAIN page},
                         !.due = IF r.page = 1 THEN StoredIds(r.ticket) ELSE @,
                         !.page = IF HasNext(r.ticket, r.page) THEN @ + 1 ELSE @,
                         !.pc = IF HasNext(r.ticket, r.page) THEN "next" ELSE "done"]]
     /\ UNCHANGED <<chats, spoken, coming, ending, now>>

\* The history was read to its beginning.
Leaves(u) ==
  /\ reader[u].pc = "done"
  /\ reader' = [reader EXCEPT ![u] = NotReading]
  /\ UNCHANGED <<chats, spoken, coming, ending, now>>

-----------------------------------------------------------------------------
HistInit ==
  /\ chats = [t \in Ticket |-> <<>>]
  /\ spoken = 0 /\ coming = {} /\ ending = {} /\ now = 0
  /\ reader = [u \in User |-> NotReading]

HistNext ==
  \/ Tick
  \/ \E t \in Ticket, a \in Agent \union {NoAgent} : AppendChat(t, a)
  \/ \E t \in Ticket, p \in 1..MaxChats :
       \/ \E a \in Agent : SetAgent(t, p, a)
       \/ Make(t, p)
       \/ EndReads(t, p)
  \/ \E x \in coming : Push(x)
  \/ \E x \in ending : EndSaves(x)
  \/ \E u \in User :
       (\E t \in Ticket : Ask(u, t)) \/ Refused(u) \/ ReadPage(u) \/ Leaves(u)

HistSpec == HistInit /\ [][HistNext]_histVars

-----------------------------------------------------------------------------
(* Properties.                                                             *)

\* Type correctness.
HistTypeOK ==
  /\ chats \in [Ticket -> Seq(Chat)]
  /\ spoken \in 0..MaxSaid /\ now \in 0..MaxTime
  /\ coming \subseteq [ticket : Ticket, place : 1..MaxChats, said : Said]
  /\ ending \subseteq [ticket : Ticket, place : 1..MaxChats, seen : Chat]
  /\ reader \in [User -> [pc : {"none", "asked", "next", "done"}, ticket : Ticket,
                          page : Nat \ {0}, got : SUBSET (1..MaxSaid),
                          due : SUBSET (1..MaxSaid), steady : BOOLEAN]]

\* Whoever pages back to the beginning has seen every message that was there
\* when he began, whatever arrived meanwhile and wherever it was sorted in: the
\* pages are counted from the end, and what is added only moves messages to
\* later pages.  A save of end_conversation that drops a message moves the
\* others the other way.
HistoryWhole ==
  \A u \in User :
    reader[u].pc = "done" /\ reader[u].steady => reader[u].due \subseteq reader[u].got

\* What the list of active conversations says, the other routes accept: who can
\* join is admitted to the room, who needs to assume is not and may assume, and
\* an agent is shown no conversation he can do neither with; and all the rooms
\* that admit an agent are in his list.  The search finds one conversation of
\* a ticket, and for an agent one of his own, whenever there is one that matches.
OffersHold ==
  \A t \in Ticket : \A p \in DOMAIN chats[t], u \in Agent \union {Admin} :
    LET c == chats[t][p] IN
    /\ Listed(u, c) => /\ (CanJoinLive(u, c) <=> Admitted(u, c))
                       /\ NeedsAssume(u, c) => Assumable(u, c)
                       /\ CanJoinLive(u, c) \/ NeedsAssume(u, c)
    /\ Admitted(u, c) => Listed(u, c)
    /\ MatchScore(c) > 0 /\ (u = Admin \/ u \in Participants(c)) =>
         \E q \in DOMAIN chats[t] :
           Found(u, t) = {q} /\ (u = Admin \/ u \in Participants(chats[t][q]))

\* What the two routes of a ticket say, "a current participant in the ticket's
\* latest conversation", is not the same for both: one takes the highest
\* number, the other the latest end, and conversations may end out of order.
LatestAgrees ==
  \A u \in User, t \in Ticket : \A p \in LastByEnd(t) : MayList(u, t, p) <=> MayRead(u, t)

\* What the documentation of the search says: "only the most recent matching
\* conversation per ticket is returned".  The one with the most matches is.
MostRecentFound ==
  \A u \in User, t \in Ticket : \A p \in DOMAIN chats[t] :
    InScope(u, chats[t][p]) /\ MatchScore(chats[t][p]) > 0 =>
      \A q \in Found(u, t) : p <= q
=============================================================================
