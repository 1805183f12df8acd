------------------------------- MODULE Triage -------------------------------
(***************************************************************************)
(* The chatbot (app/domains/chatbot): one attendance, the messages that    *)
(* walk its menu, and the ticket that a finished triage asks for.          *)
(*                                                                         *)
(* process_message and set_evaluation read the document, decide on the     *)
(* copy and replace the whole document.  A triage that needs an agent      *)
(* publishes TRIAGE_FINISHED, on which TicketListener inserts the ticket   *)
(* in a task of its own, and polls for the ticket and its conversation.    *)
(* An answer is kept as it was typed; the menu strips it to find its       *)
(* option, the ticket is derived from what was kept.  "other" stands for   *)
(* every text that is no option stripped, the empty one included.          *)
(***************************************************************************)
EXTENDS Integers, Sequences, FiniteSets

CONSTANTS
  Request,     \* messages and evaluations in flight at the same time
  Choice,      \* the answers clients send as answer_value
  Text,        \* the answers clients send as answer_text
  Strip(_),    \* the answer without the blanks around it
  Rating,      \* the ratings clients give
  Nothing,     \* None
  MaxSteps,    \* bound: entries of triage
  MaxTickets,  \* bound: tickets of the triage
  Faults       \* whether handlers may fail and the process may stop

-----------------------------------------------------------------------------
(* The menu.                                                               *)

Informing == {"showing_deadlines", "showing_manual", "showing_email"}

FreeText == {"requesting_access", "waiting_failure_text", "waiting_feature_text"}

Menu == {"main_menu", "choosing_product_problem", "choosing_question_type",
         "anything_else"} \union Informing \union FreeText

\* MENU_MAP: <<state, option, next state>>.
MenuMap ==
  ({"main_menu"} \X {"1", "2", "3"} \X {"choosing_product_problem"}) \union
  ({"main_menu"} \X {"4"} \X {"choosing_question_type"}) \union
  ({"main_menu"} \X {"5"} \X {"requesting_access"}) \union
  ({"choosing_product_problem"} \X {"1"} \X {"waiting_failure_text"}) \union
  ({"choosing_product_problem"} \X {"2"} \X {"waiting_feature_text"}) \union
  ({"choosing_question_type"} \X {"1"} \X {"showing_deadlines"}) \union
  ({"choosing_question_type"} \X {"2"} \X {"showing_manual"}) \union
  ({"choosing_question_type"} \X {"3"} \X {"showing_email"}) \union
  (Informing \X {"1"} \X {"anything_else"}) \union
  ({"anything_else"} \X {"1"} \X {"main_menu"}) \union
  ({"anything_else"} \X {"2"} \X {"service_finished"})

Targets(s, c) == {n \in Menu \union {"service_finished"} : <<s, Strip(c), n>> \in MenuMap}

\* process_interaction: no state starts the menu, free text ends it, and an
\* answer that is no option asks again.
NextState(s, c) ==
  CASE s \notin Menu -> "main_menu"
    [] s \in FreeText -> "ticket_created"
    [] OTHER -> IF Targets(s, c) = {} THEN s ELSE CHOOSE n \in Targets(s, c) : TRUE

\* What process_interaction and _derive_ticket_payload_from_triage compare with
\* has no blanks around it.
Compared == {"1", "2", "3", "4", "5", "other"}

ASSUME TriageAssumption ==
  /\ \A c \in Compared \union {Nothing} : Strip(c) = c
  /\ Nothing \notin Compared \union Choice \union Text \union Rating \union Menu
  /\ MaxSteps \in Nat /\ MaxTickets \in Nat
  /\ Faults \in BOOLEAN

VARIABLES
  attendance,  \* the stored document
  request,     \* Request -> [pc, message, rating, seen, link]
  opening,     \* Request -> the ticket its TRIAGE_FINISHED asks TicketListener for
  tickets,     \* the tickets inserted for this triage, oldest first
  closing,     \* tickets whose TICKET_CLOSED ChatbotListener has to handle
  raced,       \* history: requests overlapped
  lost         \* history: a fault happened

triageVars == <<attendance, request, opening, tickets, closing, raced, lost>>

-----------------------------------------------------------------------------
(* The attendance document.                                                *)

Step == [step : Menu, value : Choice \union {Nothing}, text : Text \union {Nothing}]

Ask(s) == [step |-> s, value |-> Nothing, text |-> Nothing]

\* ended: end_date is set; ticket: the id in result as the number of the ticket.
\* The id of the conversation next to it is left out.
Attendance ==
  [status : {"absent", "opened", "finished"}, steps : Seq(Step),
   result : {"none", "ticket", "resolved"}, ticket : Nat,
   rating : Rating \union {Nothing}, ended : BOOLEAN]

Unborn == [status |-> "absent", steps |-> <<>>, result |-> "none", ticket |-> 0,
           rating |-> Nothing, ended |-> FALSE]

\* What insert_one stores, and what create_attendance saves after it.
Inserted == [Unborn EXCEPT !.status = "opened"]

Started == [Inserted EXCEPT !.steps = <<Ask("main_menu")>>]

\* A message has an answer_value, an answer_text or neither, never both.
Message ==
  [value : Choice, text : {Nothing}] \union [value : {Nothing}, text : Text \union {Nothing}]

NoMessage == [value |-> Nothing, text |-> Nothing]

\* user_message
Said(m) ==
  IF m.value # Nothing THEN m.value ELSE IF m.text # Nothing THEN m.text ELSE "other"

Last(d) == IF d.steps = <<>> THEN Nothing ELSE d.steps[Len(d.steps)].step

Recorded(s, m) ==
  [s EXCEPT !.value = IF m.value = Nothing THEN @ ELSE m.value,
            !.text = IF m.text = Nothing THEN @ ELSE m.text]

\* The answer goes to the last question asked.
Kept(d, m) ==
  IF d.steps = <<>> THEN <<>>
  ELSE [d.steps EXCEPT ![Len(d.steps)] = Recorded(@, m)]

Finished(d, res) ==
  [d EXCEPT !.status = "finished", !.ended = TRUE, !.result = res,
            !.ticket = 0]

\* The document process_message makes of its copy.
Answered(d, m) ==
  LET n == NextState(Last(d), Said(m))
      k == [d EXCEPT !.steps = Kept(d, m)]
  IN  CASE n = "ticket_created" -> Finished(k, "ticket")
        [] n = "service_finished" -> Finished(k, "resolved")
        [] OTHER -> IF n = Last(d) THEN k
                    ELSE [k EXCEPT !.steps = Append(@, Ask(n))]

\* _answer_value_for_step: the first answer recorded for a step.
ValuesFor(d, s) ==
  {i \in DOMAIN d.steps : d.steps[i].step = s /\ d.steps[i].value # Nothing}

FirstValue(d, s) ==
  LET I == ValuesFor(d, s) IN
  IF I = {} THEN Nothing ELSE d.steps[CHOOSE i \in I : \A j \in I : i <= j].value

Product(c) == IF c \in {"1", "2", "3"} THEN c ELSE "unknown"

Wanted == [kind : {"access", "feature", "issue"},
           product : {"1", "2", "3", "unknown", "desk"}]

\* Mutant: the option of the new function is taken for the first one.
TakesFirstOption(main, problem) ==
  CASE main = "5" -> [kind |-> "access", product |-> "desk"]
    [] main # "5" /\ problem = "1" -> [kind |-> "feature", product |-> Product(main)]
    [] OTHER -> [kind |-> "issue", product |-> Product(main)]

\* _derive_ticket_payload_from_triage, from the two answers it looks up.
Derived(main, problem) ==
  CASE main = "5" -> [kind |-> "access", product |-> "desk"]
    [] main # "5" /\ problem = "2" -> [kind |-> "feature", product |-> Product(main)]
    [] OTHER -> [kind |-> "issue", product |-> Product(main)]

Payload(d) == Derived(FirstValue(d, "main_menu"), FirstValue(d, "choosing_product_problem"))

NoTicket == [kind |-> "none", product |-> "unknown"]

-----------------------------------------------------------------------------
(* Requests.                                                               *)

RequestPc == {"idle", "insert", "first", "reread", "loaded", "polling",
              "linking", "rating"}

IdleRequest == [pc |-> "idle", message |-> NoMessage, rating |-> Nothing,
                seen |-> Unborn, link |-> 0]

\* Tickets asked for and not inserted yet.
Asked == {r \in Request : opening[r] # NoTicket}

InFlight == {r \in Request : request[r].pc # "idle"}

Become(r, q) == request' = [request EXCEPT ![r] = q]

GoesOn(r, pc) == request' = [request EXCEPT ![r].pc = pc]

Replies(r) == Become(r, IdleRequest)

Begins == raced' = (raced \/ InFlight # {})

\* Mutant: a finished attendance goes on answering.
AnswersAlways(d) == TRUE

Answerable(d) == d.status # "finished"

\* Bound: no message that adds a step beyond MaxSteps.
HasRoom(d, m) == Len(Answered(d, m).steps) <= MaxSteps

\* POST /: nobody knows the new id before the document is complete.
CreateAttendance ==
  /\ attendance.status = "absent"
  /\ InFlight = {}
  /\ attendance' = Started
  /\ UNCHANGED <<request, opening, tickets, closing, raced, lost>>

\* process_message reads the document; a finished one is only reported.
Receive(r) ==
  /\ request[r].pc = "idle"
  /\ Answerable(attendance)
  /\ \E m \in Message :
       /\ HasRoom(attendance, m)
       /\ Become(r, [IdleRequest EXCEPT
                       !.pc = IF attendance.status = "absent" THEN "insert" ELSE "loaded",
                       !.message = m, !.seen = attendance])
  /\ Begins
  /\ UNCHANGED <<attendance, opening, tickets, closing, lost>>

\* A message for an unknown id creates the attendance itself.
Insert(r) ==
  /\ request[r].pc = "insert"
  /\ IF attendance.status = "absent"
     THEN attendance' = Inserted /\ GoesOn(r, "first")
     ELSE UNCHANGED attendance /\ Replies(r)
  /\ UNCHANGED <<opening, tickets, closing, raced, lost>>

SaveFirst(r) ==
  /\ request[r].pc = "first"
  /\ attendance' = Started
  /\ GoesOn(r, "reread")
  /\ UNCHANGED <<opening, tickets, closing, raced, lost>>

Reread(r) ==
  /\ request[r].pc = "reread"
  /\ IF Answerable(attendance) /\ HasRoom(attendance, request[r].message)
     THEN request' = [request EXCEPT ![r].pc = "loaded", ![r].seen = attendance]
     ELSE Replies(r)
  /\ UNCHANGED <<attendance, opening, tickets, closing, raced, lost>>

\* Mutant: nothing is published.
OpensNothing(r, d) == UNCHANGED opening

\* TRIAGE_FINISHED starts the handler of TicketListener.
PublishFinished(r, d) == opening' = [opening EXCEPT ![r] = Payload(d)]

\* The rest of process_message up to its first save, and the event.  A slot of
\* opening whose handler has not run yet holds the request back, a bound like
\* MaxTickets.
AnswerMessage(r) ==
  LET d == Answered(request[r].seen, request[r].message) IN
  /\ request[r].pc = "loaded"
  /\ attendance' = d
  /\ IF d.result = "ticket"
     THEN /\ opening[r] = NoTicket
          /\ Len(tickets) + Cardinality(Asked) < MaxTickets
          /\ PublishFinished(r, d)
          /\ request' = [request EXCEPT ![r].pc = "polling", ![r].seen = d]
     ELSE Replies(r) /\ UNCHANGED opening
  /\ UNCHANGED <<tickets, closing, raced, lost>>

\* The last of up to twenty looks at the newest ticket; the others change nothing.
Poll(r) ==
  /\ request[r].pc = "polling"
  /\ request' = [request EXCEPT ![r].pc = "linking", ![r].link = Len(tickets)]
  /\ UNCHANGED <<attendance, opening, tickets, closing, raced, lost>>

\* The copy saved before the polling is saved again, with the id.
Link(r) ==
  /\ request[r].pc = "linking"
  /\ attendance' = [request[r].seen EXCEPT !.ticket = request[r].link]
  /\ Replies(r)
  /\ UNCHANGED <<opening, tickets, closing, raced, lost>>

CanRate(d) == d.status = "finished" /\ d.rating = Nothing

\* set_evaluation
Evaluate(r) ==
  /\ request[r].pc = "idle"
  /\ CanRate(attendance)
  /\ \E g \in Rating :
       Become(r, [IdleRequest EXCEPT !.pc = "rating", !.rating = g, !.seen = attendance])
  /\ Begins
  /\ UNCHANGED <<attendance, opening, tickets, closing, lost>>

Rate(r) ==
  /\ request[r].pc = "rating"
  /\ attendance' = [request[r].seen EXCEPT !.rating = request[r].rating, !.ended = TRUE]
  /\ Replies(r)
  /\ UNCHANGED <<opening, tickets, closing, raced, lost>>

-----------------------------------------------------------------------------
(* The ticket.                                                             *)

\* TicketListener.on_triage_finished: create_ticket inserts.
OpenTicket(r) ==
  /\ opening[r] # NoTicket
  /\ tickets' = Append(tickets, [wanted |-> opening[r], closed |-> FALSE])
  /\ opening' = [opening EXCEPT ![r] = NoTicket]
  /\ UNCHANGED <<attendance, request, closing, raced, lost>>

\* The desk finishes the ticket and publishes TICKET_CLOSED.
CloseTicket(i) ==
  /\ ~tickets[i].closed
  /\ tickets' = [tickets EXCEPT ![i].closed = TRUE]
  /\ closing' = closing \union {i}
  /\ UNCHANGED <<attendance, request, opening, raced, lost>>

\* ChatbotListener.on_ticket_closed: one conditional update.
FinishPending(i) ==
  /\ i \in closing
  /\ closing' = closing \ {i}
  /\ attendance' = IF attendance.status # "opened" THEN attendance
                   ELSE [attendance EXCEPT !.status = "finished", !.ended = TRUE]
  /\ UNCHANGED <<request, opening, tickets, raced, lost>>

-----------------------------------------------------------------------------
\* An await raises, in a request or in a handler.
RequestFails(r) ==
  /\ Faults
  /\ r \in InFlight
  /\ Replies(r)
  /\ lost' = TRUE
  /\ UNCHANGED <<attendance, opening, tickets, closing, raced>>

OpeningFails(r) ==
  /\ Faults
  /\ opening[r] # NoTicket
  /\ opening' = [opening EXCEPT ![r] = NoTicket]
  /\ lost' = TRUE
  /\ UNCHANGED <<attendance, request, tickets, closing, raced>>

\* The process stops: requests and handlers are gone, the documents stay.
ProcessStops ==
  /\ Faults
  /\ request' = [r \in Request |-> IdleRequest]
  /\ opening' = [r \in Request |-> NoTicket]
  /\ closing' = {}
  /\ lost' = TRUE
  /\ UNCHANGED <<attendance, tickets, raced>>

Continues(r) ==
  \/ Insert(r)
  \/ SaveFirst(r)
  \/ Reread(r)
  \/ AnswerMessage(r)
  \/ Poll(r)
  \/ Link(r)
  \/ Rate(r)

TicketStep(i) == CloseTicket(i) \/ FinishPending(i)

TriageInit ==
  /\ attendance = Unborn
  /\ request = [r \in Request |-> IdleRequest]
  /\ opening = [r \in Request |-> NoTicket]
  /\ tickets = <<>>
  /\ closing = {}
  /\ raced = FALSE /\ lost = FALSE

TriageNext ==
  \/ CreateAttendance
  \/ \E r \in Request : Receive(r) \/ Evaluate(r) \/ Continues(r) \/ OpenTicket(r)
  \/ \E i \in DOMAIN tickets : TicketStep(i)
  \/ \E r \in Request : RequestFails(r) \/ OpeningFails(r)
  \/ ProcessStops

TriageSpec == TriageInit /\ [][TriageNext]_triageVars

-----------------------------------------------------------------------------
(* Properties.                                                             *)

RequestType ==
  [pc : RequestPc, message : Message, rating : Rating \union {Nothing},
   seen : Attendance, link : Nat]

Ticket == [wanted : Wanted, closed : BOOLEAN]

\* Documents, copies, events and tickets have their shape.
TriageTypeOK ==
  /\ attendance \in Attendance
  /\ request \in [Request -> RequestType]
  /\ opening \in [Request -> Wanted \union {NoTicket}]
  /\ tickets \in Seq(Ticket)
  /\ closing \subseteq DOMAIN tickets
  /\ raced \in BOOLEAN /\ lost \in BOOLEAN

\* An answer recorded for the step explains that n came after it; free text
\* ends the menu without one, too.
Explains(s, n) == \E c \in {s.value, s.text} : NextState(s.step, c) = n

Path(d) ==
  /\ d.steps # <<>> => d.steps[1].step = "main_menu"
  /\ \A i \in 1..(Len(d.steps) - 1) : Explains(d.steps[i], d.steps[i + 1].step)
  /\ d.result = "ticket" => Last(d) \in FreeText
  /\ d.result = "resolved" => d.steps # <<>> /\ Explains(d.steps[Len(d.steps)], "service_finished")

\* However messages overlap, fail or cross a closing, the stored path is one
\* the menu allows: it starts at the main menu, every question follows from
\* the answer recorded before it, and the result from the last answer.
PathFollowsMenu == Path(attendance)

Outcome(d) ==
  /\ d.result # "none" \/ d.rating # Nothing => d.status = "finished"
  /\ d.status = "finished" <=> d.ended
  /\ d.ticket # 0 => d.result = "ticket"

\* needs_evaluation and the filters of the attendance list read status, result,
\* end_date and evaluation: they agree, whatever overlapped.
OutcomeCoherent == Outcome(attendance)

\* What a request in flight may save without harm.
Prepared(q) ==
  /\ Path(q.seen) /\ Outcome(q.seen)
  /\ q.pc = "loaded" => q.seen.status # "finished"
  /\ q.pc \in {"polling", "linking"} => q.seen.result = "ticket"
  /\ q.pc = "rating" => q.seen.status = "finished"

\* The inductive invariant behind the two above.
TriageInv ==
  /\ TriageTypeOK
  /\ Path(attendance) /\ Outcome(attendance)
  /\ \A r \in Request : Prepared(request[r])

\* Without overlapping requests one triage opens at most one ticket.
OneTicket ==
  ~raced => Len(tickets) + Cardinality(Asked) <= 1

\* Without overlapping requests what a finished attendance says stays: the
\* path, the result and a rating that was given.
OutcomeStays ==
  [][~raced' /\ attendance.status = "finished" =>
       /\ attendance'.status = "finished"
       /\ attendance'.steps = attendance.steps
       /\ attendance'.result = attendance.result
       /\ attendance.rating # Nothing => attendance'.rating = attendance.rating]_triageVars

\* Unless something failed, a triage that ended with a ticket has one, or its
\* TRIAGE_FINISHED is still being handled: no overlap makes the event vanish.
TicketOnItsWay ==
  attendance.result = "ticket" /\ ~lost => tickets # <<>> \/ Asked # {}

\* The menu was walked by its options alone, and once.
ByOptions(d) ==
  \A i \in 1..(Len(d.steps) - 1) :
    /\ NextState(d.steps[i].step, d.steps[i].value) = d.steps[i + 1].step
    /\ d.steps[i + 1].step # "main_menu"

\* The answer was typed as the menu spells its option.
Exact(s) == Strip(s.value) = s.value

\* Without overlapping requests the ticket asks for what the path asked for, the
\* product chosen first and the kind of the free text that ended it, where the
\* answers were typed as the menu spells them.  A deciding answer with blanks
\* around it walks the same path and asks for an issue, of an unknown product.
TicketMatchesPath ==
  ~raced /\ tickets # <<>> /\ ByOptions(attendance) =>
    LET s == attendance.steps
        chosen == IF Exact(s[1]) THEN s[1].value ELSE "unknown"
    IN  tickets[1].wanted =
          CASE Last(attendance) = "requesting_access" ->
                 IF Exact(s[1]) THEN [kind |-> "access", product |-> "desk"]
                 ELSE [kind |-> "issue", product |-> "unknown"]
            [] Last(attendance) = "waiting_feature_text" ->
                 [kind |-> IF Exact(s[2]) THEN "feature" ELSE "issue", product |-> chosen]
            [] Last(attendance) = "waiting_failure_text" ->
                 [kind |-> "issue", product |-> chosen]
=============================================================================
