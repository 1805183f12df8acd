---------------------------- MODULE TriageProofs ----------------------------
(***************************************************************************)
(* Proofs about Triage: for any number of messages in flight, any answers  *)
(* and any faults, TriageInv is an invariant; PathFollowsMenu and          *)
(* OutcomeCoherent follow from it, and that no event asking for a ticket   *)
(* vanishes.  The second half is about requests that do not overlap: they  *)
(* open one ticket, it asks for what the path asked for (Matched), and the *)
(* outcome stays.                                                          *)
(***************************************************************************)
EXTENDS Triage, SequenceTheorems, FiniteSetTheorems, TLAPS

USE TriageAssumption

-----------------------------------------------------------------------------
(* The menu.                                                               *)

\* No option is called "other", none leads to a ticket at once, and the free
\* texts have none.
LEMMA TargetFacts ==
  ASSUME NEW s, NEW c
  PROVE  /\ Targets(s, c) \subseteq Menu \union {"service_finished"}
         /\ Targets(s, "other") = {}
<1>1. Strip("other") = "other"
  BY TriageAssumption DEF Compared
<1>2. Targets(s, "other") = {}
  BY <1>1 DEF Targets, MenuMap, Informing
<1> QED
  BY <1>2 DEF Targets

\* What process_interaction answers.
LEMMA NextFacts ==
  ASSUME NEW s, NEW c
  PROVE  /\ NextState(s, c) \in Menu \union {"ticket_created", "service_finished"}
         /\ s \notin Menu => NextState(s, c) = "main_menu"
         /\ NextState(s, c) = "ticket_created" => s \in FreeText
         /\ NextState(s, "other") \in {"main_menu", "ticket_created", s}
<1>1. FreeText \subseteq Menu /\ "ticket_created" \notin Menu \union {"service_finished"}
      /\ "main_menu" \in Menu
  BY DEF Menu, FreeText, Informing
<1>2. CASE s \notin Menu
  BY <1>1, <1>2 DEF NextState
<1>3. CASE s \in FreeText
  BY <1>1, <1>3 DEF NextState
<1>4. CASE s \in Menu \ FreeText
  <2>1. NextState(s, "other") = s
    BY <1>4, TargetFacts DEF NextState
  <2>2. NextState(s, c) \in Targets(s, c) \union {s}
    BY <1>4 DEF NextState
  <2> QED
    BY <1>1, <1>4, <2>1, <2>2, TargetFacts
<1> QED
  BY <1>2, <1>3, <1>4

-----------------------------------------------------------------------------
(* One message.                                                            *)

\* Storing an answer changes no question, and nothing before the last one.
LEMMA KeptFacts ==
  ASSUME NEW d \in Attendance, NEW m \in Message
  PROVE  /\ Kept(d, m) \in Seq(Step)
         /\ Len(Kept(d, m)) = Len(d.steps)
         /\ \A i \in 1..Len(d.steps) :
              Kept(d, m)[i] = IF i = Len(d.steps) THEN Recorded(d.steps[i], m)
                              ELSE d.steps[i]
<1>1. d.steps \in Seq(Step)
  BY DEF Attendance
<1>2. CASE d.steps = <<>>
  BY <1>1, <1>2 DEF Kept
<1>3. CASE d.steps # <<>>
  <2>1. Len(d.steps) \in 1..Len(d.steps)
    BY <1>1, <1>3, EmptySeq
  <2>2. d.steps[Len(d.steps)] \in Step
    BY <1>1, <2>1, ElementOfSeq
  <2>3. Recorded(d.steps[Len(d.steps)], m) \in Step
    BY <2>2 DEF Recorded, Step, Message
  <2>4. Kept(d, m) = [d.steps EXCEPT ![Len(d.steps)] = Recorded(d.steps[Len(d.steps)], m)]
    BY <1>3 DEF Kept
  <2> QED
    BY <1>1, <2>1, <2>3, <2>4, ExceptSeq
<1> QED
  BY <1>2, <1>3

\* A message that moves the menu on explains the move by what it records.
LEMMA RecordedExplains ==
  ASSUME NEW s \in Step, NEW m \in Message,
         NextState(s.step, Said(m)) \notin {s.step, "ticket_created"}
  PROVE  Explains(Recorded(s, m), NextState(s.step, Said(m)))
<1>1. s.step \in Menu /\ Recorded(s, m).step = s.step
  BY DEF Step, Recorded
<1>2. CASE m.value # Nothing
  BY <1>1, <1>2 DEF Recorded, Said, Explains, Step
<1>3. CASE m.value = Nothing /\ m.text # Nothing
  BY <1>1, <1>3 DEF Recorded, Said, Explains, Step
<1>4. CASE m.value = Nothing /\ m.text = Nothing
  <2>1. NextState(s.step, "other") \in {"ticket_created", s.step}
    BY <1>1, TargetFacts DEF NextState
  <2> QED
    BY <1>4, <2>1 DEF Said
<1> QED
  BY <1>2, <1>3, <1>4

\* The document with the answer stored is still a path of the menu.
LEMMA KeptPath ==
  ASSUME NEW d \in Attendance, NEW m \in Message, Path(d), d.result = "none"
  PROVE  LET k == [d EXCEPT !.steps = Kept(d, m)] IN
         k \in Attendance /\ Path(k) /\ Last(k) = Last(d)
<1> DEFINE k == [d EXCEPT !.steps = Kept(d, m)]
<1>1. d.steps \in Seq(Step) /\ Len(d.steps) \in Nat
  BY LenProperties DEF Attendance
<1>2. /\ k \in Attendance /\ k.steps = Kept(d, m) /\ k.result = "none"
  BY KeptFacts DEF Attendance
<1>3. /\ Len(k.steps) = Len(d.steps)
      /\ \A i \in 1..Len(d.steps) : k.steps[i].step = d.steps[i].step
      /\ \A i \in 1..(Len(d.steps) - 1) : k.steps[i] = d.steps[i]
  <2>1. \A i \in 1..Len(d.steps) : d.steps[i] \in Step
    BY <1>1, ElementOfSeq
  <2>2. \A i \in 1..Len(d.steps) : Recorded(d.steps[i], m).step = d.steps[i].step
    BY <2>1 DEF Recorded, Step
  <2> QED
    BY <1>1, <1>2, <2>2, KeptFacts
<1>4. k.steps = <<>> <=> d.steps = <<>>
  BY <1>1, <1>2, <1>3, KeptFacts, EmptySeq
<1>5. d.steps # <<>> => 1 \in 1..Len(d.steps) /\ Len(d.steps) \in 1..Len(d.steps)
  BY <1>1, EmptySeq
<1>6. Path(k)
  <2>1. k.steps # <<>> => k.steps[1].step = "main_menu"
    BY <1>3, <1>4, <1>5 DEF Path
  <2>2. ASSUME NEW i \in 1..(Len(k.steps) - 1)
        PROVE  Explains(k.steps[i], k.steps[i + 1].step)
    <3>1. i \in 1..(Len(d.steps) - 1) /\ i + 1 \in 1..Len(d.steps)
      BY <1>1, <1>3
    <3> QED
      BY <1>3, <3>1 DEF Path
  <2> QED
    BY <1>2, <2>1, <2>2 DEF Path
<1>7. Last(k) = Last(d)
  BY <1>3, <1>4, <1>5 DEF Last
<1> QED
  BY <1>2, <1>6, <1>7

\* What process_message makes of a document that is not finished.
LEMMA AnsweredFacts ==
  ASSUME NEW d \in Attendance, NEW m \in Message,
         Path(d), Outcome(d), d.status # "finished"
  PROVE  LET e == Answered(d, m) IN
         /\ e \in Attendance /\ Path(e) /\ Outcome(e)
         /\ e.result = "ticket" => e.status = "finished"
<1> DEFINE k == [d EXCEPT !.steps = Kept(d, m)]
           n == NextState(Last(d), Said(m))
<1>1. /\ d.result = "none" /\ d.rating = Nothing /\ ~d.ended /\ d.ticket = 0
      /\ d.status \in {"absent", "opened"}
  BY DEF Outcome, Attendance
<1>2. k \in Attendance /\ Path(k) /\ Last(k) = Last(d)
  BY <1>1, KeptPath
<1>3. k.steps = Kept(d, m) /\ k.result = "none" /\ k.rating = Nothing
      /\ ~k.ended /\ k.ticket = 0 /\ k.status = d.status
  BY <1>1 DEF Attendance
<1>4. Outcome(k)
  BY <1>1, <1>3 DEF Outcome
<1>5. d.steps \in Seq(Step) /\ Len(d.steps) \in Nat /\ k.steps \in Seq(Step)
      /\ Len(k.steps) = Len(d.steps)
  BY <1>2, <1>3, LenProperties, KeptFacts DEF Attendance
<1>6. ASSUME n # "ticket_created", n # Last(d), d.steps # <<>>
      PROVE  /\ Len(k.steps) \in 1..Len(k.steps)
             /\ Explains(k.steps[Len(k.steps)], n)
  <2>1. Len(d.steps) \in 1..Len(d.steps)
    BY <1>5, <1>6, EmptySeq
  <2>2. d.steps[Len(d.steps)] \in Step /\ Last(d) = d.steps[Len(d.steps)].step
    BY <1>5, <1>6, <2>1, ElementOfSeq DEF Last
  <2>3. k.steps[Len(k.steps)] = Recorded(d.steps[Len(d.steps)], m)
    BY <1>3, <1>5, <2>1, KeptFacts
  <2> QED
    BY <1>5, <1>6, <2>1, <2>2, <2>3, RecordedExplains
<1>7. d.steps = <<>> => Last(d) = Nothing /\ n = "main_menu"
  BY NextFacts DEF Last
<1>8. CASE n = "ticket_created"
  <2>1. Last(d) \in FreeText
    BY <1>8, NextFacts
  <2> DEFINE e == Finished(k, "ticket")
  <2>2. Answered(d, m) = e
    BY <1>8 DEF Answered
  <2>3. /\ e \in Attendance /\ e.steps = k.steps /\ e.result = "ticket"
        /\ e.status = "finished" /\ e.ended /\ e.ticket = 0 /\ e.rating = Nothing
    BY <1>2, <1>3 DEF Finished, Attendance
  <2>4. Path(e)
    BY <1>2, <2>1, <2>3 DEF Path, Last
  <2>5. Outcome(e)
    BY <2>3 DEF Outcome
  <2> QED
    BY <2>2, <2>3, <2>4, <2>5
<1>9. CASE n = "service_finished"
  <2>1. d.steps # <<>>
    BY <1>7, <1>9
  <2>2. Last(d) \in Menu
    <3>1. Len(d.steps) \in 1..Len(d.steps)
      BY <1>5, <2>1, EmptySeq
    <3>2. d.steps[Len(d.steps)] \in Step
      BY <1>5, <3>1, ElementOfSeq
    <3> QED
      BY <2>1, <3>2 DEF Last, Step
  <2>3. Explains(k.steps[Len(k.steps)], "service_finished") /\ k.steps # <<>>
    BY <1>5, <1>6, <1>9, <2>1, <2>2, EmptySeq DEF Menu, Informing, FreeText
  <2> DEFINE e == Finished(k, "resolved")
  <2>4. Answered(d, m) = e
    BY <1>9 DEF Answered
  <2>5. /\ e \in Attendance /\ e.steps = k.steps /\ e.result = "resolved"
        /\ e.status = "finished" /\ e.ended /\ e.ticket = 0 /\ e.rating = Nothing
    BY <1>2, <1>3 DEF Finished, Attendance
  <2>6. Path(e)
    BY <1>2, <2>3, <2>5 DEF Path
  <2>7. Outcome(e)
    BY <2>5 DEF Outcome
  <2> QED
    BY <2>4, <2>5, <2>6, <2>7
<1>10. CASE n \notin {"ticket_created", "service_finished"} /\ n = Last(d)
  <2>1. Answered(d, m) = k
    BY <1>10 DEF Answered
  <2> QED
    BY <1>2, <1>3, <1>4, <2>1
<1>11. CASE n \notin {"ticket_created", "service_finished"} /\ n # Last(d)
  <2> DEFINE e == [k EXCEPT !.steps = Append(@, Ask(n))]
  <2>1. Answered(d, m) = e
    BY <1>11 DEF Answered
  <2>2. n \in Menu /\ Ask(n) \in Step /\ Ask(n).step = n
    BY <1>11, NextFacts DEF Ask, Step
  <2>3. /\ e \in Attendance /\ e.steps = Append(k.steps, Ask(n))
        /\ e.result = "none" /\ e.status = k.status
    BY <1>2, <1>3, <1>5, <2>2, AppendProperties DEF Attendance
  <2>4. Outcome(e)
    BY <1>2, <1>3, <1>4 DEF Outcome, Attendance
  <2>5. /\ Len(e.steps) = Len(k.steps) + 1
        /\ \A i \in 1..Len(k.steps) : e.steps[i] = k.steps[i]
        /\ e.steps[Len(k.steps) + 1] = Ask(n)
    BY <1>5, <2>2, <2>3, AppendProperties
  <2>6. e.steps[1].step = "main_menu"
    <3>1. CASE d.steps = <<>>
      BY <1>5, <1>7, <2>2, <2>5, <3>1, EmptySeq
    <3>2. CASE d.steps # <<>>
      <4>1. 1 \in 1..Len(k.steps) /\ k.steps # <<>>
        BY <1>5, <3>2, EmptySeq
      <4> QED
        BY <1>2, <2>5, <4>1 DEF Path
    <3> QED
      BY <3>1, <3>2
  <2>7. ASSUME NEW i \in 1..(Len(e.steps) - 1)
        PROVE  Explains(e.steps[i], e.steps[i + 1].step)
    <3>1. i \in 1..Len(k.steps) /\ i \in Nat
      BY <1>5, <2>5
    <3>2. CASE i = Len(k.steps)
      <4>1. d.steps # <<>>
        BY <1>5, <3>1, EmptySeq
      <4>2. Explains(k.steps[Len(k.steps)], n)
        BY <1>6, <1>11, <4>1
      <4> QED
        BY <2>2, <2>5, <3>1, <3>2, <4>2
    <3>3. CASE i # Len(k.steps)
      <4>1. i \in 1..(Len(k.steps) - 1) /\ i + 1 \in 1..Len(k.steps)
        BY <1>5, <3>1, <3>3
      <4> QED
        BY <1>2, <2>5, <4>1 DEF Path
    <3> QED
      BY <3>2, <3>3
  <2>8. Path(e)
    BY <2>3, <2>6, <2>7 DEF Path
  <2> QED
    BY <2>1, <2>3, <2>4, <2>8
<1> QED
  BY <1>8, <1>9, <1>10, <1>11

-----------------------------------------------------------------------------
(* The invariant.                                                          *)

\* The part of the state that the documents do not read back.
Surroundings ==
  /\ opening \in [Request -> Wanted \union {NoTicket}]
  /\ tickets \in Seq(Ticket)
  /\ closing \subseteq DOMAIN tickets
  /\ raced \in BOOLEAN /\ lost \in BOOLEAN

\* A document and the copy of a request that are sound.
Sound(d) == d \in Attendance /\ Path(d) /\ Outcome(d)

SoundRequest(q) == q \in RequestType /\ Prepared(q)

LEMMA InvParts ==
  TriageInv <=> /\ Surroundings /\ Sound(attendance)
                /\ request \in [Request -> RequestType]
                /\ \A r \in Request : SoundRequest(request[r])
  BY DEF TriageInv, TriageTypeOK, Surroundings, Sound, SoundRequest

\* The documents that are written without looking at one, and an idle request.
LEMMA FreshFacts ==
  Sound(Unborn) /\ Sound(Inserted) /\ Sound(Started) /\ SoundRequest(IdleRequest)
<1>1. /\ Unborn \in Attendance /\ Unborn.steps = <<>> /\ Unborn.result = "none"
      /\ Unborn.status = "absent" /\ ~Unborn.ended /\ Unborn.rating = Nothing
      /\ Unborn.ticket = 0
  BY EmptySeq DEF Unborn, Attendance
<1>2. /\ Inserted \in Attendance /\ Inserted.steps = <<>> /\ Inserted.result = "none"
      /\ Inserted.status = "opened" /\ ~Inserted.ended /\ Inserted.rating = Nothing
      /\ Inserted.ticket = 0
  BY <1>1 DEF Inserted, Attendance
<1>3. "main_menu" \in Menu /\ Ask("main_menu") \in Step /\ Ask("main_menu").step = "main_menu"
  BY DEF Menu, Informing, FreeText, Ask, Step
<1>4. /\ <<Ask("main_menu")>> \in Seq(Step) /\ Len(<<Ask("main_menu")>>) = 1
      /\ <<Ask("main_menu")>>[1] = Ask("main_menu")
  BY <1>3
<1>5. /\ Started \in Attendance /\ Started.steps = <<Ask("main_menu")>>
      /\ Started.result = "none" /\ Started.status = "opened" /\ ~Started.ended
      /\ Started.rating = Nothing /\ Started.ticket = 0
  BY <1>2, <1>4 DEF Started, Attendance
<1>6. Sound(Unborn)
  BY <1>1, EmptySeq DEF Sound, Path, Outcome
<1>7. Sound(Inserted)
  BY <1>2, EmptySeq DEF Sound, Path, Outcome
<1>8. Sound(Started)
  BY <1>3, <1>4, <1>5 DEF Sound, Path, Outcome
<1>9. SoundRequest(IdleRequest)
  <2>1. NoMessage \in Message
    BY DEF NoMessage, Message
  <2>2. /\ IdleRequest \in RequestType /\ IdleRequest.seen = Unborn
        /\ IdleRequest.pc = "idle"
    BY <1>1, <2>1 DEF IdleRequest, RequestType, RequestPc
  <2> QED
    BY <1>6, <2>2 DEF SoundRequest, Prepared, Sound
<1> QED
  BY <1>6, <1>7, <1>8, <1>9

LEMMA TriageInitially == TriageInit => TriageInv
<1> SUFFICES ASSUME TriageInit PROVE TriageInv
  OBVIOUS
<1>1. Surroundings
  BY EmptySeq DEF TriageInit, Surroundings
<1>2. Sound(attendance) /\ \A r \in Request : SoundRequest(request[r])
  BY FreshFacts DEF TriageInit
<1>3. request \in [Request -> RequestType]
  BY FreshFacts DEF TriageInit, SoundRequest
<1> QED
  BY <1>1, <1>2, <1>3, InvParts

\* A step that writes a sound document and moves one request to a sound record
\* keeps the invariant.
LEMMA OneRequest ==
  ASSUME TriageInv, NEW r \in Request, NEW q, SoundRequest(q), Become(r, q),
         Sound(attendance'), Surroundings'
  PROVE  TriageInv'
<1>1. request \in [Request -> RequestType] /\ \A p \in Request : SoundRequest(request[p])
  BY InvParts
<1>2. request' \in [Request -> RequestType]
      /\ \A p \in Request : request'[p] = IF p = r THEN q ELSE request[p]
  BY <1>1 DEF Become, SoundRequest
<1>3. \A p \in Request : SoundRequest(request'[p])
  BY <1>1, <1>2
<1> QED
  BY <1>2, <1>3 DEF TriageInv, TriageTypeOK, Surroundings, Sound, SoundRequest

\* What the ticket of a triage says is well formed.
LEMMA PayloadType == ASSUME NEW d PROVE Payload(d) \in Wanted /\ Payload(d) # NoTicket
<1>1. \A c : Product(c) \in {"1", "2", "3", "unknown"}
  BY DEF Product
<1>2. ASSUME NEW a, NEW b
      PROVE  Derived(a, b) \in Wanted /\ Derived(a, b) # NoTicket
  <2>1. CASE a = "5"
    BY <2>1 DEF Derived, Wanted, NoTicket
  <2>2. CASE a # "5" /\ b = "2"
    BY <1>1, <2>2 DEF Derived, Wanted, NoTicket
  <2>3. CASE a # "5" /\ b # "2"
    BY <1>1, <2>3 DEF Derived, Wanted, NoTicket
  <2> QED
    BY <2>1, <2>2, <2>3
<1> QED
  BY <1>2 DEF Payload

\* Every action keeps the invariant.
LEMMA TriageKeeps == TriageInv /\ [TriageNext]_triageVars => TriageInv'
<1> SUFFICES ASSUME TriageInv, [TriageNext]_triageVars PROVE TriageInv'
  OBVIOUS
<1>1. /\ Surroundings /\ Sound(attendance)
      /\ request \in [Request -> RequestType]
      /\ \A r \in Request : SoundRequest(request[r])
  BY InvParts
<1>2. CASE CreateAttendance
  <2>1. Sound(attendance') /\ Surroundings'
    BY <1>1, <1>2, FreshFacts DEF CreateAttendance, Surroundings
  <2> QED
    BY <1>1, <1>2, <2>1
       DEF CreateAttendance, TriageInv, TriageTypeOK, Surroundings, Sound, SoundRequest
<1>3. ASSUME NEW r \in Request, Receive(r) PROVE TriageInv'
  <2>1. PICK m \in Message :
          Become(r, [IdleRequest EXCEPT
                       !.pc = IF attendance.status = "absent" THEN "insert" ELSE "loaded",
                       !.message = m, !.seen = attendance])
    BY <1>3 DEF Receive
  <2> DEFINE q == [IdleRequest EXCEPT
                     !.pc = IF attendance.status = "absent" THEN "insert" ELSE "loaded",
                     !.message = m, !.seen = attendance]
  <2>2. /\ q \in RequestType /\ q.seen = attendance
        /\ q.pc \in {"insert", "loaded"}
    BY <1>1, FreshFacts DEF SoundRequest, Sound, RequestType, RequestPc, IdleRequest
  <2>3. SoundRequest(q)
    BY <1>1, <1>3, <2>2 DEF SoundRequest, Sound, Prepared, Receive, Answerable
  <2>4. Sound(attendance') /\ Surroundings'
    BY <1>1, <1>3 DEF Receive, Begins, Surroundings
  <2> QED
    BY <2>1, <2>3, <2>4, OneRequest
<1>4. ASSUME NEW r \in Request, Evaluate(r) PROVE TriageInv'
  <2>1. PICK g \in Rating :
          Become(r, [IdleRequest EXCEPT !.pc = "rating", !.rating = g, !.seen = attendance])
    BY <1>4 DEF Evaluate
  <2> DEFINE q == [IdleRequest EXCEPT !.pc = "rating", !.rating = g, !.seen = attendance]
  <2>2. q \in RequestType /\ q.seen = attendance /\ q.pc = "rating"
    BY <1>1, FreshFacts DEF SoundRequest, Sound, RequestType, RequestPc, IdleRequest
  <2>3. SoundRequest(q)
    BY <1>1, <1>4, <2>2 DEF SoundRequest, Sound, Prepared, Evaluate, CanRate
  <2>4. Sound(attendance') /\ Surroundings'
    BY <1>1, <1>4 DEF Evaluate, Begins, Surroundings
  <2> QED
    BY <2>1, <2>3, <2>4, OneRequest
<1>5. ASSUME NEW r \in Request, Continues(r) PROVE TriageInv'
  <2>1. /\ request[r] \in RequestType /\ Prepared(request[r])
        /\ Sound(request[r].seen)
    BY <1>1 DEF SoundRequest, Sound, Prepared, RequestType
  <2>2. CASE Insert(r)
    <3>1. Sound(attendance') /\ Surroundings'
      BY <1>1, <2>2, FreshFacts DEF Insert, Surroundings
    <3>2. CASE Replies(r)
      BY <3>1, <3>2, FreshFacts, OneRequest DEF Replies
    <3>3. CASE GoesOn(r, "first")
      <4>1. SoundRequest([request[r] EXCEPT !.pc = "first"])
        BY <2>1 DEF SoundRequest, Prepared, RequestType, RequestPc
      <4>2. Become(r, [request[r] EXCEPT !.pc = "first"])
        BY <3>3 DEF GoesOn, Become
      <4> QED
        BY <3>1, <4>1, <4>2, OneRequest
    <3> QED
      BY <2>2, <3>2, <3>3 DEF Insert
  <2>3. CASE SaveFirst(r)
    <3>1. Sound(attendance') /\ Surroundings'
      BY <1>1, <2>3, FreshFacts DEF SaveFirst, Surroundings
    <3>2. SoundRequest([request[r] EXCEPT !.pc = "reread"])
      BY <2>1 DEF SoundRequest, Prepared, RequestType, RequestPc
    <3>3. Become(r, [request[r] EXCEPT !.pc = "reread"])
      BY <2>3 DEF SaveFirst, GoesOn, Become
    <3> QED
      BY <3>1, <3>2, <3>3, OneRequest
  <2>4. CASE Reread(r)
    <3>1. Sound(attendance') /\ Surroundings'
      BY <1>1, <2>4 DEF Reread, Surroundings
    <3>2. CASE Replies(r)
      BY <3>1, <3>2, FreshFacts, OneRequest DEF Replies
    <3>3. CASE ~Replies(r)
      <4> DEFINE q == [request[r] EXCEPT !.pc = "loaded", !.seen = attendance]
      <4>1. Become(r, q) /\ Answerable(attendance)
        BY <1>1, <2>4, <3>3 DEF Reread, Become
      <4>2. q \in RequestType /\ q.seen = attendance /\ q.pc = "loaded"
        BY <1>1, <2>1 DEF Sound, RequestType, RequestPc
      <4>3. SoundRequest(q)
        BY <1>1, <4>1, <4>2 DEF SoundRequest, Sound, Prepared, Answerable
      <4> QED
        BY <3>1, <4>1, <4>3, OneRequest
    <3> QED
      BY <3>2, <3>3
  <2>5. CASE AnswerMessage(r)
    <3> DEFINE d == Answered(request[r].seen, request[r].message)
    <3>1. request[r].message \in Message /\ request[r].seen.status # "finished"
      BY <2>1, <2>5 DEF AnswerMessage, RequestType, Prepared
    <3>2. Sound(d) /\ attendance' = d /\ (d.result = "ticket" => d.status = "finished")
      BY <2>1, <2>5, <3>1, AnsweredFacts DEF Sound, AnswerMessage
    <3>3. Surroundings'
      BY <1>1, <2>5, PayloadType DEF AnswerMessage, PublishFinished, Surroundings
    <3>4. CASE d.result # "ticket"
      <4>1. Replies(r)
        BY <2>5, <3>4 DEF AnswerMessage
      <4> QED
        BY <3>2, <3>3, <4>1, FreshFacts, OneRequest DEF Replies
    <3>5. CASE d.result = "ticket"
      <4> DEFINE q == [request[r] EXCEPT !.pc = "polling", !.seen = d]
      <4>1. Become(r, q)
        BY <1>1, <2>5, <3>5 DEF AnswerMessage, Become
      <4>2. q \in RequestType /\ q.seen = d /\ q.pc = "polling"
        BY <2>1, <3>2 DEF Sound, RequestType, RequestPc
      <4>3. SoundRequest(q)
        BY <3>2, <3>5, <4>2 DEF SoundRequest, Sound, Prepared
      <4> QED
        BY <3>2, <3>3, <4>1, <4>3, OneRequest
    <3> QED
      BY <3>4, <3>5
  <2>6. CASE Poll(r)
    <3> DEFINE q == [request[r] EXCEPT !.pc = "linking", !.link = Len(tickets)]
    <3>1. Sound(attendance') /\ Surroundings'
      BY <1>1, <2>6 DEF Poll, Surroundings
    <3>2. Len(tickets) \in Nat
      BY <1>1, LenProperties DEF Surroundings
    <3>3. SoundRequest(q)
      BY <2>1, <2>6, <3>2 DEF Poll, SoundRequest, Prepared, RequestType, RequestPc
    <3>4. Become(r, q)
      BY <1>1, <2>6 DEF Poll, Become
    <3> QED
      BY <3>1, <3>3, <3>4, OneRequest
  <2>7. CASE Link(r)
    <3> DEFINE e == [request[r].seen EXCEPT !.ticket = request[r].link]
    <3>1. request[r].seen.result = "ticket" /\ request[r].link \in Nat
      BY <2>1, <2>7 DEF Link, Prepared, RequestType
    <3>2. /\ e \in Attendance /\ e.steps = request[r].seen.steps
          /\ e.result = "ticket" /\ e.status = request[r].seen.status
          /\ e.ended = request[r].seen.ended
      BY <2>1, <3>1 DEF Sound, Attendance
    <3>3. Sound(e)
      BY <2>1, <3>1, <3>2 DEF Sound, Path, Outcome, Last
    <3>4. Sound(attendance') /\ Surroundings' /\ Replies(r)
      BY <1>1, <2>7, <3>3 DEF Link, Surroundings
    <3> QED
      BY <3>4, FreshFacts, OneRequest DEF Replies
  <2>8. CASE Rate(r)
    <3> DEFINE e == [request[r].seen EXCEPT !.rating = request[r].rating, !.ended = TRUE]
    <3>1. request[r].seen.status = "finished" /\ request[r].rating \in Rating \union {Nothing}
      BY <2>1, <2>8 DEF Rate, Prepared, RequestType
    <3>2. /\ e \in Attendance /\ e.steps = request[r].seen.steps /\ e.ended
          /\ e.result = request[r].seen.result /\ e.status = "finished"
          /\ e.ticket = request[r].seen.ticket
      BY <2>1, <3>1 DEF Sound, Attendance
    <3>3. Sound(e)
      BY <2>1, <3>1, <3>2 DEF Sound, Path, Outcome, Last
    <3>4. Sound(attendance') /\ Surroundings' /\ Replies(r)
      BY <1>1, <2>8, <3>3 DEF Rate, Surroundings
    <3> QED
      BY <3>4, FreshFacts, OneRequest DEF Replies
  <2> QED
    BY <1>5, <2>2, <2>3, <2>4, <2>5, <2>6, <2>7, <2>8 DEF Continues
<1>6. ASSUME UNCHANGED <<attendance, request>>, Surroundings' PROVE TriageInv'
  BY <1>1, <1>6 DEF TriageInv, TriageTypeOK, Surroundings, Sound, SoundRequest
<1>7. ASSUME NEW r \in Request, OpenTicket(r) PROVE TriageInv'
  <2> DEFINE t == [wanted |-> opening[r], closed |-> FALSE]
  <2>1. t \in Ticket
    BY <1>1, <1>7 DEF OpenTicket, Ticket, Surroundings
  <2>2. /\ tickets' \in Seq(Ticket) /\ DOMAIN tickets \subseteq DOMAIN tickets'
    <3>1. tickets' = Append(tickets, t) /\ tickets \in Seq(Ticket)
      BY <1>1, <1>7 DEF OpenTicket, Surroundings
    <3> QED
      BY <2>1, <3>1, AppendProperties, LenProperties
  <2>3. Surroundings' /\ UNCHANGED <<attendance, request>>
    BY <1>1, <1>7, <2>2 DEF OpenTicket, Surroundings
  <2> QED
    BY <1>6, <2>3
<1>8. ASSUME NEW i \in DOMAIN tickets, TicketStep(i) PROVE TriageInv'
  <2>1. CASE CloseTicket(i)
    <3>1. tickets \in Seq(Ticket) /\ DOMAIN tickets = 1..Len(tickets) /\ tickets[i] \in Ticket
      BY <1>1, LenProperties, ElementOfSeq DEF Surroundings
    <3>2. [tickets[i] EXCEPT !.closed = TRUE] \in Ticket
      BY <3>1 DEF Ticket
    <3>3. tickets' = [tickets EXCEPT ![i] = [tickets[i] EXCEPT !.closed = TRUE]]
      BY <2>1, <3>1 DEF CloseTicket
    <3>4. tickets' \in Seq(Ticket) /\ DOMAIN tickets' = DOMAIN tickets
      BY <3>1, <3>2, <3>3, ExceptSeq
    <3>5. Surroundings' /\ UNCHANGED <<attendance, request>>
      BY <1>1, <2>1, <3>4 DEF CloseTicket, Surroundings
    <3> QED
      BY <1>6, <3>5
  <2>2. CASE FinishPending(i)
    <3> DEFINE e == [attendance EXCEPT !.status = "finished", !.ended = TRUE]
    <3>1. /\ e \in Attendance /\ e.steps = attendance.steps /\ e.ended
          /\ e.result = attendance.result /\ e.status = "finished"
          /\ e.ticket = attendance.ticket
      BY <1>1 DEF Sound, Attendance
    <3>2. Sound(e)
      BY <1>1, <3>1 DEF Sound, Path, Outcome, Last
    <3>3. Sound(attendance') /\ Surroundings' /\ UNCHANGED request
      BY <1>1, <2>2, <3>2 DEF FinishPending, Surroundings
    <3> QED
      BY <1>1, <3>3 DEF TriageInv, TriageTypeOK, Surroundings, Sound, SoundRequest
  <2> QED
    BY <1>8, <2>1, <2>2 DEF TicketStep
<1>9. ASSUME NEW r \in Request, RequestFails(r) \/ OpeningFails(r) PROVE TriageInv'
  <2>1. CASE RequestFails(r)
    <3>1. Sound(attendance') /\ Surroundings' /\ Replies(r)
      BY <1>1, <2>1 DEF RequestFails, Surroundings
    <3> QED
      BY <3>1, FreshFacts, OneRequest DEF Replies
  <2>2. CASE OpeningFails(r)
    <3>1. Surroundings' /\ UNCHANGED <<attendance, request>>
      BY <1>1, <2>2 DEF OpeningFails, Surroundings
    <3> QED
      BY <1>6, <3>1
  <2> QED
    BY <1>9, <2>1, <2>2
<1>10. CASE ProcessStops
  <2>1. Surroundings' /\ Sound(attendance')
    BY <1>1, <1>10 DEF ProcessStops, Surroundings
  <2>2. /\ request' \in [Request -> RequestType]
        /\ \A r \in Request : SoundRequest(request'[r])
    BY <1>10, FreshFacts DEF ProcessStops, SoundRequest
  <2> QED
    BY <2>1, <2>2 DEF TriageInv, TriageTypeOK, Surroundings, Sound, SoundRequest
<1>11. CASE UNCHANGED triageVars
  <2>1. Surroundings' /\ UNCHANGED <<attendance, request>>
    BY <1>1, <1>11 DEF triageVars, Surroundings
  <2> QED
    BY <1>6, <2>1
<1> QED
  BY <1>2, <1>3, <1>4, <1>5, <1>7, <1>8, <1>9, <1>10, <1>11 DEF TriageNext

\* Documents, and the copies requests in flight may save, are paths the menu
\* allows with a coherent outcome.
THEOREM TriageInvariant == TriageSpec => []TriageInv
  BY TriageInitially, TriageKeeps, PTL DEF TriageSpec

\* Documents, copies, events and tickets have their shape.
THEOREM TriageTypes == TriageSpec => []TriageTypeOK
<1>1. TriageInv => TriageTypeOK
  BY DEF TriageInv
<1> QED
  BY <1>1, TriageInvariant, PTL

\* However messages overlap or fail, the stored path is one the menu allows.
THEOREM MenuFollowed == TriageSpec => []PathFollowsMenu
<1>1. TriageInv => PathFollowsMenu
  BY DEF TriageInv, PathFollowsMenu
<1> QED
  BY <1>1, TriageInvariant, PTL

\* Status, result, rating and end date of the document agree.
THEOREM OutcomeAgrees == TriageSpec => []OutcomeCoherent
<1>1. TriageInv => OutcomeCoherent
  BY DEF TriageInv, OutcomeCoherent
<1> QED
  BY <1>1, TriageInvariant, PTL

-----------------------------------------------------------------------------
(* The event that asks for the ticket.                                     *)

\* No document that says "ticket", stored or held, is without a ticket or an
\* event on its way, unless something failed.
EventFollows ==
  \/ lost \/ tickets # <<>> \/ Asked # {}
  \/ /\ attendance.result # "ticket"
     /\ \A r \in Request : request[r].seen.result # "ticket"

\* The documents written without looking at one name no result.
LEMMA FreshResults ==
  /\ Started.result = "none" /\ Inserted.result = "none"
  /\ IdleRequest.seen.result = "none"
  BY DEF Started, Inserted, Unborn, IdleRequest

LEMMA EventKeeps ==
  TriageInv /\ EventFollows /\ [TriageNext]_triageVars => EventFollows'
<1> SUFFICES ASSUME TriageInv, EventFollows, [TriageNext]_triageVars,
                    ~lost', tickets' = <<>>, Asked' = {}
             PROVE  /\ attendance'.result # "ticket"
                    /\ \A p \in Request : request'[p].seen.result # "ticket"
  BY DEF EventFollows
<1>1. /\ attendance \in Attendance /\ request \in [Request -> RequestType]
      /\ opening \in [Request -> Wanted \union {NoTicket}]
      /\ tickets \in Seq(Ticket) /\ lost \in BOOLEAN
  BY DEF TriageInv, TriageTypeOK
<1> DEFINE Quiet == /\ tickets = <<>> /\ Asked = {}
                    /\ attendance.result # "ticket"
                    /\ \A p \in Request : request[p].seen.result # "ticket"
<1>2. ~lost /\ tickets = <<>> /\ Asked = {} => Quiet
  BY DEF EventFollows
<1>3. ASSUME NEW r \in Request, NEW q, Become(r, q), Quiet, q.seen.result # "ticket"
      PROVE  \A p \in Request : request'[p].seen.result # "ticket"
  BY <1>1, <1>3 DEF Become
<1>4. CASE CreateAttendance
  BY <1>2, <1>4, FreshResults DEF CreateAttendance, Asked
<1>5. ASSUME NEW r \in Request, Receive(r)
      PROVE  /\ attendance'.result # "ticket"
             /\ \A p \in Request : request'[p].seen.result # "ticket"
  <2>1. Quiet /\ UNCHANGED attendance
    BY <1>2, <1>5 DEF Receive, Asked
  <2>2. PICK m \in Message :
          Become(r, [IdleRequest EXCEPT
                       !.pc = IF attendance.status = "absent" THEN "insert" ELSE "loaded",
                       !.message = m, !.seen = attendance])
    BY <1>5 DEF Receive
  <2> QED
    BY <1>3, <2>1, <2>2 DEF IdleRequest
<1>6. ASSUME NEW r \in Request, Evaluate(r)
      PROVE  /\ attendance'.result # "ticket"
             /\ \A p \in Request : request'[p].seen.result # "ticket"
  <2>1. Quiet /\ UNCHANGED attendance
    BY <1>2, <1>6 DEF Evaluate, Asked
  <2>2. PICK g \in Rating :
          Become(r, [IdleRequest EXCEPT !.pc = "rating", !.rating = g, !.seen = attendance])
    BY <1>6 DEF Evaluate
  <2> QED
    BY <1>3, <2>1, <2>2 DEF IdleRequest
<1>7. ASSUME NEW r \in Request, AnswerMessage(r)
      PROVE  /\ attendance'.result # "ticket"
             /\ \A p \in Request : request'[p].seen.result # "ticket"
  <2> DEFINE d == Answered(request[r].seen, request[r].message)
  <2>1. d.result # "ticket"
    <3>1. SUFFICES ASSUME d.result = "ticket" PROVE FALSE
      OBVIOUS
    <3>2. opening'[r] # NoTicket
      BY <1>1, <1>7, <3>1, PayloadType DEF AnswerMessage, PublishFinished
    <3> QED
      BY <3>2 DEF Asked
  <2>2. Replies(r) /\ UNCHANGED <<opening, tickets, lost>> /\ attendance' = d
    BY <1>7, <2>1 DEF AnswerMessage
  <2>3. Quiet
    BY <1>2, <2>2 DEF Asked
  <2> QED
    BY <1>3, <2>1, <2>2, <2>3, FreshResults DEF Replies
<1>8. ASSUME NEW r \in Request,
             Insert(r) \/ SaveFirst(r) \/ Reread(r) \/ Poll(r) \/ Link(r) \/ Rate(r)
      PROVE  /\ attendance'.result # "ticket"
             /\ \A p \in Request : request'[p].seen.result # "ticket"
  <2>1. Quiet
    BY <1>2, <1>8 DEF Insert, SaveFirst, Reread, Poll, Link, Rate, Asked
  <2>2. request[r] \in RequestType /\ request[r].seen \in Attendance
    BY <1>1 DEF RequestType
  <2>3. attendance'.result # "ticket"
    BY <1>1, <1>8, <2>1, <2>2, FreshResults
       DEF Insert, SaveFirst, Reread, Poll, Link, Rate, Attendance
  <2>4. CASE Replies(r)
    BY <1>3, <2>1, <2>3, <2>4, FreshResults DEF Replies
  <2>5. ASSUME NEW pc, GoesOn(r, pc)
        PROVE  \A p \in Request : request'[p].seen.result # "ticket"
    <3>1. Become(r, [request[r] EXCEPT !.pc = pc])
      BY <2>5 DEF GoesOn, Become
    <3>2. [request[r] EXCEPT !.pc = pc].seen = request[r].seen
      BY <2>2 DEF RequestType
    <3> QED
      BY <1>3, <2>1, <3>1, <3>2
  <2>6. CASE Reread(r) /\ ~Replies(r)
    <3>1. Become(r, [request[r] EXCEPT !.pc = "loaded", !.seen = attendance])
      BY <1>1, <2>6 DEF Reread, Become
    <3>2. [request[r] EXCEPT !.pc = "loaded", !.seen = attendance].seen = attendance
      BY <2>2 DEF RequestType
    <3> QED
      BY <1>3, <2>1, <2>3, <3>1, <3>2
  <2>7. CASE Poll(r)
    <3>1. Become(r, [request[r] EXCEPT !.pc = "linking", !.link = Len(tickets)])
      BY <1>1, <2>7 DEF Poll, Become
    <3>2. [request[r] EXCEPT !.pc = "linking", !.link = Len(tickets)].seen = request[r].seen
      BY <2>2 DEF RequestType
    <3> QED
      BY <1>3, <2>1, <2>3, <3>1, <3>2
  <2> QED
    BY <1>8, <2>3, <2>4, <2>5, <2>6, <2>7 DEF Insert, SaveFirst, Link, Rate
<1>9. ASSUME NEW r \in Request, OpenTicket(r) PROVE FALSE
  BY <1>1, <1>9, AppendProperties, EmptySeq DEF OpenTicket
<1>10. ASSUME NEW i \in DOMAIN tickets, TicketStep(i) PROVE FALSE
  <2>1. tickets # <<>>
    BY <1>10, EmptySeq
  <2>2. tickets' # <<>>
    BY <1>1, <1>10, <2>1 DEF TicketStep, CloseTicket, FinishPending
  <2> QED
    BY <2>2
<1>11. CASE (\E r \in Request : RequestFails(r) \/ OpeningFails(r)) \/ ProcessStops
  BY <1>11 DEF RequestFails, OpeningFails, ProcessStops
<1>12. CASE UNCHANGED triageVars
  BY <1>2, <1>12 DEF triageVars, Asked
<1> QED
  BY <1>4, <1>5, <1>6, <1>7, <1>8, <1>9, <1>10, <1>11, <1>12
     DEF TriageNext, Continues

\* No overlap makes the event of a triage that ended with a ticket vanish.
THEOREM TicketAskedFor == TriageSpec => []TicketOnItsWay
<1>1. TriageInit => EventFollows
  BY FreshResults DEF TriageInit, EventFollows, Unborn
<1>2. EventFollows => TicketOnItsWay
  BY DEF EventFollows, TicketOnItsWay
<1> QED
  BY <1>1, <1>2, EventKeeps, TriageInvariant, PTL DEF TriageSpec

-----------------------------------------------------------------------------
(* Requests that do not overlap: a triage opens at most one ticket, and    *)
(* what a finished attendance says stays.                                  *)

NoTicketYet == tickets = <<>> /\ Asked = {}

AtMostOne ==
  \/ NoTicketYet
  \/ Len(tickets) = 1 /\ Asked = {}
  \/ tickets = <<>> /\ \E r \in Request : Asked = {r}

\* What the one request in flight may rely on.
Undisturbed(q) ==
  /\ q.pc \in {"insert", "first", "reread", "loaded"} => NoTicketYet
  /\ q.pc = "first" => attendance.status = "opened"
  /\ q.pc \in {"loaded", "polling", "linking", "rating"} => q.seen = attendance
  /\ q.pc = "rating" => q.seen.rating = Nothing

\* One request at a time: the ticket comes last, and the copy is current.
Solo ==
  ~raced =>
    /\ AtMostOne
    /\ ~NoTicketYet => attendance.status = "finished"
    /\ \A p, q \in InFlight : p = q
    /\ \A r \in Request : Undisturbed(request[r])

\* The part about the tickets.
Counted == AtMostOne /\ (~NoTicketYet => attendance.status = "finished")

\* A step of the one request in flight.
LEMMA SoloRequest ==
  ASSUME TriageInv, NEW r \in Request, NEW q, InFlight \subseteq {r}, Become(r, q),
         Counted', Undisturbed(q)'
  PROVE  Solo'
<1>1. request \in [Request -> RequestType]
  BY DEF TriageInv, TriageTypeOK
<1>2. \A p \in Request : request'[p] = IF p = r THEN q ELSE request[p]
  BY <1>1 DEF Become
<1>3. \A p \in Request : p # r => request'[p].pc = "idle"
  BY <1>2 DEF InFlight
<1>4. \A p \in Request : Undisturbed(request[p])'
  BY <1>2, <1>3 DEF Undisturbed
<1>5. \A p, o \in InFlight' : p = o
  BY <1>3 DEF InFlight
<1> QED
  BY <1>4, <1>5 DEF Solo, Counted

\* A step that leaves the requests, or drops some of them.
LEMMA SoloRest ==
  ASSUME TriageInv, Solo, ~raced,
         UNCHANGED attendance \/ InFlight = {},
         NoTicketYet => NoTicketYet', Counted',
         \A p \in Request : request'[p] \in {request[p], IdleRequest}
  PROVE  Solo'
<1>1. \A p \in Request : Undisturbed(request[p])' \/ request'[p].pc = "idle"
  BY DEF Solo, Undisturbed, InFlight, IdleRequest
<1>2. \A p \in Request : Undisturbed(request[p])'
  BY <1>1 DEF Undisturbed
<1>3. InFlight' \subseteq InFlight
  BY DEF InFlight, IdleRequest
<1> QED
  BY <1>2, <1>3 DEF Solo, Counted

\* A request that has replied.
LEMMA RepliesSolo ==
  ASSUME TriageInv, NEW r \in Request, InFlight \subseteq {r}, Replies(r), Counted'
  PROVE  Solo'
<1>1. Undisturbed(IdleRequest)'
  BY DEF Undisturbed, IdleRequest
<1> QED
  BY <1>1, SoloRequest DEF Replies

\* A step that leaves the tickets, and a finished attendance as it is.
LEMMA CountedStays ==
  ASSUME Counted, UNCHANGED <<tickets, opening>>,
         attendance.status = "finished" => attendance'.status = "finished"
  PROVE  Counted' /\ NoTicketYet' = NoTicketYet
  BY DEF Counted, AtMostOne, NoTicketYet, Asked

LEMMA SoloInitially == TriageInit => Solo
<1> SUFFICES ASSUME TriageInit PROVE Solo
  OBVIOUS
<1>1. NoTicketYet /\ InFlight = {}
  BY DEF TriageInit, NoTicketYet, Asked, InFlight, IdleRequest
<1>2. \A r \in Request : Undisturbed(request[r])
  BY DEF TriageInit, Undisturbed, IdleRequest
<1> QED
  BY <1>1, <1>2 DEF Solo, AtMostOne

\* The steps of a request.
LEMMA SoloContinues ==
  ASSUME TriageInv, Solo, ~raced, NEW r \in Request, Continues(r) PROVE Solo'
<1>1. /\ request \in [Request -> RequestType] /\ request[r] \in RequestType
      /\ opening \in [Request -> Wanted \union {NoTicket}]
      /\ attendance \in Attendance /\ request[r].seen \in Attendance
      /\ request[r].message \in Message /\ Prepared(request[r])
  BY DEF TriageInv, TriageTypeOK, RequestType
<1>2. InFlight \subseteq {r}
  BY DEF Solo, Continues, InFlight, Insert, SaveFirst, Reread, AnswerMessage,
         Poll, Link, Rate
<1>3. Counted /\ Undisturbed(request[r])
  BY DEF Solo, Counted
<1>4. CASE Insert(r)
  <2>1. Counted' /\ NoTicketYet'
    BY <1>3, <1>4, CountedStays DEF Insert, Undisturbed
  <2>2. CASE Replies(r)
    BY <1>2, <2>1, <2>2, RepliesSolo
  <2>3. CASE ~Replies(r)
    <3>q. PICK q : q = [request[r] EXCEPT !.pc = "first"]
      OBVIOUS
    <3>1. Become(r, q) /\ attendance' = Inserted /\ q.pc = "first"
      BY <3>q, <1>1, <1>4, <2>3 DEF Insert, GoesOn, Become, RequestType
    <3>2. Inserted.status = "opened"
      BY DEF Inserted, Unborn
    <3>3. Undisturbed(q)'
      BY <2>1, <3>1, <3>2 DEF Undisturbed
    <3> QED
      BY <1>2, <2>1, <3>1, <3>3, SoloRequest
  <2> QED
    BY <2>2, <2>3
<1>5. CASE SaveFirst(r)
  <2>q. PICK q : q = [request[r] EXCEPT !.pc = "reread"]
    OBVIOUS
  <2>1. Become(r, q) /\ q.pc = "reread"
    BY <2>q, <1>1, <1>5 DEF SaveFirst, GoesOn, Become, RequestType
  <2>2. NoTicketYet /\ attendance.status = "opened"
    BY <1>3, <1>5 DEF Undisturbed, SaveFirst
  <2>3. Counted' /\ NoTicketYet'
    BY <1>3, <1>5, <2>2, CountedStays DEF SaveFirst
  <2>4. Undisturbed(q)'
    BY <2>1, <2>3 DEF Undisturbed
  <2> QED
    BY <1>2, <2>1, <2>3, <2>4, SoloRequest
<1>6. CASE Reread(r)
  <2>1. Counted' /\ NoTicketYet' /\ UNCHANGED attendance
    BY <1>3, <1>6, CountedStays DEF Reread, Undisturbed
  <2>2. CASE Replies(r)
    BY <1>2, <2>1, <2>2, RepliesSolo
  <2>3. CASE ~Replies(r)
    <3>q. PICK q : q = [request[r] EXCEPT !.pc = "loaded", !.seen = attendance]
      OBVIOUS
    <3>1. Become(r, q) /\ q.pc = "loaded" /\ q.seen = attendance
      BY <3>q, <1>1, <1>6, <2>3 DEF Reread, Become, RequestType
    <3>2. Undisturbed(q)'
      BY <2>1, <3>1 DEF Undisturbed
    <3> QED
      BY <1>2, <2>1, <3>1, <3>2, SoloRequest
  <2> QED
    BY <2>2, <2>3
<1>7. CASE AnswerMessage(r)
  <2> DEFINE d == Answered(request[r].seen, request[r].message)
  <2>1. NoTicketYet /\ attendance' = d /\ request[r].pc = "loaded"
    BY <1>3, <1>7 DEF AnswerMessage, Undisturbed
  <2>2. d.result = "ticket" => d.status = "finished"
    BY <1>1, <2>1, AnsweredFacts DEF Prepared
  <2>3. CASE d.result # "ticket"
    <3>1. Replies(r) /\ UNCHANGED <<opening, tickets>>
      BY <1>7, <2>3 DEF AnswerMessage
    <3>2. Counted'
      BY <2>1, <3>1 DEF Counted, AtMostOne, NoTicketYet, Asked
    <3> QED
      BY <1>2, <3>1, <3>2, RepliesSolo
  <2>4. CASE d.result = "ticket"
    <3>q. PICK q : q = [request[r] EXCEPT !.pc = "polling", !.seen = d]
      OBVIOUS
    <3>1. Become(r, q) /\ q.pc = "polling" /\ q.seen = d
      BY <3>q, <1>1, <1>7, <2>4 DEF AnswerMessage, Become, RequestType
    <3>2. Undisturbed(q)'
      BY <2>1, <3>1 DEF Undisturbed
    <3>3. tickets' = <<>> /\ Asked' = {r}
      <4>1. opening' = [opening EXCEPT ![r] = Payload(d)] /\ UNCHANGED tickets
        BY <1>7, <2>4 DEF AnswerMessage, PublishFinished
      <4>2. opening'[r] # NoTicket
        BY <1>1, <4>1, PayloadType
      <4>3. \A p \in Request : p # r => opening'[p] = NoTicket
        BY <1>1, <2>1, <4>1 DEF NoTicketYet, Asked
      <4> QED
        BY <2>1, <4>1, <4>2, <4>3 DEF NoTicketYet, Asked
    <3>4. Counted'
      BY <2>1, <2>2, <2>4, <3>3 DEF Counted, AtMostOne
    <3> QED
      BY <1>2, <3>1, <3>2, <3>4, SoloRequest
  <2> QED
    BY <2>3, <2>4
<1>8. CASE Poll(r)
  <2>q. PICK q : q = [request[r] EXCEPT !.pc = "linking", !.link = Len(tickets)]
    OBVIOUS
  <2>1. Become(r, q) /\ q.pc = "linking" /\ q.seen = request[r].seen
    BY <2>q, <1>1, <1>8 DEF Poll, Become, RequestType
  <2>2. Counted' /\ UNCHANGED attendance
    BY <1>3, <1>8, CountedStays DEF Poll
  <2>3. Undisturbed(q)'
    BY <1>3, <1>8, <2>1, <2>2 DEF Undisturbed, Poll
  <2> QED
    BY <1>2, <2>1, <2>2, <2>3, SoloRequest
<1>9. CASE Link(r) \/ Rate(r)
  <2>1. attendance'.status = attendance.status
    BY <1>1, <1>3, <1>9 DEF Link, Rate, Undisturbed, Attendance
  <2>2. Counted' /\ Replies(r)
    BY <1>3, <1>9, <2>1, CountedStays DEF Link, Rate
  <2> QED
    BY <1>2, <2>2, RepliesSolo
<1> QED
  BY <1>4, <1>5, <1>6, <1>7, <1>8, <1>9 DEF Continues

\* A request that begins is the only one, or requests have overlapped.
LEMMA SoloBegins ==
  ASSUME TriageInv, Solo, NEW r \in Request, Receive(r) \/ Evaluate(r) PROVE Solo'
<1> SUFFICES ASSUME ~raced' PROVE Solo'
  BY DEF Solo
<1>1. ~raced /\ InFlight = {}
  BY DEF Receive, Evaluate, Begins, TriageInv, TriageTypeOK
<1>2. Counted' /\ NoTicketYet' = NoTicketYet /\ UNCHANGED attendance
  BY <1>1, CountedStays DEF Solo, Counted, Receive, Evaluate
<1>3. CASE Receive(r)
  <2>1. PICK m \in Message :
          Become(r, [IdleRequest EXCEPT
                       !.pc = IF attendance.status = "absent" THEN "insert" ELSE "loaded",
                       !.message = m, !.seen = attendance])
    BY <1>3 DEF Receive
  <2>2. PICK q : q = [IdleRequest EXCEPT
                        !.pc = IF attendance.status = "absent" THEN "insert" ELSE "loaded",
                        !.message = m, !.seen = attendance]
    OBVIOUS
  <2>3. q.pc \in {"insert", "loaded"} /\ q.seen = attendance
    BY <2>2 DEF IdleRequest
  <2>4. NoTicketYet
    BY <1>1, <1>3 DEF Solo, Receive, Answerable
  <2>5. Undisturbed(q)'
    BY <1>2, <2>3, <2>4 DEF Undisturbed
  <2> QED
    BY <1>1, <1>2, <2>1, <2>2, <2>5, SoloRequest
<1>4. CASE Evaluate(r)
  <2>1. PICK g \in Rating :
          Become(r, [IdleRequest EXCEPT !.pc = "rating", !.rating = g, !.seen = attendance])
    BY <1>4 DEF Evaluate
  <2>2. PICK q : q = [IdleRequest EXCEPT !.pc = "rating", !.rating = g, !.seen = attendance]
    OBVIOUS
  <2>3. q.pc = "rating" /\ q.seen = attendance /\ q.seen.rating = Nothing
    BY <1>4, <2>2 DEF IdleRequest, Evaluate, CanRate
  <2>4. Undisturbed(q)'
    BY <1>2, <2>3 DEF Undisturbed
  <2> QED
    BY <1>1, <1>2, <2>1, <2>2, <2>4, SoloRequest
<1> QED
  BY <1>3, <1>4

\* Closing the ticket leaves a finished attendance as it is.
LEMMA SoloTicketStep ==
  ASSUME TriageInv, Solo, ~raced, NEW i \in DOMAIN tickets, TicketStep(i)
  PROVE  Solo' /\ UNCHANGED attendance
<1>1. tickets \in Seq(Ticket) /\ closing \subseteq DOMAIN tickets
  BY DEF TriageInv, TriageTypeOK
<1>2. tickets # <<>> /\ attendance.status = "finished"
  BY <1>1, EmptySeq DEF Solo, NoTicketYet
<1>3. /\ UNCHANGED <<attendance, request, opening>>
      /\ tickets' # <<>> /\ Len(tickets') = Len(tickets)
  <2>1. CASE CloseTicket(i)
    <3>1. UNCHANGED <<attendance, request, opening>> /\ DOMAIN tickets' = DOMAIN tickets
      BY <2>1 DEF CloseTicket
    <3>2. Len(tickets') = Len(tickets)
      BY <1>1, <2>1 DEF CloseTicket
    <3>3. tickets' # <<>>
      BY <1>1, <1>2, <3>2, EmptySeq
    <3> QED
      BY <3>1, <3>2, <3>3
  <2>2. CASE FinishPending(i)
    BY <1>2, <2>2 DEF FinishPending
  <2> QED
    BY <2>1, <2>2 DEF TicketStep
<1>4. Counted'
  BY <1>2, <1>3 DEF Solo, Counted, AtMostOne, NoTicketYet, Asked
<1> QED
  BY <1>2, <1>3, <1>4, SoloRest DEF NoTicketYet

\* Requests that have overlapped stay so.
LEMMA NotRaced == [TriageNext]_triageVars /\ ~raced' => ~raced
  BY DEF TriageNext, CreateAttendance, Receive, Evaluate, Begins, Continues,
         Insert, SaveFirst, Reread, AnswerMessage, Poll, Link, Rate, OpenTicket,
         TicketStep, CloseTicket, FinishPending, RequestFails, OpeningFails,
         ProcessStops, triageVars

\* Every action keeps Solo.
LEMMA SoloKeeps == TriageInv /\ Solo /\ [TriageNext]_triageVars => Solo'
<1> SUFFICES ASSUME TriageInv, Solo, [TriageNext]_triageVars, ~raced' PROVE Solo'
  BY DEF Solo
<1>1. ~raced
  BY NotRaced
<1>2. /\ Counted /\ tickets \in Seq(Ticket) /\ request \in [Request -> RequestType]
      /\ opening \in [Request -> Wanted \union {NoTicket}]
  BY <1>1 DEF Solo, Counted, TriageInv, TriageTypeOK
<1>3. CASE CreateAttendance
  <2>1. Counted' /\ NoTicketYet' = NoTicketYet
    BY <1>2, <1>3, CountedStays DEF CreateAttendance
  <2> QED
    BY <1>1, <1>3, <2>1, SoloRest DEF CreateAttendance
<1>4. ASSUME NEW r \in Request, OpenTicket(r) PROVE Solo'
  <2>1. opening[r] # NoTicket /\ r \in Asked
    BY <1>4 DEF OpenTicket, Asked
  <2>2. tickets = <<>> /\ Asked = {r} /\ attendance.status = "finished"
    BY <1>2, <2>1 DEF Counted, AtMostOne, NoTicketYet
  <2>3. Asked' = {} /\ Len(tickets') = 1
    BY <1>2, <1>4, <2>2 DEF OpenTicket, Asked
  <2>4. Counted' /\ UNCHANGED <<attendance, request>>
    BY <1>4, <2>2, <2>3 DEF Counted, AtMostOne, OpenTicket
  <2> QED
    BY <1>1, <2>2, <2>4, SoloRest DEF NoTicketYet
<1>5. ASSUME NEW r \in Request, RequestFails(r) \/ OpeningFails(r) PROVE Solo'
  <2>1. CASE RequestFails(r)
    <3>1. Counted' /\ NoTicketYet' = NoTicketYet /\ UNCHANGED attendance
      BY <1>2, <2>1, CountedStays DEF RequestFails
    <3>2. \A p \in Request : request'[p] \in {request[p], IdleRequest}
      BY <1>2, <2>1 DEF RequestFails, Replies, Become
    <3> QED
      BY <1>1, <3>1, <3>2, SoloRest
  <2>2. CASE OpeningFails(r)
    <3>1. Asked' = Asked \ {r} /\ UNCHANGED <<tickets, attendance, request>>
      BY <1>2, <2>2 DEF OpeningFails, Asked
    <3>2. Counted' /\ (NoTicketYet => NoTicketYet')
      BY <1>2, <3>1 DEF Counted, AtMostOne, NoTicketYet
    <3> QED
      BY <1>1, <3>1, <3>2, SoloRest
  <2> QED
    BY <1>5, <2>1, <2>2
<1>6. CASE ProcessStops
  <2>1. Asked' = {} /\ UNCHANGED <<tickets, attendance>>
    BY <1>6 DEF ProcessStops, Asked
  <2>2. Counted' /\ (NoTicketYet => NoTicketYet')
    BY <1>2, <2>1 DEF Counted, AtMostOne, NoTicketYet
  <2>3. \A p \in Request : request'[p] = IdleRequest
    BY <1>6 DEF ProcessStops
  <2> QED
    BY <1>1, <2>1, <2>2, <2>3, SoloRest
<1>7. CASE UNCHANGED triageVars
  <2>1. Counted' /\ NoTicketYet' = NoTicketYet /\ UNCHANGED <<attendance, request>>
    BY <1>2, <1>7, CountedStays DEF triageVars
  <2> QED
    BY <1>1, <2>1, SoloRest
<1> QED
  BY <1>1, <1>3, <1>4, <1>5, <1>6, <1>7, SoloBegins, SoloContinues, SoloTicketStep
     DEF TriageNext

LEMMA SoloInvariant == TriageSpec => []Solo
  BY SoloInitially, SoloKeeps, TriageInvariant, PTL DEF TriageSpec

\* Without overlapping requests one triage opens at most one ticket.
THEOREM OneTicketEach == TriageSpec => []OneTicket
<1>1. TriageInv /\ Solo => OneTicket
  <2> SUFFICES ASSUME Solo, ~raced PROVE Len(tickets) + Cardinality(Asked) <= 1
    BY DEF OneTicket
  <2>1. CASE NoTicketYet
    <3>1. Cardinality(Asked) = 0 /\ Len(tickets) = 0
      BY <2>1, FS_EmptySet DEF NoTicketYet
    <3> QED
      BY <3>1
  <2>2. CASE Len(tickets) = 1 /\ Asked = {}
    <3>1. Cardinality(Asked) = 0
      BY <2>2, FS_EmptySet
    <3> QED
      BY <2>2, <3>1
  <2>3. CASE tickets = <<>> /\ \E r \in Request : Asked = {r}
    <3>1. Cardinality(Asked) = 1
      BY <2>3, FS_Singleton
    <3>2. Len(tickets) = 0
      BY <2>3
    <3> QED
      BY <3>1, <3>2
  <2> QED
    BY <2>1, <2>2, <2>3 DEF Solo, AtMostOne
<1> QED
  BY <1>1, SoloInvariant, TriageInvariant, PTL

\* One step of OutcomeStays.
Stays ==
  ~raced' /\ attendance.status = "finished" =>
    /\ attendance'.status = "finished"
    /\ attendance'.steps = attendance.steps
    /\ attendance'.result = attendance.result
    /\ attendance.rating # Nothing => attendance'.rating = attendance.rating

LEMMA FinishedStays == TriageInv /\ Solo /\ [TriageNext]_triageVars => Stays
<1> SUFFICES ASSUME TriageInv, Solo, [TriageNext]_triageVars,
                    ~raced', attendance.status = "finished"
             PROVE  Stays
  BY DEF Stays
<1>1. ~raced /\ attendance \in Attendance
  BY NotRaced DEF TriageInv, TriageTypeOK
<1>2. ASSUME NEW r \in Request, Continues(r) PROVE Stays
  <2>1. Undisturbed(request[r])
    BY <1>1 DEF Solo
  <2>2. CASE Insert(r) \/ Reread(r) \/ Poll(r)
    BY <2>2 DEF Insert, Reread, Poll, Stays
  <2>3. CASE SaveFirst(r)
    BY <2>1, <2>3 DEF SaveFirst, Undisturbed, Stays
  <2>4. CASE AnswerMessage(r)
    BY <2>1, <2>4 DEF AnswerMessage, Undisturbed, TriageInv, Prepared, Stays
  <2>5. CASE Link(r)
    BY <1>1, <2>1, <2>5 DEF Link, Undisturbed, Attendance, Stays
  <2>6. CASE Rate(r)
    BY <1>1, <2>1, <2>6 DEF Rate, Undisturbed, Attendance, Stays
  <2> QED
    BY <1>2, <2>2, <2>3, <2>4, <2>5, <2>6 DEF Continues
<1>3. ASSUME NEW i \in DOMAIN tickets, TicketStep(i) PROVE Stays
  BY <1>1, <1>3, SoloTicketStep DEF Stays
<1>4. CASE CreateAttendance
  BY <1>4 DEF CreateAttendance
<1>5. ASSUME NEW r \in Request,
             Receive(r) \/ Evaluate(r) \/ OpenTicket(r) \/ RequestFails(r) \/ OpeningFails(r)
      PROVE  Stays
  BY <1>5 DEF Receive, Evaluate, OpenTicket, RequestFails, OpeningFails, Stays
<1>6. CASE ProcessStops
  BY <1>6 DEF ProcessStops, Stays
<1>7. CASE UNCHANGED triageVars
  BY <1>7 DEF triageVars, Stays
<1> QED
  BY <1>2, <1>3, <1>4, <1>5, <1>6, <1>7 DEF TriageNext

\* Without overlapping requests what a finished attendance says stays.
THEOREM OutcomeKept == TriageSpec => OutcomeStays
<1>1. TriageInv /\ Solo /\ [TriageNext]_triageVars => [Stays]_triageVars
  BY FinishedStays
<1>2. TriageSpec => [][Stays]_triageVars
  BY <1>1, SoloInvariant, TriageInvariant, PTL DEF TriageSpec
<1> QED
  BY <1>2 DEF OutcomeStays, Stays

-----------------------------------------------------------------------------
(* The ticket asks for what the path asked for.  A menu walked by options  *)
(* goes down one of three branches, and never stands still.                *)

\* No question is asked twice in a row.
Moving(d) ==
  \A i \in 1..(Len(d.steps) - 1) : d.steps[i].step # d.steps[i + 1].step

LEMMA MovingSame ==
  ASSUME NEW d, NEW e, e.steps = d.steps, Moving(d) PROVE Moving(e)
  BY DEF Moving

LEMMA FreshMoving == Moving(Unborn) /\ Moving(Inserted) /\ Moving(Started)
<1>1. /\ Unborn.steps = <<>> /\ Inserted.steps = <<>>
      /\ Started.steps = <<Ask("main_menu")>>
  BY DEF Unborn, Inserted, Started
<1>2. Len(<<>>) = 0 /\ Len(<<Ask("main_menu")>>) = 1
  BY EmptySeq
<1> QED
  BY <1>1, <1>2 DEF Moving

\* A message repeats no question: one that moves nowhere asks nothing.
LEMMA AnsweredMoving ==
  ASSUME NEW d \in Attendance, NEW m \in Message, Moving(d)
  PROVE  Moving(Answered(d, m))
<1> DEFINE k == [d EXCEPT !.steps = Kept(d, m)]
           n == NextState(Last(d), Said(m))
<1>1. d.steps \in Seq(Step) /\ Len(d.steps) \in Nat
  BY LenProperties DEF Attendance
<1>2. \A i \in 1..Len(d.steps) : d.steps[i] \in Step
  BY <1>1, ElementOfSeq
<1>3. /\ k.steps = Kept(d, m) /\ k.steps \in Seq(Step)
      /\ Len(k.steps) = Len(d.steps)
      /\ \A i \in 1..Len(d.steps) : k.steps[i].step = d.steps[i].step
  <2>1. \A i \in 1..Len(d.steps) : Recorded(d.steps[i], m).step = d.steps[i].step
    BY <1>2 DEF Recorded, Step
  <2>2. k.steps = Kept(d, m)
    BY DEF Attendance
  <2> QED
    BY <2>1, <2>2, KeptFacts
<1>4. Moving(k)
  <2> SUFFICES ASSUME NEW i \in 1..(Len(k.steps) - 1)
               PROVE  k.steps[i].step # k.steps[i + 1].step
    BY DEF Moving
  <2>1. /\ i \in 1..(Len(d.steps) - 1) /\ i \in 1..Len(d.steps)
        /\ i + 1 \in 1..Len(d.steps)
    BY <1>1, <1>3
  <2> QED
    BY <1>3, <2>1 DEF Moving
<1>5. CASE n \in {"ticket_created", "service_finished"} \/ n = Last(d)
  <2>1. Answered(d, m).steps = k.steps
    <3>1. Answered(d, m) \in {k, Finished(k, "ticket"), Finished(k, "resolved")}
      BY <1>5 DEF Answered
    <3>2. /\ Finished(k, "ticket").steps = k.steps
          /\ Finished(k, "resolved").steps = k.steps
      BY DEF Finished, Attendance
    <3> HIDE DEF k, n
    <3> QED
      BY <3>1, <3>2
  <2> QED
    BY <1>4, <2>1, MovingSame
<1>6. CASE n \notin {"ticket_created", "service_finished"} /\ n # Last(d)
  <2>1. Answered(d, m) = [k EXCEPT !.steps = Append(@, Ask(n))]
    BY <1>6 DEF Answered
  <2>2. n \in Menu /\ Ask(n) \in Step /\ Ask(n).step = n
    BY <1>6, NextFacts DEF Ask, Step
  <2>3. Answered(d, m).steps = Append(k.steps, Ask(n))
    BY <2>1 DEF Attendance
  <2> DEFINE e == Answered(d, m).steps
  <2>4. /\ Len(e) = Len(d.steps) + 1 /\ e[Len(d.steps) + 1] = Ask(n)
        /\ \A i \in 1..Len(d.steps) : e[i] = k.steps[i]
    BY <1>3, <2>2, <2>3, AppendProperties
  <2>5. d.steps # <<>> => Last(d) = d.steps[Len(d.steps)].step
    BY DEF Last
  <2>6. ASSUME NEW i \in 1..(Len(e) - 1)
        PROVE  e[i].step # e[i + 1].step
    <3>1. i \in 1..Len(d.steps) /\ i \in Nat
      BY <1>1, <2>4
    <3>2. d.steps # <<>>
      BY <3>1, EmptySeq
    <3>3. CASE i = Len(d.steps)
      BY <1>3, <1>6, <2>2, <2>4, <2>5, <3>1, <3>2, <3>3
    <3>4. CASE i # Len(d.steps)
      <4>1. i \in 1..(Len(d.steps) - 1) /\ i + 1 \in 1..Len(d.steps)
        BY <1>1, <3>1, <3>4
      <4>2. d.steps[i].step # d.steps[i + 1].step
        BY <4>1 DEF Moving
      <4> QED
        BY <1>3, <2>4, <3>1, <4>1, <4>2
    <3> QED
      BY <3>3, <3>4
  <2> QED
    BY <2>6 DEF Moving
<1> QED
  BY <1>5, <1>6

\* No document, stored or held, stands still.
AllMoving == Moving(attendance) /\ \A r \in Request : Moving(request[r].seen)

LEMMA MovingRequest ==
  ASSUME TriageInv, AllMoving, NEW r \in Request, NEW q, Become(r, q),
         Moving(q.seen), Moving(attendance')
  PROVE  AllMoving'
<1>1. request \in [Request -> RequestType]
  BY DEF TriageInv, TriageTypeOK
<1>2. \A p \in Request : request'[p] = IF p = r THEN q ELSE request[p]
  BY <1>1 DEF Become
<1>3. \A p \in Request : Moving(request'[p].seen)
  BY <1>2 DEF AllMoving
<1> QED
  BY <1>3 DEF AllMoving, Moving

LEMMA MovingKeeps == TriageInv /\ AllMoving /\ [TriageNext]_triageVars => AllMoving'
<1> SUFFICES ASSUME TriageInv, AllMoving, [TriageNext]_triageVars PROVE AllMoving'
  OBVIOUS
<1>1. /\ attendance \in Attendance /\ request \in [Request -> RequestType]
      /\ \A r \in Request : /\ request[r].seen \in Attendance
                           /\ request[r].message \in Message
  BY DEF TriageInv, TriageTypeOK, RequestType
<1>2. Moving(IdleRequest.seen)
  BY FreshMoving DEF IdleRequest
<1>3. ASSUME Moving(attendance'), UNCHANGED request PROVE AllMoving'
  BY <1>3 DEF AllMoving, Moving
<1>4. CASE CreateAttendance
  BY <1>3, <1>4, FreshMoving DEF CreateAttendance
<1>5. ASSUME NEW r \in Request, Receive(r) \/ Evaluate(r) PROVE AllMoving'
  <2>1. PICK q : Become(r, q) /\ q.seen = attendance
    <3>1. CASE Receive(r)
      <4>1. PICK m \in Message :
              Become(r, [IdleRequest EXCEPT
                           !.pc = IF attendance.status = "absent" THEN "insert" ELSE "loaded",
                           !.message = m, !.seen = attendance])
        BY <3>1 DEF Receive
      <4>2. PICK q : q = [IdleRequest EXCEPT
                            !.pc = IF attendance.status = "absent" THEN "insert" ELSE "loaded",
                            !.message = m, !.seen = attendance]
        OBVIOUS
      <4>3. q.seen = attendance
        BY <4>2 DEF IdleRequest
      <4> QED
        BY <4>1, <4>2, <4>3
    <3>2. CASE Evaluate(r)
      <4>1. PICK g \in Rating :
              Become(r, [IdleRequest EXCEPT !.pc = "rating", !.rating = g, !.seen = attendance])
        BY <3>2 DEF Evaluate
      <4>2. PICK q : q = [IdleRequest EXCEPT !.pc = "rating", !.rating = g, !.seen = attendance]
        OBVIOUS
      <4>3. q.seen = attendance
        BY <4>2 DEF IdleRequest
      <4> QED
        BY <4>1, <4>2, <4>3
    <3> QED
      BY <1>5, <3>1, <3>2
  <2>2. UNCHANGED attendance
    BY <1>5 DEF Receive, Evaluate
  <2> QED
    BY <2>1, <2>2, MovingRequest DEF AllMoving
<1>6. ASSUME NEW r \in Request, Continues(r) PROVE AllMoving'
  <2>1. Moving(attendance) /\ Moving(request[r].seen) /\ request[r] \in RequestType
    BY <1>1 DEF AllMoving
  <2>2. CASE AnswerMessage(r)
    <3> DEFINE d == Answered(request[r].seen, request[r].message)
    <3>1. Moving(d)
      BY <1>1, <2>1, AnsweredMoving
    <3>2. attendance' = d
      BY <2>2 DEF AnswerMessage
    <3>3. \/ Replies(r)
          \/ request' = [request EXCEPT ![r].pc = "polling", ![r].seen = d]
      BY <2>2 DEF AnswerMessage
    <3> HIDE DEF d
    <3>4. CASE Replies(r)
      BY <1>2, <3>1, <3>2, <3>4, MovingRequest DEF Replies
    <3>5. CASE request' = [request EXCEPT ![r].pc = "polling", ![r].seen = d]
      <4>1. PICK q : q = [request[r] EXCEPT !.pc = "polling", !.seen = d]
        OBVIOUS
      <4>2. Become(r, q) /\ q.seen = d
        BY <1>1, <2>1, <3>5, <4>1 DEF Become, RequestType
      <4> QED
        BY <3>1, <3>2, <4>2, MovingRequest
    <3> QED
      BY <3>3, <3>4, <3>5
  <2>3. CASE Insert(r) \/ SaveFirst(r) \/ Reread(r) \/ Poll(r) \/ Link(r) \/ Rate(r)
    <3>1. Moving(attendance')
      <4>1. CASE Insert(r) \/ SaveFirst(r) \/ Reread(r) \/ Poll(r)
        BY <2>1, <4>1, FreshMoving DEF Insert, SaveFirst, Reread, Poll
      <4>2. CASE Link(r) \/ Rate(r)
        <5>1. attendance'.steps = request[r].seen.steps
          BY <1>1, <4>2 DEF Link, Rate, Attendance
        <5> QED
          BY <2>1, <5>1, MovingSame
      <4> QED
        BY <2>3, <4>1, <4>2
    <3>2. PICK q : Become(r, q) /\ q.seen \in {request[r].seen, attendance, IdleRequest.seen}
      <4>1. CASE Replies(r)
        BY <4>1 DEF Replies
      <4>2. ASSUME NEW pc, GoesOn(r, pc)
            PROVE  \E q : Become(r, q) /\ q.seen = request[r].seen
        <5>1. PICK q : q = [request[r] EXCEPT !.pc = pc]
          OBVIOUS
        <5>2. Become(r, q) /\ q.seen = request[r].seen
          BY <2>1, <4>2, <5>1 DEF GoesOn, Become, RequestType
        <5> QED
          BY <5>2
      <4>3. CASE Reread(r) /\ ~Replies(r)
        <5>1. PICK q : q = [request[r] EXCEPT !.pc = "loaded", !.seen = attendance]
          OBVIOUS
        <5>2. Become(r, q) /\ q.seen = attendance
          BY <1>1, <2>1, <4>3, <5>1 DEF Reread, Become, RequestType
        <5> QED
          BY <5>2
      <4>4. CASE Poll(r)
        <5>1. PICK q : q = [request[r] EXCEPT !.pc = "linking", !.link = Len(tickets)]
          OBVIOUS
        <5>2. Become(r, q) /\ q.seen = request[r].seen
          BY <1>1, <2>1, <4>4, <5>1 DEF Poll, Become, RequestType
        <5> QED
          BY <5>2
      <4> QED
        BY <2>3, <4>1, <4>2, <4>3, <4>4 DEF Insert, SaveFirst, Link, Rate
    <3> QED
      BY <1>2, <2>1, <3>1, <3>2, MovingRequest
  <2> QED
    BY <1>6, <2>2, <2>3 DEF Continues
<1>7. ASSUME NEW r \in Request, OpenTicket(r) \/ OpeningFails(r) PROVE AllMoving'
  BY <1>3, <1>7 DEF OpenTicket, OpeningFails, AllMoving
<1>8. ASSUME NEW i \in DOMAIN tickets, TicketStep(i) PROVE AllMoving'
  <2>1. attendance'.steps = attendance.steps /\ UNCHANGED request
    BY <1>1, <1>8 DEF TicketStep, CloseTicket, FinishPending, Attendance
  <2>2. Moving(attendance')
    BY <2>1, MovingSame DEF AllMoving
  <2> QED
    BY <1>3, <2>1, <2>2
<1>9. ASSUME NEW r \in Request, RequestFails(r) PROVE AllMoving'
  BY <1>2, <1>9, MovingRequest DEF RequestFails, Replies, AllMoving
<1>10. CASE ProcessStops
  <2>1. \A p \in Request : Moving(request'[p].seen)
    BY <1>2, <1>10 DEF ProcessStops
  <2> QED
    BY <1>10, <2>1 DEF ProcessStops, AllMoving, Moving
<1>11. CASE UNCHANGED triageVars
  BY <1>3, <1>11 DEF triageVars, AllMoving
<1> QED
  BY <1>4, <1>5, <1>6, <1>7, <1>8, <1>9, <1>10, <1>11 DEF TriageNext

LEMMA MovingInvariant == TriageSpec => []AllMoving
<1>1. TriageInit => AllMoving
  BY FreshMoving DEF TriageInit, AllMoving, IdleRequest
<1> QED
  BY <1>1, MovingKeeps, TriageInvariant, PTL DEF TriageSpec

\* Without overlapping requests every ticket, asked for or inserted, is the one
\* the stored document asks for.
Matched ==
  ~raced =>
    /\ \A r \in Asked : opening[r] = Payload(attendance)
    /\ \A i \in DOMAIN tickets : tickets[i].wanted = Payload(attendance)
    /\ ~NoTicketYet => attendance.result = "ticket"

LEMMA PayloadOfSteps ==
  ASSUME NEW d, NEW e, e.steps = d.steps PROVE Payload(e) = Payload(d)
  BY DEF Payload, FirstValue, ValuesFor

\* A step that asks for no ticket and changes no request for one.
LEMMA MatchedRest ==
  ASSUME TriageInv, Solo, Matched, [TriageNext]_triageVars, ~raced',
         Asked' \subseteq Asked, \A r \in Asked' : opening'[r] = opening[r],
         \A i \in DOMAIN tickets' : i \in DOMAIN tickets /\ tickets'[i].wanted = tickets[i].wanted,
         tickets = <<>> => tickets' = <<>>
  PROVE  Matched'
<1>1. ~raced
  BY NotRaced
<1>2. CASE NoTicketYet
  <2>1. tickets' = <<>> /\ Asked' = {}
    BY <1>2 DEF NoTicketYet
  <2> QED
    BY <2>1, EmptySeq DEF Matched, NoTicketYet
<1>3. CASE ~NoTicketYet
  <2>1. attendance.status = "finished" /\ attendance.result = "ticket"
    BY <1>1, <1>3 DEF Solo, Matched
  <2>2. /\ attendance'.steps = attendance.steps
        /\ attendance'.result = attendance.result
    BY <2>1, FinishedStays DEF Stays
  <2>3. Payload(attendance') = Payload(attendance)
    BY <2>2, PayloadOfSteps
  <2>4. Payload(attendance)' = Payload(attendance')
    BY DEF Payload, FirstValue, ValuesFor
  <2> QED
    BY <1>1, <2>1, <2>2, <2>3, <2>4 DEF Matched
<1> QED
  BY <1>2, <1>3

LEMMA MatchedKeeps ==
  TriageInv /\ Solo /\ Matched /\ [TriageNext]_triageVars => Matched'
<1> SUFFICES ASSUME TriageInv, Solo, Matched, [TriageNext]_triageVars, ~raced'
             PROVE  Matched'
  BY DEF Matched
<1>1. /\ opening \in [Request -> Wanted \union {NoTicket}]
      /\ tickets \in Seq(Ticket) /\ ~raced
  BY NotRaced DEF TriageInv, TriageTypeOK
<1>2. ASSUME UNCHANGED <<opening, tickets>> PROVE Matched'
  BY <1>2, MatchedRest DEF Asked
<1>3. ASSUME NEW r \in Request, AnswerMessage(r) PROVE Matched'
  <2> DEFINE d == Answered(request[r].seen, request[r].message)
  <2>1. CASE d.result # "ticket"
    BY <1>2, <1>3, <2>1 DEF AnswerMessage
  <2>2. CASE d.result = "ticket"
    <3>1. NoTicketYet
      BY <1>1, <1>3 DEF Solo, Undisturbed, AnswerMessage
    <3>2. /\ attendance' = d /\ UNCHANGED tickets
          /\ opening' = [opening EXCEPT ![r] = Payload(d)]
      BY <1>3, <2>2 DEF AnswerMessage, PublishFinished
    <3> HIDE DEF d
    <3>3. tickets' = <<>> /\ \A p \in Asked' : p = r /\ opening'[p] = Payload(d)
      BY <1>1, <3>1, <3>2 DEF NoTicketYet, Asked
    <3>4. Payload(attendance)' = Payload(d)
      BY <3>2 DEF Payload, FirstValue, ValuesFor
    <3> QED
      BY <2>2, <3>2, <3>3, <3>4, EmptySeq DEF Matched
  <2> QED
    BY <2>1, <2>2
<1>4. ASSUME NEW r \in Request, OpenTicket(r) PROVE Matched'
  <2> DEFINE t == [wanted |-> opening[r], closed |-> FALSE]
  <2>1. r \in Asked /\ tickets' = Append(tickets, t) /\ UNCHANGED attendance
    BY <1>4 DEF OpenTicket, Asked
  <2>2. \A p \in Asked' : p \in Asked /\ opening'[p] = opening[p]
    BY <1>1, <1>4 DEF OpenTicket, Asked
  <2>3. opening[r] = Payload(attendance) /\ attendance.result = "ticket"
    BY <1>1, <2>1 DEF Matched, NoTicketYet
  <2>4. t \in Ticket /\ t.wanted = Payload(attendance)
    BY <1>1, <2>1, <2>3 DEF Ticket, Asked
  <2>5. \A i \in DOMAIN tickets' : tickets'[i].wanted = Payload(attendance)
    <3>1. /\ DOMAIN tickets' = 1..(Len(tickets) + 1) /\ Len(tickets) \in Nat
          /\ tickets'[Len(tickets) + 1] = t
          /\ \A i \in 1..Len(tickets) : tickets'[i] = tickets[i]
      BY <1>1, <2>1, <2>4, AppendProperties, LenProperties
    <3>2. \A i \in 1..(Len(tickets) + 1) : i = Len(tickets) + 1 \/ i \in 1..Len(tickets)
      BY <3>1
    <3>3. \A i \in 1..Len(tickets) : tickets[i].wanted = Payload(attendance)
      BY <1>1 DEF Matched
    <3> QED
      BY <2>4, <3>1, <3>2, <3>3
  <2>6. Payload(attendance)' = Payload(attendance)
    BY <2>1 DEF Payload, FirstValue, ValuesFor
  <2> QED
    BY <1>1, <2>1, <2>2, <2>3, <2>5, <2>6 DEF Matched
<1>5. ASSUME NEW i \in DOMAIN tickets, TicketStep(i) PROVE Matched'
  <2>1. CASE CloseTicket(i)
    <3>1. DOMAIN tickets' = DOMAIN tickets /\ UNCHANGED opening
      BY <2>1 DEF CloseTicket
    <3>2. \A j \in DOMAIN tickets : tickets[j] \in Ticket
      BY <1>1, ElementOfSeq
    <3>3. \A j \in DOMAIN tickets : tickets'[j].wanted = tickets[j].wanted
      BY <2>1, <3>2 DEF CloseTicket, Ticket
    <3>4. tickets # <<>>
      BY <1>5, EmptySeq
    <3> QED
      BY <3>1, <3>3, <3>4, MatchedRest DEF Asked
  <2>2. CASE FinishPending(i)
    BY <1>2, <2>2 DEF FinishPending
  <2> QED
    BY <1>5, <2>1, <2>2 DEF TicketStep
<1>6. ASSUME NEW r \in Request, OpeningFails(r) PROVE Matched'
  <2>1. \A p \in Asked' : p \in Asked /\ opening'[p] = opening[p]
    BY <1>1, <1>6 DEF OpeningFails, Asked
  <2>2. UNCHANGED tickets
    BY <1>6 DEF OpeningFails
  <2> QED
    BY <2>1, <2>2, MatchedRest
<1>7. CASE ProcessStops
  <2>1. Asked' = {} /\ UNCHANGED tickets
    BY <1>7 DEF ProcessStops, Asked
  <2> QED
    BY <2>1, MatchedRest
<1>8. ASSUME NEW r \in Request,
             Receive(r) \/ Evaluate(r) \/ Insert(r) \/ SaveFirst(r) \/ Reread(r) \/
             Poll(r) \/ Link(r) \/ Rate(r) \/ RequestFails(r)
      PROVE  Matched'
  BY <1>2, <1>8 DEF Receive, Evaluate, Insert, SaveFirst, Reread, Poll, Link, Rate,
                    RequestFails
<1>9. CASE CreateAttendance \/ UNCHANGED triageVars
  BY <1>2, <1>9 DEF CreateAttendance, triageVars
<1> QED
  BY <1>3, <1>4, <1>5, <1>6, <1>7, <1>8, <1>9 DEF TriageNext, Continues

LEMMA MatchedInvariant == TriageSpec => []Matched
<1>1. TriageInit => Matched
  BY EmptySeq DEF TriageInit, Matched, NoTicketYet, Asked
<1> QED
  BY <1>1, MatchedKeeps, SoloInvariant, TriageInvariant, PTL DEF TriageSpec

\* Only an option of the menu leads from one question to another.
LEMMA MovedByOption ==
  ASSUME NEW s \in Menu, NEW c, NextState(s, c) \in Menu \ {s}
  PROVE  s \notin FreeText /\ <<s, Strip(c), NextState(s, c)>> \in MenuMap
<1>1. s \notin FreeText
  BY DEF NextState, Menu, FreeText, Informing
<1>2. NextState(s, c) \in Targets(s, c)
  BY <1>1 DEF NextState
<1> QED
  BY <1>1, <1>2 DEF Targets

\* Where the options lead.
LEMMA Branches ==
  ASSUME NEW s, NEW c, NEW n, <<s, c, n>> \in MenuMap
  PROVE  /\ s = "main_menu" =>
              \/ c \in {"1", "2", "3"} /\ n = "choosing_product_problem"
              \/ c = "4" /\ n = "choosing_question_type"
              \/ c = "5" /\ n = "requesting_access"
         /\ s = "choosing_product_problem" =>
              \/ c = "1" /\ n = "waiting_failure_text"
              \/ c = "2" /\ n = "waiting_feature_text"
         /\ s = "choosing_question_type" => n \in Informing
         /\ s \in Informing => n = "anything_else"
         /\ s = "anything_else" => n \in {"main_menu", "service_finished"}
  BY DEF MenuMap, Informing

\* What an answer that is no option, or one with blanks around it, is taken for.
LEMMA OptionFacts ==
  ASSUME NEW c
  PROVE  /\ Strip(c) # c => c \notin Compared /\ Product(c) = "unknown"
         /\ Strip(c) = c /\ c \in {"1", "2", "3"} => Product(c) = c
  BY TriageAssumption DEF Compared, Product

\* The answer looked up for a question that was asked once.
LEMMA AskedOnce ==
  ASSUME NEW d, NEW s, NEW i \in Int, i \in DOMAIN d.steps,
         \A j \in DOMAIN d.steps : d.steps[j].step = s <=> j = i
  PROVE  FirstValue(d, s) = d.steps[i].value
<1>1. CASE d.steps[i].value = Nothing
  BY <1>1 DEF FirstValue, ValuesFor
<1>2. CASE d.steps[i].value # Nothing
  <2>1. ValuesFor(d, s) = {i}
    BY <1>2 DEF ValuesFor
  <2>2. (CHOOSE k \in {i} : \A j \in {i} : k <= j) = i
    OBVIOUS
  <2> QED
    BY <2>1, <2>2 DEF FirstValue
<1> QED
  BY <1>1, <1>2

\* The ticket that the last question and the answers before it ask for.
AsksFor(d, w) ==
  LET s == d.steps
      chosen == IF Exact(s[1]) THEN s[1].value ELSE "unknown"
  IN  \/ /\ Last(d) = "requesting_access"
         /\ w = IF Exact(s[1]) THEN [kind |-> "access", product |-> "desk"]
                ELSE [kind |-> "issue", product |-> "unknown"]
      \/ /\ Last(d) = "waiting_feature_text"
         /\ w = [kind |-> IF Exact(s[2]) THEN "feature" ELSE "issue", product |-> chosen]
      \/ /\ Last(d) = "waiting_failure_text"
         /\ w = [kind |-> "issue", product |-> chosen]

\* A finished walk by options has two questions, or three: the answers looked up
\* are those of the branch it went down.
LEMMA WalkAsksFor ==
  ASSUME NEW d \in Attendance, Path(d), Moving(d), ByOptions(d), d.result = "ticket"
  PROVE  AsksFor(d, Payload(d))
<1> DEFINE s == d.steps
           n == Len(s)
           q(i) == s[i].step
<1>1. /\ s \in Seq(Step) /\ n \in Nat /\ DOMAIN s = 1..n
      /\ \A i \in 1..n : s[i] \in Step
  <2>1. s \in Seq(Step)
    BY DEF Attendance
  <2> QED
    BY <2>1, LenProperties, ElementOfSeq
<1>2. Last(d) \in FreeText /\ s # <<>>
  BY DEF Path, Last, Menu
<1>3. /\ n >= 1 /\ q(n) \in FreeText /\ Last(d) = q(n) /\ q(1) = "main_menu"
  <2>1. n >= 1
    BY <1>1, <1>2, EmptySeq
  <2> QED
    BY <1>2, <2>1 DEF Path, Last
<1>4. ASSUME NEW i \in 1..(n - 1)
      PROVE  /\ <<q(i), Strip(s[i].value), q(i + 1)>> \in MenuMap
             /\ q(i) \notin FreeText /\ q(i + 1) # "main_menu"
  <2>1. i \in 1..n /\ i + 1 \in 1..n
    BY <1>1
  <2>2. q(i) \in Menu /\ q(i + 1) \in Menu /\ q(i) # q(i + 1)
    BY <1>1, <2>1 DEF Step, Moving
  <2>3. NextState(q(i), s[i].value) = q(i + 1) /\ q(i + 1) # "main_menu"
    BY DEF ByOptions
  <2> QED
    BY <2>2, <2>3, MovedByOption
<1> HIDE DEF s, n, q
<1>5. "main_menu" \notin FreeText /\ "choosing_product_problem" \notin FreeText
      /\ "choosing_question_type" \notin FreeText /\ "anything_else" \notin FreeText
      /\ Informing \cap FreeText = {}
  BY DEF FreeText, Informing
<1>6. n >= 2
  BY <1>1, <1>3, <1>5
<1>7. \/ Strip(s[1].value) \in {"1", "2", "3"} /\ q(2) = "choosing_product_problem"
      \/ Strip(s[1].value) = "4" /\ q(2) = "choosing_question_type"
      \/ Strip(s[1].value) = "5" /\ q(2) = "requesting_access"
  <2>1. 1 \in 1..(n - 1) /\ 1 + 1 = 2
    BY <1>1, <1>6
  <2>2. <<q(1), Strip(s[1].value), q(2)>> \in MenuMap
    BY <1>4, <2>1
  <2> QED
    BY <1>3, <2>2, Branches
<1>8. FirstValue(d, "main_menu") = s[1].value
  <2>1. \A j \in 1..n : j = 1 \/ (j - 1 \in 1..(n - 1) /\ (j - 1) + 1 = j)
    BY <1>1
  <2>2. \A j \in 1..n : q(j) = "main_menu" <=> j = 1
    BY <1>3, <1>4, <2>1
  <2>3. /\ 1 \in Int /\ 1 \in DOMAIN d.steps
        /\ \A j \in DOMAIN d.steps : d.steps[j].step = "main_menu" <=> j = 1
    BY <1>1, <1>3, <2>2 DEF s, q
  <2>4. FirstValue(d, "main_menu") = d.steps[1].value
    BY <2>3, AskedOnce
  <2> QED
    BY <2>4 DEF s
<1>9. CASE q(2) = "requesting_access"
  <2>1. n = 2
    <3>1. n # 2 => 2 \in 1..(n - 1)
      BY <1>1, <1>6
    <3> QED
      BY <1>4, <1>9, <3>1 DEF FreeText
  <2>2. Strip(s[1].value) = "5"
    BY <1>7, <1>9
  <2>3. FirstValue(d, "choosing_product_problem") = Nothing
    <3>1. \A j \in 1..n : q(j) # "choosing_product_problem"
      BY <1>3, <1>9, <2>1
    <3> QED
      BY <1>1, <3>1 DEF FirstValue, ValuesFor, s, q
  <2>4. Payload(d) = Derived(s[1].value, Nothing) /\ Nothing # "2"
    BY <1>8, <2>3, TriageAssumption DEF Payload, Compared
  <2>5. CASE Exact(s[1])
    <3>1. s[1].value = "5"
      BY <2>2, <2>5 DEF Exact
    <3>2. Payload(d) = [kind |-> "access", product |-> "desk"]
      BY <2>4, <3>1 DEF Derived
    <3> QED
      BY <1>3, <1>9, <2>1, <2>5, <3>2 DEF AsksFor, s
  <2>6. CASE ~Exact(s[1])
    <3>1. s[1].value # "5" /\ Product(s[1].value) = "unknown"
      BY <2>6, OptionFacts DEF Exact, Compared
    <3>2. Payload(d) = [kind |-> "issue", product |-> "unknown"]
      BY <2>4, <3>1 DEF Derived
    <3> QED
      BY <1>3, <1>9, <2>1, <2>6, <3>2 DEF AsksFor, s
  <2> QED
    BY <2>5, <2>6
<1>10. CASE q(2) = "choosing_product_problem"
  <2>1. 2 \in 1..(n - 1) /\ 2 + 1 = 3 /\ n >= 3
    BY <1>1, <1>3, <1>5, <1>6, <1>10
  <2>2. <<q(2), Strip(s[2].value), q(3)>> \in MenuMap
    BY <1>4, <2>1
  <2>3. \/ Strip(s[2].value) = "1" /\ q(3) = "waiting_failure_text"
        \/ Strip(s[2].value) = "2" /\ q(3) = "waiting_feature_text"
    BY <1>10, <2>2, Branches
  <2>4. n = 3
    <3>1. n # 3 => 3 \in 1..(n - 1)
      BY <1>1, <2>1
    <3> QED
      BY <1>4, <2>3, <3>1 DEF FreeText
  <2>5. FirstValue(d, "choosing_product_problem") = s[2].value
    <3>1. 1..n = {1, 2, 3}
      BY <2>4
    <3>2. \A j \in 1..n : q(j) = "choosing_product_problem" <=> j = 2
      BY <1>3, <1>10, <2>3, <3>1
    <3>3. /\ 2 \in Int /\ 2 \in DOMAIN d.steps
          /\ \A j \in DOMAIN d.steps :
               d.steps[j].step = "choosing_product_problem" <=> j = 2
      BY <1>1, <3>1, <3>2 DEF s, q
    <3>4. FirstValue(d, "choosing_product_problem") = d.steps[2].value
      BY <3>3, AskedOnce
    <3> QED
      BY <3>4 DEF s
  <2> DEFINE chosen == IF Exact(s[1]) THEN s[1].value ELSE "unknown"
  <2>6. s[1].value # "5" /\ Product(s[1].value) = chosen
    <3>1. Strip(s[1].value) \in {"1", "2", "3"}
      BY <1>7, <1>10
    <3>2. CASE Exact(s[1])
      BY <3>1, <3>2, OptionFacts DEF Exact
    <3>3. CASE ~Exact(s[1])
      BY <3>3, OptionFacts DEF Exact, Compared
    <3> QED
      BY <3>2, <3>3
  <2>7. Payload(d) = Derived(s[1].value, s[2].value)
    BY <1>8, <2>5 DEF Payload
  <2>8. CASE Strip(s[2].value) = "1"
    <3>1. s[2].value # "2"
      BY <2>8, TriageAssumption DEF Compared
    <3>2. Payload(d) = [kind |-> "issue", product |-> chosen]
      BY <2>6, <2>7, <3>1 DEF Derived
    <3>3. Last(d) = "waiting_failure_text"
      BY <1>3, <2>3, <2>4, <2>8
    <3> QED
      BY <3>2, <3>3 DEF AsksFor, s
  <2>9. CASE Strip(s[2].value) = "2"
    <3>1. s[2].value = "2" <=> Exact(s[2])
      BY <2>9, TriageAssumption DEF Exact, Compared
    <3>2. Payload(d) = [kind |-> IF Exact(s[2]) THEN "feature" ELSE "issue", product |-> chosen]
      BY <2>6, <2>7, <3>1 DEF Derived
    <3>3. Last(d) = "waiting_feature_text"
      BY <1>3, <2>3, <2>4, <2>9
    <3> QED
      BY <3>2, <3>3 DEF AsksFor, s
  <2> QED
    BY <2>3, <2>8, <2>9
<1>11. CASE q(2) = "choosing_question_type"
  <2>1. 2 \in 1..(n - 1) /\ 2 + 1 = 3 /\ n >= 3
    BY <1>1, <1>3, <1>5, <1>6, <1>11
  <2>2. q(3) \in Informing
    <3>1. <<q(2), Strip(s[2].value), q(3)>> \in MenuMap
      BY <1>4, <2>1
    <3> QED
      BY <1>11, <3>1, Branches
  <2>3. 3 \in 1..(n - 1) /\ 3 + 1 = 4 /\ n >= 4
    BY <1>1, <1>3, <1>5, <2>1, <2>2
  <2>4. q(4) = "anything_else"
    <3>1. <<q(3), Strip(s[3].value), q(4)>> \in MenuMap
      BY <1>4, <2>3
    <3> QED
      BY <2>2, <3>1, Branches
  <2>5. 4 \in 1..(n - 1) /\ 4 + 1 = 5
    BY <1>1, <1>3, <1>5, <2>3, <2>4
  <2>6. q(5) \in {"main_menu", "service_finished"} /\ q(5) # "main_menu"
    <3>1. <<q(4), Strip(s[4].value), q(5)>> \in MenuMap /\ q(5) # "main_menu"
      BY <1>4, <2>5
    <3> QED
      BY <2>4, <3>1, Branches
  <2>7. q(5) \in Menu
    <3>1. 5 \in 1..n
      BY <1>1, <2>5
    <3> QED
      BY <1>1, <3>1 DEF Step, q
  <2> QED
    BY <2>6, <2>7 DEF Menu, Informing, FreeText
<1> QED
  BY <1>7, <1>9, <1>10, <1>11

\* Without overlapping requests, and however requests, handlers or the process
\* fail, the ticket of a menu walked by its options asks for the product chosen
\* first and for what the free text that ended the walk describes, where the
\* deciding answers were typed exactly; for an issue, of an unknown product,
\* where they had blanks around them.
THEOREM TicketAsPath == TriageSpec => []TicketMatchesPath
<1>1. TriageInv /\ AllMoving /\ Matched => TicketMatchesPath
  <2> SUFFICES ASSUME TriageInv, AllMoving, Matched,
                      ~raced, tickets # <<>>, ByOptions(attendance)
               PROVE  AsksFor(attendance, tickets[1].wanted)
    BY DEF TicketMatchesPath, AsksFor
  <2>1. attendance.result = "ticket"
    BY DEF Matched, NoTicketYet
  <2>2. 1 \in DOMAIN tickets
    <3>1. tickets \in Seq(Ticket)
      BY DEF TriageInv, TriageTypeOK
    <3> QED
      BY <3>1, EmptySeq
  <2>3. tickets[1].wanted = Payload(attendance)
    BY <2>2 DEF Matched
  <2>4. attendance \in Attendance /\ Path(attendance) /\ Moving(attendance)
    BY DEF TriageInv, TriageTypeOK, AllMoving
  <2> QED
    BY <2>1, <2>3, <2>4, WalkAsksFor
<1> QED
  BY <1>1, TriageInvariant, MovingInvariant, MatchedInvariant, PTL
=============================================================================
