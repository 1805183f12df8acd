------------------------- MODULE EmailOutboxProofs --------------------------
(***************************************************************************)
(* Proofs about EmailOutbox: for any number of replicas, rows, attempts    *)
(* and any batch size, and with every fault of the model, OutboxInv is an  *)
(* invariant.  ClaimExclusive and WithinBudget follow from it, and the     *)
(* finality of SENT and DEAD rows; RepeatsExplained with AllRecorded.      *)
(***************************************************************************)
EXTENDS EmailOutbox, TLAPS

USE EmailOutboxAssumption

\* A job a worker has is on the only row it can be on.
LEMMA InvFacts ==
  ASSUME OutboxInv, NEW w \in Worker, NEW e \in Entry
  PROVE  /\ row[e] \in Row /\ job[w][e] \in Job
         /\ tries[e] \in Nat /\ delivered[e] \in Nat /\ unrecorded[e] \in Nat
         /\ Holding(w, e) /\ Counted(e)
         /\ \A v \in Worker :
              job[v][e].pc # "none" /\ job[w][e].pc # "none" => v = w
  BY DEF OutboxInv, OutboxTypeOK, ClaimExclusive

\* What is used of the number of POSTs of some tries.
LEMMA PostsFacts ==
  /\ \A n \in Nat : Posts(n) \in Nat /\ Posts(n + 1) = Posts(n) + MaxPosts
  /\ \A m, n \in Nat : m <= n => Posts(m) <= Posts(n)
<1>1. \A n \in Nat : Posts(n) \in Nat /\ Posts(n + 1) = Posts(n) + MaxPosts
  BY DEF Posts
<1>2. ASSUME NEW m \in Nat, NEW n \in Nat, m <= n PROVE Posts(m) <= Posts(n)
  <2> DEFINE k == n - m
  <2>1. k \in Nat /\ n = m + k
    BY <1>2
  <2> HIDE DEF k
  <2>2. MaxPosts * k \in Nat /\ MaxPosts * m \in Nat
    BY <2>1
  <2>3. MaxPosts * n = MaxPosts * m + MaxPosts * k
    BY <2>1
  <2> QED
    BY <2>2, <2>3 DEF Posts
<1> QED
  BY <1>1, <1>2

\* A job that leaves _send.
LEMMA LeavingFacts ==
  ASSUME NEW x \in Job, NEW pc \in {"mark", "failed"}
  PROVE  /\ [x EXCEPT !.pc = pc, !.posts = 0] \in Job
         /\ [x EXCEPT !.pc = pc, !.posts = 0].pc = pc
         /\ [x EXCEPT !.pc = pc, !.posts = 0].attempts = x.attempts
<1>1. 0 \in 0..(MaxPosts - 1)
  OBVIOUS
<1> DEFINE P == 0..(MaxPosts - 1)
<1>2. Job = [pc : {"none", "locked", "send", "mark", "failed"}, attempts : 0..MaxAttempts,
             posts : P]
  BY DEF Job
<1>3. 0 \in P
  BY <1>1
<1> HIDE DEF P
<1> QED
  BY <1>2, <1>3

\* What AcceptedUnheard counts: the same for both counters.
LEMMA UnheardFacts ==
  ASSUME OutboxInv, NEW S \in SUBSET Entry, AcceptedUnheard(S)
  PROVE  /\ delivered' \in [Entry -> Nat] /\ unrecorded' \in [Entry -> Nat]
         /\ \A e \in S : /\ delivered'[e] = delivered[e] + 1
                         /\ unrecorded'[e] = unrecorded[e] + 1
         /\ \A e \in Entry \ S : /\ delivered'[e] = delivered[e]
                                 /\ unrecorded'[e] = unrecorded[e]
  BY DEF AcceptedUnheard, OutboxInv, OutboxTypeOK

\* The invariant holds while nothing is enqueued.
LEMMA OutboxInitially == OutboxInit => OutboxInv
<1> SUFFICES ASSUME OutboxInit PROVE OutboxInv
  OBVIOUS
<1>1. OutboxTypeOK
  BY DEF OutboxInit, OutboxTypeOK, Row, RowStatus, Job, NoJob
<1>2. ClaimExclusive
  BY DEF OutboxInit, ClaimExclusive, NoJob
<1>3. \A w \in Worker, e \in Entry : Holding(w, e)
  BY DEF OutboxInit, Holding, NoJob
<1>4. \A e \in Entry : Counted(e)
  <2> Posts(0) \in Nat
    BY PostsFacts
  <2> QED
    BY DEF OutboxInit, Counted, NoJob
<1> QED
  BY <1>1, <1>2, <1>3, <1>4 DEF OutboxInv

\* What a step that changes one row, one job and the counters of one entry
\* must establish about that entry; the others keep what they had.
LEMMA OneEntry ==
  ASSUME OutboxInv, NEW w \in Worker, NEW e \in Entry,
         NEW x \in Row, NEW j \in Job,
         row' = [row EXCEPT ![e] = x],
         job' = [job EXCEPT ![w][e] = j],
         tries' = tries,
         delivered' \in [Entry -> Nat], unrecorded' \in [Entry -> Nat],
         \A f \in Entry : f # e => delivered'[f] = delivered[f],
         job[w][e].pc # "none",
         Holding(w, e)', Counted(e)'
  PROVE  OutboxInv'
<1>1. OutboxTypeOK'
  BY DEF OutboxInv, OutboxTypeOK
<1>2. \A v \in Worker, f \in Entry :
        job'[v][f] = IF v = w /\ f = e THEN j ELSE job[v][f]
  BY DEF OutboxInv, OutboxTypeOK
<1>3. \A v \in Worker : v # w => job[v][e].pc = "none"
  BY InvFacts
<1>4. ClaimExclusive'
  BY <1>2, <1>3 DEF OutboxInv, ClaimExclusive
<1>5. ASSUME NEW v \in Worker, NEW f \in Entry PROVE Holding(v, f)'
  <2>1. CASE f # e
    BY <1>2, <2>1, InvFacts DEF Holding, OutboxInv, OutboxTypeOK
  <2>2. CASE f = e /\ v # w
    BY <1>2, <1>3, <2>2 DEF Holding
  <2> QED
    BY <2>1, <2>2
<1>6. ASSUME NEW f \in Entry, f # e PROVE Counted(f)'
  BY <1>2, <1>6 DEF OutboxInv, OutboxTypeOK, Counted
<1> QED
  BY <1>1, <1>4, <1>5, <1>6 DEF OutboxInv

\* A step that only takes jobs away keeps the invariant, whether or not the
\* POST of a job in _send is accepted.
LEMMA JobsDropped ==
  ASSUME OutboxInv,
         UNCHANGED <<row, tries>>,
         delivered' \in [Entry -> Nat], unrecorded' \in [Entry -> Nat],
         job' \in [Worker -> [Entry -> Job]],
         \A v \in Worker, e \in Entry :
           job'[v][e] = job[v][e] \/ job'[v][e] = NoJob,
         \A e \in Entry :
           \/ delivered'[e] = delivered[e]
           \/ /\ delivered'[e] = delivered[e] + 1
              /\ \E v \in Worker : job[v][e].pc = "send" /\ job'[v][e] = NoJob
  PROVE  OutboxInv'
<1>1. NoJob.pc = "none"
  BY DEF NoJob
<1>2. OutboxTypeOK'
  BY DEF OutboxInv, OutboxTypeOK
<1>3. ClaimExclusive'
  BY <1>1 DEF OutboxInv, ClaimExclusive
<1>4. ASSUME NEW v \in Worker, NEW e \in Entry PROVE Holding(v, e)'
  BY <1>1, InvFacts DEF Holding
<1>5. ASSUME NEW e \in Entry PROVE Counted(e)'
  <2>1. CASE delivered'[e] = delivered[e]
    BY <1>1, <2>1 DEF OutboxInv, Counted
  <2>2. CASE delivered'[e] # delivered[e]
    <3>1. PICK v \in Worker : job[v][e].pc = "send" /\ job'[v][e] = NoJob
      BY <2>2
    <3>2. delivered'[e] = delivered[e] + 1
      BY <2>2
    <3>3. /\ row[e] \in Row /\ job[v][e] \in Job /\ tries[e] \in Nat /\ delivered[e] \in Nat
          /\ Holding(v, e) /\ Counted(e)
      BY InvFacts
    <3>4. \A u \in Worker : job'[u][e].pc = "none"
      BY <1>1, <3>1, InvFacts
    <3>5. row[e].status = "processing" /\ row[e].attempts \in Nat /\ job[v][e].posts + 1 <= MaxPosts
      BY <3>1, <3>3 DEF Holding, Row, Job
    <3>6. tries[e] = row[e].attempts + 1 /\ row[e].attempts < MaxAttempts
      BY <3>3, <3>5 DEF Counted
    <3>7. delivered[e] <= Posts(row[e].attempts) + job[v][e].posts
      BY <3>1, <3>3 DEF Counted
    <3>8. delivered'[e] <= Posts(row[e].attempts) + MaxPosts
      <4>1. Posts(row[e].attempts) \in Nat
        BY <3>5, PostsFacts
      <4>2. job[v][e].posts \in Nat
        BY <3>3 DEF Job
      <4> QED
        BY <3>2, <3>3, <3>5, <3>7, <4>1, <4>2
    <3> QED
      BY <3>4, <3>5, <3>6, <3>8 DEF Counted
  <2> QED
    BY <2>1, <2>2
<1> QED
  BY <1>2, <1>3, <1>4, <1>5 DEF OutboxInv

\* Enqueueing and time touch rows that no worker is processing.
LEMMA RowKeeps ==
  ASSUME OutboxInv, NEW e \in Entry, Enqueue(e) \/ BecomeDue(e)
  PROVE  OutboxInv'
<1>1. /\ UNCHANGED <<job, tries, delivered, unrecorded>>
      /\ row[e].status \in {"absent", "retry"}
      /\ row'[e].status \in {"pending", "retry"}
      /\ row'[e].attempts = row[e].attempts
      /\ \A f \in Entry : f # e => row'[f] = row[f]
      /\ row' \in [Entry -> Row]
  <2> row \in [Entry -> Row]
    BY DEF OutboxInv, OutboxTypeOK
  <2>1. CASE Enqueue(e)
    <3> DEFINE x == [row[e] EXCEPT !.status = "pending", !.due = TRUE]
    <3>1. x \in Row /\ x.status = "pending" /\ x.attempts = row[e].attempts
      BY DEF Row, RowStatus
    <3>2. row' = [row EXCEPT ![e] = x]
      BY <2>1 DEF Enqueue
    <3> HIDE DEF x
    <3> QED
      BY <2>1, <3>1, <3>2 DEF Enqueue, counters
  <2>2. CASE BecomeDue(e)
    <3> DEFINE x == [row[e] EXCEPT !.due = TRUE]
    <3>1. x \in Row /\ x.status = row[e].status /\ x.attempts = row[e].attempts
      BY DEF Row, RowStatus
    <3>2. row' = [row EXCEPT ![e] = x]
      BY <2>2 DEF BecomeDue
    <3> HIDE DEF x
    <3> QED
      BY <2>2, <3>1, <3>2 DEF BecomeDue, counters
  <2> QED
    BY <2>1, <2>2
<1>2. OutboxTypeOK' /\ ClaimExclusive'
  BY <1>1 DEF OutboxInv, OutboxTypeOK, ClaimExclusive
<1>3. ASSUME NEW w \in Worker, NEW f \in Entry PROVE Holding(w, f)'
  BY <1>1, InvFacts DEF Holding
<1>4. ASSUME NEW f \in Entry PROVE Counted(f)'
  BY <1>1, InvFacts DEF OutboxInv, Counted, Holding
<1> QED
  BY <1>2, <1>3, <1>4 DEF OutboxInv

\* Only rows that wait and that nobody has locked are selected.
LEMMA SelectKeeps ==
  ASSUME OutboxInv, NEW w \in Worker, Select(w)
  PROVE  OutboxInv'
<1>1. PICK S \in SUBSET Claimable :
        job' = [job EXCEPT ![w] =
          [e \in Entry |-> IF e \in S THEN [pc |-> "locked", attempts |-> row[e].attempts,
                                             posts |-> 0]
                           ELSE @[e]]]
  BY DEF Select, SetJob
<1>2. UNCHANGED <<row, tries, delivered, unrecorded>> /\ \A e \in Entry : job[w][e].pc = "none"
  BY DEF Select, Busy, counters
<1>3. \A v \in Worker, e \in Entry :
        /\ v = w /\ e \in S => /\ job'[v][e].pc = "locked"
                              /\ job'[v][e].attempts = row[e].attempts
        /\ ~(v = w /\ e \in S) => job'[v][e] = job[v][e]
  BY <1>1 DEF OutboxInv, OutboxTypeOK
<1>4. \A e \in S : e \in Entry /\ row[e].status \in {"pending", "retry"}
                   /\ \A v \in Worker : job[v][e].pc = "none"
  <2> SUFFICES ASSUME NEW e \in S
               PROVE  /\ e \in Entry /\ row[e].status \in {"pending", "retry"}
                      /\ \A v \in Worker : job[v][e].pc = "none"
    OBVIOUS
  <2>1. e \in Entry /\ Due(e) /\ ~Locked(e)
    BY DEF Claimable
  <2>2. row[e].status \in {"pending", "retry"} /\ \A v \in Worker : job[v][e].pc # "locked"
    BY <2>1 DEF Due, Locked
  <2>3. ASSUME NEW v \in Worker PROVE job[v][e].pc = "none"
    <3>1. job[v][e].pc \in {"none", "locked", "send", "mark", "failed"}
      BY <2>1, InvFacts DEF Job
    <3>2. Holding(v, e)
      BY <2>1, InvFacts
    <3> QED
      BY <2>2, <3>1, <3>2 DEF Holding
  <2> QED
    BY <2>1, <2>2, <2>3
<1>5. OutboxTypeOK'
  <2>1. \A e \in Entry : row[e].attempts \in 0..MaxAttempts
    BY DEF OutboxInv, OutboxTypeOK, Row
  <2>2. job' \in [Worker -> [Entry -> Job]]
    BY <1>1, <2>1 DEF OutboxInv, OutboxTypeOK, Job
  <2> QED
    BY <1>2, <2>2 DEF OutboxInv, OutboxTypeOK
<1>6. ClaimExclusive'
  <2> SUFFICES ASSUME NEW e \in Entry, NEW u \in Worker, NEW v \in Worker,
                      job'[u][e].pc # "none", job'[v][e].pc # "none"
               PROVE  u = v
    BY DEF ClaimExclusive
  <2>1. CASE e \in S
    BY <1>3, <1>4, <2>1
  <2>2. CASE e \notin S
    BY <1>3, <2>2 DEF OutboxInv, ClaimExclusive
  <2> QED
    BY <2>1, <2>2
<1>7. ASSUME NEW v \in Worker, NEW e \in Entry PROVE Holding(v, e)'
  <2>1. CASE v = w /\ e \in S
    BY <1>2, <1>3, <1>4, <2>1 DEF Holding
  <2>2. CASE ~(v = w /\ e \in S)
    BY <1>2, <1>3, <2>2, InvFacts DEF Holding
  <2> QED
    BY <2>1, <2>2
<1>8. ASSUME NEW e \in Entry PROVE Counted(e)'
  <2>1. \A v \in Worker : job'[v][e].pc = "locked" \/ job'[v][e] = job[v][e]
    BY <1>3
  <2> QED
    BY <1>2, <2>1 DEF OutboxInv, Counted
<1> QED
  BY <1>5, <1>6, <1>7, <1>8 DEF OutboxInv

\* The UPDATE changes exactly the rows its worker has locked.
LEMMA ClaimKeeps ==
  ASSUME OutboxInv, NEW w \in Worker, Claim(w)
  PROVE  OutboxInv'
<1> DEFINE L == LockedBy(w)
<1>1. /\ \A e \in Entry : row'[e] = IF e \in L
                THEN [row[e] EXCEPT !.status = "processing", !.owner = w] ELSE row[e]
      /\ UNCHANGED <<delivered, unrecorded>>
      /\ row' \in [Entry -> Row]
  BY ZenonT(60) DEF Claim, counters, OutboxInv, OutboxTypeOK, Row, RowStatus
<1>2. \A v \in Worker, e \in Entry :
        job'[v][e] = IF v = w /\ e \in L THEN [job[w][e] EXCEPT !.pc = "send"] ELSE job[v][e]
  BY DEF Claim, SetJob, OutboxInv, OutboxTypeOK
<1>3. \A e \in Entry : e \in L <=> job[w][e].pc = "locked"
  BY DEF LockedBy
<1>11. /\ tries' \in [Entry -> Nat]
       /\ \A e \in Entry : tries'[e] = IF e \in L THEN tries[e] + 1 ELSE tries[e]
  <2>1. tries \in [Entry -> Nat]
    BY DEF OutboxInv, OutboxTypeOK
  <2>2. tries' = [e \in Entry |-> IF e \in L THEN tries[e] + 1 ELSE tries[e]]
    BY DEF Claim
  <2> HIDE DEF L
  <2> QED
    BY <2>1, <2>2
<1>4. \A v \in Worker, e \in Entry : e \in L /\ v # w => job[v][e].pc = "none"
  BY <1>3, InvFacts
<1>5. OutboxTypeOK'
  <2> DEFINE j == [e \in Entry |-> [job[w][e] EXCEPT !.pc = "send"]]
             f == [e \in Entry |-> IF e \in L THEN j[e] ELSE job[w][e]]
  <2>1. j \in [Entry -> Job]
    BY DEF OutboxInv, OutboxTypeOK, Job
  <2>2. job' = [job EXCEPT ![w] = f]
    BY DEF Claim, SetJob
  <2> HIDE DEF j
  <2>3. f \in [Entry -> Job]
    BY <2>1 DEF OutboxInv, OutboxTypeOK
  <2> HIDE DEF f
  <2>4. job' \in [Worker -> [Entry -> Job]]
    BY <2>2, <2>3 DEF OutboxInv, OutboxTypeOK
  <2> QED
    BY <1>1, <1>11, <2>4 DEF OutboxInv, OutboxTypeOK
<1> HIDE DEF L
<1>6. \A v \in Worker, e \in Entry :
        /\ job'[v][e].attempts = job[v][e].attempts
        /\ v = w /\ e \in L => job'[v][e].pc = "send"
        /\ ~(v = w /\ e \in L) => job'[v][e] = job[v][e]
  <2>1. \A x \in Job : /\ [x EXCEPT !.pc = "send"].pc = "send"
                       /\ [x EXCEPT !.pc = "send"].attempts = x.attempts
    BY DEF Job
  <2> SUFFICES ASSUME NEW v \in Worker, NEW e \in Entry
               PROVE  /\ job'[v][e].attempts = job[v][e].attempts
                      /\ v = w /\ e \in L => job'[v][e].pc = "send"
                      /\ ~(v = w /\ e \in L) => job'[v][e] = job[v][e]
    OBVIOUS
  <2>2. job[w][e] \in Job
    BY InvFacts
  <2>3. CASE v = w /\ e \in L
    <3>1. job'[v][e] = [job[w][e] EXCEPT !.pc = "send"]
      BY <1>2, <2>3
    <3> QED
      BY <2>1, <2>2, <2>3, <3>1
  <2>4. CASE ~(v = w /\ e \in L)
    BY <1>2, <2>4
  <2> QED
    BY <2>3, <2>4
<1>7. \A e \in Entry :
        /\ row'[e].attempts = row[e].attempts
        /\ e \in L => row'[e].status = "processing" /\ row'[e].owner = w
        /\ e \notin L => row'[e] = row[e]
  BY <1>1, InvFacts DEF Row, OutboxInv, OutboxTypeOK
<1>8. ClaimExclusive'
  BY <1>3, <1>6 DEF OutboxInv, ClaimExclusive
<1>9. ASSUME NEW v \in Worker, NEW e \in Entry PROVE Holding(v, e)'
  <2>1. CASE e \in L /\ v = w
    BY <1>3, <1>6, <1>7, <2>1, InvFacts DEF Holding
  <2>2. CASE e \in L /\ v # w
    BY <1>4, <1>6, <2>2 DEF Holding
  <2>3. CASE e \notin L
    BY <1>6, <1>7, <2>3, InvFacts DEF Holding
  <2> QED
    BY <2>1, <2>2, <2>3
<1>10. ASSUME NEW e \in Entry PROVE Counted(e)'
  <2>1. /\ Counted(e) /\ Holding(w, e) /\ tries[e] \in Nat /\ delivered[e] \in Nat
        /\ row[e].attempts \in Nat /\ Posts(row[e].attempts) \in Nat
    BY InvFacts, PostsFacts DEF Row
  <2>2. CASE e \in L
    <3>1. row[e].status \in {"pending", "retry"}
      BY <1>3, <2>1, <2>2 DEF Holding
    <3>2. /\ tries[e] = row[e].attempts /\ row[e].attempts < MaxAttempts
          /\ delivered[e] <= Posts(row[e].attempts)
      BY <2>1, <3>1 DEF Counted
    <3>3. \A v \in Worker : job'[v][e].pc \in {"send", "none"} /\ job'[v][e].posts \in Nat
      BY <1>4, <1>5, <1>6, <2>2 DEF OutboxTypeOK, Job
    <3>4. tries'[e] = row[e].attempts + 1 /\ delivered'[e] = delivered[e]
      BY <1>1, <1>11, <2>2, <3>2
    <3>5. /\ delivered'[e] <= Posts(row[e].attempts) + MaxPosts
          /\ \A v \in Worker : delivered'[e] <= Posts(row[e].attempts) + job'[v][e].posts
      BY <2>1, <3>2, <3>3, <3>4
    <3>6. row'[e].status = "processing" /\ row'[e].attempts = row[e].attempts
      BY <1>7, <2>2
    <3> QED
      BY <3>2, <3>3, <3>4, <3>5, <3>6 DEF Counted
  <2>3. CASE e \notin L
    BY <1>1, <1>6, <1>7, <1>11, <2>1, <2>3 DEF Counted
  <2> QED
    BY <2>2, <2>3
<1> QED
  BY <1>5, <1>8, <1>9, <1>10 DEF OutboxInv

\* Every step of a worker on one claimed entry.
LEMMA ProcessKeeps ==
  ASSUME OutboxInv, NEW w \in Worker, NEW e \in Entry,
         Process(w, e) \/ MarkSentFails(w, e)
  PROVE  OutboxInv'
<1>1. /\ row[e] \in Row /\ job[w][e] \in Job /\ tries[e] \in Nat /\ delivered[e] \in Nat
      /\ unrecorded[e] \in Nat /\ Holding(w, e) /\ Counted(e)
  BY InvFacts
<1>2. /\ row \in [Entry -> Row] /\ job \in [Worker -> [Entry -> Job]]
      /\ tries \in [Entry -> Nat] /\ delivered \in [Entry -> Nat]
      /\ unrecorded \in [Entry -> Nat]
  BY DEF OutboxInv, OutboxTypeOK
<1>3. \A v \in Worker : v # w /\ job[w][e].pc # "none" => job[v][e].pc = "none"
  BY InvFacts
<1>4. row = [row EXCEPT ![e] = row[e]]
  BY <1>2
<1>5. /\ row[e].attempts \in Nat /\ Posts(row[e].attempts) \in Nat
      /\ Posts(row[e].attempts + 1) = Posts(row[e].attempts) + MaxPosts
  <2>1. row[e].attempts \in Nat
    BY <1>1 DEF Row
  <2> QED
    BY <2>1, PostsFacts
\* The worker goes on with the entry: its row stays as it is.
<1>6. ASSUME NEW j \in Job,
             j.pc \in {"send", "mark", "failed"}, j.attempts = job[w][e].attempts,
             job' = [job EXCEPT ![w][e] = j], UNCHANGED <<row, tries>>,
             job[w][e].pc \in {"send", "mark"},
             delivered' \in [Entry -> Nat], unrecorded' \in [Entry -> Nat],
             \A f \in Entry : f # e => delivered'[f] = delivered[f],
             delivered'[e] <= Posts(row[e].attempts) + MaxPosts,
             j.pc = "send" => delivered'[e] <= Posts(row[e].attempts) + j.posts,
             j.pc = "mark" => delivered'[e] > 0
      PROVE  OutboxInv'
  <2>1. \A v \in Worker : job'[v][e] = IF v = w THEN j ELSE job[v][e]
    BY <1>2, <1>6
  <2>2. \A v \in Worker : v # w => job'[v][e].pc = "none"
    BY <1>3, <1>6, <2>1
  <2>3. Holding(w, e)'
    BY <1>1, <1>6, <2>1 DEF Holding
  <2>4. /\ row[e].status = "processing" /\ tries[e] = row[e].attempts + 1
        /\ row[e].attempts < MaxAttempts
    BY <1>1, <1>6 DEF Holding, Counted
  <2>5. Counted(e)'
    BY <1>6, <2>1, <2>2, <2>4 DEF Counted
  <2>6. row' = [row EXCEPT ![e] = row[e]]
    BY <1>4, <1>6
  <2> QED
    BY <1>1, <1>6, <2>3, <2>5, <2>6, OneEntry
\* The row is marked and the job is over.
<1>7. ASSUME NEW x \in Row, x.status \in {"sent", "retry", "dead"},
             row' = [row EXCEPT ![e] = x], DropOne(w, e), UNCHANGED counters,
             job[w][e].pc \in {"mark", "failed"},
             x.status = "sent" => x.attempts = row[e].attempts /\ delivered[e] > 0,
             x.status = "retry" => x.attempts = row[e].attempts + 1 /\ x.attempts < MaxAttempts,
             x.status = "dead" => row[e].attempts + 1 = MaxAttempts
      PROVE  OutboxInv'
  <2>1. NoJob \in Job /\ NoJob.pc = "none" /\ job' = [job EXCEPT ![w][e] = NoJob]
    BY <1>2, <1>7 DEF NoJob, Job, DropOne
  <2>2. row'[e] = x /\ \A v \in Worker : job'[v][e].pc = "none"
    BY <1>2, <1>3, <1>7, <2>1
  <2>3. Holding(w, e)'
    BY <2>2 DEF Holding
  <2>4. /\ tries[e] = row[e].attempts + 1 /\ row[e].attempts < MaxAttempts
        /\ delivered[e] <= Posts(row[e].attempts) + MaxPosts
    BY <1>1, <1>7 DEF Holding, Counted
  <2>5. tries' = tries /\ delivered' = delivered /\ unrecorded' = unrecorded
    BY <1>7 DEF counters
  <2>6. Counted(e)'
    <3>1. CASE x.status = "sent"
      BY <1>5, <1>7, <2>2, <2>4, <2>5, <3>1 DEF Counted
    <3>2. CASE x.status = "retry"
      BY <1>5, <1>7, <2>2, <2>4, <2>5, <3>2 DEF Counted
    <3>3. CASE x.status = "dead"
      BY <1>5, <1>7, <2>2, <2>4, <2>5, <3>3 DEF Counted
    <3> QED
      BY <1>7, <3>1, <3>2, <3>3
  <2> QED
    BY <1>1, <1>2, <1>7, <2>1, <2>3, <2>5, <2>6, OneEntry
\* What the job in _send may still have accepted.
<1>8. job[w][e].pc = "send" =>
        /\ job[w][e].posts \in Nat /\ job[w][e].posts + 1 <= MaxPosts
        /\ delivered[e] <= Posts(row[e].attempts) + job[w][e].posts
        /\ delivered[e] + 1 <= Posts(row[e].attempts) + (job[w][e].posts + 1)
        /\ delivered[e] + 1 <= Posts(row[e].attempts) + MaxPosts
  BY <1>1, <1>5 DEF Counted, Job
<1>9. CASE SendOk(w, e)
  <2> DEFINE j == [job[w][e] EXCEPT !.pc = "mark", !.posts = 0]
  <2>1. j \in Job /\ j.pc = "mark" /\ j.attempts = job[w][e].attempts
    BY <1>1, LeavingFacts
  <2>2. /\ job' = [job EXCEPT ![w][e] = j] /\ UNCHANGED <<row, tries, unrecorded>>
        /\ delivered' = [delivered EXCEPT ![e] = delivered[e] + 1]
        /\ job[w][e].pc = "send"
    BY <1>2, <1>9 DEF SendOk, LeaveSend
  <2> HIDE DEF j
  <2>3. /\ delivered' \in [Entry -> Nat] /\ unrecorded' \in [Entry -> Nat]
        /\ delivered'[e] = delivered[e] + 1
        /\ \A f \in Entry : f # e => delivered'[f] = delivered[f]
    BY <1>2, <2>2
  <2>4. delivered'[e] <= Posts(row[e].attempts) + MaxPosts /\ delivered'[e] > 0
    BY <1>1, <1>8, <2>2, <2>3
  <2> QED
    BY <1>6, <2>1, <2>2, <2>3, <2>4
<1>10. CASE PostAgain(w, e)
  <2> DEFINE j == [job[w][e] EXCEPT !.posts = job[w][e].posts + 1]
  <2>1. /\ job[w][e].pc = "send" /\ job[w][e].posts + 1 < MaxPosts
        /\ job' = [job EXCEPT ![w][e] = j] /\ UNCHANGED <<row, tries>>
    BY <1>2, <1>10 DEF PostAgain
  <2>2. /\ j \in Job /\ j.pc = "send" /\ j.attempts = job[w][e].attempts
        /\ j.posts = job[w][e].posts + 1
    BY <1>1, <2>1 DEF Job
  <2> HIDE DEF j
  <2>3. PICK S \in SUBSET {e} : AcceptedUnheard(S)
    BY <1>10 DEF PostAgain
  <2>4. /\ delivered' \in [Entry -> Nat] /\ unrecorded' \in [Entry -> Nat]
        /\ delivered'[e] \in {delivered[e], delivered[e] + 1}
        /\ \A f \in Entry : f # e => delivered'[f] = delivered[f]
    BY <2>3, UnheardFacts
  <2>5. /\ delivered'[e] <= Posts(row[e].attempts) + j.posts
        /\ delivered'[e] <= Posts(row[e].attempts) + MaxPosts
    BY <1>1, <1>5, <1>8, <2>1, <2>2, <2>4
  <2> QED
    BY <1>6, <2>1, <2>2, <2>4, <2>5
<1>11. CASE SendFails(w, e)
  <2> DEFINE j == [job[w][e] EXCEPT !.pc = "failed", !.posts = 0]
  <2>1. job[w][e].pc = "send" /\ job' = [job EXCEPT ![w][e] = j] /\ UNCHANGED <<row, tries>>
    BY <1>2, <1>11 DEF SendFails, LeaveSend
  <2>2. j \in Job /\ j.pc = "failed" /\ j.attempts = job[w][e].attempts
    BY <1>1, LeavingFacts
  <2> HIDE DEF j
  <2>3. PICK S \in SUBSET {e} : AcceptedUnheard(S)
    BY <1>11 DEF SendFails
  <2>4. /\ delivered' \in [Entry -> Nat] /\ unrecorded' \in [Entry -> Nat]
        /\ delivered'[e] \in {delivered[e], delivered[e] + 1}
        /\ \A f \in Entry : f # e => delivered'[f] = delivered[f]
    BY <2>3, UnheardFacts
  <2>5. delivered'[e] <= Posts(row[e].attempts) + MaxPosts
    BY <1>1, <1>5, <1>8, <2>1, <2>4
  <2> QED
    BY <1>6, <2>1, <2>2, <2>4, <2>5
<1>12. CASE RenderFails(w, e) \/ MarkSentFails(w, e)
  <2> DEFINE j == [job[w][e] EXCEPT !.pc = "failed"]
  <2>1. /\ job[w][e].pc \in {"send", "mark"} /\ job' = [job EXCEPT ![w][e] = j]
        /\ UNCHANGED <<row, tries, delivered>> /\ unrecorded' \in [Entry -> Nat]
    BY <1>2, <1>12 DEF RenderFails, MarkSentFails, SetOne, counters
  <2>2. j \in Job /\ j.pc = "failed" /\ j.attempts = job[w][e].attempts
    BY <1>1 DEF Job
  <2> HIDE DEF j
  <2>3. delivered'[e] <= Posts(row[e].attempts) + MaxPosts
    BY <1>1, <2>1 DEF Holding, Counted
  <2> QED
    BY <1>2, <1>6, <2>1, <2>2, <2>3
<1>13. CASE MarkSent(w, e)
  <2> DEFINE x == [row[e] EXCEPT !.status = "sent", !.owner = Nobody]
  <2>1. x \in Row /\ x.status = "sent" /\ x.attempts = row[e].attempts
    BY <1>1 DEF Row, RowStatus
  <2>2. row' = [row EXCEPT ![e] = x]
    BY <1>2, <1>13 DEF MarkSent
  <2>3. delivered[e] > 0
    BY <1>1, <1>13 DEF MarkSent, Counted
  <2> HIDE DEF x
  <2> QED
    BY <1>7, <1>13, <2>1, <2>2, <2>3 DEF MarkSent
<1>14. CASE MarkRetry(w, e)
  <2> DEFINE x == [status |-> "retry", attempts |-> job[w][e].attempts + 1,
                   due |-> FALSE, owner |-> Nobody]
  <2>1. /\ row' = [row EXCEPT ![e] = x]
        /\ job[w][e].pc = "failed" /\ job[w][e].attempts + 1 < MaxAttempts
    BY <1>14 DEF MarkRetry
  <2>2. job[w][e].attempts = row[e].attempts
    BY <1>1, <2>1 DEF Holding
  <2>3. x \in Row
    BY <1>1, <2>1 DEF Row, RowStatus, Job
  <2>4. x.status = "retry" /\ x.attempts = row[e].attempts + 1 /\ x.attempts < MaxAttempts
    BY <2>1, <2>2
  <2> HIDE DEF x
  <2> QED
    BY <1>7, <1>14, <2>1, <2>3, <2>4 DEF MarkRetry
<1>15. CASE MarkDead(w, e)
  <2> DEFINE x == [row[e] EXCEPT !.status = "dead", !.owner = Nobody]
  <2>1. x \in Row /\ x.status = "dead"
    BY <1>1 DEF Row, RowStatus
  <2>2. row' = [row EXCEPT ![e] = x]
    BY <1>2, <1>15 DEF MarkDead
  <2>3. row[e].attempts < MaxAttempts /\ job[w][e].attempts = row[e].attempts
    BY <1>1, <1>15 DEF MarkDead, Holding, Counted
  <2>4. row[e].attempts + 1 = MaxAttempts
    BY <1>5, <1>15, <2>3 DEF MarkDead
  <2> HIDE DEF x
  <2> QED
    BY <1>7, <1>15, <2>1, <2>2, <2>4 DEF MarkDead
<1> QED
  BY <1>9, <1>10, <1>11, <1>12, <1>13, <1>14, <1>15 DEF Process

\* A failed claim, a stopped worker and an unrecorded failure only drop jobs.
LEMMA FaultKeeps ==
  ASSUME OutboxInv, NEW w \in Worker, Fault(w)
  PROVE  OutboxInv'
<1>1. /\ job \in [Worker -> [Entry -> Job]] /\ NoJob \in Job
      /\ delivered \in [Entry -> Nat] /\ unrecorded \in [Entry -> Nat]
  BY DEF OutboxInv, OutboxTypeOK, NoJob, Job
<1>2. CASE ClaimFails(w)
  <2>1. /\ job' = [job EXCEPT ![w] = [e \in Entry |-> NoJob]]
        /\ UNCHANGED <<row, tries, delivered, unrecorded>>
    BY <1>2 DEF ClaimFails, counters
  <2>2. /\ job' \in [Worker -> [Entry -> Job]]
        /\ \A v \in Worker, e \in Entry : job'[v][e] = job[v][e] \/ job'[v][e] = NoJob
    BY <1>1, <2>1
  <2> QED
    BY <1>1, <2>1, <2>2, JobsDropped
<1>3. ASSUME NEW e \in Entry, MarkFailureFails(w, e) PROVE OutboxInv'
  <2>1. /\ job' = [job EXCEPT ![w][e] = NoJob]
        /\ UNCHANGED <<row, tries, delivered, unrecorded>>
    BY <1>3 DEF MarkFailureFails, DropOne, counters
  <2>2. /\ job' \in [Worker -> [Entry -> Job]]
        /\ \A v \in Worker, f \in Entry : job'[v][f] = job[v][f] \/ job'[v][f] = NoJob
    BY <1>1, <2>1
  <2> QED
    BY <1>1, <2>1, <2>2, JobsDropped
<1>4. ASSUME NEW e \in Entry, MarkSentFails(w, e) PROVE OutboxInv'
  BY <1>4, ProcessKeeps
<1>5. CASE WorkerStops(w)
  <2>1. /\ job' = [job EXCEPT ![w] = [e \in Entry |-> NoJob]]
        /\ UNCHANGED <<row, tries>>
    BY <1>5 DEF WorkerStops
  <2>2. PICK S \in SUBSET {e \in Entry : job[w][e].pc = "send"} : AcceptedUnheard(S)
    BY <1>5 DEF WorkerStops
  <2>3. /\ job' \in [Worker -> [Entry -> Job]]
        /\ \A v \in Worker, e \in Entry : job'[v][e] = job[v][e] \/ job'[v][e] = NoJob
        /\ \A e \in Entry : job'[w][e] = NoJob
    BY <1>1, <2>1
  <2>4. S \in SUBSET Entry /\ \A e \in S : job[w][e].pc = "send"
    OBVIOUS
  <2>5. delivered' \in [Entry -> Nat] /\ unrecorded' \in [Entry -> Nat]
    BY <2>2, <2>4, UnheardFacts
  <2>6. ASSUME NEW e \in Entry
        PROVE  \/ delivered'[e] = delivered[e]
               \/ /\ delivered'[e] = delivered[e] + 1
                  /\ \E v \in Worker : job[v][e].pc = "send" /\ job'[v][e] = NoJob
    <3>1. CASE e \in S
      BY <2>2, <2>3, <2>4, <3>1, UnheardFacts
    <3>2. CASE e \notin S
      BY <2>2, <2>4, <3>2, UnheardFacts
    <3> QED
      BY <3>1, <3>2
  <2> QED
    BY <2>1, <2>3, <2>5, <2>6, JobsDropped
<1> QED
  BY <1>2, <1>3, <1>4, <1>5 DEF Fault

\* Every step of the outbox keeps the invariant.
LEMMA OutboxStepKeeps == OutboxInv /\ [OutboxNext]_outboxVars => OutboxInv'
<1> SUFFICES ASSUME OutboxInv, [OutboxNext]_outboxVars PROVE OutboxInv'
  OBVIOUS
<1>1. CASE \E e \in Entry : Enqueue(e) \/ BecomeDue(e)
  BY <1>1, RowKeeps
<1>2. CASE \E w \in Worker : WorkerStep(w)
  BY <1>2, SelectKeeps, ClaimKeeps, ProcessKeeps DEF WorkerStep
<1>3. CASE \E w \in Worker : Fault(w)
  BY <1>3, FaultKeeps
<1>4. CASE UNCHANGED outboxVars
  BY <1>4 DEF outboxVars, OutboxInv, OutboxTypeOK, ClaimExclusive, Holding, Counted
<1> QED
  BY <1>1, <1>2, <1>3, <1>4 DEF OutboxNext

\* The inductive invariant holds in every reachable state, faults included.
THEOREM OutboxInvariant == OutboxSpec => []OutboxInv
<1> QED
  BY OutboxInitially, OutboxStepKeeps, PTL DEF OutboxSpec

\* FOR UPDATE SKIP LOCKED makes replicas safe: no two workers ever hold the
\* same row, from the SELECT to the last mark.
THEOREM ReplicasExclusive == OutboxSpec => []ClaimExclusive
<1>1. OutboxInv => ClaimExclusive
  BY DEF OutboxInv
<1> QED
  BY <1>1, OutboxInvariant, PTL

\* Nobody gets an email more often than all POSTs of max_attempts tries, a dead
\* one was tried exactly max_attempts times, and a sent one was accepted.
THEOREM AttemptsBudget == OutboxSpec => []WithinBudget
<1>1. OutboxInv => WithinBudget
  <2> SUFFICES ASSUME OutboxInv, NEW e \in Entry
               PROVE  /\ delivered[e] <= MaxAttempts * MaxPosts
                      /\ row[e].status = "dead" => tries[e] = MaxAttempts
                      /\ row[e].status = "sent" => delivered[e] > 0
    BY DEF WithinBudget
  <2>1. /\ row[e] \in Row /\ tries[e] \in Nat /\ delivered[e] \in Nat /\ Counted(e)
    BY DEF OutboxInv, OutboxTypeOK
  <2>2. row[e].attempts \in Nat /\ row[e].status \in RowStatus
    BY <2>1 DEF Row
  <2> DEFINE n == row[e].attempts
  <2>3. /\ Posts(n) \in Nat /\ Posts(n + 1) = Posts(n) + MaxPosts /\ Posts(MaxAttempts) \in Nat
        /\ n < MaxAttempts => Posts(n + 1) <= Posts(MaxAttempts)
    <3> n \in Nat /\ n + 1 \in Nat /\ MaxAttempts \in Nat
      BY <2>2
    <3> HIDE DEF n
    <3>1. n < MaxAttempts => n + 1 <= MaxAttempts
      OBVIOUS
    <3> QED
      BY <3>1, PostsFacts
  <2>4. \/ delivered[e] <= Posts(MaxAttempts)
        \/ n < MaxAttempts /\ delivered[e] <= Posts(n)
        \/ n < MaxAttempts /\ delivered[e] <= Posts(n) + MaxPosts
    BY <2>1, <2>2 DEF Counted, RowStatus
  <2>5. delivered[e] <= Posts(MaxAttempts)
    <3> HIDE DEF n
    <3> QED
      BY <2>1, <2>3, <2>4
  <2>6. Posts(MaxAttempts) = MaxAttempts * MaxPosts
    BY DEF Posts
  <2> QED
    BY <2>1, <2>5, <2>6 DEF Counted
<1> QED
  BY <1>1, OutboxInvariant, PTL

\* A step on other entries does not matter, nor one that counts an acceptance
\* nobody heard of; the rest are answers, marks and drops of the only job.
LEMMA RecordedKeeps ==
  OutboxInv /\ AllRecorded /\ [OutboxNext]_outboxVars => AllRecorded'
<1> SUFFICES ASSUME OutboxInv, AllRecorded, [OutboxNext]_outboxVars, NEW e \in Entry
             PROVE  Recorded(e)'
  BY DEF AllRecorded
<1>1. /\ row \in [Entry -> Row] /\ job \in [Worker -> [Entry -> Job]]
      /\ delivered \in [Entry -> Nat] /\ unrecorded \in [Entry -> Nat]
      /\ Recorded(e)
  BY DEF OutboxInv, OutboxTypeOK, AllRecorded
<1>2. ASSUME NEW w \in Worker PROVE Holding(w, e)
  BY <1>2 DEF OutboxInv
<1>3. CASE \E f \in Entry : Enqueue(f) \/ BecomeDue(f)
  BY <1>1, <1>3 DEF Enqueue, BecomeDue, counters, Recorded
<1>4. ASSUME NEW w \in Worker, Select(w) PROVE Recorded(e)'
  <2>1. PICK S \in SUBSET Claimable :
          job' = [job EXCEPT ![w] =
            [f \in Entry |-> IF f \in S THEN [pc |-> "locked", attempts |-> row[f].attempts,
                                               posts |-> 0]
                             ELSE @[f]]]
    BY <1>4 DEF Select, SetJob
  <2>2. UNCHANGED <<row, counters>>
    BY <1>4 DEF Select
  <2>3. CASE e \in S
    BY <1>1, <2>2, <2>3 DEF Claimable, Due, Recorded, counters
  <2>4. CASE e \notin S
    BY <1>1, <2>1, <2>2, <2>4 DEF Recorded, counters
  <2> QED
    BY <2>3, <2>4
<1>5. ASSUME NEW w \in Worker, Claim(w) PROVE Recorded(e)'
  <2>1. CASE job[w][e].pc = "locked"
    BY <1>1, <1>2, <1>5, <2>1 DEF Claim, Holding, Recorded
  <2>2. CASE job[w][e].pc # "locked"
    BY <1>1, <1>5, <2>2 DEF Claim, LockedBy, SetJob, Recorded
  <2> QED
    BY <2>1, <2>2
<1>6. ASSUME NEW w \in Worker, NEW f \in Entry, f # e,
             Process(w, f) \/ MarkSentFails(w, f) \/ MarkFailureFails(w, f)
      PROVE  Recorded(e)'
  <2>1. row'[e] = row[e] /\ \A v \in Worker : job'[v][e] = job[v][e]
    BY <1>1, <1>6 DEF Process, SendOk, PostAgain, SendFails, RenderFails, MarkSent, MarkRetry,
       MarkDead, MarkSentFails, MarkFailureFails, LeaveSend, SetOne, DropOne, counters
  <2>2. delivered'[e] = delivered[e] /\ unrecorded'[e] = unrecorded[e]
    <3>1. CASE PostAgain(w, f) \/ SendFails(w, f)
      <4>1. PICK S \in SUBSET {f} : AcceptedUnheard(S)
        BY <3>1 DEF PostAgain, SendFails
      <4> QED
        BY <1>6, <4>1, UnheardFacts
    <3>2. CASE ~(PostAgain(w, f) \/ SendFails(w, f))
      BY <1>1, <1>6, <3>2 DEF Process, SendOk, RenderFails, MarkSent, MarkRetry, MarkDead,
         MarkSentFails, MarkFailureFails, counters
    <3> QED
      BY <3>1, <3>2
  <2> QED
    BY <1>1, <2>1, <2>2 DEF Recorded
<1>7. ASSUME NEW w \in Worker, Process(w, e) PROVE Recorded(e)'
  <2>1. CASE SendOk(w, e)
    <3>1. row[e].status = "processing" /\ \A v \in Worker : v # w => job[v][e].pc = "none"
      BY <1>2, <2>1, InvFacts DEF SendOk, Holding
    <3>2. delivered[e] <= unrecorded[e]
      BY <1>1, <2>1 DEF SendOk, Recorded
    <3>3. /\ delivered'[e] = delivered[e] + 1 /\ row' = row /\ unrecorded' = unrecorded
          /\ job'[w][e].pc = "mark" /\ \A v \in Worker : v # w => job'[v][e] = job[v][e]
      BY <1>1, <2>1 DEF SendOk, LeaveSend, Job
    <3>4. delivered'[e] <= unrecorded'[e] \/ delivered'[e] = unrecorded'[e] + 1
      BY <1>1, <3>2, <3>3
    <3>5. \A v \in Worker : job'[v][e].pc \in {"none", "mark"}
      BY <3>1, <3>3
    <3> QED
      BY <3>1, <3>3, <3>4, <3>5 DEF Recorded
  <2>2. CASE PostAgain(w, e) \/ SendFails(w, e)
    <3>1. PICK S \in SUBSET {e} : AcceptedUnheard(S)
      BY <2>2 DEF PostAgain, SendFails
    <3>2. delivered[e] <= unrecorded[e]
      BY <1>1, <2>2 DEF PostAgain, SendFails, Recorded
    <3>3. \/ delivered'[e] = delivered[e] /\ unrecorded'[e] = unrecorded[e]
          \/ delivered'[e] = delivered[e] + 1 /\ unrecorded'[e] = unrecorded[e] + 1
      BY <3>1, UnheardFacts
    <3>4. delivered'[e] <= unrecorded'[e]
      BY <1>1, <3>2, <3>3
    <3> QED
      BY <3>4 DEF Recorded
  <2>3. CASE RenderFails(w, e) \/ MarkRetry(w, e) \/ MarkDead(w, e)
    BY <1>1, <2>3 DEF RenderFails, MarkRetry, MarkDead, counters, Recorded
  <2>4. CASE MarkSent(w, e)
    <3>1. /\ UNCHANGED counters /\ row'[e].status = "sent"
          /\ \A v \in Worker : job'[v][e] = job[v][e] \/ job'[v][e] = NoJob
      BY <1>1, <2>4 DEF MarkSent, DropOne, Row
    <3> QED
      BY <1>1, <3>1 DEF Recorded, counters, NoJob
  <2> QED
    BY <1>7, <2>1, <2>2, <2>3, <2>4 DEF Process
<1>8. ASSUME NEW w \in Worker, WorkerStops(w) PROVE Recorded(e)'
  <2>1. PICK S \in SUBSET {f \in Entry : job[w][f].pc = "send"} : AcceptedUnheard(S)
    BY <1>8 DEF WorkerStops
  <2>2. row' = row /\ job' = [job EXCEPT ![w] = [f \in Entry |-> NoJob]]
    BY <1>8 DEF WorkerStops
  <2>3. CASE e \in S
    <3>1. delivered[e] <= unrecorded[e]
      BY <1>1, <2>3 DEF Recorded
    <3>2. delivered'[e] = delivered[e] + 1 /\ unrecorded'[e] = unrecorded[e] + 1
      BY <2>1, <2>3, UnheardFacts
    <3>3. delivered'[e] <= unrecorded'[e]
      BY <1>1, <3>1, <3>2
    <3> QED
      BY <3>3 DEF Recorded
  <2>4. CASE e \notin S
    <3>1. delivered'[e] = delivered[e] /\ unrecorded'[e] = unrecorded[e]
      BY <2>1, <2>4, UnheardFacts
    <3>2. \A v \in Worker : job'[v][e] = job[v][e] \/ job'[v][e] = NoJob
      BY <1>1, <2>2
    <3> QED
      BY <1>1, <2>2, <3>1, <3>2 DEF Recorded, NoJob
  <2> QED
    BY <2>3, <2>4
<1>9. ASSUME NEW w \in Worker, Fault(w) PROVE Recorded(e)'
  <2>1. CASE ClaimFails(w)
    BY <1>1, <2>1 DEF ClaimFails, counters, Recorded, NoJob
  <2>2. CASE MarkSentFails(w, e)
    <3>1. delivered' = delivered /\ unrecorded'[e] = unrecorded[e] + 1
      BY <1>1, <2>2 DEF MarkSentFails
    <3>2. delivered'[e] <= unrecorded'[e]
      BY <1>1, <3>1 DEF Recorded
    <3> QED
      BY <3>2 DEF Recorded
  <2>3. CASE MarkFailureFails(w, e)
    BY <1>1, <2>3 DEF MarkFailureFails, counters, Recorded
  <2> QED
    BY <1>6, <1>8, <1>9, <2>1, <2>2, <2>3 DEF Fault
<1>10. CASE UNCHANGED outboxVars
  BY <1>1, <1>10 DEF outboxVars, Recorded
<1> QED
  BY <1>3, <1>4, <1>5, <1>6, <1>7, <1>9, <1>10 DEF OutboxNext, WorkerStep

\* A worker repeats an email only because an acceptance was not heard of or
\* could not be recorded, and then once for each.
THEOREM RepeatsHaveCauses == OutboxSpec => []RepeatsExplained
<1>1. OutboxInit => AllRecorded
  BY DEF OutboxInit, AllRecorded, Recorded
<1>2. OutboxInv /\ AllRecorded => RepeatsExplained
  <2> SUFFICES ASSUME OutboxInv, AllRecorded, NEW e \in Entry
               PROVE  delivered[e] <= unrecorded[e] + 1
    BY DEF RepeatsExplained
  <2>1. delivered[e] \in Nat /\ unrecorded[e] \in Nat /\ Recorded(e)
    BY DEF OutboxInv, OutboxTypeOK, AllRecorded
  <2> QED
    BY <2>1 DEF Recorded
<1> QED
  BY <1>1, <1>2, RecordedKeeps, OutboxInvariant, PTL DEF OutboxSpec

\* No step changes a row that is SENT or DEAD.
THEOREM TerminalRows == OutboxSpec => TerminalIsFinal
<1>1. OutboxInv /\ [OutboxNext]_outboxVars =>
        [\A e \in Entry : row[e].status \in {"sent", "dead"} => row'[e] = row[e]]_outboxVars
  <2> SUFFICES ASSUME OutboxInv, OutboxNext, NEW e \in Entry,
                      row[e].status \in {"sent", "dead"}
               PROVE  row'[e] = row[e]
    OBVIOUS
  <2>1. \A w \in Worker : job[w][e].pc = "none"
    BY InvFacts DEF Holding, Job
  <2>2. row \in [Entry -> Row]
    BY DEF OutboxInv, OutboxTypeOK
  <2>3. CASE \E f \in Entry : Enqueue(f) \/ BecomeDue(f)
    BY <2>2, <2>3 DEF Enqueue, BecomeDue
  <2>4. ASSUME NEW w \in Worker, WorkerStep(w) PROVE row'[e] = row[e]
    <3>1. CASE Select(w)
      BY <3>1 DEF Select
    <3>2. CASE Claim(w)
      BY <2>1, <3>2 DEF Claim, LockedBy
    <3>3. ASSUME NEW f \in Entry, Process(w, f) PROVE row'[e] = row[e]
      BY <2>1, <2>2, <3>3
         DEF Process, SendOk, PostAgain, SendFails, RenderFails, MarkSent, MarkRetry, MarkDead
    <3> QED
      BY <2>4, <3>1, <3>2, <3>3 DEF WorkerStep
  <2>5. ASSUME NEW w \in Worker, Fault(w) PROVE row'[e] = row[e]
    BY <2>5 DEF Fault, ClaimFails, WorkerStops, MarkSentFails, MarkFailureFails
  <2> QED
    BY <2>3, <2>4, <2>5 DEF OutboxNext
<1> QED
  BY <1>1, OutboxInvariant, PTL DEF OutboxSpec, TerminalIsFinal
=============================================================================
