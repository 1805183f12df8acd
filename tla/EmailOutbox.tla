---------------------------- MODULE EmailOutbox -----------------------------
(***************************************************************************)
(* The email outbox (app/domains/notifications): a table of emails to send *)
(* and the workers, one per replica of the service, that poll it.          *)
(*                                                                         *)
(* A poll claims a batch in one transaction: SELECT ... FOR UPDATE SKIP    *)
(* LOCKED, then UPDATE to PROCESSING.  The claimed entries are processed   *)
(* concurrently, and the worker polls again when all of them are done.     *)
(* next_attempt_at is abstracted to whether it has been reached.           *)
(*                                                                         *)
(* A try of the worker is a call of _send (app/infra/email), which POSTs   *)
(* the email to the mail provider and repeats the POST itself.  A POST     *)
(* without an answer may have been accepted all the same.                  *)
(***************************************************************************)
EXTENDS Integers, FiniteSets

CONSTANTS
  Entry,         \* rows of email_outbox
  Worker,        \* replicas running run_email_outbox_worker
  Nobody,        \* lock_owner is NULL
  MaxAttempts,   \* max_attempts of every row
  BatchSize,     \* EMAIL_OUTBOX_BATCH_SIZE
  MaxPosts,      \* MAX_RETRIES: POSTs of one try
  Faults         \* whether the database may fail and workers may stop

ASSUME EmailOutboxAssumption ==
  /\ Nobody \notin Worker
  /\ MaxAttempts \in Nat \ {0}
  /\ BatchSize \in Nat \ {0}
  /\ MaxPosts \in Nat \ {0}
  /\ Faults \in BOOLEAN

VARIABLES
  row,           \* Entry -> the row: status, attempts, due, owner
  job,           \* Worker -> Entry -> what the worker is doing with the entry
  tries,         \* history: how often an email was claimed to be sent
  delivered,     \* history: how often the provider accepted it
  unrecorded     \* history: the acceptances no worker heard of or could record

counters == <<tries, delivered, unrecorded>>
outboxVars == <<row, job, tries, delivered, unrecorded>>

RowStatus == {"absent", "pending", "processing", "sent", "retry", "dead"}

Row == [status : RowStatus, attempts : 0..MaxAttempts, due : BOOLEAN,
        owner : Worker \union {Nobody}]

\* locked: selected for update; then PROCESSING and inside _send; sent and
\* about to be marked; failed and about to be marked.  attempts is the value
\* the entry had when it was claimed, posts the POSTs of _send that have failed.
Job == [pc : {"none", "locked", "send", "mark", "failed"}, attempts : 0..MaxAttempts,
        posts : 0..(MaxPosts - 1)]

NoJob == [pc |-> "none", attempts |-> 0, posts |-> 0]

Busy(w) == \E e \in Entry : job[w][e].pc # "none"

Locked(e) == \E w \in Worker : job[w][e].pc = "locked"

\* Mutant: the WHERE clause forgets the status.
DueAnyStatus(e) == row[e].status # "processing" /\ row[e].due

\* Mutant: the WHERE clause forgets RETRY.
DuePending(e) == row[e].status = "pending" /\ row[e].due

\* The WHERE clause of claim_batch, and SKIP LOCKED.
Due(e) == row[e].status \in {"pending", "retry"} /\ row[e].due

\* Mutant: no FOR UPDATE SKIP LOCKED.
ClaimableLocked == {e \in Entry : Due(e)}

Claimable == {e \in Entry : Due(e) /\ ~Locked(e)}

SetJob(w, S, j) == job' = [job EXCEPT ![w] = [e \in Entry |-> IF e \in S THEN j[e] ELSE @[e]]]

SetOne(w, e, pc) == job' = [job EXCEPT ![w][e].pc = pc]

DropOne(w, e) == job' = [job EXCEPT ![w][e] = NoJob]

-----------------------------------------------------------------------------
Enqueue(e) ==
  /\ row[e].status = "absent"
  /\ row' = [row EXCEPT ![e].status = "pending", ![e].due = TRUE]
  /\ UNCHANGED <<job, counters>>

\* The clock reaches next_attempt_at.
BecomeDue(e) ==
  /\ row[e].status = "retry" /\ ~row[e].due
  /\ row' = [row EXCEPT ![e].due = TRUE]
  /\ UNCHANGED <<job, counters>>

\* claim_batch, the SELECT: up to BatchSize rows nobody has locked.
Select(w) ==
  /\ ~Busy(w)
  /\ \E S \in SUBSET Claimable :
       /\ S # {}
       /\ Cardinality(S) <= BatchSize
       /\ Cardinality(S) < BatchSize => S = Claimable
       /\ SetJob(w, S, [e \in Entry |-> [pc |-> "locked", attempts |-> row[e].attempts,
                                       posts |-> 0]])
  /\ UNCHANGED <<row, counters>>

LockedBy(w) == {e \in Entry : job[w][e].pc = "locked"}

\* claim_batch, the UPDATE, and the commit that releases the row locks; the
\* entries are handed to _process_single at once.
Claim(w) ==
  /\ LockedBy(w) # {}
  /\ row' = [e \in Entry |->
               IF e \in LockedBy(w)
               THEN [row[e] EXCEPT !.status = "processing", !.owner = w] ELSE row[e]]
  /\ SetJob(w, LockedBy(w), [e \in Entry |-> [job[w][e] EXCEPT !.pc = "send"]])
  /\ tries' = [e \in Entry |-> IF e \in LockedBy(w) THEN tries[e] + 1 ELSE tries[e]]
  /\ UNCHANGED <<delivered, unrecorded>>

\* The transaction fails: rolled back, the rows are as they were.
ClaimFails(w) ==
  /\ Faults
  /\ LockedBy(w) # {}
  /\ job' = [job EXCEPT ![w] = [e \in Entry |-> NoJob]]
  /\ UNCHANGED <<row, counters>>

\* _send is left; what it counted is gone.
LeaveSend(w, e, pc) == job' = [job EXCEPT ![w][e].pc = pc, ![w][e].posts = 0]

\* The provider has accepted the emails in S, and no worker hears of it.
AcceptedUnheard(S) ==
  /\ delivered' = [e \in Entry |-> IF e \in S THEN delivered[e] + 1 ELSE delivered[e]]
  /\ unrecorded' = [e \in Entry |-> IF e \in S THEN unrecorded[e] + 1 ELSE unrecorded[e]]

\* A POST is answered: the email is accepted.
SendOk(w, e) ==
  /\ job[w][e].pc = "send"
  /\ LeaveSend(w, e, "mark")
  /\ delivered' = [delivered EXCEPT ![e] = @ + 1]
  /\ UNCHANGED <<row, tries, unrecorded>>

\* A POST times out, meets a network error or is answered with a status of
\* RETRY_STATUS_CODES, and is repeated.
PostAgain(w, e) ==
  /\ job[w][e].pc = "send"
  /\ job[w][e].posts + 1 < MaxPosts
  /\ job' = [job EXCEPT ![w][e].posts = @ + 1]
  /\ \E S \in SUBSET {e} : AcceptedUnheard(S)
  /\ UNCHANGED <<row, tries>>

\* The try raises: so does the last POST that may be repeated, and at any POST
\* an error that is not repeated, a refusal or an answer that cannot be read.
SendFails(w, e) ==
  /\ job[w][e].pc = "send"
  /\ LeaveSend(w, e, "failed")
  /\ \E S \in SUBSET {e} : AcceptedUnheard(S)
  /\ UNCHANGED <<row, tries>>

\* _render_html raises: nothing is handed over.
RenderFails(w, e) ==
  /\ job[w][e].pc = "send" /\ job[w][e].posts = 0
  /\ SetOne(w, e, "failed")
  /\ UNCHANGED <<row, counters>>

MarkSent(w, e) ==
  /\ job[w][e].pc = "mark"
  /\ row' = [row EXCEPT ![e].status = "sent", ![e].owner = Nobody]
  /\ DropOne(w, e)
  /\ UNCHANGED counters

\* mark_sent is inside the try: its failure counts as a failed attempt.
MarkSentFails(w, e) ==
  /\ Faults
  /\ job[w][e].pc = "mark"
  /\ SetOne(w, e, "failed")
  /\ unrecorded' = [unrecorded EXCEPT ![e] = @ + 1]
  /\ UNCHANGED <<row, tries, delivered>>

\* Mutant: one attempt too many.
RetriesOnceMore(w, e) ==
  LET n == job[w][e].attempts + 1 IN
  /\ job[w][e].pc = "failed"
  /\ n <= MaxAttempts
  /\ row' = [row EXCEPT ![e] = [status |-> "retry", attempts |-> n, due |-> FALSE,
                                owner |-> Nobody]]
  /\ DropOne(w, e)
  /\ UNCHANGED counters

MarkRetry(w, e) ==
  LET n == job[w][e].attempts + 1 IN
  /\ job[w][e].pc = "failed"
  /\ n < MaxAttempts
  /\ row' = [row EXCEPT ![e] = [status |-> "retry", attempts |-> n, due |-> FALSE,
                                owner |-> Nobody]]
  /\ DropOne(w, e)
  /\ UNCHANGED counters

\* mark_dead leaves the column attempts as it was.
MarkDead(w, e) ==
  /\ job[w][e].pc = "failed"
  /\ job[w][e].attempts + 1 >= MaxAttempts
  /\ row' = [row EXCEPT ![e].status = "dead", ![e].owner = Nobody]
  /\ DropOne(w, e)
  /\ UNCHANGED counters

\* The except branch raises too: gather() swallows it.
MarkFailureFails(w, e) ==
  /\ Faults
  /\ job[w][e].pc = "failed"
  /\ DropOne(w, e)
  /\ UNCHANGED <<row, counters>>

\* Shutdown cancels the worker, or the process dies; POSTs that were under way
\* may be accepted.
WorkerStops(w) ==
  /\ Faults
  /\ Busy(w)
  /\ job' = [job EXCEPT ![w] = [e \in Entry |-> NoJob]]
  /\ \E S \in SUBSET {e \in Entry : job[w][e].pc = "send"} : AcceptedUnheard(S)
  /\ UNCHANGED <<row, tries>>

Process(w, e) ==
  \/ SendOk(w, e)
  \/ PostAgain(w, e)
  \/ SendFails(w, e)
  \/ RenderFails(w, e)
  \/ MarkSent(w, e)
  \/ MarkRetry(w, e)
  \/ MarkDead(w, e)

Fault(w) ==
  \/ ClaimFails(w)
  \/ WorkerStops(w)
  \/ \E e \in Entry : MarkSentFails(w, e) \/ MarkFailureFails(w, e)

OutboxInit ==
  /\ row = [e \in Entry |-> [status |-> "absent", attempts |-> 0, due |-> FALSE,
                             owner |-> Nobody]]
  /\ job = [w \in Worker |-> [e \in Entry |-> NoJob]]
  /\ tries = [e \in Entry |-> 0]
  /\ delivered = [e \in Entry |-> 0]
  /\ unrecorded = [e \in Entry |-> 0]

WorkerStep(w) == Select(w) \/ Claim(w) \/ \E e \in Entry : Process(w, e)

OutboxNext ==
  \/ \E e \in Entry : Enqueue(e) \/ BecomeDue(e)
  \/ \E w \in Worker : WorkerStep(w) \/ Fault(w)

OutboxSpec == OutboxInit /\ [][OutboxNext]_outboxVars

\* Workers poll for ever, claimed entries are processed, POSTs are answered or
\* time out, time passes.
FairOutboxSpec ==
  /\ OutboxSpec
  /\ \A w \in Worker : WF_outboxVars(Select(w)) /\ WF_outboxVars(Claim(w))
  /\ \A w \in Worker, e \in Entry : WF_outboxVars(Process(w, e))
  /\ \A e \in Entry : WF_outboxVars(BecomeDue(e))

-----------------------------------------------------------------------------
(* Properties.                                                             *)

\* Rows, jobs and counters have their shape.
OutboxTypeOK ==
  /\ row \in [Entry -> Row]
  /\ job \in [Worker -> [Entry -> Job]]
  /\ tries \in [Entry -> Nat]
  /\ delivered \in [Entry -> Nat]
  /\ unrecorded \in [Entry -> Nat]

\* Concurrent workers never work on the same row.
ClaimExclusive ==
  \A e \in Entry, v, w \in Worker :
    job[v][e].pc # "none" /\ job[w][e].pc # "none" => v = w

\* Whatever fails or is never answered, nobody gets an email more often than
\* all POSTs of max_attempts tries; a dead one was tried exactly max_attempts
\* times, and a sent one was accepted.
WithinBudget ==
  \A e \in Entry :
    /\ delivered[e] <= MaxAttempts * MaxPosts
    /\ row[e].status = "dead" => tries[e] = MaxAttempts
    /\ row[e].status = "sent" => delivered[e] > 0

\* Replicas and retries add nothing of their own: every acceptance of an email
\* but one is one whose answer was lost, or that could not be recorded.
RepeatsExplained == \A e \in Entry : delivered[e] <= unrecorded[e] + 1

\* SENT and DEAD rows are never claimed or changed again.
TerminalIsFinal ==
  [][\A e \in Entry : row[e].status \in {"sent", "dead"} => row'[e] = row[e]]_outboxVars

\* A row that is PROCESSING although no worker is working on it.
Abandoned(e) == row[e].status = "processing" /\ \A w \in Worker : job[w][e].pc = "none"

Settled(e) == row[e].status \in {"sent", "dead"}

\* Once faults have stopped, every enqueued email is sent or given up, but for
\* the ones a fault left behind half way.
SettledAfterFaults ==
  <>[][\A w \in Worker : ~Fault(w)]_outboxVars =>
    \A e \in Entry : row[e].status = "pending" ~> Settled(e) \/ Abandoned(e)

\* Every enqueued email is eventually sent or given up, crashes included.
EventuallySettled == \A e \in Entry : row[e].status = "pending" ~> Settled(e)

\* What the inductive proof needs: a worker's job and the row it works on.
Holding(w, e) ==
  /\ job[w][e].pc = "locked" => row[e].status \in {"pending", "retry"}
  /\ job[w][e].pc \in {"send", "mark", "failed"} =>
       row[e].status = "processing" /\ row[e].owner = w
  /\ job[w][e].pc # "none" => job[w][e].attempts = row[e].attempts

\* The POSTs of n tries.
Posts(n) == MaxPosts * n

\* The attempts counted in the row and the one under way add up to the tries,
\* and the tries and the POSTs of the one under way bound the acceptances.
Counted(e) ==
  /\ row[e].status \in {"absent", "pending", "retry"} =>
       /\ tries[e] = row[e].attempts /\ row[e].attempts < MaxAttempts
       /\ delivered[e] <= Posts(row[e].attempts)
  /\ row[e].status \in {"processing", "sent"} =>
       /\ tries[e] = row[e].attempts + 1 /\ row[e].attempts < MaxAttempts
       /\ delivered[e] <= Posts(row[e].attempts) + MaxPosts
  /\ row[e].status = "sent" => delivered[e] > 0
  /\ row[e].status = "dead" =>
       tries[e] = MaxAttempts /\ delivered[e] <= Posts(MaxAttempts)
  /\ \A w \in Worker :
       /\ job[w][e].pc = "send" => delivered[e] <= Posts(row[e].attempts) + job[w][e].posts
       /\ job[w][e].pc = "mark" => delivered[e] > 0

\* Only an email that is being marked, or whose row never changes again, has an
\* acceptance more than was lost.
Recorded(e) ==
  \/ delivered[e] <= unrecorded[e]
  \/ /\ delivered[e] = unrecorded[e] + 1
     /\ row[e].status \in {"processing", "sent"}
     /\ \A w \in Worker : job[w][e].pc \in {"none", "mark"}

\* What RepeatsExplained follows from, inductive together with OutboxInv.
AllRecorded == \A e \in Entry : Recorded(e)

\* The inductive invariant behind ClaimExclusive and WithinBudget.
OutboxInv ==
  /\ OutboxTypeOK
  /\ ClaimExclusive
  /\ \A w \in Worker, e \in Entry : Holding(w, e)
  /\ \A e \in Entry : Counted(e)
=============================================================================
