# TLA+ models of syncdesk-api

syncdesk-api is a help desk: a chatbot triages a client's request, a finished triage becomes a
ticket, agents work on the ticket and talk to the client in conversations. It is one asyncio
process (or several replicas) over MongoDB (tickets, conversations, attendances) and PostgreSQL
(users, sessions, roles, companies, email outbox, files). Three things make it hard:

- Most services read a whole document or row, await other look-ups, decide on the copy and save it.
  The documents have no version field and no lock, so any two requests, or a request and an event
  handler, can overlap between the read and the save. In PostgreSQL most statements commit by
  themselves, so an operation of three statements can stop after any of them.
- Components talk through an in-process dispatcher: `publish` starts one task per subscriber and
  returns. Nothing is stored, retried or ordered; a restart loses every handler in flight.
- Two stores that share no transaction (rows and objects in a bucket; rows and emails handed to a
  server; documents and the sockets of a room) have to be kept in step by workers and retries.

## Inventory

| Component | State | Operations | What makes it correct | Status |
|---|---|---|---|---|
| Ticket desk (`domains/ticket`) | ticket document: status, level, agent_history, closed_at, closed_by_agent, comments, chat_ids | create, take, assign, escalate, transfer, cancel, update_status, update_ticket, comments | one active assignment; history never contradicts level, status or closing; transition table | modelled: `TicketDesk`, `TicketBoard` |
| Ticket reports (same domain) | none of its own | list, queue, dashboard, closings and issues charts | reports computed in different places agree with each other and with the collection | partly: `TicketReports`; not the text search and the layout of responses |
| Event dispatcher (`core/event_dispatcher`) | running tasks | subscribe, publish | a failing handler hurts nobody else; nothing survives a restart | modelled: `EventBus` |
| Conversations (`domains/live_chat`) | chain of conversations: agent, parent, children, open, messages; sockets | listener on four ticket events, create/assume/set-agent routes, chat socket; paging, list of active ones, search | gap-free chain, newest one open, superseded ones closed and never reopened; a reader misses nothing; what is offered is accepted | modelled: `Conversations`, `ChatHistory` |
| Chat rooms (`live_chat/chat_manager.py`) | rooms of sockets | join, leave, broadcast, drop dead connections | dead sockets leave, live ones stay and get everything | modelled: `ChatRooms` |
| Ticket and conversations | both, joined by the dispatcher | `_attach_chat_to_ticket` writes the ticket | agent, closing and chat_ids in step once handlers are done | modelled: `SupportFlow` |
| Chatbot (`domains/chatbot`) | attendance: status, triage steps, result, evaluation | create, message, evaluate; closing by event; asks for a ticket by event and polls for it | the path is one of the menu; one outcome, one ticket | modelled: `Triage` |
| Email outbox (`domains/notifications`) | rows: status, attempts, due, owner | enqueue, claim batch, send (POST, repeat), mark sent/retry/dead | exclusive claims, bounded tries and POSTs, terminal rows, progress | partly: `EmailOutbox`; not rendering but for its failure, the length of the back-off, who enqueues |
| Sessions, passwords (`domains/auth`) | sessions, refresh hashes, one-time links, the account's passwords | register, login, refresh, logout, limit, invite, forgot, reset, change | rotation lets one through; limit holds; links work once | modelled: `Sessions`, `Accounts` |
| Users, roles, permissions, levels (`domains/auth`) | rows and relations between them | create, update, replace, deactivate; grant and take away | a change is whole; nobody is locked out for good | partly: `Accounts`, `Directory`; not names, listings, and what no route calls |
| Companies and products | rows, associations | create, soft-delete, associate, dissociate | membership changes only on request; no dangling association | partly: `Directory`; not names, tax ids, listings |
| Files (`domains/files`) | rows, objects in the bucket, the avatar of a user | presign, upload, confirm, delete, avatar; cleanup, retention and purge workers | what is said to be uploaded is there; nothing is left behind; everything settles | modelled: `Files` |
| Token and password primitives (`core/security.py`) | none | hash, sign, verify | what determines a token's text | partly, inside `Sessions` |
| Object storage and email clients | outside the service | post, probe, delete; send | | partly, inside `Files` and `EmailOutbox` |
| Database set-up, migrations, seeds | initial rows and documents | seed at every container start | a restart repairs and destroys nothing | partly: the seed in `Directory` and `TicketReports`; not the migrations |
| HTTP shell; configuration, logging, metrics, health | none | routing, envelopes, counters | | not modelled |

How they interact: the chatbot publishes TRIAGE_FINISHED; `TicketListener` inserts the ticket;
ticket operations publish ticket events; `ConversationListener` appends, hands over and closes
conversations and writes `chat_ids` back to the ticket; closing a ticket publishes TICKET_CLOSED,
on which `ChatbotListener` finishes an attendance that is still open; user creation and password
reset insert a link and enqueue an email; a registration opens a session; an avatar is a file row
and a column of the user; a message is stored in a conversation and then broadcast in its room.
The hazards of each, by line, are in `PROJECT.json`.

## Modules

| Module | Models | Relation |
|---|---|---|
| `EventBus` | the dispatcher: `task` holds running handlers, `fired` remembers what was published | extended by `TicketDesk`, `Conversations` |
| `TicketStatus` | the statuses and the transition table | shared by `TicketDesk`, `TicketBoard` |
| `TicketBoard` | abstract: status, level and assignee of a ticket, every operation one step | implemented by `TicketDesk` (`ImplementsBoard`) |
| `TicketDesk` | `TicketService` and its repository on one ticket | |
| `TicketReports` | what is read from the whole collection, one ticket of which is the desk's | extends `TicketDesk` |
| `Conversations` | listener, routes and sockets on the conversations of one ticket | |
| `SupportFlow` | `TicketDesk` and `Conversations` over one bus, plus `_attach_chat_to_ticket` | extends both |
| `ChatHistory` | paging, list of active conversations, search, while conversations change | beside `Conversations` |
| `ChatRooms` | one room of `ChatManager` and the coroutines of its connections | |
| `Triage` | the chatbot on one attendance, the ticket it asks for | |
| `EmailOutbox` | the outbox table and the workers of all replicas | |
| `Sessions` | the sessions of one user under row locks | |
| `Accounts` | the account, its passwords and one-time links, over its sessions | extends `Sessions` |
| `Directory` | roles, permissions, levels, companies, products, and the seed | |
| `Files` | rows, bucket, avatar column, requests and workers | |
| `MC*` | operations, sets and scenes for TLC, symmetry | |
| `TicketDeskProofs`, `ReportsProofs`, `SupportFlowProofs` (with `Conversations`), `TriageProofs`, `EmailOutboxProofs`, `AccountsProofs` (with `Directory`), `FilesProofs`, `ChatProofs` | theorems | |

Several MC modules hold *scenes*: a variable `scene` chosen in the initial state lets one part of the
instance act and keeps the other still. A scene asks one question on a smaller instance than
everything together would allow; all scenes of a run share its properties.

State and actions keep the names of the code. The correspondence, definition by definition with
source lines, is `map` in `PROJECT.json`. In outline:

- **TicketDesk.** `ticket` is the document, `request[r]` a request with the copy it read. `Load`
  is `_get_ticket_or_404`; `Take`, `Assign`, ... are the rest of the service method up to the save
  and the publication; `Refuse` stands for every 4xx answer. `_get_current_assigned_agent_id` is
  `Assignee`, exit dates are `active`, timestamps are whether they are set.
- **TicketReports.** `archive` is the rest of the collection: documents made for the run, or the
  examples the seed inserts (`ExampleTickets`). `card` adds to the desk's ticket what only reports
  read: type, company, creation and closing day. Time is a count of days, a month has `MonthDays`
  days and a year twelve months. `Queue`, `Kpis`, `OpenBreakdown`, the closings and `ProductSeries` are
  the pipelines and loops, each with its own test for open, assigned and month.
- **Conversations.** A conversation is named by its `sequential_index`, on which the collection has
  a unique index. Each action of a handler is one await: read the last one, insert, push the
  notice, `end_conversation`'s read and save, link the child, attach.
- **SupportFlow.** `AttachRead`/`AttachSave` are the two halves of `_attach_chat_to_ticket`, which
  saves a whole copy of the ticket. `CalmSpec` lets a request begin when no handler runs;
  `FlowSpec` lets everything interleave.
- **ChatHistory.** `chats[t]` is the list of a ticket's conversations with the messages in the order
  they were stored; `coming` are messages made and not yet stored, `ending` the copies
  `end_conversation` is about to save. A reader asks for page after page, each a request of its own.
- **ChatRooms.** Every connection has a coroutine; `conn[c].pc` says at which await it is. `current`
  is the entry of the table of rooms (0: none), `members[m]` the list of a room object, which a
  coroutine keeps using after the table has forgotten it. A broadcast is a list iterator, `walk[c].next`
  its position: removing a member moves the ones behind it up.
- **Triage.** `request[r]` is a webhook message or an evaluation with the copy it read. `Receive`,
  `AnswerMessage`, `Poll`, `Link` are the awaits of `process_message`; `Insert`, `SaveFirst`,
  `Reread` its bootstrap of an unknown id. `NextState` is `process_interaction` over `MenuMap`. Answers are
  kept as they were typed: only the menu strips them (`Strip`), `Derived` compares what was kept.
- **EmailOutbox.** `Select` and `Claim` are the two statements of `claim_batch` (row locks in
  between), `RenderFails`, `MarkSent`, `MarkRetry`, `MarkDead` those of `_process_single`. A try is a call
  of `ResendEmailService._send`, a loop of `MaxPosts` POSTs: one is answered (`SendOk`), repeated after a timeout,
  a network error or a status worth repeating (`PostAgain`), or raises (`SendFails`). A POST that got no
  answer may have been accepted; `delivered` counts what the provider accepted, `unrecorded` those of them no
  worker heard of or could record, `tries` the claims, renderings that fail included.
- **Sessions.** A login is `FreePlace` (its `SELECT ... FOR UPDATE SKIP LOCKED` passes over rows another
  transaction holds) and `CommitLogin`. A refresh or logout loads a session (`Load`) and works on that
  copy; its UPDATE (`BeginRotate`, `BeginRevoke`) takes the row lock, which the commit or `End` releases.
  A refresh token is determined by its session and the second of issue; `order` is `last_used_at`.
- **Accounts.** A job is one operation on the account; between any two of its statements another job, or
  a failure (`Fail`), may come. `Forgot`/`CreateUser`, `Invalidate`, `InsertLink` issue a link; `Consume`,
  `SetPassword` use it; `VerifyChange` decides on the account loaded with the session.
- **Directory.** The tables are relations. An errand is an operation that checks first (`Check...`) and
  writes later (`Write...`); what was checked may be gone by then. Foreign keys refuse rows that name
  missing ones and deletions of named rows. `ReplaceUser` is what PUT /users/{id} does to the company of
  a user: its body carries one, deleted or not, or NULL. `Restart` is the container's start, which runs the seed.
- **Files.** Every statement and every call to the bucket is a step of its own. `row[f].open` is the validity
  of the presigned URL, `store` the set of keys in the bucket; the three workers select a row and act on it
  in later steps. `KeyFor` gives a chat file a key of its own and an avatar that of user and extension.

Operators marked *Mutant* are plausible bugs; each property is checked to fail when one of them
replaces the definition before or after it.

### What is abstracted

- The save of a desk operation and the publication that follows it are one step. Between the two the
  process could stop; the models reach the same state by stopping right after, with the event lost.
- In the desk, users exist and have the role the routes demand, and levels of agents do not change; how
  roles and levels change is in `Directory`.
- Ids, names, descriptions, texts and dates are left out or reduced to whether they are set, except
  where a report counts days. Of the triage answers with blanks around them the run has two, which cover the
  questions that decide about the ticket; "other" stands for text that is no option however it is stripped. File sizes
  are three classes around the two limits.
- A ticket is created without `chat_ids`, which the body of its POST may hold, and no PATCH carries an explicit
  null. The closings of a month are not sorted, and the rows beyond the tenth not added up as "Outros". An upload
  that began while its URL was valid has ended before its row reaches the maximal age: the settings
  (`config.py:144`) leave a margin for that, and nothing in the code enforces it.
- Of an email POST only the outcome is modelled: accepted or not, answered or not. A refusal that is not
  repeated may count as an acceptance nobody heard of, which only adds behaviours.
- `Task` bounds the handlers in flight: a step that publishes waits for a free slot. The same holds
  for every `Max...` constant: a step that would pass the bound is not taken.
- `ManualIndex` is the set of indices clients ask for in `POST /conversations`. With index 0 the
  chain keeps its shape, since 0 is free only before the first conversation; other indices make
  gaps, and `flow_overlap` checks what then still holds.
- The triage result keeps the ticket id and leaves out the conversation id next to it.
- Salted hashes of two different tokens never meet. Users do not meet in `Sessions`, `Accounts` and
  `Files`, rooms do not meet in `ChatRooms`: every statement names its user, every room its conversation.
- Behaviour of PostgreSQL (row locks, SKIP LOCKED, foreign keys, unique indices), of MongoDB (sort,
  `$slice`, comparison of dates with dates only) and of the asyncio loop is modelled from how the code
  relies on it.
- A restart of the container in `Directory` is about the tables the seed writes; each start also adds
  another copy of the example documents to MongoDB, which the reports' run shows once.

## Runs

| Run | Question | Instance |
|---|---|---|
| `desk_reports` | Does the desk implement the abstract board under every operation, and do queue, dashboard and charts agree after each step (`ImplementsBoard`, `DashboardAgrees`, `PagesCover`, `ChartsAddUp`)? | 1 request, all 10 operations, restarts, 2 agents, 2 levels, history of 2; an archive of 7 tickets over 13 months, or the seed's examples; 2 days pass; pages of 2, top 1 |
| `conversations` | Is there one gap-free chain with its newest conversation open, do racing handlers close what they superseded, does none reopen (`ChainLinked`, `NewestOpen`, `RacingSettles`, `ClosedStaysClosed`)? | 2 handlers; scene `racing`: indices 0–3, no faults; scene `faults`: chain of two, routes, a socket, failures, restarts |
| `flow_calm` | Do ticket and conversations agree once handlers are done, and is a superseded conversation closed in the end (`ConversationInStep`, `OpenWhileUnfinished`, `ChatsListed`, `EventuallyClosed`)? | 1 request, 1 handler, 2 agents, 2 levels, history of 3, indices 0–2, fair loop; all operations but take |
| `flow_overlap` | Is the ticket coherent when requests, or a request and handlers, save stale copies over each other, fail and vanish (`SingleActiveAssignment`, `ClosingConsistent`, `AssigneeQualified`)? | 2 requests, 2 handlers, take, escalate and update_status, history of 2, manual index 1; scenes `requests` and `handlers` |
| `triage` | Over the whole menu: is a promised ticket asked for, is it one, is it about what was chosen, does the outcome stay (`TicketOnItsWay`, `OneTicket`, `TicketMatchesPath`, `OutcomeStays`)? | 4 options, two of them also typed with a blank, and a text, 7 steps, 2 requests, 2 tickets, faults; once requests have overlapped, 3 steps and options 1 and 5 |
| `outbox_faults` | Exclusive claims, no more acceptances than the POSTs of `max_attempts` tries, none repeated but for a lost answer or record, terminal rows, progress after faults (`ClaimExclusive`, `WithinBudget`, `RepeatsExplained`, `TerminalIsFinal`, `SettledAfterFaults`)? | 2 rows, 2 replicas, 2 attempts of 3 POSTs, batch of 2 |
| `accounts` | Does a rotation let one refresh through, does the limit hold, is revoked final, do links work once and replace each other (`OneWinner`, `SessionLimit`, `RevokedIsFinal`, `LinkOnce`, `NewestLinks`)? Is a change of roles whole, do members stay, does a restart end a lock-out (`WholeRoleChange`, `MembersKept`, `StaffRecovers`)? | 2 requests, 3 sessions, limit 2, 2 jobs, 3 links, 1 password, in three mixes of traffic; the directory in five topics: 2 users, 3 roles, 2 permissions, 2 companies, 1 product, up to 2 errands, PUT of a user |
| `files` | Is an uploaded chat file stored, is nothing orphaned, is a replaced avatar retired, does every row settle (`UploadedIsStored`, `NoOrphans`, `ReplacedRetired`, `Settles`)? | 2 files, 2 requests, 3 workers, chat files or avatars, failures between any two steps |
| `chat_rooms` | Whom does a broadcast reach, what keeps a room (`BroadcastReaches`, `RoomHasReason`)? Does a reader of the history see everything, do list and search offer what the routes accept (`HistoryWhole`, `OffersHold`)? | scene `room`: 3 connections, 2 room objects, 1 message each; scene `history`: 1 ticket, 2 agents, client, admin, 2 conversations, 3 messages, pages of 1 |

Why these bounds are enough to be of interest: two actors suffice for the stale-copy races, since a save
depends on one copy and the document: what a third request could write, a second one could have
written before. Two levels make escalation possible and impossible; a history of two or three entries
holds an exited and an active assignment; as many indices as handlers let each of them append once.
Three sessions with a limit of two let a login find the limit reached and two logins pass it together.
Two files make an avatar and its replacement; three connections make a walker, one that is removed and
one that is skipped. Seven steps go once round the menu and on to a ticket. Three POSTs are what `_send` makes at
most; two attempts have a first, which is repeated, and a last. The proofs below have none of
these bounds; they are about the modules' own specifications, of whose next-state relations the scenes take steps.

`flow_overlap` leaves out the operations that save the same fields as escalate and update_status;
the proof of `DeskInv` covers them all. The two triage constants `RacedSteps` and `RacedChoice` (a
state constraint) shorten only the behaviours in which requests overlapped.

Runs that TLC finds violated (each a disagreement of the code with what it says of itself):

- `cancelled_revived` (`CancelledIsFinal`): a cancelled ticket can be taken or assigned, after which
  a transfer or escalation puts it back in progress; the guards name only FINISHED, while the route
  (`ticket/routers.py:618`) calls cancelled "a terminal lifecycle state".
- `message_lost` (`MessageKept`): `end_conversation` saves the messages it read, so one pushed by a
  socket in between disappears from what `docs/chat_api.md:3` calls a persistent record.
- `outbox_stuck` (`EventuallySettled`): a worker that stops while it holds rows leaves them
  PROCESSING; nothing looks at `locked_at`, while `notifications/README.md:10` says that emails survive
  process crashes. `outbox_faults` shows that this is the only way for a row to get stuck.

### Fairness

`flow_calm` assumes weak fairness of each handler step: the asyncio loop runs every ready task, and
Mongo calls return. The outbox runs assume that workers poll for ever, that claimed rows are processed, every POST
being answered or timing out, and that time passes (`run_email_outbox_worker` is a `while` loop with a sleep). `files` assumes that
presigned URLs expire, that the cleanup and purge loops (`files/worker.py`) go on, and that failures
cease: `Settles` says what the workers then repair, whatever failed before. `SettledAfterFaults` is
conditional on faults ceasing in the same way. No fairness is assumed of requests, clients, agents,
enqueueing or faults, and none in the other runs, which check safety.

Deadlock is checked for the desk and its reports; in the other modules the system may really be at rest
(all emails sent, the ticket closed, all files settled, the bound reached), so their configurations
switch the check off.

## Proofs

TLAPS proves, for any number of requests, agents, levels, handlers, rows, workers, messages, sessions, links,
connections, files and stored tickets, and (unless a hypothesis below excludes them) with every fault of the models, from the
assumptions stated in each module (constants are what
their comments say; `None` and the like are not values of theirs):

- **TicketDeskProofs.** `DeskInv` is inductive. The properties of the stored document alone are not:
  a stale copy could be bad. So `DeskInv` says that the document *and every copy a request holds* is
  `Sound`, and each operation maps a sound copy to a sound document. Types, `SingleActiveAssignment`,
  `ClosingConsistent`, `LevelsClimb` and `AssigneeQualified` follow. The refinement comes on top: with a
  single request at a time (`Alone`) the copy a request holds *is* the document (`Current`); hence each
  save is a step of `TicketBoard`, everything else stutters, and `Spec => ImplementsBoard`. Without
  `Alone` it is false.
- **ReportsProofs.** `ReportsInv` adds to `DeskInv` and `Current` that the clock is in its bounds and that the
  ticket of the desk is as well `Filed` as the archive is assumed to be (`ArchiveAssumption`): one active
  assignment at most, which is the last one, known status, type and criticality, and a closing that names an
  agent has a day and a level. For the desk's ticket this is proved, step by step; for the others it is assumed,
  since each of them was once the ticket of the desk or comes from the seed. From there on the proofs are about a collection of any
  size (`Stocked`), and hold in every state, whether a request is under way or not.
  `DashboardAgrees`: the first active entry of the aggregation and the last of the service are the same
  entry (`SameAgent`), so both count the same sets; buckets and rows split the open tickets, and the rows cut
  off at `TopLimit` come back as "Outros" (`TopAddsUp`). `PagesCover`: the sort key with the stored order is a
  strict linear order (`BeforeOrders`), so the numbers of tickets ahead are 0, 1, 2, ... (`Ranks`) and the queue lists
  everything once (`QueueSorted`); pages are adjacent pieces of it (`PagesJoin`). `ChartsAddUp`: a month is known by
  its `Number`, which `NextMonth` and `ShiftMonths` count up (`MonthNumber`, `MonthSteps`) also over a new year; a
  day is in one month (`DayInMonth`), and in a month of the chart exactly if `$match` lets it through
  (`RunCovers`); months, agents, types, levels and products then each share out what is counted (`SumFibres`).
  Sums, `FlattenSeq` and `MonthKeys` are recursive functions. Each is handled the same way: the equation it
  solves (`SumRec`, `Flattens`, `Unrolls`), uniqueness by a smallest place where two solutions would differ
  (`OneSum`, `OneFlattening`, `OneUnrolling`), and a solution in closed form: the number of elements, the
  beginning of the queue, the months numbered from the first on (`Run`). `BoardReported` says that the desk still
  implements the board while days pass.
- **SupportFlowProofs**, the conversations alone. Assumption `Linear`: finitely many handlers, and clients post no index but 0.
  `ConvInv` says of each handler what it knows at its await (`Placed`): one that is about to close a
  conversation has inserted its successor, and the copy it will save has the parent of that place. With
  the shape of the chain (`Chain`), `NewestOpen` and the room left for the insertions under way it is
  inductive; `ChainLinked`, `NewestOpen` and the action property `ClosedStaysClosed` follow. The chain
  needs the unique index: an insertion finds its index free, and then its predecessor is the newest, or
  it fails and ends the handler. `RaceInv` keeps the account of a race, as long as the ticket is not
  closed: a conversation that has a successor is finished and names it, or exactly one handler still owes
  it that (`Holding`, `OneHolder`) and has the copy to do it with (`Owed`). When nobody runs, nobody owes:
  `RacersSettle` proves `ChainSettled` for a system in which handlers do not fail (`~Faults`; routes and
  sockets may do what they like), `SceneSettles` proves the run's `RacingSettles`. With faults it is false, since a handler
  that fails leaves its debt unpaid; so it is once the ticket was closed, since a closing saves a copy, too,
  and may lose the child that was added in between.
- **SupportFlowProofs**, the composition, where handlers save copies of the ticket document as well.
  `FlowInv` extends `DeskInv` to those copies: listing one more conversation keeps a document sound, so
  the three properties of the desk hold in any interleaving of requests and handlers. `FlowConversations`
  carries `ConvInv` over: an operation of the desk is for the conversations the raising of an event, and
  the chain properties follow under `Linear`. For requests that are each followed by their handlers
  (`CalmSpec`), `CalmInv` says how far the one handler in flight has brought ticket and conversations at
  each of its awaits (`UnderWay`), and that without one both agree (`Settled`); it gives `ConversationInStep`,
  `OpenWhileUnfinished`, `ChatsListed`, and that the desk with its handlers still implements the board. Its
  assumptions are those of the run: one request at a time (`Alone`), no index but 0 (`Linear`), and `Announced`,
  no operation `take`, which publishes nothing, so that no conversation shows the agent who took the ticket.
- **EmailOutboxProofs.** `OutboxInv` ties a worker's job to its row (`Holding`), and the attempts counted
  in the row and the POSTs of the try under way to the acceptances (`Counted`): n attempts left behind stand for
  `Posts(n)` at most. `ClaimExclusive`, `WithinBudget` and, as an action property, `TerminalIsFinal` follow.
  `RepeatsExplained` needs `AllRecorded` on top: only an email about to be marked sent, or never looked at again, has an
  acceptance more than the lost ones.
- **TriageProofs.** `TriageInv`: the stored document and every copy are paths of the menu with a coherent
  outcome, and each request holds what its place in the code needs. The key lemma is `AnsweredFacts`: a
  message maps a path to a path, because the answer it records is the one that explains the move.
  `PathFollowsMenu`, `OutcomeCoherent` and types follow; `TicketOnItsWay` follows from `EventFollows`.
  While requests do not overlap, the one in flight holds the current document and the ticket is asked for
  last (`Solo`); hence `OneTicket` and the action property `OutcomeStays`. For `TicketMatchesPath` two
  invariants come on top: no question is asked twice in a row (`AllMoving`), and whatever is asked for or
  inserted carries what `Derived` reads from the stored document (`Matched`). The rest is about one path: a
  walk by options goes down one of three branches (`Branches`) and asks the questions of its branch once
  (`AskedOnce`), so the first answer to each, which `Derived` takes, is the only one (`WalkAsksFor`); `Exact` tells
  whether it was typed as the menu spells it. Of `Strip` only what `TriageAssumption` says is assumed: the options have
  no blanks around them.
- **AccountsProofs.** `SessionsInv`: a locked row is active and locked once; a rotation under way still
  finds the hash it read, and after its commit the session has a later one (`HashesOK`, whence
  `OneWinner`); a login that met no other transaction is the only one and has a place (`PlacesOK`, whence
  `SessionLimit`). `RevokedIsFinal` follows as an action property. The invariant is first proved for
  `Sessions` and then carried over to `Accounts`, which adds guards to its steps and the session of a
  registration. `LinksInv`: a link a job used up is its own until it sets the password (`HeldLinks`,
  whence `LinkOnce`); the live links and those about to be stored are no more than the jobs
  (`NewestLinks`, by counting). For `Directory`, `DirInv` says that rows name what is there
  (`NoDanglingRow`) and that an errand's checked arguments are of the kind its write needs; with it each
  step is shown to keep `WholeRoleChange` and `MembersKept` (a PUT of a user is a step of its own), and the fixed result of the seed
  gives `StaffRecovers`.
- **FilesProofs.** `FilesInv`: what a probe found still holds when the row is marked, or the row is
  deleted by then (`ProbeHolds`), because only the purge removes objects and it takes deleted rows only;
  the URL of a row that was given up never opens again (`Shut`). `UploadedIsStored`, `NoOrphans` and
  `ReplacedRetired` follow.
- **ChatProofs.** `RoomInv` follows a broadcast through the list it walks while others change it: nobody
  behind the iterator is reached again, and those it passed over (`Skipped`) are at most as many as the
  removals it met, because a removal moves at most one connection past the iterator (`WalkOK`). With the
  table of rooms (`TableOK`) it gives `BroadcastReaches` and `RoomHasReason`. `HistInv` says what a reader is
  still owed (`ReaderOK`): as long as no message was dropped, what was there when he began was read or has
  a rank among the messages that is on a page to come; ranks are cardinalities of sets of earlier messages,
  and a message stored meanwhile is a later one. `HistoryWhole` follows at the last page. `OffersHold` needs only the types.

Only model-checked:

- Liveness (`EventuallyClosed`, `SettledAfterFaults`, `Settles`) and the violation `EventuallySettled`:
  liveness under fairness is out of the prover's reach.
- That every archive a `TicketReports` may begin with is `Filed` is an assumption of the proofs; the run evaluates
  it for its two archives, one of which is what the seed inserts.
- The violations, which need one behaviour each.

## Other observations

Seen while modelling; they hold of the code and are not among the runs.

Formulas that state what a document of the repository says and that the code does not keep. They stand
in the modules, with the quotation, next to the properties that do hold:

- `CancelledCloses` (`SupportFlow`): nobody subscribes to TICKET_CANCELLED, so the conversation of a cancelled ticket
  stays open, although `event_dispatcher/schemas.py:105` says that `ConversationListener` closes it. With the
  constants of `flow_calm` TLC finds it violated; `OpenWhileUnfinished` says nothing of cancelled tickets.
- `RotationInvalidates` (`Sessions`): a refresh within the second in which the token was issued signs the
  very same text, so the old token still verifies (`auth/README.md:214`).
- `KeepsLoginMethod` (`Accounts`): a PUT writes NULL over what its body leaves out, and `can_login` is
  asked of a laid-over copy (`user_repository.py:109`), so an account can end without any login method
  (`auth/README.md:40`).
- `LevelsNeedRole` (`Directory`): support levels survive the loss of the agent role, or its removal
  between check and insertion (`user_level_service.py:21`).
- `UnassignedIsBucket` (`TicketReports`): `unassigned_count` is not the bucket `nao_atribuidos`
  (`docs/grafico_dashboard_ticket.md:150`): a ticket that was taken is assigned and awaits assignment.
- `MostRecentFound`, `LatestAgrees` (`ChatHistory`): the search returns per ticket the conversation with
  most matches, not the most recent one (`conversation_repository.py:412`); `GET /ticket/{id}` asks the
  participants of the latest *end*, `/messages` those of the highest index (`conversation_router.py:121`, `:145`).
- `ReachesAll` (`ChatRooms`): a connection removed while a broadcast awaits moves the others up, and one
  is skipped (`docs/chat_api.md:220`).

`AvatarShared` (`Files`) and `NoDanglingRow` (`Directory`) hold on the same instances and are kept as
explanations: the first names the one way an avatar loses its object, the second what the foreign keys are for.

Tickets and conversations:

- Overlapping `take_ticket` calls both succeed, and the second save erases the first
  (`services.py:285`); the same with `assume_conversation` (`conversation_service.py:117`).
- With overlapping requests or a slow `_attach_chat_to_ticket`, a stale copy puts a finished ticket back
  to an earlier status.
- `take_ticket` publishes nothing, although `ticket/README.md:374` says it does, so the conversation shows no
  agent; `flow_calm` leaves take out.
- When handlers of successive events overlap, conversation and ticket can name different agents, and a
  finished ticket can keep an open conversation.
- Under faults, or when `end_conversation` saves a stale copy, `children_ids` can miss a child.
- An assignment changes the agent of the open conversation, where `live_chat/README.md:72` says it
  closes that one and opens a new one.
- A stale save of `end_conversation` that drops a message also shifts the pages, so a reader can miss
  another one that is stored; `HistoryWhole` excludes it (`steady`). Paging past the last page asks
  `$slice` for length 0, which MongoDB refuses.
- In a room, a join whose confirmation raises leaves a ghost connection, a close that raises keeps an
  empty room, and of two overlapping closings the second can pop a *new* room. Sockets go on storing
  messages after their conversation was closed.

Triage:

- Overlapping messages can open two tickets for one triage. An evaluation given while `process_message`
  polls is overwritten by its second save, after which the client may evaluate again, although
  `chatbot/README.md:115` says once. When polling gives up, the result keeps no ticket id.
- The ticket of a triage is derived from the *first* answers recorded: a client that asked a question
  first, returned to the menu and then chose a product gets a ticket about no product; so does one that
  typed an option as text. `TicketMatchesPath` states what holds without either; dropping either
  condition, TLC finds a violation.
- `chatbot/README.md:93` says the webhook creates no attendance, and line 103 that a message without any
  answer is rejected: the code does the first and accepts the second. The menu there lacks the
  "anything else" question that `fsm.py:85` asks. The status `in_progress` is never set.

- An answer typed with blanks around an option walks the path of that option, because the menu strips it
  (`fsm.py:98`), while the ticket is derived from what was typed (`chatbot_service.py:107`, `:339`, `:347`, `:388`): a
  request for access or a feature becomes an ISSUE, and the product "Produto não informado".

Emails:

- A POST that timed out may have been accepted, and is repeated by `_send` (`resend_service.py:40`) and, when that
  gives up, by the worker's next try; so is an email whose `mark_sent` failed. The two loops multiply: an email
  can be accepted up to `max_attempts` times `MAX_RETRIES`, which `WithinBudget` states and no smaller bound does. No idempotency
  key goes with the POST.
- A rendering that fails uses up a try like a failing provider; an email can be given up without a POST.

Accounts, directory and files:

- At the limit the session freed is the one at `OFFSET limit - 1` in ascending order of use
  (`session_repository.py:163`): when the limit is just reached, the *most* recently used one, not "the
  farthest used". Logins that overlap exceed the limit by one each, which is what `SessionLimit` counts.
- A session registered without a username cannot be loaded; a refresh needs an access token that has
  not expired; `login` does not ask `can_login`; a reset revokes no session; the loser of two refreshes
  gets 404 and stays active. `change_password` verifies the password of a stale copy
  (`password_service.py:100`), so it can overwrite a reset. `require_user_compliance` is used by no route:
  the flags for accepting terms and changing passwords gate nothing.
- A restart gives removed roles and removed products back to the seeded users and companies. A seeded
  role that was renamed is not restored, since its id is taken, and the grants skip it. Roles are seeded
  with explicit ids and the sequence is not moved, so the first `POST /roles` collide.
- PUT /users/{id} with a body that leaves `company_id` out writes NULL over it (`user_schemas.py:13`,
  `user_repository.py:110`), so replacing a user takes him out of his company; a body that names a deleted company
  puts him there, since the foreign key asks for the row only. `MembersKept` names this way out next to the removal.
- Adding users moves them from other companies without asking; adding products to a company does not
  ask whether the product is deleted, nor the other way round.
- Avatars of one user with one extension share a key: purging a replaced row removes the object of the
  present avatar (`files/services.py:365`). Overlapping changes leave a replaced row that nothing retires.
- The example tickets store `creation_date` as a string: `$match` on dates leaves them out of the issues
  chart while queue and dashboard, which convert, count them (`ticket/repositories.py:343`).

## Not modelled

- The HTTP shell (routing, envelopes, error mapping), configuration, logging, metrics and health: no
  state a property depends on. Which error a refusal is answered with is not told apart.
- Rendering of emails beyond its failure, the length of the back-off, and which events enqueue; attachments of comments;
  names, descriptions, tax ids; listings without a rule of their own; the text search of tickets and the
  layout of reports: data the properties do not tell apart.
- Hashing, JWT, S3 and Resend: libraries and services, modelled by what the code relies on.
- Hard deletion of users and removal of permissions from roles: no route calls them.
- Migrations, and the example attendances and conversations of the seed: they run outside, or before, the service.
- Ids of conversations beyond their index, several tickets in one `SupportFlow`, several rooms: what the
  code does to one of them depends on no other.

## Plan

Done, in this order: `EventBus`, `TicketDesk` with `TicketBoard`, `Conversations`, `SupportFlow`,
`EmailOutbox`, `Triage`, `Sessions` and `Accounts`, `Files`, `ChatRooms`, `Directory`, `TicketReports`,
`ChatHistory`; proofs of the desk and the board, the conversations and their races, the outbox, the triage
and its ticket, the accounts and the directory, the files, the composition of ticket and conversations,
the rooms and the history, the reports.

What would come next:

1. `ChatRooms` composed with `ChatHistory`: a client that reads the history and joins the room, and what
   falls between the two.
