------------------------------ MODULE Accounts ------------------------------
(***************************************************************************)
(* One account, its sessions, its passwords and the one-time links that    *)
(* set a password (app/domains/auth: UserService, PasswordService,         *)
(* PasswordResetTokenRepository and the account half of AuthService).      *)
(*                                                                         *)
(* Each statement on the users and password_reset_tokens tables commits    *)
(* by itself, so a job is as many steps as it has statements, and another  *)
(* job, or a failure, may come between any two of them.                    *)
(***************************************************************************)
EXTENDS Sessions

CONSTANTS
  Job,         \* requests about the account, in flight at the same time
  Link,        \* rows of password_reset_tokens; their number bounds the links
  Password,    \* passwords
  NoPassword,  \* password_hash is NULL
  Mixes        \* the traffic this instance runs: requests, jobs, operations and
               \* whether a registration may leave the user name out

ASSUME AccountsAssumption ==
  /\ IsFiniteSet(Job) /\ IsFiniteSet(Link)
  /\ NoPassword \notin Password
  /\ Password # {}
  /\ \A m \in Mixes : m.named \subseteq BOOLEAN

VARIABLES
  account,     \* the row of the user
  link,        \* Link -> [purpose, state]; the hash of a link names its row
  job,         \* Job -> [pc, op, link, seen]
  resets,      \* history: Link -> the passwords set through it
  mix          \* the member of Mixes this behaviour runs

acctVars == <<account, link, job, resets, mix>>
vars == <<session, order, second, request, extra, account, link, job, resets, mix>>

-----------------------------------------------------------------------------
(* The account.                                                            *)

Purpose == {"reset", "invite"}

Account ==
  [exists : BOOLEAN, active : BOOLEAN, password : Password \union {NoPassword},
   username : BOOLEAN, oauth : BOOLEAN, mustChange : BOOLEAN, mustAccept : BOOLEAN]

NoAccount ==
  [exists |-> FALSE, active |-> FALSE, password |-> NoPassword, username |-> FALSE,
   oauth |-> FALSE, mustChange |-> FALSE, mustAccept |-> FALSE]

\* The defaults of CreateUserDTO.
NewAccount(p, named) ==
  [NoAccount EXCEPT !.exists = TRUE, !.active = TRUE, !.password = p,
                    !.username = named, !.mustAccept = TRUE]

CanLogin(a) ==
  a.active /\ ((a.password # NoPassword /\ a.username) \/ a.oauth)

IdleJob == [pc |-> "idle", op |-> "none", link |-> {}, seen |-> NoAccount]

Allowed(op) == op \in mix.ops

UnusedLinks == {l \in Link : link[l].state = "absent"}

LiveLinks(purpose) ==
  {l \in Link : link[l].state = "live" /\ link[l].purpose = purpose}

-----------------------------------------------------------------------------
(* Sessions of the account.                                                *)

\* The account is stored, then init_session opens a session like a login.
Register(r) ==
  /\ Allowed("register") /\ r \in mix.requests
  /\ ~account.exists /\ request[r].pc = "idle"
  /\ \E p \in Password, named \in mix.named : account' = NewAccount(p, named)
  /\ request' = [request EXCEPT ![r] = NewLogin]
  /\ UNCHANGED <<session, order, second, extra, link, job, resets, mix>>

\* login: a user with a password; can_login is not asked.
Login(r) ==
  /\ Allowed("login") /\ r \in mix.requests
  /\ account.exists /\ account.password # NoPassword
  /\ StartLogin(r)
  /\ UNCHANGED acctVars

\* load_current_user_session
LoadSession(r, op, i) ==
  /\ Allowed(op) /\ r \in mix.requests
  /\ account.exists /\ CanLogin(account)
  /\ Load(r, op, i)
  /\ UNCHANGED acctVars

SessionStep(r) ==
  /\ \/ FreePlace(r) \/ CommitLogin(r) \/ End(r)
     \/ \E i \in Id : \/ BeginRevoke(r, i) \/ CommitRevoke(r, i)
                      \/ BeginRotate(r, i) \/ CommitRotate(r, i) \/ TooLate(r, i)
  /\ UNCHANGED acctVars

Passage ==
  /\ Tick \/ \E i \in Id : Expire(i)
  /\ UNCHANGED acctVars

-----------------------------------------------------------------------------
(* Jobs.                                                                   *)

Begin(j, op) ==
  /\ Allowed(op) /\ j \in mix.jobs
  /\ job[j].pc = "idle"

\* get_current_user_session for a job: some session is valid.
SignedIn == account.exists /\ CanLogin(account) /\ \E i \in Id : IsValid(session[i])

Now(j, pc) == job' = [job EXCEPT ![j].pc = pc]

Done(j) == job' = [job EXCEPT ![j] = IdleJob]

\* create: the account, with a one-time password unless it signs in by OAuth.
CreateUser(j) ==
  /\ Begin(j, "create")
  /\ ~account.exists
  /\ \/ /\ \E p \in Password :
             account' = [NewAccount(p, TRUE) EXCEPT !.mustChange = TRUE]
        /\ job' = [job EXCEPT ![j].pc = "invalidate", ![j].op = "invite"]
     \/ /\ account' = [NewAccount(NoPassword, TRUE) EXCEPT !.oauth = TRUE]
        /\ Done(j)
  /\ UNCHANGED <<sessVars, link, resets, mix>>

\* forgot_password: the address belongs to a user, active or not.
Forgot(j) ==
  /\ Begin(j, "forgot")
  /\ account.exists
  /\ job' = [job EXCEPT ![j].pc = "invalidate", ![j].op = "reset"]
  /\ UNCHANGED <<sessVars, account, link, resets, mix>>

\* Mutant: the links of before stay.
NothingUsed(purpose) == link

\* invalidate_user_tokens
AllUsed(purpose) ==
  [l \in Link |-> IF l \in LiveLinks(purpose) THEN [link[l] EXCEPT !.state = "used"]
                  ELSE link[l]]

Invalidate(j) ==
  /\ job[j].pc = "invalidate"
  /\ link' = AllUsed(job[j].op)
  /\ Now(j, "insert")
  /\ UNCHANGED <<sessVars, account, resets, mix>>

\* The new row; the mail with its link goes to the outbox.
InsertLink(j) ==
  /\ job[j].pc = "insert"
  /\ \E l \in UnusedLinks : link' = [link EXCEPT ![l] = [purpose |-> job[j].op, state |-> "live"]]
  /\ Done(j)
  /\ UNCHANGED <<sessVars, account, resets, mix>>

\* Mutant: a link that was used before is accepted.
Presentable(l) == link[l].state \in {"live", "used"}

\* used_at IS NULL AND expires_at > now()
Consumable(l) == link[l].state = "live"

\* consume_token: the link is used up before the password is set.
Consume(j, l) ==
  /\ Begin(j, "reset_password")
  /\ Consumable(l)
  /\ link' = [link EXCEPT ![l].state = "used"]
  /\ job' = [job EXCEPT ![j].pc = "set", ![j].op = "reset_password", ![j].link = {l}]
  /\ UNCHANGED <<sessVars, account, resets, mix>>

\* change_password verifies the current password against the account that
\* was loaded with the session.
VerifyChange(j) ==
  /\ Begin(j, "change_password")
  /\ SignedIn /\ account.password # NoPassword
  /\ job' = [job EXCEPT ![j].pc = "set", ![j].op = "change_password"]
  /\ UNCHANGED <<sessVars, account, link, resets, mix>>

\* update_password
SetPassword(j) ==
  /\ job[j].pc = "set"
  /\ \E p \in Password : account' = [account EXCEPT !.password = p, !.mustChange = FALSE]
  /\ resets' = [l \in Link |-> IF l \in job[j].link THEN resets[l] + 1 ELSE resets[l]]
  /\ Done(j)
  /\ UNCHANGED <<sessVars, link, mix>>

AcceptTerms(j) ==
  /\ Begin(j, "accept_terms")
  /\ SignedIn
  /\ account' = [account EXCEPT !.mustAccept = FALSE]
  /\ UNCHANGED <<sessVars, link, job, resets, mix>>

Deactivate(j) ==
  /\ Begin(j, "deactivate")
  /\ account.exists
  /\ account' = [account EXCEPT !.active = FALSE]
  /\ UNCHANGED <<sessVars, link, job, resets, mix>>

\* A PATCH writes the fields its body has; p, named, oauth and activate say
\* whether it has a password, a username, an OAuth identity and is_active.
Patched(a, p, named, oauth, activate) ==
  [a EXCEPT !.password = IF p = NoPassword THEN @ ELSE p, !.username = @ \/ named,
            !.oauth = @ \/ oauth, !.active = @ \/ activate]

\* A PUT writes the default or NULL for every field its body leaves out; what
\* becomes of company_id is Directory's ReplaceUser.
Replaced(a, p, named, oauth) == [NewAccount(p, named) EXCEPT !.oauth = oauth]

\* The row is read for the check of update.
ReadForUpdate(j, op) ==
  /\ Begin(j, op)
  /\ account.exists
  /\ job' = [job EXCEPT ![j].pc = "write", ![j].op = op, ![j].seen = account]
  /\ UNCHANGED <<sessVars, account, link, resets, mix>>

\* can_login is asked of the row that was read with the non-NULL fields of
\* the body laid over it, for a PUT as for a PATCH; is_active is TRUE in a
\* PUT that leaves it out.
WriteUpdate(j) ==
  /\ job[j].pc = "write"
  /\ \E p \in Password \union {NoPassword}, named, oauth, activate \in BOOLEAN :
       /\ CanLogin(Patched(job[j].seen, p, named, oauth, activate))
       /\ account' =
            IF job[j].op = "update" THEN Patched(account, p, named, oauth, activate)
            ELSE Replaced(account, p, named, oauth)
       /\ job[j].op = "replace" => activate
  /\ Done(j)
  /\ UNCHANGED <<sessVars, link, resets, mix>>

\* The job fails, or the process stops, between two statements.
Fail(j) ==
  /\ job[j].pc # "idle"
  /\ Done(j)
  /\ UNCHANGED <<sessVars, account, link, resets, mix>>

LinkExpires(l) ==
  /\ link[l].state = "live"
  /\ link' = [link EXCEPT ![l].state = "expired"]
  /\ UNCHANGED <<sessVars, account, job, resets, mix>>

AcctInit ==
  /\ SessInit
  /\ account = NoAccount
  /\ link = [l \in Link |-> [purpose |-> "reset", state |-> "absent"]]
  /\ job = [j \in Job |-> IdleJob]
  /\ resets = [l \in Link |-> 0]
  /\ mix \in Mixes

JobNext(j) ==
  \/ CreateUser(j) \/ Forgot(j) \/ Invalidate(j) \/ InsertLink(j)
  \/ \E l \in Link : Consume(j, l)
  \/ VerifyChange(j) \/ SetPassword(j) \/ AcceptTerms(j) \/ Deactivate(j)
  \/ \E op \in {"update", "replace"} : ReadForUpdate(j, op)
  \/ WriteUpdate(j) \/ Fail(j)

AcctNext ==
  \/ \E r \in Request : Register(r) \/ Login(r) \/ SessionStep(r)
  \/ \E r \in Request, i \in Id, op \in {"refresh", "logout"} : LoadSession(r, op, i)
  \/ Passage
  \/ \E j \in Job : JobNext(j)
  \/ \E l \in Link : LinkExpires(l)

AcctSpec == AcctInit /\ [][AcctNext]_vars

-----------------------------------------------------------------------------
(* Properties.                                                             *)

\* Type correctness.
AcctTypeOK ==
  /\ account \in Account
  /\ link \in [Link -> [purpose : Purpose, state : {"absent", "live", "used", "expired"}]]
  /\ job \in [Job ->
       [pc : {"idle", "invalidate", "insert", "set", "write"},
        op : {"none", "invite", "reset", "reset_password", "change_password",
              "update", "replace"},
        link : SUBSET Link, seen : Account]]
  /\ resets \in [Link -> Nat]
  /\ mix \in Mixes

\* A link sets a password once, however many requests present it at the same
\* time and whatever is stopped half-way.
LinkOnce == \A l \in Link : resets[l] <= 1

\* A new link takes the older ones of its purpose out of use.  Requests that
\* overlap may each leave one: there are never more live links, the ones
\* about to be stored included, than requests can overlap; with one request
\* at a time only the newest link works.
NewestLinks ==
  \A purpose \in Purpose :
    Cardinality(LiveLinks(purpose))
      + Cardinality({j \in Job : job[j].pc = "insert" /\ job[j].op = purpose})
    <= Cardinality(Job)

\* What the README of the domain says of an account: "A user must have at
\* least one login method: a password or an OAuth provider".
KeepsLoginMethod ==
  account.exists => account.password # NoPassword \/ account.oauth
=============================================================================
