------------------------------ MODULE Sessions ------------------------------
(***************************************************************************)
(* The sessions of one user and the requests that open, refresh and close  *)
(* them (app/domains/auth: SessionService, SessionRepository and the       *)
(* session half of AuthService).  Every statement names the user or one of *)
(* his sessions, so users do not meet and one user is the whole story.     *)
(*                                                                         *)
(* A login is one transaction: free a place (select and lock the rows of   *)
(* the user), then insert the session and commit.  A refresh or a logout   *)
(* first loads the session and works on that copy; its UPDATE locks the    *)
(* row until the commit.  Row locks are PostgreSQL's: an UPDATE waits for  *)
(* the lock; FOR UPDATE SKIP LOCKED passes over locked rows and locks all  *)
(* the rows it reads, the ones OFFSET then drops included.                 *)
(***************************************************************************)
EXTENDS Integers, Sequences, FiniteSets

CONSTANTS
  Request,     \* requests in flight at the same time
  Id,          \* session ids; their number bounds the logins
  Limit,       \* max_active_sessions (5 in the code)
  MaxSecond,   \* bound: the clock, in seconds
  MaxRotation, \* bound: refreshes of one session
  SessionOps   \* the operations this instance runs

ASSUME SessionsAssumption ==
  /\ IsFiniteSet(Id)
  /\ Limit \in Nat \ {0}
  /\ MaxSecond \in Nat /\ MaxRotation \in Nat
  /\ SessionOps \subseteq {"login", "refresh", "logout"}

VARIABLES
  session,     \* Id -> the row [status, hash, expired]
  order,       \* the active sessions, least recently used first (last_used_at)
  second,      \* the clock: a JWT carries iat and exp in whole seconds
  request,     \* Request -> [pc, op, id, token, seen, locks, victim, crowded]
  extra        \* history: sessions opened without freeing a place by a login
               \* that found another transaction at work on the rows

sessVars == <<session, order, second, request, extra>>

-----------------------------------------------------------------------------
(* Rows and tokens.                                                        *)

\* The text of a refresh token is determined by its session and the second
\* of issue (sub, roles, sid, iat, exp).  Hashes are salted: n numbers the
\* hashes stored for one session, at is the second of the token hashed.
Hash == [at : 0..MaxSecond, n : 0..MaxRotation]

Session == [status : {"absent", "active", "revoked"}, hash : Hash, expired : BOOLEAN]

NoHash == [at |-> 0, n |-> 0]

NoSession == [status |-> "absent", hash |-> NoHash, expired |-> FALSE]

\* A session whose n-th hash is of a token issued now.
OpenSession(n) ==
  [status |-> "active", hash |-> [at |-> second, n |-> n], expired |-> FALSE]

\* A token a refresh may carry: the second it was issued in, or -1 for one
\* that fails a check whatever is stored: it was made for another session or
\* user, or it comes from a device with another fingerprint.
Token == -1..MaxSecond

\* _validate_refresh_request, on the hash that was read.
Verifies(t, hash) == t = hash.at

\* is_valid
IsValid(row) == row.status = "active" /\ ~row.expired

Active == {i \in Id : session[i].status = "active"}

\* i was used before j.
Before(i, j) ==
  \E p, q \in DOMAIN order : order[p] = i /\ order[q] = j /\ p < q

Earlier(i, S) == {j \in S : Before(j, i)}

Locked(i) == \E r \in Request : i \in request[r].locks

Unlocked == {i \in Active : ~Locked(i)}

\* The order without session i.
Without(i) ==
  LET k == CHOOSE p \in DOMAIN order : order[p] = i
  IN [p \in 1..(Len(order) - 1) |-> IF p < k THEN order[p] ELSE order[p + 1]]

\* A request that holds no lock; it knows the session it loaded, if any.
NewRequest(pc, op, id, token, seen) ==
  [pc |-> pc, op |-> op, id |-> id, token |-> token, seen |-> seen,
   locks |-> {}, victim |-> {}, crowded |-> FALSE]

IdleRequest == NewRequest("idle", "none", {}, -1, NoHash)

\* A login, or the session opened for a registration.
NewLogin == NewRequest("verified", "login", {}, -1, NoHash)

\* A transaction of the user's is between its first lock and its commit.
Writing == {"freed", "rotating", "revoking"}

-----------------------------------------------------------------------------
(* Login.                                                                  *)

\* The account exists and the password matches the hash that was read.
StartLogin(r) ==
  /\ "login" \in SessionOps
  /\ request[r].pc = "idle"
  /\ request' = [request EXCEPT ![r] = NewLogin]
  /\ UNCHANGED <<session, order, second, extra>>

\* Mutant: OFFSET limit.
LateVictim(S) == {i \in S : Cardinality(Earlier(i, S)) = Limit}

\* ORDER BY last_used_at OFFSET limit - 1 LIMIT 1
Victim(S) == {i \in S : Cardinality(Earlier(i, S)) = Limit - 1}

\* The rows read to reach that one.
Visited(S) == {i \in S : Cardinality(Earlier(i, S)) <= Limit - 1}

\* free_active_sessions_limit: the revocation is flushed, not yet committed.
FreePlace(r) ==
  /\ request[r].pc = "verified"
  /\ request' = [request EXCEPT ![r].pc = "freed",
       ![r].victim = Victim(Unlocked), ![r].locks = Visited(Unlocked),
       ![r].crowded = \E o \in Request \ {r} : request[o].pc \in Writing]
  /\ UNCHANGED <<session, order, second, extra>>

\* The insertion, the token and its hash, and the commit.
CommitLogin(r) ==
  /\ request[r].pc = "freed"
  /\ \E i \in Id :
       LET kept == IF request[r].victim = {} THEN order
                   ELSE Without(CHOOSE v \in request[r].victim : TRUE)
       IN /\ session[i].status = "absent"
          /\ session' = [j \in Id |->
               IF j = i THEN OpenSession(0)
               ELSE IF j \in request[r].victim THEN [session[j] EXCEPT !.status = "revoked"]
               ELSE session[j]]
          /\ order' = Append(kept, i)
  /\ extra' = IF request[r].crowded /\ request[r].victim = {} THEN extra + 1 ELSE extra
  /\ request' = [request EXCEPT ![r] = IdleRequest]
  /\ UNCHANGED second

-----------------------------------------------------------------------------
(* Refresh and logout.                                                     *)

\* get_current_user_session: the session of the access token, read and valid.
Load(r, op, i) ==
  /\ op \in SessionOps
  /\ request[r].pc = "idle"
  /\ IsValid(session[i])
  /\ \E t \in IF op = "refresh" THEN {u \in Token : u <= second} ELSE {-1} :
       request' = [request EXCEPT ![r] =
                     NewRequest("loaded", op, {i}, t, session[i].hash)]
  /\ UNCHANGED <<session, order, second, extra>>

\* The UPDATE of revoke() changes a row whose status is another one; it is
\* sent by a logout and by a refresh whose token does not verify.
BeginRevoke(r, i) ==
  /\ request[r].pc = "loaded" /\ request[r].id = {i}
  /\ request[r].op = "logout" \/ ~Verifies(request[r].token, request[r].seen)
  /\ ~Locked(i)
  /\ request' =
       IF session[i].status = "revoked"
       THEN [request EXCEPT ![r] = IdleRequest]
       ELSE [request EXCEPT ![r].pc = "revoking", ![r].locks = {i}]
  /\ UNCHANGED <<session, order, second, extra>>

CommitRevoke(r, i) ==
  /\ request[r].pc = "revoking" /\ request[r].id = {i}
  /\ session' = [session EXCEPT ![i].status = "revoked"]
  /\ order' = Without(i)
  /\ request' = [request EXCEPT ![r] = IdleRequest]
  /\ UNCHANGED <<second, extra>>

\* Mutant: the UPDATE names the session only.
StillThere(row, seen) == row.status = "active"

\* Mutant: the UPDATE does not look at the status.
SameHash(row, seen) == row.hash = seen

\* The WHERE clause of atomic_refresh_token.
StillCurrent(row, seen) == row.hash = seen /\ row.status = "active"

\* The new token is signed and its hash sent; 404 when no row matches.
BeginRotate(r, i) ==
  /\ request[r].pc = "loaded" /\ request[r].id = {i} /\ request[r].op = "refresh"
  /\ Verifies(request[r].token, request[r].seen)
  /\ ~Locked(i)
  /\ session[i].hash = request[r].seen => ~session[i].expired
  /\ request[r].seen.n < MaxRotation
  /\ request' =
       IF StillCurrent(session[i], request[r].seen)
       THEN [request EXCEPT ![r].pc = "rotating", ![r].locks = {i}]
       ELSE [request EXCEPT ![r] = IdleRequest]
  /\ UNCHANGED <<session, order, second, extra>>

CommitRotate(r, i) ==
  /\ request[r].pc = "rotating" /\ request[r].id = {i}
  /\ session' = [session EXCEPT ![i] = OpenSession(@.hash.n + 1)]
  /\ order' = Append(Without(i), i)
  /\ request' = [request EXCEPT ![r].pc = "refreshed", ![r].locks = {}]
  /\ UNCHANGED <<second, extra>>

\* The copy's expires_at has passed: SessionExpiredError.
TooLate(r, i) ==
  /\ request[r].pc = "loaded" /\ request[r].id = {i} /\ request[r].op = "refresh"
  /\ Verifies(request[r].token, request[r].seen)
  /\ session[i].hash = request[r].seen /\ session[i].expired
  /\ request' = [request EXCEPT ![r] = IdleRequest]
  /\ UNCHANGED <<session, order, second, extra>>

-----------------------------------------------------------------------------
(* The response is sent, or the request fails and its transaction with it. *)

End(r) ==
  /\ request[r].pc # "idle"
  /\ request' = [request EXCEPT ![r] = IdleRequest]
  /\ UNCHANGED <<session, order, second, extra>>

Tick ==
  /\ second < MaxSecond
  /\ second' = second + 1
  /\ UNCHANGED <<session, order, request, extra>>

\* expires_at passes.
Expire(i) ==
  /\ IsValid(session[i])
  /\ session' = [session EXCEPT ![i].expired = TRUE]
  /\ UNCHANGED <<order, second, request, extra>>

SessInit ==
  /\ session = [i \in Id |-> NoSession]
  /\ order = <<>>
  /\ second = 0
  /\ request = [r \in Request |-> IdleRequest]
  /\ extra = 0

LoginNext(r) == StartLogin(r) \/ FreePlace(r) \/ CommitLogin(r)

RefreshNext(r, i) ==
  \/ \E op \in {"refresh", "logout"} : Load(r, op, i)
  \/ BeginRevoke(r, i)
  \/ CommitRevoke(r, i)
  \/ BeginRotate(r, i)
  \/ CommitRotate(r, i)
  \/ TooLate(r, i)

SessNext ==
  \/ \E r \in Request : LoginNext(r) \/ End(r)
  \/ \E r \in Request, i \in Id : RefreshNext(r, i)
  \/ \E i \in Id : Expire(i)
  \/ Tick

SessSpec == SessInit /\ [][SessNext]_sessVars

-----------------------------------------------------------------------------
(* Properties.                                                             *)

\* Type correctness.
SessTypeOK ==
  /\ session \in [Id -> Session]
  /\ order \in Seq(Id)
  /\ second \in 0..MaxSecond
  /\ extra \in Nat
  /\ request \in [Request ->
       [pc : {"idle", "verified", "freed", "loaded", "revoking", "rotating",
              "refreshed"},
        op : {"none", "login", "refresh", "logout"},
        id : SUBSET Id, token : Token, seen : Hash, locks : SUBSET Id,
        victim : SUBSET Id, crowded : BOOLEAN]]

\* The order of use lists every active session once.
OrderIsActive ==
  /\ {order[p] : p \in DOMAIN order} = Active
  /\ \A p, q \in DOMAIN order : order[p] = order[q] => p = q

\* Rows, requests and the order of use keep their shape and agree.
SessInv == SessTypeOK /\ OrderIsActive

\* Of the refreshes that read the same hash at most one gets new tokens
\* ("Prevents race conditions where two concurrent requests could both use
\* the same refresh token", atomic_refresh_token).
OneWinner ==
  \A r, o \in Request :
    /\ request[r].pc = "refreshed" /\ request[o].pc = "refreshed"
    /\ request[r].id = request[o].id
    /\ request[r].seen = request[o].seen
    => r = o

\* Only a login that runs while another transaction of the same user is
\* uncommitted can take the number of active sessions over the limit, by
\* one each; logins that do not meet another transaction respect it.
SessionLimit == Len(order) <= Limit + extra

\* A revoked session stays revoked: no refresh that was under way when it
\* was revoked brings it back.
RevokedIsFinal ==
  [][\A i \in Id : session[i].status = "revoked" => session'[i].status = "revoked"]_sessVars

\* What the README of the domain says of a refresh: it "invalidates the
\* previous refresh token hash", so the token it was given verifies no more.
RotationInvalidates ==
  \A r \in Request, i \in Id :
    request[r].pc = "refreshed" /\ request[r].id = {i} =>
      ~Verifies(request[r].token, session[i].hash)
=============================================================================
