--------------------------- MODULE AccountsProofs ---------------------------
(***************************************************************************)
(* Proofs about Sessions and Accounts: for any number of requests, jobs,   *)
(* sessions and links, any limit and any traffic, rotation has one winner, *)
(* a revoked session stays revoked, the limit is only passed by logins     *)
(* that meet another transaction, and a link sets a password once.         *)
(*                                                                         *)
(* And about Directory: requests whose checks are out of date leave no row *)
(* that names what is not there, a change of roles is whole, nobody is     *)
(* taken out of a company that the request did not name, and a restart     *)
(* gives the seeded users back what their roles are for.                   *)
(***************************************************************************)
EXTENDS Accounts, Directory, TLAPS, FiniteSetTheorems

USE SessionsAssumption

RequestRecord ==
  [pc : {"idle", "verified", "freed", "loaded", "revoking", "rotating", "refreshed"},
   op : {"none", "login", "refresh", "logout"},
   id : SUBSET Id, token : Token, seen : Hash, locks : SUBSET Id,
   victim : SUBSET Id, crowded : BOOLEAN]

\* A row is locked by one transaction at a time, and active while it is.
LocksOK ==
  /\ \A r \in Request : \A i \in request[r].locks : session[i].status = "active"
  /\ \A r, o \in Request : r # o => request[r].locks \intersect request[o].locks = {}
  /\ \A r \in Request : request[r].pc \notin Writing => request[r].locks = {}

\* What a request loaded was once stored, and it locks what it writes.
LoadedOK ==
  \A r \in Request :
    /\ \A i \in request[r].id : session[i].status # "absent"
    /\ request[r].pc \in {"revoking", "rotating"} => request[r].locks = request[r].id

\* A login revokes at most one session, which it locked.
VictimOK ==
  \A r \in Request :
    /\ request[r].pc # "freed" => request[r].victim = {}
    /\ request[r].victim \subseteq request[r].locks
    /\ \A v, w \in request[r].victim : v = w

\* Between the statement and the commit of a rotation the hash is the one it
\* read; after the commit the session has a later one.
HashesOK ==
  \A r \in Request : \A i \in request[r].id :
    /\ request[r].pc = "rotating" =>
         session[i].hash = request[r].seen /\ request[r].seen.n < MaxRotation
    /\ request[r].pc = "refreshed" => request[r].seen.n < session[i].hash.n

\* A login that met no other transaction is the only one of its kind, and
\* there is a place for its session.
Alone(r) == request[r].pc = "freed" /\ ~request[r].crowded

PlacesOK ==
  /\ \A r \in Request : Alone(r) /\ request[r].victim = {} => Len(order) + 1 <= Limit + extra
  /\ \A r, o \in Request : Alone(r) /\ Alone(o) => r = o

\* The inductive invariant of Sessions.
SessionsInv ==
  /\ SessInv
  /\ LocksOK
  /\ LoadedOK
  /\ VictimOK
  /\ HashesOK
  /\ PlacesOK
  /\ SessionLimit
  /\ OneWinner

-----------------------------------------------------------------------------
(* Rows, requests and the order of use.                                    *)

\* q lists the members of S once.
Lists(q, S) ==
  /\ q \in Seq(Id)
  /\ {q[p] : p \in DOMAIN q} = S
  /\ \A p, o \in DOMAIN q : q[p] = q[o] => p = o

\* The rows and requests the actions build have their type.
LEMMA RecordTypes ==
  /\ NoHash \in Hash /\ NoSession \in Session /\ IdleRequest \in RequestRecord
  /\ NewLogin \in RequestRecord
  BY DEF NoHash, NoSession, Hash, Session, IdleRequest, NewLogin, NewRequest, RequestRecord, Token

LEMMA TypeFacts ==
  ASSUME SessInv
  PROVE  /\ session \in [Id -> Session]
         /\ request \in [Request -> RequestRecord]
         /\ Lists(order, Active)
         /\ second \in 0..MaxSecond /\ extra \in Nat /\ Len(order) \in Nat
  BY DEF SessInv, SessTypeOK, OrderIsActive, Lists, RequestRecord

\* Adding a session at the end.
LEMMA AppendLists ==
  ASSUME NEW q, NEW S, Lists(q, S), NEW i \in Id, i \notin S
  PROVE  Lists(Append(q, i), S \union {i}) /\ Len(Append(q, i)) = Len(q) + 1
<1> DEFINE a == Append(q, i)
<1>1. /\ a \in Seq(Id) /\ Len(a) = Len(q) + 1 /\ Len(q) \in Nat
      /\ \A p \in 1..Len(q) : a[p] = q[p]
      /\ a[Len(q) + 1] = i
  BY DEF Lists
<1>2. DOMAIN a = DOMAIN q \union {Len(q) + 1} /\ DOMAIN q = 1..Len(q)
  BY <1>1 DEF Lists
<1> HIDE DEF a
<1>3. {a[p] : p \in DOMAIN a} = S \union {i}
  BY <1>1, <1>2 DEF Lists
<1>4. \A p, o \in DOMAIN a : a[p] = a[o] => p = o
  BY <1>1, <1>2 DEF Lists
<1>5. Lists(a, S \union {i})
  BY <1>1, <1>3, <1>4 DEF Lists
<1> QED
  BY <1>1, <1>5 DEF a

\* Taking a session out of the order.
LEMMA WithoutLists ==
  ASSUME NEW S, Lists(order, S), NEW i \in S
  PROVE  Lists(Without(i), S \ {i}) /\ Len(Without(i)) = Len(order) - 1
<1> DEFINE n == Len(order)
           k == CHOOSE p \in DOMAIN order : order[p] = i
           w == [p \in 1..(n - 1) |-> IF p < k THEN order[p] ELSE order[p + 1]]
<1>1. /\ n \in Nat /\ DOMAIN order = 1..n /\ \A p \in 1..n : order[p] \in Id
      /\ k \in 1..n /\ order[k] = i
      /\ \A p, o \in 1..n : order[p] = order[o] => p = o
      /\ \A x : x \in S <=> \E p \in 1..n : order[p] = x
  BY DEF Lists
<1>2. Without(i) = w
  BY DEF Without
<1> HIDE DEF k, n
<1>3. w \in Seq(Id) /\ Len(w) = n - 1 /\ DOMAIN w = 1..(n - 1)
  BY <1>1
<1>4. \A p, o \in DOMAIN w : w[p] = w[o] => p = o
  BY <1>1, <1>3
<1>5. ASSUME NEW x \in S \ {i} PROVE x \in {w[p] : p \in DOMAIN w}
  <2>1. PICK p \in 1..n : order[p] = x
    BY <1>1
  <2>2. CASE p < k
    BY <1>1, <1>3, <2>1, <2>2
  <2>3. CASE p > k
    <3>1. p - 1 \in DOMAIN w /\ w[p - 1] = x
      BY <1>1, <1>3, <2>1, <2>3
    <3> QED
      BY <3>1
  <2> QED
    BY <1>1, <2>1, <2>2, <2>3
<1>6. \A p \in DOMAIN w : w[p] \in S \ {i}
  BY <1>1, <1>3
<1>7. {w[p] : p \in DOMAIN w} = S \ {i}
  BY <1>5, <1>6
<1> HIDE DEF w
<1> QED
  BY <1>2, <1>3, <1>4, <1>7 DEF Lists, n

\* Of the sessions of S one at most has Limit - 1 earlier ones.
LEMMA OneVictim ==
  ASSUME SessInv, NEW S \in SUBSET Active, NEW v \in Victim(S), NEW w \in Victim(S)
  PROVE  v = w
<1>1. ASSUME NEW x \in S, NEW y \in S, Before(x, y)
      PROVE  Cardinality(Earlier(x, S)) < Cardinality(Earlier(y, S))
  <2>1. /\ IsFiniteSet(Earlier(x, S)) /\ IsFiniteSet(Earlier(y, S))
    <3>1. Earlier(x, S) \subseteq Id /\ Earlier(y, S) \subseteq Id
      BY DEF Earlier, Active
    <3> QED
      BY <3>1, FS_Subset
  <2>2. x \notin Earlier(x, S)
    BY DEF Earlier, Before, SessInv, OrderIsActive, SessTypeOK
  <2>3. Earlier(x, S) \union {x} \subseteq Earlier(y, S)
    BY <1>1 DEF Earlier, Before, SessInv, OrderIsActive, SessTypeOK
  <2>4. Cardinality(Earlier(x, S) \union {x}) = Cardinality(Earlier(x, S)) + 1
    BY <2>1, <2>2, FS_AddElement
  <2> QED
    BY <2>1, <2>3, <2>4, FS_Subset, FS_CardinalityType
<1>2. v = w \/ Before(v, w) \/ Before(w, v)
  BY DEF Before, SessInv, OrderIsActive, SessTypeOK, Victim
<1>3. /\ v \in S /\ w \in S
      /\ Cardinality(Earlier(v, S)) = Limit - 1 /\ Cardinality(Earlier(w, S)) = Limit - 1
  BY DEF Victim
<1> QED
  BY <1>1, <1>2, <1>3

\* With nothing locked, a login that frees no place has one.
LEMMA PlaceLeft ==
  ASSUME SessInv, Victim(Active) = {}
  PROVE  Len(order) + 1 <= Limit
<1> SUFFICES ASSUME Len(order) >= Limit PROVE FALSE
  BY TypeFacts
<1> DEFINE x == order[Limit]
           f == [p \in 1..(Limit - 1) |-> order[p]]
<1>1. /\ Len(order) \in Nat /\ DOMAIN order = 1..Len(order) /\ Limit \in DOMAIN order
      /\ \A p, q \in 1..Len(order) : order[p] = order[q] => p = q
      /\ \A p \in DOMAIN order : order[p] \in Active
      /\ \A i \in Active : \E p \in DOMAIN order : order[p] = i
  BY DEF SessInv, OrderIsActive, SessTypeOK
<1>2. ASSUME NEW j PROVE j \in Earlier(x, Active) <=> \E p \in 1..(Limit - 1) : order[p] = j
  BY <1>1 DEF Earlier, Before
<1>3. f \in Bijection(1..(Limit - 1), Earlier(x, Active))
  <2>1. f \in [1..(Limit - 1) -> Earlier(x, Active)]
    BY <1>2
  <2>2. \A j \in Earlier(x, Active) : \E p \in 1..(Limit - 1) : f[p] = j
    BY <1>2
  <2>3. \A p, q \in 1..(Limit - 1) : f[p] = f[q] => p = q
    BY <1>1
  <2> HIDE DEF f
  <2> QED
    BY <2>1, <2>2, <2>3 DEF Bijection, Injection, Surjection, IsInjective
<1>4. Cardinality(1..(Limit - 1)) = Limit - 1 /\ IsFiniteSet(1..(Limit - 1))
  BY FS_Interval
<1>5. Cardinality(Earlier(x, Active)) = Limit - 1
  BY <1>3, <1>4, FS_Bijection DEF ExistsBijection
<1>6. x \in Victim(Active)
  BY <1>1, <1>5 DEF Victim
<1> QED
  BY <1>6

-----------------------------------------------------------------------------
(* The steps of the sessions.                                              *)

\* There is no session and no request.
LEMMA SessionsInitially == SessInit => SessionsInv
<1> SUFFICES ASSUME SessInit PROVE SessionsInv
  OBVIOUS
<1>1. \A r \in Request :
        /\ request[r].pc = "idle" /\ request[r].locks = {} /\ request[r].id = {}
        /\ request[r].victim = {}
  BY DEF SessInit, IdleRequest, NewRequest
<1>2. Active = {}
  BY DEF SessInit, Active, NoSession
<1>3. SessInv
  <2>1. SessTypeOK
    BY RecordTypes DEF SessInit, SessTypeOK, RequestRecord
  <2>2. OrderIsActive
    BY <1>2 DEF SessInit, OrderIsActive
  <2> QED
    BY <2>1, <2>2 DEF SessInv
<1>4. LocksOK /\ LoadedOK /\ VictimOK /\ HashesOK /\ OneWinner
  BY <1>1 DEF LocksOK, LoadedOK, VictimOK, HashesOK, OneWinner, Writing
<1>5. PlacesOK /\ SessionLimit
  BY <1>1 DEF SessInit, PlacesOK, Alone, SessionLimit
<1> QED
  BY <1>3, <1>4, <1>5 DEF SessionsInv

\* A step of one request that changes no session; x is the request after it.
LEMMA RequestMoves ==
  ASSUME SessionsInv, NEW r \in Request, NEW x \in RequestRecord,
         request' = [request EXCEPT ![r] = x],
         UNCHANGED <<session, order, second, extra>>,
         x.pc \notin {"freed", "refreshed"}, x.victim = {},
         \A i \in x.id : session[i].status # "absent",
         \/ x.pc \notin Writing /\ x.locks = {}
         \/ /\ x.pc \in {"revoking", "rotating"} /\ x.locks = x.id
            /\ \A i \in x.id : ~Locked(i) /\ session[i].status = "active"
            /\ x.pc = "rotating" => \A i \in x.id : session[i].hash = x.seen
            /\ x.pc = "rotating" => x.seen.n < MaxRotation
  PROVE  SessionsInv'
<1>1. \A o \in Request : request'[o] = IF o = r THEN x ELSE request[o]
  BY TypeFacts DEF SessionsInv
<1>2. SessInv'
  BY <1>1, TypeFacts DEF SessionsInv, SessInv, SessTypeOK, OrderIsActive, Active, RequestRecord
<1>3. LocksOK'
  BY <1>1 DEF SessionsInv, LocksOK, Locked, Writing
<1>4. LoadedOK' /\ VictimOK'
  BY <1>1 DEF SessionsInv, LoadedOK, VictimOK, Writing
<1>5. HashesOK' /\ OneWinner'
  BY <1>1 DEF SessionsInv, HashesOK, OneWinner, Writing
<1>6. PlacesOK' /\ SessionLimit'
  BY <1>1 DEF SessionsInv, PlacesOK, Alone, SessionLimit
<1> QED
  BY <1>2, <1>3, <1>4, <1>5, <1>6 DEF SessionsInv

LEMMA LoginStarts ==
  ASSUME SessionsInv, NEW r \in Request, request[r].pc = "idle",
         request' = [request EXCEPT ![r] = NewLogin],
         UNCHANGED <<session, order, second, extra>>
  PROVE  SessionsInv'
<1>1. /\ NewLogin.pc = "verified" /\ NewLogin.id = {} /\ NewLogin.locks = {}
      /\ NewLogin.victim = {}
  BY DEF NewLogin, NewRequest
<1> QED
  BY <1>1, RecordTypes, RequestMoves DEF Writing

\* A request that ends without a commit.
LEMMA RequestEnds ==
  ASSUME SessionsInv, NEW r \in Request,
         request' = [request EXCEPT ![r] = IdleRequest],
         UNCHANGED <<session, order, second, extra>>
  PROVE  SessionsInv'
<1>1. /\ IdleRequest.pc = "idle" /\ IdleRequest.id = {} /\ IdleRequest.locks = {}
      /\ IdleRequest.victim = {}
  BY DEF IdleRequest, NewRequest
<1> QED
  BY <1>1, RecordTypes, RequestMoves DEF Writing

LEMMA LoadStep ==
  ASSUME SessionsInv, NEW r \in Request, NEW op \in {"refresh", "logout"}, NEW i \in Id,
         Load(r, op, i)
  PROVE  SessionsInv'
<1>1. PICK t \in Token :
        request' = [request EXCEPT ![r] = NewRequest("loaded", op, {i}, t, session[i].hash)]
  <2>1. (IF op = "refresh" THEN {u \in Token : u <= second} ELSE {-1}) \subseteq Token
    BY DEF Token
  <2> QED
    BY <2>1 DEF Load
<1> DEFINE x == NewRequest("loaded", op, {i}, t, session[i].hash)
<1>2. session[i] \in Session /\ session[i].status # "absent"
  BY TypeFacts DEF Load, IsValid, SessionsInv
<1>3. /\ x \in RequestRecord /\ x.pc = "loaded" /\ x.id = {i} /\ x.locks = {}
      /\ x.victim = {}
  BY <1>2 DEF NewRequest, RequestRecord, Session
<1> HIDE DEF x
<1> QED
  BY ZenonT(60), <1>1, <1>2, <1>3, RequestMoves DEF x, Load, Writing

LEMMA BeginStep ==
  ASSUME SessionsInv, NEW r \in Request, NEW i \in Id,
         BeginRevoke(r, i) \/ BeginRotate(r, i)
  PROVE  SessionsInv'
<1>1. /\ request[r].pc = "loaded" /\ request[r].id = {i} /\ ~Locked(i)
      /\ UNCHANGED <<session, order, second, extra>>
  BY DEF BeginRevoke, BeginRotate
<1>2. request[r] \in RequestRecord /\ session[i] \in Session /\ session[i].status # "absent"
  BY <1>1, TypeFacts DEF SessionsInv, LoadedOK
<1>3. request[r].victim = {}
  BY <1>1 DEF SessionsInv, VictimOK
<1>4. CASE request' = [request EXCEPT ![r] = IdleRequest]
  BY <1>1, <1>4, RequestEnds
<1>5. ASSUME NEW pc \in {"revoking", "rotating"},
             request' = [request EXCEPT ![r].pc = pc, ![r].locks = {i}],
             session[i].status = "active",
             pc = "rotating" => /\ session[i].hash = request[r].seen
                                /\ request[r].seen.n < MaxRotation
      PROVE  SessionsInv'
  <2> DEFINE x == [request[r] EXCEPT !.pc = pc, !.locks = {i}]
  <2>1. /\ x \in RequestRecord /\ x.pc = pc /\ x.id = {i} /\ x.locks = {i}
        /\ x.victim = {} /\ x.seen = request[r].seen
        /\ request' = [request EXCEPT ![r] = x]
    BY <1>1, <1>2, <1>3, <1>5, TypeFacts DEF RequestRecord, SessionsInv
  <2> HIDE DEF x
  <2>2. /\ x.pc \in {"revoking", "rotating"} /\ x.locks = x.id
        /\ \A j \in x.id : session[j].status # "absent"
        /\ \A j \in x.id : ~Locked(j) /\ session[j].status = "active"
        /\ x.pc = "rotating" => \A j \in x.id : session[j].hash = x.seen
        /\ x.pc = "rotating" => x.seen.n < MaxRotation
    BY <1>1, <1>2, <1>5, <2>1
  <2>3. x.pc \notin {"freed", "refreshed"}
    BY <2>2
  <2> QED
    BY <1>1, <2>1, <2>2, <2>3, RequestMoves
<1>6. CASE BeginRevoke(r, i)
  BY <1>2, <1>4, <1>5, <1>6 DEF BeginRevoke, Session
<1>7. CASE BeginRotate(r, i)
  BY <1>4, <1>5, <1>7 DEF BeginRotate, StillCurrent
<1> QED
  BY <1>6, <1>7

\* A login frees a place: it locks what is not locked.
LEMMA FreePlaceStep ==
  ASSUME SessionsInv, NEW r \in Request, FreePlace(r)
  PROVE  SessionsInv'
<1> DEFINE crowd == \E o \in Request \ {r} : request[o].pc \in Writing
           x == [request[r] EXCEPT !.pc = "freed", !.victim = Victim(Unlocked),
                   !.locks = Visited(Unlocked), !.crowded = crowd]
<1>1. /\ request[r].pc = "verified" /\ request[r] \in RequestRecord
      /\ UNCHANGED <<session, order, second, extra>>
  BY TypeFacts DEF FreePlace, SessionsInv
<1>2. /\ Visited(Unlocked) \subseteq Unlocked /\ Victim(Unlocked) \subseteq Visited(Unlocked)
      /\ Unlocked \subseteq Active /\ Active \subseteq Id
  BY DEF Visited, Victim, Unlocked, Active
<1>3. /\ x \in RequestRecord /\ x.pc = "freed" /\ x.victim = Victim(Unlocked)
      /\ x.locks = Visited(Unlocked) /\ x.crowded = crowd /\ x.id = request[r].id
  BY <1>1, <1>2 DEF RequestRecord
<1>4. request' = [request EXCEPT ![r] = x]
  BY <1>1, TypeFacts DEF FreePlace, SessionsInv, RequestRecord
<1> HIDE DEF x, crowd
<1>5. \A o \in Request : request'[o] = IF o = r THEN x ELSE request[o]
  BY <1>4, TypeFacts DEF SessionsInv
<1>6. SessInv'
  BY <1>1, <1>3, <1>4, TypeFacts
    DEF SessionsInv, SessInv, SessTypeOK, OrderIsActive, Active, RequestRecord
<1>7. LocksOK'
  BY <1>1, <1>2, <1>3, <1>5 DEF SessionsInv, LocksOK, Unlocked, Locked, Active, Writing
<1>8. LoadedOK' /\ HashesOK' /\ OneWinner'
  BY <1>1, <1>3, <1>5 DEF SessionsInv, LoadedOK, HashesOK, OneWinner
<1>9. VictimOK'
  BY <1>2, <1>3, <1>5, OneVictim DEF SessionsInv, VictimOK
<1>10. ASSUME ~x.crowded
       PROVE  /\ x.victim = {} => Len(order) + 1 <= Limit + extra
              /\ \A o \in Request \ {r} : request[o].pc # "freed"
  <2>1. \A o \in Request \ {r} : request[o].pc \notin Writing
    BY <1>3, <1>10 DEF crowd
  <2>2. Unlocked = Active
    BY <1>1, <2>1 DEF SessionsInv, LocksOK, Unlocked, Locked, Writing
  <2> QED
    BY <1>3, <2>1, <2>2, PlaceLeft, TypeFacts DEF SessionsInv, Writing
<1>11. PlacesOK' /\ SessionLimit'
  BY <1>1, <1>3, <1>5, <1>10 DEF SessionsInv, PlacesOK, SessionLimit, Alone
<1> QED
  BY <1>6, <1>7, <1>8, <1>9, <1>11 DEF SessionsInv

-----------------------------------------------------------------------------
(* The commits.                                                            *)

\* A login commits: it opens a session and revokes its victim, if any.
LEMMA CommitLoginStep ==
  ASSUME SessionsInv, NEW r \in Request, CommitLogin(r)
  PROVE  SessionsInv'
<1> DEFINE V == request[r].victim
           kept == IF V = {} THEN order ELSE Without(CHOOSE v \in V : TRUE)
<1>1. PICK i \in Id :
        /\ session[i].status = "absent"
        /\ session' = [j \in Id |->
             IF j = i THEN OpenSession(0)
             ELSE IF j \in V THEN [session[j] EXCEPT !.status = "revoked"] ELSE session[j]]
        /\ order' = Append(kept, i)
  BY DEF CommitLogin
<1>2. /\ request[r].pc = "freed" /\ request' = [request EXCEPT ![r] = IdleRequest]
      /\ second' = second
      /\ extra' = IF request[r].crowded /\ V = {} THEN extra + 1 ELSE extra
  BY DEF CommitLogin
<1>3. /\ session \in [Id -> Session] /\ request \in [Request -> RequestRecord]
      /\ Lists(order, Active) /\ second \in 0..MaxSecond /\ extra \in Nat
      /\ Len(order) \in Nat
  BY TypeFacts DEF SessionsInv
<1>4. V \subseteq Active /\ V \subseteq request[r].locks
  BY DEF SessionsInv, VictimOK, LocksOK, Active, TypeFacts, SessInv, SessTypeOK
<1>5. i \notin Active
  BY <1>1 DEF Active
<1>6. Lists(kept, Active \ V) /\ Len(kept) = IF V = {} THEN Len(order) ELSE Len(order) - 1
  <2>1. CASE V = {}
    BY <1>3, <2>1
  <2>2. CASE V # {}
    <3>1. PICK v \in V : v = CHOOSE w \in V : TRUE
      BY <2>2
    <3>2. V = {v} /\ v \in Active
      BY <1>4, <3>1 DEF SessionsInv, VictimOK
    <3> QED
      BY <1>3, <2>2, <3>1, <3>2, WithoutLists
  <2> QED
    BY <2>1, <2>2
<1> HIDE DEF kept
<1>7. Lists(order', (Active \ V) \union {i}) /\ Len(order') = Len(kept) + 1
  BY <1>1, <1>5, <1>6, AppendLists
<1>8. OpenSession(0) \in Session /\ OpenSession(0).status = "active"
  BY <1>3 DEF OpenSession, Session, Hash
<1>9. \A j \in Id :
        /\ j # i /\ j \notin V => session'[j] = session[j]
        /\ j \in V => /\ session'[j].status = "revoked" /\ session'[j].hash = session[j].hash
                      /\ session'[j] \in Session
        /\ j = i => session'[j] = OpenSession(0)
  BY <1>1, <1>3, <1>4, <1>5 DEF Session
<1>10. session' \in [Id -> Session]
  BY <1>1, <1>3, <1>8, <1>9
<1>11. Active' = (Active \ V) \union {i}
  BY <1>4, <1>8, <1>9 DEF Active
<1>12. /\ IdleRequest.pc = "idle" /\ IdleRequest.locks = {} /\ IdleRequest.id = {}
       /\ IdleRequest.victim = {}
  BY DEF IdleRequest, NewRequest
<1>13. \A o \in Request : request'[o] = IF o = r THEN IdleRequest ELSE request[o]
  BY <1>2, <1>3
<1>14. SessInv'
  <2>1. extra' \in Nat /\ second' \in 0..MaxSecond
    BY <1>2, <1>3
  <2>2. request' \in [Request -> RequestRecord]
    BY <1>2, <1>3, RecordTypes
  <2>3. OrderIsActive' /\ order' \in Seq(Id)
    BY <1>7, <1>11 DEF OrderIsActive, Lists
  <2> QED
    BY <1>10, <2>1, <2>2, <2>3 DEF SessInv, SessTypeOK, RequestRecord
<1>15. \A o \in Request \ {r} : \A j \in request[o].locks : j # i /\ j \notin V
  BY <1>1, <1>4 DEF SessionsInv, LocksOK
<1>16. LocksOK'
  <2>1. \A o \in Request \ {r} : \A j \in request[o].locks : j \in Id
    BY <1>3 DEF RequestRecord
  <2> QED
    BY <1>9, <1>12, <1>13, <1>15, <2>1 DEF SessionsInv, LocksOK, Writing
<1>17. \A o \in Request : request[o].id \subseteq Id
  BY <1>3 DEF RequestRecord
<1>18. LoadedOK' /\ VictimOK'
  BY <1>9, <1>8, <1>12, <1>13, <1>17 DEF SessionsInv, LoadedOK, VictimOK
<1>19. HashesOK' /\ OneWinner'
  <2>1. \A o \in Request : \A j \in request[o].id : j # i
    BY <1>1 DEF SessionsInv, LoadedOK
  <2>2. \A o \in Request : \A j \in request[o].id : session'[j].hash = session[j].hash
    BY <1>9, <1>17, <2>1
  <2> QED
    BY <1>12, <1>13, <2>2 DEF SessionsInv, HashesOK, OneWinner
<1>20. PlacesOK' /\ SessionLimit'
  <2>1. CASE V # {}
    BY <1>2, <1>3, <1>6, <1>7, <1>12, <1>13, <2>1
      DEF SessionsInv, PlacesOK, SessionLimit, Alone
  <2>2. CASE V = {} /\ request[r].crowded
    BY <1>2, <1>3, <1>6, <1>7, <1>12, <1>13, <2>2
      DEF SessionsInv, PlacesOK, SessionLimit, Alone
  <2>3. CASE V = {} /\ ~request[r].crowded
    BY <1>2, <1>3, <1>6, <1>7, <1>12, <1>13, <2>3
      DEF SessionsInv, PlacesOK, SessionLimit, Alone
  <2> QED
    BY <2>1, <2>2, <2>3
<1> QED
  BY <1>14, <1>16, <1>18, <1>19, <1>20 DEF SessionsInv

\* A revocation commits.
LEMMA CommitRevokeStep ==
  ASSUME SessionsInv, NEW r \in Request, NEW i \in Id, CommitRevoke(r, i)
  PROVE  SessionsInv'
<1>1. /\ request[r].pc = "revoking" /\ request[r].id = {i}
      /\ session' = [session EXCEPT ![i].status = "revoked"]
      /\ order' = Without(i) /\ request' = [request EXCEPT ![r] = IdleRequest]
      /\ second' = second /\ extra' = extra
  BY DEF CommitRevoke
<1>2. /\ session \in [Id -> Session] /\ request \in [Request -> RequestRecord]
      /\ Lists(order, Active) /\ second \in 0..MaxSecond /\ extra \in Nat
      /\ Len(order) \in Nat
  BY TypeFacts DEF SessionsInv
<1>3. request[r].locks = {i} /\ i \in Active
  BY <1>1 DEF SessionsInv, LoadedOK, LocksOK, Active
<1>4. Lists(order', Active \ {i}) /\ Len(order') = Len(order) - 1
  BY <1>1, <1>2, <1>3, WithoutLists
<1>5. \A j \in Id : session'[j] \in Session /\ session'[j].hash = session[j].hash
                    /\ session'[j].status = IF j = i THEN "revoked" ELSE session[j].status
  BY <1>1, <1>2 DEF Session
<1>6. session' \in [Id -> Session]
  BY <1>1, <1>2, <1>5
<1>7. Active' = Active \ {i}
  BY <1>5 DEF Active
<1>8. /\ IdleRequest.pc = "idle" /\ IdleRequest.locks = {} /\ IdleRequest.id = {}
      /\ IdleRequest.victim = {}
  BY DEF IdleRequest, NewRequest
<1>9. \A o \in Request : request'[o] = IF o = r THEN IdleRequest ELSE request[o]
  BY <1>1, <1>2
<1>10. SessInv'
  BY <1>1, <1>2, <1>4, <1>6, <1>7, RecordTypes
    DEF SessInv, SessTypeOK, OrderIsActive, Lists, RequestRecord
<1>11. \A o \in Request : request[o].locks \subseteq Id /\ request[o].id \subseteq Id
  BY <1>2 DEF RequestRecord
<1>12. LocksOK'
  <2>1. \A o \in Request \ {r} : i \notin request[o].locks
    BY <1>3 DEF SessionsInv, LocksOK
  <2> QED
    BY <1>5, <1>8, <1>9, <1>11, <2>1 DEF SessionsInv, LocksOK, Writing
<1>13. LoadedOK' /\ VictimOK'
  BY <1>5, <1>8, <1>9, <1>11 DEF SessionsInv, LoadedOK, VictimOK
<1>14. HashesOK' /\ OneWinner'
  BY <1>5, <1>8, <1>9, <1>11 DEF SessionsInv, HashesOK, OneWinner
<1>15. PlacesOK' /\ SessionLimit'
  BY <1>1, <1>2, <1>4, <1>8, <1>9 DEF SessionsInv, PlacesOK, SessionLimit, Alone
<1> QED
  BY <1>10, <1>12, <1>13, <1>14, <1>15 DEF SessionsInv

\* A rotation commits: the session gets the hash of the new token.
LEMMA CommitRotateStep ==
  ASSUME SessionsInv, NEW r \in Request, NEW i \in Id, CommitRotate(r, i)
  PROVE  SessionsInv'
<1> DEFINE h == session[i].hash
           x == [request[r] EXCEPT !.pc = "refreshed", !.locks = {}]
<1>1. /\ request[r].pc = "rotating" /\ request[r].id = {i}
      /\ session' = [session EXCEPT ![i] = OpenSession(h.n + 1)]
      /\ order' = Append(Without(i), i)
      /\ request' = [request EXCEPT ![r].pc = "refreshed", ![r].locks = {}]
      /\ second' = second /\ extra' = extra
  BY DEF CommitRotate
<1>2. /\ session \in [Id -> Session] /\ request \in [Request -> RequestRecord]
      /\ Lists(order, Active) /\ second \in 0..MaxSecond /\ extra \in Nat
      /\ Len(order) \in Nat
  BY TypeFacts DEF SessionsInv
<1>3. /\ request[r].locks = {i} /\ i \in Active /\ request[r].victim = {}
      /\ h = request[r].seen /\ h.n < MaxRotation
  BY <1>1 DEF SessionsInv, LoadedOK, LocksOK, VictimOK, HashesOK, Active
<1>4. /\ x \in RequestRecord /\ x.pc = "refreshed" /\ x.locks = {} /\ x.id = {i}
      /\ x.victim = {} /\ x.seen = h
      /\ request' = [request EXCEPT ![r] = x]
  <2>1. request[r] \in RequestRecord
    BY <1>2
  <2>2. /\ x \in RequestRecord /\ x.pc = "refreshed" /\ x.locks = {}
        /\ x.id = request[r].id /\ x.victim = request[r].victim /\ x.seen = request[r].seen
    BY <2>1 DEF RequestRecord
  <2>3. request' = [request EXCEPT ![r] = x]
    BY <1>1, <1>2, <2>1 DEF RequestRecord
  <2> HIDE DEF x, h
  <2> QED
    BY <1>1, <1>3, <2>2, <2>3
<1> HIDE DEF x
<1>5. Lists(Without(i), Active \ {i}) /\ Len(Without(i)) = Len(order) - 1
  BY <1>2, <1>3, WithoutLists
<1>6. Lists(order', (Active \ {i}) \union {i}) /\ Len(order') = Len(order)
  BY <1>1, <1>2, <1>5, AppendLists
<1>7. h \in Hash /\ h.n \in 0..MaxRotation /\ h.n + 1 \in 0..MaxRotation
  BY <1>2, <1>3 DEF Session, Hash
<1>8. /\ OpenSession(h.n + 1) \in Session /\ OpenSession(h.n + 1).status = "active"
      /\ OpenSession(h.n + 1).hash.n = h.n + 1
  BY <1>2, <1>7 DEF OpenSession, Session, Hash
<1> HIDE DEF h
<1>9. /\ session' \in [Id -> Session] /\ session'[i] = OpenSession(h.n + 1)
      /\ \A j \in Id \ {i} : session'[j] = session[j]
  BY <1>1, <1>2, <1>8
<1>10. Active' = (Active \ {i}) \union {i}
  BY <1>8, <1>9 DEF Active
<1>11. \A o \in Request : request'[o] = IF o = r THEN x ELSE request[o]
  BY <1>2, <1>4
<1>12. SessInv'
  <2>1. OrderIsActive' /\ order' \in Seq(Id)
    BY <1>6, <1>10 DEF OrderIsActive, Lists
  <2>2. request' \in [Request -> RequestRecord]
    BY <1>2, <1>4
  <2> QED
    BY <1>1, <1>2, <1>9, <2>1, <2>2 DEF SessInv, SessTypeOK, RequestRecord
<1>13. \A o \in Request : request[o].locks \subseteq Id /\ request[o].id \subseteq Id
  BY <1>2 DEF RequestRecord
<1>14. \A o \in Request \ {r} : i \notin request[o].locks
  BY <1>3 DEF SessionsInv, LocksOK
<1>15. LocksOK' /\ LoadedOK' /\ VictimOK'
  BY <1>4, <1>8, <1>9, <1>11, <1>13, <1>14 DEF SessionsInv, LocksOK, LoadedOK, VictimOK, Writing
<1>16. ASSUME NEW o \in Request, o # r, NEW j \in request[o].id
       PROVE  /\ request[o].pc = "rotating" =>
                   session'[j].hash = request[o].seen /\ request[o].seen.n < MaxRotation
              /\ request[o].pc = "refreshed" => request[o].seen.n < session'[j].hash.n
  <2>1. CASE j # i
    BY <1>9, <1>13, <1>16, <2>1 DEF SessionsInv, HashesOK
  <2>2. CASE j = i
    <3>1. request[o].pc # "rotating"
      BY <1>14, <1>16, <2>2 DEF SessionsInv, LoadedOK
    <3>2. request[o].pc = "refreshed" => request[o].seen.n < h.n
      BY <1>16, <2>2 DEF SessionsInv, HashesOK, h
    <3>3. request[o].seen.n \in Int
      BY <1>2 DEF RequestRecord, Hash
    <3> QED
      BY <1>7, <1>8, <1>9, <2>2, <3>1, <3>2, <3>3
  <2> QED
    BY <2>1, <2>2
<1>17. HashesOK'
  <2>1. h.n < h.n + 1
    BY <1>7
  <2> QED
    BY <1>4, <1>8, <1>9, <1>11, <1>16, <2>1 DEF HashesOK
<1>18. OneWinner'
  <2>1. ASSUME NEW o \in Request, o # r, request[o].pc = "refreshed",
               request[o].id = {i}, request[o].seen = h
        PROVE  FALSE
    BY <1>7, <2>1 DEF SessionsInv, HashesOK, h
  <2> QED
    BY <1>4, <1>11, <2>1 DEF SessionsInv, OneWinner
<1>19. PlacesOK' /\ SessionLimit'
  BY <1>1, <1>4, <1>6, <1>11 DEF SessionsInv, PlacesOK, SessionLimit, Alone
<1> QED
  BY <1>12, <1>15, <1>17, <1>18, <1>19 DEF SessionsInv

\* Time passes for a session or for the clock.
LEMMA PassageStep ==
  ASSUME SessionsInv, Tick \/ \E i \in Id : Expire(i)
  PROVE  SessionsInv'
<1>1. /\ UNCHANGED <<order, request, extra>> /\ second' \in 0..MaxSecond
      /\ session' \in [Id -> Session]
      /\ \A j \in Id : /\ session'[j].status = session[j].status
                       /\ session'[j].hash = session[j].hash
  <2>1. session \in [Id -> Session] /\ second \in 0..MaxSecond
    BY TypeFacts DEF SessionsInv
  <2>2. CASE Tick
    BY <2>1, <2>2 DEF Tick
  <2>3. ASSUME NEW i \in Id, Expire(i)
        PROVE  /\ UNCHANGED <<order, second, request, extra>>
               /\ session' \in [Id -> Session]
               /\ \A j \in Id : /\ session'[j].status = session[j].status
                                /\ session'[j].hash = session[j].hash
    <3> DEFINE e == [session[i] EXCEPT !.expired = TRUE]
    <3>1. session[i] \in Session
      BY <2>1
    <3>2. e \in Session /\ e.status = session[i].status /\ e.hash = session[i].hash
      BY <3>1 DEF Session
    <3>3. session' = [session EXCEPT ![i] = e] /\ UNCHANGED <<order, second, request, extra>>
      BY <2>1, <2>3, <3>1 DEF Expire, Session
    <3> HIDE DEF e
    <3> QED
      BY <2>1, <3>2, <3>3
  <2> QED
    BY <2>1, <2>2, <2>3
<1>2. /\ request \in [Request -> RequestRecord]
      /\ \A o \in Request : request[o].locks \subseteq Id /\ request[o].id \subseteq Id
  BY TypeFacts DEF SessionsInv, RequestRecord
<1>3. Active' = Active
  BY <1>1 DEF Active
<1>4. SessInv'
  BY <1>1, <1>3 DEF SessionsInv, SessInv, SessTypeOK, OrderIsActive
<1>5. LocksOK' /\ LoadedOK' /\ VictimOK'
  BY <1>1, <1>2 DEF SessionsInv, LocksOK, LoadedOK, VictimOK
<1>6. HashesOK' /\ OneWinner'
  BY <1>1, <1>2 DEF SessionsInv, HashesOK, OneWinner
<1>7. PlacesOK' /\ SessionLimit'
  BY <1>1 DEF SessionsInv, PlacesOK, SessionLimit, Alone
<1> QED
  BY <1>4, <1>5, <1>6, <1>7 DEF SessionsInv

\* The steps both specifications have.
LEMMA SessionSteps ==
  ASSUME SessionsInv, NEW r \in Request,
         \/ FreePlace(r) \/ CommitLogin(r) \/ End(r)
         \/ \E i \in Id : \/ BeginRevoke(r, i) \/ CommitRevoke(r, i)
                          \/ BeginRotate(r, i) \/ CommitRotate(r, i) \/ TooLate(r, i)
  PROVE  SessionsInv'
<1>1. CASE End(r) \/ \E i \in Id : TooLate(r, i)
  BY <1>1, RequestEnds DEF End, TooLate
<1> QED
  BY <1>1, FreePlaceStep, CommitLoginStep, BeginStep, CommitRevokeStep, CommitRotateStep

\* Nothing but a login or a registration adds to those.
LEMMA SessionsUnchanged ==
  ASSUME SessionsInv, UNCHANGED sessVars
  PROVE  SessionsInv'
<1>1. SessInv' /\ LocksOK' /\ LoadedOK' /\ VictimOK'
  BY DEF sessVars, SessionsInv, SessInv, SessTypeOK, OrderIsActive, Active, LocksOK,
         LoadedOK, VictimOK
<1>2. HashesOK' /\ PlacesOK' /\ SessionLimit' /\ OneWinner'
  BY DEF sessVars, SessionsInv, HashesOK, PlacesOK, Alone, SessionLimit, OneWinner
<1> QED
  BY <1>1, <1>2 DEF SessionsInv

LEMMA SessionsStep == SessionsInv /\ [SessNext]_sessVars => SessionsInv'
<1> SUFFICES ASSUME SessionsInv, [SessNext]_sessVars PROVE SessionsInv'
  OBVIOUS
<1>1. ASSUME NEW r \in Request, StartLogin(r) PROVE SessionsInv'
  BY <1>1, LoginStarts DEF StartLogin
<1>2. ASSUME NEW r \in Request, NEW i \in Id, NEW op \in {"refresh", "logout"},
             Load(r, op, i)
      PROVE  SessionsInv'
  BY <1>2, LoadStep
<1> QED
  BY <1>1, <1>2, SessionSteps, PassageStep, SessionsUnchanged DEF SessNext, LoginNext, RefreshNext

\* The invariant of the sessions on their own.
THEOREM SessionsInvariant == SessSpec => []SessionsInv
<1> QED
  BY SessionsInitially, SessionsStep, PTL DEF SessSpec

-----------------------------------------------------------------------------
(* The sessions of an account.                                             *)

\* A step of an account is one of its sessions, or leaves them alone.
LEMMA AccountSessions ==
  ASSUME SessionsInv, [AcctNext]_vars
  PROVE  SessionsInv'
<1>1. ASSUME NEW r \in Request, Register(r) \/ Login(r) PROVE SessionsInv'
  BY <1>1, LoginStarts DEF Register, Login, StartLogin
<1>2. ASSUME NEW r \in Request, SessionStep(r) PROVE SessionsInv'
  BY <1>2, SessionSteps DEF SessionStep
<1>3. ASSUME NEW r \in Request, NEW i \in Id, NEW op \in {"refresh", "logout"},
             LoadSession(r, op, i)
      PROVE  SessionsInv'
  BY <1>3, LoadStep DEF LoadSession
<1>4. CASE Passage
  BY <1>4, PassageStep DEF Passage
<1>5. ASSUME NEW j \in Job, JobNext(j) PROVE UNCHANGED sessVars
  BY <1>5 DEF JobNext, CreateUser, Forgot, Invalidate, InsertLink, Consume, VerifyChange,
    SetPassword, AcceptTerms, Deactivate, ReadForUpdate, WriteUpdate, Fail
<1>6. ASSUME NEW l \in Link, LinkExpires(l) PROVE UNCHANGED sessVars
  BY <1>6 DEF LinkExpires
<1>7. CASE UNCHANGED vars
  BY <1>7, SessionsUnchanged DEF vars, sessVars
<1> QED
  BY <1>1, <1>2, <1>3, <1>4, <1>5, <1>6, <1>7, SessionsUnchanged DEF AcctNext

\* The sessions of an account keep the invariant.
THEOREM AccountSessionsInvariant == AcctSpec => []SessionsInv
<1>1. AcctInit => SessionsInv
  BY SessionsInitially DEF AcctInit
<1>2. SessionsInv /\ [AcctNext]_vars => SessionsInv'
  BY AccountSessions
<1> QED
  BY <1>1, <1>2, PTL DEF AcctSpec

\* Rows and requests keep their shape, and the order of use lists the active
\* sessions.
THEOREM SessionsTypeCorrect == AcctSpec => []SessInv
<1>1. SessionsInv => SessInv
  BY DEF SessionsInv
<1> QED
  BY <1>1, AccountSessionsInvariant, PTL

\* Of the refreshes that read the same hash at most one gets new tokens.
THEOREM RotationHasOneWinner == AcctSpec => []OneWinner
<1>1. SessionsInv => OneWinner
  BY DEF SessionsInv
<1> QED
  BY <1>1, AccountSessionsInvariant, PTL

\* Only logins that meet another transaction take the number of active
\* sessions over the limit, by one each.
THEOREM LimitHolds == AcctSpec => []SessionLimit
<1>1. SessionsInv => SessionLimit
  BY DEF SessionsInv
<1> QED
  BY <1>1, AccountSessionsInvariant, PTL

\* No step brings a revoked session back.
LEMMA RevokedStays ==
  ASSUME SessionsInv, [AcctNext]_vars, NEW i \in Id, session[i].status = "revoked"
  PROVE  session'[i].status = "revoked"
<1>1. session \in [Id -> Session]
  BY TypeFacts DEF SessionsInv
<1>2. ASSUME NEW r \in Request, CommitLogin(r) PROVE session'[i].status = "revoked"
  BY <1>1, <1>2 DEF CommitLogin, Session
<1>3. ASSUME NEW r \in Request, NEW j \in Id, CommitRevoke(r, j)
      PROVE  session'[i].status = "revoked"
  BY <1>1, <1>3 DEF CommitRevoke, Session
<1>4. ASSUME NEW r \in Request, NEW j \in Id, CommitRotate(r, j)
      PROVE  session'[i].status = "revoked"
  <2>1. j \in request[r].locks
    BY <1>4 DEF CommitRotate, SessionsInv, LoadedOK
  <2>2. i # j
    BY <2>1 DEF SessionsInv, LocksOK
  <2> QED
    BY <1>1, <1>4, <2>2 DEF CommitRotate
<1>5. ASSUME NEW j \in Id, Expire(j) PROVE session'[i].status = "revoked"
  BY <1>1, <1>5 DEF Expire, Session, IsValid
<1>6. CASE UNCHANGED session
  BY <1>6
<1>7. ASSUME NEW r \in Request, SessionStep(r) PROVE session'[i].status = "revoked"
  BY <1>2, <1>3, <1>4, <1>6, <1>7
    DEF SessionStep, FreePlace, End, BeginRevoke, BeginRotate, TooLate
<1>8. CASE Passage
  BY <1>5, <1>6, <1>8 DEF Passage, Tick
<1>9. ASSUME NEW r \in Request, Register(r) \/ Login(r)
      PROVE  UNCHANGED session
  BY <1>9 DEF Register, Login, StartLogin
<1>10. ASSUME NEW r \in Request, NEW j \in Id, NEW op \in {"refresh", "logout"},
              LoadSession(r, op, j)
       PROVE  UNCHANGED session
  BY <1>10 DEF LoadSession, Load
<1>11. ASSUME (\E j \in Job : JobNext(j)) \/ (\E l \in Link : LinkExpires(l)) \/ UNCHANGED vars
       PROVE  UNCHANGED session
  BY <1>11 DEF JobNext, CreateUser, Forgot, Invalidate, InsertLink, Consume, VerifyChange,
    SetPassword, AcceptTerms, Deactivate, ReadForUpdate, WriteUpdate, Fail, LinkExpires,
    vars, sessVars
<1> QED
  BY <1>6, <1>7, <1>8, <1>9, <1>10, <1>11 DEF AcctNext

\* A revoked session stays revoked.
THEOREM RevocationIsFinal == AcctSpec => RevokedIsFinal
<1>1. SessionsInv /\ [AcctNext]_vars =>
        [\A i \in Id : session[i].status = "revoked" => session'[i].status = "revoked"]_sessVars
  BY RevokedStays
<1> QED
  BY <1>1, AccountSessionsInvariant, PTL DEF AcctSpec, RevokedIsFinal

-----------------------------------------------------------------------------
(* Jobs and links.                                                         *)

LinkRecord == [purpose : Purpose, state : {"absent", "live", "used", "expired"}]

JobRecord ==
  [pc : {"idle", "invalidate", "insert", "set", "write"},
   op : {"none", "invite", "reset", "reset_password", "change_password", "update",
         "replace"},
   link : SUBSET Link, seen : Account]

\* The link a job used up is its own until it sets the password.
HeldLinks ==
  /\ \A j \in Job : job[j].pc # "set" => job[j].link = {}
  /\ \A j \in Job : \A l \in job[j].link : link[l].state = "used" /\ resets[l] = 0
  /\ \A j, k \in Job : j # k => job[j].link \intersect job[k].link = {}
  /\ \A l \in Link : resets[l] # 0 => link[l].state = "used"
  /\ \A j \in Job : job[j].pc \in {"invalidate", "insert"} => job[j].op \in Purpose

\* The jobs about to store a link of this purpose.
Storing(purpose) == {j \in Job : job[j].pc = "insert" /\ job[j].op = purpose}

LinksInv == AcctTypeOK /\ HeldLinks /\ LinkOnce /\ NewestLinks

LEMMA AccountTypes ==
  /\ NoAccount \in Account /\ IdleJob \in JobRecord
  /\ IdleJob.pc = "idle" /\ IdleJob.link = {}
  /\ \A p \in Password \union {NoPassword}, named \in BOOLEAN : NewAccount(p, named) \in Account
  BY DEF NoAccount, NewAccount, Account, IdleJob, JobRecord

LEMMA PatchedType ==
  ASSUME NEW a \in Account, NEW p \in Password \union {NoPassword},
         NEW named \in BOOLEAN, NEW oauth \in BOOLEAN, NEW activate \in BOOLEAN
  PROVE  Patched(a, p, named, oauth, activate) \in Account
  BY ZenonT(60) DEF Patched, Account

LEMMA ReplacedType ==
  ASSUME NEW p \in Password \union {NoPassword}, NEW named \in BOOLEAN, NEW oauth \in BOOLEAN
  PROVE  Replaced(NoAccount, p, named, oauth) \in Account
  BY AccountTypes DEF Replaced, Account

LEMMA LinkTypes ==
  ASSUME LinksInv
  PROVE  /\ account \in Account /\ link \in [Link -> LinkRecord]
         /\ job \in [Job -> JobRecord] /\ resets \in [Link -> Nat] /\ mix \in Mixes
  BY DEF LinksInv, AcctTypeOK, LinkRecord, JobRecord

\* There is no account, link or job.
LEMMA LinksInitially == AcctInit => LinksInv
<1> SUFFICES ASSUME AcctInit PROVE LinksInv
  OBVIOUS
<1>1. AcctTypeOK
  BY AccountTypes DEF AcctInit, AcctTypeOK, Purpose, JobRecord
<1>2. HeldLinks
  BY AccountTypes DEF AcctInit, HeldLinks
<1>3. LinkOnce
  BY DEF AcctInit, LinkOnce
<1>4. NewestLinks
  <2> SUFFICES ASSUME NEW purpose \in Purpose
               PROVE  Cardinality(LiveLinks(purpose)) + Cardinality(Storing(purpose))
                        <= Cardinality(Job)
    BY DEF NewestLinks, Storing
  <2>1. LiveLinks(purpose) = {} /\ Storing(purpose) = {}
    BY AccountTypes DEF AcctInit, LiveLinks, Storing
  <2> QED
    BY <2>1, FS_EmptySet, FS_CardinalityType, AccountsAssumption
<1> QED
  BY <1>1, <1>2, <1>3, <1>4 DEF LinksInv

\* Live links and the jobs about to store one are finitely many.
LEMMA FiniteLinks ==
  ASSUME NEW purpose
  PROVE  /\ IsFiniteSet(LiveLinks(purpose)) /\ IsFiniteSet(Storing(purpose))
         /\ Cardinality(LiveLinks(purpose)) \in Nat /\ Cardinality(Storing(purpose)) \in Nat
         /\ Cardinality(Storing(purpose)) <= Cardinality(Job) /\ Cardinality(Job) \in Nat
<1>1. LiveLinks(purpose) \subseteq Link /\ Storing(purpose) \subseteq Job
  BY DEF LiveLinks, Storing
<1> QED
  BY <1>1, AccountsAssumption, FS_Subset, FS_CardinalityType

\* NewestLinks holds as long as nothing is added.
LEMMA NothingAdded ==
  ASSUME LinksInv,
         \A purpose \in Purpose : /\ LiveLinks(purpose)' \subseteq LiveLinks(purpose)
                                 /\ Storing(purpose)' \subseteq Storing(purpose)
  PROVE  NewestLinks'
<1> SUFFICES ASSUME NEW purpose \in Purpose
             PROVE  Cardinality(LiveLinks(purpose)') + Cardinality(Storing(purpose)')
                      <= Cardinality(Job)
  BY DEF NewestLinks, Storing
<1>1. /\ Cardinality(LiveLinks(purpose)') <= Cardinality(LiveLinks(purpose))
      /\ Cardinality(LiveLinks(purpose)') \in Nat
      /\ Cardinality(Storing(purpose)') <= Cardinality(Storing(purpose))
      /\ Cardinality(Storing(purpose)') \in Nat
  BY FiniteLinks, FS_Subset, FS_CardinalityType
<1>2. Cardinality(LiveLinks(purpose)) + Cardinality(Storing(purpose)) <= Cardinality(Job)
  BY DEF LinksInv, NewestLinks, Storing
<1> QED
  BY <1>1, <1>2, FiniteLinks

\* A step of a job that leaves the links alone and stores none.
LEMMA JobMoves ==
  ASSUME LinksInv, NEW j \in Job, NEW x \in JobRecord,
         job' = [job EXCEPT ![j] = x],
         account' \in Account, UNCHANGED <<link, mix, resets>>,
         x.pc # "insert", x.link = {}, x.pc = "invalidate" => x.op \in Purpose
  PROVE  LinksInv'
<1>1. \A k \in Job : job'[k] = IF k = j THEN x ELSE job[k]
  BY LinkTypes
<1>2. AcctTypeOK'
  BY LinkTypes DEF AcctTypeOK, LinkRecord, JobRecord
<1>3. HeldLinks' /\ LinkOnce'
  BY <1>1 DEF LinksInv, HeldLinks, LinkOnce
<1>4. NewestLinks'
  BY <1>1, NothingAdded DEF LiveLinks, Storing
<1> QED
  BY <1>2, <1>3, <1>4 DEF LinksInv

\* The links of a purpose are taken out of use.
LEMMA InvalidateStep ==
  ASSUME LinksInv, NEW j \in Job, Invalidate(j)
  PROVE  LinksInv'
<1> DEFINE x == [job[j] EXCEPT !.pc = "insert"]
<1>1. /\ job[j].pc = "invalidate" /\ link' = AllUsed(job[j].op)
      /\ UNCHANGED <<account, resets, mix>>
  BY DEF Invalidate
<1>2. /\ x \in JobRecord /\ x.pc = "insert" /\ x.link = {} /\ x.op = job[j].op
      /\ job' = [job EXCEPT ![j] = x]
  <2>1. job[j] \in JobRecord /\ job[j].link = {}
    BY <1>1, LinkTypes DEF LinksInv, HeldLinks
  <2> QED
    BY <2>1, LinkTypes DEF JobRecord, Invalidate, Now
<1> HIDE DEF x
<1>3. \A k \in Job : job'[k] = IF k = j THEN x ELSE job[k]
  BY <1>2, LinkTypes
<1>4. /\ link' \in [Link -> LinkRecord]
      /\ \A l \in Link : link'[l].purpose = link[l].purpose
      /\ \A l \in Link : link[l].state = "used" => link'[l].state = "used"
      /\ \A l \in Link : link'[l].state = "live" =>
           link[l].state = "live" /\ link[l].purpose # job[j].op
  <2>1. link \in [Link -> LinkRecord]
    BY LinkTypes
  <2>2. link' = [l \in Link |-> IF link[l].state = "live" /\ link[l].purpose = job[j].op
                               THEN [link[l] EXCEPT !.state = "used"] ELSE link[l]]
    BY <1>1 DEF AllUsed, LiveLinks
  <2>3. \A l \in Link : /\ [link[l] EXCEPT !.state = "used"] \in LinkRecord
                       /\ [link[l] EXCEPT !.state = "used"].state = "used"
                       /\ [link[l] EXCEPT !.state = "used"].purpose = link[l].purpose
    BY <2>1 DEF LinkRecord
  <2> QED
    BY <2>1, <2>2, <2>3
<1>5. AcctTypeOK'
  <2>1. link' \in [Link -> LinkRecord]
    BY <1>4
  <2>2. job' \in [Job -> JobRecord]
    BY <1>2, LinkTypes
  <2> QED
    BY <1>1, <2>1, <2>2, LinkTypes DEF AcctTypeOK, LinkRecord, JobRecord
<1>6. HeldLinks' /\ LinkOnce'
  <2>1. \A k \in Job : job[k].link \subseteq Link
    BY LinkTypes DEF JobRecord
  <2> QED
    BY <1>1, <1>2, <1>3, <1>4, <2>1 DEF LinksInv, HeldLinks, LinkOnce
<1>7. ASSUME NEW purpose \in Purpose
      PROVE  Cardinality(LiveLinks(purpose)') + Cardinality(Storing(purpose)')
               <= Cardinality(Job)
  <2>1. CASE purpose = job[j].op
    <3>1. LiveLinks(purpose)' = {}
      BY <1>4, <2>1 DEF LiveLinks
    <3>2. /\ Storing(purpose)' \subseteq Job
      BY DEF Storing
    <3> QED
      BY <3>1, <3>2, FS_EmptySet, FS_Subset, FS_CardinalityType, AccountsAssumption
  <2>2. CASE purpose # job[j].op
    <3>1. /\ LiveLinks(purpose)' \subseteq LiveLinks(purpose)
          /\ Storing(purpose)' \subseteq Storing(purpose)
      BY <1>2, <1>3, <1>4, <2>2 DEF LiveLinks, Storing
    <3>2. Cardinality(LiveLinks(purpose)) + Cardinality(Storing(purpose)) <= Cardinality(Job)
      BY DEF LinksInv, NewestLinks, Storing
    <3> QED
      BY <3>1, <3>2, FiniteLinks, FS_Subset, FS_CardinalityType
  <2> QED
    BY <2>1, <2>2
<1> QED
  BY <1>5, <1>6, <1>7 DEF LinksInv, NewestLinks, Storing

\* A link is stored.
LEMMA InsertLinkStep ==
  ASSUME LinksInv, NEW j \in Job, InsertLink(j)
  PROVE  LinksInv'
<1> DEFINE y == [purpose |-> job[j].op, state |-> "live"]
<1>1. PICK l \in Link : link[l].state = "absent" /\ link' = [link EXCEPT ![l] = y]
  BY DEF InsertLink, UnusedLinks
<1>2. /\ job[j].pc = "insert" /\ job' = [job EXCEPT ![j] = IdleJob]
      /\ UNCHANGED <<account, resets, mix>>
  BY DEF InsertLink, Done
<1>3. job[j].op \in Purpose
  BY <1>2 DEF LinksInv, AcctTypeOK, HeldLinks
<1>4. y \in LinkRecord /\ y.state = "live" /\ y.purpose = job[j].op
  BY <1>3 DEF LinkRecord
<1> HIDE DEF y
<1>5. /\ link' \in [Link -> LinkRecord]
      /\ \A k \in Link : link'[k] = IF k = l THEN y ELSE link[k]
      /\ \A k \in Job : job'[k] = IF k = j THEN IdleJob ELSE job[k]
  BY <1>1, <1>2, <1>4, LinkTypes
<1>6. AcctTypeOK'
  BY <1>2, <1>5, LinkTypes, AccountTypes DEF AcctTypeOK, LinkRecord, JobRecord
<1>7. HeldLinks' /\ LinkOnce'
  <2>1. \A k \in Job : job[k].link \subseteq Link /\ l \notin job[k].link
    BY <1>1, LinkTypes DEF JobRecord, LinksInv, HeldLinks
  <2>2. resets[l] = 0
    BY <1>1 DEF LinksInv, HeldLinks
  <2> QED
    BY <1>2, <1>5, <2>1, <2>2, AccountTypes DEF LinksInv, HeldLinks, LinkOnce
<1>8. ASSUME NEW purpose \in Purpose
      PROVE  Cardinality(LiveLinks(purpose)') + Cardinality(Storing(purpose)')
               <= Cardinality(Job)
  <2>1. Cardinality(LiveLinks(purpose)) + Cardinality(Storing(purpose)) <= Cardinality(Job)
    BY DEF LinksInv, NewestLinks, Storing
  <2>2. CASE purpose = job[j].op
    <3>1. /\ LiveLinks(purpose)' = LiveLinks(purpose) \union {l}
          /\ Storing(purpose)' = Storing(purpose) \ {j} /\ j \in Storing(purpose)
      BY <1>2, <1>4, <1>5, <2>2, AccountTypes DEF LiveLinks, Storing
    <3>2. l \notin LiveLinks(purpose)
      BY <1>1 DEF LiveLinks
    <3>3. /\ Cardinality(LiveLinks(purpose) \union {l}) = Cardinality(LiveLinks(purpose)) + 1
          /\ Cardinality(Storing(purpose) \ {j}) = Cardinality(Storing(purpose)) - 1
      <4>1. IsFiniteSet(LiveLinks(purpose)) /\ IsFiniteSet(Storing(purpose))
        BY FiniteLinks
      <4>2. j \in Storing(purpose)
        BY <3>1
      <4> HIDE DEF LiveLinks, Storing
      <4> QED
        BY <3>2, <4>1, <4>2, FS_AddElement, FS_RemoveElement
    <3> QED
      BY <2>1, <3>1, <3>3, FiniteLinks
  <2>3. CASE purpose # job[j].op
    <3>1. /\ LiveLinks(purpose)' \subseteq LiveLinks(purpose)
          /\ Storing(purpose)' \subseteq Storing(purpose)
      BY <1>4, <1>5, <2>3, AccountTypes DEF LiveLinks, Storing
    <3> QED
      BY <2>1, <3>1, FiniteLinks, FS_Subset, FS_CardinalityType
  <2> QED
    BY <2>2, <2>3
<1> QED
  BY <1>6, <1>7, <1>8 DEF LinksInv, NewestLinks, Storing

\* Link l is used up or expires; x is the job after it.
LEMMA LinkGone ==
  ASSUME LinksInv, NEW l \in Link, NEW state \in {"used", "expired"},
         link[l].state = "live",
         link' = [link EXCEPT ![l].state = state],
         UNCHANGED <<account, resets, mix>>,
         \/ job' = job
         \/ /\ state = "used"
            /\ \E j \in Job, x \in JobRecord :
                 job' = [job EXCEPT ![j] = x] /\ x.pc = "set" /\ x.link = {l}
  PROVE  LinksInv'
<1> DEFINE y == [link[l] EXCEPT !.state = state]
<1>1. y \in LinkRecord /\ y.state = state /\ link' = [link EXCEPT ![l] = y]
  BY LinkTypes DEF LinkRecord
<1> HIDE DEF y
<1>2. /\ link' \in [Link -> LinkRecord]
      /\ \A k \in Link : link'[k] = IF k = l THEN y ELSE link[k]
  BY <1>1, LinkTypes
<1>3. l \in Link /\ resets[l] = 0 /\ \A k \in Job : l \notin job[k].link
  BY DEF LinksInv, HeldLinks
<1>4. /\ job' \in [Job -> JobRecord]
      /\ \A k \in Job : \/ job'[k] = job[k]
                        \/ state = "used" /\ job'[k].pc = "set" /\ job'[k].link = {l}
      /\ \A k, o \in Job : job'[k] # job[k] /\ job'[o] # job[o] => k = o
  BY LinkTypes
<1>5. AcctTypeOK'
  BY <1>2, <1>4, LinkTypes DEF AcctTypeOK, LinkRecord, JobRecord
<1>6. \A k \in Job : job[k].link \subseteq Link
  BY LinkTypes DEF JobRecord
<1>7. HeldLinks' /\ LinkOnce'
  <2>1. \A k \in Job : job'[k].pc # "set" => job'[k].link = {}
    BY <1>4 DEF LinksInv, HeldLinks
  <2>2. \A k \in Job : \A m \in job'[k].link : link'[m].state = "used" /\ resets[m] = 0
    BY <1>1, <1>2, <1>3, <1>4, <1>6 DEF LinksInv, HeldLinks
  <2>3. \A k, o \in Job : k # o => job'[k].link \intersect job'[o].link = {}
    BY <1>3, <1>4 DEF LinksInv, HeldLinks
  <2>4. \A m \in Link : resets[m] # 0 => link'[m].state = "used"
    BY <1>2, <1>3 DEF LinksInv, HeldLinks
  <2>5. \A k \in Job : job'[k].pc \in {"invalidate", "insert"} => job'[k].op \in Purpose
    BY <1>4 DEF LinksInv, HeldLinks
  <2> QED
    BY <2>1, <2>2, <2>3, <2>4, <2>5 DEF LinksInv, HeldLinks, LinkOnce
<1>8. NewestLinks'
  <2> SUFFICES ASSUME NEW purpose \in Purpose
               PROVE  /\ LiveLinks(purpose)' \subseteq LiveLinks(purpose)
                      /\ Storing(purpose)' \subseteq Storing(purpose)
    BY NothingAdded
  <2> QED
    BY <1>1, <1>2, <1>4 DEF LiveLinks, Storing
<1> QED
  BY <1>5, <1>7, <1>8 DEF LinksInv

\* The password is set, through the link the job holds, if any.
LEMMA SetPasswordStep ==
  ASSUME LinksInv, NEW j \in Job, SetPassword(j)
  PROVE  LinksInv'
<1>1. /\ job' = [job EXCEPT ![j] = IdleJob] /\ UNCHANGED <<link, mix>>
      /\ resets' = [l \in Link |-> IF l \in job[j].link THEN resets[l] + 1 ELSE resets[l]]
  BY DEF SetPassword, Done
<1>2. account' \in Account
  <2>1. PICK p \in Password : account' = [account EXCEPT !.password = p, !.mustChange = FALSE]
    BY DEF SetPassword
  <2> QED
    BY <2>1, LinkTypes DEF Account
<1>3. \A k \in Job : job'[k] = IF k = j THEN IdleJob ELSE job[k]
  BY <1>1, LinkTypes
<1>4. AcctTypeOK'
  BY <1>1, <1>2, LinkTypes, AccountTypes DEF AcctTypeOK, LinkRecord, JobRecord
<1>5. \A k \in Job : job[k].link \subseteq Link
  BY LinkTypes DEF JobRecord
<1>6. \A l \in Link : resets'[l] = IF l \in job[j].link THEN resets[l] + 1 ELSE resets[l]
  BY <1>1
<1>7. HeldLinks' /\ LinkOnce'
  BY <1>1, <1>3, <1>5, <1>6, LinkTypes, AccountTypes DEF LinksInv, HeldLinks, LinkOnce
<1>8. NewestLinks'
  BY <1>1, <1>3, NothingAdded, AccountTypes DEF LiveLinks, Storing
<1> QED
  BY <1>4, <1>7, <1>8 DEF LinksInv

\* The steps of a job.
LEMMA JobSteps ==
  ASSUME LinksInv, NEW j \in Job, JobNext(j)
  PROVE  LinksInv'
<1> USE AccountTypes
<1>1. job[j] \in JobRecord /\ (job[j].pc = "idle" => job[j].link = {})
  BY LinkTypes DEF LinksInv, HeldLinks
<1>2. ASSUME NEW x \in JobRecord, job' = [job EXCEPT ![j] = x], account' \in Account,
             UNCHANGED <<link, resets, mix>>, x.pc # "insert", x.link = {},
             x.pc = "invalidate" => x.op \in Purpose
      PROVE  LinksInv'
  BY <1>2, JobMoves
<1>3. ASSUME job' = [job EXCEPT ![j] = IdleJob], account' \in Account,
             UNCHANGED <<link, resets, mix>>
      PROVE  LinksInv'
  BY <1>2, <1>3
\* An idle job that takes up an operation.
<1>4. ASSUME NEW pc \in {"invalidate", "set"},
             NEW op \in {"invite", "reset", "change_password"},
             job[j].pc = "idle", job' = [job EXCEPT ![j].pc = pc, ![j].op = op],
             pc = "invalidate" => op \in Purpose, account' \in Account,
             UNCHANGED <<link, resets, mix>>
      PROVE  LinksInv'
  <2> DEFINE x == [job[j] EXCEPT !.pc = pc, !.op = op]
  <2>1. x \in JobRecord /\ x.pc = pc /\ x.op = op /\ x.link = {}
    BY <1>1, <1>4 DEF JobRecord
  <2>2. job' = [job EXCEPT ![j] = x]
    BY <1>1, <1>4, LinkTypes DEF JobRecord
  <2> HIDE DEF x
  <2> QED
    BY <1>2, <1>4, <2>1, <2>2
<1>5. CASE CreateUser(j)
  <2>1. ASSUME NEW p \in Password
        PROVE  [NewAccount(p, TRUE) EXCEPT !.mustChange = TRUE] \in Account
    BY ZenonT(60) DEF Account
  <2>2. [NewAccount(NoPassword, TRUE) EXCEPT !.oauth = TRUE] \in Account
    <3>1. NewAccount(NoPassword, TRUE) \in Account
      OBVIOUS
    <3>2. \A a \in Account : [a EXCEPT !.oauth = TRUE] \in Account
      BY DEF Account
    <3> QED
      BY <3>1, <3>2
  <2> QED
    BY <1>3, <1>4, <1>5, <2>1, <2>2 DEF CreateUser, Begin, Done, Purpose
<1>6. CASE Forgot(j)
  BY <1>4, <1>6, LinkTypes DEF Forgot, Begin, Purpose
<1>7. CASE Invalidate(j)
  BY <1>7, InvalidateStep
<1>8. CASE InsertLink(j)
  BY <1>8, InsertLinkStep
<1>9. ASSUME NEW l \in Link, Consume(j, l) PROVE LinksInv'
  <2> DEFINE x == [job[j] EXCEPT !.pc = "set", !.op = "reset_password", !.link = {l}]
  <2>1. x \in JobRecord /\ x.pc = "set" /\ x.link = {l} /\ job' = [job EXCEPT ![j] = x]
    BY <1>1, <1>9, LinkTypes DEF Consume, JobRecord
  <2> HIDE DEF x
  <2>2. /\ link[l].state = "live" /\ link' = [link EXCEPT ![l].state = "used"]
        /\ UNCHANGED <<account, resets, mix>>
    BY <1>9 DEF Consume, Consumable
  <2>3. \E k \in Job, y \in JobRecord :
          job' = [job EXCEPT ![k] = y] /\ y.pc = "set" /\ y.link = {l}
    BY <2>1
  <2>4. \A state \in {"used"} :
          link' = [link EXCEPT ![l].state = state] => LinksInv'
    BY <2>2, <2>3, LinkGone
  <2> QED
    BY <2>2, <2>4
<1>10. CASE VerifyChange(j)
  BY <1>4, <1>10, LinkTypes DEF VerifyChange, Begin
<1>11. CASE SetPassword(j)
  BY <1>11, SetPasswordStep
<1>12. CASE AcceptTerms(j) \/ Deactivate(j)
  <2>1. [account EXCEPT !.mustAccept = FALSE] \in Account
        /\ [account EXCEPT !.active = FALSE] \in Account
    BY LinkTypes DEF Account
  <2>2. job' = [job EXCEPT ![j] = job[j]] /\ job[j].pc = "idle"
    BY <1>12, LinkTypes DEF AcceptTerms, Deactivate, Begin
  <2> QED
    BY <1>1, <1>2, <1>12, <2>1, <2>2 DEF AcceptTerms, Deactivate
<1>13. ASSUME NEW op \in {"update", "replace"}, ReadForUpdate(j, op) PROVE LinksInv'
  <2> DEFINE x == [job[j] EXCEPT !.pc = "write", !.op = op, !.seen = account]
  <2>1. x \in JobRecord /\ x.pc = "write" /\ x.link = {}
    BY <1>1, <1>13, LinkTypes DEF ReadForUpdate, Begin, JobRecord
  <2>2. job' = [job EXCEPT ![j] = x]
    BY <1>1, <1>13, LinkTypes DEF ReadForUpdate, JobRecord
  <2> HIDE DEF x
  <2> QED
    BY <1>2, <1>13, <2>1, <2>2, LinkTypes DEF ReadForUpdate
<1>14. CASE WriteUpdate(j)
  BY <1>3, <1>14, LinkTypes, PatchedType, ReplacedType DEF WriteUpdate, Done, Replaced
<1>15. CASE Fail(j)
  BY <1>3, <1>15, LinkTypes DEF Fail, Done
<1> QED
  BY <1>5, <1>6, <1>7, <1>8, <1>9, <1>10, <1>11, <1>12, <1>13, <1>14, <1>15 DEF JobNext

\* Every step of an account keeps the invariant of its links.
LEMMA LinksStep == LinksInv /\ [AcctNext]_vars => LinksInv'
<1> SUFFICES ASSUME LinksInv, [AcctNext]_vars PROVE LinksInv'
  OBVIOUS
<1>1. ASSUME account' \in Account, UNCHANGED <<link, job, resets, mix>> PROVE LinksInv'
  <2>1. AcctTypeOK' /\ HeldLinks' /\ LinkOnce'
    BY <1>1 DEF LinksInv, AcctTypeOK, HeldLinks, LinkOnce
  <2>2. NewestLinks'
    BY <1>1 DEF LinksInv, NewestLinks, LiveLinks
  <2> QED
    BY <2>1, <2>2 DEF LinksInv
<1>2. ASSUME NEW r \in Request, Register(r) PROVE LinksInv'
  <2>1. PICK p \in Password, named \in mix.named : account' = NewAccount(p, named)
    BY <1>2 DEF Register
  <2>2. named \in BOOLEAN
    BY <2>1, LinkTypes, AccountsAssumption
  <2> QED
    BY <1>1, <1>2, <2>1, <2>2, AccountTypes DEF Register
<1>3. CASE UNCHANGED acctVars
  BY <1>1, <1>3, LinkTypes DEF acctVars
<1>4. ASSUME NEW j \in Job, JobNext(j) PROVE LinksInv'
  BY <1>4, JobSteps
<1>5. ASSUME NEW l \in Link, LinkExpires(l) PROVE LinksInv'
  BY <1>5, LinkGone DEF LinkExpires
<1> QED
  BY <1>2, <1>3, <1>4, <1>5
    DEF AcctNext, Login, SessionStep, LoadSession, Passage, vars, acctVars

\* The invariant of the jobs and links.
THEOREM LinksInvariant == AcctSpec => []LinksInv
<1> QED
  BY LinksInitially, LinksStep, PTL DEF AcctSpec

\* A link sets a password once.
THEOREM LinksWorkOnce == AcctSpec => []LinkOnce
<1>1. LinksInv => LinkOnce
  BY DEF LinksInv
<1> QED
  BY <1>1, LinksInvariant, PTL

\* There are never more live links of a purpose than jobs that overlap.
THEOREM NewLinksReplace == AcctSpec => []NewestLinks
<1>1. LinksInv => NewestLinks
  BY DEF LinksInv
<1> QED
  BY <1>1, LinksInvariant, PTL

-----------------------------------------------------------------------------
(* The directory.                                                          *)

RoleErrands == {"add_role", "swap_roles"}
GrantErrands == {"grant", "add_to_roles"}
SaleErrands == {"add_products", "remove_products", "add_companies", "remove_companies"}

RemovedRows == (User \X Role) \union (User \X Company) \union (Company \X Product)

AddedRows == RemovedRows \union (Role \X Permission) \union (User \X SupportLevel)

ErrandRecord ==
  [pc : {"idle", "checked"},
   op : RoleErrands \union GrantErrands \union SaleErrands
          \union {"none", "add_level", "add_users", "remove_users"},
   add : SUBSET AddedRows, remove : SUBSET RemovedRows]

\* The rows a request adds are rows of the table it writes.  The company that
\* users are added to is there: companies are never removed.
RowsFit(x) ==
  /\ x.op \in RoleErrands => x.add \subseteq User \X Role
  /\ x.op \in GrantErrands => x.add \subseteq Role \X Permission
  /\ x.op = "add_level" => x.add \subseteq User \X SupportLevel
  /\ x.op = "add_users" => x.add \subseteq User \X Known(company)
  /\ x.op \in SaleErrands => x.add \subseteq Company \X Product

ErrandsOK ==
  /\ errand \in [Errand -> ErrandRecord] /\ topic \in Topics
  /\ \A e \in Errand : RowsFit(errand[e])

CatalogStatus == {"absent", "live", "deleted"}

RowsTyped ==
  /\ roleName \in [Role -> RoleName \union {NoName}]
  /\ permission \subseteq Permission
  /\ userRoles \subseteq User \X Role
  /\ rolePermissions \subseteq Role \X Permission
  /\ userLevels \subseteq User \X SupportLevel
  /\ company \in [Company -> CatalogStatus] /\ product \in [Product -> CatalogStatus]
  /\ employer \in [User -> Company \union {NoCompany}]
  /\ companyProducts \subseteq Company \X Product

\* The inductive invariant of Directory.
DirInv == RowsTyped /\ ErrandsOK /\ NoDanglingRow

LEMMA Idle == NoErrand \in ErrandRecord /\ RowsFit(NoErrand)
  BY DEF NoErrand, ErrandRecord, RowsFit, RoleErrands, GrantErrands, SaleErrands

LEMMA FitsStill ==
  ASSUME NEW x, RowsFit(x), Known(company) \subseteq Known(company)'
  PROVE  RowsFit(x)'
  BY DEF RowsFit

\* A request that is answered, or a step of no request.
LEMMA ErrandsLast ==
  ASSUME ErrandsOK, topic' = topic, Known(company) \subseteq Known(company)',
         errand' = errand \/ \E e \in Errand : Finished(e)
  PROVE  ErrandsOK'
<1>1. errand' \in [Errand -> ErrandRecord]
  BY Idle DEF ErrandsOK, Finished
<1>2. ASSUME NEW e \in Errand PROVE errand'[e] = errand[e] \/ errand'[e] = NoErrand
  BY DEF ErrandsOK, Finished
<1>3. ASSUME NEW e \in Errand PROVE RowsFit(errand[e])'
  <2> PICK x : x = errand'[e]
    OBVIOUS
  <2>1. RowsFit(x)
    BY <1>2, Idle DEF ErrandsOK
  <2>2. RowsFit(x)'
    BY <2>1, FitsStill
  <2> QED
    BY <2>2
<1> QED
  BY <1>1, <1>3 DEF ErrandsOK

LEMMA RowsLast ==
  ASSUME UNCHANGED <<accessVars, catalogVars>>
  PROVE  /\ RowsTyped => RowsTyped'
         /\ NoDanglingRow => NoDanglingRow'
         /\ Known(company)' = Known(company)
<1> USE DEF accessVars, catalogVars
<1>1. RowsTyped => RowsTyped'
  BY DEF RowsTyped
<1>2. ExistingRoles' = ExistingRoles /\ Known(company)' = Known(company)
      /\ Known(product)' = Known(product)
  BY DEF ExistingRoles, Known
<1>3. NoDanglingRow => NoDanglingRow'
  BY <1>2 DEF NoDanglingRow
<1> QED
  BY <1>1, <1>2, <1>3

\* The checks of a request.
LEMMA AskedKeeps ==
  ASSUME DirInv, NEW e \in Errand, NEW op, NEW add, NEW remove, Checked(e, op, add, remove),
         UNCHANGED <<accessVars, catalogVars, topic>>,
         [pc |-> "checked", op |-> op, add |-> add, remove |-> remove] \in ErrandRecord,
         RowsFit([pc |-> "checked", op |-> op, add |-> add, remove |-> remove])
  PROVE  DirInv'
<1> PICK x : x = [pc |-> "checked", op |-> op, add |-> add, remove |-> remove]
  OBVIOUS
<1>1. errand' = [errand EXCEPT ![e] = x] /\ x \in ErrandRecord /\ RowsFit(x)
  BY DEF Checked
<1>2. RowsTyped' /\ NoDanglingRow' /\ Known(company)' = Known(company)
  BY RowsLast DEF DirInv
<1>3. errand' \in [Errand -> ErrandRecord] /\ topic' \in Topics
  BY <1>1 DEF DirInv, ErrandsOK
<1>4. ASSUME NEW d \in Errand PROVE RowsFit(errand[d])'
  <2> PICK y : y = errand'[d]
    OBVIOUS
  <2>1. RowsFit(y)
    BY <1>1 DEF DirInv, ErrandsOK
  <2>2. RowsFit(y)'
    BY <1>2, <2>1, FitsStill
  <2> QED
    BY <2>2
<1> QED
  BY <1>2, <1>3, <1>4 DEF DirInv, ErrandsOK

LEMMA CheckRoleKeeps ==
  ASSUME DirInv, NEW e \in Errand, CheckAddRole(e) \/ CheckSwapRoles(e) PROVE DirInv'
<1>1. PICK op \in RoleErrands, u \in User, r \in Role, remove \in SUBSET (User \X Role) :
        Checked(e, op, {<<u, r>>}, remove) /\ UNCHANGED <<accessVars, catalogVars, topic>>
  <2>1. CASE CheckAddRole(e)
    <3>1. PICK u \in User, r \in ExistingRoles : Checked(e, "add_role", {<<u, r>>}, {})
      BY <2>1 DEF CheckAddRole
    <3>2. {} \in SUBSET (User \X Role) /\ r \in Role /\ "add_role" \in RoleErrands
      BY DEF RoleErrands, ExistingRoles
    <3> QED
      BY <2>1, <3>1, <3>2 DEF CheckAddRole
  <2>2. CASE CheckSwapRoles(e)
    <3>1. PICK u \in User, r \in ExistingRoles, old \in Role :
            Checked(e, "swap_roles", {<<u, r>>}, {<<u, old>>})
      BY <2>2 DEF CheckSwapRoles
    <3>2. {<<u, old>>} \in SUBSET (User \X Role) /\ r \in Role /\ "swap_roles" \in RoleErrands
      BY DEF RoleErrands, ExistingRoles
    <3> QED
      BY <2>2, <3>1, <3>2 DEF CheckSwapRoles
  <2> QED
    BY <2>1, <2>2
<1> DEFINE x == [pc |-> "checked", op |-> op, add |-> {<<u, r>>}, remove |-> remove]
<1>2. x \in ErrandRecord
  BY DEF ErrandRecord, AddedRows, RemovedRows
<1>3. RowsFit(x)
  BY DEF RowsFit, RoleErrands, GrantErrands, SaleErrands
<1> QED
  BY <1>1, <1>2, <1>3, AskedKeeps

LEMMA CheckGrantKeeps ==
  ASSUME DirInv, NEW e \in Errand, CheckGrant(e) \/ CheckAddToRoles(e) PROVE DirInv'
<1>1. PICK op \in GrantErrands, add \in SUBSET (Role \X Permission) :
        Checked(e, op, add, {}) /\ UNCHANGED <<accessVars, catalogVars, topic>>
  <2>1. permission \subseteq Permission
    BY DEF DirInv, RowsTyped
  <2>2. CASE CheckGrant(e)
    BY <2>1, <2>2 DEF CheckGrant, GrantErrands, ExistingRoles
  <2>3. CASE CheckAddToRoles(e)
    BY <2>1, <2>3 DEF CheckAddToRoles, GrantErrands, ExistingRoles
  <2> QED
    BY <2>2, <2>3
<1> DEFINE x == [pc |-> "checked", op |-> op, add |-> add, remove |-> {}]
<1>2. x \in ErrandRecord
  BY DEF ErrandRecord, AddedRows
<1>3. RowsFit(x)
  BY DEF RowsFit, RoleErrands, GrantErrands, SaleErrands
<1> QED
  BY <1>1, <1>2, <1>3, AskedKeeps

LEMMA CheckLevelKeeps ==
  ASSUME DirInv, NEW e \in Errand, CheckAddLevel(e) PROVE DirInv'
<1>1. PICK u \in User, l \in SupportLevel : Checked(e, "add_level", {<<u, l>>}, {})
  BY DEF CheckAddLevel
<1> DEFINE x == [pc |-> "checked", op |-> "add_level", add |-> {<<u, l>>}, remove |-> {}]
<1>2. x \in ErrandRecord
  BY DEF ErrandRecord, AddedRows
<1>3. RowsFit(x)
  BY DEF RowsFit, RoleErrands, GrantErrands, SaleErrands
<1> QED
  BY <1>1, <1>2, <1>3, AskedKeeps DEF CheckAddLevel

LEMMA CheckUsersKeeps ==
  ASSUME DirInv, NEW e \in Errand, NEW op \in {"add_users", "remove_users"}, CheckUsers(e, op)
  PROVE  DirInv'
<1>1. PICK add \in SUBSET (User \X Known(company)), remove \in SUBSET (User \X Company) :
        Checked(e, op, add, remove)
  <2>1. PICK c \in Live(company), us \in SUBSET User \ {{}} :
          Checked(e, op, IF op = "add_users" THEN us \X {c} ELSE {},
                         IF op = "remove_users" THEN us \X {c} ELSE {})
    BY DEF CheckUsers
  <2>2. c \in Known(company) /\ c \in Company
    BY DEF Live, Known, DirInv, RowsTyped
  <2>3. us \X {c} \in SUBSET (User \X Known(company)) /\ us \X {c} \in SUBSET (User \X Company)
    BY <2>2
  <2>4. \A S : {} \in SUBSET S
    OBVIOUS
  <2> QED
    BY <2>1, <2>3, <2>4
<1> DEFINE x == [pc |-> "checked", op |-> op, add |-> add, remove |-> remove]
<1>2. x \in ErrandRecord
  <2>1. Known(company) \subseteq Company
    BY DEF Known, DirInv, RowsTyped
  <2>2. add \in SUBSET AddedRows /\ remove \in SUBSET RemovedRows
    BY <2>1 DEF AddedRows, RemovedRows
  <2> QED
    BY <2>2 DEF ErrandRecord
<1>3. RowsFit(x)
  BY DEF RowsFit, RoleErrands, GrantErrands, SaleErrands
<1> QED
  BY <1>1, <1>2, <1>3, AskedKeeps DEF CheckUsers

LEMMA CheckSalesKeeps ==
  ASSUME DirInv, NEW e \in Errand, NEW op \in SaleErrands,
         CheckProducts(e, op) \/ CheckCompanies(e, op)
  PROVE  DirInv'
<1>1. Live(company) \subseteq Company /\ Live(product) \subseteq Product
  BY DEF Live, DirInv, RowsTyped
<1>2. PICK add \in SUBSET (Company \X Product), remove \in SUBSET (Company \X Product) :
        Checked(e, op, add, remove) /\ UNCHANGED <<accessVars, catalogVars, topic>>
  <2>1. CASE CheckProducts(e, op)
    <3>1. PICK c \in Live(company), ps \in SUBSET Product \ {{}} :
            Checked(e, op, IF op = "add_products" THEN {c} \X ps ELSE {},
                           IF op = "remove_products" THEN {c} \X ps ELSE {})
      BY <2>1 DEF CheckProducts
    <3>2. {c} \X ps \in SUBSET (Company \X Product) /\ {} \in SUBSET (Company \X Product)
      BY <1>1
    <3> QED
      BY <2>1, <3>1, <3>2 DEF CheckProducts
  <2>2. CASE CheckCompanies(e, op)
    <3>1. PICK p \in Live(product), cs \in SUBSET Company \ {{}} :
            Checked(e, op, IF op = "add_companies" THEN cs \X {p} ELSE {},
                           IF op = "remove_companies" THEN cs \X {p} ELSE {})
      BY <2>2 DEF CheckCompanies
    <3>2. cs \X {p} \in SUBSET (Company \X Product) /\ {} \in SUBSET (Company \X Product)
      BY <1>1
    <3> QED
      BY <2>2, <3>1, <3>2 DEF CheckCompanies
  <2> QED
    BY <2>1, <2>2
<1> DEFINE x == [pc |-> "checked", op |-> op, add |-> add, remove |-> remove]
<1>3. x \in ErrandRecord
  <2>1. add \in SUBSET AddedRows /\ remove \in SUBSET RemovedRows
    BY DEF AddedRows, RemovedRows
  <2> QED
    BY <2>1 DEF ErrandRecord
<1>4. RowsFit(x)
  BY DEF RowsFit, RoleErrands, GrantErrands, SaleErrands
<1> QED
  BY <1>2, <1>3, <1>4, AskedKeeps

\* The transactions of the requests.
LEMMA WriteRolesKeeps ==
  ASSUME DirInv, NEW e \in Errand, WriteRoles(e) PROVE DirInv'
<1>1. errand[e].add \subseteq User \X Role
  BY DEF WriteRoles, Ready, DirInv, ErrandsOK, RowsFit, RoleErrands
<1>2. /\ UNCHANGED <<roleName, permission, rolePermissions, userLevels, company, product,
                     employer, companyProducts, topic>>
      /\ ExistingRoles' = ExistingRoles /\ Known(company)' = Known(company)
      /\ Known(product)' = Known(product)
  BY DEF WriteRoles, catalogVars, ExistingRoles, Known
<1>3. /\ userRoles' \subseteq userRoles \union errand[e].add
      /\ \A row \in userRoles' : row \in userRoles \/ row[2] \in ExistingRoles
  BY DEF WriteRoles, Rewritten
<1>4. RowsTyped'
  BY <1>1, <1>2, <1>3 DEF DirInv, RowsTyped
<1>5. NoDanglingRow'
  BY <1>2, <1>3 DEF DirInv, NoDanglingRow
<1>6. ErrandsOK'
  BY <1>2, ErrandsLast DEF DirInv, WriteRoles
<1> QED
  BY <1>4, <1>5, <1>6 DEF DirInv

LEMMA WriteGrantsKeeps ==
  ASSUME DirInv, NEW e \in Errand, WriteGrants(e) PROVE DirInv'
<1>1. errand[e].add \subseteq Role \X Permission
  BY DEF WriteGrants, Ready, DirInv, ErrandsOK, RowsFit, GrantErrands
<1>2. /\ UNCHANGED <<roleName, permission, userRoles, userLevels, company, product,
                     employer, companyProducts, topic>>
      /\ ExistingRoles' = ExistingRoles /\ Known(company)' = Known(company)
      /\ Known(product)' = Known(product)
  BY DEF WriteGrants, catalogVars, ExistingRoles, Known
<1>3. /\ rolePermissions' \subseteq rolePermissions \union errand[e].add
      /\ \A row \in rolePermissions' :
           row \in rolePermissions \/ (row[1] \in ExistingRoles /\ row[2] \in permission)
  BY DEF WriteGrants, Rewritten
<1>4. RowsTyped'
  BY <1>1, <1>2, <1>3 DEF DirInv, RowsTyped
<1>5. NoDanglingRow'
  BY <1>2, <1>3 DEF DirInv, NoDanglingRow
<1>6. ErrandsOK'
  BY <1>2, ErrandsLast DEF DirInv, WriteGrants
<1> QED
  BY <1>4, <1>5, <1>6 DEF DirInv

LEMMA WriteLevelKeeps ==
  ASSUME DirInv, NEW e \in Errand, WriteLevel(e) PROVE DirInv'
<1>1. errand[e].add \subseteq User \X SupportLevel
  BY DEF WriteLevel, Ready, DirInv, ErrandsOK, RowsFit
<1>2. UNCHANGED <<roleName, permission, userRoles, rolePermissions, company, product,
                  employer, companyProducts, topic>>
  BY DEF WriteLevel, catalogVars
<1>3. RowsTyped'
  BY <1>1, <1>2 DEF DirInv, RowsTyped, WriteLevel
<1>4. NoDanglingRow' /\ Known(company)' = Known(company)
  BY <1>2 DEF DirInv, NoDanglingRow, ExistingRoles, Known
<1>5. ErrandsOK'
  BY <1>2, <1>4, ErrandsLast DEF DirInv, WriteLevel
<1> QED
  BY <1>3, <1>4, <1>5 DEF DirInv

LEMMA EmployerKeeps ==
  ASSUME DirInv, NEW e \in Errand, AssociateUsers(e) \/ DisassociateUsers(e) PROVE DirInv'
<1>1. UNCHANGED <<roleName, permission, userRoles, rolePermissions, userLevels, company,
                  product, companyProducts, topic>>
  BY DEF AssociateUsers, DisassociateUsers, accessVars
<1>2. /\ Known(company) \subseteq Company /\ Known(company)' = Known(company)
      /\ Known(product)' = Known(product) /\ ExistingRoles' = ExistingRoles
  BY <1>1 DEF Known, ExistingRoles, DirInv, RowsTyped
<1>3. /\ employer' = [u \in User |-> employer'[u]]
      /\ \A u \in User : employer'[u] \in Known(company) \union {NoCompany}
  <2>1. \A u \in User : employer[u] \in Known(company) \union {NoCompany}
    BY DEF DirInv, NoDanglingRow
  <2>2. CASE AssociateUsers(e)
    <3>1. errand[e].add \subseteq User \X Known(company)
      BY <2>2 DEF AssociateUsers, Ready, DirInv, ErrandsOK, RowsFit
    <3>2. \A row \in errand[e].add : row[2] \in Known(company)
      BY <3>1
    <3>3. \A u \in User :
            employer'[u] = IF \E row \in errand[e].add : row[1] = u
                           THEN (CHOOSE row \in errand[e].add : row[1] = u)[2] ELSE employer[u]
      BY <2>2 DEF AssociateUsers
    <3>4. employer' = [u \in User |-> employer'[u]]
      BY <2>2 DEF AssociateUsers
    <3> QED
      BY <2>1, <3>2, <3>3, <3>4
  <2>3. CASE DisassociateUsers(e)
    BY <2>1, <2>3 DEF DisassociateUsers
  <2> QED
    BY <2>2, <2>3
<1>4. RowsTyped'
  BY <1>1, <1>2, <1>3 DEF DirInv, RowsTyped
<1>5. NoDanglingRow'
  BY <1>1, <1>2, <1>3 DEF DirInv, NoDanglingRow
<1>6. ErrandsOK'
  BY <1>1, <1>2, ErrandsLast DEF DirInv, AssociateUsers, DisassociateUsers
<1> QED
  BY <1>4, <1>5, <1>6 DEF DirInv

LEMMA ReplaceUserKeeps ==
  ASSUME DirInv, NEW u \in User, NEW c \in Known(company) \union {NoCompany},
         ReplaceUser(u, c)
  PROVE  DirInv'
<1>1. UNCHANGED <<roleName, permission, userRoles, rolePermissions, userLevels, company,
                  product, companyProducts, errand, topic>>
  BY DEF ReplaceUser, accessVars
<1>2. /\ Known(company)' = Known(company) /\ Known(product)' = Known(product)
      /\ ExistingRoles' = ExistingRoles
  BY <1>1 DEF Known, ExistingRoles
<1>3. employer \in [User -> Company \union {NoCompany}] /\ c \in Company \union {NoCompany}
  BY DEF DirInv, RowsTyped, Known
<1>4. employer' = [employer EXCEPT ![u] = c]
  BY DEF ReplaceUser
<1>5. RowsTyped'
  BY <1>1, <1>3, <1>4 DEF DirInv, RowsTyped
<1>6. NoDanglingRow'
  BY <1>1, <1>2, <1>3, <1>4 DEF DirInv, NoDanglingRow
<1>7. ErrandsOK'
  BY <1>1, <1>2, ErrandsLast DEF DirInv
<1> QED
  BY <1>5, <1>6, <1>7 DEF DirInv

LEMMA WriteSalesKeeps ==
  ASSUME DirInv, NEW e \in Errand, WriteSales(e) PROVE DirInv'
<1>1. UNCHANGED <<roleName, permission, userRoles, rolePermissions, userLevels, company,
                  product, employer, topic>>
  BY DEF WriteSales, accessVars
<1>2. /\ Known(company)' = Known(company) /\ Known(product)' = Known(product)
      /\ ExistingRoles' = ExistingRoles
  BY <1>1 DEF Known, ExistingRoles
<1>3. errand[e].op \in SaleErrands
  BY DEF WriteSales, Ready, SaleErrands
<1>4. errand[e].add \subseteq Company \X Product
  BY <1>3 DEF DirInv, ErrandsOK, RowsFit
<1>5. /\ companyProducts' \subseteq companyProducts \union errand[e].add
      /\ \A row \in companyProducts' :
           row \in companyProducts \/ (row[1] \in Known(company) /\ row[2] \in Known(product))
  BY DEF WriteSales, Rewritten
<1>6. RowsTyped'
  BY <1>1, <1>4, <1>5 DEF DirInv, RowsTyped
<1>7. NoDanglingRow'
  BY <1>1, <1>2, <1>5 DEF DirInv, NoDanglingRow
<1>8. ErrandsOK'
  BY <1>1, <1>2, ErrandsLast DEF DirInv, WriteSales
<1> QED
  BY <1>6, <1>7, <1>8 DEF DirInv

LEMMA AbandonKeeps ==
  ASSUME DirInv, NEW e \in Errand, Abandon(e) PROVE DirInv'
<1>1. RowsTyped' /\ NoDanglingRow' /\ Known(company)' = Known(company)
  BY RowsLast DEF DirInv, Abandon
<1> QED
  BY <1>1, ErrandsLast DEF DirInv, Abandon

\* A step gives the role r the name n; only one that nothing names gets none.
Renames(r, n) ==
  /\ roleName' = [roleName EXCEPT ![r] = n]
  /\ n = NoName => /\ \A row \in userRoles : row[2] # r
                   /\ \A row \in rolePermissions : row[1] # r

\* Steps of no request.
LEMMA RoleKeeps ==
  ASSUME DirInv, CreateRole \/ RenameRole \/ DeleteRole PROVE DirInv'
<1>1. /\ UNCHANGED <<permission, userRoles, rolePermissions, userLevels, company, product,
                     employer, companyProducts, errand, topic>>
      /\ Known(company)' = Known(company) /\ Known(product)' = Known(product)
  BY DEF CreateRole, RenameRole, DeleteRole, catalogVars, Known
<1>2. /\ topic \in Topics /\ topic.names \subseteq RoleName
      /\ roleName \in [Role -> RoleName \union {NoName}]
  BY DirectoryAssumption DEF DirInv, ErrandsOK, RowsTyped
<1>3. PICK r \in Role, n \in RoleName \union {NoName} : Renames(r, n)
  <2>1. CASE CreateRole
    <3>1. PICK r \in Role, n \in topic.names : roleName' = [roleName EXCEPT ![r] = n]
      BY <2>1 DEF CreateRole
    <3>2. n \in RoleName /\ n # NoName
      BY <1>2, DirectoryAssumption
    <3>3. Renames(r, n)
      BY <3>1, <3>2 DEF Renames
    <3> QED
      BY <3>2, <3>3
  <2>2. CASE RenameRole
    <3>1. PICK r \in ExistingRoles, n \in topic.names : roleName' = [roleName EXCEPT ![r] = n]
      BY <2>2 DEF RenameRole
    <3>2. r \in Role /\ n \in RoleName /\ n # NoName
      BY <1>2, DirectoryAssumption DEF ExistingRoles
    <3>3. Renames(r, n)
      BY <3>1, <3>2 DEF Renames
    <3> QED
      BY <3>2, <3>3
  <2>3. CASE DeleteRole
    <3>1. PICK r \in ExistingRoles : Renames(r, NoName)
      BY <2>3 DEF DeleteRole, Renames
    <3> QED
      BY <3>1 DEF ExistingRoles
  <2> QED
    BY <2>1, <2>2, <2>3
<1>4. roleName' \in [Role -> RoleName \union {NoName}]
  BY <1>2, <1>3 DEF Renames
<1>5. \A q \in ExistingRoles : q \in ExistingRoles' \/ (q = r /\ n = NoName)
  BY <1>2, <1>3 DEF ExistingRoles, Renames
<1>6. RowsTyped'
  BY <1>1, <1>4 DEF DirInv, RowsTyped
<1>7. NoDanglingRow'
  BY <1>1, <1>3, <1>5 DEF DirInv, NoDanglingRow, Renames
<1>8. ErrandsOK'
  BY <1>1, ErrandsLast DEF DirInv
<1> QED
  BY <1>6, <1>7, <1>8 DEF DirInv

LEMMA TakenAwayKeeps ==
  ASSUME DirInv, RemoveRole \/ CreatePermission \/ DeletePermission \/ DeleteLevel PROVE DirInv'
<1>1. /\ UNCHANGED <<roleName, rolePermissions, company, product,
                     employer, companyProducts, errand, topic>>
      /\ Known(company)' = Known(company) /\ Known(product)' = Known(product)
      /\ ExistingRoles' = ExistingRoles
  BY DEF RemoveRole, CreatePermission, DeletePermission, DeleteLevel, catalogVars, Known,
         ExistingRoles
<1>2. /\ userRoles' \subseteq userRoles /\ userLevels' \subseteq userLevels
      /\ permission' \subseteq Permission
      /\ \A row \in rolePermissions : row[2] \in permission => row[2] \in permission'
  BY DEF RemoveRole, CreatePermission, DeletePermission, DeleteLevel, DirInv, RowsTyped
<1>3. RowsTyped'
  BY <1>1, <1>2 DEF DirInv, RowsTyped
<1>4. NoDanglingRow'
  BY <1>1, <1>2 DEF DirInv, NoDanglingRow
<1>5. ErrandsOK'
  BY <1>1, ErrandsLast DEF DirInv
<1> QED
  BY <1>3, <1>4, <1>5 DEF DirInv

LEMMA CatalogKeeps ==
  ASSUME DirInv, CreateCompany \/ SoftDeleteCompany \/ CreateProduct \/ SoftDeleteProduct
  PROVE  DirInv'
<1>1. UNCHANGED <<roleName, permission, userRoles, rolePermissions, userLevels,
                  employer, companyProducts, errand, topic>>
  BY DEF CreateCompany, SoftDeleteCompany, CreateProduct, SoftDeleteProduct, accessVars
<1>2. company \in [Company -> CatalogStatus] /\ product \in [Product -> CatalogStatus]
  BY DEF DirInv, RowsTyped
<1>3. /\ company' \in [Company -> CatalogStatus] /\ product' \in [Product -> CatalogStatus]
      /\ Known(company) \subseteq Known(company)' /\ Known(product) \subseteq Known(product)'
  <2>1. CASE CreateCompany
    BY <1>2, <2>1 DEF CreateCompany, CatalogStatus, Known
  <2>2. CASE SoftDeleteCompany
    BY <1>2, <2>2 DEF SoftDeleteCompany, CatalogStatus, Known, Live
  <2>3. CASE CreateProduct
    BY <1>2, <2>3 DEF CreateProduct, CatalogStatus, Known
  <2>4. CASE SoftDeleteProduct
    BY <1>2, <2>4 DEF SoftDeleteProduct, CatalogStatus, Known, Live
  <2> QED
    BY <2>1, <2>2, <2>3, <2>4
<1>4. RowsTyped'
  BY <1>1, <1>3 DEF DirInv, RowsTyped
<1>5. NoDanglingRow'
  BY <1>1, <1>3 DEF DirInv, NoDanglingRow, ExistingRoles
<1>6. ErrandsOK'
  BY <1>1, <1>3, ErrandsLast DEF DirInv
<1> QED
  BY <1>4, <1>5, <1>6 DEF DirInv

\* What the seed adds names only what is there.
LEMMA SeedNames ==
  ASSUME NEW names \in [Role -> RoleName \union {NoName}]
  PROVE  /\ SeedRoles(names) \in [Role -> RoleName \union {NoName}]
         /\ \A r \in Role : names[r] # NoName => SeedRoles(names)[r] # NoName
  BY DirectoryAssumption DEF SeedRoles

LEMMA SeedRows ==
  ASSUME NEW names \in [Role -> RoleName \union {NoName}]
  PROVE  /\ SeedGrants(names) \subseteq Role \X Permission
         /\ \A row \in SeedGrants(names) : names[row[1]] # NoName
         /\ SeedStaff(names) \subseteq User \X Role
         /\ \A row \in SeedStaff(names) : names[row[2]] # NoName
  BY DirectoryAssumption DEF SeedGrants, SeedStaff, Named

LEMMA SeedShelves ==
  ASSUME NEW T, NEW rows \in [T -> CatalogStatus]
  PROVE  /\ SeedCatalog(rows) \in [T -> CatalogStatus]
         /\ Known(rows) \subseteq Known(SeedCatalog(rows))
         /\ T \intersect Stocked \subseteq Known(SeedCatalog(rows))
  BY DEF SeedCatalog, Known, CatalogStatus

LEMMA SoldFits == Sold \subseteq (Company \intersect Stocked) \X (Product \intersect Stocked)
  BY DirectoryAssumption

LEMMA RestartKeeps ==
  ASSUME DirInv, Restart PROVE DirInv'
<1>1. RowsTyped /\ NoDanglingRow /\ UNCHANGED <<userLevels, employer, topic>>
  BY DEF DirInv, Restart
<1>2. /\ roleName' \in [Role -> RoleName \union {NoName}]
      /\ ExistingRoles \subseteq ExistingRoles'
  BY <1>1, SeedNames DEF Restart, RowsTyped, ExistingRoles
<1>3. permission' = permission \union Permission
  BY DEF Restart, SeedPermissions
<1>4. /\ company' \in [Company -> CatalogStatus] /\ product' \in [Product -> CatalogStatus]
      /\ Known(company) \subseteq Known(company)' /\ Known(product) \subseteq Known(product)'
      /\ Company \intersect Stocked \subseteq Known(company)'
      /\ Product \intersect Stocked \subseteq Known(product)'
  BY <1>1, SeedShelves DEF Restart, RowsTyped
<1>5. /\ rolePermissions' \subseteq Role \X Permission /\ userRoles' \subseteq User \X Role
      /\ \A row \in rolePermissions' : row \in rolePermissions \/ roleName'[row[1]] # NoName
      /\ \A row \in userRoles' : row \in userRoles \/ roleName'[row[2]] # NoName
  BY <1>1, <1>2, SeedRows DEF Restart, RowsTyped
<1>6. companyProducts' = companyProducts \union Sold /\ companyProducts' \subseteq Company \X Product
  BY <1>1, SoldFits DEF Restart, RowsTyped
<1>7. RowsTyped'
  BY <1>1, <1>2, <1>3, <1>4, <1>5, <1>6 DEF RowsTyped
<1>8. NoDanglingRow'
  <2>1. \A row \in userRoles' : row[2] \in ExistingRoles'
    BY <1>1, <1>2, <1>5 DEF NoDanglingRow, ExistingRoles
  <2>2. \A row \in rolePermissions' : row[1] \in ExistingRoles' /\ row[2] \in permission'
    BY <1>1, <1>2, <1>3, <1>5 DEF NoDanglingRow, ExistingRoles
  <2>3. \A row \in companyProducts' : row[1] \in Known(company)' /\ row[2] \in Known(product)'
    BY <1>1, <1>4, <1>6, SoldFits DEF NoDanglingRow
  <2>4. \A u \in User : employer'[u] \in Known(company)' \union {NoCompany}
    BY <1>1, <1>4 DEF NoDanglingRow
  <2> QED
    BY <2>1, <2>2, <2>3, <2>4 DEF NoDanglingRow
<1>9. ErrandsOK'
  <2>1. errand' = [e \in Errand |-> NoErrand] /\ topic' \in Topics
    BY <1>1 DEF Restart, DirInv, ErrandsOK
  <2>2. RowsFit(NoErrand)'
    BY <1>4, Idle, FitsStill
  <2> QED
    BY <2>1, <2>2, Idle DEF ErrandsOK
<1> QED
  BY <1>7, <1>8, <1>9 DEF DirInv

LEMMA DirectoryStart == DirInit => DirInv
<1> SUFFICES ASSUME DirInit PROVE DirInv
  OBVIOUS
<1>1. [r \in Role |-> NoName] \in [Role -> RoleName \union {NoName}]
  OBVIOUS
<1>2. roleName \in [Role -> RoleName \union {NoName}]
  BY <1>1, SeedNames DEF DirInit
<1>3. /\ rolePermissions \subseteq Role \X Permission /\ userRoles \subseteq User \X Role
      /\ \A row \in rolePermissions : roleName[row[1]] # NoName
      /\ \A row \in userRoles : roleName[row[2]] # NoName
  BY <1>2, SeedRows DEF DirInit
<1>4. permission = Permission /\ userLevels = {} /\ companyProducts = Sold /\ employer = Hired
  BY DEF DirInit, SeedPermissions
<1>5. /\ company \in [Company -> CatalogStatus] /\ product \in [Product -> CatalogStatus]
      /\ Company \intersect Stocked \subseteq Known(company)
      /\ Product \intersect Stocked \subseteq Known(product)
  <2>1. [c \in Company |-> "absent"] \in [Company -> CatalogStatus]
    BY DEF CatalogStatus
  <2>2. [p \in Product |-> "absent"] \in [Product -> CatalogStatus]
    BY DEF CatalogStatus
  <2> QED
    BY <2>1, <2>2, SeedShelves DEF DirInit
<1>6. /\ employer \in [User -> Company \union {NoCompany}]
      /\ \A u \in User : employer[u] \in Known(company) \union {NoCompany}
  <2>1. employer \in [User -> (Company \intersect Stocked) \union {NoCompany}]
    BY <1>4, DirectoryAssumption
  <2> QED
    BY <1>5, <2>1
<1>7. RowsTyped
  BY <1>2, <1>3, <1>4, <1>5, <1>6, SoldFits DEF RowsTyped
<1>8. NoDanglingRow
  BY <1>3, <1>4, <1>5, <1>6, SoldFits DEF NoDanglingRow, ExistingRoles
<1>9. ErrandsOK
  BY Idle DEF DirInit, ErrandsOK
<1> QED
  BY <1>7, <1>8, <1>9 DEF DirInv

LEMMA DirectoryStep == DirInv /\ [DirNext]_dirVars => DirInv'
<1> SUFFICES ASSUME DirInv, [DirNext]_dirVars PROVE DirInv'
  OBVIOUS
<1>1. ASSUME NEW e \in Errand, ErrandNext(e) PROVE DirInv'
  <2>1. CASE \E op \in {"add_products", "remove_products"} : CheckProducts(e, op)
    BY <2>1, CheckSalesKeeps DEF SaleErrands
  <2>2. CASE \E op \in {"add_companies", "remove_companies"} : CheckCompanies(e, op)
    BY <2>2, CheckSalesKeeps DEF SaleErrands
  <2>3. CASE CheckAddRole(e) \/ CheckSwapRoles(e) \/ WriteRoles(e)
    BY <2>3, CheckRoleKeeps, WriteRolesKeeps
  <2>4. CASE CheckGrant(e) \/ CheckAddToRoles(e) \/ WriteGrants(e)
    BY <2>4, CheckGrantKeeps, WriteGrantsKeeps
  <2>5. CASE CheckAddLevel(e) \/ WriteLevel(e)
    BY <2>5, CheckLevelKeeps, WriteLevelKeeps
  <2>6. CASE \E op \in {"add_users", "remove_users"} : CheckUsers(e, op)
    BY <2>6, CheckUsersKeeps
  <2>7. CASE AssociateUsers(e) \/ DisassociateUsers(e) \/ WriteSales(e) \/ Abandon(e)
    BY <2>7, EmployerKeeps, WriteSalesKeeps, AbandonKeeps
  <2> QED
    BY <1>1, <2>1, <2>2, <2>3, <2>4, <2>5, <2>6, <2>7 DEF ErrandNext
<1>2. CASE RemoveRole \/ CreatePermission \/ DeletePermission \/ DeleteLevel
  BY <1>2, TakenAwayKeeps
<1>3. CASE CreateRole \/ RenameRole \/ DeleteRole
  BY <1>3, RoleKeeps
<1>4. CASE CreateCompany \/ SoftDeleteCompany \/ CreateProduct \/ SoftDeleteProduct
  BY <1>4, CatalogKeeps
<1>5. CASE Restart
  BY <1>5, RestartKeeps
<1>6. CASE UNCHANGED dirVars
  <2>1. UNCHANGED <<accessVars, catalogVars>> /\ errand' = errand /\ topic' = topic
    BY <1>6 DEF dirVars
  <2>2. RowsTyped' /\ NoDanglingRow' /\ Known(company)' = Known(company)
    BY <2>1, RowsLast DEF DirInv
  <2> QED
    BY <2>1, <2>2, ErrandsLast DEF DirInv
<1>7. CASE \E u \in User, c \in Known(company) \union {NoCompany} : ReplaceUser(u, c)
  BY <1>7, ReplaceUserKeeps
<1> QED
  BY <1>1, <1>2, <1>3, <1>4, <1>5, <1>6, <1>7 DEF DirNext

\* The inductive invariant of the directory.
THEOREM DirectoryInvariant == DirSpec => []DirInv
  BY DirectoryStart, DirectoryStep, PTL DEF DirSpec

\* What a role, a permission, a company or a product is named by is there,
\* although the checks of a request may be out of date when it writes.
THEOREM NothingDangles == DirSpec => []NoDanglingRow
<1>1. DirInv => NoDanglingRow
  BY DEF DirInv
<1> QED
  BY <1>1, DirectoryInvariant, PTL

LEMMA RolesChangeWhole ==
  ASSUME ErrandsOK, [DirNext]_dirVars, NEW e \in Errand,
         Ready(e, {"swap_roles"}), errand'[e].pc = "idle", userRoles \ userRoles' # {}
  PROVE  errand[e].add \subseteq userRoles'
<1>1. errand \in [Errand -> ErrandRecord] /\ errand[e].pc # "idle"
  BY DEF ErrandsOK, Ready
<1>2. ASSUME NEW d \in Errand, WriteRoles(d) PROVE errand[e].add \subseteq userRoles'
  <2>1. d = e
    BY <1>1, <1>2 DEF WriteRoles, Finished
  <2> QED
    BY <1>2, <2>1 DEF WriteRoles, Rewritten
<1>3. ASSUME userRoles \subseteq userRoles' PROVE FALSE
  BY <1>3
<1>4. ASSUME errand' = errand PROVE FALSE
  BY <1>1, <1>4
<1>5. ASSUME NEW d \in Errand, ErrandNext(d) PROVE WriteRoles(d) \/ userRoles \subseteq userRoles'
  BY <1>5 DEF ErrandNext, CheckAddRole, CheckSwapRoles, CheckGrant, CheckAddToRoles, WriteGrants,
    CheckAddLevel, WriteLevel, CheckUsers, AssociateUsers, DisassociateUsers, CheckProducts,
    CheckCompanies, WriteSales, Abandon, accessVars
<1>6. CASE \E d \in Errand : ErrandNext(d)
  BY <1>2, <1>3, <1>5, <1>6
<1>7. CASE RemoveRole \/ CreateRole \/ RenameRole \/ DeleteRole \/ CreatePermission
             \/ DeletePermission \/ DeleteLevel \/ UNCHANGED dirVars
  BY <1>4, <1>7 DEF RemoveRole, CreateRole, RenameRole, DeleteRole, CreatePermission,
    DeletePermission, DeleteLevel, dirVars
<1>8. CASE CreateCompany \/ SoftDeleteCompany \/ CreateProduct \/ SoftDeleteProduct
  BY <1>4, <1>8 DEF CreateCompany, SoftDeleteCompany, CreateProduct, SoftDeleteProduct
<1>9. CASE Restart
  BY <1>3, <1>9 DEF Restart
<1>10. CASE \E u \in User, c \in Known(company) \union {NoCompany} : ReplaceUser(u, c)
  BY <1>4, <1>10 DEF ReplaceUser
<1> QED
  BY <1>6, <1>7, <1>8, <1>9, <1>10 DEF DirNext

\* A change of roles is whole: delete and insert are one transaction, and the
\* foreign key takes both back (PATCH /users/{id}/roles).
THEOREM RolesChangedWhole == DirSpec => WholeRoleChange
<1>1. DirInv /\ [DirNext]_dirVars =>
        [\A e \in Errand :
           Ready(e, {"swap_roles"}) /\ errand'[e].pc = "idle" /\ userRoles \ userRoles' # {} =>
             errand[e].add \subseteq userRoles']_dirVars
  BY RolesChangeWhole DEF DirInv
<1> QED
  BY <1>1, DirectoryInvariant, PTL DEF DirSpec, WholeRoleChange

LEMMA MemberLeaves ==
  ASSUME DirInv, [DirNext]_dirVars, NEW u \in User,
         employer[u] # NoCompany, employer'[u] = NoCompany
  PROVE  \/ ReplaceUser(u, NoCompany)
         \/ \E e \in Errand :
              Ready(e, {"remove_users"}) /\ <<u, employer[u]>> \in errand[e].remove
<1>1. ASSUME NEW e \in Errand, AssociateUsers(e) PROVE FALSE
  <2>1. errand[e].add \subseteq User \X Known(company) /\ Known(company) \subseteq Company
    BY <1>1 DEF AssociateUsers, Ready, DirInv, ErrandsOK, RowsFit, RowsTyped, Known
  <2>2. \A row \in errand[e].add : row[2] # NoCompany
    BY <2>1, DirectoryAssumption
  <2>3. employer'[u] = IF \E row \in errand[e].add : row[1] = u
                       THEN (CHOOSE row \in errand[e].add : row[1] = u)[2] ELSE employer[u]
    BY <1>1 DEF AssociateUsers
  <2> QED
    BY <2>2, <2>3
<1>2. ASSUME NEW e \in Errand, DisassociateUsers(e)
      PROVE  Ready(e, {"remove_users"}) /\ <<u, employer[u]>> \in errand[e].remove
  BY <1>2 DEF DisassociateUsers, NamesTheMember
<1>3. ASSUME UNCHANGED employer PROVE FALSE
  BY <1>3
<1>4. ASSUME NEW e \in Errand, ErrandNext(e)
      PROVE  AssociateUsers(e) \/ DisassociateUsers(e) \/ UNCHANGED employer
  BY <1>4 DEF ErrandNext, CheckAddRole, CheckSwapRoles, WriteRoles, CheckGrant, CheckAddToRoles,
    WriteGrants, CheckAddLevel, WriteLevel, CheckUsers, CheckProducts, CheckCompanies, WriteSales,
    Abandon, catalogVars
<1>5. CASE \E e \in Errand : ErrandNext(e)
  BY <1>1, <1>2, <1>3, <1>4, <1>5
<1>6. ASSUME NEW v \in User, NEW c \in Known(company) \union {NoCompany}, ReplaceUser(v, c)
      PROVE  ReplaceUser(u, NoCompany)
  <2>1. employer \in [User -> Company \union {NoCompany}]
        /\ employer' = [employer EXCEPT ![v] = c]
    BY <1>6 DEF DirInv, RowsTyped, ReplaceUser
  <2>2. v = u /\ c = NoCompany
    BY <2>1
  <2> QED
    BY <1>6, <2>2
<1>7. ASSUME ~\E e \in Errand : ErrandNext(e),
             ~\E v \in User, c \in Known(company) \union {NoCompany} : ReplaceUser(v, c)
      PROVE  UNCHANGED employer
  BY <1>7 DEF DirNext, RemoveRole, CreateRole, RenameRole, DeleteRole, CreatePermission,
    DeletePermission, DeleteLevel, CreateCompany, SoftDeleteCompany, CreateProduct,
    SoftDeleteProduct, Restart, dirVars, catalogVars
<1> QED
  BY <1>3, <1>5, <1>6, <1>7

\* A user is left without a company only by a removal that names the company he
\* is in, or by a PUT of that user (associate_users, disassociate_users, update).
THEOREM MembersStay == DirSpec => MembersKept
<1>1. DirInv /\ [DirNext]_dirVars =>
        [\A u \in User :
           employer[u] # NoCompany /\ employer'[u] = NoCompany =>
             \/ ReplaceUser(u, NoCompany)
             \/ \E e \in Errand :
                  Ready(e, {"remove_users"}) /\ <<u, employer[u]>> \in errand[e].remove]_dirVars
  BY MemberLeaves
<1> QED
  BY <1>1, DirectoryInvariant, PTL DEF DirSpec, MembersKept

LEMMA StaffBack ==
  ASSUME Restart, NEW n \in RoleName, NEW u \in Staff[n], Named(roleName', n) # {},
         NEW p \in Granted[n]
  PROVE  Holds(u, p)'
<1> PICK r \in Named(roleName', n) : TRUE
  OBVIOUS
<1>1. r \in Role
  BY DEF Named
<1>2. <<u, r>> \in SeedStaff(roleName') /\ <<r, p>> \in SeedGrants(roleName')
  BY DEF SeedStaff, SeedGrants
<1>3. <<u, r>> \in userRoles' /\ <<r, p>> \in rolePermissions'
  BY <1>2 DEF Restart
<1> QED
  BY <1>1, <1>3 DEF Holds

\* After a restart whoever the seed gives a role has what it gives the role,
\* whatever row has the role's name by then (app/seed).
THEOREM RestartRecovers == DirSpec => StaffRecovers
<1>1. [DirNext]_dirVars =>
        [Restart =>
           \A n \in RoleName : \A u \in Staff[n] :
             Named(roleName', n) # {} => \A p \in Granted[n] : Holds(u, p)']_dirVars
  BY StaffBack
<1> QED
  BY <1>1, PTL DEF DirSpec, StaffRecovers

=============================================================================
