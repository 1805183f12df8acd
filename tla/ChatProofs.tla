----------------------------- MODULE ChatProofs -----------------------------
(***************************************************************************)
(* Proofs about ChatRooms: however many connections join, send, break and  *)
(* go while broadcasts walk the live list of a room, a broadcast drops no  *)
(* live client, reaches nobody twice and passes over at most one client    *)
(* for each removal; and the table keeps a room only for somebody who is   *)
(* in it or will still leave it, unless a join or a close raised.          *)
(*                                                                         *)
(* And about ChatHistory: whoever pages back to the beginning of a history *)
(* that loses nothing has seen all that was there when he began, and what  *)
(* the list of active conversations and the search offer, the other routes *)
(* accept.                                                                 *)
(***************************************************************************)
EXTENDS ChatRooms, ChatHistory, FiniteSetTheorems, TLAPS

USE ChatRoomsAssumption

\* The coroutines that have joined and not begun to leave.
Staying == {"confirming", "open", "storing", "walking"}

Entered == {c \in Conn : conn[c].pc \notin {"outside", "accepted"}}

Up == {c \in Conn : conn[c].up}

Names(list) == {list[p] : p \in DOMAIN list}

Distinct(list) == \A p, q \in DOMAIN list : list[p] = list[q] => p = q

\* A list names a connection once, and only one that has joined; the rooms
\* that are not made yet have none.
ListsOK ==
  /\ \A m \in Room : Distinct(members[m]) /\ Names(members[m]) \subseteq Entered
  /\ \A m \in Room : m > made => members[m] = <<>>
  /\ current <= made

\* Sends fail on connections that are broken.
DeadAreDown == \A m \in Room : dead[m] \intersect Up = {}

\* A connected client is in the room it joined until its coroutine leaves.
StaysOK ==
  \A c \in Conn :
    c \in Up /\ conn[c].pc \in Staying => c \in Names(members[conn[c].room])

\* The clients that the walk w over list passed over: they are owed the
\* message, can get it, and the iterator is behind them.
Skipped(w, list, up) ==
  {o \in w.owed : /\ o \in up /\ o \notin w.reached
                  /\ \A p \in DOMAIN list : list[p] = o => p < w.next}

\* What a walk w over list has done so far.
WalkOK(w, list, up, entered) ==
  /\ w.owed \subseteq Names(list)
  /\ w.reached \subseteq entered
  /\ \A p \in DOMAIN list : p >= w.next => list[p] \notin w.reached
  /\ Cardinality(Skipped(w, list, up)) <= w.removals

WalksOK ==
  \A c \in Conn :
    conn[c].pc = "walking" => WalkOK(walk[c], members[walk[c].at], Up, Entered)

\* While no join and no close has raised, whoever is in the list of the room
\* of the table is still there, and somebody will look whether it is empty.
Leaver(c) == conn[c].pc \in Staying \/ (conn[c].pc = "closing" /\ conn[c].room = current)

TableOK ==
  current # 0 /\ failed = {} =>
    /\ \A c \in Names(members[current]) : conn[c].pc \in Staying
    /\ \E c \in Conn : Leaver(c)

\* The inductive invariant.
RoomInv ==
  /\ TypeOK
  /\ ListsOK
  /\ DeadAreDown
  /\ StaysOK
  /\ WalksOK
  /\ TableOK

-----------------------------------------------------------------------------
(* Ranks.                                                                  *)

\* R orders S.
Orders(R, S) ==
  /\ \A x \in S : <<x, x>> \notin R
  /\ \A x, y, z \in S : <<x, y>> \in R /\ <<y, z>> \in R => <<x, z>> \in R
  /\ \A x, y \in S : x = y \/ <<x, y>> \in R \/ <<y, x>> \in R

Rank(S, R, x) == Cardinality({y \in S : <<y, x>> \in R})

\* The members of S have the ranks 0, 1, ... without a gap.
Numbered(S, R) == {Rank(S, R, x) : x \in S} = 0..(Cardinality(S) - 1)

\* The members of a finite set in order are numbered by their ranks.
LEMMA Ranks ==
  ASSUME NEW S, IsFiniteSet(S), NEW R, Orders(R, S)
  PROVE  /\ Cardinality(S) \in Nat
         /\ Numbered(S, R)
         /\ \A x, y \in S : Rank(S, R, x) = Rank(S, R, y) => x = y
<1>1. Cardinality(S) \in Nat
  BY FS_CardinalityType
<1>2. ASSUME NEW x \in S, NEW T \in SUBSET S, {y \in S : <<y, x>> \in R} \union {x} \subseteq T
      PROVE  Rank(S, R, x) \in Nat /\ Rank(S, R, x) + 1 <= Cardinality(T)
  <2> DEFINE L == {y \in S : <<y, x>> \in R}
  <2>1. L \in SUBSET S /\ x \notin L
    BY DEF Orders
  <2>2. IsFiniteSet(L) /\ Cardinality(L) \in Nat
    BY <2>1, FS_Subset, FS_CardinalityType
  <2>3. IsFiniteSet(L \union {x}) /\ Cardinality(L \union {x}) = Cardinality(L) + 1
    BY <2>1, <2>2, FS_AddElement
  <2>4. IsFiniteSet(T) /\ Cardinality(T) \in Nat /\ Cardinality(L \union {x}) <= Cardinality(T)
    BY <1>2, <2>3, FS_Subset, FS_CardinalityType
  <2> QED
    BY <2>2, <2>3, <2>4 DEF Rank
<1>3. \A x \in S : Rank(S, R, x) \in 0..(Cardinality(S) - 1)
  <2> SUFFICES ASSUME NEW x \in S PROVE Rank(S, R, x) \in 0..(Cardinality(S) - 1)
    OBVIOUS
  <2>1. Rank(S, R, x) \in Nat /\ Rank(S, R, x) + 1 <= Cardinality(S)
    BY <1>2
  <2> QED
    BY <1>1, <2>1
<1>4. ASSUME NEW x \in S, NEW y \in S, <<x, y>> \in R
      PROVE  Rank(S, R, x) < Rank(S, R, y)
  <2>1. {z \in S : <<z, y>> \in R} \in SUBSET S
    OBVIOUS
  <2>2. {z \in S : <<z, x>> \in R} \union {x} \subseteq {z \in S : <<z, y>> \in R}
    BY <1>4 DEF Orders
  <2>3. Rank(S, R, x) + 1 <= Rank(S, R, y)
    BY <1>2, <2>1, <2>2 DEF Rank
  <2> QED
    BY <1>1, <1>3, <2>3
<1>5. \A x, y \in S : Rank(S, R, x) = Rank(S, R, y) => x = y
  <2> SUFFICES ASSUME NEW x \in S, NEW y \in S, Rank(S, R, x) = Rank(S, R, y), x # y
               PROVE  FALSE
    OBVIOUS
  <2>1. Rank(S, R, x) < Rank(S, R, y) \/ Rank(S, R, y) < Rank(S, R, x)
    BY <1>4 DEF Orders
  <2>2. Rank(S, R, x) \in Int
    BY <1>1, <1>3
  <2> QED
    BY <2>1, <2>2
<1>6. {Rank(S, R, x) : x \in S} = 0..(Cardinality(S) - 1)
  <2> DEFINE T == 0..(Cardinality(S) - 1)
             f == [x \in S |-> Rank(S, R, x)]
  <2>1. f \in [S -> T]
    BY <1>3
  <2>2. \A x, y \in S : f[x] = f[y] => x = y
    BY <1>5
  <2>3. IsFiniteSet(T) /\ Cardinality(T) = Cardinality(S)
    BY <1>1, FS_Interval
  <2> HIDE DEF f, T
  <2>4. f \in Injection(S, T)
    BY <2>1, <2>2 DEF Injection, IsInjective
  <2>5. f \in Surjection(S, T)
    BY <2>3, <2>4, FS_Injection
  <2>6. \A t \in T : \E x \in S : f[x] = t
    BY <2>5 DEF Surjection
  <2> QED
    BY <1>3, <2>6 DEF f, T
<1> QED
  BY <1>1, <1>5, <1>6 DEF Numbered

-----------------------------------------------------------------------------
(* What is left of a list.                                                 *)

\* The positions of a list that stay, and how many of them are before p.
Kept(list, gone) == {p \in DOMAIN list : list[p] \notin gone}

Lost(list, gone) == {p \in DOMAIN list : list[p] \in gone}

Before(kept, p) == Cardinality({q \in kept : q < p})

\* The number of positions before one is its rank among them.
LEMMA Positions ==
  ASSUME NEW len \in Nat, NEW kept \in SUBSET (1..len)
  PROVE  /\ Cardinality(kept) \in Nat
         /\ \A p \in kept : Before(kept, p) \in 0..(Cardinality(kept) - 1)
         /\ \A p, q \in kept : Before(kept, p) = Before(kept, q) => p = q
         /\ \A n \in 1..Cardinality(kept) : \E p \in kept : Before(kept, p) = n - 1
<1>1. IsFiniteSet(kept)
  <2>1. IsFiniteSet(1..len)
    BY FS_Interval
  <2> QED
    BY <2>1, FS_Subset
<1>2. PICK R : \A p, q \in kept : <<p, q>> \in R <=> p < q
  <2>1. \A p, q \in kept : <<p, q>> \in {pq \in kept \X kept : pq[1] < pq[2]} <=> p < q
    OBVIOUS
  <2> QED
    BY <2>1
<1>3. \A p \in kept : p \in Int
  OBVIOUS
<1>4. \A p \in kept : Before(kept, p) = Rank(kept, R, p)
  <2> SUFFICES ASSUME NEW p \in kept PROVE Before(kept, p) = Rank(kept, R, p)
    OBVIOUS
  <2>1. {q \in kept : q < p} = {q \in kept : <<q, p>> \in R}
    BY <1>2
  <2> QED
    BY <2>1 DEF Before, Rank
<1>5. Orders(R, kept)
  BY <1>2, <1>3 DEF Orders
<1>6. Cardinality(kept) \in Nat
  BY <1>1, FS_CardinalityType
<1>7. {Rank(kept, R, p) : p \in kept} = 0..(Cardinality(kept) - 1)
  <2>1. Numbered(kept, R)
    BY <1>1, <1>5, Ranks
  <2> QED
    BY <2>1 DEF Numbered
<1>8. \A p, q \in kept : Rank(kept, R, p) = Rank(kept, R, q) => p = q
  BY <1>1, <1>5, Ranks
<1>9. {Before(kept, p) : p \in kept} = 0..(Cardinality(kept) - 1)
  BY <1>4, <1>7
<1>10. ASSUME NEW n \in 1..Cardinality(kept) PROVE \E p \in kept : Before(kept, p) = n - 1
  <2>1. n - 1 \in 0..(Cardinality(kept) - 1)
    BY <1>6
  <2> QED
    BY <1>9, <2>1
<1> QED
  BY <1>4, <1>6, <1>8, <1>9, <1>10

\* A position is behind those before it that stay and those that are lost.
LEMMA RankBounds ==
  ASSUME NEW len \in Nat, NEW kept, NEW lost, NEW p \in kept,
         kept \union lost = 1..len, kept \intersect lost = {}
  PROVE  Before(kept, p) + 1 <= p /\ p <= Before(kept, p) + 1 + Cardinality(lost)
<1> DEFINE L == {q \in kept : q < p}
           G == {q \in lost : q < p}
<1>1. p \in 1..len /\ p \in Int /\ p - 1 \in Int
  OBVIOUS
<1>2. \A q : q \in 1..(p - 1) <=> q \in 1..len /\ q < p
  BY <1>1
<1>3. L \union G = 1..(p - 1) /\ L \intersect G = {}
  BY <1>2
<1>4. IsFiniteSet(1..(p - 1)) /\ Cardinality(1..(p - 1)) = p - 1
  <2>1. 1 \in Int /\ (1 > p - 1 => p - 1 = 0)
    BY <1>1
  <2>2. /\ IsFiniteSet(1..(p - 1))
        /\ Cardinality(1..(p - 1)) = IF 1 > p - 1 THEN 0 ELSE (p - 1) - 1 + 1
    BY <1>1, <2>1, FS_Interval
  <2> QED
    BY <1>1, <2>1, <2>2
<1>5. IsFiniteSet(lost) /\ Cardinality(lost) \in Nat
  <2>1. IsFiniteSet(1..len) /\ lost \in SUBSET (1..len)
    BY FS_Interval
  <2> QED
    BY <2>1, FS_Subset, FS_CardinalityType
<1>6. L \in SUBSET (1..(p - 1)) /\ G \in SUBSET (1..(p - 1)) /\ G \in SUBSET lost
  BY <1>3
<1> HIDE DEF L, G
<1>7. IsFiniteSet(L) /\ IsFiniteSet(G) /\ Cardinality(L) \in Nat /\ Cardinality(G) \in Nat
  BY <1>4, <1>6, FS_Subset, FS_CardinalityType
<1>8. Cardinality(G) <= Cardinality(lost)
  BY <1>5, <1>6, FS_Subset
<1>9. Cardinality(L \union G) = Cardinality(L) + Cardinality(G) - Cardinality(L \intersect G)
  BY <1>7, FS_Union
<1>10. Cardinality(L \intersect G) = 0
  BY <1>3, FS_EmptySet
<1>11. p - 1 = Cardinality(L) + Cardinality(G)
  <2>1. Cardinality(L \union G) = p - 1
    BY <1>3, <1>4
  <2> QED
    BY <1>7, <1>9, <1>10, <2>1
<1>12. Before(kept, p) = Cardinality(L)
  BY DEF Before, L
<1> QED
  BY <1>1, <1>5, <1>7, <1>8, <1>11, <1>12

\* h says where each connection that is left was.
Shifts(h, list, gone) ==
  /\ h \in [DOMAIN Without(list, gone) -> Kept(list, gone)]
  /\ \A n \in DOMAIN h :
       /\ Without(list, gone)[n] = list[h[n]]
       /\ n <= h[n] /\ h[n] <= n + Cardinality(Lost(list, gone))
  /\ \A n, k \in DOMAIN h : h[n] = h[k] => n = k
  /\ \A p \in Kept(list, gone) : \E n \in DOMAIN h : h[n] = p

\* It was there before, behind at most the ones removed.
LEMMA WithoutKeeps ==
  ASSUME NEW S, NEW list \in Seq(S), NEW gone
  PROVE  /\ Without(list, gone) \in Seq(S)
         /\ \E h : Shifts(h, list, gone)
<1> DEFINE kept == Kept(list, gone)
           lost == Lost(list, gone)
           Place(n) == CHOOSE p \in kept : Before(kept, p) = n - 1
           h == [n \in 1..Cardinality(kept) |-> Place(n)]
<1>1. /\ DOMAIN list = 1..Len(list) /\ Len(list) \in Nat
      /\ kept \in SUBSET (1..Len(list)) /\ lost \in SUBSET (1..Len(list))
  BY DEF Kept, Lost
<1>2. /\ Cardinality(kept) \in Nat
      /\ \A p \in kept : Before(kept, p) \in 0..(Cardinality(kept) - 1)
      /\ \A p, q \in kept : Before(kept, p) = Before(kept, q) => p = q
      /\ \A n \in 1..Cardinality(kept) : \E p \in kept : Before(kept, p) = n - 1
  <2> HIDE DEF kept
  <2> QED
    BY <1>1, Positions
<1>3. Without(list, gone) = [n \in 1..Cardinality(kept) |-> list[Place(n)]]
  BY DEF Without, Kept, Before
<1>4. \A n \in 1..Cardinality(kept) : Place(n) \in kept /\ Before(kept, Place(n)) = n - 1
  <2> HIDE DEF kept
  <2> QED
    BY <1>2
<1>5. h \in [1..Cardinality(kept) -> kept]
  BY <1>4
<1>6. Without(list, gone) \in Seq(S)
  <2>1. \A n \in 1..Cardinality(kept) : list[Place(n)] \in S
    BY <1>1, <1>4
  <2> HIDE DEF kept, Place
  <2> QED
    BY <1>2, <1>3, <2>1
<1>7. DOMAIN Without(list, gone) = 1..Cardinality(kept)
  <2> HIDE DEF kept, Place
  <2> QED
    BY <1>3
<1>8. ASSUME NEW n \in 1..Cardinality(kept)
      PROVE  n <= h[n] /\ h[n] <= n + Cardinality(lost)
  <2>1. Place(n) \in kept /\ Before(kept, Place(n)) = n - 1
    BY <1>4
  <2>2. kept \union lost = 1..Len(list) /\ kept \intersect lost = {}
    BY <1>1 DEF Kept, Lost
  <2> HIDE DEF kept, lost, Place
  <2>3. /\ Before(kept, Place(n)) + 1 <= Place(n)
        /\ Place(n) <= Before(kept, Place(n)) + 1 + Cardinality(lost)
    BY <1>1, <2>1, <2>2, RankBounds
  <2>4. Before(kept, Place(n)) + 1 = n
    BY <1>2, <2>1
  <2>5. h[n] = Place(n)
    OBVIOUS
  <2> QED
    BY <2>3, <2>4, <2>5
<1>9. ASSUME NEW n \in 1..Cardinality(kept), NEW k \in 1..Cardinality(kept), h[n] = h[k]
      PROVE  n = k
  <2>1. n - 1 = k - 1
    BY <1>4, <1>9
  <2> QED
    BY <1>2, <2>1
<1>10. ASSUME NEW p \in kept PROVE \E n \in 1..Cardinality(kept) : h[n] = p
  <2> DEFINE n == Before(kept, p) + 1
  <2>1. n \in 1..Cardinality(kept) /\ n - 1 = Before(kept, p)
    BY <1>2
  <2>2. Place(n) \in kept /\ Before(kept, Place(n)) = Before(kept, p)
    BY <1>4, <2>1
  <2>3. ASSUME NEW q \in kept, Before(kept, q) = Before(kept, p) PROVE q = p
    BY <1>2, <2>3
  <2>4. Place(n) = p
    BY <2>2, <2>3
  <2> QED
    BY <2>1, <2>4
<1>11. \A n \in 1..Cardinality(kept) : Without(list, gone)[n] = list[h[n]]
  BY <1>3
<1> HIDE DEF h, kept, lost
<1>12. DOMAIN h = 1..Cardinality(kept)
  BY <1>5
<1>13. /\ h \in [DOMAIN Without(list, gone) -> kept]
       /\ \A n \in DOMAIN h :
            /\ Without(list, gone)[n] = list[h[n]]
            /\ n <= h[n] /\ h[n] <= n + Cardinality(lost)
       /\ \A n, k \in DOMAIN h : h[n] = h[k] => n = k
       /\ \A p \in kept : \E n \in DOMAIN h : h[n] = p
  BY <1>5, <1>7, <1>8, <1>9, <1>10, <1>11, <1>12
<1>14. Shifts(h, list, gone)
  BY <1>13 DEF Shifts, kept, lost
<1> QED
  BY <1>6, <1>14

-----------------------------------------------------------------------------
(* Walks.                                                                  *)

WalkRecord == [at : Room, next : Nat \ {0}, reached : SUBSET Conn,
               owed : SUBSET Conn, removals : Nat]

\* The connections of a list are finitely many.
LEMMA NamesFinite ==
  ASSUME NEW list \in Seq(Conn)
  PROVE  IsFiniteSet(Names(list)) /\ Names(list) \subseteq Conn
<1>1. IsFiniteSet(1..Len(list)) /\ DOMAIN list = 1..Len(list)
  BY FS_Interval
<1>2. list \in Surjection(1..Len(list), Names(list))
  BY <1>1 DEF Surjection, Names
<1> QED
  BY <1>1, <1>2, FS_Surjection DEF Names

\* A walk stays as it should be when clients break and others join elsewhere.
LEMMA WalkLasts ==
  ASSUME NEW w \in WalkRecord, NEW list \in Seq(Conn), NEW U, NEW V \in SUBSET U,
         NEW E, NEW F, E \subseteq F, WalkOK(w, list, U, E)
  PROVE  WalkOK(w, list, V, F)
<1>1. Skipped(w, list, V) \in SUBSET Skipped(w, list, U)
  BY DEF Skipped
<1>2. IsFiniteSet(Skipped(w, list, U))
  <2>1. Skipped(w, list, U) \in SUBSET Names(list)
    BY DEF Skipped, WalkOK
  <2> QED
    BY <2>1, NamesFinite, FS_Subset
<1>3. Cardinality(Skipped(w, list, V)) <= w.removals
  <2>1. Cardinality(Skipped(w, list, V)) <= Cardinality(Skipped(w, list, U))
    BY <1>1, <1>2, FS_Subset
  <2>2. Cardinality(Skipped(w, list, V)) \in Nat /\ Cardinality(Skipped(w, list, U)) \in Nat
    BY <1>1, <1>2, FS_Subset, FS_CardinalityType
  <2>3. w.removals \in Nat
    BY DEF WalkRecord
  <2> QED
    BY <2>1, <2>2, <2>3 DEF WalkOK
<1> QED
  BY <1>3 DEF WalkOK

\* At its beginning a walk has passed nobody over.
LEMMA WalkStarts ==
  ASSUME NEW m \in Room, NEW list \in Seq(Conn), NEW U, NEW E,
         NEW w, w = [at |-> m, next |-> 1, reached |-> {}, owed |-> Names(list), removals |-> 0]
  PROVE  w \in WalkRecord /\ WalkOK(w, list, U, E)
<1>1. w \in WalkRecord
  BY NamesFinite DEF WalkRecord
<1>2. Skipped(w, list, U) = {}
  BY DEF Skipped, Names
<1>3. Cardinality(Skipped(w, list, U)) = 0
  BY <1>2, FS_EmptySet
<1> QED
  BY <1>1, <1>3 DEF WalkOK

\* A client that joins is behind the walks of its room.
LEMMA WalkJoined ==
  ASSUME NEW w \in WalkRecord, NEW list \in Seq(Conn), NEW U, NEW E,
         NEW c \in Conn, c \notin E, Names(list) \subseteq E, WalkOK(w, list, U, E)
  PROVE  WalkOK(w, Append(list, c), U, E)
<1> DEFINE longer == Append(list, c)
<1>1. /\ longer \in Seq(Conn) /\ DOMAIN list \subseteq DOMAIN longer
      /\ \A p \in DOMAIN list : longer[p] = list[p]
      /\ \A p \in DOMAIN longer : p \in DOMAIN list \/ longer[p] = c
  OBVIOUS
<1> HIDE DEF longer
<1>2. Skipped(w, longer, U) = Skipped(w, list, U)
  <2>1. \A o \in w.owed : o # c
    BY DEF WalkOK
  <2>2. \A o \in w.owed :
          (\A p \in DOMAIN longer : longer[p] = o => p < w.next) <=>
          (\A p \in DOMAIN list : list[p] = o => p < w.next)
    BY <1>1, <2>1
  <2> QED
    BY <2>2 DEF Skipped
<1>3. w.owed \subseteq Names(longer)
  BY <1>1 DEF WalkOK, Names
<1>4. \A p \in DOMAIN longer : p >= w.next => longer[p] \notin w.reached
  BY <1>1 DEF WalkOK
<1> QED
  BY <1>2, <1>3, <1>4 DEF WalkOK, longer

\* One send: a client that can get the message gets it.
LEMMA WalkSends ==
  ASSUME NEW w \in WalkRecord, NEW list \in Seq(Conn), NEW U, NEW E, Distinct(list),
         Names(list) \subseteq E, WalkOK(w, list, U, E), w.next <= Len(list),
         NEW got,
         got = IF list[w.next] \in U THEN w.reached \union {list[w.next]} ELSE w.reached,
         NEW v, v = [w EXCEPT !.next = @ + 1, !.reached = got]
  PROVE  v \in WalkRecord /\ WalkOK(v, list, U, E)
<1> DEFINE target == list[w.next]
<1>1. /\ w.next \in DOMAIN list /\ w.next \in Nat \ {0} /\ w.removals \in Nat
      /\ w.at \in Room /\ w.reached \in SUBSET Conn /\ w.owed \in SUBSET Conn
      /\ target \in Conn /\ target \in Names(list)
  BY DEF WalkRecord, Names
<1>2. /\ v.at = w.at /\ v.owed = w.owed /\ v.removals = w.removals /\ v.next = w.next + 1
      /\ v.reached = got
  BY DEF WalkRecord
<1>8. /\ w.reached \subseteq got /\ got \subseteq w.reached \union {target}
      /\ target \in U => target \in got
  OBVIOUS
<1>3. v \in WalkRecord
  <2>1. got \in SUBSET Conn
    BY <1>1, <1>8
  <2>2. v = [at |-> w.at, next |-> w.next + 1, reached |-> got,
             owed |-> w.owed, removals |-> w.removals]
    BY DEF WalkRecord
  <2>3. w.next + 1 \in Nat \ {0}
    BY <1>1
  <2> QED
    BY <1>1, <2>1, <2>2, <2>3 DEF WalkRecord
<1> HIDE DEF target
<1>4. Skipped(v, list, U) \in SUBSET Skipped(w, list, U)
  <2> SUFFICES ASSUME NEW o \in Skipped(v, list, U) PROVE o \in Skipped(w, list, U)
    OBVIOUS
  <2>1. o \in w.owed /\ o \in U /\ o \notin w.reached /\ o # target
    BY <1>2, <1>8 DEF Skipped
  <2>2. ASSUME NEW p \in DOMAIN list, list[p] = o PROVE p < w.next
    <3>1. p < w.next + 1
      BY <1>2, <2>2 DEF Skipped
    <3>2. p # w.next
      BY <2>1, <2>2 DEF target
    <3> QED
      BY <1>1, <3>1, <3>2
  <2> QED
    BY <2>1, <2>2 DEF Skipped
<1>5. Cardinality(Skipped(v, list, U)) <= v.removals
  <2>1. Skipped(w, list, U) \in SUBSET Names(list)
    BY DEF Skipped, WalkOK
  <2>2. IsFiniteSet(Skipped(w, list, U))
    BY <2>1, NamesFinite, FS_Subset
  <2>3. Cardinality(Skipped(v, list, U)) <= Cardinality(Skipped(w, list, U))
    BY <1>4, <2>2, FS_Subset
  <2>4. Cardinality(Skipped(v, list, U)) \in Nat /\ Cardinality(Skipped(w, list, U)) \in Nat
    BY <1>4, <2>2, FS_Subset, FS_CardinalityType
  <2> QED
    BY <1>1, <1>2, <2>3, <2>4 DEF WalkOK
<1>6. \A p \in DOMAIN list : p >= v.next => list[p] \notin v.reached
  <2> SUFFICES ASSUME NEW p \in DOMAIN list, p >= v.next PROVE list[p] \notin v.reached
    OBVIOUS
  <2>1. p >= w.next /\ p # w.next
    BY <1>1, <1>2
  <2>2. list[p] \notin w.reached /\ list[p] # target
    BY <1>1, <2>1 DEF WalkOK, Distinct, target
  <2> QED
    BY <1>2, <1>8, <2>2
<1>7. v.reached \subseteq E /\ v.owed \subseteq Names(list)
  BY <1>1, <1>2, <1>8 DEF WalkOK
<1> QED
  BY <1>3, <1>5, <1>6, <1>7 DEF WalkOK

\* A removal: the walk passes over at most as many clients as are removed.
LEMMA WalkDisturbed ==
  ASSUME NEW w \in WalkRecord, NEW list \in Seq(Conn), NEW U, NEW E, Distinct(list),
         WalkOK(w, list, U, E), NEW gone,
         NEW v, v = [w EXCEPT !.owed = @ \ gone,
                              !.removals = @ + Cardinality(gone \intersect Names(list))]
  PROVE  v \in WalkRecord /\ WalkOK(v, Without(list, gone), U, E)
<1> DEFINE less == Without(list, gone)
           lost == Lost(list, gone)
           g == Cardinality(lost)
           count == Cardinality(gone \intersect Names(list))
<1>1. IsFiniteSet(Names(list)) /\ Names(list) \subseteq Conn
  BY NamesFinite
<1>2. IsFiniteSet(gone \intersect Names(list)) /\ count \in Nat
  BY <1>1, FS_Intersection, FS_CardinalityType
<1>3. g \in Nat /\ g <= count
  <2> DEFINE f == [p \in lost |-> list[p]]
  <2>1. f \in [lost -> gone \intersect Names(list)]
    BY DEF Lost, Names
  <2>2. \A p, q \in lost : f[p] = f[q] => p = q
    BY DEF Lost, Distinct
  <2> HIDE DEF f, lost
  <2>3. f \in Injection(lost, gone \intersect Names(list))
    BY <2>1, <2>2 DEF Injection, IsInjective
  <2>4. IsFiniteSet(lost) /\ Cardinality(lost) <= count
    BY <1>2, <2>3, FS_Injection
  <2> QED
    BY <2>4, FS_CardinalityType
<1>4. PICK h :
        /\ h \in [DOMAIN less -> Kept(list, gone)]
        /\ \A n \in DOMAIN h : less[n] = list[h[n]] /\ n <= h[n] /\ h[n] <= n + g
        /\ \A n, k \in DOMAIN h : h[n] = h[k] => n = k
        /\ \A p \in Kept(list, gone) : \E n \in DOMAIN h : h[n] = p
  <2>1. PICK h : Shifts(h, list, gone)
    BY WithoutKeeps
  <2> QED
    BY <2>1 DEF Shifts
<1>5. less \in Seq(Conn)
  BY WithoutKeeps
<1>6. DOMAIN h = DOMAIN less /\ DOMAIN less = 1..Len(less) /\ DOMAIN list = 1..Len(list)
  BY <1>4, <1>5
<1>7. \A n \in DOMAIN less : h[n] \in DOMAIN list /\ n \in Int /\ h[n] \in Int
  BY <1>4, <1>6 DEF Kept
<1> HIDE DEF less, lost, g, count
<1>8. /\ w.next \in Nat \ {0} /\ w.removals \in Nat /\ w.at \in Room
      /\ w.reached \in SUBSET Conn /\ w.owed \in SUBSET Conn
  BY DEF WalkRecord
<1>9. /\ v.at = w.at /\ v.next = w.next /\ v.reached = w.reached
      /\ v.owed = w.owed \ gone /\ v.removals = w.removals + count
  BY DEF WalkRecord, count
<1>10. v \in WalkRecord
  <2>1. w.removals + count \in Nat /\ w.owed \ gone \in SUBSET Conn
    BY <1>2, <1>8
  <2>2. v = [at |-> w.at, next |-> w.next, reached |-> w.reached,
             owed |-> w.owed \ gone, removals |-> w.removals + count]
    BY DEF WalkRecord, count
  <2> QED
    BY <1>8, <2>1, <2>2 DEF WalkRecord
<1>11. ASSUME NEW p \in DOMAIN list, list[p] \notin gone
       PROVE  \E n \in DOMAIN less : h[n] = p /\ less[n] = list[p]
  BY <1>4, <1>6, <1>11 DEF Kept
<1>12. v.owed \subseteq Names(less)
  BY <1>9, <1>11 DEF WalkOK, Names
<1>13. \A n \in DOMAIN less : n >= v.next => less[n] \notin v.reached
  <2> SUFFICES ASSUME NEW n \in DOMAIN less, n >= v.next PROVE less[n] \notin v.reached
    OBVIOUS
  <2>1. h[n] \in DOMAIN list /\ less[n] = list[h[n]] /\ h[n] >= w.next
    BY <1>4, <1>6, <1>7, <1>8, <1>9
  <2> QED
    BY <1>9, <2>1 DEF WalkOK
<1> DEFINE band == {q \in DOMAIN list : w.next <= q /\ q <= w.next + g - 1}
           passed == {list[q] : q \in band}
<1>14. IsFiniteSet(passed) /\ Cardinality(passed) \in Nat /\ Cardinality(passed) <= g
  <2> DEFINE f == [q \in band |-> list[q]]
  <2>1. f \in Surjection(band, passed)
    BY DEF Surjection
  <2>2. band \in SUBSET (w.next..(w.next + g - 1))
    BY <1>6
  <2>3. /\ IsFiniteSet(w.next..(w.next + g - 1))
        /\ Cardinality(w.next..(w.next + g - 1)) = g
    <3>1. w.next \in Int /\ w.next + g - 1 \in Int
      BY <1>3, <1>8
    <3>2. /\ IsFiniteSet(w.next..(w.next + g - 1))
          /\ Cardinality(w.next..(w.next + g - 1)) =
               IF w.next > w.next + g - 1 THEN 0 ELSE (w.next + g - 1) - w.next + 1
      BY <3>1, FS_Interval
    <3>3. w.next > w.next + g - 1 => g = 0
      BY <1>3, <1>8
    <3>4. (w.next + g - 1) - w.next + 1 = g
      <4>1. \A a, b \in Int : (a + b - 1) - a + 1 = b
        OBVIOUS
      <4>2. w.next \in Int /\ g \in Int
        BY <1>3, <1>8
      <4> QED
        BY <4>1, <4>2
    <3> QED
      BY <3>2, <3>3, <3>4
  <2> HIDE DEF f, band, passed
  <2>4. IsFiniteSet(band) /\ Cardinality(band) <= g
    BY <2>2, <2>3, FS_Subset
  <2>5. IsFiniteSet(passed) /\ Cardinality(passed) <= Cardinality(band)
    BY <2>1, <2>4, FS_Surjection
  <2>6. Cardinality(passed) \in Nat /\ Cardinality(band) \in Nat
    BY <2>4, <2>5, FS_CardinalityType
  <2> QED
    BY <1>3, <2>4, <2>5, <2>6
<1>15. Skipped(v, less, U) \subseteq Skipped(w, list, U) \union passed
  <2> SUFFICES ASSUME NEW o \in Skipped(v, less, U), o \notin passed
               PROVE  o \in Skipped(w, list, U)
    OBVIOUS
  <2>1. /\ o \in w.owed /\ o \notin gone /\ o \in U /\ o \notin w.reached
        /\ \A n \in DOMAIN less : less[n] = o => n < w.next
    BY <1>9 DEF Skipped
  <2>2. ASSUME NEW p \in DOMAIN list, list[p] = o PROVE p < w.next
    <3>1. PICK n \in DOMAIN less : h[n] = p /\ less[n] = o
      BY <1>11, <2>1, <2>2
    <3>2. n < w.next /\ p <= n + g
      BY <1>4, <1>6, <2>1, <3>1
    <3>3. p \notin band
      BY <2>2
    <3>4. p \in Int /\ n \in Int
      BY <1>6, <1>7
    <3>5. ~(w.next <= p /\ p <= w.next + g - 1)
      BY <3>3
    <3> HIDE DEF band, passed
    <3> QED
      BY <1>3, <1>8, <3>2, <3>4, <3>5
  <2> QED
    BY <2>1, <2>2 DEF Skipped
<1> HIDE DEF band, passed
<1>16. Cardinality(Skipped(v, less, U)) <= v.removals
  <2>1. Skipped(w, list, U) \in SUBSET Names(list)
    BY DEF Skipped, WalkOK
  <2>2. IsFiniteSet(Skipped(w, list, U)) /\ Cardinality(Skipped(w, list, U)) \in Nat
    BY <1>1, <2>1, FS_Subset, FS_CardinalityType
  <2> DEFINE both == Skipped(w, list, U) \union passed
             common == Skipped(w, list, U) \intersect passed
  <2>3. /\ IsFiniteSet(both)
        /\ Cardinality(both) = Cardinality(Skipped(w, list, U)) + Cardinality(passed)
                                 - Cardinality(common)
    BY <1>14, <2>2, FS_Union
  <2>4. Cardinality(common) \in Nat
    BY <1>14, FS_Intersection, FS_CardinalityType
  <2>5. Cardinality(both) <= Cardinality(Skipped(w, list, U)) + Cardinality(passed)
    <3> HIDE DEF both, common
    <3> QED
      BY <1>14, <2>2, <2>3, <2>4
  <2>6. Skipped(v, less, U) \in SUBSET both
    BY <1>15
  <2> HIDE DEF both
  <2>7. Cardinality(Skipped(v, less, U)) <= Cardinality(both)
    BY <2>3, <2>6, FS_Subset
  <2>8. Cardinality(Skipped(v, less, U)) \in Nat /\ Cardinality(both) \in Nat
    BY <2>3, <2>6, FS_Subset, FS_CardinalityType
  <2>9. Cardinality(Skipped(w, list, U)) <= w.removals
    BY DEF WalkOK
  <2> QED
    BY <1>2, <1>3, <1>8, <1>9, <1>14, <2>2, <2>5, <2>7, <2>8, <2>9 DEF count
<1> QED
  BY <1>9, <1>10, <1>12, <1>13, <1>16 DEF WalkOK, less

-----------------------------------------------------------------------------
(* Steps that leave the lists alone.                                       *)

Pc == Inside \union {"outside", "accepted", "gone"}

ConnRecord == [pc : Pc, up : BOOLEAN, room : Room, sent : 0..MaxMessage]

LEMMA RoomTypes ==
  ASSUME RoomInv
  PROVE  /\ conn \in [Conn -> ConnRecord] /\ walk \in [Conn -> WalkRecord]
         /\ members \in [Room -> Seq(Conn)] /\ dead \in [Room -> SUBSET Conn]
         /\ current \in Room \union {0} /\ made \in Room \union {0}
         /\ opened \in BOOLEAN /\ failed \subseteq Conn
         /\ \A c \in Conn : walk[c].at \in Room /\ conn[c].room \in Room
         /\ \A m \in Room : Names(members[m]) \subseteq Conn
         /\ 1 \in Room /\ Room \subseteq Nat /\ NoWalk \in WalkRecord
<1>1. MaxRoom \in Nat /\ MaxRoom >= 1
  BY DEF ChatRoomsAssumption
<1>2. 1 \in Room /\ Room \subseteq Nat
  BY <1>1 DEF Room
<1>3. NoWalk \in WalkRecord
  BY <1>2 DEF NoWalk, WalkRecord
<1>4. /\ conn \in [Conn -> ConnRecord] /\ walk \in [Conn -> WalkRecord]
  BY DEF RoomInv, TypeOK, ConnRecord, WalkRecord, Pc
<1>5. \A c \in Conn : walk[c].at \in Room /\ conn[c].room \in Room
  BY <1>4 DEF ConnRecord, WalkRecord
<1>6. \A m \in Room : Names(members[m]) \subseteq Conn
  BY NamesFinite DEF RoomInv, TypeOK
<1> QED
  BY <1>2, <1>3, <1>4, <1>5, <1>6 DEF RoomInv, TypeOK

\* What goto does to the other fields.
LEMMA Goes ==
  ASSUME RoomInv, NEW c \in Conn, NEW pc \in Pc, Goto(c, pc)
  PROVE  /\ conn' \in [Conn -> ConnRecord]
         /\ conn'[c].pc = pc
         /\ \A d \in Conn : conn'[d].up = conn[d].up /\ conn'[d].room = conn[d].room
         /\ \A d \in Conn : d # c => conn'[d] = conn[d]
         /\ Up' = Up
<1>1. conn \in [Conn -> ConnRecord]
  BY RoomTypes
<1>2. conn' = [conn EXCEPT ![c].pc = pc]
  BY DEF Goto
<1>3. conn' \in [Conn -> ConnRecord]
  BY <1>1, <1>2 DEF ConnRecord
<1>4. \A d \in Conn : d # c => conn'[d] = conn[d]
  BY <1>1, <1>2
<1>5. conn'[c].pc = pc /\ conn'[c].up = conn[c].up /\ conn'[c].room = conn[c].room
  BY <1>1, <1>2 DEF ConnRecord
<1>6. Up' = Up
  BY <1>4, <1>5 DEF Up
<1> QED
  BY <1>3, <1>4, <1>5, <1>6

\* Walks that go on over the lists as they were.
LEMMA WalksLast ==
  ASSUME members' \in [Room -> Seq(Conn)], Up' \subseteq Up, Entered \subseteq Entered',
         \A c \in Conn : conn'[c].pc = "walking" =>
           walk'[c] \in WalkRecord /\ WalkOK(walk'[c], members'[walk'[c].at], Up, Entered)
  PROVE  WalksOK'
<1> SUFFICES ASSUME NEW c \in Conn, conn'[c].pc = "walking"
             PROVE  WalkOK(walk'[c], members'[walk'[c].at], Up', Entered')
  BY DEF WalksOK
<1>1. walk'[c] \in WalkRecord /\ WalkOK(walk'[c], members'[walk'[c].at], Up, Entered)
  OBVIOUS
<1>2. members'[walk'[c].at] \in Seq(Conn)
  BY <1>1 DEF WalkRecord
<1> QED
  BY <1>1, <1>2, WalkLasts

LEMMA Quiet ==
  ASSUME RoomInv, UNCHANGED <<members, dead, made>>, current' \in {0, current},
         Up' \subseteq Up, Entered \subseteq Entered',
         \A c \in Conn : conn'[c].pc = "walking" => conn[c].pc = "walking" /\ walk'[c] = walk[c],
         \A c \in Conn : conn'[c].pc \in Staying =>
           conn[c].pc \in Staying /\ conn'[c].room = conn[c].room
  PROVE  ListsOK' /\ DeadAreDown' /\ StaysOK' /\ WalksOK'
<1>1. ListsOK'
  <2>1. current' <= made'
    BY RoomTypes DEF RoomInv, ListsOK
  <2> QED
    BY <2>1 DEF RoomInv, ListsOK
<1>2. DeadAreDown'
  BY DEF RoomInv, DeadAreDown
<1>3. StaysOK'
  BY DEF RoomInv, StaysOK
<1>4. WalksOK'
  <2>1. ASSUME NEW c \in Conn, conn'[c].pc = "walking"
        PROVE  walk'[c] \in WalkRecord /\ WalkOK(walk'[c], members'[walk'[c].at], Up, Entered)
    BY <2>1, RoomTypes DEF RoomInv, WalksOK
  <2> QED
    BY <2>1, RoomTypes, WalksLast
<1> QED
  BY <1>1, <1>2, <1>3, <1>4

\* Nobody leaves, and nobody who is closing is done.
LEMMA TableLasts ==
  ASSUME RoomInv, UNCHANGED <<current, members, failed>>,
         \A c \in Conn : conn[c].pc \in Staying => conn'[c].pc \in Staying,
         \A c \in Conn : conn[c].pc = "closing" =>
           conn'[c].pc = "closing" /\ conn'[c].room = conn[c].room
  PROVE  TableOK'
<1> SUFFICES ASSUME current # 0, failed = {}
             PROVE  /\ \A c \in Names(members[current]) : conn'[c].pc \in Staying
                    /\ \E c \in Conn : Leaver(c)'
  BY DEF TableOK
<1>1. /\ \A c \in Names(members[current]) : conn[c].pc \in Staying
      /\ \E c \in Conn : Leaver(c)
  BY DEF RoomInv, TableOK
<1>2. Names(members[current]) \subseteq Conn
  BY RoomTypes
<1> QED
  BY <1>1, <1>2 DEF Leaver

LEMMA AcceptKeeps ==
  ASSUME RoomInv, NEW c \in Conn, Accept(c)
  PROVE  RoomInv'
<1>1. /\ conn[c].pc = "outside" /\ Goto(c, "accepted") /\ "accepted" \in Pc
      /\ UNCHANGED <<opened, current, made, members, dead, walk, failed>>
  BY DEF Accept, Pc
<1>2. /\ conn' \in [Conn -> ConnRecord] /\ conn'[c].pc = "accepted" /\ Up' = Up
      /\ \A d \in Conn : conn'[d].up = conn[d].up /\ conn'[d].room = conn[d].room
      /\ \A d \in Conn : d # c => conn'[d] = conn[d]
  BY <1>1, Goes
<1>3. TypeOK'
  BY <1>1, <1>2 DEF RoomInv, TypeOK, ConnRecord, Pc
<1>4. Entered' = Entered
  BY <1>1, <1>2 DEF Entered
<1>5. ListsOK' /\ DeadAreDown' /\ StaysOK' /\ WalksOK'
  BY <1>1, <1>2, <1>4, Quiet DEF Staying
<1>6. TableOK'
  BY <1>1, <1>2, TableLasts DEF Staying
<1> QED
  BY <1>3, <1>5, <1>6 DEF RoomInv

LEMMA ReceiveKeeps ==
  ASSUME RoomInv, NEW c \in Conn, Receive(c)
  PROVE  RoomInv'
<1>1. /\ conn[c].pc = "open" /\ conn[c].sent < MaxMessage
      /\ conn' = [conn EXCEPT ![c].pc = "storing", ![c].sent = @ + 1]
      /\ UNCHANGED <<opened, current, made, members, dead, walk, failed>>
  BY DEF Receive
<1>2. conn \in [Conn -> ConnRecord]
  BY RoomTypes
<1>3. /\ \A d \in Conn : d # c => conn'[d] = conn[d]
      /\ conn'[c].pc = "storing" /\ conn'[c].up = conn[c].up /\ conn'[c].room = conn[c].room
  BY <1>1, <1>2 DEF ConnRecord
<1>4. conn' \in [Conn -> ConnRecord]
  <2>1. conn[c].sent + 1 \in 0..MaxMessage
    BY <1>1, <1>2 DEF ConnRecord, ChatRoomsAssumption
  <2> QED
    BY <1>1, <1>2, <2>1 DEF ConnRecord, Pc, Inside
<1>5. TypeOK'
  BY <1>1, <1>4 DEF RoomInv, TypeOK, ConnRecord, Pc
<1>6. Entered' = Entered /\ Up' = Up
  BY <1>1, <1>3 DEF Entered, Up
<1>7. ListsOK' /\ DeadAreDown' /\ StaysOK' /\ WalksOK'
  <2>1. \A d \in Conn : conn'[d].pc = "walking" => conn[d].pc = "walking" /\ walk'[d] = walk[d]
    BY <1>1, <1>3
  <2>2. \A d \in Conn : conn'[d].pc \in Staying =>
          conn[d].pc \in Staying /\ conn'[d].room = conn[d].room
    BY <1>1, <1>3 DEF Staying
  <2> QED
    BY <1>1, <1>6, <2>1, <2>2, Quiet
<1>8. TableOK'
  BY <1>1, <1>3, TableLasts DEF Staying
<1> QED
  BY <1>5, <1>7, <1>8 DEF RoomInv

LEMMA CutKeeps ==
  ASSUME RoomInv, NEW c \in Conn, Cut(c)
  PROVE  RoomInv'
<1>1. /\ conn' = [conn EXCEPT ![c].up = FALSE]
      /\ UNCHANGED <<opened, current, made, members, dead, walk, failed>>
  BY DEF Cut
<1>2. conn \in [Conn -> ConnRecord]
  BY RoomTypes
<1>3. /\ \A d \in Conn : conn'[d].pc = conn[d].pc /\ conn'[d].room = conn[d].room
      /\ \A d \in Conn : d # c => conn'[d] = conn[d]
      /\ conn'[c].up = FALSE
  BY <1>1, <1>2 DEF ConnRecord
<1>4. conn' \in [Conn -> ConnRecord]
  BY <1>1, <1>2 DEF ConnRecord
<1>5. TypeOK'
  BY <1>1, <1>4 DEF RoomInv, TypeOK, ConnRecord, Pc
<1>6. Entered' = Entered /\ Up' \subseteq Up
  BY <1>1, <1>3 DEF Entered, Up
<1>7. ListsOK' /\ DeadAreDown' /\ StaysOK' /\ WalksOK'
  BY <1>1, <1>3, <1>6, Quiet
<1>8. TableOK'
  BY <1>1, <1>3, TableLasts
<1> QED
  BY <1>5, <1>7, <1>8 DEF RoomInv

LEMMA CloseKeeps ==
  ASSUME RoomInv, CloseConversation
  PROVE  RoomInv'
<1>1. /\ opened' = FALSE
      /\ UNCHANGED <<current, made, members, dead, conn, walk, failed>>
  BY DEF CloseConversation
<1>2. TypeOK'
  BY <1>1 DEF RoomInv, TypeOK
<1>3. Entered' = Entered /\ Up' = Up
  BY <1>1 DEF Entered, Up
<1>4. ListsOK' /\ DeadAreDown' /\ StaysOK' /\ WalksOK'
  BY <1>1, <1>3, Quiet
<1>5. TableOK'
  BY <1>1, TableLasts
<1> QED
  BY <1>2, <1>4, <1>5 DEF RoomInv

LEMMA ClosedKeeps ==
  ASSUME RoomInv, NEW c \in Conn, Closed(c)
  PROVE  RoomInv'
<1>1. /\ conn[c].pc = "closing" /\ Goto(c, "gone") /\ "gone" \in Pc
      /\ current' = IF members[conn[c].room] = <<>> THEN 0 ELSE current
      /\ UNCHANGED <<opened, made, members, dead, walk, failed>>
  BY DEF Closed, Pc, PopIfEmpty
<1>2. /\ conn' \in [Conn -> ConnRecord] /\ conn'[c].pc = "gone" /\ Up' = Up
      /\ \A d \in Conn : conn'[d].up = conn[d].up /\ conn'[d].room = conn[d].room
      /\ \A d \in Conn : d # c => conn'[d] = conn[d]
  BY <1>1, Goes
<1>3. TypeOK'
  <2>1. current' \in Room \union {0}
    BY <1>1, RoomTypes
  <2> QED
    BY <1>1, <1>2, <2>1 DEF RoomInv, TypeOK, ConnRecord, Pc
<1>4. Entered' = Entered
  BY <1>1, <1>2 DEF Entered
<1>5. ListsOK' /\ DeadAreDown' /\ StaysOK' /\ WalksOK'
  BY <1>1, <1>2, <1>4, Quiet DEF Staying
<1>6. TableOK'
  <2> SUFFICES ASSUME current' # 0, failed' = {}
               PROVE  /\ \A d \in Names(members'[current']) : conn'[d].pc \in Staying
                      /\ \E d \in Conn : Leaver(d)'
    BY DEF TableOK
  <2>1. current' = current /\ members[conn[c].room] # <<>>
    BY <1>1
  <2>2. /\ \A d \in Names(members[current]) : conn[d].pc \in Staying
        /\ \E d \in Conn : Leaver(d)
    BY <1>1, <2>1 DEF RoomInv, TableOK
  <2>3. Names(members[current]) \subseteq Conn /\ members[conn[c].room] \in Seq(Conn)
    BY <2>1, RoomTypes
  <2>4. \A d \in Names(members[current]) : d # c /\ conn'[d] = conn[d]
    BY <1>1, <1>2, <2>2, <2>3 DEF Staying
  <2>5. \E d \in Conn : d # c /\ Leaver(d)
    <3>1. CASE conn[c].room = current
      <4>1. members[current][1] \in Names(members[current])
        BY <2>1, <2>3, <3>1 DEF Names
      <4> QED
        BY <2>2, <2>3, <2>4, <4>1 DEF Leaver
    <3>2. CASE conn[c].room # current
      BY <1>1, <2>2, <3>2 DEF Leaver, Staying
    <3> QED
      BY <3>1, <3>2
  <2> QED
    BY <1>1, <1>2, <2>1, <2>2, <2>4, <2>5 DEF Leaver
<1> QED
  BY <1>3, <1>5, <1>6 DEF RoomInv

LEMMA CloseRaisesKeeps ==
  ASSUME RoomInv, NEW c \in Conn, CloseRaises(c)
  PROVE  RoomInv'
<1>1. /\ conn[c].pc = "closing" /\ Goto(c, "gone") /\ "gone" \in Pc
      /\ failed' = failed \union {c}
      /\ UNCHANGED <<opened, current, made, members, dead, walk>>
  BY DEF CloseRaises, Pc
<1>2. /\ conn' \in [Conn -> ConnRecord] /\ conn'[c].pc = "gone" /\ Up' = Up
      /\ \A d \in Conn : conn'[d].up = conn[d].up /\ conn'[d].room = conn[d].room
      /\ \A d \in Conn : d # c => conn'[d] = conn[d]
  BY <1>1, Goes
<1>3. TypeOK'
  BY <1>1, <1>2 DEF RoomInv, TypeOK, ConnRecord, Pc
<1>4. Entered' = Entered
  BY <1>1, <1>2 DEF Entered
<1>5. ListsOK' /\ DeadAreDown' /\ StaysOK' /\ WalksOK'
  BY <1>1, <1>2, <1>4, Quiet DEF Staying
<1>6. TableOK'
  BY <1>1 DEF TableOK
<1> QED
  BY <1>3, <1>5, <1>6 DEF RoomInv

-----------------------------------------------------------------------------
(* Broadcasts.                                                             *)

\* A coroutine begins to walk a room.
LEMMA Begins ==
  ASSUME RoomInv, NEW c \in Conn, NEW m \in Room, conn[c].pc \in Staying,
         Goto(c, "walking"), walk' = [walk EXCEPT ![c] = StartWalk(m)],
         UNCHANGED <<opened, current, made, members, dead, failed>>
  PROVE  RoomInv'
<1>1. "walking" \in Pc /\ "walking" \in Staying
  BY DEF Pc, Inside, Staying
<1>2. /\ conn' \in [Conn -> ConnRecord] /\ conn'[c].pc = "walking" /\ Up' = Up
      /\ \A d \in Conn : conn'[d].up = conn[d].up /\ conn'[d].room = conn[d].room
      /\ \A d \in Conn : d # c => conn'[d] = conn[d]
  BY <1>1, Goes
<1>3. StartWalk(m) \in WalkRecord /\ WalkOK(StartWalk(m), members[m], Up, Entered)
  <2>1. members[m] \in Seq(Conn)
    BY RoomTypes
  <2> QED
    BY <2>1, WalkStarts DEF StartWalk, Members, Names
<1>4. walk' \in [Conn -> WalkRecord] /\ walk'[c] = StartWalk(m)
  BY <1>3, RoomTypes
<1>5. TypeOK'
  BY <1>2, <1>4 DEF RoomInv, TypeOK, ConnRecord, WalkRecord, Pc
<1>6. Entered' = Entered
  BY <1>2 DEF Entered, Staying
<1>7. ListsOK' /\ DeadAreDown' /\ StaysOK'
  BY <1>2, <1>6 DEF RoomInv, ListsOK, DeadAreDown, StaysOK
<1>8. WalksOK'
  <2>1. ASSUME NEW d \in Conn, conn'[d].pc = "walking"
        PROVE  walk'[d] \in WalkRecord /\ WalkOK(walk'[d], members'[walk'[d].at], Up, Entered)
    <3>1. CASE d = c
      BY <1>3, <1>4, <3>1 DEF StartWalk
    <3>2. CASE d # c
      <4>1. walk'[d] = walk[d] /\ conn[d].pc = "walking"
        BY <1>2, <2>1, <3>2, RoomTypes
      <4> QED
        BY <4>1, RoomTypes DEF RoomInv, WalksOK
    <3> QED
      BY <3>1, <3>2
  <2> QED
    BY <1>2, <1>6, <2>1, RoomTypes, WalksLast
<1>9. TableOK'
  BY <1>1, <1>2, TableLasts DEF Staying
<1> QED
  BY <1>5, <1>7, <1>8, <1>9 DEF RoomInv

LEMMA ConfirmKeeps ==
  ASSUME RoomInv, NEW c \in Conn, Confirm(c)
  PROVE  RoomInv'
<1>1. CASE conn[c].up
  BY <1>1, RoomTypes, Begins DEF Confirm, Staying
<1>2. CASE ~conn[c].up
  <2>1. /\ conn[c].pc = "confirming" /\ Goto(c, "gone") /\ "gone" \in Pc
        /\ failed' = failed \union {c}
        /\ UNCHANGED <<opened, current, made, members, dead, walk>>
    BY <1>2 DEF Confirm, Pc
  <2>2. /\ conn' \in [Conn -> ConnRecord] /\ conn'[c].pc = "gone" /\ Up' = Up
        /\ \A d \in Conn : conn'[d].up = conn[d].up /\ conn'[d].room = conn[d].room
        /\ \A d \in Conn : d # c => conn'[d] = conn[d]
    BY <2>1, Goes
  <2>3. TypeOK'
    BY <2>1, <2>2 DEF RoomInv, TypeOK, ConnRecord, Pc
  <2>4. Entered' = Entered
    BY <2>1, <2>2 DEF Entered
  <2>5. ListsOK' /\ DeadAreDown' /\ StaysOK' /\ WalksOK'
    BY <2>1, <2>2, <2>4, Quiet DEF Staying
  <2>6. TableOK'
    BY <2>1 DEF TableOK
  <2> QED
    BY <2>3, <2>5, <2>6 DEF RoomInv
<1> QED
  BY <1>1, <1>2

LEMMA StoredKeeps ==
  ASSUME RoomInv, NEW c \in Conn, Stored(c)
  PROVE  RoomInv'
<1>1. CASE current # 0
  <2>1. current \in Room
    BY <1>1, RoomTypes
  <2> QED
    BY <1>1, <2>1, Begins DEF Stored, Staying
<1>2. CASE current = 0
  <2>1. /\ conn[c].pc = "storing" /\ Goto(c, "open") /\ "open" \in Pc
        /\ UNCHANGED <<opened, current, made, members, dead, walk, failed>>
    BY <1>2 DEF Stored, Pc, Inside
  <2>2. /\ conn' \in [Conn -> ConnRecord] /\ conn'[c].pc = "open" /\ Up' = Up
        /\ \A d \in Conn : conn'[d].up = conn[d].up /\ conn'[d].room = conn[d].room
        /\ \A d \in Conn : d # c => conn'[d] = conn[d]
    BY <2>1, Goes
  <2>3. TypeOK'
    BY <2>1, <2>2 DEF RoomInv, TypeOK, ConnRecord, Pc
  <2>4. Entered' = Entered
    BY <2>1, <2>2 DEF Entered
  <2>5. ListsOK' /\ DeadAreDown' /\ StaysOK' /\ WalksOK'
    <3>1. \A d \in Conn : conn'[d].pc = "walking" => conn[d].pc = "walking" /\ walk'[d] = walk[d]
      BY <2>1, <2>2
    <3>2. \A d \in Conn : conn'[d].pc \in Staying =>
            conn[d].pc \in Staying /\ conn'[d].room = conn[d].room
      BY <2>1, <2>2 DEF Staying
    <3> QED
      BY <2>1, <2>2, <2>4, <3>1, <3>2, Quiet
  <2>6. TableOK'
    BY <2>1, <2>2, TableLasts DEF Staying
  <2> QED
    BY <2>3, <2>5, <2>6 DEF RoomInv
<1> QED
  BY <1>1, <1>2

LEMMA SendKeeps ==
  ASSUME RoomInv, NEW c \in Conn, Send(c)
  PROVE  RoomInv'
<1> DEFINE m == walk[c].at
           w == walk[c]
           target == members[m][w.next]
           got == IF target \in Up THEN w.reached \union {target} ELSE w.reached
           v == [w EXCEPT !.next = @ + 1, !.reached = got]
<1>1. /\ m \in Room /\ w \in WalkRecord /\ members[m] \in Seq(Conn)
      /\ conn[c].pc = "walking" /\ w.next <= Len(members[m])
      /\ UNCHANGED <<opened, current, made, members, conn, failed>>
  BY RoomTypes DEF Send
<1>2. target \in Conn
  BY <1>1 DEF WalkRecord
<1>3. /\ walk' = [walk EXCEPT ![c] = v]
      /\ \/ dead' = dead
         \/ target \notin Up /\ dead' = [dead EXCEPT ![m] = @ \union {target}]
  <2>1. target \in Up <=> conn[target].up
    BY <1>2 DEF Up
  <2>2. CASE conn[target].up
    BY <1>1, <2>1, <2>2, RoomTypes DEF Send, WalkRecord
  <2>3. CASE ~conn[target].up
    <3>1. walk' = [walk EXCEPT ![c].next = @ + 1]
          /\ dead' = [dead EXCEPT ![m] = @ \union {target}]
      BY <2>3 DEF Send
    <3>2. v = [w EXCEPT !.next = @ + 1]
      BY <1>1, <2>1, <2>3 DEF WalkRecord
    <3> QED
      BY <2>1, <2>3, <3>1, <3>2
  <2> QED
    BY <2>2, <2>3
<1>4. v \in WalkRecord /\ WalkOK(v, members[m], Up, Entered)
  <2>1. Distinct(members[m]) /\ Names(members[m]) \subseteq Entered
    BY <1>1 DEF RoomInv, ListsOK
  <2>2. WalkOK(w, members[m], Up, Entered)
    BY <1>1 DEF RoomInv, WalksOK
  <2> HIDE DEF m, w
  <2> QED
    BY <1>1, <2>1, <2>2, WalkSends
<1>5. v.at = m
  BY <1>1 DEF WalkRecord
<1> HIDE DEF v, target
<1>6. walk' \in [Conn -> WalkRecord] /\ walk'[c] = v
  BY <1>3, <1>4, RoomTypes
<1>7. dead' \in [Room -> SUBSET Conn] /\ DeadAreDown'
  <2>1. dead \in [Room -> SUBSET Conn] /\ Up' = Up
    BY <1>1, RoomTypes DEF Up
  <2> HIDE DEF m
  <2> QED
    BY <1>1, <1>2, <1>3, <2>1 DEF RoomInv, DeadAreDown
<1>8. TypeOK'
  BY <1>1, <1>6, <1>7 DEF RoomInv, TypeOK, WalkRecord
<1>9. Entered' = Entered /\ Up' = Up
  BY <1>1 DEF Entered, Up
<1>10. ListsOK' /\ StaysOK'
  BY <1>1, <1>9 DEF RoomInv, ListsOK, StaysOK
<1>11. WalksOK'
  <2>1. ASSUME NEW d \in Conn, conn'[d].pc = "walking"
        PROVE  walk'[d] \in WalkRecord /\ WalkOK(walk'[d], members'[walk'[d].at], Up, Entered)
    <3>1. CASE d = c
      BY <1>1, <1>4, <1>5, <1>6, <3>1
    <3>2. CASE d # c
      <4>1. walk'[d] = walk[d] /\ conn[d].pc = "walking"
        BY <1>1, <1>3, <2>1, <3>2, RoomTypes
      <4> QED
        BY <1>1, <4>1, RoomTypes DEF RoomInv, WalksOK
    <3> QED
      BY <3>1, <3>2
  <2> QED
    BY <1>1, <1>9, <2>1, RoomTypes, WalksLast
<1>12. TableOK'
  BY <1>1, TableLasts
<1> QED
  BY <1>7, <1>8, <1>10, <1>11, <1>12 DEF RoomInv

-----------------------------------------------------------------------------
(* Joining and leaving.                                                    *)

LEMMA JoinKeeps ==
  ASSUME RoomInv, NEW c \in Conn, Join(c)
  PROVE  RoomInv'
<1> DEFINE m == IF current = 0 THEN made + 1 ELSE current
<1>1. /\ conn[c].pc = "accepted"
      /\ current # 0 \/ made < MaxRoom
      /\ current' = m /\ made' = IF current = 0 THEN m ELSE made
      /\ members' = [members EXCEPT ![m] = Append(@, c)]
      /\ conn' = [conn EXCEPT ![c].pc = "confirming", ![c].room = m]
      /\ UNCHANGED <<opened, dead, walk, failed>>
  BY DEF Join, Joined
<1>2. /\ conn \in [Conn -> ConnRecord] /\ members \in [Room -> Seq(Conn)]
      /\ made \in Room \union {0} /\ current \in Room \union {0} /\ Room \subseteq Nat
  BY RoomTypes
<1>3. m \in Room /\ current' <= made'
  BY <1>1, <1>2 DEF RoomInv, ListsOK, Room, ChatRoomsAssumption
<1>4. current = 0 => members[m] = <<>>
  BY <1>2, <1>3 DEF RoomInv, ListsOK
<1>5. current # 0 => m = current
  OBVIOUS
<1>6. made' \in Room \union {0} /\ made <= made'
  BY <1>1, <1>2, <1>3
<1> HIDE DEF m
<1>7. /\ \A d \in Conn : conn'[d].up = conn[d].up
      /\ \A d \in Conn : d # c => conn'[d] = conn[d]
      /\ conn'[c].pc = "confirming" /\ conn'[c].room = m
  BY <1>1, <1>2 DEF ConnRecord
<1>8. conn' \in [Conn -> ConnRecord]
  BY ZenonT(60), <1>1, <1>2, <1>3 DEF ConnRecord, Pc, Inside
<1>9. members' \in [Room -> Seq(Conn)]
  BY <1>1, <1>2, <1>3
<1>10. TypeOK'
  BY <1>1, <1>3, <1>6, <1>8, <1>9 DEF RoomInv, TypeOK, ConnRecord, Pc
<1>11. Up' = Up /\ Entered' = Entered \union {c} /\ c \notin Entered
  <2>1. Up' = Up
    BY <1>7 DEF Up
  <2>2. c \notin Entered /\ c \in Entered'
    BY <1>1, <1>7 DEF Entered
  <2>3. \A d \in Conn : d # c => (d \in Entered' <=> d \in Entered)
    BY <1>7 DEF Entered
  <2>4. Entered' \subseteq Conn /\ Entered \subseteq Conn
    BY DEF Entered
  <2> QED
    BY <2>1, <2>2, <2>3, <2>4
<1>12. /\ \A k \in Room : k # m => members'[k] = members[k]
       /\ members'[m] = Append(members[m], c) /\ members[m] \in Seq(Conn)
  BY <1>1, <1>2, <1>3
<1>13. /\ Names(members[m]) \subseteq Entered /\ Distinct(members[m])
  BY <1>3 DEF RoomInv, ListsOK
<1>14. Names(members'[m]) = Names(members[m]) \union {c} /\ Distinct(members'[m])
  <2> DEFINE list == members[m]
             longer == Append(list, c)
  <2>1. /\ DOMAIN list \subseteq DOMAIN longer /\ \A p \in DOMAIN list : longer[p] = list[p]
        /\ \A p \in DOMAIN longer : p \in DOMAIN list \/ p = Len(list) + 1
        /\ Len(list) + 1 \in DOMAIN longer /\ longer[Len(list) + 1] = c
    BY <1>12
  <2>2. \A p \in DOMAIN list : list[p] # c
    BY <1>11, <1>13 DEF Names
  <2>3. members'[m] = longer
    BY <1>12
  <2> HIDE DEF list, longer
  <2>4. Names(longer) = Names(list) \union {c}
    BY <2>1 DEF Names
  <2>5. Distinct(longer)
    <3> SUFFICES ASSUME NEW p \in DOMAIN longer, NEW q \in DOMAIN longer,
                        longer[p] = longer[q]
                 PROVE  p = q
      BY DEF Distinct
    <3> QED
      BY <1>13, <2>1, <2>2 DEF Distinct, list
  <2> QED
    BY <2>3, <2>4, <2>5 DEF list
<1>15. ListsOK'
  <2>1. \A k \in Room : Distinct(members'[k]) /\ Names(members'[k]) \subseteq Entered'
    BY <1>11, <1>12, <1>13, <1>14 DEF RoomInv, ListsOK
  <2>2. ASSUME NEW k \in Room, k > made' PROVE members'[k] = <<>>
    <3>1. k > made
      BY <1>2, <1>6, <2>2
    <3>2. k # m
      BY <1>1, <1>2, <1>3, <2>2
    <3> QED
      BY <1>12, <3>1, <3>2 DEF RoomInv, ListsOK
  <2> QED
    BY <1>3, <2>1, <2>2 DEF ListsOK
<1>16. DeadAreDown'
  BY <1>1, <1>11 DEF RoomInv, DeadAreDown
<1>17. StaysOK'
  <2> SUFFICES ASSUME NEW d \in Conn, d \in Up', conn'[d].pc \in Staying
               PROVE  d \in Names(members'[conn'[d].room])
    BY DEF StaysOK
  <2>1. CASE d = c
    BY <1>7, <1>14, <2>1
  <2>2. CASE d # c
    <3>1. conn'[d].room = conn[d].room /\ d \in Names(members[conn[d].room])
      BY <1>7, <1>11, <2>2 DEF RoomInv, StaysOK
    <3>2. conn[d].room \in Room
      BY RoomTypes
    <3>3. Names(members[conn[d].room]) \subseteq Names(members'[conn[d].room])
      BY <1>12, <1>14, <3>2
    <3> QED
      BY <3>1, <3>3
  <2> QED
    BY <2>1, <2>2
<1>18. WalksOK'
  <2>1. ASSUME NEW d \in Conn, conn'[d].pc = "walking"
        PROVE  walk'[d] \in WalkRecord /\ WalkOK(walk'[d], members'[walk'[d].at], Up, Entered)
    <3>1. conn[d].pc = "walking" /\ walk'[d] = walk[d]
      BY <1>1, <1>7, <2>1
    <3>2. walk[d] \in WalkRecord /\ walk[d].at \in Room
      BY RoomTypes
    <3>3. WalkOK(walk[d], members[walk[d].at], Up, Entered)
      BY <3>1 DEF RoomInv, WalksOK
    <3>4. CASE walk[d].at = m
      BY <1>11, <1>12, <1>13, <3>1, <3>2, <3>3, <3>4, WalkJoined
    <3>5. CASE walk[d].at # m
      BY <1>12, <3>1, <3>2, <3>3, <3>5
    <3> QED
      BY <3>4, <3>5
  <2> QED
    BY <1>9, <1>11, <2>1, WalksLast
<1>19. TableOK'
  <2> SUFFICES ASSUME failed = {}
               PROVE  /\ \A d \in Names(members'[m]) : conn'[d].pc \in Staying
                      /\ \E d \in Conn : Leaver(d)'
    BY <1>1 DEF TableOK
  <2>1. Leaver(c)'
    BY <1>7 DEF Leaver, Staying
  <2>2. ASSUME NEW d \in Names(members'[m]) PROVE conn'[d].pc \in Staying
    <3>1. CASE d = c
      BY <1>7, <3>1 DEF Staying
    <3>2. CASE d # c
      <4>1. d \in Names(members[m])
        BY <1>14, <3>2
      <4>2. current # 0 /\ m = current
        BY <1>4, <1>5, <4>1 DEF Names
      <4>3. d \in Conn
        BY <1>3, <4>1, RoomTypes
      <4>4. conn[d].pc \in Staying
        BY <4>1, <4>2 DEF RoomInv, TableOK
      <4> QED
        BY <1>7, <3>2, <4>3, <4>4
    <3> QED
      BY <3>1, <3>2
  <2> QED
    BY <2>1, <2>2
<1> QED
  BY <1>10, <1>15, <1>16, <1>17, <1>18, <1>19 DEF RoomInv

\* Who is left are the others.
LEMMA WithoutNames ==
  ASSUME NEW list \in Seq(Conn), NEW gone
  PROVE  /\ Without(list, gone) \in Seq(Conn)
         /\ Names(Without(list, gone)) = Names(list) \ gone
         /\ Distinct(list) => Distinct(Without(list, gone))
         /\ list = <<>> => Without(list, gone) = <<>>
<1> DEFINE less == Without(list, gone)
<1>1. less \in Seq(Conn)
  BY WithoutKeeps
<1>2. PICK h : Shifts(h, list, gone)
  BY WithoutKeeps
<1>3. /\ h \in [DOMAIN less -> Kept(list, gone)]
      /\ \A n \in DOMAIN less : less[n] = list[h[n]]
      /\ \A n, k \in DOMAIN less : h[n] = h[k] => n = k
      /\ \A p \in Kept(list, gone) : \E n \in DOMAIN less : h[n] = p
  BY <1>2 DEF Shifts
<1> HIDE DEF less
<1>4. Names(less) = Names(list) \ gone
  <2>1. \A n \in DOMAIN less : less[n] \in Names(list) \ gone
    BY <1>3 DEF Kept, Names
  <2>2. ASSUME NEW p \in DOMAIN list, list[p] \notin gone
        PROVE  \E n \in DOMAIN less : less[n] = list[p]
    <3>1. p \in Kept(list, gone)
      BY <2>2 DEF Kept
    <3> QED
      BY <1>3, <3>1
  <2> QED
    BY <2>1, <2>2 DEF Names
<1>5. Distinct(list) => Distinct(less)
  BY <1>3 DEF Distinct, Kept
<1>6. ASSUME list = <<>> PROVE less = <<>>
  <2>1. Names(less) = {}
    BY <1>4, <1>6 DEF Names
  <2>2. less # <<>> => less[1] \in Names(less)
    BY <1>1 DEF Names
  <2> QED
    BY <2>1, <2>2
<1> QED
  BY <1>1, <1>4, <1>5, <1>6 DEF less

\* Connections leave a list under the walks of the others.
LEMMA RemovalKeeps ==
  ASSUME RoomInv, NEW m \in Room, NEW gone, members' = Removed(m, gone),
         made' = made, current' \in {0, current}, Up' = Up, Entered' = Entered,
         \A d \in Conn : conn'[d].pc = "walking" =>
           conn[d].pc = "walking" /\ walk'[d] = Disturbed(m, gone)[d]
  PROVE  /\ members' \in [Room -> Seq(Conn)]
         /\ Disturbed(m, gone) \in [Conn -> WalkRecord]
         /\ \A k \in Room : k # m => members'[k] = members[k]
         /\ Names(members'[m]) = Names(members[m]) \ gone
         /\ ListsOK'
         /\ WalksOK'
<1>1. /\ members \in [Room -> Seq(Conn)] /\ members[m] \in Seq(Conn)
      /\ walk \in [Conn -> WalkRecord]
      /\ current \in Room \union {0} /\ made \in Room \union {0} /\ Room \subseteq Nat
  BY RoomTypes
<1> DEFINE less == Without(members[m], gone)
<1>2. /\ less \in Seq(Conn) /\ Names(less) = Names(members[m]) \ gone
      /\ Distinct(members[m]) => Distinct(less)
      /\ members[m] = <<>> => less = <<>>
  BY <1>1, WithoutNames
<1>3. members' = [members EXCEPT ![m] = less]
  BY DEF Removed
<1> HIDE DEF less
<1>4. /\ members' \in [Room -> Seq(Conn)] /\ members'[m] = less
      /\ \A k \in Room : k # m => members'[k] = members[k]
  BY <1>1, <1>2, <1>3
<1>5. ListsOK'
  <2>1. \A k \in Room : Distinct(members'[k]) /\ Names(members'[k]) \subseteq Entered'
    BY <1>2, <1>4 DEF RoomInv, ListsOK
  <2>2. \A k \in Room : k > made' => members'[k] = <<>>
    BY <1>2, <1>4 DEF RoomInv, ListsOK
  <2>3. current' <= made'
    <3>1. current <= made /\ 0 <= made
      BY <1>1 DEF RoomInv, ListsOK
    <3> QED
      BY <3>1
  <2> QED
    BY <2>1, <2>2, <2>3 DEF ListsOK
<1>6. ASSUME NEW d \in Conn, Walking(d, m)
      PROVE  /\ Disturbed(m, gone)[d] \in WalkRecord
             /\ Disturbed(m, gone)[d].at = m
             /\ WalkOK(Disturbed(m, gone)[d], less, Up, Entered)
  <2>1. Disturbed(m, gone)[d] = [walk[d] EXCEPT !.owed = @ \ gone,
                                   !.removals = @ + Cardinality(gone \intersect Names(members[m]))]
    BY <1>6 DEF Disturbed, Members, Names
  <2>2. walk[d] \in WalkRecord /\ walk[d].at = m /\ conn[d].pc = "walking"
    BY <1>1, <1>6 DEF Walking
  <2>3. WalkOK(walk[d], members[m], Up, Entered) /\ Distinct(members[m])
    BY <2>2 DEF RoomInv, WalksOK, ListsOK
  <2>4. Disturbed(m, gone)[d] \in WalkRecord /\ WalkOK(Disturbed(m, gone)[d], less, Up, Entered)
    BY <1>1, <2>1, <2>2, <2>3, WalkDisturbed DEF less
  <2>5. Disturbed(m, gone)[d].at = m
    BY <2>1, <2>2 DEF WalkRecord
  <2> QED
    BY <2>4, <2>5
<1>7. ASSUME NEW d \in Conn, ~Walking(d, m)
      PROVE  Disturbed(m, gone)[d] = walk[d]
  BY <1>7 DEF Disturbed
<1>8. Disturbed(m, gone) \in [Conn -> WalkRecord]
  <2>1. \A d \in Conn : Disturbed(m, gone)[d] \in WalkRecord
    BY <1>1, <1>6, <1>7
  <2>2. Disturbed(m, gone) = [d \in Conn |-> Disturbed(m, gone)[d]]
    BY DEF Disturbed
  <2> QED
    BY <2>1, <2>2
<1>9. WalksOK'
  <2>1. ASSUME NEW d \in Conn, conn'[d].pc = "walking"
        PROVE  walk'[d] \in WalkRecord /\ WalkOK(walk'[d], members'[walk'[d].at], Up, Entered)
    <3>1. conn[d].pc = "walking" /\ walk'[d] = Disturbed(m, gone)[d]
      BY <2>1
    <3>2. CASE Walking(d, m)
      BY <1>4, <1>6, <3>1, <3>2
    <3>3. CASE ~Walking(d, m)
      <4>1. walk'[d] = walk[d] /\ walk[d].at # m /\ walk[d].at \in Room
        BY <1>7, <3>1, <3>3, RoomTypes DEF Walking
      <4> QED
        BY <1>1, <1>4, <3>1, <4>1 DEF RoomInv, WalksOK
    <3> QED
      BY <3>2, <3>3
  <2> QED
    BY <1>4, <2>1, WalksLast
<1> QED
  BY <1>2, <1>4, <1>5, <1>8, <1>9

LEMMA EndWalkKeeps ==
  ASSUME RoomInv, NEW c \in Conn, EndWalk(c)
  PROVE  RoomInv'
<1> DEFINE m == walk[c].at
<1>1. /\ conn[c].pc = "walking" /\ Goto(c, "open") /\ "open" \in Pc /\ m \in Room
      /\ members' = Removed(m, dead[m])
      /\ dead' = [dead EXCEPT ![m] = {}]
      /\ walk' = [Disturbed(m, dead[m]) EXCEPT ![c] = NoWalk]
      /\ UNCHANGED <<opened, current, made, failed>>
  BY RoomTypes DEF EndWalk, AtEnd, DropDead, Pc, Inside
<1> HIDE DEF m
<1>2. /\ conn' \in [Conn -> ConnRecord] /\ conn'[c].pc = "open" /\ Up' = Up
      /\ \A d \in Conn : conn'[d].up = conn[d].up /\ conn'[d].room = conn[d].room
      /\ \A d \in Conn : d # c => conn'[d] = conn[d]
  BY <1>1, Goes
<1>3. Entered' = Entered
  BY <1>1, <1>2 DEF Entered
<1>4. \A d \in Conn : conn'[d].pc = "walking" =>
        conn[d].pc = "walking" /\ walk'[d] = Disturbed(m, dead[m])[d]
  BY <1>1, <1>2 DEF Disturbed
<1>5. /\ members' \in [Room -> Seq(Conn)]
      /\ Disturbed(m, dead[m]) \in [Conn -> WalkRecord]
      /\ \A k \in Room : k # m => members'[k] = members[k]
      /\ Names(members'[m]) = Names(members[m]) \ dead[m]
      /\ ListsOK' /\ WalksOK'
  BY <1>1, <1>2, <1>3, <1>4, RemovalKeeps
<1>6. walk' \in [Conn -> WalkRecord]
  BY <1>1, <1>5, RoomTypes
<1>7. dead' \in [Room -> SUBSET Conn] /\ DeadAreDown'
  <2>1. dead \in [Room -> SUBSET Conn]
    BY RoomTypes
  <2> QED
    BY <1>1, <1>2, <2>1 DEF RoomInv, DeadAreDown
<1>8. TypeOK'
  BY <1>1, <1>2, <1>5, <1>6, <1>7 DEF RoomInv, TypeOK, ConnRecord, WalkRecord, Pc
<1>9. \A d \in Conn : conn'[d].pc \in Staying <=> conn[d].pc \in Staying
  BY <1>1, <1>2 DEF Staying
<1>10. StaysOK'
  <2> SUFFICES ASSUME NEW d \in Conn, d \in Up', conn'[d].pc \in Staying
               PROVE  d \in Names(members'[conn'[d].room])
    BY DEF StaysOK
  <2>1. d \in Up /\ d \in Names(members[conn[d].room])
    BY <1>2, <1>9 DEF RoomInv, StaysOK
  <2>2. d \notin dead[m]
    BY <1>1, <2>1 DEF RoomInv, DeadAreDown
  <2>3. conn'[d].room = conn[d].room /\ conn[d].room \in Room
    BY <1>2, RoomTypes
  <2>4. CASE conn[d].room = m
    <3>1. d \in Names(members'[m])
      BY <1>5, <2>1, <2>2, <2>4
    <3> QED
      BY <2>3, <2>4, <3>1
  <2>5. CASE conn[d].room # m
    <3>1. members'[conn[d].room] = members[conn[d].room]
      BY <1>5, <2>3, <2>5
    <3> QED
      BY <2>1, <2>3, <3>1
  <2> QED
    BY <2>4, <2>5
<1>11. TableOK'
  <2> SUFFICES ASSUME current # 0, failed = {}
               PROVE  /\ \A d \in Names(members'[current]) : conn'[d].pc \in Staying
                      /\ \E d \in Conn : Leaver(d)'
    BY <1>1 DEF TableOK
  <2>1. Leaver(c)'
    BY <1>2 DEF Leaver, Staying
  <2>2. current \in Room /\ Names(members[current]) \subseteq Conn
    BY RoomTypes
  <2>3. Names(members'[current]) \subseteq Names(members[current])
    BY <1>5, <2>2
  <2>4. \A d \in Names(members[current]) : conn[d].pc \in Staying
    BY DEF RoomInv, TableOK
  <2> QED
    BY <1>9, <2>1, <2>2, <2>3, <2>4
<1> QED
  BY <1>5, <1>7, <1>8, <1>10, <1>11 DEF RoomInv

\* A coroutine takes its own connection from the list of the room of the table.
LEMMA OwnRemoval ==
  ASSUME RoomInv, NEW c \in Conn, current # 0, conn[c].pc \in Staying,
         conn'[c].pc \in {"gone", "closing"}, conn' \in [Conn -> ConnRecord],
         conn[c].pc # "walking", \A d \in Conn : d # c => conn'[d] = conn[d],
         conn'[c].up = conn[c].up,
         members' = Removed(current, {c}), walk' = Disturbed(current, {c}),
         current' \in {0, current}, UNCHANGED <<opened, made, dead, failed>>
  PROVE  /\ TypeOK' /\ ListsOK' /\ DeadAreDown' /\ StaysOK' /\ WalksOK'
         /\ Names(members'[current]) = Names(members[current]) \ {c}
         /\ failed = {} => \A d \in Names(members'[current]) :
                             d \in Conn /\ d # c /\ conn'[d].pc \in Staying
<1>1. current \in Room /\ Names(members[current]) \subseteq Conn
  BY RoomTypes
<1>2. Up' = Up
  <2>1. \A d \in Conn : conn'[d].up = conn[d].up
    OBVIOUS
  <2> QED
    BY <2>1 DEF Up
<1>3. Entered' = Entered
  <2>1. \A d \in Conn : conn'[d].pc \notin {"outside", "accepted"} <=>
                        conn[d].pc \notin {"outside", "accepted"}
    BY DEF Staying
  <2> QED
    BY <2>1 DEF Entered
<1>4. \A d \in Conn : conn'[d].pc = "walking" =>
        conn[d].pc = "walking" /\ walk'[d] = Disturbed(current, {c})[d]
  OBVIOUS
<1>5. /\ members' \in [Room -> Seq(Conn)]
      /\ Disturbed(current, {c}) \in [Conn -> WalkRecord]
      /\ \A k \in Room : k # current => members'[k] = members[k]
      /\ Names(members'[current]) = Names(members[current]) \ {c}
      /\ ListsOK' /\ WalksOK'
  BY <1>1, <1>2, <1>3, <1>4, RemovalKeeps
<1>6. TypeOK'
  <2>1. current' \in Room \union {0}
    BY <1>1
  <2> QED
    BY <1>5, <2>1 DEF RoomInv, TypeOK, ConnRecord, WalkRecord, Pc
<1>7. DeadAreDown'
  BY <1>2 DEF RoomInv, DeadAreDown
<1>8. StaysOK'
  <2> SUFFICES ASSUME NEW d \in Conn, d \in Up', conn'[d].pc \in Staying
               PROVE  d \in Names(members'[conn'[d].room])
    BY DEF StaysOK
  <2>1. d # c /\ conn'[d] = conn[d]
    BY DEF Staying
  <2>2. d \in Names(members[conn[d].room]) /\ conn[d].room \in Room
    BY <1>2, <2>1, RoomTypes DEF RoomInv, StaysOK
  <2>3. d \in Names(members'[conn[d].room])
    BY <1>5, <2>1, <2>2
  <2> QED
    BY <2>1, <2>3
<1>9. ASSUME failed = {}, NEW d \in Names(members'[current])
      PROVE  d \in Conn /\ d # c /\ conn'[d].pc \in Staying
  <2>1. d \in Names(members[current]) /\ d # c
    BY <1>5
  <2>2. d \in Conn /\ conn[d].pc \in Staying
    BY <1>1, <1>9, <2>1 DEF RoomInv, TableOK
  <2> QED
    BY <2>1, <2>2
<1> QED
  BY <1>5, <1>6, <1>7, <1>8, <1>9

\* A coroutine goes without a room in the table.
LEMMA GoesAlone ==
  ASSUME RoomInv, NEW c \in Conn, current = 0, conn[c].pc \in {"open", "storing"},
         Goto(c, "gone"), UNCHANGED <<opened, current, made, members, dead, walk, failed>>
  PROVE  RoomInv'
<1>1. "gone" \in Pc
  BY DEF Pc
<1>2. /\ conn' \in [Conn -> ConnRecord] /\ conn'[c].pc = "gone" /\ Up' = Up
      /\ \A d \in Conn : conn'[d].up = conn[d].up /\ conn'[d].room = conn[d].room
      /\ \A d \in Conn : d # c => conn'[d] = conn[d]
  BY <1>1, Goes
<1>3. TypeOK'
  BY <1>2 DEF RoomInv, TypeOK, ConnRecord, Pc
<1>4. Entered' = Entered
  BY <1>2 DEF Entered
<1>5. ListsOK' /\ DeadAreDown' /\ StaysOK' /\ WalksOK'
  BY <1>2, <1>4, Quiet DEF Staying
<1>6. TableOK'
  BY DEF TableOK
<1> QED
  BY <1>3, <1>5, <1>6 DEF RoomInv

LEMMA LeaveKeeps ==
  ASSUME RoomInv, NEW c \in Conn, Leave(c)
  PROVE  RoomInv'
<1>1. CASE current = 0
  BY <1>1, GoesAlone DEF Leave
<1>2. CASE current # 0
  <2>1. /\ conn[c].pc = "open" /\ Goto(c, "gone") /\ "gone" \in Pc
        /\ members' = Removed(current, {c}) /\ walk' = Disturbed(current, {c})
        /\ current' = IF members'[current] = <<>> THEN 0 ELSE current
        /\ UNCHANGED <<opened, made, dead, failed>>
    BY <1>2 DEF Leave, PopIfEmpty, Pc
  <2>2. /\ conn' \in [Conn -> ConnRecord] /\ conn'[c].pc = "gone"
        /\ conn'[c].up = conn[c].up /\ \A d \in Conn : d # c => conn'[d] = conn[d]
    BY <2>1, Goes
  <2>3. /\ TypeOK' /\ ListsOK' /\ DeadAreDown' /\ StaysOK' /\ WalksOK'
        /\ failed = {} => \A d \in Names(members'[current]) :
                            d \in Conn /\ d # c /\ conn'[d].pc \in Staying
    BY <1>2, <2>1, <2>2, OwnRemoval DEF Staying
  <2>4. TableOK'
    <3> SUFFICES ASSUME current' # 0, failed = {}
                 PROVE  /\ \A d \in Names(members'[current']) : conn'[d].pc \in Staying
                        /\ \E d \in Conn : Leaver(d)'
      BY <2>1 DEF TableOK
    <3>1. current' = current /\ members'[current] # <<>>
      BY <2>1
    <3>2. members'[current] \in Seq(Conn)
      BY <1>2, <2>3, RoomTypes DEF TypeOK
    <3>3. members'[current][1] \in Names(members'[current])
      BY <3>1, <3>2 DEF Names
    <3> QED
      BY <2>3, <3>1, <3>3 DEF Leaver
  <2> QED
    BY <2>3, <2>4 DEF RoomInv
<1> QED
  BY <1>1, <1>2

LEMMA BreakKeeps ==
  ASSUME RoomInv, NEW c \in Conn, Break(c)
  PROVE  RoomInv'
<1>1. CASE current = 0
  BY <1>1, GoesAlone DEF Break
<1>2. CASE current # 0
  <2>1. /\ conn[c].pc \in {"open", "storing"}
        /\ conn' = [conn EXCEPT ![c].pc = "closing", ![c].room = current]
        /\ members' = Removed(current, {c}) /\ walk' = Disturbed(current, {c})
        /\ UNCHANGED <<opened, current, made, dead, failed>>
    BY <1>2 DEF Break
  <2>2. conn \in [Conn -> ConnRecord] /\ current \in Room
    BY <1>2, RoomTypes
  <2>3. /\ conn'[c].pc = "closing" /\ conn'[c].up = conn[c].up /\ conn'[c].room = current
        /\ \A d \in Conn : d # c => conn'[d] = conn[d]
    BY <2>1, <2>2 DEF ConnRecord
  <2>4. conn' \in [Conn -> ConnRecord]
    BY ZenonT(60), <2>1, <2>2 DEF ConnRecord, Pc, Inside
  <2>5. /\ TypeOK' /\ ListsOK' /\ DeadAreDown' /\ StaysOK' /\ WalksOK'
        /\ failed = {} => \A d \in Names(members'[current]) :
                            d \in Conn /\ d # c /\ conn'[d].pc \in Staying
    BY <1>2, <2>1, <2>3, <2>4, OwnRemoval DEF Staying
  <2>6. Leaver(c)'
    BY <2>1, <2>3 DEF Leaver
  <2>7. TableOK'
    BY <2>1, <2>5, <2>6 DEF TableOK
  <2> QED
    BY <2>5, <2>7 DEF RoomInv
<1> QED
  BY <1>1, <1>2

-----------------------------------------------------------------------------
(* The theorems.                                                           *)

LEMMA RoomStart == Init => RoomInv
<1> SUFFICES ASSUME Init PROVE RoomInv
  OBVIOUS
<1>1. MaxRoom \in Nat \ {0} /\ MaxMessage \in Nat
  BY DEF ChatRoomsAssumption
<1>2. 1 \in Room /\ \A m \in Room : m > 0
  BY <1>1 DEF Room
<1>3. \A c \in Conn : conn[c].pc = "outside"
  BY DEF Init
<1>4. \A m \in Room : members[m] = <<>> /\ dead[m] = {}
  BY DEF Init
<1>5. TypeOK
  <2>1. NoWalk \in [at : Room, next : Nat \ {0}, reached : SUBSET Conn,
                    owed : SUBSET Conn, removals : Nat]
    BY <1>2 DEF NoWalk
  <2>2. [pc |-> "outside", up |-> TRUE, room |-> 1, sent |-> 0] \in
          [pc : Inside \union {"outside", "accepted", "gone"},
           up : BOOLEAN, room : Room, sent : 0..MaxMessage]
    BY <1>1, <1>2
  <2>3. <<>> \in Seq(Conn)
    OBVIOUS
  <2> QED
    BY <2>1, <2>2, <2>3 DEF Init, TypeOK
<1>6. ListsOK
  BY <1>4 DEF ListsOK, Distinct, Names, Init
<1>7. DeadAreDown /\ StaysOK /\ WalksOK /\ TableOK
  BY <1>3, <1>4 DEF DeadAreDown, StaysOK, WalksOK, TableOK, Staying, Init
<1> QED
  BY <1>5, <1>6, <1>7 DEF RoomInv

LEMMA RoomStep == RoomInv /\ [Next]_vars => RoomInv'
<1> SUFFICES ASSUME RoomInv, [Next]_vars PROVE RoomInv'
  OBVIOUS
<1>1. ASSUME NEW c \in Conn, ConnNext(c) PROVE RoomInv'
  BY <1>1, AcceptKeeps, JoinKeeps, ConfirmKeeps, ReceiveKeeps, StoredKeeps, SendKeeps,
     EndWalkKeeps, LeaveKeeps, BreakKeeps, ClosedKeeps, CloseRaisesKeeps, CutKeeps
  DEF ConnNext
<1>2. CASE CloseConversation
  BY <1>2, CloseKeeps
<1>3. CASE UNCHANGED vars
  <2>1. /\ UNCHANGED <<opened, current, made, members, dead, conn, walk, failed>>
        /\ Up' = Up /\ Entered' = Entered
    BY <1>3 DEF vars, Up, Entered
  <2>2. ListsOK' /\ DeadAreDown' /\ StaysOK' /\ WalksOK'
    BY <2>1, Quiet
  <2>3. TableOK'
    BY <2>1, TableLasts
  <2> QED
    BY <2>1, <2>2, <2>3 DEF RoomInv, TypeOK
<1> QED
  BY <1>1, <1>2, <1>3 DEF Next

\* The inductive invariant holds, for any number of connections and rooms.
THEOREM RoomInvariant == Spec => []RoomInv
  BY RoomStart, RoomStep, PTL DEF Spec

\* Type correctness of ChatRooms.
THEOREM RoomTypeCorrect == Spec => []TypeOK
<1>1. RoomInv => TypeOK
  BY DEF RoomInv
<1> QED
  BY <1>1, RoomInvariant, PTL

\* A broadcast drops no live client, reaches nobody twice, and passes over at
\* most one client for each removal from the list it walks
\* (ChatRoom.broadcast and ChatRoom.leave).
THEOREM RoomBroadcast == Spec => []BroadcastReaches
<1>1. RoomInv => BroadcastReaches
  <2> SUFFICES ASSUME RoomInv PROVE BroadcastReaches
    OBVIOUS
  <2>1. LiveStays
    BY DEF RoomInv, StaysOK, LiveStays, Up, Staying, Names, Members
  <2>2. ReachedOnce
    BY DEF RoomInv, WalksOK, WalkOK, ReachedOnce
  <2>3. SkipsExplained
    <3> SUFFICES ASSUME NEW c \in Conn, AtEnd(c)
                 PROVE  Cardinality({o \in walk[c].owed : conn[o].up} \ walk[c].reached)
                          <= walk[c].removals
      BY DEF SkipsExplained
    <3> DEFINE list == members[walk[c].at]
    <3>1. /\ list \in Seq(Conn) /\ walk[c] \in WalkRecord
          /\ conn[c].pc = "walking" /\ walk[c].next > Len(list)
      BY RoomTypes DEF AtEnd
    <3>2. \A p \in DOMAIN list : p < walk[c].next
      BY <3>1 DEF WalkRecord
    <3>3. walk[c].owed \subseteq Conn
      BY <3>1 DEF WalkRecord
    <3>4. {o \in walk[c].owed : conn[o].up} \ walk[c].reached = Skipped(walk[c], list, Up)
      BY <3>2, <3>3 DEF Skipped, Up
    <3>5. Cardinality(Skipped(walk[c], list, Up)) <= walk[c].removals
      BY <3>1 DEF RoomInv, WalksOK, WalkOK
    <3> QED
      BY <3>4, <3>5
  <2> QED
    BY <2>1, <2>2, <2>3 DEF BroadcastReaches
<1> QED
  BY <1>1, RoomInvariant, PTL

\* A room stays in the table for a coroutine that will still leave it, unless a
\* join or a close raised (ChatManager.leave_room and the end of
\* connect_to_conversation).
THEOREM RoomKept == Spec => []RoomHasReason
<1>1. RoomInv => RoomHasReason
  BY DEF RoomInv, TableOK, Leaver, RoomHasReason, Staying, Inside
<1> QED
  BY <1>1, RoomInvariant, PTL

-----------------------------------------------------------------------------
(* The paged history.                                                      *)

\* The messages behind one in the history.
After(t, x) == Cardinality({y \in Places(t) : Precedes(t, x, y)})

\* A message that is due was read, or is on a page that is still to be read.
Covered(r) ==
  \A id \in r.due :
    \/ id \in r.got
    \/ \E x \in Places(r.ticket) :
         Message(r.ticket, x).id = id /\ (r.page - 1) * PageLimit <= After(r.ticket, x)

ReaderOK(r) ==
  /\ r.pc = "none" => r.due = {}
  /\ r.pc # "done" /\ r.steady => Covered(r)
  /\ r.pc = "done" /\ r.steady => r.due \subseteq r.got

\* The inductive invariant.
HistInv == HistTypeOK /\ \A u \in User : ReaderOK(reader[u])

Bounds == MaxTime \in Nat /\ MaxSaid \in Nat /\ MaxChats \in Nat /\ PageLimit \in Nat \ {0}

LEMMA BoundsHold == Bounds
  BY HistoryAssumption DEF Bounds

ChatsTyped == chats \in [Ticket -> Seq(Chat)]

\* The messages of a ticket are finitely many, and have a place and a time.
LEMMA PlacesFinite ==
  ASSUME ChatsTyped, NEW t \in Ticket
  PROVE  /\ IsFiniteSet(Places(t))
         /\ \A x \in Places(t) : /\ x = <<x[1], x[2]>> /\ x[1] \in Nat /\ x[2] \in Nat
                                 /\ x[1] \in DOMAIN chats[t]
                                 /\ x[2] \in DOMAIN chats[t][x[1]].messages
                                 /\ Message(t, x) \in Said
<1> DEFINE D == DOMAIN chats[t]
           part(p) == {p} \X DOMAIN chats[t][p].messages
           f == [p \in D |-> part(p)]
           parts == {part(p) : p \in D}
<1>1. /\ chats[t] \in Seq(Chat) /\ D = 1..Len(chats[t]) /\ Len(chats[t]) \in Nat
      /\ \A p \in D : chats[t][p].messages \in Seq(Said)
  <2>1. chats[t] \in Seq(Chat)
    BY DEF ChatsTyped
  <2>2. D = 1..Len(chats[t]) /\ Len(chats[t]) \in Nat
    BY <2>1
  <2>3. \A p \in D : chats[t][p] \in Chat
    BY <2>1
  <2> QED
    BY <2>1, <2>2, <2>3 DEF Chat
<1>2. ASSUME NEW p \in D PROVE IsFiniteSet(part(p))
  <2>1. DOMAIN chats[t][p].messages = 1..Len(chats[t][p].messages)
    BY <1>1
  <2>2. Len(chats[t][p].messages) \in Int
    BY <1>1
  <2>3. IsFiniteSet(DOMAIN chats[t][p].messages)
    BY <2>1, <2>2, FS_Interval
  <2>4. IsFiniteSet({p})
    BY FS_Singleton
  <2> QED
    BY <2>3, <2>4, FS_Product
<1>3. IsFiniteSet(D)
  BY <1>1, FS_Interval
<1>4. IsFiniteSet(parts)
  <2>1. f \in Surjection(D, parts)
    BY DEF Surjection
  <2> HIDE DEF f, D, parts
  <2> QED
    BY <1>3, <2>1, FS_Surjection
<1>5. IsFiniteSet(UNION parts)
  <2>1. \A T \in parts : IsFiniteSet(T)
    BY <1>2
  <2> HIDE DEF parts
  <2> QED
    BY <1>4, <2>1, FS_UNION
<1>6. Places(t) = UNION parts
  BY DEF Places
<1>7. ASSUME NEW x \in Places(t)
      PROVE  /\ x = <<x[1], x[2]>> /\ x[1] \in D
             /\ x[2] \in DOMAIN chats[t][x[1]].messages
  BY DEF Places
<1>8. ASSUME NEW x \in Places(t)
      PROVE  x[1] \in Nat /\ x[2] \in Nat /\ Message(t, x) \in Said
  BY <1>1, <1>7 DEF Message
<1> QED
  BY <1>5, <1>6, <1>7, <1>8

\* The order of the history, and how many messages are before one.
Order(t) == {xy \in Places(t) \X Places(t) : Precedes(t, xy[1], xy[2])}

LEMMA OrderTotal ==
  ASSUME ChatsTyped, NEW t \in Ticket
  PROVE  /\ \A x, y \in Places(t) : <<x, y>> \in Order(t) <=> Precedes(t, x, y)
         /\ Orders(Order(t), Places(t))
<1>1. \A x, y \in Places(t) : <<x, y>> \in Order(t) <=> Precedes(t, x, y)
  BY DEF Order
<1>2. \A x \in Places(t) : /\ x = <<x[1], x[2]>> /\ x[1] \in Nat /\ x[2] \in Nat
                           /\ Message(t, x).at \in Nat
  BY BoundsHold, PlacesFinite DEF Said, Bounds
<1>3. \A x \in Places(t) : ~Precedes(t, x, x)
  BY <1>2 DEF Precedes
<1>4. \A x, y, z \in Places(t) : Precedes(t, x, y) /\ Precedes(t, y, z) => Precedes(t, x, z)
  BY <1>2 DEF Precedes
<1>5. \A x, y \in Places(t) : x = y \/ Precedes(t, x, y) \/ Precedes(t, y, x)
  <2> SUFFICES ASSUME NEW x \in Places(t), NEW y \in Places(t),
                      ~Precedes(t, x, y), ~Precedes(t, y, x)
               PROVE  x = y
    OBVIOUS
  <2>1. Message(t, x).at = Message(t, y).at
    BY <1>2 DEF Precedes
  <2>2. x[1] = y[1] /\ x[2] = y[2]
    BY <1>2, <2>1 DEF Precedes
  <2> QED
    BY <1>2, <2>2
<1> QED
  BY <1>1, <1>3, <1>4, <1>5 DEF Orders

\* Where a message is in the history.
LEMMA HistoryOf ==
  ASSUME ChatsTyped, NEW t \in Ticket
  PROVE  /\ History(t) \in Seq(Said) /\ Len(History(t)) = Cardinality(Places(t))
         /\ \A n \in DOMAIN History(t) : \E x \in Places(t) : History(t)[n] = Message(t, x)
         /\ \A x \in Places(t) :
              /\ After(t, x) \in 0..(Len(History(t)) - 1)
              /\ History(t)[Len(History(t)) - After(t, x)] = Message(t, x)
<1> DEFINE N == Cardinality(Places(t))
           before(x) == Cardinality({y \in Places(t) : Precedes(t, y, x)})
           Which(n) == CHOOSE x \in Places(t) : before(x) = n - 1
<1>1. /\ IsFiniteSet(Places(t)) /\ N \in Nat
      /\ \A x \in Places(t) : Message(t, x) \in Said
  BY PlacesFinite, FS_CardinalityType
<1>2. \A x \in Places(t) : before(x) = Rank(Places(t), Order(t), x)
  <2> SUFFICES ASSUME NEW x \in Places(t) PROVE before(x) = Rank(Places(t), Order(t), x)
    OBVIOUS
  <2>1. {y \in Places(t) : Precedes(t, y, x)} = {y \in Places(t) : <<y, x>> \in Order(t)}
    BY OrderTotal
  <2> QED
    BY <2>1 DEF Rank
<1>3. /\ {Rank(Places(t), Order(t), x) : x \in Places(t)} = 0..(N - 1)
      /\ \A x, y \in Places(t) :
           Rank(Places(t), Order(t), x) = Rank(Places(t), Order(t), y) => x = y
  <2>1. /\ Numbered(Places(t), Order(t))
        /\ \A x, y \in Places(t) :
             Rank(Places(t), Order(t), x) = Rank(Places(t), Order(t), y) => x = y
    BY <1>1, OrderTotal, Ranks
  <2> QED
    BY <2>1 DEF Numbered
<1>4. /\ {before(x) : x \in Places(t)} = 0..(N - 1)
      /\ \A x, y \in Places(t) : before(x) = before(y) => x = y
  <2> HIDE DEF before, N
  <2> QED
    BY <1>2, <1>3
<1>5. History(t) = [n \in 1..N |-> Message(t, Which(n))]
  BY DEF History
<1>6. ASSUME NEW x \in Places(t)
      PROVE  After(t, x) \in 0..(N - 1) /\ N - After(t, x) = before(x) + 1
  <2> DEFINE L == {y \in Places(t) : Precedes(t, y, x)}
             G == {y \in Places(t) : Precedes(t, x, y)}
  <2>1. /\ L \in SUBSET Places(t) /\ G \in SUBSET Places(t)
        /\ x \notin L /\ x \notin G /\ L \intersect G = {}
        /\ L \union {x} \union G = Places(t)
    BY ZenonT(60), OrderTotal DEF Orders
  <2>2. /\ IsFiniteSet(L) /\ IsFiniteSet(G)
        /\ Cardinality(L) \in Nat /\ Cardinality(G) \in Nat
    BY <1>1, <2>1, FS_Subset, FS_CardinalityType
  <2>3. before(x) = Cardinality(L) /\ After(t, x) = Cardinality(G)
    BY DEF After
  <2> HIDE DEF L, G, before
  <2>4. IsFiniteSet(L \union {x}) /\ Cardinality(L \union {x}) = Cardinality(L) + 1
    BY <2>1, <2>2, FS_AddElement
  <2> DEFINE A == L \union {x}
  <2>5. A \intersect G = {} /\ A \union G = Places(t)
    BY <2>1
  <2>6. IsFiniteSet(A) /\ Cardinality(A) = Cardinality(L) + 1
    BY <2>4
  <2> HIDE DEF A
  <2>7. Cardinality(A \union G) = Cardinality(A) + Cardinality(G) - Cardinality(A \intersect G)
    BY <2>2, <2>6, FS_Union
  <2>8. Cardinality(A \intersect G) = 0
    BY <2>5, FS_EmptySet
  <2>9. N = Cardinality(A \union G)
    BY <2>5
  <2>10. N = Cardinality(L) + 1 + Cardinality(G)
    <3> HIDE DEF N
    <3> QED
      BY <1>1, <2>2, <2>6, <2>7, <2>8, <2>9
  <2> HIDE DEF N
  <2> QED
    BY <1>1, <2>2, <2>3, <2>10
<1>7. \A n \in 1..N : Which(n) \in Places(t) /\ before(Which(n)) = n - 1
  <2> SUFFICES ASSUME NEW n \in 1..N
               PROVE  Which(n) \in Places(t) /\ before(Which(n)) = n - 1
    OBVIOUS
  <2>1. n - 1 \in 0..(N - 1)
    BY <1>1
  <2> HIDE DEF before, N
  <2>2. \E x \in Places(t) : before(x) = n - 1
    BY <1>4, <2>1
  <2> QED
    BY <2>2
<1> HIDE DEF N
<1>8. History(t) \in Seq(Said) /\ Len(History(t)) = N /\ DOMAIN History(t) = 1..N
  <2>1. \A n \in 1..N : Message(t, Which(n)) \in Said
    BY <1>1, <1>7
  <2> HIDE DEF Which
  <2> QED
    BY <1>1, <1>5, <2>1
<1>9. \A n \in 1..N : History(t)[n] = Message(t, Which(n))
  BY <1>5
<1>10. ASSUME NEW x \in Places(t)
       PROVE  History(t)[N - After(t, x)] = Message(t, x)
  <2> DEFINE n == N - After(t, x)
  <2>1. n \in 1..N /\ n - 1 = before(x)
    <3>1. before(x) \in 0..(N - 1) /\ n = before(x) + 1
      BY <1>4, <1>6
    <3> HIDE DEF before, n
    <3> QED
      BY <1>1, <3>1
  <2> HIDE DEF n
  <2>2. Which(n) \in Places(t) /\ before(Which(n)) = before(x)
    BY <1>7, <2>1
  <2>3. Which(n) = x
    <3> HIDE DEF Which, before
    <3> QED
      BY <1>4, <2>2
  <2>4. History(t)[n] = Message(t, x)
    <3> HIDE DEF Which, before
    <3> QED
      BY <1>9, <2>1, <2>3
  <2> QED
    BY <2>4 DEF n
<1> HIDE DEF Which, before
<1> QED
  BY <1>6, <1>7, <1>8, <1>9, <1>10 DEF N

-----------------------------------------------------------------------------
(* What the steps of the conversations do to the history.                  *)

ReaderRecord == [pc : {"none", "asked", "next", "done"}, ticket : Ticket,
                 page : Nat \ {0}, got : SUBSET (1..MaxSaid),
                 due : SUBSET (1..MaxSaid), steady : BOOLEAN]

LEMMA HistTypes ==
  ASSUME HistTypeOK
  PROVE  /\ ChatsTyped
         /\ spoken \in 0..MaxSaid /\ now \in 0..MaxTime
         /\ coming \subseteq [ticket : Ticket, place : 1..MaxChats, said : Said]
         /\ ending \subseteq [ticket : Ticket, place : 1..MaxChats, seen : Chat]
         /\ reader \in [User -> ReaderRecord]
         /\ \A u \in User : reader[u] \in ReaderRecord
  BY DEF HistTypeOK, ChatsTyped, ReaderRecord

LEMMA InPlaces ==
  ASSUME NEW t
  PROVE  /\ \A x : x \in Places(t) <=>
              /\ x = <<x[1], x[2]>> /\ x[1] \in DOMAIN chats[t]
              /\ x[2] \in DOMAIN chats[t][x[1]].messages
         /\ \A x : x \in Places(t)' <=>
              /\ x = <<x[1], x[2]>> /\ x[1] \in DOMAIN chats'[t]
              /\ x[2] \in DOMAIN chats'[t][x[1]].messages
<1>1. \A x : x \in Places(t) <=>
              /\ x = <<x[1], x[2]>> /\ x[1] \in DOMAIN chats[t]
              /\ x[2] \in DOMAIN chats[t][x[1]].messages
  BY DEF Places
<1>2. \A x : x \in Places(t)' <=>
              /\ x = <<x[1], x[2]>> /\ x[1] \in DOMAIN chats'[t]
              /\ x[2] \in DOMAIN chats'[t][x[1]].messages
  BY DEF Places
<1> QED
  BY <1>1, <1>2

\* No message of the ticket is lost or changed.
Lasts(t) == \A x \in Places(t) : x \in Places(t)' /\ Message(t, x)' = Message(t, x)

\* A step that replaces one conversation by another.
Replaces(t, p, c) ==
  /\ p \in DOMAIN chats[t] => c \in Chat
  /\ chats' = [chats EXCEPT ![t] = [@ EXCEPT ![p] = c]]

Replaced(t, p, c) ==
  /\ \A s \in Ticket : s # t => chats'[s] = chats[s]
  /\ DOMAIN chats'[t] = DOMAIN chats[t]
  /\ \A q \in DOMAIN chats[t] : chats'[t][q] = IF q = p THEN c ELSE chats[t][q]

LEMMA ChatChanges ==
  ASSUME ChatsTyped, NEW t \in Ticket, NEW p, NEW c, Replaces(t, p, c)
  PROVE  ChatsTyped' /\ Replaced(t, p, c)
<1>1. chats \in [Ticket -> Seq(Chat)] /\ chats[t] \in Seq(Chat)
  BY DEF ChatsTyped
<1>2. chats'[t] = [chats[t] EXCEPT ![p] = c]
  BY <1>1 DEF Replaces
<1>3. chats'[t] \in Seq(Chat)
  <2> PICK N \in Nat : chats[t] \in [1..N -> Chat]
    BY <1>1
  <2>1. chats'[t] \in [1..N -> Chat]
    BY ZenonT(60), <1>2 DEF Replaces
  <2> QED
    BY <2>1
<1>4. chats' \in [Ticket -> Seq(Chat)] /\ \A s \in Ticket : s # t => chats'[s] = chats[s]
  BY <1>1, <1>2, <1>3 DEF Replaces
<1>5. DOMAIN chats'[t] = DOMAIN chats[t]
  BY <1>2
<1>6. \A q \in DOMAIN chats[t] : chats'[t][q] = IF q = p THEN c ELSE chats[t][q]
  BY <1>2
<1> QED
  BY <1>4, <1>5, <1>6 DEF ChatsTyped, Replaced

\* If the other one has the messages of the first, none is lost.
LEMMA ChangeLasts ==
  ASSUME ChatsTyped, NEW t \in Ticket, NEW p, NEW c, Replaces(t, p, c),
         p \in DOMAIN chats[t] =>
           \A k \in DOMAIN chats[t][p].messages :
             k \in DOMAIN c.messages /\ c.messages[k] = chats[t][p].messages[k]
  PROVE  \A s \in Ticket : Lasts(s)
<1>0. /\ \A s \in Ticket : s # t => chats'[s] = chats[s]
      /\ DOMAIN chats'[t] = DOMAIN chats[t]
      /\ \A q \in DOMAIN chats[t] : chats'[t][q] = IF q = p THEN c ELSE chats[t][q]
  BY ChatChanges DEF Replaced
<1> SUFFICES ASSUME NEW s \in Ticket, NEW x \in Places(s)
             PROVE  x \in Places(s)' /\ Message(s, x)' = Message(s, x)
  BY DEF Lasts
<1>1. /\ x = <<x[1], x[2]>> /\ x[1] \in DOMAIN chats[s]
      /\ x[2] \in DOMAIN chats[s][x[1]].messages
  BY InPlaces
<1>2. CASE s # t
  <2>1. chats'[s] = chats[s]
    BY <1>0, <1>2
  <2> QED
    BY <1>1, <2>1, InPlaces DEF Message
<1>3. CASE s = t
  <2>1. /\ DOMAIN chats'[t] = DOMAIN chats[t]
        /\ chats'[t][x[1]] = IF x[1] = p THEN c ELSE chats[t][x[1]]
    BY <1>0, <1>1, <1>3
  <2>2. /\ x[2] \in DOMAIN chats'[t][x[1]].messages
        /\ chats'[t][x[1]].messages[x[2]] = chats[t][x[1]].messages[x[2]]
    BY <1>1, <1>3, <2>1
  <2> QED
    BY <1>1, <1>3, <2>1, <2>2, InPlaces DEF Message
<1> QED
  BY <1>2, <1>3

LEMMA Finite == ChatsTyped => \A t \in Ticket : IsFiniteSet(Places(t))
  BY PlacesFinite

LEMMA FiniteNext == (ChatsTyped => \A t \in Ticket : IsFiniteSet(Places(t)))'
  BY Finite, PTL

\* What lasts keeps at least as many messages behind it.
LEMMA AfterGrows ==
  ASSUME ChatsTyped, ChatsTyped', NEW t \in Ticket, Lasts(t), NEW x \in Places(t)
  PROVE  /\ x \in Places(t)' /\ Message(t, x)' = Message(t, x)
         /\ After(t, x) \in Nat /\ After(t, x)' \in Nat /\ After(t, x) <= After(t, x)'
<1> DEFINE G == {y \in Places(t) : Precedes(t, x, y)}
           H == {y \in Places(t)' : Precedes(t, x, y)'}
<1>1. x \in Places(t)' /\ Message(t, x)' = Message(t, x)
  BY DEF Lasts
<1>2. G \subseteq H
  BY <1>1 DEF Lasts, Precedes
<1>3. IsFiniteSet(Places(t)) /\ IsFiniteSet(Places(t)')
  BY Finite, FiniteNext
<1>4. After(t, x) = Cardinality(G) /\ After(t, x)' = Cardinality(H)
  BY DEF After
<1>5. IsFiniteSet(G) /\ IsFiniteSet(H)
  BY <1>3, FS_Subset
<1> HIDE DEF G, H
<1>6. Cardinality(G) \in Nat /\ Cardinality(H) \in Nat /\ Cardinality(G) <= Cardinality(H)
  BY <1>2, <1>5, FS_CardinalityType, FS_Subset
<1> QED
  BY <1>1, <1>4, <1>6

LEMMA SameLasts == chats' = chats => \A t : Lasts(t)
  BY DEF Lasts, Places, Message

LEMMA PageSkips ==
  \A p \in Nat \ {0} : /\ (p - 1) * PageLimit \in Nat
                       /\ ((p + 1) - 1) * PageLimit = (p - 1) * PageLimit + PageLimit
<1>1. \A q \in Nat, n \in Nat : q * n \in Nat /\ (q + 1) * n = q * n + n
  OBVIOUS
<1> SUFFICES ASSUME NEW p \in Nat \ {0}
             PROVE  /\ (p - 1) * PageLimit \in Nat
                    /\ ((p + 1) - 1) * PageLimit = (p - 1) * PageLimit + PageLimit
  OBVIOUS
<1> PICK q \in Nat : q = p - 1
  OBVIOUS
<1>2. PageLimit \in Nat
  BY BoundsHold DEF Bounds
<1>3. (p + 1) - 1 = q + 1
  OBVIOUS
<1> QED
  BY <1>1, <1>2, <1>3

\* What a reader still has before him stays before him.
LEMMA CoveredLasts ==
  ASSUME ChatsTyped, ChatsTyped', NEW r \in ReaderRecord, Lasts(r.ticket), Covered(r)
  PROVE  Covered(r)'
<1> SUFFICES ASSUME NEW id \in r.due, id \notin r.got
             PROVE  \E x \in Places(r.ticket)' :
                      /\ Message(r.ticket, x)'.id = id
                      /\ (r.page - 1) * PageLimit <= After(r.ticket, x)'
  BY DEF Covered
<1>1. r.ticket \in Ticket /\ r.page \in Nat \ {0}
  BY DEF ReaderRecord
<1>2. PICK x \in Places(r.ticket) :
        Message(r.ticket, x).id = id /\ (r.page - 1) * PageLimit <= After(r.ticket, x)
  BY DEF Covered
<1>3. /\ x \in Places(r.ticket)' /\ Message(r.ticket, x)' = Message(r.ticket, x)
      /\ After(r.ticket, x) \in Nat /\ After(r.ticket, x)' \in Nat
      /\ After(r.ticket, x) <= After(r.ticket, x)'
  BY <1>1, AfterGrows
<1>4. (r.page - 1) * PageLimit \in Nat
  BY <1>1, PageSkips
<1>5. \A a, b, c \in Nat : a <= b /\ b <= c => a <= c
  OBVIOUS
<1>6. (r.page - 1) * PageLimit <= After(r.ticket, x)'
  BY <1>2, <1>3, <1>4, <1>5
<1> QED
  BY <1>2, <1>3, <1>6

LEMMA ReaderLasts ==
  ASSUME ChatsTyped, ChatsTyped', NEW r \in ReaderRecord, Lasts(r.ticket), ReaderOK(r)
  PROVE  ReaderOK(r)'
  BY CoveredLasts DEF ReaderOK

\* Steps of the conversations that lose no message.
LEMMA UnreadKeeps ==
  ASSUME HistInv, HistTypeOK', reader' = reader, \A t \in Ticket : Lasts(t)
  PROVE  HistInv'
<1>1. ChatsTyped /\ ChatsTyped' /\ \A u \in User : reader[u] \in ReaderRecord
  BY HistTypes DEF HistInv, HistTypeOK, ChatsTyped
<1> SUFFICES ASSUME NEW u \in User PROVE ReaderOK(reader[u])'
  BY DEF HistInv
<1> PICK r \in ReaderRecord : r = reader[u]
  BY <1>1
<1>2. ReaderOK(r) /\ r.ticket \in Ticket
  BY DEF HistInv, ReaderRecord
<1>3. ReaderOK(r)'
  BY <1>1, <1>2, ReaderLasts
<1> QED
  BY <1>3

LEMMA TickKeeps == HistInv /\ Tick => HistInv'
<1> SUFFICES ASSUME HistInv, Tick PROVE HistInv'
  OBVIOUS
<1>1. HistTypeOK'
  BY HistTypes, BoundsHold DEF HistInv, HistTypeOK, Tick, Bounds
<1> QED
  BY <1>1, SameLasts, UnreadKeeps DEF Tick

LEMMA MakeKeeps ==
  ASSUME HistInv, NEW t \in Ticket, NEW p \in 1..MaxChats, Make(t, p) PROVE HistInv'
<1>1. spoken' \in 1..MaxSaid /\ now \in 0..MaxTime
  BY HistTypes, BoundsHold DEF HistInv, Make, Bounds
<1> DEFINE m == [ticket |-> t, place |-> p, said |-> [id |-> spoken', at |-> now]]
<1>2. m \in [ticket : Ticket, place : 1..MaxChats, said : Said]
  BY <1>1 DEF Said
<1>3. coming' = coming \union {m} /\ UNCHANGED <<chats, ending, now, reader>>
  BY DEF Make
<1> HIDE DEF m
<1>4. HistTypeOK'
  BY <1>1, <1>2, <1>3, BoundsHold DEF HistInv, HistTypeOK, Bounds
<1> QED
  BY <1>3, <1>4, SameLasts, UnreadKeeps

LEMMA EndReadsKeeps ==
  ASSUME HistInv, NEW t \in Ticket, NEW p \in 1..MaxChats, EndReads(t, p) PROVE HistInv'
<1>1. chats[t] \in Seq(Chat) /\ p \in DOMAIN chats[t]
  BY HistTypes DEF HistInv, ChatsTyped, EndReads
<1> DEFINE m == [ticket |-> t, place |-> p, seen |-> chats[t][p]]
<1>2. m \in [ticket : Ticket, place : 1..MaxChats, seen : Chat]
  BY <1>1
<1>3. ending' = ending \union {m} /\ UNCHANGED <<chats, spoken, coming, now, reader>>
  BY DEF EndReads
<1> HIDE DEF m
<1>4. HistTypeOK'
  BY <1>2, <1>3 DEF HistInv, HistTypeOK
<1> QED
  BY <1>3, <1>4, SameLasts, UnreadKeeps

LEMMA AppendChatKeeps ==
  ASSUME HistInv, NEW t \in Ticket, NEW a \in Agent \union {NoAgent}, AppendChat(t, a)
  PROVE  HistInv'
<1>1. chats \in [Ticket -> Seq(Chat)] /\ chats[t] \in Seq(Chat)
  BY HistTypes DEF HistInv, ChatsTyped
<1>2. NewChat(a) \in Chat
  <2>1. NotEnded \in 0..NotEnded
    BY BoundsHold DEF NotEnded, Bounds
  <2>2. <<>> \in Seq(Said)
    OBVIOUS
  <2> QED
    BY <2>1, <2>2 DEF NewChat, Chat
<1>3. /\ chats' = [chats EXCEPT ![t] = Append(chats[t], NewChat(a))]
      /\ UNCHANGED <<spoken, coming, ending, now, reader>>
  BY DEF AppendChat
<1>4. chats' \in [Ticket -> Seq(Chat)]
  BY <1>1, <1>2, <1>3
<1>5. HistTypeOK'
  BY <1>3, <1>4 DEF HistInv, HistTypeOK
<1>6. ASSUME NEW s \in Ticket PROVE Lasts(s)
  <2> SUFFICES ASSUME NEW x \in Places(s)
               PROVE  x \in Places(s)' /\ Message(s, x)' = Message(s, x)
    BY DEF Lasts
  <2>1. /\ x = <<x[1], x[2]>> /\ x[1] \in DOMAIN chats[s]
        /\ x[2] \in DOMAIN chats[s][x[1]].messages
    BY InPlaces
  <2>2. \A q \in DOMAIN chats[s] : q \in DOMAIN chats'[s] /\ chats'[s][q] = chats[s][q]
    BY <1>1, <1>3
  <2> QED
    BY <2>1, <2>2, InPlaces DEF Message
<1> QED
  BY <1>3, <1>5, <1>6, UnreadKeeps

LEMMA SetAgentKeeps ==
  ASSUME HistInv, NEW t \in Ticket, NEW p \in 1..MaxChats, NEW a \in Agent, SetAgent(t, p, a)
  PROVE  HistInv'
<1>1. chats \in [Ticket -> Seq(Chat)] /\ chats[t] \in Seq(Chat) /\ p \in DOMAIN chats[t]
  BY HistTypes DEF HistInv, ChatsTyped, SetAgent
<1> DEFINE old == chats[t][p]
           c == [agent |-> a, ended |-> old.ended, messages |-> old.messages]
<1>2. old \in Chat
  BY <1>1
<1>3. c \in Chat /\ [old EXCEPT !.agent = a] = c
  BY <1>2 DEF Chat
<1>4. /\ chats' = [chats EXCEPT ![t] = [@ EXCEPT ![p] = c]]
      /\ UNCHANGED <<spoken, coming, ending, now, reader>>
  BY <1>3 DEF SetAgent
<1>5. c.messages = old.messages
  OBVIOUS
<1> HIDE DEF c
<1>6. Replaces(t, p, c) /\ ChatsTyped
  BY <1>1, <1>3, <1>4 DEF Replaces, ChatsTyped
<1>7. ChatsTyped' /\ \A s \in Ticket : Lasts(s)
  BY <1>5, <1>6, ChatChanges, ChangeLasts
<1>8. HistTypeOK'
  BY <1>4, <1>7 DEF HistInv, HistTypeOK, ChatsTyped
<1> QED
  BY <1>4, <1>7, <1>8, UnreadKeeps

LEMMA PushKeeps ==
  ASSUME HistInv, NEW x \in coming, Push(x) PROVE HistInv'
<1> DEFINE t == x.ticket
           p == x.place
           old == chats[t][p]
           c == [agent |-> old.agent, ended |-> old.ended,
                 messages |-> Append(old.messages, x.said)]
<1>1. chats \in [Ticket -> Seq(Chat)] /\ t \in Ticket /\ x.said \in Said
  BY HistTypes DEF HistInv, ChatsTyped, Push
<1>2. p \in DOMAIN chats[t] => /\ old \in Chat /\ old.messages \in Seq(Said)
                               /\ c \in Chat /\ [old EXCEPT !.messages = Append(@, x.said)] = c
  <2> SUFFICES ASSUME p \in DOMAIN chats[t]
               PROVE  /\ old \in Chat /\ old.messages \in Seq(Said) /\ c \in Chat
                      /\ [old EXCEPT !.messages = Append(@, x.said)] = c
    OBVIOUS
  <2>1. chats[t] \in Seq(Chat)
    BY <1>1
  <2>2. old \in Chat
    BY <2>1
  <2>3. old.messages \in Seq(Said)
    BY <2>2 DEF Chat
  <2>4. Append(old.messages, x.said) \in Seq(Said)
    BY <1>1, <2>3
  <2>5. \A m \in Seq(Said) :
          LET d == [agent |-> old.agent, ended |-> old.ended, messages |-> m]
          IN d \in Chat /\ [old EXCEPT !.messages = m] = d
    BY <2>2 DEF Chat
  <2> QED
    BY <2>2, <2>3, <2>4, <2>5
<1>3. /\ chats' = [chats EXCEPT ![t] = [@ EXCEPT ![p] = c]]
      /\ coming' = coming \ {x} /\ UNCHANGED <<spoken, ending, now, reader>>
  <2>1. chats' = [chats EXCEPT ![t] = [@ EXCEPT ![p] = [old EXCEPT !.messages = Append(@, x.said)]]]
    BY DEF Push
  <2>2. [chats[t] EXCEPT ![p] = [old EXCEPT !.messages = Append(@, x.said)]]
          = [chats[t] EXCEPT ![p] = c]
    BY <1>2
  <2> QED
    BY <2>1, <2>2 DEF Push
<1>4. p \in DOMAIN chats[t] =>
        \A k \in DOMAIN old.messages :
          k \in DOMAIN c.messages /\ c.messages[k] = old.messages[k]
  <2> SUFFICES ASSUME p \in DOMAIN chats[t], NEW k \in DOMAIN old.messages
               PROVE  k \in DOMAIN c.messages /\ c.messages[k] = old.messages[k]
    OBVIOUS
  <2>1. c.messages = Append(old.messages, x.said)
    OBVIOUS
  <2>2. old \in Chat
    BY <1>1
  <2>3. old.messages \in Seq(Said) /\ x.said \in Said
    BY <1>1, <2>2 DEF Chat
  <2> HIDE DEF c, old
  <2> PICK s : s = old.messages
    OBVIOUS
  <2>4. k \in DOMAIN Append(s, x.said) /\ Append(s, x.said)[k] = s[k]
    BY <2>3
  <2> QED
    BY <2>1, <2>4
<1> HIDE DEF c
<1>5. Replaces(t, p, c) /\ ChatsTyped
  BY <1>1, <1>2, <1>3 DEF Replaces, ChatsTyped
<1>6. ChatsTyped' /\ \A s \in Ticket : Lasts(s)
  <2> HIDE DEF t, p
  <2> QED
    BY <1>1, <1>4, <1>5, ChatChanges, ChangeLasts
<1>7. HistTypeOK'
  BY <1>3, <1>6 DEF HistInv, HistTypeOK, ChatsTyped
<1> QED
  BY <1>3, <1>6, <1>7, UnreadKeeps

LEMMA RestReading == NotReading \in ReaderRecord /\ ReaderOK(NotReading)
<1>1. (CHOOSE t \in Ticket : TRUE) \in Ticket
  BY HistoryAssumption
<1>2. NotReading \in ReaderRecord
  BY <1>1 DEF NotReading, ReaderRecord
<1>3. NotReading.pc = "none" /\ NotReading.due = {}
  BY DEF NotReading
<1> QED
  BY <1>2, <1>3 DEF ReaderOK, Covered

\* Steps of one reader.
LEMMA ReaderKeeps ==
  ASSUME HistInv, NEW u \in User, NEW r \in ReaderRecord, ReaderOK(r),
         reader' = [reader EXCEPT ![u] = r], UNCHANGED <<chats, spoken, coming, ending, now>>
  PROVE  HistInv'
<1>1. ChatsTyped /\ reader \in [User -> ReaderRecord]
  BY HistTypes DEF HistInv
<1>2. reader' \in [User -> ReaderRecord]
  BY <1>1
<1>3. HistTypeOK'
  BY <1>2 DEF HistInv, HistTypeOK, ReaderRecord
<1>4. ChatsTyped' /\ \A t : Lasts(t)
  BY <1>1, SameLasts DEF ChatsTyped
<1> SUFFICES ASSUME NEW w \in User PROVE ReaderOK(reader[w])'
  BY <1>3 DEF HistInv
<1> PICK s : s = reader'[w]
  OBVIOUS
<1>5. s \in ReaderRecord /\ ReaderOK(s)
  <2>1. CASE w = u
    BY <1>1, <2>1
  <2>2. CASE w # u
    BY <1>1, <2>2 DEF HistInv
  <2> QED
    BY <2>1, <2>2
<1>6. ReaderOK(s)'
  BY <1>1, <1>4, <1>5, ReaderLasts
<1> QED
  BY <1>6

LEMMA StopKeeps ==
  ASSUME HistInv, NEW u \in User, Refused(u) \/ Leaves(u) PROVE HistInv'
  BY RestReading, ReaderKeeps DEF Refused, Leaves

LEMMA AskKeeps ==
  ASSUME HistInv, NEW u \in User, NEW t \in Ticket, Ask(u, t) PROVE HistInv'
<1> PICK r : r = reader[u]
  OBVIOUS
<1> PICK s : s = [r EXCEPT !.pc = "asked", !.ticket = t]
  OBVIOUS
<1>1. r \in ReaderRecord
  BY HistTypes DEF HistInv
<1>2. /\ s \in ReaderRecord /\ s.pc = "asked" /\ s.ticket = t /\ s.page = r.page
      /\ s.due = r.due /\ s.got = r.got /\ s.steady = r.steady
  BY <1>1 DEF ReaderRecord
<1>3. /\ reader' = [reader EXCEPT ![u] = s]
      /\ UNCHANGED <<chats, spoken, coming, ending, now>>
  BY DEF Ask
<1>4. ReaderOK(s)
  <2>1. ReaderOK(r) /\ (r.pc = "none" \/ (r.pc = "next" /\ r.ticket = t))
    BY DEF HistInv, Ask
  <2>2. CASE r.pc = "none"
    BY <1>2, <2>1, <2>2 DEF ReaderOK, Covered
  <2>3. CASE r.pc = "next" /\ r.ticket = t
    BY <1>2, <2>1, <2>3 DEF ReaderOK, Covered
  <2> QED
    BY <2>1, <2>2, <2>3
<1> QED
  BY <1>2, <1>3, <1>4, ReaderKeeps

\* A save that drops a message unsettles the readers of the ticket.
LEMMA EndSavesKeeps ==
  ASSUME HistInv, NEW x \in ending, EndSaves(x) PROVE HistInv'
<1> DEFINE t == x.ticket
           p == x.place
           c == [agent |-> x.seen.agent, ended |-> now, messages |-> x.seen.messages]
<1>1. /\ chats \in [Ticket -> Seq(Chat)] /\ t \in Ticket /\ x.seen \in Chat
      /\ now \in 0..MaxTime /\ reader \in [User -> ReaderRecord]
  BY HistTypes DEF HistInv, ChatsTyped, EndSaves
<1>2. c \in Chat /\ [x.seen EXCEPT !.ended = now] = c
  <2>1. now \in 0..NotEnded
    BY <1>1, BoundsHold DEF NotEnded, Bounds
  <2>2. \A v \in Chat, e \in 0..NotEnded :
          LET d == [agent |-> v.agent, ended |-> e, messages |-> v.messages]
          IN d \in Chat /\ [v EXCEPT !.ended = e] = d
    BY DEF Chat
  <2> QED
    BY <1>1, <2>1, <2>2
<1>3. /\ chats' = [chats EXCEPT ![t] = [@ EXCEPT ![p] = c]]
      /\ ending' = ending \ {x} /\ UNCHANGED <<spoken, coming, now>>
  BY <1>2 DEF EndSaves
<1>4. c.messages = x.seen.messages
  OBVIOUS
<1> HIDE DEF c
<1>5. Replaces(t, p, c) /\ ChatsTyped
  BY <1>1, <1>2, <1>3 DEF Replaces, ChatsTyped
<1>6. ChatsTyped' /\ Replaced(t, p, c)
  BY <1>1, <1>5, ChatChanges
<1>7. x.seen.messages = chats[t][p].messages => \A s \in Ticket : Lasts(s)
  <2> SUFFICES ASSUME x.seen.messages = chats[t][p].messages
               PROVE  \A s \in Ticket : Lasts(s)
    OBVIOUS
  <2>1. \A k \in DOMAIN chats[t][p].messages :
          k \in DOMAIN c.messages /\ c.messages[k] = chats[t][p].messages[k]
    BY <1>4
  <2> HIDE DEF t, p
  <2> QED
    BY <1>1, <1>5, <2>1, ChangeLasts
<1>8. \A s \in Ticket : s # t => Lasts(s)
  BY <1>6, InPlaces DEF Replaced, Lasts, Message
<1> DEFINE After1(u) == IF reader[u].ticket = t /\ x.seen.messages # chats[t][p].messages
                        THEN [reader[u] EXCEPT !.steady = FALSE] ELSE reader[u]
<1>9. reader' = [u \in User |-> After1(u)]
  BY DEF EndSaves
<1>10. ASSUME NEW u \in User
       PROVE  After1(u) \in ReaderRecord
              /\ (ReaderOK(After1(u)) /\ (After1(u).steady => Lasts(After1(u).ticket)))
  <2>1. reader[u] \in ReaderRecord /\ ReaderOK(reader[u]) /\ reader[u].ticket \in Ticket
    BY <1>1 DEF HistInv, ReaderRecord
  <2>2. CASE reader[u].ticket = t /\ x.seen.messages # chats[t][p].messages
    <3> PICK s : s = After1(u)
      OBVIOUS
    <3>1. /\ s = [reader[u] EXCEPT !.steady = FALSE]
          /\ s \in ReaderRecord /\ ~s.steady /\ s.pc = reader[u].pc /\ s.due = reader[u].due
      BY <2>1, <2>2 DEF ReaderRecord
    <3>2. ReaderOK(s)
      BY <2>1, <3>1 DEF ReaderOK
    <3> QED
      BY <3>1, <3>2
  <2>3. CASE ~(reader[u].ticket = t /\ x.seen.messages # chats[t][p].messages)
    BY <1>7, <1>8, <2>1, <2>3
  <2> QED
    BY <2>2, <2>3
<1> HIDE DEF After1
<1>11. HistTypeOK'
  <2>1. reader' \in [User -> ReaderRecord]
    BY <1>9, <1>10
  <2> QED
    BY <1>3, <1>6, <2>1 DEF HistInv, HistTypeOK, ChatsTyped, ReaderRecord
<1> SUFFICES ASSUME NEW u \in User PROVE ReaderOK(reader[u])'
  BY <1>11 DEF HistInv
<1> PICK s : s = reader'[u]
  OBVIOUS
<1>12. s \in ReaderRecord /\ ReaderOK(s) /\ (s.steady => Lasts(s.ticket))
  BY <1>9, <1>10
<1>13. ReaderOK(s)'
  <2>1. CASE s.steady
    BY <1>5, <1>6, <1>12, <2>1, ReaderLasts
  <2>2. CASE ~s.steady
    BY <1>12, <2>2 DEF ReaderOK
  <2> QED
    BY <2>1, <2>2
<1> QED
  BY <1>13

LEMMA PageTyped ==
  ASSUME ChatsTyped, NEW t \in Ticket, NEW page \in Nat \ {0}
  PROVE  /\ Len(History(t)) \in Nat /\ Ceiling(t, page) \in Nat /\ Floor(t, page) \in Nat
         /\ Floor(t, page) <= Ceiling(t, page) /\ Ceiling(t, page) <= Len(History(t))
         /\ PageOf(t, page) \in Seq(Said)
         /\ Len(PageOf(t, page)) = Ceiling(t, page) - Floor(t, page)
         /\ \A k \in 1..Len(PageOf(t, page)) :
              PageOf(t, page)[k] = History(t)[Floor(t, page) + k]
<1> DEFINE N == Len(History(t))
           S == (page - 1) * PageLimit
<1>1. History(t) \in Seq(Said) /\ N \in Nat /\ DOMAIN History(t) = 1..N
  BY HistoryOf
<1>2. S \in Nat /\ PageLimit \in Nat
  BY PageSkips, BoundsHold DEF Bounds
<1>3. Ceiling(t, page) = AtLeast0(N - S)
  BY DEF Ceiling
<1> HIDE DEF N, S
<1>4. Ceiling(t, page) \in Nat /\ Ceiling(t, page) <= N
  BY <1>1, <1>2, <1>3 DEF AtLeast0
<1>5. Floor(t, page) \in Nat /\ Floor(t, page) <= Ceiling(t, page)
  BY <1>2, <1>4 DEF Floor, AtLeast0
<1> PICK f \in Nat, e \in Nat, h \in Seq(Said) :
       f = Floor(t, page) /\ e = Ceiling(t, page) /\ h = History(t)
  BY <1>1, <1>4, <1>5
<1>6. PageOf(t, page) = SubSeq(h, f + 1, e) /\ Len(h) = N /\ f <= e /\ e <= N
  BY <1>4, <1>5 DEF PageOf, N
<1>7. SubSeq(h, f + 1, e) = [k \in 1..(e - f) |-> h[f + k]]
  <2>1. SubSeq(h, f + 1, e) = [k \in 1..(e - (f + 1) + 1) |-> h[k + (f + 1) - 1]]
    BY SMTT(30)
  <2>2. e - (f + 1) + 1 = e - f /\ \A k \in 1..(e - f) : k + (f + 1) - 1 = f + k
    OBVIOUS
  <2> QED
    BY <2>1, <2>2
<1>8. \A k \in 1..(e - f) : h[f + k] \in Said
  BY <1>1, <1>6
<1>9. SubSeq(h, f + 1, e) \in Seq(Said) /\ Len(SubSeq(h, f + 1, e)) = e - f
  BY <1>6, <1>7, <1>8
<1> QED
  BY <1>1, <1>4, <1>5, <1>6, <1>7, <1>9 DEF N

\* What is before a reader is on the page he asked for or on a later one.
LEMMA PageHolds ==
  ASSUME ChatsTyped, NEW t \in Ticket, NEW page \in Nat \ {0}, NEW x \in Places(t),
         (page - 1) * PageLimit <= After(t, x)
  PROVE  \/ \E k \in DOMAIN PageOf(t, page) : PageOf(t, page)[k] = Message(t, x)
         \/ HasNext(t, page) /\ ((page + 1) - 1) * PageLimit <= After(t, x)
<1>1. PICK S, L, N, A, f, e : /\ S = (page - 1) * PageLimit /\ L = PageLimit
                              /\ N = Len(History(t)) /\ A = After(t, x)
                              /\ f = Floor(t, page) /\ e = Ceiling(t, page)
  OBVIOUS
<1>2. /\ S \in Nat /\ L \in Nat /\ ((page + 1) - 1) * PageLimit = S + L
      /\ (S + L <= A => ((page + 1) - 1) * PageLimit <= After(t, x))
  BY <1>1, PageSkips, BoundsHold DEF Bounds
<1>3. /\ N \in Nat /\ A \in Nat /\ A <= N - 1 /\ S <= A
      /\ History(t)[N - A] = Message(t, x)
  <2>1. N \in Nat /\ A \in 0..(N - 1) /\ History(t)[N - A] = Message(t, x)
    BY <1>1, HistoryOf, PageTyped
  <2>2. S <= A
    BY <1>1
  <2> QED
    BY <2>1, <2>2
<1>4. e = N - S /\ e \in Nat
  <2>1. e = AtLeast0(N - S)
    BY <1>1 DEF Ceiling
  <2>2. N - S > 0 /\ N - S \in Nat
    BY <1>2, <1>3
  <2> QED
    BY <2>1, <2>2 DEF AtLeast0
<1>5. f = AtLeast0(e - L) /\ (HasNext(t, page) <=> f > 0)
  BY <1>1 DEF Floor, HasNext
<1>6. f = (IF e - L > 0 THEN e - L ELSE 0) /\ f \in Nat
  BY <1>2, <1>4, <1>5 DEF AtLeast0
<1>7. CASE N - A > f
  <2>1. PICK k : k = N - A - f
    OBVIOUS
  <2>2. k \in Nat /\ k >= 1 /\ k <= N - S - f /\ f + k = N - A
    BY <1>2, <1>3, <1>6, <1>7, <2>1
  <2>3. k \in 1..(e - f)
    BY <1>2, <1>3, <1>4, <1>6, <2>2
  <2>4. /\ PageOf(t, page) \in Seq(Said) /\ Len(PageOf(t, page)) = e - f
        /\ \A n \in 1..(e - f) : PageOf(t, page)[n] = History(t)[f + n]
    BY <1>1, PageTyped
  <2>5. PageOf(t, page)[k] = Message(t, x) /\ k \in DOMAIN PageOf(t, page)
    BY <1>3, <2>2, <2>3, <2>4
  <2> QED
    BY <2>5
<1>8. CASE ~(N - A > f)
  <2>1. f > 0 /\ S + L <= A
    BY <1>2, <1>3, <1>4, <1>6, <1>8
  <2> QED
    BY <1>2, <1>5, <2>1
<1> QED
  BY <1>7, <1>8

\* What get_paginated_messages makes of a reader.
Turn(s, r, got, due, page, pc) ==
  /\ s = [r EXCEPT !.got = got, !.due = due, !.page = page, !.pc = pc]
  /\ r \in ReaderRecord /\ got \subseteq 1..MaxSaid /\ due \subseteq 1..MaxSaid
  /\ page \in Nat \ {0} /\ pc \in {"next", "done"}

LEMMA Turned ==
  ASSUME NEW s, NEW r, NEW got, NEW due, NEW page, NEW pc, Turn(s, r, got, due, page, pc)
  PROVE  /\ s \in ReaderRecord /\ s.ticket = r.ticket /\ s.got = got /\ s.due = due
         /\ s.page = page /\ s.steady = r.steady /\ s.pc = pc
<1> PICK q : q = [r EXCEPT !.got = got, !.due = due]
  OBVIOUS
<1>1. /\ q \in ReaderRecord /\ q.got = got /\ q.due = due
      /\ q.ticket = r.ticket /\ q.steady = r.steady
  BY DEF ReaderRecord, Turn
<1> PICK p : p = [q EXCEPT !.page = page]
  OBVIOUS
<1>2. /\ p \in ReaderRecord /\ p.page = page /\ p.got = q.got /\ p.due = q.due
      /\ p.ticket = q.ticket /\ p.steady = q.steady
  BY <1>1 DEF ReaderRecord, Turn
<1>3. s = [p EXCEPT !.pc = pc]
  BY DEF Turn
<1>4. /\ s \in ReaderRecord /\ s.page = p.page /\ s.pc = pc /\ s.got = p.got
      /\ s.due = p.due /\ s.ticket = p.ticket /\ s.steady = p.steady
  BY <1>2, <1>3 DEF ReaderRecord, Turn
<1> QED
  BY <1>1, <1>2, <1>4

LEMMA ReadPageKeeps ==
  ASSUME HistInv, NEW u \in User, ReadPage(u) PROVE HistInv'
<1> PICK r : r = reader[u]
  OBVIOUS
<1> PICK t, n, page, due : /\ t = r.ticket /\ n = r.page /\ page = PageOf(t, n)
                           /\ due = IF n = 1 THEN StoredIds(t) ELSE r.due
  OBVIOUS
<1>1. /\ ChatsTyped /\ r \in ReaderRecord /\ ReaderOK(r) /\ r.pc = "asked"
      /\ t \in Ticket /\ n \in Nat \ {0} /\ r.got \subseteq 1..MaxSaid
      /\ r.due \subseteq 1..MaxSaid
  <2>1. ChatsTyped /\ r \in ReaderRecord /\ ReaderOK(r) /\ r.pc = "asked"
    BY HistTypes DEF HistInv, ReadPage
  <2> QED
    BY <2>1 DEF ReaderRecord
<1>2. CASE PageFails(t, n)
  <2>1. /\ reader' = [reader EXCEPT ![u] = NotReading]
        /\ UNCHANGED <<chats, spoken, coming, ending, now>>
    BY <1>2 DEF ReadPage
  <2> QED
    BY <2>1, RestReading, ReaderKeeps
<1>3. CASE ~PageFails(t, n)
  <2>9. PICK got, next, pc :
        /\ got = r.got \union {page[k].id : k \in DOMAIN page}
        /\ next = IF HasNext(t, n) THEN n + 1 ELSE n
        /\ pc = IF HasNext(t, n) THEN "next" ELSE "done"
    OBVIOUS
  <2>10. PICK s : s = [r EXCEPT !.got = got, !.due = due, !.page = next, !.pc = pc]
    OBVIOUS
  <2>1. /\ reader' = [reader EXCEPT ![u] = s]
        /\ UNCHANGED <<chats, spoken, coming, ending, now>>
    BY <1>3, <2>9, <2>10 DEF ReadPage
  <2>2. page \in Seq(Said) /\ DOMAIN page = 1..Len(page)
    BY <1>1, PageTyped
  <2>3. got \in SUBSET (1..MaxSaid)
    <3>1. \A k \in DOMAIN page : page[k] \in Said
      BY <2>2
    <3>2. \A k \in DOMAIN page : page[k].id \in 1..MaxSaid
      BY <3>1 DEF Said
    <3> QED
      BY <1>1, <2>9, <3>2
  <2>4. due \in SUBSET (1..MaxSaid)
    <3>1. History(t) \in Seq(Said)
      BY <1>1, HistoryOf
    <3>2. \A k \in DOMAIN History(t) : History(t)[k] \in Said
      BY <3>1
    <3>3. \A k \in DOMAIN History(t) : History(t)[k].id \in 1..MaxSaid
      BY <3>2 DEF Said
    <3> QED
      BY <1>1, <3>3 DEF StoredIds
  <2>5. /\ s \in ReaderRecord /\ s.ticket = t /\ s.got = got /\ s.due = due
        /\ s.page = next /\ s.steady = r.steady /\ s.pc = pc
    <3>1. next \in Nat \ {0} /\ pc \in {"next", "done"}
      BY <1>1, <2>9
    <3>2. Turn(s, r, got, due, next, pc)
      BY <1>1, <2>3, <2>4, <2>10, <3>1 DEF Turn
    <3> QED
      BY <3>2, Turned
  <2>6. ASSUME r.steady, NEW id \in due, id \notin r.got
        PROVE  \E x \in Places(t) :
                 Message(t, x).id = id /\ (n - 1) * PageLimit <= After(t, x)
    <3>1. CASE n = 1
      <4>1. PICK k \in DOMAIN History(t) : History(t)[k].id = id
        BY <2>6, <3>1 DEF StoredIds
      <4>2. PICK x \in Places(t) : History(t)[k] = Message(t, x)
        BY <1>1, HistoryOf
      <4>3. After(t, x) \in Nat
        BY <1>1, HistoryOf, PageTyped
      <4>4. (1 - 1) * PageLimit = 0
        BY BoundsHold DEF Bounds
      <4> QED
        BY <3>1, <4>1, <4>2, <4>3, <4>4
    <3>2. CASE n # 1
      BY <1>1, <2>6, <3>2 DEF ReaderOK, Covered
    <3> QED
      BY <3>1, <3>2
  <2>11. r.got \subseteq got
    BY <2>9
  <2>7. ASSUME r.steady, NEW id \in due, id \notin got
        PROVE  HasNext(t, n) /\ \E x \in Places(t) :
                 Message(t, x).id = id /\ ((n + 1) - 1) * PageLimit <= After(t, x)
    <3>1. PICK x \in Places(t) :
            Message(t, x).id = id /\ (n - 1) * PageLimit <= After(t, x)
      BY <2>6, <2>7, <2>11
    <3>2. ~\E k \in DOMAIN page : page[k] = Message(t, x)
      BY <2>7, <2>9, <3>1
    <3>3. HasNext(t, n) /\ ((n + 1) - 1) * PageLimit <= After(t, x)
      BY <1>1, <3>1, <3>2, PageHolds
    <3> QED
      BY <3>1, <3>3
  <2>8. ReaderOK(s)
    <3>1. CASE HasNext(t, n)
      BY <2>5, <2>7, <2>9, <3>1 DEF ReaderOK, Covered
    <3>2. CASE ~HasNext(t, n)
      BY <2>5, <2>7, <2>9, <3>2 DEF ReaderOK
    <3> QED
      BY <3>1, <3>2
  <2> QED
    BY <2>1, <2>5, <2>8, ReaderKeeps
<1> QED
  BY <1>2, <1>3

LEMMA HistStart == HistInit => HistInv
<1> SUFFICES ASSUME HistInit PROVE HistInv
  OBVIOUS
<1>1. NotReading \in ReaderRecord /\ ReaderOK(NotReading)
  BY RestReading
<1>2. HistTypeOK
  <2>1. <<>> \in Seq(Chat)
    OBVIOUS
  <2> QED
    BY <1>1, <2>1, BoundsHold DEF HistInit, HistTypeOK, ReaderRecord, Bounds
<1>3. \A u \in User : reader[u] = NotReading
  BY DEF HistInit
<1> QED
  BY <1>1, <1>2, <1>3 DEF HistInv

LEMMA HistStep == HistInv /\ [HistNext]_histVars => HistInv'
<1> SUFFICES ASSUME HistInv, [HistNext]_histVars PROVE HistInv'
  OBVIOUS
<1>1. CASE Tick
  BY <1>1, TickKeeps
<1>2. ASSUME NEW t \in Ticket, NEW a \in Agent \union {NoAgent}, AppendChat(t, a)
      PROVE  HistInv'
  BY <1>2, AppendChatKeeps
<1>3. ASSUME NEW t \in Ticket, NEW p \in 1..MaxChats,
             (\E a \in Agent : SetAgent(t, p, a)) \/ Make(t, p) \/ EndReads(t, p)
      PROVE  HistInv'
  BY <1>3, SetAgentKeeps, MakeKeeps, EndReadsKeeps
<1>4. ASSUME NEW x \in coming, Push(x) PROVE HistInv'
  BY <1>4, PushKeeps
<1>5. ASSUME NEW x \in ending, EndSaves(x) PROVE HistInv'
  BY <1>5, EndSavesKeeps
<1>6. ASSUME NEW u \in User,
             (\E t \in Ticket : Ask(u, t)) \/ Refused(u) \/ ReadPage(u) \/ Leaves(u)
      PROVE  HistInv'
  BY <1>6, AskKeeps, StopKeeps, ReadPageKeeps
<1>7. CASE UNCHANGED histVars
  <2>1. reader' = reader /\ chats' = chats /\ HistTypeOK'
    BY <1>7 DEF histVars, HistInv, HistTypeOK
  <2> QED
    BY <2>1, SameLasts, UnreadKeeps
<1> QED
  BY <1>1, <1>2, <1>3, <1>4, <1>5, <1>6, <1>7 DEF HistNext

\* The inductive invariant of the readers: as long as no message was dropped,
\* what is due has been read or is on a page they have still to ask for.
THEOREM HistoryInvariant == HistSpec => []HistInv
  BY HistStart, HistStep, PTL DEF HistSpec

\* Type correctness of ChatHistory.
THEOREM HistoryTypeCorrect == HistSpec => []HistTypeOK
<1>1. HistInv => HistTypeOK
  BY DEF HistInv
<1> QED
  BY <1>1, HistoryInvariant, PTL

\* Whoever pages back to the beginning has seen every message that was there
\* when he began (get_paginated_messages), for any number of messages and
\* readers and any length of the pages.
THEOREM HistoryRead == HistSpec => []HistoryWhole
<1>1. HistInv => HistoryWhole
  BY DEF HistInv, ReaderOK, HistoryWhole
<1> QED
  BY <1>1, HistoryInvariant, PTL

-----------------------------------------------------------------------------
(* The lists and the search.                                               *)

\* A finite set of conversations has a first one by score, then by number.
Outranks(score, p, q) == score[q] < score[p] \/ (score[q] = score[p] /\ q < p)

LEMMA FirstOf ==
  ASSUME NEW S \in SUBSET Nat, IsFiniteSet(S), S # {}, NEW score \in [S -> Nat]
  PROVE  \E q \in S : {p \in S : \A o \in S : score[o] < score[p]
                                               \/ (score[o] = score[p] /\ o <= p)} = {q}
<1> DEFINE R == {pq \in S \X S : Outranks(score, pq[1], pq[2])}
<1>1. \A p, q \in S : <<p, q>> \in R <=> Outranks(score, p, q)
  OBVIOUS
<1>2. \A p \in S : p \in Nat /\ score[p] \in Nat
  OBVIOUS
<1>3. \A p \in S : ~Outranks(score, p, p)
  BY <1>2 DEF Outranks
<1>4. \A p, q, o \in S : Outranks(score, p, q) /\ Outranks(score, q, o) => Outranks(score, p, o)
  BY <1>2 DEF Outranks
<1>5. \A p, q \in S : p = q \/ Outranks(score, p, q) \/ Outranks(score, q, p)
  BY <1>2 DEF Outranks
<1> HIDE DEF R
<1>6. Orders(R, S)
  BY <1>1, <1>3, <1>4, <1>5 DEF Orders
<1>7. {Rank(S, R, p) : p \in S} = 0..(Cardinality(S) - 1)
  <2>1. Numbered(S, R)
    BY <1>6, Ranks
  <2> QED
    BY <2>1 DEF Numbered
<1>8. Cardinality(S) \in Nat /\ Cardinality(S) # 0
  BY FS_CardinalityType, FS_EmptySet
<1>9. 0 \in 0..(Cardinality(S) - 1)
  BY <1>8
<1>10. PICK q \in S : Rank(S, R, q) = 0
  BY <1>7, <1>9
<1>11. {o \in S : <<o, q>> \in R} = {}
  <2>1. IsFiniteSet({o \in S : <<o, q>> \in R})
    BY FS_Subset
  <2> QED
    BY <1>10, <2>1, FS_EmptySet DEF Rank
<1>12. \A o \in S : o = q \/ Outranks(score, q, o)
  BY <1>1, <1>5, <1>11
<1>13. \A p \in S : (\A o \in S : score[o] < score[p] \/ (score[o] = score[p] /\ o <= p)) <=> p = q
  BY <1>2, <1>12 DEF Outranks
<1> QED
  BY <1>13

LEMMA ScoreTyped == \A c \in Chat : MatchScore(c) \in Nat
<1> SUFFICES ASSUME NEW c \in Chat PROVE MatchScore(c) \in Nat
  OBVIOUS
<1>1. c.messages \in Seq(Said)
  BY DEF Chat
<1>2. DOMAIN c.messages = 1..Len(c.messages) /\ Len(c.messages) \in Int
  BY <1>1
<1>3. IsFiniteSet(DOMAIN c.messages)
  BY <1>2, FS_Interval
<1>4. IsFiniteSet({k \in DOMAIN c.messages : c.messages[k].id \in Matching})
  BY <1>3, FS_Subset
<1> QED
  BY <1>4, FS_CardinalityType DEF MatchScore

\* The search finds exactly one conversation of a ticket, one of its scope,
\* whenever one matches.
LEMMA FoundOne ==
  ASSUME ChatsTyped, NEW t \in Ticket, NEW u, NEW p \in DOMAIN chats[t],
         InScope(u, chats[t][p]), MatchScore(chats[t][p]) > 0
  PROVE  \E q \in DOMAIN chats[t] : Found(u, t) = {q} /\ InScope(u, chats[t][q])
<1> DEFINE S == {q \in DOMAIN chats[t] : InScope(u, chats[t][q]) /\ MatchScore(chats[t][q]) > 0}
           score == [q \in S |-> MatchScore(chats[t][q])]
<1>1. chats[t] \in Seq(Chat) /\ DOMAIN chats[t] = 1..Len(chats[t]) /\ Len(chats[t]) \in Nat
  BY DEF ChatsTyped
<1>2. S \in SUBSET Nat /\ IsFiniteSet(S) /\ S # {}
  <2>1. IsFiniteSet(DOMAIN chats[t])
    BY <1>1, FS_Interval
  <2> QED
    BY <1>1, <2>1, FS_Subset
<1>3. score \in [S -> Nat]
  BY <1>1, ScoreTyped
<1>4. Found(u, t) = {q \in S : \A o \in S : score[o] < score[q]
                                            \/ (score[o] = score[q] /\ o <= q)}
  BY DEF Found
<1>5. \A q \in S : q \in DOMAIN chats[t] /\ InScope(u, chats[t][q])
  OBVIOUS
<1> HIDE DEF S, score
<1>6. PICK q \in S : {p1 \in S : \A o \in S : score[o] < score[p1]
                                 \/ (score[o] = score[p1] /\ o <= p1)} = {q}
  BY <1>2, <1>3, FirstOf
<1> QED
  BY <1>4, <1>5, <1>6

LEMMA Offers ==
  ASSUME ChatsTyped, NEW t \in Ticket, NEW p \in DOMAIN chats[t],
         NEW u \in Agent \union {Admin}
  PROVE  LET c == chats[t][p] IN
         /\ Listed(u, c) => /\ (CanJoinLive(u, c) <=> Admitted(u, c))
                            /\ NeedsAssume(u, c) => Assumable(u, c)
                            /\ CanJoinLive(u, c) \/ NeedsAssume(u, c)
         /\ Admitted(u, c) => Listed(u, c)
         /\ MatchScore(c) > 0 /\ (u = Admin \/ u \in Participants(c)) =>
              \E q \in DOMAIN chats[t] :
                Found(u, t) = {q} /\ (u = Admin \/ u \in Participants(chats[t][q]))
<1> PICK c : c = chats[t][p]
  OBVIOUS
<1>1. \A q \in DOMAIN chats[t] : chats[t][q] \in Chat
  BY DEF ChatsTyped
<1>2. \A q \in DOMAIN chats[t] :
        u \in Agent => (u \in Participants(chats[t][q]) <=> chats[t][q].agent = u)
  BY <1>1, HistoryAssumption DEF Participants
<1>3. u = Admin \/ (u \in Agent /\ u # Client)
  BY HistoryAssumption
<1>4. u = Admin \/ u \in Participants(c) <=> u = Admin \/ c.agent = u
  BY <1>2, <1>3
<1>5. /\ Listed(u, c) => /\ (CanJoinLive(u, c) <=> Admitted(u, c))
                         /\ NeedsAssume(u, c) => Assumable(u, c)
                         /\ CanJoinLive(u, c) \/ NeedsAssume(u, c)
      /\ Admitted(u, c) => Listed(u, c)
  BY <1>4 DEF Listed, CanJoinLive, Admitted, NeedsAssume, Assumable
<1>6. ASSUME MatchScore(c) > 0, u = Admin \/ u \in Participants(c)
      PROVE  \E q \in DOMAIN chats[t] :
               Found(u, t) = {q} /\ (u = Admin \/ u \in Participants(chats[t][q]))
  <2>1. InScope(u, c)
    BY <1>4, <1>6 DEF InScope
  <2>2. PICK q \in DOMAIN chats[t] : Found(u, t) = {q} /\ InScope(u, chats[t][q])
    BY <1>6, <2>1, FoundOne
  <2>3. u = Admin \/ u \in Participants(chats[t][q])
    BY <1>2, <1>3, <2>2 DEF InScope
  <2> QED
    BY <2>2, <2>3
<1> QED
  BY <1>5, <1>6

\* What the list of active conversations and the search offer, the other routes
\* accept (get_active_conversations, search_conversation_by_text).
THEOREM HistoryOffers == HistSpec => []OffersHold
<1>1. HistInv => OffersHold
  BY HistTypes, Offers DEF HistInv, OffersHold
<1> QED
  BY <1>1, HistoryInvariant, PTL

=============================================================================
