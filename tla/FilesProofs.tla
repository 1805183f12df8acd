----------------------------- MODULE FilesProofs ----------------------------
(***************************************************************************)
(* Proofs about Files: for any number of files and requests, any traffic   *)
(* and every failure of the model, an uploaded chat file is stored, a row  *)
(* given up or purged has no object, and a replaced avatar is retired.     *)
(***************************************************************************)
EXTENDS Files, TLAPS

USE FilesAssumption

Actor == Request \union Worker

JobRecord ==
  [pc : {"idle", "probe", "mark", "read", "write", "clean", "promote", "fail",
         "remove", "stamp"},
   op : {"none", "confirm", "delete", "set_avatar", "clear_avatar"} \union Worker,
   file : SUBSET File, previous : SUBSET File]

\* A chat file has the key of its own that no other row has.
OwnKey(f) ==
  /\ row[f].context = "live_chat_message" => row[f].key = f
  /\ row[f].context = "user_avatar" => row[f].key \in Extension

\* The URL of a row that was given up or purged does not open again.
Shut(f) ==
  /\ row[f].status = "absent" => ~row[f].open /\ ~row[f].purged /\ f \notin worn
  /\ row[f].purged => row[f].status = "deleted"
  /\ row[f].status = "failed" \/ row[f].purged => ~row[f].open

\* What a probe found holds until the mark, or the row is deleted by then.
ProbeHolds(j, f) ==
  row[f].context = "live_chat_message" =>
    /\ job[j].pc = "mark" /\ job[j].op = "confirm" => f \in store \/ row[f].status = "deleted"
    /\ job[j].pc = "promote" => f \in store \/ row[f].status = "deleted"
    /\ job[j].pc \in {"fail", "stamp"} => f \notin store

\* Only the workers come to the steps that need a closed URL.
OnRow(j, f) ==
  f \in job[j].file =>
    /\ row[f].status # "absent"
    /\ job[j].pc \in {"promote", "fail"} => ~row[f].open
    /\ job[j].pc \in {"remove", "stamp"} => ~row[f].open /\ row[f].status = "deleted"
    /\ ProbeHolds(j, f)

\* Each actor works on operations of its own.
OwnOps ==
  /\ \A q \in Request : job[q].pc \notin {"promote", "fail", "remove", "stamp"}
  /\ job["cleanup"].pc \in {"idle", "probe", "promote", "fail"}
  /\ job["cleanup"].pc # "idle" => \A f \in job["cleanup"].file : ~row[f].open
  /\ job["retention"].pc \in {"idle", "mark"} /\ job["retention"].op # "confirm"
  /\ job["purge"].pc \in {"idle", "remove", "stamp"}

\* The inductive invariant.
FilesInv ==
  /\ TypeOK
  /\ OwnOps
  /\ \A f \in File : OwnKey(f) /\ Shut(f)
  /\ \A j \in Actor, f \in File : OnRow(j, f)
  /\ UploadedIsStored
  /\ NoOrphans
  /\ ReplacedRetired

-----------------------------------------------------------------------------
\* One file and one actor of the invariant.
LEMMA InvFacts ==
  ASSUME FilesInv, NEW j \in Actor, NEW f \in File
  PROVE  /\ row[f] \in Row /\ job[j] \in JobRecord
         /\ OwnKey(f) /\ Shut(f) /\ OnRow(j, f)
  BY DEF FilesInv, TypeOK, Actor, JobRecord

\* Nothing is uploaded, and nobody works.
LEMMA FilesInitially == Init => FilesInv
<1> SUFFICES ASSUME Init PROVE FilesInv
  OBVIOUS
<1>1. TypeOK
  BY DEF Init, TypeOK, Row, Context, IdleJob
<1>2. OwnOps
  BY DEF Init, OwnOps, IdleJob, Worker
<1>3. \A f \in File : OwnKey(f) /\ Shut(f)
  BY DEF Init, OwnKey, Shut
<1>4. \A j \in Actor, f \in File : OnRow(j, f)
  BY DEF Init, OnRow, IdleJob, Actor
<1>5. UploadedIsStored /\ NoOrphans /\ ReplacedRetired
  BY DEF Init, UploadedIsStored, NoOrphans, ReplacedRetired, ChatFile
<1> QED
  BY <1>1, <1>2, <1>3, <1>4, <1>5 DEF FilesInv

\* A step of one actor that leaves the rows, the objects and the avatar
\* alone; what it says of its own row must hold.
LEMMA JobMoves ==
  ASSUME FilesInv, NEW j \in Actor, NEW x \in JobRecord,
         job' = [job EXCEPT ![j] = x],
         UNCHANGED <<row, store, avatar, worn, mix>>,
         dropped \subseteq dropped', dropped' \subseteq File,
         OwnOps',
         \A f \in File : OnRow(j, f)',
         job[j].pc = "clean" => job[j].previous \subseteq dropped'
  PROVE  FilesInv'
<1>1. TypeOK'
  BY DEF FilesInv, TypeOK, Actor, JobRecord
<1>2. \A k \in Actor : k # j => job'[k] = job[k]
  BY DEF FilesInv, TypeOK, Actor
<1>3. \A f \in File : (OwnKey(f) /\ Shut(f))'
  BY DEF FilesInv, OwnKey, Shut
<1>4. ASSUME NEW k \in Actor, NEW f \in File PROVE OnRow(k, f)'
  <2>1. CASE k = j
    BY <2>1
  <2>2. CASE k # j
    BY <1>2, <2>2, InvFacts DEF OnRow, ProbeHolds
  <2> QED
    BY <2>1, <2>2
<1>5. UploadedIsStored' /\ NoOrphans'
  BY DEF FilesInv, UploadedIsStored, NoOrphans, ChatFile
<1>6. ReplacedRetired'
  <2> SUFFICES ASSUME NEW f \in worn \ (avatar \union dropped'), NotDeleted(f)
               PROVE  \E q \in Request : job'[q].pc = "clean" /\ f \in job'[q].previous
    BY DEF ReplacedRetired, NotDeleted
  <2>1. PICK q \in Request : job[q].pc = "clean" /\ f \in job[q].previous
    BY DEF FilesInv, ReplacedRetired
  <2>2. q # j
    BY <2>1
  <2> QED
    BY <1>2, <2>1, <2>2 DEF Actor
<1> QED
  BY <1>1, <1>3, <1>4, <1>5, <1>6 DEF FilesInv

\* Row f with a new status, URL and stamp.
Becomes(f, status, open, purged) ==
  row'[f] = [status |-> status, context |-> row[f].context, key |-> row[f].key,
             open |-> open, purged |-> purged]

\* What a statement may do to row f.
RowMoves(f) ==
  LET stored == row[f].context = "live_chat_message" => f \in store
      gone   == ~row[f].open /\ (row[f].context = "live_chat_message" => f \notin store)
  IN \/ row'[f] = row[f]
     \/ row[f].status # "absent" /\ Becomes(f, row[f].status, FALSE, row[f].purged)
     \/ NotDeleted(f) /\ Becomes(f, "deleted", row[f].open, row[f].purged)
     \/ IsPending(f) /\ stored /\ Becomes(f, "uploaded", row[f].open, row[f].purged)
     \/ IsPending(f) /\ gone /\ Becomes(f, "failed", row[f].open, row[f].purged)
     \/ ToPurge(f) /\ gone /\ Becomes(f, "deleted", row[f].open, TRUE)

\* What the later states of a row keep of the earlier ones.
LEMMA RowKeeps ==
  ASSUME FilesInv, NEW f \in File, RowMoves(f)
  PROVE  /\ row'[f] \in Row
         /\ row'[f].context = row[f].context /\ row'[f].key = row[f].key
         /\ row'[f].open => row[f].open
         /\ (row'[f].status = "absent") <=> (row[f].status = "absent")
         /\ row[f].status = "deleted" => row'[f].status = "deleted"
         /\ row[f].status = "absent" => row'[f] = row[f]
<1>1. row[f] \in Row
  BY DEF FilesInv, TypeOK
<1>2. CASE row'[f] = row[f]
  BY <1>1, <1>2
<1>3. ASSUME NEW s \in {"pending", "uploaded", "failed", "deleted"},
             NEW o \in BOOLEAN, NEW p \in BOOLEAN, Becomes(f, s, o, p),
             o => row[f].open, row[f].status # "absent",
             row[f].status = "deleted" => s = "deleted"
      PROVE  /\ row'[f] \in Row
             /\ row'[f].context = row[f].context /\ row'[f].key = row[f].key
             /\ row'[f].open => row[f].open
             /\ row'[f].status # "absent"
             /\ row[f].status = "deleted" => row'[f].status = "deleted"
  BY <1>1, <1>3 DEF Becomes, Row
<1> QED
  BY <1>1, <1>2, <1>3 DEF RowMoves, Row, NotDeleted, IsPending, ToPurge

\* A step that moves rows and ends the jobs that did it.
LEMMA RowsMove ==
  ASSUME FilesInv,
         DOMAIN row' = File, row' = [f \in File |-> row'[f]],
         \A f \in File : RowMoves(f),
         job' \in [Actor -> JobRecord],
         UNCHANGED <<store, avatar, worn, dropped, mix>>,
         \A k \in Actor :
           \/ job'[k] = job[k]
           \/ /\ job'[k] = IdleJob
              /\ job[k].pc = "clean" => \A f \in job[k].previous : ~NotDeleted(f)'
  PROVE  FilesInv'
<1> USE RowKeeps
<1>1. TypeOK'
  BY DEF FilesInv, TypeOK, Actor, JobRecord
<1>2. OwnOps'
  <2>1. {"cleanup", "retention", "purge"} \subseteq Actor /\ Request \subseteq Actor
    BY DEF Actor, Worker
  <2>2. job["cleanup"].file \subseteq File
    BY <2>1, InvFacts DEF FilesInv, TypeOK, Worker
  <2> QED
    BY <2>1, <2>2 DEF FilesInv, OwnOps, IdleJob
<1>3. ASSUME NEW f \in File PROVE OwnKey(f)' /\ Shut(f)'
  <2>1. OwnKey(f) /\ Shut(f) /\ RowMoves(f) /\ row[f] \in Row
    BY DEF FilesInv, TypeOK
  <2>2. OwnKey(f)'
    BY <2>1 DEF OwnKey
  <2>3. Shut(f)'
    <3>1. CASE row'[f] = row[f]
      BY <2>1, <3>1 DEF Shut
    <3>2. ASSUME NEW s \in {"pending", "uploaded", "failed", "deleted"},
                 NEW o \in BOOLEAN, NEW p \in BOOLEAN, Becomes(f, s, o, p),
                 p => s = "deleted", s = "failed" \/ p => ~o
          PROVE  Shut(f)'
      BY <2>1, <3>2 DEF Shut, Becomes
    <3>3. /\ row[f].open \in BOOLEAN /\ row[f].purged \in BOOLEAN
          /\ row[f].purged => row[f].status = "deleted"
          /\ row[f].status \in {"absent", "pending", "uploaded", "failed", "deleted"}
          /\ row[f].status = "failed" \/ row[f].purged => ~row[f].open
      BY <2>1 DEF Shut, Row
    <3>4. CASE row[f].status # "absent" /\ Becomes(f, row[f].status, FALSE, row[f].purged)
      BY <3>2, <3>3, <3>4
    <3>5. CASE NotDeleted(f) /\ Becomes(f, "deleted", row[f].open, row[f].purged)
      BY <3>2, <3>3, <3>5
    <3>6. CASE IsPending(f) /\ Becomes(f, "uploaded", row[f].open, row[f].purged)
      BY <3>2, <3>3, <3>6 DEF IsPending
    <3>7. CASE IsPending(f) /\ ~row[f].open /\ Becomes(f, "failed", row[f].open, row[f].purged)
      BY <3>2, <3>3, <3>7 DEF IsPending
    <3>8. CASE ~row[f].open /\ Becomes(f, "deleted", row[f].open, TRUE)
      BY <3>2, <3>3, <3>8
    <3> QED
      BY <2>1, <3>1, <3>4, <3>5, <3>6, <3>7, <3>8 DEF RowMoves
  <2> QED
    BY <2>2, <2>3
<1>4. ASSUME NEW k \in Actor, NEW f \in File PROVE OnRow(k, f)'
  <2>1. CASE job'[k] = job[k]
    BY <2>1, InvFacts DEF OnRow, ProbeHolds
  <2>2. CASE job'[k] = IdleJob
    BY <2>2 DEF OnRow, IdleJob
  <2> QED
    BY <2>1, <2>2
<1>5. UploadedIsStored' /\ NoOrphans'
  <2> SUFFICES ASSUME NEW f \in ChatFile'
               PROVE  /\ (row[f].status = "uploaded" => f \in store)'
                      /\ (row[f].status = "failed" \/ row[f].purged => f \notin store)'
    BY DEF UploadedIsStored, NoOrphans
  <2>1. /\ f \in File /\ row[f].context = "live_chat_message"
        /\ row[f] \in Row /\ RowMoves(f)
    BY DEF ChatFile, FilesInv, TypeOK
  <2>2. f \in ChatFile
    BY <2>1 DEF ChatFile
  <2>3. /\ row[f].status = "uploaded" => f \in store
        /\ row[f].status = "failed" \/ row[f].purged => f \notin store
    BY <2>2 DEF FilesInv, UploadedIsStored, NoOrphans
  <2> QED
    BY <2>1, <2>3 DEF RowMoves, Becomes, Row
<1>6. ReplacedRetired'
  <2> SUFFICES ASSUME NEW f \in worn \ (avatar \union dropped), NotDeleted(f)'
               PROVE  \E q \in Request : job'[q].pc = "clean" /\ f \in job'[q].previous
    BY DEF ReplacedRetired
  <2>1. f \in File
    BY DEF FilesInv, TypeOK
  <2>2. NotDeleted(f)
    BY <2>1 DEF NotDeleted
  <2>3. PICK q \in Request : job[q].pc = "clean" /\ f \in job[q].previous
    BY <2>2 DEF FilesInv, ReplacedRetired
  <2> QED
    BY <2>3 DEF Actor
<1> QED
  BY <1>1, <1>2, <1>3, <1>4, <1>5, <1>6 DEF FilesInv

-----------------------------------------------------------------------------
(* The steps.                                                              *)

\* An actor that is idle, or goes on with the row it has.
LEMMA WorkerSets ==
  /\ Request \subseteq Actor /\ Worker \subseteq Actor
  /\ Worker = {"cleanup", "retention", "purge"}
  /\ \A q \in Request : q # "cleanup" /\ q # "retention" /\ q # "purge"
  /\ IdleJob \in JobRecord
  BY DEF Actor, Worker, JobRecord, IdleJob

\* A request starts, goes on or ends, and changes no row.
LEMMA RequestMoves ==
  ASSUME FilesInv, NEW q \in Request, NEW x \in JobRecord,
         job' = [job EXCEPT ![q] = x],
         UNCHANGED <<row, store, avatar, worn, dropped, mix>>,
         x.pc \notin {"promote", "fail", "remove", "stamp"},
         job[q].pc # "clean",
         \A f \in x.file : row[f].status # "absent",
         \A f \in x.file : x.pc = "mark" /\ x.op = "confirm" => row[f].key \in store
  PROVE  FilesInv'
<1>1. q \in Actor /\ q \notin Worker /\ job' \in [Actor -> JobRecord]
  BY WorkerSets DEF FilesInv, TypeOK, Actor, JobRecord
<1>2. OwnOps'
  BY <1>1, WorkerSets DEF FilesInv, OwnOps, TypeOK, Actor
<1>3. ASSUME NEW f \in File PROVE OnRow(q, f)'
  <2>1. job'[q] = x
    BY <1>1 DEF FilesInv, TypeOK, Actor
  <2> QED
    BY <1>1, <2>1, InvFacts DEF OnRow, ProbeHolds, OwnKey
<1> QED
  BY <1>1, <1>2, <1>3, JobMoves DEF FilesInv, TypeOK

\* The request of a file begins.
LEMMA RequestStarts ==
  ASSUME FilesInv, NEW q \in Request, NEW f \in File, row[f].status # "absent",
         NEW op \in {"confirm", "delete", "set_avatar"},
         NEW pc \in {"probe", "mark", "read"}, ~(pc = "mark" /\ op = "confirm"),
         Start(q, op, pc, f), UNCHANGED <<row, store, avatar, worn, dropped, mix>>
  PROVE  FilesInv'
<1> DEFINE x == [pc |-> pc, op |-> op, file |-> {f}, previous |-> {}]
<1>1. x \in JobRecord /\ job' = [job EXCEPT ![q] = x]
  <2>1. x \in JobRecord
    BY DEF JobRecord
  <2> QED
    BY <2>1 DEF Start
<1>2. /\ job[q].pc # "clean" /\ x.pc \notin {"promote", "fail", "remove", "stamp"}
      /\ \A g \in x.file : row[g].status # "absent"
      /\ \A g \in x.file : ~(x.pc = "mark" /\ x.op = "confirm")
  BY DEF Start
<1> HIDE DEF x
<1> QED
  BY <1>1, <1>2, RequestMoves

\* A worker starts, goes on or ends, and changes no row.
LEMMA WorkerMoves ==
  ASSUME FilesInv, NEW w \in Worker, NEW x \in JobRecord, NEW f \in File,
         job' = [job EXCEPT ![w] = x],
         UNCHANGED <<row, store, avatar, worn, dropped, mix>>,
         x.file = {f}, x.op = w, row[f].status # "absent", ~row[f].open,
         \/ w = "cleanup" /\ x.pc = "probe"
         \/ w = "cleanup" /\ x.pc = "promote" /\ row[f].key \in store
         \/ w = "cleanup" /\ x.pc = "fail" /\ row[f].key \notin store
         \/ w = "retention" /\ x.pc = "mark"
         \/ w = "purge" /\ x.pc = "remove" /\ row[f].status = "deleted"
  PROVE  FilesInv'
<1>1. w \in Actor /\ w \notin Request /\ job' \in [Actor -> JobRecord]
  BY WorkerSets DEF FilesInv, TypeOK, Actor, JobRecord
<1>2. \A k \in Actor : job'[k] = IF k = w THEN x ELSE job[k]
  BY DEF FilesInv, TypeOK, Actor
<1>3. OwnOps'
  <2>1. \A k \in Actor : job[k] \in JobRecord
    BY InvFacts
  <2> QED
    BY <1>1, <1>2, <2>1, WorkerSets DEF FilesInv, OwnOps, JobRecord
<1>4. ASSUME NEW g \in File PROVE OnRow(w, g)'
  BY <1>1, <1>2, WorkerSets, InvFacts DEF OnRow, ProbeHolds, OwnKey
<1>5. job[w].pc # "clean"
  BY WorkerSets DEF FilesInv, OwnOps
<1> QED
  BY <1>1, <1>3, <1>4, <1>5, JobMoves DEF FilesInv, TypeOK

\* The storage or the database fails, or the process stops.
LEMMA FailStep ==
  ASSUME FilesInv, NEW j \in Actor, Fail(j)
  PROVE  FilesInv'
<1>1. job' = [job EXCEPT ![j] = IdleJob] /\ job[j] \in JobRecord
  BY DEF Fail, Done, FilesInv, TypeOK, Actor, JobRecord
<1>2. job[j].previous \subseteq File
  BY <1>1 DEF JobRecord
<1>3. OwnOps'
  BY <1>1, WorkerSets DEF FilesInv, TypeOK, OwnOps, Actor, IdleJob, Fail
<1>4. \A f \in File : OnRow(j, f)'
  BY <1>1 DEF FilesInv, TypeOK, Actor, OnRow, IdleJob
<1>5. /\ dropped \subseteq dropped' /\ dropped' \subseteq File
      /\ job[j].pc = "clean" => job[j].previous \subseteq dropped'
  BY <1>2 DEF Fail, FilesInv, TypeOK
<1> QED
  BY <1>1, <1>3, <1>4, <1>5, WorkerSets, JobMoves DEF Fail

\* A presigned row is new: nobody works on it and no key of it was used.
LEMMA PresignStep ==
  ASSUME FilesInv, NEW f \in File, Presign(f)
  PROVE  FilesInv'
<1> DEFINE key(c, e) == IF c = "user_avatar" THEN e ELSE f
<1>1. PICK c \in Context, e \in Extension :
        row' = [row EXCEPT ![f] = [status |-> "pending", context |-> c,
                  key |-> key(c, e), open |-> TRUE, purged |-> FALSE]]
  <2>1. mix.contexts \subseteq Context
    BY DEF FilesInv, TypeOK, Context
  <2> QED
    BY <2>1 DEF Presign, KeyFor
<1>2. /\ UNCHANGED <<store, avatar, job, worn, dropped, mix>>
      /\ row[f].status = "absent"
  BY DEF Presign
<1>3. \A g \in File : g # f => row'[g] = row[g]
  BY <1>1 DEF FilesInv, TypeOK
<1>4. row'[f] = [status |-> "pending", context |-> c, key |-> key(c, e),
                 open |-> TRUE, purged |-> FALSE]
  BY <1>1 DEF FilesInv, TypeOK
<1>5. row'[f] \in Row /\ row' \in [File -> Row]
  BY <1>1, <1>4 DEF FilesInv, TypeOK, Row
<1>6. f \notin worn /\ \A j \in Actor : f \notin job[j].file
  BY <1>2 DEF FilesInv, Shut, OnRow
<1>7. TypeOK'
  BY <1>2, <1>5 DEF FilesInv, TypeOK
<1>8. OwnOps'
  <2>1. f \notin job["cleanup"].file
    BY <1>6, WorkerSets
  <2>2. job["cleanup"].file \subseteq File
    BY WorkerSets DEF FilesInv, TypeOK, JobRecord, Actor
  <2> QED
    BY <1>2, <1>3, <2>1, <2>2 DEF FilesInv, OwnOps
<1>9. ASSUME NEW g \in File PROVE OwnKey(g)' /\ Shut(g)'
  BY <1>2, <1>3, <1>4, InvFacts DEF FilesInv, OwnKey, Shut, Context
<1>10. ASSUME NEW j \in Actor, NEW g \in File PROVE OnRow(j, g)'
  BY <1>2, <1>3, <1>6, InvFacts DEF OnRow, ProbeHolds
<1>11. UploadedIsStored' /\ NoOrphans'
  BY <1>2, <1>3, <1>4 DEF FilesInv, UploadedIsStored, NoOrphans, ChatFile
<1>12. ReplacedRetired'
  BY <1>2, <1>3, <1>6 DEF FilesInv, TypeOK, ReplacedRetired, NotDeleted
<1> QED
  BY <1>7, <1>8, <1>9, <1>10, <1>11, <1>12 DEF FilesInv

\* The object of f is stored: no other chat file has its key.
LEMMA UploadStep ==
  ASSUME FilesInv, NEW f \in File, Upload(f)
  PROVE  FilesInv'
<1>1. /\ row[f].open /\ store' = store \union {row[f].key}
      /\ UNCHANGED <<row, avatar, job, worn, dropped, mix>>
  BY DEF Upload
<1>2. row[f] \in Row /\ OwnKey(f)
  BY DEF FilesInv, TypeOK
<1>3. \A g \in File : row[g].context = "live_chat_message" /\ g # f =>
        (g \in store' <=> g \in store)
  BY <1>1, <1>2 DEF OwnKey, Row, Context
<1>4. TypeOK'
  BY <1>1, <1>2 DEF FilesInv, TypeOK, Row
<1>5. OwnOps' /\ \A g \in File : (OwnKey(g) /\ Shut(g))'
  BY <1>1 DEF FilesInv, OwnOps, OwnKey, Shut
<1>6. ASSUME NEW j \in Actor, NEW g \in File PROVE OnRow(j, g)'
  BY <1>1, <1>3, InvFacts DEF OnRow, ProbeHolds
<1>7. UploadedIsStored' /\ NoOrphans'
  BY <1>1, <1>3, InvFacts DEF FilesInv, UploadedIsStored, NoOrphans, ChatFile, Shut
<1>8. ReplacedRetired'
  BY <1>1 DEF FilesInv, ReplacedRetired, NotDeleted
<1> QED
  BY <1>4, <1>5, <1>6, <1>7, <1>8 DEF FilesInv

\* The object of a deleted row is removed.
LEMMA PurgeRemoveStep ==
  ASSUME FilesInv, NEW f \in File, PurgeRemove(f)
  PROVE  FilesInv'
<1>1. /\ job["purge"].pc = "remove" /\ job["purge"].file = {f}
      /\ store' = store \ {row[f].key}
      /\ job' = [job EXCEPT !["purge"].pc = "stamp"]
      /\ UNCHANGED <<row, avatar, worn, dropped, mix>>
  BY DEF PurgeRemove, At, RemoveObject, Now
<1>2. "purge" \in Actor /\ row[f] \in Row /\ OwnKey(f) /\ OnRow("purge", f)
  BY WorkerSets DEF FilesInv, TypeOK
<1>3. \A g \in File : row[g].context = "live_chat_message" =>
        (g \in store' <=> g \in store /\ g # f)
  BY <1>1, <1>2 DEF OwnKey, Row, Context
<1>4. ~row[f].open /\ row[f].status = "deleted"
  BY <1>1, <1>2 DEF OnRow
<1>5. \A k \in Actor : k # "purge" => job'[k] = job[k]
  BY <1>1 DEF FilesInv, TypeOK, Actor
<1>6. job'["purge"].pc = "stamp" /\ job'["purge"].file = {f}
  BY <1>1, <1>2 DEF FilesInv, TypeOK, Actor
<1>7. TypeOK'
  <2>1. job' \in [Actor -> JobRecord]
    BY <1>1, <1>2 DEF FilesInv, TypeOK, Actor, JobRecord
  <2>2. store' \subseteq File \union Extension
    BY <1>1 DEF FilesInv, TypeOK
  <2> QED
    BY <1>1, <2>1, <2>2 DEF FilesInv, TypeOK, Actor, JobRecord
<1>8. OwnOps'
  BY <1>1, <1>5, <1>6, WorkerSets DEF FilesInv, OwnOps
<1>9. \A g \in File : (OwnKey(g) /\ Shut(g))'
  BY <1>1 DEF FilesInv, OwnKey, Shut
<1>10. ASSUME NEW j \in Actor, NEW g \in File PROVE OnRow(j, g)'
  <2>1. CASE j = "purge"
    BY <1>1, <1>3, <1>4, <1>6, <2>1 DEF OnRow, ProbeHolds
  <2>2. CASE j # "purge"
    BY <1>1, <1>3, <1>4, <1>5, <2>2, InvFacts DEF OnRow, ProbeHolds
  <2> QED
    BY <2>1, <2>2
<1>11. UploadedIsStored' /\ NoOrphans'
  BY <1>1, <1>3, <1>4 DEF FilesInv, UploadedIsStored, NoOrphans, ChatFile
<1>12. ReplacedRetired'
  BY <1>1, <1>5, WorkerSets DEF FilesInv, ReplacedRetired, NotDeleted
<1> QED
  BY <1>7, <1>8, <1>9, <1>10, <1>11, <1>12 DEF FilesInv

\* The avatar it replaces is about to be deleted, or was not the one it read.
LEMMA WriteAvatarStep ==
  ASSUME FilesInv, NEW q \in Request, WriteAvatar(q)
  PROVE  FilesInv'
<1>1. /\ job[q].pc = "write"
      /\ avatar' = job[q].file /\ worn' = worn \union job[q].file
      /\ dropped' = dropped \union (avatar \ job[q].previous)
      /\ job' = [job EXCEPT ![q].pc = "clean"]
      /\ UNCHANGED <<row, store, mix>>
  BY DEF WriteAvatar, Now
<1>2. q \in Actor /\ q \notin Worker /\ job[q] \in JobRecord
  BY WorkerSets DEF FilesInv, TypeOK, Actor, JobRecord
<1>3. \A k \in Actor : k # q => job'[k] = job[k]
  BY <1>1 DEF FilesInv, TypeOK, Actor
<1>4. /\ job'[q].pc = "clean" /\ job'[q].file = job[q].file
      /\ job'[q].previous = job[q].previous
  BY <1>1, <1>2 DEF FilesInv, TypeOK, Actor, JobRecord
<1>5. TypeOK'
  BY <1>1, <1>2 DEF FilesInv, TypeOK, Actor, JobRecord
<1>6. OwnOps'
  BY <1>1, <1>2, <1>3, <1>4, WorkerSets DEF FilesInv, OwnOps
<1>7. ASSUME NEW f \in File PROVE OwnKey(f)' /\ Shut(f)'
  BY <1>1, <1>2, InvFacts DEF OwnKey, Shut, OnRow
<1>8. ASSUME NEW j \in Actor, NEW f \in File PROVE OnRow(j, f)'
  BY <1>1, <1>3, <1>4, InvFacts DEF OnRow, ProbeHolds
<1>9. UploadedIsStored' /\ NoOrphans'
  BY <1>1 DEF FilesInv, UploadedIsStored, NoOrphans, ChatFile
<1>10. ReplacedRetired'
  <2> SUFFICES ASSUME NEW f \in worn' \ (avatar' \union dropped'), NotDeleted(f)
               PROVE  \E r \in Request : job'[r].pc = "clean" /\ f \in job'[r].previous
    BY <1>1 DEF ReplacedRetired, NotDeleted
  <2>1. CASE f \in avatar
    BY <1>1, <1>4, <2>1
  <2>2. CASE f \notin avatar
    <3>1. PICK r \in Request : job[r].pc = "clean" /\ f \in job[r].previous
      BY <1>1, <2>2 DEF FilesInv, ReplacedRetired
    <3> QED
      BY <1>1, <1>3, <3>1, WorkerSets
  <2> QED
    BY <2>1, <2>2
<1> QED
  BY <1>5, <1>6, <1>7, <1>8, <1>9, <1>10 DEF FilesInv

\* The steps of the client and of its requests.
LEMMA RequestSteps ==
  ASSUME FilesInv, NEW q \in Request, RequestNext(q)
  PROVE  FilesInv'
<1>1. q \in Actor /\ job[q] \in JobRecord /\ q \notin Worker
  BY WorkerSets DEF FilesInv, TypeOK, Actor, JobRecord
<1>2. ASSUME NEW f \in File, Confirm(q, f) PROVE FilesInv'
  BY <1>2, RequestStarts DEF Confirm
<1>3. ASSUME NEW f \in File, ConfirmProbe(q, f) PROVE FilesInv'
  <2>1. OnRow(q, f) /\ job[q].file = {f} /\ job[q].op = "confirm" /\ job[q].pc = "probe"
    BY <1>1, <1>3 DEF FilesInv, ConfirmProbe, At
  <2>2. CASE row[f].key \in store
    <3> DEFINE x == [job[q] EXCEPT !.pc = "mark"]
    <3>1. x \in JobRecord /\ job' = [job EXCEPT ![q] = x] /\ x.file = {f} /\ x.pc = "mark"
      BY <1>1, <1>3, <2>1, <2>2 DEF ConfirmProbe, Now, JobRecord
    <3> QED
      BY <1>3, <2>1, <2>2, <3>1, RequestMoves DEF ConfirmProbe, OnRow
  <2>3. CASE row[f].key \notin store
    BY ZenonT(60), <1>3, <2>1, <2>3, RequestMoves, WorkerSets DEF ConfirmProbe, Done, IdleJob
  <2> QED
    BY <2>2, <2>3
<1>4. ASSUME NEW f \in File, Delete(q, f) PROVE FilesInv'
  BY <1>4, RequestStarts DEF Delete, NotDeleted
<1>5. ASSUME NEW f \in File, VetAvatar(q, f) PROVE FilesInv'
  BY <1>5, RequestStarts DEF VetAvatar
<1>6. CASE ClearAvatar(q)
  <2> DEFINE x == [pc |-> "read", op |-> "clear_avatar", file |-> {}, previous |-> {}]
  <2>1. x \in JobRecord /\ x.pc = "read" /\ x.file = {}
    BY DEF JobRecord
  <2>2. job' = [job EXCEPT ![q] = x] /\ job[q].pc # "clean"
    BY <1>6 DEF ClearAvatar
  <2> HIDE DEF x
  <2> QED
    BY <1>6, <2>1, <2>2, RequestMoves DEF ClearAvatar
<1>7. CASE ReadPrevious(q)
  <2>1. CASE avatar = job[q].file
    BY <1>7, <2>1, RequestMoves, WorkerSets DEF ReadPrevious, IdleJob
  <2>2. CASE avatar # job[q].file
    <3> DEFINE x == [job[q] EXCEPT !.pc = "write", !.previous = avatar]
    <3>1. x \in JobRecord /\ job' = [job EXCEPT ![q] = x] /\ x.file = job[q].file /\ x.pc = "write"
      BY <1>1, <1>7, <2>2 DEF ReadPrevious, JobRecord, FilesInv, TypeOK, Actor
    <3>2. \A f \in x.file : row[f].status # "absent"
      BY <1>1, <3>1 DEF FilesInv, OnRow, JobRecord
    <3> QED
      BY <1>7, <3>1, <3>2, RequestMoves DEF ReadPrevious
  <2> QED
    BY <2>1, <2>2
<1>8. CASE WriteAvatar(q)
  BY <1>8, WriteAvatarStep
<1>9. ASSUME NEW f \in File, ConfirmMark(q, f) PROVE FilesInv'
  <2>1. /\ job' = [job EXCEPT ![q] = IdleJob] /\ job[q].pc = "mark"
        /\ job[q].op = "confirm" /\ job[q].file = {f}
        /\ UNCHANGED <<store, avatar, worn, dropped, mix>>
        /\ row' = IF IsPending(f) THEN With(f, "uploaded") ELSE row
    BY <1>9 DEF ConfirmMark, At, Done
  <2>2. OnRow(q, f) /\ row \in [File -> Row]
    BY <1>1 DEF FilesInv, TypeOK
  <2>3. \A g \in File : RowMoves(g)
    BY <2>1, <2>2 DEF RowMoves, Becomes, With, Row, IsPending, OnRow, ProbeHolds
  <2> QED
    BY <1>1, <2>1, <2>2, <2>3, RowsMove, WorkerSets
      DEF With, FilesInv, TypeOK, Actor, JobRecord
<1>10. ASSUME NEW f \in File, DeleteMark(q, f) PROVE FilesInv'
  <2>1. /\ job' = [job EXCEPT ![q] = IdleJob] /\ job[q].pc = "mark"
        /\ UNCHANGED <<store, avatar, worn, dropped, mix>>
        /\ row' = IF NotDeleted(f) THEN With(f, "deleted") ELSE row
    BY <1>10 DEF DeleteMark, At, Done
  <2>2. row \in [File -> Row]
    BY DEF FilesInv, TypeOK
  <2>3. \A g \in File : RowMoves(g)
    BY <2>1, <2>2 DEF RowMoves, Becomes, With, Row
  <2> QED
    BY <1>1, <2>1, <2>2, <2>3, RowsMove, WorkerSets
      DEF With, FilesInv, TypeOK, Actor, JobRecord
<1>11. CASE CleanPrevious(q)
  <2>1. /\ job' = [job EXCEPT ![q] = IdleJob]
        /\ UNCHANGED <<store, avatar, worn, dropped, mix>>
        /\ row' = [f \in File |-> IF f \in job[q].previous /\ NotDeleted(f)
                                  THEN [row[f] EXCEPT !.status = "deleted"] ELSE row[f]]
    BY <1>11 DEF CleanPrevious, RowToClean, Done
  <2>2. row \in [File -> Row] /\ job[q].previous \subseteq File
    BY <1>1 DEF FilesInv, TypeOK, JobRecord
  <2>3. \A g \in File : RowMoves(g)
    BY <2>1, <2>2 DEF RowMoves, Becomes, Row
  <2>4. \A g \in job[q].previous : ~NotDeleted(g)'
    BY <2>1, <2>2 DEF NotDeleted, Row
  <2> QED
    BY <1>1, <2>1, <2>2, <2>3, <2>4, RowsMove, WorkerSets
      DEF FilesInv, TypeOK, Actor, JobRecord
<1> QED
  BY <1>2, <1>3, <1>4, <1>5, <1>6, <1>7, <1>8, <1>9, <1>10, <1>11 DEF RequestNext

\* A worker takes up a row.
LEMMA WorkerStarts ==
  ASSUME FilesInv, NEW w \in Worker, NEW f \in File, NEW pc \in {"probe", "mark", "remove"},
         ~row[f].open, row[f].status # "absent",
         \/ w = "cleanup" /\ pc = "probe"
         \/ w = "retention" /\ pc = "mark"
         \/ w = "purge" /\ pc = "remove" /\ row[f].status = "deleted",
         Start(w, w, pc, f), UNCHANGED <<row, store, avatar, worn, dropped, mix>>
  PROVE  FilesInv'
<1> DEFINE x == [pc |-> pc, op |-> w, file |-> {f}, previous |-> {}]
<1>1. x \in JobRecord /\ job' = [job EXCEPT ![w] = x]
  <2>1. x \in JobRecord
    BY DEF JobRecord
  <2> QED
    BY <2>1 DEF Start
<1>2. x.file = {f} /\ x.op = w /\ x.pc = pc
  OBVIOUS
<1> HIDE DEF x
<1> QED
  BY <1>1, <1>2, WorkerMoves

\* The steps of the workers.
LEMMA CleanupSteps ==
  ASSUME FilesInv, NEW f \in File, CleanupNext(f)
  PROVE  FilesInv'
<1>1. "cleanup" \in Worker /\ "cleanup" \in Actor /\ job["cleanup"] \in JobRecord
  BY WorkerSets DEF FilesInv, TypeOK, Actor, JobRecord
<1>2. CASE SelectPending(f)
  BY <1>1, <1>2, WorkerStarts DEF SelectPending, IsPending, Stale
<1>3. CASE CleanupProbe(f)
  <2> DEFINE pc == IF row[f].key \in store THEN "promote" ELSE "fail"
             x == [job["cleanup"] EXCEPT !.pc = pc]
  <2>1. /\ job["cleanup"].file = {f} /\ job["cleanup"].pc = "probe"
        /\ job' = [job EXCEPT !["cleanup"] = x]
        /\ UNCHANGED <<row, store, avatar, worn, dropped, mix>>
    BY <1>1, <1>3 DEF CleanupProbe, At, Now, JobRecord
  <2>2. x \in JobRecord /\ x.file = {f} /\ x.pc = pc
    BY <1>1, <2>1 DEF JobRecord
  <2>3. ~row[f].open /\ row[f].status # "absent"
    BY <1>1, <2>1 DEF FilesInv, OwnOps, OnRow
  <2>4. OwnOps'
    <3>1. \A k \in Actor : job'[k] = IF k = "cleanup" THEN x ELSE job[k]
      BY <1>1, <2>1 DEF FilesInv, TypeOK, Actor
    <3> QED
      BY <1>1, <2>1, <2>2, <2>3, <3>1, WorkerSets DEF FilesInv, OwnOps
  <2>5. ASSUME NEW g \in File PROVE OnRow("cleanup", g)'
    <3>1. job'["cleanup"] = x
      BY <1>1, <2>1 DEF FilesInv, TypeOK, Actor
    <3> QED
      BY <1>1, <2>1, <2>2, <2>3, <3>1, InvFacts DEF OnRow, ProbeHolds, OwnKey
  <2> HIDE DEF x, pc
  <2> QED
    BY <1>1, <2>1, <2>2, <2>4, <2>5, JobMoves DEF FilesInv, TypeOK
<1>4. CASE CleanupMark(f)
  <2>1. /\ job' = [job EXCEPT !["cleanup"] = IdleJob]
        /\ job["cleanup"].pc \in {"promote", "fail"} /\ job["cleanup"].file = {f}
        /\ UNCHANGED <<store, avatar, worn, dropped, mix>>
        /\ row' = IF ~IsPending(f) THEN row
                  ELSE With(f, IF job["cleanup"].pc = "promote" THEN "uploaded" ELSE "failed")
    BY <1>4 DEF CleanupMark, At, Done
  <2>2. OnRow("cleanup", f) /\ row \in [File -> Row]
    BY <1>1 DEF FilesInv, TypeOK
  <2>3. \A g \in File : RowMoves(g)
    BY <2>1, <2>2 DEF RowMoves, Becomes, With, Row, IsPending, OnRow, ProbeHolds
  <2> QED
    BY <1>1, <2>1, <2>2, <2>3, RowsMove, WorkerSets
      DEF With, FilesInv, TypeOK, Actor, JobRecord
<1> QED
  BY <1>2, <1>3, <1>4 DEF CleanupNext

LEMMA RetentionSteps ==
  ASSUME FilesInv, NEW f \in File, RetentionNext(f)
  PROVE  FilesInv'
<1>1. "retention" \in Worker /\ "retention" \in Actor
  BY WorkerSets
<1>2. CASE SelectOld(f)
  BY <1>1, <1>2, WorkerStarts DEF SelectOld, Stale
<1>3. CASE RetentionMark(f)
  <2>1. /\ job' = [job EXCEPT !["retention"] = IdleJob] /\ job["retention"].pc = "mark"
        /\ UNCHANGED <<store, avatar, worn, dropped, mix>>
        /\ row' = IF NotDeleted(f) THEN With(f, "deleted") ELSE row
    BY <1>3 DEF RetentionMark, At, Done
  <2>2. row \in [File -> Row]
    BY DEF FilesInv, TypeOK
  <2>3. \A g \in File : RowMoves(g)
    BY <2>1, <2>2 DEF RowMoves, Becomes, With, Row
  <2> QED
    BY <1>1, <2>1, <2>2, <2>3, RowsMove, WorkerSets
      DEF With, FilesInv, TypeOK, Actor, JobRecord
<1> QED
  BY <1>2, <1>3 DEF RetentionNext

LEMMA PurgeSteps ==
  ASSUME FilesInv, NEW f \in File, PurgeNext(f)
  PROVE  FilesInv'
<1>1. "purge" \in Worker /\ "purge" \in Actor
  BY WorkerSets
<1>2. CASE SelectDeleted(f)
  BY <1>1, <1>2, WorkerStarts DEF SelectDeleted, ToPurge, Stale
<1>3. CASE PurgeRemove(f)
  BY <1>3, PurgeRemoveStep
<1>4. CASE PurgeStamp(f)
  <2>1. /\ job' = [job EXCEPT !["purge"] = IdleJob]
        /\ job["purge"].pc = "stamp" /\ job["purge"].file = {f}
        /\ UNCHANGED <<store, avatar, worn, dropped, mix>>
        /\ row' = IF ToPurge(f) THEN [row EXCEPT ![f].purged = TRUE] ELSE row
    BY <1>4 DEF PurgeStamp, At, Done
  <2>2. OnRow("purge", f) /\ row \in [File -> Row]
    BY <1>1 DEF FilesInv, TypeOK
  <2>3. \A g \in File : RowMoves(g)
    <3>1. CASE ToPurge(f)
      <4>1. row[f] \in Row /\ row[f].status = "deleted"
        BY <2>2, <3>1 DEF ToPurge
      <4>2. Becomes(f, "deleted", row[f].open, TRUE)
        BY <2>1, <2>2, <3>1, <4>1 DEF Becomes, Row
      <4>3. ~row[f].open /\ (row[f].context = "live_chat_message" => f \notin store)
        BY <2>1, <2>2 DEF OnRow, ProbeHolds
      <4>4. \A g \in File \ {f} : row'[g] = row[g]
        BY <2>1, <2>2, <3>1
      <4> QED
        BY <3>1, <4>2, <4>3, <4>4 DEF RowMoves
    <3>2. CASE ~ToPurge(f)
      BY <2>1, <3>2 DEF RowMoves
    <3> QED
      BY <3>1, <3>2
  <2> QED
    BY <1>1, <2>1, <2>2, <2>3, RowsMove, WorkerSets
      DEF FilesInv, TypeOK, Actor, JobRecord
<1> QED
  BY <1>2, <1>3, <1>4 DEF PurgeNext

-----------------------------------------------------------------------------
\* Every step of Files keeps the invariant.
LEMMA FilesStep == FilesInv /\ [Next]_vars => FilesInv'
<1> SUFFICES ASSUME FilesInv, [Next]_vars PROVE FilesInv'
  OBVIOUS
<1>1. ASSUME NEW f \in File, UploadNext(f) PROVE FilesInv'
  <2>1. CASE Presign(f)
    BY <2>1, PresignStep
  <2>2. CASE Upload(f)
    BY <2>2, UploadStep
  <2>3. CASE CloseUrl(f)
    <3>1. row \in [File -> Row] /\ Shut(f)
      BY DEF FilesInv, TypeOK
    <3>2. \A g \in File : RowMoves(g)
      BY ZenonT(60), <2>3, <3>1 DEF CloseUrl, RowMoves, Becomes, Row, Shut
    <3> QED
      BY <2>3, <3>1, <3>2, RowsMove DEF CloseUrl, FilesInv, TypeOK, Actor, JobRecord
  <2> QED
    BY <1>1, <2>1, <2>2, <2>3 DEF UploadNext
<1>2. ASSUME NEW j \in Request \union Worker, Fail(j) PROVE FilesInv'
  BY <1>2, FailStep DEF Actor
<1>3. CASE UNCHANGED vars
  BY <1>3 DEF vars, FilesInv, TypeOK, OwnOps, OwnKey, Shut, OnRow, ProbeHolds,
    UploadedIsStored, NoOrphans, ReplacedRetired, ChatFile, NotDeleted
<1> QED
  BY <1>1, <1>2, <1>3, RequestSteps, CleanupSteps, RetentionSteps, PurgeSteps DEF Next

\* The invariant of Files.
THEOREM FilesInvariant == Spec => []FilesInv
<1> QED
  BY FilesInitially, FilesStep, PTL DEF Spec

\* Rows, objects, jobs and histories keep their shape.
THEOREM FilesTypeCorrect == Spec => []TypeOK
<1>1. FilesInv => TypeOK
  BY DEF FilesInv
<1> QED
  BY <1>1, FilesInvariant, PTL

\* An uploaded chat file is in the storage.
THEOREM UploadsStored == Spec => []UploadedIsStored
<1>1. FilesInv => UploadedIsStored
  BY DEF FilesInv
<1> QED
  BY <1>1, FilesInvariant, PTL

\* A row that was given up or purged left no object behind.
THEOREM NothingOrphaned == Spec => []NoOrphans
<1>1. FilesInv => NoOrphans
  BY DEF FilesInv
<1> QED
  BY <1>1, FilesInvariant, PTL

\* An avatar that was replaced is deleted or about to be, but for the
\* exceptions the property names.
THEOREM AvatarsRetired == Spec => []ReplacedRetired
<1>1. FilesInv => ReplacedRetired
  BY DEF FilesInv
<1> QED
  BY <1>1, FilesInvariant, PTL
=============================================================================
