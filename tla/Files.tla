------------------------------- MODULE Files --------------------------------
(***************************************************************************)
(* The files of one user (app/domains/files and the avatar routes of the   *)
(* auth domain): the file_objects rows, the objects in the storage, the    *)
(* avatar_file_id column of the user, the requests of the client and the   *)
(* three maintenance workers.                                              *)
(*                                                                         *)
(* Every statement on a row commits by itself and every call to the        *)
(* storage is a step of its own; a request or a tick may fail, or the      *)
(* process stop, between any two of them.  A worker decides on the row it  *)
(* selected at the start of its tick; the order and the size of its batch  *)
(* are left open: it may take any row its query selects.                   *)
(***************************************************************************)
EXTENDS Naturals, FiniteSets

CONSTANTS
  File,        \* file ids; their number bounds the uploads
  Extension,   \* extensions an avatar's file name may have
  Request,     \* requests in flight at the same time
  Mixes        \* the traffic this instance runs

ASSUME FilesAssumption ==
  /\ File \intersect Extension = {}
  /\ Request \intersect {"cleanup", "retention", "purge"} = {}
  /\ \A m \in Mixes : m.contexts \subseteq {"live_chat_message", "user_avatar"}

VARIABLES
  row,         \* File -> [status, context, key, open, purged]
  store,       \* the keys that have an object in the storage
  avatar,      \* avatar_file_id: the empty set is NULL
  job,         \* Request and Worker -> [pc, op, file, previous]
  worn,        \* history: files that have been the avatar
  dropped,     \* history: files whose replacement as avatar was not cleaned up
  mix          \* the member of Mixes this behaviour runs

vars == <<row, store, avatar, job, worn, dropped, mix>>

-----------------------------------------------------------------------------
(* Rows and keys.                                                          *)

Context == {"live_chat_message", "user_avatar"}

\* Size classes: up to 2 MiB, up to 25 MiB, more.
Size == 1..3

\* FILE_UPLOAD_LIMITS
AllowedTypes(context) ==
  IF context = "user_avatar" THEN {"png", "jpeg", "webp"}
  ELSE {"png", "jpeg", "webp", "gif", "pdf", "mpeg", "ogg", "webm"}

MaxSize(context) == IF context = "user_avatar" THEN 1 ELSE 2

\* _sanitize_filename and _validate_constraints
Accepts(request) ==
  /\ ~request.forbidden
  /\ request.type \in AllowedTypes(request.context)
  /\ request.size <= MaxSize(request.context)

\* _build_object_key: a chat file has a key of its own, an avatar the one of
\* the user and the extension.
KeyFor(f, context, extension) ==
  IF context = "user_avatar" THEN extension ELSE f

\* open: the presigned URL is valid, or an upload that began with it goes on.
Row == [status : {"absent", "pending", "uploaded", "failed", "deleted"},
        context : Context, key : File \union Extension,
        open : BOOLEAN, purged : BOOLEAN]

Worker == {"cleanup", "retention", "purge"}

IdleJob == [pc |-> "idle", op |-> "none", file |-> {}, previous |-> {}]

With(f, status) == [row EXCEPT ![f].status = status]

\* Mutant: the write does not look at the status.
Present(f) == row[f].status # "absent"

\* mark_uploaded and mark_failed change a pending row, mark_deleted one that
\* is not deleted, mark_purged a deleted one without a stamp.
IsPending(f) == row[f].status = "pending"

NotDeleted(f) == row[f].status \notin {"absent", "deleted"}

\* Mutant: the purge forgets the avatars.
OnlyChat(f) ==
  row[f].context = "live_chat_message" /\ row[f].status = "deleted" /\ ~row[f].purged

ToPurge(f) == row[f].status = "deleted" /\ ~row[f].purged

Start(j, op, pc, f) ==
  /\ op \in mix.ops
  /\ job[j].pc = "idle"
  /\ job' = [job EXCEPT ![j] = [pc |-> pc, op |-> op, file |-> {f}, previous |-> {}]]

At(j, pc, f) == job[j].pc = pc /\ job[j].file = {f}

Now(j, pc) == job' = [job EXCEPT ![j].pc = pc]

Done(j) == job' = [job EXCEPT ![j] = IdleJob]

-----------------------------------------------------------------------------
(* Upload.                                                                 *)

\* presign_upload and request_upload: the URL first, then the row.
Presign(f) ==
  /\ row[f].status = "absent"
  /\ \E request \in [context : mix.contexts, forbidden : BOOLEAN, size : Size,
                     type : {"png", "gif", "other"}, extension : Extension] :
       /\ Accepts(request)
       /\ row' = [row EXCEPT ![f] =
            [status |-> "pending", context |-> request.context,
             key |-> KeyFor(f, request.context, request.extension),
             open |-> TRUE, purged |-> FALSE]]
  /\ UNCHANGED <<store, avatar, job, worn, dropped, mix>>

\* The client posts the object to the storage.
Upload(f) ==
  /\ row[f].open
  /\ store' = store \union {row[f].key}
  /\ UNCHANGED <<row, avatar, job, worn, dropped, mix>>

CloseUrl(f) ==
  /\ row[f].open
  /\ row' = [row EXCEPT ![f].open = FALSE]
  /\ UNCHANGED <<store, avatar, job, worn, dropped, mix>>

\* confirm_upload: nothing to do for an uploaded row; a failed one goes on.
Confirm(q, f) ==
  /\ row[f].status \in {"pending", "failed"}
  /\ Start(q, "confirm", "probe", f)
  /\ UNCHANGED <<row, store, avatar, worn, dropped, mix>>

\* get_object_size finds the object; without it, or on an error, the client
\* is told to try again.
ConfirmProbe(q, f) ==
  /\ At(q, "probe", f) /\ job[q].op = "confirm"
  /\ IF row[f].key \in store THEN Now(q, "mark") ELSE Done(q)
  /\ UNCHANGED <<row, store, avatar, worn, dropped, mix>>

ConfirmMark(q, f) ==
  /\ At(q, "mark", f) /\ job[q].op = "confirm"
  /\ row' = IF IsPending(f) THEN With(f, "uploaded") ELSE row
  /\ Done(q)
  /\ UNCHANGED <<store, avatar, worn, dropped, mix>>

\* delete_file reads the row for its checks, then marks it.
Delete(q, f) ==
  /\ NotDeleted(f)
  /\ Start(q, "delete", "mark", f)
  /\ UNCHANGED <<row, store, avatar, worn, dropped, mix>>

DeleteMark(q, f) ==
  /\ At(q, "mark", f) /\ job[q].op = "delete"
  /\ row' = IF NotDeleted(f) THEN With(f, "deleted") ELSE row
  /\ Done(q)
  /\ UNCHANGED <<store, avatar, worn, dropped, mix>>

-----------------------------------------------------------------------------
(* The avatar.                                                             *)

\* set_my_avatar vets the row it read.
VetAvatar(q, f) ==
  /\ row[f].context = "user_avatar" /\ row[f].status = "uploaded"
  /\ Start(q, "set_avatar", "read", f)
  /\ UNCHANGED <<row, store, avatar, worn, dropped, mix>>

ClearAvatar(q) ==
  /\ "clear_avatar" \in mix.ops /\ job[q].pc = "idle"
  /\ job' = [job EXCEPT ![q] =
       [pc |-> "read", op |-> "clear_avatar", file |-> {}, previous |-> {}]]
  /\ UNCHANGED <<row, store, avatar, worn, dropped, mix>>

\* set_avatar reads the previous value; the same value is not written again.
ReadPrevious(q) ==
  /\ job[q].pc = "read"
  /\ job' = IF avatar = job[q].file THEN [job EXCEPT ![q] = IdleJob]
            ELSE [job EXCEPT ![q].pc = "write", ![q].previous = avatar]
  /\ UNCHANGED <<row, store, avatar, worn, dropped, mix>>

\* The UPDATE names the user only: what it replaces may not be what was read.
WriteAvatar(q) ==
  /\ job[q].pc = "write"
  /\ avatar' = job[q].file
  /\ worn' = worn \union job[q].file
  /\ dropped' = dropped \union (avatar \ job[q].previous)
  /\ Now(q, "clean")
  /\ UNCHANGED <<row, store, mix>>

\* Mutant: the row that is cleaned up is the new avatar's.
WrongRow(q) == job[q].file

\* The row whose place was taken is soft-deleted.
RowToClean(q) == job[q].previous

CleanPrevious(q) ==
  /\ job[q].pc = "clean"
  /\ row' = [f \in File |-> IF f \in RowToClean(q) /\ NotDeleted(f)
                            THEN [row[f] EXCEPT !.status = "deleted"] ELSE row[f]]
  /\ Done(q)
  /\ UNCHANGED <<store, avatar, worn, dropped, mix>>

-----------------------------------------------------------------------------
(* The workers.  A row is stale long after its URL expired (15 minutes     *)
(* against 5), and so is a deleted one past its grace period (7 days).  An *)
(* upload that began in time is taken to have ended by then, as the        *)
(* settings intend; the code does not enforce it.                          *)

Stale(f) == ~row[f].open

\* find_stale_pending
SelectPending(f) ==
  /\ IsPending(f) /\ Stale(f)
  /\ Start("cleanup", "cleanup", "probe", f)
  /\ UNCHANGED <<row, store, avatar, worn, dropped, mix>>

CleanupProbe(f) ==
  /\ At("cleanup", "probe", f)
  /\ Now("cleanup", IF row[f].key \in store THEN "promote" ELSE "fail")
  /\ UNCHANGED <<row, store, avatar, worn, dropped, mix>>

CleanupMark(f) ==
  /\ At("cleanup", "promote", f) \/ At("cleanup", "fail", f)
  /\ row' = IF ~IsPending(f) THEN row
            ELSE With(f, IF job["cleanup"].pc = "promote" THEN "uploaded" ELSE "failed")
  /\ Done("cleanup")
  /\ UNCHANGED <<store, avatar, worn, dropped, mix>>

\* find_chat_files_to_expire
SelectOld(f) ==
  /\ row[f].status = "uploaded" /\ row[f].context = "live_chat_message" /\ Stale(f)
  /\ Start("retention", "retention", "mark", f)
  /\ UNCHANGED <<row, store, avatar, worn, dropped, mix>>

RetentionMark(f) ==
  /\ At("retention", "mark", f)
  /\ row' = IF NotDeleted(f) THEN With(f, "deleted") ELSE row
  /\ Done("retention")
  /\ UNCHANGED <<store, avatar, worn, dropped, mix>>

\* find_files_to_purge
SelectDeleted(f) ==
  /\ ToPurge(f) /\ Stale(f)
  /\ Start("purge", "purge", "remove", f)
  /\ UNCHANGED <<row, store, avatar, worn, dropped, mix>>

\* Mutant: a failed call to the storage does not stop the stamp.
SkipObject(f) == store

\* delete_object: nothing happens when it is absent.
RemoveObject(f) == store \ {row[f].key}

PurgeRemove(f) ==
  /\ At("purge", "remove", f)
  /\ store' = RemoveObject(f)
  /\ Now("purge", "stamp")
  /\ UNCHANGED <<row, avatar, worn, dropped, mix>>

PurgeStamp(f) ==
  /\ At("purge", "stamp", f)
  /\ row' = IF ToPurge(f) THEN [row EXCEPT ![f].purged = TRUE] ELSE row
  /\ Done("purge")
  /\ UNCHANGED <<store, avatar, worn, dropped, mix>>

\* The storage or the database does not answer, or the process stops.  The
\* cleanup of a replaced avatar is not tried again.
Fail(j) ==
  /\ job[j].pc # "idle"
  /\ Done(j)
  /\ dropped' = IF job[j].pc = "clean" THEN dropped \union job[j].previous ELSE dropped
  /\ UNCHANGED <<row, store, avatar, worn, mix>>

-----------------------------------------------------------------------------
Init ==
  /\ mix \in Mixes
  /\ row = [f \in File |-> [status |-> "absent", context |-> "live_chat_message",
                            key |-> f, open |-> FALSE, purged |-> FALSE]]
  /\ store = {}
  /\ avatar = {}
  /\ job = [j \in Request \union Worker |-> IdleJob]
  /\ worn = {} /\ dropped = {}

UploadNext(f) ==
  \/ Presign(f) \/ Upload(f) \/ CloseUrl(f)

RequestNext(q) ==
  \/ \E f \in File : \/ Confirm(q, f) \/ ConfirmProbe(q, f) \/ ConfirmMark(q, f)
                     \/ Delete(q, f) \/ DeleteMark(q, f) \/ VetAvatar(q, f)
  \/ ClearAvatar(q) \/ ReadPrevious(q) \/ WriteAvatar(q) \/ CleanPrevious(q)

CleanupNext(f) == SelectPending(f) \/ CleanupProbe(f) \/ CleanupMark(f)

RetentionNext(f) == SelectOld(f) \/ RetentionMark(f)

PurgeNext(f) == SelectDeleted(f) \/ PurgeRemove(f) \/ PurgeStamp(f)

Next ==
  \/ \E f \in File : UploadNext(f) \/ CleanupNext(f) \/ RetentionNext(f) \/ PurgeNext(f)
  \/ \E q \in Request : RequestNext(q)
  \/ \E j \in Request \union Worker : Fail(j)

Spec == Init /\ [][Next]_vars

CleanupWork == \E f \in File : CleanupNext(f)

PurgeWork == \E f \in File : PurgeNext(f)

Failure == \E j \in Request \union Worker : Fail(j)

\* The URLs expire, the loops of the workers run for ever, and the storage and
\* the database fail now and then, not for ever.
Fairness ==
  /\ \A f \in File : WF_vars(CloseUrl(f))
  /\ WF_vars(CleanupWork) /\ WF_vars(PurgeWork)
  /\ <>[][~Failure]_vars

FairSpec == Spec /\ Fairness

-----------------------------------------------------------------------------
(* Properties.                                                             *)

\* Type correctness.
TypeOK ==
  /\ row \in [File -> Row]
  /\ store \subseteq File \union Extension
  /\ avatar \subseteq File
  /\ job \in [Request \union Worker ->
       [pc : {"idle", "probe", "mark", "read", "write", "clean", "promote", "fail",
              "remove", "stamp"},
        op : {"none", "confirm", "delete", "set_avatar", "clear_avatar"} \union Worker,
        file : SUBSET File, previous : SUBSET File]]
  /\ worn \subseteq File /\ dropped \subseteq File
  /\ mix \in Mixes

ChatFile == {f \in File : row[f].context = "live_chat_message"}

\* An uploaded chat file is in the storage: what a probe found is still there
\* when the row is marked, whoever else works on the row.
UploadedIsStored ==
  \A f \in ChatFile : row[f].status = "uploaded" => f \in store

\* Nothing is left behind: a row given up or stamped as purged has no object.
NoOrphans ==
  \A f \in ChatFile : row[f].status = "failed" \/ row[f].purged => f \notin store

\* An avatar that was replaced is deleted, or is about to be, except when its
\* replacement overlapped another or its cleanup failed.
ReplacedRetired ==
  \A f \in worn \ (avatar \union dropped) :
    NotDeleted(f) => \E q \in Request : job[q].pc = "clean" /\ f \in job[q].previous

\* Whatever fails on the way, a row whose URL has expired is settled in the
\* end: uploaded, failed, or deleted and its object purged.
Settles ==
  \A f \in File :
    (row[f].status # "absent" /\ Stale(f)) ~>
      (row[f].status \in {"uploaded", "failed"} \/ row[f].purged)

\* The avatar of the user can be shown as long as its row is uploaded, unless
\* another avatar of his had the same key and was deleted: the purge of that
\* row takes the object away from both.
AvatarShared ==
  \A f \in avatar :
    row[f].status = "uploaded" /\ row[f].key \notin store =>
      \E g \in File \ {f} : row[g].status = "deleted" /\ row[g].key = row[f].key
=============================================================================
