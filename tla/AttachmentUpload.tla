-------------------------- MODULE AttachmentUpload --------------------------
(***************************************************************************)
(* The upload of attachments to the server: the views of chat/api_views/   *)
(* attachments.py, each request a worker that holds the row lock of its    *)
(* session (select_for_update) while it works on the object storage, which *)
(* no transaction rolls back; and the cleanup command, which takes no      *)
(* lock and works from the rows it read at its start.                      *)
(*                                                                         *)
(* A chunk's bytes are a member of Content; requests refused for their     *)
(* sizes, checksums or indices change nothing and are left out.  The       *)
(* retention of completed sessions is 0 hours: any is old enough.          *)
(***************************************************************************)
EXTENDS Naturals

CONSTANTS
    Session, Chunk,
    Content,        \* what a client may send for a chunk, never 0
    Worker,         \* the server's processes that serve the uploads
    Reader,         \* processes that serve AttachmentSessionDetailView
    MaxFail,        \* bound on storage errors and crashes of the workers
    MaxCleanFail    \* bound on storage errors and crashes of the cleanup

None == 0

ASSUME UploadAssumption ==
    /\ None \notin Content \union Session \union Chunk
    /\ Worker \intersect Reader = {}
    /\ MaxFail \in Nat /\ MaxCleanFail \in Nat

VARIABLES
    status,         \* AttachmentUploadSession.status; "absent": no row
    expired,        \* expires_at has passed
    receipt,        \* AttachmentChunkReceipt of each chunk
    object,         \* the chunk objects in the storage
    blob,           \* the final object in the storage
    attachments,    \* how many MessageAttachments the session has made
    lock,           \* the worker that holds the row, {} when none does
    request,        \* the request each worker and reader serves
    cleaner,        \* the run of cleanup_attachment_storage
    fails, cleanFails

rows == <<status, expired, receipt, attachments>>
storage == <<object, blob>>
vars == <<status, expired, receipt, object, blob, attachments, lock, request,
          cleaner, fails, cleanFails>>

\* ABORTED is a status that nothing sets.
Status == {"absent", "pending", "uploading", "completed", "expired"}
Unfinished == {"pending", "uploading"}
Process == Worker \union Reader

Bytes == [Chunk -> Content \union {None}]
Empty == [c \in Chunk |-> None]
IsWhole(b) == \A c \in Chunk : b[c] # None

\* chunk and content belong to a chunk request, file to a completion.
Request ==
    [pc : {"idle", "put", "receipt", "assemble", "replace", "commit", "clean", "expire"},
     session : Session \union {None}, chunk : Chunk \union {None},
     content : Content \union {None}, file : Bytes]
NoRequest == [pc |-> "idle", session |-> None, chunk |-> None,
              content |-> None, file |-> Empty]

Cleaner == [todo : SUBSET Session, seen : [Session -> Status],
            keys : [Session -> SUBSET Chunk], current : SUBSET Session]
NoCleaning == [todo |-> {}, seen |-> [s \in Session |-> "absent"],
               keys |-> [s \in Session |-> {}], current |-> {}]

TypeOK ==
    /\ status \in [Session -> Status]
    /\ expired \in [Session -> BOOLEAN]
    /\ receipt \in [Session -> Bytes]
    /\ object \in [Session -> Bytes]
    /\ blob \in [Session -> Bytes]
    /\ attachments \in [Session -> Nat]
    /\ lock \in [Session -> SUBSET Worker]
    /\ request \in [Process -> Request]
    /\ cleaner \in Cleaner
    /\ fails \in 0..MaxFail
    /\ cleanFails \in 0..MaxCleanFail

Init ==
    /\ status = [s \in Session |-> "absent"]
    /\ expired = [s \in Session |-> FALSE]
    /\ receipt = [s \in Session |-> Empty]
    /\ object = [s \in Session |-> Empty]
    /\ blob = [s \in Session |-> Empty]
    /\ attachments = [s \in Session |-> 0]
    /\ lock = [s \in Session |-> {}]
    /\ request = [p \in Process |-> NoRequest]
    /\ cleaner = NoCleaning
    /\ fails = 0 /\ cleanFails = 0

-----------------------------------------------------------------------------
(* Requests.                                                               *)

Idle(w) == request[w].pc = "idle"
At(w, s, pc) == request[w].pc = pc /\ request[w].session = s

GoTo(w, pc) == request' = [request EXCEPT ![w].pc = pc]

End(w) == request' = [request EXCEPT ![w] = NoRequest]

Release(s) == lock' = [lock EXCEPT ![s] = {}]

\* AttachmentSessionCreateView.
Create(s) ==
    /\ status[s] = "absent"
    /\ status' = [status EXCEPT ![s] = "pending"]
    /\ UNCHANGED <<expired, receipt, attachments, storage, lock, request,
                   cleaner, fails, cleanFails>>

\* DEFAULT_ATTACHMENT_SESSION_TTL_DAYS have passed.
Expire(s) ==
    /\ status[s] # "absent" /\ ~expired[s]
    /\ expired' = [expired EXCEPT ![s] = TRUE]
    /\ UNCHANGED <<status, receipt, attachments, storage, lock, request,
                   cleaner, fails, cleanFails>>

\* A request on an expired session, not a completed one, marks it; it is
\* answered 410.  The row is read under the lock.
RefuseExpired(w, s) ==
    /\ Idle(w) /\ lock[s] = {}
    /\ status[s] \in Unfinished /\ expired[s]
    /\ status' = [status EXCEPT ![s] = "expired"]
    /\ UNCHANGED <<expired, receipt, attachments, storage, lock, request,
                   cleaner, fails, cleanFails>>

Open(s) == status[s] \in Unfinished /\ ~expired[s]

\* Mutant: the row is read without select_for_update.
MutPutStart(w, s, c, v) ==
    /\ Idle(w)
    /\ Open(s) /\ receipt[s][c] = None
    /\ lock' = [lock EXCEPT ![s] = {w}]
    /\ request' = [request EXCEPT ![w] =
          [@ EXCEPT !.pc = "put", !.session = s, !.chunk = c, !.content = v]]
    /\ UNCHANGED <<rows, storage, cleaner, fails, cleanFails>>

\* A chunk that has a receipt is answered without a change.
PutStart(w, s, c, v) ==
    /\ Idle(w) /\ lock[s] = {}
    /\ Open(s) /\ receipt[s][c] = None
    /\ lock' = [lock EXCEPT ![s] = {w}]
    /\ request' = [request EXCEPT ![w] =
          [@ EXCEPT !.pc = "put", !.session = s, !.chunk = c, !.content = v]]
    /\ UNCHANGED <<rows, storage, cleaner, fails, cleanFails>>

\* _store_chunk_at_exact_key: an object with the same bytes is kept.
PutKept(w, s) ==
    /\ At(w, s, "put")
    /\ object[s][request[w].chunk] = request[w].content
    /\ GoTo(w, "receipt")
    /\ UNCHANGED <<rows, storage, lock, cleaner, fails, cleanFails>>

PutDelete(w, s) ==
    /\ At(w, s, "put")
    /\ object[s][request[w].chunk] \notin {None, request[w].content}
    /\ object' = [object EXCEPT ![s][request[w].chunk] = None]
    /\ UNCHANGED <<rows, blob, lock, request, cleaner, fails, cleanFails>>

PutSave(w, s) ==
    /\ At(w, s, "put")
    /\ object[s][request[w].chunk] = None
    /\ object' = [object EXCEPT ![s][request[w].chunk] = request[w].content]
    /\ GoTo(w, "receipt")
    /\ UNCHANGED <<rows, blob, lock, cleaner, fails, cleanFails>>

PutCommit(w, s) ==
    /\ At(w, s, "receipt")
    /\ receipt' = [receipt EXCEPT ![s][request[w].chunk] = request[w].content]
    /\ status' = [status EXCEPT ![s] = "uploading"]
    /\ Release(s)
    /\ End(w)
    /\ UNCHANGED <<expired, attachments, storage, cleaner, fails, cleanFails>>

\* Mutant: the row is read without select_for_update.
MutCompleteStart(w, s) ==
    /\ Idle(w)
    /\ Open(s) /\ attachments[s] = 0 /\ IsWhole(receipt[s])
    /\ lock' = [lock EXCEPT ![s] = {w}]
    /\ request' = [request EXCEPT ![w] = [@ EXCEPT !.pc = "assemble", !.session = s]]
    /\ UNCHANGED <<rows, storage, cleaner, fails, cleanFails>>

\* A session that has made its attachment, or misses a chunk, is answered
\* without a change.
CompleteStart(w, s) ==
    /\ Idle(w) /\ lock[s] = {}
    /\ Open(s) /\ attachments[s] = 0 /\ IsWhole(receipt[s])
    /\ lock' = [lock EXCEPT ![s] = {w}]
    /\ request' = [request EXCEPT ![w] = [@ EXCEPT !.pc = "assemble", !.session = s]]
    /\ UNCHANGED <<rows, storage, cleaner, fails, cleanFails>>

\* The chunk objects are read into a temporary file.
Assemble(w, s) ==
    /\ At(w, s, "assemble")
    /\ IsWhole(object[s])
    /\ request' = [request EXCEPT ![w] = [@ EXCEPT !.pc = "replace", !.file = object[s]]]
    /\ UNCHANGED <<rows, storage, lock, cleaner, fails, cleanFails>>

\* _store_final_blob_at_exact_key: the blob of an interrupted completion is
\* deleted first.
BlobDelete(w, s) ==
    /\ At(w, s, "replace") /\ blob[s] # Empty
    /\ blob' = [blob EXCEPT ![s] = Empty]
    /\ UNCHANGED <<rows, object, lock, request, cleaner, fails, cleanFails>>

BlobSave(w, s) ==
    /\ At(w, s, "replace") /\ blob[s] = Empty
    /\ blob' = [blob EXCEPT ![s] = request[w].file]
    /\ GoTo(w, "commit")
    /\ UNCHANGED <<rows, object, lock, cleaner, fails, cleanFails>>

CompleteCommit(w, s) ==
    /\ At(w, s, "commit")
    /\ attachments' = [attachments EXCEPT ![s] = @ + 1]
    /\ status' = [status EXCEPT ![s] = "completed"]
    /\ Release(s)
    /\ request' = [request EXCEPT ![w] = [@ EXCEPT !.pc = "clean", !.file = Empty]]
    /\ UNCHANGED <<expired, receipt, storage, cleaner, fails, cleanFails>>

\* on_commit: the chunk objects are deleted, but for the deletes that fail.
CleanChunks(w, s) ==
    /\ At(w, s, "clean")
    /\ \E failed \in SUBSET Chunk :
          object' = [object EXCEPT ![s] =
                       [c \in Chunk |-> IF c \in failed THEN @[c] ELSE None]]
    /\ End(w)
    /\ UNCHANGED <<rows, blob, lock, cleaner, fails, cleanFails>>

\* The storage fails or the process ends: the transaction is rolled back.
Fail(w, s) ==
    /\ request[w].session = s /\ ~Idle(w)
    /\ fails < MaxFail
    /\ fails' = fails + 1
    /\ End(w)
    /\ lock' = [lock EXCEPT ![s] = @ \ {w}]
    /\ UNCHANGED <<rows, storage, cleaner, cleanFails>>

\* AttachmentSessionDetailView reads the row outside of a transaction ...
DetailRead(p, s) ==
    /\ Idle(p)
    /\ status[s] \in Unfinished /\ expired[s]
    /\ request' = [request EXCEPT ![p] = [@ EXCEPT !.pc = "expire", !.session = s]]
    /\ UNCHANGED <<rows, storage, lock, cleaner, fails, cleanFails>>

\* ... and marks it when nobody holds it.
DetailWrite(p, s) ==
    /\ At(p, s, "expire") /\ lock[s] = {}
    /\ status' = [status EXCEPT ![s] = "expired"]
    /\ End(p)
    /\ UNCHANGED <<expired, receipt, attachments, storage, lock, cleaner, fails, cleanFails>>

-----------------------------------------------------------------------------
(* The command cleanup_attachment_storage.                                 *)

Abandoned == {s \in Session : status[s] \in Unfinished /\ expired[s]}

\* Mutant: completed sessions are left alone.
MutCompleted == {}
Completed == {s \in Session : status[s] = "completed"}

CleanStart ==
    /\ cleaner.todo = {}
    /\ Abandoned \union Completed # {}
    /\ cleaner' = [todo |-> Abandoned \union Completed,
                   seen |-> status,
                   keys |-> [s \in Session |-> {c \in Chunk : receipt[s][c] # None}],
                   current |-> {}]
    /\ UNCHANGED <<rows, storage, lock, request, fails, cleanFails>>

Take(s) == s \in cleaner.todo /\ cleaner.current = {}

CleanExpire(s) ==
    /\ Take(s) /\ cleaner.seen[s] \in Unfinished
    /\ lock[s] = {}
    /\ status' = [status EXCEPT ![s] = "expired"]
    /\ cleaner' = [cleaner EXCEPT !.current = {s}]
    /\ UNCHANGED <<expired, receipt, attachments, storage, lock, request, fails, cleanFails>>

CleanCompleted(s) ==
    /\ Take(s) /\ cleaner.seen[s] = "completed"
    /\ cleaner' = [cleaner EXCEPT !.current = {s}]
    /\ UNCHANGED <<rows, storage, lock, request, fails, cleanFails>>

CleanDelete(s) ==
    /\ s \in cleaner.current
    /\ \E c \in cleaner.keys[s] :
          /\ object' = [object EXCEPT ![s][c] = None]
          /\ cleaner' = [cleaner EXCEPT !.keys[s] = @ \ {c}]
    /\ UNCHANGED <<rows, blob, lock, request, fails, cleanFails>>

CleanNext(s) ==
    /\ s \in cleaner.current /\ cleaner.keys[s] = {}
    /\ cleaner' = IF cleaner.todo = {s} THEN NoCleaning
                  ELSE [cleaner EXCEPT !.todo = @ \ {s}, !.current = {}]
    /\ UNCHANGED <<rows, storage, lock, request, fails, cleanFails>>

\* A delete raises, or the process ends: the command is over.
CleanFail ==
    /\ cleaner.todo # {} /\ cleanFails < MaxCleanFail
    /\ cleanFails' = cleanFails + 1
    /\ cleaner' = NoCleaning
    /\ UNCHANGED <<rows, storage, lock, request, fails>>

-----------------------------------------------------------------------------
Put(w, s) == PutKept(w, s) \/ PutDelete(w, s) \/ PutSave(w, s) \/ PutCommit(w, s)

Complete(w, s) ==
    \/ Assemble(w, s) \/ BlobDelete(w, s) \/ BlobSave(w, s)
    \/ CompleteCommit(w, s) \/ CleanChunks(w, s)

Clean(s) == CleanExpire(s) \/ CleanCompleted(s) \/ CleanDelete(s) \/ CleanNext(s)

Next ==
    \/ \E s \in Session : Create(s) \/ Expire(s) \/ Clean(s)
    \/ \E w \in Worker, s \in Session :
          \/ RefuseExpired(w, s) \/ CompleteStart(w, s)
          \/ \E c \in Chunk, v \in Content : PutStart(w, s, c, v)
          \/ Put(w, s) \/ Complete(w, s) \/ Fail(w, s)
    \/ \E p \in Reader, s \in Session : DetailRead(p, s) \/ DetailWrite(p, s)
    \/ CleanStart \/ CleanFail

Spec == Init /\ [][Next]_vars

-----------------------------------------------------------------------------
(* Safety.                                                                 *)

\* While a session can still be completed, each receipt stands for an object
\* with the very bytes it names, whatever requests were interrupted.
ReceiptsKept ==
    \A s \in Session : Open(s) => \A c \in Chunk :
        receipt[s][c] # None => object[s][c] = receipt[s][c]

\* A session makes one attachment, whose blob is there and is what the
\* receipts say, although interrupted completions and cleanups touch it.
AttachmentIntact ==
    \A s \in Session : attachments[s] > 0 =>
        attachments[s] = 1 /\ IsWhole(blob[s]) /\ blob[s] = receipt[s]

Final(s) == status[s] \in {"completed", "expired"}

\* The service is an AtomicUpload, each chunk received at the commit of its
\* receipt and each attachment made at the commit of its row, although every
\* request works on the storage before and after its commit: no request that
\* began earlier, no interrupted completion, reader or cleanup touches what a
\* final session holds.  (One that was completed may still be called expired,
\* see CompletionIsIdempotent.)
Upload ==
    INSTANCE AtomicUpload
    WITH closed <- [s \in Session |-> Final(s)], received <- receipt, made <- attachments,
         file <- [s \in Session |-> IF attachments[s] > 0 THEN blob[s] ELSE Empty]
ImplementsUpload == Upload!UploadSpec

\* Documented: "Completion is idempotent" (attachments.py:249).  A session
\* that made its attachment is completed, so that a retried completion is
\* answered with the attachment and not with 410.
CompletionIsIdempotent ==
    \A s \in Session : attachments[s] > 0 => status[s] = "completed"

-----------------------------------------------------------------------------
(* Liveness.  Requests end, and the timer runs the cleanup again and again. *)

Fairness ==
    /\ \A w \in Worker, s \in Session : WF_vars(Put(w, s) \/ Complete(w, s))
    /\ \A p \in Reader, s \in Session : WF_vars(DetailWrite(p, s))
    /\ \A s \in Session : WF_vars(Clean(s))
    /\ WF_vars(CleanStart)

FairSpec == Spec /\ Fairness

\* The temporary objects of a session that made its attachment are removed in
\* the end, although the deletes after the commit fail or never happen and the
\* cleanup itself fails: it selects completed sessions again and again.  Only a
\* session whose completed status was overwritten is not selected any more.
TemporaryRemoved ==
    \A s \in Session :
        attachments[s] > 0 ~> object[s] = Empty \/ status[s] = "expired"

\* Documented: "Expire abandoned attachment sessions and remove their
\* temporary chunk objects." (cleanup_attachment_storage.py:13).
AbandonedRemoved ==
    \A s \in Session : expired[s] ~> object[s] = Empty
=============================================================================
