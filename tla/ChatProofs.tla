----------------------------- MODULE ChatProofs -----------------------------
(***************************************************************************)
(* For any number of sessions, workers, requests, loaders, readers and     *)
(* apps: an attachment is made once and of the bytes of its receipts, a    *)
(* pair of users has one private conversation, the list of conversations   *)
(* misses only what its invariant names, and a deleted message stays       *)
(* deleted.                                                                *)
(***************************************************************************)
EXTENDS AttachmentUpload, Conversations, ChatMessages, FiniteSetTheorems, TLAPS

-----------------------------------------------------------------------------
(* Attachments: type correctness.                                          *)

LEMMA NoRequestType == NoRequest \in Request /\ NoRequest.pc = "idle" /\ NoRequest.session = None
BY DEF NoRequest, Request, Empty, Bytes

LEMMA NoneFree == None \notin Session /\ None \notin Content /\ None \notin Chunk
BY UploadAssumption

LEMMA UploadInitType == Init => TypeOK
BY NoRequestType, UploadAssumption, SMT
   DEF Init, TypeOK, Status, Bytes, Empty, Cleaner, NoCleaning

LEMMA RequestType ==
    ASSUME NEW r \in Request, NEW s \in Session
    PROVE  /\ \A c \in Chunk, v \in Content :
                 LET q == [r EXCEPT !.pc = "put", !.session = s, !.chunk = c, !.content = v] IN
                 /\ q \in Request /\ q.pc = "put" /\ q.session = s /\ q.chunk = c /\ q.content = v
           /\ \A pc \in {"assemble", "expire"} :
                 LET q == [r EXCEPT !.pc = pc, !.session = s] IN
                 q \in Request /\ q.pc = pc /\ q.session = s
           /\ \A pc \in {"receipt", "commit"} :
                 LET q == [r EXCEPT !.pc = pc] IN
                 /\ q \in Request /\ q.pc = pc /\ q.session = r.session
                 /\ q.chunk = r.chunk /\ q.content = r.content /\ q.file = r.file
           /\ \A pc \in {"replace", "clean"}, f \in Bytes :
                 LET q == [r EXCEPT !.pc = pc, !.file = f] IN
                 q \in Request /\ q.pc = pc /\ q.session = r.session /\ q.file = f
BY DEF Request

LEMMA EndType ==
    ASSUME TypeOK, NEW w \in Process, End(w)
    PROVE  request' \in [Process -> Request]
BY NoRequestType DEF TypeOK, End

LEMMA UploadStepType == TypeOK /\ [Next]_vars => TypeOK'
<1> SUFFICES ASSUME TypeOK, [Next]_vars PROVE TypeOK'
  OBVIOUS
<1>0. /\ request \in [Process -> Request] /\ \A p \in Process : request[p] \in Request
      /\ Worker \subseteq Process /\ Reader \subseteq Process
      /\ {"absent", "pending", "uploading", "completed", "expired"} = Status
      /\ object \in [Session -> Bytes] /\ receipt \in [Session -> Bytes] /\ blob \in [Session -> Bytes]
  BY DEF TypeOK, Process, Status
<1>1. ASSUME NEW s \in Session, Create(s) \/ Expire(s) PROVE TypeOK'
  BY <1>0, <1>1 DEF Create, Expire, TypeOK, rows, storage
<1>2. ASSUME NEW s \in Session, Clean(s) PROVE TypeOK'
  <2>0. /\ cleaner.todo \subseteq Session /\ cleaner.seen \in [Session -> Status]
        /\ cleaner.keys \in [Session -> SUBSET Chunk] /\ cleaner.current \subseteq Session
    BY DEF TypeOK, Cleaner
  <2>1. CASE CleanExpire(s) \/ CleanCompleted(s)
    <3>1. [cleaner EXCEPT !.current = {s}] \in Cleaner
      BY <2>0 DEF TypeOK, Cleaner
    <3> QED BY <1>0, <2>1, <3>1 DEF CleanExpire, CleanCompleted, TypeOK, rows, storage
  <2>2. CASE CleanDelete(s)
    <3>1. PICK c \in cleaner.keys[s] :
            /\ object' = [object EXCEPT ![s][c] = None]
            /\ cleaner' = [cleaner EXCEPT !.keys[s] = @ \ {c}]
      BY <2>2 DEF CleanDelete
    <3>2. cleaner' \in Cleaner
      BY <2>0, <3>1 DEF TypeOK, Cleaner
    <3>3. object' \in [Session -> Bytes]
      BY <1>0, <2>0, <3>1 DEF Bytes
    <3> QED BY <2>2, <3>2, <3>3 DEF CleanDelete, TypeOK, rows
  <2>3. CASE CleanNext(s)
    <3>1. NoCleaning \in Cleaner
      BY <1>0 DEF NoCleaning, Cleaner
    <3>2. [cleaner EXCEPT !.todo = @ \ {s}, !.current = {}] \in Cleaner
      BY <2>0 DEF TypeOK, Cleaner
    <3> QED BY <2>3, <3>1, <3>2 DEF CleanNext, TypeOK, rows, storage
  <2> QED BY <1>2, <2>1, <2>2, <2>3 DEF Clean
<1>3. ASSUME NEW w \in Worker, NEW s \in Session, RefuseExpired(w, s) PROVE TypeOK'
  BY <1>0, <1>3 DEF RefuseExpired, TypeOK, storage
<1>4. ASSUME NEW w \in Worker, NEW s \in Session, CompleteStart(w, s) PROVE TypeOK'
  <2>1. request' \in [Process -> Request]
    <3>1. request[w] \in Request /\ w \in Process /\ "assemble" \in {"assemble", "expire"}
      BY <1>0
    <3>2. [request[w] EXCEPT !.pc = "assemble", !.session = s] \in Request
      BY <3>1, RequestType
    <3>3. request' = [request EXCEPT ![w] = [request[w] EXCEPT !.pc = "assemble", !.session = s]]
      BY <1>4 DEF CompleteStart
    <3> QED BY <1>0, <3>2, <3>3
  <2>2. lock' \in [Session -> SUBSET Worker]
    BY <1>4 DEF CompleteStart, TypeOK
  <2> QED BY <1>4, <2>1, <2>2 DEF CompleteStart, TypeOK, rows, storage
<1>5. ASSUME NEW w \in Worker, NEW s \in Session, NEW c \in Chunk, NEW v \in Content,
             PutStart(w, s, c, v)
      PROVE  TypeOK'
  <2>1. request' \in [Process -> Request]
    <3> DEFINE q == [request[w] EXCEPT !.pc = "put", !.session = s, !.chunk = c, !.content = v]
    <3>1. request[w] \in Request /\ w \in Process
      BY <1>0
    <3>2. q \in Request
      BY <3>1, RequestType
    <3>3. request' = [request EXCEPT ![w] = q]
      BY <1>5 DEF PutStart
    <3> HIDE DEF q
    <3> QED BY <1>0, <3>1, <3>2, <3>3
  <2>2. lock' \in [Session -> SUBSET Worker]
    BY <1>5 DEF PutStart, TypeOK
  <2> QED BY <1>5, <2>1, <2>2 DEF PutStart, TypeOK, rows, storage
<1>6. ASSUME NEW w \in Worker, NEW s \in Session, Put(w, s) PROVE TypeOK'
  <2>0. request[w].content \in Content \union {None} /\ request[w].chunk \in Chunk \union {None}
    BY <1>0 DEF Request
  <2>1. object' \in [Session -> Bytes] /\ receipt' \in [Session -> Bytes]
    <3>1. \A f \in [Session -> Bytes], v \in Content \union {None} :
             [f EXCEPT ![s][request[w].chunk] = v] \in [Session -> Bytes]
      BY <2>0 DEF Bytes
    <3>2. CASE PutDelete(w, s) \/ PutSave(w, s)
      BY <1>0, <2>0, <3>1, <3>2 DEF PutDelete, PutSave, rows
    <3>3. CASE PutCommit(w, s)
      BY <1>0, <2>0, <3>1, <3>3 DEF PutCommit, storage
    <3>4. CASE PutKept(w, s)
      BY <1>0, <3>4 DEF PutKept, rows, storage
    <3> QED BY <1>6, <3>2, <3>3, <3>4 DEF Put
  <2>2. request' \in [Process -> Request]
    <3>1. CASE PutKept(w, s) \/ PutSave(w, s)
      <4>1. request' = [request EXCEPT ![w] = [request[w] EXCEPT !.pc = "receipt"]]
        BY <1>0, <3>1 DEF PutKept, PutSave, GoTo
      <4>2. [request[w] EXCEPT !.pc = "receipt"] \in Request
        BY <1>0, RequestType
      <4> QED BY <1>0, <4>1, <4>2
    <3>2. CASE PutDelete(w, s) \/ PutCommit(w, s)
      BY <1>0, <3>2, EndType DEF PutDelete, PutCommit
    <3> QED BY <1>6, <3>1, <3>2 DEF Put
  <2>3. lock' \in [Session -> SUBSET Worker]
    BY <1>6 DEF Put, PutKept, PutDelete, PutSave, PutCommit, Release, TypeOK
  <2>4. status' \in [Session -> Status]
    BY <1>0, <1>6 DEF Put, PutKept, PutDelete, PutSave, PutCommit, TypeOK, rows
  <2> QED BY <1>6, <2>1, <2>2, <2>3, <2>4
          DEF Put, PutKept, PutDelete, PutSave, PutCommit, TypeOK, rows, storage
<1>7. ASSUME NEW w \in Worker, NEW s \in Session, Complete(w, s) PROVE TypeOK'
  <2>0. request[w].file \in Bytes /\ Empty \in Bytes /\ object[s] \in Bytes
    BY <1>0 DEF Request, Empty, Bytes
  <2>1. CASE Assemble(w, s)
    <3>1. request' \in [Process -> Request]
      <4> DEFINE q == [request[w] EXCEPT !.pc = "replace", !.file = object[s]]
      <4>1. request[w] \in Request /\ w \in Process /\ "replace" \in {"replace", "clean"}
        BY <1>0
      <4>2. q \in Request
        BY <2>0, <4>1, RequestType
      <4>3. request' = [request EXCEPT ![w] = q]
        BY <2>1 DEF Assemble
      <4> HIDE DEF q
      <4> QED BY <1>0, <4>1, <4>2, <4>3
    <3> QED BY <2>1, <3>1 DEF Assemble, TypeOK, rows, storage
  <2>2. CASE BlobDelete(w, s)
    BY <1>0, <2>0, <2>2 DEF BlobDelete, TypeOK, rows
  <2>3. CASE BlobSave(w, s)
    <3>1. request' \in [Process -> Request]
      <4> DEFINE q == [request[w] EXCEPT !.pc = "commit"]
      <4>1. request[w] \in Request /\ w \in Process /\ "commit" \in {"receipt", "commit"}
        BY <1>0
      <4>2. q \in Request
        BY <4>1, RequestType
      <4>3. request' = [request EXCEPT ![w] = q]
        BY <2>3 DEF BlobSave, GoTo
      <4> HIDE DEF q
      <4> QED BY <1>0, <4>1, <4>2, <4>3
    <3> QED BY <1>0, <2>0, <2>3, <3>1 DEF BlobSave, TypeOK, rows
  <2>4. CASE CompleteCommit(w, s)
    <3>1. request' \in [Process -> Request]
      <4> DEFINE q == [request[w] EXCEPT !.pc = "clean", !.file = Empty]
      <4>1. request[w] \in Request /\ w \in Process /\ "clean" \in {"replace", "clean"}
        BY <1>0
      <4>2. q \in Request
        BY <2>0, <4>1, RequestType
      <4>3. request' = [request EXCEPT ![w] = q]
        BY <2>4 DEF CompleteCommit
      <4> HIDE DEF q
      <4> QED BY <1>0, <4>1, <4>2, <4>3
    <3>2. attachments' \in [Session -> Nat]
      BY <2>4, SMT DEF CompleteCommit, TypeOK
    <3> QED BY <1>0, <2>4, <3>1, <3>2 DEF CompleteCommit, Release, TypeOK, storage
  <2>5. CASE CleanChunks(w, s)
    <3>1. request' \in [Process -> Request]
      BY <1>0, <2>5, EndType DEF CleanChunks
    <3>2. object' \in [Session -> Bytes]
      BY <1>0, <2>5 DEF CleanChunks, Bytes
    <3> QED BY <2>5, <3>1, <3>2 DEF CleanChunks, TypeOK, rows
  <2> QED BY <1>7, <2>1, <2>2, <2>3, <2>4, <2>5 DEF Complete
<1>8. ASSUME NEW w \in Worker, NEW s \in Session, Fail(w, s) PROVE TypeOK'
  <2>1. request' \in [Process -> Request]
    BY <1>0, <1>8, EndType DEF Fail
  <2>2. lock' \in [Session -> SUBSET Worker] /\ fails' \in 0..MaxFail
    BY <1>8, UploadAssumption, SMT DEF Fail, TypeOK
  <2> QED BY <1>8, <2>1, <2>2 DEF Fail, TypeOK, rows, storage
<1>9. ASSUME NEW p \in Reader, NEW s \in Session, DetailRead(p, s) \/ DetailWrite(p, s) PROVE TypeOK'
  <2>1. request' \in [Process -> Request]
    <3>1. CASE DetailRead(p, s)
      <4>1. request[p] \in Request /\ p \in Process /\ "expire" \in {"assemble", "expire"}
        BY <1>0
      <4>2. [request[p] EXCEPT !.pc = "expire", !.session = s] \in Request
        BY <4>1, RequestType
      <4>3. request' = [request EXCEPT ![p] = [request[p] EXCEPT !.pc = "expire", !.session = s]]
        BY <3>1 DEF DetailRead
      <4> QED BY <1>0, <4>2, <4>3
    <3>2. CASE DetailWrite(p, s)
      BY <1>0, <3>2, EndType DEF DetailWrite
    <3> QED BY <1>9, <3>1, <3>2
  <2> QED BY <1>0, <1>9, <2>1 DEF DetailRead, DetailWrite, TypeOK, rows, storage
<1>10. CASE CleanStart
  <2>1. cleaner' \in Cleaner
    BY <1>10 DEF CleanStart, Cleaner, TypeOK, Abandoned, Completed
  <2> QED BY <1>10, <2>1 DEF CleanStart, TypeOK, rows, storage
<1>11. CASE CleanFail
  <2>1. cleaner' \in Cleaner /\ cleanFails' \in 0..MaxCleanFail
    BY <1>0, <1>11, UploadAssumption, SMT DEF CleanFail, NoCleaning, Cleaner, TypeOK
  <2> QED BY <1>11, <2>1 DEF CleanFail, TypeOK, rows, storage
<1>12. CASE UNCHANGED vars
  BY <1>12 DEF vars, TypeOK, rows, storage
<1> QED
  BY <1>1, <1>2, <1>3, <1>4, <1>5, <1>6, <1>7, <1>8, <1>9, <1>10, <1>11, <1>12 DEF Next

-----------------------------------------------------------------------------
(* Attachments: the lock of the session and the objects.                   *)

Working == {"put", "receipt", "assemble", "replace", "commit"}

\* What a worker that serves s knows: it holds the lock of a session that is
\* not final, and what it has done so far is still there.
Serves(w, s) ==
    LET r == request[w] IN
    /\ r.pc \in Working => lock[s] = {w} /\ ~Final(s)
    /\ r.pc \in {"put", "receipt"} =>
          r.chunk \in Chunk /\ r.content \in Content /\ receipt[s][r.chunk] = None
    /\ r.pc = "receipt" => object[s][r.chunk] = r.content
    /\ r.pc \in {"assemble", "replace", "commit"} => IsWhole(receipt[s])
    /\ r.pc \in {"replace", "commit"} => r.file = receipt[s]
    /\ r.pc = "commit" => blob[s] = receipt[s]
    /\ r.pc = "clean" => Final(s)

WorkersServe == \A w \in Worker, s \in Session : request[w].session = s => Serves(w, s)

\* The cleanup deletes objects of final sessions.
CleanerFinal ==
    /\ \A s \in cleaner.current : Final(s)
    /\ \A s \in Session : cleaner.seen[s] = "completed" => Final(s)

RowInv(s) ==
    /\ ~Final(s) => \A c \in Chunk : receipt[s][c] # None => object[s][c] = receipt[s][c]
    /\ attachments[s] > 0 =>
          Final(s) /\ attachments[s] = 1 /\ IsWhole(blob[s]) /\ blob[s] = receipt[s]

UploadInv == TypeOK /\ WorkersServe /\ CleanerFinal /\ \A s \in Session : RowInv(s)

\* What a step of a process p on a session s leaves alone.
Apart(p, s) ==
    /\ \A q \in Process \ {p} : request'[q] = request[q]
    /\ \A t \in Session \ {s} :
          /\ status'[t] = status[t] /\ receipt'[t] = receipt[t] /\ object'[t] = object[t]
          /\ blob'[t] = blob[t] /\ attachments'[t] = attachments[t] /\ lock'[t] = lock[t]

\* A step of a worker that serves s, or begins to, has to care for s alone.
LEMMA Elsewhere ==
    ASSUME UploadInv, NEW p \in Process, NEW s \in Session, Apart(p, s),
           UNCHANGED cleaner,
           Final(s) => Final(s)', RowInv(s)',
           p \in Worker => request'[p].session # s \/ Serves(p, s)',
           p \in Worker => request'[p].session \in {s, None},
           \A w \in Worker \ {p} : request[w].session = s => Serves(w, s)'
    PROVE  WorkersServe' /\ CleanerFinal' /\ \A t \in Session : RowInv(t)'
<1>1. \A t \in Session \ {s} : Final(t)' = Final(t) /\ RowInv(t)' = RowInv(t)
  BY DEF Apart, Final, RowInv
<1>2. CleanerFinal'
  BY <1>1 DEF UploadInv, CleanerFinal, TypeOK, Cleaner
<1>3. \A t \in Session : RowInv(t)'
  BY <1>1 DEF UploadInv
<1>4. ASSUME NEW w \in Worker, NEW t \in Session, request'[w].session = t PROVE Serves(w, t)'
  <2>1. CASE w = p
    BY <1>4, <2>1, UploadAssumption
  <2>2. CASE w # p /\ t = s
    BY <1>4, <2>2 DEF Apart, Process
  <2>3. CASE w # p /\ t # s
    <3>1. request'[w] = request[w]
      BY <2>3 DEF Apart, Process
    <3>2. Serves(w, t)
      BY <1>4, <3>1 DEF UploadInv, WorkersServe
    <3> QED BY <1>1, <2>3, <3>1, <3>2 DEF Serves, Apart
  <2> QED BY <2>1, <2>2, <2>3
<1> QED BY <1>2, <1>3, <1>4 DEF WorkersServe

\* While a worker holds the lock, the others are not at work on the session.
LEMMA Alone ==
    ASSUME UploadInv, NEW w \in Worker, NEW s \in Session,
           \/ lock[s] = {}
           \/ request[w].session = s /\ request[w].pc \in Working
    PROVE  \A v \in Worker \ {w} : request[v].session = s => request[v].pc \notin Working
BY DEF UploadInv, WorkersServe, Serves

\* Somebody who is not at work on a session keeps serving it.
LEMMA Bystander ==
    ASSUME UploadInv, NEW v \in Worker, NEW s \in Session, request[v].session = s,
           request'[v] = request[v], request[v].pc \notin Working, Final(s) => Final(s)'
    PROVE  Serves(v, s)'
BY DEF UploadInv, WorkersServe, Serves, Working

\* The steps that write one row and no object: nobody holds the lock.
LEMMA Finalized ==
    ASSUME UploadInv, NEW s \in Session,
           lock[s] = {}, status' = [status EXCEPT ![s] = "expired"],
           UNCHANGED <<receipt, storage, attachments, lock>>,
           \A w \in Worker : request'[w] = request[w]
    PROVE  /\ WorkersServe' /\ \A t \in Session : RowInv(t)'
           /\ \A t \in Session : Final(t) => Final(t)'
           /\ Final(s)'
<1>1. Final(s)' /\ \A t \in Session \ {s} : status'[t] = status[t]
  BY DEF UploadInv, TypeOK, Final
<1>2. \A t \in Session : Final(t) => Final(t)'
  BY <1>1 DEF Final
<1>3. \A t \in Session : RowInv(t)'
  BY <1>2 DEF UploadInv, RowInv, storage
<1>4. ASSUME NEW w \in Worker, NEW t \in Session, request'[w].session = t PROVE Serves(w, t)'
  <2>1. request'[w] = request[w]
    OBVIOUS
  <2>2. Serves(w, t)
    BY <1>4, <2>1 DEF UploadInv, WorkersServe
  <2>3. CASE t = s
    BY <1>1, <2>1, <2>2, <2>3 DEF Serves, storage
  <2>4. CASE t # s
    <3>1. Final(t)' = Final(t)
      BY <1>1, <2>4 DEF Final
    <3> QED BY <2>1, <2>2, <3>1 DEF Serves, storage
  <2> QED BY <2>3, <2>4
<1> QED BY <1>1, <1>2, <1>3, <1>4 DEF WorkersServe

LEMMA UploadInvStep == UploadInv /\ [Next]_vars => UploadInv'
<1> SUFFICES ASSUME UploadInv, [Next]_vars
             PROVE  WorkersServe' /\ CleanerFinal' /\ \A s \in Session : RowInv(s)'
  BY UploadStepType DEF UploadInv
<1>0. /\ request \in [Process -> Request] /\ \A p \in Process : request[p] \in Request
      /\ Worker \subseteq Process /\ Reader \subseteq Process
      /\ object \in [Session -> Bytes] /\ receipt \in [Session -> Bytes] /\ blob \in [Session -> Bytes]
      /\ status \in [Session -> Status] /\ attachments \in [Session -> Nat]
      /\ lock \in [Session -> SUBSET Worker]
      /\ cleaner \in Cleaner
  BY DEF UploadInv, TypeOK, Process
<1>1. ASSUME UNCHANGED <<status, receipt, storage, attachments, lock, request, cleaner>>
      PROVE  WorkersServe' /\ CleanerFinal' /\ \A s \in Session : RowInv(s)'
  BY <1>1 DEF UploadInv, WorkersServe, Serves, CleanerFinal, RowInv, Final, storage
<1>2. ASSUME NEW s \in Session, Create(s)
      PROVE  WorkersServe' /\ CleanerFinal' /\ \A t \in Session : RowInv(t)'
  <2>1. \A t \in Session : Final(t)' = Final(t)
    BY <1>0, <1>2 DEF Create, Final
  <2>2. UNCHANGED <<receipt, storage, attachments, lock, request, cleaner>>
    BY <1>2 DEF Create
  <2>3. WorkersServe'
    BY <2>1, <2>2 DEF UploadInv, WorkersServe, Serves, storage
  <2>4. cleaner.current \subseteq Session
    BY <1>0 DEF Cleaner
  <2>5. CleanerFinal'
    BY <2>1, <2>2, <2>4 DEF UploadInv, CleanerFinal
  <2>6. \A t \in Session : RowInv(t)'
    BY <2>1, <2>2 DEF UploadInv, RowInv, storage
  <2> QED BY <2>3, <2>5, <2>6
<1>3. ASSUME NEW s \in Session, Expire(s)
      PROVE  WorkersServe' /\ CleanerFinal' /\ \A t \in Session : RowInv(t)'
  BY <1>1, <1>3 DEF Expire
<1>4. ASSUME NEW s \in Session, Clean(s)
      PROVE  WorkersServe' /\ CleanerFinal' /\ \A t \in Session : RowInv(t)'
  <2>0. /\ cleaner.todo \subseteq Session /\ cleaner.seen \in [Session -> Status]
        /\ cleaner.keys \in [Session -> SUBSET Chunk] /\ cleaner.current \subseteq Session
    BY <1>0 DEF Cleaner
  <2>1. CASE CleanExpire(s)
    <3>1. /\ WorkersServe' /\ \A t \in Session : RowInv(t)'
          /\ \A t \in Session : Final(t) => Final(t)'
          /\ Final(s)'
      BY <2>1, Finalized DEF CleanExpire
    <3>2. cleaner'.current = {s} /\ cleaner'.seen = cleaner.seen
      BY <1>0, <2>1 DEF CleanExpire, Cleaner
    <3> QED BY <3>1, <3>2 DEF UploadInv, CleanerFinal
  <2>2. CASE CleanCompleted(s)
    <3>1. cleaner'.current = {s} /\ cleaner'.seen = cleaner.seen /\ cleaner.seen[s] = "completed"
      BY <1>0, <2>2 DEF CleanCompleted, Cleaner
    <3>2. UNCHANGED <<status, receipt, storage, attachments, lock, request>>
      BY <2>2 DEF CleanCompleted, rows
    <3> QED BY <3>1, <3>2 DEF UploadInv, WorkersServe, Serves, CleanerFinal, RowInv, Final, storage
  <2>3. CASE CleanDelete(s)
    <3>1. PICK c \in cleaner.keys[s] :
            /\ object' = [object EXCEPT ![s][c] = None]
            /\ cleaner' = [cleaner EXCEPT !.keys[s] = @ \ {c}]
      BY <2>3 DEF CleanDelete
    <3>2. cleaner'.current = cleaner.current /\ cleaner'.seen = cleaner.seen
      BY <1>0, <3>1 DEF Cleaner
    <3>3. UNCHANGED <<status, receipt, blob, attachments, lock, request>>
      BY <2>3 DEF CleanDelete, rows
    <3>4. Final(s) /\ \A t \in Session : Final(t)' = Final(t)
      BY <2>3, <3>3 DEF CleanDelete, UploadInv, CleanerFinal, Final
    <3>5. \A t \in Session \ {s} : object'[t] = object[t]
      BY <1>0, <3>1
    <3>6. \A t \in Session : RowInv(t)'
      BY <3>3, <3>4, <3>5 DEF UploadInv, RowInv
    <3>7. WorkersServe'
      BY <3>3, <3>4, <3>5 DEF UploadInv, WorkersServe, Serves, Working
    <3> QED BY <2>0, <3>2, <3>4, <3>6, <3>7 DEF UploadInv, CleanerFinal
  <2>4. CASE CleanNext(s)
    <3>1. cleaner'.current = {} /\ \A t \in Session : cleaner'.seen[t] \in {cleaner.seen[t], "absent"}
      BY <1>0, <2>4 DEF CleanNext, NoCleaning, Cleaner
    <3>2. UNCHANGED <<status, receipt, storage, attachments, lock, request>>
      BY <2>4 DEF CleanNext, rows
    <3> QED BY <3>1, <3>2 DEF UploadInv, WorkersServe, Serves, CleanerFinal, RowInv, Final, storage
  <2> QED BY <1>4, <2>1, <2>2, <2>3, <2>4 DEF Clean
<1>5. ASSUME NEW w \in Worker, NEW s \in Session, RefuseExpired(w, s)
      PROVE  WorkersServe' /\ CleanerFinal' /\ \A t \in Session : RowInv(t)'
  <2>1. /\ WorkersServe' /\ \A t \in Session : RowInv(t)'
        /\ \A t \in Session : Final(t) => Final(t)'
    BY <1>0, <1>5, Finalized DEF RefuseExpired
  <2>2. UNCHANGED cleaner
    BY <1>5 DEF RefuseExpired
  <2> QED BY <2>1, <2>2, <1>0 DEF UploadInv, CleanerFinal, Cleaner
<1>6. ASSUME NEW p \in Reader, NEW s \in Session, DetailRead(p, s)
      PROVE  WorkersServe' /\ CleanerFinal' /\ \A t \in Session : RowInv(t)'
  <2>1. UNCHANGED <<status, receipt, storage, attachments, lock, cleaner>>
        /\ \A w \in Worker : request'[w] = request[w]
    BY <1>0, <1>6, UploadAssumption DEF DetailRead, rows
  <2> QED BY <2>1 DEF UploadInv, WorkersServe, Serves, CleanerFinal, RowInv, Final, storage
<1>7. ASSUME NEW p \in Reader, NEW s \in Session, DetailWrite(p, s)
      PROVE  WorkersServe' /\ CleanerFinal' /\ \A t \in Session : RowInv(t)'
  <2>1. UNCHANGED cleaner /\ \A w \in Worker : request'[w] = request[w]
    BY <1>0, <1>7, UploadAssumption DEF DetailWrite, End
  <2>2. /\ WorkersServe' /\ \A t \in Session : RowInv(t)'
        /\ \A t \in Session : Final(t) => Final(t)'
    BY <1>0, <1>7, <2>1, Finalized DEF DetailWrite
  <2> QED BY <2>1, <2>2, <1>0 DEF UploadInv, CleanerFinal, Cleaner
<1>8. CASE CleanStart
  <2>1. cleaner'.seen = status /\ cleaner'.current = {}
    BY <1>8 DEF CleanStart
  <2>2. UNCHANGED <<status, receipt, storage, attachments, lock, request>>
    BY <1>8 DEF CleanStart, rows
  <2> QED BY <2>1, <2>2 DEF UploadInv, WorkersServe, Serves, CleanerFinal, RowInv, Final, storage
<1>9. CASE CleanFail
  <2>1. cleaner'.current = {} /\ \A s \in Session : cleaner'.seen[s] = "absent"
    BY <1>9 DEF CleanFail, NoCleaning
  <2>2. UNCHANGED <<status, receipt, storage, attachments, lock, request>>
    BY <1>9 DEF CleanFail, rows
  <2> QED BY <2>1, <2>2 DEF UploadInv, WorkersServe, Serves, CleanerFinal, RowInv, Final, storage
<1>10. CASE UNCHANGED vars
  BY <1>1, <1>10 DEF vars, storage
<1>11. ASSUME NEW w \in Worker, NEW s \in Session, NEW c \in Chunk, NEW v \in Content,
              PutStart(w, s, c, v)
       PROVE  WorkersServe' /\ CleanerFinal' /\ \A t \in Session : RowInv(t)'
  <2> DEFINE q == [request[w] EXCEPT !.pc = "put", !.session = s, !.chunk = c, !.content = v]
  <2>1. q.pc = "put" /\ q.session = s /\ q.chunk = c /\ q.content = v
    BY <1>0 DEF Request
  <2> HIDE DEF q
  <2>2. /\ request'[w] = q /\ lock'[s] = {w} /\ lock[s] = {} /\ Apart(w, s)
        /\ UNCHANGED <<status, receipt, object, blob, attachments, cleaner>>
    BY <1>0, <1>11 DEF PutStart, rows, storage, Apart, q
  <2>3. ~Final(s) /\ receipt[s][c] = None /\ Final(s)' = Final(s) /\ RowInv(s)' = RowInv(s)
    BY <1>11, <2>2 DEF PutStart, Open, Unfinished, Final, RowInv
  <2>4. Serves(w, s)'
    BY <2>1, <2>2, <2>3 DEF Serves
  <2>5. \A x \in Worker \ {w} : request[x].session = s => Serves(x, s)'
    BY <1>0, <2>2, <2>3, Alone, Bystander DEF Apart
  <2> QED BY <1>0, <2>1, <2>2, <2>3, <2>4, <2>5, Elsewhere DEF UploadInv
<1>12. ASSUME NEW w \in Worker, NEW s \in Session, CompleteStart(w, s)
       PROVE  WorkersServe' /\ CleanerFinal' /\ \A t \in Session : RowInv(t)'
  <2> DEFINE q == [request[w] EXCEPT !.pc = "assemble", !.session = s]
  <2>1. q.pc = "assemble" /\ q.session = s
    BY <1>0 DEF Request
  <2> HIDE DEF q
  <2>2. /\ request'[w] = q /\ lock'[s] = {w} /\ lock[s] = {} /\ Apart(w, s)
        /\ UNCHANGED <<status, receipt, object, blob, attachments, cleaner>>
    BY <1>0, <1>12 DEF CompleteStart, rows, storage, Apart, q
  <2>3. ~Final(s) /\ IsWhole(receipt[s]) /\ Final(s)' = Final(s) /\ RowInv(s)' = RowInv(s)
    BY <1>12, <2>2 DEF CompleteStart, Open, Unfinished, Final, RowInv
  <2>4. Serves(w, s)'
    BY <2>1, <2>2, <2>3 DEF Serves
  <2>5. \A x \in Worker \ {w} : request[x].session = s => Serves(x, s)'
    BY <1>0, <2>2, <2>3, Alone, Bystander DEF Apart
  <2> QED BY <1>0, <2>1, <2>2, <2>3, <2>4, <2>5, Elsewhere DEF UploadInv
<1>13. ASSUME NEW w \in Worker, NEW s \in Session, Put(w, s)
       PROVE  WorkersServe' /\ CleanerFinal' /\ \A t \in Session : RowInv(t)'
  <2> DEFINE r == request[w]
  <2>1. r.session = s /\ r.pc \in {"put", "receipt"} /\ Serves(w, s) /\ RowInv(s)
    BY <1>13 DEF Put, PutKept, PutDelete, PutSave, PutCommit, At, UploadInv, WorkersServe
  <2>2. /\ r.chunk \in Chunk /\ r.content \in Content /\ r.content # None
        /\ receipt[s][r.chunk] = None /\ ~Final(s) /\ lock[s] = {w}
    BY <2>1, UploadAssumption DEF Serves, Working
  <2>3. \A x \in Worker \ {w} : request[x].session = s => request[x].pc \notin Working
    BY <2>1, Alone DEF Working
  <2>4. ~(attachments[s] > 0)
    BY <2>1, <2>2 DEF RowInv
  <2>5. CASE PutKept(w, s) \/ PutSave(w, s)
    <3> DEFINE q == [r EXCEPT !.pc = "receipt"]
    <3>1. q.pc = "receipt" /\ q.session = s /\ q.chunk = r.chunk /\ q.content = r.content
      BY <1>0, <2>1 DEF Request
    <3>2. /\ request'[w] = q /\ Apart(w, s)
          /\ UNCHANGED <<status, receipt, blob, attachments, lock, cleaner>>
          /\ object'[s][r.chunk] = r.content
          /\ \A c \in Chunk \ {r.chunk} : object'[s][c] = object[s][c]
      <4>1. CASE PutKept(w, s)
        BY <1>0, <4>1 DEF PutKept, GoTo, Apart, rows, storage
      <4>2. CASE PutSave(w, s)
        <5>1. object' = [object EXCEPT ![s][r.chunk] = r.content]
          BY <4>2 DEF PutSave
        <5>2. /\ object'[s][r.chunk] = r.content
              /\ \A c \in Chunk \ {r.chunk} : object'[s][c] = object[s][c]
              /\ \A t \in Session \ {s} : object'[t] = object[t]
          BY <1>0, <2>2, <5>1 DEF Bytes
        <5> QED BY <1>0, <4>2, <5>2 DEF PutSave, GoTo, Apart, rows
      <4> QED BY <2>5, <4>1, <4>2
    <3> HIDE DEF q, r
    <3>3. Final(s)' = Final(s) /\ RowInv(s)'
      BY <2>1, <2>2, <2>4, <3>2 DEF RowInv, Final
    <3>4. Serves(w, s)'
      BY <2>2, <3>1, <3>2, <3>3 DEF Serves
    <3>5. \A x \in Worker \ {w} : request[x].session = s => Serves(x, s)'
      BY <1>0, <2>3, <3>2, <3>3, Bystander DEF Apart
    <3> QED BY <1>0, <3>1, <3>2, <3>3, <3>4, <3>5, Elsewhere
  <2>6. CASE PutDelete(w, s)
    <3>1. object' = [object EXCEPT ![s][r.chunk] = None]
      BY <2>6 DEF PutDelete
    <3>2. /\ \A c \in Chunk \ {r.chunk} : object'[s][c] = object[s][c]
          /\ \A t \in Session \ {s} : object'[t] = object[t]
      BY <1>0, <2>2, <3>1 DEF Bytes
    <3>3. /\ UNCHANGED <<status, receipt, blob, attachments, lock, request, cleaner>>
          /\ r.pc = "put" /\ Apart(w, s)
      BY <2>6, <3>2 DEF PutDelete, At, Apart, rows
    <3>4. Final(s)' = Final(s) /\ RowInv(s)'
      BY <2>1, <2>2, <2>4, <3>2, <3>3 DEF RowInv, Final
    <3>5. Serves(w, s)'
      BY <2>1, <3>3, <3>4 DEF Serves
    <3>6. \A x \in Worker \ {w} : request[x].session = s => Serves(x, s)'
      BY <1>0, <2>3, <3>3, <3>4, Bystander
    <3> QED BY <1>0, <2>1, <3>3, <3>4, <3>5, <3>6, Elsewhere
  <2>7. CASE PutCommit(w, s)
    <3>1. r.pc = "receipt" /\ object[s][r.chunk] = r.content
      BY <2>1, <2>7 DEF PutCommit, At, Serves
    <3>2. receipt' = [receipt EXCEPT ![s][r.chunk] = r.content]
      BY <2>7 DEF PutCommit
    <3>3. /\ receipt'[s][r.chunk] = r.content
          /\ \A c \in Chunk \ {r.chunk} : receipt'[s][c] = receipt[s][c]
          /\ \A t \in Session \ {s} : receipt'[t] = receipt[t]
      BY <1>0, <2>2, <3>2 DEF Bytes
    <3>4. /\ request'[w] = NoRequest /\ status'[s] = "uploading" /\ Apart(w, s)
          /\ UNCHANGED <<object, blob, attachments, cleaner>>
      BY <1>0, <2>7, <3>3 DEF PutCommit, End, Release, Apart, storage
    <3>5. (Final(s) => Final(s)') /\ RowInv(s)'
      BY <2>1, <2>2, <2>4, <3>1, <3>3, <3>4 DEF RowInv, Final
    <3>6. \A x \in Worker \ {w} : request[x].session = s => Serves(x, s)'
      BY <1>0, <2>3, <3>4, <3>5, Bystander DEF Apart
    <3>7. NoRequest.session = None /\ None # s
      BY NoRequestType, NoneFree
    <3> QED BY <1>0, <3>4, <3>5, <3>6, <3>7, Elsewhere
  <2> QED BY <1>13, <2>5, <2>6, <2>7 DEF Put
<1>14. ASSUME NEW w \in Worker, NEW s \in Session, Complete(w, s)
       PROVE  WorkersServe' /\ CleanerFinal' /\ \A t \in Session : RowInv(t)'
  <2> DEFINE r == request[w]
  <2>1. r.session = s /\ Serves(w, s) /\ RowInv(s)
    BY <1>14 DEF Complete, Assemble, BlobDelete, BlobSave, CompleteCommit, CleanChunks, At,
                 UploadInv, WorkersServe
  <2>2. NoRequest.session = None /\ None # s
    BY NoRequestType, NoneFree
  <2>3. CASE CleanChunks(w, s)
    <3>1. Final(s)
      BY <2>1, <2>3 DEF CleanChunks, At, Serves
    <3>2. /\ request'[w] = NoRequest /\ Apart(w, s)
          /\ UNCHANGED <<status, receipt, blob, attachments, lock, cleaner>>
      BY <1>0, <2>3 DEF CleanChunks, End, Apart, rows
    <3>3. Final(s)' = Final(s) /\ RowInv(s)'
      BY <2>1, <3>1, <3>2 DEF RowInv, Final
    <3>4. \A x \in Worker \ {w} : request[x].session = s => request[x].pc \notin Working
      BY <3>1 DEF UploadInv, WorkersServe, Serves
    <3>5. \A x \in Worker \ {w} : request[x].session = s => Serves(x, s)'
      BY <1>0, <3>2, <3>3, <3>4, Bystander DEF Apart
    <3> QED BY <1>0, <2>2, <3>2, <3>3, <3>5, Elsewhere
  <2>4. ASSUME r.pc \in {"assemble", "replace", "commit"}
        PROVE  /\ ~Final(s) /\ lock[s] = {w} /\ IsWhole(receipt[s]) /\ ~(attachments[s] > 0)
               /\ \A x \in Worker \ {w} : request[x].session = s => request[x].pc \notin Working
    BY <2>1, <2>4, Alone DEF Serves, RowInv, Working
  <2>5. CASE Assemble(w, s)
    <3> DEFINE q == [r EXCEPT !.pc = "replace", !.file = object[s]]
    <3>1. q.pc = "replace" /\ q.session = s /\ q.file = object[s]
      BY <1>0, <2>1 DEF Request
    <3>2. r.pc = "assemble"
      BY <2>5 DEF Assemble, At
    <3>3. /\ request'[w] = q /\ Apart(w, s)
          /\ UNCHANGED <<status, receipt, object, blob, attachments, lock, cleaner>>
      BY <1>0, <2>5 DEF Assemble, Apart, rows, storage
    <3>4. object[s] = receipt[s]
      <4>1. \A c \in Chunk : object[s][c] = receipt[s][c]
        BY <2>1, <2>4, <3>2 DEF RowInv, IsWhole
      <4>2. object[s] \in Bytes /\ receipt[s] \in Bytes
        BY <1>0
      <4> QED BY <4>1, <4>2 DEF Bytes
    <3> HIDE DEF q
    <3>5. Final(s)' = Final(s) /\ RowInv(s)'
      BY <2>1, <3>3 DEF RowInv, Final
    <3>6. Serves(w, s)'
      BY <2>4, <3>1, <3>2, <3>3, <3>4, <3>5 DEF Serves
    <3>7. \A x \in Worker \ {w} : request[x].session = s => Serves(x, s)'
      BY <1>0, <2>4, <3>2, <3>3, <3>5, Bystander DEF Apart
    <3> QED BY <1>0, <3>1, <3>3, <3>5, <3>6, <3>7, Elsewhere
  <2>6. CASE BlobDelete(w, s)
    <3>1. /\ r.pc = "replace" /\ Apart(w, s)
          /\ UNCHANGED <<status, receipt, object, attachments, lock, request, cleaner>>
      BY <1>0, <2>6 DEF BlobDelete, At, Apart, rows
    <3>2. Final(s)' = Final(s) /\ RowInv(s)'
      BY <2>1, <2>4, <3>1 DEF RowInv, Final
    <3>3. Serves(w, s)'
      BY <2>1, <3>1, <3>2 DEF Serves
    <3>4. \A x \in Worker \ {w} : request[x].session = s => Serves(x, s)'
      BY <1>0, <2>4, <3>1, <3>2, Bystander
    <3> QED BY <1>0, <2>1, <3>1, <3>2, <3>3, <3>4, Elsewhere
  <2>7. CASE BlobSave(w, s)
    <3> DEFINE q == [r EXCEPT !.pc = "commit"]
    <3>1. q.pc = "commit" /\ q.session = s /\ q.file = r.file
      BY <1>0, <2>1 DEF Request
    <3>2. r.pc = "replace" /\ r.file = receipt[s]
      BY <2>1, <2>7 DEF BlobSave, At, Serves
    <3>3. /\ request'[w] = q /\ Apart(w, s) /\ blob'[s] = r.file
          /\ UNCHANGED <<status, receipt, object, attachments, lock, cleaner>>
      BY <1>0, <2>7 DEF BlobSave, GoTo, Apart, rows
    <3> HIDE DEF q, r
    <3>4. Final(s)' = Final(s) /\ RowInv(s)'
      BY <2>1, <2>4, <3>2, <3>3 DEF RowInv, Final
    <3>5. Serves(w, s)'
      BY <2>4, <3>1, <3>2, <3>3, <3>4 DEF Serves
    <3>6. \A x \in Worker \ {w} : request[x].session = s => Serves(x, s)'
      BY <1>0, <2>4, <3>2, <3>3, <3>4, Bystander DEF Apart
    <3> QED BY <1>0, <3>1, <3>3, <3>4, <3>5, <3>6, Elsewhere
  <2>8. CASE CompleteCommit(w, s)
    <3> DEFINE q == [r EXCEPT !.pc = "clean", !.file = Empty]
    <3>1. q.pc = "clean" /\ q.session = s
      BY <1>0, <2>1 DEF Request
    <3>2. r.pc = "commit" /\ blob[s] = receipt[s]
      BY <2>1, <2>8 DEF CompleteCommit, At, Serves
    <3>3. /\ request'[w] = q /\ Apart(w, s) /\ status'[s] = "completed"
          /\ attachments'[s] = attachments[s] + 1
          /\ UNCHANGED <<receipt, object, blob, cleaner>>
      BY <1>0, <2>8 DEF CompleteCommit, Release, Apart, storage
    <3> HIDE DEF q
    <3>4. attachments[s] = 0
      BY <1>0, <2>4, <3>2, SMT
    <3>5. Final(s)' /\ RowInv(s)'
      BY <2>4, <3>2, <3>3, <3>4 DEF RowInv, Final, IsWhole
    <3>6. Serves(w, s)'
      BY <3>1, <3>3, <3>5 DEF Serves, Working
    <3>7. \A x \in Worker \ {w} : request[x].session = s => Serves(x, s)'
      BY <1>0, <2>4, <3>2, <3>3, <3>5, Bystander DEF Apart
    <3> QED BY <1>0, <3>1, <3>3, <3>5, <3>6, <3>7, Elsewhere
  <2> QED BY <1>14, <2>3, <2>5, <2>6, <2>7, <2>8 DEF Complete
<1>15. ASSUME NEW w \in Worker, NEW s \in Session, Fail(w, s)
       PROVE  WorkersServe' /\ CleanerFinal' /\ \A t \in Session : RowInv(t)'
  <2>1. /\ request'[w] = NoRequest /\ Apart(w, s) /\ lock'[s] = lock[s] \ {w}
        /\ UNCHANGED <<status, receipt, object, blob, attachments, cleaner>>
    BY <1>0, <1>15 DEF Fail, End, Apart, rows, storage
  <2>2. Final(s)' = Final(s) /\ RowInv(s)' = RowInv(s)
    BY <2>1 DEF Final, RowInv
  <2>3. ASSUME NEW x \in Worker \ {w}, request[x].session = s PROVE Serves(x, s)'
    <3>1. Serves(x, s) /\ request'[x] = request[x]
      BY <1>0, <2>1, <2>3 DEF UploadInv, WorkersServe, Apart
    <3> QED BY <2>1, <2>2, <3>1 DEF Serves
  <2>4. NoRequest.session = None /\ None # s
    BY NoRequestType, NoneFree
  <2> QED BY <1>0, <2>1, <2>2, <2>3, <2>4, Elsewhere DEF UploadInv
<1> QED
  BY <1>2, <1>3, <1>4, <1>5, <1>6, <1>7, <1>8, <1>9, <1>10, <1>11, <1>12, <1>13, <1>14, <1>15
     DEF Next

LEMMA UploadInvariant == Spec => []UploadInv
<1>1. Init => UploadInv
  <2> SUFFICES ASSUME Init PROVE WorkersServe /\ CleanerFinal /\ \A s \in Session : RowInv(s)
    BY UploadInitType DEF UploadInv
  <2>1. \A w \in Worker : request[w] = NoRequest
    BY DEF Init, Process
  <2>2. NoRequest.session = None
    BY NoRequestType
  <2>3. \A s \in Session : attachments[s] = 0 /\ \A c \in Chunk : receipt[s][c] = None
    BY DEF Init, Empty
  <2>4. cleaner.current = {} /\ \A s \in Session : cleaner.seen[s] = "absent"
    BY DEF Init, NoCleaning
  <2> QED BY <2>1, <2>2, <2>3, <2>4, NoneFree DEF WorkersServe, CleanerFinal, RowInv
<1> QED BY <1>1, UploadInvStep, PTL DEF Spec

\* Every variable of the uploads has its type, for any sessions, chunks,
\* workers and failures.
THEOREM UploadTypeCorrect == Spec => []TypeOK
<1>1. UploadInv => TypeOK
  BY DEF UploadInv
<1> QED BY <1>1, UploadInvariant, PTL

\* AttachmentChunkView writes a receipt after its object, and nobody deletes
\* an object of a session that can still be completed.
THEOREM ReceiptsHold == Spec => []ReceiptsKept
<1>1. UploadInv => ReceiptsKept
  BY DEF UploadInv, RowInv, ReceiptsKept, Open, Unfinished, Final
<1> QED BY <1>1, UploadInvariant, PTL

\* AttachmentSessionCompleteView makes one attachment from the very bytes of
\* the receipts, whatever was interrupted before.
THEOREM AttachmentsHold == Spec => []AttachmentIntact
<1>1. UploadInv => AttachmentIntact
  BY DEF UploadInv, RowInv, AttachmentIntact
<1> QED BY <1>1, UploadInvariant, PTL

-----------------------------------------------------------------------------
(* Attachments: each step is one of the atomic upload, or none.            *)

LEMMA UploadHidden ==
    ASSUME UNCHANGED <<status, receipt, blob, attachments>> PROVE UNCHANGED Upload!uploadVars
BY DEF Upload!uploadVars, Final

\* The row of a session is expired: it is given up, unless it was final.
LEMMA UploadGivenUp ==
    ASSUME TypeOK, NEW s \in Session, status' = [status EXCEPT ![s] = "expired"],
           UNCHANGED <<receipt, blob, attachments>>
    PROVE  Upload!GiveUp(s) \/ UNCHANGED Upload!uploadVars
<1>1. Final(s)' /\ \A t \in Session \ {s} : Final(t)' = Final(t)
  BY DEF TypeOK, Final
<1>2. CASE Final(s)
  <2>1. [t \in Session |-> Final(t)]' = [t \in Session |-> Final(t)]
    BY <1>1, <1>2 DEF Final
  <2> QED BY <2>1 DEF Upload!uploadVars
<1>3. CASE ~Final(s)
  <2>1. [t \in Session |-> Final(t)]' = [[t \in Session |-> Final(t)] EXCEPT ![s] = TRUE]
    BY <1>1
  <2>2. [t \in Session |-> IF attachments[t] > 0 THEN blob[t] ELSE Empty]' =
        [t \in Session |-> IF attachments[t] > 0 THEN blob[t] ELSE Empty]
    OBVIOUS
  <2> QED BY <1>3, <2>1, <2>2 DEF Upload!GiveUp, Upload!Close
<1> QED BY <1>2, <1>3

\* A worker that touches the blob holds the lock of a session without an
\* attachment.
LEMMA UploadBlob ==
    ASSUME UploadInv, NEW w \in Worker, NEW s \in Session, BlobDelete(w, s) \/ BlobSave(w, s)
    PROVE  UNCHANGED Upload!uploadVars
<1>1. Serves(w, s) /\ request[w].pc \in Working
  BY DEF UploadInv, WorkersServe, BlobDelete, BlobSave, At, Working
<1>2. ~(attachments[s] > 0)
  BY <1>1 DEF UploadInv, RowInv, Serves
<1>3. UNCHANGED <<status, receipt, attachments>> /\ \A t \in Session \ {s} : blob'[t] = blob[t]
  BY DEF UploadInv, TypeOK, BlobDelete, BlobSave, rows
<1> QED BY <1>2, <1>3 DEF Upload!uploadVars, Final

LEMMA UploadReceives ==
    ASSUME UploadInv, NEW w \in Worker, NEW s \in Session, PutCommit(w, s)
    PROVE  \E c \in Chunk, v \in Content : Upload!Receive(s, c, v)
<1> DEFINE c == request[w].chunk
           v == request[w].content
<1>1. Serves(w, s) /\ request[w].pc = "receipt"
  BY DEF UploadInv, WorkersServe, PutCommit, At
<1>2. c \in Chunk /\ v \in Content /\ receipt[s][c] = None /\ ~Final(s)
  BY <1>1 DEF Serves, Working
<1>3. /\ receipt' = [receipt EXCEPT ![s][c] = v] /\ UNCHANGED <<blob, attachments>>
      /\ status' = [status EXCEPT ![s] = "uploading"]
  BY DEF PutCommit, storage
<1>4. \A t \in Session : Final(t)' = Final(t)
  BY <1>2, <1>3 DEF UploadInv, TypeOK, Final
<1> HIDE DEF c, v
<1>5. Upload!Receive(s, c, v)
  BY <1>2, <1>3, <1>4 DEF Upload!Receive
<1> QED BY <1>2, <1>5

LEMMA UploadMakes ==
    ASSUME UploadInv, NEW w \in Worker, NEW s \in Session, CompleteCommit(w, s)
    PROVE  Upload!Make(s)
<1>1. Serves(w, s) /\ RowInv(s) /\ request[w].pc = "commit"
  BY DEF UploadInv, WorkersServe, CompleteCommit, At
<1>2. ~Final(s) /\ IsWhole(receipt[s]) /\ blob[s] = receipt[s] /\ ~(attachments[s] > 0)
  BY <1>1 DEF Serves, RowInv, Working
<1>3. /\ attachments \in [Session -> Nat] /\ attachments' = [attachments EXCEPT ![s] = @ + 1]
      /\ status \in [Session -> Status] /\ status' = [status EXCEPT ![s] = "completed"]
      /\ UNCHANGED <<receipt, blob>>
  BY DEF UploadInv, TypeOK, CompleteCommit, storage
<1>4. Final(s)' /\ \A t \in Session \ {s} : Final(t)' = Final(t)
  BY <1>3 DEF Final
<1>5. attachments'[s] > 0 /\ \A t \in Session \ {s} : attachments'[t] = attachments[t]
  BY <1>3, SMT
<1> DEFINE file == [t \in Session |-> IF attachments[t] > 0 THEN blob[t] ELSE Empty]
<1>6. file' = [file EXCEPT ![s] = receipt[s]]
  BY <1>2, <1>3, <1>5
<1>7. [t \in Session |-> Final(t)]' = [[t \in Session |-> Final(t)] EXCEPT ![s] = TRUE]
  BY <1>4
<1> QED BY <1>2, <1>3, <1>6, <1>7 DEF Upload!Make, Upload!Close, IsWhole

LEMMA UploadStep == ASSUME UploadInv, [Next]_vars PROVE [Upload!UploadNext]_Upload!uploadVars
<1>0. TypeOK
  BY DEF UploadInv
<1>1. ASSUME NEW s \in Session, Create(s)
      PROVE  UNCHANGED Upload!uploadVars
  <2>1. \A t \in Session : Final(t)' = Final(t)
    BY <1>0, <1>1 DEF Create, TypeOK, Final
  <2> QED BY <1>1, <2>1 DEF Create, storage, Upload!uploadVars
<1>2. ASSUME NEW s \in Session, Expire(s) \/ Clean(s)
      PROVE  [Upload!UploadNext]_Upload!uploadVars
  <2>1. CASE CleanExpire(s)
    BY <1>0, <2>1, UploadGivenUp DEF CleanExpire, storage, Upload!UploadNext
  <2>2. CASE Expire(s) \/ CleanCompleted(s) \/ CleanDelete(s) \/ CleanNext(s)
    BY <2>2, UploadHidden DEF Expire, CleanCompleted, CleanDelete, CleanNext, rows, storage
  <2> QED BY <1>2, <2>1, <2>2 DEF Clean
<1>3. ASSUME NEW w \in Worker, NEW s \in Session, RefuseExpired(w, s)
      PROVE  [Upload!UploadNext]_Upload!uploadVars
  BY <1>0, <1>3, UploadGivenUp DEF RefuseExpired, storage, Upload!UploadNext
<1>4. ASSUME NEW w \in Worker, NEW s \in Session, CompleteStart(w, s) \/ Fail(w, s)
      PROVE  UNCHANGED Upload!uploadVars
  BY <1>4, UploadHidden DEF CompleteStart, Fail, rows, storage
<1>5. ASSUME NEW w \in Worker, NEW s \in Session, NEW c \in Chunk, NEW v \in Content, PutStart(w, s, c, v)
      PROVE  UNCHANGED Upload!uploadVars
  BY <1>5, UploadHidden DEF PutStart, rows, storage
<1>6. ASSUME NEW w \in Worker, NEW s \in Session, Put(w, s)
      PROVE  [Upload!UploadNext]_Upload!uploadVars
  <2>1. CASE PutKept(w, s) \/ PutDelete(w, s) \/ PutSave(w, s)
    BY <2>1, UploadHidden DEF PutKept, PutDelete, PutSave, rows, storage
  <2>2. CASE PutCommit(w, s)
    BY <2>2, UploadReceives DEF Upload!UploadNext
  <2> QED BY <1>6, <2>1, <2>2 DEF Put
<1>7. ASSUME NEW w \in Worker, NEW s \in Session, Complete(w, s)
      PROVE  [Upload!UploadNext]_Upload!uploadVars
  <2>1. CASE Assemble(w, s) \/ CleanChunks(w, s)
    BY <2>1, UploadHidden DEF Assemble, CleanChunks, rows, storage
  <2>2. CASE CompleteCommit(w, s)
    BY <2>2, UploadMakes DEF Upload!UploadNext
  <2> QED BY <1>7, <2>1, <2>2, UploadBlob DEF Complete
<1>8. ASSUME NEW p \in Reader, NEW s \in Session, DetailRead(p, s) \/ DetailWrite(p, s)
      PROVE  [Upload!UploadNext]_Upload!uploadVars
  <2>1. CASE DetailRead(p, s)
    BY <2>1, UploadHidden DEF DetailRead, rows, storage
  <2>2. CASE DetailWrite(p, s)
    BY <1>0, <2>2, UploadGivenUp DEF DetailWrite, storage, Upload!UploadNext
  <2> QED BY <1>8, <2>1, <2>2
<1>9. CASE CleanStart \/ CleanFail \/ UNCHANGED vars
  BY <1>9, UploadHidden DEF CleanStart, CleanFail, rows, storage, vars
<1> QED BY <1>1, <1>2, <1>3, <1>4, <1>5, <1>6, <1>7, <1>8, <1>9 DEF Next

\* A session is written under its row lock, from the chunk that is received to
\* the attachment that is made, so that its clients see an atomic object; what
\* is done to the storage outside of a commit is done to sessions that nobody
\* has an attachment of, or to chunks that nobody needs any more.
THEOREM UploadImplemented == Spec => ImplementsUpload
<1>1. Init => Upload!UploadInit
  <2> SUFFICES ASSUME Init PROVE Upload!UploadInit
    OBVIOUS
  <2>0. ~(0 > 0)
    BY SMT
  <2>1. \A s \in Session : Final(s) = FALSE /\ ~(attachments[s] > 0)
    <3> TAKE s \in Session
    <3>1. status[s] = "absent" /\ attachments[s] = 0
      BY DEF Init
    <3> QED BY <2>0, <3>1 DEF Final
  <2>2. receipt = [s \in Session |-> Empty] /\ attachments = [s \in Session |-> 0]
    BY DEF Init
  <2>3. Upload!Nothing = Empty
    BY DEF Upload!Nothing, Empty
  <2> QED BY <2>1, <2>2, <2>3, Zenon DEF Upload!UploadInit
<1>2. UploadInv /\ [Next]_vars => [Upload!UploadNext]_Upload!uploadVars
  BY UploadStep
<1> QED BY <1>1, <1>2, UploadInvariant, PTL DEF Spec, ImplementsUpload, Upload!UploadSpec

-----------------------------------------------------------------------------
(* Conversations: type correctness.                                        *)

Answer == [pc : {"idle", "answered"}, rows : [ConversationId -> Time]]

LEMMA Ids == 0 \in Time /\ 1 \in Time /\ GeneralGroup \in ConversationId
BY ConversationsAssumption, SMT DEF Time, GeneralGroup, ConversationId

LEMMA Rows == NoRows \in [ConversationId -> Time] /\ NoFetch \in Answer
BY Ids DEF NoRows, NoFetch, Answer

\* A post under way is one on a conversation there is.
PostExists == post = NoPost \/ post.conversation \in Existing

LEMMA ConversationInitType == ConversationInit => ConversationTypeOK /\ PostExists
BY Ids, Rows DEF ConversationInit, ConversationTypeOK, NoPost, Answer, PostExists

LEMMA OverlapType ==
    ASSUME ConversationTypeOK, NEW c \in ConversationId, NEW stamp, Overlap(c, stamp)
    PROVE  exposed' \subseteq ConversationId
BY DEF Overlap, ConversationTypeOK

LEMMA LoadType ==
    ASSUME ConversationTypeOK, NEW l \in Loader, NEW S, Load(l, S)
    PROVE  /\ cursor' \in Int /\ shown' \in [ConversationId -> Time]
           /\ fetch' \in [Loader -> Answer]
<1>1. fetch \in [Loader -> Answer] /\ shown \in [ConversationId -> Time]
  BY DEF ConversationTypeOK, Answer
<1>2. fetch[l].rows \in [ConversationId -> Time]
  BY <1>1 DEF Answer
<1>3. cursor' \in Int
  <2>1. PICK d \in Drift : cursor' = clock + d
    BY DEF Load
  <2>2. d \in Int /\ clock \in Int
    BY <2>1, ConversationsAssumption, SMT DEF ConversationTypeOK, Time
  <2> QED BY <2>1, <2>2, SMT
<1> QED BY <1>1, <1>2, <1>3, Rows DEF Load, ConversationTypeOK

LEMMA StoredElsewhere ==
    ASSUME ConversationTypeOK, NEW c \in ConversationId, StoreElsewhere(c)
    PROVE  /\ shown' \in [ConversationId -> Time]
           /\ \A d \in ConversationId \ {c} : shown'[d] = shown[d]
           /\ c \in exposed' \/ shown'[c] = updated[c]
           /\ exposed \subseteq exposed' /\ exposed' \subseteq ConversationId
           /\ UNCHANGED <<updated, opening, post, clock, cursor, fetch>>
<1>1. PICK v \in 1..updated[c] :
        /\ shown' = [shown EXCEPT ![c] = v]
        /\ exposed' = IF v = updated[c] THEN exposed ELSE exposed \union {c}
  BY DEF StoreElsewhere
<1>2. v \in Time
  <2>1. updated[c] \in Time
    BY DEF ConversationTypeOK
  <2> QED BY <2>1, ConversationsAssumption, SMT DEF Time
<1>3. UNCHANGED <<updated, opening, post, clock, cursor, fetch>>
  BY DEF StoreElsewhere
<1>4. exposed \subseteq exposed' /\ exposed' \subseteq ConversationId
  BY <1>1 DEF ConversationTypeOK
<1>5. /\ shown' \in [ConversationId -> Time]
      /\ \A d \in ConversationId \ {c} : shown'[d] = shown[d]
      /\ c \in exposed' \/ shown'[c] = updated[c]
  BY <1>1, <1>2 DEF ConversationTypeOK
<1> QED BY <1>3, <1>4, <1>5

LEMMA Later == ASSUME ConversationTypeOK, clock < MaxTime PROVE clock + 1 \in Time /\ clock + 1 # 0
BY ConversationsAssumption, SMT DEF ConversationTypeOK, Time

LEMMA ConversationStepType ==
    ConversationTypeOK /\ PostExists /\ [ConversationNext]_conversationVars
      => ConversationTypeOK' /\ PostExists'
<1> SUFFICES ASSUME ConversationTypeOK, PostExists, [ConversationNext]_conversationVars
             PROVE  ConversationTypeOK' /\ PostExists'
  OBVIOUS
<1>1. ASSUME NEW o \in Opener, LockWorkspace(o) \/ OpenAgain(o)
      PROVE  ConversationTypeOK' /\ PostExists'
  BY <1>1 DEF LockWorkspace, OpenAgain, ConversationTypeOK, PostExists, Existing
<1>2. ASSUME NEW o \in Opener, CreateConversation(o) PROVE ConversationTypeOK' /\ PostExists'
  <2>1. PICK c \in PrivateId \ Existing :
          updated' = [updated EXCEPT ![c] = clock + 1] /\ Overlap(c, clock + 1)
    BY <1>2 DEF CreateConversation
  <2>2. c \in ConversationId
    BY <2>1 DEF ConversationId
  <2>3. exposed' \subseteq ConversationId
    BY <2>1, <2>2, OverlapType
  <2>4. clock + 1 \in Time /\ clock + 1 # 0
    BY <1>2, Later DEF CreateConversation
  <2>5. Existing \subseteq Existing'
    BY <2>1, <2>4 DEF Existing, ConversationTypeOK
  <2> QED BY <1>2, <2>1, <2>3, <2>4, <2>5
          DEF CreateConversation, ConversationTypeOK, PostExists
<1>3. ASSUME NEW c \in ConversationId, StampPost(c) PROVE ConversationTypeOK' /\ PostExists'
  <2>1. exposed' \subseteq ConversationId
    BY <1>3, OverlapType DEF StampPost
  <2>2. clock + 1 \in Time
    BY <1>3, Later DEF StampPost
  <2> QED BY <1>3, <2>1, <2>2 DEF StampPost, ConversationTypeOK, PostExists, Existing
<1>4. CASE CommitPost
  <2>1. post.conversation \in ConversationId /\ post.stamp \in Time
    BY <1>4 DEF CommitPost, ConversationTypeOK, PostExists, Existing
  <2>2. exposed' \subseteq ConversationId
    BY <1>4, <2>1, OverlapType DEF CommitPost
  <2> QED BY <1>4, <2>1, <2>2, Ids DEF CommitPost, ConversationTypeOK, PostExists, NoPost
<1>5. CASE RestartList
  BY <1>5, Ids, Rows DEF RestartList, ConversationTypeOK, Answer, PostExists, Existing
<1>6. ASSUME NEW l \in Loader, FetchList(l) PROVE ConversationTypeOK' /\ PostExists'
  <2>1. PICK A \in SUBSET ConversationId, after \in Int :
          /\ fetch' = [fetch EXCEPT ![l] =
                [pc |-> "answered",
                 rows |-> [c \in ConversationId |-> IF c \in A THEN updated[c] ELSE 0]]]
          /\ exposed' = exposed \union (UpdatedAfter(after) \ A)
                          \union IF post = NoPost THEN {} ELSE {post.conversation}
    <3>1. Page(0) \subseteq ConversationId /\ Page(cursor) \subseteq ConversationId
      BY DEF Page, UpdatedAfter, Existing
    <3>2. cursor \in Int /\ 0 \in Int
      BY DEF ConversationTypeOK
    <3> QED BY <1>6, <3>1, <3>2 DEF FetchList
  <2>2. [c \in ConversationId |-> IF c \in A THEN updated[c] ELSE 0] \in [ConversationId -> Time]
    BY Ids DEF ConversationTypeOK
  <2>3. fetch' \in [Loader -> Answer]
    BY <2>1, <2>2 DEF ConversationTypeOK, Answer
  <2>4. exposed' \subseteq ConversationId
    BY <2>1 DEF ConversationTypeOK, UpdatedAfter, Existing, PostExists
  <2> QED BY <1>6, <2>3, <2>4 DEF FetchList, ConversationTypeOK, PostExists, Existing, Answer
<1>7. ASSUME NEW l \in Loader, ListLoaded(l) \/ StoreFailed(l)
      PROVE  ConversationTypeOK' /\ PostExists'
  <2>1. PICK S \in SUBSET Answered(l) :
          Load(l, S) /\ exposed' \in {exposed, exposed \union (Answered(l) \ S)}
    BY <1>7 DEF ListLoaded, StoreFailed
  <2>2. exposed' \subseteq ConversationId
    BY <2>1 DEF ConversationTypeOK, Answered
  <2>3. cursor' \in Int /\ shown' \in [ConversationId -> Time] /\ fetch' \in [Loader -> Answer]
    BY <2>1, LoadType
  <2>4. UNCHANGED <<updated, opening, post, clock>>
    BY <2>1 DEF Load
  <2> QED BY <2>2, <2>3, <2>4 DEF ConversationTypeOK, PostExists, Existing, Answer
<1>8. ASSUME NEW l \in Loader, ListFailed(l) PROVE ConversationTypeOK' /\ PostExists'
  <2>1. fetch' \in [Loader -> Answer]
    BY <1>8, Rows DEF ListFailed, ConversationTypeOK, Answer
  <2> QED BY <1>8, <2>1 DEF ListFailed, ConversationTypeOK, PostExists, Existing, Answer
<1>9. CASE UNCHANGED conversationVars
  BY <1>9 DEF conversationVars, ConversationTypeOK, PostExists, Existing
<1>10. ASSUME NEW c \in ConversationId, StoreElsewhere(c) PROVE ConversationTypeOK' /\ PostExists'
  <2>1. shown' \in [ConversationId -> Time]
    BY <1>10, StoredElsewhere
  <2>2. exposed' \subseteq ConversationId /\ UNCHANGED <<updated, opening, post, clock, cursor, fetch>>
    BY <1>10, StoredElsewhere
  <2> QED BY <2>1, <2>2 DEF ConversationTypeOK, PostExists, Existing
<1> QED BY <1>1, <1>2, <1>3, <1>4, <1>5, <1>6, <1>7, <1>8, <1>9, <1>10 DEF ConversationNext

LEMMA ConversationTypes == ConversationSpec => [](ConversationTypeOK /\ PostExists)
BY ConversationInitType, ConversationStepType, PTL DEF ConversationSpec

-----------------------------------------------------------------------------
(* One conversation of a pair.                                             *)

\* One request holds the row of the workspace, and found no conversation.
WorkspaceLock ==
    /\ \A o, x \in Opener : opening[o] = "locked" /\ opening[x] = "locked" => o = x
    /\ \A o \in Opener : opening[o] = "locked" => OfPair = {}
    /\ \A c, d \in OfPair : c = d

LEMMA WorkspaceLockStep ==
    ConversationTypeOK /\ PostExists /\ WorkspaceLock /\ [ConversationNext]_conversationVars
      => WorkspaceLock'
<1> SUFFICES ASSUME ConversationTypeOK, PostExists, WorkspaceLock,
                    [ConversationNext]_conversationVars
             PROVE  WorkspaceLock'
  OBVIOUS
<1>1. ASSUME NEW o \in Opener, LockWorkspace(o) PROVE WorkspaceLock'
  <2>1. OfPair' = OfPair /\ \A x \in Opener : opening'[x] = "locked" => x = o /\ OfPair = {}
    BY <1>1 DEF LockWorkspace, ConversationTypeOK, OfPair, Existing
  <2> QED BY <2>1 DEF WorkspaceLock
<1>2. ASSUME NEW o \in Opener, CreateConversation(o) PROVE WorkspaceLock'
  <2>1. PICK c \in PrivateId \ Existing : updated' = [updated EXCEPT ![c] = clock + 1]
    BY <1>2 DEF CreateConversation
  <2>2. OfPair = {}
    BY <1>2 DEF CreateConversation, WorkspaceLock
  <2>3. OfPair' \subseteq {c}
    BY <2>1, <2>2 DEF OfPair, Existing, ConversationTypeOK
  <2>4. \A x \in Opener : opening'[x] # "locked"
    BY <1>2 DEF CreateConversation, WorkspaceLock, ConversationTypeOK
  <2> QED BY <2>3, <2>4 DEF WorkspaceLock
<1>3. ASSUME NEW o \in Opener, OpenAgain(o) PROVE WorkspaceLock'
  <2>1. OfPair' = OfPair /\ \A x \in Opener : opening'[x] = "locked" => opening[x] = "locked"
    BY <1>3 DEF OpenAgain, ConversationTypeOK, OfPair, Existing
  <2> QED BY <2>1 DEF WorkspaceLock
<1>4. CASE CommitPost
  <2>1. opening' = opening /\ OfPair' \subseteq OfPair
    BY <1>4 DEF CommitPost, ConversationTypeOK, PostExists, OfPair, Existing
  <2> QED BY <2>1 DEF WorkspaceLock
<1>5. CASE UNCHANGED <<updated, opening>>
  BY <1>5 DEF WorkspaceLock, OfPair, Existing
<1>6. ASSUME NEW c \in ConversationId, StampPost(c) PROVE WorkspaceLock'
  BY <1>5, <1>6 DEF StampPost
<1>10. ASSUME NEW c \in ConversationId, StoreElsewhere(c) PROVE WorkspaceLock'
  BY <1>5, <1>10 DEF StoreElsewhere
<1>7. CASE RestartList
  BY <1>5, <1>7 DEF RestartList
<1>8. ASSUME NEW l \in Loader,
             FetchList(l) \/ ListLoaded(l) \/ StoreFailed(l) \/ ListFailed(l)
      PROVE  WorkspaceLock'
  BY <1>5, <1>8 DEF FetchList, ListLoaded, StoreFailed, ListFailed, Load
<1>9. CASE UNCHANGED conversationVars
  BY <1>5, <1>9 DEF conversationVars
<1> QED BY <1>1, <1>2, <1>3, <1>4, <1>6, <1>7, <1>8, <1>9, <1>10 DEF ConversationNext

\* The lock of the workspace in get_or_create_private_conversation keeps the
\* pair to one conversation, for any number of requests at the same time.
THEOREM OneConversation == ConversationSpec => []OnePrivateConversation
<1>1. ConversationInit => WorkspaceLock
  <2> SUFFICES ASSUME ConversationInit PROVE OfPair = {} /\ \A o \in Opener : opening[o] = "start"
    BY DEF WorkspaceLock
  <2> QED BY DEF ConversationInit, OfPair, Existing, NoRows
<1>2. WorkspaceLock => OnePrivateConversation
  <2> SUFFICES ASSUME WorkspaceLock PROVE Cardinality(OfPair) <= 1
    BY DEF OnePrivateConversation
  <2>1. CASE OfPair = {}
    BY <2>1, FS_EmptySet, SMT
  <2>2. ASSUME NEW c \in OfPair PROVE Cardinality(OfPair) <= 1
    <3>1. OfPair = {c}
      BY <2>2 DEF WorkspaceLock
    <3>2. Cardinality({c}) = 1
      BY FS_Singleton
    <3> QED BY <3>1, <3>2
  <2> QED BY <2>1, <2>2
<1> QED
  BY <1>1, <1>2, ConversationTypes, WorkspaceLockStep, PTL DEF ConversationSpec

-----------------------------------------------------------------------------
(* The list of conversations.                                              *)

\* A post under way is stamped.
PostStamped == post # NoPost => post.stamp > 0

\* A post under way is exposed while a list is fetched, and once it is passed.
PostExposed ==
    post # NoPost => \/ post.conversation \in exposed
                     \/ post.stamp > cursor /\ \A l \in Loader : fetch[l].pc = "idle"

\* An answer has what is not exposed as it is, or leaves out what is shown.
AnswerCurrent ==
    \A l \in Loader : fetch[l].pc = "answered" =>
        \A c \in Existing \ exposed :
            \/ fetch[l].rows[c] = updated[c]
            \/ fetch[l].rows[c] = 0 /\ shown[c] = updated[c]

ListInv == PostStamped /\ PostExposed /\ AnswerCurrent /\ ListMissesOnlyExposed

LEMMA ListStep ==
    ConversationTypeOK /\ PostExists /\ ListInv /\ [ConversationNext]_conversationVars
      => ListInv'
<1> SUFFICES ASSUME ConversationTypeOK, PostExists, ListInv,
                    [ConversationNext]_conversationVars
             PROVE  ListInv'
  OBVIOUS
<1>0. /\ clock \in Nat /\ cursor \in Int /\ post.stamp \in Nat
      /\ \A c \in ConversationId : updated[c] \in Nat /\ shown[c] \in Nat
      /\ fetch \in [Loader -> Answer] /\ shown \in [ConversationId -> Time]
      /\ Existing \subseteq ConversationId
  BY DEF ConversationTypeOK, Time, Answer, Existing
<1>1. ASSUME NEW o \in Opener, LockWorkspace(o) \/ OpenAgain(o) PROVE ListInv'
  BY <1>1 DEF LockWorkspace, OpenAgain, ListInv, PostStamped, PostExposed, AnswerCurrent,
              ListMissesOnlyExposed, Existing
<1>2. ASSUME NEW o \in Opener, CreateConversation(o) PROVE ListInv'
  <2>1. PICK c \in PrivateId \ Existing :
          updated' = [updated EXCEPT ![c] = clock + 1] /\ Overlap(c, clock + 1)
    BY <1>2 DEF CreateConversation
  <2>2. /\ clock' = clock + 1 /\ UNCHANGED <<post, shown, cursor, fetch>>
        /\ exposed \subseteq exposed' /\ c \in ConversationId
        /\ \/ c \in exposed'
           \/ clock + 1 > cursor /\ \A l \in Loader : fetch[l].pc # "answered"
    BY <1>0, <1>2, <2>1 DEF CreateConversation, Overlap, ConversationId
  <2>3. updated'[c] = clock + 1 /\ Existing' = Existing \union {c}
        /\ \A d \in ConversationId \ {c} : updated'[d] = updated[d]
    BY <1>0, <2>1, <2>2 DEF Existing, ConversationTypeOK
  <2>4. PostStamped'
    BY <2>2 DEF ListInv, PostStamped
  <2>5. PostExposed'
    BY <2>2 DEF ListInv, PostExposed
  <2>6. AnswerCurrent'
    BY <1>0, <2>2, <2>3 DEF ListInv, AnswerCurrent
  <2>7. ListMissesOnlyExposed'
    BY <1>0, <2>2, <2>3 DEF ListInv, PostStamped, ListMissesOnlyExposed
  <2> QED BY <2>4, <2>5, <2>6, <2>7 DEF ListInv
<1>3. ASSUME NEW c \in ConversationId, StampPost(c) PROVE ListInv'
  <2>1. /\ clock' = clock + 1 /\ post' = [conversation |-> c, stamp |-> clock + 1]
        /\ UNCHANGED <<updated, shown, cursor, fetch>> /\ exposed \subseteq exposed'
        /\ \/ c \in exposed'
           \/ clock + 1 > cursor /\ \A l \in Loader : fetch[l].pc # "answered"
    BY <1>0, <1>3 DEF StampPost, Overlap
  <2>2. PostStamped'
    BY <1>0, <2>1 DEF ListInv, PostStamped
  <2>3. PostExposed'
    <3>1. \A l \in Loader : fetch[l].pc \in {"idle", "answered"}
      BY <1>0 DEF Answer
    <3> QED BY <2>1, <3>1 DEF PostExposed
  <2>4. AnswerCurrent' /\ ListMissesOnlyExposed'
    BY <2>1 DEF ListInv, AnswerCurrent, ListMissesOnlyExposed, Existing
  <2> QED BY <2>2, <2>3, <2>4 DEF ListInv
<1>4. CASE CommitPost
  <2> DEFINE c == post.conversation
  <2>1. /\ updated' = [updated EXCEPT ![c] = post.stamp] /\ post' = NoPost
        /\ UNCHANGED <<clock, shown, cursor, fetch>> /\ exposed \subseteq exposed'
        /\ \/ c \in exposed'
           \/ \A l \in Loader : fetch[l].pc # "answered"
        /\ c \in Existing /\ post # NoPost
    BY <1>4 DEF CommitPost, Overlap, PostExists
  <2>2. /\ updated'[c] = post.stamp /\ Existing' \subseteq Existing
        /\ \A d \in ConversationId \ {c} : updated'[d] = updated[d]
    BY <2>1 DEF Existing, ConversationTypeOK
  <2>3. c \in exposed' \/ post.stamp > cursor
    BY <2>1 DEF ListInv, PostExposed
  <2>4. PostStamped'
    BY <1>0, <2>1, <2>2 DEF ListInv, PostStamped, NoPost
  <2>5. PostExposed'
    BY <2>1 DEF PostExposed
  <2>6. AnswerCurrent'
    BY <1>0, <2>1, <2>2 DEF ListInv, AnswerCurrent
  <2>7. ListMissesOnlyExposed'
    BY <1>0, <2>1, <2>2, <2>3 DEF ListInv, ListMissesOnlyExposed
  <2> QED BY <2>4, <2>5, <2>6, <2>7 DEF ListInv
<1>5. CASE RestartList
  <2>1. /\ cursor' = 0 /\ \A l \in Loader : fetch'[l].pc = "idle"
        /\ UNCHANGED <<updated, post, clock, shown>>
    BY <1>5 DEF RestartList, NoFetch
  <2>2. PostStamped' /\ AnswerCurrent'
    BY <1>0, <2>1 DEF ListInv, PostStamped, AnswerCurrent
  <2>3. PostExposed'
    BY <2>1 DEF ListInv, PostStamped, PostExposed
  <2>4. ListMissesOnlyExposed'
    BY <1>0, <2>1 DEF ListMissesOnlyExposed, Existing
  <2> QED BY <2>2, <2>3, <2>4 DEF ListInv
<1>6. ASSUME NEW l \in Loader, FetchList(l) PROVE ListInv'
  <2>1. PICK A \in SUBSET ConversationId, after \in {0, cursor} :
          /\ fetch' = [fetch EXCEPT ![l] =
                [pc |-> "answered",
                 rows |-> [c \in ConversationId |-> IF c \in A THEN updated[c] ELSE 0]]]
          /\ exposed' = exposed \union (UpdatedAfter(after) \ A)
                          \union IF post = NoPost THEN {} ELSE {post.conversation}
    <3>1. Page(0) \subseteq ConversationId /\ Page(cursor) \subseteq ConversationId
      BY DEF Page, UpdatedAfter, Existing
    <3> QED BY <1>6, <3>1 DEF FetchList
  <2>2. UNCHANGED <<updated, post, clock, shown, cursor>> /\ Existing' = Existing
    BY <1>6 DEF FetchList, Existing
  <2>3. PostStamped' /\ PostExposed' /\ ListMissesOnlyExposed'
    BY <2>1, <2>2 DEF ListInv, PostStamped, PostExposed, ListMissesOnlyExposed
  <2>4. ASSUME NEW x \in Loader, fetch'[x].pc = "answered", NEW c \in Existing \ exposed'
        PROVE  \/ fetch'[x].rows[c] = updated[c]
               \/ fetch'[x].rows[c] = 0 /\ shown[c] = updated[c]
    <3>1. CASE x # l
      BY <1>0, <2>1, <2>4, <3>1 DEF ListInv, AnswerCurrent
    <3>2. CASE x = l
      <4>1. fetch'[x].rows[c] = IF c \in A THEN updated[c] ELSE 0
        BY <1>0, <2>1, <3>2
      <4>2. CASE c \notin A
        <5>1. ~(updated[c] > after)
          BY <2>1, <2>4, <4>2 DEF UpdatedAfter
        <5>2. updated[c] <= cursor /\ c \notin exposed
          BY <1>0, <2>1, <2>4, <5>1 DEF Existing
        <5> QED BY <4>1, <4>2, <5>2 DEF ListInv, ListMissesOnlyExposed
      <4> QED BY <4>1, <4>2
    <3> QED BY <3>1, <3>2
  <2> QED BY <2>2, <2>3, <2>4 DEF ListInv, AnswerCurrent
<1>7. ASSUME NEW l \in Loader, ListLoaded(l) \/ StoreFailed(l) PROVE ListInv'
  <2>1. PICK S \in SUBSET Answered(l) :
          Load(l, S) /\ exposed' = exposed \union (Answered(l) \ S)
    BY <1>7 DEF ListLoaded, StoreFailed
  <2>2. /\ UNCHANGED <<updated, post, clock>>
        /\ \A c \in ConversationId :
             shown'[c] = IF c \in S THEN fetch[l].rows[c] ELSE shown[c]
        /\ \A x \in Loader : x # l => fetch'[x] = fetch[x]
        /\ fetch'[l].pc = "idle" /\ fetch[l].pc = "answered"
        /\ Existing' = Existing
    BY <1>0, <2>1 DEF Load, NoFetch, Existing
  <2>3. ASSUME NEW c \in Existing \ exposed' PROVE shown'[c] = updated[c]
    <3>1. \/ fetch[l].rows[c] = updated[c]
          \/ fetch[l].rows[c] = 0 /\ shown[c] = updated[c]
      BY <2>1, <2>2, <2>3 DEF ListInv, AnswerCurrent
    <3>2. c \in S <=> fetch[l].rows[c] # 0
      BY <1>0, <2>1, <2>3 DEF Answered
    <3> QED BY <1>0, <2>2, <2>3, <3>1, <3>2 DEF Existing
  <2>4. PostStamped'
    BY <1>0, <2>2 DEF ListInv, PostStamped
  <2>5. PostExposed'
    BY <2>1, <2>2 DEF ListInv, PostExposed
  <2>6. AnswerCurrent'
    BY <2>1, <2>2, <2>3 DEF ListInv, AnswerCurrent
  <2>7. ListMissesOnlyExposed'
    BY <2>2, <2>3 DEF ListMissesOnlyExposed
  <2> QED BY <2>4, <2>5, <2>6, <2>7 DEF ListInv
<1>8. ASSUME NEW l \in Loader, ListFailed(l) PROVE ListInv'
  <2>1. /\ UNCHANGED <<updated, post, clock, shown, cursor, exposed>>
        /\ \A x \in Loader : fetch'[x] = fetch[x] \/ fetch'[x].pc = "idle"
    BY <1>0, <1>8 DEF ListFailed, NoFetch
  <2> QED BY <2>1 DEF ListInv, PostStamped, PostExposed, AnswerCurrent, ListMissesOnlyExposed, Existing
<1>10. ASSUME NEW c \in ConversationId, StoreElsewhere(c) PROVE ListInv'
  <2>1. shown' \in [ConversationId -> Time]
    BY <1>10, StoredElsewhere
  <2>2. exposed \subseteq exposed' /\ UNCHANGED <<updated, opening, post, clock, cursor, fetch>>
    BY <1>10, StoredElsewhere
  <2>3. /\ \A d \in ConversationId \ {c} : shown'[d] = shown[d]
        /\ c \in exposed' \/ shown'[c] = updated[c]
    BY <1>10, StoredElsewhere
  <2>4. PostStamped' /\ PostExposed'
    BY <2>2 DEF ListInv, PostStamped, PostExposed
  <2>5. AnswerCurrent'
    BY <1>0, <2>2, <2>3 DEF ListInv, AnswerCurrent, Existing
  <2>6. ListMissesOnlyExposed'
    BY <1>0, <2>2, <2>3 DEF ListInv, ListMissesOnlyExposed, Existing
  <2> QED BY <2>4, <2>5, <2>6 DEF ListInv
<1>9. CASE UNCHANGED conversationVars
  BY <1>9 DEF conversationVars, ListInv, PostStamped, PostExposed, AnswerCurrent,
              ListMissesOnlyExposed, Existing
<1> QED BY <1>1, <1>2, <1>3, <1>4, <1>5, <1>6, <1>7, <1>8, <1>9, <1>10 DEF ConversationNext

\* The list of an app loses no update beyond the exposed ones, for any number
\* of loads at the same time, any page size, any failures and any difference
\* of the clocks: but for those, the cursor of loadChatList passes only what an
\* answer has brought or was shown before.
THEOREM ListComplete == ConversationSpec => []ListMissesOnlyExposed
<1>1. ConversationInit => ListInv
  <2> SUFFICES ASSUME ConversationInit PROVE ListInv
    OBVIOUS
  <2>1. /\ clock = 1 /\ cursor = 0 /\ post = NoPost /\ NoPost.stamp = 0
        /\ \A l \in Loader : fetch[l].pc = "idle"
        /\ \A c \in ConversationId : updated[c] \in {0, 1}
    BY DEF ConversationInit, NoFetch, NoRows, NoPost
  <2>2. ListMissesOnlyExposed
    BY <2>1 DEF ListMissesOnlyExposed, Existing
  <2> QED BY <2>1, <2>2 DEF ListInv, PostStamped, PostExposed, AnswerCurrent
<1>2. ListInv => ListMissesOnlyExposed
  BY DEF ListInv
<1> QED BY <1>1, <1>2, ConversationTypes, ListStep, PTL DEF ConversationSpec

-----------------------------------------------------------------------------
(* One message.                                                            *)

\* What the deletion of a message needs of the types of its row.
MessageType ==
    /\ message \in [body : Text \union {NoText}, deleted : BOOLEAN]
    /\ editing \in [SenderApp -> Text \union {NoText}]
    /\ edits \in 0..MaxEdit

MessageInv == MessageType /\ DeletedStays

LEMMA MessageStep == MessageInv /\ [ChatNext]_chatVars => MessageInv'
<1> SUFFICES ASSUME MessageInv, [ChatNext]_chatVars PROVE MessageInv'
  OBVIOUS
<1>1. ASSUME NEW a \in SenderApp, EditMessage(a) PROVE MessageInv'
  <2>1. edits + 2 \in Text /\ edits + 1 \in 0..MaxEdit
    BY <1>1, ChatAssumption, SMT DEF EditMessage, MessageInv, MessageType, Text
  <2> QED BY <1>1, <2>1 DEF EditMessage, MessageInv, MessageType, DeletedStays
<1>2. ASSUME NEW a \in SenderApp, SaveEdit(a) PROVE MessageInv'
  <2>1. editing[a] \in Text \union {NoText}
    BY DEF MessageInv, MessageType
  <2>2. message'.deleted = message.deleted /\ message'.body = editing[a]
        /\ message' \in [body : Text \union {NoText}, deleted : BOOLEAN]
    BY <1>2, <2>1 DEF SaveEdit, Edited, MessageInv, MessageType
  <2> QED BY <1>2, <2>2 DEF SaveEdit, MessageInv, MessageType, DeletedStays
<1>3. CASE DeleteMessage
  BY <1>3 DEF DeleteMessage, MessageInv, MessageType, DeletedStays
<1>4. CASE UNCHANGED body
  BY <1>4 DEF body, MessageInv, MessageType, DeletedStays
<1>5. ASSUME NEW r \in Recipient,
             \/ OpenConversation(r) \/ CloseConversation(r) \/ RefreshMessages(r)
             \/ LoseEvents(r) \/ LoseRequest(r)
             \/ TakeEvent(r) \/ SaveEvent(r) \/ TakeRequest(r) \/ SaveRequest(r)
      PROVE  MessageInv'
  BY <1>4, <1>5 DEF OpenConversation, CloseConversation, RefreshMessages, LoseEvents,
     LoseRequest, TakeEvent, SaveEvent, TakeRequest, SaveRequest
<1>6. CASE ShowMessages
  BY <1>4, <1>6 DEF ShowMessages
<1>7. CASE UNCHANGED chatVars
  BY <1>4, <1>7 DEF chatVars, body
<1> QED BY <1>1, <1>2, <1>3, <1>5, <1>6, <1>7 DEF ChatNext

\* An edit of MessageActionView.patch that was under way when the message was
\* deleted writes its body and nothing else: the message stays deleted.
THEOREM Deleted == ChatSpec => []DeletedStays
<1>1. ChatInit => MessageInv
  BY ChatAssumption, SMT DEF ChatInit, MessageInv, MessageType, DeletedStays, Text
<1>2. MessageInv => DeletedStays
  BY DEF MessageInv
<1> QED BY <1>1, <1>2, MessageStep, PTL DEF ChatSpec
=============================================================================
