-------------------------- MODULE GroupEpochProofs --------------------------
(***************************************************************************)
(* The safety of GroupEpoch, for any number of users, devices, messages,   *)
(* revocations and keys.                                                   *)
(***************************************************************************)
EXTENDS GroupEpoch, TLAPS

Writing == {"close", "commit"}

\* What an upload has checked and written, at each point of its transaction.
UploadOK(m) ==
    LET u == upload[m] IN
    /\ u.pc # "none" => Covers(u.targets)
    /\ u.pc \in {"save", "close", "commit", "done"} => Sender[m] \in u.targets
    /\ u.pc \in Writing => u.key \in 1..keys /\ epoch[u.key] = "none"
    /\ u.pc = "done" => u.key \in Published /\ envelopes[u.key] = u.targets
    /\ \A e \in u.closing : epoch[e] # "none"

UploadsOK == \A m \in Msg : UploadOK(m)

\* No two transactions write one key.
KeysDistinct ==
    \A m, n \in Msg :
        /\ upload[m].pc \in Writing /\ upload[n].pc \in Writing
        /\ upload[m].key = upload[n].key
        => m = n

KeysAreFresh == \A k \in Key : k > keys => epoch[k] = "none"

PublishedCovers == \A k \in Published : Covers(envelopes[k])

\* A key that a send carries was given to its device.
TasksOK ==
    \A m \in Msg :
        /\ task[m].pc \in {"post", "insert"} \/ task[m].kept => task[m].key # 0
        /\ task[m].key # 0 => /\ task[m].key \in Published
                              /\ Sender[m] \in envelopes[task[m].key]

ServerInv == UploadsOK /\ KeysDistinct /\ KeysAreFresh /\ PublishedCovers

ClientInv == HeldIsPublished /\ SignedIsHeld /\ SentIsReadable /\ TasksOK

IInv == TypeOK /\ ServerInv /\ ClientInv

-----------------------------------------------------------------------------
(* What no step does: lose an epoch or change its envelopes, take a key    *)
(* that is not published, or sign devices that no held key covers.         *)

KeepsPublished ==
    /\ \A e \in Epoch : epoch[e] # "none" => epoch'[e] # "none"
    /\ \A k \in Published : envelopes'[k] = envelopes[k]

TakesPublished ==
    /\ \A c \in Device : held[c] \subseteq held'[c]
    /\ \A c \in Device : \A k \in held'[c] \ held[c] :
          k \in Published /\ c \in envelopes[k]
    /\ \A c \in Device : signed'[c] # signed[c] =>
          \E k \in held'[c] : k \in Published /\ envelopes[k] = signed'[c]

CarriesPublished ==
    \A m \in Msg :
        /\ message'[m] # message[m] =>
              task[m].pc = "insert" /\ message'[m] = task[m].key
        /\ task'[m].key \notin {0, task[m].key} =>
              task'[m].key \in Published /\ Sender[m] \in envelopes[task'[m].key]
        /\ task'[m].pc \in {"post", "insert"} \/ task'[m].kept => task'[m].key # 0

Lawful == KeepsPublished /\ TakesPublished /\ CarriesPublished

\* A lawful step preserves what the clients rely on.
LEMMA ClientsKept ==
    ASSUME IInv, TypeOK', Lawful
    PROVE  ClientInv'
<1> USE GroupAssumption
<1>1. \A k \in Published : k \in Published' /\ envelopes'[k] = envelopes[k]
  BY DEF Lawful, KeepsPublished, Published, Epoch
<1>2. HeldIsPublished'
  <2> SUFFICES ASSUME NEW c \in Device, NEW k \in held'[c]
               PROVE  k \in Published' /\ c \in envelopes'[k]
    BY DEF HeldIsPublished
  <2>1. k \in Published /\ c \in envelopes[k]
    BY DEF IInv, ClientInv, HeldIsPublished, Lawful, TakesPublished
  <2> QED
    BY <1>1, <2>1
<1>3. SignedIsHeld'
  <2> SUFFICES ASSUME NEW c \in Device, signed'[c] # {}
               PROVE  \E k \in held'[c] : envelopes'[k] = signed'[c]
    BY DEF SignedIsHeld
  <2>1. \E k \in held'[c] : k \in Published /\ envelopes[k] = signed'[c]
    <3>1. CASE signed'[c] = signed[c]
      <4>1. PICK k \in held[c] : envelopes[k] = signed[c]
        BY <3>1 DEF IInv, ClientInv, SignedIsHeld
      <4> QED
        BY <3>1, <4>1 DEF IInv, ClientInv, HeldIsPublished, Lawful, TakesPublished
    <3>2. CASE signed'[c] # signed[c]
      BY <3>2 DEF Lawful, TakesPublished
    <3> QED
      BY <3>1, <3>2
  <2> QED
    BY <1>1, <2>1
<1>4. SentIsReadable'
  <2> SUFFICES ASSUME NEW m \in Msg, message'[m] # 0
               PROVE  /\ message'[m] \in Published'
                      /\ Sender[m] \in envelopes'[message'[m]]
                      /\ Covers(envelopes'[message'[m]])
    BY DEF SentIsReadable, Covers
  <2>1. message'[m] \in Published /\ Sender[m] \in envelopes[message'[m]]
    BY DEF IInv, ClientInv, SentIsReadable, TasksOK, Lawful, CarriesPublished
  <2>2. Covers(envelopes[message'[m]])
    BY <2>1 DEF IInv, ServerInv, PublishedCovers
  <2> QED
    BY <1>1, <2>1, <2>2
<1>5. TasksOK'
  <2> SUFFICES ASSUME NEW m \in Msg
               PROVE  /\ task'[m].pc \in {"post", "insert"} \/ task'[m].kept => task'[m].key # 0
                      /\ task'[m].key # 0 => /\ task'[m].key \in Published'
                                             /\ Sender[m] \in envelopes'[task'[m].key]
    BY DEF TasksOK
  <2>1. task'[m].key # 0 =>
            task'[m].key \in Published /\ Sender[m] \in envelopes[task'[m].key]
    BY DEF IInv, ClientInv, TasksOK, Lawful, CarriesPublished
  <2> QED
    BY <1>1, <2>1 DEF Lawful, CarriesPublished
<1> QED
  BY <1>2, <1>3, <1>4, <1>5 DEF ClientInv
-----------------------------------------------------------------------------
(* Types.                                                                  *)

LEMMA FailType ==
    ASSUME TypeOK, NEW m \in Msg, NEW kept \in BOOLEAN, Fail(m, kept)
    PROVE  task' \in [Msg -> Task]
<1>1. task[m] \in Task /\ 0 \in 0..MaxKeys
  BY GroupAssumption DEF TypeOK
<1>2. [NewTask EXCEPT !.pc = "failed", !.kept = kept,
                      !.key = IF kept THEN task[m].key ELSE 0] \in Task
  BY <1>1 DEF NewTask, Task
<1> QED
  BY <1>2 DEF Fail, TypeOK

LEMMA TypeStep ==
    ASSUME TypeOK, UploadsOK, [Next]_vars
    PROVE  TypeOK'
<1> USE GroupAssumption DEF TypeOK, serverVars, clientVars
<1>1. ASSUME NEW m \in Msg, Send(m)
      PROVE  TypeOK'
  <2>0. task[m] \in Task /\ upload[m] \in Upload
    OBVIOUS
  <2>1. CASE SendFresh(m)
    BY <2>0, <2>1 DEF SendFresh, GoTo, Task, Upload, Epoch, Key
  <2>2. CASE SendStale(m)
    BY <2>0, <2>2 DEF SendStale, GoTo, Task, Upload, Epoch, Key
  <2>3. CASE NotReadyRefresh(m)
    <3>1. view' \in [Device -> [Device -> DeviceStatus]]
      <4>1. view' = view \/ view' = [view EXCEPT ![Sender[m]] = status]
        BY <2>3 DEF NotReadyRefresh
      <4>2. [view EXCEPT ![Sender[m]] = status] \in [Device -> [Device -> DeviceStatus]]
        OBVIOUS
      <4> QED
        BY <4>1, <4>2
    <3>2. task' \in [Msg -> Task]
      BY <2>0, <2>3 DEF NotReadyRefresh, Task
    <3> QED
      BY <2>3, <3>1, <3>2 DEF NotReadyRefresh
  <2>4. CASE KeysFail(m)
    BY <2>0, <2>4 DEF KeysFail, GoTo, Task, Upload, Epoch, Key
  <2>5. CASE UseExisting(m)
    <3>1. PICK k \in Key :
             /\ held' = [held EXCEPT ![Sender[m]] = @ \union {k}]
             /\ task' = [task EXCEPT ![m] = [@ EXCEPT !.pc = "post", !.key = k]]
      BY <2>5 DEF UseExisting
    <3>k. k \in 0..MaxKeys
      BY DEF Key
    <3>2. [task[m] EXCEPT !.pc = "post", !.key = k] \in Task
      BY <2>0, <3>k DEF Task
    <3>4. task' \in [Msg -> Task]
      BY <3>1, <3>2
    <3>5. held' \in [Device -> SUBSET Key]
      BY <3>1
    <3> QED
      BY <2>5, <3>4, <3>5 DEF UseExisting
  <2>6. CASE Wrap(m)
    <3>0. Targets(Sender[m]) \subseteq Device /\ 0 \in 0..MaxKeys
      BY DEF Targets
    <3>1. [NoUpload EXCEPT !.pc = "arrived", !.targets = Targets(Sender[m])] \in Upload
      BY <3>0 DEF NoUpload, Upload
    <3>2. upload' \in [Msg -> Upload]
      BY <2>6, <3>1 DEF Wrap
    <3>3. [task[m] EXCEPT !.pc = "syncing"] \in Task
      BY <2>0 DEF Task
    <3>4. task' \in [Msg -> Task]
      BY <2>6, <3>3 DEF Wrap, GoTo
    <3>5. held' \in [Device -> SUBSET Key]
      BY <2>6 DEF Wrap
    <3> QED
      BY <2>6, <3>2, <3>4, <3>5 DEF Wrap
  <2>7. CASE Synced(m)
    <3>1. upload[m].key \in 0..MaxKeys /\ upload[m].targets \subseteq Device
      BY <2>0 DEF Upload
    <3>2. [task[m] EXCEPT !.pc = "post", !.key = upload[m].key] \in Task
      BY <2>0, <3>1 DEF Task
    <3>3. task' \in [Msg -> Task]
      BY <2>7, <3>2 DEF Synced
    <3>4. held' \in [Device -> SUBSET Key]
      BY <2>7 DEF Synced, UploadsOK, UploadOK, Published
    <3>5. signed' \in [Device -> SUBSET Device]
      BY <2>7, <3>1 DEF Synced
    <3> QED
      BY <2>7, <3>3, <3>4, <3>5 DEF Synced
  <2>8. CASE SyncLost(m)
    <3>1. [task[m] EXCEPT !.pc = "failed"] \in Task
      BY <2>0 DEF Task
    <3>2. task' \in [Msg -> Task]
      BY <2>8, <3>1 DEF SyncLost, GoTo
    <3>3. lost' \in 0..MaxLost
      BY <2>8 DEF SyncLost
    <3> QED
      BY <2>8, <3>2, <3>3 DEF SyncLost
  <2>9. CASE PostFail(m)
    <3>0. PICK kept \in {task[m].kept, TRUE} : Fail(m, kept)
      BY <2>9 DEF PostFail
    <3>1. task' \in [Msg -> Task]
      <4>1. kept \in BOOLEAN
        BY <2>0 DEF Task
      <4> QED
        BY <3>0, <4>1, FailType
    <3> QED
      BY <2>9, <3>1 DEF PostFail
  <2>10. CASE Retry(m)
    <3>0. 0 \in 0..MaxKeys
      OBVIOUS
    <3>1. [NewTask EXCEPT !.pc = "keys"] \in Task
      BY <3>0 DEF NewTask, Task
    <3>2. task' \in [Msg -> Task]
      BY <2>10, <3>1 DEF Retry
    <3>3. view' \in [Device -> [Device -> DeviceStatus]]
      BY <2>10 DEF Retry
    <3> QED
      BY <2>10, <3>2, <3>3 DEF Retry
  <2>12. CASE RetryRefreshed(m)
    <3>0. 0 \in 0..MaxKeys
      OBVIOUS
    <3>1. [NewTask EXCEPT !.pc = "keys"] \in Task
      BY <3>0 DEF NewTask, Task
    <3>2. task' \in [Msg -> Task]
      BY <2>12, <3>1 DEF RetryRefreshed
    <3>3. view' \in [Device -> [Device -> DeviceStatus]]
      BY <2>12 DEF RetryRefreshed
    <3> QED
      BY <2>12, <3>2, <3>3 DEF RetryRefreshed
  <2>11. CASE RetryCiphertext(m)
    BY <2>0, <2>11 DEF RetryCiphertext, GoTo, Task, Upload, Epoch, Key
  <2> QED
    BY <1>1, <2>1, <2>2, <2>3, <2>4, <2>5, <2>6, <2>7, <2>8, <2>9, <2>10, <2>11, <2>12 DEF Send
<1>2. ASSUME NEW m \in Msg, Rekey(m)
      PROVE  TypeOK'
  <2>0. task[m] \in Task /\ upload[m] \in Upload
    OBVIOUS
  <2>r. ASSUME Rollback(m)
        PROVE  TypeOK'
    <3>1. NoUpload \in Upload
      BY DEF NoUpload, Upload
    <3>2. upload' \in [Msg -> Upload]
      BY <2>r, <3>1 DEF Rollback
    <3>3. [task[m] EXCEPT !.pc = IF @ = "syncing" THEN "failed" ELSE @] \in Task
      BY <2>0 DEF Task
    <3>4. task' \in [Msg -> Task]
      BY <2>r, <3>3 DEF Rollback
    <3> QED
      BY <2>r, <3>2, <3>4 DEF Rollback
  <2>1. CASE RekeyValidate(m)
    BY <2>0, <2>1 DEF RekeyValidate, UploadGoTo, Task, Upload, Epoch, Key, EpochState
  <2>2. CASE RekeyRefuse(m)
    BY <2>2, <2>r DEF RekeyRefuse
  <2>3. CASE RekeySave(m)
    <3>1. keys + 1 \in 0..MaxKeys
      BY <2>3 DEF RekeySave
    <3>2. [upload[m] EXCEPT !.pc = "close", !.key = keys + 1] \in Upload
      BY <2>0, <3>1 DEF Upload
    <3>3. upload' \in [Msg -> Upload]
      BY <2>3, <3>2 DEF RekeySave
    <3> QED
      BY <2>3, <3>1, <3>3 DEF RekeySave
  <2>4. CASE RekeySaveFail(m)
    BY <2>4, <2>r DEF RekeySaveFail
  <2>5. CASE RekeyClose(m)
    BY <2>0, <2>5 DEF RekeyClose, Task, Upload, Epoch, Key, EpochState
  <2>6. CASE RekeyCommit(m)
    BY <2>0, <2>6 DEF RekeyCommit, UploadGoTo, Task, Upload, Epoch, Key, EpochState
  <2> QED
    BY <1>2, <2>1, <2>2, <2>3, <2>4, <2>5, <2>6 DEF Rekey
<1>3. ASSUME NEW m \in Msg, Post(m)
      PROVE  TypeOK'
  <2>0. task[m] \in Task
    OBVIOUS
  <2>1. CASE PostCheck(m)
    BY <2>0, <2>1 DEF PostCheck, GoTo, Task
  <2>2. CASE PostRefuse(m)
    BY <2>0, <2>2, FailType DEF PostRefuse, Task
  <2>3. CASE PostInsert(m)
    BY <2>0, <2>3 DEF PostInsert, GoTo, Task
  <2> QED
    BY <1>3, <2>1, <2>2, <2>3 DEF Post
<1>4. ASSUME NEW c \in Device, NEW m \in Msg, Receive(c, m)
      PROVE  TypeOK'
  BY <1>4 DEF Receive, Readable, Published
<1>5. ASSUME NEW d \in Device, Register(d) \/ Revoke(d) \/ Touch(d)
      PROVE  TypeOK'
  <2>1. status' \in [Device -> DeviceStatus] /\ epoch' \in [Epoch -> EpochState]
    <3>1. CASE Register(d)
      BY <3>1 DEF Register, DeviceStatus
    <3>2. CASE Revoke(d)
      BY <3>2 DEF Revoke, DeviceStatus, EpochState
    <3>3. CASE Touch(d)
      BY <3>3 DEF Touch, DeviceStatus
    <3> QED
      BY <1>5, <3>1, <3>2, <3>3
  <2>2. raced' \subseteq Device
    BY <1>5 DEF Register, Revoke, Touch
  <2> QED
    BY <1>5, <2>1, <2>2 DEF Register, Revoke, Touch
<1>6. CASE UNCHANGED vars
  BY <1>6 DEF vars
<1> QED
  BY <1>1, <1>2, <1>3, <1>4, <1>5, <1>6 DEF Next
-----------------------------------------------------------------------------
(* Every step is lawful.                                                   *)

LEMMA ReadableKeys ==
    ASSUME NEW c \in Device, NEW k \in Readable(c)
    PROVE  k \in Published /\ c \in envelopes[k]
BY DEF Readable

\* The key of a finished upload was given to the device that uploaded it.
LEMMA UploadedKey ==
    ASSUME IInv, NEW m \in Msg, upload[m].pc = "done"
    PROVE  /\ upload[m].key \in Published
           /\ Sender[m] \in envelopes[upload[m].key]
           /\ envelopes[upload[m].key] = upload[m].targets
           /\ upload[m].key # 0
BY DEF IInv, ServerInv, UploadsOK, UploadOK, Published, Key

LEMMA LawfulStep ==
    ASSUME IInv, [Next]_vars
    PROVE  Lawful
<1> USE GroupAssumption DEF serverVars, clientVars
<1>a. UNCHANGED <<epoch, envelopes>> => KeepsPublished
  BY DEF KeepsPublished
<1>b. UNCHANGED <<held, signed>> => TakesPublished
  BY DEF TakesPublished
<1>c. UNCHANGED <<task, message>> => CarriesPublished
  BY DEF CarriesPublished, IInv, ClientInv, TasksOK
<1>d. ASSUME NEW m \in Msg, NEW t,
             task' = [task EXCEPT ![m] = t], message' = message,
             t.key \in {0, task[m].key},
             t.pc \in {"post", "insert"} \/ t.kept => t.key # 0
      PROVE  CarriesPublished
  BY <1>d DEF CarriesPublished, IInv, ClientInv, TasksOK, TypeOK
<1>e. \A m \in Msg : /\ task[m] \in Task
                     /\ task[m].pc \in {"post", "insert"} \/ task[m].kept => task[m].key # 0
  BY DEF IInv, TypeOK, ClientInv, TasksOK
<1>f. ASSUME NEW m \in Msg, NEW kept \in BOOLEAN, Fail(m, kept), message' = message,
             kept => task[m].key # 0
      PROVE  CarriesPublished
  <2> DEFINE t == [NewTask EXCEPT !.pc = "failed", !.kept = kept,
                                  !.key = IF kept THEN task[m].key ELSE 0]
  <2>1. /\ t.key \in {0, task[m].key} /\ t.pc = "failed" /\ t.kept = kept
        /\ kept => t.key = task[m].key
    BY DEF NewTask
  <2>2. task' = [task EXCEPT ![m] = t]
    BY <1>f DEF Fail
  <2> QED
    BY <1>d, <1>f, <2>1, <2>2
<1>1. ASSUME NEW m \in Msg, Send(m)
      PROVE  Lawful
  <2>1. KeepsPublished
    BY <1>1, <1>a DEF Send, SendFresh, SendStale, NotReadyRefresh, KeysFail,
       UseExisting, Wrap, Synced, SyncLost, PostFail, Retry, RetryRefreshed, RetryCiphertext
  <2>2. CASE UseExisting(m)
    <3>1. PICK k \in Key :
             /\ IsNewest(Sender[m], k)
             /\ held' = [held EXCEPT ![Sender[m]] = @ \union {k}]
             /\ task' = [task EXCEPT ![m] = [@ EXCEPT !.pc = "post", !.key = k]]
      BY <2>2 DEF UseExisting
    <3>2. k \in Published /\ Sender[m] \in envelopes[k] /\ k # 0
      BY <3>1, ReadableKeys DEF IsNewest, Key
    <3>3. TakesPublished
      BY <2>2, <3>1, <3>2 DEF TakesPublished, UseExisting, IInv, TypeOK
    <3>4. task'[m].key = k
      BY <3>1, <1>e DEF Task, IInv, TypeOK
    <3>5. CarriesPublished
      BY <2>2, <3>1, <3>2, <3>4 DEF CarriesPublished, UseExisting, IInv, TypeOK, ClientInv, TasksOK
    <3> QED
      BY <2>1, <3>3, <3>5 DEF Lawful
  <2>3. CASE Wrap(m)
    <3>1. \A k \in Key : IsNewest(Sender[m], k) =>
             k \in Published /\ Sender[m] \in envelopes[k]
      BY ReadableKeys DEF IsNewest
    <3>2. TakesPublished
      BY <2>3, <3>1 DEF TakesPublished, Wrap, IInv, TypeOK
    <3>3. CarriesPublished
      BY <2>3, <1>d, <1>e DEF Wrap, GoTo, Task
    <3> QED
      BY <2>1, <3>2, <3>3 DEF Lawful
  <2>4. CASE Synced(m)
    <3>1. /\ upload[m].key \in Published
          /\ Sender[m] \in envelopes[upload[m].key]
          /\ envelopes[upload[m].key] = upload[m].targets
          /\ upload[m].key # 0
      BY <2>4, UploadedKey DEF Synced
    <3>2. TakesPublished
      BY <2>4, <3>1 DEF TakesPublished, Synced, IInv, TypeOK
    <3>3. task'[m].key = upload[m].key
      BY <2>4, <1>e DEF Synced, Task, IInv, TypeOK
    <3>4. CarriesPublished
      BY <2>4, <3>1, <3>3 DEF CarriesPublished, Synced, IInv, TypeOK, ClientInv, TasksOK
    <3> QED
      BY <2>1, <3>2, <3>4 DEF Lawful
  <2>5. CASE \/ SendFresh(m) \/ SendStale(m) \/ NotReadyRefresh(m) \/ KeysFail(m)
             \/ SyncLost(m) \/ PostFail(m) \/ Retry(m) \/ RetryRefreshed(m) \/ RetryCiphertext(m)
    <3>1. TakesPublished /\ message' = message
      BY <2>5, <1>b DEF serverVars, SendFresh, SendStale, NotReadyRefresh, KeysFail, SyncLost,
         PostFail, Retry, RetryRefreshed, RetryCiphertext
    <3>2. CASE SendFresh(m) \/ SendStale(m) \/ KeysFail(m) \/ SyncLost(m)
      BY <3>1, <3>2, <2>1, <1>d, <1>e DEF Lawful, SendFresh, SendStale, KeysFail,
         SyncLost, GoTo, Task
    <3>6. CASE PostFail(m)
      <4>1. PICK kept \in {task[m].kept, TRUE} : Fail(m, kept)
        BY <3>6 DEF PostFail
      <4>2. kept \in BOOLEAN /\ task[m].key # 0
        BY <3>6, <1>e DEF PostFail, Task
      <4> QED
        BY <3>1, <2>1, <1>f, <4>1, <4>2 DEF Lawful
    <3>3. CASE NotReadyRefresh(m)
      BY <3>1, <3>3, <2>1, <1>d, <1>e DEF Lawful, NotReadyRefresh, Task
    <3>4. CASE Retry(m) \/ RetryRefreshed(m)
      BY <3>1, <3>4, <2>1, <1>d DEF Lawful, Retry, RetryRefreshed, NewTask
    <3>5. CASE RetryCiphertext(m)
      BY <3>1, <3>5, <2>1, <1>d, <1>e DEF Lawful, RetryCiphertext, GoTo, Task
    <3> QED
      BY <2>5, <3>2, <3>3, <3>4, <3>5, <3>6
  <2> QED
    BY <1>1, <2>2, <2>3, <2>4, <2>5 DEF Send
<1>2. ASSUME NEW m \in Msg, Rekey(m)
      PROVE  Lawful
  <2>1. TakesPublished
    BY <1>2, <1>b DEF Rekey, RekeyValidate, RekeyRefuse, RekeySave, RekeySaveFail,
       RekeyClose, RekeyCommit, Rollback
  <2>2. CASE RekeyCommit(m)
    <3>1. upload[m].key \notin Published
      BY <2>2 DEF RekeyCommit, IInv, ServerInv, UploadsOK, UploadOK, Writing, Published
    <3>2. KeepsPublished
      BY <2>2, <3>1 DEF RekeyCommit, KeepsPublished, IInv, TypeOK, Published, Epoch
    <3> QED
      BY <2>1, <2>2, <3>2, <1>c DEF Lawful, RekeyCommit
  <2>3. CASE RekeyRefuse(m) \/ RekeySaveFail(m)
    <3>1. Rollback(m)
      BY <2>3 DEF RekeyRefuse, RekeySaveFail
    <3>2. CarriesPublished
      BY <3>1, <1>d, <1>e DEF Rollback, Task, IInv, ClientInv, TasksOK
    <3> QED
      BY <2>1, <3>1, <3>2, <1>a DEF Rollback, Lawful
  <2>4. CASE RekeyValidate(m) \/ RekeySave(m) \/ RekeyClose(m)
    BY <2>1, <2>4, <1>a, <1>c DEF RekeyValidate, RekeySave, RekeyClose, Lawful
  <2> QED
    BY <1>2, <2>2, <2>3, <2>4 DEF Rekey
<1>3. ASSUME NEW m \in Msg, Post(m)
      PROVE  Lawful
  <2>1. KeepsPublished /\ TakesPublished
    BY <1>3, <1>a, <1>b DEF Post, PostCheck, PostRefuse, PostInsert
  <2>2. CASE PostCheck(m)
    <3>1. task[m].key # 0
      BY <2>2, <1>e DEF PostCheck
    <3> QED
      BY <2>1, <2>2, <3>1, <1>d, <1>e DEF PostCheck, GoTo, Task, Lawful
  <2>4. CASE PostRefuse(m)
    <3>1. task[m].kept \in BOOLEAN /\ task[m].key # 0
      BY <2>4, <1>e DEF PostRefuse, Task
    <3>2. CarriesPublished
      BY <2>4, <3>1, <1>f DEF PostRefuse
    <3> QED
      BY <2>1, <3>2 DEF Lawful
  <2>3. CASE PostInsert(m)
    <3>1. \A n \in Msg : task'[n].key = task[n].key /\ (n # m => task'[n] = task[n])
      BY <2>3, <1>e DEF PostInsert, GoTo, Task, IInv, TypeOK
    <3>2. task'[m].pc = "sent"
      BY <2>3, <1>e DEF PostInsert, GoTo, Task, IInv, TypeOK
    <3>3. CarriesPublished
      BY <2>3, <3>1, <3>2 DEF CarriesPublished, PostInsert, IInv, TypeOK, ClientInv, TasksOK
    <3> QED
      BY <2>1, <3>3 DEF Lawful
  <2> QED
    BY <1>3, <2>2, <2>3, <2>4 DEF Post
<1>4. ASSUME NEW c \in Device, NEW m \in Msg, Receive(c, m)
      PROVE  Lawful
  <2>1. TakesPublished
    BY <1>4, ReadableKeys DEF TakesPublished, Receive, IInv, TypeOK
  <2> QED
    BY <1>4, <2>1, <1>a, <1>c DEF Receive, Lawful
<1>5. ASSUME NEW d \in Device, Register(d) \/ Revoke(d) \/ Touch(d)
      PROVE  Lawful
  <2>1. KeepsPublished
    BY <1>5 DEF Register, Revoke, Touch, KeepsPublished, IInv, TypeOK, Epoch
  <2> QED
    BY <1>5, <2>1, <1>b, <1>c DEF Register, Revoke, Touch, Lawful
<1>6. CASE UNCHANGED vars
  BY <1>6, <1>a, <1>b, <1>c DEF vars, Lawful
<1> QED
  BY <1>1, <1>2, <1>3, <1>4, <1>5, <1>6 DEF Next
-----------------------------------------------------------------------------
(* Every step preserves what the uploads rely on.                          *)

\* One transaction moves on, and its writes do not appear yet.
LEMMA UploadMoves ==
    ASSUME IInv, NEW m \in Msg, NEW u,
           upload' = [upload EXCEPT ![m] = u],
           UNCHANGED <<epoch, envelopes, keys>>,
           u.pc # "none" => Covers(u.targets),
           u.pc \in {"save", "close", "commit", "done"} => Sender[m] \in u.targets,
           u.pc # "done",
           u.pc \in Writing => upload[m].pc \in Writing /\ u.key = upload[m].key,
           \A e \in u.closing : epoch[e] # "none"
    PROVE  ServerInv'
<1>1. upload'[m] = u /\ \A n \in Msg \ {m} : upload'[n] = upload[n]
  BY DEF IInv, TypeOK
<1>2. Published' = Published
  BY DEF Published
<1>3. UploadsOK'
  <2> SUFFICES ASSUME NEW n \in Msg
               PROVE  UploadOK(n)'
    BY DEF UploadsOK
  <2>1. CASE n = m
    BY <2>1, <1>1, <1>2 DEF UploadOK, IInv, ServerInv, UploadsOK, Covers
  <2>2. CASE n # m
    BY <2>2, <1>1, <1>2 DEF UploadOK, IInv, ServerInv, UploadsOK, Covers
  <2> QED
    BY <2>1, <2>2
<1>4. KeysDistinct'
  BY <1>1 DEF KeysDistinct, IInv, ServerInv
<1>5. KeysAreFresh' /\ PublishedCovers'
  BY <1>2 DEF KeysAreFresh, PublishedCovers, Covers, IInv, ServerInv
<1> QED
  BY <1>3, <1>4, <1>5 DEF ServerInv

\* Nothing moves, or only epochs that are no keys.
LEMMA UploadsStand ==
    ASSUME IInv, UNCHANGED <<upload, envelopes, keys>>,
           \A k \in Key : epoch'[k] = epoch[k],
           \A e \in Epoch : epoch[e] # "none" => epoch'[e] # "none"
    PROVE  ServerInv'
<1>1. Published' = Published
  BY DEF Published
<1>2. UploadsOK'
  <2> SUFFICES ASSUME NEW m \in Msg
               PROVE  UploadOK(m)'
    BY DEF UploadsOK
  <2>1. UploadOK(m) /\ upload[m].closing \subseteq Epoch
    BY DEF IInv, TypeOK, Upload, ServerInv, UploadsOK
  <2>2. upload[m].pc \in Writing => upload[m].key \in Key
    BY <2>1, GroupAssumption DEF UploadOK, Key, IInv, TypeOK
  <2> QED
    BY <2>1, <2>2, <1>1 DEF UploadOK, Covers
<1>3. KeysDistinct' /\ KeysAreFresh' /\ PublishedCovers'
  BY <1>1 DEF KeysDistinct, KeysAreFresh, PublishedCovers, Covers, IInv, ServerInv
<1> QED
  BY <1>2, <1>3 DEF ServerInv

\* A new key is one that no other transaction writes.
LEMMA SaveStep ==
    ASSUME IInv, NEW m \in Msg, RekeySave(m)
    PROVE  ServerInv'
<1> DEFINE u == [upload[m] EXCEPT !.pc = "close", !.key = keys + 1]
<1>1. /\ upload[m] \in Upload /\ UploadOK(m) /\ upload[m].pc = "save"
      /\ keys \in Nat /\ keys' = keys + 1 /\ keys + 1 \in Key
      /\ UNCHANGED <<epoch, envelopes>>
  BY GroupAssumption DEF RekeySave, IInv, TypeOK, ServerInv, UploadsOK, Key
<1>2. upload' = [upload EXCEPT ![m] = u]
  BY <1>1 DEF RekeySave, Upload, IInv, TypeOK
<1>3. /\ u.pc = "close" /\ u.key = keys + 1
      /\ u.targets = upload[m].targets /\ u.closing = upload[m].closing
  BY <1>1 DEF Upload
<1> HIDE DEF u
<1>4. upload'[m] = u /\ \A n \in Msg \ {m} : upload'[n] = upload[n]
  BY <1>2 DEF IInv, TypeOK
<1>5. epoch[keys + 1] = "none"
  BY <1>1 DEF IInv, ServerInv, KeysAreFresh
<1>6. Published' = Published
  BY <1>1 DEF Published
<1>7. UploadsOK'
  <2> SUFFICES ASSUME NEW n \in Msg
               PROVE  UploadOK(n)'
    BY DEF UploadsOK
  <2>1. CASE n = m
    BY <2>1, <1>1, <1>3, <1>4, <1>5, <1>6 DEF UploadOK, Covers, Writing
  <2>2. CASE n # m
    <3>1. UploadOK(n) /\ upload'[n] = upload[n]
      BY <2>2, <1>4 DEF IInv, ServerInv, UploadsOK
    <3>2. \A k \in 1..keys : k \in 1..keys'
      BY <1>1
    <3> QED
      BY <3>1, <3>2, <1>1, <1>6 DEF UploadOK, Covers
  <2> QED
    BY <2>1, <2>2
<1>8. KeysDistinct'
  <2>1. \A n \in Msg : upload[n].pc \in Writing => upload[n].key # keys + 1
    BY <1>1 DEF IInv, ServerInv, UploadsOK, UploadOK
  <2> QED
    BY <2>1, <1>3, <1>4 DEF KeysDistinct, IInv, ServerInv
<1>9. KeysAreFresh'
  BY <1>1, GroupAssumption DEF KeysAreFresh, IInv, ServerInv, Key
<1>10. PublishedCovers'
  BY <1>1, <1>6 DEF PublishedCovers, Covers, IInv, ServerInv
<1> QED
  BY <1>7, <1>8, <1>9, <1>10 DEF ServerInv

\* The writes of a transaction appear.
LEMMA CommitStep ==
    ASSUME IInv, NEW m \in Msg, RekeyCommit(m)
    PROVE  ServerInv'
<1> DEFINE k == upload[m].key
<1>1. /\ upload[m] \in Upload /\ UploadOK(m) /\ upload[m].pc = "commit"
      /\ k \in 1..keys /\ k \in Key /\ epoch[k] = "none"
      /\ \A e \in upload[m].closing : epoch[e] # "none"
  BY GroupAssumption DEF RekeyCommit, IInv, TypeOK, ServerInv, UploadsOK, UploadOK, Writing, Key
<1>2. /\ keys' = keys
      /\ \A e \in Epoch : e # k => (epoch'[e] = "none" <=> epoch[e] = "none")
      /\ epoch'[k] = "active"
      /\ envelopes'[k] = upload[m].targets
      /\ \A j \in Key : j # k => envelopes'[j] = envelopes[j]
  BY <1>1 DEF RekeyCommit, IInv, TypeOK, Epoch
<1>3. /\ upload'[m] = [upload[m] EXCEPT !.pc = "done"]
      /\ \A n \in Msg \ {m} : upload'[n] = upload[n]
  BY DEF RekeyCommit, UploadGoTo, IInv, TypeOK
<1>4. /\ upload'[m].pc = "done" /\ upload'[m].key = k
      /\ upload'[m].targets = upload[m].targets
      /\ upload'[m].closing = upload[m].closing
  BY <1>1, <1>3 DEF Upload
<1>5. Published' = Published \union {k}
  BY <1>1, <1>2 DEF Published, Epoch
<1>6. k \notin Published
  BY <1>1 DEF Published
<1>7. UploadsOK'
  <2> SUFFICES ASSUME NEW n \in Msg
               PROVE  UploadOK(n)'
    BY DEF UploadsOK
  <2>0. UploadOK(n) /\ upload[n].closing \subseteq Epoch
    BY DEF IInv, TypeOK, Upload, ServerInv, UploadsOK
  <2>1. CASE n = m
    <3>1. \A e \in upload[m].closing : epoch'[e] # "none"
      BY <2>0, <2>1, <1>1, <1>2
    <3> QED
      BY <2>1, <3>1, <1>1, <1>2, <1>4, <1>5 DEF UploadOK, Covers, Writing
  <2>2. CASE n # m
    <3>1. upload'[n] = upload[n]
      BY <2>2, <1>3
    <3>2. upload[n].pc \in Writing =>
             upload[n].key \in 1..keys' /\ epoch'[upload[n].key] = "none"
      <4>1. upload[n].pc \in Writing => upload[n].key # k /\ upload[n].key \in Key
        BY <2>0, <2>2, <1>1, GroupAssumption
           DEF IInv, TypeOK, ServerInv, KeysDistinct, UploadOK, Writing, Key
      <4> QED
        BY <4>1, <2>0, <1>2 DEF UploadOK, Epoch
    <3>3. upload[n].pc = "done" =>
             upload[n].key \in Published' /\ envelopes'[upload[n].key] = upload[n].targets
      BY <2>0, <1>2, <1>5, <1>6 DEF UploadOK, Published
    <3>4. \A e \in upload[n].closing : epoch'[e] # "none"
      BY <2>0, <1>1, <1>2 DEF UploadOK
    <3> QED
      BY <2>0, <3>1, <3>2, <3>3, <3>4 DEF UploadOK, Covers
  <2> QED
    BY <2>1, <2>2
<1>8. KeysDistinct'
  BY <1>3, <1>4 DEF KeysDistinct, Writing, IInv, ServerInv
<1>9. KeysAreFresh'
  BY <1>1, <1>2 DEF KeysAreFresh, IInv, TypeOK, ServerInv, Epoch, Key
<1>10. PublishedCovers'
  <2>1. Covers(upload[m].targets)
    BY <1>1 DEF UploadOK
  <2>2. \A j \in Published : Covers(envelopes[j]) /\ j \in Key /\ j # k
    BY <1>6 DEF IInv, ServerInv, PublishedCovers, Published
  <2> QED
    BY <2>1, <2>2, <1>2, <1>5 DEF PublishedCovers, Covers
<1> QED
  BY <1>7, <1>8, <1>9, <1>10 DEF ServerInv

LEMMA ServerStep ==
    ASSUME IInv, [Next]_vars
    PROVE  ServerInv'
<1> USE GroupAssumption DEF serverVars, clientVars
<1>0. \A m \in Msg : upload[m] \in Upload /\ UploadOK(m)
  BY DEF IInv, TypeOK, ServerInv, UploadsOK
<1>1. ASSUME NEW m \in Msg, Send(m)
      PROVE  ServerInv'
  <2>1. CASE Wrap(m)
    <3> DEFINE u == [NoUpload EXCEPT !.pc = "arrived", !.targets = Targets(Sender[m])]
    <3>1. upload' = [upload EXCEPT ![m] = u] /\ UNCHANGED <<epoch, envelopes, keys>>
      BY <2>1 DEF Wrap
    <3>2. u.pc = "arrived" /\ u.targets = Targets(Sender[m]) /\ u.closing = {}
      BY DEF NoUpload
    <3>3. Covers(Targets(Sender[m]))
      BY <2>1 DEF Wrap, Ready
    <3> HIDE DEF u
    <3> QED
      BY <3>1, <3>2, <3>3, UploadMoves DEF Writing
  <2>2. CASE ~Wrap(m)
    BY <1>1, <2>2, UploadsStand DEF Send, SendFresh, SendStale, NotReadyRefresh,
       KeysFail, UseExisting, Synced, SyncLost, PostFail, Retry, RetryRefreshed, RetryCiphertext
  <2> QED
    BY <2>1, <2>2
<1>2. ASSUME NEW m \in Msg, Rekey(m)
      PROVE  ServerInv'
  <2>1. CASE RekeyValidate(m)
    <3> DEFINE u == [upload[m] EXCEPT !.pc = "save"]
    <3>1. upload' = [upload EXCEPT ![m] = u] /\ UNCHANGED <<epoch, envelopes, keys>>
      BY <2>1 DEF RekeyValidate, UploadGoTo
    <3>2. /\ u.pc = "save" /\ u.targets = upload[m].targets
          /\ u.closing = upload[m].closing
      BY <1>0 DEF Upload
    <3>3. Sender[m] \in upload[m].targets /\ Covers(upload[m].targets)
      BY <2>1, <1>0 DEF RekeyValidate, Accepts, Active, UploadOK
    <3>4. \A e \in upload[m].closing : epoch[e] # "none"
      BY <1>0 DEF UploadOK
    <3> HIDE DEF u
    <3> QED
      BY <3>1, <3>2, <3>3, <3>4, UploadMoves DEF Writing
  <2>2. CASE RekeyRefuse(m) \/ RekeySaveFail(m)
    <3>1. upload' = [upload EXCEPT ![m] = NoUpload] /\ UNCHANGED <<epoch, envelopes, keys>>
      BY <2>2 DEF RekeyRefuse, RekeySaveFail, Rollback
    <3>2. NoUpload.pc = "none" /\ NoUpload.closing = {}
      BY DEF NoUpload
    <3> QED
      BY <3>1, <3>2, UploadMoves DEF Writing
  <2>3. CASE RekeySave(m)
    BY <2>3, SaveStep
  <2>4. CASE RekeyClose(m)
    <3> DEFINE u == [upload[m] EXCEPT !.pc = "commit",
                                      !.closing = {e \in Epoch : epoch[e] \in Open}]
    <3>1. upload' = [upload EXCEPT ![m] = u] /\ UNCHANGED <<epoch, envelopes, keys>>
      BY <2>4, <1>0 DEF RekeyClose, Upload, IInv, TypeOK
    <3>2. /\ u.pc = "commit" /\ u.targets = upload[m].targets /\ u.key = upload[m].key
          /\ u.closing = {e \in Epoch : epoch[e] \in Open}
      BY <1>0 DEF Upload
    <3>3. /\ Sender[m] \in upload[m].targets /\ Covers(upload[m].targets)
          /\ upload[m].pc \in Writing
      BY <2>4, <1>0 DEF RekeyClose, UploadOK, Writing
    <3>4. \A e \in u.closing : epoch[e] # "none"
      BY <3>2 DEF Open
    <3> HIDE DEF u
    <3> QED
      BY <3>1, <3>2, <3>3, <3>4, UploadMoves DEF Writing
  <2>5. CASE RekeyCommit(m)
    BY <2>5, CommitStep
  <2> QED
    BY <1>2, <2>1, <2>2, <2>3, <2>4, <2>5 DEF Rekey
<1>3. ASSUME NEW m \in Msg, Post(m)
      PROVE  ServerInv'
  BY <1>3, UploadsStand DEF Post, PostCheck, PostRefuse, PostInsert
<1>4. ASSUME NEW c \in Device, NEW m \in Msg, Receive(c, m)
      PROVE  ServerInv'
  BY <1>4, UploadsStand DEF Receive
<1>5. ASSUME NEW d \in Device, Register(d) \/ Revoke(d) \/ Touch(d)
      PROVE  ServerInv'
  <2>1. /\ UNCHANGED <<upload, envelopes, keys>>
        /\ \A k \in Key : epoch'[k] = epoch[k]
        /\ \A e \in Epoch : epoch[e] # "none" => epoch'[e] # "none"
    BY <1>5 DEF Register, Revoke, Touch, IInv, TypeOK, Epoch
  <2> QED
    BY <2>1, UploadsStand
<1>6. CASE UNCHANGED vars
  BY <1>6, UploadsStand DEF vars
<1> QED
  BY <1>1, <1>2, <1>3, <1>4, <1>5, <1>6 DEF Next

-----------------------------------------------------------------------------
(* A revoked device that no upload was about to give a key to: none does   *)
(* so later, and each open key it has will be closed with, or before, some *)
(* pending epoch.                                                          *)

Excluded(d) == status[d] = "revoked" /\ d \notin raced

GivenNothing == \A d \in Device : Excluded(d) => \A m \in Msg : ~Giving(m, d)

\* An upload that is about to close the pending epoch closes the key too.
ClosedWith(r, k) ==
    \A m \in Msg : upload[m].pc = "commit" /\ r \in upload[m].closing
                      => k \in upload[m].closing

ClosedInTime ==
    \A d \in Device : Excluded(d) =>
        \A k \in Key : epoch[k] = "active" /\ d \in envelopes[k] =>
            \E r \in Pending : ClosedWith(r, k)

Exclusion == GivenNothing /\ ClosedInTime

\* Only one upload moves; one that takes its list of epochs takes every key.
LEMMA ExclusionMoves ==
    ASSUME TypeOK, Exclusion, NEW m \in Msg, NEW u,
           upload' = [upload EXCEPT ![m] = u],
           UNCHANGED <<status, raced, epoch, envelopes>>,
           u.pc \in Writing => \A d \in u.targets : ~Excluded(d),
           u.pc = "commit" => \A k \in Key : epoch[k] = "active" => k \in u.closing
    PROVE  Exclusion'
<1>1. upload'[m] = u /\ \A n \in Msg \ {m} : upload'[n] = upload[n]
  BY DEF TypeOK
<1>2. /\ Pending' = Pending
      /\ \A d \in Device : Excluded(d)' = Excluded(d)
  BY DEF Pending, Excluded
<1>3. GivenNothing'
  BY <1>1, <1>2 DEF GivenNothing, Giving, Exclusion, Writing
<1>4. \A k \in Key, r \in Pending :
         epoch[k] = "active" /\ ClosedWith(r, k) => ClosedWith(r, k)'
  BY <1>1 DEF ClosedWith
<1>5. ClosedInTime'
  BY <1>2, <1>4 DEF ClosedInTime, Exclusion
<1> QED
  BY <1>3, <1>5 DEF Exclusion

\* No upload moves, no key opens, no pending epoch closes, no device is excluded.
LEMMA ExclusionStands ==
    ASSUME Exclusion, UNCHANGED <<upload, envelopes>>,
           \A k \in Key : epoch'[k] = epoch[k],
           Pending \subseteq Pending',
           \A d \in Device : Excluded(d)' => Excluded(d)
    PROVE  Exclusion'
<1>1. GivenNothing'
  BY DEF GivenNothing, Giving, Exclusion
<1>2. \A r, k : ClosedWith(r, k)' = ClosedWith(r, k)
  BY DEF ClosedWith
<1>3. ClosedInTime'
  BY <1>2 DEF ClosedInTime, Exclusion
<1> QED
  BY <1>1, <1>3 DEF Exclusion

\* The marker of the revocation is newer than every list of epochs to close.
LEMMA ExclusionRevoke ==
    ASSUME IInv, Exclusion, NEW d \in Device, Revoke(d)
    PROVE  Exclusion'
<1> USE GroupAssumption
<1>1. PICK r \in Marker : epoch[r] = "none" /\ epoch' = [epoch EXCEPT ![r] = "pending"]
  BY DEF Revoke
<1>2. /\ UNCHANGED <<upload, envelopes>>
      /\ \A k \in Key : epoch'[k] = epoch[k]
      /\ Pending \subseteq Pending' /\ r \in Pending'
  BY <1>1 DEF Revoke, IInv, TypeOK, Epoch, Pending
<1>3. \A x \in Device \ {d} : Excluded(x)' => Excluded(x)
  BY DEF Revoke, Excluded, IInv, TypeOK
<1>4. Excluded(d)' => \A m \in Msg : ~Giving(m, d)
  BY DEF Revoke, Excluded, IInv, TypeOK
<1>5. \A k : ClosedWith(r, k)'
  BY <1>1, <1>2 DEF ClosedWith, IInv, ServerInv, UploadsOK, UploadOK
<1>6. GivenNothing'
  BY <1>2, <1>3, <1>4 DEF GivenNothing, Giving, Exclusion
<1>7. \A q, k : ClosedWith(q, k)' = ClosedWith(q, k)
  BY <1>2 DEF ClosedWith
<1>8. ClosedInTime'
  <2> SUFFICES ASSUME NEW x \in Device, Excluded(x)',
                      NEW k \in Key, epoch'[k] = "active", x \in envelopes'[k]
               PROVE  \E q \in Pending' : ClosedWith(q, k)'
    BY DEF ClosedInTime
  <2>1. CASE x = d
    BY <1>2, <1>5
  <2>2. CASE x # d
    <3>1. PICK q \in Pending : ClosedWith(q, k)
      BY <2>2, <1>2, <1>3 DEF Exclusion, ClosedInTime
    <3> QED
      BY <3>1, <1>2, <1>7
  <2> QED
    BY <2>1, <2>2
<1> QED
  BY <1>6, <1>8 DEF Exclusion

\* The new key is for no excluded device, and a pending epoch that a key of such
\* a device waits for is closed only together with the key.
LEMMA ExclusionCommit ==
    ASSUME IInv, Exclusion, NEW m \in Msg, RekeyCommit(m)
    PROVE  Exclusion'
<1> DEFINE new == upload[m].key
<1>1. /\ upload[m].pc = "commit" /\ upload[m] \in Upload /\ UploadOK(m)
      /\ new \in Key /\ epoch[new] = "none"
  BY GroupAssumption DEF RekeyCommit, IInv, TypeOK, ServerInv, UploadsOK, UploadOK,
     Writing, Key
<1>2. /\ upload'[m].pc = "done" /\ \A n \in Msg \ {m} : upload'[n] = upload[n]
      /\ \A d : Excluded(d)' = Excluded(d)
      /\ envelopes'[new] = upload[m].targets
      /\ \A k \in Key \ {new} : envelopes'[k] = envelopes[k]
  BY <1>1 DEF RekeyCommit, UploadGoTo, Excluded, IInv, TypeOK, Upload
<1>3. \A k \in Key \ {new} : epoch'[k] = "active" =>
         epoch[k] = "active" /\ k \notin upload[m].closing
  BY <1>1 DEF RekeyCommit, Epoch
<1>4. \A r \in Pending : r \notin upload[m].closing => r \in Pending'
  BY <1>1 DEF RekeyCommit, Pending
<1>5. GivenNothing'
  BY <1>1, <1>2 DEF GivenNothing, Giving, Exclusion
<1>6. ClosedInTime'
  <2> SUFFICES ASSUME NEW d \in Device, Excluded(d),
                      NEW k \in Key, epoch'[k] = "active", d \in envelopes'[k]
               PROVE  \E r \in Pending' : ClosedWith(r, k)'
    BY <1>2 DEF ClosedInTime
  <2>1. k # new
    BY <1>1, <1>2 DEF Exclusion, GivenNothing, Giving
  <2>2. epoch[k] = "active" /\ k \notin upload[m].closing /\ d \in envelopes[k]
    BY <2>1, <1>2, <1>3
  <2>3. PICK r \in Pending : ClosedWith(r, k)
    BY <2>2 DEF Exclusion, ClosedInTime
  <2>4. r \in Pending'
    BY <2>2, <2>3, <1>1, <1>4 DEF ClosedWith
  <2>5. ClosedWith(r, k)'
    BY <2>3, <1>2 DEF ClosedWith
  <2> QED
    BY <2>4, <2>5
<1> QED
  BY <1>5, <1>6 DEF Exclusion

LEMMA ExclusionStep ==
    ASSUME IInv, Exclusion, [Next]_vars
    PROVE  Exclusion'
<1> USE DEF serverVars, clientVars
<1>0. TypeOK /\ \A m \in Msg : upload[m] \in Upload
  BY DEF IInv, TypeOK
<1>s. UNCHANGED <<upload, envelopes, epoch, status, raced>> => Exclusion'
  BY ExclusionStands DEF Pending, Excluded
<1>1. ASSUME NEW m \in Msg, Send(m)
      PROVE  Exclusion'
  <2>1. CASE Wrap(m)
    <3> DEFINE u == [NoUpload EXCEPT !.pc = "arrived", !.targets = Targets(Sender[m])]
    <3>1. /\ upload' = [upload EXCEPT ![m] = u]
          /\ UNCHANGED <<status, raced, epoch, envelopes>>
      BY <2>1 DEF Wrap
    <3>2. u.pc = "arrived"
      BY DEF NoUpload
    <3> HIDE DEF u
    <3> QED
      BY <3>1, <3>2, <1>0, ExclusionMoves DEF Writing
  <2>2. CASE ~Wrap(m)
    BY <1>1, <2>2, <1>s DEF Send, SendFresh, SendStale, NotReadyRefresh,
       KeysFail, UseExisting, Synced, SyncLost, PostFail, Retry, RetryRefreshed, RetryCiphertext
  <2> QED
    BY <2>1, <2>2
<1>2. ASSUME NEW m \in Msg, Rekey(m)
      PROVE  Exclusion'
  <2>1. CASE RekeyValidate(m)
    <3> DEFINE u == [upload[m] EXCEPT !.pc = "save"]
    <3>1. /\ upload' = [upload EXCEPT ![m] = u]
          /\ UNCHANGED <<status, raced, epoch, envelopes>>
      BY <2>1 DEF RekeyValidate, UploadGoTo
    <3>2. u.pc = "save"
      BY <1>0 DEF Upload
    <3> HIDE DEF u
    <3> QED
      BY <3>1, <3>2, <1>0, ExclusionMoves DEF Writing
  <2>2. CASE RekeyRefuse(m) \/ RekeySaveFail(m)
    <3>1. /\ upload' = [upload EXCEPT ![m] = NoUpload]
          /\ UNCHANGED <<status, raced, epoch, envelopes>>
      BY <2>2 DEF RekeyRefuse, RekeySaveFail, Rollback
    <3>2. NoUpload.pc = "none"
      BY DEF NoUpload
    <3> QED
      BY <3>1, <3>2, <1>0, ExclusionMoves DEF Writing
  <2>3. CASE RekeySave(m)
    <3> DEFINE u == [upload[m] EXCEPT !.pc = "close", !.key = keys + 1]
    <3>1. /\ upload' = [upload EXCEPT ![m] = u]
          /\ UNCHANGED <<status, raced, epoch, envelopes>>
      BY <2>3, <1>0 DEF RekeySave, TypeOK, Upload
    <3>2. u.pc = "close" /\ u.targets = upload[m].targets
      BY <1>0 DEF Upload
    <3>3. \A d \in upload[m].targets : ~Excluded(d)
      BY <2>3 DEF RekeySave, Active, Excluded
    <3> HIDE DEF u
    <3> QED
      BY <3>1, <3>2, <3>3, <1>0, ExclusionMoves
  <2>4. CASE RekeyClose(m)
    <3> DEFINE u == [upload[m] EXCEPT !.pc = "commit",
                                      !.closing = {e \in Epoch : epoch[e] \in Open}]
    <3>1. /\ upload' = [upload EXCEPT ![m] = u]
          /\ UNCHANGED <<status, raced, epoch, envelopes>>
      BY <2>4, <1>0 DEF RekeyClose, TypeOK, Upload
    <3>2. /\ u.targets = upload[m].targets
          /\ \A k \in Key : epoch[k] = "active" => k \in u.closing
      BY <1>0 DEF Upload, Epoch, Open
    <3>3. \A d \in upload[m].targets : ~Excluded(d)
      BY <2>4, <1>0 DEF RekeyClose, Exclusion, GivenNothing, Giving, Upload
    <3> HIDE DEF u
    <3> QED
      BY <3>1, <3>2, <3>3, <1>0, ExclusionMoves
  <2>5. CASE RekeyCommit(m)
    BY <2>5, ExclusionCommit
  <2> QED
    BY <1>2, <2>1, <2>2, <2>3, <2>4, <2>5 DEF Rekey
<1>3. ASSUME NEW m \in Msg, Post(m)
      PROVE  Exclusion'
  BY <1>3, <1>s DEF Post, PostCheck, PostRefuse, PostInsert
<1>4. ASSUME NEW c \in Device, NEW m \in Msg, Receive(c, m)
      PROVE  Exclusion'
  BY <1>4, <1>s DEF Receive
<1>5. ASSUME NEW d \in Device, Revoke(d)
      PROVE  Exclusion'
  BY <1>5, ExclusionRevoke
<1>6. ASSUME NEW d \in Device, Register(d) \/ Touch(d)
      PROVE  Exclusion'
  <2>1. /\ UNCHANGED <<upload, envelopes, epoch>> /\ Pending' = Pending
        /\ \A x \in Device : Excluded(x)' => Excluded(x)
    BY <1>0, <1>6 DEF Register, Touch, Excluded, Pending, TypeOK
  <2> QED
    BY <2>1, ExclusionStands
<1>7. CASE UNCHANGED vars
  BY <1>7, <1>s DEF vars
<1> QED
  BY <1>1, <1>2, <1>3, <1>4, <1>5, <1>6, <1>7 DEF Next

-----------------------------------------------------------------------------
(* The theorems.                                                           *)

\* The inductive invariant: it holds at the start and every step keeps it.
THEOREM InvariantHolds == Spec => []IInv
<1>1. Init => IInv
  <2> SUFFICES ASSUME Init
               PROVE  IInv
    OBVIOUS
  <2>1. TypeOK
    BY GroupAssumption DEF Init, Loaded, TypeOK, NoUpload, Upload, NewTask, Task,
       DeviceStatus, EpochState
  <2>2. Published = {}
    BY DEF Init, Published, Epoch
  <2>3. ServerInv
    BY <2>2 DEF Init, ServerInv, UploadsOK, UploadOK, NoUpload, Writing,
       KeysDistinct, KeysAreFresh, PublishedCovers, Epoch
  <2>4. ClientInv
    BY DEF Init, ClientInv, HeldIsPublished, SignedIsHeld, SentIsReadable, TasksOK, NewTask
  <2> QED
    BY <2>1, <2>3, <2>4 DEF IInv
<1>2. IInv /\ [Next]_vars => IInv'
  <2> SUFFICES ASSUME IInv, [Next]_vars
               PROVE  IInv'
    OBVIOUS
  <2>1. TypeOK'
    BY TypeStep DEF IInv, ServerInv
  <2> QED
    BY <2>1, LawfulStep, ClientsKept, ServerStep DEF IInv
<1> QED
  BY <1>1, <1>2, PTL DEF Spec

\* Every variable of GroupEpoch has its type (the models of messages.py,
\* devices.py and group_key_store.dart).
THEOREM TypeCorrect == Spec => []TypeOK
<1>1. IInv => TypeOK
  BY DEF IInv
<1> QED
  BY <1>1, InvariantHolds, PTL

\* Keys in a client's store were committed by the server, for that client:
\* group_key_store.dart saves a key only after its upload has succeeded.
THEOREM HeldCorrect == Spec => []HeldIsPublished
<1>1. IInv => HeldIsPublished
  BY DEF IInv, ClientInv
<1> QED
  BY <1>1, InvariantHolds, PTL

\* The signature that lets a client skip a rekey belongs to a key it holds:
\* group_key_store.dart saves the signature after the key.
THEOREM SignedCorrect == Spec => []SignedIsHeld
<1>1. IInv => SignedIsHeld
  BY DEF IInv, ClientInv
<1> QED
  BY <1>1, InvariantHolds, PTL

\* Every stored group message is readable by every member and its sender, in
\* spite of stale caches, lost answers, concurrent uploads and revocations.
THEOREM ReadableCorrect == Spec => []SentIsReadable
<1>1. IInv => SentIsReadable
  BY DEF IInv, ClientInv
<1> QED
  BY <1>1, InvariantHolds, PTL

\* A revocation takes effect: the key of a group that accepts writes was given
\* to no revoked device, except one that was revoked in between the last check
\* and the commit of an upload for it (messages.py, devices.py).
THEOREM RevocationHolds == Spec => []ExcludedUnlessRaced
<1>1. Init => Exclusion
  BY DEF Init, Exclusion, GivenNothing, ClosedInTime, Excluded
<1>2. IInv /\ Exclusion /\ [Next]_vars => Exclusion'
  BY ExclusionStep
<1>3. IInv /\ Exclusion => ExcludedUnlessRaced
  BY DEF IInv, TypeOK, Exclusion, ClosedInTime, Excluded, ExcludedUnlessRaced
<1> QED
  BY <1>1, <1>2, <1>3, InvariantHolds, PTL DEF Spec

\* What the server has published stays: the envelopes of a key never change, its
\* epoch never disappears, and a closed epoch never opens again, however the
\* uploads overlap (messages.py writes the epochs in one statement each).
ClosedStays == \A e \in Epoch : epoch[e] = "closed" => epoch'[e] = "closed"

THEOREM PublishedStays == Spec => [][KeepsPublished /\ ClosedStays]_vars
<1>1. ASSUME IInv, Next
      PROVE  ClosedStays
  <2>1. CASE UNCHANGED epoch
    BY <2>1 DEF ClosedStays
  <2>2. ASSUME NEW m \in Msg, RekeyCommit(m)
        PROVE  ClosedStays
    <3>1. epoch[upload[m].key] = "none"
      BY <1>1, <2>2 DEF RekeyCommit, IInv, ServerInv, UploadsOK, UploadOK, Writing
    <3> QED
      BY <2>2, <3>1 DEF RekeyCommit, ClosedStays
  <2>3. ASSUME NEW d \in Device, Revoke(d)
        PROVE  ClosedStays
    BY <1>1, <2>3 DEF Revoke, ClosedStays, IInv, TypeOK
  <2>4. \/ UNCHANGED epoch
        \/ \E m \in Msg : RekeyCommit(m)
        \/ \E d \in Device : Revoke(d)
    BY <1>1 DEF Next, Send, Rekey, Post, serverVars, SendFresh, SendStale,
       NotReadyRefresh, KeysFail, UseExisting, Wrap, Synced, SyncLost, PostFail,
       Retry, RetryRefreshed, RetryCiphertext, RekeyValidate, RekeyRefuse, RekeySave, RekeySaveFail,
       RekeyClose, Rollback, PostCheck, PostRefuse, PostInsert, Receive, Register, Touch
  <2> QED
    BY <2>1, <2>2, <2>3, <2>4
<1>2. IInv /\ [Next]_vars => [KeepsPublished /\ ClosedStays]_vars
  BY <1>1, LawfulStep DEF Lawful
<1> QED
  BY <1>2, InvariantHolds, PTL DEF Spec
=============================================================================
