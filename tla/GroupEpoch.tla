----------------------------- MODULE GroupEpoch -----------------------------
(***************************************************************************)
(* The key epochs of one group conversation: the clients' GroupKeyStore    *)
(* (crypto_core), the server's ConversationKeyEnvelopeView, DeviceRevoke-  *)
(* View and group write gate (services/backend).  The server's requests    *)
(* are READ COMMITTED transactions, so one that runs several statements    *)
(* does so in several steps, and its writes appear when it commits.        *)
(*                                                                         *)
(* Abstracted: key material and wrapping (a key is its number, in the      *)
(* order the server stamps the envelopes, updated_at), and the protocols   *)
(* and validity of device keys.  The members of the group are those of the *)
(* start: a sign-in that joins the general group, and a task's group whose *)
(* participants are set anew, are left out.                                *)
(***************************************************************************)
EXTENDS Naturals

CONSTANTS
    Device, User,
    Owner,          \* the user of each device; every user is in the group
    Initial,        \* devices that are registered at the start
    Revocable,      \* devices their user may revoke
    Returning,      \* revoked devices that still open a websocket
    Msg,
    Sender,         \* the device each message is sent from
    Marker,         \* ids of rekey-required epochs: one for each revocation
    MaxKeys,        \* bound on the keys of a behaviour
    MaxLost         \* bound on lost answers to an envelope upload

Key == 1..MaxKeys
Epoch == Key \union Marker

ASSUME GroupAssumption ==
    /\ Owner \in [Device -> User]
    /\ Sender \in [Msg -> Device]
    /\ Initial \subseteq Device
    /\ MaxKeys \in Nat /\ MaxLost \in Nat
    /\ Key \intersect Marker = {}

VARIABLES
    status,     \* UserDevice.status on the server; "absent": not registered
    epoch,      \* ConversationCryptoEpoch.state; "none": no such row
    envelopes,  \* devices with a committed envelope of each key
    creator,    \* sender_device of each key's envelopes
    keys,       \* keys stamped so far
    upload,     \* the server's transaction for the envelopes of each message
    view,       \* the user cache of each client: a snapshot of status
    signed,     \* the saved participant signature: devices, {} when none
    held,       \* the group keys in each client's secret store
    task,       \* the sending of each message
    message,    \* the key of the stored message, 0 when it is not stored
    lost,       \* lost answers so far
    raced       \* history: devices revoked while an upload past its checks was
                \* about to give them a key

serverVars == <<status, epoch, envelopes, creator, keys, message, raced>>
clientVars == <<view, signed, held>>
vars == <<status, epoch, envelopes, creator, keys, upload,
          view, signed, held, task, message, lost, raced>>

DeviceStatus == {"absent", "active", "revoked"}
EpochState == {"none", "pending", "active", "closed"}
Open == {"pending", "active"}

Upload == [pc : {"none", "arrived", "save", "close", "commit", "done"},
           targets : SUBSET Device, key : 0..MaxKeys, closing : SUBSET Epoch]
NoUpload == [pc |-> "none", targets |-> {}, key |-> 0, closing |-> {}]

Task == [pc : {"idle", "keys", "syncing", "post", "insert", "sent", "failed"},
         key : 0..MaxKeys, retried : BOOLEAN,
         kept : BOOLEAN]              \* the outbox row holds the ciphertext
NewTask == [pc |-> "idle", key |-> 0, retried |-> FALSE, kept |-> FALSE]

TypeOK ==
    /\ status \in [Device -> DeviceStatus]
    /\ epoch \in [Epoch -> EpochState]
    /\ envelopes \in [Key -> SUBSET Device]
    /\ creator \in [Key -> Device \union {0}]
    /\ keys \in 0..MaxKeys
    /\ upload \in [Msg -> Upload]
    /\ view \in [Device -> [Device -> DeviceStatus]]
    /\ signed \in [Device -> SUBSET Device]
    /\ held \in [Device -> SUBSET Key]
    /\ task \in [Msg -> Task]
    /\ message \in [Msg -> 0..MaxKeys]
    /\ lost \in 0..MaxLost
    /\ raced \subseteq Device

\* The users a client knows: a device that is in use has loaded the list of
\* conversations with its users, a new one has not.
Loaded == [c \in Device |-> [d \in Device |-> IF c \in Initial THEN status[d] ELSE "absent"]]

Init ==
    /\ status = [d \in Device |-> IF d \in Initial THEN "active" ELSE "absent"]
    /\ epoch = [e \in Epoch |-> "none"]
    /\ envelopes = [k \in Key |-> {}]
    /\ creator = [k \in Key |-> 0]
    /\ keys = 0
    /\ upload = [m \in Msg |-> NoUpload]
    /\ view = Loaded
    /\ signed = [c \in Device |-> {}]
    /\ held = [c \in Device |-> {}]
    /\ task = [m \in Msg |-> NewTask]
    /\ message = [m \in Msg |-> 0]
    /\ lost = 0
    /\ raced = {}

Active == {d \in Device : status[d] = "active"}
Pending == {e \in Epoch : epoch[e] = "pending"}
Published == {k \in Key : epoch[k] # "none"}

\* Past the last check of its devices, an upload is about to commit a key for d.
Giving(m, d) == upload[m].pc \in {"close", "commit"} /\ d \in upload[m].targets

-----------------------------------------------------------------------------
(* The client: getOrCreateKey for message m on the device that sends it.   *)

\* _resolveTargetDevices: the active devices in the cache.
Targets(c) == {d \in Device : view[c][d] = "active"}

Covers(devices) == \A u \in User : \E d \in devices : Owner[d] = u

\* Mutant: some participant has a usable device.
MutReady(c) == Targets(c) # {}

\* Every participant has a usable device.
Ready(c) == Covers(Targets(c))

\* Keys client c can read: an envelope for it, cached or of a known sender.
Readable(c) ==
    {k \in Published : /\ c \in envelopes[k]
                       /\ k \in held[c] \/ view[c][creator[k]] # "absent"}

IsNewest(c, k) == k \in Readable(c) /\ \A j \in Readable(c) : j <= k

GoTo(m, pc) == task' = [task EXCEPT ![m].pc = pc]

\* The users are refreshed, then the message is encrypted.
SendFresh(m) ==
    /\ task[m].pc = "idle" /\ status[Sender[m]] # "absent"
    /\ GoTo(m, "keys")
    /\ view' = [view EXCEPT ![Sender[m]] = status]
    /\ UNCHANGED <<serverVars, upload, signed, held, lost>>

\* The refresh is throttled, fails with a retryable error, or is not made.
SendStale(m) ==
    /\ task[m].pc = "idle"
    /\ view[Sender[m]][Sender[m]] # "absent"
    /\ GoTo(m, "keys")
    /\ UNCHANGED <<serverVars, upload, clientVars, lost>>

\* A ChatEncryptionException: refresh the users once and encrypt again.  The
\* refresh of a resumed flush is throttled.
NotReadyRefresh(m) ==
    /\ task[m].pc = "keys" /\ ~Ready(Sender[m])
    /\ ~task[m].retried
    /\ task' = [task EXCEPT ![m].retried = TRUE]
    /\ view' \in {view, [view EXCEPT ![Sender[m]] = status]}
    /\ UNCHANGED <<serverVars, upload, signed, held, lost>>

\* Not ready again, or a request of the client fails.
KeysFail(m) ==
    /\ task[m].pc = "keys"
    /\ GoTo(m, "failed")
    /\ UNCHANGED <<serverVars, upload, clientVars, lost>>

\* Mutant: the newest readable key serves, whatever the devices are.
MutUseExisting(m) ==
    LET c == Sender[m] IN
    /\ task[m].pc = "keys" /\ Ready(c)
    /\ status[c] = "active"
    /\ \E k \in Key :
          /\ IsNewest(c, k)
          /\ held' = [held EXCEPT ![c] = @ \union {k}]
          /\ task' = [task EXCEPT ![m] = [@ EXCEPT !.pc = "post", !.key = k]]
    /\ UNCHANGED <<serverVars, upload, view, signed, lost>>

\* The newest readable key serves as long as the devices are the signed ones.
UseExisting(m) ==
    LET c == Sender[m] IN
    /\ task[m].pc = "keys" /\ Ready(c)
    /\ status[c] = "active"
    /\ signed[c] = Targets(c)
    /\ \E k \in Key :
          /\ IsNewest(c, k)
          /\ held' = [held EXCEPT ![c] = @ \union {k}]
          /\ task' = [task EXCEPT ![m] = [@ EXCEPT !.pc = "post", !.key = k]]
    /\ UNCHANGED <<serverVars, upload, view, signed, lost>>

\* Mutant: the signature is saved before the upload has succeeded.
MutWrap(m) ==
    LET c == Sender[m] IN
    /\ task[m].pc = "keys" /\ Ready(c)
    /\ status[c] = "active"
    /\ signed[c] # Targets(c) \/ Readable(c) = {}
    /\ upload[m].pc \in {"none", "done"}
    /\ upload' = [upload EXCEPT ![m] =
                    [NoUpload EXCEPT !.pc = "arrived", !.targets = Targets(c)]]
    /\ held' = [held EXCEPT ![c] = @ \union {k \in Key : IsNewest(c, k)}]
    /\ signed' = [signed EXCEPT ![c] = Targets(c)]
    /\ GoTo(m, "syncing")
    /\ UNCHANGED <<serverVars, view, lost>>

\* A new key is wrapped for the cached devices and uploaded.
Wrap(m) ==
    LET c == Sender[m] IN
    /\ task[m].pc = "keys" /\ Ready(c)
    /\ status[c] = "active"
    /\ signed[c] # Targets(c) \/ Readable(c) = {}
    /\ upload[m].pc \in {"none", "done"}
    /\ upload' = [upload EXCEPT ![m] =
                    [NoUpload EXCEPT !.pc = "arrived", !.targets = Targets(c)]]
    /\ held' = [held EXCEPT ![c] = @ \union {k \in Key : IsNewest(c, k)}]
    /\ GoTo(m, "syncing")
    /\ UNCHANGED <<serverVars, view, signed, lost>>

\* The upload succeeded: save the key, then the signature.
Synced(m) ==
    LET c == Sender[m] IN
    /\ task[m].pc = "syncing" /\ upload[m].pc = "done"
    /\ held' = [held EXCEPT ![c] = @ \union {upload[m].key}]
    /\ signed' = [signed EXCEPT ![c] = upload[m].targets]
    /\ task' = [task EXCEPT ![m].pc = "post", ![m].key = upload[m].key]
    /\ UNCHANGED <<serverVars, upload, view, lost>>

\* Mutant: the key is saved although the answer is lost.
MutSyncLost(m) ==
    /\ task[m].pc = "syncing" /\ lost < MaxLost
    /\ lost' = lost + 1
    /\ held' = [held EXCEPT ![Sender[m]] = @ \union {k \in Key : k = upload[m].key}]
    /\ GoTo(m, "failed")
    /\ UNCHANGED <<serverVars, upload, view, signed>>

\* The answer is lost: the client gives up, the server goes on.
SyncLost(m) ==
    /\ task[m].pc = "syncing" /\ lost < MaxLost
    /\ lost' = lost + 1
    /\ GoTo(m, "failed")
    /\ UNCHANGED <<serverVars, upload, clientVars>>

\* The row is written back from the copy the attempt began with; what is not
\* caught leaves it with the ciphertext.
Fail(m, kept) ==
    task' = [task EXCEPT ![m] = [NewTask EXCEPT !.pc = "failed", !.kept = kept,
                                     !.key = IF kept THEN task[m].key ELSE 0]]

PostFail(m) ==
    /\ task[m].pc = "post"
    /\ \E kept \in {task[m].kept, TRUE} : Fail(m, kept)
    /\ UNCHANGED <<serverVars, upload, clientVars, lost>>

\* The retry encrypts anew, for the devices the client knows: nothing is
\* refreshed before.
Retry(m) ==
    /\ task[m].pc = "failed" /\ ~task[m].kept
    /\ task' = [task EXCEPT ![m] = [NewTask EXCEPT !.pc = "keys"]]
    /\ UNCHANGED <<serverVars, upload, clientVars, lost>>

\* The same, after the list of conversations was loaded, which fetches the users.
RetryRefreshed(m) ==
    /\ task[m].pc = "failed" /\ ~task[m].kept
    /\ task' = [task EXCEPT ![m] = [NewTask EXCEPT !.pc = "keys"]]
    /\ view' = [view EXCEPT ![Sender[m]] = status]
    /\ UNCHANGED <<serverVars, upload, signed, held, lost>>

\* The row holds the ciphertext: the retry posts it again.
RetryCiphertext(m) ==
    /\ task[m].pc = "failed" /\ task[m].kept
    /\ GoTo(m, "post")
    /\ UNCHANGED <<serverVars, upload, clientVars, lost>>

\* getExistingKey for the key of a stored message, to decrypt it.
Receive(c, m) ==
    /\ message[m] \in Readable(c) \ held[c]
    /\ held' = [held EXCEPT ![c] = @ \union {message[m]}]
    /\ UNCHANGED <<serverVars, upload, view, signed, task, lost>>

-----------------------------------------------------------------------------
(* The server: ConversationKeyEnvelopeView.post.                           *)

UploadGoTo(m, pc) == upload' = [upload EXCEPT ![m].pc = pc]

\* The transaction is rolled back and its client, if it still waits, fails.
Rollback(m) ==
    /\ upload' = [upload EXCEPT ![m] = NoUpload]
    /\ task' = [task EXCEPT ![m].pc = IF @ = "syncing" THEN "failed" ELSE @]
    /\ UNCHANGED <<serverVars, clientVars, lost>>

\* The sender is active and the envelope set is exactly the active devices.
Accepts(m) == status[Sender[m]] = "active" /\ upload[m].targets = Active

RekeyValidate(m) ==
    /\ upload[m].pc = "arrived" /\ Accepts(m)
    /\ UploadGoTo(m, "save")
    /\ UNCHANGED <<serverVars, clientVars, task, lost>>

RekeyRefuse(m) ==
    /\ upload[m].pc = "arrived" /\ ~Accepts(m)
    /\ Rollback(m)

\* Mutant: the targets are taken as they were checked.
MutRekeySave(m) ==
    /\ upload[m].pc = "save"
    /\ keys < MaxKeys
    /\ keys' = keys + 1
    /\ upload' = [upload EXCEPT ![m].pc = "close", ![m].key = keys + 1]
    /\ UNCHANGED <<status, epoch, envelopes, creator, message, raced, clientVars, task, lost>>

\* Every target is looked up again, as an active device.
RekeySave(m) ==
    /\ upload[m].pc = "save"
    /\ upload[m].targets \subseteq Active
    /\ keys < MaxKeys
    /\ keys' = keys + 1
    /\ upload' = [upload EXCEPT ![m].pc = "close", ![m].key = keys + 1]
    /\ UNCHANGED <<status, epoch, envelopes, creator, message, raced, clientVars, task, lost>>

RekeySaveFail(m) ==
    /\ upload[m].pc = "save"
    /\ ~(upload[m].targets \subseteq Active)
    /\ Rollback(m)

\* The update that closes the other epochs sees the rows committed by now.
RekeyClose(m) ==
    /\ upload[m].pc = "close"
    /\ upload' = [upload EXCEPT
          ![m].pc = "commit",
          ![m].closing = {e \in Epoch : epoch[e] \in Open}]
    /\ UNCHANGED <<serverVars, clientVars, task, lost>>

RekeyCommit(m) ==
    LET k == upload[m].key IN
    /\ upload[m].pc = "commit"
    /\ epoch' = [e \in Epoch |-> IF e = k THEN "active"
                                 ELSE IF e \in upload[m].closing THEN "closed"
                                 ELSE epoch[e]]
    /\ envelopes' = [envelopes EXCEPT ![k] = upload[m].targets]
    /\ creator' = [creator EXCEPT ![k] = Sender[m]]
    /\ UploadGoTo(m, "done")
    /\ UNCHANGED <<status, keys, message, raced, clientVars, task, lost>>

-----------------------------------------------------------------------------
(* The server: group messages, devices.                                    *)

\* MessageCreateSerializer refuses a group message while a rekey is pending.
PostCheck(m) ==
    /\ task[m].pc = "post" /\ Pending = {}
    /\ GoTo(m, "insert")
    /\ UNCHANGED <<serverVars, upload, clientVars, lost>>

PostRefuse(m) ==
    /\ task[m].pc = "post" /\ Pending # {}
    /\ Fail(m, task[m].kept)
    /\ UNCHANGED <<serverVars, upload, clientVars, lost>>

PostInsert(m) ==
    /\ task[m].pc = "insert"
    /\ message' = [message EXCEPT ![m] = task[m].key]
    /\ GoTo(m, "sent")
    /\ UNCHANGED <<status, epoch, envelopes, creator, keys, raced, upload, clientVars, lost>>

Register(d) ==
    /\ status[d] = "absent"
    /\ status' = [status EXCEPT ![d] = "active"]
    /\ UNCHANGED <<epoch, envelopes, creator, keys, message, raced, upload, clientVars, task, lost>>

\* DeviceRevokeView: the device, and a pending epoch for the group.
Revoke(d) ==
    /\ d \in Revocable /\ status[d] = "active"
    /\ status' = [status EXCEPT ![d] = "revoked"]
    /\ \E r \in Marker : /\ epoch[r] = "none"
                         /\ epoch' = [epoch EXCEPT ![r] = "pending"]
    /\ raced' = raced \union {x \in {d} : \E m \in Msg : Giving(m, x)}
    /\ UNCHANGED <<envelopes, creator, keys, message, upload, clientVars, task, lost>>

\* ChatEventsConsumer._touch_device sets ACTIVE whatever the status was.
Touch(d) ==
    /\ d \in Returning /\ status[d] = "revoked"
    /\ status' = [status EXCEPT ![d] = "active"]
    /\ raced' = raced \ {d}
    /\ UNCHANGED <<epoch, envelopes, creator, keys, message, upload, clientVars, task, lost>>

-----------------------------------------------------------------------------
Send(m) ==
    \/ SendFresh(m) \/ SendStale(m) \/ NotReadyRefresh(m) \/ KeysFail(m)
    \/ UseExisting(m) \/ Wrap(m) \/ Synced(m) \/ SyncLost(m) \/ PostFail(m)
    \/ Retry(m) \/ RetryRefreshed(m) \/ RetryCiphertext(m)

Rekey(m) ==
    \/ RekeyValidate(m) \/ RekeyRefuse(m) \/ RekeySave(m) \/ RekeySaveFail(m)
    \/ RekeyClose(m) \/ RekeyCommit(m)

Post(m) == PostCheck(m) \/ PostRefuse(m) \/ PostInsert(m)

Next ==
    \/ \E m \in Msg : Send(m) \/ Rekey(m) \/ Post(m)
    \/ \E c \in Device, m \in Msg : Receive(c, m)
    \/ \E d \in Device : Register(d) \/ Revoke(d) \/ Touch(d)

Spec == Init /\ [][Next]_vars

-----------------------------------------------------------------------------
(* Safety.                                                                 *)

\* A key in a client's store is one the server has committed an envelope of
\* for this client: nothing is encrypted under a key that only one device has.
HeldIsPublished ==
    \A c \in Device : \A k \in held[c] : k \in Published /\ c \in envelopes[k]

\* The saved signature, which stops a client from rekeying, always belongs to
\* a key the client holds and that covers exactly the signed devices.
SignedIsHeld ==
    \A c \in Device : signed[c] # {} =>
        \E k \in held[c] : envelopes[k] = signed[c]

\* Every stored message can be read: its key was given to a device of every
\* participant, and to the device that sent it.
SentIsReadable ==
    \A m \in Msg : message[m] # 0 =>
        /\ message[m] \in Published
        /\ Sender[m] \in envelopes[message[m]]
        /\ Covers(envelopes[message[m]])

\* Documented: "the server refuses further group writes until a full
\* active-device envelope set activates a new epoch"
\* (PQCV2_ENTERPRISE_CORE.md:34).  While the group accepts writes, no open
\* epoch was given to a device that is revoked.
RevokedExcluded ==
    Pending = {} => \A k \in Key : epoch[k] = "active" =>
        \A d \in envelopes[k] : status[d] # "revoked"

\* While the group accepts writes, an open epoch was given to a revoked device
\* only if the revocation committed in between the last check of the devices by
\* an upload for this device and the end of its transaction: in every other
\* order of revocations and concurrent uploads the epoch is closed first.
ExcludedUnlessRaced ==
    Pending = {} => \A k \in Key : epoch[k] = "active" =>
        \A d \in envelopes[k] : status[d] = "revoked" => d \in raced

\* Documented: "Refresh it once and rebuild the epoch instead of failing the
\* send at the first attempt" (outgoing_message_crypto.dart:58).  A send whose
\* envelope set is refused has refreshed its users before it fails.
RefreshedBeforeFailing ==
    [][\A m \in Msg :
         task[m].pc = "syncing" /\ task'[m].pc = "failed" /\ lost' = lost
           => task[m].retried]_vars

-----------------------------------------------------------------------------
(* Liveness.  The user retries again and again, also after a visit to the  *)
(* list of conversations, and the requests of a client do not fail         *)
(* forever; the steps of a transaction follow one another.                 *)

Fairness ==
    \A m \in Msg :
        /\ SF_vars(NotReadyRefresh(m) \/ UseExisting(m) \/ Wrap(m))
        /\ SF_vars(PostCheck(m))
        /\ SF_vars(RetryRefreshed(m)) /\ SF_vars(RetryCiphertext(m))
        /\ WF_vars(KeysFail(m) \/ Synced(m) \/ PostRefuse(m) \/ PostInsert(m))
        /\ WF_vars(Rekey(m))

FairSpec == Spec /\ Fairness

\* The client takes its key for the current one and uploads no envelope set,
\* although the group waits for one (group_key_store.dart:134).
Deadlocked(c) == Pending # {} /\ signed[c] = Active

\* The message is encrypted for good: no retry of it uploads an envelope set.
StuckCiphertext(m) == Pending # {} /\ task[m].kept

\* A failed message of a device that is not revoked is sent in the end when
\* its user goes on retrying and returns to the list, although devices come,
\* go and come back and a revocation holds up the group's writes.  Nothing else
\* is in the way than a member without any device, or the states above.
SentUnlessDeadlocked ==
    \A m \in Msg : Sender[m] \notin Revocable =>
        task[m].pc = "failed" ~>
            \/ task[m].pc = "sent" \/ ~Covers(Active)
            \/ Deadlocked(Sender[m]) \/ StuckCiphertext(m)

\* Documented: a pending rekey epoch holds up the writes only "until a full
\* active-device envelope set activates a new epoch"
\* (PQCV2_ENTERPRISE_CORE.md:34).  With a device for every member, a message is
\* sent in the end whatever the client believes.
EventuallySent ==
    \A m \in Msg : Sender[m] \notin Revocable =>
        task[m].pc = "failed" ~> task[m].pc = "sent"
=============================================================================
