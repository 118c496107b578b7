# PQC Chat: TLA+ models, model checks and proofs

PQC Chat ("antiQ") is an end-to-end encrypted chat. A Flutter client
(`src/lib`, `src/packages/chat_core`, `src/packages/crypto_core`,
`src/packages/pqc_engine_sdk`) encrypts everything on the device; a Django REST
backend (`src/services/backend`) stores ciphertexts, key envelopes and a
recovery vault it can open only through a key escrow service.

This directory models the parts where tasks, requests, crashes and lost answers
interleave, checks them with TLC on small instances and proves the main safety
properties with TLAPS for every instance.

1. [The system](#1-the-system)
2. [Modules](#2-modules)
3. [Runs](#3-runs-and-what-they-show)
4. [Bounds](#4-bounds-and-why-they-are-enough)
5. [Fairness](#5-fairness)
6. [Proofs](#6-proofs)
7. [Disagreements found](#7-disagreements-between-the-code-and-its-documents)
8. [What is not modelled](#8-what-is-not-modelled)
9. [Plan](#9-plan)

## 1. The system

Names in the middle column are those of the code.

| part | state and operations | what makes it hard, and what makes it correct |
|---|---|---|
| **Outbox** `chat_core/.../outgoing_message_*.dart`, `outbox_store.dart` | durable rows of `queued_outgoing_messages` (state, ciphertext, retry count, `nextRetryAt`), `_inFlightSends` in memory. `sendMessage`, `flushPendingMessages`, `retryMessage`, `resumePendingWork` | tasks interleave at each await, the server commits and the answer is lost, the process ends anywhere. One server message for one queued message, and none is forgotten |
| **Message create / list** `chat/api_views/messages.py` | `Message` rows, unique by sender and `client_message_id`; pages by `after_id` and `before_id`; edit, delete, reactions, receipts | a retry with another ciphertext, ids that commit out of order |
| **Group key epochs** `group_key_store.dart`, `ConversationKeyEnvelopeView`, `DeviceRevokeView` | client: held keys, the signature of the participants' devices, the user cache. Server: `ConversationCryptoEpoch`, `ConversationKeyEnvelope`, device status | caches up to 15 s old on every client, revocations inside transactions. Every stored message can be read by every member, a revoked device is left out |
| **Attachments** `attachments.py`, `cleanup_attachment_storage.py` | upload session, chunk receipts, chunk objects, final object | the object storage is not rolled back with the database; the cleanup takes no locks. A completed attachment is whole, and what is abandoned is removed |
| **Message synchronisation** `chat_sync_services.dart`, `chat_conversation_controller.dart`, `chat_realtime_coordinator.dart` | stored rows, the cursor of a conversation, the plaintext cache. `syncMessages`, `syncOlderMessages`, `message.created` events, repair of decrypt failures | three writers of the same rows, late keys, late commits. No gap below the cursor, failure markers are repaired |
| **Key registry** `key_material_registry.dart` | one store entry per keyset, the list of keysets, a pending id | the store writes one entry at a time; callers overlap; the process ends between two writes. No keyset is lost |
| **Recovery vault** `recovery.py`, `enterprise_recovery_sync_service.dart`, `chat_hub_backup_actions.dart` | manifest (sequence, vector clock, Merkle root), escrow records; on the client the hashes last published and verified | two publishers on each device, conflicts, abandoned requests. The manifest covers the records, a restore gets the newest keys |
| **Recovery approvals and grants** `recovery.py`, `common.py` | `RecoveryDeviceApproval`, `RecoveryAccessGrant` | overlapping reads, decisions that arrive late. Each is used once, nobody approves himself |
| **Audit ledger** `users/audit.py` | hash-chained events | a lock on the last row only |
| **Accounts, identities, sessions** `authentication.py`, `users/api_views/common.py`, `session_controller.dart` | `User` (e-mail), `GoogleAccount`, `UserDevice` (owner, status, key profile, recovery credential); the session an app has stored. Sign-in by name and by Google, `DeviceSyncView`, `restoreSession`, logout, e-mail change | a request the app gave up commits later; two first sign-ins overlap; a row is checked and written in two statements. A session's device is the account's in the directory, a revoked device stays revoked, a Google identity has one account |
| **Device lifecycle** `devices.py`, `device_state_manager.dart` | device status and profile, re-enrolment, rotation to a new installation | two stores that are written one after the other |
| **Conversations** `ConversationListView`, `get_or_create_private_conversation`, `chat_facade_conversations.dart` | conversation rows with `updated_at`; the app's list with its cursor `_lastConversationSyncAt`. Open a private conversation, post, `loadChatList` | both users open at the same moment; the cursor is the app's clock and is set before the rows are stored. One conversation for each pair, no update missed |
| **Realtime** `consumers.py`, `chat_realtime_service.dart` | channels, presence, receipts | reconnects overlap, events are lost |
| **Receipts, reactions, edits** `messages.py`, `consumers.py`, `chat_conversation_controller.dart` | `MessageReceipt`, body and deletion of a message, `isRead` on the sender's screen | read-modify-write without locks, two ways to write one receipt, answers that overtake events. A deletion stays, what was read is recorded as read |
| **Transfers** `attachment_transfer_facade.dart` | progress of an upload, pause and resume | a restart in the middle |
| **Protocol choice** `version_manager.dart`, `chat/protocols` | none: a choice from lists | old and new clients in one group |
| **Task/KPI plugin** `backend_plugins/task_kpi` | `WorkTask` (status, assignee, dates), `TaskWatcher`, `TaskNotification`. Create, transitions, manage (reassign, watchers, cancel), comment | requests that work on a copy of the row while others reassign or cancel it. Work is done by its assignee and approved by another, dates and notifications follow |
| **RBAC plugin, organisations** `backend_plugins/rbac`, `users/models.py` | `WorkspaceMembership`, job roles with rank and visibility, assignments, invitations | permissions are computed from rows that change between two requests |
| **Encrypted backup, key verification, codecs, UI, notifications, deployment** | see section 8 | |

How they interact. The outbox calls the group key store before each send and the
attachment upload before a message with files; the server's message create asks
the epochs whether the key may be used. A delivered message comes back to its
own sender through the synchronisation and the events, and is read there
through the plaintext cache. Every send and sign-in starts a background
publication of the vault, which exports the registry's keysets; a sign-in
restores the vault into the registry, which lets the synchronisation repair its
failure markers. Revoking a device touches epochs, vault and approvals; a sign-in
touches the account, the device row (which the group keys read), the recovery
credential (which the vault reads) and the workspace membership (which the tasks
read). A post stamps its conversation, which the list of conversations reads; a
reader's app answers each message with receipts.

## 2. Modules

A name in a module is the code's name where there is one; `PROJECT.json` maps
each definition to its lines. Definitions named `Mut...` are mutants: plausible
bugs, used by no specification, kept to show that the properties notice them. A
variable marked "history" is no state of the code: it remembers what a property
speaks of.

**`Outbox`**, one client and the server. `sender[m]` is the `sendMessage` task of
message m, `flusher[f]` a flush or retry task with the snapshot it works
through, `op[m]` the shared delivery that both join (`JoinOrStart`,
`_inFlightSends`). Each step of a task runs from one await to the next. `net`
holds requests; the 20 s time-out answers the client while the request is still
on its way, so that the server may commit later (`ServerCreate`).
`OpPersist` stores the sent message; `SenderFail` and `FlushFail` classify the
error as `_isRetryable` does and write the row back from the copy they have; an error that
is no `ApiException` ends a flush, and may come at the preparation already (`OpPrepareFails`). `Crash`
keeps rows and stored messages only. The sends of one controller are serialized
by `_sendTail`; the model lets them overlap, which is more than the code does.

**`MessageDelivery`** is what the outbox promises: a message is accepted, then
stored on the server at most once, with the body that the client shows as sent.
`Outbox!Delivery` is the refinement mapping.

**`GroupEpoch`**, the devices of one group and the server. A key is its number in
the order of the server's stamps. A send prepares the keys (`SendFresh`, `SendStale`,
`UseExisting`, `Wrap`), uploads envelopes in a transaction of several statements
(`upload[m].pc`), and posts; the server refuses a post while a rekey is
pending (`PostRefuse`). A send that was refused fails, and nothing refreshes or repeats it: the user retries
it (`Retry`, with the users as they are cached), perhaps after a visit to the list of conversations,
which fetches them (`RetryRefreshed`). A row that holds its ciphertext is posted again and never encrypted
again (`RetryCiphertext`, `task[m].kept`).
`view[c]` is the client's user cache, a snapshot of the server's devices that may
be old; a device in use starts with what its list of conversations has loaded (`Loaded`). `Touch` is the websocket setting a device ACTIVE whatever it was. `raced` (history) holds
the devices whose revocation committed after the last check and before the commit of an upload
that gives them a key (`Giving`).

**`AttachmentUpload`**, workers that hold the row lock of a session, readers of
`AttachmentSessionDetailView`, and the cleanup, which reads all rows first and works
through them without a lock. `object` and `blob` are the storage, which keeps what a rolled-back
transaction has written. The retention of completed sessions is taken as 0 h.

**`AtomicUpload`** is what the uploads promise their clients: a session receives each
chunk once, is closed once, by its only attachment or without one, and does not change after that.
`AttachmentUpload!Upload` is the refinement mapping: a session is closed when its row says
completed or expired, and its file is the blob once there is an attachment.

**`MessageSync`**, one conversation on one client. A message is its id, handed out
before its transaction commits. `sync["poll"]` and `sync["older"]` run between
their awaits; `events` and `handling` are the websocket path. A row is "text" or "marker" (one of
the decrypt failure markers). `start` is the first id of the page that set the first
cursor, which is where `NoGap` begins. Ids commit in any order, as PostgreSQL lets them (`settings.py:87` requires it in
production); `late` (history) holds the messages that were committed when a poll had passed them. The codecs are those the
app installs: V2, whose failure markers are cached as plaintext, and V3, whose markers are not.

**`KeyRegistry`**, the four writes of `_writeKeyset` one by one (pending id, entry,
list, end of the pending id), for several callers, with crashes. `EnsureCurrent` also seals an entry that an
earlier version stored without a hash (`sealed`), with the status it has. `disturbed` (history) holds the
keysets whose write a crash cut off or another caller's write overlapped.

**`RecoveryVault`**, the PUT transaction under the lock of the manifest row, the
two publishers of each device with their index read, PUT, one retry after a
conflict and verification, revocation, and a restore in its two reads
(READ COMMITTED shows each statement what is committed then). `authored` (history) tells which publisher a
record came from.

**`RecoveryLog`** is what the vault promises the devices of an account: a log to which each
accepted PUT is appended once, and from which a revocation withdraws what its device has stored.
`RecoveryVault!Log` is the refinement mapping.

**`RecoveryAccess`**, approval and grant rows and the GET that uses them: a request for
an approval marks the old ones as expired and creates one, in two statements (`Expire`, `Request`); the
approval is looked up without a lock (`Start`), the grant under
`select_for_update` (`TakeGrant`), both are written as used at the end
(`Deliver`). `DecideLate` is the decision after `expires_at`. The code looks the grant up in the
same transaction that decrypts the records, so a read holds its grant until it
ends. The audit event that a read appends can make a second, equal read fail (its hash is unique); that outcome is the
one of `Corrupted`: 500 and nothing used.

**`Accounts`**, the account rows, the devices and the session of each app. A request
is one transaction in three steps, from one database statement another
transaction may wait at to the next: `Resolve` finds the account (by device, by
the name of the device, by Google identity, by e-mail), `Check` writes the
account and reads the row of the device, `Commit` writes that row, its
credential and the answer. `Abort` is the unique constraint of `google_subject`,
`Refusal` the early return, which commits what was written of the account.
A request whose client has given up (`live` is false) goes on. A request is
numbered and gives its number to the account and the credential it creates.

**`TaskWorkflow`**, one task. `Lock` is `_get_task` with `for_update`: it is granted
to one request at a time and copies the row to `snap`, on which the request
works; `Transition`, `Cancel`, the `Manage` family and `Comment` end the
request, `Refuse` is every error. `Assignable`, `CanManage`, `CanView` and
`Available` are `permissions.py`, `workflow.py` and the reporting scope, read
from memberships, assignments and roles (rank, visibility, `is_active`) that the RBAC actions change at any
time, each by an active administrator or a member of `RBAC_BOOTSTRAP_ADMIN_EMAILS` (`Bootstrap`). A member that is deactivated
while a request of theirs waits still has it carried out (`late`). The ids of a request are compared with those
of the row as they came (`Form`): a text is accepted and differs from every id, so that it reopens the task
of the same assignee and leaves the assignee among the watchers.

**`TaskLife`** is the life of a task as the people who use it know it: open, under review,
closed, void, and held by one assignee; who is given a task, its holder or another, starts anew. `TaskWorkflow!Life` is the refinement
mapping.

**`Conversations`**. Each `Opener` is a request that opens the conversation of
one pair, under the lock of the row of the workspace. A post stamps
`updated_at` and commits later (`StampPost`, `CommitPost`). Each `Loader` is a
call of `loadChatList`: nothing keeps two apart. `FetchList` is the answer of the
server, cut to a page; `ListLoaded` and `StoreFailed` set the cursor to the device's
clock, which is the server's plus any offset of `Drift`, a new one each time, and store all or some of the rows. `StoreElsewhere` are the other
writers of a row: a conversation that is opened, an event, a delivery, with the row as it is or as it was earlier.

**`ChatMessages`**, one message after it was posted. `EditMessage` and `SaveEdit`
are the two statements of the view, `TakeEvent`/`SaveEvent` and
`TakeRequest`/`SaveRequest` those of the two handlers that write a receipt.
`RefreshMessages` is a round of an open conversation (both events and the HTTP
fallback). `ShowMessages` is the sender's own refresh: it asks only for what is newer than the cursor and merges the local
row, which stores no `isRead`, over the message on the screen.

`MC<module>` instantiates a module for TLC; `<module>Proofs` holds its
theorems (`ChatProofs` those of the modules of `MCChat`, `WorkspaceProofs` those of
`TaskWorkflow` and `Accounts`). `MCChat` and `MCParts` instantiate three modules each that share no
row (`AttachmentUpload`, `Conversations`, `ChatMessages`; `TaskWorkflow`,
`Accounts`, `KeyRegistry`): a behaviour exercises one of the three, chosen in the
initial state, so the states add up and do not multiply. `MessageSync` needs no
definitions of its own for TLC and is run directly, as are `AttachmentUpload` and
`KeyRegistry` in the configurations of section 7.

## 3. Runs and what they show

| run (`*.cfg`) | properties | what it shows |
|---|---|---|
| `Outbox` | `NoStrandedWaiter`, `LocalMatchesServer`, `OnlyQueuedTravels`, `ImplementsDelivery` | a message with a file over a network that loses and delays: `sendMessage` with two flush or retry tasks, or with one, a crash anywhere and two tasks after it: nobody waits for a delivery that has ended, copies agree with the server, only what is queued travels, and the outbox implements `MessageDelivery` |
| `OutboxResume` | `SettledUnlessBlocked` | the outbox a session has left, with a text and a message that can never be encrypted, in one conversation or two, and one more crash: wherever the session starts reach the resume, the text is sent or marked as failed unless such a message stands before it |
| `Group` | `HeldIsPublished`, `SignedIsHeld`, `SentIsReadable`, `ExcludedUnlessRaced` | a client of each user sends while bob registers a device, revokes the other and comes back with it, and an answer is lost: stored keys are published, signatures belong to a held key, stored messages can be read by every member, and while posts are accepted no key in use was given to a revoked device, but for the race of section 7 |
| `GroupLive` | `SentUnlessDeadlocked` | bob registers, revokes and brings back up to three devices: a failed message is sent in the end by retries and visits to the list of conversations, unless a member has no device left, the epochs are in the dead end of section 7, or the row holds a ciphertext while a rekey is pending |
| `Chat` | `ReceiptsKept`, `ImplementsUpload`, `TemporaryRemoved` | attachments: two workers, a reader, the cleanup, storage failures: a receipt names the stored bytes, a session is an atomic object (`AtomicUpload`), so that its attachment is made once, is whole and stays as it is, and its chunk objects are removed in the end |
| | `OnePrivateConversation`, `ListMissesOnlyExposed` | conversations: both users open theirs at the same time and get one; overlapping loads, failed requests, restarts and a clock of the device that is behind lose no update of the list but those named below |
| | `DeletedStays`, `ReadRecorded` | one message: a deletion survives an edit under way; a reader who keeps the conversation open is recorded as having read it for good, though an event may write a receipt back from an old copy |
| `Sync` | `NoGap`, `ArrivesUnlessPassed` | polling, older pages, events, own sends, commits in any order and a fault: everything between the first page and the cursor is stored but for late commits, and each committed message arrives unless a poll had passed it or it lies in the hole of section 7 |
| `SyncRepair` | `WindowRepaired` | a V2 and a V3 message, late keys and a fault: inside the window a failure marker that is not cached is replaced once the key is there |
| `Parts` | `DatesMatchStatus`, `DoneByItsAssignee`, `AssigneeTold`, `ImplementsLife` | tasks: an administrator, a head and an employee work on one task while roles and memberships change: its dates tell what its status tells, what counts as handed in or done was done by the present assignee and approved by another, who is assigned is told, and no step skips a stage of its life |
| | `SessionOwnsDevice`, `CredentialKept`, `GoogleIdentity`, `RevokedStays` | accounts: three overlapping sign-ins or synchronisations of two devices with time-outs and revocations: the directory names the account and the keys of every signed-in app, its recovery credential stays valid, a Google identity has one account, a revoked device is brought back by nothing but the websocket |
| | `LossExplained`, `OverwrittenInOverlap` | key registry: two callers, a crash, an entry of an earlier version: a keyset gets out of reach, and a restore replaces an active keyset, only if its write was cut off or overlapped another write |
| `Vault` | `VaultConsistent`, `ImplementsLog` | two devices with both publishers each, a conflict, a fault, a revocation: overlapping PUTs are appended one after the other (`RecoveryLog`) and the root covers the records |
| `VaultDevice` | `RememberedIsStored`, `RecordsInOrder`, `Published` | both publishers of a device whose keys change: what is remembered as published is stored, the records of a publisher are numbered in the order of its snapshots, and every state of the keys, or a newer one, reaches the vault |
| `Access` | `GrantOnce`, `ReadAllowed`, `DecisionFinal`, `SharedOnlyByOverlap` | overlapping reads, sign-ins, revocations: a grant serves one read; each read had a grant of its device or another device's approval; no late decision and no end of a read brings an approval back; an approval that was used serves no read that starts later |
| `VaultRevoked` | `RestoreWorks` (violated) | section 7 |

The other configurations beside the modules reproduce the other rows of
section 7.

Some properties exist twice: once as a document promises it, or a user expects it, which does not hold, and once with the
exact circumstances that break the promise, which holds; so the second also shows that nothing else the model has breaks the first.

| does not hold | holds | but for |
|---|---|---|
| `EventuallySettled` | `SettledUnlessBlocked` | an older message, or one of another conversation, that throws in every flush |
| `EventuallySent` | `SentUnlessDeadlocked` | a client that takes its key for the current one, a row with a ciphertext, each while a rekey is pending; a member without a device |
| `RevokedExcluded` | `ExcludedUnlessRaced` | a revocation that commits inside the last part of an upload |
| `CommittedArrives` | `ArrivesUnlessPassed` | a commit after a poll has passed its id; the hole above a row stored before the first poll |
| `MarkersRepaired` | `WindowRepaired` | a row outside the newest page; a marker that is cached as plaintext |
| `NothingLost`, `NeverOverwritten` | `LossExplained`, `OverwrittenInOverlap` | a write that a crash cuts off, or that another caller's write overlaps |
| `DeviceInOrder` | `RecordsInOrder` | two publishers of one device |
| `ApprovalOnce` | `SharedOnlyByOverlap` | reads that overlap |
| `ListIsComplete` | `ListMissesOnlyExposed` | a write while a list is fetched, a stamp that the device's clock is ahead of, a page that is cut off, a failure of the local database, an older row stored by another writer |
| `ReadSettles` | `ReadRecorded` | the sender's screen, which the second does not speak of |

`CredentialKept` excepts in the same way a sign-in that the app had given up and that commits
later, and `GoogleIdentity` accounts whose e-mail was changed by hand.

## 4. Bounds, and why they are enough

*Outbox*: in the safety run one message, because the shared delivery, the row and the server's unique
key are all per message and tasks of different messages meet only in the flush
loop. Two ciphertexts (a retry encrypts anew); two flush tasks beside the
sender (three tasks on one delivery), or one until the crash and two after it (`OneTaskBeforeCrash`: two on each side
of a crash would be too many states, and no state of a task survives it). The resume run has three messages, so that the one
which throws can stand before or after the text in one conversation, or in another; it starts with the rows a
session may have left (`Restarted`).
*GroupEpoch*: the safety run has a sender of each user, three keys, a
registration, a revocation, a return and one lost answer. In the liveness run
`MaxKeys` exceeds what can be reached, so the bound never stops a send; one message
there, because two make the check of the liveness too long.
*AttachmentUpload*: two chunks (one may be missing), two contents of a chunk (two
encryptions), two workers (the lock has a winner and a loser), two failures of
requests and one of the cleanup.
*MessageSync*: three messages with a page of one: a first page, a hole below it, a
newer message; one fault. The repair run has a message of each codec, neither with its key at
the start, a window of one row and one fault. A fault is a failing request, a
rolled-back transaction, an eviction from the cache or a restart.
*Conversations*: two openers (a race has two), two loads, a page of one, so that any
two updates between two loads overflow it, a clock of three ticks: the group, the new
conversation and a post; the device's clock is right, one tick ahead or one behind at each load. *ChatMessages*: two apps of the sender (an edit beside a deletion),
one reader, whose websocket and HTTP request race (receipts of two readers are two rows), two network failures.
*TaskWorkflow*: three members are an administrator, a head of others and one without reports, so every
branch of `Assignable` is taken; one change of roles or memberships at any moment (a patch makes a role one of three: another rank, another visibility, inactive), one
watcher. `Bootstrap` is empty in `Parts`, one member in `TaskReopened`; the proofs have it arbitrary.
*Accounts*: two devices of the same name, so that the name alone can be
ambiguous; two identities; three requests, which is what one sign-in that was given up, its
retry and a third one between them take; two key profiles of one device, one e-mail change.
*KeyRegistry*: three keysets (a pending id replaced by another while a third is
current), two callers, one crash. *RecoveryVault*: two devices with a state of the keys each and a revocation, or one with two;
two requests, one opening of the chat list, one fault. *RecoveryAccess*: two of each row and two reads, which is what a double use takes.

`CHECK_DEADLOCK FALSE` stands where a bounded behaviour ends: all messages sent,
all rows used. `Parts` declares devices and identities symmetric (nothing in
`Accounts` tells two of them apart, and its `CHOOSE`s are of single elements or of the
least number); its properties are invariants and action properties, for
which the reduction is sound. So are those of `Outbox`, `Vault` and `Access`, where ciphertexts and tasks,
requests, or all rows are interchangeable. The runs that check liveness declare no symmetry.

## 5. Fairness

No specification assumes that a request arrives, an encryption succeeds or a user
acts, but where it says so:

- *Outbox*: tasks go on after an await (the event loop); a network that works again
  and again lets a repeated request through (strong fairness of `ServerCreate` for
  live requests, of the steps that may fail or succeed). That the resume is reached is no fairness but the premise
  `Resumed` of the properties: nothing in the code arms a timer for
  `nextRetryAt`, so the next start is what flushes, and there the resume is the last of several awaits, each of which may
  throw or run out of the five seconds (`antiq_app_bootstrap.dart:182-197`, `session_controller.dart:176-186`).
- *GroupEpoch*: the user goes on retrying a failed message and returns to the list of conversations, which fetches the users
  (`SF(RetryRefreshed)`, `SF(RetryCiphertext)`); requests succeed again and again.
- *AttachmentUpload*: transactions end; the cleanup runs again and again
  (`deploy/pqc-attachment-cleanup.timer.template`).
- *ChatMessages*: handlers finish what they have read, and the 8 s timer of a conversation that stays
  open fires again and again (`ChatFairness`); that the conversation stays open is the premise of
  `ReadRecorded`, and the network fails at most `MaxLoss` times.
- `MCChat` assumes the fairness of the component that its behaviour exercises.
  `TaskWorkflow`, `Accounts`, `Conversations`, `KeyRegistry` and `RecoveryAccess` promise only
  safety and assume none.
- *MessageSync*: the 8 s poll of an open conversation, older pages as long as there
  are any, open transactions end. That the handling of an event begins is not fair: a lost event is
  one that is never handled.
- *RecoveryVault*: requests end in an answer or a time-out, and sends keep starting publications.

## 6. Proofs

Checked by `tlapm`, from the `ASSUME`s of the modules (finite sets are not
assumed) and without bounds on messages, devices, tasks or faults.

**`OutboxProofs`**: `TypeCorrect`, `InvariantHolds`, `LocalCorrect`, `QueuedCorrect`,
`Refinement`, `NobodyStranded`. The invariant adds to the checked ones what each task knows at its
point: a delivery in progress or a request on the way belongs to a row of the outbox, a
request carries an encryption of its message, and a message shown as sent is the
stored one. The refinement maps every step to one of `MessageDelivery` or to a
stutter. `NobodyStranded` rests on a second invariant (`WInv`): a delivery has at most
one request that it still waits for (`OneRequest`), so what ends the request
ends the wait, and the step that ends the delivery tells those who wait for it.

**`GroupEpochProofs`**: `TypeCorrect`, `HeldCorrect`, `SignedCorrect`,
`ReadableCorrect`, `RevocationHolds`, `PublishedStays`. Two lemmas carry them: no step unpublishes a key or changes
its envelopes, and every key a client takes is published for it. The transactions need that two
of them never write the same key (`KeysDistinct`). For `RevocationHolds` it is not enough to look at the epochs in
use: the invariant (`Exclusion`) also says of every upload past its last check that no revoked
device is among those it gives a key to, but for the raced ones (`GivenNothing`), and that as long as an epoch
which such a device knows is in use, a rekey is pending that is not closed without it (`ClosedInTime`). `PublishedStays`: envelopes never
change, epochs never disappear, and a closed epoch never opens again.

**`KeyRegistryProofs`**: `TypeCorrect`, `LossNeedsOverlap`, `RestoreKeeps`, for any number of callers, keysets and
crashes. The invariant (`FoundInv`) says that two writes under way are both disturbed (`Overlap`); that a list about to be
written agrees with the stored one on every undisturbed keyset (`ReadFresh`); that the pending id names an undisturbed
keyset until the list has it (`Named`); that an undisturbed keyset with an entry is in the list or still being written (`Found`); and that
an undisturbed write does not put an active entry back (`Checked`).

**`RecoveryVaultProofs`**: `TypeCorrect`, `Consistent`, `Remembered`, `Ordered`, `LogImplemented`, with both
publishers of every device. The invariant adds that a transaction past the
lock works from the present manifest (`LockHolds`), that a client waits only for its own
request (`WaitersServed`) and that an answer was preceded by its record (`AnswersStored`); the
order needs in addition that ids grow, that requests are bounded by the
present state of the keys and that a conflict is noticed (`Fresh`), and is an order for each publisher. Between the two publishers of a device there is none
(`VaultOrder`): the second attempt after a conflict sends a snapshot older than the record that caused it, and a restore then ends with the older
keys. `LogImplemented` maps the write of the manifest to `Append`
(the transaction still works from the present manifest, so the next number is the one it computed),
a revocation to `Withdraw` and every other step to a stutter.

**`RecoveryAccessProofs`**: `TypeCorrect`, `OneReadPerGrant`, `ReadsAreAllowed`,
`DecisionsAreFinal`, `NoLaterReuse`. The invariant says of a read that delivers that its grant is
unused and locked by it, and of every read that its approval was given by another device (`Settled`,
which no step undoes). `NoLaterReuse` adds that the approval of an answered read is used (`UsedUp`), so that `Start` does not find it.

**`WorkspaceProofs`** (tasks): `TaskTypeCorrect`, `DatesAgree`, `OwnWork`, `Told`,
`LifeImplemented`, for every set of members, roles and ranks. The invariant is one fact about the
lock (`LockInv`): a copy that a request works on is the row, as long as it works.
From it a lemma (`RowSteps`) lists the few ways in which the row can change, and
the three properties and the refinement follow from that list. In the refinement a reassignment is `Give`, also one to the same
assignee by a text id, which `TaskLife` allows: what the code says of it is `ReopenedForAnother` (section 7).

**`WorkspaceProofs`** (accounts): `AccountTypeCorrect`, `SessionOwns`, `CredentialStays`, `Revoked`, `Identity`, for
every number of devices, identities and requests. The invariant
(`DeviceInv`) says that an app waits for one request at a time, that a session
has a row with its account, keys and credential (`SessionHasRow`), that nobody but
one transaction is about to insert a row, and that a transaction past `Check` works from a row nobody has taken
since (`ClaimsHold`). For `Identity` (`IdentityInv`): nobody else has, or is about to get, the
identity that a checked request writes (`Reserved`), a Google sign-in works on the account
of its identity or on a new one (`OwnAccount`), and the e-mail of an account follows its
identity until it is changed by hand (`MailFollows`).

**`ChatProofs`**: `UploadTypeCorrect`, `ReceiptsHold`, `AttachmentsHold` and `UploadImplemented` of
`AttachmentUpload`, with an invariant (`UploadInv`) of what a worker that holds
the lock knows (`WorkersServe`), what the cleanup may still write
(`CleanerFinal`) and what the rows promise (`RowInv`): with any number of sessions, chunks,
contents, workers and failures. In the refinement the commit of a receipt is `Receive`, the commit of a
completion `Make`, each of the three ways to expire a session `GiveUp` or, on a final session, a stutter; deleting
and saving a blob are stutters because the worker at that point holds the lock of a session without an attachment.
`AttachmentsHold` (`AttachmentIntact`: at most one attachment, whole, equal to the receipts) follows from the same invariant. `OneConversation` from the lock of the
workspace: at most one opener holds it, and the pair has no conversation while one does (`WorkspaceLock`).
`ListComplete`, with any number of loads, any page size and any offset of the device's clock: what an answer under way
carries is current or exposed (`AnswerCurrent`), and the post that is stamped is exposed once a list was
fetched since or its stamp is behind the cursor (`PostExposed`). `Deleted`.

**`MessageSyncProofs`**: `TypeCorrect`, `GapFree` and `PositionHolds`, with commits in any order. A cursor alone is not
inductive: the invariant (`GapInv`) adds that a poll works with the cursor as it is,
that its page leaves out no message between the cursor and its last one that was committed in time
(`Covers`, `OnTime`) and is in the rows but for what is left to store (`PollInv`), and that the
cursor is a stored message (`CursorReached`). A message that is committed behind the cursor, or behind the page a poll holds, is late by
definition (`CommittedGrows`). No step removes a row (`RowsStay`), and a page fetched
with a cursor lies above it, so the cursor never moves back.

The types of the variables (`TypeOK` and its like) and the three theorems `PublishedStays`, `PositionHolds` and
`AttachmentsHold` have no run of their own: TLC agreed with each before it was proved, and the proofs
cover every instance. The theorems hold for every number of messages, keys, devices and callers, so they cover what the runs
bound: more senders than `Group` has, both publishers with
`VaultConsistent` and `RememberedIsStored`, more members than `Parts` has.

Checked only: all liveness (`SettledUnlessBlocked`, `SentUnlessDeadlocked`, `TemporaryRemoved`, `ReadRecorded`,
`ArrivesUnlessPassed`, `WindowRepaired`, `Published`), which is
out of the prover's reach, as ENABLED and induction over data are.

## 7. Disagreements between the code and its documents

TLC ends each of these configurations with a counterexample. The quoted text is in
the comment of the property. `PROJECT.json` lists `VaultRevoked`, which needs no
race: after the first revocation of a device that has published, every restore of the account
throws. The sign-in itself succeeds, because `_notifySessionChanged` swallows what the start of the session throws
(`session_controller.dart:176-186`) and `login` returns true (lines 39-52). What is lost, without a message,
is the restored keys and what comes after the restore: initialisation of the cryptography, publication, the realtime connection, the
resume of the outbox (`antiq_app_bootstrap.dart:182-197`).

| configuration | property | what happens |
|---|---|---|
| `VaultRevoked` | `RestoreWorks` | the root covers the records of a revoked device, which a restore no longer gets: it throws, and the rest of the session's start is skipped |
| `VaultRevoked` with `MaxVersion = 2` and `Revocable = {}` | | a PUT commits between the two reads of a restore, with the same effect |
| `VaultOrder` | `DeviceInOrder` | the chat list's second attempt after a conflict stores a snapshot older than the record that caused it |
| `VaultMissing` | `MissingIsMissing` | client and server encode the hash differently, so a stored snapshot is never seen as verified |
| `VaultTombstone` | `RevokedTombstoned` | a PUT that passed the device check before a revocation adds an active record after it |
| `OutboxRefused` | `FailedStaysQueued` | a send that fails before its row is stored leaves nothing in the durable outbox |
| `OutboxRefused` with `CiphertextRetained` as its PROPERTY | | the failure path writes the row back from a copy made before the encryption and erases the saved ciphertext |
| `OutboxPoison` | `EventuallySettled` | a message that can never be encrypted ends every flush before the next conversation (the only way, see `SettledUnlessBlocked`) |
| `GroupStuck` | `EventuallySent` | a device registered and revoked before the sender looks again leaves the group refusing every message |
| `GroupRace` | `RevokedExcluded` | a revocation that commits inside an envelope upload is closed by it: the revoked device has the active key (the only way, see `ExcludedUnlessRaced`) |
| `GroupRefused` | `RefreshedBeforeFailing` | a send whose envelope set is refused fails without the documented refresh |
| `AttachmentLeak` | `AbandonedRemoved` | a session that a late request marks as expired is never cleaned up |
| `AttachmentLeak` with `CompletionIsIdempotent` as its INVARIANT | | the cleanup, working from old rows, overwrites a completed session, whose retry is then refused |
| `SyncLate` | `CommittedArrives` | the cursor passes an id that commits later |
| `SyncHole` | `CommittedArrives` | an event stored before the first poll hides the messages before it |
| `SyncCached` | `MarkersRepaired` | the failure marker of a V2 codec is cached as plaintext, and the repair reads the marker |
| `SyncWindow` | `MarkersRepaired` | a marker outside the newest page is never tried again |
| `RegistryRace` | `NothingLost` | a crash, or two callers, and a keyset is in no list |
| `RegistryRace` with `NeverOverwritten` as its PROPERTY | | with two callers, a restore writes over an entry that became active meanwhile |
| `TaskReopened` | `ReopenedForAnother` | an `assignee_id` given as a text differs from the number in the row (`tasks.py:221`): work that is done is opened again for the same assignee, as "replaced" |
| `AccessTwice` | `ApprovalOnce` | two reads look one approval up before either writes it as used (the only way, see `SharedOnlyByOverlap`) |

Statements of the same kind that have no configuration of their own. Put the name into
`Chat.cfg` or `Parts.cfg` (the first three of the table as an INVARIANT, the others as a PROPERTY) and TLC ends
with the behaviour:

| module | property | what happens |
|---|---|---|
| `Conversations` | `ListIsComplete` | an update that falls between the answer of the server and the end of its decryption, or beyond the page of 50 (`chat_remote_data_source.dart:34`), is older than the cursor and is not fetched until its conversation changes again; so is an update whose stamp the device's clock was ahead of |
| `ChatMessages` | `DeletedHasNoText` | "Deleted messages cannot be edited." (`messages.py:194`): an edit that read the row before the deletion stores its text after it |
| `TaskWorkflow` | `WatcherDoesNotExecute` | "A read-and-comment participant who does not execute the task." (`task_kpi/models.py:95`): a task may be reassigned to its own watcher |
| `ChatMessages` | `ReadSettles` | the check marks of a message that has been read (`chat_page_attachment_views.dart:176`) do not stay: each refresh merges the local row, which stores no `isRead`, over the message (`chat_list_controller.dart:23-26`), until the reader's next event |
| `ChatMessages` | `ReadKept` | a `receipt.delivered` that read the receipt before the HTTP request wrote it writes `read_at` back as null, until the reader's next round |
| `Accounts` | `IdentityStable` | "Stable external identity" (`users/models.py:28`): after an e-mail change, the account of that address takes the Google identity that signs in next |

Reading notes without a run. The fetch fallback of `syncMessages`
(`chat_sync_services.dart:133-135`) is never reached; `previousLastMessageId` never differs from the stored
cursor; the websocket path has no fallback for one's own plaintext; edits and deletes are
neither polled nor handled as events.

## 8. What is not modelled

- *Cryptography and codecs* (`pqc_engine_sdk`, codecs of `crypto_core`): keys and
  ciphertexts are model values; encryption succeeds, fails, or never succeeds (`Poison`).
- *Time*: a back-off is there or not, a cache is fresh or not, `expires_at` has passed or
  not, each nondeterministically.
- *Members that join or leave a group*: a sign-in joins the general group, and
  opening a task's chat sets its participants; `GroupEpoch` has the members of the start.
- *Contents of snapshots* and the effect of their import on local state; an account without
  a manifest is one with a manifest at sequence 0; one restore at a time.
- *Session reset and account switch*, *re-enrolment and rotation of a device*,
  *transfers*, *reconnection*, *encrypted backup*, *key verification*: planned below.
- *Audit ledger*: one function of twenty lines. Its chain does not hold: two appends that
  overlap take the same last row as their predecessor, and two equal events get one
  hash, so that the unique constraint fails the second request. No weaker property is worth a model.
- *Accounts*: tokens (a signature with a date), avatars and settings, blocks and
  reports, invitations. Devices have one Google address for each identity.
- *Task/KPI*: goals (a value and its history, written by one request), dashboard and reports (queries),
  the conversation of a task, due dates and priorities (`Reschedule` stands for their update).
- *RBAC*: the creation of organisations and roles; a role may be changed or deleted.
- *Conversations*: a search would move
  the cursor of the list too, but the app never searches. The General Group is there from the
  start, as `post_migrate` leaves it.
- *Reactions*: one `update_or_create` on a unique row.
- *More than one controller of a conversation*: pages open one each; the guard against two polls is per controller.
- *User interface, notifications, platform hosts, deployment scripts, generated
  code*: no state that these properties depend on.

What reading the code showed beside that, without a model of its own:

- Two overlapping first sign-ins of one device leave a second account without devices
  (`authentication.py:110-122`), and a refused sign-in has already committed the new name, e-mail or
  account (line 124).
- One invitation can be accepted twice at the same moment (`devices.py:302-331`).
- `AccountSettingsView.patch` saves the whole row and restores an avatar that was removed meanwhile
  (`account.py:111-124`, 216-221).
- `MessageReadView` does not look at `read_receipts_enabled`, which the websocket honours.
- A task is committed although its watchers were refused with 400 (`tasks.py:113`; in the model,
  `CreateRefused`); two administrators may deactivate each other; signing in makes a deactivated member active
  (`users/api_views/common.py:256`; `Rejoin`); the participants of a task's chat keep the group key
  (`task_kpi/api_views/chat.py:50`).
- Receipts are deduplicated by message, so that a second reader's is dropped
  (`chat_realtime_service.dart:138`); an old channel ends after a reconnect (line 88), or a logout
  falls into `connect` (line 53).
- A manual retry inside a back-off that `copyWith` cannot clear (`outbox_store.dart:114`); the outbox cleared
  while a delivery is in flight (`auth_device_actions.dart:69`); keysets deleted one by one
  while a snapshot registers the current one (`crypto_core_facade.dart:162`).
- A restore writes another device's attachment epoch (`crypto_backup_service.dart:117`); a rotation
  ends between two stores (`device_state_manager.dart:202`).

## 9. Plan

Done: `Outbox` with `MessageDelivery`, `GroupEpoch`, `AttachmentUpload`,
`MessageSync`, `KeyRegistry`, `RecoveryVault`, `RecoveryAccess`, in this order, because a
lost message or an unreadable one is the worst that can happen to a user; then
`TaskWorkflow` with `TaskLife`, `Accounts`, `Conversations` and `ChatMessages`.

Next, in order:

1. `SessionSwitch`: clearing the stores while deliveries and publications run;
   composed with `Outbox`.
2. `DeviceLifecycle`: re-enrolment, rotation and historical keys in the app, crashes between two
   stores; composed with `Accounts` and, by its `status`, with `GroupEpoch`.
3. Members that join and leave, in `GroupEpoch`, with the participants of a task's chat.
4. `SnapshotImport`: contents of snapshots and attachment epochs; composed with
   `RecoveryVault` and `KeyRegistry`.
5. `TransferProgress` (pause, resume, restart) as the client of `AttachmentUpload`; `ProtocolChoice` as a
   pure function checked against a reference definition; `RealtimeChannel`.

Abstract specifications: stated and proved for `Outbox`, `TaskWorkflow`, `AttachmentUpload` and
`RecoveryVault`. Worth stating next: one-time tokens for the grants of `RecoveryAccess`, and a directory
of devices for `Accounts`.

