------------------------------- MODULE Outbox -------------------------------
(***************************************************************************)
(* The durable outbox of the chat client (packages/chat_core): sending a   *)
(* message, the automatic flush after a session start, the user's retry,   *)
(* and the idempotent create of the server, over a network that loses,     *)
(* delays and times out.  The tasks of one client interleave at their      *)
(* awaits; a crash forgets them and keeps what is on disk.                 *)
(*                                                                         *)
(* Abstracted: the plaintext (each message has one), the capability cache, *)
(* the attachment upload (AttachmentUpload models it) and time: a row has  *)
(* a back-off or none, and a row with one may or may not be due when a     *)
(* flush looks at it (the delay grows with retryCount, which nothing else  *)
(* reads).                                                                 *)
(***************************************************************************)
EXTENDS Naturals

CONSTANTS
    N,              \* number of messages; message i is created before i + 1
    Conversation,   \* the conversations of the local database
    ConvOf,         \* the conversation of each message
    Attachments,    \* messages that carry a file
    Poison,         \* messages that can never be encrypted
    Cipher,         \* ciphertexts an encryption may return
    None,           \* no ciphertext
    Flusher,        \* concurrent flush or retry tasks
    MaxCrashes      \* bound on the crashes of a behaviour

Msg == 1..N

ASSUME OutboxAssumption ==
    /\ N \in Nat
    /\ ConvOf \in [Msg -> Conversation]
    /\ Attachments \subseteq Msg
    /\ Poison \subseteq Msg
    /\ None \notin Cipher
    /\ MaxCrashes \in Nat

VARIABLES
    outbox,     \* durable rows of queued_outgoing_messages
    local,      \* durable message rows: the encrypted body of a sent message
    sender,     \* the sendMessage task of each message
    flusher,    \* the flushPendingMessages / retryMessage tasks
    op,         \* _inFlightSends: the one shared delivery of each message
    net,        \* requests on their way to the server
    server,     \* committed Message rows: the body, or None
    crashes     \* crashes so far

clientVars == <<outbox, local, sender, flusher, op>>
vars == <<outbox, local, sender, flusher, op, net, server, crashes>>

-----------------------------------------------------------------------------
(* Rows and tasks.  A row of state "none" is an absent row.                *)

RowState == {"none", "pending", "failedRetryable", "failedPermanent"}
Row == [state : RowState, cipher : Cipher \union {None}, backoff : BOOLEAN]
NoRow == [state |-> "none", cipher |-> None, backoff |-> FALSE]
NoRows == [m \in Msg |-> NoRow]

Outcome == {"ok", "retry", "perm", "paused", "other"}
SenderPC == {"idle", "refused", "queued", "sending", "done"} \union Outcome

Op == [pc : {"none", "prepare", "encrypt", "post", "wait", "answered"},
       cipher : Cipher \union {None}, backoff : BOOLEAN]
NoOp == [pc |-> "none", cipher |-> None, backoff |-> FALSE]

FlusherTask ==
    [pc : {"idle", "rewrite", "loop", "sending", "ok", "retry", "perm"},
     all : BOOLEAN,                    \* includeAttachments
     rest : SUBSET Conversation,       \* conversations still to flush
     todo : [Msg -> Row]]              \* the snapshot being worked through
IdleFlusher == [pc |-> "idle", all |-> FALSE, rest |-> {}, todo |-> NoRows]

Request == [msg : Msg, cipher : Cipher \union {None}, live : BOOLEAN]

Has(row) == row.state # "none"

\* createdAt order: the first row left in the snapshot is worked on.
IsCurrent(f, m) ==
    /\ Has(flusher[f].todo[m])
    /\ \A k \in 1..(m - 1) : ~Has(flusher[f].todo[k])

Exhausted(f) == \A m \in Msg : ~Has(flusher[f].todo[m])

TypeOK ==
    /\ outbox \in [Msg -> Row]
    /\ local \in [Msg -> Cipher \union {None}]
    /\ sender \in [Msg -> SenderPC]
    /\ flusher \in [Flusher -> FlusherTask]
    /\ op \in [Msg -> Op]
    /\ net \subseteq Request
    /\ server \in [Msg -> Cipher \union {None}]
    /\ crashes \in 0..MaxCrashes

Init ==
    /\ outbox = NoRows
    /\ local = [m \in Msg |-> None]
    /\ sender = [m \in Msg |-> "idle"]
    /\ flusher = [f \in Flusher |-> IdleFlusher]
    /\ op = [m \in Msg |-> NoOp]
    /\ net = {}
    /\ server = [m \in Msg |-> None]
    /\ crashes = 0

-----------------------------------------------------------------------------
(* The shared delivery, _sendQueuedMessage: join it or start it.           *)

JoinOrStart(m, cipher, backoff) ==
    op' = [op EXCEPT ![m] =
             IF @.pc # "none" THEN @
             ELSE [pc |-> "prepare", cipher |-> cipher, backoff |-> backoff]]

\* Mutant of Complete: a flush that joined the delivery never hears of its end.
MutComplete(m, outcome) ==
    /\ op' = [op EXCEPT ![m] = NoOp]
    /\ sender' = [sender EXCEPT ![m] = IF @ = "sending" THEN outcome ELSE @]
    /\ flusher' = flusher

\* The shared future completes: every waiter sees the same outcome.  A flush
\* catches an ApiException only: anything else ends its loop, and the resume
\* around it.
Complete(m, outcome) ==
    /\ op' = [op EXCEPT ![m] = NoOp]
    /\ sender' = [sender EXCEPT ![m] = IF @ = "sending" THEN outcome ELSE @]
    /\ flusher' = [f \in Flusher |->
                     IF flusher[f].pc = "sending" /\ IsCurrent(f, m)
                     THEN IF outcome \in {"paused", "other"} THEN IdleFlusher
                          ELSE [flusher[f] EXCEPT !.pc = outcome]
                     ELSE flusher[f]]

\* Capabilities, protocol check, uploads and key health all succeed.
OpPrepare(m) ==
    /\ op[m].pc = "prepare"
    /\ op' = [op EXCEPT ![m].pc = IF op[m].cipher = None THEN "encrypt" ELSE "post"]
    /\ UNCHANGED <<outbox, local, sender, flusher, net, server, crashes>>

\* One of them fails: an ApiException, the ChatEncryptionException of the key
\* health (also for a row that holds its ciphertext), or a paused upload.
OpPrepareFails(m) ==
    /\ op[m].pc = "prepare"
    /\ \/ \E outcome \in {"retry", "perm", "other"} : Complete(m, outcome)
       \/ m \in Attachments /\ Complete(m, "paused")
    /\ UNCHANGED <<outbox, local, net, server, crashes>>

\* Encrypt, then save the ciphertext in the outbox row.
OpEncrypt(m) ==
    /\ op[m].pc = "encrypt"
    /\ m \notin Poison
    /\ \E c \in Cipher :
          /\ op' = [op EXCEPT ![m] = [@ EXCEPT !.pc = "post", !.cipher = c]]
          /\ outbox' = [outbox EXCEPT ![m] =
                          [state |-> "pending", cipher |-> c,
                           backoff |-> op[m].backoff]]
    /\ UNCHANGED <<local, sender, flusher, net, server, crashes>>

\* A ChatEncryptionException or a StateError escapes.
OpEncryptFails(m) ==
    /\ op[m].pc = "encrypt"
    /\ Complete(m, "other")
    /\ UNCHANGED <<outbox, local, net, server, crashes>>

OpPost(m) ==
    /\ op[m].pc = "post"
    /\ op' = [op EXCEPT ![m].pc = "wait"]
    /\ net' = net \union {[msg |-> m, cipher |-> op[m].cipher, live |-> TRUE]}
    /\ UNCHANGED <<outbox, local, sender, flusher, server, crashes>>

\* No connection waits for the requests of message m any longer.
Hung(m) == {[r EXCEPT !.live = r.live /\ r.msg # m] : r \in net}

\* The request or its answer is lost, or the 20 seconds run out.
OpTimeout(m) ==
    /\ op[m].pc \in {"wait", "answered"}
    /\ Complete(m, "retry")
    /\ net' = Hung(m)
    /\ UNCHANGED <<outbox, local, server, crashes>>

\* Mutant of OpPersist: the client keeps its own ciphertext, not the answer.
MutOpPersist(m) ==
    /\ op[m].pc = "answered"
    /\ local' = [local EXCEPT ![m] = op[m].cipher]
    /\ Complete(m, "ok")
    /\ UNCHANGED <<outbox, net, server, crashes>>

\* The answer arrives; persistMessage stores the body it carries.
OpPersist(m) ==
    /\ op[m].pc = "answered"
    /\ local' = [local EXCEPT ![m] = server[m]]
    /\ Complete(m, "ok")
    /\ UNCHANGED <<outbox, net, server, crashes>>

\* The local database throws, before or after the message row is written.
OpPersistFails(m) ==
    /\ op[m].pc = "answered"
    /\ local' \in {local, [local EXCEPT ![m] = server[m]]}
    /\ Complete(m, "other")
    /\ UNCHANGED <<outbox, net, server, crashes>>

-----------------------------------------------------------------------------
(* sendMessage.                                                            *)

NextToSend(m) == sender[m] = "idle" /\ \A k \in 1..(m - 1) : sender[k] # "idle"

\* Refreshing the users or preparing the peer's key throws: nothing is queued.
SendRefused(m) ==
    /\ NextToSend(m)
    /\ sender' = [sender EXCEPT ![m] = "refused"]
    /\ UNCHANGED <<outbox, local, flusher, op, net, server, crashes>>

\* Mutant of Submit: the send starts before the row is stored.
MutSubmit(m) ==
    /\ NextToSend(m)
    /\ sender' = [sender EXCEPT ![m] = "queued"]
    /\ UNCHANGED <<outbox, local, flusher, op, net, server, crashes>>

\* The queued row is stored before anything is sent.
Submit(m) ==
    /\ NextToSend(m)
    /\ outbox' = [outbox EXCEPT ![m] = [NoRow EXCEPT !.state = "pending"]]
    /\ sender' = [sender EXCEPT ![m] = "queued"]
    /\ UNCHANGED <<local, flusher, op, net, server, crashes>>

SenderSend(m) ==
    /\ sender[m] = "queued"
    /\ sender' = [sender EXCEPT ![m] = "sending"]
    /\ JoinOrStart(m, None, FALSE)
    /\ UNCHANGED <<outbox, local, flusher, net, server, crashes>>

SenderRemove(m) ==
    /\ sender[m] = "ok"
    /\ sender' = [sender EXCEPT ![m] = "done"]
    /\ outbox' = [outbox EXCEPT ![m] = NoRow]
    /\ UNCHANGED <<local, flusher, op, net, server, crashes>>

\* The row written on failure is a copy of the first one: it has no ciphertext.
SenderFail(m) ==
    /\ sender[m] \in {"retry", "perm", "paused", "other"}
    /\ sender' = [sender EXCEPT ![m] = "done"]
    /\ outbox' = [outbox EXCEPT ![m] =
          [state |-> IF sender[m] \in {"retry", "paused"}
                     THEN "failedRetryable" ELSE "failedPermanent",
           cipher |-> None,
           backoff |-> sender[m] = "retry"]]
    /\ UNCHANGED <<local, flusher, op, net, server, crashes>>

-----------------------------------------------------------------------------
(* resumePendingWork, flushPendingMessages and retryMessage.               *)

FlusherStep(f, task) == flusher' = [flusher EXCEPT ![f] = task]

ResumeStart(f) ==
    /\ flusher[f].pc = "idle"
    /\ FlusherStep(f, [IdleFlusher EXCEPT !.pc = "loop", !.rest = Conversation])
    /\ UNCHANGED <<outbox, local, sender, op, net, server, crashes>>

\* The snapshot of one conversation's rows.
FlushRead(f, c) ==
    /\ flusher[f].pc = "loop" /\ Exhausted(f)
    /\ c \in flusher[f].rest
    /\ FlusherStep(f, [flusher[f] EXCEPT
          !.rest = @ \ {c},
          !.todo = [m \in Msg |-> IF ConvOf[m] = c THEN outbox[m] ELSE NoRow]])
    /\ UNCHANGED <<outbox, local, sender, op, net, server, crashes>>

FlushEnd(f) ==
    /\ flusher[f].pc = "loop" /\ Exhausted(f)
    /\ flusher[f].rest = {}
    /\ FlusherStep(f, IdleFlusher)
    /\ UNCHANGED <<outbox, local, sender, op, net, server, crashes>>

\* Mutant of MustSkip: a flush takes the rows that never failed only.
MutMustSkip(f, m) ==
    \/ m \in Attachments /\ ~flusher[f].all
    \/ flusher[f].todo[m].state # "pending"

\* Files are left to the user; permanent failures and rows not due are skipped.
MustSkip(f, m) ==
    \/ m \in Attachments /\ ~flusher[f].all
    \/ flusher[f].todo[m].state = "failedPermanent"

Forget(f, m) == [flusher[f] EXCEPT !.pc = "loop", !.todo[m] = NoRow]

FlushSkip(f, m) ==
    /\ flusher[f].pc = "loop" /\ IsCurrent(f, m)
    /\ MustSkip(f, m) \/ flusher[f].todo[m].backoff
    /\ FlusherStep(f, Forget(f, m))
    /\ UNCHANGED <<outbox, local, sender, op, net, server, crashes>>

FlushSend(f, m) ==
    /\ flusher[f].pc = "loop" /\ IsCurrent(f, m)
    /\ ~MustSkip(f, m)
    /\ FlusherStep(f, [flusher[f] EXCEPT !.pc = "sending"])
    /\ JoinOrStart(m, flusher[f].todo[m].cipher, flusher[f].todo[m].backoff)
    /\ UNCHANGED <<outbox, local, sender, net, server, crashes>>

FlushRemove(f, m) ==
    /\ flusher[f].pc = "ok" /\ IsCurrent(f, m)
    /\ outbox' = [outbox EXCEPT ![m] = NoRow]
    /\ FlusherStep(f, Forget(f, m))
    /\ UNCHANGED <<local, sender, op, net, server, crashes>>

\* The row written on failure is a copy of the snapshot.
FlushFail(f, m) ==
    /\ flusher[f].pc \in {"retry", "perm"} /\ IsCurrent(f, m)
    /\ outbox' = [outbox EXCEPT ![m] =
          [state |-> IF flusher[f].pc = "retry"
                     THEN "failedRetryable" ELSE "failedPermanent",
           cipher |-> flusher[f].todo[m].cipher,
           backoff |-> flusher[f].pc = "retry" \/ flusher[f].todo[m].backoff]]
    /\ FlusherStep(f, Forget(f, m))
    /\ UNCHANGED <<local, sender, op, net, server, crashes>>

RetryRead(f, m) ==
    /\ flusher[f].pc = "idle"
    /\ Has(outbox[m])
    /\ FlusherStep(f, [pc |-> "rewrite", all |-> TRUE, rest |-> {ConvOf[m]},
                       todo |-> [NoRows EXCEPT ![m] = outbox[m]]])
    /\ UNCHANGED <<outbox, local, sender, op, net, server, crashes>>

\* copyWith(nextRetryAt: null) keeps the old nextRetryAt.
RetryWrite(f, m) ==
    /\ flusher[f].pc = "rewrite" /\ IsCurrent(f, m)
    /\ outbox' = [outbox EXCEPT ![m] =
                    [flusher[f].todo[m] EXCEPT !.state = "pending"]]
    /\ FlusherStep(f, Forget(f, m))
    /\ UNCHANGED <<local, sender, op, net, server, crashes>>

-----------------------------------------------------------------------------
(* The server and the environment.                                         *)

\* Mutant of ServerCreate: update_or_create, the last post wins.
MutServerCreate(r) ==
    /\ r \in net
    /\ net' = net \ {r}
    /\ server' = [server EXCEPT ![r.msg] = r.cipher]
    /\ op' = [op EXCEPT ![r.msg].pc = IF r.live THEN "answered" ELSE @]
    /\ UNCHANGED <<outbox, local, sender, flusher, crashes>>

\* get_or_create on (conversation, sender, client_message_id).
ServerCreate(r) ==
    /\ r \in net
    /\ net' = net \ {r}
    /\ server' = [server EXCEPT ![r.msg] = IF @ = None THEN r.cipher ELSE @]
    /\ op' = [op EXCEPT ![r.msg].pc = IF r.live THEN "answered" ELSE @]
    /\ UNCHANGED <<outbox, local, sender, flusher, crashes>>

\* The request is refused and the client hears of it: 5xx or 429, or another 4xx.
ServerReject(r) ==
    /\ r \in net /\ r.live
    /\ net' = net \ {r}
    /\ \E outcome \in {"retry", "perm"} : Complete(r.msg, outcome)
    /\ UNCHANGED <<outbox, local, server, crashes>>

LoseRequest(r) ==
    /\ r \in net /\ ~r.live
    /\ net' = net \ {r}
    /\ UNCHANGED <<outbox, local, sender, flusher, op, server, crashes>>

Crash ==
    /\ crashes < MaxCrashes
    /\ crashes' = crashes + 1
    /\ sender' = [m \in Msg |-> IF sender[m] \in {"idle", "refused"}
                              THEN sender[m] ELSE "done"]
    /\ flusher' = [f \in Flusher |-> IdleFlusher]
    /\ op' = [m \in Msg |-> NoOp]
    /\ net' = {[r EXCEPT !.live = FALSE] : r \in net}
    /\ UNCHANGED <<outbox, local, server>>

-----------------------------------------------------------------------------
OpStep(m) ==
    \/ OpPrepare(m) \/ OpPrepareFails(m) \/ OpEncrypt(m) \/ OpEncryptFails(m)
    \/ OpPost(m) \/ OpTimeout(m) \/ OpPersist(m) \/ OpPersistFails(m)

SenderStep(m) ==
    \/ SendRefused(m) \/ Submit(m) \/ SenderSend(m) \/ SenderRemove(m) \/ SenderFail(m)

FlushStep(f) ==
    \/ ResumeStart(f) \/ FlushEnd(f)
    \/ \E c \in Conversation : FlushRead(f, c)
    \/ \E m \in Msg : \/ FlushSkip(f, m) \/ FlushSend(f, m) \/ FlushRemove(f, m)
                      \/ FlushFail(f, m) \/ RetryRead(f, m) \/ RetryWrite(f, m)

ServerStep(r) == ServerCreate(r) \/ ServerReject(r) \/ LoseRequest(r)

Next ==
    \/ \E m \in Msg : OpStep(m) \/ SenderStep(m)
    \/ \E f \in Flusher : FlushStep(f)
    \/ \E r \in Request : ServerStep(r)
    \/ Crash

Spec == Init /\ [][Next]_vars

-----------------------------------------------------------------------------
(* Safety.                                                                 *)

\* No waiter is stranded: a sendMessage or flush that waits for a delivery has
\* one in flight to complete it, and a delivery that waits for the server's
\* answer has a live request or an answer (_inFlightSends, whenComplete).
NoStrandedWaiter ==
    /\ \A m \in Msg : sender[m] = "sending" => op[m].pc # "none"
    /\ \A f \in Flusher : flusher[f].pc = "sending" =>
          \E m \in Msg : IsCurrent(f, m) /\ op[m].pc # "none"
    /\ \A m \in Msg : op[m].pc = "wait" <=> \E r \in net : r.msg = m /\ r.live

\* The local copy of a sent message is the body the server committed, also
\* when a retry encrypted the message anew after a lost answer.
LocalMatchesServer ==
    \A m \in Msg : local[m] # None => local[m] = server[m]

\* The client still answers for message m: it is queued, or in the history.
Known(m) == Has(outbox[m]) \/ local[m] # None

Travels(m) ==
    \/ sender[m] \notin {"idle", "refused"}
    \/ op[m].pc # "none"
    \/ \E r \in net : r.msg = m
    \/ \E f \in Flusher : Has(flusher[f].todo[m])

\* Only a queued message travels: whatever a task, a delivery or a request in
\* the network is about is still in the outbox or already in the history.
OnlyQueuedTravels == \A m \in Msg : Travels(m) => Known(m)

\* The client shows a message as sent, or drops its row, only when the server
\* has it; the server stores one body for it however often it was posted;
\* no queued message is forgotten by a failure, a crash or a stale snapshot.
Delivery == INSTANCE MessageDelivery WITH
    queued <- {m \in Msg : Known(m)},
    stored <- server,
    copy <- local

ImplementsDelivery == Delivery!Spec

\* Documented: "The outbox already retains its ciphertext locally"
\* (outgoing_message_delivery.dart:171).  Once a row holds a ciphertext, it
\* keeps it until the row is removed.
CiphertextRetained ==
    [][\A m \in Msg : outbox[m].cipher # None /\ Has(outbox'[m])
          => outbox'[m].cipher = outbox[m].cipher]_vars

\* Documented: "A failed message remains in the durable outbox"
\* (chat_conversation_controller.dart:185), for a send that failed early.
FailedStaysQueued ==
    \A m \in Msg : sender[m] = "refused" => Has(outbox[m])

-----------------------------------------------------------------------------
(* Liveness.  Fair are the steps of the client's tasks and the time-out; a *)
(* back-off runs out, and the network and the server do not fail every     *)
(* attempt.  At most MaxCrashes crashes happen.                            *)

LiveRequests(m) == {r \in net : r.msg = m /\ r.live}

Fairness ==
    /\ \A m \in Msg :
          /\ WF_vars(OpPrepare(m) \/ OpPrepareFails(m))
          /\ WF_vars(OpEncryptFails(m))
          /\ WF_vars(OpPost(m)) /\ WF_vars(OpTimeout(m))
          /\ WF_vars(SenderSend(m) \/ SenderRemove(m) \/ SenderFail(m))
    /\ \A m \in Msg \ Poison :
          /\ SF_vars(OpPrepare(m)) /\ SF_vars(OpEncrypt(m)) /\ SF_vars(OpPersist(m))
          /\ SF_vars(\E r \in LiveRequests(m) : ServerCreate(r))
    /\ \A f \in Flusher :
          /\ WF_vars(FlushEnd(f))
          /\ WF_vars(\E c \in Conversation : FlushRead(f, c))
          /\ \A m \in Msg :
                /\ WF_vars(FlushSend(f, m)) /\ WF_vars(FlushSkip(f, m))
                /\ WF_vars(FlushRemove(f, m) \/ FlushFail(f, m) \/ RetryWrite(f, m))
          /\ \A m \in Msg \ Poison : SF_vars(FlushSend(f, m))

FairSpec == Spec /\ Fairness

\* The resume is reached again and again.  This is a premise, no fairness: it
\* is the last of the session's awaits, any of which may throw or time out
\* (antiq_app_bootstrap.dart:182-197, session_controller.dart:182).
Resumed == \A f \in Flusher : []<><<ResumeStart(f)>>_vars

Settled(m) ==
    \/ local[m] # None /\ ~Has(outbox[m])
    \/ outbox[m].state = "failedPermanent"

\* Documented: durable outbox entries "must be retried after a restart too"
\* (chat_facade_realtime.dart:11).  A queued text is sent and leaves the
\* outbox, or is marked as failed for good, whatever becomes of the others.
EventuallySettled ==
    Resumed => \A m \in Msg \ (Attachments \union Poison) :
                  Has(outbox[m]) ~> Settled(m)

\* A row on which every flush throws is worked on before message m: it is
\* older, in the same conversation, or in another conversation.
Blocked(m) ==
    \E p \in Poison :
        /\ outbox[p].state \in {"pending", "failedRetryable"}
        /\ ConvOf[p] = ConvOf[m] => p < m

\* Nothing else keeps a queued text from being settled: where the session
\* starts reach the resume, each text is settled or gone from the outbox again
\* and again, or again and again an exception that no flush catches
\* (outgoing_message_queue.dart:148) stands before it.
SettledUnlessBlocked ==
    Resumed => \A m \in Msg \ (Attachments \union Poison) :
                  []<>(Settled(m) \/ Blocked(m) \/ ~Has(outbox[m]))
=============================================================================
