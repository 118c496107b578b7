---------------------------- MODULE MessageSync ----------------------------
(***************************************************************************)
(* How a client obtains the messages of one conversation: polling with a   *)
(* cursor (MessageSyncService), paging to older messages, and the events   *)
(* of the websocket (ChatRealtimeCoordinator), against a server that       *)
(* hands out message ids before it commits them.                           *)
(*                                                                         *)
(* A message is its id.  Of a stored row only the state of its plaintext   *)
(* matters: "text", or "marker" for one of the decrypt failure markers.    *)
(* Rows are ordered by id; their created_at is set together with the id.   *)
(***************************************************************************)
EXTENDS Naturals, FiniteSets

CONSTANTS
    MaxId,          \* bound on the messages of the conversation
    Page,           \* limit of a request, and of the window kept on screen
    Mine,           \* messages that this client sends
    V2,             \* messages of the V2 codecs, the others are of the V3 codec
    Early,          \* messages whose key the device holds from the start
    Realtime,       \* is the websocket connected?
    MaxFault        \* bound on failing requests, evictions and restarts

Id == 1..MaxId

ASSUME SyncAssumption ==
    /\ MaxId \in Nat /\ Page \in Nat \ {0}
    /\ Mine \subseteq Id /\ V2 \subseteq Id /\ Early \subseteq Id
    /\ Realtime \in BOOLEAN
    /\ MaxFault \in Nat

VARIABLES
    status,         \* of the message on the server
    keys,           \* messages whose key this device holds
    rows,           \* MessagesTable: the plaintext of each stored message
    cached,         \* OutboundMessageCache, by payload
    cursor,         \* ConversationSyncState.lastMessageId, 0 when there is none
    start,          \* the first message of the page that set the first cursor
    sync,           \* the running syncMessages and syncOlderMessages
    events,         \* message.created events on their way to the client
    handling,       \* events being handled, with the plaintext found
    faults,
    late            \* history: messages committed when a poll had passed them

server == <<status, late>>
local == <<rows, cached>>
vars == <<status, keys, rows, cached, cursor, start, sync, events, handling,
          faults, late>>

Plain == {"none", "marker", "text"}
Syncer == {"poll", "older"}

\* after: the cursor used; page: the ids fetched, todo: those not yet stored;
\* broken: rows read at the start that hold a marker; plain: result of decrypt.
Sync == [pc : {"idle", "fetch", "store", "save", "repair"},
         after : Id \union {0}, page : SUBSET Id, todo : SUBSET Id,
         mine : SUBSET Id, broken : SUBSET Id, plain : Plain]
NoSync == [pc |-> "idle", after |-> 0, page |-> {}, todo |-> {}, mine |-> {},
           broken |-> {}, plain |-> "none"]

TypeOK ==
    /\ status \in [Id -> {"absent", "open", "committed", "rolled back"}]
    /\ keys \subseteq Id
    /\ rows \in [Id -> Plain]
    /\ cached \in [Id -> Plain]
    /\ cursor \in Id \union {0}
    /\ start \in Id \union {0}
    /\ sync \in [Syncer -> Sync]
    /\ events \subseteq Id
    /\ handling \in [Id -> Plain]
    /\ faults \in 0..MaxFault
    /\ late \subseteq Id

Init ==
    /\ status = [m \in Id |-> "absent"]
    /\ keys = Early
    /\ rows = [m \in Id |-> "none"]
    /\ cached = [m \in Id |-> "none"]
    /\ cursor = 0 /\ start = 0
    /\ sync = [p \in Syncer |-> NoSync]
    /\ events = {}
    /\ handling = [m \in Id |-> "none"]
    /\ faults = 0
    /\ late = {}

Fault == faults < MaxFault /\ faults' = faults + 1

Committed == {m \in Id : status[m] = "committed"}
Stored == {m \in Id : rows[m] # "none"}

\* The at most Page newest members of S.
IsNewest(P, S) ==
    /\ P \subseteq S /\ Cardinality(P) <= Page
    /\ S # P => Cardinality(P) = Page
    /\ \A m \in P, n \in S \ P : n < m

\* The at most Page oldest members of S.
IsOldest(P, S) ==
    /\ P \subseteq S /\ Cardinality(P) <= Page
    /\ S # P => Cardinality(P) = Page
    /\ \A m \in P, n \in S \ P : m < n

-----------------------------------------------------------------------------
(* The server: MessageListCreateView.post in a transaction.  The insert     *)
(* draws the id; the event is sent after the commit.                        *)

Insert(m) ==
    /\ status[m] = "absent"
    /\ \A n \in Id : n < m => status[n] # "absent"
    /\ status' = [status EXCEPT ![m] = "open"]
    \* encrypt has cached the plaintext of the payload it made
    /\ cached' = IF m \in Mine THEN [cached EXCEPT ![m] = "text"] ELSE cached
    /\ UNCHANGED <<keys, rows, cursor, start, sync, events, handling, faults, late>>

\* A poll has fetched a later message, or moved the cursor to one.
Passed(m) ==
    \/ m <= cursor
    \/ sync["poll"].pc = "store" /\ \E n \in sync["poll"].page : m < n

Commit(m) ==
    /\ status[m] = "open"
    /\ status' = [status EXCEPT ![m] = "committed"]
    /\ events' = IF Realtime THEN events \union {m} ELSE events
    /\ late' = IF Passed(m) THEN late \union {m} ELSE late
    /\ UNCHANGED <<keys, local, cursor, start, sync, handling, faults>>

\* The transaction ends without a commit; the id stays used.
RollBack(m) ==
    /\ status[m] = "open" /\ Fault
    /\ status' = [status EXCEPT ![m] = "rolled back"]
    /\ UNCHANGED <<keys, local, cursor, start, sync, events, handling, late>>

-----------------------------------------------------------------------------
(* Decryption.                                                              *)

\* A key reaches the device: an envelope, a restored keyset.
KeyArrives(m) ==
    /\ m \notin keys
    /\ keys' = keys \union {m}
    /\ UNCHANGED <<server, local, cursor, start, sync, events, handling, faults>>

\* RoutedChatCipherService.decrypt looks into the cache first.
Decrypted(m) ==
    IF cached[m] # "none" THEN cached[m]
    ELSE IF m \in keys THEN "text" ELSE "marker"

\* Whatever is not "[decrypt-error]" is cached: the plaintext, and also the
\* "[history-recovery-pending]" of the V2 codecs; V3 says "[decrypt-error]".
CachedNow(m) ==
    IF Decrypted(m) = "text" \/ m \in V2
    THEN [cached EXCEPT ![m] = Decrypted(m)] ELSE cached

\* The 300 entries of the cache are used up by other payloads.
Evict(m) ==
    /\ cached[m] # "none" /\ Fault
    /\ cached' = [cached EXCEPT ![m] = "none"]
    /\ UNCHANGED <<server, keys, rows, cursor, start, sync, events, handling>>

-----------------------------------------------------------------------------
(* syncMessages.                                                            *)

PollStart ==
    /\ sync["poll"].pc = "idle"
    /\ \E window \in SUBSET Stored :
          /\ IsNewest(window, Stored)
          /\ sync' = [sync EXCEPT !["poll"] =
                [@ EXCEPT !.pc = "fetch",
                          !.after = IF window = {} THEN 0 ELSE cursor,
                          !.mine = {m \in window : rows[m] = "text"} \intersect Mine,
                          !.broken = {m \in window : rows[m] = "marker"}]]
    /\ UNCHANGED <<server, keys, local, cursor, start, events, handling, faults>>

\* Mutant: the newest page is fetched, whatever the cursor.
MutPollFetch ==
    /\ sync["poll"].pc = "fetch"
    /\ \E page \in SUBSET Committed :
          /\ IsNewest(page, Committed)
          /\ sync' = [sync EXCEPT !["poll"] =
                [@ EXCEPT !.pc = "store", !.page = page, !.todo = page]]
    /\ UNCHANGED <<server, keys, local, cursor, start, events, handling, faults>>

\* With no cursor the newest page is fetched, else the page that follows it.
PollFetch ==
    /\ sync["poll"].pc = "fetch"
    /\ \E page \in SUBSET Committed :
          /\ IF sync["poll"].after = 0 THEN IsNewest(page, Committed)
             ELSE IsOldest(page, {m \in Committed : m > sync["poll"].after})
          /\ sync' = [sync EXCEPT !["poll"] =
                [@ EXCEPT !.pc = "store", !.page = page, !.todo = page]]
    /\ UNCHANGED <<server, keys, local, cursor, start, events, handling, faults>>

Storing(p) == sync[p].pc = "store" /\ sync[p].todo # {}

\* The messages of a page are decrypted and stored one by one, in order.
IsNext(p, m) == m \in sync[p].todo /\ \A n \in sync[p].todo : m <= n

\* _resolveMessagePlaintext: of an own message that cannot be decrypted the
\* plaintext read at the start is kept.
Resolve(p, m) ==
    /\ Storing(p) /\ IsNext(p, m) /\ sync[p].plain = "none"
    /\ cached' = CachedNow(m)
    /\ sync' = [sync EXCEPT ![p] =
          [@ EXCEPT !.plain = IF m \in sync[p].mine THEN "text" ELSE Decrypted(m)]]
    /\ UNCHANGED <<server, keys, rows, cursor, start, events, handling, faults>>

\* persistMessage.
Persist(p, m) ==
    /\ Storing(p) /\ IsNext(p, m) /\ sync[p].plain # "none"
    /\ rows' = [rows EXCEPT ![m] = sync[p].plain]
    /\ sync' = [sync EXCEPT ![p].todo = @ \ {m}, ![p].plain = "none"]
    /\ UNCHANGED <<server, keys, cached, cursor, start, events, handling, faults>>

\* Mutant: the cursor is set to the newest row of the store.
MutPollSave(m) ==
    /\ sync["poll"].pc = "store" /\ sync["poll"].todo = {}
    /\ m \in Stored /\ \A n \in Stored : n <= m
    /\ cursor' = m
    /\ IF sync["poll"].after = 0 /\ sync["poll"].page # {}
       THEN start' \in sync["poll"].page /\ \A n \in sync["poll"].page : start' <= n
       ELSE start' = start
    /\ sync' = [sync EXCEPT !["poll"].pc = "repair"]
    /\ UNCHANGED <<server, keys, local, events, handling, faults>>

\* The cursor moves to the last message of the page.
PollSave(m) ==
    /\ sync["poll"].pc = "store" /\ sync["poll"].todo = {}
    /\ m \in sync["poll"].page /\ \A n \in sync["poll"].page : n <= m
    /\ cursor' = m
    /\ IF sync["poll"].after = 0
       THEN start' \in sync["poll"].page /\ \A n \in sync["poll"].page : start' <= n
       ELSE start' = start
    /\ sync' = [sync EXCEPT !["poll"].pc = "repair"]
    /\ UNCHANGED <<server, keys, local, events, handling, faults>>

PollNothing ==
    /\ sync["poll"].pc = "store" /\ sync["poll"].page = {}
    /\ sync' = [sync EXCEPT !["poll"].pc = "repair"]
    /\ UNCHANGED <<server, keys, local, cursor, start, events, handling, faults>>

\* Mutant: the rows read at the start are not tried again.
MutPollRepair(m) == FALSE

\* The markers read at the start are tried again and replaced when the
\* message can be decrypted by now.
PollRepair(m) ==
    /\ sync["poll"].pc = "repair" /\ m \in sync["poll"].broken
    /\ cached' = CachedNow(m)
    /\ rows' = IF Decrypted(m) = "text" THEN [rows EXCEPT ![m] = "text"] ELSE rows
    /\ sync' = [sync EXCEPT !["poll"].broken = @ \ {m}]
    /\ UNCHANGED <<server, keys, cursor, start, events, handling, faults>>

PollEnd ==
    /\ sync["poll"].pc = "repair" /\ sync["poll"].broken = {}
    /\ sync' = [sync EXCEPT !["poll"] = NoSync]
    /\ UNCHANGED <<server, keys, local, cursor, start, events, handling, faults>>

\* A request fails, for the page or for the users a decryption asks for.
SyncFail(p) ==
    /\ sync[p].pc # "idle" /\ Fault
    /\ sync' = [sync EXCEPT ![p] = NoSync]
    /\ UNCHANGED <<server, keys, local, cursor, start, events, handling>>

-----------------------------------------------------------------------------
(* syncOlderMessages: the page before the oldest row, cursor untouched.     *)

OlderStart ==
    /\ sync["older"].pc = "idle" /\ Stored # {}
    /\ \E oldest \in Stored, page \in SUBSET Committed :
          /\ \A n \in Stored : oldest <= n
          /\ IsNewest(page, {m \in Committed : m < oldest})
          /\ page # {}
          /\ sync' = [sync EXCEPT !["older"] =
                [@ EXCEPT !.pc = "store", !.page = page, !.todo = page,
                          !.mine = {m \in Mine : rows[m] = "text"}]]
    /\ UNCHANGED <<server, keys, local, cursor, start, events, handling, faults>>

OlderEnd ==
    /\ sync["older"].pc = "store" /\ sync["older"].todo = {}
    /\ sync' = [sync EXCEPT !["older"] = NoSync]
    /\ UNCHANGED <<server, keys, local, cursor, start, events, handling, faults>>

-----------------------------------------------------------------------------
(* Other writers of the rows.                                               *)

\* The answer to an own send: its plaintext is stored, no cursor moves.
OwnSent(m) ==
    /\ m \in Mine /\ m \in Committed /\ rows[m] = "none"
    /\ rows' = [rows EXCEPT ![m] = "text"]
    /\ UNCHANGED <<server, keys, cached, cursor, start, sync, events, handling, faults>>

\* ChatRealtimeCoordinator.handleEvent decrypts ... (an event that is lost on
\* its way is one that is never handled: no fairness here)
EventDecrypt(m) ==
    /\ m \in events /\ handling[m] = "none"
    /\ events' = events \ {m}
    /\ cached' = CachedNow(m)
    /\ handling' = [handling EXCEPT ![m] = Decrypted(m)]
    /\ UNCHANGED <<server, keys, rows, cursor, start, sync, faults>>

\* ... and then stores.
EventPersist(m) ==
    /\ handling[m] # "none"
    /\ rows' = [rows EXCEPT ![m] = handling[m]]
    /\ handling' = [handling EXCEPT ![m] = "none"]
    /\ UNCHANGED <<server, keys, cached, cursor, start, sync, events, faults>>

Restart ==
    /\ Fault
    /\ sync' = [p \in Syncer |-> NoSync]
    /\ handling' = [m \in Id |-> "none"]
    /\ events' = {}
    /\ UNCHANGED <<server, keys, local, cursor, start>>

-----------------------------------------------------------------------------
Server(m) == Insert(m) \/ Commit(m) \/ RollBack(m)

Poll ==
    \/ PollStart \/ PollFetch \/ PollNothing \/ PollEnd
    \/ \E m \in Id : Resolve("poll", m) \/ Persist("poll", m) \/ PollSave(m) \/ PollRepair(m)

Older ==
    \/ OlderStart \/ OlderEnd
    \/ \E m \in Id : Resolve("older", m) \/ Persist("older", m)

Event(m) == EventDecrypt(m) \/ EventPersist(m)

Next ==
    \/ \E m \in Id : Server(m) \/ KeyArrives(m) \/ Evict(m) \/ OwnSent(m) \/ Event(m)
    \/ Poll \/ Older
    \/ \E p \in Syncer : SyncFail(p)
    \/ Restart

Spec == Init /\ [][Next]_vars

-----------------------------------------------------------------------------
(* Safety.                                                                  *)

\* Polling leaves no gap: every committed message from the start of the first
\* page up to the cursor has a row, whatever events, own sends, failures and
\* restarts do, unless its transaction committed when a poll had passed its id:
\* PostgreSQL runs several write transactions at a time.
NoGap ==
    cursor # 0 =>
        \A m \in Committed \ late : start <= m /\ m <= cursor => rows[m] # "none"

\* The position of the client in the conversation is never lost, by whatever
\* polls, older pages, events, own sends, failures and restarts: the cursor
\* does not move back and no row is removed.
PositionKept == [][cursor <= cursor' /\ Stored \subseteq Stored']_vars

-----------------------------------------------------------------------------
(* Liveness.  Polling is a timer of 8 s; transactions end; the user who     *)
(* looks for a message keeps asking for older pages.                        *)

Fairness ==
    /\ WF_vars(Poll) /\ WF_vars(Older)
    /\ WF_vars(\E m \in Id : Commit(m)) /\ WF_vars(\E m \in Id : EventPersist(m))

FairSpec == Spec /\ Fairness

\* A message between the oldest stored row and the page that set the first
\* cursor: polling goes on above it and paging below (chat_sync_services.dart:
\* 125, 213).
InHole(m) == cursor # 0 /\ m < start /\ \E n \in Stored : n < m

\* Every committed message reaches the store of the client, with lost events,
\* failures and restarts, unless it is in the hole that a row stored before the
\* first poll leaves, or a poll had passed its id when it was committed.
ArrivesUnlessPassed ==
    \A m \in Id : status[m] = "committed" ~> rows[m] # "none" \/ InHole(m) \/ m \in late

InWindow(m) == Cardinality({n \in Stored : n > m}) < Page

\* A failure marker is replaced once the key is there and no marker is cached
\* for the payload, in spite of late events, evictions, failures and restarts,
\* as long as its row is among the newest ones that a poll reads.
WindowRepaired ==
    \A m \in Id : rows[m] = "marker" /\ m \in keys /\ cached[m] # "marker"
                     ~> rows[m] = "text" \/ ~InWindow(m)

\* Documented: "The committed HTTP write remains the source of truth and
\* clients recover through incremental polling." (common.py:128), and "Older
\* rows are loaded explicitly by syncOlderMessages" (chat_sync_services.dart:
\* 118).  Every committed message reaches the store of the client.
CommittedArrives ==
    \A m \in Id : status[m] = "committed" ~> rows[m] # "none"

\* Documented: "A key restored after reinstall should repair visible decrypt
\* failures automatically" (chat_sync_services.dart:170).  A stored message
\* whose key the device holds becomes readable.
MarkersRepaired ==
    \A m \in Id : rows[m] = "marker" /\ m \in keys ~> rows[m] = "text"
=============================================================================
