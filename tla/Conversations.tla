--------------------------- MODULE Conversations ---------------------------
(***************************************************************************)
(* The private conversations of a pair of users, the General Group, and    *)
(* the list of conversations of one user.  Opening a conversation locks    *)
(* the row of the workspace, looks the pair up and creates it; a post      *)
(* stamps updated_at and is committed later; the app fetches one page of   *)
(* what was updated after its cursor, and sets the cursor to the clock of  *)
(* the device, which is not the one that stamps, when it has decrypted the *)
(* answer and before it stores it.  Rows are stored from elsewhere too:    *)
(* a conversation that is opened, a message that is sent or comes in.      *)
(***************************************************************************)
EXTENDS Integers, FiniteSets

CONSTANTS
    Opener,           \* requests that open the conversation of the pair
    Loader,           \* calls of loadChatList: nothing keeps two apart
    MaxConversation,  \* bound on the conversations of the pair
    MaxTime,          \* bound on the clock, and so on the posts
    PageSize,         \* conversations in an answer of the list
    Drift             \* how far the clock of the device may be from the server's

ASSUME ConversationsAssumption ==
    /\ MaxConversation \in Nat /\ MaxTime \in Nat \ {0} /\ PageSize \in Nat \ {0}
    /\ Drift \subseteq Int

VARIABLES
    updated,     \* Conversation.updated_at as committed, 0 if there is none
    opening,     \* the requests that open
    post,        \* the post under way: its conversation and its stamp
    clock,       \* the time of the server
    shown,       \* the local rows of the list, as the updated_at they show
    cursor,      \* _lastConversationSyncAt
    fetch,       \* the answer of each list request under way
    exposed      \* history: conversations written while a list was fetched or
                 \* behind the cursor, cut off its page, not stored, or stored
                 \* from elsewhere as they were before

conversationVars == <<updated, opening, post, clock, shown, cursor, fetch, exposed>>

\* The conversations the pair may get, and the group they are members of.
PrivateId == 1..MaxConversation
GeneralGroup == MaxConversation + 1
ConversationId == PrivateId \union {GeneralGroup}
Time == 0..MaxTime
NoPost == [conversation |-> 0, stamp |-> 0]

ConversationTypeOK ==
    /\ updated \in [ConversationId -> Time]
    /\ opening \in [Opener -> {"start", "locked", "open"}]
    /\ post \in [conversation : {0} \union ConversationId, stamp : Time]
    /\ clock \in Time
    /\ shown \in [ConversationId -> Time]
    /\ cursor \in Int
    /\ fetch \in [Loader -> [pc : {"idle", "answered"}, rows : [ConversationId -> Time]]]
    /\ exposed \subseteq ConversationId

NoRows == [c \in ConversationId |-> 0]
NoFetch == [pc |-> "idle", rows |-> NoRows]

ConversationInit ==
    /\ updated = [NoRows EXCEPT ![GeneralGroup] = 1]
    /\ opening = [o \in Opener |-> "start"]
    /\ post = NoPost
    /\ clock = 1
    /\ shown = NoRows
    /\ cursor = 0
    /\ fetch = [l \in Loader |-> NoFetch]
    /\ exposed = {}

Existing == {c \in ConversationId : updated[c] # 0}

\* get_or_create_private_conversation: the conversations of just the pair.
OfPair == Existing \ {GeneralGroup}

\* History: c is written now; marks it if a list is being fetched, or if the
\* stamp is not after the cursor, because the clock of the device was ahead.
Overlap(c, stamp) ==
    exposed' = IF stamp <= cursor \/ \E l \in Loader : fetch[l].pc = "answered"
              THEN exposed \union {c} ELSE exposed

-----------------------------------------------------------------------------
(* PrivateConversationView: one transaction.                               *)

\* Mutant: the row of the workspace is read without select_for_update.
MutLockWorkspace(o) ==
    /\ opening[o] = "start"
    /\ opening' = [opening EXCEPT ![o] = IF OfPair = {} THEN "locked" ELSE "open"]
    /\ UNCHANGED <<updated, post, clock, shown, cursor, fetch, exposed>>

\* Workspace.objects.select_for_update, then the search for the pair: a
\* conversation that is found is returned, and the lock goes.
LockWorkspace(o) ==
    /\ opening[o] = "start" /\ \A x \in Opener : opening[x] # "locked"
    /\ opening' = [opening EXCEPT ![o] = IF OfPair = {} THEN "locked" ELSE "open"]
    /\ UNCHANGED <<updated, post, clock, shown, cursor, fetch, exposed>>

\* Nothing was found: the conversation and its participants are inserted.
CreateConversation(o) ==
    /\ opening[o] = "locked" /\ clock < MaxTime
    /\ \E c \in PrivateId \ Existing :
         /\ \A x \in PrivateId \ Existing : c <= x
         /\ updated' = [updated EXCEPT ![c] = clock + 1]
         /\ Overlap(c, clock + 1)
    /\ clock' = clock + 1
    /\ opening' = [opening EXCEPT ![o] = "open"]
    /\ UNCHANGED <<post, shown, cursor, fetch>>

\* The client asks again.
OpenAgain(o) ==
    /\ opening[o] = "open"
    /\ opening' = [opening EXCEPT ![o] = "start"]
    /\ UNCHANGED <<updated, post, clock, shown, cursor, fetch, exposed>>

\* MessageListCreateView.post: conversation.save stamps updated_at ...
StampPost(c) ==
    /\ post = NoPost /\ c \in Existing /\ clock < MaxTime
    /\ clock' = clock + 1
    /\ post' = [conversation |-> c, stamp |-> clock + 1]
    /\ Overlap(c, clock + 1)
    /\ UNCHANGED <<updated, opening, shown, cursor, fetch>>

\* ... and the transaction commits.
CommitPost ==
    /\ post # NoPost
    /\ updated' = [updated EXCEPT ![post.conversation] = post.stamp]
    /\ post' = NoPost
    /\ Overlap(post.conversation, post.stamp)
    /\ UNCHANGED <<opening, clock, shown, cursor, fetch>>

-----------------------------------------------------------------------------
(* The list of conversations in the app.                                   *)

\* ConversationListView.get: a page of the rows updated after t, newest first.
UpdatedAfter(t) == {c \in Existing : updated[c] > t}
Page(t) == {c \in UpdatedAfter(t) :
              Cardinality({x \in UpdatedAfter(t) : updated[x] > updated[c]}) < PageSize}

\* fetchConversations: the page after the cursor, or the first one of all when
\* that is empty and no row is stored.  A post that is stamped and not
\* committed is missed like one that comes later.
FetchList(l) ==
    LET after == IF Page(cursor) = {} /\ shown = NoRows THEN 0 ELSE cursor
        answer == Page(after) IN
    /\ fetch[l].pc = "idle"
    /\ fetch' = [fetch EXCEPT ![l] =
           [pc |-> "answered",
            rows |-> [c \in ConversationId |-> IF c \in answer THEN updated[c] ELSE 0]]]
    /\ exposed' = exposed \union (UpdatedAfter(after) \ answer)
                      \union IF post = NoPost THEN {} ELSE {post.conversation}
    /\ UNCHANGED <<updated, opening, post, clock, shown, cursor>>

\* loadChatList goes on: _lastConversationSyncAt is DateTime.now() of the
\* device, and _persistConversation stores the conversations S of the answer.
Load(l, S) ==
    /\ fetch[l].pc = "answered"
    /\ \E d \in Drift : cursor' = clock + d
    /\ shown' = [c \in ConversationId |-> IF c \in S THEN fetch[l].rows[c] ELSE shown[c]]
    /\ fetch' = [fetch EXCEPT ![l] = NoFetch]
    /\ UNCHANGED <<updated, opening, post, clock>>

Answered(l) == {c \in ConversationId : fetch[l].rows[c] # 0}

ListLoaded(l) == Load(l, Answered(l)) /\ UNCHANGED exposed

\* The local database throws: the cursor was set before.
StoreFailed(l) ==
    \E S \in SUBSET Answered(l) :
        /\ S # Answered(l) /\ Load(l, S)
        /\ exposed' = exposed \union (Answered(l) \ S)

\* Mutant: the cursor moves though the answer was not decrypted.
MutListFailed(l) ==
    /\ fetch[l].pc = "answered"
    /\ fetch' = [fetch EXCEPT ![l] = NoFetch]
    /\ \E d \in Drift : cursor' = clock + d
    /\ UNCHANGED <<updated, opening, post, clock, shown, exposed>>

\* The request, a decryption or a refresh of the users throws.
ListFailed(l) ==
    /\ fetch[l].pc = "answered"
    /\ fetch' = [fetch EXCEPT ![l] = NoFetch]
    /\ UNCHANGED <<updated, opening, post, clock, shown, cursor, exposed>>

\* ensureConversationCached, openPrivateConversation, a realtime event and a
\* delivery store one row and leave the cursor: the conversation as it is, or
\* as the caller came to know it earlier.
StoreElsewhere(c) ==
    /\ c \in Existing
    /\ \E v \in 1..updated[c] :
         /\ shown' = [shown EXCEPT ![c] = v]
         /\ exposed' = IF v = updated[c] THEN exposed ELSE exposed \union {c}
    /\ UNCHANGED <<updated, opening, post, clock, cursor, fetch>>

\* The app is started again: _lastConversationSyncAt is null, the rows stay.
RestartList ==
    /\ cursor' = 0 /\ fetch' = [l \in Loader |-> NoFetch] /\ exposed' = {}
    /\ cursor' # cursor \/ fetch' # fetch
    /\ UNCHANGED <<updated, opening, post, clock, shown>>

ConversationNext ==
    \/ \E o \in Opener : LockWorkspace(o) \/ CreateConversation(o) \/ OpenAgain(o)
    \/ \E c \in ConversationId : StampPost(c) \/ StoreElsewhere(c)
    \/ CommitPost \/ RestartList
    \/ \E l \in Loader : FetchList(l) \/ ListLoaded(l) \/ StoreFailed(l) \/ ListFailed(l)

ConversationSpec == ConversationInit /\ [][ConversationNext]_conversationVars

-----------------------------------------------------------------------------
(* Properties.                                                             *)

\* A pair of users has one private conversation, however many requests of both
\* open it at the same time: no constraint of the database says so.
OnePrivateConversation == Cardinality(OfPair) <= 1

\* The list of an app misses an update its cursor has passed only if the
\* conversation was written while a list was fetched, or with a stamp behind
\* the cursor (the device's clock was ahead), was more than a page behind, met
\* a failure of the local database, or was stored from elsewhere as it was
\* before: overlapping loads, failed requests, restarts, a clock that is behind
\* and answers that find nothing lose none.
ListMissesOnlyExposed ==
    \A c \in Existing : updated[c] <= cursor /\ shown[c] # updated[c] => c \in exposed

\* The list shows every update its cursor has passed (violated).
ListIsComplete ==
    \A c \in Existing : updated[c] <= cursor => shown[c] = updated[c]
=============================================================================
