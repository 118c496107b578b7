---------------------------- MODULE ChatMessages ----------------------------
(***************************************************************************)
(* One message of a conversation after it was posted: its edits and        *)
(* deletion by the apps of its sender, the receipts its readers write over *)
(* the websocket and over HTTP, and the check the sender is shown.  No     *)
(* handler locks a row: each writes from the copy it has read.  The app    *)
(* stores no isRead: a refresh of the sender shows the local row, unread.  *)
(***************************************************************************)
EXTENDS Naturals, Sequences

CONSTANTS
    Recipient, \* participants other than the sender
    SenderApp, \* apps of the sender
    MaxEdit,   \* bound on the edits
    MaxLoss    \* bound on the failures of the network

ASSUME ChatAssumption == MaxEdit \in Nat /\ MaxLoss \in Nat

VARIABLES
    message,  \* body and deleted_at of the row Message
    editing,  \* the edit each app of the sender has under way: the new body
    edits,    \* how many edits there were
    gone,     \* history: a deletion was answered
    receipts, \* MessageReceipt of each reader; none is like one of two nulls
    open,     \* readers who look at the conversation
    events,   \* receipt events on the way over the websocket of each reader
    saving,   \* the event its consumer handles, with the copy of the receipt
    losses,   \* how often the network failed
    posting,  \* the request to MessageReadView of each reader
    isRead    \* the message on the screen of the sender: isRead

chatVars == <<message, editing, edits, gone, receipts, open, events, saving, losses,
              posting, isRead>>

Text == 1..(MaxEdit + 1)
NoText == 0
Receipt == [delivered : BOOLEAN, read : BOOLEAN]
NoReceipt == [delivered |-> FALSE, read |-> FALSE]
Event == {"receipt.delivered", "receipt.read"}

\* A handler under way; event or pc "none" when there is none.
NoEvent == [event |-> "none", copy |-> NoReceipt]
NoReading == [pc |-> "none", copy |-> NoReceipt]

ChatTypeOK ==
    /\ message \in [body : Text \union {NoText}, deleted : BOOLEAN]
    /\ editing \in [SenderApp -> Text \union {NoText}]
    /\ edits \in 0..MaxEdit
    /\ gone \in BOOLEAN
    /\ receipts \in [Recipient -> Receipt]
    /\ open \subseteq Recipient
    /\ events \in [Recipient -> {<<>>, <<"receipt.read">>, <<"receipt.delivered", "receipt.read">>}]
    /\ saving \in [Recipient -> [event : Event \union {"none"}, copy : Receipt]]
    /\ losses \in 0..MaxLoss
    /\ posting \in [Recipient -> [pc : {"none", "sent", "read"}, copy : Receipt]]
    /\ isRead \in BOOLEAN

ChatInit ==
    /\ message = [body |-> 1, deleted |-> FALSE]
    /\ editing = [a \in SenderApp |-> NoText]
    /\ edits = 0
    /\ gone = FALSE
    /\ receipts = [r \in Recipient |-> NoReceipt]
    /\ open = {}
    /\ events = [r \in Recipient |-> <<>>]
    /\ saving = [r \in Recipient |-> NoEvent]
    /\ losses = 0
    /\ posting = [r \in Recipient |-> NoReading]
    /\ isRead = FALSE

body == <<message, editing, edits, gone>>
wire == <<open, events, saving, losses, posting>>

-----------------------------------------------------------------------------
(* MessageActionView, without a transaction.                               *)

\* patch: a deleted message is refused, by the row as it was read.
EditMessage(a) ==
    /\ editing[a] = NoText /\ ~message.deleted /\ edits < MaxEdit
    /\ edits' = edits + 1
    /\ editing' = [editing EXCEPT ![a] = edits + 2]
    /\ UNCHANGED <<message, gone, receipts, wire, isRead>>

\* Mutant: the row is saved whole, from the copy.
MutEdited(text) == [body |-> text, deleted |-> FALSE]

\* save(update_fields=['body', 'edited_at']).
Edited(text) == [message EXCEPT !.body = text]

SaveEdit(a) ==
    /\ editing[a] # NoText
    /\ message' = Edited(editing[a])
    /\ editing' = [editing EXCEPT ![a] = NoText]
    /\ UNCHANGED <<edits, gone, receipts, wire, isRead>>

\* delete: nothing that was read is written back.
DeleteMessage ==
    /\ ~gone
    /\ message' = [body |-> NoText, deleted |-> TRUE]
    /\ gone' = TRUE
    /\ UNCHANGED <<editing, edits, receipts, wire, isRead>>

-----------------------------------------------------------------------------
(* A reader: ChatConversationController.                                   *)

OpenConversation(r) ==
    /\ r \notin open /\ open' = open \union {r}
    /\ UNCHANGED <<body, receipts, events, saving, losses, posting, isRead>>

CloseConversation(r) ==
    /\ r \in open /\ open' = open \ {r}
    /\ UNCHANGED <<body, receipts, events, saving, losses, posting, isRead>>

\* refresh, when opened and every eight seconds: both events, and the HTTP
\* request as a durable fallback.  A round waits for the one before.
RefreshMessages(r) ==
    /\ r \in open /\ events[r] = <<>> /\ posting[r] = NoReading
    /\ events' = [events EXCEPT ![r] = <<"receipt.delivered", "receipt.read">>]
    /\ posting' = [posting EXCEPT ![r].pc = "sent"]
    /\ UNCHANGED <<body, receipts, open, saving, losses, isRead>>

Lose == losses < MaxLoss /\ losses' = losses + 1

\* The websocket closes: what was not handled is lost.
LoseEvents(r) ==
    /\ events[r] # <<>> /\ events' = [events EXCEPT ![r] = <<>>]
    /\ Lose
    /\ UNCHANGED <<body, receipts, open, saving, posting, isRead>>

LoseRequest(r) ==
    /\ posting[r].pc = "sent" /\ posting' = [posting EXCEPT ![r] = NoReading]
    /\ Lose
    /\ UNCHANGED <<body, receipts, open, events, saving, isRead>>

-----------------------------------------------------------------------------
(* The server.                                                             *)

\* The event is sent to the sender, whose app sets isRead, or is lost.
Tell == isRead' \in {isRead, TRUE}

\* ChatEventsConsumer.receive: one event of a socket after the other.
TakeEvent(r) ==
    /\ events[r] # <<>> /\ saving[r] = NoEvent
    /\ saving' = [saving EXCEPT ![r] = [event |-> Head(events[r]), copy |-> receipts[r]]]
    /\ events' = [events EXCEPT ![r] = Tail(@)]
    /\ UNCHANGED <<body, receipts, open, losses, posting, isRead>>

\* Mutant: a delivered receipt is written as not read.
MutReceived(s) == [delivered |-> TRUE, read |-> s.event = "receipt.read"]

\* _save_receipt: update_fields names read_at, which is the one of the copy.
Received(s) == [delivered |-> TRUE, read |-> s.event = "receipt.read" \/ s.copy.read]

SaveEvent(r) ==
    /\ saving[r] # NoEvent
    /\ receipts' = [receipts EXCEPT ![r] = Received(saving[r])]
    /\ IF saving[r].event = "receipt.read" THEN Tell ELSE UNCHANGED isRead
    /\ saving' = [saving EXCEPT ![r] = NoEvent]
    /\ UNCHANGED <<body, open, events, losses, posting>>

\* MessageReadView.post: the receipt is read ...
TakeRequest(r) ==
    /\ posting[r].pc = "sent"
    /\ posting' = [posting EXCEPT ![r] = [pc |-> "read", copy |-> receipts[r]]]
    /\ UNCHANGED <<body, receipts, open, events, saving, losses, isRead>>

\* ... and written, unless both dates were set.
SaveRequest(r) ==
    LET written == posting[r].copy.read /\ posting[r].copy.delivered IN
    /\ posting[r].pc = "read"
    /\ receipts' = IF written THEN receipts
                  ELSE [receipts EXCEPT ![r] = [delivered |-> TRUE, read |-> TRUE]]
    /\ IF written THEN UNCHANGED isRead ELSE Tell
    /\ posting' = [posting EXCEPT ![r] = NoReading]
    /\ UNCHANGED <<body, open, events, saving, losses>>

\* The sender's refresh: syncMessages asks only for what comes after the cursor,
\* and merges the local row, which has no is_read, over what the screen shows.
ShowMessages ==
    /\ isRead /\ isRead' = FALSE
    /\ UNCHANGED <<body, receipts, wire>>

ChatNext ==
    \/ \E a \in SenderApp : EditMessage(a) \/ SaveEdit(a)
    \/ DeleteMessage
    \/ \E r \in Recipient : \/ OpenConversation(r) \/ CloseConversation(r) \/ RefreshMessages(r)
                         \/ LoseEvents(r) \/ LoseRequest(r)
                         \/ TakeEvent(r) \/ SaveEvent(r) \/ TakeRequest(r) \/ SaveRequest(r)
    \/ ShowMessages

\* Handlers finish, the timers of open conversations fire, and the network
\* delivers what it does not lose; deletions, edits and readers are free.
ChatFairness ==
    /\ \A r \in Recipient : WF_chatVars(RefreshMessages(r))
                        /\ WF_chatVars(TakeEvent(r)) /\ WF_chatVars(SaveEvent(r))
                        /\ WF_chatVars(TakeRequest(r)) /\ WF_chatVars(SaveRequest(r))
    /\ WF_chatVars(ShowMessages)

ChatSpec == ChatInit /\ [][ChatNext]_chatVars /\ ChatFairness

-----------------------------------------------------------------------------
(* Properties.                                                             *)

\* A message whose deletion was answered stays deleted, whatever edit of
\* another app was under way.
DeletedStays == gone => message.deleted

\* When a reader keeps the conversation open, and the network fails a bounded
\* number of times, the server has the receipt as read for good in the end: a
\* read_at that a delivered event has undone from its copy is written again,
\* and is not undone for ever.
ReadRecorded == \A r \in Recipient : <>[](r \in open) => <>[]receipts[r].read

\* The sender is then shown the message as read for good (violated: each refresh
\* shows it unread until the reader's next event).
ReadSettles == <>[](open = Recipient) => <>[]isRead

\* A receipt that is read stays read (violated: a delivered event writes the
\* read_at of its copy).
ReadKept == [][\A r \in Recipient : receipts[r].read => receipts'[r].read]_chatVars

\* "Deleted messages cannot be edited." (violated).
DeletedHasNoText == message.deleted => message.body = NoText
=============================================================================
