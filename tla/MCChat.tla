------------------------------- MODULE MCChat -------------------------------
(***************************************************************************)
(* One instance of three parts of the chat application of the backend that *)
(* share no row: the upload of an attachment, the conversations of a pair, *)
(* and one message with its receipts.  A behaviour exercises one of them,  *)
(* chosen at the start, and the others stay as they are.  One upload       *)
(* session: sessions share nothing but the list of the cleanup.            *)
(***************************************************************************)
EXTENDS AttachmentUpload, Conversations, ChatMessages

\* The clock of the device is right, a second ahead or a second behind.
MCDrift == {-1, 0, 1}

VARIABLE component

chatAppVars == <<component, vars, conversationVars, chatVars>>

MCInit ==
    /\ component \in {"attachments", "conversations", "messages"}
    /\ Init /\ ConversationInit /\ ChatInit

AttachmentsNext ==
    /\ component = "attachments" /\ Next
    /\ UNCHANGED <<component, conversationVars, chatVars>>

ConversationsNext ==
    /\ component = "conversations" /\ ConversationNext
    /\ UNCHANGED <<component, vars, chatVars>>

MessagesNext ==
    /\ component = "messages" /\ ChatNext
    /\ UNCHANGED <<component, vars, conversationVars>>

MCNext == AttachmentsNext \/ ConversationsNext \/ MessagesNext

\* The fairness of the component that was chosen.
MCSpec ==
    /\ MCInit /\ [][MCNext]_chatAppVars
    /\ (component = "attachments" => Fairness) /\ (component = "messages" => ChatFairness)
=============================================================================
