---------------------------- MODULE AtomicUpload ----------------------------
(***************************************************************************)
(* What the upload of attachments promises its clients: each session is    *)
(* one object with atomic operations.  A chunk is received once; the       *)
(* session is closed once, by making its only attachment of the chunks     *)
(* that it received, or by giving it up; and what is closed never changes. *)
(***************************************************************************)
EXTENDS Naturals

CONSTANTS Session, Chunk, Content, None

VARIABLES
    closed,     \* no request is accepted any more
    received,   \* the content accepted for each chunk, None before
    made,       \* how many attachments the session has made
    file        \* what its attachment holds

uploadVars == <<closed, received, made, file>>

Nothing == [c \in Chunk |-> None]

UploadInit ==
    /\ closed = [s \in Session |-> FALSE]
    /\ received = [s \in Session |-> Nothing]
    /\ made = [s \in Session |-> 0]
    /\ file = [s \in Session |-> Nothing]

Close(s) == ~closed[s] /\ closed' = [closed EXCEPT ![s] = TRUE]

Receive(s, c, v) ==
    /\ ~closed[s] /\ received[s][c] = None
    /\ received' = [received EXCEPT ![s][c] = v]
    /\ UNCHANGED <<closed, made, file>>

Make(s) ==
    /\ \A c \in Chunk : received[s][c] # None
    /\ Close(s)
    /\ made' = [made EXCEPT ![s] = @ + 1]
    /\ file' = [file EXCEPT ![s] = received[s]]
    /\ UNCHANGED received

GiveUp(s) == Close(s) /\ UNCHANGED <<received, made, file>>

UploadNext ==
    \E s \in Session :
        Make(s) \/ GiveUp(s) \/ \E c \in Chunk, v \in Content : Receive(s, c, v)

UploadSpec == UploadInit /\ [][UploadNext]_uploadVars
=============================================================================
