--------------------------- MODULE MessageDelivery ---------------------------
(***************************************************************************)
(* What the sending half of the messenger promises, whatever the network   *)
(* and the tasks of the client do: a queued message is never forgotten, the *)
(* server stores it at most once, and the copy a client keeps of a sent     *)
(* message is the one the server stored.  Outbox implements it.            *)
(***************************************************************************)
CONSTANTS Msg, Cipher, None

VARIABLES
    queued,     \* messages the client has taken responsibility for
    stored,     \* what the server stores of each message, or None
    copy        \* what the client keeps of each sent message, or None

vars == <<queued, stored, copy>>

Init ==
    /\ queued = {}
    /\ stored = [m \in Msg |-> None]
    /\ copy = [m \in Msg |-> None]

Queue(m) ==
    /\ queued' = queued \union {m}
    /\ UNCHANGED <<stored, copy>>

Store(m, c) ==
    /\ m \in queued
    /\ stored[m] = None
    /\ stored' = [stored EXCEPT ![m] = c]
    /\ UNCHANGED <<queued, copy>>

Confirm(m) ==
    /\ m \in queued
    /\ stored[m] # None
    /\ copy' = [copy EXCEPT ![m] = stored[m]]
    /\ UNCHANGED <<queued, stored>>

Next ==
    \E m \in Msg : \/ Queue(m)
                   \/ \E c \in Cipher : Store(m, c)
                   \/ Confirm(m)

Spec == Init /\ [][Next]_vars
=============================================================================
