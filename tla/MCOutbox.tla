------------------------------ MODULE MCOutbox ------------------------------
(* Values for TLC: the last message belongs to a conversation of its own.  *)
EXTENDS Outbox, TLC

CONSTANTS c1, c2, t1, t2, chat, tasks

MCConvOf == [m \in 1..N |-> IF m < N \/ N = 1 THEN chat ELSE tasks]

\* Ciphertexts and tasks are interchangeable.
MCSymmetry == Permutations(Cipher) \union Permutations(Flusher)

\* A behaviour has a crash, and one task beside the sender until then, or has
\* no crash (it is a later session's) and two tasks.
StartInit ==
    /\ outbox = NoRows
    /\ local = [m \in Msg |-> None]
    /\ sender = [m \in Msg |-> "idle"]
    /\ flusher = [f \in Flusher |-> IdleFlusher]
    /\ op = [m \in Msg |-> NoOp]
    /\ net = {}
    /\ server = [m \in Msg |-> None]
    /\ crashes \in 0..MaxCrashes

StartSpec == StartInit /\ [][Next]_vars

OneTaskBeforeCrash ==
    crashes < MaxCrashes => \A f, g \in Flusher :
        f = g \/ flusher[f].pc = "idle" \/ flusher[g].pc = "idle"

\* A session in which nothing new is sent starts with what the one before has
\* left: a message that cannot be encrypted and one that can, which failed with or
\* without its ciphertext and is perhaps stored already; the third has been sent.
Left(c) == [state |-> "failedRetryable", cipher |-> c, backoff |-> TRUE]

Restarted ==
    /\ \E m \in Msg \ Poison, c \in Cipher \union {None} :
          outbox = [k \in Msg |-> CASE k = m -> Left(c)
                                     [] k \in Poison -> Left(None)
                                     [] OTHER -> NoRow]
    /\ local = [m \in Msg |-> IF Has(outbox[m]) THEN None ELSE CHOOSE c \in Cipher : TRUE]
    /\ server \in {s \in [Msg -> Cipher \union {None}] : \A m \in Msg :
                     s[m] \in IF Has(outbox[m]) THEN {None, outbox[m].cipher} ELSE {local[m]}}
    /\ sender = [m \in Msg |-> "done"]
    /\ flusher = [f \in Flusher |-> IdleFlusher]
    /\ op = [m \in Msg |-> NoOp]
    /\ net = {}
    /\ crashes = 0

RestartSpec == Restarted /\ [][Next]_vars /\ Fairness
=============================================================================
