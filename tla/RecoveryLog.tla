---------------------------- MODULE RecoveryLog ----------------------------
(***************************************************************************)
(* What the recovery vault of an account promises its devices: a log of    *)
(* the accepted writes.  Whatever the requests do at once, one write       *)
(* follows the other, is counted once in the log and once for its device,  *)
(* and a snapshot keeps the number of its first write.                     *)
(***************************************************************************)
EXTENDS Naturals

CONSTANTS Device, Version

VARIABLES
    seq,        \* writes so far
    clock,      \* writes so far of each device
    number,     \* the write that stored a snapshot, 0 when none has
    withdrawn   \* snapshots that are no longer delivered

logVars == <<seq, clock, number, withdrawn>>

Entry == Device \X Version

LogInit ==
    /\ seq = 0
    /\ clock = [d \in Device |-> 0]
    /\ number = [e \in Entry |-> 0]
    /\ withdrawn = {}

Append(d, v) ==
    /\ seq' = seq + 1
    /\ clock' = [clock EXCEPT ![d] = @ + 1]
    /\ number' = [number EXCEPT ![<<d, v>>] = IF @ = 0 THEN seq + 1 ELSE @]
    /\ UNCHANGED withdrawn

\* The device is revoked, and what it has stored so far is withdrawn.
Withdraw(d) ==
    /\ withdrawn' = withdrawn \union {e \in Entry : e[1] = d /\ number[e] # 0}
    /\ UNCHANGED <<seq, clock, number>>

LogNext == \E d \in Device : Withdraw(d) \/ \E v \in Version : Append(d, v)

LogSpec == LogInit /\ [][LogNext]_logVars
=============================================================================
