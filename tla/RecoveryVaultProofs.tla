------------------------ MODULE RecoveryVaultProofs ------------------------
(***************************************************************************)
(* The safety of RecoveryVault, for any number of devices, snapshots, PUT  *)
(* requests and faults.                                                    *)
(***************************************************************************)
EXTENDS RecoveryVault, TLAPS

LEMMA PublisherParts == \A p \in Publisher : p[1] \in Device /\ p[2] \in Kind
  BY DEF Publisher

LEMMA IdleType == Idle \in Client
  BY VaultAssumption DEF Idle, Client, Version

LEMMA IdleFields == Idle.pc = "idle" /\ Idle.tx = NoTx
  BY DEF Idle

LEMMA PutType ==
    ASSUME TypeOK, NEW t \in Tx, put[t].pc # "free"
    PROVE  put[t] \in Put
  BY DEF TypeOK, NoPut

\* Replacing one client record, one request, or one remembered version.
LEMMA ClientType ==
    ASSUME TypeOK, NEW p \in Publisher, NEW c \in Client,
           client' = [client EXCEPT ![p] = c]
    PROVE  client' \in [Publisher -> Client]
  BY DEF TypeOK

LEMMA RequestType ==
    ASSUME TypeOK, NEW t \in Tx, NEW r \in Put \union {NoPut},
           put' = [put EXCEPT ![t] = r]
    PROVE  put' \in [Tx -> Put \union {NoPut}]
  BY DEF TypeOK

LEMMA ReplyType ==
    ASSUME TypeOK, NEW t \in Tx, NEW pc \in {"ok", "conflict", "failed"},
           put[t].pc # "free", Reply(t, pc)
    PROVE  put' \in [Tx -> Put \union {NoPut}]
  <1>1. put[t] \in Put
    BY PutType
  <1>2. [put[t] EXCEPT !.pc = pc] \in Put
    BY <1>1 DEF Put
  <1>3. PICK r \in Put \union {NoPut} : put' = [put EXCEPT ![t] = r]
    BY <1>2 DEF Reply
  <1> QED
    BY <1>3, RequestType

LEMMA TypeInit == Init => TypeOK
  <1> SUFFICES ASSUME Init PROVE TypeOK
    OBVIOUS
  <1>1. client \in [Publisher -> Client]
    BY IdleType DEF Init
  <1>2. vault \in Vault
    BY DEF Init, Vault, NoClock
  <1> QED
    BY <1>1, <1>2, VaultAssumption DEF Init, TypeOK, Version, Restore

\* What the client steps assign is of its type.
LEMMA ClientStepType ==
    ASSUME TypeOK, NEW p \in Publisher,
           ClientStep(p) \/ OpenPage(p) \/ Timeout(p) \/ ReadFails(p)
    PROVE  TypeOK'
  <1>p. p[1] \in Device /\ p[2] \in Kind
    BY PublisherParts
  <1>c. client[p] \in Client /\ version[p[1]] \in Version /\ client[p].snap \in Version
    BY <1>p DEF TypeOK, Client
  <1>v. version' = version /\ server' = server /\ restore' = restore
    BY DEF ClientStep, Publish, OpenPage, ReadIndex, SendPut, PutOk, PutConflict,
           PutFailed, Verify, Timeout, ReadFails
  <1>f. fails' \in 0..MaxFail /\ pages' \in 0..MaxPage
    <2>1. fails' = fails \/ Fault
      BY DEF ClientStep, Publish, OpenPage, ReadIndex, SendPut, PutOk,
             PutConflict, PutFailed, Verify, Timeout, ReadFails
    <2>2. pages' = pages \/ (pages < MaxPage /\ pages' = pages + 1)
      BY DEF ClientStep, Publish, OpenPage, ReadIndex, SendPut, PutOk,
             PutConflict, PutFailed, Verify, Timeout, ReadFails
    <2> QED
      BY <2>1, <2>2, VaultAssumption DEF TypeOK, Fault
  <1>1. client' \in [Publisher -> Client]
    <2>1. CASE Publish(p) \/ OpenPage(p)
      <3>1. PICK c \in Client : client' = [client EXCEPT ![p] = c]
        BY <2>1, <1>c, IdleType DEF Publish, OpenPage, Started, Client, Idle
      <3> QED BY <3>1, ClientType
    <2>2. CASE ReadIndex(p)
      <3>1. PICK c \in Client : client' = [client EXCEPT ![p] = c]
        BY <2>2, <1>c DEF ReadIndex, Client, TypeOK, Vault
      <3> QED BY <3>1, ClientType
    <2>3. CASE \E t \in Tx : SendPut(p, t)
      <3>1. PICK c \in Client : client' = [client EXCEPT ![p] = c]
        BY <2>3, <1>c DEF SendPut, Client
      <3> QED BY <3>1, ClientType
    <2>4. CASE PutOk(p)
      <3>1. PICK c \in Client : client' = [client EXCEPT ![p] = c]
        BY <2>4, <1>c, IdleType DEF PutOk, Ended, Client, Idle
      <3> QED BY <3>1, ClientType
    <2>5. CASE PutConflict(p)
      <3>1. PICK c \in Client : client' = [client EXCEPT ![p] = c]
        BY <2>5, <1>c, IdleType DEF PutConflict, Ended, Client, Idle
      <3> QED BY <3>1, ClientType
    <2>6. CASE PutFailed(p) \/ Timeout(p) \/ ReadFails(p)
      <3>1. client' = [client EXCEPT ![p] = Idle]
        BY <2>6 DEF PutFailed, Timeout, ReadFails, Ended
      <3> QED BY <3>1, IdleType, ClientType
    <2>7. CASE Verify(p)
      <3>1. PICK c \in Client : client' = [client EXCEPT ![p] = c]
        BY <2>7, <1>c, IdleType DEF Verify, Ended, Goto, Client, Idle
      <3> QED BY <3>1, ClientType
    <2> QED
      BY <2>1, <2>2, <2>3, <2>4, <2>5, <2>6, <2>7 DEF ClientStep
  <1>2. published' \in [Device -> Version \union {0}]
    BY <1>p, <1>c DEF TypeOK, memory, ClientStep, Publish, OpenPage, ReadIndex, SendPut,
           PutOk, PutConflict, PutFailed, Verify, Timeout, ReadFails
  <1>3. verified' \in [Device -> Version \union {0}]
    BY <1>p, <1>c DEF TypeOK, memory, ClientStep, Publish, OpenPage, ReadIndex, SendPut,
           PutOk, PutConflict, PutFailed, Verify, Timeout, ReadFails
  <1>4. put' \in [Tx -> Put \union {NoPut}]
    <2>1. CASE \E t \in Tx : SendPut(p, t)
      <3>1. PICK t \in Tx : SendPut(p, t)
        BY <2>1
      <3>2. PICK r \in Put : put' = [put EXCEPT ![t] = r]
        BY <3>1, <1>c DEF SendPut, Put, Client, NoClock
      <3> QED BY <3>2, RequestType
    <2>2. CASE Taken(p)
      BY <2>2 DEF Taken, TypeOK
    <2>3. CASE UNCHANGED put
      BY <2>3 DEF TypeOK
    <2> QED
      BY <2>1, <2>2, <2>3 DEF ClientStep, Publish, OpenPage, ReadIndex, PutOk, PutConflict,
           PutFailed, Verify, Timeout, ReadFails
  <1> QED
    BY <1>v, <1>f, <1>1, <1>2, <1>3, <1>4 DEF TypeOK, server

LEMMA ServeType ==
    ASSUME TypeOK, NEW t \in Tx, Serve(t) \/ EscrowUnavailable(t)
    PROVE  TypeOK'
  <1>0. UNCHANGED <<version, client, memory, revoked, tomb, restore, pages>>
    BY DEF Serve, CheckDevice, LockManifest, ManifestConflict, WriteManifest,
           EscrowUnavailable, server
  <1>1. put[t].pc # "free"
    BY DEF Serve, CheckDevice, LockManifest, ManifestConflict, WriteManifest,
           EscrowUnavailable, Current
  <1>2. put[t] \in Put
    BY <1>1, PutType
  <1>3. put' \in [Tx -> Put \union {NoPut}]
    <2>1. CASE \E pc \in {"ok", "conflict", "failed"} : Reply(t, pc)
      BY <2>1, <1>1, ReplyType
    <2>2. CASE put' = [put EXCEPT ![t].pc = "checked"]
      <3>1. [put[t] EXCEPT !.pc = "checked"] \in Put
        BY <1>2 DEF Put
      <3> QED BY <3>1, <2>2, RequestType DEF TypeOK
    <2>3. CASE LockManifest(t)
      <3>1. PICK r \in Put : put' = [put EXCEPT ![t] = r]
        BY <2>3, <1>2 DEF LockManifest, Put, TypeOK, Vault
      <3> QED BY <3>1, RequestType
    <2> QED
      BY <2>1, <2>2, <2>3 DEF Serve, CheckDevice, ManifestConflict, WriteManifest, EscrowUnavailable
  <1>6. authored' \subseteq Publisher \X Version
    <2>1. put[t].by \in Publisher /\ put[t].version \in Version
      BY <1>2 DEF Put
    <2>2. authored' = authored \/ authored' = authored \union {<<put[t].by, put[t].version>>}
      BY DEF Serve, CheckDevice, LockManifest, ManifestConflict, WriteManifest,
             EscrowUnavailable, server
    <2> QED BY <2>1, <2>2 DEF TypeOK
  <1>4. vault' \in Vault
    <2>1. CASE WriteManifest(t)
      <3>1. put[t].seq + 1 \in Nat /\ put[t].by[1] \in Device /\ put[t].version \in Version
        BY <1>2, PublisherParts DEF Put
      <3>2. [put[t].clock EXCEPT ![put[t].by[1]] = @ + 1] \in [Device -> Nat]
        BY <1>2, <3>1 DEF Put
      <3>3. Record(t) \in [Snapshot -> Nat]
        BY <3>1 DEF Record, Entry, TypeOK, Vault, Snapshot
      <3> QED
        BY <2>1, <3>1, <3>2, <3>3 DEF WriteManifest, Vault
    <2>2. CASE UNCHANGED vault
      BY <2>2 DEF TypeOK
    <2> QED
      BY <2>1, <2>2 DEF Serve, CheckDevice, LockManifest, ManifestConflict, EscrowUnavailable, server
  <1>5. lock' \in Tx \union {NoTx} /\ fails' \in 0..MaxFail
    BY VaultAssumption DEF TypeOK, Serve, CheckDevice, LockManifest, ManifestConflict,
           WriteManifest, EscrowUnavailable, server, Fault
  <1> QED
    BY <1>0, <1>3, <1>4, <1>5, <1>6 DEF TypeOK, memory

LEMMA OtherType ==
    ASSUME TypeOK, NEW d \in Device,
           ChangeKeys(d) \/ Restart(d) \/ Revoke(d)
    PROVE  TypeOK'
  <1>1. CASE ChangeKeys(d)
    BY <1>1, VaultAssumption DEF ChangeKeys, TypeOK, memory, server, Version
  <1>2. CASE Restart(d)
    <2>1. client' \in [Publisher -> Client]
      BY <1>2, IdleType DEF Restart, TypeOK
    <2>2. put' \in [Tx -> Put \union {NoPut}]
      BY <1>2 DEF Restart, TypeOK
    <2> QED
      BY <1>2, <2>1, <2>2, VaultAssumption DEF Restart, TypeOK, server, Fault
  <1>3. CASE Revoke(d)
    BY <1>3 DEF Revoke, TypeOK, memory, Stored
  <1> QED
    BY <1>1, <1>2, <1>3

LEMMA TypeNext == ASSUME TypeOK, [Next]_vars PROVE TypeOK'
  <1>1. CASE UNCHANGED vars
    BY <1>1 DEF vars, memory, server, TypeOK
  <1>2. CASE Next
    <2>1. ASSUME NEW d \in Device, ChangeKeys(d) \/ Restart(d) \/ Revoke(d)
          PROVE  TypeOK'
      BY <2>1, OtherType
    <2>2. CASE ReadManifest
      BY <2>2 DEF ReadManifest, TypeOK, memory, server, Restore, Vault
    <2>3. CASE ReadRecords
      BY <2>3 DEF ReadRecords, TypeOK, memory, server, Restore
    <2> QED
      BY <1>2, <2>1, <2>2, <2>3, ClientStepType, ServeType DEF Next
  <1> QED
    BY <1>1, <1>2

-----------------------------------------------------------------------------
(* The locked manifest is the one its transaction has read; who waits has  *)
(* a request of its own; what is answered with success is stored.          *)

LockHolds ==
    \A t \in Tx : put[t].pc = "locked" =>
        lock = t /\ put[t].seq = vault.seq /\ put[t].clock = vault.clock

WaitersServed ==
    \A p \in Publisher :
        IF At(p, "wait")
        THEN /\ client[p].tx \in Tx /\ put[client[p].tx] \in Put
             /\ put[client[p].tx].by = p
             /\ put[client[p].tx].version = client[p].snap
        ELSE client[p].tx = NoTx

AnswersStored ==
    \A t \in Tx : put[t].pc = "ok" => <<put[t].by[1], put[t].version>> \in Stored

ServerInv == LockHolds /\ AnswersStored /\ VaultConsistent
ClientInv == WaitersServed /\ RememberedIsStored
IInv == TypeOK /\ ServerInv /\ ClientInv

LEMMA InvInit == Init => IInv
  <1> SUFFICES ASSUME Init PROVE IInv
    OBVIOUS
  <1>1. Stored = {}
    BY DEF Init, Stored
  <1>2. ServerInv
    BY <1>1 DEF Init, ServerInv, LockHolds, AnswersStored, VaultConsistent, NoPut, NoClock
  <1>3. ClientInv
    BY DEF Init, ClientInv, WaitersServed, RememberedIsStored, At, Idle
  <1> QED
    BY <1>2, <1>3, TypeInit DEF IInv

\* A step of a client leaves the server alone and touches one request: its own,
\* which it gives up, or a free one, which it sends.
LEMMA ClientRequest ==
    ASSUME IInv, NEW p \in Publisher,
           ClientStep(p) \/ OpenPage(p) \/ Timeout(p) \/ ReadFails(p)
    PROVE  \/ UNCHANGED put
           \/ At(p, "wait") /\ Taken(p)
           \/ \E t \in Tx : SendPut(p, t)
  BY DEF ClientStep, Publish, OpenPage, ReadIndex, PutOk, PutConflict, PutFailed,
         Verify, Timeout, ReadFails, Answer

LEMMA ClientKeepsServer ==
    ASSUME IInv, NEW p \in Publisher,
           ClientStep(p) \/ OpenPage(p) \/ Timeout(p) \/ ReadFails(p)
    PROVE  ServerInv'
  <1>1. UNCHANGED server
    BY DEF ClientStep, Publish, OpenPage, ReadIndex, SendPut, PutOk, PutConflict,
           PutFailed, Verify, Timeout, ReadFails
  <1>2. ASSUME NEW t \in Tx, put'[t].pc \in {"locked", "ok"}
        PROVE  put'[t] = put[t]
    <2>1. CASE At(p, "wait") /\ Taken(p)
      BY <1>2, <2>1 DEF IInv, TypeOK, Taken, NoPut
    <2>2. ASSUME NEW u \in Tx, SendPut(p, u)
          PROVE  put'[t] = put[t]
      BY <1>2, <2>2 DEF IInv, TypeOK, SendPut
    <2> QED
      BY <2>1, <2>2, ClientRequest
  <1>3. Stored' = Stored
    BY <1>1 DEF server, Stored
  <1>4. LockHolds'
    BY <1>1, <1>2 DEF IInv, ServerInv, LockHolds, server
  <1>5. AnswersStored'
    BY <1>2, <1>3 DEF IInv, ServerInv, AnswersStored
  <1>6. VaultConsistent'
    BY <1>1, <1>3 DEF IInv, ServerInv, VaultConsistent, server
  <1> QED
    BY <1>4, <1>5, <1>6 DEF ServerInv

LEMMA ClientKeepsClients ==
    ASSUME IInv, NEW p \in Publisher,
           ClientStep(p) \/ OpenPage(p) \/ Timeout(p) \/ ReadFails(p)
    PROVE  ClientInv'
  <1>t. client \in [Publisher -> Client] /\ put \in [Tx -> Put \union {NoPut}] /\ NoTx \notin Tx
    BY VaultAssumption DEF IInv, TypeOK
  <1>w. WaitersServed
    BY DEF IInv, ClientInv
  <1>1. Stored' = Stored
    BY DEF ClientStep, Publish, OpenPage, ReadIndex, SendPut, PutOk, PutConflict,
           PutFailed, Verify, Timeout, ReadFails, server, Stored
  <1>2. \A q \in Publisher : q # p => client'[q] = client[q]
    BY <1>t DEF ClientStep, Publish, OpenPage, ReadIndex, SendPut, PutOk, PutConflict,
           PutFailed, Verify, Timeout, ReadFails, Started, Ended, Goto
  <1>3. \A q \in Publisher : q # p /\ At(q, "wait") => put'[client[q].tx] = put[client[q].tx]
    <2> SUFFICES ASSUME NEW q \in Publisher, q # p, At(q, "wait")
                 PROVE  put'[client[q].tx] = put[client[q].tx]
      OBVIOUS
    <2>1. client[q].tx \in Tx /\ put[client[q].tx] \in Put /\ put[client[q].tx].by = q
      BY <1>w DEF WaitersServed
    <2>2. CASE At(p, "wait") /\ Taken(p)
      <3>1. put[client[p].tx].by = p /\ client[p].tx \in Tx
        BY <1>w, <2>2 DEF WaitersServed
      <3> QED BY <2>1, <2>2, <3>1, <1>t DEF Taken
    <2>3. ASSUME NEW t \in Tx, SendPut(p, t)
          PROVE  put'[client[q].tx] = put[client[q].tx]
      <3>1. put[client[q].tx] # NoPut
        BY <2>1 DEF Put, NoPut
      <3> QED BY <2>1, <2>3, <3>1, <1>t DEF SendPut
    <2> QED BY <2>2, <2>3, ClientRequest
  <1>4. IF At(p, "wait")'
        THEN /\ client'[p].tx \in Tx /\ put'[client'[p].tx] \in Put
             /\ put'[client'[p].tx].by = p
             /\ put'[client'[p].tx].version = client'[p].snap
        ELSE client'[p].tx = NoTx
    <2>c. client[p] \in Client /\ client[p].pc # "wait" => client[p].tx = NoTx
      BY <1>t, <1>w DEF WaitersServed, At
    <2>1. CASE \E t \in Tx : SendPut(p, t)
      <3>1. PICK t \in Tx : SendPut(p, t)
        BY <2>1
      <3>2. client'[p].pc = "wait" /\ client'[p].tx = t /\ client'[p].snap = client[p].snap
        BY <3>1, <1>t, <2>c DEF SendPut, Client
      <3>3. put'[t] \in Put /\ put'[t].by = p /\ put'[t].version = client[p].snap
        BY <3>1, <1>t, <2>c DEF SendPut, Put, Client, NoClock
      <3> QED BY <3>2, <3>3 DEF At
    <2>2. CASE Publish(p) \/ OpenPage(p)
      BY <2>2, <1>t DEF Publish, OpenPage, Started, Idle, At
    <2>3. CASE ReadIndex(p)
      BY <2>3, <1>t, <2>c DEF ReadIndex, At, Client
    <2>4. CASE PutOk(p)
      <3>1. \/ client'[p] = Idle
            \/ client'[p] = [Idle EXCEPT !.pc = "verify", !.snap = client[p].snap]
        BY <2>4, <1>t DEF PutOk, Ended
      <3>2. client'[p].pc # "wait" /\ client'[p].tx = NoTx
        BY <3>1, IdleType, IdleFields DEF Client
      <3> QED BY <3>2 DEF At
    <2>5. CASE PutConflict(p)
      <3>1. \/ client'[p] = Idle
            \/ client'[p] =
                 [Idle EXCEPT !.pc = "index", !.snap = client[p].snap, !.again = TRUE]
        BY <2>5, <1>t DEF PutConflict, Ended
      <3>2. client'[p].pc # "wait" /\ client'[p].tx = NoTx
        BY <3>1, IdleType, IdleFields DEF Client
      <3> QED BY <3>2 DEF At
    <2>6. CASE PutFailed(p) \/ Timeout(p) \/ ReadFails(p)
      BY <2>6, <1>t DEF PutFailed, Timeout, ReadFails, Ended, Idle, At
    <2>7. CASE Verify(p)
      BY <2>7, <1>t, <2>c DEF Verify, Ended, Goto, Idle, At, Client
    <2> QED
      BY <2>1, <2>2, <2>3, <2>4, <2>5, <2>6, <2>7 DEF ClientStep
  <1>5. WaitersServed'
    BY <1>2, <1>3, <1>4, <1>w DEF WaitersServed, At
  <1>6. RememberedIsStored'
    <2>1. CASE PutOk(p)
      <3>1. client[p].tx \in Tx /\ put[client[p].tx].by = p
            /\ put[client[p].tx].version = client[p].snap /\ put[client[p].tx].pc = "ok"
        BY <2>1, <1>w DEF PutOk, Answer, WaitersServed
      <3>2. <<p[1], client[p].snap>> \in Stored
        BY <3>1 DEF IInv, ServerInv, AnswersStored
      <3>3. published \in [Device -> Version \union {0}]
        BY DEF IInv, TypeOK
      <3> QED
        BY <2>1, <3>2, <3>3, <1>1 DEF PutOk, IInv, ClientInv, RememberedIsStored
    <2>2. CASE UNCHANGED published
      BY <2>2, <1>1 DEF IInv, ClientInv, RememberedIsStored
    <2> QED
      BY <2>1, <2>2 DEF ClientStep, Publish, OpenPage, ReadIndex, SendPut, PutConflict,
           PutFailed, Verify, Timeout, ReadFails, memory
  <1> QED
    BY <1>5, <1>6 DEF ClientInv

\* A step of the server takes one request further or drops it.
LEMMA ServeRequest ==
    ASSUME IInv, NEW t \in Tx, Serve(t) \/ EscrowUnavailable(t)
    PROVE  /\ put[t] \in Put /\ put[t].pc \in {"sent", "checked", "locked"}
           /\ \A u \in Tx : u # t => put'[u] = put[u]
           /\ \/ /\ put'[t] \in Put
                 /\ put'[t].by = put[t].by /\ put'[t].version = put[t].version
                 /\ put'[t].expected = put[t].expected
              \/ put'[t] = NoPut /\ \A p \in Publisher : client[p].tx # t
           /\ put'[t].pc = "ok" => WriteManifest(t)
           /\ put'[t].pc = "locked" => LockManifest(t)
  <1>1. put[t].pc \in {"sent", "checked", "locked"}
    BY DEF Serve, CheckDevice, LockManifest, ManifestConflict, WriteManifest,
           EscrowUnavailable, Current
  <1>2. put[t] \in Put /\ put \in [Tx -> Put \union {NoPut}]
    BY <1>1, PutType DEF IInv, TypeOK
  <1>3. ASSUME NEW pc \in {"ok", "conflict", "failed"}, Reply(t, pc)
        PROVE  /\ \A u \in Tx : u # t => put'[u] = put[u]
               /\ \/ /\ put'[t] \in Put
                     /\ put'[t].by = put[t].by /\ put'[t].version = put[t].version
                     /\ put'[t].expected = put[t].expected
                     /\ put'[t].pc = pc
                  \/ put'[t] = NoPut /\ \A p \in Publisher : client[p].tx # t
    <2>1. \/ put' = [put EXCEPT ![t] = [put[t] EXCEPT !.pc = pc]]
          \/ put' = [put EXCEPT ![t] = NoPut] /\ \A p \in Publisher : client[p].tx # t
      BY <1>3 DEF Reply
    <2> QED
      BY <2>1, <1>2 DEF Put
  <1>4. CASE CheckDevice(t)
    <2>1. CASE Reply(t, "failed")
      BY <2>1, <1>1, <1>2, <1>3 DEF NoPut
    <2>2. CASE put' = [put EXCEPT ![t].pc = "checked"]
      BY <2>2, <1>1, <1>2 DEF Put
    <2> QED BY <1>4, <2>1, <2>2 DEF CheckDevice
  <1>5. CASE LockManifest(t)
    <2>1. put'[t] = [put[t] EXCEPT !.pc = "locked", !.seq = vault.seq, !.clock = vault.clock]
      BY <1>5, <1>2 DEF LockManifest
    <2>2. put'[t] \in Put /\ put'[t].by = put[t].by /\ put'[t].version = put[t].version
          /\ put'[t].expected = put[t].expected
          /\ put'[t].pc = "locked"
      BY <2>1, <1>2 DEF Put, IInv, TypeOK, Vault
    <2> QED BY <2>2, <1>5, <1>1, <1>2 DEF LockManifest
  <1>6. CASE ManifestConflict(t)
    BY <1>6, <1>1, <1>2, <1>3 DEF ManifestConflict, NoPut
  <1>7. CASE EscrowUnavailable(t)
    BY <1>7, <1>1, <1>2, <1>3 DEF EscrowUnavailable, NoPut
  <1>8. CASE WriteManifest(t)
    BY <1>8, <1>1, <1>2, <1>3 DEF WriteManifest, NoPut
  <1> QED
    BY <1>4, <1>5, <1>6, <1>7, <1>8 DEF Serve

\* What a write of the manifest does to the vault.
LEMMA WriteAdds ==
    ASSUME TypeOK, NEW t \in Tx, put[t] \in Put, WriteManifest(t)
    PROVE  /\ vault'.seq = put[t].seq + 1 /\ vault'.root = Stored'
           /\ vault'.clock = [put[t].clock EXCEPT ![put[t].by[1]] = @ + 1]
           /\ <<put[t].by[1], put[t].version>> \in Snapshot
           /\ \A s \in Snapshot :
                 vault'.id[s] = IF s = <<put[t].by[1], put[t].version>> /\ vault.id[s] = 0
                                THEN put[t].seq + 1 ELSE vault.id[s]
           /\ Stored' = Stored \union {<<put[t].by[1], put[t].version>>}
  <1> DEFINE s == <<put[t].by[1], put[t].version>>
  <1>1. s \in Snapshot /\ put[t].seq \in Nat
    BY PublisherParts DEF Put, Snapshot
  <1>2. vault.id \in [Snapshot -> Nat]
    BY DEF TypeOK, Vault
  <1>3. vault' = [seq |-> put[t].seq + 1,
                 clock |-> [put[t].clock EXCEPT ![put[t].by[1]] = @ + 1],
                 root |-> {x \in Snapshot : Record(t)[x] # 0},
                 id |-> Record(t)]
    BY DEF WriteManifest
  <1>4. \A x \in Snapshot :
          Record(t)[x] = IF x = s /\ vault.id[x] = 0 THEN put[t].seq + 1 ELSE vault.id[x]
    BY <1>1, <1>2 DEF Record, Entry, Stored
  <1>5. Stored' = {x \in Snapshot : Record(t)[x] # 0}
    BY <1>3 DEF Stored
  <1>6. Stored' = Stored \union {s}
    BY <1>1, <1>4, <1>5 DEF Stored
  <1> QED
    BY <1>1, <1>3, <1>4, <1>5, <1>6

LEMMA ServeKeeps ==
    ASSUME IInv, NEW t \in Tx, Serve(t) \/ EscrowUnavailable(t)
    PROVE  ServerInv' /\ ClientInv'
  <1>t. TypeOK /\ put \in [Tx -> Put \union {NoPut}] /\ vault \in Vault
    BY DEF IInv, TypeOK
  <1>r. put[t] \in Put /\ \A u \in Tx : u # t => put'[u] = put[u]
    BY ServeRequest
  <1>c. UNCHANGED <<client, published>>
    BY DEF Serve, CheckDevice, LockManifest, ManifestConflict, WriteManifest,
           EscrowUnavailable, memory
  <1>q. WaitersServed'
    <2> SUFFICES ASSUME NEW p \in Publisher, At(p, "wait")
                 PROVE  /\ put'[client[p].tx] \in Put /\ put'[client[p].tx].by = p
                        /\ put'[client[p].tx].version = client[p].snap
      BY <1>c DEF IInv, ClientInv, WaitersServed, At
    <2>1. /\ client[p].tx \in Tx /\ put[client[p].tx] \in Put
          /\ put[client[p].tx].by = p /\ put[client[p].tx].version = client[p].snap
      BY DEF IInv, ClientInv, WaitersServed
    <2> QED
      BY <2>1, ServeRequest
  <1>w. CASE WriteManifest(t)
    <2>1. lock = t /\ put[t].seq = vault.seq /\ put[t].clock = vault.clock
      BY <1>w DEF WriteManifest, Current, IInv, ServerInv, LockHolds
    <2>2. \A u \in Tx : put'[u].pc # "locked"
      <3>1. put'[t].pc # "locked"
        BY <1>w, <1>t, <1>r, ServeRequest DEF WriteManifest, Current, LockManifest
      <3>2. \A u \in Tx : u # t => put[u].pc # "locked"
        BY <2>1 DEF IInv, ServerInv, LockHolds
      <3> QED BY <3>1, <3>2, <1>r
    <2>3. LockHolds'
      BY <2>2 DEF LockHolds
    <2>4. Stored \subseteq Stored' /\ <<put[t].by[1], put[t].version>> \in Stored'
      BY <1>w, <1>t, <1>r, WriteAdds
    <2>5. AnswersStored'
      <3>1. ASSUME NEW u \in Tx, put'[u].pc = "ok"
            PROVE  <<put'[u].by[1], put'[u].version>> \in Stored'
        <4>1. CASE u = t
          BY <4>1, <3>1, <2>4, ServeRequest DEF NoPut
        <4>2. CASE u # t
          BY <4>2, <3>1, <1>r, <2>4 DEF IInv, ServerInv, AnswersStored
        <4> QED BY <4>1, <4>2
      <3> QED BY <3>1 DEF AnswersStored
    <2>6. VaultConsistent'
      <3>1. vault'.root = Stored'
        BY <1>w, <1>t, <1>r, WriteAdds
      <3>2. ASSUME NEW d \in Device
            PROVE  vault'.clock[d] > 0 <=> \E v \in Version : <<d, v>> \in Stored'
        <4>1. put[t].by[1] \in Device /\ put[t].version \in Version
              /\ vault.clock \in [Device -> Nat]
          BY <1>r, <1>t, PublisherParts DEF Put, Vault
        <4>2. vault'.clock = [vault.clock EXCEPT ![put[t].by[1]] = @ + 1]
              /\ Stored' = Stored \union {<<put[t].by[1], put[t].version>>}
          BY <1>w, <1>t, <1>r, <2>1, WriteAdds
        <4>3. CASE d = put[t].by[1]
          BY <4>1, <4>2, <4>3
        <4>4. CASE d # put[t].by[1]
          BY <4>1, <4>2, <4>4 DEF IInv, ServerInv, VaultConsistent
        <4> QED BY <4>3, <4>4
      <3> QED BY <3>1, <3>2 DEF VaultConsistent
    <2>7. RememberedIsStored'
      BY <1>c, <2>4 DEF IInv, ClientInv, RememberedIsStored
    <2> QED
      BY <2>3, <2>5, <2>6, <2>7, <1>q DEF ServerInv, ClientInv
  <1>n. CASE UNCHANGED vault
    <2>1. Stored' = Stored
      BY <1>n DEF Stored
    <2>2. LockHolds'
      <3>1. CASE LockManifest(t)
        <4>1. \A u \in Tx : put[u].pc # "locked"
          BY <3>1, VaultAssumption DEF LockManifest, IInv, ServerInv, LockHolds
        <4>2. put'[t] = [put[t] EXCEPT !.pc = "locked", !.seq = vault.seq, !.clock = vault.clock]
              /\ lock' = t
          BY <3>1, <1>t DEF LockManifest
        <4>3. put'[t].seq = vault.seq /\ put'[t].clock = vault.clock
          BY <4>2, <1>r DEF Put
        <4> QED BY <4>1, <4>2, <4>3, <1>r, <1>n DEF LockHolds
      <3>2. CASE CheckDevice(t)
        <4>1. put'[t].pc # "locked" /\ lock' = lock
          BY <3>2, ServeRequest DEF CheckDevice, LockManifest, server
        <4> QED BY <4>1, <1>r, <1>n DEF IInv, ServerInv, LockHolds
      <3>3. CASE ManifestConflict(t) \/ EscrowUnavailable(t) \/ WriteManifest(t)
        <4>1. lock = t /\ put'[t].pc # "locked"
          BY <3>3, ServeRequest DEF ManifestConflict, EscrowUnavailable, WriteManifest, Current,
                   LockManifest, IInv, ServerInv, LockHolds
        <4> QED BY <4>1, <1>r DEF IInv, ServerInv, LockHolds
      <3> QED BY <3>1, <3>2, <3>3 DEF Serve
    <2>3. AnswersStored'
      <3>1. CASE put'[t].pc = "ok"
        BY <3>1, <1>w, ServeRequest DEF ServerInv
      <3>2. CASE put'[t].pc # "ok"
        BY <3>2, <2>1, <1>r DEF IInv, ServerInv, AnswersStored
      <3> QED BY <3>1, <3>2
    <2>4. VaultConsistent' /\ RememberedIsStored'
      BY <2>1, <1>n, <1>c DEF IInv, ServerInv, ClientInv, VaultConsistent, RememberedIsStored
    <2> QED
      BY <2>2, <2>3, <2>4, <1>q DEF ServerInv, ClientInv
  <1>z. WriteManifest(t) \/ UNCHANGED vault
    BY DEF Serve, CheckDevice, LockManifest, ManifestConflict, EscrowUnavailable, server
  <1> QED
    BY <1>w, <1>n, <1>z

LEMMA OtherKeeps ==
    ASSUME IInv, NEW d \in Device,
           ChangeKeys(d) \/ Restart(d) \/ Revoke(d)
    PROVE  ServerInv' /\ ClientInv'
  <1>t. put \in [Tx -> Put \union {NoPut}] /\ client \in [Publisher -> Client]
    BY DEF IInv, TypeOK
  <1>1. vault' = vault /\ lock' = lock /\ Stored' = Stored
    BY DEF ChangeKeys, Restart, Revoke, server, Stored
  <1>2. CASE Restart(d)
    <2>1. \A t \in Tx :
            \/ put'[t] = put[t]
            \/ put'[t] = NoPut /\ put[t].pc \in {"ok", "conflict", "failed"} /\ put[t].by[1] = d
      BY <1>2, <1>t DEF Restart
    <2>2. LockHolds' /\ AnswersStored'
      BY <1>1, <2>1 DEF IInv, ServerInv, LockHolds, AnswersStored, NoPut
    <2>3. VaultConsistent'
      BY <1>1 DEF IInv, ServerInv, VaultConsistent
    <2>4. WaitersServed'
      <3> SUFFICES ASSUME NEW p \in Publisher
                   PROVE  IF At(p, "wait")'
                          THEN /\ client'[p].tx \in Tx /\ put'[client'[p].tx] \in Put
                               /\ put'[client'[p].tx].by = p
                               /\ put'[client'[p].tx].version = client'[p].snap
                          ELSE client'[p].tx = NoTx
        BY DEF WaitersServed
      <3>1. CASE p[1] = d
        <4>1. client'[p] = Idle
          BY <1>2, <3>1 DEF Restart
        <4> QED BY <4>1, IdleFields DEF At
      <3>2. CASE p[1] # d
        <4>1. client'[p] = client[p]
          BY <1>2, <3>2 DEF Restart
        <4>2. At(p, "wait") => put'[client[p].tx] = put[client[p].tx]
          BY <2>1, <3>2 DEF IInv, ClientInv, WaitersServed
        <4> QED BY <4>1, <4>2 DEF IInv, ClientInv, WaitersServed, At
      <3> QED BY <3>1, <3>2
    <2>5. RememberedIsStored'
      BY <1>1, <1>2 DEF Restart, IInv, TypeOK, ClientInv, RememberedIsStored
    <2> QED BY <2>2, <2>3, <2>4, <2>5 DEF ServerInv, ClientInv
  <1>3. CASE ~Restart(d)
    <2>1. UNCHANGED <<client, put, published>>
      BY <1>3 DEF ChangeKeys, Revoke, memory
    <2>2. ServerInv'
      BY <1>1, <2>1 DEF IInv, ServerInv, LockHolds, AnswersStored, VaultConsistent
    <2>3. ClientInv'
      BY <1>1, <2>1 DEF IInv, ClientInv, WaitersServed, RememberedIsStored, At
    <2> QED BY <2>2, <2>3
  <1> QED
    BY <1>2, <1>3

LEMMA InvNext == ASSUME IInv, [Next]_vars PROVE IInv'
  <1>1. TypeOK'
    BY TypeNext DEF IInv
  <1>2. ServerInv' /\ ClientInv'
    <2>1. ASSUME NEW p \in Publisher,
                 ClientStep(p) \/ OpenPage(p) \/ Timeout(p) \/ ReadFails(p)
          PROVE  ServerInv' /\ ClientInv'
      BY <2>1, ClientKeepsServer, ClientKeepsClients
    <2>2. ASSUME NEW d \in Device, ChangeKeys(d) \/ Restart(d) \/ Revoke(d)
          PROVE  ServerInv' /\ ClientInv'
      BY <2>2, OtherKeeps
    <2>3. CASE ReadManifest \/ ReadRecords \/ UNCHANGED vars
      <3>1. vault' = vault /\ lock' = lock /\ UNCHANGED <<client, put, published>>
        BY <2>3 DEF ReadManifest, ReadRecords, vars, memory, server
      <3>2. Stored' = Stored
        BY <3>1 DEF Stored
      <3>3. ServerInv'
        BY <3>1, <3>2 DEF IInv, ServerInv, LockHolds, AnswersStored, VaultConsistent
      <3>4. ClientInv'
        BY <3>1, <3>2 DEF IInv, ClientInv, WaitersServed, RememberedIsStored, At
      <3> QED BY <3>3, <3>4
    <2> QED
      BY <2>1, <2>2, <2>3, ServeKeeps DEF Next
  <1> QED
    BY <1>1, <1>2 DEF IInv

LEMMA Invariant == Spec => []IInv
  <1>1. Init => IInv
    BY InvInit
  <1>2. IInv /\ [Next]_vars => IInv'
    BY InvNext
  <1> QED
    BY <1>1, <1>2, PTL DEF Spec

\* The vault is type correct, for any number of devices and faults.
THEOREM TypeCorrect == Spec => []TypeOK
  <1>1. IInv => TypeOK
    BY DEF IInv
  <1> QED
    BY <1>1, Invariant, PTL

\* The root covers the stored records and the clocks name their devices, for
\* any interleaving of the PUT transactions (recovery.py:264-326).
THEOREM Consistent == Spec => []VaultConsistent
  <1>1. IInv => VaultConsistent
    BY DEF IInv, ServerInv
  <1> QED
    BY <1>1, Invariant, PTL

\* What a device skips as already published is stored, whatever was lost,
\* repeated or restarted (enterprise_recovery_sync_service.dart:74).
THEOREM Remembered == Spec => []RememberedIsStored
  <1>1. IInv => RememberedIsStored
    BY DEF IInv, ClientInv
  <1> QED
    BY <1>1, Invariant, PTL

-----------------------------------------------------------------------------
(* The order of the records of one publisher: none is newer than what the   *)
(* publisher works on, and a request that can still be written is as new   *)
(* as every record of its publisher.                                       *)

Busy(p) == client[p].pc \in {"index", "put", "wait", "verify"}
Top(p) == IF Busy(p) THEN client[p].snap ELSE version[p[1]]
Pending == {t \in Tx : put[t].pc \in {"sent", "checked", "locked"}}

IdsBelow == \A s \in Snapshot : vault.id[s] <= vault.seq

AuthoredStored ==
    \A p \in Publisher : \A v \in Version : <<p, v>> \in authored => <<p[1], v>> \in Stored

BoundedBy(p) ==
    /\ Top(p) <= version[p[1]]
    /\ At(p, "put") => client[p].seq <= vault.seq
    /\ \A t \in Pending : put[t].by = p => put[t].version <= Top(p)
    /\ \A v \in Version : <<p, v>> \in authored => v <= Top(p)

Fresh(t) ==
    /\ put[t].expected <= vault.seq
    /\ put[t].expected = vault.seq =>
          \A v \in Version : <<put[t].by, v>> \in authored => v <= put[t].version

AllBounded == \A p \in Publisher : BoundedBy(p)
AllFresh == \A t \in Pending : Fresh(t)
OrderInv == IdsBelow /\ AuthoredStored /\ AllBounded /\ AllFresh /\ RecordsInOrder

LEMMA OrderInit == Init => OrderInv
  <1> SUFFICES ASSUME Init PROVE OrderInv
    OBVIOUS
  <1>1. Stored = {} /\ Pending = {}
    BY DEF Init, Stored, Pending, NoPut
  <1>2. IdsBelow /\ AuthoredStored /\ RecordsInOrder /\ AllFresh
    BY <1>1 DEF Init, IdsBelow, AuthoredStored, RecordsInOrder, AllFresh
  <1>3. ASSUME NEW p \in Publisher PROVE BoundedBy(p)
    BY <1>1, PublisherParts DEF Init, BoundedBy, Top, Busy, At, Idle
  <1> QED
    BY <1>2, <1>3 DEF OrderInv, AllBounded

\* The version numbers that the invariant compares are integers.
LEMMA TopType == ASSUME TypeOK, NEW p \in Publisher
                 PROVE  Top(p) \in Version /\ version[p[1]] \in Version /\ client[p] \in Client
  BY PublisherParts DEF TypeOK, Top, Client

LEMMA PendingType == ASSUME TypeOK, NEW t \in Pending
                     PROVE  put[t] \in Put /\ put[t].by[1] \in Device /\ put[t].by \in Publisher
  BY PutType, PublisherParts DEF Pending, Put

LEMMA ClientOrder ==
    ASSUME IInv, OrderInv, NEW p \in Publisher,
           ClientStep(p) \/ OpenPage(p) \/ Timeout(p) \/ ReadFails(p)
    PROVE  OrderInv'
  <1>t. TypeOK /\ client \in [Publisher -> Client] /\ put \in [Tx -> Put \union {NoPut}]
    BY DEF IInv, TypeOK
  <1>c. client[p] \in Client /\ client[p].snap \in Version
    BY <1>t, PublisherParts DEF Client
  <1>o. AllBounded /\ AllFresh /\ BoundedBy(p)
    BY DEF OrderInv, AllBounded
  <1>s. UNCHANGED <<vault, authored, version, revoked>> /\ Stored' = Stored
    BY DEF ClientStep, Publish, OpenPage, ReadIndex, SendPut, PutOk, PutConflict,
           PutFailed, Verify, Timeout, ReadFails, server, Stored
  <1>1. \A q \in Publisher : q # p => client'[q] = client[q]
    BY <1>t DEF ClientStep, Publish, OpenPage, ReadIndex, SendPut, PutOk, PutConflict,
           PutFailed, Verify, Timeout, ReadFails, Started, Ended, Goto
  <1>3. \A t \in Pending' : (t \in Pending /\ put'[t] = put[t]) \/ SendPut(p, t)
    <2>1. ASSUME At(p, "wait"), Taken(p), NEW t \in Pending'
          PROVE  t \in Pending /\ put'[t] = put[t]
      BY <2>1, <1>t DEF Taken, Pending, NoPut
    <2>2. ASSUME NEW u \in Tx, SendPut(p, u), NEW t \in Pending'
          PROVE  (t \in Pending /\ put'[t] = put[t]) \/ SendPut(p, t)
      BY <2>2, <1>t DEF SendPut, Pending
    <2> QED
      BY <2>1, <2>2, ClientRequest DEF Pending
  \* What the publisher works on stays or becomes the present version.
  <1>4. \/ Busy(p)' /\ Busy(p) /\ client'[p].snap = client[p].snap
        \/ Busy(p)' /\ ~Busy(p) /\ client'[p].snap = version[p[1]]
        \/ Busy(p)' /\ Busy(p) /\ client'[p].snap = version[p[1]]
        \/ ~Busy(p)'
    <2>1. CASE Publish(p) \/ OpenPage(p)
      <3>1. client'[p].snap = version[p[1]] /\ ~Busy(p)
        BY <2>1, <1>t DEF Publish, OpenPage, Started, Idle, At, Busy
      <3> QED BY <3>1
    <2>2. CASE ReadIndex(p)
      BY <2>2, <1>t, <1>c DEF ReadIndex, At, Busy, Client
    <2>3. CASE \E t \in Tx : SendPut(p, t)
      BY <2>3, <1>t, <1>c DEF SendPut, At, Busy, Client
    <2>4. CASE PutOk(p) \/ PutConflict(p)
      <3>1. \/ client'[p] = Idle
            \/ client'[p] = [Idle EXCEPT !.pc = "verify", !.snap = client[p].snap]
            \/ client'[p] = [Idle EXCEPT !.pc = "index", !.snap = client[p].snap, !.again = TRUE]
        BY <2>4, <1>t DEF PutOk, PutConflict, Ended
      <3>2. Busy(p)
        BY <2>4 DEF PutOk, PutConflict, Answer, At, Busy
      <3>3. client'[p].pc = "idle" \/ client'[p].snap = client[p].snap
        BY <3>1, IdleType, IdleFields DEF Client
      <3> QED BY <3>2, <3>3 DEF Busy
    <2>5. CASE PutFailed(p) \/ Timeout(p) \/ ReadFails(p)
      <3>1. client'[p] = Idle
        BY <2>5, <1>t DEF PutFailed, Timeout, ReadFails, Ended
      <3> QED BY <3>1, IdleFields DEF Busy
    <2>6. CASE Verify(p)
      <3>1. client'[p] = Idle \/ client'[p] = [client[p] EXCEPT !.pc = "missing"]
        BY <2>6, <1>t DEF Verify, Ended, Goto
      <3>2. client'[p].pc \in {"idle", "missing"}
        BY <3>1, <1>c, IdleFields DEF Client
      <3> QED BY <3>2 DEF Busy
    <2> QED
      BY <2>1, <2>2, <2>3, <2>4, <2>5, <2>6 DEF ClientStep
  <1>5. Top(p)' \in {Top(p), version[p[1]]} /\ Top(p) <= Top(p)' /\ Top(p)' <= version[p[1]]
    BY <1>4, <1>s, <1>o, <1>t, TopType DEF Top, BoundedBy, Version
  <1>6. At(p, "put")' => client'[p].seq <= vault.seq
    <2>1. CASE ReadIndex(p)
      BY <2>1, <1>t, <1>c DEF ReadIndex, Client, TypeOK, Vault
    <2>2. CASE ~ReadIndex(p)
      <3>1. client'[p].pc # "put"
        <4>1. CASE Publish(p) \/ OpenPage(p)
          <5>1. \E pc \in {"verify", "index"} : Started(p, pc)
            BY <4>1 DEF Publish, OpenPage
          <5>2. PICK pc \in {"verify", "index"} :
                  client'[p] = [Idle EXCEPT !.pc = pc, !.snap = version[p[1]]]
            BY <5>1, <1>t DEF Started
          <5> QED BY <5>2 DEF Idle
        <4>2. CASE \E t \in Tx : SendPut(p, t)
          BY <4>2, <1>t, <1>c DEF SendPut, Client
        <4>3. CASE PutOk(p) \/ PutConflict(p)
          <5>1. \/ client'[p] = Idle
                \/ client'[p] = [Idle EXCEPT !.pc = "verify", !.snap = client[p].snap]
                \/ client'[p] =
                     [Idle EXCEPT !.pc = "index", !.snap = client[p].snap, !.again = TRUE]
            BY <4>3, <1>t DEF PutOk, PutConflict, Ended
          <5> QED BY <5>1, IdleType, IdleFields DEF Client
        <4>4. CASE PutFailed(p) \/ Timeout(p) \/ ReadFails(p)
          BY <4>4, <1>t, IdleFields DEF PutFailed, Timeout, ReadFails, Ended
        <4>5. CASE Verify(p)
          BY <4>5, <1>t, <1>c, IdleFields DEF Verify, Ended, Goto, Client
        <4> QED BY <2>2, <4>1, <4>2, <4>3, <4>4, <4>5 DEF ClientStep
      <3> QED BY <3>1 DEF At
    <2> QED BY <2>1, <2>2
  <1>7. ASSUME NEW t \in Tx, SendPut(p, t)
        PROVE  /\ put'[t].by = p /\ put'[t].version = client[p].snap
               /\ put'[t].expected = client[p].seq /\ client[p].snap = Top(p) /\ Top(p)' = Top(p)
    <2>1. put'[t].by = p /\ put'[t].version = client[p].snap /\ put'[t].expected = client[p].seq
      BY <1>7, <1>t DEF SendPut
    <2>2. At(p, "put") /\ client'[p].pc = "wait" /\ client'[p].snap = client[p].snap
      BY <1>7, <1>t, <1>c DEF SendPut, Client
    <2> QED BY <2>1, <2>2 DEF Top, Busy, At
  <1>8. AllBounded'
    <2> SUFFICES ASSUME NEW q \in Publisher PROVE BoundedBy(q)'
      BY DEF AllBounded
    <2>1. CASE q = p
      <3>1. ASSUME NEW t \in Pending', put'[t].by = p
            PROVE  put'[t].version <= Top(p)'
        <4>1. CASE t \in Pending /\ put'[t] = put[t]
          <5>1. put[t].version <= Top(p) /\ put[t].version \in Version
            BY <3>1, <4>1, <1>o, <1>t, PendingType DEF BoundedBy, Put
          <5> QED BY <5>1, <4>1, <1>5, <1>t, <1>s, TopType DEF Version
        <4>2. CASE SendPut(p, t)
          BY <4>2, <1>7, <1>t, TopType DEF Version, Pending
        <4> QED BY <4>1, <4>2, <1>3
      <3>2. ASSUME NEW v \in Version, <<p, v>> \in authored'
            PROVE  v <= Top(p)'
        BY <3>2, <1>s, <1>o, <1>5, <1>t, TopType DEF BoundedBy, Version
      <3> QED BY <2>1, <3>1, <3>2, <1>5, <1>6, <1>s DEF BoundedBy
    <2>2. CASE q # p
      <3>1. Top(q)' = Top(q) /\ BoundedBy(q)
        BY <2>2, <1>1, <1>s, <1>o DEF Top, Busy, AllBounded
      <3>2. \A t \in Pending' : put'[t].by = q => t \in Pending /\ put'[t] = put[t]
        BY <2>2, <1>3, <1>7 DEF Pending
      <3>3. At(q, "put")' = At(q, "put")
        BY <2>2, <1>1 DEF At
      <3> QED BY <2>2, <3>1, <3>2, <3>3, <1>1, <1>s DEF BoundedBy
    <2> QED BY <2>1, <2>2
  <1>9. AllFresh'
    <2> SUFFICES ASSUME NEW t \in Pending' PROVE Fresh(t)'
      BY DEF AllFresh
    <2>1. CASE t \in Pending /\ put'[t] = put[t]
      BY <2>1, <1>o, <1>s DEF AllFresh, Fresh
    <2>2. CASE SendPut(p, t)
      <3>1. client[p].seq <= vault.seq
        BY <2>2, <1>o DEF BoundedBy, SendPut
      <3>2. \A v \in Version : <<p, v>> \in authored => v <= client[p].snap
        BY <2>2, <1>7, <1>o DEF BoundedBy, Pending
      <3> QED BY <2>2, <3>1, <3>2, <1>7, <1>s DEF Fresh, Pending
    <2> QED BY <2>1, <2>2, <1>3
  <1> QED
    BY <1>8, <1>9, <1>s DEF OrderInv, IdsBelow, AuthoredStored, RecordsInOrder

LEMMA ServeOrder ==
    ASSUME IInv, OrderInv, NEW t \in Tx, Serve(t) \/ EscrowUnavailable(t)
    PROVE  OrderInv'
  <1>t. TypeOK /\ vault \in Vault /\ vault.id \in [Snapshot -> Nat] /\ vault.seq \in Nat
    BY DEF IInv, TypeOK, Vault
  <1>o. IdsBelow /\ AuthoredStored /\ AllBounded /\ AllFresh /\ RecordsInOrder
    BY DEF OrderInv
  <1>p. t \in Pending /\ put[t] \in Put /\ put[t].by[1] \in Device /\ put[t].by \in Publisher
        /\ put[t].version \in Version /\ put[t].expected \in Nat /\ put[t].seq \in Nat
    BY ServeRequest, PublisherParts DEF Pending, Put
  <1>c. UNCHANGED <<client, version>>
    BY DEF Serve, CheckDevice, LockManifest, ManifestConflict, WriteManifest, EscrowUnavailable
  <1>1. \A u \in Pending' :
          /\ u \in Pending /\ put'[u].by = put[u].by
          /\ put'[u].version = put[u].version /\ put'[u].expected = put[u].expected
    BY <1>p, ServeRequest DEF Pending, NoPut
  <1>2. \A p \in Publisher : Top(p)' = Top(p) /\ (At(p, "put")' <=> At(p, "put"))
    BY <1>c DEF Top, Busy, At
  <1>w. CASE WriteManifest(t)
    <2> DEFINE d == put[t].by[1]
               n == put[t].version
               p0 == put[t].by
    <2>1. put[t].seq = vault.seq /\ put[t].expected = vault.seq
      BY <1>w DEF WriteManifest, Current, IInv, ServerInv, LockHolds
    <2>2. /\ vault'.seq = vault.seq + 1
          /\ \A s \in Snapshot :
                vault'.id[s] = IF s = <<d, n>> /\ vault.id[s] = 0 THEN vault.seq + 1 ELSE vault.id[s]
          /\ Stored' = Stored \union {<<d, n>>}
      BY <1>w, <1>t, <1>p, <2>1, WriteAdds
    <2>a. /\ \A p \in Publisher, v \in Version :
                <<p, v>> \in authored' =>
                    <<p, v>> \in authored \/ (p = p0 /\ v = n /\ <<d, n>> \notin Stored)
          /\ authored \subseteq authored'
      BY <1>w DEF WriteManifest, Entry
    <2>b. AuthoredStored'
      BY <2>a, <2>2, <1>o DEF AuthoredStored
    <2>3. \A v \in Version : <<p0, v>> \in authored => v <= n
      BY <2>1, <1>o, <1>p DEF AllFresh, Fresh
    <2>4. IdsBelow'
      BY <2>2, <1>t, <1>o DEF IdsBelow
    <2>5. AllBounded'
      <3> SUFFICES ASSUME NEW p \in Publisher PROVE BoundedBy(p)'
        BY DEF AllBounded
      <3>1. BoundedBy(p)
        BY <1>o DEF AllBounded
      <3>2. ASSUME NEW v \in Version, <<p, v>> \in authored'
            PROVE  v <= Top(p)
        BY <3>2, <2>a, <3>1, <1>p DEF BoundedBy
      <3>3. \A u \in Pending' : put'[u].by = p => put'[u].version <= Top(p)
        BY <1>1, <3>1 DEF BoundedBy
      <3>4. At(p, "put") => client[p].seq <= vault.seq + 1
        BY <3>1, <1>t, TopType DEF BoundedBy, Client
      <3> QED
        BY <3>1, <3>2, <3>3, <3>4, <1>2, <1>c, <2>2 DEF BoundedBy
    <2>6. AllFresh'
      <3> SUFFICES ASSUME NEW u \in Pending' PROVE Fresh(u)'
        BY DEF AllFresh
      <3>1. u \in Pending /\ put'[u].expected = put[u].expected /\ put[u].expected <= vault.seq
        BY <1>1, <1>o DEF AllFresh, Fresh
      <3>2. put[u].expected \in Nat
        BY <3>1, <1>t, PendingType DEF Put
      <3> QED
        BY <3>1, <3>2, <2>2, <1>t DEF Fresh
    <2>7. RecordsInOrder'
      <3> SUFFICES ASSUME NEW p \in Publisher, NEW v \in Version, NEW x \in Version,
                          v < x, <<p, v>> \in authored', <<p, x>> \in authored'
                   PROVE  vault'.id[<<p[1], v>>] < vault'.id[<<p[1], x>>]
        BY DEF RecordsInOrder
      <3>1. <<p[1], v>> \in Snapshot /\ <<p[1], x>> \in Snapshot /\ v # x
        BY PublisherParts, VaultAssumption DEF Snapshot, Version
      <3>2. CASE <<p, v>> \in authored /\ <<p, x>> \in authored
        <4>1. vault.id[<<p[1], v>>] # 0 /\ vault.id[<<p[1], x>>] # 0
          BY <3>2, <1>o DEF AuthoredStored, Stored
        <4>2. vault.id[<<p[1], v>>] < vault.id[<<p[1], x>>]
          BY <3>2, <1>o DEF RecordsInOrder
        <4> QED BY <4>1, <4>2, <3>1, <2>2
      <3>3. CASE <<p, v>> \in authored /\ <<p, x>> \notin authored
        <4>1. p = p0 /\ x = n /\ vault.id[<<d, n>>] = 0 /\ vault.id[<<p[1], v>>] # 0
          BY <3>3, <3>1, <2>a, <1>o DEF AuthoredStored, Stored
        <4>2. vault.id[<<p[1], v>>] <= vault.seq
          BY <3>1, <1>o DEF IdsBelow
        <4>3. vault'.id[<<p[1], v>>] = vault.id[<<p[1], v>>]
          BY <4>1, <3>1, <2>2
        <4>4. vault'.id[<<p[1], x>>] = vault.seq + 1
          BY <4>1, <3>1, <2>2
        <4> QED BY <4>2, <4>3, <4>4, <3>1, <1>t
      <3>4. CASE <<p, v>> \notin authored
        <4>1. p = p0 /\ v = n /\ <<p0, x>> \in authored
          BY <3>4, <3>1, <2>a
        <4>2. x <= v
          BY <4>1, <2>3
        <4>3. x \in Nat /\ v \in Nat
          BY VaultAssumption DEF Version
        <4> QED BY <4>2, <4>3
      <3> QED BY <3>2, <3>3, <3>4
    <2> QED BY <2>4, <2>5, <2>6, <2>7, <2>b DEF OrderInv
  <1>n. CASE UNCHANGED <<vault, authored>>
    <2>1. Stored' = Stored
      BY <1>n DEF Stored
    <2>2. IdsBelow' /\ AuthoredStored' /\ RecordsInOrder'
      BY <2>1, <1>n, <1>o DEF IdsBelow, AuthoredStored, RecordsInOrder
    <2>3. AllBounded'
      BY <2>1, <1>n, <1>o, <1>c, <1>1, <1>2 DEF AllBounded, BoundedBy
    <2>4. AllFresh'
      BY <2>1, <1>n, <1>o, <1>1 DEF AllFresh, Fresh
    <2> QED BY <2>2, <2>3, <2>4 DEF OrderInv
  <1> QED
    BY <1>w, <1>n DEF Serve, CheckDevice, LockManifest, ManifestConflict, EscrowUnavailable, server

LEMMA OtherOrder ==
    ASSUME IInv, OrderInv, NEW d \in Device, ChangeKeys(d) \/ Restart(d) \/ Revoke(d)
    PROVE  OrderInv'
  <1>t. TypeOK /\ put \in [Tx -> Put \union {NoPut}] /\ version \in [Device -> Version]
    BY DEF IInv, TypeOK
  <1>o. IdsBelow /\ AuthoredStored /\ AllBounded /\ AllFresh /\ RecordsInOrder
    BY DEF OrderInv
  <1>1. vault' = vault /\ authored' = authored /\ Stored' = Stored
    BY DEF ChangeKeys, Restart, Revoke, server, Stored
  <1>2. \A t \in Pending' : t \in Pending /\ put'[t] = put[t]
    BY <1>t DEF ChangeKeys, Restart, Revoke, Pending, NoPut
  <1>3. ASSUME NEW p \in Publisher
        PROVE  /\ Top(p)' \in Version /\ version'[p[1]] \in Version
               /\ Top(p) <= Top(p)' /\ Top(p)' <= version'[p[1]]
               /\ At(p, "put")' => At(p, "put") /\ client'[p] = client[p]
    <2>b. Top(p) <= version[p[1]] /\ Top(p) \in Version /\ version[p[1]] \in Version /\ p[1] \in Device
      BY <1>o, <1>t, TopType, PublisherParts DEF AllBounded, BoundedBy
    <2>1. CASE ChangeKeys(d)
      <3>1. client' = client /\ version'[p[1]] \in {version[p[1]], version[p[1]] + 1}
            /\ version'[p[1]] \in Version
        BY <2>1, <2>b, <1>t, VaultAssumption DEF ChangeKeys, Version
      <3> QED BY <3>1, <2>b DEF Top, Busy, At, Version
    <2>2. CASE Restart(d)
      <3>1. version' = version /\ client'[p] \in {client[p], Idle}
        BY <2>2 DEF Restart
      <3>2. client'[p] = client[p] \/ (~Busy(p)' /\ ~At(p, "put")')
        BY <3>1, IdleFields DEF Busy, At
      <3>3. Top(p)' \in {Top(p), version[p[1]]}
        <4>1. CASE client'[p] = client[p]
          BY <3>1, <4>1 DEF Top, Busy
        <4>2. CASE ~Busy(p)'
          BY <3>1, <4>2 DEF Top
        <4> QED BY <3>2, <4>1, <4>2
      <3>4. Top(p) <= Top(p)' /\ Top(p)' <= version[p[1]] /\ Top(p)' \in Version
        BY <3>3, <2>b DEF Version
      <3> QED BY <3>1, <3>2, <3>4, <2>b DEF At
    <2>3. CASE Revoke(d)
      <3>1. version' = version /\ client' = client
        BY <2>3 DEF Revoke
      <3> QED BY <3>1, <2>b DEF Top, Busy, At, Version
    <2> QED BY <2>1, <2>2, <2>3
  <1>4. AllBounded'
    <2> SUFFICES ASSUME NEW p \in Publisher PROVE BoundedBy(p)'
      BY DEF AllBounded
    <2>1. BoundedBy(p)
      BY <1>o DEF AllBounded
    <2>2. Top(p) \in Version /\ Top(p)' \in Version /\ Top(p) <= Top(p)'
      BY <1>3, <1>t, TopType
    <2>3. ASSUME NEW t \in Pending', put'[t].by = p
          PROVE  put'[t].version <= Top(p)'
      <3>1. put[t].version \in Version /\ put[t].version <= Top(p) /\ put'[t] = put[t]
        BY <2>3, <2>1, <1>2, <1>t, PendingType DEF BoundedBy, Put
      <3> QED BY <3>1, <2>2 DEF Version
    <2>4. ASSUME NEW v \in Version, <<p, v>> \in authored'
          PROVE  v <= Top(p)'
      BY <2>4, <2>1, <2>2, <1>1 DEF BoundedBy, Version
    <2> QED
      BY <2>1, <2>3, <2>4, <1>1, <1>3 DEF BoundedBy
  <1>5. AllFresh'
    BY <1>1, <1>2, <1>o DEF AllFresh, Fresh
  <1> QED
    BY <1>1, <1>4, <1>5, <1>o DEF OrderInv, IdsBelow, AuthoredStored, RecordsInOrder

\* The records of a publisher are in the order of its snapshots: the 412 drops
\* each of its PUTs that a newer one of its own has overtaken (recovery.py:272),
\* whatever is lost, delayed or restarted, and with any number of publishers.
THEOREM Ordered == Spec => []RecordsInOrder
  <1>1. Init => OrderInv
    BY OrderInit
  <1>2. IInv /\ OrderInv /\ [Next]_vars => OrderInv'
    <2> SUFFICES ASSUME IInv, OrderInv, [Next]_vars PROVE OrderInv'
      OBVIOUS
    <2>1. CASE ReadManifest \/ ReadRecords \/ UNCHANGED vars
      <3>1. UNCHANGED <<vault, authored, client, put, version>>
        BY <2>1 DEF ReadManifest, ReadRecords, vars, server
      <3>2. Stored' = Stored /\ Pending' = Pending
        BY <3>1 DEF Stored, Pending
      <3>3. IdsBelow' /\ AuthoredStored' /\ RecordsInOrder'
        BY <3>1, <3>2 DEF OrderInv, IdsBelow, AuthoredStored, RecordsInOrder
      <3>4. AllBounded'
        BY <3>1, <3>2 DEF OrderInv, AllBounded, BoundedBy, Top, Busy, At
      <3>5. AllFresh'
        BY <3>1, <3>2 DEF OrderInv, AllFresh, Fresh
      <3> QED BY <3>3, <3>4, <3>5 DEF OrderInv
    <2>2. ASSUME NEW p \in Publisher,
                 ClientStep(p) \/ OpenPage(p) \/ Timeout(p) \/ ReadFails(p)
          PROVE  OrderInv'
      BY <2>2, ClientOrder
    <2>3. ASSUME NEW t \in Tx, Serve(t) \/ EscrowUnavailable(t)
          PROVE  OrderInv'
      BY <2>3, ServeOrder
    <2>4. ASSUME NEW d \in Device, ChangeKeys(d) \/ Restart(d) \/ Revoke(d)
          PROVE  OrderInv'
      BY <2>4, OtherOrder
    <2> QED
      BY <2>1, <2>2, <2>3, <2>4 DEF Next
  <1>3. OrderInv => RecordsInOrder
    BY DEF OrderInv
  <1> QED
    BY <1>1, <1>2, <1>3, Invariant, PTL DEF Spec

-----------------------------------------------------------------------------
(* The vault implements the log.                                           *)

\* A write works on the manifest it has locked, so it is one entry of the log.
LEMMA WriteAppends ==
    ASSUME IInv, NEW t \in Tx, WriteManifest(t)
    PROVE  \E d \in Device, v \in Version : Log!Append(d, v)
  <1> DEFINE d == put[t].by[1]
             v == put[t].version
  <1>1. put[t] \in Put /\ d \in Device /\ v \in Version
    BY PutType, PublisherParts DEF WriteManifest, Current, IInv, Put
  <1>2. put[t].seq = vault.seq /\ put[t].clock = vault.clock
    BY DEF WriteManifest, Current, IInv, ServerInv, LockHolds
  <1>3. vault.id \in [Snapshot -> Nat] /\ <<d, v>> \in Snapshot
    BY <1>1 DEF IInv, TypeOK, Vault, Snapshot
  <1>4. vault'.seq = vault.seq + 1 /\ vault'.clock = [vault.clock EXCEPT ![d] = @ + 1]
    BY <1>2 DEF WriteManifest
  <1>5. vault'.id = [vault.id EXCEPT ![<<d, v>>] = IF @ = 0 THEN vault.seq + 1 ELSE @]
    <2>1. vault'.id = IF vault.id[<<d, v>>] # 0 THEN vault.id
                      ELSE [vault.id EXCEPT ![<<d, v>>] = vault.seq + 1]
      BY <1>2, <1>3 DEF WriteManifest, Record, Entry, Stored
    <2> QED BY <2>1, <1>3
  <1>6. Log!Append(d, v)
    BY <1>4, <1>5 DEF Log!Append, WriteManifest
  <1> QED BY <1>1, <1>6

LEMMA LogStep == ASSUME IInv, [Next]_vars PROVE [Log!LogNext]_Log!logVars
  <1>1. UNCHANGED <<vault, tomb>> => UNCHANGED Log!logVars
    BY DEF Log!logVars
  <1>2. ASSUME NEW p \in Publisher,
               ClientStep(p) \/ OpenPage(p) \/ Timeout(p) \/ ReadFails(p)
        PROVE  UNCHANGED <<vault, tomb>>
    BY <1>2 DEF ClientStep, Publish, OpenPage, ReadIndex, SendPut, PutOk, PutConflict,
           PutFailed, Verify, Timeout, ReadFails, server
  <1>3. ASSUME NEW d \in Device, Revoke(d)
        PROVE  Log!Withdraw(d)
    BY <1>3 DEF Revoke, Log!Withdraw, Log!Entry, Stored, Snapshot
  <1>4. ASSUME NEW d \in Device, ChangeKeys(d) \/ Restart(d)
        PROVE  UNCHANGED <<vault, tomb>>
    BY <1>4 DEF ChangeKeys, Restart, server
  <1>5. ASSUME NEW t \in Tx, Serve(t) \/ EscrowUnavailable(t)
        PROVE  UNCHANGED <<vault, tomb>> \/ WriteManifest(t)
    BY <1>5 DEF Serve, CheckDevice, LockManifest, ManifestConflict, EscrowUnavailable, server
  <1>6. CASE ReadManifest \/ ReadRecords \/ UNCHANGED vars
    BY <1>6, <1>1 DEF ReadManifest, ReadRecords, vars, server
  <1> QED
    BY <1>1, <1>2, <1>3, <1>4, <1>5, <1>6, WriteAppends DEF Next, Log!LogNext

\* Overlapping PUTs are linearized by the lock of the manifest row: the vault
\* is a log to which each accepted write is appended once (recovery.py:254-341).
THEOREM LogImplemented == Spec => ImplementsLog
  <1>1. Init => Log!LogInit
    BY DEF Init, Log!LogInit, Log!Entry, Snapshot, NoClock
  <1>2. IInv /\ [Next]_vars => [Log!LogNext]_Log!logVars
    BY LogStep
  <1> QED
    BY <1>1, <1>2, Invariant, PTL DEF Spec, ImplementsLog, Log!LogSpec
=============================================================================
