--------------------------- MODULE RecoveryVault ---------------------------
(***************************************************************************)
(* The recovery vault of one account.  Every device publishes snapshots of *)
(* its key material: in the background after a send or a sign-in           *)
(* (EnterpriseRecoverySyncService) and when its chat list opens (the chat  *)
(* hub).  The server keeps each snapshot as a record, under a manifest     *)
(* with a sequence number, a clock per device and a root hash              *)
(* (AccountRecoveryManifestView); a device that signs in reads the         *)
(* manifest and the records back.                                          *)
(*                                                                         *)
(* A snapshot is <<d, v>>: the v-th state of the key material of device d. *)
(* An account without a manifest and one whose manifest is at sequence 0   *)
(* are the same here.                                                      *)
(***************************************************************************)
EXTENDS Naturals

CONSTANTS
    Device,
    Kind,           \* publishers of a device: "background", "page" or both
    Tx,             \* PUT requests that can be under way
    NoTx,
    MaxVersion,     \* bound on the states of a device's key material
    MaxFail,        \* bound on failing requests, restarts and escrow outages
    MaxPage,        \* bound on the openings of a chat list
    Revocable       \* devices that may be revoked

ASSUME VaultAssumption ==
    /\ Kind \subseteq {"background", "page"}
    /\ NoTx \notin Tx
    /\ MaxVersion \in Nat \ {0} /\ MaxFail \in Nat /\ MaxPage \in Nat
    /\ Revocable \subseteq Device

VARIABLES
    version,        \* state of the key material on each device
    client,         \* the running publication of each publisher
    published,      \* _lastPublishedPayloadHash, as a version; 0 for null
    verified,       \* _lastVerifiedPayloadHash, as a version; 0 for null
    vault,          \* the manifest and the records, as committed
    authored,       \* history: <<p, v>> where a PUT of publisher p stored <<p[1], v>>
    revoked,        \* revoked devices
    tomb,           \* records in the state 'revoked'
    lock,           \* the transaction that has locked the manifest row
    put,            \* PUT requests, from being sent to being answered
    restore,        \* a running restoreIfAvailable
    fails, pages    \* the faults and openings so far

server == <<vault, authored, revoked, tomb, lock>>
memory == <<published, verified>>
vars == <<version, client, memory, server, put, restore, fails, pages>>

Publisher == Device \X Kind
Version == 1..MaxVersion
Snapshot == Device \X Version

\* id is the primary key of a record, 0 where there is none.
Vault == [seq : Nat, clock : [Device -> Nat], root : SUBSET Snapshot, id : [Snapshot -> Nat]]
Put == [pc : {"sent", "checked", "locked", "ok", "conflict", "failed"},
        by : Publisher, version : Version, expected : Nat,
        seq : Nat, clock : [Device -> Nat]]
Client == [pc : {"idle", "index", "put", "wait", "verify", "missing"},
           snap : Version, seq : Nat, again : BOOLEAN, tx : Tx \union {NoTx}]
Restore == [pc : {"idle", "read", "failed"}, root : SUBSET Snapshot]

NoClock == [d \in Device |-> 0]
NoPut == [pc |-> "free"]
Idle == [pc |-> "idle", snap |-> 1, seq |-> 0, again |-> FALSE, tx |-> NoTx]

TypeOK ==
    /\ version \in [Device -> Version]
    /\ client \in [Publisher -> Client]
    /\ published \in [Device -> Version \union {0}]
    /\ verified \in [Device -> Version \union {0}]
    /\ vault \in Vault
    /\ authored \subseteq Publisher \X Version
    /\ revoked \subseteq Device /\ tomb \subseteq Snapshot
    /\ lock \in Tx \union {NoTx}
    /\ put \in [Tx -> Put \union {NoPut}]
    /\ restore \in Restore
    /\ fails \in 0..MaxFail /\ pages \in 0..MaxPage

Init ==
    /\ version = [d \in Device |-> 1]
    /\ client = [p \in Publisher |-> Idle]
    /\ published = [d \in Device |-> 0]
    /\ verified = [d \in Device |-> 0]
    /\ vault = [seq |-> 0, clock |-> NoClock, root |-> {}, id |-> [s \in Snapshot |-> 0]]
    /\ authored = {} /\ revoked = {} /\ tomb = {}
    /\ lock = NoTx
    /\ put = [t \in Tx |-> NoPut]
    /\ restore = [pc |-> "idle", root |-> {}]
    /\ fails = 0 /\ pages = 0

Stored == {s \in Snapshot : vault.id[s] # 0}
Active == Stored \ tomb

Fault == fails < MaxFail /\ fails' = fails + 1

-----------------------------------------------------------------------------
(* The devices.                                                            *)

At(p, pc) == client[p].pc = pc
Goto(p, pc) == client' = [client EXCEPT ![p].pc = pc]
Ended(p) == client' = [client EXCEPT ![p] = Idle]
Started(p, pc) == client' = [client EXCEPT ![p] = [Idle EXCEPT !.pc = pc, !.snap = version[p[1]]]]

\* A keyset, a group key or an attachment epoch is added on the device.
ChangeKeys(d) ==
    /\ version[d] < MaxVersion
    /\ version' = [version EXCEPT ![d] = @ + 1]
    /\ UNCHANGED <<client, memory, server, put, restore, fails, pages>>

\* publishInBackground: one at a time, nothing to do for a verified snapshot,
\* and no PUT for one that a PUT of this process has stored.
Publish(p) ==
    /\ p[2] = "background" /\ (At(p, "idle") \/ At(p, "missing"))
    /\ verified[p[1]] # version[p[1]]
    /\ Started(p, IF published[p[1]] = version[p[1]] THEN "verify" ELSE "index")
    /\ UNCHANGED <<version, memory, server, put, restore, fails, pages>>

\* The chat list opens: the index is read and then the snapshot is taken.
OpenPage(p) ==
    /\ p[2] = "page" /\ At(p, "idle")
    /\ pages < MaxPage /\ pages' = pages + 1
    /\ Started(p, "index")
    /\ UNCHANGED <<version, memory, server, put, restore, fails>>

\* The metadata of the manifest, which holds no key material.  After a
\* conflict the snapshot stays as it was.
ReadIndex(p) ==
    /\ At(p, "index") /\ p[1] \notin revoked
    /\ client' = [client EXCEPT ![p] = [@ EXCEPT
          !.pc = "put", !.seq = vault.seq,
          !.snap = IF p[2] = "page" /\ ~client[p].again THEN version[p[1]]
                   ELSE client[p].snap]]
    /\ UNCHANGED <<version, memory, server, put, restore, fails, pages>>

\* Mutant: the snapshot is remembered before it is stored.
MutSendPut(p, t) ==
    /\ At(p, "put") /\ put[t] = NoPut
    /\ put' = [put EXCEPT ![t] =
          [pc |-> "sent", by |-> p, version |-> client[p].snap,
           expected |-> client[p].seq, seq |-> 0, clock |-> NoClock]]
    /\ client' = [client EXCEPT ![p] = [@ EXCEPT !.pc = "wait", !.tx = t]]
    /\ published' = [published EXCEPT ![p[1]] = client[p].snap]
    /\ UNCHANGED <<version, verified, server, restore, fails, pages>>

SendPut(p, t) ==
    /\ At(p, "put") /\ put[t] = NoPut
    /\ put' = [put EXCEPT ![t] =
          [pc |-> "sent", by |-> p, version |-> client[p].snap,
           expected |-> client[p].seq, seq |-> 0, clock |-> NoClock]]
    /\ client' = [client EXCEPT ![p] = [@ EXCEPT !.pc = "wait", !.tx = t]]
    /\ UNCHANGED <<version, memory, server, restore, fails, pages>>

Answer(p, pc) == At(p, "wait") /\ put[client[p].tx].pc = pc
Taken(p) == put' = [put EXCEPT ![client[p].tx] = NoPut]

PutOk(p) ==
    /\ Answer(p, "ok") /\ Taken(p)
    /\ IF p[2] = "background"
       THEN /\ published' = [published EXCEPT ![p[1]] = client[p].snap]
            /\ client' = [client EXCEPT ![p] = [Idle EXCEPT !.pc = "verify", !.snap = client[p].snap]]
       ELSE Ended(p) /\ UNCHANGED published
    /\ UNCHANGED <<version, verified, server, restore, fails, pages>>

\* 412: the index is read again, once.
PutConflict(p) ==
    /\ Answer(p, "conflict") /\ Taken(p)
    /\ IF client[p].again THEN Ended(p)
       ELSE client' = [client EXCEPT ![p] =
                [Idle EXCEPT !.pc = "index", !.snap = client[p].snap, !.again = TRUE]]
    /\ UNCHANGED <<version, memory, server, restore, fails, pages>>

\* Mutant: a failed PUT counts as published.
MutPutFailed(p) ==
    /\ Answer(p, "failed") /\ Taken(p) /\ Ended(p)
    /\ published' = [published EXCEPT ![p[1]] = client[p].snap]
    /\ UNCHANGED <<version, verified, server, restore, fails, pages>>

PutFailed(p) ==
    /\ Answer(p, "failed") /\ Taken(p) /\ Ended(p)
    /\ UNCHANGED <<version, memory, server, restore, fails, pages>>

\* No answer in time: the request is lost, its answer is, or the server is
\* still busy with it and nobody waits any more.
Timeout(p) ==
    /\ At(p, "wait") /\ Fault /\ Ended(p)
    /\ \/ put[client[p].tx].pc \in {"sent", "checked", "locked"} /\ UNCHANGED put
       \/ put[client[p].tx].pc \notin {"checked", "locked"} /\ Taken(p)
    /\ UNCHANGED <<version, memory, server, restore, pages>>

\* The client hashes its payload to base64url, the server to hex digits.
ClientHash(s) == <<"base64url", s>>
RecordHash(s) == <<"hex", s>>

Verify(p) ==
    /\ At(p, "verify") /\ p[1] \notin revoked
    /\ IF ClientHash(<<p[1], client[p].snap>>) \in {RecordHash(s) : s \in Active}
       THEN verified' = [verified EXCEPT ![p[1]] = client[p].snap] /\ Ended(p)
       ELSE Goto(p, "missing") /\ UNCHANGED verified
    /\ UNCHANGED <<version, published, server, put, restore, fails, pages>>

\* A read of the metadata fails, or is refused to a revoked device.
ReadFails(p) ==
    /\ At(p, "index") \/ At(p, "verify")
    /\ Fault \/ (p[1] \in revoked /\ UNCHANGED fails)
    /\ Ended(p)
    /\ UNCHANGED <<version, memory, server, put, restore, pages>>

\* The process ends; the server does not notice.
Restart(d) ==
    /\ Fault
    /\ client' = [p \in Publisher |-> IF p[1] = d THEN Idle ELSE client[p]]
    /\ published' = [published EXCEPT ![d] = 0]
    /\ verified' = [verified EXCEPT ![d] = 0]
    /\ put' = [t \in Tx |->
          IF put[t].pc \in {"ok", "conflict", "failed"} /\ put[t].by[1] = d
          THEN NoPut ELSE put[t]]
    /\ UNCHANGED <<version, server, restore, pages>>

-----------------------------------------------------------------------------
(* The server: AccountRecoveryManifestView.put, one transaction.           *)

Reply(t, pc) ==
    put' = [put EXCEPT ![t] = IF \E p \in Publisher : client[p].tx = t
                              THEN [@ EXCEPT !.pc = pc] ELSE NoPut]

\* The device must be active when the request is looked at.
CheckDevice(t) ==
    /\ put[t].pc = "sent"
    /\ IF put[t].by[1] \in revoked THEN Reply(t, "failed")
       ELSE put' = [put EXCEPT ![t].pc = "checked"]
    /\ UNCHANGED <<version, client, memory, server, restore, fails, pages>>

\* Mutant: the manifest is read without select_for_update.
MutLockManifest(t) ==
    /\ put[t].pc = "checked"
    /\ put' = [put EXCEPT ![t] =
          [@ EXCEPT !.pc = "locked", !.seq = vault.seq, !.clock = vault.clock]]
    /\ UNCHANGED <<version, client, memory, server, restore, fails, pages>>

LockManifest(t) ==
    /\ put[t].pc = "checked"
    /\ lock = NoTx /\ lock' = t
    /\ put' = [put EXCEPT ![t] =
          [@ EXCEPT !.pc = "locked", !.seq = vault.seq, !.clock = vault.clock]]
    /\ UNCHANGED <<version, client, memory, vault, authored, revoked, tomb, restore, fails, pages>>

\* Mutant: what was expected is not compared with what is there.
MutCurrent(t) == put[t].pc = "locked"

Current(t) == put[t].pc = "locked" /\ put[t].expected = put[t].seq

ManifestConflict(t) ==
    /\ put[t].pc = "locked" /\ ~Current(t)
    /\ Reply(t, "conflict") /\ lock' = NoTx
    /\ UNCHANGED <<version, client, memory, vault, authored, revoked, tomb, restore, fails, pages>>

\* The escrow provider throws: the transaction is rolled back.
EscrowUnavailable(t) ==
    /\ Current(t) /\ Fault
    /\ Reply(t, "failed") /\ lock' = NoTx
    /\ UNCHANGED <<version, client, memory, vault, authored, revoked, tomb, restore, pages>>

\* get_or_create keeps a record that is there, whatever its state.
Entry(t) == <<put[t].by[1], put[t].version>>
Record(t) ==
    IF Entry(t) \in Stored THEN vault.id
    ELSE [vault.id EXCEPT ![Entry(t)] = put[t].seq + 1]

WriteManifest(t) ==
    /\ Current(t)
    /\ vault' = [seq |-> put[t].seq + 1,
                 clock |-> [put[t].clock EXCEPT ![put[t].by[1]] = @ + 1],
                 root |-> {s \in Snapshot : Record(t)[s] # 0},
                 id |-> Record(t)]
    /\ authored' = IF Entry(t) \in Stored THEN authored
                   ELSE authored \union {<<put[t].by, put[t].version>>}
    /\ Reply(t, "ok") /\ lock' = NoTx
    /\ UNCHANGED <<version, client, memory, revoked, tomb, restore, fails, pages>>

\* DeviceRevokeView: the records that can be seen are marked, the manifest is
\* neither locked nor changed.
Revoke(d) ==
    /\ d \in Revocable \ revoked
    /\ revoked' = revoked \union {d}
    /\ tomb' = tomb \union {s \in Stored : s[1] = d}
    /\ UNCHANGED <<version, client, memory, vault, authored, lock, put, restore, fails, pages>>

-----------------------------------------------------------------------------
(* restoreIfAvailable on a device that signs in: the server reads first    *)
(* the manifest and then the active records, the device compares them.     *)

ReadManifest ==
    /\ restore.pc # "read" /\ vault.seq > 0
    /\ restore' = [pc |-> "read", root |-> vault.root]
    /\ UNCHANGED <<version, client, memory, server, put, fails, pages>>

ReadRecords ==
    /\ restore.pc = "read"
    /\ restore' = [pc |-> IF Active = restore.root THEN "idle" ELSE "failed", root |-> {}]
    /\ UNCHANGED <<version, client, memory, server, put, fails, pages>>

-----------------------------------------------------------------------------
ClientStep(p) ==
    \/ Publish(p) \/ ReadIndex(p) \/ (\E t \in Tx : SendPut(p, t))
    \/ PutOk(p) \/ PutConflict(p) \/ PutFailed(p) \/ Verify(p)

Serve(t) ==
    CheckDevice(t) \/ LockManifest(t) \/ ManifestConflict(t) \/ WriteManifest(t)

Next ==
    \/ \E p \in Publisher :
          ClientStep(p) \/ OpenPage(p) \/ Timeout(p) \/ ReadFails(p)
    \/ \E d \in Device : ChangeKeys(d) \/ Restart(d) \/ Revoke(d)
    \/ \E t \in Tx : Serve(t) \/ EscrowUnavailable(t)
    \/ ReadManifest \/ ReadRecords

Spec == Init /\ [][Next]_vars

\* The device keeps sending, so it keeps publishing; the server answers.
FairSpec ==
    /\ Spec
    /\ \A p \in Publisher : WF_vars(ClientStep(p))
    /\ \A t \in Tx : WF_vars(Serve(t))

-----------------------------------------------------------------------------
\* The committed root covers exactly the records that are stored, and a device
\* has a clock just when it has a record: no two writers of the manifest undo each other
\* (_write_recovery_manifest, recovery.py:264-326).
VaultConsistent ==
    /\ vault.root = Stored
    /\ \A d \in Device : vault.clock[d] > 0 <=> \E v \in Version : <<d, v>> \in Stored

\* The records that one publisher of a device has stored are numbered in the
\* order of its snapshots: its PUT that was given up and delayed past a newer
\* one of its own must meet the 412 (recovery.py:272), through conflicts,
\* restarts and lost answers.  Between the two publishers of a device there is
\* no such order: either may write a snapshot that it took before the other
\* wrote a newer one (enterprise_recovery_sync_service.dart:98,
\* chat_hub_backup_actions.dart:139).
RecordsInOrder ==
    \A p \in Publisher : \A v, w \in Version :
        v < w /\ <<p, v>> \in authored /\ <<p, w>> \in authored
            => vault.id[<<p[1], v>>] < vault.id[<<p[1], w>>]

\* The stronger claim, of the records of a device whoever stored them.
DeviceInOrder ==
    \A d \in Device : \A v, w \in Version :
        v < w /\ <<d, v>> \in Stored /\ <<d, w>> \in Stored
            => vault.id[<<d, v>>] < vault.id[<<d, w>>]

\* What a device remembers as published is stored, so it may skip the PUT
\* (_publish, enterprise_recovery_sync_service.dart:74).
RememberedIsStored ==
    \A d \in Device : published[d] # 0 => <<d, published[d]>> \in Stored

\* The committed vault is a RecoveryLog: the transactions of overlapping PUTs
\* take effect one after the other, each at its commit, and a revocation
\* withdraws what is committed at that moment (recovery.py:264, devices.py:205).
Log == INSTANCE RecoveryLog
       WITH seq <- vault.seq, clock <- vault.clock, number <- vault.id, withdrawn <- tomb
ImplementsLog == Log!LogSpec

\* Every state of the key material of a device reaches the vault, or a newer
\* one does, unless the device is revoked: conflicts, failures, restarts and
\* abandoned requests do not stop the retries of later sends.
Published ==
    \A d \in Device : \A v \in Version :
        version[d] = v ~> (d \in revoked \/ \E w \in v..MaxVersion : <<d, w>> \in Stored)

\* Documented: verification fails if the vault "is missing the current keyset"
\* (enterprise_recovery_sync_service.dart:134).  It ends so only when no active
\* record holds the snapshot.
MissingIsMissing ==
    [][\A p \in Publisher :
         ~At(p, "missing") /\ At(p, "missing")' => <<p[1], client[p].snap>> \notin Active]_vars

\* Documented: "Restores escrowed keysets during login/reinstall without
\* requiring a separate settings action" (enterprise_recovery_sync_service.dart:32).
\* The records that are delivered pass the comparison with the root.
RestoreWorks == restore.pc # "failed"

\* Documented: "a revoked device's records are tombstoned rather than
\* overwritten" (PQCV2_ENTERPRISE_CORE.md:31).  No active record is of a revoked
\* device.
RevokedTombstoned == \A s \in Active : s[1] \notin revoked
=============================================================================
