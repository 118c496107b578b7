--------------------------- MODULE RecoveryAccess ---------------------------
(***************************************************************************)
(* Who may read the recovery records of an account.  A full read of the    *)
(* vault needs an approval that another active device has given, or a      *)
(* grant of a fresh federated sign-in; either is meant for one read.       *)
(* RecoveryVault models what is read.                                      *)
(*                                                                         *)
(* The server runs under READ COMMITTED: a plain read sees what is         *)
(* committed, a select_for_update waits for the row and looks again.       *)
(***************************************************************************)

CONSTANTS
    Device,
    Approval, Grant,    \* rows that can be created
    Read,               \* GET transactions
    None

ASSUME AccessAssumption == None \notin Device \union Approval \union Grant \union Read

VARIABLES
    active,         \* devices that are not revoked
    approval,       \* RecoveryDeviceApproval
    grant,          \* RecoveryAccessGrant
    late,           \* approvals and grants whose expires_at has passed
    locked,         \* the read that holds the row lock of a grant
    read

vars == <<active, approval, grant, late, locked, read>>

ApprovalRow ==
    [status : {"none", "pending", "approved", "denied", "expired", "used"},
     requester : Device \union {None}, approver : Device \union {None}]
GrantRow == [status : {"none", "fresh", "used", "deleted"}, device : Device \union {None}]
ReadState ==
    [pc : {"idle", "grant", "deliver", "done", "refused"}, device : Device \union {None},
     approval : Approval \union {None}, grant : Grant \union {None}]

\* A locked grant is the one its read delivers with.
TypeOK ==
    /\ active \subseteq Device
    /\ approval \in [Approval -> ApprovalRow]
    /\ grant \in [Grant -> GrantRow]
    /\ late \subseteq Approval \union Grant
    /\ locked \in [Grant -> Read \union {None}]
    /\ read \in [Read -> ReadState]
    /\ \A g \in Grant : locked[g] # None =>
          read[locked[g]].pc = "deliver" /\ read[locked[g]].grant = g

Init ==
    /\ active = Device
    /\ approval = [a \in Approval |-> [status |-> "none", requester |-> None, approver |-> None]]
    /\ grant = [g \in Grant |-> [status |-> "none", device |-> None]]
    /\ late = {}
    /\ locked = [g \in Grant |-> None]
    /\ read = [r \in Read |-> [pc |-> "idle", device |-> None, approval |-> None, grant |-> None]]

-----------------------------------------------------------------------------
(* Approvals.                                                              *)

PendingOf(d) == {a \in Approval : approval[a].status = "pending" /\ approval[a].requester = d}

\* RecoveryApprovalRequestView.post, in two statements: the older requests of
\* the device expire and the new one is created.  Of two posts that overlap
\* neither sees the request of the other, so both may be pending afterwards.
Expire(d) ==
    /\ d \in active
    /\ approval' = [a \in Approval |->
          IF a \in PendingOf(d) THEN [approval[a] EXCEPT !.status = "expired"] ELSE approval[a]]
    /\ UNCHANGED <<active, grant, late, locked, read>>

Request(d, a) ==
    /\ d \in active /\ approval[a].status = "none"
    /\ approval' = [approval EXCEPT ![a] =
          [status |-> "pending", requester |-> d, approver |-> None]]
    /\ UNCHANGED <<active, grant, late, locked, read>>

\* Mutant: a decision may be taken again.
MutMayDecide(d, a) ==
    approval[a].status \in {"pending", "denied"} /\ approval[a].requester # d

\* Mutant: a device decides on its own request.
MutDecideOwn(d, a) == approval[a].status = "pending"

MayDecide(d, a) == approval[a].status = "pending" /\ approval[a].requester # d

\* RecoveryApprovalDecisionView.post, under the lock of the row.
Decide(d, a, status) ==
    /\ d \in active /\ MayDecide(d, a) /\ a \notin late
    /\ approval' = [approval EXCEPT ![a] = [@ EXCEPT !.status = status, !.approver = d]]
    /\ UNCHANGED <<active, grant, late, locked, read>>

DecideLate(d, a) ==
    /\ d \in active /\ approval[a].status = "pending" /\ a \in late
    /\ approval' = [approval EXCEPT ![a] = [@ EXCEPT !.status = "expired"]]
    /\ UNCHANGED <<active, grant, late, locked, read>>

-----------------------------------------------------------------------------
(* Grants.                                                                 *)

FreshOf(d) == {g \in Grant : grant[g].status = "fresh" /\ grant[g].device = d}

\* A federated sign-in deletes the unused grants of the device, waiting for
\* those a read has locked, and makes a new one.
SignIn(d, g) ==
    /\ d \in active /\ grant[g].status = "none"
    /\ \A h \in FreshOf(d) : locked[h] = None
    /\ grant' = [h \in Grant |->
          IF h = g THEN [status |-> "fresh", device |-> d]
          ELSE IF h \in FreshOf(d) THEN [grant[h] EXCEPT !.status = "deleted"]
          ELSE grant[h]]
    /\ UNCHANGED <<active, approval, late, locked, read>>

TimePasses(x) ==
    /\ x \in (Approval \union Grant) \ late
    /\ late' = late \union {x}
    /\ UNCHANGED <<active, approval, grant, locked, read>>

Revoke(d) ==
    /\ d \in active
    /\ active' = active \ {d}
    /\ UNCHANGED <<approval, grant, late, locked, read>>

-----------------------------------------------------------------------------
(* AccountRecoveryManifestView.get without metadata_only.                  *)

Approves(a, d) == approval[a].status = "approved" /\ approval[a].requester = d /\ a \notin late
Admits(g, d) == grant[g].status = "fresh" /\ grant[g].device = d /\ g \notin late

\* The device is active and the approval it names is looked up, without a lock.
Start(r, d, a, g) ==
    /\ read[r].pc = "idle" /\ d \in active
    /\ read' = [read EXCEPT ![r] =
          [pc |-> "grant", device |-> d, grant |-> g,
           approval |-> IF a # None /\ Approves(a, d) THEN a ELSE None]]
    /\ UNCHANGED <<active, approval, grant, late, locked>>

\* Mutant: the grant is looked up without select_for_update.
MutTakeGrant(r) ==
    LET g == read[r].grant IN
    /\ read[r].pc = "grant" /\ g # None /\ Admits(g, read[r].device)
    /\ read' = [read EXCEPT ![r].pc = "deliver"]
    /\ UNCHANGED <<active, approval, grant, late, locked>>

\* The grant is locked if it admits the device.
TakeGrant(r) ==
    LET g == read[r].grant IN
    /\ read[r].pc = "grant" /\ g # None
    /\ locked[g] = None /\ Admits(g, read[r].device)
    /\ locked' = [locked EXCEPT ![g] = r]
    /\ read' = [read EXCEPT ![r].pc = "deliver"]
    /\ UNCHANGED <<active, approval, grant, late>>

\* There is no grant, or it does not admit the device: the approval decides.
NoGrant(r) ==
    LET g == read[r].grant IN
    /\ read[r].pc = "grant"
    /\ g # None => ~Admits(g, read[r].device)
    /\ read' = [read EXCEPT ![r] =
          [@ EXCEPT !.pc = IF read[r].approval = None THEN "refused" ELSE "deliver",
                    !.grant = None]]
    /\ UNCHANGED <<active, approval, grant, late, locked>>

Unlocked(r) == [g \in Grant |-> IF locked[g] = r THEN None ELSE locked[g]]

\* Mutant: an approval is used up only by a read without a grant.
MutDeliver(r) ==
    /\ read[r].pc = "deliver"
    /\ approval' = [a \in Approval |->
          IF a = read[r].approval /\ read[r].grant = None
          THEN [approval[a] EXCEPT !.status = "used"] ELSE approval[a]]
    /\ grant' = [g \in Grant |->
          IF g = read[r].grant THEN [grant[g] EXCEPT !.status = "used"] ELSE grant[g]]
    /\ locked' = Unlocked(r)
    /\ read' = [read EXCEPT ![r].pc = "done"]
    /\ UNCHANGED <<active, late>>

\* The records are decrypted; approval and grant are written as used.
Deliver(r) ==
    /\ read[r].pc = "deliver"
    /\ approval' = [a \in Approval |->
          IF a = read[r].approval THEN [approval[a] EXCEPT !.status = "used"] ELSE approval[a]]
    /\ grant' = [g \in Grant |->
          IF g = read[r].grant THEN [grant[g] EXCEPT !.status = "used"] ELSE grant[g]]
    /\ locked' = Unlocked(r)
    /\ read' = [read EXCEPT ![r].pc = "done"]
    /\ UNCHANGED <<active, late>>

\* A record cannot be decrypted: 500, and neither is used up.
Corrupted(r) ==
    /\ read[r].pc = "deliver"
    /\ locked' = Unlocked(r)
    /\ read' = [read EXCEPT ![r].pc = "refused"]
    /\ UNCHANGED <<active, approval, grant, late>>

-----------------------------------------------------------------------------
Next ==
    \/ \E d \in Device :
          \/ Revoke(d) \/ Expire(d)
          \/ \E a \in Approval :
                Request(d, a) \/ DecideLate(d, a)
                \/ \E status \in {"approved", "denied"} : Decide(d, a, status)
          \/ \E g \in Grant : SignIn(d, g)
    \/ \E x \in Approval \union Grant : TimePasses(x)
    \/ \E r \in Read :
          \/ TakeGrant(r) \/ NoGrant(r) \/ Deliver(r) \/ Corrupted(r)
          \/ \E d \in Device, a \in Approval \union {None}, g \in Grant \union {None} :
                Start(r, d, a, g)

Spec == Init /\ [][Next]_vars

-----------------------------------------------------------------------------
\* No grant serves two reads, however they overlap (recovery.py:146-152).
GrantOnce ==
    \A r, q \in Read :
        /\ read[r].pc = "done" /\ read[q].pc = "done"
        /\ read[r].grant = read[q].grant /\ read[r].grant # None
        => r = q

\* A delivered read was made with a grant of its device, or with an approval
\* for its device that a different device has given: "a separate device-bound
\* recovery credential; either a one-use grant ... or a one-use approval from
\* another active device" (SECURITY_HARDENING_STATUS.md:14-17).
ReadAllowed ==
    \A r \in Read : read[r].pc = "done" =>
        \/ read[r].grant # None /\ grant[read[r].grant].device = read[r].device
        \/ /\ read[r].approval # None
           /\ approval[read[r].approval].requester = read[r].device
           /\ approval[read[r].approval].approver \in Device \ {read[r].device}

\* What has been denied, has expired or is used stays so: neither a late
\* decision nor the write at the end of a read brings an approval back.
DecisionFinal ==
    [][\A a \in Approval :
         approval[a].status \in {"denied", "expired", "used"}
            => approval'[a].status = approval[a].status]_vars

\* An approval is shared at most by reads that overlap: a read that starts when
\* another one has been answered does not get the approval of that one, although
\* it is looked up without a lock (recovery.py:137, 195-197).
SharedOnlyByOverlap ==
    [][\A r, q \in Read :
         /\ read[q].pc = "done" /\ read[q].approval # None
         /\ read[r].pc = "idle" /\ read'[r].pc # "idle"
         => read'[r].approval # read[q].approval]_vars

\* Documented: "a one-use approval from another active device"
\* (SECURITY_HARDENING_STATUS.md:16).  No approval serves two reads.
ApprovalOnce ==
    \A r, q \in Read :
        /\ read[r].pc = "done" /\ read[q].pc = "done"
        /\ read[r].approval = read[q].approval /\ read[r].approval # None
        => r = q
=============================================================================
