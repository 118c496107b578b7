----------------------- MODULE RecoveryAccessProofs -----------------------
(***************************************************************************)
(* The safety of RecoveryAccess, for any number of devices, approvals,     *)
(* grants and overlapping reads.                                           *)
(***************************************************************************)
EXTENDS RecoveryAccess, TLAPS

\* The approval a read has looked up, and has not yet or has used.
Settled(a, d) ==
    /\ approval[a].status \in {"approved", "used"}
    /\ approval[a].requester = d
    /\ approval[a].approver \in Device \ {d}

Entitled(r) == read[r].grant # None \/ read[r].approval # None

ReadOK(r) ==
    /\ read[r].approval # None => Settled(read[r].approval, read[r].device)
    /\ read[r].pc \in {"deliver", "done"} =>
          /\ Entitled(r)
          /\ read[r].grant # None => grant[read[r].grant].device = read[r].device
    /\ read[r].pc = "deliver" /\ read[r].grant # None =>
          locked[read[r].grant] = r /\ grant[read[r].grant].status = "fresh"
    /\ read[r].pc = "done" /\ read[r].grant # None =>
          grant[read[r].grant].status = "used"

ReadsOK == \A r \in Read : ReadOK(r)

ApprovalsOK ==
    \A a \in Approval : approval[a].status = "approved" => Settled(a, approval[a].requester)

IInv == TypeOK /\ ReadsOK /\ ApprovalsOK /\ GrantOnce

-----------------------------------------------------------------------------
(* What no step does to the rows.                                          *)

KeepsSettled ==
    \A a \in Approval, d \in Device \union {None} : Settled(a, d) => Settled(a, d)'

KeepsFinal ==
    \A a \in Approval :
        approval[a].status \in {"denied", "expired", "used"}
           => approval'[a].status = approval[a].status

KeepsGrants ==
    \A g \in Grant :
        /\ grant[g].status # "none" => grant'[g].device = grant[g].device
        /\ grant[g].status = "used" => grant'[g].status = "used"

LEMMA ApprovalStep ==
    ASSUME TypeOK, ReadsOK, ApprovalsOK, [Next]_vars
    PROVE  KeepsSettled /\ KeepsFinal /\ ApprovalsOK'
<1> USE AccessAssumption DEF KeepsSettled, KeepsFinal, ApprovalsOK, Settled, TypeOK, ApprovalRow
<1>1. ASSUME NEW d \in Device, NEW a \in Approval, Request(d, a)
      PROVE  KeepsSettled /\ KeepsFinal /\ ApprovalsOK'
  BY <1>1 DEF Request
<1>2. ASSUME NEW d \in Device, NEW a \in Approval, DecideLate(d, a)
      PROVE  KeepsSettled /\ KeepsFinal /\ ApprovalsOK'
  BY <1>2 DEF DecideLate
<1>3. ASSUME NEW d \in Device, NEW a \in Approval,
             NEW status \in {"approved", "denied"}, Decide(d, a, status)
      PROVE  KeepsSettled /\ KeepsFinal /\ ApprovalsOK'
  BY <1>3 DEF Decide, MayDecide
<1>4. ASSUME NEW r \in Read, Deliver(r)
      PROVE  KeepsSettled /\ KeepsFinal /\ ApprovalsOK'
  <2>1. \A a \in Approval : a = read[r].approval => Settled(a, read[r].device)
    BY DEF ReadsOK, ReadOK
  <2> QED
    BY <1>4, <2>1 DEF Deliver
<1>5. ASSUME NEW d \in Device, Expire(d)
      PROVE  KeepsSettled /\ KeepsFinal /\ ApprovalsOK'
  BY <1>5 DEF Expire, PendingOf
<1>6. CASE approval' = approval
  BY <1>6
<1> HIDE DEF KeepsSettled, KeepsFinal, ApprovalsOK, Settled, TypeOK, ApprovalRow
<1> QED
  BY <1>1, <1>2, <1>3, <1>4, <1>5, <1>6
  DEF Next, vars, Revoke, SignIn, TimePasses, Start, TakeGrant, NoGrant, Corrupted

LEMMA GrantStep ==
    ASSUME TypeOK, [Next]_vars
    PROVE  KeepsGrants
<1> USE AccessAssumption DEF KeepsGrants, TypeOK, GrantRow
<1>1. ASSUME NEW d \in Device, NEW g \in Grant, SignIn(d, g)
      PROVE  KeepsGrants
  BY <1>1 DEF SignIn, FreshOf
<1>2. ASSUME NEW r \in Read, Deliver(r)
      PROVE  KeepsGrants
  BY <1>2 DEF Deliver
<1>3. CASE grant' = grant
  BY <1>3
<1> QED
  BY <1>1, <1>2, <1>3
  DEF Next, vars, Revoke, Expire, Request, Decide, DecideLate, TimePasses, Start, TakeGrant, NoGrant,
      Corrupted

-----------------------------------------------------------------------------
(* Types.                                                                  *)

LEMMA TypeStep ==
    ASSUME TypeOK, [Next]_vars
    PROVE  TypeOK'
<1> USE AccessAssumption DEF TypeOK
<1>0. ASSUME NEW d \in Device, Expire(d)
      PROVE  TypeOK'
  BY <1>0 DEF Expire, ApprovalRow
<1>1. ASSUME NEW d \in Device, Revoke(d)
      PROVE  TypeOK'
  BY <1>1 DEF Revoke
<1>2. ASSUME NEW d \in Device, NEW a \in Approval, Request(d, a)
      PROVE  TypeOK'
  BY <1>2 DEF Request, ApprovalRow
<1>3. ASSUME NEW d \in Device, NEW a \in Approval, DecideLate(d, a)
      PROVE  TypeOK'
  BY <1>3 DEF DecideLate, ApprovalRow
<1>4. ASSUME NEW d \in Device, NEW a \in Approval,
             NEW status \in {"approved", "denied"}, Decide(d, a, status)
      PROVE  TypeOK'
  <2>1. approval[a] \in ApprovalRow
    OBVIOUS
  <2>2. [approval[a] EXCEPT !.status = status, !.approver = d] \in ApprovalRow
    BY <2>1 DEF ApprovalRow
  <2> QED
    BY <1>4, <2>2 DEF Decide
<1>5. ASSUME NEW d \in Device, NEW g \in Grant, SignIn(d, g)
      PROVE  TypeOK'
  BY <1>5 DEF SignIn, GrantRow
<1>6. ASSUME NEW x \in Approval \union Grant, TimePasses(x)
      PROVE  TypeOK'
  BY <1>6 DEF TimePasses
<1>7. ASSUME NEW r \in Read, TakeGrant(r)
      PROVE  TypeOK'
  <2>1. read[r] \in ReadState
    OBVIOUS
  <2> QED
    BY <1>7, <2>1 DEF TakeGrant, ReadState
<1>8. ASSUME NEW r \in Read, NoGrant(r)
      PROVE  TypeOK'
  <2>1. read[r] \in ReadState
    OBVIOUS
  <2> QED
    <3>1. read' \in [Read -> ReadState]
      BY <1>8, <2>1 DEF NoGrant, ReadState
    <3>2. \A g \in Grant : locked[g] # r
      BY <1>8 DEF NoGrant
    <3>3. \A q \in Read \ {r} : read'[q] = read[q]
      BY <1>8 DEF NoGrant
    <3> QED
      BY <1>8, <3>1, <3>2, <3>3 DEF NoGrant
<1>9. ASSUME NEW r \in Read, Deliver(r)
      PROVE  TypeOK'
  <2>1. read[r] \in ReadState
    OBVIOUS
  <2> QED
    <3>1. read' \in [Read -> ReadState] /\ \A q \in Read \ {r} : read'[q] = read[q]
      BY <1>9, <2>1 DEF Deliver, ReadState
    <3>2. /\ locked' \in [Grant -> Read \union {None}]
          /\ \A g \in Grant : locked'[g] # r /\ locked'[g] \in {None, locked[g]}
      BY <1>9 DEF Deliver, Unlocked
    <3>3. approval' \in [Approval -> ApprovalRow] /\ grant' \in [Grant -> GrantRow]
      <4>1. \A a \in Approval : [approval[a] EXCEPT !.status = "used"] \in ApprovalRow
        BY DEF ApprovalRow
      <4>2. \A g \in Grant : [grant[g] EXCEPT !.status = "used"] \in GrantRow
        BY DEF GrantRow
      <4> QED
        BY <1>9, <4>1, <4>2 DEF Deliver
    <3>4. \A g \in Grant : locked'[g] # None =>
              read'[locked'[g]].pc = "deliver" /\ read'[locked'[g]].grant = g
      BY <3>1, <3>2
    <3> QED
      BY <1>9, <3>1, <3>2, <3>3, <3>4 DEF Deliver
<1>10. ASSUME NEW r \in Read, Corrupted(r)
       PROVE  TypeOK'
  <2>1. read[r] \in ReadState
    OBVIOUS
  <2> QED
    <3>1. read' \in [Read -> ReadState] /\ \A q \in Read \ {r} : read'[q] = read[q]
      BY <1>10, <2>1 DEF Corrupted, ReadState
    <3>2. /\ locked' \in [Grant -> Read \union {None}]
          /\ \A g \in Grant : locked'[g] # r /\ locked'[g] \in {None, locked[g]}
      BY <1>10 DEF Corrupted, Unlocked
    <3>3. approval' \in [Approval -> ApprovalRow] /\ grant' \in [Grant -> GrantRow]
      BY <1>10 DEF Corrupted, ApprovalRow, GrantRow
    <3>4. \A g \in Grant : locked'[g] # None =>
              read'[locked'[g]].pc = "deliver" /\ read'[locked'[g]].grant = g
      BY <3>1, <3>2
    <3> QED
      BY <1>10, <3>1, <3>2, <3>3, <3>4 DEF Corrupted
<1>11. ASSUME NEW r \in Read, NEW d \in Device, NEW a \in Approval \union {None},
              NEW g \in Grant \union {None}, Start(r, d, a, g)
       PROVE  TypeOK'
  BY <1>11 DEF Start, ReadState
<1>12. CASE UNCHANGED vars
  BY <1>12 DEF vars
<1> QED
  BY <1>0, <1>1, <1>2, <1>3, <1>4, <1>5, <1>6, <1>7, <1>8, <1>9, <1>10, <1>11, <1>12 DEF Next

-----------------------------------------------------------------------------
(* Reads.                                                                  *)

\* A read that does not move keeps what it has checked: the rows it names
\* change only as above, and its grant is locked.
LEMMA ReadKept ==
    ASSUME IInv, [Next]_vars, NEW q \in Read, read'[q] = read[q]
    PROVE  ReadOK(q)'
<1> USE AccessAssumption
<1>t. read[q] \in ReadState /\ locked \in [Grant -> Read \union {None}]
  BY DEF IInv, TypeOK
<1>1. KeepsSettled /\ KeepsGrants
  BY ApprovalStep, GrantStep DEF IInv
<1>2. ReadOK(q)
  BY DEF IInv, ReadsOK
<1>3. read[q].approval # None => Settled(read[q].approval, read[q].device)'
  BY <1>t, <1>1, <1>2 DEF ReadOK, KeepsSettled, ReadState
<1>4. ASSUME read[q].pc = "deliver", read[q].grant # None
      PROVE  locked'[read[q].grant] = q /\ grant'[read[q].grant].status = "fresh"
  <2>1. locked[read[q].grant] = q /\ grant[read[q].grant].status = "fresh"
        /\ read[q].grant \in Grant /\ q # None
    BY <1>t, <1>2, <1>4 DEF ReadOK, ReadState
  <2>2. ASSUME NEW d \in Device, NEW g \in Grant, SignIn(d, g)
        PROVE  grant'[read[q].grant] = grant[read[q].grant] /\ locked' = locked
    BY <2>1, <2>2 DEF SignIn, FreshOf
  <2>3. ASSUME NEW r \in Read, TakeGrant(r)
        PROVE  locked'[read[q].grant] = q /\ grant' = grant
    BY <1>t, <2>1, <2>3 DEF TakeGrant
  <2>4. ASSUME NEW r \in Read, Deliver(r) \/ Corrupted(r)
        PROVE  locked'[read[q].grant] = q /\ grant'[read[q].grant].status = "fresh"
    <3>1. r # q
      BY <1>4, <1>t, <2>4 DEF Deliver, Corrupted, IInv, TypeOK, ReadState
    <3>2. read[r].grant # read[q].grant
      <4>1. read[r].pc = "deliver"
        BY <2>4 DEF Deliver, Corrupted
      <4> QED
        BY <1>4, <2>1, <3>1, <4>1 DEF IInv, ReadsOK, ReadOK
    <3> QED
      BY <2>1, <2>4, <3>1, <3>2 DEF Deliver, Corrupted, Unlocked
  <2>5. CASE locked' = locked /\ grant' = grant
    BY <2>1, <2>5
  <2> QED
    BY <2>1, <2>2, <2>3, <2>4, <2>5
    DEF Next, vars, Revoke, Expire, Request, Decide, DecideLate, TimePasses, Start, NoGrant
<1>5. read[q].grant # None => read[q].grant \in Grant
  BY <1>t DEF ReadState
<1>6. read[q].pc \in {"deliver", "done"} /\ read[q].grant # None =>
          grant'[read[q].grant].device = read[q].device
  BY <1>1, <1>2, <1>5 DEF ReadOK, KeepsGrants
<1>7. read[q].pc = "done" /\ read[q].grant # None => grant'[read[q].grant].status = "used"
  BY <1>1, <1>2, <1>5 DEF ReadOK, KeepsGrants
<1> QED
  BY <1>2, <1>3, <1>4, <1>6, <1>7 DEF ReadOK, Entitled

LEMMA ReadsStep ==
    ASSUME IInv, [Next]_vars
    PROVE  ReadsOK'
<1> USE AccessAssumption
<1>t. read \in [Read -> ReadState]
  BY DEF IInv, TypeOK
<1>k. KeepsSettled /\ KeepsGrants
  BY ApprovalStep, GrantStep DEF IInv
<1>1. SUFFICES ASSUME NEW q \in Read, read'[q] # read[q]
               PROVE  ReadOK(q)'
  BY ReadKept DEF ReadsOK
<1>2. ReadOK(q) /\ read[q] \in ReadState
  BY <1>t DEF IInv, ReadsOK
<1>3. ASSUME NEW d \in Device, NEW a \in Approval \union {None},
             NEW g \in Grant \union {None}, Start(q, d, a, g)
      PROVE  ReadOK(q)'
  <2>1. read'[q] = [pc |-> "grant", device |-> d, grant |-> g,
                    approval |-> IF a # None /\ Approves(a, d) THEN a ELSE None]
        /\ approval' = approval
    BY <1>t, <1>3 DEF Start
  <2>2. a # None /\ Approves(a, d) => Settled(a, d)
    BY DEF IInv, ApprovalsOK, Approves, Settled
  <2> QED
    BY <2>1, <2>2 DEF ReadOK, Settled
<1>4. CASE TakeGrant(q)
  <2>1. /\ read'[q] = [read[q] EXCEPT !.pc = "deliver"]
        /\ UNCHANGED <<approval, grant>>
        /\ read[q].grant \in Grant /\ Admits(read[q].grant, read[q].device)
        /\ locked'[read[q].grant] = q
    BY <1>2, <1>t, <1>4 DEF TakeGrant, IInv, TypeOK, ReadState
  <2> QED
    BY <1>2, <2>1 DEF ReadOK, Settled, Entitled, Admits, ReadState
<1>5. CASE NoGrant(q)
  <2>1. /\ read'[q].grant = None /\ read'[q].pc \in {"refused", "deliver"}
        /\ read'[q].pc = "deliver" => read[q].approval # None
        /\ read'[q].approval = read[q].approval /\ read'[q].device = read[q].device
        /\ approval' = approval
    BY <1>2, <1>t, <1>5 DEF NoGrant, ReadState
  <2> QED
    BY <1>2, <2>1 DEF ReadOK, Settled, Entitled
<1>6. CASE Deliver(q)
  <2>1. /\ read'[q] = [read[q] EXCEPT !.pc = "done"] /\ read[q].pc = "deliver"
        /\ read[q].grant # None => grant'[read[q].grant].status = "used"
                                   /\ grant'[read[q].grant].device = grant[read[q].grant].device
    BY <1>2, <1>t, <1>6 DEF Deliver, IInv, TypeOK, ReadState, GrantRow
  <2>2. read[q].approval # None => Settled(read[q].approval, read[q].device)'
    <3>1. /\ read[q].device \in Device \union {None}
          /\ read[q].approval # None => read[q].approval \in Approval
      BY <1>2 DEF ReadState
    <3>2. read'[q].device = read[q].device /\ read'[q].approval = read[q].approval
      BY <1>2, <2>1 DEF ReadState
    <3> QED
      BY <1>2, <1>k, <3>1, <3>2 DEF ReadOK, KeepsSettled
  <2> QED
    BY <1>2, <2>1, <2>2 DEF ReadOK, Entitled, ReadState, Settled
<1>7. CASE Corrupted(q)
  <2>1. read'[q] = [read[q] EXCEPT !.pc = "refused"] /\ approval' = approval
    BY <1>t, <1>7 DEF Corrupted
  <2> QED
    BY <1>2, <2>1 DEF ReadOK, Settled, ReadState
<1> QED
  <2>1. \A r \in Read : TakeGrant(r) \/ NoGrant(r) \/ Deliver(r) \/ Corrupted(r) => r = q
    BY <1>1, <1>t DEF TakeGrant, NoGrant, Deliver, Corrupted
  <2>2. \A r \in Read, d \in Device, a \in Approval \union {None}, g \in Grant \union {None} :
            Start(r, d, a, g) => r = q
    BY <1>1, <1>t DEF Start
  <2>3. ~UNCHANGED read
    BY <1>1
  <2>4. \/ \E r \in Read : TakeGrant(r) \/ NoGrant(r) \/ Deliver(r) \/ Corrupted(r)
        \/ \E r \in Read, d \in Device, a \in Approval \union {None}, g \in Grant \union {None} :
              Start(r, d, a, g)
    BY <2>3 DEF Next, vars, Revoke, Expire, Request, Decide, DecideLate, SignIn, TimePasses
  <2> QED
    BY <1>3, <1>4, <1>5, <1>6, <1>7, <2>1, <2>2, <2>4

\* The last of two reads with one grant would have found it used.
LEMMA GrantOnceStep ==
    ASSUME IInv, [Next]_vars
    PROVE  GrantOnce'
<1>t. read \in [Read -> ReadState]
  BY DEF IInv, TypeOK
<1>1. ASSUME NEW r \in Read, Deliver(r), NEW q \in Read, q # r, read[q].pc = "done",
             read[q].grant = read[r].grant
      PROVE  read[r].grant = None
  BY <1>1 DEF IInv, ReadsOK, ReadOK, Deliver
<1>2. ASSUME NEW r \in Read, Deliver(r)
      PROVE  GrantOnce'
  <2>1. /\ read'[r].pc = "done" /\ read'[r].grant = read[r].grant
        /\ \A q \in Read \ {r} : read'[q] = read[q]
    BY <1>t, <1>2 DEF Deliver, ReadState
  <2> QED
    BY <1>1, <1>2, <2>1 DEF GrantOnce, IInv
<1>3. ASSUME \A q \in Read : read'[q].pc = "done" => read'[q] = read[q]
      PROVE  GrantOnce'
  BY <1>3 DEF GrantOnce, IInv
<1>4. ASSUME NEW r \in Read, NEW pc \in {"grant", "deliver", "refused"}, read'[r].pc = pc,
             \A q \in Read \ {r} : read'[q] = read[q]
      PROVE  GrantOnce'
  BY <1>3, <1>4
<1>5. ASSUME NEW r \in Read,
             TakeGrant(r) \/ NoGrant(r) \/ Corrupted(r)
             \/ \E d \in Device, a \in Approval \union {None}, g \in Grant \union {None} :
                   Start(r, d, a, g)
      PROVE  GrantOnce'
  <2>t. read[r] \in ReadState
    BY <1>t
  <2>1. CASE TakeGrant(r)
    BY <1>4, <1>t, <2>t, <2>1 DEF TakeGrant, ReadState
  <2>2. CASE NoGrant(r)
    BY <1>4, <1>t, <2>t, <2>2 DEF NoGrant, ReadState
  <2>3. CASE Corrupted(r)
    BY <1>4, <1>t, <2>t, <2>3 DEF Corrupted, ReadState
  <2>4. ASSUME NEW d \in Device, NEW a \in Approval \union {None},
               NEW g \in Grant \union {None}, Start(r, d, a, g)
        PROVE  GrantOnce'
    BY <1>4, <1>t, <2>4 DEF Start
  <2> QED
    BY <1>5, <2>1, <2>2, <2>3, <2>4
<1>6. CASE read' = read
  BY <1>3, <1>6
<1> QED
  BY <1>2, <1>5, <1>6
  DEF Next, vars, Revoke, Expire, Request, Decide, DecideLate, SignIn, TimePasses

-----------------------------------------------------------------------------
\* Every reachable state satisfies the inductive invariant.
THEOREM Invariance == Spec => []IInv
<1>1. Init => IInv
  BY AccessAssumption
  DEF Init, IInv, TypeOK, ReadsOK, ReadOK, ApprovalsOK, GrantOnce, ApprovalRow, GrantRow, ReadState
<1>2. IInv /\ [Next]_vars => IInv'
  <2> SUFFICES ASSUME IInv, [Next]_vars
               PROVE  IInv'
    OBVIOUS
  <2>1. TypeOK'
    BY TypeStep DEF IInv
  <2>2. ApprovalsOK'
    BY ApprovalStep DEF IInv
  <2> QED
    BY <2>1, <2>2, ReadsStep, GrantOnceStep DEF IInv
<1> QED
  BY <1>1, <1>2, PTL DEF Spec

\* The rows and reads of AccountRecoveryManifestView keep their types.
THEOREM TypeCorrect == Spec => []TypeOK
<1>1. IInv => TypeOK
  BY DEF IInv
<1> QED
  BY <1>1, Invariance, PTL

\* A grant serves one read, whatever overlaps (recovery.py:146-152, 198-200).
THEOREM OneReadPerGrant == Spec => []GrantOnce
<1>1. IInv => GrantOnce
  BY DEF IInv
<1> QED
  BY <1>1, Invariance, PTL

\* No device reads the records with an approval of its own, or with a grant
\* of another device (recovery.py:137-160, 398-412).
THEOREM ReadsAreAllowed == Spec => []ReadAllowed
<1>1. IInv => ReadAllowed
  <2> SUFFICES ASSUME IInv, NEW r \in Read, read[r].pc = "done"
               PROVE  \/ read[r].grant # None /\ grant[read[r].grant].device = read[r].device
                      \/ /\ read[r].approval # None
                         /\ approval[read[r].approval].requester = read[r].device
                         /\ approval[read[r].approval].approver \in Device \ {read[r].device}
    BY DEF ReadAllowed
  <2> QED
    BY DEF IInv, ReadsOK, ReadOK, Entitled, Settled
<1> QED
  BY <1>1, Invariance, PTL

\* A denied, expired or used approval stays so (recovery.py:398-408, 195-197).
THEOREM DecisionsAreFinal == Spec => DecisionFinal
<1>1. IInv /\ [Next]_vars =>
        [\A a \in Approval :
            approval[a].status \in {"denied", "expired", "used"}
               => approval'[a].status = approval[a].status]_vars
  BY ApprovalStep DEF IInv, KeepsFinal
<1> QED
  BY <1>1, Invariance, PTL DEF Spec, DecisionFinal

\* The approval of a read that has been answered is used up.
UsedUp ==
    \A q \in Read : read[q].pc = "done" /\ read[q].approval # None
                      => approval[read[q].approval].status = "used"

LEMMA UsedUpStep ==
    ASSUME IInv, UsedUp, [Next]_vars
    PROVE  UsedUp'
<1> SUFFICES ASSUME NEW q \in Read, read'[q].pc = "done", read'[q].approval # None
             PROVE  approval'[read'[q].approval].status = "used"
  BY DEF UsedUp
<1>t. read \in [Read -> ReadState] /\ approval \in [Approval -> ApprovalRow]
  BY DEF IInv, TypeOK
<1>1. CASE read'[q] = read[q]
  <2>1. read[q].approval \in Approval /\ approval[read[q].approval].status = "used"
    BY <1>1, <1>t DEF UsedUp, ReadState
  <2> QED
    BY <1>1, <2>1, ApprovalStep DEF IInv, KeepsFinal
<1>2. CASE Deliver(q)
  <2>1. read'[q].approval = read[q].approval /\ read[q].approval \in Approval \union {None}
    BY <1>2, <1>t DEF Deliver, ReadState
  <2>2. approval' = [a \in Approval |->
          IF a = read[q].approval THEN [approval[a] EXCEPT !.status = "used"] ELSE approval[a]]
    BY <1>2 DEF Deliver
  <2>3. read[q].approval \in Approval /\ approval[read[q].approval] \in ApprovalRow
    BY <1>t, <2>1
  <2> QED
    BY <2>1, <2>2, <2>3 DEF ApprovalRow
<1>3. CASE ~Deliver(q)
  <2>1. ASSUME read'[q] # read[q]
        PROVE  FALSE
    <3>t. read[q] \in ReadState
      BY <1>t
    <3>1. ASSUME NEW r \in Read, TakeGrant(r) \/ NoGrant(r) \/ Corrupted(r)
          PROVE  FALSE
      <4>1. r = q
        BY <1>t, <2>1, <3>1 DEF TakeGrant, NoGrant, Corrupted
      <4>2. CASE TakeGrant(q)
        BY <1>t, <3>t, <4>2 DEF TakeGrant, ReadState
      <4>3. CASE NoGrant(q)
        <5>1. read'[q].pc \in {"refused", "deliver"}
          BY <1>t, <3>t, <4>3 DEF NoGrant, ReadState
        <5> QED
          BY <5>1
      <4>4. CASE Corrupted(q)
        BY <1>t, <3>t, <4>4 DEF Corrupted, ReadState
      <4> QED
        BY <3>1, <4>1, <4>2, <4>3, <4>4
    <3>2. ASSUME NEW r \in Read, NEW d \in Device, NEW a \in Approval \union {None},
                 NEW g \in Grant \union {None}, Start(r, d, a, g)
          PROVE  FALSE
      BY <1>t, <2>1, <3>2 DEF Start
    <3>3. ASSUME NEW r \in Read, Deliver(r)
          PROVE  FALSE
      BY <1>t, <1>3, <2>1, <3>3 DEF Deliver
    <3> QED
      BY <2>1, <3>1, <3>2, <3>3
      DEF Next, vars, Revoke, Expire, Request, Decide, DecideLate, SignIn, TimePasses
  <2> QED
    BY <2>1, <1>1
<1> QED
  BY <1>2, <1>3

\* Reads that do not overlap do not share an approval: the one that starts
\* later finds it used (recovery.py:137-143, 195-197).
THEOREM NoLaterReuse == Spec => SharedOnlyByOverlap
<1>1. Init => UsedUp
  BY DEF Init, UsedUp
<1>2. IInv /\ UsedUp /\ [Next]_vars => UsedUp'
  BY UsedUpStep
<1>3. IInv /\ UsedUp /\ [Next]_vars =>
        [\A r, q \in Read :
            /\ read[q].pc = "done" /\ read[q].approval # None
            /\ read[r].pc = "idle" /\ read'[r].pc # "idle"
            => read'[r].approval # read[q].approval]_vars
  <2> SUFFICES ASSUME IInv, UsedUp, Next, NEW r \in Read, NEW q \in Read,
                      read[q].pc = "done", read[q].approval # None,
                      read[r].pc = "idle", read'[r].pc # "idle"
               PROVE  read'[r].approval # read[q].approval
    OBVIOUS
  <2>t. read \in [Read -> ReadState]
    BY DEF IInv, TypeOK
  <2>1. ASSUME NEW d \in Device, NEW a \in Approval \union {None},
               NEW g \in Grant \union {None}, Start(r, d, a, g)
        PROVE  read'[r].approval # read[q].approval
    BY <2>t, <2>1 DEF Start, Approves, UsedUp
  <2>2. ASSUME NEW x \in Read, TakeGrant(x) \/ NoGrant(x) \/ Deliver(x) \/ Corrupted(x)
        PROVE  FALSE
    <3>1. x # r
      BY <2>2 DEF TakeGrant, NoGrant, Deliver, Corrupted
    <3> QED
      BY <2>t, <2>2, <3>1 DEF TakeGrant, NoGrant, Deliver, Corrupted
  <2>3. ASSUME NEW x \in Read, NEW d \in Device, NEW a \in Approval \union {None},
               NEW g \in Grant \union {None}, Start(x, d, a, g)
        PROVE  Start(r, d, a, g)
    BY <2>t, <2>3 DEF Start
  <2> QED
    BY <2>1, <2>2, <2>3 DEF Next, Revoke, Expire, Request, Decide, DecideLate, SignIn, TimePasses
<1> QED
  BY <1>1, <1>2, <1>3, Invariance, PTL DEF Spec, SharedOnlyByOverlap
=============================================================================
